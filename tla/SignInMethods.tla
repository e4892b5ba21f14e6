--------------------------- MODULE SignInMethods ---------------------------
(***************************************************************************)
(* How Users sign in, and what that ties to their Provider connections:    *)
(* linking and unlinking a wallet (server/adapters/repos/wallets.ts),      *)
(* linking a Provider account and disconnecting a Provider                 *)
(* (disconnectProviderConnection and ensureProviderConnection of           *)
(* server/usecases/external-resources.ts), and the triggers on the account *)
(* table that keep the Provider connection beside the account.             *)
(***************************************************************************)
EXTENDS Naturals

CONSTANTS
  Handlers,  \* invocations in flight, used again for later requests
  Users,     \* Users with an account at one Provider, and one wallet between them
  MaxLinks,  \* Provider accounts a User links in a run
  None

VARIABLES
  wallet,      \* the walletAddress row's User, or None
  siwe,        \* the User of the wallet's account row, or None
  provider,    \* each User's account row for the Provider, or None
  links,       \* Provider accounts linked so far: an account is known by its number
  connection,  \* each User's providerConnection row, or None
  stranded,    \* Users whose last account went with a Provider's
  disturbed,   \* of each User: "overlapped" once two invocations have, "halfway" when
               \* one stopped between its statements about the wallet, which has not
               \* been unlinked since, or "no"
  pc, ctx      \* where an invocation stands, its User and the account it has read

vars == <<wallet, siwe, provider, links, connection, stranded, disturbed, pc, ctx>>

Accounts == 1 .. MaxLinks
Connection == [account : Accounts \cup {None}, active : BOOLEAN, authorized : BOOLEAN]
Steps == {"idle", "l_address", "l_account", "u_account", "d_read", "d_batch", "x_delete",
          "c_upsert", "c_store"}
Context == [user : Users \cup {None}, account : Accounts \cup {None}]
NoContext == [user |-> None, account |-> None]

TypeOK ==
  /\ wallet \in Users \cup {None} /\ siwe \in Users \cup {None}
  /\ provider \in [Users -> Accounts \cup {None}]
  /\ links \in [Users -> Accounts]
  /\ connection \in [Users -> Connection \cup {None}]
  /\ stranded \subseteq Users
  /\ disturbed \in [Users -> {"no", "halfway", "overlapped"}]
  /\ pc \in [Handlers -> Steps]
  /\ ctx \in [Handlers -> Context]

(* Each User signed up with the Provider.                                  *)
Init ==
  /\ wallet = None
  /\ siwe = None
  /\ provider = [u \in Users |-> 1]
  /\ links = [u \in Users |-> 1]
  /\ connection = [u \in Users |-> [account |-> 1, active |-> TRUE, authorized |-> FALSE]]
  /\ stranded = {}
  /\ disturbed = [u \in Users |-> "no"]
  /\ pc = [w \in Handlers |-> "idle"]
  /\ ctx = [w \in Handlers |-> NoContext]

-----------------------------------------------------------------------------
rows == <<wallet, siwe, provider, links, connection, stranded>>

Await(w, step, c) ==
  /\ pc' = [pc EXCEPT ![w] = step]
  /\ ctx' = [ctx EXCEPT ![w] = c]
Answer(w) == Await(w, "idle", NoContext)

InFlight(u) == \E w \in Handlers : pc[w] # "idle" /\ ctx[w].user = u

(* Another invocation is about u already.                                  *)
Overlaps(u) ==
  disturbed' = IF InFlight(u) THEN [disturbed EXCEPT ![u] = "overlapped"] ELSE disturbed

StopsHalfway(u) ==
  disturbed' = [disturbed EXCEPT ![u] = IF @ = "no" THEN "halfway" ELSE @]

(* A request of u arrives.                                                 *)
Begin(w, u, step, account) ==
  /\ pc[w] = "idle"
  /\ Await(w, step, [user |-> u, account |-> account])
  /\ Overlaps(u)

(* listLinkedAccounts: the Provider's and the wallet's.                    *)
OtherMethod(u) == siwe = u

(* The trigger's condition.                                                *)
Unused(row) == row.account = None /\ ~row.authorized

(* account_provider_connection_delete, after any account but a password is *)
(* deleted: its connection is detached, then every connection, of any      *)
(* User, that is detached and holds no authorization is deleted.           *)
Swept(before, u, account) ==
  LET detached == [v \in Users |->
        IF v = u /\ before[v] # None /\ account # None /\ before[v].account = account
        THEN [before[v] EXCEPT !.account = None] ELSE before[v]]
  IN  [v \in Users |-> IF detached[v] # None /\ Unused(detached[v]) THEN None ELSE detached[v]]

(* The Provider account has its active connection.                         *)
Attached(u) ==
  provider[u] # None =>
    connection[u] # None /\ connection[u].active /\ connection[u].account = provider[u]

(* Mutant: the disconnection does not look for another method.             *)
Whatever(u) == TRUE

(* disconnectProviderConnection lets a sign-in account go when another     *)
(* account is there; the OAuth library's unlinking, too.                   *)
MayLetGo(u) == provider[u] # None => OtherMethod(u)

-----------------------------------------------------------------------------
(* linkWalletAddress: another User's wallet is refused and one's own is    *)
(* answered as it is; otherwise the address ...                            *)
LinkWalletBegin(w, u) ==
  /\ wallet = None
  /\ Begin(w, u, "l_address", None)
  /\ UNCHANGED rows

(* ... is inserted, unless another has been (a unique index) ...           *)
InsertAddress(w) ==
  /\ pc[w] = "l_address"
  /\ IF wallet = None
     THEN wallet' = ctx[w].user /\ Await(w, "l_account", ctx[w])
     ELSE UNCHANGED wallet /\ Answer(w)
  /\ UNCHANGED <<siwe, provider, links, connection, stranded, disturbed>>

(* ... and its account by another statement, under another unique index:   *)
(* it fails when a User unlinking the same wallet has deleted the address  *)
(* alone so far, and the address stays without an account.                 *)
InsertAccount(w) ==
  /\ pc[w] = "l_account"
  /\ siwe' = IF siwe = None THEN ctx[w].user ELSE siwe
  /\ IF siwe = None THEN UNCHANGED disturbed ELSE StopsHalfway(ctx[w].user)
  /\ Answer(w)
  /\ UNCHANGED <<wallet, provider, links, connection, stranded>>

(* unlinkWalletAddress deletes the User's address, then the account, and   *)
(* does not ask for another sign-in method.                                *)
UnlinkAddress(w, u) ==
  /\ Begin(w, u, "u_account", None)
  /\ wallet' = IF wallet = u THEN None ELSE wallet
  /\ UNCHANGED <<siwe, provider, links, connection, stranded>>

UnlinkAccount(w) ==
  /\ pc[w] = "u_account"
  /\ IF siwe = ctx[w].user
     THEN siwe' = None /\ connection' = Swept(connection, ctx[w].user, None)
     ELSE UNCHANGED <<siwe, connection>>
  /\ disturbed' = [disturbed EXCEPT ![ctx[w].user] = IF @ = "halfway" THEN "no" ELSE @]
  /\ Answer(w)
  /\ UNCHANGED <<wallet, provider, links, stranded>>

-----------------------------------------------------------------------------
(* The OAuth library links a Provider account; the triggers create the     *)
(* connection or attach the one there is, unless it has an account.        *)
LinkProvider(u) ==
  /\ provider[u] = None /\ links[u] < MaxLinks
  /\ connection[u] # None => connection[u].account = None
  /\ links' = [links EXCEPT ![u] = @ + 1]
  /\ provider' = [provider EXCEPT ![u] = links'[u]]
  /\ connection' = [connection EXCEPT ![u] =
       [account |-> links'[u], active |-> TRUE, authorized |-> @ # None /\ @.authorized]]
  /\ Overlaps(u)
  /\ UNCHANGED <<wallet, siwe, stranded, pc, ctx>>

(* It unlinks one that is not the User's last account.                     *)
UnlinkProviderBegin(w, u) ==
  /\ provider[u] # None /\ OtherMethod(u)
  /\ Begin(w, u, "x_delete", provider[u])
  /\ UNCHANGED rows

Holds(u, account) == account # None /\ provider[u] = account

DeleteAccount(u, account) ==
  IF Holds(u, account)
  THEN /\ provider' = [provider EXCEPT ![u] = None]
       /\ stranded' = IF OtherMethod(u) \/ disturbed[u] = "overlapped" THEN stranded ELSE stranded \cup {u}
  ELSE UNCHANGED <<provider, stranded>>

UnlinkProvider(w) ==
  LET u == ctx[w].user IN
  /\ pc[w] = "x_delete"
  /\ DeleteAccount(u, ctx[w].account)
  /\ connection' = IF Holds(u, ctx[w].account)
                   THEN Swept(connection, u, ctx[w].account) ELSE connection
  /\ Answer(w)
  /\ UNCHANGED <<wallet, siwe, links, disturbed>>

-----------------------------------------------------------------------------
(* disconnectProviderConnection checks that another method is there; then  *)
(* revokes the authorizations ...                                          *)
DisconnectBegin(w, u) ==
  /\ connection[u] # None
  /\ connection[u].account # None => MayLetGo(u)
  /\ Begin(w, u, "d_read", None)
  /\ UNCHANGED rows

(* ... reads the connection again ...                                      *)
ReadConnection(w) ==
  LET row == connection[ctx[w].user] IN
  /\ pc[w] = "d_read"
  /\ IF row = None THEN Answer(w)
     ELSE Await(w, "d_batch", [ctx[w] EXCEPT !.account = row.account])
  /\ UNCHANGED <<rows, disturbed>>

(* ... and in one batch revokes it and deletes the account it had.         *)
Disconnect(w) ==
  LET u == ctx[w].user
      revoked == IF connection[u] = None THEN connection
                 ELSE [connection EXCEPT ![u].account = None, ![u].active = FALSE]
  IN
  /\ pc[w] = "d_batch"
  /\ DeleteAccount(u, ctx[w].account)
  /\ connection' = IF Holds(u, ctx[w].account)
                   THEN Swept(revoked, u, ctx[w].account) ELSE revoked
  /\ Answer(w)
  /\ UNCHANGED <<wallet, siwe, links, disturbed>>

-----------------------------------------------------------------------------
(* The callback of a resource connection: ensureProviderConnection reads   *)
(* the connection for the account to keep ...                              *)
ConnectBegin(w, u) ==
  /\ Begin(w, u, "c_upsert", IF connection[u] = None THEN None ELSE connection[u].account)
  /\ UNCHANGED rows

(* ... and inserts or updates it with that account, which a foreign key    *)
(* wants to exist ...                                                      *)
UpsertConnection(w) ==
  LET u == ctx[w].user IN
  /\ pc[w] = "c_upsert"
  /\ IF ctx[w].account \in {None, provider[u]}
     THEN /\ connection' = [connection EXCEPT ![u] =
               [account |-> ctx[w].account, active |-> TRUE,
                authorized |-> @ # None /\ @.authorized]]
          /\ Await(w, "c_store", ctx[w])
     ELSE UNCHANGED connection /\ Answer(w)
  /\ UNCHANGED <<wallet, siwe, provider, links, stranded, disturbed>>

(* ... before the authorization is stored under it.                        *)
StoreAuthorization(w) ==
  LET u == ctx[w].user IN
  /\ pc[w] = "c_store"
  /\ connection' = IF connection[u] = None THEN connection
                   ELSE [connection EXCEPT ![u].authorized = TRUE]
  /\ Answer(w)
  /\ UNCHANGED <<wallet, siwe, provider, links, stranded, disturbed>>

(* An invocation that fails or is stopped leaves what it has written.      *)
Abandon(w) ==
  /\ pc[w] # "idle"
  /\ IF pc[w] \in {"l_account", "u_account"} THEN StopsHalfway(ctx[w].user)
     ELSE UNCHANGED disturbed
  /\ Answer(w)
  /\ UNCHANGED rows

Next ==
  \/ \E u \in Users : LinkProvider(u)
  \/ \E w \in Handlers :
       \/ \E u \in Users :
            \/ LinkWalletBegin(w, u) \/ UnlinkAddress(w, u) \/ UnlinkProviderBegin(w, u)
            \/ DisconnectBegin(w, u) \/ ConnectBegin(w, u)
       \/ InsertAddress(w) \/ InsertAccount(w) \/ UnlinkAccount(w) \/ UnlinkProvider(w)
       \/ ReadConnection(w) \/ Disconnect(w) \/ UpsertConnection(w) \/ StoreAuthorization(w)
       \/ Abandon(w)

Spec == Init /\ [][Next]_vars

-----------------------------------------------------------------------------
(* Whatever overlaps, no connection names an account that is not there,    *)
(* with other Users' account deletions sweeping the table.  And for a User *)
(* of whose requests no two have overlapped: a Provider account is the one *)
(* its active connection is attached to; the disconnection or unlinking of *)
(* a Provider does not take the User's last account; and the wallet's      *)
(* address and account are both the User's or neither is, whoever else was *)
(* linking the same wallet, save for a User whose link or unlinking of it  *)
(* stopped half-way, until the User unlinks it.  Unlinking a wallet makes  *)
(* no check and may take the last account.                                 *)
AccountsAreWhole ==
  /\ \A u \in Users : connection[u] # None => connection[u].account \in {None, provider[u]}
  /\ stranded = {}
  /\ \A u \in Users : disturbed[u] # "overlapped" =>
       /\ Attached(u)
       /\ ~InFlight(u) /\ disturbed[u] = "no" => (wallet = u <=> siwe = u)

-----------------------------------------------------------------------------
(* What keeps it so (see PlatformProofs).                                  *)

HandlesAUser == \A w \in Handlers : pc[w] # "idle" => ctx[w].user \in Users

(* Between the two statements about a wallet.                              *)
HalfWay == {"l_account", "u_account"}

(* What an invocation may rely on while no other one is about its User.    *)
Given(step, c) ==
  /\ step = "l_account" => wallet = c.user /\ (siwe = c.user => disturbed[c.user] = "halfway")
  /\ step = "u_account" => wallet # c.user
  /\ step \in {"d_read", "d_batch"} => MayLetGo(c.user)
  /\ step \in {"d_batch", "c_upsert"} => provider[c.user] \in {None, c.account}
  /\ step = "x_delete" => OtherMethod(c.user)

AloneFor(u) ==
  /\ \A v, w \in Handlers :
       pc[v] # "idle" /\ pc[w] # "idle" /\ ctx[v].user = u /\ ctx[w].user = u => v = w
  /\ Attached(u)
  /\ \/ wallet = u <=> siwe = u
     \/ disturbed[u] = "halfway"
     \/ \E w \in Handlers : pc[w] \in HalfWay /\ ctx[w].user = u
  /\ \A w \in Handlers : ctx[w].user = u => Given(pc[w], ctx[w])

IInv ==
  /\ TypeOK /\ HandlesAUser
  /\ \A u \in Users : connection[u] # None => connection[u].account \in {None, provider[u]}
  /\ stranded = {}
  /\ \A u \in Users : disturbed[u] # "overlapped" => AloneFor(u)
=============================================================================

--------------------------- MODULE ConnectorClient ---------------------------
(***************************************************************************)
(* The OAuth client a Connector holds at an external authorization server, *)
(* registered, updated and replaced over RFC 7591 and 7592                 *)
(* (server/usecases/connectors.ts over server/adapters/repos/connectors.ts)*)
(* and the account connection that is made with it                         *)
(* (server/usecases/external-resources.ts).                                *)
(*                                                                         *)
(* A replaced client is retired under its generation: credentials name the *)
(* generation that obtained them.  A client's key stands for its secret    *)
(* and its registration access token, which the server may replace with    *)
(* any update; key 0 comes without a registration to manage.               *)
(***************************************************************************)
EXTENDS Naturals

CONSTANTS
  Handlers,    \* invocations in flight, used again for later requests
  MaxClients,  \* clients registered in a run
  MaxKeys,     \* keys of one client
  None

VARIABLES
  connector,   \* the row of the Connector
  server,      \* the key each client has now and the configuration that made it
  clients,     \* clients registered so far
  intent,      \* the pending connection intent, and the client it names
  credential,  \* the provider credential: generation and client, or None
  overwritten, \* a registration update was stored over another client's
  pc, ctx      \* where an invocation stands and what it has read

vars == <<connector, server, clients, intent, credential, overwritten, pc, ctx>>

Clients == 1 .. MaxClients
Key == [client : Clients, version : 0 .. MaxKeys]
Retired == [generation : Clients, client : Clients]
Row == [config : Clients, client : Clients, key : Key, generation : Clients,
        retired : SUBSET Retired]
Steps == {"idle", "c_read", "c_metadata", "c_put", "c_save", "c_register", "c_rotate",
          "c_winner", "i_store", "k_store", "u_register", "u_update", "u_revoke"}
Context == [row : Row, key : Key, generation : 0 .. MaxClients]

NoContext == [row |-> [config |-> 1, client |-> 1, key |-> [client |-> 1, version |-> 0],
                       generation |-> 1, retired |-> {}],
              key |-> [client |-> 1, version |-> 0], generation |-> 0]

TypeOK ==
  /\ connector \in Row
  /\ server \in [Clients -> [version : 0 .. MaxKeys, config : Clients]]
  /\ clients \in Clients
  /\ intent \in Retired \cup {None}
  /\ credential \in Retired \cup {None}
  /\ overwritten \in BOOLEAN
  /\ pc \in [Handlers -> Steps]
  /\ ctx \in [Handlers -> Context]

(* createConnector registered client 1 as generation 1.                    *)
Init ==
  /\ \E version \in {0, 1} :
       /\ connector = [config |-> 1, client |-> 1, key |-> [client |-> 1, version |-> version],
                       generation |-> 1, retired |-> {}]
       /\ server = [c \in Clients |-> [version |-> version, config |-> 1]]
  /\ clients = 1
  /\ intent = None
  /\ credential = None
  /\ overwritten = FALSE
  /\ pc = [w \in Handlers |-> "idle"]
  /\ ctx = [w \in Handlers |-> NoContext]

-----------------------------------------------------------------------------
remote == <<server, clients>>
local == <<connector, intent, credential, overwritten>>

Await(w, step, c) ==
  /\ pc' = [pc EXCEPT ![w] = step]
  /\ ctx' = [ctx EXCEPT ![w] = c]
Goto(w, step) == Await(w, step, ctx[w])
Answer(w) == Await(w, "idle", NoContext)

(* ensureDynamicConnectorScopes returns; its caller goes on.               *)
Ensured(w, generation) == Await(w, "i_store", [NoContext EXCEPT !.generation = generation])

(* resolveExternalAuthorization: a retired generation's client before the  *)
(* current one, or None.                                                   *)
Resolve(row, generation) ==
  IF \E old \in row.retired : old.generation = generation
  THEN (CHOOSE old \in row.retired : old.generation = generation).client
  ELSE IF generation = row.generation THEN row.client ELSE None

Managed(key) == key.version > 0
Authorized(key) == server[key.client].version = key.version

(* Mutant: the rotation is made on the id alone.                           *)
ByIdAlone(w) == TRUE

(* The WHERE of rotateResourceClientGeneration.                            *)
SameGeneration(w) == connector.generation = ctx[w].row.generation

-----------------------------------------------------------------------------
(* ensureDynamicConnectorScopes: when the registration as it is stored     *)
(* covers the request, it is read back if it can be managed.               *)
EnsureBegin(w) ==
  /\ pc[w] = "idle"
  /\ \/ Await(w, "c_metadata", [NoContext EXCEPT !.row = connector])
     \/ Managed(connector.key) /\ Await(w, "c_read", [NoContext EXCEPT !.row = connector])
     \/ ~Managed(connector.key) /\ Ensured(w, connector.generation)
  /\ UNCHANGED <<local, remote>>

(* GET: another client's registration is an error; one that covers the     *)
(* request and matches is good; 401, 404, 405 and 501 go on.               *)
ReadRegistration(w) ==
  /\ pc[w] = "c_read"
  /\ LET key == ctx[w].row.key IN
     IF Authorized(key) /\ key.client # ctx[w].row.client THEN Answer(w)
     ELSE \/ Authorized(key) /\ Ensured(w, ctx[w].row.generation)
          \/ Goto(w, "c_metadata")
  /\ UNCHANGED <<local, remote>>

(* The server's metadata must advertise what is requested (or Abandon).    *)
FetchMetadata(w) ==
  /\ pc[w] = "c_metadata"
  /\ Goto(w, IF Managed(ctx[w].row.key) THEN "c_put" ELSE "c_register")
  /\ UNCHANGED <<local, remote>>

(* PUT: the server updates the registration of the token's client, with a  *)
(* new key if it likes, or has the client registered again.                *)
UpdateRegistration(w) ==
  /\ pc[w] = "c_put"
  /\ LET key == ctx[w].row.key IN
     \/ /\ Authorized(key)
        /\ \E version \in {key.version, key.version + 1} \cap 1 .. MaxKeys :
             /\ server' = [server EXCEPT ![key.client].version = version]
             /\ IF key.client = ctx[w].row.client
                THEN Await(w, "c_save", [ctx[w] EXCEPT !.key =
                                           [client |-> key.client, version |-> version]])
                ELSE Answer(w)
     \/ Goto(w, "c_register") /\ UNCHANGED server
  /\ UNCHANGED <<local, clients>>

(* update: by id, whatever the row is by now.                              *)
SaveRegistration(w) ==
  /\ pc[w] = "c_save"
  /\ connector' = [connector EXCEPT !.key = ctx[w].key]
  /\ overwritten' = (ctx[w].key.client # connector.client)
  /\ Ensured(w, ctx[w].row.generation)
  /\ UNCHANGED <<intent, credential, remote>>

(* POST: a client of its own, with or without a registration to manage.    *)
Register(w, config, then) ==
  \E version \in {0, 1} :
    /\ clients < MaxClients /\ clients' = clients + 1
    /\ server' = [server EXCEPT ![clients'] = [version |-> version, config |-> config]]
    /\ Await(w, then, [ctx[w] EXCEPT !.key = [client |-> clients', version |-> version]])

RegisterReplacement(w) ==
  /\ pc[w] = "c_register" /\ Register(w, ctx[w].row.config, "c_rotate")
  /\ UNCHANGED local

RotateGeneration(w) ==
  /\ pc[w] = "c_rotate"
  /\ LET row == ctx[w].row  next == ctx[w].row.generation + 1 IN
     IF SameGeneration(w)
     THEN /\ connector' = [connector EXCEPT
               !.client = ctx[w].key.client, !.key = ctx[w].key, !.generation = next,
               !.retired = row.retired \cup {[generation |-> row.generation, client |-> row.client]}]
          /\ overwritten' = FALSE
          /\ Ensured(w, next)
     ELSE UNCHANGED <<connector, overwritten>> /\ Goto(w, "c_winner")
  /\ UNCHANGED <<intent, credential, remote>>

(* The loser takes a newer generation if it serves the request, too.       *)
ReadWinner(w) ==
  /\ pc[w] = "c_winner"
  /\ \/ connector.generation > ctx[w].row.generation /\ Ensured(w, connector.generation)
     \/ Answer(w)
  /\ UNCHANGED <<local, remote>>

-----------------------------------------------------------------------------
(* createResourceConnectionIntent resolves the generation it got and sends *)
(* the User to the authorization server with that client; the newest       *)
(* intent is followed.                                                     *)
CreateIntent(w) ==
  /\ pc[w] = "i_store"
  /\ LET client == Resolve(connector, ctx[w].generation) IN
     intent' = IF client = None THEN intent
               ELSE [generation |-> ctx[w].generation, client |-> client]
  /\ Answer(w)
  /\ UNCHANGED <<connector, credential, overwritten, remote>>

(* completeResourceConnectionIntent takes the intent and redeems the code, *)
(* which the server grants to the client that asked for it alone.          *)
RedeemCode(w) ==
  /\ pc[w] = "idle" /\ intent # None
  /\ intent' = None
  /\ IF Resolve(connector, intent.generation) = intent.client
     THEN Await(w, "k_store", [NoContext EXCEPT
                                 !.key.client = intent.client, !.generation = intent.generation])
     ELSE UNCHANGED <<pc, ctx>>
  /\ UNCHANGED <<connector, credential, overwritten, remote>>

StoreCredential(w) ==
  /\ pc[w] = "k_store"
  /\ credential' = [generation |-> ctx[w].generation, client |-> ctx[w].key.client]
  /\ Answer(w)
  /\ UNCHANGED <<connector, intent, overwritten, remote>>

(* updateConnector with a new resource authorization: a client is          *)
(* registered, the row starts again at generation 1, by id, and then the   *)
(* credentials obtained so far are revoked.                                *)
ReconfigureBegin(w) ==
  /\ pc[w] = "idle" /\ Goto(w, "u_register")
  /\ UNCHANGED <<local, remote>>

RegisterNew(w) ==
  /\ pc[w] = "u_register" /\ Register(w, clients + 1, "u_update")
  /\ UNCHANGED local

Reconfigure(w) ==
  /\ pc[w] = "u_update"
  /\ connector' = [config |-> ctx[w].key.client, client |-> ctx[w].key.client,
                   key |-> ctx[w].key, generation |-> 1, retired |-> {}]
  /\ overwritten' = FALSE
  /\ Await(w, "u_revoke", NoContext)
  /\ UNCHANGED <<intent, credential, remote>>

RevokeAuthorizations(w) ==
  /\ pc[w] = "u_revoke"
  /\ credential' = None
  /\ Answer(w)
  /\ UNCHANGED <<connector, intent, overwritten, remote>>

-----------------------------------------------------------------------------
(* The invocation dies between two steps, or a request fails.              *)
Abandon(w) ==
  /\ pc[w] # "idle" /\ Answer(w)
  /\ UNCHANGED <<local, remote>>

Next ==
  \E w \in Handlers :
    \/ EnsureBegin(w) \/ ReadRegistration(w) \/ FetchMetadata(w) \/ UpdateRegistration(w)
    \/ SaveRegistration(w) \/ RegisterReplacement(w) \/ RotateGeneration(w) \/ ReadWinner(w)
    \/ CreateIntent(w) \/ RedeemCode(w) \/ StoreCredential(w)
    \/ ReconfigureBegin(w) \/ RegisterNew(w) \/ Reconfigure(w) \/ RevokeAuthorizations(w)
    \/ Abandon(w)

Spec == Init /\ [][Next]_vars

-----------------------------------------------------------------------------
(* Properties.                                                             *)

(* The clients the row names were registered for its configuration.        *)
OneConfiguration ==
  \A c \in {connector.client} \cup {old.client : old \in connector.retired} :
    server[c].config = connector.config

(* Through any rotation a credential keeps the client that obtained it:    *)
(* the generation it names resolves to that client or to none, unless a    *)
(* new configuration, which counts from generation 1 again, came between.  *)
(* And the key stored with a client is its own, unless a registration      *)
(* update that a rotation or a new configuration beat was stored after it. *)
GenerationsKeepTheirClients ==
  /\ credential # None /\ OneConfiguration /\ server[credential.client].config = connector.config
       => Resolve(connector, credential.generation) \in {credential.client, None}
  /\ overwritten \/ connector.key.client = connector.client

-----------------------------------------------------------------------------
(* What keeps it so (see PlatformProofs).                                  *)

(* The client each generation of a row stands for, which a rotation that   *)
(* meets no new configuration only adds to.                                *)
Line(row) == row.retired \cup {[generation |-> row.generation, client |-> row.client]}
Pure(row) == \A old \in Line(row) : server[old.client].config = row.config

Told(row) ==
  /\ row.config <= clients /\ row.generation <= clients
  /\ \A old \in Line(row) : old.client <= clients
  /\ \A old \in row.retired : old.generation < row.generation
  /\ \A a, b \in row.retired : a.generation = b.generation => a = b

(* A row of the configuration in force was read before the row there is.   *)
Earlier(row) ==
  row.config = connector.config =>
    /\ row.generation <= connector.generation
    /\ row.generation = connector.generation => Line(row) = Line(connector)
    /\ Pure(connector) => Line(row) \subseteq Line(connector)

(* A generation and the client that it once resolved to.                   *)
Held(pair) ==
  /\ pair.client <= clients
  /\ Pure(connector) /\ server[pair.client].config = connector.config =>
       pair \in Line(connector)

(* Steps that have read the row.                                           *)
Reads == {"c_read", "c_metadata", "c_put", "c_save", "c_register", "c_rotate", "c_winner"}

Given(step, c) ==
  /\ c.key.client <= clients
  /\ step \in Reads => Told(c.row) /\ Earlier(c.row)
  /\ step = "c_rotate" =>
       c.row.generation < clients /\ server[c.key.client].config = c.row.config
  /\ step = "k_store" =>
       c.generation > 0 /\ Held([generation |-> c.generation, client |-> c.key.client])
  /\ step = "u_update" => server[c.key.client].config = c.key.client

(* A client registered for a configuration that is still to be stored, and *)
(* the configuration itself, is known to no one but its invocation.        *)
New(c) ==
  /\ c > 1 /\ connector.config # c
  /\ \A old \in Line(connector) \cup ({intent, credential} \ {None}) : old.client # c
  /\ \A d \in 1 .. clients : server[d].config = c => d = c
Apart(c, step, context) ==
  /\ context.key.client # c
  /\ step \in Reads =>
       context.row.config # c /\ \A old \in Line(context.row) : old.client # c
NewIsUnknown ==
  \A w \in Handlers : pc[w] = "u_update" =>
    /\ New(ctx[w].key.client)
    /\ \A v \in Handlers \ {w} : Apart(ctx[w].key.client, pc[v], ctx[v])

IInv ==
  /\ TypeOK /\ Told(connector) /\ NewIsUnknown
  /\ \A c \in 1 .. clients : server[c].config <= clients
  /\ \A pair \in {intent, credential} \ {None} : Held(pair)
  /\ overwritten \/ connector.key.client = connector.client
  /\ \A w \in Handlers : Given(pc[w], ctx[w])
=============================================================================

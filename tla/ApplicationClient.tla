------------------------- MODULE ApplicationClient -------------------------
(***************************************************************************)
(* An Application and the OAuth client the OAuth provider reads in its     *)
(* place (server/adapters/repos/applications.ts): the client repeats the   *)
(* Application's scopes, its standard ones followed by those of Resource   *)
(* Servers, and the hash of the client secret in force.  Changes of a      *)
(* Resource Server (server/adapters/repos/authorization.ts) take its scopes*)
(* from the Application alone.                                             *)
(***************************************************************************)
EXTENDS Naturals, FiniteSets

CONSTANTS
  Handlers,    \* invocations in flight, used again for later requests
  Values,      \* values one part of the scopes can take
  MaxSecrets,  \* client secrets generated in a run
  MaxUpdates,  \* writes of the Application's scopes in a run
  None

VARIABLES
  application,  \* [Parts -> Values], or None once deleted
  client,       \* the oauthClient row: the secret's hash and the scopes, or None
  secrets,      \* applicationClientSecret rows
  generated,    \* secrets generated so far; a secret is known by its number
  updates,      \* writes of the Application's scopes so far
  apart,        \* parts of the scopes that were last written where the client was
                \* not, or in the client from a stale reading
  pc, ctx       \* where an invocation stands and what it has read

vars == <<application, client, secrets, generated, updates, apart, pc, ctx>>

Parts == {"oidc", "resource"}
ScopeValues == [Parts -> Values]
Hashes == 1 .. MaxSecrets
Secret == [version : Hashes, hash : Hashes, active : BOOLEAN]
Context == [hash : Hashes \cup {None}, version : Hashes \cup {None}, part : Parts \cup {None},
            scopes : ScopeValues \cup {None}, begun : 0 .. MaxUpdates]
NoContext == [hash |-> None, version |-> None, part |-> None, scopes |-> None, begun |-> 0]

TypeOK ==
  /\ application \in ScopeValues \cup {None}
  /\ client \in [secret : Hashes, scopes : ScopeValues] \cup {None}
  /\ secrets \subseteq Secret
  /\ generated \in Hashes
  /\ updates \in 0 .. MaxUpdates
  /\ apart \subseteq Parts
  /\ pc \in [Handlers -> {"idle", "s_read", "s_batch", "u_batch", "n_batch"}]
  /\ ctx \in [Handlers -> Context]

(* create inserts the client, the Application and its first secret in one  *)
(* batch; the secret is version 1.                                         *)
Init ==
  /\ application \in ScopeValues
  /\ client = [secret |-> 1, scopes |-> application]
  /\ secrets = {[version |-> 1, hash |-> 1, active |-> TRUE]}
  /\ generated = 1
  /\ updates = 0
  /\ apart = {}
  /\ pc = [w \in Handlers |-> "idle"]
  /\ ctx = [w \in Handlers |-> NoContext]

-----------------------------------------------------------------------------
Await(w, step, c) ==
  /\ pc' = [pc EXCEPT ![w] = step]
  /\ ctx' = [ctx EXCEPT ![w] = c]
Answer(w) == Await(w, "idle", NoContext)

Version == Cardinality(secrets)

(* Mutant: no unique index on the version.                                 *)
AnyVersion(version) == version # None

(* applicationClientSecret_applicationId_version_unique.                   *)
FreeVersion(version) == \A secret \in secrets : secret.version # version

(* What the client is to read: the part that is patched beside the other   *)
(* as it was read.                                                         *)
Merged(part, value) == [application EXCEPT ![part] = value]

-----------------------------------------------------------------------------
(* rotateApplicationSecret generates the secret; rotateSecret reads the    *)
(* latest version ...                                                      *)
RotateBegin(w) ==
  /\ pc[w] = "idle"
  /\ application # None /\ generated < MaxSecrets
  /\ generated' = generated + 1
  /\ Await(w, "s_read", [NoContext EXCEPT !.hash = generated + 1, !.version = Version + 1])
  /\ UNCHANGED <<application, client, secrets, updates, apart>>

(* ... and the Application; of one that is gone, it answers the secret     *)
(* without storing it.                                                     *)
ReadApplication(w) ==
  /\ pc[w] = "s_read"
  /\ IF application = None THEN Answer(w) ELSE Await(w, "s_batch", ctx[w])
  /\ UNCHANGED <<application, client, secrets, generated, updates, apart>>

(* The batch fails as a whole on a version that is taken, and on an        *)
(* Application deleted since.                                              *)
StoreSecret(w) ==
  /\ pc[w] = "s_batch"
  /\ IF application # None /\ FreeVersion(ctx[w].version)
     THEN /\ secrets' = {[secret EXCEPT !.active = FALSE] : secret \in secrets}
                          \cup {[version |-> ctx[w].version, hash |-> ctx[w].hash, active |-> TRUE]}
          /\ client' = [client EXCEPT !.secret = ctx[w].hash]
     ELSE UNCHANGED <<secrets, client>>
  /\ Answer(w)
  /\ UNCHANGED <<application, generated, updates, apart>>

(* update reads the Application, and in one batch writes the columns of    *)
(* the patch and the client's scopes made of the patch and what was read.  *)
UpdateBegin(w, part, value) ==
  /\ pc[w] = "idle"
  /\ application # None /\ updates < MaxUpdates
  /\ Await(w, "u_batch", [NoContext EXCEPT !.part = part, !.scopes = Merged(part, value),
                                           !.begun = updates])
  /\ UNCHANGED <<application, client, secrets, generated, updates, apart>>

Update(w) ==
  /\ pc[w] = "u_batch"
  /\ updates < MaxUpdates
  /\ IF application # None
     THEN /\ application' = [application EXCEPT ![ctx[w].part] = ctx[w].scopes[ctx[w].part]]
          /\ client' = [client EXCEPT !.scopes = ctx[w].scopes]
          /\ updates' = updates + 1
          /\ apart' = IF ctx[w].begun = updates THEN {} ELSE Parts \ {ctx[w].part}
     ELSE UNCHANGED <<application, client, updates, apart>>
  /\ Answer(w)
  /\ UNCHANGED <<secrets, generated>>

(* replaceResourceDiscovery, and updateResource to private, read every     *)
(* Application, and write in a batch what is left of its Resource Servers' *)
(* scopes ...                                                              *)
WithdrawBegin(w, value) ==
  /\ pc[w] = "idle"
  /\ application # None /\ value # application["resource"] /\ updates < MaxUpdates
  /\ Await(w, "n_batch", [NoContext EXCEPT !.part = "resource",
                                           !.scopes = Merged("resource", value)])
  /\ UNCHANGED <<application, client, secrets, generated, updates, apart>>

(* ... to the Application, and not to its client.                          *)
TakeScopes(value) ==
  /\ updates < MaxUpdates
  /\ application' = [application EXCEPT !["resource"] = value]
  /\ updates' = updates + 1
  /\ apart' = apart \cup {"resource"}

Withdraw(w) ==
  /\ pc[w] = "n_batch"
  /\ IF application # None THEN TakeScopes(ctx[w].scopes["resource"])
     ELSE UNCHANGED <<application, updates, apart>>
  /\ Answer(w)
  /\ UNCHANGED <<client, secrets, generated>>

(* deleteResource takes its scopes from every Application as it is.        *)
ResourceDeleted(value) ==
  /\ application # None /\ value # application["resource"]
  /\ TakeScopes(value)
  /\ UNCHANGED <<client, secrets, generated, pc, ctx>>

(* delete removes the client; the Application and its secrets go with it.  *)
Delete ==
  /\ application # None
  /\ application' = None
  /\ client' = None
  /\ secrets' = {}
  /\ UNCHANGED <<generated, updates, apart, pc, ctx>>

(* An invocation that fails or is stopped leaves what it has written.      *)
Abandon(w) ==
  /\ pc[w] # "idle"
  /\ Answer(w)
  /\ UNCHANGED <<application, client, secrets, generated, updates, apart>>

Next ==
  \/ Delete
  \/ \E value \in Values : ResourceDeleted(value)
  \/ \E w \in Handlers :
       \/ RotateBegin(w) \/ ReadApplication(w) \/ StoreSecret(w)
       \/ \E part \in Parts, value \in Values : UpdateBegin(w, part, value)
       \/ \E value \in Values : WithdrawBegin(w, value)
       \/ Update(w) \/ Withdraw(w) \/ Abandon(w)

Spec == Init /\ [][Next]_vars

-----------------------------------------------------------------------------
(* The versions are consecutive, one secret is active, the latest, and it  *)
(* is the one the OAuth provider compares with.                            *)
SecretIsCurrent ==
  /\ {secret.version : secret \in secrets} = 1 .. Version
  /\ \A secret \in secrets :
       /\ secret.active <=> secret.version = Version
       /\ secret.active <=> secret.hash = client.secret

(* However rotations, updates, withdrawals and a deletion interleave, two  *)
(* rotations that computed the same version leave one secret in force, the *)
(* client's, and the scopes the provider grants are the Application's but  *)
(* for two ways to come apart, each of one part: a Resource Server that is *)
(* synchronized, made private or deleted takes its scopes from the         *)
(* Application and leaves them in the client, until an update writes both; *)
(* and an update that had not seen another write puts the old value of the *)
(* part it does not patch in the client, and not in the Application.       *)
ClientRepeatsApplication ==
  /\ application = None <=> client = None
  /\ application # None =>
       SecretIsCurrent /\ \A part \in Parts \ apart : client.scopes[part] = application[part]

-----------------------------------------------------------------------------
(* What keeps it so (see PlatformProofs).                                  *)

Rotating == {"s_read", "s_batch"}

(* The versions are numbers of their own and fewer than the secrets        *)
(* generated; with the Application its secrets are gone.                   *)
SecretsTold ==
  /\ IsFiniteSet(secrets)
  /\ application = None => secrets = {}
  /\ \A a, b \in secrets : a.version = b.version => a = b
  /\ \A secret \in secrets : secret.version <= secret.hash /\ secret.hash <= generated

(* A rotation holds a secret no other one has, and a version that was the  *)
(* next one; an update that nothing overtook, the Application as it is but *)
(* for its part.                                                           *)
Given(step, c) ==
  /\ step \in Rotating =>
       /\ c.version \in Hashes /\ c.hash \in Hashes
       /\ c.version <= c.hash /\ c.hash <= generated
       /\ \A secret \in secrets : secret.hash # c.hash
       /\ application # None => c.version <= Version + 1
  /\ step = "u_batch" =>
       /\ c.part \in Parts /\ c.scopes \in ScopeValues /\ c.begun <= updates
       /\ application # None /\ c.begun = updates => c.scopes = Merged(c.part, c.scopes[c.part])
  /\ step = "n_batch" => c.scopes \in ScopeValues

OwnHashes ==
  \A v, w \in Handlers :
    pc[v] \in Rotating /\ pc[w] \in Rotating /\ ctx[v].hash = ctx[w].hash => v = w

IInv ==
  /\ TypeOK /\ ClientRepeatsApplication /\ SecretsTold /\ OwnHashes
  /\ \A w \in Handlers : Given(pc[w], ctx[w])
=============================================================================

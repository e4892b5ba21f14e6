---------------------------- MODULE AgentIdentity ----------------------------
(***************************************************************************)
(* Agent identities and their installations                                *)
(* (server/usecases/agent-identities.ts over                               *)
(* server/adapters/repos/agent-identities.ts): enrollment intents and      *)
(* their approval, additional hosts, creation by an Application, and the   *)
(* controller's and administrator's operations on an identity.             *)
(*                                                                         *)
(* A handler is one invocation in flight; it takes one database statement  *)
(* or batch per action, may end at any await (Abandon) and is used again   *)
(* for later requests.  An identity is named by its username, which the    *)
(* unique index reserves for ever, and an installation by the id of its    *)
(* protocol registration.                                                  *)
(***************************************************************************)
EXTENDS Naturals, FiniteSets

CONSTANTS
  Handlers,     \* invocations that can be in flight at once
  Identities,   \* identities, by username
  Hosts,        \* protocol registrations: rows of table agent
  Keys,         \* idempotency keys
  None

ASSUME NoneAssumption == None \notin Handlers \cup Identities \cup Hosts \cup Keys

VARIABLES
  identity,     \* agent_identity rows
  agent,        \* status of the protocol registration
  binding,      \* agent_identity_binding rows, one per registration at most
  intent,       \* agent_enrollment_intent rows, by registration and key
  reservation,  \* agent_application_creation rows, by key
  pc, ctx       \* where a handler stands and what it has read

vars == <<identity, agent, binding, intent, reservation, pc, ctx>>
rows == <<identity, agent, binding, intent, reservation>>

IdentityStates == {"unborn", "active", "inactive", "deleted"}
AgentStates == {"unborn", "active", "revoked"}

Binding == [identity : Identities, status : {"active", "revoked"}]
NoBinding == [status |-> "none"]

(* fresh: the intent asks for a new identity (agentIdentityId is null).    *)
Intent == [identity : Identities, fresh : BOOLEAN, status : {"pending", "approved"}]
NoIntent == [status |-> "none"]

Operations == {"enroll", "more", "approve", "login", "create",
               "revoke_host", "recover", "deactivate", "activate", "delete"}
Steps == {"idle", "bound", "migrate", "migrate_insert", "identity", "check", "name",
          "insert", "a_read", "a_check", "a_identity", "a_batch", "c_host", "c_batch",
          "l_batch", "h_read", "h_batch", "d_read", "d_list", "d_batch",
          "t_list", "t_update", "x_read", "x_list", "x_batch"}

Context == [op : Operations \cup {None}, id : Identities \cup {None},
            host : Hosts \cup {None}, key : Keys \cup {None}, live : SUBSET Hosts]
NoContext == [op |-> None, id |-> None, host |-> None, key |-> None, live |-> {}]

TypeOK ==
  /\ identity \in [Identities -> IdentityStates]
  /\ agent \in [Hosts -> AgentStates]
  /\ binding \in [Hosts -> Binding \cup {NoBinding}]
  /\ intent \in [Hosts -> [Keys -> Intent \cup {NoIntent}]]
  /\ reservation \in [Keys -> Identities \cup {None}]
  /\ pc \in [Handlers -> Steps]
  /\ ctx \in [Handlers -> Context]

Init ==
  /\ identity = [i \in Identities |-> "unborn"]
  /\ agent = [h \in Hosts |-> "unborn"]
  /\ binding = [h \in Hosts |-> NoBinding]
  /\ intent = [h \in Hosts |-> [k \in Keys |-> NoIntent]]
  /\ reservation = [k \in Keys |-> None]
  /\ pc = [w \in Handlers |-> "idle"]
  /\ ctx = [w \in Handlers |-> NoContext]

-----------------------------------------------------------------------------
(* What the queries test.                                                  *)

(* findIdentity: deleted identities are invisible.                         *)
Present(i) == identity[i] \in {"active", "inactive"}

ActiveBinding(i, h) == binding[h] = [identity |-> i, status |-> "active"]
Installations(i) == {h \in Hosts : ActiveBinding(i, h)}

(* findActiveByProtocolAgent: the registration acts as an active identity. *)
ActsAs(h, i) == ActiveBinding(i, h) /\ identity[i] = "active"

(* assertProtocolAgentCanEnroll.  Its two reads are one step: neither a    *)
(* revocation of the registration nor a binding is ever undone, so what the*)
(* second read finds was already so at the first.                          *)
CanEnroll(h) == agent[h] = "active" /\ binding[h] = NoBinding

(* Mutant: a revoked installation may be bound again.                      *)
BindableAgain(h) == binding[h].status # "active"

(* The unique index on agent_identity_binding.protocol_agent_id.           *)
Bindable(h) == binding[h] = NoBinding

(* The unique index on agent_identity.username.                            *)
NameFree(i) == identity[i] = "unborn"

(* Mutant: activation forgets that the identity may have been deleted.     *)
NotActive(i) == identity[i] \in {"inactive", "deleted"}

(* The WHERE of activateIdentity's update.                                 *)
Activatable(i) == identity[i] = "inactive"

(* Mutant: the host is bound to an identity that the batch did not insert. *)
BindOnly(i, h) ==
  /\ binding' = [binding EXCEPT ![h] = [identity |-> i, status |-> "active"]]
  /\ UNCHANGED identity

(* The two inserts that open an identity with its first installation.      *)
OpenIdentity(i, h) ==
  /\ identity' = [identity EXCEPT ![i] = "active"]
  /\ binding' = [binding EXCEPT ![h] = [identity |-> i, status |-> "active"]]

(* approveIntent's batch commits: no unique index refuses an insert.       *)
Settles(h, k) == Bindable(h) /\ (intent[h][k].fresh => NameFree(intent[h][k].identity))

(* The unique index on (applicationId, actorUserId, idempotencyKey).       *)
KeyFree(k) == reservation[k] = None

(* Mutant: installations are given the status an identity would get.       *)
RevokeAsInactive(i, hosts) ==
  /\ binding' = [h \in Hosts |-> IF ActiveBinding(i, h)
                                   THEN [binding[h] EXCEPT !.status = "inactive"]
                                   ELSE binding[h]]
  /\ agent' = [h \in Hosts |-> IF h \in hosts THEN "revoked" ELSE agent[h]]

(* revokeProtocolAgentStatements: every active binding of the identity,    *)
(* but only the registrations it is given.                                 *)
Revoke(i, hosts) ==
  /\ binding' = [h \in Hosts |-> IF ActiveBinding(i, h)
                                   THEN [binding[h] EXCEPT !.status = "revoked"]
                                   ELSE binding[h]]
  /\ agent' = [h \in Hosts |-> IF h \in hosts THEN "revoked" ELSE agent[h]]

Await(w, step, c) ==
  /\ pc' = [pc EXCEPT ![w] = step]
  /\ ctx' = [ctx EXCEPT ![w] = c]
Goto(w, step) == Await(w, step, ctx[w])
Answer(w) == Await(w, "idle", NoContext)

(* The handler continues when the test holds and answers with an error     *)
(* otherwise.                                                              *)
Proceed(w, test, step) == IF test THEN Goto(w, step) ELSE Answer(w)

Start(w, op, step, i, h, k) ==
  /\ pc[w] = "idle"
  /\ Await(w, step, [op |-> op, id |-> i, host |-> h, key |-> k, live |-> {}])
  /\ UNCHANGED rows

-----------------------------------------------------------------------------
(* Enrollment by an Agent with an authenticated session.                   *)

(* createAgentEnrollmentIntent (fresh) and                                 *)
(* createAdditionalAgentEnrollmentIntent: the lookup by key.  An existing  *)
(* pending intent for a new identity is approved by the same request.      *)
EnrollBegin(w, i, h, k) ==
  /\ agent[h] = "active"
  /\ \/ intent[h][k] = NoIntent /\ Start(w, "enroll", "bound", i, h, k)
     \/ intent[h][k] = NoIntent /\ Start(w, "more", "identity", i, h, k)
     \/ /\ intent[h][k] = [identity |-> i, fresh |-> TRUE, status |-> "pending"]
        /\ Start(w, "enroll", "a_read", i, h, k)

(* A registration that already acts as the identity gets its missing       *)
(* approved intent; one that acts as another cannot change its username.   *)
FindBound(w) ==
  LET h == ctx[w].host IN
  /\ pc[w] = "bound"
  /\ IF \E i \in Identities : ActsAs(h, i)
       THEN Proceed(w, ActsAs(h, ctx[w].id), "migrate")
       ELSE Goto(w, "check")
  /\ UNCHANGED rows

(* findLatestApprovedIdentityIntent.                                       *)
FindApproved(w) ==
  /\ pc[w] = "migrate"
  /\ Proceed(w, \A k \in Keys : LET n == intent[ctx[w].host][k] IN
                  n # NoIntent => ~(n.fresh /\ n.status = "approved"),
             "migrate_insert")
  /\ UNCHANGED rows

(* createIntentIdempotently: an intent with this key is left alone.        *)
MigrateIntent(w) ==
  LET h == ctx[w].host  k == ctx[w].key IN
  /\ pc[w] = "migrate_insert"
  /\ intent' = [intent EXCEPT ![h][k] =
       IF @ = NoIntent THEN [identity |-> ctx[w].id, fresh |-> TRUE, status |-> "approved"]
                       ELSE @]
  /\ Answer(w)
  /\ UNCHANGED <<identity, agent, binding, reservation>>

(* requireIdentity of the identity another host is added to.               *)
FindIdentity(w) ==
  /\ pc[w] = "identity"
  /\ Proceed(w, Present(ctx[w].id), "check")
  /\ UNCHANGED rows

CheckEnroll(w) ==
  /\ pc[w] = "check"
  /\ Proceed(w, CanEnroll(ctx[w].host), IF ctx[w].op = "more" THEN "insert" ELSE "name")
  /\ UNCHANGED rows

(* requireAvailableAgentUsername does not see deleted identities.          *)
CheckName(w) ==
  /\ pc[w] = "name"
  /\ Proceed(w, ~Present(ctx[w].id), CASE ctx[w].op = "enroll" -> "insert"
                                       [] ctx[w].op = "login"  -> "l_batch"
                                       [] OTHER                -> "c_batch")
  /\ UNCHANGED rows

(* createIntentIdempotently; a new identity is approved by the same request*)
InsertIntent(w) ==
  LET h == ctx[w].host  k == ctx[w].key
      wanted == [identity |-> ctx[w].id, fresh |-> ctx[w].op = "enroll", status |-> "pending"]
  IN
  /\ pc[w] = "insert"
  /\ intent' = [intent EXCEPT ![h][k] = IF @ = NoIntent THEN wanted ELSE @]
  /\ Proceed(w, wanted.fresh /\ intent'[h][k] = wanted, "a_read")
  /\ UNCHANGED <<identity, agent, binding, reservation>>

-----------------------------------------------------------------------------
(* approveAgentEnrollment, by the controller in the account console or in  *)
(* the request that enrolled a new identity.                               *)
ApproveBegin(w, i, h, k) ==
  /\ intent[h][k] # NoIntent
  /\ intent[h][k].status = "pending" /\ intent[h][k].identity = i
  /\ Start(w, "approve", "a_check", i, h, k)

ReadIntent(w) ==
  /\ pc[w] = "a_read"
  /\ Proceed(w, intent[ctx[w].host][ctx[w].key].status = "pending", "a_check")
  /\ UNCHANGED rows

CheckApprove(w) ==
  LET n == intent[ctx[w].host][ctx[w].key] IN
  /\ pc[w] = "a_check"
  /\ Proceed(w, CanEnroll(ctx[w].host), IF n.fresh THEN "a_batch" ELSE "a_identity")
  /\ UNCHANGED rows

FindApproveIdentity(w) ==
  /\ pc[w] = "a_identity"
  /\ Proceed(w, Present(ctx[w].id), "a_batch")
  /\ UNCHANGED rows

(* approveIntent: one batch, undone as a whole by either unique index.     *)
ApproveBatch(w) ==
  LET h == ctx[w].host  k == ctx[w].key  i == ctx[w].id IN
  /\ pc[w] = "a_batch"
  /\ IF Settles(h, k)
       THEN /\ IF intent[h][k].fresh
                 THEN OpenIdentity(i, h)
                 ELSE /\ binding' = [binding EXCEPT ![h] = [identity |-> i, status |-> "active"]]
                      /\ UNCHANGED identity
            /\ intent' = [intent EXCEPT ![h][k] = [@ EXCEPT !.status = "approved"]]
       ELSE UNCHANGED <<identity, binding, intent>>
  /\ Answer(w)
  /\ UNCHANGED <<agent, reservation>>

-----------------------------------------------------------------------------
(* createAgentLoginIdentity: an identity without an intent.                *)
LoginBegin(w, i, h) ==
  /\ ~\E j \in Identities : ActsAs(h, j)
  /\ Start(w, "login", "check", i, h, None)

LoginBatch(w) ==
  LET h == ctx[w].host  i == ctx[w].id IN
  /\ pc[w] = "l_batch"
  /\ IF NameFree(i) /\ Bindable(h) THEN OpenIdentity(i, h) ELSE UNCHANGED <<identity, binding>>
  /\ Answer(w)
  /\ UNCHANGED <<agent, intent, reservation>>

(* createAgentWithInstallation: registration, identity, installation and   *)
(* reservation in one batch.  The lookup by key comes first.               *)
CreateBegin(w, i, h, k) ==
  /\ KeyFree(k)
  /\ Start(w, "create", "c_host", i, h, k)

CheckInstallation(w) ==
  /\ pc[w] = "c_host"
  /\ Proceed(w, agent[ctx[w].host] = "unborn", "name")
  /\ UNCHANGED rows

CreateBatch(w) ==
  LET h == ctx[w].host  k == ctx[w].key  i == ctx[w].id IN
  /\ pc[w] = "c_batch"
  /\ IF KeyFree(k) /\ NameFree(i) /\ agent[h] = "unborn"
       THEN /\ agent' = [agent EXCEPT ![h] = "active"]
            /\ OpenIdentity(i, h)
            /\ reservation' = [reservation EXCEPT ![k] = i]
       ELSE UNCHANGED <<agent, identity, binding, reservation>>
  /\ Answer(w)
  /\ UNCHANGED intent

-----------------------------------------------------------------------------
(* Operations on an identity, by its controller or by an administrator.    *)
(* Each starts with requireIdentity.                                       *)

RevokeHostBegin(w, i, h) == Present(i) /\ Start(w, "revoke_host", "h_read", i, h, None)

ReadBinding(w) ==
  /\ pc[w] = "h_read"
  /\ Proceed(w, ActiveBinding(ctx[w].id, ctx[w].host), "h_batch")
  /\ UNCHANGED rows

RevokeHostBatch(w) ==
  /\ pc[w] = "h_batch"
  /\ Revoke(ctx[w].id, {ctx[w].host})
  /\ Answer(w)
  /\ UNCHANGED <<identity, intent, reservation>>

RecoverBegin(w, i) == identity[i] = "active" /\ Start(w, "recover", "d_read", i, None, None)
DeactivateBegin(w, i) == Present(i) /\ Start(w, "deactivate", "d_read", i, None, None)

(* deactivateIdentity reads the identity, then its installations.          *)
ReadStatus(w) ==
  /\ pc[w] = "d_read"
  /\ Proceed(w, \/ identity[ctx[w].id] = "active"
                \/ identity[ctx[w].id] = "inactive" /\ ctx[w].op = "recover", "d_list")
  /\ UNCHANGED rows

(* activeProtocolAgentIds.                                                 *)
ListInstallations(w, here, next) ==
  /\ pc[w] = here
  /\ Await(w, next, [ctx[w] EXCEPT !.live = Installations(ctx[w].id)])
  /\ UNCHANGED rows

DeactivateList(w) == ListInstallations(w, "d_list", "d_batch")

(* The update is by id alone; a deleted identity stays deleted.            *)
DeactivateBatch(w) ==
  LET i == ctx[w].id IN
  /\ pc[w] = "d_batch"
  /\ identity' = [identity EXCEPT ![i] = IF @ = "deleted" THEN @ ELSE "inactive"]
  /\ IF ctx[w].op = "recover" THEN Revoke(i, ctx[w].live) ELSE UNCHANGED <<binding, agent>>
  /\ Answer(w)
  /\ UNCHANGED <<intent, reservation>>

ActivateBegin(w, i) == identity[i] = "inactive" /\ Start(w, "activate", "t_list", i, None, None)

(* activateIdentity answers that a new installation is required when it    *)
(* counts none.                                                            *)
ActivateCount(w) ==
  /\ pc[w] = "t_list"
  /\ Proceed(w, Installations(ctx[w].id) # {}, "t_update")
  /\ UNCHANGED rows

ActivateUpdate(w) ==
  LET i == ctx[w].id IN
  /\ pc[w] = "t_update"
  /\ identity' = [identity EXCEPT ![i] = IF Activatable(i) THEN "active" ELSE @]
  /\ Answer(w)
  /\ UNCHANGED <<agent, binding, intent, reservation>>

DeleteBegin(w, i) == Present(i) /\ Start(w, "delete", "x_read", i, None, None)

ReadUndeleted(w) ==
  /\ pc[w] = "x_read"
  /\ Proceed(w, Present(ctx[w].id), "x_list")
  /\ UNCHANGED rows

DeleteList(w) == ListInstallations(w, "x_list", "x_batch")

DeleteBatch(w) ==
  LET i == ctx[w].id IN
  /\ pc[w] = "x_batch"
  /\ identity' = [identity EXCEPT ![i] = "deleted"]
  /\ Revoke(i, ctx[w].live)
  /\ Answer(w)
  /\ UNCHANGED <<intent, reservation>>

-----------------------------------------------------------------------------
(* The Agent protocol registers an Agent and its management revokes it.    *)
RegisterAgent(h) ==
  /\ agent[h] = "unborn"
  /\ agent' = [agent EXCEPT ![h] = "active"]
  /\ UNCHANGED <<identity, binding, intent, reservation, pc, ctx>>
RevokeAgent(h) ==
  /\ agent[h] = "active"
  /\ agent' = [agent EXCEPT ![h] = "revoked"]
  /\ UNCHANGED <<identity, binding, intent, reservation, pc, ctx>>

(* An invocation ends without doing its next statement: an error, an       *)
(* expired intent, a controller who is not the owner, a lost isolate.      *)
Abandon(w) == pc[w] # "idle" /\ Answer(w) /\ UNCHANGED rows

EnrollStep(w) ==
  \/ \E i \in Identities, h \in Hosts, k \in Keys :
       EnrollBegin(w, i, h, k) \/ ApproveBegin(w, i, h, k) \/ CreateBegin(w, i, h, k)
  \/ \E i \in Identities, h \in Hosts : LoginBegin(w, i, h)
  \/ FindBound(w) \/ FindApproved(w) \/ MigrateIntent(w) \/ FindIdentity(w)
  \/ CheckEnroll(w) \/ CheckName(w) \/ InsertIntent(w) \/ ReadIntent(w)
  \/ CheckApprove(w) \/ FindApproveIdentity(w) \/ ApproveBatch(w)
  \/ LoginBatch(w) \/ CheckInstallation(w) \/ CreateBatch(w)

ControlStep(w) ==
  \/ \E i \in Identities : \/ RecoverBegin(w, i) \/ DeactivateBegin(w, i)
                           \/ ActivateBegin(w, i) \/ DeleteBegin(w, i)
  \/ ReadStatus(w) \/ DeactivateList(w) \/ DeactivateBatch(w)
  \/ ActivateCount(w) \/ ActivateUpdate(w)
  \/ ReadUndeleted(w) \/ DeleteList(w) \/ DeleteBatch(w)

RevokeHostStep(w) ==
  \/ \E i \in Identities, h \in Hosts : RevokeHostBegin(w, i, h)
  \/ ReadBinding(w) \/ RevokeHostBatch(w)

ProtocolStep == \E h \in Hosts : RegisterAgent(h) \/ RevokeAgent(h)

(* What a route reaches: revokeAgentIdentityHost is mounted by none.       *)
MountedNext ==
  \/ \E w \in Handlers : EnrollStep(w) \/ ControlStep(w) \/ Abandon(w)
  \/ ProtocolStep

Next == MountedNext \/ \E w \in Handlers : RevokeHostStep(w)

Spec == Init /\ [][Next]_vars
MountedSpec == Init /\ [][MountedNext]_vars

-----------------------------------------------------------------------------
(* Properties.                                                             *)

(* specs/agent-identity.feature:137: no interface can restore a deleted    *)
(* identity, not even an activation or an enrollment that began before the *)
(* deletion committed.                                                     *)
DeletionIsFinal ==
  [][\A i \in Identities : identity[i] = "deleted" => identity'[i] = "deleted"]_vars

(* An identity comes into being with an installation, which it keeps as a  *)
(* row for ever; an approved intent has its registration bound, to the     *)
(* identity it asked for; and a reservation names an identity that exists. *)
NothingHalfCreated ==
  /\ \A i \in Identities : identity[i] # "unborn" =>
       \E h \in Hosts : binding[h] # NoBinding /\ binding[h].identity = i
  /\ \A h \in Hosts : binding[h] # NoBinding => identity[binding[h].identity] # "unborn"
  /\ \A h \in Hosts, k \in Keys : intent[h][k].status = "approved" =>
       binding[h] # NoBinding /\ binding[h].identity = intent[h][k].identity
  /\ \A k \in Keys : reservation[k] # None => identity[reservation[k]] # "unborn"

(* specs/agent-identity.feature:136: installation identifiers remain       *)
(* reserved, and so do idempotency keys.  A registration is bound once (no *)
(* approval in flight moves it to another identity or revives a revoked    *)
(* installation), and of two creations with one key that race, the         *)
(* identity the first one reserved is the answer for ever.                 *)
ReservationsHold ==
  [][/\ \A h \in Hosts : binding[h] # NoBinding =>
          /\ binding'[h] # NoBinding
          /\ binding'[h].identity = binding[h].identity
          /\ binding[h].status = "revoked" => binding'[h].status = "revoked"
     /\ \A k \in Keys : reservation[k] # None => reservation'[k] = reservation[k]]_vars
=============================================================================

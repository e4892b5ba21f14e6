----------------------------- MODULE AgentAccess -----------------------------
(***************************************************************************)
(* The authority of one Agent on one external Resource Server in one       *)
(* Context (server/usecases/external-resources.ts): access requests and    *)
(* their decision, Permissions (scope entitlements), the leases of tokens  *)
(* the target issues, direct grants, every revocation, and the deletion of *)
(* the Resource Server.  Agents, Resource Servers and Contexts share no row*)
(* but the Resource Server's, so one of each is enough.                    *)
(*                                                                         *)
(* A handler is one invocation in flight, used again for later requests.   *)
(***************************************************************************)
EXTENDS Naturals, FiniteSets, Sequences

CONSTANTS
  Handlers,      \* invocations that can be in flight at once
  Requests,      \* agent_access_request ids
  Scopes,        \* scopes of the Resource Server
  Leases,        \* tokens the target issues, and their external_token_lease
  MaxRows,       \* Permissions ever given
  DecisionModes, \* modes controllers approve with
  DirectModes,   \* modes of direct grants
  None

ASSUME RowsAssumption == MaxRows \in Nat
ASSUME ModesAssumption ==
  DecisionModes \subseteq {"once", "until", "persistent"} /\ DirectModes \subseteq {"until", "persistent"}
ASSUME ScopesAssumption == IsFiniteSet(Scopes)
ASSUME NoneAssumption == None \notin Requests \cup Leases

VARIABLES
  resource,     \* api_resource.enabled and deletedAt
  agent,        \* agent_identity.status; one that is deleted stays inactive
  connection,   \* provider_resource_authorization.status
  request,      \* agent_access_request rows
  entitlement,  \* resource_scope_entitlement rows of a scope, oldest first
  lease,        \* external_token_lease rows
  target,       \* the tokens at the target authorization server
  pc, ctx       \* where a handler stands and what it has read

rows == <<resource, agent, connection, request, entitlement, lease, target>>
vars == <<resource, agent, connection, request, entitlement, lease, target, pc, ctx>>

Ids == Scopes \X (1 .. MaxRows)
Modes == {"once", "until", "persistent"}
Row == [mode : Modes, expired : BOOLEAN, end : {"no", "revoked", "consumed", "expired"},
        source : Requests \cup {None}]
Request == [status : {"none", "pending", "approved", "denied", "consumed"}, scopes : SUBSET Scopes]
Lease == [request : Requests, ids : SUBSET Ids, revoked : BOOLEAN]
NoRow == [revoked |-> TRUE, ids |-> {}]

Steps == {"idle", "a_pending", "a_insert", "p_list", "p_batch", "p_again", "x_batch",
          "g_find", "g_insert", "g_again", "g_replace", "g_extend",
          "i_post", "i_lease", "v_list", "v_next", "v_post", "v_mark", "v_end", "v_connection",
          "c_upsert", "c_list"}
Context == [request : Requests \cup {None}, scopes : SUBSET Scopes, mode : Modes,
            retry : BOOLEAN,
            read : SUBSET Ids,   \* the rows found active
            weak : SUBSET Ids,   \* those of them found not persistent
            lease : Leases \cup {None},
            kind : {"none", "permission", "agent", "connection", "uncovered"},
            todo : SUBSET Ids, ended : SUBSET Ids,     \* Permissions to end, the one being ended
            leases : SUBSET Leases, posted : SUBSET Leases]
NoContext == [request |-> None, scopes |-> {}, mode |-> "once", retry |-> TRUE,
              read |-> {}, weak |-> {}, lease |-> None, kind |-> "none",
              todo |-> {}, ended |-> {}, leases |-> {}, posted |-> {}]

TypeOK ==
  /\ resource \in {"enabled", "disabled", "deleted"}
  /\ agent \in {"active", "inactive"}
  /\ connection \in {"active", "revoked"}
  /\ request \in [Requests -> Request]
  /\ entitlement \in [Scopes -> Seq(Row)]
  /\ \A s \in Scopes : Len(entitlement[s]) <= MaxRows
  /\ lease \in [Leases -> Lease \cup {NoRow}]
  /\ target \in [Leases -> {"none", "live", "dead"}]
  /\ pc \in [Handlers -> Steps]
  /\ ctx \in [Handlers -> Context]

(* The account is connected; nothing has been asked or granted yet.        *)
Init ==
  /\ resource = "enabled" /\ agent = "active" /\ connection = "active"
  /\ request = [r \in Requests |-> [status |-> "none", scopes |-> {}]]
  /\ entitlement = [s \in Scopes |-> <<>>]
  /\ lease = [l \in Leases |-> NoRow]
  /\ target = [l \in Leases |-> "none"]
  /\ pc = [w \in Handlers |-> "idle"]
  /\ ctx = [w \in Handlers |-> NoContext]

-----------------------------------------------------------------------------
(* Rows.                                                                   *)
RowOf(id) == entitlement[id[1]][id[2]]
Exists(id) == id[2] <= Len(entitlement[id[1]])
Unended == {id \in Ids : Exists(id) /\ RowOf(id).end = "no"}

(* listActiveEntitlementsByAgent, ...ByConnection.                         *)
ActiveIds == {id \in Unended : ~RowOf(id).expired}

(* The unique index on the active rows of a scope also holds expired ones. *)
Occupied(s) == \E id \in Unended : id[1] = s

(* Rows after each row was replaced, and after scopes were given a new one.*)
EachRow(Change(_, _)) ==
  [s \in Scopes |-> [n \in DOMAIN entitlement[s] |-> Change(<<s, n>>, entitlement[s][n])]]
WithNew(table, scopes, row) ==
  [s \in Scopes |-> IF s \in scopes THEN Append(table[s], row) ELSE table[s]]
Granted(mode, source) == [mode |-> mode, expired |-> FALSE, end |-> "no", source |-> source]
Room(scopes) == Cardinality({id \in Ids : Exists(id)}) + Cardinality(scopes) <= MaxRows

(* A decision and strongerLifetime extend a one-time or limited Permission;*)
(* a new expiry is later than those before it.                             *)
Extendable(row, mode) == row.mode # "persistent" /\ mode # "once"
Extended(row, mode) == [row EXCEPT !.mode = mode, !.expired = FALSE]

Await(w, step, c) ==
  /\ pc' = [pc EXCEPT ![w] = step]
  /\ ctx' = [ctx EXCEPT ![w] = c]
Goto(w, step) == Await(w, step, ctx[w])
Answer(w) == Await(w, "idle", NoContext)

-----------------------------------------------------------------------------
(* createAgentAccessRequest.  Permissions that cover every scope approve   *)
(* the request at once; an equal pending request is answered instead.      *)
AskBegin(w, scopes) ==
  /\ pc[w] = "idle" /\ agent = "active" /\ resource = "enabled" /\ scopes # {}
  /\ LET reusable == {id \in ActiveIds : connection = "active" /\ id[1] \in scopes}
         covered == \A s \in scopes : \E id \in reusable : id[1] = s IN
     Await(w, IF covered THEN "a_insert" ELSE "a_pending",
           [NoContext EXCEPT !.scopes = scopes, !.read = IF covered THEN reusable ELSE {}])
  /\ UNCHANGED rows

ListPending(w) ==
  /\ pc[w] = "a_pending"
  /\ IF \E r \in Requests : request[r] = [status |-> "pending", scopes |-> ctx[w].scopes]
       THEN Answer(w) ELSE Goto(w, "a_insert")
  /\ UNCHANGED rows

(* Mutant: a plain insert.                                                 *)
AlwaysAskable == TRUE

(* insertAccessRequest selects the row from the active Resource Server.    *)
Askable == resource = "enabled"

CreateRequest(w, r) ==
  /\ pc[w] = "a_insert" /\ request[r].status = "none"
  /\ request' = IF Askable
       THEN [request EXCEPT ![r] = [scopes |-> ctx[w].scopes,
               status |-> IF ctx[w].read # {} THEN "approved" ELSE "pending"]]
       ELSE request
  /\ Answer(w)
  /\ UNCHANGED <<resource, agent, connection, entitlement, lease, target>>

-----------------------------------------------------------------------------
(* decideAgentAccessRequest: approve.                                      *)
Decidable(r) ==
  /\ request[r].status = "pending" /\ resource = "enabled"
  /\ agent = "active" /\ connection = "active"

ApproveBegin(w, r, mode) ==
  /\ pc[w] = "idle" /\ Decidable(r)
  /\ Await(w, "p_list", [NoContext EXCEPT !.request = r, !.mode = mode])
  /\ UNCHANGED rows

ListEntitlements(w) ==
  LET found == {id \in ActiveIds : id[1] \in request[ctx[w].request].scopes} IN
  /\ pc[w] = "p_list"
  /\ Await(w, "p_batch", [ctx[w] EXCEPT
       !.read = found, !.weak = {id \in found : RowOf(id).mode # "persistent"}])
  /\ UNCHANGED rows

(* The scopes the batch inserts a Permission for, and those of them it can.*)
Missing(w) == {s \in request[ctx[w].request].scopes : \A id \in ctx[w].read : id[1] # s}
Insertable(w) ==
  {s \in Missing(w) : /\ request[ctx[w].request].status = "pending"
                      /\ resource = "enabled" /\ connection = "active"
                      /\ ~Occupied(s)}

(* Mutant: the approval is recorded although Permissions it names ended.   *)
ApprovableByCount(w) ==
  request[ctx[w].request].status = "pending" /\ resource = "enabled" /\ Insertable(w) = Missing(w)

(* The WHERE of updateAccessRequestDecision.                               *)
Approvable(w) ==
  /\ request[ctx[w].request].status = "pending"
  /\ resource = "enabled"
  /\ Insertable(w) = Missing(w)
  /\ ctx[w].read \subseteq Unended

(* One batch: inserts and extensions take effect whether or not the        *)
(* decision does.                                                          *)
Approve(w) ==
  LET r == ctx[w].request  mode == ctx[w].mode
      Extend(id, row) == IF id \in ctx[w].weak /\ row.end = "no" /\ mode # "once"
                           THEN Extended(row, mode) ELSE row IN
  /\ pc[w] = "p_batch" /\ Room(Insertable(w))
  /\ entitlement' = WithNew(EachRow(Extend), Insertable(w), Granted(mode, r))
  /\ request' = IF Approvable(w) THEN [request EXCEPT ![r].status = "approved"] ELSE request
  /\ IF Insertable(w) # Missing(w)
       THEN Await(w, "p_again", [ctx[w] EXCEPT !.read = {}, !.weak = {}]) ELSE Answer(w)
  /\ UNCHANGED <<resource, agent, connection, lease, target>>

(* entitlements_changed: approved meanwhile, or tried once more.           *)
ApproveAgain(w) ==
  LET r == ctx[w].request IN
  /\ pc[w] = "p_again"
  /\ IF ctx[w].retry /\ Decidable(r) THEN Await(w, "p_list", [ctx[w] EXCEPT !.retry = FALSE])
     ELSE Answer(w)
  /\ UNCHANGED rows

DenyBegin(w, r) ==
  /\ pc[w] = "idle" /\ request[r].status = "pending"
  /\ Await(w, "x_batch", [NoContext EXCEPT !.request = r])
  /\ UNCHANGED rows

(* The WHERE of updateAccessRequestDecision for a denial.                  *)
Deniable(r) == request[r].status = "pending"

Deny(w) ==
  LET r == ctx[w].request IN
  /\ pc[w] = "x_batch"
  /\ request' = IF Deniable(r) THEN [request EXCEPT ![r].status = "denied"] ELSE request
  /\ Answer(w)
  /\ UNCHANGED <<resource, agent, connection, entitlement, lease, target>>

-----------------------------------------------------------------------------
(* createAgentPermission, for one scope and one Context: a direct grant,   *)
(* with no access request as its source (createScopeEntitlement).          *)
GrantBegin(w, s, mode) ==
  /\ pc[w] = "idle" /\ agent = "active" /\ resource = "enabled" /\ connection = "active"
  /\ Await(w, "g_find", [NoContext EXCEPT !.scopes = {s}, !.mode = mode])
  /\ UNCHANGED rows

FindEquivalent(w) ==
  LET s == CHOOSE t \in Scopes : ctx[w].scopes = {t}
      found == {id \in Unended : id[1] = s} IN
  /\ pc[w] \in {"g_find", "g_again"}
  /\ IF found = {} THEN IF pc[w] = "g_find" THEN Goto(w, "g_insert") ELSE Answer(w)
     ELSE LET row == RowOf(CHOOSE id \in found : TRUE) IN
          IF row.expired THEN Await(w, "g_replace", [ctx[w] EXCEPT !.read = found])
          ELSE IF row.mode # "persistent" THEN Await(w, "g_extend", [ctx[w] EXCEPT !.read = found])
          ELSE Answer(w)
  /\ UNCHANGED rows

InsertGrant(w) ==
  LET s == ctx[w].scopes IN
  /\ pc[w] = "g_insert" /\ Room(s)
  /\ IF \E t \in s : Occupied(t) THEN entitlement' = entitlement /\ Goto(w, "g_again")
     ELSE entitlement' = WithNew(entitlement, s, Granted(ctx[w].mode, None)) /\ Answer(w)
  /\ UNCHANGED <<resource, agent, connection, request, lease, target>>

(* The batch that replaces an expired Permission fails as a whole when     *)
(* another row has taken the scope.                                        *)
ReplaceExpired(w) ==
  LET s == ctx[w].scopes
      End(id, row) == IF id \in ctx[w].read THEN [row EXCEPT !.end = "expired"] ELSE row IN
  /\ pc[w] = "g_replace" /\ Room(s)
  /\ entitlement' = IF \E id \in Unended \ ctx[w].read : id[1] \in s THEN entitlement
                    ELSE WithNew(EachRow(End), s, Granted(ctx[w].mode, None))
  /\ Answer(w)
  /\ UNCHANGED <<resource, agent, connection, request, lease, target>>

(* By id, whatever has become of the row.                                  *)
ExtendGrant(w) ==
  LET Extend(id, row) == IF id \in ctx[w].read THEN Extended(row, ctx[w].mode) ELSE row IN
  /\ pc[w] = "g_extend"
  /\ entitlement' = EachRow(Extend)
  /\ Answer(w)
  /\ UNCHANGED <<resource, agent, connection, request, lease, target>>

-----------------------------------------------------------------------------
(* issueTargetAccessToken: every active Permission of the Context, for an  *)
(* access request that has been approved.                                  *)
Granting == {"approved", "consumed"}

IssueBegin(w, r) ==
  /\ pc[w] = "idle" /\ agent = "active" /\ request[r].status \in Granting
  /\ ActiveIds # {} /\ resource = "enabled" /\ connection = "active"
  /\ Await(w, "i_post", [NoContext EXCEPT !.request = r, !.read = ActiveIds,
                           !.weak = {id \in ActiveIds : RowOf(id).mode = "once"}])
  /\ UNCHANGED rows

TargetIssues(w, l) ==
  /\ pc[w] = "i_post" /\ target[l] = "none"
  /\ target' = [target EXCEPT ![l] = "live"]
  /\ Await(w, "i_lease", [ctx[w] EXCEPT !.lease = l])
  /\ UNCHANGED <<resource, agent, connection, request, entitlement, lease>>

(* The WHERE of insertTokenLease.                                          *)
Leasable(w) ==
  /\ request[ctx[w].request].status \in Granting
  /\ connection = "active" /\ resource = "enabled"
  /\ ctx[w].read \subseteq ActiveIds

(* Mutant: one-time Permissions stay.                                      *)
Kept(ids) == entitlement

Consumed(ids) ==
  LET End(id, row) == IF id \in ids /\ row.end = "no" THEN [row EXCEPT !.end = "consumed"] ELSE row
  IN EachRow(End)

(* issueTokenLeaseWithAudit: one batch.  A refused one leaves the token.   *)
InsertLease(w) ==
  LET r == ctx[w].request  l == ctx[w].lease IN
  /\ pc[w] = "i_lease"
  /\ IF Leasable(w)
       THEN /\ lease' = [lease EXCEPT ![l] = [request |-> r, ids |-> ctx[w].read, revoked |-> FALSE]]
            /\ request' = [request EXCEPT ![r].status = "consumed"]
            /\ entitlement' = Consumed(ctx[w].weak)
       ELSE UNCHANGED <<lease, request, entitlement>>
  /\ Answer(w)
  /\ UNCHANGED <<resource, agent, connection, target>>

-----------------------------------------------------------------------------
(* Revocation of one Permission, of every Permission when an Agent is      *)
(* recovered or deleted, of a connection with its Permissions, and of those*)
(* a reconnected account no longer covers.                                 *)
RevokeBegin(w, id) ==
  /\ pc[w] = "idle" /\ id \in Unended
  /\ Await(w, "v_next", [NoContext EXCEPT !.kind = "permission", !.todo = {id}])
  /\ UNCHANGED rows

(* recoverAgentIdentity, deleteAgentIdentity: the batch that makes the     *)
(* Agent inactive, then revokeAgentResourceAccess.                         *)
StopAgent(w) ==
  /\ pc[w] = "idle"
  /\ agent' = "inactive"
  /\ Await(w, "v_list", [NoContext EXCEPT !.kind = "agent"])
  /\ UNCHANGED <<resource, connection, request, entitlement, lease, target>>

(* revokeResourceConnection, after the provider's tokens were revoked.     *)
DisconnectBegin(w) ==
  /\ pc[w] = "idle"
  /\ Await(w, "v_list", [NoContext EXCEPT !.kind = "connection"])
  /\ UNCHANGED rows

ListActive(w) ==
  /\ pc[w] = "v_list"
  /\ Await(w, "v_next", [ctx[w] EXCEPT !.todo = ActiveIds])
  /\ UNCHANGED rows

LeasesOf(id) == {l \in Leases : id \in lease[l].ids /\ ~lease[l].revoked}

(* revokeAgentPermission throws for a Permission that has ended or was not *)
(* requested, and ends the whole revocation with it.                       *)
Revocable(w, id) ==
  ctx[w].kind \in {"agent", "uncovered"} \/ (RowOf(id).end = "no" /\ RowOf(id).source # None)

NextPermission(w, id) ==
  /\ pc[w] = "v_next" /\ id \in ctx[w].todo
  /\ IF Revocable(w, id)
       THEN Await(w, "v_post", [ctx[w] EXCEPT !.todo = @ \ {id}, !.ended = {id},
                                               !.leases = LeasesOf(id), !.posted = {}])
       ELSE Answer(w)
  /\ UNCHANGED rows

LastPermission(w) ==
  /\ pc[w] = "v_next" /\ ctx[w].todo = {}
  /\ IF ctx[w].kind = "connection" THEN Goto(w, "v_connection") ELSE Answer(w)
  /\ UNCHANGED rows

(* revokeTokenLeaseAtTarget.                                               *)
PostRevocation(w, l) ==
  /\ pc[w] = "v_post" /\ l \in ctx[w].leases /\ resource # "deleted"
  /\ target' = [target EXCEPT ![l] = "dead"]
  /\ Await(w, IF ctx[w].kind = "agent" THEN "v_mark" ELSE "v_post",
           [ctx[w] EXCEPT !.leases = @ \ {l}, !.posted = @ \cup {l}])
  /\ UNCHANGED <<resource, agent, connection, request, entitlement, lease>>

Marked(leases) == [l \in Leases |-> IF l \in leases THEN [lease[l] EXCEPT !.revoked = TRUE] ELSE lease[l]]

MarkLease(w) ==
  /\ pc[w] = "v_mark"
  /\ lease' = Marked(ctx[w].posted)
  /\ Goto(w, "v_post")
  /\ UNCHANGED <<resource, agent, connection, request, entitlement, target>>

(* Mutant: every lease of the Permission, as they are when it ends.        *)
Current(w) == UNION {LeasesOf(id) : id \in ctx[w].ended}

(* The leases revoked with a Permission: those whose token was revoked.    *)
Posted(w) == ctx[w].posted

(* endEntitlementWithAudit, endEntitlement.                                *)
EndPermission(w) ==
  LET End(id, row) == IF id \in ctx[w].ended /\ row.end = "no" THEN [row EXCEPT !.end = "revoked"] ELSE row IN
  /\ pc[w] = "v_post" /\ ctx[w].leases = {}
  /\ entitlement' = EachRow(End)
  /\ lease' = Marked(Posted(w))
  /\ Await(w, "v_next", [ctx[w] EXCEPT !.ended = {}, !.posted = {}])
  /\ UNCHANGED <<resource, agent, connection, request, target>>

RevokeConnection(w) ==
  /\ pc[w] = "v_connection"
  /\ connection' = "revoked"
  /\ Answer(w)
  /\ UNCHANGED <<resource, agent, request, entitlement, lease, target>>

-----------------------------------------------------------------------------
(* completeResourceConnectionIntent, for an account connected before:      *)
(* upsertProviderCredential tests the Resource Server before its batch ... *)
ReconnectBegin(w) ==
  /\ pc[w] = "idle" /\ resource = "enabled"
  /\ Goto(w, "c_upsert")
  /\ UNCHANGED rows

Reconnect(w) ==
  /\ pc[w] = "c_upsert"
  /\ connection' = "active"
  /\ Goto(w, "c_list")
  /\ UNCHANGED <<resource, agent, request, entitlement, lease, target>>

(* ... and revokes the Permissions of scopes the account did not grant now *)
(* (revokeUncoveredEntitlements).                                          *)
ListUncovered(w, granted) ==
  LET uncovered == {id \in ActiveIds : id[1] \notin granted} IN
  /\ pc[w] = "c_list"
  /\ IF uncovered = {} THEN Answer(w)
     ELSE Await(w, "v_next", [ctx[w] EXCEPT !.kind = "uncovered", !.todo = uncovered])
  /\ UNCHANGED rows

(* updateResource.                                                         *)
SetEnabled(status) ==
  /\ resource # "deleted" /\ resource # status
  /\ resource' = status
  /\ UNCHANGED <<agent, connection, request, entitlement, lease, target, pc, ctx>>

(* deleteResource: one batch.  Mutant: pending requests are cancelled, as  *)
(* connection intents are.                                                 *)
Cancelled == [r \in Requests |->
  IF request[r].status = "pending" THEN [request[r] EXCEPT !.status = "cancelled"] ELSE request[r]]
Withdrawn == [r \in Requests |->
  IF request[r].status = "pending" THEN [request[r] EXCEPT !.status = "denied"] ELSE request[r]]

DeleteResource ==
  LET End(id, row) == IF row.end = "no" THEN [row EXCEPT !.end = "revoked"] ELSE row IN
  /\ resource # "deleted"
  /\ resource' = "deleted" /\ connection' = "revoked"
  /\ request' = Withdrawn
  /\ entitlement' = EachRow(End)
  /\ lease' = Marked({l \in Leases : lease[l] # NoRow})
  /\ UNCHANGED <<agent, target, pc, ctx>>

(* activateAgentIdentity, deactivateAgentIdentity.                         *)
SetAgent(status) ==
  /\ agent # status
  /\ agent' = status
  /\ UNCHANGED <<resource, connection, request, entitlement, lease, target, pc, ctx>>

(* The end of a limited Permission's lifetime.                             *)
Expire(id) ==
  /\ id \in ActiveIds /\ RowOf(id).mode = "until"
  /\ entitlement' = [entitlement EXCEPT ![id[1]][id[2]].expired = TRUE]
  /\ UNCHANGED <<resource, agent, connection, request, lease, target, pc, ctx>>

(* A statement or a post fails, or the invocation is cancelled.            *)
Abandon(w) == pc[w] # "idle" /\ Answer(w) /\ UNCHANGED rows

Management ==
  \/ \E status \in {"enabled", "disabled"} : SetEnabled(status)
  \/ DeleteResource
  \/ \E status \in {"active", "inactive"} : SetAgent(status)
  \/ \E id \in Ids : Expire(id)

Access(w) ==
  \/ \E scopes \in SUBSET Scopes : AskBegin(w, scopes)
  \/ ListPending(w)
  \/ \E r \in Requests : CreateRequest(w, r)
  \/ \E r \in Requests, mode \in DecisionModes : ApproveBegin(w, r, mode)
  \/ ListEntitlements(w) \/ Approve(w) \/ ApproveAgain(w)
  \/ \E r \in Requests : DenyBegin(w, r)
  \/ Deny(w)
  \/ \E s \in Scopes, mode \in DirectModes : GrantBegin(w, s, mode)
  \/ FindEquivalent(w) \/ InsertGrant(w)
  \/ ReplaceExpired(w) \/ ExtendGrant(w)
  \/ \E r \in Requests : IssueBegin(w, r)
  \/ \E l \in Leases : TargetIssues(w, l)
  \/ InsertLease(w)

Revocation(w) ==
  \/ \E id \in Ids : RevokeBegin(w, id)
  \/ StopAgent(w) \/ DisconnectBegin(w) \/ ListActive(w) \/ LastPermission(w)
  \/ \E id \in Ids : NextPermission(w, id)
  \/ \E l \in Leases : PostRevocation(w, l)
  \/ MarkLease(w) \/ EndPermission(w) \/ RevokeConnection(w)
  \/ ReconnectBegin(w) \/ Reconnect(w)
  \/ \E granted \in SUBSET Scopes : ListUncovered(w, granted)

Next == Management \/ \E w \in Handlers : Access(w) \/ Revocation(w) \/ Abandon(w)

Spec == Init /\ [][Next]_vars

-----------------------------------------------------------------------------
(* Properties.                                                             *)

(* A one-time Permission is in at most one lease, however many requests of *)
(* the Agent ask for a token at once.                                      *)
OnceIsOnce ==
  \A id \in Ids : Exists(id) /\ RowOf(id).mode = "once" =>
    Cardinality({l \in Leases : id \in lease[l].ids}) <= 1

(* A lease recorded as revoked has no live token at the target, except     *)
(* that the deletion of a Resource Server tells no target.                 *)
RevokedLeaseIsDead ==
  resource # "deleted" => \A l \in Leases : lease[l] # NoRow /\ lease[l].revoked => target[l] # "live"

(* An approval takes effect on every scope of its request or on none: when *)
(* it is recorded, each scope has a Permission that has not ended.         *)
ApprovalIsWhole ==
  [][\A r \in Requests : request[r].status = "pending" /\ request'[r].status = "approved" =>
       \A s \in request[r].scopes : Occupied(s)']_vars

(* After its deletion a Resource Server has no request left to decide, no  *)
(* requested Permission and no lease in force.                             *)
NothingForDeletedResource ==
  resource = "deleted" =>
    /\ \A r \in Requests : request[r].status # "pending"
    /\ \A id \in Unended : RowOf(id).source = None
    /\ \A l \in Leases : lease[l].revoked

(* "When a controller revokes its grant, account connection, credential, or*)
(* Agent, then Realmroot calls the target revocation endpoint for active   *)
(* target tokens": a Permission that was revoked is in no lease in force.  *)
RevokedPermissionHasNoLease ==
  \A id \in Ids : Exists(id) /\ RowOf(id).end = "revoked" => LeasesOf(id) = {}

=============================================================================

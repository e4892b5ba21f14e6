---------------------------- MODULE AgentApproval ----------------------------
(***************************************************************************)
(* Device approvals of protocol Agents: decideApproval and the revocations *)
(* of server/adapters/repos/agents.ts.  An unclaimed Agent, its host and   *)
(* the capabilities it asks for are decided by a User who enters one of    *)
(* its user codes; the first approval makes that User the controller.      *)
(*                                                                         *)
(* A handler is one invocation in flight.  decideApproval reads in four    *)
(* statements and writes in one batch; a revocation is several statements  *)
(* without a batch.                                                        *)
(***************************************************************************)
EXTENDS Naturals, FiniteSets

CONSTANTS
  Handlers,      \* invocations that can be in flight at once
  Users,         \* signed-in Users who decide
  Agents,        \* rows of table agent
  Hosts,         \* rows of table agent_host
  HostOf,        \* the host an Agent is registered on
  Codes,         \* user codes: each names one approval request of an Agent
  Capabilities,  \* capabilities an Agent can ask for
  None

ASSUME HostAssumption == HostOf \in [Agents -> Hosts]
ASSUME NoneAssumption == None \notin Users \cup Agents \cup Hosts \cup Codes

VARIABLES
  agent,     \* agent rows
  host,      \* agent_host rows
  grant,     \* agent_capability_grant rows, by Agent and capability
  approval,  \* approval_request rows, by Agent and user code
  pc, ctx,   \* where a handler stands and what it has read
  answers,   \* how many deciders of an approval were told it is decided
  finished   \* Agents some revocation of which ran to its end

vars == <<agent, host, grant, approval, pc, ctx, answers, finished>>

PartyStatus == {"unborn", "pending", "active", "rejected", "revoked"}
Party == [status : PartyStatus, owner : Users \cup {None}]
GrantStatus == {"none", "pending", "active", "denied", "revoked"}
ApprovalStatus == {"none", "pending", "approved", "denied", "revoked"}

Steps == {"idle", "d_read", "v_list", "v_agent", "v_grant",
          "v_approval", "v_host"}
Reads == {"agent", "host", "grants"}
Context == [user : Users \cup {None}, agent : Agents \cup {None}, code : Codes \cup {None},
            action : {"approve", "deny", "none"},
            unread : SUBSET Reads,           \* of the three concurrent reads
            fresh : SUBSET {"agent", "host"}, \* the rows that were pending when read
            asked : SUBSET Capabilities,     \* the grants that were pending when read
            host : Hosts \cup {None},
            agents : SUBSET Agents, todo : SUBSET Agents]
NoContext == [user |-> None, agent |-> None, code |-> None, action |-> "none",
              unread |-> {}, fresh |-> {}, asked |-> {}, host |-> None, agents |-> {}, todo |-> {}]

TypeOK ==
  /\ agent \in [Agents -> Party]
  /\ host \in [Hosts -> Party]
  /\ grant \in [Agents -> [Capabilities -> GrantStatus]]
  /\ approval \in [Agents -> [Codes -> ApprovalStatus]]
  /\ pc \in [Handlers -> Steps]
  /\ ctx \in [Handlers -> Context]
  /\ answers \in [Agents -> [Codes -> Nat]]
  /\ finished \subseteq Agents

Init ==
  /\ agent = [a \in Agents |-> [status |-> "unborn", owner |-> None]]
  /\ host = [h \in Hosts |-> [status |-> "pending", owner |-> None]]
  /\ grant = [a \in Agents |-> [c \in Capabilities |-> "none"]]
  /\ approval = [a \in Agents |-> [p \in Codes |-> "none"]]
  /\ pc = [w \in Handlers |-> "idle"]
  /\ ctx = [w \in Handlers |-> NoContext]
  /\ answers = [a \in Agents |-> [p \in Codes |-> 0]]
  /\ finished = {}

-----------------------------------------------------------------------------
Claimable(row, u) == row.owner \in {None, u}

(* controllerClaim: the Agent and its host have no controller or this one. *)
ControllerClaim(a, u) == Claimable(agent[a], u) /\ Claimable(host[HostOf[a]], u)

(* Mutant: the update is by id alone.                                      *)
ClaimOnly(a, p, u) == ControllerClaim(a, u)

(* The WHERE of the update of approval_request.                            *)
Decides(a, p, u) == approval[a][p] = "pending" /\ ControllerClaim(a, u)

(* Mutant: the rows found pending when they were read are written.         *)
AsRead(row) == TRUE

(* The WHERE of the updates of agent and agent_host.                       *)
StillPending(row) == row.status = "pending"

Claimed(row, u, status) == [status |-> status, owner |-> u]

(* Mutant: a decision overwrites what another decision made of a grant.    *)
Undecided(s) == s \in {"pending", "active", "denied"}

(* The WHERE of the updates of agent_capability_grant.                     *)
GrantPending(s) == s = "pending"

(* Mutant: only active grants are revoked.                                 *)
RevokeActiveGrants(a) ==
  [grant EXCEPT ![a] = [c \in Capabilities |-> IF @[c] = "active" THEN "revoked" ELSE @[c]]]

(* revokeAgentCapabilityGrants: every row of the Agent.                    *)
RevokeGrants(a) ==
  [grant EXCEPT ![a] = [c \in Capabilities |-> IF @[c] = "none" THEN "none" ELSE "revoked"]]

(* Mutant: the controller column is given the id of the Agent.             *)
RevokedByAgent(a) == [status |-> "revoked", owner |-> a]

(* revokeAgentRecord keeps the controller.                                 *)
RevokedAgent(a) == [agent[a] EXCEPT !.status = "revoked"]

Await(w, step, c) ==
  /\ pc' = [pc EXCEPT ![w] = step]
  /\ ctx' = [ctx EXCEPT ![w] = c]
Answer(w) == Await(w, "idle", NoContext)

-----------------------------------------------------------------------------
(* decideApproval: the pending request is found by its user code.          *)
DecideBegin(w, u, a, p, action) ==
  /\ pc[w] = "idle"
  /\ approval[a][p] = "pending"
  /\ Await(w, "d_read", [NoContext EXCEPT !.user = u, !.agent = a, !.code = p,
                                          !.action = action, !.unread = Reads])
  /\ UNCHANGED <<agent, host, grant, approval, answers, finished>>

(* The Agent and the host are read concurrently with the pending grants; a *)
(* controller other than this User is refused.                             *)
ReadParty(w, what, row) ==
  /\ pc[w] = "d_read" /\ what \in ctx[w].unread
  /\ IF Claimable(row, ctx[w].user)
       THEN Await(w, "d_read", [ctx[w] EXCEPT
              !.unread = @ \ {what},
              !.fresh = IF row.status = "pending" THEN @ \cup {what} ELSE @])
       ELSE Answer(w)
  /\ UNCHANGED <<agent, host, grant, approval, answers, finished>>

ReadAgent(w) == ReadParty(w, "agent", agent[ctx[w].agent])
ReadHost(w) == ReadParty(w, "host", host[HostOf[ctx[w].agent]])

ReadGrants(w) ==
  /\ pc[w] = "d_read" /\ "grants" \in ctx[w].unread
  /\ Await(w, "d_read", [ctx[w] EXCEPT
       !.unread = @ \ {"grants"},
       !.asked = {c \in Capabilities : grant[ctx[w].agent][c] = "pending"}])
  /\ UNCHANGED <<agent, host, grant, approval, answers, finished>>

(* One batch.  Only the request's own update (and the audit record) is     *)
(* made under the claim; the answer depends on it alone.                   *)
Decide(w, status) ==
  LET a == ctx[w].agent  p == ctx[w].code  u == ctx[w].user IN
  /\ pc[w] = "d_read" /\ ctx[w].unread = {}
  /\ IF Decides(a, p, u)
       THEN /\ approval' = [approval EXCEPT ![a][p] = status]
            /\ answers' = [answers EXCEPT ![a][p] = @ + 1]
       ELSE UNCHANGED <<approval, answers>>
  /\ Answer(w)
  /\ UNCHANGED finished

(* approve: the grants read are activated or denied, the Agent and the host*)
(* get their controller.  chosen: the capabilities the User approves.      *)
Approve(w, chosen) ==
  LET a == ctx[w].agent  h == HostOf[a]  u == ctx[w].user IN
  /\ ctx[w].action = "approve" /\ chosen \subseteq ctx[w].asked
  /\ Decide(w, "approved")
  /\ grant' = [grant EXCEPT ![a] = [c \in Capabilities |->
       IF c \in ctx[w].asked /\ GrantPending(@[c])
         THEN IF c \in chosen THEN "active" ELSE "denied"
         ELSE @[c]]]
  /\ agent' = [agent EXCEPT ![a] =
       IF "agent" \in ctx[w].fresh /\ StillPending(@) THEN Claimed(@, u, "active") ELSE @]
  /\ host' = [host EXCEPT ![h] =
       IF "host" \in ctx[w].fresh /\ StillPending(@) THEN Claimed(@, u, "active") ELSE @]

(* deny: every grant pending now, if any was when they were read.          *)
Deny(w) ==
  LET a == ctx[w].agent  u == ctx[w].user IN
  /\ ctx[w].action = "deny"
  /\ Decide(w, "denied")
  /\ grant' = [grant EXCEPT ![a] = [c \in Capabilities |->
       IF ctx[w].asked # {} /\ GrantPending(@[c]) THEN "denied" ELSE @[c]]]
  /\ agent' = [agent EXCEPT ![a] =
       IF "agent" \in ctx[w].fresh /\ StillPending(@) THEN Claimed(@, u, "rejected") ELSE @]
  /\ UNCHANGED host

-----------------------------------------------------------------------------
(* revokeAgent, revokeAgentForUser and revokeHost: the Agents first, then  *)
(* their grants, then their approval requests, without a batch.  The       *)
(* statements of one kind run concurrently.                                *)
RevokeAgentBegin(w, a) ==
  /\ pc[w] = "idle" /\ agent[a].status # "unborn"
  /\ Await(w, "v_agent", [NoContext EXCEPT !.agents = {a}, !.todo = {a}])
  /\ UNCHANGED <<agent, host, grant, approval, answers, finished>>

RevokeHostBegin(w, h) ==
  /\ pc[w] = "idle"
  /\ host' = [host EXCEPT ![h] = [@ EXCEPT !.status = "revoked"]]
  /\ Await(w, "v_list", [NoContext EXCEPT !.host = h])
  /\ UNCHANGED <<agent, grant, approval, answers, finished>>

ListHosted(w) ==
  LET hosted == {a \in Agents : HostOf[a] = ctx[w].host /\ agent[a].status # "unborn"} IN
  /\ pc[w] = "v_list"
  /\ IF hosted = {} THEN Await(w, "v_host", ctx[w])
     ELSE Await(w, "v_agent", [ctx[w] EXCEPT !.agents = hosted, !.todo = hosted])
  /\ UNCHANGED <<agent, host, grant, approval, answers, finished>>

(* The statement of this kind is done for a; after the last one the handler*)
(* goes on to the next kind.                                               *)
StatementFor(w, a, here, next) ==
  /\ pc[w] = here /\ a \in ctx[w].todo
  /\ IF ctx[w].todo = {a}
       THEN Await(w, next, [ctx[w] EXCEPT !.todo = ctx[w].agents])
       ELSE Await(w, here, [ctx[w] EXCEPT !.todo = @ \ {a}])

RevokeAgentRow(w, a) ==
  /\ StatementFor(w, a, "v_agent", "v_grant")
  /\ agent' = [agent EXCEPT ![a] = RevokedAgent(a)]
  /\ UNCHANGED <<host, grant, approval, answers, finished>>

RevokeGrantRows(w, a) ==
  /\ StatementFor(w, a, "v_grant", "v_approval")
  /\ grant' = RevokeGrants(a)
  /\ UNCHANGED <<agent, host, approval, answers, finished>>

Revoked(requests) == [p \in Codes |-> IF requests[p] = "none" THEN "none" ELSE "revoked"]

RevokeApprovalRows(w, a) ==
  /\ pc[w] = "v_approval" /\ a \in ctx[w].todo
  /\ approval' = [approval EXCEPT ![a] = Revoked(@)]
  /\ CASE ctx[w].todo # {a} -> /\ Await(w, "v_approval", [ctx[w] EXCEPT !.todo = @ \ {a}])
                               /\ UNCHANGED finished
       [] ctx[w].todo = {a} -> /\ IF ctx[w].host = None THEN Answer(w)
                                  ELSE Await(w, "v_host", ctx[w])
                               /\ finished' = finished \cup ctx[w].agents
  /\ UNCHANGED <<agent, host, grant, answers>>

(* revokeHostApprovalRequests.                                             *)
RevokeHostApprovals(w) ==
  /\ pc[w] = "v_host"
  /\ approval' = [a \in Agents |-> IF HostOf[a] = ctx[w].host THEN Revoked(approval[a])
                                                             ELSE approval[a]]
  /\ Answer(w)
  /\ UNCHANGED <<agent, host, grant, answers, finished>>

(* revokeCapabilityGrant and revokeCapabilityGrantForUser.                 *)
RevokeGrant(a, c) ==
  /\ grant[a][c] # "none"
  /\ grant' = [grant EXCEPT ![a][c] = "revoked"]
  /\ UNCHANGED <<agent, host, approval, pc, ctx, answers, finished>>

-----------------------------------------------------------------------------
(* The Agent protocol (a library) registers an Agent on a host that is not *)
(* revoked, and files capability requests with a user code for an Agent    *)
(* that is neither rejected nor revoked.                                   *)
RegisterAgent(a) ==
  /\ agent[a].status = "unborn" /\ host[HostOf[a]].status # "revoked"
  /\ agent' = [agent EXCEPT ![a] = [status |-> "pending", owner |-> None]]
  /\ UNCHANGED <<host, grant, approval, pc, ctx, answers, finished>>

AskApproval(a, p, asked) ==
  /\ agent[a].status \in {"pending", "active"}
  /\ approval[a][p] = "none"
  /\ approval' = [approval EXCEPT ![a][p] = "pending"]
  /\ grant' = [grant EXCEPT ![a] = [c \in Capabilities |->
                 IF c \in asked /\ @[c] = "none" THEN "pending" ELSE @[c]]]
  /\ UNCHANGED <<agent, host, pc, ctx, answers, finished>>

(* An invocation ends without doing its next statement.                    *)
Abandon(w) ==
  /\ pc[w] # "idle"
  /\ Answer(w)
  /\ UNCHANGED <<agent, host, grant, approval, answers, finished>>

DecideStep(w) ==
  \/ \E u \in Users, a \in Agents, p \in Codes, action \in {"approve", "deny"} :
       DecideBegin(w, u, a, p, action)
  \/ ReadAgent(w) \/ ReadHost(w) \/ ReadGrants(w)
  \/ \E chosen \in SUBSET Capabilities : Approve(w, chosen)
  \/ Deny(w)

RevokeStep(w) ==
  \/ \E a \in Agents : \/ RevokeAgentBegin(w, a) \/ RevokeAgentRow(w, a)
                       \/ RevokeGrantRows(w, a) \/ RevokeApprovalRows(w, a)
  \/ \E h \in Hosts : RevokeHostBegin(w, h)
  \/ ListHosted(w) \/ RevokeHostApprovals(w)

ProtocolStep ==
  \E a \in Agents : \/ RegisterAgent(a)
                    \/ \E p \in Codes, asked \in SUBSET Capabilities : AskApproval(a, p, asked)

Next ==
  \/ \E w \in Handlers : DecideStep(w) \/ RevokeStep(w) \/ Abandon(w)
  \/ \E a \in Agents, c \in Capabilities : RevokeGrant(a, c)
  \/ ProtocolStep

Spec == Init /\ [][Next]_vars

-----------------------------------------------------------------------------
(* Properties.                                                             *)

(* specs/agent-identity.feature:101: one authoritative outcome.  However   *)
(* many deciders enter the user code, one at most is told it is decided.   *)
OneOutcomePerApproval == \A a \in Agents, p \in Codes : answers[a][p] <= 1

(* A controller, once there, is never replaced: two Users who read the     *)
(* Agent or the host while nobody had claimed it cannot both take it.      *)
ControllerIsForever ==
  [][/\ \A a \in Agents : agent[a].owner # None => agent'[a].owner = agent[a].owner
     /\ \A h \in Hosts : host[h].owner # None => host'[h].owner = host[h].owner]_vars

(* What one decision made of a grant no later or concurrent one turns      *)
(* round: denied never becomes active, active never becomes denied.        *)
GrantIsDecidedOnce ==
  [][\A a \in Agents, c \in Capabilities :
       grant[a][c] \in {"active", "denied", "revoked"} =>
         grant'[a][c] \in {grant[a][c], "revoked"}]_vars

(* A revocation that ran to its end left nothing usable or decidable,      *)
(* although decisions that read before it commit during or after it.       *)
RevocationIsThorough ==
  \A a \in finished :
    /\ agent[a].status = "revoked"
    /\ \A c \in Capabilities : grant[a][c] \notin {"pending", "active"}
    /\ \A p \in Codes : approval[a][p] # "pending"

(* integration/agent-identities.test.ts:688 "allows only one controller to *)
(* claim an unowned Agent": an active Agent and its host have the same one.*)
AgentAndHostShareController ==
  \A a \in Agents :
    agent[a].status = "active" /\ host[HostOf[a]].owner # None
      => agent[a].owner = host[HostOf[a]].owner
=============================================================================

------------------------- MODULE AgentApprovalProofs -------------------------
(***************************************************************************)
(* TLAPS proofs about AgentApproval, for every set of handlers, Users,     *)
(* Agents, hosts, codes and capabilities.                                  *)
(***************************************************************************)
EXTENDS AgentApproval, TLAPS

-----------------------------------------------------------------------------
(* The inductive invariant.                                                *)

(* A decision in flight knows who decides what.                            *)
DecideContext ==
  \A w \in Handlers : pc[w] = "d_read" =>
    ctx[w].user \in Users /\ ctx[w].agent \in Agents /\ ctx[w].code \in Codes

(* Nobody was answered about a request that is still to be decided.        *)
OpenIsUnanswered ==
  \A a \in Agents, p \in Codes : approval[a][p] \in {"none", "pending"} => answers[a][p] = 0

(* A row gets its controller with its decision: while it can be decided it *)
(* has none.                                                               *)
UnclaimedUntilDecided ==
  /\ \A a \in Agents : agent[a].status \in {"unborn", "pending"} => agent[a].owner = None
  /\ \A h \in Hosts : host[h].status = "pending" => host[h].owner = None

Stopped(a) == agent[a].status = "revoked"
Ungranted(a) == \A c \in Capabilities : grant[a][c] \notin {"pending", "active"}
Undecidable(a) == \A p \in Codes : approval[a][p] # "pending"

(* What the statements of a revocation have done so far lasts.             *)
Progress(w) ==
  \A a \in ctx[w].agents :
    /\ pc[w] = "v_agent" /\ a \notin ctx[w].todo => Stopped(a)
    /\ pc[w] = "v_grant" => /\ Stopped(a)
                            /\ a \notin ctx[w].todo => Ungranted(a)
    /\ pc[w] = "v_approval" => /\ Stopped(a) /\ Ungranted(a)
                               /\ a \notin ctx[w].todo => Undecidable(a)
RevocationProgress == \A w \in Handlers : Progress(w)

IInv ==
  /\ TypeOK
  /\ DecideContext
  /\ OpenIsUnanswered
  /\ UnclaimedUntilDecided
  /\ RevocationProgress
  /\ OneOutcomePerApproval
  /\ RevocationIsThorough

-----------------------------------------------------------------------------
LEMMA InitEstablishes == Init => IInv
  BY HostAssumption, NoneAssumption
  DEF Init, IInv, TypeOK, DecideContext, OpenIsUnanswered, UnclaimedUntilDecided,
      RevocationProgress, Progress, OneOutcomePerApproval, RevocationIsThorough, Party, PartyStatus,
      GrantStatus, ApprovalStatus, Steps, Context, NoContext

LEMMA AwaitEffect ==
  ASSUME TypeOK, NEW w \in Handlers, NEW step \in Steps, NEW c \in Context, Await(w, step, c)
  PROVE  /\ pc' \in [Handlers -> Steps] /\ ctx' \in [Handlers -> Context]
         /\ pc'[w] = step /\ ctx'[w] = c
         /\ \A v \in Handlers \ {w} : pc'[v] = pc[v] /\ ctx'[v] = ctx[v]
  BY DEF TypeOK, Await

LEMMA NoContextIsContext == NoContext \in Context
  BY DEF NoContext, Context

LEMMA AnswerEffect ==
  ASSUME TypeOK, NEW w \in Handlers, Answer(w)
  PROVE  /\ pc' \in [Handlers -> Steps] /\ ctx' \in [Handlers -> Context]
         /\ pc'[w] = "idle"
         /\ \A v \in Handlers \ {w} : pc'[v] = pc[v] /\ ctx'[v] = ctx[v]
  BY NoContextIsContext, AwaitEffect DEF Answer, Steps

-----------------------------------------------------------------------------
(* Where a handler goes and what it takes along, action by action.         *)

(* No handler moves but w, which answers, keeps reading with the same      *)
(* decision, or is at a step of a revocation.                              *)
Moves(w) ==
  /\ pc' \in [Handlers -> Steps] /\ ctx' \in [Handlers -> Context]
  /\ \A v \in Handlers \ {w} : pc'[v] = pc[v] /\ ctx'[v] = ctx[v]
  /\ pc'[w] = "d_read" =>
       ctx'[w].user \in Users /\ ctx'[w].agent \in Agents /\ ctx'[w].code \in Codes

LEMMA DecideMoves ==
  ASSUME IInv, NEW w \in Handlers, DecideStep(w)
  PROVE  Moves(w) /\ pc'[w] \in {"idle", "d_read"} /\ UNCHANGED finished
<1>1. TypeOK /\ DecideContext
  BY DEF IInv
<1>2. CASE \E u \in Users, a \in Agents, p \in Codes, action \in {"approve", "deny"} :
             DecideBegin(w, u, a, p, action)
  <2>1. PICK u \in Users, a \in Agents, p \in Codes, action \in {"approve", "deny"} :
          DecideBegin(w, u, a, p, action)
    BY <1>2
  <2> DEFINE c == [NoContext EXCEPT !.user = u, !.agent = a, !.code = p,
                                    !.action = action, !.unread = Reads]
  <2>2. c \in Context /\ c.user = u /\ c.agent = a /\ c.code = p
    BY DEF NoContext, Context
  <2>3. Await(w, "d_read", c)
    BY <2>1 DEF DecideBegin
  <2> HIDE DEF c
  <2> QED BY <1>1, <2>1, <2>2, <2>3, AwaitEffect DEF Moves, Steps, DecideBegin
<1>3. ASSUME NEW what \in {"agent", "host"}, NEW STATE row,
             ReadParty(w, what, row)
      PROVE  Moves(w) /\ pc'[w] \in {"idle", "d_read"} /\ UNCHANGED finished
  <2>1. CASE Claimable(row, ctx[w].user)
    <3> DEFINE fresh == IF row.status = "pending" THEN ctx[w].fresh \cup {what} ELSE ctx[w].fresh
               read == [ctx[w] EXCEPT !.unread = @ \ {what}, !.fresh = fresh]
    <3>1. ctx[w] \in Context /\ fresh \subseteq {"agent", "host"}
      BY <1>1 DEF TypeOK, Context
    <3>2. /\ read \in Context /\ read.user = ctx[w].user /\ read.agent = ctx[w].agent
          /\ read.code = ctx[w].code
      BY <3>1 DEF Context
    <3>3. PICK c \in Context : /\ Await(w, "d_read", c)
                               /\ c.user = ctx[w].user /\ c.agent = ctx[w].agent
                               /\ c.code = ctx[w].code
      BY <3>2, <1>3, <2>1 DEF ReadParty
    <3>4. /\ ctx[w].user \in Users /\ ctx[w].agent \in Agents /\ ctx[w].code \in Codes
          /\ UNCHANGED finished
      BY <1>1, <1>3 DEF ReadParty, DecideContext
    <3> QED BY <1>1, <3>3, <3>4, AwaitEffect DEF Moves, Steps
  <2>2. CASE ~Claimable(row, ctx[w].user)
    BY <1>1, <1>3, <2>2, AnswerEffect DEF ReadParty, Moves
  <2> QED BY <2>1, <2>2
<1>4. CASE ReadAgent(w)
  BY <1>3, <1>4 DEF ReadAgent
<1>5. CASE ReadHost(w)
  BY <1>3, <1>5 DEF ReadHost
<1>6. CASE ReadGrants(w)
  <2> DEFINE asked == {c \in Capabilities : grant[ctx[w].agent][c] = "pending"}
             read == [ctx[w] EXCEPT !.unread = @ \ {"grants"}, !.asked = asked]
  <2>1. ctx[w] \in Context
    BY <1>1 DEF TypeOK
  <2>2. /\ read \in Context /\ read.user = ctx[w].user /\ read.agent = ctx[w].agent
        /\ read.code = ctx[w].code
    BY <2>1 DEF Context
  <2>3. PICK c \in Context : /\ Await(w, "d_read", c)
                             /\ c.user = ctx[w].user /\ c.agent = ctx[w].agent
                             /\ c.code = ctx[w].code
    BY <2>2, <1>6 DEF ReadGrants
  <2>4. /\ ctx[w].user \in Users /\ ctx[w].agent \in Agents /\ ctx[w].code \in Codes
        /\ UNCHANGED finished
    BY <1>1, <1>6 DEF ReadGrants, DecideContext
  <2> QED BY <1>1, <2>3, <2>4, AwaitEffect DEF Moves, Steps
<1>7. CASE \E chosen \in SUBSET Capabilities : Approve(w, chosen)
  BY <1>1, <1>7, AnswerEffect DEF Approve, Decide, Moves
<1>8. CASE Deny(w)
  BY <1>1, <1>8, AnswerEffect DEF Deny, Decide, Moves
<1> QED BY <1>2, <1>4, <1>5, <1>6, <1>7, <1>8 DEF DecideStep

LEMMA StatementMoves ==
  ASSUME TypeOK, NEW w \in Handlers, NEW a \in Agents, NEW here \in Steps,
         NEW next \in Steps \ {"d_read"}, here # "d_read", StatementFor(w, a, here, next)
  PROVE  Moves(w) /\ pc'[w] # "d_read" /\ ctx'[w].agents = ctx[w].agents
<1>1. ctx[w] \in Context
  BY DEF TypeOK
<1>2. PICK todo \in SUBSET Agents, step \in Steps \ {"d_read"} :
        Await(w, step, [ctx[w] EXCEPT !.todo = todo])
  <2>1. ctx[w].agents \in SUBSET Agents /\ ctx[w].todo \ {a} \in SUBSET Agents
    BY <1>1 DEF Context
  <2> QED BY <2>1 DEF StatementFor
<1>3. /\ [ctx[w] EXCEPT !.todo = todo] \in Context
      /\ [ctx[w] EXCEPT !.todo = todo].agents = ctx[w].agents
  BY <1>1 DEF Context
<1> QED BY <1>2, <1>3, AwaitEffect DEF Moves

LEMMA RevokeMoves ==
  ASSUME IInv, NEW w \in Handlers, RevokeStep(w)
  PROVE  Moves(w) /\ pc'[w] # "d_read"
<1>1. TypeOK /\ ctx[w] \in Context
  BY DEF IInv, TypeOK
<1>2. ASSUME NEW a \in Agents, RevokeAgentBegin(w, a)
      PROVE  Moves(w) /\ pc'[w] # "d_read"
  <2>1. [NoContext EXCEPT !.agents = {a}, !.todo = {a}] \in Context
    BY DEF NoContext, Context
  <2> QED BY <1>1, <1>2, <2>1, AwaitEffect DEF RevokeAgentBegin, Moves, Steps
<1>3. ASSUME NEW a \in Agents, RevokeAgentRow(w, a)
      PROVE  Moves(w) /\ pc'[w] # "d_read"
  BY <1>1, <1>3, StatementMoves DEF RevokeAgentRow, Steps
<1>4. ASSUME NEW a \in Agents, RevokeGrantRows(w, a)
      PROVE  Moves(w) /\ pc'[w] # "d_read"
  BY <1>1, <1>4, StatementMoves DEF RevokeGrantRows, Steps
<1>5. ASSUME NEW a \in Agents, RevokeApprovalRows(w, a)
      PROVE  Moves(w) /\ pc'[w] # "d_read"
  <2>1. [ctx[w] EXCEPT !.todo = @ \ {a}] \in Context
    BY <1>1 DEF Context
  <2>2. CASE ctx[w].todo # {a}
    BY <1>1, <1>5, <2>1, <2>2, AwaitEffect DEF RevokeApprovalRows, Moves, Steps
  <2>3. CASE ctx[w].todo = {a} /\ ctx[w].host = None
    BY <1>1, <1>5, <2>3, AnswerEffect DEF RevokeApprovalRows, Moves
  <2>4. CASE ctx[w].todo = {a} /\ ctx[w].host # None
    BY <1>1, <1>5, <2>4, AwaitEffect DEF RevokeApprovalRows, Moves, Steps
  <2> QED BY <2>2, <2>3, <2>4
<1>6. ASSUME NEW h \in Hosts, RevokeHostBegin(w, h)
      PROVE  Moves(w) /\ pc'[w] # "d_read"
  <2>1. [NoContext EXCEPT !.host = h] \in Context
    BY DEF NoContext, Context
  <2> QED BY <1>1, <1>6, <2>1, AwaitEffect DEF RevokeHostBegin, Moves, Steps
<1>7. CASE ListHosted(w)
  <2> DEFINE hosted == {a \in Agents : HostOf[a] = ctx[w].host /\ agent[a].status # "unborn"}
  <2>1. [ctx[w] EXCEPT !.agents = hosted, !.todo = hosted] \in Context
    BY <1>1 DEF Context
  <2>2. CASE hosted = {}
    BY <1>1, <1>7, <2>2, AwaitEffect DEF ListHosted, Moves, Steps
  <2>3. CASE hosted # {}
    BY <1>1, <1>7, <2>1, <2>3, AwaitEffect DEF ListHosted, Moves, Steps
  <2> QED BY <2>2, <2>3
<1>8. CASE RevokeHostApprovals(w)
  BY <1>1, <1>8, AnswerEffect DEF RevokeHostApprovals, Moves
<1> QED BY <1>2, <1>3, <1>4, <1>5, <1>6, <1>7, <1>8 DEF RevokeStep

-----------------------------------------------------------------------------
(* What an action does to the rows.                                        *)
ControllersKept ==
  /\ \A a \in Agents : agent[a].owner # None => agent'[a].owner = agent[a].owner
  /\ \A h \in Hosts : host[h].owner # None => host'[h].owner = host[h].owner

DecisionsKept ==
  \A a \in Agents, c \in Capabilities :
    grant[a][c] \in {"active", "denied", "revoked"} => grant'[a][c] \in {grant[a][c], "revoked"}

AgentsSound ==
  /\ agent' \in [Agents -> Party] /\ host' \in [Hosts -> Party]
  /\ UnclaimedUntilDecided' /\ ControllersKept
  /\ \A a \in Agents : Stopped(a) => Stopped(a)'

GrantsSound ==
  /\ grant' \in [Agents -> [Capabilities -> GrantStatus]]
  /\ DecisionsKept
  /\ \A a \in Agents : Stopped(a) /\ Ungranted(a) => Ungranted(a)'

ApprovalsSound ==
  /\ approval' \in [Agents -> [Codes -> ApprovalStatus]]
  /\ answers' \in [Agents -> [Codes -> Nat]]
  /\ OpenIsUnanswered' /\ OneOutcomePerApproval'
  /\ \A a \in Agents : Stopped(a) /\ Undecidable(a) => Undecidable(a)'

LEMMA AgentsUnchanged ==
  ASSUME IInv, UNCHANGED <<agent, host>>
  PROVE  AgentsSound
  BY DEF IInv, TypeOK, AgentsSound, UnclaimedUntilDecided, ControllersKept, Stopped

LEMMA GrantsUnchanged ==
  ASSUME IInv, UNCHANGED grant
  PROVE  GrantsSound
  BY DEF IInv, TypeOK, GrantsSound, DecisionsKept, Ungranted

LEMMA ApprovalsUnchanged ==
  ASSUME IInv, UNCHANGED <<approval, answers>>
  PROVE  ApprovalsSound
  BY DEF IInv, TypeOK, ApprovalsSound, OpenIsUnanswered, OneOutcomePerApproval, Undecidable

(* Decisions.                                                              *)
LEMMA DecideRequest ==
  ASSUME IInv, NEW w \in Handlers, NEW status \in {"approved", "denied"}, Decide(w, status)
  PROVE  ApprovalsSound
<1> DEFINE a == ctx[w].agent
           p == ctx[w].code
<1>1. TypeOK /\ a \in Agents /\ p \in Codes
  BY DEF IInv, Decide, DecideContext
<1>2. CASE Decides(a, p, ctx[w].user)
  <2>1. /\ approval' = [approval EXCEPT ![a][p] = status]
        /\ answers' = [answers EXCEPT ![a][p] = @ + 1]
        /\ answers[a][p] = 0
    BY <1>1, <1>2 DEF IInv, Decide, Decides, OpenIsUnanswered
  <2>2. \A b \in Agents, q \in Codes :
          /\ approval'[b][q] = IF b = a /\ q = p THEN status ELSE approval[b][q]
          /\ answers'[b][q] = IF b = a /\ q = p THEN 1 ELSE answers[b][q]
    BY <1>1, <2>1 DEF TypeOK
  <2>3. /\ approval' \in [Agents -> [Codes -> ApprovalStatus]]
        /\ answers' \in [Agents -> [Codes -> Nat]]
    BY <1>1, <2>1 DEF TypeOK, ApprovalStatus
  <2> HIDE DEF a, p
  <2> QED BY <2>2, <2>3
          DEF IInv, ApprovalsSound, OpenIsUnanswered, OneOutcomePerApproval, Undecidable
<1>3. CASE ~Decides(a, p, ctx[w].user)
  BY <1>3, ApprovalsUnchanged DEF Decide
<1> QED BY <1>2, <1>3

(* A row is claimed only while it is pending, and so has no controller.    *)
LEMMA ClaimRow ==
  ASSUME NEW row \in Party, NEW row2, NEW u \in Users, NEW status \in {"active", "rejected"},
         NEW fresh \in BOOLEAN,
         row2 = IF fresh /\ StillPending(row) THEN Claimed(row, u, status) ELSE row,
         row.status = "pending" => row.owner = None
  PROVE  /\ row2 \in Party
         /\ row.owner # None => row2.owner = row.owner
         /\ row.status = "revoked" => row2.status = "revoked"
         /\ row2.status \in {"unborn", "pending"} => row2 = row
  BY DEF Party, PartyStatus, StillPending, Claimed

LEMMA ApproveSound ==
  ASSUME IInv, NEW w \in Handlers, NEW chosen \in SUBSET Capabilities, Approve(w, chosen)
  PROVE  AgentsSound /\ GrantsSound /\ ApprovalsSound
<1> DEFINE a == ctx[w].agent
           h == HostOf[ctx[w].agent]
           u == ctx[w].user
<1>1. TypeOK /\ UnclaimedUntilDecided /\ a \in Agents /\ h \in Hosts /\ u \in Users
  BY HostAssumption DEF IInv, Approve, Decide, DecideContext
<1>2. ApprovalsSound
  BY DecideRequest DEF Approve
<1>3. GrantsSound
  <2>1. grant' = [grant EXCEPT ![a] = [c \in Capabilities |->
          IF c \in ctx[w].asked /\ GrantPending(@[c])
            THEN IF c \in chosen THEN "active" ELSE "denied"
            ELSE @[c]]]
    BY DEF Approve
  <2>2. \A b \in Agents, c \in Capabilities :
          \/ grant'[b][c] = grant[b][c]
          \/ grant[b][c] = "pending" /\ grant'[b][c] \in {"active", "denied"}
    BY <1>1, <2>1 DEF TypeOK, GrantPending
  <2>3. grant' \in [Agents -> [Capabilities -> GrantStatus]]
    BY <1>1, <2>1 DEF TypeOK, GrantStatus
  <2> HIDE DEF a
  <2> QED BY <2>2, <2>3 DEF GrantsSound, DecisionsKept, Ungranted
<1>4. AgentsSound
  <2>1. /\ agent' = [agent EXCEPT ![a] =
            IF "agent" \in ctx[w].fresh /\ StillPending(@) THEN Claimed(@, u, "active") ELSE @]
        /\ host' = [host EXCEPT ![h] =
            IF "host" \in ctx[w].fresh /\ StillPending(@) THEN Claimed(@, u, "active") ELSE @]
    BY DEF Approve
  <2>2. /\ agent[a] \in Party /\ host[h] \in Party
        /\ agent[a].status = "pending" => agent[a].owner = None
        /\ host[h].status = "pending" => host[h].owner = None
        /\ \A b \in Agents \ {a} : agent'[b] = agent[b]
        /\ \A g \in Hosts \ {h} : host'[g] = host[g]
    BY <1>1, <2>1 DEF TypeOK, UnclaimedUntilDecided
  <2>3. /\ agent'[a] = IF "agent" \in ctx[w].fresh /\ StillPending(agent[a])
                         THEN Claimed(agent[a], u, "active") ELSE agent[a]
        /\ host'[h] = IF "host" \in ctx[w].fresh /\ StillPending(host[h])
                        THEN Claimed(host[h], u, "active") ELSE host[h]
    BY <1>1, <2>1 DEF TypeOK
  <2> HIDE DEF a, h, u
  <2>4. /\ agent'[a] \in Party
        /\ agent[a].owner # None => agent'[a].owner = agent[a].owner
        /\ agent[a].status = "revoked" => agent'[a].status = "revoked"
        /\ agent'[a].status \in {"unborn", "pending"} => agent'[a] = agent[a]
    BY <1>1, <2>2, <2>3, ClaimRow
  <2>5. /\ host'[h] \in Party
        /\ host[h].owner # None => host'[h].owner = host[h].owner
        /\ host'[h].status \in {"unborn", "pending"} => host'[h] = host[h]
    BY <1>1, <2>2, <2>3, ClaimRow
  <2>6. agent' \in [Agents -> Party] /\ host' \in [Hosts -> Party]
    BY <1>1, <2>1, <2>4, <2>5 DEF TypeOK
  <2> QED BY <1>1, <2>2, <2>4, <2>5, <2>6
          DEF AgentsSound, UnclaimedUntilDecided, ControllersKept, Stopped
<1> QED BY <1>2, <1>3, <1>4

LEMMA DenySound ==
  ASSUME IInv, NEW w \in Handlers, Deny(w)
  PROVE  AgentsSound /\ GrantsSound /\ ApprovalsSound
<1> DEFINE a == ctx[w].agent
           u == ctx[w].user
<1>1. TypeOK /\ UnclaimedUntilDecided /\ a \in Agents /\ u \in Users
  BY DEF IInv, Deny, Decide, DecideContext
<1>2. ApprovalsSound
  BY DecideRequest DEF Deny
<1>3. GrantsSound
  <2>1. grant' = [grant EXCEPT ![a] = [c \in Capabilities |->
          IF ctx[w].asked # {} /\ GrantPending(@[c]) THEN "denied" ELSE @[c]]]
    BY DEF Deny
  <2>2. \A b \in Agents, c \in Capabilities :
          \/ grant'[b][c] = grant[b][c]
          \/ grant[b][c] = "pending" /\ grant'[b][c] = "denied"
    BY <1>1, <2>1 DEF TypeOK, GrantPending
  <2>3. grant' \in [Agents -> [Capabilities -> GrantStatus]]
    BY <1>1, <2>1 DEF TypeOK, GrantStatus
  <2> HIDE DEF a
  <2> QED BY <2>2, <2>3 DEF GrantsSound, DecisionsKept, Ungranted
<1>4. AgentsSound
  <2>1. /\ agent' = [agent EXCEPT ![a] =
            IF "agent" \in ctx[w].fresh /\ StillPending(@) THEN Claimed(@, u, "rejected") ELSE @]
        /\ UNCHANGED host
    BY DEF Deny
  <2>2. /\ agent[a] \in Party
        /\ agent[a].status = "pending" => agent[a].owner = None
        /\ \A b \in Agents \ {a} : agent'[b] = agent[b]
    BY <1>1, <2>1 DEF TypeOK, UnclaimedUntilDecided
  <2>3. agent'[a] = IF "agent" \in ctx[w].fresh /\ StillPending(agent[a])
                      THEN Claimed(agent[a], u, "rejected") ELSE agent[a]
    BY <1>1, <2>1 DEF TypeOK
  <2> HIDE DEF a, u
  <2>4. /\ agent'[a] \in Party
        /\ agent[a].owner # None => agent'[a].owner = agent[a].owner
        /\ agent[a].status = "revoked" => agent'[a].status = "revoked"
        /\ agent'[a].status \in {"unborn", "pending"} => agent'[a] = agent[a]
    BY <1>1, <2>2, <2>3, ClaimRow
  <2>5. agent' \in [Agents -> Party] /\ host' \in [Hosts -> Party]
    BY <1>1, <2>1, <2>4 DEF TypeOK
  <2> QED BY <1>1, <2>1, <2>2, <2>4, <2>5
          DEF AgentsSound, UnclaimedUntilDecided, ControllersKept, Stopped
<1> QED BY <1>2, <1>3, <1>4

(* Revocations, and the protocol.                                          *)
RowsSound == AgentsSound /\ GrantsSound /\ ApprovalsSound

LEMMA RevokeAgentRowSound ==
  ASSUME IInv, NEW w \in Handlers, NEW a \in Agents, RevokeAgentRow(w, a)
  PROVE  RowsSound /\ Stopped(a)'
<1>1. agent' = [agent EXCEPT ![a] = RevokedAgent(a)] /\ UNCHANGED <<host, grant, approval, answers>>
  BY DEF RevokeAgentRow
<1>2. TypeOK /\ UnclaimedUntilDecided
  BY DEF IInv
<1>3. /\ RevokedAgent(a) \in Party /\ RevokedAgent(a).status = "revoked"
      /\ RevokedAgent(a).owner = agent[a].owner
  BY <1>2 DEF TypeOK, RevokedAgent, Party, PartyStatus
<1>4. /\ agent' \in [Agents -> Party]
      /\ agent'[a].status = "revoked" /\ agent'[a].owner = agent[a].owner
      /\ \A b \in Agents \ {a} : agent'[b] = agent[b]
  BY <1>1, <1>2, <1>3 DEF TypeOK
<1>5. AgentsSound
  BY <1>1, <1>2, <1>4 DEF TypeOK, AgentsSound, UnclaimedUntilDecided, ControllersKept, Stopped
<1> QED BY <1>1, <1>4, <1>5, GrantsUnchanged, ApprovalsUnchanged DEF RowsSound, Stopped

LEMMA RevokeGrantRowsSound ==
  ASSUME IInv, NEW w \in Handlers, NEW a \in Agents, RevokeGrantRows(w, a)
  PROVE  RowsSound /\ Ungranted(a)'
<1>1. grant' = RevokeGrants(a) /\ UNCHANGED <<agent, host, approval, answers>>
  BY DEF RevokeGrantRows
<1>2. TypeOK
  BY DEF IInv
<1>3. /\ grant' \in [Agents -> [Capabilities -> GrantStatus]]
      /\ \A c \in Capabilities : grant'[a][c] = IF grant[a][c] = "none" THEN "none" ELSE "revoked"
      /\ \A b \in Agents \ {a} : grant'[b] = grant[b]
  BY <1>1, <1>2 DEF TypeOK, RevokeGrants, GrantStatus
<1>4. GrantsSound /\ Ungranted(a)'
  BY <1>3 DEF GrantsSound, DecisionsKept, Ungranted
<1> QED BY <1>1, <1>4, AgentsUnchanged, ApprovalsUnchanged DEF RowsSound

(* Requests are revoked for some Agents, and nobody is answered.           *)
LEMMA RevokeRequests ==
  ASSUME IInv, NEW S \in SUBSET Agents, UNCHANGED <<agent, host, grant, answers>>,
         approval' = [a \in Agents |-> IF a \in S THEN Revoked(approval[a]) ELSE approval[a]]
  PROVE  RowsSound /\ \A a \in S : Undecidable(a)'
<1>1. TypeOK /\ OpenIsUnanswered /\ OneOutcomePerApproval
  BY DEF IInv
<1>2. \A a \in Agents, p \in Codes :
        approval'[a][p] = IF a \in S /\ approval[a][p] # "none" THEN "revoked" ELSE approval[a][p]
  BY DEF Revoked
<1>3. \A a \in Agents : approval'[a] \in [Codes -> ApprovalStatus]
  BY <1>1 DEF TypeOK, Revoked, ApprovalStatus
<1>4. approval' \in [Agents -> [Codes -> ApprovalStatus]]
  BY <1>3
<1>5. ApprovalsSound
  BY <1>1, <1>2, <1>4
     DEF TypeOK, ApprovalsSound, OpenIsUnanswered, OneOutcomePerApproval, Undecidable
<1>6. \A a \in S : Undecidable(a)'
  BY <1>2 DEF Undecidable
<1> QED BY <1>5, <1>6, AgentsUnchanged, GrantsUnchanged DEF RowsSound

LEMMA RevokeApprovalRowsSound ==
  ASSUME IInv, NEW w \in Handlers, NEW a \in Agents, RevokeApprovalRows(w, a)
  PROVE  RowsSound /\ Undecidable(a)'
<1>1. /\ approval' = [approval EXCEPT ![a] = Revoked(@)]
      /\ UNCHANGED <<agent, host, grant, answers>>
  BY DEF RevokeApprovalRows
<1>2. approval' = [b \in Agents |-> IF b \in {a} THEN Revoked(approval[b]) ELSE approval[b]]
  BY <1>1 DEF IInv, TypeOK
<1> QED BY <1>1, <1>2, RevokeRequests

LEMMA RevokeHostApprovalsSound ==
  ASSUME IInv, NEW w \in Handlers, RevokeHostApprovals(w)
  PROVE  RowsSound
<1> DEFINE S == {a \in Agents : HostOf[a] = ctx[w].host}
<1>1. /\ approval' = [a \in Agents |-> IF a \in S THEN Revoked(approval[a]) ELSE approval[a]]
      /\ UNCHANGED <<agent, host, grant, answers>>
  BY DEF RevokeHostApprovals
<1> QED BY <1>1, RevokeRequests

LEMMA RevokeHostBeginSound ==
  ASSUME IInv, NEW w \in Handlers, NEW h \in Hosts, RevokeHostBegin(w, h)
  PROVE  RowsSound
<1>1. /\ host' = [host EXCEPT ![h] = [@ EXCEPT !.status = "revoked"]]
      /\ UNCHANGED <<agent, grant, approval, answers>>
  BY DEF RevokeHostBegin
<1>2. TypeOK /\ UnclaimedUntilDecided
  BY DEF IInv
<1>3. /\ host' \in [Hosts -> Party]
      /\ host'[h].status = "revoked" /\ host'[h].owner = host[h].owner
      /\ \A g \in Hosts \ {h} : host'[g] = host[g]
  BY <1>1, <1>2 DEF TypeOK, Party, PartyStatus
<1>4. AgentsSound
  BY <1>1, <1>2, <1>3 DEF TypeOK, AgentsSound, UnclaimedUntilDecided, ControllersKept, Stopped
<1> QED BY <1>1, <1>4, GrantsUnchanged, ApprovalsUnchanged DEF RowsSound

LEMMA RevokeGrantSound ==
  ASSUME IInv, NEW a \in Agents, NEW c \in Capabilities, RevokeGrant(a, c)
  PROVE  RowsSound
<1>1. /\ grant' = [grant EXCEPT ![a][c] = "revoked"]
      /\ UNCHANGED <<agent, host, approval, answers>>
  BY DEF RevokeGrant
<1>2. /\ grant' \in [Agents -> [Capabilities -> GrantStatus]]
      /\ \A b \in Agents, d \in Capabilities :
           grant'[b][d] = IF b = a /\ d = c THEN "revoked" ELSE grant[b][d]
  BY <1>1 DEF IInv, TypeOK, GrantStatus
<1>3. GrantsSound
  BY <1>2 DEF GrantsSound, DecisionsKept, Ungranted
<1> QED BY <1>1, <1>3, AgentsUnchanged, ApprovalsUnchanged DEF RowsSound

LEMMA RegisterAgentSound ==
  ASSUME IInv, NEW a \in Agents, RegisterAgent(a)
  PROVE  RowsSound
<1>1. /\ agent[a].status = "unborn"
      /\ agent' = [agent EXCEPT ![a] = [status |-> "pending", owner |-> None]]
      /\ UNCHANGED <<host, grant, approval, answers>>
  BY DEF RegisterAgent
<1>2. TypeOK /\ UnclaimedUntilDecided
  BY DEF IInv
<1>3. /\ agent' \in [Agents -> Party]
      /\ agent'[a].owner = None /\ agent[a].owner = None
      /\ \A b \in Agents \ {a} : agent'[b] = agent[b]
  BY <1>1, <1>2 DEF TypeOK, Party, PartyStatus, UnclaimedUntilDecided
<1>4. AgentsSound
  BY <1>1, <1>2, <1>3 DEF TypeOK, AgentsSound, UnclaimedUntilDecided, ControllersKept, Stopped
<1> QED BY <1>1, <1>4, GrantsUnchanged, ApprovalsUnchanged DEF RowsSound

LEMMA AskApprovalSound ==
  ASSUME IInv, NEW a \in Agents, NEW p \in Codes, NEW asked \in SUBSET Capabilities,
         AskApproval(a, p, asked)
  PROVE  RowsSound
<1>1. /\ agent[a].status # "revoked" /\ approval[a][p] = "none"
      /\ approval' = [approval EXCEPT ![a][p] = "pending"]
      /\ grant' = [grant EXCEPT ![a] = [c \in Capabilities |->
                     IF c \in asked /\ @[c] = "none" THEN "pending" ELSE @[c]]]
      /\ UNCHANGED <<agent, host, answers>>
  BY DEF AskApproval
<1>2. TypeOK /\ OpenIsUnanswered /\ OneOutcomePerApproval
  BY DEF IInv
<1>3. GrantsSound
  <2>1. grant' \in [Agents -> [Capabilities -> GrantStatus]]
    BY <1>1, <1>2 DEF TypeOK, GrantStatus
  <2>2. \A b \in Agents, c \in Capabilities :
          \/ grant'[b][c] = grant[b][c]
          \/ b = a /\ grant[b][c] = "none"
    BY <1>1, <1>2 DEF TypeOK
  <2> QED BY <1>1, <2>1, <2>2 DEF GrantsSound, DecisionsKept, Ungranted, Stopped
<1>4. ApprovalsSound
  <2>1. approval' \in [Agents -> [Codes -> ApprovalStatus]]
    BY <1>1, <1>2 DEF TypeOK, ApprovalStatus
  <2>2. \A b \in Agents, q \in Codes :
          approval'[b][q] = IF b = a /\ q = p THEN "pending" ELSE approval[b][q]
    BY <1>1, <1>2 DEF TypeOK
  <2> QED BY <1>1, <1>2, <2>1, <2>2
          DEF TypeOK, ApprovalsSound, OpenIsUnanswered, OneOutcomePerApproval, Undecidable, Stopped
<1> QED BY <1>1, <1>3, <1>4, AgentsUnchanged DEF RowsSound

-----------------------------------------------------------------------------
(* From the rows and the mover to the invariant.                           *)
LEMMA OthersProgress ==
  ASSUME IInv, RowsSound, NEW v \in Handlers, pc'[v] = pc[v], ctx'[v] = ctx[v]
  PROVE  Progress(v)'
<1>1. Progress(v) /\ ctx[v].agents \subseteq Agents
  BY DEF IInv, RevocationProgress, TypeOK, Context
<1>2. \A a \in Agents : /\ Stopped(a) => Stopped(a)'
                        /\ Stopped(a) /\ Ungranted(a) => Ungranted(a)'
                        /\ Stopped(a) /\ Undecidable(a) => Undecidable(a)'
  BY DEF RowsSound, AgentsSound, GrantsSound, ApprovalsSound
<1> QED BY <1>1, <1>2 DEF Progress

LEMMA FinishedStays ==
  ASSUME IInv, RowsSound, UNCHANGED finished
  PROVE  finished' \subseteq Agents /\ RevocationIsThorough'
<1>1. finished \subseteq Agents /\ \A a \in finished : Stopped(a) /\ Ungranted(a) /\ Undecidable(a)
  BY DEF IInv, TypeOK, RevocationIsThorough, Stopped, Ungranted, Undecidable
<1>2. \A a \in finished : Stopped(a)' /\ Ungranted(a)' /\ Undecidable(a)'
  BY <1>1 DEF RowsSound, AgentsSound, GrantsSound, ApprovalsSound
<1> QED BY <1>1, <1>2 DEF RevocationIsThorough, Stopped, Ungranted, Undecidable

LEMMA MoverEstablishes ==
  ASSUME IInv, RowsSound, NEW w \in Handlers, Moves(w), Progress(w)',
         finished' \subseteq Agents, RevocationIsThorough'
  PROVE  IInv'
<1>1. TypeOK'
  BY DEF RowsSound, AgentsSound, GrantsSound, ApprovalsSound, Moves, TypeOK
<1>2. DecideContext'
  BY DEF Moves, IInv, DecideContext
<1>3. RevocationProgress'
  BY OthersProgress DEF RevocationProgress, Moves
<1> QED BY <1>1, <1>2, <1>3 DEF IInv, RowsSound, AgentsSound, ApprovalsSound

LEMMA RestEstablishes ==
  ASSUME IInv, RowsSound, UNCHANGED <<pc, ctx, finished>>
  PROVE  IInv'
<1>1. TypeOK'
  BY DEF RowsSound, AgentsSound, GrantsSound, ApprovalsSound, IInv, TypeOK
<1>2. DecideContext'
  BY DEF IInv, DecideContext
<1>3. RevocationProgress'
  BY OthersProgress DEF RevocationProgress
<1> QED BY <1>1, <1>2, <1>3, FinishedStays DEF IInv, RowsSound, AgentsSound, ApprovalsSound

(* The mover.                                                              *)
LEMMA DecideRows ==
  ASSUME IInv, NEW w \in Handlers, DecideStep(w)
  PROVE  RowsSound
<1>1. CASE \E chosen \in SUBSET Capabilities : Approve(w, chosen)
  BY <1>1, ApproveSound DEF RowsSound
<1>2. CASE Deny(w)
  BY <1>2, DenySound DEF RowsSound
<1>3. CASE UNCHANGED <<agent, host, grant, approval, answers>>
  BY <1>3, AgentsUnchanged, GrantsUnchanged, ApprovalsUnchanged DEF RowsSound
<1> QED BY <1>1, <1>2, <1>3
        DEF DecideStep, DecideBegin, ReadAgent, ReadHost, ReadParty, ReadGrants

LEMMA DecideStepInv ==
  ASSUME IInv, NEW w \in Handlers, DecideStep(w)
  PROVE  RowsSound /\ IInv'
<1>1. RowsSound /\ Moves(w) /\ pc'[w] \in {"idle", "d_read"} /\ UNCHANGED finished
  BY DecideRows, DecideMoves
<1>2. Progress(w)'
  BY <1>1 DEF Progress
<1> QED BY <1>1, <1>2, FinishedStays, MoverEstablishes

LEMMA AbandonInv ==
  ASSUME IInv, NEW w \in Handlers, Abandon(w)
  PROVE  RowsSound /\ IInv'
<1>1. RowsSound
  BY AgentsUnchanged, GrantsUnchanged, ApprovalsUnchanged DEF RowsSound, Abandon
<1>2. Moves(w) /\ pc'[w] = "idle" /\ UNCHANGED finished
  BY AnswerEffect DEF IInv, Abandon, Moves
<1>3. Progress(w)'
  BY <1>2 DEF Progress
<1> QED BY <1>1, <1>2, <1>3, FinishedStays, MoverEstablishes

(* Where StatementFor leaves the handler.                                  *)
LEMMA StatementEffect ==
  ASSUME TypeOK, NEW w \in Handlers, NEW a \in Agents, NEW here \in Steps, NEW next \in Steps,
         StatementFor(w, a, here, next)
  PROVE  /\ pc[w] = here /\ a \in ctx[w].todo /\ ctx'[w].agents = ctx[w].agents
         /\ \/ ctx[w].todo = {a} /\ pc'[w] = next /\ ctx'[w].todo = ctx[w].agents
            \/ pc'[w] = here /\ ctx'[w].todo = ctx[w].todo \ {a}
<1>1. ctx[w] \in Context
  BY DEF TypeOK
<1>2. ASSUME NEW todo \in SUBSET Agents, NEW step \in Steps,
             Await(w, step, [ctx[w] EXCEPT !.todo = todo])
      PROVE  pc'[w] = step /\ ctx'[w].agents = ctx[w].agents /\ ctx'[w].todo = todo
  <2>1. /\ [ctx[w] EXCEPT !.todo = todo] \in Context
        /\ [ctx[w] EXCEPT !.todo = todo].agents = ctx[w].agents
        /\ [ctx[w] EXCEPT !.todo = todo].todo = todo
    BY <1>1 DEF Context
  <2> QED BY <1>2, <2>1, AwaitEffect
<1>3. ctx[w].agents \in SUBSET Agents /\ ctx[w].todo \ {a} \in SUBSET Agents
  BY <1>1 DEF Context
<1>4. CASE ctx[w].todo = {a}
  BY <1>2, <1>3, <1>4 DEF StatementFor
<1>5. CASE ctx[w].todo # {a}
  BY <1>2, <1>3, <1>5 DEF StatementFor
<1> QED BY <1>4, <1>5

(* A revocation: every row its statements have reached is stopped,         *)
(* ungranted and undecidable, and stays so under what the others do.       *)
LEMMA RevokeAgentBeginInv ==
  ASSUME IInv, NEW w \in Handlers, NEW a \in Agents, RevokeAgentBegin(w, a)
  PROVE  RowsSound /\ IInv'
<1>1. RowsSound
  BY AgentsUnchanged, GrantsUnchanged, ApprovalsUnchanged DEF RowsSound, RevokeAgentBegin
<1>2. Moves(w)
  BY RevokeMoves DEF RevokeStep
<1>3. Progress(w)'
  <2> DEFINE c == [NoContext EXCEPT !.agents = {a}, !.todo = {a}]
  <2>1. c \in Context /\ c.agents = {a} /\ c.todo = {a}
    BY DEF NoContext, Context
  <2>2. Await(w, "v_agent", c)
    BY DEF RevokeAgentBegin
  <2> HIDE DEF c
  <2>3. pc'[w] = "v_agent" /\ ctx'[w] = c
    BY <2>1, <2>2, AwaitEffect DEF IInv, Steps
  <2> QED BY <2>1, <2>3 DEF Progress
<1> QED BY <1>1, <1>2, <1>3, FinishedStays, MoverEstablishes DEF RevokeAgentBegin

LEMMA RevokeAgentRowInv ==
  ASSUME IInv, NEW w \in Handlers, NEW a \in Agents, RevokeAgentRow(w, a)
  PROVE  RowsSound /\ IInv'
<1>1. RowsSound /\ Stopped(a)' /\ Moves(w)
  BY RevokeAgentRowSound, RevokeMoves DEF RevokeStep
<1>2. /\ pc[w] = "v_agent" /\ ctx'[w].agents = ctx[w].agents
      /\ \/ ctx[w].todo = {a} /\ pc'[w] = "v_grant" /\ ctx'[w].todo = ctx[w].agents
         \/ pc'[w] = "v_agent" /\ ctx'[w].todo = ctx[w].todo \ {a}
  BY StatementEffect DEF IInv, Steps, RevokeAgentRow
<1>3. \A b \in ctx[w].agents : b \notin ctx[w].todo \ {a} => Stopped(b)'
  <2>1. Progress(w) /\ ctx[w].agents \subseteq Agents
    BY DEF IInv, RevocationProgress, TypeOK, Context
  <2>2. \A b \in ctx[w].agents : b \notin ctx[w].todo => Stopped(b)'
    BY <1>1, <1>2, <2>1 DEF Progress, RowsSound, AgentsSound
  <2> QED BY <1>1, <2>2
<1>4. Progress(w)'
  BY <1>2, <1>3 DEF Progress
<1> QED BY <1>1, <1>4, FinishedStays, MoverEstablishes DEF RevokeAgentRow

LEMMA RevokeGrantRowsInv ==
  ASSUME IInv, NEW w \in Handlers, NEW a \in Agents, RevokeGrantRows(w, a)
  PROVE  RowsSound /\ IInv'
<1>1. RowsSound /\ Ungranted(a)' /\ Moves(w)
  BY RevokeGrantRowsSound, RevokeMoves DEF RevokeStep
<1>2. /\ pc[w] = "v_grant" /\ ctx'[w].agents = ctx[w].agents
      /\ \/ ctx[w].todo = {a} /\ pc'[w] = "v_approval" /\ ctx'[w].todo = ctx[w].agents
         \/ pc'[w] = "v_grant" /\ ctx'[w].todo = ctx[w].todo \ {a}
  BY StatementEffect DEF IInv, Steps, RevokeGrantRows
<1>3. \A b \in ctx[w].agents : /\ Stopped(b)'
                               /\ b \notin ctx[w].todo \ {a} => Ungranted(b)'
  <2>1. Progress(w) /\ ctx[w].agents \subseteq Agents
    BY DEF IInv, RevocationProgress, TypeOK, Context
  <2>2. \A b \in ctx[w].agents : /\ Stopped(b)'
                                 /\ b \notin ctx[w].todo => Ungranted(b)'
    BY <1>1, <1>2, <2>1 DEF Progress, RowsSound, AgentsSound, GrantsSound
  <2> QED BY <1>1, <2>2
<1>4. Progress(w)'
  BY <1>2, <1>3 DEF Progress
<1> QED BY <1>1, <1>4, FinishedStays, MoverEstablishes DEF RevokeGrantRows

LEMMA RevokeApprovalRowsInv ==
  ASSUME IInv, NEW w \in Handlers, NEW a \in Agents, RevokeApprovalRows(w, a)
  PROVE  RowsSound /\ IInv'
<1>1. RowsSound /\ Undecidable(a)' /\ Moves(w)
  BY RevokeApprovalRowsSound, RevokeMoves DEF RevokeStep
<1>2. /\ TypeOK /\ Progress(w) /\ pc[w] = "v_approval"
      /\ ctx[w] \in Context /\ ctx[w].agents \subseteq Agents
  BY DEF IInv, RevocationProgress, TypeOK, Context, RevokeApprovalRows
<1>3. \A b \in ctx[w].agents : /\ Stopped(b)' /\ Ungranted(b)'
                               /\ b \notin ctx[w].todo \ {a} => Undecidable(b)'
  <2>1. \A b \in ctx[w].agents : /\ Stopped(b)' /\ Ungranted(b)'
                                 /\ b \notin ctx[w].todo => Undecidable(b)'
    BY <1>1, <1>2 DEF Progress, RowsSound, AgentsSound, GrantsSound, ApprovalsSound
  <2> QED BY <1>1, <2>1
<1>4. CASE ctx[w].todo # {a}
  <2> DEFINE c == [ctx[w] EXCEPT !.todo = @ \ {a}]
  <2>1. c \in Context /\ c.agents = ctx[w].agents /\ c.todo = ctx[w].todo \ {a}
    BY <1>2 DEF Context
  <2>2. Await(w, "v_approval", c) /\ UNCHANGED finished
    BY <1>4 DEF RevokeApprovalRows
  <2> HIDE DEF c
  <2>3. pc'[w] = "v_approval" /\ ctx'[w] = c
    BY <1>2, <2>1, <2>2, AwaitEffect DEF Steps
  <2>4. Progress(w)'
    BY <1>3, <2>1, <2>3 DEF Progress
  <2> QED BY <1>1, <2>2, <2>4, FinishedStays, MoverEstablishes
<1>5. CASE ctx[w].todo = {a}
  <2>1. finished' = finished \cup ctx[w].agents
    BY <1>5 DEF RevokeApprovalRows
  <2>2. pc'[w] \in {"idle", "v_host"}
    <3>1. CASE ctx[w].host = None
      BY <1>2, <1>5, <3>1, AnswerEffect DEF RevokeApprovalRows
    <3>2. CASE ctx[w].host # None
      BY <1>2, <1>5, <3>2, AwaitEffect DEF RevokeApprovalRows, Steps
    <3> QED BY <3>1, <3>2
  <2>3. Progress(w)'
    BY <2>2 DEF Progress
  <2>4. \A b \in ctx[w].agents : Stopped(b)' /\ Ungranted(b)' /\ Undecidable(b)'
    BY <1>3, <1>5
  <2>5. \A b \in finished : Stopped(b)' /\ Ungranted(b)' /\ Undecidable(b)'
    <3>1. /\ finished \subseteq Agents
          /\ \A b \in finished : Stopped(b) /\ Ungranted(b) /\ Undecidable(b)
      BY DEF IInv, TypeOK, RevocationIsThorough, Stopped, Ungranted, Undecidable
    <3> QED BY <1>1, <3>1 DEF RowsSound, AgentsSound, GrantsSound, ApprovalsSound
  <2>6. RevocationIsThorough'
    BY <2>1, <2>4, <2>5 DEF RevocationIsThorough, Stopped, Ungranted, Undecidable
  <2>7. finished' \subseteq Agents
    BY <1>2, <2>1 DEF TypeOK
  <2> QED BY <1>1, <2>3, <2>6, <2>7, MoverEstablishes
<1> QED BY <1>4, <1>5

LEMMA RevokeHostInv ==
  ASSUME IInv, NEW w \in Handlers,
         (\E h \in Hosts : RevokeHostBegin(w, h)) \/ RevokeHostApprovals(w)
  PROVE  RowsSound /\ IInv'
<1>1. RowsSound
  BY RevokeHostBeginSound, RevokeHostApprovalsSound
<1>2. Moves(w)
  BY RevokeMoves DEF RevokeStep
<1>3. pc'[w] \in {"v_list", "idle"} /\ UNCHANGED finished
  <2>1. ASSUME NEW h \in Hosts, RevokeHostBegin(w, h)
        PROVE  pc'[w] = "v_list" /\ UNCHANGED finished
    <3>1. [NoContext EXCEPT !.host = h] \in Context
      BY DEF NoContext, Context
    <3> QED BY <2>1, <3>1, AwaitEffect DEF IInv, RevokeHostBegin, Steps
  <2>2. CASE RevokeHostApprovals(w)
    BY <2>2, AnswerEffect DEF IInv, RevokeHostApprovals
  <2> QED BY <2>1, <2>2
<1>4. Progress(w)'
  BY <1>3 DEF Progress
<1> QED BY <1>1, <1>2, <1>3, <1>4, FinishedStays, MoverEstablishes

LEMMA ListHostedInv ==
  ASSUME IInv, NEW w \in Handlers, ListHosted(w)
  PROVE  RowsSound /\ IInv'
<1>1. RowsSound
  BY AgentsUnchanged, GrantsUnchanged, ApprovalsUnchanged DEF RowsSound, ListHosted
<1>2. Moves(w) /\ TypeOK /\ ctx[w] \in Context
  BY RevokeMoves DEF RevokeStep, IInv, TypeOK
<1>3. Progress(w)'
  <2> DEFINE hosted == {a \in Agents : HostOf[a] = ctx[w].host /\ agent[a].status # "unborn"}
  <2>1. CASE hosted = {}
    <3>1. pc'[w] = "v_host"
      BY <1>2, <2>1, AwaitEffect DEF ListHosted, Steps
    <3> QED BY <3>1 DEF Progress
  <2>2. CASE hosted # {}
    <3> DEFINE c == [ctx[w] EXCEPT !.agents = hosted, !.todo = hosted]
    <3>1. c \in Context /\ c.agents = hosted /\ c.todo = hosted
      BY <1>2 DEF Context
    <3>2. Await(w, "v_agent", c)
      BY <2>2 DEF ListHosted
    <3> HIDE DEF c, hosted
    <3>3. pc'[w] = "v_agent" /\ ctx'[w] = c
      BY <1>2, <3>1, <3>2, AwaitEffect DEF Steps
    <3> QED BY <3>1, <3>3 DEF Progress
  <2> QED BY <2>1, <2>2
<1> QED BY <1>1, <1>2, <1>3, FinishedStays, MoverEstablishes DEF ListHosted

-----------------------------------------------------------------------------
LEMMA NextStep ==
  ASSUME IInv, Next
  PROVE  RowsSound /\ IInv'
<1>1. ASSUME NEW w \in Handlers, RevokeStep(w)
      PROVE  RowsSound /\ IInv'
  BY <1>1, RevokeAgentBeginInv, RevokeAgentRowInv, RevokeGrantRowsInv, RevokeApprovalRowsInv,
     RevokeHostInv, ListHostedInv DEF RevokeStep
<1>2. ASSUME NEW a \in Agents, NEW c \in Capabilities, RevokeGrant(a, c)
      PROVE  RowsSound /\ IInv'
  BY <1>2, RevokeGrantSound, RestEstablishes DEF RevokeGrant
<1>3. CASE ProtocolStep
  <2>1. ASSUME NEW a \in Agents, RegisterAgent(a)
        PROVE  RowsSound /\ IInv'
    BY <2>1, RegisterAgentSound, RestEstablishes DEF RegisterAgent
  <2>2. ASSUME NEW a \in Agents, NEW p \in Codes, NEW asked \in SUBSET Capabilities,
               AskApproval(a, p, asked)
        PROVE  RowsSound /\ IInv'
    BY <2>2, AskApprovalSound, RestEstablishes DEF AskApproval
  <2> QED BY <1>3, <2>1, <2>2 DEF ProtocolStep
<1> QED BY <1>1, <1>2, <1>3, DecideStepInv, AbandonInv DEF Next

LEMMA StepEstablishes ==
  ASSUME IInv, [Next]_vars
  PROVE  RowsSound /\ IInv'
<1>1. CASE UNCHANGED vars
  <2>1. RowsSound
    BY <1>1, AgentsUnchanged, GrantsUnchanged, ApprovalsUnchanged DEF vars, RowsSound
  <2> QED BY <1>1, <2>1, RestEstablishes DEF vars
<1> QED BY <1>1, NextStep

LEMMA Inductive == Spec => []IInv
<1>1. IInv /\ [Next]_vars => IInv'
  BY StepEstablishes
<1> QED BY InitEstablishes, <1>1, PTL DEF Spec

(* Every row and everything a handler holds stays in the type the schema   *)
(* and the statements of agents.ts give it.                                *)
THEOREM ApprovalTypeCorrect == Spec => []TypeOK
<1>1. IInv => TypeOK
  BY DEF IInv
<1> QED BY Inductive, <1>1, PTL

(* One decider at most of an approval request is told it is decided,       *)
(* whatever decideApproval read before its batch.                          *)
THEOREM OneOutcome == Spec => []OneOutcomePerApproval
<1>1. IInv => OneOutcomePerApproval
  BY DEF IInv
<1> QED BY Inductive, <1>1, PTL

(* A revocation of an Agent or of its host that ran to its end left the    *)
(* Agent revoked, ungranted and with nothing to decide, whatever decisions *)
(* were in flight.                                                         *)
THEOREM RevocationLeavesNothing == Spec => []RevocationIsThorough
<1>1. IInv => RevocationIsThorough
  BY DEF IInv
<1> QED BY Inductive, <1>1, PTL

(* The controller of an Agent or of a host is never replaced by a decision,*)
(* a revocation or the protocol.                                           *)
THEOREM ControllersStay == Spec => ControllerIsForever
<1>1. IInv /\ [Next]_vars => [ControllersKept]_vars
  BY StepEstablishes DEF RowsSound, AgentsSound
<1>2. ControllersKept = (/\ \A a \in Agents : agent[a].owner # None => agent'[a].owner = agent[a].owner
                         /\ \A h \in Hosts : host[h].owner # None => host'[h].owner = host[h].owner)
  BY DEF ControllersKept
<1> QED BY Inductive, <1>1, <1>2, PTL DEF Spec, ControllerIsForever, ControllersKept

(* What a decision made of a grant, only a revocation changes.             *)
THEOREM DecisionsStay == Spec => GrantIsDecidedOnce
<1>1. IInv /\ [Next]_vars => [DecisionsKept]_vars
  BY StepEstablishes DEF RowsSound, GrantsSound
<1> QED BY Inductive, <1>1, PTL DEF Spec, GrantIsDecidedOnce, DecisionsKept
=============================================================================

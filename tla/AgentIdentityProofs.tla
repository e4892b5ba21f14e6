------------------------- MODULE AgentIdentityProofs -------------------------
(***************************************************************************)
(* TLAPS proofs about AgentIdentity, for every set of handlers,            *)
(* identities, protocol registrations and idempotency keys.                *)
(***************************************************************************)
EXTENDS AgentIdentity, TLAPS

-----------------------------------------------------------------------------
(* The inductive invariant.                                                *)

Born(i) == identity[i] # "unborn"

(* A registration is there before anything is bound to it: this is why the *)
(* insert of a binding for a new registration meets none.                  *)
UnbornIsUnbound == \A h \in Hosts : agent[h] = "unborn" => binding[h] = NoBinding

(* An intent for an additional host names an identity that was seen.       *)
AdditionalNamesIdentity ==
  \A h \in Hosts, k \in Keys :
    intent[h][k] # NoIntent /\ ~intent[h][k].fresh => Born(intent[h][k].identity)

EnrollSteps == {"bound", "migrate", "migrate_insert", "identity", "check", "name", "insert",
                "a_read", "a_check", "a_identity", "a_batch", "c_host", "c_batch", "l_batch"}
HostSteps == {"h_read", "h_batch"}
ControlSteps == {"d_read", "d_list", "d_batch", "t_list", "t_update", "x_read", "x_list", "x_batch"}

(* What an invocation at a step was given.                                 *)
Given(step, c) ==
  /\ step # "idle" => c.id \in Identities
  /\ step \in EnrollSteps \cup HostSteps => c.host \in Hosts
  /\ step \in EnrollSteps /\ c.op # "login" => c.key \in Keys
  /\ step \in EnrollSteps \ {"check", "name", "l_batch"} => c.op # "login"
  /\ step = "bound" => c.op = "enroll"
  /\ step = "insert" => c.op \in {"enroll", "more"}

(* What an invocation at a step has read, and no statement undoes.         *)
Seen(step, c) ==
  /\ step \in ControlSteps \/ (step \in {"check", "insert"} /\ c.op = "more") => Born(c.id)
  /\ step \in {"migrate", "migrate_insert"} =>
       binding[c.host] # NoBinding /\ binding[c.host].identity = c.id
  /\ step \in {"a_read", "a_check", "a_identity", "a_batch"} =>
       intent[c.host][c.key] # NoIntent /\ intent[c.host][c.key].identity = c.id
  /\ step \in {"a_identity", "a_batch", "l_batch"} \/ (step = "name" /\ c.op = "login") =>
       agent[c.host] # "unborn"

HandlersSound == \A w \in Handlers : Given(pc[w], ctx[w]) /\ Seen(pc[w], ctx[w])

RowsType ==
  /\ identity \in [Identities -> IdentityStates]
  /\ agent \in [Hosts -> AgentStates]
  /\ binding \in [Hosts -> Binding \cup {NoBinding}]
  /\ intent \in [Hosts -> [Keys -> Intent \cup {NoIntent}]]
  /\ reservation \in [Keys -> Identities \cup {None}]

RowsSound == RowsType /\ UnbornIsUnbound /\ AdditionalNamesIdentity /\ NothingHalfCreated

IInv == TypeOK /\ RowsSound /\ HandlersSound

(* What no statement undoes.                                               *)
IdentitiesKept ==
  /\ \A i \in Identities : Born(i) => identity'[i] # "unborn"
  /\ \A i \in Identities : identity[i] = "deleted" => identity'[i] = "deleted"
AgentsKept == \A h \in Hosts : agent[h] # "unborn" => agent'[h] # "unborn"
BindingsKept ==
  \A h \in Hosts : binding[h] # NoBinding =>
    /\ binding'[h] # NoBinding
    /\ binding'[h].identity = binding[h].identity
    /\ binding[h].status = "revoked" => binding'[h].status = "revoked"
IntentsKept ==
  \A h \in Hosts, k \in Keys : intent[h][k] # NoIntent =>
    /\ intent'[h][k] # NoIntent
    /\ intent'[h][k].identity = intent[h][k].identity
ReservationsKept == \A k \in Keys : reservation[k] # None => reservation'[k] = reservation[k]

Kept == IdentitiesKept /\ AgentsKept /\ BindingsKept /\ IntentsKept /\ ReservationsKept

-----------------------------------------------------------------------------
LEMMA InitEstablishes == Init => IInv
<1> SUFFICES ASSUME Init PROVE IInv
  OBVIOUS
<1>1. TypeOK
  BY DEF Init, TypeOK, IdentityStates, AgentStates, Steps, NoContext, Context
<1>2. RowsSound
  BY <1>1 DEF Init, TypeOK, RowsSound, RowsType, UnbornIsUnbound, AdditionalNamesIdentity,
              NothingHalfCreated, NoBinding, NoIntent
<1>3. HandlersSound
  BY DEF Init, HandlersSound, Given, Seen, EnrollSteps, HostSteps, ControlSteps
<1> QED BY <1>1, <1>2, <1>3 DEF IInv

(* One handler moves, in the types of pc and ctx.                          *)
Moves(w) ==
  /\ pc' \in [Handlers -> Steps] /\ ctx' \in [Handlers -> Context]
  /\ \A v \in Handlers \ {w} : pc'[v] = pc[v] /\ ctx'[v] = ctx[v]

LEMMA AwaitEffect ==
  ASSUME TypeOK, NEW w \in Handlers, NEW step \in Steps, NEW c \in Context, Await(w, step, c)
  PROVE  Moves(w) /\ pc'[w] = step /\ ctx'[w] = c
  BY DEF TypeOK, Await, Moves

LEMMA GotoEffect ==
  ASSUME TypeOK, NEW w \in Handlers, NEW step \in Steps, Goto(w, step)
  PROVE  Moves(w) /\ pc'[w] = step /\ ctx'[w] = ctx[w]
<1>1. ctx[w] \in Context
  BY DEF TypeOK
<1> QED BY <1>1, AwaitEffect DEF Goto

LEMMA AnswerEffect ==
  ASSUME TypeOK, NEW w \in Handlers, Answer(w)
  PROVE  Moves(w) /\ pc'[w] = "idle"
<1>1. NoContext \in Context /\ "idle" \in Steps
  BY DEF NoContext, Context, Steps
<1> QED BY <1>1, AwaitEffect DEF Answer

LEMMA ProceedEffect ==
  ASSUME TypeOK, NEW w \in Handlers, NEW step \in Steps, NEW test, Proceed(w, test, step)
  PROVE  Moves(w) /\ \/ pc'[w] = "idle"
                     \/ test /\ pc'[w] = step /\ ctx'[w] = ctx[w]
  BY GotoEffect, AnswerEffect DEF Proceed

LEMMA StartEffect ==
  ASSUME TypeOK, NEW w \in Handlers, NEW op \in Operations, NEW step \in Steps,
         NEW i \in Identities, NEW h \in Hosts \cup {None}, NEW k \in Keys \cup {None},
         Start(w, op, step, i, h, k)
  PROVE  /\ Moves(w) /\ UNCHANGED rows /\ pc'[w] = step
         /\ ctx'[w].op = op /\ ctx'[w].id = i /\ ctx'[w].host = h /\ ctx'[w].key = k
<1> DEFINE c == [op |-> op, id |-> i, host |-> h, key |-> k, live |-> {}]
<1>1. c \in Context /\ Await(w, step, c) /\ UNCHANGED rows
  BY DEF Start, Context
<1>2. c.op = op /\ c.id = i /\ c.host = h /\ c.key = k
  OBVIOUS
<1> HIDE DEF c
<1> QED BY <1>1, <1>2, AwaitEffect

-----------------------------------------------------------------------------
(* Frames: what the other invocations have seen stays so.                  *)

LEMMA SeenStays ==
  ASSUME Kept, NEW step, NEW c, Given(step, c), Seen(step, c)
  PROVE  Seen(step, c)'
  BY DEF Given, Seen, Born, Kept, IdentitiesKept, AgentsKept, BindingsKept, IntentsKept,
         EnrollSteps, HostSteps, ControlSteps

LEMMA MoverEstablishes ==
  ASSUME IInv, RowsSound', Kept, NEW w \in Handlers, Moves(w), Given(pc'[w], ctx'[w]), Seen(pc[w], ctx[w])'
  PROVE  IInv'
<1>1. ASSUME NEW v \in Handlers \ {w} PROVE Given(pc[v], ctx[v])' /\ Seen(pc[v], ctx[v])'
  <2>1. Given(pc[v], ctx[v]) /\ Seen(pc[v], ctx[v])
    BY DEF IInv, HandlersSound
  <2>2. pc'[v] = pc[v] /\ ctx'[v] = ctx[v]
    BY DEF Moves
  <2> QED BY <2>1, <2>2, SeenStays DEF Given, Seen, Born
<1>2. HandlersSound'
  BY <1>1 DEF HandlersSound, Given
<1>3. TypeOK'
  BY DEF RowsSound, RowsType, Moves, TypeOK
<1> QED BY <1>2, <1>3 DEF IInv

LEMMA AnswerEstablishes ==
  ASSUME IInv, RowsSound', Kept, NEW w \in Handlers, Answer(w)
  PROVE  IInv'
<1>1. Moves(w) /\ pc'[w] = "idle"
  BY AnswerEffect DEF IInv
<1>2. Given(pc'[w], ctx'[w]) /\ Seen(pc[w], ctx[w])'
  BY <1>1 DEF Given, Seen, EnrollSteps, HostSteps, ControlSteps
<1> QED BY <1>1, <1>2, MoverEstablishes

LEMMA RowsUnchanged ==
  ASSUME IInv, UNCHANGED rows
  PROVE  RowsSound' /\ Kept
<1>1. RowsSound'
  BY DEF IInv, RowsSound, RowsType, UnbornIsUnbound, AdditionalNamesIdentity, Born, NothingHalfCreated, rows
<1>2. Kept
  BY DEF Kept, IdentitiesKept, AgentsKept, BindingsKept, IntentsKept, ReservationsKept, Born, rows
<1> QED BY <1>1, <1>2

(* An invocation that only reads must have been given, and have seen, what *)
(* its next step relies on.                                                *)
LEMMA AwaitEstablishes ==
  ASSUME IInv, UNCHANGED rows, NEW w \in Handlers, NEW step \in Steps, NEW c \in Context,
         Await(w, step, c), Given(step, c), Seen(step, c)
  PROVE  Kept /\ IInv'
<1>1. RowsSound' /\ Kept
  BY RowsUnchanged
<1>2. Moves(w) /\ pc'[w] = step /\ ctx'[w] = c
  BY AwaitEffect DEF IInv
<1>3. Seen(pc[w], ctx[w])'
  BY <1>2 DEF Seen, Born, rows
<1> QED BY <1>1, <1>2, <1>3, MoverEstablishes

LEMMA ReadAnswerEstablishes ==
  ASSUME IInv, UNCHANGED rows, NEW w \in Handlers, Answer(w)
  PROVE  Kept /\ IInv'
  BY RowsUnchanged, AnswerEstablishes

LEMMA ProceedEstablishes ==
  ASSUME IInv, UNCHANGED rows, NEW w \in Handlers, NEW step \in Steps, NEW test, Proceed(w, test, step),
         test => Given(step, ctx[w]) /\ Seen(step, ctx[w])
  PROVE  Kept /\ IInv'
<1>1. ctx[w] \in Context
  BY DEF IInv, TypeOK
<1> QED BY <1>1, AwaitEstablishes, ReadAnswerEstablishes DEF Proceed, Goto

LEMMA StartEstablishes ==
  ASSUME IInv, NEW w \in Handlers, NEW op \in Operations, NEW step \in Steps,
         NEW i \in Identities, NEW h \in Hosts \cup {None}, NEW k \in Keys \cup {None},
         Start(w, op, step, i, h, k),
         Given(step, [op |-> op, id |-> i, host |-> h, key |-> k, live |-> {}]),
         Seen(step, [op |-> op, id |-> i, host |-> h, key |-> k, live |-> {}])
  PROVE  Kept /\ IInv'
<1> DEFINE c == [op |-> op, id |-> i, host |-> h, key |-> k, live |-> {}]
<1>1. c \in Context /\ Await(w, step, c) /\ UNCHANGED rows
  BY DEF Start, Context
<1> HIDE DEF c
<1> QED BY <1>1, AwaitEstablishes DEF c

-----------------------------------------------------------------------------
(* Invocations begin.                                                      *)

LEMMA BeginInv ==
  ASSUME IInv, NEW w \in Handlers, NEW i \in Identities,
         \/ \E h \in Hosts, k \in Keys : EnrollBegin(w, i, h, k) \/ ApproveBegin(w, i, h, k)
                                         \/ CreateBegin(w, i, h, k)
         \/ \E h \in Hosts : LoginBegin(w, i, h) \/ RevokeHostBegin(w, i, h)
         \/ RecoverBegin(w, i) \/ DeactivateBegin(w, i) \/ ActivateBegin(w, i) \/ DeleteBegin(w, i)
  PROVE  Kept /\ IInv'
<1> USE DEF Operations, Steps, Given, Seen, EnrollSteps, HostSteps, ControlSteps
<1>1. ASSUME NEW h \in Hosts, NEW k \in Keys, EnrollBegin(w, i, h, k) PROVE Kept /\ IInv'
  <2>1. CASE Start(w, "enroll", "bound", i, h, k)
    BY <2>1, StartEstablishes
  <2>2. CASE Start(w, "more", "identity", i, h, k)
    BY <2>2, StartEstablishes
  <2>3. CASE /\ intent[h][k] = [identity |-> i, fresh |-> TRUE, status |-> "pending"]
             /\ Start(w, "enroll", "a_read", i, h, k)
    <3>1. intent[h][k] # NoIntent /\ intent[h][k].identity = i
      BY <2>3 DEF NoIntent
    <3> QED BY <2>3, <3>1, StartEstablishes
  <2> QED BY <1>1, <2>1, <2>2, <2>3 DEF EnrollBegin
<1>2. ASSUME NEW h \in Hosts, NEW k \in Keys, ApproveBegin(w, i, h, k) PROVE Kept /\ IInv'
  BY <1>2, StartEstablishes DEF ApproveBegin
<1>3. ASSUME NEW h \in Hosts, NEW k \in Keys, CreateBegin(w, i, h, k) PROVE Kept /\ IInv'
  BY <1>3, StartEstablishes DEF CreateBegin
<1>4. ASSUME NEW h \in Hosts, LoginBegin(w, i, h) PROVE Kept /\ IInv'
  BY <1>4, StartEstablishes DEF LoginBegin
<1>5. ASSUME NEW h \in Hosts, RevokeHostBegin(w, i, h) PROVE Kept /\ IInv'
  BY <1>5, StartEstablishes DEF RevokeHostBegin
<1>6. CASE RecoverBegin(w, i)
  BY <1>6, StartEstablishes DEF RecoverBegin, Born
<1>7. CASE DeactivateBegin(w, i)
  BY <1>7, StartEstablishes DEF DeactivateBegin, Present, Born
<1>8. CASE ActivateBegin(w, i)
  BY <1>8, StartEstablishes DEF ActivateBegin, Born
<1>9. CASE DeleteBegin(w, i)
  BY <1>9, StartEstablishes DEF DeleteBegin, Present, Born
<1> QED BY <1>1, <1>2, <1>3, <1>4, <1>5, <1>6, <1>7, <1>8, <1>9

-----------------------------------------------------------------------------
(* Invocations read, and go on or answer.                                  *)

LEMMA EnrollReadersInv ==
  ASSUME IInv, NEW w \in Handlers,
         \/ FindBound(w) \/ FindApproved(w) \/ FindIdentity(w) \/ CheckEnroll(w) \/ CheckName(w)
         \/ ReadIntent(w) \/ CheckApprove(w) \/ FindApproveIdentity(w) \/ CheckInstallation(w)
  PROVE  Kept /\ IInv'
<1>1. /\ Given(pc[w], ctx[w]) /\ Seen(pc[w], ctx[w])
      /\ ctx[w] \in Context
  BY DEF IInv, HandlersSound, TypeOK
<1>2. UNCHANGED rows
  BY DEF FindBound, FindApproved, FindIdentity, CheckEnroll, CheckName, ReadIntent, CheckApprove,
         FindApproveIdentity, CheckInstallation
<1> USE DEF Steps, Given, Seen, EnrollSteps, HostSteps, ControlSteps
<1>3. CASE FindBound(w)
  <2>1. CASE Proceed(w, ActsAs(ctx[w].host, ctx[w].id), "migrate")
    <3>1. ActsAs(ctx[w].host, ctx[w].id) => Given("migrate", ctx[w]) /\ Seen("migrate", ctx[w])
      BY <1>1, <1>3 DEF FindBound, ActsAs, ActiveBinding, NoBinding
    <3> QED BY <1>2, <2>1, <3>1, ProceedEstablishes
  <2>2. CASE Goto(w, "check")
    BY <1>1, <1>2, <1>3, <2>2, AwaitEstablishes DEF FindBound, Goto
  <2> QED BY <1>3, <2>1, <2>2 DEF FindBound
<1>4. CASE FindApproved(w)
  BY <1>1, <1>2, <1>4, ProceedEstablishes DEF FindApproved
<1>5. CASE FindIdentity(w)
  BY <1>1, <1>2, <1>5, ProceedEstablishes DEF FindIdentity, Present, Born
<1>6. CASE CheckEnroll(w)
  BY <1>1, <1>2, <1>6, ProceedEstablishes DEF CheckEnroll, CanEnroll
<1>7. CASE CheckName(w)
  BY <1>1, <1>2, <1>7, ProceedEstablishes DEF CheckName
<1>8. CASE ReadIntent(w)
  BY <1>1, <1>2, <1>8, ProceedEstablishes DEF ReadIntent
<1>9. CASE CheckApprove(w)
  BY <1>1, <1>2, <1>9, ProceedEstablishes DEF CheckApprove, CanEnroll
<1>10. CASE FindApproveIdentity(w)
  BY <1>1, <1>2, <1>10, ProceedEstablishes DEF FindApproveIdentity
<1>11. CASE CheckInstallation(w)
  BY <1>1, <1>2, <1>11, ProceedEstablishes DEF CheckInstallation
<1> QED BY <1>3, <1>4, <1>5, <1>6, <1>7, <1>8, <1>9, <1>10, <1>11

LEMMA ListEstablishes ==
  ASSUME IInv, NEW w \in Handlers, NEW here \in ControlSteps, NEW next \in ControlSteps,
         ListInstallations(w, here, next)
  PROVE  Kept /\ IInv'
<1> DEFINE c == [ctx[w] EXCEPT !.live = Installations(ctx[w].id)]
<1>1. /\ Given(pc[w], ctx[w]) /\ Seen(pc[w], ctx[w])
      /\ ctx[w] \in Context /\ pc[w] = here /\ UNCHANGED rows /\ Await(w, next, c)
  BY DEF IInv, HandlersSound, TypeOK, ListInstallations
<1>2. c \in Context /\ c.id = ctx[w].id
  BY <1>1 DEF Context, Installations
<1> HIDE DEF c
<1>3. Given(next, c) /\ Seen(next, c)
  BY <1>1, <1>2 DEF Given, Seen, EnrollSteps, HostSteps, ControlSteps
<1> QED BY <1>1, <1>2, <1>3, AwaitEstablishes DEF ControlSteps, Steps

LEMMA ControlReadersInv ==
  ASSUME IInv, NEW w \in Handlers,
         \/ ReadBinding(w) \/ ReadStatus(w) \/ DeactivateList(w) \/ ActivateCount(w)
         \/ ReadUndeleted(w) \/ DeleteList(w) \/ Abandon(w)
  PROVE  Kept /\ IInv'
<1>1. Given(pc[w], ctx[w]) /\ Seen(pc[w], ctx[w])
  BY DEF IInv, HandlersSound
<1>2. CASE DeactivateList(w) \/ DeleteList(w)
  BY <1>2, ListEstablishes DEF DeactivateList, DeleteList, ControlSteps
<1> USE DEF Steps, Given, Seen, EnrollSteps, HostSteps, ControlSteps
<1>3. CASE ReadBinding(w)
  BY <1>1, <1>3, ProceedEstablishes DEF ReadBinding
<1>4. CASE ReadStatus(w)
  <2>1. Given("d_list", ctx[w]) /\ Seen("d_list", ctx[w])
    BY <1>1, <1>4 DEF ReadStatus
  <2>2. UNCHANGED rows /\ \E test \in BOOLEAN : Proceed(w, test, "d_list")
    BY <1>4 DEF ReadStatus
  <2> QED BY <2>1, <2>2, ProceedEstablishes
<1>5. CASE ActivateCount(w)
  BY <1>1, <1>5, ProceedEstablishes DEF ActivateCount
<1>6. CASE ReadUndeleted(w)
  BY <1>1, <1>6, ProceedEstablishes DEF ReadUndeleted
<1>7. CASE Abandon(w)
  BY <1>7, ReadAnswerEstablishes DEF Abandon
<1> QED BY <1>2, <1>3, <1>4, <1>5, <1>6, <1>7

-----------------------------------------------------------------------------
(* Statements that write.                                                  *)

(* An intent is inserted where there is none, for an identity that was     *)
(* seen unless it asks for a new one, and approved only when its           *)
(* registration is bound to the identity already.                          *)
LEMMA IntentInserted ==
  ASSUME IInv, NEW h \in Hosts, NEW k \in Keys, NEW n \in Intent,
         intent[h][k] = NoIntent, intent' = [intent EXCEPT ![h][k] = n],
         UNCHANGED <<identity, agent, binding, reservation>>,
         ~n.fresh => Born(n.identity),
         n.status = "approved" => binding[h] # NoBinding /\ binding[h].identity = n.identity
  PROVE  RowsSound' /\ Kept
<1>1. intent \in [Hosts -> [Keys -> Intent \cup {NoIntent}]]
  BY DEF IInv, RowsSound, RowsType
<1>2. /\ intent' \in [Hosts -> [Keys -> Intent \cup {NoIntent}]]
      /\ intent'[h][k] = n
      /\ \A g \in Hosts, j \in Keys : g # h \/ j # k => intent'[g][j] = intent[g][j]
  BY <1>1
<1>3. RowsType' /\ UnbornIsUnbound'
  BY <1>2 DEF IInv, RowsSound, RowsType, UnbornIsUnbound
<1>4. AdditionalNamesIdentity'
  BY <1>2 DEF IInv, RowsSound, AdditionalNamesIdentity, Born
<1>5. NothingHalfCreated'
  BY <1>2 DEF IInv, RowsSound, NothingHalfCreated
<1>6. Kept
  BY <1>2 DEF Kept, IdentitiesKept, AgentsKept, BindingsKept, IntentsKept, ReservationsKept, Born
<1> QED BY <1>3, <1>4, <1>5, <1>6 DEF RowsSound

(* A registration that is not bound is bound to an identity that is there, *)
(* or comes into being with it.                                            *)
LEMMA Bound ==
  ASSUME IInv, NEW i \in Identities, NEW h \in Hosts, Bindable(h), RowsType',
         binding' = [binding EXCEPT ![h] = [identity |-> i, status |-> "active"]],
         identity'[i] # "unborn", \A j \in Identities : identity'[j] = identity[j] \/ (j = i /\ ~Born(i)),
         agent'[h] # "unborn", \A g \in Hosts \ {h} : agent'[g] = agent[g],
         \A g \in Hosts, k \in Keys :
           \/ intent'[g][k] = intent[g][k]
           \/ /\ g = h /\ intent[g][k] # NoIntent /\ intent'[g][k] # NoIntent
              /\ intent'[g][k].fresh = intent[g][k].fresh
              /\ intent'[g][k].identity = intent[g][k].identity /\ intent[g][k].identity = i,
         \A k \in Keys : \/ reservation'[k] = reservation[k]
                         \/ reservation[k] = None /\ reservation'[k] = i
  PROVE  RowsSound' /\ Kept
<1>1. RowsType /\ UnbornIsUnbound /\ AdditionalNamesIdentity /\ NothingHalfCreated
  BY DEF IInv, RowsSound
<1>2. /\ binding[h] = NoBinding /\ binding'[h] # NoBinding /\ binding'[h].identity = i
      /\ \A g \in Hosts \ {h} : binding'[g] = binding[g]
  BY <1>1 DEF Bindable, RowsType, NoBinding
<1>3. \A j \in Identities : Born(j) => identity'[j] # "unborn"
  BY DEF Born
<1>4. UnbornIsUnbound'
  BY <1>1, <1>2 DEF UnbornIsUnbound
<1>5. AdditionalNamesIdentity'
  <2> SUFFICES ASSUME NEW g \in Hosts, NEW k \in Keys, intent'[g][k] # NoIntent, ~intent'[g][k].fresh
               PROVE  identity'[intent'[g][k].identity] # "unborn"
    BY DEF AdditionalNamesIdentity, Born
  <2>1. /\ intent[g][k] # NoIntent /\ ~intent[g][k].fresh
        /\ intent'[g][k].identity = intent[g][k].identity /\ intent[g][k].identity \in Identities
    BY <1>1 DEF RowsType, Intent
  <2> QED BY <1>1, <1>3, <2>1 DEF AdditionalNamesIdentity
<1>6. NothingHalfCreated'
  <2>1. ASSUME NEW j \in Identities, identity'[j] # "unborn"
        PROVE  \E g \in Hosts : binding'[g] # NoBinding /\ binding'[g].identity = j
    BY <1>1, <1>2, <2>1 DEF NothingHalfCreated, NoBinding
  <2>2. ASSUME NEW g \in Hosts, binding'[g] # NoBinding
        PROVE  identity'[binding'[g].identity] # "unborn"
    BY <1>1, <1>2, <1>3, <2>2 DEF NothingHalfCreated, Born, RowsType, Binding
  <2>3. ASSUME NEW g \in Hosts, NEW k \in Keys, intent'[g][k].status = "approved"
        PROVE  binding'[g] # NoBinding /\ binding'[g].identity = intent'[g][k].identity
    BY <1>1, <1>2, <2>3 DEF NothingHalfCreated
  <2>4. ASSUME NEW k \in Keys, reservation'[k] # None
        PROVE  identity'[reservation'[k]] # "unborn"
    BY <1>1, <1>3, <2>4 DEF NothingHalfCreated, Born, RowsType
  <2> QED BY <2>1, <2>2, <2>3, <2>4 DEF NothingHalfCreated
<1>7. IdentitiesKept /\ AgentsKept /\ BindingsKept /\ IntentsKept /\ ReservationsKept
  BY <1>2, <1>3 DEF IdentitiesKept, AgentsKept, BindingsKept, IntentsKept, ReservationsKept, Born
<1> QED BY <1>4, <1>5, <1>6, <1>7 DEF RowsSound, Kept

(* Rows change their status only.                                          *)
LEMMA StatusChanged ==
  ASSUME IInv, RowsType', UNCHANGED <<intent, reservation>>,
         \A i \in Identities : /\ Born(i) <=> identity'[i] # "unborn"
                               /\ identity[i] = "deleted" => identity'[i] = "deleted",
         \A h \in Hosts : agent[h] # "unborn" => agent'[h] # "unborn",
         \A h \in Hosts : \/ binding'[h] = binding[h]
                          \/ /\ binding[h] \in Binding /\ binding[h].status = "active"
                             /\ binding'[h] \in Binding /\ binding'[h].identity = binding[h].identity
  PROVE  RowsSound' /\ Kept
<1>1. RowsType /\ UnbornIsUnbound /\ AdditionalNamesIdentity /\ NothingHalfCreated
  BY DEF IInv, RowsSound
<1>2. \A h \in Hosts : /\ binding[h] # NoBinding <=> binding'[h] # NoBinding
                       /\ binding[h] # NoBinding => /\ binding'[h].identity = binding[h].identity
                                                    /\ binding[h].identity \in Identities
  BY <1>1 DEF RowsType, Binding, NoBinding
<1>3. UnbornIsUnbound'
  BY <1>1, <1>2 DEF UnbornIsUnbound
<1>4. AdditionalNamesIdentity'
  BY <1>1 DEF AdditionalNamesIdentity, Born, RowsType, Intent
<1>5. NothingHalfCreated'
  <2>1. \A i \in Identities : identity'[i] # "unborn" =>
          \E h \in Hosts : binding'[h] # NoBinding /\ binding'[h].identity = i
    BY <1>1, <1>2 DEF NothingHalfCreated, Born
  <2>2. \A h \in Hosts : binding'[h] # NoBinding => identity'[binding'[h].identity] # "unborn"
    BY <1>1, <1>2 DEF NothingHalfCreated, Born
  <2>3. \A h \in Hosts, k \in Keys : intent'[h][k].status = "approved" =>
          binding'[h] # NoBinding /\ binding'[h].identity = intent'[h][k].identity
    BY <1>1, <1>2 DEF NothingHalfCreated
  <2>4. \A k \in Keys : reservation'[k] # None => identity'[reservation'[k]] # "unborn"
    BY <1>1 DEF NothingHalfCreated, Born, RowsType
  <2> QED BY <2>1, <2>2, <2>3, <2>4 DEF NothingHalfCreated
<1>6. IdentitiesKept /\ AgentsKept /\ BindingsKept /\ IntentsKept /\ ReservationsKept
  BY <1>1, <1>2 DEF IdentitiesKept, AgentsKept, BindingsKept, IntentsKept, ReservationsKept
<1> QED BY <1>3, <1>4, <1>5, <1>6 DEF RowsSound, Kept

LEMMA RevokeEffect ==
  ASSUME IInv, NEW i \in Identities, NEW hosts, Revoke(i, hosts)
  PROVE  /\ binding' \in [Hosts -> Binding \cup {NoBinding}]
         /\ \A h \in Hosts : \/ binding'[h] = binding[h]
                             \/ /\ binding[h] \in Binding /\ binding[h].status = "active"
                                /\ binding'[h] \in Binding /\ binding'[h].identity = binding[h].identity
         /\ agent' \in [Hosts -> AgentStates]
         /\ \A h \in Hosts : agent[h] # "unborn" => agent'[h] # "unborn"
<1>1. RowsType
  BY DEF IInv, RowsSound
<1>2. \A h \in Hosts : ActiveBinding(i, h) =>
        /\ binding[h] \in Binding /\ binding[h].status = "active"
        /\ [binding[h] EXCEPT !.status = "revoked"] \in Binding
        /\ [binding[h] EXCEPT !.status = "revoked"].identity = binding[h].identity
  BY DEF ActiveBinding, Binding
<1>3. \A h \in Hosts : binding'[h] = IF ActiveBinding(i, h) THEN [binding[h] EXCEPT !.status = "revoked"]
                                                            ELSE binding[h]
  BY DEF Revoke
<1>4. \A h \in Hosts : \/ binding'[h] = binding[h]
                        \/ /\ binding[h] \in Binding /\ binding[h].status = "active"
                           /\ binding'[h] \in Binding /\ binding'[h].identity = binding[h].identity
  BY <1>2, <1>3
<1>5. binding' \in [Hosts -> Binding \cup {NoBinding}]
  <2>1. binding' = [h \in Hosts |-> binding'[h]]
    BY DEF Revoke
  <2>2. \A h \in Hosts : binding'[h] \in Binding \cup {NoBinding}
    BY <1>1, <1>4 DEF RowsType
  <2> QED BY <2>1, <2>2
<1>6. agent' \in [Hosts -> AgentStates] /\ \A h \in Hosts : agent[h] # "unborn" => agent'[h] # "unborn"
  BY <1>1 DEF Revoke, RowsType, AgentStates
<1> QED BY <1>4, <1>5, <1>6

-----------------------------------------------------------------------------
(* The writers, action by action.                                          *)

LEMMA MigrateIntentInv ==
  ASSUME IInv, NEW w \in Handlers, MigrateIntent(w)
  PROVE  Kept /\ IInv'
<1> DEFINE h == ctx[w].host
           k == ctx[w].key
           n == [identity |-> ctx[w].id, fresh |-> TRUE, status |-> "approved"]
<1>1. Given(pc[w], ctx[w]) /\ Seen(pc[w], ctx[w]) /\ pc[w] = "migrate_insert" /\ Answer(w)
  BY DEF IInv, HandlersSound, MigrateIntent
<1>2. /\ h \in Hosts /\ k \in Keys /\ ctx[w].id \in Identities
      /\ binding[h] # NoBinding /\ binding[h].identity = ctx[w].id
  BY <1>1 DEF Given, Seen, EnrollSteps
<1>3. n \in Intent /\ n.fresh /\ n.identity = ctx[w].id
  BY <1>2 DEF Intent
<1>4. UNCHANGED <<identity, agent, binding, reservation>>
  BY DEF MigrateIntent
<1>5. CASE intent[h][k] = NoIntent
  <2>1. intent' = [intent EXCEPT ![h][k] = n]
    BY <1>5 DEF MigrateIntent
  <2> HIDE DEF h, k, n
  <2> QED BY <1>1, <1>2, <1>3, <1>4, <1>5, <2>1, IntentInserted, AnswerEstablishes
<1>6. CASE intent[h][k] # NoIntent
  <2>1. intent' = [intent EXCEPT ![h][k] = intent[h][k]]
    BY <1>6 DEF MigrateIntent
  <2>2. intent' = intent
    <3> HIDE DEF h, k
    <3> QED BY <1>2, <2>1 DEF IInv, RowsSound, RowsType
  <2> QED BY <1>1, <1>4, <2>2, RowsUnchanged, AnswerEstablishes DEF rows
<1> QED BY <1>5, <1>6

(* An existing intent under the key is left alone, and approved next only  *)
(* when it is the one wanted.                                              *)
LEMMA InsertIntentInv ==
  ASSUME IInv, NEW w \in Handlers, InsertIntent(w)
  PROVE  Kept /\ IInv'
<1> DEFINE h == ctx[w].host
           k == ctx[w].key
           n == [identity |-> ctx[w].id, fresh |-> ctx[w].op = "enroll", status |-> "pending"]
<1>1. Given(pc[w], ctx[w]) /\ Seen(pc[w], ctx[w]) /\ pc[w] = "insert"
  BY DEF IInv, HandlersSound, InsertIntent
<1>2. /\ h \in Hosts /\ k \in Keys /\ ctx[w].id \in Identities /\ ctx[w].op # "login"
      /\ ctx[w].op # "enroll" => Born(ctx[w].id)
  BY <1>1 DEF Given, Seen, EnrollSteps
<1>3. n \in Intent /\ (~n.fresh => Born(n.identity)) /\ n.identity = ctx[w].id
      /\ n.status = "pending" /\ n # NoIntent
  BY <1>2 DEF Intent, NoIntent
<1>4. /\ UNCHANGED <<identity, agent, binding, reservation>>
      /\ intent' = [intent EXCEPT ![h][k] = IF intent[h][k] = NoIntent THEN n ELSE intent[h][k]]
  BY DEF InsertIntent
<1>5. \/ Answer(w)
      \/ Goto(w, "a_read") /\ intent'[h][k] = n
  BY DEF InsertIntent, Proceed
<1> HIDE DEF h, k, n
<1>6. RowsSound' /\ Kept
  <2>1. CASE intent[h][k] = NoIntent
    BY <1>2, <1>3, <1>4, <2>1, IntentInserted
  <2>2. CASE intent[h][k] # NoIntent
    <3>1. intent' = intent
      BY <1>2, <1>4, <2>2 DEF IInv, RowsSound, RowsType
    <3> QED BY <1>4, <3>1, RowsUnchanged DEF rows
  <2> QED BY <2>1, <2>2
<1>7. CASE Answer(w)
  BY <1>6, <1>7, AnswerEstablishes
<1>8. CASE Goto(w, "a_read") /\ intent'[h][k] = n
  <2>1. Moves(w) /\ pc'[w] = "a_read" /\ ctx'[w] = ctx[w]
    BY <1>8, GotoEffect DEF IInv, Steps
  <2>2. Given(pc'[w], ctx'[w]) /\ Seen(pc[w], ctx[w])'
    BY <1>2, <1>3, <1>8, <2>1 DEF Given, Seen, EnrollSteps, HostSteps, ControlSteps, h, k
  <2> QED BY <1>6, <2>1, <2>2, MoverEstablishes
<1> QED BY <1>5, <1>7, <1>8

LEMMA ApproveBatchInv ==
  ASSUME IInv, NEW w \in Handlers, ApproveBatch(w)
  PROVE  Kept /\ IInv'
<1> DEFINE h == ctx[w].host
           k == ctx[w].key
           i == ctx[w].id
           n == [intent[h][k] EXCEPT !.status = "approved"]
<1>1. Given(pc[w], ctx[w]) /\ Seen(pc[w], ctx[w]) /\ pc[w] = "a_batch" /\ Answer(w)
  BY DEF IInv, HandlersSound, ApproveBatch
<1>2. /\ h \in Hosts /\ k \in Keys /\ i \in Identities /\ agent[h] # "unborn"
      /\ intent[h][k] # NoIntent /\ intent[h][k].identity = i
  BY <1>1 DEF Given, Seen, EnrollSteps
<1>3. CASE Settles(h, k)
  <2>1. /\ Bindable(h)
        /\ IF intent[h][k].fresh THEN NameFree(i) /\ identity' = [identity EXCEPT ![i] = "active"]
                                  ELSE UNCHANGED identity
        /\ binding' = [binding EXCEPT ![h] = [identity |-> i, status |-> "active"]]
        /\ intent' = [intent EXCEPT ![h][k] = n]
        /\ UNCHANGED <<agent, reservation>>
    BY <1>2, <1>3 DEF ApproveBatch, Settles, OpenIdentity
  <2>2. RowsType /\ AdditionalNamesIdentity
    BY DEF IInv, RowsSound
  <2>3. intent[h][k] \in Intent /\ (intent[h][k].fresh \in BOOLEAN) /\ (~intent[h][k].fresh => Born(i))
    BY <1>2, <2>2 DEF RowsType, Intent, AdditionalNamesIdentity
  <2>4. n \in Intent /\ n # NoIntent /\ n.identity = i /\ n.fresh = intent[h][k].fresh
    BY <1>2, <2>3 DEF Intent, NoIntent
  <2> HIDE DEF h, k, i, n
  <2>5. /\ intent' \in [Hosts -> [Keys -> Intent \cup {NoIntent}]] /\ intent'[h][k] = n
        /\ \A g \in Hosts, j \in Keys : g # h \/ j # k => intent'[g][j] = intent[g][j]
    BY <1>2, <2>1, <2>2, <2>4 DEF RowsType
  <2>6. /\ identity' \in [Identities -> IdentityStates] /\ identity'[i] # "unborn"
        /\ \A j \in Identities : identity'[j] = identity[j] \/ (j = i /\ ~Born(i))
    BY <1>2, <2>1, <2>2, <2>3 DEF RowsType, IdentityStates, NameFree, Born
  <2>7. binding' \in [Hosts -> Binding \cup {NoBinding}]
    BY <1>2, <2>1, <2>2 DEF RowsType, Binding
  <2>8. RowsType'
    BY <2>1, <2>2, <2>5, <2>6, <2>7 DEF RowsType
  <2>9. RowsSound' /\ Kept
    <3>1. \A g \in Hosts, j \in Keys :
            \/ intent'[g][j] = intent[g][j]
            \/ /\ g = h /\ intent[g][j] # NoIntent /\ intent'[g][j] # NoIntent
               /\ intent'[g][j].fresh = intent[g][j].fresh
               /\ intent'[g][j].identity = intent[g][j].identity /\ intent[g][j].identity = i
      BY <1>2, <2>4, <2>5
    <3> QED BY <1>2, <2>1, <2>6, <2>8, <3>1, Bound
  <2> QED BY <1>1, <2>9, AnswerEstablishes
<1>4. CASE ~Settles(h, k)
  <2>1. UNCHANGED rows
    BY <1>4 DEF ApproveBatch, rows
  <2> QED BY <1>1, <2>1, ReadAnswerEstablishes
<1> QED BY <1>3, <1>4

LEMMA LoginBatchInv ==
  ASSUME IInv, NEW w \in Handlers, LoginBatch(w)
  PROVE  Kept /\ IInv'
<1> DEFINE h == ctx[w].host
           i == ctx[w].id
<1>1. Given(pc[w], ctx[w]) /\ Seen(pc[w], ctx[w]) /\ pc[w] = "l_batch" /\ Answer(w)
  BY DEF IInv, HandlersSound, LoginBatch
<1>2. h \in Hosts /\ i \in Identities /\ agent[h] # "unborn"
  BY <1>1 DEF Given, Seen, EnrollSteps
<1>3. CASE NameFree(i) /\ Bindable(h)
  <2>1. OpenIdentity(i, h) /\ UNCHANGED <<agent, intent, reservation>>
    BY <1>3 DEF LoginBatch
  <2> HIDE DEF h, i
  <2>2. /\ RowsType' /\ identity'[i] # "unborn"
        /\ \A j \in Identities : identity'[j] = identity[j] \/ (j = i /\ ~Born(i))
    BY <1>2, <1>3, <2>1
    DEF OpenIdentity, IInv, RowsSound, RowsType, Binding, IdentityStates, NameFree, Born
  <2>3. RowsSound' /\ Kept
    BY <1>2, <1>3, <2>1, <2>2, Bound DEF OpenIdentity
  <2> QED BY <1>1, <2>3, AnswerEstablishes
<1>4. CASE ~(NameFree(i) /\ Bindable(h))
  <2>1. UNCHANGED rows
    BY <1>4 DEF LoginBatch, rows
  <2> QED BY <1>1, <2>1, ReadAnswerEstablishes
<1> QED BY <1>3, <1>4

(* The registration is new, so nothing is bound to it.                     *)
LEMMA CreateBatchInv ==
  ASSUME IInv, NEW w \in Handlers, CreateBatch(w)
  PROVE  Kept /\ IInv'
<1> DEFINE h == ctx[w].host
           i == ctx[w].id
           k == ctx[w].key
<1>1. Given(pc[w], ctx[w]) /\ pc[w] = "c_batch" /\ Answer(w)
  BY DEF IInv, HandlersSound, CreateBatch
<1>2. h \in Hosts /\ i \in Identities /\ k \in Keys
  BY <1>1 DEF Given, EnrollSteps
<1>3. CASE KeyFree(k) /\ NameFree(i) /\ agent[h] = "unborn"
  <2>1. /\ OpenIdentity(i, h) /\ UNCHANGED intent
        /\ agent' = [agent EXCEPT ![h] = "active"]
        /\ reservation' = [reservation EXCEPT ![k] = i]
    BY <1>3 DEF CreateBatch
  <2> HIDE DEF h, i, k
  <2>2. /\ RowsType' /\ identity'[i] # "unborn" /\ agent'[h] # "unborn"
        /\ \A j \in Identities : identity'[j] = identity[j] \/ (j = i /\ ~Born(i))
        /\ \A g \in Hosts \ {h} : agent'[g] = agent[g]
        /\ \A j \in Keys : reservation'[j] = reservation[j] \/ (reservation[j] = None /\ reservation'[j] = i)
    BY <1>2, <1>3, <2>1
    DEF OpenIdentity, IInv, RowsSound, RowsType, Binding, IdentityStates, AgentStates, NameFree, KeyFree, Born
  <2>3. Bindable(h)
    BY <1>2, <1>3 DEF IInv, RowsSound, UnbornIsUnbound, Bindable
  <2>4. RowsSound' /\ Kept
    BY <1>2, <2>1, <2>2, <2>3, Bound DEF OpenIdentity
  <2> QED BY <1>1, <2>4, AnswerEstablishes
<1>4. CASE ~(KeyFree(k) /\ NameFree(i) /\ agent[h] = "unborn")
  <2>1. UNCHANGED rows
    BY <1>4 DEF CreateBatch, rows
  <2> QED BY <1>1, <2>1, ReadAnswerEstablishes
<1> QED BY <1>3, <1>4

LEMMA RevokeHostBatchInv ==
  ASSUME IInv, NEW w \in Handlers, RevokeHostBatch(w)
  PROVE  Kept /\ IInv'
<1>1. /\ pc[w] = "h_batch" /\ Revoke(ctx[w].id, {ctx[w].host}) /\ Answer(w)
      /\ UNCHANGED <<identity, intent, reservation>> /\ ctx[w].id \in Identities
  BY DEF IInv, HandlersSound, RevokeHostBatch, Given
<1>2. RowsType'
  BY <1>1, RevokeEffect DEF IInv, RowsSound, RowsType
<1>3. RowsSound' /\ Kept
  BY <1>1, <1>2, RevokeEffect, StatusChanged DEF Born
<1> QED BY <1>1, <1>3, AnswerEstablishes

LEMMA DeactivateBatchInv ==
  ASSUME IInv, NEW w \in Handlers, DeactivateBatch(w)
  PROVE  Kept /\ IInv'
<1> DEFINE i == ctx[w].id
<1>1. Given(pc[w], ctx[w]) /\ Seen(pc[w], ctx[w]) /\ pc[w] = "d_batch" /\ Answer(w)
  BY DEF IInv, HandlersSound, DeactivateBatch
<1>2. i \in Identities /\ Born(i)
  BY <1>1 DEF Given, Seen, ControlSteps
<1>3. /\ identity' = [identity EXCEPT ![i] = IF identity[i] = "deleted" THEN "deleted" ELSE "inactive"]
      /\ Revoke(i, ctx[w].live) \/ UNCHANGED <<binding, agent>>
      /\ UNCHANGED <<intent, reservation>>
  BY DEF DeactivateBatch
<1> HIDE DEF i
<1>4. /\ identity' \in [Identities -> IdentityStates]
      /\ \A j \in Identities : /\ Born(j) <=> identity'[j] # "unborn"
                               /\ identity[j] = "deleted" => identity'[j] = "deleted"
  BY <1>2, <1>3 DEF IInv, RowsSound, RowsType, IdentityStates, Born
<1>5. CASE Revoke(i, ctx[w].live)
  <2>1. RowsType'
    BY <1>2, <1>3, <1>4, <1>5, RevokeEffect DEF IInv, RowsSound, RowsType
  <2>2. RowsSound' /\ Kept
    BY <1>2, <1>3, <1>4, <1>5, <2>1, RevokeEffect, StatusChanged
  <2> QED BY <1>1, <2>2, AnswerEstablishes
<1>6. CASE UNCHANGED <<binding, agent>>
  <2>1. RowsType'
    BY <1>3, <1>4, <1>6 DEF IInv, RowsSound, RowsType
  <2>2. RowsSound' /\ Kept
    BY <1>3, <1>4, <1>6, <2>1, StatusChanged
  <2> QED BY <1>1, <2>2, AnswerEstablishes
<1> QED BY <1>3, <1>5, <1>6

LEMMA ActivateUpdateInv ==
  ASSUME IInv, NEW w \in Handlers, ActivateUpdate(w)
  PROVE  Kept /\ IInv'
<1> DEFINE i == ctx[w].id
<1>1. Answer(w) /\ i \in Identities
  BY DEF IInv, HandlersSound, ActivateUpdate, Given
<1>2. /\ identity' = [identity EXCEPT ![i] = IF identity[i] = "inactive" THEN "active" ELSE identity[i]]
      /\ UNCHANGED <<agent, binding, intent, reservation>>
  BY DEF ActivateUpdate, Activatable
<1> HIDE DEF i
<1>3. /\ identity' \in [Identities -> IdentityStates]
      /\ \A j \in Identities : /\ Born(j) <=> identity'[j] # "unborn"
                               /\ identity[j] = "deleted" => identity'[j] = "deleted"
  BY <1>1, <1>2 DEF IInv, RowsSound, RowsType, IdentityStates, Born
<1>4. RowsType'
  BY <1>2, <1>3 DEF IInv, RowsSound, RowsType
<1>5. RowsSound' /\ Kept
  BY <1>2, <1>3, <1>4, StatusChanged
<1> QED BY <1>1, <1>5, AnswerEstablishes

LEMMA DeleteBatchInv ==
  ASSUME IInv, NEW w \in Handlers, DeleteBatch(w)
  PROVE  Kept /\ IInv'
<1> DEFINE i == ctx[w].id
<1>1. Given(pc[w], ctx[w]) /\ Seen(pc[w], ctx[w]) /\ pc[w] = "x_batch" /\ Answer(w)
  BY DEF IInv, HandlersSound, DeleteBatch
<1>2. i \in Identities /\ Born(i)
  BY <1>1 DEF Given, Seen, ControlSteps
<1>3. /\ identity' = [identity EXCEPT ![i] = "deleted"]
      /\ Revoke(i, ctx[w].live) /\ UNCHANGED <<intent, reservation>>
  BY DEF DeleteBatch
<1> HIDE DEF i
<1>4. /\ identity' \in [Identities -> IdentityStates]
      /\ \A j \in Identities : /\ Born(j) <=> identity'[j] # "unborn"
                               /\ identity[j] = "deleted" => identity'[j] = "deleted"
  BY <1>2, <1>3 DEF IInv, RowsSound, RowsType, IdentityStates, Born
<1>5. RowsType'
  BY <1>2, <1>3, <1>4, RevokeEffect DEF IInv, RowsSound, RowsType
<1>6. RowsSound' /\ Kept
  BY <1>2, <1>3, <1>4, <1>5, RevokeEffect, StatusChanged
<1> QED BY <1>1, <1>6, AnswerEstablishes

(* The protocol touches only the registration.                             *)
LEMMA ProtocolInv ==
  ASSUME IInv, ProtocolStep
  PROVE  Kept /\ IInv'
<1>1. PICK h \in Hosts : RegisterAgent(h) \/ RevokeAgent(h)
  BY DEF ProtocolStep
<1>2. /\ UNCHANGED <<identity, binding, intent, reservation, pc, ctx>>
      /\ agent' \in [Hosts -> AgentStates]
      /\ \A g \in Hosts : agent[g] # "unborn" => agent'[g] # "unborn"
  BY <1>1 DEF RegisterAgent, RevokeAgent, IInv, RowsSound, RowsType, AgentStates
<1>3. RowsType'
  BY <1>2 DEF IInv, RowsSound, RowsType
<1>4. RowsSound' /\ Kept
  BY <1>2, <1>3, StatusChanged DEF IInv, TypeOK, Born
<1>5. ASSUME NEW v \in Handlers PROVE Given(pc[v], ctx[v])' /\ Seen(pc[v], ctx[v])'
  <2>1. Given(pc[v], ctx[v]) /\ Seen(pc[v], ctx[v])
    BY DEF IInv, HandlersSound
  <2> QED BY <1>2, <1>4, <2>1, SeenStays DEF Given, Seen, Born
<1> QED BY <1>2, <1>3, <1>4, <1>5 DEF IInv, HandlersSound, TypeOK, RowsType

-----------------------------------------------------------------------------
LEMMA NextStep ==
  ASSUME IInv, Next
  PROVE  Kept /\ IInv'
<1>1. ASSUME NEW w \in Handlers, EnrollStep(w)
      PROVE  Kept /\ IInv'
  <2>1. CASE \/ \E i \in Identities, h \in Hosts, k \in Keys :
                  EnrollBegin(w, i, h, k) \/ ApproveBegin(w, i, h, k) \/ CreateBegin(w, i, h, k)
             \/ \E i \in Identities, h \in Hosts : LoginBegin(w, i, h)
    BY <2>1, BeginInv
  <2>2. CASE \/ FindBound(w) \/ FindApproved(w) \/ FindIdentity(w) \/ CheckEnroll(w) \/ CheckName(w)
             \/ ReadIntent(w) \/ CheckApprove(w) \/ FindApproveIdentity(w) \/ CheckInstallation(w)
    BY <2>2, EnrollReadersInv
  <2>3. CASE \/ MigrateIntent(w) \/ InsertIntent(w) \/ ApproveBatch(w) \/ LoginBatch(w) \/ CreateBatch(w)
    BY <2>3, MigrateIntentInv, InsertIntentInv, ApproveBatchInv, LoginBatchInv, CreateBatchInv
  <2> QED BY <1>1, <2>1, <2>2, <2>3 DEF EnrollStep
<1>2. ASSUME NEW w \in Handlers, ControlStep(w)
      PROVE  Kept /\ IInv'
  <2>1. CASE \E i \in Identities : \/ RecoverBegin(w, i) \/ DeactivateBegin(w, i)
                                   \/ ActivateBegin(w, i) \/ DeleteBegin(w, i)
    BY <2>1, BeginInv
  <2> QED BY <1>2, <2>1, ControlReadersInv, DeactivateBatchInv, ActivateUpdateInv, DeleteBatchInv
          DEF ControlStep
<1>3. ASSUME NEW w \in Handlers, RevokeHostStep(w)
      PROVE  Kept /\ IInv'
  BY <1>3, BeginInv, ControlReadersInv, RevokeHostBatchInv DEF RevokeHostStep
<1>4. ASSUME NEW w \in Handlers, Abandon(w)
      PROVE  Kept /\ IInv'
  BY <1>4, ControlReadersInv
<1> QED BY <1>1, <1>2, <1>3, <1>4, ProtocolInv DEF Next, MountedNext

LEMMA StepEstablishes ==
  ASSUME IInv, [Next]_vars
  PROVE  Kept /\ IInv'
<1>1. CASE UNCHANGED vars
  <2>1. RowsSound' /\ Kept
    BY <1>1, RowsUnchanged DEF vars, rows
  <2>2. TypeOK' /\ HandlersSound'
    BY <1>1 DEF vars, IInv, TypeOK, HandlersSound, Given, Seen, Born
  <2> QED BY <2>1, <2>2 DEF IInv
<1> QED BY <1>1, NextStep

LEMMA Inductive == Spec => []IInv
<1>1. IInv /\ [Next]_vars => IInv'
  BY StepEstablishes
<1> QED BY InitEstablishes, <1>1, PTL DEF Spec

(* Rows and what an invocation carries stay in the types of the schema: in *)
(* particular a status is one the repository's statements write.           *)
THEOREM IdentityTypeCorrect == Spec => []TypeOK
<1>1. IInv => TypeOK
  BY DEF IInv
<1> QED BY Inductive, <1>1, PTL

(* An identity comes with its installation, an approved intent with the    *)
(* binding it asked for and a reserved key with its identity, whichever    *)
(* batches of agent-identities.ts race or are never reached.               *)
THEOREM NothingIsHalfCreated == Spec => []NothingHalfCreated
<1>1. IInv => NothingHalfCreated
  BY DEF IInv, RowsSound
<1> QED BY Inductive, <1>1, PTL

(* A registration is bound to one identity for ever, a revoked installation*)
(* stays revoked, and a reserved idempotency key keeps its identity.       *)
THEOREM ReservationsLast == Spec => ReservationsHold
<1>1. IInv /\ [Next]_vars => [BindingsKept /\ ReservationsKept]_vars
  BY StepEstablishes DEF Kept
<1> QED BY Inductive, <1>1, PTL DEF Spec, ReservationsHold, BindingsKept, ReservationsKept

(* No statement of an enrollment, an activation or a recovery in flight    *)
(* brings a deleted identity back.                                         *)
THEOREM DeletionLasts == Spec => DeletionIsFinal
<1> DEFINE DeletedStay == \A i \in Identities : identity[i] = "deleted" => identity'[i] = "deleted"
<1>1. IInv /\ [Next]_vars => [DeletedStay]_vars
  BY StepEstablishes DEF Kept, IdentitiesKept
<1> QED BY Inductive, <1>1, PTL DEF Spec, DeletionIsFinal
=============================================================================

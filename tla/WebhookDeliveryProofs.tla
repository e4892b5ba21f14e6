----------------------- MODULE WebhookDeliveryProofs -----------------------
(***************************************************************************)
(* TLAPS proofs about WebhookDelivery, for every set of handlers and every *)
(* finite set of idempotency keys.                                         *)
(***************************************************************************)
EXTENDS WebhookDelivery, FiniteSetTheorems, TLAPS

-----------------------------------------------------------------------------
(* The inductive invariant.                                                *)

(* The reservation of a key is in the hands of the invocation that made it *)
(* until it has written what came of it.                                   *)
Holds(w, k) == pc[w] \in {"mark", "post", "attempt", "delivery"} /\ ctx[w].key = k

(* An invocation that is not idle has a key.                               *)
KeyGiven == \A w \in Handlers : pc[w] # "idle" => ctx[w].key \in Keys

(* A deletion takes everything, for good.                                  *)
NothingWithoutEndpoint ==
  ~endpoint => delivery = NoRow /\ \A k \in Keys : attempt[k] = NoRow

OneHolder ==
  \A k \in Keys : \A v, w \in Handlers : Holds(v, k) /\ Holds(w, k) => v = w

(* What has no row was not sent; who is about to send is the first.        *)
SentAfterReservation ==
  /\ \A w \in Handlers : pc[w] \in {"mark", "post"} => sent[ctx[w].key] = 0
  /\ endpoint => \A k \in Keys : attempt[k] = NoRow => sent[k] = 0

(* The row of a key says what its holder has written.                      *)
HolderWrote(w) ==
  /\ pc[w] \in {"mark", "post", "attempt"} => attempt[ctx[w].key].status = "pending"
  /\ pc[w] = "delivery" => attempt[ctx[w].key].status = ctx[w].status
HoldersWrote == endpoint => \A w \in Handlers : HolderWrote(w)

(* A count or a number read earlier is not ahead of the attempts.          *)
CountsAreBehind ==
  endpoint =>
    /\ \A w \in Handlers : /\ ctx[w].count <= Cardinality(Reserved)
                           /\ ctx[w].sequence <= Cardinality(Reserved)
    /\ delivery # NoRow => delivery.count <= Cardinality(Reserved)

(* The endpoint has answered before anything is written about it.          *)
StatusKnown == \A w \in Handlers : pc[w] \in {"attempt", "delivery"} => ctx[w].status \in Outcomes

IInv ==
  /\ TypeOK
  /\ KeyGiven
  /\ NothingWithoutEndpoint
  /\ OneHolder
  /\ SentAfterReservation
  /\ HoldersWrote
  /\ CountsAreBehind
  /\ StatusKnown
  /\ KeySendsOnce
  /\ AttemptsTellTheHistory

-----------------------------------------------------------------------------
(* Rows and numbers.                                                       *)

LEMMA KeysFinite == IsFiniteSet(Keys) /\ Cardinality(Keys) \in Nat
  BY KeyAssumption, FS_CardinalityType

LEMMA ReservedFinite ==
  IsFiniteSet(Reserved) /\ Cardinality(Reserved) \in Nat /\ Cardinality(Reserved) <= Cardinality(Keys)
<1>1. Reserved \in SUBSET Keys
  BY DEF Reserved
<1> QED BY <1>1, KeysFinite, FS_Subset, FS_CardinalityType

LEMMA MaxIsGreatest ==
  ASSUME NEW S \in SUBSET Nat, NEW m \in S, \A n \in S : m >= n
  PROVE  Max(S) = m
<1>1. \E x \in S : \A n \in S : x >= n
  OBVIOUS
<1>2. Max(S) \in S /\ \A n \in S : Max(S) >= n
  BY <1>1 DEF Max
<1>3. \A a, b \in Nat : a >= b /\ b >= a => a = b
  OBVIOUS
<1>4. Max(S) \in Nat /\ m \in Nat /\ Max(S) >= m /\ m >= Max(S)
  BY <1>2
<1> QED BY <1>3, <1>4

(* The subselect of reserveAttempt gives the next number, however old the  *)
(* count that was read.                                                    *)
LEMMA NextNumber ==
  ASSUME IInv, endpoint, NEW w \in Handlers
  PROVE  NextSequence(w) = Cardinality(Reserved) + 1
<1> DEFINE n == Cardinality(Reserved)
<1>1. /\ n \in Nat /\ ctx[w].count \in Nat /\ ctx[w].count <= n
      /\ {attempt[k].sequence : k \in Reserved} = 1 .. n
  BY ReservedFinite, KeysFinite DEF IInv, CountsAreBehind, AttemptsTellTheHistory, TypeOK, Context
<1> HIDE DEF n
<1>2. LastSequence = n
  <2>1. (1 .. n) \cup {0} \in SUBSET Nat /\ n \in (1 .. n) \cup {0}
        /\ \A i \in (1 .. n) \cup {0} : n >= i
    BY <1>1
  <2>2. Max((1 .. n) \cup {0}) = n
    BY <2>1, MaxIsGreatest
  <2> QED BY <1>1, <2>2 DEF LastSequence
<1>3. Max({n, ctx[w].count}) = n
  <2>1. {n, ctx[w].count} \in SUBSET Nat /\ n \in {n, ctx[w].count}
        /\ \A i \in {n, ctx[w].count} : n >= i
    BY <1>1
  <2> QED BY <2>1, MaxIsGreatest
<1> QED BY <1>2, <1>3 DEF NextSequence, n

LEMMA InitEstablishes == Init => IInv
<1> SUFFICES ASSUME Init PROVE IInv
  OBVIOUS
<1>1. Reserved = {} /\ Cardinality(Reserved) = 0
  BY FS_EmptySet DEF Init, Reserved
<1>2. TypeOK
  BY KeysFinite, KeyAssumption DEF Init, TypeOK, NoContext, Context, Steps, Delivery, Attempt
<1>3. AttemptsTellTheHistory
  BY <1>1 DEF Init, AttemptsTellTheHistory, NoRow
<1> QED BY <1>1, <1>2, <1>3
  DEF Init, IInv, KeyGiven, NothingWithoutEndpoint, OneHolder, Holds, SentAfterReservation,
      HoldersWrote, HolderWrote, CountsAreBehind, StatusKnown, KeySendsOnce, NoContext

-----------------------------------------------------------------------------
(* Handlers.                                                               *)

LEMMA AwaitEffect ==
  ASSUME TypeOK, NEW w \in Handlers, NEW step \in Steps, NEW c \in Context, Await(w, step, c)
  PROVE  /\ pc' \in [Handlers -> Steps] /\ ctx' \in [Handlers -> Context]
         /\ pc'[w] = step /\ ctx'[w] = c
         /\ \A v \in Handlers \ {w} : pc'[v] = pc[v] /\ ctx'[v] = ctx[v]
  BY DEF TypeOK, Await

LEMMA ContextOf ==
  ASSUME TypeOK, NEW w \in Handlers
  PROVE  /\ ctx[w] \in Context
         /\ ctx[w].key \in Keys \cup {None} /\ ctx[w].status \in {"none", "pending"} \cup Outcomes
         /\ ctx[w].count \in 0 .. Cardinality(Keys) /\ ctx[w].sequence \in 0 .. Cardinality(Keys)
  BY DEF TypeOK, Context

(* An invocation that holds no reservation after its step, and has counted *)
(* no attempt that is not there, disturbs nothing.                         *)
Harmless(w) ==
  /\ pc' \in [Handlers -> Steps] /\ ctx' \in [Handlers -> Context]
  /\ \A v \in Handlers \ {w} : pc'[v] = pc[v] /\ ctx'[v] = ctx[v]
  /\ pc'[w] \notin {"mark", "post", "attempt", "delivery"}
  /\ pc'[w] # "idle" => ctx'[w].key \in Keys
  /\ endpoint => /\ ctx'[w].count <= Cardinality(Reserved)
                 /\ ctx'[w].sequence <= Cardinality(Reserved)

LEMMA HarmlessHolders ==
  ASSUME IInv, NEW w \in Handlers, Harmless(w), UNCHANGED <<endpoint, attempt, sent>>
  PROVE  KeyGiven' /\ StatusKnown' /\ OneHolder' /\ SentAfterReservation' /\ HoldersWrote'
<1>1. KeyGiven' /\ StatusKnown'
  BY DEF IInv, Harmless, KeyGiven, StatusKnown
<1>2. OneHolder'
  BY DEF IInv, Harmless, OneHolder, Holds
<1>3. SentAfterReservation'
  BY DEF IInv, Harmless, SentAfterReservation
<1>4. HoldersWrote'
  BY DEF IInv, Harmless, HoldersWrote, HolderWrote
<1> QED BY <1>1, <1>2, <1>3, <1>4

LEMMA HarmlessEstablishes ==
  ASSUME IInv, NEW w \in Handlers, Harmless(w), UNCHANGED <<endpoint, delivery, attempt, sent>>
  PROVE  IInv'
<1>1. Reserved' = Reserved
  BY DEF Reserved
<1>2. /\ TypeOK' /\ KeySendsOnce' /\ NothingWithoutEndpoint' /\ AttemptsTellTheHistory'
  BY <1>1 DEF IInv, Harmless, TypeOK, KeySendsOnce, NothingWithoutEndpoint, AttemptsTellTheHistory
<1>3. CountsAreBehind'
  BY <1>1 DEF IInv, Harmless, CountsAreBehind
<1> QED BY <1>2, <1>3, HarmlessHolders DEF IInv

LEMMA AnswerIsHarmless ==
  ASSUME IInv, NEW w \in Handlers, Answer(w)
  PROVE  Harmless(w)
<1>1. NoContext \in Context /\ NoContext.count = 0 /\ NoContext.sequence = 0
  BY KeysFinite DEF NoContext, Context
<1>2. TypeOK /\ "idle" \in Steps
  BY DEF IInv, Steps
<1>3. /\ pc' \in [Handlers -> Steps] /\ ctx' \in [Handlers -> Context]
      /\ pc'[w] = "idle" /\ ctx'[w] = NoContext
      /\ \A v \in Handlers \ {w} : pc'[v] = pc[v] /\ ctx'[v] = ctx[v]
  BY <1>1, <1>2, AwaitEffect DEF Answer
<1> QED BY <1>1, <1>3, ReservedFinite DEF Harmless

(* A handler waits at a step where it holds nothing, with what it had or   *)
(* with a count that is not ahead.                                         *)
LEMMA AwaitIsHarmless ==
  ASSUME IInv, NEW w \in Handlers, NEW step \in Steps \ {"mark", "post", "attempt", "delivery"},
         NEW c \in Context, Await(w, step, c), c.key \in Keys,
         endpoint => c.count <= Cardinality(Reserved) /\ c.sequence <= Cardinality(Reserved)
  PROVE  Harmless(w)
  BY AwaitEffect DEF IInv, Harmless

LEMMA ReadersInv ==
  ASSUME IInv, NEW w \in Handlers,
         \/ PublishBegin(w) \/ FindByKey(w) \/ ReadDelivery(w) \/ ReadEndpoint(w) \/ Abandon(w)
         \/ \E k \in Keys : RetryBegin(w, k)
  PROVE  IInv'
<1>1. UNCHANGED <<endpoint, delivery, attempt, sent>>
  BY DEF PublishBegin, FindByKey, ReadDelivery, ReadEndpoint, Abandon, RetryBegin
<1>2. TypeOK /\ NoContext \in Context /\ NoContext.count = 0 /\ NoContext.sequence = 0
  BY KeysFinite DEF IInv, NoContext, Context
<1>3. /\ ctx[w] \in Context
      /\ pc[w] # "idle" => ctx[w].key \in Keys
      /\ endpoint => ctx[w].count <= Cardinality(Reserved) /\ ctx[w].sequence <= Cardinality(Reserved)
  BY ContextOf DEF IInv, KeyGiven, CountsAreBehind
<1>4. CASE PublishBegin(w)
  <2> DEFINE c == [NoContext EXCEPT !.key = Initial]
  <2>1. c \in Context /\ c.key \in Keys /\ c.count = 0 /\ c.sequence = 0
    BY <1>2, KeyAssumption, KeysFinite DEF NoContext, Context
  <2>2. Await(w, "p_insert", c)
    BY <1>4 DEF PublishBegin
  <2> HIDE DEF c
  <2>3. Harmless(w)
    BY <2>1, <2>2, AwaitIsHarmless, ReservedFinite DEF Steps
  <2> QED BY <1>1, <2>3, HarmlessEstablishes
<1>5. CASE \E k \in Keys : RetryBegin(w, k)
  <2>1. PICK k \in Keys : RetryBegin(w, k)
    BY <1>5
  <2> DEFINE c == [NoContext EXCEPT !.key = k, !.status = delivery.status]
  <2>2. c \in Context /\ c.key \in Keys /\ c.count = 0 /\ c.sequence = 0
    BY <1>2, <2>1, KeysFinite DEF NoContext, Context, RetryBegin, TypeOK, Delivery
  <2>3. Await(w, "m_key", c)
    BY <2>1 DEF RetryBegin
  <2> HIDE DEF c
  <2>4. Harmless(w)
    BY <2>2, <2>3, AwaitIsHarmless, ReservedFinite DEF Steps
  <2> QED BY <1>1, <2>4, HarmlessEstablishes
<1>6. CASE FindByKey(w) \/ ReadEndpoint(w)
  <2>1. ctx[w].key \in Keys /\ (Answer(w) \/ \E step \in {"request", "reserve"} : Await(w, step, ctx[w]))
    BY <1>3, <1>6 DEF FindByKey, ReadEndpoint, Goto
  <2>2. Harmless(w)
    BY <1>3, <2>1, AnswerIsHarmless, AwaitIsHarmless DEF Steps
  <2> QED BY <1>1, <2>2, HarmlessEstablishes
<1>7. CASE ReadDelivery(w)
  <2>1. CASE delivery = NoRow
    BY <1>1, <1>7, <2>1, AnswerIsHarmless, HarmlessEstablishes DEF ReadDelivery
  <2>2. CASE delivery # NoRow
    <3> DEFINE c == [ctx[w] EXCEPT !.count = delivery.count]
    <3>1. delivery.count \in 0 .. Cardinality(Keys)
          /\ (endpoint => delivery.count <= Cardinality(Reserved))
      BY <1>2, <2>2 DEF TypeOK, Delivery, IInv, CountsAreBehind
    <3>2. /\ c \in Context /\ c.key = ctx[w].key /\ c.count = delivery.count
          /\ c.sequence = ctx[w].sequence
      BY <1>3, <3>1 DEF Context
    <3>3. Await(w, "endpoint", c) /\ ctx[w].key \in Keys
      BY <1>3, <1>7, <2>2 DEF ReadDelivery
    <3> HIDE DEF c
    <3>4. Harmless(w)
      BY <1>3, <3>1, <3>2, <3>3, AwaitIsHarmless DEF Steps
    <3> QED BY <1>1, <3>4, HarmlessEstablishes
  <2> QED BY <2>1, <2>2
<1>8. CASE Abandon(w)
  BY <1>1, <1>8, AnswerIsHarmless, HarmlessEstablishes DEF Abandon
<1> QED BY <1>4, <1>5, <1>6, <1>7, <1>8


-----------------------------------------------------------------------------
(* Writers of the delivery row.                                            *)

(* A delivery row may be written while the endpoint is there, with a count *)
(* that is not ahead, and delivered only when an attempt was.              *)
DeliveryWritten ==
  /\ endpoint /\ UNCHANGED <<endpoint, attempt, sent>>
  /\ delivery' \in Delivery /\ delivery'.count <= Cardinality(Reserved)
  /\ delivery'.status = "delivered" => \E k \in Keys : attempt[k].status = "delivered"

LEMMA DeliveryWrittenEstablishes ==
  ASSUME IInv, DeliveryWritten, NEW w \in Handlers,
         pc' \in [Handlers -> Steps], ctx' \in [Handlers -> Context],
         \A v \in Handlers \ {w} : ctx'[v] = ctx[v],
         ctx'[w].count <= Cardinality(Reserved), ctx'[w].sequence <= Cardinality(Reserved)
  PROVE  TypeOK' /\ NothingWithoutEndpoint' /\ CountsAreBehind' /\ KeySendsOnce' /\ AttemptsTellTheHistory'
<1>1. Reserved' = Reserved
  BY DEF Reserved, DeliveryWritten
<1>2. TypeOK' /\ NothingWithoutEndpoint' /\ KeySendsOnce'
  BY DEF IInv, DeliveryWritten, TypeOK, NothingWithoutEndpoint, KeySendsOnce
<1>3. CountsAreBehind'
  BY <1>1 DEF IInv, DeliveryWritten, CountsAreBehind
<1>4. AttemptsTellTheHistory'
  BY <1>1 DEF IInv, DeliveryWritten, AttemptsTellTheHistory
<1> QED BY <1>2, <1>3, <1>4

LEMMA InsertDeliveryInv ==
  ASSUME IInv, NEW w \in Handlers, InsertDelivery(w)
  PROVE  IInv'
<1>1. CASE ~endpoint
  BY <1>1, AnswerIsHarmless, HarmlessEstablishes DEF InsertDelivery
<1>2. CASE endpoint
  <2>1. DeliveryWritten
    BY <1>2, ReservedFinite, KeysFinite DEF InsertDelivery, DeliveryWritten, Delivery
  <2>2. Harmless(w)
    <3>1. ctx[w] \in Context /\ ctx[w].key \in Keys /\ Await(w, "request", ctx[w])
      BY <1>2, ContextOf DEF InsertDelivery, Goto, IInv, KeyGiven
    <3> QED BY <3>1, AwaitIsHarmless DEF IInv, CountsAreBehind, Steps
  <2>3. TypeOK' /\ NothingWithoutEndpoint' /\ CountsAreBehind' /\ KeySendsOnce' /\ AttemptsTellTheHistory'
    BY <1>2, <2>1, <2>2, DeliveryWrittenEstablishes DEF Harmless
  <2>4. UNCHANGED <<endpoint, attempt, sent>>
    BY DEF InsertDelivery
  <2> QED BY <2>2, <2>3, <2>4, HarmlessHolders DEF IInv
<1> QED BY <1>1, <1>2

LEMMA MarkPendingInv ==
  ASSUME IInv, NEW w \in Handlers, MarkPending(w)
  PROVE  IInv'
<1>1. CASE delivery = NoRow
  BY <1>1, AnswerIsHarmless, HarmlessEstablishes DEF MarkPending
<1>2. CASE delivery # NoRow
  <2>1. endpoint /\ UNCHANGED <<endpoint, attempt, sent>>
    BY <1>2 DEF MarkPending, IInv, NothingWithoutEndpoint
  <2>2. /\ ctx[w] \in Context /\ ctx[w].count <= Cardinality(Reserved)
        /\ ctx[w].sequence \in 0 .. Cardinality(Keys) /\ ctx[w].sequence <= Cardinality(Reserved)
    BY <2>1, ContextOf DEF IInv, CountsAreBehind
  <2>3. /\ pc' \in [Handlers -> Steps] /\ ctx' \in [Handlers -> Context]
        /\ pc[w] = "mark" /\ pc'[w] = "post" /\ ctx'[w] = ctx[w]
        /\ \A v \in Handlers \ {w} : pc'[v] = pc[v] /\ ctx'[v] = ctx[v]
    BY <1>2, <2>2, AwaitEffect DEF MarkPending, Goto, IInv, Steps
  <2>4. DeliveryWritten
    BY <1>2, <2>1, <2>2 DEF MarkPending, DeliveryWritten, Delivery
  <2>5. TypeOK' /\ NothingWithoutEndpoint' /\ CountsAreBehind' /\ KeySendsOnce' /\ AttemptsTellTheHistory'
    BY <2>2, <2>3, <2>4, DeliveryWrittenEstablishes
  <2>6. KeyGiven' /\ StatusKnown' /\ OneHolder'
    BY <2>3 DEF IInv, KeyGiven, StatusKnown, OneHolder, Holds
  <2>7. SentAfterReservation'
    BY <2>1, <2>3 DEF IInv, SentAfterReservation
  <2>8. HoldersWrote'
    BY <2>1, <2>3 DEF IInv, HoldersWrote, HolderWrote
  <2> QED BY <2>5, <2>6, <2>7, <2>8 DEF IInv
<1> QED BY <1>1, <1>2

(* The delivery takes the status that its holder has written in the        *)
(* attempt.                                                                *)
LEMMA CompleteDeliveryInv ==
  ASSUME IInv, NEW w \in Handlers, CompleteDelivery(w)
  PROVE  IInv'
<1>1. Harmless(w) /\ UNCHANGED <<endpoint, attempt, sent>>
  BY AnswerIsHarmless DEF CompleteDelivery
<1>2. CASE delivery = NoRow
  BY <1>1, <1>2, HarmlessEstablishes DEF CompleteDelivery
<1>3. CASE delivery # NoRow
  <2>1. endpoint /\ delivery \in Delivery /\ delivery.count <= Cardinality(Reserved)
    BY <1>3 DEF IInv, NothingWithoutEndpoint, TypeOK, CountsAreBehind
  <2>2. pc[w] = "delivery" /\ ctx[w].key \in Keys /\ ctx[w].status \in Outcomes
        /\ attempt[ctx[w].key].status = ctx[w].status
    BY <2>1 DEF CompleteDelivery, IInv, KeyGiven, StatusKnown, HoldersWrote, HolderWrote
  <2>3. delivery' = [delivery EXCEPT !.status = ctx[w].status]
    BY <1>3 DEF CompleteDelivery
  <2>4. delivery' \in Delivery /\ delivery'.count = delivery.count /\ delivery'.status = ctx[w].status
    BY <2>1, <2>2, <2>3 DEF Delivery
  <2>5. DeliveryWritten
    BY <1>1, <2>1, <2>2, <2>4 DEF DeliveryWritten
  <2>6. TypeOK' /\ NothingWithoutEndpoint' /\ CountsAreBehind' /\ KeySendsOnce' /\ AttemptsTellTheHistory'
    BY <1>1, <2>1, <2>5, DeliveryWrittenEstablishes DEF Harmless
  <2> QED BY <1>1, <2>6, HarmlessHolders DEF IInv
<1> QED BY <1>2, <1>3

-----------------------------------------------------------------------------
(* Writers of the attempt rows, the request itself and the deletion.       *)

LEMMA ReserveAttemptInv ==
  ASSUME IInv, NEW w \in Handlers, ReserveAttempt(w)
  PROVE  IInv'
<1> DEFINE k == ctx[w].key
           n == Cardinality(Reserved)
<1>1. CASE ~(delivery # NoRow /\ Unreserved(k))
  BY <1>1, AnswerIsHarmless, HarmlessEstablishes DEF ReserveAttempt
<1>2. CASE delivery # NoRow /\ Unreserved(k)
  <2>1. endpoint /\ attempt[k] = NoRow /\ UNCHANGED <<endpoint, delivery, sent>>
    BY <1>2 DEF ReserveAttempt, Unreserved, IInv, NothingWithoutEndpoint
  <2>2. k \in Keys /\ n \in Nat /\ NextSequence(w) = n + 1 /\ sent[k] = 0
    BY <2>1, NextNumber, ReservedFinite
    DEF ReserveAttempt, IInv, KeyGiven, SentAfterReservation
  <2>3. /\ Reserved \cup {k} \in SUBSET Keys /\ k \notin Reserved
        /\ Cardinality(Reserved \cup {k}) = n + 1
    BY <2>1, <2>2, ReservedFinite, FS_AddElement DEF Reserved
  <2>4. n + 1 <= Cardinality(Keys) /\ Cardinality(Keys) \in Nat
    BY <2>3, KeysFinite, FS_Subset
  <2>5. attempt' = [attempt EXCEPT ![k] = [status |-> "pending", sequence |-> n + 1]]
    BY <1>2, <2>2 DEF ReserveAttempt
  <2>6. /\ attempt \in [Keys -> Attempt \cup {NoRow}]
        /\ attempt' \in [Keys -> Attempt \cup {NoRow}]
        /\ attempt'[k] = [status |-> "pending", sequence |-> n + 1]
        /\ \A j \in Keys \ {k} : attempt'[j] = attempt[j]
    <3>1. attempt \in [Keys -> Attempt \cup {NoRow}]
      BY DEF IInv, TypeOK
    <3>2. [status |-> "pending", sequence |-> n + 1] \in Attempt
      BY <2>2, <2>4 DEF Attempt
    <3> HIDE DEF k, n
    <3> QED BY <2>2, <2>5, <3>1, <3>2
  <2> DEFINE c == [ctx[w] EXCEPT !.sequence = n + 1]
  <2>7. c \in Context /\ c.key = k /\ c.count = ctx[w].count /\ c.sequence = n + 1
    BY <2>2, <2>4, ContextOf DEF Context, IInv
  <2>8. Await(w, "mark", c)
    BY <1>2, <2>2 DEF ReserveAttempt
  <2>9. /\ pc' \in [Handlers -> Steps] /\ ctx' \in [Handlers -> Context]
        /\ pc'[w] = "mark" /\ ctx'[w] = c
        /\ \A v \in Handlers \ {w} : pc'[v] = pc[v] /\ ctx'[v] = ctx[v]
    <3> HIDE DEF c
    <3> QED BY <2>7, <2>8, AwaitEffect DEF IInv, Steps
  <2>10. Reserved' = Reserved \cup {k} /\ Cardinality(Reserved)' = n + 1
    <3>1. [status |-> "pending", sequence |-> n + 1] # NoRow
      BY DEF NoRow
    <3>2. Reserved' = Reserved \cup {k}
      <4> HIDE DEF k, n
      <4> QED BY <2>1, <2>2, <2>6, <3>1 DEF Reserved
    <3> QED BY <2>3, <3>2
  (* No other invocation holds the key: it has no row. *)
  <2>11. \A v \in Handlers \ {w} : ~Holds(v, k)
    <3>1. \A v \in Handlers : HolderWrote(v) /\ (pc[v] = "delivery" => ctx[v].status \in Outcomes)
      BY <2>1 DEF IInv, HoldersWrote, StatusKnown
    <3>2. attempt[k].status = "none"
      BY <2>1 DEF NoRow
    <3> HIDE DEF k
    <3> QED BY <3>1, <3>2 DEF HolderWrote, Holds, Outcomes
  <2> HIDE DEF k, n, c
  <2>12. TypeOK' /\ NothingWithoutEndpoint' /\ KeySendsOnce'
    BY <2>1, <2>6, <2>9 DEF IInv, TypeOK, NothingWithoutEndpoint, KeySendsOnce
  <2>13. KeyGiven' /\ StatusKnown'
    BY <2>2, <2>7, <2>9 DEF IInv, KeyGiven, StatusKnown
  <2>14. OneHolder'
    BY <2>7, <2>9, <2>11 DEF IInv, OneHolder, Holds
  <2>15. SentAfterReservation'
    BY <2>1, <2>2, <2>6, <2>7, <2>9 DEF IInv, SentAfterReservation, NoRow
  <2>16. HoldersWrote'
    <3>1. HolderWrote(w)'
      BY <2>6, <2>7, <2>9 DEF HolderWrote
    <3>2. ASSUME NEW v \in Handlers \ {w} PROVE HolderWrote(v)'
      <4>1. CASE pc[v] \in {"mark", "post", "attempt", "delivery"}
        <5>1. ctx[v].key \in Keys \ {k}
          BY <2>11, <4>1 DEF Holds, IInv, KeyGiven
        <5> QED BY <2>1, <2>6, <2>9, <5>1 DEF IInv, HoldersWrote, HolderWrote
      <4>2. CASE pc[v] \notin {"mark", "post", "attempt", "delivery"}
        BY <2>9, <4>2 DEF HolderWrote
      <4> QED BY <4>1, <4>2
    <3> QED BY <3>1, <3>2 DEF HoldersWrote
  <2>17. CountsAreBehind'
    <3>1. /\ \A v \in Handlers : /\ ctx[v].count \in Nat /\ ctx[v].sequence \in Nat
                                 /\ ctx[v].count <= n /\ ctx[v].sequence <= n
          /\ delivery.count \in Nat /\ delivery.count <= n
      BY <1>2, <2>1, <2>4, ContextOf DEF IInv, CountsAreBehind, TypeOK, Delivery, n
    <3> QED BY <2>1, <2>2, <2>7, <2>9, <2>10, <3>1 DEF CountsAreBehind
  <2>18. AttemptsTellTheHistory'
    <3>1. {attempt[j].sequence : j \in Reserved} = 1 .. n
      BY DEF IInv, AttemptsTellTheHistory, n
    <3>2. \A j \in Reserved : attempt'[j] = attempt[j]
      BY <2>3, <2>6
    <3>3. {attempt'[j].sequence : j \in Reserved'} = {attempt[j].sequence : j \in Reserved} \cup {n + 1}
      BY <2>6, <2>10, <3>2
    <3>4. {attempt'[j].sequence : j \in Reserved'} = 1 .. (n + 1)
      BY <2>2, <3>1, <3>3
    <3>5. delivery'.status = "delivered" => \E j \in Keys : attempt'[j].status = "delivered"
      <4> SUFFICES ASSUME delivery.status = "delivered"
                   PROVE  \E j \in Keys : attempt'[j].status = "delivered"
        BY <2>1
      <4>1. PICK j \in Keys : attempt[j].status = "delivered"
        BY DEF IInv, AttemptsTellTheHistory
      <4> QED BY <2>1, <2>6, <4>1 DEF NoRow
    <3> QED BY <2>10, <3>4, <3>5 DEF AttemptsTellTheHistory
  <2> QED BY <2>12, <2>13, <2>14, <2>15, <2>16, <2>17, <2>18 DEF IInv
<1> QED BY <1>1, <1>2

(* Who posts is the holder, and posts for the first time.                  *)
LEMMA PostInv ==
  ASSUME IInv, NEW w \in Handlers, NEW outcome \in Answers, Post(w, outcome)
  PROVE  IInv'
<1> DEFINE k == ctx[w].key
           c == [ctx[w] EXCEPT !.status = outcome]
<1>1. /\ UNCHANGED <<endpoint, delivery, attempt>> /\ pc[w] = "post"
      /\ k \in Keys /\ sent[k] = 0 /\ sent \in [Keys -> Nat]
      /\ sent' = [sent EXCEPT ![k] = @ + 1]
  BY DEF Post, IInv, KeyGiven, SentAfterReservation, TypeOK
<1>2. /\ c \in Context /\ c.key = k /\ c.count = ctx[w].count /\ c.sequence = ctx[w].sequence
      /\ c.status \in Outcomes
  BY ContextOf DEF Context, IInv, Answers
<1>3. Await(w, "attempt", c)
  BY DEF Post
<1> HIDE DEF c, k
<1>4. /\ pc' \in [Handlers -> Steps] /\ ctx' \in [Handlers -> Context]
      /\ pc'[w] = "attempt" /\ ctx'[w] = c
      /\ \A v \in Handlers \ {w} : pc'[v] = pc[v] /\ ctx'[v] = ctx[v]
  BY <1>2, <1>3, AwaitEffect DEF IInv, Steps
<1>5. sent' \in [Keys -> Nat] /\ sent'[k] = 1 /\ \A j \in Keys \ {k} : sent'[j] = sent[j]
  BY <1>1
<1>6. Reserved' = Reserved
  BY <1>1 DEF Reserved
<1>7. TypeOK' /\ NothingWithoutEndpoint' /\ AttemptsTellTheHistory'
  BY <1>1, <1>4, <1>5, <1>6 DEF IInv, TypeOK, NothingWithoutEndpoint, AttemptsTellTheHistory
<1>8. KeyGiven' /\ StatusKnown'
  BY <1>1, <1>2, <1>4 DEF IInv, KeyGiven, StatusKnown
<1>9. OneHolder'
  BY <1>1, <1>2, <1>4 DEF IInv, OneHolder, Holds, k
<1>10. SentAfterReservation'
  <2>1. ASSUME NEW v \in Handlers, pc'[v] \in {"mark", "post"} PROVE sent'[ctx'[v].key] = 0
    <3>1. v # w /\ pc[v] \in {"mark", "post"} /\ ctx'[v] = ctx[v] /\ ctx[v].key \in Keys
      BY <1>4, <2>1 DEF IInv, KeyGiven
    <3>2. ctx[v].key # k
      BY <1>1, <3>1 DEF IInv, OneHolder, Holds, k
    <3> QED BY <1>5, <3>1, <3>2 DEF IInv, SentAfterReservation
  <2>2. endpoint => attempt[k] # NoRow
    BY <1>1 DEF IInv, HoldersWrote, HolderWrote, NoRow, k
  <2>3. endpoint' => \A j \in Keys : attempt'[j] = NoRow => sent'[j] = 0
    BY <1>1, <1>5, <2>2 DEF IInv, SentAfterReservation
  <2> QED BY <2>1, <2>3 DEF SentAfterReservation
<1>11. HoldersWrote'
  <2>1. endpoint => HolderWrote(w)'
    BY <1>1, <1>2, <1>4 DEF IInv, HoldersWrote, HolderWrote, k
  <2>2. ASSUME NEW v \in Handlers \ {w}, endpoint PROVE HolderWrote(v)'
    BY <1>1, <1>4, <2>2 DEF IInv, HoldersWrote, HolderWrote
  <2> QED BY <1>1, <2>1, <2>2 DEF HoldersWrote
<1>12. CountsAreBehind'
  BY <1>1, <1>2, <1>4, <1>6 DEF IInv, CountsAreBehind
<1>13. KeySendsOnce'
  BY <1>5 DEF IInv, KeySendsOnce
<1> QED BY <1>7, <1>8, <1>9, <1>10, <1>11, <1>12, <1>13 DEF IInv

(* The holder writes the outcome; the attempt was pending, so no other     *)
(* delivered attempt is lost.                                              *)
LEMMA CompleteAttemptInv ==
  ASSUME IInv, NEW w \in Handlers, CompleteAttempt(w)
  PROVE  IInv'
<1> DEFINE k == ctx[w].key
<1>1. CASE attempt[k] = NoRow
  BY <1>1, AnswerIsHarmless, HarmlessEstablishes DEF CompleteAttempt
<1>2. CASE attempt[k] # NoRow
  <2>1. /\ pc[w] = "attempt" /\ k \in Keys /\ ctx[w].status \in Outcomes
        /\ UNCHANGED <<endpoint, delivery, sent>>
    BY DEF CompleteAttempt, IInv, KeyGiven, StatusKnown
  <2>2. endpoint /\ attempt[k].status = "pending"
    BY <1>2, <2>1 DEF IInv, NothingWithoutEndpoint, HoldersWrote, HolderWrote
  <2>3. attempt' = [attempt EXCEPT ![k] = [@ EXCEPT !.status = ctx[w].status]]
    BY <1>2 DEF CompleteAttempt
  <2>4. /\ pc' \in [Handlers -> Steps] /\ pc'[w] = "delivery" /\ ctx' = ctx
        /\ \A v \in Handlers \ {w} : pc'[v] = pc[v]
    <3>1. Await(w, "delivery", ctx[w]) /\ TypeOK /\ ctx[w] \in Context /\ ctx \in [Handlers -> Context]
      BY <1>2, ContextOf DEF CompleteAttempt, Goto, IInv, TypeOK
    <3> QED BY <3>1 DEF Await, TypeOK, Steps
  <2>5. attempt \in [Keys -> Attempt \cup {NoRow}] /\ attempt[k] \in Attempt
    BY <1>2, <2>1 DEF IInv, TypeOK
  <2> HIDE DEF k
  <2>6. /\ attempt' \in [Keys -> Attempt \cup {NoRow}] /\ attempt'[k] \in Attempt
        /\ attempt'[k].status = ctx[w].status /\ attempt'[k].sequence = attempt[k].sequence
        /\ \A j \in Keys \ {k} : attempt'[j] = attempt[j]
    <3> DEFINE a == [attempt[k] EXCEPT !.status = ctx[w].status]
    <3>1. a \in Attempt /\ a.status = ctx[w].status /\ a.sequence = attempt[k].sequence
      BY <2>1, <2>5 DEF Attempt
    <3>2. attempt' = [attempt EXCEPT ![k] = a]
      BY <2>3
    <3> HIDE DEF a
    <3> QED BY <2>1, <2>5, <3>1, <3>2
  <2>7. attempt'[k] # NoRow
    BY <2>1, <2>6 DEF NoRow, Outcomes
  <2>8. Reserved' = Reserved /\ \A j \in Keys : attempt'[j].sequence = attempt[j].sequence
    <3>1. \A j \in Keys : attempt'[j] = NoRow <=> attempt[j] = NoRow
      BY <1>2, <2>6, <2>7 DEF k
    <3> QED BY <2>6, <3>1 DEF Reserved
  <2>9. TypeOK' /\ NothingWithoutEndpoint' /\ KeySendsOnce'
    BY <2>1, <2>2, <2>4, <2>6 DEF IInv, TypeOK, NothingWithoutEndpoint, KeySendsOnce
  <2>10. KeyGiven' /\ StatusKnown'
    BY <2>1, <2>4 DEF IInv, KeyGiven, StatusKnown, k
  <2>11. OneHolder'
    BY <2>1, <2>4 DEF IInv, OneHolder, Holds
  <2>12. SentAfterReservation'
    BY <2>1, <2>4, <2>6, <2>7 DEF IInv, SentAfterReservation
  <2>13. HoldersWrote'
    <3>1. HolderWrote(w)'
      BY <2>4, <2>6 DEF HolderWrote, k
    <3>2. ASSUME NEW v \in Handlers \ {w} PROVE HolderWrote(v)'
      <4>1. CASE pc[v] \in {"mark", "post", "attempt", "delivery"}
        <5>1. ctx[v].key \in Keys \ {k}
          BY <2>1, <4>1 DEF IInv, OneHolder, Holds, KeyGiven, k
        <5> QED BY <2>2, <2>4, <2>6, <5>1 DEF IInv, HoldersWrote, HolderWrote
      <4>2. CASE pc[v] \notin {"mark", "post", "attempt", "delivery"}
        BY <2>4, <4>2 DEF HolderWrote
      <4> QED BY <4>1, <4>2
    <3> QED BY <3>1, <3>2 DEF HoldersWrote
  <2>14. CountsAreBehind'
    BY <2>1, <2>4, <2>8 DEF IInv, CountsAreBehind
  <2>15. AttemptsTellTheHistory'
    <3>1. {attempt'[j].sequence : j \in Reserved'} = {attempt[j].sequence : j \in Reserved}
      BY <2>8 DEF Reserved
    <3>2. delivery'.status = "delivered" => \E j \in Keys : attempt'[j].status = "delivered"
      BY <2>1, <2>2, <2>6 DEF IInv, AttemptsTellTheHistory
    <3> QED BY <2>8, <3>1, <3>2 DEF IInv, AttemptsTellTheHistory
  <2> QED BY <2>9, <2>10, <2>11, <2>12, <2>13, <2>14, <2>15 DEF IInv
<1> QED BY <1>1, <1>2

(* The deletion takes the rows; what was sent stays sent.                  *)
LEMMA DeleteEndpointInv ==
  ASSUME IInv, DeleteEndpoint
  PROVE  IInv'
<1>1. /\ ~endpoint' /\ delivery' = NoRow /\ attempt' = [k \in Keys |-> NoRow]
      /\ UNCHANGED <<sent, pc, ctx>>
  BY DEF DeleteEndpoint
<1>2. Reserved' = {} /\ Cardinality(Reserved') = 0
  BY <1>1, FS_EmptySet DEF Reserved
<1>3. AttemptsTellTheHistory'
  BY <1>1, <1>2 DEF AttemptsTellTheHistory, NoRow
<1>4. TypeOK'
  BY <1>1 DEF IInv, TypeOK, DeleteEndpoint
<1>5. NothingWithoutEndpoint' /\ HoldersWrote' /\ CountsAreBehind'
  BY <1>1 DEF NothingWithoutEndpoint, HoldersWrote, CountsAreBehind
<1>6. KeyGiven' /\ StatusKnown' /\ OneHolder' /\ SentAfterReservation' /\ KeySendsOnce'
  BY <1>1 DEF IInv, KeyGiven, StatusKnown, OneHolder, Holds, SentAfterReservation, KeySendsOnce
<1> QED BY <1>3, <1>4, <1>5, <1>6 DEF IInv

-----------------------------------------------------------------------------
LEMMA NextStep ==
  ASSUME IInv, Next
  PROVE  IInv'
<1>1. ASSUME NEW w \in Handlers, PublishBegin(w) \/ HandlerStep(w) \/ Abandon(w)
      PROVE  IInv'
  BY <1>1, ReadersInv, InsertDeliveryInv, ReserveAttemptInv, MarkPendingInv, PostInv,
     CompleteAttemptInv, CompleteDeliveryInv DEF HandlerStep
<1>2. ASSUME NEW w \in Handlers, NEW k \in Keys, RetryBegin(w, k)
      PROVE  IInv'
  BY <1>2, ReadersInv
<1> QED BY <1>1, <1>2, DeleteEndpointInv DEF Next

LEMMA StepEstablishes ==
  ASSUME IInv, [Next]_vars
  PROVE  IInv'
<1>1. CASE UNCHANGED vars
  BY <1>1 DEF vars, IInv, TypeOK, KeyGiven, NothingWithoutEndpoint, OneHolder, Holds,
     SentAfterReservation, HoldersWrote, HolderWrote, CountsAreBehind, Reserved, StatusKnown,
     KeySendsOnce, AttemptsTellTheHistory
<1> QED BY <1>1, NextStep

LEMMA Inductive == Spec => []IInv
<1>1. IInv /\ [Next]_vars => IInv'
  BY StepEstablishes
<1> QED BY InitEstablishes, <1>1, PTL DEF Spec

(* The rows and what an invocation carries stay in the types of the        *)
(* schema; in particular no attempt is numbered above the number of keys.  *)
THEOREM DeliveryTypeCorrect == Spec => []TypeOK
<1>1. IInv => TypeOK
  BY DEF IInv
<1> QED BY Inductive, <1>1, PTL

(* deliverWebhookRequestWithAttempt posts at most once under an            *)
(* idempotency key, however many invocations retry under it, die, or race  *)
(* with the deletion of the endpoint.                                      *)
THEOREM OnePostPerKey == Spec => []KeySendsOnce
<1>1. IInv => KeySendsOnce
  BY DEF IInv
<1> QED BY Inductive, <1>1, PTL

(* reserveAttempt numbers the attempts of a delivery without gap or        *)
(* duplicate, and a delivered delivery has its delivered attempt.          *)
THEOREM HistoryIsTold == Spec => []AttemptsTellTheHistory
<1>1. IInv => AttemptsTellTheHistory
  BY DEF IInv
<1> QED BY Inductive, <1>1, PTL
=============================================================================

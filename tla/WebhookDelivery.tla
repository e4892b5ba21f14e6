--------------------------- MODULE WebhookDelivery ---------------------------
(***************************************************************************)
(* One delivery of a webhook event and its attempts (usecases/webhooks.ts  *)
(* over adapters/repos/webhooks.ts): the initial attempt when the event is *)
(* published, attempts made by hand under an idempotency key, and the      *)
(* deletion of the endpoint, which cascades.  Deliveries do not touch each *)
(* other's rows, so one is enough.                                         *)
(*                                                                         *)
(* A handler is one invocation in flight, used again for later requests.   *)
(***************************************************************************)
EXTENDS Naturals, FiniteSets, FiniteSetsExt

CONSTANTS
  Handlers,   \* invocations that can be in flight at once
  Keys,       \* idempotency keys
  Initial,    \* the key of the attempt made when the event is published
  None

ASSUME KeyAssumption == Initial \in Keys /\ None \notin Keys /\ IsFiniteSet(Keys)

VARIABLES
  endpoint,   \* the webhook_endpoint row exists
  delivery,   \* the webhook_delivery_request row
  attempt,    \* webhook_delivery_attempt rows, by idempotency key
  sent,       \* how often the endpoint was posted to under a key
  pc, ctx     \* where a handler stands and what it has read

vars == <<endpoint, delivery, attempt, sent, pc, ctx>>

Outcomes == {"delivered", "failed"}
Delivery == [status : {"pending"} \cup Outcomes, count : 0 .. Cardinality(Keys)]
Attempt == [status : {"pending"} \cup Outcomes, sequence : 1 .. Cardinality(Keys)]
NoRow == [status |-> "none"]

Steps == {"idle", "p_insert", "m_key", "m_status", "request", "endpoint", "reserve",
          "mark", "post", "attempt", "delivery"}
Context == [key : Keys \cup {None}, status : {"none", "pending"} \cup Outcomes,
            count : 0 .. Cardinality(Keys), sequence : 0 .. Cardinality(Keys)]
NoContext == [key |-> None, status |-> "none", count |-> 0, sequence |-> 0]

TypeOK ==
  /\ endpoint \in BOOLEAN
  /\ delivery \in Delivery \cup {NoRow}
  /\ attempt \in [Keys -> Attempt \cup {NoRow}]
  /\ sent \in [Keys -> Nat]
  /\ pc \in [Handlers -> Steps]
  /\ ctx \in [Handlers -> Context]

Init ==
  /\ endpoint = TRUE
  /\ delivery = NoRow
  /\ attempt = [k \in Keys |-> NoRow]
  /\ sent = [k \in Keys |-> 0]
  /\ pc = [w \in Handlers |-> "idle"]
  /\ ctx = [w \in Handlers |-> NoContext]

-----------------------------------------------------------------------------
Reserved == {k \in Keys : attempt[k] # NoRow}
LastSequence == Max({attempt[k].sequence : k \in Reserved} \cup {0})

(* Mutant: numbered by the count read before the reservation.              *)
CountedSequence(w) == ctx[w].count + 1

(* The subselect of reserveAttempt.                                        *)
NextSequence(w) == Max({LastSequence, ctx[w].count}) + 1

(* Mutant: an attempt that did not complete is taken over by a retry.      *)
Unfinished(k) == attempt[k].status \in {"none", "pending"}

(* onConflictDoNothing on (requestId, idempotencyKey): a row is returned.  *)
Unreserved(k) == attempt[k] = NoRow

(* Mutant: the response's status is stored as the attempt's.               *)
HttpStatuses == {"delivered", "failed", "503"}

(* The answers of an endpoint: 2xx, or anything else and no answer at all. *)
Answers == Outcomes

Await(w, step, c) ==
  /\ pc' = [pc EXCEPT ![w] = step]
  /\ ctx' = [ctx EXCEPT ![w] = c]
Goto(w, step) == Await(w, step, ctx[w])
Answer(w) == Await(w, "idle", NoContext)

-----------------------------------------------------------------------------
(* publishWebhookEvent found the endpoint subscribed and inserts the       *)
(* delivery; the foreign key refuses it when the endpoint has gone.        *)
PublishBegin(w) ==
  /\ pc[w] = "idle" /\ endpoint /\ delivery = NoRow
  /\ \A v \in Handlers : pc[v] # "p_insert"
  /\ Await(w, "p_insert", [NoContext EXCEPT !.key = Initial])
  /\ UNCHANGED <<endpoint, delivery, attempt, sent>>

InsertDelivery(w) ==
  /\ pc[w] = "p_insert"
  /\ IF endpoint THEN /\ delivery' = [status |-> "pending", count |-> 0]
                      /\ Goto(w, "request")
                 ELSE Answer(w) /\ UNCHANGED delivery
  /\ UNCHANGED <<endpoint, attempt, sent>>

(* createWebhookDeliveryAttempt: the delivery, then an attempt under the   *)
(* key, which is answered as it stands; then the status first read.        *)
RetryBegin(w, k) ==
  /\ pc[w] = "idle" /\ delivery # NoRow
  /\ Await(w, "m_key", [NoContext EXCEPT !.key = k, !.status = delivery.status])
  /\ UNCHANGED <<endpoint, delivery, attempt, sent>>

FindByKey(w) ==
  /\ pc[w] = "m_key"
  /\ IF attempt[ctx[w].key] = NoRow /\ ctx[w].status # "delivered"
       THEN Goto(w, "request") ELSE Answer(w)
  /\ UNCHANGED <<endpoint, delivery, attempt, sent>>

(* deliverWebhookRequestWithAttempt reads the delivery and the endpoint.   *)
ReadDelivery(w) ==
  /\ pc[w] = "request"
  /\ IF delivery = NoRow THEN Answer(w)
     ELSE Await(w, "endpoint", [ctx[w] EXCEPT !.count = delivery.count])
  /\ UNCHANGED <<endpoint, delivery, attempt, sent>>

ReadEndpoint(w) ==
  /\ pc[w] = "endpoint"
  /\ IF endpoint THEN Goto(w, "reserve") ELSE Answer(w)
  /\ UNCHANGED <<endpoint, delivery, attempt, sent>>

(* reserveAttempt: whoever inserts the row under the key goes on.          *)
ReserveAttempt(w) ==
  LET k == ctx[w].key IN
  /\ pc[w] = "reserve"
  /\ IF delivery # NoRow /\ Unreserved(k)
       THEN /\ attempt' = [attempt EXCEPT ![k] = [status |-> "pending", sequence |-> NextSequence(w)]]
            /\ Await(w, "mark", [ctx[w] EXCEPT !.sequence = NextSequence(w)])
       ELSE Answer(w) /\ UNCHANGED attempt
  /\ UNCHANGED <<endpoint, delivery, sent>>

(* updateRequest and updateAttempt write by id; a row that has gone is an  *)
(* error.                                                                  *)
MarkPending(w) ==
  /\ pc[w] = "mark"
  /\ IF delivery = NoRow THEN Answer(w) /\ UNCHANGED delivery
     ELSE /\ delivery' = [status |-> "pending", count |-> ctx[w].sequence]
          /\ Goto(w, "post")
  /\ UNCHANGED <<endpoint, attempt, sent>>

(* The request is signed and posted; a failure to answer is an outcome too.*)
Post(w, outcome) ==
  /\ pc[w] = "post"
  /\ sent' = [sent EXCEPT ![ctx[w].key] = @ + 1]
  /\ Await(w, "attempt", [ctx[w] EXCEPT !.status = outcome])
  /\ UNCHANGED <<endpoint, delivery, attempt>>

CompleteAttempt(w) ==
  LET k == ctx[w].key IN
  /\ pc[w] = "attempt"
  /\ IF attempt[k] = NoRow THEN Answer(w) /\ UNCHANGED attempt
     ELSE /\ attempt' = [attempt EXCEPT ![k] = [@ EXCEPT !.status = ctx[w].status]]
          /\ Goto(w, "delivery")
  /\ UNCHANGED <<endpoint, delivery, sent>>

CompleteDelivery(w) ==
  /\ pc[w] = "delivery"
  /\ delivery' = IF delivery = NoRow THEN NoRow ELSE [delivery EXCEPT !.status = ctx[w].status]
  /\ Answer(w)
  /\ UNCHANGED <<endpoint, attempt, sent>>

-----------------------------------------------------------------------------
(* deleteWebhookEndpoint; deliveries and attempts cascade.                 *)
DeleteEndpoint ==
  /\ endpoint
  /\ endpoint' = FALSE
  /\ delivery' = NoRow
  /\ attempt' = [k \in Keys |-> NoRow]
  /\ UNCHANGED <<sent, pc, ctx>>

(* An invocation dies; nothing resumes it.                                 *)
Abandon(w) == pc[w] # "idle" /\ Answer(w) /\ UNCHANGED <<endpoint, delivery, attempt, sent>>

HandlerStep(w) ==
  \/ InsertDelivery(w) \/ FindByKey(w) \/ ReadDelivery(w) \/ ReadEndpoint(w)
  \/ ReserveAttempt(w) \/ MarkPending(w) \/ CompleteAttempt(w) \/ CompleteDelivery(w)
  \/ \E outcome \in Answers : Post(w, outcome)

Next ==
  \/ \E w \in Handlers : PublishBegin(w) \/ HandlerStep(w) \/ Abandon(w)
  \/ \E w \in Handlers, k \in Keys : RetryBegin(w, k)
  \/ DeleteEndpoint

Spec == Init /\ [][Next]_vars

-----------------------------------------------------------------------------
(* Properties.                                                             *)

(* docs/api/resource-api.md:185: "retrying a webhook attempt never sends   *)
(* the webhook twice", however many retries under one key race.            *)
KeySendsOnce == \A k \in Keys : sent[k] <= 1

(* The attempts are the delivery's history: they are numbered 1, 2, 3 ...  *)
(* without a gap or a duplicate, although each was numbered from a count   *)
(* read earlier, and a delivery is reported delivered only when one of     *)
(* them was, also when the invocation dies between its two writes.         *)
AttemptsTellTheHistory ==
  /\ {attempt[k].sequence : k \in Reserved} = 1 .. Cardinality(Reserved)
  /\ delivery.status = "delivered" => \E k \in Keys : attempt[k].status = "delivered"
=============================================================================

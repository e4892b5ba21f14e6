----------------------- MODULE ProviderCredentialProofs -----------------------
(***************************************************************************)
(* TLAPS proofs about ProviderCredential, for every set of handlers and    *)
(* grants, any number of rotations, and claims that lapse or do not.       *)
(***************************************************************************)
EXTENDS ProviderCredential, TLAPS

-----------------------------------------------------------------------------
(* The inductive invariant.                                                *)

Stored == cred.status # "none"
Spends(w) == pc[w] \in {"r_claim", "r_post"}
Stores(w) == pc[w] = "r_complete"

(* The two rows are created together and never deleted, and an invocation  *)
(* about to write a row by its id has seen it.                             *)
RowExists ==
  /\ auth = "none" <=> ~Stored
  /\ \A w \in Handlers : pc[w] \in {"r_authorization", "d_batch", "k_batch"} => auth # "none"

(* An invocation holds what its next step needs.                           *)
Held ==
  \A w \in Handlers :
    /\ pc[w] \in {"c_exchange", "c_read", "c_insert", "c_check", "c_upsert"} => ctx[w].grant \in Grants
    /\ Spends(w) \/ pc[w] = "d_post" => ctx[w].spent \in Token
    /\ Stores(w) => ctx[w].next \in Token

(* A callback in flight has consumed its intent.                           *)
IntentConsumed ==
  \A w \in Handlers : ctx[w].grant # None => intent[ctx[w].grant] = "completed"

(* Until its callback stores them, nobody has tokens of a grant.           *)
Unstored(g) == intent[g] = "pending" \/ \E w \in Handlers : ctx[w].grant = g
Unused(g) ==
  /\ Stored => cred.token.grant # g
  /\ \A w \in Handlers : /\ Spends(w) => ctx[w].spent.grant # g
                         /\ Stores(w) => ctx[w].next.grant # g
GrantsAreFresh == \A g \in Grants : Unstored(g) => Unused(g)

(* The provider never issued a token newer than its current one.           *)
Issued(t) == t.n <= provider[t.grant].current
TokensWereIssued ==
  /\ Stored => Issued(cred.token)
  /\ \A w \in Handlers : Stores(w) => Issued(ctx[w].next)

(* As long as an invocation has the claim, the row has nothing newer than  *)
(* what it is about to store.                                              *)
HolderIsNewer ==
  \A w \in Handlers :
    Stores(w) /\ Stored /\ cred.claim = w /\ cred.token.grant = ctx[w].next.grant
      => cred.token.n <= ctx[w].next.n

IInv ==
  /\ TypeOK
  /\ RowExists
  /\ Held
  /\ IntentConsumed
  /\ GrantsAreFresh
  /\ TokensWereIssued
  /\ HolderIsNewer
  /\ CallbackIsHonouredOnce
  /\ RevokedConnectionHasNoCredential

-----------------------------------------------------------------------------
LEMMA InitEstablishes == Init => IInv
<1> SUFFICES ASSUME Init PROVE IInv
  OBVIOUS
<1>1. NoContext \in Context /\ [live |-> FALSE, current |-> 0] \in Grant
  BY ConstantsAssumption DEF NoContext, Context, Grant
<1>2. TypeOK
  BY <1>1 DEF Init, TypeOK, Steps
<1>3. RowExists /\ Held /\ RevokedConnectionHasNoCredential
  BY DEF Init, RowExists, Stored, NoRow, Held, Spends, Stores, RevokedConnectionHasNoCredential
<1>4. IntentConsumed /\ CallbackIsHonouredOnce
  BY DEF Init, IntentConsumed, CallbackIsHonouredOnce, NoContext
<1>5. GrantsAreFresh /\ TokensWereIssued /\ HolderIsNewer
  BY DEF Init, GrantsAreFresh, Unused, TokensWereIssued, HolderIsNewer, Stored, NoRow, Spends, Stores
<1> QED BY <1>2, <1>3, <1>4, <1>5 DEF IInv

LEMMA AwaitEffect ==
  ASSUME TypeOK, NEW w \in Handlers, NEW step \in Steps, NEW c \in Context, Await(w, step, c)
  PROVE  /\ pc' \in [Handlers -> Steps] /\ ctx' \in [Handlers -> Context]
         /\ pc'[w] = step /\ ctx'[w] = c
         /\ \A v \in Handlers \ {w} : pc'[v] = pc[v] /\ ctx'[v] = ctx[v]
  BY DEF TypeOK, Await

LEMMA NoContextIsContext == NoContext \in Context
  BY DEF NoContext, Context

(* A row that is not missing is a credential.                              *)
LEMMA StoredIsCredential ==
  ASSUME TypeOK
  PROVE  /\ Stored => cred \in Credential /\ cred.token \in Token
         /\ Active => Stored
         /\ cred # NoRow <=> Stored
  BY DEF TypeOK, Stored, Active, NoRow, Credential

-----------------------------------------------------------------------------
(* The frame of every step that stores no tokens of another grant or       *)
(* rotation: what the row, the authorization and the provider may do, and  *)
(* what the handler that moved may take along.                             *)
Steady(w) ==
  /\ intent' \in [Grants -> {"pending", "completed", "cancelled"}]
  /\ \A g \in Grants : /\ intent'[g] = "completed" <=> intent[g] = "completed"
                       /\ intent'[g] = "pending" => intent[g] = "pending"
  /\ provider' \in [Grants -> Grant]
  /\ \A g \in Grants : provider'[g].current >= provider[g].current
  /\ auth' \in {"none", "active", "revoked"}
  /\ auth # "none" <=> auth' # "none"
  /\ cred' \in Credential \cup {NoRow}
  /\ Stored <=> Stored'
  /\ Stored => cred'.token = cred.token /\ cred'.claim \in {cred.claim, None, w}
  /\ deleted' \in BOOLEAN
  /\ auth' = "revoked" /\ Active' => deleted'

Carries(w, step, c) ==
  /\ step \in {"r_authorization", "d_batch", "k_batch"} => auth # "none"
  /\ step \in {"c_exchange", "c_read", "c_insert", "c_check", "c_upsert"} => c.grant \in Grants
  /\ step \in {"r_claim", "r_post", "d_post"} => c.spent \in Token
  /\ step = "r_complete" => c.next \in Token
  /\ c.grant \in {None, ctx[w].grant}
  /\ step \in {"r_claim", "r_post"} => ~Unstored(c.spent.grant)
  /\ step = "r_complete" =>
       /\ ~Unstored(c.next.grant)
       /\ c.next.n <= provider'[c.next.grant].current
       /\ Stored /\ cred.token.grant = c.next.grant => cred.token.n <= c.next.n

LEMMA SteadyStep ==
  ASSUME IInv, NEW w \in Handlers, NEW step \in Steps, NEW c \in Context,
         Await(w, step, c), Steady(w), Carries(w, step, c)
  PROVE  IInv'
<1>1. TypeOK
  BY DEF IInv
<1>2. /\ pc' \in [Handlers -> Steps] /\ ctx' \in [Handlers -> Context]
      /\ pc'[w] = step /\ ctx'[w] = c
      /\ \A v \in Handlers \ {w} : pc'[v] = pc[v] /\ ctx'[v] = ctx[v]
  BY <1>1, AwaitEffect
<1>3. TypeOK'
  BY <1>1, <1>2 DEF TypeOK, Steady
<1>4. RowExists'
  BY <1>2 DEF IInv, RowExists, Steady, Carries
<1>5. Held'
  BY <1>2 DEF IInv, Held, Carries, Spends, Stores
<1>6. \A v \in Handlers : ctx'[v].grant # None => ctx'[v].grant = ctx[v].grant
  BY <1>2 DEF Carries
<1>7. IntentConsumed' /\ CallbackIsHonouredOnce'
  <2>1. ASSUME NEW v \in Handlers, ctx'[v].grant # None
        PROVE  intent'[ctx'[v].grant] = "completed"
    <3>1. ctx'[v].grant \in Grants
      BY <1>2, <2>1 DEF Context
    <3> QED BY <1>6, <2>1, <3>1 DEF IInv, IntentConsumed, Steady
  <2> QED BY <1>6, <2>1 DEF IInv, IntentConsumed, CallbackIsHonouredOnce
<1>8. \A g \in Grants : Unstored(g)' => Unstored(g)
  BY <1>6, ConstantsAssumption DEF Unstored, Steady
<1>9. GrantsAreFresh'
  <2> SUFFICES ASSUME NEW g \in Grants, Unstored(g)' PROVE Unused(g)'
    BY DEF GrantsAreFresh
  <2>1. Unstored(g) /\ Unused(g)
    BY <1>8 DEF IInv, GrantsAreFresh
  <2>2. Stored' => cred'.token.grant # g
    BY <2>1 DEF Unused, Steady
  <2>3. ASSUME NEW v \in Handlers
        PROVE  /\ Spends(v)' => ctx'[v].spent.grant # g
               /\ Stores(v)' => ctx'[v].next.grant # g
    BY <1>2, <2>1 DEF Unused, Spends, Stores, Carries
  <2> QED BY <2>2, <2>3 DEF Unused
<1>10. ASSUME NEW t \in Token, Issued(t) PROVE Issued(t)'
  BY <1>1, <1>10, ConstantsAssumption DEF Issued, Steady, Token, TypeOK, Grant
<1>11. TokensWereIssued'
  <2>1. Stored' => Issued(cred.token)' 
    BY <1>1, <1>10, StoredIsCredential DEF IInv, TokensWereIssued, Steady, Issued
  <2>2. ASSUME NEW v \in Handlers, Stores(v)' PROVE Issued(ctx[v].next)'
    <3>1. CASE v = w
      BY <1>2, <2>2, <3>1 DEF Carries, Stores, Issued
    <3>2. CASE v # w
      <4>1. Stores(v) /\ ctx'[v] = ctx[v]
        BY <1>2, <2>2, <3>2 DEF Stores
      <4>2. ctx[v].next \in Token /\ Issued(ctx[v].next)
        BY <4>1 DEF IInv, Held, TokensWereIssued
      <4> QED BY <4>1, <4>2, <1>10 DEF Issued
    <3> QED BY <3>1, <3>2
  <2> QED BY <2>1, <2>2 DEF TokensWereIssued
<1>12. HolderIsNewer'
  <2> SUFFICES ASSUME NEW v \in Handlers, Stores(v)', Stored', cred'.claim = v,
                      cred'.token.grant = ctx'[v].next.grant
               PROVE  cred'.token.n <= ctx'[v].next.n
    BY DEF HolderIsNewer
  <2>1. Stored /\ cred'.token = cred.token
    BY DEF Steady
  <2>2. CASE v = w
    BY <1>2, <2>1, <2>2 DEF Carries, Stores
  <2>3. CASE v # w
    <3>1. Stores(v) /\ ctx'[v] = ctx[v] /\ cred.claim = v
      BY <1>2, <2>1, <2>3, ConstantsAssumption DEF Stores, Steady
    <3> QED BY <2>1, <3>1 DEF IInv, HolderIsNewer
  <2> QED BY <2>2, <2>3
<1>13. RevokedConnectionHasNoCredential'
  BY DEF Steady, RevokedConnectionHasNoCredential
<1> QED
  BY <1>3, <1>4, <1>5, <1>7, <1>9, <1>11, <1>12, <1>13 DEF IInv

-----------------------------------------------------------------------------
(* Steps that move one handler and change none of the rows.                *)
LEMMA QuietStep ==
  ASSUME IInv, NEW w \in Handlers, NEW step \in Steps, NEW c \in Context,
         Await(w, step, c), Carries(w, step, c), UNCHANGED <<intent, provider, auth, cred, deleted>>
  PROVE  IInv'
<1>1. TypeOK
  BY DEF IInv
<1>2. \A g \in Grants : provider[g].current >= provider[g].current
  BY <1>1, ConstantsAssumption DEF TypeOK, Grant
<1>3. Steady(w)
  BY <1>1, <1>2 DEF Steady, TypeOK, IInv, RowExists, RevokedConnectionHasNoCredential, Stored, Active
<1> QED BY <1>3, SteadyStep

LEMMA AnswerCarries ==
  ASSUME NEW w \in Handlers
  PROVE  "idle" \in Steps /\ NoContext \in Context /\ Carries(w, "idle", NoContext)
  BY NoContextIsContext DEF Steps, Carries, NoContext

LEMMA QuietAnswer ==
  ASSUME IInv, NEW w \in Handlers, Answer(w), UNCHANGED <<intent, provider, auth, cred, deleted>>
  PROVE  IInv'
  BY AnswerCarries, QuietStep DEF Answer

(* A handler that goes on with what it has: the next step must not need    *)
(* more than this one did.                                                 *)
LEMMA QuietGoto ==
  ASSUME IInv, NEW w \in Handlers, NEW step \in Steps, Goto(w, step),
         Carries(w, step, ctx[w]), UNCHANGED <<intent, provider, auth, cred, deleted>>
  PROVE  IInv'
<1>1. ctx[w] \in Context
  BY DEF IInv, TypeOK
<1> QED BY <1>1, QuietStep DEF Goto

LEMMA CheckResourceStep == ASSUME IInv, NEW w \in Handlers, CheckResource(w) PROVE IInv'
<1>1. ctx[w].grant \in Grants
  BY DEF IInv, Held, CheckResource
<1>2. "c_upsert" \in Steps /\ Carries(w, "c_upsert", ctx[w])
  BY <1>1 DEF Carries, Steps
<1>3. CASE deleted
  BY <1>3, QuietAnswer DEF CheckResource
<1>4. CASE ~deleted
  BY <1>2, <1>4, QuietGoto DEF CheckResource
<1> QED BY <1>3, <1>4

LEMMA DeleteBeginStep == ASSUME IInv, NEW w \in Handlers, DeleteBegin(w) PROVE IInv'
<1>1. "x_batch" \in Steps /\ Carries(w, "x_batch", NoContext)
  BY DEF Carries, Steps, NoContext
<1> QED BY <1>1, NoContextIsContext, QuietStep DEF DeleteBegin

LEMMA RefreshBeginStep == ASSUME IInv, NEW w \in Handlers, RefreshBegin(w) PROVE IInv'
<1> DEFINE c == [NoContext EXCEPT !.version = cred.version, !.spent = cred.token]
<1>1. TypeOK /\ Stored /\ cred \in Credential /\ cred.token \in Token
  BY StoredIsCredential DEF IInv, RefreshBegin
<1>2. c \in Context /\ c.spent = cred.token /\ c.grant = None
  BY <1>1 DEF NoContext, Context, Credential
<1>3. ~Unstored(cred.token.grant)
  BY <1>1 DEF IInv, GrantsAreFresh, Unused, Token
<1>4. "r_claim" \in Steps /\ Carries(w, "r_claim", c)
  BY <1>1, <1>2, <1>3 DEF Carries, Steps
<1>5. Await(w, "r_claim", c) /\ UNCHANGED <<intent, provider, auth, cred, deleted>>
  BY DEF RefreshBegin
<1> QED BY <1>2, <1>4, <1>5, QuietStep

LEMMA DisconnectBeginStep == ASSUME IInv, NEW w \in Handlers, DisconnectBegin(w) PROVE IInv'
<1>1. TypeOK
  BY DEF IInv
<1>2. CASE Active
  <2> DEFINE c == [NoContext EXCEPT !.spent = cred.token]
  <2>1. cred.token \in Token
    BY <1>1, <1>2, StoredIsCredential
  <2>2. c \in Context /\ c.spent = cred.token /\ c.grant = None
    BY <2>1 DEF NoContext, Context
  <2>3. "d_post" \in Steps /\ Carries(w, "d_post", c)
    BY <2>1, <2>2 DEF Carries, Steps
  <2>4. Await(w, "d_post", c) /\ UNCHANGED <<intent, provider, auth, cred, deleted>>
    BY <1>2 DEF DisconnectBegin
  <2> QED BY <2>2, <2>3, <2>4, QuietStep
<1>3. CASE ~Active
  <2>1. "d_read" \in Steps /\ Carries(w, "d_read", NoContext)
    BY DEF Carries, Steps, NoContext
  <2> QED BY <1>3, <2>1, NoContextIsContext, QuietStep DEF DisconnectBegin
<1> QED BY <1>2, <1>3

LEMMA ConnectorBeginStep == ASSUME IInv, NEW w \in Handlers, ConnectorBegin(w) PROVE IInv'
<1>1. "k_batch" \in Steps /\ Carries(w, "k_batch", NoContext)
  BY DEF Carries, Steps, NoContext, ConnectorBegin
<1> QED BY <1>1, NoContextIsContext, QuietStep DEF ConnectorBegin

LEMMA FindConnectionStep == ASSUME IInv, NEW w \in Handlers, FindConnection(w) PROVE IInv'
<1>1. ctx[w] \in Context /\ ctx[w].grant \in Grants
  BY DEF IInv, TypeOK, Held, FindConnection
<1>2. CASE ~deleted /\ auth = "none"
  <2>1. "c_insert" \in Steps /\ Carries(w, "c_insert", ctx[w])
    BY <1>1 DEF Carries, Steps
  <2> QED BY <1>2, <2>1, QuietGoto DEF FindConnection
<1>3. CASE ~deleted /\ auth # "none"
  <2> DEFINE c == [ctx[w] EXCEPT !.version = cred.version]
  <2>1. cred.version \in Nat
    BY <1>3, StoredIsCredential DEF IInv, RowExists, Credential
  <2>2. c \in Context /\ c.grant = ctx[w].grant
    BY <1>1, <2>1 DEF Context
  <2>3. "c_check" \in Steps /\ Carries(w, "c_check", c)
    BY <1>1, <2>2 DEF Carries, Steps
  <2>4. Await(w, "c_check", c) /\ UNCHANGED <<intent, provider, auth, cred, deleted>>
    BY <1>3 DEF FindConnection
  <2> QED BY <2>2, <2>3, <2>4, QuietStep
<1>4. CASE deleted
  BY <1>4, QuietAnswer DEF FindConnection
<1> QED BY <1>2, <1>3, <1>4

LEMMA PostFailedStep == ASSUME IInv, NEW w \in Handlers, PostFailed(w) PROVE IInv'
<1>1. "r_release" \in Steps /\ Carries(w, "r_release", ctx[w])
  BY DEF Carries, Steps
<1> QED BY <1>1, QuietGoto DEF PostFailed

LEMMA FindActiveStep == ASSUME IInv, NEW w \in Handlers, FindActive(w) PROVE IInv'
<1>1. CASE auth = "active"
  <2>1. "d_batch" \in Steps /\ Carries(w, "d_batch", ctx[w])
    BY <1>1 DEF Carries, Steps
  <2> QED BY <1>1, <2>1, QuietGoto DEF FindActive
<1>2. CASE auth # "active"
  BY <1>2, QuietAnswer DEF FindActive
<1> QED BY <1>1, <1>2

-----------------------------------------------------------------------------
(* Steps that change the row and keep its tokens.                          *)
LEMMA RowStep ==
  ASSUME IInv, NEW w \in Handlers, NEW step \in Steps, NEW c \in Context,
         Await(w, step, c), Carries(w, step, c), UNCHANGED <<intent, provider, deleted>>,
         auth # "none", auth' \in {auth, "revoked"},
         cred' \in Credential, cred'.token = cred.token, cred'.claim \in {cred.claim, None, w},
         auth' = "revoked" /\ Active' => deleted
  PROVE  IInv'
<1>1. TypeOK /\ Stored
  BY DEF IInv, RowExists
<1>2. \A g \in Grants : provider[g].current >= provider[g].current
  BY <1>1, ConstantsAssumption DEF TypeOK, Grant
<1>3. Stored'
  BY DEF Stored, Credential
<1>4. Steady(w)
  BY <1>1, <1>2, <1>3 DEF Steady, TypeOK
<1> QED BY <1>4, SteadyStep

LEMMA ClaimStep == ASSUME IInv, NEW w \in Handlers, Claim(w) PROVE IInv'
<1>1. CASE Claimable(w)
  <2>1. cred \in Credential /\ auth # "none" /\ Active
    BY <1>1, StoredIsCredential DEF IInv, RowExists, Claimable
  <2>2. /\ cred' = [cred EXCEPT !.claim = w, !.lapsed = FALSE]
        /\ Goto(w, "r_post") /\ UNCHANGED <<intent, provider, auth, deleted>> /\ pc[w] = "r_claim"
    BY <1>1 DEF Claim
  <2>3. cred' \in Credential /\ cred'.token = cred.token /\ cred'.claim = w
    BY <2>1, <2>2 DEF Credential
  <2>4. ctx[w] \in Context /\ ctx[w].spent \in Token /\ ~Unstored(ctx[w].spent.grant)
    BY <2>2 DEF IInv, TypeOK, Held, Spends, GrantsAreFresh, Unused, Token
  <2>5. "r_post" \in Steps /\ Carries(w, "r_post", ctx[w])
    BY <2>4 DEF Carries, Steps
  <2>6. auth = "revoked" => deleted
    BY <2>1 DEF IInv, RevokedConnectionHasNoCredential
  <2> QED BY <2>1, <2>2, <2>3, <2>4, <2>5, <2>6, RowStep DEF Goto
<1>2. CASE ~Claimable(w)
  BY <1>2, QuietAnswer DEF Claim
<1> QED BY <1>1, <1>2

LEMMA ReleaseRefreshStep == ASSUME IInv, NEW w \in Handlers, ReleaseRefresh(w) PROVE IInv'
<1>1. CASE Claimed(w)
  <2>1. cred \in Credential /\ auth # "none" /\ (auth = "revoked" => deleted)
    BY <1>1, StoredIsCredential
    DEF IInv, RowExists, Claimed, RevokedConnectionHasNoCredential
  <2>2. cred' = [cred EXCEPT !.claim = None, !.lapsed = FALSE]
    BY <1>1 DEF ReleaseRefresh
  <2>3. cred' \in Credential /\ cred'.token = cred.token /\ cred'.claim = None
    BY <2>1, <2>2 DEF Credential
  <2> QED BY <2>1, <2>3, AnswerCarries, RowStep DEF ReleaseRefresh, Answer
<1>2. CASE ~Claimed(w)
  BY <1>2, QuietAnswer DEF ReleaseRefresh
<1> QED BY <1>1, <1>2

LEMMA RevokeCredentialStep == ASSUME IInv, NEW w \in Handlers, RevokeCredential(w) PROVE IInv'
<1>1. CASE Active
  <2>1. cred \in Credential /\ auth # "none"
    BY <1>1, StoredIsCredential DEF IInv, RowExists
  <2>2. /\ cred' = [cred EXCEPT !.status = "revoked", !.claim = None, !.lapsed = FALSE]
        /\ Goto(w, "r_authorization") /\ UNCHANGED <<intent, provider, auth, deleted>>
    BY <1>1 DEF RevokeCredential
  <2>3. cred' \in Credential /\ cred'.token = cred.token /\ cred'.claim = None /\ ~Active'
    BY <2>1, <2>2 DEF Credential, Active
  <2>4. /\ ctx[w] \in Context /\ "r_authorization" \in Steps
        /\ Carries(w, "r_authorization", ctx[w])
    BY <2>1 DEF IInv, TypeOK, Carries, Steps
  <2> QED BY <2>1, <2>2, <2>3, <2>4, RowStep DEF Goto
<1>2. CASE ~Active
  BY <1>2, QuietAnswer DEF RevokeCredential
<1> QED BY <1>1, <1>2

LEMMA RevokeAuthorizationStep == ASSUME IInv, NEW w \in Handlers, RevokeAuthorization(w) PROVE IInv'
<1>1. auth # "none" /\ cred \in Credential
  BY StoredIsCredential DEF IInv, RowExists, RevokeAuthorization
<1>2. auth' \in {auth, "revoked"} /\ (auth' = "revoked" /\ Active' => deleted)
  BY DEF RevokeAuthorization, NothingActive, IInv, RevokedConnectionHasNoCredential, Active
<1> QED BY <1>1, <1>2, AnswerCarries, RowStep DEF RevokeAuthorization, Answer

LEMMA BatchStep ==
  ASSUME IInv, NEW w \in Handlers, DisconnectBatch(w) \/ ConnectorBatch(w) PROVE IInv'
<1>1. auth # "none" /\ cred \in Credential
  BY StoredIsCredential DEF IInv, RowExists, DisconnectBatch, ConnectorBatch
<1>2. cred' \in Credential /\ cred'.token = cred.token /\ cred'.claim \in {cred.claim, None}
  BY <1>1 DEF DisconnectBatch, ConnectorBatch, Credential
<1>3. auth' = "revoked" /\ ~Active'
  BY <1>1 DEF DisconnectBatch, ConnectorBatch, Active, Credential
<1> QED BY <1>1, <1>2, <1>3, AnswerCarries, RowStep DEF DisconnectBatch, ConnectorBatch, Answer

(* A deletion cancels intents that are pending, and no callback holds one. *)
LEMMA DeleteBatchStep == ASSUME IInv, NEW w \in Handlers, DeleteBatch(w) PROVE IInv'
<1>1. TypeOK /\ UNCHANGED <<provider, cred>>
  BY DEF IInv, DeleteBatch
<1>2. /\ intent' \in [Grants -> {"pending", "completed", "cancelled"}]
      /\ \A g \in Grants : /\ intent'[g] = "completed" <=> intent[g] = "completed"
                           /\ intent'[g] = "pending" => intent[g] = "pending"
  BY <1>1 DEF DeleteBatch, TypeOK
<1>3. /\ auth' \in {"none", "active", "revoked"} /\ (auth # "none" <=> auth' # "none")
      /\ deleted' = TRUE
  BY <1>1 DEF DeleteBatch, TypeOK
<1>4. \A g \in Grants : provider[g].current >= provider[g].current
  BY <1>1, ConstantsAssumption DEF TypeOK, Grant
<1>5. Steady(w)
  BY <1>1, <1>2, <1>3, <1>4 DEF Steady, TypeOK, Stored
<1> QED BY <1>5, AnswerCarries, SteadyStep DEF DeleteBatch, Answer

-----------------------------------------------------------------------------
(* Steps at the provider.                                                  *)
LEMMA ProviderStep ==
  ASSUME IInv, NEW w \in Handlers, NEW step \in Steps, NEW c \in Context,
         Await(w, step, c), Carries(w, step, c), UNCHANGED <<intent, auth, cred, deleted>>,
         provider' \in [Grants -> Grant],
         \A g \in Grants : provider'[g].current >= provider[g].current
  PROVE  IInv'
<1>1. Steady(w)
  BY DEF Steady, IInv, TypeOK, RowExists, RevokedConnectionHasNoCredential, Stored, Active
<1> QED BY <1>1, SteadyStep

(* What a refresh does at the provider, and what may be stored after it.   *)
LEMMA RefreshedEffect ==
  ASSUME IInv, NEW w \in Handlers, NEW n \in 0 .. MaxRotations, Refreshed(w, n),
         NEW g, g = ctx[w].spent.grant
  PROVE  /\ g \in Grants /\ ~Unstored(g)
         /\ provider' \in [Grants -> Grant]
         /\ \A h \in Grants : provider'[h].current >= provider[h].current
         /\ provider'[g].current = n
         /\ Stored /\ cred.token.grant = g => cred.token.n <= n
<1>1. /\ TypeOK /\ ctx[w].spent \in Token /\ g \in Grants
  BY DEF IInv, Held, Spends, Refreshed, Token
<1>2. ~Unstored(g)
  BY <1>1 DEF IInv, GrantsAreFresh, Unused, Refreshed, Spends
<1>3. /\ provider \in [Grants -> Grant] /\ provider[g].current \in 0 .. MaxRotations
      /\ provider[g].current = ctx[w].spent.n
      /\ n >= ctx[w].spent.n /\ ctx[w].spent.n \in Nat
  BY <1>1, ConstantsAssumption DEF TypeOK, Grant, Refreshed, Accepts, Token
<1>4. /\ provider'[g].current = n
      /\ \A h \in Grants : provider'[h].current >= provider[h].current
      /\ provider' \in [Grants -> Grant]
  BY <1>1, <1>3, ConstantsAssumption DEF Refreshed, Grant
<1>5. Stored /\ cred.token.grant = g => cred.token.n <= n
  BY <1>1, <1>3, StoredIsCredential, ConstantsAssumption DEF IInv, TokensWereIssued, Issued, Token
<1> QED BY <1>1, <1>2, <1>4, <1>5

LEMMA PostAnsweredStep == ASSUME IInv, NEW w \in Handlers, PostAnswered(w) PROVE IInv'
<1> DEFINE g == ctx[w].spent.grant
<1>1. PICK n \in 0 .. MaxRotations :
        /\ Refreshed(w, n)
        /\ Await(w, "r_complete", [ctx[w] EXCEPT !.next = [grant |-> g, n |-> n]])
  BY DEF PostAnswered
<1> DEFINE c == [ctx[w] EXCEPT !.next = [grant |-> g, n |-> n]]
<1>2. /\ g \in Grants /\ ~Unstored(g)
      /\ provider' \in [Grants -> Grant]
      /\ \A h \in Grants : provider'[h].current >= provider[h].current
      /\ provider'[g].current = n
      /\ Stored /\ cred.token.grant = g => cred.token.n <= n
  BY <1>1, RefreshedEffect
<1>3. [grant |-> g, n |-> n] \in Token /\ ctx[w] \in Context
  BY <1>2 DEF Token, IInv, TypeOK
<1>4. c \in Context /\ c.next = [grant |-> g, n |-> n] /\ c.grant = ctx[w].grant
  BY <1>3 DEF Context
<1>5. "r_complete" \in Steps /\ Carries(w, "r_complete", c)
  BY <1>2, <1>3, <1>4, ConstantsAssumption DEF Carries, Steps
<1>6. UNCHANGED <<intent, auth, cred, deleted>>
  BY <1>1 DEF Refreshed
<1> QED BY <1>1, <1>2, <1>4, <1>5, <1>6, ProviderStep

LEMMA PostLostStep == ASSUME IInv, NEW w \in Handlers, PostLost(w) PROVE IInv'
<1>1. PICK n \in 0 .. MaxRotations : Refreshed(w, n) /\ Goto(w, "r_release")
  BY DEF PostLost
<1>2. /\ provider' \in [Grants -> Grant]
      /\ \A h \in Grants : provider'[h].current >= provider[h].current
  BY <1>1, RefreshedEffect
<1>3. ctx[w] \in Context /\ "r_release" \in Steps /\ Carries(w, "r_release", ctx[w])
  BY DEF Carries, Steps, IInv, TypeOK
<1>4. UNCHANGED <<intent, auth, cred, deleted>>
  BY <1>1 DEF Refreshed
<1> QED BY <1>1, <1>2, <1>3, <1>4, ProviderStep DEF Goto

(* Ending a grant leaves the number of its current token.                  *)
LEMMA EndedEffect ==
  ASSUME IInv, NEW g \in Grants, NEW live \in BOOLEAN,
         provider' = [provider EXCEPT ![g].live = live] \/ provider' = provider
  PROVE  /\ provider' \in [Grants -> Grant]
         /\ \A h \in Grants : provider'[h].current >= provider[h].current
<1>1. provider \in [Grants -> Grant]
  BY DEF IInv, TypeOK
<1> QED BY <1>1, ConstantsAssumption DEF Grant

LEMMA PostRefusedStep == ASSUME IInv, NEW w \in Handlers, PostRefused(w) PROVE IInv'
<1>1. ctx[w] \in Context /\ ctx[w].spent \in Token /\ ctx[w].spent.grant \in Grants
  BY DEF IInv, TypeOK, Held, Spends, PostRefused, Token
<1>2. provider[ctx[w].spent.grant].live \in BOOLEAN
  BY <1>1 DEF IInv, TypeOK, Grant
<1>3. /\ provider' \in [Grants -> Grant]
      /\ \A h \in Grants : provider'[h].current >= provider[h].current
  BY <1>1, <1>2, EndedEffect DEF PostRefused
<1>4. "r_revoke" \in Steps /\ Carries(w, "r_revoke", ctx[w])
  BY DEF Carries, Steps
<1>5. Await(w, "r_revoke", ctx[w]) /\ UNCHANGED <<intent, auth, cred, deleted>>
  BY DEF PostRefused, Goto
<1> QED BY <1>1, <1>3, <1>4, <1>5, ProviderStep

LEMMA RevokeAtProviderStep == ASSUME IInv, NEW w \in Handlers, RevokeAtProvider(w) PROVE IInv'
<1>1. ctx[w] \in Context /\ ctx[w].spent \in Token /\ ctx[w].spent.grant \in Grants
  BY DEF IInv, TypeOK, Held, RevokeAtProvider, Token
<1>2. /\ provider' \in [Grants -> Grant]
      /\ \A h \in Grants : provider'[h].current >= provider[h].current
  BY <1>1, EndedEffect DEF RevokeAtProvider
<1>3. "d_read" \in Steps /\ Carries(w, "d_read", ctx[w])
  BY DEF Carries, Steps
<1>4. Await(w, "d_read", ctx[w]) /\ UNCHANGED <<intent, auth, cred, deleted>>
  BY DEF RevokeAtProvider, Goto
<1> QED BY <1>1, <1>2, <1>3, <1>4, ProviderStep

LEMMA ClaimLapsesStep == ASSUME IInv, ClaimLapses PROVE IInv'
<1>1. TypeOK /\ Stored /\ cred \in Credential
  BY StoredIsCredential DEF IInv, ClaimLapses
<1>2. /\ cred' \in Credential /\ cred'.token = cred.token /\ cred'.claim = cred.claim
      /\ cred'.status = cred.status
  BY <1>1 DEF ClaimLapses, Credential
<1>3. UNCHANGED <<intent, provider, auth, deleted, pc, ctx>>
  BY DEF ClaimLapses
<1>4. TypeOK' /\ RowExists' /\ RevokedConnectionHasNoCredential'
  BY <1>1, <1>2, <1>3
  DEF IInv, TypeOK, RowExists, RevokedConnectionHasNoCredential, Stored, Active
<1>5. Held' /\ IntentConsumed' /\ CallbackIsHonouredOnce'
  BY <1>3 DEF IInv, Held, IntentConsumed, CallbackIsHonouredOnce, Spends, Stores
<1>6. GrantsAreFresh'
  BY <1>1, <1>2, <1>3 DEF IInv, GrantsAreFresh, Unstored, Unused, Stored, Spends, Stores
<1>7. TokensWereIssued' /\ HolderIsNewer'
  BY <1>1, <1>2, <1>3 DEF IInv, TokensWereIssued, HolderIsNewer, Issued, Stored, Stores
<1> QED BY <1>4, <1>5, <1>6, <1>7 DEF IInv

-----------------------------------------------------------------------------
(* The row gets other tokens: those of a refresh, from the holder of the   *)
(* claim, or those of a new grant.                                         *)
LEMMA StoreStep ==
  ASSUME IInv, NEW w \in Handlers, Answer(w), UNCHANGED <<intent, provider, deleted>>,
         auth' \in {"active", "revoked"}, auth' = "revoked" => deleted,
         cred' \in Credential, Issued(cred'.token), cred'.claim = None,
         \A g \in Grants : (Unstored(g) /\ ctx[w].grant # g) => cred'.token.grant # g
  PROVE  IInv'
<1>1. TypeOK
  BY DEF IInv
<1>2. /\ pc' \in [Handlers -> Steps] /\ ctx' \in [Handlers -> Context]
      /\ pc'[w] = "idle" /\ ctx'[w] = NoContext
      /\ \A v \in Handlers \ {w} : pc'[v] = pc[v] /\ ctx'[v] = ctx[v]
  BY <1>1, NoContextIsContext, AwaitEffect DEF Answer, Steps
<1>3. TypeOK' /\ Stored'
  BY <1>1, <1>2 DEF TypeOK, Stored, Credential
<1>4. RowExists' /\ Held'
  BY <1>2, <1>3 DEF IInv, RowExists, Held, Spends, Stores
<1>5. \A v \in Handlers : ctx'[v].grant # None => v # w /\ ctx'[v].grant = ctx[v].grant
  BY <1>2 DEF NoContext
<1>6. IntentConsumed' /\ CallbackIsHonouredOnce'
  BY <1>5 DEF IInv, IntentConsumed, CallbackIsHonouredOnce
<1>7. ASSUME NEW g \in Grants, Unstored(g)' PROVE Unstored(g) /\ ctx[w].grant # g
  <2>1. CASE intent[g] = "pending"
    BY <2>1, ConstantsAssumption DEF Unstored, IInv, IntentConsumed
  <2>2. CASE \E v \in Handlers : ctx'[v].grant = g
    <3>1. PICK v \in Handlers : ctx'[v].grant = g
      BY <2>2
    <3>2. v # w /\ ctx[v].grant = g /\ g # None
      BY <1>5, <3>1, ConstantsAssumption
    <3> QED BY <3>2 DEF Unstored, IInv, CallbackIsHonouredOnce
  <2> QED BY <1>7, <2>1, <2>2 DEF Unstored
<1>8. GrantsAreFresh'
  BY <1>2, <1>7 DEF IInv, GrantsAreFresh, Unused, Spends, Stores
<1>9. TokensWereIssued'
  BY <1>2 DEF IInv, TokensWereIssued, Issued, Stores
<1>10. HolderIsNewer' /\ RevokedConnectionHasNoCredential'
  BY ConstantsAssumption DEF HolderIsNewer, RevokedConnectionHasNoCredential
<1> QED BY <1>3, <1>4, <1>6, <1>8, <1>9, <1>10 DEF IInv

LEMMA CompleteRefreshStep == ASSUME IInv, NEW w \in Handlers, CompleteRefresh(w) PROVE IInv'
<1>1. CASE Claimed(w)
  <2>1. /\ cred \in Credential /\ ctx[w] \in Context /\ ctx[w].next \in Token
        /\ auth # "none" /\ (auth = "revoked" => deleted) /\ auth \in {"none", "active", "revoked"}
    BY <1>1, StoredIsCredential
    DEF IInv, TypeOK, Held, Stores, RowExists, RevokedConnectionHasNoCredential, Claimed,
        CompleteRefresh
  <2>2. cred' = [cred EXCEPT !.token = ctx[w].next, !.version = ctx[w].version + 1,
                             !.claim = None, !.lapsed = FALSE]
    BY <1>1 DEF CompleteRefresh
  <2>3. ctx[w].version + 1 \in Nat
    BY <2>1 DEF Context
  <2>4. cred' \in Credential /\ cred'.token = ctx[w].next /\ cred'.claim = None
    BY <2>1, <2>2, <2>3 DEF Credential
  <2>5. Issued(ctx[w].next) /\ \A g \in Grants : Unstored(g) => ctx[w].next.grant # g
    BY DEF IInv, TokensWereIssued, GrantsAreFresh, Unused, Stores, CompleteRefresh
  <2>6. auth' = auth /\ Answer(w) /\ UNCHANGED <<intent, provider, deleted>>
    BY <1>1, <2>1 DEF CompleteRefresh
  <2>7. auth' \in {"active", "revoked"} /\ (auth' = "revoked" => deleted)
    BY <2>1, <2>6
  <2> QED BY <2>4, <2>5, <2>6, <2>7, StoreStep
<1>2. CASE ~Claimed(w)
  <2>1. "r_release" \in Steps /\ Carries(w, "r_release", ctx[w])
    BY DEF Carries, Steps
  <2> QED BY <1>2, <2>1, QuietGoto DEF CompleteRefresh
<1> QED BY <1>1, <1>2

(* Only the callback itself has the grant whose first tokens it stores.    *)
LEMMA ConnectedStep ==
  ASSUME IInv, NEW w \in Handlers, pc[w] \in {"c_insert", "c_upsert"}, NEW version \in Nat,
         Answer(w), UNCHANGED <<intent, provider, deleted>>, auth' = "active",
         cred' = Connected(w, version)
  PROVE  IInv'
<1>1. ctx[w].grant \in Grants /\ provider[ctx[w].grant].current \in 0 .. MaxRotations
  BY DEF IInv, TypeOK, Held, Grant
<1>2. /\ cred' \in Credential /\ cred'.claim = None
      /\ cred'.token = [grant |-> ctx[w].grant, n |-> 0]
  BY <1>1, ConstantsAssumption DEF Connected, Credential, Token
<1>3. Issued(cred'.token)
  BY <1>1, <1>2, ConstantsAssumption DEF Issued
<1> QED BY <1>2, <1>3, StoreStep

LEMMA CreateAuthorizationStep ==
  ASSUME IInv, NEW w \in Handlers, CreateAuthorization(w) PROVE IInv'
<1>1. CASE auth = "none" /\ ~deleted
  BY <1>1, ConnectedStep DEF CreateAuthorization
<1>2. CASE ~(auth = "none" /\ ~deleted)
  BY <1>2, QuietAnswer DEF CreateAuthorization
<1> QED BY <1>1, <1>2

LEMMA UpsertCredentialStep == ASSUME IInv, NEW w \in Handlers, UpsertCredential(w) PROVE IInv'
<1>1. ctx[w].version + 1 \in Nat
  BY DEF IInv, TypeOK, Context
<1> QED BY <1>1, ConnectedStep DEF UpsertCredential

LEMMA ConsumeIntentStep ==
  ASSUME IInv, NEW w \in Handlers, NEW g \in Grants, ConsumeIntent(w, g) PROVE IInv'
<1> DEFINE c == [NoContext EXCEPT !.grant = g]
<1>1. TypeOK /\ Unstored(g) /\ intent[g] = "pending"
  BY DEF IInv, ConsumeIntent, Consumable, Unstored
<1>2. c \in Context /\ c.grant = g
  BY DEF NoContext, Context
<1>3. /\ pc' \in [Handlers -> Steps] /\ ctx' \in [Handlers -> Context]
      /\ pc'[w] = "c_exchange" /\ ctx'[w].grant = g
      /\ \A v \in Handlers \ {w} : pc'[v] = pc[v] /\ ctx'[v] = ctx[v]
  <2>1. Await(w, "c_exchange", c) /\ "c_exchange" \in Steps
    BY DEF ConsumeIntent, Steps
  <2> HIDE DEF c
  <2> QED BY <1>1, <1>2, <2>1, AwaitEffect
<1>4. /\ UNCHANGED <<provider, auth, cred, deleted>>
      /\ intent' \in [Grants -> {"pending", "completed", "cancelled"}]
      /\ intent'[g] = "completed" /\ \A h \in Grants \ {g} : intent'[h] = intent[h]
  BY <1>1 DEF ConsumeIntent, TypeOK
<1>5. TypeOK' /\ RevokedConnectionHasNoCredential'
  BY <1>1, <1>3, <1>4 DEF IInv, TypeOK, RevokedConnectionHasNoCredential, Active
<1>6. RowExists' /\ Held'
  BY <1>3, <1>4 DEF IInv, RowExists, Held, Stored, Spends, Stores
<1>7. \A v \in Handlers \ {w} : ctx[v].grant # g
  BY <1>1, ConstantsAssumption DEF IInv, IntentConsumed
<1>8. IntentConsumed'
  <2> SUFFICES ASSUME NEW v \in Handlers, ctx'[v].grant # None
               PROVE  intent'[ctx'[v].grant] = "completed"
    BY DEF IntentConsumed
  <2>1. ctx'[v].grant \in Grants
    BY <1>3 DEF Context
  <2> QED BY <1>3, <1>4, <1>7, <2>1 DEF IInv, IntentConsumed
<1>9. CallbackIsHonouredOnce'
  BY <1>3, <1>7 DEF IInv, CallbackIsHonouredOnce
<1>10. GrantsAreFresh'
  <2>1. \A h \in Grants : Unstored(h)' => Unstored(h)
    BY <1>1, <1>3, <1>4 DEF Unstored
  <2> QED BY <1>3, <1>4, <2>1 DEF IInv, GrantsAreFresh, Unused, Stored, Spends, Stores
<1>11. TokensWereIssued' /\ HolderIsNewer'
  BY <1>3, <1>4 DEF IInv, TokensWereIssued, HolderIsNewer, Issued, Stored, Stores
<1> QED BY <1>5, <1>6, <1>8, <1>9, <1>10, <1>11 DEF IInv

LEMMA ExchangeCodeStep == ASSUME IInv, NEW w \in Handlers, ExchangeCode(w) PROVE IInv'
<1> DEFINE g == ctx[w].grant
<1>1. TypeOK /\ ctx[w] \in Context /\ g \in Grants /\ Unused(g)
  BY DEF IInv, TypeOK, Held, GrantsAreFresh, Unstored, ExchangeCode
<1>2. /\ pc' \in [Handlers -> Steps] /\ ctx' \in [Handlers -> Context]
      /\ pc'[w] = "c_read" /\ \A v \in Handlers : ctx'[v] = ctx[v]
      /\ \A v \in Handlers \ {w} : pc'[v] = pc[v]
  <2>1. Await(w, "c_read", ctx[w]) /\ "c_read" \in Steps
    BY DEF ExchangeCode, Goto, Steps
  <2> QED BY <1>1, <2>1, AwaitEffect
<1>3. /\ UNCHANGED <<intent, auth, cred, deleted>>
      /\ provider' \in [Grants -> Grant]
      /\ \A h \in Grants \ {g} : provider'[h] = provider[h]
  BY <1>1, ConstantsAssumption DEF ExchangeCode, TypeOK, Grant
<1>4. TypeOK' /\ RevokedConnectionHasNoCredential'
  BY <1>1, <1>2, <1>3 DEF IInv, TypeOK, RevokedConnectionHasNoCredential, Active
<1>5. RowExists' /\ Held' /\ IntentConsumed' /\ CallbackIsHonouredOnce'
  BY <1>1, <1>2, <1>3
  DEF IInv, RowExists, Held, IntentConsumed, CallbackIsHonouredOnce, Stored, Spends, Stores
<1>6. GrantsAreFresh'
  BY <1>2, <1>3 DEF IInv, GrantsAreFresh, Unstored, Unused, Stored, Spends, Stores
<1>7. TokensWereIssued'
  <2>1. ASSUME NEW t \in Token, Issued(t), t.grant # g PROVE Issued(t)'
    BY <1>3, <2>1 DEF Issued, Token
  <2>2. Stored' => Issued(cred.token)'
    BY <1>1, <1>3, <2>1, StoredIsCredential DEF IInv, TokensWereIssued, Unused, Stored, Issued
  <2>3. ASSUME NEW v \in Handlers, Stores(v)' PROVE Issued(ctx[v].next)'
    <3>1. Stores(v) /\ ctx'[v] = ctx[v]
      BY <1>2, <2>3 DEF Stores
    <3>2. ctx[v].next \in Token /\ Issued(ctx[v].next) /\ ctx[v].next.grant # g
      BY <1>1, <3>1 DEF IInv, Held, TokensWereIssued, Unused
    <3> QED BY <2>1, <3>1, <3>2 DEF Issued
  <2> QED BY <2>2, <2>3 DEF TokensWereIssued
<1>8. HolderIsNewer'
  BY <1>2, <1>3 DEF IInv, HolderIsNewer, Stored, Stores
<1> QED BY <1>4, <1>5, <1>6, <1>7, <1>8 DEF IInv

-----------------------------------------------------------------------------
LEMMA HandlerStepPreserves ==
  ASSUME IInv, NEW w \in Handlers, HandlerStep(w) \/ Abandon(w) PROVE IInv'
<1>1. CASE Abandon(w)
  BY <1>1, QuietAnswer DEF Abandon
<1>2. CASE HandlerStep(w)
  BY <1>2, ExchangeCodeStep, FindConnectionStep, CreateAuthorizationStep, CheckResourceStep,
     UpsertCredentialStep, DeleteBatchStep,
     ClaimStep, PostAnsweredStep, PostLostStep, PostFailedStep, PostRefusedStep,
     CompleteRefreshStep, ReleaseRefreshStep, RevokeCredentialStep, RevokeAuthorizationStep,
     RevokeAtProviderStep, FindActiveStep, BatchStep
  DEF HandlerStep
<1> QED BY <1>1, <1>2

LEMMA StutterPreserves == IInv /\ UNCHANGED vars => IInv'
  BY DEF IInv, vars, TypeOK, RowExists, Held, IntentConsumed, GrantsAreFresh, Unstored, Unused,
         TokensWereIssued, Issued, HolderIsNewer, CallbackIsHonouredOnce,
         RevokedConnectionHasNoCredential, Active, Stored, Spends, Stores

LEMMA StepPreserves == IInv /\ [Next]_vars => IInv'
<1> SUFFICES ASSUME IInv, [Next]_vars PROVE IInv'
  OBVIOUS
<1>1. ASSUME NEW w \in Handlers, NEW g \in Grants, ConsumeIntent(w, g) PROVE IInv'
  BY <1>1, ConsumeIntentStep
<1>2. ASSUME NEW w \in Handlers,
             RefreshBegin(w) \/ DisconnectBegin(w) \/ ConnectorBegin(w) \/ DeleteBegin(w)
      PROVE  IInv'
  BY <1>2, RefreshBeginStep, DisconnectBeginStep, ConnectorBeginStep, DeleteBeginStep
<1>3. ASSUME NEW w \in Handlers, HandlerStep(w) \/ Abandon(w) PROVE IInv'
  BY <1>3, HandlerStepPreserves
<1>4. CASE ClaimLapses
  BY <1>4, ClaimLapsesStep
<1>5. CASE UNCHANGED vars
  BY <1>5, StutterPreserves
<1> QED BY <1>1, <1>2, <1>3, <1>4, <1>5 DEF Next

(* IInv is inductive.                                                      *)
THEOREM InductiveInvariant == Spec => []IInv
  BY InitEstablishes, StepPreserves, PTL DEF Spec

-----------------------------------------------------------------------------
(* Every reachable state is well typed: no row is written from a read that *)
(* found none.                                                             *)
THEOREM CredentialTypeCorrect == Spec => []TypeOK
<1>1. IInv => TypeOK
  BY DEF IInv
<1> QED BY <1>1, InductiveInvariant, PTL

(* The two statements of an invalid_grant and everybody else's between     *)
(* them never leave a revoked connection with a credential in use: one     *)
(* that has it was revoked by the deletion of its Resource Server.         *)
THEOREM RevokedLeavesNoCredential == Spec => []RevokedConnectionHasNoCredential
<1>1. IInv => RevokedConnectionHasNoCredential
  BY DEF IInv
<1> QED BY <1>1, InductiveInvariant, PTL

(* No two invocations handle the callback of one authorization.            *)
THEOREM CallbackHonouredOnce == Spec => []CallbackIsHonouredOnce
<1>1. IInv => CallbackIsHonouredOnce
  BY DEF IInv
<1> QED BY <1>1, InductiveInvariant, PTL

-----------------------------------------------------------------------------
(* The tokens of an existing row change by a callback's upsert or by the   *)
(* refresh that has the claim.                                             *)
Restored(w) == UpsertCredential(w) \/ (CompleteRefresh(w) /\ Claimed(w))

LEMMA TokensChange ==
  ASSUME IInv, [Next]_vars, Stored
  PROVE  cred'.token = cred.token \/ \E w \in Handlers : Restored(w)
<1>1. cred \in Credential /\ auth # "none"
  BY StoredIsCredential DEF IInv, RowExists
<1>2. ASSUME NEW w \in Handlers, HandlerStep(w)
      PROVE  cred'.token = cred.token \/ Restored(w)
  <2>1. CASE Claim(w) \/ RevokeCredential(w) \/ ReleaseRefresh(w)
    BY <1>1, <2>1 DEF Claim, RevokeCredential, ReleaseRefresh, Credential
  <2>2. CASE DisconnectBatch(w) \/ ConnectorBatch(w)
    BY <1>1, <2>2 DEF DisconnectBatch, ConnectorBatch, Credential
  <2>3. CASE CompleteRefresh(w)
    BY <2>3 DEF CompleteRefresh, Restored
  <2>4. CASE UpsertCredential(w)
    BY <2>4 DEF Restored
  <2>5. CASE CreateAuthorization(w)
    BY <1>1, <2>5 DEF CreateAuthorization
  <2>6. CASE ExchangeCode(w) \/ FindConnection(w) \/ CheckResource(w) \/ DeleteBatch(w)
               \/ PostFailed(w) \/ PostRefused(w) \/ RevokeAuthorization(w)
               \/ RevokeAtProvider(w) \/ FindActive(w)
    BY <2>6
    DEF ExchangeCode, FindConnection, CheckResource, DeleteBatch, PostFailed, PostRefused,
        RevokeAuthorization, RevokeAtProvider, FindActive
  <2>7. CASE PostAnswered(w) \/ PostLost(w)
    BY <2>7 DEF PostAnswered, PostLost, Refreshed
  <2> QED BY <1>2, <2>1, <2>2, <2>3, <2>4, <2>5, <2>6, <2>7 DEF HandlerStep
<1>3. ASSUME NEW w \in Handlers,
             \/ \E g \in Grants : ConsumeIntent(w, g)
             \/ RefreshBegin(w) \/ DisconnectBegin(w) \/ ConnectorBegin(w) \/ DeleteBegin(w)
             \/ Abandon(w)
      PROVE  UNCHANGED cred
  BY <1>3 DEF ConsumeIntent, RefreshBegin, DisconnectBegin, ConnectorBegin, DeleteBegin, Abandon
<1>4. CASE ClaimLapses
  BY <1>1, <1>4 DEF ClaimLapses, Credential
<1>5. CASE UNCHANGED vars
  BY <1>5 DEF vars
<1> QED BY <1>2, <1>3, <1>4, <1>5 DEF Next

(* A callback stores tokens of a grant the row never had; a refresh that   *)
(* still has the claim stores nothing older than the row.                  *)
LEMMA RotationStep ==
  ASSUME IInv, [Next]_vars, cred # NoRow, cred'.token.grant = cred.token.grant
  PROVE  cred'.token.n >= cred.token.n
<1>1. TypeOK /\ Stored /\ cred \in Credential /\ cred.token \in Token
  BY StoredIsCredential DEF IInv
<1>2. cred.token.n \in Nat
  BY <1>1, ConstantsAssumption DEF Token
<1>3. CASE cred'.token = cred.token
  BY <1>2, <1>3
<1>4. ASSUME NEW w \in Handlers, UpsertCredential(w) PROVE FALSE
  <2>1. ctx[w].grant \in Grants /\ cred.token.grant # ctx[w].grant
    BY <1>1, <1>4 DEF IInv, Held, GrantsAreFresh, Unstored, Unused, UpsertCredential
  <2>2. cred'.token.grant = ctx[w].grant
    BY <1>4 DEF UpsertCredential, Connected
  <2> QED BY <2>1, <2>2
<1>5. ASSUME NEW w \in Handlers, CompleteRefresh(w), Claimed(w)
      PROVE  cred'.token.n >= cred.token.n
  <2>1. cred'.token = ctx[w].next
    BY <1>1, <1>5 DEF CompleteRefresh, Credential
  <2>2. ctx[w].next \in Token /\ cred.token.n <= ctx[w].next.n
    BY <1>1, <1>5, <2>1 DEF IInv, Held, HolderIsNewer, Stores, CompleteRefresh, Claimed
  <2>3. ctx[w].next.n \in Nat
    BY <2>2, ConstantsAssumption DEF Token
  <2> QED BY <1>2, <2>1, <2>2, <2>3
<1> QED BY <1>1, <1>3, <1>4, <1>5, TokensChange DEF Restored

(* A refresh token that was replaced never returns over its successor,     *)
(* also when claims lapse under running holders.                           *)
THEOREM RotationIsKept == Spec => RotationIsNotLost
<1>1. IInv /\ [Next]_vars =>
        [cred # NoRow /\ cred'.token.grant = cred.token.grant => cred'.token.n >= cred.token.n]_vars
  BY RotationStep
<1> QED BY <1>1, InductiveInvariant, PTL DEF Spec, RotationIsNotLost

(* No late answer writes to a revoked credential.                          *)
THEOREM RevokedStaysSettled == Spec => RevokedCredentialIsSettled
<1>1. IInv /\ [Next]_vars =>
        [cred.status = "revoked" /\ cred'.status = "revoked" => cred'.token = cred.token]_vars
  <2> SUFFICES ASSUME IInv, [Next]_vars, cred.status = "revoked", cred'.status = "revoked"
               PROVE  cred'.token = cred.token
    OBVIOUS
  <2>1. ASSUME NEW w \in Handlers PROVE ~Restored(w)
    BY DEF Restored, UpsertCredential, Connected, Claimed, Active
  <2> QED BY <2>1, TokensChange DEF Stored
<1> QED BY <1>1, InductiveInvariant, PTL DEF Spec, RevokedCredentialIsSettled
=============================================================================

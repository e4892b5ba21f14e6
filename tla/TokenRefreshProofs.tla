-------------------------- MODULE TokenRefreshProofs --------------------------
(***************************************************************************)
(* TLAPS proofs about TokenRefresh, for every set of requests, clients,    *)
(* credentials and resources.                                              *)
(***************************************************************************)
EXTENDS TokenRefresh, TLAPS

-----------------------------------------------------------------------------
(* The inductive invariant.                                                *)

(* What a request carries while it stands at an await.                     *)
ExchangeContext ==
  \A r \in Requests : pc[r] \in ExchangeSteps =>
    /\ ctx[r].family = r
    /\ ctx[r].token = None
    /\ ctx[r].cred \in Credentials
    /\ ctx[r].aud \in Resources
    /\ IsRefresh(r) => rt[r].family = r

(* The row a refresh has read may be consumed, revoked or deleted by now,  *)
(* but if it is still there its family and credential are the ones read.   *)
RefreshContext ==
  \A r \in Requests : pc[r] \in RefreshSteps =>
    /\ ctx[r].token \in Requests
    /\ pc[ctx[r].token] = "issued"
    /\ pc[r] # "r_token" =>
         /\ ctx[r].family \in Requests
         /\ pc[ctx[r].family] \notin Unopened
         /\ ctx[r].cred \in Credentials
         /\ ctx[r].aud \in Resources
         /\ IsRefresh(ctx[r].token) =>
              /\ rt[ctx[r].token].family = ctx[r].family
              /\ rt[ctx[r].token].cred = ctx[r].cred

(* A request that has not minted yet has no row, in any family.            *)
Fresh ==
  /\ \A r \in Requests : pc[r] \in Unopened \cup RefreshSteps => ~IsRefresh(r)
  /\ \A t \in Requests : IsRefresh(t) => pc[rt[t].family] \notin Unopened

(* All the rows of a family rest on one credential, so deleteResource and  *)
(* the cascade of a credential's deletion take families whole.             *)
OneCredentialPerFamily ==
  \A t, u \in Requests :
    IsRefresh(t) /\ IsRefresh(u) /\ rt[t].family = rt[u].family
      => rt[t].cred = rt[u].cred

(* storeRefreshToken undoes its insert only when the family is dead.       *)
UndoneFamilyIsDead ==
  \A r, t \in Requests : pc[r] = "x_undo" /\ Live(t) => rt[t].family # r

(* Whoever was issued tokens for a presented token consumed it.            *)
WinnerConsumed ==
  \A r \in Requests :
    pc[r] = "issued" /\ ctx[r].token # None =>
      /\ pc[ctx[r].token] = "issued"
      /\ IsRefresh(ctx[r].token) => rt[ctx[r].token].consumed

(* A credential row names a resource, and so does the patch creating one.  *)
AudienceKnown ==
  /\ \A c \in Credentials : cred[c].state = "row" => cred[c].aud \in Resources
  /\ adm # NoPatch /\ cred[adm.cred].state = "unborn" => adm.aud \in Resources

IInv ==
  /\ TypeOK
  /\ ExchangeContext
  /\ RefreshContext
  /\ Fresh
  /\ OneCredentialPerFamily
  /\ UndoneFamilyIsDead
  /\ WinnerConsumed
  /\ AudienceKnown
  /\ OneLivePerFamily
  /\ RevokedFamilyHasNoLiveToken
  /\ OneWinnerPerToken

-----------------------------------------------------------------------------
LEMMA InitEstablishes == Init => IInv
  BY ConstantsAssumption
  DEF Init, IInv, TypeOK, ExchangeContext, RefreshContext, Fresh, OneCredentialPerFamily,
      UndoneFamilyIsDead, WinnerConsumed, AudienceKnown, OneLivePerFamily,
      RevokedFamilyHasNoLiveToken, OneWinnerPerToken, IsRefresh, Live, NoRow, NoPatch,
      NoContext, ClientStates, ResourceStates, CredentialRow, Context, Steps, Patch,
      ExchangeSteps, RefreshSteps, Finished, Unopened

LEMMA RowIsARow ==
  ASSUME TypeOK, NEW t \in Requests
  PROVE  IsRefresh(t) <=> rt[t] \in RefreshRow
  BY ConstantsAssumption DEF TypeOK, IsRefresh, NoRow, RefreshRow

LEMMA KeptIsContext ==
  ASSUME TypeOK, NEW r \in Requests, NEW step \in Steps
  PROVE  /\ Kept(r, step) \in Context
         /\ step \notin Finished => Kept(r, step) = ctx[r]
         /\ step = "issued" => Kept(r, step).token = ctx[r].token
  BY DEF TypeOK, Kept, Context, NoContext, Steps, Finished

LEMMA AwaitEffect ==
  ASSUME TypeOK, NEW r \in Requests, NEW step \in Steps, NEW c \in Context, Await(r, step, c)
  PROVE  /\ pc' \in [Requests -> Steps] /\ ctx' \in [Requests -> Context]
         /\ pc'[r] = step /\ ctx'[r] = c
         /\ \A s \in Requests \ {r} : pc'[s] = pc[s] /\ ctx'[s] = ctx[s]
  BY DEF TypeOK, Await

-----------------------------------------------------------------------------
(* Two kinds of step leave the families as they are, or kill whole ones.   *)

(* Rows may disappear, be consumed or be revoked, but none appears, none   *)
(* changes family or credential and none is revived.                       *)
RowsKept ==
  \A t \in Requests : IsRefresh(t)' =>
    /\ IsRefresh(t)
    /\ rt'[t].family = rt[t].family
    /\ rt'[t].cred = rt[t].cred
    /\ rt[t].consumed => rt'[t].consumed
    /\ Live(t)' => Live(t)

(* Revocation leaves nothing of the family live.                           *)
WholeFamiliesRevoked ==
  \A t, u \in Requests :
    /\ IsRefresh(t)' /\ rt'[t].revoked /\ ~rt[t].revoked
    /\ Live(u)'
    => rt'[t].family # rt'[u].family

LEMMA UnchangedRows ==
  ASSUME UNCHANGED rt
  PROVE  RowsKept /\ WholeFamiliesRevoked
  BY DEF RowsKept, WholeFamiliesRevoked, IsRefresh, Live

LEMMA FamiliesKept ==
  ASSUME IInv, RowsKept, WholeFamiliesRevoked
  PROVE  OneCredentialPerFamily' /\ OneLivePerFamily' /\ RevokedFamilyHasNoLiveToken'
<1>1. OneCredentialPerFamily'
  BY DEF IInv, RowsKept, OneCredentialPerFamily, IsRefresh
<1>2. OneLivePerFamily'
  BY DEF IInv, RowsKept, OneLivePerFamily, IsRefresh, Live
<1>3. RevokedFamilyHasNoLiveToken'
  BY DEF IInv, RowsKept, WholeFamiliesRevoked, RevokedFamilyHasNoLiveToken, IsRefresh, Live
<1> QED BY <1>1, <1>2, <1>3

(* A step of the management side or of the clock: no request moves.        *)
LEMMA NoRequestMoves ==
  ASSUME IInv, TypeOK', AudienceKnown', RowsKept, WholeFamiliesRevoked, UNCHANGED <<pc, ctx>>
  PROVE  IInv'
<1> USE DEF IInv
<1>1. ExchangeContext'
  BY DEF ExchangeContext, RowsKept
<1>2. RefreshContext'
  BY DEF RefreshContext, RowsKept
<1>3. Fresh'
  BY DEF Fresh, RowsKept
<1>4. UndoneFamilyIsDead'
  BY DEF UndoneFamilyIsDead, RowsKept, Live, IsRefresh
<1>5. WinnerConsumed'
  BY DEF WinnerConsumed, RowsKept, TypeOK, Context
<1>6. OneWinnerPerToken'
  BY DEF OneWinnerPerToken
<1> QED BY <1>1, <1>2, <1>3, <1>4, <1>5, <1>6, FamiliesKept

(* A request moves to another await without minting a refresh token.       *)
LEMMA OneRequestMoves ==
  ASSUME IInv, TypeOK', AudienceKnown', RowsKept, WholeFamiliesRevoked,
         NEW r \in Requests, NEW step \in Steps, NEW c \in Context,
         Await(r, step, c),
         pc[r] \notin Finished,
         step \in Unopened => pc[r] \in Unopened,
         step \in RefreshSteps => pc[r] \in {"idle"} \cup RefreshSteps,
         step \in ExchangeSteps =>
           pc[r] \in {"idle", "x_cred"} \cup ExchangeSteps /\ c.family = r /\ c.token = None /\ c.cred \in Credentials /\ c.aud \in Resources,
         step \in RefreshSteps =>
           /\ c.token \in Requests
           /\ pc[c.token] = "issued"
           /\ step # "r_token" =>
                /\ c.family \in Requests
                /\ pc[c.family] \notin Unopened
                /\ c.cred \in Credentials
                /\ c.aud \in Resources
                /\ IsRefresh(c.token) =>
                     rt[c.token].family = c.family /\ rt[c.token].cred = c.cred,
         step = "x_undo" => \A t \in Requests : Live(t) => rt[t].family # r,
         step = "issued" => c.token = None
  PROVE  IInv'
<1> USE DEF IInv
<1>0. /\ pc'[r] = step /\ ctx'[r] = c
      /\ \A s \in Requests \ {r} : pc'[s] = pc[s] /\ ctx'[s] = ctx[s]
  BY AwaitEffect
<1>1. ExchangeContext'
  BY <1>0 DEF ExchangeContext, RowsKept, Fresh, Unopened, RefreshSteps
<1>2. RefreshContext'
  <2>. SUFFICES ASSUME NEW s \in Requests, pc'[s] \in RefreshSteps
       PROVE /\ ctx'[s].token \in Requests
             /\ pc'[ctx'[s].token] = "issued"
             /\ pc'[s] # "r_token" =>
                  /\ ctx'[s].family \in Requests
                  /\ pc'[ctx'[s].family] \notin Unopened
                  /\ ctx'[s].cred \in Credentials
                  /\ ctx'[s].aud \in Resources
                  /\ rt'[ctx'[s].token] # NoRow =>
                       /\ rt'[ctx'[s].token].family = ctx'[s].family
                       /\ rt'[ctx'[s].token].cred = ctx'[s].cred
    BY DEF RefreshContext, IsRefresh
  <2>1. CASE s = r
    BY <1>0, <2>1 DEF RowsKept, IsRefresh, Finished
  <2>2. CASE s # r
    <3>1. pc'[s] = pc[s] /\ ctx'[s] = ctx[s]
      BY <1>0, <2>2
    <3>2. ctx[s].token # r
      BY <3>1 DEF RefreshContext, Finished
    <3>3. pc[s] # "r_token" => pc'[ctx[s].family] \notin Unopened
      BY <1>0, <3>1 DEF RefreshContext
    <3> QED
      BY <1>0, <3>1, <3>2, <3>3 DEF RefreshContext, RowsKept, IsRefresh
  <2> QED BY <2>1, <2>2
<1>3. Fresh'
  <2>1. ASSUME NEW s \in Requests, pc'[s] \in Unopened \cup RefreshSteps
        PROVE  ~IsRefresh(s)'
    BY <2>1, <1>0 DEF Fresh, RowsKept, Unopened
  <2>2. ASSUME NEW t \in Requests, IsRefresh(t)'
        PROVE  pc'[rt'[t].family] \notin Unopened
    <3>1. rt[t].family \in Requests
      BY <2>2, RowIsARow DEF RowsKept, RefreshRow
    <3> QED
      BY <2>2, <3>1, <1>0 DEF Fresh, RowsKept
  <2> QED BY <2>1, <2>2 DEF Fresh
<1>4. UndoneFamilyIsDead'
  BY <1>0 DEF UndoneFamilyIsDead, RowsKept, Live, IsRefresh
<1>5. WinnerConsumed'
  BY <1>0 DEF WinnerConsumed, RowsKept, TypeOK, Context, Finished
<1>6. OneWinnerPerToken'
  BY <1>0 DEF OneWinnerPerToken
<1> QED BY <1>1, <1>2, <1>3, <1>4, <1>5, <1>6, FamiliesKept

-----------------------------------------------------------------------------
(* The steps of a request that mint no refresh token.                      *)

(* A request only reads and moves on, or answers.                          *)
LEMMA RequestOnlyMoves ==
  ASSUME IInv, NEW r \in Requests, NEW step \in Steps, Goto(r, step),
         UNCHANGED <<client, res, cred, rt, at, adm>>,
         pc[r] \in ExchangeSteps \cup (RefreshSteps \ {"r_token"}),
         step \in Unopened => pc[r] \in Unopened,
         step \in ExchangeSteps => pc[r] \in ExchangeSteps,
         step \in RefreshSteps => pc[r] \in RefreshSteps,
         step = "issued" => pc[r] \in ExchangeSteps,
         step = "x_undo" => \A t \in Requests : Live(t) => rt[t].family # r
  PROVE  IInv'
<1> DEFINE c == Kept(r, step)
<1>1. /\ c \in Context
      /\ step \notin Finished => c = ctx[r]
      /\ step = "issued" => c.token = ctx[r].token
  BY KeptIsContext DEF IInv
<1>2. Await(r, step, c)
  BY DEF Goto
<1>3. TypeOK'
  BY <1>1, <1>2, AwaitEffect DEF IInv, TypeOK
<1>4. AudienceKnown'
  BY DEF IInv, AudienceKnown
<1>5. RowsKept /\ WholeFamiliesRevoked
  BY UnchangedRows
<1>6. step \in ExchangeSteps => c.family = r /\ c.token = None /\ c.cred \in Credentials /\ c.aud \in Resources
  BY <1>1 DEF IInv, ExchangeContext, ExchangeSteps, Finished
<1>7. step = "issued" => c.token = None
  BY <1>1 DEF IInv, ExchangeContext
<1>8. step \in RefreshSteps =>
           /\ c.token \in Requests
           /\ pc[c.token] = "issued"
           /\ step # "r_token" =>
                /\ c.family \in Requests
                /\ pc[c.family] \notin Unopened
                /\ c.cred \in Credentials
                /\ c.aud \in Resources
                /\ IsRefresh(c.token) =>
                     rt[c.token].family = c.family /\ rt[c.token].cred = c.cred
  BY <1>1 DEF IInv, RefreshContext, RefreshSteps, ExchangeSteps, Finished
<1>9. pc[r] \notin Finished /\ (step \in RefreshSteps => pc[r] \in {"idle"} \cup RefreshSteps)
  BY DEF ExchangeSteps, RefreshSteps, Finished
<1> HIDE DEF c
<1> QED BY <1>1, <1>2, <1>3, <1>4, <1>5, <1>6, <1>7, <1>8, <1>9, OneRequestMoves

LEMMA ExchangeBeginStep ==
  ASSUME IInv, NEW r \in Requests, NEW k \in Clients, ExchangeBegin(r, k)
  PROVE  IInv'
<1> DEFINE c == [NoContext EXCEPT !.client = k]
<1>1. c \in Context
  BY DEF Context, NoContext
<1>2. Await(r, "x_cred", c) /\ pc[r] = "idle" /\ UNCHANGED <<client, res, cred, rt, at, adm>>
  BY DEF ExchangeBegin
<1>3. TypeOK' /\ AudienceKnown' /\ RowsKept /\ WholeFamiliesRevoked
  BY <1>1, <1>2, AwaitEffect, UnchangedRows DEF IInv, TypeOK, AudienceKnown, Steps
<1> HIDE DEF c
<1> QED BY <1>1, <1>2, <1>3, OneRequestMoves DEF Steps, ExchangeSteps, RefreshSteps, Unopened, Finished

LEMMA ResolveCredentialStep ==
  ASSUME IInv, NEW r \in Requests, NEW a \in Credentials, ResolveCredential(r, a)
  PROVE  IInv'
<1> USE DEF Steps, ExchangeSteps, RefreshSteps, Unopened, Finished
<1>1. CASE Goto(r, "rejected")
  <2>1. Kept(r, "rejected") \in Context
    BY KeptIsContext DEF IInv
  <2>2. Await(r, "rejected", Kept(r, "rejected"))
        /\ pc[r] = "x_cred" /\ UNCHANGED <<client, res, cred, rt, at, adm>>
    BY <1>1 DEF Goto, ResolveCredential
  <2>3. TypeOK' /\ AudienceKnown' /\ RowsKept /\ WholeFamiliesRevoked
    BY <2>1, <2>2, AwaitEffect, UnchangedRows DEF IInv, TypeOK, AudienceKnown
  <2> QED BY <2>1, <2>2, <2>3, OneRequestMoves
<1>2. CASE CredentialUsable(a, ctx[r].client)
  <2> DEFINE c == [NoContext EXCEPT !.client = ctx[r].client, !.family = r,
                                    !.cred = a, !.aud = cred[a].aud]
  <2>1. cred[a].aud \in Resources /\ ctx[r].client \in Clients \cup {None}
    BY <1>2 DEF IInv, AudienceKnown, CredentialUsable, TypeOK, Context
  <2>2. c \in Context /\ c.family = r /\ c.token = None /\ c.cred = a /\ c.aud \in Resources
    BY <2>1 DEF Context, NoContext
  <2>3. Await(r, "x_verify", c) /\ pc[r] = "x_cred" /\ UNCHANGED <<client, res, cred, rt, at, adm>>
    BY <1>2 DEF ResolveCredential
  <2>4. TypeOK' /\ AudienceKnown' /\ RowsKept /\ WholeFamiliesRevoked
    BY <2>2, <2>3, AwaitEffect, UnchangedRows DEF IInv, TypeOK, AudienceKnown
  <2> HIDE DEF c
  <2> QED BY <2>2, <2>3, <2>4, OneRequestMoves
<1> QED BY <1>1, <1>2 DEF ResolveCredential

LEMMA RefreshBeginStep ==
  ASSUME IInv, NEW r \in Requests, NEW k \in Clients, NEW t \in Requests,
         RefreshBegin(r, k, t)
  PROVE  IInv'
<1> DEFINE c == [NoContext EXCEPT !.client = k, !.token = t]
<1>2. c \in Context /\ c.token = t
  BY DEF Context, NoContext
<1>3. Await(r, "r_token", c) /\ pc[r] = "idle" /\ pc[t] = "issued"
      /\ UNCHANGED <<client, res, cred, rt, at, adm>>
  BY DEF RefreshBegin
<1>4. TypeOK' /\ AudienceKnown' /\ RowsKept /\ WholeFamiliesRevoked
  BY <1>2, <1>3, AwaitEffect, UnchangedRows DEF IInv, TypeOK, AudienceKnown, Steps, RefreshSteps
<1> HIDE DEF c
<1> QED BY <1>2, <1>3, <1>4, OneRequestMoves DEF Steps, ExchangeSteps, RefreshSteps, Unopened, Finished

LEMMA ReadTokenStep ==
  ASSUME IInv, NEW r \in Requests, ReadToken(r)
  PROVE  IInv'
<1> DEFINE t == ctx[r].token
           c == [ctx[r] EXCEPT !.family = rt[t].family, !.cred = rt[t].cred, !.aud = rt[t].aud]
           step == IF rt[t].consumed THEN "r_revoke" ELSE "r_cred"
<1>1. pc[r] = "r_token" /\ t \in Requests /\ pc[t] = "issued"
  BY DEF ReadToken, IInv, RefreshContext, RefreshSteps
<1>2. UNCHANGED <<client, res, cred, rt, at, adm>>
  BY DEF ReadToken
<1>3. RowsKept /\ WholeFamiliesRevoked /\ AudienceKnown'
  BY <1>2, UnchangedRows DEF IInv, AudienceKnown
<1>4. CASE Goto(r, "rejected")
  <2> DEFINE d == Kept(r, "rejected")
  <2>1. d \in Context /\ Await(r, "rejected", d)
    BY <1>4, KeptIsContext DEF IInv, Goto, Steps, Finished
  <2>2. TypeOK'
    BY <2>1, <1>2, AwaitEffect DEF IInv, TypeOK, Steps, Finished
  <2> HIDE DEF d
  <2> QED BY <1>1, <1>3, <2>1, <2>2, OneRequestMoves
          DEF Steps, ExchangeSteps, RefreshSteps, Unopened, Finished
<1>5. CASE IsRefresh(t) /\ Await(r, step, c)
  <2>1. rt[t] \in RefreshRow
    BY <1>1, <1>5, RowIsARow DEF IInv
  <2>2. c \in Context /\ c.token = t /\ c.family = rt[t].family /\ c.cred = rt[t].cred /\ c.aud = rt[t].aud
    BY <2>1, <1>1 DEF IInv, TypeOK, Context, RefreshRow
  <2>3. c.family \in Requests /\ c.cred \in Credentials /\ c.aud \in Resources
    BY <2>1, <2>2 DEF RefreshRow
  <2>4. pc[c.family] \notin Unopened
    BY <1>1, <1>5, <2>2 DEF IInv, Fresh
  <2>5. step \in {"r_revoke", "r_cred"}
    OBVIOUS
  <2>6. TypeOK'
    BY <1>2, <1>5, <2>2, <2>5, AwaitEffect DEF IInv, TypeOK, Steps, RefreshSteps
  <2>7. Await(r, step, c)
    BY <1>5
  <2> HIDE DEF c, step
  <2> QED BY <1>1, <1>3, <2>2, <2>3, <2>4, <2>5, <2>6, <2>7, OneRequestMoves
          DEF Steps, ExchangeSteps, RefreshSteps, Unopened, Finished
<1> QED BY <1>4, <1>5 DEF ReadToken, OwnToken

LEMMA ReadStep ==
  ASSUME IInv, NEW r \in Requests,
         ExchangeVerify(r) \/ CheckFamily(r) \/ ReadCredential(r) \/ ReadAudience(r) \/ ResolveScopes(r)
  PROVE  IInv'
<1> USE DEF Steps, ExchangeSteps, RefreshSteps, Finished, Unopened
<1>1. CASE ExchangeVerify(r)
  <2>1. PICK step \in {"x_store", "rejected"} : Goto(r, step)
    BY <1>1 DEF ExchangeVerify
  <2> QED BY <1>1, <2>1, RequestOnlyMoves DEF ExchangeVerify
<1>2. CASE CheckFamily(r)
  <2>1. CASE \E t \in Family(r) : rt[t].revoked
    <3>1. \A t \in Requests : Live(t) => rt[t].family # r
      BY <2>1 DEF IInv, RevokedFamilyHasNoLiveToken, Family
    <3> QED BY <1>2, <2>1, <3>1, RequestOnlyMoves DEF CheckFamily
  <2>2. CASE ~ \E t \in Family(r) : rt[t].revoked
    BY <1>2, <2>2, RequestOnlyMoves DEF CheckFamily
  <2> QED BY <2>1, <2>2
<1>3. CASE ReadCredential(r)
  <2>1. PICK step \in {"rejected", "r_revoke", "r_audience"} : Goto(r, step)
    BY <1>3 DEF ReadCredential
  <2> QED BY <1>3, <2>1, RequestOnlyMoves DEF ReadCredential
<1>4. CASE ReadAudience(r)
  <2>1. PICK step \in {"r_scopes", "r_revoke"} : Goto(r, step)
    BY <1>4 DEF ReadAudience
  <2> QED BY <1>4, <2>1, RequestOnlyMoves DEF ReadAudience
<1>5. CASE ResolveScopes(r)
  <2>1. PICK step \in {"r_rotate", "rejected"} : Goto(r, step)
    BY <1>5 DEF ResolveScopes
  <2> QED BY <1>5, <2>1, RequestOnlyMoves DEF ResolveScopes
<1> QED BY <1>1, <1>2, <1>3, <1>4, <1>5

LEMMA StoreAccessTokenStep ==
  ASSUME IInv, NEW r \in Requests, StoreAccessToken(r)
  PROVE  IInv'
<1> USE DEF Steps, ExchangeSteps, RefreshSteps, Finished, Unopened
<1>1. CASE Goto(r, "rejected") /\ UNCHANGED at
  BY <1>1, RequestOnlyMoves DEF StoreAccessToken
<1>2. CASE at' = [at EXCEPT ![r] = NewAccessRow(r)] /\ \E next \in {"x_refresh", "issued"} : Goto(r, next)
  <2>1. PICK next \in {"x_refresh", "issued"} : Goto(r, next)
    BY <1>2
  <2> DEFINE c == Kept(r, next)
  <2>2. /\ c \in Context /\ Await(r, next, c)
        /\ next = "x_refresh" => c = ctx[r]
        /\ c.token = ctx[r].token
    BY <2>1, KeptIsContext DEF IInv, Goto
  <2>3. pc[r] = "x_store" /\ UNCHANGED <<client, res, cred, rt, adm>>
    BY DEF StoreAccessToken
  <2>4. ctx[r].family = r /\ ctx[r].token = None /\ ctx[r].cred \in Credentials /\ ctx[r].aud \in Resources
    BY <2>3 DEF IInv, ExchangeContext
  <2>5. at' \in [Requests -> AccessRow \cup {NoRow}]
    BY <1>2, <2>4 DEF IInv, TypeOK, NewAccessRow, AccessRow
  <2>6. TypeOK' /\ AudienceKnown'
    BY <2>2, <2>3, <2>5, AwaitEffect DEF IInv, TypeOK, AudienceKnown
  <2>7. RowsKept /\ WholeFamiliesRevoked
    BY <2>3, UnchangedRows
  <2> HIDE DEF c
  <2> QED BY <2>2, <2>3, <2>4, <2>6, <2>7, OneRequestMoves
<1> QED BY <1>1, <1>2 DEF StoreAccessToken

(* Rows of some set are revoked, nothing else about them changes.          *)
LEMMA RevokedRows ==
  ASSUME TypeOK, NEW T \in SUBSET Requests,
         \A t \in T : IsRefresh(t),
         rt' = [t \in Requests |-> IF t \in T THEN [rt[t] EXCEPT !.revoked = TRUE] ELSE rt[t]]
  PROVE  /\ rt' \in [Requests -> RefreshRow \cup {NoRow}]
         /\ RowsKept
         /\ \A t \in Requests : IsRefresh(t)' /\ rt'[t].revoked /\ ~rt[t].revoked => t \in T
         /\ \A t \in T : ~Live(t)'
         /\ \A t \in Requests \ T : rt'[t] = rt[t]
<1>1. \A t \in T : rt[t] \in RefreshRow
  BY RowIsARow
<1>2. \A t \in T : /\ rt'[t] = [rt[t] EXCEPT !.revoked = TRUE]
                   /\ rt'[t] \in RefreshRow
                   /\ rt'[t].family = rt[t].family /\ rt'[t].cred = rt[t].cred
                   /\ rt'[t].consumed = rt[t].consumed /\ rt'[t].revoked
  BY <1>1 DEF RefreshRow
<1>3. \A t \in Requests \ T : rt'[t] = rt[t]
  OBVIOUS
<1>4. rt' \in [Requests -> RefreshRow \cup {NoRow}]
  BY <1>2, <1>3 DEF TypeOK
<1>5. RowsKept
  BY <1>2, <1>3 DEF RowsKept, IsRefresh, Live
<1> QED BY <1>2, <1>3, <1>4, <1>5 DEF IsRefresh, Live

LEMMA RevokeFamilyStep ==
  ASSUME IInv, NEW r \in Requests, RevokeFamily(r)
  PROVE  IInv' /\ RowsKept
<1> DEFINE T == Family(ctx[r].family)
           c == Kept(r, "rejected")
<1>1. T \in SUBSET Requests /\ \A t \in T : IsRefresh(t)
  BY DEF Family
<1>2. rt' = [t \in Requests |-> IF t \in T THEN [rt[t] EXCEPT !.revoked = TRUE] ELSE rt[t]]
  BY DEF RevokeFamily, FamilyRevoked
<1>3. /\ rt' \in [Requests -> RefreshRow \cup {NoRow}]
      /\ RowsKept
      /\ \A t \in Requests : IsRefresh(t)' /\ rt'[t].revoked /\ ~rt[t].revoked => t \in T
      /\ \A t \in T : ~Live(t)'
  BY <1>1, <1>2, RevokedRows DEF IInv
<1>4. WholeFamiliesRevoked
  BY <1>3 DEF WholeFamiliesRevoked, RowsKept, Family, Live, IsRefresh
<1>5. pc[r] = "r_revoke" /\ UNCHANGED <<client, res, cred, at, adm>> /\ Await(r, "rejected", c)
  BY DEF RevokeFamily, Goto
<1>6. c \in Context
  BY KeptIsContext DEF IInv, Steps, Finished
<1>7. TypeOK' /\ AudienceKnown'
  BY <1>3, <1>5, <1>6, AwaitEffect DEF IInv, TypeOK, AudienceKnown, Steps, Finished
<1> HIDE DEF T, c
<1> QED BY <1>3, <1>4, <1>5, <1>6, <1>7, OneRequestMoves
        DEF Steps, ExchangeSteps, RefreshSteps, Finished, Unopened

LEMMA UndoRootTokenStep ==
  ASSUME IInv, NEW r \in Requests, UndoRootToken(r)
  PROVE  IInv' /\ RowsKept
<1> DEFINE T == IF IsRefresh(r) THEN {r} ELSE {}
           c == Kept(r, "rejected")
<1>1. T \in SUBSET Requests /\ \A t \in T : IsRefresh(t)
  OBVIOUS
<1>2. rt' = [t \in Requests |-> IF t \in T THEN [rt[t] EXCEPT !.revoked = TRUE] ELSE rt[t]]
  BY DEF UndoRootToken, IInv, TypeOK
<1>3. /\ rt' \in [Requests -> RefreshRow \cup {NoRow}]
      /\ RowsKept
      /\ \A t \in Requests : IsRefresh(t)' /\ rt'[t].revoked /\ ~rt[t].revoked => t \in T
  BY <1>1, <1>2, RevokedRows DEF IInv
<1>5. pc[r] = "x_undo" /\ UNCHANGED <<client, res, cred, at, adm>> /\ Await(r, "rejected", c)
  BY DEF UndoRootToken, Goto
<1>4. WholeFamiliesRevoked
  BY <1>3, <1>5
  DEF WholeFamiliesRevoked, RowsKept, IInv, ExchangeContext, ExchangeSteps, UndoneFamilyIsDead, Live
<1>6. c \in Context
  BY KeptIsContext DEF IInv, Steps, Finished
<1>7. TypeOK' /\ AudienceKnown'
  BY <1>3, <1>5, <1>6, AwaitEffect DEF IInv, TypeOK, AudienceKnown, Steps, Finished
<1> HIDE DEF T, c
<1> QED BY <1>3, <1>4, <1>5, <1>6, <1>7, OneRequestMoves
        DEF Steps, ExchangeSteps, RefreshSteps, Finished, Unopened

-----------------------------------------------------------------------------
(* The two statements that mint a refresh token.                           *)

LEMMA InsertRootTokenStep ==
  ASSUME IInv, NEW r \in Requests, InsertRootToken(r)
  PROVE  IInv'
<1> USE DEF Steps, ExchangeSteps, RefreshSteps, Finished, Unopened
<1>1. CASE Goto(r, "rejected") /\ UNCHANGED rt
  BY <1>1, RequestOnlyMoves DEF InsertRootToken
<1>2. CASE rt' = [rt EXCEPT ![r] = NewRow(r)] /\ Goto(r, "x_check")
  <2>1. pc[r] = "x_refresh" /\ UNCHANGED <<client, res, cred, at, adm>>
    BY DEF InsertRootToken
  <2>2. /\ ctx[r].family = r /\ ctx[r].token = None
        /\ ctx[r].cred \in Credentials /\ ctx[r].aud \in Resources
    BY <2>1 DEF IInv, ExchangeContext
  <2>3. /\ pc' \in [Requests -> Steps] /\ ctx' = ctx
        /\ pc'[r] = "x_check"
        /\ \A s \in Requests \ {r} : pc'[s] = pc[s]
    BY <1>2, AwaitEffect, KeptIsContext DEF IInv, Goto, TypeOK, Await
  <2>4. /\ rt'[r] \in RefreshRow
        /\ rt'[r].family = r /\ ~rt'[r].consumed /\ ~rt'[r].revoked
        /\ \A t \in Requests \ {r} : rt'[t] = rt[t]
        /\ rt' \in [Requests -> RefreshRow \cup {NoRow}]
    BY <1>2, <2>2 DEF IInv, TypeOK, NewRow, RefreshRow
  <2>5. ~IsRefresh(r) /\ \A t \in Requests : IsRefresh(t) => rt[t].family # r
    BY <2>1 DEF IInv, Fresh
  <2>6. IsRefresh(r)' /\ Live(r)'
    BY <2>4, ConstantsAssumption DEF IsRefresh, Live, NoRow, RefreshRow
  <2>7. \A t \in Requests \ {r} : /\ IsRefresh(t)' <=> IsRefresh(t)
                                  /\ Live(t)' <=> Live(t)
    BY <2>4 DEF IsRefresh, Live
  <2>8. TypeOK' /\ AudienceKnown'
    BY <2>1, <2>3, <2>4 DEF IInv, TypeOK, AudienceKnown
  <2>9. ExchangeContext'
    BY <2>1, <2>2, <2>3, <2>4, <2>7 DEF IInv, ExchangeContext
  <2>10. RefreshContext'
    <3>1. \A s \in Requests : pc'[s] \in RefreshSteps => s # r /\ ctx[s].token # r
      BY <2>1, <2>3 DEF IInv, RefreshContext
    <3> QED BY <3>1, <2>1, <2>3, <2>4, <2>7 DEF IInv, RefreshContext, IsRefresh
  <2>11. Fresh'
    <3>1. \A s \in Requests : pc'[s] \in Unopened \cup RefreshSteps => ~IsRefresh(s)'
      BY <2>3, <2>7 DEF IInv, Fresh
    <3>2. ASSUME NEW t \in Requests, IsRefresh(t)'
          PROVE  pc'[rt'[t].family] \notin Unopened
      <4>1. CASE t = r
        BY <4>1, <2>3, <2>4
      <4>2. CASE t # r
        <5>1. IsRefresh(t) /\ rt'[t] = rt[t] /\ rt[t].family \in Requests \ {r}
          BY <3>2, <4>2, <2>4, <2>5, <2>7, RowIsARow DEF IInv, RefreshRow
        <5> QED BY <5>1, <2>3 DEF IInv, Fresh
      <4> QED BY <4>1, <4>2
    <3> QED BY <3>1, <3>2 DEF Fresh
  <2>12. OneCredentialPerFamily'
    BY <2>4, <2>5, <2>7 DEF IInv, OneCredentialPerFamily
  <2>13. UndoneFamilyIsDead'
    BY <2>3, <2>4, <2>7 DEF IInv, UndoneFamilyIsDead
  <2>14. WinnerConsumed'
    <3>1. \A s \in Requests : pc'[s] = "issued" => s # r /\ pc[s] = "issued"
      BY <2>3
    <3>2. \A s \in Requests : pc[s] = "issued" /\ ctx[s].token # None =>
             ctx[s].token \in Requests \ {r}
      BY <2>1 DEF IInv, WinnerConsumed, TypeOK, Context
    <3> QED BY <3>1, <3>2, <2>3, <2>4, <2>7 DEF IInv, WinnerConsumed, IsRefresh
  <2>15. OneLivePerFamily'
    BY <2>4, <2>5, <2>7 DEF IInv, OneLivePerFamily, Live
  <2>16. RevokedFamilyHasNoLiveToken'
    BY <2>4, <2>5, <2>7 DEF IInv, RevokedFamilyHasNoLiveToken, Live
  <2>17. OneWinnerPerToken'
    BY <2>3 DEF IInv, OneWinnerPerToken
  <2> QED BY <2>8, <2>9, <2>10, <2>11, <2>12, <2>13, <2>14, <2>15, <2>16, <2>17 DEF IInv
<1> QED BY <1>1, <1>2 DEF InsertRootToken

LEMMA RotateStep ==
  ASSUME IInv, NEW r \in Requests, Rotate(r)
  PROVE  IInv'
<1> USE DEF Steps, ExchangeSteps, RefreshSteps, Finished, Unopened
<1>p. ctx[r].token \in Requests /\ ctx[r].family \in Requests
  BY DEF Rotate, IInv, RefreshContext
<1>t. PICK t \in Requests : t = ctx[r].token
  BY <1>p
<1>f. PICK f \in Requests : f = ctx[r].family
  BY <1>p
<1> USE <1>t, <1>f
<1>0. /\ pc[r] = "r_rotate" /\ UNCHANGED <<client, res, cred, adm>>
      /\ t \in Requests /\ pc[t] = "issued" /\ t # r
      /\ f \in Requests
      /\ ctx[r].cred \in Credentials /\ ctx[r].aud \in Resources
      /\ pc[f] \notin Unopened
      /\ IsRefresh(t) => rt[t].family = f /\ rt[t].cred = ctx[r].cred
  BY DEF Rotate, IInv, RefreshContext
<1>1. CASE Goto(r, "r_revoke") /\ UNCHANGED tokens
  BY <1>0, <1>1, RequestOnlyMoves DEF Rotate, tokens
<1>2. CASE /\ ParentIsActive(t)
           /\ rt' = ParentConsumed(r)
           /\ at' = [at EXCEPT ![r] = NewAccessRow(r)]
           /\ Goto(r, "issued")
  <2> DEFINE c == Kept(r, "issued")
  <2>1. Live(t) /\ IsRefresh(t) /\ rt[t] \in RefreshRow /\ rt[t].family = f
    BY <1>0, <1>2, RowIsARow DEF IInv, ParentIsActive, Live
  <2>2. c \in Context /\ c.token = t /\ Await(r, "issued", c)
    BY <1>2, KeptIsContext DEF IInv, Goto
  <2>3. /\ pc' \in [Requests -> Steps] /\ ctx' \in [Requests -> Context]
        /\ pc'[r] = "issued" /\ ctx'[r].token = t
        /\ \A s \in Requests \ {r} : pc'[s] = pc[s] /\ ctx'[s] = ctx[s]
    BY <2>2, AwaitEffect DEF IInv
  <2>4. /\ rt'[r] = NewRow(r)
        /\ rt'[t] = [rt[t] EXCEPT !.consumed = TRUE]
        /\ \A s \in Requests \ {r, t} : rt'[s] = rt[s]
        /\ DOMAIN rt' = Requests
    BY <1>0, <1>2 DEF IInv, TypeOK, ParentConsumed
  <2>5. /\ rt'[r] \in RefreshRow
        /\ rt'[r].family = f /\ rt'[r].cred = rt[t].cred
        /\ ~rt'[r].consumed /\ ~rt'[r].revoked
    BY <1>0, <2>1, <2>4 DEF NewRow, RefreshRow
  <2>6. /\ rt'[t] \in RefreshRow
        /\ rt'[t].family = f /\ rt'[t].cred = rt[t].cred
        /\ rt'[t].consumed /\ rt'[t].revoked = rt[t].revoked
    BY <2>1, <2>4 DEF RefreshRow
  <2>7. rt' \in [Requests -> RefreshRow \cup {NoRow}]
    <3>1. \A s \in Requests : rt'[s] \in RefreshRow \cup {NoRow}
      BY <2>4, <2>5, <2>6 DEF IInv, TypeOK
    <3>2. rt' = [s \in Requests |-> rt'[s]]
      BY <1>2 DEF IInv, TypeOK, ParentConsumed
    <3> QED BY <3>1, <3>2
  <2>8. ~IsRefresh(r) /\ IsRefresh(r)' /\ IsRefresh(t)' /\ Live(r)' /\ ~Live(t)'
    <3>1. ~IsRefresh(r)
      BY <1>0 DEF IInv, Fresh
    <3>2. rt'[r] # NoRow /\ rt'[t] # NoRow
      BY <2>5, <2>6, ConstantsAssumption DEF NoRow, RefreshRow
    <3> QED BY <3>1, <3>2, <2>5, <2>6 DEF IsRefresh, Live
  <2>9. \A s \in Requests \ {r, t} : (IsRefresh(s)' <=> IsRefresh(s)) /\ (Live(s)' <=> Live(s))
    BY <2>4 DEF IsRefresh, Live
  <2>a. \A s \in Requests \ {r} : IsRefresh(s)' =>
          /\ IsRefresh(s)
          /\ rt'[s].family = rt[s].family /\ rt'[s].cred = rt[s].cred
          /\ rt'[s].revoked = rt[s].revoked
          /\ rt[s].consumed => rt'[s].consumed
          /\ Live(s)' => Live(s) /\ s # t
    BY <2>1, <2>4, <2>6, <2>8, <2>9
  <2>10. TypeOK' /\ AudienceKnown'
    <3>1. at' \in [Requests -> AccessRow \cup {NoRow}]
      BY <1>0, <1>2 DEF IInv, TypeOK, NewAccessRow, AccessRow
    <3> QED BY <1>0, <2>3, <2>7, <3>1 DEF IInv, TypeOK, AudienceKnown
  <2>11. \A s \in Requests : Live(s) /\ rt[s].family = f => s = t
    BY <1>0, <2>1 DEF IInv, OneLivePerFamily
  <2>12. \A s \in Requests : IsRefresh(s) /\ rt[s].family = f => ~rt[s].revoked
    BY <1>0, <2>1 DEF IInv, RevokedFamilyHasNoLiveToken
  <2>13. ExchangeContext'
    BY <1>0, <2>3, <2>4, <2>6, <2>9 DEF IInv, ExchangeContext
  <2>14. RefreshContext'
    <3>1. ASSUME NEW s \in Requests, pc'[s] \in RefreshSteps
          PROVE  s # r /\ pc[s] = pc'[s] /\ ctx'[s] = ctx[s] /\ ctx[s].token \in Requests \ {r}
      BY <1>0, <2>3, <3>1 DEF IInv, RefreshContext
    <3>2. ASSUME NEW s \in Requests, pc'[s] \in RefreshSteps, rt'[ctx[s].token] # NoRow
          PROVE  /\ IsRefresh(ctx[s].token)
                 /\ rt'[ctx[s].token].family = rt[ctx[s].token].family
                 /\ rt'[ctx[s].token].cred = rt[ctx[s].token].cred
      BY <3>1, <3>2, <2>1, <2>4, <2>6 DEF IsRefresh
    <3> QED BY <3>1, <3>2, <2>3 DEF IInv, RefreshContext, IsRefresh
  <2>15. Fresh'
    <3>1. ASSUME NEW s \in Requests, pc'[s] \in Unopened \cup RefreshSteps
          PROVE  ~IsRefresh(s)'
      BY <1>0, <2>3, <2>9, <3>1 DEF IInv, Fresh
    <3>2. ASSUME NEW s \in Requests, IsRefresh(s)'
          PROVE  pc'[rt'[s].family] \notin Unopened
      <4>1. CASE s \in {r, t}
        BY <4>1, <1>0, <2>3, <2>5, <2>6
      <4>2. CASE s \notin {r, t}
        <5>1. IsRefresh(s) /\ rt'[s] = rt[s] /\ rt[s].family \in Requests
          BY <3>2, <4>2, <2>4, <2>9, RowIsARow DEF IInv, RefreshRow
        <5> QED BY <5>1, <2>3 DEF IInv, Fresh
      <4> QED BY <4>1, <4>2
    <3> QED BY <3>1, <3>2 DEF Fresh
  <2>16. OneCredentialPerFamily'
    <3>1. \A s \in Requests : IsRefresh(s) /\ rt[s].family = f => rt[s].cred = rt[t].cred
      BY <1>0, <2>1 DEF IInv, OneCredentialPerFamily
    <3> QED BY <2>5, <2>a, <3>1 DEF IInv, OneCredentialPerFamily
  <2>17. UndoneFamilyIsDead'
    <3>1. \A s \in Requests : pc'[s] = "x_undo" => pc[s] = "x_undo" /\ s # f
      BY <2>1, <2>3 DEF IInv, UndoneFamilyIsDead
    <3> QED BY <3>1, <2>5, <2>a, <2>8 DEF IInv, UndoneFamilyIsDead, Live
  <2>18. WinnerConsumed'
    <3>1. ASSUME NEW s \in Requests, s # r, pc'[s] = "issued", ctx'[s].token # None
          PROVE  /\ pc'[ctx'[s].token] = "issued"
                 /\ rt'[ctx'[s].token] # NoRow => rt'[ctx'[s].token].consumed
      <4>1. pc[s] = "issued" /\ ctx'[s] = ctx[s] /\ ctx[s].token \in Requests /\ pc[ctx[s].token] = "issued"
        BY <3>1, <2>3 DEF IInv, WinnerConsumed, TypeOK, Context
      <4>2. ctx[s].token # r
        BY <4>1, <1>0
      <4>3. IsRefresh(ctx[s].token) => rt[ctx[s].token].consumed
        BY <3>1, <4>1 DEF IInv, WinnerConsumed
      <4>4. pc'[ctx[s].token] = "issued"
        BY <4>1, <4>2, <2>3
      <4> QED BY <4>1, <4>2, <4>3, <4>4, <2>a DEF IsRefresh
    <3>2. pc'[ctx'[r].token] = "issued" /\ rt'[ctx'[r].token].consumed
      BY <1>0, <2>3, <2>6
    <3> QED BY <3>1, <3>2 DEF WinnerConsumed, IsRefresh
  <2>19. OneLivePerFamily'
    BY <2>5, <2>a, <2>11, <2>8 DEF IInv, OneLivePerFamily, Live
  <2>20. RevokedFamilyHasNoLiveToken'
    BY <2>5, <2>a, <2>12, <2>8 DEF IInv, RevokedFamilyHasNoLiveToken, Live
  <2>21. OneWinnerPerToken'
    <3>1. \A s \in Requests \ {r} : pc'[s] = "issued" => ctx'[s].token # t
      BY <1>0, <2>1, <2>3, ConstantsAssumption DEF IInv, WinnerConsumed, Live
    <3> QED BY <3>1, <2>3 DEF IInv, OneWinnerPerToken
  <2> QED BY <2>10, <2>13, <2>14, <2>15, <2>16, <2>17, <2>18, <2>19, <2>20, <2>21 DEF IInv
<1> QED BY <1>1, <1>2 DEF Rotate

-----------------------------------------------------------------------------
(* The management side and the clock.                                      *)

LEMMA ExpireRefreshStep ==
  ASSUME IInv, NEW t \in Requests, ExpireRefresh(t)
  PROVE  IInv' /\ RowsKept
<1>1. rt[t] \in RefreshRow /\ UNCHANGED <<client, res, cred, at, pc, ctx, adm>>
  BY RowIsARow DEF IInv, ExpireRefresh
<1>2. /\ rt'[t] = [rt[t] EXCEPT !.expired = TRUE]
      /\ \A u \in Requests \ {t} : rt'[u] = rt[u]
  BY DEF ExpireRefresh, IInv, TypeOK
<1>3. /\ rt'[t] \in RefreshRow
      /\ rt'[t].family = rt[t].family /\ rt'[t].cred = rt[t].cred
      /\ rt'[t].consumed = rt[t].consumed /\ rt'[t].revoked = rt[t].revoked
  BY <1>1, <1>2 DEF RefreshRow
<1>4. TypeOK' /\ AudienceKnown'
  BY <1>1, <1>2, <1>3 DEF IInv, TypeOK, AudienceKnown, ExpireRefresh
<1>5. RowsKept
  BY <1>2, <1>3 DEF RowsKept, IsRefresh, Live, ExpireRefresh
<1>6. WholeFamiliesRevoked
  BY <1>2, <1>3 DEF WholeFamiliesRevoked
<1> QED BY <1>1, <1>4, <1>5, <1>6, NoRequestMoves

LEMMA ValidatePatchStep ==
  ASSUME IInv, NEW p \in Patch, ValidatePatch(p)
  PROVE  IInv'
<1>1. UNCHANGED <<client, res, cred, rt, at, pc, ctx>> /\ adm' = p
  BY DEF ValidatePatch
<1>2. TypeOK'
  BY <1>1 DEF IInv, TypeOK
<1>3. AudienceKnown'
  <2>1. p.aud \in Resources \cup {None} /\ p.cred \in Credentials
    BY DEF Patch
  <2>2. cred[p.cred].state = "unborn" => p.aud \in Resources
    BY <2>1 DEF ValidatePatch
  <2> QED BY <1>1, <2>2 DEF IInv, AudienceKnown
<1> QED BY <1>1, <1>2, <1>3, UnchangedRows, NoRequestMoves

LEMMA WriteCredentialStep ==
  ASSUME IInv, WriteCredential
  PROVE  IInv'
<1>1. UNCHANGED <<client, res, rt, at, pc, ctx>> /\ adm' = NoPatch /\ adm \in Patch
  BY DEF WriteCredential, IInv, TypeOK
<1>2. adm.cred \in Credentials /\ adm.aud \in Resources \cup {None}
  BY <1>1 DEF Patch
<1>3. /\ \A c \in Credentials \ {adm.cred} : cred'[c] = cred[c]
      /\ DOMAIN cred' = Credentials /\ cred' = [c \in Credentials |-> cred'[c]]
  BY <1>2 DEF WriteCredential, IInv, TypeOK
<1>4. cred'[adm.cred] = Written(cred[adm.cred]) /\ cred[adm.cred] \in CredentialRow
  BY <1>2 DEF WriteCredential, IInv, TypeOK
<1>5. CASE cred[adm.cred].state = "unborn"
  <2>1. Written(cred[adm.cred]) = [state |-> "row", enabled |-> TRUE, aud |-> adm.aud]
    BY <1>5 DEF Written
  <2>2. adm.aud \in Resources
    BY <1>1, <1>5 DEF IInv, AudienceKnown, WriteCredential
  <2>3. cred'[adm.cred] \in CredentialRow /\ cred'[adm.cred].aud \in Resources
    BY <1>4, <2>1, <2>2 DEF CredentialRow
  <2>4. TypeOK' /\ AudienceKnown'
    BY <1>1, <1>3, <2>3 DEF IInv, TypeOK, AudienceKnown
  <2> QED BY <1>1, <2>4, UnchangedRows, NoRequestMoves
<1>6. CASE cred[adm.cred].state = "row"
  <2> DEFINE a == IF adm.aud = None THEN cred[adm.cred].aud ELSE adm.aud
             e == IF adm.enabled = "keep" THEN cred[adm.cred].enabled ELSE adm.enabled = "on"
  <2>1. Written(cred[adm.cred]) = [state |-> "row", enabled |-> e, aud |-> a]
    BY <1>6 DEF Written
  <2>2. a \in Resources
    BY <1>2, <1>6 DEF IInv, AudienceKnown
  <2>3. e \in BOOLEAN
    BY <1>4 DEF CredentialRow
  <2> HIDE DEF a, e
  <2>4. cred'[adm.cred] \in CredentialRow /\ cred'[adm.cred].aud \in Resources
    BY <1>4, <2>1, <2>2, <2>3 DEF CredentialRow
  <2>5. TypeOK' /\ AudienceKnown'
    BY <1>1, <1>3, <2>4 DEF IInv, TypeOK, AudienceKnown
  <2> QED BY <1>1, <2>5, UnchangedRows, NoRequestMoves
<1>7. CASE cred[adm.cred].state = "gone"
  <2>1. cred' = cred
    BY <1>3, <1>4, <1>7 DEF Written, IInv, TypeOK
  <2>2. TypeOK' /\ AudienceKnown'
    BY <1>1, <2>1 DEF IInv, TypeOK, AudienceKnown
  <2> QED BY <1>1, <2>2, UnchangedRows, NoRequestMoves
<1> QED BY <1>4, <1>5, <1>6, <1>7 DEF CredentialRow

LEMMA DeleteCredentialStep ==
  ASSUME IInv, NEW c \in Credentials, DeleteCredential(c)
  PROVE  IInv' /\ RowsKept
<1>1. UNCHANGED <<client, res, pc, ctx, adm>>
  BY DEF DeleteCredential
<1>2. \A t \in Requests : IsRefresh(t)' => IsRefresh(t) /\ rt'[t] = rt[t]
  BY DEF DeleteCredential, IsRefresh
<1>3. RowsKept /\ WholeFamiliesRevoked
  BY <1>2 DEF RowsKept, WholeFamiliesRevoked, Live
<1>4. cred'[c] = [cred[c] EXCEPT !.state = "gone"] /\ cred'[c] \in CredentialRow
  BY DEF DeleteCredential, IInv, TypeOK, CredentialRow
<1>5. /\ \A d \in Credentials \ {c} : cred'[d] = cred[d]
      /\ cred' \in [Credentials -> CredentialRow]
  BY <1>4 DEF DeleteCredential, IInv, TypeOK
<1>6. /\ rt' \in [Requests -> RefreshRow \cup {NoRow}]
      /\ at' \in [Requests -> AccessRow \cup {NoRow}]
  BY DEF DeleteCredential, IInv, TypeOK
<1>7. TypeOK'
  BY <1>1, <1>5, <1>6 DEF IInv, TypeOK
<1>8. AudienceKnown'
  <2>1. cred'[c].state = "gone"
    BY <1>4 DEF IInv, TypeOK, CredentialRow
  <2> QED BY <1>1, <1>5, <2>1 DEF IInv, AudienceKnown, TypeOK, Patch, NoPatch
<1> QED BY <1>1, <1>3, <1>7, <1>8, NoRequestMoves

LEMMA DeleteResourceStep ==
  ASSUME IInv, NEW a \in Resources, DeleteResource(a)
  PROVE  IInv' /\ RowsKept
<1> DEFINE P == {c \in Credentials : cred[c].state = "row" /\ cred[c].aud = a}
           T == {t \in Requests : IsRefresh(t) /\ rt[t].cred \in P}
<1>1. UNCHANGED <<client, pc, ctx, adm>>
  BY DEF DeleteResource
<1>2. rt' = [t \in Requests |-> IF t \in T THEN [rt[t] EXCEPT !.revoked = TRUE] ELSE rt[t]]
  BY DEF DeleteResource
<1>3. /\ rt' \in [Requests -> RefreshRow \cup {NoRow}]
      /\ RowsKept
      /\ \A t \in Requests : IsRefresh(t)' /\ rt'[t].revoked /\ ~rt[t].revoked => t \in T
      /\ \A t \in T : ~Live(t)'
  <2>1. T \in SUBSET Requests /\ \A t \in T : IsRefresh(t)
    OBVIOUS
  <2> HIDE DEF T
  <2> QED BY <1>2, <2>1, RevokedRows DEF IInv
<1>4. WholeFamiliesRevoked
  <2> SUFFICES ASSUME NEW t \in Requests, NEW u \in Requests,
                      IsRefresh(t)', rt'[t].revoked, ~rt[t].revoked, Live(u)',
                      rt'[t].family = rt'[u].family
               PROVE  FALSE
    BY DEF WholeFamiliesRevoked
  <2>1. t \in T /\ IsRefresh(u) /\ IsRefresh(t) /\ rt[t].family = rt[u].family
    BY <1>3 DEF RowsKept, Live
  <2>2. u \in T
    BY <2>1 DEF IInv, OneCredentialPerFamily
  <2> QED BY <2>2, <1>3
<1>5. \A c \in Credentials : cred'[c] \in CredentialRow /\ cred'[c].state = cred[c].state
                              /\ cred'[c].aud = cred[c].aud
  BY DEF DeleteResource, IInv, TypeOK, CredentialRow
<1>6. cred' \in [Credentials -> CredentialRow]
  BY <1>5 DEF DeleteResource
<1>7. at' \in [Requests -> AccessRow \cup {NoRow}]
  <2>1. \A t \in Requests : IsAccess(t) => [at[t] EXCEPT !.revoked = TRUE] \in AccessRow
    BY DEF IInv, TypeOK, IsAccess, AccessRow
  <2> QED BY <2>1 DEF DeleteResource, IInv, TypeOK
<1>8. res' \in [Resources -> ResourceStates]
  BY DEF DeleteResource, IInv, TypeOK, ResourceStates
<1>9. TypeOK'
  BY <1>1, <1>3, <1>6, <1>7, <1>8 DEF IInv, TypeOK
<1>10. AudienceKnown'
  BY <1>1, <1>5 DEF IInv, AudienceKnown, TypeOK, Patch, NoPatch
<1> QED BY <1>1, <1>3, <1>4, <1>9, <1>10, NoRequestMoves

LEMMA AuthorityStep ==
  ASSUME IInv,
         \/ \E a \in Resources, s \in ResourceStates : UpdateResource(a, s)
         \/ \E k \in Clients, s \in ClientStates : ChangeClient(k, s)
  PROVE  IInv'
<1>1. UNCHANGED <<cred, rt, at, pc, ctx, adm>>
  BY DEF UpdateResource, ChangeClient
<1>2. TypeOK' /\ AudienceKnown'
  BY DEF UpdateResource, ChangeClient, IInv, TypeOK, AudienceKnown
<1> QED BY <1>1, <1>2, UnchangedRows, NoRequestMoves

-----------------------------------------------------------------------------
LEMMA StepPreserves == IInv /\ [Next]_vars => IInv'
<1> SUFFICES ASSUME IInv, [Next]_vars PROVE IInv'
  OBVIOUS
<1>1. CASE UNCHANGED vars
  <2>1. TypeOK' /\ AudienceKnown' /\ UNCHANGED <<rt, pc, ctx>>
    BY <1>1 DEF vars, IInv, TypeOK, AudienceKnown
  <2> QED BY <2>1, UnchangedRows, NoRequestMoves
<1>2. ASSUME NEW r \in Requests, RequestStep(r) PROVE IInv'
  BY <1>2, ExchangeBeginStep, ResolveCredentialStep, RefreshBeginStep, ReadStep, ReadTokenStep, StoreAccessTokenStep,
     InsertRootTokenStep, UndoRootTokenStep, RotateStep, RevokeFamilyStep
  DEF RequestStep, HandlerStep
<1>3. ASSUME NEW t \in Requests, ExpireRefresh(t) PROVE IInv'
  BY <1>3, ExpireRefreshStep
<1>4. CASE ManagementStep
  BY <1>4, ValidatePatchStep, WriteCredentialStep, DeleteCredentialStep, DeleteResourceStep,
     AuthorityStep
  DEF ManagementStep
<1> QED BY <1>1, <1>2, <1>3, <1>4 DEF Next

(* Every reachable state satisfies the invariant above: whatever requests  *)
(* and managers do, in whatever order, token rows stay as rotation and     *)
(* revocation leave them.                                                  *)
THEOREM InductiveInvariant == Spec => []IInv
  BY InitEstablishes, StepPreserves, PTL DEF Spec

(* Every value the model computes is one the tables and handlers can hold. *)
THEOREM TypeCorrect == Spec => []TypeOK
<1>1. IInv => TypeOK
  BY DEF IInv
<1> QED BY InductiveInvariant, <1>1, PTL

(* refreshToken and rotateRefreshToken: concurrent presentations of the    *)
(* tokens of a family leave at most one that can still be rotated.         *)
THEOREM AtMostOneLiveToken == Spec => []OneLivePerFamily
<1>1. IInv => OneLivePerFamily
  BY DEF IInv
<1> QED BY InductiveInvariant, <1>1, PTL

(* revokeRefreshTokenFamily and deleteResource leave no live row behind,   *)
(* and no rotation in flight adds one.                                     *)
THEOREM RevocationIsComplete == Spec => []RevokedFamilyHasNoLiveToken
<1>1. IInv => RevokedFamilyHasNoLiveToken
  BY DEF IInv
<1> QED BY InductiveInvariant, <1>1, PTL

(* Of all the requests presenting one refresh token, at most one is        *)
(* answered with tokens.                                                   *)
THEOREM RefreshTokenIsOneTime == Spec => []OneWinnerPerToken
<1>1. IInv => OneWinnerPerToken
  BY DEF IInv
<1> QED BY InductiveInvariant, <1>1, PTL

-----------------------------------------------------------------------------
(* Every step keeps the rows it finds, or mints one.                       *)
LEMMA KeepsOrMints ==
  IInv /\ [Next]_vars =>
    \/ RowsKept
    \/ \E r \in Requests : InsertRootToken(r) \/ Rotate(r)
<1> SUFFICES ASSUME IInv, [Next]_vars, \A r \in Requests : ~InsertRootToken(r) /\ ~Rotate(r)
             PROVE  RowsKept
  OBVIOUS
<1>1. CASE UNCHANGED vars
  BY <1>1, UnchangedRows DEF vars
<1>2. ASSUME NEW r \in Requests, RequestStep(r) PROVE RowsKept
  <2>1. CASE RevokeFamily(r) \/ UndoRootToken(r)
    BY <2>1, RevokeFamilyStep, UndoRootTokenStep
  <2>2. CASE \/ \E k \in Clients : ExchangeBegin(r, k)
             \/ \E c \in Credentials : ResolveCredential(r, c)
    BY <2>2, UnchangedRows DEF ExchangeBegin, ResolveCredential
  <2>3. CASE \E k \in Clients, t \in Requests : RefreshBegin(r, k, t)
    BY <2>3, UnchangedRows DEF RefreshBegin
  <2>4. CASE ExchangeVerify(r) \/ StoreAccessToken(r) \/ CheckFamily(r) \/ ReadToken(r)
             \/ ReadCredential(r) \/ ReadAudience(r) \/ ResolveScopes(r)
    <3>1. UNCHANGED rt
      BY <2>4 DEF ExchangeVerify, StoreAccessToken, CheckFamily, ReadToken, ReadCredential,
                  ReadAudience, ResolveScopes
    <3> QED BY <3>1, UnchangedRows
  <2> QED BY <1>2, <2>1, <2>2, <2>3, <2>4 DEF RequestStep, HandlerStep
<1>3. ASSUME NEW t \in Requests, ExpireRefresh(t) PROVE RowsKept
  BY <1>3, ExpireRefreshStep
<1>4. CASE ManagementStep
  <2>1. CASE \/ \E c \in Credentials : DeleteCredential(c)
             \/ \E a \in Resources : DeleteResource(a)
    BY <2>1, DeleteCredentialStep, DeleteResourceStep
  <2>2. CASE \/ \E p \in Patch : ValidatePatch(p)
             \/ WriteCredential
             \/ \E a \in Resources, s \in ResourceStates : UpdateResource(a, s)
             \/ \E k \in Clients, s \in ClientStates : ChangeClient(k, s)
    <3>1. UNCHANGED rt
      BY <2>2 DEF ValidatePatch, WriteCredential, UpdateResource, ChangeClient
    <3> QED BY <3>1, UnchangedRows
  <2> QED BY <1>4, <2>1, <2>2 DEF ManagementStep
<1> QED BY <1>1, <1>2, <1>3, <1>4 DEF Next

LEMMA DeadFamilyStep ==
  IInv /\ [Next]_vars =>
    \A f \in Requests : Family(f) # {} /\ LiveIn(f) = {} => LiveIn(f)' = {}
<1> SUFFICES ASSUME IInv, [Next]_vars, NEW f \in Requests, Family(f) # {}, LiveIn(f) = {}
             PROVE  LiveIn(f)' = {}
  OBVIOUS
<1>1. CASE RowsKept
  BY <1>1 DEF RowsKept, LiveIn, Family, Live
<1>2. ASSUME NEW r \in Requests, InsertRootToken(r) PROVE LiveIn(f)' = {}
  <2>1. f # r
    BY <1>2 DEF IInv, Fresh, InsertRootToken, Family, Unopened
  <2>2. \A t \in Requests : rt'[t] = rt[t] \/ (t = r /\ rt'[t] = NewRow(r))
    BY <1>2 DEF InsertRootToken, IInv, TypeOK
  <2>3. NewRow(r).family = r
    BY <1>2 DEF NewRow, InsertRootToken, IInv, ExchangeContext, ExchangeSteps
  <2> QED BY <2>1, <2>2, <2>3 DEF LiveIn, Family, Live, IsRefresh
<1>3. ASSUME NEW r \in Requests, Rotate(r) PROVE LiveIn(f)' = {}
  <2>1. CASE UNCHANGED tokens
    BY <2>1 DEF tokens, LiveIn, Family, Live, IsRefresh
  <2>2. CASE ParentIsActive(ctx[r].token) /\ rt' = ParentConsumed(r)
    <3>1. /\ ctx[r].token \in Requests
          /\ IsRefresh(ctx[r].token) => rt[ctx[r].token].family = ctx[r].family
      BY <1>3 DEF IInv, RefreshContext, Rotate, RefreshSteps
    <3>2. PICK p \in Requests : p = ctx[r].token
      BY <3>1
    <3>3. Live(p) /\ IsRefresh(p) /\ rt[p].family = ctx[r].family
      BY <2>2, <3>1, <3>2 DEF ParentIsActive, Live
    <3>4. ctx[r].family # f
      BY <3>3 DEF LiveIn, Family
    <3>5. rt[p] \in RefreshRow
      BY <3>3, RowIsARow DEF IInv
    <3>6. /\ rt'[p] = [rt[p] EXCEPT !.consumed = TRUE] \/ rt'[p] = NewRow(r)
          /\ \A t \in Requests : t # p => rt'[t] = rt[t] \/ rt'[t] = NewRow(r)
      BY <2>2, <3>2 DEF ParentConsumed, IInv, TypeOK
    <3>7. rt'[p].family # f
      BY <3>3, <3>4, <3>5, <3>6 DEF NewRow, RefreshRow
    <3>8. NewRow(r).family = ctx[r].family
      BY DEF NewRow
    <3> QED BY <3>4, <3>6, <3>7, <3>8 DEF LiveIn, Family, Live, IsRefresh
  <2> QED BY <1>3, <2>1, <2>2 DEF Rotate
<1> QED BY <1>1, <1>2, <1>3, KeepsOrMints

(* A family that has lost its live row never has one again, whichever      *)
(* rotations were in flight and whatever is re-enabled afterwards.         *)
THEOREM DeadFamiliesStayDead == Spec => DeadFamilyStaysDead
  BY InductiveInvariant, DeadFamilyStep, PTL DEF Spec, DeadFamilyStaysDead

-----------------------------------------------------------------------------
(* The rows implement TokenFamily.  A statement that mints nothing lets     *)
(* families and tokens go; the insert of a root opens a family; a rotation  *)
(* hands one over.                                                          *)

(* The token valid in a family, and the tokens that can no longer be       *)
(* introduced: the refinement mapping by name.                             *)
Holder(f) == IF pc[f] \in Unopened THEN {None} ELSE LiveIn(f)
Minted == {{q} : q \in {p \in Requests : pc[p] \in Spent}}

(* No request goes back before the opening of its family, or takes back    *)
(* what it has minted.                                                     *)
RequestsAdvance ==
  \A q \in Requests :
    /\ pc'[q] \in Unopened => pc[q] \in Unopened
    /\ pc[q] \in Spent => pc'[q] \in Spent

LEMMA RequestAdvances ==
  ASSUME TypeOK, NEW r \in Requests, RequestStep(r)
  PROVE  RequestsAdvance
<1> USE DEF Unopened, Spent, Finished, Goto, Await
<1>1. PICK step : pc' = [pc EXCEPT ![r] = step] /\ (step \in Unopened => pc[r] \in Unopened)
                   /\ (pc[r] \in Spent => step \in Spent)
  <2>1. CASE \/ \E k \in Clients : ExchangeBegin(r, k)
             \/ \E k \in Clients, t \in Requests : RefreshBegin(r, k, t)
    BY <2>1 DEF ExchangeBegin, RefreshBegin
  <2>2. CASE \E c \in Credentials : ResolveCredential(r, c)
    BY <2>2 DEF ResolveCredential
  <2>3. CASE ExchangeVerify(r) \/ StoreAccessToken(r) \/ InsertRootToken(r)
    BY <2>3 DEF ExchangeVerify, StoreAccessToken, InsertRootToken
  <2>4. CASE CheckFamily(r) \/ UndoRootToken(r)
    BY <2>4 DEF CheckFamily, UndoRootToken
  <2>5. CASE ReadToken(r) \/ ReadCredential(r) \/ ReadAudience(r)
    BY <2>5 DEF ReadToken, ReadCredential, ReadAudience
  <2>6. CASE ResolveScopes(r) \/ Rotate(r) \/ RevokeFamily(r)
    BY <2>6 DEF ResolveScopes, Rotate, RevokeFamily
  <2> QED BY <2>1, <2>2, <2>3, <2>4, <2>5, <2>6 DEF RequestStep, HandlerStep
<1>2. \A q \in Requests : pc'[q] = IF q = r THEN step ELSE pc[q]
  BY <1>1 DEF TypeOK
<1> QED BY <1>1, <1>2 DEF RequestsAdvance

LEMMA StepAdvances == IInv /\ [Next]_vars => RequestsAdvance
<1> SUFFICES ASSUME IInv, [Next]_vars PROVE RequestsAdvance
  OBVIOUS
<1>1. CASE \E r \in Requests : RequestStep(r)
  BY <1>1, RequestAdvances DEF IInv
<1>2. CASE UNCHANGED pc
  BY <1>2 DEF RequestsAdvance
<1> QED BY <1>1, <1>2 DEF Next, vars, ExpireRefresh, ManagementStep, ValidatePatch, WriteCredential,
            DeleteCredential, DeleteResource, UpdateResource, ChangeClient

(* A family has no live row, or one.                                       *)
LEMMA LiveInIsOne ==
  ASSUME OneLivePerFamily, NEW f, NEW S \in SUBSET LiveIn(f)
  PROVE  S = {} \/ S = LiveIn(f)
  BY DEF OneLivePerFamily, LiveIn, Family, Live

LEMMA RetireStep ==
  ASSUME IInv, RowsKept, RequestsAdvance
  PROVE  Abstract!Next
<1> DEFINE F == {f \in Requests : Holder(f)' # Holder(f)}
<1>1. ASSUME NEW f \in F PROVE Holder(f)' = {}
  <2>1. pc'[f] \notin Unopened
    BY DEF RequestsAdvance, Holder
  <2>2. LiveIn(f)' \subseteq LiveIn(f)
    BY DEF LiveIn, Family, RowsKept
  <2>3. CASE pc[f] \in Unopened
    <3>1. Family(f) = {}
      BY <2>3 DEF IInv, Fresh, Family
    <3> QED BY <2>1, <2>2, <3>1 DEF Holder, LiveIn
  <2>4. CASE pc[f] \notin Unopened
    <3>1. OneLivePerFamily
      BY DEF IInv
    <3>2. LiveIn(f)' = {} \/ LiveIn(f)' = LiveIn(f)
      BY <2>2, <3>1, LiveInIsOne
    <3> QED BY <2>1, <2>4, <3>2 DEF Holder
  <2> QED BY <2>3, <2>4
<1>2. [f \in Requests |-> Holder(f)'] = [f \in Requests |-> IF f \in F THEN {} ELSE Holder(f)]
  BY <1>1
<1>3. Minted \subseteq Minted' /\ Minted' \in SUBSET {{q} : q \in Requests}
  BY DEF Minted, RequestsAdvance
<1>4. Minted' = Minted \cup Minted'
  BY <1>3
<1>5. PICK G \in SUBSET Requests, T \in SUBSET {{q} : q \in Requests} : G = F /\ T = Minted'
  BY <1>3
<1>6. Abstract!Retire(G, T)
  BY <1>2, <1>4, <1>5 DEF Abstract!Retire, Holder, Minted
<1> QED BY <1>6 DEF Abstract!Next

LEMMA OpenStep ==
  ASSUME IInv, NEW r \in Requests, InsertRootToken(r), ~UNCHANGED rt
  PROVE  Abstract!Next
<1>1. /\ pc[r] = "x_refresh"
      /\ \A q \in Requests : pc'[q] = IF q = r THEN "x_check" ELSE pc[q]
      /\ \A t \in Requests : rt'[t] = IF t = r THEN NewRow(r) ELSE rt[t]
  BY DEF InsertRootToken, IInv, TypeOK, Goto, Await
<1>2. /\ NewRow(r) # NoRow /\ NewRow(r).family = r
      /\ ~NewRow(r).consumed /\ ~NewRow(r).revoked
  BY <1>1, ConstantsAssumption DEF NewRow, NoRow, IInv, ExchangeContext, ExchangeSteps
<1>3. Holder(r) = {None} /\ Family(r) = {}
  BY <1>1 DEF Holder, Unopened, IInv, Fresh, Family
<1>4. LiveIn(r)' = {r}
  BY <1>1, <1>2, <1>3 DEF LiveIn, Family, Live, IsRefresh
<1>a. ~IsRefresh(r)
  BY <1>1 DEF IInv, Fresh, Unopened
<1>5. \A f \in Requests : f # r => LiveIn(f)' = LiveIn(f)
  BY <1>1, <1>2, <1>a DEF LiveIn, Family, Live, IsRefresh
<1>6. \A f \in Requests : Holder(f)' = IF f = r THEN {r} ELSE Holder(f)
  BY <1>1, <1>4, <1>5 DEF Holder, Unopened
<1>7. Minted' = Minted \cup {{r}} /\ {r} \notin Minted
  BY <1>1 DEF Minted, Spent, Finished
<1>8. Abstract!Open(r, {r})
  BY <1>3, <1>6, <1>7 DEF Abstract!Open, Holder, Minted
<1> QED BY <1>8 DEF Abstract!Next

LEMMA AdvanceStep ==
  ASSUME IInv, NEW r \in Requests, Rotate(r), ~UNCHANGED rt
  PROVE  Abstract!Next
<1>0. PICK f \in Requests, p \in Requests : f = ctx[r].family /\ p = ctx[r].token
  BY DEF Rotate, IInv, RefreshContext, RefreshSteps
<1>1. /\ pc[r] = "r_rotate"
      /\ pc[f] \notin Unopened
      /\ ParentIsActive(p) /\ rt' = ParentConsumed(r)
      /\ ~IsRefresh(r) /\ rt[p].family = f
  BY <1>0 DEF Rotate, tokens, IInv, RefreshContext, RefreshSteps, Fresh, ParentIsActive
<1>2. \A q \in Requests : pc'[q] = IF q = r THEN "issued" ELSE pc[q]
  BY <1>1 DEF Rotate, IInv, TypeOK, Goto, Await, tokens
<1>3. /\ Live(p) /\ IsRefresh(p) /\ p # r
      /\ rt[p] \in RefreshRow
  BY <1>1, RowIsARow DEF ParentIsActive, Live, IInv
<1>4. \A t \in Requests : rt'[t] = IF t = r THEN NewRow(r)
                                   ELSE IF t = p THEN [rt[p] EXCEPT !.consumed = TRUE]
                                   ELSE rt[t]
  BY <1>0, <1>1, <1>3 DEF ParentConsumed, IInv, TypeOK
<1>5. /\ NewRow(r) # NoRow /\ NewRow(r).family = f
      /\ ~NewRow(r).consumed /\ ~NewRow(r).revoked
  BY <1>0, ConstantsAssumption DEF NewRow, NoRow
<1>6. rt'[p].consumed /\ rt'[p].family = f
  BY <1>1, <1>3, <1>4 DEF RefreshRow
<1>7. LiveIn(f) = {p}
  BY <1>1, <1>3 DEF IInv, OneLivePerFamily, LiveIn, Family, Live
<1>8. LiveIn(f)' = {r}
  BY <1>1, <1>4, <1>5, <1>6, <1>7 DEF LiveIn, Family, Live, IsRefresh
<1>9. \A g \in Requests : g # f => LiveIn(g)' = LiveIn(g)
  BY <1>1, <1>4, <1>5, <1>6 DEF LiveIn, Family, Live, IsRefresh
<1>10. \A g \in Requests : Holder(g)' = IF g = f THEN {r} ELSE Holder(g)
  BY <1>1, <1>2, <1>8, <1>9 DEF Holder, Unopened
<1>11. Minted' = Minted \cup {{r}} /\ {r} \notin Minted
  BY <1>1, <1>2 DEF Minted, Spent, Finished
<1>12. Holder(f) \in {{q} : q \in Requests}
  BY <1>1, <1>7 DEF Holder
<1>13. Abstract!Advance(f, {r})
  BY <1>1, <1>10, <1>11, <1>12 DEF Abstract!Advance, Holder, Minted
<1> QED BY <1>1, <1>13 DEF Abstract!Next

(* A step that mints no row retires, one that mints a root opens and one    *)
(* that mints a child advances.                                            *)
LEMMA StepRefines == IInv /\ [Next]_vars => [Abstract!Next]_(Abstract!vars)
<1> SUFFICES ASSUME IInv, [Next]_vars PROVE Abstract!Next
  OBVIOUS
<1>1. RequestsAdvance
  BY StepAdvances
<1>2. CASE RowsKept
  BY <1>1, <1>2, RetireStep
<1>3. CASE UNCHANGED rt
  BY <1>1, <1>3, UnchangedRows, RetireStep
<1>4. ASSUME NEW r \in Requests, InsertRootToken(r) PROVE Abstract!Next
  BY <1>3, <1>4, OpenStep
<1>5. ASSUME NEW r \in Requests, Rotate(r) PROVE Abstract!Next
  BY <1>3, <1>5, AdvanceStep
<1> QED BY <1>2, <1>4, <1>5, KeepsOrMints

LEMMA InitRefines == Init => Abstract!Init
  BY DEF Init, Abstract!Init, Unopened, Spent, Finished

(* What storeRefreshToken, rotateRefreshToken, revokeRefreshTokenFamily and *)
(* deleteResource do to the rows is what a family of one-time tokens        *)
(* promises: opened once, one valid token, handed over only to a token      *)
(* never seen before, and dead for good.                                    *)
THEOREM TokensImplementFamily == Spec => ImplementsTokenFamily
  BY InductiveInvariant, StepRefines, InitRefines, PTL DEF Spec, ImplementsTokenFamily, Abstract!Spec
=============================================================================

--------------------------- MODULE PlatformProofs ---------------------------
(***************************************************************************)
(* TLAPS proofs about the parts of MCPlatform, for all sets of invocations,*)
(* Users, fields and proofs and all bounds.  A part's invariant is stated  *)
(* in its own module (IInv) and its variables go here by the names of the  *)
(* pool: step is the part's pc, known its ctx, x1 to x8 its other variables*)
(* in the order in which MCPlatform substitutes them.                      *)
(***************************************************************************)
EXTENDS MCPlatform, WebhookDeliveryProofs

-----------------------------------------------------------------------------
(* ProofReplay: x1 is now, x2 issuedAt, x3 jtis, x4 acceptances.           *)

LEMMA ReplayInit == Replay!Init => Replay!IInv
  BY BoundsAssumption DEF Replay!Init, Replay!IInv, Replay!TypeOK, Replay!HeldIsSigned,
     Replay!AcceptedIsSigned, Replay!ReadingsArePast, Replay!ForgottenIsExpired, Replay!Times,
     Replay!Context, Replay!NoContext

(* An invocation goes on with a proof that was signed and a past reading.  *)
LEMMA ReplayAwait ==
  ASSUME Replay!IInv, NEW w \in Handlers,
         NEW s \in {"idle", "hashed", "batch"}, NEW c \in Replay!Context, Replay!Await(w, s, c),
         s # "idle" => c.proof \in Proofs /\ x2[c.proof] # None,
         c.createdAt <= x1, UNCHANGED <<x1, x2>>
  PROVE  /\ step' \in [Handlers -> {"idle", "hashed", "batch"}]
         /\ known' \in [Handlers -> Replay!Context]
         /\ Replay!HeldIsSigned' /\ Replay!ReadingsArePast'
  BY DEF Replay!IInv, Replay!TypeOK, Replay!HeldIsSigned, Replay!ReadingsArePast, Replay!Await

LEMMA ReplayConsume ==
  ASSUME Replay!IInv, NEW w \in Handlers, Replay!Consume(w)
  PROVE  Replay!IInv' /\ Replay!AgainOnceExpired
<1> DEFINE p == known[w].proof
           kept == {q \in x3 : ~Replay!Expired(q, known[w].createdAt)}
<1>1. p \in Proofs /\ x2[p] \in Replay!Times
  BY DEF Replay!IInv, Replay!TypeOK, Replay!HeldIsSigned, Replay!Consume
<1>2. /\ Replay!HeldIsSigned' /\ Replay!ReadingsArePast'
      /\ step' \in [Handlers -> {"idle", "hashed", "batch"}] /\ known' \in [Handlers -> Replay!Context]
  BY ReplayAwait, BoundsAssumption
     DEF Replay!Consume, Replay!NoContext, Replay!Context, Replay!Times, Replay!IInv, Replay!TypeOK
<1>3. ASSUME NEW q \in x3, q \notin kept, x4[q] > 0
      PROVE  x1 > Replay!ExpiresAt(q)
  <2>1. q \in Proofs /\ x2[q] \in Int /\ x1 \in Int /\ known[w].createdAt \in Int /\ Window \in Int
    BY <1>3, BoundsAssumption DEF Replay!IInv, Replay!TypeOK, Replay!AcceptedIsSigned, Replay!Times, Replay!Context
  <2>2. known[w].createdAt <= x1
    BY DEF Replay!IInv, Replay!ReadingsArePast
  <2> QED BY <1>3, <2>1, <2>2 DEF Replay!Expired, Replay!ExpiresAt
<1>4. CASE p \in kept
  <2>1. UNCHANGED <<x1, x2, x3, x4>>
    BY <1>4 DEF Replay!Consume
  <2> QED BY <1>2, <2>1 DEF Replay!IInv, Replay!TypeOK, Replay!AcceptedIsSigned, Replay!ForgottenIsExpired,
        Replay!ExpiresAt, Replay!AgainOnceExpired
<1>5. CASE p \notin kept
  <2>1. /\ UNCHANGED <<x1, x2>>
        /\ x4[p] < 2 /\ x3' = kept \cup {p} /\ x4' = [x4 EXCEPT ![p] = x4[p] + 1]
    BY <1>5 DEF Replay!Consume
  <2>2. x3' \subseteq Proofs /\ x4' \in [Proofs -> 0 .. 2]
    BY <1>1, <2>1 DEF Replay!IInv, Replay!TypeOK
  <2>3. Replay!AcceptedIsSigned'
    BY <1>1, <2>1, PartsNoneAssumption DEF Replay!IInv, Replay!TypeOK, Replay!AcceptedIsSigned, Replay!Times
  <2>4. ASSUME NEW q \in Proofs, x4'[q] > 0
        PROVE  q \in x3' \/ x1' > Replay!ExpiresAt(q)'
    <3>1. q # p => x4[q] > 0
      BY <1>1, <2>1, <2>4 DEF Replay!IInv, Replay!TypeOK
    <3> QED BY <1>3, <2>1, <3>1 DEF Replay!IInv, Replay!ForgottenIsExpired, Replay!ExpiresAt
  <2>5. Replay!AgainOnceExpired
    <3>1. SUFFICES ASSUME NEW q \in Proofs, x4[q] > 0, x4'[q] # x4[q]
                   PROVE  x1 > Replay!ExpiresAt(q)
      BY DEF Replay!AgainOnceExpired
    <3>2. q = p
      BY <1>1, <2>1, <3>1 DEF Replay!IInv, Replay!TypeOK
    <3> QED BY <1>3, <1>5, <3>1, <3>2 DEF Replay!IInv, Replay!ForgottenIsExpired
  <2> QED BY <1>2, <2>1, <2>2, <2>3, <2>4, <2>5 DEF Replay!IInv, Replay!TypeOK, Replay!ForgottenIsExpired
<1> QED BY <1>4, <1>5

LEMMA ReplayStep ==
  ASSUME Replay!IInv, Replay!Next
  PROVE  Replay!IInv' /\ Replay!AgainOnceExpired
<1>1. CASE Replay!Tick
  <2>1. x1 \in Nat /\ x1' \in Replay!Times /\ x1' = x1 + 1 /\ UNCHANGED <<x2, x3, x4, step, known>>
    BY <1>1, BoundsAssumption DEF Replay!Tick, Replay!IInv, Replay!TypeOK, Replay!Times
  <2>2. Replay!ReadingsArePast'
    BY <2>1 DEF Replay!IInv, Replay!ReadingsArePast, Replay!TypeOK, Replay!Context, Replay!Times
  <2>3. Replay!ForgottenIsExpired'
    <3>1. ASSUME NEW p \in Proofs, x4[p] > 0 PROVE p \in x3 \/ x1 + 1 > Replay!ExpiresAt(p)
      <4>1. x2[p] \in Nat /\ Window \in Nat
        BY <3>1, BoundsAssumption DEF Replay!IInv, Replay!TypeOK, Replay!AcceptedIsSigned, Replay!Times
      <4> QED BY <2>1, <3>1, <4>1 DEF Replay!IInv, Replay!ForgottenIsExpired, Replay!ExpiresAt
    <3> QED BY <2>1, <3>1 DEF Replay!ForgottenIsExpired, Replay!ExpiresAt
  <2> QED BY <2>1, <2>2, <2>3 DEF Replay!IInv, Replay!TypeOK, Replay!HeldIsSigned,
        Replay!AcceptedIsSigned, Replay!AgainOnceExpired
<1>2. ASSUME NEW p \in Proofs, NEW iat \in Replay!Times, Replay!Sign(p, iat)
      PROVE  Replay!IInv' /\ Replay!AgainOnceExpired
  <2>1. /\ x2[p] = None /\ x2' = [x2 EXCEPT ![p] = iat] /\ iat # None
        /\ UNCHANGED <<x1, x3, x4, step, known>>
    BY <1>2, PartsNoneAssumption DEF Replay!Sign, Replay!Times
  <2> QED BY <2>1 DEF Replay!IInv, Replay!TypeOK, Replay!HeldIsSigned, Replay!AcceptedIsSigned,
        Replay!ReadingsArePast, Replay!ForgottenIsExpired, Replay!ExpiresAt, Replay!AgainOnceExpired
<1>3. ASSUME NEW w \in Handlers, Replay!ReadClock(w) \/ Replay!Abandon(w) \/ \E p \in Proofs : Replay!Check(w, p)
      PROVE  Replay!IInv' /\ Replay!AgainOnceExpired
  <2>1. UNCHANGED <<x1, x2, x3, x4>>
    BY <1>3 DEF Replay!ReadClock, Replay!Abandon, Replay!Check
  <2>2. /\ Replay!HeldIsSigned' /\ Replay!ReadingsArePast'
        /\ step' \in [Handlers -> {"idle", "hashed", "batch"}] /\ known' \in [Handlers -> Replay!Context]
    <3>1. known[w] \in Replay!Context /\ x1 \in Replay!Times /\ Replay!NoContext \in Replay!Context
      BY BoundsAssumption DEF Replay!IInv, Replay!TypeOK, Replay!Context, Replay!NoContext, Replay!Times
    <3>2. CASE Replay!ReadClock(w)
      <4>1. [known[w] EXCEPT !.createdAt = x1] \in Replay!Context
        BY <3>1 DEF Replay!Context
      <4> QED BY <2>1, <3>1, <3>2, <4>1, ReplayAwait, BoundsAssumption
            DEF Replay!ReadClock, Replay!Context, Replay!Times, Replay!IInv, Replay!HeldIsSigned
    <3>3. CASE Replay!Abandon(w)
      BY <2>1, <3>1, <3>3, ReplayAwait, BoundsAssumption DEF Replay!Abandon, Replay!NoContext, Replay!Times
    <3>4. ASSUME NEW p \in Proofs, Replay!Check(w, p)
          PROVE  /\ Replay!HeldIsSigned' /\ Replay!ReadingsArePast'
                 /\ step' \in [Handlers -> {"idle", "hashed", "batch"}] /\ known' \in [Handlers -> Replay!Context]
      <4>1. [Replay!NoContext EXCEPT !.proof = p] \in Replay!Context
        BY <3>1 DEF Replay!Context, Replay!NoContext
      <4> QED BY <2>1, <3>1, <3>4, <4>1, ReplayAwait, BoundsAssumption
            DEF Replay!Check, Replay!NoContext, Replay!Times
    <3> QED BY <1>3, <3>2, <3>3, <3>4
  <2> QED BY <2>1, <2>2 DEF Replay!IInv, Replay!TypeOK, Replay!AcceptedIsSigned, Replay!ForgottenIsExpired,
        Replay!ExpiresAt, Replay!AgainOnceExpired
<1>4. ASSUME NEW w \in Handlers, Replay!Consume(w) PROVE Replay!IInv' /\ Replay!AgainOnceExpired
  BY <1>4, ReplayConsume
<1> QED BY <1>1, <1>2, <1>3, <1>4 DEF Replay!Next

-----------------------------------------------------------------------------
(* SiteSettings: x1 is document, x2 accepted, x3 replacedAt, x4 cached,    *)
(* x5 served, x6 clock.                                                    *)

LEMMA SettingsTypes ==
  /\ Settings!NoRow \in Settings!Document /\ Settings!NoContext \in Settings!Context
  /\ \A c \in Settings!Context : /\ c.read \in Settings!Document /\ c.since \in Nat
                                 /\ c.read.revision \in Nat
  /\ \A c \in Settings!Copy : c.revision \in Nat /\ c.at \in Nat
<1> USE BoundsAssumption
<1>1. Settings!NoRow \in Settings!Document /\ 0 \in Settings!Times
  BY DEF Settings!NoRow, Settings!Document, Settings!Values, Settings!Revisions, Settings!Times
<1>2. Settings!NoContext \in Settings!Context
  BY <1>1 DEF Settings!NoContext, Settings!Context
<1>3. \A c \in Settings!Context : c.read \in Settings!Document /\ c.since \in Nat /\ c.read.revision \in Nat
  BY DEF Settings!Context, Settings!Document, Settings!Revisions, Settings!Times
<1>4. ASSUME NEW c \in Settings!Copy PROVE c.revision \in Nat /\ c.at \in Nat
  BY <1>4 DEF Settings!Copy, Settings!Revisions, Settings!Times
<1> QED BY <1>1, <1>2, <1>3, <1>4

LEMMA SettingsInit == Settings!Init => Settings!IInv
<1> SUFFICES ASSUME Settings!Init PROVE Settings!IInv
  OBVIOUS
<1>1. Settings!NoRow.value \in Settings!Values /\ 0 \in Settings!Times
  BY BoundsAssumption DEF Settings!NoRow, Settings!Values, Settings!Revisions, Settings!Times
<1>2. Settings!TypeOK
  BY <1>1, SettingsTypes DEF Settings!Init, Settings!TypeOK, Settings!Steps
<1>3. Settings!NoAcceptedPatchIsLost /\ Settings!CopyIsRecent
  BY DEF Settings!Init, Settings!NoAcceptedPatchIsLost, Settings!CopyIsRecent
<1>4. Settings!PatchIsMerged /\ Settings!LoadIsShort /\ Settings!LoadedIsRecent
  BY DEF Settings!Init, Settings!PatchIsMerged, Settings!LoadIsShort, Settings!LoadedIsRecent
<1>5. Settings!InForce
  BY DEF Settings!Init, Settings!InForce
<1> QED BY <1>2, <1>3, <1>4, <1>5 DEF Settings!IInv

(* What an invocation may carry at a step, of the rows as they are now.    *)
Carries(s, c) ==
  /\ s = "s_write" =>
       /\ c.field \in Fields /\ c.read.revision <= x1.revision
       /\ x1.revision = c.read.revision => c.read = x1
  /\ s \in {"l_load", "l_cache"} => c.since <= x6 /\ x6 - c.since <= Latency
  /\ s = "l_cache" => x3[c.read.revision] = None \/ c.since <= x3[c.read.revision]

LEMMA SettingsCarried ==
  Settings!PatchIsMerged /\ Settings!LoadIsShort /\ Settings!LoadedIsRecent
    <=> \A w \in Handlers : Carries(step[w], known[w])
  BY DEF Settings!PatchIsMerged, Settings!LoadIsShort, Settings!LoadedIsRecent, Settings!Unchanged, Carries

(* An invocation moves and the rows and the clock stay.                    *)
LEMMA SettingsAwait ==
  ASSUME Settings!IInv, NEW w \in Handlers, NEW s \in Settings!Steps, NEW c \in Settings!Context,
         Settings!Await(w, s, c), Carries(s, c), UNCHANGED <<x1, x2, x3, x6>>,
         x5' \in Settings!Revisions \cup {None}, x4' \in Settings!Copy \cup {None},
         Settings!CopyIsRecent'
  PROVE  Settings!IInv'
<1>1. step' \in [Handlers -> Settings!Steps] /\ known' \in [Handlers -> Settings!Context]
  BY DEF Settings!IInv, Settings!TypeOK, Settings!Await
<1>2. \A v \in Handlers : Carries(step[v], known[v])
  BY SettingsCarried DEF Settings!IInv
<1>3. \A v \in Handlers : Carries(step'[v], known'[v])
  BY <1>2 DEF Settings!Await, Settings!IInv, Settings!TypeOK
<1>4. \A v \in Handlers : Carries(step[v], known[v])'
  BY <1>3 DEF Carries
<1>5. (Settings!PatchIsMerged /\ Settings!LoadIsShort /\ Settings!LoadedIsRecent)'
  BY <1>4 DEF Settings!PatchIsMerged, Settings!LoadIsShort, Settings!LoadedIsRecent, Settings!Unchanged, Carries
<1> QED BY <1>1, <1>5 DEF Settings!IInv, Settings!TypeOK, Settings!NoAcceptedPatchIsLost, Settings!InForce

(* A change is written: it was merged into the document in place, and      *)
(* what is replaced now was in force until now.                            *)
LEMMA SettingsWritten ==
  ASSUME Settings!IInv, NEW w \in Handlers, Settings!WriteSettings(w), Settings!Unchanged(w)
  PROVE  Settings!IInv'
<1> DEFINE next == known[w].read.revision + 1
<1>1. /\ known[w].read = x1 /\ known[w].field \in Fields /\ next \in Settings!Revisions
      /\ x1' = [revision |-> next, value |-> [x1.value EXCEPT ![known[w].field] = next]]
      /\ x2' = [x2 EXCEPT ![known[w].field] = next]
      /\ x3' = [x3 EXCEPT ![x1.revision] = x6]
      /\ Settings!Await(w, "idle", Settings!NoContext)
      /\ x5' = None /\ UNCHANGED <<x4, x6>>
  BY DEF Settings!WriteSettings, Settings!Unchanged, Settings!IInv, Settings!PatchIsMerged, Settings!Answer
<1>2. /\ x1 \in Settings!Document /\ x1.revision \in Nat /\ x2 = x1.value /\ x6 \in Nat
      /\ x3 \in [Settings!Revisions -> Settings!Times \cup {None}] /\ x6 \in Settings!Times
  BY DEF Settings!IInv, Settings!TypeOK, Settings!NoAcceptedPatchIsLost, Settings!Document,
     Settings!Revisions, Settings!Times
<1>3. /\ step' \in [Handlers -> Settings!Steps] /\ known' \in [Handlers -> Settings!Context]
      /\ step'[w] = "idle"
      /\ \A v \in Handlers : v # w => step'[v] = step[v] /\ known'[v] = known[v]
  BY <1>1, SettingsTypes DEF Settings!IInv, Settings!TypeOK, Settings!Await, Settings!Steps
<1>4. x1.revision \in Settings!Revisions /\ x1.value \in Settings!Values
  BY <1>2 DEF Settings!Document
<1>5. x1'.value = x2' /\ x1'.value \in Settings!Values /\ x1' \in Settings!Document /\ x1'.revision = x1.revision + 1
  BY <1>1, <1>2, <1>4 DEF Settings!Values, Settings!Document
<1>6. Settings!TypeOK'
  BY <1>1, <1>2, <1>3, <1>4, <1>5 DEF Settings!IInv, Settings!TypeOK, Settings!Document
<1>7. ASSUME NEW v \in Handlers, step'[v] = "s_write"
      PROVE  /\ known'[v].field \in Fields /\ known'[v].read.revision < x1'.revision
  <2>1. v # w /\ step[v] = "s_write" /\ known[v] \in Settings!Context
    BY <1>3, <1>7 DEF Settings!IInv, Settings!TypeOK
  <2>2. known[v].field \in Fields /\ known[v].read.revision <= x1.revision /\ known[v].read.revision \in Nat
    BY <2>1, SettingsTypes DEF Settings!IInv, Settings!PatchIsMerged
  <2> QED BY <1>2, <1>3, <1>5, <2>1, <2>2
<1>8. Settings!PatchIsMerged'
  <2>1. x1'.revision \in Nat
    BY <1>2, <1>5
  <2>2. ASSUME NEW v \in Handlers, step'[v] = "s_write"
        PROVE  /\ known'[v].field \in Fields /\ known'[v].read.revision <= x1'.revision
               /\ x1'.revision # known'[v].read.revision
    <3>1. known'[v].read.revision \in Nat
      BY <1>3, SettingsTypes
    <3> QED BY <1>7, <2>1, <2>2, <3>1
  <2> QED BY <2>2 DEF Settings!PatchIsMerged, Settings!Unchanged
<1>9. Settings!LoadIsShort'
  BY <1>1, <1>3 DEF Settings!IInv, Settings!LoadIsShort
<1>10. Settings!LoadedIsRecent'
  <2>1. ASSUME NEW v \in Handlers, step'[v] = "l_cache"
        PROVE  LET at == x3'[known'[v].read.revision] IN at = None \/ known'[v].since <= at
    <3>1. v # w /\ step[v] = "l_cache" /\ known[v] \in Settings!Context /\ known'[v] = known[v]
      BY <1>3, <2>1 DEF Settings!IInv, Settings!TypeOK
    <3>2. known[v].since <= x6
      BY <3>1 DEF Settings!IInv, Settings!LoadIsShort
    <3>3. known[v].read.revision \in Settings!Revisions
      BY <3>1 DEF Settings!Context, Settings!Document
    <3> QED BY <1>1, <1>2, <3>1, <3>2, <3>3 DEF Settings!IInv, Settings!LoadedIsRecent
  <2> QED BY <2>1 DEF Settings!LoadedIsRecent
<1>11. Settings!CopyIsRecent'
  <2>1. CASE x4 = None
    BY <1>1, <2>1 DEF Settings!CopyIsRecent
  <2>2. CASE x4 # None
    <3>1. x4 \in Settings!Copy /\ x4.at <= x6 /\ x4.at \in Nat /\ x4.revision \in Settings!Revisions
      BY <2>2, SettingsTypes DEF Settings!IInv, Settings!TypeOK, Settings!CopyIsRecent, Settings!Copy
    <3>2. x4.revision = x1.revision => x3'[x4.revision] = x6
      BY <1>1, <1>2, <3>1
    <3>3. x4.revision # x1.revision => x3'[x4.revision] = x3[x4.revision]
      BY <1>1, <1>2, <3>1
    <3>4. LET at == x3'[x4.revision] IN at = None \/ x4.at - at <= Latency
      BY <1>2, <2>2, <3>1, <3>2, <3>3, BoundsAssumption DEF Settings!IInv, Settings!CopyIsRecent
    <3> QED BY <1>1, <3>1, <3>4 DEF Settings!CopyIsRecent
  <2> QED BY <2>1, <2>2
<1>12. Settings!InForce'
  <2>1. ASSUME NEW r \in Settings!Revisions, x1'.revision <= r PROVE x3'[r] = None
    <3>1. r \in Nat /\ x1.revision <= r /\ r # x1.revision
      BY <1>2, <1>5, <2>1 DEF Settings!Revisions
    <3> QED BY <1>1, <1>2, <3>1 DEF Settings!IInv, Settings!InForce
  <2> QED BY <2>1 DEF Settings!InForce
<1> QED BY <1>5, <1>6, <1>8, <1>9, <1>10, <1>11, <1>12 DEF Settings!IInv, Settings!NoAcceptedPatchIsLost

(* Time passes only while no load takes longer than Latency.               *)
LEMMA SettingsTick == ASSUME Settings!IInv, Settings!Tick PROVE Settings!IInv'
<1>1. /\ x6 \in Nat /\ x6' = x6 + 1 /\ x6' \in Settings!Times /\ x5' = None
      /\ \A w \in Handlers : step[w] \in {"l_load", "l_cache"} => x6 - known[w].since < Latency
      /\ UNCHANGED <<x1, x2, x3, x4, step, known>>
  BY BoundsAssumption DEF Settings!Tick, Settings!settings, Settings!IInv, Settings!TypeOK, Settings!Times
<1>2. Settings!LoadIsShort'
  <2>1. step' = step /\ known' = known /\ x6' \in Nat
    BY <1>1
  <2>2. ASSUME NEW w \in Handlers, step'[w] \in {"l_load", "l_cache"}
        PROVE  known'[w].since <= x6' /\ x6' - known'[w].since <= Latency
    <3>1. PICK t : t = known[w].since
      OBVIOUS
    <3>2. t \in Nat /\ t <= x6 /\ x6 - t < Latency
      BY <1>1, <2>1, <2>2, <3>1, SettingsTypes DEF Settings!IInv, Settings!TypeOK, Settings!LoadIsShort
    <3>3. t <= x6' /\ x6' - t <= Latency
      BY <1>1, <3>2, BoundsAssumption
    <3> QED BY <2>1, <3>1, <3>3
  <2> QED BY <2>2 DEF Settings!LoadIsShort
<1>3. Settings!CopyIsRecent'
  <2>1. x4 # None => x4.at \in Nat
    BY SettingsTypes DEF Settings!IInv, Settings!TypeOK
  <2> QED BY <1>1, <2>1 DEF Settings!IInv, Settings!CopyIsRecent
<1>4. Settings!TypeOK'
  BY <1>1 DEF Settings!IInv, Settings!TypeOK
<1> QED BY <1>1, <1>2, <1>3, <1>4 DEF Settings!IInv, Settings!NoAcceptedPatchIsLost, Settings!PatchIsMerged,
      Settings!Unchanged, Settings!LoadedIsRecent, Settings!InForce

(* The answer of a load, and a request answered with the copy.             *)
LEMMA SettingsServed ==
  ASSUME Settings!IInv, NEW w \in Handlers, Settings!CachePolicy(w) \/ Settings!Request(w)
  PROVE  Settings!IInv' /\ Settings!ServedIsRecent
<1> USE BoundsAssumption
<1>1. x6 \in Nat /\ x6 \in Settings!Times /\ known[w] \in Settings!Context
      /\ \A r \in Settings!Revisions : x3[r] # None => x3[r] \in Nat
  BY DEF Settings!IInv, Settings!TypeOK, Settings!Times
<1>2. CASE Settings!CachePolicy(w)
  <2> DEFINE r == known[w].read.revision
  <2>1. /\ step[w] = "l_cache" /\ UNCHANGED <<x1, x2, x3, x6>>
        /\ x4' = [revision |-> r, at |-> x6] /\ x5' = r
        /\ Settings!Await(w, "idle", Settings!NoContext)
    BY <1>2 DEF Settings!CachePolicy, Settings!settings, Settings!Answer
  <2>2. r \in Settings!Revisions /\ known[w].since \in Nat /\ r # None
    BY <1>1, SettingsTypes, PartsNoneAssumption DEF Settings!Context, Settings!Document
  <2>3. x3[r] = None \/ x6 - x3[r] <= Latency
    <3>1. /\ x3[r] = None \/ known[w].since <= x3[r]
          /\ x6 - known[w].since <= Latency
      BY <2>1 DEF Settings!IInv, Settings!LoadedIsRecent, Settings!LoadIsShort
    <3> QED BY <1>1, <2>2, <3>1
  <2>4. x4' \in Settings!Copy
    BY <1>1, <2>1, <2>2 DEF Settings!Copy
  <2>5. Settings!CopyIsRecent'
    BY <1>1, <2>1, <2>3 DEF Settings!CopyIsRecent
  <2>6. Settings!IInv'
    <3>1. Carries("idle", Settings!NoContext)
      BY DEF Carries
    <3> QED BY <2>1, <2>2, <2>4, <2>5, <3>1, SettingsTypes, SettingsAwait DEF Settings!Steps
  <2>7. Settings!ServedIsRecent
    BY <1>1, <2>1, <2>2, <2>3 DEF Settings!ServedIsRecent
  <2> QED BY <2>6, <2>7
<1>3. CASE Settings!Request(w) /\ Settings!Young
  <2>1. /\ x4 # None /\ x6 - x4.at < Interval /\ x5' = x4.revision
        /\ UNCHANGED <<x1, x2, x3, x4, x6, step, known>>
    BY <1>3 DEF Settings!Request, Settings!Young, Settings!settings
  <2>2. x4 \in Settings!Copy /\ x4.revision \in Settings!Revisions /\ x4.at \in Nat
    BY <2>1, SettingsTypes DEF Settings!IInv, Settings!TypeOK, Settings!Copy
  <2>3. x3[x4.revision] = None \/ x4.at - x3[x4.revision] <= Latency
    BY <2>1 DEF Settings!IInv, Settings!CopyIsRecent
  <2>4. Settings!ServedIsRecent
    BY <1>1, <2>1, <2>2, <2>3 DEF Settings!ServedIsRecent
  <2>5. Settings!IInv'
    BY <2>1, <2>2 DEF Settings!IInv, Settings!TypeOK, Settings!NoAcceptedPatchIsLost, Settings!PatchIsMerged,
       Settings!Unchanged, Settings!InForce, Settings!LoadIsShort, Settings!LoadedIsRecent, Settings!CopyIsRecent
  <2> QED BY <2>4, <2>5
<1>4. CASE Settings!Request(w) /\ ~Settings!Young
  <2> DEFINE c == [Settings!NoContext EXCEPT !.since = x6]
  <2>1. Settings!Await(w, "l_load", c) /\ x5' = None /\ UNCHANGED <<x1, x2, x3, x4, x6>>
    BY <1>4 DEF Settings!Request, Settings!settings
  <2>2. c \in Settings!Context /\ c.since = x6
    BY <1>1, SettingsTypes DEF Settings!Context, Settings!NoContext
  <2>3. Carries("l_load", c)
    BY <1>1, <2>2 DEF Carries
  <2>4. Settings!CopyIsRecent' /\ x4' \in Settings!Copy \cup {None}
    BY <2>1 DEF Settings!IInv, Settings!TypeOK, Settings!CopyIsRecent
  <2> HIDE DEF c
  <2>5. Settings!IInv'
    BY <2>1, <2>2, <2>3, <2>4, SettingsAwait DEF Settings!Steps
  <2> QED BY <2>1, <2>5 DEF Settings!ServedIsRecent
<1> QED BY <1>2, <1>3, <1>4

LEMMA SettingsStep ==
  ASSUME Settings!IInv, Settings!Next
  PROVE  Settings!IInv' /\ Settings!ServedIsRecent
<1>1. CASE Settings!Tick
  BY <1>1, SettingsTick DEF Settings!Tick, Settings!ServedIsRecent
<1>2. ASSUME NEW w \in Handlers, Settings!CachePolicy(w) \/ Settings!Request(w)
      PROVE  Settings!IInv' /\ Settings!ServedIsRecent
  BY <1>2, SettingsServed
<1>3. ASSUME NEW w \in Handlers, Settings!WriteSettings(w)
      PROVE  Settings!IInv' /\ Settings!ServedIsRecent
  <2>1. CASE Settings!Unchanged(w)
    BY <1>3, <2>1, SettingsWritten DEF Settings!WriteSettings, Settings!ServedIsRecent
  <2>2. CASE ~Settings!Unchanged(w)
    <3>1. /\ UNCHANGED <<x1, x2, x3, x4, x6>> /\ x5' = None
          /\ Settings!Await(w, "idle", Settings!NoContext)
      BY <1>3, <2>2 DEF Settings!WriteSettings, Settings!settings, Settings!Answer
    <3>2. Settings!CopyIsRecent' /\ x4' \in Settings!Copy \cup {None}
      BY <3>1 DEF Settings!IInv, Settings!TypeOK, Settings!CopyIsRecent
    <3>3. Carries("idle", Settings!NoContext)
      BY DEF Carries
    <3> QED BY <3>1, <3>2, <3>3, SettingsTypes, SettingsAwait DEF Settings!Steps, Settings!ServedIsRecent
  <2> QED BY <2>1, <2>2
<1>4. ASSUME NEW w \in Handlers, Settings!LoadPolicy(w) \/ Settings!Abandon(w) \/ \E f \in Fields : Settings!PatchBegin(w, f)
      PROVE  Settings!IInv' /\ Settings!ServedIsRecent
  <2>1. x5' = None /\ UNCHANGED <<x1, x2, x3, x4, x6>>
    BY <1>4 DEF Settings!LoadPolicy, Settings!Abandon, Settings!PatchBegin, Settings!settings
  <2>2. Settings!CopyIsRecent' /\ x4' \in Settings!Copy \cup {None}
    BY <2>1 DEF Settings!IInv, Settings!TypeOK, Settings!CopyIsRecent
  <2>3. x1 \in Settings!Document /\ known[w] \in Settings!Context /\ x1.revision \in Nat
        /\ x3[x1.revision] = None
    BY BoundsAssumption DEF Settings!IInv, Settings!TypeOK, Settings!Document, Settings!Revisions, Settings!InForce
  <2>4. PICK s \in Settings!Steps, c \in Settings!Context : Settings!Await(w, s, c) /\ Carries(s, c)
    <3>1. CASE Settings!LoadPolicy(w)
      <4>1. PICK c : c = [known[w] EXCEPT !.read = x1]
        OBVIOUS
      <4>a. c \in Settings!Context /\ c.read = x1 /\ c.since = known[w].since
        BY <2>3, <4>1 DEF Settings!Context
      <4>2. Settings!Await(w, "l_cache", c) /\ step[w] = "l_load"
        BY <3>1, <4>1 DEF Settings!LoadPolicy
      <4>3. Carries("l_cache", c)
        BY <2>3, <4>a, <4>2 DEF Carries, Settings!IInv, Settings!LoadIsShort
      <4> QED BY <4>a, <4>2, <4>3 DEF Settings!Steps
    <3>2. CASE Settings!Abandon(w)
      BY <3>2, SettingsTypes DEF Settings!Abandon, Settings!Answer, Settings!Steps, Carries
    <3>3. ASSUME NEW f \in Fields, Settings!PatchBegin(w, f)
          PROVE  \E s \in Settings!Steps, c \in Settings!Context : Settings!Await(w, s, c) /\ Carries(s, c)
      <4>1. PICK c : c = [Settings!NoContext EXCEPT !.read = x1, !.field = f]
        OBVIOUS
      <4>a. c = [read |-> x1, field |-> f, since |-> 0]
        BY <4>1 DEF Settings!NoContext
      <4>b. c \in Settings!Context /\ c.read = x1 /\ c.field = f
        BY <2>3, <4>a, BoundsAssumption DEF Settings!Context, Settings!Times
      <4>2. Settings!Await(w, "s_write", c)
        BY <3>3, <4>1 DEF Settings!PatchBegin
      <4>3. Carries("s_write", c)
        BY <2>3, <4>b DEF Carries
      <4> QED BY <4>b, <4>2, <4>3 DEF Settings!Steps
    <3> QED BY <1>4, <3>1, <3>2, <3>3
  <2> QED BY <2>1, <2>2, <2>4, SettingsAwait DEF Settings!ServedIsRecent
<1> QED BY <1>1, <1>2, <1>3, <1>4 DEF Settings!Next

-----------------------------------------------------------------------------
(* OrganizationMembers: x1 is users, x2 member, x3 role, x4 invitation, x5 *)
(* late, x6 clock.                                                         *)

LEMMA MembersTypes ==
  /\ Members!NoRow.roles = {} /\ Members!NoContext \in Members!Context
  /\ None \notin Members!Stamps
<1>1. 0 \in 0 .. MaxWrites /\ None \notin Members!Stamps
  BY BoundsAssumption, PartsNoneAssumption DEF Members!Stamps
<1>2. Members!NoContext \in Members!Context
  BY <1>1 DEF Members!Context, Members!NoContext
<1>3. Members!NoRow.roles = {}
  BY DEF Members!NoRow
<1> QED BY <1>1, <1>2, <1>3

LEMMA MembersInit == Members!Init => Members!IInv
<1> SUFFICES ASSUME Members!Init PROVE Members!IInv
  OBVIOUS
<1>1. Members!TypeOK
  <2>1. x1 \subseteq Users /\ x3 \in Members!Stamps \cup {None} /\ x5 \in BOOLEAN /\ x6 \in 0 .. MaxWrites
    <3>1. x6 = 0 /\ x1 = {} /\ x3 = None /\ x5 = FALSE
      BY DEF Members!Init
    <3>2. x1 \subseteq Users
      BY <3>1
    <3>3. x3 \in Members!Stamps \cup {None}
      BY <3>1
    <3>4. x5 \in BOOLEAN
      BY <3>1
    <3>5. x6 \in 0 .. MaxWrites
      BY <3>1, BoundsAssumption
    <3> QED BY <3>2, <3>3, <3>4, <3>5
  <2>2. x2 \in [Users -> Members!Member \cup {Members!NoRow}]
    BY DEF Members!Init
  <2>3. x4 \in Members!Invited \cup {Members!NoInvitation}
    BY DEF Members!Init
  <2>4. step \in [Handlers -> Members!Steps]
    BY DEF Members!Init, Members!Steps
  <2>5. known \in [Handlers -> Members!Context]
    BY MembersTypes DEF Members!Init
  <2> QED BY <2>1, <2>2, <2>3, <2>4, <2>5 DEF Members!TypeOK
<1>2. Members!RolesExist
  BY MembersTypes DEF Members!Init, Members!RolesExist, Members!KnownRoles, Members!Dynamic, Members!NoInvitation
<1>3. \A w \in Handlers : Members!Given(w)
  BY DEF Members!Init, Members!Given
<1> QED BY <1>1, <1>2, <1>3 DEF Members!IInv

(* Rows a step may leave: typed, and with the Roles they name.             *)
MemberRows ==
  /\ x1' \subseteq Users
  /\ x2' \in [Users -> Members!Member \cup {Members!NoRow}]
  /\ x3' \in Members!Stamps \cup {None}
  /\ x4' \in Members!Invited \cup {Members!NoInvitation}
  /\ x5' \in BOOLEAN
  /\ x6' \in 0 .. MaxWrites
  /\ Members!RolesExist'

LEMMA MembersSame ==
  ASSUME Members!IInv, UNCHANGED <<x1, x2, x3, x4, x5, x6>>
  PROVE  MemberRows /\ Members!OwnerIsKept
  BY DEF Members!IInv, Members!TypeOK, MemberRows, Members!RolesExist, Members!KnownRoles,
     Members!OwnerIsKept, Members!Owners

(* An invocation moves with what it has been given.                        *)
LEMMA MembersAwait ==
  ASSUME Members!IInv, NEW w \in Handlers, NEW s \in Members!Steps, NEW c \in Members!Context,
         Members!Await(w, s, c), MemberRows,
         s \in {"a_insert", "i_insert", "r_validate", "r_count", "r_batch", "x_batch"} => c.user \in Users,
         s \in {"a_insert", "i_insert", "r_validate", "r_count", "r_batch"} => c.roles \in {{"owner"}, {"custom"}}
  PROVE  Members!IInv'
<1>1. step' \in [Handlers -> Members!Steps] /\ known' \in [Handlers -> Members!Context]
  BY DEF Members!IInv, Members!TypeOK, Members!Await
<1>2. \A v \in Handlers : Members!Given(v)'
  BY DEF Members!IInv, Members!TypeOK, Members!Await, Members!Given
<1> QED BY <1>1, <1>2 DEF Members!IInv, Members!TypeOK, MemberRows

LEMMA MembersAnswer ==
  ASSUME Members!IInv, NEW w \in Handlers, Members!Answer(w), MemberRows
  PROVE  Members!IInv'
  BY MembersAwait, MembersTypes DEF Members!Answer, Members!Steps

LEMMA MembersStay ==
  ASSUME Members!IInv, UNCHANGED <<step, known>>, MemberRows
  PROVE  Members!IInv'
  BY DEF Members!IInv, Members!TypeOK, MemberRows, Members!Given

(* A member is given Roles that are known, or late says so, and no Owner   *)
(* is lost by it unless one remains.                                       *)
LEMMA MemberWritten ==
  ASSUME Members!IInv, NEW u \in Users, NEW roles \in {{"owner"}, {"custom"}}, Members!Stamped,
         x2' = [x2 EXCEPT ![u] = [roles |-> roles, updatedAt |-> x6']],
         x5' \in BOOLEAN, x5 => x5', x5' \/ Members!KnownRoles(roles),
         "owner" \in roles \/ Members!LastOwnerGuard(u),
         x1' \subseteq Users, UNCHANGED x3, x4' \in {x4, Members!NoInvitation}
  PROVE  MemberRows /\ Members!OwnerIsKept
<1>1. x2 \in [Users -> Members!Member \cup {Members!NoRow}] /\ x6' \in Members!Stamps
  BY DEF Members!IInv, Members!TypeOK, Members!Stamped
<1>2. [roles |-> roles, updatedAt |-> x6'] \in Members!Member
  BY <1>1 DEF Members!Member
<1>3. /\ x2' \in [Users -> Members!Member \cup {Members!NoRow}] /\ x6' \in 0 .. MaxWrites
      /\ x2'[u].roles = roles /\ \A v \in Users : v # u => x2'[v] = x2[v]
  BY <1>1, <1>2, BoundsAssumption DEF Members!Stamps
<1>4. Members!RolesExist'
  <2>1. SUFFICES ASSUME ~x5' PROVE Members!KnownRoles(x4.roles)' /\ \A v \in Users : Members!KnownRoles(x2[v].roles)'
    BY DEF Members!RolesExist
  <2>2. Members!KnownRoles(x4.roles) /\ \A v \in Users : Members!KnownRoles(x2[v].roles)
    BY <2>1 DEF Members!IInv, Members!RolesExist
  <2>3. Members!KnownRoles(x4.roles)'
    BY <2>2 DEF Members!KnownRoles, Members!NoInvitation
  <2>4. ASSUME NEW v \in Users PROVE Members!KnownRoles(x2[v].roles)'
    BY <1>3, <2>1, <2>2 DEF Members!KnownRoles
  <2> QED BY <2>3, <2>4
<1>5. Members!OwnerIsKept
  <2>1. CASE "owner" \in roles
    BY <1>3, <2>1 DEF Members!OwnerIsKept, Members!Owners
  <2>2. CASE Members!LastOwnerGuard(u)
    BY <1>3, <2>2 DEF Members!OwnerIsKept, Members!Owners, Members!LastOwnerGuard
  <2> QED BY <2>1, <2>2
<1> QED BY <1>1, <1>3, <1>4, <1>5 DEF MemberRows, Members!IInv, Members!TypeOK

(* A member's row goes.                                                    *)
LEMMA MemberGone ==
  ASSUME Members!IInv, NEW u \in Users, x2' = [x2 EXCEPT ![u] = Members!NoRow],
         x1' \subseteq Users, x1' = x1 \ {u} \/ Members!LastOwnerGuard(u),
         UNCHANGED <<x3, x4, x5, x6>>
  PROVE  MemberRows /\ Members!OwnerIsKept
<1>1. /\ x2' \in [Users -> Members!Member \cup {Members!NoRow}]
      /\ x2'[u].roles = {} /\ \A v \in Users : v # u => x2'[v] = x2[v]
  BY MembersTypes DEF Members!IInv, Members!TypeOK
<1>2. Members!RolesExist'
  BY <1>1 DEF Members!IInv, Members!RolesExist, Members!KnownRoles
<1>3. Members!OwnerIsKept
  BY <1>1 DEF Members!OwnerIsKept, Members!Owners, Members!LastOwnerGuard
<1> QED BY <1>1, <1>2, <1>3 DEF MemberRows, Members!IInv, Members!TypeOK

(* The members stay; the Role goes only from under nobody.                 *)
LEMMA MemberRowsKept ==
  ASSUME Members!IInv, UNCHANGED <<x2, x4, x5>>, x1' \subseteq Users, x6' \in 0 .. MaxWrites,
         x3' \in Members!Stamps \cup {None}, x3' = x3 \/ x3' # None \/ Members!Unassigned
  PROVE  MemberRows /\ Members!OwnerIsKept
<1>1. Members!RolesExist'
  <2>1. CASE x3' = x3 \/ x3' # None
    BY <2>1 DEF Members!IInv, Members!RolesExist, Members!KnownRoles
  <2>2. CASE Members!Unassigned
    BY <2>2 DEF Members!IInv, Members!RolesExist, Members!KnownRoles, Members!Unassigned
  <2> QED BY <2>1, <2>2
<1>2. Members!OwnerIsKept
  BY DEF Members!OwnerIsKept, Members!Owners
<1> QED BY <1>1, <1>2 DEF MemberRows, Members!IInv, Members!TypeOK

LEMMA MembersStep ==
  ASSUME Members!IInv, Members!Next
  PROVE  Members!IInv' /\ Members!OwnerIsKept
<1>1. /\ x1 \subseteq Users /\ x3 \in Members!Stamps \cup {None} /\ x5 \in BOOLEAN /\ x6 \in 0 .. MaxWrites
      /\ x2 \in [Users -> Members!Member \cup {Members!NoRow}]
      /\ x4 \in Members!Invited \cup {Members!NoInvitation}
      /\ step \in [Handlers -> Members!Steps] /\ known \in [Handlers -> Members!Context]
      /\ Members!RolesExist /\ \A w \in Handlers : Members!Given(w)
  BY DEF Members!IInv, Members!TypeOK
<1>2. Members!Stamped => x6' \in Members!Stamps /\ x6' \in 0 .. MaxWrites
  BY BoundsAssumption DEF Members!Stamped, Members!Stamps
<1>3. \A u \in Users : Members!IsMember(u) => x2[u] \in Members!Member
  BY <1>1 DEF Members!IsMember
(* Steps of nobody's invocation.                                           *)
<1>4. ASSUME NEW u \in Users, Members!Bootstrap(u)
      PROVE  Members!IInv' /\ Members!OwnerIsKept
  <2>1. Members!KnownRoles({"owner"})
    BY DEF Members!KnownRoles, Members!Dynamic
  <2>2. MemberRows /\ Members!OwnerIsKept
    BY <1>1, <1>4, <2>1, MemberWritten DEF Members!Bootstrap
  <2> QED BY <1>4, <2>2, MembersStay DEF Members!Bootstrap
<1>5. ASSUME NEW u \in Users, Members!SignUp(u)
      PROVE  Members!IInv' /\ Members!OwnerIsKept
  <2>1. MemberRows /\ Members!OwnerIsKept
    BY <1>1, <1>5, MemberRowsKept DEF Members!SignUp
  <2> QED BY <1>5, <2>1, MembersStay DEF Members!SignUp
<1>6. ASSUME NEW u \in Users, Members!DeleteUser(u)
      PROVE  Members!IInv' /\ Members!OwnerIsKept
  <2>1. MemberRows /\ Members!OwnerIsKept
    BY <1>1, <1>6, MemberGone DEF Members!DeleteUser
  <2> QED BY <1>6, <2>1, MembersStay DEF Members!DeleteUser
<1>7. ASSUME NEW u \in Users, Members!UpdateMember(u)
      PROVE  Members!IInv' /\ Members!OwnerIsKept
  <2>1. /\ UNCHANGED <<x1, x3, x4, x5, step, known>> /\ Members!Stamped
        /\ x2' = [x2 EXCEPT ![u].updatedAt = x6'] /\ x2[u] \in Members!Member
    BY <1>3, <1>7 DEF Members!UpdateMember
  <2>2. PICK roles : roles = x2[u].roles
    OBVIOUS
  <2>3. roles \in {{"owner"}, {"custom"}}
    BY <2>1, <2>2 DEF Members!Member
  <2>4. PICK row : row = [x2[u] EXCEPT !.updatedAt = x6'] 
    OBVIOUS
  <2>5. row = [roles |-> roles, updatedAt |-> x6'] /\ x2' = [x2 EXCEPT ![u] = row]
    BY <2>1, <2>2, <2>4 DEF Members!Member
  <2>6. /\ x2' \in [Users -> Members!Member \cup {Members!NoRow}]
        /\ \A v \in Users : x2'[v].roles = x2[v].roles
    BY <1>1, <1>2, <2>1, <2>2, <2>3, <2>5 DEF Members!Member
  <2>7. MemberRows /\ Members!OwnerIsKept
    BY <1>1, <1>2, <2>1, <2>6
       DEF MemberRows, Members!RolesExist, Members!KnownRoles, Members!OwnerIsKept, Members!Owners
  <2> QED BY <2>1, <2>7, MembersStay
<1>8. ASSUME Members!CancelInvitation
      PROVE  Members!IInv' /\ Members!OwnerIsKept
  <2>1. UNCHANGED <<x1, x2, x3, x5, x6, step, known>> /\ x4' = Members!NoInvitation
    BY <1>8 DEF Members!CancelInvitation
  <2>2. x4'.roles = {}
    BY <2>1 DEF Members!NoInvitation
  <2>3. MemberRows /\ Members!OwnerIsKept
    BY <1>1, <2>1, <2>2
       DEF MemberRows, Members!RolesExist, Members!KnownRoles, Members!OwnerIsKept, Members!Owners
  <2> QED BY <2>1, <2>3, MembersStay
<1>9. ASSUME Members!AcceptInvitation
      PROVE  Members!IInv' /\ Members!OwnerIsKept
  <2>1. PICK u, roles : u = x4.user /\ roles = x4.roles
    OBVIOUS
  <2>2. u \in Users /\ roles \in {{"owner"}, {"custom"}}
    BY <1>1, <1>9, <2>1 DEF Members!AcceptInvitation, Members!Invited
  <2>3. /\ x2' = [x2 EXCEPT ![u] = [roles |-> roles, updatedAt |-> x6']]
        /\ Members!Stamped /\ x4' = Members!NoInvitation /\ UNCHANGED <<x1, x3, x5, step, known>>
        /\ ~Members!IsMember(u)
    BY <1>9, <2>1 DEF Members!AcceptInvitation
  <2>4. x5 \/ Members!KnownRoles(roles)
    BY <1>1, <2>1 DEF Members!RolesExist
  <2>5. Members!LastOwnerGuard(u)
    BY <2>3, MembersTypes DEF Members!LastOwnerGuard, Members!IsMember
  <2>6. MemberRows /\ Members!OwnerIsKept
    BY <1>1, <2>2, <2>3, <2>4, <2>5, MemberWritten
  <2> QED BY <2>3, <2>6, MembersStay
<1>10. ASSUME Members!CreateRole \/ Members!UpdateRole
       PROVE  Members!IInv' /\ Members!OwnerIsKept
  <2>1. UNCHANGED <<x1, x2, x4, x5, step, known>> /\ Members!Stamped /\ x3' = x6'
    BY <1>10 DEF Members!CreateRole, Members!UpdateRole
  <2>2. MemberRows /\ Members!OwnerIsKept
    BY <1>1, <1>2, <2>1, MembersTypes, MemberRowsKept
  <2> QED BY <2>1, <2>2, MembersStay
(* Steps of an invocation.                                                 *)
<1>11. ASSUME NEW w \in Handlers, NEW u \in Users, NEW roles \in {{"owner"}, {"custom"}},
              \/ Members!AddMemberBegin(w, u, roles) \/ Members!ReplaceBegin(w, u, roles)
              \/ Members!InviteBegin(w, u, roles) \/ Members!RemoveBegin(w, u)
       PROVE  Members!IInv' /\ Members!OwnerIsKept
  <2>1. MemberRows /\ Members!OwnerIsKept
    BY <1>11, MembersSame
       DEF Members!AddMemberBegin, Members!ReplaceBegin, Members!InviteBegin, Members!RemoveBegin
  <2>2. \E s \in Members!Steps, c \in Members!Context :
          Members!Await(w, s, c) /\ c.user = u /\ (s # "x_batch" => c.roles = roles)
    <3>1. PICK c0 : c0 = [Members!NoContext EXCEPT !.user = u, !.roles = roles]
      OBVIOUS
    <3>2. c0 = [user |-> u, roles |-> roles, row |-> Members!NoRow, updatedAt |-> 0]
      BY <3>1 DEF Members!NoContext
    <3>3. c0 \in Members!Context /\ c0.user = u /\ c0.roles = roles
      BY <3>2, BoundsAssumption DEF Members!Context
    <3>4. PICK c1 : c1 = [Members!NoContext EXCEPT !.user = u, !.roles = roles, !.row = x2[u]]
      OBVIOUS
    <3>5. c1 = [user |-> u, roles |-> roles, row |-> x2[u], updatedAt |-> 0]
      BY <3>4 DEF Members!NoContext
    <3>6. c1 \in Members!Context /\ c1.user = u /\ c1.roles = roles
      BY <1>1, <3>5, BoundsAssumption DEF Members!Context
    <3>7. PICK c2 : c2 = [Members!NoContext EXCEPT !.user = u, !.row = x2[u]]
      OBVIOUS
    <3>8. c2 = [user |-> u, roles |-> {}, row |-> x2[u], updatedAt |-> 0]
      BY <3>7 DEF Members!NoContext
    <3>9. c2 \in Members!Context /\ c2.user = u
      BY <1>1, <3>8, BoundsAssumption DEF Members!Context
    <3>10. CASE Members!AddMemberBegin(w, u, roles)
      BY <3>1, <3>3, <3>10 DEF Members!AddMemberBegin, Members!Steps
    <3>11. CASE Members!InviteBegin(w, u, roles)
      BY <3>1, <3>3, <3>11 DEF Members!InviteBegin, Members!Steps
    <3>12. CASE Members!ReplaceBegin(w, u, roles)
      BY <3>4, <3>6, <3>12 DEF Members!ReplaceBegin, Members!Steps
    <3>13. CASE Members!RemoveBegin(w, u)
      BY <3>7, <3>9, <3>13 DEF Members!RemoveBegin, Members!Steps
    <3> QED BY <1>11, <3>10, <3>11, <3>12, <3>13
  <2> QED BY <2>1, <2>2, MembersAwait
<1>12. ASSUME NEW w \in Handlers, Members!ValidateRoles(w) \/ Members!CountOwners(w)
       PROVE  Members!IInv' /\ Members!OwnerIsKept
  <2>1. MemberRows /\ Members!OwnerIsKept
    BY <1>12, MembersSame DEF Members!ValidateRoles, Members!CountOwners
  <2>2. PICK c : c = known[w]
    OBVIOUS
  <2>3. c \in Members!Context /\ c.user \in Users /\ c.roles \in {{"owner"}, {"custom"}}
    BY <1>1, <1>12, <2>2 DEF Members!ValidateRoles, Members!CountOwners, Members!Given
  <2>4. \/ Members!Answer(w) \/ Members!Await(w, "r_count", c) \/ Members!Await(w, "r_batch", c)
    BY <1>12, <2>2 DEF Members!ValidateRoles, Members!CountOwners
  <2> QED BY <2>1, <2>3, <2>4, MembersAwait, MembersAnswer DEF Members!Steps
<1>13. ASSUME NEW w \in Handlers,
              \/ Members!AddMember(w) \/ Members!ReplaceRoles(w) \/ Members!RemoveMember(w)
              \/ Members!CreateInvitation(w) \/ Members!DeleteRole(w) \/ Members!Abandon(w)
       PROVE  Members!IInv' /\ Members!OwnerIsKept
  <2>1. PICK u, roles : u = known[w].user /\ roles = known[w].roles
    OBVIOUS
  <2>2. Members!Answer(w)
    BY <1>13 DEF Members!AddMember, Members!ReplaceRoles, Members!RemoveMember,
       Members!CreateInvitation, Members!DeleteRole, Members!Abandon
  <2>3. CASE Members!AddMember(w)
    <3>1. u \in Users /\ roles \in {{"owner"}, {"custom"}}
      BY <1>1, <2>1, <2>3 DEF Members!AddMember, Members!Given
    <3>2. UNCHANGED <<x1, x3, x4>>
      BY <2>3 DEF Members!AddMember
    <3>3. CASE u \in x1 /\ ~Members!IsMember(u)
      <4>1. /\ Members!Stamped /\ x2' = [x2 EXCEPT ![u] = [roles |-> roles, updatedAt |-> x6']]
            /\ Members!MayBeLate(roles)
        BY <2>1, <2>3, <3>3 DEF Members!AddMember
      <4>2. x5' \in BOOLEAN /\ (x5 => x5') /\ (x5' \/ Members!KnownRoles(roles))
        BY <1>1, <4>1 DEF Members!MayBeLate, Members!KnownRoles
      <4>3. Members!LastOwnerGuard(u)
        BY <3>3, MembersTypes DEF Members!LastOwnerGuard, Members!IsMember
      <4>4. MemberRows /\ Members!OwnerIsKept
        BY <1>1, <3>1, <3>2, <4>1, <4>2, <4>3, MemberWritten
      <4> QED BY <2>2, <4>4, MembersAnswer
    <3>4. CASE ~(u \in x1 /\ ~Members!IsMember(u))
      <4>1. UNCHANGED <<x2, x5, x6>>
        BY <2>1, <2>3, <3>4 DEF Members!AddMember
      <4> QED BY <2>2, <3>2, <4>1, MembersSame, MembersAnswer
    <3> QED BY <3>3, <3>4
  <2>4. CASE Members!ReplaceRoles(w)
    <3>1. u \in Users /\ roles \in {{"owner"}, {"custom"}}
      BY <1>1, <2>1, <2>4 DEF Members!ReplaceRoles, Members!Given
    <3>2. UNCHANGED <<x1, x3, x4>>
      BY <2>4 DEF Members!ReplaceRoles
    <3>3. CASE Members!Unchanged(w) /\ ("owner" \in roles \/ Members!LastOwnerGuard(u))
      <4>1. /\ Members!Stamped /\ x2' = [x2 EXCEPT ![u] = [roles |-> roles, updatedAt |-> x6']]
            /\ Members!MayBeLate(roles)
        BY <2>1, <2>4, <3>3 DEF Members!ReplaceRoles
      <4>2. x5' \in BOOLEAN /\ (x5 => x5') /\ (x5' \/ Members!KnownRoles(roles))
        BY <1>1, <4>1 DEF Members!MayBeLate, Members!KnownRoles
      <4>3. MemberRows /\ Members!OwnerIsKept
        BY <1>1, <3>1, <3>2, <3>3, <4>1, <4>2, MemberWritten
      <4> QED BY <2>2, <4>3, MembersAnswer
    <3>4. CASE ~(Members!Unchanged(w) /\ ("owner" \in roles \/ Members!LastOwnerGuard(u)))
      <4>1. UNCHANGED <<x2, x5, x6>>
        BY <2>1, <2>4, <3>4 DEF Members!ReplaceRoles
      <4> QED BY <2>2, <3>2, <4>1, MembersSame, MembersAnswer
    <3> QED BY <3>3, <3>4
  <2>5. CASE Members!RemoveMember(w)
    <3>1. u \in Users /\ UNCHANGED <<x1, x3, x4, x5, x6>>
      BY <1>1, <2>1, <2>5 DEF Members!RemoveMember, Members!Given
    <3>2. MemberRows /\ Members!OwnerIsKept
      BY <1>1, <2>1, <2>5, <3>1, MemberGone, MembersSame DEF Members!RemoveMember
    <3> QED BY <2>2, <3>2, MembersAnswer
  <2>6. CASE Members!CreateInvitation(w)
    <3>1. u \in Users /\ roles \in {{"owner"}, {"custom"}}
      BY <1>1, <2>1, <2>6 DEF Members!CreateInvitation, Members!Given
    <3>2. /\ UNCHANGED <<x1, x2, x3, x6>> /\ x4' = [user |-> u, roles |-> roles]
          /\ Members!MayBeLate(roles)
      BY <2>1, <2>6 DEF Members!CreateInvitation
    <3>3. x4' \in Members!Invited /\ x4'.roles = roles
      BY <3>1, <3>2 DEF Members!Invited
    <3>4. x5' \in BOOLEAN /\ (x5 => x5') /\ (x5' \/ Members!KnownRoles(roles))
      BY <1>1, <3>2 DEF Members!MayBeLate, Members!KnownRoles
    <3>5. Members!RolesExist'
      BY <1>1, <3>2, <3>3, <3>4 DEF Members!RolesExist, Members!KnownRoles
    <3>6. MemberRows /\ Members!OwnerIsKept
      BY <1>1, <3>2, <3>3, <3>4, <3>5 DEF MemberRows, Members!OwnerIsKept, Members!Owners
    <3> QED BY <2>2, <3>6, MembersAnswer
  <2>7. CASE Members!DeleteRole(w)
    <3>1. UNCHANGED <<x1, x2, x4, x5, x6>>
      BY <2>7 DEF Members!DeleteRole
    <3>2. x3' = x3 \/ (x3' = None /\ Members!Unassigned)
      BY <2>7, Zenon DEF Members!DeleteRole
    <3>3. MemberRows /\ Members!OwnerIsKept
      BY <1>1, <3>1, <3>2, MemberRowsKept
    <3> QED BY <2>2, <3>3, MembersAnswer
  <2>8. CASE Members!Abandon(w)
    BY <2>2, <2>8, MembersSame, MembersAnswer DEF Members!Abandon
  <2> QED BY <1>13, <2>3, <2>4, <2>5, <2>6, <2>7, <2>8
<1>14. ASSUME NEW w \in Handlers, Members!DeleteRoleBegin(w)
       PROVE  Members!IInv' /\ Members!OwnerIsKept
  <2>1. MemberRows /\ Members!OwnerIsKept
    BY <1>14, MembersSame DEF Members!DeleteRoleBegin
  <2>2. PICK c : c = [Members!NoContext EXCEPT !.updatedAt = x3]
    OBVIOUS
  <2>3. c = [user |-> None, roles |-> {}, row |-> Members!NoRow, updatedAt |-> x3]
    BY <2>2 DEF Members!NoContext
  <2>4. c \in Members!Context
    BY <1>1, <1>14, <2>3, BoundsAssumption DEF Members!DeleteRoleBegin, Members!Context, Members!Stamps
  <2>5. Members!Await(w, "d_batch", c)
    BY <1>14, <2>2 DEF Members!DeleteRoleBegin
  <2> QED BY <2>1, <2>4, <2>5, MembersAwait DEF Members!Steps
<1> QED BY <1>4, <1>5, <1>6, <1>7, <1>8, <1>9, <1>10, <1>11, <1>12, <1>13, <1>14 DEF Members!Next

-----------------------------------------------------------------------------
(* PermissionGrant: x1 is permission, x2 rows, x3 clock, x4 answered.      *)

LEMMA GrantsInit == Grants!Init => Grants!IInv
<1> SUFFICES ASSUME Grants!Init PROVE Grants!IInv
  OBVIOUS
<1>1. /\ x1 = None /\ x2 = 0 /\ x3 = 0 /\ x4 = None
      /\ step = [w \in Handlers |-> "idle"] /\ known = [w \in Handlers |-> Grants!NoContext]
  BY DEF Grants!Init
<1>2. Grants!NoContext \in Grants!Context /\ Grants!NoContext.now = 0
  BY BoundsAssumption DEF Grants!Context, Grants!NoContext, Grants!Times, Grants!Forever
<1>3. Grants!TypeOK
  BY <1>1, <1>2, BoundsAssumption DEF Grants!TypeOK, Grants!Steps, Grants!Times
<1>4. \A w \in Handlers : Grants!Given(w)
  BY <1>1, <1>2 DEF Grants!Given
<1> QED BY <1>3, <1>4 DEF Grants!IInv

(* An invocation moves with what it has been given.                        *)
LEMMA GrantsAwait ==
  ASSUME Grants!IInv, NEW w \in Handlers, NEW s \in Grants!Steps, NEW c \in Grants!Context,
         step' = [step EXCEPT ![w] = s], known' = [known EXCEPT ![w] = c],
         x1' \in Grants!Permission \cup {None}, x2' \in 0 .. MaxRows, x3' = x3,
         x4' \in Handlers \cup {None}, c.now <= x3,
         s \in {"g_find", "g_insert", "g_again", "g_write"} => c.expires \in Grants!Expiries,
         s = "g_write" => c.row \in Grants!Permission
  PROVE  Grants!IInv'
<1>1. Grants!TypeOK'
  BY DEF Grants!IInv, Grants!TypeOK
<1>2. \A v \in Handlers : Grants!Given(v)'
  BY DEF Grants!IInv, Grants!TypeOK, Grants!Given
<1> QED BY <1>1, <1>2 DEF Grants!IInv

LEMMA GrantsAnswer ==
  ASSUME Grants!IInv, NEW w \in Handlers, NEW granted \in BOOLEAN, Grants!Answer(w, granted),
         x1' \in Grants!Permission \cup {None}, x2' \in 0 .. MaxRows, x3' = x3
  PROVE  Grants!IInv'
<1>1. /\ Grants!NoContext \in Grants!Context /\ Grants!NoContext.now = 0 /\ 0 <= x3
  BY BoundsAssumption DEF Grants!Context, Grants!NoContext, Grants!Times, Grants!Forever, Grants!IInv, Grants!TypeOK
<1>2. x4' \in Handlers \cup {None}
  BY DEF Grants!Answer
<1> QED BY <1>1, <1>2, GrantsAwait DEF Grants!Answer, Grants!Steps

LEMMA GrantsInsert ==
  ASSUME Grants!IInv, NEW expires \in Grants!Expiries, Grants!Insert(expires)
  PROVE  x1' \in Grants!Permission /\ x1'.expires = expires /\ x2' \in 0 .. MaxRows
  BY BoundsAssumption DEF Grants!Insert, Grants!IInv, Grants!TypeOK, Grants!Permission

LEMMA GrantsStep ==
  ASSUME Grants!IInv, Grants!Next
  PROVE  Grants!IInv' /\ Grants!GrantAdds
<1>1. /\ x1 \in Grants!Permission \cup {None} /\ x2 \in 0 .. MaxRows /\ x3 \in 0 .. MaxTime
      /\ x4 \in Handlers \cup {None}
      /\ step \in [Handlers -> Grants!Steps] /\ known \in [Handlers -> Grants!Context]
      /\ \A w \in Handlers : Grants!Given(w)
  BY DEF Grants!IInv, Grants!TypeOK, Grants!Times
<1>2. \A row \in Grants!Permission : row.expires \in Nat /\ row.expires \in Grants!Expiries
  BY BoundsAssumption DEF Grants!Permission, Grants!Expiries, Grants!Forever
<1>3. CASE Grants!Tick
  <2>1. UNCHANGED <<x1, x2, step, known>> /\ x3' = x3 + 1 /\ x4' = None /\ x3 < MaxTime
    BY <1>3 DEF Grants!Tick
  <2>2. Grants!TypeOK'
    BY <1>1, <2>1, BoundsAssumption DEF Grants!TypeOK, Grants!Times
  <2>3. \A w \in Handlers : known[w].now \in Int
    BY <1>1, BoundsAssumption DEF Grants!Context, Grants!Times
  <2>4. \A w \in Handlers : Grants!Given(w)'
    BY <1>1, <2>1, <2>3 DEF Grants!Given
  <2>5. Grants!GrantAdds
    BY <1>1, <1>2, <2>1 DEF Grants!GrantAdds, Grants!Shortened
  <2> QED BY <2>2, <2>4, <2>5 DEF Grants!IInv
<1>4. ASSUME NEW w \in Handlers, NEW expires \in Grants!Expiries, Grants!GrantBegin(w, expires)
      PROVE  Grants!IInv' /\ Grants!GrantAdds
  <2>1. PICK c : c = [Grants!NoContext EXCEPT !.expires = expires, !.now = x3]
    OBVIOUS
  <2>2. c = [expires |-> expires, now |-> x3, row |-> None]
    BY <2>1 DEF Grants!NoContext
  <2>3. c \in Grants!Context /\ c.expires = expires /\ c.now = x3
    BY <1>1, <2>2, BoundsAssumption DEF Grants!Context, Grants!Times, Grants!Forever, Grants!Expiries
  <2>4. UNCHANGED <<x1, x2, x3>> /\ x4' = None /\ Grants!Await(w, "g_find", c)
    BY <1>4, <2>1 DEF Grants!GrantBegin, Grants!Await
  <2>5. Grants!IInv'
    <3>1. /\ x1' \in Grants!Permission \cup {None} /\ x2' \in 0 .. MaxRows /\ x3' = x3
          /\ x4' \in Handlers \cup {None} /\ c.now <= x3
      BY <1>1, <2>3, <2>4
    <3>2. {"g_find", "x_end"} \subseteq Grants!Steps
      BY DEF Grants!Steps
    <3> HIDE DEF Grants!Steps
    <3> QED BY <2>3, <2>4, <3>1, <3>2, GrantsAwait DEF Grants!Await
  <2> QED BY <1>1, <1>2, <2>4, <2>5 DEF Grants!GrantAdds, Grants!Shortened
<1>5. ASSUME NEW w \in Handlers, Grants!RevokeBegin(w)
      PROVE  Grants!IInv' /\ Grants!GrantAdds
  <2>1. PICK c : c = [Grants!NoContext EXCEPT !.row = x1]
    OBVIOUS
  <2>2. c = [expires |-> 0, now |-> 0, row |-> x1]
    BY <2>1 DEF Grants!NoContext
  <2>3. c \in Grants!Context /\ c.now = 0
    BY <1>1, <2>2, BoundsAssumption DEF Grants!Context, Grants!Times, Grants!Forever
  <2>4. UNCHANGED <<x1, x2, x3>> /\ x4' = None /\ Grants!Await(w, "x_end", c)
    BY <1>5, <2>1 DEF Grants!RevokeBegin, Grants!Await
  <2>5. Grants!IInv'
    <3>1. /\ x1' \in Grants!Permission \cup {None} /\ x2' \in 0 .. MaxRows /\ x3' = x3
          /\ x4' \in Handlers \cup {None} /\ c.now <= x3
      BY <1>1, <2>3, <2>4
    <3>2. {"g_find", "x_end"} \subseteq Grants!Steps
      BY DEF Grants!Steps
    <3> HIDE DEF Grants!Steps
    <3> QED BY <2>3, <2>4, <3>1, <3>2, GrantsAwait DEF Grants!Await
  <2> QED BY <1>1, <1>2, <2>4, <2>5 DEF Grants!GrantAdds, Grants!Shortened
<1>6. ASSUME NEW w \in Handlers, Grants!FindPermission(w)
      PROVE  Grants!IInv' /\ Grants!GrantAdds
  <2>1. PICK c : c = known[w]
    OBVIOUS
  <2>2. c \in Grants!Context /\ c.now <= x3 /\ c.expires \in Grants!Expiries /\ c.expires \in Int
    BY <1>1, <1>6, <2>1, BoundsAssumption DEF Grants!FindPermission, Grants!Given, Grants!Expiries, Grants!Forever
  <2>3. UNCHANGED <<x1, x2, x3>> /\ step[w] \in {"g_find", "g_again"}
    BY <1>6 DEF Grants!FindPermission
  <2>4. CASE x1 = None
    <3>1. Grants!Await(w, "g_insert", c) \/ Grants!Answer(w, FALSE)
      BY <1>6, <2>1, <2>4 DEF Grants!FindPermission
    <3>2. x4' = None
      BY <3>1 DEF Grants!Await, Grants!Answer
    <3>3. Grants!IInv'
      BY <1>1, <2>2, <2>3, <3>1, <3>2, GrantsAwait, GrantsAnswer DEF Grants!Await, Grants!Steps
    <3> QED BY <2>4, <3>2, <3>3 DEF Grants!GrantAdds, Grants!Shortened
  <2>5. CASE x1 # None /\ Grants!StrongerLifetime(x1, c.expires) = x1.expires /\ Grants!Answer(w, TRUE)
    <3>1. x4' = w /\ x1 \in Grants!Permission
      BY <1>1, <2>5 DEF Grants!Answer
    <3>2. x1.expires >= c.expires
      BY <1>2, <2>2, <2>5, <3>1 DEF Grants!StrongerLifetime
    <3>3. Grants!IInv'
      BY <1>1, <2>3, <2>5, GrantsAnswer
    <3> QED BY <1>2, <2>1, <2>3, <2>5, <3>1, <3>2, <3>3 DEF Grants!GrantAdds, Grants!Shortened
  <2>6. CASE x1 # None /\ Grants!Await(w, "g_write", [c EXCEPT !.row = x1])
    <3>1. PICK d : d = [c EXCEPT !.row = x1]
      OBVIOUS
    <3>2. d \in Grants!Context /\ d.now = c.now /\ d.expires = c.expires /\ d.row = x1
      BY <1>1, <2>2, <3>1 DEF Grants!Context
    <3>3. x4' = None /\ Grants!Await(w, "g_write", d)
      BY <2>6, <3>1 DEF Grants!Await
    <3>4. Grants!IInv'
      BY <1>1, <2>2, <2>3, <2>6, <3>2, <3>3, GrantsAwait DEF Grants!Await, Grants!Steps
    <3> QED BY <1>1, <1>2, <2>3, <3>3, <3>4 DEF Grants!GrantAdds, Grants!Shortened
  <2> QED BY <1>6, <2>1, <2>4, <2>5, <2>6 DEF Grants!FindPermission
<1>7. ASSUME NEW w \in Handlers, Grants!InsertPermission(w)
      PROVE  Grants!IInv' /\ Grants!GrantAdds
  <2>1. PICK c : c = known[w]
    OBVIOUS
  <2>2. c \in Grants!Context /\ c.now <= x3 /\ c.expires \in Grants!Expiries /\ c.expires \in Int
    BY <1>1, <1>7, <2>1, BoundsAssumption DEF Grants!InsertPermission, Grants!Given, Grants!Expiries, Grants!Forever
  <2>3. x3' = x3
    BY <1>7 DEF Grants!InsertPermission
  <2>4. CASE x1 = None
    <3>1. Grants!Insert(c.expires) /\ Grants!Answer(w, TRUE)
      BY <1>7, <2>1, <2>4 DEF Grants!InsertPermission
    <3>2. x1' \in Grants!Permission /\ x1'.expires = c.expires /\ x2' \in 0 .. MaxRows
      BY <2>2, <3>1, GrantsInsert
    <3>3. x1' # None /\ x4' = w
      BY <3>1, <3>2, RowsNoneAssumption DEF Grants!Answer
    <3>4. Grants!IInv'
      BY <2>3, <3>1, <3>2, GrantsAnswer
    <3> QED BY <2>1, <2>2, <2>4, <3>2, <3>3, <3>4 DEF Grants!GrantAdds, Grants!Shortened
  <2>5. CASE x1 # None
    <3>1. Grants!Await(w, "g_again", c) /\ UNCHANGED <<x1, x2>>
      BY <1>7, <2>1, <2>5 DEF Grants!InsertPermission
    <3>2. Grants!IInv' /\ x4' = None
      BY <1>1, <2>2, <2>3, <3>1, GrantsAwait DEF Grants!Await, Grants!Steps
    <3> QED BY <1>1, <1>2, <3>1, <3>2 DEF Grants!GrantAdds, Grants!Shortened
  <2> QED BY <2>4, <2>5
<1>8. ASSUME NEW w \in Handlers, Grants!RenewPermission(w) \/ Grants!ExtendPermission(w)
      PROVE  Grants!IInv' /\ Grants!GrantAdds
  <2>1. PICK c, row : c = known[w] /\ row = known[w].row
    OBVIOUS
  <2>2. /\ c.now \in Int /\ c.now <= x3 /\ c.expires \in Grants!Expiries /\ c.expires \in Int
        /\ row \in Grants!Permission /\ row.expires \in Nat
    <3>1. known[w] \in Grants!Context /\ Grants!Given(w) /\ step[w] = "g_write"
      BY <1>1, <1>8 DEF Grants!RenewPermission, Grants!ExtendPermission
    <3>2. /\ c.now <= x3 /\ c.expires \in Grants!Expiries /\ row \in Grants!Permission
      BY <2>1, <3>1 DEF Grants!Given
    <3>3. c.now \in Int
      BY <2>1, <3>1, BoundsAssumption DEF Grants!Context, Grants!Times
    <3>4. c.expires \in Int
      BY <3>2, BoundsAssumption DEF Grants!Expiries, Grants!Forever
    <3> QED BY <1>2, <3>2, <3>3, <3>4
  <2>3. x3' = x3
    BY <1>8 DEF Grants!RenewPermission, Grants!ExtendPermission
  <2>4. ASSUME Grants!RenewPermission(w), x1 = None \/ Grants!IsRow(row)
        PROVE  Grants!IInv' /\ Grants!GrantAdds
    <3>1. Grants!Lapsed(row, c.now) /\ Grants!Insert(c.expires) /\ Grants!Answer(w, TRUE)
      BY <2>1, <2>4 DEF Grants!RenewPermission
    <3>2. x1' \in Grants!Permission /\ x1'.expires = c.expires /\ x2' \in 0 .. MaxRows
      BY <2>2, <3>1, GrantsInsert
    <3>3. x4' = w
      BY <3>1 DEF Grants!Answer
    <3>4. Grants!IInv'
      BY <2>3, <3>1, <3>2, GrantsAnswer
    <3>5. row = x1 => Grants!Lapsed(x1, x3)
      BY <1>1, <2>2, <3>1 DEF Grants!Lapsed
    <3>6. Grants!Shortened => row # None /\ row # x1
      BY <2>4, <3>5 DEF Grants!Shortened, Grants!IsRow
    <3>7. Grants!Shortened => Grants!TakesBack(w)
      BY <1>2, <2>1, <2>2, <2>4, <3>2, <3>6 DEF Grants!Overtaken, Grants!TakesBack
    <3>8. x1' # None
      BY <3>2, RowsNoneAssumption
    <3> QED BY <2>1, <2>2, <2>4, <3>2, <3>3, <3>4, <3>7, <3>8 DEF Grants!GrantAdds
  <2>5. ASSUME Grants!RenewPermission(w), ~(x1 = None \/ Grants!IsRow(row))
        PROVE  Grants!IInv' /\ Grants!GrantAdds
    <3>1. Grants!Answer(w, FALSE) /\ UNCHANGED <<x1, x2>>
      BY <2>1, <2>5 DEF Grants!RenewPermission
    <3>2. Grants!IInv' /\ x4' = None
      BY <1>1, <2>3, <3>1, GrantsAnswer DEF Grants!Answer
    <3> QED BY <1>1, <1>2, <3>1, <3>2 DEF Grants!GrantAdds, Grants!Shortened
  <2>6. ASSUME Grants!ExtendPermission(w)
        PROVE  Grants!IInv' /\ Grants!GrantAdds
    <3>1. PICK m : m = Grants!StrongerLifetime(row, c.expires)
      OBVIOUS
    <3>2. m \in Grants!Expiries /\ m \in Int /\ m >= c.expires /\ m >= row.expires
      BY <1>2, <2>2, <3>1 DEF Grants!StrongerLifetime
    <3>3. Grants!Answer(w, TRUE) /\ x2' = x2
      BY <2>6 DEF Grants!ExtendPermission
    <3>4. x4' = w
      BY <3>3 DEF Grants!Answer
    <3>5. CASE Grants!IsRow(row)
      <4>1. x1 \in Grants!Permission /\ x1' = [x1 EXCEPT !.expires = m]
        BY <1>1, <2>1, <2>6, <3>1, <3>5 DEF Grants!ExtendPermission, Grants!IsRow
      <4>2. x1' \in Grants!Permission /\ x1'.expires = m
        BY <3>2, <4>1 DEF Grants!Permission
      <4>3. Grants!IInv'
        BY <1>1, <2>3, <3>3, <4>2, GrantsAnswer
      <4>4. x1'.expires >= c.expires /\ x1' # None /\ row # None
        BY <2>2, <3>2, <4>2, RowsNoneAssumption
      <4>5. row = x1 => ~Grants!Shortened
        BY <2>2, <3>2, <4>2, <4>4 DEF Grants!Shortened
      <4>6. Grants!Overtaken(w) \/ row = x1
        BY <2>1, <4>4 DEF Grants!Overtaken
      <4>7. Grants!Shortened => Grants!TakesBack(w)
        BY <2>1, <2>6, <3>2, <4>2, <4>4, <4>5, <4>6 DEF Grants!TakesBack
      <4> QED BY <2>1, <3>4, <4>3, <4>4, <4>7 DEF Grants!GrantAdds
    <3>6. CASE ~Grants!IsRow(row)
      <4>1. x1' = x1
        BY <2>1, <2>6, <3>6 DEF Grants!ExtendPermission
      <4>2. Grants!IInv'
        BY <1>1, <2>3, <3>3, <4>1, GrantsAnswer
      <4>3. Grants!Overtaken(w)
        BY <2>1, <2>2, <3>6, RowsNoneAssumption DEF Grants!IsRow, Grants!Overtaken
      <4>4. ~Grants!Shortened
        BY <1>1, <1>2, <4>1 DEF Grants!Shortened
      <4> QED BY <3>4, <4>2, <4>3, <4>4 DEF Grants!GrantAdds
    <3> QED BY <3>5, <3>6
  <2> QED BY <1>8, <2>4, <2>5, <2>6
<1>9. ASSUME NEW w \in Handlers, Grants!EndPermission(w) \/ Grants!Abandon(w)
      PROVE  Grants!IInv' /\ Grants!GrantAdds
  <2>1. Grants!Answer(w, FALSE) /\ x1' \in {x1, None} /\ UNCHANGED <<x2, x3>>
    BY <1>9 DEF Grants!EndPermission, Grants!Abandon
  <2>2. Grants!IInv' /\ x4' = None
    BY <1>1, <2>1, GrantsAnswer DEF Grants!Answer
  <2>3. Grants!Shortened => Grants!EndPermission(w)
    <3>1. Grants!Abandon(w) => x1' = x1
      BY DEF Grants!Abandon
    <3>2. x1' = x1 => ~Grants!Shortened
      BY <1>1, <1>2 DEF Grants!Shortened
    <3> QED BY <1>9, <3>1, <3>2
  <2> QED BY <2>2, <2>3 DEF Grants!GrantAdds
<1> QED BY <1>3, <1>4, <1>5, <1>6, <1>7, <1>8, <1>9 DEF Grants!Next

-----------------------------------------------------------------------------
(* ResourceRegistry: x1 is resource, x2 hidden, x3 declared, x4 allow, x5  *)
(* role, x6 overlapped, x7 revived.                                        *)

(* Rows a step may leave.                                                  *)
RegistryRows ==
  /\ x1' \in [Resources -> {"active", "disabled", "deleted"}]
  /\ x2' \subseteq Resources
  /\ x3' \in [Resources -> SUBSET Scopes]
  /\ x4' \subseteq Registry!Entries
  /\ x5' \in [scopes : SUBSET Registry!Entries, updatedAt : 0 .. MaxRoleWrites]
  /\ x7' \subseteq Resources
  /\ Registry!NamedExist'

LEMMA RegistryTypes ==
  ASSUME Registry!IInv
  PROVE  /\ x1 \in [Resources -> {"active", "disabled", "deleted"}] /\ x2 \subseteq Resources
         /\ x3 \in [Resources -> SUBSET Scopes] /\ x4 \subseteq Registry!Entries
         /\ x5 \in [scopes : SUBSET Registry!Entries, updatedAt : 0 .. MaxRoleWrites]
         /\ x6 \in BOOLEAN /\ x7 \subseteq Resources
         /\ step \in [Handlers -> Registry!Steps] /\ known \in [Handlers -> Registry!Context]
         /\ Registry!NamesResource /\ Registry!NamedExist /\ (x6 \/ Registry!OneAtATime)
  BY DEF Registry!IInv, Registry!TypeOK

LEMMA RegistryNoContext == Registry!NoContext \in Registry!Context
  BY BoundsAssumption DEF Registry!NoContext, Registry!Context

LEMMA RegistryInit == Registry!Init => Registry!IInv
<1> SUFFICES ASSUME Registry!Init PROVE Registry!IInv
  OBVIOUS
<1>1. /\ x1 = [r \in Resources |-> "active"] /\ x2 = {} /\ x3 = [r \in Resources |-> Scopes]
      /\ x4 = {} /\ x5 = [scopes |-> {}, updatedAt |-> 0] /\ x6 = FALSE /\ x7 = {}
      /\ step = [w \in Handlers |-> "idle"] /\ known = [w \in Handlers |-> Registry!NoContext]
  BY DEF Registry!Init
<1>2. Registry!TypeOK
  <2>1. /\ x1 \in [Resources -> {"active", "disabled", "deleted"}] /\ x2 \subseteq Resources
        /\ x3 \in [Resources -> SUBSET Scopes] /\ x4 \subseteq Registry!Entries /\ x7 \subseteq Resources
    BY <1>1
  <2>2. x5 \in [scopes : SUBSET Registry!Entries, updatedAt : 0 .. MaxRoleWrites]
    BY <1>1, BoundsAssumption
  <2>3. step \in [Handlers -> Registry!Steps]
    BY <1>1 DEF Registry!Steps
  <2>4. known \in [Handlers -> Registry!Context] /\ x6 \in BOOLEAN
    BY <1>1, RegistryNoContext
  <2> QED BY <2>1, <2>2, <2>3, <2>4 DEF Registry!TypeOK
<1>3. Registry!NamesResource /\ Registry!NamedExist /\ Registry!OneAtATime
  BY <1>1 DEF Registry!NamesResource, Registry!About, Registry!NamedExist, Registry!OneAtATime, Registry!Clean, Registry!Given
<1> QED BY <1>2, <1>3 DEF Registry!IInv

(* The named Resource Servers are clean of what a step leaves untouched.   *)
LEMMA RegistrySame ==
  ASSUME Registry!IInv, UNCHANGED <<x1, x2, x3, x4, x5, x7>>
  PROVE  RegistryRows
  BY RegistryTypes DEF RegistryRows, Registry!NamedExist, Registry!Exists

(* An invocation moves; it has met no other one when the others are idle   *)
(* and none had been met before.                                           *)
LEMMA RegistryAwait ==
  ASSUME Registry!IInv, NEW w \in Handlers, NEW s \in Registry!Steps, NEW c \in Registry!Context,
         Registry!Await(w, s, c), RegistryRows, s \in Registry!About => c.resource \in Resources,
         Registry!OneAtATime => Registry!Clean(x4 \cup x5.scopes)' /\ Registry!Given(s, c)'
  PROVE  Registry!IInv'
<1>1. /\ x6 \in BOOLEAN /\ step \in [Handlers -> Registry!Steps]
      /\ known \in [Handlers -> Registry!Context] /\ (x6 \/ Registry!OneAtATime)
  BY RegistryTypes
<1>2. /\ step' = [step EXCEPT ![w] = s] /\ known' = [known EXCEPT ![w] = c]
      /\ x6' = (x6 \/ \E x \in Handlers \ {w} : step[x] # "idle")
  BY DEF Registry!Await
<1>3. Registry!TypeOK'
  BY <1>1, <1>2 DEF Registry!TypeOK, RegistryRows
<1>4. ASSUME ~x6' PROVE Registry!OneAtATime'
  <2>1. Registry!OneAtATime /\ \A x \in Handlers \ {w} : step[x] = "idle"
    BY <1>1, <1>2, <1>4
  <2>2. \A x \in Handlers \ {w} : step'[x] = "idle"
    BY <1>1, <1>2, <2>1
  <2>3. step'[w] = s /\ known'[w] = c
    BY <1>1, <1>2
  <2>4. \A x \in Handlers \ {w} : Registry!Given(step[x], known[x])'
    BY <2>2 DEF Registry!Given, Registry!About
  <2>5. Registry!Given(step[w], known[w])'
    <3>1. Registry!Given(s, c)'
      BY <2>1
    <3> QED BY <2>3, <3>1 DEF Registry!Given, Registry!Clean, Registry!Exists
  <2> QED BY <2>1, <2>2, <2>4, <2>5 DEF Registry!OneAtATime
<1>5. Registry!NamesResource'
  BY <1>1, <1>2, RegistryTypes DEF Registry!NamesResource
<1> QED BY <1>3, <1>4, <1>5 DEF Registry!IInv, RegistryRows

LEMMA RegistryAnswer ==
  ASSUME Registry!IInv, NEW w \in Handlers, Registry!Answer(w), RegistryRows,
         Registry!OneAtATime => Registry!Clean(x4 \cup x5.scopes)'
  PROVE  Registry!IInv'
<1>1. PICK s, c : s = "idle" /\ c = Registry!NoContext
  OBVIOUS
<1>2. s \in Registry!Steps /\ c \in Registry!Context /\ Registry!Await(w, s, c)
  BY <1>1, RegistryNoContext DEF Registry!Answer, Registry!Steps
<1>3. Registry!Given(s, c)'
  BY <1>1 DEF Registry!Given, Registry!About
<1> QED BY <1>1, <1>2, <1>3, RegistryAwait DEF Registry!About

(* A step that only moves an invocation.                                   *)
LEMMA RegistryMove ==
  ASSUME Registry!IInv, NEW w \in Handlers, NEW s \in Registry!Steps, NEW c \in Registry!Context,
         Registry!Await(w, s, c), UNCHANGED <<x1, x2, x3, x4, x5, x7>>,
         s \in Registry!About => c.resource \in Resources,
         Registry!OneAtATime => Registry!Given(s, c)
  PROVE  Registry!IInv'
<1>1. Registry!OneAtATime => Registry!Clean(x4 \cup x5.scopes)' /\ Registry!Given(s, c)'
  BY DEF Registry!OneAtATime, Registry!Clean, Registry!Given, Registry!Exists
<1> QED BY <1>1, RegistrySame, RegistryAwait

(* Outside an invocation, Resource Servers are disabled and published.     *)
LEMMA RegistryEased ==
  ASSUME Registry!IInv, x1' \in [Resources -> {"active", "disabled", "deleted"}],
         \A r \in Resources : x1'[r] = "deleted" <=> x1[r] = "deleted",
         x2' \subseteq x2, UNCHANGED <<x3, x4, x5, x6, x7, step, known>>
  PROVE  Registry!IInv'
<1>1. Registry!TypeOK'
  BY DEF Registry!IInv, Registry!TypeOK
<1>2. \A entries \in SUBSET Registry!Entries : Registry!Clean(entries) => Registry!Clean(entries)'
  BY DEF Registry!Clean, Registry!Exists, Registry!Entries
<1>3. Registry!NamedExist' /\ Registry!NamesResource'
  BY RegistryTypes DEF Registry!NamedExist, Registry!NamesResource, Registry!Exists, Registry!Entries
<1>4. Registry!OneAtATime => Registry!OneAtATime'
  <2> SUFFICES ASSUME Registry!OneAtATime PROVE Registry!OneAtATime'
    OBVIOUS
  <2>1. /\ x4 \subseteq Registry!Entries /\ x5.scopes \subseteq Registry!Entries
        /\ \A w \in Handlers : known[w].allow \subseteq Registry!Entries /\ known[w].role \subseteq Registry!Entries
    BY RegistryTypes DEF Registry!Context
  <2>2. Registry!Clean(x4 \cup x5.scopes)'
    BY <2>1 DEF Registry!OneAtATime, Registry!Clean, Registry!Exists, Registry!Entries
  <2>3. ASSUME NEW w \in Handlers PROVE Registry!Given(step[w], known[w])'
    <3>1. /\ step[w] \in Registry!About => known[w].resource \in Resources
          /\ Registry!Given(step[w], known[w]) /\ known[w].allow \subseteq Registry!Entries /\ known[w].role \subseteq Registry!Entries
      BY <2>1, RegistryTypes DEF Registry!OneAtATime, Registry!NamesResource
    <3> QED BY <3>1 DEF Registry!Given, Registry!Clean, Registry!Exists, Registry!Entries
  <2> QED BY <2>2, <2>3 DEF Registry!OneAtATime
<1> QED BY <1>1, <1>3, <1>4 DEF Registry!IInv

(* A Role is given scopes at a time of its own.                            *)
LEMMA RegistryRole ==
  ASSUME Registry!IInv, NEW l \in SUBSET Registry!Entries, Registry!RoleBecomes(l)
  PROVE  /\ x5' \in [scopes : SUBSET Registry!Entries, updatedAt : 0 .. MaxRoleWrites]
         /\ x5'.scopes = l
  BY DEF Registry!RoleBecomes

(* Whatever is written over a deletion is noted.                           *)
LEMMA RegistryRevives ==
  ASSUME Registry!IInv, Registry!MayRevive, x1' = x1, x4' \subseteq Registry!Entries,
         x5'.scopes \subseteq Registry!Entries
  PROVE  Registry!NamedExist' /\ x7' \subseteq Resources
<1>1. x7' = x7 \cup {r \in Resources : ~Registry!Exists(r) /\ Registry!Named(r)' # {}}
  BY DEF Registry!MayRevive
<1>2. x7' \subseteq Resources
  BY <1>1, RegistryTypes
<1>3. ASSUME NEW e \in x4' \cup x5'.scopes, x1[e[1]] = "deleted" PROVE e[1] \in x7'
  <2>1. e[1] \in Resources
    BY <1>3 DEF Registry!Entries
  <2>2. e \in Registry!Named(e[1])'
    BY DEF Registry!Named
  <2> QED BY <1>1, <1>3, <2>1, <2>2 DEF Registry!Exists
<1> QED BY <1>2, <1>3 DEF Registry!NamedExist, Registry!Exists

(* A write-back replaces what is there by what was computed, when nothing  *)
(* else has changed it.                                                    *)
LEMMA RegistryWritten ==
  ASSUME Registry!IInv, NEW w \in Handlers, NEW a \in SUBSET Registry!Entries,
         NEW l \in SUBSET Registry!Entries, Registry!WriteBack(w, a, l), x1' = x1
  PROVE  /\ x4' \subseteq Registry!Entries /\ x7' \subseteq Resources /\ Registry!NamedExist'
         /\ x5' \in [scopes : SUBSET Registry!Entries, updatedAt : 0 .. MaxRoleWrites]
         /\ known[w].allow = x4 /\ known[w].role = x5.scopes => x4' = a /\ x5'.scopes = l
<1>1. /\ x4' = (IF a = known[w].allow THEN x4 ELSE a)
      /\ x5' = x5 \/ Registry!RoleBecomes(l)
      /\ l # known[w].role => Registry!RoleBecomes(l)
      /\ Registry!MayRevive
  BY DEF Registry!WriteBack
<1>2. /\ x5' \in [scopes : SUBSET Registry!Entries, updatedAt : 0 .. MaxRoleWrites]
      /\ x5' = x5 \/ x5'.scopes = l
      /\ l # known[w].role => x5'.scopes = l
  BY <1>1, RegistryRole, RegistryTypes
<1>3. x4' \subseteq Registry!Entries /\ x5'.scopes \subseteq Registry!Entries
  BY <1>1, <1>2, RegistryTypes
<1> QED BY <1>1, <1>2, <1>3, RegistryRevives

LEMMA RegistryStep ==
  ASSUME Registry!IInv, Registry!Next
  PROVE  Registry!IInv'
<1>1. /\ x1 \in [Resources -> {"active", "disabled", "deleted"}] /\ x2 \subseteq Resources
      /\ x3 \in [Resources -> SUBSET Scopes] /\ x4 \subseteq Registry!Entries
      /\ x5 \in [scopes : SUBSET Registry!Entries, updatedAt : 0 .. MaxRoleWrites]
      /\ step \in [Handlers -> Registry!Steps] /\ known \in [Handlers -> Registry!Context]
      /\ Registry!NamedExist /\ \A w \in Handlers : step[w] \in Registry!About => known[w].resource \in Resources
  BY RegistryTypes DEF Registry!NamesResource
<1>2. \A w \in Handlers : Registry!OneAtATime => Registry!Given(step[w], known[w])
  BY DEF Registry!OneAtATime
<1>3. ASSUME NEW r \in Resources, Registry!Disable(r) \/ Registry!Publish(r) PROVE Registry!IInv'
  <2>1. CASE Registry!Disable(r)
    BY <1>1, <2>1, RegistryEased DEF Registry!Disable
  <2>2. CASE Registry!Publish(r)
    BY <1>1, <2>2, RegistryEased DEF Registry!Publish
  <2> QED BY <1>3, <2>1, <2>2
<1>4. ASSUME NEW w \in Handlers, NEW r \in Resources,
             \/ Registry!SyncBegin(w, r) \/ Registry!EnableBegin(w, r)
             \/ Registry!HideBegin(w, r) \/ Registry!DeleteBegin(w, r)
      PROVE  Registry!IInv'
  <2>1. Registry!Exists(r) /\ UNCHANGED <<x1, x2, x3, x4, x5, x7>>
    BY <1>4 DEF Registry!SyncBegin, Registry!EnableBegin, Registry!HideBegin, Registry!DeleteBegin,
       Registry!rows, Registry!Exists
  <2>2. PICK c : c = [Registry!NoContext EXCEPT !.resource = r, !.declared = x3[r]]
    OBVIOUS
  <2>3. c = [resource |-> r, declared |-> x3[r], allow |-> {}, role |-> {}, updatedAt |-> 0]
    BY <2>2 DEF Registry!NoContext
  <2>4. c \in Registry!Context /\ c.resource = r
    BY <1>1, <2>3, BoundsAssumption DEF Registry!Context
  <2>5. PICK d : d = [Registry!NoContext EXCEPT !.resource = r]
    OBVIOUS
  <2>6. d = [resource |-> r, declared |-> {}, allow |-> {}, role |-> {}, updatedAt |-> 0]
    BY <2>5 DEF Registry!NoContext
  <2>7. d \in Registry!Context /\ d.resource = r
    BY <2>6, BoundsAssumption DEF Registry!Context
  <2>8. \/ Registry!Await(w, "s_fetch", c) \/ Registry!Await(w, "e_fetch", d)
        \/ Registry!Await(w, "p_read", d) \/ Registry!Await(w, "d_batch", d)
    BY <1>4, <2>2, <2>5 DEF Registry!SyncBegin, Registry!EnableBegin, Registry!HideBegin, Registry!DeleteBegin
  <2>9. /\ Registry!Given("s_fetch", c) /\ Registry!Given("e_fetch", d)
        /\ Registry!Given("p_read", d) /\ Registry!Given("d_batch", d)
    BY <2>1, <2>4, <2>7 DEF Registry!Given, Registry!About
  <2> QED BY <2>1, <2>4, <2>7, <2>8, <2>9, RegistryMove DEF Registry!Steps, Registry!About
<1>5. ASSUME NEW w \in Handlers, NEW scopes \in SUBSET Scopes,
             Registry!SyncFetched(w, scopes) \/ Registry!EnableFetched(w, scopes)
      PROVE  Registry!IInv'
  <2>1. UNCHANGED <<x1, x2, x3, x4, x5, x7>> /\ step[w] \in {"s_fetch", "e_fetch"}
    BY <1>5 DEF Registry!SyncFetched, Registry!EnableFetched, Registry!rows
  <2>2. PICK c : c = [known[w] EXCEPT !.declared = scopes]
    OBVIOUS
  <2>3. c \in Registry!Context /\ c.resource = known[w].resource
    BY <1>1, <2>2 DEF Registry!Context
  <2>4. Registry!Await(w, "s_read", c) \/ Registry!Await(w, "e_update", c)
    BY <1>5, <2>2 DEF Registry!SyncFetched, Registry!EnableFetched
  <2>5. c.resource \in Resources
    BY <1>1, <2>1, <2>3 DEF Registry!About
  <2>6. Registry!OneAtATime => Registry!Given("s_read", c) /\ Registry!Given("e_update", c)
    BY <1>2, <2>1, <2>3 DEF Registry!Given, Registry!About
  <2> QED BY <2>1, <2>3, <2>4, <2>5, <2>6, RegistryMove DEF Registry!Steps
<1>6. ASSUME NEW w \in Handlers, Registry!SyncFailed(w)
      PROVE  Registry!IInv'
  <2>1. UNCHANGED <<x1, x2, x3, x4, x5, x7>> /\ step[w] = "s_fetch"
    BY <1>6 DEF Registry!SyncFailed, Registry!rows
  <2>2. PICK c : c = known[w]
    OBVIOUS
  <2>3. c \in Registry!Context /\ Registry!Await(w, "s_read", c)
    BY <1>1, <1>6, <2>2 DEF Registry!SyncFailed, Registry!Goto
  <2>4. c.resource \in Resources
    BY <1>1, <2>1, <2>2 DEF Registry!About
  <2>5. Registry!OneAtATime => Registry!Given("s_read", c)
    BY <1>2, <2>1, <2>2 DEF Registry!Given, Registry!About
  <2> QED BY <2>1, <2>3, <2>4, <2>5, RegistryMove DEF Registry!Steps
<1>7. ASSUME NEW w \in Handlers, Registry!ReadReferences(w)
      PROVE  Registry!IInv'
  <2>1. UNCHANGED <<x1, x2, x3, x4, x5, x7>> /\ step[w] \in {"s_read", "p_read"}
    BY <1>7 DEF Registry!ReadReferences, Registry!rows
  <2>2. PICK c : c = [known[w] EXCEPT !.allow = x4, !.role = x5.scopes]
    OBVIOUS
  <2>3. /\ c \in Registry!Context /\ c.resource = known[w].resource
        /\ c.allow = x4 /\ c.role = x5.scopes
    <3>1. x5.scopes \subseteq Registry!Entries /\ known[w] \in Registry!Context
      BY <1>1
    <3> HIDE DEF Registry!Entries
    <3> QED BY <1>1, <2>2, <3>1 DEF Registry!Context
  <2>4. Registry!Await(w, "s_batch", c) \/ Registry!Await(w, "p_batch", c)
    BY <1>7, <2>2 DEF Registry!ReadReferences
  <2>5. c.resource \in Resources
    BY <1>1, <2>1, <2>3 DEF Registry!About
  <2>6. Registry!OneAtATime => Registry!Given("s_batch", c) /\ Registry!Given("p_batch", c)
    BY <1>2, <2>1, <2>3 DEF Registry!Given, Registry!About
  <2> QED BY <2>1, <2>3, <2>4, <2>5, <2>6, RegistryMove DEF Registry!Steps
<1>8. ASSUME NEW w \in Handlers, Registry!ReplaceDiscovery(w)
      PROVE  Registry!IInv'
  <2>1. PICK r, scopes, a, l :
          /\ r = known[w].resource /\ scopes = known[w].declared
          /\ a = Registry!Declared(r, scopes, known[w].allow)
          /\ l = Registry!Declared(r, scopes, known[w].role)
    OBVIOUS
  <2>2. known[w] \in Registry!Context /\ step[w] = "s_batch"
    BY <1>1, <1>8 DEF Registry!ReplaceDiscovery
  <2>3. scopes \in SUBSET Scopes /\ a \in SUBSET Registry!Entries /\ l \in SUBSET Registry!Entries
    BY <2>1, <2>2 DEF Registry!Context, Registry!Declared
  <2>4. /\ UNCHANGED <<x1, x2>> /\ Registry!Answer(w) /\ Registry!WriteBack(w, a, l)
        /\ x3' = IF Registry!Exists(r) THEN [x3 EXCEPT ![r] = scopes] ELSE x3
    BY <1>8, <2>1 DEF Registry!ReplaceDiscovery
  <2>5. RegistryRows
    BY <1>1, <2>3, <2>4, RegistryWritten DEF RegistryRows
  <2>6. ASSUME Registry!OneAtATime PROVE Registry!Clean(x4 \cup x5.scopes)'
    <3>1. /\ r \in Resources /\ Registry!Exists(r)
          /\ known[w].allow = x4 /\ known[w].role = x5.scopes
      BY <1>1, <1>2, <2>1, <2>2, <2>6 DEF Registry!Given, Registry!About
    <3>2. x4' = a /\ x5'.scopes = l
      BY <2>3, <2>4, <3>1, RegistryWritten
    <3>3. x3'[r] = scopes /\ \A q \in Resources : q # r => x3'[q] = x3[q]
      BY <1>1, <2>4, <3>1
    <3>4. ASSUME NEW e \in x4' \cup x5'.scopes
          PROVE  x1[e[1]] # "deleted" /\ e[1] \notin x2 /\ e[2] \in x3'[e[1]]
      <4>1. e \in x4 \cup x5.scopes /\ (e[1] = r => e[2] \in scopes) /\ e[1] \in Resources
        BY <1>1, <2>1, <3>1, <3>2 DEF Registry!Declared, Registry!Entries
      <4>2. x1[e[1]] # "deleted" /\ e[1] \notin x2 /\ e[2] \in x3[e[1]]
        BY <2>6, <4>1 DEF Registry!OneAtATime, Registry!Clean, Registry!Exists
      <4> QED BY <3>3, <4>1, <4>2
    <3> QED BY <2>4, <3>4 DEF Registry!Clean, Registry!Exists
  <2> QED BY <2>4, <2>5, <2>6, RegistryAnswer
<1>9. ASSUME NEW w \in Handlers, Registry!Enable(w)
      PROVE  Registry!IInv'
  <2>1. PICK c, r : c = known[w] /\ r = known[w].resource
    OBVIOUS
  <2>2. UNCHANGED <<x2, x3, x4, x5, x7>> /\ c \in Registry!Context /\ step[w] = "e_update"
    BY <1>1, <1>9, <2>1 DEF Registry!Enable
  <2>3. CASE Registry!Exists(r)
    <3>1. x1' = [x1 EXCEPT ![r] = "active"] /\ Registry!Await(w, "s_read", c)
      BY <1>9, <2>1, <2>3 DEF Registry!Enable, Registry!Goto
    <3>2. /\ x1' \in [Resources -> {"active", "disabled", "deleted"}]
          /\ \A q \in Resources : x1'[q] = "deleted" <=> x1[q] = "deleted"
      BY <1>1, <2>3, <3>1 DEF Registry!Exists
    <3>3. RegistryRows
      BY <1>1, <2>2, <3>2, RegistryTypes DEF RegistryRows, Registry!NamedExist, Registry!Exists, Registry!Entries
    <3>4. ASSUME Registry!OneAtATime
          PROVE  Registry!Clean(x4 \cup x5.scopes)' /\ Registry!Given("s_read", c)'
      <4>1. Registry!Clean(x4 \cup x5.scopes)'
        BY <1>1, <2>2, <3>2, <3>4 DEF Registry!OneAtATime, Registry!Clean, Registry!Exists, Registry!Entries
      <4>2. Registry!Given("s_read", c)'
        BY <1>1, <1>2, <2>1, <2>2, <3>2, <3>4 DEF Registry!Given, Registry!Exists, Registry!About
      <4> QED BY <4>1, <4>2
    <3>5. c.resource \in Resources
      BY <1>1, <2>1, <2>2 DEF Registry!About
    <3> QED BY <2>2, <3>1, <3>3, <3>4, <3>5, RegistryAwait DEF Registry!Steps
  <2>4. CASE ~Registry!Exists(r)
    <3>1. x1' = x1 /\ Registry!Answer(w)
      BY <1>9, <2>1, <2>4 DEF Registry!Enable
    <3>2. Registry!OneAtATime => Registry!Clean(x4 \cup x5.scopes)'
      BY <2>2, <3>1 DEF Registry!OneAtATime, Registry!Clean, Registry!Exists
    <3> QED BY <2>2, <3>1, <3>2, RegistrySame, RegistryAnswer
  <2> QED BY <2>3, <2>4
<1>10. ASSUME NEW w \in Handlers, Registry!Hide(w)
       PROVE  Registry!IInv'
  <2>1. PICK r, a, l :
          /\ r = known[w].resource
          /\ a = Registry!Without(r, known[w].allow) /\ l = Registry!Without(r, known[w].role)
    OBVIOUS
  <2>2. known[w] \in Registry!Context /\ step[w] = "p_batch"
    BY <1>1, <1>10 DEF Registry!Hide
  <2>3. a \in SUBSET Registry!Entries /\ l \in SUBSET Registry!Entries
    BY <2>1, <2>2 DEF Registry!Context, Registry!Without
  <2>4. /\ UNCHANGED <<x1, x3>> /\ Registry!Answer(w) /\ Registry!WriteBack(w, a, l)
        /\ x2' = IF Registry!Exists(r) THEN x2 \cup {r} ELSE x2
    BY <1>10, <2>1 DEF Registry!Hide
  <2>5. x2' \subseteq Resources
    <3>1. r \in Resources
      BY <1>1, <2>1, <2>2 DEF Registry!About
    <3> QED BY <1>1, <2>4, <3>1
  <2>6. RegistryRows
    BY <1>1, <2>3, <2>4, <2>5, RegistryWritten DEF RegistryRows
  <2>7. ASSUME Registry!OneAtATime PROVE Registry!Clean(x4 \cup x5.scopes)'
    <3>1. /\ known[w].allow = x4 /\ known[w].role = x5.scopes
      BY <1>2, <2>2, <2>7 DEF Registry!Given, Registry!About
    <3>2. x4' = a /\ x5'.scopes = l
      BY <2>3, <2>4, <3>1, RegistryWritten
    <3>3. ASSUME NEW e \in x4' \cup x5'.scopes
          PROVE  x1[e[1]] # "deleted" /\ e[1] \notin x2' /\ e[2] \in x3[e[1]]
      <4>1. e \in x4 \cup x5.scopes /\ e[1] # r
        BY <2>1, <3>1, <3>2, <3>3 DEF Registry!Without
      <4> QED BY <2>4, <2>7, <4>1 DEF Registry!OneAtATime, Registry!Clean, Registry!Exists
    <3> QED BY <2>4, <3>3 DEF Registry!Clean, Registry!Exists
  <2> QED BY <2>4, <2>6, <2>7, RegistryAnswer
<1>11. ASSUME NEW w \in Handlers, NEW entries \in SUBSET Registry!Entries,
              Registry!UpdateApplicationBegin(w, entries) \/ Registry!UpdateRoleBegin(w, entries)
       PROVE  Registry!IInv'
  <2>1. UNCHANGED <<x1, x2, x3, x4, x5, x7>>
    BY <1>11 DEF Registry!UpdateApplicationBegin, Registry!UpdateRoleBegin, Registry!rows
  <2>2. CASE Registry!UpdateApplicationBegin(w, entries)
    <3>1. PICK a : a = {e \in entries : Registry!Exists(e[1])}
      OBVIOUS
    <3>2. PICK c : c = [Registry!NoContext EXCEPT !.allow = a]
      OBVIOUS
    <3>3. c = [resource |-> None, declared |-> {}, allow |-> a, role |-> {}, updatedAt |-> 0]
      BY <3>2 DEF Registry!NoContext
    <3>4. c \in Registry!Context /\ c.allow = a
      BY <3>1, <3>3, BoundsAssumption DEF Registry!Context
    <3>5. Registry!Assignable(a) /\ Registry!Await(w, "o_batch", c)
      BY <2>2, <3>1, <3>2 DEF Registry!UpdateApplicationBegin
    <3>6. Registry!Given("o_batch", c)
      BY <3>4, <3>5 DEF Registry!Given, Registry!About, Registry!Clean, Registry!Assignable,
         Registry!Visible, Registry!Exists
    <3> QED BY <2>1, <3>4, <3>5, <3>6, RegistryMove DEF Registry!Steps, Registry!About
  <2>3. CASE Registry!UpdateRoleBegin(w, entries)
    <3>1. PICK c : c = [Registry!NoContext EXCEPT !.role = entries, !.updatedAt = x5.updatedAt]
      OBVIOUS
    <3>2. c = [resource |-> None, declared |-> {}, allow |-> {}, role |-> entries, updatedAt |-> x5.updatedAt]
      BY <3>1 DEF Registry!NoContext
    <3>3. c \in Registry!Context /\ c.role = entries
      BY <1>1, <3>2 DEF Registry!Context
    <3>4. Registry!Assignable(entries) /\ Registry!Await(w, "l_batch", c)
      BY <2>3, <3>1 DEF Registry!UpdateRoleBegin
    <3>5. Registry!Given("l_batch", c)
      BY <3>3, <3>4 DEF Registry!Given, Registry!About, Registry!Clean, Registry!Assignable,
         Registry!Visible, Registry!Exists
    <3> QED BY <2>1, <3>3, <3>4, <3>5, RegistryMove DEF Registry!Steps, Registry!About
  <2> QED BY <1>11, <2>2, <2>3
<1>12. ASSUME NEW w \in Handlers, Registry!UpdateApplication(w)
       PROVE  Registry!IInv'
  <2>1. PICK a : a = known[w].allow
    OBVIOUS
  <2>2. a \subseteq Registry!Entries /\ step[w] = "o_batch"
    BY <1>1, <1>12, <2>1 DEF Registry!UpdateApplication, Registry!Context
  <2>3. /\ UNCHANGED <<x1, x2, x3, x5, x7>> /\ Registry!Answer(w)
        /\ x4' = IF Registry!StillActive(a) THEN a ELSE x4
    BY <1>12, <2>1 DEF Registry!UpdateApplication
  <2>4. \A e \in x4' : e \in x4 \/ x1[e[1]] = "active"
    BY <2>3 DEF Registry!StillActive
  <2>5. x4' \subseteq Registry!Entries
    BY <1>1, <2>2, <2>3
  <2>6. Registry!NamedExist'
    <3>1. \A e \in x4 \cup x5.scopes : x1[e[1]] # "deleted" \/ e[1] \in x7
      BY <1>1 DEF Registry!NamedExist, Registry!Exists
    <3>2. \A e \in x4' \cup x5'.scopes : e \in x4 \cup x5.scopes \/ x1[e[1]] = "active"
      BY <2>3, <2>4
    <3>3. \A e \in x4' \cup x5'.scopes : x1[e[1]] # "deleted" \/ e[1] \in x7
      BY <3>1, <3>2
    <3> QED BY <2>3, <3>3 DEF Registry!NamedExist, Registry!Exists
  <2>7. RegistryRows
    <3>1. /\ x1' \in [Resources -> {"active", "disabled", "deleted"}] /\ x2' \subseteq Resources
          /\ x3' \in [Resources -> SUBSET Scopes] /\ x7' \subseteq Resources
      BY <2>3, RegistryTypes
    <3>2. x5' \in [scopes : SUBSET Registry!Entries, updatedAt : 0 .. MaxRoleWrites]
      BY <1>1, <2>3
    <3> QED BY <2>5, <2>6, <3>1, <3>2 DEF RegistryRows
  <2>8. ASSUME Registry!OneAtATime PROVE Registry!Clean(x4 \cup x5.scopes)'
    <3>1. Registry!Clean(a) /\ Registry!Clean(x4 \cup x5.scopes)
      BY <1>2, <2>1, <2>2, <2>8 DEF Registry!Given, Registry!OneAtATime
    <3> QED BY <2>3, <3>1 DEF Registry!Clean, Registry!Exists
  <2> QED BY <2>3, <2>7, <2>8, RegistryAnswer
<1>13. ASSUME NEW w \in Handlers, Registry!UpdateRole(w)
       PROVE  Registry!IInv'
  <2>1. PICK l : l = known[w].role
    OBVIOUS
  <2>2. l \in SUBSET Registry!Entries /\ step[w] = "l_batch"
    BY <1>1, <1>13, <2>1 DEF Registry!UpdateRole, Registry!Context
  <2>3. /\ UNCHANGED <<x1, x2, x3, x4>> /\ Registry!Answer(w) /\ Registry!MayRevive
        /\ x5' = x5 \/ Registry!RoleBecomes(l)
    BY <1>13, <2>1 DEF Registry!UpdateRole
  <2>4. /\ x5' \in [scopes : SUBSET Registry!Entries, updatedAt : 0 .. MaxRoleWrites]
        /\ x5' = x5 \/ x5'.scopes = l
    BY <1>1, <2>2, <2>3, RegistryRole
  <2>5. x4' \subseteq Registry!Entries /\ x5'.scopes \subseteq Registry!Entries
    BY <1>1, <2>3, <2>4
  <2>6. RegistryRows
    BY <1>1, <2>3, <2>4, <2>5, RegistryRevives DEF RegistryRows
  <2>7. ASSUME Registry!OneAtATime PROVE Registry!Clean(x4 \cup x5.scopes)'
    <3>1. Registry!Clean(l) /\ Registry!Clean(x4 \cup x5.scopes)
      BY <1>2, <2>1, <2>2, <2>7 DEF Registry!Given, Registry!OneAtATime
    <3> QED BY <2>3, <2>4, <3>1 DEF Registry!Clean, Registry!Exists
  <2> QED BY <2>3, <2>6, <2>7, RegistryAnswer
<1>14. ASSUME NEW w \in Handlers, Registry!DeleteResource(w)
       PROVE  Registry!IInv'
  <2>1. PICK r : r = known[w].resource
    OBVIOUS
  <2>2. r \in Resources
    BY <1>1, <1>14, <2>1 DEF Registry!DeleteResource, Registry!About
  <2>3. /\ UNCHANGED <<x2, x3, x7>> /\ Registry!Answer(w)
        /\ x1' = [x1 EXCEPT ![r] = "deleted"] /\ Registry!Strip(r)
    BY <1>14, <2>1 DEF Registry!DeleteResource
  <2>4. PICK l : l = Registry!Without(r, x5.scopes)
    OBVIOUS
  <2>5. l \in SUBSET Registry!Entries
    BY <1>1, <2>4 DEF Registry!Without
  <2>6. x4' = Registry!Without(r, x4) /\ ((x5' = x5 /\ x5.scopes = l) \/ Registry!RoleBecomes(l))
    BY <2>3, <2>4 DEF Registry!Strip
  <2>7. /\ x5' \in [scopes : SUBSET Registry!Entries, updatedAt : 0 .. MaxRoleWrites]
        /\ x5'.scopes = l
    BY <1>1, <2>5, <2>6, RegistryRole
  <2>8. \A e \in x4' \cup x5'.scopes : e \in x4 \cup x5.scopes /\ e[1] # r /\ e[1] \in Resources
    BY <1>1, <2>4, <2>6, <2>7 DEF Registry!Without, Registry!Entries
  <2>9. x1' \in [Resources -> {"active", "disabled", "deleted"}]
        /\ \A q \in Resources : q # r => x1'[q] = x1[q]
    BY <1>1, <2>2, <2>3
  <2>10. x4' \subseteq Registry!Entries
    BY <1>1, <2>6 DEF Registry!Without
  <2>11. Registry!NamedExist'
    <3>1. \A e \in x4 \cup x5.scopes : x1[e[1]] # "deleted" \/ e[1] \in x7
      BY <1>1 DEF Registry!NamedExist, Registry!Exists
    <3>2. \A e \in x4' \cup x5'.scopes : x1'[e[1]] # "deleted" \/ e[1] \in x7'
      BY <2>3, <2>8, <2>9, <3>1
    <3> QED BY <3>2 DEF Registry!NamedExist, Registry!Exists
  <2>12. RegistryRows
    <3>1. /\ x2' \subseteq Resources /\ x3' \in [Resources -> SUBSET Scopes] /\ x7' \subseteq Resources
      BY <2>3, RegistryTypes
    <3> QED BY <2>7, <2>9, <2>10, <2>11, <3>1 DEF RegistryRows
  <2>13. Registry!OneAtATime => Registry!Clean(x4 \cup x5.scopes)'
    BY <2>3, <2>8, <2>9 DEF Registry!OneAtATime, Registry!Clean, Registry!Exists
  <2> QED BY <2>3, <2>12, <2>13, RegistryAnswer
<1>15. ASSUME NEW w \in Handlers, Registry!Abandon(w)
       PROVE  Registry!IInv'
  <2>1. UNCHANGED <<x1, x2, x3, x4, x5, x7>> /\ Registry!Answer(w)
    BY <1>15 DEF Registry!Abandon, Registry!rows
  <2>2. Registry!OneAtATime => Registry!Clean(x4 \cup x5.scopes)'
    BY <2>1 DEF Registry!OneAtATime, Registry!Clean, Registry!Exists
  <2> QED BY <2>1, <2>2, RegistrySame, RegistryAnswer
<1> QED BY <1>3, <1>4, <1>5, <1>6, <1>7, <1>8, <1>9, <1>10, <1>11, <1>12, <1>13, <1>14, <1>15
        DEF Registry!Next

-----------------------------------------------------------------------------
(* SignInMethods: x1 is wallet, x2 siwe, x3 provider, x4 links, x5         *)
(* connection, x6 stranded, x7 disturbed.                                  *)

MethodDisturbances == {"no", "halfway", "overlapped"}

(* Rows a step may leave.                                                  *)
MethodRows ==
  /\ x1' \in Users \cup {None} /\ x2' \in Users \cup {None}
  /\ x3' \in [Users -> Methods!Accounts \cup {None}]
  /\ x4' \in [Users -> Methods!Accounts]
  /\ x5' \in [Users -> Methods!Connection \cup {None}]
  /\ x6' = {} /\ x7' \in [Users -> MethodDisturbances]

(* A User's connection names no account that is not there.                 *)
MethodLinked(u) == x5[u] # None => x5[u].account \in {None, x3[u]}

(* What a step for one User leaves of the others.                          *)
OthersKept(u) ==
  \A v \in Users \ {u} :
    /\ x1' = v <=> x1 = v
    /\ x2' = v <=> x2 = v
    /\ x3'[v] = x3[v] /\ x7'[v] = x7[v]
    /\ x5'[v] \in {x5[v], None}
    /\ x3[v] # None /\ Methods!Attached(v) => x5'[v] = x5[v]

LEMMA MethodsTypes ==
  ASSUME Methods!IInv
  PROVE  /\ x1 \in Users \cup {None} /\ x2 \in Users \cup {None}
         /\ x3 \in [Users -> Methods!Accounts \cup {None}]
         /\ x4 \in [Users -> Methods!Accounts]
         /\ x5 \in [Users -> Methods!Connection \cup {None}]
         /\ x6 = {} /\ x7 \in [Users -> MethodDisturbances]
         /\ step \in [Handlers -> Methods!Steps] /\ known \in [Handlers -> Methods!Context]
         /\ \A w \in Handlers : step[w] # "idle" => known[w].user \in Users
         /\ \A u \in Users : MethodLinked(u)
         /\ \A u \in Users : x7[u] # "overlapped" => Methods!AloneFor(u)
  BY DEF Methods!IInv, Methods!TypeOK, Methods!HandlesAUser, MethodLinked, MethodDisturbances

LEMMA MethodsInit == Methods!Init => Methods!IInv
<1> SUFFICES ASSUME Methods!Init PROVE Methods!IInv
  OBVIOUS
<1>1. /\ x1 = None /\ x2 = None /\ x3 = [u \in Users |-> 1] /\ x4 = [u \in Users |-> 1]
      /\ x5 = [u \in Users |-> [account |-> 1, active |-> TRUE, authorized |-> FALSE]]
      /\ x6 = {} /\ x7 = [u \in Users |-> "no"]
      /\ step = [w \in Handlers |-> "idle"] /\ known = [w \in Handlers |-> Methods!NoContext]
  BY DEF Methods!Init
<1>2. 1 \in Methods!Accounts
  BY BoundsAssumption DEF Methods!Accounts
<1>3. [account |-> 1, active |-> TRUE, authorized |-> FALSE] \in Methods!Connection
  BY <1>2 DEF Methods!Connection
<1>4. Methods!NoContext \in Methods!Context
  BY DEF Methods!Context, Methods!NoContext
<1>5. Methods!TypeOK
  <2>1. x1 \in Users \cup {None} /\ x2 \in Users \cup {None} /\ x6 \subseteq Users
    BY <1>1
  <2>2. x3 \in [Users -> Methods!Accounts \cup {None}] /\ x4 \in [Users -> Methods!Accounts]
    BY <1>1, <1>2
  <2>3. x5 \in [Users -> Methods!Connection \cup {None}]
    BY <1>1, <1>3
  <2>4. step \in [Handlers -> Methods!Steps]
    BY <1>1 DEF Methods!Steps
  <2>5. known \in [Handlers -> Methods!Context]
    BY <1>1, <1>4
  <2>6. x7 \in [Users -> {"no", "halfway", "overlapped"}]
    BY <1>1
  <2> QED BY <2>1, <2>2, <2>3, <2>4, <2>5, <2>6 DEF Methods!TypeOK
<1>6. \A u \in Users : x5[u] # None => x5[u].account \in {None, x3[u]}
  <2>1. \A u \in Users : x3[u] = 1 /\ x5[u] = [account |-> 1, active |-> TRUE, authorized |-> FALSE]
    BY <1>1
  <2> QED BY <2>1
<1>7. \A u \in Users : Methods!Attached(u)
  <2>1. \A u \in Users : x3[u] = 1 /\ x5[u] = [account |-> 1, active |-> TRUE, authorized |-> FALSE]
    BY <1>1
  <2> QED BY <1>3, <2>1, RowsNoneAssumption DEF Methods!Attached
<1>8. Methods!HandlesAUser /\ \A w \in Handlers : step[w] = "idle"
  BY <1>1 DEF Methods!HandlesAUser
<1>9. ASSUME NEW u \in Users PROVE Methods!AloneFor(u)
  <2>1. \A w \in Handlers : Methods!Given(step[w], known[w])
    BY <1>8 DEF Methods!Given
  <2> QED BY <1>1, <1>7, <1>8, <2>1 DEF Methods!AloneFor
<1> QED BY <1>1, <1>5, <1>6, <1>7, <1>8, <1>9 DEF Methods!IInv

(* An invocation about u moves, and what it writes is u's.                 *)
LEMMA MethodsAwait ==
  ASSUME Methods!IInv, NEW w \in Handlers, NEW u \in Users,
         NEW s \in Methods!Steps, NEW c \in Methods!Context, Methods!Await(w, s, c),
         MethodRows, OthersKept(u), MethodLinked(u)',
         s # "idle" => c.user = u,
         step[w] # "idle" => known[w].user = u,
         x7'[u] # "overlapped" =>
           /\ x7[u] # "overlapped"
           /\ step[w] = "idle" => ~Methods!InFlight(u)
           /\ Methods!Attached(u)' /\ Methods!Given(s, c)'
           /\ \/ s \in Methods!HalfWay
              \/ x7'[u] = "halfway"
              \/ x1' = u <=> x2' = u
  PROVE  Methods!IInv'
<1>1. /\ step \in [Handlers -> Methods!Steps] /\ known \in [Handlers -> Methods!Context]
      /\ \A x \in Handlers : step[x] # "idle" => known[x].user \in Users
      /\ \A v \in Users : x7[v] # "overlapped" => Methods!AloneFor(v)
  BY MethodsTypes
<1>2. /\ step' = [step EXCEPT ![w] = s] /\ known' = [known EXCEPT ![w] = c]
  BY DEF Methods!Await
<1>3. /\ step'[w] = s /\ known'[w] = c
      /\ \A x \in Handlers \ {w} : step'[x] = step[x] /\ known'[x] = known[x]
  BY <1>1, <1>2
<1>4. Methods!TypeOK' /\ Methods!HandlesAUser' /\ x6' = {}
  BY <1>1, <1>2, <1>3 DEF Methods!TypeOK, MethodRows, MethodDisturbances, Methods!HandlesAUser
<1>5. \A v \in Users : x5'[v] # None => x5'[v].account \in {None, x3'[v]}
  BY MethodsTypes DEF OthersKept, MethodLinked
<1>6. ASSUME x7'[u] # "overlapped" PROVE Methods!AloneFor(u)'
  <2>1. /\ Methods!AloneFor(u)
        /\ step[w] = "idle" => ~Methods!InFlight(u)
        /\ Methods!Attached(u)' /\ Methods!Given(s, c)'
        /\ s \in Methods!HalfWay \/ x7'[u] = "halfway" \/ (x1' = u <=> x2' = u)
    BY <1>1, <1>6
  <2>2. \A x \in Handlers \ {w} : step[x] # "idle" => known[x].user # u
    BY <2>1 DEF Methods!AloneFor, Methods!InFlight
  <2>3. \A x, y \in Handlers :
          step'[x] # "idle" /\ step'[y] # "idle" /\ known'[x].user = u /\ known'[y].user = u => x = y
    BY <1>3, <2>2
  <2>4. ASSUME NEW x \in Handlers, known'[x].user = u PROVE Methods!Given(step[x], known[x])'
    <3>1. CASE x = w
      <4>1. Methods!Given(s, c)'
        BY <2>1
      <4> QED BY <1>3, <3>1, <4>1 DEF Methods!Given, Methods!MayLetGo, Methods!OtherMethod
    <3>2. CASE x # w
      <4>1. step'[x] = "idle"
        BY <1>3, <2>2, <2>4, <3>2
      <4> QED BY <4>1 DEF Methods!Given
    <3> QED BY <3>1, <3>2
  <2>5. \/ x1' = u <=> x2' = u
        \/ x7'[u] = "halfway"
        \/ \E x \in Handlers : step'[x] \in Methods!HalfWay /\ known'[x].user = u
    BY <1>3, <2>1 DEF Methods!HalfWay
  <2> QED BY <2>1, <2>3, <2>4, <2>5 DEF Methods!AloneFor
<1>7. ASSUME NEW v \in Users \ {u}, x7'[v] # "overlapped" PROVE Methods!AloneFor(v)'
  <2>1. /\ x1' = v <=> x1 = v
        /\ x2' = v <=> x2 = v
        /\ x3'[v] = x3[v] /\ x7'[v] = x7[v]
        /\ x3[v] # None /\ Methods!Attached(v) => x5'[v] = x5[v]
    BY DEF OthersKept
  <2>2. Methods!AloneFor(v)
    BY <1>1, <1>7, <2>1
  <2>3. \A x \in Handlers : step'[x] # "idle" /\ known'[x].user = v =>
          x # w /\ step'[x] = step[x] /\ known'[x] = known[x]
    BY <1>3
  <2>4. \A x, y \in Handlers :
          step'[x] # "idle" /\ step'[y] # "idle" /\ known'[x].user = v /\ known'[y].user = v => x = y
    BY <2>2, <2>3 DEF Methods!AloneFor
  <2>5. ASSUME NEW x \in Handlers, known'[x].user = v PROVE Methods!Given(step[x], known[x])'
    <3>1. CASE step'[x] = "idle"
      BY <3>1 DEF Methods!Given
    <3>2. CASE step'[x] # "idle"
      <4>1. /\ step'[x] = step[x] /\ known'[x] = known[x] /\ known[x].user = v
            /\ Methods!Given(step[x], known[x])
        BY <2>2, <2>3, <2>5, <3>2 DEF Methods!AloneFor
      <4> QED BY <2>1, <4>1 DEF Methods!Given, Methods!MayLetGo, Methods!OtherMethod
    <3> QED BY <3>1, <3>2
  <2>6. Methods!Attached(v)'
    BY <2>1, <2>2 DEF Methods!AloneFor, Methods!Attached
  <2>7. \/ x1' = v <=> x2' = v
        \/ x7'[v] = "halfway"
        \/ \E x \in Handlers : step'[x] \in Methods!HalfWay /\ known'[x].user = v
    <3>1. ASSUME NEW x \in Handlers, step[x] \in Methods!HalfWay, known[x].user = v
          PROVE  x # w
      BY <3>1 DEF Methods!HalfWay
    <3> QED BY <1>3, <2>1, <2>2, <3>1 DEF Methods!AloneFor
  <2> QED BY <2>4, <2>5, <2>6, <2>7 DEF Methods!AloneFor
<1> QED BY <1>4, <1>5, <1>6, <1>7 DEF Methods!IInv

(* Two invocations about u are told.                                       *)
LEMMA MethodsOverlap ==
  ASSUME Methods!IInv, NEW u \in Users, Methods!Overlaps(u)
  PROVE  /\ x7' \in [Users -> MethodDisturbances]
         /\ \A v \in Users \ {u} : x7'[v] = x7[v]
         /\ x7'[u] # "overlapped" => x7'[u] = x7[u] /\ ~Methods!InFlight(u)
  BY MethodsTypes DEF Methods!Overlaps, MethodDisturbances

(* So is a change that stops half-way.                                     *)
LEMMA MethodsHalfway ==
  ASSUME Methods!IInv, NEW u \in Users, Methods!StopsHalfway(u)
  PROVE  /\ x7' \in [Users -> MethodDisturbances]
         /\ \A v \in Users \ {u} : x7'[v] = x7[v]
         /\ x7'[u] # "overlapped" => x7[u] # "overlapped" /\ x7'[u] = "halfway"
  BY MethodsTypes DEF Methods!StopsHalfway, MethodDisturbances

(* The sweep after an account's deletion spares the connections that are   *)
(* attached to another one, and leaves none attached to it.                *)
LEMMA MethodsSwept ==
  ASSUME NEW before \in [Users -> Methods!Connection \cup {None}], NEW u \in Users,
         NEW account \in Methods!Accounts \cup {None}
  PROVE  /\ Methods!Swept(before, u, account) \in [Users -> Methods!Connection \cup {None}]
         /\ \A v \in Users : v # u \/ account = None =>
              Methods!Swept(before, u, account)[v] \in {before[v], None}
         /\ \A v \in Users :
              before[v] # None /\ before[v].account # None /\ (v # u \/ account = None) =>
                Methods!Swept(before, u, account)[v] = before[v]
         /\ before[u] # None /\ before[u].account \in {None, account} =>
              \/ Methods!Swept(before, u, account)[u] = None
              \/ Methods!Swept(before, u, account)[u].account = None
              \/ account = None
<1> DEFINE detached == [v \in Users |->
             IF v = u /\ before[v] # None /\ account # None /\ before[v].account = account
             THEN [before[v] EXCEPT !.account = None] ELSE before[v]]
<1>1. Methods!Swept(before, u, account) =
        [v \in Users |-> IF detached[v] # None /\ Methods!Unused(detached[v]) THEN None ELSE detached[v]]
  BY DEF Methods!Swept
<1>2. ASSUME NEW v \in Users PROVE detached[v] \in Methods!Connection \cup {None}
  BY DEF Methods!Connection
<1>3. ASSUME NEW v \in Users, v # u \/ account = None
      PROVE  detached[v] = before[v]
  BY <1>3
<1>4. ASSUME before[u] # None, before[u].account \in {None, account}, account # None
      PROVE  detached[u].account = None
  <2>1. before[u] \in Methods!Connection
    BY <1>4
  <2>2. CASE before[u].account = account
    <3>1. PICK row : row = [before[u] EXCEPT !.account = None]
      OBVIOUS
    <3>2. row.account = None
      BY <2>1, <3>1 DEF Methods!Connection
    <3>3. detached[u] = row
      BY <1>4, <2>2, <3>1
    <3> QED BY <3>2, <3>3
  <2>3. CASE before[u].account = None
    <3>1. detached[u] = before[u]
      BY <1>4, <2>3
    <3> QED BY <2>3, <3>1
  <2> QED BY <1>4, <2>2, <2>3
<1> HIDE DEF detached
<1> QED BY <1>1, <1>2, <1>3, <1>4 DEF Methods!Unused

(* Where no invocation about u is half-way, its wallet is whole, or one has*)
(* stopped there.                                                          *)
LEMMA MethodsSettled ==
  ASSUME NEW u \in Users, Methods!AloneFor(u), NEW w \in Handlers,
         \/ ~Methods!InFlight(u)
         \/ step[w] # "idle" /\ known[w].user = u /\ step[w] \notin Methods!HalfWay
  PROVE  x7[u] = "halfway" \/ (x1 = u <=> x2 = u)
  BY DEF Methods!AloneFor, Methods!InFlight, Methods!HalfWay

LEMMA MethodsNoContext == Methods!NoContext \in Methods!Context
  BY DEF Methods!Context, Methods!NoContext

(* An invocation has read something, or it ends and has written nothing.   *)
LEMMA MethodsMove ==
  ASSUME Methods!IInv, NEW w \in Handlers, NEW u \in Users,
         NEW s \in Methods!Steps \ Methods!HalfWay, NEW c \in Methods!Context,
         Methods!Await(w, s, c), UNCHANGED <<x1, x2, x3, x4, x5, x6>>,
         s # "idle" => c.user = u,
         step[w] # "idle" => known[w].user = u,
         x7' \in [Users -> MethodDisturbances], \A v \in Users \ {u} : x7'[v] = x7[v],
         x7'[u] # "overlapped" =>
           /\ x7[u] # "overlapped"
           /\ \/ x7'[u] = "halfway"
              \/ x7'[u] = x7[u] /\ step[w] \notin Methods!HalfWay
           /\ step[w] = "idle" => ~Methods!InFlight(u)
           /\ Methods!AloneFor(u) => s # "l_account" /\ Methods!Given(s, c)
  PROVE  Methods!IInv'
<1>1. MethodRows
  BY MethodsTypes DEF MethodRows
<1>2. OthersKept(u) /\ MethodLinked(u)'
  BY MethodsTypes DEF OthersKept, MethodLinked
<1>3. ASSUME x7'[u] # "overlapped"
      PROVE  /\ x7[u] # "overlapped"
             /\ step[w] = "idle" => ~Methods!InFlight(u)
             /\ Methods!Attached(u)' /\ Methods!Given(s, c)'
             /\ \/ s \in Methods!HalfWay
                \/ x7'[u] = "halfway"
                \/ x1' = u <=> x2' = u
  <2>1. Methods!AloneFor(u)
    BY <1>3, MethodsTypes
  <2>2. x7'[u] = "halfway" \/ (x1 = u <=> x2 = u)
    BY <1>3, <2>1, MethodsSettled
  <2>3. Methods!Attached(u)' /\ Methods!Given(s, c)'
    BY <1>3, <2>1 DEF Methods!AloneFor, Methods!Attached, Methods!Given, Methods!MayLetGo, Methods!OtherMethod
  <2> QED BY <1>3, <2>2, <2>3
<1> QED BY <1>1, <1>2, <1>3, MethodsAwait

(* A request arrives and reads.                                            *)
LEMMA MethodsBegin ==
  ASSUME Methods!IInv, NEW w \in Handlers, NEW u \in Users,
         NEW s \in Methods!Steps \ Methods!HalfWay, NEW account \in Methods!Accounts \cup {None},
         s # "idle", Methods!Begin(w, u, s, account), UNCHANGED <<x1, x2, x3, x4, x5, x6>>,
         NEW c, c = [user |-> u, account |-> account],
         Methods!AloneFor(u) => Methods!Given(s, c)
  PROVE  Methods!IInv'
<1>1. c \in Methods!Context /\ c.user = u
  BY DEF Methods!Context
<1>2. /\ Methods!Await(w, s, c) /\ step[w] = "idle" /\ Methods!Overlaps(u)
  BY DEF Methods!Begin
<1>3. /\ x7' \in [Users -> MethodDisturbances]
      /\ \A v \in Users \ {u} : x7'[v] = x7[v]
      /\ x7'[u] # "overlapped" => x7'[u] = x7[u] /\ ~Methods!InFlight(u)
  BY <1>2, MethodsOverlap
<1>4. s # "l_account" /\ step[w] \notin Methods!HalfWay
  BY <1>2 DEF Methods!HalfWay
<1> QED BY <1>1, <1>2, <1>3, <1>4, MethodsMove

(* An account is deleted, or was not there.                                *)
LEMMA MethodsDeleted ==
  ASSUME Methods!IInv, NEW u \in Users, NEW account, Methods!DeleteAccount(u, account)
  PROVE  /\ x3' \in [Users -> Methods!Accounts \cup {None}]
         /\ \A v \in Users \ {u} : x3'[v] = x3[v]
         /\ Methods!OtherMethod(u) \/ x3[u] = None \/ x7[u] = "overlapped" => x6' = {}
         /\ Methods!Holds(u, account) => x3'[u] = None /\ account = x3[u] /\ account # None
         /\ ~Methods!Holds(u, account) => x3' = x3
<1>1. x3 \in [Users -> Methods!Accounts \cup {None}] /\ x6 = {}
  BY MethodsTypes
<1>2. CASE Methods!Holds(u, account)
  <2>1. /\ x3' = [x3 EXCEPT ![u] = None] /\ x3[u] # None
        /\ x6' = IF Methods!OtherMethod(u) \/ x7[u] = "overlapped" THEN x6 ELSE x6 \cup {u}
    BY <1>2 DEF Methods!DeleteAccount, Methods!Holds
  <2> QED BY <1>1, <1>2, <2>1 DEF Methods!Holds
<1>3. CASE ~Methods!Holds(u, account)
  BY <1>1, <1>3 DEF Methods!DeleteAccount
<1> QED BY <1>2, <1>3

LEMMA MethodsStep ==
  ASSUME Methods!IInv, Methods!Next
  PROVE  Methods!IInv'
<1>1. /\ x1 \in Users \cup {None} /\ x2 \in Users \cup {None}
      /\ x3 \in [Users -> Methods!Accounts \cup {None}]
      /\ x4 \in [Users -> Methods!Accounts]
      /\ x5 \in [Users -> Methods!Connection \cup {None}]
      /\ x6 = {} /\ x7 \in [Users -> MethodDisturbances]
      /\ step \in [Handlers -> Methods!Steps] /\ known \in [Handlers -> Methods!Context]
      /\ \A w \in Handlers : step[w] # "idle" => known[w].user \in Users
      /\ \A u \in Users : x7[u] # "overlapped" => Methods!AloneFor(u)
  BY MethodsTypes
<1>2. \A u \in Users : x5[u] # None => x5[u].account \in {None, x3[u]}
  BY MethodsTypes DEF MethodLinked
<1>3. \A u \in Users : Methods!AloneFor(u) =>
        Methods!Attached(u) /\ \A w \in Handlers : known[w].user = u => Methods!Given(step[w], known[w])
  BY DEF Methods!AloneFor
<1>4. None \notin Users /\ None \notin Methods!Accounts /\ None \notin Methods!Connection
  BY PartsNoneAssumption, RowsNoneAssumption, BoundsAssumption DEF Methods!Accounts
<1>5. "idle" \in Methods!Steps \ Methods!HalfWay
  BY DEF Methods!Steps, Methods!HalfWay
<1>6. \A c : Methods!Given("idle", c) /\ Methods!Given("l_address", c)
  BY DEF Methods!Given
<1>7. \A c : Methods!Given("idle", c)'
  BY DEF Methods!Given
(* A Provider account is linked, outside any invocation.                   *)
<1>8. ASSUME NEW u \in Users, Methods!LinkProvider(u) PROVE Methods!IInv'
  <2>1. PICK a, row : a = x4[u] + 1 /\ row = [account |-> a, active |-> TRUE,
                        authorized |-> x5[u] # None /\ x5[u].authorized]
    OBVIOUS
  <2>2. a \in Methods!Accounts
    BY <1>1, <1>8, <2>1, BoundsAssumption DEF Methods!LinkProvider, Methods!Accounts
  <2>3. row \in Methods!Connection /\ row.account = a /\ row.active
    <3>1. (x5[u] # None /\ x5[u].authorized) \in BOOLEAN
      OBVIOUS
    <3> QED BY <2>1, <2>2, <3>1 DEF Methods!Connection
  <2>4. /\ UNCHANGED <<x1, x2, x6, step, known>>
        /\ x4' = [x4 EXCEPT ![u] = a]
        /\ Methods!Overlaps(u)
    BY <1>8, <2>1 DEF Methods!LinkProvider
  <2>5. x4'[u] = a
    BY <1>1, <2>4
  <2>6. x3' = [x3 EXCEPT ![u] = a] /\ x5' = [x5 EXCEPT ![u] = row]
    BY <1>8, <2>1, <2>5 DEF Methods!LinkProvider
  <2>7. /\ x3' \in [Users -> Methods!Accounts \cup {None}] /\ x4' \in [Users -> Methods!Accounts]
        /\ x5' \in [Users -> Methods!Connection \cup {None}]
        /\ x3'[u] = a /\ x5'[u] = row
        /\ \A v \in Users \ {u} : x3'[v] = x3[v] /\ x5'[v] = x5[v]
    BY <1>1, <2>2, <2>3, <2>4, <2>6
  <2>8. /\ x7' \in [Users -> MethodDisturbances]
        /\ \A v \in Users \ {u} : x7'[v] = x7[v]
        /\ x7'[u] # "overlapped" => x7'[u] = x7[u] /\ ~Methods!InFlight(u)
    BY <2>4, MethodsOverlap
  <2>9. Methods!TypeOK' /\ Methods!HandlesAUser'
    BY <1>1, <2>4, <2>7, <2>8 DEF Methods!TypeOK, Methods!HandlesAUser, MethodDisturbances
  <2>10. \A v \in Users : x5'[v] # None => x5'[v].account \in {None, x3'[v]}
    BY <1>2, <2>3, <2>7
  <2>11. ASSUME NEW v \in Users, x7'[v] # "overlapped" PROVE Methods!AloneFor(v)'
    <3>1. Methods!AloneFor(v) /\ (v = u => ~Methods!InFlight(u)) /\ x7'[v] = x7[v]
      BY <1>1, <2>8, <2>11
    <3>2. Methods!Attached(v)'
      <4>1. CASE v = u
        BY <1>4, <2>3, <2>7, <4>1 DEF Methods!Attached
      <4>2. CASE v # u
        BY <1>3, <2>7, <3>1, <4>2 DEF Methods!Attached
      <4> QED BY <4>1, <4>2
    <3>3. ASSUME NEW x \in Handlers, known'[x].user = v PROVE Methods!Given(step[x], known[x])'
      <4>1. CASE step[x] = "idle"
        BY <2>4, <4>1 DEF Methods!Given
      <4>2. CASE step[x] # "idle"
        <5>1. known[x].user = v /\ v # u
          BY <2>4, <3>1, <3>3, <4>2 DEF Methods!InFlight
        <5>2. x3'[v] = x3[v] /\ Methods!Given(step[x], known[x])
          BY <1>3, <2>7, <3>1, <5>1
        <5> QED BY <2>4, <3>1, <5>1, <5>2 DEF Methods!Given, Methods!MayLetGo, Methods!OtherMethod
      <4> QED BY <4>1, <4>2
    <3>4. \/ x1' = v <=> x2' = v
          \/ x7'[v] = "halfway"
          \/ \E x \in Handlers : step'[x] \in Methods!HalfWay /\ known'[x].user = v
      BY <2>4, <3>1 DEF Methods!AloneFor
    <3>5. \A x, y \in Handlers :
            step'[x] # "idle" /\ step'[y] # "idle" /\ known'[x].user = v /\ known'[y].user = v => x = y
      BY <2>4, <3>1 DEF Methods!AloneFor
    <3> QED BY <3>2, <3>3, <3>4, <3>5 DEF Methods!AloneFor
  <2> QED BY <1>1, <2>4, <2>9, <2>10, <2>11 DEF Methods!IInv
(* The wallet.                                                             *)
<1>9. ASSUME NEW w \in Handlers, NEW u \in Users, Methods!LinkWalletBegin(w, u) PROVE Methods!IInv'
  <2>1. Methods!Begin(w, u, "l_address", None) /\ UNCHANGED <<x1, x2, x3, x4, x5, x6>>
    BY <1>9 DEF Methods!LinkWalletBegin, Methods!rows
  <2>2. "l_address" \in Methods!Steps \ Methods!HalfWay
    BY DEF Methods!Steps, Methods!HalfWay
  <2> QED BY <1>6, <2>1, <2>2, MethodsBegin
<1>10. ASSUME NEW w \in Handlers, Methods!InsertAddress(w) PROVE Methods!IInv'
  <2>1. PICK u, c : u = known[w].user /\ c = known[w]
    OBVIOUS
  <2>2. u \in Users /\ c \in Methods!Context /\ step[w] = "l_address" /\ step[w] \notin Methods!HalfWay
    BY <1>1, <1>10, <2>1 DEF Methods!InsertAddress, Methods!HalfWay
  <2>3. UNCHANGED <<x2, x3, x4, x5, x6, x7>>
    BY <1>10 DEF Methods!InsertAddress
  <2>4. CASE x1 = None
    <3>1. x1' = u /\ Methods!Await(w, "l_account", c)
      BY <1>10, <2>1, <2>4 DEF Methods!InsertAddress
    <3>2. MethodRows
      BY <1>1, <2>2, <2>3, <3>1 DEF MethodRows
    <3>3. OthersKept(u) /\ MethodLinked(u)'
      BY <1>2, <1>4, <2>2, <2>3, <2>4, <3>1 DEF OthersKept, MethodLinked
    <3>4. ASSUME x7'[u] # "overlapped"
          PROVE  x7[u] # "overlapped" /\ Methods!Attached(u)' /\ Methods!Given("l_account", c)'
      <4>1. Methods!AloneFor(u)
        BY <1>1, <2>2, <2>3, <3>4
      <4>2. x2 = u => x7[u] = "halfway"
        BY <1>4, <2>1, <2>2, <2>4, <4>1, MethodsSettled
      <4>3. Methods!Attached(u)'
        BY <1>3, <2>2, <2>3, <4>1 DEF Methods!Attached
      <4>4. Methods!Given("l_account", c)'
        BY <2>1, <2>3, <3>1, <4>2 DEF Methods!Given
      <4> QED BY <2>3, <3>4, <4>3, <4>4
    <3>5. "l_account" \in Methods!Steps /\ "l_account" \in Methods!HalfWay
      BY DEF Methods!Steps, Methods!HalfWay
    <3> QED BY <2>1, <2>2, <3>1, <3>2, <3>3, <3>4, <3>5, MethodsAwait
  <2>5. CASE x1 # None
    <3>1. x1' = x1 /\ Methods!Await(w, "idle", Methods!NoContext)
      BY <1>10, <2>5 DEF Methods!InsertAddress, Methods!Answer
    <3> QED BY <1>1, <1>5, <1>6, <2>1, <2>2, <2>3, <3>1, MethodsMove, MethodsNoContext
  <2> QED BY <2>4, <2>5
<1>11. ASSUME NEW w \in Handlers, Methods!InsertAccount(w) PROVE Methods!IInv'
  <2>1. PICK u : u = known[w].user
    OBVIOUS
  <2>2. u \in Users /\ step[w] = "l_account"
    BY <1>1, <1>11, <2>1 DEF Methods!InsertAccount
  <2>3. /\ UNCHANGED <<x1, x3, x4, x5, x6>> /\ Methods!Await(w, "idle", Methods!NoContext)
        /\ x2' = (IF x2 = None THEN u ELSE x2)
        /\ IF x2 = None THEN x7' = x7 ELSE Methods!StopsHalfway(u)
    BY <1>11, <2>1 DEF Methods!InsertAccount, Methods!Answer
  <2>4. /\ x7' \in [Users -> MethodDisturbances]
        /\ \A v \in Users \ {u} : x7'[v] = x7[v]
        /\ x7'[u] # "overlapped" => x7[u] # "overlapped" /\ (x2 # None => x7'[u] = "halfway")
    BY <1>1, <2>2, <2>3, MethodsHalfway
  <2>5. MethodRows
    BY <1>1, <2>2, <2>3, <2>4 DEF MethodRows
  <2>6. OthersKept(u) /\ MethodLinked(u)'
    BY <1>2, <1>4, <2>2, <2>3, <2>4 DEF OthersKept, MethodLinked
  <2>7. ASSUME x7'[u] # "overlapped"
        PROVE  /\ x7[u] # "overlapped" /\ Methods!Attached(u)'
               /\ x7'[u] = "halfway" \/ (x1' = u <=> x2' = u)
    <3>1. Methods!AloneFor(u)
      BY <1>1, <2>2, <2>4, <2>7
    <3>2. x1 = u
      BY <1>3, <2>1, <2>2, <3>1 DEF Methods!Given
    <3>3. Methods!Attached(u)'
      BY <1>3, <2>2, <2>3, <3>1 DEF Methods!Attached
    <3> QED BY <2>3, <2>4, <2>7, <3>2, <3>3
  <2> QED BY <1>5, <1>7, <2>1, <2>2, <2>3, <2>5, <2>6, <2>7, MethodsAwait, MethodsNoContext
<1>12. ASSUME NEW w \in Handlers, NEW u \in Users, Methods!UnlinkAddress(w, u) PROVE Methods!IInv'
  <2>1. PICK c : c = [user |-> u, account |-> None]
    OBVIOUS
  <2>2. c \in Methods!Context /\ c.user = u
    BY <2>1 DEF Methods!Context
  <2>3. /\ UNCHANGED <<x2, x3, x4, x5, x6>> /\ Methods!Await(w, "u_account", c) /\ step[w] = "idle"
        /\ x1' = (IF x1 = u THEN None ELSE x1) /\ Methods!Overlaps(u)
    BY <1>12, <2>1 DEF Methods!UnlinkAddress, Methods!Begin
  <2>4. /\ x7' \in [Users -> MethodDisturbances]
        /\ \A v \in Users \ {u} : x7'[v] = x7[v]
        /\ x7'[u] # "overlapped" => x7'[u] = x7[u] /\ ~Methods!InFlight(u)
    BY <2>3, MethodsOverlap
  <2>5. MethodRows
    BY <1>1, <2>3, <2>4 DEF MethodRows
  <2>6. OthersKept(u) /\ MethodLinked(u)'
    BY <1>2, <1>4, <2>3, <2>4 DEF OthersKept, MethodLinked
  <2>7. ASSUME x7'[u] # "overlapped"
        PROVE  x7[u] # "overlapped" /\ Methods!Attached(u)' /\ Methods!Given("u_account", c)'
    <3>1. Methods!AloneFor(u)
      BY <1>1, <2>4, <2>7
    <3>2. Methods!Attached(u)'
      BY <1>3, <2>3, <3>1 DEF Methods!Attached
    <3>3. Methods!Given("u_account", c)'
      BY <1>4, <2>2, <2>3 DEF Methods!Given
    <3> QED BY <2>4, <2>7, <3>2, <3>3
  <2>8. "u_account" \in Methods!Steps /\ "u_account" \in Methods!HalfWay
    BY DEF Methods!Steps, Methods!HalfWay
  <2> QED BY <2>2, <2>3, <2>4, <2>5, <2>6, <2>7, <2>8, MethodsAwait
<1>13. ASSUME NEW w \in Handlers, Methods!UnlinkAccount(w) PROVE Methods!IInv'
  <2>1. PICK u : u = known[w].user
    OBVIOUS
  <2>2. u \in Users /\ step[w] = "u_account"
    BY <1>1, <1>13, <2>1 DEF Methods!UnlinkAccount
  <2>3. /\ UNCHANGED <<x1, x3, x4, x6>> /\ Methods!Await(w, "idle", Methods!NoContext)
        /\ x7' = [x7 EXCEPT ![u] = IF @ = "halfway" THEN "no" ELSE @]
    BY <1>13, <2>1 DEF Methods!UnlinkAccount, Methods!Answer
  <2>4. /\ x7' \in [Users -> MethodDisturbances]
        /\ \A v \in Users \ {u} : x7'[v] = x7[v]
        /\ x7'[u] # "overlapped" => x7[u] # "overlapped"
    BY <1>1, <2>2, <2>3 DEF MethodDisturbances
  <2>5. \/ x2 = u /\ x2' = None /\ x5' = Methods!Swept(x5, u, None)
        \/ x2 # u /\ x2' = x2 /\ x5' = x5
    BY <1>13, <2>1 DEF Methods!UnlinkAccount
  <2>6. /\ x5' \in [Users -> Methods!Connection \cup {None}]
        /\ \A v \in Users : x5'[v] \in {x5[v], None}
        /\ \A v \in Users : x5[v] # None /\ x5[v].account # None => x5'[v] = x5[v]
    <3>1. CASE x2 = u
      <4>1. x5' = Methods!Swept(x5, u, None)
        BY <2>5, <3>1
      <4>2. x5 \in [Users -> Methods!Connection \cup {None}] /\ None \in Methods!Accounts \cup {None}
        BY <1>1
      <4>3. x5' \in [Users -> Methods!Connection \cup {None}]
        BY <2>2, <4>1, <4>2, MethodsSwept
      <4>4. \A v \in Users : x5'[v] \in {x5[v], None}
        BY <2>2, <4>1, <4>2, MethodsSwept
      <4>5. \A v \in Users : x5[v] # None /\ x5[v].account # None => x5'[v] = x5[v]
        BY <2>2, <4>1, <4>2, MethodsSwept
      <4> QED BY <4>3, <4>4, <4>5
    <3>2. CASE x2 # u
      <4>1. x5' = x5
        BY <2>5, <3>2
      <4> QED BY <1>1, <4>1
    <3> QED BY <3>1, <3>2
  <2>7. MethodRows
    BY <1>1, <2>3, <2>4, <2>5, <2>6 DEF MethodRows
  <2>8. \A v \in Users : x3[v] # None /\ Methods!Attached(v) => x5'[v] = x5[v]
    BY <2>6 DEF Methods!Attached
  <2>9. OthersKept(u) /\ MethodLinked(u)'
    <3>1. OthersKept(u)
      BY <1>4, <2>2, <2>3, <2>4, <2>5, <2>6, <2>8 DEF OthersKept
    <3>2. MethodLinked(u)'
      BY <1>2, <2>2, <2>3, <2>6 DEF MethodLinked
    <3> QED BY <3>1, <3>2
  <2>10. ASSUME x7'[u] # "overlapped"
         PROVE  x7[u] # "overlapped" /\ Methods!Attached(u)' /\ (x1' = u <=> x2' = u)
    <3>1. Methods!AloneFor(u)
      BY <1>1, <2>2, <2>4, <2>10
    <3>2. x1 # u
      BY <1>3, <2>1, <2>2, <3>1 DEF Methods!Given
    <3>3. Methods!Attached(u)'
      BY <1>3, <2>2, <2>3, <2>8, <3>1 DEF Methods!Attached
    <3> QED BY <1>4, <2>2, <2>3, <2>4, <2>5, <2>10, <3>2, <3>3
  <2> QED BY <1>5, <1>7, <2>1, <2>2, <2>3, <2>7, <2>9, <2>10, MethodsAwait, MethodsNoContext
(* The Provider account.                                                   *)
<1>14. ASSUME NEW w \in Handlers, NEW u \in Users,
              \/ Methods!UnlinkProviderBegin(w, u) \/ Methods!DisconnectBegin(w, u)
              \/ Methods!ConnectBegin(w, u)
       PROVE  Methods!IInv'
  <2>1. UNCHANGED <<x1, x2, x3, x4, x5, x6>>
    BY <1>14 DEF Methods!UnlinkProviderBegin, Methods!DisconnectBegin, Methods!ConnectBegin, Methods!rows
  <2>2. {"x_delete", "d_read", "c_upsert"} \subseteq Methods!Steps \ Methods!HalfWay
    BY DEF Methods!Steps, Methods!HalfWay
  <2>3. CASE Methods!UnlinkProviderBegin(w, u)
    <3>1. PICK a, c : a = x3[u] /\ c = [user |-> u, account |-> a]
      OBVIOUS
    <3>2. a \in Methods!Accounts \cup {None} /\ c.user = u
      BY <1>1, <3>1
    <3>3. Methods!Begin(w, u, "x_delete", a) /\ Methods!OtherMethod(u)
      BY <2>3, <3>1 DEF Methods!UnlinkProviderBegin
    <3>4. Methods!Given("x_delete", c)
      BY <3>2, <3>3 DEF Methods!Given
    <3> QED BY <2>1, <2>2, <3>1, <3>2, <3>3, <3>4, MethodsBegin
  <2>4. CASE Methods!DisconnectBegin(w, u)
    <3>1. PICK c : c = [user |-> u, account |-> None]
      OBVIOUS
    <3>2. Methods!Begin(w, u, "d_read", None) /\ (x5[u].account # None => Methods!MayLetGo(u))
      BY <2>4 DEF Methods!DisconnectBegin
    <3>3. ASSUME Methods!AloneFor(u) PROVE Methods!Given("d_read", c)
      <4>1. Methods!MayLetGo(u)
        BY <1>3, <3>2, <3>3 DEF Methods!Attached, Methods!MayLetGo
      <4> QED BY <3>1, <4>1 DEF Methods!Given
    <3> QED BY <2>1, <2>2, <3>1, <3>2, <3>3, MethodsBegin
  <2>5. CASE Methods!ConnectBegin(w, u)
    <3>1. PICK a, c : /\ a = (IF x5[u] = None THEN None ELSE x5[u].account)
                      /\ c = [user |-> u, account |-> a]
      OBVIOUS
    <3>2. a \in Methods!Accounts \cup {None} /\ c.user = u /\ c.account = a
      BY <1>1, <3>1 DEF Methods!Connection
    <3>3. Methods!Begin(w, u, "c_upsert", a)
      BY <2>5, <3>1 DEF Methods!ConnectBegin
    <3>4. Methods!AloneFor(u) => Methods!Given("c_upsert", c)
      BY <1>3, <3>1, <3>2 DEF Methods!Given, Methods!Attached
    <3> QED BY <2>1, <2>2, <3>1, <3>2, <3>3, <3>4, MethodsBegin
  <2> QED BY <1>14, <2>3, <2>4, <2>5
<1>15. ASSUME NEW w \in Handlers, Methods!UnlinkProvider(w) \/ Methods!Disconnect(w) PROVE Methods!IInv'
  <2>1. PICK u, a : u = known[w].user /\ a = known[w].account
    OBVIOUS
  <2>2. /\ u \in Users /\ step[w] \in {"x_delete", "d_batch"} /\ a \in Methods!Accounts \cup {None}
        /\ step[w] \notin Methods!HalfWay
    BY <1>1, <1>15, <2>1 DEF Methods!UnlinkProvider, Methods!Disconnect, Methods!Context, Methods!HalfWay
  <2>3. /\ UNCHANGED <<x1, x2, x4, x7>> /\ Methods!Await(w, "idle", Methods!NoContext)
        /\ Methods!DeleteAccount(u, a)
    BY <1>15, <2>1 DEF Methods!UnlinkProvider, Methods!Disconnect, Methods!Answer
  <2>4. PICK revoked : revoked = IF Methods!UnlinkProvider(w) \/ x5[u] = None THEN x5
                                 ELSE [x5 EXCEPT ![u].account = None, ![u].active = FALSE]
    OBVIOUS
  <2>5. /\ revoked \in [Users -> Methods!Connection \cup {None}]
        /\ \A v \in Users \ {u} : revoked[v] = x5[v]
        /\ revoked[u] # None => \/ revoked[u] = x5[u] /\ Methods!UnlinkProvider(w)
                                \/ revoked[u].account = None
    <3>1. CASE Methods!UnlinkProvider(w) \/ x5[u] = None
      BY <1>1, <2>4, <3>1
    <3>2. CASE ~(Methods!UnlinkProvider(w) \/ x5[u] = None)
      <4>1. PICK row : row = [x5[u] EXCEPT !.account = None, !.active = FALSE]
        OBVIOUS
      <4>2. x5[u] \in Methods!Connection
        BY <1>1, <2>2, <3>2
      <4>3. row \in Methods!Connection /\ row.account = None
        BY <4>1, <4>2 DEF Methods!Connection
      <4>4. revoked = [x5 EXCEPT ![u] = row]
        BY <1>1, <2>2, <2>4, <3>2, <4>1, <4>2 DEF Methods!Connection
      <4> QED BY <1>1, <2>2, <4>3, <4>4
    <3> QED BY <3>1, <3>2
  <2>6. \/ Methods!Holds(u, a) /\ x5' = Methods!Swept(revoked, u, a)
        \/ ~Methods!Holds(u, a) /\ x5' = revoked
    <3>1. CASE Methods!UnlinkProvider(w)
      BY <2>1, <2>4, <3>1 DEF Methods!UnlinkProvider
    <3>2. CASE Methods!Disconnect(w) /\ ~Methods!UnlinkProvider(w)
      BY <2>1, <2>4, <3>2 DEF Methods!Disconnect
    <3> QED BY <1>15, <3>1, <3>2
  <2>7. /\ x5' \in [Users -> Methods!Connection \cup {None}]
        /\ \A v \in Users \ {u} : x5'[v] \in {x5[v], None}
        /\ \A v \in Users \ {u} : x5[v] # None /\ x5[v].account # None => x5'[v] = x5[v]
    BY <2>2, <2>5, <2>6, MethodsSwept
  <2>8. /\ x3' \in [Users -> Methods!Accounts \cup {None}]
        /\ \A v \in Users \ {u} : x3'[v] = x3[v]
        /\ Methods!Holds(u, a) => x3'[u] = None /\ a = x3[u] /\ a # None
        /\ ~Methods!Holds(u, a) => x3' = x3
    BY <2>2, <2>3, MethodsDeleted
  <2>9. x7[u] # "overlapped" => Methods!OtherMethod(u) \/ x3[u] = None
    BY <1>1, <1>3, <2>1, <2>2 DEF Methods!Given, Methods!MayLetGo
  <2>10. x6' = {}
    BY <2>2, <2>3, <2>9, MethodsDeleted
  <2>11. MethodRows
    BY <1>1, <2>3, <2>7, <2>8, <2>10 DEF MethodRows
  <2>12. OthersKept(u)
    BY <1>4, <2>3, <2>7, <2>8 DEF OthersKept, Methods!Attached
  <2>13. MethodLinked(u)'
    <3>1. CASE Methods!Holds(u, a)
      <4>1. x5' = Methods!Swept(revoked, u, a) /\ a # None
        BY <2>6, <2>8, <3>1
      <4>2. revoked[u] # None => revoked[u].account \in {None, a}
        BY <1>2, <2>2, <2>5, <2>8, <3>1
      <4>3. x5'[u] = None \/ x5'[u].account = None
        <5>1. CASE revoked[u] # None
          BY <2>2, <2>5, <4>1, <4>2, <5>1, MethodsSwept
        <5>2. CASE revoked[u] = None
          <6>1. x5'[u] = None
            BY <2>2, <4>1, <5>2 DEF Methods!Swept
          <6> QED BY <6>1
        <5> QED BY <5>1, <5>2
      <4> QED BY <4>3 DEF MethodLinked
    <3>2. CASE ~Methods!Holds(u, a)
      <4>1. x5' = revoked /\ x3' = x3
        BY <2>6, <2>8, <3>2
      <4> QED BY <1>2, <2>2, <2>5, <4>1 DEF MethodLinked
    <3> QED BY <3>1, <3>2
  <2>14. ASSUME x7'[u] # "overlapped"
         PROVE  /\ x7[u] # "overlapped" /\ Methods!Attached(u)'
                /\ x7'[u] = "halfway" \/ (x1' = u <=> x2' = u)
    <3>1. Methods!AloneFor(u)
      BY <1>1, <2>2, <2>3, <2>14
    <3>2. x7[u] = "halfway" \/ (x1 = u <=> x2 = u)
      BY <2>1, <2>2, <3>1, MethodsSettled
    <3>3. Methods!Attached(u)'
      <4>1. CASE Methods!Holds(u, a)
        BY <2>8, <4>1 DEF Methods!Attached
      <4>2. CASE ~Methods!Holds(u, a) /\ step[w] = "d_batch"
        <5>1. x3[u] \in {None, a}
          <6>1. Methods!Given(step[w], known[w])
            BY <1>3, <2>1, <2>2, <3>1
          <6> QED BY <2>1, <4>2, <6>1 DEF Methods!Given
        <5>2. x3[u] = None
          BY <4>2, <5>1 DEF Methods!Holds
        <5> QED BY <2>8, <4>2, <5>2 DEF Methods!Attached
      <4>3. CASE ~Methods!Holds(u, a) /\ step[w] = "x_delete"
        <5>1. x3' = x3 /\ x5' = x5
          <6>1. Methods!UnlinkProvider(w)
            BY <1>15, <4>3 DEF Methods!Disconnect
          <6> QED BY <2>4, <2>6, <2>8, <4>3, <6>1
        <5> QED BY <1>3, <2>2, <3>1, <5>1 DEF Methods!Attached
      <4> QED BY <2>2, <4>1, <4>2, <4>3
    <3> QED BY <2>3, <2>14, <3>2, <3>3
  <2> QED BY <1>5, <1>7, <2>1, <2>2, <2>3, <2>11, <2>12, <2>13, <2>14, MethodsAwait, MethodsNoContext
<1>16. ASSUME NEW w \in Handlers, Methods!ReadConnection(w) PROVE Methods!IInv'
  <2>1. PICK u : u = known[w].user
    OBVIOUS
  <2>2. /\ u \in Users /\ step[w] = "d_read" /\ known[w] \in Methods!Context
        /\ step[w] # "idle" /\ step[w] \notin Methods!HalfWay
    BY <1>1, <1>16, <2>1 DEF Methods!ReadConnection, Methods!HalfWay
  <2>3. UNCHANGED <<x1, x2, x3, x4, x5, x6, x7>>
    BY <1>16 DEF Methods!ReadConnection, Methods!rows
  <2>4. CASE x5[u] = None
    <3>1. Methods!Await(w, "idle", Methods!NoContext)
      BY <1>16, <2>1, <2>4 DEF Methods!ReadConnection, Methods!Answer
    <3> QED BY <1>1, <1>5, <1>6, <2>1, <2>2, <2>3, <3>1, MethodsMove, MethodsNoContext
  <2>5. CASE x5[u] # None
    <3>1. PICK c : c = [known[w] EXCEPT !.account = x5[u].account]
      OBVIOUS
    <3>2. x5[u] \in Methods!Connection
      BY <1>1, <2>2, <2>5
    <3>3. c \in Methods!Context /\ c.user = u /\ c.account = x5[u].account
      BY <2>1, <2>2, <3>1, <3>2 DEF Methods!Context, Methods!Connection
    <3>4. Methods!Await(w, "d_batch", c)
      BY <1>16, <2>1, <2>5, <3>1 DEF Methods!ReadConnection
    <3>5. ASSUME Methods!AloneFor(u) PROVE Methods!Given("d_batch", c)
      <4>1. Methods!MayLetGo(u)
        BY <1>3, <2>1, <2>2, <3>5 DEF Methods!Given
      <4>2. x3[u] \in {None, c.account}
        BY <1>3, <2>2, <3>3, <3>5 DEF Methods!Attached
      <4> QED BY <3>3, <4>1, <4>2 DEF Methods!Given
    <3>6. "d_batch" \in Methods!Steps \ Methods!HalfWay
      BY DEF Methods!Steps, Methods!HalfWay
    <3> QED BY <1>1, <2>1, <2>2, <2>3, <3>3, <3>4, <3>5, <3>6, MethodsMove
  <2> QED BY <2>4, <2>5
<1>17. ASSUME NEW w \in Handlers, Methods!UpsertConnection(w) PROVE Methods!IInv'
  <2>1. PICK u, c : u = known[w].user /\ c = known[w]
    OBVIOUS
  <2>2. u \in Users /\ step[w] = "c_upsert" /\ c \in Methods!Context
    BY <1>1, <1>17, <2>1 DEF Methods!UpsertConnection
  <2>3. UNCHANGED <<x1, x2, x3, x4, x6, x7>>
    BY <1>17 DEF Methods!UpsertConnection
  <2>4. step[w] \notin Methods!HalfWay /\ step[w] # "idle"
    BY <2>2 DEF Methods!HalfWay
  <2>5. CASE c.account \in {None, x3[u]}
    <3>1. PICK row : row = [account |-> c.account, active |-> TRUE,
                            authorized |-> x5[u] # None /\ x5[u].authorized]
      OBVIOUS
    <3>2. row \in Methods!Connection /\ row.account = c.account /\ row.active
      <4>1. (x5[u] # None /\ x5[u].authorized) \in BOOLEAN
        OBVIOUS
      <4> QED BY <2>2, <3>1, <4>1 DEF Methods!Connection, Methods!Context
    <3>3. x5' = [x5 EXCEPT ![u] = row] /\ Methods!Await(w, "c_store", c)
      BY <1>17, <2>1, <2>5, <3>1 DEF Methods!UpsertConnection
    <3>4. /\ x5' \in [Users -> Methods!Connection \cup {None}] /\ x5'[u] = row
          /\ \A v \in Users \ {u} : x5'[v] = x5[v]
      BY <1>1, <2>2, <3>2, <3>3
    <3>5. MethodRows
      BY <1>1, <2>3, <3>4 DEF MethodRows
    <3>6. OthersKept(u) /\ MethodLinked(u)'
      BY <2>3, <2>5, <3>2, <3>4 DEF OthersKept, MethodLinked
    <3>7. ASSUME x7'[u] # "overlapped"
          PROVE  /\ x7[u] # "overlapped" /\ Methods!Attached(u)'
                 /\ x7'[u] = "halfway" \/ (x1' = u <=> x2' = u)
      <4>1. Methods!AloneFor(u)
        BY <1>1, <2>2, <2>3, <3>7
      <4>2. x7[u] = "halfway" \/ (x1 = u <=> x2 = u)
        BY <2>1, <2>2, <2>4, <4>1, MethodsSettled
      <4>3. x3[u] \in {None, c.account}
        BY <1>3, <2>1, <2>2, <4>1 DEF Methods!Given
      <4>4. Methods!Attached(u)'
        BY <1>4, <2>3, <3>2, <3>4, <4>3 DEF Methods!Attached
      <4> QED BY <2>3, <3>7, <4>2, <4>4
    <3>8. Methods!Given("c_store", c)'
      BY DEF Methods!Given
    <3>9. "c_store" \in Methods!Steps
      BY DEF Methods!Steps
    <3> QED BY <2>1, <2>2, <2>4, <3>3, <3>5, <3>6, <3>7, <3>8, <3>9, MethodsAwait
  <2>6. CASE c.account \notin {None, x3[u]}
    <3>1. x5' = x5 /\ Methods!Await(w, "idle", Methods!NoContext)
      BY <1>17, <2>1, <2>6 DEF Methods!UpsertConnection, Methods!Answer
    <3> QED BY <1>1, <1>5, <1>6, <2>1, <2>2, <2>3, <2>4, <3>1, MethodsMove, MethodsNoContext
  <2> QED BY <2>5, <2>6
<1>18. ASSUME NEW w \in Handlers, Methods!StoreAuthorization(w) PROVE Methods!IInv'
  <2>1. PICK u : u = known[w].user
    OBVIOUS
  <2>2. u \in Users /\ step[w] = "c_store" /\ step[w] # "idle" /\ step[w] \notin Methods!HalfWay
    BY <1>1, <1>18, <2>1 DEF Methods!StoreAuthorization, Methods!HalfWay
  <2>3. /\ UNCHANGED <<x1, x2, x3, x4, x6, x7>> /\ Methods!Await(w, "idle", Methods!NoContext)
    BY <1>18 DEF Methods!StoreAuthorization, Methods!Answer
  <2>4. /\ x5' \in [Users -> Methods!Connection \cup {None}]
        /\ \A v \in Users \ {u} : x5'[v] = x5[v]
        /\ MethodLinked(u)'
        /\ Methods!Attached(u) => Methods!Attached(u)'
    <3>1. CASE x5[u] = None
      <4>1. x5' = x5
        BY <1>18, <2>1, <3>1 DEF Methods!StoreAuthorization
      <4> QED BY <1>1, <1>2, <2>2, <2>3, <4>1 DEF Methods!Attached, MethodLinked
    <3>2. CASE x5[u] # None
      <4>1. PICK row : row = [x5[u] EXCEPT !.authorized = TRUE]
        OBVIOUS
      <4>2. x5[u] \in Methods!Connection /\ x5' = [x5 EXCEPT ![u] = row]
        BY <1>1, <1>18, <2>1, <2>2, <3>2, <4>1 DEF Methods!StoreAuthorization
      <4>3. row \in Methods!Connection /\ row.account = x5[u].account /\ row.active = x5[u].active
        BY <4>1, <4>2 DEF Methods!Connection
      <4>4. x5'[u] = row
        BY <1>1, <2>2, <4>2
      <4>5. Methods!Attached(u) => Methods!Attached(u)'
        BY <1>4, <2>3, <4>3, <4>4 DEF Methods!Attached
      <4>6. MethodLinked(u)'
        BY <1>2, <2>2, <2>3, <3>2, <4>3, <4>4 DEF MethodLinked
      <4> QED BY <1>1, <2>2, <4>2, <4>3, <4>5, <4>6
    <3> QED BY <3>1, <3>2
  <2>5. MethodRows
    BY <1>1, <2>3, <2>4 DEF MethodRows
  <2>6. OthersKept(u)
    BY <2>3, <2>4 DEF OthersKept
  <2>7. ASSUME x7'[u] # "overlapped"
        PROVE  /\ x7[u] # "overlapped" /\ Methods!Attached(u)'
               /\ x7'[u] = "halfway" \/ (x1' = u <=> x2' = u)
    <3>1. Methods!AloneFor(u)
      BY <1>1, <2>2, <2>3, <2>7
    <3>2. x7[u] = "halfway" \/ (x1 = u <=> x2 = u)
      BY <2>1, <2>2, <3>1, MethodsSettled
    <3> QED BY <1>3, <2>2, <2>3, <2>4, <2>7, <3>1, <3>2
  <2> QED BY <1>5, <1>7, <2>1, <2>2, <2>3, <2>4, <2>5, <2>6, <2>7, MethodsAwait, MethodsNoContext
<1>19. ASSUME NEW w \in Handlers, Methods!Abandon(w) PROVE Methods!IInv'
  <2>1. PICK u : u = known[w].user
    OBVIOUS
  <2>2. u \in Users /\ step[w] # "idle"
    BY <1>1, <1>19, <2>1 DEF Methods!Abandon
  <2>3. /\ UNCHANGED <<x1, x2, x3, x4, x5, x6>> /\ Methods!Await(w, "idle", Methods!NoContext)
        /\ IF step[w] \in Methods!HalfWay THEN Methods!StopsHalfway(u) ELSE x7' = x7
    BY <1>19, <2>1 DEF Methods!Abandon, Methods!Answer, Methods!rows, Methods!HalfWay
  <2>4. /\ x7' \in [Users -> MethodDisturbances]
        /\ \A v \in Users \ {u} : x7'[v] = x7[v]
        /\ x7'[u] # "overlapped" =>
             /\ x7[u] # "overlapped"
             /\ \/ x7'[u] = "halfway"
                \/ x7'[u] = x7[u] /\ step[w] \notin Methods!HalfWay
    <3>1. CASE step[w] \in Methods!HalfWay
      BY <2>2, <2>3, <3>1, MethodsHalfway
    <3>2. CASE step[w] \notin Methods!HalfWay
      BY <1>1, <2>3, <3>2
    <3> QED BY <3>1, <3>2
  <2> QED BY <1>5, <1>6, <2>1, <2>2, <2>3, <2>4, MethodsMove, MethodsNoContext
<1> QED BY <1>8, <1>9, <1>10, <1>11, <1>12, <1>13, <1>14, <1>15, <1>16, <1>17, <1>18, <1>19
        DEF Methods!Next

-----------------------------------------------------------------------------
(* ApplicationClient: x1 is application, x2 client, x3 secrets, x4         *)
(* generated, x5 updates, x6 apart.                                        *)

(* The part counts as everyone does.                                       *)
LEMMA CountingIsCommon ==
  \A S : (Applications!IsFiniteSet(S) <=> IsFiniteSet(S)) /\ Applications!Cardinality(S) = Cardinality(S)
<1>1. \A S : Applications!IsFiniteSet(S) <=> IsFiniteSet(S)
  BY DEF Applications!IsFiniteSet, IsFiniteSet
<1>2. \A S : Applications!Cardinality(S) = Cardinality(S)
  BY DEF Applications!Cardinality, Cardinality
<1> QED BY <1>1, <1>2

LEMMA CountIsNatural ==
  ASSUME NEW S, Applications!IsFiniteSet(S)
  PROVE  Applications!Cardinality(S) \in Nat
BY CountingIsCommon, FS_CardinalityType

(* Numbered from 1 without a gap, there are as many as the last number.    *)
LEMMA Numbered ==
  ASSUME NEW S, NEW n \in Nat, {s.version : s \in S} = 1 .. n,
         \A s, t \in S : s.version = t.version => s = t
  PROVE  Applications!IsFiniteSet(S) /\ Applications!Cardinality(S) = n
<1> DEFINE f == [k \in 1 .. n |-> CHOOSE s \in S : s.version = k]
<1>1. ASSUME NEW k \in 1 .. n PROVE f[k] \in S /\ f[k].version = k
  <2>1. \E s \in S : s.version = k
    OBVIOUS
  <2> QED BY <2>1
<1>2. f \in [1 .. n -> S]
  BY <1>1
<1>3. \A s \in S : s.version \in 1 .. n /\ f[s.version] = s
  BY <1>1
<1>4. DOMAIN f = 1 .. n
  OBVIOUS
<1> HIDE DEF f
<1>5. f \in Bijection(1 .. n, S)
  BY <1>1, <1>2, <1>3 DEF Bijection, Injection, Surjection, IsInjective
<1>6. ExistsBijection(1 .. n, S)
  BY <1>5 DEF ExistsBijection
<1>7. IsFiniteSet(1 .. n) /\ Cardinality(1 .. n) = n
  BY FS_Interval
<1> QED BY <1>6, <1>7, FS_Bijection, CountingIsCommon

ClientSteps == {"idle", "s_read", "s_batch", "u_batch", "n_batch"}

(* Rows a step may leave.                                                  *)
ClientRows ==
  /\ x1' \in Applications!ScopeValues \cup {None}
  /\ x2' \in [secret : Applications!Hashes, scopes : Applications!ScopeValues] \cup {None}
  /\ x3' \subseteq Applications!Secret
  /\ x4' \in Applications!Hashes
  /\ x5' \in 0 .. MaxUpdates
  /\ x6' \subseteq Applications!Parts
  /\ Applications!ClientRepeatsApplication' /\ Applications!SecretsTold'

LEMMA ApplicationsTypes ==
  ASSUME Applications!IInv
  PROVE  /\ x1 \in Applications!ScopeValues \cup {None}
         /\ x2 \in [secret : Applications!Hashes, scopes : Applications!ScopeValues] \cup {None}
         /\ x3 \subseteq Applications!Secret /\ x4 \in Applications!Hashes
         /\ x5 \in 0 .. MaxUpdates /\ x6 \subseteq Applications!Parts
         /\ step \in [Handlers -> ClientSteps]
         /\ known \in [Handlers -> Applications!Context]
         /\ Applications!ClientRepeatsApplication /\ Applications!SecretsTold
         /\ Applications!OwnHashes /\ \A w \in Handlers : Applications!Given(step[w], known[w])
         /\ Applications!Version \in Nat
<1>1. Applications!SecretsTold
  BY DEF Applications!IInv
<1>2. Applications!Version \in Nat
  <2>1. Applications!IsFiniteSet(x3)
    BY <1>1 DEF Applications!SecretsTold
  <2>2. Applications!Cardinality(x3) \in Nat
    BY <2>1, CountIsNatural
  <2> QED BY <2>2 DEF Applications!Version
<1> QED BY <1>2 DEF Applications!IInv, Applications!TypeOK, ClientSteps

LEMMA ApplicationsNoContext ==
  /\ Applications!NoContext \in Applications!Context
  /\ \A c : Applications!Given("idle", c) /\ Applications!Given("idle", c)'
<1>1. Applications!NoContext \in Applications!Context
  BY BoundsAssumption DEF Applications!NoContext, Applications!Context
<1> QED BY <1>1 DEF Applications!Given, Applications!Rotating

LEMMA ApplicationsInit == Applications!Init => Applications!IInv
<1> SUFFICES ASSUME Applications!Init PROVE Applications!IInv
  OBVIOUS
<1>1. /\ x1 \in Applications!ScopeValues /\ x2 = [secret |-> 1, scopes |-> x1]
      /\ x3 = {[version |-> 1, hash |-> 1, active |-> TRUE]} /\ x4 = 1 /\ x5 = 0 /\ x6 = {}
      /\ step = [w \in Handlers |-> "idle"] /\ known = [w \in Handlers |-> Applications!NoContext]
  BY DEF Applications!Init
<1>2. 1 \in Applications!Hashes
  BY BoundsAssumption DEF Applications!Hashes
<1>3. PICK s : s = [version |-> 1, hash |-> 1, active |-> TRUE]
  OBVIOUS
<1>4. s \in Applications!Secret /\ s.version = 1 /\ s.hash = 1 /\ s.active /\ x3 = {s}
  BY <1>1, <1>2, <1>3 DEF Applications!Secret
<1>5. x2 \in [secret : Applications!Hashes, scopes : Applications!ScopeValues]
      /\ x2.secret = 1 /\ x2.scopes = x1
  BY <1>1, <1>2
<1>6. Applications!IsFiniteSet(x3) /\ Applications!Cardinality(x3) = 1
  BY <1>4, FS_Singleton, CountingIsCommon
<1>7. Applications!TypeOK
  <2>1. step \in [Handlers -> ClientSteps]
    BY <1>1 DEF ClientSteps
  <2>2. known \in [Handlers -> Applications!Context]
    BY <1>1, ApplicationsNoContext
  <2>3. x5 \in 0 .. MaxUpdates /\ x6 \subseteq Applications!Parts
    <3>1. 0 \in 0 .. MaxUpdates
      BY BoundsAssumption
    <3> QED BY <1>1, <3>1
  <2>4. x3 \subseteq Applications!Secret /\ x4 \in Applications!Hashes
    BY <1>1, <1>2, <1>4
  <2> QED BY <1>1, <1>5, <2>1, <2>2, <2>3, <2>4 DEF Applications!TypeOK, ClientSteps
<1>8. x1 # None /\ x2 # None
  BY <1>1, <1>5, RowsNoneAssumption DEF Applications!Hashes
<1>9. Applications!SecretIsCurrent
  <2>1. {secret.version : secret \in x3} = 1 .. 1
    BY <1>4
  <2>2. Applications!Version = 1
    BY <1>6 DEF Applications!Version
  <2>3. \A secret \in x3 : secret.version = 1 /\ secret.hash = 1 /\ secret.active = TRUE
    BY <1>1
  <2> HIDE DEF Applications!Version
  <2> QED BY <1>5, <2>1, <2>2, <2>3 DEF Applications!SecretIsCurrent
<1>10. Applications!ClientRepeatsApplication
  BY <1>5, <1>8, <1>9, Zenon DEF Applications!ClientRepeatsApplication
<1>11. Applications!SecretsTold
  BY <1>1, <1>4, <1>6, <1>8 DEF Applications!SecretsTold
<1>12. \A w \in Handlers : step[w] = "idle"
  BY <1>1
<1>13. Applications!OwnHashes
  BY <1>12 DEF Applications!OwnHashes, Applications!Rotating
<1>14. \A w \in Handlers : Applications!Given(step[w], known[w])
  BY <1>12, ApplicationsNoContext
<1> QED BY <1>7, <1>10, <1>11, <1>13, <1>14 DEF Applications!IInv

(* An invocation moves; what it writes leaves the others what they hold.   *)
LEMMA ApplicationsAwait ==
  ASSUME Applications!IInv, NEW w \in Handlers, NEW s \in ClientSteps,
         NEW c \in Applications!Context, Applications!Await(w, s, c), ClientRows,
         Applications!Given(s, c)',
         x4 <= x4', x5 <= x5',
         \A b \in x3' : (\E a \in x3 : a.hash = b.hash) \/ (step[w] \in Applications!Rotating /\ b.hash = known[w].hash),
         x1' # None => x1 # None /\ Applications!Version <= Applications!Version',
         x1' \in {x1, None} \/ x5 < x5',
         s \in Applications!Rotating =>
           c.hash > x4 \/ (step[w] \in Applications!Rotating /\ c.hash = known[w].hash)
  PROVE  Applications!IInv'
<1>1. /\ step \in [Handlers -> ClientSteps]
      /\ known \in [Handlers -> Applications!Context]
      /\ Applications!OwnHashes /\ \A x \in Handlers : Applications!Given(step[x], known[x])
      /\ x4 \in Nat /\ x5 \in Nat /\ Applications!Version \in Nat
  BY ApplicationsTypes, BoundsAssumption DEF Applications!Hashes
<1>2. /\ step' = [step EXCEPT ![w] = s] /\ known' = [known EXCEPT ![w] = c]
  BY DEF Applications!Await
<1>3. /\ step'[w] = s /\ known'[w] = c
      /\ \A x \in Handlers \ {w} : step'[x] = step[x] /\ known'[x] = known[x]
  BY <1>1, <1>2
<1>4. Applications!TypeOK'
  BY <1>1, <1>2 DEF Applications!TypeOK, ClientRows, ClientSteps
<1>5. \A x \in Handlers : step[x] \in Applications!Rotating => known[x].hash <= x4 /\ known[x].hash \in Nat
  BY <1>1, BoundsAssumption DEF Applications!Given, Applications!Hashes
<1>6. Applications!OwnHashes'
  <2>1. ASSUME NEW x \in Handlers \ {w}, step[x] \in Applications!Rotating, s \in Applications!Rotating
        PROVE  known[x].hash # c.hash
    <3>1. CASE c.hash > x4
      BY <1>1, <1>5, <2>1, <3>1
    <3>2. CASE step[w] \in Applications!Rotating /\ c.hash = known[w].hash
      BY <1>1, <2>1, <3>2 DEF Applications!OwnHashes
    <3> QED BY <2>1, <3>1, <3>2
  <2> QED BY <1>1, <1>3, <2>1 DEF Applications!OwnHashes
<1>7. ASSUME NEW x \in Handlers PROVE Applications!Given(step[x], known[x])'
  <2>1. CASE x = w
    <3>1. Applications!Given(s, c)'
      OBVIOUS
    <3> QED BY <1>3, <2>1, <3>1 DEF Applications!Given, Applications!Version, Applications!Merged
  <2>2. CASE x # w
    <3>1. Applications!Given(step[x], known[x]) /\ step'[x] = step[x] /\ known'[x] = known[x]
      BY <1>1, <1>3, <2>2
    <3>2. PICK d : d = known[x]
      OBVIOUS
    <3>3. CASE step[x] \in Applications!Rotating
      <4>1. /\ d.version \in Applications!Hashes /\ d.hash \in Applications!Hashes
            /\ d.version <= d.hash /\ d.hash <= x4
            /\ \A secret \in x3 : secret.hash # d.hash
            /\ x1 # None => d.version <= Applications!Version + 1
        BY <3>1, <3>2, <3>3 DEF Applications!Given
      <4>2. d.hash \in Nat /\ d.version \in Nat /\ x4' \in Nat
        BY <4>1, BoundsAssumption DEF Applications!Hashes, ClientRows
      <4>3. \A secret \in x3' : secret.hash # d.hash
        BY <1>1, <2>2, <3>2, <3>3, <4>1 DEF Applications!OwnHashes
      <4>4. d.hash <= x4'
        BY <1>1, <4>1, <4>2
      <4>5. x1' # None => d.version <= Applications!Version' + 1
        <5>1. PICK n, m : n = Applications!Version /\ m = Applications!Version'
          OBVIOUS
        <5>2. m \in Nat
          <6>1. Applications!IsFiniteSet(x3')
            BY DEF ClientRows, Applications!SecretsTold
          <6>2. Applications!Cardinality(x3') \in Nat
            BY <6>1, CountIsNatural
          <6> QED BY <5>1, <6>2 DEF Applications!Version
        <5> QED BY <1>1, <4>1, <4>2, <5>1, <5>2
      <4>6. step[x] # "u_batch" /\ step[x] # "n_batch"
        BY <3>3 DEF Applications!Rotating
      <4> QED BY <3>1, <3>2, <4>1, <4>3, <4>4, <4>5, <4>6 DEF Applications!Given
    <3>4. CASE step[x] = "u_batch"
      <4>1. /\ d.part \in Applications!Parts /\ d.scopes \in Applications!ScopeValues /\ d.begun <= x5
            /\ x1 # None /\ d.begun = x5 => d.scopes = Applications!Merged(d.part, d.scopes[d.part])
        BY <3>1, <3>2, <3>4 DEF Applications!Given
      <4>2. d.begun \in Nat /\ x5' \in Nat
        BY <1>1, <3>2, BoundsAssumption DEF Applications!Context, ClientRows
      <4>3. d.begun <= x5' /\ (d.begun = x5' => d.begun = x5 /\ ~(x5 < x5'))
        BY <1>1, <4>1, <4>2
      <4>4. x1' # None /\ d.begun = x5' => x1' = x1
        BY <4>3
      <4>5. x1' # None /\ d.begun = x5' => d.scopes = [x1' EXCEPT ![d.part] = d.scopes[d.part]]
        BY <4>1, <4>3, <4>4 DEF Applications!Merged
      <4>6. step[x] \notin Applications!Rotating /\ step[x] # "n_batch"
        BY <3>4 DEF Applications!Rotating
      <4> QED BY <3>1, <3>2, <4>1, <4>3, <4>5, <4>6 DEF Applications!Given, Applications!Merged
    <3>5. CASE step[x] = "idle"
      BY <3>1, <3>5 DEF Applications!Given, Applications!Rotating
    <3>6. CASE step[x] = "n_batch"
      BY <3>1, <3>6 DEF Applications!Given, Applications!Rotating
    <3> QED BY <1>1, <3>3, <3>4, <3>5, <3>6 DEF Applications!Rotating, ClientSteps
  <2> QED BY <2>1, <2>2
<1> QED BY <1>4, <1>6, <1>7 DEF Applications!IInv, ClientRows

(* There are no more secrets than have been generated.                     *)
LEMMA ApplicationsVersion ==
  ASSUME Applications!IInv, x1 # None
  PROVE  /\ {secret.version : secret \in x3} = 1 .. Applications!Version
         /\ Applications!Version <= x4
<1>1. PICK n : n = Applications!Version
  OBVIOUS
<1>2. n \in Nat /\ Applications!ClientRepeatsApplication /\ Applications!SecretsTold /\ x4 \in Nat
      /\ x3 \subseteq Applications!Secret
  BY <1>1, ApplicationsTypes, BoundsAssumption DEF Applications!Hashes
<1>3. {secret.version : secret \in x3} = 1 .. n
  BY <1>1, <1>2 DEF Applications!ClientRepeatsApplication, Applications!SecretIsCurrent
<1>4. CASE n = 0
  BY <1>1, <1>2, <1>3, <1>4
<1>5. CASE n # 0
  <2>1. n \in 1 .. n
    BY <1>2, <1>5
  <2>2. PICK s \in x3 : s.version = n
    BY <1>3, <2>1
  <2>3. s.version <= s.hash /\ s.hash <= x4 /\ s.hash \in Nat
    BY <1>2, BoundsAssumption DEF Applications!SecretsTold, Applications!Secret, Applications!Hashes
  <2> QED BY <1>1, <1>2, <1>3, <2>2, <2>3
<1> QED BY <1>4, <1>5

(* Rows as they were, with a secret more generated or not.                 *)
LEMMA ApplicationsSame ==
  ASSUME Applications!IInv, UNCHANGED <<x1, x2, x3, x5, x6>>, x4' \in Applications!Hashes, x4 <= x4'
  PROVE  ClientRows /\ Applications!Version' = Applications!Version
<1>1. /\ x4 \in Nat /\ x4' \in Nat /\ \A secret \in x3 : secret.hash \in Nat
  BY ApplicationsTypes, BoundsAssumption DEF Applications!Hashes, Applications!Secret
<1>2. Applications!Version' = Applications!Version
  BY DEF Applications!Version
<1>3. Applications!SecretsTold'
  BY <1>1, ApplicationsTypes DEF Applications!SecretsTold
<1>4. Applications!ClientRepeatsApplication'
  BY <1>2, ApplicationsTypes DEF Applications!ClientRepeatsApplication, Applications!SecretIsCurrent
<1> QED BY <1>2, <1>3, <1>4, ApplicationsTypes DEF ClientRows

(* An invocation goes on, or ends, having written nothing.                 *)
LEMMA ApplicationsMove ==
  ASSUME Applications!IInv, NEW w \in Handlers, NEW s \in ClientSteps,
         NEW c \in Applications!Context, Applications!Await(w, s, c),
         UNCHANGED <<x1, x2, x3, x4, x5, x6>>, Applications!Given(s, c),
         s \in Applications!Rotating => step[w] \in Applications!Rotating /\ c.hash = known[w].hash
  PROVE  Applications!IInv'
<1>1. x4 \in Nat /\ x5 \in Nat /\ x4 \in Applications!Hashes /\ Applications!Version \in Nat
  BY ApplicationsTypes, BoundsAssumption DEF Applications!Hashes
<1>2. ClientRows /\ Applications!Version' = Applications!Version
  BY <1>1, ApplicationsSame
<1>3. Applications!Given(s, c)'
  BY <1>2 DEF Applications!Given, Applications!Merged
<1>4. \A b \in x3' : \E a \in x3 : a.hash = b.hash
  OBVIOUS
<1>5. /\ x4 <= x4' /\ x5 <= x5'
      /\ x1' # None => x1 # None /\ Applications!Version <= Applications!Version'
      /\ x1' \in {x1, None} \/ x5 < x5'
  BY <1>1, <1>2
<1> QED BY <1>2, <1>3, <1>4, <1>5, ApplicationsAwait

(* The batch of a rotation: the version that was free is the next one.     *)
LEMMA ApplicationsStored ==
  ASSUME Applications!IInv, NEW version \in Applications!Hashes, NEW hash \in Applications!Hashes,
         x1 # None, Applications!FreeVersion(version), version <= Applications!Version + 1,
         version <= hash, hash <= x4, \A secret \in x3 : secret.hash # hash,
         x3' = {[secret EXCEPT !.active = FALSE] : secret \in x3}
                  \cup {[version |-> version, hash |-> hash, active |-> TRUE]},
         x2' = [x2 EXCEPT !.secret = hash], UNCHANGED <<x1, x4, x5, x6>>
  PROVE  /\ ClientRows /\ Applications!Version <= Applications!Version'
         /\ \A b \in x3' : b.hash = hash \/ \E a \in x3 : a.hash = b.hash
<1>1. PICK n, new : n = Applications!Version /\ new = [version |-> version, hash |-> hash, active |-> TRUE]
  OBVIOUS
<1>2. n \in Nat /\ {secret.version : secret \in x3} = 1 .. n /\ version \in Nat /\ version >= 1
      /\ x3 \subseteq Applications!Secret /\ version <= n + 1
  BY <1>1, ApplicationsTypes, ApplicationsVersion, BoundsAssumption DEF Applications!Hashes
<1>3. version = n + 1
  <2>1. version \notin 1 .. n
    BY <1>2 DEF Applications!FreeVersion
  <2> QED BY <1>2, <2>1
<1>4. new \in Applications!Secret /\ new.version = n + 1 /\ new.hash = hash /\ new.active = TRUE
  BY <1>1, <1>3 DEF Applications!Secret
<1>5. ASSUME NEW a \in x3
      PROVE  /\ [a EXCEPT !.active = FALSE] = [version |-> a.version, hash |-> a.hash, active |-> FALSE]
             /\ [a EXCEPT !.active = FALSE] \in Applications!Secret
  <2>1. a \in [version : Applications!Hashes, hash : Applications!Hashes, active : BOOLEAN]
    BY <1>2 DEF Applications!Secret
  <2>2. [a EXCEPT !.active = FALSE] = [version |-> a.version, hash |-> a.hash, active |-> FALSE]
    <3>1. PICK c : c = [a EXCEPT !.active = FALSE]
      OBVIOUS
    <3>2. c \in [version : Applications!Hashes, hash : Applications!Hashes, active : BOOLEAN]
      BY <2>1, <3>1
    <3>3. c.version = a.version /\ c.hash = a.hash /\ c.active = FALSE
      BY <2>1, <3>1
    <3>4. c = [version |-> c.version, hash |-> c.hash, active |-> c.active]
      BY <3>2
    <3> QED BY <3>1, <3>3, <3>4
  <2>3. [version |-> a.version, hash |-> a.hash, active |-> FALSE] \in Applications!Secret
    BY <2>1 DEF Applications!Secret
  <2> QED BY <2>2, <2>3
<1>6. \A b \in x3' : b = new \/ \E a \in x3 : b = [version |-> a.version, hash |-> a.hash, active |-> FALSE]
  BY <1>1, <1>5
<1>7. new \in x3' /\ \A a \in x3 : [version |-> a.version, hash |-> a.hash, active |-> FALSE] \in x3'
  BY <1>1, <1>5
<1>8. x3' \subseteq Applications!Secret
  BY <1>4, <1>5, <1>1
<1>9. \A a \in x3 : a.version \in 1 .. n
  BY <1>2
<1>10. {secret.version : secret \in x3'} = 1 .. (n + 1)
  <2>1. ASSUME NEW k \in 1 .. (n + 1) PROVE \E b \in x3' : b.version = k
    <3>1. CASE k = n + 1
      BY <1>4, <1>7, <3>1
    <3>2. CASE k # n + 1
      <4>1. k \in 1 .. n
        BY <1>2, <3>2
      <4>2. PICK a \in x3 : a.version = k
        BY <1>2, <4>1
      <4> QED BY <1>7, <4>2
    <3> QED BY <3>1, <3>2
  <2>2. ASSUME NEW b \in x3' PROVE b.version \in 1 .. (n + 1)
    <3>1. CASE b = new
      BY <1>2, <1>4, <3>1
    <3>2. ASSUME NEW a \in x3, b = [version |-> a.version, hash |-> a.hash, active |-> FALSE]
          PROVE  b.version \in 1 .. (n + 1)
      BY <1>2, <1>9, <3>2
    <3> QED BY <1>6, <3>1, <3>2
  <2> QED BY <2>1, <2>2
<1>11. \A a, b \in x3 : a.version = b.version => a = b
  BY ApplicationsTypes DEF Applications!SecretsTold
<1>12. \A a, b \in x3' : a.version = b.version => a = b
  <2>1. SUFFICES ASSUME NEW a \in x3', NEW b \in x3', a.version = b.version PROVE a = b
    OBVIOUS
  <2>2. CASE a = new /\ b = new
    BY <2>2
  <2>3. ASSUME NEW e \in x3, a = new, b = [version |-> e.version, hash |-> e.hash, active |-> FALSE]
        PROVE FALSE
    BY <1>2, <1>4, <1>9, <2>1, <2>3
  <2>4. ASSUME NEW e \in x3, b = new, a = [version |-> e.version, hash |-> e.hash, active |-> FALSE]
        PROVE FALSE
    BY <1>2, <1>4, <1>9, <2>1, <2>4
  <2>5. ASSUME NEW d \in x3, NEW e \in x3,
               a = [version |-> d.version, hash |-> d.hash, active |-> FALSE],
               b = [version |-> e.version, hash |-> e.hash, active |-> FALSE]
        PROVE  a = b
    <3>1. d.version = e.version
      BY <2>1, <2>5
    <3> QED BY <1>11, <2>5, <3>1
  <2>6. /\ a = new \/ \E d \in x3 : a = [version |-> d.version, hash |-> d.hash, active |-> FALSE]
        /\ b = new \/ \E e \in x3 : b = [version |-> e.version, hash |-> e.hash, active |-> FALSE]
    BY <1>6
  <2>7. CASE a = new
    BY <2>2, <2>3, <2>6, <2>7
  <2>8. CASE a # new
    <3>1. PICK d \in x3 : a = [version |-> d.version, hash |-> d.hash, active |-> FALSE]
      BY <2>6, <2>8
    <3>2. CASE b = new
      BY <2>4, <3>1, <3>2
    <3>3. CASE b # new
      <4>1. PICK e \in x3 : b = [version |-> e.version, hash |-> e.hash, active |-> FALSE]
        BY <2>6, <3>3
      <4> QED BY <2>5, <3>1, <4>1
    <3> QED BY <3>2, <3>3
  <2> QED BY <2>7, <2>8
<1>13. Applications!IsFiniteSet(x3') /\ Applications!Cardinality(x3') = n + 1
  <2>1. PICK S : S = x3'
    OBVIOUS
  <2>2. n + 1 \in Nat /\ {s.version : s \in S} = 1 .. (n + 1)
    BY <1>2, <1>10, <2>1
  <2>3. \A s, t \in S : s.version = t.version => s = t
    BY <1>12, <2>1
  <2>4. Applications!IsFiniteSet(S) /\ Applications!Cardinality(S) = n + 1
    BY <2>2, <2>3, Numbered
  <2> QED BY <2>1, <2>4
<1>14. Applications!Version' = n + 1
  BY <1>13 DEF Applications!Version
<1>15. \A b \in x3' : b.version <= b.hash /\ b.hash <= x4'
  BY <1>1, <1>4, <1>3, <1>6, ApplicationsTypes DEF Applications!SecretsTold
<1>16. x2 # None /\ x2 \in [secret : Applications!Hashes, scopes : Applications!ScopeValues]
  BY ApplicationsTypes DEF Applications!ClientRepeatsApplication
<1>17. /\ x2' \in [secret : Applications!Hashes, scopes : Applications!ScopeValues]
       /\ x2'.secret = hash /\ x2'.scopes = x2.scopes
  BY <1>16
<1>18. x2' # None
  BY <1>17, RowsNoneAssumption DEF Applications!Hashes
<1>19. \A b \in x3' : (b.active <=> b.version = n + 1) /\ (b.active <=> b.hash = hash)
  BY <1>2, <1>4, <1>6, <1>9
<1>20. Applications!SecretIsCurrent'
  BY <1>10, <1>14, <1>17, <1>19 DEF Applications!SecretIsCurrent
<1>21. Applications!ClientRepeatsApplication'
  BY <1>17, <1>18, <1>20, ApplicationsTypes DEF Applications!ClientRepeatsApplication
<1>22. Applications!SecretsTold'
  BY <1>12, <1>13, <1>15 DEF Applications!SecretsTold
<1>23. \A b \in x3' : b.hash = hash \/ \E a \in x3 : a.hash = b.hash
  BY <1>4, <1>6
<1>24. n <= Applications!Version'
  BY <1>2, <1>14
<1> QED BY <1>1, <1>8, <1>17, <1>21, <1>22, <1>23, <1>24, ApplicationsTypes DEF ClientRows

LEMMA ApplicationsStep == ASSUME Applications!IInv, Applications!Next PROVE Applications!IInv'
<1> USE DEF ClientSteps
<1>1. /\ x1 \in Applications!ScopeValues \cup {None}
      /\ x3 \subseteq Applications!Secret /\ x4 \in Applications!Hashes /\ x4 \in Nat
      /\ x5 \in 0 .. MaxUpdates /\ x5 \in Nat /\ x6 \subseteq Applications!Parts
      /\ step \in [Handlers -> ClientSteps]
      /\ known \in [Handlers -> Applications!Context]
      /\ Applications!ClientRepeatsApplication /\ Applications!SecretsTold
      /\ \A w \in Handlers : Applications!Given(step[w], known[w])
      /\ Applications!Version \in Nat
  BY ApplicationsTypes, BoundsAssumption DEF Applications!Hashes
<1>2. ASSUME Applications!Delete PROVE Applications!IInv'
  <2>1. /\ x1' = None /\ x2' = None /\ x3' = {} /\ UNCHANGED <<x4, x5, x6, step, known>>
    BY <1>2 DEF Applications!Delete
  <2>2. Applications!TypeOK'
    BY <1>1, <2>1 DEF Applications!TypeOK, ClientSteps
  <2>3. Applications!ClientRepeatsApplication'
    BY <2>1 DEF Applications!ClientRepeatsApplication
  <2>4. Applications!IsFiniteSet(x3')
    BY <2>1, FS_EmptySet, CountingIsCommon
  <2>5. Applications!SecretsTold'
    BY <2>1, <2>4 DEF Applications!SecretsTold
  <2>6. Applications!OwnHashes'
    BY <2>1, ApplicationsTypes DEF Applications!OwnHashes
  <2>7. ASSUME NEW w \in Handlers PROVE Applications!Given(step[w], known[w])'
    BY <1>1, <2>1 DEF Applications!Given
  <2> QED BY <2>2, <2>3, <2>5, <2>6, <2>7 DEF Applications!IInv
<1>3. ASSUME NEW w \in Handlers, Applications!RotateBegin(w) PROVE Applications!IInv'
  <2>1. /\ x1 # None /\ x4 < MaxSecrets /\ x4' = x4 + 1 /\ UNCHANGED <<x1, x2, x3, x5, x6>>
        /\ Applications!Await(w, "s_read", [Applications!NoContext EXCEPT !.hash = x4 + 1,
                                                                         !.version = Applications!Version + 1])
    BY <1>3 DEF Applications!RotateBegin
  <2>2. PICK n : n = Applications!Version
    OBVIOUS
  <2>3. n \in Nat /\ n <= x4
    BY <1>1, <2>1, <2>2, ApplicationsVersion
  <2>4. x4 + 1 \in Applications!Hashes /\ n + 1 \in Applications!Hashes
    BY <1>1, <2>1, <2>3, BoundsAssumption DEF Applications!Hashes
  <2>5. PICK c : c = [Applications!NoContext EXCEPT !.hash = x4 + 1, !.version = n + 1]
    OBVIOUS
  <2>6. c = [hash |-> x4 + 1, version |-> n + 1, part |-> None, scopes |-> None, begun |-> 0]
    BY <2>5 DEF Applications!NoContext
  <2>7. c \in Applications!Context
    <3>1. 0 \in 0 .. MaxUpdates
      BY BoundsAssumption
    <3> QED BY <2>4, <2>6, <3>1 DEF Applications!Context
  <2>8. c.hash = x4 + 1 /\ c.version = n + 1
    BY <2>6
  <2>9. ClientRows /\ Applications!Version' = Applications!Version
    <3>1. x4' \in Applications!Hashes /\ x4 <= x4'
      BY <1>1, <2>1, <2>4
    <3> QED BY <2>1, <3>1, ApplicationsSame
  <2>10. \A secret \in x3 : secret.hash # c.hash
    <3>1. \A secret \in x3 : secret.hash <= x4 /\ secret.hash \in Nat
      BY <1>1, BoundsAssumption DEF Applications!SecretsTold, Applications!Secret, Applications!Hashes
    <3> QED BY <1>1, <2>8, <3>1
  <2>11. Applications!Given("s_read", c)'
    <3>1. c.version <= c.hash /\ c.hash <= x4'
      BY <1>1, <2>1, <2>3, <2>8
    <3>2. x1' # None => c.version <= Applications!Version' + 1
      BY <2>2, <2>3, <2>8, <2>9
    <3> QED BY <2>1, <2>4, <2>8, <2>10, <3>1, <3>2 DEF Applications!Given
  <2>12. Applications!Await(w, "s_read", c)
    BY <2>1, <2>2, <2>5
  <2>13. /\ x4 <= x4' /\ x5 <= x5' /\ c.hash > x4
         /\ x1' # None => x1 # None /\ Applications!Version <= Applications!Version'
         /\ x1' \in {x1, None} \/ x5 < x5'
         /\ \A b \in x3' : \E a \in x3 : a.hash = b.hash
    BY <1>1, <2>1, <2>8, <2>9
  <2> HIDE DEF Applications!Await
  <2> QED BY <2>7, <2>9, <2>11, <2>12, <2>13, ApplicationsAwait
<1>4. ASSUME NEW w \in Handlers, Applications!Answer(w), UNCHANGED <<x1, x2, x3, x4, x5, x6>>
      PROVE  Applications!IInv'
  <2>1. Applications!Await(w, "idle", Applications!NoContext)
    BY <1>4 DEF Applications!Answer
  <2> QED BY <1>4, <2>1, ApplicationsMove, ApplicationsNoContext DEF Applications!Rotating
<1>5. ASSUME NEW w \in Handlers, Applications!ReadApplication(w) PROVE Applications!IInv'
  <2>1. UNCHANGED <<x1, x2, x3, x4, x5, x6>> /\ step[w] = "s_read"
    BY <1>5 DEF Applications!ReadApplication
  <2>2. CASE x1 = None
    <3>1. Applications!Answer(w)
      BY <1>5, <2>2 DEF Applications!ReadApplication
    <3> QED BY <1>4, <2>1, <3>1
  <2>3. CASE x1 # None
    <3>1. Applications!Await(w, "s_batch", known[w])
      BY <1>5, <2>3 DEF Applications!ReadApplication
    <3>2. Applications!Given("s_read", known[w])
      BY <1>1, <2>1
    <3>3. Applications!Given("s_batch", known[w])
      BY <3>2 DEF Applications!Given, Applications!Rotating
    <3>4. known[w] \in Applications!Context /\ step[w] \in Applications!Rotating
      BY <1>1, <2>1 DEF Applications!Rotating
    <3> QED BY <2>1, <3>1, <3>3, <3>4, ApplicationsMove
  <2> QED BY <2>2, <2>3
<1>6. ASSUME NEW w \in Handlers, Applications!StoreSecret(w) PROVE Applications!IInv'
  <2>1. /\ step[w] = "s_batch" /\ UNCHANGED <<x1, x4, x5, x6>> /\ Applications!Answer(w)
    BY <1>6 DEF Applications!StoreSecret
  <2>2. CASE ~(x1 # None /\ Applications!FreeVersion(known[w].version))
    <3>1. UNCHANGED <<x2, x3>>
      BY <1>6, <2>2 DEF Applications!StoreSecret
    <3> QED BY <1>4, <2>1, <3>1
  <2>3. CASE x1 # None /\ Applications!FreeVersion(known[w].version)
    <3>1. /\ x3' = {[secret EXCEPT !.active = FALSE] : secret \in x3}
                     \cup {[version |-> known[w].version, hash |-> known[w].hash, active |-> TRUE]}
          /\ x2' = [x2 EXCEPT !.secret = known[w].hash]
      BY <1>6, <2>3 DEF Applications!StoreSecret
    <3>2. Applications!Given("s_batch", known[w])
      BY <1>1, <2>1
    <3>3. PICK version, hash : version = known[w].version /\ hash = known[w].hash
      OBVIOUS
    <3>4. /\ version \in Applications!Hashes /\ hash \in Applications!Hashes
          /\ version <= hash /\ hash <= x4
          /\ \A secret \in x3 : secret.hash # hash
          /\ version <= Applications!Version + 1
      BY <2>3, <3>2, <3>3 DEF Applications!Given, Applications!Rotating
    <3>5. /\ ClientRows /\ Applications!Version <= Applications!Version'
          /\ \A b \in x3' : b.hash = hash \/ \E a \in x3 : a.hash = b.hash
      BY <2>1, <2>3, <3>1, <3>3, <3>4, ApplicationsStored
    <3>6. Applications!Await(w, "idle", Applications!NoContext) /\ step[w] \in Applications!Rotating
      BY <2>1 DEF Applications!Answer, Applications!Rotating
    <3>7. /\ x4 <= x4' /\ x5 <= x5'
          /\ x1' # None => x1 # None /\ Applications!Version <= Applications!Version'
          /\ x1' \in {x1, None} \/ x5 < x5'
          /\ \A b \in x3' : (\E a \in x3 : a.hash = b.hash)
                              \/ (step[w] \in Applications!Rotating /\ b.hash = known[w].hash)
          /\ "idle" \notin Applications!Rotating
      BY <1>1, <2>1, <3>3, <3>5, <3>6 DEF Applications!Rotating
    <3> QED BY <3>5, <3>6, <3>7, ApplicationsAwait, ApplicationsNoContext
  <2> QED BY <2>2, <2>3
<1>7. ASSUME NEW w \in Handlers, NEW p \in Applications!Parts, NEW value \in {0, 1},
             Applications!UpdateBegin(w, p, value)
      PROVE  Applications!IInv'
  <2>1. /\ x1 # None /\ UNCHANGED <<x1, x2, x3, x4, x5, x6>>
        /\ Applications!Await(w, "u_batch", [Applications!NoContext EXCEPT
             !.part = p, !.scopes = Applications!Merged(p, value), !.begun = x5])
    BY <1>7 DEF Applications!UpdateBegin
  <2>2. PICK m : m = Applications!Merged(p, value)
    OBVIOUS
  <2>3. x1 \in [Applications!Parts -> {0, 1}]
    BY <1>1, <2>1 DEF Applications!ScopeValues
  <2>4. /\ m \in Applications!ScopeValues /\ m[p] = value /\ m = [x1 EXCEPT ![p] = m[p]]
    BY <2>2, <2>3 DEF Applications!Merged, Applications!ScopeValues
  <2>5. PICK c : c = [Applications!NoContext EXCEPT !.part = p, !.scopes = m, !.begun = x5]
    OBVIOUS
  <2>6. c = [hash |-> None, version |-> None, part |-> p, scopes |-> m, begun |-> x5]
    BY <2>5 DEF Applications!NoContext
  <2>7. c \in Applications!Context
    BY <1>1, <2>4, <2>6 DEF Applications!Context
  <2>8. c.part = p /\ c.scopes = m /\ c.begun = x5
    BY <2>6
  <2>9. Applications!Given("u_batch", c)
    <3>1. c.begun <= x5
      BY <1>1, <2>8
    <3> QED BY <2>4, <2>8, <3>1 DEF Applications!Given, Applications!Rotating, Applications!Merged
  <2>10. Applications!Await(w, "u_batch", c)
    BY <2>1, <2>2, <2>5
  <2> QED BY <2>1, <2>7, <2>9, <2>10, ApplicationsMove DEF Applications!Rotating
<1>8. ASSUME NEW w \in Handlers, Applications!Update(w) PROVE Applications!IInv'
  <2>1. /\ step[w] = "u_batch" /\ x5 < MaxUpdates /\ Applications!Answer(w) /\ UNCHANGED <<x3, x4>>
    BY <1>8 DEF Applications!Update
  <2>2. CASE x1 = None
    BY <1>4, <1>8, <2>1, <2>2 DEF Applications!Update
  <2>3. CASE x1 # None
    <3>1. PICK c : c = known[w]
      OBVIOUS
    <3>2. /\ x1' = [x1 EXCEPT ![c.part] = c.scopes[c.part]]
          /\ x2' = [x2 EXCEPT !.scopes = c.scopes]
          /\ x5' = x5 + 1
          /\ x6' = IF c.begun = x5 THEN {} ELSE Applications!Parts \ {c.part}
      BY <1>8, <2>3, <3>1 DEF Applications!Update
    <3>3. Applications!Given("u_batch", c)
      BY <1>1, <2>1, <3>1
    <3>4. /\ c.part \in Applications!Parts /\ c.scopes \in Applications!ScopeValues
          /\ c.begun = x5 => c.scopes = Applications!Merged(c.part, c.scopes[c.part])
      BY <2>3, <3>3 DEF Applications!Given
    <3>5. x1 \in [Applications!Parts -> {0, 1}] /\ c.scopes \in [Applications!Parts -> {0, 1}]
      BY <1>1, <2>3, <3>4 DEF Applications!ScopeValues
    <3>6. x1' \in [Applications!Parts -> {0, 1}]
      BY <3>2, <3>4, <3>5
    <3>7. x2 \in [secret : Applications!Hashes, scopes : Applications!ScopeValues]
          /\ Applications!SecretIsCurrent
      BY <2>3, ApplicationsTypes DEF Applications!ClientRepeatsApplication
    <3>8. /\ x2' \in [secret : Applications!Hashes, scopes : Applications!ScopeValues]
          /\ x2'.scopes = c.scopes /\ x2'.secret = x2.secret
      BY <3>2, <3>4, <3>7
    <3>9. x1' # None /\ x2' # None
      BY <3>6, <3>8, RowsNoneAssumption DEF Applications!ScopeValues, Applications!Hashes
    <3>10. /\ x6' \subseteq Applications!Parts
           /\ \A p \in Applications!Parts \ x6' : x2'.scopes[p] = x1'[p]
      <4>1. x1'[c.part] = c.scopes[c.part]
        BY <3>2, <3>4, <3>5
      <4>2. c.begun = x5 => x1' = c.scopes
        BY <3>2, <3>4 DEF Applications!Merged
      <4> QED BY <3>2, <3>4, <3>8, <4>1, <4>2
    <3>11. Applications!Version' = Applications!Version
      BY <2>1 DEF Applications!Version
    <3>12. Applications!SecretIsCurrent'
      BY <2>1, <3>7, <3>8, <3>11 DEF Applications!SecretIsCurrent
    <3>13. Applications!ClientRepeatsApplication'
      BY <3>9, <3>10, <3>12 DEF Applications!ClientRepeatsApplication
    <3>14. Applications!SecretsTold'
      BY <1>1, <2>1, <3>9 DEF Applications!SecretsTold
    <3>15. x5' \in 0 .. MaxUpdates /\ x5 < x5' /\ x5 <= x5' /\ x4 <= x4'
      BY <1>1, <2>1, <3>2, BoundsAssumption
    <3>16. ClientRows
      BY <1>1, <2>1, <3>6, <3>8, <3>10, <3>13, <3>14, <3>15 DEF ClientRows, Applications!ScopeValues
    <3>17. Applications!Await(w, "idle", Applications!NoContext)
      BY <2>1 DEF Applications!Answer
    <3>18. /\ x1' # None => x1 # None /\ Applications!Version <= Applications!Version'
           /\ \A b \in x3' : \E a \in x3 : a.hash = b.hash
           /\ "idle" \notin Applications!Rotating
      BY <1>1, <2>1, <2>3, <3>11 DEF Applications!Rotating
    <3> QED BY <3>15, <3>16, <3>17, <3>18, ApplicationsAwait, ApplicationsNoContext
  <2> QED BY <2>2, <2>3
<1>9. ASSUME NEW w \in Handlers, Applications!Abandon(w) PROVE Applications!IInv'
  BY <1>4, <1>9 DEF Applications!Abandon
<1>10. ASSUME NEW w \in Handlers, NEW value \in {0, 1}, Applications!WithdrawBegin(w, value)
       PROVE  Applications!IInv'
  <2>1. /\ x1 # None /\ UNCHANGED <<x1, x2, x3, x4, x5, x6>>
        /\ Applications!Await(w, "n_batch", [Applications!NoContext EXCEPT
             !.part = "resource", !.scopes = Applications!Merged("resource", value)])
    BY <1>10 DEF Applications!WithdrawBegin
  <2>2. PICK m : m = Applications!Merged("resource", value)
    OBVIOUS
  <2>3. m \in Applications!ScopeValues
    BY <1>1, <2>1, <2>2 DEF Applications!Merged, Applications!ScopeValues
  <2>4. PICK c : c = [Applications!NoContext EXCEPT !.part = "resource", !.scopes = m]
    OBVIOUS
  <2>5. c = [hash |-> None, version |-> None, part |-> "resource", scopes |-> m, begun |-> 0]
    BY <2>4 DEF Applications!NoContext
  <2>6. c \in Applications!Context /\ c.scopes = m
    <3>1. 0 \in 0 .. MaxUpdates /\ "resource" \in Applications!Parts
      BY BoundsAssumption DEF Applications!Parts
    <3> QED BY <2>3, <2>5, <3>1 DEF Applications!Context
  <2>7. Applications!Given("n_batch", c) /\ "n_batch" \in ClientSteps
    BY <2>3, <2>6 DEF Applications!Given, Applications!Rotating, ClientSteps
  <2>8. Applications!Await(w, "n_batch", c)
    BY <2>1, <2>2, <2>4
  <2> QED BY <2>1, <2>6, <2>7, <2>8, ApplicationsMove DEF Applications!Rotating
<1>11. ASSUME NEW value \in {0, 1}, x1 # None, Applications!TakeScopes(value), UNCHANGED <<x2, x3, x4>>
       PROVE  /\ ClientRows /\ x5 < x5' /\ x5 <= x5' /\ x4 <= x4' /\ x1' # None
              /\ Applications!Version' = Applications!Version
  <2>1. /\ x5 < MaxUpdates /\ x1' = [x1 EXCEPT !["resource"] = value]
        /\ x5' = x5 + 1 /\ x6' = x6 \cup {"resource"}
    BY <1>11 DEF Applications!TakeScopes
  <2>2. x1 \in [Applications!Parts -> {0, 1}]
    BY <1>1, <1>11 DEF Applications!ScopeValues
  <2>3. /\ x1' \in [Applications!Parts -> {0, 1}]
        /\ \A p \in Applications!Parts \ {"resource"} : x1'[p] = x1[p]
    BY <2>1, <2>2
  <2>4. x1' # None
    BY <2>3, RowsNoneAssumption DEF Applications!ScopeValues
  <2>5. /\ x2 # None /\ Applications!SecretIsCurrent
        /\ x2 \in [secret : Applications!Hashes, scopes : Applications!ScopeValues]
        /\ \A p \in Applications!Parts \ x6 : x2.scopes[p] = x1[p]
    BY <1>11, ApplicationsTypes DEF Applications!ClientRepeatsApplication
  <2>6. Applications!Version' = Applications!Version
    BY <1>11 DEF Applications!Version
  <2>7. Applications!SecretIsCurrent'
    BY <1>11, <2>5, <2>6 DEF Applications!SecretIsCurrent
  <2>8. \A p \in Applications!Parts \ x6' : x2'.scopes[p] = x1'[p]
    BY <1>11, <2>1, <2>3, <2>5
  <2>9. Applications!ClientRepeatsApplication'
    BY <1>11, <2>4, <2>5, <2>7, <2>8 DEF Applications!ClientRepeatsApplication
  <2>10. Applications!SecretsTold'
    BY <1>1, <1>11, <2>4 DEF Applications!SecretsTold
  <2>11. x5' \in 0 .. MaxUpdates /\ x5 < x5' /\ x5 <= x5' /\ x4 <= x4'
    BY <1>1, <1>11, <2>1, BoundsAssumption
  <2>12. x6' \subseteq Applications!Parts
    BY <1>1, <2>1 DEF Applications!Parts
  <2>13. ClientRows
    BY <1>1, <1>11, <2>3, <2>5, <2>9, <2>10, <2>11, <2>12 DEF ClientRows, Applications!ScopeValues
  <2> QED BY <2>4, <2>6, <2>11, <2>13
<1>12. ASSUME NEW w \in Handlers, Applications!Withdraw(w) PROVE Applications!IInv'
  <2>1. step[w] = "n_batch" /\ Applications!Answer(w) /\ UNCHANGED <<x2, x3, x4>>
    BY <1>12 DEF Applications!Withdraw
  <2>2. CASE x1 = None
    BY <1>4, <1>12, <2>1, <2>2 DEF Applications!Withdraw
  <2>3. CASE x1 # None
    <3>1. PICK value : value = known[w].scopes["resource"]
      OBVIOUS
    <3>2. known[w].scopes \in Applications!ScopeValues
      BY <1>1, <2>1 DEF Applications!Given
    <3>3. value \in {0, 1} /\ Applications!TakeScopes(value)
      BY <1>12, <2>3, <3>1, <3>2 DEF Applications!Withdraw, Applications!ScopeValues, Applications!Parts
    <3>4. /\ ClientRows /\ x5 < x5' /\ x5 <= x5' /\ x4 <= x4' /\ x1' # None
          /\ Applications!Version' = Applications!Version
      BY <1>11, <2>1, <2>3, <3>3
    <3>5. Applications!Await(w, "idle", Applications!NoContext) /\ "idle" \in ClientSteps
      BY <2>1 DEF Applications!Answer, ClientSteps
    <3>6. /\ x1' # None => x1 # None /\ Applications!Version <= Applications!Version'
          /\ \A b \in x3' : \E a \in x3 : a.hash = b.hash
          /\ "idle" \notin Applications!Rotating
      BY <1>1, <2>1, <2>3, <3>4 DEF Applications!Rotating
    <3> QED BY <3>4, <3>5, <3>6, ApplicationsAwait, ApplicationsNoContext
  <2> QED BY <2>2, <2>3
<1>13. ASSUME NEW value \in {0, 1}, Applications!ResourceDeleted(value) PROVE Applications!IInv'
  <2>1. x1 # None /\ Applications!TakeScopes(value) /\ UNCHANGED <<x2, x3, x4, step, known>>
    BY <1>13 DEF Applications!ResourceDeleted
  <2>2. /\ ClientRows /\ x5 < x5' /\ x5 <= x5' /\ x4 <= x4' /\ x1' # None
        /\ Applications!Version' = Applications!Version
    BY <1>11, <2>1
  <2>3. Applications!TypeOK'
    BY <1>1, <2>1, <2>2 DEF Applications!TypeOK, ClientRows, ClientSteps
  <2>4. Applications!OwnHashes'
    BY <2>1, ApplicationsTypes DEF Applications!OwnHashes
  <2>5. ASSUME NEW w \in Handlers PROVE Applications!Given(step[w], known[w])'
    <3>1. Applications!Given(step[w], known[w]) /\ known[w] \in Applications!Context
      BY <1>1
    <3>2. PICK d, t : d = known[w] /\ t = step[w]
      OBVIOUS
    <3>3. d.begun \in Nat /\ x5' \in Nat
      BY <1>1, <2>2, <3>1, <3>2, BoundsAssumption DEF Applications!Context, ClientRows
    <3>4. t = "u_batch" => d.begun <= x5' /\ d.begun # x5'
      BY <1>1, <2>2, <3>1, <3>2, <3>3 DEF Applications!Given
    <3>5. Applications!Given(t, d)'
      BY <2>1, <2>2, <3>1, <3>2, <3>4 DEF Applications!Given
    <3> QED BY <2>1, <3>2, <3>5
  <2> QED BY <2>2, <2>3, <2>4, <2>5 DEF Applications!IInv, ClientRows
<1> QED BY <1>2, <1>3, <1>5, <1>6, <1>7, <1>8, <1>9, <1>10, <1>12, <1>13 DEF Applications!Next

-----------------------------------------------------------------------------
(* ApplicationConsent: x1 is consentRequired, x2 consent, x3 oauth, x4     *)
(* token, x5 revoked, x6 granted, x7 withdrawn, x8 late.                   *)

(* Rows a step may leave, and what of the rows before it they keep.        *)
ConsentRows ==
  /\ x1' \in BOOLEAN
  /\ x2' \in Consents!Consent \cup {None}
  /\ x3' \in Consents!OAuth \cup {None}
  /\ x4' \in BOOLEAN /\ x8' \in BOOLEAN
  /\ x5' \in Consents!Ids
  /\ x6' \subseteq Scopes /\ x7' \subseteq {"resource", "consent"}
  /\ Consents!RowsSound'
ConsentsKept ==
  /\ x5 <= x5'
  /\ x5' = x5 => (x2 # None => x2' # None)
  /\ x8' \/ x5' # x5 \/ x2 = None \/ (~x8 /\ x6 \subseteq x6')

LEMMA ConsentsTypes ==
  ASSUME Consents!IInv
  PROVE  /\ x1 \in BOOLEAN /\ x2 \in Consents!Consent \cup {None}
         /\ x3 \in Consents!OAuth \cup {None} /\ x4 \in BOOLEAN /\ x8 \in BOOLEAN
         /\ x5 \in Consents!Ids /\ x5 \in Nat /\ x6 \subseteq Scopes /\ x7 \subseteq {"resource", "consent"}
         /\ step \in [Handlers -> Consents!Steps] /\ known \in [Handlers -> Consents!Context]
         /\ Consents!RowsSound /\ \A w \in Handlers : Consents!Given(step[w], known[w])
BY BoundsAssumption DEF Consents!IInv, Consents!TypeOK, Consents!Ids

(* What is known of a reading.                                             *)
LEMMA ConsentsContext ==
  ASSUME NEW c \in Consents!Context
  PROVE  /\ c.requested \subseteq Scopes /\ c.scopes \subseteq Scopes
         /\ c.id \in Consents!Ids \cup {None} /\ c.oauth \in Consents!Ids \cup {None}
         /\ c.begun \in Consents!Ids /\ c.begun \in Nat /\ (c.id # None => c.id \in Nat)
BY BoundsAssumption DEF Consents!Context, Consents!Ids

LEMMA ConsentsNoContext ==
  /\ Consents!NoContext \in Consents!Context
  /\ Consents!NoContext.id = None /\ Consents!NoContext.begun = 0
<1>1. 0 \in Consents!Ids
  BY BoundsAssumption DEF Consents!Ids
<1> QED BY <1>1 DEF Consents!NoContext, Consents!Context

LEMMA ConsentsInit == Consents!Init => Consents!IInv
<1> SUFFICES ASSUME Consents!Init PROVE Consents!IInv
  OBVIOUS
<1>1. 0 \in Consents!Ids
  BY BoundsAssumption DEF Consents!Ids
<1>2. step \in [Handlers -> Consents!Steps]
  BY DEF Consents!Init, Consents!Steps
<1>3. known \in [Handlers -> Consents!Context]
  BY ConsentsNoContext DEF Consents!Init
<1>4. Consents!TypeOK
  BY <1>1, <1>2, <1>3 DEF Consents!Init, Consents!TypeOK
<1>5. Consents!RowsSound
  BY DEF Consents!Init, Consents!RowsSound
<1>6. ASSUME NEW w \in Handlers PROVE Consents!Given(step[w], known[w])
  <2>1. step[w] = "idle" /\ known[w] = Consents!NoContext /\ x5 = 0
    BY DEF Consents!Init
  <2> QED BY <2>1, ConsentsNoContext DEF Consents!Given, Consents!Found, Consents!Relies
<1> QED BY <1>4, <1>5, <1>6 DEF Consents!IInv

(* An invocation moves, and may write: the others keep what they hold.     *)
LEMMA ConsentsAwait ==
  ASSUME Consents!IInv, NEW w \in Handlers, NEW s \in Consents!Steps, NEW c \in Consents!Context,
         Consents!Await(w, s, c), ConsentRows, ConsentsKept, Consents!Given(s, c)'
  PROVE  Consents!IInv'
<1>1. /\ step \in [Handlers -> Consents!Steps] /\ known \in [Handlers -> Consents!Context]
      /\ x5 \in Nat /\ \A x \in Handlers : Consents!Given(step[x], known[x])
  BY ConsentsTypes
<1>2. /\ step' = [step EXCEPT ![w] = s] /\ known' = [known EXCEPT ![w] = c]
  BY DEF Consents!Await
<1>3. /\ step'[w] = s /\ known'[w] = c
      /\ \A x \in Handlers \ {w} : step'[x] = step[x] /\ known'[x] = known[x]
  BY <1>1, <1>2
<1>4. Consents!TypeOK'
  BY <1>1, <1>2 DEF Consents!TypeOK, ConsentRows
<1>5. ASSUME NEW x \in Handlers PROVE Consents!Given(step[x], known[x])'
  <2>1. CASE x = w
    <3>1. Consents!Given(s, c)'
      OBVIOUS
    <3> QED BY <1>3, <2>1, <3>1 DEF Consents!Given, Consents!Found, Consents!Relies
  <2>2. CASE x # w
    <3>1. PICK d, t : d = known[x] /\ t = step[x]
      OBVIOUS
    <3>2. Consents!Given(t, d) /\ step'[x] = t /\ known'[x] = d /\ d \in Consents!Context
      BY <1>1, <1>3, <2>2, <3>1
    <3>3. d.begun \in Nat /\ (d.id # None => d.id \in Nat) /\ x5' \in Nat
      BY <3>2, ConsentsContext, BoundsAssumption DEF ConsentRows, Consents!Ids
    <3>4. d.begun <= x5' /\ (d.begun = x5' => x5' = x5 /\ d.begun = x5)
      BY <1>1, <3>2, <3>3 DEF Consents!Given, ConsentsKept
    <3>5. d.id # None => d.id <= x5' /\ (x2' = None => d.id < x5') /\ (d.id = x5' => x5' = x5 /\ x2 # None)
      BY <1>1, <3>2, <3>3 DEF Consents!Given, ConsentsKept
    <3>6. Consents!Found(t, d)'
      <4>1. Consents!Found(t, d)
        BY <3>2 DEF Consents!Given
      <4>2. t \in {"a_read", "a_batch"} /\ d.begun = x5' /\ x2' = None => d.scopes \subseteq d.requested
        BY <3>4, <4>1 DEF Consents!Found, ConsentsKept
      <4>3. t = "t_insert" /\ d.begun = x5' => x2' # None
        BY <3>4, <4>1 DEF Consents!Found, ConsentsKept
      <4> QED BY <4>1, <4>2, <4>3 DEF Consents!Found
    <3>7. x8' \/ Consents!Relies(t, d)'
      <4>1. SUFFICES ASSUME ~x8' PROVE Consents!Relies(t, d)'
        OBVIOUS
      <4>2. x5' = x5 => x2 = None \/ (Consents!Relies(t, d) /\ x6 \subseteq x6')
        BY <3>2, <4>1 DEF Consents!Given, ConsentsKept
      <4>3. t \in {"a_read", "a_batch"} /\ d.begun = x5' => d.scopes \subseteq d.requested \cup x6'
        <5>1. CASE x2 = None
          BY <3>2, <3>4, <5>1 DEF Consents!Given, Consents!Found
        <5>2. CASE x2 # None
          BY <3>4, <4>2, <5>2 DEF Consents!Relies
        <5> QED BY <5>1, <5>2
      <4>4. /\ t = "p_write" /\ d.id = x5' => d.scopes \subseteq d.requested \cup x6'
            /\ t = "n_batch" /\ d.id = x5' => d.scopes \subseteq x6'
        <5>1. d.id = x5' => d.id # None
          BY <3>3, PartsNoneAssumption
        <5> QED BY <3>5, <4>2, <5>1 DEF Consents!Relies
      <4> QED BY <4>3, <4>4 DEF Consents!Relies
    <3>8. t \in {"a_batch", "p_write"} /\ d.id # None => d.begun <= d.id
      BY <3>2 DEF Consents!Given
    <3>9. Consents!Given(t, d)'
      BY <3>4, <3>5, <3>6, <3>7, <3>8 DEF Consents!Given
    <3> QED BY <3>2, <3>9 DEF Consents!Given, Consents!Found, Consents!Relies
  <2> QED BY <2>1, <2>2
<1> QED BY <1>4, <1>5 DEF Consents!IInv, ConsentRows

LEMMA ConsentsSame ==
  ASSUME Consents!IInv, UNCHANGED <<x2, x3, x4, x5, x6, x7, x8>>, x1' \in BOOLEAN
  PROVE  ConsentRows /\ ConsentsKept
<1>1. Consents!RowsSound'
  BY ConsentsTypes DEF Consents!RowsSound
<1> QED BY <1>1, ConsentsTypes DEF ConsentRows, ConsentsKept

(* An invocation goes on, or ends, having written nothing.                 *)
LEMMA ConsentsMove ==
  ASSUME Consents!IInv, NEW w \in Handlers, NEW s \in Consents!Steps, NEW c \in Consents!Context,
         Consents!Await(w, s, c), UNCHANGED <<x1, x2, x3, x4, x5, x6, x7, x8>>, Consents!Given(s, c)
  PROVE  Consents!IInv'
<1>1. ConsentRows /\ ConsentsKept
  BY ConsentsSame, ConsentsTypes
<1>2. Consents!Given(s, c)'
  BY DEF Consents!Given, Consents!Found, Consents!Relies
<1> QED BY <1>1, <1>2, ConsentsAwait

(* An answer, whatever has been written.                                   *)
LEMMA ConsentsAnswer ==
  ASSUME Consents!IInv, NEW w \in Handlers, Consents!Answer(w), ConsentRows, ConsentsKept
  PROVE  Consents!IInv'
<1>1. Consents!Await(w, "idle", Consents!NoContext) /\ "idle" \in Consents!Steps
  BY DEF Consents!Answer, Consents!Steps
<1>2. 0 <= x5'
  BY BoundsAssumption DEF ConsentRows, Consents!Ids
<1>3. Consents!Given("idle", Consents!NoContext)'
  BY <1>2, ConsentsNoContext DEF Consents!Given, Consents!Found, Consents!Relies
<1> QED BY <1>1, <1>3, ConsentsNoContext, ConsentsAwait

LEMMA ConsentsStep == ASSUME Consents!IInv, Consents!Next PROVE Consents!IInv'
<1> USE DEF Consents!rows
<1>1. /\ x1 \in BOOLEAN /\ x2 \in Consents!Consent \cup {None}
      /\ x3 \in Consents!OAuth \cup {None} /\ x4 \in BOOLEAN /\ x8 \in BOOLEAN
      /\ x5 \in Consents!Ids /\ x5 \in Nat /\ x6 \subseteq Scopes /\ x7 \subseteq {"resource", "consent"}
      /\ step \in [Handlers -> Consents!Steps] /\ known \in [Handlers -> Consents!Context]
      /\ Consents!RowsSound /\ \A w \in Handlers : Consents!Given(step[w], known[w])
  BY ConsentsTypes
<1>2. /\ x2 # None => /\ x2.id = x5 /\ x2.scopes \subseteq Scopes
                      /\ x8 \/ x2.scopes \subseteq x6
      /\ x2 = None => x8 \/ "consent" \in x7 \/ (x3 = None /\ ~x4)
      /\ Consents!Id(x2) \in Consents!Ids \cup {None}
      /\ Consents!Id(x2) = IF x2 = None THEN None ELSE x5
  BY <1>1 DEF Consents!RowsSound, Consents!Consent, Consents!Id
<1>3. None \notin Nat /\ None \notin Consents!Ids /\ 0 \in Consents!Ids /\ 0 <= x5 /\ ~(x5 < x5)
      /\ x5 <= x5
  BY <1>1, PartsNoneAssumption, BoundsAssumption DEF Consents!Ids
<1>4. ASSUME NEW w \in Handlers, Consents!Answer(w), UNCHANGED <<x1, x2, x3, x4, x5, x6, x7, x8>>
      PROVE  Consents!IInv'
  BY <1>4, <1>1, ConsentsSame, ConsentsAnswer
<1>5. ASSUME Consents!SetConsentRequired PROVE Consents!IInv'
  <2>1. x1' \in BOOLEAN /\ UNCHANGED <<x2, x3, x4, x5, x6, x7, x8, step, known>>
    BY <1>1, <1>5 DEF Consents!SetConsentRequired
  <2>2. ConsentRows
    BY <2>1, ConsentsSame
  <2>3. Consents!TypeOK'
    BY <1>1, <2>1, <2>2 DEF Consents!TypeOK, ConsentRows
  <2>4. \A w \in Handlers : Consents!Given(step[w], known[w])'
    BY <1>1, <2>1 DEF Consents!Given, Consents!Found, Consents!Relies
  <2> QED BY <2>2, <2>3, <2>4 DEF Consents!IInv, ConsentRows
<1>6. ASSUME NEW w \in Handlers, NEW scopes \in SUBSET Scopes, Consents!ApproveBegin(w, scopes)
      PROVE  Consents!IInv'
  <2>1. PICK c : c = [Consents!NoContext EXCEPT !.requested = scopes]
    OBVIOUS
  <2>2. c = [requested |-> scopes, scopes |-> {}, id |-> None, oauth |-> None, begun |-> 0]
    BY <2>1 DEF Consents!NoContext
  <2>3. c \in Consents!Context /\ c.id = None /\ c.begun = 0
    BY <1>3, <2>2 DEF Consents!Context
  <2>4. Consents!Given("a_find", c)
    BY <1>3, <2>3 DEF Consents!Given, Consents!Found, Consents!Relies
  <2>5. Consents!Await(w, "a_find", c) /\ UNCHANGED <<x1, x2, x3, x4, x5, x6, x7, x8>>
        /\ "a_find" \in Consents!Steps
    BY <1>6, <2>1 DEF Consents!ApproveBegin, Consents!Steps
  <2> QED BY <2>3, <2>4, <2>5, ConsentsMove
<1>7. ASSUME NEW w \in Handlers, Consents!FindConsent(w) PROVE Consents!IInv'
  <2>1. PICK d, merged : d = known[w] /\ merged = d.requested \cup Consents!Consented
    OBVIOUS
  <2>2. d \in Consents!Context /\ Consents!Given("a_find", d)
    BY <1>1, <1>7, <2>1 DEF Consents!FindConsent
  <2>3. d.requested \subseteq Scopes
    BY <2>2, ConsentsContext
  <2>4. /\ merged \subseteq Scopes /\ (x2 = None => merged \subseteq d.requested)
        /\ x8 \/ merged \subseteq d.requested \cup x6
    BY <1>2, <2>1, <2>3 DEF Consents!Consented
  <2>5. PICK c : c = [d EXCEPT !.begun = x5, !.scopes = merged]
    OBVIOUS
  <2>6. c \in Consents!Context
    BY <1>1, <2>2, <2>4, <2>5 DEF Consents!Context
  <2>7. c.requested = d.requested /\ c.scopes = merged /\ c.id = d.id /\ c.begun = x5
    BY <2>2, <2>5 DEF Consents!Context
  <2>8. Consents!Given("a_read", c)
    BY <1>3, <2>2, <2>4, <2>7 DEF Consents!Given, Consents!Found, Consents!Relies
  <2>9. Consents!Await(w, "a_read", c) /\ UNCHANGED <<x1, x2, x3, x4, x5, x6, x7, x8>>
        /\ "a_read" \in Consents!Steps
    BY <1>7, <2>1, <2>5 DEF Consents!FindConsent, Consents!Steps
  <2> QED BY <2>6, <2>8, <2>9, ConsentsMove
<1>8. ASSUME NEW w \in Handlers, NEW scopes \in SUBSET Scopes, Consents!IssueBegin(w, scopes)
      PROVE  Consents!IInv'
  <2>1. UNCHANGED <<x1, x2, x3, x4, x5, x6, x7, x8>>
    BY <1>8 DEF Consents!IssueBegin
  <2>2. CASE x1
    <3>1. PICK c : c = [Consents!NoContext EXCEPT !.begun = x5]
      OBVIOUS
    <3>2. c = [requested |-> {}, scopes |-> {}, id |-> None, oauth |-> None, begun |-> x5]
      BY <3>1 DEF Consents!NoContext
    <3>3. c \in Consents!Context /\ c.id = None /\ c.begun = x5
      BY <1>1, <3>2 DEF Consents!Context
    <3>4. Consents!Await(w, "t_insert", c) /\ x2 # None /\ "t_insert" \in Consents!Steps
      BY <1>8, <2>2, <3>1 DEF Consents!IssueBegin, Consents!Consented, Consents!Steps
    <3>5. Consents!Given("t_insert", c)
      BY <1>3, <3>3, <3>4 DEF Consents!Given, Consents!Found, Consents!Relies
    <3> QED BY <2>1, <3>3, <3>4, <3>5, ConsentsMove
  <2>3. CASE ~x1
    <3>1. PICK c : c = [Consents!NoContext EXCEPT !.requested = scopes, !.scopes = scopes, !.begun = x5]
      OBVIOUS
    <3>2. c = [requested |-> scopes, scopes |-> scopes, id |-> None, oauth |-> None, begun |-> x5]
      BY <3>1 DEF Consents!NoContext
    <3>3. /\ c \in Consents!Context /\ c.id = None /\ c.begun = x5
          /\ c.scopes = scopes /\ c.requested = scopes
      BY <1>1, <3>2 DEF Consents!Context
    <3>4. Consents!Await(w, "p_read", c) /\ "p_read" \in Consents!Steps
      BY <1>8, <2>3, <3>1 DEF Consents!IssueBegin, Consents!Steps
    <3>5. Consents!Given("p_read", c)
      BY <1>3, <3>3 DEF Consents!Given, Consents!Found, Consents!Relies
    <3> QED BY <2>1, <3>3, <3>4, <3>5, ConsentsMove
  <2> QED BY <2>2, <2>3
<1>9. ASSUME NEW w \in Handlers, NEW declared \in SUBSET Scopes, Consents!NarrowBegin(w, declared)
      PROVE  Consents!IInv'
  <2>1. PICK kept : kept = x2.scopes \cap declared
    OBVIOUS
  <2>2. x2 # None /\ kept \subseteq Scopes /\ (x8 \/ kept \subseteq x6) /\ x2.id = x5
    BY <1>2, <1>9, <2>1 DEF Consents!NarrowBegin
  <2>3. PICK c : c = [Consents!NoContext EXCEPT !.id = x5, !.scopes = kept]
    OBVIOUS
  <2>4. c = [requested |-> {}, scopes |-> kept, id |-> x5, oauth |-> None, begun |-> 0]
    BY <2>3 DEF Consents!NoContext
  <2>5. /\ c \in Consents!Context /\ c.id = x5 /\ c.begun = 0
        /\ c.scopes = kept /\ c.requested = {}
    BY <1>1, <1>3, <2>2, <2>4 DEF Consents!Context
  <2>6. Consents!Given("n_batch", c)
    BY <1>1, <1>3, <2>2, <2>5 DEF Consents!Given, Consents!Found, Consents!Relies
  <2>7. Consents!Await(w, "n_batch", c) /\ UNCHANGED <<x1, x2, x3, x4, x5, x6, x7, x8>>
        /\ "n_batch" \in Consents!Steps
    BY <1>9, <2>1, <2>2, <2>3 DEF Consents!NarrowBegin, Consents!Steps
  <2> QED BY <2>5, <2>6, <2>7, ConsentsMove
<1>10. ASSUME NEW w \in Handlers, Consents!PrivateBegin(w) PROVE Consents!IInv'
  <2>1. x2 # None /\ x2.id = x5
    BY <1>2, <1>10 DEF Consents!PrivateBegin
  <2>2. PICK c : c = [Consents!NoContext EXCEPT !.id = x5]
    OBVIOUS
  <2>3. c = [requested |-> {}, scopes |-> {}, id |-> x5, oauth |-> None, begun |-> 0]
    BY <2>2 DEF Consents!NoContext
  <2>4. c \in Consents!Context /\ c.id = x5 /\ c.begun = 0 /\ c.scopes = {}
    BY <1>1, <1>3, <2>3 DEF Consents!Context
  <2>5. Consents!Given("n_batch", c)
    BY <1>1, <1>3, <2>1, <2>4 DEF Consents!Given, Consents!Found, Consents!Relies
  <2>6. Consents!Await(w, "n_batch", c) /\ UNCHANGED <<x1, x2, x3, x4, x5, x6, x7, x8>>
        /\ "n_batch" \in Consents!Steps
    BY <1>10, <2>1, <2>2 DEF Consents!PrivateBegin, Consents!Steps
  <2> QED BY <2>4, <2>5, <2>6, ConsentsMove
<1>11. ASSUME NEW w \in Handlers, Consents!ReadRows(w) PROVE Consents!IInv'
  <2>1. PICK d, id, oid : d = known[w] /\ id = Consents!Id(x2) /\ oid = Consents!Id(x3)
    OBVIOUS
  <2>2. d \in Consents!Context /\ Consents!Given("a_read", d)
    BY <1>1, <1>11, <2>1 DEF Consents!ReadRows
  <2>3. oid \in Consents!Ids \cup {None} /\ id \in Consents!Ids \cup {None}
    BY <1>1, <1>2, <2>1 DEF Consents!OAuth, Consents!Id
  <2>4. PICK c : c = [d EXCEPT !.id = id, !.oauth = oid]
    OBVIOUS
  <2>5. c \in Consents!Context
    BY <2>2, <2>3, <2>4 DEF Consents!Context
  <2>6. c.requested = d.requested /\ c.scopes = d.scopes /\ c.id = id /\ c.begun = d.begun
    BY <2>2, <2>4 DEF Consents!Context
  <2>7. Consents!Given("a_batch", c)
    BY <1>2, <1>3, <2>1, <2>2, <2>6 DEF Consents!Given, Consents!Found, Consents!Relies
  <2>8. Consents!Await(w, "a_batch", c) /\ UNCHANGED <<x1, x2, x3, x4, x5, x6, x7, x8>>
        /\ "a_batch" \in Consents!Steps
    BY <1>11, <2>1, <2>4 DEF Consents!ReadRows, Consents!Steps
  <2> QED BY <2>5, <2>7, <2>8, ConsentsMove
<1>12. ASSUME NEW w \in Handlers, Consents!StoreConsent(w) PROVE Consents!IInv'
  <2>1. PICK c : c = known[w]
    OBVIOUS
  <2>2. c \in Consents!Context /\ Consents!Given("a_batch", c)
    BY <1>1, <1>12, <2>1 DEF Consents!StoreConsent
  <2>3. /\ c.requested \subseteq Scopes /\ c.scopes \subseteq Scopes /\ c.begun \in Nat
        /\ c.id # None => c.id \in Nat
    BY <2>2, ConsentsContext
  <2>4. Consents!Answer(w) /\ UNCHANGED <<x1, x4, x5, x7>>
    BY <1>12 DEF Consents!StoreConsent
  <2>5. CASE ~(Consents!Lands(c.id, x2) /\ Consents!Lands(c.oauth, x3))
    BY <1>4, <1>12, <2>1, <2>4, <2>5 DEF Consents!StoreConsent
  <2>6. CASE Consents!Lands(c.id, x2) /\ Consents!Lands(c.oauth, x3)
    <3>1. /\ x2' = IF Consents!SameRow(c.id)
                   THEN [id |-> x5, scopes |-> c.scopes, source |-> "user_consent"] ELSE x2
          /\ x3' = IF c.oauth = Consents!Id(x3)
                   THEN [id |-> IF x3 = None THEN x5 ELSE x3.id, scopes |-> c.scopes] ELSE x3
          /\ x6' = x6 \cup c.requested
          /\ x8' = (x8 \/ c.begun # x5)
      BY <1>12, <2>1, <2>6 DEF Consents!StoreConsent
    <3>2. PICK row : row = [id |-> x5, scopes |-> c.scopes, source |-> "user_consent"]
      OBVIOUS
    <3>3. row \in Consents!Consent /\ row # None /\ row.id = x5 /\ row.scopes = c.scopes
      BY <1>1, <2>3, <3>2, RowsNoneAssumption DEF Consents!Consent
    <3>4. x2' = IF Consents!SameRow(c.id) THEN row ELSE x2
      BY <3>1, <3>2
    <3>5. x3' \in Consents!OAuth \cup {None}
      <4>1. (IF x3 = None THEN x5 ELSE x3.id) \in Consents!Ids
        BY <1>1 DEF Consents!OAuth
      <4> QED BY <1>1, <2>3, <3>1, <4>1 DEF Consents!OAuth
    <3>6. x6' \subseteq Scopes /\ x8' \in BOOLEAN
      BY <1>1, <2>3, <3>1
    <3>7. ~x8' => Consents!SameRow(c.id)
      <4>1. CASE c.id = None
        BY <1>2, <2>6, <4>1 DEF Consents!Lands, Consents!SameRow
      <4>2. CASE c.id # None /\ c.begun = x5
        <5>1. c.id <= x5 /\ x5 <= c.id /\ (x2 = None => c.id < x5)
          BY <2>2, <4>2 DEF Consents!Given
        <5>2. c.id = x5 /\ x2 # None
          BY <1>1, <2>3, <4>2, <5>1
        <5> QED BY <1>2, <5>2 DEF Consents!SameRow
      <4> QED BY <3>1, <4>1, <4>2
    <3>8. ~x8' => c.scopes \subseteq x6'
      <4>1. ~x8' => ~x8 /\ c.begun = x5
        BY <3>1
      <4>2. ~x8' => c.scopes \subseteq c.requested \cup x6
        BY <2>2, <4>1 DEF Consents!Given, Consents!Found, Consents!Relies
      <4> QED BY <2>4, <3>1, <4>2
    <3>9. Consents!RowsSound'
      <4>1. x2' # None => x2'.id = x5'
        BY <1>2, <2>4, <3>3, <3>4
      <4>2. x8' \/ (x2' # None /\ x2'.scopes \subseteq x6')
        BY <3>3, <3>4, <3>7, <3>8
      <4> QED BY <4>1, <4>2 DEF Consents!RowsSound
    <3>10. x2' \in Consents!Consent \cup {None}
      BY <1>1, <3>3, <3>4
    <3>11. ConsentRows
      BY <1>1, <2>4, <3>5, <3>6, <3>9, <3>10 DEF ConsentRows
    <3>12. ConsentsKept
      BY <1>3, <2>4, <3>1, <3>3, <3>4 DEF ConsentsKept
    <3> QED BY <2>4, <3>11, <3>12, ConsentsAnswer
  <2> QED BY <2>5, <2>6
<1>13. ASSUME NEW w \in Handlers, Consents!ReadAuthorization(w) PROVE Consents!IInv'
  <2>1. PICK d, id, merged : d = known[w] /\ id = Consents!Id(x2)
                               /\ merged = d.scopes \cup Consents!Authorized
    OBVIOUS
  <2>2. d \in Consents!Context /\ Consents!Given("p_read", d)
    BY <1>1, <1>13, <2>1 DEF Consents!ReadAuthorization
  <2>3. d.scopes \subseteq Scopes
    BY <2>2, ConsentsContext
  <2>4. merged \subseteq Scopes
    BY <1>2, <2>1, <2>3 DEF Consents!Authorized
  <2>5. PICK c : c = [d EXCEPT !.id = id, !.scopes = merged]
    OBVIOUS
  <2>6. c \in Consents!Context
    BY <1>2, <2>1, <2>2, <2>4, <2>5 DEF Consents!Context
  <2>7. c.requested = d.requested /\ c.scopes = merged /\ c.id = id /\ c.begun = d.begun
    BY <2>2, <2>5 DEF Consents!Context
  <2>8. /\ id = None => merged \subseteq d.requested
        /\ x8 \/ merged \subseteq d.requested \cup x6
    <3>1. d.scopes \subseteq d.requested
      BY <2>2 DEF Consents!Given, Consents!Found, Consents!Relies
    <3>2. id = None => x2 = None
      BY <1>1, <1>2, <1>3, <2>1
    <3> QED BY <1>2, <2>1, <3>1, <3>2 DEF Consents!Authorized
  <2>9. Consents!Given("p_write", c)
    BY <1>2, <1>3, <2>1, <2>2, <2>7, <2>8 DEF Consents!Given, Consents!Found, Consents!Relies
  <2>10. Consents!Await(w, "p_write", c) /\ UNCHANGED <<x1, x2, x3, x4, x5, x6, x7, x8>>
         /\ "p_write" \in Consents!Steps
    BY <1>13, <2>1, <2>5 DEF Consents!ReadAuthorization, Consents!Steps
  <2> QED BY <2>6, <2>9, <2>10, ConsentsMove
<1>14. ASSUME NEW w \in Handlers, Consents!RecordPolicy(w) PROVE Consents!IInv'
  <2>1. PICK d : d = known[w]
    OBVIOUS
  <2>2. d \in Consents!Context /\ Consents!Given("p_write", d)
    BY <1>1, <1>14, <2>1 DEF Consents!RecordPolicy
  <2>3. /\ d.requested \subseteq Scopes /\ d.scopes \subseteq Scopes /\ d.begun \in Nat
        /\ d.begun \in Consents!Ids /\ (d.id # None => d.id \in Nat)
    BY <2>2, ConsentsContext
  <2>4. UNCHANGED <<x1, x3, x4, x5, x7, x8>>
    BY <1>14 DEF Consents!RecordPolicy
  <2>5. CASE ~Consents!Lands(d.id, x2)
    BY <1>4, <1>14, <2>1, <2>4, <2>5 DEF Consents!RecordPolicy
  <2>6. CASE Consents!Lands(d.id, x2)
    <3>1. /\ x2' = IF ~Consents!SameRow(d.id) THEN x2
                   ELSE IF x2 # None THEN [x2 EXCEPT !.scopes = d.scopes]
                   ELSE [id |-> x5, scopes |-> d.scopes, source |-> "platform_policy"]
          /\ x6' = x6 \cup d.requested
          /\ Consents!Await(w, "p_check", [Consents!NoContext EXCEPT !.begun = d.begun])
      BY <1>14, <2>1, <2>6 DEF Consents!RecordPolicy
    <3>2. Consents!SameRow(d.id) =>
            x2' \in Consents!Consent /\ x2' # None /\ x2'.id = x5 /\ x2'.scopes = d.scopes
      <4>1. ASSUME Consents!SameRow(d.id), x2 # None
            PROVE  x2' \in Consents!Consent /\ x2'.id = x5 /\ x2'.scopes = d.scopes
        <5>1. x2 \in Consents!Consent
          BY <1>1, <4>1
        <5>2. PICK row : row = [x2 EXCEPT !.scopes = d.scopes]
          OBVIOUS
        <5>3. row \in Consents!Consent
          BY <2>3, <5>1, <5>2 DEF Consents!Consent
        <5>4. row.id = x2.id /\ row.scopes = d.scopes
          BY <5>1, <5>2 DEF Consents!Consent
        <5> QED BY <1>2, <3>1, <4>1, <5>2, <5>3, <5>4
      <4>2. ASSUME Consents!SameRow(d.id), x2 = None
            PROVE  x2' \in Consents!Consent /\ x2'.id = x5 /\ x2'.scopes = d.scopes
        <5>1. PICK row : row = [id |-> x5, scopes |-> d.scopes, source |-> "platform_policy"]
          OBVIOUS
        <5>2. row \in Consents!Consent /\ row.id = x5 /\ row.scopes = d.scopes
          BY <1>1, <2>3, <5>1 DEF Consents!Consent
        <5> QED BY <3>1, <4>2, <5>1, <5>2
      <4> QED BY <4>1, <4>2, RowsNoneAssumption
    <3>3. Consents!SameRow(d.id) => x8 \/ d.scopes \subseteq x6'
      <4>1. Consents!Found("p_write", d) /\ (x8 \/ Consents!Relies("p_write", d))
        BY <2>2 DEF Consents!Given
      <4>2. Consents!SameRow(d.id) => d.id = None \/ d.id = x5
        BY <1>2 DEF Consents!SameRow
      <4>3. Consents!SameRow(d.id) => x8 \/ d.scopes \subseteq d.requested \cup x6
        BY <4>1, <4>2 DEF Consents!Found, Consents!Relies
      <4> QED BY <2>4, <3>1, <4>3
    <3>4. Consents!RowsSound'
      <4>1. CASE Consents!SameRow(d.id)
        BY <2>4, <3>2, <3>3, <4>1 DEF Consents!RowsSound
      <4>2. CASE ~Consents!SameRow(d.id)
        <5>1. x2' = x2
          BY <3>1, <4>2
        <5> QED BY <1>2, <2>4, <3>1, <5>1 DEF Consents!RowsSound
      <4> QED BY <4>1, <4>2
    <3>5. x2' \in Consents!Consent \cup {None}
      BY <1>1, <3>1, <3>2
    <3>6. ConsentRows
      BY <1>1, <2>3, <2>4, <3>1, <3>4, <3>5 DEF ConsentRows
    <3>7. ConsentsKept
      BY <1>3, <2>4, <3>1, <3>2 DEF ConsentsKept
    <3>8. PICK c : c = [Consents!NoContext EXCEPT !.begun = d.begun]
      OBVIOUS
    <3>9. c = [requested |-> {}, scopes |-> {}, id |-> None, oauth |-> None, begun |-> d.begun]
      BY <3>8 DEF Consents!NoContext
    <3>10. c \in Consents!Context /\ c.id = None /\ c.begun = d.begun
      BY <2>3, <3>9 DEF Consents!Context
    <3>11. c.begun <= x5'
      BY <2>2, <2>4, <3>10 DEF Consents!Given
    <3>12. Consents!Given("p_check", c)'
      BY <3>10, <3>11 DEF Consents!Given, Consents!Found, Consents!Relies
    <3>13. Consents!Await(w, "p_check", c) /\ "p_check" \in Consents!Steps
      BY <3>1, <3>8 DEF Consents!Steps
    <3> QED BY <3>6, <3>7, <3>10, <3>12, <3>13, ConsentsAwait
  <2> QED BY <2>5, <2>6
<1>15. ASSUME NEW w \in Handlers, Consents!ConfirmPolicy(w) PROVE Consents!IInv'
  <2>1. PICK c : c = known[w]
    OBVIOUS
  <2>2. c \in Consents!Context /\ Consents!Given("p_check", c)
    BY <1>1, <1>15, <2>1 DEF Consents!ConfirmPolicy
  <2>3. CASE x2 = None
    BY <1>4, <1>15, <2>3 DEF Consents!ConfirmPolicy
  <2>4. CASE x2 # None
    <3>1. Consents!Given("t_insert", c)
      BY <2>2, <2>4 DEF Consents!Given, Consents!Found, Consents!Relies
    <3>2. Consents!Await(w, "t_insert", c) /\ UNCHANGED <<x1, x2, x3, x4, x5, x6, x7, x8>>
          /\ "t_insert" \in Consents!Steps
      BY <1>15, <2>1, <2>4 DEF Consents!ConfirmPolicy, Consents!Steps
    <3> QED BY <2>2, <3>1, <3>2, ConsentsMove
  <2> QED BY <2>3, <2>4
<1>16. ASSUME NEW w \in Handlers, Consents!InsertToken(w) PROVE Consents!IInv'
  <2>1. PICK d : d = known[w]
    OBVIOUS
  <2>2. Consents!Given("t_insert", d)
    BY <1>1, <1>16, <2>1 DEF Consents!InsertToken
  <2>3. /\ Consents!Answer(w) /\ x4' = TRUE /\ x8' = (x8 \/ d.begun # x5)
        /\ UNCHANGED <<x1, x2, x3, x5, x6, x7>>
    BY <1>16, <2>1 DEF Consents!InsertToken
  <2>4. ~x8' => x2 # None
    BY <2>2, <2>3 DEF Consents!Given, Consents!Found, Consents!Relies
  <2>5. x8' \in BOOLEAN
    BY <1>1, <2>3
  <2>6. Consents!RowsSound'
    BY <1>2, <2>3, <2>4 DEF Consents!RowsSound
  <2>7. ConsentRows
    BY <1>1, <2>3, <2>5, <2>6 DEF ConsentRows
  <2>8. ConsentsKept
    BY <1>3, <2>3 DEF ConsentsKept
  <2> QED BY <2>3, <2>7, <2>8, ConsentsAnswer
<1>17. ASSUME NEW w \in Handlers, Consents!RevokeBegin(w) PROVE Consents!IInv'
  <2>1. Consents!Await(w, "r_batch", Consents!NoContext) /\ UNCHANGED <<x1, x2, x3, x4, x5, x6, x7, x8>>
        /\ "r_batch" \in Consents!Steps
    BY <1>17 DEF Consents!RevokeBegin, Consents!Steps
  <2>2. Consents!Given("r_batch", Consents!NoContext)
    BY <1>3, ConsentsNoContext DEF Consents!Given, Consents!Found, Consents!Relies
  <2> QED BY <2>1, <2>2, ConsentsNoContext, ConsentsMove
<1>18. ASSUME Consents!EndConsent
      PROVE  /\ x2' = None /\ x6' = {} /\ x5' \in Consents!Ids /\ x5 <= x5'
             /\ x2 = None \/ x5' # x5
  BY <1>1, <1>18, BoundsAssumption DEF Consents!EndConsent, Consents!Ids
<1>19. ASSUME NEW w \in Handlers, Consents!RevokeGrant(w) PROVE Consents!IInv'
  <2>1. /\ Consents!Answer(w) /\ UNCHANGED x1 /\ Consents!EndConsent
        /\ x3' = None /\ x4' = FALSE /\ x7' = x7 \ {"consent"} /\ x8' = FALSE
    BY <1>19 DEF Consents!RevokeGrant
  <2>2. /\ x2' = None /\ x6' = {} /\ x5' \in Consents!Ids /\ x5 <= x5'
        /\ x2 = None \/ x5' # x5
    BY <1>18, <2>1
  <2>3. Consents!RowsSound'
    BY <2>1, <2>2 DEF Consents!RowsSound
  <2>4. ConsentRows
    BY <1>1, <2>1, <2>2, <2>3 DEF ConsentRows
  <2>5. ConsentsKept
    BY <2>2 DEF ConsentsKept
  <2> QED BY <2>1, <2>4, <2>5, ConsentsAnswer
<1>20. ASSUME NEW w \in Handlers, Consents!DeleteBegin(w) PROVE Consents!IInv'
  <2>1. Consents!Await(w, "x_batch", Consents!NoContext) /\ UNCHANGED <<x1, x2, x3, x4, x5, x6, x7, x8>>
        /\ "x_batch" \in Consents!Steps
    BY <1>20 DEF Consents!DeleteBegin, Consents!Steps
  <2>2. Consents!Given("x_batch", Consents!NoContext)
    BY <1>3, ConsentsNoContext DEF Consents!Given, Consents!Found, Consents!Relies
  <2> QED BY <2>1, <2>2, ConsentsNoContext, ConsentsMove
<1>21. ASSUME NEW w \in Handlers, Consents!DeleteBatch(w) PROVE Consents!IInv'
  <2>1. /\ Consents!Answer(w) /\ UNCHANGED <<x1, x3, x4, x8>> /\ Consents!EndConsent
        /\ x7' = x7 \cup {"resource"} \cup (IF x2 = None THEN {} ELSE {"consent"})
    BY <1>21 DEF Consents!DeleteBatch
  <2>2. /\ x2' = None /\ x6' = {} /\ x5' \in Consents!Ids /\ x5 <= x5'
        /\ x2 = None \/ x5' # x5
    BY <1>18, <2>1
  <2>3. Consents!RowsSound'
    BY <1>2, <2>1, <2>2 DEF Consents!RowsSound
  <2>4. ConsentRows
    BY <1>1, <2>1, <2>2, <2>3 DEF ConsentRows
  <2>5. ConsentsKept
    BY <2>2 DEF ConsentsKept
  <2> QED BY <2>1, <2>4, <2>5, ConsentsAnswer
<1>22. ASSUME NEW w \in Handlers, Consents!Narrow(w) PROVE Consents!IInv'
  <2>1. PICK d : d = known[w]
    OBVIOUS
  <2>2. d \in Consents!Context /\ Consents!Given("n_batch", d)
    BY <1>1, <1>22, <2>1 DEF Consents!Narrow
  <2>3. d.scopes \subseteq Scopes /\ d.requested \subseteq Scopes
    BY <2>2, ConsentsContext
  <2>4. Consents!Answer(w) /\ UNCHANGED <<x1, x3, x4, x8>>
    BY <1>22 DEF Consents!Narrow
  <2>5. CASE x2 = None \/ ~Consents!SameRow(d.id)
    BY <1>4, <1>22, <2>1, <2>4, <2>5 DEF Consents!Narrow
  <2>6. CASE x2 # None /\ Consents!SameRow(d.id) /\ d.scopes # {}
    <3>1. x2' = [x2 EXCEPT !.scopes = d.scopes] /\ UNCHANGED <<x5, x6, x7>>
      BY <1>22, <2>1, <2>6 DEF Consents!Narrow
    <3>2. x2 \in Consents!Consent
      BY <1>1, <2>6
    <3>3. x2' \in Consents!Consent
      BY <2>3, <3>1, <3>2 DEF Consents!Consent
    <3>4. x2'.id = x5 /\ x2'.scopes = d.scopes /\ x2' # None
      BY <1>2, <2>6, <3>1, <3>2, <3>3, RowsNoneAssumption DEF Consents!Consent
    <3>5. x8 \/ d.scopes \subseteq x6
      <4>1. d.id = x5
        BY <1>2, <2>6 DEF Consents!SameRow
      <4> QED BY <2>2, <4>1 DEF Consents!Given, Consents!Found, Consents!Relies
    <3>6. Consents!RowsSound'
      BY <2>4, <3>1, <3>4, <3>5 DEF Consents!RowsSound
    <3>7. ConsentRows
      BY <1>1, <2>4, <3>1, <3>3, <3>6 DEF ConsentRows
    <3>8. ConsentsKept
      BY <1>3, <2>4, <3>1, <3>4 DEF ConsentsKept
    <3> QED BY <2>4, <3>7, <3>8, ConsentsAnswer
  <2>7. CASE x2 # None /\ Consents!SameRow(d.id) /\ d.scopes = {}
    <3>1. Consents!EndConsent /\ x7' = x7 \cup {"consent"}
      BY <1>22, <2>1, <2>7 DEF Consents!Narrow
    <3>2. x2' = None /\ x6' = {} /\ x5' \in Consents!Ids /\ x5 <= x5' /\ x5' # x5
      BY <1>18, <2>7, <3>1
    <3>3. Consents!RowsSound'
      BY <3>1, <3>2 DEF Consents!RowsSound
    <3>4. ConsentRows
      BY <1>1, <2>4, <3>1, <3>2, <3>3 DEF ConsentRows
    <3>5. ConsentsKept
      BY <3>2 DEF ConsentsKept
    <3> QED BY <2>4, <3>4, <3>5, ConsentsAnswer
  <2> QED BY <2>5, <2>6, <2>7
<1>23. ASSUME NEW w \in Handlers, Consents!Abandon(w) PROVE Consents!IInv'
  BY <1>4, <1>23 DEF Consents!Abandon
<1> QED BY <1>5, <1>6, <1>7, <1>8, <1>9, <1>10, <1>11, <1>12, <1>13, <1>14,
           <1>15, <1>16, <1>17, <1>19, <1>20, <1>21, <1>22, <1>23
        DEF Consents!Next

-----------------------------------------------------------------------------
(* ConnectorClient: x1 is connector, x2 server, x3 clients, x4 intent, x5  *)
(* credential, x6 overwritten.                                             *)

Servers == [Connectors!Clients -> [version : 0 .. MaxKeys, config : Connectors!Clients]]

(* Rows a step may leave.                                                  *)
ConnectorRows ==
  /\ x1' \in Connectors!Row /\ x2' \in Servers /\ x3' \in Connectors!Clients
  /\ x4' \in Connectors!Retired \cup {None} /\ x5' \in Connectors!Retired \cup {None}
  /\ x6' \in BOOLEAN
  /\ Connectors!Told(x1)'
  /\ \A c \in 1 .. x3' : x2'[c].config <= x3'
  /\ \A pair \in {x4', x5'} \ {None} : Connectors!Held(pair)'
  /\ x6' \/ x1'.key.client = x1'.client

(* What they keep of those before them: clients of their configurations,   *)
(* and the row's line, but under a configuration that no one has heard of. *)
ConnectorKept ==
  /\ x3 <= x3'
  /\ \A c \in 1 .. x3 : x2'[c].config = x2[c].config
  /\ \/ /\ x1'.config = x1.config /\ x1.generation <= x1'.generation
        /\ x1'.generation = x1.generation => Connectors!Line(x1') = Connectors!Line(x1)
        /\ Connectors!Pure(x1)' => Connectors!Line(x1) \subseteq Connectors!Line(x1')
     \/ \E w \in Handlers : step[w] = "u_update" /\ x1'.config = known[w].key.client

LEMMA ConnectorsTypes ==
  ASSUME Connectors!IInv
  PROVE  /\ x1 \in Connectors!Row /\ x2 \in Servers /\ x3 \in Connectors!Clients
         /\ x4 \in Connectors!Retired \cup {None} /\ x5 \in Connectors!Retired \cup {None}
         /\ x6 \in BOOLEAN
         /\ step \in [Handlers -> Connectors!Steps] /\ known \in [Handlers -> Connectors!Context]
         /\ Connectors!Told(x1) /\ Connectors!NewIsUnknown
         /\ \A c \in 1 .. x3 : x2[c].config <= x3
         /\ \A pair \in {x4, x5} \ {None} : Connectors!Held(pair)
         /\ x6 \/ x1.key.client = x1.client
         /\ \A w \in Handlers : Connectors!Given(step[w], known[w])
         /\ x3 \in Nat /\ x3 >= 1
<1>1. x3 \in Connectors!Clients => x3 \in Nat /\ x3 >= 1
  BY BoundsAssumption DEF Connectors!Clients
<1> QED BY <1>1 DEF Connectors!IInv, Connectors!TypeOK, Servers

LEMMA ClientsAreNumbers ==
  ASSUME NEW c \in Connectors!Clients
  PROVE  c \in Nat /\ c >= 1 /\ c <= MaxClients
BY BoundsAssumption DEF Connectors!Clients

(* What a row and a reading are made of.                                   *)
LEMMA ConnectorRow ==
  ASSUME NEW row \in Connectors!Row
  PROVE  /\ row.config \in Connectors!Clients /\ row.client \in Connectors!Clients
         /\ row.key \in Connectors!Key /\ row.generation \in Connectors!Clients
         /\ row.retired \subseteq Connectors!Retired
         /\ Connectors!Line(row) \subseteq Connectors!Retired
         /\ [generation |-> row.generation, client |-> row.client] \in Connectors!Line(row)
         /\ row.retired \subseteq Connectors!Line(row)
<1>1. /\ row.config \in Connectors!Clients /\ row.client \in Connectors!Clients
      /\ row.key \in Connectors!Key /\ row.generation \in Connectors!Clients
      /\ row.retired \subseteq Connectors!Retired
  BY DEF Connectors!Row
<1>2. [generation |-> row.generation, client |-> row.client] \in Connectors!Retired
  BY <1>1 DEF Connectors!Retired
<1> QED BY <1>1, <1>2 DEF Connectors!Line

LEMMA ConnectorContext ==
  ASSUME NEW c \in Connectors!Context
  PROVE  /\ c.row \in Connectors!Row /\ c.key \in Connectors!Key /\ c.generation \in 0 .. MaxClients
         /\ c.key.client \in Connectors!Clients /\ c.key.version \in 0 .. MaxKeys
<1>1. c.row \in Connectors!Row /\ c.key \in Connectors!Key /\ c.generation \in 0 .. MaxClients
  BY DEF Connectors!Context
<1> QED BY <1>1 DEF Connectors!Key

LEMMA ConnectorsNoContext ==
  /\ Connectors!NoContext \in Connectors!Context
  /\ Connectors!NoContext.key = [client |-> 1, version |-> 0]
  /\ Connectors!NoContext.key.client = 1 /\ Connectors!NoContext.generation = 0
<1>1. 1 \in Connectors!Clients /\ 0 \in 0 .. MaxKeys /\ 0 \in 0 .. MaxClients
  BY BoundsAssumption DEF Connectors!Clients
<1>2. PICK k : k = [client |-> 1, version |-> 0]
  OBVIOUS
<1>3. k \in Connectors!Key /\ k.client = 1
  BY <1>1, <1>2 DEF Connectors!Key
<1>4. PICK r : r = [config |-> 1, client |-> 1, key |-> k, generation |-> 1, retired |-> {}]
  OBVIOUS
<1>5. r \in Connectors!Row
  BY <1>1, <1>3, <1>4 DEF Connectors!Row
<1>6. PICK c : c = [row |-> r, key |-> k, generation |-> 0]
  OBVIOUS
<1>7. c \in Connectors!Context /\ c.key = k /\ c.generation = 0
  BY <1>1, <1>3, <1>5, <1>6 DEF Connectors!Context
<1>8. Connectors!NoContext = c
  BY <1>2, <1>4, <1>6 DEF Connectors!NoContext
<1> QED BY <1>2, <1>3, <1>7, <1>8

(* The clients of a line are registered.                                   *)
LEMMA ConnectorsLine ==
  ASSUME NEW row \in Connectors!Row, Connectors!Told(row), NEW old \in Connectors!Line(row),
         x3 \in Nat
  PROVE  old.client \in 1 .. x3 /\ old.client \in Connectors!Clients /\ old.client \in Nat
<1>1. old.client \in Connectors!Clients
  BY ConnectorRow DEF Connectors!Retired
<1>2. old.client \in Nat /\ old.client >= 1
  BY <1>1, ClientsAreNumbers
<1>3. old.client <= x3
  BY DEF Connectors!Told
<1> QED BY <1>1, <1>2, <1>3

(* The row's own line tells what OneConfiguration says.                    *)
LEMMA PureIsOne ==
  Connectors!OneConfiguration <=> Connectors!Pure(x1)
<1>1. PICK now : now = [generation |-> x1.generation, client |-> x1.client]
  OBVIOUS
<1>2. now.client = x1.client /\ Connectors!Line(x1) = x1.retired \cup {now}
  BY <1>1 DEF Connectors!Line
<1>3. {x1.client} \cup {old.client : old \in x1.retired} = {old.client : old \in Connectors!Line(x1)}
  BY <1>2
<1> QED BY <1>3 DEF Connectors!OneConfiguration, Connectors!Pure

(* What is held stays held.                                                *)
LEMMA ConnectorsHeld ==
  ASSUME Connectors!IInv, ConnectorKept, x1' \in Connectors!Row, x3' \in Connectors!Clients,
         NEW pair \in Connectors!Retired, Connectors!Held(pair),
         \A w \in Handlers : step[w] = "u_update" => pair.client # known[w].key.client
  PROVE  Connectors!Held(pair)'
<1>1. /\ pair.client \in Nat /\ pair.client >= 1 /\ pair.client <= x3 /\ x3 \in Nat /\ x3' \in Nat
      /\ x3 <= x3'
  BY ConnectorsTypes, ClientsAreNumbers DEF Connectors!Held, Connectors!Retired, ConnectorKept
<1>2. pair.client <= x3' /\ pair.client \in 1 .. x3
  BY <1>1
<1>3. x2'[pair.client].config = x2[pair.client].config
  BY <1>2 DEF ConnectorKept
<1>4. ASSUME Connectors!Pure(x1)', x2'[pair.client].config = x1'.config
      PROVE  pair \in Connectors!Line(x1')
  <2>1. CASE \E w \in Handlers : step[w] = "u_update" /\ x1'.config = known[w].key.client
    <3>1. PICK w \in Handlers : step[w] = "u_update" /\ x1'.config = known[w].key.client
      BY <2>1
    <3>2. \A d \in 1 .. x3 : x2[d].config = known[w].key.client => d = known[w].key.client
      BY <3>1, ConnectorsTypes DEF Connectors!NewIsUnknown, Connectors!New
    <3> QED BY <1>2, <1>3, <1>4, <3>1, <3>2
  <2>2. CASE /\ x1'.config = x1.config
             /\ Connectors!Pure(x1)' => Connectors!Line(x1) \subseteq Connectors!Line(x1')
    <3>1. Connectors!Line(x1) \subseteq Connectors!Line(x1')
      BY <1>4, <2>2
    <3>2. Connectors!Pure(x1)
      <4>1. SUFFICES ASSUME NEW old \in Connectors!Line(x1) PROVE x2[old.client].config = x1.config
        BY DEF Connectors!Pure
      <4>2. old.client \in 1 .. x3
        BY ConnectorsTypes, ConnectorsLine
      <4>3. x2'[old.client].config = x1'.config
        BY <1>4, <3>1, <4>1 DEF Connectors!Pure
      <4> QED BY <2>2, <4>2, <4>3 DEF ConnectorKept
    <3> QED BY <1>3, <1>4, <2>2, <3>1, <3>2 DEF Connectors!Held
  <2> QED BY <2>1, <2>2 DEF ConnectorKept
<1> QED BY <1>2, <1>4 DEF Connectors!Held

(* A row that was read stays one from before.                              *)
LEMMA ConnectorsEarlier ==
  ASSUME Connectors!IInv, ConnectorKept, x1' \in Connectors!Row, x3' \in Connectors!Clients,
         NEW row \in Connectors!Row, Connectors!Told(row), Connectors!Earlier(row),
         \A w \in Handlers : step[w] = "u_update" => row.config # known[w].key.client
  PROVE  Connectors!Told(row)' /\ Connectors!Earlier(row)'
<1>1. /\ x3 \in Nat /\ x3' \in Nat /\ x3 <= x3' /\ row.config \in Nat /\ row.generation \in Nat
      /\ x1.generation \in Nat /\ x1'.generation \in Nat
      /\ \A old \in Connectors!Line(row) : old.client \in Nat
  BY ConnectorsTypes, ConnectorRow, ClientsAreNumbers DEF ConnectorKept, Connectors!Retired
<1>2. Connectors!Told(row)'
  BY <1>1 DEF Connectors!Told
<1>3. ASSUME row.config = x1'.config
      PROVE  /\ row.generation <= x1'.generation
             /\ row.generation = x1'.generation => Connectors!Line(row) = Connectors!Line(x1')
             /\ Connectors!Pure(x1)' => Connectors!Line(row) \subseteq Connectors!Line(x1')
  <2>1. /\ x1'.config = x1.config /\ x1.generation <= x1'.generation
        /\ x1'.generation = x1.generation => Connectors!Line(x1') = Connectors!Line(x1)
        /\ Connectors!Pure(x1)' => Connectors!Line(x1) \subseteq Connectors!Line(x1')
    BY <1>3 DEF ConnectorKept
  <2>2. /\ row.generation <= x1.generation
        /\ row.generation = x1.generation => Connectors!Line(row) = Connectors!Line(x1)
        /\ Connectors!Pure(x1) => Connectors!Line(row) \subseteq Connectors!Line(x1)
    BY <1>3, <2>1 DEF Connectors!Earlier
  <2>3. row.generation <= x1'.generation
    BY <1>1, <2>1, <2>2
  <2>4. row.generation = x1'.generation => x1'.generation = x1.generation /\ row.generation = x1.generation
    BY <1>1, <2>1, <2>2
  <2>5. Connectors!Pure(x1)' => Connectors!Pure(x1)
    <3>1. SUFFICES ASSUME Connectors!Pure(x1)', NEW old \in Connectors!Line(x1)
                   PROVE  x2[old.client].config = x1.config
      BY DEF Connectors!Pure
    <3>2. old.client \in 1 .. x3
      BY ConnectorsTypes, ConnectorsLine
    <3>3. x2'[old.client].config = x1'.config
      BY <2>1, <3>1 DEF Connectors!Pure
    <3> QED BY <2>1, <3>2, <3>3 DEF ConnectorKept
  <2> QED BY <2>1, <2>2, <2>3, <2>4, <2>5
<1> QED BY <1>2, <1>3 DEF Connectors!Earlier

(* What an invocation has been given stays given.                          *)
LEMMA ConnectorsGiven ==
  ASSUME Connectors!IInv, ConnectorKept, x1' \in Connectors!Row, x3' \in Connectors!Clients,
         NEW x \in Handlers, NEW t, NEW d, t = step[x], d = known[x]
  PROVE  Connectors!Given(t, d)'
<1>1. /\ Connectors!Given(t, d) /\ d \in Connectors!Context
      /\ x3 \in Nat /\ x3' \in Nat /\ x3 <= x3'
  BY ConnectorsTypes, ClientsAreNumbers DEF ConnectorKept
<1>2. /\ d.row \in Connectors!Row /\ d.key.client \in Nat /\ d.key.client >= 1
      /\ d.key.client <= x3 /\ d.row.generation \in Nat /\ d.key.client \in Connectors!Clients
      /\ d.generation \in 0 .. MaxClients
  BY <1>1, ConnectorContext, ConnectorRow, ClientsAreNumbers DEF Connectors!Given
<1>3. d.key.client <= x3' /\ d.key.client \in 1 .. x3
  BY <1>1, <1>2
<1>4. x2'[d.key.client].config = x2[d.key.client].config
  BY <1>3 DEF ConnectorKept
<1>5. ASSUME NEW w \in Handlers, step[w] = "u_update", t # "u_update"
      PROVE  Connectors!Apart(known[w].key.client, t, d)
  BY <1>5, ConnectorsTypes DEF Connectors!NewIsUnknown
<1>6. t \in Connectors!Reads => Connectors!Told(d.row)' /\ Connectors!Earlier(d.row)'
  <2>1. SUFFICES ASSUME t \in Connectors!Reads PROVE Connectors!Told(d.row)' /\ Connectors!Earlier(d.row)'
    OBVIOUS
  <2>2. \A w \in Handlers : step[w] = "u_update" => d.row.config # known[w].key.client
    BY <1>5, <2>1 DEF Connectors!Apart, Connectors!Reads
  <2>3. Connectors!Told(d.row) /\ Connectors!Earlier(d.row)
    BY <1>1, <2>1 DEF Connectors!Given
  <2>4. PICK row : row = d.row
    OBVIOUS
  <2>5. Connectors!Told(row)' /\ Connectors!Earlier(row)'
    BY <1>2, <2>2, <2>3, <2>4, ConnectorsEarlier
  <2> QED BY <2>4, <2>5
<1>7. t = "c_rotate" =>
        d.row.generation < x3' /\ x2'[d.key.client].config = d.row.config
  BY <1>1, <1>2, <1>4 DEF Connectors!Given
<1>8. t = "k_store" =>
        d.generation > 0 /\ Connectors!Held([generation |-> d.generation, client |-> d.key.client])'
  <2>1. SUFFICES ASSUME t = "k_store" 
                 PROVE  d.generation > 0 /\ Connectors!Held([generation |-> d.generation, client |-> d.key.client])'
    OBVIOUS
  <2>2. PICK pair : pair = [generation |-> d.generation, client |-> d.key.client]
    OBVIOUS
  <2>3. d.generation > 0 /\ Connectors!Held(pair)
    BY <1>1, <2>1, <2>2 DEF Connectors!Given
  <2>4. d.generation \in Connectors!Clients
    BY <1>2, <2>3, BoundsAssumption DEF Connectors!Clients
  <2>5. pair \in Connectors!Retired /\ pair.client = d.key.client
    BY <1>2, <2>2, <2>4 DEF Connectors!Retired
  <2>6. \A w \in Handlers : step[w] = "u_update" => pair.client # known[w].key.client
    BY <1>5, <2>1, <2>5 DEF Connectors!Apart
  <2>7. Connectors!Held(pair)'
    BY <2>3, <2>5, <2>6, ConnectorsHeld
  <2> QED BY <2>2, <2>3, <2>7
<1>9. t = "u_update" => x2'[d.key.client].config = d.key.client
  BY <1>1, <1>4 DEF Connectors!Given
<1> QED BY <1>3, <1>6, <1>7, <1>8, <1>9 DEF Connectors!Given

(* An invocation moves, and may write: the others keep what they hold.     *)
LEMMA ConnectorsAwait ==
  ASSUME Connectors!IInv, NEW w \in Handlers, NEW s \in Connectors!Steps,
         NEW c \in Connectors!Context, Connectors!Await(w, s, c), ConnectorRows, ConnectorKept,
         Connectors!Given(s, c)',
         \A k \in Connectors!Clients :
           Connectors!New(k) /\ (\E v \in Handlers \ {w} : step[v] = "u_update" /\ known[v].key.client = k)
             => Connectors!New(k)' /\ Connectors!Apart(k, s, c),
         s = "u_update" =>
           /\ Connectors!New(c.key.client)'
           /\ \A v \in Handlers \ {w} : Connectors!Apart(c.key.client, step[v], known[v])
  PROVE  Connectors!IInv'
<1>1. /\ step \in [Handlers -> Connectors!Steps] /\ known \in [Handlers -> Connectors!Context]
      /\ Connectors!NewIsUnknown
  BY ConnectorsTypes
<1>2. /\ step' = [step EXCEPT ![w] = s] /\ known' = [known EXCEPT ![w] = c]
  BY DEF Connectors!Await
<1>3. /\ step'[w] = s /\ known'[w] = c
      /\ \A x \in Handlers \ {w} : step'[x] = step[x] /\ known'[x] = known[x]
  BY <1>1, <1>2
<1>4. Connectors!TypeOK'
  <2>1. step' \in [Handlers -> Connectors!Steps] /\ known' \in [Handlers -> Connectors!Context]
    BY <1>1, <1>2
  <2> QED BY <2>1 DEF Connectors!TypeOK, ConnectorRows, Servers
<1>5. ASSUME NEW x \in Handlers PROVE Connectors!Given(step[x], known[x])'
  <2>1. CASE x = w
    <3>1. Connectors!Given(s, c)'
      OBVIOUS
    <3>2. step'[x] = s /\ known'[x] = c
      BY <1>3, <2>1
    <3> QED BY <3>1, <3>2
  <2>2. CASE x # w
    <3>1. PICK t, d : t = step[x] /\ d = known[x]
      OBVIOUS
    <3>2. Connectors!Given(t, d)'
      BY <3>1, ConnectorsGiven DEF ConnectorRows
    <3>3. step'[x] = t /\ known'[x] = d
      BY <1>3, <2>2, <3>1
    <3> QED BY <3>2, <3>3
  <2> QED BY <2>1, <2>2
<1>6. Connectors!NewIsUnknown'
  <2>1. SUFFICES ASSUME NEW x \in Handlers, step'[x] = "u_update"
                 PROVE  /\ Connectors!New(known[x].key.client)'
                        /\ \A v \in Handlers \ {x} : Connectors!Apart(known'[x].key.client, step'[v], known'[v])
    BY DEF Connectors!NewIsUnknown, Connectors!Apart
  <2>2. CASE x = w
    <3>1. s = "u_update" /\ known'[x] = c
      BY <1>3, <2>1, <2>2
    <3>2. Connectors!New(c.key.client)'
      BY <3>1
    <3>3. PICK k : k = c.key.client
      OBVIOUS
    <3>4. Connectors!New(k)' /\ known'[x].key.client = k
      BY <3>1, <3>2, <3>3
    <3>5. \A v \in Handlers \ {x} : Connectors!Apart(k, step'[v], known'[v])
      BY <1>3, <2>2, <3>1, <3>3
    <3> QED BY <3>4, <3>5
  <2>3. CASE x # w
    <3>1. PICK k : k = known[x].key.client
      OBVIOUS
    <3>2. step[x] = "u_update" /\ known'[x].key.client = k
      BY <1>3, <2>1, <2>3, <3>1
    <3>3. k \in Connectors!Clients
      BY <1>1, <3>1, ConnectorContext
    <3>4. Connectors!New(k) /\ \A v \in Handlers \ {x} : Connectors!Apart(k, step[v], known[v])
      BY <1>1, <3>1, <3>2 DEF Connectors!NewIsUnknown
    <3>5. Connectors!New(k)' /\ Connectors!Apart(k, s, c)
      BY <2>3, <3>1, <3>2, <3>3, <3>4
    <3>6. \A v \in Handlers \ {x} : Connectors!Apart(k, step'[v], known'[v])
      BY <1>3, <3>4, <3>5
    <3> QED BY <3>2, <3>5, <3>6
  <2> QED BY <2>2, <2>3
<1>7. \A pair \in {x4', x5'} \ {None} : Connectors!Held(pair)'
  BY DEF ConnectorRows
<1> QED BY <1>4, <1>5, <1>6, <1>7 DEF Connectors!IInv, ConnectorRows

LEMMA ConnectorsSame ==
  ASSUME Connectors!IInv, UNCHANGED <<x1, x2, x3, x4, x5, x6>>
  PROVE  /\ ConnectorRows /\ ConnectorKept
         /\ \A k : Connectors!New(k) => Connectors!New(k)'
<1>1. Connectors!Told(x1)'
  BY ConnectorsTypes DEF Connectors!Told
<1>2. \A pair \in {x4', x5'} \ {None} : Connectors!Held(pair)'
  BY ConnectorsTypes DEF Connectors!Held, Connectors!Pure
<1>3. x1.generation \in Nat
  BY ConnectorsTypes, ConnectorRow, ClientsAreNumbers
<1>4. ConnectorKept
  BY <1>3, ConnectorsTypes DEF ConnectorKept
<1> QED BY <1>1, <1>2, <1>4, ConnectorsTypes DEF ConnectorRows, Connectors!New

(* An invocation goes on having written nothing: it has the row there is,  *)
(* or the one that it has read.                                            *)
LEMMA ConnectorsMove ==
  ASSUME Connectors!IInv, NEW w \in Handlers, NEW s \in Connectors!Steps \ {"u_update"},
         NEW c \in Connectors!Context, Connectors!Await(w, s, c),
         UNCHANGED <<x1, x2, x3, x4, x5, x6>>, Connectors!Given(s, c),
         c.key.client \in {1, known[w].key.client},
         s \in Connectors!Reads => c.row = x1 \/ (c.row = known[w].row /\ step[w] \in Connectors!Reads)
  PROVE  Connectors!IInv'
<1>1. Connectors!Given(s, c)'
  BY DEF Connectors!Given, Connectors!Told, Connectors!Earlier, Connectors!Held, Connectors!Pure
<1>2. ASSUME NEW k \in Connectors!Clients, Connectors!New(k),
             NEW v \in Handlers \ {w}, step[v] = "u_update", known[v].key.client = k
      PROVE  Connectors!New(k)' /\ Connectors!Apart(k, s, c)
  <2>1. Connectors!New(k)'
    BY <1>2, ConnectorsSame
  <2>2. Connectors!Apart(k, step[w], known[w])
    BY <1>2, ConnectorsTypes DEF Connectors!NewIsUnknown
  <2>3. k > 1 /\ k \in Nat
    BY <1>2, ClientsAreNumbers DEF Connectors!New
  <2>4. c.key.client # k
    BY <2>2, <2>3 DEF Connectors!Apart
  <2>5. s \in Connectors!Reads => c.row.config # k /\ \A old \in Connectors!Line(c.row) : old.client # k
    <3>1. c.row = x1 => c.row.config # k /\ \A old \in Connectors!Line(c.row) : old.client # k
      BY <1>2 DEF Connectors!New
    <3> QED BY <2>2, <3>1 DEF Connectors!Apart
  <2> QED BY <2>1, <2>4, <2>5 DEF Connectors!Apart
<1> QED BY <1>1, <1>2, ConnectorsSame, ConnectorsAwait

LEMMA ConnectorsInit == Connectors!Init => Connectors!IInv
<1> SUFFICES ASSUME Connectors!Init PROVE Connectors!IInv
  OBVIOUS
<1>1. PICK version \in {0, 1} :
        /\ x1 = [config |-> 1, client |-> 1, key |-> [client |-> 1, version |-> version],
                 generation |-> 1, retired |-> {}]
        /\ x2 = [c \in Connectors!Clients |-> [version |-> version, config |-> 1]]
  BY DEF Connectors!Init
<1>2. /\ x3 = 1 /\ x4 = None /\ x5 = None /\ x6 = FALSE
      /\ step = [w \in Handlers |-> "idle"] /\ known = [w \in Handlers |-> Connectors!NoContext]
  BY DEF Connectors!Init
<1>3. 1 \in Connectors!Clients /\ version \in 0 .. MaxKeys
  BY BoundsAssumption DEF Connectors!Clients
<1>4. PICK k : k = [client |-> 1, version |-> version]
  OBVIOUS
<1>5. k \in Connectors!Key /\ k.client = 1
  BY <1>3, <1>4 DEF Connectors!Key
<1>6. /\ x1 \in Connectors!Row /\ x1.config = 1 /\ x1.client = 1 /\ x1.key = k
      /\ x1.generation = 1 /\ x1.retired = {}
  BY <1>1, <1>3, <1>4, <1>5 DEF Connectors!Row
<1>7. PICK pair : pair = [generation |-> 1, client |-> 1]
  OBVIOUS
<1>8. Connectors!Line(x1) = {pair} /\ pair.client = 1
  BY <1>6, <1>7 DEF Connectors!Line
<1>9. Connectors!Told(x1)
  BY <1>2, <1>6, <1>8 DEF Connectors!Told
<1>10. x2 \in Servers /\ \A c \in Connectors!Clients : x2[c].config = 1
  BY <1>1, <1>3 DEF Servers
<1>11. Connectors!TypeOK
  <2>1. step \in [Handlers -> Connectors!Steps]
    BY <1>2 DEF Connectors!Steps
  <2>2. known \in [Handlers -> Connectors!Context]
    BY <1>2, ConnectorsNoContext
  <2> QED BY <1>2, <1>3, <1>6, <1>10, <2>1, <2>2 DEF Connectors!TypeOK, Servers
<1>12. \A c \in 1 .. x3 : x2[c].config <= x3
  BY <1>2, <1>3, <1>10
<1>13. ASSUME NEW w \in Handlers PROVE step[w] = "idle" /\ Connectors!Given(step[w], known[w])
  <2>1. step[w] = "idle" /\ known[w] = Connectors!NoContext
    BY <1>2
  <2> QED BY <1>2, <2>1, ConnectorsNoContext DEF Connectors!Given, Connectors!Reads
<1>14. Connectors!NewIsUnknown
  BY <1>13 DEF Connectors!NewIsUnknown
<1>15. x1.key.client = x1.client
  BY <1>5, <1>6
<1> QED BY <1>2, <1>9, <1>11, <1>12, <1>13, <1>14, <1>15 DEF Connectors!IInv

(* A step that leaves the row's line and the configurations of clients.    *)
LEMMA ConnectorsSteady ==
  ASSUME Connectors!IInv, x1' \in Connectors!Row, x2' \in Servers,
         x1'.config = x1.config, x1'.generation = x1.generation,
         Connectors!Line(x1') = Connectors!Line(x1), x1'.retired = x1.retired,
         \A c \in Connectors!Clients : x2'[c].config = x2[c].config, x3' = x3
  PROVE  /\ ConnectorKept /\ Connectors!Told(x1)'
         /\ \A c \in 1 .. x3' : x2'[c].config <= x3'
         /\ \A pair \in Connectors!Retired : Connectors!Held(pair) => Connectors!Held(pair)'
         /\ \A k : /\ Connectors!New(k)
                   /\ \A pair \in {x4', x5'} \ {None} : pair.client # k
                   => Connectors!New(k)'
<1>1. /\ x1.generation \in Nat /\ x3 \in Nat /\ 1 .. x3 \subseteq Connectors!Clients
      /\ x3 <= x3' /\ x1.generation <= x1'.generation
  <2>1. x3 \in Nat /\ x3 \in Connectors!Clients /\ x1 \in Connectors!Row
    BY ConnectorsTypes
  <2>2. x1.generation \in Nat
    BY <2>1, ConnectorRow, ClientsAreNumbers
  <2>3. 1 .. x3 \subseteq Connectors!Clients
    BY <2>1, BoundsAssumption DEF Connectors!Clients
  <2> QED BY <2>1, <2>2, <2>3
<1>2. ConnectorKept
  BY <1>1 DEF ConnectorKept
<1>3. Connectors!Told(x1)'
  BY ConnectorsTypes DEF Connectors!Told
<1>4. \A c \in 1 .. x3' : x2'[c].config <= x3'
  BY <1>1, ConnectorsTypes
<1>5. ASSUME NEW pair \in Connectors!Retired, Connectors!Held(pair) PROVE Connectors!Held(pair)'
  <2>1. Connectors!Pure(x1)' => Connectors!Pure(x1)
    <3>1. SUFFICES ASSUME Connectors!Pure(x1)', NEW old \in Connectors!Line(x1)
                   PROVE  x2[old.client].config = x1.config
      BY DEF Connectors!Pure
    <3>2. old.client \in Connectors!Clients
      BY ConnectorsTypes, ConnectorsLine
    <3>3. x2'[old.client].config = x1'.config
      BY <3>1 DEF Connectors!Pure
    <3> QED BY <3>2, <3>3
  <2>2. pair.client \in Connectors!Clients
    BY DEF Connectors!Retired
  <2> QED BY <1>5, <2>1, <2>2 DEF Connectors!Held
<1>6. ASSUME NEW k, Connectors!New(k), \A pair \in {x4', x5'} \ {None} : pair.client # k
      PROVE  Connectors!New(k)'
  <2>1. \A d \in 1 .. x3' : x2'[d].config = k => d = k
    BY <1>1, <1>6 DEF Connectors!New
  <2>2. k > 1 /\ x1'.config # k
    BY <1>6 DEF Connectors!New
  <2>3. \A old \in Connectors!Line(x1') \cup ({x4', x5'} \ {None}) : old.client # k
    BY <1>6 DEF Connectors!New
  <2> QED BY <2>1, <2>2, <2>3 DEF Connectors!New
<1> QED BY <1>2, <1>3, <1>4, <1>5, <1>6

(* Another client.                                                         *)
LEMMA ConnectorsRegister ==
  ASSUME Connectors!IInv, x3 < MaxClients, x3' = x3 + 1, NEW version \in {0, 1}, NEW config \in Nat,
         config >= 1, config <= x3 + 1,
         x2' = [x2 EXCEPT ![x3'] = [version |-> version, config |-> config]],
         UNCHANGED <<x1, x4, x5, x6>>
  PROVE  /\ ConnectorRows /\ ConnectorKept /\ x2'[x3'].config = config
         /\ x3' \in Connectors!Clients /\ x3' \in Nat
         /\ \A d \in 1 .. x3' : x2'[d].config = config \/ (d \in 1 .. x3 /\ x2'[d].config = x2[d].config)
         /\ \A k \in Nat : Connectors!New(k) /\ config # k => Connectors!New(k)'
<1>1. /\ x3 \in Nat /\ x3 >= 1 /\ x2 \in Servers /\ x1 \in Connectors!Row
  BY ConnectorsTypes
<1>2. PICK n : n = x3 + 1
  OBVIOUS
<1>3. /\ n \in Connectors!Clients /\ n \in Nat /\ config \in Connectors!Clients /\ x3' = n
      /\ x3 <= n /\ \A d \in 1 .. n : d # n => d \in 1 .. x3
      /\ \A d \in 1 .. x3 : d # n /\ d \in Connectors!Clients
  BY <1>1, <1>2, BoundsAssumption DEF Connectors!Clients
<1>4. PICK row : row = [version |-> version, config |-> config]
  OBVIOUS
<1>5. row \in [version : 0 .. MaxKeys, config : Connectors!Clients] /\ row.config = config
  <2>1. version \in 0 .. MaxKeys
    BY BoundsAssumption
  <2> QED BY <1>3, <1>4, <2>1
<1>6. /\ x2' \in Servers /\ x2'[n].config = config
      /\ \A d \in 1 .. x3 : x2'[d] = x2[d]
  BY <1>1, <1>3, <1>4, <1>5 DEF Servers
<1>7. x1.generation \in Nat /\ x1.config \in Nat
      /\ \A old \in Connectors!Line(x1) : old.client \in Nat
  BY <1>1, ConnectorsTypes, ConnectorRow, ClientsAreNumbers, ConnectorsLine
<1>8. ConnectorKept
  BY <1>3, <1>6, <1>7 DEF ConnectorKept
<1>9. Connectors!Told(x1)'
  BY <1>1, <1>3, <1>7, ConnectorsTypes DEF Connectors!Told
<1>10. \A d \in 1 .. x3' : x2'[d].config = config \/ (d \in 1 .. x3 /\ x2'[d].config = x2[d].config)
  BY <1>3, <1>6
<1>11. \A d \in 1 .. x3' : x2'[d].config <= x3'
  <2>1. SUFFICES ASSUME NEW d \in 1 .. x3' PROVE x2'[d].config <= n
    BY <1>3
  <2>2. CASE x2'[d].config = config
    BY <1>2, <2>2
  <2>3. CASE d \in 1 .. x3 /\ x2'[d].config = x2[d].config
    <3>1. x2[d].config <= x3 /\ x2[d].config \in Nat
      <4>1. x2[d].config \in Connectors!Clients
        BY <1>1, <1>3, <2>3 DEF Servers
      <4> QED BY <2>3, <4>1, ConnectorsTypes, ClientsAreNumbers
    <3> QED BY <1>1, <1>3, <2>3, <3>1
  <2> QED BY <1>10, <2>2, <2>3
<1>12. ASSUME NEW pair \in {x4, x5} \ {None} PROVE Connectors!Held(pair)'
  <2>1. pair \in Connectors!Retired /\ Connectors!Held(pair)
    BY ConnectorsTypes
  <2>2. \A w \in Handlers : step[w] = "u_update" => pair.client # known[w].key.client
    BY ConnectorsTypes DEF Connectors!NewIsUnknown, Connectors!New
  <2> QED BY <1>1, <1>3, <1>8, <2>1, <2>2, ConnectorsHeld
<1>13. ConnectorRows
  BY <1>3, <1>6, <1>9, <1>11, <1>12, ConnectorsTypes DEF ConnectorRows
<1>14. ASSUME NEW k \in Nat, Connectors!New(k), config # k PROVE Connectors!New(k)'
  <2>1. \A d \in 1 .. x3' : x2'[d].config = k => d = k
    BY <1>10, <1>14 DEF Connectors!New
  <2> QED BY <1>14, <2>1 DEF Connectors!New
<1> QED BY <1>3, <1>6, <1>8, <1>10, <1>13, <1>14

(* An invocation writes and drops what it knows.                           *)
LEMMA ConnectorsEnds ==
  ASSUME Connectors!IInv, NEW w \in Handlers, NEW s \in {"idle", "i_store", "u_revoke"},
         NEW c \in Connectors!Context, c.key.client = 1, Connectors!Await(w, s, c),
         ConnectorRows, ConnectorKept,
         \A k \in Connectors!Clients :
           Connectors!New(k) /\ (\E v \in Handlers \ {w} : step[v] = "u_update" /\ known[v].key.client = k)
             => Connectors!New(k)'
  PROVE  Connectors!IInv'
<1>1. s \in Connectors!Steps /\ s \notin Connectors!Reads /\ s \notin {"c_rotate", "k_store", "u_update"}
  BY DEF Connectors!Steps, Connectors!Reads
<1>2. Connectors!Given(s, c)'
  <2>1. 1 <= x3'
    BY ClientsAreNumbers DEF ConnectorRows
  <2> QED BY <1>1, <2>1 DEF Connectors!Given
<1>3. ASSUME NEW k \in Connectors!Clients, Connectors!New(k) PROVE Connectors!Apart(k, s, c)
  <2>1. k > 1 /\ k \in Nat
    BY <1>3, ClientsAreNumbers DEF Connectors!New
  <2> QED BY <1>1, <2>1 DEF Connectors!Apart
<1> QED BY <1>1, <1>2, <1>3, ConnectorsAwait

LEMMA ConnectorsEnsured ==
  ASSUME NEW w, NEW g \in 0 .. MaxClients, Connectors!Ensured(w, g)
  PROVE  \E c \in Connectors!Context : c.key.client = 1 /\ Connectors!Await(w, "i_store", c)
<1>1. PICK c : c = [Connectors!NoContext EXCEPT !.generation = g]
  OBVIOUS
<1>2. c \in Connectors!Context /\ c.key = Connectors!NoContext.key
  BY <1>1, ConnectorsNoContext DEF Connectors!Context
<1> QED BY <1>1, <1>2, ConnectorsNoContext DEF Connectors!Ensured

LEMMA ConnectorsStep == ASSUME Connectors!IInv, Connectors!Next PROVE Connectors!IInv'
<1> USE DEF Connectors!local, Connectors!remote
<1>1. /\ x1 \in Connectors!Row /\ x2 \in Servers /\ x3 \in Connectors!Clients
      /\ x4 \in Connectors!Retired \cup {None} /\ x5 \in Connectors!Retired \cup {None}
      /\ x6 \in BOOLEAN
      /\ step \in [Handlers -> Connectors!Steps] /\ known \in [Handlers -> Connectors!Context]
      /\ Connectors!Told(x1) /\ Connectors!NewIsUnknown
      /\ \A w \in Handlers : Connectors!Given(step[w], known[w])
      /\ x3 \in Nat /\ x3 >= 1
  BY ConnectorsTypes
<1>2. /\ x1.generation \in Nat /\ x1.generation \in Connectors!Clients /\ x1.config \in Nat
      /\ Connectors!Earlier(x1) /\ x1.generation \in 0 .. MaxClients
  <2>1. /\ x1.generation \in Nat /\ x1.generation \in Connectors!Clients /\ x1.config \in Nat
        /\ x1.generation <= MaxClients
    BY <1>1, ConnectorRow, ClientsAreNumbers
  <2> QED BY <2>1, BoundsAssumption DEF Connectors!Earlier
<1>3. ASSUME NEW w \in Handlers
      PROVE  /\ known[w] \in Connectors!Context /\ known[w].row \in Connectors!Row
             /\ known[w].generation \in 0 .. MaxClients
             /\ known[w].key.client \in Connectors!Clients /\ known[w].key.client \in Nat
             /\ known[w].key.client >= 1 /\ known[w].key.client <= x3
             /\ known[w].row.generation \in 0 .. MaxClients
             /\ known[w].row.generation \in Nat
  <2>1. known[w] \in Connectors!Context /\ Connectors!Given(step[w], known[w])
    BY <1>1
  <2>2. /\ known[w].row \in Connectors!Row /\ known[w].generation \in 0 .. MaxClients
        /\ known[w].key.client \in Connectors!Clients
    BY <2>1, ConnectorContext
  <2>3. known[w].row.generation \in Connectors!Clients
    BY <2>2, ConnectorRow
  <2>4. known[w].row.generation \in Nat /\ known[w].row.generation <= MaxClients
    BY <2>3, ClientsAreNumbers
  <2>5. known[w].key.client <= x3
    BY <2>1 DEF Connectors!Given
  <2> QED BY <2>1, <2>2, <2>4, <2>5, ClientsAreNumbers, BoundsAssumption
<1>4. ASSUME NEW w \in Handlers, Connectors!Answer(w), UNCHANGED <<x1, x2, x3, x4, x5, x6>>
      PROVE  Connectors!IInv'
  <2>1. Connectors!Await(w, "idle", Connectors!NoContext)
    BY <1>4 DEF Connectors!Answer
  <2> QED BY <1>4, <2>1, ConnectorsSame, ConnectorsNoContext, ConnectorsEnds
<1>5. ASSUME NEW w \in Handlers, NEW g \in 0 .. MaxClients, Connectors!Ensured(w, g),
             UNCHANGED <<x1, x2, x3, x4, x5, x6>>
      PROVE  Connectors!IInv'
  <2>1. PICK c \in Connectors!Context : c.key.client = 1 /\ Connectors!Await(w, "i_store", c)
    BY <1>5, ConnectorsEnsured
  <2> QED BY <1>5, <2>1, ConnectorsSame, ConnectorsEnds
<1>6. ASSUME NEW w \in Handlers, NEW s \in Connectors!Reads \ {"c_rotate"}, Connectors!Goto(w, s),
             step[w] \in Connectors!Reads, UNCHANGED <<x1, x2, x3, x4, x5, x6>>
      PROVE  Connectors!IInv'
  <2>1. PICK c : c = known[w]
    OBVIOUS
  <2>2. Connectors!Await(w, s, c) /\ c \in Connectors!Context
    BY <1>1, <1>6, <2>1 DEF Connectors!Goto
  <2>3. s \in Connectors!Steps \ {"u_update"} /\ s \notin {"c_rotate", "k_store"}
    BY DEF Connectors!Reads, Connectors!Steps
  <2>4. Connectors!Given(step[w], c)
    BY <1>1, <2>1
  <2>5. Connectors!Given(s, c)
    BY <1>6, <2>3, <2>4 DEF Connectors!Given
  <2> QED BY <1>6, <2>1, <2>2, <2>3, <2>5, ConnectorsMove
<1>7. ASSUME NEW w \in Handlers, Connectors!EnsureBegin(w) PROVE Connectors!IInv'
  <2>1. UNCHANGED <<x1, x2, x3, x4, x5, x6>> /\ step[w] = "idle"
    BY <1>7 DEF Connectors!EnsureBegin
  <2>2. CASE Connectors!Ensured(w, x1.generation)
    BY <1>2, <1>5, <2>1, <2>2
  <2>3. ASSUME NEW s \in {"c_metadata", "c_read"},
               Connectors!Await(w, s, [Connectors!NoContext EXCEPT !.row = x1])
        PROVE  Connectors!IInv'
    <3>1. PICK c : c = [Connectors!NoContext EXCEPT !.row = x1]
      OBVIOUS
    <3>2. c \in Connectors!Context /\ c.row = x1 /\ c.key = Connectors!NoContext.key
      BY <1>1, <3>1, ConnectorsNoContext DEF Connectors!Context
    <3>3. c.key.client = 1
      BY <3>2, ConnectorsNoContext
    <3>4. Connectors!Given(s, c)
      BY <1>1, <1>2, <3>2, <3>3 DEF Connectors!Given
    <3>5. s \in Connectors!Steps \ {"u_update"}
      BY DEF Connectors!Steps
    <3> QED BY <2>1, <2>3, <3>1, <3>2, <3>3, <3>4, <3>5, ConnectorsMove
  <2> QED BY <1>7, <2>2, <2>3 DEF Connectors!EnsureBegin
<1>8. ASSUME NEW w \in Handlers, Connectors!ReadRegistration(w) PROVE Connectors!IInv'
  <2>1. /\ UNCHANGED <<x1, x2, x3, x4, x5, x6>> /\ step[w] = "c_read"
        /\ \/ Connectors!Answer(w) \/ Connectors!Ensured(w, known[w].row.generation)
           \/ Connectors!Goto(w, "c_metadata")
    BY <1>8 DEF Connectors!ReadRegistration
  <2>2. step[w] \in Connectors!Reads /\ "c_metadata" \in Connectors!Reads \ {"c_rotate"}
    BY <2>1 DEF Connectors!Reads
  <2> QED BY <1>3, <1>4, <1>5, <1>6, <2>1, <2>2
<1>9. ASSUME NEW w \in Handlers, Connectors!FetchMetadata(w) PROVE Connectors!IInv'
  <2>1. /\ UNCHANGED <<x1, x2, x3, x4, x5, x6>> /\ step[w] = "c_metadata"
        /\ Connectors!Goto(w, "c_put") \/ Connectors!Goto(w, "c_register")
    BY <1>9 DEF Connectors!FetchMetadata
  <2>2. step[w] \in Connectors!Reads /\ "c_put" \in Connectors!Reads \ {"c_rotate"}
        /\ "c_register" \in Connectors!Reads \ {"c_rotate"}
    BY <2>1 DEF Connectors!Reads
  <2> QED BY <1>6, <2>1, <2>2
<1>10. ASSUME NEW w \in Handlers, Connectors!UpdateRegistration(w) PROVE Connectors!IInv'
  <2>1. UNCHANGED <<x1, x3, x4, x5, x6>> /\ step[w] = "c_put"
    BY <1>10 DEF Connectors!UpdateRegistration
  <2>2. step[w] \in Connectors!Reads /\ "c_register" \in Connectors!Reads \ {"c_rotate"}
    BY <2>1 DEF Connectors!Reads
  <2>3. CASE Connectors!Goto(w, "c_register") /\ UNCHANGED x2
    BY <1>6, <2>1, <2>2, <2>3
  <2>4. CASE ~(Connectors!Goto(w, "c_register") /\ UNCHANGED x2)
    <3>1. PICK key : key = known[w].row.key
      OBVIOUS
    <3>2. PICK version \in {key.version, key.version + 1} \cap 1 .. MaxKeys :
            /\ x2' = [x2 EXCEPT ![key.client].version = version]
            /\ IF key.client = known[w].row.client
               THEN Connectors!Await(w, "c_save", [known[w] EXCEPT !.key =
                                            [client |-> key.client, version |-> version]])
               ELSE Connectors!Answer(w)
      BY <1>10, <2>4, <3>1 DEF Connectors!UpdateRegistration
    <3>3. key \in Connectors!Key
      BY <1>3, <3>1, ConnectorRow
    <3>4. key.client \in Connectors!Clients /\ version \in 0 .. MaxKeys
      BY <3>2, <3>3, BoundsAssumption DEF Connectors!Key
    <3>5. x2' \in Servers /\ \A c \in Connectors!Clients : x2'[c].config = x2[c].config
      BY <1>1, <3>2, <3>4 DEF Servers
    <3>6. /\ ConnectorKept /\ Connectors!Told(x1)'
          /\ \A c \in 1 .. x3' : x2'[c].config <= x3'
          /\ \A pair \in Connectors!Retired : Connectors!Held(pair) => Connectors!Held(pair)'
          /\ \A k : /\ Connectors!New(k)
                    /\ \A pair \in {x4', x5'} \ {None} : pair.client # k
                    => Connectors!New(k)'
      BY <1>1, <2>1, <3>5, ConnectorsSteady
    <3>7. \A k : Connectors!New(k) => Connectors!New(k)'
      BY <2>1, <3>6 DEF Connectors!New
    <3>8. \A pair \in {x4', x5'} \ {None} : Connectors!Held(pair)'
      BY <2>1, <3>6, ConnectorsTypes
    <3>9. ConnectorRows
      BY <2>1, <3>5, <3>6, <3>8, ConnectorsTypes DEF ConnectorRows
    <3>10. CASE key.client # known[w].row.client
      <4>1. Connectors!Await(w, "idle", Connectors!NoContext)
        BY <3>2, <3>10 DEF Connectors!Answer
      <4> QED BY <3>6, <3>7, <3>9, <4>1, ConnectorsNoContext, ConnectorsEnds
    <3>11. CASE key.client = known[w].row.client
      <4>1. PICK own : own = [client |-> key.client, version |-> version]
        OBVIOUS
      <4>2. own \in Connectors!Key /\ own.client = key.client
        BY <3>4, <4>1 DEF Connectors!Key
      <4>3. PICK c : c = [known[w] EXCEPT !.key = own]
        OBVIOUS
      <4>4. c \in Connectors!Context /\ c.key = own /\ c.row = known[w].row
        BY <1>3, <4>2, <4>3 DEF Connectors!Context
      <4>5. PICK d, row : d = known[w] /\ row = d.row
        OBVIOUS
      <4>6. [generation |-> row.generation, client |-> row.client] \in Connectors!Line(row)
        BY DEF Connectors!Line
      <4>7. Connectors!Given("c_put", d)' /\ Connectors!Given("c_put", d)
        <5>1. PICK t : t = step[w]
          OBVIOUS
        <5>2. Connectors!Given(t, d)'
          BY <1>1, <2>1, <3>6, <4>5, <5>1, ConnectorsGiven
        <5> QED BY <1>1, <2>1, <4>5, <5>1, <5>2
      <4>8. Connectors!Told(row)' /\ Connectors!Earlier(row)' /\ Connectors!Told(row)
        BY <2>1, <2>2, <4>5, <4>7 DEF Connectors!Given
      <4>9. c.key.client = row.client /\ row.client <= x3 /\ c.row = row
        BY <3>11, <4>2, <4>4, <4>5, <4>6, <4>8 DEF Connectors!Told
      <4>10. Connectors!Given("c_save", c)'
        <5>1. c.key.client <= x3'
          BY <2>1, <4>9
        <5> QED BY <4>8, <4>9, <5>1 DEF Connectors!Given
      <4>11. ASSUME NEW k \in Connectors!Clients, Connectors!New(k),
                    NEW v \in Handlers \ {w}, step[v] = "u_update", known[v].key.client = k
             PROVE  Connectors!New(k)' /\ Connectors!Apart(k, "c_save", c)
        <5>1. Connectors!Apart(k, step[w], known[w])
          BY <1>1, <4>11 DEF Connectors!NewIsUnknown
        <5>2. row.config # k /\ \A old \in Connectors!Line(row) : old.client # k
          BY <2>2, <4>5, <5>1 DEF Connectors!Apart
        <5>3. row.client # k
          BY <4>6, <5>2
        <5> QED BY <3>7, <4>9, <4>11, <5>2, <5>3 DEF Connectors!Apart
      <4>12. Connectors!Await(w, "c_save", c) /\ "c_save" \in Connectors!Steps
        BY <3>2, <3>11, <4>1, <4>3 DEF Connectors!Steps
      <4> QED BY <3>6, <3>9, <4>4, <4>10, <4>11, <4>12, ConnectorsAwait
    <3> QED BY <3>10, <3>11
  <2> QED BY <2>3, <2>4
<1>11. ASSUME NEW w \in Handlers, Connectors!SaveRegistration(w) PROVE Connectors!IInv'
  <2>1. /\ x1' = [x1 EXCEPT !.key = known[w].key] /\ x6' = (known[w].key.client # x1.client)
        /\ Connectors!Ensured(w, known[w].row.generation) /\ UNCHANGED <<x2, x3, x4, x5>>
    BY <1>11 DEF Connectors!SaveRegistration
  <2>2. PICK key : key = known[w].key
    OBVIOUS
  <2>3. key \in Connectors!Key
    BY <1>3, <2>2, ConnectorContext
  <2>4. x1' \in Connectors!Row
    BY <1>1, <2>1, <2>2, <2>3 DEF Connectors!Row
  <2>5. /\ x1'.config = x1.config /\ x1'.client = x1.client /\ x1'.key = key
        /\ x1'.generation = x1.generation /\ x1'.retired = x1.retired
    BY <1>1, <2>1, <2>2 DEF Connectors!Row
  <2>6. Connectors!Line(x1') = Connectors!Line(x1)
    BY <2>5 DEF Connectors!Line
  <2>7. /\ ConnectorKept /\ Connectors!Told(x1)'
        /\ \A c \in 1 .. x3' : x2'[c].config <= x3'
        /\ \A pair \in Connectors!Retired : Connectors!Held(pair) => Connectors!Held(pair)'
        /\ \A k : /\ Connectors!New(k)
                  /\ \A pair \in {x4', x5'} \ {None} : pair.client # k
                  => Connectors!New(k)'
    BY <1>1, <2>1, <2>4, <2>5, <2>6, ConnectorsSteady
  <2>8. \A k : Connectors!New(k) => Connectors!New(k)'
    BY <2>1, <2>7 DEF Connectors!New
  <2>9. \A pair \in {x4', x5'} \ {None} : Connectors!Held(pair)'
    BY <2>1, <2>7, ConnectorsTypes
  <2>10. x6' \in BOOLEAN /\ (x6' \/ x1'.key.client = x1'.client)
    BY <2>1, <2>2, <2>5
  <2>11. ConnectorRows
    BY <1>1, <2>1, <2>4, <2>7, <2>9, <2>10 DEF ConnectorRows
  <2>12. PICK c \in Connectors!Context : c.key.client = 1 /\ Connectors!Await(w, "i_store", c)
    BY <1>3, <2>1, ConnectorsEnsured
  <2> QED BY <2>7, <2>8, <2>11, <2>12, ConnectorsEnds
<1>12. ASSUME NEW w \in Handlers, Connectors!RegisterReplacement(w) PROVE Connectors!IInv'
  <2>1. PICK d, row : d = known[w] /\ row = d.row
    OBVIOUS
  <2>2. PICK version \in {0, 1} :
          /\ x3 < MaxClients /\ x3' = x3 + 1
          /\ x2' = [x2 EXCEPT ![x3'] = [version |-> version, config |-> row.config]]
          /\ Connectors!Await(w, "c_rotate", [d EXCEPT !.key = [client |-> x3', version |-> version]])
    BY <1>12, <2>1 DEF Connectors!RegisterReplacement, Connectors!Register
  <2>3. UNCHANGED <<x1, x4, x5, x6>> /\ step[w] = "c_register" /\ step[w] \in Connectors!Reads
        /\ "c_rotate" \in Connectors!Reads /\ "c_rotate" \in Connectors!Steps
    BY <1>12 DEF Connectors!RegisterReplacement, Connectors!Reads, Connectors!Steps
  <2>4. d \in Connectors!Context /\ row \in Connectors!Row /\ Connectors!Given("c_register", d)
    BY <1>1, <1>3, <2>1, <2>3
  <2>5. Connectors!Told(row) /\ Connectors!Earlier(row)
    BY <2>1, <2>3, <2>4 DEF Connectors!Given
  <2>6. /\ row.config \in Nat /\ row.config >= 1 /\ row.config <= x3 /\ row.config <= x3 + 1
        /\ row.generation \in Nat /\ row.generation <= x3
    <3>1. row.config \in Connectors!Clients /\ row.generation \in Connectors!Clients
      BY <2>4, ConnectorRow
    <3>2. row.config \in Nat /\ row.config >= 1 /\ row.generation \in Nat
      BY <3>1, ClientsAreNumbers
    <3>3. row.config <= x3 /\ row.generation <= x3
      BY <2>5 DEF Connectors!Told
    <3> QED BY <1>1, <3>2, <3>3
  <2>7. /\ ConnectorRows /\ ConnectorKept /\ x2'[x3'].config = row.config
        /\ x3' \in Connectors!Clients /\ x3' \in Nat
        /\ \A k \in Nat : Connectors!New(k) /\ row.config # k => Connectors!New(k)'
    BY <2>2, <2>3, <2>6, ConnectorsRegister
  <2>8. PICK n, key : n = x3' /\ key = [client |-> n, version |-> version]
    OBVIOUS
  <2>9. key \in Connectors!Key /\ key.client = n
    <3>1. version \in 0 .. MaxKeys
      BY BoundsAssumption
    <3> QED BY <2>7, <2>8, <3>1 DEF Connectors!Key
  <2>10. PICK c : c = [d EXCEPT !.key = key]
    OBVIOUS
  <2>11. c \in Connectors!Context /\ c.key = key /\ c.row = row
    BY <2>1, <2>4, <2>9, <2>10 DEF Connectors!Context
  <2>12. Connectors!Await(w, "c_rotate", c)
    BY <2>2, <2>8, <2>10
  <2>13. ASSUME NEW v \in Handlers, v # w, step[v] = "u_update"
         PROVE  /\ row.config # known[v].key.client
                /\ \A old \in Connectors!Line(row) : old.client # known[v].key.client
    <3>1. Connectors!Apart(known[v].key.client, step[w], known[w])
      BY <1>1, <2>13 DEF Connectors!NewIsUnknown
    <3> QED BY <2>1, <2>3, <3>1 DEF Connectors!Apart
  <2>14. \A v \in Handlers : step[v] = "u_update" => row.config # known[v].key.client
    BY <2>3, <2>13
  <2>15. Connectors!Told(row)' /\ Connectors!Earlier(row)'
    BY <1>1, <2>3, <2>4, <2>5, <2>7, <2>14, ConnectorsEarlier DEF ConnectorRows
  <2>16. Connectors!Given("c_rotate", c)'
    <3>1. row.generation < x3' /\ n <= x3'
      BY <1>1, <2>2, <2>6, <2>8
    <3>2. x2'[n].config = row.config
      BY <2>7, <2>8
    <3> QED BY <2>9, <2>11, <2>15, <3>1, <3>2 DEF Connectors!Given
  <2>17. ASSUME NEW k \in Connectors!Clients, Connectors!New(k),
                NEW v \in Handlers \ {w}, step[v] = "u_update", known[v].key.client = k
         PROVE  Connectors!New(k)' /\ Connectors!Apart(k, "c_rotate", c)
    <3>1. row.config # k /\ \A old \in Connectors!Line(row) : old.client # k
      BY <2>13, <2>17
    <3>2. k <= x3 /\ k \in Nat
      BY <1>3, <2>17
    <3>3. n # k
      BY <1>1, <2>2, <2>8, <3>2
    <3> QED BY <2>7, <2>9, <2>11, <2>17, <3>1, <3>2, <3>3 DEF Connectors!Apart
  <2> QED BY <2>3, <2>7, <2>11, <2>12, <2>16, <2>17, ConnectorsAwait
<1>13. ASSUME NEW w \in Handlers, Connectors!RotateGeneration(w) PROVE Connectors!IInv'
  <2>1. PICK d, row, key : d = known[w] /\ row = d.row /\ key = d.key
    OBVIOUS
  <2>2. /\ UNCHANGED <<x2, x3, x4, x5>> /\ step[w] = "c_rotate" /\ step[w] \in Connectors!Reads
    BY <1>13 DEF Connectors!RotateGeneration, Connectors!Reads
  <2>3. /\ d \in Connectors!Context /\ row \in Connectors!Row /\ key \in Connectors!Key
        /\ Connectors!Given("c_rotate", d)
        /\ key.client \in Connectors!Clients /\ key.client \in Nat /\ key.client <= x3
        /\ row.generation \in Nat
    BY <1>1, <1>3, <2>1, <2>2, ConnectorContext
  <2>4. /\ Connectors!Told(row) /\ Connectors!Earlier(row) /\ row.generation < x3
        /\ x2[key.client].config = row.config
    BY <2>1, <2>2, <2>3 DEF Connectors!Given
  <2>5. CASE ~Connectors!SameGeneration(w)
    <3>1. UNCHANGED <<x1, x6>> /\ Connectors!Goto(w, "c_winner")
      BY <1>13, <2>5 DEF Connectors!RotateGeneration
    <3>2. "c_winner" \in Connectors!Reads \ {"c_rotate"}
      BY DEF Connectors!Reads
    <3> QED BY <1>6, <2>2, <3>1, <3>2
  <2>6. CASE Connectors!SameGeneration(w)
    <3>1. PICK next : next = row.generation + 1
      OBVIOUS
    <3>2. /\ x1' = [x1 EXCEPT !.client = key.client, !.key = key, !.generation = next,
                              !.retired = row.retired \cup {[generation |-> row.generation, client |-> row.client]}]
          /\ x6' = FALSE /\ Connectors!Ensured(w, next)
      BY <1>13, <2>1, <2>6, <3>1 DEF Connectors!RotateGeneration
    <3>3. x1.generation = row.generation
      BY <2>1, <2>6 DEF Connectors!SameGeneration
    <3>4. PICK line : line = Connectors!Line(row)
      OBVIOUS
    <3>5. x1' = [x1 EXCEPT !.client = key.client, !.key = key, !.generation = next, !.retired = line]
      BY <3>2, <3>4 DEF Connectors!Line
    <3>6. /\ next \in Connectors!Clients /\ next \in Nat /\ next <= x3 /\ line \subseteq Connectors!Retired
          /\ next \in 0 .. MaxClients
      <4>1. next \in Nat /\ next <= x3 /\ next >= 1 /\ x3 <= MaxClients
        BY <1>1, <2>3, <2>4, <3>1, ClientsAreNumbers
      <4>2. next \in Connectors!Clients /\ next \in 0 .. MaxClients
        BY <1>1, <4>1, BoundsAssumption DEF Connectors!Clients
      <4> QED BY <2>3, <3>4, <4>1, <4>2, ConnectorRow
    <3>7. x1' \in Connectors!Row
      BY <1>1, <2>3, <3>5, <3>6 DEF Connectors!Row
    <3>8. /\ x1'.config = x1.config /\ x1'.client = key.client /\ x1'.key = key
          /\ x1'.generation = next /\ x1'.retired = line
      BY <1>1, <3>5 DEF Connectors!Row
    <3>9. PICK new : new = [generation |-> next, client |-> key.client]
      OBVIOUS
    <3>10. Connectors!Line(x1') = line \cup {new} /\ new.client = key.client
      BY <3>8, <3>9 DEF Connectors!Line
    <3>11. /\ \A old \in line : old.client <= x3 /\ old.client \in Connectors!Clients
           /\ \A old \in row.retired : old.generation < row.generation /\ old.generation \in Nat
      BY <1>1, <2>3, <2>4, <3>4, ConnectorsLine, ConnectorRow, ClientsAreNumbers
         DEF Connectors!Told, Connectors!Retired
    <3>12. PICK last : last = [generation |-> row.generation, client |-> row.client]
      OBVIOUS
    <3>13. line = row.retired \cup {last} /\ last.generation = row.generation
      BY <3>4, <3>12 DEF Connectors!Line
    <3>14. Connectors!Told(x1)'
      <4>1. x1'.config <= x3' /\ x1'.generation <= x3'
        BY <1>1, <2>2, <3>6, <3>8 DEF Connectors!Told
      <4>2. \A old \in Connectors!Line(x1') : old.client <= x3'
        BY <2>2, <2>3, <3>10, <3>11
      <4>3. \A old \in x1'.retired : old.generation < x1'.generation
        BY <2>3, <3>1, <3>8, <3>11, <3>13
      <4>4. \A a, b \in x1'.retired : a.generation = b.generation => a = b
        <5>1. \A a, b \in row.retired : a.generation = b.generation => a = b
          BY <2>4 DEF Connectors!Told
        <5>2. \A a \in row.retired : a.generation # last.generation
          BY <2>3, <3>11, <3>13
        <5> QED BY <3>8, <3>13, <5>1, <5>2
      <4> QED BY <4>1, <4>2, <4>3, <4>4 DEF Connectors!Told
    <3>15. Connectors!Pure(x1)' => Connectors!Line(x1) \subseteq Connectors!Line(x1')
      <4>1. SUFFICES ASSUME Connectors!Pure(x1)' PROVE Connectors!Line(x1) \subseteq Connectors!Line(x1')
        OBVIOUS
      <4>2. x2'[new.client].config = x1'.config
        BY <3>10, <4>1 DEF Connectors!Pure
      <4>3. row.config = x1.config
        BY <2>2, <2>4, <3>8, <3>10, <4>2
      <4>4. Connectors!Line(row) = Connectors!Line(x1)
        BY <2>4, <3>3, <4>3 DEF Connectors!Earlier
      <4> QED BY <3>4, <3>10, <4>4
    <3>16. ConnectorKept
      <4>1. x1.generation <= x1'.generation /\ x1'.generation # x1.generation
        BY <2>3, <3>1, <3>3, <3>8
      <4> QED BY <1>1, <2>2, <3>8, <3>15, <4>1 DEF ConnectorKept
    <3>17. ASSUME NEW pair \in {x4', x5'} \ {None} PROVE Connectors!Held(pair)'
      <4>1. PICK p : p = pair
        OBVIOUS
      <4>2. p \in Connectors!Retired /\ Connectors!Held(p)
        BY <1>1, <2>2, <4>1, ConnectorsTypes
      <4>3. \A v \in Handlers : step[v] = "u_update" => p.client # known[v].key.client
        BY <1>1, <2>2, <4>1 DEF Connectors!NewIsUnknown, Connectors!New
      <4>4. Connectors!Held(p)'
        BY <1>1, <2>2, <3>7, <3>16, <4>2, <4>3, ConnectorsHeld
      <4> QED BY <4>1, <4>4
    <3>18. \A c \in 1 .. x3' : x2'[c].config <= x3'
      BY <2>2, ConnectorsTypes
    <3>19. ConnectorRows
      BY <1>1, <2>2, <3>2, <3>7, <3>8, <3>14, <3>17, <3>18 DEF ConnectorRows
    <3>20. ASSUME NEW k \in Connectors!Clients, Connectors!New(k),
                  NEW v \in Handlers \ {w}, step[v] = "u_update", known[v].key.client = k
           PROVE  Connectors!New(k)'
      <4>1. Connectors!Apart(k, step[w], known[w])
        BY <1>1, <3>20 DEF Connectors!NewIsUnknown
      <4>2. key.client # k /\ \A old \in line : old.client # k
        BY <2>1, <2>2, <3>4, <4>1 DEF Connectors!Apart
      <4>3. \A old \in Connectors!Line(x1') \cup ({x4', x5'} \ {None}) : old.client # k
        BY <2>2, <3>10, <3>20, <4>2 DEF Connectors!New
      <4>4. k > 1 /\ x1'.config # k /\ \A e \in 1 .. x3' : x2'[e].config = k => e = k
        BY <2>2, <3>8, <3>20 DEF Connectors!New
      <4> QED BY <4>3, <4>4 DEF Connectors!New
    <3>21. PICK c \in Connectors!Context : c.key.client = 1 /\ Connectors!Await(w, "i_store", c)
      BY <3>2, <3>6, ConnectorsEnsured
    <3> QED BY <3>16, <3>19, <3>20, <3>21, ConnectorsEnds
  <2> QED BY <2>5, <2>6
<1>14. ASSUME NEW w \in Handlers, Connectors!ReadWinner(w) PROVE Connectors!IInv'
  BY <1>2, <1>4, <1>5, <1>14 DEF Connectors!ReadWinner
<1>15. ASSUME NEW w \in Handlers, NEW pair \in Connectors!Retired \cup {None},
              x4' \in {x4, pair}, x5' \in {x5, pair}, UNCHANGED <<x1, x2, x3, x6>>,
              pair # None => Connectors!Held(pair),
              \A k \in Connectors!Clients :
                Connectors!New(k) /\ (\E v \in Handlers \ {w} : step[v] = "u_update" /\ known[v].key.client = k)
                  => pair = None \/ pair.client # k
       PROVE  /\ ConnectorRows /\ ConnectorKept
              /\ \A k \in Connectors!Clients :
                   Connectors!New(k) /\ (\E v \in Handlers \ {w} : step[v] = "u_update" /\ known[v].key.client = k)
                     => Connectors!New(k)'
  <2>1. /\ ConnectorKept /\ Connectors!Told(x1)'
        /\ \A c \in 1 .. x3' : x2'[c].config <= x3'
        /\ \A p \in Connectors!Retired : Connectors!Held(p) => Connectors!Held(p)'
        /\ \A k : /\ Connectors!New(k)
                  /\ \A p \in {x4', x5'} \ {None} : p.client # k
                  => Connectors!New(k)'
    BY <1>1, <1>15, ConnectorsSteady
  <2>2. \A p \in {x4', x5'} \ {None} : p \in Connectors!Retired /\ Connectors!Held(p)
    BY <1>15, ConnectorsTypes
  <2>3. \A p \in {x4', x5'} \ {None} : Connectors!Held(p)'
    BY <2>1, <2>2
  <2>4. ConnectorRows
    BY <1>15, <2>1, <2>3, ConnectorsTypes DEF ConnectorRows
  <2>5. \A k : Connectors!New(k) => \A p \in {x4, x5} \ {None} : p.client # k
    BY DEF Connectors!New
  <2> QED BY <1>15, <2>1, <2>4, <2>5
<1>16. ASSUME NEW w \in Handlers, Connectors!CreateIntent(w) PROVE Connectors!IInv'
  <2>1. PICK g, client : g = known[w].generation /\ client = Connectors!Resolve(x1, g)
    OBVIOUS
  <2>2. PICK pair : pair = IF client = None THEN None ELSE [generation |-> g, client |-> client]
    OBVIOUS
  <2>3. /\ Connectors!Answer(w) /\ UNCHANGED <<x1, x2, x3, x5, x6>> /\ x4' \in {x4, pair}
    BY <1>16, <2>1, <2>2 DEF Connectors!CreateIntent
  <2>4. client # None => pair \in Connectors!Line(x1)
    <3>1. SUFFICES ASSUME client # None PROVE pair \in Connectors!Line(x1)
      OBVIOUS
    <3>2. CASE \E old \in x1.retired : old.generation = g
      <4>1. PICK old \in x1.retired : old = CHOOSE o \in x1.retired : o.generation = g
        BY <3>2
      <4>2. old.generation = g /\ client = old.client
        BY <2>1, <3>2, <4>1 DEF Connectors!Resolve
      <4>3. old \in Connectors!Retired /\ old \in Connectors!Line(x1)
        BY <1>1, ConnectorRow
      <4>4. old = [generation |-> old.generation, client |-> old.client]
        BY <4>3 DEF Connectors!Retired
      <4> QED BY <2>2, <3>1, <4>2, <4>3, <4>4
    <3>3. CASE ~\E old \in x1.retired : old.generation = g
      <4>1. g = x1.generation /\ client = x1.client
        BY <2>1, <3>1, <3>3 DEF Connectors!Resolve
      <4> QED BY <1>1, <2>2, <3>1, <4>1, ConnectorRow
    <3> QED BY <3>2, <3>3
  <2>5. pair # None => pair \in Connectors!Line(x1)
    BY <2>2, <2>4
  <2>6. pair \in Connectors!Retired \cup {None}
    BY <1>1, <2>5, ConnectorRow
  <2>7. pair # None => Connectors!Held(pair)
    BY <1>1, <2>5 DEF Connectors!Held, Connectors!Told
  <2>8. \A k \in Connectors!Clients : Connectors!New(k) => pair = None \/ pair.client # k
    BY <2>5 DEF Connectors!New
  <2>9. /\ ConnectorRows /\ ConnectorKept
        /\ \A k \in Connectors!Clients :
             Connectors!New(k) /\ (\E v \in Handlers \ {w} : step[v] = "u_update" /\ known[v].key.client = k)
               => Connectors!New(k)'
    BY <1>15, <2>3, <2>6, <2>7, <2>8
  <2>10. Connectors!Await(w, "idle", Connectors!NoContext)
    BY <2>3 DEF Connectors!Answer
  <2> QED BY <2>9, <2>10, ConnectorsNoContext, ConnectorsEnds
<1>17. ASSUME NEW w \in Handlers, Connectors!RedeemCode(w) PROVE Connectors!IInv'
  <2>1. PICK pair : pair = x4
    OBVIOUS
  <2>2. /\ step[w] = "idle" /\ pair # None /\ x4' = None /\ UNCHANGED <<x1, x2, x3, x5, x6>>
        /\ \/ UNCHANGED <<step, known>>
           \/ Connectors!Await(w, "k_store", [Connectors!NoContext EXCEPT
                                                !.key.client = pair.client, !.generation = pair.generation])
    BY <1>17, <2>1 DEF Connectors!RedeemCode
  <2>3. /\ ConnectorRows /\ ConnectorKept
        /\ \A k \in Connectors!Clients :
             Connectors!New(k) /\ (\E v \in Handlers \ {w} : step[v] = "u_update" /\ known[v].key.client = k)
               => Connectors!New(k)'
    BY <1>15, <2>2
  <2>4. CASE UNCHANGED <<step, known>>
    <3>1. PICK c : c = known[w]
      OBVIOUS
    <3>2. Connectors!Await(w, "idle", c)
      BY <1>1, <2>2, <2>4, <3>1 DEF Connectors!Await
    <3>3. c \in Connectors!Context /\ "idle" \in Connectors!Steps
      BY <1>3, <3>1 DEF Connectors!Steps
    <3>4. PICK t : t = step[w]
      OBVIOUS
    <3>5. Connectors!Given(t, c)'
      BY <1>1, <2>2, <2>3, <3>1, <3>4, ConnectorsGiven
    <3>6. Connectors!Given("idle", c)'
      BY <2>2, <3>4, <3>5
    <3>7. ASSUME NEW k \in Connectors!Clients,
                 NEW v \in Handlers \ {w}, step[v] = "u_update", known[v].key.client = k
          PROVE  Connectors!Apart(k, "idle", c)
      BY <1>1, <2>2, <3>1, <3>7 DEF Connectors!NewIsUnknown
    <3> QED BY <2>3, <3>2, <3>3, <3>6, <3>7, ConnectorsAwait
  <2>5. CASE Connectors!Await(w, "k_store", [Connectors!NoContext EXCEPT
                                              !.key.client = pair.client, !.generation = pair.generation])
    <3>1. pair \in Connectors!Retired /\ Connectors!Held(pair)
      BY <2>1, <2>2, ConnectorsTypes
    <3>2. /\ pair.client \in Connectors!Clients /\ pair.generation \in Connectors!Clients
          /\ pair = [generation |-> pair.generation, client |-> pair.client]
      BY <3>1 DEF Connectors!Retired
    <3>3. PICK key : key = [client |-> pair.client, version |-> 0]
      OBVIOUS
    <3>4. key \in Connectors!Key /\ key.client = pair.client
      <4>1. 0 \in 0 .. MaxKeys
        BY BoundsAssumption
      <4> QED BY <3>2, <3>3, <4>1 DEF Connectors!Key
    <3>5. PICK c : c = [Connectors!NoContext EXCEPT !.key = key, !.generation = pair.generation]
      OBVIOUS
    <3>6. pair.generation \in 0 .. MaxClients /\ pair.generation > 0
      BY <3>2, ClientsAreNumbers, BoundsAssumption
    <3>7. /\ c \in Connectors!Context /\ c.key = key /\ c.generation = pair.generation
      BY <3>4, <3>5, <3>6, ConnectorsNoContext DEF Connectors!Context
    <3>8. c = [Connectors!NoContext EXCEPT !.key.client = pair.client, !.generation = pair.generation]
      <4>1. Connectors!NoContext.key = [client |-> 1, version |-> 0]
        BY ConnectorsNoContext
      <4>2. PICK own : own = [Connectors!NoContext.key EXCEPT !.client = pair.client]
        OBVIOUS
      <4>3. own = key
        BY <3>3, <4>1, <4>2
      <4> QED BY <3>5, <4>2, <4>3
    <3>9. Connectors!Await(w, "k_store", c) /\ "k_store" \in Connectors!Steps
      BY <2>5, <3>8 DEF Connectors!Steps
    <3>10. Connectors!Held(pair)'
      <4>1. \A v \in Handlers : step[v] = "u_update" => pair.client # known[v].key.client
        BY <1>1, <2>1, <2>2 DEF Connectors!NewIsUnknown, Connectors!New
      <4> QED BY <1>1, <2>2, <2>3, <3>1, <4>1, ConnectorsHeld
    <3>11. Connectors!Given("k_store", c)'
      <4>1. pair.client <= x3'
        BY <3>10 DEF Connectors!Held
      <4>2. [generation |-> c.generation, client |-> c.key.client] = pair
        BY <3>2, <3>4, <3>7
      <4>3. "k_store" \notin Connectors!Reads
        BY DEF Connectors!Reads
      <4> QED BY <3>4, <3>6, <3>7, <3>10, <4>1, <4>2, <4>3 DEF Connectors!Given
    <3>12. ASSUME NEW k \in Connectors!Clients, Connectors!New(k) PROVE Connectors!Apart(k, "k_store", c)
      <4>1. pair.client # k
        BY <2>1, <2>2, <3>12 DEF Connectors!New
      <4> QED BY <3>4, <3>7, <4>1 DEF Connectors!Apart, Connectors!Reads
    <3> QED BY <2>3, <3>7, <3>9, <3>11, <3>12, ConnectorsAwait
  <2> QED BY <2>2, <2>4, <2>5
<1>18. ASSUME NEW w \in Handlers, Connectors!StoreCredential(w) PROVE Connectors!IInv'
  <2>1. PICK d, pair : d = known[w] /\ pair = [generation |-> d.generation, client |-> d.key.client]
    OBVIOUS
  <2>2. /\ step[w] = "k_store" /\ x5' = pair /\ UNCHANGED <<x1, x2, x3, x4, x6>>
        /\ Connectors!Await(w, "idle", Connectors!NoContext)
    BY <1>18, <2>1 DEF Connectors!StoreCredential, Connectors!Answer
  <2>3. d.generation > 0 /\ Connectors!Held(pair)
    <3>1. Connectors!Given("k_store", d)
      BY <1>1, <2>1, <2>2
    <3> QED BY <2>1, <3>1 DEF Connectors!Given
  <2>4. d.generation \in Connectors!Clients /\ d.key.client \in Connectors!Clients
    BY <1>3, <2>1, <2>3, BoundsAssumption DEF Connectors!Clients
  <2>5. pair \in Connectors!Retired /\ pair.client = d.key.client
    BY <2>1, <2>4 DEF Connectors!Retired
  <2>6. ASSUME NEW k \in Connectors!Clients,
               NEW v \in Handlers \ {w}, step[v] = "u_update", known[v].key.client = k
        PROVE  pair.client # k
    <3>1. Connectors!Apart(k, step[w], known[w])
      BY <1>1, <2>6 DEF Connectors!NewIsUnknown
    <3> QED BY <2>1, <2>5, <3>1 DEF Connectors!Apart
  <2>7. /\ ConnectorRows /\ ConnectorKept
        /\ \A k \in Connectors!Clients :
             Connectors!New(k) /\ (\E v \in Handlers \ {w} : step[v] = "u_update" /\ known[v].key.client = k)
               => Connectors!New(k)'
    BY <1>15, <2>2, <2>3, <2>5, <2>6
  <2> QED BY <2>2, <2>7, ConnectorsNoContext, ConnectorsEnds
<1>19. ASSUME NEW w \in Handlers, Connectors!ReconfigureBegin(w) PROVE Connectors!IInv'
  <2>1. PICK c : c = known[w]
    OBVIOUS
  <2>2. /\ step[w] = "idle" /\ UNCHANGED <<x1, x2, x3, x4, x5, x6>>
        /\ Connectors!Await(w, "u_register", c) /\ c \in Connectors!Context
        /\ "u_register" \in Connectors!Steps \ {"u_update"} /\ "u_register" \notin Connectors!Reads
    BY <1>3, <1>19, <2>1 DEF Connectors!ReconfigureBegin, Connectors!Goto, Connectors!Steps, Connectors!Reads
  <2>3. Connectors!Given("u_register", c)
    BY <1>1, <2>1, <2>2 DEF Connectors!Given
  <2> QED BY <2>1, <2>2, <2>3, ConnectorsMove
<1>20. ASSUME NEW w \in Handlers, Connectors!RegisterNew(w) PROVE Connectors!IInv'
  <2>1. PICK d, n : d = known[w] /\ n = x3 + 1
    OBVIOUS
  <2>2. PICK version \in {0, 1} :
          /\ x3 < MaxClients /\ x3' = n
          /\ x2' = [x2 EXCEPT ![x3'] = [version |-> version, config |-> n]]
          /\ Connectors!Await(w, "u_update", [d EXCEPT !.key = [client |-> n, version |-> version]])
    BY <1>20, <2>1 DEF Connectors!RegisterNew, Connectors!Register
  <2>3. UNCHANGED <<x1, x4, x5, x6>> /\ "u_update" \in Connectors!Steps
        /\ "u_update" \notin Connectors!Reads
    BY <1>20 DEF Connectors!RegisterNew, Connectors!Steps, Connectors!Reads
  <2>4. n \in Nat /\ n >= 1 /\ n <= x3 + 1 /\ n > x3 /\ n > 1
    BY <1>1, <2>1
  <2>5. /\ ConnectorRows /\ ConnectorKept /\ x2'[n].config = n
        /\ n \in Connectors!Clients
        /\ \A e \in 1 .. x3' : x2'[e].config = n \/ (e \in 1 .. x3 /\ x2'[e].config = x2[e].config)
        /\ \A k \in Nat : Connectors!New(k) /\ n # k => Connectors!New(k)'
    BY <2>1, <2>2, <2>3, <2>4, ConnectorsRegister
  <2>6. PICK key : key = [client |-> n, version |-> version]
    OBVIOUS
  <2>7. key \in Connectors!Key /\ key.client = n
    <3>1. version \in 0 .. MaxKeys
      BY BoundsAssumption
    <3> QED BY <2>5, <2>6, <3>1 DEF Connectors!Key
  <2>8. PICK c : c = [d EXCEPT !.key = key]
    OBVIOUS
  <2>9. c \in Connectors!Context /\ c.key = key
    BY <1>3, <2>1, <2>7, <2>8 DEF Connectors!Context
  <2>10. Connectors!Await(w, "u_update", c)
    BY <2>2, <2>6, <2>8
  <2>11. Connectors!Given("u_update", c)'
    <3>1. n <= x3'
      BY <2>2, <2>4
    <3> QED BY <2>3, <2>5, <2>7, <2>9, <3>1 DEF Connectors!Given
  <2>12. ASSUME NEW k \in Connectors!Clients, Connectors!New(k),
                NEW v \in Handlers \ {w}, step[v] = "u_update", known[v].key.client = k
         PROVE  Connectors!New(k)' /\ Connectors!Apart(k, "u_update", c)
    <3>1. k \in Nat /\ n # k
      BY <1>1, <1>3, <2>4, <2>12
    <3> QED BY <2>3, <2>5, <2>7, <2>9, <2>12, <3>1 DEF Connectors!Apart
  <2>13. ASSUME NEW row \in Connectors!Row, Connectors!Told(row)
         PROVE  row.config # n /\ \A old \in Connectors!Line(row) : old.client # n
    <3>1. row.config <= x3 /\ row.config \in Nat
      BY <2>13, ConnectorRow, ClientsAreNumbers DEF Connectors!Told
    <3>2. \A old \in Connectors!Line(row) : old.client \in 1 .. x3
      BY <1>1, <2>13, ConnectorsLine
    <3> QED BY <1>1, <2>4, <3>1, <3>2
  <2>14. Connectors!New(n)'
    <3>1. x1'.config # n /\ \A old \in Connectors!Line(x1') : old.client # n
      BY <1>1, <2>3, <2>13
    <3>2. ASSUME NEW pair \in {x4', x5'} \ {None} PROVE pair.client # n
      <4>1. pair \in Connectors!Retired /\ Connectors!Held(pair)
        BY <2>3, ConnectorsTypes
      <4>2. pair.client <= x3 /\ pair.client \in Nat
        BY <4>1, ClientsAreNumbers DEF Connectors!Held, Connectors!Retired
      <4> QED BY <1>1, <2>4, <4>2
    <3>3. ASSUME NEW e \in 1 .. x3', x2'[e].config = n PROVE e = n
      <4>1. SUFFICES ASSUME e \in 1 .. x3, x2'[e].config = x2[e].config PROVE FALSE
        BY <1>1, <2>2, <2>1, <3>3, <2>5
      <4>2. x2[e].config <= x3
        BY <4>1, ConnectorsTypes
      <4> QED BY <1>1, <2>4, <3>3, <4>1, <4>2
    <3> QED BY <2>4, <3>1, <3>2, <3>3 DEF Connectors!New
  <2>15. ASSUME NEW v \in Handlers PROVE Connectors!Apart(n, step[v], known[v])
    <3>1. known[v].key.client # n
      BY <1>1, <1>3, <2>4
    <3>2. step[v] \in Connectors!Reads => Connectors!Told(known[v].row)
      BY <1>1 DEF Connectors!Given
    <3> QED BY <1>3, <2>13, <3>1, <3>2 DEF Connectors!Apart
  <2> QED BY <2>3, <2>5, <2>7, <2>9, <2>10, <2>11, <2>12, <2>14, <2>15, ConnectorsAwait
<1>21. ASSUME NEW w \in Handlers, Connectors!Reconfigure(w) PROVE Connectors!IInv'
  <2>1. PICK key, n : key = known[w].key /\ n = key.client
    OBVIOUS
  <2>2. /\ step[w] = "u_update" /\ UNCHANGED <<x2, x3, x4, x5>> /\ x6' = FALSE
        /\ x1' = [config |-> n, client |-> n, key |-> key, generation |-> 1, retired |-> {}]
        /\ Connectors!Await(w, "u_revoke", Connectors!NoContext)
    BY <1>21, <2>1 DEF Connectors!Reconfigure
  <2>3. key \in Connectors!Key /\ n \in Connectors!Clients /\ n <= x3 /\ 1 \in Connectors!Clients
    BY <1>1, <1>3, <2>1, ConnectorContext, BoundsAssumption DEF Connectors!Clients
  <2>4. /\ x1' \in Connectors!Row /\ x1'.config = n /\ x1'.client = n /\ x1'.key = key
        /\ x1'.generation = 1 /\ x1'.retired = {}
    BY <2>2, <2>3 DEF Connectors!Row
  <2>5. PICK new : new = [generation |-> 1, client |-> n]
    OBVIOUS
  <2>6. Connectors!Line(x1') = {new} /\ new.client = n
    BY <2>4, <2>5 DEF Connectors!Line
  <2>7. Connectors!Told(x1)'
    BY <1>1, <2>2, <2>3, <2>4, <2>6 DEF Connectors!Told
  <2>8. ConnectorKept
    BY <1>1, <2>1, <2>2, <2>4 DEF ConnectorKept
  <2>9. ASSUME NEW pair \in {x4', x5'} \ {None} PROVE Connectors!Held(pair)'
    <3>1. PICK p : p = pair
      OBVIOUS
    <3>2. p \in Connectors!Retired /\ Connectors!Held(p)
      BY <2>2, <3>1, ConnectorsTypes
    <3>3. \A v \in Handlers : step[v] = "u_update" => p.client # known[v].key.client
      BY <1>1, <2>2, <3>1 DEF Connectors!NewIsUnknown, Connectors!New
    <3>4. Connectors!Held(p)'
      BY <1>1, <2>2, <2>4, <2>8, <3>2, <3>3, ConnectorsHeld
    <3> QED BY <3>1, <3>4
  <2>10. ConnectorRows
    <3>1. \A c \in 1 .. x3' : x2'[c].config <= x3'
      BY <2>2, ConnectorsTypes
    <3> QED BY <1>1, <2>1, <2>2, <2>4, <2>7, <2>9, <3>1 DEF ConnectorRows
  <2>11. ASSUME NEW k \in Connectors!Clients, Connectors!New(k),
                NEW v \in Handlers \ {w}, step[v] = "u_update", known[v].key.client = k
         PROVE  Connectors!New(k)'
    <3>1. Connectors!Apart(k, step[w], known[w])
      BY <1>1, <2>11 DEF Connectors!NewIsUnknown
    <3>2. n # k
      BY <2>1, <3>1 DEF Connectors!Apart
    <3>3. \A old \in Connectors!Line(x1') \cup ({x4', x5'} \ {None}) : old.client # k
      BY <2>2, <2>6, <2>11, <3>2 DEF Connectors!New
    <3>4. k > 1 /\ x1'.config # k /\ \A e \in 1 .. x3' : x2'[e].config = k => e = k
      BY <2>2, <2>4, <2>11, <3>2 DEF Connectors!New
    <3> QED BY <3>3, <3>4 DEF Connectors!New
  <2> QED BY <2>2, <2>8, <2>10, <2>11, ConnectorsNoContext, ConnectorsEnds
<1>22. ASSUME NEW w \in Handlers, Connectors!RevokeAuthorizations(w) PROVE Connectors!IInv'
  <2>1. /\ x5' = None /\ UNCHANGED <<x1, x2, x3, x4, x6>>
        /\ Connectors!Await(w, "idle", Connectors!NoContext)
    BY <1>22 DEF Connectors!RevokeAuthorizations, Connectors!Answer
  <2>2. PICK pair : pair = None
    OBVIOUS
  <2>3. /\ ConnectorRows /\ ConnectorKept
        /\ \A k \in Connectors!Clients :
             Connectors!New(k) /\ (\E v \in Handlers \ {w} : step[v] = "u_update" /\ known[v].key.client = k)
               => Connectors!New(k)'
    BY <1>15, <2>1, <2>2
  <2> QED BY <2>1, <2>3, ConnectorsNoContext, ConnectorsEnds
<1>23. ASSUME NEW w \in Handlers, Connectors!Abandon(w) PROVE Connectors!IInv'
  BY <1>4, <1>23 DEF Connectors!Abandon
<1> QED BY <1>7, <1>8, <1>9, <1>10, <1>11, <1>12, <1>13, <1>14, <1>16, <1>17, <1>18, <1>19,
           <1>20, <1>21, <1>22, <1>23 DEF Connectors!Next

(* A held generation resolves to its client.                               *)
LEMMA ConnectorsResolve ==
  ASSUME NEW row, NEW pair \in Connectors!Line(row),
         \A old \in row.retired : old.generation # row.generation,
         \A a, b \in row.retired : a.generation = b.generation => a = b
  PROVE  Connectors!Resolve(row, pair.generation) = pair.client
<1>1. CASE pair \in row.retired
  <2>1. (CHOOSE old \in row.retired : old.generation = pair.generation) = pair
    BY <1>1
  <2> QED BY <1>1, <2>1 DEF Connectors!Resolve
<1>2. CASE pair \notin row.retired
  <2>1. pair.generation = row.generation /\ pair.client = row.client
    BY <1>2 DEF Connectors!Line
  <2>2. ~\E old \in row.retired : old.generation = pair.generation
    BY <2>1
  <2> QED BY <2>1, <2>2 DEF Connectors!Resolve
<1> QED BY <1>1, <1>2

LEMMA ConnectorsKeep == Connectors!IInv => Connectors!GenerationsKeepTheirClients
<1> SUFFICES ASSUME Connectors!IInv PROVE Connectors!GenerationsKeepTheirClients
  OBVIOUS
<1>1. ASSUME x5 # None, Connectors!OneConfiguration, x2[x5.client].config = x1.config
      PROVE  Connectors!Resolve(x1, x5.generation) = x5.client
  <2>1. Connectors!Held(x5)
    BY <1>1, ConnectorsTypes
  <2>2. x5 \in Connectors!Line(x1)
    BY <1>1, <2>1, PureIsOne DEF Connectors!Held
  <2>3. /\ x1 \in Connectors!Row /\ x1.retired \subseteq Connectors!Retired
        /\ x1.generation \in Connectors!Clients
    BY ConnectorsTypes, ConnectorRow
  <2>4. \A old \in x1.retired : old.generation < x1.generation /\ old.generation \in Connectors!Clients
    BY <2>3, ConnectorsTypes DEF Connectors!Told, Connectors!Retired
  <2>5. \A old \in x1.retired : old.generation # x1.generation
    BY <2>3, <2>4, ClientsAreNumbers
  <2>6. \A a, b \in x1.retired : a.generation = b.generation => a = b
    BY ConnectorsTypes DEF Connectors!Told
  <2> QED BY <2>2, <2>5, <2>6, ConnectorsResolve
<1> QED BY <1>1, ConnectorsTypes DEF Connectors!GenerationsKeepTheirClients

-----------------------------------------------------------------------------
(* The parts together.  A step of the platform is one of the part at work  *)
(* and leaves the other parts' invariants with nothing to say; the rows of *)
(* the webhooks (see WebhookDeliveryProofs for IInv) are always there.     *)
PartsInv ==
  /\ IInv
  /\ part = "members" => Members!IInv
  /\ part = "replay" => Replay!IInv
  /\ part = "settings" => Settings!IInv
  /\ part = "grants" => Grants!IInv
  /\ part = "consents" => Consents!IInv
  /\ part = "registry" => Registry!IInv
  /\ part = "methods" => Methods!IInv
  /\ part = "applications" => Applications!IInv
  /\ part = "connectors" => Connectors!IInv

LEMMA PartsInit == PlatformInit => PartsInv
  BY InitEstablishes, MembersInit, ReplayInit, SettingsInit, GrantsInit, ConsentsInit, RegistryInit, MethodsInit, ApplicationsInit, ConnectorsInit
     DEF PlatformInit, PartsInv

LEMMA PartsStep == PartsInv /\ [PlatformNext]_all => PartsInv'
<1> SUFFICES ASSUME PartsInv, [PlatformNext]_all PROVE PartsInv'
  OBVIOUS
<1>1. IInv'
  <2>1. IInv /\ [Next]_vars
    BY DEF PartsInv, PlatformNext, all
  <2> QED BY <2>1, StepEstablishes
<1>2. CASE Of("webhooks")
  BY <1>1, <1>2 DEF PartsInv, Of
<1>3. CASE Of("members") /\ Members!Next
  BY <1>1, <1>3, MembersStep DEF PartsInv, Of
<1>4. CASE Of("replay") /\ Replay!Next
  BY <1>1, <1>4, ReplayStep DEF PartsInv, Of
<1>5. CASE Of("settings") /\ Settings!Next
  BY <1>1, <1>5, SettingsStep DEF PartsInv, Of
<1>6. CASE Of("grants") /\ Grants!Next
  BY <1>1, <1>6, GrantsStep DEF PartsInv, Of
<1>7. CASE Of("consents") /\ Consents!Next
  BY <1>1, <1>7, ConsentsStep DEF PartsInv, Of
<1>8. CASE Of("registry") /\ Registry!Next
  BY <1>1, <1>8, RegistryStep DEF PartsInv, Of
<1>9. CASE Of("methods") /\ Methods!Next
  BY <1>1, <1>9, MethodsStep DEF PartsInv, Of
<1>10. CASE Of("applications") /\ Applications!Next
  BY <1>1, <1>10, ApplicationsStep DEF PartsInv, Of
<1>11. CASE Of("connectors") /\ Connectors!Next
  BY <1>1, <1>11, ConnectorsStep DEF PartsInv, Of
<1>12. CASE UNCHANGED all
  <2>1. Members!IInv => Members!IInv'
    BY <1>12 DEF all, pool, Members!IInv, Members!TypeOK, Members!RolesExist, Members!KnownRoles, Members!Given
  <2>2. Replay!IInv => Replay!IInv'
    BY <1>12 DEF all, pool, Replay!IInv, Replay!TypeOK, Replay!HeldIsSigned,
       Replay!AcceptedIsSigned, Replay!ReadingsArePast, Replay!ForgottenIsExpired, Replay!ExpiresAt
  <2>3. Settings!IInv => Settings!IInv'
    BY <1>12 DEF all, pool, Settings!IInv, Settings!TypeOK, Settings!NoAcceptedPatchIsLost,
       Settings!PatchIsMerged, Settings!Unchanged, Settings!InForce, Settings!LoadIsShort,
       Settings!LoadedIsRecent, Settings!CopyIsRecent
  <2>4. Grants!IInv => Grants!IInv'
    BY <1>12 DEF all, pool, Grants!IInv, Grants!TypeOK, Grants!Given
  <2>5. Consents!IInv => Consents!IInv'
    BY <1>12 DEF all, pool, Consents!IInv, Consents!TypeOK, Consents!RowsSound,
       Consents!Given, Consents!Found, Consents!Relies
  <2>6. Registry!IInv => Registry!IInv'
    BY <1>12 DEF all, pool, Registry!IInv, Registry!TypeOK, Registry!NamesResource,
       Registry!NamedExist, Registry!Exists, Registry!OneAtATime, Registry!Clean, Registry!Given
  <2>7. Methods!IInv => Methods!IInv'
    BY <1>12 DEF all, pool, Methods!IInv, Methods!TypeOK, Methods!HandlesAUser,
       Methods!AloneFor, Methods!Attached, Methods!Given, Methods!MayLetGo, Methods!OtherMethod
  <2>8. Applications!IInv => Applications!IInv'
    BY <1>12 DEF all, pool, Applications!IInv, Applications!TypeOK,
       Applications!ClientRepeatsApplication, Applications!SecretIsCurrent, Applications!Version,
       Applications!SecretsTold, Applications!OwnHashes, Applications!Given, Applications!Merged
  <2>9. Connectors!IInv => Connectors!IInv'
    BY <1>12 DEF all, pool, Connectors!IInv, Connectors!TypeOK, Connectors!Told,
       Connectors!Line, Connectors!Pure, Connectors!Earlier, Connectors!Held, Connectors!Reads,
       Connectors!Given, Connectors!New, Connectors!Apart, Connectors!NewIsUnknown
  <2> QED BY <1>1, <1>12, <2>1, <2>2, <2>3, <2>4, <2>5, <2>6, <2>7, <2>8, <2>9 DEF all, PartsInv
<1> QED BY <1>1, <1>2, <1>3, <1>4, <1>5, <1>6, <1>7, <1>8, <1>9, <1>10, <1>11, <1>12 DEF PlatformNext, Of

(* In every reachable state the invariant of the part at work holds: what  *)
(* its code relies on from one statement to the next.                      *)
THEOREM PartsInvariant == PlatformSpec => []PartsInv
  BY PartsInit, PartsStep, PTL DEF PlatformSpec

(* Of every part: the state of the part at work stays within its types.    *)
THEOREM PlatformTypeCorrect == PlatformSpec => []PlatformTypeOK
<1>1. PartsInv => PlatformTypeOK
  BY DEF PartsInv, PlatformTypeOK, IInv, Members!IInv, Replay!IInv, Settings!IInv, Grants!IInv, Consents!IInv, Registry!IInv, Methods!IInv, Applications!IInv, Connectors!IInv
<1> QED BY PartsInvariant, <1>1, PTL

(* deleteOrganizationRole: a Role goes from under no member and no pending *)
(* invitation, unless one was validated before and written after.          *)
THEOREM RolesStay == PlatformSpec => []RolesExist
<1>1. PartsInv => RolesExist
  BY DEF PartsInv, RolesExist, Members!IInv
<1> QED BY PartsInvariant, <1>1, PTL

(* lastOwnerGuard: no interleaving of demotions and removals takes the last*)
(* Owner; only the deletion of that User does.                             *)
THEOREM OwnerIsNeverTaken == PlatformSpec => KeepsAnOwner
<1>1. PartsInv /\ [PlatformNext]_all => [part = "members" => Members!OwnerIsKept]_all
  BY MembersStep DEF PartsInv, PlatformNext, Of
<1> QED BY PartsInvariant, <1>1, PTL DEF PlatformSpec, KeepsAnOwner

(* Allow-lists and Roles under whole-value writes: invocations that do not *)
(* overlap leave them naming declared scopes alone, and no interleaving    *)
(* leaves a deleted Resource Server in them but by a value read before.    *)
THEOREM ReferencesStayClean == PlatformSpec => []ReferencesAreClean
<1>1. PartsInv => ReferencesAreClean
  BY DEF PartsInv, ReferencesAreClean, Registry!ReferencesAreClean, Registry!IInv,
         Registry!NamedExist, Registry!OneAtATime, Registry!Clean
<1> QED BY PartsInvariant, <1>1, PTL

(* revokeGrant: once a User or an administrator has revoked an Application,*)
(* neither a record nor a token is left, and an active consent names what  *)
(* was agreed or recorded since, unless something begun before landed      *)
(* late; a synchronization, a change to private or a deletion of the       *)
(* Resource Server revokes the consent alone and may leave both.           *)
THEOREM RevocationLeavesNothingBehind == PlatformSpec => []RevocationIsWhole
<1>1. PartsInv => RevocationIsWhole
  BY DEF PartsInv, RevocationIsWhole, Consents!RevocationIsWhole, Consents!IInv,
         Consents!RowsSound, Consents!Consented
<1> QED BY PartsInvariant, <1>1, PTL

(* rotateSecret, update and delete: however they interleave the client has *)
(* the hash of the latest secret, which alone is active, and goes with its *)
(* Application; a part of its scopes is the Application's unless a Resource*)
(* Server's change wrote it last, in the Application alone, or an update   *)
(* that had not seen another write did, in the client alone.               *)
THEOREM ClientIsRepeated == PlatformSpec => []ClientRepeatsApplication
<1>1. PartsInv => ClientRepeatsApplication
  BY DEF PartsInv, ClientRepeatsApplication, Applications!IInv
<1> QED BY PartsInvariant, <1>1, PTL

(* rotateResourceClientGeneration and the registration updates: within one *)
(* configuration a credential's generation resolves to the client that     *)
(* obtained it or to none, and the key stored with a client is its own     *)
(* unless a beaten registration update was stored after it.                *)
THEOREM GenerationsKeep == PlatformSpec => []GenerationsKeepTheirClients
<1>1. PartsInv => GenerationsKeepTheirClients
  BY ConnectorsKeep DEF PartsInv, GenerationsKeepTheirClients
<1> QED BY PartsInvariant, <1>1, PTL

(* createScopeEntitlement: an assignment or a retry of one shortens a      *)
(* Permission only when another invocation changed or ended its row after  *)
(* it was read, and then to no less than was read and asked for; one that  *)
(* nothing overtook leaves the Permission it answers.                      *)
THEOREM GrantsAreNotShortened == PlatformSpec => GrantsOnlyAdd
<1>1. PartsInv /\ [PlatformNext]_all => [part = "grants" => Grants!GrantAdds]_all
  BY GrantsStep DEF PartsInv, PlatformNext, Of
<1> QED BY PartsInvariant, <1>1, PTL DEF PlatformSpec, GrantsOnlyAdd

(* saveSiteSettings under its revision: of two changes that overlap, each  *)
(* that was accepted is in the document, whoever wrote last.               *)
THEOREM PatchesAreKept == PlatformSpec => []NoAcceptedPatchIsLost
<1>1. PartsInv => NoAcceptedPatchIsLost
  BY DEF PartsInv, NoAcceptedPatchIsLost, Settings!IInv
<1> QED BY PartsInvariant, <1>1, PTL

(* The policy cache of an isolate: what a request is served was in force   *)
(* within the refresh interval, loads that overtake each other included.   *)
THEOREM PolicyServedIsRecent == PlatformSpec => PolicyIsRecent
<1>1. PartsInv /\ [PlatformNext]_all => [part = "settings" => Settings!ServedIsRecent]_all
  BY SettingsStep DEF PartsInv, PlatformNext, Of
<1> QED BY PartsInvariant, <1>1, PTL DEF PlatformSpec, PolicyIsRecent

(* consumeProof: however the presentations of a proof and the purges of    *)
(* others interleave, it is not accepted again before it has expired.      *)
THEOREM ProofAcceptedOnce == PlatformSpec => AcceptedOnceInItsWindow
<1>1. PartsInv /\ [PlatformNext]_all => [part = "replay" => Replay!AgainOnceExpired]_all
  BY ReplayStep DEF PartsInv, PlatformNext, Of
<1> QED BY PartsInvariant, <1>1, PTL DEF PlatformSpec, AcceptedOnceInItsWindow

(* disconnectProviderConnection and linkWalletAddress: a connection names   *)
(* no account that is not there, and disconnecting or unlinking a Provider *)
(* does not take the last account of a User whose requests do not overlap; *)
(* such a User's Provider account has its active connection, and the two   *)
(* rows of a wallet go together once no request about it runs, unless one  *)
(* stopped half-way.  Unlinking a wallet checks nothing and is not covered.*)
THEOREM AccountsStayWhole == PlatformSpec => []AccountsAreWhole
<1>1. PartsInv => AccountsAreWhole
  <2>1. ASSUME Methods!IInv PROVE Methods!AccountsAreWhole
    <3>1. ASSUME NEW u \in Users, x7[u] # "overlapped"
          PROVE  /\ Methods!Attached(u)
                 /\ ~Methods!InFlight(u) /\ x7[u] = "no" => (x1 = u <=> x2 = u)
      <4>1. Methods!AloneFor(u)
        BY <2>1, <3>1 DEF Methods!IInv
      <4> QED BY <4>1 DEF Methods!AloneFor, Methods!InFlight, Methods!HalfWay
    <3> QED BY <2>1, <3>1 DEF Methods!AccountsAreWhole, Methods!IInv
  <2> QED BY <2>1 DEF PartsInv, AccountsAreWhole
<1> QED BY PartsInvariant, <1>1, PTL
=============================================================================

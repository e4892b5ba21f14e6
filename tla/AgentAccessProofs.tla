-------------------------- MODULE AgentAccessProofs --------------------------
(***************************************************************************)
(* TLAPS proofs about AgentAccess, for every set of handlers, requests and *)
(* leases, every finite set of scopes and every bound on the Permissions.  *)
(***************************************************************************)
EXTENDS AgentAccess, SequenceTheorems, FiniteSetTheorems, TLAPS

-----------------------------------------------------------------------------
(* The inductive invariant.                                                *)

(* What an invocation carries at each await: the access request it acts on,*)
(* the one scope of a direct grant and a mode that is not one-time, the    *)
(* rows a token was asked for, with the one-time ones among them.          *)
Given(step, c) ==
  /\ step \in {"p_list", "p_batch", "p_again", "x_batch", "i_post", "i_lease"} =>
       c.request \in Requests
  /\ step \in {"g_find", "g_insert", "g_again", "g_replace", "g_extend"} =>
       c.mode # "once" /\ \E s \in Scopes : c.scopes = {s}
  /\ step = "i_lease" => c.lease \in Leases

Seen(step, c) ==
  /\ step \in {"i_post", "i_lease"} => \A id \in c.read :
       Exists(id) /\ (RowOf(id).mode = "once" => id \in c.weak)
  /\ step = "i_lease" => target[c.lease] # "none"
  /\ \A l \in c.posted : target[l] = "dead"

HandlersSound == \A w \in Handlers : Given(pc[w], ctx[w]) /\ Seen(pc[w], ctx[w])

(* A lease is of Permissions that exist, and one that was one-time when the*)
(* token was issued has ended.                                             *)
LeasedHasEnded ==
  \A l \in Leases : \A id \in lease[l].ids :
    Exists(id) /\ (RowOf(id).mode = "once" => RowOf(id).end # "no")

(* There is no lease without a token.                                      *)
LeasesAreOfTokens == \A l \in Leases : lease[l] # NoRow => target[l] # "none"

(* OnceIsOnce without counting.                                            *)
OneLeasePerOnce ==
  \A l, k \in Leases : \A id \in lease[l].ids :
    id \in lease[k].ids /\ RowOf(id).mode = "once" => l = k

IInv ==
  /\ TypeOK
  /\ HandlersSound
  /\ LeasedHasEnded
  /\ OneLeasePerOnce
  /\ LeasesAreOfTokens
  /\ RevokedLeaseIsDead
  /\ NothingForDeletedResource

-----------------------------------------------------------------------------
(* Permissions as rows of tables.                                          *)

LEMMA IdParts ==
  ASSUME NEW id \in Ids
  PROVE  id[1] \in Scopes /\ id[2] \in 1 .. MaxRows /\ id = <<id[1], id[2]>>
  BY DEF Ids

LEMMA ExistingRow ==
  ASSUME TypeOK, NEW id \in Ids, Exists(id)
  PROVE  /\ RowOf(id) \in Row
         /\ id[1] \in Scopes
         /\ id[2] \in 1 .. Len(entitlement[id[1]])
<1>1. id[1] \in Scopes /\ id[2] \in 1 .. MaxRows
  BY IdParts
<1>2. entitlement[id[1]] \in Seq(Row)
  BY <1>1 DEF TypeOK
<1>3. Len(entitlement[id[1]]) \in Nat
  BY <1>2, LenProperties
<1>4. id[2] \in 1 .. Len(entitlement[id[1]])
  BY <1>1, <1>3, RowsAssumption DEF Exists
<1> QED BY <1>1, <1>2, <1>4, ElementOfSeq DEF RowOf

(* The rows of the active Permissions are in the table.                    *)
LEMMA UnendedExist == ActiveIds \subseteq Unended /\ \A id \in Unended : id \in Ids /\ Exists(id) /\ RowOf(id).end = "no"
  BY DEF ActiveIds, Unended

(* A table that replaces each row of the Permissions by a row.             *)
LEMMA TableOfRows ==
  ASSUME TypeOK, NEW T, T = [s \in Scopes |-> T[s]],
         \A s \in Scopes : T[s] = [n \in DOMAIN entitlement[s] |-> T[s][n]],
         \A s \in Scopes : \A n \in DOMAIN entitlement[s] : T[s][n] \in Row
  PROVE  /\ T \in [Scopes -> Seq(Row)]
         /\ \A s \in Scopes : Len(T[s]) = Len(entitlement[s])
<1>1. ASSUME NEW s \in Scopes PROVE T[s] \in Seq(Row) /\ Len(T[s]) = Len(entitlement[s])
  <2>1. entitlement[s] \in Seq(Row)
    BY DEF TypeOK
  <2>2. Len(entitlement[s]) \in Nat /\ DOMAIN entitlement[s] = 1 .. Len(entitlement[s])
    BY <2>1, LenProperties
  <2>3. T[s] \in [1 .. Len(entitlement[s]) -> Row]
    BY <2>2
  <2>4. T[s] \in Seq(Row)
    BY <2>2, <2>3, SeqDef
  <2>5. Len(T[s]) \in Nat /\ DOMAIN T[s] = 1 .. Len(T[s])
    BY <2>4, LenProperties
  <2> QED BY <2>2, <2>3, <2>4, <2>5
<1> QED BY <1>1

(* The bound on the Permissions bounds those of each scope.                *)
LEMMA RoomForOne ==
  ASSUME TypeOK, NEW S \in SUBSET Scopes, Room(S), NEW s \in S
  PROVE  Len(entitlement[s]) + 1 <= MaxRows
<1>1. PICK n \in Nat : n = Len(entitlement[s]) /\ n <= MaxRows
  <2>1. entitlement[s] \in Seq(Row)
    BY DEF TypeOK
  <2> QED BY <2>1, LenProperties DEF TypeOK
<1> DEFINE E == {id \in Ids : Exists(id)}
           R == {s} \X (1 .. n)
<1>0. ASSUME NEW m \in Nat PROVE IsFiniteSet(1 .. m) /\ Cardinality(1 .. m) = m
  <2>1. /\ IsFiniteSet(1 .. m)
        /\ Cardinality(1 .. m) = IF 1 > m THEN 0 ELSE m - 1 + 1
    <3>1. 1 \in Int /\ m \in Int
      OBVIOUS
    <3> QED BY ONLY <3>1, FS_Interval
  <2> QED BY <2>1
<1>2. IsFiniteSet(1 .. MaxRows) /\ IsFiniteSet(1 .. n) /\ Cardinality(1 .. n) = n
  BY <1>0, <1>1, RowsAssumption
<1>3. IsFiniteSet(Ids)
  BY <1>2, ScopesAssumption, FS_Product DEF Ids
<1>4. IsFiniteSet(E)
  BY <1>3, FS_Subset
<1>5. IsFiniteSet({s}) /\ Cardinality({s}) = 1
  BY FS_Singleton
<1>6. Cardinality(R) = n
  <2>1. Cardinality(R) = Cardinality({s}) * Cardinality(1 .. n)
    BY <1>2, <1>5, FS_Product
  <2> QED BY <1>2, <1>5, <2>1
<1>7. R \subseteq E
  BY <1>1, RowsAssumption DEF Exists, Ids
<1> HIDE DEF R, E
<1>8. Cardinality(R) <= Cardinality(E)
  BY <1>4, <1>7, FS_Subset
<1>9. IsFiniteSet(S)
  BY ScopesAssumption, FS_Subset
<1>10. Cardinality({s}) <= Cardinality(S)
  BY <1>9, FS_Subset
<1>11. Cardinality(E) \in Nat /\ Cardinality(S) \in Nat
  BY <1>4, <1>9, FS_CardinalityType
<1>12. Cardinality(E) + Cardinality(S) <= MaxRows
  BY DEF Room, E
<1> QED BY <1>1, <1>5, <1>6, <1>8, <1>10, <1>11, <1>12, RowsAssumption

(* A table of as many rows, given a new row for some of the scopes.        *)
LEMMA GrownTable ==
  ASSUME TypeOK, NEW T \in [Scopes -> Seq(Row)],
         \A s \in Scopes : Len(T[s]) = Len(entitlement[s]),
         NEW S \in SUBSET Scopes, Room(S), NEW row \in Row
  PROVE  /\ WithNew(T, S, row) \in [Scopes -> Seq(Row)]
         /\ \A s \in Scopes :
              /\ Len(WithNew(T, S, row)[s]) <= MaxRows
              /\ Len(WithNew(T, S, row)[s]) = IF s \in S THEN Len(T[s]) + 1 ELSE Len(T[s])
              /\ \A n \in 1 .. Len(T[s]) : WithNew(T, S, row)[s][n] = T[s][n]
              /\ s \in S => WithNew(T, S, row)[s][Len(T[s]) + 1] = row
<1> DEFINE U == WithNew(T, S, row)
<1>1. U = [s \in Scopes |-> IF s \in S THEN Append(T[s], row) ELSE T[s]]
  BY DEF WithNew
<1>2. ASSUME NEW s \in Scopes
      PROVE  /\ U[s] \in Seq(Row)
             /\ Len(U[s]) <= MaxRows
             /\ Len(U[s]) = IF s \in S THEN Len(T[s]) + 1 ELSE Len(T[s])
             /\ \A n \in 1 .. Len(T[s]) : U[s][n] = T[s][n]
             /\ s \in S => U[s][Len(T[s]) + 1] = row
  <2>1. T[s] \in Seq(Row) /\ Len(T[s]) \in Nat
    BY LenProperties
  <2>2. CASE s \in S
    <3>1. U[s] = Append(T[s], row)
      BY <1>1, <2>2
    <3>2. Len(T[s]) + 1 <= MaxRows
      BY <2>2, RoomForOne
    <3> QED BY <2>1, <2>2, <3>1, <3>2, AppendProperties
  <2>3. CASE s \notin S
    BY <1>1, <2>1, <2>3 DEF TypeOK
  <2> QED BY <2>2, <2>3
<1>3. U \in [Scopes -> Seq(Row)]
  BY <1>1, <1>2
<1> HIDE DEF U
<1> QED BY <1>2, <1>3 DEF U

-----------------------------------------------------------------------------
(* What no step undoes: a Permission stays in the table with its source,   *)
(* does not come back to life and does not become one-time; a token that   *)
(* was issued stays so, and one revoked at the target stays dead.          *)
RowKept(old, new) ==
  /\ new.source = old.source
  /\ old.end # "no" => new.end # "no"
  /\ new.mode = "once" => old.mode = "once"

RowsKept == \A id \in Ids : Exists(id) => Exists(id)' /\ RowKept(RowOf(id), RowOf(id)')

TargetsKept ==
  \A l \in Leases :
    /\ target[l] = "dead" => target'[l] = "dead"
    /\ target[l] # "none" => target'[l] # "none"

(* A Permission from an access request is given while the Resource Server  *)
(* is enabled.                                                             *)
NewRowsAllowed ==
  \A id \in Ids : Exists(id)' /\ ~Exists(id) => resource = "enabled" \/ RowOf(id)'.source = None

TableTyped ==
  /\ entitlement' \in [Scopes -> Seq(Row)]
  /\ \A s \in Scopes : Len(entitlement'[s]) <= MaxRows

LEMMA SameTable ==
  ASSUME TypeOK, UNCHANGED entitlement
  PROVE  RowsKept /\ NewRowsAllowed /\ TableTyped
  BY DEF RowsKept, RowKept, NewRowsAllowed, TableTyped, TypeOK, Exists, RowOf

LEMMA RowsReplaced ==
  ASSUME TypeOK, entitlement' = [s \in Scopes |-> entitlement'[s]],
         \A s \in Scopes : entitlement'[s] = [n \in DOMAIN entitlement[s] |-> entitlement'[s][n]],
         \A s \in Scopes : \A n \in DOMAIN entitlement[s] :
           entitlement'[s][n] \in Row /\ RowKept(entitlement[s][n], entitlement'[s][n])
  PROVE  RowsKept /\ NewRowsAllowed /\ TableTyped
<1>1. PICK T : T = entitlement'
  OBVIOUS
<1>2. /\ T \in [Scopes -> Seq(Row)]
      /\ \A s \in Scopes : Len(T[s]) = Len(entitlement[s])
  BY <1>1, TableOfRows
<1>3. TableTyped
  BY <1>1, <1>2 DEF TableTyped, TypeOK
<1>4. ASSUME NEW id \in Ids PROVE Exists(id)' <=> Exists(id)
  BY <1>1, <1>2, IdParts DEF Exists
<1>5. ASSUME NEW id \in Ids, Exists(id) PROVE RowKept(RowOf(id), RowOf(id)')
  <2>1. id[1] \in Scopes /\ id[2] \in 1 .. Len(entitlement[id[1]])
    BY <1>5, ExistingRow
  <2>2. entitlement[id[1]] \in Seq(Row)
    BY <2>1 DEF TypeOK
  <2>3. id[2] \in DOMAIN entitlement[id[1]]
    BY <2>1, <2>2, LenProperties
  <2> QED BY <2>1, <2>3 DEF RowOf
<1> QED BY <1>3, <1>4, <1>5 DEF RowsKept, NewRowsAllowed

LEMMA RowsAdded ==
  ASSUME TypeOK, NEW T, T = [s \in Scopes |-> T[s]],
         \A s \in Scopes : T[s] = [n \in DOMAIN entitlement[s] |-> T[s][n]],
         \A s \in Scopes : \A n \in DOMAIN entitlement[s] :
           T[s][n] \in Row /\ RowKept(entitlement[s][n], T[s][n]),
         NEW S \in SUBSET Scopes, Room(S), NEW row \in Row,
         S # {} => resource = "enabled" \/ row.source = None,
         entitlement' = WithNew(T, S, row)
  PROVE  RowsKept /\ NewRowsAllowed /\ TableTyped
<1>1. /\ T \in [Scopes -> Seq(Row)]
      /\ \A s \in Scopes : Len(T[s]) = Len(entitlement[s])
  BY TableOfRows
<1>2. /\ TableTyped
      /\ \A s \in Scopes :
           /\ Len(entitlement'[s]) = IF s \in S THEN Len(entitlement[s]) + 1 ELSE Len(entitlement[s])
           /\ \A n \in 1 .. Len(entitlement[s]) : entitlement'[s][n] = T[s][n]
           /\ s \in S => entitlement'[s][Len(entitlement[s]) + 1] = row
  <2>1. /\ WithNew(T, S, row) \in [Scopes -> Seq(Row)]
        /\ \A s \in Scopes :
              /\ Len(WithNew(T, S, row)[s]) <= MaxRows
              /\ Len(WithNew(T, S, row)[s]) = IF s \in S THEN Len(T[s]) + 1 ELSE Len(T[s])
              /\ \A n \in 1 .. Len(T[s]) : WithNew(T, S, row)[s][n] = T[s][n]
              /\ s \in S => WithNew(T, S, row)[s][Len(T[s]) + 1] = row
    BY <1>1, GrownTable
  <2>2. TableTyped
    BY <2>1 DEF TableTyped
  <2>3. ASSUME NEW s \in Scopes
        PROVE  /\ Len(entitlement'[s]) = IF s \in S THEN Len(entitlement[s]) + 1 ELSE Len(entitlement[s])
               /\ \A n \in 1 .. Len(entitlement[s]) : entitlement'[s][n] = T[s][n]
               /\ s \in S => entitlement'[s][Len(entitlement[s]) + 1] = row
    BY <1>1, <2>1
  <2> QED BY <2>2, <2>3
<1>3. ASSUME NEW id \in Ids, Exists(id)
      PROVE  Exists(id)' /\ RowKept(RowOf(id), RowOf(id)')
  <2>1. id[1] \in Scopes /\ id[2] \in 1 .. Len(entitlement[id[1]])
    BY <1>3, ExistingRow
  <2>2. entitlement[id[1]] \in Seq(Row)
    BY <2>1 DEF TypeOK
  <2>3. id[2] \in DOMAIN entitlement[id[1]] /\ Len(entitlement[id[1]]) \in Nat
    BY <2>1, <2>2, LenProperties
  <2>4. RowKept(entitlement[id[1]][id[2]], T[id[1]][id[2]])
    BY <2>1, <2>3
  <2>5. entitlement'[id[1]][id[2]] = T[id[1]][id[2]]
    BY <1>2, <2>1
  <2>6. PICK m \in Nat : m = Len(entitlement[id[1]])
    BY <2>3
  <2>a. Len(entitlement'[id[1]]) = m \/ Len(entitlement'[id[1]]) = m + 1
    <3>1. PICK s \in Scopes : s = id[1]
      BY <2>1
    <3> QED BY <1>2, <2>6, <3>1
  <2>7. id[2] \in Nat /\ id[2] <= m
    BY <2>1, <2>6
  <2>8. Exists(id)'
    BY <2>a, <2>7 DEF Exists
  <2> QED BY <2>4, <2>5, <2>8 DEF RowOf
<1>4. ASSUME NEW id \in Ids, Exists(id)', ~Exists(id)
      PROVE  resource = "enabled" \/ RowOf(id)'.source = None
  <2>1. id[1] \in Scopes /\ id[2] \in 1 .. MaxRows
    BY IdParts
  <2>2. entitlement[id[1]] \in Seq(Row)
    BY <2>1 DEF TypeOK
  <2>3. Len(entitlement[id[1]]) \in Nat
    BY <2>2, LenProperties
  <2>a. PICK m \in Nat : m = Len(entitlement[id[1]])
    BY <2>3
  <2>b. PICK n \in Nat : n = id[2]
    BY <2>1, RowsAssumption
  <2>c. Len(entitlement'[id[1]]) = IF id[1] \in S THEN m + 1 ELSE m
    <3>1. PICK s \in Scopes : s = id[1]
      BY <2>1
    <3> QED BY <1>2, <2>a, <3>1
  <2>4. n <= (IF id[1] \in S THEN m + 1 ELSE m) /\ ~(n <= m)
    BY <1>4, <2>a, <2>b, <2>c DEF Exists
  <2>5. id[1] \in S /\ id[2] = Len(entitlement[id[1]]) + 1
    BY <2>4, <2>a, <2>b
  <2>6. RowOf(id)' = row
    BY <1>2, <2>1, <2>5 DEF RowOf
  <2> QED BY <2>5, <2>6
<1> QED BY <1>2, <1>3, <1>4 DEF RowsKept, NewRowsAllowed

-----------------------------------------------------------------------------
(* The parts of the invariant under these frames.                          *)

LEMMA AwaitEffect ==
  ASSUME TypeOK, NEW w \in Handlers, NEW step \in Steps, NEW c \in Context, Await(w, step, c)
  PROVE  /\ pc' \in [Handlers -> Steps] /\ ctx' \in [Handlers -> Context]
         /\ pc'[w] = step /\ ctx'[w] = c
         /\ \A v \in Handlers \ {w} : pc'[v] = pc[v] /\ ctx'[v] = ctx[v]
  BY DEF TypeOK, Await

LEMMA SeenStays ==
  ASSUME RowsKept, TargetsKept, NEW step \in Steps, NEW c \in Context, Given(step, c), Seen(step, c)
  PROVE  Seen(step, c)'
<1>1. c.read \subseteq Ids /\ c.posted \subseteq Leases
  BY DEF Context
<1>2. step \in {"i_post", "i_lease"} =>
        \A id \in c.read : Exists(id)' /\ (RowOf(id)'.mode = "once" => id \in c.weak)
  BY <1>1 DEF Seen, RowsKept, RowKept
<1>3. \A l \in c.posted : target'[l] = "dead"
  BY <1>1 DEF Seen, TargetsKept
<1>4. step = "i_lease" => target'[c.lease] # "none"
  BY DEF Seen, Given, TargetsKept
<1> QED BY <1>2, <1>3, <1>4 DEF Seen

LEMMA HandlerArrives ==
  ASSUME TypeOK, HandlersSound, RowsKept, TargetsKept,
         NEW w \in Handlers, NEW step \in Steps, NEW c \in Context,
         Await(w, step, c), Given(step, c), Seen(step, c)'
  PROVE  HandlersSound'
<1>1. /\ pc'[w] = step /\ ctx'[w] = c
      /\ \A v \in Handlers \ {w} : pc'[v] = pc[v] /\ ctx'[v] = ctx[v]
  BY AwaitEffect
<1>3. \A v \in Handlers : Seen(pc[v], ctx[v]) /\ pc[v] \in Steps /\ ctx[v] \in Context
  BY DEF HandlersSound, TypeOK
<1>4. ASSUME NEW v \in Handlers, v # w PROVE Given(pc[v], ctx[v])' /\ Seen(pc[v], ctx[v])'
  <2>1. PICK s \in Steps, d \in Context : s = pc[v] /\ d = ctx[v]
    BY <1>3
  <2>2. Seen(s, d) /\ Given(s, d)
    BY <2>1 DEF HandlersSound
  <2>3. Seen(s, d)' /\ Given(s, d)'
    BY <2>2, SeenStays DEF Given
  <2>4. pc'[v] = s /\ ctx'[v] = d
    BY <1>1, <1>4, <2>1
  <2> QED BY <2>3, <2>4 DEF Seen, Given, Exists, RowOf
<1>5. Given(pc[w], ctx[w])' /\ Seen(pc[w], ctx[w])'
  BY <1>1 DEF Given, Seen, Exists, RowOf
<1> QED BY <1>4, <1>5 DEF HandlersSound

LEMMA HandlerMoves ==
  ASSUME TypeOK, HandlersSound, RowsKept, TargetsKept,
         NEW w \in Handlers, NEW step \in Steps, NEW c \in Context,
         Await(w, step, c), Given(step, c), Seen(step, c)
  PROVE  HandlersSound'
<1>1. PICK s \in Steps, d \in Context : s = step /\ d = c
  OBVIOUS
<1>2. Seen(s, d)'
  BY <1>1, SeenStays
<1> QED BY <1>1, <1>2, HandlerArrives

LEMMA NoHandlerMoves ==
  ASSUME TypeOK, HandlersSound, RowsKept, TargetsKept, UNCHANGED <<pc, ctx>>
  PROVE  HandlersSound'
<1> SUFFICES ASSUME NEW v \in Handlers PROVE Given(pc[v], ctx[v])' /\ Seen(pc[v], ctx[v])'
  BY DEF HandlersSound
<1>1. PICK s \in Steps, d \in Context : s = pc[v] /\ d = ctx[v]
  BY DEF TypeOK
<1>2. Seen(s, d) /\ Given(s, d)
  BY <1>1 DEF HandlersSound
<1>3. Seen(s, d)' /\ Given(s, d)'
  BY <1>2, SeenStays DEF Given
<1> QED BY <1>1, <1>3 DEF Seen, Given, Exists, RowOf

LEMMA NothingCarried ==
  NoContext \in Context /\ Given("idle", NoContext) /\ Seen("idle", NoContext) /\ "idle" \in Steps
  BY DEF NoContext, Context, Given, Seen, Modes, Steps

(* The Permissions each lease was issued for do not change.                *)
LEMMA LeasesKept ==
  ASSUME TypeOK, LeasedHasEnded, OneLeasePerOnce, RowsKept, \A l \in Leases : lease'[l].ids = lease[l].ids
  PROVE  LeasedHasEnded' /\ OneLeasePerOnce'
<1>1. \A l \in Leases : lease[l].ids \subseteq Ids
  BY DEF TypeOK, Lease, NoRow
<1>2. LeasedHasEnded'
  BY <1>1 DEF LeasedHasEnded, RowsKept, RowKept
<1>3. OneLeasePerOnce'
  BY <1>1 DEF OneLeasePerOnce, LeasedHasEnded, RowsKept, RowKept
<1> QED BY <1>2, <1>3

(* Of a deleted Resource Server nothing comes back.                        *)
LEMMA DeletedStays ==
  ASSUME NothingForDeletedResource, RowsKept, NewRowsAllowed, resource' = "deleted" => resource = "deleted",
         resource = "deleted" =>
           /\ \A r \in Requests : request'[r].status = "pending" => request[r].status = "pending"
           /\ \A l \in Leases : lease[l].revoked => lease'[l].revoked
  PROVE  NothingForDeletedResource'
<1> SUFFICES ASSUME resource' = "deleted"
             PROVE  /\ \A r \in Requests : request'[r].status # "pending"
                    /\ \A id \in Unended' : RowOf(id)'.source = None
                    /\ \A l \in Leases : lease'[l].revoked
  BY DEF NothingForDeletedResource
<1>1. resource = "deleted"
  OBVIOUS
<1>2. \A id \in Unended : RowOf(id).source = None
  BY <1>1 DEF NothingForDeletedResource
<1>3. ASSUME NEW id \in Unended' PROVE RowOf(id)'.source = None
  <2>1. id \in Ids /\ Exists(id)' /\ RowOf(id)'.end = "no"
    BY DEF Unended
  <2>2. CASE Exists(id)
    <3>1. RowKept(RowOf(id), RowOf(id)')
      BY <2>1, <2>2 DEF RowsKept
    <3>2. id \in Unended
      BY <2>1, <2>2, <3>1 DEF Unended, RowKept
    <3> QED BY <1>2, <3>1, <3>2 DEF RowKept
  <2>3. CASE ~Exists(id)
    BY <1>1, <2>1, <2>3 DEF NewRowsAllowed
  <2> QED BY <2>2, <2>3
<1> QED BY <1>1, <1>3 DEF NothingForDeletedResource

(* A handler that only reads, and moves on or answers.                     *)
LEMMA OnlyMoves ==
  ASSUME IInv, UNCHANGED rows, NEW w \in Handlers, NEW step \in Steps, NEW c \in Context,
         Await(w, step, c), Given(step, c), Seen(step, c)
  PROVE  IInv'
<1>1. UNCHANGED <<resource, agent, connection, request, entitlement, lease, target>>
  BY DEF rows
<1>2. RowsKept /\ NewRowsAllowed /\ TargetsKept
  BY <1>1, SameTable DEF IInv, TargetsKept
<1>3. HandlersSound'
  BY <1>2, HandlerMoves DEF IInv
<1>4. TypeOK'
  BY <1>1, AwaitEffect DEF IInv, TypeOK
<1>5. LeasedHasEnded' /\ OneLeasePerOnce'
  BY <1>1, <1>2, LeasesKept DEF IInv
<1>6. RevokedLeaseIsDead' /\ LeasesAreOfTokens'
  BY <1>1 DEF IInv, RevokedLeaseIsDead, LeasesAreOfTokens
<1>7. NothingForDeletedResource'
  BY <1>1, <1>2, DeletedStays DEF IInv
<1> QED BY <1>3, <1>4, <1>5, <1>6, <1>7 DEF IInv

LEMMA OnlyAnswers ==
  ASSUME IInv, UNCHANGED rows, NEW w \in Handlers, Answer(w)
  PROVE  IInv'
  BY NothingCarried, OnlyMoves DEF Answer

LEMMA InitEstablishes == Init => IInv
<1> SUFFICES ASSUME Init PROVE IInv
  OBVIOUS
<1> USE DEF Init
<1>1. TypeOK
  <2>1. entitlement \in [Scopes -> Seq(Row)] /\ \A s \in Scopes : Len(entitlement[s]) = 0
    BY EmptySeq
  <2>2. \A s \in Scopes : Len(entitlement[s]) <= MaxRows
    BY <2>1, RowsAssumption
  <2>3. request \in [Requests -> Request] /\ lease \in [Leases -> Lease \cup {NoRow}]
    BY DEF Request
  <2>4. ctx \in [Handlers -> Context] /\ pc \in [Handlers -> Steps]
    BY NothingCarried
  <2> QED BY <2>1, <2>2, <2>3, <2>4 DEF TypeOK
<1>2. HandlersSound
  BY NothingCarried DEF HandlersSound
<1>3. LeasedHasEnded /\ OneLeasePerOnce /\ LeasesAreOfTokens
  BY DEF LeasedHasEnded, OneLeasePerOnce, LeasesAreOfTokens, NoRow
<1>4. RevokedLeaseIsDead /\ NothingForDeletedResource
  BY DEF RevokedLeaseIsDead, NothingForDeletedResource
<1> QED BY <1>1, <1>2, <1>3, <1>4 DEF IInv

-----------------------------------------------------------------------------
(* The steps that only read.                                               *)

LEMMA HandlerFacts ==
  ASSUME IInv, NEW w \in Handlers
  PROVE  ctx[w] \in Context /\ pc[w] \in Steps /\ Given(pc[w], ctx[w]) /\ Seen(pc[w], ctx[w])
  BY DEF IInv, TypeOK, HandlersSound

LEMMA ActiveIdsTyped == ActiveIds \subseteq Ids /\ Unended \subseteq Ids
  BY DEF ActiveIds, Unended

(* An invocation that carries at most rows it has found, at an await where *)
(* no request, scope or token need be known.                               *)
FreeSteps == {"idle", "a_pending", "a_insert", "v_list", "v_next", "v_post", "v_mark",
              "v_end", "v_connection", "c_upsert", "c_list"}

LEMMA FreeMove ==
  ASSUME NEW step \in FreeSteps, NEW c \in Context, \A l \in c.posted : target[l] = "dead"
  PROVE  step \in Steps /\ Given(step, c) /\ Seen(step, c)
  BY DEF FreeSteps, Steps, Given, Seen

LEMMA AskBeginStep ==
  ASSUME IInv, NEW w \in Handlers, NEW scopes \in SUBSET Scopes, AskBegin(w, scopes)
  PROVE  IInv'
<1>1. PICK found \in SUBSET Ids, step \in {"a_insert", "a_pending"} :
        Await(w, step, [NoContext EXCEPT !.scopes = scopes, !.read = found])
  <2> DEFINE reusable == {id \in ActiveIds : connection = "active" /\ id[1] \in scopes}
             covered == \A s \in scopes : \E id \in reusable : id[1] = s
  <2>1. Await(w, IF covered THEN "a_insert" ELSE "a_pending",
           [NoContext EXCEPT !.scopes = scopes, !.read = IF covered THEN reusable ELSE {}])
    BY DEF AskBegin
  <2>2. reusable \in SUBSET Ids
    BY ActiveIdsTyped
  <2> HIDE DEF reusable, covered
  <2> QED BY <2>1, <2>2
<1> DEFINE c == [NoContext EXCEPT !.scopes = scopes, !.read = found]
<1>2. c \in Context /\ c.posted = {}
  BY NothingCarried DEF NoContext, Context
<1>3. Await(w, step, c) /\ UNCHANGED rows
  BY <1>1 DEF AskBegin
<1> HIDE DEF c
<1>4. step \in FreeSteps
  BY DEF FreeSteps
<1>5. step \in Steps /\ Given(step, c) /\ Seen(step, c)
  BY <1>2, <1>4, FreeMove
<1> QED BY <1>2, <1>3, <1>5, OnlyMoves

(* Moving on with what is carried.                                         *)
LEMMA GoesOn ==
  ASSUME IInv, UNCHANGED rows, NEW w \in Handlers, NEW step \in Steps, Goto(w, step),
         Given(step, ctx[w]), Seen(step, ctx[w])
  PROVE  IInv'
  BY HandlerFacts, OnlyMoves DEF Goto

LEMMA ListPendingStep ==
  ASSUME IInv, NEW w \in Handlers, ListPending(w)
  PROVE  IInv'
<1>1. CASE Answer(w)
  BY <1>1, OnlyAnswers DEF ListPending
<1>2. CASE Goto(w, "a_insert")
  <2>1. Given("a_insert", ctx[w]) /\ Seen("a_insert", ctx[w]) /\ "a_insert" \in Steps
    BY HandlerFacts DEF Given, Seen, Steps
  <2> QED BY <1>2, <2>1, GoesOn DEF ListPending
<1> QED BY <1>1, <1>2 DEF ListPending

(* Beginning with a request in hand.                                       *)
LEMMA DecisionBegins ==
  ASSUME IInv, NEW w \in Handlers, NEW r \in Requests,
         \/ \E mode \in DecisionModes : ApproveBegin(w, r, mode)
         \/ DenyBegin(w, r)
  PROVE  IInv'
<1>1. PICK c \in Context, step \in {"p_list", "x_batch"} :
        Await(w, step, c) /\ c.posted = {} /\ c.request = r
  <2>1. ASSUME NEW mode \in DecisionModes, ApproveBegin(w, r, mode)
        PROVE  /\ Await(w, "p_list", [NoContext EXCEPT !.request = r, !.mode = mode])
               /\ [NoContext EXCEPT !.request = r, !.mode = mode] \in Context
    BY <2>1, NothingCarried, ModesAssumption DEF ApproveBegin, Context, Modes
  <2>2. ASSUME DenyBegin(w, r)
        PROVE  /\ Await(w, "x_batch", [NoContext EXCEPT !.request = r])
               /\ [NoContext EXCEPT !.request = r] \in Context
    BY <2>2, NothingCarried DEF DenyBegin, Context
  <2> QED BY <2>1, <2>2 DEF NoContext
<1>2. UNCHANGED rows
  BY DEF ApproveBegin, DenyBegin
<1>3. step \in Steps /\ Given(step, c) /\ Seen(step, c)
  BY <1>1 DEF Steps, Given, Seen
<1> QED BY <1>1, <1>2, <1>3, OnlyMoves

LEMMA ListEntitlementsStep ==
  ASSUME IInv, NEW w \in Handlers, ListEntitlements(w)
  PROVE  IInv'
<1>0. ctx[w] \in Context /\ ctx[w].request \in Requests /\ \A l \in ctx[w].posted : target[l] = "dead"
  BY HandlerFacts DEF ListEntitlements, Given, Seen
<1>1. PICK found \in SUBSET Ids, weak \in SUBSET Ids :
        Await(w, "p_batch", [ctx[w] EXCEPT !.read = found, !.weak = weak])
  <2> DEFINE found == {id \in ActiveIds : id[1] \in request[ctx[w].request].scopes}
             weak == {id \in found : RowOf(id).mode # "persistent"}
  <2>1. Await(w, "p_batch", [ctx[w] EXCEPT !.read = found, !.weak = weak])
    BY DEF ListEntitlements
  <2>2. found \in SUBSET Ids /\ weak \in SUBSET Ids
    BY ActiveIdsTyped
  <2> HIDE DEF found, weak
  <2> QED BY <2>1, <2>2
<1> DEFINE c == [ctx[w] EXCEPT !.read = found, !.weak = weak]
<1>2. c \in Context /\ c.posted = ctx[w].posted /\ c.request = ctx[w].request
  BY <1>0 DEF Context
<1>3. Await(w, "p_batch", c) /\ UNCHANGED rows
  BY <1>1 DEF ListEntitlements
<1> HIDE DEF c
<1>4. "p_batch" \in Steps /\ Given("p_batch", c) /\ Seen("p_batch", c)
  BY <1>0, <1>2 DEF Steps, Given, Seen
<1> QED BY <1>2, <1>3, <1>4, OnlyMoves

LEMMA ApproveAgainStep ==
  ASSUME IInv, NEW w \in Handlers, ApproveAgain(w)
  PROVE  IInv'
<1>1. CASE Answer(w)
  BY <1>1, OnlyAnswers DEF ApproveAgain
<1>2. CASE Await(w, "p_list", [ctx[w] EXCEPT !.retry = FALSE])
  <2>0. ctx[w] \in Context /\ ctx[w].request \in Requests /\ \A l \in ctx[w].posted : target[l] = "dead"
    BY HandlerFacts DEF ApproveAgain, Given, Seen
  <2> DEFINE c == [ctx[w] EXCEPT !.retry = FALSE]
  <2>1. c \in Context /\ c.posted = ctx[w].posted /\ c.request = ctx[w].request
    BY <2>0 DEF Context
  <2>2. Await(w, "p_list", c) /\ UNCHANGED rows
    BY <1>2 DEF ApproveAgain
  <2> HIDE DEF c
  <2>3. "p_list" \in Steps /\ Given("p_list", c) /\ Seen("p_list", c)
    BY <2>0, <2>1 DEF Steps, Given, Seen
  <2> QED BY <2>1, <2>2, <2>3, OnlyMoves
<1> QED BY <1>1, <1>2 DEF ApproveAgain

LEMMA GrantBeginStep ==
  ASSUME IInv, NEW w \in Handlers, NEW s \in Scopes, NEW mode \in DirectModes, GrantBegin(w, s, mode)
  PROVE  IInv'
<1> DEFINE c == [NoContext EXCEPT !.scopes = {s}, !.mode = mode]
<1>1. mode \in Modes /\ mode # "once"
  BY ModesAssumption DEF Modes
<1>2. c \in Context /\ c.posted = {} /\ c.scopes = {s} /\ c.mode # "once"
  BY <1>1, NothingCarried DEF NoContext, Context
<1>3. Await(w, "g_find", c) /\ UNCHANGED rows
  BY DEF GrantBegin
<1> HIDE DEF c
<1>4. "g_find" \in Steps /\ Given("g_find", c) /\ Seen("g_find", c)
  BY <1>2 DEF Steps, Given, Seen
<1> QED BY <1>2, <1>3, <1>4, OnlyMoves

LEMMA FindEquivalentStep ==
  ASSUME IInv, NEW w \in Handlers, FindEquivalent(w)
  PROVE  IInv'
<1>0. /\ ctx[w] \in Context
      /\ ctx[w].mode # "once" /\ \E s \in Scopes : ctx[w].scopes = {s}
      /\ \A l \in ctx[w].posted : target[l] = "dead"
  BY HandlerFacts DEF FindEquivalent, Given, Seen
<1>1. UNCHANGED rows
  BY DEF FindEquivalent
<1>2. \/ Answer(w) \/ Goto(w, "g_insert")
      \/ \E found \in SUBSET Ids, step \in {"g_replace", "g_extend"} :
           Await(w, step, [ctx[w] EXCEPT !.read = found])
  <2> DEFINE found == {id \in Unended : id[1] = CHOOSE t \in Scopes : ctx[w].scopes = {t}}
  <2>1. found \in SUBSET Ids
    BY ActiveIdsTyped
  <2>2. \/ Answer(w) \/ Goto(w, "g_insert")
        \/ Await(w, "g_replace", [ctx[w] EXCEPT !.read = found])
        \/ Await(w, "g_extend", [ctx[w] EXCEPT !.read = found])
    BY DEF FindEquivalent
  <2> HIDE DEF found
  <2> QED BY <2>1, <2>2
<1>3. CASE Answer(w)
  BY <1>1, <1>3, OnlyAnswers
<1>4. CASE Goto(w, "g_insert")
  <2>1. Given("g_insert", ctx[w]) /\ Seen("g_insert", ctx[w]) /\ "g_insert" \in Steps
    BY <1>0 DEF Given, Seen, Steps
  <2> QED BY <1>1, <1>4, <2>1, GoesOn
<1>5. ASSUME NEW found \in SUBSET Ids, NEW step \in {"g_replace", "g_extend"},
             Await(w, step, [ctx[w] EXCEPT !.read = found])
      PROVE  IInv'
  <2> DEFINE c == [ctx[w] EXCEPT !.read = found]
  <2>1. /\ c \in Context /\ c.posted = ctx[w].posted
        /\ c.mode = ctx[w].mode /\ c.scopes = ctx[w].scopes
    BY <1>0 DEF Context
  <2>2. Await(w, step, c)
    BY <1>5
  <2> HIDE DEF c
  <2>3. step \in Steps /\ Given(step, c) /\ Seen(step, c)
    BY <1>0, <2>1 DEF Steps, Given, Seen
  <2> QED BY <1>1, <2>1, <2>2, <2>3, OnlyMoves
<1> QED BY <1>2, <1>3, <1>4, <1>5

LEMMA IssueBeginStep ==
  ASSUME IInv, NEW w \in Handlers, NEW r \in Requests, IssueBegin(w, r)
  PROVE  IInv'
<1> DEFINE c == [NoContext EXCEPT !.request = r, !.read = ActiveIds,
                    !.weak = {id \in ActiveIds : RowOf(id).mode = "once"}]
<1>1. /\ c \in Context /\ c.posted = {} /\ c.request = r
      /\ c.read = ActiveIds /\ c.weak = {id \in ActiveIds : RowOf(id).mode = "once"}
  BY ActiveIdsTyped, NothingCarried DEF NoContext, Context
<1>2. Await(w, "i_post", c) /\ UNCHANGED rows
  BY DEF IssueBegin
<1> HIDE DEF c
<1>3. "i_post" \in Steps /\ Given("i_post", c) /\ Seen("i_post", c)
  BY <1>1, UnendedExist DEF Steps, Given, Seen
<1> QED BY <1>1, <1>2, <1>3, OnlyMoves

LEMMA FreelyMoves ==
  ASSUME IInv, UNCHANGED rows, NEW w \in Handlers, NEW step \in FreeSteps, NEW c \in Context,
         Await(w, step, c), \A l \in c.posted : target[l] = "dead"
  PROVE  IInv'
<1>1. step \in Steps /\ Given(step, c) /\ Seen(step, c)
  BY FreeMove
<1> QED BY <1>1, OnlyMoves

LEMMA PostedDead ==
  ASSUME IInv, NEW w \in Handlers
  PROVE  ctx[w] \in Context /\ \A l \in ctx[w].posted : target[l] = "dead"
  BY HandlerFacts DEF Seen

LEMMA RevokeBeginStep ==
  ASSUME IInv, NEW w \in Handlers, NEW id \in Ids, RevokeBegin(w, id)
  PROVE  IInv'
<1> DEFINE c == [NoContext EXCEPT !.kind = "permission", !.todo = {id}]
<1>1. c \in Context /\ c.posted = {}
  BY NothingCarried DEF NoContext, Context
<1>2. Await(w, "v_next", c) /\ UNCHANGED rows
  BY DEF RevokeBegin
<1> HIDE DEF c
<1> QED BY <1>1, <1>2, FreelyMoves DEF FreeSteps

LEMMA DisconnectBeginStep ==
  ASSUME IInv, NEW w \in Handlers, DisconnectBegin(w)
  PROVE  IInv'
<1> DEFINE c == [NoContext EXCEPT !.kind = "connection"]
<1>1. c \in Context /\ c.posted = {}
  BY NothingCarried DEF NoContext, Context
<1>2. Await(w, "v_list", c) /\ UNCHANGED rows
  BY DEF DisconnectBegin
<1> HIDE DEF c
<1> QED BY <1>1, <1>2, FreelyMoves DEF FreeSteps

LEMMA ListActiveStep ==
  ASSUME IInv, NEW w \in Handlers, ListActive(w)
  PROVE  IInv'
<1> DEFINE c == [ctx[w] EXCEPT !.todo = ActiveIds]
<1>1. c \in Context /\ c.posted = ctx[w].posted
  BY PostedDead, ActiveIdsTyped DEF Context
<1>2. Await(w, "v_next", c) /\ UNCHANGED rows
  BY DEF ListActive
<1>3. \A l \in c.posted : target[l] = "dead"
  BY <1>1, PostedDead
<1> HIDE DEF c
<1> QED BY <1>1, <1>2, <1>3, FreelyMoves DEF FreeSteps

LEMMA NextPermissionStep ==
  ASSUME IInv, NEW w \in Handlers, NEW id \in Ids, NextPermission(w, id)
  PROVE  IInv'
<1> DEFINE c == [ctx[w] EXCEPT !.todo = @ \ {id}, !.ended = {id},
                               !.leases = LeasesOf(id), !.posted = {}]
<1>1. LeasesOf(id) \in SUBSET Leases
  BY DEF LeasesOf
<1>2. c \in Context /\ c.posted = {}
  BY <1>1, PostedDead DEF Context
<1>3. UNCHANGED rows /\ (Await(w, "v_post", c) \/ Answer(w))
  BY DEF NextPermission
<1> HIDE DEF c
<1> QED BY <1>2, <1>3, FreelyMoves, OnlyAnswers DEF FreeSteps

LEMMA LastPermissionStep ==
  ASSUME IInv, NEW w \in Handlers, LastPermission(w)
  PROVE  IInv'
<1>1. UNCHANGED rows /\ (Await(w, "v_connection", ctx[w]) \/ Answer(w))
  BY DEF LastPermission, Goto
<1> QED BY <1>1, PostedDead, FreelyMoves, OnlyAnswers DEF FreeSteps

LEMMA ReconnectBeginStep ==
  ASSUME IInv, NEW w \in Handlers, ReconnectBegin(w)
  PROVE  IInv'
<1>1. UNCHANGED rows /\ Await(w, "c_upsert", ctx[w])
  BY DEF ReconnectBegin, Goto
<1> QED BY <1>1, PostedDead, FreelyMoves DEF FreeSteps

LEMMA ListUncoveredStep ==
  ASSUME IInv, NEW w \in Handlers, NEW granted \in SUBSET Scopes, ListUncovered(w, granted)
  PROVE  IInv'
<1> DEFINE uncovered == {id \in ActiveIds : id[1] \notin granted}
           c == [ctx[w] EXCEPT !.kind = "uncovered", !.todo = uncovered]
<1>1. UNCHANGED rows /\ (Await(w, "v_next", c) \/ Answer(w))
  BY DEF ListUncovered
<1>2. uncovered \in SUBSET Ids
  BY ActiveIdsTyped
<1> HIDE DEF uncovered
<1>3. c \in Context /\ c.posted = ctx[w].posted
  BY <1>2, PostedDead DEF Context
<1>4. \A l \in c.posted : target[l] = "dead"
  BY <1>3, PostedDead
<1> HIDE DEF c
<1> QED BY <1>1, <1>3, <1>4, FreelyMoves, OnlyAnswers DEF FreeSteps

-----------------------------------------------------------------------------
(* The steps that write.                                                   *)

RowsTyped ==
  /\ resource \in {"enabled", "disabled", "deleted"}
  /\ agent \in {"active", "inactive"}
  /\ connection \in {"active", "revoked"}
  /\ request \in [Requests -> Request]
  /\ lease \in [Leases -> Lease \cup {NoRow}]
  /\ target \in [Leases -> {"none", "live", "dead"}]

LEMMA Writes ==
  ASSUME IInv, NEW w \in Handlers, NEW step \in Steps, NEW c \in Context,
         Await(w, step, c), Given(step, c), Seen(step, c),
         RowsTyped', TableTyped, RowsKept, NewRowsAllowed, TargetsKept,
         LeasedHasEnded', OneLeasePerOnce', LeasesAreOfTokens', RevokedLeaseIsDead',
         resource' = "deleted" => resource = "deleted",
         resource = "deleted" =>
           /\ \A r \in Requests : request'[r].status = "pending" => request[r].status = "pending"
           /\ \A l \in Leases : lease[l].revoked => lease'[l].revoked
  PROVE  IInv'
<1>1. TypeOK'
  BY AwaitEffect DEF IInv, TypeOK, RowsTyped, TableTyped
<1>2. HandlersSound'
  BY HandlerMoves DEF IInv
<1>3. NothingForDeletedResource'
  BY DeletedStays DEF IInv
<1> QED BY <1>1, <1>2, <1>3 DEF IInv

(* Leases and tokens stay as they are.                                     *)
LEMMA WritesElsewhere ==
  ASSUME IInv, NEW w \in Handlers, NEW step \in Steps, NEW c \in Context,
         Await(w, step, c), Given(step, c), Seen(step, c),
         UNCHANGED <<resource, lease, target>>,
         agent' \in {"active", "inactive"}, connection' \in {"active", "revoked"},
         request' \in [Requests -> Request],
         TableTyped, RowsKept, NewRowsAllowed,
         resource = "deleted" =>
           \A r \in Requests : request'[r].status = "pending" => request[r].status = "pending"
  PROVE  IInv'
<1>1. RowsTyped' /\ TargetsKept
  BY DEF IInv, TypeOK, RowsTyped, TargetsKept
<1>2. LeasedHasEnded' /\ OneLeasePerOnce'
  BY LeasesKept DEF IInv
<1>3. RevokedLeaseIsDead' /\ LeasesAreOfTokens'
  BY DEF IInv, RevokedLeaseIsDead, LeasesAreOfTokens
<1> QED BY <1>1, <1>2, <1>3, Writes

LEMMA RowsAreRows ==
  ASSUME TypeOK
  PROVE  \A s \in Scopes : \A n \in DOMAIN entitlement[s] : entitlement[s][n] \in Row
<1> SUFFICES ASSUME NEW s \in Scopes, NEW n \in DOMAIN entitlement[s] PROVE entitlement[s][n] \in Row
  OBVIOUS
<1>1. entitlement[s] \in Seq(Row)
  BY DEF TypeOK
<1> QED BY <1>1, LenProperties, ElementOfSeq

LEMMA RowChanges ==
  ASSUME NEW row \in Row
  PROVE  /\ RowKept(row, row)
         /\ \A mode \in Modes : mode # "once" => Extended(row, mode) \in Row /\ RowKept(row, Extended(row, mode))
         /\ \A e \in {"revoked", "consumed", "expired"} :
              [row EXCEPT !.end = e] \in Row /\ RowKept(row, [row EXCEPT !.end = e])
  BY DEF Row, RowKept, Extended

LEMMA CreateRequestStep ==
  ASSUME IInv, NEW w \in Handlers, NEW r \in Requests, CreateRequest(w, r)
  PROVE  IInv'
<1>1. UNCHANGED <<resource, agent, connection, entitlement, lease, target>> /\ Answer(w)
  BY DEF CreateRequest
<1>2. request' \in [Requests -> Request]
  <2>1. ctx[w].scopes \in SUBSET Scopes /\ request \in [Requests -> Request]
    BY HandlerFacts DEF Context, IInv, TypeOK
  <2> DEFINE new == [scopes |-> ctx[w].scopes,
                     status |-> IF ctx[w].read # {} THEN "approved" ELSE "pending"]
  <2>2. new \in Request
    BY <2>1 DEF Request
  <2>3. request' = request \/ request' = [request EXCEPT ![r] = new]
    BY DEF CreateRequest
  <2> HIDE DEF new
  <2> QED BY <2>1, <2>2, <2>3
<1>3. resource = "deleted" => request' = request
  BY DEF CreateRequest, Askable
<1>4. TableTyped /\ RowsKept /\ NewRowsAllowed
  BY <1>1, SameTable DEF IInv
<1>5. agent' \in {"active", "inactive"} /\ connection' \in {"active", "revoked"}
  BY <1>1 DEF IInv, TypeOK
<1> QED BY <1>1, <1>2, <1>3, <1>4, <1>5, NothingCarried, WritesElsewhere DEF Answer

LEMMA DenyStep ==
  ASSUME IInv, NEW w \in Handlers, Deny(w)
  PROVE  IInv'
<1>1. UNCHANGED <<resource, agent, connection, entitlement, lease, target>> /\ Answer(w)
  BY DEF Deny
<1>2. request' \in [Requests -> Request]
      /\ \A r \in Requests : request'[r].status = "pending" => request[r].status = "pending"
  BY DEF Deny, IInv, TypeOK, Request
<1>4. TableTyped /\ RowsKept /\ NewRowsAllowed
  BY <1>1, SameTable DEF IInv
<1>5. agent' \in {"active", "inactive"} /\ connection' \in {"active", "revoked"}
  BY <1>1 DEF IInv, TypeOK
<1> QED BY <1>1, <1>2, <1>4, <1>5, NothingCarried, WritesElsewhere DEF Answer

LEMMA ConnectionStep ==
  ASSUME IInv, NEW w \in Handlers, StopAgent(w) \/ RevokeConnection(w) \/ Reconnect(w)
  PROVE  IInv'
<1>1. UNCHANGED <<resource, request, entitlement, lease, target>>
  BY DEF StopAgent, RevokeConnection, Reconnect
<1>2. PICK step \in FreeSteps, c \in Context :
        Await(w, step, c) /\ \A l \in c.posted : target[l] = "dead"
  <2>1. CASE StopAgent(w)
    <3>1. [NoContext EXCEPT !.kind = "agent"] \in Context /\ [NoContext EXCEPT !.kind = "agent"].posted = {}
      BY NothingCarried DEF NoContext, Context
    <3> QED BY <2>1, <3>1 DEF StopAgent, FreeSteps
  <2>2. CASE RevokeConnection(w)
    BY <2>2, NothingCarried DEF RevokeConnection, Answer, FreeSteps, NoContext
  <2>3. CASE Reconnect(w)
    BY <2>3, PostedDead DEF Reconnect, Goto, FreeSteps
  <2> QED BY <2>1, <2>2, <2>3
<1>3. step \in Steps /\ Given(step, c) /\ Seen(step, c)
  BY <1>2, FreeMove
<1>4. TableTyped /\ RowsKept /\ NewRowsAllowed
  BY <1>1, SameTable DEF IInv
<1>5. /\ agent' \in {"active", "inactive"} /\ connection' \in {"active", "revoked"}
      /\ request' \in [Requests -> Request]
  BY <1>1 DEF IInv, TypeOK, StopAgent, RevokeConnection, Reconnect
<1> QED BY <1>1, <1>2, <1>3, <1>4, <1>5, WritesElsewhere

LEMMA ApproveStep ==
  ASSUME IInv, NEW w \in Handlers, Approve(w)
  PROVE  IInv'
<1> DEFINE r == ctx[w].request
           mode == ctx[w].mode
           T == [s \in Scopes |-> [n \in DOMAIN entitlement[s] |->
                   IF <<s, n>> \in ctx[w].weak /\ entitlement[s][n].end = "no" /\ mode # "once"
                     THEN Extended(entitlement[s][n], mode) ELSE entitlement[s][n]]]
<1>1. r \in Requests /\ mode \in Modes
  BY HandlerFacts DEF Approve, Given, Context
<1>2. /\ entitlement' = WithNew(T, Insertable(w), Granted(mode, r))
      /\ Room(Insertable(w))
      /\ UNCHANGED <<resource, agent, connection, lease, target>>
  BY DEF Approve, EachRow
<1>3. \A s \in Scopes : \A n \in DOMAIN entitlement[s] :
        T[s][n] \in Row /\ RowKept(entitlement[s][n], T[s][n])
  BY <1>1, RowsAreRows, RowChanges DEF IInv
<1>4. /\ T = [s \in Scopes |-> T[s]]
      /\ \A s \in Scopes : T[s] = [n \in DOMAIN entitlement[s] |-> T[s][n]]
  OBVIOUS
<1>5. Insertable(w) \in SUBSET Scopes /\ (Insertable(w) # {} => resource = "enabled")
  BY <1>1 DEF Insertable, Missing, IInv, TypeOK, Request
<1>6. Granted(mode, r) \in Row
  BY <1>1 DEF Granted, Row
<1> HIDE DEF T
<1>7. TableTyped /\ RowsKept /\ NewRowsAllowed
  BY <1>2, <1>3, <1>4, <1>5, <1>6, RowsAdded DEF IInv
<1>8. /\ request' \in [Requests -> Request]
      /\ \A q \in Requests : request'[q].status = "pending" => request[q].status = "pending"
  BY <1>1 DEF Approve, IInv, TypeOK, Request
<1>9. PICK step \in Steps, c \in Context : Await(w, step, c) /\ Given(step, c) /\ Seen(step, c)
  <2>1. CASE Answer(w)
    BY <2>1, NothingCarried DEF Answer
  <2>2. CASE Await(w, "p_again", [ctx[w] EXCEPT !.read = {}, !.weak = {}])
    <3> DEFINE c == [ctx[w] EXCEPT !.read = {}, !.weak = {}]
    <3>1. c \in Context /\ c.posted = ctx[w].posted /\ c.request = r
      BY PostedDead DEF Context
    <3> HIDE DEF c
    <3>2. "p_again" \in Steps /\ Given("p_again", c) /\ Seen("p_again", c)
      BY <1>1, <3>1, PostedDead DEF Steps, Given, Seen
    <3> QED BY <2>2, <3>1, <3>2 DEF c
  <2> QED BY <2>1, <2>2 DEF Approve
<1>10. agent' \in {"active", "inactive"} /\ connection' \in {"active", "revoked"}
  BY <1>2 DEF IInv, TypeOK
<1> QED BY <1>2, <1>7, <1>8, <1>9, <1>10, WritesElsewhere

(* The rows of a grant: what its invocation carries.                       *)
LEMMA GrantFacts ==
  ASSUME IInv, NEW w \in Handlers, pc[w] \in {"g_insert", "g_replace", "g_extend"}
  PROVE  /\ ctx[w].mode \in Modes /\ ctx[w].mode # "once"
         /\ ctx[w].scopes \in SUBSET Scopes
         /\ Granted(ctx[w].mode, None) \in Row /\ Granted(ctx[w].mode, None).source = None
<1>1. /\ ctx[w].mode \in Modes /\ ctx[w].mode # "once"
      /\ ctx[w].scopes \in SUBSET Scopes
  BY HandlerFacts DEF Given, Context
<1> QED BY <1>1 DEF Granted, Row

LEMMA TableIsTable ==
  ASSUME TypeOK
  PROVE  /\ entitlement = [s \in Scopes |-> entitlement[s]]
         /\ \A s \in Scopes : entitlement[s] = [n \in DOMAIN entitlement[s] |-> entitlement[s][n]]
<1>1. ASSUME NEW s \in Scopes PROVE entitlement[s] = [n \in DOMAIN entitlement[s] |-> entitlement[s][n]]
  <2>1. entitlement[s] \in Seq(Row)
    BY DEF TypeOK
  <2>2. entitlement[s] \in [1 .. Len(entitlement[s]) -> Row]
    BY <2>1, LenProperties
  <2> QED BY <2>2
<1> QED BY <1>1 DEF TypeOK

LEMMA InsertGrantStep ==
  ASSUME IInv, NEW w \in Handlers, InsertGrant(w)
  PROVE  IInv'
<1>1. /\ pc[w] = "g_insert" /\ Room(ctx[w].scopes)
      /\ UNCHANGED <<resource, agent, connection, request, lease, target>>
  BY DEF InsertGrant
<1>2. TableTyped /\ RowsKept /\ NewRowsAllowed
  <2>1. CASE entitlement' = entitlement
    BY <2>1, SameTable DEF IInv
  <2>2. CASE entitlement' = WithNew(entitlement, ctx[w].scopes, Granted(ctx[w].mode, None))
    <3>1. \A s \in Scopes : \A n \in DOMAIN entitlement[s] :
            entitlement[s][n] \in Row /\ RowKept(entitlement[s][n], entitlement[s][n])
      BY RowsAreRows, RowChanges DEF IInv
    <3>2. TypeOK
      BY DEF IInv
    <3> QED BY <1>1, <2>2, <3>1, <3>2, GrantFacts, TableIsTable, RowsAdded
  <2> QED BY <2>1, <2>2 DEF InsertGrant
<1>3. PICK step \in Steps, c \in Context : Await(w, step, c) /\ Given(step, c) /\ Seen(step, c)
  <2>1. CASE Answer(w)
    BY <2>1, NothingCarried DEF Answer
  <2>2. CASE Goto(w, "g_again")
    <3>1. "g_again" \in Steps /\ Given("g_again", ctx[w]) /\ Seen("g_again", ctx[w])
      BY <1>1, HandlerFacts DEF Steps, Given, Seen
    <3> QED BY <2>2, <3>1, HandlerFacts DEF Goto
  <2> QED BY <2>1, <2>2 DEF InsertGrant
<1>4. /\ agent' \in {"active", "inactive"} /\ connection' \in {"active", "revoked"}
      /\ request' \in [Requests -> Request]
  BY <1>1 DEF IInv, TypeOK
<1> QED BY <1>1, <1>2, <1>3, <1>4, WritesElsewhere

LEMMA ReplaceExpiredStep ==
  ASSUME IInv, NEW w \in Handlers, ReplaceExpired(w)
  PROVE  IInv'
<1> DEFINE T == [s \in Scopes |-> [n \in DOMAIN entitlement[s] |->
                   IF <<s, n>> \in ctx[w].read THEN [entitlement[s][n] EXCEPT !.end = "expired"]
                                               ELSE entitlement[s][n]]]
<1>1. /\ pc[w] = "g_replace" /\ Room(ctx[w].scopes) /\ Answer(w)
      /\ UNCHANGED <<resource, agent, connection, request, lease, target>>
      /\ \/ entitlement' = entitlement
         \/ entitlement' = WithNew(T, ctx[w].scopes, Granted(ctx[w].mode, None))
  BY DEF ReplaceExpired, EachRow
<1>2. TableTyped /\ RowsKept /\ NewRowsAllowed
  <2>1. CASE entitlement' = entitlement
    BY <2>1, SameTable DEF IInv
  <2>2. CASE entitlement' = WithNew(T, ctx[w].scopes, Granted(ctx[w].mode, None))
    <3>1. \A s \in Scopes : \A n \in DOMAIN entitlement[s] :
            T[s][n] \in Row /\ RowKept(entitlement[s][n], T[s][n])
      BY RowsAreRows, RowChanges DEF IInv
    <3>2. /\ T = [s \in Scopes |-> T[s]]
          /\ \A s \in Scopes : T[s] = [n \in DOMAIN entitlement[s] |-> T[s][n]]
      OBVIOUS
    <3>3. TypeOK
      BY DEF IInv
    <3> HIDE DEF T
    <3> QED BY <1>1, <2>2, <3>1, <3>2, <3>3, GrantFacts, RowsAdded
  <2> QED BY <1>1, <2>1, <2>2
<1>3. /\ agent' \in {"active", "inactive"} /\ connection' \in {"active", "revoked"}
      /\ request' \in [Requests -> Request]
  BY <1>1 DEF IInv, TypeOK
<1> HIDE DEF T
<1> QED BY <1>1, <1>2, <1>3, NothingCarried, WritesElsewhere DEF Answer

LEMMA ExtendGrantStep ==
  ASSUME IInv, NEW w \in Handlers, ExtendGrant(w)
  PROVE  IInv'
<1>1. /\ pc[w] = "g_extend" /\ Answer(w)
      /\ UNCHANGED <<resource, agent, connection, request, lease, target>>
      /\ entitlement' = [s \in Scopes |-> [n \in DOMAIN entitlement[s] |->
           IF <<s, n>> \in ctx[w].read THEN Extended(entitlement[s][n], ctx[w].mode)
                                       ELSE entitlement[s][n]]]
  BY DEF ExtendGrant, EachRow
<1>2. TableTyped /\ RowsKept /\ NewRowsAllowed
  <2>1. \A s \in Scopes : \A n \in DOMAIN entitlement[s] :
          entitlement'[s][n] \in Row /\ RowKept(entitlement[s][n], entitlement'[s][n])
    BY <1>1, GrantFacts, RowsAreRows, RowChanges DEF IInv
  <2>2. /\ entitlement' = [s \in Scopes |-> entitlement'[s]]
        /\ \A s \in Scopes : entitlement'[s] = [n \in DOMAIN entitlement[s] |-> entitlement'[s][n]]
    BY <1>1
  <2> QED BY <2>1, <2>2, RowsReplaced DEF IInv
<1>3. /\ agent' \in {"active", "inactive"} /\ connection' \in {"active", "revoked"}
      /\ request' \in [Requests -> Request]
  BY <1>1 DEF IInv, TypeOK
<1> QED BY <1>1, <1>2, <1>3, NothingCarried, WritesElsewhere DEF Answer

LEMMA TargetIssuesStep ==
  ASSUME IInv, NEW w \in Handlers, NEW l \in Leases, TargetIssues(w, l)
  PROVE  IInv'
<1>1. /\ pc[w] = "i_post" /\ target[l] = "none" /\ target' = [target EXCEPT ![l] = "live"]
      /\ Await(w, "i_lease", [ctx[w] EXCEPT !.lease = l])
      /\ UNCHANGED <<resource, agent, connection, request, entitlement, lease>>
  BY DEF TargetIssues
<1>2. PICK c \in Context :
         /\ Await(w, "i_lease", c)
         /\ c.posted = ctx[w].posted /\ c.request = ctx[w].request
         /\ c.read = ctx[w].read /\ c.weak = ctx[w].weak /\ c.lease = l
  <2> DEFINE c == [ctx[w] EXCEPT !.lease = l]
  <2>1. /\ c \in Context /\ c.posted = ctx[w].posted /\ c.request = ctx[w].request
        /\ c.read = ctx[w].read /\ c.weak = ctx[w].weak /\ c.lease = l
    BY HandlerFacts DEF Context
  <2>2. Await(w, "i_lease", c)
    BY <1>1
  <2> HIDE DEF c
  <2> QED BY <2>1, <2>2
<1>3. Given("i_lease", c)
  BY <1>1, <1>2, HandlerFacts DEF Given
<1>4. RowsTyped' /\ TargetsKept
  BY <1>1 DEF IInv, TypeOK, RowsTyped, TargetsKept
<1>5. TableTyped /\ RowsKept /\ NewRowsAllowed
  BY <1>1, SameTable DEF IInv
<1>6. Seen("i_lease", c)'
  <2>1. /\ \A id \in c.read : Exists(id) /\ (RowOf(id).mode = "once" => id \in c.weak)
        /\ \A k \in c.posted : target[k] = "dead"
    BY <1>1, <1>2, HandlerFacts DEF Seen
  <2>2. c.posted \subseteq Leases
    BY DEF Context
  <2>3. target'[l] # "none"
    BY <1>1 DEF IInv, TypeOK
  <2> QED BY <1>1, <1>2, <1>4, <2>1, <2>2, <2>3 DEF Seen, TargetsKept, Exists, RowOf
<1>7. HandlersSound'
  BY <1>2, <1>3, <1>4, <1>5, <1>6, HandlerArrives DEF IInv, Steps
<1>8. LeasedHasEnded' /\ OneLeasePerOnce'
  BY <1>1, <1>5, LeasesKept DEF IInv
<1>9. RevokedLeaseIsDead' /\ LeasesAreOfTokens'
  BY <1>1 DEF IInv, TypeOK, RevokedLeaseIsDead, LeasesAreOfTokens
<1>10. TypeOK'
  BY <1>2, <1>4, <1>5, AwaitEffect DEF IInv, TypeOK, RowsTyped, TableTyped, Steps
<1>11. NothingForDeletedResource'
  BY <1>1, <1>5, DeletedStays DEF IInv
<1> QED BY <1>7, <1>8, <1>9, <1>10, <1>11 DEF IInv

LEMMA ExceptSame ==
  ASSUME NEW f, NEW D, f = [x \in D |-> f[x]], NEW a \in D
  PROVE  [f EXCEPT ![a] = f[a]] = f
  OBVIOUS

(* Leases are marked revoked.                                              *)
LEMMA MarkedLeases ==
  ASSUME TypeOK, NEW L, lease' = Marked(L)
  PROVE  /\ lease' \in [Leases -> Lease \cup {NoRow}]
         /\ \A l \in Leases :
              /\ lease'[l].ids = lease[l].ids
              /\ lease[l].revoked => lease'[l].revoked
              /\ l \notin L => lease'[l] = lease[l]
              /\ l \in L => lease'[l].revoked
              /\ lease'[l] # NoRow => lease[l] # NoRow
<1>1. ASSUME NEW l \in Leases
      PROVE  /\ lease'[l] \in Lease \cup {NoRow}
             /\ lease'[l].ids = lease[l].ids
             /\ lease[l].revoked => lease'[l].revoked
             /\ l \notin L => lease'[l] = lease[l]
             /\ l \in L => lease'[l].revoked
             /\ lease'[l] # NoRow => lease[l] # NoRow
  <2>1. lease'[l] = IF l \in L THEN [lease[l] EXCEPT !.revoked = TRUE] ELSE lease[l]
    BY DEF Marked
  <2>2. CASE lease[l] = NoRow
    <3>1. [NoRow EXCEPT !.revoked = TRUE] = NoRow
      <4>1. NoRow = [x \in {"revoked", "ids"} |-> NoRow[x]] /\ NoRow.revoked = TRUE
        BY DEF NoRow
      <4> QED BY <4>1, ExceptSame
    <3>2. lease'[l] = NoRow
      BY <2>1, <2>2, <3>1
    <3> QED BY <2>2, <3>2 DEF NoRow
  <2>3. CASE lease[l] \in Lease
    <3>1. [lease[l] EXCEPT !.revoked = TRUE] \in Lease
          /\ [lease[l] EXCEPT !.revoked = TRUE].ids = lease[l].ids
          /\ [lease[l] EXCEPT !.revoked = TRUE].revoked = TRUE
      BY <2>3 DEF Lease
    <3>2. lease[l] # NoRow
      <4>1. lease[l].request \in Requests /\ DOMAIN lease[l] = {"request", "ids", "revoked"}
        BY <2>3 DEF Lease
      <4> QED BY <4>1 DEF NoRow
    <3> QED BY <2>1, <2>3, <3>1, <3>2
  <2> QED BY <2>2, <2>3 DEF TypeOK
<1>2. lease' = [l \in Leases |-> lease'[l]]
  BY DEF Marked
<1> QED BY <1>1, <1>2

(* Marking leases whose tokens are dead.                                   *)
LEMMA MarkedAreDead ==
  ASSUME IInv, UNCHANGED <<resource, target>>, NEW L, lease' = Marked(L),
         \A l \in L : target[l] = "dead", RowsKept
  PROVE  /\ lease' \in [Leases -> Lease \cup {NoRow}]
         /\ LeasedHasEnded' /\ OneLeasePerOnce' /\ LeasesAreOfTokens' /\ RevokedLeaseIsDead'
         /\ \A l \in Leases : lease[l].revoked => lease'[l].revoked
<1>1. TypeOK
  BY DEF IInv
<1>2. /\ lease' \in [Leases -> Lease \cup {NoRow}]
      /\ \A l \in Leases :
              /\ lease'[l].ids = lease[l].ids
              /\ lease[l].revoked => lease'[l].revoked
              /\ l \notin L => lease'[l] = lease[l]
              /\ lease'[l] # NoRow => lease[l] # NoRow
  BY <1>1, MarkedLeases
<1>3. LeasedHasEnded' /\ OneLeasePerOnce'
  BY <1>2, LeasesKept DEF IInv
<1>4. LeasesAreOfTokens'
  BY <1>2 DEF IInv, LeasesAreOfTokens
<1>5. RevokedLeaseIsDead'
  BY <1>2 DEF IInv, RevokedLeaseIsDead
<1> QED BY <1>2, <1>3, <1>4, <1>5

LEMMA MarkLeaseStep ==
  ASSUME IInv, NEW w \in Handlers, MarkLease(w)
  PROVE  IInv'
<1>1. /\ lease' = Marked(ctx[w].posted) /\ Await(w, "v_post", ctx[w])
      /\ UNCHANGED <<resource, agent, connection, request, entitlement, target>>
  BY DEF MarkLease, Goto
<1>2. TableTyped /\ RowsKept /\ NewRowsAllowed
  BY <1>1, SameTable DEF IInv
<1>3. /\ lease' \in [Leases -> Lease \cup {NoRow}]
      /\ LeasedHasEnded' /\ OneLeasePerOnce' /\ LeasesAreOfTokens' /\ RevokedLeaseIsDead'
      /\ \A l \in Leases : lease[l].revoked => lease'[l].revoked
  BY <1>1, <1>2, PostedDead, MarkedAreDead
<1>4. RowsTyped' /\ TargetsKept
  BY <1>1, <1>3 DEF IInv, TypeOK, RowsTyped, TargetsKept
<1>5. "v_post" \in Steps /\ Given("v_post", ctx[w]) /\ Seen("v_post", ctx[w])
  BY PostedDead, FreeMove DEF FreeSteps
<1> QED BY <1>1, <1>2, <1>3, <1>4, <1>5, HandlerFacts, Writes

LEMMA EndPermissionStep ==
  ASSUME IInv, NEW w \in Handlers, EndPermission(w)
  PROVE  IInv'
<1> DEFINE c == [ctx[w] EXCEPT !.ended = {}, !.posted = {}]
<1>1. /\ lease' = Marked(ctx[w].posted) /\ Await(w, "v_next", c)
      /\ UNCHANGED <<resource, agent, connection, request, target>>
      /\ entitlement' = [s \in Scopes |-> [n \in DOMAIN entitlement[s] |->
           IF <<s, n>> \in ctx[w].ended /\ entitlement[s][n].end = "no"
             THEN [entitlement[s][n] EXCEPT !.end = "revoked"] ELSE entitlement[s][n]]]
  BY DEF EndPermission, EachRow, Posted
<1>2. TableTyped /\ RowsKept /\ NewRowsAllowed
  <2>1. \A s \in Scopes : \A n \in DOMAIN entitlement[s] :
          entitlement'[s][n] \in Row /\ RowKept(entitlement[s][n], entitlement'[s][n])
    BY <1>1, RowsAreRows, RowChanges DEF IInv
  <2>2. /\ entitlement' = [s \in Scopes |-> entitlement'[s]]
        /\ \A s \in Scopes : entitlement'[s] = [n \in DOMAIN entitlement[s] |-> entitlement'[s][n]]
    BY <1>1
  <2> QED BY <2>1, <2>2, RowsReplaced DEF IInv
<1>3. /\ lease' \in [Leases -> Lease \cup {NoRow}]
      /\ LeasedHasEnded' /\ OneLeasePerOnce' /\ LeasesAreOfTokens' /\ RevokedLeaseIsDead'
      /\ \A l \in Leases : lease[l].revoked => lease'[l].revoked
  BY <1>1, <1>2, PostedDead, MarkedAreDead
<1>4. RowsTyped' /\ TargetsKept
  BY <1>1, <1>3 DEF IInv, TypeOK, RowsTyped, TargetsKept
<1>5. c \in Context /\ c.posted = {}
  BY PostedDead DEF Context
<1> HIDE DEF c
<1>6. "v_next" \in Steps /\ Given("v_next", c) /\ Seen("v_next", c)
  BY <1>5, FreeMove DEF FreeSteps
<1> QED BY <1>1, <1>2, <1>3, <1>4, <1>5, <1>6, Writes

LEMMA PostRevocationStep ==
  ASSUME IInv, NEW w \in Handlers, NEW l \in Leases, PostRevocation(w, l)
  PROVE  IInv'
<1>1. /\ resource # "deleted" /\ target' = [target EXCEPT ![l] = "dead"]
      /\ UNCHANGED <<resource, agent, connection, request, entitlement, lease>>
  BY DEF PostRevocation
<1>2. PICK step \in FreeSteps, c \in Context :
         Await(w, step, c) /\ c.posted = ctx[w].posted \cup {l}
  <2> DEFINE c == [ctx[w] EXCEPT !.leases = @ \ {l}, !.posted = @ \cup {l}]
  <2>1. c \in Context /\ c.posted = ctx[w].posted \cup {l}
    BY PostedDead DEF Context
  <2>2. Await(w, "v_mark", c) \/ Await(w, "v_post", c)
    BY DEF PostRevocation
  <2> HIDE DEF c
  <2> QED BY <2>1, <2>2 DEF FreeSteps
<1>3. TableTyped /\ RowsKept /\ NewRowsAllowed
  BY <1>1, SameTable DEF IInv
<1>4. RowsTyped' /\ TargetsKept
  BY <1>1 DEF IInv, TypeOK, RowsTyped, TargetsKept
<1>5. step \in Steps /\ Given(step, c)
  BY DEF FreeSteps, Steps, Given
<1>6. \A k \in c.posted : target'[k] = "dead"
  <2>1. ctx[w].posted \subseteq Leases
    BY PostedDead DEF Context
  <2>2. target'[l] = "dead"
    BY <1>1 DEF IInv, TypeOK
  <2> QED BY <1>2, <1>4, <2>1, <2>2, PostedDead DEF TargetsKept
<1>7. Seen(step, c)'
  BY <1>6 DEF Seen, FreeSteps
<1>8. HandlersSound'
  BY <1>2, <1>3, <1>4, <1>5, <1>7, HandlerArrives DEF IInv
<1>9. LeasedHasEnded' /\ OneLeasePerOnce'
  BY <1>1, <1>3, LeasesKept DEF IInv
<1>10. RevokedLeaseIsDead' /\ LeasesAreOfTokens'
  BY <1>1 DEF IInv, TypeOK, RevokedLeaseIsDead, LeasesAreOfTokens
<1>11. TypeOK'
  BY <1>2, <1>3, <1>4, <1>5, AwaitEffect DEF IInv, TypeOK, RowsTyped, TableTyped
<1>12. NothingForDeletedResource'
  BY <1>1, <1>3, DeletedStays DEF IInv
<1> QED BY <1>8, <1>9, <1>10, <1>11, <1>12 DEF IInv

(* The one-time Permissions of a lease end with its insertion.             *)
LEMMA LeaseInserted ==
  ASSUME IInv, NEW w \in Handlers, InsertLease(w), Leasable(w)
  PROVE  IInv'
<1>1. PICK r, l, ids, weak :
        r = ctx[w].request /\ l = ctx[w].lease /\ ids = ctx[w].read /\ weak = ctx[w].weak
  OBVIOUS
<1>2. /\ r \in Requests /\ l \in Leases /\ ids \in SUBSET Ids /\ target[l] # "none"
      /\ \A id \in ids : Exists(id) /\ (RowOf(id).mode = "once" => id \in weak)
  BY <1>1, HandlerFacts DEF InsertLease, Given, Seen, Context
<1>3. /\ UNCHANGED <<resource, agent, connection, target>>
      /\ lease' = [lease EXCEPT ![l] = [request |-> r, ids |-> ids, revoked |-> FALSE]]
      /\ request' = [request EXCEPT ![r].status = "consumed"]
      /\ Answer(w)
  BY <1>1 DEF InsertLease
<1>4. entitlement' = [s \in Scopes |-> [n \in DOMAIN entitlement[s] |->
           IF <<s, n>> \in weak /\ entitlement[s][n].end = "no"
             THEN [entitlement[s][n] EXCEPT !.end = "consumed"] ELSE entitlement[s][n]]]
  BY <1>1 DEF InsertLease, Consumed, EachRow
<1>5. resource = "enabled" /\ ids \subseteq Unended
  BY <1>1, UnendedExist DEF Leasable
<1>6. TableTyped /\ RowsKept /\ NewRowsAllowed
  <2>1. \A s \in Scopes : \A n \in DOMAIN entitlement[s] :
          entitlement'[s][n] \in Row /\ RowKept(entitlement[s][n], entitlement'[s][n])
    BY <1>4, RowsAreRows, RowChanges DEF IInv
  <2>2. /\ entitlement' = [s \in Scopes |-> entitlement'[s]]
        /\ \A s \in Scopes : entitlement'[s] = [n \in DOMAIN entitlement[s] |-> entitlement'[s][n]]
    BY <1>4
  <2> QED BY <2>1, <2>2, RowsReplaced DEF IInv
<1>7. ASSUME NEW id \in ids, RowOf(id)'.mode = "once"
      PROVE  Exists(id)' /\ RowOf(id).mode = "once" /\ RowOf(id)'.end # "no"
  <2>1. id \in Ids /\ Exists(id) /\ TypeOK
    BY <1>2 DEF IInv
  <2>2. RowKept(RowOf(id), RowOf(id)') /\ Exists(id)'
    BY <1>6, <2>1 DEF RowsKept
  <2>3. RowOf(id).mode = "once" /\ id \in weak
    BY <1>2, <1>7, <2>2 DEF RowKept
  <2>4. id[1] \in Scopes /\ id[2] \in 1 .. Len(entitlement[id[1]]) /\ id = <<id[1], id[2]>> /\ RowOf(id) \in Row
    BY <2>1, ExistingRow, IdParts
  <2>5. entitlement[id[1]] \in Seq(Row)
    BY <2>1, <2>4 DEF TypeOK
  <2>6. id[2] \in DOMAIN entitlement[id[1]]
    BY <2>4, <2>5, LenProperties
  <2>7. RowOf(id)' = [RowOf(id) EXCEPT !.end = "consumed"] \/ RowOf(id).end # "no"
    BY <1>4, <2>3, <2>4, <2>6 DEF RowOf
  <2> QED BY <2>2, <2>3, <2>4, <2>7 DEF RowKept, Row
<1>8. /\ lease'[l].ids = ids /\ ~lease'[l].revoked /\ lease' \in [Leases -> Lease \cup {NoRow}]
      /\ \A k \in Leases \ {l} : lease'[k] = lease[k]
  BY <1>2, <1>3 DEF IInv, TypeOK, Lease
<1>9. \A k \in Leases : lease[k].ids \subseteq Ids
  BY DEF IInv, TypeOK, Lease, NoRow
<1>10. LeasedHasEnded'
  <2>1. ASSUME NEW id \in ids PROVE Exists(id)' /\ (RowOf(id)'.mode = "once" => RowOf(id)'.end # "no")
    BY <1>2, <1>6, <1>7 DEF RowsKept
  <2>2. ASSUME NEW k \in Leases \ {l}, NEW id \in lease[k].ids
        PROVE  Exists(id)' /\ (RowOf(id)'.mode = "once" => RowOf(id)'.end # "no")
    BY <1>6, <1>9 DEF IInv, LeasedHasEnded, RowsKept, RowKept
  <2> QED BY <1>8, <2>1, <2>2 DEF LeasedHasEnded
<1>11. ASSUME NEW k \in Leases \ {l}, NEW id \in ids, id \in lease[k].ids
       PROVE  RowOf(id)'.mode # "once"
  <2>1. RowOf(id).end = "no"
    BY <1>5, UnendedExist
  <2>2. RowOf(id).mode # "once"
    BY <1>11, <2>1 DEF IInv, LeasedHasEnded
  <2> QED BY <1>7, <2>2
<1>12. OneLeasePerOnce'
  <2>1. ASSUME NEW j \in Leases, NEW k \in Leases, NEW id \in lease'[j].ids,
               id \in lease'[k].ids, RowOf(id)'.mode = "once"
        PROVE  j = k
    <3>1. CASE j # l /\ k # l
      <4>1. id \in lease[j].ids /\ id \in lease[k].ids
        BY <1>8, <2>1, <3>1
      <4>2. RowOf(id).mode = "once"
        BY <1>6, <1>9, <2>1, <4>1 DEF IInv, LeasedHasEnded, RowsKept, RowKept
      <4> QED BY <4>1, <4>2 DEF IInv, OneLeasePerOnce
    <3>2. CASE j = l \/ k = l
      BY <1>8, <1>11, <2>1, <3>2
    <3> QED BY <3>1, <3>2
  <2> QED BY <2>1 DEF OneLeasePerOnce
<1>13. LeasesAreOfTokens' /\ RevokedLeaseIsDead'
  BY <1>2, <1>3, <1>8 DEF IInv, LeasesAreOfTokens, RevokedLeaseIsDead
<1>14. RowsTyped' /\ TargetsKept
  <2>1. request' \in [Requests -> Request]
    BY <1>2, <1>3 DEF IInv, TypeOK, Request
  <2> QED BY <1>3, <1>8, <2>1 DEF IInv, TypeOK, RowsTyped, TargetsKept
<1> QED BY <1>3, <1>5, <1>6, <1>10, <1>12, <1>13, <1>14, NothingCarried, Writes DEF Answer

LEMMA InsertLeaseStep ==
  ASSUME IInv, NEW w \in Handlers, InsertLease(w)
  PROVE  IInv'
<1>1. CASE Leasable(w)
  BY <1>1, LeaseInserted
<1>2. CASE ~Leasable(w)
  BY <1>2, OnlyAnswers DEF InsertLease, rows
<1> QED BY <1>1, <1>2

-----------------------------------------------------------------------------
(* Management: no handler moves.                                           *)

LEMMA ManagementWrites ==
  ASSUME IInv, UNCHANGED <<target, pc, ctx>>, RowsTyped', TableTyped, RowsKept,
         LeasedHasEnded', OneLeasePerOnce', LeasesAreOfTokens', RevokedLeaseIsDead',
         NothingForDeletedResource'
  PROVE  IInv'
<1>1. TypeOK'
  BY DEF IInv, TypeOK, RowsTyped, TableTyped
<1>2. TargetsKept
  BY DEF TargetsKept
<1>3. HandlersSound'
  BY <1>2, NoHandlerMoves DEF IInv
<1> QED BY <1>1, <1>3 DEF IInv

(* Leases, requests and tokens stay as they are.                           *)
LEMMA ManagementElsewhere ==
  ASSUME IInv, UNCHANGED <<connection, request, lease, target, pc, ctx>>,
         resource' \in {"enabled", "disabled", "deleted"}, agent' \in {"active", "inactive"},
         resource' = "deleted" <=> resource = "deleted",
         TableTyped, RowsKept, NewRowsAllowed
  PROVE  IInv'
<1>1. RowsTyped'
  BY DEF IInv, TypeOK, RowsTyped
<1>2. LeasedHasEnded' /\ OneLeasePerOnce'
  BY LeasesKept DEF IInv
<1>3. RevokedLeaseIsDead' /\ LeasesAreOfTokens'
  BY DEF IInv, RevokedLeaseIsDead, LeasesAreOfTokens
<1>4. NothingForDeletedResource'
  BY DeletedStays DEF IInv
<1> QED BY <1>1, <1>2, <1>3, <1>4, ManagementWrites

LEMMA SetEnabledStep ==
  ASSUME IInv, NEW status \in {"enabled", "disabled"}, SetEnabled(status)
  PROVE  IInv'
<1>1. /\ UNCHANGED <<agent, connection, request, entitlement, lease, target, pc, ctx>>
      /\ resource # "deleted" /\ resource' = status
  BY DEF SetEnabled
<1>2. TableTyped /\ RowsKept /\ NewRowsAllowed
  BY <1>1, SameTable DEF IInv
<1>3. agent' \in {"active", "inactive"}
  BY <1>1 DEF IInv, TypeOK
<1> QED BY <1>1, <1>2, <1>3, ManagementElsewhere

LEMMA SetAgentStep ==
  ASSUME IInv, NEW status \in {"active", "inactive"}, SetAgent(status)
  PROVE  IInv'
<1>1. /\ UNCHANGED <<resource, connection, request, entitlement, lease, target, pc, ctx>>
      /\ agent' = status
  BY DEF SetAgent
<1>2. TableTyped /\ RowsKept /\ NewRowsAllowed
  BY <1>1, SameTable DEF IInv
<1>3. resource' \in {"enabled", "disabled", "deleted"}
  BY <1>1 DEF IInv, TypeOK
<1> QED BY <1>1, <1>2, <1>3, ManagementElsewhere

LEMMA ExpireStep ==
  ASSUME IInv, NEW id \in Ids, Expire(id)
  PROVE  IInv'
<1>1. /\ UNCHANGED <<resource, agent, connection, request, lease, target, pc, ctx>>
      /\ entitlement' = [entitlement EXCEPT ![id[1]][id[2]].expired = TRUE]
  BY DEF Expire
<1>2. PICK s \in Scopes, n \in DOMAIN entitlement[id[1]] : s = id[1] /\ n = id[2]
  <2>1. Exists(id) /\ TypeOK
    BY UnendedExist DEF Expire, IInv
  <2>2. id[1] \in Scopes /\ id[2] \in 1 .. Len(entitlement[id[1]])
    BY <2>1, ExistingRow
  <2>3. entitlement[id[1]] \in Seq(Row)
    BY <2>1, <2>2 DEF TypeOK
  <2> QED BY <2>2, <2>3, LenProperties
<1>3. /\ \A t \in Scopes \ {s} : entitlement'[t] = entitlement[t]
      /\ entitlement'[s] = [entitlement[s] EXCEPT ![n] = [entitlement[s][n] EXCEPT !.expired = TRUE]]
      /\ entitlement' = [t \in Scopes |-> entitlement'[t]]
  BY <1>1, <1>2 DEF IInv, TypeOK
<1>4. \A t \in Scopes : entitlement[t] = [m \in DOMAIN entitlement[t] |-> entitlement[t][m]]
  BY TableIsTable DEF IInv
<1>5. \A t \in Scopes : entitlement'[t] = [m \in DOMAIN entitlement[t] |-> entitlement'[t][m]]
  BY <1>3, <1>4
<1>6. ASSUME NEW row \in Row
      PROVE  [row EXCEPT !.expired = TRUE] \in Row /\ RowKept(row, [row EXCEPT !.expired = TRUE])
  BY DEF Row, RowKept
<1>7. ASSUME NEW t \in Scopes, NEW m \in DOMAIN entitlement[t]
      PROVE  entitlement'[t][m] \in Row /\ RowKept(entitlement[t][m], entitlement'[t][m])
  <2>1. entitlement[t][m] \in Row
    BY RowsAreRows DEF IInv
  <2>2. CASE t = s /\ m = n
    <3>1. entitlement'[t][m] = [entitlement[t][m] EXCEPT !.expired = TRUE]
      BY <1>2, <1>3, <2>2
    <3> QED BY <2>1, <3>1, <1>6
  <2>3. CASE ~(t = s /\ m = n)
    <3>1. entitlement'[t][m] = entitlement[t][m]
      BY <1>3, <1>4, <2>3
    <3> QED BY <2>1, <3>1, RowChanges
  <2> QED BY <2>2, <2>3
<1>8. TableTyped /\ RowsKept /\ NewRowsAllowed
  BY <1>3, <1>5, <1>7, RowsReplaced DEF IInv
<1>9. resource' \in {"enabled", "disabled", "deleted"} /\ agent' \in {"active", "inactive"}
  BY <1>1 DEF IInv, TypeOK
<1> QED BY <1>1, <1>8, <1>9, ManagementElsewhere

LEMMA DeleteResourceStep ==
  ASSUME IInv, DeleteResource
  PROVE  IInv'
<1>1. /\ UNCHANGED <<agent, target, pc, ctx>>
      /\ resource' = "deleted" /\ connection' = "revoked" /\ request' = Withdrawn
      /\ lease' = Marked({l \in Leases : lease[l] # NoRow})
      /\ entitlement' = [s \in Scopes |-> [n \in DOMAIN entitlement[s] |->
           IF entitlement[s][n].end = "no"
             THEN [entitlement[s][n] EXCEPT !.end = "revoked"] ELSE entitlement[s][n]]]
  BY DEF DeleteResource, EachRow
<1>2. \A s \in Scopes : \A n \in DOMAIN entitlement[s] :
        /\ entitlement'[s][n] \in Row /\ RowKept(entitlement[s][n], entitlement'[s][n])
        /\ entitlement'[s][n].end # "no"
  <2>1. ASSUME NEW row \in Row PROVE [row EXCEPT !.end = "revoked"].end = "revoked"
    BY DEF Row
  <2>2. ASSUME NEW s \in Scopes, NEW n \in DOMAIN entitlement[s]
        PROVE  /\ entitlement[s][n] \in Row
               /\ entitlement'[s][n] = IF entitlement[s][n].end = "no"
                    THEN [entitlement[s][n] EXCEPT !.end = "revoked"] ELSE entitlement[s][n]
    BY <1>1, RowsAreRows DEF IInv
  <2> QED BY <2>1, <2>2, RowChanges
<1>3. TableTyped /\ RowsKept /\ NewRowsAllowed
  <2>1. /\ entitlement' = [s \in Scopes |-> entitlement'[s]]
        /\ \A s \in Scopes : entitlement'[s] = [n \in DOMAIN entitlement[s] |-> entitlement'[s][n]]
    BY <1>1
  <2> QED BY <1>2, <2>1, RowsReplaced DEF IInv
<1>4. PICK L : L = {l \in Leases : lease[l] # NoRow}
  OBVIOUS
<1>5. /\ lease' \in [Leases -> Lease \cup {NoRow}]
      /\ \A l \in Leases :
              /\ lease'[l].ids = lease[l].ids
              /\ l \notin L => lease'[l] = lease[l]
              /\ l \in L => lease'[l].revoked
              /\ lease'[l] # NoRow => lease[l] # NoRow
  BY <1>1, <1>4, MarkedLeases DEF IInv
<1>6. request' \in [Requests -> Request] /\ \A r \in Requests : request'[r].status # "pending"
  BY <1>1 DEF Withdrawn, IInv, TypeOK, Request
<1>7. RowsTyped'
  BY <1>1, <1>5, <1>6 DEF IInv, TypeOK, RowsTyped
<1>8. LeasedHasEnded' /\ OneLeasePerOnce'
  BY <1>3, <1>5, LeasesKept DEF IInv
<1>9. LeasesAreOfTokens' /\ RevokedLeaseIsDead'
  BY <1>1, <1>5 DEF IInv, LeasesAreOfTokens, RevokedLeaseIsDead
<1>10. Unended' = {}
  <2> SUFFICES ASSUME NEW id \in Ids, Exists(id)' PROVE RowOf(id)'.end # "no"
    BY DEF Unended
  <2>1. id[1] \in Scopes /\ id[2] \in 1 .. MaxRows
    BY IdParts
  <2>2. entitlement[id[1]] \in Seq(Row) /\ entitlement'[id[1]] \in Seq(Row)
    BY <1>3, <2>1 DEF IInv, TypeOK, TableTyped
  <2>3. DOMAIN entitlement'[id[1]] = DOMAIN entitlement[id[1]]
    BY <1>1, <2>1
  <2>4. Len(entitlement'[id[1]]) \in Nat /\ DOMAIN entitlement'[id[1]] = 1 .. Len(entitlement'[id[1]])
    BY <2>2, LenProperties
  <2>5. id[2] \in DOMAIN entitlement[id[1]]
    BY <2>1, <2>3, <2>4, RowsAssumption DEF Exists
  <2> QED BY <1>2, <2>1, <2>5 DEF RowOf
<1>11. \A l \in Leases : lease'[l].revoked
  BY <1>4, <1>5 DEF NoRow
<1>12. NothingForDeletedResource'
  BY <1>6, <1>10, <1>11 DEF NothingForDeletedResource
<1> QED BY <1>1, <1>3, <1>7, <1>8, <1>9, <1>12, ManagementWrites

-----------------------------------------------------------------------------
LEMMA AccessStep ==
  ASSUME IInv, NEW w \in Handlers, Access(w)
  PROVE  IInv'
  BY AskBeginStep, ListPendingStep, CreateRequestStep, DecisionBegins, ListEntitlementsStep,
     ApproveStep, ApproveAgainStep, DenyStep, GrantBeginStep, FindEquivalentStep, InsertGrantStep,
     ReplaceExpiredStep, ExtendGrantStep, IssueBeginStep, TargetIssuesStep, InsertLeaseStep
  DEF Access

LEMMA RevocationStep ==
  ASSUME IInv, NEW w \in Handlers, Revocation(w)
  PROVE  IInv'
  BY RevokeBeginStep, DisconnectBeginStep, ListActiveStep, NextPermissionStep, LastPermissionStep,
     ReconnectBeginStep, ListUncoveredStep, ConnectionStep, PostRevocationStep, MarkLeaseStep,
     EndPermissionStep
  DEF Revocation

LEMMA StepPreserves == IInv /\ [Next]_vars => IInv'
<1> SUFFICES ASSUME IInv, [Next]_vars PROVE IInv'
  OBVIOUS
<1>1. CASE UNCHANGED vars
  <2>1. /\ UNCHANGED <<resource, agent, connection, request, entitlement, lease, target, pc, ctx>>
        /\ resource' \in {"enabled", "disabled", "deleted"} /\ agent' \in {"active", "inactive"}
    BY <1>1 DEF vars, IInv, TypeOK
  <2>2. TableTyped /\ RowsKept /\ NewRowsAllowed
    BY <2>1, SameTable DEF IInv
  <2> QED BY <2>1, <2>2, ManagementElsewhere
<1>2. CASE Management
  BY <1>2, SetEnabledStep, DeleteResourceStep, SetAgentStep, ExpireStep DEF Management
<1>3. ASSUME NEW w \in Handlers, Access(w) \/ Revocation(w) \/ Abandon(w) PROVE IInv'
  BY <1>3, AccessStep, RevocationStep, OnlyAnswers DEF Abandon
<1> QED BY <1>1, <1>2, <1>3 DEF Next

(* Every reachable state satisfies the invariant above: it holds of a table *)
(* without rows, and every step of a handler or of a manager keeps it.      *)
THEOREM InductiveInvariant == Spec => []IInv
  BY InitEstablishes, StepPreserves, PTL DEF Spec

(* Rows, leases, tokens and what an invocation carries keep their types,   *)
(* and there are never more Permissions than the bound.                    *)
THEOREM AccessTypeCorrect == Spec => []TypeOK
<1>1. IInv => TypeOK
  BY DEF IInv
<1> QED BY InductiveInvariant, <1>1, PTL

LEMMA AtMostOne ==
  ASSUME NEW S, \A x \in S, y \in S : x = y
  PROVE  Cardinality(S) <= 1
<1>1. CASE S = {}
  BY <1>1, FS_EmptySet
<1>2. CASE S # {}
  <2>1. PICK x : S = {x}
    BY <1>2
  <2> QED BY <2>1, FS_Singleton
<1> QED BY <1>1, <1>2

(* issueTokenLeaseWithAudit: however many requests of an Agent ask for a   *)
(* token at once, a one-time Permission is in one lease.                   *)
THEOREM OnceIsUsedOnce == Spec => []OnceIsOnce
<1>1. IInv => OnceIsOnce
  <2> SUFFICES ASSUME IInv, NEW id \in Ids, Exists(id), RowOf(id).mode = "once"
               PROVE  Cardinality({l \in Leases : id \in lease[l].ids}) <= 1
    BY DEF OnceIsOnce
  <2> DEFINE S == {l \in Leases : id \in lease[l].ids}
  <2>1. \A x \in S, y \in S : x = y
    BY DEF IInv, OneLeasePerOnce
  <2> HIDE DEF S
  <2>2. Cardinality(S) <= 1
    BY <2>1, AtMostOne
  <2> QED BY <2>2 DEF S
<1> QED BY InductiveInvariant, <1>1, PTL

(* revokeTokenLeaseAtTarget before the mark, in every revocation: what is  *)
(* recorded as revoked is dead at the target.                              *)
THEOREM RevokedIsDead == Spec => []RevokedLeaseIsDead
<1>1. IInv => RevokedLeaseIsDead
  BY DEF IInv
<1> QED BY InductiveInvariant, <1>1, PTL

(* deleteResource: no invocation that began before the deletion leaves a   *)
(* request to decide, a requested Permission or a lease behind it.         *)
THEOREM DeletionLeavesNothing == Spec => []NothingForDeletedResource
<1>1. IInv => NothingForDeletedResource
  BY DEF IInv
<1> QED BY InductiveInvariant, <1>1, PTL

-----------------------------------------------------------------------------
(* The statement that records an approval.                                 *)

(* The rows of a scope after a batch of approval: those there were, ended  *)
(* only if they had ended, and the new one.                                *)
LEMMA ApprovedRows ==
  ASSUME IInv, NEW w \in Handlers, Approve(w)
  PROVE  /\ \A id \in Unended : id \in Unended'
         /\ \A s \in Insertable(w) : Occupied(s)'
<1> DEFINE r == ctx[w].request
           mode == ctx[w].mode
           T == [s \in Scopes |-> [n \in DOMAIN entitlement[s] |->
                   IF <<s, n>> \in ctx[w].weak /\ entitlement[s][n].end = "no" /\ mode # "once"
                     THEN Extended(entitlement[s][n], mode) ELSE entitlement[s][n]]]
<1>1. r \in Requests /\ mode \in Modes
  BY HandlerFacts DEF Approve, Given, Context
<1>2. entitlement' = WithNew(T, Insertable(w), Granted(mode, r)) /\ Room(Insertable(w))
  BY DEF Approve, EachRow
<1>3. \A s \in Scopes : \A n \in DOMAIN entitlement[s] :
        T[s][n] \in Row /\ T[s][n].end = entitlement[s][n].end
  <2>1. ASSUME NEW row \in Row, mode # "once"
        PROVE  Extended(row, mode) \in Row /\ Extended(row, mode).end = row.end
    BY <1>1, <2>1 DEF Extended, Row
  <2> QED BY <2>1, RowsAreRows DEF IInv
<1>4. /\ T = [s \in Scopes |-> T[s]]
      /\ \A s \in Scopes : T[s] = [n \in DOMAIN entitlement[s] |-> T[s][n]]
  OBVIOUS
<1>5. Insertable(w) \in SUBSET Scopes
  BY <1>1 DEF Insertable, Missing, IInv, TypeOK, Request
<1>6. Granted(mode, r) \in Row /\ Granted(mode, r).end = "no"
  BY <1>1 DEF Granted, Row
<1>0. TypeOK
  BY DEF IInv
<1> HIDE DEF T, r, mode
<1>7. T \in [Scopes -> Seq(Row)] /\ \A s \in Scopes : Len(T[s]) = Len(entitlement[s])
  BY <1>0, <1>3, <1>4, TableOfRows
<1>8. PICK row \in Row : row = Granted(mode, r)
  BY <1>6
<1>9. PICK S \in SUBSET Scopes : S = Insertable(w)
  BY <1>5
<1>a. PICK U \in [Scopes -> Seq(Row)] : U = T
  BY <1>7
<1>b. Room(S) /\ \A s \in Scopes : Len(U[s]) = Len(entitlement[s])
  BY <1>2, <1>7, <1>9, <1>a
<1>10. /\ WithNew(U, S, row) \in [Scopes -> Seq(Row)]
       /\ \A s \in Scopes :
            /\ Len(WithNew(U, S, row)[s]) <= MaxRows
            /\ Len(WithNew(U, S, row)[s]) = IF s \in S THEN Len(U[s]) + 1 ELSE Len(U[s])
            /\ \A n \in 1 .. Len(U[s]) : WithNew(U, S, row)[s][n] = U[s][n]
            /\ s \in S => WithNew(U, S, row)[s][Len(U[s]) + 1] = row
  BY <1>0, <1>b, GrownTable
<1>c. entitlement' = WithNew(U, S, row)
  BY <1>2, <1>8, <1>9, <1>a
<1>11. \A s \in Scopes :
         /\ Len(entitlement'[s]) <= MaxRows
         /\ Len(entitlement'[s]) = IF s \in S THEN Len(entitlement[s]) + 1 ELSE Len(entitlement[s])
         /\ \A n \in 1 .. Len(entitlement[s]) : entitlement'[s][n] = T[s][n]
         /\ s \in S => entitlement'[s][Len(entitlement[s]) + 1] = row
  <2>1. ASSUME NEW s \in Scopes
        PROVE  /\ Len(entitlement'[s]) <= MaxRows
               /\ Len(entitlement'[s]) = IF s \in S THEN Len(entitlement[s]) + 1 ELSE Len(entitlement[s])
               /\ \A n \in 1 .. Len(entitlement[s]) : entitlement'[s][n] = T[s][n]
               /\ s \in S => entitlement'[s][Len(entitlement[s]) + 1] = row
    BY <1>10, <1>a, <1>b, <1>c
  <2> QED BY <2>1
<1>12. ASSUME NEW id \in Unended PROVE id \in Unended'
  <2>1. id \in Ids /\ Exists(id) /\ RowOf(id).end = "no"
    BY UnendedExist
  <2>2. PICK s \in Scopes, n \in 1 .. Len(entitlement[id[1]]) : s = id[1] /\ n = id[2]
    BY <1>0, <2>1, ExistingRow
  <2>3. entitlement[s] \in Seq(Row)
    BY DEF IInv, TypeOK
  <2>4. PICK m \in Nat : m = Len(entitlement[s]) /\ DOMAIN entitlement[s] = 1 .. m
    BY <2>3, LenProperties
  <2>5. n \in Nat /\ n <= m /\ n \in DOMAIN entitlement[s]
    BY <2>2, <2>4
  <2>6. Len(entitlement'[s]) = m \/ Len(entitlement'[s]) = m + 1
    BY <1>11, <2>4
  <2>7. Exists(id)'
    BY <2>2, <2>5, <2>6 DEF Exists
  <2>8. entitlement'[s][n] = T[s][n] /\ T[s][n].end = entitlement[s][n].end
    BY <1>3, <1>11, <2>2, <2>5
  <2>9. RowOf(id)'.end = "no"
    BY <2>1, <2>2, <2>8 DEF RowOf
  <2> QED BY <2>1, <2>7, <2>9 DEF Unended
<1>13. ASSUME NEW s \in S PROVE Occupied(s)'
  <2>1. entitlement[s] \in Seq(Row)
    BY DEF IInv, TypeOK
  <2>2. PICK m \in Nat : m = Len(entitlement[s])
    BY <2>1, LenProperties
  <2>3. Len(entitlement'[s]) = m + 1 /\ m + 1 <= MaxRows /\ entitlement'[s][m + 1] = row
    BY <1>11, <2>2
  <2>4. m + 1 \in 1 .. MaxRows
    BY <2>3, RowsAssumption
  <2>5. PICK id : id = <<s, m + 1>>
    OBVIOUS
  <2>6. id \in Ids /\ id[1] = s /\ id[2] = m + 1
    BY <2>4, <2>5 DEF Ids
  <2>7. Exists(id)'
    BY <2>3, <2>6 DEF Exists
  <2>8. RowOf(id)'.end = "no"
    BY <1>6, <1>8, <2>3, <2>6 DEF RowOf
  <2>9. id \in Unended'
    BY <2>6, <2>7, <2>8 DEF Unended
  <2> QED BY <2>6, <2>9 DEF Occupied
<1> QED BY <1>9, <1>12, <1>13

(* Only the batch of approval approves a pending request.                  *)
LEMMA OnlyApproveApproves ==
  ASSUME IInv, Next, NEW r \in Requests, request[r].status = "pending", request'[r].status = "approved"
  PROVE  \E w \in Handlers : Approve(w) /\ Approvable(w) /\ r = ctx[w].request
<1>1. request' # request
  OBVIOUS
<1>2. ~Management
  <2>1. ~DeleteResource
    <3>1. ASSUME DeleteResource PROVE request'[r].status = "denied"
      <4>1. request' = Withdrawn
        BY <3>1 DEF DeleteResource
      <4>2. request[r] \in Request
        BY DEF IInv, TypeOK
      <4> QED BY <4>1, <4>2 DEF Withdrawn, Request
    <3> QED BY <3>1
  <2>2. ASSUME NEW status \in {"enabled", "disabled", "active", "inactive"}
        PROVE  ~SetEnabled(status) /\ ~SetAgent(status)
    BY <1>1 DEF SetEnabled, SetAgent
  <2>3. ASSUME NEW id \in Ids PROVE ~Expire(id)
    BY <1>1 DEF Expire
  <2> QED BY <2>1, <2>2, <2>3 DEF Management
<1>3. ASSUME NEW w \in Handlers, Access(w) \/ Revocation(w) \/ Abandon(w)
      PROVE  Approve(w) /\ Approvable(w) /\ r = ctx[w].request
  <2>1. CASE Revocation(w) \/ Abandon(w)
    BY <1>1, <2>1 DEF Revocation, Abandon, RevokeBegin, StopAgent, DisconnectBegin, ListActive, LastPermission,
         NextPermission, PostRevocation, MarkLease, EndPermission, RevokeConnection, ReconnectBegin,
         Reconnect, ListUncovered, rows
  <2>2. CASE \E q \in Requests : CreateRequest(w, q)
    BY <1>1, <2>2 DEF CreateRequest, IInv, TypeOK
  <2>3. CASE Deny(w)
    BY <1>1, <2>3 DEF Deny, IInv, TypeOK, Request
  <2>4. CASE InsertLease(w)
    BY <1>1, <2>4 DEF InsertLease, IInv, TypeOK, Request
  <2>5. CASE Approve(w)
    BY <1>1, <2>5 DEF Approve, IInv, TypeOK, Request
  <2>6. CASE ListPending(w) \/ ListEntitlements(w) \/ ApproveAgain(w) \/ FindEquivalent(w)
    BY <1>1, <2>6 DEF ListPending, ListEntitlements, ApproveAgain, FindEquivalent, rows
  <2>7. CASE InsertGrant(w) \/ ReplaceExpired(w) \/ ExtendGrant(w) \/ \E l \in Leases : TargetIssues(w, l)
    BY <1>1, <2>7 DEF InsertGrant, ReplaceExpired, ExtendGrant, TargetIssues
  <2>8. CASE \/ \E scopes \in SUBSET Scopes : AskBegin(w, scopes)
             \/ \E q \in Requests, mode \in DecisionModes : ApproveBegin(w, q, mode)
             \/ \E q \in Requests : DenyBegin(w, q) \/ IssueBegin(w, q)
             \/ \E s \in Scopes, mode \in DirectModes : GrantBegin(w, s, mode)
    BY <1>1, <2>8 DEF AskBegin, ApproveBegin, DenyBegin, IssueBegin, GrantBegin, rows
  <2> QED BY <1>3, <2>1, <2>2, <2>3, <2>4, <2>5, <2>6, <2>7, <2>8 DEF Access
<1> QED BY <1>2, <1>3 DEF Next

LEMMA ApprovalStep ==
  IInv /\ [Next]_vars =>
    \A r \in Requests : request[r].status = "pending" /\ request'[r].status = "approved" =>
       \A s \in request[r].scopes : Occupied(s)'
<1> SUFFICES ASSUME IInv, [Next]_vars, NEW r \in Requests,
                    request[r].status = "pending", request'[r].status = "approved",
                    NEW s \in request[r].scopes
             PROVE  Occupied(s)'
  OBVIOUS
<1>1. Next
  BY DEF vars
<1>2. PICK w \in Handlers : Approve(w) /\ Approvable(w) /\ r = ctx[w].request
  BY <1>1, OnlyApproveApproves
<1>3. CASE s \in Missing(w)
  BY <1>2, <1>3, ApprovedRows DEF Approvable
<1>4. CASE s \notin Missing(w)
  <2>1. PICK id \in ctx[w].read : id[1] = s
    BY <1>2, <1>4 DEF Missing
  <2>2. id \in Unended
    BY <1>2, <2>1 DEF Approvable
  <2>3. id \in Unended'
    BY <1>2, <2>2, ApprovedRows
  <2> QED BY <2>1, <2>3 DEF Occupied
<1> QED BY <1>3, <1>4

(* updateAccessRequestDecision beside the inserts of its batch: an approval*)
(* is recorded only with an unended Permission for each of its scopes,     *)
(* whatever ended or was granted since they were listed.                   *)
THEOREM ApprovalsAreWhole == Spec => ApprovalIsWhole
  BY InductiveInvariant, ApprovalStep, PTL DEF Spec, ApprovalIsWhole
=============================================================================

--------------------------- MODULE PermissionGrant ---------------------------
(***************************************************************************)
(* A direct Permission of a User or an Application: one scope of one       *)
(* Resource Server, until a time or for good.  createUserPermission and    *)
(* createApplicationPermission (server/usecases/authorization.ts) share    *)
(* createScopeEntitlement (server/adapters/repos/authorization.ts), which  *)
(* adds to the row that is active, and revokeUserPermission and            *)
(* revokeApplicationPermission share endScopeEntitlement.                  *)
(*                                                                         *)
(* The grants of an Agent, under access requests, are AgentAccess's.       *)
(***************************************************************************)
EXTENDS Naturals

CONSTANTS
  Handlers,  \* invocations in flight, used again for later requests
  MaxTime,   \* the clock stops here
  MaxRows,   \* rows inserted in a run
  None

VARIABLES
  permission,  \* the row that has not ended, or None
  rows,        \* rows inserted so far
  clock,
  answered,    \* the invocation whose grant the last step answered, or None
  pc, ctx      \* where an invocation stands and what it has read

vars == <<permission, rows, clock, answered, pc, ctx>>

Times == 0 .. MaxTime
Forever == MaxTime + 1      \* a persistent Permission has no expiry
Expiries == 1 .. Forever
Permission == [id : 1 .. MaxRows, expires : Expiries]
Steps == {"idle", "g_find", "g_insert", "g_again", "g_write", "x_end"}
Context == [expires : 0 .. Forever, now : Times, row : Permission \cup {None}]
NoContext == [expires |-> 0, now |-> 0, row |-> None]

TypeOK ==
  /\ permission \in Permission \cup {None}
  /\ rows \in 0 .. MaxRows
  /\ clock \in Times
  /\ answered \in Handlers \cup {None}
  /\ pc \in [Handlers -> Steps]
  /\ ctx \in [Handlers -> Context]

Init ==
  /\ permission = None
  /\ rows = 0
  /\ clock = 0
  /\ answered = None
  /\ pc = [w \in Handlers |-> "idle"]
  /\ ctx = [w \in Handlers |-> NoContext]

-----------------------------------------------------------------------------
Await(w, step, c) ==
  /\ pc' = [pc EXCEPT ![w] = step]
  /\ ctx' = [ctx EXCEPT ![w] = c]
  /\ answered' = None
Answer(w, granted) ==
  /\ pc' = [pc EXCEPT ![w] = "idle"]
  /\ ctx' = [ctx EXCEPT ![w] = NoContext]
  /\ answered' = IF granted THEN w ELSE None

Insert(expires) ==
  /\ rows < MaxRows /\ rows' = rows + 1
  /\ permission' = [id |-> rows', expires |-> expires]

IsRow(row) == permission # None /\ row # None /\ permission.id = row.id
Lapsed(row, now) == row.expires <= now

(* Mutant: the lifetime that was asked for.                                *)
Requested(row, expires) == expires

(* strongerLifetime: persistent before any expiry, the later expiry else.  *)
StrongerLifetime(row, expires) == IF row.expires >= expires THEN row.expires ELSE expires

-----------------------------------------------------------------------------
(* The request is validated and stamped; limited grants end in the future. *)
GrantBegin(w, expires) ==
  /\ pc[w] = "idle" /\ expires > clock
  /\ Await(w, "g_find", [NoContext EXCEPT !.expires = expires, !.now = clock])
  /\ UNCHANGED <<permission, rows, clock>>

(* createScopeEntitlement looks for the active row, before an insert that  *)
(* loses to another one and again after it; a row that neither lapsed nor  *)
(* falls short is the answer.                                              *)
FindPermission(w) ==
  /\ pc[w] \in {"g_find", "g_again"}
  /\ IF permission = None
     THEN IF pc[w] = "g_find" THEN Await(w, "g_insert", ctx[w]) ELSE Answer(w, FALSE)
     ELSE IF /\ ~Lapsed(permission, ctx[w].now)
             /\ StrongerLifetime(permission, ctx[w].expires) = permission.expires
          THEN Answer(w, TRUE)
          ELSE Await(w, "g_write", [ctx[w] EXCEPT !.row = permission])
  /\ UNCHANGED <<permission, rows, clock>>

InsertPermission(w) ==
  /\ pc[w] = "g_insert"
  /\ IF permission = None THEN Insert(ctx[w].expires) /\ Answer(w, TRUE)
     ELSE Await(w, "g_again", ctx[w]) /\ UNCHANGED <<permission, rows>>
  /\ UNCHANGED clock

(* A lapsed row is ended and a new one inserted, in one batch that fails   *)
(* when another row is active by then.                                     *)
RenewPermission(w) ==
  /\ pc[w] = "g_write" /\ Lapsed(ctx[w].row, ctx[w].now)
  /\ IF permission = None \/ IsRow(ctx[w].row)
     THEN Insert(ctx[w].expires) /\ Answer(w, TRUE)
     ELSE Answer(w, FALSE) /\ UNCHANGED <<permission, rows>>
  /\ UNCHANGED clock

(* The lifetime is written by id; a row that has ended stays ended, and    *)
(* the caller is told all the same.                                        *)
ExtendPermission(w) ==
  /\ pc[w] = "g_write" /\ ~Lapsed(ctx[w].row, ctx[w].now)
  /\ permission' = IF IsRow(ctx[w].row)
                   THEN [permission EXCEPT !.expires =
                           StrongerLifetime(ctx[w].row, ctx[w].expires)]
                   ELSE permission
  /\ Answer(w, TRUE)
  /\ UNCHANGED <<rows, clock>>

-----------------------------------------------------------------------------
RevokeBegin(w) ==
  /\ pc[w] = "idle" /\ permission # None
  /\ Await(w, "x_end", [NoContext EXCEPT !.row = permission])
  /\ UNCHANGED <<permission, rows, clock>>

(* endScopeEntitlement: by id, when it has not ended.                      *)
EndPermission(w) ==
  /\ pc[w] = "x_end"
  /\ permission' = IF IsRow(ctx[w].row) THEN None ELSE permission
  /\ Answer(w, FALSE)
  /\ UNCHANGED <<rows, clock>>

(* The invocation dies between two statements.                             *)
Abandon(w) ==
  /\ pc[w] # "idle" /\ Answer(w, FALSE)
  /\ UNCHANGED <<permission, rows, clock>>

Tick ==
  /\ clock < MaxTime /\ clock' = clock + 1
  /\ answered' = None
  /\ UNCHANGED <<permission, rows, pc, ctx>>

Next ==
  \/ Tick
  \/ \E w \in Handlers :
       \/ \E expires \in Expiries : GrantBegin(w, expires)
       \/ FindPermission(w) \/ InsertPermission(w) \/ RenewPermission(w)
       \/ ExtendPermission(w) \/ RevokeBegin(w) \/ EndPermission(w) \/ Abandon(w)

Spec == Init /\ [][Next]_vars

-----------------------------------------------------------------------------
(* Properties.                                                             *)

(* Another invocation has changed or ended the row since w read it.        *)
Overtaken(w) == ctx[w].row # None /\ ctx[w].row # permission

Shortened ==
  permission # None /\ ~Lapsed(permission, clock)
  /\ (permission' = None \/ permission'.expires < permission.expires)

(* What w writes then is no less than it asked for and, of a row that had  *)
(* not lapsed, than it read: it takes back what was added since.           *)
TakesBack(w) ==
  /\ Overtaken(w)
  /\ \/ RenewPermission(w)
     \/ ExtendPermission(w) /\ permission'.expires >= ctx[w].row.expires
  /\ permission'.expires >= ctx[w].expires

(* "assigning another scope never shortens or replaces an existing         *)
(* Permission" (specs/admin-console.feature:262), nor does assigning the   *)
(* same one again; and a grant that was answered is in effect for the time *)
(* it asked for.  Only a revocation, and a grant whose row another one     *)
(* changed or ended after it was read, may break either: the lifetime is   *)
(* written by id alone, so the last of two extensions takes back what the  *)
(* other one added, and nothing else.                                      *)
GrantAdds ==
  /\ Shortened => \E w \in Handlers : EndPermission(w) \/ TakesBack(w)
  /\ answered' # None =>
       \/ Overtaken(answered')
       \/ permission' # None /\ permission'.expires >= ctx[answered'].expires
GrantsOnlyAdd == [][GrantAdds]_vars

-----------------------------------------------------------------------------
(* What keeps it so (see PlatformProofs): an invocation was stamped in the *)
(* past, asks for a lifetime, and writes over a row it has found.          *)
Given(w) ==
  /\ ctx[w].now <= clock
  /\ pc[w] \in {"g_find", "g_insert", "g_again", "g_write"} => ctx[w].expires \in Expiries
  /\ pc[w] = "g_write" => ctx[w].row \in Permission

IInv == TypeOK /\ \A w \in Handlers : Given(w)
=============================================================================

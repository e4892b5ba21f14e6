------------------------- MODULE OrganizationMembers -------------------------
(***************************************************************************)
(* The members, invitations and Roles of one Organization, from the        *)
(* bootstrap of the platform on (server/usecases/authorization.ts over     *)
(* server/adapters/repos/authorization.ts, repos/onboarding.ts and         *)
(* repos/users.ts): every change reads, validates and then writes under a  *)
(* compare-and-set on updatedAt and a guard that keeps an Owner.           *)
(*                                                                         *)
(* updatedAt is a reading of a clock, the same one for writes that fall in *)
(* one millisecond.  One dynamic Role stands beside the predefined ones.   *)
(***************************************************************************)
EXTENDS Naturals

CONSTANTS
  Handlers,   \* invocations in flight, used again for later requests
  Users,      \* accounts that may exist
  RoleSets,   \* what a member may hold, each a set of Role keys
  MaxWrites,  \* the clock's last reading
  None

VARIABLES
  users,       \* user rows
  member,      \* member rows, by User
  role,        \* updatedAt of the dynamic Role's row, or None
  invitation,  \* the pending invitation, or NoInvitation
  late,        \* the dynamic Role was assigned after it had been deleted
  clock,       \* the last updatedAt given out
  pc, ctx      \* where an invocation stands and what it has read

vars == <<users, member, role, invitation, late, clock, pc, ctx>>

Dynamic == "custom"
Stamps == 1 .. MaxWrites

Member == [roles : RoleSets, updatedAt : Stamps]
NoRow == [roles |-> {}, updatedAt |-> 0]
NoInvitation == [user |-> None, roles |-> {}]
Invited == [user : Users, roles : RoleSets]
Steps == {"idle", "a_insert", "i_insert", "r_validate", "r_count", "r_batch",
          "x_batch", "d_batch"}
Context == [user : Users \cup {None}, roles : RoleSets \cup {{}}, row : Member \cup {NoRow},
            updatedAt : 0 .. MaxWrites]
NoContext == [user |-> None, roles |-> {}, row |-> NoRow, updatedAt |-> 0]

TypeOK ==
  /\ users \subseteq Users
  /\ member \in [Users -> Member \cup {NoRow}]
  /\ role \in Stamps \cup {None}
  /\ invitation \in Invited \cup {NoInvitation}
  /\ late \in BOOLEAN
  /\ clock \in 0 .. MaxWrites
  /\ pc \in [Handlers -> Steps]
  /\ ctx \in [Handlers -> Context]

Init ==
  /\ users = {}
  /\ member = [u \in Users |-> NoRow]
  /\ role = None
  /\ invitation = NoInvitation
  /\ late = FALSE
  /\ clock = 0
  /\ pc = [w \in Handlers |-> "idle"]
  /\ ctx = [w \in Handlers |-> NoContext]

-----------------------------------------------------------------------------
IsMember(u) == member[u] # NoRow
Owners == {u \in Users : "owner" \in member[u].roles}
KnownRoles(roles) == Dynamic \in roles => role # None
MayBeLate(roles) == late' = (late \/ ~KnownRoles(roles))

(* Time passes between two writes, or not enough to tell them apart.       *)
Stamped == clock' \in {clock, clock + 1} \cap Stamps

Await(w, step, c) ==
  /\ pc' = [pc EXCEPT ![w] = step]
  /\ ctx' = [ctx EXCEPT ![w] = c]
Answer(w) == Await(w, "idle", NoContext)

(* Mutants: the guard counts the member itself among the Owners left; an   *)
(* invitation does not hold its Role.                                      *)
CountsItself(u) == "owner" \notin member[u].roles \/ Owners # {}
NotAMember == \A u \in Users : Dynamic \notin member[u].roles

(* lastOwnerGuard: not an Owner, or another member is one.                 *)
LastOwnerGuard(u) == "owner" \notin member[u].roles \/ Owners \ {u} # {}

(* The WHERE on id, Organization and updatedAt.                            *)
Unchanged(w) == IsMember(ctx[w].user) /\ member[ctx[w].user].updatedAt = ctx[w].row.updatedAt

(* The two NOT EXISTS of deleteOrganizationRole.                           *)
Unassigned ==
  /\ \A u \in Users : Dynamic \notin member[u].roles
  /\ Dynamic \notin invitation.roles

-----------------------------------------------------------------------------
(* createBootstrapAdmin: one batch, each insert conditional on the one     *)
(* before it and the first on there being no User at all.                  *)
Bootstrap(u) ==
  /\ users = {} /\ Stamped
  /\ users' = {u}
  /\ member' = [member EXCEPT ![u] = [roles |-> {"owner"}, updatedAt |-> clock']]
  /\ UNCHANGED <<role, invitation, late, pc, ctx>>

(* A later User signs up.                                                  *)
SignUp(u) ==
  /\ users # {} /\ u \notin users
  /\ users' = users \cup {u}
  /\ UNCHANGED <<member, role, invitation, clock, late, pc, ctx>>

(* deleteManagedUser: the row goes and its memberships with it.            *)
DeleteUser(u) ==
  /\ u \in users
  /\ users' = users \ {u}
  /\ member' = [member EXCEPT ![u] = NoRow]
  /\ UNCHANGED <<role, invitation, clock, late, pc, ctx>>

-----------------------------------------------------------------------------
AddMemberBegin(w, u, roles) ==
  /\ pc[w] = "idle" /\ KnownRoles(roles)
  /\ Await(w, "a_insert", [NoContext EXCEPT !.user = u, !.roles = roles])
  /\ UNCHANGED <<users, member, role, invitation, clock, late>>

(* addMember: one row per Organization and User, and the User must exist.  *)
AddMember(w) ==
  /\ pc[w] = "a_insert"
  /\ LET u == ctx[w].user IN
     IF u \in users /\ ~IsMember(u)
     THEN /\ Stamped
          /\ member' = [member EXCEPT ![u] = [roles |-> ctx[w].roles, updatedAt |-> clock']]
          /\ MayBeLate(ctx[w].roles)
     ELSE UNCHANGED <<member, clock, late>>
  /\ Answer(w)
  /\ UNCHANGED <<users, role, invitation>>

(* updateMember: the title changes, by id, and updatedAt with it.          *)
UpdateMember(u) ==
  /\ IsMember(u) /\ Stamped
  /\ member' = [member EXCEPT ![u].updatedAt = clock']
  /\ UNCHANGED <<users, role, invitation, late, pc, ctx>>

(* replaceMemberRoles: the member is read, the new Roles are validated,    *)
(* Owners are counted when one is demoted, and the batch writes under one  *)
(* condition.                                                              *)
ReplaceBegin(w, u, roles) ==
  /\ pc[w] = "idle" /\ IsMember(u)
  /\ Await(w, "r_validate", [NoContext EXCEPT !.user = u, !.roles = roles, !.row = member[u]])
  /\ UNCHANGED <<users, member, role, invitation, clock, late>>

ValidateRoles(w) ==
  /\ pc[w] = "r_validate"
  /\ IF ~KnownRoles(ctx[w].roles) THEN Answer(w)
     ELSE IF "owner" \in ctx[w].row.roles \ ctx[w].roles THEN Await(w, "r_count", ctx[w])
     ELSE Await(w, "r_batch", ctx[w])
  /\ UNCHANGED <<users, member, role, invitation, clock, late>>

(* rejectLastOwnerMutation counts members, whoever they are.               *)
CountOwners(w) ==
  /\ pc[w] = "r_count"
  /\ IF \E u, v \in Owners : u # v THEN Await(w, "r_batch", ctx[w]) ELSE Answer(w)
  /\ UNCHANGED <<users, member, role, invitation, clock, late>>

ReplaceRoles(w) ==
  /\ pc[w] = "r_batch"
  /\ LET u == ctx[w].user  roles == ctx[w].roles IN
     IF Unchanged(w) /\ ("owner" \in roles \/ LastOwnerGuard(u))
     THEN /\ Stamped
          /\ member' = [member EXCEPT ![u] = [roles |-> roles, updatedAt |-> clock']]
          /\ MayBeLate(roles)
     ELSE UNCHANGED <<member, clock, late>>
  /\ Answer(w)
  /\ UNCHANGED <<users, role, invitation>>

(* removeMember: the batch deletes the row under the same kind of          *)
(* condition; team memberships, sessions and tokens are left out.          *)
RemoveBegin(w, u) ==
  /\ pc[w] = "idle" /\ IsMember(u)
  /\ Await(w, "x_batch", [NoContext EXCEPT !.user = u, !.row = member[u]])
  /\ UNCHANGED <<users, member, role, invitation, clock, late>>

RemoveMember(w) ==
  /\ pc[w] = "x_batch"
  /\ LET u == ctx[w].user IN
     IF Unchanged(w) /\ LastOwnerGuard(u)
     THEN member' = [member EXCEPT ![u] = NoRow]
     ELSE UNCHANGED member
  /\ Answer(w)
  /\ UNCHANGED <<users, role, invitation, late, clock>>

-----------------------------------------------------------------------------
InviteBegin(w, u, roles) ==
  /\ pc[w] = "idle" /\ invitation = NoInvitation /\ KnownRoles(roles)
  /\ Await(w, "i_insert", [NoContext EXCEPT !.user = u, !.roles = roles])
  /\ UNCHANGED <<users, member, role, invitation, clock, late>>

CreateInvitation(w) ==
  /\ pc[w] = "i_insert"
  /\ invitation' = [user |-> ctx[w].user, roles |-> ctx[w].roles]
  /\ MayBeLate(ctx[w].roles)
  /\ Answer(w)
  /\ UNCHANGED <<users, member, role, clock>>

(* cancelInvitation; once accepted or expired it is no longer pending.     *)
CancelInvitation ==
  /\ invitation # NoInvitation
  /\ invitation' = NoInvitation
  /\ UNCHANGED <<users, member, role, clock, late, pc, ctx>>

(* The invited User accepts: a member with the invitation's Roles.         *)
AcceptInvitation ==
  /\ invitation # NoInvitation /\ Stamped
  /\ invitation.user \in users /\ ~IsMember(invitation.user)
  /\ invitation' = NoInvitation
  /\ member' = [member EXCEPT ![invitation.user] =
                  [roles |-> invitation.roles, updatedAt |-> clock']]
  /\ UNCHANGED <<users, role, late, pc, ctx>>

-----------------------------------------------------------------------------
CreateRole ==
  /\ role = None /\ Stamped
  /\ role' = clock'
  /\ UNCHANGED <<users, member, invitation, late, pc, ctx>>

(* updateRole: the scopes it writes are ResourceRegistry's; here its stamp.*)
UpdateRole ==
  /\ role # None /\ Stamped
  /\ role' = clock'
  /\ UNCHANGED <<users, member, invitation, late, pc, ctx>>

DeleteRoleBegin(w) ==
  /\ pc[w] = "idle" /\ role # None
  /\ Await(w, "d_batch", [NoContext EXCEPT !.updatedAt = role])
  /\ UNCHANGED <<users, member, role, invitation, clock, late>>

DeleteRole(w) ==
  /\ pc[w] = "d_batch"
  /\ role' = IF role = ctx[w].updatedAt /\ Unassigned THEN None ELSE role
  /\ Answer(w)
  /\ UNCHANGED <<users, member, invitation, clock, late>>

(* The invocation dies between two statements.                             *)
Abandon(w) ==
  /\ pc[w] # "idle" /\ Answer(w)
  /\ UNCHANGED <<users, member, role, invitation, clock, late>>

Next ==
  \/ \E u \in Users : Bootstrap(u) \/ SignUp(u) \/ DeleteUser(u) \/ UpdateMember(u)
  \/ CancelInvitation \/ AcceptInvitation \/ CreateRole \/ UpdateRole
  \/ \E w \in Handlers :
       \/ \E u \in Users, roles \in RoleSets :
            AddMemberBegin(w, u, roles) \/ ReplaceBegin(w, u, roles) \/ InviteBegin(w, u, roles)
       \/ \E u \in Users : RemoveBegin(w, u)
       \/ AddMember(w) \/ ValidateRoles(w) \/ CountOwners(w) \/ ReplaceRoles(w)
       \/ RemoveMember(w) \/ CreateInvitation(w) \/ DeleteRoleBegin(w) \/ DeleteRole(w)
       \/ Abandon(w)

Spec == Init /\ [][Next]_vars

-----------------------------------------------------------------------------
(* Properties.                                                             *)

(* "Transfer Organization ownership before changing or removing the last   *)
(* Owner": however demotions and removals of two Owners interleave, none   *)
(* takes the last one; only the deletion of the User itself does.          *)
OwnerIsKept ==
  Owners # {} /\ Owners' = {} => \E u \in Owners : users' = users \ {u}
KeepsAnOwner == [][OwnerIsKept]_vars

(* The Roles a member holds and a pending invitation promises exist: a     *)
(* Role is deleted from under nobody.  Only an assignment whose Roles were *)
(* validated before the deletion, and is written after it, may break this. *)
RolesExist ==
  late \/ (KnownRoles(invitation.roles) /\ \A u \in Users : KnownRoles(member[u].roles))

-----------------------------------------------------------------------------
(* What keeps it so (see PlatformProofs).                                  *)

(* An invocation has been given the User and the Roles it is about.        *)
Given(w) ==
  /\ pc[w] \in {"a_insert", "i_insert", "r_validate", "r_count", "r_batch", "x_batch"} =>
       ctx[w].user \in Users
  /\ pc[w] \in {"a_insert", "i_insert", "r_validate", "r_count", "r_batch"} =>
       ctx[w].roles \in RoleSets

IInv == TypeOK /\ RolesExist /\ \A w \in Handlers : Given(w)
=============================================================================

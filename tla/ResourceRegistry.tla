-------------------------- MODULE ResourceRegistry --------------------------
(***************************************************************************)
(* Resource Servers and what refers to them: the scope registry each one   *)
(* publishes, the scope allow-list of an Application and the scopes of an  *)
(* Organization Role (server/usecases/authorization.ts and applications.ts *)
(* over the repositories of the same names).                               *)
(*                                                                         *)
(* The deletion of a Resource Server edits allow-lists and Roles inside    *)
(* its statements; a synchronization and a change to private read them     *)
(* all, compute, and write whole values back.  The Application and the     *)
(* Role belong to an Organization that does not own the Resource Servers.  *)
(***************************************************************************)
EXTENDS Naturals

CONSTANTS
  Handlers,   \* invocations in flight, used again for later requests
  Resources,  \* Resource Servers
  Scopes,     \* scope values, all of them assigned
  MaxWrites,  \* the last time the Role can be stamped with
  None

VARIABLES
  resource,   \* api_resource: lifecycle
  hidden,     \* the Resource Servers whose visibility is private
  declared,   \* api_resource.scopeRegistry
  allow,      \* application.resourceScopes, as pairs
  role,       \* the Role's scopes, as pairs, and its updatedAt
  pc, ctx,    \* where an invocation stands and what it has read
  overlapped, \* two invocations have been in flight at once
  revived     \* deleted Resource Servers a whole value put back

vars == <<resource, hidden, declared, allow, role, pc, ctx, overlapped, revived>>

Entries == Resources \X Scopes
Steps == {"idle", "s_fetch", "s_read", "s_batch", "e_fetch", "e_update",
          "p_read", "p_batch", "o_batch", "l_batch", "d_batch"}
Context == [resource : Resources \cup {None}, declared : SUBSET Scopes,
            allow : SUBSET Entries, role : SUBSET Entries, updatedAt : 0 .. MaxWrites]
NoContext == [resource |-> None, declared |-> {}, allow |-> {}, role |-> {}, updatedAt |-> 0]

TypeOK ==
  /\ resource \in [Resources -> {"active", "disabled", "deleted"}]
  /\ hidden \subseteq Resources
  /\ declared \in [Resources -> SUBSET Scopes]
  /\ allow \subseteq Entries
  /\ role \in [scopes : SUBSET Entries, updatedAt : 0 .. MaxWrites]
  /\ pc \in [Handlers -> Steps]
  /\ ctx \in [Handlers -> Context]
  /\ overlapped \in BOOLEAN
  /\ revived \subseteq Resources

Init ==
  /\ resource = [r \in Resources |-> "active"]
  /\ hidden = {}
  /\ declared = [r \in Resources |-> Scopes]
  /\ allow = {}
  /\ role = [scopes |-> {}, updatedAt |-> 0]
  /\ pc = [w \in Handlers |-> "idle"]
  /\ ctx = [w \in Handlers |-> NoContext]
  /\ overlapped = FALSE
  /\ revived = {}

-----------------------------------------------------------------------------
rows == <<resource, hidden, declared, allow, role, revived>>
Exists(r) == resource[r] # "deleted"
Without(r, entries) == {e \in entries : e[1] # r}
Named(r) == {e \in allow \cup role.scopes : e[1] = r}
Declared(r, scopes, entries) == {e \in entries : e[1] = r => e[2] \in scopes}

(* getResource, enabled and visible to the Organization.                   *)
Visible(r) == resource[r] = "active" /\ r \notin hidden
Assignable(entries) == \A e \in entries : Visible(e[1]) /\ e[2] \in declared[e[1]]

Await(w, step, c) ==
  /\ pc' = [pc EXCEPT ![w] = step]
  /\ ctx' = [ctx EXCEPT ![w] = c]
  /\ overlapped' = (overlapped \/ \E x \in Handlers \ {w} : pc[x] # "idle")
Goto(w, step) == Await(w, step, ctx[w])
Answer(w) == Await(w, "idle", NoContext)

(* Every write of the Role stamps it, in the same millisecond or a later.  *)
RoleBecomes(scopes) ==
  \E now \in {role.updatedAt, role.updatedAt + 1} \cap 0 .. MaxWrites :
    role' = [scopes |-> scopes, updatedAt |-> now]

(* A whole value replaces what is there, whatever has been deleted since.  *)
MayRevive == revived' = revived \cup {r \in Resources : ~Exists(r) /\ Named(r)' # {}}

(* A whole value is written back only where it differs from what was read. *)
WriteBack(w, a, l) ==
  /\ allow' = IF a = ctx[w].allow THEN allow ELSE a
  /\ IF l = ctx[w].role THEN UNCHANGED role ELSE RoleBecomes(l)
  /\ MayRevive

(* Mutant: the Application is written whatever has become of the Resource  *)
(* Servers it names.                                                       *)
AsValidated(entries) == TRUE

(* activeResourceCondition: evaluated inside the update.                   *)
StillActive(entries) == \A e \in entries : resource[e[1]] = "active"

-----------------------------------------------------------------------------
(* refreshResourceScopeRegistry: the document is fetched; when that fails  *)
(* the registry as it was read is written again with the error.            *)
SyncBegin(w, r) ==
  /\ pc[w] = "idle" /\ resource[r] = "active"
  /\ Await(w, "s_fetch", [NoContext EXCEPT !.resource = r, !.declared = declared[r]])
  /\ UNCHANGED rows

SyncFetched(w, scopes) ==
  /\ pc[w] = "s_fetch"
  /\ Await(w, "s_read", [ctx[w] EXCEPT !.declared = scopes])
  /\ UNCHANGED rows

SyncFailed(w) ==
  /\ pc[w] = "s_fetch" /\ Goto(w, "s_read")
  /\ UNCHANGED rows

(* replaceResourceDiscovery reads every allow-list and Role ...            *)
ReadReferences(w) ==
  /\ \/ pc[w] = "s_read" /\ Await(w, "s_batch", [ctx[w] EXCEPT !.allow = allow, !.role = role.scopes])
     \/ pc[w] = "p_read" /\ Await(w, "p_batch", [ctx[w] EXCEPT !.allow = allow, !.role = role.scopes])
  /\ UNCHANGED rows

(* ... and its batch writes them; only the registry's own update is        *)
(* conditional on the Resource Server not being deleted.                   *)
ReplaceDiscovery(w) ==
  /\ pc[w] = "s_batch"
  /\ LET r == ctx[w].resource  scopes == ctx[w].declared IN
     /\ declared' = IF Exists(r) THEN [declared EXCEPT ![r] = scopes] ELSE declared
     /\ WriteBack(w, Declared(r, scopes, ctx[w].allow), Declared(r, scopes, ctx[w].role))
  /\ Answer(w)
  /\ UNCHANGED <<resource, hidden>>

(* updateResource: disabling is one guarded update; enabling fetches the   *)
(* document first and replaces the discovery after it.                     *)
Disable(r) ==
  /\ resource[r] = "active"
  /\ resource' = [resource EXCEPT ![r] = "disabled"]
  /\ UNCHANGED <<hidden, declared, allow, role, pc, ctx, overlapped, revived>>

EnableBegin(w, r) ==
  /\ pc[w] = "idle" /\ resource[r] = "disabled"
  /\ Await(w, "e_fetch", [NoContext EXCEPT !.resource = r])
  /\ UNCHANGED rows

EnableFetched(w, scopes) ==
  /\ pc[w] = "e_fetch"
  /\ Await(w, "e_update", [ctx[w] EXCEPT !.declared = scopes])
  /\ UNCHANGED rows

Enable(w) ==
  /\ pc[w] = "e_update"
  /\ LET r == ctx[w].resource IN
     IF Exists(r) THEN resource' = [resource EXCEPT ![r] = "active"] /\ Goto(w, "s_read")
     ELSE UNCHANGED resource /\ Answer(w)
  /\ UNCHANGED <<hidden, declared, allow, role, revived>>

(* A change to private withdraws the Resource Server from every other      *)
(* Organization; a change to public is one guarded update.                 *)
HideBegin(w, r) ==
  /\ pc[w] = "idle" /\ Exists(r)
  /\ Await(w, "p_read", [NoContext EXCEPT !.resource = r])
  /\ UNCHANGED rows

Hide(w) ==
  /\ pc[w] = "p_batch"
  /\ LET r == ctx[w].resource IN
     /\ hidden' = IF Exists(r) THEN hidden \cup {r} ELSE hidden
     /\ WriteBack(w, Without(r, ctx[w].allow), Without(r, ctx[w].role))
  /\ Answer(w)
  /\ UNCHANGED <<resource, declared>>

Publish(r) ==
  /\ Exists(r) /\ r \in hidden
  /\ hidden' = hidden \ {r}
  /\ UNCHANGED <<resource, declared, allow, role, pc, ctx, overlapped, revived>>

-----------------------------------------------------------------------------
(* updateApplication validates the new allow-list, dropping the entries    *)
(* the Application already had for a Resource Server that is gone.         *)
UpdateApplicationBegin(w, entries) ==
  /\ pc[w] = "idle"
  /\ LET known == {e \in entries : Exists(e[1])} IN
     /\ \A e \in entries \ known : \E f \in allow : f[1] = e[1]
     /\ Assignable(known)
     /\ Await(w, "o_batch", [NoContext EXCEPT !.allow = known])
  /\ UNCHANGED rows

UpdateApplication(w) ==
  /\ pc[w] = "o_batch"
  /\ allow' = IF StillActive(ctx[w].allow) THEN ctx[w].allow ELSE allow
  /\ Answer(w)
  /\ UNCHANGED <<resource, hidden, declared, role, revived>>

(* updateRole: the Role is read, the scopes are validated, and the write   *)
(* is a compare-and-set on the Role's updatedAt alone.                     *)
UpdateRoleBegin(w, entries) ==
  /\ pc[w] = "idle" /\ Assignable(entries)
  /\ Await(w, "l_batch", [NoContext EXCEPT !.role = entries, !.updatedAt = role.updatedAt])
  /\ UNCHANGED rows

UpdateRole(w) ==
  /\ pc[w] = "l_batch"
  /\ IF role.updatedAt = ctx[w].updatedAt THEN RoleBecomes(ctx[w].role) ELSE UNCHANGED role
  /\ Answer(w)
  /\ UNCHANGED <<resource, hidden, declared, allow>>
  /\ MayRevive

(* The statements of deleteResource on allow-lists and Roles.              *)
Strip(r) ==
  /\ allow' = Without(r, allow)
  /\ IF Without(r, role.scopes) = role.scopes THEN UNCHANGED role
     ELSE RoleBecomes(Without(r, role.scopes))

(* deleteResource looks the Resource Server up and answers "deleted" after *)
(* its batch, also when another deletion was faster.                       *)
DeleteBegin(w, r) ==
  /\ pc[w] = "idle" /\ Exists(r)
  /\ Await(w, "d_batch", [NoContext EXCEPT !.resource = r])
  /\ UNCHANGED rows

DeleteResource(w) ==
  /\ pc[w] = "d_batch"
  /\ resource' = [resource EXCEPT ![ctx[w].resource] = "deleted"]
  /\ Strip(ctx[w].resource)
  /\ Answer(w)
  /\ UNCHANGED <<hidden, declared, revived>>

(* The invocation dies between two statements, or a fetch of EnableBegin   *)
(* fails and it answers with the error.                                    *)
Abandon(w) ==
  /\ pc[w] # "idle" /\ Answer(w)
  /\ UNCHANGED rows

Next ==
  \/ \E r \in Resources : Disable(r) \/ Publish(r)
  \/ \E w \in Handlers :
       \/ \E r \in Resources :
            SyncBegin(w, r) \/ EnableBegin(w, r) \/ HideBegin(w, r) \/ DeleteBegin(w, r)
       \/ \E scopes \in SUBSET Scopes : SyncFetched(w, scopes) \/ EnableFetched(w, scopes)
       \/ \E entries \in SUBSET Entries :
            UpdateApplicationBegin(w, entries) \/ UpdateRoleBegin(w, entries)
       \/ SyncFailed(w) \/ ReadReferences(w) \/ ReplaceDiscovery(w) \/ Enable(w) \/ Hide(w)
       \/ UpdateApplication(w) \/ UpdateRole(w) \/ DeleteResource(w) \/ Abandon(w)

Spec == Init /\ [][Next]_vars

-----------------------------------------------------------------------------
(* Properties.                                                             *)

(* What allow-lists and Roles name is declared by an existing Resource     *)
(* Server they may see: after every sequence of invocations that come one  *)
(* at a time, none forgetting a reference another one left; and when they  *)
(* overlap, a deleted one is named again only by a whole value that was    *)
(* read before the deletion (a synchronization, a change to private, a     *)
(* Role's update), never by the update of an Application, however late it  *)
(* commits.                                                                *)
ReferencesAreClean ==
  \A e \in allow \cup role.scopes :
    /\ overlapped \/ (Exists(e[1]) /\ e[1] \notin hidden /\ e[2] \in declared[e[1]])
    /\ Exists(e[1]) \/ e[1] \in revived

-----------------------------------------------------------------------------
(* What keeps it so (see PlatformProofs).                                  *)

(* The steps about one Resource Server.                                    *)
About == {"s_fetch", "s_read", "s_batch", "e_fetch", "e_update", "p_read", "p_batch", "d_batch"}
NamesResource == \A w \in Handlers : pc[w] \in About => ctx[w].resource \in Resources

NamedExist == \A e \in allow \cup role.scopes : Exists(e[1]) \/ e[1] \in revived

Clean(entries) ==
  \A e \in entries : Exists(e[1]) /\ e[1] \notin hidden /\ e[2] \in declared[e[1]]

(* What an invocation that has met no other one may rely on.               *)
Given(step, c) ==
  /\ step \in About => Exists(c.resource)
  /\ step \in {"s_batch", "p_batch"} => c.allow = allow /\ c.role = role.scopes
  /\ step = "o_batch" => Clean(c.allow)
  /\ step = "l_batch" => Clean(c.role)

OneAtATime ==
  /\ \A v, w \in Handlers : pc[v] # "idle" /\ pc[w] # "idle" => v = w
  /\ Clean(allow \cup role.scopes)
  /\ \A w \in Handlers : Given(pc[w], ctx[w])

IInv == TypeOK /\ NamesResource /\ NamedExist /\ (overlapped \/ OneAtATime)
=============================================================================

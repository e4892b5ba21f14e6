---------------------------- MODULE SiteSettings ----------------------------
(***************************************************************************)
(* One document of the site settings, the security policy, and the copy of *)
(* it that a Worker isolate keeps (server/adapters/repos/site-settings.ts  *)
(* and security.ts, server/worker.ts).  A change merges a patch into the   *)
(* document it read and writes all of it under a compare-and-set on the    *)
(* revision; a request loads the policy when the isolate's copy is old.    *)
(*                                                                         *)
(* A field holds the revision that last set it.  A load takes Latency at   *)
(* most; the requests of the isolate interleave where they wait.           *)
(***************************************************************************)
EXTENDS Naturals

CONSTANTS
  Handlers,      \* invocations in flight, used again for later requests
  Fields,        \* what a patch may set
  MaxRevisions,  \* revisions in a run
  Interval,      \* dynamicConfigRefreshIntervalMs
  Latency,       \* the longest a load may take
  MaxTime,       \* the clock stops here
  None

VARIABLES
  document,    \* the site_settings row: revision 0 stands for no row
  accepted,    \* for each field the revision of the last accepted patch of it
  replacedAt,  \* when each revision was replaced, or None
  cached,      \* the isolate's copy, the revision it is of and its age, or None
  served,      \* the revision the last step answered a request with, or None
  clock,
  pc, ctx      \* where an invocation stands and what it has read

vars == <<document, accepted, replacedAt, cached, served, clock, pc, ctx>>

Revisions == 0 .. MaxRevisions
Times == 0 .. MaxTime
Values == [Fields -> Revisions]
Document == [revision : Revisions, value : Values]
Copy == [revision : Revisions, at : Times]
Steps == {"idle", "s_write", "l_load", "l_cache"}
Context == [read : Document, field : Fields \cup {None}, since : Times]

NoRow == [revision |-> 0, value |-> [f \in Fields |-> 0]]
NoContext == [read |-> NoRow, field |-> None, since |-> 0]

TypeOK ==
  /\ document \in Document
  /\ accepted \in Values
  /\ replacedAt \in [Revisions -> Times \cup {None}]
  /\ cached \in Copy \cup {None}
  /\ served \in Revisions \cup {None}
  /\ clock \in Times
  /\ pc \in [Handlers -> Steps]
  /\ ctx \in [Handlers -> Context]

Init ==
  /\ document = NoRow
  /\ accepted = NoRow.value
  /\ replacedAt = [r \in Revisions |-> None]
  /\ cached = None
  /\ served = None
  /\ clock = 0
  /\ pc = [w \in Handlers |-> "idle"]
  /\ ctx = [w \in Handlers |-> NoContext]

-----------------------------------------------------------------------------
settings == <<document, accepted, replacedAt>>

Await(w, step, c) ==
  /\ pc' = [pc EXCEPT ![w] = step]
  /\ ctx' = [ctx EXCEPT ![w] = c]
Answer(w) == Await(w, "idle", NoContext)

(* Mutants: the write is made on the key alone; a copy is used for one     *)
(* moment more.                                                            *)
OnTheKey(w) == TRUE
NotOld == cached # None /\ clock - cached.at <= Interval

(* writeSiteSettings: the insert finds no row, or the update finds the     *)
(* revision that was read.                                                 *)
Unchanged(w) == document.revision = ctx[w].read.revision

-----------------------------------------------------------------------------
(* updatePolicy reads the stored policy and merges the patch into it ...   *)
PatchBegin(w, f) ==
  /\ pc[w] = "idle"
  /\ Await(w, "s_write", [NoContext EXCEPT !.read = document, !.field = f])
  /\ served' = None
  /\ UNCHANGED <<settings, cached, clock>>

(* ... and writes the whole document, or answers with a conflict.          *)
WriteSettings(w) ==
  /\ pc[w] = "s_write"
  /\ IF Unchanged(w)
     THEN LET next == ctx[w].read.revision + 1 IN
          /\ next \in Revisions
          /\ document' = [revision |-> next,
                          value |-> [ctx[w].read.value EXCEPT ![ctx[w].field] = next]]
          /\ accepted' = [accepted EXCEPT ![ctx[w].field] = next]
          /\ replacedAt' = [replacedAt EXCEPT ![document.revision] = clock]
     ELSE UNCHANGED settings
  /\ Answer(w)
  /\ served' = None
  /\ UNCHANGED <<cached, clock>>

-----------------------------------------------------------------------------
(* loadSecurityPolicy: a copy younger than the interval is the answer.     *)
Young == cached # None /\ clock - cached.at < Interval

Request(w) ==
  /\ pc[w] = "idle"
  /\ IF Young
     THEN served' = cached.revision /\ UNCHANGED <<pc, ctx>>
     ELSE served' = None /\ Await(w, "l_load", [NoContext EXCEPT !.since = clock])
  /\ UNCHANGED <<settings, cached, clock>>

LoadPolicy(w) ==
  /\ pc[w] = "l_load"
  /\ Await(w, "l_cache", [ctx[w] EXCEPT !.read = document])
  /\ served' = None
  /\ UNCHANGED <<settings, cached, clock>>

(* What was read becomes the copy, also over a newer one, and is stamped   *)
(* when the answer arrives.                                                *)
CachePolicy(w) ==
  /\ pc[w] = "l_cache"
  /\ cached' = [revision |-> ctx[w].read.revision, at |-> clock]
  /\ served' = cached'.revision
  /\ Answer(w)
  /\ UNCHANGED <<settings, clock>>

-----------------------------------------------------------------------------
(* The invocation dies, or its load fails.                                 *)
Abandon(w) ==
  /\ pc[w] # "idle" /\ Answer(w)
  /\ served' = None
  /\ UNCHANGED <<settings, cached, clock>>

Tick ==
  /\ clock < MaxTime
  /\ \A w \in Handlers : pc[w] \in {"l_load", "l_cache"} => clock - ctx[w].since < Latency
  /\ clock' = clock + 1
  /\ served' = None
  /\ UNCHANGED <<settings, cached, pc, ctx>>

Next ==
  \/ Tick
  \/ \E w \in Handlers :
       \/ \E f \in Fields : PatchBegin(w, f)
       \/ WriteSettings(w) \/ Request(w) \/ LoadPolicy(w) \/ CachePolicy(w) \/ Abandon(w)

Spec == Init /\ [][Next]_vars

-----------------------------------------------------------------------------
(* Properties.                                                             *)

(* "Site settings changed. Reload and try again.": of concurrent changes   *)
(* every one that was accepted is in the document, whatever field another  *)
(* one set; the rest were told of the conflict.                            *)
NoAcceptedPatchIsLost == document.value = accepted

(* A request is served a policy that was in force less than the refresh    *)
(* interval and one load ago, although a slow load may put an older copy   *)
(* in place of a newer one and stamp it with the time of its answer.       *)
ServedIsRecent ==
  served' # None =>
    replacedAt[served'] = None \/ clock - replacedAt[served'] < Interval + Latency
PolicyIsRecent == [][ServedIsRecent]_vars

-----------------------------------------------------------------------------
(* What keeps them so (see PlatformProofs).                                *)

(* A change that is to be written has a field, and the document it was     *)
(* merged into is the one in place, if their revisions are equal.          *)
PatchIsMerged ==
  \A w \in Handlers : pc[w] = "s_write" =>
    /\ ctx[w].field \in Fields
    /\ ctx[w].read.revision <= document.revision
    /\ Unchanged(w) => ctx[w].read = document

(* No revision has been replaced that is not older than the document.      *)
InForce == \A r \in Revisions : document.revision <= r => replacedAt[r] = None

(* A load under way began a Latency ago at most.                           *)
LoadIsShort ==
  \A w \in Handlers : pc[w] \in {"l_load", "l_cache"} =>
    ctx[w].since <= clock /\ clock - ctx[w].since <= Latency

(* What a load has read was in force when it began, what is kept a Latency *)
(* before its stamp.                                                       *)
LoadedIsRecent ==
  \A w \in Handlers : pc[w] = "l_cache" =>
    LET at == replacedAt[ctx[w].read.revision] IN at = None \/ ctx[w].since <= at
CopyIsRecent ==
  cached # None =>
    /\ cached.at <= clock
    /\ LET at == replacedAt[cached.revision] IN at = None \/ cached.at - at <= Latency

IInv ==
  /\ TypeOK
  /\ NoAcceptedPatchIsLost
  /\ PatchIsMerged
  /\ InForce
  /\ LoadIsShort
  /\ LoadedIsRecent
  /\ CopyIsRecent
=============================================================================

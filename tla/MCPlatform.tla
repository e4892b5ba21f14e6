----------------------------- MODULE MCPlatform -----------------------------
(***************************************************************************)
(* The parts of the platform that answer for rows of their own: a          *)
(* behaviour is one of one part, chosen in its initial state.  Every part  *)
(* is checked in full, with what the changes and the deletion of a Resource*)
(* Server do to its rows among its own actions; the batch of a deletion    *)
(* writes rows of several parts, and nothing is said about two of them at  *)
(* once.  WebhookDelivery is extended, the other parts are instances over  *)
(* one pool of variables, which hold the rows of the part and None where it*)
(* has no use for them.                                                    *)
(***************************************************************************)
EXTENDS WebhookDelivery, TLC

CONSTANTS
  w1, w2,  \* the invocations
  e1, e2,  \* the two Users, scopes, settings, proofs or keys of a part
  r1,
  Users, Resources, Scopes, Fields, Proofs,
  MaxWrites, MaxRoleWrites, MaxClients, MaxKeys, MaxConsents, MaxSecrets, MaxUpdates,
  MaxRows, MaxRevisions, Interval, Latency, Window, MaxTime, MaxLinks

ASSUME BoundsAssumption ==
  /\ Interval \in Nat \ {0} /\ Latency \in Nat /\ Window \in Nat
  /\ MaxTime \in Nat /\ MaxRevisions \in Nat /\ MaxWrites \in Nat
  /\ MaxRoleWrites \in Nat /\ MaxClients \in Nat \ {0} /\ MaxKeys \in Nat \ {0}
  /\ MaxConsents \in Nat
  /\ MaxSecrets \in Nat \ {0} /\ MaxUpdates \in Nat /\ MaxRows \in Nat /\ MaxLinks \in Nat \ {0}
ASSUME PartsNoneAssumption == None \notin Nat \cup Proofs \cup Fields \cup Users

VARIABLES
  part,
  x1, x2, x3, x4, x5, x6, x7, x8,
  step, known  \* pc and ctx of the part's handlers

pool == <<x1, x2, x3, x4, x5, x6, x7, x8, step, known>>

Members == INSTANCE OrganizationMembers WITH
  RoleSets <- {{"owner"}, {"custom"}}, users <- x1, member <- x2, role <- x3,
  invitation <- x4, late <- x5, clock <- x6, pc <- step, ctx <- known

Registry == INSTANCE ResourceRegistry WITH
  MaxWrites <- MaxRoleWrites, resource <- x1, hidden <- x2, declared <- x3, allow <- x4,
  role <- x5, overlapped <- x6, revived <- x7, pc <- step, ctx <- known

Connectors == INSTANCE ConnectorClient WITH
  connector <- x1, server <- x2, clients <- x3, intent <- x4, credential <- x5,
  overwritten <- x6, pc <- step, ctx <- known

Consents == INSTANCE ApplicationConsent WITH
  MaxRows <- MaxConsents, consentRequired <- x1, consent <- x2, oauth <- x3,
  token <- x4, revoked <- x5, granted <- x6, withdrawn <- x7, late <- x8, pc <- step,
  ctx <- known

Applications == INSTANCE ApplicationClient WITH
  Values <- {0, 1}, application <- x1, client <- x2, secrets <- x3, generated <- x4,
  updates <- x5, apart <- x6, pc <- step, ctx <- known

Grants == INSTANCE PermissionGrant WITH
  permission <- x1, rows <- x2, clock <- x3, answered <- x4, pc <- step, ctx <- known

Settings == INSTANCE SiteSettings WITH
  document <- x1, accepted <- x2, replacedAt <- x3, cached <- x4, served <- x5,
  clock <- x6, pc <- step, ctx <- known

Replay == INSTANCE ProofReplay WITH
  now <- x1, issuedAt <- x2, jtis <- x3, acceptances <- x4, pc <- step, ctx <- known

Methods == INSTANCE SignInMethods WITH
  wallet <- x1, siwe <- x2, provider <- x3, links <- x4, connection <- x5,
  stranded <- x6, disturbed <- x7, pc <- step, ctx <- known

(* A row is not None.                                                      *)
ASSUME RowsNoneAssumption ==
  None \notin Grants!Permission \cup Methods!Connection \cup Consents!Consent
                \cup Connectors!Retired
                \cup Applications!ScopeValues
                \cup [secret : 1 .. MaxSecrets, scopes : Applications!ScopeValues]

PlatformInit ==
  /\ Init
  /\ \/ /\ part = "webhooks"
        /\ x1 = None /\ x2 = None /\ x3 = None /\ x4 = None /\ x5 = None /\ x6 = None
        /\ x7 = None /\ x8 = None /\ step = None /\ known = None
     \/ part = "members" /\ Members!Init /\ x7 = None /\ x8 = None
     \/ part = "registry" /\ Registry!Init /\ x8 = None
     \/ part = "connectors" /\ Connectors!Init /\ x7 = None /\ x8 = None
     \/ part = "consents" /\ Consents!Init
     \/ part = "applications" /\ Applications!Init /\ x7 = None /\ x8 = None
     \/ part = "grants" /\ Grants!Init /\ x5 = None /\ x6 = None /\ x7 = None /\ x8 = None
     \/ part = "settings" /\ Settings!Init /\ x7 = None /\ x8 = None
     \/ part = "replay" /\ Replay!Init /\ x5 = None /\ x6 = None /\ x7 = None /\ x8 = None
     \/ part = "methods" /\ Methods!Init /\ x8 = None

Of(name) == part = name /\ part' = name

PlatformNext ==
  \/ Of("webhooks") /\ Next /\ UNCHANGED pool
  \/ Of("members") /\ Members!Next /\ UNCHANGED <<x7, x8, vars>>
  \/ Of("registry") /\ Registry!Next /\ UNCHANGED <<x8, vars>>
  \/ Of("connectors") /\ Connectors!Next /\ UNCHANGED <<x7, x8, vars>>
  \/ Of("consents") /\ Consents!Next /\ UNCHANGED vars
  \/ Of("applications") /\ Applications!Next /\ UNCHANGED <<x7, x8, vars>>
  \/ Of("grants") /\ Grants!Next /\ UNCHANGED <<x5, x6, x7, x8, vars>>
  \/ Of("settings") /\ Settings!Next /\ UNCHANGED <<x7, x8, vars>>
  \/ Of("replay") /\ Replay!Next /\ UNCHANGED <<x5, x6, x7, x8, vars>>
  \/ Of("methods") /\ Methods!Next /\ UNCHANGED <<x8, vars>>

all == <<part, vars, pool>>

PlatformSpec == PlatformInit /\ [][PlatformNext]_all

Symmetry == Permutations(Handlers) \cup Permutations(Users)

-----------------------------------------------------------------------------
(* Every variable of the part at work keeps its type.                      *)
PlatformTypeOK ==
  /\ TypeOK
  /\ part = "members" => Members!TypeOK
  /\ part = "registry" => Registry!TypeOK
  /\ part = "connectors" => Connectors!TypeOK
  /\ part = "consents" => Consents!TypeOK
  /\ part = "applications" => Applications!TypeOK
  /\ part = "grants" => Grants!TypeOK
  /\ part = "settings" => Settings!TypeOK
  /\ part = "replay" => Replay!TypeOK
  /\ part = "methods" => Methods!TypeOK

(* Two Owners who demote or remove each other leave one (see               *)
(* OrganizationMembers).                                                   *)
KeepsAnOwner == [][part = "members" => Members!OwnerIsKept]_all

(* A Role is deleted from under no member and no invitation (see           *)
(* OrganizationMembers).                                                   *)
RolesExist == part = "members" => Members!RolesExist

(* Allow-lists and Roles name what Resource Servers declare, and a deleted *)
(* one comes back only by a whole value read before (see ResourceRegistry).*)
ReferencesAreClean == part = "registry" => Registry!ReferencesAreClean

(* A credential keeps the client that obtained it, and a client its key    *)
(* (see ConnectorClient).                                                  *)
GenerationsKeepTheirClients == part = "connectors" => Connectors!GenerationsKeepTheirClients

(* A User's or administrator's revocation leaves no record and no token,   *)
(* and a consent names only what was agreed (see ApplicationConsent).      *)
RevocationIsWhole == part = "consents" => Consents!RevocationIsWhole

(* The OAuth client repeats its Application, save for the scopes that a    *)
(* Resource Server or an overlapping update took apart (see                *)
(* ApplicationClient).                                                     *)
ClientRepeatsApplication == part = "applications" => Applications!ClientRepeatsApplication

(* Assigning a Permission shortens none that nothing else changed after it *)
(* was read (see PermissionGrant).                                         *)
GrantsOnlyAdd == [][part = "grants" => Grants!GrantAdds]_all

(* Every accepted change of the settings is in them (see SiteSettings).    *)
NoAcceptedPatchIsLost == part = "settings" => Settings!NoAcceptedPatchIsLost

(* A request is served a policy of the last refresh interval (see          *)
(* SiteSettings).                                                          *)
PolicyIsRecent == [][part = "settings" => Settings!ServedIsRecent]_all

(* A DPoP proof is accepted once before it expires (see ProofReplay).      *)
AcceptedOnceInItsWindow == [][part = "replay" => Replay!AgainOnceExpired]_all

(* Provider accounts and their connections stay together, disconnecting or *)
(* unlinking a Provider does not take the last account, and a wallet's     *)
(* rows are whole, with the exceptions SignInMethods names; nothing is     *)
(* said of unlinking a wallet, which makes no check.                       *)
AccountsAreWhole == part = "methods" => Methods!AccountsAreWhole
=============================================================================

------------------------- MODULE ApplicationConsent -------------------------
(***************************************************************************)
(* What one User has authorized one Application to do at one Resource      *)
(* Server (server/usecases/applications.ts and server/auth-helpers.ts over *)
(* server/adapters/repos/applications.ts): the consent the User gives, the *)
(* authorization recorded by policy while the Application requires no      *)
(* consent, the OAuth provider's own record, and their revocation; and     *)
(* what becomes of the consent when the Resource Server is synchronized,   *)
(* made private or deleted (server/adapters/repos/authorization.ts).       *)
(*                                                                         *)
(* A row is known by the number of rows that were revoked before it.       *)
(***************************************************************************)
EXTENDS Naturals

CONSTANTS
  Handlers,  \* invocations in flight, used again for later requests
  Scopes,    \* scopes of the Resource Server
  MaxRows,   \* consents revoked in a run
  None

VARIABLES
  consentRequired,  \* application.consentRequired
  consent,          \* the applicationConsent row that is not revoked, or None
  oauth,            \* the oauthConsent row, or None
  token,            \* the Application holds a live token of the User that names
                    \* scopes of the Resource Server
  revoked,          \* rows revoked so far
  granted,          \* what was agreed to or recorded by policy since then
  withdrawn,        \* "resource": the Resource Server is deleted; "consent": one of
                    \* its changes has revoked the consent since the User last did
  late,             \* since the User last did, something has landed after a
                    \* revocation it had not seen
  pc, ctx           \* where an invocation stands and what it has read

vars == <<consentRequired, consent, oauth, token, revoked, granted, withdrawn, late, pc, ctx>>

Ids == 0 .. MaxRows
Consent == [id : Ids, scopes : SUBSET Scopes, source : {"user_consent", "platform_policy"}]
OAuth == [id : Ids, scopes : SUBSET Scopes]
Steps == {"idle", "a_find", "a_read", "a_batch", "p_read", "p_write", "p_check", "t_insert",
          "r_batch", "n_batch", "x_batch"}
Context == [requested : SUBSET Scopes, scopes : SUBSET Scopes, id : Ids \cup {None},
            oauth : Ids \cup {None}, begun : Ids]
NoContext == [requested |-> {}, scopes |-> {}, id |-> None, oauth |-> None, begun |-> 0]

TypeOK ==
  /\ consentRequired \in BOOLEAN
  /\ consent \in Consent \cup {None}
  /\ oauth \in OAuth \cup {None}
  /\ token \in BOOLEAN /\ late \in BOOLEAN
  /\ revoked \in Ids
  /\ granted \subseteq Scopes
  /\ withdrawn \subseteq {"resource", "consent"}
  /\ pc \in [Handlers -> Steps]
  /\ ctx \in [Handlers -> Context]

Init ==
  /\ consentRequired = TRUE
  /\ consent = None
  /\ oauth = None
  /\ token = FALSE
  /\ revoked = 0
  /\ granted = {}
  /\ withdrawn = {}
  /\ late = FALSE
  /\ pc = [w \in Handlers |-> "idle"]
  /\ ctx = [w \in Handlers |-> NoContext]

-----------------------------------------------------------------------------
rows == <<consent, oauth, token, revoked, granted, withdrawn, late>>

Await(w, step, c) ==
  /\ pc' = [pc EXCEPT ![w] = step]
  /\ ctx' = [ctx EXCEPT ![w] = c]
Answer(w) == Await(w, "idle", NoContext)

Id(row) == IF row = None THEN None ELSE row.id

Authorized == IF consent = None THEN {} ELSE consent.scopes

(* findConsent: the User's own consent alone.                              *)
Consented ==
  IF consent = None \/ consent.source # "user_consent" THEN {} ELSE consent.scopes

(* Mutant: the update is made on the Application and the User.             *)
AnyRow(id) == id # None => consent # None

(* The update is made on the id that was read; without one, it is an       *)
(* insert.                                                                 *)
SameRow(id) == id = Id(consent)

(* Updated by id, a row that was revoked meanwhile is not seen to change;  *)
(* an insert breaks the unique index when another row is there.            *)
Lands(id, row) == id # None \/ row = None

-----------------------------------------------------------------------------
(* update of an Application of the platform's Organization.                *)
SetConsentRequired ==
  /\ consentRequired' = ~consentRequired
  /\ UNCHANGED <<rows, pc, ctx>>

(* createConsent wants the Resource Server to be there, merges what the    *)
(* User approves into the consent it finds ...                             *)
ApproveBegin(w, requested) ==
  /\ pc[w] = "idle" /\ "resource" \notin withdrawn
  /\ Await(w, "a_find", [NoContext EXCEPT !.requested = requested])
  /\ UNCHANGED <<consentRequired, rows>>

FindConsent(w) ==
  /\ pc[w] = "a_find"
  /\ Await(w, "a_read", [ctx[w] EXCEPT !.begun = revoked, !.scopes = ctx[w].requested \cup Consented])
  /\ UNCHANGED <<consentRequired, rows>>

(* ... reads both rows again, for their ids ...                            *)
ReadRows(w) ==
  /\ pc[w] = "a_read"
  /\ Await(w, "a_batch", [ctx[w] EXCEPT !.id = Id(consent), !.oauth = Id(oauth)])
  /\ UNCHANGED <<consentRequired, rows>>

(* ... and writes them in one batch.                                       *)
StoreConsent(w) ==
  /\ pc[w] = "a_batch"
  /\ IF Lands(ctx[w].id, consent) /\ Lands(ctx[w].oauth, oauth)
     THEN /\ consent' = IF SameRow(ctx[w].id)
                        THEN [id |-> revoked, scopes |-> ctx[w].scopes, source |-> "user_consent"]
                        ELSE consent
          /\ oauth' = IF ctx[w].oauth = Id(oauth)
                      THEN [id |-> IF oauth = None THEN revoked ELSE oauth.id,
                            scopes |-> ctx[w].scopes]
                      ELSE oauth
          /\ granted' = granted \cup ctx[w].requested
          /\ late' = (late \/ ctx[w].begun # revoked)
     ELSE UNCHANGED <<consent, oauth, granted, late>>
  /\ Answer(w)
  /\ UNCHANGED <<consentRequired, token, revoked, withdrawn>>

-----------------------------------------------------------------------------
(* filterOAuthAccessTokenScopes wants the Resource Server to be there: a   *)
(* token is issued within the consent; an Application that requires none   *)
(* has its authorization recorded first.                                   *)
IssueBegin(w, scopes) ==
  /\ pc[w] = "idle" /\ "resource" \notin withdrawn
  /\ IF consentRequired
     THEN Consented # {} /\ Await(w, "t_insert", [NoContext EXCEPT !.begun = revoked])
     ELSE Await(w, "p_read", [NoContext EXCEPT !.requested = scopes, !.scopes = scopes,
                                               !.begun = revoked])
  /\ UNCHANGED <<consentRequired, rows>>

(* recordPolicyAuthorization adds to the active row, whatever its source.  *)
ReadAuthorization(w) ==
  /\ pc[w] = "p_read"
  /\ Await(w, "p_write", [ctx[w] EXCEPT !.id = Id(consent), !.scopes = @ \cup Authorized])
  /\ UNCHANGED <<consentRequired, rows>>

RecordPolicy(w) ==
  /\ pc[w] = "p_write"
  /\ IF Lands(ctx[w].id, consent)
     THEN /\ consent' = IF ~SameRow(ctx[w].id) THEN consent
                        ELSE IF consent # None THEN [consent EXCEPT !.scopes = ctx[w].scopes]
                        ELSE [id |-> revoked, scopes |-> ctx[w].scopes, source |-> "platform_policy"]
          /\ granted' = granted \cup ctx[w].requested
          /\ Await(w, "p_check", [NoContext EXCEPT !.begun = ctx[w].begun])
     ELSE UNCHANGED <<consent, granted>> /\ Answer(w)
  /\ UNCHANGED <<consentRequired, oauth, token, revoked, withdrawn, late>>

(* It then wants an active row to be there.                                *)
ConfirmPolicy(w) ==
  /\ pc[w] = "p_check"
  /\ IF consent = None THEN Answer(w) ELSE Await(w, "t_insert", ctx[w])
  /\ UNCHANGED <<consentRequired, rows>>

(* The OAuth provider stores the token.                                    *)
InsertToken(w) ==
  /\ pc[w] = "t_insert"
  /\ token' = TRUE
  /\ late' = (late \/ ctx[w].begun # revoked)
  /\ Answer(w)
  /\ UNCHANGED <<consentRequired, consent, oauth, revoked, granted, withdrawn>>

-----------------------------------------------------------------------------
(* revokeConsent and revokeAuthorization: findAuthorizationGrant by the id *)
(* of a row, then one batch over Application and User; the row that is     *)
(* named may be one for another Resource Server.                           *)
RevokeBegin(w) ==
  /\ pc[w] = "idle"
  /\ Await(w, "r_batch", NoContext)
  /\ UNCHANGED <<consentRequired, rows>>

(* The active row, if there is one, is revoked.                            *)
EndConsent ==
  /\ IF consent = None THEN UNCHANGED revoked ELSE revoked < MaxRows /\ revoked' = revoked + 1
  /\ consent' = None
  /\ granted' = {}

RevokeGrant(w) ==
  /\ pc[w] = "r_batch"
  /\ EndConsent
  /\ oauth' = None
  /\ token' = FALSE
  /\ withdrawn' = withdrawn \ {"consent"}
  /\ late' = FALSE
  /\ Answer(w)
  /\ UNCHANGED consentRequired

-----------------------------------------------------------------------------
(* replaceResourceDiscovery: every consent is read, and what is declared   *)
(* no longer is taken from it, by id; without scopes it is revoked.        *)
NarrowBegin(w, declared) ==
  /\ pc[w] = "idle" /\ consent # None
  /\ Await(w, "n_batch", [NoContext EXCEPT !.id = consent.id,
                                           !.scopes = consent.scopes \cap declared])
  /\ UNCHANGED <<consentRequired, rows>>

(* updateResource to private: the consents of Users outside the owning     *)
(* Organization are read, and revoked by id.                               *)
PrivateBegin(w) ==
  /\ pc[w] = "idle" /\ consent # None
  /\ Await(w, "n_batch", [NoContext EXCEPT !.id = consent.id])
  /\ UNCHANGED <<consentRequired, rows>>

(* Neither of the two touches the provider's record and the tokens.        *)
Narrow(w) ==
  /\ pc[w] = "n_batch"
  /\ IF consent = None \/ ~SameRow(ctx[w].id)
     THEN UNCHANGED <<consent, revoked, granted, withdrawn>>
     ELSE IF ctx[w].scopes # {}
          THEN consent' = [consent EXCEPT !.scopes = ctx[w].scopes]
               /\ UNCHANGED <<revoked, granted, withdrawn>>
          ELSE EndConsent /\ withdrawn' = withdrawn \cup {"consent"}
  /\ Answer(w)
  /\ UNCHANGED <<consentRequired, oauth, token, late>>

(* deleteResource wants it to be there, then in one batch deletes it and   *)
(* revokes its consents; the record and the tokens stay here, too.         *)
DeleteBegin(w) ==
  /\ pc[w] = "idle" /\ "resource" \notin withdrawn
  /\ Await(w, "x_batch", NoContext)
  /\ UNCHANGED <<consentRequired, rows>>

DeleteBatch(w) ==
  /\ pc[w] = "x_batch"
  /\ EndConsent
  /\ withdrawn' = withdrawn \cup {"resource"}
                  \cup (IF consent = None THEN {} ELSE {"consent"})
  /\ Answer(w)
  /\ UNCHANGED <<consentRequired, oauth, token, late>>

(* The invocation dies between two statements.                             *)
Abandon(w) ==
  /\ pc[w] # "idle" /\ Answer(w)
  /\ UNCHANGED <<consentRequired, rows>>

Next ==
  \/ SetConsentRequired
  \/ \E w \in Handlers :
       \/ \E scopes \in SUBSET Scopes \ {{}} :
            ApproveBegin(w, scopes) \/ IssueBegin(w, scopes)
       \/ \E declared \in SUBSET Scopes : NarrowBegin(w, declared)
       \/ FindConsent(w) \/ ReadRows(w) \/ StoreConsent(w)
       \/ ReadAuthorization(w) \/ RecordPolicy(w) \/ ConfirmPolicy(w) \/ InsertToken(w)
       \/ RevokeBegin(w) \/ RevokeGrant(w)
       \/ PrivateBegin(w) \/ Narrow(w) \/ DeleteBegin(w) \/ DeleteBatch(w)
       \/ Abandon(w)

Spec == Init /\ [][Next]_vars

-----------------------------------------------------------------------------
(* Properties.                                                             *)

(* The consent of a User names what the User agreed to, or what was        *)
(* recorded by policy in the same row, since the last revocation; and when *)
(* it is the User or an administrator who revoked it, neither the          *)
(* provider's record nor a token is left.  A Resource Server that is       *)
(* synchronized, made private or deleted revokes the consent alone, and    *)
(* its record and tokens stay until the Application's authorization is     *)
(* revoked as a whole.  Only what was begun before a revocation and lands  *)
(* after it may break this, until then.                                    *)
RevocationIsWhole ==
  ~late => /\ Consented \subseteq granted
           /\ consent = None => "consent" \in withdrawn \/ (oauth = None /\ ~token)

-----------------------------------------------------------------------------
(* What keeps it so (see PlatformProofs).                                  *)

(* While nothing has landed late, the active row names what was granted,   *)
(* and without one there is nothing else than a Resource Server has left.  *)
RowsSound ==
  /\ consent # None => consent.id = revoked
  /\ late \/ IF consent = None THEN "consent" \in withdrawn \/ (oauth = None /\ ~token)
             ELSE consent.scopes \subseteq granted

(* What an invocation that no revocation overtook may rely on, even when   *)
(* something else landed late: the row it found is there, or it found none.*)
Found(step, c) ==
  /\ step \in {"a_read", "a_batch"} /\ c.begun = revoked /\ consent = None =>
       c.scopes \subseteq c.requested
  /\ step = "p_read" => c.scopes \subseteq c.requested
  /\ step = "p_write" /\ c.id = None => c.scopes \subseteq c.requested
  /\ step = "t_insert" /\ c.begun = revoked => consent # None

(* And what it has read and merged is still granted.                       *)
Relies(step, c) ==
  /\ step \in {"a_read", "a_batch"} /\ c.begun = revoked =>
       c.scopes \subseteq c.requested \cup granted
  /\ step = "p_write" /\ c.id = revoked => c.scopes \subseteq c.requested \cup granted
  /\ step = "n_batch" /\ c.id = revoked => c.scopes \subseteq granted

(* A row that was read is the active one, or has been revoked.             *)
Given(step, c) ==
  /\ c.begun <= revoked
  /\ c.id # None => c.id <= revoked /\ (consent = None => c.id < revoked)
  /\ step \in {"a_batch", "p_write"} /\ c.id # None => c.begun <= c.id
  /\ Found(step, c)
  /\ late \/ Relies(step, c)

IInv == TypeOK /\ RowsSound /\ \A w \in Handlers : Given(pc[w], ctx[w])
=============================================================================

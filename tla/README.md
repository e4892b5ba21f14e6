# Realmroot in TLA+

A verification development for the authorization server in `src/` (package
`realmroot`): TLA+ models of its stateful cores, TLC configurations that check
them on small instances, and TLAPS proofs of the safety results for every size.

Contents: [1 The system](#1-the-system) · [2 Inventory](#2-inventory) ·
[3 Plan](#3-plan) · [4 How the code is abstracted](#4-how-the-code-is-abstracted) ·
[5 Modules](#5-modules) · [6 Runs and bounds](#6-runs-and-bounds) ·
[7 Fairness](#7-fairness) · [8 Proofs](#8-proofs) ·
[9 Disagreements with the documentation](#9-disagreements-with-the-documentation) ·
[10 Not modelled](#10-not-modelled)

## 1 The system

Realmroot is an identity provider and OAuth authorization server that runs as a
Cloudflare Worker over a D1 (SQLite) database. HTTP routes
(`src/server/http/routes`) call use cases (`src/server/usecases`), which call
repositories (`src/server/adapters/repos`). Nothing of the domain is kept in
memory between requests except a few caches in `worker.ts`; all state is rows.

What makes it hard is the database contract. One SQL statement is atomic, and
`db.batch([...])` runs its statements as one transaction. There are no
interactive transactions: a use case that reads, decides and writes does so in
separate statements, and **any other request can run at every `await` between
them**. A Worker invocation may also end at any `await` (a timeout, an
exception, a lost connection to a provider) and is not resumed. The repositories
defend themselves with conditional statements inside the batch (`INSERT ...
SELECT ... WHERE`, `UPDATE ... WHERE status = 'pending'`, compare-and-set on a
version, unique indexes); the models are about whether those guards are enough.

## 2 Inventory

| Component | State (rows) | Operations | Hard behaviour | What makes it correct |
|---|---|---|---|---|
| Workload token exchange and refresh rotation | `federated_credential`, `token_exchange_refresh_token`, `token_exchange_access_token` | exchange, refresh, credential create/patch/delete, expiry | several refreshes of one token; revocation against rotation in flight; three-statement insert; deletion of the resource during an exchange | one live token per family; a revoked family stays dead; rotation is atomic; a token is honoured once; tokens only for their Application |
| Resource Servers | `api_resource`, scope registry | create, update, hide, synchronize (hourly and by hand), delete | deletion is one batch over a dozen tables against every other request; whole values of Applications, Roles and consents written back after reads | nothing active for a deleted Resource Server; allow-lists and Roles name what it declares |
| Agent access requests, Permissions, leases | `agent_access_request`, `entitlement`, `token_lease` | request, approve, deny, revoke, issue at the target, end | approve against deny against revoke; the target issues before the lease row exists | a decision is taken once; a Permission has one active entitlement; a revoked Permission has no active lease |
| Provider connections and credentials | connection intents, `provider_credential`, authorizations | connect, reconnect, refresh under a claim, revoke, disconnect | the claim lapses while the holder waits; rotating refresh tokens; late `invalid_grant` | one holder spends a refresh token; a late answer never destroys a newer credential |
| Agent identities | `agent_identity`, bindings, enrollment intents, protocol `agent` rows | enroll, approve, add a host, revoke a host, deactivate, activate, recover, delete | approval races with deletion; recovery collects its victims before its batch | a deleted or recovered identity has no usable installation |
| Agent protocol registrations | `agent`, grants, approval requests | register, decide, revoke | two controllers decide at once | one decision per approval |
| Connectors, dynamic registration | connector row with client generation and retired clients | register, update the registration, rotate, reconfigure | provider call between read and write; loser of the generation compare-and-set | a credential keeps the client that obtained it; client id, secret and registration token are of one registration |
| Applications, secrets, consents | `application`, `oauth_client`, secrets, consents | create, update, rotate secret, delete; consent, record by policy, revoke | version computed from an earlier read; two tables that repeat each other; consent merged with stale scopes | one secret in force, the provider's; the client repeats its Application; a revocation takes consent, provider record and tokens |
| Organizations, members, Roles | `member`, Roles, invitations | bootstrap, add, re-role, remove, invite, accept, change and delete a Role | two owners demote each other; Role deleted while it is being assigned | an Owner remains; a member's Roles exist |
| Scope entitlements | per subject and resource | create, extend, end | unguarded write after validations | none active on a deleted resource |
| Webhooks | endpoints, requests, attempts | publish, retry, complete, delete endpoint | attempts complete out of order; worker dies with an attempt reserved | a key is sent once; delivered stays delivered |
| Sign-in methods | accounts, wallets, Provider connections | link, unlink, connect, disconnect; triggers on the account table | last-method check before the deletion; two-table wallet writes; a trigger that sweeps rows of every User | a User keeps a way to sign in; account and connection stay attached |
| Onboarding | administrator row | create first administrator | two submissions | exactly one bootstrap administrator |
| Site settings | one row per document with a revision; a copy of the security policy per isolate | patch, read through the copy | lost update; overlapping loads put an old copy over a newer one | no accepted change is lost; a served policy is recent |
| DPoP replay store | proof identifiers | consume, purge | purge and acceptance use two clock readings | a proof is accepted once |
| Sign-in core, HTTP layer, assets, web console | better-auth, routes, R2, React | | third-party library or presentation | not modelled |

Components interact by calls (route → use case → repository) and, above all,
through shared rows: the Resource Server's `enabled`/`visibility`/`deletedAt`
columns are read by every token path, `deleteResource` writes rows of nearly
every other component, disabling an Application or revoking an Agent identity
must reach tokens issued earlier. The only outgoing calls that return into
stateful code are to identity providers, resource servers and webhook
receivers; the only timer is the hourly scheduled handler.

The hazards, each at its line with the properties that cover it, are in
`PROJECT.json`.


## 3 Plan

Order: the operations where an interleaving decides whether authority exists come
first, then those where it decides whether data is lost.

| | Module | Composes | State |
|---|---|---|---|
| 1 | TokenFamily, TokenRefresh | TokenRefresh implements TokenFamily | modelled, checked, safety and the refinement proved |
| 2 | AgentIdentity | | modelled, checked, proved |
| 3 | AgentApproval | | modelled, checked, proved |
| 4 | WebhookDelivery | | modelled, checked, proved |
| 5 | ProviderCredential | | modelled, checked, proved |
| 6 | AgentAccess | Resource Server × Agent × connection | modelled, checked, proved |
| 7 | OrganizationMembers | with onboarding | modelled, checked, proved |
| 8 | ResourceRegistry | Resource Servers × Applications × Roles | modelled, checked, proved |
| 9 | ConnectorClient | Connector × authorization server × account connection | modelled, checked, proved |
| 10 | ApplicationConsent, ApplicationClient | consents × token issue; Application × OAuth client | modelled, checked, proved |
| 11 | PermissionGrant | | modelled, checked, proved |
| 12 | SiteSettings | settings × isolate's copy | modelled, checked, proved |
| 13 | ProofReplay | | modelled, checked, proved |
| 14 | SignInMethods | wallets × accounts × Provider connections | modelled, checked, proved |

Every property of a passing run but the liveness property of section 7 is now also
a theorem. Next: properties of the behaviours section 9 lists that say what still
holds of them, each with its run and its theorem.
Components to widen: creation of Resource Servers and Organizations, the delegated
exchanges, native token issuance.

## 4 How the code is abstracted

* **One action per statement.** An action is one SQL statement, one `db.batch`, or
  one call to another server, with everything the handler does after it until the
  next `await`. What a handler has read stays in `ctx` and is used stale, as in
  the code; `pc` says at which await it stands. Statements inside a batch see the
  effects of those before them.
* **Invocations.** In TokenRefresh an element of `Requests` is one HTTP request,
  which also names the tokens it mints; elsewhere an element of `Handlers` is an
  invocation slot that serves one request after another. `Abandon` ends an
  invocation at any await: an exception, a failed statement, a refused post, a
  lost isolate. Nothing resumes it. In TokenRefresh a request that dies is one
  that takes no further step.
* **A test that can fail for reasons the model has no state for** (a bad
  signature, an expired intent, a controller who is not the owner, an unknown
  scope) is not modelled: the handler may stop at `Abandon` there, and a handler
  that continues is one that passed.
* **Identifiers** are model values. A row that does not exist is a value of its own;
  unique indexes and foreign keys are the guards of the inserts they refuse.
* **Time** is an action that may happen at any moment (`ExpireRefresh`, `Expire`,
  `ClaimLapses`), and a clock with a `Tick` where the code compares readings
  (PermissionGrant, SiteSettings, ProofReplay); `Overrun` says whether a claim on
  a credential may lapse under a holder that is still running, which takes a
  response body or a database call slower than ten seconds.
* **Merged reads.** Consecutive reads are one action only where what the second
  finds cannot depend on the interleaving, or where the order is irrelevant to
  every later test: the two reads of `assertProtocolAgentCanEnroll` (neither a
  revocation of a registration nor a binding is undone); the audience tests of
  an exchange, each of which can only refuse; the authorization, credential and
  Resource Server rows a refresh begins with (a revoked authorization has no active
  credential, which is proved, unless its Resource Server is deleted, and then the
  refresh is refused); the guard reads of AgentAccess's `...Begin` actions, each of which
  the final statement tests again; and the lookup of a Permission with the
  listing of its leases in a revocation.
* **Timestamps as versions.** A row whose `updatedAt` is the value of a
  compare-and-set can be written twice in one millisecond: the second write may
  leave the stamp as it was (`Stamped` in OrganizationMembers, `RoleBecomes` in
  ResourceRegistry).
* **A Resource Server's writes.** Its synchronization, change to private and
  deletion are batches over rows of many components. Each module has, as actions of
  its own, what they do to its rows; no module has a whole batch, and nothing is
  said of rows of two modules at once.
* **History variables** (`late`, `revived`, `overwritten`, `overlapped`, `granted`,
  `withdrawn`, `apart`, `accepted`, `acceptances`, `stranded`, `disturbed`) record what no row
  says but an invariant needs: which of two outcomes the code allows has happened.
  No guard of the code's actions reads one.
* **Over-approximation.** AgentAccess lets a deleted Agent be activated again, as it
  has only `active` and `inactive`: every property holds for more behaviours than
  the code has.

## 5 Modules

| Module | Code (under `src/server/`) | Variables | Actions |
|---|---|---|---|
| `TokenFamily` | abstract | `holder`, `minted` | a family is opened, advances to a token never seen before, or dies |
| `TokenRefresh` | `usecases/token-exchange.ts`, `adapters/repos/token-exchange.ts`, credential and Resource Server management in `usecases/authorization.ts`, `repos/authorization.ts` | `client`, `res`, `cred`, `rt`, `at` (rows), `adm` (a validated credential patch), `pc`, `ctx` | exchange: `ExchangeBegin` → `ResolveCredential` → `ExchangeVerify` → `StoreAccessToken` → `InsertRootToken` → `CheckFamily` → `UndoRootToken`; refresh: `RefreshBegin` → `ReadToken` → `ReadCredential` → `ReadAudience` → `ResolveScopes` → `Rotate`, or `RevokeFamily`; management: validate and write a credential, delete it, change or delete a Resource Server, change an Application |
| `AgentIdentity` | `usecases/agent-identities.ts`, `repos/agent-identities.ts` | `identity`, `agent`, `binding`, `intent`, `reservation` | enrollment (`EnrollBegin` … `ApproveBatch`), additional host, `LoginBatch`, `CreateBatch`, revoke host, recover, deactivate, activate, delete |
| `AgentApproval` | `usecases/agents.ts`, `repos/agents.ts` | `agent`, `host`, `grant`, `approval`; `answers`, `finished` record what callers were told | `DecideBegin`, three concurrent reads, `Approve` or `Deny` (one batch); `RevokeAgentRow`, `RevokeGrantRows`, `RevokeApprovalRows` per Agent, `RevokeHostBegin`, `ListHosted`, `RevokeHostApprovals`, `RevokeGrant`; the protocol library's registration and requests are external |
| `WebhookDelivery` | `usecases/webhooks.ts`, `repos/webhooks.ts` | `endpoint`, `delivery`, `attempt`; `sent` counts posts | `InsertDelivery`, `RetryBegin`, `FindByKey`, `ReadDelivery`, `ReadEndpoint`, `ReserveAttempt`, `MarkPending`, `Post`, `CompleteAttempt`, `CompleteDelivery`, `DeleteEndpoint` |
| `ProviderCredential` | `usecases/external-resources.ts`, `repos/external-resources.ts`, `repos/authorization.ts` | `intent`, `auth`, `cred` (rows), `deleted` (the Resource Server), `provider` (which refresh token it accepts: external) | callback: `ConsumeIntent` → `ExchangeCode` → `FindConnection` → `CreateAuthorization`, or `CheckResource` → `UpsertCredential`; refresh: `Claim` → `PostAnswered`, `PostLost`, `PostFailed` or `PostRefused` → `CompleteRefresh`, `ReleaseRefresh` or the two revocations; disconnection; revocation by Connector; deletion of the Resource Server; `ClaimLapses` |
| `AgentAccess` | `usecases/external-resources.ts`, `usecases/authorization.ts` and their repositories | `resource`, `agent`, `connection`, `request`, `entitlement`, `lease` (rows), `target` (tokens at the target: external) | ask, approve with its one retry, deny, direct grant with replacement and extension, issue at the target then insert the lease, revoke a Permission, an Agent's or a connection's, reconnect and revoke what is no longer covered, disable and delete the Resource Server, expiry |
| `OrganizationMembers` | `usecases/authorization.ts`, `repos/authorization.ts`, `repos/onboarding.ts`, `repos/users.ts` | `users`, `member`, `role`, `invitation` (rows), `clock` | `Bootstrap`, `SignUp`, `DeleteUser`; add (`AddMemberBegin` → `AddMember`), re-role (`ReplaceBegin` → `ValidateRoles` → `CountOwners` → `ReplaceRoles`, and the plain `UpdateMember`), remove, invite, cancel, accept; create, update and delete the dynamic Role |
| `ResourceRegistry` | `usecases/authorization.ts`, `repos/authorization.ts`, `usecases/applications.ts`, `repos/applications.ts` | `resource`, `hidden`, `declared` (scope registry), `allow` (an Application's Resource scopes), `role` | synchronize (`SyncBegin` → `SyncFetched` → `ReadReferences` → `ReplaceDiscovery`), disable, enable through a new discovery, hide, publish, write an Application's scopes or a Role's, delete |
| `ConnectorClient` | `usecases/connectors.ts`, `usecases/external-resources.ts` and their repositories | `connector` (its client, configuration and generation), `intent`, `credential`; `server` and `clients` (the authorization server: external) | `EnsureBegin` → `ReadRegistration`, `FetchMetadata` → `UpdateRegistration` → `SaveRegistration`, or a replacement client and `RotateGeneration` → `ReadWinner`; then `CreateIntent`, `RedeemCode` → `StoreCredential`; reconfiguration by an administrator |
| `ApplicationConsent` | `usecases/applications.ts`, `auth-helpers.ts`, `repos/applications.ts`, `repos/authorization.ts` | `consentRequired`, `consent`, `oauth` (the provider's record), `token` | approve (`ApproveBegin` → `FindConsent` → `ReadRows` → `StoreConsent`), issue with or without a policy record (`IssueBegin` → `ReadAuthorization` → `RecordPolicy` → `ConfirmPolicy` → `InsertToken`), revoke (`RevokeBegin` → `RevokeGrant`); by the Resource Server: synchronize (`NarrowBegin`) or make private (`PrivateBegin`) → `Narrow`, delete (`DeleteBegin` → `DeleteBatch`) |
| `ApplicationClient` | `usecases/applications.ts`, `repos/applications.ts`, `repos/authorization.ts` | `application`, `client` (its `oauthClient` row), `secrets` | rotate (`RotateBegin` → `ReadApplication` → `StoreSecret`), update (`UpdateBegin` → `Update`), delete; by the Resource Server: synchronize or make private (`WithdrawBegin` → `Withdraw`), delete (`ResourceDeleted`) |
| `PermissionGrant` | `usecases/authorization.ts`, `repos/authorization.ts` | `permission`, `clock` | grant with its retries (`GrantBegin` → `FindPermission` → insert, renew or extend), revoke |
| `SiteSettings` | `repos/security.ts`, `repos/site-settings.ts`, `worker.ts` | `document` with its revision, `cached` (an isolate's copy and its age), `clock` | `PatchBegin` → `WriteSettings` (a lost compare-and-set is answered as a conflict); `Request` → `LoadPolicy` → `CachePolicy` |
| `ProofReplay` | `usecases/dpop.ts`, `repos/agent-tokens.ts` | `jtis` (rows), `now`, `issuedAt` | `Sign`, `Check` → `ReadClock` → `Consume` (purge and insert in a batch) |
| `SignInMethods` | `usecases/external-resources.ts`, `repos/wallets.ts`, `repos/external-resources.ts`, `http/routes/account/index.ts`, the triggers of `src/migrations/` | `wallet`, `siwe`, `provider`, `links`, `connection` (rows) | link and unlink a wallet (two statements each), link a Provider account, unlink it (`UnlinkProviderBegin` → `UnlinkProvider`), disconnect, connect (`ConnectBegin` → `UpsertConnection` → `StoreAuthorization`) |
| `MCPlatform` | | `part`, a pool of variables | one of WebhookDelivery and the nine modules above per behaviour |

Each `MC` module gives its specification model values and a symmetry set.
`MCPlatform` EXTENDS WebhookDelivery and instantiates the parts that came after it over
one pool of variables: a behaviour is one of one part, chosen in its initial
state, so every part is checked in full and none is combined with another. Each
part answers for rows of its own. The batches of a Resource Server (section 4)
write rows of several parts, and each part has among its actions what they do to
its own. Its properties say for each part what the part's own module says.
`MCTokenRefresh` also has `QuietSpec`, the same requests without management.
`revokeAgentIdentityHost` is implemented and tested but no route reaches it: it is
in `AgentIdentity!Next`, and `MountedNext` is the relation without it.

`PROJECT.json` maps every definition to the lines it stands for. A definition
whose comment begins with "Mutant" is a plausible bug: with it in place of the
definition after it, the property `PROJECT.json` names is violated.

## 6 Runs and bounds

Distinct states with the symmetry reduction given; each run ends within five
minutes on two workers.

| Run | Instance | States | Properties |
|---|---|---|---|
| `token_race` | 3 requests, 2 clients, 1 credential, 1 Resource Server, all management | 866 169 | TypeOK, OneLivePerFamily, RevokedFamilyHasNoLiveToken, DeadFamilyStaysDead |
| `token_replay` | 4 requests (the first may die), 1 client, no management | 68 116 | OneWinnerPerToken, ImplementsTokenFamily, ReuseEventuallySilencesFamily |
| `token_deleted` | 1 request | violation | NoTokenForDeletedResource |
| `agent_identity_race` | 2 handlers, 2 identities, 2 registrations, 1 key | 2 834 373 | TypeOK, NothingHalfCreated, ReservationsHold, DeletionIsFinal |
| `agent_approval_race` | 2 handlers, 2 Users, 1 Agent, 2 user codes, 1 capability | 444 235 | TypeOK, OneOutcomePerApproval, RevocationIsThorough, ControllerIsForever, GrantIsDecidedOnce |
| `agent_approval_host` | the same with 2 Agents on one host, 1 code | violation | AgentAndHostShareController |
| `platform` | 2 handlers; 2 Users, scopes, settings, proofs or manual keys | 3 990 125 | PlatformTypeOK and those of the next table |
| `provider_refresh` | 3 handlers, 2 authorizations, 2 rotations each, 3 versions, claims may lapse under their holder | 1 902 741 | TypeOK, RevokedConnectionHasNoCredential, CallbackIsHonouredOnce, RotationIsNotLost, RevokedCredentialIsSettled |
| `provider_reconnect` | 2 handlers, claims lapse only without their holder | violation | OnlyCallbacksReplace |
| `agent_access_race` | 2 handlers, 1 request, 1 scope, 2 tokens, 2 Permissions; one-time, limited and direct persistent | 3 821 674 | TypeOK, OnceIsOnce, RevokedLeaseIsDead, NothingForDeletedResource |
| `agent_access_scopes` | 2 handlers, 2 requests, 2 scopes, 1 token, 3 one-time Permissions | 3 188 666 | ApprovalIsWhole |
| `agent_access_revoked` | 2 handlers, 1 request, 1 scope, 1 token, 1 Permission | violation | RevokedPermissionHasNoLease |

The parts of `platform`:

| Part | Bounds | States | Properties |
|---|---|---|---|
| WebhookDelivery | the initial key and 2 of manual attempts | 189 590 | KeySendsOnce, AttemptsTellTheHistory |
| OrganizationMembers | 2 Users, the Owner's Role and one dynamic Role; `MaxWrites` 2 stamps of its row | 456 153 | RolesExist, KeepsAnOwner |
| ResourceRegistry | 1 Resource Server, 2 scopes; `MaxRoleWrites` 2 stamps of the Role | 512 670 | ReferencesAreClean |
| ConnectorClient | `MaxClients` 3 clients registered, `MaxKeys` 1 change of a client's key | 216 261 | GenerationsKeepTheirClients |
| ApplicationConsent | 2 scopes; `MaxConsents` 2 consents revoked | 1 339 974 | RevocationIsWhole |
| ApplicationClient | `MaxSecrets` 4, `MaxUpdates` 3 | 131 872 | ClientRepeatsApplication |
| PermissionGrant | `MaxRows` 3, times 0 to 4 | 123 169 | GrantsOnlyAdd |
| SiteSettings | 2 fields, `MaxRevisions` 2, `Interval` 2, `Latency` 1, times 0 to 4 | 29 795 | NoAcceptedPatchIsLost, PolicyIsRecent |
| ProofReplay | 2 proofs, `Window` 1, times 0 to 4 | 10 134 | AcceptedOnceInItsWindow |
| SignInMethods | 2 Users, 1 wallet, 1 Provider; `MaxLinks` 2 accounts | 980 507 | AccountsAreWhole |

**Why the bounds are enough.** Every race in this code is between one invocation
that has read and one that writes before the first does; two handlers give every
such pair, and because handlers are used again for later requests the number of
operations in a behaviour is not bounded by the number of handlers. Three are used
where a third party matters: in `token_race` one request mints, two refresh; in
`provider_refresh` a callback, a holder of the claim and one that takes it over.
Four requests in `token_replay` give two consecutive rotations and a replay of
either token while they run. Rows that share nothing are one: a delivery does not
touch another's rows, nor an Agent, Resource Server and Context those of another.
Two identities with two registrations and one key are what the unique indexes can
confuse. `MaxRows` bounds the Permissions ever given and makes a grant wait when
it is reached, `MaxVersion` stops further refreshes from beginning, `MaxRotations`
is the number of refresh tokens an authorization at the provider issues after its
first; each leaves room for a second Permission, or second rotation, while the
first is still in an invocation's hands. What the models with proofs claim does
not depend on the bounds (section 8). In `platform` the counters leave room for
what each race needs: two stamps let a Role change between a read and a
compare-and-set; three clients are the one in use, the one a rotation obtained and
the one the loser of that rotation did; four secrets are two rotations by each
handler; two revoked consents let an invocation hold the id of one while the next
is given and revoked; two revoked consents let an invocation hold the id of one
while another is given and revoked; two revisions let an isolate load the settings
before and after a change while another invocation loads them too; four instants
contain a whole acceptance window on either side of one clock reading, and a
refresh interval followed by the slowest load. `Interval`, `Latency` and `Window`
stand for the refresh interval of the cached policy, the longest a load takes and
the tolerated age of a proof: only their order matters to the properties.

**Symmetry** is used where the values differ by their state only: requests,
handlers, identities, registrations, keys other than the initial one, Users, fields, proofs,
Agents on one host, codes, scopes, leases, authorizations. No run that checks a
liveness property or the refinement uses it.

**Deadlock** is checked in `token_race`, `agent_identity_race` and
`agent_approval_race`, where an invocation can always begin or management act. It
is not in `token_replay` (a finite number of requests may all be answered),
`platform` (an endpoint is deleted for good, clocks and counters reach their
bounds), `provider_refresh` (every authorization used and every version reached)
and the `agent_access` runs (the Resource Server deleted and every request asked);
there the system stops because its supply of requests does.

## 7 Fairness

Safety is checked and proved without fairness. The one liveness property,
ReuseEventuallySilencesFamily, is checked under `QuietFairSpec`: weak fairness of
`HandlerStep(r)` for each request in `Reliable`, and for nothing else. The runtime
runs a handler whose promise is pending until it answers, so each step of an
invocation that survives is eventually taken; weak fairness suffices because no
other request disables a handler's step, it only changes its outcome. Nobody is
obliged to send a request, tokens need not expire, and the request outside
`Reliable` may stop anywhere, in the middle of a rotation's reads or having
opened a family it never hands out. The property says that a detected reuse ends
in a family without a live token although another rotation may commit after the
detection; it is not claimed when the invocation that detected the reuse dies
before its revocation, and then it does not hold.

## 8 Proofs

Seven modules hold the proofs. They cover every finite or infinite set of
requests, handlers, clients, Users, Agents and so on; the only assumptions are the
named ones the models declare, which TLC evaluates in the runs. `MaxRotations` and
`MaxVersion` are any natural numbers, `Overrun` is either.

| Assumption | Says | Why |
|---|---|---|
| `ConstantsAssumption`, `HostAssumption` | functions have their domains | |
| `NoneAssumption`, `PartsNoneAssumption`, `RowsNoneAssumption` | the value for "nothing" is not an identifier, a reading of the clock or a row | a missing row is told from every row |
| `KeyAssumption`, `ScopesAssumption` | the keys of a delivery, the scopes of a Resource Server are finitely many | their rows are counted |
| `ModesAssumption` | a Permission is one-time, limited or persistent, and a direct grant is not one-time | the modes of the schema |
| `RowsAssumption`, `BoundsAssumption` | bounds and times are natural numbers | |
| `BoundsAssumption` | `Interval` > 0; `MaxSecrets`, `MaxLinks`, `MaxClients`, `MaxKeys` > 0 | the refresh interval is a positive number (`worker.ts:31`); an Application begins with a secret, a User may with a linked account, a Connector with a registered client, and a first registration can be manageable, so each type must have room for the first |

**TokenRefreshProofs** proves TypeOK, OneLivePerFamily, RevokedFamilyHasNoLiveToken,
OneWinnerPerToken and DeadFamilyStaysDead. None is inductive by itself. A rotation
adds a row to the family its request *read*, so the invariant says that a row
that is still there is the one read (`RefreshContext`); a first insert must not
meet an existing family, so a request that has not minted has no row and opens
its own family (`ExchangeContext`, `Fresh`); `deleteResource` and the cascade find
tokens through their credential, so they take whole families only because a
family rests on one credential (`OneCredentialPerFamily`); the undo of
`storeRefreshToken` must not silence a live family (`UndoneFamilyIsDead`); a
request that was answered has consumed what it presented (`WinnerConsumed`); and
the tests of an audience need a credential that names one (`AudienceKnown`). The
proof has one lemma per action over two frames: steps that keep families or kill
whole ones, and the two that add a row. DeadFamilyStaysDead is a fact about one
step and uses only the invariant before it.

It also proves the refinement, ImplementsTokenFamily, for every set of requests:
under the mapping `Holder` (the live token of a family) and `Minted` (the tokens
of the requests that have stored one) a step of TokenRefresh is one of
TokenFamily's or a stutter. The statements that only take liveness away are deaths
of families or nothing (`RetireStep`); a first insert opens a family because its
request has minted nothing (`OpenStep`, from `Fresh`); and a rotation hands the
family over to a token never seen before because its request has not been answered
(`AdvanceStep`).

**AgentIdentityProofs** proves TypeOK, NothingHalfCreated, ReservationsHold and
DeletionIsFinal. Invocations write over rows they read several awaits ago, so the
argument is a frame: `Kept` lists what no statement of the repository undoes (an
identity that exists stays, deleted is for ever, a binding keeps its identity, an
intent and a reservation keep theirs), every action is shown to be `Kept`, and what an
invocation has seen (`Seen`) is chosen among the facts `Kept` preserves. The rows
need `UnbornIsUnbound` (a new registration's insert of a binding meets none)
and `AdditionalNamesIdentity` (an approved additional host names an identity that
exists) beside NothingHalfCreated itself.

**AgentApprovalProofs** proves TypeOK, OneOutcomePerApproval, RevocationIsThorough,
ControllerIsForever and GrantIsDecidedOnce. A revocation is a sequence of
statements while decisions commit, so the strengthening is what its statements so
far have achieved and that nothing undoes it (`RevocationProgress`): a revoked
Agent row is never pending again, which is why a decision that read it before
cannot activate it. `UnclaimedUntilDecided` is why a decision that finds a row
pending replaces no controller; `OpenIsUnanswered` ties the answers given to the
state of the request.

**ProviderCredentialProofs** proves TypeOK, RevokedConnectionHasNoCredential,
CallbackIsHonouredOnce, RotationIsNotLost and RevokedCredentialIsSettled. The
claim does *not* exclude two holders, as it lapses; that a rotation is
nevertheless never overwritten follows from what the provider has issued
(`TokensWereIssued`), that whoever still has the claim stores something at least
as new as the row (`HolderIsNewer`), and that the tokens of an authorization a
callback has not yet stored are in nobody's hands (`GrantsAreFresh`,
`IntentConsumed`). `RowExists` and `Held` say which rows and tokens an invocation
has seen before it writes. RevokedConnectionHasNoCredential is inductive beside
these: what makes a credential active makes its authorization active in the same
batch, and its exception, a deleted Resource Server, is for ever.

**WebhookDeliveryProofs** proves TypeOK, KeySendsOnce and AttemptsTellTheHistory. A
post is made by whoever inserted the row of the key, so one invocation at most is
between the insertion and the last write (`OneHolder`), nothing was sent under a key
without a row or by a holder that is about to post (`SentAfterReservation`), and the
row says what its holder wrote (`HoldersWrote`); hence a second reservation, which
needs the row to be missing, meets no holder. The number of an attempt is one more
than the number of rows, because the counts that invocations read earlier are not
ahead of the rows (`CountsAreBehind`) and the largest number is the number of rows by
the property itself; the keys are finite so that the rows can be counted. After the
deletion of the endpoint there is no row to write (`NothingWithoutEndpoint`), so a
handler that is still running gets an error.

**AgentAccessProofs** proves TypeOK, OnceIsOnce, RevokedLeaseIsDead,
NothingForDeletedResource and ApprovalIsWhole. OnceIsOnce counts leases; the proof
works with `OneLeasePerOnce`, that two leases of one one-time Permission are the same,
and with `LeasedHasEnded`, that a one-time Permission in a lease has ended: the
batch that inserts a lease ends its one-time Permissions and requires that all of them were
still active, so a second lease finds one ended. `LeasesAreOfTokens` was found necessary
during the proof: RevokedLeaseIsDead by itself does not exclude a lease whose token the
target has yet to issue. Cardinalities occur only in the bound
on the Permissions (`RoomForOne`) and in the step from `OneLeasePerOnce`
to OnceIsOnce. ApprovalIsWhole is a fact about one step, the decision's
batch (`ApprovalStep`).

**PlatformProofs** proves PlatformTypeOK and the eleven properties of the nine
parts over one pool of variables, and `PartsInvariant`: in every reachable state
of `PlatformSpec` the invariant of the part at work holds, and WebhookDelivery's
always does. A part's invariant is stated in its own module, under "What keeps it
so", and the proof has a lemma for its initial states and one for its steps:

| Part | Beside its type and property | Why it is needed |
|---|---|---|
| ProofReplay | `ForgottenIsExpired`, `ReadingsArePast`, `HeldIsSigned`, `AcceptedIsSigned` | the purge uses a reading taken before the insert; an identifier can only be missing when its proof has expired since |
| SiteSettings | `InForce`, `LoadIsShort`, `LoadedIsRecent`, `CopyIsRecent`, `PatchIsMerged` | the copy of an isolate may be put back by a slow load: recency has to be told of a load in flight and of the copy at once, from when the revision it holds was replaced |
| OrganizationMembers | `Given` | RolesExist is then inductive; KeepsAnOwner is a fact about one step, since the guard counts in the statement that writes |
| PermissionGrant | `Given` | what is extended is a row, stamped in the past |
| ResourceRegistry | `NamedExist`, `OneAtATime` | a name of a deleted Resource Server comes back only by a value read before (`revived`); clean values are claimed until two invocations overlap, for which what each read must still be what is there |
| ApplicationClient | `SecretsTold`, `OwnHashes`, `Given` | two rotations may have computed one version: that one of them is in force follows from secrets having versions of their own and hashes nobody else holds; an update that nothing overtook holds the part it does not patch as the Application has it |
| ApplicationConsent | `RowsSound`, `Found`, `Relies` | an invocation that no revocation overtook finds the consent it saw, and when nothing landed late its merged scopes are still granted; it began at or before the id it read, which is that of the active row or of a revoked one |
| ConnectorClient | `Line`, `Earlier`, `Held`, `NewIsUnknown`, `Told` | within one configuration a generation stands for one client: every pair of generation and client in an intent, a credential or an invocation's reading is on the line of the row, and a client registered for a new configuration is known to its invocation alone |
| SignInMethods | `AloneFor`, `HandlesAUser` | told of each User apart, as only that User's own overlaps and failures are excepted: a wallet is whole but for the two statements of one invocation; the last-method check is still true at the deletion while the User's requests do not overlap, whatever those of others do |

The parts of the inductive invariants were checked as invariants of the
corresponding runs before they were proved. ClientRepeatsApplication, AccountsAreWhole,
ReferencesAreClean, RevocationIsWhole, RolesExist, GrantsOnlyAdd,
GenerationsKeepTheirClients and RevokedConnectionHasNoCredential each name the case in
which the code gives no more (see section 9); their proofs show that nothing else
breaks them.

**Only model-checked:** ReuseEventuallySilencesFamily, which is liveness.
Liveness under fairness and anything with ENABLED are beyond the provers in use
and stay with TLC.

## 9 Disagreements with the documentation

Four runs violate what a document or a test of the repository says:

| Run | Says | Happens |
|---|---|---|
| `token_deleted` | `specs/management-api.feature:201`: concurrent requests cannot create new active authorization for a deleted resource | `storeAccessToken` is an unconditional insert: an exchange that validated its audience before the deletion stores an active token after it |
| `agent_approval_host` | `integration/agent-identities.test.ts:688`, `:770`: one controller claims an Agent, and its host has the same | the claim guards one statement of the batch only: with two Agents on one unclaimed host, a refused decision still activates its Agent for a User who is not the host's |
| `provider_reconnect` | `specs/agent-identity.feature:578`: only a successful OAuth callback may replace the account authorization | a callback computes its version from an earlier read, so a refresh begun with the old tokens can pass its compare-and-set on the new row and overwrite it |
| `agent_access_revoked` | `specs/agent-identity.feature:658`: revocation calls the target for active target tokens | leases are listed once; one inserted between the listing and the end of the Permission survives with its token |

The models also contain these behaviours, which no document excludes or which
are too slight for a run of their own:

* AgentIdentity: `activateIdentity` counts installations in one statement and
  updates in another, so an identity can become active with none
  (`repos/agent-identities.ts:384`, `usecases/agent-identities.ts:654`). Recovery
  and deletion list registrations before their batch (`:374`): a host approved in
  between loses its binding and keeps its registration active, and revoking one
  host revokes every active binding of the identity but only that registration
  (`:465`).
* WebhookDelivery: a retry tests "delivered" on a status read before the
  reservation, so an attempt can be sent after another one delivered
  (`usecases/webhooks.ts:125`).
* ResourceRegistry: a discovery or a change of visibility writes whole
  allow-lists and Roles back, so an entry of a Resource Server deleted since the
  read comes back (`docs/architecture/resource-lifecycle-reference.md:10`: "Soft
  delete with authorization cleanup"). `ReferencesAreClean` lets such an entry
  exist only after that overlap (`revived`).
* OrganizationMembers: an assignment of a Role, or an invitation with it, that was
  validated before the Role's deletion and written after it leaves a member or an
  invitation with a Role that is not there (`repos/authorization.ts:970`).
  `RolesExist` allows this overlap (`late`).
* PermissionGrant: an extension is written by the id of a row read earlier
  (`repos/authorization.ts:589`) and a renewal ends the row it read as lapsed
  (`:579`). When another grant has extended the row since, either takes back what
  that one added, although `specs/admin-console.feature:262` says that assigning
  never shortens a Permission; and an extension of a row revoked since is answered
  as if it had been made. `GrantsOnlyAdd` allows a grant overtaken so (`Overtaken`)
  to leave no less than it read and asked for, and nothing else.
* ConnectorClient: a registration update is saved by the Connector's id and can put
  the replaced client's key over a rotation's winner (`usecases/connectors.ts:717`);
  `usecases/connectors-crud.test.ts:1187` ("reloads a concurrent generation winner
  instead of overwriting it") covers two rotations only.
  `GenerationsKeepTheirClients` allows the mixture only where that overlap
  happened (`overwritten`).
* ApplicationConsent: scopes recorded by policy are added to the User's own consent
  row, which then counts them as approved by the User
  (`specs/hosted-auth.feature:206`); an approval or a token begun before a revocation
  lands after it (`late`). A synchronization that withdraws scopes narrows or revokes
  the consent row alone, and a change to private (`repos/authorization.ts:479`) and a
  deletion (`:795`) revoke it alone: the provider's record and the tokens stay, and
  cannot be revoked through that consent any more, only with another one of the same
  Application and User. `RevocationIsWhole` therefore asks for their absence only
  after a revocation by the User or an administrator (`withdrawn`).
* ApplicationClient: a synchronization (`repos/authorization.ts:510`), a change to
  private (`:442`) and a deletion of a Resource Server (`:799`) take its scopes from
  `application.resourceScopes` and leave `oauthClient.scopes` as it is, so the client
  keeps them until the Application's next update. Two changes, one of the standard
  scopes and one of a Resource Server's, each rebuild `oauthClient.scopes` from an
  earlier read, so the second leaves the client without what the first added.
  `ClientRepeatsApplication` excepts the parts of the scopes this happened to
  (`apart`), and nothing of the secret. A rotation for an Application
  deleted meanwhile answers a secret that is stored nowhere.
* SiteSettings: a request that presents a DPoP token uses the cached policy of
  whatever age (`worker.ts:58`). `updateSettings` of two documents is two
  compare-and-sets, the first of which stands when the second loses.
* ProofReplay: an invocation that tested the window before a proof expired and
  writes after another has purged it accepts it a second time, so a proof is
  accepted once only up to its expiry.
* SignInMethods: `unlinkWalletAddress` (`repos/wallets.ts:75`) has no last-method
  check and can take a User's last account, though
  `docs/architecture/resource-lifecycle-reference.md:27` lists wallets as unlinked
  after safety checks; `AccountsAreWhole` promises nothing of it. Two overlapping
  disconnections of two Providers of one User each see the other account and take both
  (`disturbed` is "overlapped"). A link or an unlinking of a wallet that stops
  between its two statements, or a link of another User between the two deletions
  of an unlinking, leaves an address without its account or an account without its
  address, or with that of the other User (`disturbed` is "halfway"); an address
  without its account is answered as linked when it is linked again, so only
  unlinking repairs it. The trigger on a deleted account removes every User's
  connections without authorizations.
* ProviderCredential: the deletion of a Resource Server revokes the authorizations
  of its connections and leaves their credentials active
  (`repos/authorization.ts:777`); no refresh uses one, but disconnecting such a
  connection fails, as it looks for the Resource Server to revoke the tokens at
  the provider first. `RevokedConnectionHasNoCredential` excepts it (`deleted`). A
  callback that is past the test of `upsertProviderCredential` makes an
  authorization active again after the deletion (compare
  `specs/management-api.feature:201`). A late `invalid_grant` revokes by id alone,
  also a credential a callback has replaced since
  (`usecases/external-resources.ts:2678`); a disconnection revokes at the provider
  the token it read first.
* AgentAccess: the batch of a refused approval leaves the Permissions it inserted
  in effect (`repos/external-resources.ts:594`). After a limited Permission expires
  an access request for its scope cannot be approved, since the unique index counts
  the expired row and only a direct grant replaces it. A direct grant makes
  `revokeAgentPermission`, and with it a disconnection, fail
  (`usecases/external-resources.ts:689`, `:2024`), after the provider's tokens were revoked.
  The target issues before the lease is inserted, so a refused insert leaves a
  token that no lease names (`usecases/external-resources.ts:1760`). A lifetime is
  extended to what the approver chose from a stale read, so `persistent` can
  become `until` (`repos/external-resources.ts:600`). `createScopeEntitlement` writes on a
  Resource Server that has been deleted since (`repos/authorization.ts:568`).

## 10 Not modelled

* **Within modelled components**: the delegated User and Agent exchanges, which
  read, sign a JWT and append an audit record and so have no state to race over;
  JWT verification and introspection; creation of Resource Servers and
  Organizations, the transfer of a Resource Server to another Organization, the
  creation of an Application with Resource scopes, which inserts them without a
  guard against a deletion since their validation (`repos/applications.ts:36`),
  the documents discovery parses, the seeded Resource Server and its
  reconciliation; Connectors with manual registration,
  `refreshDynamicConnectorMetadata`, deletion of a Connector; Teams, and the
  sessions a removed member loses; identities from before usernames existed;
  native token issuance, the automatic scope policy, normalisation of Context
  hashes, lease expiry and the revocation of leases of a whole host, which no
  route reaches; editing a webhook endpoint and its signing secret (an unsealed
  secret is sealed in place by id alone, `usecases/webhooks.ts:346`, where the
  same upgrade of a Connector's secret compares the value it read, so it can undo
  a rotation); passkeys, passwords and SIWE nonces, which the authentication
  library keeps; the cached authentication object of `worker.ts`, built by the
  rule of the cached policy; configuration read at start; presentation columns and
  audit records.
* **Not planned**: the sign-in core (sessions, passwords, the OIDC provider), which
  is configuration of better-auth, whose source is not in the repository; the
  HTTP routes, OpenAPI contract and middleware, which keep no state; assets, one
  upload and one row; the web console, presentation over the API.

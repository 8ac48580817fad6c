# Griffon in TLA+

Griffon is an authentication service: a Fastify server in TypeScript over
PostgreSQL and Redis, and a client SDK. This directory holds TLA+ models of its
stateful core, TLC configurations that check them on small instances, and
proofs that TLAPS checks for every instance. Paths below are relative to
`src/server/src/` unless they say otherwise.

## How the server runs, and what that means for a model

One Node process serves all requests. A handler runs alone until it awaits a
query or a Redis command; at an await anything else may run. Almost every
statement commits by itself: the only transactions are `transferOwnership`
(`repositories/org.repository.ts`) and `createWithLimitCheck`
(`repositories/api-key.repository.ts`). So the hard behaviours are one kind of
thing: a handler reads a row, awaits, and acts on what it read although another
request, a job, an administrator or time has changed it since; or it does its
writes one by one and stops in the middle.

The modules therefore share one shape. The tables and Redis keys are variables.
`stage[r]` is the await that request `r` is suspended at and `ctx[r]` holds the
locals its handler will still use. An action is the code between two awaits on
shared state. Consecutive reads whose only effect is to refuse the request are
one action when only the last of them can have changed meanwhile. `Finish` is
any return or throw. A constant names the operations clients perform: `Workload`
in `AuthSessions`, so that one module serves several runs; `Workloads` in most of
the others, a set of such sets, of which a behaviour has one, chosen at its start
and kept in the variable `workload`. One run so covers several combinations of
operations without their product. The theorems hold for every workload.
"Seeded fault" marks a wrong variant of the action that follows it; it is part of
no specification, and shows that a property can tell the difference.

## Inventory

| Component | State | Operations | What makes it hard | What makes it correct |
|---|---|---|---|---|
| Authentication and sessions (`services/auth.service.ts`, `session.service.ts`, `repositories/token.repository.ts`) | `users` (failed attempts, lock, disabled flag), `refresh_tokens`, `mfa:challenge:*` in Redis | login, MFA verification, OAuth login, refresh, logout, revoke one or all, switch organization | stale reads across password hashing and provider calls; two-step rotation; challenges that outlive a change of the account | a session is one account's, ends once, and a rotated one stays dead; lockout bounds guessing; one challenge, one session |
| Account administration (`services/admin.service.ts`) | disabled flag, sessions, `blocklist:user:*` in Redis | disable (three writes), enable (two), revoke sessions | the writes interleave with logins, and with each other | a disabled account stays out |
| Authentication of requests (`middleware/authenticate.ts`) | reads the blocklist | accept or refuse a JWT or API key | fails open when Redis is down; claims up to 15 minutes old | a blocklisted account is refused |
| Organizations (`services/org.service.ts`, `repositories/org.repository.ts`) | `organizations`, `org_members`, `users.activeOrgId` | create, change role, remove or leave, transfer, delete | rank and owner-count tests on stale rows; creation in two inserts | an organization keeps an owner; nobody deposes an owner |
| Invitations (`repositories/invitation.repository.ts`) | `org_invitations` | invite, accept, revoke, expire | join and mark are two statements; accept races revoke and expiry | an invitation that was used or revoked stays closed |
| Webhooks (`services/webhook.service.ts`, `jobs/webhook-delivery.job.ts`) | `webhook_endpoints`, `webhook_deliveries` | fan out, deliver, retry, disable an endpoint | a job with no overlap guard, unconditional status updates, network timeouts | every event is delivered or given up after the schedule; a delivered one stays delivered |
| Account deletion (`services/deletion.service.ts`, `jobs/deletion-purge.job.ts`) | `deletion_requests`, `users` | request, cancel, force, purge | the purge works from a snapshot; deletion and completion are separate | a cancelled request is not carried out; a due one is |
| E-mail tokens (`repositories/email-token.repository.ts`) | `email_tokens` | verify address, request and perform a reset | invalidate-then-insert; find-then-use | one token in force, used once; a reset ends every session |
| MFA enrolment (`services/mfa.service.ts`) | `mfa_settings`, `mfa_recovery_codes`, `org_mfa_policies` | set up, enable, disable, verify, regenerate codes | find-then-delete of a recovery code; setup racing verification | a recovery code is spent once |
| API keys (`services/api-key.service.ts`) | `api_keys` | create, revoke, authenticate | a limit under an advisory lock | the limit holds; a revoked key is dead |
| Roles and permissions (`services/rbac.service.ts`, `db/seed.ts`, `middleware/authorize.ts`) | role tables, `user_roles`, claims in JWTs, permissions frozen in keys | seed, assign, remove, issue, test | claims and keys outlive the rows they were read from; several processes seed and serve | no authority out of nowhere; what is taken away lapses; a new account has its role |
| OAuth (`services/oauth.service.ts`, `routes/oauth.routes.ts`) | in-memory state map, identity of an account | begin, callback | concurrent callbacks; no unique index on the identity | an identity is one account's |
| Client SDK (`src/sdk/src/client.ts`) | token store, refresh in progress | request, refresh, logout | many requests share one refresh; lost and late answers; logout while it runs | one refresh at a time; the store holds the last login's tokens; every call ends |
| E-mail, cryptography, routes, audit, metrics, bootstrap | none that a handler decides on | | | |

Components meet in three places. Every issue of tokens in the session component
runs `resolveOrgContext`, which reads membership and may write
`users.activeOrgId`. Disabling an account crosses administration, sessions and
the blocklist that `authenticate` reads. Organizations and logins call
`webhookService.fanout`, fire and forget.

`PROJECT.json` lists each hazard with the line where it bites.

## Modules

| Module | What it is |
|---|---|
| `SessionLedger` | the promise: a session is issued once to one account and, once ended, never lives again; one step touches one account |
| `AuthSessions` | sessions, lockout, MFA challenges, disabling and the blocklist, as concurrent handlers; implements `SessionLedger` |
| `OrgMembership` | one organization: members, roles, owners, invitations, and which organization accounts have active, as concurrent handlers |
| `WebhookDelivery` | endpoints, deliveries, overlapping runs of the delivery job, restarts and failed statements |
| `Accounts` | registration, e-mail tokens, verification, reset and the sessions it ends, OAuth identities and the state store |
| `AccountDeletion` | extends `Accounts` with deletion requests, the purge job, restarts; composes all of their steps |
| `MfaEnrolment` | MFA settings and recovery codes |
| `ApiKeys` | extends `MfaEnrolment` with keys, their gate, limit and lock; composes the steps |
| `SdkClient` | the client: its token store, shared refresh and time limits, a lossy network, and a server that rotates |
| `AccessClaims` | roles, claims, frozen permissions, and several server processes that seed and serve |
| `MC...` | the workloads and symmetry of the instances TLC checks; the instances are the `.cfg` files |
| `..._proofs` | theorems and their proofs |

### AuthSessions and the code

| Variable | Code |
|---|---|
| `account[u]` | the `users` row: `failedAttempts`; `isLocked` and `lockedUntil` as "none", "live" or "expired"; `isDisabled` |
| `session[t]` | the `refresh_tokens` row; `parent` and `challenge` are history: the token or MFA challenge it was issued for |
| `blocklist` | accounts with a `blocklist:user:<id>` key |
| `challenge[c]` | an `mfa:challenge:<hash>` key |

Login is `LoginRead`, then `LoginUnlock` when a lapsed lock was read, then
`LoginWrong` and `LoginLock`, or `LoginRight`, the MFA gate (`GateChallenge` or
`GatePass`), `Grant` and `GrantReset`. MFA verification is `MfaTake` (GETDEL),
`MfaRightCode`, `MfaAccount`, `Grant`, `GrantReset`. Refresh is `RefreshFind`,
`RefreshRevoke`, `Grant`. Disabling is `DisableFlag`, `DisableRevoke`,
`DisableBlock`. Whether MFA is on and whether a code is right belong to tables
that are not modelled, so both answers are possible. A wrong MFA code, a failed
statement and a restart are all `Abort`. An account that has ever had a session
may hold a valid JWT (`Authenticated`), which is more than 15 minutes of validity
would allow. The blocklist test fails open while Redis is unreachable, as
SECURITY.md says; the workload word "outage" turns that on and no run uses it, so
`DisableHolds` is a statement about a reachable Redis.

### OrgMembership and the code

`member[u]` is the `org_members` row and, as history, the invitation it came
from; `invite[i]` the `org_invitations` row with its expiry as a flag; `active[u]`
the account's `activeOrgId`: null, this organization or "other". The row's foreign
keys matter: deleting the organization deletes members and invitations and clears
`activeOrgId` (`Cleared`), an insert for a deleted organization fails, and the
unique index refuses a second membership. Removing another first reads the users
row (`RemoveActive`), then clears `activeOrgId`, whatever it is by then
(`RemoveClear`), then deletes the membership (`RemoveWrite`); `switched` is history,
a switch to this organization before that last step. `ResolveArrive`, `Resolve` and
`Deactivate` are `resolveOrgContext` as run by logins, refreshes and switches, and
clear in the same way what was read some awaits before. Of other organizations the
module has only that an account may switch to one (`SwitchElsewhere`): their members,
custom roles, slugs and the limit per creator are left out.

### WebhookDelivery and the code

`endpoint[e]` and `delivery[d]` are the rows; `due` stands for `nextRetryAt` being
past. `fanout[v]` is what a fire-and-forget `fanout` has listed and still has to
insert. `runner[w]` is one activation of `deliver`: a run of `retryFailed` with its
list (`todo`), or a test event's request, the row it has in hand and the attempts
it read from it. `posts` is history, the POSTs really made of a delivery, counted
up to the limit. `ReadDelivery` is `findDeliveryById`; `Post` is the read of the
endpoint and the `fetch` that follows it without an await; `Succeed` and `Fail` are
the answer and the update. `Skip` is any statement that throws into the `catch` of
`retryFailed`, `SuccessLost` an update of a success that throws into the `catch` of
`deliver`, and `Restart` loses runs and fan-outs. Deleting an endpoint cascades,
so the branch that marks a delivery of a missing endpoint failed updates no row.
Who may manage endpoints is not modelled, nor URLs, secrets, signatures, the
limit of 100 rows per run and the order within a run.

### Accounts, AccountDeletion and the code

`account[u]` is the `users` row with its address, verified flag and OAuth
identity; `resets` and `halfReset` are history, the number of passwords the
account has had and whether a reset stopped after writing one. `token[k]` is an
`email_tokens` row: "unused" becomes "expired" with time and "used" by `usedAt`.
`session[s]` is a `refresh_tokens` row with, as history, the `resets` of the
account when the credential was read that it goes back to, through however many
rotations, and whether a reset was written before it was stored (`late`).
`state[x]` is an entry of `stateStore`; it "lapses" after ten minutes and is
removed by the clean-up, which are two steps. `request[d]` is a
`deletion_requests` row, whose `user` the model keeps although the code nulls it
with the account, so that properties can refer to it. `runner[w]` is a run of
`purgeExpired` with its list.

`emailTokenRepository.create` is `Invalidate` then `InsertToken`, for registration,
an account an administrator creates and a forgotten password alike. A reset is
`ResetFind`, `UpdatePassword`, `MarkUsed`, `RevokeAllForUser`. The callback of OAuth
is `OAuthCallback`, then `FindIdentity`, `FindEmail` and `LinkOAuth` or
`CreateOAuthUser`. The purge is `StartRun`, `PurgeDelete`, `PurgeComplete`, with
`PurgeSkip` for a statement that throws into its `catch` and `Restart` for the end
of the process. `DeleteUser` is the one statement that ends an account, with its
cascades. Passwords are not modelled: a login reads the row and stores a session
later, which is all that matters to a reset.

### MfaEnrolment, ApiKeys and the code

`setting[u]` is the `mfa_settings` row, a secret standing for the setup that made
it and 0 for no row; `proved`, `overtaken` and `excused` are history: the secrets
whose code was once shown, whether the row was enabled for another secret than
was read, and whether the codes were legitimately used up. `code[c]` is one batch
of recovery codes, of which one is followed: `uses` counts the logins it admitted.
Setup is `SetupUpsert`, `ClearCodes`, `StoreCodes`; confirming is `VerifyRead`,
`Enable`; a login's code is `LoginCodeRead`, `CodeFind`, and `CodeSpend` or
`CodeWrong`. Disabling deletes the setting and leaves the codes, because the
foreign key of the codes refers to the account.

`key[k]` is an `api_keys` row, `lock[u]` the transaction that holds
`pg_advisory_xact_lock` of the account: `CreateGate`, `KeyLock`, `KeyCount`,
`KeyInsert`. A commit, a refusal at the limit and a failure all release it. A
request by key is `AuthFind`, then `AuthAdmit` after the reads in between. The
blocklist is in `AuthSessions`.

### SdkClient and the code

`store` is the `TokenStore`; `valid` stands for the access token being more than
30 seconds from its expiry. `Undefined` is what JavaScript stores when the answer
to a login is an MFA challenge. `promise` is `refreshPromise`: the call that began
the automatic refresh. `call[c]` is a call in flight with its request's way
through the network (`net`); "waiting" is `await this.refreshPromise`, "resumed"
its continuation, which sees the store as it is by then. A call that gave up at
its time limit is "abandoned" while its request may still reach the server.
`session[s]` is what the server knows of a refresh token, and `root` the login it
goes back to. `latest`, `late`, `overtaken` and `broken` are history. The
server's handlers are those of `AuthSessions` seen from outside: a refresh finds
the token (`ServerRefreshFind`), revokes it (`ServerRevoke`) and inserts its
replacement (`ServerInsert`) in separate steps, and may answer an error at any of
them (`ServerFails`): once it has revoked, the client is left with a dead token.
`broken` marks a token with which a refresh failed like that or was given up.
Logout is refused, because the client sends no access token with it.

### AccessClaims and the code

`seeded` holds the rows of `roles`, `permissions` and `role_permissions`; a server
process (`server[n]`) inserts them in the order of `SeedPlan` before it listens.
`holds` is `user_roles`, `member` the role in one organization, `active` the
accounts whose `activeOrgId` it is, `policy` the `org_mfa_policies` row with who
set it. `token[t]` is an access token with its claims: an issue is `RolesRead`,
`OrgRead` (with `Deactivate`) and `Issue`, in separate steps, so claims may be stale
when they are handed out and are never looked up again. A key's `perms` are those
claimed at its creation; the organization a key is made with
(`routes/api-key.routes.ts`) is whatever the caller names and is left out, since
`authenticate` gives a key no role in it and `authorizeOrgRole` refuses without one.
`held` is history, the authority each account's rows have
ever carried. Permissions are two: "write" for write:users and write:roles, which
the same role carries, and "profile". The role moderator, which only adds reads,
and the custom roles of organizations, which nothing assigns, are left out.
`OrgMembership` says who may change members' roles; here any change may happen.

## Runs

| Run | Question | Result |
|---|---|---|
| `auth_sessions` | Do sessions follow the ledger, does a rotated token stay dead, is a challenge used once, does a sealed disabled account stay sealed, whatever interleaves, expires or stops? | holds |
| `auth_lockout` | How many wrong guesses can concurrent requests make before the lock, and can anything get past or lift a live lock? | at most `MaxAttempts - 2 + 2 * requests`; only a login or MFA verification in flight that had passed its test before it was set |
| `orgs` | What does it take to lose or double the owner, who can take the role from one, do closed invitations stay closed, does whoever is removed lose the organization as the active one, and does another organization stay active meanwhile? | only a request acting on something stale; only the owner, or a request that read a lower role; yes, but for acceptances in flight; unless the account switches to it once the removal has dealt with that; unless a request about to clear this one had read it before |
| `webhooks` | Is a delivery given up only after the whole schedule, does a settled one stay settled, and is every one settled in the end, although runs overlap, restart and lose results? | holds; no run takes a settled delivery up, but one that had listed it before may still change it |
| `accounts` | How far does find-then-write go wrong under overlap, does a reset end the sessions of before, is a used link dead, is a pending deletion carried out and nothing else? | one row too many per overlapping request and no more; yes, but for sessions stored late or a reset that stopped; yes; yes, and a cancellation is too late only for a run that had its list |
| `credentials` | How often can a recovery code be used, is MFA active only for a proved secret and with codes, does the limit on keys hold and every creation end? | once per overlapping login; unless a setup overtook the confirmation; yes |
| `sdk` | Is there one automatic refresh at a time, what can be in the store, and can it be a token the server has rotated? | yes; the last login's tokens, except what a refresh in flight brought back; only with a refresh in flight, or after one that was given up or failed on the server half-way |
| `sdk_calls_end` | Does every call return or throw, if refreshes are lost, fail or come too late? | yes |
| `access` | Does every registered account get its role, can stale claims add up to authority nobody gave, and does authority that is taken away lapse? | yes, unless the request stopped; no; yes, from tokens (not from keys) |
| `auth_refresh_twice` | "Single-use rotation" | violated: two refreshes in flight share a token |
| `auth_disable_race` | "blocked at three layers" | violated: an enabling that began earlier deletes the key just set; without "enable", a login or refresh stores a session after the revocation |
| `orgs_last_owner` | "Can't remove the last owner" | violated: leaving while being made the owner |

**Bounds.** Two requests at a time are enough for every race of a pair of handlers,
which is what the hazards are; the lockout run has three because its bound depends
on their number. Two accounts let a step touch the wrong one. Two sessions allow a
parent and its child, or two accounts with one each; the violation runs have three.
One MFA challenge suffices for a statement about each challenge. The lockout limit
is 3, or 2 where lockout is not the subject. Organizations have three accounts, so
that a third can act on a pair, and one invitation, which the race in its acceptance
lets several accounts use; the other organizations an account may have active are
all alike to this one. Pools of rows run out; where every remaining operation needs
one TLC sees a deadlock that the program does not have, and the configuration says
`CHECK_DEADLOCK FALSE`. The workloads of a run (`MC...`) are chosen so that
operations that race for the same rows meet in one of them: all operations together
exceed what TLC does in minutes. What is left out that way are pairs whose race
another pair already shows, such as a registration and an OAuth callback for one
address, which the unique index decides as it does two registrations. In `orgs`,
transfers meet role changes and removals; requests that stop meet both and
acceptance; deletion, revoking and switching meet everything but transfers and
changes of role. A violation run has only the operations its counterexample needs.
Symmetry is used where no liveness is checked and is sound: no property names an
account, session, challenge, invitation or request.

The webhook run has one endpoint, two deliveries, so that runs can hold different
rows in different orders, two runs at once, which is an overlap, and a limit of
three attempts instead of six; the count of a row can
then be written back, restored and exceeded. `MaxFaults` bounds restarts and
failed statements, one in the run: a job that always fails settles nothing, so
the liveness property can only hold when faults end. Its invariants are proved
for any number of faults. Deliveries run out, hence `CHECK_DEADLOCK FALSE`, and
it uses no symmetry, since a liveness property is checked.

`accounts` has two accounts, so that an address or an identity can be contested, two
tokens and two sessions, a pair to overlap or to rotate, two pending requests and
two runs of the purge, and `MaxFaults` of one, which the liveness property needs to
be finite. `credentials` has three batches of codes, two that overlap and one
before, `MaxSetups` of two, a secret and its replacement, and a limit of one key
with three keys. `sdk` has three calls, one that begins a refresh, one that waits
for it and one that logs out, and three sessions, a login, its rotation and another
login; `sdk_calls_end` has the workloads in which the refresh that others wait for
is lost or fails; `MaxLost` is one message: after a loss a call ends only by its
time limit, as it would after two. `access` has two servers, since the seed races
only with another, two accounts, a giver and a receiver, and two tokens, of two
accounts or of one before and after a change.

**Fairness.** What is assumed is that time passes and that the code's own timers
and statements go on; nothing is assumed about which answer comes.

- `webhooks`: weak fairness of the steps of each runner (the timer of
  `webhook-delivery.job.ts` goes on firing, a POST is answered or cut off by
  `AbortSignal.timeout(10_000)`, statements return) and of the passing of each
  `nextRetryAt`. An endpoint may fail for ever.
- `accounts`: weak fairness of the steps of each run of the purge (its timer goes on
  firing, statements return or throw) and of each request becoming due. Skipping
  counts as a step, but uses up a fault.
- `credentials`: weak fairness of the statements of the transaction, which
  PostgreSQL answers or fails, and strong fairness of being granted the advisory
  lock, which it grants in the order of arrival.
- `sdk_calls_end`: weak fairness of giving up, where `setTimeout` aborts the fetch, and
  of the continuation of an awaited promise. The server and the network promise nothing.
- `access`: weak fairness of the expiry of an access token, and of the statements of
  a request that is issuing one, which are answered unless it stops.

Request handlers otherwise may always stop, so no progress is claimed for them.

**The disagreements** between code and documents are described with their lines
under `findings` in `PROJECT.json`. Three have a run; of the others most are plain from
the lines, and where it takes an interleaving, a property of a passing run excepts
it by name (a stale read, a request in flight, a run that had its list) and says
that there is no other way to it. The model follows the code.

## Proofs

Eight modules hold theorems, for sets of accounts, rows, requests, calls, runs and
processes of any size, any limits and any workloads. Each proof has the same
argument: an inductive invariant says of every row what it owes to the others and
of every handler what its passed tests, at the await it is suspended at, still
guarantee of the locals it carries; one lemma per action, or per group of actions
that only move a request, shows that it is kept; the properties follow.

**`AuthSessions_proofs`**

- `TypeCorrect`, `TypeSafe`: `TypeOK` is not inductive as it stands, since it
  lets a request at an await have no account and a row that was inserted have no
  user. `TypeInv` adds what a handler relies on when it dereferences: inserted
  rows and issued challenges name an account, a request in flight works for one,
  and one about to revoke holds a token that was inserted.
- `Rotation`: `RotationRetiresParent` for every interleaving. The invariant adds
  that a refresh between `RefreshRevoke` and `Grant` carries a token that is
  already revoked and belongs to its account, and the lemmas say that no step
  brings a revoked row back or changes an inserted row's account.
- `Refinement`: `ImplementsLedger`. Only four kinds of steps write the table.
  `Grant` is the ledger's `Issue`, for the account the request works for;
  `Revoke`, `RevokeAllForUser` and expiry are its `End`, for the set of rows that
  were active; every other step is a stutter. It needs `TypeInv`: without an
  account in hand a grant would issue a session to nobody.
- `OneSessionPerChallenge`: `ChallengeSingleUse`. Sessions alone do not tell
  whether a second is on its way, so `UsedOnce` counts both the sessions issued for
  a challenge and the requests between the GETDEL and the grant: one in all.
- `Locked`, `Disabled`: `LockHolds` and `DisableHolds`, from lemmas on how a step
  may move a request (`RoleInv` ties its stage to what kind of request it is). Under
  a live lock no request joins those that are past it (`PastStep`), and only the
  reset of one of them writes the lock (`LockStep`).
- `Overshoot`: `GuessesBounded`. A request that read a count below the limit
  guesses once; one that read it at the limit guesses and then holds its place
  until it locks. `Guesses` is that account: while there is no lock, guesses made
  and early guesses to come are at most `MaxAttempts - 2`, one per request, and one
  per request about to lock; afterwards nobody reads the count any more.

Two of these theorems have hypotheses on the workload, which the model needs and
the run shares. `Disabled` has no "outage": while Redis is unreachable the
blocklist is not tested, as SECURITY.md says. `Overshoot` has no "abort": a
request that stops between its guess and the lock gives the next one another
guess, and there is no bound; it also takes a finite, non-empty set of requests, for
their number to be one.

**`WebhookDelivery_proofs`**

- `TypeSafe`: types, and that a delivery on record belongs to an endpoint that
  exists.
- `GivenUp`: `GivenUpAfterAllAttempts`. A row's `status` says nothing about POSTs,
  and a run decides on a count it read earlier, so the invariant (`IInv`) follows
  the count: what a row says, and what a run read from it, is backed by as many
  POSTs (`Backed`), one more once the run has sent its own. Since a run may hold
  only rows that were inserted (`RunnerInv`), its update cannot create one. The
  lemmas follow the kinds of steps; every write of an outcome goes through
  `RecordStep`.
- `NotReopened`: `SettledForGood`. Only a listing takes a delivery up, which lists
  pending rows, and only the run that has a row in hand writes it or POSTs it.

**`SdkClient_proofs`**: `TypeSafe`, `SingleRefresh` (`OneAutomaticRefresh`),
`LastLogin` (`StoreIsLatest`), `Usable` (`StoreTokenUsable`). `PromiseInv` makes
`refreshPromise` and the automatic refresh in flight one thing: every call that
finds it set waits, and the continuation clears it in the step that ends the
refresh. What the store holds depends on what the network brings, so `Holds`
follows a refresh through it: its token goes back to the last login unless it was
overtaken, what it was granted goes back to the same login and is usable, and a
refresh that was given up, or failed after the server had revoked its token, is on
record with that row. `FreshInv` says
that a granted session is on its way to one call only, without which an answer
could retire the token another brought.

**`MfaEnrolment_proofs`, `ApiKeys_proofs`**: the first holds the lemmas of its
module, whose `MfaInv` every step of both keeps; the second the theorems, as
`ApiKeys` composes the steps.

- `KeysTypeSafe`, `LimitHolds`: `KeyLimit` holds because the transaction that
  counts is the only one at work on the account's keys (`Locks`: it counts or
  inserts exactly if it holds the lock) and what it counted is still so when it
  inserts (`Room`).
- `ProofBeforeEnabled`: a confirmation carries a secret that was proved
  (`Fits`); if `Enable` meets another, the setup that stored it overtook it.
- `CodesThere`: an account that may be enabled has codes, an excuse, or a request
  on its way to store them (`CodesInv`).
- `Overlaps`: `OverlapBounds` counts, with what was added, the requests that may
  still add; it is inductive because a batch, or a code, that requests came for is
  deleted before or as they add (`CodeInv`), after which no other comes for it.
- `DeadKeys`: `DeadKeyStaysDead`.

**`AccessClaims_proofs`**

- `TypeSafe`, `DefaultRole`: a process has inserted the seed up to where it stands,
  and nothing is deleted from it (`SeedInv`); a request reached a process that
  serves, so finds the rows; and an account without its role has a request that is
  still to give it (`RoleInv`).
- `Traceable`: `AuthorityTraced`. Claims are copies of copies, so every place that
  keeps them, tokens, keys, a request's locals, is `Traced` to what its account once
  held, and a request about to assign a role says that someone was promoted.

**`OrgMembership_proofs`**

- `TypeSafe`, `UsedCloses` (`UsedInvitationCloses`, which is proved and in no run):
  handlers act on what they
  read, so `Sound` says what survives of it: a target whose role is to be written
  was no owner when read, one removed as an owner was one of several, and an
  invitation in hand was written, though it may be deleted since.
- `OneOwner` (`SoleOwnerKept`), `OwnersStay` (`OwnerNotDeposed`): five actions write
  members (`MembersStep`), and each case shows that with what it read still true it
  leaves one owner, or deposes only the one who asked. `FirstOwnerInv` excludes the
  creation: an organization has no owner and nobody to hand over while its first
  is still to be added.
- `ClosedForGood` (`InvitationStaysClosed`): a request begins to accept only what
  it sees pending (`AcceptingStep`), and a final status stays (`StatusStep`).
- `RemovedInactive` (`RemovedNotActive`), `OthersKept` (`ElsewhereKept`): few actions
  write `active` (`ActiveEffects`), and a request comes to clear it only from what it
  read.

**`AccountDeletion_proofs`** (of `Accounts` and `AccountDeletion`)

- `DeletionTypeSafe`, `CompletedIsGone`: `TypeInv` to `RequestInv`, together
  `BaseInv`, say what a row and a request in flight owe to the others: a row on
  record belongs to a live account, a deletion request to one that exists or
  existed, and a request at an await has the account, and the inserted row, that
  its next write needs (`Fits`). `CompletedMeansGone` is not inductive without
  `RunnerInv`: a run that has deleted and is about to complete holds a filed row
  of an account that is gone, and no account that is gone comes back
  (`AccountStep`).
- `ResetEnds`: `ResetEndsSessions`. A write of the password makes its request one
  that is resetting (`ResetBegins`), and such a request goes on to revoke, has
  revoked, or is on record as stopped (`ResettingEffects`); a session that becomes
  active is the one just granted, which knows whether it is late
  (`SessionEffects`).
- `OverlapsBound`: `OverlapBounds`, three counts with one argument. What is there
  and the requests that may add to it are together at most the requests
  (`Bounded`): a request comes to add only when nothing is there, is no longer
  about to when it has added, and nothing else adds (`BoundedAtFirst`,
  `BoundedMoves`, `BoundedShrinks`).
- `SpentForGood`, `QuietIsSafe` (`SpentTokenStaysSpent`, `SafeWhileQuiet`): from
  lemmas on what any step does to tokens, requests and runs (`TokenEffects`,
  `HeldTokens`, `RequestEffects`, `RunnerEffects`). They need `BaseInv`, since an
  update by id spares the other rows only if the id is that of a row filed.

What the proofs assume are the named `ASSUME`s of the modules: nulls that are no
account, row or call (`NoneIsNoCall` and its like), positive limits, that the roles
clients may invite to do not include the owner's, and, where something is counted,
that requests in flight and accounts are finitely many (`RequestsAreFinite`,
`UsersAreFinite`). The keys that may be inserted need not be: `KeyInsert` takes one
that is left, if there is one, and the rows that were inserted are always finitely
many.

Every invariant and every action property that a passing run checks is proved, at
any size.
Only model-checked, being out of reach of the prover: the properties under
fairness, which rest on `ENABLED`.

## Plan

1. The modules: `AuthSessions`, `OrgMembership`, `WebhookDelivery`, `Accounts` and
   `AccountDeletion`, `MfaEnrolment` and `ApiKeys`, `SdkClient`, `AccessClaims`
   (done).
2. Theorems for `AuthSessions`, `WebhookDelivery`, `SdkClient`, `ApiKeys` with
   `MfaEnrolment`, `AccessClaims`, `OrgMembership`, and `AccountDeletion` with
   `Accounts` (done).
3. A candidate for later: several organizations of one creator, for their limit.

## Not modelled

Custom roles of organizations (`seedOrgDefaults`): they are seeded, but no code
assigns them. The limit of organizations per creator, slugs, names and logos. The
order of and limit on the rows of one webhook run. Sending e-mail, password
hashing and token cryptography, request validation and response formats, audit,
logging and metrics (nothing reads them back), the environment, and PostgreSQL and
Redis beyond executing single statements atomically.

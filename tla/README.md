# Verification of modex-cloud

modex-cloud lets suppliers upload AI channel keys to AGT platforms without the
platform's operators ever reading them: a key is sealed on arrival, a background
goroutine opens it once to forward it to AGT, and it is wiped from the database as
soon as AGT has accepted it ("destroy-by-default"). This directory holds TLA+
models of the parts of the server where that promise, and the whitelists and
quotas around it, depend on the order in which requests, goroutines, statements
and answers happen; TLC configurations that check them on small instances; and
TLAPS proofs of the central properties for every value of the constants.

Paths below are relative to `src/`.

## 1. The system

A single Go process (gin, gorm) serves JSON requests over one SQL database. Every
handler runs in a goroutine of its own and no statement shares a transaction with
another; `dispatchSync` starts one more goroutine per upload, edit and resync. The
only lock in the program is the one of the rate limiter. So *everything between
two database statements is a place where something else happens*, and this is the
granularity of the models: one step per statement and one per AGT request.

| Component | State it keeps | Operations | Interacts with |
|---|---|---|---|
| Channel key lifecycle (`controller/supplier_channel.go`, `model/channel.go`) | `channels` rows: sealed key, fingerprint, key state, models, remote id, sync status, attempts, `deleted_at` | create, update (with or without rotation), resync, delete, list | reads platform and grant; starts sync goroutines |
| Background sync (`service/sync/worker.go`, `service/agt/client.go`) | only its locals: the row, platform and blob it read | `SyncChannel`: load, open, POST or PUT, mark | reads and marks channel rows; calls AGT under two time limits |
| Upload authorization and whitelist (`authorizePlatform`, `service/validate`, `model/platform.go`, `controller/supplier_platform.go`) | none of its own | `ChannelUpload`, `GroupForType`, `ListMyPlatforms` | reads platform and grant rows that administrators change |
| Admission (quota, duplicate key, generated name) | none of its own | the statements of `CreateChannel` before the INSERT | counts and probes the channel rows other requests write |
| Platform administration (`admin_platform.go`) | `platforms` rows, sealed token | create, update, delete | deletes the platform's grants |
| Grant administration (`admin_grant.go`, `model/grant.go`) | `grants` rows | upsert (lookup, then write), delete, list | read by every supplier request |
| User administration (`admin_user.go`, `model/user.go`) | `users` rows | create, update, reset password, delete with cascade | deletes grants, soft-deletes channels |
| Crypto vault (`crypto/`) | the master key, process-wide | seal, open, fingerprint, zeroize | opened only by `service/sync` |
| Usage refresh (`RefreshUsage`, `SetUsage`) | usage columns of a channel row | pull and store | calls AGT |
| Authentication and sessions (`middleware/auth.go`, `controller/auth.go`) | a signed cookie with copies of id, name, role and status | login, logout, change password, token | gates every handler; reads accounts at login only |
| Login rate limiter (`middleware/security.go`) | a map of windows under a mutex | `allow` | in front of login |
| Audit, configuration, migration, router, JSON helpers, web console | see `PROJECT.json` | | |

What is hard, and what would make each component correct:

* **Key lifecycle and sync.** Any number of goroutines may work on one row, each
  with a copy of it that is stale by the time it marks the row by id. The answer
  of AGT can be lost, late or an error after AGT has acted. The row may be
  rotated, edited or soft-deleted meanwhile, the platform deleted, the token or
  the master key changed, the process killed. Correct means: no key is destroyed
  before AGT has the channel; none is kept once it is synced; only a success
  wipes; a deleted row stays as it is; every upload gets an outcome; the retry
  budget is respected; one channel never takes another's template.
* **Authorization and whitelist.** Three lists of the platform intersect three of
  the grant, and an empty list means "everything" while an empty intersection
  means "nothing"; both rows may be rewritten between the two reads. Correct
  means: what is stored lies within the lists that were read, in the group bound
  to its type; a grant only narrows; what would be accepted is advertised.
* **Admission.** Count, duplicate check, numbering, probe and INSERT are separate
  statements, failed checks read as "fine", and administrators change the grant
  and delete the account in between. Correct means: quota, duplicates, name
  numbers and leftovers of a deleted account can be overtaken only as far as
  concurrency explains.
* **Accounts and sessions.** Role and status are copied into the cookie at login
  and never looked at in the table again, the checks of `CreateUser` and
  `ChangePassword` are statements apart from the writes they guard, and accounts
  are edited and deleted while requests that have read them wait. Correct means:
  one account per username; no request brings a deleted account back; a cookie never
  carries a role that the account that logged in did not have while enabled; what is
  revoked only runs down, and is without effect in the end; all of it also on a
  database that gives the id of a deleted account to another one.
* **Platform administration.** `CreatePlatform` and `UpdatePlatform` write the row
  and the sealed token in two statements, the first from a copy read before;
  `DeletePlatform` is a count and two deletes, between which grants and channels are
  inserted by requests that have already seen the platform. Correct means: an edit
  is undone at most by one it overlapped; a token is never lost; a platform without
  one is an unfinished one; a deleted platform stays deleted and collects nothing
  new.
* **Usage refresh.** A number travels from AGT to a row through three statements and
  a call, while the row is published again, its platform moves, and other refreshes
  overtake. Correct means: what is shown was consumed, by this channel, and goes
  back only when overtaken; every refresh ends.
* **Rate limiter.** Time is taken before the mutex, the window is fixed. Correct
  means: a bound on what gets through around the end of a window and over restarts,
  which forget the windows, and no refusal without cause.

The hazards, each at its line and with the properties that watch it, are listed in
`PROJECT.json`.

## 2. Modules

| Module | What it is |
|---|---|
| `KeyCustody` | the abstract specification: what the platform promises about each key, in five actions |
| `ChannelSync` | channel handlers, sync goroutines, the channels table, AGT, platform row, crashes |
| `ChannelSyncProofs` | its theorems, the refinement of `KeyCustody` included |
| `Whitelist` | `ChannelUpload`, `computeEffective`, `normalizeModels` and the lists `ListMyPlatforms` shows, as operators on sets |
| `Uploads` | the requests that use them, under administrators who rewrite both rows; EXTENDS `Whitelist` |
| `UploadsProofs` | theorems about the operators and about `Uploads` |
| `Admission` | several `CreateChannel` requests between authorization and INSERT, rotation, deletion, grants, `DeleteUser` |
| `AdmissionProofs` | its theorems |
| `Accounts` | login, cookies, password changes, the administrators' requests that write accounts, seeding |
| `AccountsProofs` | its theorems |
| `PlatformAdmin` | administrators' requests on platforms and grants, statement by statement, and the uploads around them |
| `PlatformAdminProofs` | its theorems |
| `UsageRefresh` | several `RefreshUsage` of one channel, AGT's counters, publication, moves of the platform |
| `UsageRefreshProofs` | its theorems |
| `RateLimiter` | the windows of the login limiter, the clock, requests waiting for the mutex |
| `RateLimiterProofs` | its theorems |
| `Counting` | three lemmas about cardinalities, from FiniteSetTheorems; EXTENDed by `AdmissionProofs` and `ChannelSyncProofs` |
| `MCChannelSync`, `MCUploads`, `MCAdmission`, `MCAccounts`, `MCPlatformAdmin`, `MCUsageRefresh`, `MCRateLimiter` | the instances TLC checks, with the `.cfg` files |

An operator called `X_Y` is `X` with a plausible slip `Y` (a reset forgotten, a
check off by one, statements swapped). Nothing uses it; put in the place of `X` it
makes a property fail, which shows that the property depends on that line.
`PROJECT.json` names one per property.

### ChannelSync

* `rows[c]` is the row of channel `c`: `life` is absent, live or deleted
  (`deleted_at`), `enc` is `EncKey`, a pair of the key and the master key that
  sealed it or `NoBlob`; `fp`, `keyState`, `models`, `remote`, `syncStatus` and
  `attempts` are the columns. `models` stands for all metadata columns.
  `CreatedRow`, `SyncedRow`, `FailedRow`, `MetadataSyncedRow`, `EditedRow` and
  `RekeyedRow` are the column maps of the functions of `model/channel.go`;
  `Updated` is gorm's `WHERE deleted_at IS NULL` with nobody looking at
  `RowsAffected`.
* `handler[h]` is a request: `CreateAuthorize`/`CreateInsert` (CreateChannel),
  `EditRead`/`EditWrite`/`Rotate` (UpdateChannel: `UpdateMetadata` always, then
  `ReplaceKey` if a key came along, two statements), `ResyncCheck`
  (ResyncChannel), then `Dispatch` (the `go` statement). `HandlerDbError` ends a
  request at any of its writes. `DeleteChannel` is one statement.
* `worker[w]` is a SyncChannel goroutine with what it holds in locals: `Load`
  (`LoadChannelForSync`, with `HasRecoverableKey` deciding what kind of sync it
  is) or `LoadMissing`; then the platform row: `PlatformMissing`, `CannotSend`
  (token or key does not open, or there is neither key nor template: MarkFailed)
  or `Send`; then AGT: `AgtApply` and the answer, `MarkSynced` or
  `MarkMetadataSynced`, or `SyncFails` (MarkFailed), which may come before AGT has
  acted, after it (a bad or lost answer), or leave the request on its way
  (`strays`, applied by `AgtApplyStray` at any later time or never).
* `remote` is AGT, external: POST takes an unused id, PUT overwrites, an omitted
  key keeps the upstream one. A template remembers whose POST made it (`owner`).
* `platform`, `admin`: `SetModexToken`, and `DeletePlatform` as a count and a
  delete. `Restart` loses handlers and goroutines and may change the master key;
  nothing is dispatched again at start-up, as in `main.go`.

### Whitelist and Uploads

A list is the set of its members, since no decision depends on order. A string is
a word with or without white space around it, so that `strings.TrimSpace` is
something and the places where the code forgets it would show. `Uploads` runs one
supplier request (`BeginCreate` or `BeginUpdate`, `ReadPlatform`, `ReadGrant`,
`Store` or `Reject`, `Unauthorized`) against one channel row, while
`UpdatePlatform` and `UpsertGrant` replace the rows at any time. One request is
enough: requests do not read what other requests of this module write, except the
channel row, whose columns are rewritten together. The `base_url` rules of
`validate.go` are left out, because both callers pass no `base_url`.

### Admission

`rows` is the sequence of rows ever inserted for one supplier and platform, in the
order of their ids; a deleted row keeps its place, since `NextChannelSeq` and
`ChannelNameExists` look at deleted rows too. A request walks `Authorize`,
`CheckQuota`, `CheckDuplicate`, `ReadSequence`, `Probe` (one per turn of the
loop), `Insert`, or `BeginRotate`, `Rotate`. `CheckFails` is the dropped error of
the count and of the duplicate check. `DeleteUserStep` executes the statements of
`Cascade` one by one; `UpsertBegin`, `UpsertFind`, `UpsertWrite` are the three of
UpsertGrant. A request may begin after the account is gone if a grant is there:
sessions outlive accounts (`middleware/auth.go:23`).

### Accounts

* `users[id]` is the row with that id, `NoUser` where there is none. Its field
  `account` is history: the serial number of the account, in the order of insertion,
  which is never used again. `enabled` is "the status is not 2", which is all the code asks of it.
* `session[c]` is the cookie of a browser: what `establishSession` copied.
  `Authorized` is `authHelper`: it reads the cookie and nothing else. `Expire` is
  the browser that drops the cookie when its Max-Age is over (nothing on the server
  looks at its age), `Logout` clears the client's copy. With the cookie goes, as
  history, the account that logged in.
* `request[c]` is a request between two statements: `LoginRead`/`LoginAnswer`,
  `ChangePassword` or `ResetUserPassword` and then `UpdatePassword`,
  `CreateUser`/`CreateInsert`, `UpdateUser`/`UpdateProfile`. `UpdateUser` takes what
  the body omits from the row it has read, and `UpdateProfile` writes both columns.
  Its field `keeps` is history: the columns the update omits, forgotten once
  another update of the account has been written meanwhile. A request that has
  been authorized stays so to its end. `RequestFails` is a failed statement;
  a failed look for the username reads as not found (`fails` of `CreateUser`).
  `DeleteUser` is the last of its three statements, which is the one that concerns
  accounts; `Admission` has the cascade. `Restart` loses requests, keeps cookies
  and seeds an account when there is none.
* `had` is a history variable: the pairs of account and role that are in the table
  with the account enabled, or were when somebody was given them who still carries
  them.
* An id is not an account. gorm declares the key as auto-increment, but of the
  databases `model/main.go:3` allows MySQL before 8.0 numbers from the highest id
  left when the database server starts. `FreshIds` are therefore all the ids above those
  that are there: the database has kept count, or has been started again. So the id of
  a deleted account comes back here, while cookies and requests under way carry it,
  and an UPDATE that was meant for the deleted account may write the other one's row
  (`CreateInsert` therefore `Overtakes` such updates, as an update does). The properties
  speak of accounts by their serial numbers. That a cookie's id always means the
  account that logged in is false on such a database and is claimed nowhere.
* Access tokens are left out because nothing calls `SetAccessToken`.

### PlatformAdmin

* `platforms[id]` is a row: `url` is `base_url`, `token` what `modex_token_enc` is
  the seal of, `None` while the column is empty. Columns that every request writes
  from its body (lists, groups, prefix) are left out: the last writer wins, and
  `Uploads` has what they mean. `name` is treated by the code as `base_url` is.
* `request[c]` is a request between two statements. `CreatePlatform` is the INSERT,
  `BeginUpdate` the read and the merge into the copy (`Merged`), `WritePlatform` the
  UPDATE of the copy's columns (`Columns`, which omits the token), `SealToken` is
  `sealPlatformToken`, `Audit` the record, which may be lost. `BeginDelete`,
  `DeleteGrants` and `DeleteRow` are the statements of `DeletePlatform`, which ask
  nothing about the row itself. `BeginGrant`, `FindGrant`, `InsertGrant` are
  `UpsertGrant`, and `Authorize`, `ReadGrant`, `InsertChannel` are the statements of
  `CreateChannel` that depend on platform and grant; `Admission` has the others.
  `RequestFails` is a failed statement or a crash.
* `asked`, `overtaken` and `alone` are history: what edits last gave each field, and
  which platforms had edits that overlapped or broke off at the second statement.
  `asked` follows the writes, so of two edits that do not overlap it is the later
  one's.
* `Ids` are platforms: that the id of a deleted one is not given to another is an
  assumption here (see section 5).

### UsageRefresh

One channel row, the only one a refresh reads or writes. A template of AGT is a pair
of a site (a `base_url`) and an id, since every AGT installation numbers from one.
`Begin` is the handler's `GetChannelForUser`; `Load`, `ReadPlatform`, `Answer` and
`Store` are `RefreshUsage` of `service/sync`; `RefreshFails` is any way out with an
error. `Publish` is what a sync does to the row, in one step: a POST to the address
it has read, which may be an old one once the platform has moved, and the mark
(`ChannelSync` has the steps between); `Republish` is an older sync that PUT a rotated
key and marks the row with the id it had read. `AgtAdds` and `Consume` are AGT's.
`source` remembers of which template the stored amount is, `own` which templates
were made for this channel.

### RateLimiter

`hits[ip]` is the window of an address, `NoWindow` when the table has none. `Arrive`
takes the time (the argument of `allow` is evaluated before the mutex is locked);
`Open`, `Count` and `Refuse` are the three returns of `allow`, one step each, being
under the mutex. `Restart` empties the table and loses the requests under way; the
history `admitted`, when and in which run of the process each request was admitted,
stays, so that a burst over restarts is seen. `MaxDelay` is an assumption on the
scheduler and the only one: how long a request waits for the mutex. The properties
name it; with 0 a request is counted at the time it took.

## 3. Runs

Bounds are in the `.cfg` files; `CHECK_DEADLOCK FALSE` stands where a system of
bounded rows, templates and requests may rightly come to rest.

Passing:

| Run | States | What it shows |
|---|---|---|
| `sync_races` | 1.1 M | One channel, two goroutines at a time, one handler, two templates, two master keys, a retry budget of two, one abandoned request that AGT may still apply, and two faults, each a failed statement or a restart, anywhere. No key is destroyed before AGT has the channel (`KeylessIsPublished`, `WipeNeedsAcceptance`), none stays once it is synced, a deleted row stays as it is, attempts exceed the budget by less than the goroutines and requests that run at one time (`RetryOvershootBounded`), and ChannelSync implements KeyCustody (`KeepsCustody`). |
| `sync_pair` | 1.0 M | Two channels with a key each share goroutines and AGT's ids. Without rotations the fingerprint of a row marked synced is that of the key that AGT has taken for this channel, not the other's (`SyncedKeyWasAccepted`). That neither names a template the other made is proved for any number of channels (`NoKeyLostBeforePublication`). |
| `sync_live` | 25 k | Under `FairSpec`: every goroutine ends, every upload, rotation and edit gets an outcome. |
| `uploads_whitelist` | 28 k | Five platform rows (unrestricted, restricted, padded, disabled, one group bound twice), eight grant rows, four requested lists: what is stored is within both rows that were read, in the bound group and normalized, and what would be accepted is advertised. |
| `admission_races` | 3.8 M | Two requests at a time, four rows, two keys, a quota of two, one rotation, one UpsertGrant, one failed statement, any deletions, DeleteUser, DeleteGrant: the four bounds on what can be overtaken. |
| `platform_edits` | 1.14 M | One platform, two requests at a time, two addresses, two tokens, one grant, one channel, failed statements and crashes anywhere. An edit is undone, or done by half, only on a platform whose edits overlapped or broke off (`RowIsAsAsked`), a token is only replaced by one that was given (`TokenOnlyReplaced`), a platform without a token is one whose creation did not end and is not audited as created (`TokenlessIsUnfinished`), a deleted platform stays deleted and what refers to it grows only by the requests that had found it (`LeftOnlyShrinks`). |
| `usage_overlap` | 0.72 M | Two refreshes at a time, two sites with two ids each, up to three templates, one change of address, deletion, under `FairSpec`: the stored amount is never above what its template has consumed (`UsageWithinReported`), that template is the channel's own unless the platform moved (`UsageIsOwn`), the amount goes back only by a refresh that was overtaken or asked for another template, a deleted row is not touched (`GoesBackOnlyOvertaken`), every refresh ends (`RefreshEnds`). |
| `rate_windows` | 1.7 M | Two addresses, two requests at a time, two per window, a window of two ticks and a wait of at most one, five instants, one restart anywhere: of any four admissions in a row, or six with the restart between the first and the last, the last is more than a tick after the first (`BurstBounded`), and whoever is refused has had two admissions since a window before and since the restart (`RefusalJustified`). |
| `accounts_sessions` | 0.68 M | Two clients, two usernames, three accounts ever, ids that are given again, any number of logins, edits, deletions, failed statements and restarts, under `FairSpec`: `UsernamesUnique`, `SessionEarned`, `DeletedStaysDeleted`; role and status change only as given, or by an update that another overtook (`ChangesAreGiven`); while an account is disabled or gone nobody comes closer to acting as it (`RevokedRunsDown`); and `RevocationTakesEffect`: an account disabled or deleted for good has no session in the end. |

Why the bounds are enough. The races of ChannelSync need one goroutine that is
stale and one that is not, on one row: two goroutines and one handler, which is
free again once it has dispatched. A third goroutine repeats what one of the two
can do, and the theorems below hold for any number. Two templates are as many as
one channel can distinguish (its own and a second made by a retry); `sync_pair`
adds a second channel to make ids contended. The properties of `sync_races` compare
no two keys, so one key is enough there: a rotation puts a sealed blob in the row,
whichever it is. The retry budget is two there and one in the other passing runs, so
that the boundary is met; the code's five is in the violations it matters to. In Admission two requests suffice to overtake a check,
four rows to meet numbers that collide with deleted ones, and a probe limit of two
to exhaust the loop. In Accounts the races are between two clients, and three
accounts allow two to be inserted at a time beside the administrator's, or one to
be deleted and another to take its username, its id or both. No property compares passwords, and
there is one: whoever wants to log in knows it, which is the worst case. In
PlatformAdmin platforms do not interact, so there is one; lost updates, halves of
edits and insertions between the statements of a deletion are all between two
requests, of which either may be followed by others. In UsageRefresh a refresh can
be overtaken by one other, and three templates are the channel's own, a second one
it is published as, and a stranger's that has its id at the new address. In
RateLimiter windows of two addresses do not meet; five instants hold two windows
of one address with a restart between, and `BurstBounded` is tight there: with one
admission less it is violated. The theorems hold for any limit, window and delay and
any number of restarts. In Admission there is one quota: that a grant's changes is left
to the theorem, since with two the instance has 9.6 M states. It holds there too, but
takes too long to be kept as a run.

`AttemptCap` keeps `attempts` finite: no edit starts on a row with more attempts. In
`sync_races` it is the retry budget, so that a rotation can come when that is spent.
Resyncs are bounded by `MaxSyncRetries`, as in the code.

Fairness. Goroutines and handlers are scheduled by the Go runtime and every AGT
call ends by itself (30 s in `service/agt/client.go`, 45 s in `dispatchSync`):
weak fairness of `WorkerSteps` and `HandlerSteps`. `SyncFails` being among the
worker steps, nothing is assumed of AGT: it may never answer. That `Dispatch`
waits for an idle goroutine is a bound of the model and not of the code, where
`go` never blocks; hence strong fairness there. No fairness for suppliers,
administrators, AGT, or faults; `sync_live` runs without faults because a crashed
goroutine is not restarted by anybody, which is a known property of the code
(`POST /channels/:id/resync` is the remedy). In Accounts only `Expire` is weakly
fair: the cookie's Max-Age is 86400 seconds from the login (`router/router.go:33`), no
request renews it, and the browser drops it then. It is the browser that is trusted
with this, and no duration is claimed. In UsageRefresh the statements of a refresh are weakly fair and
so is its time limit while it waits for AGT (30 s, `controller/supplier_channel.go:316`
and the client's own); that AGT ever answers is not assumed. Logging out, answering or deleting is nobody's duty.

Violations: what a comment or document of the repository says and TLC refutes.

| Run | Says | What happens |
|---|---|---|
| `sync_lostkey` | `constant/role.go:25` "AGT accepted it" | A rotation lands between the read and the mark of an older sync: `MarkSynced` wipes the new key, which AGT never got, and the row says synced with the new fingerprint. |
| `sync_leftover` | `README.md:37` | The channel is deleted while its sync waits; the mark matches no row and the sealed key stays. |
| `sync_stale` | `model/channel.go:222` | An older sync marks a newer edit as synced. |

Other statements that the code does not keep, met while modelling and left to
words: `constant/role.go:26` "EncKey retained" (a metadata PUT of a synced channel fails:
the row is `failed` and has no key); `model/platform.go:168` "refuses if channels
still reference it" (a channel is inserted between the count and the delete);
`model/grant.go:14` "NARROW" (a grant's list over an empty, that is unrestricted,
list of the platform refuses everything, `service/validate/validate.go:100`);
`controller/supplier_channel.go:301` "Only shown to the supplier when the platform's
group config enables it" (the refresh returns the amount whatever the toggle is, and
reports success when the row was deleted meanwhile); `model/channel.go:16` "exactly once" (a retry after a lost answer, or two
goroutines that both read `remote_id` 0, POST twice); `constant/role.go:38`
(edits dispatch syncs without looking at the attempts); `model/
channel_usage_test.go:9-10` (two requests that number at the same time store one
name); `controller/supplier_channel.go:139-141` (a rotation to a key another
channel has is not refused); `model/user.go:142-144` (channels are soft-deleted,
and requests in flight leave rows of a deleted account);
`controller/supplier_platform.go:40` (a grant's type that the platform does not
list is shown and refused); `model/platform.go:43-45` (the show-amount toggle is
looked up by name, so a name bound to two types uses the first);
`controller/auth.go:80-81` (the old password is verified against a row that may
have another one by the time of the UPDATE, so of two changes at a time both
succeed).

## 4. Proofs

All are `Spec => []P` or `Spec => [][A]_vars` for every value of the constants,
from the assumptions the modules name: `NoneIsFresh`, `BoundsAreNaturals` and
`ProcessesAreFinite` (ChannelSync), `WhitelistAssumption` and `ConfigurationsAreTyped` (Uploads),
`AdmissionAssumption`, `AccountsAssumption`, `PlatformAdminAssumption`,
`UsageRefreshAssumption`, `RateLimiterAssumption`. They say that "nothing" is not a value, that bounds are
numbers, that rows have their columns' types, that only finitely many goroutines and
requests run at one time (what counts them needs no more), and that the seeded
account has a name and a password. Four theorems of ChannelSync have a hypothesis of
their own on what suppliers edit; it stands in the theorem and is discussed below.

Every invariant and every action property of a run is proved, `KeepsCustody`, which is
a refinement, included.

**ChannelSyncProofs.** None of the three invariants is inductive alone: that a row
without a key is published rests on what a goroutine has read, possibly long
before. `IInv` therefore adds what each process carries from step to step:
`RowsOK` (a row's remote id is a template this channel's POST made), `WorkersOK`
(so is the id a goroutine holds, and an answered goroutine holds one), `HandlersOK`
and `StraysOK`. Each action has a lemma; the three shapes of step that touch rows
(`RowStep`, `QuietStep`, `AgtStep`) are proved once. From `IInv` follow
`TypeCorrect`, `SyncedRowsAreWiped`, `NoKeyLostBeforePublication`. The action
properties and the refinement classify steps first (`StepKinds`: a step inserts,
deletes, updates rows, or moves AGT) and then follow kind by kind:
`OnlyAcceptanceWipes`, `DeletedRowsNeverChange`, and `ImplementsKeyCustody`, where
a success of a sync is `Destroy`, a rotation of a wiped row `Rearm`, AGT's POST
`Publish`, and everything else a stutter.

Four stronger invariants are built on `IInv`, each for one question:

* `RetryInv`, for `RetryOvershootIsBounded`. Attempts plus outstanding syncs is the
  quantity to follow: a step either spends (`Spends`: a failure turns a sync under way
  into an attempt) or starts a sync of a row that has attempts left (`HasBudget`), and
  then all processes together are the bound. The hypotheses are that there are no
  metadata edits and that the budget is not zero (`MaxSyncRetries` is 5,
  `constant/role.go`). The first is necessary: such an edit dispatches a sync without
  looking at the attempts (`controller/supplier_channel.go:234-255`), as every edit
  does, but a rotation sets them to zero and an edit of the models does not.
* `KeysInv`, for `SyncedKeysWereAccepted` where nobody rotates. The fingerprint is then
  constant, and whatever carries the key of a row carries the one with that
  fingerprint: a goroutine's blob (`WorkersKeyed`), an abandoned request
  (`StraysKeyed`), a template of AGT's (`TemplatesKeyed`). `UnrotatedKeySurvives`
  follows. The hypothesis is exactly what `sync_lostkey` refutes the claim without:
  rotations are the only way in which the key can be lost.
* `ModelsInv`, for `UneditedModelsArePublished` where nobody edits models, by the same
  argument with the models in the place of the key; rotations are allowed. It is the
  other side of `sync_stale`.
* `WatchInv`, without hypothesis, for `PendingKeysAreAttended` and `EditsAreAttended`:
  the safe half of `UploadGetsOutcome` and `EditGetsOutcome`. Unless a statement
  failed, the process restarted or the platform is gone, a pending key has a
  goroutine or a request on its way that will send that row's key, and an unsynced edit
  has one that has not ended; so no overlap of rotations, edits and metadata syncs
  leaves an upload with nobody to publish it. What remains for fairness is that a
  goroutine ends, and `SyncsRunForward` says that it takes at most four steps
  (loaded, sent, answered, ended).

**UploadsProofs.** About the operators, for all lists: `AcceptedIsWithin` (what is
accepted lies in every list), `WithinIsAccepted` (the converse, where no list of
the platform is empty against one of the grant, which the code refuses altogether),
`GrantOnlyNarrows`, `AcceptedStaysAccepted` (normalization is idempotent under the
check). About `Uploads`: `TypeCorrect`, `StoresWithinWhitelist`,
`StoresInBoundGroup`, from `IInv` = types and "what was read was enabled";
`AdvertisesAccepted`.

**AdmissionProofs.** `TypeCorrect` and `NumbersStayWithinCount`. The latter needs
`RequestsOK`, the start of a request's numbering within the count, and that the
count only grows, deletions being soft. The three bounds on cardinalities count what
is there together with what is still to come, since that alone does not grow
when a request writes: `QuotaOvershootIsBounded` counts live rows and requests past the
count (`Inserting`), with a request at the count carrying a quota somebody gave
(`CountsQuota`); `SameKeyIsBounded` counts the rows with a key and the requests that
carry it past the look for duplicates (`Carrying`, in `SameKeyInv`);
`LeftoversAreBounded` follows the deletion of a user statement by statement
(`LeftoversInv`): grants first, after which no request begins, then channels, after
which those under way are all that can leave a row. The steps of requests are
described once (`Goes`, `Steps`) and each count is moved by `Counting`'s lemmas.
`OneAtATimeIsExact` reads the first two at one request: if requests do not overlap and
no check fails, the checks of `CreateChannel` do exactly what they are there for,
whatever administrators do between its statements.

**AccountsProofs.** `UsernamesUnique` is inductive with the types, since the index
decides and not the check. The fact about cookies is not: a cookie is set from what a
login request has read. `IInv` adds `RequestOK` and `SessionOK`, which say of every
login under way and every cookie that its account and role are in `had`, and that `had`
holds all present authority. A step treats the three tables well (`UsersGood`,
`RequestsGood`, `SessionsGood`: nobody carries what has not been had) and
`GoodStepKeeps` concludes, since what is carried after the step is remembered; each
action has a lemma on top of these. From `IInv` follow `TypeCorrect`,
`UsernamesStayUnique`, `SessionsAreEarned`, and, classifying the writes of `users`,
`DeletedAccountsStayDeleted`. `ChangesWereGiven` needs one invariant more,
`UpdatesCurrent`: what an update omits, and nobody has written since, is still what
it has read; an insertion that gives an id again counts as writing. Every step but the
two that overtake updates, a restart and the start of an update is one of `Idles`,
which leave role and status of all accounts alone and begin no update.
`RevokedAccountsRunDown` proves `RevokedRunsDown`, the safe half of
`RevocationTakesEffect`: while an account is disabled or gone, what a client has `Left`
of it, a cookie and a login whose row has been read, only shrinks. All of this is of
accounts, for any way in which the database gives ids again.

**PlatformAdminProofs.** `IInv` is `Shape` (the types, and what a request carries at
each of its statements), `RowThere` (the row a
request edits or reports was created, and has its token by the time it is audited),
`Fresh` (what an edit that nobody has overtaken is about to write agrees with
`asked`), `TokensAsked`, `CreatedHaveTokens` and `RowIsAsAsked`. The last is not
inductive alone because what `WritePlatform` writes was merged long before; `Fresh`
carries it across. Steps are grouped (`Steps`), those of bystanders, which touch
neither row nor `asked`, being done once. `LeftoversOnlyShrink` counts: every step
moves at most one request into a grant or a channel (`Moves`), what is counted is
finite because only finitely much has happened (`Finite`, an invariant), and the
cardinality facts of FiniteSetTheorems do the rest.

**UsageRefreshProofs.** `IInv` adds to the types that every amount under way or stored
is one its template had reached (`AmountsReported`), that an answer of a refresh not
overtaken is at least what is stored of its template (`AnswersAreNewer`), and that a
refresh asks for an own template as long as the platform has not moved (`AsksForOwn`). From them
`UsageIsWithinReported`, `UsageIsOfOwnTemplate` and `GoesBackOnlyIfOvertaken`.
`RefreshesRunForward` is the safe half of `RefreshEnds`: a refresh goes from one of its
statements to the next or ends, and never back.

**RateLimiterProofs.** `IInv` is the types and, for some instant `f` since which the
process runs, `Since(f)`: every request that waits has taken its time after `f`, and
`Account` relates each window to the admissions of its address. They are in order; those
of the window were made in this run and none before the window began (`OfWindow`); and
what is further back than one window, and one more for every run since, is at least a
window older (`BeforeWindow`), which a restart keeps because the next run begins later
than all that was admitted. So `2 * Limit` admissions, and `Limit` more for every restart
between, reach over a whole window: `BurstsAreBounded`, for any number of restarts, the
history of admissions never being shortened. `RefusalsAreJustified` is the same account
read at a full window.

Only model-checked: the five liveness properties, `SyncTerminates`, `UploadGetsOutcome`,
`EditGetsOutcome`, `RevocationTakesEffect` and `RefreshEnds`. Reasoning under fairness
needs ENABLED, which is out of the prover's reach. For the first three and the last
the safe part of the argument is proved, as said above: that something which will
bring the outcome is there, and that it only goes forward. For `RevocationTakesEffect`
it is that nothing new is given out; what remains is that cookies expire.

## 5. Not modelled

* AES-GCM, SHA-256, HMAC, bcrypt, zeroization: cryptography without program state.
  In the models a sealed blob opens exactly under the master key that sealed it.
* `base_url` rules: unreachable from the handlers.
* Access tokens and two-factor columns: no code sets them.
* Audit records other than those of created platforms, configuration, migration,
  router, JSON, web console: no state another part's correctness depends on.
* A sync to a platform whose address has changed: `ChannelSync` has one AGT, so that a
  metadata PUT under an id of the old address is not in it.
* Ids given again to platforms, and to suppliers in `Admission`, on a database that
  does not keep count of them over its own restarts (MySQL before 8.0). `Accounts` has
  it for accounts. `PlatformAdmin`, `Uploads` and `ChannelSync` say what they say of
  platforms whose ids are their own: otherwise an edit of a deleted platform that is
  still under way, and the grants and channels it left behind, would be the new one's;
  and what `LeftoversBounded` bounds would belong to the account that has the id next.
  Channels are soft-deleted, so their rows stay and their ids are never given again.
* The eviction of rate-limiter windows: the code has none, and the table grows with
  the addresses seen.

## 6. Plan

Done: (1) ChannelSync with KeyCustody, (2) Whitelist and Uploads, (3) Admission,
(4) Accounts, (5) PlatformAdmin, (6) UsageRefresh, (7) RateLimiter, each with the
proofs above; all their invariants and action properties are proved. Next, in this
order:

1. A second AGT in ChannelSync, for metadata syncs after a changed `base_url`.
2. An abstract specification of admission (a check and an INSERT in one step) and of
   accounts; `OneAtATimeIsExact` is what the first would promise.

Each distinct question gets one run; where two instances answer the same question
they are merged, and a refuted statement of lesser weight gives way to a new
component.

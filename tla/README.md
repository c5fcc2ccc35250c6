# ownspce backend: verification project

TLA+ models, TLC configurations and TLAPS proofs of the state the ownspce
backend keeps and of the protocols its clients follow. Paths below are paths of
the repository (`pkg/...` is `src/pkg/...` in `PROJECT.json`).

The backend is a set of Go handlers over one Postgres database (and, for large
or public objects, a blob store). It runs as several stateless instances, so
*all* concurrency goes through the database, at READ COMMITTED: every statement
sees what has committed when it starts, and only a transaction with an explicit
row lock (`FOR UPDATE`, or an `UPDATE` of the row) excludes another. Content is
sealed on the devices; the server stores ciphertext, versions, sequence numbers,
key epochs and wrapped keys, and cannot merge or repair what it holds. What can
go wrong is therefore in the *order* of statements of different requests, in
requests that are repeated, late or lost, and in what devices do with stale
answers. This is what the models are about.

## 1. Inventory

| Component | Code | State it keeps | Operations | What makes it correct | Module |
|---|---|---|---|---|---|
| Change log of a space | `pkg/store/sync.go`, `pkg/httpapi/sync.go` | `spaces.head_seq`, `oldest_seq`, `key_epoch`; `space_changes`; `space_snapshots`; blobs | append a batch, poll, resync, commit a snapshot, upload and delete its blob | numbers are never reused, retries do not duplicate, nothing of an old key after one of a new key, a client that polls misses nothing and does catch up, truncation only removes what the snapshot covers | `SyncLog`, `ChangeFeed` |
| Workspace document | same files | `workspace_docs` (version, epoch, payload) | get, put with `baseVersion` | no stored edit is lost, devices converge | `WorkspaceDoc` |
| Automation runs and daemons | `pkg/store/automations.go`, `daemons.go` and handlers | `automation_runs`, `daemon_tokens`, `daemon_repos` | queue, retry, cancel, claim, progress, complete, fail, park, release, reclaim; check-in, revoke | one live run per task, a finished run stays finished, the retry ceiling, an abandoned run is taken back | `AutomationRuns`, `JobQueue` |
| Spaces, members, wrapped keys | `pkg/store/spaces.go`, `GrantSpaceKeys` in `money_vault.go`, handlers | `spaces.key_epoch`, `space_members`, `space_keys` | create, add and remove a member, rotate, grant, file an escrow copy | one key per epoch, no device that opens a space loses it, a member's device gets in | `SpaceKeys` |
| Devices | `pkg/store/devices.go`, `pkg/httpapi/devices.go` | `devices` (status, public key) | register, approve, admit by the server, revoke | as above | `SpaceKeys` |
| Escrow keys | `pkg/escrow`, `pkg/store/users.go`, `handleFileEscrow` | `users.recovery_public_key`, the sealed private half, escrow rows of `space_keys` | mint, file, replace, rewrap | a copy that opens is not replaced by one that does not | `SpaceKeys` |
| Refresh tokens and sessions | `pkg/store/tokens.go`, `pkg/httpapi/auth.go`, `cookie.go` | token families, `used_at`, `revoked_at`; the cookie of a browser | sign in, rotate, detect reuse, continue a session, log out, revoke | a retry in time is not taken for theft, and the cookie of a browser in use becomes good again | `Sessions` |
| Email codes, accounts | `pkg/store/email_codes.go`, `users.go`, `pkg/httpapi/auth.go` | codes and attempts; users by provider and by email | issue, submit, consume; find, link, insert | a code signs in once, guesses that overlap are all counted, an address is not flooded | `Accounts` |
| Money vault and ledger | `pkg/store/money_vault.go`, `pkg/httpapi/money.go` | settings with a version, entries and objects with an epoch | put, delete, clear, page | no edit of the settings is overwritten, a scroll misses and repeats nothing, a record says which key opens it | `MoneyLedger` |
| Money invites | `pkg/store/money_invites.go`, `pkg/httpapi/money.go` | invites, the key filed for each | create, file key, accept, revoke | whoever a filed key lets in can read, one guest per invitation | `MoneyInvites` |
| Published pages, attachments | `pkg/store/publish.go`, `attachments.go` and handlers | rows and the objects they name | upload assets, publish, unpublish, upload, delete, background deletion | a row names a deleted object only if its client listed one second hand, the quota holds | `Pages` |
| Home ledger | `pkg/home` | sessions, failed logins, entries | sign in, set password, enter, change, remove, import | the throttle, import without duplicates | `Home` |
| Shares, profiles | `pkg/store/shares.go`, `pkg/httpapi/profile.go` | single rows | upsert, delete | no state of their own to relate | not modelled |
| Rate limiting | `pkg/ratelimit` | fixed-window counters | one upsert per request | atomic in the database; fails open by design | not modelled |
| Session and OIDC checks, `pkg/seal`, codecs, router, link preview, mailer, configuration | — | none, or a cache under one mutex | — | stateless | not modelled |

### How the components meet

* `spaces.key_epoch` is the fence between keys and content: `RotateSpaceKey`
  moves it, and appends, snapshots, document puts, invites, approvals and grants
  each compare the epoch they were sealed under with it. Some compare under the
  lock of the space (`AppendChanges`, `PutSnapshot`, `AddMember`,
  `RotateSpaceKey`), others in a statement of their own (`PutWorkspaceDoc`,
  `GrantSpaceKeys`, `ApproveDevice`). In `SyncLog` and `WorkspaceDoc` a rotation
  is one step that moves the epoch; `SpaceKeys` models it in full.
* `handleListSpaces` and a sign-in call `admitDevice`, which reads the escrow
  copies and ends in `ApproveDevice`: devices, escrow and spaces meet in
  `SpaceKeys`.
* Snapshot blobs are uploaded before, and deleted after, the row that names
  them; both are part of `SyncLog`.
* `RegisterDevice` and `RevokeDevice` are shared by sessions and space keys: the
  first gives a session its device, the second revokes its tokens. `Sessions` has
  what they do to tokens, `SpaceKeys` what they do to wrapped keys.
* An invitation ends in the same `space_members` and `space_keys` rows as
  `AddMember` and a grant; `MoneyInvites` has the owner's grants, removals and
  rotations as single steps, their races are those of `SpaceKeys`. Rotations move
  the epoch `MoneyLedger` labels its records with.
* A daemon's token is checked before its request runs, and revoking it does not
  wait for requests under way; both are steps of `AutomationRuns`.

### Behaviours that are hard, with the place where they bite

`PROJECT.json` lists them under `hazards`, each with the properties that cover
it or with the reason why none does. In short: two statements of a poll with a
compaction in between; a rotation between the check of an epoch and the write;
batches, commits and puts that are repeated or arrive late; sequence numbers
reserved for duplicates; blob deletion in a goroutine; reports of a daemon that
race a cancel, a reclaim or each other; stale directories behind wrapped keys;
removal of a member without the lock of the space; the deadlock between a
rotation and an admission; answers of a refresh that are lost while another tab
rotates the cookie; limits that are counted in one statement and used up in
another; a sealed key that is filed after a rotation, or again; objects deleted
in the background while their page is published again.

## 2. Modules and how they correspond to the code

`PROJECT.json` `map` gives the lines of every definition. Actions have the names
of the store functions where one action is one function.

**`SyncLog`** — one space. `AppendChanges`, `PutSnapshot` and `RotateSpaceKey`
lock the row of the space with their first statement and hold it until they
commit, so each is one step. `GetChanges` holds no lock: `PollMeta` is its first
statement (head and floor), `ReadRows` the second (the rows) together with the
client's merge and its move to `nextSince`; `NotModified` is the 304;
`ReadSnapshot` and `FetchBlob` are the resync. A batch may be any sequence of
change ids at any moment under any epoch issued so far: this covers retries,
duplicates within a batch, and requests that arrive late. `compaction` is a
commit in flight, which may be repeated after it was applied. Batch content is
abstracted to change ids, a local state to the set of ids merged into it (merges
on a device commute). `history`, `answers` and `torn` are history variables that
no action reads. A client states as `uptoSeq` the cursor its snapshot was built
at; that is a property of the clients, outside this repository.

**`ChangeFeed`** — what the log promises: an ordered feed with one place per
change id, places never reassigned, growth above, trimming below.
`SyncLog!FeedSpec` is the refinement: top is `headSeq`, floor `oldestSeq`,
entries the rows.

**`WorkspaceDoc`** — one document. `CheckEpoch` and `Upsert` are the two
statements of `PutWorkspaceDoc`; a rotation can commit between them. `puts` are
the requests in progress, a client that gives up may send again while the first
is still running (`GiveUp`), and an answer may go unheard. Content is the set of
edits it contains.

**`AutomationRuns`** — runs of several users, their daemons, repositories.
Every statement of the store runs on its own and is a step. A daemon's report
passes `requireDaemon` (`Send`) and is applied later (`Handle`), in any order,
or never (`Lose`). `ClaimRun` is `ReclaimZombieRuns` and then `ClaimNextRun` or
`ClaimNothing`; `SKIP LOCKED` lets it pass over rows, so any queued row may be
taken. `heartbeat` is NULL, fresh or stale; `FallSilent` is the passing of ten
minutes. `claims` counts claims, which the table does not. A daemon works on one
run at a time (`holds`). Left out: pairing (daemons are those paired at the
start), logs and token counts, which no guard reads.

**`JobQueue`** — what users are promised: jobs in order, at most one live per
task, a bounded number of attempts, and a job that is over stays over.
`AutomationRuns!JobQueueSpec` is the refinement; it forgets daemons, heartbeats,
phases and repositories.

**`SpaceKeys`** — the keys of one space. A device has at most one request in
progress: *asked* with what the device reads now (`Ask...`), then carried
through its transaction in the stages sent, locked, inserted, committed.
`AddMember` and `RotateSpaceKey` hold the row of the space `FOR UPDATE`
(`SpaceFree`). Every other insert into `space_keys` takes a key-share lock on
that row through its foreign key, so it *waits* for those transactions, but has
read the epoch, members and devices before: hence `InsertGrant` and
`InsertApproved` read, and `Commit` writes. `ApproveDevice` holds its device,
a rotation waits for that device through the foreign key of its row: the two can
wait for each other (`BreakDeadlock`). `sealed` is the key a copy opens under,
which the server cannot see; `recorded` is the `escrow_public_key` column. The
other modelling decisions: a statement is atomic apart from its lock waits; the
cryptography is the identity of the key; spaces from before escrow existed are
initial states, with an escrow copy of no recorded key. Roles and deletion of a
space are left out. An inviter states the epoch it sealed under: `AddMember` skips the
comparison when the field is left out, and then files the copy under whatever
epoch the space has reached, which is not modelled.

**`Sessions`** — the tokens of several surfaces (origins or installed apps, each
with its keypair) and of the browsers some of them share. A request carries what
its client held when it was sent, and goes through the statements of its handler:
`Look` is the first of `RotateRefreshToken`, `Rotate` its transaction (claim and
successor), `RevokeFamily` the answer to a replay. A revoking `UPDATE` takes two
steps: it finds rows, and gets at them when the rotations that hold them are over,
so a successor inserted in between escapes it. `used` is `used_at`: NULL, within
the sixty seconds of `refreshReuseGrace`, or longer ago (`GraceEnds`). A client
that gives a request up is `Lose`, at any statement. Rows nobody can present any
more are dropped and the rest renumbered (`Settle`): tokens are compared and never
ordered, so this changes nothing but keeps the instance finite. The assumption of the
module says how many numbers are enough; that a new row always finds a free number and
a free family, and that renumbering keeps rows and families apart, is proved.
`PromptClientsStayIn` says that what a client holds can be used *and* that no refresh of
it is refused; `OwnSession` that what it holds is a token of its own device, though the
cookie it continues from is another surface's.

**`Accounts`** — codes of one address for signing in, and its account. A
transaction's rows are seen by others when it commits, and a statement that finds
rows locked looks at them again when it gets them: `SeeCodes` and `IssueCode`,
`SubmitCode` and `ConsumeCode` are such halves. `guesses` and `signIns` are
history. Codes for approving a device use the same two functions.

**`Pages`** — pages and attachments of one author and one space. An object is a
random path and what was put there. Every `Put`, the upsert and the deletion in the
background can fail; so can, unnoticed, the read of the previous version
(`ReadPrevious`). Assets are uploaded ahead of a page (`UploadAsset`), and a page
lists any of the URLs its client has been told of (`Listable`): `handlePublish` looks
at their host only, so a list may be out of date, name what was deleted long ago, the
assets of another page, the HTML of one, or a URL of the same host that publishing
never gave (`Elsewhere`; what is at such a URL, and what becomes of it, is not
modelled). `everNamed` and `strays` are history: what rows have named, and what a row
came to list that was not an unused upload.

**`MoneyLedger`** — one household. A batch reads the epoch (`ReadEpoch`) and then
upserts under its own row locks (`PutBatch`); a clear is two statements with the
rows of the first locked (`ClearEntries`, `CommitClear`). `sealed` is the epoch a
record was really sealed under. `scroll` is a member who pages through the
entries: cursor, how often each entry was read, and which entries changed place
meanwhile. What a comment says of a record's label does not hold (see 6);
`LabelBounds` says what does: the label is of no key to come and of none older than
the one that opens the record.

**`MoneyInvites`** — invitations of one household. What the owner's client sealed
for an invitation (`sealed`) may be filed late or more than once (`FileKey`);
following the link (`AcceptInvite`) is open to anybody who has it. `guests` and
`filed` are history.

**`Home`** — the plain ledger. Each statement of a sign-in is a step; an import is
a transaction under an advisory lock which rows entered by hand do not take. The
bound on rows entered by hand is per row.

**`MCServices`** — these five share no state, so one run explores them: `service`
says which one a behaviour is of, and the others stay where they began. This is
the disjoint union of the five state graphs, not their product.

**`MC*`** — the instances: model values, the maps from tasks and devices to
their users, and symmetry. **`*Proofs`** — theorems.

## 3. Runs

All runs say `CHECK_DEADLOCK FALSE`: counters that grow for ever in the program
(sequence numbers, epochs, runs, claims, failures) are bounded by constants, and
in a state where every bound is reached and every request has ended nothing is
left to do. Properties that something *must* still happen are stated as liveness.

| Run | Instance | Shows |
|---|---|---|
| `SyncLog_safe` | 2 devices, 2 change ids, 1 blob path and inline snapshots, batches of up to 2, pages of 1, 3 sequence numbers, 2 epochs | types; `LogIsSuffix`, `AnswersAgree`, `EpochFence`, `SkipsOnlyTornRows`, `FloorCovered`, `SnapshotReadable`, `NeverBackwards`, and refinement of `ChangeFeed` |
| `SyncLog_live` | 2 devices, 1 change id, 1 blob, 2 numbers | `CaughtUp` |
| `SyncLog_NothingSkipped` | 2 devices, no blobs | counterexample, see 6 |
| `WorkspaceDoc_devices` | 2 devices, 2 edits, 2 puts at once, 2 epochs | `VersionNamesDoc`, `NoEditLost`, `EpochNeverBack`, `Converged` |
| `AutomationRuns_queue` | 1 task, 1 daemon, 2 runs, 2 attempts, 2 claims | `OneLiveRunPerTask`, `CeilingKept`, `ChargedOncePerClaim`, refinement of `JobQueue` |
| `AutomationRuns_live` | 2 users with a daemon each, 1 run | `ZombiesReclaimed` |
| `SpaceKeys_keys` | 2 devices of the owner (one pending), 1 of another account, 2 epochs, 3 requests at once | `OneKeyPerEpoch`, `NobodyLockedOut`, `EscrowNotSpoilt` |
| `SpaceKeys_live` | 1 device each, 2 epochs, 2 requests at once, 1 failure | `LetIn` |
| `SpaceKeys_EscrowHonest` | as `SpaceKeys_keys`, 2 requests at once, 1 failure | counterexample, see 6 |
| `Sessions_cookie` | 2 surfaces of one browser, 1 user, 3 device rows, 5 token numbers, 2 requests at once, 1 trouble | types, `PromptClientsStayIn`, `OwnSession`, `CookieHeals` |
| `Services_safe`: `Accounts` | 2 handlers, 1 provider, 3 codes, 1 code an hour, 1 attempt | types, `OneSignInPerCode`, `GuessesBounded`, `FloodBounded` |
| `Services_safe`: `Pages` | 2 requests at once of 4 (uploads of assets among them), 3 slugs, 1 attachment, 3 paths, lists of 1 asset, a quota of 1 | types, `RowsServed`, `QuotaBounded` |
| `Services_safe`: `MoneyLedger` | 2 members, 2 entries, 1 object, 2 days, pages of 1, 3 writes, 2 epochs | types, `VaultEditsKept`, `ScrollComplete`, `LabelBounds` |
| `Services_safe`: `MoneyInvites` | 2 people, 2 invitations, 2 epochs, 1 removal | types, `FiledReads`, `OneGuest` |
| `Services_safe`: `Home` | 2 callers, 1 failure, 2 windows, 2 rows, 1 copy per file, 1 row by hand | types, `ThrottleHolds`, `ImportOnce` |
| `MoneyLedger_LabelOpens` | 1 member, 1 entry, 2 epochs | counterexample, see 6 |

Every property of a passing run has a mutant in `PROJECT.json`: a definition
changed the way a plausible bug would change the code, under which the same run
finds the property violated. The mutants are kept next to the definitions they
change, under a comment that begins with *Mutant*.

### Why the bounds are enough to be interesting

* *Numbers and change ids.* Three numbers with two ids force a duplicate id, so a
  reserved number without a row (a gap), a batch that holds the same id twice, an
  id that comes back after its row was truncated, and a page limit of 1 that
  splits what is left into pages. Two snapshots fit, so commits can overtake each
  other; one blob path is enough for a superseded blob to be deleted late.
* *Epochs.* Two: one rotation, hence requests sealed before and arriving after.
  `EpochFence` is about two rows, and the proofs cover the rest.
* *Runs.* Attempts of 2 let a run be charged, requeued and fail on the ceiling; 2
  claims let a late report of the first claim meet the second; 2 rows are the least
  for two live runs of a task. The proofs cover the rest.
* *Devices of a space.* With two of the owner and one of a member there are both
  a device that rotates while another of the same account is approved, and one
  that is admitted, granted, removed and added again meanwhile. Two requests in
  progress are the least that race, and every race described above is between two.
* *Sessions.* Two surfaces are the least that share a cookie; one trouble (a lost
  answer, a logout, a revocation, or a minute gone by) at any point of two requests
  covers every single fault of the protocol. Five numbers never run out: no more
  tokens of one holder are held at a time.
* *Services.* Two requests at a time, since every lock and every check is between
  two. Limits of 1 make the second the one too many. A third code is the least
  with one to retire while another is issued; two of everything that is paged,
  invited or imported is the least with a neighbour.
* *Pages.* Three slugs are one more than two requests can add to a quota of one. Four
  requests with three paths are the least that upload an asset, publish it, take the
  page down and publish it again with the same list, or list the asset on a second page
  and take the first one down, or publish three pages. A list of one is enough for an
  asset to be kept, dropped, shared or out of date: what happens to one entry of a list
  does not depend on the others. No URL
  comes from elsewhere in the run: listing one is like listing an object that was
  deleted. The proof covers lists of any length and URLs from anywhere.

### Fairness, and why the code justifies it

* `SyncLog`: a client polls while the space is open (WF `PollMeta`), requests time
  out (WF `AbandonPoll`), and an answer asked for again and again is not lost each
  time (SF on the answers: any of the polls in between may be abandoned). Nothing
  is assumed of writers, compactions or deletions.
* `WorkspaceDoc`: the save loop (`Get`, `Send`, `LearnKey`), the client's timeout
  (`GiveUp`), and that of requests sent for ever some are processed (SF
  `CheckEpoch`, `Upsert`). Edits and rotations are finite, nothing forces them.
* `AutomationRuns`: a daemon polls while its token is good and it is not at
  work, a claim request ends, no daemon works on one claim for ever, and time
  passes. Nothing is assumed of reports: all may be lost.
* `SpaceKeys`: Postgres queues those who wait for a row lock (SF `LockSpace`,
  `InsertLocked`) and breaks deadlocks (WF `BreakDeadlock`); handlers end (WF);
  clients list their spaces and the owner fills gaps again and again (SF `AskAdmit`,
  `AskGrant`). Requests that fail for no reason are bounded by `MaxFailures`.
* `Sessions`: a surface that is signed in refreshes again and again (SF
  `SendRefresh`: access tokens live for minutes), and every request ends, by its
  answer or by the client's timeout. Troubles are finite.

## 4. What is proved

The proofs hold for every value of the constants that satisfies the named
assumptions of the modules: positive limits and bounds, and markers (`None`,
`Inline`) that are not values of the sets they mark.

* **`SyncLogProofs`** (9 theorems in `PROJECT.json`, one per safety property of
  the run, and the refinement `Spec => Feed!Spec`). None of the properties is
  inductive alone. `IInv` in `SyncLog` adds: *Bounded* (whatever anybody remembers
  of the numbering is in its past), *PollSound* (the head and floor a poll read
  justify the move its cursor will make), *CopiesComplete* (the states that travel
  in commits and descriptors are complete up to their number), *RowsSound* (one
  row per id, no epoch from the future), *CommitsSound* and *PathsUsed* (the blob
  of a commit still pending is stored and nobody else's, unless the commit can no
  longer be accepted). The last one is why a repeated commit cannot revive a blob
  that is being deleted: what was superseded is behind the stored snapshot. Each
  action has a lemma, with a step for each conjunct it can disturb.
* **`WorkspaceDocProofs`** (4 theorems). Its `IInv` adds to `VersionNamesDoc`:
  *NothingAhead* (no view, base or epoch is from the future), *Merged* (a local
  document contains what its device last saw, and what it sends), *EmptyAtFirst*
  and *BaseMerged* (a put whose base is the current version contains the current
  document and, once its epoch was compared, is of no older epoch). The last conjunct is what makes up for the epoch being compared without
  a lock: a rotation may slip in, but then the first put under the new key changes
  the version.

* **`AutomationRunsProofs`** (7 theorems). The four invariants are inductive
  together with the types: that attempts stay within their range needs
  `CeilingKept`, and that a late report finds a heartbeat needs `Reclaimable`. All
  but `OneLiveRunPerTask` speak of one row at a time, so the proofs first show what
  each statement makes of a row (`ChargedRow`, `AppliedRow`: the row `Follows` the
  old one, that is, it is sound, of the same task, and not revived), then that such
  a change, or the insertion of a row its index lets in, keeps the table sound
  (`UpdatedRows`, `InsertedRow`). The refinement `Spec => Jobs!Spec` goes the same
  way: each statement is matched with the job it starts, ends, requeues, cancels or
  submits, and a reclaim with `Abandon`. `OverForGood` is read off the refinement: a run
  that is over is never touched again, none disappears, no attempt is given back.

* **`SpaceKeysProofs`** (4 theorems, all safety properties of `SpaceKeys_keys`).
  `OneKeyPerEpoch` is about stored copies, but a key travels in requests and in
  rows not yet committed: *OneKey* says that whoever has a key for an epoch, stored
  or on its way, has the same one, and *Exclusive* that at most one rotation is past
  the lock, so that only one new key is let in. `NobodyLockedOut` needs *Covered*
  (a rotation about to commit has a row for every device that opens the space),
  which holds though devices register and are approved after the rotation was
  checked: what would let one of them read waits for the lock (`SpaceFree`), and a
  device has no copy before it is active (*HolderActive*, *ApprovingSound*).
  `EscrowNotSpoilt` needs *Slots* (a row about to be inserted has its slot to itself,
  or replaces a copy that is not recorded as sealed to the minted key) and *RowsSound*
  (a copy without a recorded key is sealed to the phrase). `CopiesKept` and
  `EpochMoves` then say what a step may do to a copy.
* **`PagesProofs`** (3 theorems). `RowsServed` needs to know who knows of an object:
  what a request has put for a row not yet written is stored, and no row, client,
  sweep or other request has heard of it (*NewIsNew*); an upload that no row has named
  yet is stored (*UnusedStored*); and whatever two rows name, or a row and a request
  that will sweep it, or that is an HTML, block or other object on a list, was listed
  second hand (*SharedStray*, *SweptStray*, *RowsSound*). The last three feed each
  other: what a request reads of its row for the sweep is in *SharedStray* until it
  has written its own, and in *SweptStray* after. For `QuotaBounded`, counting the
  requests let through does not do: when a page that is being republished is unpublished, there is one page less and two requests more.
  What never grows except by the quota's leave is the set of names published or
  being written (*Taken*).
* **`ServicesProofs`** (9 theorems, all safety properties of the services in
  `Services_safe` but `LabelBounds` and those of `Pages`). The services share no state
  (`StepsApart`), so each has an invariant of its own.
  *Accounts*: a handler that issues a code has one to itself, which nobody else can
  see yet (`CodesInv`), so a code that can be used was not; and the codes of the hour
  with the handlers about to add one are counted together (`FloodInv`). That the
  newest of some codes is one of them needs the numbers to be well-founded.
  *MoneyLedger*: an edit based on the stored version contains what is stored
  (`VaultInv`); an entry that kept its place was read exactly if it is not after the
  cursor (`ScrollInv`), which rests on the order of places being total and on the
  number of entries before one (`FewerBefore`, `LastOfPage`, `WholePage`).
  *MoneyInvites*: an invitation that let somebody in says whom (`GuestsInv`).
  *Home*: one import at a time, and what it is about to insert is accounted for
  (`ImportInv`); a sign-in past the throttle is counted before its answer is
  (`ThrottleInv`).
* **`ServicesTypesProofs`** (2 theorems: the types of the five services, and
  `LabelBounds`). `AccountInv`, `LedgerInv`, `HouseholdInv` and `SheetsInv` are the
  inductive forms. `LabelBounds` needs *Labelled* of every record and batch: what it
  is sealed under is not newer than its label, and that not newer than the space's
  epoch. Two bounds of the model proved wrong for constants larger than the run's, and
  were corrected: an entry that moves while it is scrolled over is read as often as it
  moves ahead of the cursor, not twice at most; and the bound on rows entered by hand is
  of each row, not of their sum.
* **`SessionsProofs`** (3 theorems, all safety properties of `Sessions_cookie`).
  `PromptClientsStayIn` is about what clients hold, but what endangers it is on its way:
  a revocation that has found its rows, a replay about to revoke a family, a refresh
  that lost its claim. Its inductive form says of every row of a surface that it is not
  revoked unless its device is *Excused* (revoked or logged out, or a token outlived its
  time) (*RowsSound*); of every request, by its kind and the statement it is at, what the
  rows it has found still are (*RequestsSound*); that a family is of one device, so
  that ending one hits nobody else (*FamiliesApart*); and that a surface waits for one
  request at a time (*OneAtATime*). `OwnSession` rests on the same: a successor is of
  its predecessor's device (*Serves*). Apart from the handlers there is `Settle`: the
  renumbering is shown to keep tokens and families apart (`Rank`, `Name`,
  `FamilyName`), and every part of the invariant to be unaffected by it.

The types of `WorkspaceDoc`, `SpaceKeys` and `AutomationRuns` are proved and no longer
checked by a run.

**Only model-checked.** The liveness properties (`CaughtUp`, `Converged`,
`ZombiesReclaimed`, `LetIn`, `CookieHeals`): liveness under fairness needs `ENABLED`,
which the prover does not handle. Every invariant and action property of a passing run
is proved, and so are both refinements.

## 5. What is not modelled, and why

Sealing and opening (validated lengths only), HTTP encoding, logging, mail,
link previews, start-up: no state to relate. Shares are one upsert and one delete
of a row nobody relates to another; the rate limiter is one upsert per request,
atomic in the database, and lets requests through when its table cannot be
reached, which is its stated intent. Signature checks of identity tokens and
sessions keep no state but a cache under one mutex.

In the modelled components: roles and deletion of a space; pairing of daemons;
counters that only inform; expiry of refresh tokens (the same refusal as for a
revoked device); codes for approving a device; reports and the status
of a page; profiles, settings, budgets and holdings of the home
ledger, which are single statements. Several spaces at once are not modelled: no
statement relates the rows of two, except that approving a device walks over the
keys of all of them in one transaction; for each space that is what the module has.

## 6. Where the code does less than its comments say

Three runs each check one statement of a comment or document, and TLC finds it
violated by what the code does; `findings` in `PROJECT.json` quotes the lines.

1. *A poll loses rows silently* (`SyncLog_NothingSkipped`). The bounds of the log
   and its rows are read in two statements. A snapshot committed in between deletes
   rows after the cursor was found good; `nextSince` moves past them and no resync
   is signalled. `SkipsOnlyTornRows`, proved, says that nothing else is ever missed.
2. *An escrow copy is recorded as sealed to a key it was not sealed to*
   (`SpaceKeys_EscrowHonest`), and counts as current from then on.
3. *A ledger record is labelled with a key that does not open it*
   (`MoneyLedger_LabelOpens`). The request carries no epoch; the server labels the
   batch with the one it reads, and a rotation can come between the sealing and
   that statement.

Smaller ones met on the way, without a run of their own:

* `pkg/store/sync.go:283` and `docs/api.md:230`: a document of an old epoch is
  refused after a rotation, but `PutWorkspaceDoc` compares the epoch (`:288`) without
  a lock, and a rotation that commits before the upsert does not stop it.
  `EpochNeverBack`, proved, bounds the harm.
* `pkg/httpapi/middleware.go:65`: "revoking a daemon takes effect immediately". A
  check-in that was let through before still registers repositories
  (`pkg/store/daemons.go:164`), and a claim under way takes a run, which comes back
  by a reclaim.
* `pkg/store/sync.go:43` calls the numbers gap-free; duplicates leave gaps
  (`LogIsSuffix` is stated without that).
* `pkg/store/sync.go:47` and `docs/api.md:248` answer a duplicate with its original
  number; once its row is compacted it is appended again (`AnswersAgree`).
* `pkg/store/automations.go:22`: a phase "never moves backwards", but
  `SaveRunProgress` stores what it is given. Only a progress bar reads it.
* `docs/api.md:450` says that a report on a reclaimed run is not accepted; if the
  same daemon has claimed it again in the meantime, it is.
* `docs/api.md:435`: the runs of a revoked daemon come back when *some* daemon
  polls, which is what `ZombiesReclaimed` states.
* Rows for a member, or for a device, can be inserted behind its removal
  (`pkg/store/spaces.go:249`, `pkg/store/devices.go:175`); a member whose rows were
  left behind cannot be added again at the same epoch, as no row is inserted.
  `OneKeyPerEpoch` holds of such rows too.
* `pkg/httpapi/cookie.go:17`: `carrySession` rotates whatever cookie the request
  came with, whoever it names; a surface of one account keeps the cookie of another
  alive. A refresh of another surface under way at a logout writes a cookie again
  (`:67`).
* Two requests for a code at once leave two codes that are good
  (`pkg/store/email_codes.go:53` says that issuing retires the earlier ones). The
  newest is the one that is compared. The hourly count, the page quota and the login
  throttle are read without a lock: `FloodBounded`, `QuotaBounded` and
  `ThrottleHolds` state what holds of them, the limit and one more per request in
  progress.
* `pkg/httpapi/publish.go:76` asks for URLs returned by `POST /publish/assets`, and
  checks the host only (`pkg/httpapi/util.go:19`). A list that is out of date, because
  another device has published the page since, or it was taken down and published
  again, makes a row name an asset that was deleted or is about to be
  (`pkg/store/publish.go:65`); an asset two pages list goes with either of them.
  `RowsServed` excepts exactly what was listed second hand like this.
* `pkg/store/shares.go:60`: a revoked share cannot be fetched again, but a put under
  way when it is revoked creates it again.
* `pkg/store/money_invites.go:183`: an accepted link followed again by the same
  person brings a removed member back. An invitation that has expired, and that the
  list no longer shows, still blocks a new one to the same address; the answer to a
  filing with a retired epoch (`pkg/httpapi/money.go:909`) is to create the invite
  again, which needs the old one revoked first.
* `pkg/store/money_invites.go:114`: an invitee who is already a member is left alone;
  if that member has a current copy of the key, filing is refused.
* Clearing a ledger removes the rows its statements found, and not those of a batch
  under way.
* `pkg/home/store.go:218`: setting a password signs every session out; a sign-in
  whose password was compared before opens one afterwards.

## 7. Plan

Done: all components that keep state which several steps relate; proofs of every
safety property and both refinements.

1. Device approval codes in `Accounts`.
2. Further consequences of the refinements, stated for the concrete modules as
   `OverForGood` is.

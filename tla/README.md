# A TLA+ model of dreptalk.com

DRepTalk is a forum and governance tracker for Cardano DReps: an Astro site on a Cloudflare
worker, a D1 (SQLite) database, KV for sessions, R2 for images, and two cron workers that
follow the chain through the Koios indexer. This directory models the parts of it whose
correctness depends on the order of things: what overlapping cron invocations, browser
requests and evictions can do to rows that several of them read and write.

Paths below are relative to the repository, which lies under `src/`: `lib/db/sql.ts` stands
for `src/src/lib/db/sql.ts`.

## How the system runs

* Requests (`pages/api`) and cron invocations (`workers/gov-sync/src/index.ts`, every five
  minutes, each tick a list of phases from `lib/sync/phases`) run concurrently and share only
  the database, KV and R2. There are no locks and no interactive transactions.
* D1 executes one statement at a time, and one `db.batch` atomically. Between two calls
  anything else may run. So a statement or a batch is one action of a model, and what the code
  holds in local variables between two calls is a variable of the model, possibly stale.
* An invocation can be evicted at any await, and a slow one overlaps the next tick. A phase that
  throws does not stop the others (`lib/sync/runRecorder.ts`), it ends there.
* Rows that are compared with each other are stamped by the database clock (`DB_NOW_MS`,
  milliseconds); the outbox and the follows use the clock of the worker that started the task
  (seconds), which may lag behind the commit.

## Components

| Component | State | Operations | What makes it correct | Modelled in |
|---|---|---|---|---|
| Delegator fan-out | `notification_fanout_jobs`, `notifications`, `delegator_follows` | job written with a vote or a status change, drained page by page | every steady follower is told, once; every job completes; the query allowance holds | `Fanout`, `FanoutDelivery`, `Outbox`, `FanoutRotation` |
| Push dispatch | `notification_channels`, cursors, preferences | connect, remove, list, count, claim, send, hand back, prune | at most once per channel; no row skipped; a failing device does not starve the others | `NotificationDispatch`, `ChannelDelivery` |
| Delegation follows | `delegator_follows` | login refresh, daily bulk refresh, start capture, expectation | one event per change; a row catches up with the chain; a start belongs to the current delegation | `DelegationFollow` (and as the environment of `Fanout`) |
| Digests, review announcements | `notifications` by event key | one insert per recipient and epoch | each recipient once | no |
| Telegram linking | link tokens, channels | start, webhook, group guard | a token links one account once | no |
| Sessions | KV `sess:`, `usess:` | create, touch, list, revoke | no session outlives or exceeds the sign-in it descends from | `Sessions` |
| Login, nonces, roles | `auth_nonces`, users | challenge, verify, link | a nonce is used once; roles follow the chain | `Sessions` (nonce, doors, roles of a session), `DelegationFollow` (expectation) |
| Device pairing | `device_pairings` | start, approve, poll | one approval yields at most one session, with at most the approver's roles | `Sessions` |
| Co-proposer grants | `proposer_grants` | issue, redeem, revoke | a grant is redeemed once; revocation takes effect | no |
| Multisig voting | `pending_multisig_tx` | create, add witness, submit, submitted, expire | no witness lost, nobody turned away; sent with enough witnesses; a vote recorded once | `MultisigVote`, `WitnessLedger` |
| drep.link handles | `drep_handles` | claim, rename, release, reassign, landing page | one owner per handle; cooldown and grace periods | no |
| Governance action pins | `gov_action_metadata`, Pinata | pin, re-pin, anchor, collect | an anchored document keeps its file, an unused one is collected | `Pins` |
| DRep directory and avatars | `dreps`, R2 `avatars/` | sync, upload, serve, collect | an image in use is not collected | no |
| Governance sync | `governance_actions`, topics, activity | discover, attach thread, tally, status events | one thread per action, one event per change | the status changes, in `DrepVotes` and `Fanout` |
| Vote ingestion | `drep_votes`, history | upsert, archive, classify, fetch rationales | what counts is on chain; followers heard the vote shown | `DrepVotes` |
| Self-cast votes | `drep_votes.local_status` | record, confirm, expire | an optimistic vote is confirmed or fails in the end | `DrepVotes` |
| Surveys | `survey`, `survey_tally`, `survey_tally_queue`, `survey_sync_state` | apply deltas, publish, read counts, tally | rows reflect the as-of line; one thread; no change forgotten | `Surveys` |
| Forum | topics, posts, reactions, flags | create, edit, flag, erase | counters match rows; erasure is final | no |
| Sync phases, run recorder | `sync_runs`, query meter | run, record, reap | a failed phase is visible and isolated | the allowance only |
| CIP-100 publishing | `cip100` rows | publish, reconcile | every document is published once | no |
| Badges | awards | evaluate | idempotent | no |
| Koios client, HTTP, pages, review reports, form state | — | — | pure or I/O | no |

The unmodelled parts are left for later steps (see the plan), except where `PROJECT.json` gives a
reason to leave them out altogether: rendering, form state in the browser, pure text and number
functions, and the third-party services, which appear in the models only as answers that come,
fail or come late.

## The modules

### NotificationDispatch, ChannelDelivery

`NotificationDispatch` is `dispatchChannels` (`lib/notifications/dispatch.ts`) over the statements of
`lib/db/notificationChannels.ts`. A pass reads the database clock and the newest governance row
(`ReadPassStart`), lists as many candidates as its allowance covers in rotation order
(`ListCandidates`), and per candidate counts the rows between the listed cursor and the pass start
(`CountPending`), moves the cursor by compare-and-set (`SkipEmpty`, `ClaimBundle`), sends (`SendOk`,
`SendNotOk`) and, when the send failed, deletes the row (`Prune`) or gives the cursor back
(`HandBack`). `Abort` is an eviction, or a handback that throws out of the loop; `ReadFails` is a read
that throws inside it. Around the passes, rows are written, threads deleted, preferences flipped and
channels connected and removed at any moment.

| Model | Code |
|---|---|
| `until[c]`, `attempted[c]`, `created[c]` | `delivered_until`, `dispatch_attempted_at`, `created_at` |
| `gen[c]` | the uuid of the row: a statement naming an old id matches nothing |
| `dbNow[p]`, `govAt[p]`, `todo[p]`, `cur[p]`, `prefs[p]`, `bundle[p]` | locals of the pass |
| `sends`, `passed`, `lost` | history, read by the properties only |

`ChannelDelivery` is the promise behind it, with no pass, claim or cursor: rows have an audience, each row
goes to each channel of its audience at most once, and a connection ends only when its user leaves or
after the transport refused that very connection. `Promise` says that the dispatcher implements it: the
row id `gen[c]` is the connection, a pass that is about to prune is a refusal to be acted on (`gone`), and
`deleteChannelById`, which names the id, settles it without touching a later connection of the slot.

Left out: the two channel kinds (the same loop over disjoint rows), texts, labels, `last_sent_at`,
the many notification types (three behaviours are kept: muted by a preference, never muted, and
addressed to everyone), and retention. A transport that reports failure is taken to have delivered
nothing; a timeout after which the push service did deliver would count as a second copy, which
the code cannot see either. The budget break inside the loop cannot be reached, because the listing is
already cut to what the allowance covers, and has no action.

### Fanout, FanoutDelivery, Outbox, FanoutRotation

`Fanout` is `runFanout` and `processOnePage` (`lib/notifications/fanout.ts`) over
`lib/db/fanoutJobs.ts`. `CreateJob` is the insert that rides in the batch of the vote or status write,
`Resolve` a follow that changes (`applyResolution`), `ListJobs` the peek at one job more than is
affordable, `ReadPage` the follower select at the listed cursor, `CommitPage` the batch of inserts and
cursor step, `EndPass` and `Defer` the two ways a pass goes on or a run ends, `Abort` an eviction or a
failing statement. The allowance is counted in queries exactly as the code does.

`steady[j]` (history) is the set of users who were eligible when job `j` was written and have not changed
since: the people the outbox owes a notification. `FanoutDelivery` adds `met[j]` (history), who was eligible at any
time since. `Outbox` is the promise behind the component, with no cursor, page or run: an event is written, users turn
to other subjects, some who met it are told, nobody twice, and it is closed when nobody is owed any more. `Promise`
says that the fan-out implements it; telling and closing may be one step, as in the batch of the last page. A page
may tell a user who has turned away since it was read; it never tells one who did not follow the DRep since the event.
`FanoutRotation` adds the history of which runs served which
job while another one waited, and starts no two runs in the same second. It counts runs, not pages: a run with a
large allowance may serve the jobs before it several times.

Left out: payloads, event types, and the ceiling of 1000 listed jobs.

### DelegationFollow

`DelegationFollow` is `applyResolution` and the start capture (`lib/db/delegatorFollows.ts`), as they are
run by a sign-in for one account (`resolveFollow`) and by the cron for every due one (`refreshBulk`, both in
`lib/delegation/refresh.ts`). A task asks the indexer (`Ask`, `AskFails`), applies each answer statement by
statement (`ApplyError`, `ApplyBaseline`, then the batch `ApplyChange`, then `ApplySame`), decides whether a
start is missing (`Retry` of a sign-in, `ListMissing` of the cron), looks it up (`LookUp`) and writes it,
flat after a new state (`WriteFlat`) or by compare-and-set (`Capture`). `SignIn` and `Expect` are what
`lib/auth/handlers.ts` and `lib/delegation/track.ts` do before the refresh; `RowFails` is a statement that
throws, `Evict` the end of the invocation.

| Model | Code |
|---|---|
| `row[u]` | the row of `delegator_follows`; 0 stands for NULL |
| `inbox[u]` | `delegation_changed` notices; their `now` and `second` are the event key |
| `task[t].answer`, `.fresh`, `.seen`, `.start` | locals of `resolveFollow`, `refreshBulk`, `captureBulkSince` |
| `wallet[u].history` | the delegations on the chain; an answer of the indexer is a position in it |
| `wallet[u].own`, `task[t].of` | history, read by the properties only |

The clock counts units of twelve hours, in which `DUE_INTERVAL_SEC` and `SINCE_RETRY_SEC` are 2 and
`EXPECTED_TTL_SEC` is 5, with the seconds of a unit as a small set beside it: tasks take seconds, so
time passes between tasks. The cron runs the phase 48 times in a unit, so time does not pass over a due row.
In the unit of a delegation the indexer may report the state before it, again and again
(`Unsettled`). A position of the history stands for the epoch of its delegation, which is the finest reading
of `delegated_since_epoch` and lets a property see every mix-up of two delegations.

Left out: `checked_at`, `refresh_error_at`, `expected_tx`, the old state in the payload of a notice (read for
display only), abstain and no-confidence (states like any DRep), and the error of `ensureFollow` for an
account that tracks another stake address.

### Sessions

`Sessions` is one account between three stores: the key-value records and list of `lib/auth/session.ts`, the
challenges of `lib/auth/nonce.ts` and the pairings of `lib/auth/pairing.ts`, driven by the handlers of
`pages/api/auth`. A request is a process; each of its calls to a store is a step, so two requests interleave
at every await and a request may die between two calls (`Abort`).

| Model | Code |
|---|---|
| `rec[s]`, `idx` | `sess:<hash>` and `usess:<user>`, each with the expiry the store keeps |
| `nonce[n]`, `pairing[p]` | rows of `auth_nonces`, `device_pairings` |
| `req[r].mine`, `.list`, `.todo` | the record, the list and the loop of a handler, read before an await |
| `Visit`, `PutRecord`, `ReadIndex`, `RenewIndex` | `getSession` and its sliding renewal |
| `PruneRead`, `PruneWrite`, `Revoke`, `LogoutAll...`, `List...` | revocation, signing out everywhere, the device list |
| `ConsumeNonce`, `FinishLogin`, `StartPairing`, `ApprovePairing`, `Poll`, `ClaimPairing`, `MintPaired` | the two ways to a session |
| `signin[s]` | history: the wallet sign-in a session descends from |

A tick stands for hours, and a request falls into one: time does not pass while a request is under way. A
value of the store disappears at its expiry. The list comes back in no particular order. Left out: which
account owns a session (there is one), retired records with a pinned grant, unreadable JSON, cookies,
labels, code collisions and rate limits.

### DrepVotes

`DrepVotes` is the vote of one DRep on one action. The DRep casts it elsewhere (`VoteElsewhere`) or
through the site (`Submit`, `CheckStatus`, `RecordLocalVote`, `WriteRationale`), where it is shown before it
lands (`Land`). The vote run (`lib/sync/phases/votes.ts`) lists the action (`ListActive`, `ListDecided`), fetches
the votes on chain (`Fetch`), reads the stored row and rationale (`LoadExisting`, `ReadBodies`), writes row,
archive and jobs in one batch (`Upsert`), marks a decided action as done (`Mark`), fetches rationales
(`QueueRationale`, `StoreRationale`) and fails what never landed (`SelectStale`, `MarkFailed`, `ReapRationale`).
The governance cron decides the action and queues one last pull (`Freeze`, `Enact`).

A vote is its choice and its anchor; `block_time` is its place in `chain`. Six hours are a flag on a pending
row (`Age`). One vote run is alive at a time, as the trigger fires every twenty minutes and an invocation
ends well before; the governance cron and the requests interleave with it freely. `raced` (history) marks
an action whose last pull had its answer before the status changed and was marked as done after it; the
guarantee of a last pull does not hold then, see Observations. Left out: voting power and its threshold,
titles and recipients, the meta-hash and history backfills and their rest periods, the attempt limit of a
rationale, the cross-post in the thread.

### Pins

`Pins` is the account on which governance documents are pinned. A request serves a stored document
(`Serve`) or uploads and records it (`Upload`, `Put`); a collector run refreshes what is anchored
(`StartRun`, whose parameter says whether discovery succeeded), lists a batch (`Select`), asks the other network (`Ask`), claims a row
(`Claim`), tests and removes the file (`Remove`, `RemoveFails`) and settles the row (`Drop`, `Disown`; when either
write fails, or the removal did, `Release` gives the claim back). `Kill` is the end of an invocation between two calls, `PinElsewhere`, `AnchorElsewhere` what the
deployment on the other network does to the shared account, `Configure` the day a group is set up.

A tick is longer than a request and a run ends within `Life` ticks. A document is its bytes, and the account
stores identical bytes once. Two histories name the documents the grace does not protect: `used`, handed out or anchored
elsewhere while a run held them or a claim stood in their row (see Findings), and `stripped`, whose row a run gave back after
it had removed the file (see Observations). `crossed` is both. Left out: validation, author
signatures, rate limits, and the collector of the other network.

### MultisigVote, WitnessLedger

`MultisigVote` is a vote of a script credential: `Initiate` and `Store` create the row, a witness call reads it,
and swaps the signatures in by comparing the whole column (`ReadRow`, `Swap`, up to `MaxTries`
times), a browser assembles, submits and reports (`Assemble`, `Submit`, `Reject`, `Report`), and the report
claims the row and records the vote (`ClaimSubmitted`, `Record`). `ReportToo` is a report by any member, at any time while the
row collects. `Expire` is the reaping by the cron. The
vote row is pulled from the chain in one step (`Pull`), as `DrepVotes` has it in detail.

The script is the family of sets of signers that satisfy it; decoding the transaction, the signature check and
the membership gate are taken to succeed. A tick is longer than the 36 hours of a pending vote,
so `Window` is 0 and a row has expired after a tick. The ledger stops taking votes before `Decide`; a vote it
refuses is one that never lands. A call that is cut off takes no further step.

`WitnessLedger` is the promise of the round: a witness is in and its signer told so in one step, a transaction is sent
only when enough signers were told, even if the row it was assembled from is closed or gone by then, a closed entry
takes no signature, and its vote is recorded once. It does not say that an entry is closed only when its transaction was
sent: `ReportToo` has no such guard because `/submitted` has none (see Observations). `Promise` maps the stored rows to the entries; the
reads, the lost swaps and the repeated calls are stutters.

### Surveys

`Surveys` is `syncSurveys` (`lib/surveys/sync.ts`) over `lib/db/surveys.ts` and `lib/db/surveyTally.ts`. A run applies
the pages of a delta (`Fetch`, `Facts`, `Withdraw`, `Upsert`, `Purge`, `Enqueue`) and stores its cursor
(`Put`); opens threads (`ListPublishable`, `Publish`); reads final counts (`ListAwaiting`,
`ReadFinal`); and works on the tally queue (`FindMissing`, `Requeue`, `Take`, `Mark`, `ReadSurvey`,
`FetchBundle`, `StoreTally`, `Dequeue`). `PassFails`, `ItemFails` and `RunFails` are the three reaches of a
failure: the pass, one survey, or the run. A request is taken off the allowance before it is made, so one that fails
is spent (`Asked`).

| Model | Code |
|---|---|
| `up[s]`, `gen` | the survey at the backend and the generation of its last change |
| `row[s].ver`, `.hash`, `.final` | the row: what change it shows, the artifact that decided it, its final count |
| `queue[s].at`, `.last` | `queued_at`, `last_attempt` |
| `sync` | `survey_sync_state`: the cursor and the as-of line |
| `run[g].drop`, `.todo`, `.work`, `.got`, `.left` | locals of the passes, and the rest of the allowance |
| `threads`, `applied`, `crossed`, `cut`, `calm` | history, read by the properties only |

A survey is the number of its last change, and its artifact the number of the change that decided it;
a positive one means it is finalized. A count and a tally are the artifact and the change they were computed
from. Left out: the arithmetic of a tally, the requeue on a newer epoch of voting power, surveys DReps cannot
answer, and those that are sealed, external or cancelled. Runs start at different times.

`crossed` names the surveys on which two overlapping runs overwrote each other: a page written behind a newer
one, a row changed between the reading of the facts and the batch, work queued again under an older time while a
newer run is about to retire it, or a tally of an older bundle stored over a newer one. `cut` names those whose
delivery broke off between the batch and the deletion of the tallies; the page hides such a tally because
it compares the two artifacts (`pages/t/[slug].astro:482`). `calm` counts the runs since anything changed or failed.

### Proof modules

`NotificationDispatchProofs`, `FanoutProofs` (with `FanoutRotation`), `DelegationFollowProofs`, `SessionsProofs`,
`DrepVotesProofs`, `PinsProofs`, `MultisigVoteProofs` and `SurveysProofs`, below.

Operators named `..._Bug...` stand before the definition they are a plausible bug of and are used by
nothing. Replacing the definition by one of them makes a run fail: `PROJECT.json` ("mutants") says which
one shows that which property has teeth.

## What is checked

Deadlock checking is off because these systems may rest: with nothing to send and the bounded environment
used up, nothing happens.

| Run | Properties | Instance | Why it is enough |
|---|---|---|---|
| `dispatch_overlap` | `AtMostOnce`, `NothingSkipped`, `RewindReopensUnsent` | one channel, connected once and removed at any moment, two passes, two rows, one fault, threads that come and go | every race is between two passes on one channel, and an in-flight statement meets the row as it was read, as it was moved, or no row; two connections of the slot were run once (4.2 million states) and agree, and the theorems cover any number; a third pass meets a channel the others left as one of them would |
| `dispatch_rotation` | `NoticeDelivered`, `Promise` | two channels of two users, room for one per pass, one that may fail for ever and is connected twice, personal rows beside notices | the smallest instance in which one channel can starve another, and in which a prune decided on one connection meets the next one |
| `fanout_overlap` | `ToldOnce`, `NoFollowerMissed`, `NoFollowerPassed`, `JobsComplete`, `Promise` | one job, two followers, pages of one, two runs, one eviction, an allowance of one page | full, last and empty pages, stale cursors in both directions, a page committed after its user has left |
| `fanout_rotation` | `RotationReachesAll`, `WithinAllowance`, `NotDeferredIsDrained` | a job with three followers beside a small one, six queries per run (a listing costs one, a page three) | each page of the large job is a run of its own, one more of them than the bound; a listing of one job fits, of two is cut |
| `follow_refresh` | `RowCatchesUp`, `OwnDelegationSilent`, `ChangeToldOnce`, `StartKept` | two accounts, both resolved already or the first one fresh, a sign-in and bulk refreshes of both rows, six units, one move, one failed lookup, one fault, a swinging indexer | a row of a batch fails and the other is still resolved; a sign-in and a refresh see one change, or race on one start; the expectation is four of its five units old when the refresh after a failed one sees the delegation; three accounts and a limit of two, so that more rows are due than a refresh takes, were run once over five units (6 million states) and agree; for any limit and number of accounts the four properties are theorems |
| `sessions_pairing` | `LifeBoundedBySignIn`, `RolesWithinSignIn`, `OneSessionPerProof` | a challenge and a pairing, so two sessions (the third token is free for a proof that is redeemed twice), a request that signs in, renews, approves and polls beside one that lists, revokes and signs out everywhere, four moments | a chain of sign-in, approval, redemption and renewal; each proof raced by two requests; with a second pairing, where the approved session approves the next, the states are too many for TLC: `LifeBounded` and `RolesBounded` are proved for a chain of any length |
| `votes_sync` | `ConfirmedOnChain`, `TellsLatest`, `PendingResolved`, `FinalVoteKept`, `RationaleCatchesUp` | two votes that differ in choice, anchor (one document or none) or both, one request, one fault | a vote and one that replaces it is every pair the code compares; one request is ahead of the chain or behind it; a second document, which doubles the states, was run once and agrees |
| `pins_collect` | `AnchoredKept`, `ClaimsExclusive`, `ForeignKept`, `CollectedInTheEnd` | one document in use, one whose file never goes, two runs of one row at a time, one fault, four ticks | the failing row is older, so a listing of one row shows it first; a claim meets a second run, a dead owner and its release |
| `pins_handed` | `HandedPinStays` (expected to fail) | one document, one run, one request | see Findings |
| `multisig_collect` | `AckedKept`, `NoSignerTurnedAway`, `RecordedOnce`, `FinalVoteShown`, `Promise` | two transactions, two signers with two attempts, two witness calls, two browsers, one tick | a swap meets a lost race; two reports of one transaction; a report before anything was submitted; a late report behind a newer vote; a row that expires between assembly and submission |
| `surveys_overlap` | `OneThread`, `FinalCountNamed`, `TallyOfItsArtifact`, `WorkKept` | one survey, two overlapping runs, two changes, one fault | surveys share nothing but the queue order and the cursor; larger instances (three starts, or three changes) were run once and agree; the properties are theorems, `WorkKept` for two runs at a time |
| `surveys_settle` | `MirrorReflects`, `CatchesUp` | two surveys, one larger than the allowance, pages of one survey, two pages per run, five runs, two changes, one fault | the delta takes more pages than a run; one fault leaves three runs behind it, which is what `Enough` asks for two surveys |

The type invariants are theorems (`TypeCorrect`), and so is `RowConsistent` of the follows. `MirrorReflects` under overlapping runs is a theorem as well (`RowsReflect`).

Bounds are constants named `Max...` in the guards: the clock, rows, reconnections, changes of a follow,
sign-ins, votes, files, changes of a backend, failed lookups, faults. They cap the environment, not the
code. The clocks of the dispatcher, of the fan-out and of the surveys are ordinal: only equality and order
of timestamps matter, so two to five instants cover "before, at and after". The clocks of
`DelegationFollow`, `Sessions`, `Pins` and `MultisigVote` measure: their intervals keep the order of the
periods of the code.

Symmetry is used where the permuted values are compared for equality only, and never beside a liveness
property; `Promise` of `multisig_collect` speaks of single steps. `surveys_overlap` leaves `calm` out of its view: no guard, no other variable and no property of that run reads it.

### Fairness

* `NoticeDelivered` and `JobsComplete` assume that the database clock advances, that the cron keeps
  firing (`ReadPassStart`, `StartRun`), and that every statement and send of an invocation that is not
  evicted is answered, each as weak fairness per invocation.
* `PendingResolved`, `FinalVoteKept` and `RationaleCatchesUp` assume that the vote cron fires again and again
  (`RunStep` includes the start of a run), that six hours pass, and that a request ends.
* `CollectedInTheEnd` assumes that time passes, that the collector phase runs again and again with a
  discovery that succeeds, and that requests end. Fairness of the collector asks nothing of a file the account never lets go.

The cron triggers and the timeouts around every fetch (`lib/http/fetchWithTimeout.ts`) are what the code offers
for it. Evictions and failures are bounded: if every invocation were evicted nothing would ever be done. Nothing is
assumed about the order of invocations, nor that a send succeeds: `NoticeDelivered` holds for a
channel whose transport answers, whatever the others do. `CatchesUp` states progress without fairness, as a
bound on the number of undisturbed runs.

## What is proved

For every value of the constants, with `tlapm`:

* `NotificationDispatchProofs`: `TypeCorrect`, `SentAtMostOnce`, `RewindIsSafe`,
  `DispatchImplementsDelivery`, `NoneSkipped`. `AtMostOnce` is not inductive: nothing in it says that a bundle in the
  hands of a pass is unsent. The invariant adds that every timestamp is at most the clock, that a bundle
  lies in the interval its pass claimed, that the open claims on one channel cover disjoint intervals
  all at or below the cursor, and that a sent row lies at or below the cursor and in no open claim. A
  claim takes the interval above the cursor, so it is disjoint from the others; a handback happens only
  when the cursor is the end of the very claim, so it reopens nothing another pass sent. `NothingSkipped` adds four
  facts: a cursor that was moved since its channel was connected is strictly below the clock, so a new row
  never lands at or below it (`CursorBehind`; it holds because a pass ends one millisecond before its start); a count has
  seen every row of its interval or left it out as muted (`CountComplete`), and no row can be written there
  any more; and a channel that was connected again after the listing was created no earlier than the start
  of the pass, so the old interval holds nothing it is owed (`Reconnected`). The refinement adds that a pass names only
  connections that were made (`SnapsOfConnections`).
* `FanoutProofs`: `TypeCorrect`, `NobodyMissed`, `NobodyPassed`, `NobodyToldTwice`, `AllowanceKept`, `RunsEnd`, `ReportTrue`,
  `RotationFair`, `FanoutImplementsOutbox`. The invariant follows the
  cursors: whoever is steady and at or below a cursor was told, for the stored cursor, for every cursor
  a run has listed, and for the one a page was read at; and a page in hand leaves out only steady users above
  its last row, none if it is not full. It needs both halves because the step statement names the job by
  key alone: a slow run may install any cursor it once computed. `Budget`: what is left of the allowance pays for
  every listed page, and for the rest of the page in hand. `RunsEnd` uses it for the loop over the passes: `Rank`, twice what is left
  of the allowance plus the place in the pass, is a natural number that each step of a run lowers and nothing else raises; the way
  back to another pass costs no query, but the listing it leads to does. `Reported`: while a pass may still report that
  nothing is deferred, each job the run has listed is completed, listed again or in hand. `RotationFair` is
  about `SpecTurns` with one run at a time, and counts the runs that serve `k` while `j` waits: of those there is
  at most one before the second that `j` is stamped with, one in it, and one after it, since the first run after it
  moves `k` behind `j` (`Behind`) and a job behind `j` is served only after `j`. With overlapping runs there is
  no such bound, as a slow run serves what it listed long ago. The refinement adds to the invariant that everyone
  eligible for a written job was met, and everyone on a page in hand too (`MetEligible`, `PagesMet`), so that a page
  that is committed late tells only users who met the job; a creation maps to a write, a change of a follow
  to a move, the batch of a page to a telling of those on it who have no row yet, together with a closing when the page
  was not full, which `NoFollowerMissed` of the next state allows.
* `DelegationFollowProofs`: `TypeCorrect`, `RowsConsistent`, `ChangesToldOnce`, `StartsKept`, `RowsCatchUp`,
  `OwnDelegationsSilent`. The invariant
  `IInv` adds to types and `RowConsistent` that an answer names a delegation its wallet has made, that
  timestamps are not NULL, and that a task works on rows that exist. `RowConsistent` needs the last two: a row is
  stamped because the task that resolves it holds a real time and a tracked row. `ChangesToldOnce` also needs
  that a task past the baseline statement found the row resolved and that a row is never unresolved
  again; then the notice and the update stand or fall by the same predicate of one batch. The last two are about delay
  (`DInv`): no attempt is older than one interval (`Cadence`, from a clock that does not pass over a due row), and a
  row that is behind the chain was last attempted no later than one interval per failure after the move (`Lag`), since
  an answer that came is the newest delegation or is from the unit of the move (`AnswersNew`). A delegation made here is
  expected, with a stamp no earlier than the move, or the move is longer ago than the expectation lives (`OwnKnown`); so
  a notice of it would need more failures than the expectation has room for.
* `SessionsProofs`: `TypeCorrect`, `LifeBounded`, `RolesBounded`, `ProofsSingleUse`. `Descends`: a stored record, a
  record in the hands of a request and an approved pairing all start no later than the sign-in they descend
  from and hold no role it did not grant. `Spending`: the proof of a minted session is spent for good, and
  a request on its way to a mint is the only one with its proof.
* `DrepVotesProofs`: `TypeCorrect`, `CountedVotesOnChain`, `FollowersToldLatest`, `FinalVoteStays`. Between its reads and its
  batch the run holds a row that a request may have replaced since. The invariant says that the row it
  read was a vote of the chain no newer than the list in its hands, that nothing stored or told is newer
  than that list, and that, while the action is open, the last job told the choice of the row it read; so the batch is right either way.
  `FinalVoteStays` is the safety half of `FinalVoteKept`: once a closed or enacted action is off the queue of final pulls (`synced`),
  and no pull crossed its last status change (`raced`), its row is the last vote of the chain. `FinalForm`: nothing lands on
  a final action any more, so the list a run holds is all of the chain, and a run that is about to mark has written its last vote;
  the guard of `recordLocalVote` and the one of `markStalePendingVotesFailed` then leave it alone, and a later status change nulls
  the mark. What stays with TLC is that the final pull happens.
* `PinsProofs`: `TypeCorrect`, `AnchoredStays`, `HandedStays`, `ClaimedByOne`, `ForeignStays`, `TwoRunsExclude`. A document that
  is anchored, or was handed out less than the grace ago, has its file and is in nobody's hand (`FreshSafe`). It
  holds because a row is as fresh as its last answer (`ServedSinceHanded`), a row without a claim has its file
  (`StoredHasFile`), a document handed out while a run has its row in reach is `used`, what was anchored
  after a run began was handed out within the grace of it (`SelectLate`), and what the other network anchored is in no
  hand, and kept by every run that listed it (`Spared`). For the exclusion, a document in hand bears the claim of the run
  that has it (`HandClaimed`), that claim is younger than the lease while its owner lives (`RunsYoung` and the assumption that
  `Life` is at most the lease, `PIN_STALE_CLAIM_SECONDS`), and two runs start at different times. All this is outside
  `crossed`, for any number of runs. `HandedStays` states what is left for an address handed out within the grace: if its file is
gone, the document is `used` or `stripped`. On the instance of `pins_handed` TLC breaks it when either of the two is left
out, so both exceptions happen. `TwoRunsExclude` drops the exception and assumes at most two runs alive at a time: the
  phase is part of the heavy pass, every quarter of an hour (`lib/sync/phases/governance.ts:229`), and an invocation is taken
  to live less than two of them. With three it fails, see Observations.
* `MultisigVoteProofs`: `TypeCorrect`, `AcknowledgedStay`, `NobodyTurnedAway`, `VotesRecordedOnce`, `FinalVotesShown`,
  `RoundImplementsLedger`. A
  witness call has failed at most once for each signature it has seen; the assumption that there are no more
  signers than attempts then makes a refused signer one whose signature is in. Scripts with more signers
  than `ADD_WITNESS_MAX_ATTEMPTS` are not covered by it. The refinement adds that a row holds acknowledged signatures only, and that
  a browser at its wallet has enough of them (`RoundForm`);
  acknowledgements are never withdrawn, so it does not matter that the row may be gone.
* `SurveysProofs`: `TypeCorrect`, `OneThreadEver`, `FinalCountsNamed`, `RowsReflect`, `TalliesDescribe`, `WorkIsKept`. Every cursor, stored or in the
  memory of a run, is caught up: whatever changed up to it was applied. A page covers what lies between its
  start and its end (`AnswerCovers`, from the order of the delta and the page limit), the stages of a page
  land all of it (`OnwardSound`), so its end is caught up too (`CaughtNext`). A change of the backend is newer than every cursor
  and every page in flight (`SoundChanges`). What was applied last is what the row says, unless an overlapping run wrote behind it. `TallyOfItsArtifact` is
  inductive beside it: a row changes its artifact in the batch of a run that has the survey among those to
  purge, and `StoreTally` writes only beside the artifact it was computed from.

  `WorkIsKept` has an invariant of its own (`WInv`) and the hypothesis that at most two runs are alive at a time. A tally
  behind the newest change is queued once some cursor, stored or in a run, has passed that change (`Owed`). A bundle that is
  older than its survey was read before the change, so its run has not passed the change and every other run
  that has goes on from there (`Fetched`); if the change was passed all the same, its work was queued by a later run,
  under a later time than the guard of `dequeueSurveyTally` accepts, or the tally of it is stored already
  (`Outrun`). A run that retires work leaves a tally no older than the one it stored, or a purged one that
  nobody is about to fill with an older one (`Topped`). The surveys phase runs every five minutes, so nothing in the
  schedule rules out a third run; it takes one that lags behind two others, see Observations.

Assumptions are the named `ASSUME`s of the modules: positive limits, an owner for each channel, finitely
many users with positive ids, and what is said above. TLC evaluates them in every run.

Every safety invariant and action property of the passing runs but `CatchesUp` is a theorem, and so are the three refinements.
Only model-checked are the liveness properties
`NoticeDelivered`, `JobsComplete`, `PendingResolved`, `FinalVoteKept`, `RationaleCatchesUp` and `CollectedInTheEnd`
(fairness and `ENABLED` are out of the prover's reach), and `CatchesUp`, the bounded progress of `Surveys`: how many
runs a delta, a queue and an allowance take together is a count over the whole history that we have no invariant for.

## Findings

* `pins_handed`: `markPinDeleting` (`lib/db/govActionMetadata.ts:162`) claims a row by its lease alone. A document that is
  handed out after the collector listed its row and before the claim is removed, although
  `lib/governance/infoActionMetadataHandler.ts:201-203` says that serving a row restarts its grace period, so that "a
  resubmitted old draft cannot lose the pin it was just handed".

### Observations

Met while modelling, and read off the models; no run is kept for them.

Notifications and follows:

* Comments in `lib/notifications/dispatch.ts` (98-99, 142-144) promise that a failed bundle is retried. The handback
  (`:192`) is a compare-and-set, so when an overlapping pass has moved the cursor past the claim in the meantime the
  failed bundle is never offered again. It is right to be conditional (`RewindReopensUnsent` fails without
  the condition); the promise is too strong.
* `setDelegatedSince` writes without a condition after a lookup of seconds (`lib/delegation/refresh.ts:131`), on a row
  that another task may have given a newer delegation and its start by then.
* `captureDelegatedSince` (`lib/db/delegatorFollows.ts:337`) compares `since_checked_at`, which a change of delegation
  sets back to the NULL that a retry has read. The retry then writes the start of the old delegation.
* A new delegation to the same DRep does not look like a change, so the start of the older event stays, against
  `migrations/0089_delegator_follows_since.sql:1`.
* The rotation of the outbox bounds the runs that serve another job first, not the pages: with more than two jobs and an
  allowance for several pages a waiting job is overtaken by more pages than there are jobs.
* The expectation of one's own delegation is recorded by a request (`lib/auth/handlers.ts:311`) that the cron may
  overtake; the change is then told as if it came from elsewhere.

Sessions:

* Close to its absolute cap a session renews the list of the account with its own short remaining life
  (`lib/auth/session.ts:300`, the life from `:142-145`). The list can expire while a younger session is stored; signing
  out everywhere then finds no list (`:440-441`) and leaves that session. The comment at `:298` reads otherwise.

Votes:

* A pull that had its answer before the action was decided and marks the list as done after it uses up the last
  pull that the status change queued (`lib/db/governance.ts:1490-1494`). `FinalVoteKept` leaves this race out by name (`raced`).
* The archive skips rows with a `local_status` (`lib/db/voteHistory.ts:74`), and a re-vote through the site
  overwrites the synced row with a pending one (`lib/db/drepVotes.ts:736-749`). The replaced vote does not reach the
  history, and when the new one has no rationale the old rationale stays.
* A run that dies between marking a vote as failed and reaping leaves its rationale behind.
* A pull that still sees the older vote clears a pending re-vote and announces the rationale of the old one.

Pins:

* When the row of a removed file cannot be deleted, `releasePinDeleting` (`lib/governance/pinCollector.ts:148-151`) puts it
  back, and its address is handed out although the file is gone.
* `disownPin` (`lib/db/govActionMetadata.ts:192`) clears the file id of a row whoever claims it. With three runs,
  two list a document, the third asks after it is anchored on the other network and disowns the row that the first has
  claimed, and the second claims it: `ClaimsExclusive` needs `AtMostTwo` for documents in `crossed`.
* A request that ends between the upload and the row leaves a file no row knows; so does a slow run that
  deletes the row of a document pinned again in the meantime.

Multisig votes:

* A witness call does not look at the expiry: a signature on an expired row is acknowledged although submitting it answers 410.
  `/submit` uses `>` where the list and the reaping use `>=`.
* The panel does not look at the answer of `/submitted`, and that handler does not look at the status of the action.
* `/submitted` takes any well-formed hash from any member of the DRep while the row collects and does not ask whether anything
  was submitted (`pages/api/drep/multisig/[id]/submitted.ts:47-71`), although it "records the result after the browser
  submits" (`:2`). A row reported too early is closed: co-signers can no longer sign or assemble it, and its vote is
  shown until a pull or `markStalePendingVotesFailed` corrects it. The transaction itself still needs its signatures.

Surveys:

* A run that started earlier may apply older pages and store its older cursor after a newer run. The cursor makes
  later runs repeat the delta, but a row written behind keeps its older content until the backend changes it again,
  while the as-of line of the newer run may stand.
* `enqueueSurveyTallies` sets `queued_at` to the start of the enqueuing run, so it can move back; a newer run then
  retires work it has not read. `upsertSurveyTally` does not compare generations.
* Three overlapping runs can lose the tally of a change. The first stops before it purges the tally of an artifact that moved,
  the second reads the bundle, the third applies a newer change, queues it and stores its cursor. The first then purges, with the
  queue row (`deleteSurveyTallies`), and is killed before it queues again; the second stores its older tally. Nothing is
  queued, the survey has a tally, and the cursor is past the change. Two runs cannot do it (`WorkIsKept`).
* A run that dies between the batch and `deleteSurveyTallies` leaves a tally of the former artifact.
* The queue row of a deleted survey is never removed, and a survey whose bundle takes more requests than the
  allowance never gets a tally.

## Not modelled

* Pure I/O and rendering: the Koios client, the HTTP layer, pages and islands, analytics and review reports.
  The third-party services appear in the models as answers that come, fail or come late.
* Browser state: the forms and transaction assembly of governance actions. Single-threaded, and checked by the wallet.
* Pure functions: thresholds, outcomes, trends, forum text tools. Better tested than modelled.
* Straight-line upserts of chain data: discovery, tallies, the DRep directory. Their statements are idempotent and
  keyed by the chain; where a later step depends on the result, the model of that step takes it as an input.
* Generated or declarative parts: the database schema, assets, configuration.

The rest is small or waits in the plan.

## Plan

Done: `NotificationDispatch` with `ChannelDelivery`, `Fanout` with `FanoutRotation`, `DelegationFollow`,
`Sessions` (login, sessions and pairing), `DrepVotes` (ingestion and self-cast votes), `Pins`,
`MultisigVote`, `Surveys`, the abstract specifications `ChannelDelivery`, `Outbox` and `WitnessLedger`, and proofs of
every safety property and every refinement.

Next, in this order:

1. `DrepHandles`: claim against rename, release and reassignment, with cooldown and grace; a register of names with one
   owner as its abstract specification, and the proof that the claims implement it.
2. Co-proposer grants, avatar collection, thread attachment in the governance sync, erasure and flags of posts, retention
   and Telegram linking, the run recorder.
3. `WorkKept` for three runs, with the surveys a lagging purge has hit left out by name, as `crossed` does for the rest.

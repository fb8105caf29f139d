------------------------------ MODULE Surveys ------------------------------
(***************************************************************************)
(* The mirror of the surveys a backend serves (syncSurveys in              *)
(* surveys/sync.ts over db/surveys.ts and db/surveyTally.ts): a cron run   *)
(* applies what changed since the stored cursor page by page, opens the    *)
(* threads of linked surveys, reads final counts and computes tallies from *)
(* a durable queue.  Runs overlap, calls fail, invocations are killed.     *)
(*                                                                         *)
(* The backend numbers its changes; a survey carries the number of its     *)
(* last one and the address of its artifact, the number of the change that *)
(* decided it.  Each statement or batch is one step; a fetch of pages or   *)
(* artifacts that touches no table until its end is one as well.           *)
(***************************************************************************)
EXTENDS Integers, FiniteSets, Sequences

\* As elsewhere, operators whose names contain _Bug are plausible bugs of the
\* definition after them, used by nothing: each property is shown to fail on one.

CONSTANTS
    Refs,       \* the surveys
    Runs,       \* cron runs alive at the same time
    Cost,       \* Cost[s]: requests the bundle of s takes
    Allowance,  \* MAX_TALLY_REQUESTS
    PageLimit,  \* MAX_PAGE_LIMIT
    MaxPages,   \* MAX_LIST_PAGES
    MaxClock,   \* bound on the runs ever started
    MaxGen,     \* bound on the changes of the backend
    MaxFaults   \* bound on failed calls and killed runs

ASSUME SurveysAssumption ==
    /\ IsFiniteSet(Refs) /\ Cost \in [Refs -> Nat \ {0}] /\ Allowance \in Nat \ {0}
    /\ PageLimit \in Nat \ {0} /\ MaxPages \in Nat \ {0}
    /\ MaxClock \in Nat /\ MaxGen \in Nat /\ MaxFaults \in Nat

VARIABLES
    clock,    \* when the newest run started; runs start at different times
    gen,      \* changes of the backend so far
    up,       \* up[s]: the survey at the backend
    imported, \* surveys linked by a governance action that was imported here
    row,      \* survey
    tally,    \* survey_tally
    queue,    \* survey_tally_queue
    sync,     \* survey_sync_state
    run,      \* the runs
    threads,  \* history: threads ever opened for a survey
    applied,  \* history: the newest change of a survey that any run applied
    crossed,  \* history: surveys on which overlapping runs overwrote each other
    cut,      \* history: surveys whose delivery broke off between two batches
    calm,     \* history: runs that started and ended undisturbed since then
    faults

vars == <<clock, gen, up, imported, row, tally, queue, sync, run, threads, applied, crossed, cut, calm, faults>>
backend == <<gen, up, imported>>
tables == <<row, tally, queue, sync>>
history == <<threads, applied, crossed, cut>>

NoSurvey == [ver |-> 0, hash |-> 0, final |-> 0, thread |-> FALSE, hidden |-> FALSE]
NoTally == [ver |-> 0, hash |-> 0]
NotQueued == [at |-> 0, last |-> 0]
NoPage == [rows |-> {}, next |-> 0, at |-> 0, short |-> FALSE]
NoBundle == [ver |-> 0, hash |-> 0]
Asleep == [pc |-> "idle", now |-> 0, cursor |-> 0, asOf |-> 0, pages |-> 0, page |-> NoPage,
           drop |-> {}, todo |-> {}, work |-> <<>>, got |-> NoBundle, left |-> 0]

Init ==
    /\ clock = 0 /\ gen = 0 /\ imported = {}
    /\ up = [s \in Refs |-> [gen |-> 0, listed |-> FALSE, hash |-> 0]]
    /\ row = [s \in Refs |-> NoSurvey] /\ tally = [s \in Refs |-> NoTally]
    /\ queue = [s \in Refs |-> NotQueued] /\ sync = [cursor |-> 0, asOf |-> 0]
    /\ run = [g \in Runs |-> Asleep]
    /\ threads = [s \in Refs |-> 0] /\ applied = [s \in Refs |-> 0]
    /\ crossed = {} /\ cut = {} /\ calm = [since |-> 0, runs |-> 0] /\ faults = 0

Stored(s) == row[s].ver > 0
Queued(s) == queue[s].at > 0
Live(s) == Stored(s) /\ ~row[s].hidden
Disturbed == calm' = [since |-> clock, runs |-> 0]

Set(g, r) == run' = [run EXCEPT ![g] = r]
Go(g, pc) == Set(g, [run[g] EXCEPT !.pc = pc])

-----------------------------------------------------------------------------
(* The backend and the import of governance actions.                       *)

\* A record, a response, a link, a decision, or a rollback of any of them.
Change(s) ==
    /\ gen < MaxGen /\ gen' = gen + 1
    /\ \E l \in BOOLEAN, h \in {0, up[s].hash, gen'} : up' = [up EXCEPT ![s] = [gen |-> gen', listed |-> l, hash |-> h]]
    /\ Disturbed
    /\ UNCHANGED <<clock, imported, tables, run, history, faults>>

Import(s) ==
    /\ s \notin imported /\ imported' = imported \cup {s}
    /\ Disturbed
    /\ UNCHANGED <<clock, gen, up, tables, run, history, faults>>

\* What moved after a cursor, oldest first, a page of it.
Answer(cursor) ==
    LET moved == {s \in Refs : up[s].gen > cursor}
        first == {s \in moved : Cardinality({t \in moved : up[t].gen < up[s].gen}) < PageLimit}
        short == Cardinality(first) < PageLimit
        last == CHOOSE n \in {up[s].gen : s \in first} : \A s \in first : up[s].gen <= n
    IN [rows |-> {[ref |-> s, ver |-> up[s].gen, listed |-> up[s].listed, hash |-> up[s].hash] : s \in first},
        next |-> IF short THEN gen ELSE last, at |-> gen, short |-> short]

-----------------------------------------------------------------------------
(* Pass 1, the mirror.                                                     *)

StartRun(g) ==
    /\ run[g].pc = "idle" /\ clock < MaxClock
    /\ clock' = clock + 1
    /\ Set(g, [Asleep EXCEPT !.pc = "fetch", !.now = clock', !.cursor = sync.cursor, !.asOf = sync.asOf,
                             !.left = Allowance])
    /\ UNCHANGED <<backend, tables, history, calm, faults>>

\* What admission passes of a page; the rest is withdrawn.
Kept(page) == {a \in page.rows : a.listed}
Gone(page) == page.rows \ Kept(page)
RefsOf(A) == {a.ref : a \in A}

\* The allowance is never overdrawn.
Spend(left, n) == IF left > n THEN left - n ELSE 0

Advances_Bug(r) == TRUE

\* The as-of moves only when the delta was applied to its end.
Advances(r) == r.page.short

\* A page is applied: the cursor moves in memory.
Applied(r) ==
    [r EXCEPT !.cursor = r.page.next, !.asOf = IF Advances(r) THEN r.page.at ELSE r.asOf,
              !.pc = IF r.page.short \/ r.pages = MaxPages THEN "put" ELSE "fetch",
              !.page = NoPage, !.drop = {}]

\* The next of the writes of a page that has something to write.
Onward(r, from) ==
    LET stages == <<"withdraw", "upsert", "purge", "enqueue">>
        due == [withdraw |-> Gone(r.page) # {}, upsert |-> Kept(r.page) # {},
                purge |-> r.drop # {}, enqueue |-> Kept(r.page) # {}]
        ahead == {n \in from..4 : due[stages[n]]}
    IN IF ahead = {} THEN Applied(r)
       ELSE [r EXCEPT !.pc = stages[CHOOSE n \in ahead : \A m \in ahead : n <= m]]

Fetch(g) ==
    LET r == [run[g] EXCEPT !.page = Answer(run[g].cursor), !.pages = run[g].pages + 1, !.left = Spend(run[g].left, 1)]
    IN
    /\ run[g].pc = "fetch"
    /\ Set(g, IF r.page.rows = {} THEN Applied(r) ELSE [r EXCEPT !.pc = "facts"])
    /\ UNCHANGED <<clock, backend, tables, history, calm, faults>>

\* The stored rows before the page: which go, and which change their artifact.
Facts(g) ==
    LET r == run[g]
        dropped == {a \in Gone(r.page) : Stored(a.ref) /\ ~row[a.ref].thread}
                   \cup {a \in Kept(r.page) : Stored(a.ref) /\ row[a.ref].hash # a.hash}
    IN
    /\ r.pc = "facts"
    /\ Set(g, Onward([r EXCEPT !.drop = RefsOf(dropped)], 1))
    /\ UNCHANGED <<clock, backend, tables, history, calm, faults>>

\* What a page is about to write of a survey that a newer page was applied to.
Behind(A) == {a.ref : a \in {b \in A : b.ver < applied[b.ref]}}
Newest(A) == [s \in Refs |-> IF \E a \in A : a.ref = s /\ a.ver > applied[s]
                             THEN (CHOOSE a \in A : a.ref = s).ver ELSE applied[s]]

\* Surveys whose stored row a page is about to change in a way it did not find.
Unseen(r, A) == {a.ref : a \in {b \in A : /\ Stored(b.ref) /\ b.ref \notin r.drop
                                           /\ IF b.listed THEN row[b.ref].hash # b.hash ELSE ~row[b.ref].thread}}

\* withdrawSurveys: a row without a thread goes, a published one is hidden.
Withdraw(g) ==
    LET r == run[g]
        A == Gone(r.page)
    IN
    /\ r.pc = "withdraw"
    /\ row' = [s \in Refs |-> IF s \notin RefsOf(A) \/ ~Stored(s) THEN row[s]
                              ELSE IF row[s].thread THEN [row[s] EXCEPT !.hidden = TRUE] ELSE NoSurvey]
    /\ applied' = Newest(A) /\ crossed' = crossed \cup Behind(A) \cup Unseen(r, A)
    /\ Set(g, Onward(r, 2))
    /\ UNCHANGED <<clock, backend, tally, queue, sync, threads, cut, calm, faults>>

\* The count of an artifact stays only beside it.
FinalOf(old, hash) == IF old.hash = hash THEN old.final ELSE 0

\* One batch of buildUpsertSurvey and the links.
Upsert(g) ==
    LET r == run[g]
        A == Kept(r.page)
        New(a) == [row[a.ref] EXCEPT !.ver = a.ver, !.hash = a.hash, !.hidden = FALSE,
                                     !.final = FinalOf(row[a.ref], a.hash)]
    IN
    /\ r.pc = "upsert"
    /\ row' = [s \in Refs |-> IF s \in RefsOf(A) THEN New(CHOOSE a \in A : a.ref = s) ELSE row[s]]
    /\ applied' = Newest(A) /\ crossed' = crossed \cup Behind(A) \cup Unseen(r, A)
    /\ Set(g, Onward(r, 3))
    /\ UNCHANGED <<clock, backend, tally, queue, sync, threads, cut, calm, faults>>

\* deleteSurveyTallies
Purge(g) ==
    LET r == run[g] IN
    /\ r.pc = "purge"
    /\ tally' = [s \in Refs |-> IF s \in r.drop THEN NoTally ELSE tally[s]]
    /\ queue' = [s \in Refs |-> IF s \in r.drop THEN NotQueued ELSE queue[s]]
    /\ Set(g, Onward(r, 4))
    /\ UNCHANGED <<clock, backend, row, sync, history, calm, faults>>

\* enqueueSurveyTallies: a row that is queued keeps its attempts.
Enqueued(S, now) == [s \in Refs |-> IF s \in S THEN [queue[s] EXCEPT !.at = now] ELSE queue[s]]

\* A run that started later has read s and is about to store it and retire its work.
Overtaken(g, s) ==
    \E h \in Runs : /\ run[h].now > run[g].now /\ run[h].work # <<>> /\ Head(run[h].work) = s
                    /\ run[h].pc \in {"store", "dequeue"}

Enqueue(g) ==
    LET r == run[g]
        S == RefsOf(Kept(r.page))
    IN
    /\ r.pc = "enqueue"
    /\ queue' = Enqueued(S, r.now)
    /\ crossed' = crossed \cup {s \in S : Overtaken(g, s)}
    /\ Set(g, Applied(r))
    /\ UNCHANGED <<clock, backend, row, tally, sync, threads, applied, cut, calm, faults>>

\* putSurveySyncState, with what the run read at its start unless it advanced.
Put(g) ==
    /\ run[g].pc = "put"
    /\ sync' = [cursor |-> run[g].cursor, asOf |-> run[g].asOf]
    /\ Go(g, "list")
    /\ UNCHANGED <<clock, backend, row, tally, queue, history, calm, faults>>

-----------------------------------------------------------------------------
(* Passes 2 and 3, threads and final counts.                               *)

Todo(g, pc, items, after) ==
    Set(g, [run[g] EXCEPT !.todo = items, !.pc = IF items = {} THEN after ELSE pc])

\* getPublishableSurveys; a link is stored exactly while the survey is not hidden.
ListPublishable(g) ==
    /\ run[g].pc = "list"
    /\ Todo(g, "publish", {s \in imported : Stored(s) /\ ~row[s].thread}, "finals")
    /\ UNCHANGED <<clock, backend, tables, history, calm, faults>>

Unclaimed_Bug(s) == Stored(s)

\* UNCLAIMED, the guard and the claim of the batch.
Unclaimed(s) == Stored(s) /\ ~row[s].thread

\* publishSurvey
Publish(g, s) ==
    /\ run[g].pc = "publish" /\ s \in run[g].todo
    /\ IF Unclaimed(s)
         THEN /\ row' = [row EXCEPT ![s] = [row[s] EXCEPT !.thread = TRUE]]
              /\ threads' = [threads EXCEPT ![s] = threads[s] + 1]
         ELSE UNCHANGED <<row, threads>>
    /\ Todo(g, "publish", run[g].todo \ {s}, "finals")
    /\ UNCHANGED <<clock, backend, tally, queue, sync, applied, crossed, cut, calm, faults>>

ListAwaiting(g) ==
    /\ run[g].pc = "finals"
    /\ Todo(g, "final", {[ref |-> s, hash |-> row[s].hash] : s \in {t \in Refs : row[t].hash > 0 /\ row[t].final = 0}},
            "missing")
    /\ UNCHANGED <<clock, backend, tables, history, calm, faults>>

Awaits_Bug(a) == row[a.ref].final = 0 /\ Stored(a.ref)

\* The WHERE of setSurveyFinalCount.
Awaits(a) == Stored(a.ref) /\ row[a.ref].hash = a.hash /\ row[a.ref].final = 0

\* The request for one final count was made; then the next one.
FinalAsked(g, a) ==
    Set(g, [run[g] EXCEPT !.todo = run[g].todo \ {a}, !.left = Spend(run[g].left, 1),
                          !.pc = IF run[g].todo = {a} THEN "missing" ELSE "final"])

\* The count of an artifact is stood for by the address it was read at.
ReadFinal(g, a) ==
    /\ run[g].pc = "final" /\ a \in run[g].todo
    /\ row' = IF Awaits(a) THEN [row EXCEPT ![a.ref] = [row[a.ref] EXCEPT !.final = a.hash]] ELSE row
    /\ FinalAsked(g, a)
    /\ UNCHANGED <<clock, backend, tally, queue, sync, history, calm, faults>>

-----------------------------------------------------------------------------
(* Pass 4, the tallies.                                                    *)

\* getRefsWithoutTally
Unrowed(s) == Live(s) /\ tally[s] = NoTally /\ ~Queued(s)

FindMissing(g) ==
    /\ run[g].pc = "missing"
    /\ Todo(g, "requeue", {s \in Refs : Unrowed(s)}, "take")
    /\ UNCHANGED <<clock, backend, tables, history, calm, faults>>

Requeue(g) ==
    /\ run[g].pc = "requeue"
    /\ queue' = Enqueued(run[g].todo, run[g].now)
    /\ crossed' = crossed \cup {s \in run[g].todo : Overtaken(g, s)}
    /\ Set(g, [run[g] EXCEPT !.todo = {}, !.pc = "take"])
    /\ UNCHANGED <<clock, backend, row, tally, sync, threads, applied, cut, calm, faults>>

Sooner_Bug(s, t) == queue[s].at <= queue[t].at

\* Least recently attempted first, never attempted before all.
Sooner(s, t) ==
    \/ queue[s].last < queue[t].last
    \/ queue[s].last = queue[t].last /\ queue[s].at <= queue[t].at

Orders(S) ==
    {q \in [1..Cardinality(S) -> S] : \A i, j \in DOMAIN q : i < j => q[i] # q[j] /\ Sooner(q[i], q[j])}

\* Runs alive that started before the last change or fault.
Late == {g \in Runs : run[g].pc # "idle" /\ run[g].now <= calm.since}

\* A run ends; it counts as undisturbed if it started after the last change or
\* fault and no run from before is alive.
End(g) ==
    /\ Set(g, Asleep)
    /\ calm' = IF Late = {} THEN [calm EXCEPT !.runs = calm.runs + 1] ELSE calm

\* takeSurveyTallyWork
Take(g) ==
    /\ run[g].pc = "take"
    /\ \E q \in Orders({s \in Refs : Queued(s)}) :
         IF q = <<>> \/ run[g].left = 0 THEN End(g)
         ELSE Set(g, [run[g] EXCEPT !.work = q, !.pc = "mark"]) /\ UNCHANGED calm
    /\ UNCHANGED <<clock, backend, tables, history, faults>>

\* The next survey, unless the allowance is spent.
NextItem(g, left) ==
    LET rest == Tail(run[g].work) IN
    IF rest = <<>> \/ left = 0 THEN End(g)
    ELSE Set(g, [run[g] EXCEPT !.work = rest, !.left = left, !.got = NoBundle, !.pc = "mark"]) /\ UNCHANGED calm

\* markSurveyTallyAttempt
Mark(g) ==
    LET s == Head(run[g].work) IN
    /\ run[g].pc = "mark"
    /\ queue' = IF Queued(s) THEN [queue EXCEPT ![s] = [queue[s] EXCEPT !.last = run[g].now]] ELSE queue
    /\ Go(g, "read")
    /\ UNCHANGED <<clock, backend, row, tally, sync, history, calm, faults>>

\* tallyOneSurvey reads the row and remembers its artifact.
ReadSurvey(g) ==
    LET s == Head(run[g].work) IN
    /\ run[g].pc = "read"
    /\ IF Live(s)
         THEN Set(g, [run[g] EXCEPT !.got = [ver |-> 0, hash |-> row[s].hash], !.pc = "bundle"]) /\ UNCHANGED calm
         ELSE NextItem(g, run[g].left)
    /\ UNCHANGED <<clock, backend, tables, history, faults>>

\* The requests one bundle takes, and the artifact of a finalized survey.
BundleCost(g) == Cost[Head(run[g].work)] + IF run[g].got.hash > 0 THEN 1 ELSE 0

\* The bundle as the backend has it, and the artifact of a finalized survey;
\* nothing is kept of a bundle that does not fit the allowance.
FetchBundle(g) ==
    LET s == Head(run[g].work)
        cost == BundleCost(g)
    IN
    /\ run[g].pc = "bundle"
    /\ IF run[g].left < cost \/ ~up[s].listed THEN NextItem(g, Spend(run[g].left, cost))
       ELSE /\ Set(g, [run[g] EXCEPT !.got = [ver |-> up[s].gen, hash |-> run[g].got.hash], !.left = run[g].left - cost, !.pc = "store"])
            /\ UNCHANGED calm
    /\ UNCHANGED <<clock, backend, tables, history, faults>>

Current_Bug(s, hash) == Live(s)

\* The WHERE of upsertSurveyTally.
Current(s, hash) == Live(s) /\ row[s].hash = hash

StoreTally(g) ==
    LET s == Head(run[g].work) IN
    /\ run[g].pc = "store"
    /\ IF Current(s, run[g].got.hash)
         THEN /\ tally' = [tally EXCEPT ![s] = run[g].got]
              /\ crossed' = IF tally[s].ver > run[g].got.ver THEN crossed \cup {s} ELSE crossed
              /\ Go(g, "dequeue") /\ UNCHANGED calm
         ELSE NextItem(g, run[g].left) /\ UNCHANGED <<tally, crossed>>
    /\ UNCHANGED <<clock, backend, row, queue, sync, threads, applied, cut, faults>>

Retired_Bug(q, now) == q.last = now

\* The WHERE of dequeueSurveyTally.
Retired(q, now) == q.last = now /\ q.at <= now

Dequeue(g) ==
    LET s == Head(run[g].work) IN
    /\ run[g].pc = "dequeue"
    /\ queue' = IF Queued(s) /\ Retired(queue[s], run[g].now) THEN [queue EXCEPT ![s] = NotQueued] ELSE queue
    /\ NextItem(g, run[g].left)
    /\ UNCHANGED <<clock, backend, row, tally, sync, history, faults>>

-----------------------------------------------------------------------------
(* Failures.                                                               *)

Mirror == {"fetch", "facts", "withdraw", "upsert", "purge", "enqueue"}

\* The writes of a page that were not made yet are not made by this run.
Broken(g) == cut' = IF run[g].pc \in {"upsert", "purge"} THEN cut \cup run[g].drop ELSE cut

Fault == faults < MaxFaults /\ faults' = faults + 1 /\ Disturbed

\* A request is counted before it is made, so one that fails was spent.
Asked(g) == CASE run[g].pc = "fetch" -> {1} [] run[g].pc = "bundle" -> 1..BundleCost(g) [] OTHER -> {0}

\* A call of a pass fails: the pass is over and the next one begins.
PassFails(g) ==
    /\ Fault /\ Broken(g)
    /\ \/ /\ run[g].pc \in Mirror
          /\ \E n \in Asked(g) : Set(g, [run[g] EXCEPT !.page = NoPage, !.drop = {}, !.left = Spend(run[g].left, n), !.pc = "put"])
       \/ run[g].pc = "list" /\ Go(g, "finals")
       \/ run[g].pc = "finals" /\ Go(g, "missing")
    /\ UNCHANGED <<clock, backend, tables, threads, applied, crossed>>

\* A survey fails: its pass goes on with the next, if any is left to pay for.
ItemFails(g) ==
    /\ Fault
    /\ \/ \E s \in run[g].todo : \/ run[g].pc = "publish" /\ Todo(g, "publish", run[g].todo \ {s}, "finals")
                                 \/ run[g].pc = "final" /\ FinalAsked(g, s)
       \/ /\ run[g].pc \in {"read", "bundle", "store", "dequeue"} /\ Len(run[g].work) > 1
          /\ \E n \in Asked(g) :
               /\ n < run[g].left
               /\ Set(g, [run[g] EXCEPT !.work = Tail(run[g].work), !.left = run[g].left - n, !.got = NoBundle, !.pc = "mark"])
    /\ UNCHANGED <<clock, backend, tables, history>>

\* The run ends: the invocation is killed, the backend is not ready, the write
\* of the cursor fails, the last pass does, or its last survey.
RunFails(g) ==
    /\ run[g].pc # "idle" /\ Fault /\ Broken(g)
    /\ Set(g, Asleep)
    /\ UNCHANGED <<clock, backend, tables, threads, applied, crossed>>

RunStep(g) ==
    \/ Fetch(g) \/ Facts(g) \/ Withdraw(g) \/ Upsert(g) \/ Purge(g) \/ Enqueue(g) \/ Put(g)
    \/ ListPublishable(g) \/ \E s \in Refs : Publish(g, s)
    \/ ListAwaiting(g) \/ \E a \in run[g].todo : ReadFinal(g, a)
    \/ FindMissing(g) \/ Requeue(g) \/ Take(g)
    \/ Mark(g) \/ ReadSurvey(g) \/ FetchBundle(g) \/ StoreTally(g) \/ Dequeue(g)

Next ==
    \/ \E s \in Refs : Change(s) \/ Import(s)
    \/ \E g \in Runs : StartRun(g) \/ RunStep(g) \/ PassFails(g) \/ ItemFails(g) \/ RunFails(g)

Spec == Init /\ [][Next]_vars
-----------------------------------------------------------------------------
(* Properties.                                                             *)

Version == 0..MaxGen
Bundle == [ver : Version, hash : Version]
Item == [ref : Refs, ver : Version, listed : BOOLEAN, hash : Version]
Page == [rows : SUBSET Item, next : Version, at : Version, short : BOOLEAN]

Stage == {"idle", "fetch", "facts", "withdraw", "upsert", "purge", "enqueue", "put", "list", "publish", "finals", "final",
          "missing", "requeue", "take", "mark", "read", "bundle", "store", "dequeue"}

\* A pass walks over surveys, pass 3 over surveys and the artifact to read.
Run == [pc : Stage, now : 0..MaxClock, cursor : Version, asOf : Version, pages : 0..MaxPages, page : Page,
        drop : SUBSET Refs, todo : SUBSET (Refs \cup [ref : Refs, hash : Version]), work : Seq(Refs),
        got : Bundle, left : 0..Allowance]

\* Every variable has its type, and only a survey with a thread is hidden.
TypeOK ==
    /\ clock \in 0..MaxClock /\ gen \in Version /\ faults \in 0..MaxFaults
    /\ up \in [Refs -> [gen : Version, listed : BOOLEAN, hash : Version]]
    /\ imported \subseteq Refs /\ crossed \subseteq Refs /\ cut \subseteq Refs
    /\ row \in [Refs -> [ver : Version, hash : Version, final : Version, thread : BOOLEAN, hidden : BOOLEAN]]
    /\ \A s \in Refs : row[s].hidden => row[s].thread
    /\ tally \in [Refs -> Bundle]
    /\ queue \in [Refs -> [at : 0..MaxClock, last : 0..MaxClock]]
    /\ sync \in [cursor : Version, asOf : Version]
    /\ threads \in [Refs -> Nat] /\ applied \in [Refs -> Version]
    /\ calm \in [since : 0..MaxClock, runs : Nat]
    /\ run \in [Runs -> Run]

\* A survey never gets a second thread, and the thread it got is the one its
\* row points at, through withdrawals, returns and overlapping publish passes
\* (publishSurvey and the claim of buildSurveyClaim).
OneThread == \A s \in Refs : threads[s] = IF Stored(s) /\ row[s].thread THEN 1 ELSE 0

\* A final count stands only beside the artifact it was read from, though the
\* artifact may move while it is read (setSurveyFinalCount, buildUpsertSurvey).
FinalCountNamed == \A s \in Refs : row[s].final # 0 => row[s].final = row[s].hash

\* The purge of a tally that a page made obsolete is still ahead of a run.
Purging(s) == \E g \in Runs : run[g].pc \in {"upsert", "purge"} /\ s \in run[g].drop

\* No tally is kept of a deleted survey or beside an artifact it does not
\* describe, however late its bundle arrives (upsertSurveyTally and
\* deleteSurveyTallies), unless the delivery broke off in between.
TallyOfItsArtifact ==
    \A s \in Refs \ (cut \cup crossed) :
        tally[s] # NoTally /\ ~Purging(s) => Stored(s) /\ tally[s].hash = row[s].hash

\* The row of s says what the backend says.
Mirrored(s) ==
    IF up[s].listed THEN row[s].ver = up[s].gen /\ row[s].hash = up[s].hash /\ ~row[s].hidden
    ELSE Stored(s) => row[s].hidden

\* The rows reflect the snapshot that the "as of" line names: whatever changed
\* up to it was applied, through pages, failures and runs that broke off
\* (syncSurveys, putSurveySyncState).
MirrorReflects ==
    \A s \in Refs \ crossed : up[s].gen <= sync.asOf => Mirrored(s)

\* A tally that has not seen the newest change of its survey is work that is
\* queued, or that comes again with the next delta (enqueueSurveyTallies and
\* the guards of dequeueSurveyTally).
WorkKept ==
    \A s \in Refs \ crossed :
        Live(s) /\ tally[s] # NoTally /\ tally[s].ver < up[s].gen => Queued(s) \/ sync.cursor < up[s].gen

\* A run can tally s before anything else of its allowance is spent.
Fits(s) == Cost[s] + 2 <= Allowance

\* What a survey comes to when the backend rests.
Settled(s) ==
    /\ Mirrored(s)
    /\ s \in imported /\ up[s].listed => row[s].thread
    /\ up[s].listed => row[s].final = row[s].hash
    /\ up[s].listed /\ Fits(s) => tally[s] = [ver |-> up[s].gen, hash |-> up[s].hash]

\* Runs that suffice: the pages, and one for every survey that may be tried first.
Enough == Cardinality(Refs) + 1

\* Once the backend rests and nothing fails, a few runs bring everything up to
\* date: a survey whose bundle never fits does not keep the others from their
\* tally (takeSurveyTallyWork, getRefsWithoutTally).
CatchesUp == calm.runs >= Enough => \A s \in Refs \ crossed : Settled(s)
=============================================================================

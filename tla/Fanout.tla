-------------------------------- MODULE Fanout --------------------------------
(***************************************************************************)
(* The durable outbox of delegator notifications: the jobs of              *)
(* src/src/lib/db/fanoutJobs.ts, drained one follower page at a time by    *)
(* runFanout (src/src/lib/notifications/fanout.ts).                        *)
(*                                                                         *)
(* A job is written in the batch of the vote or status change it is about  *)
(* and names a DRep.  A run lists open jobs, then per listed job reads one *)
(* page of that DRep's followers and commits the page and the cursor step  *)
(* in a second call.  Followers change DRep between any two calls, a run   *)
(* that outlasts the five minutes of the cron overlaps the next one, and   *)
(* an evicted run stops anywhere.                                          *)
(*                                                                         *)
(* Jobs and users are numbers: the code orders both by their text keys.    *)
(***************************************************************************)
EXTENDS Integers, FiniteSets

\* As elsewhere, operators whose names contain _Bug are plausible bugs of the
\* definition after them, used by nothing: each property is shown to fail on one.

CONSTANTS
    Users,        \* positive numbers, in the order of user_id; 0 is no cursor
    Jobs,         \* numbers, in the order of event_key
    Dreps,
    Subject,      \* Subject[j]: the DRep job j is about (subject_id)
    Runs,         \* invocations that can be draining at the same time
    PageSize,     \* followers per page
    InsertChunk,  \* rows per insert statement
    Allowance,    \* queries one run may spend
    MaxClock,     \* bound: last second
    MaxMoves,     \* bound: changes of a follow
    MaxFaults     \* bound: evicted runs

NoDrep == "none"

ASSUME FanoutAssumption ==
    /\ Users \subseteq Nat \ {0}
    /\ Jobs \subseteq Nat /\ Jobs # {}
    /\ IsFiniteSet(Users) /\ IsFiniteSet(Jobs)
    /\ NoDrep \notin Dreps
    /\ Subject \in [Jobs -> Dreps]
    /\ PageSize \in Nat \ {0}
    /\ InsertChunk \in Nat \ {0}
    /\ {Allowance, MaxClock, MaxMoves, MaxFaults} \subseteq Nat

VARIABLES
    clock,        \* unix seconds
    follow,       \* delegator_follows: the resolved DRep and delegation_set_at
    status,       \* per job: not written, open, or done (completed_at)
    src,          \* source_time
    cursor,       \* cursor_user_id, 0 for NULL
    updated,      \* updated_at, the rotation key
    inbox,        \* notification rows per user and event
    pc,           \* where each run is
    now,          \* the run's now, fixed when it starts
    left,         \* queries of the allowance not spent yet
    todo,         \* jobs of the current pass, as listed, not yet reached
    truncated,    \* the listing of the pass was cut
    allCompleted, \* every page of the pass completed its job
    hand,         \* the page in hand: a listed job, the users read for it, the last one
    deferred,     \* how the run ended
    moves, faults,
    listed,       \* history: jobs that were open at a listing of the run
    steady        \* history: users eligible for a job ever since it was written

jobVars == <<status, src, cursor, updated>>
runVars == <<pc, now, left, todo, truncated, allCompleted, hand, deferred, listed>>
vars    == <<clock, follow, jobVars, inbox, runVars, moves, faults, steady>>

Listing == [job : Jobs, cursor : Nat, updated : Nat]
NoPage  == [of |-> [job |-> CHOOSE j \in Jobs : TRUE, cursor |-> 0, updated |-> 0], users |-> {}, last |-> 0]

TypeOK ==
    /\ clock \in Nat
    /\ follow \in [Users -> [drep : Dreps \cup {NoDrep}, set : Nat]]
    /\ status \in [Jobs -> {"absent", "open", "done"}]
    /\ src \in [Jobs -> Nat]
    /\ cursor \in [Jobs -> Users \cup {0}]
    /\ updated \in [Jobs -> Nat]
    /\ inbox \in [Users -> [Jobs -> Nat]]
    /\ pc \in [Runs -> {"idle", "list", "jobs", "page"}]
    /\ now \in [Runs -> Nat]
    /\ left \in [Runs -> Int]
    /\ todo \in [Runs -> SUBSET Listing]
    /\ truncated \in [Runs -> BOOLEAN]
    /\ allCompleted \in [Runs -> BOOLEAN]
    /\ hand \in [Runs -> [of : Listing, users : SUBSET Users, last : Users \cup {0}]]
    /\ deferred \in [Runs -> BOOLEAN]
    /\ moves \in Nat /\ faults \in Nat
    /\ listed \in [Runs -> SUBSET Jobs]
    /\ steady \in [Jobs -> SUBSET Users]

-----------------------------------------------------------------------------
(* Followers and events *)

Open == {j \in Jobs : status[j] = "open"}

\* The recipients of job j: resolved to its DRep no later than the event.
Eligible(j) == {u \in Users : follow[u].drep = Subject[j] /\ follow[u].set <= src[j]}

Init ==
    /\ clock = 1
    /\ follow = [u \in Users |-> [drep |-> NoDrep, set |-> 0]]
    /\ status = [j \in Jobs |-> "absent"]
    /\ src = [j \in Jobs |-> 0]
    /\ cursor = [j \in Jobs |-> 0]
    /\ updated = [j \in Jobs |-> 0]
    /\ inbox = [u \in Users |-> [j \in Jobs |-> 0]]
    /\ pc = [r \in Runs |-> "idle"]
    /\ now = [r \in Runs |-> 0]
    /\ left = [r \in Runs |-> 0]
    /\ todo = [r \in Runs |-> {}]
    /\ truncated = [r \in Runs |-> FALSE]
    /\ allCompleted = [r \in Runs |-> TRUE]
    /\ hand = [r \in Runs |-> NoPage]
    /\ deferred = [r \in Runs |-> TRUE]
    /\ moves = 0
    /\ faults = 0
    /\ listed = [r \in Runs |-> {}]
    /\ steady = [j \in Jobs |-> {}]

Tick ==
    /\ clock < MaxClock
    /\ clock' = clock + 1
    /\ UNCHANGED <<follow, jobVars, inbox, runVars, moves, faults, steady>>

\* applyResolution sees another delegation: the first one, a new DRep, or none.
\* The stamp is the time the resolving task started, so it may lie back.
Resolve(u, d, at) ==
    /\ moves < MaxMoves
    /\ follow[u].drep # d
    /\ moves' = moves + 1
    /\ follow' = [follow EXCEPT ![u] = [drep |-> d, set |-> at]]
    /\ steady' = [j \in Jobs |-> steady[j] \ {u}]
    /\ UNCHANGED <<clock, jobVars, inbox, runVars, faults>>

\* buildJobInsert, in the batch of the vote or status write it belongs to; the
\* event happened at or before the time the writing task started.
CreateJob(j, at, event) ==
    /\ status[j] = "absent"
    /\ event <= at
    /\ status' = [status EXCEPT ![j] = "open"]
    /\ src' = [src EXCEPT ![j] = event]
    /\ updated' = [updated EXCEPT ![j] = at]
    /\ steady' = [steady EXCEPT ![j] =
                    {u \in Users : follow[u].drep = Subject[j] /\ follow[u].set <= event}]
    /\ UNCHANGED <<clock, follow, cursor, inbox, runVars, moves, faults>>

-----------------------------------------------------------------------------
(* One run *)

Ceil(a, b) == (a + b - 1) \div b

\* fanoutPageCost: the follower select, the insert chunks, the cursor step.
PageCost == 1 + Ceil(PageSize, InsertChunk) + 1

StartRun(r) ==
    /\ pc[r] = "idle"
    /\ Open # {}
    /\ pc' = [pc EXCEPT ![r] = "list"]
    /\ now' = [now EXCEPT ![r] = clock]
    /\ left' = [left EXCEPT ![r] = Allowance]
    /\ listed' = [listed EXCEPT ![r] = {}]
    /\ UNCHANGED <<clock, follow, jobVars, inbox, todo, truncated, allCompleted, hand, deferred,
                   moves, faults, steady>>

\* Least recently advanced first, then by key.
Before(a, b) == a.updated < b.updated \/ (a.updated = b.updated /\ a.job < b.job)

OpenListings == {[job |-> j, cursor |-> cursor[j], updated |-> updated[j]] : j \in Open}

Affordable_Bug(r) == left[r] \div PageCost  \* the listing query itself is forgotten
Affordable_BugSpare(r) == (left[r] - 2) \div PageCost  \* one query too many held back
Affordable(r) == (left[r] - 1) \div PageCost

\* listOpenJobs is asked for one row more than the pass can process, to tell
\* whether there is more; that row is dropped.
Cut_Bug(S) == FALSE
Cut(S) == S # OpenListings

EndRun(r, more) ==
    /\ pc' = [pc EXCEPT ![r] = "idle"]
    /\ deferred' = [deferred EXCEPT ![r] = more]

ListJobs(r) ==
    /\ pc[r] = "list"
    /\ left[r] >= 1 + PageCost
    /\ left' = [left EXCEPT ![r] = @ - 1]
    /\ listed' = [listed EXCEPT ![r] = @ \cup Open]
    /\ \/ /\ Open = {}
          /\ EndRun(r, FALSE)
          /\ UNCHANGED <<todo, truncated, allCompleted>>
       \/ /\ Open # {}
          /\ \E S \in SUBSET OpenListings :
               /\ \/ S = OpenListings /\ Cardinality(S) <= Affordable(r)
                  \/ S # OpenListings /\ Cardinality(S) = Affordable(r)
               /\ \A a \in S, b \in OpenListings \ S : Before(a, b)
               /\ todo' = [todo EXCEPT ![r] = S]
               /\ truncated' = [truncated EXCEPT ![r] = Cut(S)]
          /\ allCompleted' = [allCompleted EXCEPT ![r] = TRUE]
          /\ pc' = [pc EXCEPT ![r] = "jobs"]
          /\ UNCHANGED deferred
    /\ UNCHANGED <<clock, follow, jobVars, inbox, now, hand, moves, faults, steady>>

\* The allowance does not cover a listing and a page.
Defer(r) ==
    /\ pc[r] = "list"
    /\ left[r] < 1 + PageCost
    /\ EndRun(r, TRUE)
    /\ UNCHANGED <<clock, follow, jobVars, inbox, now, left, todo, truncated, allCompleted, hand,
                   moves, faults, listed, steady>>

PageOf_Bug(l, P) ==  \* no ORDER BY
    LET E == {u \in Eligible(l.job) : u > l.cursor}
    IN  P \subseteq E /\ (P = E \/ Cardinality(P) = PageSize) /\ Cardinality(P) <= PageSize

PageOf_BugLate(l, P) ==  \* who follows by now, whenever that began
    LET E == {u \in Users : follow[u].drep = Subject[l.job] /\ u > l.cursor}
    IN  /\ P \subseteq E
        /\ (P = E /\ Cardinality(P) <= PageSize) \/ (P # E /\ Cardinality(P) = PageSize)
        /\ \A u \in P, v \in E \ P : u < v

\* The page at the listed cursor, which may have moved since.
PageOf(l, P) ==
    LET E == {u \in Eligible(l.job) : u > l.cursor}
    IN  /\ P \subseteq E
        /\ \/ P = E /\ Cardinality(P) <= PageSize
           \/ P # E /\ Cardinality(P) = PageSize
        /\ \A u \in P, v \in E \ P : u < v

\* followers[followers.length - 1]; 0 when there is no row.
IsLast(P, u) == IF P = {} THEN u = 0 ELSE u \in P /\ \A v \in P : v <= u

\* The code's check of the allowance before each page never fails: what was
\* listed is affordable (WithinAllowance).
ReadPage(r) ==
    /\ pc[r] = "jobs"
    /\ left[r] >= PageCost
    /\ \E l \in todo[r] :
         /\ \A m \in todo[r] \ {l} : Before(l, m)
         /\ todo' = [todo EXCEPT ![r] = @ \ {l}]
         /\ \E P \in SUBSET Users, u \in Users \cup {0} :
              /\ PageOf(l, P)
              /\ IsLast(P, u)
              /\ hand' = [hand EXCEPT ![r] = [of |-> l, users |-> P, last |-> u]]
    /\ pc' = [pc EXCEPT ![r] = "page"]
    /\ left' = [left EXCEPT ![r] = @ - 1]
    /\ UNCHANGED <<clock, follow, jobVars, inbox, now, truncated, allCompleted, deferred,
                   moves, faults, listed, steady>>

Drained_Bug(P) == Cardinality(P) <= PageSize
Drained(P) == Cardinality(P) < PageSize

\* ON CONFLICT(recipient_id, event_key) DO NOTHING.
Insert_Bug(P, j) == [u \in Users |-> [inbox[u] EXCEPT ![j] = IF u \in P THEN @ + 1 ELSE @]]
Insert(P, j) == [u \in Users |-> [inbox[u] EXCEPT ![j] = IF u \in P /\ @ = 0 THEN 1 ELSE @]]

\* buildCompleteJob or buildAdvanceJobCursor: by key alone, whatever the job
\* has become since it was listed.
StepJob_Bug(j, page, at) ==  \* the rotation key stays
    IF Drained(page.users)
      THEN status' = [status EXCEPT ![j] = "done"] /\ UNCHANGED <<cursor, updated>>
      ELSE cursor' = [cursor EXCEPT ![j] = page.last] /\ UNCHANGED <<status, updated>>

StepJob(j, page, at) ==
    /\ updated' = [updated EXCEPT ![j] = at]
    /\ IF Drained(page.users)
         THEN status' = [status EXCEPT ![j] = "done"] /\ UNCHANGED cursor
         ELSE cursor' = [cursor EXCEPT ![j] = page.last] /\ UNCHANGED status

\* One batch: the rows of the page and the step of the job.
CommitPage(r) ==
    LET P == hand[r].users
        j == hand[r].of.job
    IN  /\ pc[r] = "page"
        /\ inbox' = Insert(P, j)
        /\ StepJob(j, hand[r], now[r])
        /\ left' = [left EXCEPT ![r] = @ - Ceil(Cardinality(P), InsertChunk) - 1]
        /\ allCompleted' = [allCompleted EXCEPT ![r] = @ /\ Drained(P)]
        /\ hand' = [hand EXCEPT ![r] = NoPage]
        /\ pc' = [pc EXCEPT ![r] = "jobs"]
        /\ UNCHANGED <<clock, follow, src, now, todo, truncated, deferred, moves, faults, listed, steady>>

\* Every listed job had its page: done, or another pass.
EndPass(r) ==
    /\ pc[r] = "jobs"
    /\ todo[r] = {}
    /\ IF ~truncated[r] /\ allCompleted[r]
         THEN EndRun(r, FALSE)
         ELSE pc' = [pc EXCEPT ![r] = "list"] /\ UNCHANGED deferred
    /\ UNCHANGED <<clock, follow, jobVars, inbox, now, left, todo, truncated, allCompleted, hand,
                   moves, faults, listed, steady>>

\* The invocation is evicted, or a statement throws out of runFanout.
Abort(r) ==
    /\ faults < MaxFaults
    /\ faults' = faults + 1
    /\ pc[r] # "idle"
    /\ EndRun(r, TRUE)
    /\ todo' = [todo EXCEPT ![r] = {}]
    /\ hand' = [hand EXCEPT ![r] = NoPage]
    /\ UNCHANGED <<clock, follow, jobVars, inbox, now, left, truncated, allCompleted, moves, listed, steady>>

RunStep(r) == ListJobs(r) \/ Defer(r) \/ ReadPage(r) \/ CommitPage(r) \/ EndPass(r)

Next ==
    \/ Tick
    \/ \E u \in Users, d \in Dreps \cup {NoDrep}, at \in 0..clock : Resolve(u, d, at)
    \/ \E j \in Jobs, at \in 0..clock, event \in 0..clock : CreateJob(j, at, event)
    \/ \E r \in Runs : StartRun(r) \/ RunStep(r) \/ Abort(r)

Spec == Init /\ [][Next]_vars

\* The cron keeps firing, and every call of a run that is not evicted returns.
FairSpec == Spec /\ \A r \in Runs : WF_vars(StartRun(r)) /\ WF_vars(RunStep(r))

-----------------------------------------------------------------------------
(* Properties *)

\* Two runs that read the same page, or a cursor put back by a slow run, never
\* give a follower the same event twice (buildNotificationPage).
ToldOnce == \A u \in Users, j \in Jobs : inbox[u][j] <= 1

\* A completed job reached everyone who followed its DRep when the event was
\* written and ever since, whatever other followers did while it was drained,
\* however runs overlapped or were evicted (processOnePage).
NoFollowerMissed == \A j \in Jobs : status[j] = "done" => \A u \in steady[j] : inbox[u][j] > 0

\* While a job is open, the same holds below its cursor: a slow run may move the
\* cursor back, never past a follower who was not told (buildAdvanceJobCursor).
NoFollowerPassed ==
    \A j \in Jobs : \A u \in steady[j] : u <= cursor[j] => inbox[u][j] > 0

\* A run never spends more queries than its allowance, and what a pass listed it
\* can pay for (covers and affordable in runFanout).
WithinAllowance ==
    \A r \in Runs :
        /\ left[r] >= 0
        /\ pc[r] = "jobs" => left[r] >= PageCost * Cardinality(todo[r])

\* "deferred is true only when work may remain" (runFanout), and the other way
\* round: a run that reports nothing deferred leaves no job open that was open
\* at one of its listings.
NotDeferredIsDrained ==
    \A r \in Runs : (pc[r] = "idle" /\ ~deferred[r]) => \A j \in listed[r] : status[j] = "done"

\* Every job is drained in the end, although followers come and go, runs overlap
\* and put cursors back, and each run can afford only so much.
JobsComplete == \A j \in Jobs : status[j] = "open" ~> status[j] = "done"
=============================================================================

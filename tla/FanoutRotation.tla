---------------------------- MODULE FanoutRotation ----------------------------
(***************************************************************************)
(* Fanout with a history of which runs served whom while who waited, for   *)
(* the rotation of listOpenJobs (src/src/lib/db/fanoutJobs.ts).            *)
(***************************************************************************)
EXTENDS Fanout

VARIABLE turns  \* history: turns[j][k], the runs, by their seconds, that gave k
                \* a page since j was written or had one itself

InitTurns == Init /\ turns = [j \in Jobs |-> [k \in Jobs |-> {}]]

\* Pages count while a job is open.
Served(k, second) ==
    turns' = [j \in Jobs |-> IF j = k \/ j \notin Open
                               THEN [i \in Jobs |-> {}]
                               ELSE [turns[j] EXCEPT ![k] = @ \cup {second}]]

\* The cron fires minutes apart: no two runs start in the same second.
SparseStart(r) == StartRun(r) /\ \A q \in Runs : now[q] < clock

NextTurns ==
    \/ \E r \in Runs : CommitPage(r) /\ Served(hand[r].of.job, now[r])
    \/ /\ \/ Tick
          \/ \E u \in Users, d \in Dreps : Resolve(u, d, 0)
          \/ \E j \in Jobs, at \in 0..clock : CreateJob(j, at, at)
          \/ \E r \in Runs : \/ SparseStart(r) \/ ListJobs(r) \/ Defer(r)
                             \/ ReadPage(r) \/ EndPass(r) \/ Abort(r)
       /\ UNCHANGED turns

SpecTurns == InitTurns /\ [][NextTurns]_<<vars, turns>>

\* "A job that got a page moves behind jobs that did not, so across runs the
\* rotation reaches every open job in turn" (listOpenJobs): while one job waits,
\* at most three runs serve another, however many followers it has: the run that
\* is on its way, one whose second is the stamp of the job that waits, and one
\* that finds the other ahead.
RotationReachesAll == \A j, k \in Jobs : j \in Open => Cardinality(turns[j][k]) <= 3
=============================================================================

---------------------------- MODULE FanoutDelivery ----------------------------
(***************************************************************************)
(* Fanout with a history of who could ever be told of a job, and what it   *)
(* promises: it implements Outbox, although it reads and writes page by    *)
(* page, runs overlap, and a slow run may put a cursor back or work on a   *)
(* job that is done (src/src/lib/notifications/fanout.ts).                 *)
(***************************************************************************)
EXTENDS Fanout

VARIABLE met  \* history: met[j], who was eligible for j at any time since it was written

InitMet == Init /\ met = [j \in Jobs |-> {}]

Written == {j \in Jobs : status[j] # "absent"}

Meet == met' = [j \in Jobs |-> IF j \in Written' THEN met[j] \cup Eligible(j)' ELSE {}]

NextMet == Next /\ Meet

SpecMet == InitMet /\ [][NextMet]_<<vars, met>>

FairSpecMet == SpecMet /\ \A r \in Runs : WF_vars(StartRun(r)) /\ WF_vars(RunStep(r))

\* What the outbox promises: nobody is told twice, nobody who never followed the
\* DRep of an event hears of it, and a job is completed only when everyone who
\* has followed throughout was told, once and for all (runFanout; "recorded or not
\* at all, so a retry never re-inserts rows whose step was lost", processOnePage).
Deliveries == INSTANCE Outbox WITH
    written <- Written,
    closed  <- {j \in Jobs : status[j] = "done"},
    owed    <- steady,
    told    <- inbox

Promise == Deliveries!Spec
=============================================================================

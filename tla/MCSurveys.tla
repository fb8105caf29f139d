------------------------------ MODULE MCSurveys ------------------------------
(* Surveys on small instances. *)
EXTENDS Surveys, TLC

CONSTANTS s1, s2, g1, g2

\* The bundle of s2 is larger than a run's allowance.
MCCost == s1 :> 1 @@ s2 :> 5

\* Cron runs are interchangeable.
MCSymmetry == Permutations({g1, g2})

\* calm matters to CatchesUp alone.
MCView == <<clock, gen, up, imported, row, tally, queue, sync, run, threads, applied, crossed, cut, faults>>

\* In an instance with s1 alone.
MCCheap == s1 :> 1

=============================================================================

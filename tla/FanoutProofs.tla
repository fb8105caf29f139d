----------------------------- MODULE FanoutProofs -----------------------------
(***************************************************************************)
(* Proofs about Fanout and its rotation, for every value of the constants. *)
(*                                                                         *)
(* The argument for NoFollowerMissed: everyone who was eligible for a job  *)
(* ever since it was written and whose id is at or below a cursor was      *)
(* told, and this holds for the stored cursor, for every cursor a run has  *)
(* listed and not used yet, and for the one a page was read at             *)
(* (CursorsSafe).  A page in hand holds everyone between that cursor and   *)
(* its last user, and everyone above the cursor when it is not full        *)
(* (PagesComplete); a follower who is not in it was not eligible when it   *)
(* was read.                                                               *)
(***************************************************************************)
EXTENDS FanoutRotation, FanoutDelivery, TLAPS, FiniteSetTheorems

\* A job that is not written yet has no cursor, no audience and no run at work.
Unwritten ==
    \A j \in Jobs : status[j] = "absent" =>
        /\ cursor[j] = 0
        /\ steady[j] = {}
        /\ \A r \in Runs : /\ \A l \in todo[r] : l.job # j
                           /\ pc[r] = "page" => hand[r].of.job # j

\* Who was eligible for a job since it was written still is.
SteadyEligible == \A j \in Jobs : steady[j] \subseteq Eligible(j)

\* Everyone in steady[j] at or below c was told about j.
ToldUpTo(j, c) == \A u \in steady[j] : u <= c => inbox[u][j] > 0

CursorsSafe ==
    /\ \A j \in Jobs : ToldUpTo(j, cursor[j])
    /\ \A r \in Runs : \A l \in todo[r] : ToldUpTo(l.job, l.cursor)
    /\ \A r \in Runs : pc[r] = "page" => ToldUpTo(hand[r].of.job, hand[r].of.cursor)

\* Of the followers above the listed cursor a page leaves out only those above
\* its last one, and none when it is not full.
Covers(h) ==
    \A u \in steady[h.of.job] : (u > h.of.cursor /\ u \notin h.users) => /\ ~Drained(h.users)
                                                                       /\ u > h.last

PagesComplete == \A r \in Runs : pc[r] = "page" => Covers(hand[r])

IInv == TypeOK /\ Unwritten /\ SteadyEligible /\ CursorsSafe /\ PagesComplete /\ NoFollowerMissed

-----------------------------------------------------------------------------
\* The queries of a statement chunked by b rows are a whole number.
LEMMA CeilType == ASSUME NEW a \in Nat, NEW b \in Nat \ {0} PROVE Ceil(a, b) \in Int
BY DEF Ceil

\* User ids are numbers.
LEMMA CursorType == Users \cup {0} \subseteq Nat
BY FanoutAssumption DEF FanoutAssumption

\* A set of users has a whole number of members.
LEMMA PageSizeType == ASSUME NEW P \in SUBSET Users PROVE Cardinality(P) \in Nat
BY FanoutAssumption, FS_Subset, FS_CardinalityType DEF FanoutAssumption

LEMMA NoPageType == NoPage \in [of : Listing, users : SUBSET Users, last : Users \cup {0}]
BY FanoutAssumption DEF FanoutAssumption, NoPage, Listing

\* The initial state satisfies the invariant.
LEMMA InitInv == Init => IInv
<1> SUFFICES ASSUME Init PROVE IInv
  OBVIOUS
<1>1. TypeOK
  BY NoPageType DEF Init, TypeOK
<1>2. Unwritten
  BY DEF Init, Unwritten
<1>3. SteadyEligible
  BY DEF Init, SteadyEligible
<1>4. CursorsSafe
  BY DEF Init, CursorsSafe, ToldUpTo
<1>5. PagesComplete
  BY DEF Init, PagesComplete
<1>6. NoFollowerMissed
  BY DEF Init, NoFollowerMissed
<1> QED BY <1>1, <1>2, <1>3, <1>4, <1>5, <1>6 DEF IInv

\* Runs may list, end or stop: what is told, who is followed and the jobs stay.
\* Listings and pages in hand are old ones or copies of the stored cursor.
LEMMA RunOnly ==
    ASSUME IInv, TypeOK', UNCHANGED <<follow, jobVars, inbox, steady>>,
           \A r \in Runs : todo'[r] \subseteq todo[r] \cup OpenListings,
           \A r \in Runs : pc'[r] = "page" => pc[r] = "page" /\ hand'[r] = hand[r]
    PROVE  IInv'
<1>1. Unwritten'
  BY DEF IInv, Unwritten, OpenListings, Open, jobVars
<1>2. SteadyEligible'
  BY DEF IInv, SteadyEligible, Eligible, jobVars
<1>3. CursorsSafe'
  <2>1. \A j \in Jobs : ToldUpTo(j, cursor[j])'
    BY DEF IInv, CursorsSafe, ToldUpTo, jobVars
  <2>2. ASSUME NEW r \in Runs, NEW l \in todo'[r] PROVE ToldUpTo(l.job, l.cursor)'
    <3>1. CASE l \in todo[r]
      BY <3>1 DEF IInv, CursorsSafe, ToldUpTo
    <3>2. CASE l \in OpenListings
      BY <3>2 DEF IInv, CursorsSafe, ToldUpTo, OpenListings, Open
    <3> QED BY <2>2, <3>1, <3>2
  <2>3. \A r \in Runs : pc'[r] = "page" => ToldUpTo(hand[r].of.job, hand[r].of.cursor)'
    BY DEF IInv, CursorsSafe, ToldUpTo
  <2> QED BY <2>1, <2>2, <2>3 DEF CursorsSafe
<1>4. PagesComplete'
  BY DEF IInv, PagesComplete, Covers
<1>5. NoFollowerMissed'
  BY DEF IInv, NoFollowerMissed, jobVars
<1> QED BY <1>1, <1>2, <1>3, <1>4, <1>5 DEF IInv

-----------------------------------------------------------------------------
\* Each kind of step keeps the type invariant.
LEMMA TypeStep == TypeOK /\ [Next]_vars => TypeOK'
<1> SUFFICES ASSUME TypeOK, [Next]_vars PROVE TypeOK'
  OBVIOUS
<1> USE FanoutAssumption DEF FanoutAssumption
<1>1. CASE Tick
  BY <1>1 DEF TypeOK, Tick, jobVars, runVars
<1>2. ASSUME NEW u \in Users, NEW d \in Dreps \cup {NoDrep}, NEW at \in 0..clock, Resolve(u, d, at)
      PROVE  TypeOK'
  BY <1>2 DEF TypeOK, Resolve, jobVars, runVars
<1>3. ASSUME NEW j \in Jobs, NEW at \in 0..clock, NEW event \in 0..clock, CreateJob(j, at, event)
      PROVE  TypeOK'
  BY <1>3 DEF TypeOK, CreateJob, runVars
<1>4. ASSUME NEW r \in Runs, StartRun(r) PROVE TypeOK'
  BY <1>4 DEF TypeOK, StartRun, jobVars
<1>5. ASSUME NEW r \in Runs, ListJobs(r) PROVE TypeOK'
  <2>1. OpenListings \subseteq Listing
    <3>1. ASSUME NEW j \in Open PROVE [job |-> j, cursor |-> cursor[j], updated |-> updated[j]] \in Listing
      <4>1. j \in Jobs
        BY DEF Open
      <4>2. cursor[j] \in Users \cup {0} /\ updated[j] \in Nat
        BY <4>1 DEF TypeOK
      <4>3. cursor[j] \in Nat
        BY <4>2, CursorType
      <4> QED BY <4>1, <4>2, <4>3 DEF Listing
    <3> QED BY <3>1, Zenon DEF OpenListings
  <2>2. /\ left' \in [Runs -> Int]
        /\ listed' \in [Runs -> SUBSET Jobs]
        /\ UNCHANGED <<clock, follow, jobVars, inbox, now, hand, moves, faults, steady>>
    <3>1. Open \subseteq Jobs
      BY DEF Open
    <3>2. left[r] - 1 \in Int /\ left' = [left EXCEPT ![r] = left[r] - 1]
      BY <1>5 DEF TypeOK, ListJobs
    <3>3. left' \in [Runs -> Int]
      BY <3>2 DEF TypeOK
    <3>4. listed[r] \cup Open \in SUBSET Jobs /\ listed' = [listed EXCEPT ![r] = listed[r] \cup Open]
      BY <1>5, <3>1 DEF TypeOK, ListJobs
    <3>5. listed' \in [Runs -> SUBSET Jobs]
      BY <3>4 DEF TypeOK
    <3>6. UNCHANGED <<clock, follow, jobVars, inbox, now, hand, moves, faults, steady>>
      BY <1>5 DEF ListJobs
    <3> QED BY <3>3, <3>5, <3>6
  <2>3. CASE Open = {}
    <3>1. /\ pc' = [pc EXCEPT ![r] = "idle"]
          /\ deferred' = [deferred EXCEPT ![r] = FALSE]
          /\ UNCHANGED <<todo, truncated, allCompleted>>
      BY <1>5, <2>3 DEF ListJobs, EndRun
    <3> QED BY <2>2, <3>1 DEF TypeOK, jobVars
  <2>4. CASE Open # {}
    <3>1. PICK S \in SUBSET OpenListings : /\ todo' = [todo EXCEPT ![r] = S]
                                           /\ truncated' = [truncated EXCEPT ![r] = Cut(S)]
      BY <1>5, <2>4 DEF ListJobs
    <3>2. Cut(S) \in BOOLEAN
      BY DEF Cut
    <3>3. todo' \in [Runs -> SUBSET Listing] /\ truncated' \in [Runs -> BOOLEAN]
      BY <2>1, <3>1, <3>2 DEF TypeOK
    <3>4. /\ pc' = [pc EXCEPT ![r] = "jobs"]
          /\ allCompleted' = [allCompleted EXCEPT ![r] = TRUE]
          /\ UNCHANGED deferred
      BY <1>5, <2>4 DEF ListJobs
    <3> QED BY <2>2, <3>3, <3>4 DEF TypeOK, jobVars
  <2> QED BY <2>3, <2>4
<1>6. ASSUME NEW r \in Runs, Defer(r) PROVE TypeOK'
  BY <1>6 DEF TypeOK, Defer, EndRun, jobVars
<1>7. ASSUME NEW r \in Runs, ReadPage(r) PROVE TypeOK'
  BY <1>7 DEF TypeOK, ReadPage, jobVars
<1>8. ASSUME NEW r \in Runs, CommitPage(r) PROVE TypeOK'
  <2> DEFINE P == hand[r].users
             j == hand[r].of.job
  <2>1. P \in SUBSET Users /\ j \in Jobs /\ hand[r].last \in Users \cup {0}
    BY DEF TypeOK, Listing
  <2>2. inbox' \in [Users -> [Jobs -> Nat]]
    <3>1. ASSUME NEW u \in Users
          PROVE  [inbox[u] EXCEPT ![j] = IF u \in P /\ @ = 0 THEN 1 ELSE @] \in [Jobs -> Nat]
      <4>1. inbox[u] \in [Jobs -> Nat]
        BY DEF TypeOK
      <4> QED BY <2>1, <4>1
    <3> QED BY <1>8, <3>1, Zenon DEF CommitPage, Insert
  <2>3. left' \in [Runs -> Int]
    <3>1. Cardinality(P) \in Nat
      BY <2>1, PageSizeType
    <3>2. Ceil(Cardinality(P), InsertChunk) \in Int
      BY <3>1, CeilType
    <3> QED BY <1>8, <3>2 DEF TypeOK, CommitPage
  <2>4. allCompleted' \in [Runs -> BOOLEAN]
    BY <1>8 DEF TypeOK, CommitPage, Drained
  <2>5. /\ status' \in [Jobs -> {"absent", "open", "done"}]
        /\ cursor' \in [Jobs -> Users \cup {0}]
        /\ updated' \in [Jobs -> Nat]
    BY <1>8, <2>1 DEF TypeOK, CommitPage, StepJob
  <2>6. hand' \in [Runs -> [of : Listing, users : SUBSET Users, last : Users \cup {0}]]
    BY <1>8, NoPageType DEF TypeOK, CommitPage
  <2> QED BY <1>8, <2>2, <2>3, <2>4, <2>5, <2>6 DEF TypeOK, CommitPage
<1>9. ASSUME NEW r \in Runs, EndPass(r) PROVE TypeOK'
  BY <1>9 DEF TypeOK, EndPass, EndRun, jobVars
<1>10. ASSUME NEW r \in Runs, Abort(r) PROVE TypeOK'
  BY <1>10, NoPageType DEF TypeOK, Abort, EndRun, jobVars
<1>11. CASE UNCHANGED vars
  BY <1>11 DEF TypeOK, vars, jobVars, runVars
<1> QED BY <1>1, <1>2, <1>3, <1>4, <1>5, <1>6, <1>7, <1>8, <1>9, <1>10, <1>11 DEF Next, RunStep

-----------------------------------------------------------------------------
\* A follow that changes takes its user out of every steady audience.
LEMMA ResolveInv ==
    ASSUME IInv, TypeOK', NEW u \in Users, NEW d \in Dreps \cup {NoDrep}, NEW at \in 0..clock,
           Resolve(u, d, at)
    PROVE  IInv'
<1> USE DEF Resolve, jobVars, runVars
<1>1. \A j \in Jobs : steady'[j] = steady[j] \ {u}
  BY DEF IInv, TypeOK
<1>2. Unwritten'
  BY <1>1 DEF IInv, Unwritten
<1>3. SteadyEligible'
  BY <1>1 DEF IInv, TypeOK, SteadyEligible, Eligible
<1>4. CursorsSafe'
  <2>1. \A j \in Jobs : \A c \in Nat : ToldUpTo(j, c) => ToldUpTo(j, c)'
    BY <1>1 DEF ToldUpTo
  <2>2. \A r \in Runs : hand[r].of.job \in Jobs /\ hand[r].of.cursor \in Nat
    BY DEF IInv, TypeOK, Listing
  <2>3. \A r \in Runs : \A l \in todo[r] : l.job \in Jobs /\ l.cursor \in Nat
    BY DEF IInv, TypeOK, Listing
  <2>4. \A j \in Jobs : cursor[j] \in Nat
    BY CursorType DEF IInv, TypeOK
  <2> QED BY <2>1, <2>2, <2>3, <2>4 DEF IInv, CursorsSafe
<1>5. PagesComplete'
  <2>1. \A r \in Runs : hand[r].of.job \in Jobs
    BY DEF IInv, TypeOK, Listing
  <2> QED BY <1>1, <2>1 DEF IInv, PagesComplete, Covers
<1>6. NoFollowerMissed'
  BY <1>1 DEF IInv, NoFollowerMissed
<1> QED BY <1>2, <1>3, <1>4, <1>5, <1>6 DEF IInv

\* A new job starts below every user, and no run has seen it.
LEMMA CreateInv ==
    ASSUME IInv, TypeOK', NEW j \in Jobs, NEW at \in 0..clock, NEW event \in 0..clock,
           CreateJob(j, at, event)
    PROVE  IInv'
<1> USE DEF CreateJob, runVars
<1>1. /\ cursor[j] = 0
      /\ \A r \in Runs : /\ \A l \in todo[r] : l.job # j
                         /\ pc[r] = "page" => hand[r].of.job # j
  BY DEF IInv, Unwritten
<1>2. /\ status'[j] = "open"
      /\ \A k \in Jobs \ {j} : status'[k] = status[k] /\ steady'[k] = steady[k] /\ src'[k] = src[k]
  BY DEF IInv, TypeOK
<1>3. Unwritten'
  BY <1>2 DEF IInv, Unwritten
<1>4. SteadyEligible'
  <2>1. steady'[j] = {u \in Users : follow[u].drep = Subject[j] /\ follow[u].set <= event} /\ src'[j] = event
    BY DEF IInv, TypeOK
  <2> QED BY <1>2, <2>1 DEF IInv, SteadyEligible, Eligible
<1>5. CursorsSafe'
  <2>1. \A u \in Users : ~(u <= 0)
    BY FanoutAssumption DEF FanoutAssumption
  <2>2. ToldUpTo(j, cursor[j])'
    BY <1>1, <2>1 DEF ToldUpTo, IInv, TypeOK
  <2>3. \A k \in Jobs \ {j} : ToldUpTo(k, cursor[k])'
    BY <1>2 DEF IInv, CursorsSafe, ToldUpTo
  <2>4. ASSUME NEW r \in Runs, NEW l \in todo[r] PROVE ToldUpTo(l.job, l.cursor)'
    <3>1. l.job \in Jobs \ {j}
      BY <1>1 DEF IInv, TypeOK, Listing
    <3> QED BY <1>2, <3>1 DEF IInv, CursorsSafe, ToldUpTo
  <2>5. ASSUME NEW r \in Runs, pc[r] = "page" PROVE ToldUpTo(hand[r].of.job, hand[r].of.cursor)'
    <3>1. hand[r].of.job \in Jobs \ {j}
      BY <1>1, <2>5 DEF IInv, TypeOK, Listing
    <3> QED BY <1>2, <2>5, <3>1 DEF IInv, CursorsSafe, ToldUpTo
  <2> QED BY <2>2, <2>3, <2>4, <2>5 DEF CursorsSafe
<1>6. PagesComplete'
  <2>1. ASSUME NEW r \in Runs, pc[r] = "page" PROVE Covers(hand[r])'
    <3>1. hand[r].of.job \in Jobs \ {j}
      BY <1>1, <2>1 DEF IInv, TypeOK, Listing
    <3> QED BY <1>2, <2>1, <3>1 DEF IInv, PagesComplete, Covers
  <2> QED BY <2>1 DEF PagesComplete
<1>7. NoFollowerMissed'
  BY <1>2 DEF IInv, NoFollowerMissed
<1> QED BY <1>3, <1>4, <1>5, <1>6, <1>7 DEF IInv

\* A page leaves out nobody it should hold: its members are the lowest eligible
\* users above the listed cursor, all of them when it is not full.
LEMMA ReadPageInv ==
    ASSUME IInv, TypeOK', NEW r \in Runs, ReadPage(r)
    PROVE  IInv'
<1>1. PICK l \in todo[r], P \in SUBSET Users, u \in Users \cup {0} :
        /\ PageOf(l, P) /\ IsLast(P, u)
        /\ todo' = [todo EXCEPT ![r] = @ \ {l}]
        /\ hand' = [hand EXCEPT ![r] = [of |-> l, users |-> P, last |-> u]]
  BY DEF ReadPage
<1>2. /\ UNCHANGED <<follow, jobVars, inbox, steady>>
      /\ pc' = [pc EXCEPT ![r] = "page"]
  BY DEF ReadPage
<1>3. /\ l \in Listing
      /\ l.job \in Jobs /\ l.cursor \in Nat
      /\ status[l.job] # "absent"
      /\ ToldUpTo(l.job, l.cursor)
  BY DEF IInv, TypeOK, Listing, CursorsSafe, Unwritten
<1>4. /\ hand'[r] = [of |-> l, users |-> P, last |-> u]
      /\ \A q \in Runs \ {r} : hand'[q] = hand[q] /\ pc'[q] = pc[q]
      /\ \A q \in Runs : todo'[q] \subseteq todo[q]
  BY <1>1, <1>2 DEF IInv, TypeOK
<1>5. Unwritten'
  BY <1>2, <1>3, <1>4 DEF IInv, Unwritten, jobVars
<1>6. SteadyEligible'
  BY <1>2 DEF IInv, SteadyEligible, Eligible, jobVars
<1>7. CursorsSafe'
  <2>1. \A j \in Jobs : ToldUpTo(j, cursor[j])'
    BY <1>2 DEF IInv, CursorsSafe, ToldUpTo, jobVars
  <2>2. \A q \in Runs : \A m \in todo'[q] : ToldUpTo(m.job, m.cursor)'
    BY <1>2, <1>4 DEF IInv, CursorsSafe, ToldUpTo
  <2>3. \A q \in Runs : pc'[q] = "page" => ToldUpTo(hand[q].of.job, hand[q].of.cursor)'
    BY <1>2, <1>3, <1>4 DEF IInv, CursorsSafe, ToldUpTo
  <2> QED BY <2>1, <2>2, <2>3 DEF CursorsSafe
<1>8. PagesComplete'
  <2>1. ASSUME NEW v \in steady[l.job], v > l.cursor, v \notin P PROVE ~Drained(P) /\ v > u
    <3> DEFINE E == {w \in Eligible(l.job) : w > l.cursor}
    <3>1. v \in E
      BY <1>3, <2>1 DEF IInv, SteadyEligible
    <3>2. P # E /\ Cardinality(P) = PageSize /\ \A w \in P : w < v
      BY <1>1, <2>1, <3>1 DEF PageOf
    <3>3. PageSize \in Nat \ {0}
      BY FanoutAssumption DEF FanoutAssumption
    <3>4. P # {}
      BY <3>2, <3>3, FS_EmptySet
    <3>5. u \in P
      BY <1>1, <3>4 DEF IsLast
    <3>6. u \in Nat /\ v \in Nat
      <4>1. v \in Users
        BY <1>3 DEF IInv, TypeOK
      <4> QED BY <4>1, CursorType
    <3> QED BY <3>2, <3>3, <3>5, <3>6 DEF Drained
  <2>2. Covers(hand[r])'
    BY <1>2, <1>4, <2>1 DEF Covers
  <2>3. \A q \in Runs \ {r} : pc'[q] = "page" => Covers(hand[q])'
    BY <1>2, <1>4 DEF IInv, PagesComplete, Covers
  <2> QED BY <2>2, <2>3 DEF PagesComplete
<1>9. NoFollowerMissed'
  BY <1>2 DEF IInv, NoFollowerMissed, jobVars
<1> QED BY <1>5, <1>6, <1>7, <1>8, <1>9 DEF IInv

\* The batch tells everyone on the page before the cursor passes them or the
\* job is done.
LEMMA CommitPageInv ==
    ASSUME IInv, TypeOK', NEW r \in Runs, CommitPage(r)
    PROVE  IInv'
<1>0. PICK h \in [of : Listing, users : SUBSET Users, last : Users \cup {0}] : h = hand[r]
  BY DEF IInv, TypeOK
<1> DEFINE P == h.users
           l == h.of
           j == l.job
<1>1. /\ pc[r] = "page" /\ pc' = [pc EXCEPT ![r] = "jobs"]
      /\ inbox' = Insert(P, j)
      /\ StepJob(j, h, now[r])
      /\ hand' = [hand EXCEPT ![r] = NoPage]
      /\ UNCHANGED <<follow, src, todo, steady>>
  BY <1>0 DEF CommitPage
<1>2. /\ l \in Listing /\ j \in Jobs /\ l.cursor \in Nat
      /\ P \in SUBSET Users
      /\ h.last \in Users \cup {0}
  BY DEF Listing
<1>3. /\ status[j] # "absent"
      /\ ToldUpTo(j, l.cursor)
      /\ Covers(h)
  BY <1>0, <1>1, <1>2 DEF IInv, Unwritten, CursorsSafe, PagesComplete
<1>4. \A u \in Users, k \in Jobs : (inbox[u][k] > 0 \/ (k = j /\ u \in P)) => inbox'[u][k] > 0
  <2>1. ASSUME NEW u \in Users, NEW k \in Jobs
        PROVE  inbox'[u][k] = IF k = j /\ u \in P /\ inbox[u][k] = 0 THEN 1 ELSE inbox[u][k]
    <3>1. inbox[u] \in [Jobs -> Nat] /\ inbox \in [Users -> [Jobs -> Nat]]
      BY DEF IInv, TypeOK
    <3>2. inbox'[u] = [inbox[u] EXCEPT ![j] = IF u \in P /\ @ = 0 THEN 1 ELSE @]
      BY <1>1 DEF Insert
    <3> QED BY <1>2, <3>1, <3>2
  <2> QED BY <2>1 DEF IInv, TypeOK
<1>5. \A q \in Runs : pc'[q] = "page" => q # r /\ pc[q] = "page" /\ hand'[q] = hand[q]
  BY <1>1 DEF IInv, TypeOK
<1>6. /\ \A k \in Jobs \ {j} : status'[k] = status[k] /\ cursor'[k] = cursor[k]
      /\ \/ status'[j] = status[j] /\ cursor'[j] = h.last /\ ~Drained(P)
         \/ status'[j] = "done" /\ cursor'[j] = cursor[j] /\ Drained(P)
  <2>1. /\ cursor \in [Jobs -> Users \cup {0}]
        /\ status \in [Jobs -> {"absent", "open", "done"}]
    BY DEF IInv, TypeOK
  <2>2. CASE Drained(P)
    BY <1>1, <1>2, <2>1, <2>2 DEF StepJob
  <2>3. CASE ~Drained(P)
    BY <1>1, <1>2, <2>1, <2>3 DEF StepJob
  <2> QED BY <2>2, <2>3
<1>7. \A k \in Jobs : steady[k] \subseteq Users
  BY DEF IInv, TypeOK
<1>8. \A k \in Jobs : \A c \in Nat : ToldUpTo(k, c) => ToldUpTo(k, c)'
  BY <1>1, <1>4, <1>7 DEF ToldUpTo
<1>9. ASSUME NEW u \in steady[j], Drained(P) \/ u <= h.last PROVE inbox'[u][j] > 0
  <2>1. u \in Users /\ u \in Nat /\ h.last \in Nat /\ l.cursor \in Nat
    BY <1>2, <1>7, CursorType
  <2>2. CASE u <= l.cursor
    BY <1>2, <1>3, <1>4, <2>1, <2>2 DEF ToldUpTo
  <2>3. CASE u > l.cursor
    <3>1. u \in P
      BY <1>3, <1>9, <2>1, <2>3 DEF Covers
    <3> QED BY <1>2, <1>4, <2>1, <3>1
  <2> QED BY <2>1, <2>2, <2>3
<1>10. Unwritten'
  BY <1>1, <1>3, <1>5, <1>6 DEF IInv, Unwritten
<1>11. SteadyEligible'
  BY <1>1 DEF IInv, SteadyEligible, Eligible
<1>12. CursorsSafe'
  <2>1. \A k \in Jobs : cursor[k] \in Nat
    BY CursorType DEF IInv, TypeOK
  <2>2. \A k \in Jobs \ {j} : ToldUpTo(k, cursor[k])'
    BY <1>6, <1>8, <2>1 DEF IInv, CursorsSafe, ToldUpTo
  <2>3. ToldUpTo(j, cursor[j])'
    <3>1. CASE cursor'[j] = cursor[j]
      <4>1. ToldUpTo(j, cursor[j]) /\ cursor[j] \in Nat
        BY <1>2, <2>1 DEF IInv, CursorsSafe
      <4> QED BY <1>1, <1>2, <1>4, <1>7, <3>1, <4>1 DEF ToldUpTo
    <3>2. CASE cursor'[j] = h.last
      BY <1>1, <1>9, <3>2 DEF ToldUpTo
    <3> QED BY <1>6, <3>1, <3>2
  <2>4. ASSUME NEW q \in Runs, NEW m \in todo'[q] PROVE ToldUpTo(m.job, m.cursor)'
    <3>1. m \in todo[q] /\ m.job \in Jobs /\ m.cursor \in Nat
      BY <1>1 DEF IInv, TypeOK, Listing
    <3>2. ToldUpTo(m.job, m.cursor)
      BY <3>1 DEF IInv, CursorsSafe
    <3> QED BY <1>8, <3>1, <3>2
  <2>5. ASSUME NEW q \in Runs, pc'[q] = "page" PROVE ToldUpTo(hand[q].of.job, hand[q].of.cursor)'
    <3>1. pc[q] = "page" /\ hand'[q] = hand[q]
      BY <1>5, <2>5
    <3>2. PICK k \in Jobs, c \in Nat : k = hand[q].of.job /\ c = hand[q].of.cursor
      BY DEF IInv, TypeOK, Listing
    <3>3. ToldUpTo(k, c)
      BY <3>1, <3>2 DEF IInv, CursorsSafe
    <3>4. ToldUpTo(k, c)'
      BY <1>8, <3>3
    <3> QED BY <3>1, <3>2, <3>4 DEF ToldUpTo
  <2> QED BY <2>2, <2>3, <2>4, <2>5 DEF CursorsSafe
<1>13. PagesComplete'
  BY <1>1, <1>5 DEF IInv, PagesComplete, Covers
<1>14. NoFollowerMissed'
  <2>1. ASSUME NEW k \in Jobs, status'[k] = "done", NEW u \in steady'[k] PROVE inbox'[u][k] > 0
    <3>1. CASE status[k] = "done"
      BY <1>1, <1>4, <1>7, <2>1, <3>1 DEF IInv, NoFollowerMissed
    <3>2. CASE status[k] # "done"
      BY <1>1, <1>6, <1>9, <2>1, <3>2
    <3> QED BY <3>1, <3>2
  <2> QED BY <2>1 DEF NoFollowerMissed
<1> QED BY <1>10, <1>11, <1>12, <1>13, <1>14 DEF IInv

-----------------------------------------------------------------------------
\* Every step keeps the invariant.
LEMMA StepInv == IInv /\ [Next]_vars => IInv'
<1> SUFFICES ASSUME IInv, [Next]_vars PROVE IInv'
  OBVIOUS
<1>0. TypeOK'
  BY TypeStep DEF IInv
<1>1. CASE Tick
  BY <1>0, <1>1, RunOnly DEF Tick, runVars
<1>2. ASSUME NEW u \in Users, NEW d \in Dreps \cup {NoDrep}, NEW at \in 0..clock, Resolve(u, d, at)
      PROVE  IInv'
  BY <1>0, <1>2, ResolveInv
<1>3. ASSUME NEW j \in Jobs, NEW at \in 0..clock, NEW event \in 0..clock, CreateJob(j, at, event)
      PROVE  IInv'
  BY <1>0, <1>3, CreateInv
<1>4. ASSUME NEW r \in Runs, StartRun(r) \/ Defer(r) \/ EndPass(r) PROVE IInv'
  <2>1. /\ UNCHANGED <<follow, jobVars, inbox, steady, todo, hand>>
        /\ \A q \in Runs : pc'[q] = "page" => pc[q] = "page"
    BY <1>4 DEF StartRun, Defer, EndPass, EndRun, IInv, TypeOK
  <2> QED BY <1>0, <2>1, RunOnly
<1>5. ASSUME NEW r \in Runs, ListJobs(r) PROVE IInv'
  <2>1. /\ UNCHANGED <<follow, jobVars, inbox, steady, hand>>
        /\ \A q \in Runs : pc'[q] = "page" => pc[q] = "page"
    BY <1>5 DEF ListJobs, EndRun, IInv, TypeOK
  <2>2. \A q \in Runs : todo'[q] \subseteq todo[q] \cup OpenListings
    <3>1. CASE todo' = todo
      BY <3>1
    <3>2. CASE \E S \in SUBSET OpenListings : todo' = [todo EXCEPT ![r] = S]
      BY <3>2 DEF IInv, TypeOK
    <3> QED BY <1>5, <3>1, <3>2 DEF ListJobs
  <2> QED BY <1>0, <2>1, <2>2, RunOnly
<1>6. ASSUME NEW r \in Runs, ReadPage(r) PROVE IInv'
  BY <1>0, <1>6, ReadPageInv
<1>7. ASSUME NEW r \in Runs, CommitPage(r) PROVE IInv'
  BY <1>0, <1>7, CommitPageInv
<1>8. ASSUME NEW r \in Runs, Abort(r) PROVE IInv'
  <2>1. /\ UNCHANGED <<follow, jobVars, inbox, steady>>
        /\ \A q \in Runs : pc'[q] = "page" => pc[q] = "page" /\ hand'[q] = hand[q]
        /\ \A q \in Runs : todo'[q] \subseteq todo[q]
    BY <1>8 DEF Abort, EndRun, IInv, TypeOK
  <2> QED BY <1>0, <2>1, RunOnly
<1>9. CASE UNCHANGED vars
  BY <1>0, <1>9, RunOnly DEF vars, runVars
<1> QED BY <1>1, <1>2, <1>3, <1>4, <1>5, <1>6, <1>7, <1>8, <1>9 DEF Next, RunStep

\* Every variable keeps its type.
THEOREM TypeCorrect == Spec => []TypeOK
<1>1. Init => TypeOK
  BY InitInv DEF IInv
<1> QED BY <1>1, TypeStep, PTL DEF Spec

\* A completed job reached everyone who followed its DRep when it was written and
\* ever since: processOnePage and the unguarded cursor step of fanoutJobs.ts miss
\* nobody, for any number of followers, jobs, overlapping runs and evictions.
THEOREM NobodyMissed == Spec => []NoFollowerMissed
<1>1. IInv => NoFollowerMissed
  BY DEF IInv
<1> QED BY InitInv, StepInv, <1>1, PTL DEF Spec

\* Nor does the cursor of an open job ever stand past a steady follower who was
\* not told.
THEOREM NobodyPassed == Spec => []NoFollowerPassed
<1>1. IInv => NoFollowerPassed
  BY DEF IInv, CursorsSafe, ToldUpTo, NoFollowerPassed
<1> QED BY InitInv, StepInv, <1>1, PTL DEF Spec

\* The unique index lets an event into an inbox once, whatever runs overlap.
THEOREM NobodyToldTwice == Spec => []ToldOnce
<1>1. Init => ToldOnce
  BY DEF Init, ToldOnce
<1>2. TypeOK /\ ToldOnce /\ [Next]_vars => ToldOnce'
  <2> SUFFICES ASSUME TypeOK, ToldOnce, [Next]_vars PROVE ToldOnce'
    OBVIOUS
  <2>1. ASSUME NEW r \in Runs, CommitPage(r), NEW u \in Users, NEW k \in Jobs
        PROVE  inbox'[u][k] <= 1
    <3> DEFINE j == hand[r].of.job
    <3>1. inbox[u] \in [Jobs -> Nat] /\ inbox[u][k] <= 1 /\ j \in Jobs
      BY DEF TypeOK, ToldOnce, Listing
    <3>2. inbox'[u] = [inbox[u] EXCEPT ![j] = IF u \in hand[r].users /\ @ = 0 THEN 1 ELSE @]
      BY <2>1 DEF CommitPage, Insert
    <3> QED BY <3>1, <3>2
  <2>2. CASE \E r \in Runs : CommitPage(r)
    BY <2>1, <2>2 DEF ToldOnce
  <2>3. CASE UNCHANGED inbox
    BY <2>3 DEF ToldOnce
  <2> QED BY <2>2, <2>3 DEF Next, RunStep, Tick, Resolve, CreateJob, StartRun, ListJobs, Defer,
                            ReadPage, EndPass, Abort, vars
<1> QED BY <1>1, <1>2, TypeCorrect, PTL DEF Spec

-----------------------------------------------------------------------------
(* The allowance of queries.  What a listing may cost is set aside when it *)
(* is read: a pass that is at its jobs has a whole page left for each, and *)
(* one with a page in hand also the rest of that page.                     *)

Rest == Ceil(PageSize, InsertChunk) + 1

Budget ==
    \A r \in Runs :
        /\ IsFiniteSet(todo[r]) /\ left[r] >= 0
        /\ pc[r] = "jobs" => left[r] >= PageCost * Cardinality(todo[r])
        /\ pc[r] = "page" => /\ Cardinality(hand[r].users) <= PageSize
                             /\ left[r] >= PageCost * Cardinality(todo[r]) + Rest

\* A page costs its select and the rest.
LEMMA CostType == Rest \in Nat /\ Rest >= 1 /\ PageCost = Rest + 1
<1>1. PageSize + InsertChunk - 1 \in Nat /\ InsertChunk \in Nat \ {0}
  BY FanoutAssumption DEF FanoutAssumption
<1>2. Ceil(PageSize, InsertChunk) \in Nat
  BY <1>1 DEF Ceil
<1> QED BY <1>2 DEF Rest, PageCost

\* Fewer rows take no more queries.
LEMMA CeilMonotone == ASSUME NEW n \in Nat, n <= PageSize PROVE Ceil(n, InsertChunk) \in Nat /\ Ceil(n, InsertChunk) <= Ceil(PageSize, InsertChunk)
<1>1. n + InsertChunk - 1 \in Nat /\ PageSize + InsertChunk - 1 \in Nat /\ InsertChunk \in Nat \ {0}
  BY FanoutAssumption DEF FanoutAssumption
<1>2. n + InsertChunk - 1 <= PageSize + InsertChunk - 1
  BY FanoutAssumption DEF FanoutAssumption
<1> QED BY <1>1, <1>2 DEF Ceil

\* What is affordable is paid for by what is left after the listing.
LEMMA AffordablePaid ==
    ASSUME TypeOK, NEW r \in Runs, left[r] >= 1 + PageCost
    PROVE  Affordable(r) \in Nat /\ PageCost * Affordable(r) <= left[r] - 1
<1>1. left[r] - 1 \in Nat /\ PageCost \in Nat \ {0}
  BY CostType DEF TypeOK
<1> QED BY <1>1 DEF Affordable

\* There are finitely many jobs to list.
LEMMA ListingsFinite == IsFiniteSet(OpenListings)
<1>1. IsFiniteSet(Open)
  BY FanoutAssumption, FS_Subset DEF FanoutAssumption, Open
<1> DEFINE f == [j \in Open |-> [job |-> j, cursor |-> cursor[j], updated |-> updated[j]]]
<1>2. f \in Surjection(Open, OpenListings)
  BY DEF OpenListings, Surjection
<1> HIDE DEF f
<1> QED BY <1>1, <1>2, FS_Surjection

LEMMA BudgetListing == ASSUME TypeOK, Budget, NEW r \in Runs, ListJobs(r) PROVE Budget'
<1>1. /\ left' = [left EXCEPT ![r] = left[r] - 1] /\ left[r] >= 1 + PageCost /\ pc[r] = "list" /\ UNCHANGED hand
  BY DEF ListJobs
<1>2. left'[r] = left[r] - 1 /\ left'[r] >= 0 /\ \A q \in Runs \ {r} : left'[q] = left[q]
  BY <1>1, CostType DEF TypeOK
<1>3. CASE Open = {}
  <2>1. pc'[r] = "idle" /\ UNCHANGED todo /\ \A q \in Runs \ {r} : pc'[q] = pc[q]
    BY <1>3 DEF ListJobs, EndRun, TypeOK
  <2> QED BY <1>1, <1>2, <2>1 DEF Budget
<1>4. ASSUME NEW S \in SUBSET OpenListings, todo' = [todo EXCEPT ![r] = S], pc' = [pc EXCEPT ![r] = "jobs"],
             (S = OpenListings /\ Cardinality(S) <= Affordable(r)) \/ Cardinality(S) = Affordable(r)
      PROVE  Budget'
  <2>1. /\ todo'[r] = S /\ pc'[r] = "jobs" /\ \A q \in Runs \ {r} : todo'[q] = todo[q] /\ pc'[q] = pc[q]
    BY <1>4 DEF TypeOK
  <2>2. IsFiniteSet(S) /\ Cardinality(S) \in Nat
    BY ListingsFinite, FS_Subset, FS_CardinalityType
  <2>3. Affordable(r) \in Nat /\ PageCost * Affordable(r) <= left[r] - 1 /\ Cardinality(S) <= Affordable(r)
    BY <1>1, <1>4, <2>2, AffordablePaid
  <2>4. PageCost * Cardinality(S) <= PageCost * Affordable(r)
    BY <2>2, <2>3, CostType
  <2>5. left[r] - 1 >= PageCost * Cardinality(S)
    BY <2>2, <2>3, <2>4, CostType DEF TypeOK
  <2> QED BY <1>1, <1>2, <2>1, <2>2, <2>5 DEF Budget
<1> QED BY <1>3, <1>4 DEF ListJobs

LEMMA BudgetRead == ASSUME TypeOK, Budget, NEW r \in Runs, ReadPage(r) PROVE Budget'
<1>1. PICK l \in todo[r], P \in SUBSET Users, u \in Users \cup {0} :
        /\ PageOf(l, P)
        /\ todo' = [todo EXCEPT ![r] = todo[r] \ {l}]
        /\ hand' = [hand EXCEPT ![r] = [of |-> l, users |-> P, last |-> u]]
  BY DEF ReadPage
<1>2. /\ pc[r] = "jobs" /\ pc' = [pc EXCEPT ![r] = "page"] /\ left' = [left EXCEPT ![r] = left[r] - 1]
      /\ left[r] \in Int
  BY DEF ReadPage, TypeOK
<1>3. /\ todo'[r] = todo[r] \ {l} /\ hand'[r].users = P /\ pc'[r] = "page" /\ left'[r] = left[r] - 1
      /\ \A q \in Runs \ {r} : todo'[q] = todo[q] /\ hand'[q] = hand[q] /\ pc'[q] = pc[q] /\ left'[q] = left[q]
  BY <1>1, <1>2 DEF TypeOK
<1>4. Cardinality(P) <= PageSize
  BY <1>1, PageSizeType, FanoutAssumption DEF PageOf, FanoutAssumption
<1>5. /\ IsFiniteSet(todo[r] \ {l}) /\ Cardinality(todo[r] \ {l}) \in Nat
      /\ Cardinality(todo[r]) = Cardinality(todo[r] \ {l}) + 1
  <2>1. IsFiniteSet(todo[r]) /\ l \in todo[r]
    BY <1>1 DEF Budget
  <2>2. IsFiniteSet(todo[r] \ {l}) /\ Cardinality(todo[r] \ {l}) = Cardinality(todo[r]) - 1
    BY <2>1, FS_RemoveElement
  <2>3. Cardinality(todo[r]) \in Nat /\ Cardinality(todo[r] \ {l}) \in Nat
    BY <2>1, <2>2, FS_CardinalityType
  <2> QED BY <2>2, <2>3
<1>6. left[r] - 1 >= PageCost * Cardinality(todo[r] \ {l}) + Rest
  <2> DEFINE n == Cardinality(todo[r] \ {l})
  <2>1. left[r] >= PageCost * (n + 1)
    BY <1>2, <1>5 DEF Budget
  <2>2. n \in Nat
    BY <1>5
  <2> HIDE DEF n
  <2>3. PageCost * (n + 1) = PageCost * n + PageCost /\ PageCost * n \in Nat
    BY <2>2, CostType
  <2> QED BY <1>2, <2>1, <2>3, CostType DEF n
<1>7. left[r] - 1 >= 0
  <2>1. PageCost * Cardinality(todo[r] \ {l}) \in Nat
    BY <1>5, CostType
  <2> QED BY <1>2, <1>6, <2>1, CostType
<1> QED BY <1>3, <1>4, <1>5, <1>6, <1>7 DEF Budget

LEMMA BudgetCommit == ASSUME TypeOK, Budget, NEW r \in Runs, CommitPage(r) PROVE Budget'
<1> DEFINE spent == Ceil(Cardinality(hand[r].users), InsertChunk) + 1
<1>1. /\ pc[r] = "page" /\ pc' = [pc EXCEPT ![r] = "jobs"] /\ UNCHANGED todo
      /\ left' = [left EXCEPT ![r] = left[r] - Ceil(Cardinality(hand[r].users), InsertChunk) - 1]
      /\ hand' = [hand EXCEPT ![r] = NoPage]
  BY DEF CommitPage
<1>2. Cardinality(hand[r].users) \in Nat /\ Cardinality(hand[r].users) <= PageSize
  BY <1>1, PageSizeType DEF TypeOK, Budget
<1>3. spent \in Nat /\ spent <= Rest
  <2>1. Ceil(Cardinality(hand[r].users), InsertChunk) \in Nat
    BY <1>2, CeilMonotone
  <2>2. Ceil(Cardinality(hand[r].users), InsertChunk) <= Ceil(PageSize, InsertChunk)
    BY <1>2, CeilMonotone
  <2>3. Ceil(PageSize, InsertChunk) \in Int
    BY CeilType, FanoutAssumption DEF FanoutAssumption
  <2> QED BY <2>1, <2>2, <2>3 DEF Rest
<1>4. left'[r] = left[r] - spent
  BY <1>1, <1>2, CeilMonotone DEF TypeOK
<1>5. /\ pc'[r] = "jobs"
      /\ \A q \in Runs \ {r} : hand'[q] = hand[q] /\ pc'[q] = pc[q] /\ left'[q] = left[q]
  BY <1>1 DEF TypeOK
<1> HIDE DEF spent
<1>6. IsFiniteSet(todo[r]) /\ Cardinality(todo[r]) \in Nat /\ left[r] >= PageCost * Cardinality(todo[r]) + Rest
  BY <1>1, FS_CardinalityType DEF Budget
<1>7. PageCost * Cardinality(todo[r]) \in Nat /\ left[r] \in Int
  BY <1>6, CostType DEF TypeOK
<1>8. left'[r] >= PageCost * Cardinality(todo[r]) /\ left'[r] >= 0
  BY <1>3, <1>4, <1>6, <1>7, CostType
<1> QED BY <1>1, <1>5, <1>8 DEF Budget

LEMMA BudgetStep == ASSUME TypeOK, Budget, [Next]_vars PROVE Budget'
<1>1. CASE UNCHANGED <<pc, left, todo, hand>>
  BY <1>1 DEF Budget
<1>2. ASSUME NEW r \in Runs, StartRun(r) PROVE Budget'
  <2>1. /\ pc'[r] = "list" /\ left'[r] = Allowance /\ UNCHANGED <<todo, hand>>
        /\ \A q \in Runs \ {r} : pc'[q] = pc[q] /\ left'[q] = left[q]
    BY <1>2 DEF StartRun, TypeOK
  <2> QED BY <2>1, FanoutAssumption DEF Budget, FanoutAssumption
<1>3. ASSUME NEW r \in Runs, ListJobs(r) PROVE Budget'
  BY <1>3, BudgetListing
<1>4. ASSUME NEW r \in Runs, Defer(r) \/ EndPass(r) PROVE Budget'
  <2>1. /\ pc'[r] \in {"idle", "list"} /\ UNCHANGED <<left, todo, hand>>
        /\ \A q \in Runs \ {r} : pc'[q] = pc[q]
    BY <1>4 DEF Defer, EndPass, EndRun, TypeOK
  <2> QED BY <2>1 DEF Budget
<1>5. ASSUME NEW r \in Runs, ReadPage(r) PROVE Budget'
  BY <1>5, BudgetRead
<1>6. ASSUME NEW r \in Runs, CommitPage(r) PROVE Budget'
  BY <1>6, BudgetCommit
<1>7. ASSUME NEW r \in Runs, Abort(r) PROVE Budget'
  <2>1. /\ pc'[r] = "idle" /\ todo'[r] = {} /\ UNCHANGED left
        /\ \A q \in Runs \ {r} : pc'[q] = pc[q] /\ todo'[q] = todo[q] /\ hand'[q] = hand[q]
    BY <1>7 DEF Abort, EndRun, TypeOK
  <2> QED BY <2>1, FS_EmptySet DEF Budget
<1> QED BY <1>1, <1>2, <1>3, <1>4, <1>5, <1>6, <1>7 DEF Next, RunStep, Tick, Resolve, CreateJob, runVars, vars

\* A run never spends more queries than its allowance, and what a pass listed it
\* can pay for: the allowance is tested before a listing alone, which covers the
\* pages of all it lists (covers and affordable in runFanout).
THEOREM AllowanceKept == Spec => []WithinAllowance
<1>1. Init => Budget
  BY FS_EmptySet DEF Init, Budget
<1>2. Budget => WithinAllowance
  BY DEF Budget, WithinAllowance
<1> QED BY <1>1, <1>2, BudgetStep, TypeCorrect, PTL DEF Spec

-----------------------------------------------------------------------------
(* The loop over the passes ends.  Going back for another pass costs no    *)
(* query by itself, but the listing it goes back to does.                  *)

Stage(r) == IF pc[r] = "idle" THEN 0 ELSE IF pc[r] = "list" THEN 1 ELSE 2
Rank(r) == 2 * left[r] + Stage(r)

\* Every step of a run brings it nearer to its end, and nothing else that
\* happens takes it back.
RunsShrink ==
    [][\A r \in Runs : /\ RunStep(r) => Rank(r)' < Rank(r)
                       /\ pc[r] # "idle" => Rank(r)' <= Rank(r)]_vars

\* The steps of r itself.
LEMMA ShrinkStep == ASSUME TypeOK, NEW r \in Runs, RunStep(r), Budget PROVE Rank(r)' < Rank(r)
<1>1. left[r] \in Int /\ left \in [Runs -> Int] /\ pc \in [Runs -> {"idle", "list", "jobs", "page"}]
  BY DEF TypeOK
<1>2. CASE ListJobs(r)
  <2>1. pc[r] = "list" /\ left'[r] = left[r] - 1
    BY <1>1, <1>2 DEF ListJobs
  <2>2. Stage(r) = 1 /\ Stage(r)' \in 0..2
    BY <2>1 DEF Stage
  <2> QED BY <1>1, <2>1, <2>2 DEF Rank
<1>3. CASE Defer(r)
  <2>1. pc[r] = "list" /\ pc'[r] = "idle" /\ left'[r] = left[r]
    BY <1>1, <1>3 DEF Defer, EndRun
  <2> QED BY <1>1, <2>1 DEF Rank, Stage
<1>4. CASE ReadPage(r)
  <2>1. pc[r] = "jobs" /\ pc'[r] = "page" /\ left'[r] = left[r] - 1
    BY <1>1, <1>4 DEF ReadPage
  <2> QED BY <1>1, <2>1 DEF Rank, Stage
<1>5. CASE CommitPage(r)
  <2> DEFINE n == Ceil(Cardinality(hand[r].users), InsertChunk)
  <2>1. pc[r] = "page" /\ pc'[r] = "jobs" /\ left'[r] = left[r] - n - 1
    BY <1>1, <1>5 DEF CommitPage
  <2>2. n \in Nat
    BY <2>1, PageSizeType, CeilMonotone DEF TypeOK, Budget
  <2> HIDE DEF n
  <2> QED BY <1>1, <2>1, <2>2 DEF Rank, Stage
<1>6. CASE EndPass(r)
  <2>1. pc[r] = "jobs" /\ pc'[r] \in {"idle", "list"} /\ left'[r] = left[r]
    BY <1>1, <1>6 DEF EndPass, EndRun
  <2> QED BY <1>1, <2>1 DEF Rank, Stage
<1> QED BY <1>2, <1>3, <1>4, <1>5, <1>6 DEF RunStep

\* The steps of everything else: a run under way keeps its rank unless evicted.
LEMMA OthersShrink ==
    ASSUME TypeOK, NEW r \in Runs, pc[r] # "idle", [Next]_vars, ~RunStep(r)
    PROVE  Rank(r)' <= Rank(r)
<1>1. left[r] \in Int /\ left \in [Runs -> Int] /\ pc \in [Runs -> {"idle", "list", "jobs", "page"}]
  BY DEF TypeOK
<1>2. left'[r] = left[r] /\ pc'[r] \in {pc[r], "idle"}
  <2>1. CASE UNCHANGED <<pc, left>>
    BY <2>1
  <2>2. ASSUME NEW q \in Runs, StartRun(q) PROVE left'[r] = left[r] /\ pc'[r] = pc[r]
    BY <1>1, <2>2 DEF StartRun
  <2>3. ASSUME NEW q \in Runs, RunStep(q) PROVE left'[r] = left[r] /\ pc'[r] = pc[r]
    <3>1. q # r
      BY <2>3
    <3> QED BY <1>1, <2>3, <3>1 DEF RunStep, ListJobs, Defer, ReadPage, CommitPage, EndPass, EndRun
  <2>4. ASSUME NEW q \in Runs, Abort(q) PROVE left'[r] = left[r] /\ pc'[r] \in {pc[r], "idle"}
    BY <1>1, <2>4 DEF Abort, EndRun
  <2> QED BY <2>1, <2>2, <2>3, <2>4 DEF Next, Tick, Resolve, CreateJob, runVars, vars
<1> QED BY <1>1, <1>2 DEF Rank, Stage

\* A run ends: the rank is a natural number that every step of the run lowers
\* and that nothing raises before the run is over, so an invocation makes at
\* most 2 * Allowance + 1 of the calls and decisions of runFanout, however many
\* jobs are open and however often others put their cursors back.
THEOREM RunsEnd == Spec => [](\A r \in Runs : Rank(r) \in Nat) /\ RunsShrink
<1>1. TypeOK /\ WithinAllowance => \A r \in Runs : Rank(r) \in Nat
  BY DEF TypeOK, WithinAllowance, Rank, Stage
<1>2. Init => Budget
  BY FS_EmptySet DEF Init, Budget
<1>3. TypeOK /\ Budget /\ [Next]_vars =>
        [\A r \in Runs : /\ RunStep(r) => Rank(r)' < Rank(r)
                         /\ pc[r] # "idle" => Rank(r)' <= Rank(r)]_vars
  <2> SUFFICES ASSUME TypeOK, Budget, [Next]_vars, NEW r \in Runs
               PROVE  /\ RunStep(r) => Rank(r)' < Rank(r)
                      /\ pc[r] # "idle" => Rank(r)' <= Rank(r)
    OBVIOUS
  <2>1. RunStep(r) => Rank(r)' < Rank(r)
    BY ShrinkStep
  <2>2. CASE RunStep(r)
    <3>1. Rank(r) \in Int /\ Rank(r)' \in Int
      BY <2>2, TypeStep DEF TypeOK, Rank, Stage
    <3> QED BY <2>1, <2>2, <3>1
  <2>3. CASE ~RunStep(r)
    BY <2>3, OthersShrink
  <2> QED BY <2>2, <2>3, <2>1
<1> QED BY <1>1, <1>2, <1>3, BudgetStep, TypeCorrect, AllowanceKept, PTL DEF Spec, RunsShrink

-----------------------------------------------------------------------------
(* What a run reports.                                                     *)

\* A pass still has to complete j.
Owed(r, j) ==
    \/ status[j] = "done"
    \/ \E l \in todo[r] : l.job = j
    \/ pc[r] = "page" /\ hand[r].of.job = j

Reported ==
    \A r \in Runs :
        /\ \A j \in listed[r] : status[j] # "absent"
        /\ pc[r] \in {"jobs", "page"} /\ ~truncated[r] /\ allCompleted[r] => \A j \in listed[r] : Owed(r, j)
        /\ pc[r] = "idle" /\ ~deferred[r] => \A j \in listed[r] : status[j] = "done"

LEMMA ReportedCommit == ASSUME TypeOK, Reported, NEW r \in Runs, CommitPage(r) PROVE Reported'
<1> DEFINE j == hand[r].of.job
           P == hand[r].users
<1>1. /\ UNCHANGED <<todo, truncated, deferred, listed>> /\ pc[r] = "page"
      /\ pc' = [pc EXCEPT ![r] = "jobs"]
      /\ allCompleted' = [allCompleted EXCEPT ![r] = @ /\ Drained(P)]
      /\ hand' = [hand EXCEPT ![r] = NoPage]
  BY DEF CommitPage
<1>2. \A k \in Jobs : status[k] = "done" => status'[k] = "done"
  BY DEF CommitPage, StepJob, TypeOK
<1>3. \A k \in Jobs : status[k] # "absent" => status'[k] # "absent"
  BY DEF CommitPage, StepJob, TypeOK
<1>4. j \in Jobs /\ (Drained(P) => status'[j] = "done")
  BY DEF CommitPage, StepJob, TypeOK, Listing
<1>5. /\ pc'[r] = "jobs" /\ (allCompleted'[r] => allCompleted[r] /\ Drained(P))
      /\ \A q \in Runs \ {r} : pc'[q] = pc[q] /\ allCompleted'[q] = allCompleted[q] /\ hand'[q] = hand[q]
      /\ \A q \in Runs : listed[q] \subseteq Jobs
  BY <1>1 DEF TypeOK
<1>6. ASSUME NEW q \in Runs \ {r}, NEW k \in listed[q], Owed(q, k) PROVE Owed(q, k)'
  BY <1>1, <1>2, <1>5, <1>6 DEF Owed
<1>7. ASSUME NEW k \in listed[r], Owed(r, k), Drained(P) PROVE Owed(r, k)'
  BY <1>1, <1>2, <1>4, <1>5, <1>7 DEF Owed
<1> HIDE DEF j, P
<1> QED BY <1>1, <1>2, <1>3, <1>5, <1>6, <1>7 DEF Reported

LEMMA ReportedStep == ASSUME TypeOK, Reported, [Next]_vars PROVE Reported'
<1>0. \A q \in Runs : listed[q] \subseteq Jobs
  BY DEF TypeOK
<1>1. CASE UNCHANGED <<status, runVars>>
  BY <1>1 DEF Reported, Owed, runVars
<1>2. ASSUME NEW j \in Jobs, NEW at \in 0..clock, NEW event \in 0..clock, CreateJob(j, at, event) PROVE Reported'
  <2>1. UNCHANGED runVars /\ status[j] = "absent" /\ \A k \in Jobs \ {j} : status'[k] = status[k]
    BY <1>2 DEF CreateJob, TypeOK
  <2>2. \A r \in Runs : \A k \in listed[r] : status'[k] = status[k]
    BY <1>0, <2>1 DEF Reported
  <2> QED BY <2>1, <2>2 DEF Reported, Owed, runVars
<1>3. ASSUME NEW r \in Runs, StartRun(r) PROVE Reported'
  <2>1. /\ pc'[r] = "list" /\ listed'[r] = {} /\ UNCHANGED <<status, todo, truncated, allCompleted, hand, deferred>>
        /\ \A q \in Runs \ {r} : pc'[q] = pc[q] /\ listed'[q] = listed[q]
    BY <1>3 DEF StartRun, jobVars, TypeOK
  <2> QED BY <2>1 DEF Reported, Owed
<1>4. ASSUME NEW r \in Runs, ListJobs(r) PROVE Reported'
  <2>1. /\ UNCHANGED <<status, hand>>
        /\ listed' = [listed EXCEPT ![r] = listed[r] \cup Open]
    BY <1>4 DEF ListJobs, jobVars
  <2>2. listed'[r] = listed[r] \cup Open /\ \A q \in Runs \ {r} : listed'[q] = listed[q]
    BY <2>1 DEF TypeOK
  <2>3. \A k \in listed[r] : status[k] = "done" \/ k \in Open
    BY <1>0 DEF Reported, Open, TypeOK
  <2>4. \A k \in listed'[r] : status'[k] # "absent"
    BY <2>1, <2>2 DEF Reported, Open
  <2>5. CASE Open = {}
    <3>1. /\ pc'[r] = "idle" /\ UNCHANGED <<todo, truncated, allCompleted>>
          /\ \A q \in Runs \ {r} : pc'[q] = pc[q] /\ deferred'[q] = deferred[q]
      BY <1>4, <2>5 DEF ListJobs, EndRun, TypeOK
    <3>2. \A k \in listed'[r] : status'[k] = "done"
      BY <2>1, <2>2, <2>3, <2>5
    <3> QED BY <2>1, <2>2, <2>4, <3>1, <3>2 DEF Reported, Owed
  <2>6. CASE Open # {}
    <3>1. PICK S \in SUBSET OpenListings : /\ todo' = [todo EXCEPT ![r] = S]
                                           /\ truncated' = [truncated EXCEPT ![r] = Cut(S)]
      BY <1>4, <2>6 DEF ListJobs
    <3>2. /\ pc'[r] = "jobs" /\ UNCHANGED deferred /\ todo'[r] = S /\ truncated'[r] = Cut(S)
          /\ \A q \in Runs \ {r} : /\ pc'[q] = pc[q] /\ todo'[q] = todo[q] /\ truncated'[q] = truncated[q]
                                   /\ allCompleted'[q] = allCompleted[q]
      BY <1>4, <2>6, <3>1 DEF ListJobs, TypeOK
    <3>3. ASSUME ~Cut(S), NEW k \in listed'[r] PROVE Owed(r, k)'
      <4>1. S = OpenListings
        BY <3>3 DEF Cut
      <4>2. CASE k \in Open
        <5>1. [job |-> k, cursor |-> cursor[k], updated |-> updated[k]] \in S
          BY <4>1, <4>2 DEF OpenListings
        <5> QED BY <3>2, <5>1 DEF Owed
      <4>3. CASE k \notin Open
        BY <2>1, <2>2, <2>3, <3>3, <4>3 DEF Owed
      <4> QED BY <4>2, <4>3
    <3> QED BY <2>1, <2>2, <2>4, <3>2, <3>3 DEF Reported, Owed
  <2> QED BY <2>5, <2>6
<1>5. ASSUME NEW r \in Runs, Defer(r) \/ Abort(r) PROVE Reported'
  <2>1. /\ pc'[r] = "idle" /\ deferred'[r] = TRUE /\ UNCHANGED <<status, listed, truncated, allCompleted>>
        /\ \A q \in Runs \ {r} : /\ pc'[q] = pc[q] /\ deferred'[q] = deferred[q] /\ todo'[q] = todo[q]
                                 /\ hand'[q] = hand[q]
    BY <1>5 DEF Defer, Abort, EndRun, jobVars, TypeOK
  <2> QED BY <2>1 DEF Reported, Owed
<1>6. ASSUME NEW r \in Runs, ReadPage(r) PROVE Reported'
  <2>1. PICK l \in todo[r], P \in SUBSET Users, u \in Users \cup {0} :
          /\ todo' = [todo EXCEPT ![r] = todo[r] \ {l}]
          /\ hand' = [hand EXCEPT ![r] = [of |-> l, users |-> P, last |-> u]]
    BY <1>6 DEF ReadPage
  <2>2. /\ todo'[r] = todo[r] \ {l} /\ hand'[r].of = l /\ pc[r] = "jobs" /\ pc'[r] = "page"
        /\ UNCHANGED <<status, truncated, allCompleted, deferred, listed>>
        /\ \A q \in Runs \ {r} : pc'[q] = pc[q] /\ todo'[q] = todo[q] /\ hand'[q] = hand[q]
    BY <1>6, <2>1 DEF ReadPage, jobVars, TypeOK
  <2>3. \A k \in listed[r] : Owed(r, k) => Owed(r, k)'
    BY <2>2 DEF Owed
  <2> QED BY <2>2, <2>3 DEF Reported, Owed
<1>7. ASSUME NEW r \in Runs, CommitPage(r) PROVE Reported'
  BY <1>7, ReportedCommit
<1>8. ASSUME NEW r \in Runs, EndPass(r) PROVE Reported'
  <2>1. /\ pc[r] = "jobs" /\ todo[r] = {} /\ UNCHANGED <<status, todo, truncated, allCompleted, hand, listed>>
        /\ pc'[r] = "list" \/ (pc'[r] = "idle" /\ ~truncated[r] /\ allCompleted[r])
        /\ \A q \in Runs \ {r} : pc'[q] = pc[q] /\ deferred'[q] = deferred[q]
    BY <1>8 DEF EndPass, EndRun, jobVars, TypeOK
  <2>2. pc'[r] = "idle" => \A k \in listed[r] : status[k] = "done"
    BY <2>1 DEF Reported, Owed
  <2> QED BY <2>1, <2>2 DEF Reported, Owed
<1>9. Tick \/ (\E u \in Users, d \in Dreps \cup {NoDrep}, at \in 0..clock : Resolve(u, d, at)) \/ UNCHANGED vars
        => UNCHANGED <<status, runVars>>
  BY DEF Tick, Resolve, vars, jobVars
<1> QED BY <1>1, <1>2, <1>3, <1>4, <1>5, <1>6, <1>7, <1>8, <1>9 DEF Next, RunStep

\* A run that reports nothing deferred leaves no job open that was open at one of
\* its listings: a pass that was not cut and completed all it listed has listed
\* them all (truncated and allCompleted in runFanout).
THEOREM ReportTrue == Spec => []NotDeferredIsDrained
<1>1. Init => Reported
  BY DEF Init, Reported
<1>2. Reported => NotDeferredIsDrained
  BY DEF Reported, NotDeferredIsDrained
<1> QED BY <1>1, <1>2, ReportedStep, TypeCorrect, PTL DEF Spec

-----------------------------------------------------------------------------
(* The rotation.  While j waits with the stamp t = updated[j], the runs    *)
(* that serve k are told apart by their second: at most one lies before t  *)
(* (it was on its way when j got its stamp), one is t, and at most one     *)
(* lies after it, since it moves k behind j and every later listing serves *)
(* j first.                                                                *)

\* Runs do not overlap.
OneRunAtATime == \A q, r \in Runs : q = r

Earliest(S, t) == \A a, b \in S : a < t /\ b < t => a = b
Latest(S, t) == \A a, b \in S : t < a /\ t < b => a = b

Stamped ==
    /\ \A j \in Jobs : updated[j] <= clock
    /\ \A r \in Runs : now[r] <= clock

\* What a run works on is as stored.
Fresh ==
    \A r \in Runs : /\ todo[r] \subseteq OpenListings
                    /\ pc[r] = "page" => hand[r].of \in OpenListings \ todo[r]

TurnsType == turns \in [Jobs -> [Jobs -> SUBSET Nat]]

\* Turns are counted for an open job, of one that was written.
Waiting == \A j, k \in Jobs : turns[j][k] # {} => j \in Open /\ status[k] # "absent"

\* A run other than the present one that served k while j waited is over.
Counted ==
    \A j, k \in Jobs : \A r \in Runs : \A n \in turns[j][k] :
        n <= now[r] /\ (n # now[r] => updated[j] <= now[r])

InPass(r, k) == \E l \in todo[r] : l.job = k
InPage(r, k) == pc[r] = "page" /\ hand[r].of.job = k

\* Once a run after the stamp of j served k, k is behind j.
Behind ==
    \A j, k \in Jobs : (\E n \in turns[j][k] : updated[j] < n) =>
        /\ updated[j] < updated[k]
        /\ \A r \in Runs : /\ InPass(r, k) => InPass(r, j) \/ InPage(r, j)
                           /\ ~InPage(r, k)

Few == \A j, k \in Jobs : Earliest(turns[j][k], updated[j]) /\ Latest(turns[j][k], updated[j])

RInv == TypeOK /\ Stamped /\ Fresh /\ TurnsType /\ Waiting /\ Counted /\ Behind /\ Few

\* A set of seconds with at most one before t and at most one after it.
LEMMA AtMostThree ==
    ASSUME NEW S \in SUBSET Nat, NEW t \in Nat, Earliest(S, t), Latest(S, t)
    PROVE  Cardinality(S) <= 3
<1>1. PICK a \in Nat : \A s \in S : s < t => s = a
  <2>1. CASE \E s \in S : s < t
    BY <2>1 DEF Earliest
  <2>2. CASE ~(\E s \in S : s < t)
    BY <2>2
  <2> QED BY <2>1, <2>2
<1>2. PICK b \in Nat : \A s \in S : t < s => s = b
  <2>1. CASE \E s \in S : t < s
    BY <2>1 DEF Latest
  <2>2. CASE ~(\E s \in S : t < s)
    BY <2>2
  <2> QED BY <2>1, <2>2
<1>3. S \subseteq {a, t, b}
  BY <1>1, <1>2
<1>4. IsFiniteSet({a, t}) /\ Cardinality({a, t}) \in Nat /\ Cardinality({a, t}) <= 2
  <2>1. IsFiniteSet({a}) /\ Cardinality({a}) = 1
    BY FS_Singleton
  <2>2. IsFiniteSet({a} \cup {t}) /\ (Cardinality({a} \cup {t}) = 1 \/ Cardinality({a} \cup {t}) = 2)
    BY <2>1, FS_AddElement
  <2>3. {a} \cup {t} = {a, t}
    OBVIOUS
  <2> QED BY <2>2, <2>3
<1>5. IsFiniteSet({a, t, b}) /\ Cardinality({a, t, b}) \in Nat /\ Cardinality({a, t, b}) <= 3
  <2>1. /\ IsFiniteSet({a, t} \cup {b})
        /\ Cardinality({a, t} \cup {b}) = Cardinality({a, t}) \/ Cardinality({a, t} \cup {b}) = Cardinality({a, t}) + 1
    BY <1>4, FS_AddElement
  <2>2. {a, t} \cup {b} = {a, t, b}
    OBVIOUS
  <2> QED BY <1>4, <2>1, <2>2
<1>6. Cardinality(S) \in Nat /\ Cardinality(S) <= Cardinality({a, t, b})
  BY <1>3, <1>5, FS_Subset, FS_CardinalityType
<1> QED BY <1>5, <1>6

\* Steps that neither list, read nor commit.
LEMMA QuietTurn ==
    ASSUME RInv, TypeOK', UNCHANGED <<turns, jobVars>>, clock' >= clock,
           \A r \in Runs : now'[r] = now[r] \/ now'[r] = clock',
           \A r \in Runs : \/ todo'[r] = {} /\ pc'[r] # "page"
                           \/ todo'[r] = todo[r] /\ (pc'[r] = "page" <=> pc[r] = "page") /\ hand'[r] = hand[r]
    PROVE  RInv'
<1> USE DEF jobVars
<1>0. /\ clock \in Nat /\ clock' \in Nat /\ now \in [Runs -> Nat] /\ updated \in [Jobs -> Nat]
      /\ now' \in [Runs -> Nat]
  BY DEF RInv, TypeOK
<1>1. Stamped'
  BY <1>0 DEF RInv, Stamped
<1>2. Fresh'
  BY DEF RInv, Fresh, OpenListings, Open
<1>3. TurnsType' /\ Waiting'
  BY DEF RInv, TurnsType, Waiting, Open
<1>4. Counted'
  <2>1. ASSUME NEW j \in Jobs, NEW k \in Jobs, NEW r \in Runs, NEW n \in turns[j][k]
        PROVE  n <= now'[r] /\ (n # now'[r] => updated[j] <= now'[r])
    <3>1. n <= now[r] /\ now[r] <= clock /\ updated[j] <= clock /\ (n # now[r] => updated[j] <= now[r]) /\ n \in Nat
      BY DEF RInv, Counted, Stamped, TurnsType
    <3> QED BY <1>0, <3>1
  <2> QED BY <2>1 DEF Counted
<1>5. Behind'
  <2>1. ASSUME NEW r \in Runs, NEW k \in Jobs
        PROVE  /\ InPass(r, k)' => InPass(r, k) /\ todo'[r] = todo[r] /\ (pc'[r] = "page" <=> pc[r] = "page") /\ hand'[r] = hand[r]
               /\ InPage(r, k)' => InPage(r, k)
    BY DEF InPass, InPage
  <2>2. ASSUME NEW j \in Jobs, NEW k \in Jobs, \E n \in turns'[j][k] : updated'[j] < n, NEW r \in Runs
        PROVE  /\ updated'[j] < updated'[k]
               /\ InPass(r, k)' => InPass(r, j)' \/ InPage(r, j)'
               /\ ~InPage(r, k)'
    <3>1. /\ updated[j] < updated[k]
          /\ InPass(r, k) => InPass(r, j) \/ InPage(r, j)
          /\ ~InPage(r, k)
      BY <2>2 DEF RInv, Behind
    <3> QED BY <2>1, <3>1 DEF InPass, InPage
  <2>3. ASSUME NEW j \in Jobs, NEW k \in Jobs, \E n \in turns'[j][k] : updated'[j] < n
        PROVE  updated'[j] < updated'[k]
    BY <2>3 DEF RInv, Behind
  <2> QED BY <2>2, <2>3 DEF Behind
<1>6. Few'
  BY DEF RInv, Few
<1> QED BY <1>1, <1>2, <1>3, <1>4, <1>5, <1>6 DEF RInv

\* A listing that holds k and not j puts k before j.
LEMMA ListTurn ==
    ASSUME OneRunAtATime, RInv, TypeOK', NEW r \in Runs, ListJobs(r), UNCHANGED turns
    PROVE  RInv'
<1> USE DEF jobVars
<1>1. CASE Open = {}
  <2>1. /\ UNCHANGED <<turns, jobVars, clock, now, todo, hand>>
        /\ \A q \in Runs : pc'[q] = "page" <=> pc[q] = "page"
    BY <1>1 DEF ListJobs, EndRun, RInv, TypeOK
  <2>2. clock' >= clock
    BY <2>1 DEF RInv, TypeOK
  <2> QED BY <2>1, <2>2, QuietTurn
<1>2. CASE Open # {}
  <2>1. PICK S \in SUBSET OpenListings : /\ \A a \in S, b \in OpenListings \ S : Before(a, b)
                                         /\ todo' = [todo EXCEPT ![r] = S]
    BY <1>2 DEF ListJobs
  <2>2. /\ UNCHANGED <<turns, jobVars, clock, now, hand>> /\ \A q \in Runs : q = r
        /\ todo'[r] = S /\ pc'[r] = "jobs"
    BY <1>2, <2>1 DEF ListJobs, OneRunAtATime, RInv, TypeOK
  <2>3. Stamped' /\ TurnsType' /\ Waiting' /\ Counted' /\ Few'
    BY <2>2 DEF RInv, Stamped, TurnsType, Waiting, Counted, Few, Open
  <2>4. Fresh'
    BY <2>2 DEF Fresh, OpenListings, Open
  <2>5. Behind'
    <3>1. ASSUME NEW j \in Jobs, NEW k \in Jobs, \E n \in turns[j][k] : updated[j] < n
          PROVE  /\ updated[j] < updated[k]
                 /\ (\E l \in S : l.job = k) => \E l \in S : l.job = j
      <4>1. updated[j] < updated[k] /\ j \in Open
        BY <3>1 DEF RInv, Behind, Waiting
      <4>2. ASSUME NEW l \in S, l.job = k PROVE \E m \in S : m.job = j
        <5> DEFINE m == [job |-> j, cursor |-> cursor[j], updated |-> updated[j]]
        <5>1. m \in OpenListings /\ m.job = j /\ m.updated = updated[j]
          BY <4>1 DEF OpenListings
        <5>2. l.updated = updated[k]
          BY <4>2 DEF OpenListings
        <5> HIDE DEF m
        <5>3. updated[j] \in Nat /\ updated[k] \in Nat
          BY DEF RInv, TypeOK
        <5>4. ~Before(l, m)
          BY <4>1, <5>1, <5>2, <5>3 DEF Before
        <5> QED BY <2>1, <5>1, <5>4
      <4> QED BY <4>1, <4>2
    <3> QED BY <2>2, <3>1 DEF Behind, InPass, InPage
  <2> QED BY <2>3, <2>4, <2>5 DEF RInv
<1> QED BY <1>1, <1>2

\* A page is read for the foremost job of the pass.
LEMMA ReadTurn ==
    ASSUME OneRunAtATime, RInv, TypeOK', NEW r \in Runs, ReadPage(r), UNCHANGED turns
    PROVE  RInv'
<1> USE DEF jobVars
<1>1. PICK l \in todo[r] : /\ \A m \in todo[r] \ {l} : Before(l, m)
                           /\ todo' = [todo EXCEPT ![r] = todo[r] \ {l}]
                           /\ hand'[r].of = l
  <2>1. PICK l \in todo[r], P \in SUBSET Users, u \in Users \cup {0} :
          /\ \A m \in todo[r] \ {l} : Before(l, m)
          /\ todo' = [todo EXCEPT ![r] = todo[r] \ {l}]
          /\ hand' = [hand EXCEPT ![r] = [of |-> l, users |-> P, last |-> u]]
    BY DEF ReadPage
  <2> QED BY <2>1 DEF RInv, TypeOK
<1>2. /\ UNCHANGED <<turns, jobVars, clock, now>> /\ \A q \in Runs : q = r
      /\ todo'[r] = todo[r] \ {l} /\ pc[r] = "jobs" /\ pc'[r] = "page"
  BY <1>1 DEF ReadPage, OneRunAtATime, RInv, TypeOK
<1>3. Stamped' /\ TurnsType' /\ Waiting' /\ Counted' /\ Few'
  BY <1>2 DEF RInv, Stamped, TurnsType, Waiting, Counted, Few, Open
<1>4. Fresh'
  BY <1>1, <1>2 DEF RInv, Fresh, OpenListings, Open
<1>5. Behind'
  <2>1. ASSUME NEW j \in Jobs, NEW k \in Jobs, \E n \in turns[j][k] : updated[j] < n
        PROVE  /\ updated[j] < updated[k]
               /\ InPass(r, k)' => InPass(r, j)' \/ InPage(r, j)'
               /\ ~InPage(r, k)'
    <3>1. /\ updated[j] < updated[k] /\ updated[j] \in Nat /\ updated[k] \in Nat
          /\ InPass(r, k) => InPass(r, j)
      <4>1. updated[j] \in Nat /\ updated[k] \in Nat
        BY DEF RInv, TypeOK
      <4>2. updated[j] < updated[k] /\ (InPass(r, k) => InPass(r, j) \/ InPage(r, j))
        BY <2>1 DEF RInv, Behind
      <4>3. ~InPage(r, j)
        BY <1>2 DEF InPage
      <4> QED BY <4>1, <4>2, <4>3
    <3>2. \A m \in todo[r] : m.updated = updated[m.job]
      BY DEF RInv, Fresh, OpenListings
    <3>3. l.job # k
      <4>1. SUFFICES ASSUME l.job = k PROVE FALSE
        OBVIOUS
      <4>2. PICK m \in todo[r] : m.job = j
        BY <3>1, <4>1 DEF InPass
      <4>3. m # l /\ Before(l, m) /\ m.updated = updated[j] /\ l.updated = updated[k]
        BY <1>1, <3>1, <3>2, <4>1, <4>2
      <4> QED BY <3>1, <4>3 DEF Before
    <3>4. InPass(r, k)' => InPass(r, j)' \/ InPage(r, j)'
      BY <1>1, <1>2, <3>1 DEF InPass, InPage
    <3> QED BY <1>1, <3>1, <3>3, <3>4 DEF InPage
  <2> QED BY <1>2, <2>1 DEF Behind
<1> QED BY <1>3, <1>4, <1>5 DEF RInv

\* The job of the page moves behind those that wait.
LEMMA CommitTurn ==
    ASSUME OneRunAtATime, RInv, TypeOK', NEW r \in Runs, CommitPage(r), Served(hand[r].of.job, now[r])
    PROVE  RInv'
<1> DEFINE i == hand[r].of.job
           n == now[r]
<1>1. /\ i \in Jobs /\ n \in Nat /\ \A q \in Runs : q = r
      /\ UNCHANGED <<clock, now, todo, src>> /\ pc[r] = "page" /\ pc'[r] = "jobs"
      /\ updated'[i] = n
      /\ \A k \in Jobs \ {i} : updated'[k] = updated[k] /\ status'[k] = status[k] /\ cursor'[k] = cursor[k]
      /\ status'[i] # "absent"
  BY DEF CommitPage, StepJob, OneRunAtATime, RInv, TypeOK, Listing, Fresh, OpenListings, Open
<1>2. \A j, k \in Jobs : turns'[j][k] = IF j = i \/ j \notin Open THEN {}
                                        ELSE IF k = i THEN turns[j][k] \cup {n} ELSE turns[j][k]
  BY <1>1 DEF Served, RInv, TurnsType
<1>3. TurnsType'
  <2>1. turns' = [j \in Jobs |-> IF j = i \/ j \notin Open THEN [k \in Jobs |-> {}]
                                 ELSE [turns[j] EXCEPT ![i] = @ \cup {n}]]
    BY DEF Served
  <2> QED BY <1>1, <2>1 DEF RInv, TurnsType
<1>4. hand[r].of \in OpenListings \ todo[r] /\ todo[r] \subseteq OpenListings
  BY <1>1 DEF RInv, Fresh
<1>5. \A l \in todo[r] : l.job \in Open \ {i}
  <2>1. \A l, m \in OpenListings : l.job = m.job => l = m
    BY DEF OpenListings
  <2>2. \A l \in todo[r] : l.job \in Open
    BY <1>4 DEF OpenListings
  <2> QED BY <1>4, <2>1, <2>2
<1> HIDE DEF i, n
<1>6. Stamped'
  BY <1>1 DEF RInv, Stamped, i, n
<1>7. Fresh'
  <2>1. \A l \in todo[r] : l \in OpenListings'
    BY <1>1, <1>4, <1>5 DEF OpenListings, Open
  <2> QED BY <1>1, <2>1 DEF Fresh
<1>8. Waiting'
  <2>1. ASSUME NEW j \in Jobs, NEW k \in Jobs, turns'[j][k] # {} PROVE j \in Open' /\ status'[k] # "absent"
    <3>1. j # i /\ j \in Open
      BY <1>2, <2>1
    <3>2. k # i => turns[j][k] # {}
      BY <1>2, <2>1, <3>1
    <3>3. k # i => status[k] # "absent"
      BY <3>2 DEF RInv, Waiting
    <3> QED BY <1>1, <3>1, <3>3 DEF Open
  <2> QED BY <2>1 DEF Waiting
<1>9. ASSUME NEW j \in Jobs, NEW k \in Jobs, j # i
      PROVE  /\ updated'[j] = updated[j] /\ updated[j] \in Nat
             /\ turns'[j][k] \subseteq turns[j][k] \cup {n}
             /\ k # i => turns'[j][k] \subseteq turns[j][k]
             /\ \A m \in turns[j][k] : m \in Nat /\ m <= n /\ (m # n => updated[j] <= n)
             /\ \A m \in turns[j][i] : ~(updated[j] < m)
  <2>1. \A m \in turns[j][k] : m \in Nat /\ m <= n /\ (m # n => updated[j] <= n)
    BY DEF RInv, Counted, TurnsType, n
  <2>2. \A m \in turns[j][i] : ~(updated[j] < m)
    BY <1>1 DEF RInv, Behind, InPage, i
  <2>3. updated'[j] = updated[j] /\ updated[j] \in Nat
    BY <1>1, <1>9 DEF RInv, TypeOK
  <2> QED BY <1>2, <2>1, <2>2, <2>3
<1>10. Counted'
  <2>1. ASSUME NEW j \in Jobs, NEW k \in Jobs, NEW m \in turns'[j][k]
        PROVE  m <= n /\ (m # n => updated'[j] <= n)
    <3>1. j # i
      BY <1>2, <2>1
    <3>2. m \in turns[j][k] \cup {n} /\ updated'[j] = updated[j]
      BY <1>9, <2>1, <3>1
    <3> QED BY <1>1, <1>9, <3>1, <3>2
  <2> QED BY <1>1, <2>1 DEF Counted, n
<1>11. Behind'
  <2>1. ASSUME NEW j \in Jobs, NEW k \in Jobs, NEW m \in turns'[j][k], updated'[j] < m
        PROVE  /\ updated'[j] < updated'[k]
               /\ InPass(r, k)' => InPass(r, j)'
               /\ ~InPage(r, k)'
    <3>1. j # i
      BY <1>2, <2>1
    <3>2. CASE k = i
      <4>1. m = n
        BY <1>9, <2>1, <3>1, <3>2
      <4> QED BY <1>1, <1>5, <2>1, <3>2, <4>1 DEF InPass, InPage
    <3>3. CASE k # i
      <4>1. m \in turns[j][k] /\ updated[j] < m
        BY <1>9, <2>1, <3>1, <3>3
      <4>2. updated[j] < updated[k] /\ (InPass(r, k) => InPass(r, j) \/ InPage(r, j))
        BY <4>1 DEF RInv, Behind
      <4>3. ~InPage(r, j)
        BY <3>1 DEF InPage, i
      <4> QED BY <1>1, <3>1, <3>3, <4>2, <4>3 DEF InPass, InPage
    <3> QED BY <3>2, <3>3
  <2> QED BY <1>1, <2>1 DEF Behind
<1>12. Few'
  <2>1. ASSUME NEW j \in Jobs, NEW k \in Jobs PROVE Earliest(turns'[j][k], updated'[j]) /\ Latest(turns'[j][k], updated'[j])
    <3>1. CASE turns'[j][k] = {}
      BY <3>1 DEF Earliest, Latest
    <3>2. CASE j # i /\ k # i
      BY <1>9, <3>2 DEF RInv, Few, Earliest, Latest
    <3>3. CASE j # i /\ k = i
      <4>1. Earliest(turns[j][k], updated[j])
        BY DEF RInv, Few
      <4>2. \A a \in turns[j][k] \cup {n} : a < updated[j] /\ a # n => ~(n < updated[j])
        BY <1>1, <1>9, <3>3
      <4>3. \A a \in turns[j][k] \cup {n} : updated[j] < a => a = n
        BY <1>9, <3>3
      <4> QED BY <1>9, <3>3, <4>1, <4>2, <4>3 DEF Earliest, Latest
    <3> QED BY <1>2, <3>1, <3>2, <3>3
  <2> QED BY <2>1 DEF Few
<1> QED BY <1>3, <1>6, <1>7, <1>8, <1>10, <1>11, <1>12 DEF RInv

\* A new job has not waited, and nobody has served it.
LEMMA CreateTurn ==
    ASSUME RInv, TypeOK', NEW i \in Jobs, NEW at \in 0..clock, CreateJob(i, at, at), UNCHANGED turns
    PROVE  RInv'
<1>1. /\ UNCHANGED <<clock, cursor, runVars>> /\ status[i] = "absent" /\ status'[i] = "open" /\ updated'[i] = at
      /\ \A k \in Jobs \ {i} : updated'[k] = updated[k] /\ status'[k] = status[k]
  BY DEF CreateJob, RInv, TypeOK
<1>2. \A k \in Jobs : turns[i][k] = {} /\ turns[k][i] = {}
  BY <1>1 DEF RInv, Waiting, Open
<1>3. Stamped'
  BY <1>1 DEF RInv, Stamped, runVars
<1>4. Fresh'
  <2>1. OpenListings \subseteq OpenListings'
    BY <1>1 DEF OpenListings, Open
  <2> QED BY <1>1, <2>1 DEF RInv, Fresh, runVars
<1>5. TurnsType' /\ Waiting'
  BY <1>1 DEF RInv, TurnsType, Waiting, Open
<1>6. Counted'
  BY <1>1, <1>2 DEF RInv, Counted, runVars
<1>7. Behind'
  BY <1>1, <1>2 DEF RInv, Behind, InPass, InPage, runVars
<1>8. Few'
  <2>1. ASSUME NEW j \in Jobs, NEW k \in Jobs PROVE Earliest(turns'[j][k], updated'[j]) /\ Latest(turns'[j][k], updated'[j])
    <3>1. CASE j = i
      BY <1>2, <3>1 DEF Earliest, Latest
    <3>2. CASE j # i
      BY <1>1, <3>2 DEF RInv, Few
    <3> QED BY <3>1, <3>2
  <2> QED BY <2>1 DEF Few
<1> QED BY <1>3, <1>4, <1>5, <1>6, <1>7, <1>8 DEF RInv

LEMMA TurnsRefine == TypeOK /\ NextTurns => Next
<1> SUFFICES ASSUME TypeOK, NextTurns PROVE Next
  OBVIOUS
<1>1. 0 \in 0..clock
  BY DEF TypeOK
<1>2. CASE \E u \in Users, d \in Dreps : Resolve(u, d, 0)
  BY <1>1, <1>2 DEF Next
<1>3. CASE \E j \in Jobs, at \in 0..clock : CreateJob(j, at, at)
  BY <1>3 DEF Next
<1>4. CASE \E r \in Runs : StartRun(r) \/ RunStep(r) \/ Abort(r)
  BY <1>4 DEF Next
<1> QED BY <1>2, <1>3, <1>4 DEF NextTurns, Next, RunStep, SparseStart

LEMMA TurnStep == ASSUME OneRunAtATime, RInv, [NextTurns]_<<vars, turns>> PROVE RInv'
<1>0. TypeOK' /\ clock \in Nat
  <2>1. [Next]_vars
    BY TurnsRefine DEF RInv
  <2> QED BY <2>1, TypeStep DEF RInv, TypeOK
<1>1. CASE UNCHANGED <<vars, turns>>
  BY <1>0, <1>1, QuietTurn DEF vars, runVars
<1>2. CASE (\E r \in Runs : CommitPage(r) /\ Served(hand[r].of.job, now[r]))
  BY <1>0, <1>2, CommitTurn
<1>3. CASE Tick /\ UNCHANGED turns
  BY <1>0, <1>3, QuietTurn DEF Tick, runVars
<1>4. ASSUME NEW u \in Users, NEW d \in Dreps, Resolve(u, d, 0), UNCHANGED turns PROVE RInv'
  BY <1>0, <1>4, QuietTurn DEF Resolve, runVars
<1>5. ASSUME NEW j \in Jobs, NEW at \in 0..clock, CreateJob(j, at, at), UNCHANGED turns PROVE RInv'
  BY <1>0, <1>5, CreateTurn
<1>6. ASSUME NEW r \in Runs, SparseStart(r) \/ Defer(r) \/ EndPass(r) \/ Abort(r), UNCHANGED turns PROVE RInv'
  <2>1. /\ UNCHANGED <<clock, jobVars>>
        /\ \A q \in Runs : now'[q] = now[q] \/ now'[q] = clock'
    BY <1>6 DEF SparseStart, StartRun, Defer, EndPass, Abort, RInv, TypeOK
  <2>2. CASE Abort(r)
    <3>1. /\ todo'[r] = {} /\ pc'[r] = "idle"
          /\ \A q \in Runs \ {r} : todo'[q] = todo[q] /\ pc'[q] = pc[q] /\ hand'[q] = hand[q]
      BY <2>2 DEF Abort, EndRun, RInv, TypeOK
    <3> QED BY <1>0, <1>6, <2>1, <3>1, QuietTurn
  <2>3. CASE SparseStart(r) \/ Defer(r) \/ EndPass(r)
    <3>1. UNCHANGED <<todo, hand>> /\ \A q \in Runs : pc'[q] = "page" <=> pc[q] = "page"
      BY <2>3 DEF SparseStart, StartRun, Defer, EndPass, EndRun, RInv, TypeOK
    <3> QED BY <1>0, <1>6, <2>1, <3>1, QuietTurn
  <2> QED BY <1>6, <2>2, <2>3
<1>7. ASSUME NEW r \in Runs, ListJobs(r), UNCHANGED turns PROVE RInv'
  BY <1>0, <1>7, ListTurn
<1>8. ASSUME NEW r \in Runs, ReadPage(r), UNCHANGED turns PROVE RInv'
  BY <1>0, <1>8, ReadTurn
<1> QED BY <1>1, <1>2, <1>3, <1>4, <1>5, <1>6, <1>7, <1>8 DEF NextTurns

\* While a job waits at most three runs serve another: with one run at a time, for
\* any number of jobs and followers, any allowance and however many passes a run
\* makes (the ORDER BY of listOpenJobs and the stamp of buildAdvanceJobCursor).
THEOREM RotationFair == OneRunAtATime => (SpecTurns => []RotationReachesAll)
<1> SUFFICES ASSUME OneRunAtATime PROVE SpecTurns => []RotationReachesAll
  OBVIOUS
<1>1. InitTurns => RInv
  <2> SUFFICES ASSUME InitTurns PROVE RInv
    OBVIOUS
  <2>1. TypeOK
    BY InitInv DEF InitTurns, IInv
  <2>2. \A j, k \in Jobs : turns[j][k] = {}
    BY DEF InitTurns
  <2>3. Stamped /\ Fresh /\ TurnsType
    BY DEF InitTurns, Init, Stamped, Fresh, TurnsType
  <2>4. Waiting /\ Counted /\ Behind /\ Few
    BY <2>2 DEF Waiting, Counted, Behind, Few, Earliest, Latest
  <2> QED BY <2>1, <2>3, <2>4 DEF RInv
<1>2. RInv => RotationReachesAll
  <2> SUFFICES ASSUME RInv, NEW j \in Jobs, NEW k \in Jobs PROVE Cardinality(turns[j][k]) <= 3
    BY DEF RotationReachesAll
  <2>1. turns[j][k] \in SUBSET Nat /\ updated[j] \in Nat
    BY DEF RInv, TurnsType, TypeOK
  <2> QED BY <2>1, AtMostThree DEF RInv, Few
<1>3. RInv /\ [NextTurns]_<<vars, turns>> => RInv'
  BY TurnStep
<1> QED BY <1>1, <1>2, <1>3, PTL DEF SpecTurns
-----------------------------------------------------------------------------
(* The promise of the outbox.  The history met covers everyone who is      *)
(* eligible now and everyone on a page in hand, so a page that is          *)
(* committed, however late, reaches only users who once followed the DRep; *)
(* the rest of the promise is NoFollowerMissed and the unique index.       *)

\* Only written jobs were met by someone.
MetNone == \A j \in Jobs \ Written : met[j] = {}

\* Who is eligible for a written job was met.
MetEligible == \A j \in Written : Eligible(j) \subseteq met[j]

\* So was everyone on a page in hand, also those who follow another DRep by now.
PagesMet == \A r \in Runs : pc[r] = "page" => hand[r].users \subseteq met[hand[r].of.job]

MInv == IInv /\ met \in [Jobs -> SUBSET Users] /\ MetNone /\ MetEligible /\ PagesMet

\* A step that leaves follows and jobs alone changes nobody's chances.
LEMMA MetQuiet == ASSUME MInv, Meet, UNCHANGED <<follow, jobVars>> PROVE met' = met
<1>1. Written' = Written /\ \A j \in Jobs : Eligible(j)' = Eligible(j)
  BY DEF Written, Eligible, jobVars
<1>2. \A j \in Jobs : (IF j \in Written' THEN met[j] \cup Eligible(j)' ELSE {}) = met[j]
  BY <1>1 DEF MInv, MetNone, MetEligible, Written
<1>3. met' = [j \in Jobs |-> met[j]]
  BY <1>2 DEF Meet
<1> QED BY <1>3 DEF MInv

\* The history of a step: nobody is forgotten, and who may be told now is noted.
LEMMA MetGrows ==
    ASSUME MInv, Meet, Written \subseteq Written'
    PROVE  /\ met' \in [Jobs -> SUBSET Users] /\ MetNone' /\ MetEligible'
           /\ \A j \in Jobs : met[j] \subseteq met'[j]
<1>1. \A j \in Jobs : met'[j] = IF j \in Written' THEN met[j] \cup Eligible(j)' ELSE {}
  BY DEF Meet
<1>2. \A j \in Jobs : Eligible(j)' \subseteq Users
  BY DEF Eligible
<1>3. met' \in [Jobs -> SUBSET Users]
  <2>1. \A j \in Jobs : (IF j \in Written' THEN met[j] \cup Eligible(j)' ELSE {}) \in SUBSET Users
    BY <1>2 DEF MInv
  <2> QED BY <2>1 DEF Meet
<1>4. Written' \subseteq Jobs
  BY DEF Written
<1>5. MetNone' /\ MetEligible'
  BY <1>1, <1>4 DEF MetNone, MetEligible
<1>6. \A j \in Jobs : met[j] \subseteq met'[j]
  BY <1>1 DEF MInv, MetNone
<1> QED BY <1>3, <1>5, <1>6

\* A job that was written stays written.
LEMMA WrittenGrows == ASSUME TypeOK, [Next]_vars PROVE Written \subseteq Written'
<1>1. ASSUME NEW j \in Jobs, NEW at \in 0..clock, NEW event \in 0..clock, CreateJob(j, at, event)
      PROVE  Written \subseteq Written'
  BY <1>1 DEF CreateJob, Written, TypeOK
<1>2. ASSUME NEW r \in Runs, CommitPage(r) PROVE Written \subseteq Written'
  BY <1>2 DEF CommitPage, StepJob, Written, TypeOK
<1>3. CASE UNCHANGED status
  BY <1>3 DEF Written
<1> QED BY <1>1, <1>2, <1>3 DEF Next, RunStep, Tick, Resolve, StartRun, ListJobs, Defer, ReadPage, EndPass,
                                Abort, vars, jobVars

\* A page comes into a hand when it is read, from those eligible then.
LEMMA MetStep == ASSUME MInv, [NextMet]_<<vars, met>> PROVE MInv'
<1>1. CASE UNCHANGED <<vars, met>>
  <2>1. IInv'
    BY <1>1, StepInv DEF MInv
  <2>2. Written' = Written /\ \A j \in Jobs : Eligible(j)' = Eligible(j)
    BY <1>1 DEF Written, Eligible, vars, jobVars
  <2>3. MetNone' /\ MetEligible'
    BY <1>1, <2>2 DEF MInv, MetNone, MetEligible, Written
  <2>4. PagesMet'
    BY <1>1 DEF MInv, PagesMet, vars, runVars
  <2> QED BY <1>1, <2>1, <2>3, <2>4 DEF MInv
<1>2. CASE NextMet
  <2>1. Next /\ Meet
    BY <1>2 DEF NextMet
  <2>2. IInv'
    BY <2>1, StepInv DEF MInv
  <2>3. /\ met' \in [Jobs -> SUBSET Users] /\ MetNone' /\ MetEligible'
        /\ \A j \in Jobs : met[j] \subseteq met'[j]
    <3>1. Written \subseteq Written'
      BY <2>1, WrittenGrows DEF MInv, IInv
    <3> QED BY <2>1, <3>1, MetGrows
  <2>4. ASSUME \A q \in Runs : pc'[q] = "page" => pc[q] = "page" /\ hand'[q] = hand[q] PROVE PagesMet'
    <3>1. \A q \in Runs : hand[q].of.job \in Jobs
      BY DEF MInv, IInv, TypeOK, Listing
    <3> QED BY <2>3, <2>4, <3>1 DEF MInv, PagesMet
  <2>5. ASSUME NEW r \in Runs, ReadPage(r) PROVE PagesMet'
    <3>1. PICK l \in todo[r], P \in SUBSET Users, u \in Users \cup {0} :
            PageOf(l, P) /\ hand' = [hand EXCEPT ![r] = [of |-> l, users |-> P, last |-> u]]
      BY <2>5 DEF ReadPage
    <3>2. l \in Listing /\ l.job \in Written
      <4>1. l \in Listing /\ l.job \in Jobs
        BY DEF MInv, IInv, TypeOK, Listing
      <4> QED BY <4>1 DEF MInv, IInv, Unwritten, Written
    <3>3. P \subseteq met[l.job]
      BY <3>1, <3>2 DEF PageOf, MInv, MetEligible
    <3>4. l.job \in Jobs /\ P \subseteq met'[l.job]
      BY <2>3, <3>2, <3>3 DEF Written
    <3>5. /\ hand'[r].of = l /\ hand'[r].users = P
          /\ \A q \in Runs \ {r} : hand'[q] = hand[q] /\ pc'[q] = pc[q]
      BY <2>5, <3>1 DEF MInv, IInv, TypeOK, ReadPage
    <3>6. \A q \in Runs : hand[q].of.job \in Jobs
      BY DEF MInv, IInv, TypeOK, Listing
    <3> QED BY <2>3, <3>4, <3>5, <3>6 DEF MInv, PagesMet
  <2>6. ASSUME NEW r \in Runs, StartRun(r) \/ ListJobs(r) \/ Defer(r) \/ CommitPage(r) \/ EndPass(r) \/ Abort(r)
        PROVE  \A q \in Runs : pc'[q] = "page" => pc[q] = "page" /\ hand'[q] = hand[q]
    <3>1. CASE StartRun(r) \/ ListJobs(r) \/ Defer(r) \/ EndPass(r)
      BY <3>1 DEF MInv, IInv, TypeOK, StartRun, ListJobs, Defer, EndPass, EndRun
    <3>2. CASE CommitPage(r) \/ Abort(r)
      BY <3>2 DEF MInv, IInv, TypeOK, CommitPage, Abort, EndRun
    <3> QED BY <2>6, <3>1, <3>2
  <2>7. ASSUME UNCHANGED <<pc, hand>> PROVE PagesMet'
    BY <2>4, <2>7
  <2>8. PagesMet'
    BY <2>1, <2>4, <2>5, <2>6, <2>7 DEF Next, RunStep, Tick, Resolve, CreateJob, runVars
  <2> QED BY <2>2, <2>3, <2>8 DEF MInv
<1> QED BY <1>1, <1>2

Done == {j \in Jobs : status[j] = "done"}

\* buildJobInsert is a Write.
LEMMA CreateIsWrite ==
    ASSUME MInv, Meet, NEW j \in Jobs, NEW at \in 0..clock, NEW event \in 0..clock, CreateJob(j, at, event)
    PROVE  Deliveries!Write(j, steady'[j])
<1>1. status[j] = "absent" /\ status' = [status EXCEPT ![j] = "open"] /\ src' = [src EXCEPT ![j] = event]
  BY DEF CreateJob
<1>2. j \notin Written /\ Written' = Written \cup {j} /\ Done' = Done
  BY <1>1 DEF Written, Done, MInv, IInv, TypeOK
<1>3. steady' = [steady EXCEPT ![j] = steady'[j]] /\ steady'[j] = Eligible(j)'
  BY <1>1 DEF CreateJob, Eligible, MInv, IInv, TypeOK
<1>4. \A k \in Jobs \ {j} : Eligible(k)' = Eligible(k)
  BY <1>1 DEF CreateJob, Eligible, MInv, IInv, TypeOK
<1>5. ASSUME NEW k \in Jobs
      PROVE  (IF k \in Written' THEN met[k] \cup Eligible(k)' ELSE {}) = IF k = j THEN steady'[j] ELSE met[k]
  <2>1. CASE k = j
    BY <1>2, <1>3, <2>1 DEF MInv, MetNone
  <2>2. CASE k # j /\ k \in Written
    BY <1>2, <1>4, <2>2 DEF MInv, MetEligible
  <2>3. CASE k # j /\ k \notin Written
    BY <1>2, <2>3 DEF MInv, MetNone
  <2> QED BY <2>1, <2>2, <2>3
<1>6. met' = [met EXCEPT ![j] = steady'[j]]
  <2>1. met' = [k \in Jobs |-> IF k = j THEN steady'[j] ELSE met[k]]
    BY <1>5 DEF Meet
  <2> QED BY <2>1 DEF MInv
<1>7. inbox' = inbox
  BY DEF CreateJob
<1> QED BY <1>2, <1>3, <1>6, <1>7 DEF Deliveries!Write, Done

\* A follow that changes is a Move to the jobs its user is eligible for now.
LEMMA ResolveIsMove ==
    ASSUME MInv, Meet, NEW u \in Users, NEW d \in Dreps \cup {NoDrep}, NEW at \in 0..clock, Resolve(u, d, at)
    PROVE  Deliveries!Move(u, {j \in Written : u \in Eligible(j)'})
<1> DEFINE S == {j \in Written : u \in Eligible(j)'}
<1>1. UNCHANGED <<jobVars, inbox>> /\ steady' = [j \in Jobs |-> steady[j] \ {u}]
  BY DEF Resolve
<1>2. Written' = Written /\ Done' = Done
  BY <1>1 DEF Written, Done, jobVars
<1>3. \A j \in Jobs : Eligible(j)' \subseteq Eligible(j) \cup {u}
  BY <1>1 DEF Resolve, Eligible, MInv, IInv, TypeOK, jobVars
<1>4. ASSUME NEW j \in Jobs
      PROVE  (IF j \in Written' THEN met[j] \cup Eligible(j)' ELSE {}) = IF j \in S THEN met[j] \cup {u} ELSE met[j]
  BY <1>2, <1>3 DEF MInv, MetNone, MetEligible
<1>5. met' = [j \in Jobs |-> IF j \in S THEN met[j] \cup {u} ELSE met[j]]
  BY <1>4 DEF Meet
<1> HIDE DEF S
<1>6. S \subseteq Written
  BY DEF S
<1> QED BY <1>1, <1>2, <1>5, <1>6 DEF Deliveries!Move, S, Done

\* A page that is committed is a Tell of those on it who have no row yet, and a
\* Close when the page was not full.
LEMMA CommitIsTell ==
    ASSUME MInv, IInv', Meet, NEW r \in Runs, CommitPage(r)
    PROVE  \E j \in Jobs, A \in SUBSET Users :
             Deliveries!Tell(j, A) /\ (Deliveries!Close(j) \/ UNCHANGED Done)
<1>0. PICK h \in [of : Listing, users : SUBSET Users, last : Users \cup {0}] : h = hand[r]
  BY DEF MInv, IInv, TypeOK
<1> DEFINE P == h.users
           j == h.of.job
           A == {u \in P : inbox[u][j] = 0}
<1>1. /\ pc[r] = "page" /\ inbox' = Insert(P, j) /\ StepJob(j, h, now[r])
      /\ UNCHANGED <<follow, src, steady>>
  BY <1>0 DEF CommitPage
<1>2. j \in Jobs /\ P \in SUBSET Users /\ A \in SUBSET Users
  BY DEF Listing
<1>3. j \in Written /\ P \subseteq met[j]
  BY <1>0, <1>1, <1>2 DEF MInv, IInv, Unwritten, Written, PagesMet
<1>4. Written' = Written /\ \/ Done' = Done
                            \/ Done' = Done \cup {j}
  BY <1>1, <1>2, <1>3 DEF StepJob, Written, Done, MInv, IInv, TypeOK
<1>5. met' = met
  <2>1. \A k \in Jobs : Eligible(k)' = Eligible(k)
    BY <1>1 DEF Eligible
  <2>2. \A k \in Jobs : (IF k \in Written' THEN met[k] \cup Eligible(k)' ELSE {}) = met[k]
    BY <1>4, <2>1 DEF MInv, MetNone, MetEligible
  <2>3. met' = [k \in Jobs |-> met[k]]
    BY <2>2 DEF Meet
  <2> QED BY <2>3 DEF MInv
<1>6. inbox' = [u \in Users |-> [inbox[u] EXCEPT ![j] = IF u \in A THEN 1 ELSE @]]
  <2>1. ASSUME NEW u \in Users
        PROVE  [inbox[u] EXCEPT ![j] = IF u \in P /\ @ = 0 THEN 1 ELSE @]
                 = [inbox[u] EXCEPT ![j] = IF u \in A THEN 1 ELSE @]
    OBVIOUS
  <2> QED BY <1>1, <2>1 DEF Insert
<1> HIDE DEF A
<1>7. Deliveries!Tell(j, A)
  <2>1. A \subseteq met[j] /\ \A u \in A : inbox[u][j] = 0
    BY <1>3 DEF A
  <2> QED BY <1>1, <1>4, <1>5, <1>6, <2>1 DEF Deliveries!Tell
<1>8. ASSUME Done' = Done \cup {j} PROVE Deliveries!Close(j)
  <2>1. \A u \in steady[j] : inbox'[u][j] > 0
    BY <1>1, <1>2, <1>8 DEF IInv, NoFollowerMissed, Done
  <2> QED BY <1>3, <1>8, <2>1 DEF Deliveries!Close, Done
<1> QED BY <1>2, <1>4, <1>7, <1>8

\* The outbox implements Outbox: whatever runs overlap or stop, an event reaches
\* nobody twice and nobody who never followed its DRep, and is closed when it is
\* owed to nobody (runFanout, processOnePage).
THEOREM FanoutImplementsOutbox == SpecMet => Promise
<1>1. InitMet => MInv /\ Deliveries!Init
  <2> SUFFICES ASSUME InitMet PROVE MInv /\ Deliveries!Init
    OBVIOUS
  <2>1. Init /\ met = [j \in Jobs |-> {}]
    BY DEF InitMet
  <2>2. IInv /\ Written = {} /\ \A r \in Runs : pc[r] # "page"
    BY <2>1, InitInv DEF Init, Written
  <2>3. MInv
    BY <2>1, <2>2 DEF MInv, MetNone, MetEligible, PagesMet
  <2>4. Deliveries!Init
    BY <2>1, <2>2 DEF Init, Deliveries!Init
  <2> QED BY <2>3, <2>4
<1>2. MInv /\ [NextMet]_<<vars, met>> => MInv'
  BY MetStep
<1>3. MInv /\ MInv' /\ [NextMet]_<<vars, met>> => [Deliveries!Next]_Deliveries!vars
  <2> SUFFICES ASSUME MInv, MInv', [NextMet]_<<vars, met>> PROVE Deliveries!Next \/ UNCHANGED Deliveries!vars
    OBVIOUS
  <2>1. CASE UNCHANGED <<vars, met>>
    BY <2>1 DEF vars, jobVars, Deliveries!vars, Written
  <2>2. ASSUME Meet, UNCHANGED <<follow, jobVars, inbox, steady>> PROVE UNCHANGED Deliveries!vars
    <3>1. met' = met
      BY <2>2, MetQuiet
    <3> QED BY <2>2, <3>1 DEF Deliveries!vars, Written, jobVars
  <2>3. CASE NextMet
    <3>1. Next /\ Meet
      BY <2>3 DEF NextMet
    <3>2. ASSUME NEW u \in Users, NEW d \in Dreps \cup {NoDrep}, NEW at \in 0..clock, Resolve(u, d, at)
          PROVE  Deliveries!Next
      <4>1. Deliveries!Move(u, {j \in Written : u \in Eligible(j)'})
        BY <3>1, <3>2, ResolveIsMove
      <4>2. {j \in Written : u \in Eligible(j)'} \in SUBSET Jobs
        BY DEF Written
      <4> QED BY <4>1, <4>2 DEF Deliveries!Next
    <3>3. ASSUME NEW j \in Jobs, NEW at \in 0..clock, NEW event \in 0..clock, CreateJob(j, at, event)
          PROVE  Deliveries!Next
      <4>1. Deliveries!Write(j, steady'[j])
        BY <3>1, <3>3, CreateIsWrite
      <4>2. steady'[j] \in SUBSET Users
        BY DEF MInv, IInv, TypeOK
      <4> QED BY <4>1, <4>2 DEF Deliveries!Next
    <3>4. ASSUME NEW r \in Runs, CommitPage(r) PROVE Deliveries!Next
      BY <3>1, <3>4, CommitIsTell DEF MInv, Deliveries!Next, Done
    <3>5. CASE Tick \/ \E r \in Runs : \/ StartRun(r) \/ ListJobs(r) \/ Defer(r) \/ ReadPage(r)
                                       \/ EndPass(r) \/ Abort(r)
      <4>1. UNCHANGED <<follow, jobVars, inbox, steady>>
        BY <3>5 DEF Tick, StartRun, ListJobs, Defer, ReadPage, EndPass, Abort
      <4> QED BY <2>2, <3>1, <4>1
    <3> QED BY <3>1, <3>2, <3>3, <3>4, <3>5 DEF Next, RunStep
  <2> QED BY <2>1, <2>3
<1> QED BY <1>1, <1>2, <1>3, PTL DEF SpecMet, Promise, Deliveries!Spec
=============================================================================

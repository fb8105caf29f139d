------------------------ MODULE DelegationFollowProofs ------------------------
(***************************************************************************)
(* Proofs about DelegationFollow, for every value of its constants: users,  *)
(* tasks in flight, intervals and bounds.                                  *)
(*                                                                         *)
(* IInv is inductive.  RowConsistent alone is not: a row is stamped only    *)
(* because the task that resolves it works on a row that exists (RowsExist) *)
(* with a time that is not NULL (Stamps), and TypeOK needs every answer to  *)
(* name a delegation of its wallet (Positions).  Resolved is added for      *)
(* ChangeToldOnce: a change is told only of a row that had a delegation.    *)
(*                                                                         *)
(* DInv adds what bounds the delay of a row: no task outlives its clock     *)
(* unit (Present), a stale answer comes only in the unit of the move        *)
(* (AnswersNew, SameSeen), time does not pass over a due row (Cadence), so  *)
(* a row that is behind owes each interval since the move to a counted      *)
(* failure (Lag), and the expectation outlives that delay (OwnKnown).       *)
(***************************************************************************)
EXTENDS DelegationFollow, TLAPS, FiniteSetTheorems, SequenceTheorems

\* Every answer names a delegation of its wallet, and a settled history has one
\* before the newest.
Positions ==
    /\ \A u \in Users : /\ Newest(u) >= 1
                        /\ wallet[u].moved > 0 => Newest(u) >= 2
    /\ \A t \in Tasks, u \in Users : task[t].answer[u] <= Newest(u)
    /\ \A t \in Tasks : task[t].at = "change" => task[t].answer[task[t].user] > 0

\* Time stamps are not NULL.
Stamps ==
    /\ clock >= 1
    /\ \A t \in Tasks : task[t].at # "idle" => task[t].now >= 1

\* Tasks work on rows that exist.
Worked(w) == w.batch \cup w.todo \cup (IF w.at = "change" THEN {w.user} ELSE {})
RowsExist == \A t \in Tasks : \A u \in Worked(task[t]) : row[u].tracked

IInv == TypeOK /\ Positions /\ Stamps /\ RowsExist /\ RowConsistent

-----------------------------------------------------------------------------
\* A task that is over is a task.
LEMMA RestingType == Resting \in Task
<1>1. (CHOOSE s \in Seconds : TRUE) \in Seconds
  BY FollowAssumption DEF FollowAssumption
<1>2. (CHOOSE u \in Users : TRUE) \in Users
  BY FollowAssumption DEF FollowAssumption
<1> QED BY <1>1, <1>2 DEF Resting, Task, Step, Lookup, Nothing

\* A batch has a whole number of rows.
LEMMA BatchSize == ASSUME NEW S \in SUBSET Users PROVE Cardinality(S) \in Nat
BY FollowAssumption, FS_Subset, FS_CardinalityType DEF FollowAssumption

\* The epoch of a start is a whole number.
LEMMA StartType == ASSUME NEW u \in Users, NEW p \in Nat PROVE StartOf(u, p) \in Nat
<1> DEFINE S == {k \in 1..p : \E i \in k..p : State(u, i) # NoDrep}
<1>1. IsFiniteSet(1..p)
  BY FS_Interval
<1>2. IsFiniteSet(S)
  BY <1>1, FS_Subset
<1> QED BY <1>2, FS_CardinalityType DEF StartOf

\* Heard names a position of the wallet, and one at least.
LEMMA HeardType ==
    ASSUME TypeOK, Positions, Stamps, NEW u \in Users, NEW late,
           u \in late => Unsettled(u)
    PROVE  Heard(u, late) \in Nat /\ Heard(u, late) >= 1 /\ Heard(u, late) <= Newest(u)
<1>1. Newest(u) \in Nat
  BY DEF TypeOK, Wallet, Newest
<1>2. u \in late => Newest(u) >= 2
  BY DEF Unsettled, Positions, Stamps, TypeOK, Wallet
<1> QED BY <1>1, <1>2 DEF Heard, Positions

\* The delegation at a position of the wallet is a resolved state.
LEMMA StateType ==
    ASSUME TypeOK, NEW u \in Users, NEW p \in Nat, p >= 1, p <= Newest(u)
    PROVE  State(u, p) \in Dreps \cup {NoDrep}
<1>1. wallet[u].history \in Seq(Dreps \cup {NoDrep})
  BY DEF TypeOK, Wallet
<1>2. p \in 1..Len(wallet[u].history)
  BY <1>1 DEF Newest
<1> QED BY <1>1, <1>2, ElementOfSeq DEF State

\* Stamping a row leaves it a row.
LEMMA StampedType == ASSUME NEW r \in Row, NEW n \in Nat PROVE Stamped(r, n) \in Row
BY FollowAssumption DEF Stamped, Row, FollowAssumption

\* Recording a start leaves a row.
LEMMA CapturedType ==
    ASSUME NEW r \in Row, NEW n \in Nat, NEW s \in Lookup PROVE Captured(r, n, s) \in Row
<1>1. Tries(r.tries, s) \in Nat
  BY DEF Row, Lookup, Tries
<1>2. s.epoch \in Nat
  BY DEF Lookup
<1> QED BY <1>1, <1>2 DEF Captured, Row

\* A new notice has a key.
LEMMA NoticeType ==
    ASSUME TypeOK, NEW t \in Tasks, NEW u \in Users
    PROVE  Notice(t, u) \in SUBSET [now : Nat, second : Seconds, of : Nat]
<1>1. task[t].now \in Nat /\ task[t].second \in Seconds /\ task[t].answer[u] \in Nat
  BY DEF TypeOK, Task
<1>2. inbox[u] \in SUBSET [now : Nat, second : Seconds, of : Nat]
  BY DEF TypeOK
<1> QED BY <1>1, <1>2 DEF Notice

\* After a row is applied the task is a task.
LEMMA AppliedType ==
    ASSUME TypeOK, NEW t \in Tasks, NEW u \in Users, NEW b \in BOOLEAN, Applied(t, u, b)
    PROVE  task' \in [Tasks -> Task]
<1> DEFINE a == AfterRow(t, u, b)
<1>1. a \in Step
  BY DEF AfterRow, NextRow, Step
<1>2. (b /\ t \in Logins) \in BOOLEAN
  OBVIOUS
<1> DEFINE w == [task[t] EXCEPT !.todo = @ \ {u}, !.fresh = b /\ t \in Logins, !.at = a]
<1>3. task' = [task EXCEPT ![t] = w]
  BY DEF Applied
<1>4. task[t] \in Task
  BY DEF TypeOK
<1> HIDE DEF a
<1>5. w \in Task
  BY <1>1, <1>2, <1>4 DEF Task
<1> QED BY <1>3, <1>5 DEF TypeOK

\* Every step keeps the types.
LEMMA TypeStep == ASSUME IInv, [Next]_vars PROVE TypeOK'
<1> USE DEF IInv
<1>1. CASE Tick
  <2>1. wallet' \in [Users -> Wallet]
    BY <1>1 DEF Tick, TypeOK, Wallet
  <2> QED BY <1>1, <2>1 DEF Tick, TypeOK, bounds
<1>2. ASSUME NEW u \in Users, Land(u) PROVE TypeOK'
  <2>1. wallet'[u] \in Wallet
    <3> DEFINE d == wallet[u].submitted
               w == Extend(wallet[u], d)
    <3>1. d \in Dreps \cup {NoDrep} /\ wallet[u] \in Wallet
      BY <1>2 DEF Land, TypeOK, Wallet
    <3>2. Append(wallet[u].history, d) \in Seq(Dreps \cup {NoDrep}) /\ Newest(u) + 1 \in Nat
      BY <3>1, AppendProperties DEF Wallet, Newest
    <3> HIDE DEF d
    <3>3. w \in Wallet
      BY <3>1, <3>2 DEF Extend, Wallet, TypeOK
    <3>4. wallet'[u] = [w EXCEPT !.submitted = Unset, !.own = @ \cup {Newest(u) + 1}]
      BY <1>2 DEF Land, TypeOK, d
    <3> HIDE DEF w
    <3>5. Newest(u) + 1 \in Nat
      BY <3>2
    <3> QED BY <3>3, <3>4, <3>5 DEF Wallet
  <2> QED BY <1>2, <2>1 DEF Land, TypeOK
<1>3. ASSUME NEW u \in Users, NEW d \in Dreps \cup {NoDrep}, Delegate(u, d) PROVE TypeOK'
  <2>1. wallet'[u] \in Wallet
    <3>1. wallet[u] \in Wallet
      BY DEF TypeOK
    <3>2. Append(wallet[u].history, d) \in Seq(Dreps \cup {NoDrep}) /\ clock \in Nat
      BY <3>1, AppendProperties DEF Wallet, TypeOK
    <3>3. Extend(wallet[u], d) \in Wallet
      BY <3>1, <3>2 DEF Extend, Wallet
    <3> QED BY <1>3, <3>3 DEF Delegate, TypeOK
  <2> QED BY <1>3, <2>1 DEF Delegate, TypeOK
<1>4. ASSUME NEW t \in Logins, NEW u \in Users, NEW s \in Seconds, NEW b \in BOOLEAN,
             SignIn(t, u, s, b)
      PROVE  TypeOK'
  <2>1. row' \in [Users -> Row]
    BY <1>4 DEF SignIn, TypeOK, Row
  <2>2. task'[t] \in Task
    <3> DEFINE a == IF b THEN "expect" ELSE "ask"
    <3>1. a \in Step
      BY DEF Step
    <3>2. clock \in Nat /\ {u} \in SUBSET Users
      BY DEF TypeOK
    <3>3. task'[t] = [Resting EXCEPT !.at = a, !.now = clock, !.second = s,
                                     !.batch = {u}, !.todo = {u}, !.user = u]
      BY <1>4 DEF SignIn, TypeOK, Tasks
    <3> HIDE DEF a
    <3> QED BY <3>1, <3>2, <3>3, RestingType DEF Task
  <2>3. task' \in [Tasks -> Task]
    BY <1>4, <2>2 DEF SignIn, TypeOK, Tasks
  <2> QED BY <1>4, <2>1, <2>3 DEF SignIn, TypeOK
<1>5. ASSUME NEW t \in Logins, NEW d \in Dreps, Expect(t, d) PROVE TypeOK'
  <2>1. task[t] \in Task
    BY DEF TypeOK, Tasks
  <2> DEFINE u == task[t].user
  <2>4. u \in Users /\ task[t].now \in Nat
    BY <2>1 DEF Task
  <2>5. [row[u] EXCEPT !.expAt = task[t].now] \in Row
    BY <2>4 DEF TypeOK, Row
  <2>6. [wallet[u] EXCEPT !.submitted = d] \in Wallet
    BY <2>4 DEF TypeOK, Wallet
  <2>2. row' \in [Users -> Row] /\ wallet' \in [Users -> Wallet] /\ faults' \in Nat
    BY <1>5, <2>4, <2>5, <2>6 DEF Expect, TypeOK
  <2>3. task' \in [Tasks -> Task]
    BY <1>5, <2>1 DEF Expect, TypeOK, Task, Step
  <2> QED BY <1>5, <2>2, <2>3 DEF Expect, TypeOK
<1>6. ASSUME NEW t \in Logins, Retry(t) PROVE TypeOK'
  <2>1. ReadSinceAt \in [Users -> Nat] /\ [u \in Users |-> row[u].drep] \in [Users -> Dreps \cup {NoDrep, Unset}]
    BY DEF ReadSinceAt, TypeOK, Row
  <2>3. task[t] \in Task
    BY DEF TypeOK, Tasks
  <2>2. Reading(task[t]) \in Task
    BY <2>1, <2>3 DEF Reading, Task, Step
  <2> QED BY <1>6, <2>2, RestingType DEF Retry, TypeOK, bounds
<1>7. ASSUME NEW t \in Logins, WriteFlat(t) PROVE TypeOK'
  <2>1. /\ task[t].user \in Users /\ task[t].now \in Nat
        /\ task[t].start[task[t].user] \in Lookup
    BY DEF TypeOK, Task, Tasks
  <2>2. row' \in [Users -> Row]
    BY <1>7, <2>1, CapturedType DEF WriteFlat, TypeOK
  <2> QED BY <1>7, <2>2, RestingType DEF WriteFlat, TypeOK, bounds
<1>8. ASSUME NEW t \in Crons, NEW s \in Seconds, RefreshBulk(t, s) PROVE TypeOK'
  <2>1. PICK S \in SUBSET Due :
          task' = [task EXCEPT ![t] = [Resting EXCEPT
                     !.at = "ask", !.now = clock, !.second = s, !.batch = S, !.todo = S]]
    BY <1>8 DEF RefreshBulk
  <2>2. S \in SUBSET Users /\ clock \in Nat
    BY DEF Due, TypeOK
  <2>3. [Resting EXCEPT !.at = "ask", !.now = clock, !.second = s, !.batch = S, !.todo = S] \in Task
    BY <2>2, RestingType DEF Task, Step
  <2> QED BY <1>8, <2>1, <2>3 DEF RefreshBulk, TypeOK, bounds
<1>9. ASSUME NEW t \in Crons, AskFails(t) PROVE TypeOK'
  <2>1. task[t].now \in Nat /\ task[t].batch \in SUBSET Users
    BY DEF TypeOK, Task, Tasks
  <2>2. failures' \in Nat
    BY <1>9, <2>1, BatchSize DEF AskFails, TypeOK
  <2>3. row' \in [Users -> Row]
    BY <1>9, <2>1 DEF AskFails, TypeOK, Row
  <2> QED BY <1>9, <2>2, <2>3, RestingType DEF AskFails, TypeOK
<1>10. ASSUME NEW t \in Crons, ListMissing(t) PROVE TypeOK'
  <2>1. PICK S \in SUBSET task[t].batch :
          task' = IF S = {} THEN [task EXCEPT ![t] = Resting]
                  ELSE [task EXCEPT ![t] = [Reading(task[t]) EXCEPT !.batch = S]]
    BY <1>10 DEF ListMissing
  <2>2. ReadSinceAt \in [Users -> Nat] /\ [u \in Users |-> row[u].drep] \in [Users -> Dreps \cup {NoDrep, Unset}]
    BY DEF ReadSinceAt, TypeOK, Row
  <2>3. task[t] \in Task /\ S \in SUBSET Users
    BY DEF TypeOK, Task, Tasks
  <2>4. [Reading(task[t]) EXCEPT !.batch = S] \in Task
    BY <2>2, <2>3 DEF Reading, Task, Step
  <2> QED BY <1>10, <2>1, <2>4, RestingType DEF ListMissing, TypeOK, bounds, Tasks
<1>11. ASSUME NEW t \in Tasks, Ask(t) PROVE TypeOK'
  <2>1. PICK got \in SUBSET task[t].batch :
          /\ failures' = failures + Cardinality(task[t].batch \ got)
          /\ \E late \in SUBSET {u \in got : Unsettled(u)} :
               task' = [task EXCEPT ![t] = [task[t] EXCEPT !.at = "apply",
                          !.answer = [u \in Users |-> IF u \in got THEN Heard(u, late) ELSE 0]]]
    BY <1>11 DEF Ask
  <2>2. PICK late \in SUBSET {u \in got : Unsettled(u)} :
          task' = [task EXCEPT ![t] = [task[t] EXCEPT !.at = "apply",
                     !.answer = [u \in Users |-> IF u \in got THEN Heard(u, late) ELSE 0]]]
    BY <2>1
  <2>3. [u \in Users |-> IF u \in got THEN Heard(u, late) ELSE 0] \in [Users -> Nat]
    BY HeardType
  <2> DEFINE f == [u \in Users |-> IF u \in got THEN Heard(u, late) ELSE 0]
  <2>7. task' = [task EXCEPT ![t] = [task[t] EXCEPT !.at = "apply", !.answer = f]]
    BY <2>2
  <2>8. f \in [Users -> Nat] /\ task[t] \in Task
    BY <2>3 DEF TypeOK
  <2> HIDE DEF f
  <2>9. [task[t] EXCEPT !.at = "apply", !.answer = f] \in Task
    BY <2>8 DEF Task, Step
  <2>4. task' \in [Tasks -> Task]
    BY <2>7, <2>9 DEF TypeOK
  <2>5. task[t].batch \ got \in SUBSET Users
    BY DEF TypeOK, Task
  <2>6. failures' \in Nat
    BY <2>1, <2>5, BatchSize DEF TypeOK
  <2> QED BY <1>11, <2>4, <2>6 DEF Ask, TypeOK
<1>12. ASSUME NEW t \in Tasks, ApplyChange(t) PROVE TypeOK'
  <2> DEFINE u == task[t].user
             d == State(u, task[t].answer[u])
  <2>1. task[t] \in Task /\ u \in Users /\ task[t].now \in Nat /\ task[t].answer[u] \in Nat
    BY DEF TypeOK, Task
  <2>2. d \in Dreps \cup {NoDrep}
    BY <1>12, <2>1, StateType DEF ApplyChange, Positions
  <2>3. inbox' \in [Users -> SUBSET [now : Nat, second : Seconds, of : Nat]]
    BY <1>12, <2>1, NoticeType DEF ApplyChange, TypeOK
  <2>4. Stamped(row[u], task[t].now) \in Row
    BY <2>1, StampedType DEF TypeOK
  <2>5. [Stamped(row[u], task[t].now) EXCEPT !.drep = d, !.since = 0, !.sinceAt = 0, !.tries = 0] \in Row
    BY <2>2, <2>4 DEF Row
  <2>6. row' \in [Users -> Row]
    BY <1>12, <2>1, <2>5 DEF ApplyChange, TypeOK
  <2>7. CASE row[u].drep # d
    BY <1>12, <2>1, <2>3, <2>6, <2>7, AppliedType DEF ApplyChange, TypeOK, bounds
  <2>8. CASE row[u].drep = d
    <3>2. [task[t] EXCEPT !.at = "same"] \in Task
      BY <2>1 DEF Task, Step
    <3>1. task' \in [Tasks -> Task]
      BY <1>12, <2>8, <3>2 DEF ApplyChange, TypeOK
    <3> QED BY <1>12, <2>3, <2>6, <3>1 DEF ApplyChange, TypeOK, bounds
  <2> QED BY <2>7, <2>8
<1>13. ASSUME NEW t \in Tasks, ApplySame(t) PROVE TypeOK'
  <2> DEFINE u == task[t].user
  <2>1. u \in Users /\ task[t].now \in Nat
    BY DEF TypeOK, Task
  <2>2. row' \in [Users -> Row]
    BY <1>13, <2>1, StampedType DEF ApplySame, TypeOK
  <2> QED BY <1>13, <2>1, <2>2, AppliedType DEF ApplySame, TypeOK, bounds
<1>14. ASSUME NEW t \in Tasks, LookUp(t) PROVE TypeOK'
  <2> DEFINE B == task[t].batch
  <2>1. PICK threw \in BOOLEAN, got \in SUBSET B :
          /\ threw => got = {}
          /\ \E late \in SUBSET {u \in got : Unsettled(u)} :
            task' = [task EXCEPT ![t] = [task[t] EXCEPT !.at = "write", !.todo = B, !.start =
              [u \in Users |->
                 [epoch  |-> IF u \in got THEN StartOf(u, Heard(u, late)) ELSE 0,
                  failed |-> u \in B /\ (threw \/ (u \notin got /\ Cardinality(B) > 1))]]]]
    BY <1>14 DEF LookUp
  <2>2. PICK late \in SUBSET {u \in got : Unsettled(u)} :
            task' = [task EXCEPT ![t] = [task[t] EXCEPT !.at = "write", !.todo = B, !.start =
              [u \in Users |->
                 [epoch  |-> IF u \in got THEN StartOf(u, Heard(u, late)) ELSE 0,
                  failed |-> u \in B /\ (threw \/ (u \notin got /\ Cardinality(B) > 1))]]]]
    BY <2>1
  <2> DEFINE f == [u \in Users |->
                     [epoch  |-> IF u \in got THEN StartOf(u, Heard(u, late)) ELSE 0,
                      failed |-> u \in B /\ (threw \/ (u \notin got /\ Cardinality(B) > 1))]]
  <2>3. \A u \in Users : u \in got => StartOf(u, Heard(u, late)) \in Nat
    BY HeardType, StartType
  <2>4. f \in [Users -> Lookup]
    BY <2>1, <2>3 DEF Lookup
  <2>5. task' = [task EXCEPT ![t] = [task[t] EXCEPT !.at = "write", !.todo = B, !.start = f]]
    BY <2>2
  <2>6. task[t] \in Task /\ B \in SUBSET Users
    BY DEF TypeOK, Task
  <2> HIDE DEF f, B
  <2>8. [task[t] EXCEPT !.at = "write", !.todo = B, !.start = f] \in Task
    BY <2>4, <2>6 DEF Task, Step
  <2>7. task' \in [Tasks -> Task]
    BY <2>5, <2>8 DEF TypeOK
  <2> QED BY <1>14, <2>7 DEF LookUp, TypeOK, bounds
<1>15. ASSUME NEW t \in Tasks, Evict(t) PROVE TypeOK'
  BY <1>15, RestingType DEF Evict, TypeOK
<1>16. ASSUME NEW t \in Tasks, NEW u \in Users, ApplyError(t, u) PROVE TypeOK'
  <2>2. task[t].now \in Nat
    BY DEF TypeOK, Task
  <2>1. row' \in [Users -> Row]
    BY <1>16, <2>2 DEF ApplyError, TypeOK, Row
  <2> QED BY <1>16, <2>1, AppliedType DEF ApplyError, TypeOK, bounds
<1>17. ASSUME NEW t \in Tasks, NEW u \in Users, ApplyBaseline(t, u) PROVE TypeOK'
  <2>1. task[t] \in Task /\ task[t].now \in Nat /\ task[t].answer[u] \in Nat
    BY DEF TypeOK, Task
  <2>2. CASE row[u].drep = Unset
    <3>1. State(u, task[t].answer[u]) \in Dreps \cup {NoDrep}
      BY <1>17, <2>1, StateType DEF ApplyBaseline, Positions
    <3> DEFINE d == State(u, task[t].answer[u])
               n == task[t].now
    <3>3. row' = [row EXCEPT ![u] = [row[u] EXCEPT !.drep = d, !.attempted = n]]
      BY <1>17, <2>2 DEF ApplyBaseline
    <3>4. d \in Dreps \cup {NoDrep, Unset} /\ n \in Nat
      BY <2>1, <3>1
    <3> HIDE DEF d, n
    <3>5. [row[u] EXCEPT !.drep = d, !.attempted = n] \in Row
      BY <3>4 DEF TypeOK, Row
    <3>2. row' \in [Users -> Row]
      BY <3>3, <3>5 DEF TypeOK
    <3> QED BY <1>17, <2>2, <3>2, AppliedType DEF ApplyBaseline, TypeOK, bounds
  <2>3. CASE row[u].drep # Unset
    <3>2. [task[t] EXCEPT !.at = "change", !.user = u] \in Task
      BY <2>1 DEF Task, Step
    <3>1. task' \in [Tasks -> Task]
      BY <1>17, <2>3, <3>2 DEF ApplyBaseline, TypeOK
    <3> QED BY <1>17, <2>3, <3>1 DEF ApplyBaseline, TypeOK, bounds
  <2> QED BY <2>2, <2>3
<1>18. ASSUME NEW t \in Tasks, NEW u \in Users, Capture(t, u) PROVE TypeOK'
  <2>1. task[t] \in Task /\ task[t].now \in Nat /\ task[t].start[u] \in Lookup
    BY DEF TypeOK, Task
  <2>2. row' \in [Users -> Row]
    BY <1>18, <2>1, CapturedType DEF Capture, TypeOK
  <2>3. Next1(t, u) \in Task
    BY <2>1, RestingType DEF Next1, Task
  <2> QED BY <1>18, <2>2, <2>3 DEF Capture, TypeOK, bounds
<1>19. ASSUME NEW t \in Tasks, NEW u \in Users, RowFails(t, u) PROVE TypeOK'
  <2> DEFINE a == AfterFailure(t, u)
             w == [task[t] EXCEPT !.todo = @ \ {u}, !.at = a]
  <2>1. task[t] \in Task /\ a \in Step
    BY DEF AfterFailure, NextRow, TypeOK, Task, Step
  <2>2. task' \in {[task EXCEPT ![t] = Resting], [task EXCEPT ![t] = w]}
    BY <1>19 DEF RowFails
  <2> HIDE DEF a
  <2>4. w \in Task
    BY <2>1 DEF Task
  <2> HIDE DEF w
  <2>3. task' \in [Tasks -> Task]
    BY <2>2, <2>4, RestingType DEF TypeOK
  <2> QED BY <1>19, <2>3 DEF RowFails, TypeOK
<1>20. CASE UNCHANGED vars
  BY <1>20 DEF vars, bounds, TypeOK
<1> QED BY <1>1, <1>2, <1>3, <1>4, <1>5, <1>6, <1>7, <1>8, <1>9, <1>10, <1>11, <1>12, <1>13,
           <1>14, <1>15, <1>16, <1>17, <1>18, <1>19, <1>20 DEF Next

\* Answers stay within histories, which only grow.
LEMMA PositionsStep == ASSUME IInv, [Next]_vars, TypeOK' PROVE Positions'
<1> USE DEF IInv
<1> DEFINE A(t) == /\ \A u \in Users : task'[t].answer[u] <= Newest(u)
                   /\ task'[t].at = "change" => task'[t].answer[task'[t].user] > 0
<1>0. /\ \A u \in Users : Newest(u) \in Nat /\ wallet[u].moved \in Nat
      /\ clock \in Nat
  BY DEF TypeOK, Wallet, Newest
<1>a. \A t \in Tasks, u \in Users : task[t].answer[u] \in Nat /\ task'[t].answer[u] \in Nat
  BY DEF TypeOK, Task
<1>b. ASSUME UNCHANGED wallet, NEW t \in Tasks, A(t), \A q \in Tasks \ {t} : task'[q] = task[q]
      PROVE  Positions'
  BY <1>b, <1>0 DEF Positions, Newest
<1>c. ASSUME UNCHANGED wallet, NEW t \in Tasks,
             \A q \in Tasks \ {t} : task'[q] = task[q],
             \/ task'[t] = Resting
             \/ task'[t].answer = task[t].answer /\ task'[t].at # "change"
      PROVE  Positions'
  <2>1. Resting.answer = Nothing /\ Resting.at = "idle"
    BY DEF Resting
  <2>2. A(t)
    BY <1>0, <1>c, <2>1 DEF Positions, Nothing
  <2> QED BY <1>b, <1>c, <2>2
<1>1. CASE Tick
  <2>1. \A u \in Users : wallet'[u].history = wallet[u].history /\ wallet'[u].moved = wallet[u].moved
    BY <1>1 DEF Tick, TypeOK, Wallet
  <2> QED BY <1>1, <2>1 DEF Tick, Positions, Newest
<1>d. ASSUME NEW u \in Users, NEW d \in Dreps \cup {NoDrep}, task' = task,
             \A v \in Users \ {u} : wallet'[v] = wallet[v],
             wallet'[u].history = Append(wallet[u].history, d)
      PROVE  Positions'
  <2>1. Newest(u)' = Newest(u) + 1
    BY <1>d, AppendProperties DEF TypeOK, Wallet, Newest
  <2>2. \A v \in Users \ {u} : Newest(v)' = Newest(v) /\ wallet'[v].moved = wallet[v].moved
    BY <1>d DEF Newest
  <2>3. \A v \in Users : Newest(v)' >= 1 /\ (wallet'[v].moved > 0 => Newest(v)' >= 2)
    BY <1>0, <2>1, <2>2 DEF Positions
  <2>4. \A q \in Tasks, v \in Users : task'[q].answer[v] <= Newest(v)'
    BY <1>d, <1>0, <1>a, <2>1, <2>2 DEF Positions
  <2> QED BY <1>d, <2>3, <2>4 DEF Positions
<1>2. ASSUME NEW u \in Users, Land(u) PROVE Positions'
  <2> DEFINE d == wallet[u].submitted
  <2>1. d \in Dreps \cup {NoDrep} /\ wallet[u] \in Wallet
    BY <1>2 DEF Land, TypeOK, Wallet
  <2>2. Extend(wallet[u], d).history = Append(wallet[u].history, d)
    BY <2>1 DEF Extend, Wallet
  <2>3. wallet'[u].history = Extend(wallet[u], d).history
    BY <1>2, <2>1 DEF Land, Extend, TypeOK, Wallet
  <2> QED BY <1>2, <1>d, <2>1, <2>2, <2>3 DEF Land, TypeOK
<1>3. ASSUME NEW u \in Users, NEW d \in Dreps \cup {NoDrep}, Delegate(u, d) PROVE Positions'
  <2>1. wallet'[u].history = Append(wallet[u].history, d)
    BY <1>3 DEF Delegate, Extend, TypeOK, Wallet
  <2> QED BY <1>3, <1>d, <2>1 DEF Delegate, TypeOK
<1>4. ASSUME NEW t \in Logins, NEW u \in Users, NEW s \in Seconds, NEW b \in BOOLEAN,
             SignIn(t, u, s, b)
      PROVE  Positions'
  <2>1. task'[t].answer = Nothing /\ task'[t].at # "change"
    BY <1>4 DEF SignIn, Resting, TypeOK, Tasks
  <2> QED BY <1>4, <1>b, <1>0, <2>1 DEF SignIn, TypeOK, Tasks, Positions, Nothing
<1>5. ASSUME NEW t \in Logins, NEW d \in Dreps, Expect(t, d) PROVE Positions'
  <2>4. PICK k : \/ wallet' = wallet
                 \/ wallet' = [wallet EXCEPT ![k].submitted = d]
    BY <1>5 DEF Expect
  <2>1. ASSUME NEW u \in Users
        PROVE  wallet'[u].history = wallet[u].history /\ wallet'[u].moved = wallet[u].moved
    <3>1. wallet[u] \in Wallet /\ wallet \in [Users -> Wallet]
      BY DEF TypeOK
    <3>2. wallet'[u] = wallet[u] \/ wallet'[u] = [wallet[u] EXCEPT !.submitted = d]
      BY <2>4, <3>1
    <3> QED BY <3>1, <3>2 DEF Wallet
  <2>2. task'[t].answer = task[t].answer /\ task'[t].at # "change"
    BY <1>5 DEF Expect, TypeOK, Task, Tasks
  <2>3. \A q \in Tasks \ {t} : task'[q] = task[q]
    BY <1>5 DEF Expect, TypeOK
  <2> QED BY <2>1, <2>2, <2>3 DEF Positions, Newest
<1>6. ASSUME NEW t \in Logins, Retry(t) PROVE Positions'
  <2>1. Reading(task[t]).answer = task[t].answer /\ Reading(task[t]).at # "change"
    BY DEF Reading, TypeOK, Task, Tasks
  <2> QED BY <1>6, <1>c, <2>1 DEF Retry, TypeOK, Tasks
<1>7. ASSUME NEW t \in Logins, WriteFlat(t) PROVE Positions'
  BY <1>7, <1>c DEF WriteFlat, TypeOK, Tasks
<1>8. ASSUME NEW t \in Crons, NEW s \in Seconds, RefreshBulk(t, s) PROVE Positions'
  <2>1. PICK S \in SUBSET Due :
          task' = [task EXCEPT ![t] = [Resting EXCEPT
                     !.at = "ask", !.now = clock, !.second = s, !.batch = S, !.todo = S]]
    BY <1>8 DEF RefreshBulk
  <2>2. task'[t].answer = Nothing /\ task'[t].at # "change"
    BY <2>1 DEF Resting, TypeOK, Tasks
  <2> QED BY <1>8, <1>b, <1>0, <2>1, <2>2 DEF RefreshBulk, TypeOK, Tasks, Positions, Nothing
<1>9. ASSUME NEW t \in Crons, AskFails(t) PROVE Positions'
  BY <1>9, <1>c DEF AskFails, TypeOK, Tasks
<1>10. ASSUME NEW t \in Crons, ListMissing(t) PROVE Positions'
  <2>1. PICK S \in SUBSET task[t].batch :
          task' = IF S = {} THEN [task EXCEPT ![t] = Resting]
                  ELSE [task EXCEPT ![t] = [Reading(task[t]) EXCEPT !.batch = S]]
    BY <1>10 DEF ListMissing
  <2> DEFINE w == [Reading(task[t]) EXCEPT !.batch = S]
  <2>2. w.answer = task[t].answer /\ w.at # "change"
    BY DEF Reading, TypeOK, Task, Tasks
  <2> HIDE DEF w
  <2>3. task' = [task EXCEPT ![t] = Resting] \/ task' = [task EXCEPT ![t] = w]
    BY <2>1 DEF w
  <2> QED BY <1>10, <1>c, <2>2, <2>3 DEF ListMissing, TypeOK, Tasks
<1>11. ASSUME NEW t \in Tasks, Ask(t) PROVE Positions'
  <2>1. PICK got \in SUBSET task[t].batch :
          \E late \in SUBSET {u \in got : Unsettled(u)} :
            task' = [task EXCEPT ![t] = [task[t] EXCEPT !.at = "apply",
                       !.answer = [u \in Users |-> IF u \in got THEN Heard(u, late) ELSE 0]]]
    BY <1>11 DEF Ask
  <2>2. PICK late \in SUBSET {u \in got : Unsettled(u)} :
          task' = [task EXCEPT ![t] = [task[t] EXCEPT !.at = "apply",
                     !.answer = [u \in Users |-> IF u \in got THEN Heard(u, late) ELSE 0]]]
    BY <2>1
  <2> DEFINE f == [u \in Users |-> IF u \in got THEN Heard(u, late) ELSE 0]
  <2>3. \A u \in Users : f[u] <= Newest(u)
    BY <1>0, HeardType
  <2>6. task[t] \in Task /\ task' = [task EXCEPT ![t] = [task[t] EXCEPT !.at = "apply", !.answer = f]]
    BY <2>2 DEF TypeOK
  <2> HIDE DEF f
  <2>4. task'[t].answer = f /\ task'[t].at # "change"
    BY <2>6 DEF TypeOK, Task
  <2> HIDE DEF f
  <2>5. A(t)
    BY <2>3, <2>4
  <2> QED BY <1>11, <1>b, <2>2, <2>5 DEF Ask, TypeOK
<1>e. ASSUME NEW t \in Tasks, NEW u \in Users, NEW b \in BOOLEAN, Applied(t, u, b), UNCHANGED wallet
      PROVE  Positions'
  <2>1. AfterRow(t, u, b) # "change"
    BY DEF AfterRow, NextRow
  <2>2. task'[t].answer = task[t].answer /\ task'[t].at # "change"
    BY <1>e, <2>1 DEF Applied, TypeOK, Task
  <2> QED BY <1>e, <1>c, <2>2 DEF Applied, TypeOK
<1>12. ASSUME NEW t \in Tasks, ApplyChange(t) PROVE Positions'
  <2>1. task[t].user \in Users
    BY DEF TypeOK, Task
  <2>2. CASE row[task[t].user].drep # State(task[t].user, task[t].answer[task[t].user])
    BY <1>12, <1>e, <2>1, <2>2 DEF ApplyChange
  <2>3. CASE row[task[t].user].drep = State(task[t].user, task[t].answer[task[t].user])
    <3>1. task'[t].answer = task[t].answer /\ task'[t].at # "change"
      BY <1>12, <2>3 DEF ApplyChange, TypeOK, Task
    <3> QED BY <1>12, <2>3, <3>1, <1>c DEF ApplyChange, TypeOK
  <2> QED BY <2>2, <2>3
<1>13. ASSUME NEW t \in Tasks, ApplySame(t) PROVE Positions'
  <2>1. task[t].user \in Users
    BY DEF TypeOK, Task
  <2> QED BY <1>13, <1>e, <2>1 DEF ApplySame
<1>14. ASSUME NEW t \in Tasks, LookUp(t) PROVE Positions'
  <2>1. \E f : task' = [task EXCEPT ![t] = [task[t] EXCEPT !.at = "write",
                          !.todo = task[t].batch, !.start = f]]
    BY <1>14 DEF LookUp
  <2>2. task'[t].answer = task[t].answer /\ task'[t].at # "change"
    BY <2>1 DEF TypeOK, Task
  <2> QED BY <1>14, <1>c, <2>1, <2>2 DEF LookUp, TypeOK
<1>15. ASSUME NEW t \in Tasks, Evict(t) PROVE Positions'
  BY <1>15, <1>c DEF Evict, TypeOK
<1>16. ASSUME NEW t \in Tasks, NEW u \in Users, ApplyError(t, u) PROVE Positions'
  BY <1>16, <1>e DEF ApplyError
<1>17. ASSUME NEW t \in Tasks, NEW u \in Users, ApplyBaseline(t, u) PROVE Positions'
  <2>1. CASE row[u].drep = Unset
    BY <1>17, <1>e, <2>1 DEF ApplyBaseline
  <2>2. CASE row[u].drep # Unset
    <3>3. task[t] \in Task
      BY DEF TypeOK
    <3>4. task' = [task EXCEPT ![t] = [task[t] EXCEPT !.at = "change", !.user = u]]
      BY <1>17, <2>2 DEF ApplyBaseline
    <3>1. task'[t].answer = task[t].answer /\ task'[t].user = u
      BY <3>3, <3>4 DEF TypeOK, Task
    <3>2. A(t)
      BY <1>17, <1>a, <3>1 DEF ApplyBaseline, Positions
    <3> QED BY <1>17, <1>b, <2>2, <3>2 DEF ApplyBaseline, TypeOK
  <2> QED BY <2>1, <2>2
<1>18. ASSUME NEW t \in Tasks, NEW u \in Users, Capture(t, u) PROVE Positions'
  <2>1. task'[t] = Next1(t, u)
    BY <1>18 DEF Capture, TypeOK
  <2>2. Next1(t, u) = Resting \/ (Next1(t, u).answer = task[t].answer /\ Next1(t, u).at = "write")
    BY <1>18 DEF Capture, Next1, TypeOK, Task
  <2> QED BY <1>18, <1>c, <2>1, <2>2 DEF Capture, TypeOK
<1>19. ASSUME NEW t \in Tasks, NEW u \in Users, RowFails(t, u) PROVE Positions'
  <2> DEFINE w == [task[t] EXCEPT !.todo = @ \ {u}, !.at = AfterFailure(t, u)]
  <2>1. AfterFailure(t, u) # "change"
    BY DEF AfterFailure, NextRow
  <2>2. w.answer = task[t].answer /\ w.at # "change"
    BY <2>1 DEF TypeOK, Task
  <2> HIDE DEF w
  <2>3. task' = [task EXCEPT ![t] = Resting] \/ task' = [task EXCEPT ![t] = w]
    BY <1>19 DEF RowFails, w
  <2> QED BY <1>19, <1>c, <2>2, <2>3 DEF RowFails, TypeOK
<1>20. CASE UNCHANGED vars
  BY <1>20 DEF vars, Positions, Newest
<1> QED BY <1>1, <1>2, <1>3, <1>4, <1>5, <1>6, <1>7, <1>8, <1>9, <1>10, <1>11, <1>12, <1>13,
           <1>14, <1>15, <1>16, <1>17, <1>18, <1>19, <1>20 DEF Next

\* Every step keeps the clock and the stamps of the tasks.
LEMMA StampsStep == ASSUME IInv, [Next]_vars, TypeOK' PROVE Stamps'
<1> USE DEF IInv
<1>0. clock \in Nat /\ clock >= 1 /\ \A t \in Tasks : task[t].now \in Nat
  BY DEF TypeOK, Task, Stamps
<1>a. ASSUME NEW t \in Tasks, \A q \in Tasks \ {t} : task'[q] = task[q],
             \/ task'[t] = Resting
             \/ task'[t].now = clock
             \/ task'[t].now = task[t].now /\ task[t].at # "idle",
             UNCHANGED clock
      PROVE  Stamps'
  BY <1>a, <1>0 DEF Stamps, Resting
<1>b. ASSUME task' = task, clock' \in {clock, clock + 1} PROVE Stamps'
  BY <1>b, <1>0 DEF Stamps
<1>2. CASE Tick \/ (\E u \in Users : Land(u) \/ \E d \in Dreps \cup {NoDrep} : Delegate(u, d))
  BY <1>2, <1>b DEF Tick, Land, Delegate
<1>3. ASSUME NEW t \in Tasks, NEW u \in Users, NEW b \in BOOLEAN, Applied(t, u, b), task[t].at # "idle",
             UNCHANGED clock
      PROVE  Stamps'
  <2>1. task'[t].now = task[t].now
    BY <1>3 DEF Applied, TypeOK, Task
  <2> QED BY <1>3, <1>a, <2>1 DEF Applied, TypeOK
<1>4. ASSUME NEW t \in Logins, NEW u \in Users, NEW s \in Seconds, NEW b \in BOOLEAN,
             SignIn(t, u, s, b)
      PROVE  Stamps'
  <2>1. task'[t].now = clock
    BY <1>4 DEF SignIn, Resting, TypeOK, Tasks
  <2> QED BY <1>4, <1>a, <2>1 DEF SignIn, TypeOK, Tasks
<1>5. ASSUME NEW t \in Logins, NEW d \in Dreps, Expect(t, d) PROVE Stamps'
  <2>1. task'[t].now = task[t].now
    BY <1>5 DEF Expect, TypeOK, Task, Tasks
  <2> QED BY <1>5, <1>a, <2>1 DEF Expect, TypeOK, Tasks
<1>6. ASSUME NEW t \in Logins, Retry(t) PROVE Stamps'
  <2>1. Reading(task[t]).now = task[t].now
    BY DEF Reading, TypeOK, Task, Tasks
  <2> QED BY <1>6, <1>a, <2>1 DEF Retry, TypeOK, Tasks
<1>7. ASSUME NEW t \in Logins, WriteFlat(t) PROVE Stamps'
  BY <1>7, <1>a DEF WriteFlat, TypeOK, Tasks
<1>8. ASSUME NEW t \in Crons, NEW s \in Seconds, RefreshBulk(t, s) PROVE Stamps'
  <2>1. PICK S \in SUBSET Due :
          task' = [task EXCEPT ![t] = [Resting EXCEPT
                     !.at = "ask", !.now = clock, !.second = s, !.batch = S, !.todo = S]]
    BY <1>8 DEF RefreshBulk
  <2>2. task'[t].now = clock
    BY <2>1 DEF Resting, TypeOK, Tasks
  <2> QED BY <1>8, <1>a, <2>1, <2>2 DEF RefreshBulk, TypeOK, Tasks
<1>9. ASSUME NEW t \in Crons, AskFails(t) PROVE Stamps'
  BY <1>9, <1>a DEF AskFails, TypeOK, Tasks
<1>10. ASSUME NEW t \in Crons, ListMissing(t) PROVE Stamps'
  <2>1. PICK S : task' = IF S = {} THEN [task EXCEPT ![t] = Resting]
                         ELSE [task EXCEPT ![t] = [Reading(task[t]) EXCEPT !.batch = S]]
    BY <1>10 DEF ListMissing
  <2> DEFINE w == [Reading(task[t]) EXCEPT !.batch = S]
  <2>2. w.now = task[t].now
    BY DEF Reading, TypeOK, Task, Tasks
  <2> HIDE DEF w
  <2>3. task' = [task EXCEPT ![t] = Resting] \/ task' = [task EXCEPT ![t] = w]
    BY <2>1 DEF w
  <2> QED BY <1>10, <1>a, <2>2, <2>3 DEF ListMissing, TypeOK, Tasks
<1>11. ASSUME NEW t \in Tasks, Ask(t) PROVE Stamps'
  <2>1. PICK f : task' = [task EXCEPT ![t] = [task[t] EXCEPT !.at = "apply", !.answer = f]]
    BY <1>11 DEF Ask
  <2>2. task'[t].now = task[t].now
    BY <2>1 DEF TypeOK, Task
  <2> QED BY <1>11, <1>a, <2>1, <2>2 DEF Ask, TypeOK
<1>12. ASSUME NEW t \in Tasks, ApplyChange(t) PROVE Stamps'
  <2>1. task[t].user \in Users
    BY DEF TypeOK, Task
  <2>2. CASE task' = [task EXCEPT ![t].at = "same"]
    <3>1. task'[t].now = task[t].now
      BY <2>2 DEF TypeOK, Task
    <3> QED BY <1>12, <2>2, <3>1, <1>a DEF ApplyChange, TypeOK
  <2> QED BY <1>12, <2>1, <2>2, <1>3 DEF ApplyChange
<1>13. ASSUME NEW t \in Tasks, ApplySame(t) PROVE Stamps'
  <2>1. task[t].user \in Users
    BY DEF TypeOK, Task
  <2> QED BY <1>13, <1>3, <2>1 DEF ApplySame
<1>14. ASSUME NEW t \in Tasks, LookUp(t) PROVE Stamps'
  <2>1. PICK f : task' = [task EXCEPT ![t] = [task[t] EXCEPT !.at = "write",
                            !.todo = task[t].batch, !.start = f]]
    BY <1>14 DEF LookUp
  <2>2. task'[t].now = task[t].now
    BY <2>1 DEF TypeOK, Task
  <2> QED BY <1>14, <1>a, <2>1, <2>2 DEF LookUp, TypeOK
<1>15. ASSUME NEW t \in Tasks, Evict(t) PROVE Stamps'
  BY <1>15, <1>a DEF Evict, TypeOK
<1>16. ASSUME NEW t \in Tasks, NEW u \in Users, ApplyError(t, u) PROVE Stamps'
  BY <1>16, <1>3 DEF ApplyError
<1>17. ASSUME NEW t \in Tasks, NEW u \in Users, ApplyBaseline(t, u) PROVE Stamps'
  <2>1. CASE row[u].drep = Unset
    BY <1>17, <1>3, <2>1 DEF ApplyBaseline
  <2>2. CASE row[u].drep # Unset
    <3>1. task' = [task EXCEPT ![t] = [task[t] EXCEPT !.at = "change", !.user = u]]
      BY <1>17, <2>2 DEF ApplyBaseline
    <3>2. task'[t].now = task[t].now
      BY <3>1 DEF TypeOK, Task
    <3> QED BY <1>17, <1>a, <3>1, <3>2 DEF ApplyBaseline, TypeOK
  <2> QED BY <2>1, <2>2
<1>18. ASSUME NEW t \in Tasks, NEW u \in Users, Capture(t, u) PROVE Stamps'
  <2>1. task'[t] = Next1(t, u)
    BY <1>18 DEF Capture, TypeOK
  <2>2. Next1(t, u) = Resting \/ Next1(t, u).now = task[t].now
    BY DEF Next1, TypeOK, Task
  <2> QED BY <1>18, <1>a, <2>1, <2>2 DEF Capture, TypeOK
<1>19. ASSUME NEW t \in Tasks, NEW u \in Users, RowFails(t, u) PROVE Stamps'
  <2> DEFINE w == [task[t] EXCEPT !.todo = @ \ {u}, !.at = AfterFailure(t, u)]
  <2>2. w.now = task[t].now
    BY DEF TypeOK, Task
  <2> HIDE DEF w
  <2>3. task' = [task EXCEPT ![t] = Resting] \/ task' = [task EXCEPT ![t] = w]
    BY <1>19 DEF RowFails, w
  <2>4. task[t].at # "idle" /\ UNCHANGED clock
    BY <1>19 DEF RowFails
  <2> QED BY <1>a, <2>2, <2>3, <2>4 DEF TypeOK
<1>20. CASE UNCHANGED vars
  BY <1>20, <1>b DEF vars
<1> QED BY <1>2, <1>4, <1>5, <1>6, <1>7, <1>8, <1>9, <1>10, <1>11, <1>12, <1>13,
           <1>14, <1>15, <1>16, <1>17, <1>18, <1>19, <1>20 DEF Next

\* Stamping an attempt keeps a row consistent.
LEMMA StampedConsistent ==
    ASSUME NEW r \in Row, Consistent(r), NEW n \in Nat, n >= 1
    PROVE  /\ Consistent(Stamped(r, n))
           /\ Stamped(r, n).tracked = r.tracked
           /\ Stamped(r, n).attempted = n
BY DEF Consistent, Stamped, Row

\* So does recording a start.
LEMMA CapturedConsistent ==
    ASSUME NEW r \in Row, Consistent(r), NEW n \in Nat, n >= 1, NEW s \in Lookup
    PROVE  Consistent(Captured(r, n, s)) /\ Captured(r, n, s).tracked = r.tracked
<1> DEFINE k == Tries(r.tries, s)
<1>1. s.epoch # 0 => k = 0
  BY DEF Tries, Lookup
<1>2. Captured(r, n, s) = [r EXCEPT !.since = s.epoch, !.sinceAt = n, !.tries = k]
  BY DEF Captured
<1> HIDE DEF k
<1> QED BY <1>1, <1>2 DEF Consistent, Row, Lookup

\* Every step keeps rows consistent, and tasks on rows that exist.
LEMMA RowsStep ==
    ASSUME IInv, [Next]_vars, TypeOK' PROVE RowsExist' /\ RowConsistent'
<1> USE DEF IInv
<1>0. /\ \A u \in Users : row[u] \in Row /\ Consistent(row[u])
      /\ \A t \in Tasks : task[t] \in Task
      /\ \A t \in Tasks : task[t].at # "idle" => task[t].now \in Nat /\ task[t].now >= 1
  BY DEF TypeOK, Task, Stamps, RowConsistent
<1> DEFINE Grown(u) == Consistent(row'[u]) /\ (row[u].tracked => row'[u].tracked)
<1>a. ASSUME NEW t \in Tasks, \A q \in Tasks \ {t} : task'[q] = task[q],
             \A u \in Users : row'[u] = row[u] \/ Grown(u),
             \A u \in Worked(task'[t]) : u \in Worked(task[t]) \/ row'[u].tracked
      PROVE  RowsExist' /\ RowConsistent'
  <2>1. \A q \in Tasks : Worked(task[q]) \subseteq Users
    BY <1>0 DEF Worked, Task
  <2>2. \A u \in Users : row[u].tracked => row'[u].tracked
    BY <1>a
  <2>3. \A q \in Tasks : \A u \in Worked(task[q]) : row'[u].tracked
    BY <2>1, <2>2 DEF RowsExist
  <2>4. RowsExist'
    BY <1>a, <2>3 DEF RowsExist, Worked
  <2> QED BY <1>0, <1>a, <2>4 DEF RowConsistent
<1>b. ASSUME task' = task, row' = row PROVE RowsExist' /\ RowConsistent'
  BY <1>b DEF RowsExist, RowConsistent
<1>r. Worked(Resting) = {}
  BY DEF Worked, Resting
<1>2. CASE Tick \/ (\E u \in Users : Land(u) \/ \E d \in Dreps \cup {NoDrep} : Delegate(u, d))
  BY <1>2, <1>b DEF Tick, Land, Delegate
<1>3. ASSUME NEW t \in Tasks, NEW u \in Users, NEW b \in BOOLEAN, Applied(t, u, b)
      PROVE  /\ \A q \in Tasks \ {t} : task'[q] = task[q]
             /\ \A v \in Worked(task'[t]) : v \in Worked(task[t])
  <2> DEFINE w == [task[t] EXCEPT !.todo = @ \ {u}, !.fresh = b /\ t \in Logins, !.at = AfterRow(t, u, b)]
  <2>1. task'[t] = w /\ \A q \in Tasks \ {t} : task'[q] = task[q]
    BY <1>3 DEF Applied, TypeOK
  <2>2. AfterRow(t, u, b) # "change"
    BY DEF AfterRow, NextRow
  <2>3. w.batch = task[t].batch /\ w.todo \subseteq task[t].todo /\ w.at # "change"
    BY <1>0, <2>2 DEF Task
  <2> HIDE DEF w
  <2> QED BY <2>1, <2>3 DEF Worked
<1>4. ASSUME NEW t \in Logins, NEW u \in Users, NEW s \in Seconds, NEW b \in BOOLEAN,
             SignIn(t, u, s, b)
      PROVE  RowsExist' /\ RowConsistent'
  <2>1. Worked(task'[t]) = {u}
    BY <1>4 DEF SignIn, Resting, TypeOK, Tasks, Worked
  <2>2. row'[u] = [row[u] EXCEPT !.tracked = TRUE] /\ \A v \in Users \ {u} : row'[v] = row[v]
    BY <1>4 DEF SignIn, TypeOK
  <2>3. Grown(u) /\ row'[u].tracked
    BY <1>0, <2>2 DEF Row, Consistent
  <2> QED BY <1>4, <1>a, <2>1, <2>2, <2>3 DEF SignIn, TypeOK, Tasks
<1>5. ASSUME NEW t \in Logins, NEW d \in Dreps, Expect(t, d) PROVE RowsExist' /\ RowConsistent'
  <2> DEFINE u == task[t].user
  <2>1. Worked(task'[t]) \subseteq Worked(task[t])
    BY <1>5, <1>0 DEF Expect, TypeOK, Task, Tasks, Worked
  <2>2. u \in Users /\ task[t].now \in Nat
    BY <1>0 DEF Task, Tasks
  <2>3. row' = row \/ row' = [row EXCEPT ![u] = [row[u] EXCEPT !.expAt = task[t].now]]
    BY <1>5 DEF Expect
  <2> HIDE DEF u
  <2>4. row'[u] = row[u] \/ row'[u] = [row[u] EXCEPT !.expAt = task[t].now]
    BY <2>2, <2>3 DEF TypeOK
  <2>5. Grown(u)
    BY <1>0, <2>2, <2>4 DEF Row, Consistent
  <2>6. \A v \in Users \ {u} : row'[v] = row[v]
    BY <2>2, <2>3 DEF TypeOK
  <2> QED BY <1>5, <1>a, <2>1, <2>5, <2>6 DEF Expect, TypeOK, Tasks
<1>6. ASSUME NEW t \in Logins, Retry(t) PROVE RowsExist' /\ RowConsistent'
  <2>1. Worked(Reading(task[t])) \subseteq Worked(task[t])
    BY <1>0 DEF Reading, Task, Tasks, Worked
  <2> QED BY <1>6, <1>a, <1>r, <2>1 DEF Retry, TypeOK, Tasks
<1>7. ASSUME NEW t \in Logins, WriteFlat(t) PROVE RowsExist' /\ RowConsistent'
  <2> DEFINE u == task[t].user
             r == Captured(row[u], task[t].now, task[t].start[u])
  <2>1. u \in Users /\ task[t].now \in Nat /\ task[t].now >= 1 /\ task[t].start[u] \in Lookup
    BY <1>0, <1>7 DEF WriteFlat, Task, Tasks
  <2>2. Consistent(r) /\ r.tracked = row[u].tracked
    BY <1>0, <2>1, CapturedConsistent
  <2>3. row' = [row EXCEPT ![u] = r] /\ task' = [task EXCEPT ![t] = Resting]
    BY <1>7 DEF WriteFlat
  <2> HIDE DEF r, u
  <2> QED BY <1>a, <1>r, <2>1, <2>2, <2>3 DEF TypeOK, Tasks
<1>8. ASSUME NEW t \in Crons, NEW s \in Seconds, RefreshBulk(t, s) PROVE RowsExist' /\ RowConsistent'
  <2>1. PICK S \in SUBSET Due :
          task' = [task EXCEPT ![t] = [Resting EXCEPT
                     !.at = "ask", !.now = clock, !.second = s, !.batch = S, !.todo = S]]
    BY <1>8 DEF RefreshBulk
  <2>2. Worked(task'[t]) = S
    BY <2>1 DEF Resting, TypeOK, Tasks, Worked
  <2>3. \A u \in S : row[u].tracked
    BY DEF Due
  <2>4. row' = row /\ \A q \in Tasks \ {t} : task'[q] = task[q]
    BY <1>8, <2>1 DEF RefreshBulk, TypeOK
  <2>5. t \in Tasks
    BY DEF Tasks
  <2> QED BY <1>a, <2>2, <2>3, <2>4, <2>5
<1>9. ASSUME NEW t \in Crons, AskFails(t) PROVE RowsExist' /\ RowConsistent'
  <2>1. task[t].now \in Nat /\ task[t].now >= 1
    BY <1>0, <1>9 DEF AskFails, Tasks
  <2>2. ASSUME NEW u \in Users PROVE row'[u] = row[u] \/ Grown(u)
    <3>1. row'[u] = row[u] \/ row'[u] = [row[u] EXCEPT !.attempted = task[t].now]
      BY <1>9 DEF AskFails
    <3> QED BY <1>0, <2>1, <3>1 DEF Row, Consistent
  <2> QED BY <1>9, <1>a, <1>r, <2>2 DEF AskFails, TypeOK, Tasks
<1>10. ASSUME NEW t \in Crons, ListMissing(t) PROVE RowsExist' /\ RowConsistent'
  <2>1. PICK S \in SUBSET task[t].batch :
          task' = IF S = {} THEN [task EXCEPT ![t] = Resting]
                  ELSE [task EXCEPT ![t] = [Reading(task[t]) EXCEPT !.batch = S]]
    BY <1>10 DEF ListMissing
  <2> DEFINE w == [Reading(task[t]) EXCEPT !.batch = S]
  <2>2. Worked(w) \subseteq Worked(task[t])
    BY <1>0 DEF Reading, Task, Tasks, Worked
  <2> HIDE DEF w
  <2>3. task' = [task EXCEPT ![t] = Resting] \/ task' = [task EXCEPT ![t] = w]
    BY <2>1 DEF w
  <2> QED BY <1>10, <1>a, <1>r, <2>2, <2>3 DEF ListMissing, TypeOK, Tasks
<1>11. ASSUME NEW t \in Tasks, Ask(t) PROVE RowsExist' /\ RowConsistent'
  <2>1. PICK f : task' = [task EXCEPT ![t] = [task[t] EXCEPT !.at = "apply", !.answer = f]]
    BY <1>11 DEF Ask
  <2>2. Worked(task'[t]) \subseteq Worked(task[t])
    BY <1>0, <2>1 DEF TypeOK, Task, Worked
  <2> QED BY <1>11, <1>a, <2>1, <2>2 DEF Ask, TypeOK
<1>12. ASSUME NEW t \in Tasks, ApplyChange(t) PROVE RowsExist' /\ RowConsistent'
  <2> DEFINE u == task[t].user
             d == State(u, task[t].answer[u])
             n == task[t].now
  <2>1. u \in Users /\ n \in Nat /\ n >= 1
    BY <1>0, <1>12 DEF ApplyChange, Task
  <2>2. row[u].tracked
    BY <1>12 DEF ApplyChange, RowsExist, Worked
  <2>3. CASE row[u].drep # d
    <3> DEFINE r == Stamped(row[u], n)
               r2 == [r EXCEPT !.drep = d, !.since = 0, !.sinceAt = 0, !.tries = 0]
    <3>1. r \in Row /\ r.tracked /\ r.attempted = n
      BY <1>0, <2>1, <2>2, StampedType, StampedConsistent
    <3>2. Applied(t, u, TRUE) /\ row' = [row EXCEPT ![u] = r2]
      BY <1>12, <2>3 DEF ApplyChange
    <3> HIDE DEF r, d, n
    <3>3. Consistent(r2) /\ r2.tracked
      BY <2>1, <3>1 DEF Row, Consistent
    <3> HIDE DEF r2, u
    <3> QED BY <1>a, <1>3, <2>1, <3>2, <3>3 DEF TypeOK
  <2>4. CASE row[u].drep = d
    <3>1. row' = row /\ task' = [task EXCEPT ![t].at = "same"]
      BY <1>12, <2>4 DEF ApplyChange
    <3>2. Worked(task'[t]) \subseteq Worked(task[t])
      BY <1>0, <3>1 DEF TypeOK, Task, Worked
    <3> QED BY <1>a, <3>1, <3>2 DEF TypeOK
  <2> QED BY <2>3, <2>4
<1>13. ASSUME NEW t \in Tasks, ApplySame(t) PROVE RowsExist' /\ RowConsistent'
  <2> DEFINE u == task[t].user
             r == Stamped(row[u], task[t].now)
  <2>1. u \in Users /\ task[t].now \in Nat /\ task[t].now >= 1
    BY <1>0, <1>13 DEF ApplySame, Task
  <2>2. Consistent(r) /\ r.tracked = row[u].tracked
    BY <1>0, <2>1, StampedConsistent
  <2>3. Applied(t, u, FALSE) /\ row' = [row EXCEPT ![u] = r]
    BY <1>13 DEF ApplySame
  <2> HIDE DEF r, u
  <2> QED BY <1>a, <1>3, <2>1, <2>2, <2>3 DEF TypeOK
<1>14. ASSUME NEW t \in Tasks, LookUp(t) PROVE RowsExist' /\ RowConsistent'
  <2>1. PICK f : task' = [task EXCEPT ![t] = [task[t] EXCEPT !.at = "write",
                            !.todo = task[t].batch, !.start = f]]
    BY <1>14 DEF LookUp
  <2>2. Worked(task'[t]) \subseteq Worked(task[t])
    BY <1>0, <2>1 DEF TypeOK, Task, Worked
  <2> QED BY <1>14, <1>a, <2>1, <2>2 DEF LookUp, TypeOK
<1>15. ASSUME NEW t \in Tasks, Evict(t) PROVE RowsExist' /\ RowConsistent'
  BY <1>15, <1>a, <1>r DEF Evict, TypeOK
<1>16. ASSUME NEW t \in Tasks, NEW u \in Users, ApplyError(t, u) PROVE RowsExist' /\ RowConsistent'
  <2>1. task[t].now \in Nat /\ task[t].now >= 1
    BY <1>0, <1>16 DEF ApplyError
  <2>2. row' = [row EXCEPT ![u] = [row[u] EXCEPT !.attempted = task[t].now]]
    BY <1>16 DEF ApplyError
  <2>3. Grown(u)
    BY <1>0, <2>1, <2>2 DEF Row, Consistent, TypeOK
  <2>4. \A v \in Users \ {u} : row'[v] = row[v]
    BY <2>2 DEF TypeOK
  <2>5. Applied(t, u, FALSE)
    BY <1>16 DEF ApplyError
  <2> QED BY <1>a, <1>3, <2>3, <2>4, <2>5
<1>17. ASSUME NEW t \in Tasks, NEW u \in Users, ApplyBaseline(t, u)
       PROVE  RowsExist' /\ RowConsistent'
  <2>1. row[u].tracked
    BY <1>17 DEF ApplyBaseline, RowsExist, Worked
  <2>2. CASE row[u].drep = Unset
    <3> DEFINE d == State(u, task[t].answer[u])
               n == task[t].now
               r == [row[u] EXCEPT !.drep = d, !.attempted = n]
    <3>1. Applied(t, u, TRUE) /\ row' = [row EXCEPT ![u] = r]
      BY <1>17, <2>2 DEF ApplyBaseline
    <3>2. n \in Nat /\ n >= 1
      BY <1>0, <1>17 DEF ApplyBaseline
    <3> HIDE DEF d, n
    <3>3. Consistent(r) /\ r.tracked
      BY <1>0, <2>1, <3>2 DEF Row, Consistent
    <3> HIDE DEF r
    <3> QED BY <1>a, <1>3, <3>1, <3>3 DEF TypeOK
  <2>3. CASE row[u].drep # Unset
    <3>1. row' = row /\ task' = [task EXCEPT ![t] = [task[t] EXCEPT !.at = "change", !.user = u]]
      BY <1>17, <2>3 DEF ApplyBaseline
    <3>2. u \in Worked(task[t])
      BY <1>17 DEF ApplyBaseline, Worked
    <3>3. Worked(task'[t]) \subseteq Worked(task[t])
      BY <1>0, <3>1, <3>2 DEF TypeOK, Task, Worked
    <3> QED BY <1>a, <3>1, <3>3 DEF TypeOK
  <2> QED BY <2>2, <2>3
<1>18. ASSUME NEW t \in Tasks, NEW u \in Users, Capture(t, u) PROVE RowsExist' /\ RowConsistent'
  <2> DEFINE r == Captured(row[u], task[t].now, task[t].start[u])
  <2>1. task[t].now \in Nat /\ task[t].now >= 1 /\ task[t].start[u] \in Lookup
    BY <1>0, <1>18 DEF Capture, Task
  <2>2. Consistent(r) /\ r.tracked = row[u].tracked
    BY <1>0, <2>1, CapturedConsistent
  <2>3. row' = row \/ row' = [row EXCEPT ![u] = r]
    BY <1>18 DEF Capture
  <2>4. task' = [task EXCEPT ![t] = Next1(t, u)]
    BY <1>18 DEF Capture
  <2>5. Worked(Next1(t, u)) \subseteq Worked(task[t])
    BY <1>0, <1>r, <1>18 DEF Capture, Next1, Task, Worked
  <2> HIDE DEF r
  <2> QED BY <1>a, <2>2, <2>3, <2>4, <2>5 DEF TypeOK
<1>19. ASSUME NEW t \in Tasks, NEW u \in Users, RowFails(t, u) PROVE RowsExist' /\ RowConsistent'
  <2> DEFINE w == [task[t] EXCEPT !.todo = @ \ {u}, !.at = AfterFailure(t, u)]
  <2>1. AfterFailure(t, u) # "change"
    BY DEF AfterFailure, NextRow
  <2>2. Worked(w) \subseteq Worked(task[t])
    BY <1>0, <2>1 DEF Task, Worked
  <2> HIDE DEF w
  <2>3. task' = [task EXCEPT ![t] = Resting] \/ task' = [task EXCEPT ![t] = w]
    BY <1>19 DEF RowFails, w
  <2> QED BY <1>19, <1>a, <1>r, <2>2, <2>3 DEF RowFails, TypeOK
<1>20. CASE UNCHANGED vars
  BY <1>20, <1>b DEF vars
<1> QED BY <1>2, <1>4, <1>5, <1>6, <1>7, <1>8, <1>9, <1>10, <1>11, <1>12, <1>13,
           <1>14, <1>15, <1>16, <1>17, <1>18, <1>19, <1>20 DEF Next

LEMMA InitInv == Init => IInv
<1> SUFFICES ASSUME Init PROVE IInv
  OBVIOUS
<1>1. /\ Users # {} /\ Unset \notin Dreps
  BY FollowAssumption DEF FollowAssumption
<1>2. \A u \in Users : wallet[u] = [history |-> <<NoDrep>>, moved |-> 0,
                                    submitted |-> Unset, own |-> {}]
  BY DEF Init
<1>3. <<NoDrep>> \in Seq(Dreps \cup {NoDrep}) /\ Len(<<NoDrep>>) = 1
  OBVIOUS
<1>4. wallet \in [Users -> Wallet]
  BY <1>3 DEF Init, Wallet
<1>5. task \in [Tasks -> Task] /\ \A t \in Tasks : task[t] = Resting
  BY RestingType DEF Init
<1>6. TypeOK
  <2>1. row \in [Users -> Row]
    BY DEF Init, Row
  <2> QED BY <1>4, <1>5, <2>1 DEF Init, TypeOK
<1>7. \A t \in Tasks : /\ task[t].at = "idle" /\ task[t].batch = {} /\ task[t].todo = {}
                       /\ \A u \in Users : task[t].answer[u] = 0
  BY <1>5 DEF Resting, Nothing
<1>8. \A u \in Users : Newest(u) = 1 /\ wallet[u].moved = 0
  BY <1>2, <1>3 DEF Newest
<1>9. Positions
  BY <1>7, <1>8 DEF Positions
<1>10. Stamps /\ RowsExist
  BY <1>7 DEF Stamps, RowsExist, Worked, Init
<1>11. RowConsistent
  BY DEF Init, RowConsistent, Consistent
<1> QED BY <1>6, <1>9, <1>10, <1>11 DEF IInv

LEMMA StepInv == IInv /\ [Next]_vars => IInv'
<1> SUFFICES ASSUME IInv, [Next]_vars PROVE IInv'
  OBVIOUS
<1>1. TypeOK'
  BY TypeStep
<1>2. Positions' /\ Stamps' /\ RowsExist' /\ RowConsistent'
  BY <1>1, PositionsStep, StampsStep, RowsStep
<1> QED BY <1>1, <1>2 DEF IInv

\* Every variable keeps its type.
THEOREM TypeCorrect == Spec => []TypeOK
<1>1. IInv => TypeOK
  BY DEF IInv
<1> QED BY InitInv, StepInv, <1>1, PTL DEF Spec

\* Whichever of applyResolution's branches and of the three writers of a start
\* comes last, a resolved row is stamped and one with a start counts no failed
\* lookups: for any number of accounts, overlapping tasks and faults.
THEOREM RowsConsistent == Spec => []RowConsistent
<1>1. IInv => RowConsistent
  BY DEF IInv
<1> QED BY InitInv, StepInv, <1>1, PTL DEF Spec

-----------------------------------------------------------------------------
(* A change is told once *)

\* A task found its row resolved, and a row is never unresolved again.
Resolved == \A t \in Tasks : task[t].at = "change" => row[task[t].user].drep # Unset

\* What the batch of applyResolution writes.
LEMMA ChangeWrites ==
    ASSUME IInv, NEW t \in Tasks, ApplyChange(t), NEW u \in Users, u = task[t].user,
           NEW d, d = State(u, task[t].answer[u])
    PROVE  /\ d \in Dreps \cup {NoDrep}
           /\ \A v \in Users \ {u} : row'[v] = row[v] /\ inbox'[v] = inbox[v]
           /\ inbox'[u] = Notice(t, u)
           /\ row[u].drep = d => row' = row
           /\ row[u].drep # d => row'[u].drep = d /\ row'[u].attempted = task[t].now
<1> USE DEF IInv
<1>1. d \in Dreps \cup {NoDrep}
  BY StateType DEF ApplyChange, Positions, TypeOK, Task
<1>2. inbox' = [inbox EXCEPT ![u] = Notice(t, u)]
  BY DEF ApplyChange
<1>3. CASE row[u].drep = d
  <2>1. row' = row
    BY <1>3 DEF ApplyChange
  <2> QED BY <1>1, <1>2, <1>3, <2>1 DEF TypeOK
<1>4. CASE row[u].drep # d
  <2> DEFINE r == Stamped(row[u], task[t].now)
  <2>1. row' = [row EXCEPT ![u] = [r EXCEPT !.drep = d, !.since = 0, !.sinceAt = 0, !.tries = 0]]
    BY <1>4 DEF ApplyChange
  <2>2. r \in Row /\ r.attempted = task[t].now
    <3>1. row[u] \in Row /\ task[t].now \in Nat
      BY DEF TypeOK, Task
    <3>2. r.attempted = task[t].now
      BY <3>1 DEF Stamped, Row
    <3> QED BY <3>1, <3>2, StampedType
  <2> HIDE DEF r
  <2>3. row'[u].drep = d /\ row'[u].attempted = task[t].now
    BY <2>1, <2>2 DEF TypeOK, Row
  <2>4. \A v \in Users \ {u} : row'[v] = row[v]
    BY <2>1 DEF TypeOK
  <2> QED BY <1>1, <1>2, <1>4, <2>3, <2>4 DEF TypeOK
<1> QED BY <1>3, <1>4

\* Nothing else changes a resolved delegation or tells of one.
LEMMA OthersKeep ==
    ASSUME IInv, [Next]_vars, \A t \in Tasks : ~ApplyChange(t), NEW u \in Users
    PROVE  /\ inbox' = inbox
           /\ row[u].drep # Unset => row'[u].drep = row[u].drep
<1> USE DEF IInv
<1>0. row \in [Users -> Row] /\ \A t \in Tasks : task[t] \in Task
  BY DEF TypeOK
<1>1. CASE UNCHANGED <<row, inbox>>
  BY <1>1
<1>2. ASSUME NEW t \in Logins, NEW v \in Users, NEW s \in Seconds, NEW b \in BOOLEAN, SignIn(t, v, s, b)
      PROVE  inbox' = inbox /\ row'[u].drep = row[u].drep
  BY <1>0, <1>2 DEF SignIn, Row
<1>3. ASSUME NEW t \in Logins, NEW d \in Dreps, Expect(t, d)
      PROVE  inbox' = inbox /\ row'[u].drep = row[u].drep
  BY <1>0, <1>3 DEF Expect, Row
<1>5. ASSUME NEW t \in Tasks, NEW v \in Users, NEW n \in Nat, NEW s \in Lookup
      PROVE  Captured(row[v], n, s).drep = row[v].drep /\ Stamped(row[v], n).drep = row[v].drep
  BY <1>0 DEF Captured, Stamped, Row
<1>6. ASSUME NEW t \in Logins, WriteFlat(t)
      PROVE  inbox' = inbox /\ row'[u].drep = row[u].drep
  <2>1. PICK v \in Users, s \in Lookup : row' = [row EXCEPT ![v] = Captured(row[v], task[t].now, s)]
    BY <1>0, <1>6 DEF WriteFlat, Task, Tasks
  <2>2. Captured(row[v], task[t].now, s).drep = row[v].drep
    BY <1>0, <1>5 DEF Task, Tasks
  <2> QED BY <1>0, <1>6, <2>1, <2>2 DEF WriteFlat
<1>7. ASSUME NEW t \in Crons, AskFails(t)
      PROVE  inbox' = inbox /\ row'[u].drep = row[u].drep
  <2>1. row'[u] = row[u] \/ row'[u] = [row[u] EXCEPT !.attempted = task[t].now]
    BY <1>7 DEF AskFails
  <2> QED BY <1>0, <1>7, <2>1 DEF AskFails, Row
<1>8. ASSUME NEW t \in Tasks, ApplySame(t)
      PROVE  inbox' = inbox /\ row'[u].drep = row[u].drep
  <2>1. PICK v \in Users : row' = [row EXCEPT ![v] = Stamped(row[v], task[t].now)]
    BY <1>0, <1>8 DEF ApplySame, Task
  <2>2. Stamped(row[v], task[t].now).drep = row[v].drep
    BY <1>0 DEF Stamped, Row
  <2> QED BY <1>0, <1>8, <2>1, <2>2 DEF ApplySame
<1>9. ASSUME NEW t \in Tasks, NEW v \in Users, ApplyError(t, v)
      PROVE  inbox' = inbox /\ row'[u].drep = row[u].drep
  BY <1>0, <1>9 DEF ApplyError, Row
<1>10. ASSUME NEW t \in Tasks, NEW v \in Users, ApplyBaseline(t, v)
       PROVE  /\ inbox' = inbox
              /\ row[u].drep # Unset => row'[u].drep = row[u].drep
  <2>1. CASE row[v].drep = Unset
    <3>1. PICK r : row' = [row EXCEPT ![v] = r]
      BY <1>10, <2>1 DEF ApplyBaseline
    <3> QED BY <1>0, <1>10, <2>1, <3>1 DEF ApplyBaseline
  <2> QED BY <1>10, <2>1 DEF ApplyBaseline
<1>11. ASSUME NEW t \in Tasks, NEW v \in Users, Capture(t, v)
       PROVE  inbox' = inbox /\ row'[u].drep = row[u].drep
  <2>1. PICK s \in Lookup :
          row' = row \/ row' = [row EXCEPT ![v] = Captured(row[v], task[t].now, s)]
    BY <1>0, <1>11 DEF Capture, Task
  <2>2. Captured(row[v], task[t].now, s).drep = row[v].drep
    BY <1>0, <1>5 DEF Task
  <2> QED BY <1>0, <1>11, <2>1, <2>2 DEF Capture
<1> QED BY <1>1, <1>2, <1>3, <1>6, <1>7, <1>8, <1>9, <1>10, <1>11
        DEF Next, Tick, Land, Delegate, Retry, RefreshBulk, ListMissing, Ask, LookUp, Evict,
            RowFails, vars

\* A task comes to a change only by finding its row resolved.
LEMMA ToChange ==
    ASSUME IInv, [Next]_vars, NEW t \in Tasks, task'[t].at = "change"
    PROVE  \/ task[t].at = "change" /\ task'[t].user = task[t].user
           \/ row[task'[t].user].drep # Unset
<1> USE DEF IInv
<1>0. task \in [Tasks -> Task] /\ Resting.at = "idle" /\ Logins \subseteq Tasks /\ Crons \subseteq Tasks
  BY DEF TypeOK, Resting, Tasks
<1>1. CASE task'[t] = task[t]
  BY <1>1
<1>2. \A q \in Tasks : Reading(task[q]).at = "lookup"
  BY <1>0 DEF Reading, Task
<1>3. ASSUME NEW q \in Tasks, NEW u \in Users, NEW b \in BOOLEAN, Applied(q, u, b)
      PROVE  task'[t] = task[t]
  <2>1. AfterRow(q, u, b) # "change"
    BY DEF AfterRow, NextRow
  <2> QED BY <1>0, <1>3, <2>1 DEF Applied, Task
<1>4. ASSUME NEW q \in Logins, NEW u \in Users, NEW s \in Seconds, NEW b \in BOOLEAN, SignIn(q, u, s, b)
      PROVE  task'[t] = task[t]
  BY <1>0, <1>4 DEF SignIn, Resting
<1>5. ASSUME NEW q \in Logins, NEW d \in Dreps, Expect(q, d) PROVE task'[t] = task[t]
  BY <1>0, <1>5 DEF Expect, Task
<1>6. ASSUME NEW q \in Logins, Retry(q) PROVE task'[t] = task[t]
  BY <1>0, <1>2, <1>6 DEF Retry
<1>7. ASSUME NEW q \in Logins, WriteFlat(q) PROVE task'[t] = task[t]
  BY <1>0, <1>7 DEF WriteFlat
<1>8. ASSUME NEW q \in Crons, NEW s \in Seconds, RefreshBulk(q, s) PROVE task'[t] = task[t]
  <2>1. PICK S \in SUBSET Due :
          task' = [task EXCEPT ![q] = [Resting EXCEPT
                     !.at = "ask", !.now = clock, !.second = s, !.batch = S, !.todo = S]]
    BY <1>8 DEF RefreshBulk
  <2> QED BY <1>0, <2>1 DEF Resting
<1>9. ASSUME NEW q \in Crons, AskFails(q) PROVE task'[t] = task[t]
  BY <1>0, <1>9 DEF AskFails
<1>10. ASSUME NEW q \in Crons, ListMissing(q) PROVE task'[t] = task[t]
  <2>1. PICK S : task' = IF S = {} THEN [task EXCEPT ![q] = Resting]
                         ELSE [task EXCEPT ![q] = [Reading(task[q]) EXCEPT !.batch = S]]
    BY <1>10 DEF ListMissing
  <2> DEFINE w == [Reading(task[q]) EXCEPT !.batch = S]
  <2>2. w.at = "lookup"
    BY <1>0 DEF Reading, Task
  <2> HIDE DEF w
  <2>3. task' = [task EXCEPT ![q] = Resting] \/ task' = [task EXCEPT ![q] = w]
    BY <2>1 DEF w
  <2> QED BY <1>0, <2>2, <2>3
<1>11. ASSUME NEW q \in Tasks, Ask(q) PROVE task'[t] = task[t]
  <2>1. PICK f : task' = [task EXCEPT ![q] = [task[q] EXCEPT !.at = "apply", !.answer = f]]
    BY <1>11 DEF Ask
  <2> QED BY <1>0, <2>1 DEF Task
<1>12. ASSUME NEW q \in Tasks, LookUp(q) PROVE task'[t] = task[t]
  <2>1. PICK f : task' = [task EXCEPT ![q] = [task[q] EXCEPT !.at = "write",
                            !.todo = task[q].batch, !.start = f]]
    BY <1>12 DEF LookUp
  <2> QED BY <1>0, <2>1 DEF Task
<1>13. ASSUME NEW q \in Tasks, ApplySame(q) PROVE task'[t] = task[t]
  <2>1. task[q].user \in Users
    BY <1>0 DEF Task
  <2> QED BY <1>3, <1>13, <2>1 DEF ApplySame
<1>14. ASSUME NEW q \in Tasks, ApplyChange(q) PROVE task'[t] = task[t]
  <2>1. task[q].user \in Users
    BY <1>0 DEF Task
  <2>2. CASE task' = [task EXCEPT ![q].at = "same"]
    BY <1>0, <2>2 DEF Task
  <2> QED BY <1>3, <1>14, <2>1, <2>2 DEF ApplyChange
<1>15. ASSUME NEW q \in Tasks, Evict(q) PROVE task'[t] = task[t]
  BY <1>0, <1>15 DEF Evict
<1>16. ASSUME NEW q \in Tasks, NEW u \in Users, ApplyError(q, u) PROVE task'[t] = task[t]
  BY <1>3, <1>16 DEF ApplyError
<1>17. ASSUME NEW q \in Tasks, NEW u \in Users, ApplyBaseline(q, u)
       PROVE  task'[t] = task[t] \/ row[task'[t].user].drep # Unset
  <2>1. CASE row[u].drep = Unset
    BY <1>3, <1>17, <2>1 DEF ApplyBaseline
  <2>2. CASE row[u].drep # Unset
    <3>1. task' = [task EXCEPT ![q] = [task[q] EXCEPT !.at = "change", !.user = u]]
      BY <1>17, <2>2 DEF ApplyBaseline
    <3> QED BY <1>0, <2>2, <3>1 DEF Task
  <2> QED BY <2>1, <2>2
<1>18. ASSUME NEW q \in Tasks, NEW u \in Users, Capture(q, u) PROVE task'[t] = task[t]
  <2>1. Next1(q, u).at # "change"
    BY <1>0, <1>18 DEF Next1, Capture, Task
  <2> QED BY <1>0, <1>18, <2>1 DEF Capture
<1>19. ASSUME NEW q \in Tasks, NEW u \in Users, RowFails(q, u) PROVE task'[t] = task[t]
  <2> DEFINE w == [task[q] EXCEPT !.todo = @ \ {u}, !.at = AfterFailure(q, u)]
  <2>1. w.at # "change"
    BY <1>0 DEF AfterFailure, NextRow, Task
  <2> HIDE DEF w
  <2>2. task' = [task EXCEPT ![q] = Resting] \/ task' = [task EXCEPT ![q] = w]
    BY <1>19 DEF RowFails, w
  <2> QED BY <1>0, <2>1, <2>2
<1>20. CASE task' = task
  BY <1>1, <1>20
<1> QED BY <1>1, <1>4, <1>5, <1>6, <1>7, <1>8, <1>9, <1>10, <1>11, <1>12, <1>13, <1>14,
           <1>15, <1>16, <1>17, <1>18, <1>19, <1>20
        DEF Next, Tick, Land, Delegate, vars

LEMMA ResolvedStep == ASSUME IInv, Resolved, [Next]_vars PROVE Resolved'
<1>1. ASSUME NEW u \in Users, row[u].drep # Unset PROVE row'[u].drep # Unset
  <2>1. CASE \E t \in Tasks : ApplyChange(t)
    <3>1. PICK t \in Tasks : ApplyChange(t)
      BY <2>1
    <3>2. task[t].user \in Users
      BY DEF IInv, TypeOK, Task
    <3>3. Unset \notin Dreps \cup {NoDrep}
      BY FollowAssumption DEF FollowAssumption, Unset, NoDrep
    <3> QED BY <1>1, <3>1, <3>2, <3>3, ChangeWrites
  <2> QED BY <1>1, <2>1, OthersKeep
<1>2. ASSUME NEW t \in Tasks, task'[t].at = "change" PROVE row'[task'[t].user].drep # Unset
  <2>1. row[task'[t].user].drep # Unset
    BY <1>2, ToChange DEF Resolved
  <2>2. task'[t].user \in Users
    BY TypeStep DEF TypeOK, Task
  <2> QED BY <1>1, <2>1, <2>2
<1> QED BY <1>2 DEF Resolved

\* Overlapping tasks that see the same change of delegation report it once, and
\* every unexpected change is reported unless a notice of the same second took
\* its event key: for any number of accounts, sign-ins and cron runs.
THEOREM ChangesToldOnce == Spec => ChangeToldOnce
<1> DEFINE Told(u) ==
      LET changed == row[u].drep \notin {Unset, row'[u].drep}
      IN  /\ inbox'[u] # inbox[u] => changed
          /\ changed /\ inbox'[u] = inbox[u] =>
                \/ row[u].expAt # 0 /\ row'[u].attempted <= row[u].expAt + ExpectedTtl
                \/ \E n \in inbox[u] : n.now = row'[u].attempted
<1>1. ASSUME IInv, Resolved, [Next]_vars, NEW u \in Users PROVE Told(u)
  <2>1. ASSUME NEW t \in Tasks, ApplyChange(t) PROVE Told(u)
    <3>1. PICK v, d : v \in Users /\ v = task[t].user /\ d = State(v, task[t].answer[v])
      BY <1>1 DEF IInv, TypeOK, Task
    <3>2. /\ \A w \in Users \ {v} : row'[w] = row[w] /\ inbox'[w] = inbox[w]
          /\ inbox'[v] = Notice(t, v)
          /\ row[v].drep = d => row' = row
          /\ row[v].drep # d => row'[v].drep = d /\ row'[v].attempted = task[t].now
      BY <1>1, <2>1, <3>1, ChangeWrites
    <3>3. row[v].drep # Unset
      BY <1>1, <2>1, <3>1 DEF Resolved, ApplyChange
    <3>4. CASE row[v].drep = d
      BY <3>1, <3>2, <3>4 DEF Notice
    <3>5. CASE row[v].drep # d /\ u = v
      <4>1. inbox'[u] = inbox[u] =>
              Expecting(row[v], task[t].now) \/ <<task[t].now, task[t].second>> \in Keys(v)
        <5> DEFINE new == [now |-> task[t].now, second |-> task[t].second, of |-> task[t].answer[v]]
        <5>1. new \in inbox[v] => <<new.now, new.second>> \in Keys(v)
          BY DEF Keys
        <5> QED BY <3>1, <3>2, <3>5, <5>1 DEF Notice
      <4>2. <<task[t].now, task[t].second>> \in Keys(v) => \E n \in inbox[v] : n.now = task[t].now
        BY DEF Keys
      <4>3. Expecting(row[v], task[t].now) =>
              row[v].expAt # 0 /\ task[t].now <= row[v].expAt + ExpectedTtl
        <5>1. row[v].expAt \in Nat /\ task[t].now \in Nat /\ ExpectedTtl \in Nat
          BY <1>1, <3>1, FollowAssumption DEF IInv, TypeOK, Row, Task, FollowAssumption
        <5> QED BY <5>1 DEF Expecting
      <4> QED BY <3>2, <3>3, <3>5, <4>1, <4>2, <4>3
    <3> QED BY <3>2, <3>4, <3>5
  <2> QED BY <1>1, <2>1, OthersKeep
<1>2. IInv /\ Resolved /\ [Next]_vars => [\A u \in Users : Told(u)]_vars
  BY <1>1
<1>3. Init => Resolved
  BY DEF Init, Resting, Resolved
<1> QED BY <1>2, <1>3, InitInv, StepInv, ResolvedStep, PTL DEF Spec, ChangeToldOnce

\* A compare-and-set keeps every start that a sign-in or the cron found missing
\* and retries: only a new state or the flat write of a fresh one replaces a start.
THEOREM StartsKept == Spec => StartKept
<1> DEFINE Kept(u) ==
      row[u].since \notin {0, row'[u].since} =>
        \/ row'[u].drep # row[u].drep
        \/ \E t \in Logins : WriteFlat(t)
<1>1. ASSUME TypeOK, [Next]_vars, NEW u \in Users PROVE Kept(u)
  <2>0. row \in [Users -> Row] /\ \A t \in Tasks : task[t] \in Task
    BY <1>1 DEF TypeOK
  <2>1. CASE UNCHANGED row
    BY <2>1
  <2>2. ASSUME NEW t \in Logins, NEW v \in Users, NEW s \in Seconds, NEW b \in BOOLEAN, SignIn(t, v, s, b)
        PROVE  Kept(u)
    BY <2>0, <2>2 DEF SignIn, Row
  <2>3. ASSUME NEW t \in Logins, NEW d \in Dreps, Expect(t, d) PROVE Kept(u)
    BY <2>0, <2>3 DEF Expect, Row
  <2>4. ASSUME NEW t \in Crons, AskFails(t) PROVE Kept(u)
    <3>1. row'[u] = row[u] \/ row'[u] = [row[u] EXCEPT !.attempted = task[t].now]
      BY <2>4 DEF AskFails
    <3> QED BY <2>0, <3>1 DEF Row
  <2>5. ASSUME NEW t \in Tasks, NEW v \in Users, ApplyError(t, v) PROVE Kept(u)
    BY <2>0, <2>5 DEF ApplyError, Row
  <2>6. ASSUME NEW t \in Tasks, NEW v \in Users, ApplyBaseline(t, v) PROVE Kept(u)
    <3>1. PICK d, n : row' = row \/ row' = [row EXCEPT ![v] = [row[v] EXCEPT !.drep = d, !.attempted = n]]
      BY <2>6 DEF ApplyBaseline
    <3>2. [row[v] EXCEPT !.drep = d, !.attempted = n].since = row[v].since
      BY <2>0 DEF Row
    <3>3. row'[u].since = row[u].since
      BY <2>0, <3>1, <3>2
    <3> QED BY <3>3
  <2>7. ASSUME NEW t \in Tasks, ApplySame(t) PROVE Kept(u)
    <3>1. PICK v \in Users : row' = [row EXCEPT ![v] = Stamped(row[v], task[t].now)]
      BY <2>0, <2>7 DEF ApplySame, Task
    <3>2. Stamped(row[v], task[t].now).since = row[v].since
      BY <2>0 DEF Stamped, Row
    <3> QED BY <2>0, <3>1, <3>2
  <2>8. ASSUME NEW t \in Tasks, ApplyChange(t) PROVE Kept(u)
    <3>1. PICK v, d :
            /\ v \in Users
            /\ d = State(v, task[t].answer[v])
            /\ \/ row' = row
               \/ /\ row[v].drep # d
                  /\ row' = [row EXCEPT ![v] = [Stamped(row[v], task[t].now) EXCEPT
                               !.drep = d, !.since = 0, !.sinceAt = 0, !.tries = 0]]
      BY <2>0, <2>8 DEF ApplyChange, Task
    <3> DEFINE r == Stamped(row[v], task[t].now)
    <3>2. r \in Row
      BY <2>0, <3>1, StampedType DEF Task
    <3> HIDE DEF r
    <3>3. row' = row \/ /\ row[v].drep # d
                        /\ row' = [row EXCEPT ![v] = [r EXCEPT !.drep = d, !.since = 0,
                                                               !.sinceAt = 0, !.tries = 0]]
      BY <3>1 DEF r
    <3> QED BY <2>0, <3>2, <3>3 DEF Row
  <2>9. ASSUME NEW t \in Tasks, NEW v \in Users, Capture(t, v) PROVE Kept(u)
    <3>1. PICK r : row' = row \/ (row[v].since = 0 /\ row' = [row EXCEPT ![v] = r])
      BY <2>9 DEF Capture, StillAsRead
    <3> QED BY <2>0, <3>1
  <2> QED BY <1>1, <2>1, <2>2, <2>3, <2>4, <2>5, <2>6, <2>7, <2>8, <2>9
          DEF Next, Tick, Land, Delegate, Retry, RefreshBulk, ListMissing, Ask, LookUp, Evict,
              RowFails, vars
<1>2. TypeOK /\ [Next]_vars => [\A u \in Users : Kept(u)]_vars
  BY <1>1
<1> QED BY <1>2, TypeCorrect, PTL DEF Spec, StartKept

-----------------------------------------------------------------------------
(* Delay: RowCatchesUp and OwnDelegationSilent *)

Behind(u)    == row[u].drep \notin {Unset, State(u, Newest(u))}
JustMoved(u) == clock = wallet[u].moved
Patience     == DueAfter * failures

\* A task that has yet to stamp the attempt for u, which the indexer failed.
Unanswered(w, u) ==
    w.at \in {"apply", "change", "same"} /\ u \in w.todo /\ w.answer[u] = 0

\* No time passes while a task runs.
Present ==
    \A t \in Tasks :
      /\ task[t].at # "idle" => task[t].now = clock
      /\ task[t].at = "idle" => \A u \in Users : task[t].answer[u] = 0
      /\ task[t].at \in {"expect", "ask"} => task[t].todo = task[t].batch

\* An answer is the newest delegation unless the chain has just moved.
AnswersNew ==
    \A t \in Tasks : \A u \in Users :
      JustMoved(u) \/ task[t].answer[u] = 0 \/ task[t].answer[u] = Newest(u)

SameSeen ==
    \A t \in Tasks : task[t].at = "same" =>
      /\ row[task[t].user].drep # Unset
      /\ JustMoved(task[t].user) \/ ~Behind(task[t].user)

\* No attempt is older than one interval.
Cadence ==
    \A u \in Users :
      /\ row[u].attempted <= clock
      /\ row[u].attempted > 0 => row[u].tracked /\ clock <= row[u].attempted + DueAfter

\* A row that is behind owes each interval since the move to a failure.
Lag ==
    \A u \in Users : Behind(u) =>
      /\ row[u].attempted <= wallet[u].moved + Patience
      /\ (\E t \in Tasks : Unanswered(task[t], u)) => clock <= wallet[u].moved + Patience

\* A delegation made here is expected until it cannot be new any more.
OwnKnown ==
    \A u \in Users :
      /\ wallet[u].own \subseteq 1..Newest(u)
      /\ wallet[u].moved <= clock
      /\ wallet[u].submitted # Unset => row[u].expAt = clock
      /\ Newest(u) \in wallet[u].own =>
            \/ row[u].expAt > 0 /\ row[u].expAt >= wallet[u].moved
            \/ clock > wallet[u].moved + ExpectedTtl

DInv == IInv /\ Resolved /\ Present /\ AnswersNew /\ SameSeen /\ Cadence /\ Lag /\ OwnKnown

\* A failure buys one interval.
LEMMA PatienceGrows ==
    ASSUME NEW m \in Nat, NEW n \in Nat
    PROVE  /\ DueAfter * m \in Nat
           /\ n >= m => DueAfter * n >= DueAfter * m
           /\ n > m => DueAfter * n >= DueAfter * m + DueAfter
<1>1. DueAfter \in Nat
  BY FollowAssumption DEF FollowAssumption
<1>2. ASSUME n >= m PROVE DueAfter * n >= DueAfter * m
  <2>1. n - m \in Nat /\ n = m + (n - m)
    BY <1>2
  <2>2. DueAfter * n = DueAfter * m + DueAfter * (n - m) /\ DueAfter * (n - m) \in Nat
    BY <1>1, <2>1
  <2> QED BY <1>1, <2>2
<1>3. ASSUME n > m PROVE DueAfter * n >= DueAfter * m + DueAfter
  <2>1. n - m - 1 \in Nat /\ n = m + 1 + (n - m - 1)
    BY <1>3
  <2>2. /\ DueAfter * n = DueAfter * m + DueAfter + DueAfter * (n - m - 1)
        /\ DueAfter * (n - m - 1) \in Nat
    BY <1>1, <2>1
  <2> QED BY <1>1, <2>2
<1> QED BY <1>1, <1>2, <1>3

\* Attempts that reach the indexer for a batch with a row fail for one at least.
LEMMA SomeFail ==
    ASSUME NEW S \in SUBSET Users, S # {} PROVE Cardinality(S) >= 1
<1>1. IsFiniteSet(S)
  BY FollowAssumption, FS_Subset DEF FollowAssumption
<1>2. Cardinality(S) # 0
  BY <1>1, FS_EmptySet
<1> QED BY <1>2, BatchSize

\* Every step leaves the wallet and the time alone but these.
LEMMA Elsewhere ==
    ASSUME IInv, [Next]_vars
    PROVE  \/ Tick
           \/ \E u \in Users : Land(u) \/ \E d \in Dreps \cup {NoDrep} : Delegate(u, d)
           \/ \E t \in Logins, d \in Dreps : Expect(t, d)
           \/ wallet' = wallet /\ clock' = clock
<1> DEFINE Still == wallet' = wallet /\ clock' = clock
<1>1. ASSUME NEW t \in Logins
      PROVE  /\ \A u, s, b : SignIn(t, u, s, b) => Still
             /\ Retry(t) \/ WriteFlat(t) => Still
  BY DEF SignIn, Retry, WriteFlat
<1>2. ASSUME NEW t \in Crons
      PROVE  /\ \A s : RefreshBulk(t, s) => Still
             /\ AskFails(t) \/ ListMissing(t) => Still
  BY DEF RefreshBulk, AskFails, ListMissing
<1>3. ASSUME NEW t \in Tasks
      PROVE  /\ Ask(t) \/ LookUp(t) \/ Evict(t) => Still
             /\ ApplyChange(t) \/ ApplySame(t) => Still
             /\ \A u : ApplyError(t, u) \/ ApplyBaseline(t, u) => Still
             /\ \A u : Capture(t, u) \/ RowFails(t, u) => Still
  BY DEF Ask, ApplyChange, ApplySame, LookUp, Evict, ApplyError, ApplyBaseline, Capture, RowFails
<1>4. UNCHANGED vars => Still
  BY DEF vars
<1> HIDE DEF Still
<1>5. \/ Tick
      \/ \E u \in Users : Land(u) \/ \E d \in Dreps \cup {NoDrep} : Delegate(u, d)
      \/ \E t \in Logins, d \in Dreps : Expect(t, d)
      \/ Still
  BY <1>1, <1>2, <1>3, <1>4 DEF Next
<1> QED BY <1>5 DEF Still

\* A step of the chain only adds to a history, at the time it is.
LEMMA WalletEffect ==
    ASSUME IInv, [Next]_vars, NEW u \in Users
    PROVE  \/ Tick
           \/ /\ clock' = clock /\ wallet'[u].moved = clock
              /\ UNCHANGED <<row, inbox, task, failures>>
           \/ /\ clock' = clock /\ wallet'[u].moved = wallet[u].moved
              /\ wallet'[u].history = wallet[u].history
<1>0. wallet \in [Users -> Wallet]
  BY DEF IInv, TypeOK
<1>1. ASSUME NEW v \in Users, Land(v) \/ \E d \in Dreps \cup {NoDrep} : Delegate(v, d)
      PROVE  /\ clock' = clock
             /\ UNCHANGED <<row, inbox, task, failures>>
             /\ wallet'[u] = wallet[u] \/ wallet'[u].moved = clock
  <2>1. \A d : Extend(wallet[v], d).moved = clock
    BY <1>0 DEF Extend, Wallet
  <2>2. CASE Land(v)
    <3> DEFINE w == Extend(wallet[v], wallet[v].submitted)
    <3>1. wallet' = [wallet EXCEPT ![v] = [w EXCEPT !.submitted = Unset, !.own = @ \cup {Newest(v) + 1}]]
      BY <2>2 DEF Land
    <3>2. [w EXCEPT !.submitted = Unset, !.own = @ \cup {Newest(v) + 1}].moved = w.moved
      BY <1>0 DEF Extend, Wallet
    <3> QED BY <1>0, <2>1, <2>2, <3>1, <3>2 DEF Land
  <2>3. ASSUME NEW d \in Dreps \cup {NoDrep}, Delegate(v, d)
        PROVE  wallet'[u] = wallet[u] \/ wallet'[u].moved = clock
    BY <1>0, <2>1, <2>3 DEF Delegate
  <2> QED BY <1>1, <2>2, <2>3 DEF Delegate
<1>2. ASSUME NEW t \in Logins, NEW d \in Dreps, Expect(t, d)
      PROVE  /\ clock' = clock /\ wallet'[u].moved = wallet[u].moved
             /\ wallet'[u].history = wallet[u].history
  <2>1. wallet' = wallet \/ \E v : wallet' = [wallet EXCEPT ![v] = [wallet[v] EXCEPT !.submitted = d]]
    BY <1>2 DEF Expect
  <2>2. \A v \in Users : /\ [wallet[v] EXCEPT !.submitted = d].moved = wallet[v].moved
                         /\ [wallet[v] EXCEPT !.submitted = d].history = wallet[v].history
    BY <1>0 DEF Wallet
  <2> QED BY <1>0, <1>2, <2>1, <2>2 DEF Expect
<1> QED BY <1>1, <1>2, Elsewhere

\* Failures are only counted up.
LEMMA FailuresGrow ==
    ASSUME IInv, [Next]_vars PROVE failures \in Nat /\ failures' \in Nat /\ failures' >= failures
<1>1. failures \in Nat /\ failures' \in Nat
  BY TypeStep DEF IInv, TypeOK
<1>2. ASSUME NEW t \in Tasks, NEW got \in SUBSET task[t].batch
      PROVE  Cardinality(task[t].batch \ got) \in Nat
  <2>1. task[t].batch \in SUBSET Users
    BY DEF IInv, TypeOK, Task
  <2> QED BY <2>1, BatchSize
<1>3. ASSUME NEW t \in Tasks, Ask(t) PROVE failures' >= failures
  <2>1. PICK got \in SUBSET task[t].batch : failures' = failures + Cardinality(task[t].batch \ got)
    BY <1>3 DEF Ask
  <2>2. Cardinality(task[t].batch \ got) \in Nat
    BY <1>2
  <2> QED BY <1>1, <2>1, <2>2
<1>4. ASSUME NEW t \in Crons, AskFails(t) PROVE failures' >= failures
  <2>1. t \in Tasks /\ failures' = failures + Cardinality(task[t].batch)
    BY <1>4 DEF AskFails, Tasks
  <2>2. Cardinality(task[t].batch) \in Nat
    BY <2>1, BatchSize DEF IInv, TypeOK, Task
  <2> QED BY <1>1, <2>1, <2>2
<1> DEFINE Uncounted == failures' = failures
<1>5. ASSUME NEW t \in Logins
      PROVE  /\ \A u, s, b : SignIn(t, u, s, b) => Uncounted
             /\ \A d : Expect(t, d) => Uncounted
             /\ Retry(t) \/ WriteFlat(t) => Uncounted
  BY DEF SignIn, Expect, Retry, WriteFlat, bounds
<1>6. ASSUME NEW t \in Crons
      PROVE  /\ \A s : RefreshBulk(t, s) => Uncounted
             /\ ListMissing(t) => Uncounted
  BY DEF RefreshBulk, ListMissing, bounds
<1>7. ASSUME NEW t \in Tasks
      PROVE  /\ LookUp(t) \/ Evict(t) => Uncounted
             /\ ApplyChange(t) \/ ApplySame(t) => Uncounted
             /\ \A u : ApplyError(t, u) \/ ApplyBaseline(t, u) => Uncounted
             /\ \A u : Capture(t, u) \/ RowFails(t, u) => Uncounted
  BY DEF ApplyChange, ApplySame, LookUp, Evict, ApplyError, ApplyBaseline, Capture, RowFails, bounds
<1>8. /\ Tick \/ UNCHANGED vars => Uncounted
      /\ \A u : Land(u) => Uncounted
      /\ \A u, d : Delegate(u, d) => Uncounted
  BY DEF Tick, Land, Delegate, vars, bounds
<1> HIDE DEF Uncounted
<1>9. \/ \E t \in Tasks : Ask(t)
      \/ \E t \in Crons : AskFails(t)
      \/ Uncounted
  BY <1>5, <1>6, <1>7, <1>8 DEF Next
<1> QED BY <1>1, <1>3, <1>4, <1>9 DEF Uncounted

\* An attempt for u is stamped, and what for.
Tried(t, u) ==
    /\ task[t].at # "idle"
    /\ wallet' = wallet /\ clock' = clock
    /\ row[u].tracked \/ (task[t].at = "same" /\ task[t].user = u)
    /\ row'[u].attempted = task[t].now
    /\ \/ row'[u].expAt = row[u].expAt
       \/ row'[u].expAt = 0 /\ row[u].expAt < task[t].now - ExpectedTtl
    /\ \/ row'[u].drep = row[u].drep /\ failures' > failures
       \/ row'[u].drep = row[u].drep /\ Unanswered(task[t], u)
       \/ row'[u].drep = row[u].drep /\ task[t].at = "same" /\ task[t].user = u
       \/ row'[u].drep = State(u, task[t].answer[u]) /\ task[t].answer[u] # 0

\* A step leaves the delegation of a row, its attempt and its expectation alone, or
\* it is the attempt of a task.
LEMMA RowEffect ==
    ASSUME IInv, [Next]_vars, NEW u \in Users
    PROVE  /\ row[u].tracked => row'[u].tracked
           /\ \/ \E t \in Tasks : Tried(t, u)
              \/ /\ row'[u].attempted = row[u].attempted /\ row'[u].drep = row[u].drep
                 /\ \/ row'[u].expAt = row[u].expAt
                    \/ \E t \in Logins, d \in Dreps : Expect(t, d)
<1> DEFINE Kept(r) == /\ r.attempted = row[u].attempted /\ r.drep = row[u].drep
                      /\ r.expAt = row[u].expAt /\ (row[u].tracked => r.tracked)
           Goal == /\ row[u].tracked => row'[u].tracked
                   /\ (\E t \in Tasks : Tried(t, u)) \/ Kept(row'[u])
<1>0. /\ row \in [Users -> Row] /\ \A t \in Tasks : task[t] \in Task
      /\ Logins \subseteq Tasks /\ Crons \subseteq Tasks
  BY DEF IInv, TypeOK, Tasks
<1>1. ASSUME row' = row PROVE Goal
  BY <1>1
<1>2. ASSUME NEW t \in Logins, NEW v \in Users, NEW s, NEW b, SignIn(t, v, s, b) PROVE Goal
  <2>1. Kept([row[u] EXCEPT !.tracked = TRUE])
    BY <1>0 DEF Row
  <2> QED BY <1>0, <1>2, <2>1 DEF SignIn
<1>3. ASSUME NEW t \in Logins, NEW d \in Dreps, Expect(t, d)
      PROVE  /\ row'[u].attempted = row[u].attempted /\ row'[u].drep = row[u].drep
             /\ row[u].tracked => row'[u].tracked
  <2>1. row' = row \/ \E v : row' = [row EXCEPT ![v] = [row[v] EXCEPT !.expAt = task[t].now]]
    BY <1>3 DEF Expect
  <2>2. row'[u] = row[u] \/ row'[u] = [row[u] EXCEPT !.expAt = task[t].now]
    BY <1>0, <2>1
  <2> QED BY <1>0, <2>2 DEF Row
<1>4. ASSUME NEW r \in Row, NEW n, NEW s PROVE
        LET c == Captured(r, n, s)
        IN  c.attempted = r.attempted /\ c.drep = r.drep /\ c.expAt = r.expAt /\ c.tracked = r.tracked
  BY DEF Captured, Row
<1>5. ASSUME NEW r \in Row, NEW n PROVE
        LET c == Stamped(r, n)
        IN  /\ c.attempted = n /\ c.drep = r.drep /\ c.tracked = r.tracked
            /\ c.expAt = r.expAt \/ (c.expAt = 0 /\ r.expAt < n - ExpectedTtl)
  BY DEF Stamped, Row
<1>6. ASSUME NEW t \in Logins, WriteFlat(t) PROVE Goal
  <2>1. \E v, s : row' = [row EXCEPT ![v] = Captured(row[v], task[t].now, s)]
    BY <1>6 DEF WriteFlat
  <2> QED BY <1>0, <1>4, <2>1
<1>7. ASSUME NEW t \in Tasks, NEW v \in Users, Capture(t, v) PROVE Goal
  <2>1. row' = row \/ \E s : row' = [row EXCEPT ![v] = Captured(row[v], task[t].now, s)]
    BY <1>7 DEF Capture
  <2> QED BY <1>0, <1>4, <2>1
<1>8. ASSUME NEW t \in Crons, AskFails(t) PROVE Goal
  <2>1. \/ u \notin task[t].batch /\ row'[u] = row[u]
        \/ u \in task[t].batch /\ row'[u] = [row[u] EXCEPT !.attempted = task[t].now]
    BY <1>8 DEF AskFails
  <2>2. CASE u \in task[t].batch
    <3>1. task[t].batch \in SUBSET Users /\ failures \in Nat
      BY <1>0 DEF IInv, TypeOK, Task
    <3>2. failures' > failures
      BY <1>8, <2>2, <3>1, SomeFail, BatchSize DEF AskFails
    <3>3. row[u].tracked
      BY <1>0, <2>2 DEF IInv, RowsExist, Worked
    <3>4. row'[u] = [row[u] EXCEPT !.attempted = task[t].now]
      BY <2>1, <2>2
    <3> QED BY <1>0, <1>8, <3>2, <3>3, <3>4 DEF AskFails, Tried, Row
  <2> QED BY <2>1, <2>2
<1>9. ASSUME NEW t \in Tasks, NEW v \in Users, ApplyError(t, v) PROVE Goal
  <2>1. row[v].tracked
    BY <1>0, <1>9 DEF IInv, RowsExist, Worked, ApplyError
  <2>2. CASE u = v
    <3>1. row'[u] = [row[u] EXCEPT !.attempted = task[t].now]
      BY <1>0, <1>9, <2>2 DEF ApplyError
    <3>2. Unanswered(task[t], u)
      BY <1>9, <2>2 DEF ApplyError, Unanswered
    <3>3. wallet' = wallet /\ clock' = clock /\ task[t].at = "apply"
      BY <1>9 DEF ApplyError
    <3> QED BY <1>0, <2>1, <2>2, <3>1, <3>2, <3>3 DEF Tried, Row
  <2>3. CASE u # v
    BY <1>0, <1>9, <2>3 DEF ApplyError
  <2> QED BY <2>2, <2>3
<1>10. ASSUME NEW t \in Tasks, NEW v \in Users, ApplyBaseline(t, v) PROVE Goal
  <2>1. row[v].tracked
    BY <1>0, <1>10 DEF IInv, RowsExist, Worked, ApplyBaseline
  <2>2. CASE u = v /\ row[v].drep = Unset
    <3>1. row'[u] = [row[u] EXCEPT !.drep = State(u, task[t].answer[u]), !.attempted = task[t].now]
      BY <1>0, <1>10, <2>2 DEF ApplyBaseline
    <3>2. /\ wallet' = wallet /\ clock' = clock /\ task[t].at = "apply"
          /\ task[t].answer[u] # 0
      BY <1>10, <2>2 DEF ApplyBaseline
    <3> QED BY <1>0, <2>1, <2>2, <3>1, <3>2 DEF Tried, Row
  <2>3. CASE u # v \/ row[v].drep # Unset
    BY <1>0, <1>10, <2>3 DEF ApplyBaseline
  <2> QED BY <2>2, <2>3
<1>11. ASSUME NEW t \in Tasks, ApplySame(t) PROVE Goal
  <2>1. CASE u = task[t].user
    <3>1. row'[u] = Stamped(row[u], task[t].now)
      BY <1>0, <1>11, <2>1 DEF ApplySame
    <3>2. wallet' = wallet /\ clock' = clock /\ task[t].at = "same"
      BY <1>11 DEF ApplySame
    <3> QED BY <1>0, <1>5, <2>1, <3>1, <3>2 DEF Tried
  <2>2. CASE u # task[t].user
    <3>1. row'[u] = row[u]
      BY <1>0, <1>11, <2>2 DEF ApplySame, Task
    <3> QED BY <3>1
  <2> QED BY <2>1, <2>2
<1>12. ASSUME NEW t \in Tasks, ApplyChange(t) PROVE Goal
  <2>1. CASE u = task[t].user /\ row[u].drep # State(u, task[t].answer[u])
    <3> DEFINE r == Stamped(row[u], task[t].now)
    <3>1. row'[u] = [r EXCEPT !.drep = State(u, task[t].answer[u]), !.since = 0, !.sinceAt = 0, !.tries = 0]
      BY <1>0, <1>12, <2>1 DEF ApplyChange
    <3>2. r \in Row
      BY <1>0, StampedType DEF Task
    <3>3. /\ r.attempted = task[t].now /\ r.tracked = row[u].tracked
          /\ r.expAt = row[u].expAt \/ (r.expAt = 0 /\ row[u].expAt < task[t].now - ExpectedTtl)
      BY <1>0, <1>5
    <3> HIDE DEF r
    <3>4. /\ row'[u].drep = State(u, task[t].answer[u]) /\ row'[u].attempted = r.attempted
          /\ row'[u].expAt = r.expAt /\ row'[u].tracked = r.tracked
      BY <3>1, <3>2 DEF Row
    <3>5. /\ wallet' = wallet /\ clock' = clock /\ task[t].at = "change"
      BY <1>12 DEF ApplyChange
    <3>6. row[u].tracked /\ task[t].answer[u] # 0
      BY <2>1, <3>5 DEF IInv, RowsExist, Worked, Positions
    <3> QED BY <3>3, <3>4, <3>5, <3>6 DEF Tried
  <2>2. CASE u # task[t].user \/ row[u].drep = State(u, task[t].answer[u])
    <3>1. row'[u] = row[u]
      BY <1>0, <1>12, <2>2 DEF ApplyChange, Task
    <3> QED BY <3>1
  <2> QED BY <2>1, <2>2
<1> HIDE DEF Goal, Kept
<1>13. Goal \/ \E t \in Logins, d \in Dreps : Expect(t, d)
  <2>1. \/ UNCHANGED row
        \/ \E t \in Logins, v \in Users, s \in Seconds, b \in BOOLEAN : SignIn(t, v, s, b)
        \/ \E t \in Logins, d \in Dreps : Expect(t, d)
        \/ \E t \in Logins : WriteFlat(t)
        \/ \E t \in Crons : AskFails(t)
        \/ \E t \in Tasks : ApplyChange(t) \/ ApplySame(t)
        \/ \E t \in Tasks, v \in Users : ApplyError(t, v) \/ ApplyBaseline(t, v) \/ Capture(t, v)
    BY DEF Next, Tick, Land, Delegate, Retry, RefreshBulk, ListMissing, Ask, LookUp, Evict, RowFails, vars
  <2>2. (\E t \in Logins, v \in Users, s \in Seconds, b \in BOOLEAN : SignIn(t, v, s, b)) => Goal
    BY <1>2
  <2>3. (\E t \in Logins : WriteFlat(t)) \/ (\E t \in Crons : AskFails(t)) => Goal
    BY <1>6, <1>8
  <2>4. (\E t \in Tasks : ApplyChange(t) \/ ApplySame(t)) => Goal
    BY <1>11, <1>12
  <2>5. (\E t \in Tasks, v \in Users : ApplyError(t, v) \/ ApplyBaseline(t, v) \/ Capture(t, v)) => Goal
    BY <1>7, <1>9, <1>10
  <2> QED BY <1>1, <2>1, <2>2, <2>3, <2>4, <2>5
<1> QED BY <1>3, <1>13 DEF Goal, Kept

\* A task as the indexer has answered it.
Answered(w, x, u) ==
    \/ x.answer[u] = Newest(u)
    \/ x.answer[u] = Newest(u) - 1 /\ JustMoved(u)
    \/ x.answer[u] = 0 /\ (u \in w.todo => failures' > failures)

\* What a step makes of task w: it ends, begins, asks or works on.
Ended(x)     == x.at = "idle" /\ \A u \in Users : x.answer[u] = 0
Begun(x)     == /\ x.at \in {"expect", "ask"} /\ x.now = clock /\ x.todo = x.batch
                /\ \A u \in Users : x.answer[u] = 0
Going(w, x)  == w.at = "expect" /\ x = [w EXCEPT !.at = "ask"]
Asked(w, x)  == /\ w.at = "ask" /\ x.at = "apply" /\ x.now = w.now /\ x.todo = w.todo
                /\ \A u \in Users : Answered(w, x, u)
Working      == Step \ {"idle", "expect", "ask"}
Continued(w, x) ==
    /\ w.at \in Working /\ x.at \in Working
    /\ x.now = w.now /\ x.answer = w.answer
    /\ \A u \in Users : Unanswered(x, u) => Unanswered(w, u)
    /\ x.at = "same" => /\ w.at = "change" /\ x.user = w.user /\ row' = row
                        /\ row[w.user].drep = State(w.user, w.answer[w.user])

TaskMoves(w, x) == x = w \/ Ended(x) \/ Begun(x) \/ Going(w, x) \/ Asked(w, x) \/ Continued(w, x)

LEMMA TaskEffect ==
    ASSUME IInv, Present, [Next]_vars, NEW t \in Tasks PROVE TaskMoves(task[t], task'[t])
<1> DEFINE Goal == TaskMoves(task[t], task'[t])
<1>0. /\ task \in [Tasks -> Task] /\ task[t] \in Task
      /\ Logins \subseteq Tasks /\ Crons \subseteq Tasks
  BY DEF IInv, TypeOK, Tasks
<1>1. ASSUME task' = task PROVE Goal
  BY <1>1 DEF TaskMoves
<1>2. Ended(Resting) /\ Resting \in Task
  BY RestingType DEF Ended, Resting, Nothing
<1>3. ASSUME NEW q \in Tasks, task' = [task EXCEPT ![q] = Resting] PROVE Goal
  BY <1>0, <1>2, <1>3 DEF TaskMoves
<1>4. ASSUME NEW q \in Tasks, NEW x, task' = [task EXCEPT ![q] = x], Begun(x) PROVE Goal
  BY <1>0, <1>4 DEF TaskMoves
<1>5. ASSUME NEW q \in Tasks, NEW x, task' = [task EXCEPT ![q] = x], Continued(task[q], x) PROVE Goal
  BY <1>0, <1>5 DEF TaskMoves
<1>6. ASSUME NEW q \in Logins, NEW u \in Users, NEW s \in Seconds, NEW b \in BOOLEAN, SignIn(q, u, s, b)
      PROVE  Goal
  <2> DEFINE a == IF b THEN "expect" ELSE "ask"
             x == [Resting EXCEPT !.at = a, !.now = clock, !.second = s,
                                  !.batch = {u}, !.todo = {u}, !.user = u]
  <2>1. a \in {"expect", "ask"}
    OBVIOUS
  <2>2. task' = [task EXCEPT ![q] = x]
    BY <1>6 DEF SignIn
  <2> HIDE DEF a
  <2>3. Begun(x)
    BY <1>2, <2>1 DEF Begun, Ended, Task
  <2> QED BY <1>0, <1>4, <2>2, <2>3
<1>7. ASSUME NEW q \in Logins, NEW d \in Dreps, Expect(q, d) PROVE Goal
  <2>1. task' = [task EXCEPT ![q] = [task[q] EXCEPT !.at = "ask"]] /\ task[q].at = "expect"
    BY <1>0, <1>7 DEF Expect
  <2> QED BY <1>0, <2>1 DEF TaskMoves, Going
<1>8. ASSUME NEW q \in Crons, NEW s \in Seconds, RefreshBulk(q, s) PROVE Goal
  <2>1. PICK S : task' = [task EXCEPT ![q] = [Resting EXCEPT
                            !.at = "ask", !.now = clock, !.second = s, !.batch = S, !.todo = S]]
    BY <1>8 DEF RefreshBulk
  <2> DEFINE x == [Resting EXCEPT !.at = "ask", !.now = clock, !.second = s, !.batch = S, !.todo = S]
  <2>2. Begun(x)
    BY <1>2 DEF Begun, Ended, Task
  <2> QED BY <1>0, <1>4, <2>1, <2>2
<1>9. ASSUME NEW q \in Tasks, task[q].at \in {"retry", "list"} PROVE
        \A S : Continued(task[q], [Reading(task[q]) EXCEPT !.batch = S]) /\ Continued(task[q], Reading(task[q]))
  <2>1. task[q].at \in Working /\ "lookup" \in Working
    BY <1>9 DEF Working, Step
  <2>2. /\ Reading(task[q]).at = "lookup" /\ Reading(task[q]).now = task[q].now
        /\ Reading(task[q]).answer = task[q].answer
    BY <1>0 DEF Reading, Task
  <2>3. ASSUME NEW S PROVE LET x == [Reading(task[q]) EXCEPT !.batch = S]
                           IN  /\ x.at = "lookup" /\ x.now = task[q].now /\ x.answer = task[q].answer
    BY <1>0 DEF Reading, Task
  <2> QED BY <2>1, <2>2, <2>3 DEF Continued, Unanswered
<1>10. ASSUME NEW q \in Logins, Retry(q) PROVE Goal
  BY <1>0, <1>3, <1>5, <1>9, <1>10 DEF Retry
<1>11. ASSUME NEW q \in Crons, ListMissing(q) PROVE Goal
  <2>1. PICK S : task' = IF S = {} THEN [task EXCEPT ![q] = Resting]
                         ELSE [task EXCEPT ![q] = [Reading(task[q]) EXCEPT !.batch = S]]
    BY <1>11 DEF ListMissing
  <2>2. Continued(task[q], [Reading(task[q]) EXCEPT !.batch = S])
    BY <1>0, <1>9, <1>11 DEF ListMissing
  <2> QED BY <1>0, <1>3, <1>5, <2>1, <2>2
<1>12. ASSUME NEW q \in Tasks, NEW v \in Users, NEW b \in BOOLEAN, Applied(q, v, b),
              task[q].at \in {"apply", "change", "same"}
       PROVE  Goal
  <2> DEFINE a == AfterRow(q, v, b)
             x == [task[q] EXCEPT !.todo = @ \ {v}, !.fresh = b /\ q \in Logins, !.at = a]
  <2>1. a \in {"list", "apply", "lookup", "retry"}
    BY DEF AfterRow, NextRow
  <2>2. task' = [task EXCEPT ![q] = x]
    BY <1>12 DEF Applied
  <2> HIDE DEF a
  <2>3. /\ x.at = a /\ x.now = task[q].now /\ x.answer = task[q].answer
        /\ x.todo = task[q].todo \ {v}
    BY <1>0 DEF Task
  <2> HIDE DEF x
  <2>4. Continued(task[q], x)
    BY <1>12, <2>1, <2>3 DEF Continued, Unanswered, Working, Step
  <2> QED BY <1>5, <2>2, <2>4
<1>13. ASSUME NEW q \in Tasks, Ask(q) PROVE Goal
  <2>1. PICK got \in SUBSET task[q].batch :
          /\ failures' = failures + Cardinality(task[q].batch \ got)
          /\ \E late \in SUBSET {u \in got : Unsettled(u)} :
               task' = [task EXCEPT ![q] = [task[q] EXCEPT !.at = "apply",
                          !.answer = [u \in Users |-> IF u \in got THEN Heard(u, late) ELSE 0]]]
    BY <1>13 DEF Ask
  <2>a. PICK late \in SUBSET {u \in got : Unsettled(u)} :
          task' = [task EXCEPT ![q] = [task[q] EXCEPT !.at = "apply",
                     !.answer = [u \in Users |-> IF u \in got THEN Heard(u, late) ELSE 0]]]
    BY <2>1
  <2> DEFINE f == [u \in Users |-> IF u \in got THEN Heard(u, late) ELSE 0]
             x == [task[q] EXCEPT !.at = "apply", !.answer = f]
  <2>2. task[q].todo = task[q].batch /\ task[q].at = "ask"
    BY <1>13 DEF Ask, Present
  <2>3. ASSUME NEW u \in Users PROVE
          \/ f[u] = Newest(u)
          \/ f[u] = Newest(u) - 1 /\ JustMoved(u)
          \/ f[u] = 0 /\ (u \in task[q].todo => failures' > failures)
    <3>1. CASE u \in got
      BY <3>1 DEF Heard, Unsettled, JustMoved
    <3>2. CASE u \notin got /\ u \in task[q].todo
      <4> DEFINE S == task[q].batch \ got
      <4>1. S \in SUBSET Users /\ S # {}
        BY <2>2, <3>2 DEF IInv, TypeOK, Task
      <4>2. Cardinality(S) \in Nat /\ Cardinality(S) >= 1 /\ failures \in Nat
        BY <4>1, SomeFail, BatchSize DEF IInv, TypeOK
      <4> HIDE DEF S
      <4>3. failures' = failures + Cardinality(S)
        BY <2>1 DEF S
      <4> QED BY <3>2, <4>2, <4>3
    <3>3. CASE u \notin got /\ u \notin task[q].todo
      BY <3>3
    <3> QED BY <3>1, <3>2, <3>3
  <2>4. task' = [task EXCEPT ![q] = x]
    BY <2>a
  <2> HIDE DEF f
  <2>5. /\ x.at = "apply" /\ x.now = task[q].now /\ x.todo = task[q].todo /\ x.answer = f
    BY <1>0 DEF Task
  <2> HIDE DEF x
  <2>6. Asked(task[q], x)
    BY <2>2, <2>3, <2>5 DEF Asked, Answered
  <2> QED BY <1>0, <2>4, <2>6 DEF TaskMoves
<1>14. ASSUME NEW q \in Tasks, NEW x, task[q].at \in Working, x.at \in Working \ {"same"},
              x.now = task[q].now, x.answer = task[q].answer, task' = [task EXCEPT ![q] = x],
              \A u \in Users : Unanswered(x, u) => Unanswered(task[q], u)
       PROVE  Goal
  BY <1>5, <1>14 DEF Continued
<1>15. ASSUME NEW q \in Tasks, ApplyChange(q) PROVE Goal
  <2> DEFINE v == task[q].user
  <2>1. v \in Users /\ task[q].at = "change"
    BY <1>0, <1>15 DEF Task, ApplyChange
  <2>2. CASE row[v].drep # State(v, task[q].answer[v])
    <3>1. Applied(q, v, TRUE)
      BY <1>15, <2>2 DEF ApplyChange
    <3> QED BY <1>12, <2>1, <3>1
  <2>3. CASE row[v].drep = State(v, task[q].answer[v])
    <3> DEFINE x == [task[q] EXCEPT !.at = "same"]
    <3>1. task' = [task EXCEPT ![q] = x] /\ row' = row
      BY <1>0, <1>15, <2>3 DEF ApplyChange
    <3>2. /\ x.at = "same" /\ x.now = task[q].now /\ x.todo = task[q].todo
          /\ x.answer = task[q].answer /\ x.user = v
      BY <1>0 DEF Task
    <3> HIDE DEF x
    <3>3. Continued(task[q], x)
      BY <2>1, <2>3, <3>1, <3>2 DEF Continued, Working, Step, Unanswered
    <3> QED BY <1>5, <3>1, <3>3
  <2> QED BY <2>2, <2>3
<1>16. ASSUME NEW q \in Tasks, ApplySame(q) PROVE Goal
  <2>1. task[q].user \in Users /\ Applied(q, task[q].user, FALSE) /\ task[q].at = "same"
    BY <1>0, <1>16 DEF ApplySame, Task
  <2> QED BY <1>12, <2>1
<1>17. ASSUME NEW q \in Tasks, NEW v \in Users, ApplyError(q, v) PROVE Goal
  BY <1>12, <1>17 DEF ApplyError
<1>18. ASSUME NEW q \in Tasks, NEW v \in Users, ApplyBaseline(q, v) PROVE Goal
  <2>1. CASE row[v].drep = Unset
    BY <1>12, <1>18, <2>1 DEF ApplyBaseline
  <2>2. CASE row[v].drep # Unset
    <3> DEFINE x == [task[q] EXCEPT !.at = "change", !.user = v]
    <3>1. task' = [task EXCEPT ![q] = x] /\ task[q].at = "apply"
      BY <1>18, <2>2 DEF ApplyBaseline
    <3>2. x.at = "change" /\ x.now = task[q].now /\ x.todo = task[q].todo /\ x.answer = task[q].answer
      BY <1>0 DEF Task
    <3> HIDE DEF x
    <3> QED BY <1>14, <3>1, <3>2 DEF Working, Step, Unanswered
  <2> QED BY <2>1, <2>2
<1>19. ASSUME NEW q \in Tasks, LookUp(q) PROVE Goal
  <2>1. PICK f : /\ task' = [task EXCEPT ![q] = [task[q] EXCEPT !.at = "write",
                                                   !.todo = task[q].batch, !.start = f]]
                 /\ task[q].at = "lookup"
    BY <1>19 DEF LookUp
  <2> DEFINE x == [task[q] EXCEPT !.at = "write", !.todo = task[q].batch, !.start = f]
  <2>2. x.at = "write" /\ x.now = task[q].now /\ x.answer = task[q].answer
    BY <1>0 DEF Task
  <2>3. task' = [task EXCEPT ![q] = x]
    BY <2>1
  <2> HIDE DEF x
  <2> QED BY <1>14, <2>1, <2>2, <2>3 DEF Working, Step, Unanswered
<1>20. ASSUME NEW q \in Tasks, NEW v \in Users, Capture(q, v) PROVE Goal
  <2> DEFINE x == [task[q] EXCEPT !.todo = @ \ {v}]
  <2>1. /\ task[q].at = "write"
        /\ task' = [task EXCEPT ![q] = Resting] \/ task' = [task EXCEPT ![q] = x]
    BY <1>20 DEF Capture, Next1
  <2>2. x.at = task[q].at /\ x.now = task[q].now /\ x.answer = task[q].answer
    BY <1>0 DEF Task
  <2> HIDE DEF x
  <2> QED BY <1>3, <1>14, <2>1, <2>2 DEF Working, Step, Unanswered
<1>21. ASSUME NEW q \in Tasks, NEW v \in Users, RowFails(q, v) PROVE Goal
  <2> DEFINE a == AfterFailure(q, v)
             x == [task[q] EXCEPT !.todo = @ \ {v}, !.at = a]
  <2>1. a \in {"write", "list", "apply"} /\ (task[q].at = "write" => a = "write")
    BY DEF AfterFailure, NextRow
  <2>2. /\ task[q].at \in {"apply", "write", "change", "same"}
        /\ task' = [task EXCEPT ![q] = Resting] \/ task' = [task EXCEPT ![q] = x]
    BY <1>21 DEF RowFails
  <2> HIDE DEF a
  <2>3. /\ x.at = a /\ x.now = task[q].now /\ x.answer = task[q].answer
        /\ x.todo = task[q].todo \ {v}
    BY <1>0 DEF Task
  <2> HIDE DEF x
  <2> QED BY <1>3, <1>14, <2>1, <2>2, <2>3 DEF Working, Step, Unanswered
<1>22. ASSUME NEW q \in Tasks, Evict(q) PROVE Goal
  BY <1>3, <1>22 DEF Evict
<1>23. ASSUME NEW q \in Logins, WriteFlat(q) PROVE Goal
  BY <1>0, <1>3, <1>23 DEF WriteFlat
<1>24. ASSUME NEW q \in Crons, AskFails(q) PROVE Goal
  BY <1>0, <1>3, <1>24 DEF AskFails
<1> HIDE DEF Goal
<1>25. Tick \/ (\E u \in Users : Land(u) \/ \E d \in Dreps \cup {NoDrep} : Delegate(u, d))
         \/ UNCHANGED vars => Goal
  BY <1>1 DEF Tick, Land, Delegate, vars
<1>26. (\E q \in Logins, u \in Users, s \in Seconds, b \in BOOLEAN : SignIn(q, u, s, b))
         \/ (\E q \in Logins, d \in Dreps : Expect(q, d))
         \/ (\E q \in Logins : Retry(q) \/ WriteFlat(q)) => Goal
  BY <1>6, <1>7, <1>10, <1>23
<1>27. (\E q \in Crons, s \in Seconds : RefreshBulk(q, s))
         \/ (\E q \in Crons : AskFails(q) \/ ListMissing(q)) => Goal
  BY <1>8, <1>11, <1>24
<1>28. (\E q \in Tasks : Ask(q) \/ ApplyChange(q) \/ ApplySame(q) \/ LookUp(q) \/ Evict(q)) => Goal
  BY <1>13, <1>15, <1>16, <1>19, <1>22
<1>29. (\E q \in Tasks, u \in Users :
          ApplyError(q, u) \/ ApplyBaseline(q, u) \/ Capture(q, u) \/ RowFails(q, u)) => Goal
  BY <1>17, <1>18, <1>20, <1>21
<1>30. Goal
  BY <1>25, <1>26, <1>27, <1>28, <1>29 DEF Next
<1> QED BY <1>30 DEF Goal

\* Types used below.
LEMMA Numbers ==
    ASSUME IInv, NEW u \in Users
    PROVE  /\ clock \in Nat /\ clock >= 1 /\ failures \in Nat
           /\ Newest(u) \in Nat /\ Newest(u) >= 1 /\ wallet[u].moved \in Nat
           /\ row[u].attempted \in Nat /\ row[u].expAt \in Nat
           /\ DueAfter \in Nat /\ DueAfter >= 1 /\ ExpectedTtl \in Nat /\ ExpectedTtl >= 1
<1>1. row[u] \in Row /\ wallet[u] \in Wallet
  BY DEF IInv, TypeOK
<1>2. clock \in Nat /\ clock >= 1 /\ failures \in Nat /\ Newest(u) >= 1
  BY DEF IInv, TypeOK, Stamps, Positions
<1>3. Newest(u) \in Nat /\ wallet[u].moved \in Nat
  BY <1>1 DEF Wallet, Newest
<1>4. row[u].attempted \in Nat /\ row[u].expAt \in Nat
  BY <1>1 DEF Row
<1>5. DueAfter \in Nat /\ DueAfter >= 1 /\ ExpectedTtl \in Nat /\ ExpectedTtl >= 1
  BY FollowAssumption DEF FollowAssumption
<1> QED BY <1>2, <1>3, <1>4, <1>5

LEMMA PresentStep == ASSUME DInv, [Next]_vars PROVE Present'
<1> USE DEF DInv
<1> SUFFICES ASSUME NEW t \in Tasks
             PROVE  /\ task'[t].at # "idle" => task'[t].now = clock'
                    /\ task'[t].at = "idle" => \A u \in Users : task'[t].answer[u] = 0
                    /\ task'[t].at \in {"expect", "ask"} => task'[t].todo = task'[t].batch
  BY DEF Present
<1>1. CASE Tick
  BY <1>1 DEF Tick, Present
<1>2. CASE ~Tick
  <2>1. clock' = clock
    BY <1>2, Elsewhere DEF Land, Delegate, Expect
  <2>2. TaskMoves(task[t], task'[t]) /\ task[t] \in Task
    BY TaskEffect DEF IInv, TypeOK
  <2>3. CASE task'[t] = task[t]
    BY <2>1, <2>3 DEF Present
  <2>4. CASE Ended(task'[t]) \/ Begun(task'[t])
    BY <2>1, <2>4 DEF Ended, Begun
  <2>5. CASE Going(task[t], task'[t])
    BY <2>1, <2>2, <2>5 DEF Going, Present, Task
  <2>6. CASE Asked(task[t], task'[t]) \/ Continued(task[t], task'[t])
    BY <2>1, <2>6 DEF Asked, Continued, Present, Working, Step
  <2> QED BY <2>2, <2>3, <2>4, <2>5, <2>6 DEF TaskMoves
<1> QED BY <1>1, <1>2

LEMMA AnswersNewStep == ASSUME DInv, [Next]_vars PROVE AnswersNew'
<1> USE DEF DInv
<1> SUFFICES ASSUME NEW t \in Tasks, NEW u \in Users
             PROVE  \/ clock' = wallet'[u].moved
                    \/ task'[t].answer[u] = 0
                    \/ task'[t].answer[u] = Len(wallet'[u].history)
  BY DEF AnswersNew, JustMoved, Newest
<1>1. CASE Tick
  BY <1>1 DEF Tick, Present
<1>2. CASE clock' = clock /\ wallet'[u].moved = clock
  BY <1>2
<1>3. CASE /\ clock' = clock /\ wallet'[u].moved = wallet[u].moved
           /\ wallet'[u].history = wallet[u].history
  <2>1. TaskMoves(task[t], task'[t]) /\ task[t] \in Task
    BY TaskEffect DEF IInv, TypeOK
  <2>2. JustMoved(u) \/ task[t].answer[u] = 0 \/ task[t].answer[u] = Newest(u)
    BY DEF AnswersNew
  <2>3. task'[t].answer[u] \in {0, task[t].answer[u], Newest(u)} \/ JustMoved(u)
    BY <2>1 DEF TaskMoves, Ended, Begun, Going, Asked, Continued, Answered, Task
  <2> QED BY <1>3, <2>2, <2>3 DEF JustMoved, Newest
<1> QED BY <1>1, <1>2, <1>3, WalletEffect

\* A row falls behind only as the chain moves, or by an answer from before it did.
LEMMA FallsBehind ==
    ASSUME DInv, [Next]_vars, NEW u \in Users, Behind(u)'
    PROVE  clock' = wallet'[u].moved \/ (Behind(u) /\ row'[u].drep = row[u].drep)
<1> USE DEF DInv
<1>1. CASE Tick
  <2>1. row' = row /\ wallet'[u].history = wallet[u].history
    BY <1>1 DEF Tick, IInv, TypeOK, Wallet
  <2> QED BY <2>1 DEF Behind, State, Newest
<1>2. CASE clock' = clock /\ wallet'[u].moved = clock
  BY <1>2
<1>3. CASE /\ clock' = clock /\ wallet'[u].moved = wallet[u].moved
           /\ wallet'[u].history = wallet[u].history
  <2>1. CASE row'[u].drep = row[u].drep
    BY <1>3, <2>1 DEF Behind, State, Newest
  <2>2. ASSUME NEW t \in Tasks, row'[u].drep = State(u, task[t].answer[u]), task[t].answer[u] # 0
        PROVE  JustMoved(u)
    <3>1. task[t].answer[u] # Newest(u)
      BY <1>3, <2>2 DEF Behind, State, Newest
    <3> QED BY <2>2, <3>1 DEF AnswersNew
  <2> QED BY <1>3, <2>1, <2>2, RowEffect DEF Tried, JustMoved
<1> QED BY <1>1, <1>2, <1>3, WalletEffect

LEMMA SameSeenStep == ASSUME DInv, [Next]_vars PROVE SameSeen'
<1> USE DEF DInv
<1>0. TypeOK' /\ TypeOK
  BY TypeStep DEF IInv
<1> SUFFICES ASSUME NEW t \in Tasks, NEW u \in Users, u = task'[t].user, task'[t].at = "same"
             PROVE  row'[u].drep # Unset /\ (clock' = wallet'[u].moved \/ ~Behind(u)')
  BY <1>0 DEF SameSeen, JustMoved, TypeOK, Task, Behind, State, Newest
<1>1. TaskMoves(task[t], task'[t]) /\ task[t] \in Task
  BY <1>0, TaskEffect DEF TypeOK
<1>2. CASE task'[t] = task[t]
  <2>1. row[u].drep # Unset /\ (JustMoved(u) \/ ~Behind(u))
    BY <1>2 DEF SameSeen
  <2>2. row'[u].drep # Unset
    <3>1. CASE row'[u].drep = row[u].drep
      BY <2>1, <3>1
    <3>2. ASSUME NEW q \in Tasks, row'[u].drep = State(u, task[q].answer[u]), task[q].answer[u] # 0
          PROVE  row'[u].drep # Unset
      <4>1. task[q].answer[u] \in Nat /\ task[q].answer[u] <= Newest(u)
        BY <1>0 DEF TypeOK, Task, IInv, Positions
      <4>2. State(u, task[q].answer[u]) \in Dreps \cup {NoDrep}
        BY <1>0, <3>2, <4>1, StateType
      <4> QED BY <3>2, <4>2, FollowAssumption DEF FollowAssumption, Unset, NoDrep
    <3> QED BY <3>1, <3>2, RowEffect DEF Tried
  <2>3. Behind(u)' => clock' = wallet'[u].moved
    <3>1. CASE Tick
      BY <1>2, <3>1 DEF Tick
    <3>2. CASE clock' = clock /\ wallet'[u].moved = wallet[u].moved
      BY <2>1, <3>2, FallsBehind DEF JustMoved
    <3> QED BY <3>1, <3>2, WalletEffect
  <2> QED BY <2>2, <2>3
<1>3. CASE Continued(task[t], task'[t])
  <2> DEFINE a == task[t].answer[u]
  <2>1. /\ task[t].at = "change" /\ task[t].user = u /\ row' = row
        /\ row[u].drep = State(u, a)
    BY <1>3 DEF Continued
  <2>2. row[u].drep # Unset /\ a # 0
    BY <2>1 DEF Resolved, IInv, Positions
  <2>3. a = Newest(u) \/ JustMoved(u)
    BY <2>2 DEF AnswersNew
  <2>4. Behind(u)' => clock' = wallet'[u].moved
    <3>1. CASE Tick
      BY <2>1, <3>1 DEF Tick
    <3>2. CASE clock' = clock /\ wallet'[u].moved = wallet[u].moved
      <4>1. Behind(u) => JustMoved(u)
        BY <2>1, <2>3 DEF Behind
      <4> QED BY <3>2, <4>1, FallsBehind DEF JustMoved
    <3> QED BY <3>1, <3>2, WalletEffect
  <2> QED BY <2>1, <2>2, <2>4
<1>4. CASE Ended(task'[t]) \/ Begun(task'[t]) \/ Going(task[t], task'[t]) \/ Asked(task[t], task'[t])
  BY <1>1, <1>4 DEF Ended, Begun, Going, Asked, Task
<1> QED BY <1>1, <1>2, <1>3, <1>4 DEF TaskMoves

LEMMA CadenceStep == ASSUME DInv, [Next]_vars PROVE Cadence'
<1> USE DEF DInv
<1> SUFFICES ASSUME NEW u \in Users
             PROVE  /\ row'[u].attempted <= clock'
                    /\ row'[u].attempted > 0 => row'[u].tracked /\ clock' <= row'[u].attempted + DueAfter
  BY DEF Cadence
<1>0. /\ clock \in Nat /\ row[u].attempted \in Nat /\ DueAfter \in Nat
      /\ row[u].attempted <= clock
      /\ row[u].attempted > 0 => row[u].tracked /\ clock <= row[u].attempted + DueAfter
  BY Numbers DEF Cadence
<1>1. CASE Tick
  <2>1. row' = row /\ clock' = clock + 1 /\ Due = {}
    BY <1>1 DEF Tick
  <2> QED BY <1>0, <2>1 DEF Due
<1>2. CASE ~Tick
  <2>1. clock' = clock
    BY <1>2, Elsewhere DEF Land, Delegate, Expect
  <2>2. ASSUME NEW t \in Tasks, Tried(t, u)
        PROVE  row'[u].attempted = clock /\ row'[u].tracked
    <3>1. row[u].tracked
      <4>1. CASE task[t].at = "same" /\ task[t].user = u
        BY <4>1 DEF SameSeen, IInv, RowConsistent, Consistent
      <4> QED BY <2>2, <4>1 DEF Tried
    <3> QED BY <2>2, <3>1, RowEffect DEF Tried, Present
  <2> QED BY <1>0, <2>1, <2>2, RowEffect
<1> QED BY <1>1, <1>2

\* A row that has been behind for a whole interval counts a failure more.
LEMMA OneMore ==
    ASSUME DInv, [Next]_vars, NEW u \in Users, Behind(u), failures' > failures
    PROVE  clock <= wallet[u].moved + DueAfter * failures'
<1> USE DEF DInv
<1>1. row[u].attempted > 0
  BY DEF Behind, IInv, RowConsistent, Consistent
<1>2. clock <= row[u].attempted + DueAfter /\ row[u].attempted <= wallet[u].moved + DueAfter * failures
  BY <1>1 DEF Cadence, Lag, Patience
<1>3. DueAfter * failures' >= DueAfter * failures + DueAfter
  BY FailuresGrow, PatienceGrows
<1>4. DueAfter * failures \in Nat /\ DueAfter * failures' \in Nat
  BY FailuresGrow, PatienceGrows
<1> DEFINE p == DueAfter * failures
           q == DueAfter * failures'
<1>5. p \in Nat /\ q \in Nat /\ q >= p + DueAfter /\ row[u].attempted <= wallet[u].moved + p
  BY <1>2, <1>3, <1>4
<1> HIDE DEF p, q
<1>6. clock <= wallet[u].moved + q
  BY <1>2, <1>5, Numbers
<1> QED BY <1>6 DEF q

LEMMA LagStep == ASSUME DInv, [Next]_vars PROVE Lag'
<1> USE DEF DInv
<1> DEFINE p == DueAfter * failures
           q == DueAfter * failures'
<1> SUFFICES ASSUME NEW u \in Users, Behind(u)'
             PROVE  /\ row'[u].attempted <= wallet'[u].moved + q
                    /\ (\E t \in Tasks : Unanswered(task'[t], u)) => clock' <= wallet'[u].moved + q
  BY DEF Lag, Patience, Unanswered
<1>0. p \in Nat /\ q \in Nat /\ q >= p
  BY FailuresGrow, PatienceGrows
<1>a. Behind(u) /\ failures' > failures => clock <= wallet[u].moved + q
  BY OneMore
<1>b. Behind(u) => /\ row[u].attempted <= wallet[u].moved + p
                   /\ (\E t \in Tasks : Unanswered(task[t], u)) => clock <= wallet[u].moved + p
  BY DEF Lag, Patience
<1>c. wallet'[u].moved \in Nat /\ row'[u].attempted \in Nat /\ clock' \in Nat
  BY TypeStep DEF TypeOK, Wallet, Row
<1>d. row'[u].attempted <= clock'
  BY CadenceStep DEF Cadence
<1> HIDE DEF p, q
<1>1. CASE clock' = wallet'[u].moved
  BY <1>0, <1>1, <1>c, <1>d
<1>2. CASE Tick
  <2>1. /\ row' = row /\ task' = task /\ wallet'[u].moved = wallet[u].moved
        /\ \A t \in Tasks : task[t].at = "idle"
    BY <1>2 DEF Tick, IInv, TypeOK, Wallet
  <2>2. \A t \in Tasks : ~Unanswered(task'[t], u)
    BY <2>1 DEF Unanswered
  <2>3. Behind(u)
    BY <1>1, <2>1, FallsBehind, <1>2 DEF Tick, Behind, State, Newest, IInv, TypeOK, Wallet
  <2> QED BY <1>0, <1>b, <2>1, <2>2, <2>3, Numbers
<1>3. CASE /\ clock' = clock /\ wallet'[u].moved = wallet[u].moved
           /\ clock' # wallet'[u].moved
  <2>1. Behind(u) /\ row'[u].drep = row[u].drep
    BY <1>3, FallsBehind
  <2>2. row'[u].attempted <= wallet[u].moved + q
    <3>1. CASE row'[u].attempted = row[u].attempted
      BY <1>0, <1>b, <2>1, <3>1, Numbers
    <3>2. ASSUME NEW t \in Tasks, Tried(t, u) PROVE clock <= wallet[u].moved + q
      <4>1. CASE failures' > failures
        BY <1>a, <2>1, <4>1
      <4>2. CASE Unanswered(task[t], u)
        BY <1>0, <1>b, <2>1, <4>2, Numbers
      <4>3. CASE task[t].at = "same" /\ task[t].user = u
        BY <1>3, <2>1, <4>3 DEF SameSeen, JustMoved
      <4>4. CASE row'[u].drep = State(u, task[t].answer[u]) /\ task[t].answer[u] # 0
        <5>1. task[t].answer[u] # Newest(u)
          BY <2>1, <4>4 DEF Behind
        <5> QED BY <1>3, <4>4, <5>1 DEF AnswersNew, JustMoved
      <4> QED BY <3>2, <4>1, <4>2, <4>3, <4>4 DEF Tried
    <3> QED BY <1>3, <1>d, <3>1, <3>2, RowEffect, <1>c, <1>0, Numbers
  <2>3. ASSUME NEW t \in Tasks, Unanswered(task'[t], u) PROVE clock <= wallet[u].moved + q
    <3>1. TaskMoves(task[t], task'[t]) /\ task[t] \in Task
      BY TaskEffect DEF IInv, TypeOK
    <3>2. CASE Unanswered(task[t], u)
      BY <1>0, <1>b, <2>1, <3>2, Numbers
    <3>3. CASE Asked(task[t], task'[t])
      <4>1. u \in task[t].todo /\ task'[t].answer[u] = 0
        BY <2>3, <3>3 DEF Asked, Unanswered
      <4>2. Answered(task[t], task'[t], u)
        BY <3>3 DEF Asked
      <4>3. failures' > failures
        BY <1>3, <4>1, <4>2, Numbers DEF Answered, JustMoved
      <4> QED BY <1>a, <2>1, <4>3
    <3>4. CASE Ended(task'[t]) \/ Begun(task'[t]) \/ Going(task[t], task'[t])
      BY <2>3, <3>1, <3>4 DEF Ended, Begun, Going, Unanswered, Task
    <3> QED BY <2>3, <3>1, <3>2, <3>3, <3>4 DEF TaskMoves, Continued
  <2> QED BY <1>3, <2>2, <2>3
<1> QED BY <1>1, <1>2, <1>3, WalletEffect

LEMMA OwnKnownStep == ASSUME DInv, [Next]_vars PROVE OwnKnown'
<1> USE DEF DInv
<1> DEFINE Known(w, r, c) ==
      /\ w.own \subseteq 1..Len(w.history)
      /\ w.moved <= c
      /\ w.submitted # Unset => r.expAt = c
      /\ Len(w.history) \in w.own =>
            (r.expAt > 0 /\ r.expAt >= w.moved) \/ c > w.moved + ExpectedTtl
<1> SUFFICES ASSUME NEW u \in Users PROVE Known(wallet'[u], row'[u], clock')
  BY DEF OwnKnown, Newest
<1>0. Known(wallet[u], row[u], clock) /\ wallet[u] \in Wallet
  BY DEF OwnKnown, Newest, IInv, TypeOK
<1>a. wallet \in [Users -> Wallet]
  BY DEF IInv, TypeOK
<1>1. CASE Tick
  <2>1. wallet'[u] = [wallet[u] EXCEPT !.submitted = Unset] /\ row' = row /\ clock' = clock + 1
    BY <1>1 DEF Tick
  <2>2. /\ wallet'[u].own = wallet[u].own /\ wallet'[u].moved = wallet[u].moved
        /\ wallet'[u].history = wallet[u].history /\ wallet'[u].submitted = Unset
    BY <1>0, <2>1 DEF Wallet
  <2> QED BY <1>0, <2>1, <2>2, Numbers
<1>2. ASSUME NEW d \in Dreps \cup {NoDrep}
      PROVE  /\ Extend(wallet[u], d) \in Wallet
             /\ Extend(wallet[u], d).moved = clock
             /\ Extend(wallet[u], d).own = wallet[u].own
             /\ Extend(wallet[u], d).submitted = wallet[u].submitted
             /\ Len(Extend(wallet[u], d).history) = Newest(u) + 1
  <2>1. /\ Append(wallet[u].history, d) \in Seq(Dreps \cup {NoDrep})
        /\ Len(Append(wallet[u].history, d)) = Newest(u) + 1
    BY <1>0, AppendProperties DEF Wallet, Newest
  <2> QED BY <1>0, <2>1, Numbers DEF Extend, Wallet
<1>3. ASSUME NEW v \in Users, NEW d \in Dreps \cup {NoDrep}, Delegate(v, d)
      PROVE  Known(wallet'[u], row'[u], clock')
  <2>1. row' = row /\ clock' = clock
    BY <1>3 DEF Delegate
  <2>2. CASE u = v
    <3>1. wallet'[u] = Extend(wallet[u], d)
      BY <1>3, <1>a, <2>2 DEF Delegate
    <3> QED BY <1>0, <1>2, <2>1, <3>1, Numbers DEF Newest
  <2>3. CASE u # v
    <3>1. wallet'[u] = wallet[u]
      BY <1>3, <1>a, <2>3 DEF Delegate
    <3> QED BY <1>0, <2>1, <3>1
  <2> QED BY <2>2, <2>3
<1>4. ASSUME NEW v \in Users, Land(v) PROVE Known(wallet'[u], row'[u], clock')
  <2>1. row' = row /\ clock' = clock /\ wallet[v].submitted # Unset
    BY <1>4 DEF Land
  <2>2. CASE u = v
    <3> DEFINE x == Extend(wallet[u], wallet[u].submitted)
    <3>1. wallet'[u] = [x EXCEPT !.submitted = Unset, !.own = @ \cup {Newest(u) + 1}]
      BY <1>4, <1>a, <2>2 DEF Land
    <3>2. wallet[u].submitted \in Dreps \cup {NoDrep}
      BY <1>0, <2>1, <2>2 DEF Wallet
    <3>3. /\ x \in Wallet /\ x.moved = clock /\ x.own = wallet[u].own
          /\ Len(x.history) = Newest(u) + 1
      BY <1>2, <3>2
    <3> HIDE DEF x
    <3>4. /\ wallet'[u].moved = clock /\ wallet'[u].submitted = Unset
          /\ wallet'[u].own = wallet[u].own \cup {Newest(u) + 1}
          /\ Len(wallet'[u].history) = Newest(u) + 1
      BY <3>1, <3>3 DEF Wallet
    <3>5. row[u].expAt = clock
      BY <1>0, <2>1, <2>2
    <3> QED BY <1>0, <2>1, <3>4, <3>5, Numbers DEF Newest
  <2>3. CASE u # v
    <3>1. wallet'[u] = wallet[u]
      BY <1>4, <1>a, <2>3 DEF Land
    <3> QED BY <1>0, <2>1, <3>1
  <2> QED BY <2>2, <2>3
<1>5. ASSUME NEW t \in Logins, NEW d \in Dreps, Expect(t, d)
      PROVE  Known(wallet'[u], row'[u], clock')
  <2>1. task[t].now = clock /\ clock' = clock /\ row \in [Users -> Row]
    BY <1>5 DEF Expect, Present, Tasks, IInv, TypeOK
  <2>2. \/ wallet'[u] = wallet[u] /\ row'[u] = row[u]
        \/ /\ wallet'[u] = [wallet[u] EXCEPT !.submitted = d]
           /\ row'[u] = [row[u] EXCEPT !.expAt = clock]
    BY <1>5, <1>a, <2>1 DEF Expect
  <2>3. CASE /\ wallet'[u] = [wallet[u] EXCEPT !.submitted = d]
             /\ row'[u] = [row[u] EXCEPT !.expAt = clock]
    <3>1. /\ wallet'[u].moved = wallet[u].moved /\ wallet'[u].own = wallet[u].own
          /\ wallet'[u].history = wallet[u].history /\ row'[u].expAt = clock
      BY <1>0, <2>1, <2>3 DEF Wallet, Row
    <3> QED BY <1>0, <2>1, <3>1, Numbers
  <2> QED BY <1>0, <2>1, <2>2, <2>3
<1>6. CASE wallet' = wallet /\ clock' = clock /\ ~\E t \in Logins, d \in Dreps : Expect(t, d)
  <2>1. CASE row'[u].expAt = row[u].expAt
    BY <1>0, <1>6, <2>1
  <2>2. ASSUME NEW t \in Tasks, Tried(t, u), row'[u].expAt = 0, row[u].expAt < task[t].now - ExpectedTtl
        PROVE  Known(wallet'[u], row'[u], clock')
    <3>1. row[u].expAt < clock - ExpectedTtl
      BY <2>2 DEF Tried, Present
    <3> QED BY <1>0, <1>6, <3>1, Numbers
  <2> QED BY <1>6, <2>1, <2>2, RowEffect DEF Tried
<1> QED BY <1>1, <1>3, <1>4, <1>5, <1>6, Elsewhere

LEMMA DelayInv == Init => DInv
<1> SUFFICES ASSUME Init PROVE DInv
  OBVIOUS
<1>1. IInv
  BY InitInv
<1>2. /\ \A t \in Tasks : task[t].at = "idle" /\ \A u \in Users : task[t].answer[u] = 0
      /\ clock = 1 /\ failures = 0
  BY DEF Init, Resting, Nothing
<1>3. \A u \in Users : /\ row[u].drep = Unset /\ row[u].attempted = 0
                       /\ wallet[u].own = {} /\ wallet[u].moved = 0 /\ wallet[u].submitted = Unset
  BY DEF Init
<1>4. Resolved /\ Present /\ AnswersNew /\ SameSeen
  BY <1>2 DEF Resolved, Present, AnswersNew, SameSeen
<1>5. Cadence /\ Lag /\ OwnKnown
  BY <1>2, <1>3 DEF Cadence, Lag, OwnKnown, Behind
<1> QED BY <1>1, <1>4, <1>5 DEF DInv

LEMMA DelayStep == DInv /\ [Next]_vars => DInv'
<1> SUFFICES ASSUME DInv, [Next]_vars PROVE DInv'
  OBVIOUS
<1>1. IInv' /\ Resolved'
  BY StepInv, ResolvedStep DEF DInv
<1>2. Present' /\ AnswersNew' /\ SameSeen' /\ Cadence' /\ Lag' /\ OwnKnown'
  BY PresentStep, AnswersNewStep, SameSeenStep, CadenceStep, LagStep, OwnKnownStep
<1> QED BY <1>1, <1>2 DEF DInv

\* The delegation of a resolved account is the chain's within one refresh interval and
\* one more for each failed attempt, for any number of accounts, sign-ins and cron runs
\* in any order, with answers from before the chain settled and writes that fail.
THEOREM RowsCatchUp == Spec => []RowCatchesUp
<1>1. ASSUME DInv PROVE RowCatchesUp
  <2> SUFFICES ASSUME NEW u \in Users, row[u].drep # Unset, Due = {},
                      clock >= wallet[u].moved + DueAfter * (1 + failures), Behind(u)
               PROVE  FALSE
    BY DEF RowCatchesUp, Behind
  <2>1. /\ row[u].tracked /\ row[u].attempted > 0
        /\ row[u].attempted <= wallet[u].moved + DueAfter * failures
    BY <1>1 DEF DInv, IInv, RowConsistent, Consistent, Lag, Patience
  <2>2. ~(row[u].attempted <= clock - DueAfter)
    BY <2>1 DEF Due
  <2> DEFINE p == DueAfter * failures
  <2>3. p \in Nat /\ DueAfter * (1 + failures) >= p + DueAfter /\ DueAfter * (1 + failures) \in Nat
    BY <1>1, Numbers, PatienceGrows DEF DInv
  <2> DEFINE q == DueAfter * (1 + failures)
  <2>4. /\ p \in Nat /\ q \in Nat /\ q >= p + DueAfter
        /\ row[u].attempted <= wallet[u].moved + p /\ clock >= wallet[u].moved + q
    BY <2>1, <2>3
  <2> HIDE DEF p, q
  <2> QED BY <1>1, <2>2, <2>4, Numbers DEF DInv
<1> QED BY <1>1, DelayInv, DelayStep, PTL DEF Spec

\* A delegation made here is not told to the account itself, for any number of failed
\* refreshes that the window covers.
THEOREM OwnDelegationsSilent == Spec => OwnDelegationSilent
<1> DEFINE Silent(u) ==
      \A n \in inbox'[u] \ inbox[u] :
        n.of \in wallet[u].own /\ DueAfter * (1 + failures) <= ExpectedTtl =>
            n.of < Newest(u) /\ clock = wallet[u].moved
<1>1. ASSUME DInv, [Next]_vars, NEW u \in Users PROVE Silent(u)
  <2>1. ASSUME NEW t \in Tasks, ApplyChange(t), NEW n \in inbox'[u] \ inbox[u],
               n.of \in wallet[u].own, DueAfter * (1 + failures) <= ExpectedTtl
        PROVE  n.of < Newest(u) /\ clock = wallet[u].moved
    <3>1. PICK v \in Users : v = task[t].user
      BY <1>1 DEF DInv, IInv, TypeOK, Task
    <3> DEFINE a == task[t].answer[v]
    <3>2. /\ \A w \in Users \ {v} : inbox'[w] = inbox[w]
          /\ inbox'[v] = Notice(t, v)
      BY <1>1, <2>1, <3>1, ChangeWrites DEF DInv
    <3>3. u = v /\ n.of = a /\ row[v].drep # State(v, a) /\ ~Expecting(row[v], task[t].now)
      BY <2>1, <3>2 DEF Notice
    <3>4. /\ task[t].at = "change" /\ row[u].drep # Unset /\ a > 0 /\ a <= Newest(u)
          /\ a \in Nat /\ task[t].now = clock
      BY <1>1, <2>1, <3>1, <3>3
         DEF ApplyChange, DInv, Resolved, IInv, Positions, Present, TypeOK, Task
    <3>5. CASE a = Newest(u)
      <4> DEFINE p == DueAfter * failures
                 q == DueAfter * (1 + failures)
      <4>1. Behind(u)
        BY <3>3, <3>4, <3>5 DEF Behind
      <4>2. row[u].attempted > 0
        BY <1>1, <3>4 DEF DInv, IInv, RowConsistent, Consistent
      <4>3. clock <= row[u].attempted + DueAfter /\ row[u].attempted <= wallet[u].moved + p
        BY <1>1, <4>1, <4>2 DEF DInv, Cadence, Lag, Patience
      <4>4. p \in Nat /\ q \in Nat /\ q >= p + DueAfter /\ q <= ExpectedTtl
        BY <1>1, <2>1, Numbers, PatienceGrows DEF DInv
      <4> HIDE DEF p, q
      <4>5. clock <= wallet[u].moved + ExpectedTtl
        BY <1>1, <4>3, <4>4, Numbers DEF DInv
      <4>6. row[u].expAt > 0 /\ row[u].expAt >= wallet[u].moved
        BY <1>1, <2>1, <3>3, <3>5, <4>5, Numbers DEF DInv, OwnKnown
      <4>7. row[u].expAt < clock - ExpectedTtl
        BY <1>1, <3>3, <3>4, <4>6, Numbers DEF DInv, Expecting
      <4> QED BY <1>1, <4>5, <4>6, <4>7, Numbers DEF DInv
    <3>6. CASE a # Newest(u)
      BY <1>1, <3>3, <3>4, <3>6, Numbers DEF DInv, AnswersNew, JustMoved
    <3> QED BY <3>5, <3>6
  <2>2. CASE \A t \in Tasks : ~ApplyChange(t)
    BY <1>1, <2>2, OthersKeep DEF DInv
  <2> QED BY <2>1, <2>2
<1>2. DInv /\ [Next]_vars => [\A u \in Users : Silent(u)]_vars
  BY <1>1
<1> QED BY <1>2, DelayInv, DelayStep, PTL DEF Spec, OwnDelegationSilent
=============================================================================

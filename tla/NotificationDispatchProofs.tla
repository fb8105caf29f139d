---------------------- MODULE NotificationDispatchProofs ----------------------
(***************************************************************************)
(* Proofs about NotificationDispatch, for every value of its constants.    *)
(*                                                                         *)
(* The argument: every timestamp is at most the database clock             *)
(* (ClockBounds), the claims that are open on one channel cover disjoint   *)
(* intervals that all end at or below its cursor (ClaimsBelowCursor,       *)
(* ClaimsDisjoint), and a row that was sent lies at or below the cursor    *)
(* and in no open claim (SentSettled).  A send therefore only ever carries *)
(* rows that were not sent before.                                         *)
(*                                                                         *)
(* That no row is left out rests on the pass interval ending below the     *)
(* clock: no row is written into it after its count (CountComplete), so    *)
(* what a claim goes past is its bundle and what it muted.  A slot that    *)
(* was connected again after a pass listed it has no row in that pass's    *)
(* interval (Reconnected), so rows a pass holds for it are not due.        *)
(*                                                                         *)
(* The refinement also needs that a pass names only connections that were  *)
(* made (SnapsOfConnections): a late refusal is one of a real connection.  *)
(***************************************************************************)
EXTENDS NotificationDispatch, TLAPS, WellFoundedInduction, SequenceTheorems

\* No timestamp is ahead of the database clock.
ClockBounds ==
    /\ \A i \in Written : rows[i].ts <= clock
    /\ \A c \in Channels : until[c] <= clock
    /\ \A p \in Passes : /\ dbNow[p] <= clock
                         /\ cur[p].until <= clock
                         /\ \A r \in todo[p] : r.until <= clock

TypeInv == TypeOK /\ ClockBounds

-----------------------------------------------------------------------------
\* A nonempty bounded set of naturals has a largest element.
LEMMA BoundedSetHasMax ==
    ASSUME NEW S \in SUBSET Nat, S # {}, NEW b \in Nat, \A s \in S : s <= b
    PROVE  \E m \in S : \A s \in S : s <= m
<1> DEFINE T == {b - s : s \in S}
<1>1. T \subseteq Nat /\ T # {}
  <2>1. ASSUME NEW s \in S PROVE b - s \in Nat
    <3>1. s \in Nat /\ s <= b OBVIOUS
    <3> QED BY <3>1
  <2>2. T \subseteq Nat BY <2>1, Zenon
  <2>3. PICK s \in S : TRUE OBVIOUS
  <2>4. b - s \in T BY <2>3
  <2> QED BY <2>2, <2>4
<1>2. \E x \in T : \A y \in T : ~(<<y, x>> \in OpToRel(<, Nat))
  <2> HIDE DEF T
  <2> QED BY <1>1, NatLessThanWellFounded, WFMin
<1>3. PICK x \in T : \A y \in T : ~(y < x)
  BY <1>1, <1>2 DEF OpToRel
<1>4. PICK m \in S : x = b - m
  OBVIOUS
<1>5. \A s \in S : ~(b - s < b - m)
  BY <1>3, <1>4
<1> QED BY <1>5

\* What a written row looks like.
LEMMA RowFields ==
    ASSUME rows \in Seq(RowType), NEW i \in Written
    PROVE  /\ rows[i] \in RowType
           /\ rows[i].ts \in Nat
           /\ rows[i].to \in Users
<1>1. rows[i] \in RowType
  BY ElementOfSeq DEF Written
<1> QED BY <1>1 DEF RowType

\* latestGovAt is a timestamp, so the candidate query compares numbers.
LEMMA LatestGovAtType ==
    ASSUME TypeInv PROVE LatestGovAt \in Nat
<1> DEFINE times == {0} \cup {rows[i].ts : i \in {j \in Written : rows[j].kind = "gov"} \ deleted}
<1>1. times \in SUBSET Nat /\ clock \in Nat /\ \A t \in times : t <= clock
  <2>1. \A i \in Written : rows[i].ts \in Nat /\ rows[i].ts <= clock
    BY RowFields DEF TypeInv, TypeOK, ClockBounds
  <2> QED BY <2>1 DEF TypeInv, TypeOK
<1>2. \E m \in times : \A t \in times : t <= m
  <2> HIDE DEF times
  <2>1. times # {} BY DEF times
  <2> QED BY <1>1, <2>1, BoundedSetHasMax
<1>3. LatestGovAt \in times
  BY <1>2 DEF LatestGovAt
<1> QED BY <1>1, <1>3

LEMMA BlankType == Blank \in SnapType /\ Blank.until = 0
  BY DispatchAssumption DEF Blank, SnapType

\* Appending a row keeps every row written before it.
LEMMA AppendKeepsRows ==
    ASSUME rows \in Seq(RowType), NEW r \in RowType, rows' = Append(rows, r)
    PROVE  /\ rows' \in Seq(RowType)
           /\ Len(rows') = Len(rows) + 1
           /\ \A i \in Written : i \in Written' /\ rows'[i] = rows[i]
           /\ \A i \in Written' : i \in Written \/ rows'[i] = r
  BY AppendProperties DEF Written

-----------------------------------------------------------------------------
LEMMA TypeInvInit == Init => TypeInv
<1> SUFFICES ASSUME Init PROVE TypeInv
  OBVIOUS
<1>1. \A p \in Passes : cur[p] \in SnapType /\ cur[p].until = 0
  BY BlankType DEF Init
<1>2. TypeOK
  BY <1>1, DispatchAssumption DEF Init, TypeOK, PcType, Idle, RowIds, RowType
<1>3. ClockBounds
  BY <1>1 DEF Init, ClockBounds, Written
<1> QED BY <1>2, <1>3 DEF TypeInv

\* What the environment leaves alone.
LEMMA TypeInvEnvironment == TypeInv /\ Environment => TypeInv'
<1> SUFFICES ASSUME TypeInv, Environment PROVE TypeInv'
  OBVIOUS
<1> USE DEF TypeInv, dbVars, chanVars, passVars, histVars
<1>1. CASE Tick
  <2>1. TypeOK'
    BY <1>1 DEF Tick, TypeOK
  <2>2. clock' = clock + 1 /\ UNCHANGED <<rows, until, dbNow, cur, todo>>
    BY <1>1 DEF Tick
  <2>3. \A i \in Written' : rows'[i].ts <= clock'
    BY <2>2, RowFields DEF TypeOK, ClockBounds, Written
  <2>4. \A c \in Channels : until'[c] <= clock'
    BY <2>2 DEF TypeOK, ClockBounds
  <2>5. \A p \in Passes : dbNow'[p] <= clock' /\ cur'[p].until <= clock'
    BY <2>2 DEF TypeOK, ClockBounds, SnapType
  <2>6. \A p \in Passes : \A r \in todo'[p] : r.until <= clock'
    BY <2>2 DEF TypeOK, ClockBounds, SnapType
  <2> QED BY <2>1, <2>3, <2>4, <2>5, <2>6 DEF ClockBounds
<1>2. ASSUME NEW kind \in Kinds, NEW u \in Users, WriteRow(kind, u) PROVE TypeInv'
  <2> DEFINE r == [kind |-> kind, to |-> u, ts |-> clock]
  <2>1. r \in RowType /\ r.ts = clock
    BY DEF RowType, TypeOK
  <2>2. rows' = Append(rows, r) /\ rows \in Seq(RowType) /\ Len(rows) < MaxRows
    BY <1>2 DEF WriteRow, DbNow, TypeOK
  <2> HIDE DEF r
  <2>3. /\ rows' \in Seq(RowType)
        /\ Len(rows') = Len(rows) + 1
        /\ \A i \in Written : i \in Written' /\ rows'[i] = rows[i]
        /\ \A i \in Written' : i \in Written \/ rows'[i] = r
    BY <2>1, <2>2, AppendKeepsRows, Zenon
  <2>4. Len(rows') <= MaxRows
    BY <2>2, <2>3, LenProperties, DispatchAssumption
  <2>5. TypeOK'
    BY <1>2, <2>3, <2>4 DEF WriteRow, TypeOK
  <2>6. clock' = clock /\ UNCHANGED <<until, dbNow, cur, todo>>
    BY <1>2 DEF WriteRow
  <2>7. \A i \in Written' : rows'[i].ts <= clock'
    <3>1. ASSUME NEW i \in Written' PROVE rows'[i].ts <= clock'
      <4>1. CASE i \in Written
        BY <2>3, <2>6, <4>1 DEF ClockBounds
      <4>2. CASE rows'[i] = r
        BY <2>1, <2>6, <4>2 DEF TypeOK
      <4> QED BY <2>3, <3>1, <4>1, <4>2
    <3> QED BY <3>1
  <2>8. ClockBounds'
    BY <2>6, <2>7 DEF ClockBounds
  <2> QED BY <2>5, <2>8
<1>3. ASSUME NEW i \in Written, DeleteThread(i) PROVE TypeInv'
  <2>1. i \in RowIds
    BY DispatchAssumption, LenProperties DEF TypeOK, Written, RowIds
  <2> QED BY <1>3, <2>1 DEF DeleteThread, TypeOK, ClockBounds, Written
<1>4. ASSUME NEW u \in Users, SetPref(u) PROVE TypeInv'
  BY <1>4 DEF SetPref, TypeOK, ClockBounds, Written
<1>5. ASSUME NEW c \in Channels, AddChannel(c) PROVE TypeInv'
  BY <1>5 DEF AddChannel, DbNow, TypeOK, ClockBounds, Written
<1>6. ASSUME NEW c \in Channels, RemoveChannel(c) PROVE TypeInv'
  BY <1>6 DEF RemoveChannel, TypeOK, ClockBounds, Written
<1> QED BY <1>1, <1>2, <1>3, <1>4, <1>5, <1>6 DEF Environment

LEMMA TypeInvPass ==
    ASSUME TypeInv, NEW p \in Passes, ReadPassStart(p) \/ PassStep(p) \/ ReadFails(p) \/ Abort(p)
    PROVE  TypeInv'
<1> USE DEF TypeInv, dbVars, chanVars, passVars, histVars
<1>a. PassEnd(p) \in Nat /\ PassEnd(p) <= clock /\ NextCursor(p) \in Nat /\ NextCursor(p) <= clock
  BY DEF PassEnd, NextCursor, TypeOK, ClockBounds, SnapType
<1>b. cur[p] \in SnapType /\ cur[p].c \in Channels /\ cur[p].until \in Nat /\ cur[p].until <= clock
  BY DEF TypeOK, ClockBounds, SnapType
<1>c. Blank \in SnapType /\ Blank.until <= clock
  BY BlankType DEF TypeOK
<1>d. TypeOK /\ ClockBounds
  OBVIOUS
<1>1. CASE ReadPassStart(p)
  <2>1. LatestGovAt \in Nat
    BY LatestGovAtType
  <2> QED BY <1>1, <2>1 DEF ReadPassStart, DbNow, TypeOK, ClockBounds, Written, PcType
<1>2. CASE ListCandidates(p)
  <2>1. \A r \in Candidates(p) : r \in SnapType /\ r.until <= clock
    BY DEF Candidates, Snap, SnapType, TypeOK, ClockBounds
  <2>2. PICK S \in SUBSET Candidates(p) : todo' = [todo EXCEPT ![p] = S]
    BY <1>2 DEF ListCandidates
  <2> QED BY <1>2, <2>1, <2>2 DEF ListCandidates, TypeOK, ClockBounds, Written, PcType
<1>3. CASE CountPending(p)
  <2>1. Written \subseteq RowIds
    BY LenProperties, DispatchAssumption DEF Written, RowIds, TypeOK
  <2>2. PICK r \in todo[p] :
          /\ todo' = [todo EXCEPT ![p] = @ \ {r}]
          /\ cur' = [cur EXCEPT ![p] = r]
          /\ prefs' = [prefs EXCEPT ![p][Owner[r.c]] = IF PrefInPass(p, Owner[r.c]) THEN "on" ELSE "off"]
          /\ bundle' = [bundle EXCEPT ![p] = Counted(p, r)]
          /\ muted' = [muted EXCEPT ![p] = PassInterval(p, r) \ Counted(p, r)]
    BY <1>3 DEF CountPending
  <2>3. r \in SnapType /\ r.until <= clock /\ Owner[r.c] \in Users
    <3>1. r \in SnapType
      BY <2>2 DEF TypeOK
    <3>2. r.until <= clock
      BY <2>2 DEF ClockBounds
    <3> QED BY <3>1, <3>2, DispatchAssumption DEF SnapType
  <2>4. bundle' \in [Passes -> SUBSET RowIds] /\ muted' \in [Passes -> SUBSET RowIds]
    <3>1. Counted(p, r) \subseteq Written /\ PassInterval(p, r) \subseteq Written
      BY DEF Counted, PassInterval, Interval
    <3> QED BY <2>1, <2>2, <3>1 DEF TypeOK
  <2>5. prefs' \in [Passes -> [Users -> {"unread", "on", "off"}]]
    BY <2>2, <2>3 DEF TypeOK
  <2>6. /\ cur' \in [Passes -> SnapType]
        /\ todo' \in [Passes -> SUBSET SnapType]
        /\ \A q \in Passes : cur'[q].until <= clock /\ todo'[q] \subseteq todo[q]
    BY <2>2, <2>3 DEF TypeOK, ClockBounds
  <2>7. pc' \in [Passes -> PcType] /\ UNCHANGED <<clock, rows, until, dbNow>>
    BY <1>3 DEF CountPending, TypeOK, PcType
  <2>8. TypeOK'
    BY <1>3, <2>4, <2>5, <2>6, <2>7 DEF CountPending, TypeOK
  <2>9. ClockBounds'
    BY <2>6, <2>7 DEF ClockBounds, Written
  <2> QED BY <2>8, <2>9
<1>4. ASSUME ClaimCursor(p)
      PROVE  /\ until' \in [Channels -> Nat] /\ attempted' \in [Channels -> Nat]
             /\ passed' \in [Channels -> SUBSET RowIds]
             /\ \A c \in Channels : until'[c] <= clock
  BY <1>4, <1>a, <1>b DEF ClaimCursor, TypeOK, ClockBounds
<1>5. ASSUME NextCandidate(p)
      PROVE  /\ pc' \in [Passes -> PcType] /\ cur' \in [Passes -> SnapType]
             /\ bundle' \in [Passes -> SUBSET RowIds] /\ muted' \in [Passes -> SUBSET RowIds]
             /\ \A q \in Passes : cur'[q].until <= clock
  BY <1>5, <1>c DEF NextCandidate, TypeOK, ClockBounds, PcType
<1>6. CASE SkipEmpty(p)
  BY <1>4, <1>5, <1>6 DEF SkipEmpty, LoseClaim, TypeOK, ClockBounds, Written
<1>7. CASE ClaimBundle(p)
  <2>1. pc' \in [Passes -> PcType]
    BY <1>5, <1>7 DEF ClaimBundle, TypeOK, PcType
  <2> QED BY <1>4, <1>5, <1>7, <2>1 DEF ClaimBundle, LoseClaim, TypeOK, ClockBounds, Written
<1>8. CASE SendOk(p)
  <2>1. sends' \in [Channels -> [RowIds -> Nat]]
    <3>1. sends \in [Channels -> [RowIds -> Nat]]
      BY DEF TypeOK
    <3> QED BY <1>8, <1>b, <3>1 DEF SendOk, Delivered
  <2> QED BY <1>5, <1>8, <2>1 DEF SendOk, TypeOK, ClockBounds, Written
<1>9. CASE SendNotOk(p)
  BY <1>9 DEF SendNotOk, TypeOK, ClockBounds, Written, PcType
<1>10. CASE Prune(p)
  <2>1. live' \in [Channels -> BOOLEAN]
    BY <1>10, <1>b DEF Prune, TypeOK
  <2> QED BY <1>5, <1>10, <2>1 DEF Prune, TypeOK, ClockBounds, Written
<1>11. ASSUME Forfeit(p) PROVE lost' \in [Channels -> SUBSET RowIds]
  BY <1>11, <1>b DEF Forfeit, TypeOK
<1>12. CASE HandBack(p)
  <2>1. /\ until' \in [Channels -> Nat]
        /\ \A c \in Channels : until'[c] <= clock
        /\ passed' \in [Channels -> SUBSET RowIds]
        /\ lost' \in [Channels -> SUBSET RowIds]
    <3>1. CASE HandBackMatches(p)
      <4>1. /\ until' = [until EXCEPT ![cur[p].c] = cur[p].until]
            /\ passed' = [passed EXCEPT ![cur[p].c] = @ \ muted[p]]
            /\ lost' = lost
        BY <1>12, <3>1 DEF HandBack
      <4> QED BY <1>b, <1>d, <4>1 DEF TypeOK, ClockBounds
    <3>2. CASE ~HandBackMatches(p)
      BY <1>12, <1>11, <3>2 DEF HandBack, TypeOK, ClockBounds
    <3> QED BY <3>1, <3>2
  <2> QED BY <1>5, <1>12, <2>1 DEF HandBack, TypeOK, ClockBounds, Written
<1>13. CASE EndPass(p)
  BY <1>13 DEF EndPass, TypeOK, ClockBounds, Written, PcType
<1>14. CASE ReadFails(p)
  BY <1>5, <1>14 DEF ReadFails, TypeOK, ClockBounds, Written
<1>15. CASE Abort(p)
  <2>1. lost' \in [Channels -> SUBSET RowIds]
    BY <1>15, <1>11 DEF Abort, TypeOK
  <2> QED BY <1>15, <1>c, <2>1 DEF Abort, TypeOK, ClockBounds, Written, PcType
<1> QED
  BY <1>1, <1>2, <1>3, <1>6, <1>7, <1>8, <1>9, <1>10, <1>12, <1>13, <1>14, <1>15 DEF PassStep

LEMMA TypeInvStutter == TypeInv /\ UNCHANGED vars => TypeInv'
  BY DEF TypeInv, TypeOK, ClockBounds, Written, vars, dbVars, chanVars, passVars, histVars

LEMMA TypeInvStep == TypeInv /\ [Next]_vars => TypeInv'
  BY TypeInvEnvironment, TypeInvPass, TypeInvStutter DEF Next

\* Every variable of the dispatcher keeps its type, for any number of users,
\* channels, overlapping passes and rows.
THEOREM TypeCorrect == Spec => []TypeOK
<1>1. TypeInv => TypeOK
  BY DEF TypeInv
<1> QED BY TypeInvInit, TypeInvStep, <1>1, PTL DEF Spec
-----------------------------------------------------------------------------
(* At most once *)

\* What the count saw lies in the interval the claim will cover.
BundleInInterval ==
    \A p \in Passes : (pc[p] = "counted" \/ Holding(p)) =>
        bundle[p] \subseteq Interval(cur[p].c, cur[p].until, PassEnd(p))

\* An open claim covers a nonempty interval that ends at or below the cursor.
ClaimsBelowCursor ==
    \A p \in Passes : Holding(p) =>
        cur[p].until < PassEnd(p) /\ PassEnd(p) <= until[cur[p].c]

\* Open claims of two passes on one channel do not overlap.
ClaimsDisjoint ==
    \A p, q \in Passes : (p # q /\ Holding(p) /\ Holding(q) /\ cur[p].c = cur[q].c) =>
        PassEnd(p) <= cur[q].until \/ PassEnd(q) <= cur[p].until

\* A row that was sent is at or below the cursor and in no open claim.
SentSettled ==
    \A c \in Channels, i \in RowIds : sends[c][i] > 0 =>
        /\ i \in Written
        /\ rows[i].ts <= until[c]
        /\ \A p \in Passes : (Holding(p) /\ cur[p].c = c) =>
              rows[i].ts <= cur[p].until \/ PassEnd(p) < rows[i].ts

ClaimInv == BundleInInterval /\ ClaimsBelowCursor /\ ClaimsDisjoint /\ SentSettled /\ AtMostOnce

IInv == TypeInv /\ ClaimInv
\* Rows are only ever appended.
RowsKept == \A i \in Written : i \in Written' /\ rows'[i] = rows[i]

\* What a pass holds it held before, unchanged.
CountedKept ==
    \A p \in Passes : (pc'[p] = "counted" \/ Holding(p)') =>
        /\ pc[p] = "counted" \/ Holding(p)
        /\ cur'[p] = cur[p] /\ dbNow'[p] = dbNow[p] /\ bundle'[p] = bundle[p]

ClaimsKept ==
    \A p \in Passes : Holding(p)' =>
        Holding(p) /\ cur'[p] = cur[p] /\ dbNow'[p] = dbNow[p]

LEMMA ClaimInvInit == Init => ClaimInv
<1> SUFFICES ASSUME Init PROVE ClaimInv
  OBVIOUS
<1>1. \A p \in Passes : pc[p] = "idle"
  BY DEF Init, Idle
<1>2. \A c \in Channels, i \in RowIds : sends[c][i] = 0
  BY DEF Init
<1> QED BY <1>1, <1>2
  DEF ClaimInv, BundleInInterval, ClaimsBelowCursor, ClaimsDisjoint, SentSettled, AtMostOnce, Holding

LEMMA PassFields ==
    ASSUME TypeInv, NEW p \in Passes
    PROVE  /\ PassEnd(p) \in Nat /\ dbNow[p] \in Nat
           /\ cur[p].until \in Nat /\ cur[p].c \in Channels
           /\ until[cur[p].c] \in Nat
  BY DEF PassEnd, TypeInv, TypeOK, SnapType

\* Bundles stay inside their interval when no pass takes up a new candidate.
LEMMA BundlesKept ==
    ASSUME IInv, RowsKept, CountedKept PROVE BundleInInterval'
<1> SUFFICES ASSUME NEW p \in Passes, pc'[p] = "counted" \/ Holding(p)', NEW i \in bundle'[p]
             PROVE  i \in Interval(cur[p].c, cur[p].until, PassEnd(p))'
  BY DEF BundleInInterval
<1>1. /\ pc[p] = "counted" \/ Holding(p)
      /\ cur'[p] = cur[p] /\ dbNow'[p] = dbNow[p] /\ i \in bundle[p]
  BY DEF CountedKept
<1>2. i \in Interval(cur[p].c, cur[p].until, PassEnd(p))
  BY <1>1 DEF IInv, ClaimInv, BundleInInterval
<1>3. i \in Written' /\ rows'[i] = rows[i]
  BY <1>2 DEF Interval, RowsKept
<1> QED BY <1>1, <1>2, <1>3 DEF Interval, For, PassEnd

\* A step that sends nothing, moves no cursor back and opens no claim.
LEMMA ClaimsUndisturbed ==
    ASSUME IInv, RowsKept, ClaimsKept, sends' = sends, TypeInv',
           \A c \in Channels : until[c] <= until'[c]
    PROVE  ClaimsBelowCursor' /\ ClaimsDisjoint' /\ SentSettled' /\ AtMostOnce'
<1> USE DEF IInv, ClaimInv, TypeInv
<1>1. \A p \in Passes : PassEnd(p) \in Nat /\ cur[p].until \in Nat /\ cur[p].c \in Channels
  BY PassFields
<1>2. ClaimsBelowCursor'
  <2> SUFFICES ASSUME NEW p \in Passes, Holding(p)'
               PROVE  cur'[p].until < PassEnd(p)' /\ PassEnd(p)' <= until'[cur'[p].c]
    BY DEF ClaimsBelowCursor
  <2>1. Holding(p) /\ cur'[p] = cur[p] /\ PassEnd(p)' = PassEnd(p)
    BY DEF ClaimsKept, PassEnd
  <2>2. cur[p].until < PassEnd(p) /\ PassEnd(p) <= until[cur[p].c]
    BY <2>1 DEF ClaimsBelowCursor
  <2>3. until[cur[p].c] \in Nat /\ until'[cur[p].c] \in Nat /\ until[cur[p].c] <= until'[cur[p].c]
    BY <1>1 DEF TypeOK
  <2> QED BY <1>1, <2>1, <2>2, <2>3
<1>3. ClaimsDisjoint'
  BY DEF ClaimsDisjoint, ClaimsKept, PassEnd
<1>4. SentSettled'
  <2> SUFFICES ASSUME NEW c \in Channels, NEW i \in RowIds, sends[c][i] > 0
               PROVE  /\ i \in Written'
                      /\ rows'[i].ts <= until'[c]
                      /\ \A p \in Passes : (Holding(p)' /\ cur'[p].c = c) =>
                            rows'[i].ts <= cur'[p].until \/ PassEnd(p)' < rows'[i].ts
    BY DEF SentSettled
  <2>1. /\ i \in Written /\ rows[i].ts <= until[c]
        /\ \A p \in Passes : (Holding(p) /\ cur[p].c = c) =>
              rows[i].ts <= cur[p].until \/ PassEnd(p) < rows[i].ts
    BY DEF SentSettled
  <2>2. i \in Written' /\ rows'[i] = rows[i]
    BY <2>1 DEF RowsKept
  <2>3. rows[i].ts <= until'[c]
    <3>1. rows[i].ts \in Nat
      BY <2>1, RowFields DEF TypeOK
    <3> QED BY <2>1, <3>1 DEF TypeOK
  <2> QED BY <2>1, <2>2, <2>3 DEF ClaimsKept, PassEnd
<1>5. AtMostOnce'
  BY DEF AtMostOnce
<1> QED BY <1>2, <1>3, <1>4, <1>5
LEMMA ClaimInvEnvironment ==
    ASSUME IInv, Environment, TypeInv' PROVE ClaimInv'
<1> USE DEF dbVars, chanVars, passVars, histVars
<1>1. RowsKept
  <2>1. CASE \E kind \in Kinds, u \in Users : WriteRow(kind, u)
    <3>1. PICK kind \in Kinds, u \in Users : WriteRow(kind, u)
      BY <2>1
    <3> DEFINE r == [kind |-> kind, to |-> u, ts |-> clock]
    <3>2. r \in RowType /\ rows \in Seq(RowType) /\ rows' = Append(rows, r)
      BY <3>1 DEF WriteRow, DbNow, RowType, IInv, TypeInv, TypeOK
    <3> HIDE DEF r
    <3> QED BY <3>2, AppendKeepsRows, Zenon DEF RowsKept
  <2>2. CASE rows' = rows
    BY <2>2 DEF RowsKept, Written
  <2> QED BY <2>1, <2>2 DEF Environment, Tick, DeleteThread, SetPref, AddChannel, RemoveChannel
<1>2. UNCHANGED passVars /\ sends' = sends
  BY DEF Environment, Tick, WriteRow, DeleteThread, SetPref, AddChannel, RemoveChannel
<1>3. CountedKept /\ ClaimsKept
  BY <1>2 DEF CountedKept, ClaimsKept, Holding
<1>4. \A c \in Channels : until[c] <= until'[c]
  <2>1. CASE \E c \in Channels : AddChannel(c)
    BY <2>1 DEF AddChannel, DbNow, IInv, TypeInv, TypeOK, ClockBounds
  <2>2. CASE until' = until
    BY <2>2 DEF IInv, TypeInv, TypeOK
  <2> QED BY <2>1, <2>2 DEF Environment, Tick, WriteRow, DeleteThread, SetPref, RemoveChannel
<1> QED BY <1>1, <1>2, <1>3, <1>4, BundlesKept, ClaimsUndisturbed DEF ClaimInv

\* A claim that wins starts at the cursor, above every open claim.
LEMMA ClaimInvClaim ==
    ASSUME IInv, NEW p \in Passes, ClaimBundle(p), ClaimMatches(p), TypeInv'
    PROVE  ClaimInv'
<1> USE DEF dbVars, IInv, ClaimInv, TypeInv
<1> DEFINE c == cur[p].c
<1>1. /\ until' = [until EXCEPT ![c] = NextCursor(p)] /\ pc[p] = "counted" /\ bundle[p] # {}
      /\ pc' = [pc EXCEPT ![p] = "claimed"] /\ UNCHANGED <<cur, dbNow, bundle, rows, sends>>
      /\ until[c] = cur[p].until
  BY DEF ClaimBundle, ClaimMatches, ClaimCursor
<1>2. /\ c \in Channels /\ cur[p].until \in Nat /\ PassEnd(p) \in Nat
      /\ \A q \in Passes : PassEnd(q) \in Nat /\ cur[q].until \in Nat /\ PassEnd(q)' = PassEnd(q)
  BY <1>1, PassFields DEF PassEnd
<1>3. cur[p].until < PassEnd(p) /\ NextCursor(p) = PassEnd(p)
  <2>1. PICK i \in bundle[p] : cur[p].until < rows[i].ts /\ rows[i].ts <= PassEnd(p) /\ i \in Written
    BY <1>1 DEF BundleInInterval, Interval
  <2>2. rows[i].ts \in Nat
    BY <2>1, RowFields DEF TypeOK
  <2> QED BY <1>2, <2>1, <2>2 DEF NextCursor
<1>4. Holding(p)' /\ \A q \in Passes : q # p => (Holding(q)' <=> Holding(q))
  BY <1>1 DEF Holding, TypeOK
<1>5. \A q \in Passes : (Holding(q) /\ cur[q].c = c) => PassEnd(q) <= cur[p].until
  BY <1>1 DEF ClaimsBelowCursor
<1>6. until'[c] = PassEnd(p) /\ \A d \in Channels : d # c => until'[d] = until[d]
  BY <1>1, <1>2, <1>3 DEF TypeOK
<1>7. BundleInInterval'
  <2>1. RowsKept /\ CountedKept
    BY <1>1 DEF RowsKept, CountedKept, Written, Holding, TypeOK
  <2> QED BY <2>1, BundlesKept
<1>8. ClaimsBelowCursor'
  <2> SUFFICES ASSUME NEW q \in Passes, Holding(q)'
               PROVE  cur[q].until < PassEnd(q) /\ PassEnd(q) <= until'[cur[q].c]
    BY <1>1, <1>2 DEF ClaimsBelowCursor
  <2>1. CASE q = p
    BY <1>2, <1>3, <1>6, <2>1
  <2>2. CASE q # p /\ cur[q].c = c
    BY <1>2, <1>3, <1>4, <1>5, <1>6, <2>2 DEF ClaimsBelowCursor
  <2>3. CASE q # p /\ cur[q].c # c
    BY <1>4, <1>6, <2>3, PassFields DEF ClaimsBelowCursor
  <2> QED BY <2>1, <2>2, <2>3
<1>9. ClaimsDisjoint'
  BY <1>1, <1>2, <1>4, <1>5 DEF ClaimsDisjoint
<1>10. SentSettled'
  <2> SUFFICES ASSUME NEW d \in Channels, NEW i \in RowIds, sends[d][i] > 0
               PROVE  /\ i \in Written
                      /\ rows[i].ts <= until'[d]
                      /\ \A q \in Passes : (Holding(q)' /\ cur[q].c = d) =>
                            rows[i].ts <= cur[q].until \/ PassEnd(q) < rows[i].ts
    BY <1>1, <1>2 DEF SentSettled, Written
  <2>1. i \in Written /\ rows[i].ts <= until[d] /\ rows[i].ts \in Nat
    BY RowFields DEF SentSettled, TypeOK
  <2>2. rows[i].ts <= until'[d]
    BY <1>1, <1>2, <1>3, <1>6, <2>1
  <2>3. ASSUME NEW q \in Passes, Holding(q)', cur[q].c = d
        PROVE  rows[i].ts <= cur[q].until \/ PassEnd(q) < rows[i].ts
    BY <1>1, <1>4, <2>1, <2>3 DEF SentSettled
  <2> QED BY <2>1, <2>2, <2>3
<1>11. AtMostOnce'
  BY <1>1 DEF AtMostOnce
<1> QED BY <1>7, <1>8, <1>9, <1>10, <1>11
\* A confirmed send settles rows that no other open claim covers.
LEMMA ClaimInvSend ==
    ASSUME IInv, NEW p \in Passes, SendOk(p), TypeInv'
    PROVE  ClaimInv'
<1> USE DEF dbVars, chanVars, IInv, ClaimInv, TypeInv
<1> DEFINE c == cur[p].c
<1>1. /\ UNCHANGED <<rows, until, dbNow>> /\ Holding(p) /\ c \in Channels
      /\ sends' = [sends EXCEPT ![c] = [i \in RowIds |-> IF i \in bundle[p] THEN @[i] + 1 ELSE @[i]]]
      /\ pc' = [pc EXCEPT ![p] = "loop"]
      /\ cur' = [cur EXCEPT ![p] = Blank] /\ bundle' = [bundle EXCEPT ![p] = {}]
  BY PassFields DEF SendOk, Delivered, NextCandidate, Holding
<1>2. /\ ~Holding(p)' /\ pc'[p] # "counted"
      /\ \A q \in Passes : q # p => /\ pc'[q] = pc[q] /\ (Holding(q)' <=> Holding(q))
                                  /\ cur'[q] = cur[q] /\ bundle'[q] = bundle[q]
      /\ \A q \in Passes : PassEnd(q)' = PassEnd(q)
  BY <1>1 DEF Holding, TypeOK, PassEnd
<1>3. ASSUME NEW i \in bundle[p]
      PROVE  /\ i \in Written /\ rows[i].ts \in Nat
             /\ cur[p].until < rows[i].ts /\ rows[i].ts <= PassEnd(p)
             /\ i \in RowIds /\ sends[c][i] = 0
  <2>1. i \in Written /\ cur[p].until < rows[i].ts /\ rows[i].ts <= PassEnd(p)
    BY <1>1 DEF BundleInInterval, Interval
  <2>2. rows[i].ts \in Nat
    BY <2>1, RowFields DEF TypeOK
  <2>3. i \in RowIds
    BY <1>3 DEF TypeOK
  <2>4. ~(sends[c][i] > 0)
    BY <1>1, <2>1, <2>2, <2>3, PassFields DEF SentSettled
  <2>5. sends[c][i] \in Nat
    BY <1>1, <2>3 DEF TypeOK
  <2> QED BY <2>1, <2>2, <2>3, <2>4, <2>5
<1>4. ASSUME NEW d \in Channels, NEW i \in RowIds
      PROVE  sends'[d][i] = sends[d][i] \/ (d = c /\ i \in bundle[p] /\ sends'[d][i] = 1)
  <2>1. sends'[d] = IF d = c THEN [j \in RowIds |-> IF j \in bundle[p] THEN sends[c][j] + 1 ELSE sends[c][j]]
                            ELSE sends[d]
    BY <1>1 DEF TypeOK
  <2>2. CASE d = c /\ i \in bundle[p]
    <3>1. sends[c][i] = 0
      BY <1>3, <2>2
    <3> QED BY <2>1, <2>2, <3>1
  <2>3. CASE ~(d = c /\ i \in bundle[p])
    BY <2>1, <2>3
  <2> QED BY <2>2, <2>3
<1>5. BundleInInterval'
  BY <1>1, <1>2, BundlesKept DEF RowsKept, CountedKept, Written
<1>6. ClaimsBelowCursor'
  BY <1>1, <1>2 DEF ClaimsBelowCursor
<1>7. ClaimsDisjoint'
  BY <1>1, <1>2 DEF ClaimsDisjoint
<1>8. SentSettled'
  <2> SUFFICES ASSUME NEW d \in Channels, NEW i \in RowIds, sends'[d][i] > 0
               PROVE  /\ i \in Written
                      /\ rows[i].ts <= until[d]
                      /\ \A q \in Passes : (Holding(q)' /\ cur'[q].c = d) =>
                            rows[i].ts <= cur'[q].until \/ PassEnd(q) < rows[i].ts
    BY <1>1, <1>2 DEF SentSettled, Written
  <2>1. CASE sends[d][i] > 0
    BY <1>1, <1>2, <2>1 DEF SentSettled
  <2>2. CASE d = c /\ i \in bundle[p]
    <3>1. rows[i].ts <= until[d]
      BY <1>1, <1>3, <2>2, PassFields DEF ClaimsBelowCursor
    <3>2. ASSUME NEW q \in Passes, Holding(q)', cur'[q].c = d
          PROVE  rows[i].ts <= cur'[q].until \/ PassEnd(q) < rows[i].ts
      <4>1. q # p /\ Holding(q) /\ cur'[q] = cur[q] /\ cur[q].c = c
        BY <1>2, <2>2, <3>2
      <4>2. PassEnd(p) <= cur[q].until \/ PassEnd(q) <= cur[p].until
        BY <1>1, <4>1 DEF ClaimsDisjoint
      <4>3. /\ rows[i].ts \in Nat /\ cur[p].until < rows[i].ts /\ rows[i].ts <= PassEnd(p)
        BY <1>3, <2>2
      <4> QED BY <4>1, <4>2, <4>3, PassFields
    <3> QED BY <1>3, <2>2, <3>1, <3>2
  <2> QED BY <1>4, <2>1, <2>2
<1>9. AtMostOnce'
  BY <1>4 DEF AtMostOnce
<1> QED BY <1>5, <1>6, <1>7, <1>8, <1>9

\* A cursor given back reopens exactly the interval of the claim that failed.
LEMMA ClaimInvHandBack ==
    ASSUME IInv, NEW p \in Passes, HandBack(p), HandBackMatches(p), TypeInv'
    PROVE  ClaimInv'
<1> USE DEF dbVars, IInv, ClaimInv, TypeInv
<1> DEFINE c == cur[p].c
<1>1. /\ UNCHANGED <<rows, dbNow, sends>> /\ Holding(p) /\ c \in Channels
      /\ until' = [until EXCEPT ![c] = cur[p].until] /\ until[c] = NextCursor(p)
      /\ pc' = [pc EXCEPT ![p] = "loop"]
      /\ cur' = [cur EXCEPT ![p] = Blank] /\ bundle' = [bundle EXCEPT ![p] = {}]
  BY PassFields DEF HandBack, HandBackMatches, NextCandidate, Holding
<1>2. /\ ~Holding(p)' /\ pc'[p] # "counted"
      /\ \A q \in Passes : q # p => /\ pc'[q] = pc[q] /\ (Holding(q)' <=> Holding(q))
                                  /\ cur'[q] = cur[q] /\ bundle'[q] = bundle[q]
      /\ \A q \in Passes : PassEnd(q)' = PassEnd(q)
  BY <1>1 DEF Holding, TypeOK, PassEnd
<1>3. /\ until[c] = PassEnd(p) /\ until'[c] = cur[p].until
      /\ \A d \in Channels : d # c => until'[d] = until[d]
  <2>1. cur[p].until < PassEnd(p)
    BY <1>1 DEF ClaimsBelowCursor
  <2>2. NextCursor(p) = PassEnd(p)
    BY <2>1, PassFields DEF NextCursor
  <2> QED BY <1>1, <2>2 DEF TypeOK
<1>4. BundleInInterval'
  BY <1>1, <1>2, BundlesKept DEF RowsKept, CountedKept, Written
<1>5. ClaimsBelowCursor'
  <2> SUFFICES ASSUME NEW q \in Passes, Holding(q)'
               PROVE  cur[q].until < PassEnd(q) /\ PassEnd(q) <= until'[cur[q].c]
    BY <1>2 DEF ClaimsBelowCursor
  <2>1. q # p /\ Holding(q) /\ cur[q].until < PassEnd(q) /\ PassEnd(q) <= until[cur[q].c]
    BY <1>2 DEF ClaimsBelowCursor
  <2>2. CASE cur[q].c = c
    <3>1. PassEnd(p) <= cur[q].until \/ PassEnd(q) <= cur[p].until
      BY <1>1, <2>1, <2>2 DEF ClaimsDisjoint
    <3> QED BY <1>3, <2>1, <2>2, <3>1, PassFields
  <2>3. CASE cur[q].c # c
    BY <1>3, <2>1, <2>3, PassFields
  <2> QED BY <2>2, <2>3
<1>6. ClaimsDisjoint'
  BY <1>2 DEF ClaimsDisjoint
<1>7. SentSettled'
  <2> SUFFICES ASSUME NEW d \in Channels, NEW i \in RowIds, sends[d][i] > 0
               PROVE  /\ i \in Written
                      /\ rows[i].ts <= until'[d]
                      /\ \A q \in Passes : (Holding(q)' /\ cur'[q].c = d) =>
                            rows[i].ts <= cur'[q].until \/ PassEnd(q) < rows[i].ts
    BY <1>1, <1>2 DEF SentSettled, Written
  <2>1. /\ i \in Written /\ rows[i].ts <= until[d] /\ rows[i].ts \in Nat
        /\ \A q \in Passes : (Holding(q) /\ cur[q].c = d) =>
              rows[i].ts <= cur[q].until \/ PassEnd(q) < rows[i].ts
    BY RowFields DEF SentSettled, TypeOK
  <2>2. rows[i].ts <= until'[d]
    BY <1>1, <1>3, <2>1, PassFields
  <2> QED BY <1>2, <2>1, <2>2
<1>8. AtMostOnce'
  BY <1>1 DEF AtMostOnce
<1> QED BY <1>4, <1>5, <1>6, <1>7, <1>8
LEMMA ClaimInvCount ==
    ASSUME IInv, NEW p \in Passes, CountPending(p), TypeInv'
    PROVE  ClaimInv'
<1> USE DEF dbVars, chanVars, histVars, IInv, ClaimInv, TypeInv
<1>1. PICK r \in todo[p] : /\ cur' = [cur EXCEPT ![p] = r]
                           /\ bundle' = [bundle EXCEPT ![p] = Counted(p, r)]
  BY DEF CountPending
<1>2. /\ UNCHANGED <<rows, until, dbNow, sends>>
      /\ pc[p] = "loop" /\ pc' = [pc EXCEPT ![p] = "counted"]
  BY DEF CountPending
<1>3. /\ \A q \in Passes \ {p} : cur'[q] = cur[q] /\ bundle'[q] = bundle[q] /\ pc'[q] = pc[q]
      /\ cur'[p] = r /\ bundle'[p] = Counted(p, r) /\ pc'[p] = "counted"
      /\ \A q \in Passes : PassEnd(q)' = PassEnd(q)
  BY <1>1, <1>2 DEF TypeOK, PassEnd
<1>4. BundleInInterval'
  <2> SUFFICES ASSUME NEW q \in Passes, pc'[q] = "counted" \/ Holding(q)'
               PROVE  bundle'[q] \subseteq Interval(cur[q].c, cur[q].until, PassEnd(q))'
    BY DEF BundleInInterval
  <2>1. CASE q = p
    BY <1>2, <1>3, <2>1 DEF Counted, PassInterval, Interval, For, Written
  <2>2. CASE q # p
    <3>1. pc[q] = "counted" \/ Holding(q)
      BY <1>3, <2>2 DEF Holding
    <3>2. bundle[q] \subseteq Interval(cur[q].c, cur[q].until, PassEnd(q))
      BY <3>1 DEF BundleInInterval
    <3> QED BY <1>2, <1>3, <2>2, <3>2 DEF Interval, For, Written
  <2> QED BY <2>1, <2>2
<1>5. RowsKept
  BY <1>2 DEF RowsKept, Written
<1>6. ClaimsKept
  BY <1>2, <1>3 DEF ClaimsKept, Holding
<1>7. \A c \in Channels : until[c] <= until'[c]
  BY <1>2 DEF TypeOK
<1> QED BY <1>2, <1>4, <1>5, <1>6, <1>7, ClaimsUndisturbed

\* The steps of a pass that neither take up a candidate nor open or return a claim.
LEMMA ClaimInvQuiet ==
    ASSUME IInv, TypeInv', NEW p \in Passes,
           \/ ReadPassStart(p) \/ ListCandidates(p) \/ SkipEmpty(p)
           \/ ClaimBundle(p) /\ ~ClaimMatches(p)
           \/ SendNotOk(p) \/ Prune(p)
           \/ HandBack(p) /\ ~HandBackMatches(p)
           \/ EndPass(p) \/ ReadFails(p) \/ Abort(p)
    PROVE  ClaimInv'
<1> USE DEF dbVars, chanVars, passVars, histVars
<1>1. rows' = rows /\ sends' = sends
  BY DEF ReadPassStart, ListCandidates, SkipEmpty, ClaimBundle, SendNotOk, Prune, HandBack, EndPass,
         ReadFails, Abort
<1>2. \A q \in Passes \ {p} : /\ pc'[q] = pc[q] /\ cur'[q] = cur[q]
                               /\ dbNow'[q] = dbNow[q] /\ bundle'[q] = bundle[q]
  <2>1. pc \in [Passes -> PcType] /\ cur \in [Passes -> SnapType] /\ dbNow \in [Passes -> Nat \ {0}]
        /\ bundle \in [Passes -> SUBSET RowIds]
    BY DEF IInv, TypeInv, TypeOK
  <2>2. \A q \in Passes \ {p} : pc'[q] = pc[q] /\ cur'[q] = cur[q]
    BY <2>1 DEF ReadPassStart, ListCandidates, SkipEmpty, ClaimBundle, SendNotOk, Prune, HandBack,
                EndPass, ReadFails, Abort, NextCandidate
  <2>3. \A q \in Passes \ {p} : dbNow'[q] = dbNow[q] /\ bundle'[q] = bundle[q]
    BY <2>1 DEF ReadPassStart, ListCandidates, SkipEmpty, ClaimBundle, SendNotOk, Prune, HandBack,
                EndPass, ReadFails, Abort, NextCandidate
  <2> QED BY <2>2, <2>3
<1>3. \/ pc'[p] \in {"list", "loop", Idle}
      \/ /\ Holding(p) /\ UNCHANGED <<cur, dbNow, bundle>> /\ pc'[p] \in {"dead", "failed"}
  BY DEF ReadPassStart, ListCandidates, SkipEmpty, ClaimBundle, SendNotOk, Prune, HandBack, EndPass,
         ReadFails, Abort, NextCandidate, IInv, TypeInv, TypeOK, Holding
<1>4. CountedKept /\ ClaimsKept
  BY <1>2, <1>3 DEF CountedKept, ClaimsKept, Holding, Idle
<1>5. RowsKept
  BY <1>1 DEF RowsKept, Written
<1>6. \A c \in Channels : until[c] <= until'[c]
  <2>1. CASE until' = until
    BY <2>1 DEF IInv, TypeInv, TypeOK
  <2>2. CASE SkipEmpty(p) /\ ClaimMatches(p)
    <3>1. until' = [until EXCEPT ![cur[p].c] = NextCursor(p)] /\ until[cur[p].c] = cur[p].until
      BY <2>2 DEF SkipEmpty, ClaimCursor, ClaimMatches
    <3>2. cur[p].until <= NextCursor(p)
      BY PassFields DEF NextCursor, IInv
    <3>3. ASSUME NEW c \in Channels PROVE until[c] <= until'[c]
      <4>1. until[c] \in Nat /\ until'[c] = IF c = cur[p].c THEN NextCursor(p) ELSE until[c]
        BY <3>1 DEF IInv, TypeInv, TypeOK
      <4> QED BY <3>1, <3>2, <4>1
    <3> QED BY <3>3
  <2> QED BY <2>1, <2>2
    DEF ReadPassStart, ListCandidates, SkipEmpty, ClaimBundle, LoseClaim, SendNotOk, Prune, HandBack,
        EndPass, ReadFails, Abort
<1> QED BY <1>1, <1>4, <1>5, <1>6, BundlesKept, ClaimsUndisturbed DEF ClaimInv

LEMMA IInvStep == IInv /\ [Next]_vars => IInv'
<1> SUFFICES ASSUME IInv, [Next]_vars PROVE IInv'
  OBVIOUS
<1>1. TypeInv'
  BY TypeInvStep DEF IInv
<1>2. CASE Environment
  BY <1>1, <1>2, ClaimInvEnvironment DEF IInv
<1>3. ASSUME NEW p \in Passes, ReadPassStart(p) \/ PassStep(p) \/ ReadFails(p) \/ Abort(p)
      PROVE  IInv'
  <2>1. CASE CountPending(p)
    BY <1>1, <2>1, ClaimInvCount DEF IInv
  <2>2. CASE ClaimBundle(p) /\ ClaimMatches(p)
    BY <1>1, <2>2, ClaimInvClaim DEF IInv
  <2>3. CASE SendOk(p)
    BY <1>1, <2>3, ClaimInvSend DEF IInv
  <2>4. CASE HandBack(p) /\ HandBackMatches(p)
    BY <1>1, <2>4, ClaimInvHandBack DEF IInv
  <2> QED BY <1>1, <1>3, <2>1, <2>2, <2>3, <2>4, ClaimInvQuiet DEF PassStep, IInv
<1>4. CASE UNCHANGED vars
  BY <1>1, <1>4 DEF vars, dbVars, chanVars, passVars, histVars, IInv, ClaimInv, BundleInInterval,
     ClaimsBelowCursor, ClaimsDisjoint, SentSettled, AtMostOnce, Holding, Interval, For, Written, PassEnd
<1> QED BY <1>2, <1>3, <1>4 DEF Next

LEMMA IInvAlways == Spec => []IInv
<1>1. Init => IInv
  BY TypeInvInit, ClaimInvInit DEF IInv
<1> QED BY <1>1, IInvStep, PTL DEF Spec

\* No notification row is sent twice to a channel, for any number of overlapping
\* passes, users, channels, reconnects, evictions and failed sends
\* (claim before deliver, and a handback that only undoes its own claim).
THEOREM SentAtMostOnce == Spec => []AtMostOnce
<1>1. IInv => AtMostOnce
  BY DEF IInv, ClaimInv
<1> QED BY IInvAlways, <1>1, PTL
-----------------------------------------------------------------------------
(* A cursor that moves back *)

RewindStep ==
    \A c \in Channels : (live[c] /\ live'[c] /\ gen'[c] = gen[c] /\ until'[c] < until[c]) =>
        \A i \in Interval(c, until'[c], until[c]) : sends[c][i] = 0

LEMMA RewindByHandBack ==
    ASSUME IInv, [Next]_vars, NEW c \in Channels, live[c], until'[c] < until[c]
    PROVE  \E p \in Passes : HandBack(p) /\ HandBackMatches(p) /\ cur[p].c = c
<1> USE DEF dbVars, chanVars, passVars, histVars
<1>1. until[c] \in Nat
  BY DEF IInv, TypeInv, TypeOK
<1>2. CASE Environment
  <2>1. CASE \E d \in Channels : AddChannel(d)
    BY <1>1, <2>1 DEF AddChannel, IInv, TypeInv, TypeOK
  <2>2. CASE until' = until
    BY <1>1, <2>2
  <2> QED BY <1>2, <2>1, <2>2 DEF Environment, Tick, WriteRow, DeleteThread, SetPref, RemoveChannel
<1>3. ASSUME NEW p \in Passes, ReadPassStart(p) \/ PassStep(p) \/ ReadFails(p) \/ Abort(p)
      PROVE  HandBack(p) /\ HandBackMatches(p) /\ cur[p].c = c
  <2>1. CASE until' = until
    BY <1>1, <2>1
  <2>2. CASE ClaimCursor(p) /\ ClaimMatches(p)
    <3>1. cur[p].until <= NextCursor(p) /\ NextCursor(p) \in Nat /\ cur[p].until \in Nat
      BY PassFields DEF NextCursor, IInv
    <3>2. until'[c] = IF c = cur[p].c THEN NextCursor(p) ELSE until[c]
      BY <2>2 DEF ClaimCursor, IInv, TypeInv, TypeOK
    <3>3. ~(until'[c] < until[c])
      BY <1>1, <2>2, <3>1, <3>2 DEF ClaimMatches
    <3> QED BY <3>3
  <2>3. CASE HandBack(p) /\ HandBackMatches(p)
    <3>1. until' = [until EXCEPT ![cur[p].c] = cur[p].until]
      BY <2>3 DEF HandBack
    <3> QED BY <1>1, <2>3, <3>1 DEF IInv, TypeInv, TypeOK
  <2> QED BY <1>3, <2>1, <2>2, <2>3
    DEF PassStep, ReadPassStart, ListCandidates, CountPending, SkipEmpty, ClaimBundle, LoseClaim, SendOk,
        SendNotOk, Prune, HandBack, EndPass, ReadFails, Abort
<1>4. CASE UNCHANGED vars
  BY <1>1, <1>4 DEF vars
<1> QED BY <1>2, <1>3, <1>4 DEF Next

\* A slow pass that fails never rewinds a channel over a row that was delivered:
\* the handback is conditional on the value the pass itself claimed.
THEOREM RewindIsSafe == Spec => RewindReopensUnsent
<1>1. IInv /\ [Next]_vars => RewindStep
  <2> SUFFICES ASSUME IInv, [Next]_vars, NEW c \in Channels, live[c], until'[c] < until[c],
                      NEW i \in Interval(c, until'[c], until[c])
               PROVE  sends[c][i] = 0
    BY DEF RewindStep
  <2>1. PICK p \in Passes : HandBack(p) /\ HandBackMatches(p) /\ cur[p].c = c
    BY RewindByHandBack
  <2>2. Holding(p) /\ until' = [until EXCEPT ![c] = cur[p].until] /\ until[c] = NextCursor(p)
    BY <2>1 DEF HandBack, HandBackMatches, Holding
  <2>3. until'[c] = cur[p].until /\ until[c] = PassEnd(p)
    <3>1. cur[p].until < PassEnd(p)
      BY <2>2 DEF IInv, ClaimInv, ClaimsBelowCursor
    <3> QED BY <2>2, <3>1, PassFields DEF NextCursor, IInv, TypeInv, TypeOK
  <2>4. i \in Written /\ cur[p].until < rows[i].ts /\ rows[i].ts <= PassEnd(p) /\ i \in RowIds
    BY <2>3, LenProperties, DispatchAssumption DEF Interval, Written, RowIds, IInv, TypeInv, TypeOK
  <2>5. rows[i].ts \in Nat
    BY <2>4, RowFields DEF IInv, TypeInv, TypeOK
  <2>6. ~(sends[c][i] > 0)
    BY <2>1, <2>2, <2>4, <2>5, PassFields DEF IInv, ClaimInv, SentSettled
  <2> QED BY <2>4, <2>6 DEF IInv, TypeInv, TypeOK
<1>2. IInv /\ [Next]_vars => [RewindStep]_vars
  BY <1>1
<1>3. Spec => [][RewindStep]_vars
  BY <1>2, IInvAlways, PTL DEF Spec
<1> QED BY <1>3 DEF RewindReopensUnsent, RewindStep
-----------------------------------------------------------------------------
(* Nothing skipped *)

InHand(p) == pc[p] = "counted" \/ Holding(p)

\* Rows to come are above every cursor that was moved since the slot was connected.
CursorBehind == \A c \in Channels : until[c] <= created[c] \/ until[c] < clock

\* The interval of a count is closed: no row is written into it any more.
CountComplete ==
    \A p \in Passes : pc[p] = "counted" =>
        Interval(cur[p].c, cur[p].until, PassEnd(p)) \subseteq bundle[p] \cup muted[p]

MutedInInterval ==
    \A p \in Passes : InHand(p) =>
        \A i \in muted[p] : /\ i \in Interval(cur[p].c, cur[p].until, PassEnd(p))
                            /\ rows[i].kind # "device"

\* A slot that was connected again after a pass listed it has no row in the
\* interval of that pass.
Reconnected ==
    \A p \in Passes :
        /\ \A r \in todo[p] : gen[r.c] # r.gen => created[r.c] >= dbNow[p]
        /\ InHand(p) /\ gen[cur[p].c] # cur[p].gen => created[cur[p].c] >= dbNow[p]
        /\ pc[p] \in {Idle, "list"} => todo[p] = {}

CountInv == CursorBehind /\ CountComplete /\ MutedInInterval /\ Reconnected

SInv == IInv /\ CountInv /\ NothingSkipped

PassMoves(p) == ReadPassStart(p) \/ PassStep(p) \/ ReadFails(p) \/ Abort(p)

\* What a step of a pass leaves alone.
LEMMA PassFrame ==
    ASSUME TypeInv, NEW p \in Passes, PassMoves(p)
    PROVE  /\ UNCHANGED <<clock, rows, gen, created>>
           /\ \A q \in Passes \ {p} : /\ pc'[q] = pc[q] /\ cur'[q] = cur[q] /\ dbNow'[q] = dbNow[q]
                                      /\ todo'[q] = todo[q] /\ bundle'[q] = bundle[q]
                                      /\ muted'[q] = muted[q]
<1> USE DEF dbVars, chanVars, histVars, NextCandidate
<1>0. /\ pc \in [Passes -> PcType] /\ cur \in [Passes -> SnapType] /\ dbNow \in [Passes -> Nat \ {0}]
      /\ todo \in [Passes -> SUBSET SnapType]
      /\ bundle \in [Passes -> SUBSET RowIds] /\ muted \in [Passes -> SUBSET RowIds]
  BY DEF TypeInv, TypeOK
<1> DEFINE Same(q) == /\ pc'[q] = pc[q] /\ cur'[q] = cur[q] /\ dbNow'[q] = dbNow[q]
                      /\ todo'[q] = todo[q] /\ bundle'[q] = bundle[q] /\ muted'[q] = muted[q]
           Goal == /\ UNCHANGED <<clock, rows, gen, created>> /\ \A q \in Passes \ {p} : Same(q)
<1>1. CASE ReadPassStart(p) \/ ListCandidates(p) \/ EndPass(p)
  BY <1>0, <1>1 DEF ReadPassStart, ListCandidates, EndPass
<1>2. CASE CountPending(p)
  BY <1>0, <1>2 DEF CountPending
<1>3. CASE SkipEmpty(p) \/ ClaimBundle(p)
  BY <1>0, <1>3 DEF SkipEmpty, ClaimBundle
<1>4. CASE SendOk(p) \/ SendNotOk(p) \/ Prune(p) \/ HandBack(p)
  BY <1>0, <1>4 DEF SendOk, SendNotOk, Prune, HandBack
<1>5. CASE ReadFails(p) \/ Abort(p)
  BY <1>0, <1>5 DEF ReadFails, Abort
<1> QED BY <1>1, <1>2, <1>3, <1>4, <1>5 DEF PassMoves, PassStep

\* What a pass holds after a step it took up with it or held before.
LEMMA HandFrame ==
    ASSUME TypeInv, NEW p \in Passes, PassMoves(p)
    PROVE  /\ pc'[p] = "counted" => CountPending(p)
           /\ InHand(p)' => \/ CountPending(p)
                            \/ /\ InHand(p) /\ cur'[p] = cur[p] /\ dbNow'[p] = dbNow[p]
                               /\ bundle'[p] = bundle[p] /\ muted'[p] = muted[p]
           /\ \/ ListCandidates(p)
              \/ todo'[p] = {}
              \/ todo'[p] \subseteq todo[p] /\ dbNow'[p] = dbNow[p]
              \/ todo'[p] = todo[p] /\ pc[p] = Idle
           /\ pc'[p] \in {Idle, "list"} => todo'[p] = {} \/ (todo'[p] = todo[p] /\ pc[p] = Idle)
<1> USE DEF dbVars, chanVars, histVars, NextCandidate, Idle
<1>0. /\ pc \in [Passes -> PcType] /\ cur \in [Passes -> SnapType] /\ dbNow \in [Passes -> Nat \ {0}]
      /\ todo \in [Passes -> SUBSET SnapType]
      /\ bundle \in [Passes -> SUBSET RowIds] /\ muted \in [Passes -> SUBSET RowIds]
  BY DEF TypeInv, TypeOK
<1>1. CASE ReadPassStart(p) \/ ListCandidates(p) \/ EndPass(p)
  BY <1>0, <1>1 DEF ReadPassStart, ListCandidates, EndPass, InHand, Holding
<1>2. CASE CountPending(p)
  <2>1. PICK r \in todo[p] : todo' = [todo EXCEPT ![p] = @ \ {r}]
    BY <1>2 DEF CountPending
  <2>2. dbNow' = dbNow /\ pc' = [pc EXCEPT ![p] = "counted"]
    BY <1>2 DEF CountPending
  <2> QED BY <1>0, <1>2, <2>1, <2>2
<1>3. CASE SkipEmpty(p) \/ ClaimBundle(p)
  BY <1>0, <1>3 DEF SkipEmpty, ClaimBundle, InHand, Holding
<1>4. CASE SendOk(p) \/ SendNotOk(p) \/ Prune(p) \/ HandBack(p)
  BY <1>0, <1>4 DEF SendOk, SendNotOk, Prune, HandBack, InHand, Holding
<1>5. CASE ReadFails(p) \/ Abort(p)
  BY <1>0, <1>5 DEF ReadFails, Abort, InHand, Holding
<1> QED BY <1>1, <1>2, <1>3, <1>4, <1>5 DEF PassMoves, PassStep

\* The statements of a pass that move a cursor.
LEMMA CursorMoves ==
    ASSUME TypeInv, NEW p \in Passes, PassMoves(p)
    PROVE  \/ until' = until /\ passed' = passed /\ ~(HandBack(p) /\ HandBackMatches(p))
           \/ (SkipEmpty(p) \/ ClaimBundle(p)) /\ ClaimMatches(p) /\ ClaimCursor(p)
           \/ HandBack(p) /\ HandBackMatches(p)
<1> USE DEF dbVars, chanVars, histVars, NextCandidate, Idle
<1>1. CASE ReadPassStart(p) \/ ListCandidates(p) \/ EndPass(p)
  BY <1>1 DEF ReadPassStart, ListCandidates, EndPass, HandBack
<1>2. CASE CountPending(p)
  BY <1>2 DEF CountPending, HandBack
<1>3. CASE SkipEmpty(p) \/ ClaimBundle(p)
  BY <1>3 DEF SkipEmpty, ClaimBundle, LoseClaim, HandBack
<1>4. CASE SendOk(p) \/ SendNotOk(p) \/ Prune(p)
  BY <1>4 DEF SendOk, SendNotOk, Prune, HandBack
<1>5. CASE HandBack(p)
  BY <1>5 DEF HandBack
<1>6. CASE ReadFails(p) \/ Abort(p)
  <2>1. until' = until /\ passed' = passed
    BY <1>6 DEF ReadFails, Abort
  <2> QED BY <2>1
<1> QED BY <1>1, <1>2, <1>3, <1>4, <1>5, <1>6 DEF PassMoves, PassStep

LEMMA CursorBehindStep ==
    ASSUME SInv, [Next]_vars, TypeInv' PROVE CursorBehind'
<1> USE DEF SInv, CountInv, IInv
<1> SUFFICES ASSUME NEW c \in Channels PROVE until'[c] <= created'[c] \/ until'[c] < clock'
  BY DEF CursorBehind
<1>0. /\ until[c] <= created[c] \/ until[c] < clock
      /\ clock \in Nat /\ until[c] \in Nat /\ created[c] \in Nat
  BY DEF CursorBehind, TypeInv, TypeOK
<1>1. CASE Environment
  <2>1. ASSUME NEW d \in Channels, AddChannel(d) PROVE until'[c] <= created'[c] \/ until'[c] < clock'
    BY <1>0, <2>1 DEF AddChannel, dbVars, TypeInv, TypeOK, DbNow
  <2>2. CASE UNCHANGED <<until, created>> /\ clock' \in {clock, clock + 1}
    BY <1>0, <2>2
  <2> QED BY <1>1, <2>1, <2>2
       DEF Environment, Tick, WriteRow, DeleteThread, SetPref, RemoveChannel, dbVars, chanVars
<1>2. ASSUME NEW p \in Passes, PassMoves(p) PROVE until'[c] <= created'[c] \/ until'[c] < clock'
  <2>1. UNCHANGED <<clock, created>>
    BY <1>2, PassFrame
  <2>2. /\ PassEnd(p) \in Nat /\ PassEnd(p) < clock /\ cur[p].until \in Nat /\ cur[p].c \in Channels
    <3>1. dbNow[p] <= clock /\ dbNow[p] \in Nat
      BY DEF TypeInv, TypeOK, ClockBounds
    <3> QED BY <1>0, <3>1, PassFields DEF PassEnd
  <2>3. CASE until' = until
    BY <1>0, <2>1, <2>3
  <2>4. CASE ClaimMatches(p) /\ ClaimCursor(p)
    <3>1. until'[c] = IF c = cur[p].c THEN NextCursor(p) ELSE until[c]
      BY <2>4 DEF ClaimCursor, TypeInv, TypeOK
    <3>2. until[cur[p].c] = cur[p].until
      BY <2>4 DEF ClaimMatches
    <3> QED BY <1>0, <2>1, <2>2, <3>1, <3>2 DEF NextCursor
  <2>5. CASE HandBack(p) /\ HandBackMatches(p)
    <3>1. until'[c] = IF c = cur[p].c THEN cur[p].until ELSE until[c]
      BY <2>5 DEF HandBack, TypeInv, TypeOK
    <3>2. cur[p].until < PassEnd(p)
      BY <2>5 DEF HandBack, Holding, ClaimInv, ClaimsBelowCursor
    <3> QED BY <1>0, <2>1, <2>2, <3>1, <3>2
  <2> QED BY <1>2, <2>3, <2>4, <2>5, CursorMoves
<1>3. CASE UNCHANGED vars
  BY <1>0, <1>3 DEF vars, dbVars, chanVars
<1> QED BY <1>1, <1>2, <1>3 DEF Next, PassMoves

\* Rows and passes under the steps that are not of a pass.
LEMMA EnvironmentFrame ==
    ASSUME TypeInv, Environment
    PROVE  /\ UNCHANGED <<pc, cur, dbNow, todo, bundle, muted>>
           /\ sends' = sends
           /\ \/ rows' = rows
              \/ \E r \in RowType : rows' = Append(rows, r) /\ r.ts = clock /\ UNCHANGED <<chanVars, histVars>>
           /\ \/ UNCHANGED <<gen, created, until, passed, lost>> /\ \A c \in Channels : live'[c] => live[c]
              \/ \E d \in Channels : AddChannel(d)
<1> USE DEF dbVars, chanVars, passVars, histVars
<1>1. ASSUME NEW k \in Kinds, NEW u \in Users, WriteRow(k, u)
      PROVE  \E r \in RowType : rows' = Append(rows, r) /\ r.ts = clock
  <2>1. [kind |-> k, to |-> u, ts |-> clock] \in RowType
    BY DEF RowType, TypeInv, TypeOK
  <2> QED BY <1>1, <2>1 DEF WriteRow, DbNow
<1>2. ASSUME NEW k \in Kinds, NEW u \in Users, WriteRow(k, u)
      PROVE  UNCHANGED <<pc, cur, dbNow, todo, bundle, muted, sends, chanVars, histVars>>
  BY <1>2 DEF WriteRow
<1>3. ASSUME NEW c \in Channels, RemoveChannel(c)
      PROVE  /\ UNCHANGED <<pc, cur, dbNow, todo, bundle, muted, sends, rows, gen, created, until, passed, lost>>
             /\ \A d \in Channels : live'[d] => live[d]
  BY <1>3 DEF RemoveChannel, TypeInv, TypeOK
<1>4. CASE Tick \/ (\E i \in Written : DeleteThread(i)) \/ (\E u \in Users : SetPref(u))
  BY <1>4 DEF Tick, DeleteThread, SetPref
<1>5. ASSUME NEW c \in Channels, AddChannel(c)
      PROVE  UNCHANGED <<pc, cur, dbNow, todo, bundle, muted, sends, rows>>
  BY <1>5 DEF AddChannel
<1>6. CASE \E k \in Kinds, u \in Users : WriteRow(k, u)
  <2>1. PICK k \in Kinds, u \in Users : WriteRow(k, u)
    BY <1>6
  <2>2. UNCHANGED <<pc, cur, dbNow, todo, bundle, muted, sends, chanVars, histVars>>
    BY <2>1, <1>2
  <2>3. \E r \in RowType : rows' = Append(rows, r) /\ r.ts = clock
    BY <2>1, <1>1
  <2> QED BY <2>2, <2>3
<1>7. CASE \E c \in Channels : RemoveChannel(c)
  BY <1>3, <1>7
<1>8. CASE \E c \in Channels : AddChannel(c)
  BY <1>5, <1>8
<1> QED BY <1>4, <1>6, <1>7, <1>8 DEF Environment

\* An interval below the clock is closed.
LEMMA IntervalClosed ==
    ASSUME TypeInv, [Next]_vars, NEW c \in Channels, NEW lo \in Nat, NEW hi \in Nat, hi < clock
    PROVE  /\ Interval(c, lo, hi)' = Interval(c, lo, hi)
           /\ \A i \in Interval(c, lo, hi) : rows'[i] = rows[i]
<1>1. CASE rows' = rows
  BY <1>1 DEF Interval, For, Written
<1>2. ASSUME NEW r \in RowType, rows' = Append(rows, r), r.ts = clock
      PROVE  /\ Interval(c, lo, hi)' = Interval(c, lo, hi)
             /\ \A i \in Interval(c, lo, hi) : rows'[i] = rows[i]
  <2>1. rows \in Seq(RowType) /\ clock \in Nat
    BY DEF TypeInv, TypeOK
  <2>2. Len(rows) \in Nat /\ Len(rows') = Len(rows) + 1 /\ rows'[Len(rows) + 1] = r
        /\ \A i \in 1..Len(rows) : rows'[i] = rows[i]
    BY <1>2, <2>1, AppendProperties
  <2>3. ASSUME NEW i PROVE i \in Interval(c, lo, hi)' <=> i \in Interval(c, lo, hi)
    <3>1. CASE i \in Written
      <4>1. i \in Written' /\ rows'[i] = rows[i]
        BY <2>2, <3>1 DEF Written
      <4> QED BY <3>1, <4>1 DEF Interval, For
    <3>2. CASE i \notin Written
      <4>1. i \in Written' => i = Len(rows) + 1
        BY <2>2, <3>2 DEF Written
      <4>2. i = Len(rows) + 1 => ~(rows'[i].ts <= hi)
        BY <1>2, <2>1, <2>2
      <4> QED BY <3>2, <4>1, <4>2 DEF Interval
    <3> QED BY <3>1, <3>2
  <2>4. \A i \in Interval(c, lo, hi) : i \in 1..Len(rows)
    BY DEF Interval, Written
  <2> QED BY <2>2, <2>3, <2>4
<1>3. ASSUME NEW p \in Passes, PassMoves(p) PROVE rows' = rows
  BY <1>3, PassFrame
<1> QED BY <1>1, <1>2, <1>3, EnvironmentFrame DEF Next, PassMoves, vars, dbVars

\* The interval of a candidate lies below the clock.
LEMMA HandBounds ==
    ASSUME TypeInv, NEW p \in Passes
    PROVE  /\ cur[p].c \in Channels /\ cur[p].until \in Nat
           /\ PassEnd(p) \in Nat /\ PassEnd(p) < dbNow[p] /\ dbNow[p] <= clock /\ PassEnd(p) < clock
<1>1. dbNow[p] <= clock /\ dbNow[p] \in Nat /\ clock \in Nat
  BY DEF TypeInv, TypeOK, ClockBounds
<1> QED BY <1>1, PassFields DEF PassEnd

LEMMA CountStep ==
    ASSUME SInv, [Next]_vars, TypeInv' PROVE CountComplete' /\ MutedInInterval'
<1> USE DEF SInv, CountInv, IInv
<1> SUFFICES ASSUME NEW p \in Passes
             PROVE  /\ pc'[p] = "counted" =>
                         Interval(cur[p].c, cur[p].until, PassEnd(p))' \subseteq bundle'[p] \cup muted'[p]
                    /\ InHand(p)' => \A i \in muted'[p] :
                         /\ i \in Interval(cur[p].c, cur[p].until, PassEnd(p))'
                         /\ rows'[i].kind # "device"
  BY DEF CountComplete, MutedInInterval
<1>1. ASSUME cur'[p] = cur[p], dbNow'[p] = dbNow[p], bundle'[p] = bundle[p], muted'[p] = muted[p], InHand(p),
             pc'[p] = "counted" => pc[p] = "counted"
      PROVE  /\ pc'[p] = "counted" =>
                  Interval(cur[p].c, cur[p].until, PassEnd(p))' \subseteq bundle'[p] \cup muted'[p]
             /\ \A i \in muted'[p] : /\ i \in Interval(cur[p].c, cur[p].until, PassEnd(p))'
                                      /\ rows'[i].kind # "device"
  <2> DEFINE I == Interval(cur[p].c, cur[p].until, PassEnd(p))
  <2>1. /\ Interval(cur[p].c, cur[p].until, PassEnd(p))' = Interval(cur[p].c, cur[p].until, PassEnd(p))
        /\ \A i \in I : rows'[i] = rows[i]
    <3>1. PassEnd(p)' = PassEnd(p)
      BY <1>1 DEF PassEnd
    <3> DEFINE c == cur[p].c
               lo == cur[p].until
               hi == PassEnd(p)
    <3>2. c \in Channels /\ lo \in Nat /\ hi \in Nat /\ hi < clock
      BY HandBounds
    <3> HIDE DEF c, lo, hi
    <3>3. Interval(c, lo, hi)' = {i \in Written' : For(c, i)' /\ lo' < rows'[i].ts /\ rows'[i].ts <= hi'}
      BY DEF Interval
    <3>4. c' = c /\ lo' = lo /\ hi' = hi
      BY <1>1, <3>1 DEF c, lo, hi
    <3> QED BY <3>2, <3>4, IntervalClosed DEF c, lo, hi
  <2>2. \A i \in muted[p] : i \in I /\ rows[i].kind # "device"
    BY <1>1 DEF MutedInInterval
  <2>3. pc[p] = "counted" => I \subseteq bundle[p] \cup muted[p]
    BY DEF CountComplete
  <2> HIDE DEF I
  <2> QED BY <1>1, <2>1, <2>2, <2>3 DEF I
<1>2. CASE UNCHANGED <<pc, cur, dbNow, bundle, muted>>
  BY <1>1, <1>2 DEF InHand, Holding
<1>3. ASSUME NEW q \in Passes \ {p}, PassMoves(q)
      PROVE  /\ pc'[p] = pc[p] /\ cur'[p] = cur[p] /\ dbNow'[p] = dbNow[p]
             /\ bundle'[p] = bundle[p] /\ muted'[p] = muted[p]
  BY <1>3, PassFrame
<1>4. CASE CountPending(p)
  <2>1. PICK r \in todo[p] : /\ cur' = [cur EXCEPT ![p] = r]
                             /\ bundle' = [bundle EXCEPT ![p] = Counted(p, r)]
                             /\ muted' = [muted EXCEPT ![p] = PassInterval(p, r) \ Counted(p, r)]
    BY <1>4 DEF CountPending
  <2>2. UNCHANGED <<rows, dbNow>>
    BY <1>4 DEF CountPending, dbVars
  <2>3. cur'[p] = r /\ bundle'[p] = Counted(p, r) /\ muted'[p] = PassInterval(p, r) \ Counted(p, r)
    BY <2>1 DEF TypeInv, TypeOK
  <2>4. Interval(cur[p].c, cur[p].until, PassEnd(p))' = PassInterval(p, r)
    BY <2>2, <2>3 DEF PassInterval, Interval, For, Written, PassEnd
  <2>5. \A i \in PassInterval(p, r) \ Counted(p, r) : rows'[i].kind # "device"
    BY <2>2 DEF Counted
  <2> QED BY <2>3, <2>4, <2>5
<1>5. CASE PassMoves(p) /\ ~CountPending(p)
  <2>1. /\ pc'[p] # "counted"
        /\ InHand(p)' => /\ InHand(p) /\ cur'[p] = cur[p] /\ dbNow'[p] = dbNow[p]
                         /\ bundle'[p] = bundle[p] /\ muted'[p] = muted[p]
    BY <1>5, HandFrame
  <2> QED BY <1>1, <2>1
<1>6. CASE \E q \in Passes \ {p} : PassMoves(q)
  <2>1. PICK q \in Passes \ {p} : PassMoves(q)
    BY <1>6
  <2>2. /\ pc'[p] = pc[p] /\ cur'[p] = cur[p] /\ dbNow'[p] = dbNow[p]
        /\ bundle'[p] = bundle[p] /\ muted'[p] = muted[p]
    BY <1>3, <2>1
  <2>3. InHand(p)' <=> InHand(p)
    BY <2>2 DEF InHand, Holding
  <2>4. pc'[p] = "counted" => InHand(p)
    BY <2>2 DEF InHand
  <2> QED BY <1>1, <2>2, <2>3, <2>4
<1>7. Environment \/ UNCHANGED vars => UNCHANGED <<pc, cur, dbNow, bundle, muted>>
  BY EnvironmentFrame DEF vars, passVars
<1> QED BY <1>2, <1>4, <1>5, <1>6, <1>7 DEF Next, PassMoves

LEMMA ReconnectedStep ==
    ASSUME SInv, [Next]_vars, TypeInv' PROVE Reconnected'
<1> USE DEF SInv, CountInv, IInv
<1> DEFINE Fresh(r, n) == gen[r.c] # r.gen => created[r.c] >= n
<1> SUFFICES ASSUME NEW p \in Passes
             PROVE  /\ \A r \in todo'[p] : Fresh(r, dbNow[p])'
                    /\ InHand(p)' => Fresh(cur[p], dbNow[p])'
                    /\ pc'[p] \in {Idle, "list"} => todo'[p] = {}
  BY DEF Reconnected
<1>0. /\ \A r \in todo[p] : Fresh(r, dbNow[p])
      /\ InHand(p) => Fresh(cur[p], dbNow[p])
      /\ pc[p] \in {Idle, "list"} => todo[p] = {}
  BY DEF Reconnected
<1>a. /\ dbNow[p] \in Nat /\ dbNow[p] <= clock /\ clock \in Nat
      /\ \A r \in todo[p] : r.c \in Channels
      /\ cur[p].c \in Channels
  <2>1. todo[p] \in SUBSET SnapType /\ clock \in Nat /\ dbNow[p] \in Nat
    BY DEF TypeInv, TypeOK
  <2>2. \A r \in todo[p] : r.c \in Channels
    BY <2>1 DEF SnapType
  <2> QED BY <2>1, <2>2, HandBounds
<1>2. ASSUME UNCHANGED <<gen, created>>, pc'[p] = pc[p], cur'[p] = cur[p], dbNow'[p] = dbNow[p], todo'[p] = todo[p]
      PROVE  /\ \A r \in todo'[p] : Fresh(r, dbNow[p])'
             /\ InHand(p)' => Fresh(cur[p], dbNow[p])'
             /\ pc'[p] \in {Idle, "list"} => todo'[p] = {}
  BY <1>0, <1>2 DEF InHand, Holding
<1>3. ASSUME NEW d \in Channels, AddChannel(d)
      PROVE  /\ \A r \in todo'[p] : Fresh(r, dbNow[p])'
             /\ InHand(p)' => Fresh(cur[p], dbNow[p])'
             /\ pc'[p] \in {Idle, "list"} => todo'[p] = {}
  <2>1. UNCHANGED <<pc, cur, dbNow, todo>> /\ created' = [created EXCEPT ![d] = clock]
        /\ gen' = [gen EXCEPT ![d] = @ + 1]
    BY <1>3 DEF AddChannel, passVars, DbNow
  <2>2. created'[d] = clock /\ \A c \in Channels \ {d} : created'[c] = created[c] /\ gen'[c] = gen[c]
    BY <2>1 DEF TypeInv, TypeOK
  <2>3. ASSUME NEW r, r.c \in Channels, Fresh(r, dbNow[p]) PROVE gen'[r.c] # r.gen => created'[r.c] >= dbNow[p]
    BY <1>a, <2>2, <2>3
  <2>4. InHand(p)' <=> InHand(p)
    BY <2>1 DEF InHand, Holding
  <2> HIDE DEF Fresh
  <2>5. \A r \in todo[p] : gen'[r.c] # r.gen => created'[r.c] >= dbNow[p]
    BY <1>0, <1>a, <2>3
  <2>6. InHand(p) => (gen'[cur[p].c] # cur[p].gen => created'[cur[p].c] >= dbNow[p])
    BY <1>0, <1>a, <2>3
  <2> QED BY <1>0, <2>1, <2>4, <2>5, <2>6 DEF Fresh
<1>4. CASE Environment
  <2>1. UNCHANGED <<pc, cur, dbNow, todo>>
    BY <1>4, EnvironmentFrame
  <2>2. UNCHANGED <<gen, created>> \/ \E d \in Channels : AddChannel(d)
    BY <1>4, EnvironmentFrame
  <2> QED BY <1>2, <1>3, <2>1, <2>2
<1>5. CASE UNCHANGED vars
  BY <1>2, <1>5 DEF vars, passVars, chanVars
<1>6. CASE \E q \in Passes \ {p} : PassMoves(q)
  <2>1. PICK q \in Passes \ {p} : PassMoves(q)
    BY <1>6
  <2>2. UNCHANGED <<gen, created>> /\ pc'[p] = pc[p] /\ cur'[p] = cur[p] /\ dbNow'[p] = dbNow[p]
        /\ todo'[p] = todo[p]
    BY <2>1, PassFrame
  <2> QED BY <1>2, <2>2
<1>7. CASE PassMoves(p)
  <2>0. UNCHANGED <<gen, created>>
    BY <1>7, PassFrame
  <2>1. pc'[p] \in {Idle, "list"} => todo'[p] = {}
    BY <1>0, <1>7, HandFrame
  <2>2. CASE ListCandidates(p)
    <3>1. PICK S \in SUBSET Candidates(p) : todo' = [todo EXCEPT ![p] = S]
      BY <2>2 DEF ListCandidates
    <3>2. todo'[p] = S
      BY <3>1 DEF TypeInv, TypeOK
    <3>3. \A r \in S : gen[r.c] = r.gen
      BY DEF Candidates, Snap
    <3>4. ~InHand(p)'
      BY <2>2 DEF ListCandidates, InHand, Holding, TypeInv, TypeOK
    <3> QED BY <2>0, <2>1, <3>2, <3>3, <3>4
  <2>3. CASE CountPending(p)
    <3>1. PICK r \in todo[p] : todo' = [todo EXCEPT ![p] = @ \ {r}] /\ cur' = [cur EXCEPT ![p] = r]
      BY <2>3 DEF CountPending
    <3>2. dbNow' = dbNow /\ todo'[p] \subseteq todo[p] /\ cur'[p] = r
      BY <2>3, <3>1 DEF CountPending, TypeInv, TypeOK
    <3> QED BY <1>0, <2>0, <2>1, <3>2
  <2>4. CASE ~ListCandidates(p) /\ ~CountPending(p)
    <3>1. InHand(p)' => InHand(p) /\ cur'[p] = cur[p] /\ dbNow'[p] = dbNow[p]
      BY <1>7, <2>4, HandFrame
    <3>2. \/ todo'[p] = {}
          \/ todo'[p] \subseteq todo[p] /\ dbNow'[p] = dbNow[p]
          \/ todo'[p] = todo[p] /\ pc[p] = Idle
      BY <1>7, <2>4, HandFrame
    <3> QED BY <1>0, <2>0, <2>1, <3>1, <3>2
  <2> QED BY <2>2, <2>3, <2>4
<1> QED BY <1>4, <1>5, <1>6, <1>7 DEF Next, PassMoves

\* What NothingSkipped says of a row.
Accounted(c, i) ==
    \/ sends[c][i] > 0
    \/ i \in passed[c] /\ rows[i].kind # "device"
    \/ i \in lost[c]
    \/ \E p \in Passes : Holding(p) /\ cur[p].c = c /\ i \in bundle[p]

Due(c, i) == live[c] /\ For(c, i) /\ created[c] < rows[i].ts /\ rows[i].ts <= until[c]

LEMMA SkippedByEnvironment ==
    ASSUME SInv, Environment, TypeInv' PROVE NothingSkipped'
<1> USE DEF SInv, CountInv, IInv
<1> SUFFICES ASSUME NEW c \in Channels, NEW i \in Written', Due(c, i)' PROVE Accounted(c, i)'
  BY DEF NothingSkipped, Due, Accounted
<1>0. UNCHANGED <<pc, cur, dbNow, todo, bundle, muted, sends>>
  BY EnvironmentFrame
<1>1. CASE \E r \in RowType : rows' = Append(rows, r) /\ r.ts = clock /\ UNCHANGED <<chanVars, histVars>>
  <2>1. PICK r \in RowType : rows' = Append(rows, r) /\ r.ts = clock /\ UNCHANGED <<chanVars, histVars>>
    BY <1>1
  <2>2. rows \in Seq(RowType) /\ clock \in Nat /\ until[c] \in Nat /\ created[c] \in Nat
    BY DEF TypeInv, TypeOK
  <2>3. /\ Len(rows) \in Nat /\ Len(rows') = Len(rows) + 1 /\ rows'[Len(rows) + 1] = r
        /\ \A j \in 1..Len(rows) : rows'[j] = rows[j]
    BY <2>1, <2>2, AppendProperties
  <2>4. CASE i \in Written
    <3>1. rows'[i] = rows[i]
      BY <2>3, <2>4 DEF Written
    <3>2. Due(c, i)
      BY <2>1, <3>1 DEF Due, For, chanVars
    <3>3. Accounted(c, i)
      BY <2>4, <3>2 DEF NothingSkipped, Due, Accounted
    <3> QED BY <1>0, <2>1, <3>1, <3>3 DEF Accounted, Holding, histVars
  <2>5. CASE i \notin Written
    <3>1. i = Len(rows) + 1
      BY <2>3, <2>5 DEF Written
    <3>2. rows'[i].ts = clock
      BY <2>1, <2>3, <3>1
    <3>3. created[c] < clock /\ clock <= until[c]
      BY <2>1, <3>2 DEF Due, chanVars
    <3> QED BY <2>2, <3>3 DEF CursorBehind
  <2> QED BY <2>4, <2>5
<1>2. CASE rows' = rows /\ UNCHANGED <<gen, created, until, passed, lost>> /\ \A d \in Channels : live'[d] => live[d]
  <2>1. Due(c, i) /\ i \in Written
    BY <1>2 DEF Due, For, Written
  <2>2. Accounted(c, i)
    BY <2>1 DEF NothingSkipped, Due, Accounted
  <2> QED BY <1>0, <1>2, <2>2 DEF Accounted, Holding
<1>3. CASE \E d \in Channels : AddChannel(d)
  <2>1. PICK d \in Channels : AddChannel(d)
    BY <1>3
  <2>2. CASE c = d
    <3>1. created'[c] = clock /\ until'[c] = clock /\ clock \in Nat
      BY <2>1, <2>2 DEF AddChannel, DbNow, TypeInv, TypeOK
    <3>2. rows' = rows /\ rows \in Seq(RowType) /\ i \in Written
      BY <2>1 DEF AddChannel, dbVars, Written, TypeInv, TypeOK
    <3>3. rows[i].ts \in Nat
      BY <3>2, RowFields
    <3> QED BY <3>1, <3>2, <3>3 DEF Due
  <2>3. CASE c # d
    <3>1. /\ rows' = rows /\ created'[c] = created[c] /\ until'[c] = until[c] /\ live'[c] = live[c]
          /\ passed'[c] = passed[c] /\ lost'[c] = lost[c]
      BY <2>1, <2>3 DEF AddChannel, dbVars, TypeInv, TypeOK
    <3>2. Due(c, i) /\ i \in Written
      BY <3>1 DEF Due, For, Written
    <3>3. Accounted(c, i)
      BY <3>2 DEF NothingSkipped, Due, Accounted
    <3> QED BY <1>0, <3>1, <3>3 DEF Accounted, Holding
  <2> QED BY <2>2, <2>3
<1> QED BY <1>1, <1>2, <1>3, EnvironmentFrame

\* A pass that holds a row for a slot it no longer matches holds none that is due.
LEMMA HeldIsMatched ==
    ASSUME SInv, NEW p \in Passes, Holding(p), NEW i \in bundle[p], Due(cur[p].c, i)
    PROVE  Matches(p)
<1> USE DEF SInv, CountInv, IInv
<1>1. i \in Interval(cur[p].c, cur[p].until, PassEnd(p))
  BY DEF ClaimInv, BundleInInterval
<1>2. rows[i].ts \in Nat /\ rows[i].ts <= PassEnd(p)
  BY <1>1, RowFields DEF Interval, TypeInv, TypeOK
<1>3. created[cur[p].c] \in Nat /\ created[cur[p].c] < rows[i].ts
  BY HandBounds DEF Due, TypeInv, TypeOK
<1>4. gen[cur[p].c] = cur[p].gen
  <2>1. PassEnd(p) \in Nat /\ dbNow[p] \in Nat /\ PassEnd(p) < dbNow[p]
    <3>1. dbNow[p] \in Nat
      BY DEF TypeInv, TypeOK
    <3> QED BY <3>1, HandBounds
  <2>2. created[cur[p].c] < dbNow[p]
    BY <1>2, <1>3, <2>1
  <2>3. gen[cur[p].c] # cur[p].gen => created[cur[p].c] >= dbNow[p]
    BY DEF Reconnected, InHand
  <2> QED BY <1>3, <2>1, <2>2, <2>3
<1> QED BY <1>4 DEF Matches, Due

LEMMA SkippedByPass ==
    ASSUME SInv, NEW p \in Passes, PassMoves(p), TypeInv' PROVE NothingSkipped'
<1> USE DEF SInv, CountInv, IInv
<1> SUFFICES ASSUME NEW c \in Channels, NEW i \in Written', Due(c, i)' PROVE Accounted(c, i)'
  BY DEF NothingSkipped, Due, Accounted
<1>0. /\ UNCHANGED <<clock, rows, gen, created>>
      /\ \A q \in Passes \ {p} : pc'[q] = pc[q] /\ cur'[q] = cur[q] /\ bundle'[q] = bundle[q]
  BY PassFrame
<1>a. i \in Written /\ For(c, i) /\ created[c] < rows[i].ts /\ rows[i].ts <= until'[c] /\ rows[i].ts \in Nat
  BY <1>0, RowFields DEF Due, For, Written, TypeInv, TypeOK
<1>b. live[c]
  BY DEF Due, PassMoves, PassStep, ReadPassStart, ListCandidates, CountPending, SkipEmpty, ClaimBundle,
         SendOk, SendNotOk, Prune, HandBack, EndPass, ReadFails, Abort, chanVars, TypeInv, TypeOK
<1>c. i \in RowIds
  <2>1. Len(rows) \in Nat /\ Len(rows) <= MaxRows /\ MaxRows \in Nat
    BY DispatchAssumption, LenProperties DEF TypeInv, TypeOK
  <2> QED BY <1>a, <2>1 DEF Written, RowIds
<1>d. Accounted(c, i) =>
        \/ sends[c][i] > 0
        \/ i \in passed[c] /\ rows[i].kind # "device"
        \/ i \in lost[c]
        \/ \E q \in Passes \ {p} : Holding(q)' /\ cur'[q].c = c /\ i \in bundle'[q]
        \/ Holding(p) /\ cur[p].c = c /\ i \in bundle[p]
  <2>1. ASSUME NEW q \in Passes, Holding(q), cur[q].c = c, i \in bundle[q], q # p
        PROVE  Holding(q)' /\ cur'[q].c = c /\ i \in bundle'[q]
    BY <1>0, <2>1 DEF Holding
  <2>2. ASSUME \E q \in Passes : Holding(q) /\ cur[q].c = c /\ i \in bundle[q]
        PROVE  \/ \E q \in Passes \ {p} : Holding(q)' /\ cur'[q].c = c /\ i \in bundle'[q]
               \/ Holding(p) /\ cur[p].c = c /\ i \in bundle[p]
    <3>1. PICK q \in Passes : Holding(q) /\ cur[q].c = c /\ i \in bundle[q]
      BY <2>2
    <3>2. CASE q = p
      BY <3>1, <3>2
    <3>3. CASE q # p
      <4>1. Holding(q)' /\ cur'[q].c = c /\ i \in bundle'[q]
        BY <2>1, <3>1, <3>3
      <4> QED BY <3>3, <4>1
    <3> QED BY <3>2, <3>3
  <2> DEFINE InHands == \E q \in Passes : Holding(q) /\ cur[q].c = c /\ i \in bundle[q]
  <2>3. Accounted(c, i) =>
          \/ sends[c][i] > 0
          \/ i \in passed[c] /\ rows[i].kind # "device"
          \/ i \in lost[c]
          \/ InHands
    BY Zenon DEF Accounted
  <2> QED BY <2>2, <2>3
<1>e. rows[i].ts <= until[c] => Accounted(c, i) /\ Due(c, i)
  BY <1>a, <1>b DEF NothingSkipped, Due, Accounted
<1>1. CASE until' = until /\ passed' = passed /\ ~SendOk(p) /\ ~(HandBack(p) /\ HandBackMatches(p))
  <2>1. sends' = sends
    BY <1>1 DEF PassMoves, PassStep, ReadPassStart, ListCandidates, CountPending, SkipEmpty, ClaimBundle,
                SendNotOk, Prune, HandBack, EndPass, ReadFails, Abort, histVars
  <2>2. Accounted(c, i) /\ Due(c, i)
    BY <1>1, <1>a, <1>e
  <2>3. lost[c] \subseteq lost'[c]
    <3>1. lost' = lost \/ Forfeit(p)
      BY DEF PassMoves, PassStep, ReadPassStart, ListCandidates, CountPending, SkipEmpty, ClaimBundle,
             SendOk, SendNotOk, Prune, HandBack, EndPass, ReadFails, Abort, histVars
    <3>2. lost \in [Channels -> SUBSET RowIds]
      BY DEF TypeInv, TypeOK
    <3> QED BY <3>1, <3>2 DEF Forfeit
  <2>4. CASE Holding(p) /\ cur[p].c = c /\ i \in bundle[p]
    <3>1. Matches(p)
      BY <2>2, <2>4, HeldIsMatched
    <3>2. CASE SendNotOk(p)
      BY <2>4, <3>2 DEF SendNotOk, Holding, Accounted, TypeInv, TypeOK
    <3>3. CASE Prune(p)
      BY <2>4, <3>1, <3>3 DEF Prune, Due, TypeInv, TypeOK
    <3>4. CASE HandBack(p) \/ Abort(p)
      <4>1. lost' = [lost EXCEPT ![c] = @ \cup bundle[p]]
        BY <1>1, <2>4, <3>1, <3>4 DEF HandBack, Abort, Forfeit
      <4>2. i \in lost'[c]
        BY <2>4, <4>1 DEF TypeInv, TypeOK
      <4> QED BY <4>2 DEF Accounted
    <3> QED BY <1>1, <2>4, <3>2, <3>3, <3>4
         DEF PassMoves, PassStep, ReadPassStart, ListCandidates, CountPending, SkipEmpty, ClaimBundle,
             EndPass, ReadFails, Holding, Idle
  <2> QED BY <1>0, <1>1, <1>d, <2>1, <2>2, <2>3, <2>4 DEF Accounted
<1>2. CASE SendOk(p)
  <2>1. /\ UNCHANGED <<until, passed, lost>> /\ Holding(p)
        /\ sends' = [sends EXCEPT ![cur[p].c] =
              [j \in RowIds |-> IF j \in bundle[p] THEN @[j] + 1 ELSE @[j]]]
    BY <1>2 DEF SendOk, Delivered, chanVars, Holding
  <2>2. sends[c][i] \in Nat /\ cur[p].c \in Channels
    BY <1>c, HandBounds DEF TypeInv, TypeOK
  <2>3. /\ sends'[c][i] >= sends[c][i]
        /\ c = cur[p].c /\ i \in bundle[p] => sends'[c][i] = sends[c][i] + 1
    <3>0. sends \in [Channels -> [RowIds -> Nat]]
      BY DEF TypeInv, TypeOK
    <3>1. sends'[c] = IF c = cur[p].c THEN [j \in RowIds |-> IF j \in bundle[p] THEN sends[c][j] + 1 ELSE sends[c][j]]
                      ELSE sends[c]
      BY <2>1, <2>2, <3>0
    <3> QED BY <1>c, <2>2, <3>1
  <2>4. Accounted(c, i)
    BY <1>a, <1>e, <2>1
  <2>5. sends[c][i] > 0 \/ (c = cur[p].c /\ i \in bundle[p]) => sends'[c][i] > 0
    <3>1. CASE c = cur[p].c /\ i \in bundle[p]
      BY <2>2, <2>3, <3>1
    <3>2. CASE sends[c][i] > 0
      <4> DEFINE n == sends[c][i]
                 m == sends'[c][i]
      <4>1. m \in Nat
        BY <1>c DEF TypeInv, TypeOK
      <4>2. n \in Nat /\ m >= n /\ n > 0
        BY <2>2, <2>3, <3>2
      <4> HIDE DEF n, m
      <4>3. m > 0
        BY <4>1, <4>2
      <4> QED BY <4>3 DEF m
    <3> QED BY <3>1, <3>2
  <2> QED BY <1>0, <1>d, <2>1, <2>4, <2>5 DEF Accounted
<1>3. CASE (SkipEmpty(p) \/ ClaimBundle(p)) /\ ClaimMatches(p) /\ ClaimCursor(p)
  <2>1. /\ UNCHANGED <<sends, lost>> /\ pc[p] = "counted" /\ ~Holding(p)
        /\ until[cur[p].c] = cur[p].until
        /\ until' = [until EXCEPT ![cur[p].c] = NextCursor(p)]
        /\ passed' = [passed EXCEPT ![cur[p].c] = @ \cup muted[p]]
    BY <1>3 DEF SkipEmpty, ClaimBundle, ClaimMatches, ClaimCursor, Holding
  <2>2. passed[c] \subseteq passed'[c] /\ (c = cur[p].c => muted[p] \subseteq passed'[c])
    BY <2>1 DEF TypeInv, TypeOK
  <2>3. CASE rows[i].ts <= until[c]
    BY <1>0, <1>d, <1>e, <2>1, <2>2, <2>3 DEF Accounted
  <2>4. CASE ~(rows[i].ts <= until[c])
    <3>1. c = cur[p].c /\ rows[i].ts <= NextCursor(p)
      BY <1>a, <2>1, <2>4 DEF TypeInv, TypeOK
    <3>2. /\ cur[p].until \in Nat /\ PassEnd(p) \in Nat
      BY HandBounds
    <3>3. cur[p].until < rows[i].ts /\ rows[i].ts <= PassEnd(p)
      BY <1>a, <2>1, <2>4, <3>1, <3>2 DEF NextCursor
    <3>4. i \in Interval(cur[p].c, cur[p].until, PassEnd(p))
      BY <1>a, <3>1, <3>3 DEF Interval
    <3>5. i \in bundle[p] \cup muted[p]
      BY <2>1, <3>4 DEF CountComplete
    <3>6. CASE i \in muted[p]
      <4>1. rows[i].kind # "device"
        BY <2>1, <3>6 DEF MutedInInterval, InHand
      <4> QED BY <1>0, <2>2, <3>1, <3>6, <4>1 DEF Accounted
    <3>7. CASE i \in bundle[p]
      <4>1. Holding(p)' /\ cur'[p] = cur[p] /\ bundle'[p] = bundle[p]
        BY <1>3, <3>7 DEF SkipEmpty, ClaimBundle, Holding, TypeInv, TypeOK
      <4> QED BY <3>1, <3>7, <4>1 DEF Accounted
    <3> QED BY <3>5, <3>6, <3>7
  <2> QED BY <2>3, <2>4
<1>4. CASE HandBack(p) /\ HandBackMatches(p)
  <2>1. /\ UNCHANGED <<sends, lost>> /\ Holding(p)
        /\ until[cur[p].c] = NextCursor(p)
        /\ until' = [until EXCEPT ![cur[p].c] = cur[p].until]
        /\ passed' = [passed EXCEPT ![cur[p].c] = @ \ muted[p]]
    BY <1>4 DEF HandBack, HandBackMatches, Holding
  <2>2. CASE c # cur[p].c
    <3>1. until'[c] = until[c] /\ passed'[c] = passed[c]
      BY <2>1, <2>2 DEF TypeInv, TypeOK
    <3> QED BY <1>0, <1>a, <1>d, <1>e, <2>1, <2>2, <3>1 DEF Accounted
  <2>3. CASE c = cur[p].c
    <3>1. until'[c] = cur[p].until /\ passed'[c] = passed[c] \ muted[p]
      BY <2>1, <2>3 DEF TypeInv, TypeOK
    <3>2. cur[p].until <= until[c] /\ cur[p].until \in Nat /\ until[c] \in Nat
      BY <2>1, <2>3, HandBounds DEF NextCursor
    <3>3. rows[i].ts <= cur[p].until
      BY <1>a, <3>1
    <3>4. Accounted(c, i)
      BY <1>a, <1>e, <3>2, <3>3
    <3>5. i \notin muted[p] /\ i \notin bundle[p]
      <4>1. /\ muted[p] \subseteq Interval(cur[p].c, cur[p].until, PassEnd(p))
            /\ bundle[p] \subseteq Interval(cur[p].c, cur[p].until, PassEnd(p))
        BY <2>1 DEF MutedInInterval, InHand, ClaimInv, BundleInInterval
      <4>2. i \notin Interval(cur[p].c, cur[p].until, PassEnd(p))
        BY <1>a, <3>2, <3>3 DEF Interval
      <4> QED BY <4>1, <4>2
    <3> QED BY <1>0, <1>d, <2>1, <3>1, <3>4, <3>5 DEF Accounted
  <2> QED BY <2>2, <2>3
<1> QED BY <1>1, <1>2, <1>3, <1>4, CursorMoves

LEMMA SInvInit == Init => SInv
<1> SUFFICES ASSUME Init PROVE SInv
  OBVIOUS
<1>1. IInv
  BY TypeInvInit, ClaimInvInit DEF IInv
<1>2. /\ \A p \in Passes : pc[p] = Idle /\ todo[p] = {} /\ ~InHand(p)
      /\ \A c \in Channels : until[c] = 0 /\ created[c] = 0 /\ ~live[c]
  BY DEF Init, InHand, Holding, Idle
<1>3. CursorBehind /\ CountComplete /\ MutedInInterval /\ Reconnected /\ NothingSkipped
  BY <1>2 DEF CursorBehind, CountComplete, MutedInInterval, Reconnected, NothingSkipped, InHand
<1> QED BY <1>1, <1>3 DEF SInv, CountInv

LEMMA SInvStep == SInv /\ [Next]_vars => SInv'
<1> SUFFICES ASSUME SInv, [Next]_vars PROVE SInv'
  OBVIOUS
<1>1. IInv' /\ TypeInv'
  BY IInvStep DEF SInv, IInv
<1>2. CountInv'
  BY <1>1, CursorBehindStep, CountStep, ReconnectedStep DEF CountInv
<1>3. NothingSkipped'
  <2>1. CASE UNCHANGED vars
    BY <2>1 DEF SInv, NothingSkipped, Holding, For, Written, vars, dbVars, chanVars, passVars, histVars
  <2> QED BY <1>1, <2>1, SkippedByEnvironment, SkippedByPass DEF Next, PassMoves
<1> QED BY <1>1, <1>2, <1>3 DEF SInv

\* Every row written after a channel was connected and at or below its cursor was
\* sent, was muted and is no device notice, is in the hands of a pass, or was given
\* up by a pass that could not return its claim: for any number of overlapping
\* passes, channels, reconnects, evictions and failed sends (dispatchChannels).
THEOREM NoneSkipped == Spec => []NothingSkipped
<1>1. SInv => NothingSkipped
  BY DEF SInv
<1> QED BY SInvInit, SInvStep, <1>1, PTL DEF Spec

-----------------------------------------------------------------------------
(* The abstract promise *)

\* A pass only ever names connections that were made.
SnapsOfConnections ==
    /\ \A c \in Channels : live[c] => gen[c] > 0
    /\ \A p \in Passes : /\ \A r \in todo[p] : r.gen \in 1..gen[r.c]
                         /\ InHand(p) => cur[p].gen \in 1..gen[cur[p].c]

LEMMA ConnectionInHand ==
    ASSUME TypeInv, SnapsOfConnections, NEW p \in Passes, InHand(p)
    PROVE  cur[p].c \in Channels /\ cur[p].gen \in 1..gen[cur[p].c] /\ gen[cur[p].c] \in Nat
  BY PassFields DEF SnapsOfConnections, TypeInv, TypeOK

\* A pass ends connections and never makes one.
LEMMA PassOnlyCloses ==
    ASSUME TypeInv, NEW p \in Passes, PassMoves(p)
    PROVE  \/ UNCHANGED live
           \/ Prune(p) /\ Matches(p) /\ live' = [live EXCEPT ![cur[p].c] = FALSE]
<1> USE DEF chanVars
<1>1. CASE Prune(p)
  BY <1>1 DEF Prune
<1>2. CASE ~Prune(p)
  BY <1>2 DEF PassMoves, PassStep, ReadPassStart, ListCandidates, CountPending, SkipEmpty, ClaimBundle,
     SendOk, SendNotOk, HandBack, EndPass, ReadFails, Abort
<1> QED BY <1>1, <1>2

LEMMA SnapsStep ==
    ASSUME IInv, SnapsOfConnections, [Next]_vars, TypeInv' PROVE SnapsOfConnections'
<1> USE DEF IInv
<1> DEFINE Made(r) == r.gen \in 1..gen[r.c]
           Snaps(p) == (\A r \in todo[p] : Made(r)) /\ (InHand(p) => Made(cur[p]))
<1>0. /\ \A c \in Channels : live[c] => gen[c] > 0
      /\ \A p \in Passes : Snaps(p)
      /\ \A p \in Passes : cur[p].c \in Channels /\ \A r \in todo[p] : r.c \in Channels
      /\ gen \in [Channels -> Nat] /\ live \in [Channels -> BOOLEAN]
  <2>1. ASSUME NEW p \in Passes PROVE cur[p].c \in Channels /\ \A r \in todo[p] : r.c \in Channels
    <3>1. cur[p] \in SnapType /\ todo[p] \subseteq SnapType
      BY DEF TypeInv, TypeOK
    <3> QED BY <3>1 DEF SnapType
  <2> QED BY <2>1 DEF SnapsOfConnections, TypeInv, TypeOK
<1>1. ASSUME UNCHANGED gen, \A c \in Channels : live'[c] => live[c], \A p \in Passes : Snaps(p)'
      PROVE  SnapsOfConnections'
  BY <1>0, <1>1 DEF SnapsOfConnections
<1>2. ASSUME UNCHANGED <<pc, cur, todo>>, UNCHANGED gen, \A c \in Channels : live'[c] => live[c]
      PROVE  SnapsOfConnections'
  <2>1. \A p \in Passes : Snaps(p)'
    BY <1>0, <1>2 DEF InHand, Holding
  <2> QED BY <1>1, <1>2, <2>1
<1>3. ASSUME NEW d \in Channels, AddChannel(d) PROVE SnapsOfConnections'
  <2>1. /\ UNCHANGED <<pc, cur, todo>>
        /\ gen' = [gen EXCEPT ![d] = @ + 1] /\ live' = [live EXCEPT ![d] = TRUE]
    BY <1>3 DEF AddChannel, passVars
  <2>2. /\ gen'[d] = gen[d] + 1 /\ gen[d] \in Nat
        /\ \A c \in Channels \ {d} : gen'[c] = gen[c] /\ live'[c] = live[c]
    BY <1>0, <2>1
  <2>3. ASSUME NEW r, r.c \in Channels, Made(r) PROVE r.gen \in 1..gen'[r.c]
    BY <1>0, <2>2, <2>3
  <2> HIDE DEF Made
  <2>4. \A p \in Passes : \A r \in todo[p] : r.gen \in 1..gen'[r.c]
    BY <1>0, <2>3
  <2>5. \A p \in Passes : InHand(p)' => cur[p].gen \in 1..gen'[cur[p].c]
    <3>1. \A p \in Passes : InHand(p)' <=> InHand(p)
      BY <2>1 DEF InHand, Holding
    <3> QED BY <1>0, <2>3, <3>1
  <2>6. \A c \in Channels : live'[c] => gen'[c] > 0
    BY <1>0, <2>2
  <2> QED BY <2>1, <2>4, <2>5, <2>6 DEF SnapsOfConnections
<1>4. CASE Environment
  <2>1. UNCHANGED <<pc, cur, todo>>
    BY <1>4, EnvironmentFrame
  <2>2. \/ UNCHANGED gen /\ \A c \in Channels : live'[c] => live[c]
        \/ \E d \in Channels : AddChannel(d)
    BY <1>4, EnvironmentFrame
  <2> QED BY <1>2, <1>3, <2>1, <2>2
<1>5. CASE UNCHANGED vars
  BY <1>2, <1>5 DEF vars, passVars, chanVars
<1>6. ASSUME NEW p \in Passes, PassMoves(p) PROVE SnapsOfConnections'
  <2>1. UNCHANGED gen /\ \A q \in Passes \ {p} : pc'[q] = pc[q] /\ cur'[q] = cur[q] /\ todo'[q] = todo[q]
    BY <1>6, PassFrame
  <2>2. \A c \in Channels : live'[c] => live[c]
    BY <1>0, <1>6, PassOnlyCloses
  <2>3. \A q \in Passes \ {p} : Snaps(q)'
    BY <1>0, <2>1 DEF InHand, Holding
  <2>4. Snaps(p)'
    <3>1. CASE ListCandidates(p)
      <4>1. PICK S \in SUBSET Candidates(p) : todo' = [todo EXCEPT ![p] = S]
        BY <3>1 DEF ListCandidates
      <4>2. todo'[p] = S
        BY <4>1 DEF TypeInv, TypeOK
      <4>3. \A r \in S : Made(r)
        BY <1>0 DEF Candidates, Snap
      <4>4. ~InHand(p)'
        BY <3>1 DEF ListCandidates, InHand, Holding, TypeInv, TypeOK
      <4> QED BY <2>1, <4>2, <4>3, <4>4
    <3>2. CASE CountPending(p)
      <4>1. PICK r \in todo[p] : todo' = [todo EXCEPT ![p] = @ \ {r}] /\ cur' = [cur EXCEPT ![p] = r]
        BY <3>2 DEF CountPending
      <4>2. todo'[p] \subseteq todo[p] /\ cur'[p] = r
        BY <4>1 DEF TypeInv, TypeOK
      <4> QED BY <1>0, <2>1, <4>2
    <3>3. CASE ~ListCandidates(p) /\ ~CountPending(p)
      <4>1. (InHand(p)' => InHand(p) /\ cur'[p] = cur[p]) /\ todo'[p] \subseteq todo[p]
        BY <1>6, <3>3, HandFrame
      <4> QED BY <1>0, <2>1, <4>1
    <3> QED BY <3>1, <3>2, <3>3
  <2> QED BY <1>1, <2>1, <2>2, <2>3, <2>4
<1> QED BY <1>4, <1>5, <1>6 DEF Next, PassMoves

\* Only a refusal, and what is made of it, changes what the transport called gone.
LEMMA QuietPassKeepsGone ==
    ASSUME TypeInv, NEW p \in Passes, PassMoves(p), pc[p] # "dead", pc'[p] # "dead"
    PROVE  UNCHANGED GoneConnections
<1>1. \A q \in Passes \ {p} : pc'[q] = pc[q] /\ cur'[q] = cur[q]
  BY PassFrame
<1> QED BY <1>1 DEF GoneConnections

AudienceOf(i) == {c \in Channels : rows[i].kind = "gov" \/ rows[i].to = Owner[c]}

\* Writing a row posts it to the channels it concerns.
LEMMA WriteIsPost ==
    ASSUME IInv, NEW kind \in Kinds, NEW u \in Users, WriteRow(kind, u)
    PROVE  Delivery!Post
<1> DEFINE aud == [i \in Written |-> AudienceOf(i)]
<1> DEFINE r == [kind |-> kind, to |-> u, ts |-> clock]
<1> DEFINE A == {c \in Channels : r.kind = "gov" \/ r.to = Owner[c]}
<1>1. r \in RowType /\ rows \in Seq(RowType) /\ rows' = Append(rows, r)
  BY DEF WriteRow, DbNow, RowType, IInv, TypeInv, TypeOK
<1>2. /\ Len(rows) \in Nat /\ Len(rows') = Len(rows) + 1
      /\ \A i \in 1..Len(rows) : rows'[i] = rows[i]
      /\ rows'[Len(rows) + 1] = r
  <2> HIDE DEF r
  <2> QED BY <1>1, AppendProperties, LenProperties
<1>3. A \in SUBSET Channels
  OBVIOUS
<1>4. aud \in Seq(SUBSET Channels) /\ Len(aud) = Len(rows)
  BY <1>2, IsASeq, LenProperties DEF Written, AudienceOf
<1>5. Append(aud, A) = [i \in 1..(Len(rows) + 1) |-> IF i = Len(rows) + 1 THEN A ELSE aud[i]]
  BY <1>2, <1>3, <1>4
<1>6. [i \in Written |-> AudienceOf(i)]' = [i \in 1..(Len(rows) + 1) |-> IF i = Len(rows) + 1 THEN A ELSE aud[i]]
  BY <1>2 DEF Written, AudienceOf, For
<1>7. UNCHANGED <<sends, live, gen, GoneConnections>>
  BY DEF WriteRow, histVars, chanVars, passVars, GoneConnections
<1> QED BY <1>3, <1>5, <1>6, <1>7 DEF Delivery!Post, AudienceOf

\* A confirmed send is a delivery of rows the channel never received.
LEMMA SendIsDeliver ==
    ASSUME IInv, SnapsOfConnections, NEW p \in Passes, SendOk(p)
    PROVE  Delivery!Deliver(cur[p].c, bundle[p]) /\ cur[p].c \in Channels /\ bundle[p] \in SUBSET RowIds
<1> DEFINE c == cur[p].c
<1>1. /\ Holding(p) /\ rows' = rows
      /\ sends' = [sends EXCEPT ![c] = [i \in RowIds |-> IF i \in bundle[p] THEN @[i] + 1 ELSE @[i]]]
  BY DEF SendOk, Delivered, Holding, dbVars
<1>2. c \in Channels /\ bundle[p] \in SUBSET RowIds
  BY PassFields DEF IInv, TypeInv, TypeOK
<1>3. ASSUME NEW i \in bundle[p]
      PROVE  i \in Written /\ For(c, i) /\ sends[c][i] = 0
  <2>1. i \in Written /\ For(c, i) /\ cur[p].until < rows[i].ts /\ rows[i].ts <= PassEnd(p)
    BY <1>1 DEF Interval, IInv, ClaimInv, BundleInInterval
  <2>2. rows[i].ts \in Nat
    BY <2>1, RowFields DEF IInv, TypeInv, TypeOK
  <2>3. ~(sends[c][i] > 0)
    BY <1>1, <1>2, <2>1, <2>2, PassFields DEF IInv, ClaimInv, SentSettled
  <2> QED BY <1>2, <2>1, <2>3 DEF IInv, TypeInv, TypeOK
<1>4. [i \in RowIds |-> IF i \in bundle[p] THEN sends[c][i] + 1 ELSE sends[c][i]]
        = [i \in RowIds |-> IF i \in bundle[p] THEN 1 ELSE sends[c][i]]
  BY <1>3
<1>5. sends' = [sends EXCEPT ![c] = [i \in RowIds |-> IF i \in bundle[p] THEN 1 ELSE @[i]]]
  BY <1>1, <1>4
<1>6. [i \in Written |-> AudienceOf(i)]' = [i \in Written |-> AudienceOf(i)]
  BY <1>1 DEF Written, AudienceOf
<1>7. UNCHANGED <<live, gen>> /\ gen[c] > 0
  <2>1. cur[p].gen \in 1..gen[c] /\ gen[c] \in Nat
    BY <1>1, ConnectionInHand DEF InHand, IInv
  <2> QED BY <2>1 DEF SendOk, chanVars
<1>8. UNCHANGED GoneConnections
  <2>1. pc[p] # "dead" /\ pc'[p] # "dead"
    BY DEF SendOk, NextCandidate, IInv, TypeInv, TypeOK
  <2> QED BY <2>1, QuietPassKeepsGone DEF IInv, PassMoves, PassStep
<1> QED BY <1>2, <1>3, <1>5, <1>6, <1>7, <1>8 DEF Delivery!Deliver, AudienceOf, For

\* A send that finds the connection gone is a refusal of that connection.
LEMMA SendGoneIsRefuse ==
    ASSUME IInv, SnapsOfConnections, NEW p \in Passes, SendNotOk(p), pc'[p] = "dead"
    PROVE  Delivery!Refuse(cur[p].c, cur[p].gen) /\ cur[p].gen \in 1..gen[cur[p].c]
<1>1. /\ UNCHANGED <<rows, sends, live, gen, cur>> /\ pc' = [pc EXCEPT ![p] = "dead"]
      /\ pc[p] = "claimed" /\ InHand(p)
  BY DEF SendNotOk, dbVars, histVars, chanVars, InHand, Holding, IInv, TypeInv, TypeOK
<1>2. cur[p].gen \in 1..gen[cur[p].c]
  BY <1>1, ConnectionInHand DEF IInv
<1>3. {q \in Passes : pc'[q] = "dead"} = {q \in Passes : pc[q] = "dead"} \cup {p}
  BY <1>1 DEF IInv, TypeInv, TypeOK
<1>4. GoneConnections' = GoneConnections \cup {<<cur[p].c, cur[p].gen>>}
  BY <1>1, <1>3 DEF GoneConnections
<1>5. UNCHANGED [i \in Written |-> AudienceOf(i)]
  BY <1>1 DEF Written, AudienceOf
<1> QED BY <1>1, <1>2, <1>4, <1>5 DEF Delivery!Refuse, AudienceOf

\* A pass that leaves a dead channel, pruned or not, settles that refusal.
LEMMA LeaveDeadIsSettle ==
    ASSUME IInv, SnapsOfConnections, NEW p \in Passes, Prune(p) \/ Abort(p), pc[p] = "dead"
    PROVE  Delivery!Settle(cur[p].c, cur[p].gen)
<1> DEFINE e == <<cur[p].c, cur[p].gen>>
<1>1. PassMoves(p)
  BY DEF PassMoves, PassStep
<1>2. UNCHANGED <<rows, sends, gen>> /\ pc'[p] # "dead"
  BY DEF Prune, Abort, NextCandidate, dbVars, chanVars, histVars, Idle, IInv, TypeInv, TypeOK
<1>3. \A q \in Passes \ {p} : pc'[q] = pc[q] /\ cur'[q] = cur[q]
  BY <1>1, PassFrame DEF IInv
<1>4. e \in GoneConnections
  BY DEF GoneConnections
<1>5. GoneConnections' \in {GoneConnections, GoneConnections \ {e}}
  <2> DEFINE others == {<<cur[q].c, cur[q].gen>> : q \in {x \in Passes \ {p} : pc[x] = "dead"}}
  <2>1. GoneConnections = others \cup {e}
    BY DEF GoneConnections
  <2>2. GoneConnections' = others
    BY <1>2, <1>3 DEF GoneConnections
  <2> QED BY <2>1, <2>2
<1>6. \/ UNCHANGED live
      \/ gen[cur[p].c] = cur[p].gen /\ live' = [live EXCEPT ![cur[p].c] = FALSE]
  BY <1>1, PassOnlyCloses DEF Matches, IInv
<1>7. UNCHANGED [i \in Written |-> AudienceOf(i)]
  BY <1>2 DEF Written, AudienceOf
<1> QED BY <1>2, <1>4, <1>5, <1>6, <1>7 DEF Delivery!Settle, AudienceOf

\* Connecting and removing a channel are the abstract ones.
LEMMA UserIsUser ==
    ASSUME IInv, NEW c \in Channels, AddChannel(c) \/ RemoveChannel(c)
    PROVE  Delivery!Connect(c) \/ Delivery!Leave(c)
<1>1. UNCHANGED <<rows, sends, pc, cur>>
  BY DEF AddChannel, RemoveChannel, dbVars, passVars, histVars
<1>2. UNCHANGED [i \in Written |-> AudienceOf(i)] /\ UNCHANGED GoneConnections
  BY <1>1 DEF Written, AudienceOf, GoneConnections
<1> QED BY <1>1, <1>2 DEF AddChannel, RemoveChannel, Delivery!Connect, Delivery!Leave, AudienceOf

\* The dispatcher implements ChannelDelivery: whatever passes overlap, fail or
\* are evicted, and however often a channel is removed and connected again, a
\* channel receives a row at most once and only if it is for it, and a pass ends
\* no connection but the one the transport refused (deliver, deleteChannelById).
THEOREM DispatchImplementsDelivery == Spec => Promise
<1>1. Init => Delivery!Init /\ SnapsOfConnections
  <2> SUFFICES ASSUME Init PROVE Delivery!Init /\ SnapsOfConnections
    OBVIOUS
  <2>1. [i \in Written |-> AudienceOf(i)] = << >> /\ GoneConnections = {}
    BY DEF Init, Written, GoneConnections, Idle
  <2>2. SnapsOfConnections
    BY DEF Init, SnapsOfConnections, InHand, Holding, Idle
  <2> QED BY <2>1, <2>2 DEF Init, Delivery!Init, AudienceOf
<1>2. IInv /\ SnapsOfConnections /\ [Next]_vars => [Delivery!Next]_Delivery!vars
  <2> SUFFICES ASSUME IInv, SnapsOfConnections, [Next]_vars
               PROVE  Delivery!Next \/ UNCHANGED Delivery!vars
    OBVIOUS
  <2>1. CASE \E kind \in Kinds, u \in Users : WriteRow(kind, u)
    BY <2>1, WriteIsPost DEF Delivery!Next
  <2>2. CASE \E c \in Channels : AddChannel(c) \/ RemoveChannel(c)
    BY <2>2, UserIsUser DEF Delivery!Next
  <2>3. CASE UNCHANGED <<rows, sends, live, gen>> /\ UNCHANGED GoneConnections
    BY <2>3 DEF Delivery!vars, Written
  <2>4. CASE Tick \/ (\E i \in Written : DeleteThread(i)) \/ (\E u \in Users : SetPref(u))
    BY <2>3, <2>4 DEF Tick, DeleteThread, SetPref, chanVars, passVars, histVars, GoneConnections
  <2>5. ASSUME NEW p \in Passes, PassMoves(p) PROVE Delivery!Next \/ UNCHANGED Delivery!vars
    <3>1. CASE SendOk(p)
      BY <3>1, SendIsDeliver DEF Delivery!Next
    <3>2. CASE SendNotOk(p) /\ pc'[p] = "dead"
      BY <3>2, SendGoneIsRefuse, ConnectionInHand DEF Delivery!Next, SendNotOk, InHand, Holding, IInv
    <3>3. CASE (Prune(p) \/ Abort(p)) /\ pc[p] = "dead"
      BY <3>3, LeaveDeadIsSettle, ConnectionInHand DEF Delivery!Next, InHand, Holding, IInv
    <3>4. CASE ~SendOk(p) /\ ~(SendNotOk(p) /\ pc'[p] = "dead") /\ ~((Prune(p) \/ Abort(p)) /\ pc[p] = "dead")
      <4>1. UNCHANGED <<rows, sends, gen>> /\ pc[p] # "dead" /\ pc'[p] # "dead"
        BY <2>5, <3>4 DEF PassMoves, PassStep, ReadPassStart, ListCandidates, CountPending, SkipEmpty, ClaimBundle,
           NextCandidate, SendNotOk, Prune, HandBack, EndPass, ReadFails, Abort, Idle,
           dbVars, chanVars, histVars, IInv, TypeInv, TypeOK
      <4>2. UNCHANGED live
        BY <2>5, <4>1, PassOnlyCloses DEF Prune, IInv
      <4>3. UNCHANGED GoneConnections
        BY <2>5, <4>1, QuietPassKeepsGone DEF IInv
      <4> QED BY <2>3, <4>1, <4>2, <4>3
    <3> QED BY <3>1, <3>2, <3>3, <3>4
  <2>6. CASE UNCHANGED vars
    BY <2>3, <2>6 DEF vars, dbVars, chanVars, passVars, histVars, GoneConnections
  <2> QED BY <2>1, <2>2, <2>4, <2>5, <2>6 DEF Next, Environment, PassMoves
<1>3. IInv /\ SnapsOfConnections /\ [Next]_vars => SnapsOfConnections'
  BY IInvStep, SnapsStep DEF IInv
<1> QED BY <1>1, <1>2, <1>3, IInvAlways, PTL DEF Spec, Promise, Delivery!Spec
=============================================================================

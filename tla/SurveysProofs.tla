---------------------------- MODULE SurveysProofs ----------------------------
(***************************************************************************)
(* Proofs about Surveys, for any surveys, overlapping runs, page sizes and *)
(* faults.  The rows reflect the "as of" line because every cursor, stored *)
(* or in the memory of a run, is caught up: what changed up to it was      *)
(* applied.  A page hands that on from its start to its end.  A tally      *)
(* stands beside the artifact it describes because whatever parts them     *)
(* leaves a purge ahead of a run.  And the work of a survey that a cursor  *)
(* passed is queued, or done: for that at most two runs may overlap.       *)
(***************************************************************************)
EXTENDS Surveys, FiniteSetTheorems, WellFoundedInduction, TLAPS

\* Everything whose last change is at or before c was applied.
Caught(c, u, ap) == \A s \in Refs : u[s].gen <= c => ap[s] = u[s].gen

\* A page says of a survey what the backend says, unless that changed since.
Truthful(A, u) ==
    /\ \A a \in A : /\ 0 < a.ver /\ a.ver <= u[a.ref].gen
                    /\ a.ver = u[a.ref].gen => a.listed = u[a.ref].listed /\ a.hash = u[a.ref].hash
    /\ \A a, b \in A : a.ref = b.ref => a = b

\* A page holds what changed between the cursor it was asked with and its end.
Covers(page, c, u) ==
    \A s \in Refs : u[s].gen <= page.next => u[s].gen <= c \/ \E a \in page.rows : a.ref = s /\ a.ver = u[s].gen

Landed(A, ap) == \A a \in A : a.ver <= ap[a.ref]

Delivering == {"facts", "withdraw", "upsert", "purge", "enqueue"}
Working == {"mark", "read", "bundle", "store", "dequeue"}

\* What a run knows is true of the backend and of what was applied.
Sound(r, n, u, ap) ==
    /\ r.cursor <= n /\ r.asOf <= n /\ r.page.next <= n /\ r.page.at <= n
    /\ Caught(r.cursor, u, ap) /\ Caught(r.asOf, u, ap)
    /\ Truthful(r.page.rows, u)
    /\ r.page.short => r.page.at <= r.page.next
    /\ r.pc \in Delivering => Covers(r.page, r.cursor, u)
    /\ r.pc \in {"upsert", "purge", "enqueue"} => Landed(Gone(r.page), ap)
    /\ r.pc \in {"purge", "enqueue"} => Landed(Kept(r.page), ap)

\* A run is where its memory says it is.
Formed(r) ==
    /\ r.pc = "fetch" => r.pages < MaxPages
    /\ r.pc \in Working => r.work # <<>>

Backend ==
    /\ \A s \in Refs : up[s].gen <= gen /\ applied[s] <= up[s].gen
    /\ \A s \in Refs : up[s].gen = 0 => ~up[s].listed
    /\ sync.cursor <= gen /\ sync.asOf <= gen
    /\ Caught(sync.cursor, up, applied) /\ Caught(sync.asOf, up, applied)

Rows ==
    /\ \A s \in Refs : ~Stored(s) => row[s] = NoSurvey
    /\ \A s \in Refs \ crossed : applied[s] = up[s].gen => Mirrored(s)
    /\ OneThread /\ FinalCountNamed

RunsInv == \A g \in Runs : Sound(run[g], gen, up, applied) /\ Formed(run[g])

IInv == TypeOK /\ Backend /\ Rows /\ RunsInv

-----------------------------------------------------------------------------
(* What a page of the delta holds.                                         *)

Less == {p \in Nat \X Nat : p[1] < p[2]}

\* The order of the naturals, as a set of pairs, is well founded.
LEMMA LessWellFounded == IsWellFoundedOn(Less, Nat)
<1>1. OpToRel(<, Nat) = Less
  BY Zenon DEF OpToRel, Less
<1> QED BY Zenon, <1>1, NatLessThanWellFounded

\* A nonempty set of naturals has a least element.
LEMMA LeastNat ==
    ASSUME NEW S \in SUBSET Nat, S # {}
    PROVE  \E n \in S : \A m \in S : n <= m
<1>1. \A m, n \in Nat : <<m, n>> \in Less <=> m < n
  BY DEF Less
<1>2. PICK n \in S : \A m \in S : ~ (<<m, n>> \in Less)
  BY LessWellFounded, WFMin
<1>3. \A m \in S : ~ (m < n)
  BY <1>1, <1>2
<1>4. \A m \in S : n <= m
  BY <1>3
<1> QED BY <1>4

\* A nonempty bounded set of naturals has a greatest element.
LEMMA GreatestNat ==
    ASSUME NEW S \in SUBSET Nat, S # {}, NEW b \in Nat, \A n \in S : n <= b
    PROVE  \E n \in S : \A m \in S : m <= n
<1> DEFINE D == {b - n : n \in S}
<1>1. \A n \in S : b - n \in Nat
  OBVIOUS
<1>2. D \in SUBSET Nat /\ D # {}
  BY <1>1
<1>3. PICK d \in D : \A e \in D : d <= e
  BY <1>2, LeastNat
<1>4. PICK n \in S : d = b - n
  BY <1>3
<1>5. \A m \in S : b - n <= b - m
  BY <1>3, <1>4
<1>6. \A m \in S : m <= n
  BY <1>5
<1> QED BY <1>6

\* A page of the delta is true, and holds everything between its cursor and its end.
LEMMA AnswerCovers ==
    ASSUME TypeOK, Backend, NEW c \in Version, NEW p, p = Answer(c)
    PROVE  /\ p \in Page /\ p.next <= gen /\ p.at <= gen
           /\ p.short => p.at <= p.next
           /\ Truthful(p.rows, up) /\ Covers(p, c, up)
<1> DEFINE moved == {s \in Refs : up[s].gen > c}
           Before(s) == {t \in moved : up[t].gen < up[s].gen}
           first == {s \in moved : Cardinality(Before(s)) < PageLimit}
           short == Cardinality(first) < PageLimit
           gens == {up[s].gen : s \in first}
           last == CHOOSE n \in gens : \A s \in first : up[s].gen <= n
           next == IF short THEN gen ELSE last
           rows == {[ref |-> s, ver |-> up[s].gen, listed |-> up[s].listed, hash |-> up[s].hash] : s \in first}
<1>1. p = [rows |-> rows, next |-> next, at |-> gen, short |-> short]
  BY DEF Answer
<1>2. /\ gen \in Version /\ Version \subseteq Nat /\ PageLimit \in Nat \ {0} /\ c \in Nat
      /\ \A s \in Refs : /\ up[s].gen \in Version /\ up[s].listed \in BOOLEAN /\ up[s].hash \in Version
                         /\ up[s].gen <= gen /\ up[s].gen \in Nat
      /\ gen \in Nat
  BY SurveysAssumption DEF SurveysAssumption, TypeOK, Backend, Version
<1>3. IsFiniteSet(moved) /\ IsFiniteSet(first) /\ \A s \in moved : IsFiniteSet(Before(s))
  <2>1. IsFiniteSet(Refs)
    BY SurveysAssumption DEF SurveysAssumption
  <2>2. moved \in SUBSET Refs /\ first \in SUBSET Refs /\ \A s \in moved : Before(s) \in SUBSET Refs
    OBVIOUS
  <2> QED BY <2>1, <2>2, FS_Subset
<1>4. Cardinality(first) \in Nat /\ \A s \in moved : Cardinality(Before(s)) \in Nat
  BY <1>3, FS_CardinalityType
<1>5. short => first = moved
  <2>1. SUFFICES ASSUME short, NEW s \in moved, s \notin first
                 PROVE  FALSE
    OBVIOUS
  <2> DEFINE late == {up[t].gen : t \in moved \ first}
  <2>2. late \in SUBSET Nat /\ late # {}
    BY <1>2, <2>1
  <2>3. PICK n \in late : \A m \in late : n <= m
    BY <2>2, LeastNat
  <2>4. PICK t \in moved \ first : up[t].gen = n
    BY <2>3
  <2>5. \A q \in Before(t) : q \in first
    <3>1. SUFFICES ASSUME NEW q \in Before(t), q \notin first PROVE FALSE
      OBVIOUS
    <3>2. q \in moved \ first /\ up[q].gen < n
      BY <2>4, <3>1
    <3>3. up[q].gen \in Nat /\ n \in Nat
      BY <1>2, <2>4, <3>2
    <3>4. n <= up[q].gen
      BY <2>3, <3>2
    <3> QED BY <3>2, <3>3, <3>4
  <2>6. Cardinality(Before(t)) <= Cardinality(first)
    BY <1>3, <2>5, FS_Subset
  <2>7. ~ (Cardinality(Before(t)) < PageLimit)
    BY <2>4
  <2> QED BY <1>2, <1>4, <2>1, <2>4, <2>6, <2>7
<1>6. ~short => /\ last \in gens /\ \A s \in first : up[s].gen <= last
  <2>1. SUFFICES ASSUME ~short PROVE \E n \in gens : \A s \in first : up[s].gen <= n
    OBVIOUS
  <2>2. first # {}
    <3>1. SUFFICES ASSUME first = {} PROVE FALSE
      OBVIOUS
    <3>2. Cardinality(first) = 0
      BY <3>1, FS_EmptySet
    <3> QED BY <1>2, <2>1, <3>2
  <2>3. gens \in SUBSET Nat /\ gens # {} /\ \A n \in gens : n <= gen
    BY <1>2, <2>2
  <2>4. PICK n \in gens : \A m \in gens : m <= n
    <3>1. gen \in Nat
      BY <1>2
    <3> QED BY <2>3, <3>1, GreatestNat
  <2> QED BY <2>4
<1>7. ~short => \A s \in moved : up[s].gen <= last => s \in first
  <2>1. SUFFICES ASSUME ~short, NEW s \in moved, up[s].gen <= last PROVE s \in first
    OBVIOUS
  <2>2. PICK t \in first : up[t].gen = last
    BY <1>6, <2>1
  <2>3. Before(s) \in SUBSET Before(t)
    <3>1. up[s].gen <= up[t].gen /\ up[s].gen \in Nat /\ up[t].gen \in Nat
      BY <1>2, <2>1, <2>2
    <3>2. \A q \in moved : up[q].gen < up[s].gen => up[q].gen < up[t].gen
      <4>1. SUFFICES ASSUME NEW q \in moved, up[q].gen < up[s].gen PROVE up[q].gen < up[t].gen
        OBVIOUS
      <4>2. up[q].gen \in Nat
        BY <1>2
      <4> QED BY <3>1, <4>1, <4>2
    <3> QED BY <3>2
  <2>4. Cardinality(Before(s)) <= Cardinality(Before(t))
    BY <1>3, <2>2, <2>3, FS_Subset
  <2>5. /\ Cardinality(Before(t)) < PageLimit /\ Cardinality(Before(t)) \in Nat
        /\ Cardinality(Before(s)) \in Nat /\ PageLimit \in Nat
    BY <1>2, <1>4, <2>2
  <2>6. Cardinality(Before(s)) < PageLimit
    BY <2>4, <2>5
  <2> QED BY <2>6
<1>8. next \in Version /\ next <= gen
  <2>1. CASE short
    BY <1>2, <2>1 DEF Version
  <2>2. CASE ~short
    BY <1>2, <1>6, <2>2 DEF Version
  <2> QED BY <2>1, <2>2
<1> HIDE DEF next, short
<1> HIDE DEF first
<1>9. rows \in SUBSET Item
  <2>1. \A s \in first : s \in Refs
    BY DEF first
  <2> QED BY <1>2, <2>1 DEF Item
<1>10. short \in BOOLEAN
  BY DEF short
<1> HIDE DEF rows
<1>11. p \in Page
  BY <1>1, <1>2, <1>8, <1>9, <1>10 DEF Page
<1>12. p.next <= gen /\ p.at <= gen /\ (p.short => p.at <= p.next)
  <2>1. p.next = next /\ p.at = gen /\ p.short = short
    BY <1>1
  <2>2. short => next = gen
    BY DEF next
  <2> QED BY <1>2, <1>8, <2>1, <2>2 DEF Version
<1>13. Truthful(p.rows, up)
  <2>1. \A s \in first : s \in Refs /\ 0 < up[s].gen /\ up[s].gen <= up[s].gen
    <3>1. \A s \in first : s \in Refs /\ up[s].gen > c
      BY DEF first
    <3> QED BY <1>2, <3>1
  <2>2. p.rows = rows
    BY <1>1
  <2> QED BY <2>1, <2>2 DEF Truthful, rows
<1>14. Covers(p, c, up)
  <2>0. /\ p.next = next
        /\ \A s \in first : \E a \in p.rows : a.ref = s /\ a.ver = up[s].gen
    <3>1. \A s \in first : \E a \in rows : a.ref = s /\ a.ver = up[s].gen
      <4>1. SUFFICES ASSUME NEW s \in first PROVE \E a \in rows : a.ref = s /\ a.ver = up[s].gen
        OBVIOUS
      <4> DEFINE a == [ref |-> s, ver |-> up[s].gen, listed |-> up[s].listed, hash |-> up[s].hash]
      <4>2. a \in rows /\ a.ref = s /\ a.ver = up[s].gen
        BY <4>1 DEF rows
      <4> QED BY <4>2
    <3> QED BY <1>1, <3>1
  <2>1. SUFFICES ASSUME NEW s \in Refs, up[s].gen <= next, ~ (up[s].gen <= c)
                 PROVE  s \in first
    BY <2>0 DEF Covers
  <2>2. s \in moved
    BY <1>2, <2>1 DEF moved
  <2>3. CASE short
    BY <1>5, <2>2, <2>3
  <2>4. CASE ~short
    <3>1. next = last
      BY <2>4 DEF next
    <3> QED BY <1>7, <2>1, <2>2, <2>4, <3>1
  <2> QED BY <2>3, <2>4
<1> QED BY <1>11, <1>12, <1>13, <1>14

-----------------------------------------------------------------------------
(* What a run knows, from one stage to the next.                           *)

\* What Sound says wherever the run is, and that its page continues its cursor.
Holding(r, n, u, ap) ==
    /\ r.cursor <= n /\ r.asOf <= n /\ r.page.next <= n /\ r.page.at <= n
    /\ Caught(r.cursor, u, ap) /\ Caught(r.asOf, u, ap)
    /\ Truthful(r.page.rows, u)
    /\ r.page.short => r.page.at <= r.page.next
    /\ Covers(r.page, r.cursor, u)

Survey == [gen : Version, listed : BOOLEAN, hash : Version]

\* A cursor may move to the end of a page whose surveys were all applied.
LEMMA CaughtNext ==
    ASSUME NEW u \in [Refs -> Survey], NEW ap \in [Refs -> Version], \A s \in Refs : ap[s] <= u[s].gen,
           NEW page \in Page, NEW c \in Version,
           Caught(c, u, ap), Covers(page, c, u), Landed(page.rows, ap)
    PROVE  Caught(page.next, u, ap)
<1>1. SUFFICES ASSUME NEW s \in Refs, u[s].gen <= page.next PROVE ap[s] = u[s].gen
  BY DEF Caught
<1>2. CASE u[s].gen <= c
  BY <1>2 DEF Caught
<1>3. CASE \E a \in page.rows : a.ref = s /\ a.ver = u[s].gen
  <2>1. PICK a \in page.rows : a.ref = s /\ a.ver = u[s].gen
    BY <1>3
  <2>2. u[s].gen <= ap[s]
    BY <2>1 DEF Landed
  <2>3. ap[s] \in Nat /\ u[s].gen \in Nat /\ ap[s] <= u[s].gen
    BY SurveysAssumption DEF SurveysAssumption, Survey, Version
  <2> QED BY <2>2, <2>3
<1> QED BY <1>1, <1>2, <1>3 DEF Covers

LEMMA CaughtBelow ==
    ASSUME NEW u \in [Refs -> Survey], NEW ap, NEW c \in Version, NEW d \in Version, d <= c, Caught(c, u, ap)
    PROVE  Caught(d, u, ap)
<1>1. \A s \in Refs : u[s].gen \in Nat
  BY SurveysAssumption DEF SurveysAssumption, Survey, Version
<1>2. c \in Nat /\ d \in Nat
  BY SurveysAssumption DEF SurveysAssumption, Version
<1>3. SUFFICES ASSUME NEW s \in Refs, u[s].gen <= d PROVE ap[s] = u[s].gen
  BY DEF Caught
<1>4. u[s].gen <= c
  BY <1>1, <1>2, <1>3
<1> QED BY <1>4 DEF Caught

LEMMA AppliedSound ==
    ASSUME NEW u \in [Refs -> Survey], NEW ap \in [Refs -> Version], \A s \in Refs : ap[s] <= u[s].gen, NEW n \in Version,
           NEW r \in Run, Holding(r, n, u, ap), Landed(r.page.rows, ap)
    PROVE  Applied(r) \in Run /\ Sound(Applied(r), n, u, ap) /\ Formed(Applied(r))
<1> DEFINE asOf == IF Advances(r) THEN r.page.at ELSE r.asOf
           pc == IF r.page.short \/ r.pages = MaxPages THEN "put" ELSE "fetch"
           q == Applied(r)
<1>1. q = [r EXCEPT !.cursor = r.page.next, !.asOf = asOf, !.pc = pc, !.page = NoPage, !.drop = {}]
  BY DEF Applied
<1>2. /\ r.page \in Page /\ r.cursor \in Version /\ r.asOf \in Version /\ r.pages \in 0..MaxPages
      /\ r.page.next \in Version /\ r.page.at \in Version /\ r.page.short \in BOOLEAN
  BY DEF Run, Page
<1>3. asOf \in Version /\ pc \in Stage /\ pc \in {"put", "fetch"}
  <2>1. asOf \in Version
    BY <1>2
  <2>2. pc \in {"put", "fetch"}
    OBVIOUS
  <2>3. {"put", "fetch"} \subseteq Stage
    BY DEF Stage
  <2> HIDE DEF pc
  <2> QED BY <2>1, <2>2, <2>3
<1>4. 0 \in Version /\ NoPage \in Page /\ NoPage.rows = {} /\ NoPage.next = 0 /\ NoPage.at = 0 /\ NoPage.short = FALSE
  BY SurveysAssumption DEF SurveysAssumption, Version, NoPage, Page
<1>5. Caught(r.page.next, u, ap)
  BY <1>2, CaughtNext DEF Holding
<1>6. Caught(asOf, u, ap)
  <2>1. CASE r.page.short
    BY <1>2, <1>5, <2>1, CaughtBelow DEF Holding, Advances
  <2>2. CASE ~r.page.short
    BY <2>2 DEF Holding, Advances
  <2> QED BY <2>1, <2>2
<1>7. asOf <= n
  BY DEF Holding
<1>8. pc = "fetch" => r.pages < MaxPages
  <2>1. MaxPages \in Nat
    BY SurveysAssumption DEF SurveysAssumption
  <2> QED BY <1>2, <2>1
<1> HIDE DEF asOf, pc, q
<1>9. q \in Run
  BY <1>1, <1>2, <1>3, <1>4 DEF Run
<1>10. /\ q.cursor = r.page.next /\ q.asOf = asOf /\ q.pc = pc /\ q.page = NoPage /\ q.pages = r.pages
  BY <1>1 DEF Run
<1>11. Sound(q, n, u, ap)
  <2>1. Truthful({}, u)
    BY DEF Truthful
  <2>2. 0 <= n
    BY SurveysAssumption DEF SurveysAssumption, Version
  <2>3. q.pc \notin Delivering /\ q.pc \notin {"upsert", "purge", "enqueue"} /\ q.pc \notin {"purge", "enqueue"}
    BY <1>3, <1>10 DEF Delivering
  <2> QED BY <1>4, <1>5, <1>6, <1>7, <1>10, <2>1, <2>2, <2>3 DEF Sound, Holding
<1>12. Formed(q)
  BY <1>3, <1>8, <1>10 DEF Formed, Working
<1> QED BY <1>9, <1>11, <1>12 DEF q

\* The stages of a page come one after the other, each after what it rests on.
LEMMA OnwardSound ==
    ASSUME NEW u \in [Refs -> Survey], NEW ap \in [Refs -> Version], \A s \in Refs : ap[s] <= u[s].gen, NEW n \in Version,
           NEW r \in Run, Holding(r, n, u, ap), NEW from \in 1..4,
           from >= 2 => Landed(Gone(r.page), ap), from >= 3 => Landed(Kept(r.page), ap)
    PROVE  Onward(r, from) \in Run /\ Sound(Onward(r, from), n, u, ap) /\ Formed(Onward(r, from))
<1> DEFINE stages == <<"withdraw", "upsert", "purge", "enqueue">>
           due == [withdraw |-> Gone(r.page) # {}, upsert |-> Kept(r.page) # {},
                   purge |-> r.drop # {}, enqueue |-> Kept(r.page) # {}]
           ahead == {k \in from..4 : due[stages[k]]}
           k == CHOOSE i \in ahead : \A j \in ahead : i <= j
           q == [r EXCEPT !.pc = stages[k]]
<1>1. Landed({}, ap)
  BY DEF Landed
<1>2. r.page.rows = Gone(r.page) \cup Kept(r.page)
  BY DEF Gone, Kept
<1>0. /\ due[stages[1]] <=> Gone(r.page) # {}
      /\ due[stages[2]] <=> Kept(r.page) # {}
      /\ due[stages[4]] <=> Kept(r.page) # {}
  OBVIOUS
<1>3. CASE ahead = {}
  <2>1. 1 \notin ahead /\ 2 \notin ahead /\ 4 \notin ahead
    BY <1>3
  <2>2. Gone(r.page) # {} => from >= 2
    <3>1. from = 1 => ~due[stages[1]]
      BY <2>1
    <3> QED BY <1>0, <3>1
  <2>3. Kept(r.page) = {}
    <3>1. 4 \in from..4
      OBVIOUS
    <3>2. ~due[stages[4]]
      BY <2>1, <3>1
    <3> QED BY <1>0, <3>2
  <2>4. Landed(r.page.rows, ap)
    BY <1>1, <1>2, <2>2, <2>3
  <2>5. Onward(r, from) = Applied(r)
    BY <1>3 DEF Onward
  <2> QED BY <2>4, <2>5, AppliedSound
<1>4. CASE ahead # {}
  <2>1. PICK i \in ahead : \A j \in ahead : i <= j
    <3>1. ahead \in SUBSET Nat
      OBVIOUS
    <3> QED BY <1>4, <3>1, LeastNat
  <2>2. k \in ahead /\ \A j \in ahead : k <= j
    BY <2>1
  <2> HIDE DEF k
  <2>3. k \in 1..4 /\ from <= k
    BY <2>2
  <2>4. Onward(r, from) = q
    BY <1>4 DEF Onward, k
  <2>5. Landed(Gone(r.page), ap) \/ k = 1
    <3>1. CASE from >= 2
      BY <3>1
    <3>2. CASE ~(from >= 2) /\ k # 1
      <4>1. 1 \notin ahead /\ from = 1
        BY <2>2, <2>3, <3>2
      <4>2. Gone(r.page) = {}
        <5>1. ~due[stages[1]]
          BY <4>1
        <5> QED BY <1>0, <5>1
      <4> QED BY <1>1, <4>2
    <3> QED BY <3>1, <3>2
  <2>6. Landed(Kept(r.page), ap) \/ k \in {1, 2}
    <3>1. CASE from >= 3
      BY <3>1
    <3>2. CASE ~(from >= 3) /\ k \notin {1, 2}
      <4>1. 2 \notin ahead /\ from <= 2
        BY <2>2, <2>3, <3>2
      <4>2. Kept(r.page) = {}
        <5>1. ~due[stages[2]]
          BY <4>1
        <5> QED BY <1>0, <5>1
      <4> QED BY <1>1, <4>2
    <3> QED BY <3>1, <3>2
  <2>7. /\ stages[k] \in Stage /\ stages[k] \in Delivering /\ stages[k] # "fetch" /\ stages[k] \notin Working
        /\ stages[k] \in {"upsert", "purge", "enqueue"} => k # 1
        /\ stages[k] \in {"purge", "enqueue"} => k \notin {1, 2}
    <3>1. CASE k = 1
      BY <3>1 DEF Delivering, Working, Stage
    <3>2. CASE k = 2
      BY <3>2 DEF Delivering, Working, Stage
    <3>3. CASE k = 3
      BY <3>3 DEF Delivering, Working, Stage
    <3>4. CASE k = 4
      BY <3>4 DEF Delivering, Working, Stage
    <3> QED BY <2>3, <3>1, <3>2, <3>3, <3>4
  <2> HIDE DEF stages
  <2>8. q \in Run
    BY <2>7 DEF Run
  <2>9. q.pc = stages[k] /\ q.page = r.page /\ q.cursor = r.cursor /\ q.asOf = r.asOf
    BY DEF Run
  <2> HIDE DEF q
  <2>10. Sound(q, n, u, ap)
    BY <2>5, <2>6, <2>7, <2>9 DEF Sound, Holding
  <2>11. Formed(q)
    BY <2>7, <2>9 DEF Formed
  <2> QED BY <2>4, <2>8, <2>10, <2>11
<1> QED BY <1>3, <1>4

-----------------------------------------------------------------------------
(* What most steps leave alone.                                            *)

LEMMA BackendKeeps ==
    ASSUME Backend, UNCHANGED <<gen, up, applied, sync>>
    PROVE  Backend'
  BY DEF Backend, Caught

LEMMA RowsKeep ==
    ASSUME TypeOK, Rows, UNCHANGED <<row, up, threads, applied>>, crossed \subseteq crossed'
    PROVE  Rows'
<1>1. \A s \in Refs \ crossed' : applied'[s] = up'[s].gen => Mirrored(s)'
  BY DEF Rows, Mirrored, Stored
<1>2. OneThread' /\ FinalCountNamed'
  BY DEF Rows, OneThread, FinalCountNamed, Stored
<1>3. \A s \in Refs : ~Stored(s)' => row'[s] = NoSurvey
  BY DEF Rows, Stored
<1> QED BY <1>1, <1>2, <1>3 DEF Rows

LEMMA RunsKeep ==
    ASSUME TypeOK, RunsInv, NEW g \in Runs, NEW q \in Run, run' = [run EXCEPT ![g] = q],
           UNCHANGED <<gen, up, applied>>, Sound(q, gen, up, applied), Formed(q)
    PROVE  run' \in [Runs -> Run] /\ RunsInv'
<1>1. run \in [Runs -> Run]
  BY DEF TypeOK
<1>2. run' \in [Runs -> Run]
  BY <1>1
<1>3. \A h \in Runs : run'[h] = IF h = g THEN q ELSE run[h]
  BY <1>1
<1>4. \A h \in Runs : Sound(run'[h], gen, up, applied) /\ Formed(run'[h])
  BY <1>3 DEF RunsInv
<1> QED BY <1>2, <1>4 DEF RunsInv

\* A run that is past its pages keeps what it knows.
LEMMA SameSound ==
    ASSUME NEW r \in Run, NEW n, NEW u, NEW ap, Sound(r, n, u, ap), NEW q,
           q.cursor = r.cursor, q.asOf = r.asOf, q.page = r.page, q.pc \notin Delivering
    PROVE  Sound(q, n, u, ap)
  BY DEF Sound, Delivering

LEMMA EmptyPage ==
    /\ 0 \in Version /\ NoPage \in Page /\ NoBundle \in Bundle
    /\ NoPage.rows = {} /\ NoPage.next = 0 /\ NoPage.at = 0 /\ NoPage.short = FALSE
<1> SurveysAssumption
  BY SurveysAssumption
<1> QED BY DEF SurveysAssumption, Version, NoPage, Page, NoBundle, Bundle

\* A run with an empty page and cursors that are caught up.
LEMMA PagelessSound ==
    ASSUME TypeOK, Backend, NEW r, r.page = NoPage, r.pc \notin Delivering, r.cursor \in Version, r.asOf \in Version,
           r.cursor <= gen, r.asOf <= gen, Caught(r.cursor, up, applied), Caught(r.asOf, up, applied)
    PROVE  Sound(r, gen, up, applied)
<1>1. 0 <= gen
  BY SurveysAssumption DEF SurveysAssumption, TypeOK, Version
<1>2. Truthful({}, up)
  BY DEF Truthful
<1> QED BY <1>1, <1>2, EmptyPage DEF Sound, Delivering

LEMMA AsleepSound ==
    ASSUME TypeOK, Backend
    PROVE  Asleep \in Run /\ Sound(Asleep, gen, up, applied) /\ Formed(Asleep)
<1>1. /\ Asleep.pc = "idle" /\ Asleep.page = NoPage /\ Asleep.cursor = 0 /\ Asleep.asOf = 0
  BY DEF Asleep
<1>2. 0 \in 0..MaxClock /\ 0 \in 0..MaxPages /\ 0 \in 0..Allowance /\ "idle" \in Stage
  BY SurveysAssumption DEF SurveysAssumption, Stage
<1>3. <<>> \in Seq(Refs)
  OBVIOUS
<1>4. Asleep \in Run
  BY <1>2, <1>3, EmptyPage DEF Asleep, Run
<1>5. Caught(0, up, applied)
  <2>1. SUFFICES ASSUME NEW s \in Refs, up[s].gen <= 0 PROVE applied[s] = up[s].gen
    BY DEF Caught
  <2>2. up[s].gen \in Nat /\ applied[s] \in Nat /\ applied[s] <= up[s].gen
    BY DEF TypeOK, Version, Backend
  <2> QED BY <2>1, <2>2
<1>6. 0 <= gen
  BY DEF TypeOK, Version
<1>7. Sound(Asleep, gen, up, applied)
  BY <1>1, <1>5, <1>6, EmptyPage, PagelessSound DEF Delivering
<1>8. Formed(Asleep)
  BY <1>1 DEF Formed, Working
<1> QED BY <1>4, <1>7, <1>8

LEMMA InitInv == Init => IInv
<1> SUFFICES ASSUME Init PROVE IInv
  OBVIOUS
<1>1. /\ MaxClock \in Nat /\ MaxGen \in Nat /\ MaxFaults \in Nat /\ MaxPages \in Nat /\ Allowance \in Nat
  BY SurveysAssumption DEF SurveysAssumption
<1>2. 0 \in Version
  BY <1>1 DEF Version
<1>3. Asleep \in Run
  <2>1. 0 \in 0..MaxClock /\ 0 \in 0..MaxPages /\ 0 \in 0..Allowance /\ "idle" \in Stage /\ <<>> \in Seq(Refs)
    BY <1>1 DEF Stage
  <2> QED BY <2>1, EmptyPage DEF Asleep, Run
<1>4. TypeOK
  BY <1>1, <1>2, <1>3, EmptyPage DEF Init, TypeOK, NoSurvey, NoTally, NotQueued, Bundle
<1>5. Backend
  BY DEF Init, Backend, Caught
<1>6. Rows
  BY DEF Init, Rows, OneThread, FinalCountNamed, Mirrored, Stored, NoSurvey
<1>7. RunsInv
  BY <1>4, <1>5, AsleepSound DEF RunsInv, Init
<1> QED BY <1>4, <1>5, <1>6, <1>7 DEF IInv

-----------------------------------------------------------------------------
(* The backend.                                                            *)

\* A change is newer than every cursor and every page.
LEMMA SoundChanges ==
    ASSUME TypeOK, Backend, NEW s \in Refs, Change(s), NEW r \in Run, Sound(r, gen, up, applied)
    PROVE  Sound(r, gen', up', applied)
<1>1. /\ gen \in Nat /\ gen' = gen + 1
      /\ \A t \in Refs : up[t].gen \in Nat /\ up[t].gen <= gen
  BY DEF TypeOK, Version, Change, Backend
<1>2. /\ \A t \in Refs \ {s} : up'[t] = up[t]
      /\ up'[s].gen = gen'
  BY DEF Change, TypeOK
<1>3. r.cursor \in Nat /\ r.asOf \in Nat /\ r.page.next \in Nat /\ r.page.at \in Nat /\ r.page.rows \in SUBSET Item
  BY DEF Run, Page, Version
<1>4. ASSUME NEW c \in Nat, c <= gen, Caught(c, up, applied)
      PROVE  Caught(c, up', applied)
  <2>1. ~ (gen' <= c)
    BY <1>1, <1>4
  <2> QED BY <1>2, <1>4, <2>1 DEF Caught
<1>5. Truthful(r.page.rows, up')
  <2>1. \A a \in r.page.rows : a.ref \in Refs /\ a.ver \in Nat
    BY <1>3 DEF Item, Version
  <2>2. Truthful(r.page.rows, up)
    BY DEF Sound
  <2>3. ASSUME NEW a \in r.page.rows, a.ref = s
        PROVE  0 < a.ver /\ a.ver < up'[s].gen
    <3>1. 0 < a.ver /\ a.ver <= up[s].gen /\ up[s].gen <= gen /\ up[s].gen \in Nat
      BY <1>1, <2>2, <2>3 DEF Truthful
    <3> QED BY <1>1, <1>2, <2>1, <3>1
  <2>4. ASSUME NEW a \in r.page.rows
        PROVE  /\ 0 < a.ver /\ a.ver <= up'[a.ref].gen
               /\ a.ver = up'[a.ref].gen => a.listed = up'[a.ref].listed /\ a.hash = up'[a.ref].hash
    <3>1. CASE a.ref = s
      <4>1. 0 < a.ver /\ a.ver < up'[s].gen /\ up'[s].gen \in Nat /\ a.ver \in Nat
        BY <1>1, <1>2, <2>1, <2>3, <3>1
      <4> QED BY <3>1, <4>1
    <3>2. CASE a.ref # s
      <4>1. up'[a.ref] = up[a.ref]
        BY <1>2, <2>1, <3>2
      <4> QED BY <2>2, <4>1 DEF Truthful
    <3> QED BY <3>1, <3>2
  <2> QED BY <2>2, <2>4 DEF Truthful
<1>6. r.pc \in Delivering => Covers(r.page, r.cursor, up')
  <2>1. SUFFICES ASSUME r.pc \in Delivering, NEW t \in Refs, up'[t].gen <= r.page.next
                 PROVE  up'[t].gen <= r.cursor \/ \E a \in r.page.rows : a.ref = t /\ a.ver = up'[t].gen
    BY DEF Covers
  <2>2. t # s
    <3>1. r.page.next <= gen
      BY DEF Sound
    <3> QED BY <1>1, <1>2, <1>3, <2>1, <3>1
  <2> QED BY <1>2, <2>1, <2>2 DEF Sound, Covers
<1>7. r.cursor <= gen' /\ r.asOf <= gen' /\ r.page.next <= gen' /\ r.page.at <= gen'
  BY <1>1, <1>3 DEF Sound
<1>8. r.cursor <= gen /\ r.asOf <= gen /\ Caught(r.cursor, up, applied) /\ Caught(r.asOf, up, applied)
  BY DEF Sound
<1>9. Caught(r.cursor, up', applied) /\ Caught(r.asOf, up', applied)
  BY <1>3, <1>4, <1>8
<1> QED BY <1>5, <1>6, <1>7, <1>9 DEF Sound

LEMMA ChangeStep ==
    ASSUME IInv, NEW s \in Refs, Change(s)
    PROVE  IInv'
<1> TypeOK /\ Backend /\ Rows /\ RunsInv
  BY DEF IInv
<1>1. /\ gen \in Nat /\ gen' = gen + 1 /\ gen' \in Version /\ Version \subseteq Nat
      /\ \A t \in Refs : up[t].gen \in Nat /\ up[t].gen <= gen /\ applied[t] \in Nat /\ applied[t] <= up[t].gen
  BY SurveysAssumption DEF SurveysAssumption, TypeOK, Version, Change, Backend
<1>2. PICK l \in BOOLEAN, h \in {0, up[s].hash, gen'} :
        up' = [up EXCEPT ![s] = [gen |-> gen', listed |-> l, hash |-> h]]
  BY DEF Change
<1>3. h \in Version
  BY <1>1, <1>2, EmptyPage DEF TypeOK
<1>4. up' \in [Refs -> [gen : Version, listed : BOOLEAN, hash : Version]]
  BY <1>1, <1>2, <1>3 DEF TypeOK
<1>5. /\ \A t \in Refs \ {s} : up'[t] = up[t]
      /\ up'[s].gen = gen'
  BY <1>2 DEF TypeOK
<1>6. TypeOK'
  BY <1>1, <1>4 DEF TypeOK, Change, Disturbed, tables, history
<1>7. UNCHANGED <<row, sync, run, applied, crossed, threads>>
  BY DEF Change, tables, history
<1>8. ASSUME NEW c \in Version, c <= gen, Caught(c, up, applied)
      PROVE  Caught(c, up, applied)' /\ c <= gen'
  <2>1. c \in Nat
    BY <1>1
  <2>2. ~ (gen' <= c) /\ c <= gen'
    BY <1>1, <1>8, <2>1
  <2> QED BY <1>5, <1>7, <1>8, <2>2 DEF Caught
<1>9. Backend'
  <2>1. sync.cursor \in Version /\ sync.asOf \in Version
    BY DEF TypeOK
  <2>2. sync.cursor <= gen /\ Caught(sync.cursor, up, applied) /\ sync.asOf <= gen /\ Caught(sync.asOf, up, applied)
    BY DEF Backend
  <2>3. Caught(sync.cursor, up, applied)' /\ sync.cursor <= gen' /\ Caught(sync.asOf, up, applied)' /\ sync.asOf <= gen'
    BY <1>7, <1>8, <2>1, <2>2 DEF Caught
  <2>4. \A t \in Refs : up'[t].gen <= gen' /\ applied[t] <= up'[t].gen
    <3>1. SUFFICES ASSUME NEW t \in Refs PROVE up'[t].gen <= gen' /\ applied[t] <= up'[t].gen
      OBVIOUS
    <3>2. applied[t] <= gen' /\ up[t].gen <= gen'
      BY <1>1
    <3> QED BY <1>1, <1>5, <3>2
  <2>5. \A t \in Refs : up'[t].gen = 0 => ~up'[t].listed
    BY <1>1, <1>5 DEF Backend
  <2> QED BY <1>7, <2>3, <2>4, <2>5 DEF Backend
<1>10. Rows'
  <2>1. \A t \in Refs \ crossed' : applied'[t] = up'[t].gen => Mirrored(t)'
    <3>1. SUFFICES ASSUME NEW t \in Refs \ crossed, applied[t] = up'[t].gen PROVE Mirrored(t)'
      BY <1>7
    <3>2. t # s
      <4>1. applied[s] < gen'
        BY <1>1
      <4> QED BY <1>1, <1>5, <3>1, <4>1
    <3>3. up'[t] = up[t]
      BY <1>5, <3>2
    <3> QED BY <1>7, <3>1, <3>3 DEF Rows, Mirrored, Stored
  <2>2. OneThread' /\ FinalCountNamed' /\ \A t \in Refs : ~Stored(t)' => row'[t] = NoSurvey
    BY <1>7 DEF Rows, OneThread, FinalCountNamed, Stored
  <2> QED BY <2>1, <2>2 DEF Rows
<1>11. RunsInv'
  <2>1. \A g \in Runs : Sound(run[g], gen', up', applied)
    BY SoundChanges DEF TypeOK, RunsInv
  <2> QED BY <1>7, <2>1 DEF RunsInv
<1> QED BY <1>6, <1>9, <1>10, <1>11 DEF IInv

LEMMA ImportStep ==
    ASSUME IInv, NEW s \in Refs, Import(s)
    PROVE  IInv'
<1> TypeOK /\ Backend /\ Rows /\ RunsInv
  BY DEF IInv
<1>1. TypeOK'
  BY DEF TypeOK, Import, Disturbed, tables, history
<1>2. UNCHANGED <<gen, up, row, sync, run, applied, crossed, threads>>
  BY DEF Import, tables, history
<1>3. RunsInv'
  BY <1>2 DEF RunsInv
<1> QED BY <1>1, <1>2, <1>3, BackendKeeps, RowsKeep DEF IInv

-----------------------------------------------------------------------------
(* The mirror.                                                             *)

\* A step of a run that writes neither a survey nor the cursor.
LEMMA MemoryStep ==
    ASSUME IInv, NEW g \in Runs, NEW q \in Run, run' = [run EXCEPT ![g] = q],
           Sound(q, gen, up, applied), Formed(q),
           UNCHANGED <<backend, row, sync, threads, applied>>,
           crossed \subseteq crossed', crossed' \subseteq Refs, cut' \subseteq Refs,
           clock' \in 0..MaxClock, faults' \in 0..MaxFaults,
           tally' \in [Refs -> Bundle], queue' \in [Refs -> [at : 0..MaxClock, last : 0..MaxClock]],
           calm' \in [since : 0..MaxClock, runs : Nat]
    PROVE  IInv'
<1> TypeOK /\ Backend /\ Rows /\ RunsInv
  BY DEF IInv
<1>1. UNCHANGED <<gen, up, imported, row, sync, threads, applied>>
  BY DEF backend
<1>2. run' \in [Runs -> Run] /\ RunsInv'
  BY <1>1, RunsKeep
<1>3. TypeOK'
  BY <1>1, <1>2 DEF TypeOK
<1> QED BY <1>1, <1>2, <1>3, BackendKeeps, RowsKeep DEF IInv

LEMMA StartRunStep ==
    ASSUME IInv, NEW g \in Runs, StartRun(g)
    PROVE  IInv'
<1> TypeOK /\ Backend /\ Rows /\ RunsInv
  BY DEF IInv
<1> DEFINE q == [Asleep EXCEPT !.pc = "fetch", !.now = clock', !.cursor = sync.cursor, !.asOf = sync.asOf, !.left = Allowance]
<1>1. run' = [run EXCEPT ![g] = q] /\ clock' = clock + 1 /\ clock < MaxClock
  BY DEF StartRun, Set
<1>2. clock' \in 0..MaxClock /\ Allowance \in 0..Allowance /\ MaxPages \in Nat \ {0}
  BY <1>1, SurveysAssumption DEF SurveysAssumption, TypeOK
<1>3. Asleep \in Run
  BY AsleepSound
<1>4. sync.cursor \in Version /\ sync.asOf \in Version
  BY DEF TypeOK
<1>5. q \in Run
  BY <1>2, <1>3, <1>4 DEF Run, Stage
<1>6. q.pc = "fetch" /\ q.cursor = sync.cursor /\ q.asOf = sync.asOf /\ q.page = NoPage /\ q.pages = 0
  BY DEF Asleep
<1> HIDE DEF q
<1>7. Sound(q, gen, up, applied)
  <2>1. q.pc \notin Delivering
    BY <1>6 DEF Delivering
  <2> QED BY <1>4, <1>6, <2>1, PagelessSound DEF Backend
<1>8. Formed(q)
  BY <1>2, <1>6 DEF Formed, Working
<1>9. /\ UNCHANGED <<backend, row, sync, threads, applied, tally, queue, calm, faults, crossed, cut>>
      /\ crossed \subseteq Refs /\ cut \subseteq Refs /\ faults \in 0..MaxFaults /\ tally \in [Refs -> Bundle]
      /\ queue \in [Refs -> [at : 0..MaxClock, last : 0..MaxClock]] /\ calm \in [since : 0..MaxClock, runs : Nat]
  BY DEF StartRun, TypeOK, tables, history
<1> QED BY <1>1, <1>2, <1>5, <1>7, <1>8, <1>9, MemoryStep

\* Steps that touch the memory of a run alone.
LEMMA LocalStep ==
    ASSUME IInv, NEW g \in Runs, NEW q \in Run, run' = [run EXCEPT ![g] = q],
           Sound(q, gen, up, applied), Formed(q),
           UNCHANGED <<clock, backend, tables, history, faults>>,
           calm' \in [since : 0..MaxClock, runs : Nat]
    PROVE  IInv'
<1>1. /\ UNCHANGED <<clock, backend, row, sync, threads, applied, tally, queue, faults, crossed, cut>>
      /\ crossed \subseteq Refs /\ cut \subseteq Refs /\ faults \in 0..MaxFaults /\ tally \in [Refs -> Bundle]
      /\ queue \in [Refs -> [at : 0..MaxClock, last : 0..MaxClock]] /\ clock \in 0..MaxClock
  BY DEF IInv, TypeOK, tables, history
<1> QED BY <1>1, MemoryStep

LEMMA SpendType ==
    ASSUME NEW left \in 0..Allowance, NEW k \in Nat
    PROVE  Spend(left, k) \in 0..Allowance
<1>1. Allowance \in Nat
  BY SurveysAssumption DEF SurveysAssumption
<1> QED BY <1>1 DEF Spend

\* The facts of the backend that the lemmas about pages ask for.
LEMMA BackendFacts ==
    ASSUME TypeOK, Backend
    PROVE  /\ up \in [Refs -> Survey] /\ applied \in [Refs -> Version] /\ gen \in Version
           /\ \A s \in Refs : applied[s] <= up[s].gen
  BY DEF TypeOK, Backend, Survey

LEMMA FetchStep ==
    ASSUME IInv, NEW g \in Runs, Fetch(g)
    PROVE  IInv'
<1> TypeOK /\ Backend /\ Rows /\ RunsInv
  BY DEF IInv
<1> DEFINE o == run[g]
           page == Answer(o.cursor)
           r == [o EXCEPT !.page = page, !.pages = o.pages + 1, !.left = Spend(o.left, 1)]
           q == IF r.page.rows = {} THEN Applied(r) ELSE [r EXCEPT !.pc = "facts"]
<1>1. o \in Run /\ Sound(o, gen, up, applied) /\ Formed(o) /\ o.pc = "fetch"
  BY DEF Fetch, RunsInv, TypeOK
<1>2. o.cursor \in Version /\ o.left \in 0..Allowance /\ o.pages \in 0..MaxPages /\ o.pages < MaxPages
  BY <1>1 DEF Run, Formed
<1>3. /\ page \in Page /\ page.next <= gen /\ page.at <= gen
      /\ page.short => page.at <= page.next
      /\ Truthful(page.rows, up) /\ Covers(page, o.cursor, up)
  BY <1>2, AnswerCovers
<1>4. o.pages + 1 \in 0..MaxPages /\ Spend(o.left, 1) \in 0..Allowance
  <2>1. MaxPages \in Nat /\ 1 \in Nat
    BY SurveysAssumption DEF SurveysAssumption
  <2>2. o.pages + 1 \in 0..MaxPages
    <3> HIDE DEF o
    <3> QED BY <1>2, <2>1
  <2>3. Spend(o.left, 1) \in 0..Allowance
    BY <1>2, <2>1, SpendType
  <2> QED BY <2>2, <2>3
<1>5. run' = [run EXCEPT ![g] = q] /\ UNCHANGED <<clock, backend, tables, history, calm, faults>>
  BY DEF Fetch, Set
<1> HIDE DEF o, page
<1>6. r \in Run
  BY <1>1, <1>3, <1>4 DEF Run
<1>7. r.page = page /\ r.cursor = o.cursor /\ r.asOf = o.asOf
  BY <1>1 DEF Run
<1> HIDE DEF r
<1>8. Holding(r, gen, up, applied)
  BY <1>1, <1>3, <1>7 DEF Holding, Sound
<1>9. q \in Run /\ Sound(q, gen, up, applied) /\ Formed(q)
  <2>1. CASE r.page.rows = {}
    <3>1. Landed(r.page.rows, applied)
      BY <2>1 DEF Landed
    <3>2. q = Applied(r)
      BY <2>1
    <3> QED BY <1>6, <1>8, <3>1, <3>2, BackendFacts, AppliedSound
  <2>2. CASE r.page.rows # {}
    <3>1. q = [r EXCEPT !.pc = "facts"]
      BY <2>2
    <3> HIDE DEF q
    <3>2. q \in Run
      BY <1>6, <3>1 DEF Run, Stage
    <3>3. q.pc = "facts" /\ q.page = r.page /\ q.cursor = r.cursor /\ q.asOf = r.asOf
      BY <1>6, <3>1 DEF Run
    <3>4. Sound(q, gen, up, applied)
      BY <1>8, <3>3 DEF Sound, Holding
    <3>5. Formed(q)
      BY <3>3 DEF Formed, Working
    <3> QED BY <3>2, <3>4, <3>5
  <2> QED BY <2>1, <2>2
<1>10. calm' \in [since : 0..MaxClock, runs : Nat]
  BY <1>5 DEF TypeOK
<1> HIDE DEF q
<1> QED BY <1>5, <1>9, <1>10, LocalStep

\* What a run holds while it delivers a page.
LEMMA SoundHolds ==
    ASSUME NEW r, NEW n, NEW u, NEW ap, Sound(r, n, u, ap), r.pc \in Delivering
    PROVE  Holding(r, n, u, ap)
  BY DEF Sound, Holding

LEMMA FactsStep ==
    ASSUME IInv, NEW g \in Runs, Facts(g)
    PROVE  IInv'
<1> TypeOK /\ Backend /\ Rows /\ RunsInv
  BY DEF IInv
<1>1. run[g] \in Run /\ Sound(run[g], gen, up, applied) /\ run[g].pc = "facts"
  BY DEF Facts, RunsInv, TypeOK
<1>2. PICK D \in SUBSET run[g].page.rows : run' = [run EXCEPT ![g] = Onward([run[g] EXCEPT !.drop = RefsOf(D)], 1)]
  <2> DEFINE dropped == {a \in Gone(run[g].page) : Stored(a.ref) /\ ~row[a.ref].thread}
                        \cup {a \in Kept(run[g].page) : Stored(a.ref) /\ row[a.ref].hash # a.hash}
  <2>1. dropped \in SUBSET run[g].page.rows
    BY DEF Gone, Kept
  <2>2. run' = [run EXCEPT ![g] = Onward([run[g] EXCEPT !.drop = RefsOf(dropped)], 1)]
    BY DEF Facts, Set
  <2> QED BY <2>1, <2>2
<1> DEFINE r == [run[g] EXCEPT !.drop = RefsOf(D)]
           q == Onward(r, 1)
<1>3. RefsOf(D) \in SUBSET Refs
  <2>1. run[g].page.rows \in SUBSET Item
    BY <1>1 DEF Run, Page
  <2> QED BY <2>1 DEF RefsOf, Item
<1>4. r \in Run
  BY <1>1, <1>3 DEF Run
<1>5. r.page = run[g].page /\ r.cursor = run[g].cursor /\ r.asOf = run[g].asOf
  BY <1>1 DEF Run
<1>6. Holding(run[g], gen, up, applied)
  BY <1>1, SoundHolds DEF Delivering
<1> HIDE DEF r
<1>7. Holding(r, gen, up, applied)
  BY <1>5, <1>6 DEF Holding
<1>8. q \in Run /\ Sound(q, gen, up, applied) /\ Formed(q)
  BY <1>4, <1>7, BackendFacts, OnwardSound
<1>9. UNCHANGED <<clock, backend, tables, history, calm, faults>> /\ calm \in [since : 0..MaxClock, runs : Nat]
  BY DEF Facts, TypeOK
<1>10. run' = [run EXCEPT ![g] = q]
  BY <1>2 DEF r
<1> HIDE DEF q
<1> QED BY <1>8, <1>9, <1>10, LocalStep

\* What a page leaves of the changes applied: never less, and the page itself.
LEMMA NewestFacts ==
    ASSUME TypeOK, Backend, NEW A \in SUBSET Item, Truthful(A, up)
    PROVE  /\ Newest(A) \in [Refs -> Version] /\ Landed(A, Newest(A))
           /\ \A s \in Refs : applied[s] <= Newest(A)[s] /\ Newest(A)[s] <= up[s].gen
           /\ \A s \in Refs \ RefsOf(A) : Newest(A)[s] = applied[s]
           /\ \A a \in A : a.ref \in Behind(A) \/ Newest(A)[a.ref] = a.ver
<1> DEFINE ap == Newest(A)
<1>1. /\ \A s \in Refs : applied[s] \in Nat /\ applied[s] \in Version /\ up[s].gen \in Nat /\ applied[s] <= up[s].gen
      /\ \A a \in A : a.ref \in Refs /\ a.ver \in Version /\ a.ver \in Nat /\ a.ver <= up[a.ref].gen
      /\ \A a, b \in A : a.ref = b.ref => a = b
  BY SurveysAssumption DEF SurveysAssumption, TypeOK, Backend, Version, Item, Truthful
<1>2. ASSUME NEW s \in Refs, \A a \in A : a.ref # s \/ ~(a.ver > applied[s])
      PROVE  ap[s] = applied[s]
  BY <1>2 DEF Newest
<1>3. ASSUME NEW a \in A, a.ver > applied[a.ref]
      PROVE  ap[a.ref] = a.ver
  <2>1. a.ref \in Refs /\ (CHOOSE b \in A : b.ref = a.ref) = a
    BY <1>1
  <2>2. \E b \in A : b.ref = a.ref /\ b.ver > applied[a.ref]
    BY <1>3
  <2> QED BY <2>1, <2>2 DEF Newest
<1>4. ASSUME NEW s \in Refs
      PROVE  ap[s] \in Version /\ applied[s] <= ap[s] /\ ap[s] <= up[s].gen
  <2>1. CASE \E a \in A : a.ref = s /\ a.ver > applied[s]
    <3>1. PICK a \in A : a.ref = s /\ a.ver > applied[s]
      BY <2>1
    <3>2. ap[s] = a.ver /\ a.ver \in Version /\ a.ver \in Nat /\ a.ver <= up[s].gen /\ applied[s] \in Nat
      BY <1>1, <1>3, <3>1
    <3> QED BY <3>1, <3>2
  <2>2. CASE \A a \in A : a.ref # s \/ ~(a.ver > applied[s])
    BY <1>1, <1>2, <2>2
  <2> QED BY <2>1, <2>2
<1>5. ap \in [Refs -> Version]
  <2>1. ap = [s \in Refs |-> ap[s]]
    BY DEF Newest
  <2> HIDE DEF ap
  <2> QED BY <1>4, <2>1
<1>6. ASSUME NEW a \in A
      PROVE  a.ver <= ap[a.ref] /\ (a.ref \in Behind(A) \/ ap[a.ref] = a.ver)
  <2>1. a.ref \in Refs /\ a.ver \in Nat /\ applied[a.ref] \in Nat
    BY <1>1
  <2>2. CASE a.ver > applied[a.ref]
    BY <1>3, <2>1, <2>2
  <2>3. CASE ~(a.ver > applied[a.ref])
    <3>1. \A b \in A : b.ref # a.ref \/ ~(b.ver > applied[a.ref])
      BY <1>1, <2>3
    <3>2. ap[a.ref] = applied[a.ref]
      BY <1>2, <2>1, <3>1
    <3>3. a.ver < applied[a.ref] => a.ref \in Behind(A)
      BY DEF Behind
    <3> HIDE DEF ap
    <3> QED BY <2>1, <2>3, <3>2, <3>3
  <2> QED BY <2>2, <2>3
<1>7. Landed(A, ap)
  BY <1>6 DEF Landed
<1>8. \A s \in Refs \ RefsOf(A) : ap[s] = applied[s]
  BY <1>2 DEF RefsOf
<1> QED BY <1>4, <1>5, <1>6, <1>7, <1>8

\* What a run knows of the changes applied stays true when more are.
LEMMA SoundGrows ==
    ASSUME NEW u \in [Refs -> Survey], NEW ap \in [Refs -> Version], NEW bp \in [Refs -> Version], NEW n,
           \A s \in Refs : ap[s] <= bp[s] /\ bp[s] <= u[s].gen,
           NEW r \in Run, Sound(r, n, u, ap)
    PROVE  Sound(r, n, u, bp)
<1>1. \A s \in Refs : ap[s] \in Nat /\ bp[s] \in Nat /\ u[s].gen \in Nat
  BY SurveysAssumption DEF SurveysAssumption, Survey, Version
<1>2. ASSUME NEW c, Caught(c, u, ap)
      PROVE  Caught(c, u, bp)
  BY <1>1, <1>2 DEF Caught
<1>3. ASSUME NEW A \in SUBSET Item, Landed(A, ap)
      PROVE  Landed(A, bp)
  <2>1. SUFFICES ASSUME NEW a \in A PROVE a.ver <= bp[a.ref]
    BY DEF Landed
  <2>2. a.ref \in Refs /\ a.ver \in Nat /\ a.ver <= ap[a.ref]
    BY <1>3, SurveysAssumption DEF SurveysAssumption, Landed, Item, Version
  <2> QED BY <1>1, <2>2
<1>4. Gone(r.page) \in SUBSET Item /\ Kept(r.page) \in SUBSET Item
  BY DEF Run, Page, Gone, Kept
<1>5. Caught(r.cursor, u, bp) /\ Caught(r.asOf, u, bp)
  BY <1>2 DEF Sound
<1>6. r.pc \in {"upsert", "purge", "enqueue"} => Landed(Gone(r.page), bp)
  BY <1>3, <1>4 DEF Sound
<1>7. r.pc \in {"purge", "enqueue"} => Landed(Kept(r.page), bp)
  BY <1>3, <1>4 DEF Sound
<1> QED BY <1>5, <1>6, <1>7 DEF Sound

RowType == [ver : Version, hash : Version, final : Version, thread : BOOLEAN, hidden : BOOLEAN]

\* A batch of a page: it lands, and the rows it writes say what the page says.
LEMMA BatchStep ==
    ASSUME IInv, NEW g \in Runs, NEW q \in Run, run' = [run EXCEPT ![g] = q],
           NEW A \in SUBSET Item, Truthful(A, up), applied' = Newest(A),
           crossed \cup Behind(A) \subseteq crossed', crossed' \subseteq Refs,
           Sound(q, gen, up, applied'), Formed(q),
           UNCHANGED <<clock, backend, tally, queue, sync, threads, cut, calm, faults>>,
           row' \in [Refs -> RowType],
           \A s \in Refs \ RefsOf(A) : row'[s] = row[s],
           \A a \in A : /\ row'[a.ref].hidden => row'[a.ref].thread
                        /\ ~Stored(a.ref)' => row'[a.ref] = NoSurvey
                        /\ Stored(a.ref)' /\ row'[a.ref].thread <=> Stored(a.ref) /\ row[a.ref].thread
                        /\ row'[a.ref].final # 0 => row'[a.ref].final = row'[a.ref].hash
                        /\ a.ver = up[a.ref].gen => Mirrored(a.ref)'
    PROVE  IInv'
<1> TypeOK /\ Backend /\ Rows /\ RunsInv
  BY DEF IInv
<1>1. /\ applied' \in [Refs -> Version]
      /\ \A s \in Refs : applied[s] <= applied'[s] /\ applied'[s] <= up[s].gen
      /\ \A s \in Refs \ RefsOf(A) : applied'[s] = applied[s]
      /\ \A a \in A : a.ref \in Behind(A) \/ applied'[a.ref] = a.ver
  BY NewestFacts
<1>2. UNCHANGED <<gen, up, imported>> /\ A \in SUBSET Item /\ \A a \in A : a.ref \in Refs
  BY DEF backend, Item
<1>3. ASSUME NEW s \in Refs
      PROVE  \/ s \notin RefsOf(A) /\ row'[s] = row[s] /\ applied'[s] = applied[s]
             \/ \E a \in A : a.ref = s
  BY <1>1 DEF RefsOf
<1>4. ASSUME NEW r \in Run, Sound(r, gen, up, applied)
      PROVE  Sound(r, gen, up, applied')
  BY <1>1, <1>4, BackendFacts, SoundGrows
<1>5. run' \in [Runs -> Run] /\ RunsInv'
  <2>1. run \in [Runs -> Run]
    BY DEF TypeOK
  <2>2. \A h \in Runs : run'[h] = IF h = g THEN q ELSE run[h]
    BY <2>1
  <2>3. \A h \in Runs : Sound(run'[h], gen, up, applied') /\ Formed(run'[h])
    <3>1. SUFFICES ASSUME NEW h \in Runs PROVE Sound(run'[h], gen, up, applied') /\ Formed(run'[h])
      OBVIOUS
    <3>2. CASE h = g
      BY <2>2, <3>2
    <3>3. CASE h # g
      <4>1. run'[h] = run[h] /\ run[h] \in Run /\ Sound(run[h], gen, up, applied) /\ Formed(run[h])
        BY <2>1, <2>2, <3>3 DEF RunsInv
      <4> QED BY <1>4, <4>1
    <3> QED BY <3>2, <3>3
  <2> QED BY <1>2, <2>1, <2>3 DEF RunsInv
<1>6. \A s \in Refs : row'[s].hidden => row'[s].thread
  BY <1>3 DEF TypeOK
<1>7. TypeOK'
  BY <1>1, <1>2, <1>5, <1>6 DEF TypeOK, RowType
<1>8. Backend'
  <2>1. \A s \in Refs : applied[s] \in Nat /\ applied'[s] \in Nat /\ up[s].gen \in Nat
    BY <1>1, SurveysAssumption DEF SurveysAssumption, TypeOK, Version
  <2>2. ASSUME NEW c, Caught(c, up, applied)
        PROVE  Caught(c, up, applied')
    BY <1>1, <2>1, <2>2 DEF Caught
  <2>3. Caught(sync.cursor, up, applied') /\ Caught(sync.asOf, up, applied')
    BY <2>2 DEF Backend
  <2>4. UNCHANGED sync
    OBVIOUS
  <2> QED BY <1>1, <1>2, <2>3, <2>4 DEF Backend, Caught
<1>9. \A s \in Refs \ crossed' : applied'[s] = up'[s].gen => Mirrored(s)'
  <2>1. SUFFICES ASSUME NEW s \in Refs, s \notin crossed', applied'[s] = up[s].gen PROVE Mirrored(s)'
    BY <1>2
  <2>2. CASE s \notin RefsOf(A) /\ row'[s] = row[s] /\ applied'[s] = applied[s]
    <3>1. Mirrored(s)
      BY <2>1, <2>2 DEF Rows
    <3> QED BY <1>2, <2>2, <3>1 DEF Mirrored, Stored
  <2>3. CASE \E a \in A : a.ref = s
    BY <1>1, <2>1, <2>3
  <2> QED BY <1>3, <2>2, <2>3
<1>10. OneThread' /\ FinalCountNamed' /\ \A s \in Refs : ~Stored(s)' => row'[s] = NoSurvey
  <2>1. ASSUME NEW s \in Refs
        PROVE  /\ threads'[s] = IF Stored(s)' /\ row'[s].thread THEN 1 ELSE 0
               /\ row'[s].final # 0 => row'[s].final = row'[s].hash
               /\ ~Stored(s)' => row'[s] = NoSurvey
    <3>1. /\ threads'[s] = threads[s]
          /\ threads[s] = IF Stored(s) /\ row[s].thread THEN 1 ELSE 0
          /\ row[s].final # 0 => row[s].final = row[s].hash
          /\ ~Stored(s) => row[s] = NoSurvey
      BY DEF Rows, OneThread, FinalCountNamed
    <3>2. CASE row'[s] = row[s]
      BY <3>1, <3>2 DEF Stored
    <3>3. CASE \E a \in A : a.ref = s
      BY <3>1, <3>3
    <3> QED BY <1>3, <3>2, <3>3
  <2> QED BY <2>1 DEF OneThread, FinalCountNamed
<1>11. Rows'
  BY <1>9, <1>10 DEF Rows
<1> QED BY <1>5, <1>7, <1>8, <1>11 DEF IInv

\* What a run that delivers a page holds of it.
LEMMA PageFacts ==
    ASSUME IInv, NEW g \in Runs, run[g].pc \in Delivering
    PROVE  /\ run[g] \in Run /\ Holding(run[g], gen, up, applied)
           /\ run[g].page.rows \in SUBSET Item
           /\ Gone(run[g].page) \in SUBSET Item /\ Truthful(Gone(run[g].page), up)
           /\ Kept(run[g].page) \in SUBSET Item /\ Truthful(Kept(run[g].page), up)
           /\ run[g].pc \in {"upsert", "purge", "enqueue"} => Landed(Gone(run[g].page), applied)
           /\ run[g].pc \in {"purge", "enqueue"} => Landed(Kept(run[g].page), applied)
<1>1. run[g] \in Run /\ Sound(run[g], gen, up, applied)
  BY DEF IInv, TypeOK, RunsInv
<1>2. Holding(run[g], gen, up, applied)
  BY <1>1, SoundHolds
<1>3. run[g].page.rows \in SUBSET Item
  BY <1>1 DEF Run, Page
<1>4. Gone(run[g].page) \subseteq run[g].page.rows /\ Kept(run[g].page) \subseteq run[g].page.rows
  BY DEF Gone, Kept
<1>5. Truthful(Gone(run[g].page), up) /\ Truthful(Kept(run[g].page), up)
  BY <1>2, <1>4 DEF Holding, Truthful
<1> QED BY <1>1, <1>2, <1>3, <1>4, <1>5 DEF Sound

\* What a run holds of its page survives a batch of the page.
LEMMA HoldingGrows ==
    ASSUME IInv, NEW g \in Runs, run[g].pc \in Delivering, NEW A \in SUBSET Item, Truthful(A, up)
    PROVE  /\ Holding(run[g], gen, up, Newest(A))
           /\ run[g].pc \in {"upsert", "purge", "enqueue"} => Landed(Gone(run[g].page), Newest(A))
<1> TypeOK /\ Backend
  BY DEF IInv
<1>1. run[g] \in Run /\ Sound(run[g], gen, up, applied)
  BY DEF IInv, TypeOK, RunsInv
<1>2. Sound(run[g], gen, up, Newest(A))
  BY <1>1, NewestFacts, SoundGrows, BackendFacts
<1> QED BY <1>2, SoundHolds DEF Sound

LEMMA WithdrawStep ==
    ASSUME IInv, NEW g \in Runs, Withdraw(g)
    PROVE  IInv'
<1> TypeOK /\ Backend /\ Rows /\ RunsInv
  BY DEF IInv
<1> DEFINE A == Gone(run[g].page)
           q == Onward(run[g], 2)
<1>1. run[g].pc = "withdraw" /\ run[g].pc \in Delivering
  BY DEF Withdraw, Delivering
<1>2. run[g] \in Run /\ A \in SUBSET Item /\ Truthful(A, up)
  BY <1>1, PageFacts
<1>3. Holding(run[g], gen, up, Newest(A))
  BY <1>1, <1>2, HoldingGrows
<1>4. Landed(A, Newest(A)) /\ Newest(A) \in [Refs -> Version] /\ \A s \in Refs : Newest(A)[s] <= up[s].gen
  BY <1>2, NewestFacts
<1>5. q \in Run /\ Sound(q, gen, up, Newest(A)) /\ Formed(q)
  BY <1>2, <1>3, <1>4, BackendFacts, OnwardSound
<1>6. /\ row' = [s \in Refs |-> IF s \notin RefsOf(A) \/ ~Stored(s) THEN row[s]
                                ELSE IF row[s].thread THEN [row[s] EXCEPT !.hidden = TRUE] ELSE NoSurvey]
      /\ applied' = Newest(A) /\ crossed' = crossed \cup Behind(A) \cup Unseen(run[g], A)
      /\ run' = [run EXCEPT ![g] = q]
      /\ UNCHANGED <<clock, backend, tally, queue, sync, threads, cut, calm, faults>>
  BY DEF Withdraw, Set
<1>7. Behind(A) \subseteq Refs /\ Unseen(run[g], A) \subseteq Refs /\ crossed \subseteq Refs /\ RefsOf(A) \subseteq Refs
  BY <1>2 DEF Behind, Unseen, Item, TypeOK, RefsOf
<1>8. \A a \in A : a.ref \in Refs /\ a.ref \in RefsOf(A) /\ a.listed = FALSE
  BY <1>2 DEF Gone, Kept, Item, RefsOf
<1>9. row \in [Refs -> RowType] /\ NoSurvey \in RowType /\ NoSurvey.ver = 0
      /\ \A s \in Refs : Stored(s) => [row[s] EXCEPT !.hidden = TRUE] \in RowType
  <2>1. row \in [Refs -> RowType]
    BY DEF TypeOK, RowType
  <2>2. NoSurvey \in RowType /\ NoSurvey.ver = 0
    BY EmptyPage DEF NoSurvey, RowType
  <2> QED BY <2>1, <2>2 DEF RowType
<1> HIDE DEF A, q
<1>10. row' \in [Refs -> RowType] /\ \A s \in Refs \ RefsOf(A) : row'[s] = row[s]
  BY <1>6, <1>9
<1>11. ASSUME NEW a \in A
       PROVE  /\ row'[a.ref].hidden => row'[a.ref].thread
              /\ ~Stored(a.ref)' => row'[a.ref] = NoSurvey
              /\ Stored(a.ref)' /\ row'[a.ref].thread <=> Stored(a.ref) /\ row[a.ref].thread
              /\ row'[a.ref].final # 0 => row'[a.ref].final = row'[a.ref].hash
              /\ a.ver = up[a.ref].gen => Mirrored(a.ref)'
  <2> DEFINE s == a.ref
  <2>1. s \in Refs /\ s \in RefsOf(A)
    BY <1>8
  <2>2. a.ver = up[s].gen => ~up[s].listed
    BY <1>2, <1>8 DEF Truthful
  <2>3. /\ ~Stored(s) => row[s] = NoSurvey
        /\ row[s].final # 0 => row[s].final = row[s].hash
        /\ row[s].hidden => row[s].thread
    BY <2>1 DEF Rows, FinalCountNamed, TypeOK
  <2>4. up'[s] = up[s]
    BY <1>6 DEF backend
  <2>5. row[s] \in RowType
    BY <1>9, <2>1
  <2> HIDE DEF s
  <2>6. CASE ~Stored(s)
    <3>1. row'[s] = NoSurvey
      BY <1>6, <2>1, <2>3, <2>6
    <3> QED BY <2>2, <2>4, <2>6, <3>1 DEF s, Stored, NoSurvey, Mirrored
  <2>7. CASE Stored(s) /\ row[s].thread
    <3>1. row'[s] = [row[s] EXCEPT !.hidden = TRUE]
      BY <1>6, <2>1, <2>7
    <3>2. row'[s].hidden = TRUE /\ row'[s].thread = row[s].thread /\ row'[s].ver = row[s].ver
          /\ row'[s].final = row[s].final /\ row'[s].hash = row[s].hash
      BY <2>5, <3>1 DEF RowType
    <3> QED BY <2>2, <2>3, <2>4, <2>7, <3>2 DEF s, Stored, Mirrored
  <2>8. CASE Stored(s) /\ ~row[s].thread
    <3>1. row'[s] = NoSurvey
      BY <1>6, <2>1, <2>8
    <3> QED BY <2>2, <2>4, <2>8, <3>1 DEF s, Stored, NoSurvey, Mirrored
  <2> QED BY <2>6, <2>7, <2>8
<1>12. crossed \cup Behind(A) \subseteq crossed' /\ crossed' \subseteq Refs
  BY <1>6, <1>7
<1> QED BY <1>2, <1>5, <1>6, <1>10, <1>11, <1>12, BatchStep

LEMMA UpsertStep ==
    ASSUME IInv, NEW g \in Runs, Upsert(g)
    PROVE  IInv'
<1> TypeOK /\ Backend /\ Rows /\ RunsInv
  BY DEF IInv
<1> DEFINE A == Kept(run[g].page)
           q == Onward(run[g], 3)
           New(a) == [row[a.ref] EXCEPT !.ver = a.ver, !.hash = a.hash, !.hidden = FALSE,
                                        !.final = FinalOf(row[a.ref], a.hash)]
           Of(s) == CHOOSE a \in A : a.ref = s
<1>1. run[g].pc = "upsert" /\ run[g].pc \in Delivering
  BY DEF Upsert, Delivering
<1>2. run[g] \in Run /\ A \in SUBSET Item /\ Truthful(A, up)
  BY <1>1, PageFacts
<1>3. Holding(run[g], gen, up, Newest(A)) /\ Landed(Gone(run[g].page), Newest(A))
  BY <1>1, <1>2, HoldingGrows
<1>4. Landed(A, Newest(A)) /\ Newest(A) \in [Refs -> Version] /\ \A s \in Refs : Newest(A)[s] <= up[s].gen
  BY <1>2, NewestFacts
<1>5. q \in Run /\ Sound(q, gen, up, Newest(A)) /\ Formed(q)
  BY <1>2, <1>3, <1>4, BackendFacts, OnwardSound
<1>6. /\ row' = [s \in Refs |-> IF s \in RefsOf(A) THEN New(Of(s)) ELSE row[s]]
      /\ applied' = Newest(A) /\ crossed' = crossed \cup Behind(A) \cup Unseen(run[g], A)
      /\ run' = [run EXCEPT ![g] = q]
      /\ UNCHANGED <<clock, backend, tally, queue, sync, threads, cut, calm, faults>>
  BY DEF Upsert, Set
<1>7. Behind(A) \subseteq Refs /\ Unseen(run[g], A) \subseteq Refs /\ crossed \subseteq Refs
  BY <1>2 DEF Behind, Unseen, Item, TypeOK
<1>8. /\ \A a \in A : a.ref \in Refs /\ a.ver \in Version /\ a.ver > 0 /\ a.hash \in Version /\ a.listed = TRUE
      /\ \A a \in A : a.ref \in RefsOf(A) /\ Of(a.ref) = a
      /\ \A s \in RefsOf(A) : \E a \in A : a.ref = s
  <2>1. \A a \in A : a.ref \in Refs /\ a.ver \in Version /\ a.ver > 0 /\ a.hash \in Version /\ a.listed = TRUE
    BY <1>2 DEF Truthful, Item, Kept
  <2>2. \A a, b \in A : a.ref = b.ref => a = b
    BY <1>2 DEF Truthful
  <2> HIDE DEF A
  <2> QED BY <2>1, <2>2 DEF RefsOf
<1>9. row \in [Refs -> RowType] /\ 0 \in Version
  BY EmptyPage DEF TypeOK, RowType
<1> HIDE DEF A, q
<1>10. ASSUME NEW a \in A
       PROVE  /\ New(a) \in RowType /\ New(a).ver = a.ver /\ New(a).hash = a.hash /\ New(a).hidden = FALSE
              /\ New(a).final = FinalOf(row[a.ref], a.hash) /\ New(a).thread = row[a.ref].thread
  <2>1. row[a.ref] \in RowType /\ a.ver \in Version /\ a.hash \in Version
    BY <1>8, <1>9
  <2>2. FinalOf(row[a.ref], a.hash) \in Version
    BY <1>9, <2>1 DEF FinalOf, RowType
  <2> QED BY <2>1, <2>2 DEF RowType
<1>11. \A a \in A : row'[a.ref] = New(a)
  BY <1>6, <1>8
<1> HIDE DEF Of
<1>12. row' \in [Refs -> RowType] /\ \A s \in Refs \ RefsOf(A) : row'[s] = row[s]
  <2>1. \A s \in RefsOf(A) : New(Of(s)) \in RowType
    BY <1>8, <1>10 DEF Of
  <2> HIDE DEF New
  <2> QED BY <1>6, <1>9, <2>1
<1> HIDE DEF New
<1>13. ASSUME NEW a \in A
       PROVE  /\ row'[a.ref].hidden => row'[a.ref].thread
              /\ ~Stored(a.ref)' => row'[a.ref] = NoSurvey
              /\ Stored(a.ref)' /\ row'[a.ref].thread <=> Stored(a.ref) /\ row[a.ref].thread
              /\ row'[a.ref].final # 0 => row'[a.ref].final = row'[a.ref].hash
              /\ a.ver = up[a.ref].gen => Mirrored(a.ref)'
  <2> DEFINE s == a.ref
  <2>1. row'[s] = New(a) /\ s \in Refs
    BY <1>8, <1>11
  <2>2. a.ver = up[s].gen => up[s].listed = TRUE /\ up[s].hash = a.hash
    BY <1>2, <1>8 DEF Truthful
  <2>3. /\ ~Stored(s) => row[s] = NoSurvey
        /\ row[s].final # 0 => row[s].final = row[s].hash
    BY <2>1 DEF Rows, FinalCountNamed
  <2>4. up'[s] = up[s]
    BY <1>6 DEF backend
  <2>5. /\ row'[s].ver = a.ver /\ row'[s].hash = a.hash /\ row'[s].hidden = FALSE
        /\ row'[s].final = FinalOf(row[s], a.hash) /\ row'[s].thread = row[s].thread /\ a.ver > 0
    BY <1>8, <1>10, <2>1
  <2>6. ~Stored(s) => ~row[s].thread
    BY <2>3 DEF NoSurvey
  <2>7. row'[s].final # 0 => row'[s].final = row'[s].hash
    BY <2>3, <2>5 DEF FinalOf
  <2>8. Stored(s)'
    BY <2>5 DEF Stored
  <2>9. a.ver = up[s].gen => Mirrored(s)'
    BY <2>2, <2>4, <2>5 DEF Mirrored
  <2> QED BY <2>5, <2>6, <2>7, <2>8, <2>9
<1>14. crossed \cup Behind(A) \subseteq crossed' /\ crossed' \subseteq Refs
  BY <1>6, <1>7
<1> QED BY <1>2, <1>5, <1>6, <1>12, <1>13, <1>14, BatchStep

QueueType == [Refs -> [at : 0..MaxClock, last : 0..MaxClock]]

LEMMA EnqueuedType ==
    ASSUME TypeOK, NEW S, NEW now \in 0..MaxClock
    PROVE  Enqueued(S, now) \in QueueType
<1>1. queue \in QueueType
  BY DEF TypeOK, QueueType
<1>2. \A s \in Refs : [queue[s] EXCEPT !.at = now] \in [at : 0..MaxClock, last : 0..MaxClock]
  BY <1>1 DEF QueueType
<1> QED BY <1>1, <1>2 DEF Enqueued, QueueType

LEMMA PurgeStep ==
    ASSUME IInv, NEW g \in Runs, Purge(g)
    PROVE  IInv'
<1> TypeOK /\ Backend /\ Rows /\ RunsInv
  BY DEF IInv
<1> DEFINE q == Onward(run[g], 4)
<1>1. run[g].pc = "purge" /\ run[g].pc \in Delivering
  BY DEF Purge, Delivering
<1>2. /\ run[g] \in Run /\ Holding(run[g], gen, up, applied)
      /\ Landed(Gone(run[g].page), applied) /\ Landed(Kept(run[g].page), applied)
  BY <1>1, PageFacts
<1>3. q \in Run /\ Sound(q, gen, up, applied) /\ Formed(q)
  BY <1>2, BackendFacts, OnwardSound
<1>4. tally' \in [Refs -> Bundle]
  <2>1. NoTally \in Bundle
    BY EmptyPage DEF NoTally, Bundle
  <2> QED BY <2>1 DEF Purge, TypeOK
<1>5. queue' \in QueueType
  <2>1. NotQueued \in [at : 0..MaxClock, last : 0..MaxClock]
    BY SurveysAssumption DEF SurveysAssumption, NotQueued
  <2> QED BY <2>1 DEF Purge, TypeOK, QueueType
<1>6. /\ run' = [run EXCEPT ![g] = q]
      /\ UNCHANGED <<clock, backend, row, sync, threads, applied, crossed, cut, calm, faults>>
      /\ crossed \subseteq Refs /\ cut \subseteq Refs /\ clock \in 0..MaxClock /\ faults \in 0..MaxFaults
      /\ calm \in [since : 0..MaxClock, runs : Nat]
  BY DEF Purge, Set, history, TypeOK
<1> HIDE DEF q
<1> QED BY <1>3, <1>4, <1>5, <1>6, MemoryStep DEF QueueType

LEMMA EnqueueStep ==
    ASSUME IInv, NEW g \in Runs, Enqueue(g)
    PROVE  IInv'
<1> TypeOK /\ Backend /\ Rows /\ RunsInv
  BY DEF IInv
<1> DEFINE q == Applied(run[g])
           S == RefsOf(Kept(run[g].page))
<1>1. run[g].pc = "enqueue" /\ run[g].pc \in Delivering
  BY DEF Enqueue, Delivering
<1>2. /\ run[g] \in Run /\ Holding(run[g], gen, up, applied) /\ Kept(run[g].page) \in SUBSET Item
      /\ Landed(Gone(run[g].page), applied) /\ Landed(Kept(run[g].page), applied)
  BY <1>1, PageFacts
<1>3. Landed(run[g].page.rows, applied)
  BY <1>2 DEF Landed, Gone
<1>4. q \in Run /\ Sound(q, gen, up, applied) /\ Formed(q)
  BY <1>2, <1>3, BackendFacts, AppliedSound
<1>5. queue' \in QueueType
  <2>1. run[g].now \in 0..MaxClock
    BY <1>2 DEF Run
  <2> QED BY <2>1, EnqueuedType DEF Enqueue
<1>6. S \subseteq Refs
  BY <1>2 DEF RefsOf, Item
<1>7. /\ run' = [run EXCEPT ![g] = q] /\ crossed' = crossed \cup {s \in S : Overtaken(g, s)}
      /\ UNCHANGED <<clock, backend, row, tally, sync, threads, applied, cut, calm, faults>>
      /\ crossed \subseteq Refs /\ cut \subseteq Refs /\ clock \in 0..MaxClock /\ faults \in 0..MaxFaults
      /\ calm \in [since : 0..MaxClock, runs : Nat] /\ tally \in [Refs -> Bundle]
  BY DEF Enqueue, Set, TypeOK
<1> HIDE DEF q, S
<1> QED BY <1>4, <1>5, <1>6, <1>7, MemoryStep DEF QueueType

\* A run that is not delivering changes its memory outside its cursors and page.
LEMMA CursorSound ==
    ASSUME IInv, NEW g \in Runs, NEW q,
           q.cursor = run[g].cursor, q.asOf = run[g].asOf, q.page = run[g].page, q.pc \notin Delivering
    PROVE  Sound(q, gen, up, applied)
<1>1. run[g] \in Run /\ Sound(run[g], gen, up, applied)
  BY DEF IInv, TypeOK, RunsInv
<1> QED BY <1>1, SameSound

Writing == {"put", "list", "publish", "finals", "final", "missing", "requeue", "take"}

\* Such a step of the passes up to the queue.
LEMMA MoveStep ==
    ASSUME IInv, NEW g \in Runs, NEW pc \in Writing, NEW T, NEW left \in 0..Allowance,
           T \subseteq Refs \cup [ref : Refs, hash : Version],
           NEW q, q = [run[g] EXCEPT !.todo = T, !.left = left, !.pc = pc]
    PROVE  q \in Run /\ Sound(q, gen, up, applied) /\ Formed(q)
<1>1. run[g] \in Run
  BY DEF IInv, TypeOK
<1>2. pc \in Stage /\ pc \notin Delivering /\ pc \notin Working /\ pc # "fetch"
  BY DEF Writing, Stage, Delivering, Working
<1>3. q \in Run
  BY <1>1, <1>2 DEF Run
<1>4. q.cursor = run[g].cursor /\ q.asOf = run[g].asOf /\ q.page = run[g].page /\ q.pc = pc
  BY <1>1 DEF Run
<1>5. Formed(q)
  BY <1>2, <1>4 DEF Formed
<1> QED BY <1>2, <1>3, <1>4, <1>5, CursorSound

\* A pass that goes on with the items T, or with the next pass.
LEMMA TodoSound ==
    ASSUME IInv, NEW g \in Runs, NEW pc \in Writing, NEW after \in Writing, NEW T,
           T \subseteq Refs \cup [ref : Refs, hash : Version], Todo(g, pc, T, after)
    PROVE  \E q \in Run : run' = [run EXCEPT ![g] = q] /\ Sound(q, gen, up, applied) /\ Formed(q)
<1>1. run[g] \in Run
  BY DEF IInv, TypeOK
<1> DEFINE to == IF T = {} THEN after ELSE pc
           q == [run[g] EXCEPT !.todo = T, !.pc = to]
<1>2. run' = [run EXCEPT ![g] = q] /\ to \in Writing
  BY DEF Todo, Set
<1>3. run[g].left \in 0..Allowance
  BY <1>1 DEF Run
<1> HIDE DEF to
<1>4. q = [run[g] EXCEPT !.todo = T, !.left = run[g].left, !.pc = to]
  BY <1>1 DEF Run
<1>5. q \in Run /\ Sound(q, gen, up, applied) /\ Formed(q)
  BY <1>2, <1>3, <1>4, MoveStep
<1> HIDE DEF q
<1> QED BY <1>2, <1>5

\* The reads that list the work of a pass.
LEMMA ListStep ==
    ASSUME IInv, NEW g \in Runs, ListPublishable(g) \/ ListAwaiting(g) \/ FindMissing(g)
    PROVE  IInv'
<1> DEFINE rest == UNCHANGED <<clock, backend, tables, history, calm, faults>>
<1>1. CASE ListPublishable(g)
  <2> DEFINE T == {s \in imported : Stored(s) /\ ~row[s].thread}
  <2>1. Todo(g, "publish", T, "finals") /\ rest
    BY <1>1 DEF ListPublishable
  <2>2. T \subseteq Refs
    BY DEF IInv, TypeOK
  <2> HIDE DEF T
  <2>3. PICK q \in Run : run' = [run EXCEPT ![g] = q] /\ Sound(q, gen, up, applied) /\ Formed(q)
    BY <2>1, <2>2, TodoSound DEF Writing
  <2> QED BY <2>1, <2>3, LocalStep DEF IInv, TypeOK
<1>2. CASE ListAwaiting(g)
  <2> DEFINE T == {[ref |-> s, hash |-> row[s].hash] : s \in {t \in Refs : row[t].hash > 0 /\ row[t].final = 0}}
  <2>1. Todo(g, "final", T, "missing") /\ rest
    BY <1>2 DEF ListAwaiting
  <2>2. T \subseteq [ref : Refs, hash : Version]
    <3>1. \A s \in Refs : row[s].hash \in Version
      BY DEF IInv, TypeOK
    <3> QED BY <3>1
  <2> HIDE DEF T
  <2>3. PICK q \in Run : run' = [run EXCEPT ![g] = q] /\ Sound(q, gen, up, applied) /\ Formed(q)
    BY <2>1, <2>2, TodoSound DEF Writing
  <2> QED BY <2>1, <2>3, LocalStep DEF IInv, TypeOK
<1>3. CASE FindMissing(g)
  <2> DEFINE T == {s \in Refs : Unrowed(s)}
  <2>1. Todo(g, "requeue", T, "take") /\ rest
    BY <1>3 DEF FindMissing
  <2>2. T \subseteq Refs
    OBVIOUS
  <2> HIDE DEF T
  <2>3. PICK q \in Run : run' = [run EXCEPT ![g] = q] /\ Sound(q, gen, up, applied) /\ Formed(q)
    BY <2>1, <2>2, TodoSound DEF Writing
  <2> QED BY <2>1, <2>3, LocalStep DEF IInv, TypeOK
<1> QED BY <1>1, <1>2, <1>3

LEMMA PutStep ==
    ASSUME IInv, NEW g \in Runs, Put(g)
    PROVE  IInv'
<1> TypeOK /\ Backend /\ Rows /\ RunsInv
  BY DEF IInv
<1> DEFINE q == [run[g] EXCEPT !.pc = "list"]
<1>1. run[g] \in Run /\ Sound(run[g], gen, up, applied)
  BY DEF TypeOK, RunsInv
<1>2. run[g].todo \subseteq Refs \cup [ref : Refs, hash : Version] /\ run[g].left \in 0..Allowance
  BY <1>1 DEF Run
<1>3. q = [run[g] EXCEPT !.todo = run[g].todo, !.left = run[g].left, !.pc = "list"]
  BY <1>1 DEF Run
<1>4. q \in Run /\ Sound(q, gen, up, applied) /\ Formed(q)
  BY <1>2, <1>3, MoveStep DEF Writing
<1>5. /\ run' = [run EXCEPT ![g] = q] /\ sync' = [cursor |-> run[g].cursor, asOf |-> run[g].asOf]
      /\ UNCHANGED <<clock, gen, up, imported, row, tally, queue, history, calm, faults>>
  BY DEF Put, Go, Set, backend
<1>6. run[g].cursor \in Version /\ run[g].asOf \in Version
  BY <1>1 DEF Run
<1> HIDE DEF q
<1>7. run' \in [Runs -> Run] /\ RunsInv'
  BY <1>4, <1>5, RunsKeep DEF history
<1>8. TypeOK'
  BY <1>5, <1>6, <1>7 DEF TypeOK, history
<1>9. Backend'
  BY <1>1, <1>5 DEF Backend, Sound, Caught, history
<1>10. Rows'
  BY <1>5, RowsKeep DEF history
<1> QED BY <1>7, <1>8, <1>9, <1>10 DEF IInv

-----------------------------------------------------------------------------
(* Threads and final counts.                                               *)

\* A step of a run that writes a survey and keeps what it was applied from.
LEMMA RowStep ==
    ASSUME IInv, NEW g \in Runs, NEW q \in Run, run' = [run EXCEPT ![g] = q],
           Sound(q, gen, up, applied), Formed(q),
           UNCHANGED <<clock, backend, tally, queue, sync, applied, crossed, cut, calm, faults>>,
           row' \in [Refs -> RowType], threads' \in [Refs -> Nat],
           \A s \in Refs : /\ row'[s].ver = row[s].ver /\ row'[s].hash = row[s].hash /\ row'[s].hidden = row[s].hidden
                           /\ ~Stored(s) => row'[s] = row[s]
                           /\ row'[s].hidden => row'[s].thread
                           /\ threads'[s] = IF Stored(s)' /\ row'[s].thread THEN 1 ELSE 0
                           /\ row'[s].final # 0 => row'[s].final = row'[s].hash
    PROVE  IInv'
<1> TypeOK /\ Backend /\ Rows /\ RunsInv
  BY DEF IInv
<1>1. UNCHANGED <<gen, up, imported>>
  BY DEF backend
<1>2. run' \in [Runs -> Run] /\ RunsInv'
  BY <1>1, RunsKeep
<1>3. TypeOK'
  BY <1>1, <1>2 DEF TypeOK, RowType
<1>4. Backend'
  BY <1>1, BackendKeeps
<1>5. Rows'
  <2>1. \A s \in Refs : Stored(s)' = Stored(s)
    BY DEF Stored
  <2>2. \A s \in Refs : Mirrored(s) => Mirrored(s)'
    BY <1>1, <2>1 DEF Mirrored
  <2>3. \A s \in Refs \ crossed' : applied'[s] = up'[s].gen => Mirrored(s)'
    BY <1>1, <2>2 DEF Rows
  <2>4. \A s \in Refs : ~Stored(s)' => row'[s] = NoSurvey
    BY <2>1 DEF Rows
  <2> QED BY <2>3, <2>4 DEF Rows, OneThread, FinalCountNamed
<1> QED BY <1>2, <1>3, <1>4, <1>5 DEF IInv

LEMMA PublishStep ==
    ASSUME IInv, NEW g \in Runs, NEW s \in Refs, Publish(g, s)
    PROVE  IInv'
<1> TypeOK /\ Backend /\ Rows /\ RunsInv
  BY DEF IInv
<1>1. run[g].todo \ {s} \subseteq Refs \cup [ref : Refs, hash : Version]
  BY DEF TypeOK, Run
<1>2. PICK q \in Run : run' = [run EXCEPT ![g] = q] /\ Sound(q, gen, up, applied) /\ Formed(q)
  <2>1. Todo(g, "publish", run[g].todo \ {s}, "finals")
    BY DEF Publish
  <2> QED BY <1>1, <2>1, TodoSound DEF Writing
<1>3. UNCHANGED <<clock, backend, tally, queue, sync, applied, crossed, cut, calm, faults>>
  BY DEF Publish
<1>4. row \in [Refs -> RowType] /\ threads \in [Refs -> Nat] /\ OneThread /\ FinalCountNamed
      /\ \A t \in Refs : row[t].hidden => row[t].thread
  BY DEF TypeOK, RowType, Rows
<1>5. CASE Unclaimed(s)
  <2>1. row' = [row EXCEPT ![s] = [row[s] EXCEPT !.thread = TRUE]] /\ threads' = [threads EXCEPT ![s] = threads[s] + 1]
    BY <1>5 DEF Publish
  <2> DEFINE new == [row[s] EXCEPT !.thread = TRUE]
  <2>2. /\ new \in RowType /\ new.ver = row[s].ver /\ new.hash = row[s].hash /\ new.hidden = row[s].hidden
        /\ new.final = row[s].final /\ new.thread = TRUE
    BY <1>4 DEF RowType
  <2>3. row' = [row EXCEPT ![s] = new]
    BY <2>1
  <2> HIDE DEF new
  <2>4. row' \in [Refs -> RowType] /\ row'[s] = new /\ \A t \in Refs \ {s} : row'[t] = row[t]
    BY <1>4, <2>2, <2>3
  <2>5. threads' \in [Refs -> Nat] /\ threads'[s] = threads[s] + 1 /\ \A t \in Refs \ {s} : threads'[t] = threads[t]
    BY <1>4, <2>1
  <2>6. Stored(s) /\ threads[s] = 0
    BY <1>4, <1>5 DEF Unclaimed, OneThread
  <2>7. threads'[s] = 1 /\ Stored(s)'
    BY <2>2, <2>4, <2>5, <2>6 DEF Stored
  <2>8. ASSUME NEW t \in Refs
        PROVE  /\ row'[t].ver = row[t].ver /\ row'[t].hash = row[t].hash /\ row'[t].hidden = row[t].hidden
               /\ ~Stored(t) => row'[t] = row[t]
               /\ row'[t].hidden => row'[t].thread
               /\ threads'[t] = IF Stored(t)' /\ row'[t].thread THEN 1 ELSE 0
               /\ row'[t].final # 0 => row'[t].final = row'[t].hash
    <3>1. CASE t = s
      BY <1>4, <2>2, <2>4, <2>6, <2>7, <3>1 DEF FinalCountNamed
    <3>2. CASE t # s
      BY <1>4, <2>4, <2>5, <3>2 DEF FinalCountNamed, OneThread, Stored
    <3> QED BY <3>1, <3>2
  <2> QED BY <1>2, <1>3, <2>4, <2>5, <2>8, RowStep
<1>6. CASE ~Unclaimed(s)
  <2>1. UNCHANGED <<row, threads>>
    BY <1>6 DEF Publish
  <2> QED BY <1>2, <1>3, <1>4, <2>1, RowStep DEF FinalCountNamed, OneThread, Stored
<1> QED BY <1>5, <1>6

\* One request for a final count.
LEMMA FinalSound ==
    ASSUME IInv, NEW g \in Runs, NEW a \in run[g].todo, FinalAsked(g, a)
    PROVE  \E q \in Run : run' = [run EXCEPT ![g] = q] /\ Sound(q, gen, up, applied) /\ Formed(q)
<1> DEFINE pc == IF run[g].todo = {a} THEN "missing" ELSE "final"
           left == Spend(run[g].left, 1)
           q == [run[g] EXCEPT !.todo = run[g].todo \ {a}, !.left = left, !.pc = pc]
<1>1. run[g] \in Run /\ run[g].left \in 0..Allowance /\ run[g].todo \ {a} \subseteq Refs \cup [ref : Refs, hash : Version]
  BY DEF IInv, TypeOK, Run
<1>2. left \in 0..Allowance
  <2>1. 1 \in Nat
    OBVIOUS
  <2> QED BY <1>1, <2>1, SpendType
<1>3. pc \in Writing
  BY DEF Writing
<1>4. run' = [run EXCEPT ![g] = q]
  BY DEF FinalAsked, Set
<1> HIDE DEF left, pc
<1>5. q \in Run /\ Sound(q, gen, up, applied) /\ Formed(q)
  BY <1>1, <1>2, <1>3, MoveStep
<1> HIDE DEF q
<1> QED BY <1>4, <1>5

\* A final count reaches the survey only if it still names the artifact.
LEMMA ReadFinalStep ==
    ASSUME IInv, NEW g \in Runs, NEW a \in run[g].todo, ReadFinal(g, a)
    PROVE  IInv'
<1> TypeOK /\ Backend /\ Rows /\ RunsInv
  BY DEF IInv
<1>1. PICK q \in Run : run' = [run EXCEPT ![g] = q] /\ Sound(q, gen, up, applied) /\ Formed(q)
  BY FinalSound DEF ReadFinal
<1>2. UNCHANGED <<clock, backend, tally, queue, sync, threads, applied, crossed, cut, calm, faults>>
  BY DEF ReadFinal, FinalAsked, history
<1>3. row \in [Refs -> RowType] /\ threads \in [Refs -> Nat] /\ OneThread /\ FinalCountNamed
      /\ \A t \in Refs : row[t].hidden => row[t].thread
  BY DEF TypeOK, RowType, Rows
<1>4. CASE Awaits(a) /\ a.ref \in Refs
  <2> DEFINE s == a.ref
             new == [row[s] EXCEPT !.final = a.hash]
  <2>1. row' = [row EXCEPT ![s] = new]
    BY <1>4 DEF ReadFinal, FinalAsked
  <2>2. s \in Refs /\ row[s].hash = a.hash /\ Stored(s)
    BY <1>4 DEF Awaits
  <2>3. /\ new \in RowType /\ new.ver = row[s].ver /\ new.hash = row[s].hash /\ new.hidden = row[s].hidden
        /\ new.final = row[s].hash /\ new.thread = row[s].thread
    BY <1>3, <2>2 DEF RowType
  <2> HIDE DEF new, s
  <2>4. row' \in [Refs -> RowType] /\ row'[s] = new /\ \A t \in Refs \ {s} : row'[t] = row[t]
    BY <1>3, <2>1, <2>2, <2>3
  <2>5. ASSUME NEW t \in Refs
        PROVE  /\ row'[t].ver = row[t].ver /\ row'[t].hash = row[t].hash /\ row'[t].hidden = row[t].hidden
               /\ ~Stored(t) => row'[t] = row[t]
               /\ row'[t].hidden => row'[t].thread
               /\ threads'[t] = IF Stored(t)' /\ row'[t].thread THEN 1 ELSE 0
               /\ row'[t].final # 0 => row'[t].final = row'[t].hash
    <3>1. CASE t = s
      BY <1>2, <1>3, <2>2, <2>3, <2>4, <3>1 DEF OneThread, Stored
    <3>2. CASE t # s
      BY <1>2, <1>3, <2>4, <3>2 DEF FinalCountNamed, OneThread, Stored
    <3> QED BY <3>1, <3>2
  <2> QED BY <1>1, <1>2, <1>3, <2>4, <2>5, RowStep
<1>5. CASE ~(Awaits(a) /\ a.ref \in Refs)
  <2>1. row' = row
    <3>1. CASE ~Awaits(a)
      BY <3>1 DEF ReadFinal, FinalAsked
    <3>2. CASE a.ref \notin Refs
      <4>1. row' = row \/ row' = [row EXCEPT ![a.ref] = [row[a.ref] EXCEPT !.final = a.hash]]
        BY DEF ReadFinal, FinalAsked
      <4> QED BY <1>3, <3>2, <4>1
    <3> QED BY <1>5, <3>1, <3>2
  <2> QED BY <1>1, <1>2, <1>3, <2>1, RowStep DEF FinalCountNamed, OneThread, Stored
<1> QED BY <1>4, <1>5

-----------------------------------------------------------------------------
(* The queue and the tallies.                                              *)

LEMMA RequeueStep ==
    ASSUME IInv, NEW g \in Runs, Requeue(g)
    PROVE  IInv'
<1> TypeOK
  BY DEF IInv
<1> DEFINE q == [run[g] EXCEPT !.todo = {}, !.pc = "take"]
<1>1. run[g] \in Run /\ run[g].left \in 0..Allowance /\ run[g].now \in 0..MaxClock
  BY DEF TypeOK, Run
<1>2. q = [run[g] EXCEPT !.todo = {}, !.left = run[g].left, !.pc = "take"]
  BY <1>1 DEF Run
<1>3. q \in Run /\ Sound(q, gen, up, applied) /\ Formed(q)
  BY <1>1, <1>2, MoveStep DEF Writing
<1>4. queue' \in QueueType
  BY <1>1, EnqueuedType DEF Requeue
<1>5. crossed' \subseteq Refs /\ crossed \subseteq crossed'
  <2>1. crossed' = crossed \cup {s \in run[g].todo : Overtaken(g, s)} /\ crossed \subseteq Refs
    BY DEF Requeue, TypeOK
  <2>2. \A s : Overtaken(g, s) => s \in Refs
    <3>1. SUFFICES ASSUME NEW h \in Runs, run[h].work # <<>> PROVE Head(run[h].work) \in Refs
      BY DEF Overtaken
    <3>2. run[h].work \in Seq(Refs)
      BY DEF TypeOK, Run
    <3> QED BY <3>1, <3>2
  <2> QED BY <2>1, <2>2
<1>6. /\ run' = [run EXCEPT ![g] = q]
      /\ UNCHANGED <<clock, backend, row, tally, sync, threads, applied, cut, calm, faults>>
      /\ cut \subseteq Refs /\ clock \in 0..MaxClock /\ faults \in 0..MaxFaults
      /\ calm \in [since : 0..MaxClock, runs : Nat] /\ tally \in [Refs -> Bundle]
  BY DEF Requeue, Set, TypeOK
<1> HIDE DEF q
<1> QED BY <1>3, <1>4, <1>5, <1>6, MemoryStep DEF QueueType

CalmType == [since : 0..MaxClock, runs : Nat]

\* A run ends and keeps nothing.
LEMMA EndSound ==
    ASSUME IInv, NEW g \in Runs, End(g)
    PROVE  /\ \E q \in Run : run' = [run EXCEPT ![g] = q] /\ Sound(q, gen, up, applied) /\ Formed(q)
           /\ calm' \in CalmType
<1> TypeOK /\ Backend
  BY DEF IInv
<1>1. run' = [run EXCEPT ![g] = Asleep]
  BY DEF End, Set
<1>2. calm \in CalmType /\ [calm EXCEPT !.runs = calm.runs + 1] \in CalmType
  BY DEF TypeOK, CalmType
<1>3. calm' \in CalmType
  BY <1>2 DEF End
<1> QED BY <1>1, <1>3, AsleepSound

\* A run goes on within the queue it took.
LEMMA WorkSound ==
    ASSUME IInv, NEW g \in Runs, NEW pc \in Working, NEW work \in Seq(Refs), work # <<>>,
           NEW left \in 0..Allowance, NEW got \in Bundle,
           NEW q, q = [run[g] EXCEPT !.work = work, !.left = left, !.got = got, !.pc = pc]
    PROVE  q \in Run /\ Sound(q, gen, up, applied) /\ Formed(q)
<1>1. run[g] \in Run
  BY DEF IInv, TypeOK
<1>2. pc \in Stage /\ pc \notin Delivering /\ pc # "fetch"
  BY DEF Working, Stage, Delivering
<1>3. q \in Run
  BY <1>1, <1>2 DEF Run
<1>4. q.cursor = run[g].cursor /\ q.asOf = run[g].asOf /\ q.page = run[g].page /\ q.pc = pc /\ q.work = work
  BY <1>1 DEF Run
<1>5. Formed(q)
  BY <1>2, <1>4 DEF Formed
<1> QED BY <1>2, <1>3, <1>4, <1>5, CursorSound

\* The memory of a run that works on its queue.
LEMMA WorkFacts ==
    ASSUME IInv, NEW g \in Runs, run[g].pc \in Working
    PROVE  /\ run[g] \in Run /\ run[g].work \in Seq(Refs) /\ run[g].work # <<>>
           /\ Head(run[g].work) \in Refs /\ Tail(run[g].work) \in Seq(Refs)
           /\ run[g].left \in 0..Allowance /\ run[g].got \in Bundle /\ run[g].now \in 0..MaxClock
           /\ calm \in CalmType /\ NoBundle \in Bundle
<1>1. run[g] \in Run /\ Formed(run[g]) /\ calm \in CalmType
  BY DEF IInv, TypeOK, RunsInv, CalmType
<1>2. run[g].work \in Seq(Refs) /\ run[g].work # <<>>
  BY <1>1 DEF Run, Formed
<1>3. Head(run[g].work) \in Refs /\ Tail(run[g].work) \in Seq(Refs)
  BY <1>2
<1> QED BY <1>1, <1>2, <1>3, EmptyPage DEF Run

\* The step from one survey of the queue to the next, or to the end.
LEMMA NextSound ==
    ASSUME IInv, NEW g \in Runs, run[g].pc \in Working, NEW left \in 0..Allowance, NextItem(g, left)
    PROVE  /\ \E q \in Run : run' = [run EXCEPT ![g] = q] /\ Sound(q, gen, up, applied) /\ Formed(q)
           /\ calm' \in CalmType
<1> DEFINE rest == Tail(run[g].work)
           q == [run[g] EXCEPT !.work = rest, !.left = left, !.got = NoBundle, !.pc = "mark"]
<1>1. rest \in Seq(Refs) /\ calm \in CalmType /\ NoBundle \in Bundle
  BY WorkFacts
<1>2. CASE rest = <<>> \/ left = 0
  <2>1. End(g)
    BY <1>2 DEF NextItem
  <2> QED BY <2>1, EndSound
<1>3. CASE ~(rest = <<>> \/ left = 0)
  <2>1. run' = [run EXCEPT ![g] = q] /\ UNCHANGED calm
    BY <1>3 DEF NextItem, Set
  <2> HIDE DEF rest
  <2>2. q \in Run /\ Sound(q, gen, up, applied) /\ Formed(q)
    BY <1>1, <1>3, WorkSound DEF Working
  <2> HIDE DEF q
  <2> QED BY <1>1, <2>1, <2>2
<1> QED BY <1>2, <1>3

\* The steps that only read on behalf of the queue.
LEMMA ReadStep ==
    ASSUME IInv, NEW g \in Runs, Take(g) \/ ReadSurvey(g) \/ FetchBundle(g)
    PROVE  IInv'
<1>1. UNCHANGED <<clock, backend, tables, history, faults>>
  BY DEF Take, ReadSurvey, FetchBundle, BundleCost
<1>2. calm \in CalmType
  BY DEF IInv, TypeOK, CalmType
<1> SUFFICES /\ \E q \in Run : run' = [run EXCEPT ![g] = q] /\ Sound(q, gen, up, applied) /\ Formed(q)
             /\ calm' \in CalmType
  BY <1>1, LocalStep DEF CalmType
<1>3. CASE Take(g)
  <2>1. PICK w \in Orders({s \in Refs : Queued(s)}) :
          IF w = <<>> \/ run[g].left = 0 THEN End(g)
          ELSE Set(g, [run[g] EXCEPT !.work = w, !.pc = "mark"]) /\ UNCHANGED calm
    BY <1>3 DEF Take
  <2>2. w \in Seq(Refs)
    <3> DEFINE S == {s \in Refs : Queued(s)}
    <3>1. w \in [1..Cardinality(S) -> S] /\ S \subseteq Refs
      BY DEF Orders
    <3>2. Cardinality(S) \in Nat
      <4>1. IsFiniteSet(Refs)
        BY SurveysAssumption DEF SurveysAssumption
      <4> QED BY <4>1, <3>1, FS_Subset, FS_CardinalityType
    <3> QED BY <3>1, <3>2
  <2>3. CASE w = <<>> \/ run[g].left = 0
    BY <2>1, <2>3, EndSound
  <2>4. CASE ~(w = <<>> \/ run[g].left = 0)
    <3> DEFINE q == [run[g] EXCEPT !.work = w, !.pc = "mark"]
    <3>1. run' = [run EXCEPT ![g] = q] /\ UNCHANGED calm
      BY <2>1, <2>4 DEF Set
    <3>2. run[g] \in Run /\ run[g].left \in 0..Allowance /\ run[g].got \in Bundle
      BY DEF IInv, TypeOK, Run
    <3>3. q = [run[g] EXCEPT !.work = w, !.left = run[g].left, !.got = run[g].got, !.pc = "mark"]
      BY <3>2 DEF Run
    <3> HIDE DEF q
    <3>4. w # <<>> /\ "mark" \in Working
      BY <2>4 DEF Working
    <3>5. q \in Run /\ Sound(q, gen, up, applied) /\ Formed(q)
      BY <2>2, <3>2, <3>3, <3>4, WorkSound
    <3> QED BY <1>2, <3>1, <3>5
  <2> QED BY <2>3, <2>4
<1>4. CASE ReadSurvey(g)
  <2>1. run[g].pc \in Working
    BY <1>4 DEF ReadSurvey, Working
  <2> DEFINE s == Head(run[g].work)
             b == [ver |-> 0, hash |-> row[s].hash]
             q == [run[g] EXCEPT !.got = b, !.pc = "bundle"]
  <2>2. CASE Live(s)
    <3>1. run' = [run EXCEPT ![g] = q] /\ UNCHANGED calm
      BY <1>4, <2>2 DEF ReadSurvey, Set
    <3>2. run[g] \in Run /\ run[g].left \in 0..Allowance /\ run[g].work \in Seq(Refs) /\ run[g].work # <<>> /\ s \in Refs
      BY <2>1, WorkFacts
    <3>3. b \in Bundle
      BY <3>2, EmptyPage DEF IInv, TypeOK, Bundle
    <3> HIDE DEF b
    <3>4. q = [run[g] EXCEPT !.work = run[g].work, !.left = run[g].left, !.got = b, !.pc = "bundle"]
      BY <3>2 DEF Run
    <3>5. q \in Run /\ Sound(q, gen, up, applied) /\ Formed(q)
      BY <3>2, <3>3, <3>4, WorkSound DEF Working
    <3> HIDE DEF q
    <3> QED BY <1>2, <3>1, <3>5
  <2>3. CASE ~Live(s)
    <3>1. NextItem(g, run[g].left) /\ run[g].left \in 0..Allowance
      BY <1>4, <2>1, <2>3, WorkFacts DEF ReadSurvey
    <3> QED BY <2>1, <3>1, NextSound
  <2> QED BY <2>2, <2>3
<1>5. CASE FetchBundle(g)
  <2>1. run[g].pc \in Working
    BY <1>5 DEF FetchBundle, BundleCost, Working
  <2> DEFINE s == Head(run[g].work)
             cost == Cost[s] + IF run[g].got.hash > 0 THEN 1 ELSE 0
             b == [ver |-> up[s].gen, hash |-> run[g].got.hash]
             left == run[g].left - cost
             q == [run[g] EXCEPT !.got = b, !.left = left, !.pc = "store"]
  <2>2. /\ run[g] \in Run /\ run[g].left \in 0..Allowance /\ run[g].work \in Seq(Refs) /\ run[g].work # <<>>
        /\ s \in Refs /\ run[g].got \in Bundle
    BY <2>1, WorkFacts
  <2>3. cost \in Nat
    BY <2>2, SurveysAssumption DEF SurveysAssumption
  <2>4. \/ NextItem(g, Spend(run[g].left, cost))
        \/ ~(run[g].left < cost) /\ run' = [run EXCEPT ![g] = q] /\ UNCHANGED calm
    BY <1>5 DEF FetchBundle, BundleCost, Set
  <2> HIDE DEF cost
  <2>5. CASE NextItem(g, Spend(run[g].left, cost))
    <3>1. Spend(run[g].left, cost) \in 0..Allowance
      BY <2>2, <2>3, SpendType
    <3> QED BY <2>1, <2>5, <3>1, NextSound
  <2>6. CASE ~(run[g].left < cost) /\ run' = [run EXCEPT ![g] = q] /\ UNCHANGED calm
    <3>1. b \in Bundle
      BY <2>2 DEF IInv, TypeOK, Bundle
    <3>2. left \in 0..Allowance
      <4>1. Allowance \in Nat
        BY SurveysAssumption DEF SurveysAssumption
      <4> QED BY <2>2, <2>3, <2>6, <4>1
    <3> HIDE DEF b, left
    <3>3. q = [run[g] EXCEPT !.work = run[g].work, !.left = left, !.got = b, !.pc = "store"]
      BY <2>2 DEF Run
    <3> HIDE DEF q
    <3>4. "store" \in Working
      BY DEF Working
    <3>5. q \in Run /\ Sound(q, gen, up, applied) /\ Formed(q)
      BY <2>2, <3>1, <3>2, <3>3, <3>4, WorkSound
    <3> QED BY <1>2, <2>6, <3>5
  <2> QED BY <2>4, <2>5, <2>6
<1> QED BY <1>3, <1>4, <1>5

LEMMA TallyStep ==
    ASSUME IInv, NEW g \in Runs, Mark(g) \/ StoreTally(g) \/ Dequeue(g)
    PROVE  IInv'
<1> TypeOK
  BY DEF IInv
<1> DEFINE s == Head(run[g].work)
<1>1. run[g].pc \in Working
  BY DEF Mark, StoreTally, Dequeue, Working
<1>2. /\ run[g] \in Run /\ run[g].left \in 0..Allowance /\ run[g].work \in Seq(Refs) /\ run[g].work # <<>>
      /\ s \in Refs /\ run[g].got \in Bundle /\ run[g].now \in 0..MaxClock /\ calm \in CalmType
  BY <1>1, WorkFacts
<1>3. /\ UNCHANGED <<clock, backend, row, sync, threads, applied, cut, faults>>
      /\ cut \subseteq Refs /\ crossed \subseteq Refs /\ clock \in 0..MaxClock /\ faults \in 0..MaxFaults
      /\ queue \in QueueType /\ tally \in [Refs -> Bundle]
  BY DEF Mark, StoreTally, Dequeue, history, TypeOK, QueueType
<1> HIDE DEF s
<1>4. ASSUME NEW pc \in {"read", "dequeue"}
      PROVE  /\ [run[g] EXCEPT !.pc = pc] \in Run
             /\ Sound([run[g] EXCEPT !.pc = pc], gen, up, applied) /\ Formed([run[g] EXCEPT !.pc = pc])
  <2> DEFINE q == [run[g] EXCEPT !.pc = pc]
  <2>1. q = [run[g] EXCEPT !.work = run[g].work, !.left = run[g].left, !.got = run[g].got, !.pc = pc]
    BY <1>2 DEF Run
  <2> HIDE DEF q
  <2>2. q \in Run /\ Sound(q, gen, up, applied) /\ Formed(q)
    BY <1>2, <2>1, WorkSound DEF Working
  <2> QED BY <2>2 DEF q
<1>5. CASE Mark(g)
  <2> DEFINE q == [run[g] EXCEPT !.pc = "read"]
  <2>1. q \in Run /\ Sound(q, gen, up, applied) /\ Formed(q)
    BY <1>4
  <2>2. run' = [run EXCEPT ![g] = q] /\ UNCHANGED <<tally, crossed, calm>>
    BY <1>5 DEF Mark, Go, Set, history
  <2> HIDE DEF q
  <2>3. queue' \in QueueType
    <3>1. queue' = queue \/ queue' = [queue EXCEPT ![s] = [queue[s] EXCEPT !.last = run[g].now]]
      BY <1>5 DEF Mark, s
    <3>2. [queue[s] EXCEPT !.last = run[g].now] \in [at : 0..MaxClock, last : 0..MaxClock]
      BY <1>2, <1>3 DEF QueueType
    <3> QED BY <1>3, <3>1, <3>2 DEF QueueType
  <2> QED BY <1>2, <1>3, <2>1, <2>2, <2>3, MemoryStep DEF QueueType, CalmType
<1>6. CASE StoreTally(g)
  <2>1. queue' \in QueueType
    BY <1>3, <1>6 DEF StoreTally
  <2>2. tally' \in [Refs -> Bundle] /\ crossed \subseteq crossed' /\ crossed' \subseteq Refs
    <3>1. \/ tally' = [tally EXCEPT ![s] = run[g].got] /\ (crossed' = crossed \cup {s} \/ crossed' = crossed)
          \/ UNCHANGED <<tally, crossed>>
      BY <1>6 DEF StoreTally, s
    <3> QED BY <1>2, <1>3, <3>1
  <2>3. /\ \E q \in Run : run' = [run EXCEPT ![g] = q] /\ Sound(q, gen, up, applied) /\ Formed(q)
        /\ calm' \in CalmType
    <3>1. \/ run' = [run EXCEPT ![g] = [run[g] EXCEPT !.pc = "dequeue"]] /\ UNCHANGED calm
          \/ NextItem(g, run[g].left)
      BY <1>6 DEF StoreTally, Go, Set
    <3>2. CASE run' = [run EXCEPT ![g] = [run[g] EXCEPT !.pc = "dequeue"]] /\ UNCHANGED calm
      BY <1>2, <1>4, <3>2
    <3>3. CASE NextItem(g, run[g].left)
      BY <1>1, <1>2, <3>3, NextSound
    <3> QED BY <3>1, <3>2, <3>3
  <2> QED BY <1>3, <2>1, <2>2, <2>3, MemoryStep DEF QueueType, CalmType
<1>7. CASE Dequeue(g)
  <2>1. queue' \in QueueType /\ UNCHANGED <<tally, crossed>>
    <3>1. NotQueued \in [at : 0..MaxClock, last : 0..MaxClock]
      BY SurveysAssumption DEF SurveysAssumption, NotQueued
    <3>2. queue' = queue \/ queue' = [queue EXCEPT ![s] = NotQueued]
      BY <1>7 DEF Dequeue, s
    <3> QED BY <1>3, <1>7, <3>1, <3>2 DEF Dequeue, history, QueueType
  <2>2. NextItem(g, run[g].left)
    BY <1>7 DEF Dequeue
  <2>3. /\ \E q \in Run : run' = [run EXCEPT ![g] = q] /\ Sound(q, gen, up, applied) /\ Formed(q)
        /\ calm' \in CalmType
    BY <1>1, <1>2, <2>2, NextSound
  <2> QED BY <1>3, <2>1, <2>3, MemoryStep DEF QueueType, CalmType
<1> QED BY <1>5, <1>6, <1>7

-----------------------------------------------------------------------------
(* Failures.                                                               *)

\* More than one survey leaves another to go on with.
LEMMA LongTail ==
    ASSUME NEW S, NEW w \in Seq(S), Len(w) > 1
    PROVE  Tail(w) # <<>>
<1>1. Len(Tail(w)) = Len(w) - 1 /\ Len(w) \in Nat
  OBVIOUS
<1>2. Len(Tail(w)) # 0
  <2> DEFINE n == Len(w) k == Len(Tail(w))
  <2>1. n \in Nat /\ n > 1 /\ k = n - 1
    BY <1>1
  <2> HIDE DEF n, k
  <2>2. k # 0
    BY <2>1
  <2> QED BY <2>2 DEF k
<1>3. Len(<<>>) = 0
  OBVIOUS
<1> QED BY Zenon, <1>2, <1>3

\* The requests that a failed call had made are counted.
LEMMA AskedFacts ==
    ASSUME IInv, NEW g \in Runs, NEW n \in Asked(g)
    PROVE  n \in Nat
<1>1. CASE run[g].pc = "bundle"
  <2>1. run[g].pc \in Working
    BY <1>1 DEF Working
  <2>2. Head(run[g].work) \in Refs
    BY <2>1, WorkFacts
  <2>3. BundleCost(g) \in Nat
    BY <2>2, SurveysAssumption DEF SurveysAssumption, BundleCost
  <2>4. n \in 1..BundleCost(g)
    BY <1>1 DEF Asked
  <2> QED BY <2>3, <2>4
<1>2. CASE run[g].pc # "bundle"
  BY <1>2 DEF Asked
<1> QED BY <1>1, <1>2

\* A call of a pass fails, a survey fails, or the run is over.
LEMMA FailStep ==
    ASSUME IInv, NEW g \in Runs, PassFails(g) \/ ItemFails(g) \/ RunFails(g)
    PROVE  IInv'
<1> TypeOK /\ Backend
  BY DEF IInv
<1>1. run[g] \in Run /\ Sound(run[g], gen, up, applied)
  BY DEF IInv, TypeOK, RunsInv
<1>2. /\ UNCHANGED <<clock, backend, tables, threads, applied, crossed>>
      /\ crossed \subseteq Refs /\ clock \in 0..MaxClock
      /\ tally \in [Refs -> Bundle] /\ queue \in QueueType
  BY DEF PassFails, ItemFails, RunFails, history, TypeOK, QueueType
<1>3. faults' \in 0..MaxFaults /\ calm' \in CalmType
  <2>1. Fault
    BY DEF PassFails, ItemFails, RunFails
  <2>2. faults' \in 0..MaxFaults
    BY <2>1, SurveysAssumption DEF SurveysAssumption, Fault, TypeOK
  <2> QED BY <1>2, <2>1, <2>2 DEF Fault, Disturbed, CalmType
<1>4. cut' \subseteq Refs
  <2>1. run[g].drop \subseteq Refs /\ cut \subseteq Refs
    BY <1>1 DEF Run, TypeOK
  <2>2. cut' = cut \/ cut' = cut \cup run[g].drop
    BY DEF PassFails, ItemFails, RunFails, Broken, history
  <2> QED BY <2>1, <2>2
<1>5. ASSUME NEW pc \in {"finals", "missing"}, Go(g, pc)
      PROVE  \E q \in Run : run' = [run EXCEPT ![g] = q] /\ Sound(q, gen, up, applied) /\ Formed(q)
  <2> DEFINE q == [run[g] EXCEPT !.pc = pc]
  <2>1. run' = [run EXCEPT ![g] = q]
    BY <1>5 DEF Go, Set
  <2>2. run[g].todo \subseteq Refs \cup [ref : Refs, hash : Version] /\ run[g].left \in 0..Allowance
    BY <1>1 DEF Run
  <2>3. q = [run[g] EXCEPT !.todo = run[g].todo, !.left = run[g].left, !.pc = pc]
    BY <1>1 DEF Run
  <2> HIDE DEF q
  <2>4. q \in Run /\ Sound(q, gen, up, applied) /\ Formed(q)
    BY <2>2, <2>3, MoveStep DEF Writing
  <2> QED BY <2>1, <2>4
<1>6. CASE PassFails(g)
  <2>1. CASE \E n \in Asked(g) :
               Set(g, [run[g] EXCEPT !.page = NoPage, !.drop = {}, !.left = Spend(run[g].left, n), !.pc = "put"])
    <3>0. PICK n \in Asked(g) :
               Set(g, [run[g] EXCEPT !.page = NoPage, !.drop = {}, !.left = Spend(run[g].left, n), !.pc = "put"])
      BY <2>1
    <3> DEFINE left == Spend(run[g].left, n)
               q == [run[g] EXCEPT !.page = NoPage, !.drop = {}, !.left = left, !.pc = "put"]
    <3>1. run' = [run EXCEPT ![g] = q]
      BY <3>0 DEF Set
    <3>7. left \in 0..Allowance
      <4>1. run[g].left \in 0..Allowance
        BY <1>1 DEF Run
      <4> QED BY <4>1, AskedFacts, SpendType
    <3> HIDE DEF left
    <3>2. q \in Run
      BY <1>1, <3>7, EmptyPage DEF Run, Stage
    <3>3. q.page = NoPage /\ q.cursor = run[g].cursor /\ q.asOf = run[g].asOf /\ q.pc = "put"
      BY <1>1 DEF Run
    <3> HIDE DEF q
    <3>4. /\ q.pc \notin Delivering /\ q.cursor \in Version /\ q.asOf \in Version /\ q.cursor <= gen /\ q.asOf <= gen
          /\ Caught(q.cursor, up, applied) /\ Caught(q.asOf, up, applied)
      BY <1>1, <3>3 DEF Delivering, Run, Sound
    <3>5. Sound(q, gen, up, applied)
      BY <3>3, <3>4, PagelessSound
    <3>6. Formed(q)
      BY <3>3 DEF Formed, Working
    <3> QED BY <1>2, <1>3, <1>4, <3>1, <3>2, <3>5, <3>6, MemoryStep DEF QueueType, CalmType, tables
  <2>2. CASE Go(g, "finals") \/ Go(g, "missing")
    <3>1. PICK q \in Run : run' = [run EXCEPT ![g] = q] /\ Sound(q, gen, up, applied) /\ Formed(q)
      BY <1>5, <2>2
    <3> QED BY <1>2, <1>3, <1>4, <3>1, MemoryStep DEF QueueType, CalmType, tables
  <2> QED BY <1>6, <2>1, <2>2 DEF PassFails
<1>7. CASE ItemFails(g)
  <2>1. PICK q \in Run : run' = [run EXCEPT ![g] = q] /\ Sound(q, gen, up, applied) /\ Formed(q)
    <3>0. CASE \E s \in run[g].todo : FinalAsked(g, s)
      BY <3>0, FinalSound
    <3>1. CASE \E s \in run[g].todo : Todo(g, "publish", run[g].todo \ {s}, "finals")
      <4>1. PICK s \in run[g].todo : Todo(g, "publish", run[g].todo \ {s}, "finals")
        BY <3>1
      <4>2. run[g].todo \ {s} \subseteq Refs \cup [ref : Refs, hash : Version]
        BY <1>1 DEF Run
      <4> QED BY <4>1, <4>2, TodoSound DEF Writing
    <3>2. CASE /\ run[g].pc \in {"read", "bundle", "store", "dequeue"} /\ Len(run[g].work) > 1
               /\ \E n \in Asked(g) :
                    /\ n < run[g].left
                    /\ Set(g, [run[g] EXCEPT !.work = Tail(run[g].work), !.left = run[g].left - n, !.got = NoBundle,
                                             !.pc = "mark"])
      <4>0. PICK n \in Asked(g) :
                    /\ n < run[g].left
                    /\ Set(g, [run[g] EXCEPT !.work = Tail(run[g].work), !.left = run[g].left - n, !.got = NoBundle,
                                             !.pc = "mark"])
        BY <3>2
      <4> DEFINE rest == Tail(run[g].work)
                 left == run[g].left - n
                 q == [run[g] EXCEPT !.work = rest, !.left = left, !.got = NoBundle, !.pc = "mark"]
      <4>1. run[g].pc \in Working
        BY <3>2 DEF Working
      <4>2. rest \in Seq(Refs) /\ run[g].left \in 0..Allowance /\ NoBundle \in Bundle /\ run[g].work \in Seq(Refs)
        BY <4>1, WorkFacts
      <4>3. rest # <<>>
        BY <3>2, <4>2, LongTail
      <4>4. run' = [run EXCEPT ![g] = q]
        BY <4>0 DEF Set
      <4>5. left \in 0..Allowance
        <5>1. n \in Nat /\ Allowance \in Nat
          BY AskedFacts, SurveysAssumption DEF SurveysAssumption
        <5> QED BY <4>0, <4>2, <5>1
      <4> HIDE DEF rest, left, q
      <4>6. "mark" \in Working
        BY DEF Working
      <4>7. q \in Run /\ Sound(q, gen, up, applied) /\ Formed(q)
        BY <4>2, <4>3, <4>5, <4>6, WorkSound DEF q
      <4> QED BY <4>4, <4>7
    <3> QED BY <1>7, <3>0, <3>1, <3>2 DEF ItemFails
  <2> QED BY <1>2, <1>3, <1>4, <2>1, MemoryStep DEF QueueType, CalmType, tables
<1>8. CASE RunFails(g)
  <2>1. run' = [run EXCEPT ![g] = Asleep]
    BY <1>8 DEF RunFails, Set
  <2> QED BY <1>2, <1>3, <1>4, <2>1, AsleepSound, MemoryStep DEF QueueType, CalmType, tables
<1> QED BY <1>6, <1>7, <1>8

-----------------------------------------------------------------------------
(* The theorems.                                                           *)

LEMMA StutterStep == IInv /\ UNCHANGED vars => IInv'
<1> SUFFICES ASSUME IInv, UNCHANGED vars PROVE IInv'
  OBVIOUS
<1>1. UNCHANGED <<clock, gen, up, imported, row, tally, queue, sync, run, threads, applied, crossed, cut, calm, faults>>
  BY DEF vars
<1>2. TypeOK'
  BY <1>1 DEF IInv, TypeOK
<1>3. Backend'
  BY <1>1, BackendKeeps DEF IInv
<1>4. Rows'
  BY <1>1, RowsKeep DEF IInv
<1>5. RunsInv'
  BY <1>1 DEF IInv, RunsInv
<1> QED BY <1>2, <1>3, <1>4, <1>5 DEF IInv

LEMMA NextStep == IInv /\ [Next]_vars => IInv'
<1> SUFFICES ASSUME IInv, [Next]_vars PROVE IInv'
  OBVIOUS
<1>1. CASE \E s \in Refs : Change(s) \/ Import(s)
  BY <1>1, ChangeStep, ImportStep
<1>2. ASSUME NEW g \in Runs, StartRun(g) \/ PassFails(g) \/ ItemFails(g) \/ RunFails(g)
      PROVE  IInv'
  BY <1>2, StartRunStep, FailStep
<1>3. ASSUME NEW g \in Runs, RunStep(g)
      PROVE  IInv'
  <2>1. CASE Fetch(g) \/ Facts(g) \/ Withdraw(g) \/ Upsert(g) \/ Purge(g) \/ Enqueue(g) \/ Put(g)
    BY <2>1, FetchStep, FactsStep, WithdrawStep, UpsertStep, PurgeStep, EnqueueStep, PutStep
  <2>2. CASE ListPublishable(g) \/ ListAwaiting(g) \/ FindMissing(g)
    BY <2>2, ListStep
  <2>3. CASE \E s \in Refs : Publish(g, s)
    BY <2>3, PublishStep
  <2>4. CASE \E a \in run[g].todo : ReadFinal(g, a)
    BY <2>4, ReadFinalStep
  <2>5. CASE Requeue(g)
    BY <2>5, RequeueStep
  <2>6. CASE Take(g) \/ ReadSurvey(g) \/ FetchBundle(g)
    BY <2>6, ReadStep
  <2>7. CASE Mark(g) \/ StoreTally(g) \/ Dequeue(g)
    BY <2>7, TallyStep
  <2> QED BY <1>3, <2>1, <2>2, <2>3, <2>4, <2>5, <2>6, <2>7 DEF RunStep
<1>4. CASE UNCHANGED vars
  BY <1>4, StutterStep
<1> QED BY <1>1, <1>2, <1>3, <1>4 DEF Next

THEOREM Invariance == Spec => []IInv
<1>1. Init => IInv
  BY InitInv
<1>2. IInv /\ [Next]_vars => IInv'
  BY NextStep
<1> QED BY <1>1, <1>2, PTL DEF Spec

\* Every variable keeps its type, whatever overlaps and whatever fails.
THEOREM TypeCorrect == Spec => []TypeOK
<1>1. IInv => TypeOK
  BY DEF IInv
<1> QED BY <1>1, Invariance, PTL

\* However many publish passes overlap, a survey gets one thread (publishSurvey).
THEOREM OneThreadEver == Spec => []OneThread
<1>1. IInv => OneThread
  BY DEF IInv, Rows
<1> QED BY <1>1, Invariance, PTL

\* A final count stands beside the artifact it was read from (setSurveyFinalCount).
THEOREM FinalCountsNamed == Spec => []FinalCountNamed
<1>1. IInv => FinalCountNamed
  BY DEF IInv, Rows
<1> QED BY <1>1, Invariance, PTL

\* What changed up to the as-of line is in the rows, unless overlapping runs
\* overwrote each other (putSurveySyncState).
THEOREM RowsReflect == Spec => []MirrorReflects
<1>1. IInv => MirrorReflects
  <2>1. SUFFICES ASSUME IInv, NEW s \in Refs \ crossed, up[s].gen <= sync.asOf PROVE Mirrored(s)
    BY DEF MirrorReflects
  <2>2. applied[s] = up[s].gen
    BY <2>1 DEF IInv, Backend, Caught
  <2> QED BY <2>1, <2>2 DEF IInv, Rows
<1> QED BY <1>1, Invariance, PTL

-----------------------------------------------------------------------------
(* The tally of an artifact.  Only four steps can part a tally from the    *)
(* artifact beside it, and each leaves a purge ahead of a run, or the      *)
(* survey in crossed or cut: the two batches of a page, the purge itself   *)
(* and a fault between them.                                               *)

Described(s) == tally[s] # NoTally /\ ~Purging(s) => Stored(s) /\ tally[s].hash = row[s].hash

\* A run that is about to purge s.
Ahead(r, s) == r.pc \in {"upsert", "purge"} /\ s \in r.drop

\* Nothing about s changes, and every purge that was ahead of a run still is.
LEMMA DescribedKeeps ==
    ASSUME TypeOK, NEW s \in Refs, Described(s), NEW g \in Runs, NEW q, run' = [run EXCEPT ![g] = q],
           Ahead(run[g], s) => Ahead(q, s),
           tally'[s] = tally[s], Stored(s)' <=> Stored(s), row'[s].hash = row[s].hash
    PROVE  Described(s)'
<1>1. run'[g] = q /\ \A h \in Runs \ {g} : run'[h] = run[h]
  BY DEF TypeOK
<1>2. Purging(s) => Purging(s)'
  <2>1. SUFFICES ASSUME NEW h \in Runs, Ahead(run[h], s) PROVE \E k \in Runs : Ahead(run'[k], s)
    BY DEF Purging, Ahead
  <2>2. Ahead(run'[h], s)
    BY <1>1, <2>1
  <2> QED BY <2>2
<1> QED BY <1>2 DEF Described

\* A step of a run that is not between the batches of a page leaves its
\* tallies and artifacts alone.
LEMMA QuietStep ==
    ASSUME TypeOK, TallyOfItsArtifact, NEW g \in Runs, NEW q, run' = [run EXCEPT ![g] = q],
           run[g].pc \notin {"upsert", "purge"}, tally' = tally,
           \A s \in Refs : row'[s].ver = row[s].ver /\ row'[s].hash = row[s].hash,
           cut \subseteq cut', crossed \subseteq crossed'
    PROVE  TallyOfItsArtifact'
<1>1. SUFFICES ASSUME NEW s \in Refs, s \notin cut', s \notin crossed' PROVE Described(s)'
  BY DEF TallyOfItsArtifact, Described
<1>2. Described(s)
  BY <1>1 DEF TallyOfItsArtifact, Described
<1>3. ~Ahead(run[g], s)
  BY DEF Ahead
<1> QED BY <1>2, <1>3, DescribedKeeps DEF Stored

\* The steps that write neither a row nor a tally.
LEMMA TallyQuiet ==
    ASSUME IInv, TallyOfItsArtifact, NEW g \in Runs,
           \/ StartRun(g) \/ Fetch(g) \/ Facts(g) \/ Enqueue(g) \/ Put(g) \/ ListPublishable(g) \/ ListAwaiting(g)
           \/ FindMissing(g) \/ Requeue(g) \/ Take(g) \/ Mark(g) \/ ReadSurvey(g) \/ FetchBundle(g) \/ Dequeue(g)
           \/ ItemFails(g)
    PROVE  TallyOfItsArtifact'
<1>1. run[g].pc \notin {"upsert", "purge"}
  <2>1. CASE ItemFails(g)
    BY <2>1 DEF ItemFails
  <2>2. CASE ~ItemFails(g)
    BY <2>2 DEF StartRun, Fetch, Facts, Enqueue, Put, ListPublishable, ListAwaiting, FindMissing, Requeue, Take, Mark,
                ReadSurvey, FetchBundle, BundleCost, Dequeue
  <2> QED BY <2>1, <2>2
<1>2. \E q : run' = [run EXCEPT ![g] = q]
  <2>1. ASSUME NEW left, NextItem(g, left) PROVE \E q : run' = [run EXCEPT ![g] = q]
    BY <2>1 DEF NextItem, End, Set
  <2>2. CASE StartRun(g) \/ Fetch(g) \/ Facts(g) \/ Enqueue(g) \/ Put(g) \/ Requeue(g) \/ Mark(g)
    BY <2>2 DEF StartRun, Fetch, Facts, Enqueue, Put, Requeue, Mark, Set, Go
  <2>3. CASE ListPublishable(g) \/ ListAwaiting(g) \/ FindMissing(g)
    BY <2>3 DEF ListPublishable, ListAwaiting, FindMissing, Todo, Set
  <2>4. CASE Take(g)
    BY <2>4 DEF Take, End, Set
  <2>5. CASE ReadSurvey(g)
    BY <2>1, <2>5 DEF ReadSurvey, Set
  <2>6. CASE FetchBundle(g)
    BY <2>1, <2>6 DEF FetchBundle, BundleCost, Set
  <2>7. CASE Dequeue(g)
    BY <2>1, <2>7 DEF Dequeue
  <2>8. CASE ItemFails(g)
    BY <2>8 DEF ItemFails, FinalAsked, Todo, Set
  <2> QED BY <2>2, <2>3, <2>4, <2>5, <2>6, <2>7, <2>8
<1>3. tally' = tally /\ row' = row /\ cut \subseteq cut' /\ crossed \subseteq crossed'
  <2>1. CASE Enqueue(g) \/ Requeue(g)
    BY <2>1 DEF Enqueue, Requeue
  <2>2. CASE ~Enqueue(g) /\ ~Requeue(g)
    BY <2>2 DEF StartRun, Fetch, Facts, Put, ListPublishable, ListAwaiting, FindMissing, Take, Mark, ReadSurvey,
                FetchBundle, BundleCost, Dequeue, ItemFails, tables, history
  <2> QED BY <2>1, <2>2
<1> QED BY <1>1, <1>2, <1>3, QuietStep DEF IInv

\* A thread and a final count say nothing of the artifact.
LEMMA TallyRows ==
    ASSUME IInv, TallyOfItsArtifact, NEW g \in Runs,
           (\E s \in Refs : Publish(g, s)) \/ (\E a \in run[g].todo : ReadFinal(g, a))
    PROVE  TallyOfItsArtifact'
<1>1. /\ run[g].pc \notin {"upsert", "purge"} /\ \E q : run' = [run EXCEPT ![g] = q]
      /\ tally' = tally /\ cut' = cut /\ crossed' = crossed
  BY DEF Publish, ReadFinal, FinalAsked, Todo, Set, history
<1>2. \A s \in Refs : row'[s].ver = row[s].ver /\ row'[s].hash = row[s].hash
  <2>1. row \in [Refs -> [ver : Version, hash : Version, final : Version, thread : BOOLEAN, hidden : BOOLEAN]]
    BY DEF IInv, TypeOK
  <2>2. CASE \E s \in Refs : Publish(g, s)
    <3>1. PICK s \in Refs : row' = row \/ row' = [row EXCEPT ![s] = [row[s] EXCEPT !.thread = TRUE]]
      BY <2>2 DEF Publish
    <3> QED BY <2>1, <3>1
  <2>3. CASE \E a \in run[g].todo : ReadFinal(g, a)
    <3>1. PICK a \in run[g].todo : row' = row \/ row' = [row EXCEPT ![a.ref] = [row[a.ref] EXCEPT !.final = a.hash]]
      BY <2>3 DEF ReadFinal, FinalAsked
    <3> QED BY <2>1, <3>1
  <2> QED BY <2>2, <2>3
<1> QED BY <1>1, <1>2, QuietStep DEF IInv

\* A page that has something to purge comes to its purge after its batches.
LEMMA PurgeAhead ==
    ASSUME NEW r \in Run, NEW from \in {2, 3}, NEW s \in r.drop
    PROVE  Ahead(Onward(r, from), s)
<1> DEFINE stages == <<"withdraw", "upsert", "purge", "enqueue">>
           due == [withdraw |-> Gone(r.page) # {}, upsert |-> Kept(r.page) # {},
                   purge |-> r.drop # {}, enqueue |-> Kept(r.page) # {}]
           ahead == {k \in from..4 : due[stages[k]]}
           k == CHOOSE i \in ahead : \A j \in ahead : i <= j
           q == [r EXCEPT !.pc = stages[k]]
<1>1. 3 \in ahead
  <2>1. due[stages[3]]
    OBVIOUS
  <2>2. 3 \in from..4
    OBVIOUS
  <2> HIDE DEF due, stages
  <2> QED BY <2>1, <2>2
<1>2. \E i \in ahead : \A j \in ahead : i <= j
  <2>1. ahead \in SUBSET Nat
    OBVIOUS
  <2> QED BY <1>1, <2>1, LeastNat
<1>3. k \in ahead /\ k <= 3
  BY <1>1, <1>2
<1>4. Onward(r, from) = q
  BY <1>1 DEF Onward
<1>5. k \in {2, 3}
  <2>1. ahead \subseteq from..4
    OBVIOUS
  <2> HIDE DEF k, ahead
  <2> QED BY <1>3, <2>1
<1> HIDE DEF k
<1>6. stages[k] \in {"upsert", "purge"}
  BY <1>5
<1> HIDE DEF stages
<1>7. q.pc = stages[k] /\ q.drop = r.drop
  BY DEF Run
<1> QED BY <1>4, <1>6, <1>7 DEF Ahead

\* A row goes, or changes its artifact, as the page found it, and its purge is
\* ahead of the run; or another run came in between.
LEMMA TallyBatch ==
    ASSUME IInv, TallyOfItsArtifact, NEW g \in Runs, Withdraw(g) \/ Upsert(g)
    PROVE  TallyOfItsArtifact'
<1>1. SUFFICES ASSUME NEW s \in Refs, s \notin cut', s \notin crossed' PROVE Described(s)'
  BY DEF TallyOfItsArtifact, Described
<1>2. Described(s) /\ tally' = tally
  <2>1. cut' = cut /\ crossed \subseteq crossed' /\ tally' = tally
    BY DEF Withdraw, Upsert
  <2> QED BY <1>1, <2>1 DEF TallyOfItsArtifact, Described
<1>3. /\ run[g] \in Run /\ TypeOK /\ Truthful(run[g].page.rows, up)
      /\ row \in [Refs -> [ver : Version, hash : Version, final : Version, thread : BOOLEAN, hidden : BOOLEAN]]
  BY DEF IInv, TypeOK, RunsInv, Sound
<1>4. PICK from \in {2, 3} : run' = [run EXCEPT ![g] = Onward(run[g], from)]
  BY DEF Withdraw, Upsert, Set
<1>5. s \in run[g].drop => Ahead(Onward(run[g], from), s)
  BY <1>3, <1>4, PurgeAhead
<1>6. Ahead(run[g], s) => Ahead(Onward(run[g], from), s)
  BY <1>5 DEF Ahead
<1>7. CASE s \in run[g].drop
  <2>1. run'[g] = Onward(run[g], from)
    BY <1>3, <1>4 DEF TypeOK
  <2>2. Purging(s)'
    BY <1>5, <1>7, <2>1 DEF Purging, Ahead
  <2> QED BY <2>2 DEF Described
<1>8. CASE s \notin run[g].drop /\ Withdraw(g)
  <2> DEFINE A == Gone(run[g].page)
  <2>1. CASE s \notin RefsOf(A) \/ ~Stored(s)
    <3>1. row'[s] = row[s]
      BY <1>8, <2>1 DEF Withdraw
    <3> QED BY <1>2, <1>3, <1>4, <1>6, <3>1, DescribedKeeps DEF Stored
  <2>2. CASE s \in RefsOf(A) /\ Stored(s)
    <3>1. PICK a \in A : a.ref = s
      BY <2>2 DEF RefsOf
    <3>2. a \in run[g].page.rows /\ ~a.listed
      BY <1>3, <3>1 DEF Gone, Kept
    <3>3. row[s].thread
      <4>1. ~row[s].thread => s \in Unseen(run[g], A)
        BY <1>8, <2>2, <3>1, <3>2 DEF Unseen
      <4>2. Unseen(run[g], A) \subseteq crossed'
        BY <1>8 DEF Withdraw
      <4> QED BY <1>1, <4>1, <4>2
    <3>4. row'[s] = [row[s] EXCEPT !.hidden = TRUE]
      BY <1>8, <2>2, <3>3 DEF Withdraw
    <3>5. row'[s].ver = row[s].ver /\ row'[s].hash = row[s].hash
      BY <1>3, <3>4
    <3> QED BY <1>2, <1>3, <1>4, <1>6, <3>5, DescribedKeeps DEF Stored
  <2> QED BY <2>1, <2>2
<1>9. CASE s \notin run[g].drop /\ Upsert(g)
  <2> DEFINE A == Kept(run[g].page)
  <2>1. CASE s \notin RefsOf(A)
    <3>1. row'[s] = row[s]
      BY <1>9, <2>1 DEF Upsert
    <3> QED BY <1>2, <1>3, <1>4, <1>6, <3>1, DescribedKeeps DEF Stored
  <2>2. CASE s \in RefsOf(A)
    <3> DEFINE a == CHOOSE b \in A : b.ref = s
    <3>1. a \in A /\ a.ref = s
      BY <2>2 DEF RefsOf
    <3>2. row'[s] = [row[s] EXCEPT !.ver = a.ver, !.hash = a.hash, !.hidden = FALSE,
                                   !.final = FinalOf(row[s], a.hash)]
      BY <1>9, <2>2, <3>1 DEF Upsert
    <3> HIDE DEF a
    <3>3. a \in run[g].page.rows /\ a.listed /\ 0 < a.ver
      BY <1>3, <3>1 DEF Kept, Truthful
    <3>4. row'[s].ver = a.ver /\ row'[s].hash = a.hash /\ Stored(s)'
      BY <1>3, <3>2, <3>3 DEF Stored
    <3>5. CASE Stored(s)
      <4>1. row[s].hash # a.hash => s \in Unseen(run[g], A)
        BY <1>9, <3>1, <3>3, <3>5 DEF Unseen
      <4>2. Unseen(run[g], A) \subseteq crossed'
        BY <1>9 DEF Upsert
      <4>3. row[s].hash = a.hash
        BY <1>1, <4>1, <4>2
      <4> QED BY <1>2, <1>3, <1>4, <1>6, <3>4, <3>5, <4>3, DescribedKeeps
    <3>6. CASE ~Stored(s)
      <4>1. tally[s] = NoTally \/ Purging(s)
        BY <1>2, <3>6 DEF Described
      <4>2. CASE tally[s] = NoTally
        BY <1>2, <4>2 DEF Described
      <4>3. CASE Purging(s)
        <5>1. PICK h \in Runs : Ahead(run[h], s)
          BY <4>3 DEF Purging, Ahead
        <5>2. Ahead(run'[h], s)
          BY <1>3, <1>4, <1>6, <5>1 DEF TypeOK
        <5> QED BY <5>2 DEF Described, Purging, Ahead
      <4> QED BY <4>1, <4>2, <4>3
    <3> QED BY <3>5, <3>6
  <2> QED BY <2>1, <2>2
<1> QED BY <1>7, <1>8, <1>9

\* What is purged has no tally, and what is stored has the address of its row.
LEMMA TallyWrites ==
    ASSUME IInv, TallyOfItsArtifact, NEW g \in Runs, Purge(g) \/ StoreTally(g)
    PROVE  TallyOfItsArtifact'
<1>1. SUFFICES ASSUME NEW s \in Refs, s \notin cut', s \notin crossed' PROVE Described(s)'
  BY DEF TallyOfItsArtifact, Described
<1>2. Described(s) /\ row' = row
  <2>1. cut' = cut /\ crossed \subseteq crossed' /\ row' = row
    BY DEF Purge, StoreTally, history
  <2> QED BY <1>1, <2>1 DEF TallyOfItsArtifact, Described
<1>3. TypeOK /\ tally \in [Refs -> Bundle]
  BY DEF IInv, TypeOK
<1>4. PICK q : run' = [run EXCEPT ![g] = q]
  BY DEF Purge, StoreTally, NextItem, End, Go, Set
<1>5. CASE Purge(g)
  <2>1. CASE s \in run[g].drop
    BY <1>5, <2>1 DEF Purge, Described
  <2>2. CASE s \notin run[g].drop
    <3>1. tally'[s] = tally[s] /\ ~Ahead(run[g], s)
      BY <1>5, <2>2 DEF Purge, Ahead
    <3> QED BY <1>2, <1>3, <1>4, <3>1, DescribedKeeps DEF Stored
  <2> QED BY <2>1, <2>2
<1>6. CASE StoreTally(g)
  <2> DEFINE t == Head(run[g].work)
  <2>1. ~Ahead(run[g], s)
    BY <1>6 DEF StoreTally, Ahead
  <2>2. \/ tally' = tally
        \/ Current(t, run[g].got.hash) /\ tally' = [tally EXCEPT ![t] = run[g].got]
    BY <1>6 DEF StoreTally
  <2>3. CASE tally'[s] = tally[s]
    BY <1>2, <1>3, <1>4, <2>1, <2>3, DescribedKeeps DEF Stored
  <2>4. CASE tally'[s] # tally[s]
    <3>1. s = t /\ Current(s, run[g].got.hash) /\ tally'[s] = run[g].got
      BY <1>3, <2>2, <2>4
    <3> QED BY <1>2, <3>1 DEF Current, Live, Described, Stored
  <2> QED BY <2>3, <2>4
<1> QED BY <1>5, <1>6

\* A purge that a fault takes away leaves its surveys in cut.
LEMMA TallyFaults ==
    ASSUME IInv, TallyOfItsArtifact, NEW g \in Runs, PassFails(g) \/ RunFails(g)
    PROVE  TallyOfItsArtifact'
<1>1. SUFFICES ASSUME NEW s \in Refs, s \notin cut', s \notin crossed' PROVE Described(s)'
  BY DEF TallyOfItsArtifact, Described
<1>2. /\ UNCHANGED <<row, tally, crossed>> /\ cut \subseteq cut'
      /\ run[g].pc \in {"upsert", "purge"} => run[g].drop \subseteq cut'
  BY DEF PassFails, RunFails, Broken, tables
<1>3. Described(s) /\ TypeOK
  BY <1>1, <1>2 DEF TallyOfItsArtifact, Described, IInv
<1>4. PICK q : run' = [run EXCEPT ![g] = q]
  BY DEF PassFails, RunFails, Go, Set
<1>5. ~Ahead(run[g], s)
  BY <1>1, <1>2 DEF Ahead
<1> QED BY <1>2, <1>3, <1>4, <1>5, DescribedKeeps DEF Stored

LEMMA TallyKept == IInv /\ TallyOfItsArtifact /\ [Next]_vars => TallyOfItsArtifact'
<1> SUFFICES ASSUME IInv, TallyOfItsArtifact, [Next]_vars PROVE TallyOfItsArtifact'
  OBVIOUS
<1>1. CASE UNCHANGED <<row, tally, run, crossed, cut>>
  BY <1>1 DEF TallyOfItsArtifact, Purging, Stored
<1>2. CASE \E s \in Refs : Change(s) \/ Import(s)
  BY <1>1, <1>2 DEF Change, Import, tables, history
<1>3. CASE UNCHANGED vars
  BY <1>1, <1>3 DEF vars
<1>4. ASSUME NEW g \in Runs, StartRun(g) \/ PassFails(g) \/ ItemFails(g) \/ RunFails(g)
      PROVE  TallyOfItsArtifact'
  BY <1>4, TallyQuiet, TallyFaults
<1>5. ASSUME NEW g \in Runs, RunStep(g)
      PROVE  TallyOfItsArtifact'
  BY <1>5, TallyQuiet, TallyRows, TallyBatch, TallyWrites DEF RunStep
<1> QED BY <1>2, <1>3, <1>4, <1>5 DEF Next

\* No tally is kept of a deleted survey or beside an artifact it does not
\* describe, for any runs and any interleaving of their batches with a bundle
\* that arrives late (upsertSurveyTally, deleteSurveyTallies).
THEOREM TalliesDescribe == Spec => []TallyOfItsArtifact
<1>1. Init => TallyOfItsArtifact
  BY DEF Init, TallyOfItsArtifact
<1>2. IInv /\ TallyOfItsArtifact /\ [Next]_vars => TallyOfItsArtifact'
  BY TallyKept
<1> QED BY <1>1, <1>2, Invariance, PTL DEF Spec

-----------------------------------------------------------------------------
(* Work that is kept.  A cursor that passed the newest change of a survey  *)
(* owes the tally its work: the tally has seen the change, or the survey   *)
(* is queued.  A run that is about to store a bundle older than that       *)
(* change must not retire the work with it, so the survey was queued by a  *)
(* run that started later.                                                 *)

Passed(s) == up[s].gen <= sync.cursor \/ \E g \in Runs : up[s].gen <= run[g].cursor

\* The run has read the bundle of s, and is about to store it or to retire its work.
Taken(g, s) == run[g].pc \in {"store", "dequeue"} /\ Head(run[g].work) = s

\* Runs alive started at different times.
Started ==
    /\ \A g \in Runs : run[g].now <= clock /\ (run[g].pc # "idle" => 0 < run[g].now)
    /\ \A g, h \in Runs : run[g].pc # "idle" /\ run[h].pc # "idle" /\ run[g].now = run[h].now => g = h

\* A page leads on from the cursor, and a purge is of surveys of the page.
Leads(r) ==
    /\ r.drop \subseteq RefsOf(r.page.rows)
    /\ r.pc \notin Delivering => r.drop = {}
    /\ r.pc \in Delivering => r.cursor <= r.page.next /\ \A a \in r.page.rows : r.cursor < a.ver

\* A bundle is older than its survey only if the survey changed since: no
\* cursor of before has passed that change, and who passed it goes on from there.
Fetched(g, s) ==
    Taken(g, s) =>
        /\ 0 < run[g].got.ver /\ run[g].got.ver <= up[s].gen
        /\ run[g].got.ver < up[s].gen =>
             /\ run[g].cursor < up[s].gen
             /\ \A h \in Runs \ {g} : run[h].pc # "idle" => sync.cursor < up[s].gen \/ up[s].gen <= run[h].cursor

\* A tally behind the newest change is queued once a cursor has passed that change.
Owed(s) == Live(s) /\ tally[s] # NoTally /\ tally[s].ver < up[s].gen /\ Passed(s) => Queued(s)

\* What a run is about to store too late does not retire the work: that was
\* queued by a later run, unless that one's tally is stored already.
Outrun(s) ==
    \A g \in Runs : Taken(g, s) /\ Live(s) /\ run[g].got.ver < up[s].gen /\ Passed(s) =>
        \/ Queued(s) /\ run[g].now < queue[s].at
        \/ up[s].gen <= tally[s].ver

\* The tally a run retires the work of is at least the one it stored, or was
\* purged, and then nobody is about to store an older one.
Topped(s) ==
    \A g \in Runs : Taken(g, s) /\ run[g].pc = "dequeue" =>
        /\ tally[s] = NoTally \/ run[g].got.ver <= tally[s].ver
        /\ \A h \in Runs \ {g} : tally[s] = NoTally /\ Taken(h, s) => run[g].got.ver <= run[h].got.ver

Upheld(s) == Owed(s) /\ Outrun(s) /\ Topped(s)

Bookkeeping == Started /\ (\A g \in Runs : Leads(run[g])) /\ (\A g \in Runs : \A s \in Refs : Fetched(g, s))

WInv == Bookkeeping /\ \A s \in Refs \ crossed : Upheld(s)

\* At most two runs are alive at the same time.
AtMostTwo == \A f, g, h \in Runs : f = g \/ g = h \/ f = h

LEMMA Numbers ==
    ASSUME TypeOK
    PROVE  /\ sync.cursor \in Nat /\ clock \in Nat
           /\ \A s \in Refs : up[s].gen \in Nat /\ tally[s].ver \in Nat /\ queue[s].at \in Nat /\ row[s].ver \in Nat
           /\ \A g \in Runs : run[g].cursor \in Nat /\ run[g].now \in Nat /\ run[g].got.ver \in Nat
<1>1. Version \subseteq Nat /\ 0..MaxClock \subseteq Nat
  BY DEF Version
<1>2. sync.cursor \in Nat /\ clock \in Nat
  BY <1>1 DEF TypeOK
<1>3. \A s \in Refs : up[s].gen \in Nat /\ tally[s].ver \in Nat /\ queue[s].at \in Nat /\ row[s].ver \in Nat
  BY <1>1 DEF TypeOK, Bundle
<1>4. \A g \in Runs : run[g] \in Run
  BY DEF TypeOK
<1>5. \A g \in Runs : run[g].cursor \in Nat /\ run[g].now \in Nat /\ run[g].got.ver \in Nat
  BY <1>1, <1>4 DEF Run, Bundle
<1> QED BY <1>2, <1>3, <1>5

\* The other runs go on as they were.
LEMMA Others ==
    ASSUME TypeOK, NEW g \in Runs, NEW q, run' = [run EXCEPT ![g] = q]
    PROVE  run'[g] = q /\ \A h \in Runs \ {g} : run'[h] = run[h] /\ \A s \in Refs : Taken(h, s)' <=> Taken(h, s)
  BY DEF TypeOK, Taken

\* What a step of g does to s is no more than to queue it again, later than
\* whoever is about to retire it started.
LEMMA UpheldKeeps ==
    ASSUME TypeOK, NEW s \in Refs, Upheld(s), NEW g \in Runs, NEW q, run' = [run EXCEPT ![g] = q], up' = up,
           q.pc \notin {"store", "dequeue"} \/ Head(q.work) # s, tally'[s] = tally[s],
           Live(s)' /\ Passed(s)' => Live(s) /\ Passed(s),
           Queued(s) => Queued(s)' /\ \A h \in Runs \ {g} : Taken(h, s) /\ run[h].now < queue[s].at => run[h].now < queue'[s].at
    PROVE  Upheld(s)'
<1>1. run'[g] = q /\ \A h \in Runs \ {g} : run'[h] = run[h] /\ (Taken(h, s)' <=> Taken(h, s))
  BY Others
<1>2. ~Taken(g, s)'
  BY <1>1 DEF Taken
<1>3. Owed(s)'
  BY DEF Upheld, Owed
<1>4. Outrun(s)'
  <2>1. SUFFICES ASSUME NEW h \in Runs, Taken(h, s)', Live(s)', run'[h].got.ver < up'[s].gen, Passed(s)'
                 PROVE  (Queued(s)' /\ run'[h].now < queue'[s].at) \/ up'[s].gen <= tally'[s].ver
    BY DEF Outrun
  <2>2. h \in Runs \ {g} /\ run'[h] = run[h] /\ Taken(h, s)
    BY <1>1, <1>2, <2>1
  <2>3. (Queued(s) /\ run[h].now < queue[s].at) \/ up[s].gen <= tally[s].ver
    BY <2>1, <2>2 DEF Upheld, Outrun
  <2> QED BY <2>2, <2>3
<1>5. Topped(s)'
  <2>1. SUFFICES ASSUME NEW h \in Runs, Taken(h, s)', run'[h].pc = "dequeue"
                 PROVE  /\ tally'[s] = NoTally \/ run'[h].got.ver <= tally'[s].ver
                        /\ \A k \in Runs \ {h} : tally'[s] = NoTally /\ Taken(k, s)' => run'[h].got.ver <= run'[k].got.ver
    BY DEF Topped
  <2>2. h \in Runs \ {g} /\ run'[h] = run[h] /\ Taken(h, s)
    BY <1>1, <1>2, <2>1
  <2>3. \A k \in Runs \ {h} : Taken(k, s)' => run'[k] = run[k] /\ Taken(k, s)
    BY <1>1, <1>2
  <2> QED BY <2>1, <2>2, <2>3 DEF Upheld, Topped
<1> QED BY <1>3, <1>4, <1>5 DEF Upheld

\* A survey that is queued again, by a run nobody about to retire it has overtaken.
LEMMA UpheldQueued ==
    ASSUME TypeOK, Started, NEW s \in Refs, Upheld(s), NEW g \in Runs, NEW q, run' = [run EXCEPT ![g] = q], up' = up,
           run[g].pc # "idle", q.pc \notin {"store", "dequeue"}, tally'[s] = tally[s],
           queue'[s].at = run[g].now, ~Overtaken(g, s), \A h \in Runs : run[h].pc \in Working => run[h].work # <<>>
    PROVE  Upheld(s)'
<1>1. run'[g] = q /\ \A h \in Runs \ {g} : run'[h] = run[h] /\ (Taken(h, s)' <=> Taken(h, s))
  BY Others
<1>2. ~Taken(g, s)'
  BY <1>1 DEF Taken
<1>3. Queued(s)'
  BY DEF Started, Queued
<1>4. \A h \in Runs \ {g} : Taken(h, s) => run[h].now < run[g].now
  <2>1. SUFFICES ASSUME NEW h \in Runs \ {g}, Taken(h, s) PROVE run[h].now < run[g].now
    OBVIOUS
  <2>2. run[h].work # <<>> /\ run[h].pc # "idle"
    BY <2>1 DEF Taken, Working
  <2>3. ~(run[h].now > run[g].now)
    BY <2>1, <2>2 DEF Overtaken, Taken
  <2>4. run[h].now # run[g].now
    BY <2>2 DEF Started
  <2> QED BY <2>3, <2>4, Numbers
<1>5. Owed(s)' /\ Outrun(s)'
  BY <1>1, <1>2, <1>3, <1>4 DEF Owed, Outrun
<1>6. Topped(s)'
  <2>1. SUFFICES ASSUME NEW h \in Runs, Taken(h, s)', run'[h].pc = "dequeue"
                 PROVE  /\ tally'[s] = NoTally \/ run'[h].got.ver <= tally'[s].ver
                        /\ \A k \in Runs \ {h} : tally'[s] = NoTally /\ Taken(k, s)' => run'[h].got.ver <= run'[k].got.ver
    BY DEF Topped
  <2>2. h \in Runs \ {g} /\ run'[h] = run[h] /\ Taken(h, s)
    BY <1>1, <1>2, <2>1
  <2>3. \A k \in Runs \ {h} : Taken(k, s)' => run'[k] = run[k] /\ Taken(k, s)
    BY <1>1, <1>2
  <2> QED BY <2>1, <2>2, <2>3 DEF Upheld, Topped
<1> QED BY <1>5, <1>6 DEF Upheld

\* A run goes on, or ends: its start and its cursor stay.
Stays(q, r) ==
    \/ q = Asleep
    \/ q.pc # "idle" /\ r.pc # "idle" /\ q.now = r.now /\ q.cursor = r.cursor /\ q.drop = {} /\ q.pc \notin Delivering

\* No cursor passes what it had not passed.
LEMMA PassedKeeps ==
    ASSUME TypeOK, NEW g \in Runs, NEW q, run' = [run EXCEPT ![g] = q], up' = up,
           sync'.cursor \in {sync.cursor, run[g].cursor}, q.cursor \in {run[g].cursor, sync.cursor, 0}
    PROVE  \A s \in Refs : Passed(s)' => Passed(s)
<1>1. SUFFICES ASSUME NEW s \in Refs, Passed(s)' PROVE Passed(s)
  OBVIOUS
<1>2. run'[g] = q /\ \A h \in Runs \ {g} : run'[h] = run[h]
  BY Others
<1>3. up[s].gen \in Nat /\ sync.cursor \in Nat
  BY Numbers
<1>4. up[s].gen <= 0 => up[s].gen <= sync.cursor
  BY <1>3
<1>5. CASE up[s].gen <= sync'.cursor
  BY <1>5 DEF Passed
<1>6. CASE \E h \in Runs : up[s].gen <= run'[h].cursor
  <2>1. PICK h \in Runs : up[s].gen <= run'[h].cursor
    BY <1>6
  <2>2. CASE h = g
    BY <1>2, <1>4, <2>1, <2>2 DEF Passed
  <2>3. CASE h # g
    BY <1>2, <2>1, <2>3 DEF Passed
  <2> QED BY <2>2, <2>3
<1> QED BY <1>1, <1>5, <1>6 DEF Passed

\* The bundles that others hold, when the cursor of g only moves on.
LEMMA FetchedOthers ==
    ASSUME TypeOK, NEW g \in Runs, NEW q, run' = [run EXCEPT ![g] = q], up' = up,
           \A h \in Runs : \A s \in Refs : Fetched(h, s),
           \/ q.pc = "idle" /\ sync' = sync
           \/ run[g].pc # "idle" /\ q.cursor \in Nat /\ run[g].cursor <= q.cursor /\ sync' = sync
           \/ q.cursor = sync.cursor /\ sync' = sync
    PROVE  \A h \in Runs \ {g} : \A s \in Refs : Fetched(h, s)'
<1>1. SUFFICES ASSUME NEW h \in Runs \ {g}, NEW s \in Refs, Taken(h, s)' PROVE Fetched(h, s)'
  BY DEF Fetched
<1>2. run'[g] = q /\ \A k \in Runs \ {g} : run'[k] = run[k] /\ (Taken(h, s)' <=> Taken(h, s))
  BY Others
<1>3. Taken(h, s) /\ Fetched(h, s) /\ run'[h] = run[h] /\ sync' = sync
  BY <1>1, <1>2
<1>4. /\ 0 < run[h].got.ver /\ run[h].got.ver <= up[s].gen
      /\ run[h].got.ver < up[s].gen => run[h].cursor < up[s].gen
  BY <1>3 DEF Fetched
<1>5. ASSUME NEW k \in Runs \ {h}, run[h].got.ver < up[s].gen, run'[k].pc # "idle"
      PROVE  sync.cursor < up[s].gen \/ up[s].gen <= run'[k].cursor
  <2>1. CASE k # g
    BY <1>2, <1>3, <1>5, <2>1 DEF Fetched
  <2>2. CASE k = g /\ run[g].pc # "idle" /\ q.cursor \in Nat /\ run[g].cursor <= q.cursor
    <3>1. sync.cursor < up[s].gen \/ up[s].gen <= run[g].cursor
      BY <1>3, <1>5, <2>2 DEF Fetched
    <3>2. run[g].cursor \in Nat /\ up[s].gen \in Nat
      BY Numbers
    <3> QED BY <1>2, <2>2, <3>1, <3>2
  <2>3. CASE k = g /\ q.cursor = sync.cursor
    BY <1>2, <2>3, Numbers
  <2> QED BY <1>2, <1>5, <2>1, <2>2, <2>3
<1> QED BY <1>3, <1>4, <1>5 DEF Fetched

LEMMA StartedKeeps ==
    ASSUME TypeOK, Started, NEW g \in Runs, NEW q, run' = [run EXCEPT ![g] = q], clock' = clock,
           \/ q = Asleep
           \/ q.pc # "idle" /\ run[g].pc # "idle" /\ q.now = run[g].now
    PROVE  Started'
<1>1. run'[g] = q /\ \A k \in Runs \ {g} : run'[k] = run[k]
  BY Others
<1>2. Asleep.pc = "idle" /\ Asleep.now = 0 /\ clock \in Nat
  BY Numbers DEF Asleep
<1>3. \A h \in Runs : /\ run'[h].now = run[h].now \/ run'[h].now = 0
                      /\ run'[h].pc # "idle" => run[h].pc # "idle" /\ run'[h].now = run[h].now
  BY <1>1, <1>2
<1>4. \A h \in Runs : run'[h].now <= clock' /\ (run'[h].pc # "idle" => 0 < run'[h].now)
  BY <1>2, <1>3 DEF Started
<1>5. \A h, k \in Runs : run'[h].pc # "idle" /\ run'[k].pc # "idle" /\ run'[h].now = run'[k].now => h = k
  BY <1>3 DEF Started
<1> QED BY <1>4, <1>5 DEF Started

LEMMA LeadsKeeps ==
    ASSUME TypeOK, NEW g \in Runs, NEW q, run' = [run EXCEPT ![g] = q], \A h \in Runs : Leads(run[h]), Leads(q)
    PROVE  \A h \in Runs : Leads(run'[h])
<1>1. run'[g] = q /\ \A k \in Runs \ {g} : run'[k] = run[k]
  BY Others
<1> QED BY <1>1

LEMMA AsleepFacts ==
    /\ Asleep.pc = "idle" /\ Asleep.now = 0 /\ Asleep.cursor = 0 /\ Asleep.drop = {} /\ Leads(Asleep)
  BY DEF Asleep, Leads, Delivering

LEMMA StaysFacts ==
    ASSUME NEW q, NEW r, Stays(q, r)
    PROVE  Leads(q) /\ q.cursor \in {r.cursor, 0} /\ (q.pc = "idle" \/ (r.pc # "idle" /\ q.cursor = r.cursor))
<1>1. CASE q = Asleep
  <2>1. Leads(q)
    BY Zenon, <1>1, AsleepFacts
  <2>2. q.cursor = 0 /\ q.pc = "idle"
    BY Zenon, <1>1, AsleepFacts
  <2> QED BY Zenon, <2>1, <2>2
<1>2. CASE q # Asleep
  BY <1>2 DEF Stays, Leads
<1> QED BY <1>1, <1>2

\* A run goes on to something other than a bundle it has read.
LEMMA StayStep ==
    ASSUME TypeOK, WInv, NEW g \in Runs, NEW q, run' = [run EXCEPT ![g] = q], Stays(q, run[g]),
           q.pc \notin {"store", "dequeue"}, clock' = clock, up' = up, sync' = sync
    PROVE  /\ Bookkeeping'
           /\ \A s \in Refs : Passed(s)' => Passed(s)
<1>1. Leads(q) /\ q.cursor \in {run[g].cursor, 0} /\ (q.pc = "idle" \/ (run[g].pc # "idle" /\ q.cursor = run[g].cursor))
  BY StaysFacts
<1>2. Started'
  BY StartedKeeps DEF Stays, WInv, Bookkeeping
<1>3. \A h \in Runs : Leads(run'[h])
  BY <1>1, LeadsKeeps DEF WInv, Bookkeeping
<1>4. \A h \in Runs \ {g} : \A s \in Refs : Fetched(h, s)'
  <2>1. run[g].cursor \in Nat
    BY Numbers
  <2>2. q.pc = "idle" \/ (run[g].pc # "idle" /\ q.cursor \in Nat /\ run[g].cursor <= q.cursor)
    BY <1>1, <2>1
  <2>3. \A h \in Runs : \A s \in Refs : Fetched(h, s)
    BY DEF WInv, Bookkeeping
  <2> QED BY <2>2, <2>3, FetchedOthers
<1>5. \A s \in Refs : Fetched(g, s)'
  BY Others DEF Fetched, Taken
<1>6. \A s \in Refs : Passed(s)' => Passed(s)
  BY <1>1, PassedKeeps
<1> QED BY <1>2, <1>3, <1>4, <1>5, <1>6 DEF Bookkeeping

-----------------------------------------------------------------------------
(* The steps of a run after its pages, and its faults.                     *)

\* A run goes on, and neither a tally nor the work of a survey changes.
LEMMA TailStep ==
    ASSUME IInv, WInv, NEW g \in Runs, NEW q, run' = [run EXCEPT ![g] = q], Stays(q, run[g]),
           q.pc \notin {"store", "dequeue"}, clock' = clock, up' = up, sync' = sync, tally' = tally, crossed \subseteq crossed',
           \A s \in Refs : queue'[s].at = queue[s].at, \A s \in Refs : Live(s)' => Live(s)
    PROVE  WInv'
<1>1. TypeOK
  BY DEF IInv
<1>2. Bookkeeping' /\ \A s \in Refs : Passed(s)' => Passed(s)
  BY <1>1, StayStep
<1>3. SUFFICES ASSUME NEW s \in Refs \ crossed' PROVE Upheld(s)'
  BY <1>2 DEF WInv
<1>4. Upheld(s)
  BY DEF WInv
<1>5. Queued(s) => Queued(s)'
  BY DEF Queued
<1> QED BY <1>1, <1>2, <1>4, <1>5, UpheldKeeps

\* The memory of a run that is not applying a page names no purge.
LEMMA NoDrop ==
    ASSUME WInv, NEW g \in Runs, run[g].pc \notin Delivering
    PROVE  run[g].drop = {}
  BY DEF WInv, Bookkeeping, Leads

LEMMA StaysNext ==
    ASSUME TypeOK, WInv, NEW g \in Runs, run[g].pc \in Working, NEW left, NextItem(g, left)
    PROVE  \E q : run' = [run EXCEPT ![g] = q] /\ Stays(q, run[g]) /\ q.pc \notin {"store", "dequeue"}
<1> DEFINE w == Tail(run[g].work)
           q == [run[g] EXCEPT !.work = w, !.left = left, !.got = NoBundle, !.pc = "mark"]
<1>1. run' = [run EXCEPT ![g] = Asleep] \/ run' = [run EXCEPT ![g] = q]
  BY DEF NextItem, End, Set
<1>2. Stays(Asleep, run[g]) /\ Asleep.pc \notin {"store", "dequeue"}
  BY AsleepFacts DEF Stays
<1>3. run[g] \in Run /\ run[g].drop = {} /\ run[g].pc # "idle"
  BY NoDrop DEF TypeOK, Working, Delivering
<1> HIDE DEF w
<1>4. q.pc = "mark" /\ q.now = run[g].now /\ q.cursor = run[g].cursor /\ q.drop = {}
  BY <1>3 DEF Run
<1> HIDE DEF q
<1>5. Stays(q, run[g]) /\ q.pc \notin {"store", "dequeue"}
  BY <1>3, <1>4 DEF Stays, Delivering
<1> QED BY <1>1, <1>2, <1>5

\* The same for one request for a final count.
LEMMA StaysFinal ==
    ASSUME TypeOK, WInv, NEW g \in Runs, run[g].pc \notin Delivering \cup {"idle"}, NEW a, FinalAsked(g, a)
    PROVE  \E q : run' = [run EXCEPT ![g] = q] /\ Stays(q, run[g]) /\ q.pc \notin {"store", "dequeue"}
<1> DEFINE next == IF run[g].todo = {a} THEN "missing" ELSE "final"
           p == [run[g] EXCEPT !.todo = run[g].todo \ {a}, !.left = Spend(run[g].left, 1), !.pc = next]
<1>1. run' = [run EXCEPT ![g] = p] /\ next \in {"missing", "final"}
  BY DEF FinalAsked, Set
<1>2. run[g] \in Run /\ run[g].drop = {} /\ run[g].pc # "idle"
  BY NoDrop DEF TypeOK
<1> HIDE DEF next
<1>3. p.pc = next /\ p.now = run[g].now /\ p.cursor = run[g].cursor /\ p.drop = {}
  BY <1>2 DEF Run
<1> HIDE DEF p
<1>4. Stays(p, run[g]) /\ p.pc \notin {"store", "dequeue"}
  BY <1>1, <1>2, <1>3 DEF Stays, Delivering
<1> QED BY <1>1, <1>4

LEMMA StaysTodo ==
    ASSUME TypeOK, WInv, NEW g \in Runs, run[g].pc \notin Delivering \cup {"idle"}, NEW items,
           NEW pc \in {"publish", "final", "requeue"}, NEW after \in {"finals", "missing", "take"}, Todo(g, pc, items, after)
    PROVE  \E q : run' = [run EXCEPT ![g] = q] /\ Stays(q, run[g]) /\ q.pc \notin {"store", "dequeue"}
<1> DEFINE next == IF items = {} THEN after ELSE pc
           q == [run[g] EXCEPT !.todo = items, !.pc = next]
<1>1. run' = [run EXCEPT ![g] = q] /\ next \in {"publish", "final", "requeue", "finals", "missing", "take"}
  BY DEF Todo, Set
<1>2. run[g] \in Run /\ run[g].drop = {} /\ run[g].pc # "idle"
  BY NoDrop DEF TypeOK
<1> HIDE DEF next
<1>3. q.pc = next /\ q.now = run[g].now /\ q.cursor = run[g].cursor /\ q.drop = {}
  BY <1>2 DEF Run
<1> HIDE DEF q
<1>4. Stays(q, run[g]) /\ q.pc \notin {"store", "dequeue"}
  BY <1>1, <1>2, <1>3 DEF Stays, Delivering
<1> QED BY <1>1, <1>4

LEMMA StaysGo ==
    ASSUME TypeOK, WInv, NEW g \in Runs, run[g].pc \notin Delivering \cup {"idle"},
           NEW pc \in {"list", "finals", "missing", "read", "dequeue"}, Go(g, pc)
    PROVE  \E q : run' = [run EXCEPT ![g] = q] /\ Stays(q, run[g]) /\ q.pc = pc
<1> DEFINE q == [run[g] EXCEPT !.pc = pc]
<1>1. run' = [run EXCEPT ![g] = q]
  BY DEF Go, Set
<1>2. run[g] \in Run /\ run[g].drop = {} /\ run[g].pc # "idle"
  BY NoDrop DEF TypeOK
<1>3. q.pc = pc /\ q.now = run[g].now /\ q.cursor = run[g].cursor /\ q.drop = {}
  BY <1>2 DEF Run
<1> HIDE DEF q
<1>4. Stays(q, run[g])
  BY <1>2, <1>3 DEF Stays, Delivering
<1> QED BY <1>1, <1>3, <1>4

\* The lists a run makes.
LEMMA WorkLists ==
    ASSUME IInv, WInv, NEW g \in Runs, ListPublishable(g) \/ ListAwaiting(g) \/ FindMissing(g)
    PROVE  WInv'
<1>1. TypeOK
  BY DEF IInv
<1>2. run[g].pc \in {"list", "finals", "missing"}
  BY DEF ListPublishable, ListAwaiting, FindMissing
<1>3. run[g].pc \notin Delivering \cup {"idle"}
  BY <1>2 DEF Delivering
<1>4. \E items : \/ Todo(g, "publish", items, "finals")
                 \/ Todo(g, "final", items, "missing")
                 \/ Todo(g, "requeue", items, "take")
  BY DEF ListPublishable, ListAwaiting, FindMissing
<1>5. PICK q : run' = [run EXCEPT ![g] = q] /\ Stays(q, run[g]) /\ q.pc \notin {"store", "dequeue"}
  BY <1>1, <1>3, <1>4, StaysTodo
<1>6. clock' = clock /\ UNCHANGED <<backend, tables, history>>
  BY DEF ListPublishable, ListAwaiting, FindMissing
<1>7. /\ up' = up /\ sync' = sync /\ tally' = tally /\ crossed \subseteq crossed' /\ queue' = queue
      /\ \A s \in Refs : Live(s)' => Live(s)
  BY <1>6 DEF backend, tables, history, Live, Stored
<1> QED BY <1>5, <1>6, <1>7, TailStep

\* Threads and final counts.
LEMMA WorkRows ==
    ASSUME IInv, WInv, NEW g \in Runs,
           (\E s \in Refs : Publish(g, s)) \/ (\E a \in run[g].todo : ReadFinal(g, a))
    PROVE  WInv'
<1>1. TypeOK /\ row \in [Refs -> [ver : Version, hash : Version, final : Version, thread : BOOLEAN, hidden : BOOLEAN]]
  BY DEF IInv, TypeOK
<1>2. run[g].pc \in {"publish", "final"}
  BY DEF Publish, ReadFinal, FinalAsked
<1>3. run[g].pc \notin Delivering \cup {"idle"}
  BY <1>2 DEF Delivering
<1>4. PICK q : run' = [run EXCEPT ![g] = q] /\ Stays(q, run[g]) /\ q.pc \notin {"store", "dequeue"}
  <2>1. CASE \E s \in Refs : Publish(g, s)
    <3>1. PICK items : Todo(g, "publish", items, "finals")
      BY <2>1 DEF Publish
    <3> QED BY <1>1, <1>3, <3>1, StaysTodo
  <2>2. CASE \E a \in run[g].todo : ReadFinal(g, a)
    <3>1. PICK a \in run[g].todo : ReadFinal(g, a)
      BY <2>2
    <3> QED BY <1>1, <1>3, <3>1, StaysFinal DEF ReadFinal
  <2> QED BY <2>1, <2>2
<1>5. clock' = clock /\ up' = up /\ sync' = sync /\ tally' = tally /\ crossed' = crossed /\ queue' = queue
  BY DEF Publish, ReadFinal, FinalAsked, backend, history
<1>6. \A s \in Refs : row'[s].ver = row[s].ver /\ row'[s].hidden = row[s].hidden
  <2>1. CASE \E s \in Refs : Publish(g, s)
    <3>1. PICK s \in Refs : row' = row \/ row' = [row EXCEPT ![s] = [row[s] EXCEPT !.thread = TRUE]]
      BY <2>1 DEF Publish
    <3> QED BY <1>1, <3>1
  <2>2. CASE \E a \in run[g].todo : ReadFinal(g, a)
    <3>1. PICK a \in run[g].todo : row' = row \/ row' = [row EXCEPT ![a.ref] = [row[a.ref] EXCEPT !.final = a.hash]]
      BY <2>2 DEF ReadFinal, FinalAsked
    <3> QED BY <1>1, <3>1
  <2> QED BY <2>1, <2>2
<1>7. \A s \in Refs : Live(s)' => Live(s)
  BY <1>6 DEF Live, Stored
<1> QED BY <1>4, <1>5, <1>7, TailStep

\* A run that stays on its way, or that goes on to its next survey.
LEMMA WorkNext ==
    ASSUME IInv, WInv, NEW g \in Runs,
           \/ Take(g) \/ Mark(g) \/ ReadSurvey(g)
           \/ FetchBundle(g) /\ (\E left : NextItem(g, left))
           \/ StoreTally(g) /\ (\E left : NextItem(g, left)) /\ UNCHANGED <<tally, crossed>>
    PROVE  WInv'
<1>1. TypeOK /\ run[g] \in Run /\ queue \in [Refs -> [at : 0..MaxClock, last : 0..MaxClock]]
  BY DEF IInv, TypeOK
<1>2. run[g].pc \in Working \cup {"take"}
  BY DEF Take, Mark, ReadSurvey, FetchBundle, BundleCost, StoreTally, Working
<1>3. run[g].pc \notin Delivering \cup {"idle"}
  BY <1>2 DEF Delivering, Working
<1>4. run[g].drop = {}
  BY <1>3, NoDrop
<1>5. PICK q : run' = [run EXCEPT ![g] = q] /\ Stays(q, run[g]) /\ q.pc \notin {"store", "dequeue"}
  <2>1. CASE (\E left : NextItem(g, left)) /\ run[g].pc \in Working
    BY <1>1, <2>1, StaysNext
  <2>2. CASE Take(g)
    <3>1. CASE run' = [run EXCEPT ![g] = Asleep]
      BY <3>1, AsleepFacts DEF Stays
    <3>2. CASE \E w : run' = [run EXCEPT ![g] = [run[g] EXCEPT !.work = w, !.pc = "mark"]]
      <4>1. PICK w : run' = [run EXCEPT ![g] = [run[g] EXCEPT !.work = w, !.pc = "mark"]]
        BY <3>2
      <4> DEFINE p == [run[g] EXCEPT !.work = w, !.pc = "mark"]
      <4>2. p.pc = "mark" /\ p.now = run[g].now /\ p.cursor = run[g].cursor /\ p.drop = {}
        BY <1>1, <1>4 DEF Run
      <4> HIDE DEF p
      <4>3. Stays(p, run[g]) /\ p.pc \notin {"store", "dequeue"}
        BY <1>3, <4>2 DEF Stays, Delivering
      <4> QED BY <4>1, <4>3 DEF p
    <3> QED BY <2>2, <3>1, <3>2 DEF Take, End, Set
  <2>3. CASE Mark(g)
    BY <1>1, <1>3, <2>3, StaysGo DEF Mark
  <2>4. CASE ReadSurvey(g) /\ run' = [run EXCEPT ![g] = [run[g] EXCEPT !.got = [ver |-> 0, hash |-> row[Head(run[g].work)].hash],
                                                                       !.pc = "bundle"]]
    <3> DEFINE b == [ver |-> 0, hash |-> row[Head(run[g].work)].hash]
               p == [run[g] EXCEPT !.got = b, !.pc = "bundle"]
    <3> HIDE DEF b
    <3>1. p.pc = "bundle" /\ p.now = run[g].now /\ p.cursor = run[g].cursor /\ p.drop = {}
      BY <1>1, <1>4 DEF Run
    <3>2. run' = [run EXCEPT ![g] = p]
      BY <2>4 DEF b
    <3> HIDE DEF p
    <3>3. Stays(p, run[g]) /\ p.pc \notin {"store", "dequeue"}
      BY <1>3, <3>1 DEF Stays, Delivering
    <3> QED BY <3>2, <3>3
  <2>5. ReadSurvey(g) => \/ \E left : NextItem(g, left)
                         \/ run' = [run EXCEPT ![g] = [run[g] EXCEPT !.got = [ver |-> 0, hash |-> row[Head(run[g].work)].hash],
                                                                     !.pc = "bundle"]]
    BY DEF ReadSurvey, Set
  <2>6. ReadSurvey(g) \/ FetchBundle(g) \/ StoreTally(g) => run[g].pc \in Working
    BY DEF ReadSurvey, FetchBundle, BundleCost, StoreTally, Working
  <2> QED BY <2>1, <2>2, <2>3, <2>4, <2>5, <2>6
<1>6. clock' = clock /\ up' = up /\ sync' = sync /\ tally' = tally /\ crossed' = crossed /\ row' = row
  BY DEF Take, Mark, ReadSurvey, FetchBundle, BundleCost, StoreTally, backend, tables, history
<1>7. \A s \in Refs : queue'[s].at = queue[s].at
  <2>1. CASE Mark(g)
    <3>1. queue' = queue \/ \E t : queue' = [queue EXCEPT ![t] = [queue[t] EXCEPT !.last = run[g].now]]
      BY <2>1 DEF Mark
    <3> QED BY <1>1, <3>1
  <2>2. CASE ~Mark(g)
    BY <2>2 DEF Take, ReadSurvey, FetchBundle, BundleCost, StoreTally, tables
  <2> QED BY <2>1, <2>2
<1>8. \A s \in Refs : Live(s)' => Live(s)
  BY <1>6 DEF Live, Stored
<1> QED BY <1>5, <1>6, <1>7, <1>8, TailStep

\* A fault takes work from a run, never from the queue.
LEMMA WorkFaults ==
    ASSUME IInv, WInv, NEW g \in Runs, PassFails(g) \/ ItemFails(g) \/ RunFails(g)
    PROVE  WInv'
<1>1. TypeOK /\ run[g] \in Run
  BY DEF IInv, TypeOK
<1>2. PICK q : run' = [run EXCEPT ![g] = q] /\ Stays(q, run[g]) /\ q.pc \notin {"store", "dequeue"}
  <2>1. CASE RunFails(g)
    BY <2>1, AsleepFacts DEF RunFails, Set, Stays
  <2>2. CASE PassFails(g)
    <3>1. CASE /\ run[g].pc \in Mirror
               /\ \E n \in Asked(g) :
                    Set(g, [run[g] EXCEPT !.page = NoPage, !.drop = {}, !.left = Spend(run[g].left, n), !.pc = "put"])
      <4>0. PICK n \in Asked(g) :
                    Set(g, [run[g] EXCEPT !.page = NoPage, !.drop = {}, !.left = Spend(run[g].left, n), !.pc = "put"])
        BY <3>1
      <4> DEFINE p == [run[g] EXCEPT !.page = NoPage, !.drop = {}, !.left = Spend(run[g].left, n), !.pc = "put"]
      <4>1. p.pc = "put" /\ p.now = run[g].now /\ p.cursor = run[g].cursor /\ p.drop = {}
        BY <1>1 DEF Run
      <4>2. run' = [run EXCEPT ![g] = p] /\ run[g].pc # "idle"
        BY <3>1, <4>0 DEF Set, Mirror
      <4> HIDE DEF p
      <4>3. Stays(p, run[g]) /\ p.pc \notin {"store", "dequeue"}
        BY <4>1, <4>2 DEF Stays, Delivering
      <4> QED BY <4>2, <4>3
    <3>2. CASE run[g].pc \in {"list", "finals"} /\ \E pc \in {"finals", "missing"} : Go(g, pc)
      <4>1. run[g].pc \notin Delivering \cup {"idle"}
        BY <3>2 DEF Delivering
      <4> QED BY <1>1, <3>2, <4>1, StaysGo
    <3> QED BY <2>2, <3>1, <3>2 DEF PassFails
  <2>3. CASE ItemFails(g)
    <3>0. CASE run[g].pc = "final" /\ \E s \in run[g].todo : FinalAsked(g, s)
      <4>1. run[g].pc \notin Delivering \cup {"idle"}
        BY <3>0 DEF Delivering
      <4> QED BY <1>1, <3>0, <4>1, StaysFinal
    <3>1. CASE \E items : run[g].pc = "publish" /\ Todo(g, "publish", items, "finals")
      <4>1. run[g].pc \notin Delivering \cup {"idle"}
        BY <3>1 DEF Delivering
      <4> QED BY <1>1, <3>1, <4>1, StaysTodo
    <3>2. CASE /\ run[g].pc \in {"read", "bundle", "store", "dequeue"}
               /\ \E n : Set(g, [run[g] EXCEPT !.work = Tail(run[g].work), !.left = run[g].left - n, !.got = NoBundle,
                                               !.pc = "mark"])
      <4>0. PICK n : Set(g, [run[g] EXCEPT !.work = Tail(run[g].work), !.left = run[g].left - n, !.got = NoBundle,
                                           !.pc = "mark"])
        BY <3>2
      <4> DEFINE w == Tail(run[g].work)
                 left == run[g].left - n
                 p == [run[g] EXCEPT !.work = w, !.left = left, !.got = NoBundle, !.pc = "mark"]
      <4>1. run' = [run EXCEPT ![g] = p]
        BY <4>0 DEF Set
      <4>2. run[g].drop = {} /\ run[g].pc # "idle"
        BY <3>2, NoDrop DEF Delivering
      <4> HIDE DEF w, left
      <4>3. p.pc = "mark" /\ p.now = run[g].now /\ p.cursor = run[g].cursor /\ p.drop = {}
        BY <1>1, <4>2 DEF Run
      <4> HIDE DEF p
      <4>4. Stays(p, run[g]) /\ p.pc \notin {"store", "dequeue"}
        BY <4>2, <4>3 DEF Stays, Delivering
      <4> QED BY <4>1, <4>4
    <3> QED BY <2>3, <3>0, <3>1, <3>2 DEF ItemFails
  <2> QED BY <2>1, <2>2, <2>3
<1>3. clock' = clock /\ UNCHANGED <<backend, tables, crossed>>
  BY DEF PassFails, ItemFails, RunFails, history
<1>4. /\ up' = up /\ sync' = sync /\ tally' = tally /\ queue' = queue
      /\ \A s \in Refs : Live(s)' => Live(s)
  BY <1>3 DEF backend, tables, Live, Stored
<1> QED BY <1>2, <1>3, <1>4, TailStep

-----------------------------------------------------------------------------
(* Work without a tally, the stored cursor, and the start of a run.        *)

\* A run at work has a survey at work.
LEMMA Busy ==
    ASSUME IInv
    PROVE  \A h \in Runs : run[h].pc \in Working => run[h].work # <<>>
  BY DEF IInv, RunsInv, Formed

\* Surveys without a tally are queued again.
LEMMA WorkRequeue ==
    ASSUME IInv, WInv, NEW g \in Runs, Requeue(g)
    PROVE  WInv'
<1>1. TypeOK /\ run[g] \in Run /\ Started
  BY DEF IInv, TypeOK, WInv, Bookkeeping
<1> DEFINE q == [run[g] EXCEPT !.todo = {}, !.pc = "take"]
<1>2. /\ run' = [run EXCEPT ![g] = q] /\ run[g].pc = "requeue" /\ queue' = Enqueued(run[g].todo, run[g].now)
      /\ crossed' = crossed \cup {s \in run[g].todo : Overtaken(g, s)}
      /\ clock' = clock /\ up' = up /\ sync' = sync /\ tally' = tally /\ row' = row
  BY DEF Requeue, Set, backend
<1>3. run[g].drop = {}
  BY <1>2, NoDrop DEF Delivering
<1>4. q.pc = "take" /\ q.now = run[g].now /\ q.cursor = run[g].cursor /\ q.drop = {}
  BY <1>1, <1>3 DEF Run
<1> HIDE DEF q
<1>5. Stays(q, run[g]) /\ q.pc \notin {"store", "dequeue"}
  BY <1>2, <1>4 DEF Stays, Delivering
<1>6. Bookkeeping' /\ \A s \in Refs : Passed(s)' => Passed(s)
  BY <1>1, <1>2, <1>5, StayStep
<1>7. SUFFICES ASSUME NEW s \in Refs \ crossed' PROVE Upheld(s)'
  BY <1>6 DEF WInv
<1>8. Upheld(s)
  BY <1>2 DEF WInv
<1>9. CASE s \in run[g].todo
  <2>1. ~Overtaken(g, s)
    BY <1>2, <1>9
  <2>2. queue'[s].at = run[g].now
    <3>1. queue[s] \in [at : 0..MaxClock, last : 0..MaxClock]
      BY <1>1 DEF TypeOK
    <3> QED BY <1>2, <1>9, <3>1 DEF Enqueued
  <2> QED BY <1>1, <1>2, <1>5, <1>8, <2>1, <2>2, Busy, UpheldQueued
<1>10. CASE s \notin run[g].todo
  <2>1. queue'[s] = queue[s]
    BY <1>2, <1>10 DEF Enqueued
  <2>2. Live(s)' => Live(s)
    BY <1>2 DEF Live, Stored
  <2> QED BY <1>1, <1>2, <1>5, <1>6, <1>8, <2>1, <2>2, UpheldKeeps DEF Queued
<1> QED BY <1>9, <1>10

\* The cursor is stored.
LEMMA WorkPut ==
    ASSUME AtMostTwo, IInv, WInv, NEW g \in Runs, Put(g)
    PROVE  WInv'
<1>1. TypeOK /\ run[g] \in Run /\ WInv
  BY DEF IInv, TypeOK
<1>2. run[g].pc \notin Delivering \cup {"idle"} /\ run[g].pc = "put"
  BY DEF Put, Delivering
<1>3. PICK q : run' = [run EXCEPT ![g] = q] /\ Stays(q, run[g]) /\ q.pc = "list"
  BY <1>1, <1>2, StaysGo DEF Put
<1>4. /\ clock' = clock /\ up' = up /\ tally' = tally /\ queue' = queue /\ crossed' = crossed /\ row' = row
      /\ sync'.cursor = run[g].cursor
  BY DEF Put, backend, history
<1>5. Leads(q) /\ q.cursor = run[g].cursor /\ q.pc \notin {"store", "dequeue"}
  BY <1>3, StaysFacts, AsleepFacts DEF Stays
<1>6. Started'
  BY <1>1, <1>3, <1>4, StartedKeeps DEF Stays, WInv, Bookkeeping
<1>7. \A h \in Runs : Leads(run'[h])
  BY <1>1, <1>3, <1>5, LeadsKeeps DEF WInv, Bookkeeping
<1>8. \A s \in Refs : Passed(s)' => Passed(s)
  BY <1>1, <1>3, <1>4, <1>5, PassedKeeps
<1>9. \A h \in Runs : \A s \in Refs : Fetched(h, s)'
  <2>1. SUFFICES ASSUME NEW h \in Runs, NEW s \in Refs, Taken(h, s)' PROVE Fetched(h, s)'
    BY DEF Fetched
  <2>2. h # g /\ run'[h] = run[h] /\ run'[g] = q /\ Taken(h, s)
    BY <1>1, <1>3, <1>5, <2>1, Others DEF Taken
  <2>3. Fetched(h, s)
    BY <1>1 DEF WInv, Bookkeeping
  <2>4. \A k \in Runs \ {h} : k = g
    BY <2>2 DEF AtMostTwo
  <2>5. \A k \in Runs \ {h} : run'[k].cursor = run[g].cursor
    BY <1>5, <2>2, <2>4
  <2>6. run[g].cursor < up[s].gen \/ up[s].gen <= run[g].cursor
    BY <1>1, Numbers
  <2> QED BY <1>4, <2>2, <2>3, <2>5, <2>6 DEF Fetched
<1>10. ASSUME NEW s \in Refs \ crossed' PROVE Upheld(s)'
  <2>1. Upheld(s)
    BY <1>4 DEF WInv
  <2>2. Live(s)' => Live(s)
    BY <1>4 DEF Live, Stored
  <2> QED BY <1>1, <1>3, <1>4, <1>5, <1>8, <2>1, <2>2, UpheldKeeps DEF Queued
<1> QED BY <1>6, <1>7, <1>9, <1>10 DEF WInv, Bookkeeping

\* A run starts with the stored cursor.
LEMMA WorkStart ==
    ASSUME IInv, WInv, NEW g \in Runs, StartRun(g)
    PROVE  WInv'
<1>1. TypeOK
  BY DEF IInv
<1> DEFINE q == [Asleep EXCEPT !.pc = "fetch", !.now = clock', !.cursor = sync.cursor, !.asOf = sync.asOf, !.left = Allowance]
<1>2. /\ run' = [run EXCEPT ![g] = q] /\ clock' = clock + 1 /\ run[g].pc = "idle"
      /\ up' = up /\ sync' = sync /\ tally' = tally /\ queue' = queue /\ crossed' = crossed /\ row' = row
  BY DEF StartRun, Set, backend, tables, history
<1>3. q.pc = "fetch" /\ q.now = clock' /\ q.cursor = sync.cursor /\ q.drop = {}
  BY DEF Asleep
<1> HIDE DEF q
<1>4. Leads(q)
  BY <1>3 DEF Leads, Delivering
<1>5. run'[g] = q /\ \A h \in Runs \ {g} : run'[h] = run[h]
  BY <1>1, <1>2, Others
<1>6. Started'
  <2>1. clock \in Nat /\ \A h \in Runs : run[h].now \in Nat /\ run[h].now <= clock
    BY <1>1, Numbers DEF WInv, Bookkeeping, Started
  <2>2. \A h \in Runs : run'[h].now <= clock' /\ (run'[h].pc # "idle" => 0 < run'[h].now)
    BY <1>2, <1>3, <1>5, <2>1 DEF WInv, Bookkeeping, Started
  <2>3. \A h \in Runs \ {g} : run'[h].now < run'[g].now
    BY <1>2, <1>3, <1>5, <2>1
  <2>4. \A h, k \in Runs : run'[h].pc # "idle" /\ run'[k].pc # "idle" /\ run'[h].now = run'[k].now => h = k
    <3>1. SUFFICES ASSUME NEW h \in Runs, NEW k \in Runs, run'[h].pc # "idle", run'[k].pc # "idle", run'[h].now = run'[k].now
                   PROVE  h = k
      OBVIOUS
    <3>2. CASE h # g /\ k # g
      BY <1>5, <3>1, <3>2 DEF WInv, Bookkeeping, Started
    <3>3. CASE h = g \/ k = g
      <4>1. clock' \in Nat
        BY <1>2, <2>1
      <4>2. \A j \in Runs \ {g} : run'[j].now # run'[g].now
        BY <1>2, <1>3, <1>5, <2>1, <4>1
      <4> QED BY <3>1, <3>3, <4>2
    <3> QED BY <3>2, <3>3
  <2> QED BY <2>2, <2>4 DEF Started
<1>7. \A h \in Runs : Leads(run'[h])
  BY <1>1, <1>2, <1>4, LeadsKeeps DEF WInv, Bookkeeping
<1>8. \A h \in Runs : \A s \in Refs : Fetched(h, s)'
  <2>1. \A h \in Runs : \A s \in Refs : Fetched(h, s)
    BY DEF WInv, Bookkeeping
  <2>2. \A h \in Runs \ {g} : \A s \in Refs : Fetched(h, s)'
    BY <1>1, <1>2, <1>3, <2>1, FetchedOthers
  <2>3. \A s \in Refs : Fetched(g, s)'
    BY <1>3, <1>5 DEF Fetched, Taken
  <2> QED BY <2>2, <2>3
<1>9. \A s \in Refs : Passed(s)' => Passed(s)
  BY <1>1, <1>2, <1>3, PassedKeeps
<1>10. ASSUME NEW s \in Refs \ crossed' PROVE Upheld(s)'
  <2>1. Upheld(s) /\ q.pc \notin {"store", "dequeue"}
    BY <1>2, <1>3 DEF WInv
  <2>2. Live(s)' => Live(s)
    BY <1>2 DEF Live, Stored
  <2> QED BY <1>1, <1>2, <1>9, <2>1, <2>2, UpheldKeeps DEF Queued
<1> QED BY <1>6, <1>7, <1>8, <1>10 DEF WInv, Bookkeeping

-----------------------------------------------------------------------------
(* A bundle is read, its tally stored and its work retired.                *)

\* A bundle is read: nobody holds a newer one.
LEMMA WorkFetched ==
    ASSUME IInv, WInv, NEW g \in Runs, FetchBundle(g), ~ \E left : NextItem(g, left)
    PROVE  WInv'
<1>1. TypeOK /\ run[g] \in Run
  BY DEF IInv, TypeOK
<1> DEFINE s == Head(run[g].work)
           cost == Cost[s] + IF run[g].got.hash > 0 THEN 1 ELSE 0
           b == [ver |-> up[s].gen, hash |-> run[g].got.hash]
           left == run[g].left - cost
           q == [run[g] EXCEPT !.got = b, !.left = left, !.pc = "store"]
<1>2. /\ run' = [run EXCEPT ![g] = q] /\ run[g].pc = "bundle" /\ up[s].listed
      /\ clock' = clock /\ up' = up /\ sync' = sync /\ tally' = tally /\ queue' = queue /\ crossed' = crossed /\ row' = row
  BY DEF FetchBundle, BundleCost, Set, backend, tables, history
<1>3. s \in Refs
  <2>1. run[g].work # <<>>
    BY <1>2, Busy DEF Working
  <2>2. run[g].work \in Seq(Refs)
    BY <1>1 DEF Run
  <2> QED BY <2>1, <2>2
<1>4. run[g].drop = {} /\ b.ver = up[s].gen
  BY <1>2, NoDrop DEF Delivering
<1> HIDE DEF b, left, cost
<1>5. /\ q.pc = "store" /\ q.now = run[g].now /\ q.cursor = run[g].cursor /\ q.drop = {}
      /\ q.got = b /\ q.work = run[g].work
  BY <1>1, <1>4 DEF Run
<1> HIDE DEF q
<1>6. run'[g] = q /\ \A h \in Runs \ {g} : run'[h] = run[h] /\ \A t \in Refs : Taken(h, t)' <=> Taken(h, t)
  BY <1>1, <1>2, Others
<1>7. Started' /\ \A h \in Runs : Leads(run'[h])
  <2>1. Leads(q)
    BY <1>5 DEF Leads, Delivering
  <2> QED BY <1>1, <1>2, <1>5, <2>1, StartedKeeps, LeadsKeeps DEF WInv, Bookkeeping
<1>8. \A h \in Runs : \A t \in Refs : Fetched(h, t)'
  <2>1. \A h \in Runs : \A t \in Refs : Fetched(h, t)
    BY DEF WInv, Bookkeeping
  <2>2. run[g].pc # "idle" /\ q.cursor \in Nat /\ run[g].cursor <= q.cursor
    <3>1. run[g].cursor \in Nat
      BY <1>1, Numbers
    <3> QED BY <1>2, <1>5, <3>1
  <2>3. \A h \in Runs \ {g} : \A t \in Refs : Fetched(h, t)'
    BY <1>1, <1>2, <2>1, <2>2, FetchedOthers
  <2>4. 0 < up[s].gen /\ up[s].gen \in Nat
    <3>1. up[s].gen # 0
      BY <1>2, <1>3 DEF IInv, Backend
    <3>2. up[s].gen \in Nat
      BY <1>1, <1>3, Numbers
    <3> QED BY <3>1, <3>2
  <2>5. ASSUME NEW t \in Refs PROVE Fetched(g, t)'
    <3>1. CASE t = s
      BY <1>2, <1>4, <1>5, <1>6, <2>4, <3>1 DEF Fetched
    <3>2. CASE t # s
      BY <1>5, <1>6, <3>2 DEF Fetched, Taken, s
    <3> QED BY <3>1, <3>2
  <2> QED BY <2>3, <2>5
<1>9. \A t \in Refs : Passed(t)' => Passed(t)
  BY <1>1, <1>2, <1>5, PassedKeeps
<1>10. ASSUME NEW t \in Refs \ crossed' PROVE Upheld(t)'
  <2>1. Upheld(t) /\ (Live(t)' => Live(t)) /\ (Queued(t)' <=> Queued(t))
    BY <1>2 DEF WInv, Live, Stored, Queued
  <2>2. CASE t # s
    <3>1. Head(q.work) # t
      BY <1>5, <2>2 DEF s
    <3> QED BY <1>1, <1>2, <1>9, <2>1, <3>1, UpheldKeeps
  <2>3. CASE t = s
    <3>1. Owed(t)'
      BY <1>2, <1>9, <2>1 DEF Upheld, Owed
    <3>2. Outrun(t)'
      <4>1. SUFFICES ASSUME NEW h \in Runs, Taken(h, t)', Live(t)', run'[h].got.ver < up'[t].gen, Passed(t)'
                     PROVE  (Queued(t)' /\ run'[h].now < queue'[t].at) \/ up'[t].gen <= tally'[t].ver
        BY DEF Outrun
      <4>2. h # g
        <5>1. up[s].gen \in Nat
          BY <1>1, <1>3, Numbers
        <5> QED BY <1>2, <1>4, <1>5, <1>6, <2>3, <4>1, <5>1
      <4>3. Taken(h, t) /\ run'[h] = run[h]
        BY <1>6, <4>1, <4>2
      <4> QED BY <1>2, <1>9, <2>1, <4>1, <4>3 DEF Upheld, Outrun
    <3>3. Topped(t)'
      <4>1. SUFFICES ASSUME NEW h \in Runs, Taken(h, t)', run'[h].pc = "dequeue"
                     PROVE  /\ tally'[t] = NoTally \/ run'[h].got.ver <= tally'[t].ver
                            /\ \A k \in Runs \ {h} : tally'[t] = NoTally /\ Taken(k, t)' => run'[h].got.ver <= run'[k].got.ver
        BY DEF Topped
      <4>2. h # g /\ Taken(h, t) /\ run'[h] = run[h]
        BY <1>5, <1>6, <4>1
      <4>3. run[h].got.ver <= up[t].gen
        BY <4>2 DEF WInv, Bookkeeping, Fetched
      <4>4. \A k \in Runs \ {h} : tally'[t] = NoTally /\ Taken(k, t)' => run'[h].got.ver <= run'[k].got.ver
        <5>1. SUFFICES ASSUME NEW k \in Runs \ {h}, tally[t] = NoTally, Taken(k, t)' PROVE run'[h].got.ver <= run'[k].got.ver
          BY <1>2
        <5>2. CASE k = g
          BY <1>4, <1>5, <1>6, <2>3, <4>2, <4>3, <5>2
        <5>3. CASE k # g
          BY <1>6, <2>1, <4>1, <4>2, <5>1, <5>3 DEF Upheld, Topped
        <5> QED BY <5>2, <5>3
      <4> QED BY <1>2, <2>1, <4>1, <4>2, <4>4 DEF Upheld, Topped
    <3> QED BY <3>1, <3>2, <3>3 DEF Upheld
  <2> QED BY <2>2, <2>3
<1> QED BY <1>7, <1>8, <1>10 DEF WInv, Bookkeeping

\* A tally is stored: it is the one of the bundle, and not older than the one before.
LEMMA WorkStored ==
    ASSUME IInv, WInv, NEW g \in Runs, StoreTally(g), Current(Head(run[g].work), run[g].got.hash)
    PROVE  WInv'
<1>1. TypeOK /\ run[g] \in Run
  BY DEF IInv, TypeOK
<1> DEFINE s == Head(run[g].work)
           q == [run[g] EXCEPT !.pc = "dequeue"]
<1>2. /\ run' = [run EXCEPT ![g] = q] /\ run[g].pc = "store" /\ tally' = [tally EXCEPT ![s] = run[g].got]
      /\ crossed' = IF tally[s].ver > run[g].got.ver THEN crossed \cup {s} ELSE crossed
      /\ clock' = clock /\ up' = up /\ sync' = sync /\ queue' = queue /\ row' = row
  BY DEF StoreTally, Go, Set, backend, tables, history
<1>3. s \in Refs
  <2>1. run[g].work # <<>>
    BY <1>2, Busy DEF Working
  <2>2. run[g].work \in Seq(Refs)
    BY <1>1 DEF Run
  <2> QED BY <2>1, <2>2
<1>4. run[g].drop = {} /\ Live(s)
  <2>1. run[g].drop = {}
    BY <1>2, NoDrop DEF Delivering
  <2> QED BY <2>1 DEF Current
<1>5. /\ q.pc = "dequeue" /\ q.now = run[g].now /\ q.cursor = run[g].cursor /\ q.drop = {}
      /\ q.got = run[g].got /\ q.work = run[g].work
  BY <1>1, <1>4 DEF Run
<1> HIDE DEF q
<1>6. /\ run'[g] = q /\ \A h \in Runs \ {g} : run'[h] = run[h] /\ \A t \in Refs : Taken(h, t)' <=> Taken(h, t)
  BY <1>1, <1>2, Others
<1>7. /\ \A t \in Refs : Taken(g, t)' => t = s /\ Taken(g, t)
      /\ Taken(g, s)
      /\ \A h \in Runs : /\ run'[h].got = run[h].got /\ run'[h].now = run[h].now /\ run'[h].cursor = run[h].cursor
                         /\ run'[h].pc # "idle" => run[h].pc # "idle"
                         /\ \A t \in Refs : Taken(h, t)' => Taken(h, t)
  BY <1>2, <1>5, <1>6 DEF Taken, s
<1>8. Started' /\ \A h \in Runs : Leads(run'[h])
  <2>1. Leads(q)
    BY <1>5 DEF Leads, Delivering
  <2> QED BY <1>1, <1>2, <1>5, <2>1, StartedKeeps, LeadsKeeps DEF WInv, Bookkeeping
<1>9. \A h \in Runs : \A t \in Refs : Fetched(h, t)'
  BY <1>2, <1>7 DEF WInv, Bookkeeping, Fetched
<1>10. \A t \in Refs : Passed(t)' => Passed(t)
  BY <1>1, <1>2, <1>5, PassedKeeps
<1>11. ASSUME NEW t \in Refs \ crossed' PROVE Upheld(t)'
  <2>1. Upheld(t) /\ (Live(t)' => Live(t)) /\ (Queued(t)' <=> Queued(t))
    BY <1>2 DEF WInv, Live, Stored, Queued
  <2>2. CASE t # s
    <3>1. Head(q.work) # t /\ tally'[t] = tally[t]
      BY <1>1, <1>2, <1>5, <2>2 DEF s, TypeOK
    <3> QED BY <1>1, <1>2, <1>10, <2>1, <3>1, UpheldKeeps
  <2>3. CASE t = s
    <3>1. tally'[t] = run[g].got /\ tally[t].ver <= run[g].got.ver
      <4>1. tally'[t] = run[g].got
        BY <1>1, <1>2, <1>3, <2>3 DEF TypeOK
      <4>2. ~(tally[s].ver > run[g].got.ver)
        BY <1>2, <2>3
      <4> QED BY <1>1, <1>3, <2>3, <4>1, <4>2, Numbers
    <3>2. /\ 0 < run[g].got.ver /\ up[t].gen \in Nat /\ tally[t].ver \in Nat
          /\ \A h \in Runs : run[h].got.ver \in Nat
      BY <1>1, <1>7, <2>3, Numbers DEF WInv, Bookkeeping, Fetched
    <3>3. tally'[t] # NoTally
      BY <3>1, <3>2 DEF NoTally
    <3>4. ASSUME NEW h \in Runs, Taken(h, t), Live(t), run[h].got.ver < up[t].gen, Passed(t)
          PROVE  (Queued(t) /\ run[h].now < queue[t].at) \/ up[t].gen <= run[g].got.ver
      <4>1. (Queued(t) /\ run[h].now < queue[t].at) \/ up[t].gen <= tally[t].ver
        BY <2>1, <3>4 DEF Upheld, Outrun
      <4> QED BY <3>1, <3>2, <4>1
    <3>5. Owed(t)'
      <4>1. SUFFICES ASSUME Live(t)', run[g].got.ver < up[t].gen, Passed(t)' PROVE Queued(t)'
        BY <1>2, <3>1 DEF Owed
      <4>2. (Queued(t) /\ run[g].now < queue[t].at) \/ up[t].gen <= run[g].got.ver
        BY <1>7, <1>10, <2>1, <2>3, <3>4, <4>1
      <4> QED BY <2>1, <3>2, <4>1, <4>2
    <3>6. Outrun(t)'
      <4>1. SUFFICES ASSUME NEW h \in Runs, Taken(h, t)', Live(t)', run'[h].got.ver < up'[t].gen, Passed(t)'
                     PROVE  (Queued(t)' /\ run'[h].now < queue'[t].at) \/ up'[t].gen <= tally'[t].ver
        BY DEF Outrun
      <4> QED BY <1>2, <1>7, <1>10, <2>1, <3>1, <3>4, <4>1
    <3>7. Topped(t)'
      <4>1. SUFFICES ASSUME NEW h \in Runs, Taken(h, t)', run'[h].pc = "dequeue" PROVE run[h].got.ver <= run[g].got.ver
        BY <1>7, <3>1, <3>3 DEF Topped
      <4>2. CASE h = g
        BY <3>2, <4>2
      <4>3. CASE h # g
        <5>1. Taken(h, t) /\ run[h].pc = "dequeue" /\ Taken(g, t)
          BY <1>6, <1>7, <2>3, <4>1, <4>3
        <5>2. CASE tally[t] = NoTally
          BY <2>1, <4>3, <5>1, <5>2 DEF Upheld, Topped
        <5>3. CASE tally[t] # NoTally
          <6>1. run[h].got.ver <= tally[t].ver
            BY <2>1, <5>1, <5>3 DEF Upheld, Topped
          <6> QED BY <3>1, <3>2, <6>1
        <5> QED BY <5>2, <5>3
      <4> QED BY <4>2, <4>3
    <3> QED BY <3>5, <3>6, <3>7 DEF Upheld
  <2> QED BY <2>2, <2>3
<1> QED BY <1>8, <1>9, <1>11 DEF WInv, Bookkeeping

\* Work is retired: the tally has seen the newest change that a cursor passed.
LEMMA WorkRetired ==
    ASSUME IInv, WInv, NEW g \in Runs, Dequeue(g)
    PROVE  WInv'
<1>1. TypeOK /\ run[g] \in Run
  BY DEF IInv, TypeOK
<1> DEFINE s == Head(run[g].work)
<1>2. /\ run[g].pc = "dequeue" /\ NextItem(g, run[g].left)
      /\ queue' = IF Queued(s) /\ Retired(queue[s], run[g].now) THEN [queue EXCEPT ![s] = NotQueued] ELSE queue
      /\ clock' = clock /\ up' = up /\ sync' = sync /\ tally' = tally /\ crossed' = crossed /\ row' = row
  BY DEF Dequeue, backend, history
<1>3. PICK q : run' = [run EXCEPT ![g] = q] /\ Stays(q, run[g]) /\ q.pc \notin {"store", "dequeue"}
  BY <1>1, <1>2, StaysNext DEF Working
<1>4. Bookkeeping' /\ \A t \in Refs : Passed(t)' => Passed(t)
  BY <1>1, <1>2, <1>3, StayStep
<1>5. SUFFICES ASSUME NEW t \in Refs \ crossed' PROVE Upheld(t)'
  BY <1>4 DEF WInv
<1>6. Upheld(t) /\ (Live(t)' <=> Live(t))
  BY <1>2 DEF WInv, Live, Stored
<1>7. CASE queue'[t] = queue[t]
  BY <1>1, <1>2, <1>3, <1>4, <1>6, <1>7, UpheldKeeps DEF Queued
<1>8. CASE queue'[t] # queue[t]
  <2>1. t = s /\ queue[t].at <= run[g].now
    BY <1>1, <1>2, <1>8 DEF Retired, TypeOK
  <2>2. Taken(g, t)
    BY <1>2, <2>1 DEF Taken
  <2>3. /\ up[t].gen \in Nat /\ tally[t].ver \in Nat /\ queue[t].at \in Nat
        /\ \A h \in Runs : run[h].got.ver \in Nat /\ run[h].now \in Nat
    BY <1>1, Numbers
  <2>4. Live(t) /\ run[g].got.ver < up[t].gen /\ Passed(t) => up[t].gen <= tally[t].ver
    <3>1. ~(run[g].now < queue[t].at)
      BY <2>1, <2>3
    <3> QED BY <1>6, <2>2, <3>1 DEF Upheld, Outrun
  <2>5. /\ tally[t] = NoTally \/ run[g].got.ver <= tally[t].ver
        /\ \A h \in Runs \ {g} : tally[t] = NoTally /\ Taken(h, t) => run[g].got.ver <= run[h].got.ver
    BY <1>2, <1>6, <2>2 DEF Upheld, Topped
  <2>6. Live(t) /\ Passed(t) /\ tally[t] # NoTally => up[t].gen <= tally[t].ver
    BY <2>3, <2>4, <2>5
  <2>7. run'[g] = q /\ \A h \in Runs \ {g} : run'[h] = run[h] /\ (Taken(h, t)' <=> Taken(h, t))
    BY <1>1, <1>3, Others
  <2>8. \A h \in Runs : Taken(h, t)' => h # g /\ Taken(h, t) /\ run'[h] = run[h]
    BY <1>3, <2>7 DEF Taken
  <2>9. Owed(t)'
    BY <1>2, <1>4, <1>6, <2>3, <2>6 DEF Owed
  <2>10. Outrun(t)'
    <3>1. SUFFICES ASSUME NEW h \in Runs, Taken(h, t)', Live(t)', run'[h].got.ver < up'[t].gen, Passed(t)'
                   PROVE  up[t].gen <= tally[t].ver
      BY <1>2 DEF Outrun
    <3>2. h # g /\ Taken(h, t) /\ run[h].got.ver < up[t].gen /\ Live(t) /\ Passed(t)
      BY <1>2, <1>4, <1>6, <2>8, <3>1
    <3>3. CASE tally[t] # NoTally
      BY <2>6, <3>2, <3>3
    <3>4. CASE tally[t] = NoTally
      <4>1. run[g].got.ver <= run[h].got.ver
        BY <2>5, <3>2, <3>4
      <4>2. run[g].got.ver < up[t].gen
        BY <2>3, <3>2, <4>1
      <4> QED BY <2>4, <3>2, <4>2
    <3> QED BY <3>3, <3>4
  <2>11. Topped(t)'
    BY <1>2, <1>6, <2>8 DEF Upheld, Topped
  <2> QED BY <2>9, <2>10, <2>11 DEF Upheld
<1> QED BY <1>7, <1>8

-----------------------------------------------------------------------------
(* The steps of a page.                                                    *)

\* A run with a page to apply, as its cursor and the backend have it.
Opened(r, o) ==
    /\ r \in Run /\ r.now = o.now /\ r.cursor = o.cursor
    /\ r.drop \subseteq RefsOf(r.page.rows)
    /\ r.cursor <= r.page.next /\ \A a \in r.page.rows : r.cursor < a.ver
    /\ Truthful(r.page.rows, up) /\ Covers(r.page, r.cursor, up)

\* It comes to a stage of the page, or past the page.
Turns(q, r) ==
    /\ q.now = r.now
    /\ \/ q.pc \in Delivering /\ q.page = r.page /\ q.cursor = r.cursor /\ q.drop = r.drop
       \/ q.pc \in {"fetch", "put"} /\ q.cursor = r.page.next /\ q.drop = {}

LEMMA AppliedTurns ==
    ASSUME NEW r \in Run
    PROVE  Turns(Applied(r), r)
<1> DEFINE asOf == IF Advances(r) THEN r.page.at ELSE r.asOf
           pc == IF r.page.short \/ r.pages = MaxPages THEN "put" ELSE "fetch"
           q == [r EXCEPT !.cursor = r.page.next, !.asOf = asOf, !.pc = pc, !.page = NoPage, !.drop = {}]
<1>1. Applied(r) = q /\ pc \in {"put", "fetch"}
  BY DEF Applied
<1> HIDE DEF asOf, pc
<1>2. q.pc = pc /\ q.cursor = r.page.next /\ q.drop = {} /\ q.now = r.now
  BY DEF Run
<1> QED BY <1>1, <1>2 DEF Turns

LEMMA OnwardTurns ==
    ASSUME NEW r \in Run, NEW from \in 1..4
    PROVE  /\ Turns(Onward(r, from), r)
           /\ Kept(r.page) # {} => Onward(r, from).pc \in Delivering
<1> DEFINE stages == <<"withdraw", "upsert", "purge", "enqueue">>
           due == [withdraw |-> Gone(r.page) # {}, upsert |-> Kept(r.page) # {},
                   purge |-> r.drop # {}, enqueue |-> Kept(r.page) # {}]
           ahead == {k \in from..4 : due[stages[k]]}
           k == CHOOSE i \in ahead : \A j \in ahead : i <= j
           q == [r EXCEPT !.pc = stages[k]]
<1>1. CASE ahead = {}
  <2>1. Onward(r, from) = Applied(r)
    BY <1>1 DEF Onward
  <2>2. ~due[stages[4]]
    <3>1. 4 \in from..4
      OBVIOUS
    <3> QED BY <1>1, <3>1
  <2>3. Kept(r.page) = {}
    BY <2>2
  <2> QED BY <2>1, <2>3, AppliedTurns
<1>2. CASE ahead # {}
  <2>1. \E i \in ahead : \A j \in ahead : i <= j
    <3>1. ahead \in SUBSET Nat
      OBVIOUS
    <3> QED BY <1>2, <3>1, LeastNat
  <2>2. k \in ahead
    BY <2>1
  <2>3. k \in 1..4
    <3>1. ahead \subseteq 1..4
      OBVIOUS
    <3> HIDE DEF k, ahead
    <3> QED BY <2>2, <3>1
  <2>4. Onward(r, from) = q
    BY <1>2 DEF Onward
  <2> HIDE DEF k
  <2>5. stages[k] \in Delivering
    BY <2>3 DEF Delivering
  <2> HIDE DEF stages
  <2>6. q.pc = stages[k] /\ q.page = r.page /\ q.cursor = r.cursor /\ q.drop = r.drop /\ q.now = r.now
    BY DEF Run
  <2> QED BY <2>4, <2>5, <2>6 DEF Turns
<1> QED BY <1>1, <1>2

\* A step of a page leaves the books as they are, and a cursor that it moves
\* passes only changes of the page, or of surveys that are gone.
LEMMA PageMoves ==
    ASSUME IInv, WInv, IInv', NEW g \in Runs, NEW q, NEW r, run' = [run EXCEPT ![g] = q], run[g].pc # "idle",
           Opened(r, run[g]), Turns(q, r), clock' = clock, up' = up, sync' = sync, crossed \subseteq crossed'
    PROVE  /\ Bookkeeping' /\ q.pc \notin {"idle", "store", "dequeue"}
           /\ \A s \in Refs \ crossed' : Live(s)' /\ Passed(s)' =>
                Passed(s) \/ (q.pc \notin Delivering /\ s \in RefsOf(Kept(r.page)))
           /\ q.cursor = run[g].cursor => \A s \in Refs : Passed(s)' => Passed(s)
<1>1. TypeOK /\ q.pc \notin {"idle", "store", "dequeue"} /\ q.now = run[g].now
  BY DEF IInv, Turns, Opened, Delivering
<1>2. run'[g] = q /\ \A h \in Runs \ {g} : run'[h] = run[h]
  BY <1>1, Others
<1>3. /\ run[g].cursor \in Nat /\ q.cursor \in Nat /\ run[g].cursor <= q.cursor
      /\ q.cursor = run[g].cursor \/ (q.cursor = r.page.next /\ q.pc \notin Delivering)
  <2>1. run[g].cursor \in Nat
    BY <1>1, Numbers
  <2>2. r.page.next \in Nat
    BY DEF Opened, Run, Page, Version
  <2>3. {"fetch", "put"} \cap Delivering = {}
    BY DEF Delivering
  <2> QED BY <2>1, <2>2, <2>3 DEF Opened, Turns
<1>4. Started'
  BY <1>1, StartedKeeps DEF WInv, Bookkeeping
<1>5. Leads(q)
  <2>1. CASE q.pc \in Delivering /\ q.page = r.page /\ q.cursor = r.cursor /\ q.drop = r.drop
    BY <2>1 DEF Leads, Opened
  <2>2. CASE q.pc \in {"fetch", "put"} /\ q.drop = {}
    BY <2>2 DEF Leads, Delivering
  <2> QED BY <2>1, <2>2 DEF Turns
<1>6. \A h \in Runs : Leads(run'[h])
  BY <1>1, <1>5, LeadsKeeps DEF WInv, Bookkeeping
<1>7. \A h \in Runs : \A s \in Refs : Fetched(h, s)'
  <2>1. \A h \in Runs : \A s \in Refs : Fetched(h, s)
    BY DEF WInv, Bookkeeping
  <2>2. \A h \in Runs \ {g} : \A s \in Refs : Fetched(h, s)'
    BY <1>1, <1>3, <2>1, FetchedOthers
  <2>3. \A s \in Refs : Fetched(g, s)'
    BY <1>1, <1>2 DEF Fetched, Taken
  <2> QED BY <2>2, <2>3
<1>8. ASSUME NEW s \in Refs \ crossed', Live(s)', Passed(s)', ~Passed(s)
      PROVE  q.pc \notin Delivering /\ s \in RefsOf(Kept(r.page))
  <2>1. up[s].gen <= q.cursor /\ ~(up[s].gen <= run[g].cursor)
    BY <1>2, <1>8 DEF Passed
  <2>2. q.cursor = r.page.next /\ q.pc \notin Delivering
    BY <1>3, <2>1
  <2>3. PICK a \in r.page.rows : a.ref = s /\ a.ver = up[s].gen
    BY <2>1, <2>2 DEF Opened, Covers
  <2>4. a.listed = up[s].listed
    BY <2>3 DEF Opened, Truthful
  <2>5. applied'[s] = up'[s].gen
    <3>1. Caught(q.cursor, up', applied')
      BY <1>2 DEF IInv, RunsInv, Sound
    <3> QED BY <2>1, <3>1 DEF Caught
  <2>6. Mirrored(s)'
    BY <2>5 DEF IInv, Rows
  <2>7. up[s].listed
    BY <1>8, <2>6 DEF Mirrored, Live, Stored
  <2>8. a \in Kept(r.page)
    BY <2>3, <2>4, <2>7 DEF Kept
  <2> QED BY <2>2, <2>3, <2>8 DEF RefsOf
<1>9. ASSUME q.cursor = run[g].cursor PROVE \A s \in Refs : Passed(s)' => Passed(s)
  BY <1>1, <1>9, PassedKeeps
<1> QED BY <1>1, <1>4, <1>6, <1>7, <1>8, <1>9 DEF Bookkeeping

\* A page in delivery, as the invariants have it.
LEMMA OpenedPage ==
    ASSUME IInv, WInv, NEW g \in Runs, run[g].pc \in Delivering
    PROVE  Opened(run[g], run[g])
<1>1. run[g] \in Run /\ Holding(run[g], gen, up, applied)
  BY PageFacts
<1>2. Leads(run[g])
  BY DEF WInv, Bookkeeping
<1> QED BY <1>1, <1>2 DEF Opened, Holding, Leads

\* A page of the delta leads on.
LEMMA AnswerLeads ==
    ASSUME TypeOK, Backend, NEW c \in Version, c <= gen, NEW p, p = Answer(c)
    PROVE  c <= p.next /\ \A a \in p.rows : c < a.ver
<1> DEFINE moved == {s \in Refs : up[s].gen > c}
           first == {s \in moved : Cardinality({t \in moved : up[t].gen < up[s].gen}) < PageLimit}
           short == Cardinality(first) < PageLimit
           gens == {up[s].gen : s \in first}
           last == CHOOSE n \in gens : \A s \in first : up[s].gen <= n
           next == IF short THEN gen ELSE last
           rows == {[ref |-> s, ver |-> up[s].gen, listed |-> up[s].listed, hash |-> up[s].hash] : s \in first}
<1>1. p = [rows |-> rows, next |-> next, at |-> gen, short |-> short]
  BY DEF Answer
<1>2. c \in Nat /\ gen \in Nat /\ \A s \in Refs : up[s].gen \in Nat
  BY Numbers DEF TypeOK, Version
<1>3. \A s \in first : s \in Refs /\ c < up[s].gen
  BY <1>2
<1>4. \A a \in rows : c < a.ver
  <2> HIDE DEF first
  <2> QED BY <1>3
<1>5. c <= next
  <2>1. CASE short
    BY <2>1
  <2>2. CASE ~short
    <3>1. first # {}
      <4>1. SUFFICES ASSUME first = {} PROVE FALSE
        OBVIOUS
      <4>2. Cardinality(first) = 0
        BY <4>1, FS_EmptySet
      <4> QED BY <2>2, <4>2, SurveysAssumption DEF SurveysAssumption
    <3>2. gens \in SUBSET Nat /\ gens # {} /\ \A n \in gens : n <= gen
      <4>1. \A s \in Refs : up[s].gen <= gen
        BY DEF Backend
      <4> HIDE DEF first
      <4> QED BY <1>2, <1>3, <3>1, <4>1
    <3>3. PICK n \in gens : \A m \in gens : m <= n
      BY <1>2, <3>2, GreatestNat
    <3>4. last \in gens
      BY <3>3
    <3>5. \A m \in gens : m \in Nat /\ c < m
      <4> HIDE DEF first
      <4> QED BY <1>2, <1>3
    <3>6. last \in Nat /\ c < last
      BY <3>4, <3>5
    <3> HIDE DEF last, short
    <3> QED BY <1>2, <2>2, <3>6
  <2> QED BY <2>1, <2>2
<1> HIDE DEF rows, next, short
<1> QED BY <1>1, <1>4, <1>5

\* The steps of a page before its first write.
LEMMA WorkPage ==
    ASSUME IInv, WInv, IInv', NEW g \in Runs, Fetch(g) \/ Facts(g)
    PROVE  WInv'
<1>1. TypeOK /\ Backend /\ run[g] \in Run
  BY DEF IInv, TypeOK
<1>2. \E r, q : /\ run' = [run EXCEPT ![g] = q] /\ Opened(r, run[g]) /\ Turns(q, r)
                /\ Kept(r.page) # {} => q.pc \in Delivering
  <2>1. CASE Fetch(g)
    <3> DEFINE page == Answer(run[g].cursor)
               n == run[g].pages + 1
               left == Spend(run[g].left, 1)
               r == [run[g] EXCEPT !.page = page, !.pages = n, !.left = left]
               q == IF r.page.rows = {} THEN Applied(r) ELSE [r EXCEPT !.pc = "facts"]
    <3>1. run' = [run EXCEPT ![g] = q]
      BY <2>1 DEF Fetch, Set
    <3>2. run[g].cursor \in Version /\ run[g].cursor <= gen /\ run[g].pages \in 0..MaxPages /\ run[g].left \in 0..Allowance
      BY <1>1 DEF IInv, RunsInv, Sound, Run
    <3>3. /\ page \in Page /\ Truthful(page.rows, up) /\ Covers(page, run[g].cursor, up)
          /\ run[g].cursor <= page.next /\ \A a \in page.rows : run[g].cursor < a.ver
      BY <1>1, <3>2, AnswerCovers, AnswerLeads
    <3>4. run[g].drop = {}
      BY <2>1, NoDrop DEF Fetch, Delivering
    <3>5. n \in 0..MaxPages /\ left \in 0..Allowance
      <4>1. run[g].pages < MaxPages /\ MaxPages \in Nat
        BY <2>1, SurveysAssumption DEF Fetch, IInv, RunsInv, Formed, SurveysAssumption
      <4>2. left \in 0..Allowance
        BY <3>2, SpendType
      <4> QED BY <3>2, <4>1, <4>2
    <3> HIDE DEF page, n, left
    <3>6. r \in Run /\ r.page = page /\ r.now = run[g].now /\ r.cursor = run[g].cursor /\ r.drop = {}
      BY <1>1, <3>3, <3>4, <3>5 DEF Run
    <3> HIDE DEF r
    <3>7. Opened(r, run[g])
      BY <3>3, <3>6 DEF Opened
    <3>8. Turns(q, r) /\ (Kept(r.page) # {} => q.pc \in Delivering)
      <4>1. CASE r.page.rows = {}
        <5>1. Kept(r.page) = {} /\ q = Applied(r)
          BY <4>1 DEF Kept
        <5> QED BY <3>6, <5>1, AppliedTurns
      <4>2. CASE r.page.rows # {}
        <5>1. q = [r EXCEPT !.pc = "facts"]
          BY <4>2
        <5> HIDE DEF q
        <5>2. q.pc = "facts" /\ q.page = r.page /\ q.cursor = r.cursor /\ q.drop = r.drop /\ q.now = r.now
          BY <3>6, <5>1 DEF Run
        <5> QED BY <5>2 DEF Turns, Delivering
      <4> QED BY <4>1, <4>2
    <3> QED BY <3>1, <3>7, <3>8
  <2>2. CASE Facts(g)
    <3> DEFINE dropped == {a \in Gone(run[g].page) : Stored(a.ref) /\ ~row[a.ref].thread}
                          \cup {a \in Kept(run[g].page) : Stored(a.ref) /\ row[a.ref].hash # a.hash}
               d == RefsOf(dropped)
               r == [run[g] EXCEPT !.drop = d]
    <3>1. run' = [run EXCEPT ![g] = Onward(r, 1)] /\ run[g].pc \in Delivering
      BY <2>2 DEF Facts, Set, Delivering
    <3>2. Opened(run[g], run[g])
      BY <3>1, OpenedPage
    <3>3. d \subseteq RefsOf(run[g].page.rows) /\ d \subseteq Refs
      <4>1. dropped \subseteq run[g].page.rows
        BY DEF Gone, Kept
      <4>2. run[g].page.rows \subseteq Item
        BY <1>1 DEF Run, Page
      <4> HIDE DEF dropped
      <4> QED BY <4>1, <4>2 DEF RefsOf, Item
    <3> HIDE DEF d
    <3>4. r \in Run /\ r.page = run[g].page /\ r.now = run[g].now /\ r.cursor = run[g].cursor /\ r.drop = d
      BY <1>1, <3>3 DEF Run
    <3> HIDE DEF r
    <3>5. Opened(r, run[g])
      BY <3>2, <3>3, <3>4 DEF Opened
    <3>6. Turns(Onward(r, 1), r) /\ (Kept(r.page) # {} => Onward(r, 1).pc \in Delivering)
      BY <3>4, OnwardTurns
    <3> QED BY <3>1, <3>5, <3>6
  <2> QED BY <2>1, <2>2
<1>3. PICK r, q : /\ run' = [run EXCEPT ![g] = q] /\ Opened(r, run[g]) /\ Turns(q, r)
                  /\ Kept(r.page) # {} => q.pc \in Delivering
  BY <1>2
<1>4. /\ run[g].pc # "idle" /\ clock' = clock /\ up' = up /\ sync' = sync /\ tally' = tally /\ queue' = queue
      /\ crossed' = crossed /\ row' = row
  BY DEF Fetch, Facts, backend, tables, history
<1>5. /\ Bookkeeping' /\ q.pc \notin {"idle", "store", "dequeue"}
      /\ \A s \in Refs \ crossed' : Live(s)' /\ Passed(s)' =>
           Passed(s) \/ (q.pc \notin Delivering /\ s \in RefsOf(Kept(r.page)))
  BY <1>3, <1>4, PageMoves
<1>6. ASSUME NEW s \in Refs \ crossed' PROVE Upheld(s)'
  <2>1. Upheld(s) /\ (Live(s)' => Live(s))
    BY <1>4 DEF WInv, Live, Stored
  <2>2. Live(s)' /\ Passed(s)' => Live(s) /\ Passed(s)
    BY <1>3, <1>5, <2>1 DEF RefsOf
  <2> QED BY <1>1, <1>3, <1>4, <1>5, <2>1, <2>2, UpheldKeeps DEF Queued
<1> QED BY <1>5, <1>6 DEF WInv

-----------------------------------------------------------------------------
(* What a page writes.                                                     *)

\* A batch of a page brings back no survey whose newest change a cursor has
\* passed: the row of that one says so already.
LEMMA WorkBatch ==
    ASSUME IInv, WInv, IInv', NEW g \in Runs, Withdraw(g) \/ Upsert(g)
    PROVE  WInv'
<1>1. /\ TypeOK /\ run[g] \in Run
      /\ row \in [Refs -> [ver : Version, hash : Version, final : Version, thread : BOOLEAN, hidden : BOOLEAN]]
  BY DEF IInv, TypeOK
<1>2. /\ run[g].pc \in Delivering /\ run[g].pc # "idle" /\ clock' = clock /\ up' = up /\ sync' = sync
      /\ tally' = tally /\ queue' = queue /\ crossed \subseteq crossed'
  BY DEF Withdraw, Upsert, backend, Delivering
<1>3. Opened(run[g], run[g])
  BY <1>2, OpenedPage
<1>4. PICK from \in {2, 3} : run' = [run EXCEPT ![g] = Onward(run[g], from)]
  BY DEF Withdraw, Upsert, Set
<1> DEFINE q == Onward(run[g], from)
<1>5. Turns(q, run[g]) /\ (Kept(run[g].page) # {} => q.pc \in Delivering)
  <2>1. from \in 1..4 /\ run[g] \in Run
    BY <1>1
  <2> QED BY ONLY <2>1, OnwardTurns
<1>6. run' = [run EXCEPT ![g] = q]
  BY <1>4
<1> HIDE DEF q
<1>7. /\ Bookkeeping' /\ q.pc \notin {"idle", "store", "dequeue"}
      /\ \A s \in Refs \ crossed' : Live(s)' /\ Passed(s)' =>
           Passed(s) \/ (q.pc \notin Delivering /\ s \in RefsOf(Kept(run[g].page)))
  BY <1>2, <1>3, <1>5, <1>6, PageMoves
<1>8. \A s \in Refs \ crossed' : Live(s)' /\ Passed(s)' => Passed(s)
  BY <1>5, <1>7 DEF RefsOf
<1>9. ASSUME NEW s \in Refs \ crossed', Live(s)', Passed(s) PROVE Live(s)
  <2>1. CASE Withdraw(g)
    <3> DEFINE A == Gone(run[g].page)
    <3>1. row'[s] = IF s \notin RefsOf(A) \/ ~Stored(s) THEN row[s]
                    ELSE IF row[s].thread THEN [row[s] EXCEPT !.hidden = TRUE] ELSE NoSurvey
      BY <2>1 DEF Withdraw
    <3>2. [row[s] EXCEPT !.hidden = TRUE].hidden = TRUE /\ NoSurvey.ver = 0
      BY <1>1 DEF NoSurvey
    <3> HIDE DEF A
    <3>3. row'[s] = row[s]
      BY <1>9, <3>1, <3>2 DEF Live, Stored
    <3> QED BY <1>9, <3>3 DEF Live, Stored
  <2>2. CASE Upsert(g)
    <3> DEFINE A == Kept(run[g].page)
    <3>1. CASE s \notin RefsOf(A)
      <4>1. row'[s] = row[s]
        BY <2>2, <3>1 DEF Upsert
      <4> QED BY <1>9, <4>1 DEF Live, Stored
    <3>2. CASE s \in RefsOf(A)
      <4>1. PICK a \in A : a.ref = s
        BY <3>2 DEF RefsOf
      <4>2. a \in run[g].page.rows /\ a.listed
        BY <4>1 DEF Kept
      <4>3. /\ 0 < a.ver /\ a.ver <= up[s].gen
            /\ a.ver = up[s].gen => a.listed = up[s].listed
        BY <1>3, <4>1, <4>2 DEF Opened, Truthful
      <4>4. applied[s] = up[s].gen
        <5>1. PICK c : up[s].gen <= c /\ Caught(c, up, applied)
          <6>1. CASE up[s].gen <= sync.cursor
            BY <6>1 DEF IInv, Backend
          <6>2. CASE \E h \in Runs : up[s].gen <= run[h].cursor
            BY <6>2 DEF IInv, RunsInv, Sound
          <6> QED BY <1>9, <6>1, <6>2 DEF Passed
        <5> QED BY <5>1 DEF Caught
      <4>5. a.ver \in Nat /\ up[s].gen \in Nat
        <5>1. run[g].page.rows \in SUBSET Item
          BY <1>1 DEF Run, Page
        <5>2. a.ver \in Nat
          BY <4>2, <5>1 DEF Item, Version
        <5> QED BY <1>1, <5>2, Numbers
      <4>6. ~(a.ver < applied[s])
        <5>1. a.ver < applied[s] => s \in Behind(A)
          BY <4>1 DEF Behind
        <5>2. Behind(A) \subseteq crossed'
          BY <2>2 DEF Upsert
        <5> QED BY <5>1, <5>2
      <4>7. up[s].listed
        <5>1. a.ver = up[s].gen
          <6>1. a.ver <= up[s].gen /\ ~(a.ver < up[s].gen)
            BY <4>3, <4>4, <4>6
          <6> HIDE DEF A
          <6> QED BY <4>5, <6>1
        <5> QED BY <4>2, <4>3, <5>1
      <4>8. Mirrored(s)
        BY <1>2, <4>4 DEF IInv, Rows
      <4> QED BY <4>3, <4>5, <4>7, <4>8 DEF Mirrored, Live, Stored
    <3> QED BY <3>1, <3>2
  <2> QED BY <2>1, <2>2
<1>10. ASSUME NEW s \in Refs \ crossed' PROVE Upheld(s)'
  <2>1. Upheld(s)
    BY <1>2 DEF WInv
  <2>2. Live(s)' /\ Passed(s)' => Live(s) /\ Passed(s)
    BY <1>8, <1>9
  <2> QED BY <1>1, <1>2, <1>6, <1>7, <2>1, <2>2, UpheldKeeps DEF Queued
<1> QED BY <1>7, <1>10 DEF WInv

\* What is purged goes with its work: no cursor has passed the change the page brings.
LEMMA WorkPurged ==
    ASSUME AtMostTwo, IInv, WInv, IInv', NEW g \in Runs, Purge(g)
    PROVE  WInv'
<1>1. TypeOK /\ run[g] \in Run
  BY DEF IInv, TypeOK
<1>2. /\ run[g].pc \in Delivering /\ run[g].pc # "idle" /\ clock' = clock /\ up' = up /\ sync' = sync
      /\ crossed' = crossed /\ row' = row
  BY DEF Purge, backend, history, Delivering
<1>3. Opened(run[g], run[g])
  BY <1>2, OpenedPage
<1> DEFINE q == Onward(run[g], 4)
<1>4. Turns(q, run[g]) /\ (Kept(run[g].page) # {} => q.pc \in Delivering)
  BY <1>1, OnwardTurns
<1>5. run' = [run EXCEPT ![g] = q]
  BY DEF Purge, Set
<1> HIDE DEF q
<1>6. /\ Bookkeeping' /\ q.pc \notin {"idle", "store", "dequeue"}
      /\ \A s \in Refs \ crossed' : Live(s)' /\ Passed(s)' =>
           Passed(s) \/ (q.pc \notin Delivering /\ s \in RefsOf(Kept(run[g].page)))
  BY <1>2, <1>3, <1>4, <1>5, PageMoves
<1>7. \A s \in Refs \ crossed' : Live(s)' /\ Passed(s)' => Live(s) /\ Passed(s)
  BY <1>2, <1>4, <1>6 DEF RefsOf, Live, Stored
<1>8. run'[g] = q /\ \A h \in Runs \ {g} : run'[h] = run[h] /\ \A t \in Refs : Taken(h, t)' <=> Taken(h, t)
  BY <1>1, <1>5, Others
<1>9. ASSUME NEW s \in Refs \ crossed' PROVE Upheld(s)'
  <2>1. Upheld(s)
    BY <1>2 DEF WInv
  <2>2. CASE s \notin run[g].drop
    <3>1. tally'[s] = tally[s] /\ queue'[s] = queue[s]
      BY <2>2 DEF Purge
    <3> QED BY <1>1, <1>2, <1>5, <1>6, <1>7, <2>1, <3>1, UpheldKeeps DEF Queued
  <2>3. CASE s \in run[g].drop
    <3>1. tally'[s] = NoTally
      BY <2>3 DEF Purge
    <3>2. run[g].cursor < up[s].gen
      <4>1. PICK a \in run[g].page.rows : a.ref = s
        BY <1>3, <2>3 DEF Opened, RefsOf
      <4>2. run[g].cursor < a.ver /\ a.ver <= up[s].gen
        BY <1>3, <4>1 DEF Opened, Truthful
      <4>3. run[g].page.rows \in SUBSET Item
        BY <1>1 DEF Run, Page
      <4>4. a.ver \in Nat /\ run[g].cursor \in Nat /\ up[s].gen \in Nat
        BY <1>1, <4>1, <4>3, Numbers DEF Item, Version
      <4> QED BY <4>2, <4>4
    <3>3. \A h \in Runs : Taken(h, s)' => h # g /\ Taken(h, s) /\ run'[h] = run[h]
      BY <1>6, <1>8 DEF Taken
    <3>4. Owed(s)'
      BY <3>1 DEF Owed
    <3>5. Outrun(s)'
      <4>1. SUFFICES ASSUME NEW h \in Runs, Taken(h, s)', Live(s)', run'[h].got.ver < up'[s].gen, Passed(s)' PROVE FALSE
        BY DEF Outrun
      <4>2. h # g /\ Taken(h, s) /\ run[h].got.ver < up[s].gen /\ Passed(s)
        BY <1>2, <1>7, <3>3, <4>1
      <4>3. run[h].cursor < up[s].gen /\ (sync.cursor < up[s].gen \/ up[s].gen <= run[g].cursor)
        BY <1>2, <4>2 DEF WInv, Bookkeeping, Fetched
      <4>4. \A k \in Runs : k = g \/ k = h
        BY <4>2 DEF AtMostTwo
      <4>5. /\ up[s].gen \in Nat /\ sync.cursor \in Nat
            /\ \A k \in Runs : run[k].cursor \in Nat
        BY <1>1, Numbers
      <4>6. sync.cursor < up[s].gen /\ \A k \in Runs : run[k].cursor < up[s].gen
        BY <3>2, <4>3, <4>4, <4>5
      <4> QED BY <4>2, <4>5, <4>6 DEF Passed
    <3>6. Topped(s)'
      <4>1. SUFFICES ASSUME NEW h \in Runs, NEW k \in Runs \ {h}, Taken(h, s)', Taken(k, s)' PROVE FALSE
        BY <3>1 DEF Topped
      <4> QED BY <3>3, <4>1 DEF AtMostTwo
    <3> QED BY <3>4, <3>5, <3>6 DEF Upheld
  <2> QED BY <2>2, <2>3
<1> QED BY <1>6, <1>9 DEF WInv

\* The surveys of a page are queued before its cursor counts.
LEMMA WorkEnqueued ==
    ASSUME IInv, WInv, IInv', NEW g \in Runs, Enqueue(g)
    PROVE  WInv'
<1>1. TypeOK /\ run[g] \in Run /\ Started
  BY DEF IInv, TypeOK, WInv, Bookkeeping
<1> DEFINE S == RefsOf(Kept(run[g].page))
           q == Applied(run[g])
<1>2. /\ run[g].pc \in Delivering /\ run[g].pc # "idle" /\ clock' = clock /\ up' = up /\ sync' = sync
      /\ tally' = tally /\ row' = row /\ queue' = Enqueued(S, run[g].now)
      /\ crossed' = crossed \cup {s \in S : Overtaken(g, s)} /\ run' = [run EXCEPT ![g] = q]
  BY DEF Enqueue, backend, Delivering, Set
<1>3. Opened(run[g], run[g])
  BY <1>2, OpenedPage
<1>4. Turns(q, run[g])
  BY <1>1, AppliedTurns
<1> HIDE DEF q
<1>5. /\ Bookkeeping' /\ q.pc \notin {"idle", "store", "dequeue"}
      /\ \A s \in Refs \ crossed' : Live(s)' /\ Passed(s)' => Passed(s) \/ (q.pc \notin Delivering /\ s \in S)
  BY <1>2, <1>3, <1>4, PageMoves
<1>6. ASSUME NEW s \in Refs \ crossed' PROVE Upheld(s)'
  <2>1. Upheld(s)
    BY <1>2 DEF WInv
  <2>2. CASE s \in S
    <3>1. ~Overtaken(g, s)
      BY <1>2, <2>2
    <3>2. queue'[s].at = run[g].now
      <4>1. queue[s] \in [at : 0..MaxClock, last : 0..MaxClock]
        BY <1>1 DEF TypeOK
      <4> QED BY <1>2, <2>2, <4>1 DEF Enqueued
    <3> QED BY <1>1, <1>2, <1>5, <2>1, <3>1, <3>2, Busy, UpheldQueued
  <2>3. CASE s \notin S
    <3>1. queue'[s] = queue[s]
      BY <1>2, <2>3 DEF Enqueued
    <3>2. Live(s)' /\ Passed(s)' => Live(s) /\ Passed(s)
      BY <1>2, <1>5, <2>3 DEF Live, Stored
    <3> QED BY <1>1, <1>2, <1>5, <2>1, <3>1, <3>2, UpheldKeeps DEF Queued
  <2> QED BY <2>2, <2>3
<1> QED BY <1>5, <1>6 DEF WInv

-----------------------------------------------------------------------------
(* The invariant, and what it says of the queue.                           *)

\* A change is ahead of every cursor.
LEMMA WorkChanged ==
    ASSUME IInv, WInv, NEW s \in Refs, Change(s)
    PROVE  WInv'
<1>1. TypeOK
  BY DEF IInv
<1>2. UNCHANGED <<clock, row, tally, queue, sync, run, crossed>>
  BY DEF Change, tables, history
<1>3. /\ \A t \in Refs \ {s} : up'[t] = up[t]
      /\ up'[s].gen = gen + 1 /\ gen \in Nat
  BY <1>1 DEF Change, TypeOK, Version
<1>4. sync.cursor < up'[s].gen /\ \A g \in Runs : run[g].cursor < up'[s].gen
  <2>1. sync.cursor <= gen /\ \A g \in Runs : run[g].cursor <= gen
    BY DEF IInv, Backend, RunsInv, Sound
  <2> QED BY <1>1, <1>3, <2>1, Numbers
<1>5. up[s].gen <= up'[s].gen
  <2>1. up[s].gen <= gen /\ up[s].gen \in Nat
    BY <1>1, Numbers DEF IInv, Backend
  <2> QED BY <1>3, <2>1
<1>6. ~Passed(s)'
  <2>1. sync.cursor \in Nat /\ \A g \in Runs : run[g].cursor \in Nat
    BY <1>1, Numbers
  <2>2. up'[s].gen \in Nat
    BY <1>3
  <2> QED BY <1>2, <1>4, <2>1, <2>2 DEF Passed
<1>7. Bookkeeping'
  <2>1. Started' /\ \A g \in Runs : Leads(run'[g])
    BY <1>2 DEF WInv, Bookkeeping, Started
  <2>2. ASSUME NEW g \in Runs, NEW t \in Refs PROVE Fetched(g, t)'
    <3>1. Fetched(g, t) /\ (Taken(g, t)' <=> Taken(g, t))
      BY <1>2 DEF WInv, Bookkeeping, Taken
    <3>2. CASE t # s
      BY <1>2, <1>3, <3>1, <3>2 DEF Fetched
    <3>3. CASE t = s
      <4>1. up[s].gen \in Nat /\ up'[s].gen \in Nat /\ run[g].got.ver \in Nat
        BY <1>1, <1>3, Numbers
      <4> QED BY <1>2, <1>4, <1>5, <3>1, <3>3, <4>1 DEF Fetched
    <3> QED BY <3>2, <3>3
  <2> QED BY <2>1, <2>2 DEF Bookkeeping
<1>8. ASSUME NEW t \in Refs \ crossed' PROVE Upheld(t)'
  <2>1. Upheld(t)
    BY <1>2 DEF WInv
  <2>2. /\ Live(t)' <=> Live(t)
        /\ Queued(t)' <=> Queued(t)
        /\ \A g \in Runs : Taken(g, t)' <=> Taken(g, t)
    BY <1>2 DEF Live, Stored, Queued, Taken
  <2>3. Topped(t)'
    BY <1>2, <2>1, <2>2 DEF Upheld, Topped
  <2>4. CASE t = s
    BY <1>6, <2>3, <2>4 DEF Upheld, Owed, Outrun
  <2>5. CASE t # s
    <3>1. up'[t] = up[t] /\ (Passed(t)' <=> Passed(t))
      BY <1>2, <1>3, <2>5 DEF Passed
    <3> QED BY <1>2, <2>1, <2>2, <2>3, <3>1 DEF Upheld, Owed, Outrun
  <2> QED BY <2>4, <2>5
<1> QED BY <1>7, <1>8 DEF WInv

LEMMA WorkUntouched ==
    ASSUME WInv, UNCHANGED <<clock, up, row, tally, queue, sync, run, crossed>>
    PROVE  WInv'
<1>1. Started' /\ \A g \in Runs : Leads(run'[g])
  BY DEF WInv, Bookkeeping, Started
<1>2. \A g \in Runs : \A s \in Refs : Fetched(g, s)'
  BY DEF WInv, Bookkeeping, Fetched, Taken
<1>3. \A s \in Refs \ crossed' : Upheld(s)'
  BY DEF WInv, Upheld, Owed, Outrun, Topped, Live, Stored, Queued, Passed, Taken
<1> QED BY <1>1, <1>2, <1>3 DEF WInv, Bookkeeping

LEMMA WorkStep ==
    ASSUME AtMostTwo, IInv, WInv, [Next]_vars
    PROVE  WInv'
<1>1. IInv'
  BY NextStep
<1>2. CASE \E s \in Refs : Change(s) \/ Import(s)
  BY <1>2, WorkChanged, WorkUntouched DEF Import, tables, history
<1>3. CASE UNCHANGED vars
  BY <1>3, WorkUntouched DEF vars
<1>4. ASSUME NEW g \in Runs, StartRun(g) \/ PassFails(g) \/ ItemFails(g) \/ RunFails(g)
      PROVE  WInv'
  BY <1>4, WorkStart, WorkFaults
<1>5. ASSUME NEW g \in Runs, RunStep(g)
      PROVE  WInv'
  <2>1. CASE Fetch(g) \/ Facts(g) \/ Withdraw(g) \/ Upsert(g) \/ Purge(g) \/ Enqueue(g) \/ Put(g)
    BY <1>1, <2>1, WorkPage, WorkBatch, WorkPurged, WorkEnqueued, WorkPut
  <2>2. CASE ListPublishable(g) \/ ListAwaiting(g) \/ FindMissing(g) \/ Requeue(g)
    BY <2>2, WorkLists, WorkRequeue
  <2>3. CASE (\E s \in Refs : Publish(g, s)) \/ (\E a \in run[g].todo : ReadFinal(g, a))
    BY <2>3, WorkRows
  <2>4. CASE Take(g) \/ Mark(g) \/ ReadSurvey(g)
    BY <2>4, WorkNext
  <2>5. CASE FetchBundle(g)
    BY <2>5, WorkNext, WorkFetched
  <2>6. CASE StoreTally(g)
    <3>1. CASE Current(Head(run[g].work), run[g].got.hash)
      BY <2>6, <3>1, WorkStored
    <3>2. CASE ~Current(Head(run[g].work), run[g].got.hash)
      <4>1. NextItem(g, run[g].left) /\ UNCHANGED <<tally, crossed>>
        BY <2>6, <3>2 DEF StoreTally
      <4> QED BY <2>6, <4>1, WorkNext
    <3> QED BY <3>1, <3>2
  <2>7. CASE Dequeue(g)
    BY <2>7, WorkRetired
  <2> QED BY <1>5, <2>1, <2>2, <2>3, <2>4, <2>5, <2>6, <2>7 DEF RunStep
<1> QED BY <1>2, <1>3, <1>4, <1>5 DEF Next

LEMMA WorkInit == Init => WInv
<1> SUFFICES ASSUME Init PROVE WInv
  OBVIOUS
<1>1. /\ clock = 0 /\ \A g \in Runs : run[g] = Asleep
      /\ \A s \in Refs : tally[s] = NoTally
  BY DEF Init
<1>2. \A g \in Runs : \A s \in Refs : ~Taken(g, s)
  BY <1>1, AsleepFacts DEF Taken
<1>3. Bookkeeping
  BY <1>1, <1>2, AsleepFacts DEF Bookkeeping, Started, Fetched
<1>4. \A s \in Refs : Upheld(s)
  BY <1>1, <1>2 DEF Upheld, Owed, Outrun, Topped
<1> QED BY <1>3, <1>4 DEF WInv

\* A tally behind the newest change of its survey is queued, or the change
\* comes again with the next delta, as long as at most two runs overlap
\* (enqueueSurveyTallies, dequeueSurveyTally).
THEOREM WorkIsKept == AtMostTwo => (Spec => []WorkKept)
<1> SUFFICES ASSUME AtMostTwo PROVE Spec => []WorkKept
  OBVIOUS
<1>1. Init => WInv
  BY WorkInit
<1>2. IInv /\ WInv /\ [Next]_vars => WInv'
  BY WorkStep
<1>3. IInv /\ WInv => WorkKept
  <2> SUFFICES ASSUME IInv, WInv PROVE WorkKept
    OBVIOUS
  <2>1. SUFFICES ASSUME NEW s \in Refs \ crossed, Live(s), tally[s] # NoTally, tally[s].ver < up[s].gen, ~(sync.cursor < up[s].gen)
                 PROVE  Queued(s)
    BY DEF WorkKept
  <2>2. Passed(s)
    <3>1. sync.cursor \in Nat /\ up[s].gen \in Nat
      BY Numbers DEF IInv
    <3> QED BY <2>1, <3>1 DEF Passed
  <2> QED BY <2>1, <2>2 DEF WInv, Upheld, Owed
<1>4. Spec => []IInv
  BY Invariance
<1> QED BY <1>1, <1>2, <1>3, <1>4, PTL DEF Spec
=============================================================================

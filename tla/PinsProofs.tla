----------------------------- MODULE PinsProofs -----------------------------
(***************************************************************************)
(* Proofs about Pins, for every value of its constants.                    *)
(*                                                                         *)
(* A document is left alone by the collector for one of two reasons.  It   *)
(* was handed out within the grace, or anchored since: then no run has it  *)
(* on its list or in hand, because the row a run selects was last served   *)
(* before the grace (FreshSafe).  Or it is anchored on the other network:  *)
(* then every run that asked has it among those to keep (Spared).  What    *)
(* was used while a run already held it is in crossed, and is what the     *)
(* invariants exclude.                                                     *)
(***************************************************************************)
EXTENDS Pins, TLAPS

InHand(g, d) == run[g].pin.doc = d
Listed(g, d) == \E p \in run[g].todo : p.doc = d

\* A run is younger than the cap on an invocation.
RunsYoung == \A g \in Runs : Live(g) => /\ run[g].now \in 1..clock
                                        /\ clock <= run[g].now + Life

\* A run lists nothing before it selects, and only rows with a file of ours.
ListsNamed == \A g \in Runs :
    /\ run[g].pc \in {"idle", "select"} => run[g].todo = {}
    /\ \A p \in run[g].todo : p.file > 0
    /\ run[g].pin # NoPin => run[g].pin.file > 0

\* The row of a document in hand bears the claim of the run that has it.
HandClaimed == \A g \in Runs, d \in Docs \ crossed :
    InHand(g, d) => Stored(d) /\ row[d].claim = run[g].now

\* No two runs have the same document in hand.
HandExclusive == \A g, h \in Runs, d \in Docs \ crossed : InHand(g, d) /\ InHand(h, d) => g = h

\* What a run keeps for the other network is anchored there, and what is
\* anchored there it keeps.
KeptKnown == \A g \in Runs : run[g].kept \subseteq elsewhere
Spared == \A g \in Runs, d \in elsewhere \ crossed :
    /\ ~InHand(g, d)
    /\ Listed(g, d) /\ run[g].pc # "ask" => d \in run[g].kept

\* A file that a run found not to be ours stays.
ForeignInHand == \A g \in Runs :
    run[g].pc = "disown" => account[run[g].pin.doc] # NoFile /\ ~account[run[g].pin.doc].group

\* While a request is in flight its document is in no run's reach.
InFlight == \A s \in Submitters : \A d \in Docs \ crossed :
    sub[s].pc # "idle" /\ sub[s].doc = d =>
        /\ Stored(d) => row[d].served = clock /\ ~Held(d)
        /\ sub[s].pc = "put" => account[d] # NoFile

\* A row is as fresh as the last answer that handed its address out.
ServedSinceHanded == \A d \in Docs \ crossed :
    handed[d] <= clock /\ (Stored(d) => handed[d] <= row[d].served)

\* A row without a claim has its file.
StoredHasFile == \A d \in Docs \ crossed : Stored(d) /\ ~Claimed(d) => account[d] # NoFile

Fresh(d) == d \in anchored \/ (handed[d] > 0 /\ clock <= handed[d] + Grace)
FreshSafe == \A d \in Docs \ crossed : Fresh(d) => ~Held(d) /\ account[d] # NoFile

\* What was anchored after a run began was handed out within its grace.
SelectLate == \A g \in Runs : run[g].pc = "select" =>
    \A d \in anchored \ (mirror \cup crossed) : run[g].now <= handed[d] + Grace

ElsewhereKept == \A d \in elsewhere \ crossed : account[d] # NoFile

IInv ==
    /\ TypeOK
    /\ RunsYoung /\ ListsNamed
    /\ HandClaimed /\ HandExclusive
    /\ KeptKnown /\ Spared /\ ForeignInHand
    /\ InFlight /\ ServedSinceHanded /\ StoredHasFile
    /\ FreshSafe /\ SelectLate /\ ElsewhereKept

\* With two runs.
OnePin == \A g \in Runs : \A p, q \in run[g].todo : p.doc = q.doc => p = q
Owned(g, d) ==
    /\ Stored(d)
    /\ \/ row[d].claim = run[g].now
       \/ row[d].file = 0 /\ row[d].claim = 0 /\ \A h \in Runs : h # g => ~Holds(h, d)
HandOwned == \A g \in Runs, d \in Docs : InHand(g, d) => Owned(g, d)

-----------------------------------------------------------------------------
(* Types.                                                                  *)

RunType == [pc : RunPcs, now : 0..MaxClock, todo : SUBSET Pin, kept : SUBSET Docs, pin : Pin \cup {NoPin}]
SubType == {NoRequest} \cup [pc : {"upload", "put"}, doc : Docs, file : FileIds]
FileType == [id : FileIds, group : BOOLEAN]

\* A run has a row in hand between its claim and the write that settles it.
HandForm(q) == q.pin # NoPin <=> q.pc \in {"remove", "drop", "disown", "release"}

\* The records that stand for none have their types.
LEMMA NoneTyped ==
    /\ NoFile \in FileType /\ NoRow \in RowType /\ NoRequest \in SubType
    /\ Resting \in RunType /\ HandForm(Resting)
BY PinsAssumption DEF PinsAssumption, NoFile, NoRow, NoRequest, Resting, FileType, RowType, SubType, RunType,
   FileIds, HandForm, RunPcs, NoPin

\* A row as it is put.
LEMMA RowTyped == ASSUME NEW f \in FileIds, NEW t \in 1..MaxClock PROVE Row(f, t) \in RowType
BY PinsAssumption DEF PinsAssumption, Row, RowType

\* A stored row has the four fields.
LEMMA StoredTyped ==
    ASSUME TypeOK, NEW d \in Docs, Stored(d)
    PROVE  row[d] \in [file : FileIds, claim : 0..MaxClock, served : 1..MaxClock, attempts : 0..MaxAttempts]
BY DEF TypeOK, Stored, RowType, NoRow

LEMMA InitTyped == Init => TypeOK
<1> SUFFICES ASSUME Init PROVE TypeOK
  OBVIOUS
<1>1. clock \in 1..MaxClock /\ files \in FileIds /\ faults \in 0..MaxFaults
  BY PinsAssumption DEF PinsAssumption, Init, FileIds
<1>9. grouped \in BOOLEAN
  BY DEF Init
<1>2. \A d \in Backlog : BacklogFile[d] \in FileIds
  BY PinsAssumption DEF PinsAssumption, FileIds
<1>3. account \in [Docs -> FileType]
  BY <1>2, NoneTyped DEF Init, FileType
<1>4. row \in [Docs -> RowType]
  BY <1>1, <1>2, NoneTyped, RowTyped DEF Init
<1>5. run \in [Runs -> RunType] /\ \A g \in Runs : HandForm(run[g])
  BY NoneTyped DEF Init
<1>6. sub \in [Submitters -> SubType]
  BY NoneTyped DEF Init
<1>7. handed \in [Docs -> 0..MaxClock] /\ used \subseteq Docs /\ stripped \subseteq Docs
  BY PinsAssumption DEF PinsAssumption, Init
<1>8. anchored \subseteq Docs /\ mirror \subseteq anchored /\ elsewhere \subseteq Docs
  BY DEF Init
<1> QED BY <1>1, <1>3, <1>4, <1>5, <1>6, <1>7, <1>8, <1>9 DEF TypeOK, RunType, SubType, FileType, HandForm

\* A run that moves leaves the others.
LEMMA RunTyped ==
    ASSUME TypeOK, NEW g \in Runs, NEW q \in RunType, HandForm(q), run' = [run EXCEPT ![g] = q]
    PROVE  /\ run' \in [Runs -> RunType]
           /\ \A h \in Runs : HandForm(run'[h])
<1>1. run \in [Runs -> RunType] /\ \A h \in Runs : HandForm(run[h])
  BY DEF TypeOK, RunType, HandForm
<1> QED BY <1>1

\* Time, the chains and the account keep the types.
LEMMA TypeEnvironment ==
    ASSUME TypeOK,
           \/ Tick \/ Configure
           \/ \E d \in Docs \ Backlog : Anchor(d) \/ PinElsewhere(d) \/ AnchorElsewhere(d)
    PROVE  TypeOK'
<1> USE PinsAssumption DEF PinsAssumption, chains, history
<1>1. CASE Tick
  BY <1>1 DEF Tick, TypeOK
<1>2. CASE Configure
  BY <1>2 DEF Configure, TypeOK
<1>3. ASSUME NEW d \in Docs \ Backlog, Anchor(d) PROVE TypeOK'
  BY <1>3 DEF Anchor, TypeOK
<1>4. ASSUME NEW d \in Docs \ Backlog, PinElsewhere(d) PROVE TypeOK'
  <2>1. files' \in FileIds
    BY <1>4 DEF PinElsewhere, TypeOK, FileIds
  <2>2. account' \in [Docs -> [id : FileIds, group : BOOLEAN]]
    BY <1>4, <2>1 DEF PinElsewhere, TypeOK
  <2> QED BY <1>4, <2>1, <2>2 DEF PinElsewhere, TypeOK
<1>5. ASSUME NEW d \in Docs \ Backlog, AnchorElsewhere(d) PROVE TypeOK'
  BY <1>5 DEF AnchorElsewhere, TypeOK
<1> QED BY <1>1, <1>2, <1>3, <1>4, <1>5

\* The steps of a request keep the types.
LEMMA TypeRequest ==
    ASSUME TypeOK, NEW s \in Submitters,
           \/ \E d \in Docs \ Backlog : Serve(s, d)
           \/ RequestStep(s) \/ AbortRequest(s)
    PROVE  TypeOK'
<1> USE DEF chains, history
<1>t. /\ clock \in 1..MaxClock /\ account \in [Docs -> FileType] /\ row \in [Docs -> RowType]
      /\ sub \in [Submitters -> SubType] /\ sub[s] \in SubType /\ handed \in [Docs -> 0..MaxClock]
      /\ used \subseteq Docs /\ stripped \subseteq Docs /\ files \in FileIds
  BY DEF TypeOK, FileType, SubType
<1>k. ASSUME account' \in [Docs -> FileType], files' \in FileIds, row' \in [Docs -> RowType],
             sub' \in [Submitters -> SubType], handed' \in [Docs -> 0..MaxClock], used' \subseteq Docs, stripped' \subseteq Docs,
             UNCHANGED <<clock, grouped, mirror, chains, run, faults>>
      PROVE  TypeOK'
  BY <1>k DEF TypeOK, FileType, SubType
<1>1. ASSUME NEW d \in Docs \ Backlog, Serve(s, d) PROVE TypeOK'
  <2>1. CASE Stored(d) /\ ~Claimed(d)
    <3>1. [row[d] EXCEPT !.served = clock] \in RowType
      BY <1>t, <2>1, StoredTyped DEF RowType
    <3>2. row' = [row EXCEPT ![d] = [row[d] EXCEPT !.served = clock]]
      BY <1>1, <1>t, <2>1 DEF Serve
    <3>3. row' \in [Docs -> RowType]
      BY <1>t, <3>1, <3>2
    <3>4. handed' \in [Docs -> 0..MaxClock] /\ used' \subseteq Docs /\ stripped' \subseteq Docs
      BY <1>1, <1>t, <2>1 DEF Serve
    <3> QED BY <1>1, <1>t, <1>k, <2>1, <3>3, <3>4 DEF Serve
  <2>2. CASE ~(Stored(d) /\ ~Claimed(d))
    <3>1. [pc |-> "upload", doc |-> d, file |-> 0] \in SubType
      BY PinsAssumption DEF PinsAssumption, SubType, FileIds
    <3>2. sub' \in [Submitters -> SubType] /\ used' \subseteq Docs /\ stripped' \subseteq Docs
      BY <1>1, <1>t, <2>2, <3>1 DEF Serve
    <3> QED BY <1>1, <1>t, <1>k, <2>2, <3>2 DEF Serve
  <2> QED BY <2>1, <2>2
<1>2. CASE Upload(s)
  <2>1. sub[s] \in [pc : {"upload", "put"}, doc : Docs, file : FileIds]
    BY <1>2, <1>t DEF Upload, SubType, NoRequest
  <2>2. CASE account[sub[s].doc] # NoFile
    <3>1. [sub[s] EXCEPT !.pc = "put"] \in SubType
      BY <2>1 DEF SubType
    <3>2. sub' \in [Submitters -> SubType]
      BY <1>2, <1>t, <2>2, <3>1 DEF Upload
    <3> QED BY <1>2, <1>t, <1>k, <2>2, <3>2 DEF Upload
  <2>3. CASE account[sub[s].doc] = NoFile
    <3>1. files' \in FileIds
      BY PinsAssumption, <1>2, <1>t, <2>3 DEF PinsAssumption, Upload, FileIds
    <3>2. [sub[s] EXCEPT !.pc = "put", !.file = files'] \in SubType
      BY <2>1, <3>1 DEF SubType
    <3>3. sub' \in [Submitters -> SubType]
      BY <1>2, <1>t, <2>3, <3>2 DEF Upload
    <3>4. [id |-> files', group |-> grouped] \in FileType
      BY <3>1 DEF TypeOK, FileType
    <3>5. account' \in [Docs -> FileType]
      BY <1>2, <1>t, <2>3, <3>4 DEF Upload
    <3> QED BY <1>2, <1>t, <1>k, <2>3, <3>1, <3>3, <3>5 DEF Upload
  <2> QED BY <2>2, <2>3
<1>3. CASE Put(s)
  <2>1. sub[s] \in [pc : {"upload", "put"}, doc : Docs, file : FileIds]
    BY <1>3, <1>t DEF Put, SubType, NoRequest
  <2>2. row' \in [Docs -> RowType]
    BY <1>3, <1>t, <2>1, RowTyped DEF Put
  <2>3. sub' \in [Submitters -> SubType]
    BY <1>3, <1>t, NoneTyped DEF Put
  <2>4. handed' \in [Docs -> 0..MaxClock] /\ used' \subseteq Docs /\ stripped' \subseteq Docs
    BY <1>3, <1>t, <2>1 DEF Put
  <2> QED BY <1>3, <1>t, <1>k, <2>2, <2>3, <2>4 DEF Put
<1>4. CASE AbortRequest(s)
  <2>1. sub' \in [Submitters -> SubType]
    BY <1>4, <1>t, NoneTyped DEF AbortRequest
  <2> QED BY <1>4, <1>t, <1>k, <2>1 DEF AbortRequest
<1> QED BY <1>1, <1>2, <1>3, <1>4 DEF RequestStep

\* The steps of a collector run.
CollectorStep(g) ==
    \/ \E ok \in BOOLEAN : StartRun(g, ok) \/ Ask(g, ok) \/ Drop(g, ok) \/ Disown(g, ok)
    \/ Select(g) \/ EndRun(g) \/ (\E p \in run[g].todo : KeepForOther(g, p) \/ Claim(g, p))
    \/ Remove(g) \/ RemoveFails(g) \/ Release(g) \/ Kill(g)

LEMMA FaultTyped == ASSUME TypeOK, Fault \/ UNCHANGED faults PROVE faults' \in 0..MaxFaults
BY PinsAssumption DEF PinsAssumption, Fault, TypeOK

\* A row that is disowned, claimed or released keeps its type.
LEMMA UpdatedTyped ==
    ASSUME TypeOK, NEW d \in Docs
    PROVE  /\ Disowned(d) \in [Docs -> RowType]
           /\ \A t \in 0..MaxClock : Stored(d) => [row EXCEPT ![d] = [row[d] EXCEPT !.claim = t]] \in [Docs -> RowType]
           /\ Stored(d) => [row EXCEPT ![d] = [row[d] EXCEPT !.claim = 0, !.attempts = More(row[d].attempts)]]
                               \in [Docs -> RowType]
<1>1. row \in [Docs -> RowType]
  BY DEF TypeOK
<1>2. CASE ~Stored(d)
  BY <1>1, <1>2 DEF Disowned
<1>3. CASE Stored(d)
  <2>1. row[d] \in [file : FileIds, claim : 0..MaxClock, served : 1..MaxClock, attempts : 0..MaxAttempts]
    BY <1>3, StoredTyped
  <2>0. 0 \in FileIds /\ 0 \in 0..MaxClock
    BY PinsAssumption DEF PinsAssumption, FileIds
  <2>2. More(row[d].attempts) \in 0..MaxAttempts
    BY <2>1, PinsAssumption DEF PinsAssumption, More
  <2>3. [row[d] EXCEPT !.file = 0, !.claim = 0] \in RowType
    BY <2>0, <2>1 DEF RowType
  <2>4. \A t \in 0..MaxClock : [row[d] EXCEPT !.claim = t] \in RowType
    BY <2>1 DEF RowType
  <2>5. [row[d] EXCEPT !.claim = 0, !.attempts = More(row[d].attempts)] \in RowType
    BY <2>0, <2>1, <2>2 DEF RowType
  <2> QED BY <1>1, <1>3, <2>3, <2>4, <2>5 DEF Disowned
<1> QED BY <1>2, <1>3

\* What a run has in hand is a pin with a document.
LEMMA HandTyped ==
    ASSUME TypeOK, NEW g \in Runs, run[g].pc \in {"remove", "drop", "disown", "release"}
    PROVE  run[g].pin \in Pin /\ run[g].pin.doc \in Docs
<1>1. run[g].pin \in Pin
  BY DEF TypeOK
<1> QED BY <1>1 DEF Pin

LEMMA ProceedTyped ==
    ASSUME TypeOK, NEW g \in Runs, Proceed(g)
    PROVE  run' \in [Runs -> RunType] /\ \A h \in Runs : HandForm(run'[h])
<1>1. run[g] \in RunType
  BY DEF TypeOK, RunType
<1> DEFINE q == [run[g] EXCEPT !.pc = "next", !.pin = NoPin]
<1>2. q \in RunType /\ HandForm(q)
  BY <1>1 DEF RunType, HandForm, RunPcs
<1>3. run' = [run EXCEPT ![g] = q]
  BY DEF Proceed
<1> HIDE DEF q
<1> QED BY <1>2, <1>3, RunTyped

LEMMA TypeCollector == ASSUME TypeOK, NEW g \in Runs, CollectorStep(g) PROVE TypeOK'
<1> USE DEF chains, history
<1>t. /\ clock \in 1..MaxClock /\ account \in [Docs -> FileType] /\ row \in [Docs -> RowType]
      /\ run[g] \in RunType /\ HandForm(run[g])
      /\ used \subseteq Docs /\ stripped \subseteq Docs /\ elsewhere \subseteq Docs /\ mirror \subseteq anchored
  BY DEF TypeOK, FileType, RunType, HandForm
<1>k. ASSUME account' \in [Docs -> FileType], row' \in [Docs -> RowType], mirror' \subseteq anchored,
             run' \in [Runs -> RunType], \A h \in Runs : HandForm(run'[h]), used' \subseteq Docs, stripped' \subseteq Docs,
             Fault \/ UNCHANGED faults,
             UNCHANGED <<clock, grouped, files, chains, sub, handed>>
      PROVE  TypeOK'
  <2>1. faults' \in 0..MaxFaults
    BY <1>k, FaultTyped
  <2> QED BY <1>k, <2>1 DEF TypeOK, FileType, RunType, HandForm
<1>m. ASSUME NEW q \in RunType, HandForm(q), run' = [run EXCEPT ![g] = q],
             Fault \/ UNCHANGED faults,
             UNCHANGED <<clock, grouped, account, files, row, mirror, chains, sub, history>>
      PROVE  TypeOK'
  BY <1>t, <1>k, <1>m, RunTyped
<1>1. ASSUME NEW ok \in BOOLEAN, StartRun(g, ok) PROVE TypeOK'
  <2> DEFINE q == [Resting EXCEPT !.pc = "select", !.now = clock]
  <2>1. q \in RunType /\ HandForm(q)
    <3>1. Resting \in RunType /\ Resting.pin = NoPin
      BY NoneTyped DEF Resting
    <3>2. clock \in 0..MaxClock /\ "select" \in RunPcs
      BY <1>t DEF RunPcs
    <3>3. q \in RunType
      BY <3>1, <3>2 DEF RunType
    <3>4. q.pc = "select" /\ q.pin = NoPin
      BY <3>1 DEF RunType
    <3> QED BY <3>3, <3>4 DEF HandForm
  <2>2. run' = run \/ run' = [run EXCEPT ![g] = q]
    BY <1>1 DEF StartRun
  <2> HIDE DEF q
  <2>3. run' \in [Runs -> RunType] /\ \A h \in Runs : HandForm(run'[h])
    BY <2>1, <2>2, RunTyped DEF TypeOK, RunType, HandForm
  <2>4. mirror' \subseteq anchored /\ (Fault \/ UNCHANGED faults)
    BY <1>1, <1>t DEF StartRun
  <2> QED BY <1>1, <1>t, <1>k, <2>3, <2>4 DEF StartRun
<1>2. CASE Select(g)
  <2>1. PICK B \in Batches(run[g].now) :
          run' = [run EXCEPT ![g] = [run[g] EXCEPT !.pc = "ask", !.todo = {[doc |-> d, file |-> row[d].file] : d \in B}]]
    BY <1>2 DEF Select
  <2>2. B \subseteq Docs /\ \A d \in B : Stored(d)
    BY DEF Batches, Collectable
  <2> DEFINE T == {[doc |-> d, file |-> row[d].file] : d \in B}
             q == [run[g] EXCEPT !.pc = "ask", !.todo = T]
  <2>3. T \subseteq Pin
    BY <2>2, StoredTyped DEF Pin
  <2> HIDE DEF T
  <2>4. q \in RunType /\ HandForm(q)
    BY <1>2, <1>t, <2>3 DEF Select, RunType, HandForm, RunPcs
  <2>5. run' = [run EXCEPT ![g] = q]
    BY <2>1 DEF T
  <2> HIDE DEF q
  <2> QED BY <1>2, <1>m, <2>4, <2>5 DEF Select
<1>3. ASSUME NEW ok \in BOOLEAN, Ask(g, ok) PROVE TypeOK'
  <2> DEFINE q == [run[g] EXCEPT !.pc = "next", !.kept = elsewhere]
  <2>1. q \in RunType /\ HandForm(q)
    BY <1>3, <1>t DEF Ask, RunType, HandForm, RunPcs
  <2>2. run' = [run EXCEPT ![g] = q] \/ run' = [run EXCEPT ![g] = Resting]
    BY <1>3 DEF Ask
  <2> HIDE DEF q
  <2> QED BY <1>3, <1>m, <2>1, <2>2, NoneTyped DEF Ask
<1>4. ASSUME NEW p \in run[g].todo, KeepForOther(g, p) PROVE TypeOK'
  <2> DEFINE q == [run[g] EXCEPT !.todo = run[g].todo \ {p}]
  <2>1. q \in RunType /\ HandForm(q) /\ p.doc \in Docs
    BY <1>t DEF RunType, HandForm, Pin
  <2>2. run' = [run EXCEPT ![g] = q] /\ row' = Disowned(p.doc)
    BY <1>4 DEF KeepForOther
  <2> HIDE DEF q
  <2>3. run' \in [Runs -> RunType] /\ (\A h \in Runs : HandForm(run'[h])) /\ row' \in [Docs -> RowType]
    BY <2>1, <2>2, RunTyped, UpdatedTyped
  <2> QED BY <1>4, <1>t, <1>k, <2>3 DEF KeepForOther
<1>5. ASSUME NEW p \in run[g].todo, Claim(g, p) PROVE TypeOK'
  <2> DEFINE q1 == [run[g] EXCEPT !.todo = run[g].todo \ {p}, !.pc = "remove", !.pin = p]
             q2 == [run[g] EXCEPT !.todo = run[g].todo \ {p}, !.pc = "next", !.pin = NoPin]
  <2>1. p \in Pin /\ p.doc \in Docs /\ p # NoPin /\ run[g].now \in 0..MaxClock
    BY <1>t, PinsAssumption DEF PinsAssumption, RunType, Pin, NoPin
  <2>2. q1 \in RunType /\ HandForm(q1) /\ q2 \in RunType /\ HandForm(q2)
    <3>1. run[g].todo \ {p} \in SUBSET Pin /\ NoPin \in Pin \cup {NoPin}
      BY <1>t DEF RunType
    <3>2. q1 \in RunType /\ q1.pc = "remove" /\ q1.pin = p
      BY <1>t, <2>1, <3>1 DEF RunType, RunPcs
    <3>3. q2 \in RunType /\ q2.pc = "next" /\ q2.pin = NoPin
      BY <1>t, <3>1 DEF RunType, RunPcs
    <3> QED BY <2>1, <3>2, <3>3 DEF HandForm
  <2>3. \/ /\ Claimable(p.doc, run[g].now) /\ run' = [run EXCEPT ![g] = q1]
           /\ row' = [row EXCEPT ![p.doc] = [row[p.doc] EXCEPT !.claim = run[g].now]]
        \/ run' = [run EXCEPT ![g] = q2] /\ row' = row
    BY <1>5 DEF Claim
  <2> HIDE DEF q1, q2
  <2>4. run' \in [Runs -> RunType] /\ \A h \in Runs : HandForm(run'[h])
    BY <2>2, <2>3, RunTyped
  <2>5. row' \in [Docs -> RowType]
    <3>1. Claimable(p.doc, run[g].now) => Stored(p.doc)
      BY DEF Claimable
    <3>2. Stored(p.doc) => [row EXCEPT ![p.doc] = [row[p.doc] EXCEPT !.claim = run[g].now]] \in [Docs -> RowType]
      BY <2>1, UpdatedTyped
    <3> QED BY <1>t, <2>3, <3>1, <3>2
  <2> QED BY <1>5, <1>t, <1>k, <2>4, <2>5 DEF Claim
<1>6. CASE EndRun(g)
  BY <1>6, <1>m, NoneTyped DEF EndRun
<1>7. CASE Remove(g)
  <2> DEFINE q(c) == [run[g] EXCEPT !.pc = c]
  <2>1. \A c \in {"drop", "disown"} : q(c) \in RunType /\ HandForm(q(c))
    BY <1>7, <1>t DEF Remove, RunType, HandForm, RunPcs
  <2>2. \/ run' = [run EXCEPT ![g] = q("drop")]
        \/ run' = [run EXCEPT ![g] = q("disown")]
    BY <1>7 DEF Remove
  <2> HIDE DEF q
  <2>3. run' \in [Runs -> RunType] /\ \A h \in Runs : HandForm(run'[h])
    BY <2>1, <2>2, RunTyped
  <2>4. account' \in [Docs -> FileType]
    BY <1>7, <1>t, NoneTyped DEF Remove
  <2> QED BY <1>7, <1>t, <1>k, <2>3, <2>4 DEF Remove
<1>8. CASE RemoveFails(g)
  <2> DEFINE q == [run[g] EXCEPT !.pc = "release"]
  <2>1. q \in RunType /\ HandForm(q)
    BY <1>8, <1>t DEF RemoveFails, RunType, HandForm, RunPcs
  <2>2. run' = [run EXCEPT ![g] = q]
    BY <1>8 DEF RemoveFails
  <2> HIDE DEF q
  <2>3. run' \in [Runs -> RunType] /\ \A h \in Runs : HandForm(run'[h])
    BY <2>1, <2>2, RunTyped
  <2>4. account' \in [Docs -> FileType]
    BY <1>8, <1>t, NoneTyped DEF RemoveFails
  <2>5. Fault \/ UNCHANGED faults
    BY <1>8 DEF RemoveFails
  <2> QED BY <1>8, <1>t, <1>k, <2>3, <2>4, <2>5 DEF RemoveFails
<1>9. ASSUME NEW ok \in BOOLEAN, Drop(g, ok) PROVE TypeOK'
  <2> DEFINE q == [run[g] EXCEPT !.pc = "release"]
  <2>1. q \in RunType /\ HandForm(q)
    BY <1>9, <1>t DEF Drop, RunType, HandForm, RunPcs
  <2>2. run' = [run EXCEPT ![g] = q] \/ Proceed(g)
    BY <1>9 DEF Drop
  <2> HIDE DEF q
  <2>3. run' \in [Runs -> RunType] /\ \A h \in Runs : HandForm(run'[h])
    BY <2>1, <2>2, RunTyped, ProceedTyped
  <2>4. row' \in [Docs -> RowType]
    BY <1>9, <1>t, NoneTyped DEF Drop
  <2>5. Fault \/ UNCHANGED faults
    BY <1>9 DEF Drop
  <2> QED BY <1>9, <1>t, <1>k, <2>3, <2>4, <2>5 DEF Drop
<1>10. ASSUME NEW ok \in BOOLEAN, Disown(g, ok) PROVE TypeOK'
  <2>1. CASE ok
    <3>1. run' \in [Runs -> RunType] /\ \A h \in Runs : HandForm(run'[h])
      BY <1>10, <2>1, ProceedTyped DEF Disown
    <3>2. row' \in [Docs -> RowType]
      BY <1>10, <2>1, HandTyped, UpdatedTyped DEF Disown
    <3> QED BY <1>10, <1>t, <1>k, <2>1, <3>1, <3>2 DEF Disown
  <2>2. CASE ~ok
    <3>1. run' \in [Runs -> RunType] /\ \A h \in Runs : HandForm(run'[h])
      <4> DEFINE q == [run[g] EXCEPT !.pc = "release"]
      <4>1. q \in RunType /\ HandForm(q)
        BY <1>10, <1>t DEF Disown, RunType, HandForm, RunPcs
      <4>2. run' = [run EXCEPT ![g] = q]
        BY <1>10, <2>2 DEF Disown
      <4> HIDE DEF q
      <4> QED BY <4>1, <4>2, RunTyped
    <3> QED BY <1>10, <1>t, <1>k, <2>2, <3>1 DEF Disown
  <2> QED BY <2>1, <2>2
<1>11. CASE Release(g)
  <2>1. run' \in [Runs -> RunType] /\ \A h \in Runs : HandForm(run'[h])
    BY <1>11, ProceedTyped DEF Release
  <2>2. run[g].pin.doc \in Docs
    BY <1>11, HandTyped DEF Release
  <2>3. row' \in [Docs -> RowType]
    BY <1>11, <1>t, <2>2, UpdatedTyped DEF Release
  <2>4. used' \subseteq Docs /\ stripped' \subseteq Docs
    BY <1>11, <1>t, <2>2 DEF Release
  <2> QED BY <1>11, <1>t, <1>k, <2>1, <2>3, <2>4 DEF Release
<1>12. CASE Kill(g)
  BY <1>12, <1>m, NoneTyped DEF Kill
<1> QED BY <1>1, <1>2, <1>3, <1>4, <1>5, <1>6, <1>7, <1>8, <1>9, <1>10, <1>11, <1>12 DEF CollectorStep

\* Next by its three kinds of steps.
LEMMA NextSplit ==
    ASSUME Next
    PROVE  \/ Tick \/ Configure \/ (\E d \in Docs \ Backlog : Anchor(d) \/ PinElsewhere(d) \/ AnchorElsewhere(d))
           \/ \E s \in Submitters : \/ \E d \in Docs \ Backlog : Serve(s, d)
                                    \/ RequestStep(s) \/ AbortRequest(s)
           \/ \E g \in Runs : CollectorStep(g)
BY DEF Next, RunStep, CollectorStep

LEMMA TypeStep == ASSUME TypeOK, [Next]_vars PROVE TypeOK'
<1>1. CASE Next
  BY <1>1, NextSplit, TypeEnvironment, TypeRequest, TypeCollector
<1>2. CASE UNCHANGED vars
  BY <1>2 DEF vars, chains, history, TypeOK
<1> QED BY <1>1, <1>2

-----------------------------------------------------------------------------
(* The invariant.                                                          *)

\* No document is in the hands of a run that has none.
LEMMA NobodyIsNone == \A d \in Docs : d # NoPin.doc /\ d # NoRequest.doc
BY PinsAssumption DEF PinsAssumption, NoPin, NoRequest

LEMMA InitInv == Init => IInv
<1> SUFFICES ASSUME Init PROVE IInv
  OBVIOUS
<1>1. TypeOK
  BY InitTyped
<1>2. /\ \A g \in Runs : run[g] = Resting
      /\ \A s \in Submitters : sub[s] = NoRequest
      /\ \A d \in Docs : handed[d] = 0
      /\ anchored = {} /\ elsewhere = {} /\ crossed = {} /\ clock = 1
  BY DEF Init, crossed
<1>3. \A d \in Docs : Stored(d) => account[d] # NoFile
  <2>1. \A d \in Backlog : BacklogFile[d] > 0
    BY PinsAssumption DEF PinsAssumption
  <2> QED BY <2>1 DEF Init, Stored, NoRow, NoFile
<1>4. \A d \in Docs : Stored(d) => row[d].served \in 1..MaxClock
  BY <1>1, StoredTyped
<1>5. RunsYoung /\ ListsNamed /\ KeptKnown /\ ForeignInHand /\ SelectLate
  BY <1>2 DEF RunsYoung, ListsNamed, KeptKnown, ForeignInHand, SelectLate, Live, Resting
<1>6. HandClaimed /\ HandExclusive
  BY <1>2, NobodyIsNone DEF HandClaimed, HandExclusive, InHand, Resting
<1>7. Spared /\ ElsewhereKept /\ FreshSafe /\ InFlight
  BY <1>2 DEF Spared, ElsewhereKept, FreshSafe, InFlight, Fresh, NoRequest
<1>8. ServedSinceHanded /\ StoredHasFile
  BY <1>2, <1>3, <1>4 DEF ServedSinceHanded, StoredHasFile
<1> QED BY <1>1, <1>5, <1>6, <1>7, <1>8 DEF IInv

LEMMA HeldSame == ASSUME UNCHANGED run PROVE \A d \in Docs : Held(d)' = Held(d)
BY DEF Held, Holds

LEMMA EnvironmentInv ==
    ASSUME IInv,
           \/ Tick \/ Configure
           \/ \E d \in Docs \ Backlog : Anchor(d) \/ PinElsewhere(d) \/ AnchorElsewhere(d)
    PROVE  IInv'
<1>0. TypeOK' /\ UNCHANGED <<run, row, sub>> /\ (\A d \in Docs : Held(d)' = Held(d))
  <2>1. TypeOK'
    BY TypeEnvironment DEF IInv
  <2>2. UNCHANGED <<run, row, sub>>
    BY DEF Tick, Configure, Anchor, PinElsewhere, AnchorElsewhere
  <2> QED BY <2>1, <2>2, HeldSame
<1>t. /\ account \in [Docs -> FileType] /\ handed \in [Docs -> 0..MaxClock] /\ clock \in 1..MaxClock
      /\ anchored \subseteq Docs /\ elsewhere \subseteq Docs /\ crossed \subseteq Docs
  BY DEF IInv, TypeOK, FileType, crossed
<1>1. CASE Tick
  <2> USE <1>0, <1>1 DEF Tick, chains, history, crossed, IInv
  <2>1. RunsYoung'
    BY <1>t, PinsAssumption DEF PinsAssumption, RunsYoung, Live
  <2>2. InFlight'
    BY DEF InFlight
  <2>3. ServedSinceHanded'
    BY <1>t, PinsAssumption DEF PinsAssumption, ServedSinceHanded, Stored
  <2>4. FreshSafe'
    BY <1>t, PinsAssumption DEF PinsAssumption, FreshSafe, Fresh
  <2>5. ListsNamed' /\ HandClaimed' /\ HandExclusive' /\ KeptKnown' /\ Spared'
    BY DEF ListsNamed, HandClaimed, HandExclusive, KeptKnown, Spared, InHand, Listed, Stored
  <2>6. ForeignInHand' /\ StoredHasFile' /\ SelectLate' /\ ElsewhereKept'
    BY DEF ForeignInHand, StoredHasFile, SelectLate, ElsewhereKept, Stored, Claimed
  <2> QED BY <2>1, <2>2, <2>3, <2>4, <2>5, <2>6
<1>2. CASE Configure
  <2> USE <1>0, <1>2 DEF Configure, chains, history, crossed, IInv
  <2>1. RunsYoung' /\ ListsNamed' /\ HandClaimed' /\ HandExclusive' /\ KeptKnown' /\ Spared'
    BY DEF RunsYoung, Live, ListsNamed, HandClaimed, HandExclusive, KeptKnown, Spared, InHand, Listed, Stored
  <2>2. InFlight' /\ ServedSinceHanded' /\ FreshSafe'
    BY DEF InFlight, ServedSinceHanded, FreshSafe, Fresh, Stored
  <2>3. ForeignInHand' /\ StoredHasFile' /\ SelectLate' /\ ElsewhereKept'
    BY DEF ForeignInHand, StoredHasFile, SelectLate, ElsewhereKept, Stored, Claimed
  <2> QED BY <2>1, <2>2, <2>3
<1>3. ASSUME NEW d \in Docs \ Backlog, Anchor(d) PROVE IInv'
  <2> USE <1>0, <1>3 DEF Anchor, chains, history, crossed, IInv
  <2>1. RunsYoung' /\ ListsNamed' /\ HandClaimed' /\ HandExclusive' /\ KeptKnown' /\ Spared'
    BY DEF RunsYoung, Live, ListsNamed, HandClaimed, HandExclusive, KeptKnown, Spared, InHand, Listed, Stored
  <2>2. InFlight' /\ ServedSinceHanded'
    BY DEF InFlight, ServedSinceHanded, Stored
  <2>3. FreshSafe'
    BY <1>t DEF FreshSafe, Fresh
  <2>4. SelectLate'
    <3>1. \A g \in Runs : run[g].pc = "select" => run[g].now <= handed[d] + Grace
      <4> SUFFICES ASSUME NEW g \in Runs, run[g].pc = "select" PROVE run[g].now <= handed[d] + Grace
        OBVIOUS
      <4>1. run[g].now \in 1..clock
        BY DEF RunsYoung, Live
      <4> QED BY <1>t, <4>1, PinsAssumption DEF PinsAssumption
    <3> QED BY <3>1 DEF SelectLate
  <2>5. ForeignInHand' /\ StoredHasFile' /\ ElsewhereKept'
    BY DEF ForeignInHand, StoredHasFile, ElsewhereKept, Stored, Claimed
  <2> QED BY <2>1, <2>2, <2>3, <2>4, <2>5
<1>4. ASSUME NEW d \in Docs \ Backlog, PinElsewhere(d) PROVE IInv'
  <2> USE <1>0, <1>4 DEF PinElsewhere, chains, history, crossed, IInv
  <2>1. RunsYoung' /\ ListsNamed' /\ HandClaimed' /\ HandExclusive' /\ KeptKnown' /\ Spared'
    BY DEF RunsYoung, Live, ListsNamed, HandClaimed, HandExclusive, KeptKnown, Spared, InHand, Listed, Stored
  <2>2. \A e \in Docs : account[e] # NoFile => account'[e] = account[e]
    BY <1>t
  <2>3. InFlight' /\ ServedSinceHanded' /\ FreshSafe'
    BY <2>2 DEF InFlight, ServedSinceHanded, FreshSafe, Fresh, Stored
  <2>4. ForeignInHand'
    <3>1. \A g \in Runs : run[g].pc = "disown" => run[g].pin.doc \in Docs
      BY HandTyped
    <3> QED BY <2>2, <3>1 DEF ForeignInHand
  <2>5. StoredHasFile' /\ ElsewhereKept' /\ SelectLate'
    BY <1>t, <2>2 DEF StoredHasFile, ElsewhereKept, SelectLate, Stored, Claimed
  <2> QED BY <2>1, <2>3, <2>4, <2>5
<1>5. ASSUME NEW d \in Docs \ Backlog, AnchorElsewhere(d) PROVE IInv'
  <2> USE <1>0, <1>5 DEF AnchorElsewhere, chains, history, crossed, IInv
  <2>1. crossed \subseteq crossed' /\ (d \notin crossed' => ~Held(d))
    OBVIOUS
  <2>2. RunsYoung' /\ ListsNamed' /\ HandClaimed' /\ HandExclusive' /\ KeptKnown'
    BY <2>1 DEF RunsYoung, Live, ListsNamed, HandClaimed, HandExclusive, KeptKnown, InHand, Stored
  <2>3. Spared'
    BY <2>1 DEF Spared, InHand, Listed, Held, Holds
  <2>4. InFlight' /\ ServedSinceHanded' /\ FreshSafe' /\ SelectLate'
    BY <2>1 DEF InFlight, ServedSinceHanded, FreshSafe, Fresh, Stored, SelectLate
  <2>5. ForeignInHand' /\ StoredHasFile' /\ ElsewhereKept'
    BY <2>1 DEF ForeignInHand, StoredHasFile, ElsewhereKept, Stored, Claimed
  <2> QED BY <2>2, <2>3, <2>4, <2>5
<1> QED BY <1>1, <1>2, <1>3, <1>4, <1>5

\* The steps of a request.
LEMMA RequestInv ==
    ASSUME IInv, NEW s \in Submitters,
           \/ \E d \in Docs \ Backlog : Serve(s, d)
           \/ RequestStep(s) \/ AbortRequest(s)
    PROVE  IInv'
<1> USE DEF chains, history, crossed
<1>0. TypeOK' /\ UNCHANGED <<clock, run, mirror, anchored, elsewhere>> /\ (\A d \in Docs : Held(d)' = Held(d))
  <2>1. TypeOK'
    BY TypeRequest DEF IInv
  <2>2. UNCHANGED <<clock, run, mirror, anchored, elsewhere>>
    BY DEF Serve, Upload, Put, RequestStep, AbortRequest
  <2> QED BY <2>1, <2>2, HeldSame
<1>t. /\ account \in [Docs -> FileType] /\ handed \in [Docs -> 0..MaxClock] /\ clock \in 1..MaxClock
      /\ row \in [Docs -> RowType] /\ sub \in [Submitters -> SubType]
      /\ anchored \subseteq Docs /\ elsewhere \subseteq Docs /\ crossed \subseteq Docs
  BY DEF IInv, TypeOK, FileType, crossed, SubType
\* The document a request has in flight.
<1>d. sub[s].pc # "idle" => sub[s].doc \in Docs
  BY <1>t DEF SubType, NoRequest
\* What only depends on the runs.
<1>r. ASSUME crossed \subseteq crossed',
             \A d \in Docs \ crossed' : Claimed(d) => row'[d] = row[d] \/ (Stored(d) /\ Stored(d)' /\ row'[d].claim = row[d].claim),
             \A d \in Docs : account[d] # NoFile => account'[d] = account[d],
             \A d \in Docs \ crossed' : handed[d] <= handed'[d]
      PROVE  /\ RunsYoung' /\ ListsNamed' /\ HandClaimed' /\ HandExclusive' /\ KeptKnown' /\ Spared'
             /\ ForeignInHand' /\ SelectLate' /\ ElsewhereKept'
  <2> USE <1>0, <1>r DEF IInv
  <2>1. RunsYoung' /\ ListsNamed' /\ HandExclusive' /\ KeptKnown' /\ Spared'
    BY DEF RunsYoung, Live, ListsNamed, HandExclusive, KeptKnown, Spared, InHand, Listed
  <2>2. HandClaimed'
    <3> SUFFICES ASSUME NEW g \in Runs, NEW d \in Docs \ crossed', InHand(g, d)'
                 PROVE  Stored(d)' /\ row'[d].claim = run[g].now
      BY DEF HandClaimed
    <3>1. Stored(d) /\ row[d].claim = run[g].now
      BY DEF HandClaimed, InHand
    <3>2. run[g].now \in 1..clock
      BY NobodyIsNone DEF TypeOK, RunsYoung, Live, InHand
    <3>3. Claimed(d)
      BY <1>t, <3>1, <3>2 DEF Claimed
    <3> QED BY <3>1, <3>3 DEF Stored
  <2>3. ForeignInHand'
    <3>1. \A g \in Runs : run[g].pc = "disown" => run[g].pin.doc \in Docs
      BY HandTyped
    <3> QED BY <3>1 DEF ForeignInHand
  <2>4. SelectLate'
    <3> SUFFICES ASSUME NEW g \in Runs, run[g].pc = "select", NEW d \in anchored \ (mirror \cup crossed')
                 PROVE  run[g].now <= handed'[d] + Grace
      BY DEF SelectLate
    <3>1. run[g].now <= handed[d] + Grace /\ run[g].now \in Int /\ d \in Docs /\ handed[d] <= handed'[d]
      BY <1>t DEF SelectLate, RunsYoung, Live
    <3> QED BY <1>t, <3>1, PinsAssumption DEF PinsAssumption, TypeOK
  <2>5. ElsewhereKept'
    BY <1>t DEF ElsewhereKept
  <2> QED BY <2>1, <2>2, <2>3, <2>4, <2>5
<1>1. ASSUME NEW d \in Docs \ Backlog, Serve(s, d) PROVE IInv'
  <2>1. CASE Stored(d) /\ ~Claimed(d)
    <3>1. /\ row' = [row EXCEPT ![d].served = clock] /\ handed' = [handed EXCEPT ![d] = clock]
          /\ UNCHANGED <<sub, account>> /\ crossed \subseteq crossed'
          /\ d \notin crossed' => ~Held(d)
      BY <1>1, <2>1 DEF Serve
    <3>2. /\ \A e \in Docs \ {d} : row'[e] = row[e] /\ handed'[e] = handed[e]
          /\ row'[d] = [row[d] EXCEPT !.served = clock] /\ handed'[d] = clock
      BY <1>t, <3>1
    <3>3. row'[d].served = clock /\ row'[d].claim = row[d].claim
      BY <2>1, <3>2, StoredTyped DEF IInv
    <3>4. Stored(d)' /\ ~Claimed(d)'
      BY <1>t, <2>1, <3>3 DEF Stored, Claimed
    <3>5. \A e \in Docs \ crossed' : handed[e] <= handed'[e]
      BY <1>t, <3>1, <3>2 DEF IInv, ServedSinceHanded
    <3>6. \A e \in Docs : e # d => Stored(e)' = Stored(e) /\ Claimed(e)' = Claimed(e)
      BY <3>2 DEF Stored, Claimed
    <3>7. d \notin crossed => account[d] # NoFile
      BY <2>1 DEF IInv, StoredHasFile
    <3>8. InFlight'
      BY <1>0, <3>1, <3>2, <3>3, <3>6 DEF IInv, InFlight
    <3>9. ServedSinceHanded'
      BY <1>0, <1>t, <3>1, <3>2, <3>3, <3>6 DEF IInv, ServedSinceHanded
    <3>10. StoredHasFile'
      BY <3>1, <3>6, <3>7 DEF IInv, StoredHasFile
    <3>11. FreshSafe'
      BY <1>0, <3>1, <3>2, <3>7 DEF IInv, FreshSafe, Fresh
    <3>12. \A e \in Docs \ crossed' : Claimed(e) => row'[e] = row[e]
      BY <2>1, <3>2
    <3> QED BY <1>0, <1>r, <3>1, <3>5, <3>8, <3>9, <3>10, <3>11, <3>12 DEF IInv
  <2>2. CASE ~(Stored(d) /\ ~Claimed(d))
    <3>1. /\ UNCHANGED <<row, handed, account>> /\ crossed \subseteq crossed'
          /\ d \notin crossed' => ~Claimed(d)
          /\ sub' = [sub EXCEPT ![s] = [pc |-> "upload", doc |-> d, file |-> 0]]
      BY <1>1, <2>2 DEF Serve
    <3>2. /\ sub'[s].pc = "upload" /\ sub'[s].doc = d
          /\ \A u \in Submitters \ {s} : sub'[u] = sub[u]
      BY <1>t, <3>1
    <3>3. \A e \in Docs : Stored(e)' = Stored(e) /\ Claimed(e)' = Claimed(e)
      BY <3>1 DEF Stored, Claimed
    <3>4. d \notin crossed' => ~Stored(d)
      BY <2>2, <3>1
    <3>5. InFlight'
      BY <1>0, <3>1, <3>2, <3>3, <3>4 DEF IInv, InFlight
    <3>6. ServedSinceHanded' /\ StoredHasFile' /\ FreshSafe'
      BY <1>0, <3>1, <3>3 DEF IInv, ServedSinceHanded, StoredHasFile, FreshSafe, Fresh
    <3>7. \A e \in Docs : handed[e] <= handed'[e]
      BY <1>t, <3>1
    <3> QED BY <1>0, <1>r, <3>1, <3>5, <3>6, <3>7 DEF IInv
  <2> QED BY <2>1, <2>2
<1>2. CASE Upload(s)
  <2> DEFINE d == sub[s].doc
  <2>0. sub[s] \in [pc : {"upload", "put"}, doc : Docs, file : FileIds]
    BY <1>2, <1>t DEF Upload, SubType, NoRequest
  <2>1. /\ d \in Docs /\ sub'[s].pc = "put" /\ sub'[s].doc = d /\ sub[s].pc = "upload" /\ sub[s].doc = d
        /\ \A u \in Submitters \ {s} : sub'[u] = sub[u]
    <3>1. \/ sub' = [sub EXCEPT ![s] = [sub[s] EXCEPT !.pc = "put"]]
          \/ sub' = [sub EXCEPT ![s] = [sub[s] EXCEPT !.pc = "put", !.file = files']]
      BY <1>2 DEF Upload
    <3>2. sub[s].pc = "upload"
      BY <1>2 DEF Upload
    <3> QED BY <1>t, <2>0, <3>1, <3>2
  <2>2. account'[d] # NoFile
    BY <1>2, <1>t, <2>1 DEF Upload, FileType, FileIds, TypeOK, IInv, NoFile
  <2>3. \A e \in Docs : account[e] # NoFile => account'[e] = account[e]
    BY <1>2, <1>t, <2>1 DEF Upload
  <2>4. UNCHANGED <<row, handed, crossed>>
    BY <1>2 DEF Upload
  <2> HIDE DEF d
  <2>5. \A e \in Docs : Stored(e)' = Stored(e) /\ Claimed(e)' = Claimed(e)
    BY <2>4 DEF Stored, Claimed
  <2>6. InFlight'
    BY <1>0, <2>1, <2>2, <2>3, <2>4, <2>5 DEF IInv, InFlight
  <2>7. ServedSinceHanded' /\ StoredHasFile' /\ FreshSafe'
    BY <1>0, <2>3, <2>4, <2>5 DEF IInv, ServedSinceHanded, StoredHasFile, FreshSafe, Fresh
  <2>8. \A e \in Docs : handed[e] <= handed'[e]
    BY <1>t, <2>4
  <2> QED BY <1>0, <1>r, <2>3, <2>4, <2>6, <2>7, <2>8 DEF IInv
<1>3. CASE Put(s)
  <2> DEFINE d == sub[s].doc
  <2>1. /\ d \in Docs /\ sub'[s].pc = "idle" /\ sub[s].pc = "put"
        /\ \A u \in Submitters \ {s} : sub'[u] = sub[u]
    BY <1>3, <1>d, <1>t DEF Put, NoRequest
  <2>2. /\ row' = IF Stored(d) THEN row ELSE [row EXCEPT ![d] = Row(sub[s].file, clock)]
        /\ handed' = [handed EXCEPT ![d] = clock]
        /\ crossed \subseteq crossed' /\ UNCHANGED account
        /\ d \notin crossed' => ~Held(d) /\ ~Claimed(d)
    BY <1>3 DEF Put
  <2> HIDE DEF d
  <2>3. /\ \A e \in Docs \ {d} : row'[e] = row[e] /\ handed'[e] = handed[e]
        /\ handed'[d] = clock
        /\ IF Stored(d) THEN row'[d] = row[d] ELSE row'[d].served = clock /\ row'[d].claim = 0
    BY <1>t, <2>1, <2>2 DEF Row
  <2>4. \A e \in Docs : e # d => Stored(e)' = Stored(e) /\ Claimed(e)' = Claimed(e)
    BY <2>3 DEF Stored, Claimed
  <2>5. d \notin crossed => account[d] # NoFile /\ (Stored(d) => row[d].served = clock)
    BY <2>1 DEF IInv, InFlight, d
  <2>6. d \notin crossed' => row'[d].served = clock
    BY <2>2, <2>3, <2>5
  <2>7. \A e \in Docs \ crossed' : handed[e] <= handed'[e]
    BY <1>t, <2>2, <2>3 DEF IInv, ServedSinceHanded
  <2>8. InFlight'
    BY <1>0, <2>1, <2>2, <2>3, <2>4, <2>6 DEF IInv, InFlight
  <2>9. ServedSinceHanded'
    BY <1>0, <1>t, <2>2, <2>3, <2>4, <2>6 DEF IInv, ServedSinceHanded
  <2>10. StoredHasFile'
    BY <2>2, <2>4, <2>5 DEF IInv, StoredHasFile
  <2>11. FreshSafe'
    BY <1>0, <2>2, <2>3, <2>5 DEF IInv, FreshSafe, Fresh
  <2>12. \A e \in Docs \ crossed' : Claimed(e) => row'[e] = row[e]
    BY <2>2, <2>3
  <2> QED BY <1>0, <1>r, <2>2, <2>7, <2>8, <2>9, <2>10, <2>11, <2>12 DEF IInv
<1>4. CASE AbortRequest(s)
  <2>1. /\ sub'[s].pc = "idle" /\ UNCHANGED <<row, handed, account, crossed>>
        /\ \A u \in Submitters \ {s} : sub'[u] = sub[u]
    BY <1>4, <1>t DEF AbortRequest, NoRequest
  <2>2. InFlight'
    BY <1>0, <2>1 DEF IInv, InFlight, Stored
  <2>3. ServedSinceHanded' /\ StoredHasFile' /\ FreshSafe'
    BY <1>0, <2>1 DEF IInv, ServedSinceHanded, StoredHasFile, FreshSafe, Fresh, Stored, Claimed
  <2>4. \A e \in Docs : handed[e] <= handed'[e]
    BY <1>t, <2>1
  <2> QED BY <1>0, <1>r, <2>1, <2>2, <2>3, <2>4 DEF IInv
<1> QED BY <1>1, <1>2, <1>3, <1>4 DEF RequestStep

-----------------------------------------------------------------------------
(* The steps of a collector run.                                           *)

\* Run g goes on as q, with no document in its reach that was not before.
Shrunk(g, q) ==
    /\ q.todo \subseteq run[g].todo /\ q.pin \in {run[g].pin, NoPin}
    /\ q.pc # "select" /\ (q.pc = "idle" => q.todo = {})
    /\ q.pc # "idle" => Live(g) /\ q.now = run[g].now
    /\ \/ q.kept = elsewhere
       \/ q.kept = run[g].kept /\ run[g].pc # "ask"
       \/ q.kept = {} /\ q.todo = {}

LEMMA ShrunkKeeps ==
    ASSUME IInv, TypeOK', NEW g \in Runs, NEW q, Shrunk(g, q), run' = [run EXCEPT ![g] = q],
           UNCHANGED <<clock, mirror, chains, handed>>, crossed \subseteq crossed'
    PROVE  /\ RunsYoung' /\ ListsNamed' /\ HandExclusive' /\ KeptKnown' /\ Spared' /\ SelectLate'
           /\ \A d \in Docs : Held(d)' => Held(d)
           /\ \A h \in Runs, d \in Docs : InHand(h, d)' => InHand(h, d) /\ run'[h].now = run[h].now
<1> USE DEF chains
<1>1. run'[g] = q /\ \A h \in Runs \ {g} : run'[h] = run[h]
  BY DEF IInv, TypeOK
<1>2. \A h \in Runs, d \in Docs : InHand(h, d)' => InHand(h, d)
  BY <1>1, NobodyIsNone DEF Shrunk, InHand
<1>3. \A h \in Runs, d \in Docs : InHand(h, d)' => run'[h].now = run[h].now
  BY <1>1, NobodyIsNone DEF Shrunk, InHand, TypeOK
<1>4. \A h \in Runs, d \in Docs : Listed(h, d)' => Listed(h, d)
  BY <1>1 DEF Shrunk, Listed
<1>5. \A d \in Docs : Held(d)' => Held(d)
  BY <1>2, <1>4 DEF Held, Holds, InHand, Listed
<1>6. RunsYoung'
  BY <1>1 DEF IInv, RunsYoung, Shrunk, Live
<1>7. ListsNamed'
  BY <1>1 DEF IInv, ListsNamed, Shrunk
<1>8. HandExclusive'
  BY <1>2 DEF IInv, HandExclusive
<1>9. KeptKnown'
  BY <1>1 DEF IInv, KeptKnown, Shrunk
<1>10. Spared'
  <2> SUFFICES ASSUME NEW h \in Runs, NEW d \in elsewhere \ crossed'
               PROVE  ~InHand(h, d)' /\ (Listed(h, d)' /\ run'[h].pc # "ask" => d \in run'[h].kept)
    BY DEF Spared
  <2>1. d \in Docs /\ ~InHand(h, d) /\ (Listed(h, d) /\ run[h].pc # "ask" => d \in run[h].kept)
    BY DEF IInv, Spared, TypeOK
  <2>2. ~InHand(h, d)'
    BY <1>2, <2>1
  <2>3. CASE h = g
    BY <1>1, <1>4, <2>1, <2>2, <2>3 DEF Shrunk, Listed
  <2>4. CASE h # g
    BY <1>1, <1>4, <2>1, <2>2, <2>4
  <2> QED BY <2>3, <2>4
<1>11. SelectLate'
  BY <1>1 DEF IInv, SelectLate, Shrunk
<1> QED BY <1>2, <1>3, <1>5, <1>6, <1>7, <1>8, <1>9, <1>10, <1>11

\* A step that brings no document into reach, keeps or drops rows, and removes
\* at most a file in hand.
LEMMA ReachKept ==
    ASSUME IInv, UNCHANGED <<clock, sub, chains, handed>>, crossed \subseteq crossed',
           \A d \in Docs \ crossed' : Held(d)' => Held(d),
           \A d \in Docs : Stored(d)' => Stored(d) /\ row'[d].served = row[d].served,
           \A d \in Docs : account'[d] = account[d] \/ \E g \in Runs : InHand(g, d)
    PROVE  InFlight' /\ ServedSinceHanded' /\ FreshSafe' /\ ElsewhereKept'
<1> USE DEF chains
<1>1. \A d \in Docs \ crossed : account'[d] # account[d] => Stored(d) /\ Held(d) /\ d \notin elsewhere
  BY DEF IInv, HandClaimed, Spared, InHand, Held, Holds
<1>2. InFlight'
  <2> SUFFICES ASSUME NEW s \in Submitters, NEW d \in Docs \ crossed', sub[s].pc # "idle", sub[s].doc = d
               PROVE  /\ Stored(d)' => row'[d].served = clock /\ ~Held(d)'
                      /\ sub[s].pc = "put" => account'[d] # NoFile
    BY DEF InFlight
  <2>1. /\ Stored(d) => row[d].served = clock /\ ~Held(d)
        /\ sub[s].pc = "put" => account[d] # NoFile
    BY DEF IInv, InFlight
  <2> QED BY <1>1, <2>1
<1>3. ServedSinceHanded'
  BY DEF IInv, ServedSinceHanded
<1>4. FreshSafe'
  <2> SUFFICES ASSUME NEW d \in Docs \ crossed', Fresh(d) PROVE ~Held(d)' /\ account'[d] # NoFile
    BY DEF FreshSafe, Fresh
  <2>1. ~Held(d) /\ account[d] # NoFile
    BY DEF IInv, FreshSafe
  <2> QED BY <1>1, <2>1
<1>5. ElsewhereKept'
  BY <1>1 DEF IInv, ElsewhereKept, TypeOK
<1> QED BY <1>2, <1>3, <1>4, <1>5

\* The row of what stays in hand is left alone.
LEMMA HandKept ==
    ASSUME IInv, crossed \subseteq crossed',
           \A h \in Runs, d \in Docs : InHand(h, d)' => InHand(h, d) /\ run'[h].now = run[h].now,
           \A h \in Runs, d \in Docs \ crossed' : InHand(h, d)' => row'[d] = row[d]
    PROVE  HandClaimed'
BY DEF IInv, HandClaimed, Stored

LEMMA ForeignKeeps ==
    ASSUME IInv, \A d \in Docs : account[d] # NoFile /\ ~account[d].group => account'[d] = account[d],
           \A h \in Runs : run'[h].pc = "disown" => run[h].pc = "disown" /\ run'[h].pin = run[h].pin
    PROVE  ForeignInHand'
<1>1. \A h \in Runs : run[h].pc = "disown" => run[h].pin.doc \in Docs
  BY HandTyped DEF IInv
<1> QED BY <1>1 DEF IInv, ForeignInHand

\* Steps that move the run alone.
LEMMA RunOnlyInv ==
    ASSUME IInv, TypeOK', NEW g \in Runs, NEW q, Shrunk(g, q), run' = [run EXCEPT ![g] = q], q.pc # "disown",
           UNCHANGED <<clock, account, row, mirror, chains, sub, history>>
    PROVE  IInv'
<1> USE DEF chains, history, crossed
<1>1. crossed \subseteq crossed' /\ \A d \in Docs : Stored(d)' = Stored(d) /\ Claimed(d)' = Claimed(d)
  BY DEF Stored, Claimed
<1>2. /\ RunsYoung' /\ ListsNamed' /\ HandExclusive' /\ KeptKnown' /\ Spared' /\ SelectLate'
      /\ \A d \in Docs : Held(d)' => Held(d)
      /\ \A h \in Runs, d \in Docs : InHand(h, d)' => InHand(h, d) /\ run'[h].now = run[h].now
  BY <1>1, ShrunkKeeps
<1>3. InFlight' /\ ServedSinceHanded' /\ FreshSafe' /\ ElsewhereKept'
  BY <1>1, <1>2, ReachKept
<1>4. HandClaimed'
  BY <1>1, <1>2, HandKept
<1>5. run'[g] = q /\ \A h \in Runs \ {g} : run'[h] = run[h]
  BY DEF IInv, TypeOK
<1>6. ForeignInHand'
  BY <1>5, ForeignKeeps
<1>7. StoredHasFile'
  BY <1>1 DEF IInv, StoredHasFile
<1> QED BY <1>2, <1>3, <1>4, <1>6, <1>7 DEF IInv

\* A run begins: the actions anchored so far are known to discovery.
LEMMA StartRunInv == ASSUME IInv, TypeOK', NEW g \in Runs, NEW ok \in BOOLEAN, StartRun(g, ok) PROVE IInv'
<1> USE DEF chains, history, crossed
<1>1. /\ run[g].pc = "idle" /\ mirror \subseteq mirror'
      /\ UNCHANGED <<clock, account, row, chains, sub, history>>
  BY DEF StartRun, IInv, TypeOK
<1>2. /\ \A h \in Runs \ {g} : run'[h] = run[h]
      /\ \/ run'[g] = run[g]
         \/ /\ mirror' = anchored
            /\ run'[g] = [Resting EXCEPT !.pc = "select", !.now = clock]
  BY DEF StartRun, CollectsAfter, IInv, TypeOK
<1>3. /\ run'[g].todo = {} /\ run'[g].pin = NoPin /\ run'[g].kept \subseteq elsewhere
      /\ run'[g].pc \in {"idle", "select"}
      /\ run'[g].pc = "select" => run'[g].now = clock /\ mirror' = anchored
  <2>1. run[g].todo = {} /\ run[g].pin = NoPin /\ run[g].kept \subseteq elsewhere
    BY <1>1 DEF IInv, ListsNamed, KeptKnown, TypeOK
  <2>2. CASE run'[g] = run[g]
    BY <1>1, <2>1, <2>2
  <2>3. CASE mirror' = anchored /\ run'[g] = [Resting EXCEPT !.pc = "select", !.now = clock]
    BY <2>3 DEF Resting
  <2> QED BY <1>2, <2>2, <2>3
<1>4. \A h \in Runs, d \in Docs : InHand(h, d)' => InHand(h, d) /\ h # g
  BY <1>2, <1>3, NobodyIsNone DEF InHand
<1>5. \A h \in Runs, d \in Docs : Listed(h, d)' => Listed(h, d) /\ h # g
  BY <1>2, <1>3 DEF Listed
<1>6. \A d \in Docs : Held(d)' => Held(d)
  BY <1>4, <1>5 DEF Held, Holds, InHand, Listed
<1>7. RunsYoung'
  BY <1>1, <1>2, <1>3, PinsAssumption DEF PinsAssumption, IInv, RunsYoung, Live, TypeOK
<1>8. ListsNamed' /\ KeptKnown'
  BY <1>1, <1>2, <1>3 DEF IInv, ListsNamed, KeptKnown
<1>9. HandClaimed' /\ HandExclusive'
  BY <1>1, <1>2, <1>4 DEF IInv, HandClaimed, HandExclusive, Stored
<1>10. Spared'
  BY <1>1, <1>2, <1>4, <1>5 DEF IInv, Spared, TypeOK
<1>11. SelectLate'
  BY <1>1, <1>2, <1>3 DEF IInv, SelectLate
<1>12. InFlight' /\ ServedSinceHanded' /\ FreshSafe' /\ ElsewhereKept'
  BY <1>1, <1>6, ReachKept DEF Stored
<1>13. ForeignInHand'
  BY <1>1, <1>2, <1>3, ForeignKeeps
<1>14. StoredHasFile'
  BY <1>1 DEF IInv, StoredHasFile, Stored, Claimed
<1> QED BY <1>7, <1>8, <1>9, <1>10, <1>11, <1>12, <1>13, <1>14 DEF IInv

\* What a run selects is neither fresh nor in flight.
LEMMA CollectableStale ==
    ASSUME IInv, NEW g \in Runs, run[g].pc = "select", NEW d \in Collectable(run[g].now), d \notin crossed
    PROVE  /\ ~Fresh(d)
           /\ \A s \in Submitters : sub[s].pc # "idle" => sub[s].doc # d
<1>1. d \in Docs /\ Stored(d) /\ row[d].served < run[g].now - Grace /\ d \notin mirror
  BY DEF Collectable
<1>2. run[g].now \in 1..clock /\ row[d].served \in 1..MaxClock /\ handed[d] \in 0..MaxClock /\ clock \in 1..MaxClock
  BY <1>1, StoredTyped DEF IInv, RunsYoung, Live, TypeOK
<1>3. handed[d] <= row[d].served
  BY <1>1 DEF IInv, ServedSinceHanded
<1>4. handed[d] + Grace < run[g].now
  BY <1>1, <1>2, <1>3, PinsAssumption DEF PinsAssumption
<1>5. d \notin anchored
  BY <1>1, <1>2, <1>4, PinsAssumption DEF PinsAssumption, IInv, SelectLate
<1>6. ~Fresh(d)
  BY <1>2, <1>4, <1>5, PinsAssumption DEF PinsAssumption, Fresh
<1>7. row[d].served # clock
  BY <1>1, <1>2, PinsAssumption DEF PinsAssumption
<1> QED BY <1>1, <1>6, <1>7 DEF IInv, InFlight

LEMMA SelectInv == ASSUME IInv, TypeOK', NEW g \in Runs, Select(g) PROVE IInv'
<1> USE DEF chains, history, crossed
<1>1. PICK B \in Batches(run[g].now) :
        run' = [run EXCEPT ![g] = [run[g] EXCEPT !.pc = "ask", !.todo = {[doc |-> d, file |-> row[d].file] : d \in B}]]
  BY DEF Select
<1>2. /\ run[g].pc = "select" /\ UNCHANGED <<clock, account, row, mirror, chains, sub, history>>
      /\ B \subseteq Collectable(run[g].now)
  BY DEF Select, Batches
<1> DEFINE T == {[doc |-> d, file |-> row[d].file] : d \in B}
<1>3. \A p \in T : p.doc \in B /\ p.file > 0
  BY <1>2 DEF Collectable
<1>4. /\ \A h \in Runs \ {g} : run'[h] = run[h]
      /\ run'[g].pc = "ask" /\ run'[g].todo = T /\ run'[g].now = run[g].now
      /\ run'[g].pin = run[g].pin /\ run'[g].kept = run[g].kept
  <2>1. run[g] \in RunType /\ run \in [Runs -> RunType]
    BY DEF IInv, TypeOK, RunType
  <2> HIDE DEF T
  <2>2. run' = [run EXCEPT ![g] = [run[g] EXCEPT !.pc = "ask", !.todo = T]]
    BY <1>1 DEF T
  <2> QED BY <2>1, <2>2 DEF RunType
<1> HIDE DEF T
<1>5. \A h \in Runs, d \in Docs : InHand(h, d)' = InHand(h, d)
  BY <1>4 DEF InHand
<1>6. \A d \in Docs \ B : Held(d)' => Held(d)
  BY <1>3, <1>4, <1>5 DEF Held, Holds, InHand
<1>7. \A d \in B \ crossed : /\ ~Fresh(d)
                            /\ \A s \in Submitters : sub[s].pc # "idle" => sub[s].doc # d
  BY <1>2, CollectableStale
<1>8. RunsYoung' /\ ListsNamed' /\ KeptKnown' /\ SelectLate'
  BY <1>2, <1>3, <1>4 DEF IInv, RunsYoung, Live, ListsNamed, KeptKnown, SelectLate
<1>9. HandClaimed' /\ HandExclusive'
  BY <1>2, <1>4, <1>5 DEF IInv, HandClaimed, HandExclusive, Stored
<1>10. Spared'
  <2>1. \A h \in Runs, d \in Docs : h # g => Listed(h, d)' = Listed(h, d)
    BY <1>4 DEF Listed
  <2> QED BY <1>2, <1>4, <1>5, <2>1 DEF IInv, Spared, TypeOK
<1>11. InFlight'
  BY <1>2, <1>6, <1>7 DEF IInv, InFlight, Stored
<1>12. FreshSafe'
  BY <1>2, <1>6, <1>7 DEF IInv, FreshSafe, Fresh
<1>13. ServedSinceHanded' /\ ElsewhereKept' /\ StoredHasFile'
  BY <1>2 DEF IInv, ServedSinceHanded, ElsewhereKept, StoredHasFile, Stored, Claimed
<1>14. ForeignInHand'
  BY <1>2, <1>4, ForeignKeeps
<1> QED BY <1>8, <1>9, <1>10, <1>11, <1>12, <1>13, <1>14 DEF IInv

\* A run keeps a pin for the other network: nobody has it in hand, and it has its file.
LEMMA KeepForOtherInv ==
    ASSUME IInv, TypeOK', NEW g \in Runs, NEW p \in run[g].todo, KeepForOther(g, p)
    PROVE  IInv'
<1> USE DEF chains, history, crossed
<1> DEFINE q == [run[g] EXCEPT !.todo = run[g].todo \ {p}]
           e == p.doc
<1>t. run[g] \in RunType /\ row \in [Docs -> RowType] /\ e \in Docs
  BY DEF IInv, TypeOK, RunType, Pin
<1>1. /\ run[g].pc = "next" /\ run' = [run EXCEPT ![g] = q] /\ row' = Disowned(e) /\ e \in elsewhere
      /\ UNCHANGED <<clock, account, mirror, chains, sub, history>>
  BY DEF KeepForOther, IInv, KeptKnown
<1>2. Shrunk(g, q) /\ q.pc = "next"
  BY <1>t, <1>1 DEF Shrunk, RunType, Live
<1> HIDE DEF q, e
<1>3. /\ \A d \in Docs \ {e} : row'[d] = row[d]
      /\ \A d \in Docs : Stored(d)' = Stored(d) /\ row'[d].served = row[d].served
  BY <1>t, <1>1, StoredTyped DEF IInv, Disowned, Stored
<1>4. /\ RunsYoung' /\ ListsNamed' /\ HandExclusive' /\ KeptKnown' /\ Spared' /\ SelectLate'
      /\ \A d \in Docs : Held(d)' => Held(d)
      /\ \A h \in Runs, d \in Docs : InHand(h, d)' => InHand(h, d) /\ run'[h].now = run[h].now
  BY <1>1, <1>2, ShrunkKeeps
<1>5. InFlight' /\ ServedSinceHanded' /\ FreshSafe' /\ ElsewhereKept'
  BY <1>1, <1>3, <1>4, ReachKept
<1>6. e \notin crossed => account[e] # NoFile /\ \A h \in Runs : ~InHand(h, e)
  BY <1>1 DEF IInv, Spared, ElsewhereKept
<1>7. HandClaimed'
  BY <1>1, <1>3, <1>4, <1>6, HandKept
<1>8. StoredHasFile'
  BY <1>1, <1>3, <1>6 DEF IInv, StoredHasFile, Claimed
<1>9. ForeignInHand'
  <2>1. run'[g] = q /\ \A h \in Runs \ {g} : run'[h] = run[h]
    BY <1>1 DEF IInv, TypeOK
  <2> QED BY <1>1, <1>2, <2>1, ForeignKeeps
<1> QED BY <1>4, <1>5, <1>7, <1>8, <1>9 DEF IInv

\* A run takes a pin off its list and, if the row is free, into its hand.
LEMMA ClaimInv ==
    ASSUME IInv, TypeOK', NEW g \in Runs, NEW p \in run[g].todo, Claim(g, p)
    PROVE  IInv'
<1> USE DEF chains, history, crossed
<1> DEFINE e == p.doc
           none == [run[g] EXCEPT !.todo = run[g].todo \ {p}, !.pc = "next", !.pin = NoPin]
           mine == [run[g] EXCEPT !.todo = run[g].todo \ {p}, !.pc = "remove", !.pin = p]
<1>t. /\ run[g] \in RunType /\ row \in [Docs -> RowType] /\ run \in [Runs -> RunType] /\ e \in Docs
      /\ run[g].now \in 1..clock /\ clock \in 1..MaxClock
  BY DEF IInv, TypeOK, RunType, Pin, Claim, RunsYoung, Live
<1>1. /\ run[g].pc = "next" /\ Listed(g, e) /\ e \notin run[g].kept
      /\ UNCHANGED <<clock, account, mirror, chains, sub, history>>
  BY DEF Claim, Listed
<1>2. CASE ~Claimable(e, run[g].now)
  <2>1. run' = [run EXCEPT ![g] = none] /\ UNCHANGED row
    BY <1>2 DEF Claim
  <2>2. Shrunk(g, none) /\ none.pc = "next"
    BY <1>t, <1>1 DEF Shrunk, RunType, Live
  <2> HIDE DEF none
  <2> QED BY <1>1, <2>1, <2>2, RunOnlyInv
<1>3. CASE Claimable(e, run[g].now)
  <2>1. /\ run' = [run EXCEPT ![g] = mine]
        /\ row' = [row EXCEPT ![e] = [row[e] EXCEPT !.claim = run[g].now]]
        /\ Stored(e) /\ Free(e, run[g].now)
    BY <1>3 DEF Claim, Claimable
  <2>2. /\ \A h \in Runs \ {g} : run'[h] = run[h]
        /\ run'[g].todo = run[g].todo \ {p} /\ run'[g].pc = "remove" /\ run'[g].pin = p
        /\ run'[g].now = run[g].now /\ run'[g].kept = run[g].kept
    BY <1>t, <2>1 DEF RunType
  <2>0. p.doc = e /\ Listed(g, e)
    BY <1>1
  <2> HIDE DEF e, mine
  <2>3. /\ \A d \in Docs \ {e} : row'[d] = row[d]
        /\ row'[e].claim = run[g].now
        /\ \A d \in Docs : Stored(d)' = Stored(d) /\ row'[d].served = row[d].served
    BY <1>t, <2>1, StoredTyped DEF IInv, Stored
  <2>4. /\ \A h \in Runs \ {g}, d \in Docs : InHand(h, d)' = InHand(h, d) /\ Listed(h, d)' = Listed(h, d)
        /\ \A d \in Docs : InHand(g, d)' => d = e
        /\ \A d \in Docs : Listed(g, d)' => Listed(g, d)
    <3>1. \A h \in Runs \ {g}, d \in Docs : InHand(h, d)' = InHand(h, d) /\ Listed(h, d)' = Listed(h, d)
      BY <2>2 DEF InHand, Listed
    <3>2. \A d \in Docs : InHand(g, d)' => d = e
      BY <2>0, <2>2 DEF InHand
    <3>3. \A d \in Docs : Listed(g, d)' => Listed(g, d)
      BY <2>2 DEF Listed
    <3> QED BY <3>1, <3>2, <3>3
  <2>5. \A d \in Docs : Held(d)' => Held(d)
    <3>1. \A h \in Runs, d \in Docs : Holds(h, d) <=> InHand(h, d) \/ Listed(h, d)
      BY DEF Holds, InHand, Listed
    <3>2. \A h \in Runs, d \in Docs : Holds(h, d)' <=> InHand(h, d)' \/ Listed(h, d)'
      BY DEF Holds, InHand, Listed
    <3>3. \A h \in Runs, d \in Docs : Holds(h, d)' => Holds(h, d)
      <4> SUFFICES ASSUME NEW h \in Runs, NEW d \in Docs, Holds(h, d)' PROVE Holds(h, d)
        OBVIOUS
      <4>1. CASE h = g
        BY <2>0, <2>4, <3>1, <3>2, <4>1
      <4>2. CASE h # g
        BY <2>4, <3>1, <3>2, <4>2
      <4> QED BY <4>1, <4>2
    <3> QED BY <3>3 DEF Held
  <2>6. e \notin crossed => e \notin elsewhere /\ \A h \in Runs : ~InHand(h, e)
    <3> SUFFICES ASSUME e \notin crossed PROVE e \notin elsewhere /\ \A h \in Runs : ~InHand(h, e)
      OBVIOUS
    <3>1. e \notin elsewhere
      BY <1>1 DEF IInv, Spared
    <3>2. ASSUME NEW h \in Runs, InHand(h, e) PROVE FALSE
      <4>1. row[e].claim = run[h].now
        BY <1>t, <3>2 DEF IInv, HandClaimed
      <4>2. run[h].now \in 1..clock /\ clock <= run[h].now + Life
        BY <1>t, <3>2, NobodyIsNone DEF IInv, RunsYoung, Live, InHand, TypeOK
      <4> QED BY <1>t, <2>1, <4>1, <4>2, PinsAssumption DEF PinsAssumption, Free
    <3> QED BY <3>1, <3>2
  <2>7. RunsYoung' /\ ListsNamed' /\ KeptKnown' /\ SelectLate'
    BY <1>1, <2>2 DEF IInv, RunsYoung, Live, ListsNamed, KeptKnown, SelectLate
  <2>8. HandClaimed'
    <3> SUFFICES ASSUME NEW h \in Runs, NEW d \in Docs \ crossed, InHand(h, d)'
                 PROVE  Stored(d) /\ row'[d].claim = run'[h].now
      BY <1>1, <2>3 DEF HandClaimed
    <3>1. CASE h = g
      BY <2>1, <2>2, <2>3, <2>4, <3>1
    <3>2. CASE h # g
      <4>1. InHand(h, d) /\ d # e
        BY <2>4, <2>6, <3>2
      <4> QED BY <2>2, <2>3, <3>2, <4>1 DEF IInv, HandClaimed
    <3> QED BY <3>1, <3>2
  <2>9. HandExclusive'
    <3> SUFFICES ASSUME NEW h \in Runs, NEW k \in Runs, NEW d \in Docs \ crossed, InHand(h, d)', InHand(k, d)', h # k
                 PROVE  FALSE
      BY <1>1 DEF HandExclusive
    <3>1. CASE h = g \/ k = g
      BY <2>4, <2>6, <3>1
    <3>2. CASE h # g /\ k # g
      BY <2>4, <3>2 DEF IInv, HandExclusive
    <3> QED BY <3>1, <3>2
  <2>10. Spared'
    <3> SUFFICES ASSUME NEW h \in Runs, NEW d \in elsewhere \ crossed
                 PROVE  ~InHand(h, d)' /\ (Listed(h, d)' /\ run'[h].pc # "ask" => d \in run'[h].kept)
      BY <1>1 DEF Spared
    <3>1. d \in Docs
      BY DEF IInv, TypeOK
    <3>2. ~InHand(h, d) /\ (Listed(h, d) /\ run[h].pc # "ask" => d \in run[h].kept)
      BY DEF IInv, Spared
    <3>3. CASE h = g
      BY <1>1, <2>2, <2>4, <2>6, <3>1, <3>2, <3>3
    <3>4. CASE h # g
      BY <2>2, <2>4, <3>1, <3>2, <3>4
    <3> QED BY <3>3, <3>4
  <2>11. InFlight' /\ ServedSinceHanded' /\ FreshSafe' /\ ElsewhereKept'
    BY <1>1, <2>3, <2>5, ReachKept
  <2>12. StoredHasFile'
    <3>1. Claimed(e)'
      BY <1>t, <2>3 DEF Claimed
    <3> QED BY <1>1, <2>3, <3>1 DEF IInv, StoredHasFile, Claimed
  <2>13. ForeignInHand'
    BY <1>1, <2>2, ForeignKeeps
  <2> QED BY <2>7, <2>8, <2>9, <2>10, <2>11, <2>12, <2>13 DEF IInv
<1> QED BY <1>2, <1>3

\* A run that may remove its file leaves all that is used, and what is foreign.
LEMMA RemoveInv == ASSUME IInv, TypeOK', NEW g \in Runs, Remove(g) \/ RemoveFails(g) PROVE IInv'
<1> USE DEF chains, history, crossed
<1> DEFINE e == run[g].pin.doc
           q(c) == [run[g] EXCEPT !.pc = c]
<1>t. /\ run[g] \in RunType /\ run \in [Runs -> RunType] /\ account \in [Docs -> FileType]
      /\ e \in Docs /\ run[g].pin # NoPin /\ run[g].pin.file > 0 /\ run[g].now \in 1..clock /\ clock \in 1..MaxClock
  <2>1. run[g].pc = "remove"
    BY DEF Remove, RemoveFails
  <2> QED BY <2>1, HandTyped DEF IInv, TypeOK, RunType, FileType, RunsYoung, Live, ListsNamed
<1>1. /\ run[g].pc = "remove" /\ UNCHANGED <<clock, row, mirror, chains, sub, history>>
      /\ InHand(g, e)
  BY DEF Remove, RemoveFails, InHand
<1>2. PICK c \in {"drop", "disown", "release"} :
         /\ run' = [run EXCEPT ![g] = q(c)]
         /\ c = "disown" => account[e] # NoFile /\ ~account[e].group /\ UNCHANGED account
  <2>1. account[e].id = run[g].pin.file => account[e] # NoFile
    BY <1>t DEF NoFile
  <2>2. CASE Remove(g)
    <3>1. \/ run' = [run EXCEPT ![g] = q("drop")]
          \/ /\ run' = [run EXCEPT ![g] = q("disown")] /\ UNCHANGED account
             /\ account[e].id = run[g].pin.file /\ ~account[e].group
      BY <2>2 DEF Remove, Ours
    <3> QED BY <2>1, <3>1
  <2>3. CASE RemoveFails(g)
    BY <2>3 DEF RemoveFails
  <2> QED BY <2>2, <2>3
<1>3. UNCHANGED account \/ (account' = [account EXCEPT ![e] = NoFile] /\ account[e].group)
  BY DEF Remove, RemoveFails, Ours
<1>4. Shrunk(g, q(c)) /\ q(c).pc = c /\ q(c).pin = run[g].pin
  BY <1>t, <1>1 DEF Shrunk, RunType, Live
<1>5. run'[g] = q(c) /\ \A h \in Runs \ {g} : run'[h] = run[h]
  BY <1>t, <1>2
<1> HIDE DEF q, e
<1>6. \A d \in Docs \ {e} : account'[d] = account[d]
  BY <1>t, <1>3
<1>7. \A d \in Docs : Stored(d)' = Stored(d) /\ Claimed(d)' = Claimed(d) /\ row'[d] = row[d]
  BY <1>1 DEF Stored, Claimed
<1>8. /\ RunsYoung' /\ ListsNamed' /\ HandExclusive' /\ KeptKnown' /\ Spared' /\ SelectLate'
      /\ \A d \in Docs : Held(d)' => Held(d)
      /\ \A h \in Runs, d \in Docs : InHand(h, d)' => InHand(h, d) /\ run'[h].now = run[h].now
  BY <1>1, <1>2, <1>4, ShrunkKeeps
<1>9. InFlight' /\ ServedSinceHanded' /\ FreshSafe' /\ ElsewhereKept'
  BY <1>1, <1>6, <1>7, <1>8, ReachKept
<1>10. HandClaimed'
  BY <1>1, <1>7, <1>8, HandKept
<1>11. StoredHasFile'
  <2>1. e \notin crossed => Claimed(e)
    BY <1>t, <1>1 DEF IInv, HandClaimed, Claimed
  <2> QED BY <1>1, <1>6, <1>7, <2>1 DEF IInv, StoredHasFile
<1>12. ForeignInHand'
  <2> SUFFICES ASSUME NEW h \in Runs, run'[h].pc = "disown"
               PROVE  account'[run'[h].pin.doc] # NoFile /\ ~account'[run'[h].pin.doc].group
    BY DEF ForeignInHand
  <2>1. CASE h = g
    BY <1>2, <1>4, <1>5, <2>1 DEF e
  <2>2. CASE h # g
    <3>1. run'[h] = run[h] /\ run[h].pin.doc \in Docs
      BY <1>5, <2>2, HandTyped DEF IInv
    <3>2. account[run[h].pin.doc] # NoFile /\ ~account[run[h].pin.doc].group
      BY <3>1 DEF IInv, ForeignInHand
    <3> QED BY <1>3, <1>6, <3>1, <3>2
  <2> QED BY <2>1, <2>2
<1> QED BY <1>8, <1>9, <1>10, <1>11, <1>12 DEF IInv

\* A run settles the row in its hand and lets go of it.
LEMMA SettleInv ==
    ASSUME IInv, TypeOK', NEW g \in Runs, run[g].pc \in {"drop", "disown", "release"}, Proceed(g),
           crossed \subseteq crossed',
           \A d \in Docs \ {run[g].pin.doc} : row'[d] = row[d],
           \A d \in Docs : Stored(d)' => Stored(d) /\ row'[d].served = row[d].served,
           run[g].pin.doc \notin crossed' /\ row'[run[g].pin.doc].served > 0 => account[run[g].pin.doc] # NoFile,
           UNCHANGED <<clock, account, mirror, chains, sub, handed>>
    PROVE  IInv'
<1> USE DEF chains
<1> DEFINE e == run[g].pin.doc
           q == [run[g] EXCEPT !.pc = "next", !.pin = NoPin]
<1>t. run[g] \in RunType /\ e \in Docs
  BY HandTyped DEF IInv, TypeOK, RunType
<1>1. run' = [run EXCEPT ![g] = q]
  BY DEF Proceed
<1>2. Shrunk(g, q) /\ q.pc = "next" /\ q.pin = NoPin
  BY <1>t DEF Shrunk, RunType, Live
<1>3. run'[g] = q /\ \A h \in Runs \ {g} : run'[h] = run[h]
  BY <1>1 DEF IInv, TypeOK
<1>4. InHand(g, e) /\ \A d \in Docs : ~InHand(g, d)'
  BY <1>2, <1>3, NobodyIsNone DEF InHand
<1> HIDE DEF q, e
<1>5. /\ RunsYoung' /\ ListsNamed' /\ HandExclusive' /\ KeptKnown' /\ Spared' /\ SelectLate'
      /\ \A d \in Docs : Held(d)' => Held(d)
      /\ \A h \in Runs, d \in Docs : InHand(h, d)' => InHand(h, d) /\ run'[h].now = run[h].now
  BY <1>1, <1>2, ShrunkKeeps
<1>6. InFlight' /\ ServedSinceHanded' /\ FreshSafe' /\ ElsewhereKept'
  BY <1>5, ReachKept
<1>7. HandClaimed'
  <2>1. \A h \in Runs, d \in Docs \ crossed' : InHand(h, d)' => d # e
    BY <1>t, <1>4, <1>5 DEF IInv, HandExclusive
  <2> QED BY <1>5, <2>1, HandKept DEF e
<1>8. StoredHasFile'
  <2> SUFFICES ASSUME NEW d \in Docs \ crossed', Stored(d)', ~Claimed(d)' PROVE account[d] # NoFile
    BY DEF StoredHasFile
  <2>1. CASE d = e
    BY <2>1 DEF e, Stored
  <2>2. CASE d # e
    <3>1. row'[d] = row[d] /\ d \notin crossed
      BY <2>2 DEF e
    <3> QED BY <3>1 DEF IInv, StoredHasFile, Stored, Claimed
  <2> QED BY <2>1, <2>2
<1>9. ForeignInHand'
  BY <1>2, <1>3, ForeignKeeps
<1> QED BY <1>5, <1>6, <1>7, <1>8, <1>9 DEF IInv

LEMMA CollectorInv == ASSUME IInv, NEW g \in Runs, CollectorStep(g) PROVE IInv'
<1>0. TypeOK'
  BY TypeCollector DEF IInv
<1>t. run[g] \in RunType /\ row \in [Docs -> RowType]
  BY DEF IInv, TypeOK, RunType
<1>r. Shrunk(g, Resting) /\ Resting.pc = "idle"
  BY <1>t DEF Shrunk, Resting, RunType
<1>1. ASSUME NEW ok \in BOOLEAN, StartRun(g, ok) PROVE IInv'
  BY <1>0, <1>1, StartRunInv
<1>2. CASE Select(g)
  BY <1>0, <1>2, SelectInv
<1>3. ASSUME NEW ok \in BOOLEAN, Ask(g, ok) PROVE IInv'
  <2> DEFINE q == [run[g] EXCEPT !.pc = "next", !.kept = elsewhere]
  <2>1. Shrunk(g, q) /\ q.pc = "next"
    BY <1>3, <1>t DEF Ask, Shrunk, RunType, Live
  <2>2. run' = [run EXCEPT ![g] = q] \/ run' = [run EXCEPT ![g] = Resting]
    BY <1>3 DEF Ask
  <2>3. UNCHANGED <<clock, account, row, mirror, chains, sub, history>>
    BY <1>3 DEF Ask
  <2> HIDE DEF q
  <2> QED BY <1>0, <1>r, <2>1, <2>2, <2>3, RunOnlyInv
<1>4. ASSUME NEW p \in run[g].todo, KeepForOther(g, p) PROVE IInv'
  BY <1>0, <1>4, KeepForOtherInv
<1>5. ASSUME NEW p \in run[g].todo, Claim(g, p) PROVE IInv'
  BY <1>0, <1>5, ClaimInv
<1>6. CASE EndRun(g) \/ Kill(g)
  <2>1. run' = [run EXCEPT ![g] = Resting] /\ UNCHANGED <<clock, account, row, mirror, chains, sub, history>>
    BY <1>6 DEF EndRun, Kill
  <2> QED BY <1>0, <1>r, <2>1, RunOnlyInv
<1>7. CASE Remove(g) \/ RemoveFails(g)
  BY <1>0, <1>7, RemoveInv
<1>8. ASSUME NEW ok \in BOOLEAN, Drop(g, ok) PROVE IInv'
  <2>1. CASE ok
    <3> DEFINE e == run[g].pin.doc
    <3>1. e \in Docs /\ run[g].pc = "drop"
      BY <1>8, HandTyped DEF Drop, IInv
    <3>2. /\ row' = [row EXCEPT ![e] = NoRow] /\ Proceed(g)
          /\ UNCHANGED <<clock, account, mirror, chains, sub, history>>
      BY <1>8, <2>1 DEF Drop
    <3> HIDE DEF e
    <3>3. row'[e] = NoRow /\ \A d \in Docs \ {e} : row'[d] = row[d]
      BY <1>t, <3>1, <3>2
    <3>4. ~(row'[e].served > 0)
      BY <3>3 DEF NoRow
    <3>5. \A d \in Docs : Stored(d)' => Stored(d) /\ row'[d].served = row[d].served
      BY <3>3, <3>4 DEF Stored
    <3> QED BY <1>0, <3>1, <3>2, <3>3, <3>4, <3>5, SettleInv DEF history, crossed, e
  <2>2. CASE ~ok
    <3> DEFINE q == [run[g] EXCEPT !.pc = "release"]
    <3>1. Shrunk(g, q) /\ q.pc = "release"
      BY <1>8, <1>t DEF Drop, Shrunk, RunType, Live
    <3>2. run' = [run EXCEPT ![g] = q] /\ UNCHANGED <<clock, account, row, mirror, chains, sub, history>>
      BY <1>8, <2>2 DEF Drop
    <3> HIDE DEF q
    <3> QED BY <1>0, <3>1, <3>2, RunOnlyInv
  <2> QED BY <2>1, <2>2
<1>9. ASSUME NEW ok \in BOOLEAN, Disown(g, ok) PROVE IInv'
  <2>1. CASE ok
    <3>1. /\ run[g].pin.doc \in Docs /\ run[g].pc = "disown" /\ row' = Disowned(run[g].pin.doc) /\ Proceed(g)
          /\ UNCHANGED <<clock, account, mirror, chains, sub, history>>
      BY <1>9, <2>1, HandTyped DEF Disown, IInv
    <3>2. /\ \A d \in Docs \ {run[g].pin.doc} : row'[d] = row[d]
          /\ \A d \in Docs : Stored(d)' => Stored(d) /\ row'[d].served = row[d].served
      BY <1>t, <3>1, StoredTyped DEF IInv, Disowned, Stored
    <3>3. account[run[g].pin.doc] # NoFile
      BY <3>1 DEF IInv, ForeignInHand
    <3> QED BY <1>0, <3>1, <3>2, <3>3, SettleInv DEF history, crossed
  <2>2. CASE ~ok
    <3> DEFINE q == [run[g] EXCEPT !.pc = "release"]
    <3>1. Shrunk(g, q) /\ q.pc = "release"
      BY <1>9, <1>t DEF Disown, Shrunk, RunType, Live
    <3>2. run' = [run EXCEPT ![g] = q] /\ UNCHANGED <<clock, account, row, mirror, chains, sub, history>>
      BY <1>9, <2>2 DEF Disown
    <3> HIDE DEF q
    <3> QED BY <1>0, <3>1, <3>2, RunOnlyInv
  <2> QED BY <2>1, <2>2
<1>10. CASE Release(g)
  <2> DEFINE e == run[g].pin.doc
  <2>1. e \in Docs /\ run[g].pc = "release"
    BY <1>10, HandTyped DEF Release, IInv
  <2>2. /\ row' = IF Stored(e) THEN [row EXCEPT ![e] = [row[e] EXCEPT !.claim = 0, !.attempts = More(row[e].attempts)]]
                              ELSE row
        /\ stripped' = (IF account[e] = NoFile THEN stripped \cup {e} ELSE stripped) /\ UNCHANGED used
        /\ Proceed(g) /\ UNCHANGED <<clock, account, mirror, chains, sub, handed>>
    BY <1>10 DEF Release
  <2> HIDE DEF e
  <2>3. /\ \A d \in Docs \ {e} : row'[d] = row[d]
        /\ \A d \in Docs : Stored(d)' => Stored(d) /\ row'[d].served = row[d].served
    BY <1>t, <2>1, <2>2, StoredTyped DEF IInv, Stored
  <2>4. crossed \subseteq crossed' /\ (e \notin crossed' => account[e] # NoFile)
    BY <2>2 DEF crossed
  <2> QED BY <1>0, <2>1, <2>2, <2>3, <2>4, SettleInv DEF e
<1> QED BY <1>1, <1>2, <1>3, <1>4, <1>5, <1>6, <1>7, <1>8, <1>9, <1>10 DEF CollectorStep

LEMMA InvStep == ASSUME IInv, [Next]_vars PROVE IInv'
<1>1. CASE Next
  BY <1>1, NextSplit, EnvironmentInv, RequestInv, CollectorInv
<1>2. CASE UNCHANGED vars
  <2> USE <1>2 DEF vars, chains, history, crossed
  <2>1. TypeOK'
    BY TypeStep DEF IInv
  <2>2. RunsYoung' /\ ListsNamed' /\ HandClaimed' /\ HandExclusive' /\ KeptKnown' /\ Spared' /\ ForeignInHand'
    BY DEF IInv, RunsYoung, Live, ListsNamed, HandClaimed, HandExclusive, KeptKnown, Spared, ForeignInHand, InHand,
       Listed, Stored
  <2>3. \A d \in Docs : Held(d)' = Held(d) /\ Stored(d)' = Stored(d) /\ Claimed(d)' = Claimed(d) /\ Fresh(d)' = Fresh(d)
    BY HeldSame DEF Stored, Claimed, Fresh
  <2>4. InFlight' /\ ServedSinceHanded' /\ StoredHasFile' /\ FreshSafe' /\ SelectLate' /\ ElsewhereKept'
    BY <2>3 DEF IInv, InFlight, ServedSinceHanded, StoredHasFile, FreshSafe, SelectLate, ElsewhereKept
  <2> QED BY <2>1, <2>2, <2>4 DEF IInv
<1> QED BY <1>1, <1>2

LEMMA Invariant == Spec => []IInv
BY InitInv, InvStep, PTL DEF Spec

-----------------------------------------------------------------------------
(* What holds for any number of overlapping runs.                          *)

\* The tables, the account and the variables of runs and requests keep their
\* types, and a run has a row in hand exactly between its claim and the write
\* that settles it (collectUnreferencedPins).
THEOREM TypeCorrect == Spec => []TypeOK
BY Invariant, PTL DEF IInv

\* A document anchored within the grace of being handed out, or anchored on the
\* other network, keeps its file, unless it was used while a run held it or its
\* claim stood, or a run gave its row back after it had removed the file (PIN_GRACE_SECONDS and
\* COLLECTABLE_WHERE, the question to the other network, markPinDeleting).
THEOREM AnchoredStays == Spec => []AnchoredKept
<1>1. IInv => AnchoredKept
  BY DEF IInv, TypeOK, FreshSafe, Fresh, ElsewhereKept, AnchoredKept
<1> QED BY <1>1, Invariant, PTL

\* An address handed out less than the grace ago that has lost its file was handed
\* out while a run held the document or its claim stood in the row (what
\* HandedPinStays finds), or from a row that a run gave back after it had removed
\* the file (markPinDeleting, releasePinDeleting): two exceptions, and no third.
HandedKept ==
    \A d \in Docs : handed[d] > 0 /\ clock <= handed[d] + Grace /\ account[d] = NoFile => d \in used \/ d \in stripped

THEOREM HandedStays == Spec => []HandedKept
<1>1. IInv => HandedKept
  BY DEF IInv, FreshSafe, Fresh, HandedKept, crossed
<1> QED BY <1>1, Invariant, PTL

\* However many runs overlap, no two have the same document in hand while it is
\* not crossed, and the claim in its row is that of the run that has it
\* (markPinDeleting, with claims taken back from dead runs).
THEOREM ClaimedByOne == Spec => [](HandClaimed /\ HandExclusive)
BY Invariant, PTL DEF IInv

\* A file that is not in our group is never removed, whatever row its id got into
\* and whenever the group was configured (removeFile).
THEOREM ForeignStays == Spec => ForeignKept
<1> DEFINE Safe == \A d \in Docs : account[d] # NoFile /\ ~account[d].group => account'[d] = account[d]
<1>1. ASSUME TypeOK, [Next]_vars PROVE Safe
  <2>t. account \in [Docs -> FileType]
    BY <1>1 DEF TypeOK, FileType
  <2>1. CASE UNCHANGED account
    BY <2>1
  <2>2. ASSUME NEW d \in Docs, PinElsewhere(d) PROVE Safe
    BY <2>t, <2>2 DEF PinElsewhere
  <2>3. ASSUME NEW s \in Submitters, Upload(s) PROVE Safe
    BY <2>t, <2>3 DEF Upload
  <2>4. ASSUME NEW g \in Runs, Remove(g) \/ RemoveFails(g) PROVE Safe
    <3>1. UNCHANGED account \/ (account' = [account EXCEPT ![run[g].pin.doc] = NoFile] /\ account[run[g].pin.doc].group)
      BY <2>4 DEF Remove, RemoveFails, Ours
    <3> QED BY <2>t, <3>1
  <2>5. CASE Tick \/ Configure \/ \E d \in Docs \ Backlog : Anchor(d) \/ AnchorElsewhere(d)
    BY <2>1, <2>5 DEF Tick, Configure, Anchor, AnchorElsewhere
  <2>6. ASSUME NEW s \in Submitters, (\E d \in Docs \ Backlog : Serve(s, d)) \/ Put(s) \/ AbortRequest(s) PROVE Safe
    BY <2>1, <2>6 DEF Serve, Put, AbortRequest
  <2>7. ASSUME NEW g \in Runs, CollectorStep(g), ~(Remove(g) \/ RemoveFails(g)) PROVE Safe
    <3>1. UNCHANGED account
      BY <2>7 DEF CollectorStep, StartRun, Ask, Drop, Select, EndRun, KeepForOther, Claim, Disown, Release, Kill
    <3> QED BY <2>1, <3>1
  <2>8. CASE UNCHANGED vars
    BY <2>1, <2>8 DEF vars
  <2>9. CASE Next
    BY <2>9, <2>2, <2>3, <2>4, <2>5, <2>6, <2>7, NextSplit DEF RequestStep
  <2> QED BY <1>1, <2>8, <2>9
<1>2. TypeOK /\ [Next]_vars => [Safe]_vars
  BY <1>1
<1> QED BY <1>2, TypeCorrect, PTL DEF Spec, ForeignKept

-----------------------------------------------------------------------------
(* Two runs at a time, the crossed documents included.  The phase runs in  *)
(* the heavy pass, every quarter of an hour, and an invocation lives no    *)
(* longer.  With a third run it would fail: g and h list d, the third asks *)
(* after d is anchored on the other network and disowns the row that g has *)
(* claimed, and h claims it.                                               *)

AtMostTwo == \A g, h, k \in Runs : g = h \/ g = k \/ h = k

PairExclusive == \A g, h \in Runs, d \in Docs : InHand(g, d) /\ InHand(h, d) => g = h
PairInv == OnePin /\ HandOwned /\ PairExclusive

\* A step that puts no document in reach, and touches no row in hand.
LEMMA PairKept ==
    ASSUME PairInv,
           \A h \in Runs : run'[h].todo \subseteq run[h].todo,
           \A h \in Runs, d \in Docs : InHand(h, d)' =>
               /\ InHand(h, d) /\ run'[h].now = run[h].now
               /\ row'[d].claim = row[d].claim /\ row'[d].file = row[d].file /\ Stored(d)'
    PROVE  PairInv'
<1>1. OnePin'
  BY DEF PairInv, OnePin
<1>2. PairExclusive'
  BY DEF PairInv, PairExclusive
<1>3. \A h \in Runs, d \in Docs : Holds(h, d)' => Holds(h, d)
  BY DEF Holds, InHand
<1>4. HandOwned'
  <2> SUFFICES ASSUME NEW g \in Runs, NEW d \in Docs, InHand(g, d)' PROVE Owned(g, d)'
    BY DEF HandOwned
  <2>1. Owned(g, d)
    BY DEF PairInv, HandOwned
  <2> QED BY <1>3, <2>1 DEF Owned
<1> QED BY <1>1, <1>2, <1>4 DEF PairInv

\* A row in hand cannot be claimed by a run that lists it.
LEMMA OwnedNotFree ==
    ASSUME IInv, PairInv, NEW g \in Runs, NEW h \in Runs, g # h, NEW d \in Docs, InHand(g, d), Live(h)
    PROVE  /\ row[d].file > 0 => ~Free(d, run[h].now)
           /\ Holds(h, d) => row[d].claim = run[g].now /\ ~Free(d, run[h].now)
<1>1. Live(g)
  BY NobodyIsNone DEF IInv, TypeOK, InHand, Live
<1>2. run[g].now \in 1..clock /\ clock <= run[g].now + Life /\ run[h].now \in 1..clock /\ clock \in 1..MaxClock
  BY <1>1 DEF IInv, RunsYoung, TypeOK
<1>3. row[d].claim = run[g].now => ~Free(d, run[h].now)
  BY <1>2, PinsAssumption DEF PinsAssumption, Free
<1>4. Owned(g, d)
  BY DEF PairInv, HandOwned
<1> QED BY <1>3, <1>4 DEF Owned

LEMMA PairSelect == ASSUME IInv, PairInv, NEW g \in Runs, Select(g) PROVE PairInv'
<1>1. PICK B \in Batches(run[g].now) :
        run' = [run EXCEPT ![g] = [run[g] EXCEPT !.pc = "ask", !.todo = {[doc |-> d, file |-> row[d].file] : d \in B}]]
  BY DEF Select
<1>2. run[g].pc = "select" /\ UNCHANGED row /\ B \subseteq Collectable(run[g].now) /\ Live(g)
  BY DEF Select, Batches, Live
<1> DEFINE T == {[doc |-> d, file |-> row[d].file] : d \in B}
<1>3. /\ \A p \in T : p.doc \in Collectable(run[g].now)
      /\ \A p, q \in T : p.doc = q.doc => p = q
  BY <1>2
<1>4. /\ \A h \in Runs \ {g} : run'[h] = run[h]
      /\ run'[g].todo = T /\ run'[g].now = run[g].now /\ run'[g].pin = run[g].pin
  <2>1. run[g] \in RunType /\ run \in [Runs -> RunType]
    BY DEF IInv, TypeOK, RunType
  <2> HIDE DEF T
  <2>2. run' = [run EXCEPT ![g] = [run[g] EXCEPT !.pc = "ask", !.todo = T]]
    BY <1>1 DEF T
  <2> QED BY <2>1, <2>2 DEF RunType
<1> HIDE DEF T
<1>5. \A h \in Runs, d \in Docs : InHand(h, d)' = InHand(h, d) /\ run'[h].now = run[h].now
  BY <1>4 DEF InHand
<1>6. OnePin'
  BY <1>3, <1>4 DEF PairInv, OnePin
<1>7. PairExclusive'
  BY <1>5 DEF PairInv, PairExclusive
<1>8. ASSUME NEW k \in Runs, NEW d \in Docs, InHand(k, d) PROVE Owned(k, d)'
  <2>1. Owned(k, d)
    BY <1>8 DEF PairInv, HandOwned
  <2>2. k # g
    BY <1>2, <1>8, NobodyIsNone DEF IInv, TypeOK, InHand
  <2>3. d \notin Collectable(run[g].now)
    BY <1>2, <1>8, <2>2, OwnedNotFree DEF Collectable
  <2>4. \A h \in Runs : Holds(h, d)' => Holds(h, d)
    BY <1>3, <1>4, <2>3 DEF Holds
  <2> QED BY <1>2, <1>5, <2>1, <2>4 DEF Owned, Stored
<1> QED BY <1>5, <1>6, <1>7, <1>8 DEF PairInv, HandOwned

\* A run that disowns what the other has in hand holds it no more, and the other
\* is then the only one.
LEMMA PairKeepForOther ==
    ASSUME AtMostTwo, IInv, PairInv, NEW g \in Runs, NEW p \in run[g].todo, KeepForOther(g, p)
    PROVE  PairInv'
<1> DEFINE e == p.doc
<1>t. run[g] \in RunType /\ run \in [Runs -> RunType] /\ row \in [Docs -> RowType] /\ e \in Docs
  BY DEF IInv, TypeOK, RunType, Pin
<1>1. /\ run[g].pc = "next" /\ Live(g) /\ row' = Disowned(e)
      /\ run' = [run EXCEPT ![g] = [run[g] EXCEPT !.todo = run[g].todo \ {p}]]
  BY DEF KeepForOther, Live
<1>2. /\ \A h \in Runs \ {g} : run'[h] = run[h]
      /\ run'[g].todo = run[g].todo \ {p} /\ run'[g].now = run[g].now /\ run'[g].pin = run[g].pin
  BY <1>t, <1>1 DEF RunType
<1>3. \A d \in Docs : ~InHand(g, d)
  BY <1>1, NobodyIsNone DEF IInv, TypeOK, InHand
<1>e. p.doc = e
  OBVIOUS
<1> HIDE DEF e
<1>4. /\ \A d \in Docs \ {e} : row'[d] = row[d]
      /\ Stored(e) => Stored(e)' /\ row'[e].file = 0 /\ row'[e].claim = 0
  BY <1>t, <1>1, StoredTyped DEF IInv, Disowned, Stored
<1>5. \A h \in Runs, d \in Docs : InHand(h, d)' = InHand(h, d) /\ run'[h].now = run[h].now
  BY <1>2 DEF InHand
<1>6. OnePin' /\ PairExclusive'
  BY <1>2, <1>5 DEF PairInv, OnePin, PairExclusive
<1>7. ASSUME NEW k \in Runs, NEW d \in Docs, InHand(k, d) PROVE Owned(k, d)'
  <2>1. Owned(k, d) /\ k # g
    BY <1>3, <1>7 DEF PairInv, HandOwned
  <2>2. CASE d = e
    <3>1. ASSUME NEW h \in Runs, h # k PROVE ~Holds(h, e)'
      <4>1. h = g
        BY <2>1, <3>1 DEF AtMostTwo
      <4>2. \A q \in run'[g].todo : q.doc # e
        BY <1>2, <1>e DEF PairInv, OnePin
      <4> QED BY <1>2, <1>3, <1>t, <4>1, <4>2 DEF Holds, InHand
    <3>2. Stored(e)
      BY <2>1, <2>2 DEF Owned
    <3> QED BY <1>4, <2>2, <3>1, <3>2 DEF Owned
  <2>3. CASE d # e
    <3>1. \A h \in Runs : Holds(h, d)' => Holds(h, d)
      BY <1>2 DEF Holds
    <3> QED BY <1>4, <1>5, <2>1, <2>3, <3>1 DEF Owned, Stored
  <2> QED BY <2>2, <2>3
<1> QED BY <1>5, <1>6, <1>7 DEF PairInv, HandOwned

LEMMA PairClaim ==
    ASSUME IInv, PairInv, NEW g \in Runs, NEW p \in run[g].todo, Claim(g, p)
    PROVE  PairInv'
<1> DEFINE e == p.doc
           none == [run[g] EXCEPT !.todo = run[g].todo \ {p}, !.pc = "next", !.pin = NoPin]
           mine == [run[g] EXCEPT !.todo = run[g].todo \ {p}, !.pc = "remove", !.pin = p]
<1>t. run[g] \in RunType /\ run \in [Runs -> RunType] /\ row \in [Docs -> RowType] /\ e \in Docs
  BY DEF IInv, TypeOK, RunType, Pin
<1>1. run[g].pc = "next" /\ Live(g) /\ Holds(g, e)
  BY DEF Claim, Live, Holds
<1>2. \A d \in Docs : ~InHand(g, d)
  BY <1>1, NobodyIsNone DEF IInv, TypeOK, InHand
<1>3. CASE ~Claimable(e, run[g].now)
  <2>1. run' = [run EXCEPT ![g] = none] /\ UNCHANGED row
    BY <1>3 DEF Claim
  <2>2. /\ \A h \in Runs \ {g} : run'[h] = run[h]
        /\ run'[g].todo = run[g].todo \ {p} /\ run'[g].pin = NoPin
    BY <1>t, <2>1 DEF RunType
  <2>3. \A h \in Runs : run'[h].todo \subseteq run[h].todo
    BY <2>2
  <2>4. \A h \in Runs, d \in Docs : InHand(h, d)' => InHand(h, d) /\ run'[h] = run[h] /\ Stored(d)
    BY <2>2, NobodyIsNone DEF InHand, PairInv, HandOwned, Owned
  <2> QED BY <2>1, <2>3, <2>4, PairKept DEF Stored
<1>4. CASE Claimable(e, run[g].now)
  <2>1. /\ run' = [run EXCEPT ![g] = mine]
        /\ row' = [row EXCEPT ![e] = [row[e] EXCEPT !.claim = run[g].now]]
        /\ Stored(e) /\ Free(e, run[g].now)
    BY <1>4 DEF Claim, Claimable
  <2>2. /\ \A h \in Runs \ {g} : run'[h] = run[h]
        /\ run'[g].todo = run[g].todo \ {p} /\ run'[g].pin = p /\ run'[g].now = run[g].now
    BY <1>t, <2>1 DEF RunType
  <2>0. p.doc = e
    OBVIOUS
  <2> HIDE DEF e, mine
  <2>3. /\ \A d \in Docs \ {e} : row'[d] = row[d]
        /\ row'[e].claim = run[g].now /\ Stored(e)'
    BY <1>t, <2>1, StoredTyped DEF IInv, Stored
  <2>4. \A h \in Runs : ~InHand(h, e)
    BY <1>1, <1>2, <1>t, <2>1, OwnedNotFree
  <2>5. /\ \A h \in Runs \ {g}, d \in Docs : InHand(h, d)' = InHand(h, d)
        /\ \A d \in Docs : InHand(g, d)' => d = e
    BY <2>0, <2>2 DEF InHand
  <2>6. OnePin'
    BY <2>2 DEF PairInv, OnePin
  <2>7. PairExclusive'
    <3> SUFFICES ASSUME NEW h \in Runs, NEW k \in Runs, NEW d \in Docs, InHand(h, d)', InHand(k, d)', h # k
                 PROVE  FALSE
      BY DEF PairExclusive
    <3>1. CASE h = g \/ k = g
      BY <2>4, <2>5, <3>1
    <3>2. CASE h # g /\ k # g
      BY <2>5, <3>2 DEF PairInv, PairExclusive
    <3> QED BY <3>1, <3>2
  <2>8. ASSUME NEW k \in Runs, NEW d \in Docs, InHand(k, d)' PROVE Owned(k, d)'
    <3>1. CASE k = g
      BY <2>2, <2>3, <2>5, <2>8, <3>1 DEF Owned
    <3>2. CASE k # g
      <4>1. InHand(k, d) /\ d # e
        BY <2>4, <2>5, <2>8, <3>2
      <4>2. Owned(k, d)
        BY <4>1 DEF PairInv, HandOwned
      <4>3. \A h \in Runs : Holds(h, d)' => Holds(h, d)
        <5> SUFFICES ASSUME NEW h \in Runs, Holds(h, d)' PROVE Holds(h, d)
          OBVIOUS
        <5>1. CASE h = g
          BY <2>0, <2>2, <4>1, <5>1 DEF Holds
        <5>2. CASE h # g
          BY <2>2, <5>2 DEF Holds
        <5> QED BY <5>1, <5>2
      <4> QED BY <2>2, <2>3, <3>2, <4>1, <4>2, <4>3 DEF Owned, Stored
    <3> QED BY <3>1, <3>2
  <2> QED BY <2>6, <2>7, <2>8 DEF PairInv, HandOwned
<1> QED BY <1>3, <1>4

\* The other steps of a run touch no row but that in its own hand.
LEMMA PairQuiet ==
    ASSUME IInv, PairInv, NEW g \in Runs, NEW q, run' = [run EXCEPT ![g] = q],
           q.todo \subseteq run[g].todo, q.pin \in {run[g].pin, NoPin},
           \/ UNCHANGED row /\ (q.now = run[g].now \/ q.pin = NoPin)
           \/ q.pin = NoPin /\ \A d \in Docs \ {run[g].pin.doc} : row'[d] = row[d]
    PROVE  PairInv'
<1>1. run'[g] = q /\ \A h \in Runs \ {g} : run'[h] = run[h]
  BY DEF IInv, TypeOK
<1>2. \A h \in Runs : run'[h].todo \subseteq run[h].todo
  BY <1>1
<1>3. ASSUME NEW h \in Runs, NEW d \in Docs, InHand(h, d)'
      PROVE  /\ InHand(h, d) /\ run'[h].now = run[h].now
             /\ row'[d].claim = row[d].claim /\ row'[d].file = row[d].file /\ Stored(d)'
  <2>1. InHand(h, d)
    BY <1>1, <1>3, NobodyIsNone DEF InHand
  <2>2. Stored(d)
    BY <2>1 DEF PairInv, HandOwned, Owned
  <2>3. q.pin = NoPin => h # g
    BY <1>1, <1>3, NobodyIsNone DEF InHand
  <2>4. h # g => ~InHand(g, d)
    BY <2>1 DEF PairInv, PairExclusive
  <2>5. row'[d] = row[d]
    BY <2>3, <2>4 DEF InHand
  <2> QED BY <1>1, <2>1, <2>2, <2>3, <2>5 DEF Stored
<1> QED BY <1>2, <1>3, PairKept

LEMMA PairCollector == ASSUME AtMostTwo, IInv, PairInv, NEW g \in Runs, CollectorStep(g) PROVE PairInv'
<1>t. run[g] \in RunType /\ row \in [Docs -> RowType] /\ Resting.todo = {} /\ Resting.pin = NoPin
  BY DEF IInv, TypeOK, RunType, Resting
<1>m. ASSUME NEW c \in RunPcs, run' = [run EXCEPT ![g] = [run[g] EXCEPT !.pc = c]], UNCHANGED row PROVE PairInv'
  <2> DEFINE q == [run[g] EXCEPT !.pc = c]
  <2>1. q.todo = run[g].todo /\ q.pin = run[g].pin /\ q.now = run[g].now
    BY <1>t DEF RunType
  <2>2. run' = [run EXCEPT ![g] = q]
    BY <1>m
  <2> HIDE DEF q
  <2> QED BY <1>m, <2>1, <2>2, PairQuiet
<1>n. ASSUME Proceed(g), \A d \in Docs \ {run[g].pin.doc} : row'[d] = row[d] PROVE PairInv'
  <2> DEFINE q == [run[g] EXCEPT !.pc = "next", !.pin = NoPin]
  <2>1. q.todo = run[g].todo /\ q.pin = NoPin
    BY <1>t DEF RunType
  <2>2. run' = [run EXCEPT ![g] = q]
    BY <1>n DEF Proceed
  <2> HIDE DEF q
  <2> QED BY <1>n, <2>1, <2>2, PairQuiet
<1>r. ASSUME run' = [run EXCEPT ![g] = Resting], UNCHANGED row PROVE PairInv'
  BY <1>r, <1>t, PairQuiet
<1>1. ASSUME NEW ok \in BOOLEAN, StartRun(g, ok) PROVE PairInv'
  <2> DEFINE q == [Resting EXCEPT !.pc = "select", !.now = clock]
  <2>1. q.todo = {} /\ q.pin = NoPin
    BY DEF Resting
  <2>2. (run' = [run EXCEPT ![g] = q] \/ run' = [run EXCEPT ![g] = run[g]]) /\ UNCHANGED row
    BY <1>1 DEF StartRun, IInv, TypeOK
  <2> HIDE DEF q
  <2> QED BY <2>1, <2>2, PairQuiet
<1>3. ASSUME NEW ok \in BOOLEAN, Ask(g, ok) PROVE PairInv'
  <2> DEFINE q == [run[g] EXCEPT !.pc = "next", !.kept = elsewhere]
  <2>1. q.todo = run[g].todo /\ q.pin = run[g].pin /\ q.now = run[g].now
    BY <1>t DEF RunType
  <2>2. (run' = [run EXCEPT ![g] = q] \/ run' = [run EXCEPT ![g] = Resting]) /\ UNCHANGED row
    BY <1>3 DEF Ask
  <2> HIDE DEF q
  <2> QED BY <1>r, <2>1, <2>2, PairQuiet
<1>6. CASE EndRun(g) \/ Kill(g)
  BY <1>6, <1>r DEF EndRun, Kill
<1>7. CASE Remove(g) \/ RemoveFails(g)
  <2>1. UNCHANGED row /\ \E c \in RunPcs : run' = [run EXCEPT ![g] = [run[g] EXCEPT !.pc = c]]
    BY <1>7 DEF Remove, RemoveFails, RunPcs
  <2> QED BY <1>m, <2>1
<1>8. ASSUME NEW ok \in BOOLEAN, Drop(g, ok) PROVE PairInv'
  <2>1. CASE ok
    BY <1>8, <1>n, <1>t, <2>1 DEF Drop
  <2>2. CASE ~ok
    BY <1>8, <1>m, <2>2 DEF Drop, RunPcs
  <2> QED BY <2>1, <2>2
<1>9. ASSUME NEW ok \in BOOLEAN, Disown(g, ok) PROVE PairInv'
  <2>1. CASE ok
    BY <1>9, <1>n, <1>t, <2>1 DEF Disown, Disowned
  <2>2. CASE ~ok
    BY <1>9, <1>m, <2>2 DEF Disown, RunPcs
  <2> QED BY <2>1, <2>2
<1>10. CASE Release(g)
  BY <1>10, <1>n, <1>t DEF Release
<1> QED BY <1>1, <1>3, <1>6, <1>7, <1>8, <1>9, <1>10, PairSelect, PairKeepForOther, PairClaim DEF CollectorStep

\* The other actors touch no claim, and no run.
LEMMA PairOthers ==
    ASSUME IInv, PairInv, UNCHANGED run,
           \A d \in Docs : Stored(d) => Stored(d)' /\ row'[d].claim = row[d].claim /\ row'[d].file = row[d].file
    PROVE  PairInv'
<1>1. \A h \in Runs, d \in Docs : InHand(h, d)' => InHand(h, d) /\ Stored(d)
  BY DEF InHand, PairInv, HandOwned, Owned
<1> QED BY <1>1, PairKept

LEMMA PairStep == ASSUME AtMostTwo, IInv, PairInv, [Next]_vars PROVE PairInv'
<1>t. row \in [Docs -> RowType] /\ clock \in 1..MaxClock
  BY DEF IInv, TypeOK
<1>1. CASE UNCHANGED <<run, row>>
  BY <1>1, PairOthers DEF Stored
<1>2. ASSUME NEW s \in Submitters, NEW d \in Docs, Serve(s, d) PROVE PairInv'
  <2>1. CASE UNCHANGED row
    BY <1>1, <1>2, <2>1 DEF Serve
  <2>2. CASE Stored(d) /\ row' = [row EXCEPT ![d].served = clock]
    <3>1. /\ row'[d].served = clock /\ row'[d].claim = row[d].claim /\ row'[d].file = row[d].file
          /\ \A e \in Docs \ {d} : row'[e] = row[e]
      BY <1>t, <2>2, StoredTyped DEF IInv
    <3>2. UNCHANGED run
      BY <1>2 DEF Serve
    <3> QED BY <1>t, <3>1, <3>2, PairOthers DEF Stored
  <2> QED BY <1>2, <2>1, <2>2 DEF Serve
<1>3. ASSUME NEW s \in Submitters, Put(s) PROVE PairInv'
  <2>1. UNCHANGED run /\ \A d \in Docs : Stored(d) => row'[d] = row[d]
    BY <1>3, <1>t DEF Put
  <2> QED BY <2>1, PairOthers DEF Stored
<1>4. ASSUME NEW g \in Runs, CollectorStep(g) PROVE PairInv'
  BY <1>4, PairCollector
<1>5. ASSUME NEW s \in Submitters, Upload(s) \/ AbortRequest(s) PROVE PairInv'
  BY <1>1, <1>5 DEF Upload, AbortRequest
<1>6. CASE Tick \/ Configure \/ (\E d \in Docs \ Backlog : Anchor(d) \/ PinElsewhere(d) \/ AnchorElsewhere(d))
  BY <1>1, <1>6 DEF Tick, Configure, Anchor, PinElsewhere, AnchorElsewhere
<1>7. CASE UNCHANGED vars
  BY <1>1, <1>7 DEF vars
<1>8. CASE Next
  BY <1>2, <1>3, <1>4, <1>5, <1>6, <1>8, NextSplit DEF RequestStep
<1> QED BY <1>7, <1>8

\* With at most two runs alive at a time, no two have the same document in hand,
\* whatever was used meanwhile: "two overlapping cron ticks cannot both delete the
\* same file" (markPinDeleting, collectUnreferencedPins).
THEOREM TwoRunsExclude == AtMostTwo => (Spec => []ClaimsExclusive)
<1> SUFFICES ASSUME AtMostTwo PROVE Spec => []ClaimsExclusive
  OBVIOUS
<1>1. Init => PairInv
  BY NobodyIsNone DEF Init, PairInv, OnePin, HandOwned, PairExclusive, InHand, Resting
<1>2. IInv /\ PairInv /\ [Next]_vars => PairInv'
  BY PairStep
<1>3. IInv /\ PairInv => ClaimsExclusive
  <2> SUFFICES ASSUME IInv, PairInv, NEW g \in Runs, NEW h \in Runs, g # h, run[g].pin # NoPin
               PROVE  run[g].pin.doc # run[h].pin.doc
    BY DEF ClaimsExclusive
  <2>1. run[g].pin.doc \in Docs
    BY DEF IInv, TypeOK, Pin
  <2> QED BY <2>1 DEF PairInv, PairExclusive, InHand
<1> QED BY <1>1, <1>2, <1>3, Invariant, PTL DEF Spec
=============================================================================

------------------------------- MODULE Pins -------------------------------
(***************************************************************************)
(* Governance documents pinned on a shared file account: the handlers that *)
(* pin a document or hand its address out again (infoActionMetadataHandler *)
(* and constitutionDocumentHandler over db/govActionMetadata.ts and        *)
(* pinata.ts), and the collector that removes the pins no governance       *)
(* action anchors (pinCollector.ts, the pin-gc phase).  The account is     *)
(* shared with the deployment on the other network, which stores identical *)
(* bytes as the same file.                                                 *)
(*                                                                         *)
(* A tick is longer than a request.  A collector run ends within Life      *)
(* ticks, the cap on an invocation.  The collector of the other network is *)
(* left out.                                                               *)
(***************************************************************************)
EXTENDS Integers, FiniteSets

\* As elsewhere, operators whose names contain _Bug are plausible bugs of the
\* definition after them, used by nothing: each property is shown to fail on one.

CONSTANTS
    Docs,        \* documents, by the hash of their bytes
    Backlog,     \* those stored long ago that nobody asks for again
    Runs,        \* collector runs alive at the same time
    Submitters,  \* requests in flight at the same time
    Poison,      \* documents whose file the account never lets go
    BacklogFile, \* the files of the backlog
    Limit,       \* PIN_GC_LIMIT
    Grace,       \* PIN_GRACE_SECONDS in ticks
    Lease,       \* PIN_STALE_CLAIM_SECONDS in ticks
    Life,        \* the longest a run lives, in ticks
    MaxClock,    \* bound on time
    MaxFiles,    \* bound on the files ever stored
    MaxAttempts, \* bound on delete_attempts
    MaxFaults    \* bound on failed calls and killed processes

ASSUME PinsAssumption ==
    /\ Limit \in Nat \ {0} /\ Grace \in Nat /\ Lease \in Nat /\ Life \in Nat
    /\ Life <= Lease
    /\ Backlog \subseteq Docs /\ BacklogFile \in [Backlog -> 1..Cardinality(Backlog)] /\ "none" \notin Docs
    /\ Cardinality(Backlog) \in 0..MaxFiles
    /\ MaxClock \in Nat \ {0} /\ MaxFiles \in Nat /\ MaxAttempts \in Nat /\ MaxFaults \in Nat

VARIABLES
    clock,
    grouped,    \* a Pinata group is configured
    account,    \* account[d]: the file with the bytes of d
    files,      \* files stored so far; their ids are 1..files
    row,        \* gov_action_metadata
    anchored,   \* documents anchored on chain
    mirror,     \* documents governance_actions knows to be anchored
    elsewhere,  \* documents anchored on the other network
    run,        \* the collector runs
    sub,        \* the requests
    handed,     \* history: when the address of d was last handed out, 0 if never
    used,       \* history: documents handed out, or anchored elsewhere, while a
                \* run held them or a claim stood in their row
    stripped,   \* history: documents whose row was released after their file went
    faults

vars == <<clock, grouped, account, files, row, anchored, mirror, elsewhere, run, sub, handed, used, stripped, faults>>
chains == <<anchored, elsewhere>>
history == <<handed, used, stripped>>

\* The documents the grace does not protect.
crossed == used \cup stripped

NoFile == [id |-> 0, group |-> FALSE]
NoRow == [file |-> 0, claim |-> 0, served |-> 0, attempts |-> 0]
Row(f, now) == [file |-> f, claim |-> 0, served |-> now, attempts |-> 0]
NoPin == [doc |-> "none", file |-> 0]
Resting == [pc |-> "idle", now |-> 0, todo |-> {}, kept |-> {}, pin |-> NoPin]
NoRequest == [pc |-> "idle", doc |-> "none", file |-> 0]

Init ==
    /\ clock = 1 /\ grouped = FALSE
    /\ account = [d \in Docs |-> IF d \in Backlog THEN [id |-> BacklogFile[d], group |-> FALSE] ELSE NoFile]
    /\ files = Cardinality(Backlog)
    /\ row = [d \in Docs |-> IF d \in Backlog THEN Row(BacklogFile[d], 1) ELSE NoRow]
    /\ anchored = {} /\ mirror = {} /\ elsewhere = {}
    /\ run = [g \in Runs |-> Resting] /\ sub = [s \in Submitters |-> NoRequest]
    /\ handed = [d \in Docs |-> 0] /\ used = {} /\ stripped = {}
    /\ faults = 0

Stored(d) == row[d].served > 0
Claimed(d) == row[d].claim > 0
Live(g) == run[g].pc # "idle"
Fault == faults < MaxFaults /\ faults' = faults + 1

\* A run has d on its list or in hand.
Holds(g, d) == run[g].pin.doc = d \/ \E p \in run[g].todo : p.doc = d
Held(d) == \E g \in Runs : Holds(g, d)

-----------------------------------------------------------------------------
(* Time, the chains and the account.                                       *)

Tick ==
    /\ clock < MaxClock
    /\ \A g \in Runs : Live(g) => clock < run[g].now + Life
    /\ \A s \in Submitters : sub[s].pc = "idle"
    /\ clock' = clock + 1
    /\ UNCHANGED <<grouped, account, files, row, mirror, chains, run, sub, history, faults>>

\* A proposer who was handed a document anchors it before the grace is over.
Anchor(d) ==
    /\ d \notin anchored /\ handed[d] > 0 /\ clock <= handed[d] + Grace
    /\ anchored' = anchored \cup {d}
    /\ UNCHANGED <<clock, grouped, account, files, row, mirror, elsewhere, run, sub, history, faults>>

\* The other deployment pins the same bytes, in the same group.
PinElsewhere(d) ==
    /\ account[d] = NoFile /\ files < MaxFiles
    /\ files' = files + 1
    /\ account' = [account EXCEPT ![d] = [id |-> files', group |-> TRUE]]
    /\ UNCHANGED <<clock, grouped, row, mirror, chains, run, sub, history, faults>>

AnchorElsewhere(d) ==
    /\ d \notin elsewhere /\ account[d] # NoFile
    /\ elsewhere' = elsewhere \cup {d}
    /\ used' = IF Held(d) THEN used \cup {d} ELSE used
    /\ UNCHANGED <<clock, grouped, account, files, row, anchored, mirror, run, sub, handed, stripped, faults>>

\* The operator configures the group; earlier uploads stay outside it.
Configure ==
    /\ ~grouped /\ grouped' = TRUE
    /\ UNCHANGED <<clock, account, files, row, mirror, chains, run, sub, history, faults>>

-----------------------------------------------------------------------------
(* A request that hosts a document.                                        *)

\* serveGovActionMetadata: a claimed row reads as absent.
Serve(s, d) ==
    /\ sub[s].pc = "idle"
    /\ IF Stored(d) /\ ~Claimed(d)
         THEN /\ row' = [row EXCEPT ![d].served = clock]
              /\ handed' = [handed EXCEPT ![d] = clock]
              /\ used' = IF Held(d) THEN used \cup {d} ELSE used
              /\ UNCHANGED sub
         ELSE /\ sub' = [sub EXCEPT ![s] = [pc |-> "upload", doc |-> d, file |-> 0]]
              /\ used' = IF Claimed(d) THEN used \cup {d} ELSE used
              /\ UNCHANGED <<row, handed>>
    /\ UNCHANGED <<clock, grouped, account, files, mirror, chains, run, stripped, faults>>

\* Identical bytes are the file that exists, which may not be ours: its id is
\* not recorded.
Upload(s) ==
    LET d == sub[s].doc IN
    /\ sub[s].pc = "upload"
    /\ IF account[d] # NoFile
         THEN /\ sub' = [sub EXCEPT ![s].pc = "put"]
              /\ UNCHANGED <<account, files>>
         ELSE /\ files < MaxFiles /\ files' = files + 1
              /\ account' = [account EXCEPT ![d] = [id |-> files', group |-> grouped]]
              /\ sub' = [sub EXCEPT ![s] = [sub[s] EXCEPT !.pc = "put", !.file = files']]
    /\ UNCHANGED <<clock, grouped, row, mirror, chains, run, history, faults>>

\* INSERT OR IGNORE, and the answer.
Put(s) ==
    LET d == sub[s].doc IN
    /\ sub[s].pc = "put"
    /\ row' = IF Stored(d) THEN row ELSE [row EXCEPT ![d] = Row(sub[s].file, clock)]
    /\ handed' = [handed EXCEPT ![d] = clock]
    /\ used' = IF Held(d) \/ Claimed(d) THEN used \cup {d} ELSE used
    /\ sub' = [sub EXCEPT ![s] = NoRequest]
    /\ UNCHANGED <<clock, grouped, account, files, mirror, chains, run, stripped, faults>>

AbortRequest(s) ==
    /\ sub[s].pc # "idle"
    /\ sub' = [sub EXCEPT ![s] = NoRequest]
    /\ UNCHANGED <<clock, grouped, account, files, row, mirror, chains, run, history, faults>>

-----------------------------------------------------------------------------
(* A collector run.                                                        *)

CollectsAfter_Bug(ok) == TRUE

\* The phase stands down when discovery lost an import.
CollectsAfter(ok) == ok

\* Discovery, with or without a lost import; a run without a group has no phase.
StartRun(g, ok) ==
    /\ run[g].pc = "idle" /\ grouped
    /\ IF ok THEN mirror' = anchored /\ UNCHANGED faults
             ELSE Fault /\ \E A \in SUBSET (anchored \ mirror) : mirror' = mirror \cup A
    /\ run' = IF CollectsAfter(ok) THEN [run EXCEPT ![g] = [Resting EXCEPT !.pc = "select", !.now = clock]]
                                   ELSE run
    /\ UNCHANGED <<clock, grouped, account, files, row, chains, sub, history>>

Free(d, now) == row[d].claim = 0 \/ row[d].claim < now - Lease

\* COLLECTABLE_WHERE
Collectable(now) ==
    {d \in Docs : /\ Stored(d) /\ row[d].file > 0
                  /\ Free(d, now) /\ row[d].served < now - Grace
                  /\ d \notin mirror}

Before_Bug(d, e) == row[d].served < row[e].served

\* ORDER BY delete_attempts, last_served_at
Before(d, e) ==
    \/ row[d].attempts < row[e].attempts
    \/ row[d].attempts = row[e].attempts /\ row[d].served < row[e].served

\* A batch of the query: no row left out comes before one in it.
Batches(now) ==
    LET C == Collectable(now) IN
    {B \in SUBSET C : /\ Cardinality(B) <= Limit
                      /\ B = C \/ Cardinality(B) = Limit
                      /\ \A d \in B, e \in C \ B : ~Before(e, d)}

Select(g) ==
    /\ run[g].pc = "select"
    /\ \E B \in Batches(run[g].now) :
         run' = [run EXCEPT ![g] = [run[g] EXCEPT !.pc = "ask",
                   !.todo = {[doc |-> d, file |-> row[d].file] : d \in B}]]
    /\ UNCHANGED <<clock, grouped, account, files, row, mirror, chains, sub, history, faults>>

\* One question for the batch; without an answer nothing is deleted.
Ask(g, ok) ==
    /\ run[g].pc = "ask"
    /\ IF ok THEN run' = [run EXCEPT ![g] = [run[g] EXCEPT !.pc = "next", !.kept = elsewhere]] /\ UNCHANGED faults
             ELSE run' = [run EXCEPT ![g] = Resting] /\ Fault
    /\ UNCHANGED <<clock, grouped, account, files, row, mirror, chains, sub, history>>

\* UPDATE ... WHERE hash = ?: nothing happens to a row that is gone.
Disowned(d) == IF Stored(d) THEN [row EXCEPT ![d] = [row[d] EXCEPT !.file = 0, !.claim = 0]] ELSE row

KeepForOther(g, p) ==
    /\ run[g].pc = "next" /\ p \in run[g].todo /\ p.doc \in run[g].kept
    /\ row' = Disowned(p.doc)
    /\ run' = [run EXCEPT ![g] = [run[g] EXCEPT !.todo = run[g].todo \ {p}]]
    /\ UNCHANGED <<clock, grouped, account, files, mirror, chains, sub, history, faults>>

Claimable_Bug(d, now) == Stored(d)

Claimable(d, now) == Stored(d) /\ Free(d, now)

\* markPinDeleting: the claim looks at the claim alone.
Claim(g, p) ==
    LET mine == Claimable(p.doc, run[g].now) IN
    /\ run[g].pc = "next" /\ p \in run[g].todo /\ p.doc \notin run[g].kept
    /\ row' = IF mine THEN [row EXCEPT ![p.doc] = [row[p.doc] EXCEPT !.claim = run[g].now]] ELSE row
    /\ run' = [run EXCEPT ![g] = [run[g] EXCEPT
                 !.todo = run[g].todo \ {p},
                 !.pc = IF mine THEN "remove" ELSE "next",
                 !.pin = IF mine THEN p ELSE NoPin]]
    /\ UNCHANGED <<clock, grouped, account, files, mirror, chains, sub, history, faults>>

EndRun(g) ==
    /\ run[g].pc = "next" /\ run[g].todo = {}
    /\ run' = [run EXCEPT ![g] = Resting]
    /\ UNCHANGED <<clock, grouped, account, files, row, mirror, chains, sub, history, faults>>

Ours_Bug(f) == TRUE

\* The ownership test of removeFile.
Ours(f) == f.group

\* removeFile: the file is gone already, is not ours, or is removed.
Remove(g) ==
    LET p == run[g].pin
        f == account[p.doc]
    IN
    /\ run[g].pc = "remove" /\ p.doc \notin Poison
    /\ \/ /\ f.id # p.file
          /\ run' = [run EXCEPT ![g] = [run[g] EXCEPT !.pc = "drop"]]
          /\ UNCHANGED account
       \/ /\ f.id = p.file /\ ~Ours(f)
          /\ run' = [run EXCEPT ![g] = [run[g] EXCEPT !.pc = "disown"]]
          /\ UNCHANGED account
       \/ /\ f.id = p.file /\ Ours(f)
          /\ account' = [account EXCEPT ![p.doc] = NoFile]
          /\ run' = [run EXCEPT ![g] = [run[g] EXCEPT !.pc = "drop"]]
    /\ UNCHANGED <<clock, grouped, files, row, mirror, chains, sub, history, faults>>

\* The call fails, or its answer is lost after the file went.
RemoveFails(g) ==
    LET p == run[g].pin
        f == account[p.doc]
    IN
    /\ run[g].pc = "remove"
    /\ \/ p.doc \in Poison /\ UNCHANGED <<account, faults>>
       \/ p.doc \notin Poison /\ Fault
          /\ \/ UNCHANGED account
             \/ f.id = p.file /\ Ours(f) /\ account' = [account EXCEPT ![p.doc] = NoFile]
    /\ run' = [run EXCEPT ![g] = [run[g] EXCEPT !.pc = "release"]]
    /\ UNCHANGED <<clock, grouped, files, row, mirror, chains, sub, history>>

Proceed(g) == run' = [run EXCEPT ![g] = [run[g] EXCEPT !.pc = "next", !.pin = NoPin]]

\* deleteGovActionMetadata; a failure releases the claim.
Drop(g, ok) ==
    /\ run[g].pc = "drop"
    /\ IF ok THEN row' = [row EXCEPT ![run[g].pin.doc] = NoRow] /\ Proceed(g) /\ UNCHANGED faults
             ELSE run' = [run EXCEPT ![g] = [run[g] EXCEPT !.pc = "release"]] /\ UNCHANGED row /\ Fault
    /\ UNCHANGED <<clock, grouped, account, files, mirror, chains, sub, history>>

\* disownPin inside the try: a failure releases the claim and keeps the id.
Disown(g, ok) ==
    /\ run[g].pc = "disown"
    /\ IF ok THEN row' = Disowned(run[g].pin.doc) /\ Proceed(g) /\ UNCHANGED faults
             ELSE run' = [run EXCEPT ![g] = [run[g] EXCEPT !.pc = "release"]] /\ UNCHANGED row /\ Fault
    /\ UNCHANGED <<clock, grouped, account, files, mirror, chains, sub, history>>

More(a) == IF a < MaxAttempts THEN a + 1 ELSE a

\* releasePinDeleting
Release(g) ==
    LET d == run[g].pin.doc IN
    /\ run[g].pc = "release"
    /\ row' = IF Stored(d) THEN [row EXCEPT ![d] = [row[d] EXCEPT !.claim = 0, !.attempts = More(row[d].attempts)]]
                           ELSE row
    /\ stripped' = IF account[d] = NoFile THEN stripped \cup {d} ELSE stripped
    /\ Proceed(g)
    /\ UNCHANGED <<clock, grouped, account, files, mirror, chains, sub, handed, used, faults>>

\* The invocation is killed, or a write outside the try fails: a claim stays.
\* Not so late that it would outlast MaxClock.
Kill(g) ==
    /\ Live(g) /\ Fault /\ run[g].now + Lease < MaxClock
    /\ run' = [run EXCEPT ![g] = Resting]
    /\ UNCHANGED <<clock, grouped, account, files, row, mirror, chains, sub, history>>

RunStep(g) ==
    \/ Select(g) \/ Ask(g, TRUE) \/ EndRun(g)
    \/ \E p \in run[g].todo : KeepForOther(g, p) \/ Claim(g, p)
    \/ Remove(g) \/ RemoveFails(g) \/ Drop(g, TRUE) \/ Disown(g, TRUE) \/ Release(g)

RequestStep(s) == Upload(s) \/ Put(s)

Next ==
    \/ Tick \/ Configure
    \/ \E d \in Docs \ Backlog : Anchor(d) \/ PinElsewhere(d) \/ AnchorElsewhere(d)
    \/ \E s \in Submitters : \/ \E d \in Docs \ Backlog : Serve(s, d)
                             \/ RequestStep(s) \/ AbortRequest(s)
    \/ \E g \in Runs : \/ \E ok \in BOOLEAN : StartRun(g, ok)
                       \/ RunStep(g) \/ Ask(g, FALSE) \/ Drop(g, FALSE) \/ Disown(g, FALSE) \/ Kill(g)

Spec == Init /\ [][Next]_vars

\* Time passes, the phase runs again and again, a request ends.
Fairness ==
    /\ <>(clock = MaxClock)
    /\ \A g \in Runs : WF_vars(StartRun(g, TRUE)) /\ WF_vars(RunStep(g))
    /\ \A s \in Submitters : WF_vars(RequestStep(s) \/ AbortRequest(s))

FairSpec == Spec /\ Fairness

-----------------------------------------------------------------------------
(* Properties.                                                             *)

FileIds == 0..MaxFiles
Pin == [doc : Docs, file : FileIds]
RowType == {NoRow} \cup [file : FileIds, claim : 0..MaxClock, served : 1..MaxClock, attempts : 0..MaxAttempts]
RunPcs == {"idle", "select", "ask", "next", "remove", "drop", "disown", "release"}

\* Types; a run has a claimed row in hand exactly between its claim and the
\* write that settles it (collectUnreferencedPins).
TypeOK ==
    /\ clock \in 1..MaxClock /\ grouped \in BOOLEAN
    /\ account \in [Docs -> [id : FileIds, group : BOOLEAN]] /\ files \in FileIds
    /\ row \in [Docs -> RowType]
    /\ anchored \subseteq Docs /\ mirror \subseteq anchored /\ elsewhere \subseteq Docs
    /\ run \in [Runs -> [pc : RunPcs, now : 0..MaxClock, todo : SUBSET Pin, kept : SUBSET Docs,
                         pin : Pin \cup {NoPin}]]
    /\ \A g \in Runs : run[g].pin # NoPin <=> run[g].pc \in {"remove", "drop", "disown", "release"}
    /\ sub \in [Submitters -> {NoRequest} \cup [pc : {"upload", "put"}, doc : Docs, file : FileIds]]
    /\ handed \in [Docs -> 0..MaxClock] /\ used \subseteq Docs /\ stripped \subseteq Docs
    /\ faults \in 0..MaxFaults

\* "Long enough that a slow proposer never loses a document they are still about
\* to anchor" (PIN_GRACE_SECONDS): a document anchored within the grace of being
\* handed out, or anchored on the other network, keeps its file, unless it was
\* handed out, or anchored there, while a run held it or its claim stood (used),
\* or a run removed its file, failed and gave the row back (stripped).
AnchoredKept == \A d \in (anchored \cup elsewhere) \ crossed : account[d] # NoFile

\* "Two overlapping ticks must not both delete one file" (markPinDeleting), with
\* claims that are taken back from dead runs.
ClaimsExclusive ==
    \A g, h \in Runs : g # h /\ run[g].pin # NoPin => run[g].pin.doc # run[h].pin.doc

\* A file that is not in our group is never removed, whatever row its id got
\* into and whenever the group was configured (removeFile).
ForeignKept == [][\A d \in Docs : account[d] # NoFile /\ ~account[d].group => account'[d] = account[d]]_vars

\* A row that keeps failing does not starve the ones behind it: a pin that can
\* be removed is, once its grace is over, unless it is used again
\* (getCollectablePins).
Due(d) == grouped /\ Stored(d) /\ row[d].file > 0 /\ row[d].served + Grace < MaxClock
CollectedInTheEnd ==
    \A d \in Docs \ Poison : []<>(~Due(d) \/ d \in anchored \cup elsewhere)

\* "A resubmitted old draft cannot lose the pin it was just handed"
\* (infoActionMetadataHandler): an address handed out less than the grace ago
\* still has its file.
HandedPinStays == \A d \in Docs : handed[d] > 0 /\ clock <= handed[d] + Grace => account[d] # NoFile
=============================================================================

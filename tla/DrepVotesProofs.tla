-------------------------- MODULE DrepVotesProofs --------------------------
(***************************************************************************)
(* What holds of DrepVotes for every ballot, any number of requests and    *)
(* any bounds.  The invariant says where the run is between its reads and  *)
(* its batch: the row it read was a vote of the chain no newer than the    *)
(* list it holds, and nothing was told since.                              *)
(***************************************************************************)
EXTENDS DrepVotes, TLAPS

Reading == {"existing", "bodies", "batch"}
Comparing == {"bodies", "batch"}

\* The list a run holds is a prefix of the chain, and not an empty one.
RunForm ==
    /\ run.seen \in 0..Len(chain)
    /\ run.pc \in Reading => run.seen >= 1
    /\ run.pc \in Reading \cup {"fetch"} => run.mode \in {"live", "backfill"}
    /\ run.mode = "backfill" => Decided

ReqForm == \A r \in Requests : req[r].pc # "idle" => req[r].ballot # << >>

\* Nothing the site keeps is newer than the list a run holds.
Before(t) == run.pc \in Reading => t <= run.seen
RowForm == Authoritative(vote) => OfChain(vote) /\ Before(vote.time)
OldForm == run.pc \in Comparing /\ Authoritative(run.old) => OfChain(run.old) /\ Before(run.old.time)
HistoryForm == \A h \in history : OfChain(h)
ToldForm == \A k \in Told : k.time \in 1..Len(chain) /\ Before(k.time)

\* The last job told the choice of v.
LastTold(v) == \E j \in Told : chain[j.time].choice = v.choice /\ \A k \in Told : k.time <= j.time
RowTold == ~Decided /\ Authoritative(vote) => LastTold(vote)
OldTold == ~Decided /\ run.pc \in Comparing /\ Authoritative(run.old) => LastTold(run.old)

IInv ==
    /\ TypeOK /\ RunForm /\ ReqForm
    /\ RowForm /\ OldForm /\ HistoryForm /\ ToldForm
    /\ RowTold /\ OldTold

-----------------------------------------------------------------------------
(* Types.                                                                  *)

LEMMA BallotShape ==
    ASSUME NEW b \in Ballot
    PROVE  b.choice \in Choices /\ b.url \in Urls
BY VotesAssumption DEF VotesAssumption, Urls, None

\* The kinds of rows.
SelfCastRow == [choice : Choices, url : Urls, time : {0}, local : {"pending", "failed"}, stale : BOOLEAN]
ChainRow == [choice : Choices, url : Urls, time : Times, local : {"synced"}, stale : {FALSE}]

LEMMA RowKinds ==
    ASSUME NEW v \in VoteRow
    PROVE  /\ v.url \in Urls
           /\ v.local = "pending" => v \in SelfCastRow
           /\ v.local = "synced" => v \in ChainRow
<1>1. CASE v = NoVote
  BY <1>1 DEF NoVote, Urls
<1>2. CASE v \in SelfCastRow
  BY <1>2 DEF SelfCastRow
<1>3. CASE v \in ChainRow
  BY <1>3 DEF ChainRow
<1> QED
  BY <1>1, <1>2, <1>3 DEF VoteRow, SelfCastRow, ChainRow

LEMMA OnChainRow ==
    ASSUME TypeOK, NEW n \in 1..Len(chain)
    PROVE  OnChain(n) \in VoteRow
<1>1. chain[n] \in Ballot
  BY DEF TypeOK
<1> QED
  BY <1>1, BallotShape DEF OnChain, VoteRow, Times

LEMMA PendingRow ==
    ASSUME NEW b \in Ballot
    PROVE  Pending(b) \in VoteRow
BY BallotShape DEF Pending, VoteRow

LEMMA IdleRun ==
    Idle \in [pc : RunPcs, mode : {None, "live", "backfill"}, seen : Nat, old : VoteRow,
              body : BOOLEAN, url : Urls]
BY DEF Idle, RunPcs, VoteRow, NoVote, Urls, None

LEMMA InitTypes == Init => TypeOK
<1> SUFFICES ASSUME Init PROVE TypeOK
  OBVIOUS
<1>1. vote \in VoteRow
  BY DEF Init, VoteRow
<1>2. rationale \in [source : {None, "onchain", "dreptalk"}, url : Urls, ok : BOOLEAN]
  BY DEF Init, NoRationale, Urls
<1>3. req \in [Requests -> [pc : RequestPcs, ballot : {<<b>> : b \in Ballot} \cup {<< >>}, text : BOOLEAN]]
  BY DEF Init, NoRequest, RequestPcs
<1>4. faults \in 0..MaxFaults
  BY VotesAssumption DEF Init, VotesAssumption
<1>5. flight \in [Requests -> {<<b>> : b \in Ballot} \cup {<< >>}]
  BY DEF Init
<1>6. chain \in Seq(Ballot)
  BY DEF Init
<1>7. run \in [pc : RunPcs, mode : {None, "live", "backfill"}, seen : Nat, old : VoteRow, body : BOOLEAN, url : Urls]
  BY IdleRun DEF Init
<1> QED
  BY <1>1, <1>2, <1>3, <1>4, <1>5, <1>6, <1>7 DEF Init, TypeOK

\* The ledger, the governance cron and the clock.
LEMMA OutsideTypes ==
    ASSUME TypeOK,
           VoteElsewhere \/ Close \/ Freeze \/ Enact \/ Age \/ \E r \in Requests : Land(r)
    PROVE  TypeOK'
<1>1. CASE VoteElsewhere
  <2>1. PICK b \in Ballot : chain' = Append(chain, b)
    BY <1>1 DEF VoteElsewhere
  <2>2. chain' \in Seq(Ballot)
    BY <2>1 DEF TypeOK
  <2> QED
    BY <1>1, <2>2 DEF VoteElsewhere, TypeOK, site
<1>2. CASE Close
  BY <1>2 DEF Close, TypeOK, site
<1>0. Pulled \in BOOLEAN
  BY DEF Pulled
<1>3. CASE Freeze
  BY <1>0, <1>3 DEF Freeze, Advance, TypeOK, ledger
<1>4. CASE Enact
  BY <1>0, <1>4 DEF Enact, Advance, TypeOK, ledger
<1>5. CASE Age
  <2>1. vote \in SelfCastRow
    BY <1>5, RowKinds DEF Age, TypeOK
  <2>2. vote' \in SelfCastRow
    BY <1>5, <2>1 DEF Age, SelfCastRow
  <2>3. vote' \in VoteRow
    BY <2>2 DEF VoteRow, SelfCastRow
  <2> QED
    BY <1>5, <2>3 DEF Age, TypeOK, ledger
<1>6. CASE \E r \in Requests : Land(r)
  <2>1. PICK r \in Requests : Land(r)
    BY <1>6
  <2>0. flight[r] \in {<<b>> : b \in Ballot} \cup {<< >>}
    BY DEF TypeOK
  <2>2. flight[r] \in Seq(Ballot)
    <3>1. CASE flight[r] = << >>
      BY <3>1
    <3>2. CASE flight[r] # << >>
      <4>1. PICK b \in Ballot : flight[r] = <<b>>
        BY <2>0, <3>2
      <4> QED
        BY <4>1
    <3> QED
      BY <3>1, <3>2
  <2>3. chain' \in Seq(Ballot)
    BY <2>1, <2>2 DEF Land, TypeOK
  <2>4. flight' \in [Requests -> {<<b>> : b \in Ballot} \cup {<< >>}]
    BY <2>1 DEF Land, TypeOK
  <2> QED
    BY <2>1, <2>3, <2>4 DEF Land, TypeOK, site
<1> QED
  BY <1>1, <1>2, <1>3, <1>4, <1>5, <1>6

RunType ==
    [pc : RunPcs, mode : {None, "live", "backfill"}, seen : Nat, old : VoteRow, body : BOOLEAN, url : Urls]

\* Steps of the run that only move it.
LEMMA MovedRun ==
    ASSUME TypeOK, UNCHANGED <<ledger, site, req, raced>>,
           faults' \in 0..MaxFaults, run' \in RunType
    PROVE  TypeOK'
BY DEF TypeOK, RunType, ledger, site

LEMMA ReadTypes ==
    ASSUME TypeOK,
           \/ ListActive \/ ListDecided \/ Fetch \/ LoadExisting \/ ReadBodies
           \/ QueueRationale \/ SelectStale \/ FailCall \/ Kill
    PROVE  TypeOK'
<1> USE IdleRun DEF RunType
<1>0. run \in RunType /\ vote \in VoteRow /\ Len(chain) \in Nat /\ faults \in 0..MaxFaults
  BY DEF TypeOK
<1>1. vote.url \in Urls
  BY <1>0, RowKinds
<1>2. Leave \in RunType
  BY DEF Leave, Follows, RunPcs
<1>3. CASE ListActive
  <2>1. run' \in RunType
    BY <1>3 DEF ListActive, RunPcs
  <2> QED
    BY <1>0, <1>3, <2>1, MovedRun DEF ListActive
<1>4. CASE ListDecided
  <2>1. run' \in RunType
    BY <1>4 DEF ListDecided, RunPcs
  <2> QED
    BY <1>0, <1>4, <2>1, MovedRun DEF ListDecided
<1>5. CASE Fetch
  <2>1. run' \in RunType
    BY <1>0, <1>5 DEF Fetch, RunPcs
  <2> QED
    BY <1>0, <1>5, <2>1, MovedRun DEF Fetch
<1>6. CASE LoadExisting
  <2>1. run' \in RunType
    BY <1>0, <1>6 DEF LoadExisting, RunPcs
  <2> QED
    BY <1>0, <1>6, <2>1, MovedRun DEF LoadExisting
<1>7. CASE ReadBodies
  <2>1. run' \in RunType
    BY <1>0, <1>7 DEF ReadBodies, RunPcs
  <2> QED
    BY <1>0, <1>7, <2>1, MovedRun DEF ReadBodies
<1>8. CASE QueueRationale
  <2>1. run' \in RunType
    BY <1>1, <1>8 DEF QueueRationale, RunPcs
  <2> QED
    BY <1>0, <1>8, <2>1, MovedRun DEF QueueRationale
<1>9. CASE SelectStale
  <2>1. run' \in RunType
    BY <1>9 DEF SelectStale, RunPcs
  <2> QED
    BY <1>0, <1>9, <2>1, MovedRun DEF SelectStale
<1>10. CASE FailCall
  <2>1. run' \in RunType /\ faults' \in 0..MaxFaults
    BY <1>0, <1>2, <1>10, VotesAssumption DEF FailCall, VotesAssumption
  <2> QED
    BY <1>10, <2>1, MovedRun DEF FailCall
<1>11. CASE Kill
  <2>1. run' \in RunType /\ faults' \in 0..MaxFaults
    BY <1>0, <1>11, VotesAssumption DEF Kill, VotesAssumption
  <2> QED
    BY <1>11, <2>1, MovedRun DEF Kill
<1> QED
  BY <1>3, <1>4, <1>5, <1>6, <1>7, <1>8, <1>9, <1>10, <1>11

LEMMA WriteTypes ==
    ASSUME TypeOK, RunForm,
           \/ Upsert \/ Mark \/ MarkFailed \/ ReapRationale
           \/ \E ok \in BOOLEAN : StoreRationale(ok)
    PROVE  TypeOK'
<1> USE IdleRun DEF RunType
<1>0. run \in RunType /\ vote \in VoteRow /\ faults \in 0..MaxFaults
  BY DEF TypeOK
<1>1. CASE Upsert
  <2>1. run.seen \in 1..Len(chain)
    BY <1>1 DEF Upsert, RunForm, Reading, TypeOK
  <2>2. vote' \in VoteRow /\ OnChain(run.seen).time \in Times
    BY <1>1, <2>1, OnChainRow DEF Upsert, OnChain, Times
  <2>3. run' \in RunType
    BY <1>0, <1>1 DEF Upsert, RunPcs
  <2>4. ASSUME Authoritative(run.old)
        PROVE  Archived(run.old) \in [choice : Choices, url : Urls, time : Times]
    <3>1. run.old \in ChainRow
      BY <1>0, <2>4, RowKinds DEF Authoritative
    <3> QED
      BY <3>1 DEF Archived, ChainRow
  <2>5. history' \subseteq [choice : Choices, url : Urls, time : Times]
    BY <1>1, <2>4 DEF Upsert, Supersedes, Newer, TypeOK
  <2>6. rationale' \in [source : {None, "onchain", "dreptalk"}, url : Urls, ok : BOOLEAN]
    BY <1>1 DEF Upsert, NoRationale, Urls, TypeOK
  <2>7. jobs' \subseteq [event : {"voted", "re_voted", "rationale_ready"}, time : Times]
    BY <1>1, <2>2 DEF Upsert, VoteJobs, ReadyNotice, Job, TypeOK
  <2> QED
    BY <1>1, <2>2, <2>3, <2>5, <2>6, <2>7 DEF Upsert, TypeOK, ledger
<1>2. CASE Mark
  <2>1. run' \in RunType
    BY <1>2 DEF Mark, Leave, Follows, RunPcs
  <2> QED
    BY <1>2, <2>1 DEF Mark, TypeOK, ledger
<1>3. CASE MarkFailed
  <2>1. vote' \in VoteRow
    <3>1. CASE ~Overdue
      BY <1>0, <1>3, <3>1 DEF MarkFailed
    <3>2. CASE Overdue
      <4>1. vote \in SelfCastRow
        BY <1>0, <3>2, RowKinds DEF Overdue
      <4>2. vote' \in SelfCastRow
        BY <1>3, <3>2, <4>1 DEF MarkFailed, SelfCastRow
      <4> QED
        BY <4>2 DEF VoteRow, SelfCastRow
    <3> QED
      BY <3>1, <3>2
  <2>2. run' \in RunType
    BY <1>0, <1>3 DEF MarkFailed, RunPcs
  <2> QED
    BY <1>3, <2>1, <2>2 DEF MarkFailed, TypeOK, ledger
<1>4. CASE ReapRationale
  <2>1. rationale' \in [source : {None, "onchain", "dreptalk"}, url : Urls, ok : BOOLEAN]
    BY <1>4 DEF ReapRationale, NoRationale, Urls, TypeOK
  <2> QED
    BY <1>4, <2>1 DEF ReapRationale, TypeOK, ledger
<1>5. CASE \E ok \in BOOLEAN : StoreRationale(ok)
  <2>1. PICK ok \in BOOLEAN : StoreRationale(ok)
    BY <1>5
  <2>2. rationale' \in [source : {None, "onchain", "dreptalk"}, url : Urls, ok : BOOLEAN]
    BY <1>0, <2>1 DEF StoreRationale
  <2>3. faults' \in 0..MaxFaults
    BY <1>0, <2>1, VotesAssumption DEF StoreRationale, VotesAssumption
  <2>4. run' \in RunType
    BY <2>1 DEF StoreRationale, RunPcs
  <2> QED
    BY <2>1, <2>2, <2>3, <2>4 DEF StoreRationale, TypeOK, ledger
<1> QED
  BY <1>1, <1>2, <1>3, <1>4, <1>5

LEMMA RequestTypes ==
    ASSUME TypeOK, ReqForm, NEW r \in Requests,
           Submit(r) \/ RequestStep(r) \/ Abort(r)
    PROVE  TypeOK'
<1> DEFINE ReqType == [pc : RequestPcs, ballot : {<<b>> : b \in Ballot} \cup {<< >>}, text : BOOLEAN]
<1>0. req[r] \in ReqType /\ faults \in 0..MaxFaults
  BY DEF TypeOK
<1>1. NoRequest \in ReqType
  BY DEF NoRequest, RequestPcs
<1>2. req[r].pc # "idle" => req[r].ballot[1] \in Ballot
  BY <1>0 DEF ReqForm
<1>3. CASE Submit(r)
  <2>1. PICK b \in Ballot, t \in BOOLEAN :
           /\ flight' = [flight EXCEPT ![r] = <<b>>]
           /\ req' = [req EXCEPT ![r] = [pc |-> "check", ballot |-> <<b>>, text |-> t]]
    BY <1>3 DEF Submit
  <2>2. req' \in [Requests -> ReqType]
    BY <2>1 DEF TypeOK, RequestPcs
  <2>3. flight' \in [Requests -> {<<c>> : c \in Ballot} \cup {<< >>}]
    BY <2>1 DEF TypeOK
  <2> QED
    BY <1>3, <2>2, <2>3 DEF Submit, TypeOK, site
<1>4. CASE CheckStatus(r)
  <2>1. req' \in [Requests -> ReqType]
    BY <1>0, <1>1, <1>4 DEF CheckStatus, TypeOK, RequestPcs
  <2> QED
    BY <1>4, <2>1 DEF CheckStatus, TypeOK, site, ledger
<1>5. CASE RecordLocalVote(r)
  <2>1. req' \in [Requests -> ReqType]
    BY <1>0, <1>1, <1>5 DEF RecordLocalVote, TypeOK, RequestPcs
  <2>2. vote' \in VoteRow
    BY <1>2, <1>5, PendingRow DEF RecordLocalVote, LocalRow, TypeOK
  <2> QED
    BY <1>5, <2>1, <2>2 DEF RecordLocalVote, TypeOK, ledger
<1>6. CASE WriteRationale(r)
  <2>1. req' \in [Requests -> ReqType]
    BY <1>0, <1>1, <1>6 DEF WriteRationale, TypeOK, RequestPcs
  <2>2. rationale' \in [source : {None, "onchain", "dreptalk"}, url : Urls, ok : BOOLEAN]
    BY <1>2, <1>6, BallotShape DEF WriteRationale
  <2> QED
    BY <1>6, <2>1, <2>2 DEF WriteRationale, TypeOK, ledger
<1>7. CASE Abort(r)
  <2>1. req' \in [Requests -> ReqType]
    BY <1>1, <1>7 DEF Abort, TypeOK
  <2>2. faults' \in 0..MaxFaults
    BY <1>0, <1>7, VotesAssumption DEF Abort, VotesAssumption
  <2> QED
    BY <1>7, <2>1, <2>2 DEF Abort, TypeOK, site, ledger
<1> QED
  BY <1>3, <1>4, <1>5, <1>6, <1>7 DEF RequestStep

LEMMA StepTypes == TypeOK /\ RunForm /\ ReqForm /\ [Next]_vars => TypeOK'
<1> SUFFICES ASSUME TypeOK, RunForm, ReqForm, [Next]_vars PROVE TypeOK'
  OBVIOUS
<1>1. CASE UNCHANGED vars
  BY <1>1 DEF vars, ledger, site, TypeOK
<1>2. CASE Next
  BY <1>2, OutsideTypes, ReadTypes, WriteTypes, RequestTypes DEF Next, RunStep
<1> QED
  BY <1>1, <1>2

-----------------------------------------------------------------------------
(* The invariant.                                                          *)

LEMMA InitForms == Init => IInv
<1> SUFFICES ASSUME Init PROVE IInv
  OBVIOUS
<1>1. run = Idle /\ chain = << >> /\ vote = NoVote /\ history = {} /\ jobs = {}
  BY DEF Init
<1>2. RunForm
  <2>1. Len(chain) = 0 /\ run.pc = "start" /\ run.seen = 0 /\ run.mode = "none"
    BY <1>1 DEF Idle, None
  <2> QED
    BY <2>1 DEF RunForm, Reading
<1>3. ReqForm
  BY DEF Init, ReqForm, NoRequest
<1>4. RowForm /\ RowTold
  BY <1>1 DEF RowForm, RowTold, Authoritative, NoVote
<1>5. OldForm /\ OldTold
  BY <1>1 DEF OldForm, OldTold, Idle, Comparing
<1>6. HistoryForm /\ ToldForm
  BY <1>1 DEF HistoryForm, ToldForm, Told
<1> QED
  BY <1>2, <1>3, <1>4, <1>5, <1>6, InitTypes DEF IInv

\* The chain only grows, so what holds of its votes goes on holding.
LEMMA GrowKeeps ==
    ASSUME IInv, TypeOK', ReqForm', UNCHANGED <<site, run>>,
           Len(chain') >= Len(chain), \A n \in 1..Len(chain) : chain'[n] = chain[n]
    PROVE  IInv'
<1>0. Len(chain) \in Nat /\ Len(chain') \in Nat
  BY DEF IInv, TypeOK
<1>1. \A v : OfChain(v) => OfChain(v)'
  BY <1>0 DEF OfChain
<1>2. RunForm'
  BY <1>0 DEF IInv, RunForm, site, Decided
<1>3. RowForm'
  BY <1>1 DEF IInv, RowForm, Authoritative, Before, OfChain, site
<1>4. OldForm'
  BY <1>1 DEF IInv, OldForm, Authoritative, Before, OfChain, site
<1>5. HistoryForm'
  BY <1>1 DEF IInv, HistoryForm, OfChain, site
<1>6. ToldForm'
  BY <1>0 DEF IInv, ToldForm, Told, Before, site
<1>7. \A v : LastTold(v) => LastTold(v)'
  BY DEF IInv, ToldForm, LastTold, Told, site
<1>8. RowTold' /\ OldTold'
  BY <1>7 DEF IInv, RowTold, OldTold, LastTold, Told, Decided, Authoritative, site
<1> QED
  BY <1>2, <1>3, <1>4, <1>5, <1>6, <1>8 DEF IInv

\* A row that does not count yet promises nothing, and a run that is not
\* between its list and its batch holds nothing.
LEMMA QuietKeeps ==
    ASSUME IInv, TypeOK', ReqForm', UNCHANGED <<chain, history, jobs>>,
           Decided => Decided',
           vote' = vote \/ ~Authoritative(vote'),
           run' = run \/ (/\ run'.pc \notin Reading /\ run'.seen \in 0..Len(chain)
                          /\ run'.pc = "fetch" => run'.mode \in {"live", "backfill"}
                          /\ run'.mode = "backfill" => Decided')
    PROVE  IInv'
<1>1. RunForm'
  BY DEF IInv, RunForm, Reading
<1>2. RowForm' /\ RowTold'
  BY DEF IInv, RowForm, RowTold, Authoritative, Before, OfChain, LastTold, Told
<1>3. OldForm' /\ OldTold'
  BY DEF IInv, OldForm, OldTold, Authoritative, Before, OfChain, LastTold, Told, Reading, Comparing
<1>4. HistoryForm' /\ ToldForm'
  BY DEF IInv, HistoryForm, ToldForm, OfChain, Told, Before
<1> QED
  BY <1>1, <1>2, <1>3, <1>4 DEF IInv

LEMMA LedgerForms ==
    ASSUME IInv, TypeOK', VoteElsewhere \/ Close \/ \E r \in Requests : Land(r)
    PROVE  IInv'
<1>0. TypeOK /\ ReqForm
  BY DEF IInv
<1>1. CASE VoteElsewhere
  <2>1. PICK b \in Ballot : chain' = Append(chain, b)
    BY <1>1 DEF VoteElsewhere
  <2>2. Len(chain') >= Len(chain) /\ \A n \in 1..Len(chain) : chain'[n] = chain[n]
    BY <1>0, <2>1 DEF TypeOK
  <2>3. ReqForm' /\ UNCHANGED <<site, run>>
    BY <1>0, <1>1 DEF VoteElsewhere, ReqForm
  <2> QED
    BY <2>2, <2>3, GrowKeeps
<1>2. CASE Close
  <2>1. ReqForm' /\ UNCHANGED <<chain, site, run>>
    BY <1>0, <1>2 DEF Close, ReqForm
  <2> QED
    BY <1>0, <2>1, GrowKeeps DEF TypeOK
<1>3. CASE \E r \in Requests : Land(r)
  <2>1. PICK r \in Requests : Land(r)
    BY <1>3
  <2>2. chain \in Seq(Ballot) /\ flight[r] \in Seq(Ballot)
    <3>1. flight[r] \in {<<b>> : b \in Ballot} \cup {<< >>}
      BY <1>0 DEF TypeOK
    <3>2. CASE flight[r] = << >>
      BY <1>0, <3>2 DEF TypeOK
    <3>3. CASE flight[r] # << >>
      <4>1. PICK b \in Ballot : flight[r] = <<b>>
        BY <3>1, <3>3
      <4> QED
        BY <1>0, <4>1 DEF TypeOK
    <3> QED
      BY <3>2, <3>3
  <2>3. chain' = chain \o flight[r]
    BY <2>1 DEF Land
  <2>4. Len(chain') >= Len(chain) /\ \A n \in 1..Len(chain) : chain'[n] = chain[n]
    BY <2>2, <2>3
  <2>5. ReqForm' /\ UNCHANGED <<site, run>>
    BY <1>0, <2>1 DEF Land, ReqForm
  <2> QED
    BY <2>4, <2>5, GrowKeeps
<1> QED
  BY <1>1, <1>2, <1>3

\* An action is decided for good, and nothing is promised to the followers of
\* a decided one.
LEMMA CronForms ==
    ASSUME IInv, TypeOK', Freeze \/ Enact
    PROVE  IInv'
<1>1. status' # "active" /\ UNCHANGED <<chain, vote, history, jobs, run, req>>
  BY DEF Freeze, Enact, Advance, ledger
<1>2. Decided' /\ ReqForm'
  BY <1>1 DEF IInv, Decided, ReqForm
<1> QED
  BY <1>1, <1>2, QuietKeeps

LEMMA AgeForms ==
    ASSUME IInv, TypeOK', Age
    PROVE  IInv'
<1>1. vote \in SelfCastRow
  BY RowKinds DEF Age, IInv, TypeOK
<1>2. ~Authoritative(vote')
  BY <1>1 DEF Age, Authoritative, SelfCastRow
<1>3. UNCHANGED <<chain, status, history, jobs, run, req>>
  BY DEF Age, ledger
<1>4. ReqForm' /\ (Decided <=> Decided')
  BY <1>3 DEF IInv, ReqForm, Decided
<1> QED
  BY <1>2, <1>3, <1>4, QuietKeeps

LEMMA RequestForms ==
    ASSUME IInv, TypeOK', NEW r \in Requests,
           Submit(r) \/ RequestStep(r) \/ Abort(r)
    PROVE  IInv'
<1>0. TypeOK /\ ReqForm
  BY DEF IInv
<1>1. UNCHANGED <<chain, status, history, jobs, run>>
  BY DEF Submit, RequestStep, CheckStatus, RecordLocalVote, WriteRationale, Abort, site, ledger
<1>2. Decided => Decided'
  BY <1>1 DEF Decided
<1>3. vote' = vote \/ ~Authoritative(vote')
  <2>2. CASE RecordLocalVote(r)
    BY <2>2 DEF RecordLocalVote, LocalRow, Pending, Authoritative
  <2>3. CASE Submit(r) \/ CheckStatus(r) \/ WriteRationale(r) \/ Abort(r)
    BY <2>3 DEF Submit, CheckStatus, WriteRationale, Abort, site
  <2> QED
    BY <2>2, <2>3 DEF RequestStep
<1>4. ReqForm'
  <2>2. CASE Submit(r)
    <3>1. PICK b \in Ballot, t \in BOOLEAN :
             req' = [req EXCEPT ![r] = [pc |-> "check", ballot |-> <<b>>, text |-> t]]
      BY <2>2 DEF Submit
    <3> QED
      BY <1>0, <3>1 DEF ReqForm, TypeOK
  <2>3. CASE RequestStep(r) \/ Abort(r)
    <3>1. \/ req' = [req EXCEPT ![r] = NoRequest]
          \/ /\ req[r].pc # "idle"
             /\ \/ req' = [req EXCEPT ![r] = [req[r] EXCEPT !.pc = "record"]]
                \/ req' = [req EXCEPT ![r] = [req[r] EXCEPT !.pc = "rationale"]]
      <4>1. CASE CheckStatus(r)
        BY <4>1 DEF CheckStatus
      <4>2. CASE RecordLocalVote(r)
        BY <4>2 DEF RecordLocalVote
      <4>3. CASE WriteRationale(r) \/ Abort(r)
        BY <4>3 DEF WriteRationale, Abort
      <4> QED
        BY <2>3, <4>1, <4>2, <4>3 DEF RequestStep
    <3>2. CASE req' = [req EXCEPT ![r] = NoRequest]
      BY <1>0, <3>2 DEF ReqForm, TypeOK, NoRequest
    <3>3. ASSUME NEW k \in {"record", "rationale"}, req[r].pc # "idle",
                 req' = [req EXCEPT ![r] = [req[r] EXCEPT !.pc = k]]
          PROVE  ReqForm'
      <4>1. req[r].ballot # << >> /\ [req[r] EXCEPT !.pc = k].ballot = req[r].ballot
        BY <1>0, <3>3 DEF ReqForm, TypeOK
      <4> QED
        BY <1>0, <3>3, <4>1 DEF ReqForm, TypeOK
    <3> QED
      BY <3>1, <3>2, <3>3
  <2> QED
    BY <2>2, <2>3
<1> QED
  BY <1>1, <1>2, <1>3, <1>4, QuietKeeps

\* The steps of the run outside the span between its list and its batch.
LEMMA OutsideForms ==
    ASSUME IInv, TypeOK',
           \/ ListActive \/ ListDecided \/ QueueRationale \/ SelectStale
           \/ Mark \/ MarkFailed \/ ReapRationale \/ FailCall \/ Kill
           \/ \E ok \in BOOLEAN : StoreRationale(ok)
    PROVE  IInv'
<1>0. TypeOK /\ ReqForm /\ run.seen \in 0..Len(chain) /\ Len(chain) \in Nat /\ (run.mode = "backfill" => Decided)
  BY DEF IInv, TypeOK, RunForm
<1>1. UNCHANGED <<chain, status, history, jobs, req>>
  BY DEF ListActive, ListDecided, QueueRationale, SelectStale, Mark, MarkFailed, ReapRationale,
         FailCall, Kill, StoreRationale, site, ledger
<1>2. vote' = vote \/ ~Authoritative(vote')
  <2>1. CASE MarkFailed
    <3>1. CASE Overdue
      <4>1. vote \in SelfCastRow
        BY <1>0, <3>1, RowKinds DEF Overdue, TypeOK
      <4> QED
        BY <2>1, <3>1, <4>1 DEF MarkFailed, Authoritative, SelfCastRow
    <3>2. CASE ~Overdue
      BY <2>1, <3>2 DEF MarkFailed
    <3> QED
      BY <3>1, <3>2
  <2>2. CASE ~MarkFailed
    BY <2>2 DEF ListActive, ListDecided, QueueRationale, SelectStale, Mark, ReapRationale,
         FailCall, Kill, StoreRationale, site
  <2> QED
    BY <2>1, <2>2
<1>3. /\ run'.pc \notin Reading /\ run'.seen \in 0..Len(chain)
      /\ run'.pc = "fetch" => run'.mode \in {"live", "backfill"}
      /\ run'.mode = "backfill" => Decided
  <2>1. CASE ListActive \/ ListDecided \/ QueueRationale \/ SelectStale \/ ReapRationale \/ Kill
    <3>1. CASE ListActive
      BY <1>0, <3>1 DEF ListActive, Idle, Reading, None
    <3>2. CASE ListDecided
      BY <1>0, <3>2 DEF ListDecided, Idle, Reading, None
    <3>3. CASE QueueRationale
      BY <1>0, <3>3 DEF QueueRationale, Idle, Reading, None
    <3>4. CASE SelectStale \/ ReapRationale \/ Kill
      BY <1>0, <3>4 DEF SelectStale, ReapRationale, Kill, Idle, Reading, None
    <3> QED
      BY <2>1, <3>1, <3>2, <3>3, <3>4
  <2>2. CASE Mark \/ FailCall
    BY <1>0, <2>2 DEF Mark, FailCall, Leave, Follows, Idle, Reading, None
  <2>3. CASE MarkFailed
    <3>1. run' = [run EXCEPT !.pc = "reap"]
      BY <2>3 DEF MarkFailed
    <3>2. run'.pc = "reap" /\ run'.seen = run.seen /\ run'.mode = run.mode
      BY <1>0, <3>1 DEF TypeOK
    <3> QED
      BY <1>0, <3>2 DEF Reading
  <2>4. CASE \E ok \in BOOLEAN : StoreRationale(ok)
    BY <1>0, <2>4 DEF StoreRationale, Idle, Reading, None
  <2> QED
    BY <2>1, <2>2, <2>3, <2>4
<1>4. ReqForm' /\ (Decided <=> Decided')
  BY <1>0, <1>1 DEF ReqForm, Decided
<1> QED
  BY <1>1, <1>2, <1>3, <1>4, QuietKeeps

-----------------------------------------------------------------------------
(* From the list of the indexer to the batch.                              *)

LEMMA FetchForms ==
    ASSUME IInv, TypeOK', Fetch
    PROVE  IInv'
<1>0. TypeOK /\ Len(chain) \in Nat /\ run.pc = "fetch" /\ run.mode \in {"live", "backfill"}
  BY DEF IInv, TypeOK, RunForm, Fetch
<1>1. UNCHANGED <<chain, status, vote, history, jobs, req>>
  BY DEF Fetch, site, ledger
<1>2. run' = [run EXCEPT !.pc = IF chain = << >> THEN "mark" ELSE "existing", !.seen = Len(chain)]
  BY DEF Fetch
<1>3. run'.seen = Len(chain) /\ run'.mode = run.mode /\ run'.pc \in {"mark", "existing"}
  BY <1>0, <1>2 DEF TypeOK
<1>4. run'.pc = "existing" => Len(chain) >= 1
  BY <1>0, <1>2 DEF TypeOK
<1>5. RunForm' /\ ReqForm'
  BY <1>0, <1>1, <1>3, <1>4 DEF IInv, RunForm, ReqForm, Reading, Decided
<1>6. RowForm' /\ RowTold'
  BY <1>0, <1>1, <1>3 DEF IInv, RowForm, RowTold, Authoritative, Before, OfChain, LastTold, Told, Decided
<1>7. OldForm' /\ OldTold'
  BY <1>3 DEF OldForm, OldTold, Comparing
<1>8. HistoryForm' /\ ToldForm'
  BY <1>0, <1>1, <1>3 DEF IInv, HistoryForm, ToldForm, OfChain, Told, Before
<1> QED
  BY <1>5, <1>6, <1>7, <1>8 DEF IInv

LEMMA CompareForms ==
    ASSUME IInv, TypeOK', LoadExisting \/ ReadBodies
    PROVE  IInv'
<1>0. TypeOK /\ run.pc \in Reading
  BY DEF IInv, LoadExisting, ReadBodies, Reading
<1>1. UNCHANGED <<chain, status, vote, history, jobs, req>>
  BY DEF LoadExisting, ReadBodies, site, ledger
<1>2. /\ run'.pc \in Comparing /\ run'.seen = run.seen /\ run'.mode = run.mode
      /\ \/ run'.old = vote
         \/ run.pc \in Comparing /\ run'.old = run.old
  <2>1. CASE LoadExisting
    BY <1>0, <2>1 DEF LoadExisting, TypeOK, Comparing
  <2>2. CASE ReadBodies
    BY <1>0, <2>2 DEF ReadBodies, TypeOK, Comparing
  <2> QED
    BY <2>1, <2>2
<1>3. RunForm' /\ ReqForm'
  BY <1>0, <1>1, <1>2 DEF IInv, RunForm, ReqForm, Reading, Comparing, Decided
<1>4. RowForm' /\ RowTold'
  BY <1>0, <1>1, <1>2 DEF IInv, RowForm, RowTold, Authoritative, Before, OfChain, LastTold, Told, Decided
<1>5. OldForm' /\ OldTold'
  BY <1>0, <1>1, <1>2 DEF IInv, RowForm, RowTold, OldForm, OldTold, Authoritative, Before, OfChain, LastTold,
       Told, Decided
<1>6. HistoryForm' /\ ToldForm'
  BY <1>0, <1>1, <1>2 DEF IInv, HistoryForm, ToldForm, OfChain, Told, Before
<1> QED
  BY <1>3, <1>4, <1>5, <1>6 DEF IInv

\* The batch: the row becomes the last vote of the list, and when its choice is
\* new to the followers the job that tells them is the last.
LEMMA UpsertForms ==
    ASSUME IInv, TypeOK', Upsert
    PROVE  IInv'
<1> DEFINE n == run.seen
<1>0. /\ TypeOK /\ Len(chain) \in Nat /\ n \in 1..Len(chain)
      /\ run.pc = "batch" /\ run.pc \in Reading /\ run.pc \in Comparing
      /\ chain[n] \in Ballot /\ run.old \in VoteRow
  BY DEF IInv, Upsert, TypeOK, RunForm, Reading, Comparing
<1>1. UNCHANGED <<chain, status, req>> /\ vote' = OnChain(n)
  BY DEF Upsert, ledger
<1>2. run'.pc = "mark" /\ run'.seen = 0 /\ run'.mode = run.mode
  BY DEF Upsert, Idle
<1>3. RunForm' /\ ReqForm'
  BY <1>0, <1>1, <1>2 DEF IInv, RunForm, ReqForm, Reading, Decided
<1>4. OldForm' /\ OldTold'
  BY <1>2 DEF OldForm, OldTold, Comparing
<1>5. vote'.time = n /\ vote'.choice = chain[n].choice /\ vote'.url = chain[n].url
  BY <1>1 DEF OnChain
<1>6. RowForm'
  BY <1>0, <1>1, <1>2, <1>5 DEF RowForm, OfChain, Before, Reading
<1>7. HistoryForm'
  <2>1. history' = history \/ (Authoritative(run.old) /\ history' = history \cup {Archived(run.old)})
    BY DEF Upsert, Supersedes, Newer
  <2>2. Authoritative(run.old) => OfChain(Archived(run.old))
    BY <1>0 DEF IInv, OldForm, OfChain, Archived
  <2> QED
    BY <1>1, <2>1, <2>2 DEF IInv, HistoryForm, OfChain
<1>8. \A k \in Told' : k \in Told \/ (k.time = n /\ run.mode = "live")
  <2>1. jobs' = IF run.mode = "live" THEN jobs \cup VoteJobs(run.old, OnChain(n)) \cup ReadyNotice(run.old, OnChain(n))
                                     ELSE jobs
    BY DEF Upsert
  <2>2. \A k \in VoteJobs(run.old, OnChain(n)) : k.time = n
    BY DEF VoteJobs, Job, OnChain
  <2>3. \A k \in ReadyNotice(run.old, OnChain(n)) : k.event = "rationale_ready"
    BY DEF ReadyNotice, Job
  <2> QED
    BY <2>1, <2>2, <2>3 DEF Told
<1>9. Told \subseteq Told'
  BY DEF Upsert, Told
<1>10. \A k \in Told' : k.time \in 1..Len(chain) /\ k.time <= n
  BY <1>0, <1>8 DEF IInv, ToldForm, Before
<1>11. ToldForm'
  BY <1>1, <1>2, <1>10 DEF ToldForm, Before, Reading
<1>12. RowTold'
  <2> SUFFICES ASSUME ~Decided PROVE LastTold(vote)'
    BY <1>1 DEF RowTold, Decided
  <2>1. run.mode = "live"
    BY <1>0 DEF IInv, RunForm
  <2>2. jobs' = jobs \cup VoteJobs(run.old, OnChain(n)) \cup ReadyNotice(run.old, OnChain(n))
    BY <2>1 DEF Upsert
  <2>3. CASE Authoritative(run.old) /\ run.old.choice = chain[n].choice
    BY <1>0, <1>1, <1>5, <1>8, <1>9, <1>10, <2>3 DEF IInv, OldTold, LastTold
  <2>4. ASSUME NEW e \in {"voted", "re_voted"}, Job(e, n) \in jobs' PROVE LastTold(vote)'
    <3>1. Job(e, n) \in Told' /\ Job(e, n).time = n
      BY <2>4 DEF Told, Job
    <3> QED
      BY <1>1, <1>5, <1>10, <3>1 DEF LastTold
  <2>5. CASE ~Authoritative(run.old)
    <3>1. Job("voted", n) \in jobs'
      BY <2>2, <2>5 DEF VoteJobs, OnChain
    <3> QED
      BY <2>4, <3>1
  <2>6. CASE Authoritative(run.old) /\ run.old.choice # chain[n].choice
    <3>1. run.old.time \in Nat /\ run.old.time < n
      BY <1>0, <2>6 DEF IInv, OldForm, OfChain, Before
    <3>2. Newer(run.old, OnChain(n)) /\ run.old.choice # OnChain(n).choice
      BY <2>6, <3>1 DEF Newer, OnChain
    <3>3. VoteJobs(run.old, OnChain(n)) = {Job("re_voted", OnChain(n).time)}
      BY <2>6, <3>2 DEF VoteJobs
    <3>4. Job("re_voted", n) \in jobs'
      BY <2>2, <3>3 DEF OnChain
    <3> QED
      BY <2>4, <3>4
  <2> QED
    BY <2>3, <2>5, <2>6
<1> QED
  BY <1>3, <1>4, <1>6, <1>7, <1>11, <1>12 DEF IInv

-----------------------------------------------------------------------------
(* The theorems.                                                           *)

LEMMA StepForms == IInv /\ [Next]_vars => IInv'
<1> SUFFICES ASSUME IInv, [Next]_vars PROVE IInv'
  OBVIOUS
<1>0. TypeOK /\ ReqForm /\ TypeOK'
  BY StepTypes DEF IInv
<1>1. CASE UNCHANGED vars
  <2>1. ReqForm' /\ (Decided <=> Decided') /\ UNCHANGED <<chain, history, jobs, vote, run>>
    BY <1>0, <1>1 DEF vars, ledger, site, ReqForm, Decided
  <2> QED
    BY <1>0, <2>1, QuietKeeps
<1>2. CASE Next
  <2>1. CASE VoteElsewhere \/ Close \/ \E r \in Requests : Land(r)
    BY <1>0, <2>1, LedgerForms
  <2>2. CASE Freeze \/ Enact
    BY <1>0, <2>2, CronForms
  <2>3. CASE \E r \in Requests : Submit(r) \/ RequestStep(r) \/ Abort(r)
    BY <1>0, <2>3, RequestForms
  <2>4. CASE Age
    BY <1>0, <2>4, AgeForms
  <2>5. CASE Fetch
    BY <1>0, <2>5, FetchForms
  <2>6. CASE LoadExisting \/ ReadBodies
    BY <1>0, <2>6, CompareForms
  <2>7. CASE Upsert
    BY <1>0, <2>7, UpsertForms
  <2>8. CASE \/ ListActive \/ ListDecided \/ QueueRationale \/ SelectStale
             \/ Mark \/ MarkFailed \/ ReapRationale \/ FailCall \/ Kill
             \/ \E ok \in BOOLEAN : StoreRationale(ok)
    BY <1>0, <2>8, OutsideForms
  <2> QED
    BY <1>2, <2>1, <2>2, <2>3, <2>4, <2>5, <2>6, <2>7, <2>8 DEF Next, RunStep
<1> QED
  BY <1>1, <1>2

LEMMA Invariance == Spec => []IInv
<1> QED
  BY InitForms, StepForms, PTL DEF Spec

\* In the row a vote has a block_time exactly when it is one of the chain
\* (recordLocalVote, buildVoteUpsertStatements), and everything keeps its type.
THEOREM TypeCorrect == Spec => []TypeOK
<1>1. IInv => TypeOK
  BY DEF IInv
<1> QED
  BY <1>1, Invariance, PTL

\* A row without local_status and every archived vote are votes that are on
\* chain, whatever requests and runs did in between (confirmedVoteSql).
THEOREM CountedVotesOnChain == Spec => []ConfirmedOnChain
<1>1. IInv => ConfirmedOnChain
  BY DEF IInv, RowForm, HistoryForm, ConfirmedOnChain
<1> QED
  BY <1>1, Invariance, PTL

\* While an action is open, the last job told the followers the choice of the
\* row, although upsertVotes decides what to tell on a row read earlier
\* (classifyVoteJobs).
THEOREM FollowersToldLatest == Spec => []TellsLatest
<1>1. IInv => TellsLatest
  BY DEF IInv, RowTold, LastTold, TellsLatest
<1> QED
  BY <1>1, Invariance, PTL

-----------------------------------------------------------------------------
(* The vote an action ended with.                                          *)

Final == status \in {"closed", "enacted"}

\* No pull that had its answer crossed the last status change.
Undisturbed == Final /\ ~raced /\ chain # << >>

Kept == Authoritative(vote) /\ vote.time = Len(chain)

\* The chain of a final action does not grow, so the list of a run is all of
\* it, and what its batch wrote stays.
FinalForm ==
    /\ Final => ~open
    /\ Undisturbed /\ run.pc \in Reading => run.seen = Len(chain)
    /\ Undisturbed /\ (run.pc = "mark" \/ synced) => Kept

\* A final action that left the queue of final pulls keeps its last vote.
FinalVoteSettled == Undisturbed /\ synced => Kept

\* A vote of the chain gives way to nothing but a batch once the action is decided.
LEMMA KeptStays ==
    ASSUME TypeOK, Kept, Decided, [Next]_vars, ~Upsert, UNCHANGED chain
    PROVE  Kept'
<1>1. vote' = vote
  <2>1. CASE Age
    BY <2>1 DEF Age, Kept, Authoritative
  <2>2. CASE MarkFailed
    BY <2>2 DEF MarkFailed, Overdue, Kept, Authoritative
  <2>3. CASE \E r \in Requests : Land(r) \/ Submit(r) \/ RequestStep(r) \/ Abort(r)
    BY <2>3 DEF Land, Submit, RequestStep, CheckStatus, RecordLocalVote, Overwritable, WriteRationale, Abort,
         Kept, site
  <2>4. CASE VoteElsewhere \/ Close \/ Freeze \/ Enact \/ UNCHANGED vars
    BY <2>4 DEF VoteElsewhere, Close, Freeze, Enact, vars, site
  <2>5. CASE StoreRationale(TRUE) \/ StoreRationale(FALSE) \/ ReapRationale \/ Mark \/ FailCall \/ Kill
    BY <2>5 DEF StoreRationale, ReapRationale, Mark, FailCall, Kill, site
  <2>6. CASE ListActive \/ Fetch \/ LoadExisting \/ ReadBodies \/ QueueRationale \/ ListDecided \/ SelectStale
    BY <2>6 DEF ListActive, Fetch, LoadExisting, ReadBodies, QueueRationale, ListDecided, SelectStale, site
  <2> QED
    BY <2>1, <2>2, <2>3, <2>4, <2>5, <2>6 DEF Next, RunStep
<1> QED
  BY <1>1 DEF Kept, Authoritative

\* Every status change nulls votes_synced_at, and says whether it was crossed.
LEMMA TurnsFinal ==
    ASSUME Freeze \/ Enact, FinalForm
    PROVE  FinalForm'
<1>1. synced' = FALSE /\ raced' = Pulled /\ UNCHANGED <<chain, open, run>>
  BY DEF Freeze, Enact, Advance, ledger
<1>2. Final' => ~open'
  BY <1>1 DEF Freeze, Enact, Advance, Final
<1>3. ~raced' => run'.pc \notin Reading /\ run'.pc # "mark"
  BY <1>1 DEF Pulled, Reading
<1> QED
  BY <1>1, <1>2, <1>3 DEF FinalForm, Undisturbed

\* The ledger: nothing more lands once an action is final.
LEMMA LedgerFinal ==
    ASSUME FinalForm, VoteElsewhere \/ Close \/ \E r \in Requests : Land(r)
    PROVE  FinalForm'
<1>1. UNCHANGED <<status, synced, vote, run, raced>> /\ (open' => open)
  BY DEF VoteElsewhere, Close, Land, site
<1>2. Final => UNCHANGED chain
  BY DEF FinalForm, VoteElsewhere, Close, Land
<1> QED
  BY <1>1, <1>2 DEF FinalForm, Final, Undisturbed, Kept, Authoritative

\* The pull itself: its list is the whole chain, its batch writes the last vote.
LEMMA PullFinal ==
    ASSUME TypeOK, FinalForm, Fetch \/ LoadExisting \/ ReadBodies \/ Upsert \/ Mark
    PROVE  FinalForm'
<1>1. UNCHANGED <<chain, open, status, raced>>
  BY DEF Fetch, LoadExisting, ReadBodies, Upsert, Mark, site, ledger
<1>2. (Undisturbed <=> Undisturbed') /\ (Final' => ~open')
  BY <1>1 DEF FinalForm, Final, Undisturbed
<1>3. CASE Fetch
  <2>1. Undisturbed => run'.pc = "existing" /\ run'.seen = Len(chain)
    BY <1>3 DEF Fetch, TypeOK, Undisturbed
  <2>2. UNCHANGED <<vote, synced>>
    BY <1>3 DEF Fetch, site
  <2> QED
    BY <1>1, <1>2, <2>1, <2>2 DEF FinalForm, Kept, Authoritative
<1>4. CASE LoadExisting \/ ReadBodies
  <2>1. run.pc \in Reading /\ run'.pc \in Reading /\ run'.seen = run.seen /\ UNCHANGED <<vote, synced>>
    BY <1>4 DEF LoadExisting, ReadBodies, TypeOK, Reading, site
  <2> QED
    BY <1>1, <1>2, <2>1 DEF FinalForm, Kept, Authoritative, Reading
<1>5. CASE Upsert
  <2>1. run.pc \in Reading /\ run'.pc = "mark" /\ vote' = OnChain(run.seen)
    BY <1>5 DEF Upsert, Idle, Reading
  <2>2. Undisturbed => Kept'
    BY <1>1, <2>1 DEF FinalForm, Kept, Authoritative, OnChain
  <2> QED
    BY <1>2, <2>1, <2>2 DEF FinalForm, Reading
<1>6. CASE Mark
  <2>1. run.pc = "mark" /\ run'.pc \in {"rationales", "stale"} /\ UNCHANGED vote
    BY <1>6 DEF Mark, Leave, Follows, Idle
  <2> QED
    BY <1>1, <1>2, <2>1 DEF FinalForm, Kept, Authoritative, Reading
<1> QED
  BY <1>3, <1>4, <1>5, <1>6

\* Everything else reads no list and marks nothing.
LEMMA RestFinal ==
    ASSUME TypeOK, FinalForm, [Next]_vars, UNCHANGED <<chain, open, status, synced, raced>>,
           ~Upsert, run' = run \/ run'.pc \notin Reading \cup {"mark"}
    PROVE  FinalForm'
<1>1. (Undisturbed <=> Undisturbed') /\ (Final' => ~open')
  BY DEF FinalForm, Final, Undisturbed
<1>2. Undisturbed /\ Kept => Kept'
  BY KeptStays DEF Undisturbed, Final, Decided
<1> QED
  BY <1>1, <1>2 DEF FinalForm, Reading

LEMMA StepFinal == TypeOK /\ FinalForm /\ [Next]_vars => FinalForm'
<1> SUFFICES ASSUME TypeOK, FinalForm, [Next]_vars PROVE FinalForm'
  OBVIOUS
<1>1. CASE VoteElsewhere \/ Close \/ \E r \in Requests : Land(r)
  BY <1>1, LedgerFinal
<1>2. CASE Freeze \/ Enact
  BY <1>2, TurnsFinal
<1>3. CASE Fetch \/ LoadExisting \/ ReadBodies \/ Upsert \/ Mark
  BY <1>3, PullFinal
<1>4. CASE Age \/ (\E r \in Requests : Submit(r) \/ RequestStep(r) \/ Abort(r)) \/ UNCHANGED vars
  <2>1. UNCHANGED <<chain, open, status, synced, raced, run>>
    BY <1>4 DEF Age, Submit, RequestStep, CheckStatus, RecordLocalVote, WriteRationale, Abort, vars, ledger, site
  <2>2. ~Upsert
    BY <2>1 DEF Upsert, Idle
  <2> QED
    BY <2>1, <2>2, RestFinal
<1>5. CASE \/ ListActive \/ ListDecided \/ QueueRationale \/ SelectStale
           \/ StoreRationale(TRUE) \/ StoreRationale(FALSE) \/ MarkFailed \/ ReapRationale
           \/ FailCall \/ Kill
  <2>1. UNCHANGED <<chain, open, status, synced, raced>>
    BY <1>5 DEF ListActive, ListDecided, QueueRationale, SelectStale, StoreRationale, MarkFailed,
         ReapRationale, FailCall, Kill, ledger, site
  <2>2. run'.pc \notin Reading \cup {"mark"}
    <3>1. CASE MarkFailed
      BY <3>1 DEF MarkFailed, TypeOK, Reading
    <3>2. CASE ListActive \/ ListDecided
      BY <3>2 DEF ListActive, ListDecided, Idle, Reading
    <3>3. CASE QueueRationale \/ SelectStale
      <4>1. /\ [Idle EXCEPT !.pc = "anchor", !.url = vote.url].pc = "anchor"
            /\ [Idle EXCEPT !.pc = "backfill"].pc = "backfill"
            /\ [Idle EXCEPT !.pc = "fail"].pc = "fail" /\ Idle.pc = "start"
        BY DEF Idle
      <4>2. run'.pc \in {"anchor", "backfill", "fail", "start"}
        BY <3>3, <4>1 DEF QueueRationale, SelectStale
      <4> QED
        BY <4>2 DEF Reading
    <3>4. CASE StoreRationale(TRUE) \/ StoreRationale(FALSE) \/ ReapRationale \/ Kill
      BY <3>4 DEF StoreRationale, ReapRationale, Kill, Idle, Reading
    <3>5. CASE FailCall
      BY <3>5 DEF FailCall, Leave, Follows, Idle, Reading
    <3> QED
      BY <1>5, <3>1, <3>2, <3>3, <3>4, <3>5
  <2>3. ~Upsert
    BY <2>2 DEF Upsert, Idle
  <2> QED
    BY <2>1, <2>2, <2>3, RestFinal
<1> QED
  BY <1>1, <1>2, <1>3, <1>4, <1>5 DEF Next, RunStep

\* Once a closed or enacted action is taken off the queue of final pulls, and
\* no pull that had its answer crossed the status change, the row is the last
\* vote of the chain and stays so: neither a late recordLocalVote nor
\* markStalePendingVotesFailed touches it, and every status change nulls
\* votes_synced_at again (updateGovernanceTallyAndStatus, markVotesSynced).
\* That the pull happens at all is FinalVoteKept, which stays with TLC.
THEOREM FinalVoteStays == Spec => []FinalVoteSettled
<1>1. Init => FinalForm
  BY DEF Init, FinalForm, Final, Undisturbed
<1>2. FinalForm => FinalVoteSettled
  BY DEF FinalForm, FinalVoteSettled
<1> QED
  BY <1>1, <1>2, StepFinal, TypeCorrect, PTL DEF Spec
=============================================================================

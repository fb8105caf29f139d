----------------------------- MODULE DrepVotes -----------------------------
(***************************************************************************)
(* One DRep's vote on one governance action, as the site keeps it: the     *)
(* optimistic row a DRep records right after the wallet submitted          *)
(* (api/vote/record.ts), the vote cron that pulls the list of the chain,   *)
(* archives what it supersedes, tells the followers and fails what never   *)
(* confirmed (sync/phases/votes.ts, tallySync.ts, drepVotes.ts,            *)
(* voteHistory.ts, rationaleSync.ts), and the governance cron that freezes *)
(* the action and queues one last pull (db/governance.ts).  Every database *)
(* call is a step of its own; a run may die between two of them.           *)
(*                                                                         *)
(* One vote run is alive at a time: the trigger fires every twenty minutes *)
(* and an invocation ends well before.  The governance cron and the        *)
(* requests of DReps interleave with it freely.  The cross-post of a        *)
(* rationale in the thread is left out: nothing here reads it.              *)
(***************************************************************************)
EXTENDS Integers, Sequences, FiniteSets

\* As elsewhere, operators whose names contain _Bug are plausible bugs of the
\* definition after them, used by nothing: each property is shown to fail on one.

CONSTANTS
    Choices,    \* yes, no, abstain
    Anchors,    \* addresses of rationale documents
    Ballot,     \* what the DRep casts: a choice and an anchor or none
    Requests,   \* vote requests in flight at the same time
    MaxVotes,   \* bound on the votes cast
    MaxFaults   \* bound on failed calls and killed invocations

ASSUME VotesAssumption ==
    /\ Ballot \subseteq [choice : Choices, url : Anchors \cup {"none"}]
    /\ "none" \notin Anchors
    /\ MaxVotes \in Nat /\ MaxFaults \in Nat

VARIABLES
    chain,      \* the votes on chain in the order of their block_time, its index here
    flight,     \* flight[r]: the vote request r follows, not on chain yet
    open,       \* the ledger still takes votes on the action
    status,     \* governance_actions.status
    synced,     \* votes_synced_at is set
    vote,       \* the drep_votes row
    history,    \* drep_vote_history
    rationale,  \* the action_rationale row
    jobs,       \* notification_fanout_jobs written with a vote
    run,        \* the vote run
    req,        \* the vote requests
    faults,
    raced       \* history: a pull that had its answer crossed the last status change

site == <<status, synced, vote, history, rationale, jobs>>
ledger == <<chain, flight, open>>
vars == <<ledger, site, run, req, faults, raced>>

None == "none"
Decided == status # "active"

NoVote == [choice |-> None, url |-> None, time |-> 0, local |-> "absent", stale |-> FALSE]
OnChain(n) ==
    [choice |-> chain[n].choice, url |-> chain[n].url, time |-> n, local |-> "synced", stale |-> FALSE]
Pending(b) ==
    [choice |-> b.choice, url |-> b.url, time |-> 0, local |-> "pending", stale |-> FALSE]
NoRationale == [source |-> None, url |-> None, ok |-> FALSE]

Idle == [pc |-> "start", mode |-> None, seen |-> 0, old |-> NoVote, body |-> FALSE, url |-> None]
NoRequest == [pc |-> "idle", ballot |-> << >>, text |-> FALSE]

Init ==
    /\ chain = << >> /\ open = TRUE
    /\ flight = [r \in Requests |-> << >>]
    /\ status = "active" /\ synced = FALSE
    /\ vote = NoVote /\ history = {} /\ rationale = NoRationale
    /\ jobs = {}
    /\ run = Idle /\ req = [r \in Requests |-> NoRequest]
    /\ faults = 0 /\ raced = FALSE

Authoritative(v) == v.local = "synced"   \* local_status IS NULL

-----------------------------------------------------------------------------
(* The ledger.                                                             *)

Cast == Len(chain) + Cardinality({r \in Requests : flight[r] # << >>})

\* A vote sent without the site, or by a request that reported nothing.
VoteElsewhere ==
    /\ open /\ Cast < MaxVotes
    /\ \E b \in Ballot : chain' = Append(chain, b)
    /\ UNCHANGED <<flight, open, site, run, req, faults, raced>>

\* A transaction that never lands is lost.
Land(r) ==
    /\ open /\ flight[r] # << >>
    /\ chain' = chain \o flight[r]
    /\ flight' = [flight EXCEPT ![r] = << >>]
    /\ UNCHANGED <<open, site, run, req, faults, raced>>

\* What is in flight comes too late.
Close ==
    /\ open
    /\ open' = FALSE
    /\ flight' = [r \in Requests |-> << >>]
    /\ UNCHANGED <<chain, site, run, req, faults, raced>>

-----------------------------------------------------------------------------
(* The governance cron.                                                    *)

Pulled == run.pc \in {"existing", "bodies", "batch", "mark"}

Advance_Bug(s) == status' = s /\ UNCHANGED synced

\* Both updates null votes_synced_at.
Advance(s) == status' = s /\ synced' = FALSE

\* A ratified action takes votes until the end of the epoch, the others are
\* decided when their time is over.
Freeze ==
    /\ status = "active"
    /\ \/ Advance("ratified")
       \/ ~open /\ Advance("closed")
    /\ raced' = Pulled
    /\ UNCHANGED <<ledger, vote, history, rationale, jobs, run, req, faults>>

Enact ==
    /\ status = "ratified" /\ ~open
    /\ Advance("enacted")
    /\ raced' = Pulled
    /\ UNCHANGED <<ledger, vote, history, rationale, jobs, run, req, faults>>

-----------------------------------------------------------------------------
(* The vote run: the live pull, the rationales, the pull of a decided      *)
(* action, and the votes that never confirmed.                             *)

Follows(mode) == IF mode = "live" THEN "rationales" ELSE "stale"
Leave == [Idle EXCEPT !.pc = Follows(run.mode)]

ListActive ==
    /\ run.pc = "start"
    /\ run' = IF Decided THEN [Idle EXCEPT !.pc = "rationales"]
                         ELSE [Idle EXCEPT !.pc = "fetch", !.mode = "live"]
    /\ UNCHANGED <<ledger, site, req, faults, raced>>

\* Candidates rest after an attempt, which only delays the pull.
ListDecided ==
    /\ run.pc = "backfill"
    /\ run' = IF Decided /\ ~synced THEN [Idle EXCEPT !.pc = "fetch", !.mode = "backfill"]
                                    ELSE [Idle EXCEPT !.pc = "stale"]
    /\ UNCHANGED <<ledger, site, req, faults, raced>>

\* The indexer answers with the votes on chain; an empty list writes nothing.
Fetch ==
    /\ run.pc = "fetch"
    /\ run' = [run EXCEPT !.pc = IF chain = << >> THEN "mark" ELSE "existing", !.seen = Len(chain)]
    /\ UNCHANGED <<ledger, site, req, faults, raced>>

\* computeSupersededChanges: an authoritative row that a newer vote changes.
Newer(old, new) == Authoritative(old) /\ new.time > old.time
AnchorMoved(old, new) == old.url # new.url
Supersedes(old, new) == Newer(old, new) /\ (old.choice # new.choice \/ AnchorMoved(old, new))

LoadExisting ==
    /\ run.pc = "existing"
    /\ run' = [run EXCEPT !.old = vote,
                 !.pc = IF Supersedes(vote, OnChain(run.seen)) THEN "bodies" ELSE "batch"]
    /\ UNCHANGED <<ledger, site, req, faults, raced>>

ReadBodies ==
    /\ run.pc = "bodies"
    /\ run' = [run EXCEPT !.body = rationale # NoRationale, !.pc = "batch"]
    /\ UNCHANGED <<ledger, site, req, faults, raced>>

Job(event, time) == [event |-> event, time |-> time]

\* A pending row is taken for a known vote, which it is not.
VoteJobs_Bug(old, new) ==
    IF old = NoVote THEN {Job("voted", new.time)}
    ELSE {Job("re_voted", new.time) : x \in {y \in {1} : Newer(old, new) /\ old.choice # new.choice}}

\* classifyVoteJobs, for a DRep somebody follows.
VoteJobs(old, new) ==
    IF ~Authoritative(old) THEN {Job("voted", new.time)}
    ELSE {Job("re_voted", new.time) : x \in {y \in {1} : Newer(old, new) /\ old.choice # new.choice}}

\* A self-cast vote with a rationale is confirmed: its author may share it.
ReadyNotice(old, new) ==
    IF old.local \in {"pending", "failed"} /\ new.url # None
    THEN {Job("rationale_ready", new.time)} ELSE {}

Archived(old) == [choice |-> old.choice, url |-> old.url, time |-> old.time]

\* One batch: the archive, the row, the jobs.  Only a live pull tells anyone.
Upsert ==
    LET new == OnChain(run.seen)
        changed == Supersedes(run.old, new)
    IN
    /\ run.pc = "batch"
    /\ vote' = new
    /\ history' = IF changed THEN history \cup {Archived(run.old)} ELSE history
    /\ rationale' = IF changed /\ AnchorMoved(run.old, new) /\ run.body THEN NoRationale ELSE rationale
    /\ jobs' = IF run.mode = "live" THEN jobs \cup VoteJobs(run.old, new) \cup ReadyNotice(run.old, new)
                                     ELSE jobs
    /\ run' = [Idle EXCEPT !.pc = "mark", !.mode = run.mode]
    /\ UNCHANGED <<ledger, status, synced, req, faults, raced>>

Mark ==
    /\ run.pc = "mark"
    /\ synced' = TRUE
    /\ run' = Leave
    /\ UNCHANGED <<ledger, status, vote, history, rationale, jobs, req, faults, raced>>

\* Only a vote without any rationale is looked at.
Wanted_Bug == Authoritative(vote) /\ vote.url # None /\ rationale = NoRationale

\* getRationaleFetchQueue: the document hash is known for a vote of the chain only.
Wanted == Authoritative(vote) /\ vote.url # None /\ (rationale.url # vote.url \/ ~rationale.ok)

QueueRationale ==
    /\ run.pc = "rationales"
    /\ run' = IF Wanted THEN [Idle EXCEPT !.pc = "anchor", !.url = vote.url]
                        ELSE [Idle EXCEPT !.pc = "backfill"]
    /\ UNCHANGED <<ledger, site, req, faults, raced>>

\* The document is fetched, or is not, and the outcome stored either way.
StoreRationale(ok) ==
    /\ run.pc = "anchor"
    /\ ok \/ faults < MaxFaults
    /\ faults' = IF ok THEN faults ELSE faults + 1
    /\ rationale' = [source |-> "onchain", url |-> run.url, ok |-> ok]
    /\ run' = [Idle EXCEPT !.pc = "backfill"]
    /\ UNCHANGED <<ledger, status, synced, vote, history, jobs, req, raced>>

\* Only the votes of open actions are looked at.
Overdue_Bug == vote.local = "pending" /\ vote.stale /\ ~Decided

\* Pending for longer than PENDING_VOTE_TTL_SEC at the cutoff of the run.
Overdue == vote.local = "pending" /\ vote.stale

SelectStale ==
    /\ run.pc = "stale"
    /\ run' = IF Overdue THEN [Idle EXCEPT !.pc = "fail"] ELSE Idle
    /\ UNCHANGED <<ledger, site, req, faults, raced>>

MarkFailed ==
    /\ run.pc = "fail"
    /\ vote' = IF Overdue THEN [vote EXCEPT !.local = "failed"] ELSE vote
    /\ run' = [run EXCEPT !.pc = "reap"]
    /\ UNCHANGED <<ledger, status, synced, history, rationale, jobs, req, faults, raced>>

\* reapFailedVoteArtifacts, for the vote selected above.
ReapRationale ==
    /\ run.pc = "reap"
    /\ rationale' = IF rationale.source = "dreptalk" THEN NoRationale ELSE rationale
    /\ run' = Idle
    /\ UNCHANGED <<ledger, status, synced, vote, history, jobs, req, faults, raced>>

\* A call fails: the pull is given up and the next phase runs.
FailCall ==
    /\ faults < MaxFaults
    /\ run.pc \in {"fetch", "existing", "bodies", "batch", "mark"}
    /\ faults' = faults + 1
    /\ run' = Leave
    /\ UNCHANGED <<ledger, site, req, raced>>

\* The invocation is killed.
Kill ==
    /\ faults < MaxFaults /\ run.pc # "start"
    /\ faults' = faults + 1
    /\ run' = Idle
    /\ UNCHANGED <<ledger, site, req, raced>>

RunStep ==
    \/ ListActive \/ Fetch \/ LoadExisting \/ ReadBodies \/ Upsert \/ Mark
    \/ QueueRationale \/ StoreRationale(TRUE) \/ ListDecided
    \/ SelectStale \/ MarkFailed \/ ReapRationale

-----------------------------------------------------------------------------
(* A vote cast through the site.                                           *)

\* The wallet submits the transaction, then the browser reports it.
Submit(r) ==
    /\ req[r].pc = "idle" /\ flight[r] = << >>
    /\ open /\ Cast < MaxVotes
    /\ \E b \in Ballot, t \in BOOLEAN :
         /\ t => b.url # None
         /\ flight' = [flight EXCEPT ![r] = <<b>>]
         /\ req' = [req EXCEPT ![r] = [pc |-> "check", ballot |-> <<b>>, text |-> t]]
    /\ UNCHANGED <<chain, open, site, run, faults, raced>>

CheckStatus(r) ==
    /\ req[r].pc = "check"
    /\ req' = [req EXCEPT ![r] = IF Decided THEN NoRequest ELSE [req[r] EXCEPT !.pc = "record"]]
    /\ UNCHANGED <<ledger, site, run, faults, raced>>

Overwritable_Bug == TRUE

\* The WHERE of the upsert: a vote of the chain gives way while the action is open.
Overwritable == ~Authoritative(vote) \/ ~Decided

LocalRow_Bug(b) == [Pending(b) EXCEPT !.local = IF vote.local = "absent" THEN "pending" ELSE vote.local]

\* Every column of the row is reset but the power.
LocalRow(b) == Pending(b)

RecordLocalVote(r) ==
    /\ req[r].pc = "record"
    /\ vote' = IF Overwritable THEN LocalRow(req[r].ballot[1]) ELSE vote
    /\ req' = [req EXCEPT ![r] = IF req[r].text THEN [req[r] EXCEPT !.pc = "rationale"] ELSE NoRequest]
    /\ UNCHANGED <<ledger, status, synced, history, rationale, jobs, run, faults, raced>>

WriteRationale(r) ==
    /\ req[r].pc = "rationale"
    /\ rationale' = [source |-> "dreptalk", url |-> req[r].ballot[1].url, ok |-> TRUE]
    /\ req' = [req EXCEPT ![r] = NoRequest]
    /\ UNCHANGED <<ledger, status, synced, vote, history, jobs, run, faults, raced>>

\* The request dies; its transaction is on its way all the same.
Abort(r) ==
    /\ faults < MaxFaults /\ req[r].pc # "idle"
    /\ faults' = faults + 1
    /\ req' = [req EXCEPT ![r] = NoRequest]
    /\ UNCHANGED <<ledger, site, run, raced>>

RequestStep(r) ==
    CheckStatus(r) \/ RecordLocalVote(r) \/ WriteRationale(r)

\* Six hours pass since the vote was recorded.  The cutoff of a run is fixed
\* when it selects.
Age ==
    /\ vote.local = "pending" /\ ~vote.stale /\ run.pc # "fail"
    /\ vote' = [vote EXCEPT !.stale = TRUE]
    /\ UNCHANGED <<ledger, status, synced, history, rationale, jobs, run, req, faults, raced>>

Next ==
    \/ VoteElsewhere \/ Close \/ Freeze \/ Enact \/ Age
    \/ RunStep \/ StoreRationale(FALSE) \/ FailCall \/ Kill
    \/ \E r \in Requests : Land(r) \/ Submit(r) \/ RequestStep(r) \/ Abort(r)

Spec == Init /\ [][Next]_vars

\* The vote cron fires again and again, a request gets its answer, time passes.
Fairness ==
    /\ WF_vars(RunStep) /\ WF_vars(Age)
    /\ \A r \in Requests : WF_vars(RequestStep(r))

FairSpec == Spec /\ Fairness

-----------------------------------------------------------------------------
(* Properties.                                                             *)

RunPcs == {"start", "fetch", "existing", "bodies", "batch", "mark", "rationales", "anchor",
           "backfill", "stale", "fail", "reap"}
RequestPcs == {"idle", "check", "record", "rationale"}
Urls == Anchors \cup {None}
Times == Nat \ {0}
VoteRow ==
    {NoVote}
    \cup [choice : Choices, url : Urls, time : {0}, local : {"pending", "failed"}, stale : BOOLEAN]
    \cup [choice : Choices, url : Urls, time : Times, local : {"synced"}, stale : {FALSE}]

\* Types: in the row, a vote has a block_time exactly when it is the chain's
\* (recordLocalVote, buildVoteUpsertStatements).
TypeOK ==
    /\ chain \in Seq(Ballot) /\ open \in BOOLEAN
    /\ flight \in [Requests -> {<<b>> : b \in Ballot} \cup {<< >>}]
    /\ status \in {"active", "ratified", "closed", "enacted"} /\ synced \in BOOLEAN
    /\ vote \in VoteRow
    /\ history \subseteq [choice : Choices, url : Urls, time : Times]
    /\ rationale \in [source : {None, "onchain", "dreptalk"}, url : Urls, ok : BOOLEAN]
    /\ jobs \subseteq [event : {"voted", "re_voted", "rationale_ready"}, time : Times]
    /\ run \in [pc : RunPcs, mode : {None, "live", "backfill"}, seen : Nat, old : VoteRow,
                body : BOOLEAN, url : Urls]
    /\ req \in [Requests -> [pc : RequestPcs, ballot : {<<b>> : b \in Ballot} \cup {<< >>},
                             text : BOOLEAN]]
    /\ faults \in 0..MaxFaults /\ raced \in BOOLEAN

\* What counts for good, a badge or the archive, is a vote of the chain: a row
\* without local_status and every archived vote are votes that are on chain,
\* whatever the site recorded before them (confirmedVoteSql, voteHistory.ts).
OfChain(v) == v.time \in 1..Len(chain) /\ v.choice = chain[v.time].choice /\ v.url = chain[v.time].url
ConfirmedOnChain == (Authoritative(vote) => OfChain(vote)) /\ \A h \in history : OfChain(h)

\* The followers were last told the choice the site shows for the DRep, however
\* the self-cast rows, the runs and the chain interleaved (classifyVoteJobs).
Told == {j \in jobs : j.event # "rationale_ready"}
TellsLatest ==
    ~Decided /\ Authoritative(vote) =>
        \E j \in Told : chain[j.time].choice = vote.choice /\ \A k \in Told : k.time <= j.time

\* A self-cast vote does not stay in doubt: the chain confirms it or it fails
\* (markStalePendingVotesFailed).
PendingResolved == (vote.local = "pending") ~> (vote.local # "pending")

\* The vote an action ended with is the one the site keeps for good once the
\* action is closed or enacted (a ratified one still takes votes),
\* unless a pull that already had its answer crossed the status change: then
\* markVotesSynced takes the action off the queue of final pulls
\* (updateGovernanceTallyAndStatus, recordLocalVote).
FinalVoteKept ==
    <>[](status \in {"closed", "enacted"} /\ ~raced /\ chain # << >> =>
            Authoritative(vote) /\ vote.time = Len(chain))

\* A stored vote ends up with the rationale it anchors, although requests,
\* reaping and fetches in flight write the same row (getRationaleFetchQueue).
RationaleCatchesUp ==
    <>[](Authoritative(vote) /\ vote.url # None => rationale.url = vote.url /\ rationale.ok)
=============================================================================

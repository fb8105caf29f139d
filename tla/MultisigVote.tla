---------------------------- MODULE MultisigVote ----------------------------
(***************************************************************************)
(* Votes of a DRep whose credential is a native script: a member stores an *)
(* unsigned transaction, the signers add their witnesses one call at a     *)
(* time, any browser assembles the satisfied transaction, has its wallet   *)
(* fund and submit it and reports the hash (api/drep/multisig over         *)
(* db/pendingMultisigTx.ts), and the cron deletes what was never reported. *)
(* The members vote on one governance action; its row in drep_votes is     *)
(* pulled from the chain as DrepVotes describes, here in one step.  A call *)
(* that is cut off, and a browser that is closed, takes no further step.   *)
(***************************************************************************)
EXTENDS Integers, FiniteSets

\* As elsewhere, operators whose names contain _Bug are plausible bugs of the
\* definition after them, used by nothing: each property is shown to fail on one.

CONSTANTS
    Txs,        \* the transactions members build, one per pending vote
    Signers,    \* the keys of the native script
    Satisfying, \* the sets of signers that satisfy it
    Requests,   \* witness calls in flight
    Tabs,       \* browsers that create or submit a vote
    MaxTries,   \* ADD_WITNESS_MAX_ATTEMPTS
    Window,     \* the 36 hours of a pending vote, in ticks
    MaxClock    \* bound on time

ASSUME MultisigAssumption ==
    /\ IsFiniteSet(Signers) /\ Satisfying \subseteq SUBSET Signers
    /\ MaxTries \in Nat /\ Cardinality(Signers) <= MaxTries
    /\ Window \in Nat /\ MaxClock \in Nat
    /\ "none" \notin Txs

VARIABLES
    clock,
    active,   \* governance_actions.status is active
    pend,     \* pending_multisig_tx
    req,      \* the witness calls
    tab,      \* the browsers
    sent,     \* transactions a wallet submitted
    last,     \* the transaction whose vote on the action counts on chain
    landed,   \* transactions on chain
    vote,     \* drep_votes of the DRep
    final,    \* the vote list was pulled after the action was decided
    acked,    \* history: acked[p], the signers told that their witness is in
    refused,  \* history: refused[p], the signers turned away after MaxTries
    recorded  \* history: transactions whose vote was recorded, with repetitions counted

vars == <<clock, active, pend, req, tab, sent, last, landed, vote, final, acked, refused, recorded>>
chain == <<sent, last, landed>>
answers == <<acked, refused>>

NoPending == [status |-> "none", signed |-> {}, expires |-> 0]
NoRequest == [pc |-> "idle", tx |-> "none", key |-> "none", seen |-> {}, tries |-> 0]
Closed == [pc |-> "idle", tx |-> "none"]
NoVote == [tx |-> "none", local |-> "none"]
Synced(p) == [tx |-> p, local |-> "null"]

Init ==
    /\ clock = 0 /\ active = TRUE
    /\ pend = [p \in Txs |-> NoPending]
    /\ req = [r \in Requests |-> NoRequest] /\ tab = [b \in Tabs |-> Closed]
    /\ sent = {} /\ last = "none" /\ landed = {}
    /\ vote = NoVote /\ final = FALSE
    /\ acked = [p \in Txs |-> {}] /\ refused = [p \in Txs |-> {}] /\ recorded = [p \in Txs |-> 0]

Collecting(p) == pend[p].status = "collecting"

-----------------------------------------------------------------------------
(* Time, the chain and the vote list.                                      *)

Tick ==
    /\ clock < MaxClock /\ clock' = clock + 1
    /\ UNCHANGED <<active, pend, req, tab, chain, vote, final, answers, recorded>>

\* A later vote of the DRep replaces the one before it. The ledger takes votes
\* until the action is over, which the status shows later (Decide): the votes of
\* the time in between are those that never land.
Land(p) ==
    /\ active /\ p \in sent \ landed
    /\ landed' = landed \cup {p} /\ last' = p
    /\ UNCHANGED <<clock, active, pend, req, tab, sent, vote, final, answers, recorded>>

Decide ==
    /\ active /\ active' = FALSE
    /\ UNCHANGED <<clock, pend, req, tab, chain, vote, final, answers, recorded>>

\* syncGovernanceVotes, while the action is active and once after it is decided.
Pull ==
    /\ active \/ ~final
    /\ vote' = IF last = "none" THEN vote ELSE Synced(last)
    /\ final' = ~active
    /\ UNCHANGED <<clock, active, pend, req, tab, chain, answers, recorded>>

\* markStalePendingVotesFailed, at any time after the vote was recorded.
MarkFailed ==
    /\ vote.local = "pending"
    /\ vote' = [vote EXCEPT !.local = "failed"]
    /\ UNCHANGED <<clock, active, pend, req, tab, chain, final, answers, recorded>>

Expired(p) == Collecting(p) /\ pend[p].expires <= clock

\* deleteExpiredPending
Expire ==
    /\ \E p \in Txs : Expired(p)
    /\ pend' = [p \in Txs |-> IF Expired(p) THEN [NoPending EXCEPT !.status = "deleted"] ELSE pend[p]]
    /\ UNCHANGED <<clock, active, req, tab, chain, vote, final, answers, recorded>>

-----------------------------------------------------------------------------
(* POST /api/drep/multisig                                                 *)

\* Only an active action takes a vote; the script is loaded after the check.
Initiate(b, p) ==
    /\ tab[b].pc = "idle" /\ active /\ pend[p].status = "none"
    /\ \A c \in Tabs : tab[c].tx # p
    /\ tab' = [tab EXCEPT ![b] = [pc |-> "store", tx |-> p]]
    /\ UNCHANGED <<clock, active, pend, req, chain, vote, final, answers, recorded>>

Store(b) ==
    /\ tab[b].pc = "store"
    /\ pend' = [pend EXCEPT ![tab[b].tx] = [status |-> "collecting", signed |-> {}, expires |-> clock + Window]]
    /\ tab' = [tab EXCEPT ![b] = Closed]
    /\ UNCHANGED <<clock, active, req, chain, vote, final, answers, recorded>>

-----------------------------------------------------------------------------
(* POST /api/drep/multisig/[id]/witness                                    *)

\* The check for a duplicate key.
Has(p, k) == k \in pend[p].signed

\* The handler's own read: a collecting row without this key.
Sign(r, p, k) ==
    /\ req[r].pc = "idle" /\ Collecting(p) /\ ~Has(p, k)
    /\ req' = [req EXCEPT ![r] = [NoRequest EXCEPT !.pc = "read", !.tx = p, !.key = k]]
    /\ UNCHANGED <<clock, active, pend, tab, chain, vote, final, answers, recorded>>

\* addPendingWitness reads the row again: it is gone, has the key, or is taken
\* as the value to swap.
ReadRow(r) ==
    LET p == req[r].tx
        k == req[r].key
        in == Collecting(p) /\ Has(p, k)
        done == ~Collecting(p) \/ in
    IN
    /\ req[r].pc = "read"
    /\ req' = [req EXCEPT ![r] = IF done THEN NoRequest
                                 ELSE [req[r] EXCEPT !.pc = "swap", !.seen = pend[p].signed]]
    /\ acked' = [acked EXCEPT ![p] = IF in THEN acked[p] \cup {k} ELSE acked[p]]
    /\ UNCHANGED <<clock, active, pend, tab, chain, vote, final, refused, recorded>>

Unchanged_Bug(p, seen) == Collecting(p)

\* The WHERE of the compare-and-swap.
Unchanged(p, seen) == Collecting(p) /\ pend[p].signed = seen

Exhausted_Bug(tries) == tries + 1 >= MaxTries

Exhausted(tries) == tries >= MaxTries

Swap(r) ==
    LET p == req[r].tx
        k == req[r].key
        tries == req[r].tries + 1
    IN
    /\ req[r].pc = "swap"
    /\ \/ /\ Unchanged(p, req[r].seen)
          /\ pend' = [pend EXCEPT ![p] = [pend[p] EXCEPT !.signed = req[r].seen \cup {k}]]
          /\ acked' = [acked EXCEPT ![p] = acked[p] \cup {k}]
          /\ req' = [req EXCEPT ![r] = NoRequest]
          /\ UNCHANGED refused
       \/ /\ ~Unchanged(p, req[r].seen) /\ Exhausted(tries)
          /\ refused' = [refused EXCEPT ![p] = refused[p] \cup {k}]
          /\ req' = [req EXCEPT ![r] = NoRequest]
          /\ UNCHANGED <<pend, acked>>
       \/ /\ ~Unchanged(p, req[r].seen) /\ ~Exhausted(tries)
          /\ req' = [req EXCEPT ![r] = [req[r] EXCEPT !.pc = "read", !.tries = tries]]
          /\ UNCHANGED <<pend, answers>>
    /\ UNCHANGED <<clock, active, tab, chain, vote, final, recorded>>

-----------------------------------------------------------------------------
(* Submission.                                                             *)

Satisfied_Bug(p) == pend[p].signed # {}

Satisfied(p) == pend[p].signed \in Satisfying

\* POST .../submit: 410 after the window, 409 unless it collects and is satisfied.
Assemble(b, p) ==
    /\ tab[b].pc = "idle" /\ Collecting(p)
    /\ clock <= pend[p].expires /\ Satisfied(p)
    /\ tab' = [tab EXCEPT ![b] = [pc |-> "wallet", tx |-> p]]
    /\ UNCHANGED <<clock, active, pend, req, chain, vote, final, answers, recorded>>

\* The node takes a transaction whose inputs are unspent, while votes are taken.
Submit(b) ==
    /\ tab[b].pc = "wallet" /\ active /\ tab[b].tx \notin sent
    /\ sent' = sent \cup {tab[b].tx}
    /\ tab' = [tab EXCEPT ![b].pc = "report"]
    /\ UNCHANGED <<clock, active, pend, req, last, landed, vote, final, answers, recorded>>

\* The wallet declines or the node rejects.
Reject(b) ==
    /\ tab[b].pc = "wallet"
    /\ tab' = [tab EXCEPT ![b] = Closed]
    /\ UNCHANGED <<clock, active, pend, req, chain, vote, final, answers, recorded>>

\* POST .../submitted by the browser that submitted: 404 or 409 unless the row
\* collects.
Report(b) ==
    /\ tab[b].pc = "report"
    /\ tab' = [tab EXCEPT ![b] = IF Collecting(tab[b].tx) THEN [tab[b] EXCEPT !.pc = "claim"] ELSE Closed]
    /\ UNCHANGED <<clock, active, pend, req, chain, vote, final, answers, recorded>>

\* The same call by any member who has the id of the row, again or before anything
\* was submitted: the handler takes whatever hash it is given. The tx of a vote is
\* the row it was recorded from, under that hash.
ReportToo(b, p) ==
    /\ tab[b].pc = "idle" /\ Collecting(p)
    /\ tab' = [tab EXCEPT ![b] = [pc |-> "claim", tx |-> p]]
    /\ UNCHANGED <<clock, active, pend, req, chain, vote, final, answers, recorded>>

Claimable_Bug(p) == pend[p].status \in {"collecting", "submitted"}

Claimable(p) == Collecting(p)

\* markPendingSubmitted
ClaimSubmitted(b) ==
    LET p == tab[b].tx IN
    /\ tab[b].pc = "claim"
    /\ IF Claimable(p)
         THEN /\ pend' = [pend EXCEPT ![p] = [pend[p] EXCEPT !.status = "submitted"]]
              /\ tab' = [tab EXCEPT ![b].pc = "record"]
         ELSE tab' = [tab EXCEPT ![b] = Closed] /\ UNCHANGED pend
    /\ UNCHANGED <<clock, active, req, chain, vote, final, answers, recorded>>

Overwritable_Bug == TRUE

\* A synced row is only overwritten while its action is active.
Overwritable == vote.local # "null" \/ active

\* recordLocalVote
Record(b) ==
    LET p == tab[b].tx IN
    /\ tab[b].pc = "record"
    /\ vote' = IF Overwritable THEN [tx |-> p, local |-> "pending"] ELSE vote
    /\ recorded' = [recorded EXCEPT ![p] = recorded[p] + 1]
    /\ tab' = [tab EXCEPT ![b] = Closed]
    /\ UNCHANGED <<clock, active, pend, req, chain, final, answers>>

RequestStep(r) ==
    \/ \E p \in Txs, k \in Signers : Sign(r, p, k)
    \/ ReadRow(r) \/ Swap(r)

TabStep(b) ==
    \/ \E p \in Txs : Initiate(b, p) \/ Assemble(b, p) \/ ReportToo(b, p)
    \/ Store(b) \/ Submit(b) \/ Reject(b) \/ Report(b) \/ ClaimSubmitted(b) \/ Record(b)

Next ==
    \/ Tick \/ Decide \/ Pull \/ MarkFailed \/ Expire
    \/ \E p \in Txs : Land(p)
    \/ \E r \in Requests : RequestStep(r)
    \/ \E b \in Tabs : TabStep(b)

Spec == Init /\ [][Next]_vars

-----------------------------------------------------------------------------
(* Properties.                                                             *)

TxOrNone == Txs \cup {"none"}

\* Types; a call about to swap read a row without its key (addPendingWitness).
TypeOK ==
    /\ clock \in 0..MaxClock /\ active \in BOOLEAN /\ final \in BOOLEAN
    /\ pend \in [Txs -> [status : {"none", "collecting", "submitted", "deleted"},
                         signed : SUBSET Signers, expires : 0..(MaxClock + Window)]]
    /\ req \in [Requests -> {NoRequest} \cup [pc : {"read", "swap"}, tx : Txs, key : Signers,
                                              seen : SUBSET Signers, tries : 0..MaxTries]]
    /\ \A r \in Requests : req[r].pc = "swap" => req[r].key \notin req[r].seen
    /\ tab \in [Tabs -> {Closed} \cup [pc : {"store", "wallet", "report", "claim", "record"}, tx : Txs]]
    /\ landed \subseteq sent /\ sent \subseteq Txs /\ last \in TxOrNone
    /\ vote \in [tx : TxOrNone, local : {"none", "null", "pending", "failed"}]
    /\ acked \in [Txs -> SUBSET Signers] /\ refused \in [Txs -> SUBSET Signers]
    /\ recorded \in [Txs -> Nat]

\* "Two co-signers appending at once would otherwise clobber each other, one
\* signature silently lost" (addPendingWitness): a witness that was acknowledged
\* is in the row as long as the row is there.
AckedKept ==
    \A p \in Txs : pend[p].status \in {"collecting", "submitted"} => acked[p] \subseteq pend[p].signed

\* "A handful of attempts covers realistic concurrency" (ADD_WITNESS_MAX_ATTEMPTS):
\* with no more signers than attempts, a signer who is turned away has signed
\* already, through another call, or the collection has ended.
NoSignerTurnedAway ==
    \A p \in Txs : Collecting(p) => refused[p] \subseteq pend[p].signed

\* "Only the winner records the vote" (submitted.ts): a reported row
\* puts its vote into drep_votes at most once, and only after its row is closed.
RecordedOnce ==
    \A p \in Txs : recorded[p] <= 1 /\ (recorded[p] = 1 => pend[p].status = "submitted")

\* Once the list of a decided action was pulled, the row shows the last vote on
\* the chain, whatever is reported afterwards (recordLocalVote: "on a decided
\* action nothing would ever restore the real vote").
FinalVoteShown == final /\ last # "none" => vote = Synced(last)

\* The signing round as one ledger of witnesses, in which a signature is added and
\* acknowledged in one step: a transaction is sent only with enough of them, even
\* when its row is closed or gone by then, nothing is signed in a row that was
\* closed, and its vote is recorded once (addPendingWitness, submit.ts,
\* markPendingSubmitted).
Ledger == INSTANCE WitnessLedger WITH
    stage  <- [p \in Txs |-> pend[p].status],
    signed <- [p \in Txs |-> pend[p].signed],
    votes  <- recorded

Promise == Ledger!Spec
=============================================================================

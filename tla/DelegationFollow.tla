---------------------------- MODULE DelegationFollow ----------------------------
(***************************************************************************)
(* The tracked delegation of an account: applyResolution and the capture   *)
(* of the delegation start (src/src/lib/db/delegatorFollows.ts), run by a  *)
(* sign-in for one account and by the cron for every due one               *)
(* (resolveFollow and refreshBulk in src/src/lib/delegation/refresh.ts).   *)
(*                                                                         *)
(* A task asks the indexer, applies the answer with single statements, and *)
(* asks again for the epoch of the delegation.  Between any two calls      *)
(* another task may write the same row and the wallet may delegate anew.   *)
(*                                                                         *)
(* A clock unit is hours, a call takes seconds: time passes only between   *)
(* tasks.  A delegation is named by its position in the wallet's history,  *)
(* which also stands for its epoch.  checked_at, refresh_error_at,         *)
(* expected_tx and the old state in a notice's payload are left out.       *)
(***************************************************************************)
EXTENDS Integers, Sequences, FiniteSets

CONSTANTS
    Users,        \* numbers, in the order of user_id
    Dreps,
    Logins,       \* resolveFollow tasks that can be in flight at the same time
    Crons,        \* refreshBulk tasks, likewise
    Seconds,      \* the seconds of a clock unit in which tasks start
    DueAfter,     \* DUE_INTERVAL_SEC
    RetryAfter,   \* SINCE_RETRY_SEC
    ExpectedTtl,  \* EXPECTED_TTL_SEC
    Swings,       \* the indexer can report a state older than one on the chain
    BulkLimit,    \* rows of one bulk refresh
    SinceCap,     \* SINCE_BULK_CAP
    MaxClock,     \* bound: last clock unit
    MaxMoves,     \* bound: delegations on the chain
    MaxLogins,    \* bound: sign-ins
    MaxFailures,  \* bound: accounts the indexer could not resolve
    MaxFaults     \* bound: evicted tasks and failed writes

Tasks  == Logins \cup Crons
NoDrep == "none"     \* delegation type 'none', a resolved state
Unset  == "pending"  \* no delegation resolved yet

ASSUME FollowAssumption ==
    /\ Users \subseteq Nat /\ IsFiniteSet(Users)
    /\ Users # {} /\ Seconds # {}
    /\ {NoDrep, Unset} \cap Dreps = {}
    /\ Logins \cap Crons = {}
    /\ {DueAfter, RetryAfter, ExpectedTtl, BulkLimit, SinceCap} \subseteq Nat \ {0}
    /\ Swings \in BOOLEAN
    /\ {MaxClock, MaxMoves, MaxLogins, MaxFailures, MaxFaults} \subseteq Nat

VARIABLES
    clock,
    wallet,    \* per user, the delegations on the chain and one on its way there
    row,       \* delegator_follows
    inbox,     \* delegation_changed notices: their key and the delegation they report
    task,
    moves, logins, failures, faults

bounds == <<moves, logins, failures, faults>>
vars   == <<clock, wallet, row, inbox, task, bounds>>

Wallet == [history   : Seq(Dreps \cup {NoDrep}),  \* oldest first
           moved     : Nat,                       \* when the newest was made
           submitted : Dreps \cup {Unset},        \* expected, and not on the chain yet
           own       : SUBSET Nat]                \* history: positions expected before they landed

Row == [tracked   : BOOLEAN,
        drep      : Dreps \cup {NoDrep, Unset},
        attempted : Nat,  \* refresh_attempted_at, 0 for NULL, as in all columns
        since     : Nat,  \* delegated_since_epoch
        sinceAt   : Nat,  \* since_checked_at
        tries     : Nat,  \* since_attempts
        expAt     : Nat]  \* expected_at

Step   == {"idle", "expect", "ask", "apply", "change", "same", "retry", "list", "lookup", "write"}
Lookup == {s \in [epoch : Nat, failed : BOOLEAN] : s.failed => s.epoch = 0}
Task   == [at     : Step,
           now    : Nat,
           second : Seconds,
           batch  : SUBSET Users,       \* the accounts the task refreshes
           todo   : SUBSET Users,       \* those not applied, or not written, yet
           user   : Users,              \* the one in hand
           answer : [Users -> Nat],     \* the delegation the indexer reported, 0 for none
           fresh  : BOOLEAN,            \* the row was created or changed by this sign-in
           seen   : [Users -> Nat],     \* since_checked_at as it was read
           of     : [Users -> Dreps \cup {NoDrep, Unset}], \* history: whose start it lacked
           start  : [Users -> Lookup]]  \* what the lookup of the start gave

TypeOK ==
    /\ clock \in Nat
    /\ wallet \in [Users -> Wallet]
    /\ row \in [Users -> Row]
    /\ inbox \in [Users -> SUBSET [now : Nat, second : Seconds, of : Nat]]
    /\ task \in [Tasks -> Task]
    /\ moves \in Nat /\ logins \in Nat /\ failures \in Nat /\ faults \in Nat

Nothing == [u \in Users |-> 0]
Resting == [at |-> "idle", now |-> 0, second |-> CHOOSE s \in Seconds : TRUE,
            batch |-> {}, todo |-> {}, user |-> CHOOSE u \in Users : TRUE,
            answer |-> Nothing, fresh |-> FALSE, seen |-> Nothing,
            of |-> [u \in Users |-> Unset],
            start |-> [u \in Users |-> [epoch |-> 0, failed |-> FALSE]]]

Init ==
    /\ clock = 1
    /\ wallet = [u \in Users |-> [history |-> <<NoDrep>>, moved |-> 0, submitted |-> Unset, own |-> {}]]
    /\ row = [u \in Users |-> [tracked |-> FALSE, drep |-> Unset, attempted |-> 0,
                               since |-> 0, sinceAt |-> 0, tries |-> 0, expAt |-> 0]]
    /\ inbox = [u \in Users |-> {}]
    /\ task = [t \in Tasks |-> Resting]
    /\ moves = 0 /\ logins = 0 /\ failures = 0 /\ faults = 0

-----------------------------------------------------------------------------
(* The chain, the indexer and time *)

Newest(u) == Len(wallet[u].history)

\* resolveDelegation of the delegation at position p.
State(u, p) == wallet[u].history[p]

\* delegationStartEpoch: the newest delegation event up to p, 0 when there is none,
\* as the number of positions up to it.
StartOf(u, p) == Cardinality({k \in 1..p : \E i \in k..p : State(u, i) # NoDrep})

Due_Bug == {u \in Users : /\ row[u].tracked  \* strictly older
                          /\ row[u].attempted = 0 \/ row[u].attempted < clock - DueAfter}
Due == {u \in Users : /\ row[u].tracked
                      /\ row[u].attempted = 0 \/ row[u].attempted <= clock - DueAfter}

\* The refresh phase runs four times an hour, so no unit passes over a due row.
\* A transaction that is not on the chain by then has expired.
Tick ==
    /\ clock < MaxClock
    /\ \A t \in Tasks : task[t].at = "idle"
    /\ Due = {}
    /\ clock' = clock + 1
    /\ wallet' = [u \in Users |-> [wallet[u] EXCEPT !.submitted = Unset]]
    /\ UNCHANGED <<row, inbox, task, bounds>>

Extend(w, d) == [w EXCEPT !.history = Append(@, d), !.moved = clock]

\* The wallet delegates elsewhere, again to the same DRep, or deregisters.
Delegate(u, d) ==
    /\ moves < MaxMoves
    /\ moves' = moves + 1
    /\ wallet' = [wallet EXCEPT ![u] = Extend(wallet[u], d)]
    /\ UNCHANGED <<clock, row, inbox, task, logins, failures, faults>>

\* A delegation that was expected first reaches the chain; one that reaches it before
\* its expectation is written is a Delegate.
Land(u) ==
    /\ moves < MaxMoves
    /\ moves' = moves + 1
    /\ wallet[u].submitted # Unset
    /\ wallet' = [wallet EXCEPT ![u] =
                    [Extend(wallet[u], wallet[u].submitted) EXCEPT !.submitted = Unset,
                                                   !.own = @ \cup {Newest(u) + 1}]]
    /\ UNCHANGED <<clock, row, inbox, task, logins, failures, faults>>

\* "Until the chain has settled the reported value can swing between the old
\* and the new one" (applyResolution).
Unsettled(u) == Swings /\ clock = wallet[u].moved

\* The delegation an answer of the indexer shows, in which some accounts are late.
Heard(u, late) == IF u \in late THEN Newest(u) - 1 ELSE Newest(u)

-----------------------------------------------------------------------------
(* A task begins *)

\* ensureFollow, then setExpectedDelegation when the dialog sent a delegation,
\* both before the resolve is scheduled (handlers.ts and track.ts).
SignIn(t, u, s, delegated) ==
    /\ logins < MaxLogins
    /\ logins' = logins + 1
    /\ task[t].at = "idle"
    /\ row' = [row EXCEPT ![u].tracked = TRUE]
    /\ task' = [task EXCEPT ![t] = [Resting EXCEPT
                  !.at = IF delegated THEN "expect" ELSE "ask",
                  !.now = clock, !.second = s, !.batch = {u}, !.todo = {u}, !.user = u]]
    /\ UNCHANGED <<clock, wallet, inbox, moves, failures, faults>>

\* The sign-in goes on without the expectation when the write fails.
Expect(t, d) ==
    LET u == task[t].user
    IN  /\ task[t].at = "expect"
        /\ \/ /\ row' = [row EXCEPT ![u].expAt = task[t].now]
              /\ wallet' = [wallet EXCEPT ![u].submitted = d]
              /\ UNCHANGED faults
           \/ /\ faults < MaxFaults
              /\ faults' = faults + 1
              /\ UNCHANGED <<row, wallet>>
        /\ task' = [task EXCEPT ![t].at = "ask"]
        /\ UNCHANGED <<clock, inbox, moves, logins, failures>>

\* A row of U comes before another by the time in `at`, then by user_id.
Stalest(S, U, at) ==
    \A a \in S, b \in U \ S : at[a] < at[b] \/ (at[a] = at[b] /\ a < b)

Capped(S, U, cap) ==
    S \subseteq U /\ \/ S = U /\ Cardinality(S) <= cap
                     \/ S # U /\ Cardinality(S) = cap

RefreshBulk(t, s) ==
    /\ task[t].at = "idle"
    /\ \E S \in SUBSET Due \ {{}} :
         /\ Capped(S, Due, BulkLimit)
         /\ Stalest(S, Due, [u \in Users |-> row[u].attempted])
         /\ task' = [task EXCEPT ![t] = [Resting EXCEPT
                       !.at = "ask", !.now = clock, !.second = s, !.batch = S, !.todo = S]]
    /\ UNCHANGED <<clock, wallet, row, inbox, bounds>>

Ask(t) ==
    /\ task[t].at = "ask"
    /\ \E got \in SUBSET task[t].batch :
         /\ failures' = failures + Cardinality(task[t].batch \ got)
         /\ failures' <= MaxFailures
         /\ \E late \in SUBSET {u \in got : Unsettled(u)} :
              task' = [task EXCEPT ![t] = [task[t] EXCEPT !.at = "apply",
                         !.answer = [u \in Users |-> IF u \in got THEN Heard(u, late) ELSE 0]]]
    /\ UNCHANGED <<clock, wallet, row, inbox, moves, logins, faults>>

\* accountInfoBatch throws: markBatchError, and the run is over.
AskFails(t) ==
    /\ t \in Crons
    /\ task[t].at = "ask"
    /\ failures' = failures + Cardinality(task[t].batch)
    /\ failures' <= MaxFailures
    /\ row' = [u \in Users |-> IF u \in task[t].batch
                                 THEN [row[u] EXCEPT !.attempted = task[t].now] ELSE row[u]]
    /\ task' = [task EXCEPT ![t] = Resting]
    /\ UNCHANGED <<clock, wallet, inbox, moves, logins, faults>>

-----------------------------------------------------------------------------
(* applyResolution, one statement or batch per step.  The rows of a batch    *)
(* are disjoint, so their order is left open.                                *)

\* What follows the last statement for u: a sign-in looks up the start or reads
\* the row again, the cron takes the next row or lists the missing starts.
NextRow(t, u) == IF task[t].todo = {u} THEN "list" ELSE "apply"
AfterRow(t, u, isFresh) ==
    IF t \in Crons THEN NextRow(t, u) ELSE IF isFresh THEN "lookup" ELSE "retry"

Applied(t, u, isFresh) ==
    task' = [task EXCEPT ![t] = [task[t] EXCEPT
               !.todo = @ \ {u},
               !.fresh = isFresh /\ t \in Logins,
               !.at = AfterRow(t, u, isFresh)]]

\* Only the attempt is stamped; the baseline stays.
ApplyError(t, u) ==
    /\ task[t].at = "apply"
    /\ u \in task[t].todo
    /\ task[t].answer[u] = 0
    /\ row' = [row EXCEPT ![u].attempted = task[t].now]
    /\ Applied(t, u, FALSE)
    /\ UNCHANGED <<clock, wallet, inbox, bounds>>

ApplyBaseline(t, u) ==
    /\ task[t].at = "apply"
    /\ u \in task[t].todo
    /\ task[t].answer[u] # 0
    /\ IF row[u].drep = Unset
         THEN /\ row' = [row EXCEPT ![u] = [row[u] EXCEPT !.drep = State(u, task[t].answer[u]),
                                                      !.attempted = task[t].now]]
              /\ Applied(t, u, TRUE)
         ELSE /\ task' = [task EXCEPT ![t] = [task[t] EXCEPT !.at = "change", !.user = u]]
              /\ UNCHANGED row
    /\ UNCHANGED <<clock, wallet, inbox, bounds>>

Expecting_Bug(r, n) == r.expAt # 0 /\ r.expAt >= n - DueAfter  \* a day's window
Expecting(r, n) == r.expAt # 0 /\ r.expAt >= n - ExpectedTtl

\* clearExpired
Stamped(r, n) == [r EXCEPT !.attempted = n, !.expAt = IF @ < n - ExpectedTtl THEN 0 ELSE @]

\* The event key is the second the task started in; ON CONFLICT DO NOTHING.
Keys(u) == {<<n.now, n.second>> : n \in inbox[u]}

Notice_Bug(t, u) ==  \* not gated by the change
    IF Expecting(row[u], task[t].now) \/ <<task[t].now, task[t].second>> \in Keys(u)
      THEN inbox[u]
      ELSE inbox[u] \cup {[now |-> task[t].now, second |-> task[t].second, of |-> task[t].answer[u]]}

Notice(t, u) ==
    IF \/ row[u].drep = State(u, task[t].answer[u])
       \/ Expecting(row[u], task[t].now)
       \/ <<task[t].now, task[t].second>> \in Keys(u)
      THEN inbox[u]
      ELSE inbox[u] \cup {[now |-> task[t].now, second |-> task[t].second, of |-> task[t].answer[u]]}

\* One batch: the notice and the new state, which has no start yet.
ApplyChange(t) ==
    LET u == task[t].user
        d == State(u, task[t].answer[u])
    IN  /\ task[t].at = "change"
        /\ inbox' = [inbox EXCEPT ![u] = Notice(t, u)]
        /\ IF row[u].drep # d
             THEN /\ row' = [row EXCEPT ![u] = [Stamped(row[u], task[t].now) EXCEPT
                               !.drep = d, !.since = 0, !.sinceAt = 0, !.tries = 0]]
                  /\ Applied(t, u, TRUE)
             ELSE /\ task' = [task EXCEPT ![t].at = "same"]
                  /\ UNCHANGED row
        /\ UNCHANGED <<clock, wallet, bounds>>

ApplySame(t) ==
    LET u == task[t].user
    IN  /\ task[t].at = "same"
        /\ row' = [row EXCEPT ![u] = Stamped(row[u], task[t].now)]
        /\ Applied(t, u, FALSE)
        /\ UNCHANGED <<clock, wallet, inbox, bounds>>

-----------------------------------------------------------------------------
(* The capture of the delegation start *)

Missing(u, n) ==
    row[u].since = 0 /\ (row[u].sinceAt = 0 \/ row[u].sinceAt < n - RetryAfter)

\* The row or the listing carries since_checked_at to the write.
ReadSinceAt == [u \in Users |-> row[u].sinceAt]
Reading(w)  == [w EXCEPT !.at = "lookup", !.seen = ReadSinceAt, !.of = [u \in Users |-> row[u].drep]]

\* A sign-in that wrote no new state: getFollow, and the decision to retry.
Retry(t) ==
    /\ task[t].at = "retry"
    /\ task' = IF Missing(task[t].user, task[t].now)
                 THEN [task EXCEPT ![t] = Reading(task[t])]
                 ELSE [task EXCEPT ![t] = Resting]
    /\ UNCHANGED <<clock, wallet, row, inbox, bounds>>

\* listFollowsMissingSince
ListMissing(t) ==
    LET M == {u \in task[t].batch : Missing(u, task[t].now)}
    IN  /\ task[t].at = "list"
        /\ \E S \in SUBSET M :
             /\ Capped(S, M, SinceCap)
             /\ Stalest(S, M, ReadSinceAt)
             /\ task' = IF S = {} THEN [task EXCEPT ![t] = Resting]
                        ELSE [task EXCEPT ![t] = [Reading(task[t]) EXCEPT !.batch = S]]
        /\ UNCHANGED <<clock, wallet, row, inbox, bounds>>

\* lookupSince, or the bulk history call: it can throw, and rows of accounts
\* can be missing.  An account without rows counts as a failed lookup, except
\* that the answer for a single account is taken at its word.
LookUp(t) ==
    LET B == task[t].batch
    IN  /\ task[t].at = "lookup"
        /\ \E threw \in BOOLEAN, got \in SUBSET B :
             /\ threw => got = {}
             /\ \E late \in SUBSET {u \in got : Unsettled(u)} :
                  task' = [task EXCEPT ![t] = [task[t] EXCEPT !.at = "write", !.todo = B, !.start =
                    [u \in Users |->
                       [epoch  |-> IF u \in got THEN StartOf(u, Heard(u, late)) ELSE 0,
                        failed |-> u \in B /\ (threw \/ (u \notin got /\ Cardinality(B) > 1))]]]]
        /\ UNCHANGED <<clock, wallet, row, inbox, bounds>>

\* attemptsSetClause
Tries(n, s) == IF s.failed THEN n ELSE IF s.epoch # 0 THEN 0 ELSE n + 1

Captured(r, n, s) == [r EXCEPT !.since = s.epoch, !.sinceAt = n, !.tries = Tries(@, s)]

\* setDelegatedSince: a sign-in that wrote a new state, whatever the row holds now.
WriteFlat(t) ==
    LET u == task[t].user
    IN  /\ task[t].at = "write"
        /\ task[t].fresh
        /\ row' = [row EXCEPT ![u] = Captured(row[u], task[t].now, task[t].start[u])]
        /\ task' = [task EXCEPT ![t] = Resting]
        /\ UNCHANGED <<clock, wallet, inbox, bounds>>

\* The next row of a bulk refresh, or the end of the task.
Next1(t, u) == IF task[t].todo = {u} THEN Resting ELSE [task[t] EXCEPT !.todo = @ \ {u}]

StillAsRead_Bug(t, u) == TRUE  \* no compare-and-set
StillAsRead(t, u) == row[u].since = 0 /\ row[u].sinceAt = task[t].seen[u]

\* captureDelegatedSince
Capture(t, u) ==
    /\ task[t].at = "write"
    /\ ~task[t].fresh
    /\ u \in task[t].todo
    /\ row' = IF StillAsRead(t, u)
                THEN [row EXCEPT ![u] = Captured(row[u], task[t].now, task[t].start[u])]
                ELSE row
    /\ task' = [task EXCEPT ![t] = Next1(t, u)]
    /\ UNCHANGED <<clock, wallet, inbox, bounds>>

-----------------------------------------------------------------------------

AfterFailure(t, u) == IF task[t].at = "write" THEN "write" ELSE NextRow(t, u)

\* A statement for u fails: a sign-in gives up, the cron goes on with the
\* other rows of the batch.
RowFails(t, u) ==
    /\ faults < MaxFaults
    /\ faults' = faults + 1
    /\ \/ task[t].at \in {"apply", "write"} /\ u \in task[t].todo
       \/ task[t].at \in {"change", "same"} /\ u = task[t].user
    /\ task' = IF t \in Logins \/ (task[t].at = "write" /\ task[t].todo = {u})
                 THEN [task EXCEPT ![t] = Resting]
                 ELSE [task EXCEPT ![t] = [task[t] EXCEPT
                         !.todo = @ \ {u},
                         !.at = AfterFailure(t, u)]]
    /\ UNCHANGED <<clock, wallet, row, inbox, moves, logins, failures>>

\* The invocation is evicted: waitUntil work of a response, or the cron's.
Evict(t) ==
    /\ faults < MaxFaults
    /\ faults' = faults + 1
    /\ task[t].at # "idle"
    /\ task' = [task EXCEPT ![t] = Resting]
    /\ UNCHANGED <<clock, wallet, row, inbox, moves, logins, failures>>

Next ==
    \/ Tick
    \/ \E u \in Users : Land(u) \/ \E d \in Dreps \cup {NoDrep} : Delegate(u, d)
    \/ \E t \in Logins, u \in Users, s \in Seconds, b \in BOOLEAN : SignIn(t, u, s, b)
    \/ \E t \in Logins, d \in Dreps : Expect(t, d)
    \/ \E t \in Logins : Retry(t) \/ WriteFlat(t)
    \/ \E t \in Crons, s \in Seconds : RefreshBulk(t, s)
    \/ \E t \in Crons : AskFails(t) \/ ListMissing(t)
    \/ \E t \in Tasks : Ask(t) \/ ApplyChange(t) \/ ApplySame(t) \/ LookUp(t) \/ Evict(t)
    \/ \E t \in Tasks, u \in Users :
         ApplyError(t, u) \/ ApplyBaseline(t, u) \/ Capture(t, u) \/ RowFails(t, u)

Spec == Init /\ [][Next]_vars

-----------------------------------------------------------------------------
(* Properties *)

\* Only a tracked row whose attempt is stamped is resolved (the CHECK of migration
\* 0063), and while lookups that found no start are counted there is none
\* (attemptsSetClause), whichever of the three writers was last.
Consistent(r) ==
    /\ r.drep # Unset => r.tracked /\ r.attempted > 0
    /\ r.since # 0 => r.tries = 0 /\ r.sinceAt > 0
RowConsistent == \A u \in Users : Consistent(row[u])

\* Tasks that see the same change report it once, and one that is not expected
\* within the window is reported, unless two tasks of the same second share an
\* event key (applyResolution, "atomic delegation-change detection").
ChangeToldOnce ==
    [][\A u \in Users :
        LET changed == row[u].drep \notin {Unset, row'[u].drep}
        IN  /\ inbox'[u] # inbox[u] => changed
            /\ changed /\ inbox'[u] = inbox[u] =>
                  \/ row[u].expAt # 0 /\ row'[u].attempted <= row[u].expAt + ExpectedTtl
                  \/ \E n \in inbox[u] : n.now = row'[u].attempted]_vars

\* "An unconditional write would let the slower one overwrite the value the
\* faster one just captured" (captureDelegatedSince): sign-ins and bulk refreshes
\* that retry a start replace none, whenever they listed the row.
StartKept ==
    [][\A u \in Users :
        row[u].since \notin {0, row'[u].since} =>
            \/ row'[u].drep # row[u].drep
            \/ \E t \in Logins : WriteFlat(t)]_vars

\* Nobody is told of a delegation made here, although refreshes fail on the way to
\* the one that confirms it, as many as the window covers (EXPECTED_TTL_SEC: "longer
\* than the worst case refresh cadence on purpose"), unless a newer delegation has
\* just reached the chain and an answer is from before it.
OwnDelegationSilent ==
    [][\A u \in Users : \A n \in inbox'[u] \ inbox[u] :
        n.of \in wallet[u].own /\ DueAfter * (1 + failures) <= ExpectedTtl =>
            n.of < Newest(u) /\ clock = wallet[u].moved]_vars

\* The delegation of a resolved row is the chain's within one refresh interval, and one more
\* for each attempt the indexer failed, whatever sign-ins, stale answers and
\* failed writes came between (refreshBulk).
RowCatchesUp ==
    \A u \in Users :
        /\ row[u].drep # Unset
        /\ \A t \in Tasks : task[t].at = "idle"
        /\ Due = {}
        /\ clock >= wallet[u].moved + DueAfter * (1 + failures)
        => row[u].drep = State(u, Newest(u))
=============================================================================

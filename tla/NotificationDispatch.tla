------------------------ MODULE NotificationDispatch ------------------------
(***************************************************************************)
(* The push dispatcher of the notifications cron: the per-kind loop        *)
(* dispatchChannels of src/src/lib/notifications/dispatch.ts over the D1   *)
(* statements of src/src/lib/db/notificationChannels.ts.                   *)
(*                                                                         *)
(* D1 runs one statement (or batch) at a time, so one statement is one     *)
(* action here; everything a pass keeps between two statements is held in  *)
(* its own variables and may be stale when it is used.  The cron fires     *)
(* every five minutes and a slow invocation can outlast that, so several   *)
(* members of Passes may be inside the loop at once.                       *)
(*                                                                         *)
(* A channel is one (user, endpoint) slot.  Its row id is a fresh uuid per *)
(* insert, modelled by the generation gen[c]: a statement that names an id *)
(* matches nothing once the slot was removed or connected again.           *)
(*                                                                         *)
(* Notification rows are numbered by the order they were written.  Their   *)
(* type is reduced to what delivery tells apart: "gated" (a personal row a *)
(* preference can mute), "device" (a security notice, never muted) and     *)
(* "gov" (a governance thread event, addressed to everyone, gone when the  *)
(* thread is deleted).                                                     *)
(***************************************************************************)
EXTENDS Integers, Sequences, FiniteSets

CONSTANTS
    Kinds,       \* kinds of rows that are written
    Users,
    Channels,
    Owner,       \* Owner[c]: the user a channel delivers to
    Passes,      \* invocations that can be in the loop at the same time
    Limit,       \* candidates one pass can afford (query allowance / 14)
    Failing,     \* channels whose transport may fail without being dead
    MaxClock,    \* bound: last database clock value
    MaxRows,     \* bound: notification rows written
    MaxGen,      \* bound: MaxGen[c] times slot c is connected
    MaxFaults    \* bound: evictions and database errors

ASSUME DispatchAssumption ==
    /\ Kinds \subseteq {"gated", "device", "gov"}
    /\ Channels # {}
    /\ Owner \in [Channels -> Users]
    /\ Failing \subseteq Channels
    /\ Limit \in Nat \ {0}
    /\ {MaxClock, MaxRows, MaxFaults} \subseteq Nat
    /\ MaxGen \in [Channels -> Nat]

VARIABLES
    clock,       \* DB_NOW_MS
    rows,        \* notifications and governance activity, oldest first
    deleted,     \* rows of governance threads that were deleted (topics.deleted)
    prefOn,      \* notification_prefs of the channel kind, per user
    live, gen,   \* whether the channel row exists, and which insert it is
    created,     \* created_at, the clock when the slot was connected
    until,       \* delivered_until, the delivery cursor
    attempted,   \* dispatch_attempted_at, the rotation key
    pc,          \* where each pass is
    dbNow,       \* PassStart.dbNow
    govAt,       \* PassStart.latestGovAt, 0 for none
    todo,        \* candidate rows the pass has listed and not reached
    cur,         \* the candidate row in hand, as listed
    prefs,       \* prefsByUser, the preferences cached for the pass
    bundle,      \* rows getPendingCounts counted for the candidate in hand
    muted,       \* rows of the interval it left out on purpose
    faults,      \* faults spent
    sends,       \* history: confirmed sends of a row to a channel
    passed,      \* history: rows a claim went past because they were muted
    lost         \* history: counted rows whose claim was neither kept nor returned

dbVars   == <<clock, rows, deleted, prefOn>>
chanVars == <<live, gen, created, until, attempted>>
passVars == <<pc, dbNow, govAt, todo, cur, prefs, bundle, muted>>
histVars == <<sends, passed, lost>>
vars     == <<dbVars, chanVars, passVars, faults, histVars>>

RowIds  == 1..MaxRows
Written == 1..Len(rows)

RowType  == [kind : Kinds, to : Users, ts : Nat]
SnapType == [c : Channels, gen : Nat, until : Nat, at : Nat]
Idle     == "idle"
PcType   == {Idle, "list", "loop", "counted", "claimed", "failed", "dead"}

TypeOK ==
    /\ clock \in Nat \ {0}
    /\ rows \in Seq(RowType)
    /\ Len(rows) <= MaxRows
    /\ deleted \subseteq RowIds
    /\ prefOn \in [Users -> BOOLEAN]
    /\ live \in [Channels -> BOOLEAN]
    /\ gen \in [Channels -> Nat]
    /\ created \in [Channels -> Nat]
    /\ until \in [Channels -> Nat]
    /\ attempted \in [Channels -> Nat]
    /\ pc \in [Passes -> PcType]
    /\ dbNow \in [Passes -> Nat \ {0}]
    /\ govAt \in [Passes -> Nat]
    /\ todo \in [Passes -> SUBSET SnapType]
    /\ cur \in [Passes -> SnapType]
    /\ prefs \in [Passes -> [Users -> {"unread", "on", "off"}]]
    /\ bundle \in [Passes -> SUBSET RowIds]
    /\ muted \in [Passes -> SUBSET RowIds]
    /\ faults \in Nat
    /\ sends \in [Channels -> [RowIds -> Nat]]
    /\ passed \in [Channels -> SUBSET RowIds]
    /\ lost \in [Channels -> SUBSET RowIds]

-----------------------------------------------------------------------------
(* Reads *)

\* Plausible bugs are kept beside the definitions they are bugs of, as operators
\* that nothing uses (names end in _Bug): each property is shown to fail on one.

DbNow == clock

\* Row i is one this channel's counts look at.
For(c, i) == rows[i].kind = "gov" \/ rows[i].to = Owner[c]

\* Rows of the half-open interval lo < ts <= hi that concern channel c.
Interval(c, lo, hi) == {i \in Written : For(c, i) /\ lo < rows[i].ts /\ rows[i].ts <= hi}

\* The pass works on ts <= passEnd: later rows wait for the next pass.
PassEnd_Bug(p) == dbNow[p]
PassEnd(p) == dbNow[p] - 1

\* Never moves a cursor backwards: the row may already sit past passEnd.
NextCursor(p) == IF cur[p].until > PassEnd(p) THEN cur[p].until ELSE PassEnd(p)

LatestGovAt ==
    LET times == {0} \cup {rows[i].ts : i \in {j \in Written : rows[j].kind = "gov"} \ deleted}
    IN  CHOOSE t \in times : \A s \in times : s <= t

\* Locals of the loop body when no candidate is in hand.
Blank == [c |-> CHOOSE c \in Channels : TRUE, gen |-> 0, until |-> 0, at |-> 0]

Snap(c) == [c |-> c, gen |-> gen[c], until |-> until[c], at |-> attempted[c]]

\* Channels with a live governance thread or a personal row newer than the cursor.
Candidates(p) ==
    {Snap(c) : c \in {d \in Channels :
        /\ live[d]
        /\ \/ until[d] < govAt[p]
           \/ \E i \in Written : /\ rows[i].kind # "gov"
                                 /\ rows[i].to = Owner[d]
                                 /\ rows[i].ts > until[d]}}

\* The statement names the id the pass read, never the slot.
Matches_Bug(p) == live[cur[p].c]
Matches(p) == LET c == cur[p].c IN live[c] /\ gen[c] = cur[p].gen

-----------------------------------------------------------------------------
(* The rest of the program and the users *)

Init ==
    /\ clock = 1
    /\ rows = << >>
    /\ deleted = {}
    /\ prefOn = [u \in Users |-> TRUE]
    /\ live = [c \in Channels |-> FALSE]
    /\ gen = [c \in Channels |-> 0]
    /\ created = [c \in Channels |-> 0]
    /\ until = [c \in Channels |-> 0]
    /\ attempted = [c \in Channels |-> 0]
    /\ pc = [p \in Passes |-> Idle]
    /\ dbNow = [p \in Passes |-> 1]
    /\ govAt = [p \in Passes |-> 0]
    /\ todo = [p \in Passes |-> {}]
    /\ cur = [p \in Passes |-> Blank]
    /\ prefs = [p \in Passes |-> [u \in Users |-> "unread"]]
    /\ bundle = [p \in Passes |-> {}]
    /\ muted = [p \in Passes |-> {}]
    /\ faults = 0
    /\ sends = [c \in Channels |-> [i \in RowIds |-> 0]]
    /\ passed = [c \in Channels |-> {}]
    /\ lost = [c \in Channels |-> {}]

Tick ==
    /\ clock < MaxClock
    /\ clock' = clock + 1
    /\ UNCHANGED <<rows, deleted, prefOn, chanVars, passVars, faults, histVars>>

\* Every writer stamps the row with the database clock of its own statement.
\* Rows stop one tick before MaxClock so that the last pass can reach them.
WriteRow(kind, u) ==
    /\ Len(rows) < MaxRows
    /\ clock < MaxClock
    /\ rows' = Append(rows, [kind |-> kind, to |-> u, ts |-> DbNow])
    /\ UNCHANGED <<clock, deleted, prefOn, chanVars, passVars, faults, histVars>>

DeleteThread(i) ==
    /\ rows[i].kind = "gov"
    /\ deleted' = deleted \cup {i}
    /\ UNCHANGED <<clock, rows, prefOn, chanVars, passVars, faults, histVars>>

SetPref(u) ==
    /\ prefOn' = [prefOn EXCEPT ![u] = ~@]
    /\ UNCHANGED <<clock, rows, deleted, chanVars, passVars, faults, histVars>>

\* addChannel on a slot with no row.  A repeat subscribe keeps the id and the
\* cursor and only refreshes the target, so it changes nothing here.
AddChannel(c) ==
    /\ ~live[c]
    /\ gen[c] < MaxGen[c]
    /\ live' = [live EXCEPT ![c] = TRUE]
    /\ gen' = [gen EXCEPT ![c] = @ + 1]
    /\ created' = [created EXCEPT ![c] = DbNow]
    /\ until' = [until EXCEPT ![c] = DbNow]
    /\ attempted' = [attempted EXCEPT ![c] = 0]
    /\ passed' = [passed EXCEPT ![c] = {}]
    /\ lost' = [lost EXCEPT ![c] = {}]
    /\ UNCHANGED <<dbVars, passVars, faults, sends>>

RemoveChannel(c) ==
    /\ live[c]
    /\ live' = [live EXCEPT ![c] = FALSE]
    /\ UNCHANGED <<dbVars, gen, created, until, attempted, passVars, faults, histVars>>

-----------------------------------------------------------------------------
(* One dispatch pass *)

ReadPassStart(p) ==
    /\ pc[p] = Idle
    /\ pc' = [pc EXCEPT ![p] = "list"]
    /\ dbNow' = [dbNow EXCEPT ![p] = DbNow]
    /\ govAt' = [govAt EXCEPT ![p] = LatestGovAt]
    /\ UNCHANGED <<dbVars, chanVars, todo, cur, prefs, bundle, muted, faults, histVars>>

\* The LIMIT least recently attempted candidates; ties fall either way (uuids).
ListCandidates(p) ==
    /\ pc[p] = "list"
    /\ \E S \in SUBSET Candidates(p) :
         /\ \/ S = Candidates(p) /\ Cardinality(S) <= Limit
            \/ S # Candidates(p) /\ Cardinality(S) = Limit
         /\ \A x \in S, y \in Candidates(p) \ S : x.at <= y.at
         /\ todo' = [todo EXCEPT ![p] = S]
    /\ pc' = [pc EXCEPT ![p] = "loop"]
    /\ govAt' = [govAt EXCEPT ![p] = 0]
    /\ UNCHANGED <<dbVars, chanVars, dbNow, cur, prefs, bundle, muted, faults, histVars>>

\* getPrefs is asked once per user and pass.
PrefInPass(p, u) == IF prefs[p][u] = "unread" THEN prefOn[u] ELSE prefs[p][u] = "on"

PassInterval(p, r) == Interval(r.c, r.until, PassEnd(p))

\* getPendingCounts: a device notice always contributes.
Counted(p, r) ==
    {i \in PassInterval(p, r) :
        \/ rows[i].kind = "device"
        \/ rows[i].kind = "gated" /\ PrefInPass(p, Owner[r.c])
        \/ rows[i].kind = "gov" /\ PrefInPass(p, Owner[r.c]) /\ i \notin deleted}

\* The next candidate, in rotation order.
CountPending(p) ==
    /\ pc[p] = "loop"
    /\ \E r \in todo[p] :
         /\ \A s \in todo[p] : r.at <= s.at
         /\ todo' = [todo EXCEPT ![p] = @ \ {r}]
         /\ cur' = [cur EXCEPT ![p] = r]
         /\ prefs' = [prefs EXCEPT ![p][Owner[r.c]] = IF PrefInPass(p, Owner[r.c]) THEN "on" ELSE "off"]
         /\ bundle' = [bundle EXCEPT ![p] = Counted(p, r)]
         /\ muted' = [muted EXCEPT ![p] = PassInterval(p, r) \ Counted(p, r)]
    /\ pc' = [pc EXCEPT ![p] = "counted"]
    /\ UNCHANGED <<dbVars, chanVars, dbNow, govAt, faults, histVars>>

\* The loop body is over: back to the loop head, locals out of scope.
NextCandidate(p) ==
    /\ pc' = [pc EXCEPT ![p] = "loop"]
    /\ cur' = [cur EXCEPT ![p] = Blank]
    /\ bundle' = [bundle EXCEPT ![p] = {}]
    /\ muted' = [muted EXCEPT ![p] = {}]

\* claimChannelCursor: move the cursor only while the row is the one read.
ClaimMatches_Bug(p) == Matches(p)
ClaimMatches(p) == Matches(p) /\ until[cur[p].c] = cur[p].until

ClaimCursor_Bug(p) ==  \* no rotation stamp
    /\ until' = [until EXCEPT ![cur[p].c] = NextCursor(p)]
    /\ passed' = [passed EXCEPT ![cur[p].c] = @ \cup muted[p]]
    /\ UNCHANGED attempted

ClaimCursor(p) ==
    /\ until' = [until EXCEPT ![cur[p].c] = NextCursor(p)]
    /\ attempted' = [attempted EXCEPT ![cur[p].c] = dbNow[p]]
    /\ passed' = [passed EXCEPT ![cur[p].c] = @ \cup muted[p]]

LoseClaim == UNCHANGED <<until, attempted, passed>>

\* Nothing to send: advance over what this pass saw, win or lose.
SkipEmpty(p) ==
    /\ pc[p] = "counted"
    /\ bundle[p] = {}
    /\ IF ClaimMatches(p) THEN ClaimCursor(p) ELSE LoseClaim
    /\ NextCandidate(p)
    /\ UNCHANGED <<dbVars, live, gen, created, dbNow, govAt, todo, prefs, faults, sends, lost>>

\* The bundle is claimed before it is sent; a lost claim skips the channel.
ClaimBundle(p) ==
    /\ pc[p] = "counted"
    /\ bundle[p] # {}
    /\ IF ClaimMatches(p)
         THEN /\ ClaimCursor(p)
              /\ pc' = [pc EXCEPT ![p] = "claimed"]
              /\ UNCHANGED <<cur, bundle, muted>>
         ELSE LoseClaim /\ NextCandidate(p)
    /\ UNCHANGED <<dbVars, live, gen, created, dbNow, govAt, todo, prefs, faults, sends, lost>>

Delivered(p) ==
    sends' = [sends EXCEPT ![cur[p].c] =
                [i \in RowIds |-> IF i \in bundle[p] THEN @[i] + 1 ELSE @[i]]]

\* The transport accepted the message: the claim is final.
SendOk(p) ==
    /\ pc[p] = "claimed"
    /\ Delivered(p)
    /\ NextCandidate(p)
    /\ UNCHANGED <<dbVars, chanVars, dbNow, govAt, todo, prefs, faults, passed, lost>>

\* The transport says the subscription is gone, or refuses the message, or throws.
SendNotOk(p) ==
    /\ pc[p] = "claimed"
    /\ \/ pc' = [pc EXCEPT ![p] = "dead"]
       \/ cur[p].c \in Failing /\ pc' = [pc EXCEPT ![p] = "failed"]
    /\ UNCHANGED <<dbVars, chanVars, dbNow, govAt, todo, cur, prefs, bundle, muted, faults, histVars>>

\* deleteChannelById.
Prune(p) ==
    /\ pc[p] = "dead"
    /\ live' = IF Matches(p) THEN [live EXCEPT ![cur[p].c] = FALSE] ELSE live
    /\ NextCandidate(p)
    /\ UNCHANGED <<dbVars, gen, created, until, attempted, dbNow, govAt, todo, prefs, faults, histVars>>

\* The pass has moved a cursor and its outcome is open.
Holding(p) == pc[p] \in {"claimed", "failed", "dead"}

\* Counted rows of a claim that ends without a send and without a handback.
Forfeit(p) ==
    lost' = IF Matches(p) THEN [lost EXCEPT ![cur[p].c] = @ \cup bundle[p]] ELSE lost

\* handBackChannelCursor: only while the row still holds the claimed value;
\* the rotation stamp stays.  When a later pass moved the cursor on, the
\* statement matches nothing and the bundle is not offered again.
HandBackMatches_Bug(p) == Matches(p)
HandBackMatches(p) == Matches(p) /\ until[cur[p].c] = NextCursor(p)

HandBack(p) ==
    /\ pc[p] = "failed"
    /\ IF HandBackMatches(p)
         THEN /\ until' = [until EXCEPT ![cur[p].c] = cur[p].until]
              /\ passed' = [passed EXCEPT ![cur[p].c] = @ \ muted[p]]
              /\ UNCHANGED lost
         ELSE Forfeit(p) /\ UNCHANGED <<until, passed>>
    /\ NextCandidate(p)
    /\ UNCHANGED <<dbVars, live, gen, created, attempted, dbNow, govAt, todo, prefs, faults, sends>>

EndPass(p) ==
    /\ pc[p] = "loop"
    /\ todo[p] = {}
    /\ pc' = [pc EXCEPT ![p] = Idle]
    /\ dbNow' = [dbNow EXCEPT ![p] = 1]
    /\ prefs' = [prefs EXCEPT ![p] = [u \in Users |-> "unread"]]
    /\ UNCHANGED <<dbVars, chanVars, govAt, todo, cur, bundle, muted, faults, histVars>>

\* A read of one channel throws before its claim: the loop goes on without it.
ReadFails(p) ==
    /\ faults < MaxFaults
    /\ faults' = faults + 1
    /\ pc[p] = "counted"
    /\ NextCandidate(p)
    /\ UNCHANGED <<dbVars, chanVars, dbNow, govAt, todo, prefs, histVars>>

\* The invocation is evicted, or the handback itself throws out of the loop.
Abort(p) ==
    /\ faults < MaxFaults
    /\ faults' = faults + 1
    /\ pc[p] # Idle
    /\ IF Holding(p) THEN Forfeit(p) ELSE UNCHANGED lost
    /\ pc' = [pc EXCEPT ![p] = Idle]
    /\ dbNow' = [dbNow EXCEPT ![p] = 1]
    /\ govAt' = [govAt EXCEPT ![p] = 0]
    /\ todo' = [todo EXCEPT ![p] = {}]
    /\ cur' = [cur EXCEPT ![p] = Blank]
    /\ prefs' = [prefs EXCEPT ![p] = [u \in Users |-> "unread"]]
    /\ bundle' = [bundle EXCEPT ![p] = {}]
    /\ muted' = [muted EXCEPT ![p] = {}]
    /\ UNCHANGED <<dbVars, chanVars, sends, passed>>

-----------------------------------------------------------------------------
PassStep(p) ==
    \/ ListCandidates(p) \/ CountPending(p) \/ SkipEmpty(p) \/ ClaimBundle(p)
    \/ SendOk(p) \/ SendNotOk(p) \/ Prune(p) \/ HandBack(p) \/ EndPass(p)

Environment ==
    \/ Tick
    \/ \E kind \in Kinds, u \in Users : WriteRow(kind, u)
    \/ \E i \in Written : DeleteThread(i)
    \/ \E u \in Users : SetPref(u)
    \/ \E c \in Channels : AddChannel(c) \/ RemoveChannel(c)

Next ==
    \/ Environment
    \/ \E p \in Passes : ReadPassStart(p) \/ PassStep(p) \/ ReadFails(p) \/ Abort(p)

Spec == Init /\ [][Next]_vars

\* The database clock advances, the cron keeps firing, and a pass that is not
\* evicted gets an answer to every statement and every send.
Fairness ==
    /\ WF_vars(Tick)
    /\ \A p \in Passes : WF_vars(ReadPassStart(p)) /\ WF_vars(PassStep(p))

FairSpec == Spec /\ Fairness

-----------------------------------------------------------------------------
(* Properties *)

\* No row is sent twice to a channel: two passes that both listed the channel,
\* a handback and a reconnect never put a bundle out a second time
\* (claimChannelCursor before deliver, handBackChannelCursor's condition).
AtMostOnce == \A c \in Channels, i \in RowIds : sends[c][i] <= 1

\* Every row written after a channel was connected and at or below its cursor is
\* accounted for: it was sent, or left out because it was muted (a device notice
\* never is), or is in the hands of a pass, or was given up by a pass that could
\* not return its claim.  No claim goes past a row that its own count did not
\* see ("the pass interval" of dispatchChannels).
NothingSkipped ==
    \A c \in Channels : live[c] =>
        \A i \in Written : (For(c, i) /\ created[c] < rows[i].ts /\ rows[i].ts <= until[c]) =>
            \/ sends[c][i] > 0
            \/ i \in passed[c] /\ rows[i].kind # "device"
            \/ i \in lost[c]
            \/ \E p \in Passes : Holding(p) /\ cur[p].c = c /\ i \in bundle[p]

\* A cursor that moves back only reopens rows that were never sent: a slow pass
\* that fails does not rewind what a later pass already delivered.
RewindReopensUnsent ==
    [][\A c \in Channels : (live[c] /\ live'[c] /\ gen'[c] = gen[c] /\ until'[c] < until[c]) =>
         \A i \in Interval(c, until'[c], until[c]) : sends[c][i] = 0]_vars

\* A security notice for a channel whose transport answers is sent in the end,
\* unless the channel is removed or connected again first, however often the
\* channels listed before it fail (the dispatch_attempted_at rotation).
NoticeDelivered ==
    \A c \in Channels \ Failing, i \in RowIds : \A g \in 1..MaxGen[c] :
        (/\ i \in Written /\ rows[i].kind = "device" /\ rows[i].to = Owner[c]
         /\ live[c] /\ gen[c] = g /\ created[c] < rows[i].ts)
        ~> (sends[c][i] = 1 \/ ~live[c] \/ gen[c] # g)

\* Connections the transport has called gone and whose prune is still to come.
GoneConnections == {<<cur[p].c, cur[p].gen>> : p \in {q \in Passes : pc[q] = "dead"}}

\* The abstract promise: a row goes to a channel it is addressed to, at most once,
\* and a pass that prunes a dead channel by its id ends no connection but the one
\* the transport refused, however late it comes (deleteChannelById, addChannel).
Delivery == INSTANCE ChannelDelivery WITH
    audience <- [i \in Written |-> {c \in Channels : rows[i].kind = "gov" \/ rows[i].to = Owner[c]}],
    inbox    <- sends,
    open     <- live,
    conn     <- gen,
    gone     <- GoneConnections

Promise == Delivery!Spec
=============================================================================

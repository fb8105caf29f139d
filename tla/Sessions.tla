------------------------------ MODULE Sessions ------------------------------
(***************************************************************************)
(* The sessions of one account: the key-value store that keeps them        *)
(* (session.ts), the wallet sign-in that mints one from a single-use nonce *)
(* (nonce.ts, handlers.ts) and device pairing, where a signed-in device    *)
(* approves another and that one redeems the approval (pairing.ts,         *)
(* api/auth/pair).  Each request is a process whose steps are its calls to *)
(* the two stores, so requests interleave at every await and may die       *)
(* between two calls.  The key-value store has no transactions: the list   *)
(* of an account's sessions is read and written back as a whole.           *)
(***************************************************************************)
EXTENDS Integers, FiniteSets

\* As elsewhere, operators whose names contain _Bug are plausible bugs of the
\* definition after them, used by nothing: each property is shown to fail on one.

CONSTANTS
    Ids,            \* token hashes a mint may draw; each is drawn once
    Nonces,         \* sign-in challenges
    Pairings,       \* device pairings
    Requests,       \* requests in flight at the same time
    Mortal,         \* the requests that may die between two calls
    Ops,            \* Ops[r]: what the signed-in request r may ask for
    Grants,         \* whether the account has an active co-proposer grant, at any time
    IdleTtl,        \* SESSION_TTL_SEC
    AbsoluteTtl,    \* SESSION_ABSOLUTE_TTL_SEC
    SlidingWindow,  \* SLIDING_WINDOW_SEC
    MinTtl,         \* the shortest expiry the store accepts
    NonceTtl,       \* NONCE_TTL_SEC
    PairingTtl,     \* PAIRING_TTL_SEC
    MaxClock        \* bound on the clock

AllOps == {"use", "approve", "logout", "logout_all", "revoke", "list"}

ASSUME SessionsAssumption ==
    /\ Grants \subseteq BOOLEAN /\ Mortal \subseteq Requests
    /\ Ops \in [Requests -> SUBSET AllOps]
    /\ {IdleTtl, AbsoluteTtl, SlidingWindow, MinTtl, NonceTtl, PairingTtl, MaxClock} \subseteq Nat
    /\ MinTtl > 0
    /\ Nonces \cap Pairings = {}

VARIABLES
    now,
    rec,      \* sess:<hash>, the session records
    idx,      \* usess:<user>, the list of the account's sessions
    nonce,    \* auth_nonces
    pairing,  \* device_pairings
    req,      \* the requests in flight
    minted,   \* hashes drawn so far
    signin    \* history: the wallet sign-in each session descends from

vars == <<now, rec, idx, nonce, pairing, req, minted, signin>>
kv == <<rec, idx>>
d1 == <<nonce, pairing>>
history == <<minted, signin>>

None == "none"
Writer == "drep"
Member == "member"
CoProposer == "co-proposer"
Role == {Writer, Member, CoProposer}

NoRec == [start |-> -1, seen |-> -1, roles |-> {}, expires |-> -1]
NoIdx == [ids |-> {}, expires |-> -1]
NoSignIn == [at |-> -1, roles |-> {}, proof |-> None]
Untouched == [status |-> "unused", expires |-> -1]
UnusedPairing == [status |-> "unused", expires |-> -1, by |-> None, roles |-> {}, start |-> -1]
Idle == [pc |-> "idle", op |-> None, sid |-> None, x |-> None,
         todo |-> {}, list |-> NoIdx, mine |-> NoRec]

Smaller(a, b) == IF a < b THEN a ELSE b
Larger(a, b) == IF a > b THEN a ELSE b

LifetimeEndsAt(m) == m.start + AbsoluteTtl

\* Seconds a renewed record is kept: the idle time, less when the cap is nearer.
RenewalTtl(m) == Larger(MinTtl, Smaller(IdleTtl, LifetimeEndsAt(m) - now))

RolesFromUser(held) == IF held = {} THEN {Member} ELSE held
WithCoProposer(roles) == (roles \ {Member}) \cup {CoProposer}

PairedRoles_Bug(held, grant, cap) ==  \* the account's roles, without the cap
    IF grant THEN WithCoProposer(RolesFromUser(held)) ELSE RolesFromUser(held)

\* What a redeemed approval grants: the roles held now, as far as the
\* approving session had them, and the co-proposer role by the grant alone.
PairedRoles(held, grant, cap) ==
    LET capped == RolesFromUser(held) \cap cap
        granted == IF grant THEN WithCoProposer(capped) ELSE capped
    IN IF granted = {} THEN {Member} ELSE granted

\* What the doors for wallets grant: the delegator door is capped at member.
SignInRoles(held, grant, door) ==
    LET own == IF door = "delegator" THEN {Member} ELSE RolesFromUser(held)
    IN IF grant THEN WithCoProposer(own) ELSE own

Init ==
    /\ now = 0
    /\ rec = [s \in Ids |-> NoRec]
    /\ idx = NoIdx
    /\ nonce = [n \in Nonces |-> Untouched]
    /\ pairing = [p \in Pairings |-> UnusedPairing]
    /\ req = [r \in Requests |-> Idle]
    /\ minted = {}
    /\ signin = [s \in Ids |-> NoSignIn]

Go(r, q) == req' = [req EXCEPT ![r] = q]

-----------------------------------------------------------------------------
(* Every page and every API call first resolves the session of its cookie. *)

FirstStep == [use |-> "idle", approve |-> "approve", logout |-> "find",
              logout_all |-> "all_read", revoke |-> "revoke", list |-> "list_read"]

\* The request as it enters its handler, the user being known.
Enter(q) ==
    IF FirstStep[q.op] = "idle" THEN Idle
    ELSE [q EXCEPT !.pc = FirstStep[q.op], !.mine = IF q.op = "approve" THEN @ ELSE NoRec]

\* The middleware reads the record.  Past the cap it is deleted, and when it
\* was last renewed a window ago it is renewed; only then the handler runs.
Visit(r, s, op, x) ==
    /\ req[r] = Idle
    /\ rec[s] # NoRec
    /\ LET m == rec[s]
           q == [Idle EXCEPT !.op = op, !.sid = s, !.mine = m,
                             !.x = IF op = "logout" THEN s ELSE x]
       IN Go(r, IF now > LifetimeEndsAt(m)
                THEN [q EXCEPT !.pc = "find", !.op = "expire", !.x = s, !.mine = NoRec]
                ELSE IF now - m.seen > SlidingWindow
                THEN [q EXCEPT !.pc = "renew", !.todo = {"put", "read"}, !.mine = [m EXCEPT !.seen = now]]
                ELSE Enter(q))
    /\ UNCHANGED <<now, kv, d1, history>>

\* Promise.all of a mint or a renewal: the record is put ...
PutRecord(r) ==
    LET q == req[r] IN
    /\ q.pc \in {"renew", "create"} /\ "put" \in q.todo
    /\ rec' = [rec EXCEPT ![q.sid] = [q.mine EXCEPT !.expires = now + RenewalTtl(q.mine)]]
    /\ Go(r, [q EXCEPT !.todo = @ \ {"put"}])
    /\ UNCHANGED <<now, idx, d1, history>>

\* ... and the list is read, in either order.
ReadIndex(r) ==
    LET q == req[r] IN
    /\ q.pc \in {"renew", "create"} /\ "read" \in q.todo
    /\ Go(r, [q EXCEPT !.todo = @ \ {"read"}, !.list = idx])
    /\ UNCHANGED <<now, kv, d1, history>>

\* A renewal puts the list back as it was read, to last as long as its record.
RenewIndex(r) ==
    LET q == req[r] IN
    /\ q.pc = "renew" /\ q.todo = {}
    /\ idx' = IF q.list = NoIdx THEN idx
              ELSE [q.list EXCEPT !.expires = now + RenewalTtl(q.mine)]
    /\ Go(r, Enter([q EXCEPT !.list = NoIdx]))
    /\ UNCHANGED <<now, rec, d1, history>>

\* A mint appends its hash to the list it read.
CreateIndex(r) ==
    LET q == req[r] IN
    /\ q.pc = "create" /\ q.todo = {}
    /\ idx' = [ids |-> q.list.ids \cup {q.sid}, expires |-> now + IdleTtl]
    /\ Go(r, Idle)
    /\ UNCHANGED <<now, rec, d1, history>>

-----------------------------------------------------------------------------
(* deleteSessionByHash, and the requests that revoke and list sessions.    *)

\* The record is read to learn whose list it is on ...
FindRecord(r) ==
    LET q == req[r] IN
    /\ q.pc = "find"
    /\ Go(r, [q EXCEPT !.pc = "delete", !.mine = rec[q.x]])
    /\ UNCHANGED <<now, kv, d1, history>>

\* ... deleted, found or not ...
DeleteRecord(r) ==
    LET q == req[r] IN
    /\ q.pc = "delete"
    /\ rec' = [rec EXCEPT ![q.x] = NoRec]
    /\ Go(r, IF q.mine = NoRec THEN Idle ELSE [q EXCEPT !.pc = "prune_read", !.mine = NoRec])
    /\ UNCHANGED <<now, idx, d1, history>>

\* ... and its hash is taken off the list, which is read ...
PruneRead(r) ==
    LET q == req[r] IN
    /\ q.pc = "prune_read"
    /\ Go(r, [q EXCEPT !.pc = "prune_write", !.list = idx])
    /\ UNCHANGED <<now, kv, d1, history>>

\* The device list goes on with the hashes it has not looked at.
Continue(q) == IF q.todo = {} THEN Idle ELSE [q EXCEPT !.pc = "list", !.list = NoIdx, !.x = None]

\* ... and put back without it, or deleted when nothing is left.
PruneWrite(r) ==
    LET q == req[r]
        rest == q.list.ids \ {q.x}
    IN
    /\ q.pc = "prune_write"
    /\ idx' = IF rest = {} THEN NoIdx ELSE [ids |-> rest, expires |-> now + IdleTtl]
    /\ Go(r, Continue(q))
    /\ UNCHANGED <<now, rec, d1, history>>

\* Revoking one device: an unknown one is answered 404.
Revoke(r) ==
    LET q == req[r] IN
    /\ q.pc = "revoke"
    /\ Go(r, IF rec[q.x] = NoRec THEN Idle ELSE [q EXCEPT !.pc = "find"])
    /\ UNCHANGED <<now, kv, d1, history>>

\* Signing out everywhere: the list is read, and without one nothing is done.
LogoutAllRead(r) ==
    LET q == req[r] IN
    /\ q.pc = "all_read"
    /\ Go(r, IF idx = NoIdx THEN Idle ELSE [q EXCEPT !.pc = "all", !.todo = idx.ids])
    /\ UNCHANGED <<now, kv, d1, history>>

LogoutAllDelete(r) ==
    LET q == req[r] IN
    /\ q.pc = "all"
    /\ \E s \in q.todo :
           /\ rec' = [rec EXCEPT ![s] = NoRec]
           /\ Go(r, [q EXCEPT !.todo = @ \ {s}])
    /\ UNCHANGED <<now, idx, d1, history>>

LogoutAllDone(r) ==
    LET q == req[r] IN
    /\ q.pc = "all" /\ q.todo = {}
    /\ idx' = NoIdx
    /\ Go(r, Idle)
    /\ UNCHANGED <<now, rec, d1, history>>

\* The device list reads every listed record and prunes those that are gone.
ListRead(r) ==
    LET q == req[r] IN
    /\ q.pc = "list_read"
    /\ Go(r, Continue([q EXCEPT !.todo = idx.ids]))
    /\ UNCHANGED <<now, kv, d1, history>>

ListNext(r) ==
    LET q == req[r] IN
    /\ q.pc = "list"
    /\ \E s \in q.todo :
           LET rest == [q EXCEPT !.todo = @ \ {s}]
           IN Go(r, IF rec[s] = NoRec THEN [rest EXCEPT !.pc = "prune_read", !.x = s]
                    ELSE Continue(rest))
    /\ UNCHANGED <<now, kv, d1, history>>

-----------------------------------------------------------------------------
(* Wallet sign-in.                                                         *)

Swept(row) == IF row.status # "unused" /\ row.expires <= now THEN [row EXCEPT !.status = "gone"] ELSE row

IssueNonce(n) ==
    /\ nonce[n] = Untouched
    /\ nonce' = [[m \in Nonces |-> Swept(nonce[m])] EXCEPT
                     ![n] = [status |-> "issued", expires |-> now + NonceTtl]]
    /\ UNCHANGED <<now, kv, pairing, req, history>>

\* The nonce is deleted before the signature is checked, so a bad one costs it.
\* It is good to the second it expires in, unless a sweep came first.
ConsumeNonce(r, n, door) ==
    /\ req[r] = Idle
    /\ nonce[n].status = "issued" /\ now <= nonce[n].expires
    /\ nonce' = [nonce EXCEPT ![n].status = "gone"]
    /\ \/ Go(r, [Idle EXCEPT !.pc = "resolve", !.op = door, !.x = n])
       \/ UNCHANGED req
    /\ UNCHANGED <<now, kv, pairing, history>>

\* createSession draws a hash and starts from the record m.
Mint(r, s, m, origin) ==
    /\ s \notin minted
    /\ minted' = minted \cup {s}
    /\ signin' = [signin EXCEPT ![s] = origin]
    /\ Go(r, [Idle EXCEPT !.pc = "create", !.op = req[r].op, !.sid = s,
                          !.todo = {"put", "read"}, !.mine = m])

\* The roles the account has at that moment are resolved and the session is
\* minted.  The door for writers is closed to one with neither role nor grant.
FinishLogin(r, s, held, grant) ==
    LET q == req[r]
        roles == SignInRoles(held, grant, q.op)
    IN
    /\ q.pc = "resolve" /\ q.op \in {"writer", "delegator"}
    /\ IF q.op = "writer" /\ held = {} /\ ~grant
       THEN Go(r, Idle) /\ UNCHANGED history
       ELSE Mint(r, s, [start |-> now, seen |-> now, roles |-> roles, expires |-> -1],
                 [at |-> now, roles |-> roles, proof |-> q.x])
    /\ UNCHANGED <<now, kv, d1>>

-----------------------------------------------------------------------------
(* Device pairing.                                                         *)

\* The device that cannot sign in starts a pairing; expired rows are swept.
StartPairing(p) ==
    /\ pairing[p] = UnusedPairing
    /\ pairing' = [[o \in Pairings |-> Swept(pairing[o])] EXCEPT
                       ![p] = [UnusedPairing EXCEPT !.status = "pending", !.expires = now + PairingTtl]]
    /\ UNCHANGED <<now, kv, nonce, req, history>>

\* One statement: a pending row that has not expired takes the approver's
\* roles and the start of the approver's lifetime.
Approvable(p) == pairing[p].status = "pending" /\ pairing[p].expires > now

ApprovePairing(r) ==
    LET q == req[r] IN
    /\ q.pc = "approve"
    /\ pairing' = IF Approvable(q.x)
                  THEN [pairing EXCEPT ![q.x] = [@ EXCEPT !.status = "approved", !.by = q.sid,
                                                          !.roles = q.mine.roles, !.start = q.mine.start]]
                  ELSE pairing
    /\ Go(r, Idle)
    /\ UNCHANGED <<now, kv, nonce, history>>

\* A poll reads the row: only an approved one is worth a second statement.
Poll(r, p) ==
    /\ req[r] = Idle
    /\ pairing[p].status = "approved" /\ pairing[p].expires > now
    /\ Go(r, [Idle EXCEPT !.pc = "claim", !.op = "poll", !.x = p])
    /\ UNCHANGED <<now, kv, d1, history>>

ClaimWins_Bug(p) == pairing[p].status # "pending"  \* as read, not in the WHERE
ClaimWins(p) == pairing[p].status = "approved"

\* The second statement flips approved to consumed for one poll alone.
ClaimPairing(r) ==
    LET q == req[r]
        won == ClaimWins(q.x)
    IN
    /\ q.pc = "claim"
    /\ pairing' = IF won THEN [pairing EXCEPT ![q.x].status = "consumed"] ELSE pairing
    /\ Go(r, IF won THEN [q EXCEPT !.pc = "resolve"] ELSE Idle)
    /\ UNCHANGED <<now, kv, nonce, history>>

LifetimeStart_Bug(p) == now  \* the approver's start is not handed on
LifetimeStart(p) == Smaller(pairing[p].start, now)

\* The device gets a session that lives no longer than the approver's.
MintPaired(r, s, held, grant) ==
    LET q == req[r]
        row == pairing[q.x]
    IN
    /\ q.pc = "resolve" /\ q.op = "poll"
    /\ Mint(r, s, [start |-> LifetimeStart(q.x), seen |-> now,
                   roles |-> PairedRoles(held, grant, row.roles), expires |-> -1],
            [signin[row.by] EXCEPT !.proof = q.x])
    /\ UNCHANGED <<now, kv, d1>>

-----------------------------------------------------------------------------
(* The surroundings: time, and requests that die.                          *)

\* The store drops what has expired.  The unit of time is hours: the calls of
\* one request fall into one of them.
Tick ==
    /\ now < MaxClock
    /\ \A r \in Requests : req[r] = Idle
    /\ now' = now + 1
    /\ rec' = [s \in Ids |-> IF rec[s].expires <= now + 1 THEN NoRec ELSE rec[s]]
    /\ idx' = IF idx.expires <= now + 1 THEN NoIdx ELSE idx
    /\ UNCHANGED <<d1, req, history>>

\* A store call fails or the worker is stopped: the request's later calls are
\* never made.
Abort(r) ==
    /\ r \in Mortal /\ req[r] # Idle
    /\ Go(r, Idle)
    /\ UNCHANGED <<now, kv, d1, history>>

Targets(op) == CASE op = "approve" -> Pairings
                 [] op = "revoke"  -> Ids
                 [] OTHER          -> {None}

Step(r) ==
    \/ PutRecord(r) \/ ReadIndex(r) \/ RenewIndex(r) \/ CreateIndex(r)
    \/ FindRecord(r) \/ DeleteRecord(r) \/ PruneRead(r) \/ PruneWrite(r)
    \/ Revoke(r) \/ LogoutAllRead(r) \/ LogoutAllDelete(r) \/ LogoutAllDone(r)
    \/ ListRead(r) \/ ListNext(r)
    \/ ApprovePairing(r) \/ ClaimPairing(r)
    \/ \E s \in Ids, held \in {{}, {Writer}}, grant \in Grants :
           FinishLogin(r, s, held, grant) \/ MintPaired(r, s, held, grant)

Next ==
    \/ \E r \in Requests :
           \/ \E s \in Ids, op \in Ops[r] : \E x \in Targets(op) : Visit(r, s, op, x)
           \/ \E n \in Nonces, door \in {"writer", "delegator"} : ConsumeNonce(r, n, door)
           \/ \E p \in Pairings : Poll(r, p)
           \/ Step(r) \/ Abort(r)
    \/ \E n \in Nonces : IssueNonce(n)
    \/ \E p \in Pairings : StartPairing(p)
    \/ Tick

Spec == Init /\ [][Next]_vars

-----------------------------------------------------------------------------
Time == -1 .. MaxClock
Expiry == -1 .. MaxClock + Larger(IdleTtl, MinTtl)
Record == [start : Time, seen : Time, roles : SUBSET Role, expires : Expiry]
Index == [ids : SUBSET Ids, expires : Expiry]
Pc == {"idle", "renew", "create", "find", "delete", "prune_read", "prune_write", "revoke",
       "all_read", "all", "list_read", "list", "approve", "claim", "resolve"}
Request ==
    [pc : Pc, op : AllOps \cup {"expire", "writer", "delegator", "poll", None},
     sid : Ids \cup {None}, x : Ids \cup Pairings \cup Nonces \cup {None},
     todo : SUBSET (Ids \cup {"put", "read"}), list : Index, mine : Record]

\* The types of the stored records, rows and requests: nothing is stored for
\* longer than the idle time.
TypeOK ==
    /\ now \in 0 .. MaxClock
    /\ rec \in [Ids -> Record]
    /\ idx \in Index
    /\ nonce \in [Nonces -> [status : {"unused", "issued", "gone"}, expires : Int]]
    /\ pairing \in [Pairings -> [status : {"unused", "pending", "approved", "consumed", "gone"},
                                 expires : Int, by : Ids \cup {None}, roles : SUBSET Role, start : Time]]
    /\ req \in [Requests -> Request]
    /\ minted \subseteq Ids
    /\ signin \in [Ids -> [at : Time, roles : SUBSET Role, proof : Nonces \cup Pairings \cup {None}]]

\* The requests whose session the middleware accepted.
SignedIn(r) == req[r].op \in AllOps

\* "Pairing never extends the life a wallet sign-in began", nor does any
\* renewal: a request is accepted at most AbsoluteTtl after the sign-in its
\* session descends from, through however many pairings (session.ts:52-60,
\* 283-286, poll.ts:120-122).
LifeBoundedBySignIn ==
    \A r \in Requests : SignedIn(r) =>
        now <= signin[req[r].sid].at + AbsoluteTtl

\* A chain of pairings never widens what the wallet sign-in granted, whatever
\* roles the account gains meanwhile; the co-proposer role comes from the grant
\* and member is the placeholder of an empty list (poll.ts:96-108).
RolesWithinSignIn ==
    \A s \in Ids : rec[s] # NoRec =>
        rec[s].roles \subseteq signin[s].roles \cup {Member, CoProposer}

\* One signed nonce and one approval open one session each, however often and
\* however concurrently they are presented (nonce.ts:82-90, pairing.ts:194-205).
OneSessionPerProof ==
    \A s, o \in minted : s # o => signin[s].proof # signin[o].proof
=============================================================================

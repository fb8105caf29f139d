--------------------------- MODULE SessionsProofs ---------------------------
(***************************************************************************)
(* Proofs about Sessions, for every value of its constants.                *)
(*                                                                         *)
(* The argument for LifeBoundedBySignIn and RolesWithinSignIn: a stored    *)
(* record, a record a request holds and is about to put, and an approved   *)
(* pairing all start no later than the wallet sign-in they descend from,   *)
(* and hold no role it did not grant (Descends).  The argument for         *)
(* OneSessionPerProof: the proof of a minted session is spent for good,    *)
(* and a request on its way to a mint is the only one that holds its       *)
(* proof (Spending).                                                       *)
(***************************************************************************)
EXTENDS Sessions, TLAPS

\* What a request holds at each of its steps.
Form(q) ==
    /\ q.op \in AllOps => q.sid \in Ids
    /\ q.pc = "renew" => /\ q.op \in AllOps
                         /\ q.op = "approve" => q.x \in Pairings
                         /\ q.op \in {"logout", "revoke"} => q.x \in Ids
    /\ q.pc \in {"renew", "create", "approve"} => q.sid \in Ids
    /\ q.pc \in {"find", "delete", "revoke"} => q.x \in Ids
    /\ q.pc \in {"approve", "claim"} => q.x \in Pairings
    /\ q.pc = "claim" => q.op = "poll"
    /\ q.pc \notin {"renew", "create"} => q.todo \subseteq Ids
    /\ q.pc = "resolve" => \/ q.op \in {"writer", "delegator"} /\ q.x \in Nonces
                           \/ q.op = "poll" /\ q.x \in Pairings

Forms == \A r \in Requests : Form(req[r])

\* A record or an approval that descends from the session s.
Within(start, roles, s) ==
    /\ s \in minted
    /\ start <= signin[s].at
    /\ roles \subseteq signin[s].roles \cup {Member, CoProposer}

Approval(p) == Within(pairing[p].start, pairing[p].roles, pairing[p].by)

RecordsDescend == \A s \in Ids : rec[s] # NoRec => Within(rec[s].start, rec[s].roles, s)

HeldDescend == \A r \in Requests :
    req[r].pc \in {"renew", "create", "approve"} =>
        Within(req[r].mine.start, req[r].mine.roles, req[r].sid)

ApprovalsDescend == \A p \in Pairings :
    pairing[p].status \in {"approved", "consumed"} => Approval(p)

PollsDescend == \A r \in Requests :
    req[r].pc = "resolve" /\ req[r].op = "poll" => Approval(req[r].x)

\* A signed nonce that was deleted, or an approval that was claimed.
Spent(x) ==
    \/ x \in Nonces /\ nonce[x].status = "gone"
    \/ x \in Pairings /\ pairing[x].status \in {"consumed", "gone"}

Spending ==
    /\ \A s \in minted : Spent(signin[s].proof)
    /\ \A r \in Requests : req[r].pc = "resolve" =>
           /\ Spent(req[r].x)
           /\ \A s \in minted : signin[s].proof # req[r].x
           /\ \A t \in Requests : t # r /\ req[t].pc = "resolve" => req[t].x # req[r].x

\* A request signed in by the middleware holds a session minted before.
SignedInMinted == \A r \in Requests : SignedIn(r) => req[r].sid \in minted

WellFormed == TypeOK /\ Forms
Descends == /\ RecordsDescend /\ HeldDescend /\ ApprovalsDescend /\ PollsDescend
            /\ SignedInMinted /\ LifeBoundedBySignIn
IInv == WellFormed /\ Descends /\ Spending /\ OneSessionPerProof

-----------------------------------------------------------------------------
\* Idle is a request of the right form.
LEMMA IdleForm == Idle \in Request /\ Form(Idle)
BY SessionsAssumption
   DEF SessionsAssumption, Idle, Request, Form, NoIdx, NoRec, Index, Record, Time, Expiry, Pc, Larger, AllOps, None

\* The record and the list that stand for none have the types of stored ones.
LEMMA NoneTyped == NoRec \in Record /\ NoIdx \in Index
BY SessionsAssumption DEF SessionsAssumption, NoRec, NoIdx, Record, Index, Time, Expiry, Larger

\* A step that moves one request keeps the others.
LEMMA GoKeepsForms ==
    ASSUME req \in [Requests -> Request], Forms, NEW r \in Requests, NEW q \in Request, Form(q), Go(r, q)
    PROVE  req' \in [Requests -> Request] /\ Forms'
BY DEF Go, Forms

\* Where a request enters its handler.
LEMMA FirstStepIs ==
    /\ FirstStep["use"] = "idle" /\ FirstStep["approve"] = "approve" /\ FirstStep["logout"] = "find"
    /\ FirstStep["logout_all"] = "all_read" /\ FirstStep["revoke"] = "revoke" /\ FirstStep["list"] = "list_read"
BY DEF FirstStep

\* A signed-in request enters its handler in the right form.
LEMMA EnterForm ==
    ASSUME NEW q \in Request, q.op \in AllOps, q.sid \in Ids, q.todo = {},
           q.op = "approve" => q.x \in Pairings,
           q.op \in {"logout", "revoke"} => q.x \in Ids
    PROVE  Enter(q) \in Request /\ Form(Enter(q))
<1>1. CASE q.op = "use"
  BY <1>1, FirstStepIs, IdleForm DEF Enter
<1>2. CASE q.op = "approve"
  BY <1>2, FirstStepIs DEF Enter, Request, Form, Pc
<1>3. CASE q.op = "logout"
  BY <1>3, FirstStepIs, NoneTyped DEF Enter, Request, Form, Pc
<1>4. CASE q.op = "logout_all"
  BY <1>4, FirstStepIs, NoneTyped DEF Enter, Request, Form, Pc
<1>5. CASE q.op = "revoke"
  BY <1>5, FirstStepIs, NoneTyped DEF Enter, Request, Form, Pc
<1>6. CASE q.op = "list"
  BY <1>6, FirstStepIs, NoneTyped DEF Enter, Request, Form, Pc
<1> QED BY <1>1, <1>2, <1>3, <1>4, <1>5, <1>6 DEF AllOps

\* The device list goes on in the right form.
LEMMA ContinueForm ==
    ASSUME NEW q \in Request, q.todo \subseteq Ids, q.op \in AllOps => q.sid \in Ids
    PROVE  Continue(q) \in Request /\ Form(Continue(q))
<1>1. CASE q.todo = {}
  BY <1>1, IdleForm DEF Continue
<1>2. CASE q.todo # {}
  BY <1>2, NoneTyped DEF Continue, Request, Form, Pc
<1> QED BY <1>1, <1>2

\* What a renewal or a mint stores lasts no longer than the idle time.
LEMMA StoredTyped ==
    ASSUME now \in 0 .. MaxClock, NEW m \in Record
    PROVE  /\ [m EXCEPT !.expires = now + RenewalTtl(m)] \in Record
           /\ now + RenewalTtl(m) \in Expiry
           /\ now + IdleTtl \in Expiry
<1>1. m.start \in Int
  BY DEF Record, Time
<1>2. /\ now + RenewalTtl(m) \in Expiry
      /\ now + IdleTtl \in Expiry
  BY <1>1, SessionsAssumption DEF SessionsAssumption, RenewalTtl, LifetimeEndsAt, Smaller, Larger, Expiry
<1>3. [m EXCEPT !.expires = now + RenewalTtl(m)] \in Record
  BY <1>2 DEF Record
<1> QED BY <1>2, <1>3

-----------------------------------------------------------------------------
\* A mint keeps the form of all.
LEMMA MintWellFormed ==
    ASSUME WellFormed, NEW r \in Requests, NEW s \in Ids, NEW m \in Record,
           NEW o \in [at : Time, roles : SUBSET Role, proof : Nonces \cup Pairings \cup {None}],
           Mint(r, s, m, o), UNCHANGED <<now, kv, d1>>
    PROVE  WellFormed'
<1> DEFINE q == [Idle EXCEPT !.pc = "create", !.op = req[r].op, !.sid = s,
                             !.todo = {"put", "read"}, !.mine = m]
<1>1. q \in Request /\ Form(q)
  <2>1. req[r] \in Request
    BY DEF WellFormed, TypeOK
  <2>2. req[r].op \in AllOps \cup {"expire", "writer", "delegator", "poll", None}
    BY ONLY <2>1 DEF Request
  <2>3. Idle \in Request /\ m \in Record /\ s \in Ids
    BY IdleForm
  <2>4. q \in Request
    BY ONLY <2>2, <2>3 DEF Request, Pc
  <2>5. q.pc = "create" /\ q.sid = s
    BY ONLY <2>3 DEF Request
  <2> HIDE DEF q
  <2> QED BY <2>3, <2>4, <2>5 DEF Form
<1>2. Go(r, q) /\ signin' = [signin EXCEPT ![s] = o] /\ minted' = minted \cup {s}
  BY DEF Mint
<1> HIDE DEF q
<1>3. req' \in [Requests -> Request] /\ Forms'
  BY <1>1, <1>2, GoKeepsForms DEF WellFormed, TypeOK
<1> QED BY <1>2, <1>3 DEF WellFormed, TypeOK, kv, d1

\* Each step of a request that is signed in or signs in keeps the form of all.
LEMMA StepWellFormed ==
    ASSUME WellFormed, PollsDescend, NEW r \in Requests, Step(r)
    PROVE  WellFormed'
<1> USE SessionsAssumption DEF SessionsAssumption
<1> USE DEF WellFormed
<1>q. req[r] \in Request /\ Form(req[r])
  BY DEF TypeOK, Forms
<1>g. ASSUME NEW q \in Request, Form(q), Go(r, q) PROVE req' \in [Requests -> Request] /\ Forms'
  BY <1>g, GoKeepsForms DEF TypeOK
<1>k. ASSUME rec' \in [Ids -> Record], idx' \in Index, req' \in [Requests -> Request], Forms',
             UNCHANGED <<now, d1, history>>
      PROVE  WellFormed'
  BY <1>k DEF TypeOK, d1, history
<1>d. ASSUME NEW x \in Pairings,
             NEW w \in [status : {"unused", "pending", "approved", "consumed", "gone"},
                        expires : Int, by : Ids \cup {None}, roles : SUBSET Role, start : Time],
             pairing' \in {pairing, [pairing EXCEPT ![x] = w]},
             req' \in [Requests -> Request], Forms', UNCHANGED <<now, kv, nonce, history>>
      PROVE  WellFormed'
  <2>1. pairing' \in [Pairings -> [status : {"unused", "pending", "approved", "consumed", "gone"},
                                   expires : Int, by : Ids \cup {None}, roles : SUBSET Role, start : Time]]
    BY <1>d DEF TypeOK
  <2>2. UNCHANGED <<now, rec, idx, nonce, minted, signin>>
    BY <1>d DEF kv, history
  <2> QED BY <1>d, <2>1, <2>2 DEF TypeOK
<1>1. CASE PutRecord(r)
  <2> DEFINE q == [req[r] EXCEPT !.todo = @ \ {"put"}]
             m == [req[r].mine EXCEPT !.expires = now + RenewalTtl(req[r].mine)]
  <2>1. q \in Request /\ Form(q)
    BY <1>1, <1>q DEF PutRecord, Request, Form
  <2>2. m \in Record
    BY <1>q, StoredTyped DEF TypeOK, Request
  <2>3. Go(r, q) /\ rec' = [rec EXCEPT ![req[r].sid] = m]
    BY <1>1 DEF PutRecord
  <2> HIDE DEF q, m
  <2>4. req' \in [Requests -> Request] /\ Forms'
    BY <2>1, <2>3, <1>g
  <2>5. req[r].sid \in Ids
    BY <1>1, <1>q DEF PutRecord, Form
  <2>6. rec' \in [Ids -> Record]
    BY <2>2, <2>3, <2>5 DEF TypeOK
  <2>7. idx' \in Index /\ UNCHANGED <<now, d1, history>>
    BY <1>1 DEF PutRecord, TypeOK
  <2> QED BY <2>4, <2>6, <2>7, <1>k
<1>2. CASE ReadIndex(r)
  <2> DEFINE q == [req[r] EXCEPT !.todo = @ \ {"read"}, !.list = idx]
  <2>1. q \in Request /\ Form(q)
    BY <1>2, <1>q DEF ReadIndex, Request, Form, TypeOK
  <2>2. Go(r, q)
    BY <1>2 DEF ReadIndex
  <2> HIDE DEF q
  <2>3. req' \in [Requests -> Request] /\ Forms'
    BY <2>1, <2>2, <1>g
  <2> QED BY <1>2, <2>3 DEF ReadIndex, TypeOK, kv, d1, history
<1>3. CASE RenewIndex(r)
  <2> DEFINE q == [req[r] EXCEPT !.list = NoIdx]
             l == [req[r].list EXCEPT !.expires = now + RenewalTtl(req[r].mine)]
  <2>1. /\ q \in Request /\ q.op \in AllOps /\ q.sid \in Ids /\ q.todo = {}
        /\ q.op = "approve" => q.x \in Pairings
        /\ q.op \in {"logout", "revoke"} => q.x \in Ids
    BY <1>3, <1>q, NoneTyped DEF RenewIndex, Request, Form
  <2>2. l \in Index
    BY <1>q, StoredTyped DEF TypeOK, Request, Index
  <2>3. Go(r, Enter(q)) /\ (idx' = idx \/ idx' = l)
    BY <1>3 DEF RenewIndex
  <2> HIDE DEF q, l
  <2>4. Enter(q) \in Request /\ Form(Enter(q))
    BY <2>1, EnterForm
  <2>5. req' \in [Requests -> Request] /\ Forms'
    BY <2>3, <2>4, <1>g
  <2>6. idx' \in Index
    BY <2>2, <2>3 DEF TypeOK
  <2>7. rec' \in [Ids -> Record] /\ UNCHANGED <<now, d1, history>>
    BY <1>3 DEF RenewIndex, TypeOK
  <2> QED BY <2>5, <2>6, <2>7, <1>k
<1>4. CASE CreateIndex(r)
  <2>1. [ids |-> req[r].list.ids \cup {req[r].sid}, expires |-> now + IdleTtl] \in Index
    BY <1>4, <1>q, StoredTyped, NoneTyped DEF CreateIndex, TypeOK, Request, Form, Index
  <2>2. req' \in [Requests -> Request] /\ Forms'
    BY <1>4, <1>g, IdleForm DEF CreateIndex
  <2>3. idx' \in Index
    BY <1>4, <2>1 DEF CreateIndex
  <2>4. rec' \in [Ids -> Record] /\ UNCHANGED <<now, d1, history>>
    BY <1>4 DEF CreateIndex, TypeOK
  <2> QED BY <2>2, <2>3, <2>4, <1>k
<1>5. CASE FindRecord(r)
  <2> DEFINE q == [req[r] EXCEPT !.pc = "delete", !.mine = rec[req[r].x]]
  <2>1. q \in Request /\ Form(q)
    BY <1>5, <1>q DEF FindRecord, Request, Form, TypeOK, Pc
  <2>2. Go(r, q)
    BY <1>5 DEF FindRecord
  <2> HIDE DEF q
  <2>3. req' \in [Requests -> Request] /\ Forms'
    BY <2>1, <2>2, <1>g
  <2> QED BY <1>5, <2>3 DEF FindRecord, TypeOK, kv, d1, history
<1>6. CASE DeleteRecord(r)
  <2> DEFINE q == [req[r] EXCEPT !.pc = "prune_read", !.mine = NoRec]
  <2>1. q \in Request /\ Form(q)
    BY <1>6, <1>q, NoneTyped DEF DeleteRecord, Request, Form, Pc
  <2>2. Go(r, q) \/ Go(r, Idle)
    BY <1>6 DEF DeleteRecord
  <2> HIDE DEF q
  <2>3. req' \in [Requests -> Request] /\ Forms'
    BY <2>1, <2>2, <1>g, IdleForm
  <2>4. rec' \in [Ids -> Record]
    BY <1>6, NoneTyped DEF DeleteRecord, TypeOK
  <2>5. idx' \in Index /\ UNCHANGED <<now, d1, history>>
    BY <1>6 DEF DeleteRecord, TypeOK
  <2> QED BY <2>3, <2>4, <2>5, <1>k
<1>7. CASE PruneRead(r)
  <2> DEFINE q == [req[r] EXCEPT !.pc = "prune_write", !.list = idx]
  <2>1. q \in Request /\ Form(q)
    BY <1>7, <1>q DEF PruneRead, Request, Form, TypeOK, Pc
  <2>2. Go(r, q)
    BY <1>7 DEF PruneRead
  <2> HIDE DEF q
  <2>3. req' \in [Requests -> Request] /\ Forms'
    BY <2>1, <2>2, <1>g
  <2> QED BY <1>7, <2>3 DEF PruneRead, TypeOK, kv, d1, history
<1>8. CASE PruneWrite(r)
  <2>1. [ids |-> req[r].list.ids \ {req[r].x}, expires |-> now + IdleTtl] \in Index
    BY <1>q, StoredTyped, NoneTyped DEF TypeOK, Request, Index
  <2>2. Continue(req[r]) \in Request /\ Form(Continue(req[r]))
    BY <1>8, <1>q, ContinueForm DEF PruneWrite, Form
  <2>3. req' \in [Requests -> Request] /\ Forms'
    BY <1>8, <2>2, <1>g DEF PruneWrite
  <2>4. idx' \in Index
    BY <1>8, <2>1, NoneTyped DEF PruneWrite
  <2>5. rec' \in [Ids -> Record] /\ UNCHANGED <<now, d1, history>>
    BY <1>8 DEF PruneWrite, TypeOK
  <2> QED BY <2>3, <2>4, <2>5, <1>k
<1>9. CASE Revoke(r)
  <2> DEFINE q == [req[r] EXCEPT !.pc = "find"]
  <2>1. q \in Request /\ Form(q)
    BY <1>9, <1>q DEF Revoke, Request, Form, Pc
  <2>2. Go(r, q) \/ Go(r, Idle)
    BY <1>9 DEF Revoke
  <2> HIDE DEF q
  <2>3. req' \in [Requests -> Request] /\ Forms'
    BY <2>1, <2>2, <1>g, IdleForm
  <2> QED BY <1>9, <2>3 DEF Revoke, TypeOK, kv, d1, history
<1>10. CASE LogoutAllRead(r)
  <2> DEFINE q == [req[r] EXCEPT !.pc = "all", !.todo = idx.ids]
  <2>1. q \in Request /\ Form(q)
    BY <1>10, <1>q DEF LogoutAllRead, Request, Form, TypeOK, Index, Pc
  <2>2. Go(r, q) \/ Go(r, Idle)
    BY <1>10 DEF LogoutAllRead
  <2> HIDE DEF q
  <2>3. req' \in [Requests -> Request] /\ Forms'
    BY <2>1, <2>2, <1>g, IdleForm
  <2> QED BY <1>10, <2>3 DEF LogoutAllRead, TypeOK, kv, d1, history
<1>11. CASE LogoutAllDelete(r)
  <2>1. PICK s \in req[r].todo : /\ rec' = [rec EXCEPT ![s] = NoRec]
                                 /\ Go(r, [req[r] EXCEPT !.todo = @ \ {s}])
    BY <1>11 DEF LogoutAllDelete
  <2> DEFINE q == [req[r] EXCEPT !.todo = @ \ {s}]
  <2>2. q \in Request /\ Form(q)
    BY <1>11, <1>q DEF LogoutAllDelete, Request, Form
  <2>3. Go(r, q)
    BY <2>1
  <2> HIDE DEF q
  <2>4. req' \in [Requests -> Request] /\ Forms'
    BY <2>2, <2>3, <1>g
  <2>5. rec' \in [Ids -> Record]
    BY <2>1, NoneTyped DEF TypeOK
  <2>6. idx' \in Index /\ UNCHANGED <<now, d1, history>>
    BY <1>11 DEF LogoutAllDelete, TypeOK
  <2> QED BY <2>4, <2>5, <2>6, <1>k
<1>12. CASE LogoutAllDone(r)
  <2>1. req' \in [Requests -> Request] /\ Forms'
    BY <1>12, <1>g, IdleForm DEF LogoutAllDone
  <2>2. idx' \in Index
    BY <1>12, NoneTyped DEF LogoutAllDone
  <2>3. rec' \in [Ids -> Record] /\ UNCHANGED <<now, d1, history>>
    BY <1>12 DEF LogoutAllDone, TypeOK
  <2> QED BY <2>1, <2>2, <2>3, <1>k
<1>13. CASE ListRead(r)
  <2> DEFINE q == [req[r] EXCEPT !.todo = idx.ids]
  <2>1. q \in Request /\ q.todo \subseteq Ids /\ (q.op \in AllOps => q.sid \in Ids)
    BY <1>q DEF Request, Form, TypeOK, Index
  <2>2. Go(r, Continue(q))
    BY <1>13 DEF ListRead
  <2> HIDE DEF q
  <2>3. req' \in [Requests -> Request] /\ Forms'
    BY <2>1, <2>2, <1>g, ContinueForm
  <2> QED BY <1>13, <2>3 DEF ListRead, TypeOK, kv, d1, history
<1>14. CASE ListNext(r)
  <2>1. PICK s \in req[r].todo :
           Go(r, IF rec[s] = NoRec
                 THEN [[req[r] EXCEPT !.todo = @ \ {s}] EXCEPT !.pc = "prune_read", !.x = s]
                 ELSE Continue([req[r] EXCEPT !.todo = @ \ {s}]))
    BY <1>14 DEF ListNext
  <2> DEFINE q == [req[r] EXCEPT !.todo = @ \ {s}]
             p == [q EXCEPT !.pc = "prune_read", !.x = s]
  <2>2. q \in Request /\ q.todo \subseteq Ids /\ (q.op \in AllOps => q.sid \in Ids) /\ s \in Ids
    BY <1>14, <1>q DEF ListNext, Request, Form
  <2>3. p \in Request /\ Form(p)
    BY <2>2 DEF Request, Form, Pc
  <2>4. Go(r, p) \/ Go(r, Continue(q))
    BY <2>1
  <2> HIDE DEF q, p
  <2>5. req' \in [Requests -> Request] /\ Forms'
    BY <2>2, <2>3, <2>4, <1>g, ContinueForm
  <2> QED BY <1>14, <2>5 DEF ListNext, TypeOK, kv, d1, history
<1>15. CASE ApprovePairing(r)
  <2> DEFINE x == req[r].x
             row == [pairing[x] EXCEPT !.status = "approved", !.by = req[r].sid,
                                       !.roles = req[r].mine.roles, !.start = req[r].mine.start]
  <2>1. req' \in [Requests -> Request] /\ Forms'
    BY <1>15, <1>g, IdleForm DEF ApprovePairing
  <2>2. req[r].mine.roles \in SUBSET Role /\ req[r].mine.start \in Time /\ req[r].sid \in Ids /\ x \in Pairings
    BY <1>15, <1>q DEF ApprovePairing, Request, Record, Form
  <2>3. pairing[x] \in [status : {"unused", "pending", "approved", "consumed", "gone"},
                        expires : Int, by : Ids \cup {None}, roles : SUBSET Role, start : Time]
    BY <2>2 DEF TypeOK
  <2>4. row \in [status : {"unused", "pending", "approved", "consumed", "gone"},
                 expires : Int, by : Ids \cup {None}, roles : SUBSET Role, start : Time]
    BY <2>2, <2>3
  <2>5. pairing' = pairing \/ pairing' = [pairing EXCEPT ![x] = row]
    BY <1>15 DEF ApprovePairing
  <2> HIDE DEF row, x
  <2>6. UNCHANGED <<now, kv, nonce, history>>
    BY <1>15 DEF ApprovePairing
  <2> QED BY <2>1, <2>2, <2>4, <2>5, <2>6, <1>d
<1>16. CASE ClaimPairing(r)
  <2> DEFINE q == [req[r] EXCEPT !.pc = "resolve"]
             x == req[r].x
  <2>0. req[r].pc = "claim"
    BY <1>16 DEF ClaimPairing
  <2>1. q \in Request /\ Form(q)
    <3>1. req[r] \in Request /\ req[r].op = "poll" /\ req[r].x \in Pairings /\ req[r].todo \subseteq Ids
      BY <2>0, <1>q DEF Form
    <3>2. q \in Request
      BY ONLY <3>1 DEF Request, Pc
    <3>3. /\ q.pc = "resolve" /\ q.op = "poll" /\ q.x \in Pairings /\ q.todo \subseteq Ids
          /\ q.op = req[r].op /\ q.sid = req[r].sid
      BY ONLY <3>1 DEF Request
    <3>4. q.op \in AllOps => q.sid \in Ids
      BY <3>3, <1>q DEF Form
    <3> HIDE DEF q
    <3> QED BY ONLY <3>2, <3>3, <3>4 DEF Form
  <2>2. Go(r, q) \/ Go(r, Idle)
    BY <1>16 DEF ClaimPairing
  <2>3. pairing' = pairing \/ pairing' = [pairing EXCEPT ![x] = [pairing[x] EXCEPT !.status = "consumed"]]
    BY <1>16 DEF ClaimPairing
  <2>4. x \in Pairings
    BY <1>16, <1>q DEF ClaimPairing, Form
  <2>5. [pairing[x] EXCEPT !.status = "consumed"] \in
          [status : {"unused", "pending", "approved", "consumed", "gone"},
           expires : Int, by : Ids \cup {None}, roles : SUBSET Role, start : Time]
    <3>1. pairing[x] \in
            [status : {"unused", "pending", "approved", "consumed", "gone"},
             expires : Int, by : Ids \cup {None}, roles : SUBSET Role, start : Time]
      BY <2>4 DEF TypeOK
    <3> QED BY ONLY <3>1
  <2> HIDE DEF q, x
  <2>6. req' \in [Requests -> Request] /\ Forms'
    BY <2>1, <2>2, <1>g, IdleForm
  <2>7. UNCHANGED <<now, kv, nonce, history>>
    BY <1>16 DEF ClaimPairing
  <2> QED BY <2>3, <2>4, <2>5, <2>6, <2>7, <1>d
<1>17. ASSUME NEW s \in Ids, NEW held \in {{}, {Writer}}, NEW grant \in Grants, FinishLogin(r, s, held, grant)
       PROVE  WellFormed'
  <2> DEFINE roles == SignInRoles(held, grant, req[r].op)
             m == [start |-> now, seen |-> now, roles |-> roles, expires |-> -1]
             o == [at |-> now, roles |-> roles, proof |-> req[r].x]
  <2>1. roles \in SUBSET Role
    BY DEF SignInRoles, RolesFromUser, WithCoProposer, Role
  <2> HIDE DEF roles
  <2>2. m \in Record /\ o \in [at : Time, roles : SUBSET Role, proof : Nonces \cup Pairings \cup {None}]
    <3>1. req[r].x \in Nonces
      BY <1>17, <1>q DEF FinishLogin, Form
    <3> QED BY <2>1, <3>1 DEF Record, TypeOK, Time, Expiry, Larger
  <2>3. Mint(r, s, m, o) \/ (Go(r, Idle) /\ UNCHANGED history)
    BY <1>17 DEF FinishLogin, roles
  <2>4. UNCHANGED <<now, kv, d1>>
    BY <1>17 DEF FinishLogin
  <2> HIDE DEF m, o
  <2>5. CASE Mint(r, s, m, o)
    BY <2>2, <2>4, <2>5, <1>17, MintWellFormed
  <2>6. CASE Go(r, Idle) /\ UNCHANGED history
    <3>1. req' \in [Requests -> Request] /\ Forms'
      BY <2>6, <1>g, IdleForm
    <3> QED BY <2>4, <2>6, <3>1 DEF TypeOK, kv, d1, history
  <2> QED BY <2>3, <2>5, <2>6
<1>18. ASSUME NEW s \in Ids, NEW held \in {{}, {Writer}}, NEW grant \in Grants, MintPaired(r, s, held, grant)
       PROVE  WellFormed'
  <2> DEFINE row == pairing[req[r].x]
             m == [start |-> LifetimeStart(req[r].x), seen |-> now,
                   roles |-> PairedRoles(held, grant, row.roles), expires |-> -1]
             o == [signin[row.by] EXCEPT !.proof = req[r].x]
  <2>1. req[r].x \in Pairings /\ row.by \in Ids
    BY <1>18, <1>q DEF MintPaired, Form, PollsDescend, Approval, Within, TypeOK
  <2>2. row.roles \in SUBSET Role /\ row.start \in Time
    BY <2>1 DEF TypeOK
  <2>3. PairedRoles(held, grant, row.roles) \in SUBSET Role
    BY <2>2 DEF PairedRoles, RolesFromUser, WithCoProposer, Role
  <2>4. LifetimeStart(req[r].x) \in Time
    BY <2>2 DEF LifetimeStart, Smaller, Time, TypeOK
  <2>5. m \in Record
    BY <2>3, <2>4 DEF Record, TypeOK, Time, Expiry, Larger
  <2>6. o \in [at : Time, roles : SUBSET Role, proof : Nonces \cup Pairings \cup {None}]
    <3>1. signin[row.by] \in [at : Time, roles : SUBSET Role, proof : Nonces \cup Pairings \cup {None}]
      BY <2>1 DEF TypeOK
    <3> QED BY <2>1, <3>1
  <2>7. Mint(r, s, m, o) /\ UNCHANGED <<now, kv, d1>>
    BY <1>18 DEF MintPaired
  <2> HIDE DEF m, o, row
  <2> QED BY <2>5, <2>6, <2>7, MintWellFormed
<1> QED BY <1>1, <1>2, <1>3, <1>4, <1>5, <1>6, <1>7, <1>8, <1>9, <1>10, <1>11, <1>12, <1>13, <1>14,
           <1>15, <1>16, <1>17, <1>18 DEF Step

-----------------------------------------------------------------------------
\* Every step keeps the types and the forms.
LEMMA WellFormedStep ==
    ASSUME WellFormed, PollsDescend, [Next]_vars
    PROVE  WellFormed'
<1> USE SessionsAssumption DEF SessionsAssumption
<1>g. ASSUME NEW r \in Requests, NEW q \in Request, Form(q), Go(r, q) PROVE req' \in [Requests -> Request] /\ Forms'
  BY <1>g, GoKeepsForms DEF WellFormed, TypeOK
<1>1. ASSUME NEW r \in Requests, NEW s \in Ids, NEW op \in Ops[r], NEW x \in Targets(op), Visit(r, s, op, x)
      PROVE  WellFormed'
  <2> DEFINE m == rec[s]
             q == [Idle EXCEPT !.op = op, !.sid = s, !.mine = m, !.x = IF op = "logout" THEN s ELSE x]
             e == [q EXCEPT !.pc = "find", !.op = "expire", !.x = s, !.mine = NoRec]
             seen == [m EXCEPT !.seen = now]
             n == [q EXCEPT !.pc = "renew", !.todo = {"put", "read"}, !.mine = seen]
  <2>1. op \in AllOps
    OBVIOUS
  <2>2. /\ x \in Ids \cup Pairings \cup {None}
        /\ op = "approve" => x \in Pairings
        /\ op = "revoke" => x \in Ids
    BY <2>1 DEF Targets, AllOps
  <2>3. m \in Record /\ seen \in Record
    <3>1. m \in Record /\ now \in Time
      BY DEF WellFormed, TypeOK, Time
    <3> HIDE DEF m
    <3> QED BY <3>1 DEF Record
  <2>4. /\ q \in Request /\ q.op = op /\ q.sid = s /\ q.todo = {}
        /\ q.op = "approve" => q.x \in Pairings
        /\ q.op \in {"logout", "revoke"} => q.x \in Ids
    BY <2>1, <2>2, <2>3, IdleForm DEF Request, Idle
  <2>5. Go(r, e) \/ Go(r, n) \/ Go(r, Enter(q))
    BY <1>1 DEF Visit
  <2> HIDE DEF m, q, seen
  <2>6. e \in Request /\ Form(e)
    BY <2>4, NoneTyped DEF Request, Form, Pc, AllOps
  <2>7. n \in Request /\ Form(n)
    BY <2>1, <2>3, <2>4 DEF Request, Form, Pc
  <2> HIDE DEF e, n
  <2>8. Enter(q) \in Request /\ Form(Enter(q))
    BY <2>1, <2>4, EnterForm
  <2>9. req' \in [Requests -> Request] /\ Forms'
    BY <2>5, <2>6, <2>7, <2>8, <1>g
  <2> QED BY <1>1, <2>9 DEF Visit, WellFormed, TypeOK, kv, d1, history
<1>2. ASSUME NEW r \in Requests, NEW n \in Nonces, NEW door \in {"writer", "delegator"}, ConsumeNonce(r, n, door)
      PROVE  WellFormed'
  <2> DEFINE q == [Idle EXCEPT !.pc = "resolve", !.op = door, !.x = n]
  <2>1. q \in Request /\ Form(q)
    BY IdleForm DEF Request, Form, Pc, AllOps, Idle
  <2>2. Go(r, q) \/ req' = req
    BY <1>2 DEF ConsumeNonce
  <2> HIDE DEF q
  <2>3. req' \in [Requests -> Request] /\ Forms'
    BY <2>1, <2>2, <1>g DEF WellFormed, TypeOK, Forms
  <2>4. nonce' \in [Nonces -> [status : {"unused", "issued", "gone"}, expires : Int]]
    BY <1>2 DEF ConsumeNonce, WellFormed, TypeOK
  <2> QED BY <1>2, <2>3, <2>4 DEF ConsumeNonce, WellFormed, TypeOK, kv, history
<1>3. ASSUME NEW r \in Requests, NEW p \in Pairings, Poll(r, p)
      PROVE  WellFormed'
  <2> DEFINE q == [Idle EXCEPT !.pc = "claim", !.op = "poll", !.x = p]
  <2>1. q \in Request /\ Form(q)
    BY IdleForm DEF Request, Form, Pc, AllOps, Idle
  <2>2. Go(r, q)
    BY <1>3 DEF Poll
  <2> HIDE DEF q
  <2>3. req' \in [Requests -> Request] /\ Forms'
    BY <2>1, <2>2, <1>g
  <2> QED BY <1>3, <2>3 DEF Poll, WellFormed, TypeOK, kv, d1, history
<1>4. ASSUME NEW r \in Requests, Abort(r) PROVE WellFormed'
  <2>1. req' \in [Requests -> Request] /\ Forms'
    BY <1>4, <1>g, IdleForm DEF Abort
  <2> QED BY <1>4, <2>1 DEF Abort, WellFormed, TypeOK, kv, d1, history
<1>5. ASSUME NEW n \in Nonces, IssueNonce(n) PROVE WellFormed'
  <2>1. \A k \in Nonces : Swept(nonce[k]) \in [status : {"unused", "issued", "gone"}, expires : Int]
    BY DEF Swept, WellFormed, TypeOK
  <2>2. [status |-> "issued", expires |-> now + NonceTtl] \in [status : {"unused", "issued", "gone"}, expires : Int]
    BY DEF WellFormed, TypeOK
  <2>3. nonce' \in [Nonces -> [status : {"unused", "issued", "gone"}, expires : Int]]
    BY <1>5, <2>1, <2>2 DEF IssueNonce
  <2> QED BY <1>5, <2>3 DEF IssueNonce, WellFormed, TypeOK, Forms, kv, history
<1>6. ASSUME NEW p \in Pairings, StartPairing(p) PROVE WellFormed'
  <2> DEFINE Row == [status : {"unused", "pending", "approved", "consumed", "gone"},
                     expires : Int, by : Ids \cup {None}, roles : SUBSET Role, start : Time]
  <2>1. \A k \in Pairings : Swept(pairing[k]) \in Row
    BY DEF Swept, WellFormed, TypeOK
  <2>2. [UnusedPairing EXCEPT !.status = "pending", !.expires = now + PairingTtl] \in Row
    <3>1. now + PairingTtl \in Int /\ -1 \in Time
      BY DEF WellFormed, TypeOK, Time
    <3> QED BY <3>1 DEF UnusedPairing
  <2> HIDE DEF Row
  <2>3. pairing' \in [Pairings -> Row]
    BY <1>6, <2>1, <2>2 DEF StartPairing
  <2> QED BY <1>6, <2>3 DEF StartPairing, WellFormed, TypeOK, Forms, kv, history, Row
<1>7. CASE Tick
  <2>1. rec' \in [Ids -> Record] /\ idx' \in Index
    BY <1>7, NoneTyped DEF Tick, WellFormed, TypeOK
  <2>2. now' \in 0 .. MaxClock
    BY <1>7 DEF Tick, WellFormed, TypeOK
  <2> QED BY <1>7, <2>1, <2>2 DEF Tick, WellFormed, TypeOK, Forms, d1, history
<1>8. CASE UNCHANGED vars
  BY <1>8 DEF vars, WellFormed, TypeOK, Forms
<1> QED BY <1>1, <1>2, <1>3, <1>4, <1>5, <1>6, <1>7, <1>8, StepWellFormed DEF Next

-----------------------------------------------------------------------------
\* What a request has got to, when it holds no other record and no other proof.
Follows(q, p) ==
    /\ q.op = p.op /\ q.sid = p.sid
    /\ q.pc \in {"renew", "create", "approve"} =>
           p.pc \in {"renew", "create", "approve"} /\ q.mine = p.mine
    /\ q.pc # "resolve"

\* A request that has not been begun holds nothing.
LEMMA IdleHoldsNothing == Idle.pc = "idle" /\ Idle.op \notin AllOps
BY DEF Idle, AllOps, None

\* The other requests stay where they are.
LEMMA GoMoves ==
    ASSUME req \in [Requests -> Request], NEW r \in Requests, NEW q, Go(r, q)
    PROVE  req'[r] = q /\ \A t \in Requests \ {r} : req'[t] = req[t]
BY DEF Go

\* A step that moves one request along, and drops records at most.
LEMMA FollowKeeps ==
    ASSUME IInv, WellFormed', NEW r \in Requests, NEW q, Go(r, q), q = Idle \/ Follows(q, req[r]),
           UNCHANGED <<now, d1, history>>, \A s \in Ids : rec'[s] = rec[s] \/ rec'[s] = NoRec
    PROVE  IInv'
<1>1. req'[r] = q /\ \A t \in Requests \ {r} : req'[t] = req[t]
  BY GoMoves DEF IInv, WellFormed, TypeOK
<1>2. RecordsDescend'
  BY DEF IInv, Descends, RecordsDescend, Within, history
<1>3. HeldDescend'
  BY <1>1, IdleHoldsNothing DEF IInv, Descends, HeldDescend, Within, Follows, history
<1>4. ApprovalsDescend' /\ PollsDescend'
  <2>1. ApprovalsDescend'
    BY DEF IInv, Descends, ApprovalsDescend, Approval, Within, history, d1
  <2>2. \A t \in Requests \ {r} : (req[t].pc = "resolve" /\ req[t].op = "poll" => Approval(req[t].x))'
    BY <1>1 DEF IInv, Descends, PollsDescend, Approval, Within, history, d1
  <2>3. req'[r].pc # "resolve"
    BY <1>1, IdleHoldsNothing DEF Follows
  <2> QED BY <2>1, <2>2, <2>3 DEF PollsDescend
<1>5. SignedInMinted' /\ LifeBoundedBySignIn'
  BY <1>1, IdleHoldsNothing DEF IInv, Descends, SignedInMinted, LifeBoundedBySignIn, SignedIn, Follows, history
<1>6. Spending' /\ OneSessionPerProof'
  BY <1>1, IdleHoldsNothing DEF IInv, Spending, Spent, OneSessionPerProof, Follows, history, d1
<1> QED BY <1>2, <1>3, <1>4, <1>5, <1>6 DEF IInv, Descends

\* A mint descends from the sign-in it records, whose proof was spent on it alone.
LEMMA MintKeeps ==
    ASSUME IInv, WellFormed', NEW r \in Requests, NEW s \in Ids, NEW m, NEW o, Mint(r, s, m, o),
           UNCHANGED <<now, kv, d1>>,
           req[r].pc = "resolve", req[r].op \notin AllOps, o.proof = req[r].x,
           m.start <= o.at, m.roles \subseteq o.roles \cup {Member, CoProposer}
    PROVE  IInv'
<1> DEFINE q == [Idle EXCEPT !.pc = "create", !.op = req[r].op, !.sid = s,
                             !.todo = {"put", "read"}, !.mine = m]
<1>1. q.pc = "create" /\ q.op = req[r].op /\ q.sid = s /\ q.mine = m
  BY DEF Idle
<1>2. Go(r, q) /\ signin' = [signin EXCEPT ![s] = o] /\ minted' = minted \cup {s} /\ s \notin minted
  BY DEF Mint
<1> HIDE DEF q
<1>3. req'[r] = q /\ \A t \in Requests \ {r} : req'[t] = req[t]
  BY <1>2, GoMoves DEF IInv, WellFormed, TypeOK
<1>4. /\ signin'[s] = o
      /\ \A t \in Ids \ {s} : signin'[t] = signin[t]
      /\ minted \subseteq Ids
  BY <1>2 DEF IInv, WellFormed, TypeOK
<1>5. ASSUME NEW start, NEW roles, NEW t, Within(start, roles, t) PROVE Within(start, roles, t)'
  BY <1>2, <1>4, <1>5 DEF Within
<1>6. RecordsDescend'
  <2> SUFFICES ASSUME NEW t \in Ids, rec'[t] # NoRec PROVE Within(rec[t].start, rec[t].roles, t)'
    BY DEF RecordsDescend
  <2>1. Within(rec[t].start, rec[t].roles, t)
    BY DEF IInv, Descends, RecordsDescend, kv
  <2> QED BY <2>1, <1>5 DEF kv
<1>7. HeldDescend'
  <2> SUFFICES ASSUME NEW t \in Requests, req'[t].pc \in {"renew", "create", "approve"}
               PROVE  Within(req[t].mine.start, req[t].mine.roles, req[t].sid)'
    BY DEF HeldDescend
  <2>1. CASE t = r
    BY <2>1, <1>1, <1>2, <1>3, <1>4 DEF Within
  <2>2. CASE t # r
    BY <2>2, <1>3, <1>5 DEF IInv, Descends, HeldDescend
  <2> QED BY <2>1, <2>2
<1>8. ApprovalsDescend'
  <2> SUFFICES ASSUME NEW p \in Pairings, pairing'[p].status \in {"approved", "consumed"} PROVE Approval(p)'
    BY DEF ApprovalsDescend
  <2>1. Within(pairing[p].start, pairing[p].roles, pairing[p].by)
    BY DEF IInv, Descends, ApprovalsDescend, Approval, d1
  <2> QED BY <2>1, <1>5 DEF Approval, d1
<1>9. PollsDescend'
  <2> SUFFICES ASSUME NEW t \in Requests, req'[t].pc = "resolve", req'[t].op = "poll" PROVE Approval(req[t].x)'
    BY DEF PollsDescend
  <2>1. t # r
    BY <1>1, <1>3
  <2>2. req'[t].x = req[t].x /\ Within(pairing[req[t].x].start, pairing[req[t].x].roles, pairing[req[t].x].by)
    BY <1>3, <2>1 DEF IInv, Descends, PollsDescend, Approval
  <2> QED BY <2>2, <1>5 DEF Approval, d1
<1>10. SignedInMinted' /\ LifeBoundedBySignIn'
  BY <1>1, <1>2, <1>3, <1>4 DEF IInv, Descends, SignedInMinted, LifeBoundedBySignIn, SignedIn
<1>11. Spending' /\ OneSessionPerProof'
  <2>1. \A x : Spent(x)' <=> Spent(x)
    BY DEF Spent, d1
  <2> QED BY <1>1, <1>2, <1>3, <1>4, <2>1 DEF IInv, Spending, OneSessionPerProof
<1> QED BY <1>6, <1>7, <1>8, <1>9, <1>10, <1>11 DEF IInv, Descends

\* A proof is spent by the request that goes on to mint.
LEMMA SpendKeeps ==
    ASSUME IInv, NEW r \in Requests, NEW q, Go(r, q), UNCHANGED history,
           \A x \in Nonces \cup Pairings : Spent(x) => Spent(x)',
           q.pc = "resolve" => q.x \in Nonces \cup Pairings /\ ~Spent(q.x) /\ Spent(q.x)'
    PROVE  Spending' /\ OneSessionPerProof'
<1>1. req'[r] = q /\ \A t \in Requests \ {r} : req'[t] = req[t]
  BY GoMoves DEF IInv, WellFormed, TypeOK
<1>2. \A x : Spent(x) => Spent(x)'
  BY DEF Spent
<1>3. \A s \in minted' : Spent(signin[s].proof)'
  BY <1>2 DEF IInv, Spending, history
<1>4. ASSUME NEW t \in Requests, req'[t].pc = "resolve"
      PROVE  /\ Spent(req[t].x)'
             /\ \A s \in minted' : signin'[s].proof # req'[t].x
             /\ \A o \in Requests : o # t /\ req'[o].pc = "resolve" => req'[o].x # req'[t].x
  BY <1>1, <1>2, <1>4 DEF IInv, Spending, history
<1> QED BY <1>3, <1>4 DEF IInv, Spending, OneSessionPerProof, history

-----------------------------------------------------------------------------
\* Handlers move on with the session they were entered with.
LEMMA EnterFollows ==
    ASSUME NEW p \in Request, p.op \in AllOps, p.pc = "renew"
    PROVE  Enter([p EXCEPT !.list = NoIdx]) = Idle \/ Follows(Enter([p EXCEPT !.list = NoIdx]), p)
<1> DEFINE q == [p EXCEPT !.list = NoIdx]
<1>1. q \in Request /\ q.op = p.op /\ q.sid = p.sid /\ q.mine = p.mine
  BY NoneTyped DEF Request
<1> HIDE DEF q
<1>2. ASSUME FirstStep[q.op] # "idle" PROVE Follows(Enter(q), p)
  <2>1. /\ Enter(q).op = q.op /\ Enter(q).sid = q.sid /\ Enter(q).pc = FirstStep[q.op]
        /\ q.op = "approve" => Enter(q).mine = q.mine
    BY <1>1, <1>2 DEF Enter, Request
  <2>2. FirstStep[q.op] # "resolve" /\ (FirstStep[q.op] \in {"renew", "create", "approve"} => q.op = "approve")
    BY <1>1, FirstStepIs DEF AllOps
  <2> QED BY <1>1, <2>1, <2>2 DEF Follows
<1>3. Enter(q) = Idle \/ Follows(Enter(q), p)
  BY <1>2 DEF Enter
<1> QED BY <1>3 DEF q

\* The device list goes on with the session it was entered with.
LEMMA ContinueFollows ==
    ASSUME NEW p \in Request, NEW todo
    PROVE  /\ Continue(p) = Idle \/ Follows(Continue(p), p)
           /\ LET q == [p EXCEPT !.todo = todo] IN Continue(q) = Idle \/ Follows(Continue(q), p)
<1> DEFINE q == [p EXCEPT !.todo = todo]
<1>1. Continue(p) = Idle \/ Follows(Continue(p), p)
  BY DEF Continue, Follows, Request
<1>2. Continue(q) = Idle \/ Follows(Continue(q), p)
  BY DEF Continue, Follows, Request
<1> QED BY <1>1, <1>2

\* The steps that only move their request along and drop records keep the invariant.
LEMMA QuietSteps ==
    ASSUME IInv, WellFormed', NEW r \in Requests,
           \/ ReadIndex(r) \/ RenewIndex(r) \/ CreateIndex(r)
           \/ FindRecord(r) \/ DeleteRecord(r) \/ PruneRead(r) \/ PruneWrite(r)
           \/ Revoke(r) \/ LogoutAllRead(r) \/ LogoutAllDelete(r) \/ LogoutAllDone(r)
           \/ ListRead(r) \/ ListNext(r) \/ Abort(r)
    PROVE  IInv'
<1>q. req[r] \in Request /\ Form(req[r])
  BY DEF IInv, WellFormed, TypeOK, Forms
<1>f. ASSUME NEW q, Go(r, q), q = Idle \/ Follows(q, req[r]),
             UNCHANGED <<now, d1, history>>, \A s \in Ids : rec'[s] = rec[s] \/ rec'[s] = NoRec
      PROVE  IInv'
  BY <1>f, FollowKeeps
<1>r. ASSUME NEW x, rec' = [rec EXCEPT ![x] = NoRec] PROVE \A s \in Ids : rec'[s] = rec[s] \/ rec'[s] = NoRec
  BY <1>r DEF IInv, WellFormed, TypeOK
<1>k. ASSUME UNCHANGED kv PROVE \A s \in Ids : rec'[s] = rec[s] \/ rec'[s] = NoRec
  BY <1>k DEF kv
<1>1. CASE ReadIndex(r)
  <2>1. Follows([req[r] EXCEPT !.todo = @ \ {"read"}, !.list = idx], req[r])
    BY <1>1, <1>q DEF ReadIndex, Follows, Request
  <2> QED BY <1>1, <2>1, <1>f, <1>k DEF ReadIndex
<1>2. CASE RenewIndex(r)
  <2>1. req[r].pc = "renew" /\ req[r].op \in AllOps
    BY <1>2, <1>q DEF RenewIndex, Form
  <2> QED BY <1>2, <2>1, <1>q, <1>f, EnterFollows DEF RenewIndex
<1>3. CASE CreateIndex(r)
  BY <1>3, <1>f DEF CreateIndex
<1>4. CASE FindRecord(r)
  <2>1. Follows([req[r] EXCEPT !.pc = "delete", !.mine = rec[req[r].x]], req[r])
    BY <1>q DEF Follows, Request
  <2> QED BY <1>4, <2>1, <1>f, <1>k DEF FindRecord
<1>5. CASE DeleteRecord(r)
  <2>1. Follows([req[r] EXCEPT !.pc = "prune_read", !.mine = NoRec], req[r])
    BY <1>q DEF Follows, Request
  <2> QED BY <1>5, <2>1, <1>f, <1>r DEF DeleteRecord
<1>6. CASE PruneRead(r)
  <2>1. Follows([req[r] EXCEPT !.pc = "prune_write", !.list = idx], req[r])
    BY <1>q DEF Follows, Request
  <2> QED BY <1>6, <2>1, <1>f, <1>k DEF PruneRead
<1>7. CASE PruneWrite(r)
  BY <1>7, <1>q, <1>f, ContinueFollows DEF PruneWrite
<1>8. CASE Revoke(r)
  <2>1. Follows([req[r] EXCEPT !.pc = "find"], req[r])
    BY <1>q DEF Follows, Request
  <2> QED BY <1>8, <2>1, <1>f, <1>k DEF Revoke
<1>9. CASE LogoutAllRead(r)
  <2>1. Follows([req[r] EXCEPT !.pc = "all", !.todo = idx.ids], req[r])
    BY <1>q DEF Follows, Request
  <2> QED BY <1>9, <2>1, <1>f, <1>k DEF LogoutAllRead
<1>10. CASE LogoutAllDelete(r)
  <2>1. PICK s \in req[r].todo : /\ rec' = [rec EXCEPT ![s] = NoRec]
                                 /\ Go(r, [req[r] EXCEPT !.todo = @ \ {s}])
    BY <1>10 DEF LogoutAllDelete
  <2>2. Follows([req[r] EXCEPT !.todo = @ \ {s}], req[r])
    BY <1>10, <1>q DEF LogoutAllDelete, Follows, Request
  <2> QED BY <1>10, <2>1, <2>2, <1>f, <1>r DEF LogoutAllDelete
<1>11. CASE LogoutAllDone(r)
  BY <1>11, <1>f DEF LogoutAllDone
<1>12. CASE ListRead(r)
  BY <1>12, <1>q, <1>f, <1>k, ContinueFollows DEF ListRead
<1>13. CASE ListNext(r)
  <2>1. PICK s \in req[r].todo :
           Go(r, IF rec[s] = NoRec
                 THEN [[req[r] EXCEPT !.todo = @ \ {s}] EXCEPT !.pc = "prune_read", !.x = s]
                 ELSE Continue([req[r] EXCEPT !.todo = @ \ {s}]))
    BY <1>13 DEF ListNext
  <2>2. Follows([[req[r] EXCEPT !.todo = @ \ {s}] EXCEPT !.pc = "prune_read", !.x = s], req[r])
    BY <1>q DEF Follows, Request
  <2> DEFINE q == [req[r] EXCEPT !.todo = req[r].todo \ {s}]
  <2>3. q = [req[r] EXCEPT !.todo = @ \ {s}] /\ (Continue(q) = Idle \/ Follows(Continue(q), req[r]))
    BY <1>q, ContinueFollows
  <2> QED BY <1>13, <2>1, <2>2, <2>3, <1>f, <1>k DEF ListNext
<1>14. CASE Abort(r)
  BY <1>14, <1>f, <1>k DEF Abort
<1> QED BY <1>1, <1>2, <1>3, <1>4, <1>5, <1>6, <1>7, <1>8, <1>9, <1>10, <1>11, <1>12, <1>13, <1>14

-----------------------------------------------------------------------------
\* A request is accepted, renewed or sent to expire on the record it read.
LEMMA VisitKeeps ==
    ASSUME IInv, WellFormed', NEW r \in Requests, NEW s \in Ids, NEW op \in AllOps, NEW x, Visit(r, s, op, x)
    PROVE  IInv'
<1> DEFINE m == rec[s]
           q == [Idle EXCEPT !.op = op, !.sid = s, !.mine = m, !.x = IF op = "logout" THEN s ELSE x]
           e == [q EXCEPT !.pc = "find", !.op = "expire", !.x = s, !.mine = NoRec]
           seen == [m EXCEPT !.seen = now]
           n == [q EXCEPT !.pc = "renew", !.todo = {"put", "read"}, !.mine = seen]
<1>1. /\ UNCHANGED <<now, kv, d1, history>> /\ m # NoRec
      /\ \/ Go(r, e)
         \/ Go(r, n) /\ now <= LifetimeEndsAt(m)
         \/ Go(r, Enter(q)) /\ now <= LifetimeEndsAt(m)
  <2>1. now > LifetimeEndsAt(m) \/ now <= LifetimeEndsAt(m)
    BY SessionsAssumption DEF SessionsAssumption, LifetimeEndsAt, IInv, WellFormed, TypeOK, Record, Time
  <2> QED BY <2>1 DEF Visit
<1>2. Within(m.start, m.roles, s)
  BY <1>1 DEF IInv, Descends, RecordsDescend
<1>3. now <= LifetimeEndsAt(m) => s \in minted /\ now <= signin[s].at + AbsoluteTtl
  BY <1>2, SessionsAssumption
     DEF SessionsAssumption, Within, LifetimeEndsAt, IInv, WellFormed, TypeOK, Record, Time
<1>4. seen.start = m.start /\ seen.roles = m.roles
  BY DEF IInv, WellFormed, TypeOK, Record
<1>5. q.op = op /\ q.sid = s /\ q.mine = m /\ q.pc = "idle"
  BY DEF Idle
<1> HIDE DEF m, seen
<1>6. e.op = "expire" /\ e.pc = "find"
  BY DEF Idle
<1>7. n.op = op /\ n.sid = s /\ n.pc = "renew" /\ n.mine = seen
  BY DEF Idle
<1>8. \/ Enter(q) = Idle
      \/ /\ Enter(q).op = op /\ Enter(q).sid = s /\ Enter(q).pc = FirstStep[op]
         /\ op = "approve" => Enter(q).mine = m
  <2>1. CASE FirstStep[op] = "idle"
    BY <2>1, <1>5 DEF Enter
  <2>2. CASE FirstStep[op] # "idle"
    BY <2>2, <1>5 DEF Enter, Idle
  <2> QED BY <2>1, <2>2
<1>9. FirstStep[op] # "resolve" /\ (FirstStep[op] \in {"renew", "create", "approve"} => op = "approve")
  BY FirstStepIs DEF AllOps
<1> HIDE DEF q, e, n
<1>10. PICK z : /\ Go(r, z) /\ z.pc # "resolve"
                /\ z.pc \in {"renew", "create", "approve"} => Within(z.mine.start, z.mine.roles, z.sid)
                /\ z.op \in AllOps => z.sid \in minted /\ now <= signin[z.sid].at + AbsoluteTtl
  <2>1. CASE Go(r, e)
    BY <2>1, <1>6 DEF AllOps
  <2>2. CASE Go(r, n) /\ now <= LifetimeEndsAt(m)
    BY <2>2, <1>2, <1>3, <1>4, <1>7
  <2>3. CASE Go(r, Enter(q)) /\ now <= LifetimeEndsAt(m)
    BY <2>3, <1>2, <1>3, <1>8, <1>9, IdleHoldsNothing
  <2> QED BY <1>1, <2>1, <2>2, <2>3
<1>11. req'[r] = z /\ \A t \in Requests \ {r} : req'[t] = req[t]
  BY <1>10, GoMoves DEF IInv, WellFormed, TypeOK
<1>12. RecordsDescend' /\ HeldDescend'
  BY <1>1, <1>10, <1>11 DEF IInv, Descends, RecordsDescend, HeldDescend, Within, history, kv
<1>13. ApprovalsDescend' /\ PollsDescend'
  BY <1>1, <1>10, <1>11 DEF IInv, Descends, ApprovalsDescend, PollsDescend, Approval, Within, history, d1
<1>14. SignedInMinted' /\ LifeBoundedBySignIn'
  BY <1>1, <1>10, <1>11 DEF IInv, Descends, SignedInMinted, LifeBoundedBySignIn, SignedIn, history
<1>15. Spending' /\ OneSessionPerProof'
  BY <1>1, <1>10, <1>11 DEF IInv, Spending, Spent, OneSessionPerProof, history, d1
<1> QED BY <1>12, <1>13, <1>14, <1>15 DEF IInv, Descends

\* A record that is put descends as the one the request held.
LEMMA PutKeeps ==
    ASSUME IInv, WellFormed', NEW r \in Requests, PutRecord(r)
    PROVE  IInv'
<1> DEFINE q == [req[r] EXCEPT !.todo = @ \ {"put"}]
           m == [req[r].mine EXCEPT !.expires = now + RenewalTtl(req[r].mine)]
<1>1. req[r] \in Request /\ Form(req[r])
  BY DEF IInv, WellFormed, TypeOK, Forms
<1>2. Go(r, q) /\ rec' = [rec EXCEPT ![req[r].sid] = m] /\ UNCHANGED <<now, idx, d1, history>>
  BY DEF PutRecord
<1>3. Follows(q, req[r]) /\ req[r].pc \in {"renew", "create"}
  BY <1>1 DEF PutRecord, Follows, Request
<1>4. m.start = req[r].mine.start /\ m.roles = req[r].mine.roles
  BY <1>1 DEF Request, Record
<1>5. Within(req[r].mine.start, req[r].mine.roles, req[r].sid)
  BY <1>3 DEF IInv, Descends, HeldDescend
<1> HIDE DEF q, m
<1>6. req'[r] = q /\ \A t \in Requests \ {r} : req'[t] = req[t]
  BY <1>2, GoMoves DEF IInv, WellFormed, TypeOK
<1>7. RecordsDescend'
  <2> SUFFICES ASSUME NEW s \in Ids, rec'[s] # NoRec PROVE Within(rec[s].start, rec[s].roles, s)'
    BY DEF RecordsDescend
  <2>1. CASE s = req[r].sid
    <3>1. rec'[s] = m
      BY <1>2, <2>1 DEF IInv, WellFormed, TypeOK
    <3> QED BY <3>1, <2>1, <1>2, <1>4, <1>5 DEF Within, history
  <2>2. CASE s # req[r].sid
    <3>1. rec'[s] = rec[s]
      BY <1>2, <2>2 DEF IInv, WellFormed, TypeOK
    <3> QED BY <3>1, <1>2 DEF IInv, Descends, RecordsDescend, Within, history
  <2> QED BY <2>1, <2>2
<1>8. HeldDescend'
  BY <1>2, <1>3, <1>6 DEF IInv, Descends, HeldDescend, Within, Follows, history
<1>9. ApprovalsDescend' /\ PollsDescend'
  BY <1>2, <1>3, <1>6 DEF IInv, Descends, ApprovalsDescend, PollsDescend, Approval, Within, Follows, history, d1
<1>10. SignedInMinted' /\ LifeBoundedBySignIn'
  BY <1>2, <1>3, <1>6 DEF IInv, Descends, SignedInMinted, LifeBoundedBySignIn, SignedIn, Follows, history
<1>11. Spending' /\ OneSessionPerProof'
  BY <1>2, <1>3, <1>6 DEF IInv, Spending, Spent, OneSessionPerProof, Follows, history, d1
<1> QED BY <1>7, <1>8, <1>9, <1>10, <1>11 DEF IInv, Descends

\* A signed nonce is consumed once.
LEMMA ConsumeKeeps ==
    ASSUME IInv, WellFormed', NEW r \in Requests, NEW n \in Nonces, NEW door \in {"writer", "delegator"},
           ConsumeNonce(r, n, door)
    PROVE  IInv'
<1> DEFINE q == [Idle EXCEPT !.pc = "resolve", !.op = door, !.x = n]
<1>1. q.pc = "resolve" /\ q.op = door /\ q.x = n /\ door \notin AllOps /\ door # "poll"
  BY DEF Idle, AllOps
<1>2. PICK z : /\ Go(r, z) /\ z.pc \notin {"renew", "create", "approve"} /\ z.op \notin AllOps
               /\ z.pc = "resolve" => z.x = n /\ z.op # "poll"
  <2>1. CASE Go(r, q)
    BY <2>1, <1>1
  <2>2. CASE UNCHANGED req
    <3>1. Go(r, Idle)
      BY <2>2 DEF ConsumeNonce, Go, IInv, WellFormed, TypeOK
    <3> QED BY <3>1, IdleHoldsNothing
  <2> QED BY <2>1, <2>2 DEF ConsumeNonce
<1>3. UNCHANGED <<now, kv, pairing, history>>
  BY DEF ConsumeNonce
<1>4. req'[r] = z /\ \A t \in Requests \ {r} : req'[t] = req[t]
  BY <1>2, GoMoves DEF IInv, WellFormed, TypeOK
<1>5. RecordsDescend' /\ HeldDescend'
  BY <1>2, <1>3, <1>4 DEF IInv, Descends, RecordsDescend, HeldDescend, Within, history, kv
<1>6. ApprovalsDescend' /\ PollsDescend'
  BY <1>2, <1>3, <1>4 DEF IInv, Descends, ApprovalsDescend, PollsDescend, Approval, Within, history
<1>7. SignedInMinted' /\ LifeBoundedBySignIn'
  BY <1>2, <1>3, <1>4 DEF IInv, Descends, SignedInMinted, LifeBoundedBySignIn, SignedIn, history
<1>8. /\ \A x \in Nonces \cup Pairings : Spent(x) => Spent(x)'
      /\ ~Spent(n) /\ Spent(n)'
  <2>1. n \notin Pairings /\ nonce[n].status = "issued"
    BY SessionsAssumption DEF SessionsAssumption, ConsumeNonce
  <2>2. nonce'[n].status = "gone" /\ \A k \in Nonces \ {n} : nonce'[k] = nonce[k]
    BY DEF ConsumeNonce, IInv, WellFormed, TypeOK
  <2> QED BY <2>1, <2>2, <1>3 DEF Spent
<1>9. Spending' /\ OneSessionPerProof'
  BY <1>2, <1>3, <1>8, SpendKeeps
<1> QED BY <1>5, <1>6, <1>7, <1>9 DEF IInv, Descends

\* A poll holds nothing yet.
LEMMA PollKeeps ==
    ASSUME IInv, WellFormed', NEW r \in Requests, NEW p \in Pairings, Poll(r, p)
    PROVE  IInv'
<1> DEFINE q == [Idle EXCEPT !.pc = "claim", !.op = "poll", !.x = p]
<1>1. q.pc = "claim" /\ q.op \notin AllOps
  BY DEF Idle, AllOps
<1>2. Go(r, q) /\ UNCHANGED <<now, kv, d1, history>>
  BY DEF Poll
<1> HIDE DEF q
<1>3. req'[r] = q /\ \A t \in Requests \ {r} : req'[t] = req[t]
  BY <1>2, GoMoves DEF IInv, WellFormed, TypeOK
<1>4. RecordsDescend' /\ HeldDescend'
  BY <1>1, <1>2, <1>3 DEF IInv, Descends, RecordsDescend, HeldDescend, Within, history, kv
<1>5. ApprovalsDescend' /\ PollsDescend'
  BY <1>1, <1>2, <1>3 DEF IInv, Descends, ApprovalsDescend, PollsDescend, Approval, Within, history, d1
<1>6. SignedInMinted' /\ LifeBoundedBySignIn'
  BY <1>1, <1>2, <1>3 DEF IInv, Descends, SignedInMinted, LifeBoundedBySignIn, SignedIn, history
<1>7. Spending' /\ OneSessionPerProof'
  BY <1>1, <1>2, <1>3 DEF IInv, Spending, Spent, OneSessionPerProof, history, d1
<1> QED BY <1>4, <1>5, <1>6, <1>7 DEF IInv, Descends

\* An approval hands on what the approving session descends from.
LEMMA ApproveKeeps ==
    ASSUME IInv, WellFormed', NEW r \in Requests, ApprovePairing(r)
    PROVE  IInv'
<1> DEFINE x == req[r].x
           m == req[r].mine
           row == [pairing[x] EXCEPT !.status = "approved", !.by = req[r].sid, !.roles = m.roles, !.start = m.start]
<1>1. x \in Pairings /\ Within(m.start, m.roles, req[r].sid)
  BY DEF ApprovePairing, IInv, WellFormed, Forms, Form, Descends, HeldDescend
<1>2. Go(r, Idle) /\ UNCHANGED <<now, kv, nonce, history>>
  BY DEF ApprovePairing
<1>3. \/ pairing' = pairing
      \/ pairing' = [pairing EXCEPT ![x] = row] /\ pairing[x].status = "pending"
  BY DEF ApprovePairing, Approvable
<1>4. row.status = "approved" /\ row.by = req[r].sid /\ row.roles = m.roles /\ row.start = m.start
  BY <1>1 DEF IInv, WellFormed, TypeOK
<1> HIDE DEF row, x, m
<1>5. ASSUME NEW p \in Pairings
      PROVE  \/ pairing'[p] = pairing[p]
             \/ pairing'[p] = row /\ pairing[p].status = "pending"
  BY <1>1, <1>3 DEF IInv, WellFormed, TypeOK
<1>6. req'[r] = Idle /\ \A t \in Requests \ {r} : req'[t] = req[t]
  BY <1>2, GoMoves DEF IInv, WellFormed, TypeOK
<1>7. RecordsDescend' /\ HeldDescend'
  BY <1>2, <1>6, IdleHoldsNothing DEF IInv, Descends, RecordsDescend, HeldDescend, Within, history, kv
<1>8. ApprovalsDescend'
  BY <1>1, <1>2, <1>4, <1>5 DEF IInv, Descends, ApprovalsDescend, Approval, Within, history
<1>9. PollsDescend'
  <2> SUFFICES ASSUME NEW t \in Requests, req'[t].pc = "resolve", req'[t].op = "poll" PROVE Approval(req[t].x)'
    BY DEF PollsDescend
  <2>1. req'[t] = req[t] /\ req[t].x \in Pairings
    BY <1>6, IdleHoldsNothing DEF IInv, WellFormed, Forms, Form
  <2>2. Approval(req[t].x) /\ pairing[req[t].x].status # "pending"
    <3>1. Spent(req[t].x) /\ req[t].x \notin Nonces
      BY <2>1, SessionsAssumption DEF SessionsAssumption, IInv, Spending
    <3> QED BY <2>1, <3>1 DEF IInv, Descends, PollsDescend, Spent
  <2>3. pairing'[req[t].x] = pairing[req[t].x]
    BY <2>1, <2>2, <1>5
  <2> QED BY <2>1, <2>2, <2>3, <1>2 DEF Approval, Within, history
<1>10. SignedInMinted' /\ LifeBoundedBySignIn'
  BY <1>2, <1>6, IdleHoldsNothing DEF IInv, Descends, SignedInMinted, LifeBoundedBySignIn, SignedIn, history
<1>11. Spending' /\ OneSessionPerProof'
  <2>1. \A p \in Nonces \cup Pairings : Spent(p) => Spent(p)'
    BY <1>2, <1>5 DEF Spent
  <2> QED BY <1>2, <2>1, IdleHoldsNothing, SpendKeeps
<1> QED BY <1>7, <1>8, <1>9, <1>10, <1>11 DEF IInv, Descends

\* An approval is claimed once.
LEMMA ClaimKeeps ==
    ASSUME IInv, WellFormed', NEW r \in Requests, ClaimPairing(r)
    PROVE  IInv'
<1> DEFINE x == req[r].x
           row == [pairing[x] EXCEPT !.status = "consumed"]
           q == [req[r] EXCEPT !.pc = "resolve"]
<1>1. x \in Pairings /\ req[r].op = "poll" /\ req[r] \in Request
  BY DEF ClaimPairing, IInv, WellFormed, TypeOK, Forms, Form
<1>2. UNCHANGED <<now, kv, nonce, history>>
  BY DEF ClaimPairing
<1>3. q.pc = "resolve" /\ q.op = "poll" /\ q.x = x
  BY <1>1 DEF Request
<1>4. \/ pairing' = pairing /\ Go(r, Idle)
      \/ pairing' = [pairing EXCEPT ![x] = row] /\ pairing[x].status = "approved" /\ Go(r, q)
  BY DEF ClaimPairing, ClaimWins
<1>5. /\ row.status = "consumed" /\ row.by = pairing[x].by
      /\ row.roles = pairing[x].roles /\ row.start = pairing[x].start
  BY <1>1 DEF IInv, WellFormed, TypeOK
<1> HIDE DEF row, x, q
<1>6. ASSUME NEW p \in Pairings
      PROVE  \/ pairing'[p] = pairing[p]
             \/ p = x /\ pairing'[p] = row /\ pairing[p].status = "approved"
  BY <1>1, <1>4 DEF IInv, WellFormed, TypeOK
<1>7. \A p \in Pairings : Approval(p) => Approval(p)'
  BY <1>2, <1>5, <1>6 DEF Approval, Within, history
<1>8. PICK z : /\ Go(r, z) /\ z.pc \notin {"renew", "create", "approve"} /\ z.op \notin AllOps
               /\ z.pc = "resolve" => /\ z.x = x /\ Approval(x) /\ pairing[x].status = "approved"
                                      /\ pairing'[x].status = "consumed"
  <2>1. CASE Go(r, Idle)
    BY <2>1, IdleHoldsNothing
  <2>2. CASE pairing' = [pairing EXCEPT ![x] = row] /\ pairing[x].status = "approved" /\ Go(r, q)
    <3>1. pairing'[x] = row
      BY <2>2, <1>1 DEF IInv, WellFormed, TypeOK
    <3> QED BY <2>2, <3>1, <1>1, <1>3, <1>5 DEF IInv, Descends, ApprovalsDescend, AllOps
  <2> QED BY <2>1, <2>2, <1>4
<1>9. req'[r] = z /\ \A t \in Requests \ {r} : req'[t] = req[t]
  BY <1>8, GoMoves DEF IInv, WellFormed, TypeOK
<1>10. RecordsDescend' /\ HeldDescend'
  BY <1>2, <1>8, <1>9 DEF IInv, Descends, RecordsDescend, HeldDescend, Within, history, kv
<1>11. ApprovalsDescend'
  BY <1>5, <1>6, <1>7 DEF IInv, Descends, ApprovalsDescend
<1>12. PollsDescend'
  BY <1>1, <1>7, <1>8, <1>9 DEF IInv, WellFormed, Forms, Form, Descends, PollsDescend
<1>13. SignedInMinted' /\ LifeBoundedBySignIn'
  BY <1>2, <1>8, <1>9 DEF IInv, Descends, SignedInMinted, LifeBoundedBySignIn, SignedIn, history
<1>14. Spending' /\ OneSessionPerProof'
  <2>1. \A p \in Nonces \cup Pairings : Spent(p) => Spent(p)'
    BY <1>2, <1>5, <1>6 DEF Spent
  <2>2. z.pc = "resolve" => ~Spent(z.x) /\ Spent(z.x)'
    BY <1>1, <1>8, SessionsAssumption DEF SessionsAssumption, Spent
  <2> QED BY <1>1, <1>2, <1>8, <2>1, <2>2, SpendKeeps
<1> QED BY <1>10, <1>11, <1>12, <1>13, <1>14 DEF IInv, Descends

\* A wallet sign-in begins a life; a rejected one begins none.
LEMMA LoginKeeps ==
    ASSUME IInv, WellFormed', NEW r \in Requests, NEW s \in Ids, NEW held, NEW grant,
           FinishLogin(r, s, held, grant)
    PROVE  IInv'
<1> DEFINE roles == SignInRoles(held, grant, req[r].op)
           m == [start |-> now, seen |-> now, roles |-> roles, expires |-> -1]
           o == [at |-> now, roles |-> roles, proof |-> req[r].x]
<1>1. /\ \/ Mint(r, s, m, o)
         \/ Go(r, Idle) /\ UNCHANGED history
      /\ UNCHANGED <<now, kv, d1>> /\ req[r].pc = "resolve" /\ req[r].op \notin AllOps
  BY DEF FinishLogin, AllOps
<1>2. CASE Mint(r, s, m, o)
  <2>1. m.start <= o.at /\ o.proof = req[r].x /\ m.roles \subseteq o.roles \cup {Member, CoProposer}
    BY DEF IInv, WellFormed, TypeOK
  <2> HIDE DEF m, o
  <2> QED BY <1>1, <1>2, <2>1, MintKeeps
<1>3. CASE Go(r, Idle) /\ UNCHANGED history
  BY <1>1, <1>3, FollowKeeps DEF kv
<1> QED BY <1>1, <1>2, <1>3

\* The session of a paired device descends from the approver's sign-in.
LEMMA PairedKeeps ==
    ASSUME IInv, WellFormed', NEW r \in Requests, NEW s \in Ids, NEW held, NEW grant,
           MintPaired(r, s, held, grant)
    PROVE  IInv'
<1> DEFINE row == pairing[req[r].x]
           m == [start |-> LifetimeStart(req[r].x), seen |-> now,
                 roles |-> PairedRoles(held, grant, row.roles), expires |-> -1]
           o == [signin[row.by] EXCEPT !.proof = req[r].x]
<1>1. /\ Mint(r, s, m, o) /\ UNCHANGED <<now, kv, d1>>
      /\ req[r].pc = "resolve" /\ req[r].op = "poll" /\ req[r].op \notin AllOps
  BY DEF MintPaired, AllOps
<1>2. Within(row.start, row.roles, row.by) /\ req[r].x \in Pairings
  BY <1>1 DEF IInv, WellFormed, Forms, Form, Descends, PollsDescend, Approval
<1>3. row.by \in Ids /\ row.start \in Time /\ now \in Int
  BY <1>2 DEF Within, IInv, WellFormed, TypeOK
<1>4. o.at = signin[row.by].at /\ o.roles = signin[row.by].roles /\ o.proof = req[r].x /\ o.at \in Int
  BY <1>3 DEF IInv, WellFormed, TypeOK, Time
<1>5. m.start <= o.at
  <2>1. row.start <= o.at
    BY <1>2, <1>4 DEF Within
  <2>2. m.start = row.start \/ (m.start = now /\ now < row.start)
    <3>1. m.start = IF row.start < now THEN row.start ELSE now
      BY DEF LifetimeStart, Smaller
    <3>2. row.start \in Int /\ now \in Int
      BY <1>3 DEF Time
    <3> HIDE DEF m, row
    <3> QED BY <3>1, <3>2
  <2>3. o.at \in Int /\ row.start \in Int /\ now \in Int
    BY <1>3, <1>4 DEF Time
  <2> HIDE DEF m, o, row
  <2> QED BY <2>1, <2>2, <2>3
<1>6. m.roles \subseteq o.roles \cup {Member, CoProposer}
  BY <1>2, <1>4 DEF Within, PairedRoles, RolesFromUser, WithCoProposer
<1> HIDE DEF m, o
<1> QED BY <1>1, <1>4, <1>5, <1>6, MintKeeps

-----------------------------------------------------------------------------
\* The steps that belong to no request in flight keep the invariant.
LEMMA OutsideKeeps ==
    ASSUME IInv, WellFormed', (\E n \in Nonces : IssueNonce(n)) \/ (\E p \in Pairings : StartPairing(p)) \/ Tick
    PROVE  IInv'
<1>1. ASSUME NEW n \in Nonces, IssueNonce(n) PROVE IInv'
  <2>1. nonce[n].status = "unused" /\ \A k \in Nonces \ {n} : nonce[k].status = "gone" => nonce'[k].status = "gone"
    BY <1>1 DEF IssueNonce, Untouched, Swept, IInv, WellFormed, TypeOK
  <2>2. UNCHANGED <<now, kv, pairing, req, history>>
    BY <1>1 DEF IssueNonce
  <2>3. \A x : Spent(x) => Spent(x)'
    BY <2>1, <2>2 DEF Spent
  <2> QED BY <2>2, <2>3
          DEF IInv, Descends, RecordsDescend, HeldDescend, ApprovalsDescend, PollsDescend, Approval, Within,
              SignedInMinted, LifeBoundedBySignIn, SignedIn, Spending, OneSessionPerProof, kv, history
<1>2. ASSUME NEW p \in Pairings, StartPairing(p) PROVE IInv'
  <2>1. UNCHANGED <<now, kv, nonce, req, history>> /\ pairing[p].status = "unused"
    BY <1>2 DEF StartPairing, UnusedPairing
  <2>2. ASSUME NEW k \in Pairings, k # p
        PROVE  /\ pairing'[k].start = pairing[k].start /\ pairing'[k].roles = pairing[k].roles
               /\ pairing'[k].by = pairing[k].by
               /\ pairing'[k].status = pairing[k].status \/ pairing'[k].status = "gone"
    BY <1>2, <2>2 DEF StartPairing, Swept, IInv, WellFormed, TypeOK
  <2>3. pairing'[p].status = "pending"
    BY <1>2 DEF StartPairing, UnusedPairing
  <2>4. RecordsDescend' /\ HeldDescend'
    BY <2>1 DEF IInv, Descends, RecordsDescend, HeldDescend, Within, history, kv
  <2>5. ApprovalsDescend'
    BY <2>1, <2>2, <2>3 DEF IInv, Descends, ApprovalsDescend, Approval, Within, history
  <2>6. PollsDescend'
    <3> SUFFICES ASSUME NEW t \in Requests, req[t].pc = "resolve", req[t].op = "poll" PROVE Approval(req[t].x)'
      BY <2>1 DEF PollsDescend, Approval
    <3>1. req[t].x \in Pairings /\ Spent(req[t].x) /\ req[t].x \notin Nonces /\ Approval(req[t].x)
      BY SessionsAssumption
         DEF SessionsAssumption, IInv, WellFormed, Forms, Form, Spending, Descends, PollsDescend
    <3>2. req[t].x # p
      BY <3>1, <2>1 DEF Spent
    <3> QED BY <3>1, <3>2, <2>1, <2>2 DEF Approval, Within, history
  <2>7. SignedInMinted' /\ LifeBoundedBySignIn'
    BY <2>1 DEF IInv, Descends, SignedInMinted, LifeBoundedBySignIn, SignedIn, history
  <2>8. Spending' /\ OneSessionPerProof'
    <3>1. \A x : Spent(x) => Spent(x)'
      BY <2>1, <2>2 DEF Spent
    <3> QED BY <2>1, <3>1 DEF IInv, Spending, OneSessionPerProof, history
  <2> QED BY <2>4, <2>5, <2>6, <2>7, <2>8 DEF IInv, Descends
<1>3. CASE Tick
  <2>1. UNCHANGED <<d1, req, history>> /\ \A r \in Requests : req[r] = Idle
    BY <1>3 DEF Tick
  <2>2. \A s \in Ids : rec'[s] = rec[s] \/ rec'[s] = NoRec
    BY <1>3 DEF Tick
  <2>3. RecordsDescend'
    BY <2>1, <2>2 DEF IInv, Descends, RecordsDescend, Within, history
  <2>4. HeldDescend' /\ SignedInMinted' /\ LifeBoundedBySignIn'
    BY <2>1, IdleHoldsNothing DEF HeldDescend, SignedInMinted, LifeBoundedBySignIn, SignedIn
  <2>5. ApprovalsDescend' /\ PollsDescend'
    BY <2>1, IdleHoldsNothing DEF IInv, Descends, ApprovalsDescend, PollsDescend, Approval, Within, history, d1
  <2>6. Spending' /\ OneSessionPerProof'
    BY <2>1 DEF IInv, Spending, Spent, OneSessionPerProof, history, d1
  <2> QED BY <2>3, <2>4, <2>5, <2>6 DEF IInv, Descends
<1> QED BY <1>1, <1>2, <1>3

\* The initial state satisfies the invariant.
LEMMA InitInv == Init => IInv
<1> SUFFICES ASSUME Init PROVE IInv
  OBVIOUS
<1> USE SessionsAssumption DEF SessionsAssumption
<1>1. TypeOK
  <2>1. req \in [Requests -> Request] /\ rec \in [Ids -> Record] /\ idx \in Index
    BY IdleForm, NoneTyped DEF Init
  <2>2. /\ nonce \in [Nonces -> [status : {"unused", "issued", "gone"}, expires : Int]]
        /\ -1 \in Time /\ now \in 0 .. MaxClock
    BY DEF Init, Untouched, Time
  <2>3. pairing \in [Pairings -> [status : {"unused", "pending", "approved", "consumed", "gone"},
                                  expires : Int, by : Ids \cup {None}, roles : SUBSET Role, start : Time]]
    BY <2>2 DEF Init, UnusedPairing
  <2>4. signin \in [Ids -> [at : Time, roles : SUBSET Role, proof : Nonces \cup Pairings \cup {None}]]
    BY <2>2 DEF Init, NoSignIn
  <2> QED BY <2>1, <2>2, <2>3, <2>4 DEF Init, TypeOK
<1>2. Forms
  BY IdleForm DEF Init, Forms
<1>3. Descends
  BY IdleHoldsNothing
     DEF Init, Descends, RecordsDescend, HeldDescend, ApprovalsDescend, PollsDescend, SignedInMinted,
         LifeBoundedBySignIn, SignedIn, UnusedPairing
<1>4. Spending /\ OneSessionPerProof
  BY IdleHoldsNothing DEF Init, Spending, OneSessionPerProof
<1> QED BY <1>1, <1>2, <1>3, <1>4 DEF IInv, WellFormed

\* Every step keeps the invariant.
LEMMA NextInv == IInv /\ [Next]_vars => IInv'
<1> SUFFICES ASSUME IInv, [Next]_vars PROVE IInv'
  OBVIOUS
<1>1. WellFormed'
  BY WellFormedStep DEF IInv, Descends
<1>2. ASSUME NEW r \in Requests, NEW s \in Ids, NEW op \in Ops[r], NEW x \in Targets(op), Visit(r, s, op, x)
      PROVE  IInv'
  <2>1. op \in AllOps
    BY SessionsAssumption DEF SessionsAssumption
  <2> QED BY <1>1, <1>2, <2>1, VisitKeeps
<1>3. ASSUME NEW r \in Requests, NEW n \in Nonces, NEW door \in {"writer", "delegator"}, ConsumeNonce(r, n, door)
      PROVE  IInv'
  BY <1>1, <1>3, ConsumeKeeps
<1>4. ASSUME NEW r \in Requests, NEW p \in Pairings, Poll(r, p) PROVE IInv'
  BY <1>1, <1>4, PollKeeps
<1>5. ASSUME NEW r \in Requests, Step(r) PROVE IInv'
  <2>1. CASE PutRecord(r)
    BY <1>1, <2>1, PutKeeps
  <2>2. CASE ApprovePairing(r)
    BY <1>1, <2>2, ApproveKeeps
  <2>3. CASE ClaimPairing(r)
    BY <1>1, <2>3, ClaimKeeps
  <2>4. ASSUME NEW s \in Ids, NEW held \in {{}, {Writer}}, NEW grant \in Grants, FinishLogin(r, s, held, grant)
        PROVE  IInv'
    BY <1>1, <2>4, LoginKeeps
  <2>5. ASSUME NEW s \in Ids, NEW held \in {{}, {Writer}}, NEW grant \in Grants, MintPaired(r, s, held, grant)
        PROVE  IInv'
    BY <1>1, <2>5, PairedKeeps
  <2> QED BY <1>1, <1>5, <2>1, <2>2, <2>3, <2>4, <2>5, QuietSteps DEF Step
<1>6. ASSUME NEW r \in Requests, Abort(r) PROVE IInv'
  BY <1>1, <1>6, QuietSteps
<1>7. CASE UNCHANGED vars
  BY <1>1, <1>7
     DEF vars, IInv, Descends, RecordsDescend, HeldDescend, ApprovalsDescend, PollsDescend, Approval, Within,
         SignedInMinted, LifeBoundedBySignIn, SignedIn, Spending, Spent, OneSessionPerProof
<1> QED BY <1>1, <1>2, <1>3, <1>4, <1>5, <1>6, <1>7, OutsideKeeps DEF Next

-----------------------------------------------------------------------------
\* The sessions, the pairings and the requests keep their types, and no record
\* or list is stored for longer than the idle time.
THEOREM TypeCorrect == Spec => []TypeOK
<1>1. Init => IInv
  BY InitInv
<1>2. IInv /\ [Next]_vars => IInv'
  BY NextInv
<1>3. IInv => TypeOK
  BY DEF IInv, WellFormed
<1> QED BY <1>1, <1>2, <1>3, PTL DEF Spec

\* No chain of renewals and pairings, however interleaved, lives past the cap
\* counted from the wallet sign-in it began with.
THEOREM LifeBounded == Spec => []LifeBoundedBySignIn
<1>1. Init => IInv
  BY InitInv
<1>2. IInv /\ [Next]_vars => IInv'
  BY NextInv
<1>3. IInv => LifeBoundedBySignIn
  BY DEF IInv, Descends
<1> QED BY <1>1, <1>2, <1>3, PTL DEF Spec

\* No stored session holds a role its wallet sign-in did not grant.
THEOREM RolesBounded == Spec => []RolesWithinSignIn
<1>1. Init => IInv
  BY InitInv
<1>2. IInv /\ [Next]_vars => IInv'
  BY NextInv
<1>3. IInv => RolesWithinSignIn
  BY DEF IInv, Descends, RecordsDescend, Within, RolesWithinSignIn
<1> QED BY <1>1, <1>2, <1>3, PTL DEF Spec

\* A signed nonce and an approval each open one session at most.
THEOREM ProofsSingleUse == Spec => []OneSessionPerProof
<1>1. Init => IInv
  BY InitInv
<1>2. IInv /\ [Next]_vars => IInv'
  BY NextInv
<1>3. IInv => OneSessionPerProof
  BY DEF IInv
<1> QED BY <1>1, <1>2, <1>3, PTL DEF Spec
=============================================================================

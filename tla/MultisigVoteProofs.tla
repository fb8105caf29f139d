------------------------- MODULE MultisigVoteProofs -------------------------
(***************************************************************************)
(* Proofs about MultisigVote, for any signers, transactions, calls and     *)
(* browsers.  The inductive invariant has three independent parts: what    *)
(* the witness calls know of a row, what the browsers know of it, and the  *)
(* vote row against the chain.                                             *)
(***************************************************************************)
EXTENDS MultisigVote, FiniteSetTheorems, TLAPS

\* A witness call has failed at most once for each signature it has seen, and
\* what it saw is still in the row while the row collects.
CallForm(r) ==
    /\ pend[req[r].tx].status # "none"
    /\ Collecting(req[r].tx) =>
         IF req[r].pc = "swap"
           THEN req[r].seen \subseteq pend[req[r].tx].signed /\ req[r].tries <= Cardinality(req[r].seen)
           ELSE req[r].tries <= Cardinality(pend[req[r].tx].signed)

\* A row that was never stored has answered nobody.
Unanswered(p) == pend[p].status = "none" => acked[p] = {} /\ refused[p] = {}

SignForm ==
    /\ AckedKept /\ NoSignerTurnedAway
    /\ \A p \in Txs : Unanswered(p)
    /\ \A r \in Requests : req[r].pc # "idle" => CallForm(r)

\* A browser about to store a row is the only one with its transaction, one
\* about to record a vote the only one that will.
TabForm ==
    /\ \A p \in Txs : pend[p].status = "none" => p \notin sent /\ recorded[p] = 0
    /\ \A b \in Tabs : tab[b].pc = "store" =>
         pend[tab[b].tx].status = "none" /\ \A c \in Tabs \ {b} : tab[c].tx # tab[b].tx
    /\ \A b \in Tabs : tab[b].pc \in {"wallet", "report", "claim"} => pend[tab[b].tx].status # "none"
    /\ \A b \in Tabs : tab[b].pc = "record" =>
         /\ pend[tab[b].tx].status = "submitted" /\ recorded[tab[b].tx] = 0
         /\ \A c \in Tabs \ {b} : tab[c].pc = "record" => tab[c].tx # tab[b].tx
    /\ RecordedOnce

ChainForm ==
    /\ final => ~active
    /\ FinalVoteShown

IInv == TypeOK /\ SignForm /\ TabForm /\ ChainForm

-----------------------------------------------------------------------------

\* A larger set of signatures has more of them.
LEMMA MoreSigned ==
    ASSUME NEW S \in SUBSET Signers, NEW T \in SUBSET S
    PROVE  /\ Cardinality(S) \in Nat /\ Cardinality(T) \in Nat
           /\ Cardinality(T) <= Cardinality(S) /\ Cardinality(S) <= Cardinality(Signers)
           /\ Cardinality(Signers) \in Nat
           /\ T # S => Cardinality(T) + 1 <= Cardinality(S)
           /\ Cardinality(S) >= Cardinality(Signers) => S = Signers
<1>1. IsFiniteSet(Signers)
  BY MultisigAssumption DEF MultisigAssumption
<1>2. IsFiniteSet(S) /\ Cardinality(S) <= Cardinality(Signers) /\ (Cardinality(S) = Cardinality(Signers) => S = Signers)
  BY <1>1, FS_Subset
<1>3. IsFiniteSet(T) /\ Cardinality(T) <= Cardinality(S) /\ (Cardinality(T) = Cardinality(S) => S = T)
  BY <1>2, FS_Subset
<1>4. Cardinality(S) \in Nat /\ Cardinality(T) \in Nat /\ Cardinality(Signers) \in Nat
  BY <1>1, <1>2, <1>3, FS_CardinalityType
<1> QED
  BY <1>2, <1>3, <1>4

-----------------------------------------------------------------------------
(* Steps that leave a part of the invariant alone.                         *)

LEMMA SignKept ==
    ASSUME SignForm, UNCHANGED <<pend, req, acked, refused>>
    PROVE  SignForm'
BY DEF SignForm, AckedKept, NoSignerTurnedAway, Unanswered, CallForm, Collecting

LEMMA TabKept ==
    ASSUME TypeOK, TabForm, UNCHANGED <<tab, sent, recorded>>, \A p \in Txs : pend'[p].status = pend[p].status
    PROVE  TabForm'
<1>1. \A b \in Tabs : tab[b].pc # "idle" => tab[b].tx \in Txs
  BY DEF TypeOK, Closed
<1> QED
  BY <1>1 DEF TabForm, RecordedOnce

LEMMA ChainKept ==
    ASSUME ChainForm, UNCHANGED <<active, last, vote, final>>
    PROVE  ChainForm'
BY DEF ChainForm, FinalVoteShown

-----------------------------------------------------------------------------
(* Types.                                                                  *)

LEMMA InitIInv == Init => IInv
<1> SUFFICES ASSUME Init PROVE IInv
  OBVIOUS
<1>1. TypeOK
  <2> USE MultisigAssumption DEF MultisigAssumption
  <2>1. 0 \in 0..MaxClock /\ 0 \in 0..(MaxClock + Window)
    OBVIOUS
  <2>2. NoPending \in [status : {"none", "collecting", "submitted", "deleted"},
                       signed : SUBSET Signers, expires : 0..(MaxClock + Window)]
    BY <2>1 DEF NoPending
  <2>3. NoVote \in [tx : TxOrNone, local : {"none", "null", "pending", "failed"}]
    BY DEF NoVote, TxOrNone
  <2>4. NoRequest.pc = "idle"
    BY DEF NoRequest
  <2> QED
    BY <2>1, <2>2, <2>3, <2>4 DEF Init, TypeOK, TxOrNone
<1>2. SignForm
  BY DEF Init, SignForm, AckedKept, NoSignerTurnedAway, Unanswered, NoPending, NoRequest, Collecting
<1>3. TabForm
  BY DEF Init, TabForm, RecordedOnce, NoPending, Closed
<1>4. ChainForm
  BY DEF Init, ChainForm, FinalVoteShown
<1> QED
  BY <1>1, <1>2, <1>3, <1>4 DEF IInv

\* The record of a witness call that is under way.
Calling == [pc : {"read", "swap"}, tx : Txs, key : Signers, seen : SUBSET Signers, tries : 0..MaxTries]

LEMMA CallTyped ==
    ASSUME TypeOK, NEW r \in Requests, req[r].pc # "idle"
    PROVE  req[r] \in Calling
BY DEF TypeOK, NoRequest, Calling

\* The record of a browser that holds a transaction.
Holding == [pc : {"store", "wallet", "report", "claim", "record"}, tx : Txs]

LEMMA TabTyped ==
    ASSUME TypeOK, NEW b \in Tabs, tab[b].pc # "idle"
    PROVE  tab[b] \in Holding
BY DEF TypeOK, Closed, Holding

LEMMA TypeChain ==
    ASSUME TypeOK, Tick \/ (\E p \in Txs : Land(p)) \/ Decide \/ Pull \/ MarkFailed
    PROVE  TypeOK'
<1> USE MultisigAssumption DEF MultisigAssumption
<1>1. CASE Tick
  BY <1>1 DEF TypeOK, Tick, chain, answers
<1>2. CASE \E p \in Txs : Land(p)
  BY <1>2 DEF TypeOK, Land, answers, TxOrNone
<1>3. CASE Decide
  BY <1>3 DEF TypeOK, Decide, chain, answers
<1>4. CASE Pull
  BY <1>4 DEF TypeOK, Pull, chain, answers, Synced, TxOrNone
<1>5. CASE MarkFailed
  BY <1>5 DEF TypeOK, MarkFailed, chain, answers
<1> QED
  BY <1>1, <1>2, <1>3, <1>4, <1>5

LEMMA TypePending ==
    ASSUME TypeOK, Expire \/ \E b \in Tabs : Store(b) \/ ClaimSubmitted(b)
    PROVE  TypeOK'
<1> USE MultisigAssumption DEF MultisigAssumption
<1>1. CASE Expire
  BY <1>1 DEF TypeOK, Expire, chain, answers, NoPending
<1>2. ASSUME NEW b \in Tabs, Store(b) PROVE TypeOK'
  <2>1. tab[b] \in Holding
    BY <1>2, TabTyped DEF Store
  <2>2. clock + Window \in 0..(MaxClock + Window)
    BY DEF TypeOK
  <2> QED
    BY <1>2, <2>1, <2>2 DEF TypeOK, Store, Holding, chain, answers, Closed
<1>3. ASSUME NEW b \in Tabs, ClaimSubmitted(b) PROVE TypeOK'
  <2>1. tab[b] \in Holding /\ [tab[b] EXCEPT !.pc = "record"] \in Holding
    BY <1>3, TabTyped DEF ClaimSubmitted, Holding
  <2>2. tab' = [tab EXCEPT ![b] = [tab[b] EXCEPT !.pc = "record"]] \/ tab' = [tab EXCEPT ![b] = Closed]
    BY <1>3 DEF ClaimSubmitted
  <2>3. tab' \in [Tabs -> {Closed} \cup Holding]
    BY <2>1, <2>2 DEF TypeOK, Holding
  <2>4. pend' = pend \/ pend' = [pend EXCEPT ![tab[b].tx] = [pend[tab[b].tx] EXCEPT !.status = "submitted"]]
    BY <1>3 DEF ClaimSubmitted
  <2>5. pend' \in [Txs -> [status : {"none", "collecting", "submitted", "deleted"},
                           signed : SUBSET Signers, expires : 0..(MaxClock + Window)]]
    BY <2>1, <2>4 DEF TypeOK, Holding
  <2> QED
    BY <1>3, <2>3, <2>5 DEF TypeOK, ClaimSubmitted, Holding, chain, answers
<1> QED
  BY <1>1, <1>2, <1>3

LEMMA TypeCall ==
    ASSUME TypeOK, NEW r \in Requests, RequestStep(r)
    PROVE  TypeOK'
<1> USE MultisigAssumption DEF MultisigAssumption
<1>1. ASSUME NEW p \in Txs, NEW k \in Signers, Sign(r, p, k) PROVE TypeOK'
  <2> DEFINE new == [NoRequest EXCEPT !.pc = "read", !.tx = p, !.key = k]
  <2>1. 0 \in 0..MaxTries
    OBVIOUS
  <2>2. new.pc = "read" /\ new \in Calling
    BY <2>1 DEF NoRequest, Calling
  <2>3. req' = [req EXCEPT ![r] = new]
    BY <1>1 DEF Sign
  <2> HIDE DEF new
  <2>4. req' \in [Requests -> {NoRequest} \cup Calling]
    BY <2>2, <2>3 DEF TypeOK, Calling
  <2>5. \A q \in Requests : req'[q].pc = "swap" => req'[q].key \notin req'[q].seen
    BY <2>2, <2>3 DEF TypeOK
  <2> QED
    BY <1>1, <2>4, <2>5 DEF TypeOK, Sign, chain, answers, Calling
<1>2. CASE ReadRow(r)
  <2>1. req[r] \in Calling
    BY <1>2, CallTyped DEF ReadRow
  <2> DEFINE new == [req[r] EXCEPT !.pc = "swap", !.seen = pend[req[r].tx].signed]
  <2>0. pend[req[r].tx].signed \in SUBSET Signers
    BY <2>1 DEF Calling, TypeOK
  <2>2. new \in Calling /\ new.seen = pend[req[r].tx].signed /\ new.key = req[r].key
    BY <2>0, <2>1 DEF Calling
  <2>3. \/ req' = [req EXCEPT ![r] = NoRequest]
        \/ req' = [req EXCEPT ![r] = new] /\ req[r].key \notin pend[req[r].tx].signed
    BY <1>2 DEF ReadRow, Has
  <2>7. NoRequest.pc = "idle"
    BY DEF NoRequest
  <2> HIDE DEF new
  <2>4. req' \in [Requests -> {NoRequest} \cup Calling]
    BY <2>2, <2>3 DEF TypeOK, Calling
  <2>5. \A q \in Requests : req'[q].pc = "swap" => req'[q].key \notin req'[q].seen
    BY <2>2, <2>3, <2>7 DEF TypeOK
  <2>6. acked' \in [Txs -> SUBSET Signers]
    BY <1>2, <2>1 DEF ReadRow, TypeOK, Calling
  <2> QED
    BY <1>2, <2>4, <2>5, <2>6 DEF TypeOK, ReadRow, chain, Calling
<1>3. CASE Swap(r)
  <2>1. req[r] \in Calling
    BY <1>3, CallTyped DEF Swap
  <2> DEFINE new == [req[r] EXCEPT !.pc = "read", !.tries = req[r].tries + 1]
  <2>0. ~Exhausted(req[r].tries + 1) => req[r].tries + 1 \in 0..MaxTries
    BY <2>1 DEF Calling, Exhausted
  <2>2. ~Exhausted(req[r].tries + 1) => new \in Calling /\ new.pc = "read"
    BY <2>0, <2>1 DEF Calling
  <2>9. NoRequest.pc = "idle"
    BY DEF NoRequest
  <2>3. \/ req' = [req EXCEPT ![r] = NoRequest]
        \/ req' = [req EXCEPT ![r] = new] /\ ~Exhausted(req[r].tries + 1)
    BY <1>3 DEF Swap
  <2> HIDE DEF new
  <2>4. req' \in [Requests -> {NoRequest} \cup Calling]
    BY <2>2, <2>3 DEF TypeOK, Calling
  <2>5. \A q \in Requests : req'[q].pc = "swap" => req'[q].key \notin req'[q].seen
    BY <2>2, <2>3, <2>9 DEF TypeOK
  <2>6. /\ acked' = acked \/ acked' = [acked EXCEPT ![req[r].tx] = acked[req[r].tx] \cup {req[r].key}]
        /\ refused' = refused \/ refused' = [refused EXCEPT ![req[r].tx] = refused[req[r].tx] \cup {req[r].key}]
    BY <1>3 DEF Swap, answers
  <2>10. acked' \in [Txs -> SUBSET Signers] /\ refused' \in [Txs -> SUBSET Signers]
    <3>1. /\ acked[req[r].tx] \cup {req[r].key} \in SUBSET Signers
          /\ refused[req[r].tx] \cup {req[r].key} \in SUBSET Signers
      BY <2>1 DEF TypeOK, Calling
    <3>2. acked' \in [Txs -> SUBSET Signers]
      BY <2>6, <3>1 DEF TypeOK
    <3>3. refused' \in [Txs -> SUBSET Signers]
      BY <2>6, <3>1 DEF TypeOK
    <3> QED
      BY <3>2, <3>3
  <2>7. \/ pend' = pend
        \/ pend' = [pend EXCEPT ![req[r].tx] = [pend[req[r].tx] EXCEPT !.signed = req[r].seen \cup {req[r].key}]]
    BY <1>3 DEF Swap
  <2>8. pend' \in [Txs -> [status : {"none", "collecting", "submitted", "deleted"},
                           signed : SUBSET Signers, expires : 0..(MaxClock + Window)]]
    <3>1. /\ req[r].tx \in Txs /\ req[r].seen \cup {req[r].key} \in SUBSET Signers
          /\ pend \in [Txs -> [status : {"none", "collecting", "submitted", "deleted"},
                                signed : SUBSET Signers, expires : 0..(MaxClock + Window)]]
      BY <2>1 DEF TypeOK, Calling
    <3>2. [pend[req[r].tx] EXCEPT !.signed = req[r].seen \cup {req[r].key}]
            \in [status : {"none", "collecting", "submitted", "deleted"},
                 signed : SUBSET Signers, expires : 0..(MaxClock + Window)]
      BY <3>1
    <3> QED
      BY <2>7, <3>1, <3>2
  <2> QED
    BY <1>3, <2>4, <2>5, <2>10, <2>8 DEF TypeOK, Swap, chain, Calling
<1> QED
  BY <1>1, <1>2, <1>3 DEF RequestStep

LEMMA TypeTab ==
    ASSUME TypeOK, NEW b \in Tabs, TabStep(b)
    PROVE  TypeOK'
<1>1. ASSUME NEW p \in Txs, Initiate(b, p) \/ Assemble(b, p) \/ ReportToo(b, p) PROVE TypeOK'
  BY <1>1 DEF TypeOK, Initiate, Assemble, ReportToo, chain, answers
<1>2. CASE Store(b) \/ ClaimSubmitted(b)
  BY <1>2, TypePending
<1>3. CASE Submit(b) \/ Reject(b) \/ Report(b)
  <2>1. tab[b] \in Holding
    BY <1>3, TabTyped DEF Submit, Reject, Report
  <2>2. \A k \in {"report", "claim"} : [tab[b] EXCEPT !.pc = k] \in Holding
    BY <2>1 DEF Holding
  <2>3. \E t \in {Closed} \cup Holding : tab' = [tab EXCEPT ![b] = t]
    <3>1. CASE Submit(b)
      BY <2>2, <3>1 DEF Submit
    <3>2. CASE Reject(b)
      BY <3>2 DEF Reject
    <3>3. CASE Report(b)
      BY <2>2, <3>3 DEF Report
    <3> QED
      BY <1>3, <3>1, <3>2, <3>3
  <2>4. tab' \in [Tabs -> {Closed} \cup Holding]
    BY <2>3 DEF TypeOK, Holding
  <2> QED
    BY <1>3, <2>1, <2>4 DEF TypeOK, Submit, Reject, Report, chain, answers, Holding
<1>4. CASE Record(b)
  <2>1. tab[b] \in Holding
    BY <1>4, TabTyped DEF Record
  <2>2. vote' \in [tx : TxOrNone, local : {"none", "null", "pending", "failed"}]
    BY <1>4, <2>1 DEF Record, TypeOK, Holding, TxOrNone
  <2>3. recorded' \in [Txs -> Nat]
    BY <1>4, <2>1 DEF Record, TypeOK, Holding
  <2> QED
    BY <1>4, <2>2, <2>3 DEF TypeOK, Record, chain, answers
<1> QED
  BY <1>1, <1>2, <1>3, <1>4 DEF TabStep

LEMMA TypeStep == TypeOK /\ [Next]_vars => TypeOK'
<1>1. ASSUME TypeOK, UNCHANGED vars PROVE TypeOK'
  BY <1>1 DEF TypeOK, vars
<1> QED
  BY <1>1, TypeChain, TypePending, TypeCall, TypeTab DEF Next

-----------------------------------------------------------------------------
(* The witness calls.                                                      *)

\* A read takes the row as it is; nothing has failed that the row does not show.
LEMMA SignReads ==
    ASSUME TypeOK, SignForm, NEW r \in Requests,
           ReadRow(r) \/ \E p \in Txs, k \in Signers : Sign(r, p, k)
    PROVE  SignForm'
<1>1. ASSUME NEW p \in Txs, NEW k \in Signers, Sign(r, p, k) PROVE SignForm'
  <2> DEFINE new == [NoRequest EXCEPT !.pc = "read", !.tx = p, !.key = k]
  <2>1. req' = [req EXCEPT ![r] = new] /\ Collecting(p) /\ UNCHANGED <<pend, acked, refused>>
    BY <1>1 DEF Sign, answers
  <2>2. new.pc = "read" /\ new.tx = p /\ new.tries = 0
    BY DEF NoRequest
  <2> HIDE DEF new
  <2>3. 0 <= Cardinality(pend[p].signed)
    <3>1. pend[p].signed \in SUBSET Signers
      BY DEF TypeOK
    <3>2. Cardinality(pend[p].signed) \in Nat
      BY <3>1, MoreSigned
    <3> QED
      BY <3>2
  <2>4. \A q \in Requests : req'[q].pc # "idle" => CallForm(q)'
    <3> SUFFICES ASSUME NEW q \in Requests, req'[q].pc # "idle" PROVE CallForm(q)'
      OBVIOUS
    <3>1. CASE q = r
      <4>1. req'[q] = new
        BY <2>1, <3>1 DEF TypeOK
      <4>2. pend[p].status # "none"
        BY <2>1 DEF Collecting
      <4> QED
        BY <2>1, <2>2, <2>3, <4>1, <4>2 DEF CallForm, Collecting
    <3>2. CASE q # r
      <4>1. req'[q] = req[q]
        BY <2>1, <3>2 DEF TypeOK
      <4> QED
        BY <2>1, <4>1 DEF CallForm, Collecting, SignForm
    <3> QED
      BY <3>1, <3>2
  <2> QED
    BY <2>1, <2>4 DEF SignForm, AckedKept, NoSignerTurnedAway, Unanswered, Collecting
<1>2. CASE ReadRow(r)
  <2> DEFINE p == req[r].tx
             k == req[r].key
             new == [req[r] EXCEPT !.pc = "swap", !.seen = pend[p].signed]
  <2>1. req[r] \in Calling /\ req[r].pc = "read" /\ p \in Txs /\ k \in Signers
    BY <1>2, CallTyped DEF ReadRow, Calling
  <2>2. new.pc = "swap" /\ new.tx = p /\ new.seen = pend[p].signed /\ new.tries = req[r].tries
    BY <2>1 DEF Calling
  <2>3. \/ req' = [req EXCEPT ![r] = NoRequest]
        \/ req' = [req EXCEPT ![r] = new] /\ Collecting(p)
    BY <1>2 DEF ReadRow
  <2>4. UNCHANGED <<pend, refused>>
    BY <1>2 DEF ReadRow
  <2>5. \/ acked' = acked
        \/ acked' = [acked EXCEPT ![p] = acked[p] \cup {k}] /\ Collecting(p) /\ k \in pend[p].signed
    <3>1. acked' = [acked EXCEPT ![p] = IF Collecting(p) /\ Has(p, k) THEN acked[p] \cup {k} ELSE acked[p]]
      BY <1>2 DEF ReadRow
    <3>2. CASE Collecting(p) /\ Has(p, k)
      BY <3>1, <3>2 DEF Has
    <3>3. CASE ~(Collecting(p) /\ Has(p, k))
      BY <2>1, <3>1, <3>3 DEF TypeOK
    <3> QED
      BY <3>2, <3>3
  <2>6. CallForm(r)
    BY <2>1 DEF SignForm
  <2>7. NoRequest.pc = "idle"
    BY DEF NoRequest
  <2> HIDE DEF new
  <2>8. \A q \in Requests : req'[q].pc # "idle" => CallForm(q)'
    <3> SUFFICES ASSUME NEW q \in Requests, req'[q].pc # "idle" PROVE CallForm(q)'
      OBVIOUS
    <3>1. CASE q = r
      <4>1. req'[q] = new /\ Collecting(p)
        BY <2>3, <2>7, <3>1 DEF TypeOK
      <4>2. req[r].tries <= Cardinality(pend[p].signed) /\ pend[p].status # "none"
        BY <2>1, <2>6, <4>1 DEF CallForm
      <4> QED
        BY <2>2, <2>4, <4>1, <4>2 DEF CallForm, Collecting
    <3>2. CASE q # r
      <4>1. req'[q] = req[q]
        BY <2>3, <3>2 DEF TypeOK
      <4> QED
        BY <2>4, <4>1 DEF CallForm, Collecting, SignForm
    <3> QED
      BY <3>1, <3>2
  <2>9. AckedKept' /\ \A x \in Txs : Unanswered(x)'
    BY <2>1, <2>4, <2>5 DEF SignForm, AckedKept, Unanswered, TypeOK, Collecting
  <2> QED
    BY <2>4, <2>8, <2>9 DEF SignForm, NoSignerTurnedAway, Collecting
<1> QED
  BY <1>1, <1>2

\* The swap adds one signature to the row that was read, or shows that the row
\* has grown since.
LEMMA SignSwaps ==
    ASSUME TypeOK, SignForm, NEW r \in Requests, Swap(r)
    PROVE  SignForm'
<1> DEFINE p == req[r].tx
           k == req[r].key
           s == pend[p].signed
           more == [pend[p] EXCEPT !.signed = req[r].seen \cup {k}]
           again == [req[r] EXCEPT !.pc = "read", !.tries = req[r].tries + 1]
<1>1. req[r] \in Calling /\ req[r].pc = "swap" /\ p \in Txs /\ k \in Signers /\ s \in SUBSET Signers
  <2>1. req[r] \in Calling /\ req[r].pc = "swap"
    BY CallTyped DEF Swap
  <2> QED
    BY <2>1 DEF Calling, TypeOK
<1>2. CallForm(r)
  BY <1>1 DEF SignForm
<1>3. NoRequest.pc = "idle"
  BY DEF NoRequest
<1>4. ASSUME NEW q \in Requests \ {r}
      PROVE  req'[q] = req[q]
  BY <1>4 DEF Swap, TypeOK
<1>5. CASE Unchanged(p, req[r].seen)
  <2>1. /\ pend' = [pend EXCEPT ![p] = more]
        /\ acked' = [acked EXCEPT ![p] = acked[p] \cup {k}]
        /\ req' = [req EXCEPT ![r] = NoRequest]
        /\ UNCHANGED refused
    BY <1>5 DEF Swap
  <2>2. more.status = "collecting" /\ more.signed = s \cup {k} /\ pend[p].status = "collecting"
    BY <1>1, <1>5 DEF Unchanged, Collecting, TypeOK
  <2> HIDE DEF more
  <2>3. /\ pend'[p].status = "collecting" /\ pend'[p].signed = s \cup {k}
        /\ \A x \in Txs \ {p} : pend'[x] = pend[x]
    BY <1>1, <2>1, <2>2 DEF TypeOK
  <2>4. AckedKept' /\ NoSignerTurnedAway' /\ \A x \in Txs : Unanswered(x)'
    BY <1>1, <2>1, <2>2, <2>3 DEF SignForm, AckedKept, NoSignerTurnedAway, Unanswered, TypeOK, Collecting
  <2>5. Cardinality(s) \in Nat /\ Cardinality(s \cup {k}) \in Nat /\ Cardinality(s) <= Cardinality(s \cup {k})
    <3>1. s \cup {k} \in SUBSET Signers /\ s \in SUBSET (s \cup {k})
      BY <1>1
    <3> HIDE DEF s, k
    <3> QED
      BY <3>1, MoreSigned
  <2>6. \A q \in Requests : req'[q].pc # "idle" => CallForm(q)'
    <3> SUFFICES ASSUME NEW q \in Requests, req'[q].pc # "idle" PROVE CallForm(q)'
      OBVIOUS
    <3>1. q # r
      BY <1>3, <2>1 DEF TypeOK
    <3>2. req'[q] = req[q] /\ req[q] \in Calling /\ CallForm(q)
      BY <1>4, <3>1, CallTyped DEF SignForm
    <3>3. CASE req[q].tx # p
      BY <2>3, <3>2, <3>3 DEF CallForm, Collecting, Calling
    <3>4. CASE req[q].tx = p
      <4>1. IF req[q].pc = "swap"
              THEN req[q].seen \subseteq s /\ req[q].tries <= Cardinality(req[q].seen)
              ELSE req[q].tries <= Cardinality(s)
        BY <2>2, <3>2, <3>4 DEF CallForm, Collecting
      <4>2. req[q].tries \in Nat
        BY <3>2 DEF Calling
      <4>3. req[q].tries <= Cardinality(s) => req[q].tries <= Cardinality(s \cup {k})
        BY <2>5, <4>2
      <4> QED
        BY <2>3, <3>2, <3>4, <4>1, <4>3 DEF CallForm, Collecting
    <3> QED
      BY <3>3, <3>4
  <2> QED
    BY <2>4, <2>6 DEF SignForm
<1>6. CASE ~Unchanged(p, req[r].seen)
  <2>1. /\ UNCHANGED <<pend, acked>>
        /\ \/ /\ Exhausted(req[r].tries + 1)
              /\ refused' = [refused EXCEPT ![p] = refused[p] \cup {k}]
              /\ req' = [req EXCEPT ![r] = NoRequest]
           \/ refused' = refused /\ req' = [req EXCEPT ![r] = again]
    BY <1>6 DEF Swap, answers
  <2>2. again.pc = "read" /\ again.tx = p /\ again.tries = req[r].tries + 1
    BY <1>1 DEF Calling
  <2> HIDE DEF again
  <2>3. Collecting(p) => req[r].tries + 1 <= Cardinality(s)
    <3> SUFFICES ASSUME Collecting(p) PROVE req[r].tries + 1 <= Cardinality(s)
      OBVIOUS
    <3>1. req[r].seen \subseteq s /\ req[r].tries <= Cardinality(req[r].seen) /\ req[r].seen # s
      BY <1>1, <1>2, <1>6 DEF CallForm, Unchanged
    <3>2. req[r].seen \in SUBSET s
      BY <3>1
    <3> DEFINE t == req[r].seen
    <3>3. Cardinality(t) + 1 <= Cardinality(s) /\ Cardinality(t) \in Nat /\ Cardinality(s) \in Nat
      <4>1. t # s /\ t \in SUBSET s /\ s \in SUBSET Signers
        BY <1>1, <3>1, <3>2
      <4> HIDE DEF s, t
      <4> QED
        BY <4>1, MoreSigned
    <3>4. req[r].tries \in Nat
      BY <1>1 DEF Calling
    <3> QED
      BY <3>1, <3>3, <3>4
  <2>4. Collecting(p) /\ Exhausted(req[r].tries + 1) => k \in s
    <3> SUFFICES ASSUME Collecting(p), Exhausted(req[r].tries + 1) PROVE k \in s
      OBVIOUS
    <3>1. Cardinality(s) \in Nat /\ Cardinality(Signers) \in Nat
          /\ (Cardinality(s) >= Cardinality(Signers) => s = Signers)
      <4>1. {} \in SUBSET s
        OBVIOUS
      <4> HIDE DEF s
      <4> QED
        BY <1>1, <4>1, MoreSigned
    <3>2. req[r].tries \in Nat /\ MaxTries \in Nat /\ Cardinality(Signers) <= MaxTries
      BY <1>1, MultisigAssumption DEF Calling, MultisigAssumption
    <3>3. s = Signers
      BY <2>3, <3>1, <3>2 DEF Exhausted
    <3> QED
      BY <1>1, <3>3
  <2>5. AckedKept' /\ NoSignerTurnedAway' /\ \A x \in Txs : Unanswered(x)'
    BY <1>1, <1>2, <2>1, <2>4 DEF SignForm, AckedKept, NoSignerTurnedAway, Unanswered, TypeOK, Collecting, CallForm
  <2>6. \A q \in Requests : req'[q].pc # "idle" => CallForm(q)'
    <3> SUFFICES ASSUME NEW q \in Requests, req'[q].pc # "idle" PROVE CallForm(q)'
      OBVIOUS
    <3>1. CASE q = r
      <4>1. req'[q] = again
        BY <1>3, <2>1, <3>1 DEF TypeOK
      <4>2. pend[p].status # "none"
        BY <1>2 DEF CallForm
      <4> QED
        BY <2>1, <2>2, <2>3, <4>1, <4>2 DEF CallForm, Collecting
    <3>2. CASE q # r
      BY <1>4, <2>1, <3>2 DEF CallForm, Collecting, SignForm
    <3> QED
      BY <3>1, <3>2
  <2> QED
    BY <2>5, <2>6 DEF SignForm
<1> QED
  BY <1>5, <1>6

-----------------------------------------------------------------------------
(* The browsers.                                                           *)

\* What a browser that holds a transaction knows of its row.
LEMMA TabKnows ==
    ASSUME TypeOK, TabForm, NEW b \in Tabs, tab[b].pc # "idle"
    PROVE  /\ tab[b] \in Holding /\ tab[b].tx \in Txs
           /\ tab[b].pc # "store" => pend[tab[b].tx].status # "none"
<1>1. tab[b] \in Holding
  BY TabTyped
<1> QED
  BY <1>1 DEF Holding, TabForm

\* A browser that lets go of its transaction.
LEMMA TabCloses ==
    ASSUME TypeOK, TabForm, NEW b \in Tabs,
           tab' = [tab EXCEPT ![b] = Closed], UNCHANGED <<pend, sent, recorded>>
    PROVE  TabForm'
<1>1. tab'[b].pc = "idle" /\ tab'[b].tx = "none" /\ \A c \in Tabs \ {b} : tab'[c] = tab[c]
  BY DEF TypeOK, Closed
<1>2. \A c \in Tabs : tab[c].pc # "idle" => tab[c].tx \in Txs /\ tab[c].tx # "none"
  BY TabKnows, MultisigAssumption DEF MultisigAssumption
<1> QED
  BY <1>1, <1>2 DEF TabForm, RecordedOnce

\* A browser takes up a transaction, or goes on without a write to the tables.
LEMMA TabMoves ==
    ASSUME TypeOK, TabForm, NEW b \in Tabs,
           \/ \E p \in Txs : Initiate(b, p) \/ Assemble(b, p) \/ ReportToo(b, p)
           \/ Submit(b) \/ Reject(b) \/ Report(b)
    PROVE  TabForm'
<1>1. ASSUME NEW p \in Txs, Initiate(b, p) PROVE TabForm'
  BY <1>1, TabKnows DEF Initiate, TabForm, RecordedOnce, TypeOK, chain
<1>2. ASSUME NEW p \in Txs, Assemble(b, p) \/ ReportToo(b, p) PROVE TabForm'
  <2>1. \E t \in {"wallet", "claim"} : tab' = [tab EXCEPT ![b] = [pc |-> t, tx |-> p]]
    BY <1>2 DEF Assemble, ReportToo
  <2>2. pend[p].status # "none" /\ UNCHANGED <<pend, sent, recorded>>
    BY <1>2 DEF Assemble, ReportToo, Collecting, TabForm, chain
  <2>3. \A c \in Tabs : tab[c].pc = "store" => tab[c].tx # p
    BY <2>2 DEF TabForm
  <2> QED
    BY <2>1, <2>2, <2>3, TabKnows DEF TabForm, RecordedOnce, TypeOK
<1>3. CASE Submit(b)
  BY <1>3, TabKnows DEF Submit, TabForm, RecordedOnce, TypeOK
<1>4. CASE Reject(b)
  BY <1>4, TabCloses DEF Reject, chain
<1>5. CASE Report(b)
  <2>1. tab' = [tab EXCEPT ![b] = Closed] \/ tab' = [tab EXCEPT ![b] = [tab[b] EXCEPT !.pc = "claim"]]
    BY <1>5 DEF Report
  <2>2. UNCHANGED <<pend, sent, recorded>> /\ tab[b].pc = "report"
    BY <1>5 DEF Report, chain
  <2>3. [tab[b] EXCEPT !.pc = "claim"].pc = "claim" /\ [tab[b] EXCEPT !.pc = "claim"].tx = tab[b].tx
    BY <2>2, TabKnows DEF Holding
  <2>4. CASE tab' = [tab EXCEPT ![b] = [tab[b] EXCEPT !.pc = "claim"]]
    BY <2>2, <2>3, <2>4, TabKnows DEF TabForm, RecordedOnce, TypeOK
  <2> QED
    BY <2>1, <2>2, <2>4, TabCloses
<1> QED
  BY <1>1, <1>2, <1>3, <1>4, <1>5

\* A row is stored once, by the only browser with its transaction.
LEMMA Stores ==
    ASSUME TypeOK, SignForm, TabForm, NEW b \in Tabs, Store(b)
    PROVE  SignForm' /\ TabForm'
<1> DEFINE p == tab[b].tx
           new == [status |-> "collecting", signed |-> {}, expires |-> clock + Window]
<1>1. p \in Txs /\ tab[b].pc = "store" /\ pend[p].status = "none"
      /\ \A c \in Tabs \ {b} : tab[c].tx # p
  BY TabKnows DEF Store, TabForm
<1>2. /\ pend' = [pend EXCEPT ![p] = new] /\ tab' = [tab EXCEPT ![b] = Closed]
      /\ UNCHANGED <<req, acked, refused, sent, recorded>>
  BY DEF Store, chain, answers
<1>3. new.status = "collecting"
  OBVIOUS
<1> HIDE DEF new
<1>4. pend'[p].status = "collecting" /\ \A x \in Txs \ {p} : pend'[x] = pend[x]
  BY <1>1, <1>2, <1>3 DEF TypeOK
<1>5. acked[p] = {} /\ refused[p] = {} /\ p \notin sent /\ recorded[p] = 0
  BY <1>1 DEF SignForm, Unanswered, TabForm
<1>6. \A r \in Requests : req[r].pc # "idle" => req[r].tx \in Txs /\ req[r].tx # p
  <2> SUFFICES ASSUME NEW r \in Requests, req[r].pc # "idle" PROVE req[r].tx \in Txs /\ req[r].tx # p
    OBVIOUS
  <2>1. req[r].tx \in Txs
    BY CallTyped DEF Calling
  <2> QED
    BY <1>1, <2>1 DEF SignForm, CallForm
<1>7. SignForm'
  BY <1>1, <1>2, <1>4, <1>5, <1>6 DEF SignForm, AckedKept, NoSignerTurnedAway, Unanswered, CallForm, Collecting
<1>8. TabForm'
  <2>1. \A c \in Tabs \ {b} : tab'[c] = tab[c]
    BY <1>2 DEF TypeOK
  <2>2. tab'[b].pc = "idle" /\ tab'[b].tx = "none" /\ "none" \notin Txs
    BY <1>2, MultisigAssumption DEF TypeOK, Closed, MultisigAssumption
  <2>3. \A c \in Tabs \ {b} : tab[c].pc # "idle" => tab[c].tx \in Txs \ {p}
    BY <1>1, TabKnows
  <2> QED
    BY <1>1, <1>2, <1>4, <1>5, <2>1, <2>2, <2>3 DEF TabForm, RecordedOnce
<1> QED
  BY <1>7, <1>8

\* The claim closes the row for every other report, and nothing signs it again.
LEMMA Claims ==
    ASSUME TypeOK, SignForm, TabForm, NEW b \in Tabs, ClaimSubmitted(b)
    PROVE  SignForm' /\ TabForm'
<1> DEFINE p == tab[b].tx
           new == [pend[p] EXCEPT !.status = "submitted"]
           rec == [tab[b] EXCEPT !.pc = "record"]
<1>1. p \in Txs /\ tab[b].pc = "claim" /\ tab[b] \in Holding
  BY TabKnows DEF ClaimSubmitted
<1>2. UNCHANGED <<req, acked, refused, sent, recorded>>
  BY DEF ClaimSubmitted, chain, answers
<1>3. CASE Collecting(p)
  <2>1. pend' = [pend EXCEPT ![p] = new] /\ tab' = [tab EXCEPT ![b] = rec]
    BY <1>3 DEF ClaimSubmitted, Claimable
  <2>2. new.status = "submitted" /\ new.signed = pend[p].signed
    BY <1>1 DEF TypeOK
  <2>3. rec.pc = "record" /\ rec.tx = p
    BY <1>1 DEF Holding
  <2> HIDE DEF new, rec
  <2>4. /\ pend'[p].status = "submitted" /\ pend'[p].signed = pend[p].signed
        /\ \A x \in Txs \ {p} : pend'[x] = pend[x]
    BY <1>1, <2>1, <2>2 DEF TypeOK
  <2>5. \A c \in Tabs \ {b} : tab'[c] = tab[c]
    BY <2>1 DEF TypeOK
  <2>6. tab'[b].pc = "record" /\ tab'[b].tx = p
    BY <2>1, <2>3 DEF TypeOK
  <2>7. pend[p].status = "collecting"
    BY <1>3 DEF Collecting
  <2>8. \A c \in Tabs : tab[c].pc # "idle" => tab[c].tx \in Txs
    BY TabKnows
  <2>9. \A r \in Requests : req[r].pc # "idle" => req[r].tx \in Txs
    BY CallTyped DEF Calling
  <2>10. SignForm'
    BY <1>1, <1>2, <2>4, <2>7, <2>9 DEF SignForm, AckedKept, NoSignerTurnedAway, Unanswered, CallForm, Collecting
  <2>11. recorded[p] = 0
    <3>1. recorded[p] \in Nat /\ recorded[p] <= 1
      BY <1>1 DEF TabForm, RecordedOnce, TypeOK
    <3>2. recorded[p] # 1
      BY <1>1, <2>7 DEF TabForm, RecordedOnce
    <3> QED
      BY <3>1, <3>2
  <2>12. \A c \in Tabs : tab[c].pc = "record" => tab[c].tx # p
    BY <2>7 DEF TabForm
  <2>13. TabForm'
    BY <1>1, <1>2, <2>4, <2>5, <2>6, <2>7, <2>8, <2>11, <2>12 DEF TabForm, RecordedOnce
  <2> QED
    BY <2>10, <2>13
<1>4. CASE ~Collecting(p)
  <2>1. pend' = pend /\ tab' = [tab EXCEPT ![b] = Closed]
    BY <1>4 DEF ClaimSubmitted, Claimable
  <2>2. TabForm'
    BY <1>2, <2>1, TabCloses
  <2> QED
    BY <1>2, <2>1, <2>2, SignKept
<1> QED
  BY <1>3, <1>4

\* The winner records the vote and forgets the transaction.
LEMMA Records ==
    ASSUME TypeOK, TabForm, NEW b \in Tabs, Record(b)
    PROVE  TabForm'
<1> DEFINE p == tab[b].tx
<1>1. p \in Txs /\ tab[b].pc = "record" /\ pend[p].status = "submitted" /\ recorded[p] = 0
      /\ \A c \in Tabs \ {b} : tab[c].pc = "record" => tab[c].tx # p
  BY TabKnows DEF Record, TabForm
<1>2. recorded' = [recorded EXCEPT ![p] = recorded[p] + 1] /\ tab' = [tab EXCEPT ![b] = Closed]
      /\ UNCHANGED <<pend, sent>>
  BY DEF Record, chain
<1>3. recorded'[p] = 1 /\ \A x \in Txs \ {p} : recorded'[x] = recorded[x]
  BY <1>1, <1>2 DEF TypeOK
<1>4. tab'[b].pc = "idle" /\ tab'[b].tx = "none" /\ "none" \notin Txs /\ \A c \in Tabs \ {b} : tab'[c] = tab[c]
  BY <1>2, MultisigAssumption DEF TypeOK, Closed, MultisigAssumption
<1>5. \A c \in Tabs : tab[c].pc # "idle" => tab[c].tx \in Txs
  BY TabKnows
<1> QED
  BY <1>1, <1>2, <1>3, <1>4, <1>5 DEF TabForm, RecordedOnce

\* Only rows that collect are deleted.
LEMMA Expires ==
    ASSUME TypeOK, SignForm, TabForm, Expire
    PROVE  SignForm' /\ TabForm'
<1>1. UNCHANGED <<req, tab, acked, refused, sent, recorded>>
  BY DEF Expire, chain, answers
<1>2. \A x \in Txs : \/ pend'[x] = pend[x]
                     \/ pend[x].status = "collecting" /\ pend'[x].status = "deleted"
  BY DEF Expire, Expired, Collecting, NoPending
<1>3. \A c \in Tabs : tab[c].pc # "idle" => tab[c].tx \in Txs
  BY TabKnows
<1>4. \A r \in Requests : req[r].pc # "idle" => req[r].tx \in Txs
  BY CallTyped DEF Calling
<1>5. SignForm'
  BY <1>1, <1>2, <1>4 DEF SignForm, AckedKept, NoSignerTurnedAway, Unanswered, CallForm, Collecting
<1>6. TabForm'
  <2>1. \A x \in Txs : /\ pend'[x].status = "none" <=> pend[x].status = "none"
                       /\ pend[x].status = "submitted" => pend'[x].status = "submitted"
    BY <1>2
  <2>2. RecordedOnce'
    BY <1>1, <2>1 DEF TabForm, RecordedOnce
  <2>3. \A x \in Txs : pend'[x].status = "none" => x \notin sent /\ recorded[x] = 0
    BY <2>1 DEF TabForm
  <2>4. \A c \in Tabs :
          /\ tab[c].pc = "store" => pend'[tab[c].tx].status = "none"
          /\ tab[c].pc \in {"wallet", "report", "claim"} => pend'[tab[c].tx].status # "none"
          /\ tab[c].pc = "record" => pend'[tab[c].tx].status = "submitted"
    BY <1>3, <2>1 DEF TabForm
  <2> QED
    BY <1>1, <2>2, <2>3, <2>4 DEF TabForm
<1> QED
  BY <1>5, <1>6

-----------------------------------------------------------------------------
(* The vote row against the chain.                                         *)

\* Nothing lands once the action is decided, and what shows the last vote is
\* neither marked failed nor overwritten.
LEMMA ChainStep ==
    ASSUME TypeOK, ChainForm, Next
    PROVE  ChainForm'
<1>1. CASE Tick \/ Expire
  BY <1>1, ChainKept DEF Tick, Expire, chain
<1>2. CASE Decide
  BY <1>2 DEF Decide, chain, ChainForm, FinalVoteShown
<1>7. CASE Pull
  <2>1. UNCHANGED <<active, last>>
    BY <1>7 DEF Pull, chain
  <2>2. final' => ~active
    BY <1>7 DEF Pull
  <2>3. last # "none" => vote' = Synced(last)
    BY <1>7 DEF Pull
  <2> QED
    BY <2>1, <2>2, <2>3 DEF ChainForm, FinalVoteShown, Synced
<1>3. CASE MarkFailed
  <2>1. ~(final /\ last # "none")
    BY <1>3 DEF MarkFailed, ChainForm, FinalVoteShown, Synced
  <2> QED
    BY <1>3, <2>1 DEF MarkFailed, chain, ChainForm, FinalVoteShown
<1>4. ASSUME NEW p \in Txs, Land(p) PROVE ChainForm'
  BY <1>4 DEF Land, ChainForm, FinalVoteShown
<1>5. ASSUME NEW r \in Requests, RequestStep(r) PROVE ChainForm'
  BY <1>5, ChainKept DEF RequestStep, Sign, ReadRow, Swap, chain
<1>6. ASSUME NEW b \in Tabs, TabStep(b) PROVE ChainForm'
  <2>1. CASE Record(b)
    <3>1. final /\ last # "none" => vote.local = "null" /\ ~active
      BY DEF ChainForm, FinalVoteShown, Synced
    <3>2. final /\ last # "none" => vote' = vote
      BY <2>1, <3>1 DEF Record, Overwritable
    <3> QED
      BY <2>1, <3>2 DEF Record, chain, ChainForm, FinalVoteShown
  <2>2. CASE Store(b) \/ Submit(b) \/ Reject(b) \/ Report(b) \/ ClaimSubmitted(b)
    BY <2>2, ChainKept DEF Store, Submit, Reject, Report, ClaimSubmitted, chain
  <2>3. ASSUME NEW p \in Txs, Initiate(b, p) \/ Assemble(b, p) \/ ReportToo(b, p) PROVE ChainForm'
    BY <2>3, ChainKept DEF Initiate, Assemble, ReportToo, chain
  <2> QED
    BY <1>6, <2>1, <2>2, <2>3 DEF TabStep
<1> QED
  BY <1>1, <1>2, <1>3, <1>4, <1>5, <1>6, <1>7 DEF Next

-----------------------------------------------------------------------------
(* Every step keeps the invariant.                                         *)

LEMMA CallStep ==
    ASSUME TypeOK, SignForm, TabForm, NEW r \in Requests, RequestStep(r)
    PROVE  SignForm' /\ TabForm'
<1>1. CASE ReadRow(r) \/ \E p \in Txs, k \in Signers : Sign(r, p, k)
  <2>1. UNCHANGED <<pend, tab, sent, recorded>>
    BY <1>1 DEF ReadRow, Sign, chain
  <2> QED
    BY <1>1, <2>1, SignReads, TabKept
<1>2. CASE Swap(r)
  <2>1. UNCHANGED <<tab, sent, recorded>>
    BY <1>2 DEF Swap, chain
  <2>2. \A p \in Txs : pend'[p].status = pend[p].status
    BY <1>2 DEF Swap, TypeOK
  <2> QED
    BY <1>2, <2>1, <2>2, SignSwaps, TabKept
<1> QED
  BY <1>1, <1>2 DEF RequestStep

LEMMA BrowserStep ==
    ASSUME TypeOK, SignForm, TabForm, NEW b \in Tabs, TabStep(b)
    PROVE  SignForm' /\ TabForm'
<1>1. CASE Store(b)
  BY <1>1, Stores
<1>2. CASE ClaimSubmitted(b)
  BY <1>2, Claims
<1>3. CASE Record(b)
  <2>1. UNCHANGED <<pend, req, acked, refused>>
    BY <1>3 DEF Record, answers
  <2> QED
    BY <1>3, <2>1, Records, SignKept
<1>4. CASE Submit(b) \/ Reject(b) \/ Report(b)
  <2>1. UNCHANGED <<pend, req, acked, refused>>
    BY <1>4 DEF Submit, Reject, Report, answers
  <2> QED
    BY <1>4, <2>1, TabMoves, SignKept
<1>5. ASSUME NEW p \in Txs, Initiate(b, p) \/ Assemble(b, p) \/ ReportToo(b, p) PROVE SignForm' /\ TabForm'
  <2>1. UNCHANGED <<pend, req, acked, refused>>
    BY <1>5 DEF Initiate, Assemble, ReportToo, answers
  <2> QED
    BY <1>5, <2>1, TabMoves, SignKept
<1> QED
  BY <1>1, <1>2, <1>3, <1>4, <1>5 DEF TabStep

LEMMA StepIInv == IInv /\ [Next]_vars => IInv'
<1> SUFFICES ASSUME IInv, [Next]_vars PROVE IInv'
  OBVIOUS
<1> USE DEF IInv
<1>1. TypeOK'
  BY TypeStep
<1>2. CASE UNCHANGED vars
  BY <1>1, <1>2, SignKept, TabKept, ChainKept DEF vars
<1>3. CASE Next
  <2>1. ASSUME Tick \/ Decide \/ Pull \/ MarkFailed \/ \E p \in Txs : Land(p)
        PROVE  SignForm' /\ TabForm'
    <3>1. UNCHANGED <<pend, req, tab, acked, refused, recorded>>
      BY <2>1 DEF Tick, Decide, Pull, MarkFailed, Land, answers
    <3>2. sent' = sent
      BY <2>1 DEF Tick, Decide, Pull, MarkFailed, Land, chain
    <3>3. \A p \in Txs : pend'[p].status = pend[p].status
      BY <3>1
    <3> QED
      BY <3>1, <3>2, <3>3, SignKept, TabKept
  <2>2. SignForm' /\ TabForm'
    BY <1>3, <2>1, Expires, CallStep, BrowserStep, SignKept, TabKept DEF Next
  <2> QED
    BY <1>1, <1>3, <2>2, ChainStep
<1> QED
  BY <1>2, <1>3

LEMMA Invariance == Spec => []IInv
BY InitIInv, StepIInv, PTL DEF Spec

-----------------------------------------------------------------------------
(* The results.                                                            *)

\* Rows, calls and browsers stay within their types, and a call about to swap
\* has read a row without its key (addPendingWitness).
THEOREM TypeCorrect == Spec => []TypeOK
BY Invariance, PTL DEF IInv

\* However many witness calls append at once, a signature that was acknowledged
\* is in the row as long as the row is there: the compare-and-swap of
\* addPendingWitness writes back what it read plus one key.
THEOREM AcknowledgedStay == Spec => []AckedKept
BY Invariance, PTL DEF IInv, SignForm

\* ADD_WITNESS_MAX_ATTEMPTS suffices for a script of no more signers than
\* attempts: every lost swap is another signature in the row, so the call that
\* loses the last one finds its own key among them.
THEOREM NobodyTurnedAway == Spec => []NoSignerTurnedAway
BY Invariance, PTL DEF IInv, SignForm

\* Among any number of reports of one transaction, markPendingSubmitted lets
\* one record the vote, and only of a closed row.
THEOREM VotesRecordedOnce == Spec => []RecordedOnce
BY Invariance, PTL DEF IInv, TabForm

\* A report that arrives after the last pull of a decided action does not
\* replace the vote that counted (recordLocalVote).
THEOREM FinalVotesShown == Spec => []FinalVoteShown
BY Invariance, PTL DEF IInv, ChainForm
-----------------------------------------------------------------------------
(* The signing round is a ledger of witnesses.                             *)

\* Enough signers were told that their witness is in.
Enough(p) == \E S \in Satisfying : S \subseteq acked[p]

\* Rows hold acknowledged signatures only; a browser at its wallet has enough of
\* them.
RoundForm ==
    /\ \A p \in Txs : pend[p].signed \subseteq acked[p]
    /\ \A b \in Tabs : tab[b].pc = "wallet" => Enough(tab[b].tx)

\* Nobody is untold.
LEMMA RoundGrows ==
    ASSUME TypeOK, Next
    PROVE  \A p \in Txs : acked[p] \subseteq acked'[p]
<1>1. ASSUME NEW r \in Requests, RequestStep(r) PROVE \A p \in Txs : acked[p] \subseteq acked'[p]
  <2>1. ASSUME NEW k, acked' = acked \/ acked' = [acked EXCEPT ![req[r].tx] = acked[req[r].tx] \cup {k}]
        PROVE  \A p \in Txs : acked[p] \subseteq acked'[p]
    BY <2>1 DEF TypeOK
  <2>2. CASE \E p \in Txs, k \in Signers : Sign(r, p, k)
    BY <2>2 DEF Sign, chain, answers
  <2>3. CASE ReadRow(r)
    <3>1. acked' = acked \/ acked' = [acked EXCEPT ![req[r].tx] = acked[req[r].tx] \cup {req[r].key}]
      BY <2>3 DEF ReadRow, TypeOK
    <3> QED BY <2>1, <2>3, <3>1 DEF ReadRow, chain
  <2>4. CASE Swap(r)
    <3>1. acked' = acked \/ acked' = [acked EXCEPT ![req[r].tx] = acked[req[r].tx] \cup {req[r].key}]
      BY <2>4 DEF Swap, answers
    <3> QED BY <2>1, <2>4, <3>1 DEF Swap, chain
  <2> QED BY <1>1, <2>2, <2>3, <2>4 DEF RequestStep
<1>2. ASSUME NEW b \in Tabs, TabStep(b) PROVE acked' = acked
  BY <1>2 DEF TabStep, Initiate, Assemble, ReportToo, Store, Submit, Reject, Report, ClaimSubmitted, Record,
              chain, answers
<1>3. CASE Tick \/ Decide \/ Pull \/ MarkFailed \/ Expire \/ \E p \in Txs : Land(p)
  BY <1>3 DEF Tick, Decide, Pull, MarkFailed, Expire, Land, chain, answers
<1> QED BY <1>1, <1>2, <1>3 DEF Next

\* A signature enters a row with its acknowledgement, whatever else a call does.
LEMMA RowsAcked ==
    ASSUME TypeOK, RoundForm, Next, \A p \in Txs : acked[p] \subseteq acked'[p]
    PROVE  \A p \in Txs : pend'[p].signed \subseteq acked'[p]
<1>1. ASSUME \A p \in Txs : pend'[p].signed \in {{}, pend[p].signed}
      PROVE  \A p \in Txs : pend'[p].signed \subseteq acked'[p]
  BY <1>1 DEF RoundForm
<1>2. ASSUME NEW r \in Requests, Swap(r) PROVE \A p \in Txs : pend'[p].signed \subseteq acked'[p]
  <2> DEFINE q == req[r].tx
             k == req[r].key
  <2>1. q \in Txs
    BY <1>2, CallTyped DEF Swap, Calling
  <2>2. CASE pend' = pend
    BY <1>1, <2>2
  <2>3. CASE pend' # pend
    <3>1. /\ pend' = [pend EXCEPT ![q] = [pend[q] EXCEPT !.signed = pend[q].signed \cup {k}]]
          /\ acked' = [acked EXCEPT ![q] = acked[q] \cup {k}]
      BY <1>2, <2>3 DEF Swap, Unchanged
    <3>2. pend'[q].signed = pend[q].signed \cup {k} /\ \A p \in Txs \ {q} : pend'[p] = pend[p]
      BY <2>1, <3>1 DEF TypeOK
    <3>3. acked'[q] = acked[q] \cup {k} /\ \A p \in Txs \ {q} : acked'[p] = acked[p]
      BY <2>1, <3>1 DEF TypeOK
    <3> QED BY <3>2, <3>3 DEF RoundForm
  <2> QED BY <2>2, <2>3
<1>3. ASSUME NEW b \in Tabs, Store(b) PROVE \A p \in Txs : pend'[p].signed \in {{}, pend[p].signed}
  BY <1>3 DEF Store, TypeOK
<1>4. ASSUME NEW b \in Tabs, ClaimSubmitted(b) PROVE \A p \in Txs : pend'[p].signed \in {{}, pend[p].signed}
  BY <1>4 DEF ClaimSubmitted, TypeOK
<1>5. CASE Expire
  BY <1>1, <1>5 DEF Expire, NoPending
<1>6. CASE UNCHANGED pend
  BY <1>1, <1>6
<1> QED BY <1>1, <1>2, <1>3, <1>4, <1>5, <1>6
       DEF Next, RequestStep, TabStep, Tick, Decide, Pull, MarkFailed, Land, Sign, ReadRow, Initiate,
           Assemble, ReportToo, Submit, Reject, Report, Record

\* A browser goes to its wallet with a satisfied row.
LEMMA TabsKnow ==
    ASSUME TypeOK, RoundForm, Next, \A p \in Txs : acked[p] \subseteq acked'[p]
    PROVE  \A b \in Tabs : tab'[b].pc = "wallet" => Enough(tab[b].tx)'
<1> DEFINE Knows(b) == tab'[b].pc = "wallet" => Enough(tab[b].tx)'
<1> SUFFICES ASSUME NEW b \in Tabs PROVE Knows(b)
  OBVIOUS
<1>0. \A p \in Txs : Enough(p) => Enough(p)'
  BY DEF Enough
<1>1. CASE tab'[b] = tab[b]
  <2>1. tab[b].pc = "wallet" => tab[b].tx \in Txs
    BY TabTyped DEF Holding
  <2> QED BY <1>0, <1>1, <2>1 DEF RoundForm, Enough
<1>3. CASE TabStep(b)
  <2>0. tab \in [Tabs -> {Closed} \cup Holding] /\ Closed.pc = "idle"
    BY DEF TypeOK, Holding, Closed
  <2>1. ASSUME NEW p \in Txs, Assemble(b, p) PROVE Knows(b)
    <3>1. tab'[b].pc = "wallet" /\ tab'[b].tx = p /\ pend[p].signed \in Satisfying /\ acked' = acked
      BY <2>0, <2>1 DEF Assemble, Satisfied, answers
    <3>2. Enough(p)'
      BY <3>1 DEF Enough, RoundForm
    <3> QED BY <3>1, <3>2 DEF Enough
  <2>2. ASSUME NEW p \in Txs, Initiate(b, p) \/ ReportToo(b, p) PROVE Knows(b)
    BY <2>0, <2>2 DEF Initiate, ReportToo
  <2>3. CASE Submit(b) \/ Report(b) \/ ClaimSubmitted(b)
    <3>1. tab[b] \in Holding
      BY <2>3, TabTyped DEF Submit, Report, ClaimSubmitted
    <3>2. tab'[b].pc \in {"report", "claim", "record", "idle"}
      BY <2>0, <2>3, <3>1 DEF Submit, Report, ClaimSubmitted, Holding
    <3> QED BY <3>2
  <2>4. CASE Store(b) \/ Reject(b) \/ Record(b)
    BY <2>0, <2>4 DEF Store, Reject, Record
  <2> QED BY <1>3, <2>1, <2>2, <2>3, <2>4 DEF TabStep
<1>4. ASSUME NEW c \in Tabs \ {b}, TabStep(c) PROVE tab'[b] = tab[b]
  BY <1>4 DEF TypeOK, TabStep, Initiate, Assemble, ReportToo, Store, Submit, Reject, Report, ClaimSubmitted, Record
<1>5. CASE UNCHANGED tab
  BY <1>1, <1>5
<1> QED BY <1>1, <1>3, <1>4, <1>5
       DEF Next, RequestStep, Tick, Decide, Pull, MarkFailed, Expire, Land, Sign, ReadRow, Swap

LEMMA RoundStep == TypeOK /\ RoundForm /\ [Next]_vars => RoundForm'
<1> SUFFICES ASSUME TypeOK, RoundForm, [Next]_vars PROVE RoundForm'
  OBVIOUS
<1>1. CASE UNCHANGED vars
  BY <1>1 DEF vars, RoundForm, Enough
<1>2. CASE Next
  BY <1>2, RoundGrows, RowsAcked, TabsKnow DEF RoundForm, Enough
<1> QED BY <1>1, <1>2

\* The stages and the signatures of the rows, as the ledger has them.
StageOf == [p \in Txs |-> pend[p].status]
SignedOf == [p \in Txs |-> pend[p].signed]

\* A row that is stored starts its round.
LEMMA StoreStarts ==
    ASSUME IInv, RoundForm, NEW b \in Tabs, Store(b)
    PROVE  \E p \in Txs : Ledger!Start(p)
<1>0. PICK p \in Txs : p = tab[b].tx
  BY TabTyped DEF Store, Holding, IInv
<1> DEFINE row == [status |-> "collecting", signed |-> {}, expires |-> clock + Window]
<1>1. pend[p].status = "none"
  BY <1>0 DEF Store, IInv, TabForm
<1>2. pend[p].signed = {}
  BY <1>1 DEF IInv, SignForm, Unanswered, RoundForm
<1>3. pend' = [pend EXCEPT ![p] = row] /\ UNCHANGED <<acked, sent, recorded>>
  BY <1>0 DEF Store, chain, answers
<1>4. row.status = "collecting" /\ row.signed = {}
  OBVIOUS
<1> HIDE DEF row
<1>5. StageOf' = [StageOf EXCEPT ![p] = "collecting"]
  BY <1>3, <1>4 DEF StageOf, IInv, TypeOK
<1>6. SignedOf' = SignedOf
  BY <1>2, <1>3, <1>4 DEF SignedOf, IInv, TypeOK
<1>7. Ledger!Start(p)
  BY <1>1, <1>3, <1>5, <1>6 DEF Ledger!Start, StageOf, SignedOf
<1> QED BY <1>7

\* A swap that succeeds signs; one that does not, and a call that finds its key
\* in the row, change nothing.
LEMMA CallSigns ==
    ASSUME IInv, RoundForm, NEW r \in Requests, RequestStep(r)
    PROVE  (\E p \in Txs, k \in Signers : Ledger!Sign(p, k)) \/ UNCHANGED <<StageOf, SignedOf, acked, sent, recorded>>
<1> USE DEF IInv
<1>1. CASE \E p \in Txs, k \in Signers : Sign(r, p, k)
  BY <1>1 DEF Sign, chain, answers, StageOf, SignedOf
<1>2. CASE ReadRow(r)
  <2>1. req[r].tx \in Txs
    BY <1>2, CallTyped DEF ReadRow, Calling
  <2>2. Has(req[r].tx, req[r].key) => req[r].key \in acked[req[r].tx]
    BY <2>1 DEF Has, RoundForm
  <2>3. acked' = [acked EXCEPT ![req[r].tx] = acked[req[r].tx]]
    BY <1>2, <2>2 DEF ReadRow
  <2>4. acked' = acked
    BY <2>3 DEF TypeOK
  <2> QED BY <1>2, <2>4 DEF ReadRow, chain, StageOf, SignedOf
<1>3. CASE Swap(r) /\ ~Unchanged(req[r].tx, req[r].seen)
  BY <1>3 DEF Swap, chain, answers, StageOf, SignedOf
<1>4. CASE Swap(r) /\ Unchanged(req[r].tx, req[r].seen)
  <2>0. PICK p \in Txs, k \in Signers : p = req[r].tx /\ k = req[r].key
    BY <1>4, CallTyped DEF Swap, Calling
  <2> DEFINE row == [pend[p] EXCEPT !.signed = pend[p].signed \cup {k}]
  <2>2. Collecting(p) /\ k \notin pend[p].signed
    BY <1>4, <2>0 DEF Unchanged, Swap, TypeOK
  <2>3. k \notin acked[p] /\ pend[p].status = "collecting"
    BY <2>2 DEF SignForm, AckedKept, Collecting
  <2>4. /\ pend' = [pend EXCEPT ![p] = row]
        /\ acked' = [acked EXCEPT ![p] = acked[p] \cup {k}]
        /\ UNCHANGED <<sent, recorded>>
    BY <1>4, <2>0 DEF Swap, Unchanged, chain
  <2>5. row.status = pend[p].status /\ row.signed = pend[p].signed \cup {k}
    BY DEF TypeOK
  <2> HIDE DEF row
  <2>6. StageOf' = StageOf
    BY <2>4, <2>5 DEF StageOf, TypeOK
  <2>7. SignedOf' = [SignedOf EXCEPT ![p] = @ \cup {k}]
    BY <2>4, <2>5 DEF SignedOf, TypeOK
  <2>8. Ledger!Sign(p, k)
    BY <2>3, <2>4, <2>6, <2>7 DEF Ledger!Sign, StageOf, SignedOf
  <2> QED BY <2>8
<1> QED BY <1>1, <1>2, <1>3, <1>4 DEF RequestStep

\* The wallet sends, the claim settles, the winner records.
LEMMA SubmitSends ==
    ASSUME IInv, RoundForm, NEW b \in Tabs, Submit(b)
    PROVE  Ledger!Send(tab[b].tx) /\ tab[b].tx \in Txs
<1>1. tab[b].tx \in Txs /\ pend[tab[b].tx].status # "none" /\ Enough(tab[b].tx)
  BY TabTyped DEF Submit, Holding, IInv, TabForm, RoundForm
<1>2. tab[b].tx \notin sent /\ sent' = sent \cup {tab[b].tx} /\ UNCHANGED <<pend, acked, recorded>>
  BY DEF Submit, answers
<1> QED BY <1>1, <1>2 DEF Ledger!Send, Enough

LEMMA ClaimSettles ==
    ASSUME IInv, RoundForm, NEW b \in Tabs, ClaimSubmitted(b)
    PROVE  (\E p \in Txs : Ledger!Settle(p)) \/ UNCHANGED <<StageOf, SignedOf, acked, sent, recorded>>
<1>0. PICK p \in Txs : p = tab[b].tx
  BY TabTyped DEF ClaimSubmitted, Holding, IInv
<1> DEFINE row == [pend[p] EXCEPT !.status = "submitted"]
<1>2. UNCHANGED <<acked, sent, recorded>>
  BY DEF ClaimSubmitted, chain, answers
<1>3. CASE ~Collecting(p)
  BY <1>0, <1>2, <1>3 DEF ClaimSubmitted, Claimable, StageOf, SignedOf
<1>4. CASE Collecting(p)
  <2>1. pend' = [pend EXCEPT ![p] = row]
    BY <1>0, <1>4 DEF ClaimSubmitted, Claimable
  <2>2. row.status = "submitted" /\ row.signed = pend[p].signed
    BY DEF IInv, TypeOK
  <2> HIDE DEF row
  <2>3. StageOf' = [StageOf EXCEPT ![p] = "submitted"]
    BY <2>1, <2>2 DEF StageOf, IInv, TypeOK
  <2>4. SignedOf' = SignedOf
    BY <2>1, <2>2 DEF SignedOf, IInv, TypeOK
  <2>5. Ledger!Settle(p)
    BY <1>2, <1>4, <2>3, <2>4 DEF Ledger!Settle, StageOf, SignedOf, Collecting
  <2> QED BY <2>5
<1> QED BY <1>3, <1>4

LEMMA RecordRecords ==
    ASSUME IInv, NEW b \in Tabs, Record(b)
    PROVE  Ledger!Record(tab[b].tx) /\ tab[b].tx \in Txs
<1>1. tab[b].tx \in Txs /\ pend[tab[b].tx].status = "submitted" /\ recorded[tab[b].tx] = 0
  BY TabTyped DEF Record, Holding, IInv, TabForm
<1>2. recorded' = [recorded EXCEPT ![tab[b].tx] = 1] /\ UNCHANGED <<pend, acked, sent>>
  BY <1>1 DEF Record, chain, answers
<1> QED BY <1>1, <1>2 DEF Ledger!Record

\* The nightly deletion drops rounds that still collect, with all they have.
LEMMA ExpireDrops ==
    ASSUME TypeOK, Expire
    PROVE  \E P \in SUBSET Txs : Ledger!Drop(P)
<1>0. PICK P \in SUBSET Txs : \A p \in Txs : p \in P <=> Expired(p)
  <2>1. {p \in Txs : Expired(p)} \in SUBSET Txs
    OBVIOUS
  <2> QED BY <2>1
<1>1. \A p \in Txs : pend'[p] = IF p \in P THEN [NoPending EXCEPT !.status = "deleted"] ELSE pend[p]
  BY <1>0 DEF Expire
<1>2. [NoPending EXCEPT !.status = "deleted"].status = "deleted" /\ [NoPending EXCEPT !.status = "deleted"].signed = {}
  BY DEF NoPending
<1>3. \A p \in P : StageOf[p] = "collecting"
  BY <1>0 DEF StageOf, Expired, Collecting
<1>4. UNCHANGED <<acked, sent, recorded>>
  BY DEF Expire, chain, answers
<1>5. StageOf' = [p \in Txs |-> IF p \in P THEN "deleted" ELSE StageOf[p]]
  BY <1>1, <1>2 DEF StageOf
<1>6. SignedOf' = [p \in Txs |-> IF p \in P THEN {} ELSE SignedOf[p]]
  BY <1>1, <1>2 DEF SignedOf
<1>7. Ledger!Drop(P)
  BY <1>3, <1>4, <1>5, <1>6 DEF Ledger!Drop, StageOf, SignedOf
<1> QED BY <1>7

\* The signing round implements WitnessLedger: whatever calls, browsers and
\* deletions interleave, signatures enter once and with their acknowledgement, a
\* transaction is sent with enough of them, and its vote is recorded once.
THEOREM RoundImplementsLedger == Spec => Promise
<1>1. Init => RoundForm /\ Ledger!Init
  <2> SUFFICES ASSUME Init PROVE RoundForm /\ Ledger!Init
    OBVIOUS
  <2>1. RoundForm
    BY DEF Init, RoundForm, NoPending, Closed
  <2>2. StageOf = [p \in Txs |-> "none"] /\ SignedOf = [p \in Txs |-> {}]
    BY DEF Init, StageOf, SignedOf, NoPending
  <2> QED BY <2>1, <2>2 DEF Init, Ledger!Init, StageOf, SignedOf
<1>2. IInv /\ RoundForm /\ [Next]_vars => RoundForm'
  BY RoundStep DEF IInv
<1>3. IInv /\ RoundForm /\ [Next]_vars => [Ledger!Next]_Ledger!vars
  <2> SUFFICES ASSUME IInv, RoundForm, [Next]_vars PROVE Ledger!Next \/ UNCHANGED Ledger!vars
    OBVIOUS
  <2>1. ASSUME UNCHANGED <<StageOf, SignedOf, acked, sent, recorded>> PROVE UNCHANGED Ledger!vars
    BY <2>1 DEF Ledger!vars, StageOf, SignedOf
  <2>2. ASSUME UNCHANGED <<pend, acked, sent, recorded>> PROVE UNCHANGED Ledger!vars
    BY <2>1, <2>2 DEF StageOf, SignedOf
  <2>3. ASSUME NEW r \in Requests, RequestStep(r) PROVE Ledger!Next \/ UNCHANGED Ledger!vars
    BY <2>1, <2>3, CallSigns DEF Ledger!Next
  <2>4. ASSUME NEW b \in Tabs, TabStep(b) PROVE Ledger!Next \/ UNCHANGED Ledger!vars
    <3>1. CASE Store(b)
      BY <3>1, StoreStarts DEF Ledger!Next
    <3>2. CASE Submit(b)
      BY <3>2, SubmitSends DEF Ledger!Next
    <3>3. CASE ClaimSubmitted(b)
      BY <2>1, <3>3, ClaimSettles DEF Ledger!Next
    <3>4. CASE Record(b)
      BY <3>4, RecordRecords DEF Ledger!Next
    <3>5. CASE Reject(b) \/ Report(b) \/ \E p \in Txs : Initiate(b, p) \/ Assemble(b, p) \/ ReportToo(b, p)
      BY <2>2, <3>5 DEF Reject, Report, Initiate, Assemble, ReportToo, chain, answers
    <3> QED BY <2>4, <3>1, <3>2, <3>3, <3>4, <3>5 DEF TabStep
  <2>5. CASE Expire
    BY <2>5, ExpireDrops DEF Ledger!Next, IInv
  <2>6. CASE Tick \/ Decide \/ Pull \/ MarkFailed \/ \E p \in Txs : Land(p)
    BY <2>2, <2>6 DEF Tick, Decide, Pull, MarkFailed, Land, chain, answers
  <2>7. CASE UNCHANGED vars
    BY <2>2, <2>7 DEF vars
  <2> QED BY <2>3, <2>4, <2>5, <2>6, <2>7 DEF Next
<1> QED BY <1>1, <1>2, <1>3, Invariance, PTL DEF Spec, Promise, Ledger!Spec
=============================================================================

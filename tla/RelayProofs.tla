---------------------------- MODULE RelayProofs ----------------------------
(***************************************************************************)
(* Proofs about Relay for any rows, workers, children, configuration and   *)
(* bounds.                                                                 *)
(***************************************************************************)
EXTENDS Relay, TLAPS

-----------------------------------------------------------------------------
(***************************************************************************)
(* The inductive invariant.  The checked invariants are not inductive:     *)
(* that a sent row was delivered rests on what the current Publish has     *)
(* done so far, that a dead-lettered row is exhausted rests on the count   *)
(* the worker carries, and that one rests on the row locks of the claim.   *)
(***************************************************************************)

\* A row lock belongs to a claim that has selected the row and has counted it,
\* and the row is still open and without a live lease.
LockInv ==
  /\ \A w \in Workers, r \in Rows : lockedBy[r] = w =>
       /\ pc[w] = "selected" /\ r \in todo[w]
       /\ att[w][r] = attempts[r] + 1
       /\ status[r] \in {"pending", "processing"}
       /\ claimedBy[r] # NoWorker => ttl[r] < 0
  /\ \A w \in Workers : pc[w] = "selected" => \A r \in todo[w] : lockedBy[r] = w

\* What the current Publish has done: the children it has called without an
\* error have the message.
PublishOK(w) ==
  /\ pc[w] = "acking" => pubLeft[w] = {} /\ todo[w] # {}
  /\ pc[w] \notin {"publish", "acking"} \/ todo[w] = {} =>
       pubLeft[w] = Children /\ pubErr[w] = FALSE
  /\ pubErr[w] = FALSE => \A r \in Rows :
       First(todo[w], r) => Children \ pubLeft[w] \subseteq delivered[r]

PublishInv == \A w \in Workers : PublishOK(w)

\* A worker only has rows that exist.
TodoInv == \A w \in Workers : \A r \in todo[w] : status[r] # "absent"

Inv ==
  /\ TypeOK /\ LockInv /\ PublishInv /\ TodoInv /\ LeaseColumns /\ AttemptFresh
  /\ FailedExhausted /\ PublishedIsSent /\ SentDelivered

\* The configured numbers are numbers, and the attempt limit is positive.
LEMMA ConfigType ==
  /\ BatchSize \in Int /\ MaxAttempts \in Nat \ {0} /\ LeaseMillis \in Int
BY RelayAssumption DEF BatchSize, MaxAttempts, LeaseMillis, OrDefault

\* A new row is pending and nobody holds it.
LEMMA EnqueueOutboxInv ==
  ASSUME Inv, NEW r \in Rows, EnqueueOutbox(r)
  PROVE  Inv'
<1>1. TypeOK'
  BY DEF Inv, TypeOK, EnqueueOutbox, run, Statuses, Phases, Results
<1>2. LockInv'
  BY DEF Inv, TypeOK, LockInv, EnqueueOutbox, run
<1>3. PublishInv'
  BY DEF Inv, TypeOK, PublishInv, EnqueueOutbox, run, PublishOK
<1>4. TodoInv'
  BY DEF Inv, TypeOK, TodoInv, EnqueueOutbox, run
<1>5. LeaseColumns'
  BY DEF Inv, TypeOK, LeaseColumns, EnqueueOutbox
<1>6. AttemptFresh'
  BY DEF Inv, TypeOK, AttemptFresh, EnqueueOutbox, run
<1>7. FailedExhausted'
  BY DEF Inv, TypeOK, FailedExhausted, EnqueueOutbox
<1>8. PublishedIsSent'
  BY DEF Inv, TypeOK, PublishedIsSent, EnqueueOutbox, run
<1>9. SentDelivered'
  BY DEF Inv, TypeOK, SentDelivered, EnqueueOutbox
<1> QED
  BY <1>1, <1>2, <1>3, <1>4, <1>5, <1>6, <1>7, <1>8, <1>9 DEF Inv

\* Opening a transaction touches no row.
LEMMA ClaimBeginInv ==
  ASSUME Inv, NEW w \in Workers, ClaimBegin(w)
  PROVE  Inv'
<1>1. TypeOK'
  BY DEF Inv, TypeOK, ClaimBegin, table, run, Statuses, Phases, Results
<1>2. LockInv'
  BY DEF Inv, TypeOK, LockInv, ClaimBegin, table, run
<1>3. PublishInv'
  <2> SUFFICES ASSUME NEW v \in Workers PROVE PublishOK(v)'
    BY DEF PublishInv
  <2> PublishOK(v) /\ PublishOK(w)
    BY DEF Inv, PublishInv
  <2>1. CASE v # w
    <3>1. UNCHANGED <<pc[v], todo[v], pubLeft[v], pubErr[v]>>
      BY <2>1 DEF Inv, TypeOK, ClaimBegin, table, run
    <3>2. \A q \in Rows : delivered[q] \subseteq delivered'[q]
      BY DEF Inv, TypeOK, ClaimBegin, table, run
    <3> QED
      BY <3>1, <3>2 DEF PublishOK
  <2>2. CASE v = w
    BY <2>2 DEF Inv, TypeOK, ClaimBegin, table, run, PublishOK
  <2> QED
    BY <2>1, <2>2
<1>4. TodoInv'
  BY DEF Inv, TypeOK, TodoInv, ClaimBegin, table, run
<1>5. LeaseColumns'
  BY DEF Inv, TypeOK, LeaseColumns, ClaimBegin, table, run
<1>6. AttemptFresh'
  BY DEF Inv, TypeOK, AttemptFresh, ClaimBegin, table, run
<1>7. FailedExhausted'
  BY DEF Inv, TypeOK, FailedExhausted, ClaimBegin, table, run
<1>8. PublishedIsSent'
  BY DEF Inv, TypeOK, PublishedIsSent, ClaimBegin, table, run
<1>9. SentDelivered'
  BY DEF Inv, TypeOK, SentDelivered, ClaimBegin, table, run
<1> QED
  BY <1>1, <1>2, <1>3, <1>4, <1>5, <1>6, <1>7, <1>8, <1>9 DEF Inv

\* Selecting locks rows that are due and records their next attempt.
LEMMA ClaimSelectInv ==
  ASSUME Inv, NEW w \in Workers, NEW B \in SUBSET Rows, ClaimSelect(w, B)
  PROVE  Inv'
<1>1. TypeOK'
  BY DEF Inv, TypeOK, ClaimSelect, table, Statuses, Phases, Results
<1>2. LockInv'
  BY RelayAssumption DEF Inv, TypeOK, LockInv, LeaseColumns, ClaimSelect, IsBatch,
     Claimable, table
<1>3. PublishInv'
  <2> SUFFICES ASSUME NEW v \in Workers PROVE PublishOK(v)'
    BY DEF PublishInv
  <2> PublishOK(v) /\ PublishOK(w)
    BY DEF Inv, PublishInv
  <2>1. CASE v # w
    <3>1. UNCHANGED <<pc[v], todo[v], pubLeft[v], pubErr[v]>>
      BY <2>1 DEF Inv, TypeOK, ClaimSelect, table
    <3>2. \A q \in Rows : delivered[q] \subseteq delivered'[q]
      BY DEF Inv, TypeOK, ClaimSelect, table
    <3> QED
      BY <3>1, <3>2 DEF PublishOK
  <2>2. CASE v = w
    BY <2>2 DEF Inv, TypeOK, ClaimSelect, table, PublishOK
  <2> QED
    BY <2>1, <2>2
<1>4. TodoInv'
  BY DEF Inv, TypeOK, TodoInv, ClaimSelect, IsBatch, Claimable, table
<1>5. LeaseColumns'
  BY DEF Inv, TypeOK, LeaseColumns, ClaimSelect, table
<1>6. AttemptFresh'
  BY DEF Inv, TypeOK, AttemptFresh, ClaimSelect, table
<1>7. FailedExhausted'
  BY DEF Inv, TypeOK, FailedExhausted, ClaimSelect, table
<1>8. PublishedIsSent'
  BY DEF Inv, TypeOK, PublishedIsSent, ClaimSelect, table
<1>9. SentDelivered'
  BY DEF Inv, TypeOK, SentDelivered, ClaimSelect, table
<1> QED
  BY <1>1, <1>2, <1>3, <1>4, <1>5, <1>6, <1>7, <1>8, <1>9 DEF Inv

\* Granting leases turns the locks into ownership with a fresh count.
LEMMA ClaimCommitInv ==
  ASSUME Inv, NEW w \in Workers, ClaimCommit(w)
  PROVE  Inv'
<1>1. TypeOK'
  BY ConfigType DEF Inv, TypeOK, ClaimCommit, GrantLeases, Statuses, Phases, Results
<1>2. LockInv'
  BY RelayAssumption DEF Inv, TypeOK, LockInv, ClaimCommit, GrantLeases
<1>3. PublishInv'
  <2> SUFFICES ASSUME NEW v \in Workers PROVE PublishOK(v)'
    BY DEF PublishInv
  <2> PublishOK(v) /\ PublishOK(w)
    BY DEF Inv, PublishInv
  <2>1. CASE v # w
    <3>1. UNCHANGED <<pc[v], todo[v], pubLeft[v], pubErr[v]>>
      BY <2>1 DEF Inv, TypeOK, ClaimCommit, GrantLeases
    <3>2. \A q \in Rows : delivered[q] \subseteq delivered'[q]
      BY DEF Inv, TypeOK, ClaimCommit, GrantLeases
    <3> QED
      BY <3>1, <3>2 DEF PublishOK
  <2>2. CASE v = w
    BY <2>2 DEF Inv, TypeOK, ClaimCommit, GrantLeases, PublishOK
  <2> QED
    BY <2>1, <2>2
<1>4. TodoInv'
  BY DEF Inv, TypeOK, TodoInv, ClaimCommit, GrantLeases
<1>5. LeaseColumns'
  BY RelayAssumption DEF Inv, TypeOK, LeaseColumns, ClaimCommit, GrantLeases
<1>6. AttemptFresh'
  BY DEF Inv, TypeOK, LockInv, AttemptFresh, ClaimCommit, GrantLeases
<1>7. FailedExhausted'
  BY DEF Inv, TypeOK, FailedExhausted, ClaimCommit, GrantLeases
<1>8. PublishedIsSent'
  BY DEF Inv, TypeOK, LeaseColumns, LockInv, PublishedIsSent, ClaimCommit, GrantLeases
<1>9. SentDelivered'
  BY DEF Inv, TypeOK, SentDelivered, ClaimCommit, GrantLeases
<1> QED
  BY <1>1, <1>2, <1>3, <1>4, <1>5, <1>6, <1>7, <1>8, <1>9 DEF Inv

\* The same when the worker does not learn of its leases.
LEMMA ClaimCommitLostInv ==
  ASSUME Inv, NEW w \in Workers, ClaimCommitLost(w)
  PROVE  Inv'
<1>1. TypeOK'
  BY ConfigType DEF Inv, TypeOK, ClaimCommitLost, GrantLeases, DropRun, Fault,
     NoRows, Statuses, Phases, Results
<1>2. LockInv'
  BY RelayAssumption DEF Inv, TypeOK, LockInv, ClaimCommitLost, GrantLeases, DropRun
<1>3. PublishInv'
  <2> SUFFICES ASSUME NEW v \in Workers PROVE PublishOK(v)'
    BY DEF PublishInv
  <2> PublishOK(v) /\ PublishOK(w)
    BY DEF Inv, PublishInv
  <2>1. CASE v # w
    <3>1. UNCHANGED <<pc[v], todo[v], pubLeft[v], pubErr[v]>>
      BY <2>1 DEF Inv, TypeOK, ClaimCommitLost, GrantLeases, DropRun
    <3>2. \A q \in Rows : delivered[q] \subseteq delivered'[q]
      BY DEF Inv, TypeOK, ClaimCommitLost, GrantLeases
    <3> QED
      BY <3>1, <3>2 DEF PublishOK
  <2>2. CASE v = w
    BY <2>2 DEF Inv, TypeOK, ClaimCommitLost, GrantLeases, PublishOK
  <2> QED
    BY <2>1, <2>2
<1>4. TodoInv'
  BY DEF Inv, TypeOK, TodoInv, ClaimCommitLost, GrantLeases, DropRun
<1>5. LeaseColumns'
  BY RelayAssumption DEF Inv, TypeOK, LeaseColumns, ClaimCommitLost, GrantLeases
<1>6. AttemptFresh'
  BY DEF Inv, TypeOK, AttemptFresh, ClaimCommitLost, GrantLeases, DropRun
<1>7. FailedExhausted'
  BY DEF Inv, TypeOK, FailedExhausted, ClaimCommitLost, GrantLeases
<1>8. PublishedIsSent'
  BY RelayAssumption, ConfigType DEF Inv, TypeOK, LeaseColumns, LockInv,
     PublishedIsSent, ClaimCommitLost, GrantLeases
<1>9. SentDelivered'
  BY DEF Inv, TypeOK, SentDelivered, ClaimCommitLost, GrantLeases
<1> QED
  BY <1>1, <1>2, <1>3, <1>4, <1>5, <1>6, <1>7, <1>8, <1>9 DEF Inv

\* A rolled back claim frees its locks.
LEMMA ClaimAbortInv ==
  ASSUME Inv, NEW w \in Workers, ClaimAbort(w)
  PROVE  Inv'
<1>1. TypeOK'
  BY DEF Inv, TypeOK, ClaimAbort, DropRun, Fault, NoRows, table, Statuses, Phases,
     Results
<1>2. LockInv'
  BY RelayAssumption DEF Inv, TypeOK, LockInv, ClaimAbort, DropRun, table
<1>3. PublishInv'
  <2> SUFFICES ASSUME NEW v \in Workers PROVE PublishOK(v)'
    BY DEF PublishInv
  <2> PublishOK(v) /\ PublishOK(w)
    BY DEF Inv, PublishInv
  <2>1. CASE v # w
    <3>1. UNCHANGED <<pc[v], todo[v], pubLeft[v], pubErr[v]>>
      BY <2>1 DEF Inv, TypeOK, ClaimAbort, DropRun, table
    <3>2. \A q \in Rows : delivered[q] \subseteq delivered'[q]
      BY DEF Inv, TypeOK, ClaimAbort, table
    <3> QED
      BY <3>1, <3>2 DEF PublishOK
  <2>2. CASE v = w
    BY <2>2 DEF Inv, TypeOK, ClaimAbort, table, PublishOK
  <2> QED
    BY <2>1, <2>2
<1>4. TodoInv'
  BY DEF Inv, TypeOK, TodoInv, ClaimAbort, DropRun, table
<1>5. LeaseColumns'
  BY DEF Inv, TypeOK, LeaseColumns, ClaimAbort, table
<1>6. AttemptFresh'
  BY DEF Inv, TypeOK, AttemptFresh, ClaimAbort, DropRun, table
<1>7. FailedExhausted'
  BY DEF Inv, TypeOK, FailedExhausted, ClaimAbort, table
<1>8. PublishedIsSent'
  BY DEF Inv, TypeOK, PublishedIsSent, ClaimAbort, table
<1>9. SentDelivered'
  BY DEF Inv, TypeOK, SentDelivered, ClaimAbort, table
<1> QED
  BY <1>1, <1>2, <1>3, <1>4, <1>5, <1>6, <1>7, <1>8, <1>9 DEF Inv

\* A child's answer extends what the current Publish has done.
LEMMA PublishChildInv ==
  ASSUME Inv, NEW w \in Workers, NEW r \in Rows, NEW c \in Children,
         NEW arrives \in BOOLEAN, NEW ok \in BOOLEAN, PublishChild(w, r, c, arrives, ok)
  PROVE  Inv'
<1>1. TypeOK'
  BY DEF Inv, TypeOK, PublishChild, table, Statuses, Phases, Results
<1>2. LockInv'
  BY DEF Inv, TypeOK, LockInv, PublishChild, table
<1>3. PublishInv'
  <2> SUFFICES ASSUME NEW v \in Workers PROVE PublishOK(v)'
    BY DEF PublishInv
  <2> PublishOK(v) /\ PublishOK(w)
    BY DEF Inv, PublishInv
  <2>1. CASE v # w
    <3>1. UNCHANGED <<pc[v], todo[v], pubLeft[v], pubErr[v]>>
      BY <2>1 DEF Inv, TypeOK, PublishChild, table
    <3>2. \A q \in Rows : delivered[q] \subseteq delivered'[q]
      BY DEF Inv, TypeOK, PublishChild, table
    <3> QED
      BY <3>1, <3>2 DEF PublishOK
  <2>2. CASE v = w
    <3>1. /\ pc'[w] = "publish" /\ r \in todo'[w] /\ todo'[w] = todo[w]
          /\ pubLeft'[w] = pubLeft[w] \ {c} /\ pubErr'[w] = (pubErr[w] \/ ~ok)
      BY DEF Inv, TypeOK, PublishChild, First
    <3>2. ASSUME pubErr'[w] = FALSE, NEW q \in Rows, First(todo'[w], q)
          PROVE  Children \ pubLeft'[w] \subseteq delivered'[q]
      <4>1. q = r
        BY <3>1, <3>2, RelayAssumption DEF PublishChild, First
      <4>2. pubErr[w] = FALSE /\ ok = TRUE
        BY <3>1, <3>2 DEF Inv, TypeOK
      <4>3. delivered'[r] = delivered[r] \cup {c}
        BY <4>2 DEF Inv, TypeOK, PublishChild
      <4>4. Children \ pubLeft[w] \subseteq delivered[r]
        BY <4>2 DEF PublishOK, PublishChild
      <4> QED
        BY <3>1, <4>1, <4>3, <4>4
    <3> QED
      BY <2>2, <3>1, <3>2 DEF PublishOK
  <2> QED
    BY <2>1, <2>2
<1>4. TodoInv'
  BY DEF Inv, TypeOK, TodoInv, PublishChild, table
<1>5. LeaseColumns'
  BY DEF Inv, TypeOK, LeaseColumns, PublishChild, table
<1>6. AttemptFresh'
  BY DEF Inv, TypeOK, AttemptFresh, PublishChild, table
<1>7. FailedExhausted'
  BY DEF Inv, TypeOK, FailedExhausted, PublishChild, table
<1>8. PublishedIsSent'
  BY DEF Inv, TypeOK, PublishedIsSent, PublishChild, table
<1>9. SentDelivered'
  BY DEF Inv, TypeOK, SentDelivered, PublishChild, table
<1> QED
  BY <1>1, <1>2, <1>3, <1>4, <1>5, <1>6, <1>7, <1>8, <1>9 DEF Inv

\* The ack starts when every child was called.
LEMMA AckBeginInv ==
  ASSUME Inv, NEW w \in Workers, AckBegin(w)
  PROVE  Inv'
<1>1. TypeOK'
  BY DEF Inv, TypeOK, AckBegin, table, run, Statuses, Phases, Results
<1>2. LockInv'
  BY DEF Inv, TypeOK, LockInv, AckBegin, table, run
<1>3. PublishInv'
  <2> SUFFICES ASSUME NEW v \in Workers PROVE PublishOK(v)'
    BY DEF PublishInv
  <2> PublishOK(v) /\ PublishOK(w)
    BY DEF Inv, PublishInv
  <2>1. CASE v # w
    <3>1. UNCHANGED <<pc[v], todo[v], pubLeft[v], pubErr[v]>>
      BY <2>1 DEF Inv, TypeOK, AckBegin, table, run
    <3>2. \A q \in Rows : delivered[q] \subseteq delivered'[q]
      BY DEF Inv, TypeOK, AckBegin, table, run
    <3> QED
      BY <3>1, <3>2 DEF PublishOK
  <2>2. CASE v = w
    BY <2>2 DEF Inv, TypeOK, AckBegin, table, run, PublishOK
  <2> QED
    BY <2>1, <2>2
<1>4. TodoInv'
  BY DEF Inv, TypeOK, TodoInv, AckBegin, table, run
<1>5. LeaseColumns'
  BY DEF Inv, TypeOK, LeaseColumns, AckBegin, table, run
<1>6. AttemptFresh'
  BY DEF Inv, TypeOK, AttemptFresh, AckBegin, table, run
<1>7. FailedExhausted'
  BY DEF Inv, TypeOK, FailedExhausted, AckBegin, table, run
<1>8. PublishedIsSent'
  BY DEF Inv, TypeOK, PublishedIsSent, AckBegin, table, run
<1>9. SentDelivered'
  BY DEF Inv, TypeOK, SentDelivered, AckBegin, table, run
<1> QED
  BY <1>1, <1>2, <1>3, <1>4, <1>5, <1>6, <1>7, <1>8, <1>9 DEF Inv

\* An ack by the owner decides the row from what its Publish did.
LEMMA AckUpdateInv ==
  ASSUME Inv, NEW w \in Workers, NEW r \in Rows, NEW outcome \in Results, faults' \in Nat,
         AckReady(w, r), AckUpdate(w, r), NextMessage(w, r, outcome),
         outcome = "published" => pubErr[w] = FALSE
  PROVE  Inv'
<1>1. TypeOK'
  BY DEF Inv, TypeOK, AckReady, AckUpdate, AckStatus, Owns, NextMessage, First,
     Statuses, Phases, Results
<1>2. LockInv'
  BY RelayAssumption DEF Inv, TypeOK, LockInv, AckReady, AckUpdate, AckStatus, Owns,
     NextMessage, First
<1>3. PublishInv'
  <2> SUFFICES ASSUME NEW v \in Workers PROVE PublishOK(v)'
    BY DEF PublishInv
  <2> PublishOK(v) /\ PublishOK(w)
    BY DEF Inv, PublishInv
  <2>1. CASE v # w
    <3>1. UNCHANGED <<pc[v], todo[v], pubLeft[v], pubErr[v]>>
      BY <2>1 DEF Inv, TypeOK, AckUpdate, NextMessage
    <3>2. \A q \in Rows : delivered[q] \subseteq delivered'[q]
      BY DEF Inv, TypeOK, AckUpdate, NextMessage
    <3> QED
      BY <3>1, <3>2 DEF PublishOK
  <2>2. CASE v = w
    BY <2>2 DEF Inv, TypeOK, AckUpdate, NextMessage, PublishOK
  <2> QED
    BY <2>1, <2>2
<1>4. TodoInv'
  BY DEF Inv, TypeOK, TodoInv, AckReady, AckUpdate, AckStatus, Owns, NextMessage, First
<1>5. LeaseColumns'
  BY DEF Inv, TypeOK, LeaseColumns, AckReady, AckUpdate, AckStatus, Owns,
     NextMessage, First
<1>6. AttemptFresh'
  BY DEF Inv, TypeOK, LockInv, AttemptFresh, AckReady, AckUpdate, AckStatus, Owns,
     NextMessage, First
<1>7. FailedExhausted'
  BY DEF Inv, TypeOK, FailedExhausted, AttemptFresh, LockInv, AckReady, AckUpdate,
     AckStatus, Owns, NextMessage, First
<1>8. PublishedIsSent'
  <2>1. claimedBy[r] = w /\ status[r] = "processing"
    BY RelayAssumption DEF Inv, AckUpdate, Owns, LeaseColumns
  <2>2. \A v \in Workers : result[v][r] # "published"
    BY <2>1 DEF Inv, PublishedIsSent
  <2>3. outcome = "published" => status'[r] = "sent"
    BY DEF Inv, TypeOK, AckUpdate, AckStatus
  <2>4. /\ \A q \in Rows : q # r => status'[q] = status[q]
        /\ \A v \in Workers, q \in Rows :
             result'[v][q] = IF v = w /\ q = r THEN outcome ELSE result[v][q]
    BY DEF Inv, TypeOK, AckUpdate, NextMessage
  <2> QED
    BY <2>2, <2>3, <2>4 DEF Inv, PublishedIsSent
<1>9. SentDelivered'
  <2>1. \A q \in Rows : q # r => status'[q] = status[q]
    BY DEF Inv, TypeOK, AckUpdate
  <2>2. delivered' = delivered
    BY DEF NextMessage
  <2>3. ASSUME status'[r] = "sent" PROVE delivered[r] = Children
    <3>1. pubErr[w] = FALSE
      BY <2>3 DEF Inv, TypeOK, AckUpdate, AckStatus
    <3>2. pubLeft[w] = {} /\ Children \ pubLeft[w] \subseteq delivered[r]
      BY <3>1 DEF Inv, PublishInv, PublishOK, AckReady
    <3>3. delivered[r] \subseteq Children
      BY DEF Inv, TypeOK
    <3> QED
      BY <3>2, <3>3
  <2> QED
    BY <2>1, <2>2, <2>3 DEF Inv, SentDelivered
<1> QED
  BY <1>1, <1>2, <1>3, <1>4, <1>5, <1>6, <1>7, <1>8, <1>9 DEF Inv

\* An ack that changes no row only moves the worker on.
LEMMA AckSkipInv ==
  ASSUME Inv, NEW w \in Workers, NEW r \in Rows, NEW outcome \in {"leaselost", "error"},
         faults' \in Nat, pc[w] = "acking", First(todo[w], r), UNCHANGED table,
         NextMessage(w, r, outcome)
  PROVE  Inv'
<1>1. TypeOK'
  BY DEF Inv, TypeOK, NextMessage, table, Statuses, Phases, Results
<1>2. LockInv'
  BY DEF Inv, TypeOK, LockInv, NextMessage, table
<1>3. PublishInv'
  <2> SUFFICES ASSUME NEW v \in Workers PROVE PublishOK(v)'
    BY DEF PublishInv
  <2> PublishOK(v) /\ PublishOK(w)
    BY DEF Inv, PublishInv
  <2>1. CASE v # w
    <3>1. UNCHANGED <<pc[v], todo[v], pubLeft[v], pubErr[v]>>
      BY <2>1 DEF Inv, TypeOK, NextMessage, table
    <3>2. \A q \in Rows : delivered[q] \subseteq delivered'[q]
      BY DEF Inv, TypeOK, NextMessage, table
    <3> QED
      BY <3>1, <3>2 DEF PublishOK
  <2>2. CASE v = w
    BY <2>2 DEF Inv, TypeOK, NextMessage, table, PublishOK
  <2> QED
    BY <2>1, <2>2
<1>4. TodoInv'
  BY DEF Inv, TypeOK, TodoInv, NextMessage, table
<1>5. LeaseColumns'
  BY DEF Inv, TypeOK, LeaseColumns, NextMessage, table
<1>6. AttemptFresh'
  BY DEF Inv, TypeOK, AttemptFresh, NextMessage, table
<1>7. FailedExhausted'
  BY DEF Inv, TypeOK, FailedExhausted, NextMessage, table
<1>8. PublishedIsSent'
  BY DEF Inv, TypeOK, PublishedIsSent, NextMessage, table
<1>9. SentDelivered'
  BY DEF Inv, TypeOK, SentDelivered, NextMessage, table
<1> QED
  BY <1>1, <1>2, <1>3, <1>4, <1>5, <1>6, <1>7, <1>8, <1>9 DEF Inv

\* Returning clears the statistics.
LEMMA RunOnceReturnInv ==
  ASSUME Inv, NEW w \in Workers, RunOnceReturn(w)
  PROVE  Inv'
<1>1. TypeOK'
  BY DEF Inv, TypeOK, RunOnceReturn, NoResult, table, Statuses, Phases, Results
<1>2. LockInv'
  BY DEF Inv, TypeOK, LockInv, RunOnceReturn, table
<1>3. PublishInv'
  <2> SUFFICES ASSUME NEW v \in Workers PROVE PublishOK(v)'
    BY DEF PublishInv
  <2> PublishOK(v) /\ PublishOK(w)
    BY DEF Inv, PublishInv
  <2>1. CASE v # w
    <3>1. UNCHANGED <<pc[v], todo[v], pubLeft[v], pubErr[v]>>
      BY <2>1 DEF Inv, TypeOK, RunOnceReturn, table
    <3>2. \A q \in Rows : delivered[q] \subseteq delivered'[q]
      BY DEF Inv, TypeOK, RunOnceReturn, table
    <3> QED
      BY <3>1, <3>2 DEF PublishOK
  <2>2. CASE v = w
    BY <2>2 DEF Inv, TypeOK, RunOnceReturn, table, PublishOK
  <2> QED
    BY <2>1, <2>2
<1>4. TodoInv'
  BY DEF Inv, TypeOK, TodoInv, RunOnceReturn, table
<1>5. LeaseColumns'
  BY DEF Inv, TypeOK, LeaseColumns, RunOnceReturn, table
<1>6. AttemptFresh'
  BY DEF Inv, TypeOK, AttemptFresh, RunOnceReturn, table
<1>7. FailedExhausted'
  BY DEF Inv, TypeOK, FailedExhausted, RunOnceReturn, table
<1>8. PublishedIsSent'
  BY DEF Inv, TypeOK, PublishedIsSent, RunOnceReturn, NoResult, table
<1>9. SentDelivered'
  BY DEF Inv, TypeOK, SentDelivered, RunOnceReturn, table
<1> QED
  BY <1>1, <1>2, <1>3, <1>4, <1>5, <1>6, <1>7, <1>8, <1>9 DEF Inv

\* Release reopens the rows the worker owns.
LEMMA ReleaseInv ==
  ASSUME Inv, NEW w \in Workers, Release(w)
  PROVE  Inv'
<1>1. TypeOK'
  BY DEF Inv, TypeOK, Release, Fault, run, Statuses, Phases, Results
<1>2. LockInv'
  BY DEF Inv, TypeOK, LockInv, Release, run
<1>3. PublishInv'
  <2> SUFFICES ASSUME NEW v \in Workers PROVE PublishOK(v)'
    BY DEF PublishInv
  <2> PublishOK(v) /\ PublishOK(w)
    BY DEF Inv, PublishInv
  <2>1. CASE v # w
    <3>1. UNCHANGED <<pc[v], todo[v], pubLeft[v], pubErr[v]>>
      BY <2>1 DEF Inv, TypeOK, Release, run
    <3>2. \A q \in Rows : delivered[q] \subseteq delivered'[q]
      BY DEF Inv, TypeOK, Release, run
    <3> QED
      BY <3>1, <3>2 DEF PublishOK
  <2>2. CASE v = w
    BY <2>2 DEF Inv, TypeOK, Release, run, PublishOK
  <2> QED
    BY <2>1, <2>2
<1>4. TodoInv'
  BY DEF Inv, TypeOK, TodoInv, Release, run
<1>5. LeaseColumns'
  BY DEF Inv, TypeOK, LeaseColumns, Release
<1>6. AttemptFresh'
  BY DEF Inv, TypeOK, LockInv, AttemptFresh, Release, run
<1>7. FailedExhausted'
  BY DEF Inv, TypeOK, FailedExhausted, Release
<1>8. PublishedIsSent'
  BY DEF Inv, TypeOK, PublishedIsSent, Release, run
<1>9. SentDelivered'
  BY DEF Inv, TypeOK, SentDelivered, Release
<1> QED
  BY <1>1, <1>2, <1>3, <1>4, <1>5, <1>6, <1>7, <1>8, <1>9 DEF Inv

\* A crash frees locks and forgets the batch; the leases stay.
LEMMA CrashInv ==
  ASSUME Inv, NEW w \in Workers, Crash(w)
  PROVE  Inv'
<1>1. TypeOK'
  BY DEF Inv, TypeOK, Crash, DropRun, Fault, NoRows, NoResult, table, Statuses,
     Phases, Results
<1>2. LockInv'
  BY RelayAssumption DEF Inv, TypeOK, LockInv, Crash, DropRun, table
<1>3. PublishInv'
  <2> SUFFICES ASSUME NEW v \in Workers PROVE PublishOK(v)'
    BY DEF PublishInv
  <2> PublishOK(v) /\ PublishOK(w)
    BY DEF Inv, PublishInv
  <2>1. CASE v # w
    <3>1. UNCHANGED <<pc[v], todo[v], pubLeft[v], pubErr[v]>>
      BY <2>1 DEF Inv, TypeOK, Crash, DropRun, table
    <3>2. \A q \in Rows : delivered[q] \subseteq delivered'[q]
      BY DEF Inv, TypeOK, Crash, table
    <3> QED
      BY <3>1, <3>2 DEF PublishOK
  <2>2. CASE v = w
    BY <2>2 DEF Inv, TypeOK, Crash, table, PublishOK
  <2> QED
    BY <2>1, <2>2
<1>4. TodoInv'
  BY DEF Inv, TypeOK, TodoInv, Crash, DropRun, table
<1>5. LeaseColumns'
  BY DEF Inv, TypeOK, LeaseColumns, Crash, table
<1>6. AttemptFresh'
  BY DEF Inv, TypeOK, AttemptFresh, Crash, DropRun, table
<1>7. FailedExhausted'
  BY DEF Inv, TypeOK, FailedExhausted, Crash, table
<1>8. PublishedIsSent'
  BY DEF Inv, TypeOK, PublishedIsSent, Crash, Fault, NoRows, NoResult, table
<1>9. SentDelivered'
  BY DEF Inv, TypeOK, SentDelivered, Crash, table
<1> QED
  BY <1>1, <1>2, <1>3, <1>4, <1>5, <1>6, <1>7, <1>8, <1>9 DEF Inv

\* Only a failed row, which nobody owns or locks, is requeued.
LEMMA RequeueFailedInv ==
  ASSUME Inv, NEW r \in Rows, RequeueFailed(r)
  PROVE  Inv'
<1>1. TypeOK'
  BY DEF Inv, TypeOK, RequeueFailed, Fault, run, Statuses, Phases, Results
<1>2. LockInv'
  BY DEF Inv, TypeOK, LockInv, RequeueFailed, run
<1>3. PublishInv'
  BY DEF Inv, TypeOK, PublishInv, RequeueFailed, run, PublishOK
<1>4. TodoInv'
  BY DEF Inv, TypeOK, TodoInv, RequeueFailed, run
<1>5. LeaseColumns'
  BY DEF Inv, TypeOK, LeaseColumns, RequeueFailed
<1>6. AttemptFresh'
  BY RelayAssumption DEF Inv, TypeOK, AttemptFresh, RequeueFailed, run
<1>7. FailedExhausted'
  BY DEF Inv, TypeOK, FailedExhausted, RequeueFailed
<1>8. PublishedIsSent'
  BY DEF Inv, TypeOK, PublishedIsSent, RequeueFailed, run
<1>9. SentDelivered'
  BY DEF Inv, TypeOK, SentDelivered, RequeueFailed
<1> QED
  BY <1>1, <1>2, <1>3, <1>4, <1>5, <1>6, <1>7, <1>8, <1>9 DEF Inv

\* The clock only shortens leases.
LEMMA TickInv ==
  ASSUME Inv, Tick
  PROVE  Inv'
<1>1. TypeOK'
  BY DEF Inv, TypeOK, Tick, Fault, run, Statuses, Phases, Results
<1>2. LockInv'
  BY DEF Inv, TypeOK, LockInv, Tick, run
<1>3. PublishInv'
  BY DEF Inv, TypeOK, PublishInv, Tick, run, PublishOK
<1>4. TodoInv'
  BY DEF Inv, TypeOK, TodoInv, Tick, run
<1>5. LeaseColumns'
  BY DEF Inv, TypeOK, LeaseColumns, Tick
<1>6. AttemptFresh'
  BY DEF Inv, TypeOK, AttemptFresh, Tick, run
<1>7. FailedExhausted'
  BY DEF Inv, TypeOK, FailedExhausted, Tick
<1>8. PublishedIsSent'
  BY DEF Inv, TypeOK, PublishedIsSent, Tick, run
<1>9. SentDelivered'
  BY DEF Inv, TypeOK, SentDelivered, Tick
<1> QED
  BY <1>1, <1>2, <1>3, <1>4, <1>5, <1>6, <1>7, <1>8, <1>9 DEF Inv

-----------------------------------------------------------------------------
\* The empty outbox and idle workers satisfy the invariant.
LEMMA InitInv == Init => Inv
<1> SUFFICES ASSUME Init PROVE Inv
  OBVIOUS
<1> USE DEF Init, NoRows, NoResult
<1>1. TypeOK
  BY DEF TypeOK, Statuses, Phases, Results
<1>2. LockInv
  BY RelayAssumption DEF LockInv
<1>3. PublishInv
  BY DEF PublishInv, PublishOK
<1>4. TodoInv
  BY DEF TodoInv
<1>5. LeaseColumns
  BY DEF LeaseColumns
<1>6. AttemptFresh /\ FailedExhausted /\ PublishedIsSent /\ SentDelivered
  BY DEF AttemptFresh, FailedExhausted, PublishedIsSent, SentDelivered
<1> QED
  BY <1>1, <1>2, <1>3, <1>4, <1>5, <1>6 DEF Inv

\* Every step of the relay, of its environment and of the clock preserves it.
LEMMA NextInv == Inv /\ [Next]_vars => Inv'
<1> SUFFICES ASSUME Inv, [Next]_vars PROVE Inv'
  OBVIOUS
<1>0. faults \in Nat
  BY DEF Inv, TypeOK
<1>1. ASSUME NEW w \in Workers, Step(w) PROVE Inv'
  <2>1. CASE ClaimBegin(w)
    BY <2>1, ClaimBeginInv
  <2>2. CASE \E B \in SUBSET Rows : ClaimSelect(w, B)
    BY <2>2, ClaimSelectInv
  <2>3. CASE ClaimCommit(w)
    BY <2>3, ClaimCommitInv
  <2>4. CASE \E r \in Rows, c \in Children, arrives, ok \in BOOLEAN :
               PublishChild(w, r, c, arrives, ok)
    BY <2>4, PublishChildInv
  <2>5. CASE AckBegin(w)
    BY <2>5, AckBeginInv
  <2>6. ASSUME NEW r \in Rows, AckOwned(w, r) PROVE Inv'
    <3>1. PICK outcome \in Results :
            /\ NextMessage(w, r, outcome)
            /\ outcome = "published" => pubErr[w] = FALSE
      BY <2>6 DEF AckOwned, Results, Inv, TypeOK
    <3>2. AckReady(w, r) /\ AckUpdate(w, r) /\ faults' \in Nat
      BY <1>0, <2>6 DEF AckOwned
    <3> QED
      BY <3>1, <3>2, AckUpdateInv
  <2>7. ASSUME NEW r \in Rows, AckLeaseLost(w, r) PROVE Inv'
    <3>1. /\ pc[w] = "acking" /\ First(todo[w], r) /\ UNCHANGED table
          /\ NextMessage(w, r, "leaselost") /\ faults' \in Nat
      BY <1>0, <2>7 DEF AckLeaseLost, AckReady, table
    <3> QED
      BY <3>1, AckSkipInv
  <2>8. CASE RunOnceReturn(w)
    BY <2>8, RunOnceReturnInv
  <2> QED
    BY <1>1, <2>1, <2>2, <2>3, <2>4, <2>5, <2>6, <2>7, <2>8 DEF Step
<1>2. ASSUME NEW w \in Workers, Disturb(w) PROVE Inv'
  <2>1. CASE ClaimCommitLost(w)
    BY <2>1, ClaimCommitLostInv
  <2>2. CASE ClaimAbort(w)
    BY <2>2, ClaimAbortInv
  <2>3. CASE Release(w)
    BY <2>3, ReleaseInv
  <2>4. CASE Crash(w)
    BY <2>4, CrashInv
  <2>5. ASSUME NEW r \in Rows, AckError(w, r) PROVE Inv'
    <3>1. /\ pc[w] = "acking" /\ First(todo[w], r) /\ UNCHANGED table
          /\ NextMessage(w, r, "error") /\ faults' \in Nat
      BY <1>0, <2>5 DEF AckError, Fault, table
    <3> QED
      BY <3>1, AckSkipInv
  <2>6. ASSUME NEW r \in Rows, AckReplyLost(w, r) PROVE Inv'
    <3>1. /\ AckReady(w, r) /\ AckUpdate(w, r) /\ NextMessage(w, r, "error")
          /\ faults' \in Nat
      BY <1>0, <2>6 DEF AckReplyLost, Fault
    <3>2. "error" \in Results /\ "error" # "published"
      BY DEF Results
    <3> QED
      BY <3>1, <3>2, AckUpdateInv
  <2> QED
    BY <1>2, <2>1, <2>2, <2>3, <2>4, <2>5, <2>6 DEF Disturb
<1>3. ASSUME NEW r \in Rows, EnqueueOutbox(r) \/ RequeueFailed(r) PROVE Inv'
  BY <1>3, EnqueueOutboxInv, RequeueFailedInv
<1>4. CASE Tick
  BY <1>4, TickInv
<1>5. CASE UNCHANGED vars
  BY <1>5 DEF vars, Inv, TypeOK, LockInv, PublishInv, PublishOK, TodoInv, LeaseColumns,
     AttemptFresh, FailedExhausted, PublishedIsSent, SentDelivered
<1> QED
  BY <1>1, <1>2, <1>3, <1>4, <1>5 DEF Next

\* The inductive invariant holds in every reachable state.
THEOREM RelayInvariant == Spec => []Inv
<1>1. Init => Inv
  BY InitInv
<1>2. Inv /\ [Next]_vars => Inv'
  BY NextInv
<1> QED
  BY <1>1, <1>2, PTL DEF Spec

\* Type correctness of the relay and of the outbox columns it writes.
THEOREM TypeCorrect == Spec => []TypeOK
BY RelayInvariant, PTL DEF Inv

\* At-least-once: a row that reads 'sent' was delivered to every child of the
\* fan-out, for any number of workers, crashes, lost replies and lost leases.
THEOREM AtLeastOnceDelivery == Spec => []SentDelivered
BY RelayInvariant, PTL DEF Inv

\* The lease columns and the status agree: no row is unreachable for a claim.
THEOREM LeasesConsistent == Spec => []LeaseColumns
BY RelayInvariant, PTL DEF Inv

\* Ack never decides on a row with a stale attempt count.
THEOREM CountsFresh == Spec => []AttemptFresh
BY RelayInvariant, PTL DEF Inv

\* Only rows that were claimed MaxAttempts times are dead-lettered (Ack).
THEOREM BudgetSpent == Spec => []FailedExhausted
BY RelayInvariant, PTL DEF Inv

\* RunStats.Published counts only rows that are durably 'sent'.
THEOREM StatsTruthful == Spec => []PublishedIsSent
BY RelayInvariant, PTL DEF Inv

-----------------------------------------------------------------------------
\* Which steps write the status of a row to 'sent' or 'failed', and how.
LEMMA Decisions ==
  ASSUME Inv, Next, NEW r \in Rows, status'[r] # status[r], status'[r] \in {"sent", "failed"}
  PROVE  \E w \in Workers : AckReady(w, r) /\ AckUpdate(w, r) /\ todo'[w] = todo[w] \ {r}
<1> USE DEF Inv, TypeOK
<1>1. ASSUME NEW w \in Workers, Step(w) PROVE \E q \in Rows : AckOwned(w, q)
  BY <1>1 DEF Step, ClaimBegin, ClaimSelect, ClaimCommit, GrantLeases, PublishChild,
     AckBegin, AckLeaseLost, RunOnceReturn, table
<1>2. ASSUME NEW w \in Workers, Disturb(w) PROVE \E q \in Rows : AckReplyLost(w, q)
  BY <1>2 DEF Disturb, ClaimCommitLost, GrantLeases, ClaimAbort, Release, Crash,
     AckError,
     table
<1>3. ~(EnqueueOutbox(r) \/ RequeueFailed(r)) /\ ~Tick
  BY DEF EnqueueOutbox, RequeueFailed, Tick
<1>4. ~\E q \in Rows : EnqueueOutbox(q) \/ RequeueFailed(q)
  BY DEF EnqueueOutbox, RequeueFailed
<1>5. \E w \in Workers, q \in Rows : AckOwned(w, q) \/ AckReplyLost(w, q)
  BY <1>1, <1>2, <1>3, <1>4 DEF Next
<1>6. PICK w \in Workers, q \in Rows : AckOwned(w, q) \/ AckReplyLost(w, q)
  BY <1>5
<1>7. q = r
  BY <1>6 DEF AckOwned, AckReplyLost, AckUpdate
<1>8. AckReady(w, r) /\ AckUpdate(w, r) /\ todo'[w] = todo[w] \ {r}
  BY <1>6, <1>7 DEF AckOwned, AckReplyLost, NextMessage
<1> QED
  BY <1>8

\* Only the worker that holds a row's lease completes it or gives it up.
THEOREM OwnerDecidesAlways == Spec => OwnerDecides
<1>1. ASSUME Inv, Next, NEW r \in Rows, status'[r] # status[r], status'[r] \in {"sent", "failed"}
      PROVE  \E w \in Workers : claimedBy[r] = w /\ r \in todo[w] \ todo'[w]
  BY <1>1, Decisions DEF AckReady, AckUpdate, Owns, First
<1>2. Inv /\ [Next]_vars =>
        [\A r \in Rows : status'[r] # status[r] /\ status'[r] \in {"sent", "failed"} =>
           \E w \in Workers : claimedBy[r] = w /\ r \in todo[w] \ todo'[w]]_vars
  BY <1>1
<1> QED
  BY <1>2, RelayInvariant, PTL DEF Spec, OwnerDecides

\* A lease that has not run out is never taken over, whatever NOW() the claimant's
\* transaction uses.
THEOREM LeaseNotStolenAlways == Spec => LeaseNotStolen
<1>1. ASSUME Inv, Next, NEW r \in Rows, claimedBy[r] # NoWorker, ttl[r] >= 0
      PROVE  claimedBy'[r] \in {claimedBy[r], NoWorker}
  <2>1. ASSUME NEW w \in Workers, GrantLeases(w) PROVE claimedBy'[r] = claimedBy[r]
    <3>1. r \notin todo[w]
      BY <1>1, <2>1 DEF Inv, TypeOK, LockInv, GrantLeases
    <3> QED
      BY <2>1, <3>1 DEF GrantLeases
  <2>2. ASSUME NEW w \in Workers, Step(w) PROVE claimedBy'[r] \in {claimedBy[r], NoWorker}
    BY <1>1, <2>1, <2>2 DEF Inv, TypeOK, Step, ClaimBegin, ClaimSelect,
       ClaimCommit, PublishChild,
       AckBegin, AckOwned, AckUpdate, AckLeaseLost, RunOnceReturn, table
  <2>3. ASSUME NEW w \in Workers, Disturb(w) PROVE claimedBy'[r] \in {claimedBy[r], NoWorker}
    BY <1>1, <2>1, <2>3 DEF Inv, TypeOK, Disturb, ClaimCommitLost, ClaimAbort,
       Release, Crash,
       AckError, AckReplyLost, AckUpdate, table
  <2>4. CASE Tick
    BY <2>4 DEF Tick
  <2>5. ASSUME NEW q \in Rows, EnqueueOutbox(q) \/ RequeueFailed(q)
        PROVE  claimedBy'[r] \in {claimedBy[r], NoWorker}
    BY <1>1, <2>5 DEF Inv, TypeOK, EnqueueOutbox, RequeueFailed
  <2> QED
    BY <1>1, <2>2, <2>3, <2>4, <2>5 DEF Next
<1>2. Inv /\ [Next]_vars =>
        [\A r \in Rows : claimedBy[r] # NoWorker /\ ttl[r] >= 0 =>
           claimedBy'[r] \in {claimedBy[r], NoWorker}]_vars
  BY <1>1
<1> QED
  BY <1>2, RelayInvariant, PTL DEF Spec, LeaseNotStolen

-----------------------------------------------------------------------------
(* The relay implements AtLeastOnce. *)

\* A step that keeps every row's phase and every delivery is invisible.
LEMMA Invisible ==
  ASSUME \A r \in Rows : phase'[r] = phase[r], delivered' = delivered
  PROVE  UNCHANGED <<phase, delivered>>
BY DEF phase

\* A step that moves one row to a new phase is that row's EXCEPT.
LEMMA OneRowMoves ==
  ASSUME NEW r \in Rows, NEW p, status \in [Rows -> Statuses],
         status' = [status EXCEPT ![r] = p]
  PROVE  phase' = [phase EXCEPT ![r] = IF p \in {"pending", "processing"} THEN "open" ELSE p]
BY DEF phase

\* Granting leases keeps the phases: the locked rows are open and stay open.
LEMMA GrantInvisible ==
  ASSUME Inv, NEW w \in Workers, GrantLeases(w)
  PROVE  UNCHANGED <<phase, delivered>>
<1>1. \A r \in todo[w] : status[r] \in {"pending", "processing"}
  BY DEF Inv, TypeOK, LockInv, GrantLeases
<1>2. \A r \in Rows : phase'[r] = phase[r]
  BY <1>1 DEF GrantLeases, phase
<1> QED
  BY <1>2, Invisible DEF GrantLeases

\* An acknowledgement completes the row, gives it up or leaves it open.
LEMMA AckImplements ==
  ASSUME Inv, NEW w \in Workers, NEW r \in Rows, AckReady(w, r), AckUpdate(w, r),
         delivered' = delivered, SentDelivered'
  PROVE  [Promise!Next]_<<phase, delivered>>
<1>1. claimedBy[r] = w /\ status[r] = "processing" /\ phase[r] = "open"
  BY RelayAssumption DEF Inv, AckUpdate, Owns, LeaseColumns, phase
<1>2. PICK p \in {"sent", "failed", "pending"} : status' = [status EXCEPT ![r] = p]
  BY DEF AckUpdate, AckStatus
<1>3. phase' = [phase EXCEPT ![r] = IF p \in {"pending", "processing"} THEN "open" ELSE p]
  BY <1>2, OneRowMoves DEF Inv, TypeOK
<1>4. CASE p = "sent"
  <2>1. delivered[r] = Children
    BY <1>2, <1>4 DEF SentDelivered, Inv, TypeOK
  <2> QED
    BY <1>1, <1>3, <1>4, <2>1 DEF Promise!Next, Promise!Complete
<1>5. CASE p = "failed"
  BY <1>1, <1>3, <1>5 DEF Promise!Next, Promise!GiveUp
<1>6. CASE p = "pending"
  <2>1. phase' = phase
    BY <1>1, <1>3, <1>6 DEF phase
  <2> QED
    BY <2>1
<1> QED
  BY <1>4, <1>5, <1>6

\* Every step of the relay is a step of AtLeastOnce or invisible to it.
LEMMA StepImplements ==
  ASSUME Inv, Inv', Next
  PROVE  [Promise!Next]_<<phase, delivered>>
<1>0. SentDelivered' /\ TypeOK
  BY DEF Inv
<1>1. ASSUME NEW w \in Workers, Step(w) PROVE [Promise!Next]_<<phase, delivered>>
  <2>1. CASE ClaimBegin(w) \/ AckBegin(w) \/ RunOnceReturn(w)
             \/ \E B \in SUBSET Rows : ClaimSelect(w, B)
    BY <2>1 DEF ClaimBegin, AckBegin, RunOnceReturn, ClaimSelect, table, phase
  <2>2. CASE ClaimCommit(w)
    BY <2>2, GrantInvisible DEF ClaimCommit
  <2>3. ASSUME NEW r \in Rows, NEW c \in Children, NEW arrives \in BOOLEAN,
               NEW ok \in BOOLEAN, PublishChild(w, r, c, arrives, ok)
        PROVE  [Promise!Next]_<<phase, delivered>>
    <3>1. phase' = phase
      BY <2>3 DEF PublishChild, table, phase
    <3>2. phase[r] # "absent"
      BY <2>3 DEF Inv, TodoInv, PublishChild, First, phase
    <3>3. CASE arrives
      BY <2>3, <3>1, <3>2, <3>3 DEF PublishChild, Promise!Next, Promise!Deliver
    <3>4. CASE ~arrives
      BY <2>3, <3>1, <3>4, <1>0 DEF PublishChild, TypeOK
    <3> QED
      BY <3>3, <3>4
  <2>4. ASSUME NEW r \in Rows, AckOwned(w, r) PROVE [Promise!Next]_<<phase, delivered>>
    BY <1>0, <2>4, AckImplements DEF AckOwned, NextMessage
  <2>5. ASSUME NEW r \in Rows, AckLeaseLost(w, r) PROVE UNCHANGED <<phase, delivered>>
    BY <2>5 DEF AckLeaseLost, NextMessage, table, phase
  <2> QED
    BY <1>1, <2>1, <2>2, <2>3, <2>4, <2>5 DEF Step
<1>2. ASSUME NEW w \in Workers, Disturb(w) PROVE [Promise!Next]_<<phase, delivered>>
  <2>1. CASE ClaimCommitLost(w)
    BY <2>1, GrantInvisible DEF ClaimCommitLost
  <2>2. CASE ClaimAbort(w) \/ Crash(w)
    BY <2>2 DEF ClaimAbort, Crash, table, phase
  <2>3. CASE Release(w)
    <3>1. \A r \in Rows : phase'[r] = phase[r]
      BY <2>3 DEF Release, phase
    <3> QED
      BY <2>3, <3>1, Invisible DEF Release
  <2>4. ASSUME NEW r \in Rows, AckError(w, r) PROVE UNCHANGED <<phase, delivered>>
    BY <2>4 DEF AckError, NextMessage, table, phase
  <2>5. ASSUME NEW r \in Rows, AckReplyLost(w, r) PROVE [Promise!Next]_<<phase, delivered>>
    BY <1>0, <2>5, AckImplements DEF AckReplyLost, NextMessage
  <2> QED
    BY <1>2, <2>1, <2>2, <2>3, <2>4, <2>5 DEF Disturb
<1>3. ASSUME NEW r \in Rows, EnqueueOutbox(r) PROVE Promise!Next
  <2>1. phase[r] = "absent" /\ phase' = [phase EXCEPT ![r] = "open"]
    BY <1>0, <1>3, OneRowMoves DEF EnqueueOutbox, phase, TypeOK
  <2> QED
    BY <1>3, <2>1 DEF EnqueueOutbox, Promise!Next, Promise!Enqueue
<1>4. ASSUME NEW r \in Rows, RequeueFailed(r) PROVE Promise!Next
  <2>1. phase[r] = "failed" /\ phase' = [phase EXCEPT ![r] = "open"]
    BY <1>0, <1>4, OneRowMoves DEF RequeueFailed, phase, TypeOK
  <2> QED
    BY <1>4, <2>1 DEF RequeueFailed, Promise!Next, Promise!Requeue
<1>5. CASE Tick
  BY <1>5 DEF Tick, phase
<1> QED
  BY <1>1, <1>2, <1>3, <1>4, <1>5 DEF Next

\* The relay implements the at-least-once outbox its writers rely on.
THEOREM RelayImplementsPromise == Spec => ImplementsPromise
<1>1. Init => Promise!Init
  BY DEF Init, Promise!Init, phase
<1>2. Inv /\ Inv' /\ [Next]_vars => [Promise!Next]_<<phase, delivered>>
  <2>1. ASSUME UNCHANGED vars PROVE UNCHANGED <<phase, delivered>>
    BY <2>1 DEF vars, phase
  <2> QED
    BY <2>1, StepImplements
<1> QED
  BY <1>1, <1>2, RelayInvariant, PTL DEF Spec, ImplementsPromise, Promise!Spec

=============================================================================

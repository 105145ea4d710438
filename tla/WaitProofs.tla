----------------------------- MODULE WaitProofs -----------------------------
(***************************************************************************)
(* Proofs about the transactions of Store that wait for each other: which  *)
(* circles are possible.                                                   *)
(***************************************************************************)
EXTENDS CommitProofs

-----------------------------------------------------------------------------
(* Locks on the dedupe index. *)

\* Until it has locked a row of the dedupe index, a transaction holds no lock on it.
Before == {"idle", "lookup", "insert", "claim", "lockindex"}
LocksInv == \A c \in Clients : pc[c] \in Before => tx[c].locks = {}

\* A step of one call needs to be looked at for that call only.
LEMMA LocksStep ==
  ASSUME LocksInv, NEW c \in Clients, pc'[c] \in Before => tx'[c].locks = {},
         \A d \in Clients \ {c} : pc'[d] = pc[d] /\ tx'[d] = tx[d]
  PROVE  LocksInv'
BY DEF LocksInv

\* A call that returns holds no lock.
LEMMA ReturnLocks ==
  ASSUME Inv, LocksInv, NEW c \in Clients, NEW how, Return(c, how)
  PROVE  LocksInv'
<1>1. tx'[c] = NoTx /\ \A d \in Clients \ {c} : pc'[d] = pc[d] /\ tx'[d] = tx[d]
  BY DEF Return, Inv, TypeInv, TypeOK
<1> QED
  BY <1>1, LocksStep DEF NoTx

\* Only LockIndex locks a row of the index.
LEMMA StatementLocks ==
  ASSUME Inv, LocksInv, NEW c \in Clients, Statement(c)
  PROVE  LocksInv'
<1>1. pc \in [Clients -> Phases] /\ tx \in [Clients -> Transaction]
  BY DEF Inv, TypeInv, TypeOK
<1>2. ASSUME NEW how, Fail(c, how)
      PROVE  LocksInv'
  BY <1>2, ReturnLocks DEF Fail
<1>3. CASE DeadlockAbort(c) \/ LookupConflict(c) \/ LookupReplay(c) \/ InsertDuplicate(c)
           \/ LoadFails(c) \/ UpdateConflict(c) \/ UpdateDuplicate(c) \/ LoadWinnerFails(c)
           \/ CollapseDuplicate(c) \/ SaveIdemDuplicate(c)
  BY <1>2, <1>3, ReturnLocks
  DEF DeadlockAbort, LookupConflict, LookupReplay, InsertDuplicate, LoadFails, UpdateConflict,
      UpdateDuplicate, LoadWinnerFails, CollapseDuplicate, SaveIdemDuplicate
<1>4. CASE LookupMiss(c)
  <2>1. pc[c] = "lookup" /\ tx' = tx /\ \A d \in Clients \ {c} : pc'[d] = pc[d]
    BY <1>1, <1>4 DEF LookupMiss, Goto
  <2> QED
    BY <2>1, LocksStep DEF LocksInv, Before
<1>5. CASE Claim(c)
  <2>1. pc[c] = "claim" /\ tx'[c].locks = tx[c].locks
        /\ \A d \in Clients \ {c} : pc'[d] = pc[d] /\ tx'[d] = tx[d]
    BY <1>1, <1>5 DEF Claim, Goto, Transaction
  <2> QED
    BY <2>1, LocksStep DEF LocksInv, Before
<1>6. ASSUME NEW phase \in Phases \ Before, NEW t,
             pc' = [pc EXCEPT ![c] = phase], tx' = [tx EXCEPT ![c] = t]
      PROVE  LocksInv'
  BY <1>1, <1>6, LocksStep
<1>7. ASSUME NEW phase \in Phases \ Before,
             Goto(c, phase), \A d \in Clients \ {c} : tx'[d] = tx[d]
      PROVE  LocksInv'
  BY <1>1, <1>7, LocksStep DEF Goto
<1>8. CASE Load(c) \/ AccessDone(c)
  <2>1. \A d \in Clients \ {c} : tx'[d] = tx[d]
    BY <1>8 DEF Load, AccessDone
  <2> QED
    BY <1>7, <1>8, <2>1 DEF Load, AccessDone, Phases, Before
<1>9. CASE LockIndex(c) \/ LoadWinner(c) \/ Collapse(c)
  <2>1. \A d \in Clients \ {c} : tx'[d] = tx[d]
    BY <1>1, <1>9 DEF LockIndex, LoadWinner, Collapse
  <2> QED
    BY <1>7, <1>9, <2>1 DEF LockIndex, LoadWinner, Collapse, Phases, Before
<1>10. CASE Update(c) \/ (\E m \in Mems : InsertRecord(c, m) \/ SaveIdem(c, m))
  <2>1. \A d \in Clients \ {c} : tx'[d] = tx[d]
    BY <1>1, <1>10 DEF Update, InsertRecord, SaveIdem
  <2>2. AfterUpdate(req[c]) \in Phases \ Before
    BY DEF AfterUpdate, Phases, Before
  <2> QED
    BY <1>7, <1>10, <2>1, <2>2 DEF Update, InsertRecord, SaveIdem, Phases, Before
<1>11. CASE \E m \in Mems : AccessRow(c, m)
  <2>1. pc' = pc /\ pc[c] = "access" /\ \A d \in Clients \ {c} : tx'[d] = tx[d]
    BY <1>1, <1>11 DEF AccessRow
  <2> QED
    BY <2>1, LocksStep DEF Before
<1> QED
  BY <1>3, <1>4, <1>5, <1>8, <1>9, <1>10, <1>11 DEF Statement

\* Every step keeps the locks to the phases after LockIndex.
LEMMA NextLocks == Inv /\ LocksInv /\ [Next]_vars => LocksInv'
<1> SUFFICES ASSUME Inv, LocksInv, [Next]_vars
             PROVE  LocksInv'
  OBVIOUS
<1>1. CASE UNCHANGED client
  BY <1>1 DEF client, LocksInv
<1>2. ASSUME NEW c \in Clients, Step(c) \/ CommitReplyLost(c) \/ Abort(c)
      PROVE  LocksInv'
  BY <1>2, StatementLocks, ReturnLocks DEF Step, Commit, CommitReplyLost, Abort, Fail
<1>3. ASSUME NEW c \in Clients, NEW q \in Requests, Begin(c, q)
      PROVE  LocksInv'
  <2>1. /\ pc[c] = "idle" /\ tx'[c].locks = tx[c].locks
        /\ \A d \in Clients \ {c} : pc'[d] = pc[d] /\ tx'[d] = tx[d]
    BY <1>3 DEF Begin, Goto, Inv, TypeInv, TypeOK, Transaction
  <2> QED
    BY <2>1, LocksStep DEF LocksInv, Before
<1>4. CASE \/ \E e \in Appends : AppendEvent(e)
           \/ \E s \in Saves : SaveIdempotency(s)
           \/ \E k \in Keys : LoadIdempotency(k)
  BY <1>1, <1>4 DEF AppendEvent, SaveIdempotency, LoadIdempotency
<1> QED
  BY <1>1, <1>2, <1>3, <1>4 DEF Next, vars

-----------------------------------------------------------------------------
(* Who waits for whom. *)

\* A transaction is waited for because of a row it has written or a row of the dedupe
\* index it has locked, unless it is about to commit.
LEMMA WaitsForHolders ==
  ASSUME Inv, WorkInv, NEW a \in Clients, NEW b \in WaitsFor(a)
  PROVE  /\ b \in Clients
         /\ \/ /\ pc[a] \in {"insert", "update", "access"}
               /\ \E m \in Mems : tx[b].rec[m] # NoRec
            \/ pc[a] = "lockindex" /\ tx[b].locks # {}
            \/ pc[b] = "commit"
<1> DEFINE q == req[a]
<1>1. CASE pc[a] \in {"insert", "update"}
  <2>1. pc[a] = "insert" => q.op = "created" /\ q \in Requests
    BY DEF Inv, CallInv, CallOK
  <2>2. pc[a] = "update" => q.mid \in Mems
    BY CallFacts DEF Inv, CallInv, CallOK
  <2>3. pc[a] = "insert" /\ q.mid # NoMem => q.mid \in Mems
    BY <2>1, RecordsAssumption
  <2>4. b \in {d \in Clients \ {a} : tx[d].rec[q.mid] # NoRec} /\ q.mid \in Mems
    BY <1>1, <2>2, <2>3 DEF WaitsFor
  <2> QED
    BY <1>1, <2>4
<1>2. CASE pc[a] = "access"
  <2>1. \E m \in Mems : b \in {d \in Clients \ {a} : tx[d].rec[m] # NoRec}
    BY <1>2 DEF WaitsFor
  <2> QED
    BY <1>2, <2>1
<1>3. CASE pc[a] = "winner"
  BY <1>3 DEF WaitsFor, RowsLocked
<1>4. CASE pc[a] = "claim"
  <2>1. q.dk \in DKeys
    BY <1>4, CallFacts DEF Inv, CallInv, CallOK
  <2>2. b \in Clients /\ tx[b].dedupe[q.dk] # NoMem
    BY <1>4 DEF WaitsFor
  <2> QED
    BY <2>1, <2>2 DEF WorkInv, WorkOK, KeysOK
<1>5. CASE pc[a] = "lockindex"
  BY <1>5 DEF WaitsFor
<1>6. CASE pc[a] = "collapse"
  <2>1. b \in Clients /\ \E e \in tx[b].events : EventKey(e) = EventKey(CollapseEvent(a))
    BY <1>6 DEF WaitsFor
  <2>2. \E e \in tx[b].events : e.type = "collapsed"
    BY <2>1 DEF EventKey, CollapseEvent, NewEvent
  <2> QED
    BY <2>1, <2>2 DEF WorkInv, WorkOK, EventsOK
<1>7. CASE pc[a] = "saveidem"
  <2>1. q.key \in Keys
    BY <1>7, RecordsAssumption DEF Inv, CallInv, CallOK
  <2>2. b \in Clients /\ tx[b].idem[q.key] # NoEntry
    BY <1>7 DEF WaitsFor
  <2> QED
    BY <2>1, <2>2 DEF WorkInv, WorkOK, KeysOK
<1>8. CASE pc[a] \in {"idle", "lookup", "load", "commit"}
  BY <1>8 DEF WaitsFor
<1> QED
  BY <1>1, <1>2, <1>3, <1>4, <1>5, <1>6, <1>7, <1>8 DEF Inv, TypeInv, TypeOK, Phases

\* Who waits in a circle is waited for as well, so it has written a row and waits for one:
\* only an access does both.
LEMMA CirclesAreAccesses ==
  ASSUME Inv, WorkInv, LocksInv, NEW c \in Clients, Deadlocked(c)
  PROVE  req[c].op = "access"
<1>1. PICK S \in SUBSET Clients : c \in S /\ \E next \in [S -> S] :
        (\A a \in S : next[a] \in WaitsFor(a)) /\ (\A b \in S : \E a \in S : next[a] = b)
  BY DEF Deadlocked
<1>2. \A a \in S : \E b \in S : b \in WaitsFor(a)
  BY <1>1
<1>3. \A b \in S : \E a \in S : b \in WaitsFor(a)
  BY <1>1
<1>4. ASSUME NEW a \in S
      PROVE  pc[a] # "commit"
  <2>1. WaitsFor(a) # {}
    BY <1>2
  <2> QED
    BY <2>1 DEF WaitsFor
<1>5. ASSUME NEW b \in S
      PROVE  /\ pc[b] \in {"insert", "update", "access", "lockindex"}
             /\ (\E m \in Mems : tx[b].rec[m] # NoRec) \/ tx[b].locks # {}
  <2>1. PICK a \in S : b \in WaitsFor(a)
    BY <1>3
  <2>2. PICK d \in S : d \in WaitsFor(b)
    BY <1>2
  <2> QED
    BY <1>4, <2>1, <2>2, WaitsForHolders
<1>6. ASSUME NEW b \in S
      PROVE  pc[b] \in {"update", "access"}
  <2>1. CASE pc[b] \in {"insert", "lockindex"}
    <3>1. EmptyTx(b) /\ tx[b].locks = {}
      BY <2>1 DEF WorkInv, WorkOK, WrittenOK, LocksInv, Before
    <3> QED
      BY <1>5, <3>1 DEF EmptyTx
  <2> QED
    BY <1>5, <2>1
<1>7. PICK a \in S : c \in WaitsFor(a)
  BY <1>1, <1>3
<1>8. \E m \in Mems : tx[c].rec[m] # NoRec
  BY <1>1, <1>4, <1>6, <1>7, WaitsForHolders
<1>9. pc[c] # "update"
  BY <1>8 DEF WorkInv, WorkOK, WrittenOK, EmptyTx
<1>10. pc[c] = "access"
  BY <1>1, <1>6, <1>9
<1> QED
  BY <1>10 DEF Inv, CallInv, CallOK

\* Only accesses deadlock, for any number of clients, records and keys: every other call
\* writes its one row before it inserts a key, and waits for nothing that a call which
\* still waits can hold (mutateRecordTx, WriteRecord, ResolveDedupe, Promote; MarkAccess
\* locks its rows one by one).
THEOREM DeadlocksAreAccesses == Spec => []OnlyAccessesDeadlock
<1>1. Init => LocksInv
  BY DEF Init, LocksInv, NoTx
<1>2. Inv /\ WorkInv /\ LocksInv => OnlyAccessesDeadlock
  BY CirclesAreAccesses DEF OnlyAccessesDeadlock
<1> QED
  BY <1>1, <1>2, InitInv, NextInv, InitWork, NextWork, NextLocks, PTL DEF Spec

=============================================================================

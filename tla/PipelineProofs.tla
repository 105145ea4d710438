--------------------------- MODULE PipelineProofs ---------------------------
(***************************************************************************)
(* Proofs about Pipeline: what is published was committed, a consumer that *)
(* keeps the newest version ends up with the table's records, and rows are *)
(* first published in the order of their transactions' starts.  They rest  *)
(* on the theorems about Store and about Relay, taken for the parts of     *)
(* Pipeline; Pipeline's callers append no events and save no entries.      *)
(***************************************************************************)
EXTENDS Pipeline, FiniteSetTheorems, TLAPS

SP == INSTANCE HistoryProofs WITH pc <- cpc, Appends <- {}, Saves <- {}
RP == INSTANCE RelayProofs WITH Rows <- Rows, pc <- wpc

-----------------------------------------------------------------------------
(* The parts meet the assumptions of their theorems. *)

\* Pipeline's constants meet what the theorems about Store assume.
LEMMA StoreAssumed == SP!StoreAssumption /\ SP!RecordsAssumption /\ SP!WritesAssumption
<1>1. SP!StoreAssumption
  BY PipelineAssumption DEF SP!StoreAssumption
<1>2. SP!Kinds = Kinds /\ SP!EventTypes = EventTypes /\ SP!Keyed = Keyed
  BY DEF SP!Kinds, Kinds, SP!EventTypes, EventTypes, SP!Toggles, Toggles, SP!Keyed, Keyed
<1>3. SP!Record = Record
  BY <1>2 DEF SP!Record, Record
<1>4. SP!Hashes \subseteq Hashes
  BY <1>2 DEF SP!Hashes, Hashes, SP!RequestHash, RequestHash
<1>5. SP!Entry \subseteq Entry
  BY <1>4 DEF SP!Entry, Entry
<1>6. SP!RecordsAssumption
  BY <1>2, <1>3, <1>5, RecordsAssumption DEF SP!RecordsAssumption
<1>7. SP!WritesAssumption
  BY <1>3, WritesAssumption DEF SP!WritesAssumption
<1> QED
  BY <1>1, <1>6, <1>7

\* Pipeline's constants meet what the theorems about Relay assume.
LEMMA RelayAssumed == RP!RelayAssumption
<1>1. MaxOps \in Nat
  BY PipelineAssumption
<1>2. Rows \subseteq Nat /\ IsFiniteSet(Rows)
  BY <1>1, FS_Interval DEF Rows
<1>3. /\ Children \subseteq Nat /\ NoWorker \notin Workers
      /\ CfgBatchSize \in Int /\ CfgLeaseTTL \in Int /\ CfgMaxAttempts \in Int
      /\ MaxLag \in Nat /\ MaxFaults \in Nat
  BY PipelineAssumption
<1> QED
  BY <1>2, <1>3, Zenon DEF RP!RelayAssumption, RP!IsFiniteSet, IsFiniteSet

-----------------------------------------------------------------------------
(* The actions of the parts are those of the theorems. *)

\* The calls of Pipeline are those the theorems about Store are about.
LEMMA SameCalls ==
  ASSUME NEW c \in Clients
  PROVE  /\ \A q \in Requests : S!Begin(c, q) <=> SP!Begin(c, q)
         /\ S!Step(c) <=> SP!Step(c)
         /\ S!CommitReplyLost(c) <=> SP!CommitReplyLost(c)
         /\ S!Abort(c) <=> SP!Abort(c)
<1> USE DEF S!Visible, SP!Visible, S!RowFree, SP!RowFree, S!EventKeyFree, SP!EventKeyFree,
           S!EventKeyTaken, SP!EventKeyTaken, S!Goto, SP!Goto, S!Return, SP!Return, S!Fail,
           SP!Fail, S!Matching, SP!Matching, S!HashMatches, SP!HashMatches, S!Reply,
           SP!Reply, S!MayInsert, SP!MayInsert, S!VersionMatches, SP!VersionMatches,
           S!Written, SP!Written, S!AfterUpdate, SP!AfterUpdate, S!ClaimFree, SP!ClaimFree,
           S!RowsLocked, SP!RowsLocked, S!CollapseEvent, SP!CollapseEvent, S!Verdict,
           SP!Verdict, S!IdemFree, SP!IdemFree, S!NextRow, SP!NextRow, S!tables, SP!tables,
           S!history, SP!history, S!NoTx, SP!NoTx, S!NoReq, SP!NoReq, S!EventKey,
           SP!EventKey, S!NewEntry, SP!NewEntry, S!NewEvent, SP!NewEvent, S!RequestHash,
           SP!RequestHash, S!FirstVersion, SP!FirstVersion, S!MutationType, SP!MutationType,
           S!Applied, SP!Applied, S!CreatedOnReplay, SP!CreatedOnReplay
<1>1. \A q \in Requests : S!Begin(c, q) <=> SP!Begin(c, q)
  BY DEF S!Begin, SP!Begin
<1>2. S!LookupMiss(c) <=> SP!LookupMiss(c)
  BY DEF S!LookupMiss, SP!LookupMiss
<1>3. S!LookupConflict(c) <=> SP!LookupConflict(c)
  BY DEF S!LookupConflict, SP!LookupConflict
<1>4. S!LookupReplay(c) <=> SP!LookupReplay(c)
  BY DEF S!LookupReplay, SP!LookupReplay
<1>5. S!InsertDuplicate(c) <=> SP!InsertDuplicate(c)
  BY DEF S!InsertDuplicate, SP!InsertDuplicate
<1>6. S!Load(c) <=> SP!Load(c)
  BY DEF S!Load, SP!Load
<1>7. S!LoadFails(c) <=> SP!LoadFails(c)
  BY DEF S!LoadFails, SP!LoadFails
<1>8. S!Update(c) <=> SP!Update(c)
  BY DEF S!Update, SP!Update
<1>9. S!UpdateConflict(c) <=> SP!UpdateConflict(c)
  BY DEF S!UpdateConflict, SP!UpdateConflict
<1>10. S!UpdateDuplicate(c) <=> SP!UpdateDuplicate(c)
  BY DEF S!UpdateDuplicate, SP!UpdateDuplicate
<1>11. S!Claim(c) <=> SP!Claim(c)
  BY DEF S!Claim, SP!Claim
<1>12. S!LockIndex(c) <=> SP!LockIndex(c)
  BY DEF S!LockIndex, SP!LockIndex
<1>13. S!LoadWinner(c) <=> SP!LoadWinner(c)
  BY DEF S!LoadWinner, SP!LoadWinner
<1>14. S!LoadWinnerFails(c) <=> SP!LoadWinnerFails(c)
  BY DEF S!LoadWinnerFails, SP!LoadWinnerFails
<1>15. S!Collapse(c) <=> SP!Collapse(c)
  BY DEF S!Collapse, SP!Collapse
<1>16. S!CollapseDuplicate(c) <=> SP!CollapseDuplicate(c)
  BY DEF S!CollapseDuplicate, SP!CollapseDuplicate
<1>17. S!SaveIdemDuplicate(c) <=> SP!SaveIdemDuplicate(c)
  BY DEF S!SaveIdemDuplicate, SP!SaveIdemDuplicate
<1>18. S!AccessDone(c) <=> SP!AccessDone(c)
  BY DEF S!AccessDone, SP!AccessDone
<1>19. S!Commit(c) <=> SP!Commit(c)
  BY DEF S!Commit, SP!Commit, S!Apply, SP!Apply
<1>20. S!CommitReplyLost(c) <=> SP!CommitReplyLost(c)
  BY DEF S!CommitReplyLost, SP!CommitReplyLost, S!Apply, SP!Apply
<1>21. S!Abort(c) <=> SP!Abort(c)
  BY DEF S!Abort, SP!Abort
<1>22. \A m \in Mems : S!InsertRecord(c, m) <=> SP!InsertRecord(c, m)
  BY DEF S!InsertRecord, SP!InsertRecord
<1>23. \A m \in Mems : S!SaveIdem(c, m) <=> SP!SaveIdem(c, m)
  BY DEF S!SaveIdem, SP!SaveIdem
<1>24. \A m \in Mems : S!AccessRow(c, m) <=> SP!AccessRow(c, m)
  BY DEF S!AccessRow, SP!AccessRow
<1>25. S!DeadlockAbort(c) <=> SP!DeadlockAbort(c)
  BY DEF S!DeadlockAbort, SP!DeadlockAbort, S!Deadlocked, SP!Deadlocked, S!WaitsFor,
             SP!WaitsFor
<1> QED
  BY <1>1, <1>2, <1>3, <1>4, <1>5, <1>6, <1>7, <1>8, <1>9, <1>10, <1>11, <1>12, <1>13,
             <1>14, <1>15, <1>16, <1>17, <1>18, <1>19, <1>20, <1>21, <1>22, <1>23, <1>24,
             <1>25
  DEF S!Step, SP!Step, S!Statement, SP!Statement

\* A batch is the same to both.
LEMMA SameBatch ==
  ASSUME NEW w, NEW B
  PROVE  R!IsBatch(w, B) <=> RP!IsBatch(w, B)
<1> DEFINE dueR == {r \in Rows : R!Claimable(w, r)}
           dueP == {r \in Rows : RP!Claimable(w, r)}
<1>1. dueR = dueP
  BY DEF R!Claimable, RP!Claimable
<1>2. R!BatchSize = RP!BatchSize
  BY DEF R!BatchSize, RP!BatchSize, R!OrDefault, RP!OrDefault
<1>3. R!Cardinality(B) = RP!Cardinality(B)
  BY DEF R!Cardinality, RP!Cardinality
<1>4. R!IsBatch(w, B) <=>
        /\ B \subseteq dueR /\ R!Cardinality(B) <= R!BatchSize
        /\ B # dueR => R!Cardinality(B) = R!BatchSize
        /\ \A r \in B, q \in dueR \ B : r < q
  BY Zenon DEF R!IsBatch
<1>5. RP!IsBatch(w, B) <=>
        /\ B \subseteq dueP /\ RP!Cardinality(B) <= RP!BatchSize
        /\ B # dueP => RP!Cardinality(B) = RP!BatchSize
        /\ \A r \in B, q \in dueP \ B : r < q
  BY Zenon DEF RP!IsBatch
<1> HIDE DEF dueR, dueP
<1> QED
  BY <1>1, <1>2, <1>3, <1>4, <1>5

\* The relays of Pipeline are those the theorems about Relay are about.
LEMMA SameRelay ==
  /\ \A w \in Workers : (R!Step(w) <=> RP!Step(w)) /\ (R!Disturb(w) <=> RP!Disturb(w))
  /\ \A r \in Rows : /\ R!RequeueFailed(r) <=> RP!RequeueFailed(r)
                     /\ R!EnqueueOutbox(r) <=> RP!EnqueueOutbox(r)
  /\ R!Tick <=> RP!Tick
<1> USE DEF R!table, RP!table, R!run, RP!run, R!First, RP!First, R!NoRows, RP!NoRows,
           R!NoResult, RP!NoResult, R!Fault, RP!Fault, R!Floor, RP!Floor, R!InTx, RP!InTx,
           R!Claimable, RP!Claimable, R!OrDefault, RP!OrDefault,
           R!BatchSize, RP!BatchSize, R!MaxAttempts, RP!MaxAttempts, R!LeaseMillis,
           RP!LeaseMillis, R!GrantLeases, RP!GrantLeases, R!DropRun, RP!DropRun, R!Owns,
           RP!Owns, R!AckStatus, RP!AckStatus, R!AckReady, RP!AckReady, R!AckUpdate,
           RP!AckUpdate, R!NextMessage, RP!NextMessage, R!HeldLeaseEnds, RP!HeldLeaseEnds
<1>1. \A w \in Workers : R!ClaimBegin(w) <=> RP!ClaimBegin(w)
  BY DEF R!ClaimBegin, RP!ClaimBegin
<1>2. \A w \in Workers : R!ClaimCommit(w) <=> RP!ClaimCommit(w)
  BY DEF R!ClaimCommit, RP!ClaimCommit
<1>3. \A w \in Workers : R!AckBegin(w) <=> RP!AckBegin(w)
  BY DEF R!AckBegin, RP!AckBegin
<1>4. \A w \in Workers : R!RunOnceReturn(w) <=> RP!RunOnceReturn(w)
  BY DEF R!RunOnceReturn, RP!RunOnceReturn
<1>5. \A w \in Workers : R!ClaimCommitLost(w) <=> RP!ClaimCommitLost(w)
  BY DEF R!ClaimCommitLost, RP!ClaimCommitLost
<1>6. \A w \in Workers : R!ClaimAbort(w) <=> RP!ClaimAbort(w)
  BY DEF R!ClaimAbort, RP!ClaimAbort
<1>7. \A w \in Workers : R!Release(w) <=> RP!Release(w)
  BY DEF R!Release, RP!Release
<1>8. \A w \in Workers : R!Crash(w) <=> RP!Crash(w)
  BY DEF R!Crash, RP!Crash
<1>9. \A w \in Workers, B \in SUBSET Rows : R!ClaimSelect(w, B) <=> RP!ClaimSelect(w, B)
  BY SameBatch DEF R!ClaimSelect, RP!ClaimSelect
<1>10. \A w \in Workers, r \in Rows, c \in Children, arrives, ok \in BOOLEAN :
         R!PublishChild(w, r, c, arrives, ok) <=> RP!PublishChild(w, r, c, arrives, ok)
  BY DEF R!PublishChild, RP!PublishChild
<1>11. \A w \in Workers, r \in Rows : R!AckOwned(w, r) <=> RP!AckOwned(w, r)
  BY DEF R!AckOwned, RP!AckOwned
<1>12. \A w \in Workers, r \in Rows : R!AckLeaseLost(w, r) <=> RP!AckLeaseLost(w, r)
  BY DEF R!AckLeaseLost, RP!AckLeaseLost
<1>13. \A w \in Workers, r \in Rows : R!AckError(w, r) <=> RP!AckError(w, r)
  BY DEF R!AckError, RP!AckError
<1>14. \A w \in Workers, r \in Rows : R!AckReplyLost(w, r) <=> RP!AckReplyLost(w, r)
  BY DEF R!AckReplyLost, RP!AckReplyLost
<1>15. \A r \in Rows : R!RequeueFailed(r) <=> RP!RequeueFailed(r)
  BY DEF R!RequeueFailed, RP!RequeueFailed
<1>16. \A r \in Rows : R!EnqueueOutbox(r) <=> RP!EnqueueOutbox(r)
  BY DEF R!EnqueueOutbox, RP!EnqueueOutbox
<1>17. R!Tick <=> RP!Tick
  BY DEF R!Tick, RP!Tick
<1> QED
  BY <1>1, <1>2, <1>3, <1>4, <1>5, <1>6, <1>7, <1>8, <1>9, <1>10, <1>11, <1>12, <1>13,
             <1>14, <1>15, <1>16, <1>17
  DEF R!Step, RP!Step, R!Disturb, RP!Disturb

\* Both parts begin as they do on their own.
LEMMA SameInit == (S!Init <=> SP!Init) /\ (R!Init <=> RP!Init)
<1>1. S!Init <=> SP!Init
  BY DEF S!Init, SP!Init, S!SeedRecords, SP!SeedRecords, S!SeedEvents, SP!SeedEvents,
             S!NewEvent, SP!NewEvent, S!EventKey, SP!EventKey,
             S!NoTx, SP!NoTx, S!NoReq, SP!NoReq
<1>2. R!Init <=> RP!Init
  BY DEF R!Init, RP!Init, R!NoRows, RP!NoRows, R!NoResult, RP!NoResult
<1> QED
  BY <1>1, <1>2

-----------------------------------------------------------------------------
(* Pipeline runs Store and Relay. *)

\* A step of a call is a step of Store, and so is a commit with a lost reply.
LEMMA CallStep ==
  ASSUME NEW c \in Clients, Begin(c) \/ ClientStep(c)
  PROVE  SP!Next
<1>1. CASE Begin(c)
  BY <1>1, SameCalls DEF Begin, SP!Next
<1>2. CASE ClientStep(c)
  BY <1>2, SameCalls DEF ClientStep, SP!Next
<1> QED
  BY <1>1, <1>2

\* Whatever is proved about Store holds of Pipeline's calls.
THEOREM RunsStore == Spec => SP!Spec
<1>1. Init => SP!Init
  BY SameInit DEF Init
<1>2. [Next]_vars => [SP!Next]_(SP!vars)
  <2>1. UNCHANGED storeVars => UNCHANGED SP!vars
    BY DEF storeVars, SP!vars, SP!tables, SP!client, SP!history
  <2>2. RelayStep \/ UNCHANGED vars => UNCHANGED storeVars
    BY DEF RelayStep, vars
  <2> QED
    BY <2>1, <2>2, CallStep DEF Next
<1> QED
  BY <1>1, <1>2, PTL DEF Spec, SP!Spec

\* What Store's theorems say of the tables.
StoreFacts ==
  /\ SP!Inv /\ SP!WorkInv /\ SP!PairedInv
  /\ SP!VersionChain /\ SP!HistoryExplains /\ SP!OutboxComplete

\* Store's theorems hold throughout a behaviour of Pipeline.
LEMMA StoreHolds == Spec => []StoreFacts
<1> USE StoreAssumed DEF SP!StoreAssumption, SP!RecordsAssumption, SP!WritesAssumption
<1>1. SP!Spec => [](SP!Inv /\ SP!WorkInv)
  BY SP!WorkInvariant
<1>2. SP!Init => SP!Inv /\ SP!PairedInv
  BY SP!InitInv, SP!InitPaired
<1>3. SP!Inv /\ SP!PairedInv /\ [SP!Next]_(SP!vars) => (SP!Inv /\ SP!PairedInv)'
  BY SP!NextInv, SP!NextPaired
<1>4. SP!Spec => [](SP!Inv /\ SP!PairedInv)
  BY <1>2, <1>3, PTL DEF SP!Spec
<1>5. SP!OnlyCollapsesAppended
  BY DEF SP!OnlyCollapsesAppended
<1>6. SP!Spec => []SP!VersionChain
  BY <1>5, SP!VersionsChained
<1>7. SP!Spec => []SP!HistoryExplains
  BY <1>5, SP!HistoryAlwaysExplains
<1>8. SP!Spec => []SP!OutboxComplete
  BY SP!OutboxAlwaysComplete
<1> QED
  BY <1>1, <1>4, <1>6, <1>7, <1>8, RunsStore, PTL DEF StoreFacts

-----------------------------------------------------------------------------
(* The calls are numbered as they begin, and name the rows they write. *)

CallsNumbered ==
  /\ began \in [Clients -> 0..ops]
  /\ \A c \in Clients : cpc[c] # "idle" => began[c] # 0

\* Only Begin takes a client out of "idle".
LEMMA StepIsCalled ==
  ASSUME SP!TypeOK, NEW c \in Clients,
         SP!Step(c) \/ SP!CommitReplyLost(c) \/ SP!Abort(c)
  PROVE  cpc[c] # "idle" /\ ops' = ops /\ \A d \in Clients \ {c} : cpc'[d] = cpc[d]
<1> USE DEF SP!TypeOK, SP!Goto, SP!Fail, SP!Return, SP!history
<1>1. CASE SP!Commit(c) \/ SP!CommitReplyLost(c)
  BY <1>1 DEF SP!Commit, SP!CommitReplyLost, SP!Apply
<1>2. CASE SP!Abort(c)
  BY <1>2 DEF SP!Abort
<1>3. CASE SP!DeadlockAbort(c)
  <2>1. SP!WaitsFor(c) # {}
    BY <1>3 DEF SP!DeadlockAbort, SP!Deadlocked
  <2>2. cpc[c] # "idle"
    BY <2>1 DEF SP!WaitsFor
  <2> QED
    BY <1>3, <2>2 DEF SP!DeadlockAbort
<1>4. CASE \/ SP!LookupMiss(c) \/ SP!LookupConflict(c) \/ SP!LookupReplay(c)
           \/ (\E m \in Mems : SP!InsertRecord(c, m)) \/ SP!InsertDuplicate(c)
  BY <1>4 DEF SP!LookupMiss, SP!LookupConflict, SP!LookupReplay, SP!InsertRecord,
              SP!InsertDuplicate
<1>5. CASE SP!Load(c) \/ SP!LoadFails(c) \/ SP!Update(c) \/ SP!UpdateConflict(c)
             \/ SP!UpdateDuplicate(c)
  BY <1>5 DEF SP!Load, SP!LoadFails, SP!Update, SP!UpdateConflict, SP!UpdateDuplicate
<1>6. CASE \/ SP!Claim(c) \/ SP!LockIndex(c) \/ SP!LoadWinner(c) \/ SP!LoadWinnerFails(c)
           \/ SP!Collapse(c) \/ SP!CollapseDuplicate(c)
  BY <1>6 DEF SP!Claim, SP!LockIndex, SP!LoadWinner, SP!LoadWinnerFails, SP!Collapse,
              SP!CollapseDuplicate
<1>7. CASE \/ \E m \in Mems : SP!SaveIdem(c, m) \/ SP!AccessRow(c, m)
           \/ SP!SaveIdemDuplicate(c) \/ SP!AccessDone(c)
  BY <1>7 DEF SP!SaveIdem, SP!AccessRow, SP!SaveIdemDuplicate, SP!AccessDone
<1> QED
  BY <1>1, <1>2, <1>3, <1>4, <1>5, <1>6, <1>7 DEF SP!Step, SP!Statement

\* Every step keeps the calls numbered.
LEMMA NextNumbered == SP!TypeOK /\ CallsNumbered /\ [Next]_vars => CallsNumbered'
<1> SUFFICES ASSUME SP!TypeOK, CallsNumbered, [Next]_vars
             PROVE  CallsNumbered'
  OBVIOUS
<1>0. ops \in Nat /\ MaxOps \in Nat
  BY PipelineAssumption DEF SP!TypeOK
<1>1. ASSUME NEW c \in Clients, Begin(c)
      PROVE  CallsNumbered'
  <2>1. ops' = ops + 1 /\ began' = [began EXCEPT ![c] = ops']
    BY <1>1 DEF Begin, S!Begin
  <2>2. \A d \in Clients \ {c} : cpc'[d] = cpc[d]
    BY <1>1 DEF Begin, S!Begin, S!Goto, SP!TypeOK
  <2> QED
    BY <1>0, <2>1, <2>2 DEF CallsNumbered
<1>2. ASSUME NEW c \in Clients, ClientStep(c)
      PROVE  CallsNumbered'
  <2>1. cpc[c] # "idle" /\ ops' = ops /\ \A d \in Clients \ {c} : cpc'[d] = cpc[d]
    BY <1>2, SameCalls, StepIsCalled DEF ClientStep
  <2>2. began' = began
    BY <1>2 DEF ClientStep
  <2> QED
    BY <2>1, <2>2 DEF CallsNumbered
<1>3. CASE RelayStep \/ UNCHANGED vars
  BY <1>3 DEF RelayStep, vars, storeVars, CallsNumbered
<1> QED
  BY <1>1, <1>2, <1>3 DEF Next

\* Calls in progress always have a number.
LEMMA AlwaysNumbered == Spec => [](StoreFacts /\ CallsNumbered)
<1>1. Init => CallsNumbered
  BY DEF Init, S!Init, CallsNumbered
<1>2. StoreFacts => SP!TypeOK
  BY DEF StoreFacts, SP!Inv, SP!TypeInv
<1> QED
  BY <1>1, <1>2, NextNumbered, StoreHolds, PTL DEF Spec

-----------------------------------------------------------------------------
(* What a call changes of the relay's world: the row of its transaction. *)

\* A call's step adds the row of its own number, when it commits an outbox row.
LEMMA CallEnqueues ==
  ASSUME SP!TypeOK, CallsNumbered, NEW c \in Clients, ClientStep(c)
  PROVE  /\ outbox' = outbox => UNCHANGED <<relayVars, message>>
         /\ outbox' # outbox => /\ began[c] \in Rows /\ R!EnqueueOutbox(began[c])
                                /\ \E e \in tx[c].events :
                                     message' = [message EXCEPT ![began[c]] = e]
<1>1. cpc[c] # "idle" /\ ops \in 0..MaxOps
  BY SameCalls, StepIsCalled DEF ClientStep, SP!TypeOK
<1>2. began[c] \in Rows
  BY <1>1, PipelineAssumption DEF CallsNumbered, Rows
<1> QED
  BY <1>2 DEF ClientStep, OutboxRow, Enqueue

\* Whatever is proved about Relay holds of Pipeline's relay.
THEOREM RunsRelay == Spec => RP!Spec
<1>1. Init => RP!Init
  BY SameInit DEF Init
<1>2. SP!TypeOK /\ CallsNumbered /\ [Next]_vars => [RP!Next]_(RP!vars)
  <2> SUFFICES ASSUME SP!TypeOK, CallsNumbered, [Next]_vars
               PROVE  RP!Next \/ UNCHANGED RP!vars
    OBVIOUS
  <2>1. UNCHANGED relayVars => UNCHANGED RP!vars
    BY DEF relayVars, RP!vars
  <2>2. ASSUME NEW c \in Clients, ClientStep(c)
        PROVE  RP!Next \/ UNCHANGED RP!vars
    BY <2>1, <2>2, CallEnqueues, SameRelay DEF RP!Next
  <2>3. CASE RelayStep
    BY <2>3, SameRelay DEF RelayStep, RP!Next
  <2> QED
    BY <2>1, <2>2, <2>3 DEF Next, Begin, vars
<1>3. StoreFacts => SP!TypeOK
  BY DEF StoreFacts, SP!Inv, SP!TypeInv
<1> QED
  BY <1>1, <1>2, <1>3, AlwaysNumbered, PTL DEF Spec, RP!Spec

\* What Relay's theorems say of its rows and workers.
LEMMA RelayHolds == Spec => []RP!Inv
<1>1. RP!Spec => []RP!Inv
  BY RP!RelayInvariant, RelayAssumed DEF RP!RelayAssumption
<1> QED
  BY <1>1, RunsRelay, PTL

-----------------------------------------------------------------------------
(* Rows and events: each row carries a committed event, and each committed   *)
(* event that is not of the seed is carried by a row.                        *)

Present(r) == status[r] # "absent"

Contents ==
  /\ DOMAIN message = Rows /\ SeedEvents \subseteq events
  /\ \A r \in Rows : IF Present(r) THEN message[r] \in events
                     ELSE message[r] = NoMessage /\ delivered[r] = {}
  /\ \A e \in events : /\ e.type # "collapsed"
                       /\ e \in SeedEvents \/ \E r \in Rows : Present(r) /\ message[r] = e

\* A transaction here inserts one event at most, never a collapse, and the outbox shows
\* at COMMIT whether it did.
LEMMA CommitAddsOne ==
  ASSUME StoreFacts, NEW c \in Clients, SP!Apply(c)
  PROVE  /\ events' = events \cup tx[c].events
         /\ \/ tx[c].events = {} /\ outbox' = outbox
            \/ \E e : tx[c].events = {e} /\ e.type # "collapsed" /\ outbox' # outbox
<1> DEFINE q == req[c]
<1>1. /\ cpc[c] = "commit" /\ q \in Requests /\ q.op # "dedupe"
      /\ q.op \in (EventTypes \ {"collapsed"}) \cup {"access"}
      /\ events' = events \cup tx[c].events /\ outbox' = outbox \cup tx[c].outbox
  BY PipelineAssumption, RecordsAssumption
  DEF StoreFacts, SP!Inv, SP!CallInv, SP!CallOK, SP!Apply
<1>2. /\ SP!WrittenOK(c) /\ SP!EventsOK(c) /\ ~SP!Won(c)
  BY <1>1 DEF StoreFacts, SP!WorkInv, SP!WorkOK, SP!Won
<1>3. tx[c].outbox = {SP!EventKey(e) : e \in tx[c].events}
  BY DEF StoreFacts, SP!PairedInv, SP!Paired
<1>4. CASE q.op = "access"
  BY <1>1, <1>2, <1>3, <1>4 DEF SP!WrittenOK, SP!Visited
<1>5. ASSUME NEW e, tx[c].events = {e}
      PROVE  outbox' # outbox
  <2>1. SP!EventKey(e) \in outbox'
    BY <1>1, <1>3, <1>5
  <2>2. SP!EventKey(e) \notin outbox
    BY <1>2, <1>5 DEF SP!EventsOK, StoreFacts, SP!OutboxComplete
  <2> QED
    BY <2>1, <2>2
<1>6. CASE q.op = "created"
  <2>1. PICK m \in Mems : SP!Created(c, m)
    BY <1>1, <1>2, <1>6 DEF SP!WrittenOK
  <2>2. PICK e : tx[c].events = {e} /\ e.type = "created"
    <3> DEFINE f == SP!NewEvent(m, SP!FirstVersion(q), "created", q.key, NoMem)
    <3>1. tx[c].events = {f} /\ f.type = "created"
      BY <2>1 DEF SP!Created, SP!NewEvent
    <3> HIDE DEF f
    <3> QED
      BY <3>1
  <2> QED
    BY <1>1, <1>5, <2>2
<1>7. CASE q.op \notin {"created", "access"}
  <2>1. PICK e \in tx[c].events : SP!Mutated(c, e)
    BY <1>1, <1>2, <1>7 DEF SP!WrittenOK
  <2>2. tx[c].events = {e} /\ e.type = SP!MutationType(q)
    BY <1>1, <2>1 DEF SP!Mutated, SP!Changed, SP!NewEvent
  <2>3. SP!MutationType(q) = q.op
    BY <1>1 DEF SP!MutationType
  <2> QED
    BY <1>1, <1>5, <1>7, <2>2, <2>3
<1> QED
  BY <1>4, <1>6, <1>7

\* A call's step commits its own transaction or leaves the tables alone.
LEMMA CommitsOwn ==
  ASSUME StoreFacts, NEW c \in Clients, ClientStep(c)
  PROVE  SP!Apply(c) \/ UNCHANGED SP!tables
<1>1. SP!TypeOK
  BY DEF StoreFacts, SP!Inv, SP!TypeInv
<1>2. \A d \in Clients \ {c} : cpc'[d] = cpc[d]
  BY <1>1, SameCalls, StepIsCalled DEF ClientStep
<1>3. ASSUME NEW d \in Clients, SP!Commit(d) \/ SP!CommitReplyLost(d)
      PROVE  SP!Apply(c)
  <2>1. SP!Apply(d) /\ cpc[d] = "commit" /\ cpc'[d] = "idle"
    BY <1>1, <1>3 DEF SP!Commit, SP!CommitReplyLost, SP!Apply, SP!Return, SP!TypeOK
  <2> QED
    BY <1>2, <2>1
<1> QED
  BY <1>3, CallStep, SP!OnlyCommits, StoreAssumed
  DEF SP!StoreAssumption, SP!RecordsAssumption, SP!WritesAssumption

\* A call adds its event to the committed ones and to the rows, or to neither.
LEMMA CallContents ==
  ASSUME StoreFacts, CallsNumbered, RP!Inv, Contents, NEW c \in Clients, ClientStep(c)
  PROVE  Contents'
<1>1. SP!TypeOK /\ DOMAIN status = Rows
  BY DEF StoreFacts, SP!Inv, SP!TypeInv, RP!Inv, RP!TypeOK
<1>2. CASE UNCHANGED SP!tables
  BY <1>1, <1>2, CallEnqueues DEF SP!tables, Contents, Present, relayVars
<1>3. CASE SP!Apply(c)
  <2>1. CASE tx[c].events = {} /\ outbox' = outbox
    <3>1. events' = events /\ UNCHANGED <<relayVars, message>>
      BY <1>1, <1>3, <2>1, CommitAddsOne, CallEnqueues
    <3> QED
      BY <3>1 DEF Contents, Present, relayVars
  <2>2. CASE \E e : tx[c].events = {e} /\ e.type # "collapsed" /\ outbox' # outbox
    <3>1. PICK e : tx[c].events = {e} /\ e.type # "collapsed" /\ outbox' # outbox
      BY <2>2
    <3>2. PICK b : b = began[c]
      OBVIOUS
    <3>3. /\ b \in Rows /\ R!EnqueueOutbox(b) /\ message' = [message EXCEPT ![b] = e]
          /\ events' = events \cup {e}
      BY <1>1, <1>3, <3>1, <3>2, CallEnqueues, CommitAddsOne
    <3>4. /\ ~Present(b) /\ Present(b)' /\ delivered' = delivered
          /\ \A r \in Rows \ {b} : Present(r)' <=> Present(r)
      BY <1>1, <3>3 DEF R!EnqueueOutbox, Present
    <3>5. /\ DOMAIN message' = Rows /\ message'[b] = e
          /\ \A r \in Rows \ {b} : message'[r] = message[r]
      BY <3>3 DEF Contents
    <3> QED
      BY <3>1, <3>3, <3>4, <3>5 DEF Contents
  <2> QED
    BY <1>3, <2>1, <2>2, CommitAddsOne
<1> QED
  BY <1>2, <1>3, CommitsOwn

\* The relay makes no rows and drops none, and delivers only rows that are there.
LEMMA RowsStay ==
  ASSUME RP!Inv, RelayStep, NEW r \in Rows
  PROVE  /\ Present(r)' <=> Present(r)
         /\ ~Present(r) => delivered'[r] = delivered[r]
<1> USE DEF Present, RP!table, RP!run, RP!TodoInv, RP!Inv, RP!TypeOK
<1>1. ASSUME NEW w \in Workers, RP!GrantLeases(w)
      PROVE  (Present(r)' <=> Present(r)) /\ delivered' = delivered
  BY <1>1 DEF RP!GrantLeases
<1>2. ASSUME NEW w \in Workers, NEW q \in Rows, RP!AckReady(w, q), RP!AckUpdate(w, q),
             delivered' = delivered
      PROVE  (Present(r)' <=> Present(r)) /\ delivered' = delivered
  BY <1>2 DEF RP!AckReady, RP!AckUpdate, RP!AckStatus, RP!First
<1>3. ASSUME NEW w \in Workers, RP!Step(w) \/ RP!Disturb(w)
      PROVE  (Present(r)' <=> Present(r)) /\ (~Present(r) => delivered'[r] = delivered[r])
  <2>1. CASE RP!ClaimCommit(w) \/ RP!ClaimCommitLost(w)
    BY <1>1, <2>1 DEF RP!ClaimCommit, RP!ClaimCommitLost
  <2>2. CASE \E q \in Rows : RP!AckOwned(w, q) \/ RP!AckReplyLost(w, q)
    BY <1>2, <2>2 DEF RP!AckOwned, RP!AckReplyLost, RP!NextMessage
  <2>3. CASE \E q \in Rows, c \in Children, arrives, ok \in BOOLEAN :
               RP!PublishChild(w, q, c, arrives, ok)
    BY <2>3 DEF RP!PublishChild, RP!First
  <2>4. CASE RP!Release(w)
    BY <2>4 DEF RP!Release
  <2>5. CASE \E q \in Rows : RP!AckLeaseLost(w, q) \/ RP!AckError(w, q)
    BY <2>5 DEF RP!AckLeaseLost, RP!AckError, RP!NextMessage
  <2>6. CASE \/ RP!ClaimBegin(w) \/ (\E B \in SUBSET Rows : RP!ClaimSelect(w, B))
             \/ RP!AckBegin(w) \/ RP!RunOnceReturn(w) \/ RP!ClaimAbort(w) \/ RP!Crash(w)
    BY <2>6 DEF RP!ClaimBegin, RP!ClaimSelect, RP!AckBegin, RP!RunOnceReturn, RP!ClaimAbort,
                RP!Crash
  <2> QED
    BY <1>3, <2>1, <2>2, <2>3, <2>4, <2>5, <2>6 DEF RP!Step, RP!Disturb
<1>4. ASSUME NEW q \in Rows, RP!RequeueFailed(q)
      PROVE  (Present(r)' <=> Present(r)) /\ delivered' = delivered
  BY <1>4 DEF RP!RequeueFailed
<1>5. RP!Tick => (Present(r)' <=> Present(r)) /\ delivered' = delivered
  BY DEF RP!Tick
<1> QED
  BY <1>3, <1>4, <1>5, SameRelay DEF RelayStep

\* Every step keeps rows and events together.
LEMMA NextContents ==
  StoreFacts /\ CallsNumbered /\ RP!Inv /\ Contents /\ [Next]_vars => Contents'
<1> SUFFICES ASSUME StoreFacts, CallsNumbered, RP!Inv, Contents, [Next]_vars
             PROVE  Contents'
  OBVIOUS
<1>1. ASSUME NEW c \in Clients, Begin(c)
      PROVE  Contents'
  <2>1. UNCHANGED <<events, message, status, delivered>>
    BY <1>1 DEF Begin, S!Begin, S!tables, relayVars
  <2> QED
    BY <2>1 DEF Contents, Present
<1>2. CASE RelayStep
  <2>1. UNCHANGED <<events, message>>
    BY <1>2 DEF RelayStep, storeVars
  <2>2. \A r \in Rows : /\ Present(r)' <=> Present(r)
                        /\ ~Present(r) => delivered'[r] = delivered[r]
    BY <1>2, RowsStay
  <2> QED
    BY <2>1, <2>2 DEF Contents
<1>3. CASE UNCHANGED vars
  BY <1>3 DEF vars, storeVars, relayVars, Contents, Present
<1> QED
  BY <1>1, <1>2, <1>3, CallContents DEF Next

\* At first there are the events of the seed and no rows.
LEMMA InitContents == Init => Contents
<1>1. S!SeedEvents = SeedEvents
  BY DEF S!SeedEvents, SeedEvents, S!NewEvent, NewEvent, S!SeedRecords, SeedRecords
<1>2. \A e \in SeedEvents : e.type = "created"
  BY DEF SeedEvents, NewEvent
<1> QED
  BY <1>1, <1>2 DEF Init, S!Init, R!Init, Contents, Present

\* What holds of Pipeline whenever its parts stop between two steps.
Facts == StoreFacts /\ CallsNumbered /\ RP!Inv /\ Contents

\* All of this holds in every reachable state.
LEMMA AlwaysFacts == Spec => []Facts
BY InitContents, NextContents, AlwaysNumbered, RelayHolds, PTL DEF Spec, Facts

\* Nothing reaches the consumer that no transaction committed, for any calls, relays,
\* crashes and lost replies: a row is only there to be claimed once its transaction has
\* committed the event the row carries (OutboxRow, RunOnce).
THEOREM PublishedWasCommitted == Spec => []PublishedIsCommitted
<1>1. Facts => PublishedIsCommitted
  BY DEF Facts, Contents, PublishedIsCommitted
<1> QED
  BY <1>1, AlwaysFacts, PTL

-----------------------------------------------------------------------------
(* What the consumer ends up with. *)

\* When every row is sent the consumer has exactly the committed events.
LEMMA AllSeen ==
  ASSUME Facts, \A r \in Rows : status[r] \in {"absent", "sent"}
  PROVE  events \subseteq Seen /\ \A e \in Seen : e \in events \/ e = NoMessage
<1>1. \A r \in Rows : Present(r) => delivered[r] = Children /\ message[r] \in events
  BY DEF Facts, RP!Inv, RP!SentDelivered, Contents, Present
<1>2. \A r \in Rows : ~Present(r) => message[r] = NoMessage
  BY DEF Facts, Contents
<1>3. SeedEvents \subseteq events
  BY DEF Facts, Contents
<1> QED
  BY <1>1, <1>2, <1>3 DEF Facts, Contents, Seen

\* Of a record's events it keeps the one of the record's own version, which says what the
\* row says.
LEMMA NewestIsRow ==
  ASSUME Facts, \A r \in Rows : status[r] \in {"absent", "sent"},
         NEW m \in Mems, rec[m] # NoRec
  PROVE  Known(m) = {Versioned(rec[m])}
<1> DEFINE own == {e \in events : e.mid = m /\ e.type # "collapsed"}
           top == {f \in Seen : f.mid = m /\ \A g \in Seen : g.mid = m => g.ver <= f.ver}
<1>1. /\ {e.ver : e \in own} = 1..rec[m].ver /\ rec[m].ver \in Nat \ {0}
      /\ NoMem \notin Mems
  BY RecordsAssumption, StoreAssumed
  DEF Facts, StoreFacts, SP!VersionChain, SP!Inv, SP!TypeInv, SP!TypeOK, SP!Record,
      SP!RecordsAssumption
<1>2. \A e \in Seen : e.mid = m => e \in own
  BY <1>1, AllSeen DEF Facts, Contents, NoMessage
<1>3. \A e \in own : e \in Seen /\ e.mid = m /\ e.ver \in 1..rec[m].ver
  BY <1>1, AllSeen
<1>4. PICK e \in own : e.ver = rec[m].ver
  <2>1. rec[m].ver \in {e.ver : e \in own}
    BY <1>1
  <2> QED
    BY <2>1
<1>5. \A f \in own : f.ver = rec[m].ver => Versioned(rec[m]) = Versioned(f.snap)
  BY DEF Facts, StoreFacts, SP!HistoryExplains, Versioned
<1>6. e \in top /\ \A f \in top : f \in own /\ f.ver = rec[m].ver
  BY <1>1, <1>2, <1>3, <1>4
<1>7. Known(m) = {Versioned(f.snap) : f \in top}
  BY DEF Known
<1> HIDE DEF own, top
<1> QED
  BY <1>4, <1>5, <1>6, <1>7

\* A consumer that keeps the newest version it was sent ends up with the table's records,
\* in whatever order and however often the rows were published: every committed event is
\* in a row, a sent row was delivered, versions are numbered without gap, and the event of
\* a record's version describes the row (mutateRecordTx, RunOnce, Ack).
THEOREM ConsumerAlwaysConverges == Spec => []ConsumerConverges
<1>1. Facts => ConsumerConverges
  BY NewestIsRow DEF ConsumerConverges
<1> QED
  BY <1>1, AlwaysFacts, PTL

-----------------------------------------------------------------------------
(* The order of first publication. *)

\* Rows are numbered by their calls, and a call saw only rows of calls before it.
Starts ==
  /\ before \in [Rows -> SUBSET Rows]
  /\ \A s \in Rows : /\ Present(s) => s <= ops
                     /\ \A r \in before[s] : r < s /\ Present(r)

\* While a relay runs the ones that come after it have not begun.
OneRelay == \A v, w \in Workers : v < w /\ wpc[v] # "down" => wpc[w] = "idle"

\* A row that was never claimed is there to be claimed.
Waiting == \A r \in Rows : r \notin tried => status[r] \in {"absent", "pending"}

\* A claim takes no row without those its transaction saw, unless they were claimed before.
InOrder ==
  \A w \in Workers : \A s \in todo[w] :
    /\ wpc[w] \in {"publish", "acking"} => before[s] \subseteq tried
    /\ wpc[w] = "selected" => before[s] \subseteq tried \cup todo[w]

OrderInv == Starts /\ OneRelay /\ Waiting /\ InOrder /\ CausalOrder

\* Only a commit touches before or the rows; what a call does leaves the workers alone.
LEMMA CallOrder ==
  ASSUME Facts, OrderInv, NEW c \in Clients, Begin(c) \/ ClientStep(c)
  PROVE  OrderInv'
<1> USE DEF Present
<1>1. /\ SP!TypeOK /\ ops \in Nat /\ ops' \in Nat /\ ops <= ops' /\ MaxOps \in Nat
      /\ status \in [Rows -> RP!Statuses] /\ todo \in [Workers -> SUBSET Rows]
      /\ RP!TodoInv
  <2>1. SP!TypeOK /\ RP!TypeOK /\ RP!TodoInv
    BY DEF Facts, StoreFacts, SP!Inv, SP!TypeInv, RP!Inv
  <2>2. ClientStep(c) => ops' = ops
    BY <2>1, SameCalls, StepIsCalled DEF ClientStep
  <2>3. Begin(c) => ops' = ops + 1
    BY DEF Begin, S!Begin
  <2> QED
    BY <2>1, <2>2, <2>3, PipelineAssumption DEF SP!TypeOK, RP!TypeOK
<1>2. CASE Begin(c)
  <2>1. /\ UNCHANGED <<status, wpc, todo, delivered, tried>> /\ ops' = ops + 1
        /\ before' = [before EXCEPT ![ops'] = {r \in Rows : status[r] # "absent"}]
    BY <1>2 DEF Begin, S!Begin, relayVars
  <2>2. \A s \in Rows : Present(s) => before'[s] = before[s] /\ s < ops'
    BY <1>1, <2>1 DEF OrderInv, Starts, Rows
  <2>3. Starts'
    <3>1. before' \in [Rows -> SUBSET Rows]
      BY <2>1 DEF OrderInv, Starts
    <3>2. \A s \in Rows : s # ops' => before'[s] = before[s]
      BY <2>1 DEF OrderInv, Starts
    <3>3. ops' \in Rows => before'[ops'] = {r \in Rows : status[r] # "absent"}
      BY <2>1 DEF OrderInv, Starts
    <3> QED
      BY <1>1, <2>1, <2>2, <3>1, <3>2, <3>3 DEF OrderInv, Starts, Rows
  <2>4. \A s \in Rows : delivered[s] # {} => Present(s)
    BY DEF Facts, Contents
  <2>5. \A w \in Workers : \A s \in todo[w] : s \in Rows /\ Present(s)
    BY <1>1 DEF RP!TodoInv
  <2> QED
    BY <2>1, <2>2, <2>3, <2>4, <2>5 DEF OrderInv, OneRelay, Waiting, InOrder, CausalOrder
<1>3. CASE ClientStep(c)
  <2>1. UNCHANGED <<before, tried>>
    BY <1>3 DEF ClientStep
  <2>2. CASE UNCHANGED relayVars
    BY <1>1, <2>1, <2>2 DEF relayVars, OrderInv, Starts, OneRelay, Waiting, InOrder, CausalOrder, Rows
  <2>3. CASE began[c] \in Rows /\ R!EnqueueOutbox(began[c])
    <3>1. PICK b \in Rows : b = began[c]
      BY <2>3
    <3>2. /\ status' = [status EXCEPT ![b] = "pending"]
          /\ UNCHANGED <<wpc, todo, delivered>>
      BY <2>3, <3>1 DEF R!EnqueueOutbox, R!run
    <3>3. b <= ops'
      BY <1>1, <3>1 DEF Facts, CallsNumbered
    <3>4. Starts'
      BY <1>1, <2>1, <3>2, <3>3 DEF OrderInv, Starts, Rows
    <3> QED
      BY <1>1, <2>1, <3>2, <3>4 DEF OrderInv, OneRelay, Waiting, InOrder, CausalOrder
  <2> QED
    BY <1>1, <1>3, <2>2, <2>3, CallEnqueues DEF Facts
<1> QED
  BY <1>2, <1>3

\* What a worker's step leaves to the others, and what it counts.
LEMMA StepOfWorker ==
  ASSUME RP!TypeOK, NEW w \in Workers, RP!Step(w) \/ RP!Disturb(w)
  PROVE  /\ wpc[w] # "down"
         /\ \A v \in Workers \ {w} : wpc'[v] = wpc[v] /\ todo'[v] = todo[v]
<1> USE DEF RP!TypeOK, RP!run, RP!DropRun, RP!NextMessage
<1>1. CASE RP!ClaimCommit(w) \/ RP!ClaimCommitLost(w) \/ RP!Release(w) \/ RP!Crash(w)
  BY <1>1 DEF RP!ClaimCommit, RP!ClaimCommitLost, RP!GrantLeases, RP!Release, RP!Crash
<1>2. CASE \E r \in Rows : RP!AckOwned(w, r) \/ RP!AckReplyLost(w, r)
  BY <1>2 DEF RP!AckOwned, RP!AckReplyLost, RP!AckReady
<1>3. CASE \E r \in Rows : RP!AckLeaseLost(w, r) \/ RP!AckError(w, r)
  BY <1>3 DEF RP!AckLeaseLost, RP!AckError, RP!AckReady
<1>4. CASE \E r \in Rows, c \in Children, arrives, ok \in BOOLEAN :
             RP!PublishChild(w, r, c, arrives, ok)
  BY <1>4 DEF RP!PublishChild
<1>5. CASE \/ RP!ClaimBegin(w) \/ (\E B \in SUBSET Rows : RP!ClaimSelect(w, B))
           \/ RP!AckBegin(w) \/ RP!RunOnceReturn(w) \/ RP!ClaimAbort(w)
  BY <1>5 DEF RP!ClaimBegin, RP!ClaimSelect, RP!AckBegin, RP!RunOnceReturn, RP!ClaimAbort
<1> QED
  BY <1>1, <1>2, <1>3, <1>4, <1>5 DEF RP!Step, RP!Disturb

\* Everything a transaction saw and the relay never claimed is due when its row is: a
\* batch with the row has the others too, as created_at orders it.
LEMMA ClaimInOrder ==
  ASSUME Facts, OrderInv, NEW w \in Workers, Replica(w), NEW B \in SUBSET Rows,
         RP!ClaimSelect(w, B), NEW s \in B
  PROVE  before[s] \subseteq tried \cup B
<1> SUFFICES ASSUME NEW r \in before[s], r \notin tried
             PROVE  r \in B
  OBVIOUS
<1>1. /\ wpc[w] = "begun" /\ r \in Rows /\ s \in Rows /\ r < s
      /\ status[r] = "pending" /\ lockedBy[r] \in Workers \cup {NoWorker}
  BY DEF OrderInv, Starts, Waiting, Present, RP!ClaimSelect, Facts, RP!Inv, RP!TypeOK
<1>2. lockedBy[r] \notin Workers
  <2> SUFFICES ASSUME NEW v \in Workers, lockedBy[r] = v
               PROVE  FALSE
    OBVIOUS
  <2>1. wpc[v] = "selected"
    BY <1>1 DEF Facts, RP!Inv, RP!LockInv
  <2>2. v \in Nat /\ w \in Nat /\ v # w
    BY <1>1, <2>1, PipelineAssumption
  <2>3. ~(v < w)
    BY <2>1 DEF Replica
  <2>4. ~(w < v)
    BY <1>1, <2>1 DEF OrderInv, OneRelay
  <2> QED
    BY <2>2, <2>3, <2>4
<1>3. RP!Claimable(w, r)
  BY <1>1, <1>2 DEF RP!Claimable
<1>4. \A q \in Rows : RP!Claimable(w, q) /\ q \notin B => s < q
  BY DEF RP!ClaimSelect, RP!IsBatch
<1> QED
  BY <1>1, <1>3, <1>4 DEF Rows

\* No step of a worker publishes a row before what its transaction saw was claimed.
LEMMA WorkerOrder ==
  ASSUME Facts, OrderInv, RelayStep, NEW w \in Workers, Replica(w),
         RP!Step(w) \/ RP!Disturb(w)
  PROVE  InOrder' /\ CausalOrder'
<1> USE DEF RP!run, RP!DropRun, RP!NextMessage
<1>1. /\ RP!TypeOK /\ RP!LockInv /\ UNCHANGED before
      /\ tried' = tried \cup {r \in Rows : attempts'[r] > attempts[r]}
  BY DEF Facts, RP!Inv, RelayStep
<1>2. \A v \in Workers \ {w} : wpc'[v] = wpc[v] /\ todo'[v] = todo[v]
  BY <1>1, StepOfWorker
<1> DEFINE Mine == \A s \in todo'[w] :
             /\ wpc'[w] \in {"publish", "acking"} => before[s] \subseteq tried'
             /\ wpc'[w] = "selected" => before[s] \subseteq tried' \cup todo'[w]
           Old == \A s \in todo[w] :
             /\ wpc[w] \in {"publish", "acking"} => before[s] \subseteq tried
             /\ wpc[w] = "selected" => before[s] \subseteq tried \cup todo[w]
<1>3. Mine => InOrder'
  BY <1>1, <1>2 DEF InOrder, OrderInv
<1>4. Old
  BY DEF InOrder, OrderInv
<1>5. delivered' = delivered => CausalOrder'
  BY <1>1 DEF CausalOrder, OrderInv
<1> USE DEF RP!TypeOK
<1>6. CASE RP!ClaimCommit(w)
  <2>1. todo[w] \subseteq tried' /\ todo' = todo /\ wpc[w] = "selected"
        /\ delivered' = delivered
    BY <1>1, <1>6 DEF RP!ClaimCommit, RP!GrantLeases
  <2> QED
    BY <1>1, <1>3, <1>4, <1>5, <2>1
<1>7. CASE \E B \in SUBSET Rows : RP!ClaimSelect(w, B)
  <2>1. PICK B \in SUBSET Rows : RP!ClaimSelect(w, B)
    BY <1>7
  <2>2. /\ todo'[w] = B /\ wpc'[w] \in {"idle", "selected"} /\ delivered' = delivered
    BY <1>1, <2>1 DEF RP!ClaimSelect
  <2>3. \A s \in B : before[s] \subseteq tried \cup B
    BY <2>1, ClaimInOrder
  <2> QED
    BY <1>1, <1>3, <1>5, <2>2, <2>3
<1>8. CASE \E r \in Rows, c \in Children, arrives, ok \in BOOLEAN :
             RP!PublishChild(w, r, c, arrives, ok)
  <2>1. PICK r \in Rows : /\ wpc[w] = "publish" /\ r \in todo[w] /\ UNCHANGED <<wpc, todo>>
                          /\ \A s \in Rows \ {r} : delivered'[s] = delivered[s]
    BY <1>1, <1>8 DEF RP!PublishChild, RP!First
  <2>2. before[r] \subseteq tried
    BY <1>4, <2>1
  <2>3. CausalOrder'
    BY <1>1, <2>1, <2>2 DEF CausalOrder, OrderInv
  <2> QED
    BY <1>1, <1>3, <1>4, <2>1, <2>3
<1>9. CASE \E r \in Rows : \/ RP!AckOwned(w, r) \/ RP!AckReplyLost(w, r)
                           \/ RP!AckLeaseLost(w, r) \/ RP!AckError(w, r)
  <2>1. /\ wpc[w] = "acking" /\ todo'[w] \subseteq todo[w] /\ wpc'[w] = "publish"
        /\ delivered' = delivered
    BY <1>1, <1>9 DEF RP!AckOwned, RP!AckReplyLost, RP!AckLeaseLost, RP!AckError, RP!AckReady
  <2> QED
    BY <1>1, <1>3, <1>4, <1>5, <2>1
<1>10. CASE RP!AckBegin(w) \/ RP!Release(w)
  <2>1. /\ todo' = todo /\ delivered' = delivered
        /\ wpc' = wpc \/ (wpc[w] = "publish" /\ wpc'[w] = "acking")
    BY <1>1, <1>10 DEF RP!AckBegin, RP!Release
  <2> QED
    BY <1>1, <1>3, <1>4, <1>5, <2>1
<1>11. CASE \/ RP!ClaimBegin(w) \/ RP!RunOnceReturn(w) \/ RP!ClaimAbort(w)
            \/ RP!ClaimCommitLost(w) \/ RP!Crash(w)
  <2>1. /\ wpc'[w] \in {"begun", "idle", "down"} /\ delivered' = delivered
    BY <1>1, <1>11 DEF RP!ClaimBegin, RP!RunOnceReturn, RP!ClaimAbort, RP!ClaimCommitLost,
                      RP!GrantLeases, RP!Crash
  <2> QED
    BY <1>3, <1>5, <2>1
<1> QED
  BY <1>6, <1>7, <1>8, <1>9, <1>10, <1>11 DEF RP!Step, RP!Disturb

\* A row that leaves "pending" has been claimed.
LEMMA RelayWaiting ==
  ASSUME Facts, OrderInv, RelayStep
  PROVE  Waiting'
<1> USE DEF RP!TypeOK, RP!table, RP!run
<1>1. /\ RP!TypeOK /\ RP!LeaseColumns /\ NoWorker \notin Workers
      /\ tried' = tried \cup {r \in Rows : attempts'[r] > attempts[r]}
  BY PipelineAssumption DEF Facts, RP!Inv, RelayStep
<1> SUFFICES ASSUME NEW r \in Rows, r \notin tried', status'[r] # status[r]
             PROVE  status'[r] \in {"absent", "pending"}
  BY <1>1 DEF OrderInv, Waiting
<1>2. status[r] \in {"absent", "pending"} /\ ~(attempts'[r] > attempts[r])
  BY <1>1 DEF OrderInv, Waiting
<1>3. ASSUME NEW w \in Workers, RP!GrantLeases(w)
      PROVE  FALSE
  BY <1>1, <1>2, <1>3 DEF RP!GrantLeases
<1>4. ASSUME NEW w \in Workers, NEW q \in Rows, RP!AckUpdate(w, q)
      PROVE  FALSE
  BY <1>1, <1>2, <1>4 DEF RP!AckUpdate, RP!Owns, RP!LeaseColumns
<1>5. ASSUME NEW w \in Workers, RP!Release(w)
      PROVE  status'[r] = "pending"
  BY <1>1, <1>5 DEF RP!Release
<1>6. ASSUME NEW q \in Rows, RP!RequeueFailed(q)
      PROVE  status'[r] = "pending"
  BY <1>1, <1>6 DEF RP!RequeueFailed
<1>7. ASSUME NEW w \in Workers, RP!Step(w) \/ RP!Disturb(w)
      PROVE  status'[r] \in {"absent", "pending"}
  <2>1. CASE \/ RP!ClaimBegin(w) \/ (\E B \in SUBSET Rows : RP!ClaimSelect(w, B))
             \/ RP!AckBegin(w) \/ RP!RunOnceReturn(w) \/ RP!ClaimAbort(w) \/ RP!Crash(w)
    BY <2>1 DEF RP!ClaimBegin, RP!ClaimSelect, RP!AckBegin, RP!RunOnceReturn,
                RP!ClaimAbort, RP!Crash
  <2>2. CASE \E q \in Rows : \/ RP!AckLeaseLost(w, q) \/ RP!AckError(w, q)
                             \/ \E c \in Children, arrives, ok \in BOOLEAN :
                                  RP!PublishChild(w, q, c, arrives, ok)
    BY <2>2 DEF RP!AckLeaseLost, RP!AckError, RP!PublishChild
  <2> QED
    BY <1>3, <1>4, <1>5, <1>7, <2>1, <2>2
    DEF RP!Step, RP!Disturb, RP!ClaimCommit, RP!ClaimCommitLost, RP!AckOwned, RP!AckReplyLost
<1> QED
  BY <1>6, <1>7, SameRelay DEF RelayStep, RP!Tick

\* Every step keeps the order.
LEMMA NextOrder == Facts /\ OrderInv /\ [Next]_vars => OrderInv'
<1> SUFFICES ASSUME Facts, OrderInv, [Next]_vars
             PROVE  OrderInv'
  OBVIOUS
<1>1. CASE RelayStep
  <2>1. RP!TypeOK /\ UNCHANGED <<before, ops>> /\ tried \subseteq tried' /\ RP!Inv
    BY <1>1 DEF Facts, RP!Inv, RelayStep, storeVars
  <2>2. Starts'
    <3>1. \A r \in Rows : Present(r)' <=> Present(r)
      BY <1>1, <2>1, RowsStay
    <3> QED
      BY <2>1, <3>1 DEF OrderInv, Starts
  <2>3. ASSUME NEW w \in Workers, Replica(w), RP!Step(w) \/ RP!Disturb(w)
        PROVE  OneRelay' /\ InOrder' /\ CausalOrder'
    <3>1. /\ wpc[w] # "down" /\ \A v \in Workers \ {w} : wpc'[v] = wpc[v]
      BY <2>1, <2>3, StepOfWorker
    <3>2. OneRelay'
      BY <2>3, <3>1 DEF Replica, OrderInv, OneRelay
    <3> QED
      BY <1>1, <2>3, <3>2, WorkerOrder
  <2>4. ASSUME UNCHANGED <<wpc, todo, delivered>>
        PROVE  OneRelay' /\ InOrder' /\ CausalOrder'
    <3>1. OneRelay'
      BY <2>4 DEF OrderInv, OneRelay
    <3>2. InOrder'
      <4> SUFFICES ASSUME NEW w \in Workers, NEW s \in todo[w]
                   PROVE  /\ wpc[w] \in {"publish", "acking"} => before[s] \subseteq tried'
                          /\ wpc[w] = "selected" => before[s] \subseteq tried' \cup todo[w]
        BY <2>1, <2>4 DEF InOrder
      <4> QED
        BY <2>1 DEF OrderInv, InOrder
    <3>3. CausalOrder'
      BY <2>1, <2>4 DEF OrderInv, CausalOrder
    <3> QED
      BY <3>1, <3>2, <3>3
  <2>5. (\E r \in Rows : RP!RequeueFailed(r)) \/ RP!Tick => UNCHANGED <<wpc, todo, delivered>>
    BY DEF RP!RequeueFailed, RP!Tick, RP!run
  <2> QED
    BY <1>1, <2>2, <2>3, <2>4, <2>5, RelayWaiting, SameRelay DEF RelayStep, OrderInv
<1>2. CASE UNCHANGED vars
  BY <1>2 DEF vars, storeVars, relayVars, OrderInv, Starts, OneRelay, Waiting, InOrder,
              CausalOrder, Present
<1> QED
  BY <1>1, <1>2, CallOrder DEF Next

\* At first there is nothing to be out of order.
LEMMA InitOrder == Init => OrderInv
BY DEF Init, R!Init, OrderInv, Starts, OneRelay, Waiting, InOrder, CausalOrder, Present

\* A call that began after another one had committed is not published before the relay
\* claimed the other's row, for any batch size, crashes, lost leases and replies, as long as
\* one relay process runs at a time: created_at is the start of the transaction, and a claim
\* takes the due rows in that order (ClaimBatch).
THEOREM PublishedInOrder == Spec => []CausalOrder
<1>1. OrderInv => CausalOrder
  BY DEF OrderInv
<1> QED
  BY <1>1, InitOrder, NextOrder, AlwaysFacts, PTL DEF Spec

=============================================================================

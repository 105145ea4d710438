-------------------------------- MODULE Relay --------------------------------
(***************************************************************************)
(* The outbox table and the polling relay of postgres/relay.go: workers    *)
(* claim due rows under a lease, publish each one through a fan-out        *)
(* publisher and acknowledge the outcome, while the clock runs, workers    *)
(* crash, statements fail and operators requeue.                           *)
(*                                                                         *)
(* A row is named by the rank of its created_at, so ORDER BY created_at is *)
(* the order of the numbers.  lease_expires_at is kept as ttl: the time    *)
(* that is left until it on the database clock.  NOW() is fixed when a     *)
(* transaction begins, so a transaction that has been open for lag ticks   *)
(* reads lease_expires_at < NOW() as ttl < -lag.                           *)
(***************************************************************************)
EXTENDS Integers, FiniteSets

CONSTANTS
  Rows,            \* the outbox rows that are ever written
  Workers,         \* worker identities; a restarted process takes a new one
  NoWorker,        \* SQL NULL in claimed_by
  Children,        \* positions of the FanoutPublisher's children
  CfgBatchSize, CfgLeaseTTL, CfgMaxAttempts,  \* RelayConfig; TTL in microseconds
  MaxLag,          \* bound: clock ticks one transaction may stay open
  MaxFaults        \* bound: disturbances in one behaviour

ASSUME RelayAssumption ==
  /\ Rows \subseteq Nat /\ IsFiniteSet(Rows)
  /\ Children \subseteq Nat
  /\ NoWorker \notin Workers
  /\ CfgBatchSize \in Int /\ CfgLeaseTTL \in Int /\ CfgMaxAttempts \in Int
  /\ MaxLag \in Nat /\ MaxFaults \in Nat

\* NewRelay replaces what is not positive by the package default.
OrDefault(value, default) == IF value <= 0 THEN default ELSE value
BatchSize   == OrDefault(CfgBatchSize, 100)
MaxAttempts == OrDefault(CfgMaxAttempts, 5)
\* LeaseTTL.Milliseconds() truncates; a tick of the clock is a millisecond.
LeaseMillis == OrDefault(CfgLeaseTTL, 180000000) \div 1000

VARIABLES
  status, attempts, claimedBy, ttl, lastError,  \* columns of the outbox table
  lockedBy,   \* row locks of open claim transactions
  pc,         \* where each worker is in RunOnce
  lag,        \* ticks since NOW() of the worker's open transaction
  todo,       \* claimed rows the worker has not acknowledged yet
  att,        \* ClaimedMessage.AttemptCount of those rows
  pubLeft,    \* children the current Publish has not called yet
  pubErr,     \* a child of the current Publish has returned an error
  result,     \* RunStats of the current RunOnce, by row
  delivered,  \* children that have received the row's message
  faults      \* disturbances so far

table  == <<status, attempts, claimedBy, ttl, lastError>>
run    == <<todo, att, pubLeft, pubErr, result>>
vars   == <<status, attempts, claimedBy, ttl, lastError, lockedBy, pc, lag,
            todo, att, pubLeft, pubErr, result, delivered, faults>>

Statuses == {"absent", "pending", "processing", "sent", "failed"}
Phases   == {"idle", "begun", "selected", "publish", "acking", "down"}
Results  == {"none", "published", "failed", "leaselost", "error"}
InTx     == {"begun", "selected", "acking"}
Floor    == -(MaxLag + 1)

First(S, x) == x \in S /\ \A y \in S : x <= y
NoRows == [r \in Rows |-> 0]
NoResult == [r \in Rows |-> "none"]

Init ==
  /\ status = [r \in Rows |-> "absent"]
  /\ attempts = NoRows
  /\ claimedBy = [r \in Rows |-> NoWorker]
  /\ ttl = NoRows
  /\ lastError = [r \in Rows |-> FALSE]
  /\ lockedBy = [r \in Rows |-> NoWorker]
  /\ pc = [w \in Workers |-> "idle"]
  /\ lag = [w \in Workers |-> 0]
  /\ todo = [w \in Workers |-> {}]
  /\ att = [w \in Workers |-> NoRows]
  /\ pubLeft = [w \in Workers |-> Children]
  /\ pubErr = [w \in Workers |-> FALSE]
  /\ result = [w \in Workers |-> NoResult]
  /\ delivered = [r \in Rows |-> {}]
  /\ faults = 0

-----------------------------------------------------------------------------
\* A disturbance is a failed statement, a lost reply, a crash, a lease that runs
\* out in a live worker's hands, a Release or an operator's requeue.
Fault == faults < MaxFaults /\ faults' = faults + 1

\* A store transaction commits the row; commits need not follow created_at.
EnqueueOutbox(r) ==
  /\ status[r] = "absent"
  /\ status' = [status EXCEPT ![r] = "pending"]
  /\ UNCHANGED <<attempts, claimedBy, ttl, lastError, lockedBy, pc, lag, run,
                 delivered, faults>>

-----------------------------------------------------------------------------
\* ClaimBatch: BEGIN fixes NOW(); SELECT ... FOR UPDATE SKIP LOCKED locks the
\* batch; UPDATE and COMMIT grant the leases.

\* A mutant that forgets the expired-lease branch of the WHERE clause.
ClaimablePendingOnly(w, r) ==
  lockedBy[r] = NoWorker /\ status[r] = "pending"

\* A mutant that does not look at the deadline of a lease.
ClaimableIgnoringLease(w, r) ==
  lockedBy[r] = NoWorker /\ status[r] \in {"pending", "processing"}

Claimable(w, r) ==
  /\ lockedBy[r] = NoWorker
  /\ \/ status[r] = "pending"
     \/ status[r] = "processing" /\ ttl[r] < -lag[w]

\* A mutant without ORDER BY.
IsBatchAnyOrder(w, B) ==
  LET due == {r \in Rows : Claimable(w, r)}
  IN  /\ B \subseteq due
      /\ Cardinality(B) <= BatchSize
      /\ B # due => Cardinality(B) = BatchSize

\* ORDER BY created_at LIMIT BatchSize.
IsBatch(w, B) ==
  LET due == {r \in Rows : Claimable(w, r)}
  IN  /\ B \subseteq due
      /\ Cardinality(B) <= BatchSize
      /\ B # due => Cardinality(B) = BatchSize
      /\ \A r \in B, q \in due \ B : r < q

ClaimBegin(w) ==
  /\ pc[w] = "idle"
  /\ pc' = [pc EXCEPT ![w] = "begun"]
  /\ UNCHANGED <<table, lockedBy, lag, run, delivered, faults>>

\* A mutant whose ClaimedMessage carries the count before the increment.
ClaimSelectStaleCount(w, B) ==
  /\ pc[w] = "begun"
  /\ IsBatch(w, B)
  /\ lockedBy' = [r \in Rows |-> IF r \in B THEN w ELSE lockedBy[r]]
  /\ todo' = [todo EXCEPT ![w] = B]
  /\ att' = [att EXCEPT ![w] = [r \in Rows |-> IF r \in B THEN attempts[r] ELSE 0]]
  /\ pc' = [pc EXCEPT ![w] = IF B = {} THEN "idle" ELSE "selected"]
  /\ lag' = [lag EXCEPT ![w] = IF B = {} THEN 0 ELSE lag[w]]
  /\ UNCHANGED <<table, pubLeft, pubErr, result, delivered, faults>>

\* An empty batch commits at once; the AttemptCount handed to RunOnce is the
\* count that was read, plus one.
ClaimSelect(w, B) ==
  /\ pc[w] = "begun"
  /\ IsBatch(w, B)
  /\ lockedBy' = [r \in Rows |-> IF r \in B THEN w ELSE lockedBy[r]]
  /\ todo' = [todo EXCEPT ![w] = B]
  /\ att' = [att EXCEPT ![w] = [r \in Rows |-> IF r \in B THEN attempts[r] + 1 ELSE 0]]
  /\ pc' = [pc EXCEPT ![w] = IF B = {} THEN "idle" ELSE "selected"]
  /\ lag' = [lag EXCEPT ![w] = IF B = {} THEN 0 ELSE lag[w]]
  /\ UNCHANGED <<table, pubLeft, pubErr, result, delivered, faults>>

\* UPDATE ... WHERE outbox_id = ANY(ids), then COMMIT, which drops the locks.
GrantLeases(w) ==
  /\ pc[w] = "selected"
  /\ status' = [r \in Rows |-> IF r \in todo[w] THEN "processing" ELSE status[r]]
  /\ claimedBy' = [r \in Rows |-> IF r \in todo[w] THEN w ELSE claimedBy[r]]
  /\ ttl' = [r \in Rows |-> IF r \in todo[w] THEN LeaseMillis - lag[w] ELSE ttl[r]]
  /\ attempts' = [r \in Rows |-> IF r \in todo[w] THEN attempts[r] + 1 ELSE attempts[r]]
  /\ lockedBy' = [r \in Rows |-> IF r \in todo[w] THEN NoWorker ELSE lockedBy[r]]
  /\ lag' = [lag EXCEPT ![w] = 0]
  /\ UNCHANGED <<lastError, pubLeft, pubErr, result, delivered>>

ClaimCommit(w) ==
  /\ GrantLeases(w)
  /\ pc' = [pc EXCEPT ![w] = "publish"]
  /\ UNCHANGED <<todo, att, faults>>

\* RunOnce returns ClaimBatch's error and the batch is forgotten.
DropRun(w) ==
  /\ todo' = [todo EXCEPT ![w] = {}]
  /\ att' = [att EXCEPT ![w] = NoRows]

\* COMMIT took effect but its reply was lost.
ClaimCommitLost(w) ==
  /\ Fault
  /\ GrantLeases(w)
  /\ pc' = [pc EXCEPT ![w] = "idle"]
  /\ DropRun(w)

\* A statement of the claim fails: deferred Rollback frees the locks.
ClaimAbort(w) ==
  /\ Fault
  /\ pc[w] \in {"begun", "selected"}
  /\ lockedBy' = [r \in Rows |-> IF lockedBy[r] = w THEN NoWorker ELSE lockedBy[r]]
  /\ pc' = [pc EXCEPT ![w] = "idle"]
  /\ lag' = [lag EXCEPT ![w] = 0]
  /\ DropRun(w)
  /\ UNCHANGED <<table, pubLeft, pubErr, result, delivered>>

-----------------------------------------------------------------------------
\* RunOnce publishes the first row that is left; FanoutPublisher calls every
\* child in turn and joins their errors.

\* A mutant that keeps the last child's error instead of joining them.
PublishChildLastError(w, r, c, arrives, ok) ==
  /\ pc[w] = "publish" /\ First(todo[w], r) /\ First(pubLeft[w], c)
  /\ ok => arrives
  /\ delivered' = [delivered EXCEPT ![r] = IF arrives THEN @ \cup {c} ELSE @]
  /\ pubErr' = [pubErr EXCEPT ![w] = ~ok]
  /\ pubLeft' = [pubLeft EXCEPT ![w] = @ \ {c}]
  /\ UNCHANGED <<table, lockedBy, pc, lag, todo, att, result, faults>>

\* A child that returns an error may have handled the message all the same.
PublishChild(w, r, c, arrives, ok) ==
  /\ pc[w] = "publish" /\ First(todo[w], r) /\ First(pubLeft[w], c)
  /\ ok => arrives
  /\ delivered' = [delivered EXCEPT ![r] = IF arrives THEN @ \cup {c} ELSE @]
  /\ pubErr' = [pubErr EXCEPT ![w] = @ \/ ~ok]
  /\ pubLeft' = [pubLeft EXCEPT ![w] = @ \ {c}]
  /\ UNCHANGED <<table, lockedBy, pc, lag, todo, att, result, faults>>

\* Publish has returned; Ack's single statement starts and fixes NOW().
AckBegin(w) ==
  /\ pc[w] = "publish" /\ todo[w] # {} /\ pubLeft[w] = {}
  /\ pc' = [pc EXCEPT ![w] = "acking"]
  /\ UNCHANGED <<table, lockedBy, lag, run, delivered, faults>>

\* A mutant of the ownership predicate without claimed_by = $2.
OwnsAnyLease(w, r) == claimedBy[r] # NoWorker /\ ttl[r] > -lag[w]

\* WHERE outbox_id = $1 AND claimed_by = $2 AND lease_expires_at > NOW()
Owns(w, r) == claimedBy[r] = w /\ ttl[r] > -lag[w]

\* A mutant that gives up one attempt early.
AckStatusEarly(ok, attempt) ==
  IF ok THEN "sent" ELSE IF attempt + 1 >= MaxAttempts THEN "failed" ELSE "pending"

\* A mutant with a status constant no query knows.
AckStatusTypo(ok, attempt) ==
  IF ok THEN "send" ELSE IF attempt >= MaxAttempts THEN "failed" ELSE "pending"

AckStatus(ok, attempt) ==
  IF ok THEN "sent" ELSE IF attempt >= MaxAttempts THEN "failed" ELSE "pending"

\* The UPDATE waits while a claim transaction holds the row.
AckReady(w, r) == pc[w] = "acking" /\ First(todo[w], r) /\ lockedBy[r] = NoWorker

AckUpdate(w, r) ==
  /\ Owns(w, r)
  /\ status' = [status EXCEPT ![r] = AckStatus(~pubErr[w], att[w][r])]
  /\ claimedBy' = [claimedBy EXCEPT ![r] = NoWorker]
  /\ ttl' = [ttl EXCEPT ![r] = 0]
  /\ lastError' = [lastError EXCEPT ![r] = pubErr[w]]
  /\ UNCHANGED attempts

\* RunOnce books the outcome and moves on to the next row.
NextMessage(w, r, outcome) ==
  /\ result' = [result EXCEPT ![w][r] = outcome]
  /\ todo' = [todo EXCEPT ![w] = @ \ {r}]
  /\ att' = [att EXCEPT ![w][r] = 0]
  /\ pubLeft' = [pubLeft EXCEPT ![w] = Children]
  /\ pubErr' = [pubErr EXCEPT ![w] = FALSE]
  /\ pc' = [pc EXCEPT ![w] = "publish"]
  /\ lag' = [lag EXCEPT ![w] = 0]
  /\ UNCHANGED <<lockedBy, delivered>>

AckOwned(w, r) ==
  /\ AckReady(w, r)
  /\ AckUpdate(w, r)
  /\ NextMessage(w, r, IF pubErr[w] THEN "failed" ELSE "published")
  /\ UNCHANGED faults

\* A mutant that counts a row as published because its publish was.
AckLeaseLostCounted(w, r) ==
  /\ AckReady(w, r)
  /\ ~Owns(w, r)
  /\ NextMessage(w, r, IF pubErr[w] THEN "leaselost" ELSE "published")
  /\ UNCHANGED <<table, faults>>

\* Zero rows affected: ErrLeaseLost, and the row is left alone.
AckLeaseLost(w, r) ==
  /\ AckReady(w, r)
  /\ ~Owns(w, r)
  /\ NextMessage(w, r, "leaselost")
  /\ UNCHANGED <<table, faults>>

\* The UPDATE fails; the error is collected and the loop goes on.
AckError(w, r) ==
  /\ Fault
  /\ pc[w] = "acking" /\ First(todo[w], r)
  /\ NextMessage(w, r, "error")
  /\ UNCHANGED table

\* The UPDATE took effect but its reply was lost.
AckReplyLost(w, r) ==
  /\ Fault
  /\ AckReady(w, r)
  /\ AckUpdate(w, r)
  /\ NextMessage(w, r, "error")

\* The loop is over: RunOnce returns its stats to the caller.
RunOnceReturn(w) ==
  /\ pc[w] = "publish" /\ todo[w] = {}
  /\ pc' = [pc EXCEPT ![w] = "idle"]
  /\ result' = [result EXCEPT ![w] = NoResult]
  /\ UNCHANGED <<table, lockedBy, lag, todo, att, pubLeft, pubErr, delivered, faults>>

-----------------------------------------------------------------------------
\* A mutant that flips the rows back but leaves claimed_by in place.
ReleaseKeepsOwner(w) ==
  LET owned == {r \in Rows : claimedBy[r] = w /\ status[r] = "processing"}
  IN  /\ Fault
      /\ pc[w] # "down" /\ owned # {}
      /\ \A r \in owned : lockedBy[r] = NoWorker
      /\ status' = [r \in Rows |-> IF r \in owned THEN "pending" ELSE status[r]]
      /\ UNCHANGED <<attempts, claimedBy, ttl, lastError, lockedBy, pc, lag, run,
                     delivered>>

\* Release may run beside the worker's own RunOnce (shutdown).
Release(w) ==
  LET owned == {r \in Rows : claimedBy[r] = w /\ status[r] = "processing"}
  IN  /\ Fault
      /\ pc[w] # "down" /\ owned # {}
      /\ \A r \in owned : lockedBy[r] = NoWorker
      /\ status' = [r \in Rows |-> IF r \in owned THEN "pending" ELSE status[r]]
      /\ claimedBy' = [r \in Rows |-> IF r \in owned THEN NoWorker ELSE claimedBy[r]]
      /\ ttl' = [r \in Rows |-> IF r \in owned THEN 0 ELSE ttl[r]]
      /\ UNCHANGED <<attempts, lastError, lockedBy, pc, lag, run, delivered>>

\* The process dies.  Its transaction is rolled back, its leases stay; the
\* process that replaces it is another member of Workers.
Crash(w) ==
  /\ Fault
  /\ pc[w] # "down"
  /\ lockedBy' = [r \in Rows |-> IF lockedBy[r] = w THEN NoWorker ELSE lockedBy[r]]
  /\ pc' = [pc EXCEPT ![w] = "down"]
  /\ lag' = [lag EXCEPT ![w] = 0]
  /\ pubLeft' = [pubLeft EXCEPT ![w] = Children]
  /\ pubErr' = [pubErr EXCEPT ![w] = FALSE]
  /\ result' = [result EXCEPT ![w] = NoResult]
  /\ DropRun(w)
  /\ UNCHANGED <<table, delivered>>

\* A mutant without AND status = 'failed'.
RequeueAny(r) ==
  /\ Fault
  /\ status[r] # "absent"
  /\ status' = [status EXCEPT ![r] = "pending"]
  /\ attempts' = [attempts EXCEPT ![r] = 0]
  /\ lastError' = [lastError EXCEPT ![r] = FALSE]
  /\ claimedBy' = [claimedBy EXCEPT ![r] = NoWorker]
  /\ ttl' = [ttl EXCEPT ![r] = 0]
  /\ UNCHANGED <<lockedBy, pc, lag, run, delivered>>

RequeueFailed(r) ==
  /\ Fault
  /\ status[r] = "failed"
  /\ status' = [status EXCEPT ![r] = "pending"]
  /\ attempts' = [attempts EXCEPT ![r] = 0]
  /\ lastError' = [lastError EXCEPT ![r] = FALSE]
  /\ claimedBy' = [claimedBy EXCEPT ![r] = NoWorker]
  /\ ttl' = [ttl EXCEPT ![r] = 0]
  /\ UNCHANGED <<lockedBy, pc, lag, run, delivered>>

\* A lease is about to run out while its worker still has the row to publish.
HeldLeaseEnds ==
  \E r \in Rows : \E w \in Workers : claimedBy[r] = w /\ r \in todo[w] /\ ttl[r] = 1

\* The database clock.
Tick ==
  /\ \A w \in Workers : pc[w] \in InTx => lag[w] < MaxLag
  /\ IF HeldLeaseEnds THEN Fault ELSE UNCHANGED faults
  /\ ttl' = [r \in Rows |-> IF claimedBy[r] # NoWorker /\ ttl[r] > Floor
                            THEN ttl[r] - 1 ELSE ttl[r]]
  /\ lag' = [w \in Workers |-> IF pc[w] \in InTx THEN lag[w] + 1 ELSE lag[w]]
  /\ UNCHANGED <<status, attempts, claimedBy, lastError, lockedBy, pc, run, delivered>>

-----------------------------------------------------------------------------
\* What a worker does as long as nothing goes wrong.
Step(w) ==
  \/ ClaimBegin(w)
  \/ \E B \in SUBSET Rows : ClaimSelect(w, B)
  \/ ClaimCommit(w)
  \/ \E r \in Rows, c \in Children, arrives, ok \in BOOLEAN :
       PublishChild(w, r, c, arrives, ok)
  \/ AckBegin(w)
  \/ \E r \in Rows : AckOwned(w, r) \/ AckLeaseLost(w, r)
  \/ RunOnceReturn(w)

Disturb(w) ==
  \/ ClaimCommitLost(w) \/ ClaimAbort(w) \/ Release(w) \/ Crash(w)
  \/ \E r \in Rows : AckError(w, r) \/ AckReplyLost(w, r)

Next ==
  \/ \E w \in Workers : Step(w) \/ Disturb(w)
  \/ \E r \in Rows : EnqueueOutbox(r) \/ RequeueFailed(r)
  \/ Tick

Spec == Init /\ [][Next]_vars

\* Workers poll for ever and the clock runs; callers, operators, crashes and
\* errors are not assumed to happen.
FairSpec == Spec /\ WF_vars(Tick) /\ \A w \in Workers : WF_vars(Step(w))

-----------------------------------------------------------------------------
(***************************************************************************)
(* Properties.                                                             *)
(***************************************************************************)

\* Every variable stays in its type: no statement of the relay writes a status
\* the claim query does not know (models.go's outboxStatus constants).
TypeOK ==
  /\ status \in [Rows -> Statuses]
  /\ attempts \in [Rows -> Nat]
  /\ claimedBy \in [Rows -> Workers \cup {NoWorker}]
  /\ ttl \in [Rows -> Int]
  /\ lastError \in [Rows -> BOOLEAN]
  /\ lockedBy \in [Rows -> Workers \cup {NoWorker}]
  /\ pc \in [Workers -> Phases]
  /\ lag \in [Workers -> Nat]
  /\ todo \in [Workers -> SUBSET Rows]
  /\ att \in [Workers -> [Rows -> Nat]]
  /\ pubLeft \in [Workers -> SUBSET Children]
  /\ pubErr \in [Workers -> BOOLEAN]
  /\ result \in [Workers -> [Rows -> Results]]
  /\ delivered \in [Rows -> SUBSET Children]
  /\ faults \in Nat

\* At-least-once: a row that reads 'sent' has reached every child of the
\* fan-out, whatever worker acknowledged it and however often leases were
\* lost on the way (RunOnce, FanoutPublisher.Publish, Ack).
SentDelivered == \A r \in Rows : status[r] = "sent" => delivered[r] = Children

\* Exactly the rows in 'processing' have an owner, so no row is out of reach of
\* both branches of ClaimBatch's WHERE clause (ClaimBatch, Ack, Release,
\* RequeueFailed all write the lease columns together with the status).
LeaseColumns == \A r \in Rows : status[r] = "processing" <=> claimedBy[r] # NoWorker

\* The AttemptCount a worker carries from its claim to its ack is the column's
\* value for as long as the worker is the row's owner: the count Ack decides
\* with is stale only where the ownership predicate rejects the ack anyway.
AttemptFresh ==
  \A w \in Workers : \A r \in todo[w] :
    pc[w] \in {"publish", "acking"} /\ claimedBy[r] = w => att[w][r] = attempts[r]

\* A row is dead-lettered only after MaxAttempts claims, and with the publish
\* error recorded for the operator who reads ListFailed.
FailedExhausted ==
  \A r \in Rows : status[r] = "failed" => attempts[r] >= MaxAttempts /\ lastError[r]

\* RunStats.Published counts only rows that are durably 'sent' when RunOnce
\* returns, even if the lease ran out between the publish and the ack.
PublishedIsSent ==
  \A w \in Workers, r \in Rows : result[w][r] = "published" => status[r] = "sent"

\* A row is completed or given up only by the worker that holds its lease, as it
\* finishes its own copy of the row: a worker whose lease was taken over cannot
\* decide the row under its new owner (Ack's ownership predicate).
OwnerDecides ==
  [][\A r \in Rows :
       status'[r] # status[r] /\ status'[r] \in {"sent", "failed"} =>
         \E w \in Workers : claimedBy[r] = w /\ r \in todo[w] \ todo'[w]]_vars

\* A lease that has not run out on the database clock is kept or given back by
\* its owner, never taken over, although the claimant judges it by the NOW() of
\* a transaction that may have begun long before.
LeaseNotStolen ==
  [][\A r \in Rows :
       claimedBy[r] # NoWorker /\ ttl[r] >= 0 =>
         claimedBy'[r] \in {claimedBy[r], NoWorker}]_vars

\* Every enqueued row is eventually sent or dead-lettered, and every requeued one
\* again, however crashes, lost replies and lost leases leave it behind.
Resolved ==
  \A r \in Rows : status[r] \in {"pending", "processing"} ~> status[r] \in {"sent", "failed"}

\* CHANGELOG: "rows whose `attempt_count` reaches `MaxAttempts` transition here
\* permanently": no row is ever claimed beyond its budget.
RetryBudget == \A r \in Rows : attempts[r] <= MaxAttempts

\* The relay implements the abstract at-least-once outbox.
phase == [r \in Rows |-> IF status[r] \in {"pending", "processing"} THEN "open"
                         ELSE status[r]]
Promise == INSTANCE AtLeastOnce WITH Rows <- Rows, Children <- Children,
                                      phase <- phase, delivered <- delivered

\* Every step of the relay is a step of AtLeastOnce or invisible to it: nothing
\* completes a row before all its deliveries, nothing reopens a sent row, and a
\* failed row comes back only through RequeueFailed.
ImplementsPromise == Promise!Spec

=============================================================================

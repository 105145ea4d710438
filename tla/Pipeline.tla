------------------------------ MODULE Pipeline ------------------------------
(***************************************************************************)
(* Store and Relay on one database: a transaction of Store commits its     *)
(* outbox row together with its changes, and a relay publishes the row to  *)
(* a consumer that keeps, for every record, the newest version it has been *)
(* sent.                                                                   *)
(*                                                                         *)
(* created_at is NOW() of the transaction, its start; an outbox row is     *)
(* named by the number of the call that wrote it, which is the order of    *)
(* those starts.  The calls write one outbox row each: ResolveDedupe's     *)
(* collision, which writes two with the same created_at, is left out.  So  *)
(* are the single statements AppendEvent, SaveIdempotency, LoadIdempotency *)
(* and a caller's own EnqueueOutbox.  One relay process runs at a time;    *)
(* the code admits several, and nothing in it enforces this (Replica).     *)
(***************************************************************************)
EXTENDS Records

CONSTANTS
  Clients, MaxOps,                                     \* see Store
  Workers, NoWorker, Children,                         \* see Relay
  CfgBatchSize, CfgLeaseTTL, CfgMaxAttempts, MaxLag, MaxFaults

ASSUME PipelineAssumption ==
  /\ Workers \subseteq Nat /\ NoWorker \notin Workers /\ Children \subseteq Nat
  /\ CfgBatchSize \in Int /\ CfgLeaseTTL \in Int /\ CfgMaxAttempts \in Int
  /\ MaxOps \in Nat /\ MaxLag \in Nat /\ MaxFaults \in Nat
  /\ \A q \in Requests : q.op # "dedupe"

VARIABLES
  rec, events, outbox, idem, dedupe, cpc, req, tx, cur, winner, outcome,
  replies, verdicts, accessed, ops,
  status, attempts, claimedBy, ttl, lastError, lockedBy, wpc, lag, todo, att,
  pubLeft, pubErr, result, delivered, faults,
  began,     \* the number of each client's call
  message,   \* the event an outbox row carries
  before,    \* history: the outbox rows committed when the row's transaction began
  tried      \* history: rows claimed at least once

storeVars == <<rec, events, outbox, idem, dedupe, cpc, req, tx, cur, winner, outcome,
               replies, verdicts, accessed, ops>>
relayVars == <<status, attempts, claimedBy, ttl, lastError, lockedBy, wpc, lag, todo,
               att, pubLeft, pubErr, result, delivered, faults>>
vars == <<storeVars, relayVars, began, message, before, tried>>

Rows == 1..MaxOps
S == INSTANCE Store WITH pc <- cpc
R == INSTANCE Relay WITH Rows <- Rows, pc <- wpc

NoMessage == [mid |-> NoMem]

Init ==
  /\ S!Init /\ R!Init
  /\ began = [c \in Clients |-> 0]
  /\ message = [r \in Rows |-> NoMessage]
  /\ before = [r \in Rows |-> {}]
  /\ tried = {}

Begin(c) ==
  /\ \E q \in Requests : S!Begin(c, q)
  /\ began' = [began EXCEPT ![c] = ops']
  /\ before' = [before EXCEPT ![ops'] = {r \in Rows : status[r] # "absent"}]
  /\ UNCHANGED <<relayVars, message, tried>>

\* The row becomes visible to the relay with the payload of its event.
Enqueue(c, e) ==
  /\ R!EnqueueOutbox(began[c])
  /\ message' = [message EXCEPT ![began[c]] = e]

\* A mutant whose outbox INSERT goes through the pool, outside the transaction.
OutboxRowOutside(c) ==
  IF tx[c].outbox = {} /\ tx'[c].outbox # {} THEN \E e \in tx'[c].events : Enqueue(c, e)
  ELSE UNCHANGED <<relayVars, message>>

\* The outbox row appears with everything else at COMMIT, also if its reply is lost.
OutboxRow(c) ==
  IF outbox' # outbox THEN \E e \in tx[c].events : Enqueue(c, e)
  ELSE UNCHANGED <<relayVars, message>>

ClientStep(c) ==
  /\ S!Step(c) \/ S!CommitReplyLost(c) \/ S!Abort(c)
  /\ OutboxRow(c)
  /\ UNCHANGED <<began, before, tried>>

\* One relay process runs at a time; the next one takes over after a crash.
Replica(w) == \A v \in Workers : v < w => wpc[v] = "down"

RelayStep ==
  /\ \/ \E w \in Workers : Replica(w) /\ (R!Step(w) \/ R!Disturb(w))
     \/ \E r \in Rows : R!RequeueFailed(r)
     \/ R!Tick
  /\ tried' = tried \cup {r \in Rows : attempts'[r] > attempts[r]}
  /\ UNCHANGED <<storeVars, began, message, before>>

Next ==
  \/ \E c \in Clients : Begin(c) \/ ClientStep(c)
  \/ RelayStep

Spec == Init /\ [][Next]_vars

-----------------------------------------------------------------------------
\* What the consumer has been sent; seeded records were published before.
Seen == SeedEvents \cup {message[r] : r \in {q \in Rows : delivered[q] = Children}}

\* Access counts are not versioned and not part of what the consumer relies on.
Versioned(r) == [r EXCEPT !.hits = 0]

\* The copy with the highest version the consumer has.
Known(m) ==
  {Versioned(e.snap) : e \in {f \in Seen : f.mid = m /\ \A g \in Seen : g.mid = m => g.ver <= f.ver}}

\* Nothing is published that is not committed: a transaction that is rolled back, by
\* an error, a conflict or a crash after its outbox INSERT, reaches no consumer.
PublishedIsCommitted == \A r \in Rows : delivered[r] # {} => message[r] \in events

\* When every outbox row is sent, a consumer that keeps the newest version it was sent
\* has every record as the table has it, in whatever order and however often the rows
\* were published.
ConsumerConverges ==
  (\A r \in Rows : status[r] \in {"absent", "sent"}) =>
    \A m \in Mems : rec[m] # NoRec => Known(m) = {Versioned(rec[m])}

\* A call that began after another one had committed is not published before the
\* relay has claimed the other's row once, as long as one relay process runs at a
\* time (created_at is the start of the transaction; ORDER BY created_at).
CausalOrder == \A s \in Rows : delivered[s] # {} => before[s] \subseteq tried

=============================================================================

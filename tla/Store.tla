-------------------------------- MODULE Store --------------------------------
(***************************************************************************)
(* The write paths of postgres/store.go and postgres/durable_ops.go over   *)
(* the tables of schema.go: clients run one READ COMMITTED transaction at  *)
(* a time, statement by statement, next to each other.                     *)
(*                                                                         *)
(* What a transaction has written is kept in tx[c] until it commits.  A    *)
(* row it wrote, or a unique key it inserted, is locked until then: a      *)
(* statement of another transaction that needs it waits.  Statements that  *)
(* neither wait nor are seen by others (the event and the outbox INSERT    *)
(* after the row is locked) are one step with the statement before them.   *)
(* One tenant is modelled; a record of another tenant is as absent to a    *)
(* load as one that does not exist.                                        *)
(***************************************************************************)
EXTENDS Records

CONSTANTS
  Clients,
  MaxOps                \* bound: calls in one behaviour

Phases   == {"idle", "lookup", "insert", "claim", "lockindex", "load", "update",
             "winner", "collapse", "saveidem", "access", "commit"}
Outcomes == {"none", "ok", "error", "unique", "not_found", "version_conflict",
             "idempotency_conflict"}

ASSUME StoreAssumption == MaxOps \in Nat

VARIABLES
  rec, events, outbox, idem, dedupe,   \* the committed tables
  pc, req, tx,                         \* each client's transaction
  cur,       \* the record it holds in memory
  winner,    \* the winner id it read from the dedupe index
  outcome,   \* how its last call ended
  replies,   \* idempotent answers given: call, key, hash, memory id, version, Created
  verdicts,  \* dedupe answers given: key, candidate, winner, action
  accessed,  \* committed accesses per record
  ops

tables  == <<rec, events, outbox, idem, dedupe>>
client  == <<pc, req, tx, cur, winner, outcome>>
history == <<replies, verdicts, accessed>>
vars    == <<tables, client, history, ops>>

NoTx == [rec |-> [m \in Mems |-> NoRec], events |-> {}, outbox |-> {},
         idem |-> [k \in Keys |-> NoEntry], dedupe |-> [d \in DKeys |-> NoMem],
         locks |-> {}, left |-> {}]
NoReq == [op |-> "none"]

Init ==
  /\ rec = SeedRecords
  /\ events = SeedEvents
  /\ outbox = {EventKey(e) : e \in SeedEvents}
  /\ idem = NoTx.idem
  /\ dedupe = NoTx.dedupe
  /\ pc = [c \in Clients |-> "idle"]
  /\ req = [c \in Clients |-> NoReq]
  /\ tx = [c \in Clients |-> NoTx]
  /\ cur = [c \in Clients |-> NoRec]
  /\ winner = [c \in Clients |-> NoMem]
  /\ outcome = [c \in Clients |-> "none"]
  /\ replies = {} /\ verdicts = {}
  /\ accessed = [m \in Mems |-> 0]
  /\ ops = 0

-----------------------------------------------------------------------------
(* Transactions. *)

\* A statement sees what is committed and what its own transaction wrote.
Visible(c, m) == IF tx[c].rec[m] # NoRec THEN tx[c].rec[m] ELSE rec[m]
RowFree(c, m) == \A d \in Clients \ {c} : tx[d].rec[m] = NoRec
EventKeyFree(c, k) == \A d \in Clients \ {c} : \A e \in tx[d].events : EventKey(e) # k
EventKeyTaken(c, k) == \E e \in events \cup tx[c].events : EventKey(e) = k

Goto(c, phase) == pc' = [pc EXCEPT ![c] = phase]

\* A mutant without the deferred Rollback.
ReturnNoRollback(c, how) ==
  /\ pc' = [pc EXCEPT ![c] = "idle"]
  /\ req' = [req EXCEPT ![c] = NoReq]
  /\ tx' = [tx EXCEPT ![c] = IF how = "ok" THEN NoTx ELSE @]
  /\ cur' = [cur EXCEPT ![c] = NoRec]
  /\ winner' = [winner EXCEPT ![c] = NoMem]
  /\ outcome' = [outcome EXCEPT ![c] = how]

\* The call returns; what it has not committed is rolled back.
Return(c, how) ==
  /\ pc' = [pc EXCEPT ![c] = "idle"]
  /\ req' = [req EXCEPT ![c] = NoReq]
  /\ tx' = [tx EXCEPT ![c] = NoTx]
  /\ cur' = [cur EXCEPT ![c] = NoRec]
  /\ winner' = [winner EXCEPT ![c] = NoMem]
  /\ outcome' = [outcome EXCEPT ![c] = how]

Fail(c, how) == Return(c, how) /\ UNCHANGED <<tables, history, ops>>

\* The rows of the statement's snapshot that MarkAccess will visit.
Matching(ids) == {m \in {ids[i] : i \in DOMAIN ids} : rec[m] # NoRec}

Begin(c, q) ==
  /\ pc[c] = "idle" /\ ops < MaxOps
  /\ ops' = ops + 1
  /\ req' = [req EXCEPT ![c] = q]
  /\ Goto(c, CASE q.op = "dedupe" -> "claim"
                [] q.op = "access" -> "access"
                [] OTHER -> IF q.key = NoKey THEN "load" ELSE "lookup")
  /\ tx' = [tx EXCEPT ![c].left = IF q.op = "access" THEN Matching(q.ids) ELSE {}]
  /\ outcome' = [outcome EXCEPT ![c] = "none"]
  /\ UNCHANGED <<tables, cur, winner, history>>

\* Statement errors, cancelled contexts and crashes: deferred Rollback.
Abort(c) == pc[c] # "idle" /\ Fail(c, "error")

-----------------------------------------------------------------------------
(* The idempotency lookup of WriteRecord and Promote. *)

LookupMiss(c) ==
  /\ pc[c] = "lookup" /\ idem[req[c].key] = NoEntry
  /\ Goto(c, IF req[c].op = "created" THEN "insert" ELSE "load")
  /\ UNCHANGED <<tables, req, tx, cur, winner, outcome, history, ops>>

\* A mutant that replays whatever was stored under the key.
HashMatchesAny(c) == TRUE

HashMatches(c) == idem[req[c].key].hash = RequestHash(req[c])

LookupConflict(c) ==
  /\ pc[c] = "lookup" /\ idem[req[c].key] # NoEntry
  /\ ~HashMatches(c)
  /\ Fail(c, "idempotency_conflict")

\* The answer to a call; a client's call is told from its others by the number of
\* calls so far.
Reply(c, m, v, created) ==
  [call |-> <<c, ops>>, op |-> req[c].op, key |-> req[c].key, hash |-> RequestHash(req[c]),
   mid |-> m, ver |-> v, created |-> created]

\* A mutant of Promote that returns the stored answer as WriteRecord does.
CreatedOnReplayStored(q, e) == e.created

\* Promote replays with Created: false, WriteRecord with what is stored.
CreatedOnReplay(q, e) == q.op = "created" /\ e.created

LookupReplay(c) ==
  LET e == idem[req[c].key]
  IN  /\ pc[c] = "lookup" /\ e # NoEntry
      /\ HashMatches(c)
      /\ replies' = replies \cup {Reply(c, e.mid, e.ver, CreatedOnReplay(req[c], e))}
      /\ Return(c, "ok")
      /\ UNCHANGED <<tables, verdicts, accessed, ops>>

-----------------------------------------------------------------------------
(* WriteRecord. *)

\* The caller's memory id, or a uuid nobody has used.
MayInsert(c, m) ==
  IF req[c].mid # NoMem THEN m = req[c].mid
  ELSE rec[m] = NoRec /\ \A d \in Clients : tx[d].rec[m] = NoRec /\ \A e \in events : e.mid # m

\* INSERT memory_record, memory_event, outbox_event.
InsertRecord(c, m) ==
  LET r == FirstVersion(req[c])
      e == NewEvent(m, r, "created", req[c].key, NoMem)
  IN  /\ pc[c] = "insert" /\ MayInsert(c, m) /\ RowFree(c, m)
      /\ rec[m] = NoRec /\ ~EventKeyTaken(c, EventKey(e))
      /\ tx' = [tx EXCEPT ![c].rec[m] = r, ![c].events = {e}, ![c].outbox = {EventKey(e)}]
      /\ cur' = [cur EXCEPT ![c] = r]
      /\ Goto(c, "saveidem")
      /\ UNCHANGED <<tables, req, winner, outcome, history, ops>>

\* The memory id exists, or AppendEvent has used its first event's key.
InsertDuplicate(c) ==
  LET m == req[c].mid
  IN  /\ pc[c] = "insert" /\ m # NoMem /\ RowFree(c, m)
      /\ rec[m] # NoRec \/ EventKeyTaken(c, <<m, 1, "created">>)
      /\ Fail(c, "unique")

-----------------------------------------------------------------------------
(* mutateRecordTx, shared by Patch, Delete, Pin, Disable, by the collision   *)
(* path of ResolveDedupe and, with other columns, by Promote.                *)

\* A plain SELECT: it does not wait and locks nothing.
Load(c) ==
  LET m == req[c].mid
  IN  /\ pc[c] = "load"
      /\ Visible(c, m) # NoRec /\ Visible(c, m).ver = req[c].ver
      /\ cur' = [cur EXCEPT ![c] = Applied(req[c], Visible(c, m))]
      /\ Goto(c, "update")
      /\ UNCHANGED <<tables, req, tx, winner, outcome, history, ops>>

LoadFails(c) ==
  LET r == Visible(c, req[c].mid)
  IN  /\ pc[c] = "load"
      /\ \/ r = NoRec /\ Fail(c, "not_found")
         \/ r # NoRec /\ r.ver # req[c].ver /\ Fail(c, "version_conflict")

\* A mutant that forgets AND version = $13.
VersionAnyMatches(c) == TRUE

VersionMatches(c) == rec[req[c].mid].ver = req[c].ver

\* A mutant whose SET list also writes hit_count.
WrittenHits(c, row) == cur[c]

\* A mutant whose SET list of Promote misses consolidated_from_event_id.
WrittenNoSource(c, row) ==
  IF req[c].op = "promoted"
  THEN [row EXCEPT !.kind = cur[c].kind, !.ver = cur[c].ver]
  ELSE [cur[c] EXCEPT !.kind = row.kind, !.from = row.from, !.hits = row.hits]

\* The SET list; the columns it does not name keep the row's current values.
Written(c, row) ==
  IF req[c].op = "promoted"
  THEN [row EXCEPT !.kind = cur[c].kind, !.from = cur[c].from, !.ver = cur[c].ver]
  ELSE [cur[c] EXCEPT !.kind = row.kind, !.from = row.from, !.hits = row.hits]

\* A mutant that commits the loser's delete on its own.
AfterUpdateCommits(q) ==
  IF q.op # "dedupe" /\ q.key # NoKey THEN "saveidem" ELSE "commit"

AfterUpdate(q) ==
  IF q.op = "dedupe" THEN "winner" ELSE IF q.key # NoKey THEN "saveidem" ELSE "commit"

\* A mutant without the outbox INSERT.
UpdateSilent(c) ==
  LET m == req[c].mid
      e == NewEvent(m, cur[c], MutationType(req[c]), NoKey, NoMem)
  IN  /\ pc[c] = "update" /\ RowFree(c, m) /\ VersionMatches(c)
      /\ ~EventKeyTaken(c, EventKey(e))
      /\ tx' = [tx EXCEPT ![c].rec[m] = Written(c, rec[m]), ![c].events = {e}]
      /\ Goto(c, AfterUpdate(req[c]))
      /\ UNCHANGED <<tables, req, cur, winner, outcome, history, ops>>

\* UPDATE ... WHERE version, then the event and outbox INSERTs.  The UPDATE waits
\* for the row lock and then judges the row's newest committed version.
Update(c) ==
  LET m == req[c].mid
      e == NewEvent(m, cur[c], MutationType(req[c]), NoKey, NoMem)
  IN  /\ pc[c] = "update" /\ RowFree(c, m) /\ VersionMatches(c)
      /\ ~EventKeyTaken(c, EventKey(e))
      /\ tx' = [tx EXCEPT ![c].rec[m] = Written(c, rec[m]),
                          ![c].events = {e}, ![c].outbox = {EventKey(e)}]
      /\ Goto(c, AfterUpdate(req[c]))
      /\ UNCHANGED <<tables, req, cur, winner, outcome, history, ops>>

\* RowsAffected() # 1.
UpdateConflict(c) ==
  /\ pc[c] = "update" /\ RowFree(c, req[c].mid) /\ ~VersionMatches(c)
  /\ Fail(c, "version_conflict")

\* AppendEvent has used the event's unique key.
UpdateDuplicate(c) ==
  /\ pc[c] = "update" /\ RowFree(c, req[c].mid) /\ VersionMatches(c)
  /\ EventKeyTaken(c, <<req[c].mid, cur[c].ver, MutationType(req[c])>>)
  /\ Fail(c, "unique")

-----------------------------------------------------------------------------
(* ResolveDedupe. *)

\* A mutant that does not wait for an uncommitted peer.
ClaimFreeBlind(c, dk) == TRUE

ClaimFree(c, dk) == \A d \in Clients \ {c} : tx[d].dedupe[dk] = NoMem

\* INSERT ... ON CONFLICT DO NOTHING RETURNING.
Claim(c) ==
  LET dk == req[c].dk
  IN  /\ pc[c] = "claim" /\ ClaimFree(c, dk)
      /\ \/ /\ dedupe[dk] = NoMem
            /\ tx' = [tx EXCEPT ![c].dedupe[dk] = req[c].mid]
            /\ Goto(c, "commit")
         \/ /\ dedupe[dk] # NoMem
            /\ Goto(c, "lockindex")
            /\ UNCHANGED tx
      /\ UNCHANGED <<tables, req, cur, winner, outcome, history, ops>>

\* SELECT winner_memory_id ... FOR UPDATE.
LockIndex(c) ==
  LET dk == req[c].dk
  IN  /\ pc[c] = "lockindex"
      /\ \A d \in Clients \ {c} : dk \notin tx[d].locks
      /\ tx' = [tx EXCEPT ![c].locks = {dk}]
      /\ winner' = [winner EXCEPT ![c] = dedupe[dk]]
      /\ Goto(c, "load")
      /\ UNCHANGED <<tables, req, cur, outcome, history, ops>>

\* A mutant of loadRecordForUpdate that takes the lock its name speaks of.
RowsLockedForUpdate(c) == {winner[c]} \ {req[c].mid}

\* loadRecordForUpdate is a plain SELECT.
RowsLocked(c) == {}

LoadWinner(c) ==
  /\ pc[c] = "winner" /\ Visible(c, winner[c]) # NoRec
  /\ \A m \in RowsLocked(c) : RowFree(c, m)
  /\ cur' = [cur EXCEPT ![c] = Visible(c, winner[c])]
  /\ tx' = [tx EXCEPT ![c].rec = [m \in Mems |-> IF m \in RowsLocked(c) THEN rec[m] ELSE @[m]]]
  /\ Goto(c, "collapse")
  /\ UNCHANGED <<tables, req, winner, outcome, history, ops>>

LoadWinnerFails(c) ==
  pc[c] = "winner" /\ Visible(c, winner[c]) = NoRec /\ Fail(c, "not_found")

\* A mutant that numbers the collapse event like a mutation of the winner.
CollapseEventNext(c) ==
  NewEvent(winner[c], [cur[c] EXCEPT !.ver = @ + 1], "collapsed", NoKey, req[c].mid)

CollapseEvent(c) == NewEvent(winner[c], cur[c], "collapsed", NoKey, req[c].mid)

\* A mutant without the outbox INSERT of the collapse.
CollapseSilent(c) ==
  LET e == CollapseEvent(c)
  IN  /\ pc[c] = "collapse" /\ EventKeyFree(c, EventKey(e)) /\ ~EventKeyTaken(c, EventKey(e))
      /\ tx' = [tx EXCEPT ![c].events = @ \cup {e}]
      /\ Goto(c, "commit")
      /\ UNCHANGED <<tables, req, cur, winner, outcome, history, ops>>

Collapse(c) ==
  LET e == CollapseEvent(c)
  IN  /\ pc[c] = "collapse" /\ EventKeyFree(c, EventKey(e)) /\ ~EventKeyTaken(c, EventKey(e))
      /\ tx' = [tx EXCEPT ![c].events = @ \cup {e}, ![c].outbox = @ \cup {EventKey(e)}]
      /\ Goto(c, "commit")
      /\ UNCHANGED <<tables, req, cur, winner, outcome, history, ops>>

\* UNIQUE (memory_id, version, event_type): the winner has already collapsed a
\* duplicate at this version.
CollapseDuplicate(c) ==
  LET k == EventKey(CollapseEvent(c))
  IN  /\ pc[c] = "collapse" /\ EventKeyFree(c, k) /\ EventKeyTaken(c, k)
      /\ Fail(c, "unique")

\* The action returned follows the winner as it was read, pinned or not.
Verdict(c) ==
  LET dk == req[c].dk
      won == tx[c].dedupe[dk] # NoMem
  IN  [dk |-> dk, cand |-> req[c].mid,
       winner |-> IF won THEN req[c].mid ELSE winner[c],
       action |-> IF won THEN "no_collision"
                  ELSE IF cur[c].pinned THEN "collapsed_by_pin" ELSE "merged_existing"]

-----------------------------------------------------------------------------
\* A mutant that saves the snapshot with an upsert, as SaveIdempotency does.
IdemFreeUpsert(k) == TRUE

IdemFree(k) == idem[k] = NoEntry

\* INSERT idempotency_key: waits for an uncommitted insert of the same key.
SaveIdem(c, m) ==
  LET q == req[c]
  IN  /\ pc[c] = "saveidem" /\ tx[c].rec[m] # NoRec
      /\ \A d \in Clients \ {c} : tx[d].idem[q.key] = NoEntry
      /\ IdemFree(q.key)
      /\ tx' = [tx EXCEPT ![c].idem[q.key] = NewEntry(q, m, cur[c].ver)]
      /\ Goto(c, "commit")
      /\ UNCHANGED <<tables, req, cur, winner, outcome, history, ops>>

SaveIdemDuplicate(c) ==
  /\ pc[c] = "saveidem"
  /\ \A d \in Clients \ {c} : tx[d].idem[req[c].key] = NoEntry
  /\ ~IdemFree(req[c].key)
  /\ Fail(c, "unique")

Apply(c) ==
  /\ pc[c] = "commit"
  /\ rec' = [m \in Mems |-> Visible(c, m)]
  /\ events' = events \cup tx[c].events
  /\ outbox' = outbox \cup tx[c].outbox
  /\ idem' = [k \in Keys |-> IF tx[c].idem[k] # NoEntry THEN tx[c].idem[k] ELSE idem[k]]
  /\ dedupe' = [d \in DKeys |-> IF tx[c].dedupe[d] # NoMem THEN tx[c].dedupe[d] ELSE dedupe[d]]
  /\ accessed' = [m \in Mems |-> accessed[m] +
                    IF req[c].op = "access" /\ tx[c].rec[m] # NoRec THEN 1 ELSE 0]
  /\ UNCHANGED ops

Commit(c) ==
  LET q == req[c]
      e == tx[c].idem[q.key]
  IN  /\ Apply(c)
      /\ Return(c, "ok")
      /\ replies' = IF q.op # "dedupe" /\ q.key # NoKey
                    THEN replies \cup {Reply(c, e.mid, e.ver, TRUE)}
                    ELSE replies
      /\ verdicts' = IF q.op = "dedupe" THEN verdicts \cup {Verdict(c)} ELSE verdicts

\* COMMIT took effect but its reply was lost: the caller sees an error.
CommitReplyLost(c) ==
  /\ Apply(c)
  /\ Return(c, "error")
  /\ UNCHANGED <<replies, verdicts>>

-----------------------------------------------------------------------------
(* Single statements outside the transactions. *)

\* The first row left, in the order of the plan.
NextRow(c, m) ==
  \E i \in DOMAIN req[c].ids :
    /\ req[c].ids[i] = m /\ m \in tx[c].left
    /\ \A j \in 1..(i - 1) : req[c].ids[j] \notin tx[c].left

\* MarkAccess, row by row: the UPDATE waits for the row's lock and adds one to the
\* newest committed counter.
AccessRow(c, m) ==
  /\ pc[c] = "access" /\ NextRow(c, m) /\ RowFree(c, m)
  /\ tx' = [tx EXCEPT ![c].rec[m] = [rec[m] EXCEPT !.hits = @ + 1],
                      ![c].left = @ \ {m}]
  /\ UNCHANGED <<tables, pc, req, cur, winner, outcome, history, ops>>

AccessDone(c) ==
  /\ pc[c] = "access" /\ tx[c].left = {}
  /\ Goto(c, "commit")
  /\ UNCHANGED <<tables, req, tx, cur, winner, outcome, history, ops>>

\* An event whose unique key is taken, or of an unknown type, is refused.
AppendEvent(e) ==
  /\ ops < MaxOps /\ ops' = ops + 1
  /\ Appendable(e)
  /\ \A d \in Clients : \A f \in tx[d].events : EventKey(f) # EventKey(e)
  /\ \A f \in events : EventKey(f) # EventKey(e)
  /\ events' = events \cup {e}
  /\ UNCHANGED <<rec, outbox, idem, dedupe, client, history>>

\* INSERT ... ON CONFLICT DO UPDATE waits for an uncommitted entry and overwrites a
\* committed one.
SaveIdempotency(s) ==
  /\ ops < MaxOps /\ ops' = ops + 1
  /\ \A d \in Clients : tx[d].idem[s.key] = NoEntry
  /\ idem' = [idem EXCEPT ![s.key] = s.entry]
  /\ UNCHANGED <<rec, events, outbox, dedupe, client, history>>

LoadIdempotency(k) ==
  /\ idem[k] # NoEntry
  /\ replies' = replies \cup
       {[call |-> <<>>, op |-> "load", key |-> k, hash |-> idem[k].hash, mid |-> idem[k].mid,
         ver |-> idem[k].ver, created |-> idem[k].created]}
  /\ UNCHANGED <<tables, client, verdicts, accessed, ops>>

-----------------------------------------------------------------------------
(* What the reads show. *)

\* GetRecord.
Readable(m) == rec[m] # NoRec /\ ~rec[m].deleted /\ ~rec[m].disabled

\* ListSessionWorking: the records, and the events its subquery may name; among
\* events of one version created_at decides.
Listed(m) == Readable(m) /\ rec[m].kind = "working"
Latest(m) ==
  {e \in events : e.mid = m /\ \A f \in events : f.mid = m => f.ver <= e.ver}

-----------------------------------------------------------------------------
(* The transactions a client's next statement waits for; Postgres looks for  *)
(* circles and aborts one of them.                                           *)

WaitsFor(c) ==
  LET q == req[c]
      Rows(m) == {d \in Clients \ {c} : tx[d].rec[m] # NoRec}
  IN  CASE pc[c] = "insert" /\ q.mid # NoMem -> Rows(q.mid)
        [] pc[c] = "update"    -> Rows(q.mid)
        [] pc[c] = "access"    -> UNION {Rows(m) : m \in {n \in Mems : NextRow(c, n)}}
        [] pc[c] = "winner"    -> UNION {Rows(m) : m \in RowsLocked(c)}
        [] pc[c] = "claim"     -> {d \in Clients \ {c} : tx[d].dedupe[q.dk] # NoMem}
        [] pc[c] = "lockindex" -> {d \in Clients \ {c} : q.dk \in tx[d].locks}
        [] pc[c] = "collapse"  ->
             {d \in Clients \ {c} :
                \E e \in tx[d].events : EventKey(e) = EventKey(CollapseEvent(c))}
        [] pc[c] = "saveidem"  -> {d \in Clients \ {c} : tx[d].idem[q.key] # NoEntry}
        [] OTHER -> {}

Deadlocked(c) ==
  WaitsFor(c) # {} /\ \E S \in SUBSET Clients : c \in S /\ \E next \in [S -> S] :
    (\A a \in S : next[a] \in WaitsFor(a)) /\ (\A b \in S : \E a \in S : next[a] = b)

DeadlockAbort(c) == Deadlocked(c) /\ Fail(c, "error")

-----------------------------------------------------------------------------
\* The next statement of a client's transaction, COMMIT aside.
Statement(c) ==
  \/ LookupMiss(c) \/ LookupConflict(c) \/ LookupReplay(c)
  \/ \E m \in Mems : InsertRecord(c, m)
  \/ InsertDuplicate(c)
  \/ Load(c) \/ LoadFails(c) \/ Update(c)
  \/ UpdateConflict(c) \/ UpdateDuplicate(c)
  \/ Claim(c) \/ LockIndex(c) \/ LoadWinner(c) \/ LoadWinnerFails(c)
  \/ Collapse(c) \/ CollapseDuplicate(c)
  \/ \E m \in Mems : SaveIdem(c, m)
  \/ SaveIdemDuplicate(c)
  \/ \E m \in Mems : AccessRow(c, m)
  \/ AccessDone(c)
  \/ DeadlockAbort(c)

Step(c) == Statement(c) \/ Commit(c)

Next ==
  \/ \E c \in Clients :
       \/ \E q \in Requests : Begin(c, q)
       \/ Step(c) \/ CommitReplyLost(c) \/ Abort(c)
  \/ \E e \in Appends : AppendEvent(e)
  \/ \E s \in Saves : SaveIdempotency(s)
  \/ \E k \in Keys : LoadIdempotency(k)

Spec == Init /\ [][Next]_vars

\* A transaction that can go on does, and Postgres looks for deadlocks; calls, errors
\* and crashes are not assumed.
FairSpec == Spec /\ \A c \in Clients : WF_vars(Step(c))

-----------------------------------------------------------------------------
(***************************************************************************)
(* Properties.                                                             *)
(***************************************************************************)

\* Every variable stays in its type; versions start at 1 (WriteRecord).
TypeOK ==
  /\ rec \in [Mems -> Record \cup {NoRec}]
  /\ events \subseteq Event
  /\ outbox \subseteq Mems \X Nat \X EventTypes
  /\ idem \in [Keys -> Entry \cup {NoEntry}]
  /\ dedupe \in [DKeys -> Mems \cup {NoMem}]
  /\ pc \in [Clients -> Phases]
  /\ cur \in [Clients -> Record \cup {NoRec}]
  /\ winner \in [Clients -> Mems \cup {NoMem}]
  /\ outcome \in [Clients -> Outcomes]
  /\ accessed \in [Mems -> Nat]
  /\ ops \in 0..MaxOps

\* One idempotency key creates one record, however many callers race with it and
\* however often a caller whose COMMIT reply was lost tries again (WriteRecord).
OneCreatePerKey ==
  \A e, f \in events :
    e.type = "created" /\ f.type = "created" /\ e.key = f.key /\ e.key # NoKey => e = f

\* All callers that were ever answered for one key presented the same request hash
\* and were told the same record and version, and that record exists: first answers,
\* replays of WriteRecord and Promote and what LoadIdempotency returns differ in
\* nothing but Created, unless the caller saves entries of its own under the key.
RepliesAgree ==
  \A a, b \in {r \in replies : \A s \in Saves : s.key # r.key} :
    /\ a.key = b.key => a.hash = b.hash /\ a.mid = b.mid /\ a.ver = b.ver
    /\ rec[a.mid] # NoRec /\ rec[a.mid].ver >= a.ver

\* Promote tells at most one call of a key that it made the change (Created), whoever
\* races with it, retries after a lost COMMIT reply or saves entries under the key.
PromotedOnce ==
  \A a, b \in {r \in replies : r.op = "promoted" /\ r.created} : a.key = b.key => a = b

\* The events of a record that are not collapses are numbered 1 to its version,
\* each number once: two writers that loaded the same version never both commit,
\* although the load takes no lock (mutateRecordTx, Promote).
VersionChain ==
  \A m \in Mems : rec[m] # NoRec =>
    LET own == {e \in events : e.mid = m /\ e.type # "collapsed"}
    IN  /\ {e.ver : e \in own} = 1..rec[m].ver
        /\ Cardinality(own) = rec[m].ver

\* A record can be rebuilt from its events: each snapshot is the one before it
\* with that event's change applied, and the last one is the row, the access
\* counter aside (the UPDATEs' SET lists against the event payloads).
HistoryExplains ==
  LET Versioned(r) == [r EXCEPT !.hits = 0]
  IN  \A e \in {x \in events : x.type # "collapsed"} :
        /\ e.ver > 1 => \E f \in events, v \in Values \cup {Blank} :
             /\ f.mid = e.mid /\ f.type # "collapsed" /\ f.ver + 1 = e.ver
             /\ Versioned(e.snap) = Versioned(Applied([op |-> e.type, val |-> v], f.snap))
        /\ rec[e.mid].ver = e.ver => Versioned(rec[e.mid]) = Versioned(e.snap)

\* No access is lost: a record has been accessed as often as its counter has moved on
\* from the one it was written with, though a mutation that loaded it before a
\* MarkAccess writes it afterwards.
HitsCounted ==
  \A m \in Mems : rec[m] # NoRec =>
    \E e \in events :
      EventKey(e) = <<m, 1, "created">> /\ rec[m].hits = e.snap.hits + accessed[m]

\* A deleted record is never readable again: no mutation that loaded it before the
\* delete, or after it, brings it back (GetRecord, mutateRecordTx).
DeletedStays ==
  [][\A m \in Mems : rec[m] # NoRec /\ rec[m].deleted => ~Readable(m)']_vars

\* What the query of ListSessionWorking does keep: the event it names for a record is one
\* of the record's own version, although collapses append events for a winner they read
\* without a lock. It need not be the last one appended (LatestIsLastAppended).
SessionListsCurrent ==
  \A m \in Mems : Listed(m) =>
    Latest(m) # {} /\ \A e \in Latest(m) : e.ver = rec[m].ver

\* Transactional outbox: exactly the committed events are in the outbox, whichever
\* statement a crash or an error stops a transaction at.
OutboxComplete == outbox = {EventKey(e) : e \in events}

\* The winner of a dedupe key never changes once it is committed, however many
\* first writers race for it (the C1 race of ResolveDedupe).
WinnerStable ==
  [][\A d \in DKeys : dedupe[d] # NoMem => dedupe'[d] = dedupe[d]]_vars

\* What ResolveDedupe answered stays true: all callers of a key name the same
\* winner, and a candidate reported as collapsed is deleted and is named as the
\* loser in an event of that winner.
VerdictsHold ==
  \A v \in verdicts :
    /\ dedupe[v.dk] = v.winner
    /\ v.action = "no_collision" => v.cand = v.winner
    /\ v.action # "no_collision" =>
         /\ rec[v.cand].deleted
         /\ \E e \in events : e.type = "collapsed" /\ e.mid = v.winner /\ e.loser = v.cand

\* Only MarkAccess calls that visit the same rows in different orders can deadlock:
\* the transactions take one record row each and wait for no row afterwards
\* (mutateRecordTx, ResolveDedupe).
OnlyAccessesDeadlock == \A c \in Clients : Deadlocked(c) => req[c].op = "access"

\* Every call returns, although transactions wait for each other's rows and keys.
Terminates == \A c \in Clients : pc[c] # "idle" ~> pc[c] = "idle"

\* The tables as they are committed behave like Ledger's.
Atomic == INSTANCE Ledger WITH rec <- rec, events <- events, outbox <- outbox,
                               idem <- idem, dedupe <- dedupe

\* Every COMMIT is one whole call of Ledger on the tables as they are at that moment,
\* and nothing else changes them: calls that run statement by statement next to each
\* other, fail half-way or lose their reply behave as if they ran one by one
\* (mutateRecord, WriteRecord, Promote, ResolveDedupe, MarkAccess).
ImplementsLedger == Atomic!Spec

\* ResolveDedupe's comment: when a winner exists "the entire collision path (loser
\* soft-delete + memory_dedupe_collapsed event + outbox) is executed": the
\* collapse event never meets a key that is taken.
CollapseSucceeds ==
  \A c \in Clients : pc[c] = "collapse" => ~EventKeyTaken(c, EventKey(CollapseEvent(c)))

\* The comment on ListSessionWorking: "the event_id of the most recently appended event
\* for each record": an event that was just appended for a listed record is the one (or
\* one of those of the same version) that the listing names.
LatestIsLastAppended ==
  [][\A e \in events' \ events : Listed(e.mid)' => e \in Latest(e.mid)']_vars

\* ResolveDedupe's comment: "If none exists, the candidate becomes the winner": the
\* winner of a key is never resolved as the loser of that key.
WinnerNotLoser == \A e \in events : e.type = "collapsed" => e.loser # e.mid

=============================================================================

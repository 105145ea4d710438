------------------------------ MODULE Migration ------------------------------
(***************************************************************************)
(* Migrate of postgres/schema.go: processes of several releases bring one  *)
(* database up to date at the same time.  Each reads the recorded version  *)
(* once and then runs its groups of DDL statements, transactional ones in  *)
(* one transaction with their version row, direct ones statement by        *)
(* statement.                                                              *)
(*                                                                         *)
(* A schema object is named by the group and the position of the statement *)
(* that creates it; tables and indexes that are treated alike are          *)
(* represented by one.  Groups after 3 belong to later releases.           *)
(***************************************************************************)
EXTENDS Integers, Sequences, FiniteSets

CONSTANTS
  Migrators,      \* processes that call Migrate: memory-migrate, gateways
  HeadVersion,    \* HeadSchemaVersion of each one's release
  DirectGroups,   \* groups that are not Transactional
  Installed,      \* versions the database may be at when the story begins
  Prefixes,       \* TablePrefix settings, see IsSafeIdent
  MaxCalls        \* bound: calls of Migrate in one behaviour

AcceptableSkewVersions == 5

ASSUME MigrationAssumption ==
  /\ HeadVersion \in [Migrators -> Nat \ {0}]
  /\ DirectGroups \subseteq Nat \ (0..3)
  /\ Installed \subseteq Nat
  /\ \A p \in Prefixes : p.first \in p.chars \cup {"none"}
  /\ MaxCalls \in Nat

\* The statements of the groups.  "table", "index" and "column" create what does not
\* exist, "check" replaces the constraint on kind, "comment" sets a comment.
Statement(do, on) == [do |-> do, on |-> on]
Statements(g) ==
  CASE g = 1 -> <<Statement("table", "schema_version"), Statement("table", "memory_record"),
                  Statement("table", "outbox_event"), Statement("index", "memory_record"),
                  Statement("index", "outbox_event"), Statement("table", "trace"),
                  Statement("index", "trace"), Statement("comment", "trace")>>
    [] g = 2 -> <<Statement("column", "outbox_event"), Statement("index", "outbox_event")>>
    [] g = 3 -> <<Statement("check", "memory_record"), Statement("table", "memory_dedupe_index")>>
    [] OTHER -> <<Statement("index", "memory_event"), Statement("index", "outbox_event")>>
Transactional(g) == g \notin DirectGroups
VersionTable == <<1, 1>>
RecordTable  == <<1, 2>>
Narrow == {"episodic", "semantic"}
Wide   == {"working", "episodic", "semantic"}

\* What group g leaves behind; a constraint is the set of kinds it admits.
Creates(s) == s.do \in {"table", "index", "column"}
ObjectsOf(g) == {<<g, i>> : i \in {j \in DOMAIN Statements(g) : Creates(Statements(g)[j])}}

VARIABLES
  objects, kinds, versions,   \* the committed catalog and schema_version rows
  prefix,
  pc, current, group, stmt,   \* each call: where it is, what it read, what it runs
  tx,                         \* what its open transaction has done, and its locks
  result,
  calls,
  behind                      \* history: the database was too far ahead at the start

catalog == <<objects, kinds, versions, prefix>>
vars    == <<catalog, pc, current, group, stmt, tx, result, calls, behind>>

Phases  == {"idle", "exists", "version", "next", "stmt", "blocked", "record", "commit"}
Results == {"none", "ok", "error", "ahead"}
NoTx    == [objects |-> {}, kinds |-> {}, versions |-> {}, locks |-> {}]

Init ==
  /\ \E v \in Installed :
       /\ versions = 1..v
       /\ objects = UNION {ObjectsOf(g) : g \in 1..v}
       /\ kinds = IF v = 0 THEN {} ELSE {IF v < 3 THEN Narrow ELSE Wide}
  /\ prefix \in Prefixes
  /\ pc = [m \in Migrators |-> "idle"]
  /\ current = [m \in Migrators |-> 0]
  /\ group = [m \in Migrators |-> 0]
  /\ stmt = [m \in Migrators |-> 0]
  /\ tx = [m \in Migrators |-> NoTx]
  /\ result = [m \in Migrators |-> "none"]
  /\ calls = 0
  /\ behind = [m \in Migrators |-> FALSE]

-----------------------------------------------------------------------------
(* A prefix is described by the classes of its characters and of the first.  *)

IsSafeIdent(p) ==
  p.chars # {} /\ p.chars \subseteq {"lower", "upper", "digit", "underscore"} /\ p.first # "underscore"

\* New accepts the empty prefix and safe ones.
Accepted(p) == p.chars = {} \/ IsSafeIdent(p)

\* Table names are not quoted, so Postgres folds them to lower case; the lookup in
\* information_schema compares the name as it is spelled.
SpelledAsStored(p) == "upper" \notin p.chars

Goto(m, phase) == pc' = [pc EXCEPT ![m] = phase]

\* A mutant without the deferred Rollback.
ReturnKeepsTx(m, how) ==
  /\ pc' = [pc EXCEPT ![m] = "idle"]
  /\ result' = [result EXCEPT ![m] = how]
  /\ current' = [current EXCEPT ![m] = 0]
  /\ group' = [group EXCEPT ![m] = 0]
  /\ stmt' = [stmt EXCEPT ![m] = 0]
  /\ behind' = [behind EXCEPT ![m] = FALSE]
  /\ UNCHANGED <<tx, calls>>

\* Migrate returns; an open transaction is rolled back.
Return(m, how) ==
  /\ pc' = [pc EXCEPT ![m] = "idle"]
  /\ result' = [result EXCEPT ![m] = how]
  /\ current' = [current EXCEPT ![m] = 0]
  /\ group' = [group EXCEPT ![m] = 0]
  /\ stmt' = [stmt EXCEPT ![m] = 0]
  /\ tx' = [tx EXCEPT ![m] = NoTx]
  /\ behind' = [behind EXCEPT ![m] = FALSE]
  /\ UNCHANGED calls

Fail(m, how) == Return(m, how) /\ UNCHANGED catalog

\* New, then Migrate.
Start(m) ==
  /\ pc[m] = "idle" /\ calls < MaxCalls
  /\ calls' = calls + 1
  /\ IF Accepted(prefix)
     THEN /\ Goto(m, "exists")
          /\ result' = [result EXCEPT ![m] = "none"]
          /\ behind' = [behind EXCEPT ![m] = \E v \in versions : v > HeadVersion[m] + AcceptableSkewVersions]
     ELSE result' = [result EXCEPT ![m] = "error"] /\ UNCHANGED <<pc, behind>>
  /\ UNCHANGED <<catalog, current, group, stmt, tx>>

-----------------------------------------------------------------------------
(* currentSchemaVersion: two statements, no transaction. *)

TableFound == VersionTable \in objects /\ SpelledAsStored(prefix)

CheckExists(m) ==
  /\ pc[m] = "exists"
  /\ Goto(m, IF TableFound THEN "version" ELSE "next")
  /\ UNCHANGED <<catalog, current, group, stmt, tx, result, calls, behind>>

\* A mutant that tolerates any skew.
TooFarAheadNever(m, v) == FALSE

TooFarAhead(m, v) == v > HeadVersion[m] + AcceptableSkewVersions

\* SELECT COALESCE(MAX(version), 0), then the skew check.
ReadVersion(m, v) ==
  /\ pc[m] = "version"
  /\ v \in versions \cup {0} /\ \A u \in versions : u <= v
  /\ IF TooFarAhead(m, v) THEN Fail(m, "ahead")
     ELSE /\ current' = [current EXCEPT ![m] = v]
          /\ Goto(m, "next")
          /\ UNCHANGED <<catalog, group, stmt, tx, result, calls, behind>>

-----------------------------------------------------------------------------
(* The loop over migrationGroups. *)

Later(a, b) == IF a < b THEN b ELSE a

\* Groups up to the version that was read are skipped.
NextGroup(m) ==
  LET g == Later(current[m], group[m]) + 1
  IN  /\ pc[m] = "next"
      /\ IF g > HeadVersion[m] THEN Fail(m, "ok")
         ELSE /\ group' = [group EXCEPT ![m] = g]
              /\ stmt' = [stmt EXCEPT ![m] = 1]
              /\ Goto(m, "stmt")
              /\ UNCHANGED <<catalog, current, tx, result, calls, behind>>

Stmt(m) == Statements(group[m])[stmt[m]]
Obj(m)  == <<group[m], stmt[m]>>

\* The table lock a statement takes and keeps until its transaction ends: SHARE for
\* an index, SHARE UPDATE EXCLUSIVE for a comment, ACCESS EXCLUSIVE for a change of
\* the table; CREATE TABLE IF NOT EXISTS locks no table of a peer.
LockOf == [table |-> {}, index |-> {"share"}, comment |-> {"update"},
           column |-> {"exclusive"}, check |-> {"exclusive"}]
LocksFor(m) == {Stmt(m).on} \X LockOf[Stmt(m).do]
Conflict(k, l) == k[1] = l[1] /\ ~(k[2] = "share" /\ l[2] = "share")
Holding(m) == {d \in Migrators \ {m} : \E k \in tx[d].locks, l \in LocksFor(m) : Conflict(k, l)}
LockFree(m) == Holding(m) = {}
Seen(m) == Obj(m) \in objects \cup tx[m].objects
Creating(m) == {d \in Migrators \ {m} : Obj(m) \in tx[d].objects}
PendingElsewhere(m) == Creating(m) # {}

\* The DO block drops every constraint on kind and adds the wide one.  A peer that
\* did the same in between left one under the same generated name.
Widened(old) == {Wide}

\* A mutant of v1 that adds its CHECK again on every run.
KindsAfterAgain(m, old) ==
  IF Stmt(m).do = "check" THEN Widened(old)
  ELSE IF Obj(m) = RecordTable THEN {Narrow} ELSE old

KindsAfter(m, old) ==
  IF Stmt(m).do = "check" THEN Widened(old)
  ELSE IF Obj(m) = RecordTable /\ ~Seen(m) THEN {Narrow} ELSE old

NewObjects(m) == IF Creates(Stmt(m)) THEN {Obj(m)} ELSE {}

AfterStatement(m) ==
  IF stmt[m] < Len(Statements(group[m]))
  THEN stmt' = [stmt EXCEPT ![m] = @ + 1] /\ Goto(m, "stmt")
  ELSE UNCHANGED stmt /\ Goto(m, "record")

ExecuteInTx(m) ==
  /\ pc[m] = "stmt" /\ Transactional(group[m])
  /\ LockFree(m) /\ (Seen(m) \/ ~PendingElsewhere(m))
  /\ LET old == IF tx[m].kinds # {} THEN tx[m].kinds ELSE kinds
         new == KindsAfter(m, old)
     IN  tx' = [tx EXCEPT ![m].objects = @ \cup (NewObjects(m) \ objects),
                          ![m].kinds = IF new # old THEN new ELSE @,
                          ![m].locks = @ \cup LocksFor(m)]
  /\ AfterStatement(m)
  /\ UNCHANGED <<catalog, current, group, result, calls, behind>>

\* Each statement of a direct group commits on its own. The catalog is that of names: a
\* CREATE INDEX CONCURRENTLY that fails half-way leaves an invalid index under its name,
\* which is this step followed by Abort. Whether an index is valid is not modelled.
ExecuteDirect(m) ==
  /\ pc[m] = "stmt" /\ ~Transactional(group[m])
  /\ LockFree(m)
  /\ objects' = objects \cup NewObjects(m)
  /\ AfterStatement(m)
  /\ UNCHANGED <<kinds, versions, prefix, current, group, tx, result, calls, behind>>

\* IF NOT EXISTS does not see a peer's uncommitted object: the statement goes on
\* to create it and waits for the peer's transaction.
CreateWaits(m) ==
  /\ pc[m] = "stmt" /\ Transactional(group[m]) /\ LockFree(m)
  /\ ~Seen(m) /\ PendingElsewhere(m)
  /\ Goto(m, "blocked")
  /\ UNCHANGED <<catalog, current, group, stmt, tx, result, calls, behind>>

\* The peer has committed: a unique violation in the catalog.
CreateCollides(m) == pc[m] = "blocked" /\ Obj(m) \in objects /\ Fail(m, "error")

\* The peer has rolled back.
CreateResumes(m) ==
  /\ pc[m] = "blocked" /\ Obj(m) \notin objects /\ ~PendingElsewhere(m)
  /\ Goto(m, "stmt")
  /\ UNCHANGED <<catalog, current, group, stmt, tx, result, calls, behind>>

-----------------------------------------------------------------------------
Recording(m) == {d \in Migrators \ {m} : group[m] \in tx[d].versions}

\* A mutant that records the version through the pool instead of the transaction.
RecordVersionOutside(m) ==
  /\ pc[m] = "record"
  /\ versions' = versions \cup {group[m]}
  /\ Goto(m, IF Transactional(group[m]) THEN "commit" ELSE "next")
  /\ UNCHANGED <<objects, kinds, prefix, current, group, stmt, tx, result, calls, behind>>

\* INSERT ... ON CONFLICT DO NOTHING waits for a peer's uncommitted row.
RecordVersion(m) ==
  /\ pc[m] = "record"
  /\ Recording(m) = {}
  /\ IF Transactional(group[m])
     THEN /\ tx' = [tx EXCEPT ![m].versions = {group[m]} \ versions]
          /\ Goto(m, "commit")
          /\ UNCHANGED versions
     ELSE /\ versions' = versions \cup {group[m]}
          /\ Goto(m, "next")
          /\ UNCHANGED tx
  /\ UNCHANGED <<objects, kinds, prefix, current, group, stmt, result, calls, behind>>

Apply(m) ==
  /\ pc[m] = "commit"
  /\ objects' = objects \cup tx[m].objects
  /\ kinds' = IF tx[m].kinds # {} THEN tx[m].kinds ELSE kinds
  /\ versions' = versions \cup tx[m].versions
  /\ UNCHANGED prefix

Commit(m) ==
  /\ Apply(m)
  /\ tx' = [tx EXCEPT ![m] = NoTx]
  /\ Goto(m, "next")
  /\ UNCHANGED <<current, group, stmt, result, calls, behind>>

\* COMMIT took effect but its reply was lost.
CommitReplyLost(m) == Apply(m) /\ Return(m, "error")

\* A mutant that logs a failed group and goes on with the next one.
AbortGoesOn(m) ==
  /\ pc[m] \notin {"idle", "exists", "version", "next"}
  /\ tx' = [tx EXCEPT ![m] = NoTx]
  /\ Goto(m, "next")
  /\ UNCHANGED <<catalog, current, group, stmt, result, calls, behind>>

\* A statement fails, the context is cancelled or the process dies.
Abort(m) == pc[m] # "idle" /\ Fail(m, "error")

\* The peers a call waits for.
WaitsFor(m) ==
  CASE pc[m] = "stmt"    -> Holding(m)
    [] pc[m] = "blocked" -> Creating(m)
    [] pc[m] = "record"  -> Recording(m)
    [] OTHER -> {}

\* m is on a circle of calls each waiting for the next one.
Deadlocked(m) ==
  WaitsFor(m) # {} /\ \E S \in SUBSET Migrators : m \in S /\ \E next \in [S -> S] :
    (\A a \in S : next[a] \in WaitsFor(a)) /\ (\A b \in S : \E a \in S : next[a] = b)

\* Postgres aborts a transaction of the circle.
DeadlockAbort(m) == Deadlocked(m) /\ Fail(m, "error")

-----------------------------------------------------------------------------
Step(m) ==
  \/ CheckExists(m)
  \/ \E v \in versions \cup {0} : ReadVersion(m, v)
  \/ NextGroup(m) \/ ExecuteInTx(m) \/ ExecuteDirect(m)
  \/ CreateWaits(m) \/ CreateCollides(m) \/ CreateResumes(m)
  \/ RecordVersion(m) \/ Commit(m) \/ DeadlockAbort(m)

Next == \E m \in Migrators : Start(m) \/ Step(m) \/ CommitReplyLost(m) \/ Abort(m)

Spec == Init /\ [][Next]_vars

\* A call whose next statement can run runs it, and Postgres looks for deadlocks;
\* other errors and crashes may not happen.
FairSpec == Spec /\ \A m \in Migrators : WF_vars(Step(m))

-----------------------------------------------------------------------------
(***************************************************************************)
(* Properties.                                                             *)
(***************************************************************************)

\* Every variable stays in its type, and a call that runs no group has no transaction
\* and no lock left (runGroupInTx).
TypeOK ==
  /\ \A m \in Migrators :
       pc[m] \in {"idle", "exists", "version", "next"} => tx[m] = NoTx
  /\ \A o \in objects : o \in Nat \X Nat
  /\ kinds \subseteq SUBSET Wide
  /\ versions \subseteq Nat
  /\ prefix \in Prefixes
  /\ pc \in [Migrators -> Phases]
  /\ current \in [Migrators -> Nat]
  /\ group \in [Migrators -> Nat]
  /\ stmt \in [Migrators -> Nat]
  /\ result \in [Migrators -> Results]
  /\ calls \in 0..MaxCalls
  /\ behind \in [Migrators -> BOOLEAN]

\* The recorded versions have no gap, so MAX(version) stands for all of them: a
\* group that was skipped because a later one is recorded was never missed, however
\* migrators of different releases overtake each other and fail (Migrate).
VersionsContiguous == \A v \in versions : \A u \in 1..v : u \in versions

\* Kinds a memory_record row may have.
Admitted == {k \in Wide : \A c \in kinds : k \in c}

\* A version is recorded only when everything its group does is in the catalog: no
\* crash between two statements, no lost race and no repeated run leaves a version
\* row without its objects or without the widened kind check (runGroupInTx,
\* runGroupDirect).
RecordedIsApplied ==
  \A v \in versions : ObjectsOf(v) \subseteq objects /\ (v = 3 => Admitted = Wide)

\* A migrator that was told all is well finds every group of its release recorded,
\* although it read the version only once, before its peers went on (Migrate).
OkMeansComplete == \A m \in Migrators : result[m] = "ok" => 1..HeadVersion[m] \subseteq versions

\* A kind that rows could have before can still be written afterwards: a migrator
\* that read an old version and runs old groups again takes nothing away.
KindsNeverNarrow == [][kinds # {} => Admitted \subseteq Admitted']_vars

\* ErrSchemaVersionAhead: a release that is more than AcceptableSkewVersions behind
\* the database it finds gets no further than reading the version (Migrate;
\* schema_test.go "expected error for too-far-ahead schema version").
AheadRejected ==
  \A m \in Migrators : behind[m] => pc[m] \in {"exists", "version"}

\* Every call of Migrate returns, though calls wait for each other's table locks,
\* catalog rows and version rows, and two reruns of group 1 deadlock on the lock of
\* the trace table that COMMENT upgrades (runGroupInTx).
Returns == \A m \in Migrators : pc[m] # "idle" ~> pc[m] = "idle"

=============================================================================

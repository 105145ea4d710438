--------------------------- MODULE MigrationProofs ---------------------------
(***************************************************************************)
(* Proofs about Migration for any migrators, releases, installed versions  *)
(* and direct groups.                                                      *)
(***************************************************************************)
EXTENDS Migration, TLAPS

-----------------------------------------------------------------------------
(***************************************************************************)
(* The inductive invariant.                                                *)
(***************************************************************************)

KindSets == {{}, {Narrow}, {Wide}}
Doings == {"table", "index", "column", "check", "comment"}
Tables == {"schema_version", "memory_record", "outbox_event", "trace", "memory_dedupe_index",
           "memory_event"}
Modes  == {"share", "update", "exclusive"}

\* What a transaction may have done.
Transaction ==
  [objects : SUBSET (Nat \X Nat), kinds : KindSets, versions : SUBSET Nat,
   locks : SUBSET (Tables \X Modes)]

TypeInv == TypeOK /\ tx \in [Migrators -> Transaction] /\ kinds \in KindSets

Running(m) == pc[m] \in {"stmt", "blocked", "record", "commit"}

\* How many statements of its group a call has behind it.
Executed(m) ==
  IF pc[m] \in {"stmt", "blocked"} THEN stmt[m] - 1 ELSE Len(Statements(group[m]))

\* What those statements create is there for the call to see.
Created(m) ==
  \A i \in 1..Executed(m) :
    Creates(Statements(group[m])[i]) => <<group[m], i>> \in objects \cup tx[m].objects

\* Past the check of group 3 the wide constraint is there for the call to see.
WideSeen(m) ==
  group[m] = 3 /\ Executed(m) >= 1 => tx[m].kinds = {Wide} \/ kinds = {Wide}

\* A call has every version below the group it works on, and the work done so far.
CallOK(m) ==
  /\ pc[m] \in {"idle", "exists", "version"} => current[m] = 0 /\ group[m] = 0
  /\ 1..current[m] \subseteq versions
  /\ pc[m] = "next" => 1..group[m] \subseteq versions
  /\ Running(m) =>
       /\ group[m] # 0 /\ 1..(group[m] - 1) \subseteq versions
       /\ ~Transactional(group[m]) => tx[m] = NoTx /\ pc[m] \in {"stmt", "record"}
       /\ Created(m) /\ WideSeen(m)
  /\ pc[m] \in {"stmt", "blocked"} => stmt[m] \in 1..Len(Statements(group[m]))
  /\ pc[m] = "commit" => group[m] \in versions \cup tx[m].versions
  /\ tx[m].versions \subseteq {group[m]}
  /\ pc[m] # "commit" => tx[m].versions = {}

CallInv == \A m \in Migrators : CallOK(m)

\* An object that is being created is new, and one transaction creates it.
PendingInv ==
  \A m \in Migrators : \A o \in tx[m].objects :
    /\ Transactional(o[1]) /\ o \notin objects
    /\ \A d \in Migrators \ {m} : o \notin tx[d].objects

\* A constraint on kind needs the table; only its creation brings the narrow one.
KindsInv ==
  /\ kinds # {} => RecordTable \in objects
  /\ \A m \in Migrators :
       /\ tx[m].kinds = {Narrow} => RecordTable \in tx[m].objects
       /\ tx[m].kinds = {Wide} => RecordTable \in objects

RecordedInv ==
  \A v \in versions : v # 0 /\ ObjectsOf(v) \subseteq objects /\ (v = 3 => kinds = {Wide})

Inv ==
  /\ TypeInv /\ CallInv /\ PendingInv /\ KindsInv /\ RecordedInv
  /\ VersionsContiguous /\ OkMeansComplete

-----------------------------------------------------------------------------
(* Statements and constraints. *)

\* The constraints a transaction tells apart.
LEMMA KindFacts == {Narrow} # {Wide} /\ {Narrow} # {} /\ {Wide} # {} /\ Narrow # Wide
<1>1. "working" \in Wide /\ "working" \notin Narrow
  BY DEF Wide, Narrow
<1> QED
  BY <1>1

\* Every group has statements; the kind check is the first of group 3, the tables of
\* group 1 come first.
LEMMA StatementFacts ==
  ASSUME NEW g \in Nat \ {0}
  PROVE  /\ Len(Statements(g)) \in Nat \ {0}
         /\ DOMAIN Statements(g) = 1..Len(Statements(g))
         /\ \A i \in 1..Len(Statements(g)) :
              /\ Statements(g)[i].do \in Doings /\ Statements(g)[i].on \in Tables
              /\ Statements(g)[i].do = "check" <=> g = 3 /\ i = 1
         /\ g = 1 => /\ 1 \in 1..Len(Statements(g)) /\ 2 \in 1..Len(Statements(g))
                     /\ Creates(Statements(g)[1]) /\ Creates(Statements(g)[2])
<1>1. CASE g = 1
  <2>1. Len(Statements(g)) = 8 /\ DOMAIN Statements(g) = 1..8
    BY <1>1 DEF Statements
  <2>2. \A i \in 1..8 : /\ Statements(g)[i].do \in Doings /\ Statements(g)[i].on \in Tables
                        /\ Statements(g)[i].do # "check"
    BY <1>1 DEF Statements, Statement, Doings, Tables
  <2>3. Creates(Statements(g)[1]) /\ Creates(Statements(g)[2])
    BY <1>1 DEF Statements, Statement, Creates
  <2> QED
    BY <1>1, <2>1, <2>2, <2>3
<1>2. CASE g # 1
  <2>1. Len(Statements(g)) = 2 /\ DOMAIN Statements(g) = 1..2
    BY <1>2 DEF Statements
  <2>2. \A i \in 1..2 : /\ Statements(g)[i].do \in Doings /\ Statements(g)[i].on \in Tables
                        /\ Statements(g)[i].do = "check" <=> g = 3 /\ i = 1
    BY <1>2 DEF Statements, Statement, Doings, Tables
  <2> QED
    BY <1>2, <2>1, <2>2
<1> QED
  BY <1>1, <1>2

\* The objects of a group are those its CREATE statements make.
LEMMA ObjectFacts ==
  ASSUME NEW g \in Nat \ {0}
  PROVE  /\ ObjectsOf(g) = {<<g, i>> : i \in {j \in 1..Len(Statements(g)) : Creates(Statements(g)[j])}}
         /\ ObjectsOf(g) \subseteq Nat \X Nat
         /\ g = 1 => VersionTable \in ObjectsOf(g) /\ RecordTable \in ObjectsOf(g)
<1>1. ObjectsOf(g) = {<<g, i>> : i \in {j \in 1..Len(Statements(g)) : Creates(Statements(g)[j])}}
  BY StatementFacts DEF ObjectsOf
<1>2. ObjectsOf(g) \subseteq Nat \X Nat
  BY <1>1, StatementFacts
<1>3. ASSUME g = 1
      PROVE  VersionTable \in ObjectsOf(g) /\ RecordTable \in ObjectsOf(g)
  <2>1. 1 \in 1..Len(Statements(g)) /\ 2 \in 1..Len(Statements(g))
    BY <1>3, StatementFacts
  <2> QED
    BY <1>1, <1>3, <2>1, StatementFacts DEF VersionTable, RecordTable
<1> QED
  BY <1>1, <1>2, <1>3

-----------------------------------------------------------------------------
(* Steps in general. *)

\* A transaction that has done nothing.
LEMMA NoTxType == NoTx \in Transaction
BY DEF NoTx, Transaction, KindSets

\* What a step of one call leaves true of the others: the catalog only grows, and a
\* wide constraint stays.
LEMMA OthersOK ==
  ASSUME Inv, NEW m \in Migrators, NEW d \in Migrators \ {m},
         pc'[d] = pc[d], current'[d] = current[d], group'[d] = group[d], stmt'[d] = stmt[d],
         tx'[d] = tx[d],
         objects \subseteq objects', versions \subseteq versions',
         kinds = {Wide} => kinds' = {Wide}
  PROVE  CallOK(d)'
<1>1. CallOK(d)
  BY DEF Inv, CallInv
<1>2. Executed(d)' = Executed(d) /\ Running(d)' = Running(d)
  BY DEF Executed, Running
<1>3. Created(d) => Created(d)'
  BY <1>2 DEF Created
<1>4. WideSeen(d) => WideSeen(d)'
  BY <1>2 DEF WideSeen
<1> QED
  BY <1>1, <1>2, <1>3, <1>4 DEF CallOK

\* A step of one call inside its transaction.
LEMMA LocalStep ==
  ASSUME Inv, NEW m \in Migrators, TypeInv', CallOK(m)', OkMeansComplete',
         UNCHANGED <<objects, kinds, versions>>,
         \A d \in Migrators \ {m} :
           /\ pc'[d] = pc[d] /\ current'[d] = current[d] /\ group'[d] = group[d]
           /\ stmt'[d] = stmt[d] /\ tx'[d] = tx[d],
         \A o \in tx'[m].objects : o \notin tx[m].objects =>
           /\ Transactional(o[1]) /\ o \notin objects
           /\ \A d \in Migrators \ {m} : o \notin tx[d].objects,
         tx'[m].kinds = {Narrow} => RecordTable \in tx'[m].objects,
         tx'[m].kinds = {Wide} => RecordTable \in objects
  PROVE  Inv'
<1>1. CallInv'
  BY OthersOK DEF CallInv
<1>2. PendingInv'
  BY DEF Inv, PendingInv
<1>3. KindsInv'
  BY DEF Inv, KindsInv
<1>4. RecordedInv' /\ VersionsContiguous'
  BY DEF Inv, RecordedInv, VersionsContiguous
<1> QED
  BY <1>1, <1>2, <1>3, <1>4 DEF Inv

\* A call that returns gives back what its transaction holds.
LEMMA ReturnInv ==
  ASSUME Inv, NEW m \in Migrators, NEW how \in Results, Fail(m, how),
         how = "ok" => 1..HeadVersion[m] \subseteq versions
  PROVE  Inv'
<1> USE DEF Fail, Return, catalog
<1>1. TypeInv'
  BY NoTxType DEF Inv, TypeInv, TypeOK, Phases
<1>2. CallOK(m)'
  BY DEF Inv, TypeInv, TypeOK, CallOK, Running, NoTx
<1>3. OkMeansComplete'
  BY DEF Inv, TypeInv, TypeOK, OkMeansComplete
<1>4. /\ tx'[m].objects = {} /\ tx'[m].kinds = {}
      /\ \A d \in Migrators \ {m} :
           /\ pc'[d] = pc[d] /\ current'[d] = current[d] /\ group'[d] = group[d]
           /\ stmt'[d] = stmt[d] /\ tx'[d] = tx[d]
  BY DEF Inv, TypeInv, TypeOK, NoTx
<1> QED
  BY <1>1, <1>2, <1>3, <1>4, KindFacts, LocalStep

-----------------------------------------------------------------------------
(* One lemma per action. *)

\* A run begins with no lock and no transaction.
LEMMA StartInv ==
  ASSUME Inv, NEW m \in Migrators, Start(m)
  PROVE  Inv'
<1> USE DEF Start, Goto, catalog
<1>1. TypeInv'
  <2>1. behind' \in [Migrators -> BOOLEAN]
    <3> DEFINE far == \E v \in versions : v > HeadVersion[m] + AcceptableSkewVersions
    <3>1. far \in BOOLEAN
      BY Zenon
    <3>2. behind' = behind \/ behind' = [behind EXCEPT ![m] = far]
      OBVIOUS
    <3> HIDE DEF far
    <3> QED
      BY <3>1, <3>2 DEF Inv, TypeInv, TypeOK
  <2>2. calls' \in 0..MaxCalls
    BY MigrationAssumption DEF Inv, TypeInv, TypeOK
  <2>3. pc' \in [Migrators -> Phases] /\ result' \in [Migrators -> Results]
    BY DEF Inv, TypeInv, TypeOK, Phases, Results
  <2>4. \A d \in Migrators : pc'[d] \in {"idle", "exists", "version", "next"} => tx'[d] = NoTx
    BY DEF Inv, TypeInv, TypeOK
  <2> QED
    BY <2>1, <2>2, <2>3, <2>4 DEF Inv, TypeInv, TypeOK
<1>2. CallOK(m)'
  BY DEF Inv, TypeInv, TypeOK, CallInv, CallOK, Running
<1>3. OkMeansComplete'
  BY DEF Inv, TypeInv, TypeOK, OkMeansComplete
<1> QED
  BY <1>1, <1>2, <1>3, LocalStep DEF Inv, TypeInv, TypeOK, KindsInv

\* Whether the version table is there only decides where a run goes on.
LEMMA CheckExistsInv ==
  ASSUME Inv, NEW m \in Migrators, CheckExists(m)
  PROVE  Inv'
<1> USE DEF CheckExists, Goto, catalog
<1>1. TypeInv'
  BY DEF Inv, TypeInv, TypeOK, Phases
<1>2. CallOK(m)'
  BY DEF Inv, TypeInv, TypeOK, CallInv, CallOK, Running
<1>3. OkMeansComplete'
  BY DEF Inv, TypeInv, TypeOK, OkMeansComplete
<1> QED
  BY <1>1, <1>2, <1>3, LocalStep DEF Inv, TypeInv, TypeOK, KindsInv

\* The highest version stands for all below it.
LEMMA ReadVersionInv ==
  ASSUME Inv, NEW m \in Migrators, NEW v \in versions \cup {0}, ReadVersion(m, v)
  PROVE  Inv'
<1>1. CASE TooFarAhead(m, v)
  BY <1>1, ReturnInv DEF ReadVersion, Results
<1>2. CASE ~TooFarAhead(m, v)
  <2> USE DEF catalog
  <2>0. /\ pc[m] = "version" /\ \A u \in versions : u <= v
        /\ pc' = [pc EXCEPT ![m] = "next"] /\ current' = [current EXCEPT ![m] = v]
        /\ UNCHANGED <<catalog, group, stmt, tx, result, calls, behind>>
    BY <1>2 DEF ReadVersion, Goto
  <2>1. TypeInv'
    BY <2>0 DEF Inv, TypeInv, TypeOK, Phases
  <2>2. 1..v \subseteq versions
    BY DEF Inv, VersionsContiguous
  <2>3. CallOK(m)'
    BY <2>0, <2>2 DEF Inv, TypeInv, TypeOK, CallInv, CallOK, Running
  <2>4. OkMeansComplete'
    BY <2>0 DEF Inv, TypeInv, TypeOK, OkMeansComplete
  <2> QED
    BY <2>0, <2>1, <2>3, <2>4, LocalStep DEF Inv, TypeInv, TypeOK, KindsInv
<1> QED
  BY <1>1, <1>2

\* The next group follows on versions that are recorded.
LEMMA NextGroupInv ==
  ASSUME Inv, NEW m \in Migrators, NextGroup(m)
  PROVE  Inv'
<1> DEFINE g == Later(current[m], group[m]) + 1
<1>1. g \in Nat \ {0} /\ 1..(g - 1) \subseteq versions
  BY DEF Inv, TypeInv, TypeOK, CallInv, CallOK, NextGroup, Later
<1> HIDE DEF g
<1>2. CASE g > HeadVersion[m]
  <2>1. 1..HeadVersion[m] \subseteq versions
    BY <1>1, <1>2, MigrationAssumption
  <2> QED
    BY <1>2, <2>1, ReturnInv DEF NextGroup, Results, g
<1>3. CASE g <= HeadVersion[m]
  <2>1. /\ pc[m] = "next" /\ pc' = [pc EXCEPT ![m] = "stmt"]
        /\ group' = [group EXCEPT ![m] = g] /\ stmt' = [stmt EXCEPT ![m] = 1]
        /\ UNCHANGED <<catalog, current, tx, result, calls, behind>>
    BY <1>1, <1>3, MigrationAssumption DEF NextGroup, Goto, g
  <2>2. TypeInv'
    BY <1>1, <2>1 DEF Inv, TypeInv, TypeOK, Phases, catalog
  <2>3. tx[m] = NoTx /\ tx'[m] = NoTx
    BY <2>1 DEF Inv, TypeInv, TypeOK
  <2>4. Executed(m)' = 0 /\ pc'[m] = "stmt" /\ group'[m] = g /\ stmt'[m] = 1
    BY <2>1 DEF Inv, TypeInv, TypeOK, Executed
  <2>5. Created(m)' /\ WideSeen(m)'
    BY <2>4 DEF Created, WideSeen
  <2>6. 1 \in 1..Len(Statements(g))
    BY <1>1, StatementFacts
  <2>7. CallOK(m)'
    BY <1>1, <2>1, <2>3, <2>4, <2>5, <2>6
    DEF Inv, TypeInv, TypeOK, CallInv, CallOK, Running, NoTx, catalog
  <2>8. OkMeansComplete'
    BY <2>1 DEF Inv, OkMeansComplete, catalog
  <2> QED
    BY <2>1, <2>2, <2>7, <2>8, LocalStep DEF Inv, TypeInv, TypeOK, KindsInv, catalog
<1> QED
  BY <1>1, <1>2, <1>3, MigrationAssumption

\* A statement more is behind the call.
LEMMA AfterStatementFacts ==
  ASSUME Inv, NEW m \in Migrators, pc[m] = "stmt", AfterStatement(m), UNCHANGED group
  PROVE  /\ pc' \in [Migrators -> Phases] /\ stmt' \in [Migrators -> Nat]
         /\ pc'[m] \in {"stmt", "record"} /\ Executed(m)' = stmt[m]
         /\ pc'[m] = "stmt" => stmt'[m] \in 1..Len(Statements(group[m]))
         /\ \A d \in Migrators \ {m} : pc'[d] = pc[d] /\ stmt'[d] = stmt[d]
<1> USE DEF AfterStatement, Goto
<1>1. /\ pc \in [Migrators -> Phases] /\ stmt \in [Migrators -> Nat]
      /\ group[m] \in Nat \ {0} /\ stmt[m] \in 1..Len(Statements(group[m]))
      /\ Len(Statements(group[m])) \in Nat
  BY StatementFacts DEF Inv, TypeInv, TypeOK, CallInv, CallOK, Running
<1>2. CASE stmt[m] < Len(Statements(group[m]))
  BY <1>1, <1>2 DEF Executed, Phases
<1>3. CASE stmt[m] = Len(Statements(group[m]))
  BY <1>1, <1>3 DEF Executed, Phases
<1> QED
  BY <1>1, <1>2, <1>3

\* What the statement at hand is, and what it locks and creates.
LEMMA StmtFacts ==
  ASSUME Inv, NEW m \in Migrators, pc[m] \in {"stmt", "blocked"}
  PROVE  /\ group[m] \in Nat \ {0} /\ stmt[m] \in 1..Len(Statements(group[m]))
         /\ stmt[m] \in Nat \ {0} /\ Obj(m) = <<group[m], stmt[m]>> /\ Obj(m) \in Nat \X Nat
         /\ Stmt(m).do = "check" <=> group[m] = 3 /\ stmt[m] = 1
         /\ LocksFor(m) \subseteq Tables \X Modes
         /\ Creates(Stmt(m)) => NewObjects(m) = {Obj(m)}
         /\ ~Creates(Stmt(m)) => NewObjects(m) = {}
         /\ Obj(m) = RecordTable => Creates(Stmt(m))
<1>1. /\ group[m] \in Nat \ {0} /\ stmt[m] \in 1..Len(Statements(group[m]))
      /\ Len(Statements(group[m])) \in Nat
  BY StatementFacts DEF Inv, TypeInv, TypeOK, CallInv, CallOK, Running
<1>2. /\ Stmt(m).do \in Doings /\ Stmt(m).on \in Tables
      /\ Stmt(m).do = "check" <=> group[m] = 3 /\ stmt[m] = 1
  BY <1>1, StatementFacts DEF Stmt
<1>3. LocksFor(m) \subseteq Tables \X Modes
  BY <1>2 DEF LocksFor, LockOf, Doings, Modes
<1>4. Obj(m) = RecordTable => Creates(Stmt(m))
  BY <1>1, StatementFacts DEF Obj, RecordTable, Stmt
<1> QED
  BY <1>1, <1>2, <1>3, <1>4 DEF Obj, NewObjects

\* A transaction creates only what nobody has or is creating, and changes the kinds
\* only with the record table or with the check of group 3.
LEMMA ExecuteInTxInv ==
  ASSUME Inv, NEW m \in Migrators, ExecuteInTx(m)
  PROVE  Inv'
<1> DEFINE old == IF tx[m].kinds # {} THEN tx[m].kinds ELSE kinds
           new == KindsAfter(m, old)
           N == NewObjects(m) \ objects
           K == IF new # old THEN new ELSE tx[m].kinds
           L == LocksFor(m)
           t == [tx[m] EXCEPT !.objects = @ \cup N, !.kinds = K, !.locks = @ \cup L]
<1>1. /\ pc[m] = "stmt" /\ Transactional(group[m]) /\ (Seen(m) \/ ~PendingElsewhere(m))
      /\ tx' = [tx EXCEPT ![m] = t] /\ AfterStatement(m)
      /\ UNCHANGED <<catalog, current, group, result, calls, behind>>
  BY DEF ExecuteInTx
<1>2. tx[m] \in Transaction /\ tx[m].versions = {} /\ kinds \in KindSets
  BY <1>1 DEF Inv, TypeInv, CallInv, CallOK
<1>3. \A o \in N : /\ o = Obj(m) /\ o \in Nat \X Nat /\ o[1] = group[m] /\ o \notin objects
                   /\ o \notin tx[m].objects =>
                        \A d \in Migrators \ {m} : o \notin tx[d].objects
  BY <1>1, StmtFacts DEF Seen, PendingElsewhere, Creating
<1> DEFINE KindsOK == /\ K \in KindSets
                      /\ K = {Narrow} => RecordTable \in tx[m].objects \cup N
                      /\ K = {Wide} => RecordTable \in objects
                      /\ Stmt(m).do = "check" => K = {Wide} \/ kinds = {Wide}
                      /\ Stmt(m).do # "check" /\ group[m] = 3 => K = tx[m].kinds
<1>4. ASSUME Stmt(m).do = "check"
      PROVE  KindsOK
  <2>1. new = {Wide} /\ group[m] = 3
    BY <1>1, <1>4, StmtFacts DEF KindsAfter, Widened
  <2>2. RecordTable \in objects
    <3>1. 1 \in versions
      BY <1>1, <2>1 DEF Inv, CallInv, CallOK, Running
    <3> QED
      BY <3>1, ObjectFacts DEF Inv, RecordedInv
  <2> HIDE DEF new
  <2>3. /\ K \in KindSets /\ K # {Narrow} /\ (K = {Wide} \/ kinds = {Wide})
    BY <1>2, <2>1, KindFacts DEF KindSets, Transaction
  <2> QED
    BY <1>4, <2>2, <2>3
<1>5. ASSUME Stmt(m).do # "check", Obj(m) = RecordTable, ~Seen(m)
      PROVE  KindsOK
  <2>1. new = {Narrow} /\ group[m] # 3
    BY <1>1, <1>5, StmtFacts DEF KindsAfter, RecordTable
  <2>2. RecordTable \notin objects /\ RecordTable \notin tx[m].objects
    BY <1>5 DEF Seen
  <2>3. tx[m].kinds = {} /\ kinds = {}
    BY <1>2, <2>2 DEF Inv, KindsInv, Transaction, KindSets
  <2>4. RecordTable \in N
    BY <1>1, <1>5, <2>2, StmtFacts
  <2> HIDE DEF new
  <2>5. K = {Narrow}
    BY <2>1, <2>3, KindFacts
  <2> QED
    BY <1>5, <2>1, <2>4, <2>5, KindFacts DEF KindSets
<1>6. ASSUME Stmt(m).do # "check", ~(Obj(m) = RecordTable /\ ~Seen(m))
      PROVE  KindsOK
  <2>1. K = tx[m].kinds
    BY <1>6 DEF KindsAfter
  <2> HIDE DEF K
  <2> QED
    BY <1>2, <1>6, <2>1 DEF Inv, KindsInv, Transaction
<1>7. KindsOK
  BY <1>4, <1>5, <1>6
<1> HIDE DEF N, K, L
<1>8. /\ t \in Transaction /\ t.versions = {} /\ t.kinds = K
      /\ t.objects = tx[m].objects \cup N
  BY <1>1, <1>2, <1>3, <1>7, StmtFacts DEF Transaction, L
<1>9. /\ pc'[m] \in {"stmt", "record"} /\ Executed(m)' = stmt[m]
      /\ pc'[m] = "stmt" => stmt'[m] \in 1..Len(Statements(group[m]))
      /\ \A d \in Migrators \ {m} : pc'[d] = pc[d] /\ stmt'[d] = stmt[d] /\ tx'[d] = tx[d]
      /\ tx'[m] = t
  BY <1>1, AfterStatementFacts DEF Inv, TypeInv
<1> HIDE DEF t
<1>10. TypeInv'
  BY <1>1, <1>8, <1>9, AfterStatementFacts DEF Inv, TypeInv, TypeOK, catalog
<1>11. Created(m)'
  <2>1. ASSUME NEW i \in 1..stmt[m], Creates(Statements(group[m])[i])
        PROVE  <<group[m], i>> \in objects \cup tx[m].objects \cup N
    <3>1. CASE i < stmt[m]
      BY <1>1, <2>1, <3>1, StmtFacts DEF Inv, CallInv, CallOK, Running, Created, Executed
    <3>2. CASE i = stmt[m]
      BY <1>1, <2>1, <3>2, StmtFacts DEF Stmt, N
    <3> QED
      BY <1>1, <2>1, <3>1, <3>2, StmtFacts
  <2> QED
    BY <1>1, <1>8, <1>9, <2>1 DEF Created, catalog
<1>12. WideSeen(m)'
  <2>1. ASSUME group[m] = 3
        PROVE  K = {Wide} \/ kinds = {Wide}
    <3>1. CASE stmt[m] = 1
      BY <1>1, <1>7, <2>1, <3>1, StmtFacts
    <3>2. CASE stmt[m] # 1
      <4>1. Stmt(m).do # "check" /\ Executed(m) >= 1
        BY <1>1, <3>2, StmtFacts DEF Executed
      <4> QED
        BY <1>1, <1>7, <2>1, <4>1 DEF Inv, CallInv, CallOK, Running, WideSeen
    <3> QED
      BY <3>1, <3>2
  <2> QED
    BY <1>1, <1>8, <1>9, <2>1 DEF WideSeen, catalog
<1>13. CallOK(m)'
  BY <1>1, <1>2, <1>8, <1>9, <1>11, <1>12 DEF Inv, CallInv, CallOK, Running, catalog
<1>14. OkMeansComplete'
  BY <1>1 DEF Inv, OkMeansComplete, catalog
<1> QED
  BY <1>1, <1>3, <1>7, <1>8, <1>9, <1>10, <1>13, <1>14, LocalStep DEF catalog

\* Direct groups come after the three that matter to the kinds; what they create no
\* transaction is creating.
LEMMA ExecuteDirectInv ==
  ASSUME Inv, NEW m \in Migrators, ExecuteDirect(m)
  PROVE  Inv'
<1>1. /\ pc[m] = "stmt" /\ ~Transactional(group[m]) /\ AfterStatement(m)
      /\ objects' = objects \cup NewObjects(m)
      /\ UNCHANGED <<kinds, versions, prefix, current, group, tx, result, calls, behind>>
  BY DEF ExecuteDirect
<1>2. group[m] \notin {1, 3} /\ tx[m] = NoTx
  BY <1>1, MigrationAssumption DEF Transactional, Inv, CallInv, CallOK, Running
<1>3. NewObjects(m) \subseteq Nat \X Nat /\ \A o \in NewObjects(m) : o[1] = group[m]
  BY <1>1, StmtFacts
<1>4. /\ pc'[m] \in {"stmt", "record"} /\ Executed(m)' = stmt[m]
      /\ pc'[m] = "stmt" => stmt'[m] \in 1..Len(Statements(group[m]))
      /\ \A d \in Migrators \ {m} : pc'[d] = pc[d] /\ stmt'[d] = stmt[d]
  BY <1>1, AfterStatementFacts
<1>5. TypeInv'
  BY <1>1, <1>2, <1>3, <1>4, AfterStatementFacts DEF Inv, TypeInv, TypeOK
<1>6. Created(m)'
  <2>1. ASSUME NEW i \in 1..stmt[m], Creates(Statements(group[m])[i])
        PROVE  <<group[m], i>> \in objects'
    <3>1. CASE i < stmt[m]
      BY <1>1, <1>2, <2>1, <3>1, StmtFacts
      DEF Inv, CallInv, CallOK, Running, Created, Executed, NoTx
    <3>2. CASE i = stmt[m]
      BY <1>1, <2>1, <3>2, StmtFacts DEF Stmt
    <3> QED
      BY <1>1, <2>1, <3>1, <3>2, StmtFacts
  <2> QED
    BY <1>1, <1>4, <2>1 DEF Created
<1>7. CallOK(m)'
  BY <1>1, <1>2, <1>4, <1>6 DEF Inv, CallInv, CallOK, Running, WideSeen
<1>8. CallInv'
  BY <1>1, <1>4, <1>7, OthersOK DEF CallInv
<1>9. PendingInv'
  BY <1>1, <1>3 DEF Inv, PendingInv
<1>10. KindsInv' /\ RecordedInv' /\ VersionsContiguous' /\ OkMeansComplete'
  BY <1>1 DEF Inv, KindsInv, RecordedInv, VersionsContiguous, OkMeansComplete
<1> QED
  BY <1>5, <1>8, <1>9, <1>10 DEF Inv

\* Waiting for another creator changes nothing but the place a run is in.
LEMMA WaitingInv ==
  ASSUME Inv, NEW m \in Migrators, CreateWaits(m) \/ CreateResumes(m)
  PROVE  Inv'
<1>1. /\ pc[m] \in {"stmt", "blocked"} /\ Transactional(group[m])
      /\ pc' = [pc EXCEPT ![m] = pc'[m]] /\ pc'[m] \in {"stmt", "blocked"}
      /\ UNCHANGED <<catalog, current, group, stmt, tx, result, calls, behind>>
  BY DEF CreateWaits, CreateResumes, Goto, Inv, TypeInv, TypeOK, CallInv, CallOK, Running
<1>2. TypeInv'
  BY <1>1 DEF Inv, TypeInv, TypeOK, Phases, catalog
<1>3. Executed(m)' = Executed(m)
  BY <1>1 DEF Executed
<1>4. CallOK(m)'
  BY <1>1, <1>3 DEF Inv, CallInv, CallOK, Running, Created, WideSeen, catalog
<1>5. OkMeansComplete'
  BY <1>1 DEF Inv, OkMeansComplete, catalog
<1> QED
  BY <1>1, <1>2, <1>4, <1>5, LocalStep DEF Inv, TypeInv, TypeOK, KindsInv, catalog

\* A group whose statements are all behind the call has its objects.
LEMMA GroupDone ==
  ASSUME Inv, NEW m \in Migrators, pc[m] \in {"record", "commit"}
  PROVE  /\ group[m] \in Nat \ {0} /\ 1..(group[m] - 1) \subseteq versions
         /\ ObjectsOf(group[m]) \subseteq objects \cup tx[m].objects
         /\ group[m] = 3 => tx[m].kinds = {Wide} \/ kinds = {Wide}
<1>1. /\ group[m] \in Nat \ {0} /\ 1..(group[m] - 1) \subseteq versions
      /\ Created(m) /\ WideSeen(m) /\ Executed(m) = Len(Statements(group[m]))
  BY DEF Inv, TypeInv, TypeOK, CallInv, CallOK, Running, Executed
<1>2. ObjectsOf(group[m]) \subseteq objects \cup tx[m].objects
  BY <1>1, ObjectFacts DEF Created
<1>3. group[m] = 3 => tx[m].kinds = {Wide} \/ kinds = {Wide}
  <2>1. Len(Statements(group[m])) \in Nat \ {0}
    BY <1>1, StatementFacts
  <2>2. Executed(m) >= 1
    BY <1>1, <2>1
  <2> QED
    BY <1>1, <2>2 DEF WideSeen
<1> QED
  BY <1>1, <1>2, <1>3

\* A version is recorded after everything its group does, in the group's transaction
\* or after its last statement.
LEMMA RecordVersionInv ==
  ASSUME Inv, NEW m \in Migrators, RecordVersion(m)
  PROVE  Inv'
<1> DEFINE g == group[m]
<1>1. /\ pc[m] = "record" /\ g \in Nat \ {0} /\ 1..(g - 1) \subseteq versions
      /\ UNCHANGED <<objects, kinds, prefix, current, group, stmt, result, calls, behind>>
  BY GroupDone DEF RecordVersion
<1>2. CASE Transactional(g)
  <2> DEFINE t == [tx[m] EXCEPT !.versions = {g} \ versions]
  <2>1. /\ tx' = [tx EXCEPT ![m] = t] /\ pc' = [pc EXCEPT ![m] = "commit"] /\ versions' = versions
    BY <1>2 DEF RecordVersion, Goto
  <2>2. /\ t \in Transaction /\ t.versions = {g} \ versions /\ t.kinds = tx[m].kinds
        /\ t.objects = tx[m].objects
    BY <1>1 DEF Inv, TypeInv, Transaction
  <2> HIDE DEF t
  <2>3. TypeInv'
    BY <1>1, <2>1, <2>2 DEF Inv, TypeInv, TypeOK, Phases
  <2>4. Executed(m)' = Executed(m)
    BY <1>1, <2>1 DEF Executed, Inv, TypeInv, TypeOK
  <2>5. Created(m)' /\ WideSeen(m)'
    <3>1. Created(m) /\ WideSeen(m)
      BY <1>1 DEF Inv, CallInv, CallOK, Running
    <3>2. tx'[m] = t
      BY <2>1 DEF Inv, TypeInv
    <3> QED
      BY <1>1, <2>2, <2>4, <3>1, <3>2 DEF Created, WideSeen
  <2>6. CallOK(m)'
    BY <1>1, <1>2, <2>1, <2>2, <2>5
    DEF Inv, TypeInv, TypeOK, CallInv, CallOK, Running
  <2>7. OkMeansComplete'
    BY <1>1, <2>1 DEF Inv, OkMeansComplete
  <2> QED
    BY <1>1, <2>1, <2>2, <2>3, <2>6, <2>7, LocalStep DEF Inv, TypeInv, TypeOK, KindsInv
<1>3. CASE ~Transactional(g)
  <2>1. /\ versions' = versions \cup {g} /\ pc' = [pc EXCEPT ![m] = "next"] /\ tx' = tx
        /\ tx[m] = NoTx /\ g # 3
    BY <1>1, <1>3, MigrationAssumption
    DEF RecordVersion, Goto, Transactional, Inv, CallInv, CallOK, Running
  <2>2. TypeInv'
    BY <1>1, <2>1 DEF Inv, TypeInv, TypeOK, Phases
  <2>3. 1..g \subseteq versions'
    BY <1>1, <2>1
  <2>4. CallOK(m)'
    BY <1>1, <2>1, <2>3 DEF Inv, TypeInv, TypeOK, CallInv, CallOK, Running, NoTx
  <2>5. CallInv'
    BY <1>1, <2>1, <2>4, OthersOK DEF CallInv, Inv, TypeInv, TypeOK
  <2>6. PendingInv' /\ KindsInv' /\ OkMeansComplete'
    BY <1>1, <2>1 DEF Inv, PendingInv, KindsInv, OkMeansComplete
  <2>7. RecordedInv'
    BY <1>1, <2>1, GroupDone DEF Inv, RecordedInv, NoTx
  <2>8. VersionsContiguous'
    BY <1>1, <2>1, <2>3 DEF Inv, TypeInv, TypeOK, VersionsContiguous
  <2> QED
    BY <2>2, <2>5, <2>6, <2>7, <2>8 DEF Inv
<1> QED
  BY <1>2, <1>3

\* What COMMIT makes of the catalog: the group's objects, constraint and version
\* appear together.
LEMMA ApplyInv ==
  ASSUME Inv, NEW m \in Migrators, Apply(m), TypeInv', CallOK(m)', OkMeansComplete',
         tx'[m] = NoTx,
         \A d \in Migrators \ {m} :
           /\ pc'[d] = pc[d] /\ current'[d] = current[d] /\ group'[d] = group[d]
           /\ stmt'[d] = stmt[d] /\ tx'[d] = tx[d]
  PROVE  Inv'
<1> DEFINE g == group[m]
<1>1. /\ pc[m] = "commit" /\ g \in Nat \ {0} /\ 1..(g - 1) \subseteq versions
      /\ tx[m].versions \subseteq {g} /\ tx[m].kinds \in KindSets
      /\ objects' = objects \cup tx[m].objects
      /\ kinds' = IF tx[m].kinds # {} THEN tx[m].kinds ELSE kinds
      /\ versions' = versions \cup tx[m].versions
  BY GroupDone DEF Apply, Inv, TypeInv, Transaction, CallInv, CallOK
<1>2. kinds = {Wide} => kinds' = {Wide}
  BY <1>1, KindFacts DEF Inv, KindsInv, PendingInv, KindSets
<1>3. CallInv'
  BY <1>1, <1>2, OthersOK DEF CallInv
<1>4. PendingInv'
  BY <1>1 DEF Inv, PendingInv, NoTx
<1>5. KindsInv'
  BY <1>1, KindFacts DEF Inv, KindsInv, NoTx, KindSets
<1>6. RecordedInv'
  <2>1. g = 3 => kinds' = {Wide}
    BY <1>1, <1>2, GroupDone, KindFacts
  <2>2. ObjectsOf(g) \subseteq objects'
    BY <1>1, GroupDone
  <2> QED
    BY <1>1, <1>2, <2>1, <2>2 DEF Inv, RecordedInv
<1>7. VersionsContiguous'
  <2>1. 1..g \subseteq versions \cup {g}
    BY <1>1
  <2> QED
    BY <1>1, <2>1 DEF Inv, TypeInv, TypeOK, VersionsContiguous
<1> QED
  BY <1>3, <1>4, <1>5, <1>6, <1>7 DEF Inv

\* What COMMIT applies to the catalog has its types.
LEMMA CommitTypes ==
  ASSUME Inv, NEW m \in Migrators, Apply(m)
  PROVE  /\ \A o \in objects' : o \in Nat \X Nat
         /\ kinds' \in KindSets /\ kinds' \subseteq SUBSET Wide
         /\ versions' \subseteq Nat /\ prefix' \in Prefixes
         /\ 1..group[m] \subseteq versions' /\ 1..current[m] \subseteq versions'
         /\ versions \subseteq versions'
<1>1. tx[m] \in Transaction
  BY DEF Inv, TypeInv
<1>2. kinds' \in KindSets /\ kinds' \subseteq SUBSET Wide
  <2>1. tx[m].kinds \in KindSets /\ kinds \in KindSets
    BY <1>1 DEF Transaction, Inv, TypeInv
  <2>2. \A K \in KindSets : K \subseteq SUBSET Wide
    BY DEF KindSets, Narrow, Wide
  <2> QED
    BY <2>1, <2>2 DEF Apply
<1>3. 1..group[m] \subseteq versions'
  <2>1. group[m] \in Nat \ {0} /\ 1..(group[m] - 1) \subseteq versions
    BY GroupDone DEF Apply
  <2>2. group[m] \in versions' /\ versions \subseteq versions'
    BY DEF Apply, Inv, CallInv, CallOK
  <2> QED
    BY <2>1, <2>2
<1> QED
  BY <1>1, <1>2, <1>3 DEF Apply, Transaction, Inv, TypeInv, TypeOK, CallInv, CallOK

\* COMMIT applies a whole group and its version together.
LEMMA CommitInv ==
  ASSUME Inv, NEW m \in Migrators, Commit(m)
  PROVE  Inv'
<1> USE DEF Commit, Goto
<1>1. TypeInv'
  BY CommitTypes, NoTxType DEF Inv, TypeInv, TypeOK, Phases
<1>2. CallOK(m)'
  BY CommitTypes DEF Inv, TypeInv, TypeOK, CallOK, Running, NoTx
<1>3. OkMeansComplete'
  BY CommitTypes DEF Inv, OkMeansComplete
<1> QED
  BY <1>1, <1>2, <1>3, ApplyInv DEF Inv, TypeInv, TypeOK

\* A COMMIT whose reply is lost has applied its group all the same.
LEMMA CommitReplyLostInv ==
  ASSUME Inv, NEW m \in Migrators, CommitReplyLost(m)
  PROVE  Inv'
<1> USE DEF CommitReplyLost, Return
<1>1. TypeInv'
  BY CommitTypes, NoTxType DEF Inv, TypeInv, TypeOK, Phases, Results
<1>2. CallOK(m)'
  BY CommitTypes DEF Inv, TypeInv, TypeOK, CallOK, Running, NoTx
<1>3. OkMeansComplete'
  BY CommitTypes DEF Inv, TypeInv, TypeOK, OkMeansComplete
<1> QED
  BY <1>1, <1>2, <1>3, ApplyInv DEF Inv, TypeInv, TypeOK

\* An empty catalog, or one an earlier release left, meets the invariant.
LEMMA InitInv == Init => Inv
<1> SUFFICES ASSUME Init
             PROVE  Inv
  OBVIOUS
<1>1. PICK v \in Installed :
        /\ versions = 1..v /\ objects = UNION {ObjectsOf(g) : g \in 1..v}
        /\ kinds = IF v = 0 THEN {} ELSE {IF v < 3 THEN Narrow ELSE Wide}
  BY DEF Init
<1>2. v \in Nat
  BY MigrationAssumption
<1>3. TypeInv
  <2>1. \A o \in objects : o \in Nat \X Nat
    BY <1>1, <1>2, ObjectFacts
  <2>2. kinds \in KindSets /\ kinds \subseteq SUBSET Wide
    BY <1>1 DEF KindSets, Narrow, Wide
  <2> QED
    BY <1>1, <1>2, <2>1, <2>2, NoTxType, MigrationAssumption
    DEF Init, TypeInv, TypeOK, Phases, Results
<1>4. CallInv
  BY <1>1, <1>2 DEF Init, CallInv, CallOK, Running, NoTx
<1>5. PendingInv
  BY DEF Init, PendingInv, NoTx
<1>6. KindsInv
  <2>1. v # 0 => RecordTable \in objects
    BY <1>1, <1>2, ObjectFacts
  <2> QED
    BY <1>1, <1>2, <2>1, KindFacts DEF Init, KindsInv, NoTx
<1>7. RecordedInv
  BY <1>1, <1>2 DEF RecordedInv
<1>8. VersionsContiguous
  BY <1>1, <1>2 DEF VersionsContiguous
<1>9. OkMeansComplete
  BY DEF Init, OkMeansComplete
<1> QED
  BY <1>3, <1>4, <1>5, <1>6, <1>7, <1>8, <1>9 DEF Inv

\* Every step keeps the invariant.
LEMMA NextInv == Inv /\ [Next]_vars => Inv'
<1> SUFFICES ASSUME Inv, [Next]_vars
             PROVE  Inv'
  OBVIOUS
<1>1. CASE UNCHANGED vars
  BY <1>1
  DEF vars, catalog, Inv, TypeInv, TypeOK, CallInv, CallOK, Running, Created, WideSeen, Executed,
      PendingInv, KindsInv, RecordedInv, VersionsContiguous, OkMeansComplete
<1>2. ASSUME NEW m \in Migrators, Start(m) \/ Step(m) \/ CommitReplyLost(m) \/ Abort(m)
      PROVE  Inv'
  <2>1. CASE Abort(m) \/ DeadlockAbort(m) \/ CreateCollides(m)
    BY <2>1, ReturnInv DEF Abort, DeadlockAbort, CreateCollides, Results
  <2>2. CASE Start(m) \/ CommitReplyLost(m)
    BY <2>2, StartInv, CommitReplyLostInv
  <2> QED
    BY <1>2, <2>1, <2>2, CheckExistsInv, ReadVersionInv, NextGroupInv, ExecuteInTxInv,
       ExecuteDirectInv, WaitingInv, RecordVersionInv, CommitInv DEF Step
<1> QED
  BY <1>1, <1>2 DEF Next

-----------------------------------------------------------------------------
(* The theorems. *)

\* The invariant holds throughout.
THEOREM MigrationInvariant == Spec => []Inv
BY InitInv, NextInv, PTL DEF Spec

\* Every variable stays in its type, and a call that runs no group has no transaction
\* and no lock left, for any number of migrators and releases (runGroupInTx).
THEOREM MigrationTypeCorrect == Spec => []TypeOK
<1>1. Inv => TypeOK
  BY DEF Inv, TypeInv
<1> QED
  BY <1>1, MigrationInvariant, PTL

\* The recorded versions have no gap, whatever releases migrate at once, fail and
\* start again: MAX(version) stands for all groups up to it (Migrate).
THEOREM NoVersionMissed == Spec => []VersionsContiguous
<1>1. Inv => VersionsContiguous
  BY DEF Inv
<1> QED
  BY <1>1, MigrationInvariant, PTL

\* A recorded version has all its group's objects and constraints, for transactional
\* and direct groups, lost COMMIT replies and races of any number of migrators
\* (runGroupInTx, runGroupDirect).
THEOREM RecordedMeansApplied == Spec => []RecordedIsApplied
<1>1. Inv => RecordedIsApplied
  <2> SUFFICES ASSUME Inv, NEW v \in versions
               PROVE  ObjectsOf(v) \subseteq objects /\ (v = 3 => Admitted = Wide)
    BY DEF RecordedIsApplied
  <2>1. ObjectsOf(v) \subseteq objects /\ (v = 3 => kinds = {Wide})
    BY DEF Inv, RecordedInv
  <2>2. kinds = {Wide} => Admitted = Wide
    BY DEF Admitted
  <2> QED
    BY <2>1, <2>2
<1> QED
  BY <1>1, MigrationInvariant, PTL

\* A migrator that was told all is well finds every group of its release recorded
\* (Migrate).
THEOREM OkIsComplete == Spec => []OkMeansComplete
<1>1. Inv => OkMeansComplete
  BY DEF Inv
<1> QED
  BY <1>1, MigrationInvariant, PTL

\* No step takes a recorded version away.
LEMMA VersionsGrow ==
  ASSUME NEW m \in Migrators, Step(m) \/ CommitReplyLost(m) \/ Abort(m)
  PROVE  versions \subseteq versions' /\ prefix' = prefix
BY DEF Step, CheckExists, ReadVersion, NextGroup, ExecuteInTx, ExecuteDirect, CreateWaits,
       CreateCollides, CreateResumes, RecordVersion, Commit, CommitReplyLost, Apply, Abort,
       DeadlockAbort, Fail, Return, catalog

\* A call that found the database too far ahead still finds it so.
AheadInv ==
  \A m \in Migrators : behind[m] =>
    /\ pc[m] \in {"exists", "version"} /\ Accepted(prefix)
    /\ \E v \in versions : v > HeadVersion[m] + AcceptableSkewVersions

\* A release too far behind gets no further than reading the version, if no accepted
\* table prefix has upper-case letters: the lookup then finds the version table, since
\* a recorded version has its objects, and MAX(version) shows the skew (Migrate).
THEOREM SkewRejected ==
  ASSUME \A p \in Prefixes : Accepted(p) => SpelledAsStored(p)
  PROVE  Spec => []AheadRejected
<1>1. Init => AheadInv
  BY DEF Init, AheadInv
<1>2. Inv /\ AheadInv /\ [Next]_vars => AheadInv'
  <2> SUFFICES ASSUME Inv, AheadInv, [Next]_vars
               PROVE  AheadInv'
    OBVIOUS
  <2>1. CASE UNCHANGED vars
    BY <2>1 DEF vars, catalog, AheadInv
  <2>2. ASSUME NEW m \in Migrators, Start(m)
        PROVE  AheadInv'
    <3> DEFINE far == \E v \in versions : v > HeadVersion[m] + AcceptableSkewVersions
    <3>1. /\ pc[m] = "idle" /\ UNCHANGED <<versions, prefix>>
          /\ \/ UNCHANGED <<pc, behind>>
             \/ /\ pc' = [pc EXCEPT ![m] = "exists"] /\ behind' = [behind EXCEPT ![m] = far]
                /\ Accepted(prefix)
      BY <2>2 DEF Start, Goto, catalog
    <3> QED
      BY <3>1 DEF Inv, TypeInv, TypeOK, AheadInv
  <2>3. ASSUME NEW m \in Migrators, Step(m) \/ CommitReplyLost(m) \/ Abort(m)
        PROVE  AheadInv'
    <3>1. ASSUME behind'[m]
          PROVE  behind[m] /\ pc'[m] \in {"exists", "version"}
      <4>1. CASE CheckExists(m)
        <5>1. behind[m]
          BY <3>1, <4>1 DEF CheckExists
        <5>2. 1 \in versions
          <6>1. PICK v \in versions : v > HeadVersion[m] + AcceptableSkewVersions
            BY <5>1 DEF AheadInv
          <6>2. v \in Nat /\ HeadVersion[m] \in Nat
            BY MigrationAssumption DEF Inv, TypeInv, TypeOK
          <6>3. v >= 1
            BY <6>1, <6>2 DEF AcceptableSkewVersions
          <6> QED
            BY <6>1, <6>2, <6>3 DEF Inv, VersionsContiguous
        <5>3. VersionTable \in objects
          BY <5>2, ObjectFacts DEF Inv, RecordedInv
        <5>4. SpelledAsStored(prefix)
          BY <5>1 DEF AheadInv, Inv, TypeInv, TypeOK
        <5> QED
          BY <4>1, <5>1, <5>3, <5>4 DEF CheckExists, Goto, TableFound, Inv, TypeInv, TypeOK
      <4>2. ASSUME NEW v \in versions \cup {0}, ReadVersion(m, v)
            PROVE  FALSE
        <5>1. CASE TooFarAhead(m, v)
          BY <3>1, <4>2, <5>1 DEF ReadVersion, Fail, Return, Inv, TypeInv, TypeOK
        <5>2. CASE ~TooFarAhead(m, v)
          <6>1. behind[m] /\ \A u \in versions : u <= v
            BY <3>1, <4>2, <5>2 DEF ReadVersion
          <6>2. PICK u \in versions : u > HeadVersion[m] + AcceptableSkewVersions
            BY <6>1 DEF AheadInv
          <6>3. u \in Nat /\ v \in Nat /\ HeadVersion[m] \in Nat
            BY MigrationAssumption DEF Inv, TypeInv, TypeOK
          <6>4. u <= v /\ ~(v > HeadVersion[m] + 5)
            BY <5>2, <6>1 DEF TooFarAhead, AcceptableSkewVersions
          <6> QED
            BY <6>2, <6>3, <6>4 DEF AcceptableSkewVersions
        <5> QED
          BY <5>1, <5>2
      <4>3. CASE ~CheckExists(m) /\ ~(\E v \in versions \cup {0} : ReadVersion(m, v))
        <5>1. behind'[m] = behind[m] /\ pc[m] \notin {"exists", "version"}
          BY <2>3, <3>1, <4>3
          DEF Step, NextGroup, ExecuteInTx, ExecuteDirect, CreateWaits, CreateCollides,
              CreateResumes, RecordVersion, Commit, CommitReplyLost, Apply, Abort,
              DeadlockAbort, Fail, Return, Inv, TypeInv, TypeOK
        <5> QED
          BY <3>1, <5>1 DEF AheadInv
      <4> QED
        BY <4>1, <4>2, <4>3
    <3>2. \A d \in Migrators \ {m} : behind'[d] = behind[d] /\ pc'[d] = pc[d]
      BY <2>3
      DEF Step, CheckExists, ReadVersion, NextGroup, ExecuteInTx, ExecuteDirect, AfterStatement,
          Goto, CreateWaits, CreateCollides, CreateResumes, RecordVersion, Commit,
          CommitReplyLost, Apply, Abort, DeadlockAbort, Fail, Return, Inv, TypeInv, TypeOK
    <3> QED
      BY <2>3, <3>1, <3>2, VersionsGrow DEF AheadInv
  <2> QED
    BY <2>1, <2>2, <2>3 DEF Next
<1>3. AheadInv => AheadRejected
  BY DEF AheadInv, AheadRejected
<1> QED
  BY <1>1, <1>2, <1>3, MigrationInvariant, PTL DEF Spec

\* A kind that rows could have can still be written after any step: an old release
\* that runs its groups again never brings the narrow constraint back, because the
\* record table it would come with exists (v1Statements, v3WorkingAndDedupeStatements).
THEOREM KindsNeverNarrowAlways == Spec => KindsNeverNarrow
<1>1. ASSUME Inv, Next, kinds # {}
      PROVE  Admitted \subseteq Admitted'
  <2>1. kinds' = kinds \/ kinds' = {Wide}
    <3>1. ASSUME NEW m \in Migrators, Apply(m)
          PROVE  kinds' = kinds \/ kinds' = {Wide}
      <4>1. tx[m].kinds \in KindSets /\ tx[m].kinds # {Narrow}
        BY <1>1 DEF Inv, TypeInv, Transaction, KindsInv, PendingInv
      <4> QED
        BY <3>1, <4>1 DEF Apply, KindSets
    <3>2. ASSUME NEW m \in Migrators, Start(m) \/ Step(m) \/ Abort(m), ~Commit(m)
          PROVE  kinds' = kinds
      BY <3>2
      DEF Start, Step, CheckExists, ReadVersion, NextGroup, ExecuteInTx, ExecuteDirect,
          CreateWaits, CreateCollides, CreateResumes, RecordVersion, Abort, DeadlockAbort,
          Fail, catalog
    <3> QED
      BY <1>1, <3>1, <3>2 DEF Next, Commit, CommitReplyLost
  <2>2. CASE kinds' = kinds
    BY <2>2 DEF Admitted
  <2>3. CASE kinds' = {Wide}
    BY <2>3 DEF Admitted
  <2> QED
    BY <2>1, <2>2, <2>3
<1>2. Inv /\ [Next]_vars => [kinds # {} => Admitted \subseteq Admitted']_vars
  BY <1>1
<1> QED
  BY <1>2, MigrationInvariant, PTL DEF Spec, KindsNeverNarrow

=============================================================================

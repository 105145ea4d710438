---------------------------- MODULE StoreProofs ----------------------------
(***************************************************************************)
(* Proofs about Store for any clients, records, keys, calls and bounds.    *)
(***************************************************************************)
EXTENDS Store, TLAPS

-----------------------------------------------------------------------------
(***************************************************************************)
(* The inductive invariant.                                                *)
(***************************************************************************)

\* What a transaction may have done.
Transaction ==
  [rec : [Mems -> Record \cup {NoRec}], events : SUBSET Event,
   outbox : SUBSET (Mems \X Nat \X EventTypes), idem : [Keys -> Entry \cup {NoEntry}],
   dedupe : [DKeys -> Mems \cup {NoMem}], locks : SUBSET DKeys, left : SUBSET Mems]

\* Which calls can be where, and what they hold there.
CallOK(c) ==
  /\ req[c] \in Requests \cup {NoReq}
  /\ pc[c] # "idle" => req[c] \in Requests
  /\ pc[c] \in {"lookup", "insert", "saveidem"} => req[c].key # NoKey
  /\ pc[c] = "insert" => req[c].op = "created"
  /\ pc[c] \in {"load", "update"} => req[c].op \notin {"created", "access"}
  /\ pc[c] \in {"claim", "lockindex", "winner", "collapse"} => req[c].op = "dedupe"
  /\ pc[c] = "access" => req[c].op = "access"
  /\ pc[c] = "lockindex" => dedupe[req[c].dk] # NoMem
  /\ pc[c] \in {"load", "update", "winner", "collapse"} /\ req[c].op = "dedupe" =>
       winner[c] \in Mems
  /\ pc[c] \in {"update", "saveidem", "collapse"} => cur[c] \in Record
  /\ pc[c] \in {"idle", "lookup", "claim", "lockindex", "load"} =>
       \A m \in Mems : tx[c].rec[m] = NoRec
  /\ pc[c] = "update" => rec[req[c].mid] # NoRec

CallInv == \A c \in Clients : CallOK(c)

\* Rows an access has yet to visit exist: rows never go away.
LeftInv == \A c \in Clients : \A m \in tx[c].left : rec[m] # NoRec

\* A transaction that has claimed a dedupe key found it free and holds it alone.
ClaimInv ==
  \A c \in Clients, d \in DKeys : tx[c].dedupe[d] # NoMem =>
    /\ dedupe[d] = NoMem
    /\ \A e \in Clients \ {c} : tx[e].dedupe[d] = NoMem

TypeInv == TypeOK /\ tx \in [Clients -> Transaction] /\ req \in [Clients -> Requests \cup {NoReq}]

Inv == TypeInv /\ CallInv /\ LeftInv /\ ClaimInv

-----------------------------------------------------------------------------
(* Values. *)

\* The first version of a record is one.
LEMMA FirstVersionType ==
  ASSUME NEW q \in Requests, q.op = "created"
  PROVE  FirstVersion(q) \in Record /\ FirstVersion(q).ver = 1
<1>1. FirstVersion(q) \in Record
  BY WritesAssumption DEF FirstVersion
<1>2. "ver" \in DOMAIN FirstVersion(q) /\ DOMAIN FirstVersion(q) = DOMAIN q.rec
  BY <1>1 DEF Record, FirstVersion
<1> QED
  BY <1>1, <1>2 DEF FirstVersion

\* What is stored for a call with a key is an entry.
LEMMA NewEntryType ==
  ASSUME NEW q \in Keyed, NEW m \in Mems, NEW v \in Nat
  PROVE  NewEntry(q, m, v) \in Entry
BY DEF NewEntry, Entry, Hashes

\* What is stored names the hash, the record and the version.
LEMMA NewEntryFields ==
  \A q, m, v : LET a == NewEntry(q, m, v)
              IN  a.hash = RequestHash(q) /\ a.mid = m /\ a.ver = v /\ a.created = TRUE
BY DEF NewEntry

\* An event of a record is one, and its key is fit for the outbox.
LEMMA NewEventType ==
  ASSUME NEW m \in Mems, NEW r \in Record, NEW t \in EventTypes,
         NEW k \in Keys \cup {NoKey}, NEW l \in Mems \cup {NoMem}
  PROVE  /\ NewEvent(m, r, t, k, l) \in Event
         /\ EventKey(NewEvent(m, r, t, k, l)) \in Mems \X Nat \X EventTypes
         /\ EventKey(NewEvent(m, r, t, k, l)) = <<m, r.ver, t>>
<1>1. r.ver \in Nat \ {0}
  BY DEF Record
<1> QED
  BY <1>1 DEF NewEvent, Event, EventKey

\* What a mutation makes of a record is a record, one version on.
LEMMA AppliedType ==
  ASSUME NEW q \in Requests, q.op \notin {"created", "access"}, NEW r \in Record
  PROVE  /\ Applied(q, r) \in Record
         /\ Applied(q, r).ver = r.ver + 1
         /\ MutationType(q) \in EventTypes
<1>1. /\ q.op \in (EventTypes \ {"collapsed"}) \cup {"dedupe", "access"}
      /\ q.op \in {"updated", "promoted"} => q.val \in Values \cup {Blank}
  BY RecordsAssumption
<1>2. MutationType(q) \in EventTypes
  BY <1>1 DEF MutationType, EventTypes, Toggles
<1>3. MutationType(q) \in {"updated", "promoted"} => q.val \in Values \cup {Blank}
  BY <1>1 DEF MutationType
<1>4. /\ r.ver + 1 \in Nat \ {0} /\ r.content \in Values \cup {Blank} /\ r.kind \in Kinds
      /\ r.from \in Values \cup {Blank} /\ r.pinned \in BOOLEAN /\ r.disabled \in BOOLEAN
      /\ r.deleted \in BOOLEAN /\ "episodic" \in Kinds
  BY DEF Record, Kinds
<1> DEFINE type == MutationType(q)
           content == IF type = "updated" /\ q.val # Blank THEN q.val ELSE r.content
           kind == IF type = "promoted" THEN "episodic" ELSE r.kind
           from == IF type = "promoted" THEN q.val ELSE r.from
           pinned == IF type \in {"pinned", "unpinned"} THEN type = "pinned" ELSE r.pinned
           disabled == IF type \in {"disabled", "enabled"} THEN type = "disabled" ELSE r.disabled
           deleted == (type = "deleted") \/ r.deleted
<1>5. /\ content \in Values \cup {Blank} /\ kind \in Kinds /\ from \in Values \cup {Blank}
  BY <1>3, <1>4
<1>6. pinned \in BOOLEAN /\ disabled \in BOOLEAN /\ deleted \in BOOLEAN
  BY <1>4
<1>7. Applied(q, r) = [r EXCEPT !.ver = r.ver + 1, !.content = content, !.kind = kind,
                                !.from = from, !.pinned = pinned, !.disabled = disabled,
                                !.deleted = deleted]
  BY DEF Applied
<1> HIDE DEF content, kind, from, pinned, disabled, deleted
<1>8. LET s == [r EXCEPT !.ver = r.ver + 1, !.content = content, !.kind = kind,
                         !.from = from, !.pinned = pinned, !.disabled = disabled,
                         !.deleted = deleted]
      IN  s \in Record /\ s.ver = r.ver + 1
  BY <1>4, <1>5, <1>6 DEF Record
<1> QED
  BY <1>2, <1>7, <1>8, Zenon

\* A row written with its event and outbox row.
Wrote(f, c, m, r, e, k) == [f EXCEPT ![c].rec[m] = r, ![c].events = {e}, ![c].outbox = {k}]

\* A transaction that has written a row, an event and its outbox row is one.
LEMMA WroteType ==
  ASSUME NEW f \in [Clients -> Transaction], NEW c \in Clients, NEW m \in Mems,
         NEW r \in Record, NEW e \in Event, NEW k \in Mems \X Nat \X EventTypes
  PROVE  LET g == Wrote(f, c, m, r, e, k)
         IN  /\ g \in [Clients -> Transaction]
             /\ g[c].left = f[c].left /\ g[c].dedupe = f[c].dedupe
             /\ \A d \in Clients \ {c} : g[d] = f[d]
<1> DEFINE g == Wrote(f, c, m, r, e, k)
           row == [f[c].rec EXCEPT ![m] = r]
           t == [f[c] EXCEPT !.rec = row, !.events = {e}, !.outbox = {k}]
<1>1. row \in [Mems -> Record \cup {NoRec}]
  BY DEF Transaction
<1>2. g = [f EXCEPT ![c] = t]
  BY DEF Transaction, Wrote
<1> HIDE DEF row, g
<1>3. t \in Transaction /\ t.left = f[c].left /\ t.dedupe = f[c].dedupe
  BY <1>1 DEF Transaction
<1> HIDE DEF t
<1>4. g \in [Clients -> Transaction]
  BY <1>2, <1>3
<1>5. g[c] = t /\ \A d \in Clients \ {c} : g[d] = f[d]
  BY <1>2
<1> QED
  BY <1>3, <1>4, <1>5 DEF g

-----------------------------------------------------------------------------
(* Steps in general. *)

\* A transaction that has done nothing.
LEMMA NoTxType == NoTx \in Transaction
BY RecordsAssumption DEF NoTx, Transaction

\* A call that returns gives back what its transaction holds.
LEMMA ReturnInv ==
  ASSUME Inv, NEW c \in Clients, NEW how \in Outcomes, Return(c, how),
         UNCHANGED <<tables, accessed, ops>>
  PROVE  Inv'
<1>1. TypeInv'
  BY NoTxType DEF Inv, TypeInv, TypeOK, Return, tables, Phases
<1>2. ASSUME NEW d \in Clients
      PROVE  CallOK(d)'
  <2>1. CASE d = c
    BY <2>1 DEF Inv, TypeInv, TypeOK, CallOK, Return, NoTx
  <2>2. CASE d # c
    BY <2>2 DEF Inv, TypeInv, TypeOK, CallInv, CallOK, Return, tables
  <2> QED
    BY <2>1, <2>2
<1>3. LeftInv'
  BY DEF Inv, TypeInv, LeftInv, Return, tables, NoTx
<1>4. ClaimInv'
  BY DEF Inv, TypeInv, ClaimInv, Return, tables, NoTx
<1> QED
  BY <1>1, <1>2, <1>3, <1>4 DEF Inv, CallInv

\* A call that fails gives back what its transaction holds.
LEMMA FailInv ==
  ASSUME Inv, NEW c \in Clients, NEW how \in Outcomes, Fail(c, how)
  PROVE  Inv'
BY ReturnInv DEF Fail, history

\* A statement of one call that leaves the tables alone and claims no key: what is to
\* be shown is about that call only.
LEMMA LocalStep ==
  ASSUME Inv, NEW c \in Clients, TypeInv', CallOK(c)',
         UNCHANGED <<rec, dedupe, req>>,
         \A d \in Clients \ {c} : /\ pc'[d] = pc[d] /\ tx'[d] = tx[d]
                                  /\ cur'[d] = cur[d] /\ winner'[d] = winner[d],
         tx'[c].left \subseteq tx[c].left, tx'[c].dedupe = tx[c].dedupe
  PROVE  Inv'
<1>1. ASSUME NEW d \in Clients \ {c}
      PROVE  CallOK(d)'
  BY DEF Inv, CallInv, CallOK
<1>2. LeftInv'
  BY DEF Inv, LeftInv
<1>3. ClaimInv'
  BY DEF Inv, ClaimInv
<1> QED
  BY <1>1, <1>2, <1>3 DEF Inv, CallInv

-----------------------------------------------------------------------------
(* One lemma per action. *)

\* A call begins with an empty transaction.
LEMMA BeginInv ==
  ASSUME Inv, NEW c \in Clients, NEW q \in Requests, Begin(c, q)
  PROVE  Inv'
<1> USE DEF Begin, Goto
<1>1. /\ q.op = "access" => Matching(q.ids) \subseteq Mems
      /\ \A m \in Matching(q.ids) : rec[m] # NoRec
  BY RecordsAssumption DEF Matching
<1>2. TypeInv'
  <2> DEFINE left == IF q.op = "access" THEN Matching(q.ids) ELSE {}
  <2>1. tx' \in [Clients -> Transaction]
    <3>1. left \in SUBSET Mems
      BY <1>1
    <3>2. [tx[c] EXCEPT !.left = left] \in Transaction
      BY <3>1 DEF Inv, TypeInv, Transaction
    <3>3. tx' = [tx EXCEPT ![c] = [tx[c] EXCEPT !.left = left]]
      OBVIOUS
    <3> QED
      BY <3>2, <3>3 DEF Inv, TypeInv
  <2>2. pc' \in [Clients -> Phases]
    BY DEF Inv, TypeInv, TypeOK, Phases
  <2>3. ops' \in 0..MaxOps
    BY StoreAssumption DEF Inv, TypeInv, TypeOK
  <2> QED
    BY <2>1, <2>2, <2>3 DEF Inv, TypeInv, TypeOK, tables, history, Outcomes
<1>3. CallOK(c)'
  BY RecordsAssumption DEF Inv, TypeInv, TypeOK, CallInv, CallOK, tables, Keyed
<1>4. ASSUME NEW d \in Clients \ {c}
      PROVE  CallOK(d)'
  BY DEF Inv, TypeInv, TypeOK, CallInv, CallOK, tables
<1>5. LeftInv'
  BY <1>1 DEF Inv, TypeInv, Transaction, LeftInv, tables
<1>6. ClaimInv'
  BY DEF Inv, TypeInv, Transaction, ClaimInv, tables
<1> QED
  BY <1>2, <1>3, <1>4, <1>5, <1>6 DEF Inv, CallInv

\* A lookup that finds no entry goes on to the insert or the load.
LEMMA LookupMissInv ==
  ASSUME Inv, NEW c \in Clients, LookupMiss(c)
  PROVE  Inv'
<1> USE DEF LookupMiss, Goto
<1>1. req[c] \in Requests /\ req[c].op \in {"created", "promoted"}
  BY RecordsAssumption DEF Inv, CallInv, CallOK, Keyed
<1>2. TypeInv'
  BY DEF Inv, TypeInv, TypeOK, tables, history, Phases
<1>3. CallOK(c)'
  BY <1>1 DEF Inv, TypeInv, TypeOK, CallInv, CallOK, tables
<1> QED
  BY <1>2, <1>3, LocalStep DEF Inv, TypeInv, TypeOK, tables

\* The insert waits for the row and finds it absent.
LEMMA InsertRecordInv ==
  ASSUME Inv, NEW c \in Clients, NEW m \in Mems, InsertRecord(c, m)
  PROVE  Inv'
<1> DEFINE r == FirstVersion(req[c])
           e == NewEvent(m, r, "created", req[c].key, NoMem)
           k == EventKey(e)
<1>1. /\ req[c] \in Requests /\ req[c].op = "created"
      /\ req[c].key # NoKey /\ req[c].key \in Keys \cup {NoKey}
  BY RecordsAssumption DEF Inv, CallInv, CallOK, InsertRecord
<1>2. r \in Record
  BY <1>1, FirstVersionType
<1>3. e \in Event /\ k \in Mems \X Nat \X EventTypes
  BY <1>1, <1>2, NewEventType DEF EventTypes
<1>4. /\ tx' = Wrote(tx, c, m, r, e, k)
      /\ cur' = [cur EXCEPT ![c] = r]
      /\ pc' = [pc EXCEPT ![c] = "saveidem"]
      /\ UNCHANGED <<tables, req, winner, outcome, history, ops>>
  BY DEF InsertRecord, Goto, Wrote
<1> HIDE DEF r, e, k
<1>5. /\ tx' \in [Clients -> Transaction]
      /\ tx'[c].left = tx[c].left /\ tx'[c].dedupe = tx[c].dedupe
      /\ \A d \in Clients \ {c} : tx'[d] = tx[d]
  BY <1>2, <1>3, <1>4, WroteType DEF Inv, TypeInv
<1>6. TypeInv'
  BY <1>2, <1>4, <1>5 DEF Inv, TypeInv, TypeOK, tables, history, Phases
<1>7. CallOK(c)'
  BY <1>1, <1>2, <1>4 DEF Inv, TypeInv, TypeOK, CallInv, CallOK, tables
<1> QED
  BY <1>4, <1>5, <1>6, <1>7, LocalStep DEF Inv, TypeInv, TypeOK, tables

\* The load sees a committed row and changes it in memory.
LEMMA LoadInv ==
  ASSUME Inv, NEW c \in Clients, Load(c)
  PROVE  Inv'
<1> DEFINE m == req[c].mid
           r == Applied(req[c], rec[m])
<1>1. /\ req[c] \in Requests /\ req[c].op \notin {"created", "access"} /\ m \in Mems
      /\ pc[c] = "load" /\ (req[c].op = "dedupe" => winner[c] \in Mems)
  BY RecordsAssumption DEF Inv, CallInv, CallOK, Load
<1>2. Visible(c, m) = rec[m] /\ rec[m] # NoRec
  BY <1>1 DEF Inv, CallInv, CallOK, Load, Visible
<1>3. r \in Record
  BY <1>1, <1>2, AppliedType DEF Inv, TypeInv, TypeOK
<1>4. /\ cur' = [cur EXCEPT ![c] = r]
      /\ pc' = [pc EXCEPT ![c] = "update"]
      /\ UNCHANGED <<tables, req, tx, winner, outcome, history, ops>>
  BY <1>2 DEF Load, Goto
<1> HIDE DEF r
<1>5. TypeInv'
  BY <1>3, <1>4 DEF Inv, TypeInv, TypeOK, tables, history, Phases
<1>6. CallOK(c)'
  BY <1>1, <1>2, <1>3, <1>4 DEF Inv, TypeInv, TypeOK, CallOK, tables
<1> QED
  BY <1>4, <1>5, <1>6, LocalStep DEF Inv, TypeInv, TypeOK, tables

\* A load that fails ends the call.
LEMMA LoadFailsInv ==
  ASSUME Inv, NEW c \in Clients, LoadFails(c)
  PROVE  Inv'
BY FailInv DEF LoadFails, Outcomes

\* The UPDATE finds the row, which has not gone away since the load.
LEMMA UpdateInv ==
  ASSUME Inv, NEW c \in Clients, Update(c)
  PROVE  Inv'
<1> DEFINE m == req[c].mid
           r == Written(c, rec[m])
           e == NewEvent(m, cur[c], MutationType(req[c]), NoKey, NoMem)
           k == EventKey(e)
<1>1. /\ req[c] \in Requests /\ req[c].op \notin {"created", "access"} /\ m \in Mems
      /\ pc[c] = "update" /\ (req[c].op = "dedupe" => winner[c] \in Mems)
      /\ cur[c] \in Record /\ rec[m] \in Record
  BY RecordsAssumption DEF Inv, TypeInv, TypeOK, CallInv, CallOK, Update
<1>2. r \in Record
  BY <1>1 DEF Written, Record
<1>3. e \in Event /\ k \in Mems \X Nat \X EventTypes
  BY <1>1, AppliedType, NewEventType
<1>4. /\ tx' = Wrote(tx, c, m, r, e, k)
      /\ pc' = [pc EXCEPT ![c] = AfterUpdate(req[c])]
      /\ UNCHANGED <<tables, req, cur, winner, outcome, history, ops>>
  BY DEF Update, Goto, Wrote
<1> HIDE DEF r, e, k
<1>5. /\ tx' \in [Clients -> Transaction]
      /\ tx'[c].left = tx[c].left /\ tx'[c].dedupe = tx[c].dedupe
      /\ \A d \in Clients \ {c} : tx'[d] = tx[d]
  BY <1>1, <1>2, <1>3, <1>4, WroteType DEF Inv, TypeInv
<1>6. TypeInv'
  BY <1>4, <1>5 DEF Inv, TypeInv, TypeOK, tables, history, Phases, AfterUpdate
<1>7. CallOK(c)'
  BY <1>1, <1>4 DEF Inv, TypeInv, TypeOK, CallOK, tables, AfterUpdate
<1> QED
  BY <1>4, <1>5, <1>6, <1>7, LocalStep DEF Inv, TypeInv, TypeOK, tables

\* The claim waits until no other transaction has claimed the key.
LEMMA ClaimStepInv ==
  ASSUME Inv, NEW c \in Clients, Claim(c)
  PROVE  Inv'
<1> DEFINE dk == req[c].dk
<1>1. /\ req[c] \in Requests /\ req[c].op = "dedupe" /\ dk \in DKeys /\ req[c].mid \in Mems
      /\ pc[c] = "claim" /\ \A m \in Mems : tx[c].rec[m] = NoRec
      /\ \A d \in Clients \ {c} : tx[d].dedupe[dk] = NoMem
      /\ UNCHANGED <<tables, req, cur, winner, outcome, history, ops>>
  BY RecordsAssumption DEF Inv, CallInv, CallOK, Claim, ClaimFree
<1>2. CASE dedupe[dk] # NoMem
  <2>1. pc' = [pc EXCEPT ![c] = "lockindex"] /\ tx' = tx
    BY <1>2 DEF Claim, Goto
  <2>2. TypeInv'
    BY <1>1, <2>1 DEF Inv, TypeInv, TypeOK, tables, history, Phases
  <2>3. CallOK(c)'
    BY <1>1, <1>2, <2>1 DEF Inv, TypeInv, TypeOK, CallOK, tables
  <2> QED
    BY <1>1, <2>1, <2>2, <2>3, LocalStep DEF Inv, TypeInv, TypeOK, tables
<1>3. CASE dedupe[dk] = NoMem
  <2> DEFINE claims == [tx[c].dedupe EXCEPT ![dk] = req[c].mid]
             t == [tx[c] EXCEPT !.dedupe = claims]
  <2>1. /\ pc' = [pc EXCEPT ![c] = "commit"] /\ tx' = [tx EXCEPT ![c] = t]
        /\ claims \in [DKeys -> Mems \cup {NoMem}]
    BY <1>1, <1>3 DEF Inv, TypeInv, Transaction, Claim, Goto
  <2>2. \A d \in DKeys : claims[d] # NoMem => d = dk \/ tx[c].dedupe[d] # NoMem
    BY <1>1 DEF Inv, TypeInv, Transaction
  <2> HIDE DEF claims
  <2>3. t \in Transaction /\ t.dedupe = claims /\ t.left = tx[c].left
    BY <2>1 DEF Inv, TypeInv, Transaction
  <2> HIDE DEF t
  <2>4. TypeInv'
    BY <1>1, <2>1, <2>3 DEF Inv, TypeInv, TypeOK, tables, history, Phases
  <2>5. /\ tx'[c] = t /\ \A d \in Clients \ {c} : tx'[d] = tx[d] /\ pc'[d] = pc[d]
    BY <2>1 DEF Inv, TypeInv, TypeOK
  <2>6. ASSUME NEW d \in Clients
        PROVE  CallOK(d)'
    BY <1>1, <2>1, <2>5 DEF Inv, TypeInv, TypeOK, CallInv, CallOK, tables
  <2>7. LeftInv'
    BY <1>1, <2>3, <2>5 DEF Inv, LeftInv, tables
  <2>8. ClaimInv'
    BY <1>1, <1>3, <2>2, <2>3, <2>5 DEF Inv, ClaimInv, tables
  <2> QED
    BY <2>4, <2>6, <2>7, <2>8 DEF Inv, CallInv
<1> QED
  BY <1>2, <1>3

\* The index row is committed, so a winner is read.
LEMMA LockIndexInv ==
  ASSUME Inv, NEW c \in Clients, LockIndex(c)
  PROVE  Inv'
<1> DEFINE dk == req[c].dk
           t == [tx[c] EXCEPT !.locks = {dk}]
<1>1. /\ req[c] \in Requests /\ req[c].op = "dedupe" /\ dk \in DKeys /\ dedupe[dk] \in Mems
      /\ pc[c] = "lockindex" /\ \A m \in Mems : tx[c].rec[m] = NoRec
  BY RecordsAssumption DEF Inv, TypeInv, TypeOK, CallInv, CallOK, LockIndex
<1>2. /\ tx' = [tx EXCEPT ![c] = t] /\ winner' = [winner EXCEPT ![c] = dedupe[dk]]
      /\ pc' = [pc EXCEPT ![c] = "load"]
      /\ UNCHANGED <<tables, req, cur, outcome, history, ops>>
  BY DEF LockIndex, Goto
<1>3. t \in Transaction /\ t.left = tx[c].left /\ t.dedupe = tx[c].dedupe /\ t.rec = tx[c].rec
  BY <1>1 DEF Inv, TypeInv, Transaction
<1> HIDE DEF t
<1>4. TypeInv'
  BY <1>1, <1>2, <1>3 DEF Inv, TypeInv, TypeOK, tables, history, Phases
<1>5. CallOK(c)'
  BY <1>1, <1>2, <1>3 DEF Inv, TypeInv, TypeOK, CallOK, tables
<1> QED
  BY <1>2, <1>3, <1>4, <1>5, LocalStep DEF Inv, TypeInv, TypeOK, tables

\* The load of the winner locks nothing.
LEMMA LoadWinnerInv ==
  ASSUME Inv, NEW c \in Clients, LoadWinner(c)
  PROVE  Inv'
<1> DEFINE r == Visible(c, winner[c])
<1>1. /\ req[c] \in Requests /\ req[c].op = "dedupe" /\ winner[c] \in Mems
      /\ pc[c] = "winner" /\ r # NoRec
  BY DEF Inv, CallInv, CallOK, LoadWinner
<1>2. r \in Record
  BY <1>1 DEF Inv, TypeInv, TypeOK, Transaction, Visible
<1>3. tx' = tx
  <2>1. tx[c] \in Transaction /\ tx[c].rec = [m \in Mems |-> tx[c].rec[m]]
    BY DEF Inv, TypeInv, Transaction
  <2>2. tx' = [tx EXCEPT ![c] = [tx[c] EXCEPT !.rec = [m \in Mems |-> tx[c].rec[m]]]]
    BY DEF LoadWinner, RowsLocked
  <2>3. [tx[c] EXCEPT !.rec = tx[c].rec] = tx[c]
    BY <2>1 DEF Transaction
  <2>4. tx' = [tx EXCEPT ![c] = tx[c]]
    BY <2>1, <2>2, <2>3, Zenon
  <2> QED
    BY <2>4 DEF Inv, TypeInv
<1>4. /\ cur' = [cur EXCEPT ![c] = r] /\ pc' = [pc EXCEPT ![c] = "collapse"]
      /\ UNCHANGED <<tables, req, winner, outcome, history, ops>>
  BY DEF LoadWinner, Goto
<1> HIDE DEF r
<1>5. TypeInv'
  BY <1>2, <1>3, <1>4 DEF Inv, TypeInv, TypeOK, tables, history, Phases
<1>6. CallOK(c)'
  BY <1>1, <1>2, <1>3, <1>4 DEF Inv, TypeInv, TypeOK, CallOK, tables
<1> QED
  BY <1>3, <1>4, <1>5, <1>6, LocalStep DEF Inv, TypeInv, TypeOK, tables

\* A winner that is not there ends the call.
LEMMA LoadWinnerFailsInv ==
  ASSUME Inv, NEW c \in Clients, LoadWinnerFails(c)
  PROVE  Inv'
BY FailInv DEF LoadWinnerFails, Outcomes

\* The collapse event is one of the winner, at the version read.
LEMMA CollapseInv ==
  ASSUME Inv, NEW c \in Clients, Collapse(c)
  PROVE  Inv'
<1> DEFINE e == CollapseEvent(c)
           k == EventKey(e)
           t == [tx[c] EXCEPT !.events = @ \cup {e}, !.outbox = @ \cup {k}]
<1>1. /\ req[c] \in Requests /\ req[c].op = "dedupe" /\ winner[c] \in Mems
      /\ req[c].mid \in Mems /\ cur[c] \in Record
  BY RecordsAssumption DEF Inv, CallInv, CallOK, Collapse
<1>2. e \in Event /\ k \in Mems \X Nat \X EventTypes
  BY <1>1, NewEventType DEF CollapseEvent, EventTypes
<1>3. /\ tx' = [tx EXCEPT ![c] = t] /\ pc' = [pc EXCEPT ![c] = "commit"]
      /\ UNCHANGED <<tables, req, cur, winner, outcome, history, ops>>
  BY DEF Collapse, Goto
<1> HIDE DEF e, k
<1>4. t \in Transaction /\ t.left = tx[c].left /\ t.dedupe = tx[c].dedupe
  BY <1>2 DEF Inv, TypeInv, Transaction
<1> HIDE DEF t
<1>5. TypeInv'
  BY <1>3, <1>4 DEF Inv, TypeInv, TypeOK, tables, history, Phases
<1>6. CallOK(c)'
  BY <1>1, <1>3 DEF Inv, TypeInv, TypeOK, CallOK, tables
<1> QED
  BY <1>3, <1>4, <1>5, <1>6, LocalStep DEF Inv, TypeInv, TypeOK, tables

\* A collapse event whose key is taken ends the call.
LEMMA CollapseDuplicateInv ==
  ASSUME Inv, NEW c \in Clients, CollapseDuplicate(c)
  PROVE  Inv'
BY FailInv DEF CollapseDuplicate, Outcomes

\* What is stored under the key is an entry.
LEMMA SaveIdemInv ==
  ASSUME Inv, NEW c \in Clients, NEW m \in Mems, SaveIdem(c, m)
  PROVE  Inv'
<1> DEFINE q == req[c]
           entry == NewEntry(q, m, cur[c].ver)
           idems == [tx[c].idem EXCEPT ![q.key] = entry]
           t == [tx[c] EXCEPT !.idem = idems]
<1>1. q \in Requests /\ q.key \in Keys /\ q \in Keyed /\ cur[c] \in Record
  BY RecordsAssumption DEF Inv, CallInv, CallOK, SaveIdem
<1>2. entry \in Entry
  BY <1>1, NewEntryType DEF Record
<1>3. /\ tx' = [tx EXCEPT ![c] = t] /\ pc' = [pc EXCEPT ![c] = "commit"]
      /\ UNCHANGED <<tables, req, cur, winner, outcome, history, ops>>
  BY DEF SaveIdem, Goto, Inv, TypeInv, Transaction
<1> HIDE DEF entry
<1>4. idems \in [Keys -> Entry \cup {NoEntry}]
  BY <1>1, <1>2 DEF Inv, TypeInv, Transaction
<1> HIDE DEF idems
<1>5. t \in Transaction /\ t.left = tx[c].left /\ t.dedupe = tx[c].dedupe
  BY <1>4 DEF Inv, TypeInv, Transaction
<1> HIDE DEF t
<1>6. TypeInv'
  BY <1>3, <1>5 DEF Inv, TypeInv, TypeOK, tables, history, Phases
<1>7. CallOK(c)'
  BY <1>1, <1>3 DEF Inv, TypeInv, TypeOK, CallOK, tables
<1> QED
  BY <1>3, <1>5, <1>6, <1>7, LocalStep DEF Inv, TypeInv, TypeOK, tables

\* A key that is taken ends the call.
LEMMA SaveIdemDuplicateInv ==
  ASSUME Inv, NEW c \in Clients, SaveIdemDuplicate(c)
  PROVE  Inv'
BY FailInv DEF SaveIdemDuplicate, Outcomes

\* The row an access visits exists: it was in the statement's snapshot.
LEMMA AccessRowInv ==
  ASSUME Inv, NEW c \in Clients, NEW m \in Mems, AccessRow(c, m)
  PROVE  Inv'
<1> DEFINE r == [rec[m] EXCEPT !.hits = @ + 1]
           row == [tx[c].rec EXCEPT ![m] = r]
           t == [tx[c] EXCEPT !.rec = row, !.left = @ \ {m}]
<1>1. rec[m] \in Record /\ req[c] \in Requests /\ req[c].op = "access" /\ pc[c] = "access"
  BY DEF Inv, TypeInv, TypeOK, CallInv, CallOK, LeftInv, AccessRow, NextRow
<1>2. r \in Record
  BY <1>1 DEF Record
<1>3. /\ tx' = [tx EXCEPT ![c] = t]
      /\ UNCHANGED <<tables, pc, req, cur, winner, outcome, history, ops>>
  BY DEF AccessRow, Inv, TypeInv, Transaction
<1> HIDE DEF r
<1>4. row \in [Mems -> Record \cup {NoRec}]
  BY <1>2 DEF Inv, TypeInv, Transaction
<1> HIDE DEF row
<1>5. t \in Transaction /\ t.left \subseteq tx[c].left /\ t.dedupe = tx[c].dedupe
  BY <1>4 DEF Inv, TypeInv, Transaction
<1> HIDE DEF t
<1>6. TypeInv'
  BY <1>3, <1>5 DEF Inv, TypeInv, TypeOK, tables, history
<1>7. CallOK(c)'
  BY <1>1, <1>3 DEF Inv, TypeInv, TypeOK, CallOK, tables
<1> QED
  BY <1>3, <1>5, <1>6, <1>7, LocalStep DEF Inv, TypeInv, TypeOK, tables

\* An access that has visited its rows goes on to COMMIT.
LEMMA AccessDoneInv ==
  ASSUME Inv, NEW c \in Clients, AccessDone(c)
  PROVE  Inv'
<1> USE DEF AccessDone, Goto
<1>1. TypeInv'
  BY DEF Inv, TypeInv, TypeOK, tables, history, Phases
<1>2. CallOK(c)'
  BY DEF Inv, TypeInv, TypeOK, CallInv, CallOK, tables
<1> QED
  BY <1>1, <1>2, LocalStep DEF Inv, TypeInv, TypeOK, tables

\* COMMIT adds rows and claims, and takes none away; a key it claims nobody else has.
LEMMA ApplyInv ==
  ASSUME Inv, NEW c \in Clients, NEW how \in Outcomes, Apply(c), Return(c, how)
  PROVE  Inv'
<1>1. /\ rec' = [m \in Mems |-> Visible(c, m)]
      /\ events' = events \cup tx[c].events
      /\ outbox' = outbox \cup tx[c].outbox
      /\ idem' = [k \in Keys |-> IF tx[c].idem[k] # NoEntry THEN tx[c].idem[k] ELSE idem[k]]
      /\ dedupe' = [d \in DKeys |-> IF tx[c].dedupe[d] # NoMem THEN tx[c].dedupe[d]
                                   ELSE dedupe[d]]
      /\ accessed' = [m \in Mems |-> accessed[m] +
                        IF req[c].op = "access" /\ tx[c].rec[m] # NoRec THEN 1 ELSE 0]
      /\ ops' = ops
  BY DEF Apply
<1>2. tx[c] \in Transaction
  BY DEF Inv, TypeInv
<1>3. \A m \in Mems : rec[m] # NoRec => rec'[m] # NoRec
  BY <1>1 DEF Visible
<1>4. \A d \in DKeys : dedupe[d] # NoMem => dedupe'[d] # NoMem
  BY <1>1
<1>5. TypeInv'
  <2>1. rec' \in [Mems -> Record \cup {NoRec}]
    BY <1>1, <1>2 DEF Inv, TypeInv, TypeOK, Transaction, Visible
  <2>2. events' \subseteq Event /\ outbox' \subseteq Mems \X Nat \X EventTypes
    BY <1>1, <1>2 DEF Inv, TypeInv, TypeOK, Transaction
  <2>3. /\ idem' \in [Keys -> Entry \cup {NoEntry}]
        /\ dedupe' \in [DKeys -> Mems \cup {NoMem}]
    BY <1>1, <1>2 DEF Inv, TypeInv, TypeOK, Transaction
  <2>4. accessed' \in [Mems -> Nat] /\ ops' \in 0..MaxOps
    BY <1>1 DEF Inv, TypeInv, TypeOK
  <2>5. /\ pc' \in [Clients -> Phases] /\ cur' \in [Clients -> Record \cup {NoRec}]
        /\ winner' \in [Clients -> Mems \cup {NoMem}] /\ outcome' \in [Clients -> Outcomes]
        /\ req' \in [Clients -> Requests \cup {NoReq}] /\ tx' \in [Clients -> Transaction]
    BY NoTxType DEF Inv, TypeInv, TypeOK, Return, Phases
  <2> QED
    BY <2>1, <2>2, <2>3, <2>4, <2>5 DEF TypeInv, TypeOK
<1>6. ASSUME NEW d \in Clients
      PROVE  CallOK(d)'
  <2>1. CASE d = c
    BY <2>1 DEF Inv, TypeInv, TypeOK, CallOK, Return, NoTx
  <2>2. CASE d # c
    <3>1. /\ pc'[d] = pc[d] /\ req'[d] = req[d] /\ cur'[d] = cur[d]
          /\ winner'[d] = winner[d] /\ tx'[d] = tx[d] /\ CallOK(d)
      BY <2>2 DEF Inv, TypeInv, TypeOK, CallInv, Return
    <3> QED
      BY <3>1, <1>3, <1>4, RecordsAssumption DEF CallOK
  <2> QED
    BY <2>1, <2>2
<1>7. tx'[c] = NoTx /\ \A d \in Clients \ {c} : tx'[d] = tx[d]
  BY DEF Inv, TypeInv, Return
<1>8. LeftInv'
  <2>1. NoTx.left = {} /\ \A d \in Clients : tx[d].left \subseteq Mems
    BY DEF NoTx, Inv, TypeInv, Transaction
  <2>2. \A d \in Clients : tx'[d].left \subseteq tx[d].left
    BY <1>7, <2>1
  <2> QED
    BY <1>3, <2>1, <2>2 DEF Inv, LeftInv
<1>9. ClaimInv'
  BY <1>1, <1>7 DEF Inv, TypeInv, ClaimInv, NoTx
<1> QED
  BY <1>5, <1>6, <1>8, <1>9 DEF Inv, CallInv

\* Every step of a transaction.
LEMMA StepInv ==
  ASSUME Inv, NEW c \in Clients, Step(c) \/ CommitReplyLost(c) \/ Abort(c)
  PROVE  Inv'
<1>1. CASE Commit(c) \/ CommitReplyLost(c)
  BY <1>1, ApplyInv DEF Commit, CommitReplyLost, Outcomes
<1>2. CASE Abort(c) \/ DeadlockAbort(c)
  BY <1>2, FailInv DEF Abort, DeadlockAbort, Outcomes
<1>3. CASE LookupMiss(c) \/ LookupConflict(c) \/ LookupReplay(c)
  BY <1>3, LookupMissInv, FailInv, ReturnInv DEF LookupConflict, LookupReplay, Outcomes
<1>4. CASE (\E m \in Mems : InsertRecord(c, m)) \/ InsertDuplicate(c)
  BY <1>4, InsertRecordInv, FailInv DEF InsertDuplicate, Outcomes
<1>5. CASE Load(c) \/ LoadFails(c) \/ Update(c) \/ UpdateConflict(c) \/ UpdateDuplicate(c)
  BY <1>5, LoadInv, LoadFailsInv, UpdateInv, FailInv DEF UpdateConflict, UpdateDuplicate, Outcomes
<1>6. CASE Claim(c) \/ LockIndex(c) \/ LoadWinner(c) \/ LoadWinnerFails(c) \/ Collapse(c)
             \/ CollapseDuplicate(c)
  BY <1>6, ClaimStepInv, LockIndexInv, LoadWinnerInv, LoadWinnerFailsInv, CollapseInv,
     CollapseDuplicateInv
<1>7. CASE (\E m \in Mems : SaveIdem(c, m)) \/ SaveIdemDuplicate(c)
  BY <1>7, SaveIdemInv, SaveIdemDuplicateInv
<1>8. CASE (\E m \in Mems : AccessRow(c, m)) \/ AccessDone(c)
  BY <1>8, AccessRowInv, AccessDoneInv
<1> QED
  BY <1>1, <1>2, <1>3, <1>4, <1>5, <1>6, <1>7, <1>8 DEF Step, Statement

\* The single statements leave the transactions alone.
LEMMA SingleInv ==
  ASSUME Inv,
         \/ \E e \in Appends : AppendEvent(e)
         \/ \E s \in Saves : SaveIdempotency(s)
         \/ \E k \in Keys : LoadIdempotency(k)
  PROVE  Inv'
<1> DEFINE Types == /\ events' \subseteq Event
                    /\ idem' \in [Keys -> Entry \cup {NoEntry}]
                    /\ ops' \in 0..MaxOps
<1>1. UNCHANGED <<rec, outbox, dedupe, client, accessed>>
  BY DEF AppendEvent, SaveIdempotency, LoadIdempotency, history, tables
<1>2. Types
  <2>1. ASSUME NEW e \in Appends, AppendEvent(e)
        PROVE  Types
    BY <2>1, RecordsAssumption, StoreAssumption
    DEF AppendEvent, Appendable, Inv, TypeInv, TypeOK
  <2>2. ASSUME NEW s \in Saves, SaveIdempotency(s)
        PROVE  Types
    BY <2>2, RecordsAssumption, StoreAssumption DEF SaveIdempotency, Inv, TypeInv, TypeOK
  <2>3. ASSUME NEW k \in Keys, LoadIdempotency(k)
        PROVE  Types
    BY <2>3 DEF LoadIdempotency, Inv, TypeInv, TypeOK, tables
  <2> QED
    BY <2>1, <2>2, <2>3
<1>3. TypeInv'
  BY <1>1, <1>2 DEF Inv, TypeInv, TypeOK, client
<1>4. CallInv' /\ LeftInv' /\ ClaimInv'
  BY <1>1 DEF Inv, CallInv, CallOK, LeftInv, ClaimInv, client
<1> QED
  BY <1>3, <1>4 DEF Inv

\* The seed meets the invariant.
LEMMA InitInv == Init => Inv
<1> SUFFICES ASSUME Init
             PROVE  Inv
  OBVIOUS
<1>1. SeedRecords \in [Mems -> Record \cup {NoRec}]
  BY RecordsAssumption DEF SeedRecords
<1>2. \A m \in DOMAIN Seed : SeedRecords[m] \in Record
  BY RecordsAssumption DEF SeedRecords
<1>3. SeedEvents \subseteq Event /\ outbox \subseteq Mems \X Nat \X EventTypes
  <2>1. ASSUME NEW m \in DOMAIN Seed
        PROVE  LET e == NewEvent(m, SeedRecords[m], "created", NoKey, NoMem)
               IN  e \in Event /\ EventKey(e) \in Mems \X Nat \X EventTypes
    BY <1>2, RecordsAssumption, NewEventType DEF EventTypes
  <2> QED
    BY <2>1 DEF Init, SeedEvents
<1>4. TypeInv
  BY <1>1, <1>3, NoTxType, StoreAssumption
  DEF Init, TypeInv, TypeOK, Phases, Outcomes, NoTx
<1>5. CallInv
  BY DEF Init, CallInv, CallOK, NoTx
<1>6. LeftInv /\ ClaimInv
  BY DEF Init, LeftInv, ClaimInv, NoTx
<1> QED
  BY <1>4, <1>5, <1>6 DEF Inv

\* Every step keeps the invariant.
LEMMA NextInv == Inv /\ [Next]_vars => Inv'
<1> SUFFICES ASSUME Inv, [Next]_vars
             PROVE  Inv'
  OBVIOUS
<1>1. CASE UNCHANGED vars
  BY <1>1 DEF vars, tables, client, history, Inv, TypeInv, TypeOK, CallInv, CallOK,
              LeftInv, ClaimInv
<1>2. CASE Next
  BY <1>2, BeginInv, StepInv, SingleInv DEF Next
<1> QED
  BY <1>1, <1>2

-----------------------------------------------------------------------------
(* The outbox. *)

\* A transaction has an outbox row for exactly the events it has inserted.
Paired(t) == t.outbox = {EventKey(e) : e \in t.events}

PairedInv == \A c \in Clients : Paired(tx[c])

\* Steps that commit nothing keep the pairing if the transaction of the caller does.
LEMMA PairedStep ==
  ASSUME PairedInv, Inv, NEW c \in Clients,
         NEW t \in Transaction, Paired(t), tx' = [tx EXCEPT ![c] = t]
  PROVE  PairedInv'
BY DEF PairedInv, Inv, TypeInv

\* A call that returns has inserted nothing.
LEMMA ReturnPaired ==
  ASSUME PairedInv, Inv, NEW c \in Clients, NEW how, Return(c, how)
  PROVE  PairedInv'
<1>1. Paired(NoTx)
  BY DEF Paired, NoTx
<1> QED
  BY <1>1, NoTxType, PairedStep DEF Return

\* Each statement inserts an event together with its outbox row.
LEMMA StatementPaired ==
  ASSUME PairedInv, Inv, NEW c \in Clients, Statement(c)
  PROVE  PairedInv'
<1>1. Paired(tx[c]) /\ tx[c] \in Transaction
  BY DEF PairedInv, Inv, TypeInv
<1>2. Inv'
  BY StepInv DEF Step
<1>3. ASSUME Paired(tx'[c]), \A d \in Clients \ {c} : tx'[d] = tx[d]
      PROVE  PairedInv'
  BY <1>3 DEF PairedInv
<1>4. ASSUME NEW how, Fail(c, how)
      PROVE  PairedInv'
  BY <1>4, ReturnPaired DEF Fail
<1>5. CASE DeadlockAbort(c) \/ LookupConflict(c) \/ LookupReplay(c) \/ InsertDuplicate(c)
           \/ LoadFails(c) \/ UpdateConflict(c) \/ UpdateDuplicate(c) \/ LoadWinnerFails(c)
           \/ CollapseDuplicate(c) \/ SaveIdemDuplicate(c)
  BY <1>4, <1>5, ReturnPaired
  DEF DeadlockAbort, LookupConflict, LookupReplay, InsertDuplicate, LoadFails, UpdateConflict,
      UpdateDuplicate, LoadWinnerFails, CollapseDuplicate, SaveIdemDuplicate
<1>6. CASE LookupMiss(c) \/ Load(c) \/ AccessDone(c)
  BY <1>1, <1>3, <1>6 DEF LookupMiss, Load, AccessDone
<1>7. CASE Claim(c) \/ LockIndex(c) \/ LoadWinner(c) \/ (\E m \in Mems : SaveIdem(c, m))
           \/ \E m \in Mems : AccessRow(c, m)
  <2> DEFINE Keeps == /\ tx'[c].events = tx[c].events /\ tx'[c].outbox = tx[c].outbox
                      /\ \A d \in Clients \ {c} : tx'[d] = tx[d]
  <2>1. ASSUME Claim(c) \/ LockIndex(c)
        PROVE  Keeps
    BY <1>1, <2>1 DEF Claim, LockIndex, Inv, TypeInv, Transaction
  <2>2. ASSUME LoadWinner(c)
        PROVE  Keeps
    BY <1>1, <2>2 DEF LoadWinner, Inv, TypeInv, Transaction
  <2>3. ASSUME NEW m \in Mems, SaveIdem(c, m)
        PROVE  Keeps
    BY <1>1, <2>3 DEF SaveIdem, Inv, TypeInv, Transaction
  <2>4. ASSUME NEW m \in Mems, AccessRow(c, m)
        PROVE  Keeps
    BY <1>1, <2>4 DEF AccessRow, Inv, TypeInv, Transaction
  <2>5. Keeps
    BY <1>7, <2>1, <2>2, <2>3, <2>4
  <2> QED
    BY <1>1, <1>3, <2>5 DEF Paired
<1>8. CASE (\E m \in Mems : InsertRecord(c, m)) \/ Update(c)
  <2>1. ASSUME NEW m, NEW r, NEW e, NEW k, k = EventKey(e), tx' = Wrote(tx, c, m, r, e, k)
        PROVE  PairedInv'
    <3>1. /\ tx'[c].events = {e} /\ tx'[c].outbox = {k}
          /\ \A d \in Clients \ {c} : tx'[d] = tx[d]
      BY <1>1, <2>1 DEF Wrote, Inv, TypeInv, Transaction
    <3> QED
      BY <1>3, <2>1, <3>1 DEF Paired
  <2>2. ASSUME NEW m \in Mems, InsertRecord(c, m)
        PROVE  PairedInv'
    <3> DEFINE r == FirstVersion(req[c])
               e == NewEvent(m, r, "created", req[c].key, NoMem)
               k == EventKey(e)
    <3>1. tx' = Wrote(tx, c, m, r, e, k) /\ k = EventKey(e)
      BY <2>2 DEF InsertRecord, Wrote
    <3> HIDE DEF r, e, k
    <3> QED
      BY <2>1, <3>1
  <2>3. CASE Update(c)
    <3> DEFINE m == req[c].mid
               r == Written(c, rec[m])
               e == NewEvent(m, cur[c], MutationType(req[c]), NoKey, NoMem)
               k == EventKey(e)
    <3>1. tx' = Wrote(tx, c, m, r, e, k) /\ k = EventKey(e)
      BY <2>3 DEF Update, Wrote
    <3> HIDE DEF m, r, e, k
    <3> QED
      BY <2>1, <3>1
  <2> QED
    BY <1>8, <2>2, <2>3
<1>9. CASE Collapse(c)
  <2>1. \E e : /\ tx'[c].events = tx[c].events \cup {e}
               /\ tx'[c].outbox = tx[c].outbox \cup {EventKey(e)}
    BY <1>1, <1>9 DEF Collapse, Inv, TypeInv, Transaction
  <2>2. \A d \in Clients \ {c} : tx'[d] = tx[d]
    BY <1>9 DEF Collapse, Inv, TypeInv
  <2> QED
    BY <1>1, <1>3, <2>1, <2>2 DEF Paired
<1> QED
  BY <1>5, <1>6, <1>7, <1>8, <1>9 DEF Statement

\* Every step keeps events and outbox rows paired.
LEMMA NextPaired == Inv /\ PairedInv /\ [Next]_vars => PairedInv'
<1> SUFFICES ASSUME Inv, PairedInv, [Next]_vars
             PROVE  PairedInv'
  OBVIOUS
<1>1. CASE UNCHANGED vars
  BY <1>1 DEF vars, client, PairedInv, Paired
<1>2. ASSUME NEW c \in Clients, Step(c) \/ CommitReplyLost(c) \/ Abort(c)
      PROVE  PairedInv'
  BY <1>2, StatementPaired, ReturnPaired DEF Step, Commit, CommitReplyLost, Abort, Fail
<1>3. ASSUME NEW c \in Clients, NEW q \in Requests, Begin(c, q)
      PROVE  PairedInv'
  BY <1>3 DEF Begin, PairedInv, Paired, Inv, TypeInv, Transaction
<1>4. CASE \/ \E e \in Appends : AppendEvent(e)
           \/ \E s \in Saves : SaveIdempotency(s)
           \/ \E k \in Keys : LoadIdempotency(k)
  BY <1>4 DEF AppendEvent, SaveIdempotency, LoadIdempotency, client, PairedInv, Paired
<1> QED
  BY <1>1, <1>2, <1>3, <1>4 DEF Next

\* At first no transaction has inserted anything.
LEMMA InitPaired == Init => PairedInv
BY DEF Init, PairedInv, Paired, NoTx

\* Only COMMIT changes records, the outbox and the dedupe index; events and entries are
\* also added by the callers' own statements.
LEMMA OnlyCommits ==
  ASSUME Next
  PROVE  \/ \E c \in Clients : Commit(c) \/ CommitReplyLost(c)
         \/ \E e \in Appends : AppendEvent(e)
         \/ \E s \in Saves : SaveIdempotency(s)
         \/ UNCHANGED tables
<1>1. ASSUME NEW c \in Clients, Statement(c)
      PROVE  UNCHANGED tables
  BY <1>1
  DEF Statement, LookupMiss, LookupConflict, LookupReplay, InsertRecord, InsertDuplicate,
      Load, LoadFails, Update, UpdateConflict, UpdateDuplicate, Claim, LockIndex, LoadWinner,
      LoadWinnerFails, Collapse, CollapseDuplicate, SaveIdem, SaveIdemDuplicate, AccessRow,
      AccessDone, DeadlockAbort, Fail
<1>2. CASE \E c \in Clients : Abort(c) \/ \E q \in Requests : Begin(c, q)
  BY <1>2 DEF Abort, Begin, Fail
<1>3. CASE \E k \in Keys : LoadIdempotency(k)
  BY <1>3 DEF LoadIdempotency
<1> QED
  BY <1>1, <1>2, <1>3 DEF Next, Step

-----------------------------------------------------------------------------
(* The theorems. *)

\* The invariant holds throughout.
THEOREM StoreInvariant == Spec => []Inv
BY InitInv, NextInv, PTL DEF Spec

\* Every variable stays in its type for any clients, records, keys and calls: what the
\* statements read, write and store under a key are records, events and entries, and
\* every version is at least 1 (WriteRecord, mutateRecordTx, SaveIdempotency).
THEOREM StoreTypeCorrect == Spec => []TypeOK
<1>1. Inv => TypeOK
  BY DEF Inv, TypeInv
<1> QED
  BY <1>1, StoreInvariant, PTL

\* A committed winner of a dedupe key is never replaced, for any number of first
\* writers: a transaction that has claimed a key found no committed winner and waited
\* for every other claim, and its claim keeps others out until it ends (ResolveDedupe).
THEOREM WinnerStays == Spec => WinnerStable
<1>1. ASSUME Inv, Next
      PROVE  \A d \in DKeys : dedupe[d] # NoMem => dedupe'[d] = dedupe[d]
  <2>1. ASSUME NEW c \in Clients, Apply(c)
        PROVE  \A d \in DKeys : dedupe[d] # NoMem => dedupe'[d] = dedupe[d]
    BY <1>1, <2>1 DEF Apply, Inv, ClaimInv
  <2> QED
    BY <1>1, <2>1, OnlyCommits
    DEF Commit, CommitReplyLost, AppendEvent, SaveIdempotency, tables
<1>2. Inv /\ [Next]_vars =>
        [\A d \in DKeys : dedupe[d] # NoMem => dedupe'[d] = dedupe[d]]_vars
  BY <1>1
<1> QED
  BY <1>2, StoreInvariant, PTL DEF Spec, WinnerStable

\* The outbox holds exactly the committed events, for any clients, calls and crashes,
\* as long as no caller appends events of its own: each transaction inserts its events
\* and their outbox rows together, and COMMIT applies both (WriteRecord, mutateRecordTx,
\* Promote, ResolveDedupe).
THEOREM OutboxAlwaysComplete ==
  ASSUME Appends = {}
  PROVE  Spec => []OutboxComplete
<1>1. Init => OutboxComplete
  BY DEF Init, OutboxComplete
<1>2. PairedInv /\ OutboxComplete /\ [Next]_vars => OutboxComplete'
  <2> SUFFICES ASSUME PairedInv, OutboxComplete, [Next]_vars
               PROVE  OutboxComplete'
    OBVIOUS
  <2>1. ASSUME NEW c \in Clients, Apply(c)
        PROVE  OutboxComplete'
    BY <2>1 DEF PairedInv, OutboxComplete, Paired, Apply
  <2>2. CASE UNCHANGED <<events, outbox>>
    BY <2>2 DEF OutboxComplete
  <2> QED
    BY <2>1, <2>2, OnlyCommits
    DEF Commit, CommitReplyLost, AppendEvent, SaveIdempotency, tables, vars
<1> QED
  BY <1>1, <1>2, InitInv, NextInv, InitPaired, NextPaired, PTL DEF Spec

=============================================================================

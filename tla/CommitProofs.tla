---------------------------- MODULE CommitProofs ----------------------------
(***************************************************************************)
(* Proofs that a COMMIT of Store is one call of Ledger: what a transaction *)
(* has done up to each of its statements, although the tables move on      *)
(* under it, and what follows for rows, answers and verdicts.              *)
(***************************************************************************)
EXTENDS StoreProofs

-----------------------------------------------------------------------------
(***************************************************************************)
(* The inductive invariant.                                                *)
(***************************************************************************)

\* r is s, but may miss accesses.
CopyOf(r, s) == \E h \in 0..s.hits : r = [s EXCEPT !.hits = h]

\* The transaction has written no row but that of m, or no row and no event at all.
Only(c, m) == \A n \in Mems \ {m} : tx[c].rec[n] = NoRec
EmptyTx(c) == tx[c].events = {} /\ \A m \in Mems : tx[c].rec[m] = NoRec

\* What it will store under its key.
Stored(c, m, v) ==
  tx[c].idem[req[c].key] = NewEntry(req[c], m, v)

\* A new record was inserted, with its event.
Created(c, m) ==
  LET r == FirstVersion(req[c])
  IN  /\ req[c].mid \in {m, NoMem} /\ rec[m] = NoRec
      /\ tx[c].rec[m] = r /\ Only(c, m)
      /\ tx[c].events = {NewEvent(m, r, "created", req[c].key, NoMem)}
      /\ IF pc[c] = "saveidem" THEN cur[c].ver = 1 ELSE Stored(c, m, 1)

\* The record in memory is what the call makes of the row, unless the row has moved on.
Loaded(c) ==
  LET m == req[c].mid
  IN  /\ req[c].ver \in Nat /\ cur[c].ver = req[c].ver + 1 /\ rec[m].ver >= req[c].ver
      /\ rec[m].ver = req[c].ver => CopyOf(cur[c], Applied(req[c], rec[m]))

\* The row written is what the call makes of the committed row; its event may miss
\* accesses.
Changed(c, e) ==
  LET m == req[c].mid
      r == Applied(req[c], rec[m])
  IN  /\ rec[m] # NoRec /\ rec[m].ver = req[c].ver
      /\ tx[c].rec[m] = r /\ Only(c, m)
      /\ CopyOf(e.snap, r) /\ e = NewEvent(m, e.snap, MutationType(req[c]), NoKey, NoMem)

\* s is the winner as some event describes it, e included.
Past(c, e, s) ==
  LET w == winner[c]
  IN  /\ rec[w] # NoRec
      /\ \E f \in events \cup {e} :
           f.mid = w /\ CopyOf(s, [f.snap EXCEPT !.hits = Visible(c, w).hits])

\* A mutation after its UPDATE: the events and what is stored, by phase.
Mutated(c, e) ==
  /\ Changed(c, e)
  /\ pc[c] = "saveidem" => cur[c].ver = req[c].ver + 1
  /\ pc[c] = "collapse" => Past(c, e, cur[c])
  /\ pc[c] = "commit" /\ req[c].op = "dedupe" => \E f \in tx[c].events :
       /\ tx[c].events = {e, f} /\ Past(c, e, f.snap)
       /\ f = NewEvent(winner[c], f.snap, "collapsed", NoKey, req[c].mid)
  /\ pc[c] = "commit" /\ req[c].op # "dedupe" /\ req[c].key # NoKey =>
       Stored(c, req[c].mid, req[c].ver + 1)
  /\ pc[c] # "commit" \/ req[c].op # "dedupe" => tx[c].events = {e}

\* An access has added one to rows it was asked to visit.
Visited(c) ==
  /\ tx[c].events = {}
  /\ \A m \in Mems : tx[c].rec[m] # NoRec =>
       /\ rec[m] # NoRec /\ tx[c].rec[m] = [rec[m] EXCEPT !.hits = @ + 1]
       /\ \E i \in DOMAIN req[c].ids : req[c].ids[i] = m

Won(c) == req[c].op = "dedupe" /\ tx[c].dedupe[req[c].dk] # NoMem

\* What a transaction has written, by phase and call.
WrittenOK(c) ==
  LET op == req[c].op
  IN  /\ pc[c] \in {"idle", "lookup", "insert", "claim", "lockindex", "load", "update"} =>
           EmptyTx(c)
      /\ pc[c] = "update" => Loaded(c)
      /\ pc[c] \in {"saveidem", "commit"} /\ op = "created" => \E m \in Mems : Created(c, m)
      /\ pc[c] \in {"saveidem", "winner", "collapse", "commit"}
           /\ op \notin {"created", "access"} /\ ~Won(c) => \E e \in tx[c].events : Mutated(c, e)
      /\ pc[c] = "commit" /\ Won(c) => EmptyTx(c)
      /\ pc[c] \in {"access", "commit"} /\ op = "access" => Visited(c)

\* Keys it has inserted, and the winner it works for.
KeysOK(c) ==
  /\ \A k \in Keys : tx[c].idem[k] # NoEntry =>
       /\ pc[c] = "commit" /\ req[c].op \in {"created", "promoted"} /\ k = req[c].key
       /\ idem[k] = NoEntry
  /\ \A d \in DKeys : tx[c].dedupe[d] # NoMem =>
       /\ pc[c] = "commit" /\ req[c].op = "dedupe" /\ d = req[c].dk
       /\ tx[c].dedupe[d] = req[c].mid
  /\ pc[c] \in {"load", "update", "winner", "collapse", "commit"} /\ req[c].op = "dedupe"
       /\ ~Won(c) => winner[c] = dedupe[req[c].dk] /\ winner[c] # NoMem

\* Its events have keys of their own; but for collapses they are about rows it holds.
EventsOK(c) ==
  \A e \in tx[c].events :
    /\ e.type # "collapsed" => tx[c].rec[e.mid] # NoRec
    /\ e.type = "collapsed" => pc[c] = "commit"
    /\ \A f \in events : EventKey(e) # EventKey(f)

WorkOK(c) == WrittenOK(c) /\ KeysOK(c) /\ EventsOK(c)

\* Two transactions hold no row and no key in common.
Apart(c, d) ==
  /\ \A m \in Mems : tx[c].rec[m] = NoRec \/ tx[d].rec[m] = NoRec
  /\ \A k \in Keys : tx[c].idem[k] = NoEntry \/ tx[d].idem[k] = NoEntry
  /\ \A e \in tx[c].events, f \in tx[d].events : EventKey(e) # EventKey(f)

\* A row has counted its accesses from the counter that its first event names.
Counted(m) ==
  \E f \in events :
    EventKey(f) = <<m, 1, "created">> /\ rec[m].hits = f.snap.hits + accessed[m]

\* Every row has counted its accesses, and is described by an event.
RowOK(m) ==
  IF rec[m] = NoRec THEN accessed[m] = 0
  ELSE /\ Counted(m)
       /\ \E f \in events : f.mid = m /\ rec[m] = [f.snap EXCEPT !.hits = rec[m].hits]

WorkInv ==
  /\ \A c \in Clients : WorkOK(c)
  /\ \A c \in Clients : \A d \in Clients \ {c} : Apart(c, d)
  /\ \A m \in Mems : RowOK(m)

-----------------------------------------------------------------------------
(* Records and their copies. *)

\* Two records with the same fields are the same.
LEMMA SameRecord ==
  ASSUME NEW r \in Record, NEW s \in Record,
         r.ver = s.ver, r.content = s.content, r.kind = s.kind, r.from = s.from,
         r.pinned = s.pinned, r.disabled = s.disabled, r.deleted = s.deleted, r.hits = s.hits
  PROVE  r = s
BY DEF Record

\* A record with another counter.
LEMMA WithHits ==
  ASSUME NEW s \in Record, NEW h \in Nat
  PROVE  LET r == [s EXCEPT !.hits = h]
         IN  /\ r \in Record /\ r.hits = h
             /\ r.ver = s.ver /\ r.content = s.content /\ r.kind = s.kind /\ r.from = s.from
             /\ r.pinned = s.pinned /\ r.disabled = s.disabled /\ r.deleted = s.deleted
BY DEF Record

\* A copy has every field of the record but the counter, which is not larger.
LEMMA CopyFacts ==
  ASSUME NEW s \in Record, NEW r, CopyOf(r, s)
  PROVE  /\ r \in Record /\ s.hits \in Nat /\ r.hits \in 0..s.hits
         /\ r = [s EXCEPT !.hits = r.hits]
         /\ r.ver = s.ver /\ r.content = s.content /\ r.kind = s.kind /\ r.from = s.from
         /\ r.pinned = s.pinned /\ r.disabled = s.disabled /\ r.deleted = s.deleted
<1>1. PICK h \in 0..s.hits : r = [s EXCEPT !.hits = h]
  BY DEF CopyOf
<1>2. s.hits \in Nat /\ h \in Nat
  BY <1>1 DEF Record
<1> QED
  BY <1>1, <1>2, WithHits

\* Only the counters differ.
LEMMA CopyIf ==
  ASSUME NEW r \in Record, NEW s \in Record,
         r.ver = s.ver, r.content = s.content, r.kind = s.kind, r.from = s.from,
         r.pinned = s.pinned, r.disabled = s.disabled, r.deleted = s.deleted
  PROVE  /\ r = [s EXCEPT !.hits = r.hits]
         /\ r.hits <= s.hits => CopyOf(r, s)
<1>1. r.hits \in Nat /\ s.hits \in Nat
  BY DEF Record
<1>2. r = [s EXCEPT !.hits = r.hits]
  <2> DEFINE t == [s EXCEPT !.hits = r.hits]
  <2>1. /\ t \in Record /\ t.hits = r.hits
        /\ t.ver = s.ver /\ t.content = s.content /\ t.kind = s.kind /\ t.from = s.from
        /\ t.pinned = s.pinned /\ t.disabled = s.disabled /\ t.deleted = s.deleted
    BY <1>1, WithHits
  <2> HIDE DEF t
  <2>2. r = t
    BY <2>1, SameRecord
  <2> QED
    BY <2>2 DEF t
<1> QED
  BY <1>1, <1>2 DEF CopyOf

\* A copy stays one when more accesses are counted.
LEMMA CopyMore ==
  ASSUME NEW s \in Record, NEW h \in Nat, NEW k \in Nat, h <= k, NEW r,
         CopyOf(r, [s EXCEPT !.hits = h])
  PROVE  CopyOf(r, [s EXCEPT !.hits = k])
<1> DEFINE a == [s EXCEPT !.hits = h]
           b == [s EXCEPT !.hits = k]
<1>1. /\ a \in Record /\ a.hits = h /\ b \in Record /\ b.hits = k
      /\ a.ver = b.ver /\ a.content = b.content /\ a.kind = b.kind /\ a.from = b.from
      /\ a.pinned = b.pinned /\ a.disabled = b.disabled /\ a.deleted = b.deleted
  BY WithHits
<1> HIDE DEF a, b
<1>2. CopyOf(r, a)
  BY DEF a
<1>3. CopyOf(r, b)
  BY <1>1, <1>2, CopyFacts, CopyIf
<1> QED
  BY <1>3 DEF b

\* A copy of a copy is one.
LEMMA CopyTransitive ==
  ASSUME NEW s \in Record, NEW r, NEW t, CopyOf(r, s), CopyOf(t, r)
  PROVE  CopyOf(t, s)
<1>1. /\ r \in Record /\ r.hits \in 0..s.hits /\ s.hits \in Nat
      /\ r.ver = s.ver /\ r.content = s.content /\ r.kind = s.kind /\ r.from = s.from
      /\ r.pinned = s.pinned /\ r.disabled = s.disabled /\ r.deleted = s.deleted
  BY CopyFacts
<1>2. /\ t \in Record /\ t.hits \in 0..r.hits
      /\ r.ver = t.ver /\ r.content = t.content /\ r.kind = t.kind /\ r.from = t.from
      /\ r.pinned = t.pinned /\ r.disabled = t.disabled /\ r.deleted = t.deleted
  BY <1>1, CopyFacts
<1>3. t.hits <= s.hits
  BY <1>1, <1>2
<1> QED
  BY <1>1, <1>2, <1>3, CopyIf

\* A record is a copy of itself.
LEMMA CopySelf ==
  ASSUME NEW r \in Record
  PROVE  CopyOf(r, r) /\ r = [r EXCEPT !.hits = r.hits]
<1>1. r.hits <= r.hits
  BY DEF Record
<1> QED
  BY <1>1, CopyIf

\* What a call makes of a record, field by field.
LEMMA AppliedFields ==
  ASSUME NEW q \in Requests, q.op \notin {"created", "access"}, NEW r \in Record
  PROVE  LET type == MutationType(q)
             s == Applied(q, r)
         IN  /\ s \in Record /\ s.ver = r.ver + 1 /\ s.hits = r.hits
             /\ s.content = IF type = "updated" /\ q.val # Blank THEN q.val ELSE r.content
             /\ s.kind = IF type = "promoted" THEN "episodic" ELSE r.kind
             /\ s.from = IF type = "promoted" THEN q.val ELSE r.from
             /\ s.pinned = IF type \in {"pinned", "unpinned"} THEN type = "pinned"
                           ELSE r.pinned
             /\ s.disabled = IF type \in {"disabled", "enabled"} THEN type = "disabled"
                             ELSE r.disabled
             /\ s.deleted = (type = "deleted" \/ r.deleted)
<1> DEFINE type == MutationType(q)
           content == IF type = "updated" /\ q.val # Blank THEN q.val ELSE r.content
           kind == IF type = "promoted" THEN "episodic" ELSE r.kind
           from == IF type = "promoted" THEN q.val ELSE r.from
           pinned == IF type \in {"pinned", "unpinned"} THEN type = "pinned" ELSE r.pinned
           disabled == IF type \in {"disabled", "enabled"} THEN type = "disabled" ELSE r.disabled
           deleted == (type = "deleted") \/ r.deleted
<1>1. Applied(q, r) = [r EXCEPT !.ver = r.ver + 1, !.content = content, !.kind = kind,
                                !.from = from, !.pinned = pinned, !.disabled = disabled,
                                !.deleted = deleted]
  BY DEF Applied, Record
<1> HIDE DEF content, kind, from, pinned, disabled, deleted
<1>2. LET s == [r EXCEPT !.ver = r.ver + 1, !.content = content, !.kind = kind,
                         !.from = from, !.pinned = pinned, !.disabled = disabled,
                         !.deleted = deleted]
      IN  /\ s.ver = r.ver + 1 /\ s.hits = r.hits
          /\ s.content = content /\ s.kind = kind /\ s.from = from
          /\ s.pinned = pinned /\ s.disabled = disabled /\ s.deleted = deleted
  BY DEF Record
<1>3. Applied(q, r) \in Record
  BY AppliedType
<1> QED
  BY <1>1, <1>2, <1>3, Zenon DEF content, kind, from, pinned, disabled, deleted

\* A call that deletes, or is made of a deleted record, leaves it deleted.
LEMMA AppliedDeleted ==
  ASSUME NEW q \in Requests, q.op \notin {"created", "access"}, NEW r \in Record,
         r.deleted \/ MutationType(q) = "deleted"
  PROVE  Applied(q, r).deleted
<1> DEFINE s == Applied(q, r)
<1>1. s.deleted = (MutationType(q) = "deleted" \/ r.deleted)
  BY AppliedFields
<1> QED
  BY <1>1, Zenon

\* A call does not look at the counter: made of a copy, it makes a copy.
LEMMA AppliedCopy ==
  ASSUME NEW q \in Requests, q.op \notin {"created", "access"}, NEW r \in Record,
         NEW s \in Record, CopyOf(r, s)
  PROVE  CopyOf(Applied(q, r), Applied(q, s))
<1> DEFINE type == MutationType(q)
           a == Applied(q, r)
           b == Applied(q, s)
<1>1. /\ r.ver = s.ver /\ r.content = s.content /\ r.kind = s.kind /\ r.from = s.from
      /\ r.pinned = s.pinned /\ r.disabled = s.disabled /\ r.deleted = s.deleted
      /\ s.hits \in Nat /\ r.hits \in 0..s.hits
  BY CopyFacts
<1>2. /\ a \in Record /\ a.ver = r.ver + 1 /\ a.hits = r.hits
      /\ b \in Record /\ b.ver = s.ver + 1 /\ b.hits = s.hits
  BY AppliedFields
<1>3. a.content = b.content /\ a.kind = b.kind /\ a.from = b.from
  BY <1>1, AppliedFields
<1>4. a.pinned = b.pinned /\ a.disabled = b.disabled /\ a.deleted = b.deleted
  BY <1>1, AppliedFields
<1>5. a.hits <= b.hits
  BY <1>1, <1>2
<1> HIDE DEF a, b
<1>6. CopyOf(a, b)
  BY <1>1, <1>2, <1>3, <1>4, <1>5, CopyIf
<1> QED
  BY <1>6 DEF a, b

\* The columns an UPDATE sets, taken from a copy that was loaded, make the row what the
\* call makes of the committed row.
LEMMA WrittenIsApplied ==
  ASSUME Inv, NEW c \in Clients, pc[c] = "update", NEW row \in Record,
         CopyOf(cur[c], Applied(req[c], row))
  PROVE  Written(c, row) = Applied(req[c], row)
<1> DEFINE q == req[c]
           b == Applied(q, row)
<1>1. q \in Requests /\ q.op \notin {"created", "access"}
  BY DEF Inv, CallInv, CallOK
<1>2. /\ b \in Record /\ b.ver = row.ver + 1 /\ b.hits = row.hits
      /\ b.kind = IF MutationType(q) = "promoted" THEN "episodic" ELSE row.kind
      /\ b.from = IF MutationType(q) = "promoted" THEN q.val ELSE row.from
  BY <1>1, AppliedFields
<1>3. /\ cur[c] \in Record
      /\ cur[c].ver = b.ver /\ cur[c].content = b.content /\ cur[c].kind = b.kind
      /\ cur[c].from = b.from /\ cur[c].pinned = b.pinned
      /\ cur[c].disabled = b.disabled /\ cur[c].deleted = b.deleted
  BY <1>2, CopyFacts
<1>4. CASE q.op = "promoted"
  <2>1. MutationType(q) = "promoted"
    BY <1>4 DEF MutationType
  <2>2. b.content = row.content
    BY <1>1, <2>1, AppliedFields
  <2>3. b.pinned = row.pinned /\ b.disabled = row.disabled /\ b.deleted = row.deleted
    BY <1>1, <2>1, AppliedFields DEF Record
  <2> HIDE DEF b
  <2>4. LET w == [row EXCEPT !.kind = cur[c].kind, !.from = cur[c].from, !.ver = cur[c].ver]
        IN  w = b
    BY <1>2, <1>3, <2>2, <2>3 DEF Record
  <2> QED
    BY <1>4, <2>4 DEF Written, b
<1>5. CASE q.op # "promoted"
  <2>1. MutationType(q) # "promoted"
    BY <1>5 DEF MutationType
  <2>2. b.kind = row.kind /\ b.from = row.from
    BY <1>2, <2>1
  <2> HIDE DEF b
  <2>3. LET w == [cur[c] EXCEPT !.kind = row.kind, !.from = row.from, !.hits = row.hits]
        IN  w = b
    BY <1>2, <1>3, <2>2 DEF Record
  <2> QED
    BY <1>5, <2>3 DEF Written, b
<1> QED
  BY <1>4, <1>5

-----------------------------------------------------------------------------
(* The calls that a step does not take part in. *)

\* A row stays, and counts accesses or moves on to a later version.
MovesOn(m) ==
  rec[m] # NoRec =>
    /\ rec'[m] # NoRec /\ rec'[m].hits >= rec[m].hits
    /\ \/ rec'[m].ver > rec[m].ver
       \/ rec'[m].ver = rec[m].ver /\ CopyOf(rec[m], rec'[m])

\* The tables move on, but for the rows d holds and the keys it has inserted.
KeptFor(d) ==
  /\ \A m \in Mems : MovesOn(m) /\ (tx[d].rec[m] # NoRec => rec'[m] = rec[m])
  /\ events \subseteq events'
  /\ \A e \in tx[d].events, f \in events' \ events : EventKey(e) # EventKey(f)
  /\ \A k \in Keys : tx[d].idem[k] # NoEntry => idem'[k] = idem[k]
  /\ \A k \in DKeys : dedupe[k] # NoMem => dedupe'[k] = dedupe[k]

\* A call that is not at work itself.
Stays(d) == /\ pc'[d] = pc[d] /\ req'[d] = req[d] /\ tx'[d] = tx[d]
            /\ cur'[d] = cur[d] /\ winner'[d] = winner[d]

\* Where a call is, its request is one of its phase.
LEMMA CallFacts ==
  ASSUME Inv, NEW c \in Clients
  PROVE  /\ tx[c] \in Transaction /\ tx[c].events \subseteq Event
         /\ \A m \in Mems : tx[c].rec[m] \in Record \cup {NoRec} /\ rec[m] \in Record \cup {NoRec}
         /\ NoRec \notin Record
         /\ pc[c] # "idle" => req[c] \in Requests
         /\ req[c] \in Requests /\ req[c].op \notin {"created", "access"} => req[c].mid \in Mems
         /\ req[c] \in Requests /\ req[c].op = "created" =>
              req[c].key # NoKey /\ FirstVersion(req[c]) \in Record
         /\ req[c] \in Requests /\ req[c].op = "dedupe" =>
              req[c].dk \in DKeys /\ req[c].key = NoKey
<1>1. /\ tx[c] \in Transaction /\ tx[c].events \subseteq Event
      /\ \A m \in Mems : tx[c].rec[m] \in Record \cup {NoRec} /\ rec[m] \in Record \cup {NoRec}
      /\ NoRec \notin Record
      /\ pc[c] # "idle" => req[c] \in Requests
  BY RecordsAssumption DEF Inv, TypeInv, TypeOK, CallInv, CallOK, Transaction
<1>2. ASSUME req[c] \in Requests
      PROVE  /\ req[c].op \notin {"created", "access"} => req[c].mid \in Mems
             /\ req[c].op = "created" => req[c].key # NoKey
             /\ req[c].op = "dedupe" => req[c].dk \in DKeys /\ req[c].key = NoKey
  BY <1>2, RecordsAssumption DEF Keyed
<1> QED
  BY <1>1, <1>2, FirstVersionType

\* A record that was loaded stays what the call makes of its row, unless the row moves on.
LEMMA LoadedKept ==
  ASSUME Inv, Inv', NEW d \in Clients, pc[d] = "update", Loaded(d), Stays(d), KeptFor(d)
  PROVE  Loaded(d)'
<1> DEFINE q == req[d]
           m == q.mid
<1>1. q \in Requests /\ q.op \notin {"created", "access"} /\ m \in Mems /\ rec[m] # NoRec
      /\ rec[m] \in Record /\ cur[d] \in Record
  BY CallFacts DEF Inv, CallInv, CallOK
<1>2. rec'[m] \in Record
  BY <1>1 DEF KeptFor, MovesOn, Inv, TypeInv, TypeOK
<1>3. rec[m].ver \in Nat /\ rec'[m].ver \in Nat
  BY <1>1, <1>2 DEF Record
<1>4. rec'[m].ver >= q.ver /\ (rec'[m].ver = q.ver => rec[m].ver = q.ver)
  BY <1>1, <1>3 DEF Loaded, KeptFor, MovesOn
<1>5. ASSUME rec'[m].ver = q.ver
      PROVE  CopyOf(cur[d], Applied(q, rec'[m]))
  <2>1. CopyOf(cur[d], Applied(q, rec[m])) /\ CopyOf(rec[m], rec'[m])
    BY <1>1, <1>3, <1>4, <1>5 DEF Loaded, KeptFor, MovesOn
  <2>2. CopyOf(Applied(q, rec[m]), Applied(q, rec'[m]))
    BY <1>1, <1>2, <2>1, AppliedCopy
  <2>3. Applied(q, rec[m]) \in Record /\ Applied(q, rec'[m]) \in Record
    BY <1>1, <1>2, AppliedType
  <2> QED
    BY <2>1, <2>2, <2>3, CopyTransitive
<1> QED
  BY <1>4, <1>5 DEF Loaded, Stays

\* The winner's row, as the transaction sees it, has at least as many accesses as before.
LEMMA PastKept ==
  ASSUME Inv, Inv', NEW d \in Clients, winner[d] \in Mems, NEW e \in Event, NEW s,
         Past(d, e, s), Stays(d), KeptFor(d)
  PROVE  Past(d, e, s)'
<1> DEFINE w == winner[d]
<1>1. PICK f \in events \cup {e} : f.mid = w /\ CopyOf(s, [f.snap EXCEPT !.hits = Visible(d, w).hits])
  BY DEF Past
<1>2. f \in events' \cup {e} /\ f.snap \in Record
  BY <1>1 DEF KeptFor, Inv, TypeInv, TypeOK, Event
<1>3. /\ rec[w] \in Record /\ rec'[w] \in Record /\ rec'[w] # NoRec /\ rec'[w].hits >= rec[w].hits
      /\ tx[d].rec[w] \in Record \cup {NoRec}
  BY CallFacts DEF Past, KeptFor, MovesOn, Inv, TypeInv, TypeOK
<1>4. Visible(d, w)' = (IF tx[d].rec[w] # NoRec THEN tx[d].rec[w] ELSE rec'[w])
  BY DEF Visible, Stays
<1>5. Visible(d, w).hits \in Nat /\ Visible(d, w)'.hits \in Nat
      /\ Visible(d, w).hits <= Visible(d, w)'.hits
  BY <1>3, <1>4 DEF Visible, Record
<1> DEFINE h == Visible(d, w).hits
           k == Visible(d, w)'.hits
<1>6. CopyOf(s, [f.snap EXCEPT !.hits = h])
  BY <1>1
<1> HIDE DEF h, k
<1>7. CopyOf(s, [f.snap EXCEPT !.hits = k])
  BY <1>2, <1>5, <1>6, CopyMore DEF h, k
<1> QED
  BY <1>1, <1>2, <1>3, <1>7 DEF Past, Stays, k

\* What d has written is still what its call makes of the rows it holds.
LEMMA WrittenKept ==
  ASSUME Inv, Inv', NEW d \in Clients, WorkOK(d), Stays(d), KeptFor(d)
  PROVE  WrittenOK(d)'
<1>1. ASSUME EmptyTx(d)
      PROVE  EmptyTx(d)'
  BY <1>1 DEF EmptyTx, Stays
<1>2. ASSUME pc[d] = "update", Loaded(d)
      PROVE  Loaded(d)'
  BY <1>2, LoadedKept
<1>3. ASSUME NEW m \in Mems, Created(d, m), req[d] \in Requests, req[d].op = "created"
      PROVE  Created(d, m)'
  <2>1. rec'[m] = rec[m]
    BY <1>3, CallFacts DEF Created, KeptFor
  <2> QED
    BY <1>3, <2>1 DEF Created, Stored, Only, Stays
<1>4. ASSUME NEW e \in tx[d].events, Mutated(d, e), req[d] \in Requests,
             req[d].op \notin {"created", "access"}, ~Won(d),
             pc[d] \in {"saveidem", "winner", "collapse", "commit"}
      PROVE  Mutated(d, e)'
  <2>1. req[d].mid \in Mems /\ rec[req[d].mid] \in Record /\ e \in Event
    BY <1>4, CallFacts DEF Mutated, Changed
  <2>2. Applied(req[d], rec[req[d].mid]) # NoRec
    BY <1>4, <2>1, AppliedType, RecordsAssumption
  <2>3. rec'[req[d].mid] = rec[req[d].mid]
    BY <1>4, <2>1, <2>2 DEF Mutated, Changed, KeptFor
  <2>4. Changed(d, e)'
    BY <1>4, <2>3 DEF Mutated, Changed, Only, Stays
  <2>5. ASSUME NEW s, Past(d, e, s), pc[d] \in {"collapse", "commit"}, req[d].op = "dedupe"
        PROVE  Past(d, e, s)'
    <3>1. winner[d] \in Mems
      BY <1>4, <2>5 DEF WorkOK, KeysOK, Inv, TypeInv, TypeOK
    <3> QED
      BY <2>1, <2>5, <3>1, PastKept
  <2>6. pc[d] = "collapse" => req[d].op = "dedupe"
    BY DEF Inv, CallInv, CallOK
  <2>7. pc'[d] = "collapse" => Past(d, e, cur[d])'
    BY <1>4, <2>5, <2>6 DEF Mutated, Stays
  <2>8. ASSUME pc[d] = "commit", req[d].op = "dedupe"
        PROVE  \E f \in tx[d].events :
                 /\ tx[d].events = {e, f} /\ Past(d, e, f.snap)'
                 /\ f = NewEvent(winner[d], f.snap, "collapsed", NoKey, req[d].mid)
    BY <1>4, <2>5, <2>8 DEF Mutated
  <2> QED
    BY <1>4, <2>4, <2>7, <2>8 DEF Mutated, Stored, Stays
<1>5. ASSUME Visited(d), req[d] \in Requests
      PROVE  Visited(d)'
  BY <1>5 DEF Visited, KeptFor, Stays
<1>6. Won(d)' = Won(d)
  BY DEF Won, Stays
<1>7. pc[d] # "idle" => req[d] \in Requests
  BY CallFacts
<1> QED
  BY <1>1, <1>2, <1>3, <1>4, <1>5, <1>6, <1>7 DEF WorkOK, WrittenOK, Stays

\* What a call has done stays true while another call takes a step.
LEMMA OthersKeep ==
  ASSUME Inv, Inv', NEW d \in Clients, WorkOK(d), Stays(d), KeptFor(d)
  PROVE  WorkOK(d)'
<1>1. WrittenOK(d)'
  BY WrittenKept
<1>2. KeysOK(d)'
  <2>1. Won(d)' = Won(d)
    BY DEF Won, Stays
  <2>2. pc[d] # "idle" /\ req[d].op = "dedupe" => req[d].dk \in DKeys
    BY CallFacts
  <2> QED
    BY <2>1, <2>2 DEF WorkOK, KeysOK, Stays, KeptFor
<1>3. EventsOK(d)'
  BY DEF WorkOK, EventsOK, Stays, KeptFor
<1> QED
  BY <1>1, <1>2, <1>3 DEF WorkOK

\* A step of one call that leaves the tables alone: what is to be shown is about that
\* call and what it holds.
LEMMA LocalWork ==
  ASSUME Inv, Inv', WorkInv, NEW c \in Clients, UNCHANGED <<rec, events, idem, dedupe, accessed>>,
         \A d \in Clients \ {c} : Stays(d), WorkOK(c)', \A d \in Clients \ {c} : Apart(c, d)'
  PROVE  WorkInv'
<1>1. ASSUME NEW d \in Clients \ {c}
      PROVE  WorkOK(d)'
  <2>1. \A m \in Mems : rec[m] # NoRec => rec[m] \in Record /\ rec[m].hits \in Nat
    BY DEF Inv, TypeInv, TypeOK, Record
  <2>2. KeptFor(d)
    BY <2>1, CopySelf DEF KeptFor, MovesOn
  <2> QED
    BY <2>2, OthersKeep DEF WorkInv
<1>2. ASSUME NEW a \in Clients, NEW d \in Clients \ {a}
      PROVE  Apart(a, d)'
  <2>1. CASE a # c /\ d # c
    BY <2>1 DEF WorkInv, Apart, Stays
  <2>2. CASE a = c \/ d = c
    BY <2>2 DEF Apart
  <2> QED
    BY <2>1, <2>2
<1>3. ASSUME NEW m \in Mems
      PROVE  RowOK(m)'
  BY DEF WorkInv, RowOK, Counted
<1> QED
  BY <1>1, <1>2, <1>3 DEF WorkInv

-----------------------------------------------------------------------------
(* One lemma per action. *)

\* A call that has returned has no work open.
LEMMA Returned ==
  ASSUME Inv, NEW c \in Clients, NEW how, Return(c, how)
  PROVE  WorkOK(c)' /\ \A d \in Clients \ {c} : Stays(d) /\ Apart(c, d)'
<1>1. /\ pc'[c] = "idle" /\ tx'[c] = NoTx
      /\ \A d \in Clients \ {c} : Stays(d)
  BY DEF Return, Stays, Inv, TypeInv, TypeOK
<1>2. /\ NoTx.events = {} /\ \A m \in Mems : NoTx.rec[m] = NoRec
      /\ \A k \in Keys : NoTx.idem[k] = NoEntry
      /\ \A k \in DKeys : NoTx.dedupe[k] = NoMem
  BY DEF NoTx
<1>3. WrittenOK(c)'
  BY <1>1, <1>2 DEF WrittenOK, EmptyTx
<1>4. KeysOK(c)' /\ EventsOK(c)'
  BY <1>1, <1>2 DEF KeysOK, EventsOK
<1>5. \A d \in Clients \ {c} : Apart(c, d)'
  BY <1>1, <1>2 DEF Apart
<1> QED
  BY <1>1, <1>3, <1>4, <1>5 DEF WorkOK

\* A call that ends without a COMMIT leaves nothing behind.
LEMMA ReturnWork ==
  ASSUME Inv, WorkInv, NEW c \in Clients, NEW how \in Outcomes, Return(c, how),
         UNCHANGED <<tables, accessed, ops>>
  PROVE  WorkInv'
BY ReturnInv, Returned, LocalWork DEF tables

\* A call that fails leaves nothing behind.
LEMMA FailWork ==
  ASSUME Inv, WorkInv, NEW c \in Clients, NEW how \in Outcomes, Fail(c, how)
  PROVE  WorkInv'
BY ReturnWork DEF Fail, history

\* A step that writes nothing: the rows and keys the call holds are those it held.
SameWork(c) ==
  /\ tx'[c].rec = tx[c].rec /\ tx'[c].events = tx[c].events
  /\ tx'[c].idem = tx[c].idem /\ tx'[c].dedupe = tx[c].dedupe

\* A call that writes nothing new stays apart from the others.
LEMMA SameApart ==
  ASSUME WorkInv, NEW c \in Clients, SameWork(c), \A d \in Clients \ {c} : Stays(d)
  PROVE  \A d \in Clients \ {c} : Apart(c, d)'
BY DEF WorkInv, Apart, SameWork, Stays

\* A call in a phase before its first write has neither events nor keys.
LEMMA BeforeWriting ==
  ASSUME Inv, WorkInv, NEW c \in Clients, SameWork(c),
         pc[c] \in {"idle", "lookup", "insert", "claim", "lockindex", "load"},
         pc'[c] \in {"lookup", "insert", "claim", "lockindex", "load", "update", "access"},
         pc'[c] = "update" => Loaded(c)',
         pc'[c] = "access" => req'[c].op = "access",
         pc'[c] \in {"load", "update"} /\ req'[c].op = "dedupe" =>
           winner'[c] = dedupe'[req'[c].dk] /\ winner'[c] # NoMem
  PROVE  WorkOK(c)'
<1>1. EmptyTx(c) /\ EmptyTx(c)'
  BY DEF WorkInv, WorkOK, WrittenOK, EmptyTx, SameWork
<1>2. /\ \A k \in Keys : tx'[c].idem[k] = NoEntry
      /\ \A k \in DKeys : tx'[c].dedupe[k] = NoMem
  BY DEF WorkInv, WorkOK, KeysOK, SameWork
<1>3. pc'[c] = "access" => Visited(c)'
  BY <1>1 DEF EmptyTx, Visited
<1>4. WrittenOK(c)'
  BY <1>1, <1>3 DEF WrittenOK
<1>5. KeysOK(c)'
  BY <1>2 DEF KeysOK
<1>6. EventsOK(c)'
  BY <1>1 DEF EmptyTx, EventsOK
<1> QED
  BY <1>4, <1>5, <1>6 DEF WorkOK

\* A call starts with nothing written.
LEMMA BeginWork ==
  ASSUME Inv, WorkInv, NEW c \in Clients, NEW q \in Requests, Begin(c, q)
  PROVE  WorkInv'
<1>1. /\ pc[c] = "idle" /\ pc'[c] \in {"claim", "access", "load", "lookup"}
      /\ req'[c] = q /\ (pc'[c] = "access" => q.op = "access")
      /\ (pc'[c] = "load" => q.op # "dedupe")
      /\ \A d \in Clients \ {c} : Stays(d)
      /\ UNCHANGED <<rec, events, idem, dedupe, accessed>>
  BY DEF Begin, Goto, Stays, Inv, TypeInv, TypeOK, tables, history
<1>2. SameWork(c)
  BY DEF Begin, SameWork, Inv, TypeInv, Transaction
<1>3. WorkOK(c)'
  BY <1>1, <1>2, BeforeWriting
<1> QED
  BY <1>1, <1>2, <1>3, BeginInv, SameApart, LocalWork

\* A lookup that finds no entry writes nothing.
LEMMA LookupMissWork ==
  ASSUME Inv, WorkInv, NEW c \in Clients, LookupMiss(c)
  PROVE  WorkInv'
<1>1. /\ pc[c] = "lookup" /\ pc'[c] \in {"insert", "load"} /\ req'[c].op # "dedupe"
      /\ \A d \in Clients \ {c} : Stays(d)
      /\ UNCHANGED <<rec, events, idem, dedupe, accessed>>
  BY RecordsAssumption
  DEF LookupMiss, Goto, Stays, Inv, TypeInv, TypeOK, CallInv, CallOK, Keyed, tables, history
<1>2. SameWork(c)
  BY DEF LookupMiss, SameWork
<1>3. WorkOK(c)'
  BY <1>1, <1>2, BeforeWriting
<1> QED
  BY <1>1, <1>2, <1>3, LookupMissInv, SameApart, LocalWork

\* The load changes a copy of the committed row.
LEMMA LoadWork ==
  ASSUME Inv, WorkInv, NEW c \in Clients, Load(c)
  PROVE  WorkInv'
<1> DEFINE m == req[c].mid
           r == Applied(req[c], rec[m])
<1>1. /\ pc[c] = "load" /\ pc'[c] = "update" /\ req' = req /\ winner' = winner
      /\ \A d \in Clients \ {c} : Stays(d)
      /\ UNCHANGED <<rec, events, idem, dedupe, accessed>>
  BY DEF Load, Goto, Stays, Inv, TypeInv, TypeOK, tables, history
<1>2. SameWork(c)
  BY DEF Load, SameWork
<1>3. req[c] \in Requests /\ req[c].op \notin {"created", "access"} /\ m \in Mems
  BY <1>1, CallFacts DEF Inv, CallInv, CallOK
<1>4. Visible(c, m) = rec[m] /\ rec[m] # NoRec /\ rec[m].ver = req[c].ver /\ cur'[c] = r
  BY <1>1, <1>3 DEF Load, Visible, Inv, TypeInv, TypeOK, CallInv, CallOK
<1>5. rec[m] \in Record /\ r \in Record /\ r.ver = rec[m].ver + 1 /\ rec[m].ver \in Nat
  BY <1>3, <1>4, AppliedType DEF Inv, TypeInv, TypeOK, Record
<1>6. Loaded(c)'
  <2>1. CopyOf(r, r)
    BY <1>5, CopySelf
  <2> QED
    BY <1>1, <1>4, <1>5, <2>1 DEF Loaded
<1>7. req[c].op = "dedupe" => winner[c] = dedupe[req[c].dk] /\ winner[c] # NoMem
  <2>1. req[c].op = "dedupe" => req[c].dk \in DKeys
    BY <1>3, CallFacts
  <2>2. req[c].op = "dedupe" => ~Won(c)
    BY <1>1, <2>1 DEF WorkInv, WorkOK, KeysOK, Won
  <2> QED
    BY <1>1, <2>2 DEF WorkInv, WorkOK, KeysOK
<1>8. WorkOK(c)'
  BY <1>1, <1>2, <1>6, <1>7, BeforeWriting
<1> QED
  BY <1>1, <1>2, <1>8, LoadInv, SameApart, LocalWork

\* What a transaction holds after writing a row with its event.
LEMMA WroteFields ==
  ASSUME Inv, NEW c \in Clients, NEW m \in Mems, NEW r, NEW e, NEW k,
         tx' = Wrote(tx, c, m, r, e, k)
  PROVE  /\ tx'[c].events = {e} /\ tx'[c].rec[m] = r
         /\ \A n \in Mems \ {m} : tx'[c].rec[n] = tx[c].rec[n]
         /\ tx'[c].idem = tx[c].idem /\ tx'[c].dedupe = tx[c].dedupe
         /\ \A d \in Clients \ {c} : tx'[d] = tx[d]
BY DEF Wrote, Inv, TypeInv, Transaction

\* The row that is written is locked by no other transaction, so that its event's key
\* is no other transaction's.
LEMMA WroteApart ==
  ASSUME Inv, WorkInv, NEW c \in Clients, NEW m \in Mems, NEW e, RowFree(c, m), EmptyTx(c),
         e.mid = m, e.type # "collapsed", tx'[c].events = {e},
         \A n \in Mems \ {m} : tx'[c].rec[n] = tx[c].rec[n], tx'[c].idem = tx[c].idem,
         \A d \in Clients \ {c} : Stays(d)
  PROVE  \A d \in Clients \ {c} : Apart(c, d)'
<1> SUFFICES ASSUME NEW d \in Clients \ {c}
             PROVE  Apart(c, d)'
  OBVIOUS
<1>1. tx'[d] = tx[d] /\ tx[d].rec[m] = NoRec /\ Apart(c, d)
  BY DEF RowFree, Stays, WorkInv
<1>2. \A n \in Mems : tx'[c].rec[n] = NoRec \/ tx'[d].rec[n] = NoRec
  BY <1>1 DEF EmptyTx
<1>3. ASSUME NEW f \in tx[d].events
      PROVE  EventKey(e) # EventKey(f)
  BY <1>1 DEF WorkInv, WorkOK, EventsOK, EventKey
<1> QED
  BY <1>1, <1>2, <1>3 DEF Apart

\* The insert finds the row absent.
LEMMA InsertRecordWork ==
  ASSUME Inv, WorkInv, NEW c \in Clients, NEW m \in Mems, InsertRecord(c, m)
  PROVE  WorkInv'
<1> DEFINE r == FirstVersion(req[c])
           e == NewEvent(m, r, "created", req[c].key, NoMem)
           k == EventKey(e)
<1>1. /\ pc[c] = "insert" /\ pc'[c] = "saveidem" /\ req' = req
      /\ cur'[c] = r /\ RowFree(c, m) /\ rec[m] = NoRec
      /\ ~EventKeyTaken(c, k) /\ tx' = Wrote(tx, c, m, r, e, k)
      /\ \A d \in Clients \ {c} : pc'[d] = pc[d] /\ cur'[d] = cur[d] /\ winner'[d] = winner[d]
      /\ UNCHANGED <<rec, events, idem, dedupe, accessed>>
  BY DEF InsertRecord, Goto, Wrote, Inv, TypeInv, TypeOK, tables, history
<1>2. /\ req[c] \in Requests /\ req[c].op = "created" /\ r \in Record /\ r.ver = 1
      /\ req[c].mid \in {m, NoMem}
  BY <1>1, CallFacts, FirstVersionType DEF Inv, CallInv, CallOK, InsertRecord, MayInsert
<1>3. EmptyTx(c)
  BY <1>1 DEF WorkInv, WorkOK, WrittenOK
<1>4. e.mid = m /\ e.type = "created" /\ e = NewEvent(m, r, "created", req[c].key, NoMem)
  BY DEF NewEvent
<1> HIDE DEF e, k, r
<1>5. /\ tx'[c].events = {e} /\ tx'[c].rec[m] = r
      /\ \A n \in Mems \ {m} : tx'[c].rec[n] = tx[c].rec[n]
      /\ tx'[c].idem = tx[c].idem /\ tx'[c].dedupe = tx[c].dedupe
      /\ \A d \in Clients \ {c} : Stays(d)
  <2>1. /\ tx'[c].events = {e} /\ tx'[c].rec[m] = r
        /\ \A n \in Mems \ {m} : tx'[c].rec[n] = tx[c].rec[n]
        /\ tx'[c].idem = tx[c].idem /\ tx'[c].dedupe = tx[c].dedupe
        /\ \A d \in Clients \ {c} : tx'[d] = tx[d]
    <3>1. tx' = Wrote(tx, c, m, r, e, k)
      BY <1>1
    <3> QED
      BY <3>1, WroteFields, Zenon
  <2> QED
    BY <1>1, <2>1 DEF Stays
<1>6. Created(c, m)'
  BY <1>1, <1>2, <1>3, <1>4, <1>5 DEF Created, Only, EmptyTx, r
<1>7. WrittenOK(c)'
  BY <1>1, <1>2, <1>6 DEF WrittenOK
<1>8. KeysOK(c)'
  BY <1>1, <1>2, <1>5 DEF WorkInv, WorkOK, KeysOK
<1>9. EventsOK(c)'
  BY <1>1, <1>2, <1>4, <1>5, RecordsAssumption DEF EventsOK, EventKeyTaken, k
<1>10. \A d \in Clients \ {c} : Apart(c, d)'
  BY <1>1, <1>3, <1>4, <1>5, WroteApart
<1> QED
  BY <1>1, <1>5, <1>7, <1>8, <1>9, <1>10, InsertRecordInv, LocalWork DEF WorkOK

\* The row that the UPDATE finds at the loaded version is the row that was loaded.
LEMMA UpdateWork ==
  ASSUME Inv, WorkInv, NEW c \in Clients, Update(c)
  PROVE  WorkInv'
<1> DEFINE m == req[c].mid
           r == Written(c, rec[m])
           type == MutationType(req[c])
           e == NewEvent(m, cur[c], type, NoKey, NoMem)
           k == EventKey(e)
<1>1. /\ pc[c] = "update" /\ pc'[c] = AfterUpdate(req[c]) /\ req' = req /\ cur' = cur
      /\ winner' = winner /\ RowFree(c, m) /\ rec[m].ver = req[c].ver
      /\ ~EventKeyTaken(c, k) /\ tx' = Wrote(tx, c, m, r, e, k)
      /\ \A d \in Clients \ {c} : pc'[d] = pc[d]
      /\ UNCHANGED <<rec, events, idem, dedupe, accessed>>
  BY DEF Update, VersionMatches, Goto, Wrote, Inv, TypeInv, TypeOK, tables, history
<1>2. /\ req[c] \in Requests /\ req[c].op \notin {"created", "access"} /\ m \in Mems
      /\ rec[m] \in Record /\ rec[m] # NoRec /\ cur[c] \in Record
  BY <1>1, CallFacts DEF Inv, CallInv, CallOK
<1>3. EmptyTx(c) /\ CopyOf(cur[c], Applied(req[c], rec[m])) /\ cur[c].ver = req[c].ver + 1
  BY <1>1 DEF WorkInv, WorkOK, WrittenOK, Loaded
<1>4. r = Applied(req[c], rec[m]) /\ r \in Record
  BY <1>1, <1>2, <1>3, WrittenIsApplied, AppliedType
<1>5. /\ e.mid = m /\ e.type = type /\ e.snap = cur[c] /\ e' = e
      /\ e = NewEvent(m, e.snap, type, NoKey, NoMem)
  BY <1>1 DEF NewEvent
<1>6. type # "collapsed"
  BY <1>2, RecordsAssumption DEF MutationType
<1>7. AfterUpdate(req[c]) \in {"winner", "saveidem", "commit"}
      /\ (AfterUpdate(req[c]) = "commit" => req[c].op # "dedupe" /\ req[c].key = NoKey)
  BY DEF AfterUpdate
<1> HIDE DEF e, k, r, type
<1>8. /\ tx'[c].events = {e} /\ tx'[c].rec[m] = r
      /\ \A n \in Mems \ {m} : tx'[c].rec[n] = tx[c].rec[n]
      /\ tx'[c].idem = tx[c].idem /\ tx'[c].dedupe = tx[c].dedupe
      /\ \A d \in Clients \ {c} : Stays(d)
  <2>1. /\ tx'[c].events = {e} /\ tx'[c].rec[m] = r
        /\ \A n \in Mems \ {m} : tx'[c].rec[n] = tx[c].rec[n]
        /\ tx'[c].idem = tx[c].idem /\ tx'[c].dedupe = tx[c].dedupe
        /\ \A d \in Clients \ {c} : tx'[d] = tx[d]
    BY <1>1, <1>2, WroteFields, Zenon
  <2> QED
    BY <1>1, <2>1 DEF Stays
<1>9. Changed(c, e)'
  BY <1>1, <1>2, <1>3, <1>4, <1>5, <1>8 DEF Changed, Only, EmptyTx, type
<1>10. Mutated(c, e)'
  BY <1>1, <1>3, <1>5, <1>7, <1>8, <1>9 DEF Mutated
<1>11. ~Won(c)'
  BY <1>1, <1>2, <1>8, CallFacts DEF Won, WorkInv, WorkOK, KeysOK
<1>12. WrittenOK(c)'
  <2>1. \E f \in tx'[c].events : Mutated(c, f)'
    BY <1>5, <1>8, <1>10
  <2> QED
    BY <1>1, <1>2, <1>7, <1>11, <2>1 DEF WrittenOK
<1>13. KeysOK(c)'
  <2>1. \A j \in Keys : tx'[c].idem[j] = NoEntry
    BY <1>1, <1>8 DEF WorkInv, WorkOK, KeysOK
  <2>2. \A j \in DKeys : tx'[c].dedupe[j] = NoMem
    BY <1>1, <1>8 DEF WorkInv, WorkOK, KeysOK
  <2>3. req[c].op = "dedupe" => winner[c] = dedupe[req[c].dk] /\ winner[c] # NoMem
    BY <1>1, <1>8, <1>11 DEF WorkInv, WorkOK, KeysOK, Won
  <2> QED
    BY <1>1, <2>1, <2>2, <2>3 DEF KeysOK
<1>14. EventsOK(c)'
  <2>1. tx'[c].rec[e.mid] # NoRec
    BY <1>4, <1>5, <1>8, RecordsAssumption
  <2>2. \A f \in events' : EventKey(e) # EventKey(f)
    BY <1>1 DEF EventKeyTaken, k
  <2> QED
    BY <1>5, <1>6, <1>8, <2>1, <2>2 DEF EventsOK
<1>15. \A d \in Clients \ {c} : Apart(c, d)'
  BY <1>1, <1>2, <1>3, <1>5, <1>6, <1>8, WroteApart
<1> QED
  BY <1>1, <1>8, <1>12, <1>13, <1>14, <1>15, UpdateInv, LocalWork DEF WorkOK

\* A claim is the only thing its transaction does.
LEMMA ClaimWork ==
  ASSUME Inv, WorkInv, NEW c \in Clients, Claim(c)
  PROVE  WorkInv'
<1> DEFINE dk == req[c].dk
<1>1. /\ pc[c] = "claim" /\ req' = req /\ winner' = winner
      /\ \A d \in Clients \ {c} : Stays(d)
      /\ UNCHANGED <<rec, events, idem, dedupe, accessed>>
  BY DEF Claim, Goto, Stays, Inv, TypeInv, TypeOK, tables, history
<1>2. req[c] \in Requests /\ req[c].op = "dedupe" /\ dk \in DKeys /\ req[c].mid \in Mems
  BY <1>1, CallFacts DEF Inv, CallInv, CallOK
<1>3. /\ EmptyTx(c) /\ \A k \in Keys : tx[c].idem[k] = NoEntry
      /\ \A d \in DKeys : tx[c].dedupe[d] = NoMem
  BY <1>1 DEF WorkInv, WorkOK, WrittenOK, KeysOK
<1>4. CASE dedupe[dk] # NoMem
  <2>1. pc'[c] = "lockindex" /\ SameWork(c)
    BY <1>1, <1>4 DEF Claim, Goto, SameWork, Inv, TypeInv, TypeOK
  <2>2. WorkOK(c)'
    BY <1>1, <2>1, BeforeWriting
  <2> QED
    BY <1>1, <2>1, <2>2, ClaimStepInv, SameApart, LocalWork
<1>5. CASE dedupe[dk] = NoMem
  <2>1. /\ pc'[c] = "commit"
        /\ tx' = [tx EXCEPT ![c].dedupe[dk] = req[c].mid]
    BY <1>1, <1>5 DEF Claim, Goto, Inv, TypeInv, TypeOK
  <2>2. /\ tx'[c].rec = tx[c].rec /\ tx'[c].events = tx[c].events /\ tx'[c].idem = tx[c].idem
        /\ tx'[c].dedupe[dk] = req[c].mid
        /\ \A d \in DKeys \ {dk} : tx'[c].dedupe[d] = tx[c].dedupe[d]
    BY <1>2, <2>1 DEF Inv, TypeInv, Transaction
  <2>3. EmptyTx(c)' /\ Won(c)'
    BY <1>1, <1>2, <1>3, <2>2, RecordsAssumption DEF EmptyTx, Won
  <2>4. WrittenOK(c)'
    BY <1>1, <1>2, <2>1, <2>3 DEF WrittenOK
  <2>5. KeysOK(c)' /\ EventsOK(c)'
    BY <1>1, <1>2, <1>3, <2>1, <2>2, <2>3 DEF KeysOK, EventsOK, EmptyTx
  <2>6. \A d \in Clients \ {c} : Apart(c, d)'
    BY <1>1, <1>3, <2>2, <2>3 DEF Apart, EmptyTx
  <2> QED
    BY <1>1, <2>4, <2>5, <2>6, ClaimStepInv, LocalWork DEF WorkOK
<1> QED
  BY <1>4, <1>5

\* The winner read under the lock is the committed one.
LEMMA LockIndexWork ==
  ASSUME Inv, WorkInv, NEW c \in Clients, LockIndex(c)
  PROVE  WorkInv'
<1>1. /\ pc[c] = "lockindex" /\ pc'[c] = "load" /\ req' = req
      /\ winner'[c] = dedupe[req[c].dk]
      /\ \A d \in Clients \ {c} : Stays(d)
      /\ UNCHANGED <<rec, events, idem, dedupe, accessed>>
  BY DEF LockIndex, Goto, Stays, Inv, TypeInv, TypeOK, tables, history
<1>2. SameWork(c)
  BY DEF LockIndex, SameWork, Inv, TypeInv, Transaction
<1>3. dedupe[req[c].dk] # NoMem
  BY <1>1 DEF Inv, CallInv, CallOK
<1>4. WorkOK(c)'
  BY <1>1, <1>2, <1>3, BeforeWriting
<1> QED
  BY <1>1, <1>2, <1>4, LockIndexInv, SameApart, LocalWork

\* Steps between the UPDATE and COMMIT keep the row that was written and its event.
LEMMA ChangedKept ==
  ASSUME NEW c \in Clients, NEW e, Changed(c, e), tx'[c].rec = tx[c].rec,
         UNCHANGED <<rec, req>>
  PROVE  Changed(c, e)'
BY DEF Changed, Only

\* The winner as it is read is a row that some event describes, or the loser itself.
LEMMA VisiblePast ==
  ASSUME Inv, WorkInv, NEW c \in Clients, NEW m \in Mems, Visible(c, m) # NoRec,
         req[c] \in Requests, req[c].op \notin {"created", "access"},
         NEW e \in Event, Changed(c, e)
  PROVE  /\ rec[m] # NoRec /\ Visible(c, m) \in Record
         /\ \E f \in events \cup {e} :
              f.mid = m /\ CopyOf(Visible(c, m), [f.snap EXCEPT !.hits = Visible(c, m).hits])
<1> DEFINE n == req[c].mid
           v == Visible(c, m)
<1>1. /\ v \in Record /\ v.hits \in Nat /\ n \in Mems /\ rec[n] \in Record
      /\ tx[c].rec[n] = Applied(req[c], rec[n]) /\ Applied(req[c], rec[n]) \in Record
      /\ NoRec \notin Record
  BY CallFacts, AppliedType DEF Visible, Changed, Record
<1>2. ASSUME NEW s \in Record, v = [s EXCEPT !.hits = v.hits]
      PROVE  CopyOf(v, [s EXCEPT !.hits = v.hits])
  BY <1>1, <1>2, CopySelf
<1>3. CASE m = n
  <2>1. v = Applied(req[c], rec[n]) /\ rec[m] # NoRec
    BY <1>1, <1>3 DEF Visible, Changed
  <2>2. e.mid = m /\ CopyOf(e.snap, v)
    BY <1>3, <2>1 DEF Changed, NewEvent
  <2>3. e.snap \in Record /\ v = [e.snap EXCEPT !.hits = v.hits]
    BY <1>1, <2>2, CopyFacts, CopyIf
  <2> QED
    BY <1>1, <1>2, <2>1, <2>2, <2>3
<1>4. CASE m # n
  <2>1. v = rec[m] /\ rec[m] # NoRec
    BY <1>4 DEF Visible, Changed, Only
  <2>2. PICK f \in events : f.mid = m /\ rec[m] = [f.snap EXCEPT !.hits = rec[m].hits]
    BY <2>1 DEF WorkInv, RowOK
  <2>3. f.snap \in Record /\ v = [f.snap EXCEPT !.hits = v.hits]
    BY <2>1, <2>2 DEF Inv, TypeInv, TypeOK, Event
  <2> QED
    BY <1>1, <1>2, <2>1, <2>2, <2>3
<1> QED
  BY <1>3, <1>4

\* The winner is read as an event describes it, but for its accesses.
LEMMA LoadWinnerWork ==
  ASSUME Inv, WorkInv, NEW c \in Clients, LoadWinner(c)
  PROVE  WorkInv'
<1> DEFINE w == winner[c]
           v == Visible(c, w)
<1>1. /\ pc[c] = "winner" /\ pc'[c] = "collapse" /\ req' = req /\ winner' = winner
      /\ cur'[c] = v /\ v # NoRec
      /\ \A d \in Clients \ {c} : Stays(d)
      /\ UNCHANGED <<rec, events, idem, dedupe, accessed>>
  BY DEF LoadWinner, Goto, Stays, Inv, TypeInv, TypeOK, tables, history
<1>2. SameWork(c)
  <2>1. tx[c].rec = [m \in Mems |-> tx[c].rec[m]]
    BY DEF Inv, TypeInv, Transaction
  <2> QED
    BY <2>1 DEF LoadWinner, RowsLocked, SameWork, Inv, TypeInv, Transaction
<1>3. /\ req[c] \in Requests /\ req[c].op = "dedupe" /\ w \in Mems /\ req[c].dk \in DKeys
  BY <1>1, CallFacts DEF Inv, CallInv, CallOK
<1>4. ~Won(c) /\ ~Won(c)'
  BY <1>1, <1>2, <1>3 DEF WorkInv, WorkOK, KeysOK, Won, SameWork
<1>5. PICK e \in tx[c].events : Mutated(c, e)
  BY <1>1, <1>3, <1>4 DEF WorkInv, WorkOK, WrittenOK
<1>6. e \in Event /\ Changed(c, e) /\ tx[c].events = {e}
  BY <1>1, <1>5, CallFacts DEF Mutated
<1>7. v = Visible(c, w)' /\ v = Visible(c, winner[c])'
  BY <1>1, <1>2 DEF Visible, SameWork
<1>8. Past(c, e, cur[c])'
  <2>1. PICK f \in events \cup {e} : f.mid = w /\ CopyOf(v, [f.snap EXCEPT !.hits = v.hits])
    BY <1>1, <1>3, <1>6, VisiblePast
  <2>2. rec[w] # NoRec
    BY <1>1, <1>3, <1>6, VisiblePast
  <2> QED
    BY <1>1, <1>7, <2>1, <2>2 DEF Past
<1>9. Mutated(c, e)'
  BY <1>1, <1>2, <1>6, <1>8, ChangedKept DEF Mutated, SameWork
<1>10. WrittenOK(c)'
  BY <1>1, <1>2, <1>3, <1>4, <1>5, <1>9 DEF WrittenOK, SameWork
<1>11. KeysOK(c)' /\ EventsOK(c)'
  BY <1>1, <1>2, <1>3, <1>4 DEF WorkInv, WorkOK, KeysOK, EventsOK, SameWork
<1> QED
  BY <1>1, <1>2, <1>10, <1>11, LoadWinnerInv, SameApart, LocalWork DEF WorkOK

\* The collapse event waits for the peers that insert its key.
LEMMA CollapseWork ==
  ASSUME Inv, WorkInv, NEW c \in Clients, Collapse(c)
  PROVE  WorkInv'
<1> DEFINE w == winner[c]
           x == CollapseEvent(c)
<1>1. /\ pc[c] = "collapse" /\ pc'[c] = "commit" /\ req' = req /\ winner' = winner
      /\ EventKeyFree(c, EventKey(x)) /\ ~EventKeyTaken(c, EventKey(x))
      /\ \A d \in Clients \ {c} : Stays(d)
      /\ UNCHANGED <<rec, events, idem, dedupe, accessed>>
  BY DEF Collapse, Goto, Stays, Inv, TypeInv, TypeOK, tables, history
<1>2. /\ tx'[c].rec = tx[c].rec /\ tx'[c].idem = tx[c].idem /\ tx'[c].dedupe = tx[c].dedupe
      /\ tx'[c].events = tx[c].events \cup {x}
  BY DEF Collapse, Inv, TypeInv, Transaction
<1>3. /\ req[c] \in Requests /\ req[c].op = "dedupe" /\ w \in Mems /\ req[c].dk \in DKeys
  BY <1>1, CallFacts DEF Inv, CallInv, CallOK
<1>4. ~Won(c) /\ ~Won(c)'
  BY <1>1, <1>2, <1>3 DEF WorkInv, WorkOK, KeysOK, Won
<1>5. PICK e \in tx[c].events : Mutated(c, e)
  BY <1>1, <1>3, <1>4 DEF WorkInv, WorkOK, WrittenOK
<1>6. Changed(c, e) /\ tx[c].events = {e} /\ Past(c, e, cur[c])
  BY <1>1, <1>5 DEF Mutated
<1>7. /\ x.type = "collapsed" /\ x.snap = cur[c]
      /\ x = NewEvent(w, x.snap, "collapsed", NoKey, req[c].mid)
  BY DEF CollapseEvent, NewEvent
<1> HIDE DEF x
<1>8. PICK y : y = x
  OBVIOUS
<1>9. Past(c, e, y.snap)'
  <2>1. Visible(c, w)' = Visible(c, w) /\ w' = w
    BY <1>1, <1>2 DEF Visible
  <2> QED
    BY <1>1, <1>6, <1>7, <1>8, <2>1 DEF Past
<1>10. Mutated(c, e)'
  <2>1. Changed(c, e)'
    BY <1>1, <1>2, <1>6, ChangedKept
  <2>2. tx'[c].events = {e, y}
    BY <1>2, <1>6, <1>8
  <2>3. y = NewEvent(winner'[c], y.snap, "collapsed", NoKey, req'[c].mid)
    BY <1>1, <1>7, <1>8
  <2> QED
    BY <1>1, <1>3, <1>9, <2>1, <2>2, <2>3 DEF Mutated
<1>11. WrittenOK(c)'
  BY <1>1, <1>2, <1>3, <1>4, <1>10 DEF WrittenOK
<1>12. KeysOK(c)'
  BY <1>1, <1>2, <1>3, <1>4 DEF WorkInv, WorkOK, KeysOK
<1>13. EventsOK(c)'
  <2>1. \A f \in events : EventKey(y) # EventKey(f)
    BY <1>1, <1>8 DEF EventKeyTaken
  <2> QED
    BY <1>1, <1>2, <1>7, <1>8, <2>1 DEF WorkInv, WorkOK, EventsOK
<1>14. \A d \in Clients \ {c} : Apart(c, d)'
  <2>1. \A d \in Clients \ {c} : \A f \in tx[d].events : EventKey(y) # EventKey(f)
    BY <1>1, <1>8 DEF EventKeyFree
  <2> QED
    BY <1>1, <1>2, <1>8, <2>1 DEF WorkInv, Apart, Stays
<1> QED
  BY <1>1, <1>11, <1>12, <1>13, <1>14, CollapseInv, LocalWork DEF WorkOK

\* The key is stored for the row the call has written.
LEMMA SaveIdemWork ==
  ASSUME Inv, WorkInv, NEW c \in Clients, NEW m \in Mems, SaveIdem(c, m)
  PROVE  WorkInv'
<1> DEFINE q == req[c]
           entry == NewEntry(q, m, cur[c].ver)
<1>1. /\ pc[c] = "saveidem" /\ pc'[c] = "commit" /\ req' = req /\ winner' = winner
      /\ tx[c].rec[m] # NoRec /\ idem[q.key] = NoEntry
      /\ \A d \in Clients \ {c} : Stays(d) /\ tx[d].idem[q.key] = NoEntry
      /\ UNCHANGED <<rec, events, idem, dedupe, accessed>>
  BY DEF SaveIdem, IdemFree, Goto, Stays, Inv, TypeInv, TypeOK, tables, history
<1>2. /\ q \in Requests /\ q.key \in Keys /\ q.op \in {"created", "promoted"}
  BY <1>1, RecordsAssumption DEF Inv, CallInv, CallOK, Keyed
<1>3. /\ tx'[c].rec = tx[c].rec /\ tx'[c].events = tx[c].events
      /\ tx'[c].dedupe = tx[c].dedupe
      /\ tx'[c].idem[q.key] = entry
      /\ \A k \in Keys \ {q.key} : tx'[c].idem[k] = tx[c].idem[k]
  BY <1>2 DEF SaveIdem, Inv, TypeInv, Transaction
<1>4. \A k \in Keys : tx[c].idem[k] = NoEntry
  BY <1>1 DEF WorkInv, WorkOK, KeysOK
<1>5. ~Won(c) /\ ~Won(c)'
  BY <1>1, <1>2 DEF Won
<1> HIDE DEF entry
<1>6. ASSUME q.op = "created"
      PROVE  \E n \in Mems : Created(c, n)'
  <2>1. PICK n \in Mems : Created(c, n)
    BY <1>1, <1>6 DEF WorkInv, WorkOK, WrittenOK
  <2>2. n = m /\ cur[c].ver = 1
    BY <1>1, <2>1 DEF Created, Only
  <2>3. Stored(c, n, 1)'
    BY <1>1, <1>3, <2>2 DEF Stored, entry
  <2> QED
    BY <1>1, <1>3, <2>1, <2>3 DEF Created, Only
<1>7. ASSUME q.op = "promoted"
      PROVE  \E e \in tx'[c].events : Mutated(c, e)'
  <2>1. PICK e \in tx[c].events : Mutated(c, e)
    BY <1>1, <1>5, <1>7 DEF WorkInv, WorkOK, WrittenOK
  <2>2. Changed(c, e) /\ tx[c].events = {e} /\ cur[c].ver = q.ver + 1 /\ q.mid = m
    BY <1>1, <2>1 DEF Mutated, Changed, Only
  <2>3. Stored(c, q.mid, q.ver + 1)'
    BY <1>1, <1>3, <2>2 DEF Stored, entry
  <2>4. Changed(c, e)'
    BY <1>1, <1>3, <2>2, ChangedKept
  <2>5. Mutated(c, e)'
    BY <1>1, <1>3, <1>7, <2>2, <2>3, <2>4 DEF Mutated
  <2> QED
    BY <1>3, <2>5
<1>8. WrittenOK(c)'
  BY <1>1, <1>2, <1>5, <1>6, <1>7 DEF WrittenOK
<1>9. KeysOK(c)'
  BY <1>1, <1>2, <1>3, <1>4 DEF WorkInv, WorkOK, KeysOK
<1>10. EventsOK(c)'
  BY <1>1, <1>3 DEF WorkInv, WorkOK, EventsOK
<1>11. \A d \in Clients \ {c} : Apart(c, d)'
  BY <1>1, <1>2, <1>3, <1>4 DEF WorkInv, Apart, Stays
<1> QED
  BY <1>1, <1>8, <1>9, <1>10, <1>11, SaveIdemInv, LocalWork DEF WorkOK

\* The row of an access is locked by no other transaction.
LEMMA AccessRowWork ==
  ASSUME Inv, WorkInv, NEW c \in Clients, NEW m \in Mems, AccessRow(c, m)
  PROVE  WorkInv'
<1> DEFINE r == [rec[m] EXCEPT !.hits = @ + 1]
<1>1. /\ pc[c] = "access" /\ pc' = pc /\ req' = req /\ winner' = winner /\ RowFree(c, m)
      /\ m \in tx[c].left /\ \E i \in DOMAIN req[c].ids : req[c].ids[i] = m
      /\ \A d \in Clients \ {c} : Stays(d)
      /\ UNCHANGED <<rec, events, idem, dedupe, accessed>>
  BY DEF AccessRow, NextRow, Stays, Inv, TypeInv, TypeOK, tables, history
<1>2. rec[m] # NoRec /\ req[c].op = "access"
  BY <1>1 DEF Inv, CallInv, CallOK, LeftInv
<1>3. /\ tx'[c].rec[m] = r /\ \A n \in Mems \ {m} : tx'[c].rec[n] = tx[c].rec[n]
      /\ tx'[c].events = tx[c].events /\ tx'[c].idem = tx[c].idem
      /\ tx'[c].dedupe = tx[c].dedupe
  BY DEF AccessRow, Inv, TypeInv, Transaction
<1>4. Visited(c)
  BY <1>1, <1>2 DEF WorkInv, WorkOK, WrittenOK
<1>5. Visited(c)'
  BY <1>1, <1>2, <1>3, <1>4 DEF Visited
<1>6. WrittenOK(c)'
  BY <1>1, <1>2, <1>5 DEF WrittenOK
<1>7. KeysOK(c)' /\ EventsOK(c)'
  BY <1>1, <1>2, <1>3, <1>4 DEF WorkInv, WorkOK, KeysOK, EventsOK, Visited
<1>8. \A d \in Clients \ {c} : Apart(c, d)'
  BY <1>1, <1>3 DEF WorkInv, Apart, Stays, RowFree
<1> QED
  BY <1>1, <1>6, <1>7, <1>8, AccessRowInv, LocalWork DEF WorkOK

\* An access that has visited its rows goes to its COMMIT with them.
LEMMA AccessDoneWork ==
  ASSUME Inv, WorkInv, NEW c \in Clients, AccessDone(c)
  PROVE  WorkInv'
<1>1. /\ pc[c] = "access" /\ pc'[c] = "commit" /\ req' = req /\ tx' = tx
      /\ \A d \in Clients \ {c} : Stays(d)
      /\ UNCHANGED <<rec, events, idem, dedupe, accessed>>
  BY DEF AccessDone, Goto, Stays, Inv, TypeInv, TypeOK, tables, history
<1>2. req[c].op = "access" /\ Visited(c)
  BY <1>1 DEF Inv, CallInv, CallOK, WorkInv, WorkOK, WrittenOK
<1>3. Visited(c)' /\ ~Won(c)'
  BY <1>1, <1>2 DEF Visited, Won
<1>4. WorkOK(c)'
  BY <1>1, <1>2, <1>3 DEF WorkInv, WorkOK, WrittenOK, KeysOK, EventsOK, Visited
<1>5. SameWork(c)
  BY <1>1 DEF SameWork
<1> QED
  BY <1>1, <1>4, <1>5, AccessDoneInv, SameApart, LocalWork

-----------------------------------------------------------------------------
(* COMMIT. *)

\* A row that COMMIT changes is a new record, has been visited, or is what the call
\* makes of it at that moment.
LEMMA CommittedRow ==
  ASSUME Inv, WorkInv, NEW c \in Clients, Apply(c), NEW m \in Mems
  PROVE  /\ tx[c].rec[m] = NoRec => rec'[m] = rec[m]
         /\ tx[c].rec[m] # NoRec =>
              \/ /\ req[c].op = "created" /\ Created(c, m)
                 /\ rec[m] = NoRec /\ rec'[m] = FirstVersion(req[c])
              \/ /\ req[c].op = "access" /\ rec[m] # NoRec
                 /\ rec'[m] = [rec[m] EXCEPT !.hits = @ + 1]
              \/ /\ req[c].op \notin {"created", "access"} /\ m = req[c].mid /\ rec[m] # NoRec
                 /\ rec'[m] = Applied(req[c], rec[m])
                 /\ \E e \in tx[c].events : Changed(c, e)
<1>1. /\ pc[c] = "commit" /\ rec'[m] = Visible(c, m) /\ req[c] \in Requests
  BY DEF Apply, Inv, CallInv, CallOK
<1>2. tx[c].rec[m] = NoRec => rec'[m] = rec[m]
  BY <1>1 DEF Visible
<1>3. ASSUME tx[c].rec[m] # NoRec, req[c].op = "created"
      PROVE  Created(c, m) /\ rec[m] = NoRec /\ rec'[m] = FirstVersion(req[c])
  <2>1. PICK n \in Mems : Created(c, n)
    BY <1>1, <1>3 DEF WorkInv, WorkOK, WrittenOK
  <2>2. n = m
    BY <1>3, <2>1 DEF Created, Only
  <2> QED
    BY <1>1, <1>3, <2>1, <2>2 DEF Created, Visible
<1>4. ASSUME tx[c].rec[m] # NoRec, req[c].op = "access"
      PROVE  rec[m] # NoRec /\ rec'[m] = [rec[m] EXCEPT !.hits = @ + 1]
  BY <1>1, <1>4 DEF WorkInv, WorkOK, WrittenOK, Visited, Visible
<1>5. ASSUME tx[c].rec[m] # NoRec, req[c].op \notin {"created", "access"}
      PROVE  /\ m = req[c].mid /\ rec[m] # NoRec
             /\ rec'[m] = Applied(req[c], rec[m]) /\ \E e \in tx[c].events : Changed(c, e)
  <2>1. ~EmptyTx(c)
    BY <1>5 DEF EmptyTx
  <2>2. PICK e \in tx[c].events : Mutated(c, e)
    BY <1>1, <1>5, <2>1 DEF WorkInv, WorkOK, WrittenOK
  <2>3. Changed(c, e)
    BY <2>2 DEF Mutated
  <2>4. m = req[c].mid
    BY <1>5, <2>3 DEF Changed, Only
  <2> QED
    BY <1>1, <1>5, <2>3, <2>4 DEF Changed, Visible
<1> QED
  BY <1>2, <1>3, <1>4, <1>5

\* Rows move on only forwards.
LEMMA CommitMovesOn ==
  ASSUME Inv, WorkInv, NEW c \in Clients, Apply(c), NEW m \in Mems
  PROVE  MovesOn(m)
<1> SUFFICES ASSUME rec[m] # NoRec
             PROVE  /\ rec'[m] # NoRec /\ rec'[m].hits >= rec[m].hits
                    /\ \/ rec'[m].ver > rec[m].ver
                       \/ rec'[m].ver = rec[m].ver /\ CopyOf(rec[m], rec'[m])
  BY DEF MovesOn
<1>1. /\ rec[m] \in Record /\ rec[m].hits \in Nat /\ rec[m].ver \in Nat /\ NoRec \notin Record
      /\ req[c] \in Requests
  BY CallFacts DEF Record, Apply
<1>2. CASE rec'[m] = rec[m]
  BY <1>1, <1>2, CopySelf
<1>3. CASE rec'[m] = [rec[m] EXCEPT !.hits = @ + 1]
  <2> DEFINE r == [rec[m] EXCEPT !.hits = @ + 1]
  <2>1. /\ r \in Record /\ r.hits = rec[m].hits + 1 /\ r.ver = rec[m].ver
        /\ r.content = rec[m].content /\ r.kind = rec[m].kind /\ r.from = rec[m].from
        /\ r.pinned = rec[m].pinned /\ r.disabled = rec[m].disabled
        /\ r.deleted = rec[m].deleted
    BY <1>1, WithHits
  <2>2. rec'[m] = r
    BY <1>3
  <2> HIDE DEF r
  <2>3. CopyOf(rec[m], r)
    <3>1. rec[m].hits <= r.hits
      BY <1>1, <2>1
    <3> QED
      BY <1>1, <2>1, <3>1, CopyIf
  <2> QED
    BY <1>1, <2>1, <2>2, <2>3
<1>4. CASE req[c].op \notin {"created", "access"} /\ rec'[m] = Applied(req[c], rec[m])
  <2>1. /\ Applied(req[c], rec[m]) \in Record
        /\ Applied(req[c], rec[m]).ver = rec[m].ver + 1
        /\ Applied(req[c], rec[m]).hits = rec[m].hits
    BY <1>1, <1>4, AppliedFields
  <2> QED
    BY <1>1, <1>4, <2>1
<1> QED
  BY <1>2, <1>3, <1>4, CommittedRow

\* What COMMIT changes is no other transaction's.
LEMMA CommitKept ==
  ASSUME Inv, WorkInv, NEW c \in Clients, Apply(c), NEW d \in Clients \ {c}
  PROVE  KeptFor(d)
<1>1. Apart(c, d) /\ WorkOK(c) /\ tx[c] \in Transaction
  BY CallFacts DEF WorkInv
<1>2. ASSUME NEW m \in Mems
      PROVE  MovesOn(m) /\ (tx[d].rec[m] # NoRec => rec'[m] = rec[m])
  BY <1>1, CommitMovesOn, CommittedRow DEF Apart
<1>3. /\ events \subseteq events'
      /\ \A e \in tx[d].events, f \in events' \ events : EventKey(e) # EventKey(f)
  BY <1>1 DEF Apply, Apart
<1>4. \A k \in Keys : tx[d].idem[k] # NoEntry => idem'[k] = idem[k]
  BY <1>1 DEF Apply, Apart
<1>5. \A k \in DKeys : dedupe[k] # NoMem => dedupe'[k] = dedupe[k]
  BY DEF Apply, Inv, ClaimInv
<1> QED
  BY <1>2, <1>3, <1>4, <1>5 DEF KeptFor

\* A counter that moves on by what was visited still counts from the first event.
LEMMA CountedOn ==
  ASSUME Inv, NEW m \in Mems, rec[m] \in Record, Counted(m), events \subseteq events',
         NEW n \in Nat, rec'[m].hits = rec[m].hits + n, accessed'[m] = accessed[m] + n
  PROVE  Counted(m)'
<1>1. PICK f \in events : EventKey(f) = <<m, 1, "created">>
                         /\ rec[m].hits = f.snap.hits + accessed[m]
  BY DEF Counted
<1>2. f.snap.hits \in Nat /\ accessed[m] \in Nat
  BY DEF Inv, TypeInv, TypeOK, Event, Record
<1>3. rec'[m].hits = f.snap.hits + accessed'[m]
  BY <1>1, <1>2
<1> QED
  BY <1>1, <1>3 DEF Counted

\* The counter of a row and the event that describes it.
LEMMA CommitRowOK ==
  ASSUME Inv, Inv', WorkInv, NEW c \in Clients, Apply(c), NEW m \in Mems
  PROVE  RowOK(m)'
<1>1. /\ rec[m] \in Record \cup {NoRec} /\ NoRec \notin Record /\ req[c] \in Requests
      /\ pc[c] = "commit" /\ accessed[m] \in Nat
      /\ events' = events \cup tx[c].events /\ tx[c].events \subseteq Event
      /\ req[c].op = "access" /\ tx[c].rec[m] # NoRec => accessed'[m] = accessed[m] + 1
      /\ ~(req[c].op = "access" /\ tx[c].rec[m] # NoRec) => accessed'[m] = accessed[m]
  BY CallFacts DEF Apply, Inv, TypeInv, TypeOK
<1>2. CASE tx[c].rec[m] = NoRec
  <2>1. rec'[m] = rec[m]
    BY <1>2, CommittedRow
  <2>2. accessed'[m] = accessed[m]
    BY <1>1, <1>2
  <2>3. RowOK(m) /\ events \subseteq events'
    BY <1>1 DEF WorkInv
  <2> QED
    BY <2>1, <2>2, <2>3 DEF RowOK, Counted
<1>3. CASE tx[c].rec[m] # NoRec /\ req[c].op = "created"
  <2>1. /\ Created(c, m) /\ rec[m] = NoRec /\ rec'[m] = FirstVersion(req[c])
        /\ accessed'[m] = accessed[m] /\ FirstVersion(req[c]) \in Record
        /\ FirstVersion(req[c]).ver = 1
    <3>1. Created(c, m) /\ rec[m] = NoRec /\ rec'[m] = FirstVersion(req[c])
      BY <1>3, CommittedRow
    <3>2. FirstVersion(req[c]) \in Record /\ FirstVersion(req[c]).ver = 1
      BY <1>1, <1>3, FirstVersionType
    <3> QED
      BY <1>1, <1>3, <3>1, <3>2
  <2>2. PICK e \in tx[c].events :
          e.mid = m /\ e.snap = FirstVersion(req[c]) /\ EventKey(e) = <<m, 1, "created">>
    BY <2>1 DEF Created, NewEvent, EventKey
  <2>3. rec'[m] = [e.snap EXCEPT !.hits = rec'[m].hits]
    BY <2>1, <2>2, CopySelf
  <2>4. accessed'[m] = 0
    BY <2>1 DEF WorkInv, RowOK
  <2>5. rec'[m].hits = e.snap.hits + accessed'[m]
    BY <2>1, <2>2, <2>4 DEF Record
  <2>6. Counted(m)'
    BY <1>1, <2>2, <2>5 DEF Counted
  <2> QED
    BY <1>1, <2>1, <2>2, <2>3, <2>6 DEF RowOK
<1>4. CASE tx[c].rec[m] # NoRec /\ req[c].op = "access"
  <2>1. rec[m] \in Record /\ rec'[m] = [rec[m] EXCEPT !.hits = @ + 1]
        /\ accessed'[m] = accessed[m] + 1
    BY <1>1, <1>4, CommittedRow
  <2>2. rec'[m].hits = rec[m].hits + 1 /\ rec'[m] \in Record
    BY <2>1 DEF Record
  <2>3. PICK f \in events : f.mid = m /\ rec[m] = [f.snap EXCEPT !.hits = rec[m].hits]
    BY <1>1, <2>1 DEF WorkInv, RowOK
  <2>4. f.snap \in Record
    BY <2>3 DEF Inv, TypeInv, TypeOK, Event
  <2>5. rec'[m] = [f.snap EXCEPT !.hits = rec'[m].hits]
    BY <2>1, <2>2, <2>3, <2>4, WithHits, CopyIf
  <2>6. Counted(m)'
    BY <1>1, <2>1, <2>2, CountedOn DEF WorkInv, RowOK
  <2> QED
    BY <1>1, <2>1, <2>2, <2>3, <2>5, <2>6 DEF RowOK
<1>5. CASE tx[c].rec[m] # NoRec /\ req[c].op \notin {"created", "access"}
  <2>1. /\ m = req[c].mid /\ rec[m] \in Record /\ rec'[m] = Applied(req[c], rec[m])
        /\ accessed'[m] = accessed[m]
    <3>1. m = req[c].mid /\ rec[m] # NoRec /\ rec'[m] = Applied(req[c], rec[m])
      BY <1>5, CommittedRow
    <3> QED
      BY <1>1, <1>5, <3>1
  <2>2. PICK e \in tx[c].events : Changed(c, e)
    BY <1>5, CommittedRow
  <2>3. rec'[m] \in Record /\ rec'[m].hits = rec[m].hits
    BY <1>1, <1>5, <2>1, AppliedFields
  <2>4. e.mid = m /\ CopyOf(e.snap, rec'[m])
    BY <2>1, <2>2 DEF Changed, NewEvent
  <2>5. rec'[m] = [e.snap EXCEPT !.hits = rec'[m].hits]
    BY <2>3, <2>4, CopyFacts, CopyIf
  <2>6. Counted(m)'
    <3>1. Counted(m) /\ events \subseteq events' /\ rec[m].hits \in Nat
      BY <1>1, <2>1 DEF WorkInv, RowOK, Record
    <3>2. 0 \in Nat /\ rec'[m].hits = rec[m].hits + 0 /\ accessed'[m] = accessed[m] + 0
      BY <1>1, <2>1, <2>3, <3>1
    <3> QED
      BY <2>1, <3>1, <3>2, CountedOn
  <2> QED
    BY <1>1, <2>1, <2>2, <2>3, <2>4, <2>5, <2>6 DEF RowOK
<1> QED
  BY <1>2, <1>3, <1>4, <1>5

\* COMMIT keeps the invariant: the rows move on, and no other transaction held them.
LEMMA CommitWork ==
  ASSUME Inv, WorkInv, NEW c \in Clients, NEW how \in Outcomes, Apply(c), Return(c, how)
  PROVE  WorkInv'
<1>1. Inv'
  BY ApplyInv
<1>2. WorkOK(c)' /\ \A d \in Clients \ {c} : Stays(d) /\ Apart(c, d)'
  BY Returned
<1>3. ASSUME NEW d \in Clients
      PROVE  WorkOK(d)'
  BY <1>1, <1>2, CommitKept, OthersKeep DEF WorkInv
<1>4. ASSUME NEW a \in Clients, NEW d \in Clients \ {a}
      PROVE  Apart(a, d)'
  <2>1. CASE a # c /\ d # c
    BY <1>2, <2>1 DEF WorkInv, Apart, Stays
  <2>2. CASE a = c \/ d = c
    BY <1>2, <2>2 DEF Apart
  <2> QED
    BY <2>1, <2>2
<1>5. \A m \in Mems : RowOK(m)'
  BY <1>1, CommitRowOK
<1> QED
  BY <1>3, <1>4, <1>5 DEF WorkInv

-----------------------------------------------------------------------------
(* Every step. *)

\* Every step of a call keeps the invariant.
LEMMA StepWork ==
  ASSUME Inv, WorkInv, NEW c \in Clients, Step(c) \/ CommitReplyLost(c) \/ Abort(c)
  PROVE  WorkInv'
<1>1. CASE Commit(c) \/ CommitReplyLost(c)
  BY <1>1, CommitWork DEF Commit, CommitReplyLost, Outcomes
<1>2. CASE Abort(c) \/ DeadlockAbort(c)
  BY <1>2, FailWork DEF Abort, DeadlockAbort, Outcomes
<1>3. CASE LookupMiss(c) \/ LookupConflict(c) \/ LookupReplay(c)
  BY <1>3, LookupMissWork, FailWork, ReturnWork DEF LookupConflict, LookupReplay, Outcomes
<1>4. CASE (\E m \in Mems : InsertRecord(c, m)) \/ InsertDuplicate(c)
  BY <1>4, InsertRecordWork, FailWork DEF InsertDuplicate, Outcomes
<1>5. CASE Load(c) \/ LoadFails(c) \/ Update(c) \/ UpdateConflict(c) \/ UpdateDuplicate(c)
  BY <1>5, LoadWork, UpdateWork, FailWork
  DEF LoadFails, UpdateConflict, UpdateDuplicate, Outcomes
<1>6. CASE Claim(c) \/ LockIndex(c) \/ LoadWinner(c) \/ LoadWinnerFails(c) \/ Collapse(c)
             \/ CollapseDuplicate(c)
  BY <1>6, ClaimWork, LockIndexWork, LoadWinnerWork, CollapseWork, FailWork
  DEF LoadWinnerFails, CollapseDuplicate, Outcomes
<1>7. CASE (\E m \in Mems : SaveIdem(c, m)) \/ SaveIdemDuplicate(c)
  BY <1>7, SaveIdemWork, FailWork DEF SaveIdemDuplicate, Outcomes
<1>8. CASE (\E m \in Mems : AccessRow(c, m)) \/ AccessDone(c)
  BY <1>8, AccessRowWork, AccessDoneWork
<1> QED
  BY <1>1, <1>2, <1>3, <1>4, <1>5, <1>6, <1>7, <1>8 DEF Step, Statement

\* AppendEvent and SaveIdempotency wait for the keys that transactions have inserted.
LEMMA SingleWork ==
  ASSUME Inv, WorkInv,
         \/ \E e \in Appends : AppendEvent(e)
         \/ \E s \in Saves : SaveIdempotency(s)
         \/ \E k \in Keys : LoadIdempotency(k)
  PROVE  WorkInv'
<1>1. UNCHANGED <<rec, dedupe, client, accessed>>
  BY DEF AppendEvent, SaveIdempotency, LoadIdempotency, history, tables
<1>2. events \subseteq events'
  BY DEF AppendEvent, SaveIdempotency, LoadIdempotency, tables
<1>3. Inv'
  BY SingleInv
<1>4. ASSUME NEW d \in Clients
      PROVE  WorkOK(d)'
  <2>1. Stays(d)
    BY <1>1 DEF Stays, client
  <2>2. \A e \in tx[d].events, f \in events' \ events : EventKey(e) # EventKey(f)
    BY DEF AppendEvent, SaveIdempotency, LoadIdempotency, tables
  <2>3. \A k \in Keys : tx[d].idem[k] # NoEntry => idem'[k] = idem[k]
    <3>1. ASSUME NEW s \in Saves, SaveIdempotency(s)
          PROVE  \A k \in Keys : tx[d].idem[k] # NoEntry => idem'[k] = idem[k]
      BY <3>1, RecordsAssumption DEF SaveIdempotency, Inv, TypeInv, TypeOK
    <3>2. CASE UNCHANGED idem
      BY <3>2
    <3> QED
      BY <3>1, <3>2 DEF AppendEvent, LoadIdempotency, tables
  <2>4. \A m \in Mems : rec[m] # NoRec => rec[m] \in Record /\ rec[m].hits \in Nat
    BY DEF Inv, TypeInv, TypeOK, Record
  <2>5. \A m \in Mems : MovesOn(m)
    BY <1>1, <2>4, CopySelf DEF MovesOn
  <2>6. KeptFor(d)
    BY <1>1, <1>2, <2>2, <2>3, <2>5 DEF KeptFor
  <2> QED
    BY <1>3, <2>1, <2>6, OthersKeep DEF WorkInv
<1>5. \A a \in Clients : \A d \in Clients \ {a} : Apart(a, d)'
  BY <1>1 DEF WorkInv, Apart, client
<1>6. \A m \in Mems : RowOK(m)'
  BY <1>1, <1>2 DEF WorkInv, RowOK, Counted
<1> QED
  BY <1>4, <1>5, <1>6 DEF WorkInv

\* The seed has no transactions, and an event for each record.
LEMMA InitWork == Init => WorkInv
<1> SUFFICES ASSUME Init
             PROVE  WorkInv
  OBVIOUS
<1>1. /\ NoTx.events = {} /\ \A m \in Mems : NoTx.rec[m] = NoRec
      /\ \A k \in Keys : NoTx.idem[k] = NoEntry
      /\ \A k \in DKeys : NoTx.dedupe[k] = NoMem
  BY DEF NoTx
<1>2. ASSUME NEW c \in Clients
      PROVE  WorkOK(c)
  <2>1. pc[c] = "idle" /\ tx[c] = NoTx
    BY DEF Init
  <2>2. WrittenOK(c)
    BY <1>1, <2>1 DEF WrittenOK, EmptyTx
  <2>3. KeysOK(c) /\ EventsOK(c)
    BY <1>1, <2>1 DEF KeysOK, EventsOK
  <2> QED
    BY <2>2, <2>3 DEF WorkOK
<1>3. \A c \in Clients : \A d \in Clients \ {c} : Apart(c, d)
  BY <1>1 DEF Init, Apart
<1>4. ASSUME NEW m \in Mems
      PROVE  RowOK(m)
  <2>1. accessed[m] = 0 /\ rec = SeedRecords /\ events = SeedEvents
    BY DEF Init
  <2>2. CASE m \in DOMAIN Seed
    <3> DEFINE r == Seed[m]
    <3>1. rec[m] = r /\ r \in Record /\ r.ver = 1
      BY <2>1, <2>2, RecordsAssumption DEF SeedRecords
    <3>2. r.hits = r.hits + accessed[m]
      BY <2>1, <3>1 DEF Record
    <3>3. \E f \in events : f.mid = m /\ f.snap = r /\ EventKey(f) = <<m, 1, "created">>
      <4> DEFINE f == NewEvent(m, SeedRecords[m], "created", NoKey, NoMem)
      <4>1. f \in events
        BY <2>1, <2>2 DEF SeedEvents
      <4>2. f.mid = m /\ f.snap = SeedRecords[m]
            /\ EventKey(f) = <<m, SeedRecords[m].ver, "created">>
        BY DEF NewEvent, EventKey
      <4> QED
        BY <2>1, <3>1, <4>1, <4>2
    <3> HIDE DEF r
    <3>4. \E f \in events : f.mid = m /\ rec[m] = [f.snap EXCEPT !.hits = rec[m].hits]
      BY <3>1, <3>3, CopySelf
    <3> QED
      BY <2>1, <3>1, <3>2, <3>3, <3>4, RecordsAssumption DEF RowOK, Counted
  <2>3. CASE m \notin DOMAIN Seed
    BY <2>1, <2>3 DEF RowOK, SeedRecords
  <2> QED
    BY <2>2, <2>3
<1> QED
  BY <1>2, <1>3, <1>4 DEF WorkInv

\* Every step of the system keeps the invariant.
LEMMA NextWork == Inv /\ WorkInv /\ [Next]_vars => WorkInv'
<1> SUFFICES ASSUME Inv, WorkInv, [Next]_vars
             PROVE  WorkInv'
  OBVIOUS
<1>1. CASE UNCHANGED vars
  <2>1. ASSUME NEW c \in Clients
        PROVE  WorkOK(c)'
    <3>1. Stays(c) /\ UNCHANGED <<rec, events, idem, dedupe>>
      BY <1>1 DEF Stays, vars, client, tables
    <3>2. \A m \in Mems : rec[m] # NoRec => rec[m] \in Record /\ rec[m].hits \in Nat
      BY DEF Inv, TypeInv, TypeOK, Record
    <3>3. KeptFor(c)
      BY <3>1, <3>2, CopySelf DEF KeptFor, MovesOn
    <3> QED
      BY <1>1, <3>1, <3>3, NextInv, OthersKeep DEF WorkInv
  <2>2. \A c \in Clients : \A d \in Clients \ {c} : Apart(c, d)'
    BY <1>1 DEF vars, client, WorkInv, Apart
  <2>3. \A m \in Mems : RowOK(m)'
    BY <1>1 DEF vars, tables, history, WorkInv, RowOK, Counted
  <2> QED
    BY <2>1, <2>2, <2>3 DEF WorkInv
<1>2. CASE Next
  BY <1>2, BeginWork, StepWork, SingleWork DEF Next
<1> QED
  BY <1>1, <1>2

\* No call takes a delete back.
LEMMA StaysDeleted ==
  ASSUME Inv, WorkInv, NEW c \in Clients, Apply(c), NEW m \in Mems, rec[m] # NoRec,
         rec[m].deleted
  PROVE  rec'[m] # NoRec /\ rec'[m].deleted
<1>1. rec[m] \in Record /\ req[c] \in Requests
  BY CallFacts DEF Apply
<1>2. rec'[m] # NoRec
  BY CommitMovesOn DEF MovesOn
<1>3. CASE rec'[m] = [rec[m] EXCEPT !.hits = @ + 1]
  <2>1. rec'[m].deleted = rec[m].deleted
    BY <1>1, <1>3 DEF Record
  <2> QED
    BY <1>2, <2>1, Zenon
<1>4. CASE req[c].op \notin {"created", "access"} /\ rec'[m] = Applied(req[c], rec[m])
  <2>1. Applied(req[c], rec[m]).deleted
    BY <1>1, <1>4, AppliedDeleted, Zenon
  <2> QED
    BY <1>2, <1>4, <2>1, Zenon
<1>5. CASE rec'[m] = rec[m]
  BY <1>2, <1>5, Zenon
<1> QED
  BY <1>3, <1>4, <1>5, CommittedRow

\* Only the answer of a dedupe call is a verdict.
LEMMA VerdictsOnlyCommits ==
  ASSUME Next, ~\E c \in Clients : Commit(c) \/ CommitReplyLost(c)
  PROVE  UNCHANGED verdicts
<1>1. ASSUME NEW c \in Clients, Statement(c)
      PROVE  UNCHANGED verdicts
  BY <1>1
  DEF Statement, LookupMiss, LookupConflict, LookupReplay, InsertRecord, InsertDuplicate,
      Load, LoadFails, Update, UpdateConflict, UpdateDuplicate, Claim, LockIndex, LoadWinner,
      LoadWinnerFails, Collapse, CollapseDuplicate, SaveIdem, SaveIdemDuplicate, AccessRow,
      AccessDone, DeadlockAbort, Fail, history
<1> QED
  BY <1>1
  DEF Next, Step, Begin, Abort, Fail, AppendEvent, SaveIdempotency, LoadIdempotency, history

-----------------------------------------------------------------------------
(* The theorems. *)

\* What transactions have written stays what their calls make of the committed rows.
THEOREM WorkInvariant == Spec => [](Inv /\ WorkInv)
BY InitInv, NextInv, InitWork, NextWork, PTL DEF Spec

\* No access is ever lost: whatever counter a record is written with, its row has moved on
\* from it by the number of committed visits, for any calls next to each other. An UPDATE's
\* SET list does not name the counter, and an access adds one to the newest committed row,
\* which it has locked (Written, AccessRow of MarkAccess).
THEOREM NoAccessLost == Spec => []HitsCounted
<1>1. WorkInv => HitsCounted
  BY DEF WorkInv, RowOK, Counted, HitsCounted
<1> QED
  BY <1>1, WorkInvariant, PTL

\* A deleted record is never readable again, for any mutations that loaded it before:
\* what COMMIT writes is what the call makes of the newest row, and no call takes a
\* delete back (mutateRecordTx, Promote, GetRecord).
THEOREM DeletedForever == Spec => DeletedStays
<1> DEFINE Gone == \A m \in Mems : rec[m] # NoRec /\ rec[m].deleted => ~Readable(m)'
<1>1. ASSUME Inv, WorkInv, Next
      PROVE  Gone
  <2>1. ASSUME NEW c \in Clients, Apply(c), NEW m \in Mems, rec[m] # NoRec, rec[m].deleted
        PROVE  rec'[m].deleted
    BY <1>1, <2>1, StaysDeleted
  <2>2. CASE UNCHANGED rec
    BY <2>2 DEF Readable
  <2> QED
    BY <1>1, <2>1, <2>2, OnlyCommits
    DEF Commit, CommitReplyLost, AppendEvent, SaveIdempotency, tables, Readable
<1>2. Inv /\ WorkInv /\ [Next]_vars => [Gone]_vars
  BY <1>1
<1> QED
  BY <1>2, WorkInvariant, PTL DEF Spec, DeletedStays

-----------------------------------------------------------------------------
(* Answers. *)

\* Verdicts name calls and records that exist.
VerdictInv ==
  /\ VerdictsHold
  /\ \A v \in verdicts :
       /\ v.dk \in DKeys /\ v.cand \in Mems /\ v.winner # NoMem
       /\ v.action # "no_collision" => rec[v.cand] # NoRec

\* What a dedupe call is told follows from what it commits.
LEMMA VerdictCommitted ==
  ASSUME Inv, WorkInv, NEW c \in Clients, Apply(c), req[c].op = "dedupe",
         NEW v, v = Verdict(c)
  PROVE  /\ v.dk \in DKeys /\ v.cand \in Mems /\ v.winner # NoMem
         /\ dedupe'[v.dk] = v.winner
         /\ v.action = "no_collision" => v.cand = v.winner
         /\ v.action # "no_collision" =>
              /\ rec'[v.cand] # NoRec /\ rec'[v.cand].deleted
              /\ \E e \in events' : e.type = "collapsed" /\ e.mid = v.winner /\ e.loser = v.cand
<1> DEFINE dk == req[c].dk
           m == req[c].mid
<1>1. /\ pc[c] = "commit" /\ req[c] \in Requests /\ dk \in DKeys /\ m \in Mems
      /\ v.dk = dk /\ v.cand = m
  BY CallFacts DEF Apply, Verdict
<1>2. dedupe'[dk] = IF tx[c].dedupe[dk] # NoMem THEN tx[c].dedupe[dk] ELSE dedupe[dk]
  BY <1>1 DEF Apply
<1>3. CASE Won(c)
  <2>1. tx[c].dedupe[dk] = m /\ v.winner = m /\ v.action = "no_collision"
    BY <1>1, <1>3 DEF Won, WorkInv, WorkOK, KeysOK, Verdict
  <2> QED
    BY <1>1, <1>2, <1>3, <2>1, RecordsAssumption DEF Won
<1>4. CASE ~Won(c)
  <2>1. /\ winner[c] = dedupe[dk] /\ winner[c] # NoMem /\ tx[c].dedupe[dk] = NoMem
        /\ v.winner = winner[c] /\ v.action # "no_collision"
    BY <1>1, <1>4 DEF Won, WorkInv, WorkOK, KeysOK, Verdict
  <2>2. PICK e \in tx[c].events : Mutated(c, e)
    BY <1>1, <1>4 DEF WorkInv, WorkOK, WrittenOK
  <2>3. PICK f \in tx[c].events : f = NewEvent(winner[c], f.snap, "collapsed", NoKey, m)
    BY <1>1, <2>2 DEF Mutated
  <2>4. f \in events' /\ f.type = "collapsed" /\ f.mid = winner[c] /\ f.loser = m
    BY <2>3 DEF Apply, NewEvent
  <2>5. /\ rec[m] \in Record /\ rec'[m] = Applied(req[c], rec[m])
        /\ NoRec \notin Record /\ Applied(req[c], rec[m]) \in Record
    <3>1. Changed(c, e) /\ rec[m] \in Record /\ NoRec \notin Record
      BY <1>1, <2>2, CallFacts DEF Mutated, Changed
    <3>2. Applied(req[c], rec[m]) \in Record
      BY <1>1, <3>1, AppliedType
    <3>3. rec'[m] = Visible(c, m)
      BY <1>1 DEF Apply
    <3> QED
      BY <3>1, <3>2, <3>3 DEF Changed, Visible
  <2>6. Applied(req[c], rec[m]).deleted
    BY <1>1, <2>5, AppliedFields DEF MutationType
  <2> QED
    BY <1>1, <1>2, <2>1, <2>4, <2>5, <2>6
<1> QED
  BY <1>3, <1>4

\* A verdict, once given, stays true, for any number of callers of a key: the winner
\* never changes, the loser stays deleted, and the event that names it was committed
\* with the delete (ResolveDedupe).
THEOREM VerdictsStayTrue == Spec => []VerdictsHold
<1>1. Init => VerdictInv
  BY DEF Init, VerdictInv, VerdictsHold
<1>2. Inv /\ WorkInv /\ VerdictInv /\ [Next]_vars => VerdictInv'
  <2> SUFFICES ASSUME Inv, WorkInv, VerdictInv, [Next]_vars
               PROVE  VerdictInv'
    OBVIOUS
  <2>1. CASE UNCHANGED <<rec, dedupe, verdicts>> /\ events \subseteq events'
    BY <2>1 DEF VerdictInv, VerdictsHold
  <2>2. ASSUME NEW c \in Clients, Apply(c), verdicts' = verdicts \/ Commit(c)
        PROVE  VerdictInv'
    <3>1. ASSUME NEW v \in verdicts
          PROVE  /\ dedupe'[v.dk] = v.winner
                 /\ v.action # "no_collision" =>
                      /\ rec'[v.cand] # NoRec /\ rec'[v.cand].deleted
                      /\ \E e \in events' :
                           e.type = "collapsed" /\ e.mid = v.winner /\ e.loser = v.cand
      <4>1. dedupe'[v.dk] = v.winner
        BY <2>2 DEF VerdictInv, VerdictsHold, Apply, Inv, ClaimInv
      <4>2. v.action # "no_collision" =>
              \E e \in events' : e.type = "collapsed" /\ e.mid = v.winner /\ e.loser = v.cand
        BY <2>2 DEF VerdictInv, VerdictsHold, Apply
      <4>3. v.action # "no_collision" => rec'[v.cand] # NoRec /\ rec'[v.cand].deleted
        BY <2>2, StaysDeleted DEF VerdictInv, VerdictsHold
      <4> QED
        BY <4>1, <4>2, <4>3
    <3>2. ASSUME NEW v \in verdicts', v \notin verdicts
          PROVE  req[c].op = "dedupe" /\ v = Verdict(c)
      BY <2>2, <3>2 DEF Commit
    <3> QED
      BY <2>2, <3>1, <3>2, VerdictCommitted DEF VerdictInv, VerdictsHold
  <2>3. ASSUME NEW c \in Clients, Commit(c) \/ CommitReplyLost(c)
        PROVE  VerdictInv'
    BY <2>2, <2>3 DEF Commit, CommitReplyLost
  <2>4. CASE UNCHANGED vars
    BY <2>1, <2>4 DEF vars, tables, history
  <2>5. CASE Next /\ ~\E c \in Clients : Commit(c) \/ CommitReplyLost(c)
    <3>1. UNCHANGED verdicts
      BY <2>5, VerdictsOnlyCommits
    <3>2. UNCHANGED <<rec, dedupe>> /\ events \subseteq events'
      BY <2>5, OnlyCommits DEF AppendEvent, SaveIdempotency, tables
    <3> QED
      BY <2>1, <3>1, <3>2
  <2> QED
    BY <2>3, <2>4, <2>5
<1>3. VerdictInv => VerdictsHold
  BY DEF VerdictInv
<1> QED
  BY <1>1, <1>2, <1>3, WorkInvariant, PTL DEF Spec

=============================================================================

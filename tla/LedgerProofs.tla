---------------------------- MODULE LedgerProofs ----------------------------
(***************************************************************************)
(* Proofs that Store implements Ledger: every step is one call of Ledger   *)
(* on the committed tables, or leaves them alone.                          *)
(***************************************************************************)
EXTENDS CommitProofs

\* Ledger's operators are Store's.
LEMMA SameOperators ==
  /\ \A e : Atomic!EventKey(e) = EventKey(e)
  /\ \A q : Atomic!FirstVersion(q) = FirstVersion(q) /\ Atomic!RequestHash(q) = RequestHash(q)
            /\ Atomic!MutationType(q) = MutationType(q)
  /\ \A q, m, v : Atomic!NewEntry(q, m, v) = NewEntry(q, m, v)
  /\ \A q, r : Atomic!Applied(q, r) = Applied(q, r)
  /\ \A m, r, t, k, l : Atomic!NewEvent(m, r, t, k, l) = NewEvent(m, r, t, k, l)
  /\ \A e : Atomic!Appendable(e) = Appendable(e)
<1>1. \A e : Atomic!EventKey(e) = EventKey(e)
  BY DEF Atomic!EventKey, EventKey
<1>2. \A q : Atomic!FirstVersion(q) = FirstVersion(q)
  BY DEF Atomic!FirstVersion, FirstVersion
<1>3. \A q : Atomic!RequestHash(q) = RequestHash(q) /\ Atomic!MutationType(q) = MutationType(q)
  BY DEF Atomic!RequestHash, RequestHash, Atomic!MutationType, MutationType
<1>4. \A q, r : Atomic!Applied(q, r) = Applied(q, r)
  BY Zenon DEF Atomic!Applied, Applied, Atomic!MutationType, MutationType
<1>5. \A m, r, t, k, l : Atomic!NewEvent(m, r, t, k, l) = NewEvent(m, r, t, k, l)
  BY DEF Atomic!NewEvent, NewEvent
<1>6. \A e : Atomic!Appendable(e) = Appendable(e)
  BY DEF Atomic!Appendable, Appendable, Atomic!EventTypes, EventTypes, Atomic!Toggles, Toggles
<1>7. \A q, m, v : Atomic!NewEntry(q, m, v) = NewEntry(q, m, v)
  BY <1>3 DEF Atomic!NewEntry, NewEntry
<1> QED
  BY <1>1, <1>2, <1>3, <1>4, <1>5, <1>6, <1>7


-----------------------------------------------------------------------------
(* What COMMIT does to the tables. *)

\* The events of the transaction are logged, each with its outbox row.
LEMMA CommitLogs ==
  ASSUME Inv, WorkInv, PairedInv, NEW c \in Clients, Apply(c)
  PROVE  Atomic!Log(tx[c].events)
<1>1. tx[c].outbox = {EventKey(e) : e \in tx[c].events}
  BY DEF PairedInv, Paired
<1>2. \A e \in tx[c].events, f \in events : EventKey(e) # EventKey(f)
  BY DEF WorkInv, WorkOK, EventsOK
<1>3. events' = events \cup tx[c].events
      /\ outbox' = outbox \cup {EventKey(e) : e \in tx[c].events}
  BY <1>1 DEF Apply
<1> QED
  BY <1>2, <1>3, SameOperators DEF Atomic!Log

\* No answer is stored by a call without a key.
LEMMA CommitForgets ==
  ASSUME Inv, WorkInv, NEW c \in Clients, Apply(c),
         req[c].key = NoKey \/ req[c].op \notin {"created", "promoted"}
  PROVE  UNCHANGED idem
<1>1. \A k \in Keys : tx[c].idem[k] = NoEntry
  BY RecordsAssumption DEF WorkInv, WorkOK, KeysOK
<1>2. idem' = [k \in Keys |-> idem[k]]
  BY <1>1 DEF Apply
<1>3. idem \in [Keys -> Entry \cup {NoEntry}]
  BY DEF Inv, TypeInv, TypeOK
<1> QED
  BY <1>2, <1>3

\* What the transaction has stored under its key becomes the answer.
LEMMA CommitRemembers ==
  ASSUME Inv, WorkInv, NEW c \in Clients, Apply(c), NEW m \in Mems, NEW v \in Nat,
         req[c].key # NoKey => Stored(c, m, v)
  PROVE  Atomic!Remember(req[c], m, v)
<1> DEFINE q == req[c]
           a == NewEntry(q, m, v)
<1>1. CASE q.key = NoKey
  BY <1>1, CommitForgets DEF Atomic!Remember
<1>2. CASE q.key # NoKey
  <2>1. q \in Requests /\ q \in Keyed /\ q.key \in Keys
    BY <1>2, CallFacts, RecordsAssumption DEF Apply
  <2>2. a \in Entry
    BY <2>1, NewEntryType
  <2>3. tx[c].idem[q.key] = a /\ a # NoEntry
    BY <1>2, <2>2, RecordsAssumption DEF Stored
  <2> HIDE DEF a
  <2>4. idem[q.key] = NoEntry /\ \A k \in Keys \ {q.key} : tx[c].idem[k] = NoEntry
    BY <2>1, <2>3 DEF WorkInv, WorkOK, KeysOK
  <2>5. idem \in [Keys -> Entry \cup {NoEntry}]
    BY DEF Inv, TypeInv, TypeOK
  <2>6. idem' = [k \in Keys |-> IF tx[c].idem[k] # NoEntry THEN tx[c].idem[k] ELSE idem[k]]
    BY DEF Apply
  <2>7. idem' = [idem EXCEPT ![q.key] = a]
    BY <2>1, <2>3, <2>4, <2>5, <2>6
  <2> QED
    BY <1>2, <2>4, <2>7, SameOperators DEF Atomic!Remember, a
<1> QED
  BY <1>1, <1>2

\* Only the first caller of a dedupe key enters it in the index.
LEMMA CommitClaims ==
  ASSUME Inv, WorkInv, NEW c \in Clients, Apply(c)
  PROVE  /\ ~Won(c) => UNCHANGED dedupe
         /\ Won(c) => /\ dedupe[req[c].dk] = NoMem
                      /\ dedupe' = [dedupe EXCEPT ![req[c].dk] = req[c].mid]
<1>1. dedupe \in [DKeys -> Mems \cup {NoMem}]
  BY DEF Inv, TypeInv, TypeOK
<1>2. dedupe' = [d \in DKeys |-> IF tx[c].dedupe[d] # NoMem THEN tx[c].dedupe[d] ELSE dedupe[d]]
  BY DEF Apply
<1>3. CASE ~Won(c)
  <2>1. \A d \in DKeys : tx[c].dedupe[d] = NoMem
    BY <1>3 DEF Won, WorkInv, WorkOK, KeysOK
  <2> QED
    BY <1>1, <1>2, <1>3, <2>1
<1>4. CASE Won(c)
  <2>1. req[c].dk \in DKeys
    BY <1>4, CallFacts DEF Won, Apply
  <2>2. /\ tx[c].dedupe[req[c].dk] = req[c].mid /\ tx[c].dedupe[req[c].dk] # NoMem
        /\ \A d \in DKeys \ {req[c].dk} : tx[c].dedupe[d] = NoMem
    BY <1>4, <2>1 DEF Won, WorkInv, WorkOK, KeysOK
  <2>3. dedupe[req[c].dk] = NoMem
    BY <2>1, <2>2 DEF Inv, ClaimInv
  <2> QED
    BY <1>1, <1>2, <1>4, <2>1, <2>2, <2>3
<1> QED
  BY <1>3, <1>4

\* Only the one row the transaction holds is written.
LEMMA CommitWrites ==
  ASSUME Inv, NEW c \in Clients, Apply(c), NEW m \in Mems, Only(c, m), tx[c].rec[m] # NoRec
  PROVE  rec' = [rec EXCEPT ![m] = tx[c].rec[m]]
<1>1. rec \in [Mems -> Record \cup {NoRec}]
  BY DEF Inv, TypeInv, TypeOK
<1>2. rec' = [n \in Mems |-> Visible(c, n)]
  BY DEF Apply
<1>3. \A n \in Mems : Visible(c, n) = IF n = m THEN tx[c].rec[m] ELSE rec[n]
  BY DEF Visible, Only
<1> QED
  BY <1>1, <1>2, <1>3

-----------------------------------------------------------------------------
(* One lemma per call of Ledger. *)

\* WriteRecord.
LEMMA CommitIsWrite ==
  ASSUME Inv, WorkInv, PairedInv, NEW c \in Clients, Apply(c), req[c].op = "created"
  PROVE  \E m \in Mems : Atomic!Write(req[c], m)
<1> DEFINE q == req[c]
           r == FirstVersion(q)
<1>1. pc[c] = "commit" /\ q \in Requests /\ q.key # NoKey
  BY CallFacts DEF Apply
<1>2. PICK m \in Mems : Created(c, m)
  BY <1>1 DEF WorkInv, WorkOK, WrittenOK
<1>3. /\ q.mid \in {m, NoMem} /\ rec[m] = NoRec
      /\ tx[c].rec[m] = r /\ Only(c, m)
      /\ tx[c].events = {NewEvent(m, r, "created", q.key, NoMem)}
      /\ Stored(c, m, 1)
  BY <1>1, <1>2 DEF Created
<1>4. r # NoRec
  BY <1>1, CallFacts
<1>5. rec' = [rec EXCEPT ![m] = r]
  BY <1>3, <1>4, CommitWrites
<1>6. Atomic!Log({NewEvent(m, r, "created", q.key, NoMem)})
  BY <1>3, CommitLogs
<1>7. Atomic!Remember(q, m, 1)
  BY <1>3, CommitRemembers
<1>8. UNCHANGED dedupe
  BY CommitClaims DEF Won
<1>9. Atomic!Write(q, m)
  BY <1>3, <1>5, <1>6, <1>7, <1>8, SameOperators DEF Atomic!Write
<1> QED
  BY <1>9

\* The row a mutation changes, and the event it logs for the change.
LEMMA CommitChanges ==
  ASSUME Inv, WorkInv, NEW c \in Clients, Apply(c), NEW e \in tx[c].events, Changed(c, e),
         req[c].op \notin {"created", "access"}
  PROVE  Atomic!Change(req[c]) /\ e \in Atomic!ChangeEvents(req[c])
<1> DEFINE q == req[c]
           m == q.mid
           r == Applied(q, rec[m])
<1>1. q \in Requests /\ m \in Mems
  BY CallFacts DEF Apply
<1>2. /\ rec[m] # NoRec /\ rec[m].ver = q.ver
      /\ tx[c].rec[m] = r /\ Only(c, m)
      /\ CopyOf(e.snap, r) /\ e = NewEvent(m, e.snap, MutationType(q), NoKey, NoMem)
  BY DEF Changed
<1>3. r \in Record /\ NoRec \notin Record
  BY <1>1, <1>2, CallFacts, AppliedType
<1>4. rec' = [rec EXCEPT ![m] = r]
  BY <1>1, <1>2, <1>3, CommitWrites
<1>5. rec' = [rec EXCEPT ![m] = Atomic!Applied(q, @)]
  BY <1>4, SameOperators
<1>6. Atomic!Change(q)
  BY <1>2, <1>5 DEF Atomic!Change
<1>7. e.snap \in Atomic!Copies(Atomic!Applied(q, rec[m]))
  BY <1>2, SameOperators DEF CopyOf, Atomic!Copies
<1>8. e = Atomic!NewEvent(m, e.snap, Atomic!MutationType(q), NoKey, NoMem)
  BY <1>2, SameOperators
<1>9. e \in Atomic!ChangeEvents(q)
  BY <1>7, <1>8 DEF Atomic!ChangeEvents
<1> QED
  BY <1>6, <1>9

\* Patch, Delete, Pin, Disable and Promote.
LEMMA CommitIsMutate ==
  ASSUME Inv, WorkInv, PairedInv, NEW c \in Clients, Apply(c),
         req[c].op \notin {"created", "access", "dedupe"}
  PROVE  Atomic!Mutate(req[c])
<1> DEFINE q == req[c]
<1>1. pc[c] = "commit" /\ q \in Requests /\ q.mid \in Mems /\ ~Won(c)
  BY CallFacts DEF Apply, Won
<1>2. PICK e \in tx[c].events : Mutated(c, e)
  BY <1>1 DEF WorkInv, WorkOK, WrittenOK
<1>3. Changed(c, e) /\ tx[c].events = {e} /\ (q.key # NoKey => Stored(c, q.mid, q.ver + 1))
  BY <1>1, <1>2 DEF Mutated
<1>4. Atomic!Change(q) /\ e \in Atomic!ChangeEvents(q)
  BY <1>3, CommitChanges
<1>5. Atomic!Log({e})
  BY <1>3, CommitLogs
<1>6. q.ver + 1 \in Nat
  <2>1. rec[q.mid] \in Record /\ rec[q.mid].ver = q.ver
    BY <1>1, <1>3, CallFacts DEF Changed
  <2> QED
    BY <2>1 DEF Record
<1>7. Atomic!Remember(q, q.mid, q.ver + 1)
  BY <1>1, <1>3, <1>6, CommitRemembers
<1>8. UNCHANGED dedupe
  BY <1>1, CommitClaims
<1> QED
  BY <1>4, <1>5, <1>7, <1>8 DEF Atomic!Mutate

\* A transaction that has written nothing leaves rows, events and outbox alone.
LEMMA CommitNothing ==
  ASSUME Inv, WorkInv, PairedInv, NEW c \in Clients, Apply(c), tx[c].events = {}
  PROVE  /\ UNCHANGED <<events, outbox>>
         /\ EmptyTx(c) => UNCHANGED rec
<1>1. tx[c].outbox = {}
  BY DEF PairedInv, Paired
<1>2. UNCHANGED <<events, outbox>>
  BY <1>1 DEF Apply
<1>3. rec \in [Mems -> Record \cup {NoRec}]
  BY DEF Inv, TypeInv, TypeOK
<1>4. rec' = [m \in Mems |-> Visible(c, m)]
  BY DEF Apply
<1>5. EmptyTx(c) => rec' = [m \in Mems |-> rec[m]]
  BY <1>4 DEF EmptyTx, Visible
<1> QED
  BY <1>2, <1>3, <1>5

\* ResolveDedupe, first caller of the key.
LEMMA CommitIsWin ==
  ASSUME Inv, WorkInv, PairedInv, NEW c \in Clients, Apply(c), Won(c)
  PROVE  Atomic!Win(req[c])
<1>1. req[c].op = "dedupe" /\ EmptyTx(c)
  BY DEF Apply, Won, WorkInv, WorkOK, WrittenOK
<1>2. UNCHANGED <<rec, events, outbox>>
  BY <1>1, CommitNothing DEF EmptyTx
<1>3. UNCHANGED idem
  BY <1>1, CommitForgets
<1> QED
  BY <1>1, <1>2, <1>3, CommitClaims DEF Atomic!Win

\* ResolveDedupe, callers that come after it.
LEMMA CommitIsLose ==
  ASSUME Inv, WorkInv, PairedInv, NEW c \in Clients, Apply(c), req[c].op = "dedupe", ~Won(c)
  PROVE  Atomic!Lose(req[c])
<1> DEFINE q == req[c]
           w == dedupe[q.dk]
<1>1. pc[c] = "commit" /\ q \in Requests /\ q.dk \in DKeys
  BY CallFacts DEF Apply
<1>2. winner[c] = w /\ w # NoMem /\ w \in Mems
  BY <1>1 DEF WorkInv, WorkOK, KeysOK, Inv, TypeInv, TypeOK
<1>3. PICK e \in tx[c].events : Mutated(c, e)
  BY <1>1 DEF WorkInv, WorkOK, WrittenOK
<1>4. PICK f \in tx[c].events :
        /\ tx[c].events = {e, f} /\ Past(c, e, f.snap)
        /\ f = NewEvent(winner[c], f.snap, "collapsed", NoKey, q.mid)
  BY <1>1, <1>3 DEF Mutated
<1>5. Changed(c, e)
  BY <1>3 DEF Mutated
<1>6. Atomic!Change(q) /\ e \in Atomic!ChangeEvents(q)
  BY <1>5, CommitChanges
<1>7. Atomic!Log({e, f})
  BY <1>4, CommitLogs
<1>8. PICK g \in events \cup {e} :
        g.mid = w /\ CopyOf(f.snap, [g.snap EXCEPT !.hits = Visible(c, w).hits])
  BY <1>2, <1>4 DEF Past
<1>9. rec'[w] = Visible(c, w)
  BY <1>2 DEF Apply
<1>10. f.snap \in Atomic!Copies([g.snap EXCEPT !.hits = rec'[w].hits])
  BY <1>8, <1>9 DEF CopyOf, Atomic!Copies
<1>11. f = Atomic!NewEvent(w, f.snap, "collapsed", NoKey, q.mid)
  BY <1>2, <1>4, SameOperators
<1>12. \E past \in {h.snap : h \in {x \in events \cup {e} : x.mid = w}} :
         \E s \in Atomic!Copies([past EXCEPT !.hits = rec'[w].hits]) :
           Atomic!Log({e, Atomic!NewEvent(w, s, "collapsed", NoKey, q.mid)})
  <2> DEFINE P(s) == Atomic!Log({e, Atomic!NewEvent(w, s, "collapsed", NoKey, q.mid)})
             C(past) == Atomic!Copies([past EXCEPT !.hits = rec'[w].hits])
  <2>1. P(f.snap)
    BY <1>7, <1>11
  <2>2. f.snap \in C(g.snap)
    BY <1>10
  <2>3. g.snap \in {h.snap : h \in {x \in events \cup {e} : x.mid = w}}
    BY <1>8
  <2> HIDE DEF P, C
  <2>4. \E past \in {h.snap : h \in {x \in events \cup {e} : x.mid = w}} :
          \E s \in C(past) : P(s)
    BY <2>1, <2>2, <2>3, Zenon
  <2> QED
    BY <2>4 DEF P, C
<1>13. UNCHANGED <<idem, dedupe>>
  BY CommitForgets, CommitClaims
<1> QED
  BY <1>2, <1>6, <1>12, <1>13, Zenon DEF Atomic!Lose

\* MarkAccess: all rows it has found, and no row that is not there.
LEMMA CommitIsAccess ==
  ASSUME Inv, WorkInv, PairedInv, NEW c \in Clients, Apply(c), req[c].op = "access"
  PROVE  \E S \in SUBSET Mems : Atomic!Access(req[c], S)
<1> DEFINE q == req[c]
           S == {m \in Mems : tx[c].rec[m] # NoRec}
<1>1. Visited(c)
  BY DEF Apply, WorkInv, WorkOK, WrittenOK
<1>2. S \subseteq {q.ids[i] : i \in DOMAIN q.ids} /\ \A m \in S : rec[m] # NoRec
  BY <1>1 DEF Visited
<1>3. \A m \in Mems : Visible(c, m) = IF m \in S THEN [rec[m] EXCEPT !.hits = @ + 1] ELSE rec[m]
  BY <1>1 DEF Visited, Visible
<1>4. rec' = [m \in Mems |-> Visible(c, m)]
  BY DEF Apply
<1>5. rec' = [m \in Mems |-> IF m \in S THEN [rec[m] EXCEPT !.hits = @ + 1] ELSE rec[m]]
  BY <1>3, <1>4
<1>6. UNCHANGED <<events, outbox, idem, dedupe>>
  BY <1>1, CommitNothing, CommitForgets, CommitClaims DEF Visited, Won
<1>7. Atomic!Access(q, S)
  BY <1>2, <1>5, <1>6 DEF Atomic!Access
<1> QED
  BY <1>7

-----------------------------------------------------------------------------
(* The refinement. *)

\* The seeded tables are the same.
LEMMA InitLedger == Init => Atomic!Init
<1>1. Atomic!SeedRecords = SeedRecords
  BY DEF Atomic!SeedRecords, SeedRecords
<1>2. Atomic!SeedEvents = SeedEvents
  BY <1>1, SameOperators DEF Atomic!SeedEvents, SeedEvents
<1>3. {Atomic!EventKey(e) : e \in SeedEvents} = {EventKey(e) : e \in SeedEvents}
  BY SameOperators
<1> QED
  BY <1>1, <1>2, <1>3 DEF Init, NoTx, Atomic!Init

\* A COMMIT is one call of Ledger, a single statement is Note or Save, and no other
\* statement is seen.
LEMMA NextLedger ==
  Inv /\ WorkInv /\ PairedInv /\ [Next]_vars
    => [Atomic!Next]_<<rec, events, outbox, idem, dedupe>>
<1> SUFFICES ASSUME Inv, WorkInv, PairedInv, [Next]_vars
             PROVE  [Atomic!Next]_<<rec, events, outbox, idem, dedupe>>
  OBVIOUS
<1>1. ASSUME NEW c \in Clients, Apply(c)
      PROVE  Atomic!Next
  <2>1. req[c] \in Requests
    BY <1>1, CallFacts DEF Apply
  <2>2. CASE req[c].op = "created"
    BY <1>1, <2>1, <2>2, CommitIsWrite DEF Atomic!Next
  <2>3. CASE req[c].op = "access"
    BY <1>1, <2>1, <2>3, CommitIsAccess DEF Atomic!Next
  <2>4. CASE req[c].op = "dedupe"
    BY <1>1, <2>1, <2>4, CommitIsWin, CommitIsLose DEF Atomic!Next
  <2>5. CASE req[c].op \notin {"created", "access", "dedupe"}
    BY <1>1, <2>1, <2>5, CommitIsMutate DEF Atomic!Next
  <2> QED
    BY <2>2, <2>3, <2>4, <2>5
<1>2. ASSUME NEW c \in Clients, Commit(c) \/ CommitReplyLost(c)
      PROVE  Atomic!Next
  BY <1>1, <1>2 DEF Commit, CommitReplyLost
<1>3. ASSUME NEW e \in Appends, AppendEvent(e)
      PROVE  Atomic!Next
  <2>1. Atomic!Note(e)
    BY <1>3, SameOperators DEF AppendEvent, Atomic!Note
  <2> QED
    BY <2>1 DEF Atomic!Next
<1>4. ASSUME NEW s \in Saves, SaveIdempotency(s)
      PROVE  Atomic!Next
  <2>1. Atomic!Save(s)
    BY <1>4 DEF SaveIdempotency, Atomic!Save
  <2> QED
    BY <2>1 DEF Atomic!Next
<1>5. CASE UNCHANGED tables
  BY <1>5 DEF tables
<1>6. CASE UNCHANGED vars
  BY <1>5, <1>6 DEF vars
<1> QED
  BY <1>2, <1>3, <1>4, <1>5, <1>6, OnlyCommits

\* Store implements Ledger, for any clients, calls and crashes: a transaction has done
\* to the rows it holds what its call does in one step, the tables it has read move on
\* only in ways the call does not look at, and COMMIT applies it whole (mutateRecord,
\* WriteRecord, Promote, ResolveDedupe, MarkAccess).
THEOREM StoreImplementsLedger == Spec => ImplementsLedger
BY InitInv, NextInv, InitWork, NextWork, InitPaired, NextPaired, InitLedger, NextLedger, PTL
DEF Spec, ImplementsLedger, Atomic!Spec
=============================================================================

---------------------------- MODULE HistoryProofs ----------------------------
(***************************************************************************)
(* Proofs about what the committed tables say of the past: keys and the    *)
(* answers given for them, versions and the events that tell them.  Since  *)
(* Store implements Ledger, a step is one call on the committed tables.    *)
(***************************************************************************)
EXTENDS LedgerProofs, FiniteSetTheorems

-----------------------------------------------------------------------------
(***************************************************************************)
(* The steps of the tables.                                                *)
(***************************************************************************)

\* A record appears with the event of its creation, and its key is taken.
Appears(q, m) ==
  LET r == FirstVersion(q)
  IN  /\ q.key \in Keys /\ idem[q.key] = NoEntry /\ idem'[q.key] # NoEntry
      /\ rec[m] = NoRec /\ rec' = [rec EXCEPT ![m] = r]
      /\ events' = events \cup {NewEvent(m, r, "created", q.key, NoMem)}

\* f is a collapse event that describes its record as some event did, e included.
CollapseLike(e, f) ==
  /\ f \in Event /\ f.type = "collapsed" /\ f.ver = f.snap.ver
  /\ \E g \in events \cup {e} : g.mid = f.mid /\ g.snap.ver = f.ver

\* A record changes, with the event of the change and perhaps a collapse.
Changes(q, e) ==
  LET r == rec[q.mid]
  IN  /\ r # NoRec /\ r.ver = q.ver /\ rec' = [rec EXCEPT ![q.mid] = Applied(q, r)]
      /\ CopyOf(e.snap, Applied(q, r))
      /\ e = NewEvent(q.mid, e.snap, MutationType(q), NoKey, NoMem)
      /\ \/ events' = events \cup {e}
         \/ \E f \in events' : CollapseLike(e, f) /\ events' = events \cup {e, f}

\* Accesses are counted.
Counts(S) ==
  /\ \A m \in S : rec[m] # NoRec
  /\ rec' = [m \in Mems |-> IF m \in S THEN [rec[m] EXCEPT !.hits = @ + 1] ELSE rec[m]]
  /\ UNCHANGED events

\* A caller's own event.
Noted(e) == Appendable(e) /\ events' = events \cup {e} /\ UNCHANGED rec

TableStep ==
  \/ \E q \in Requests, m \in Mems : q.op = "created" /\ Appears(q, m)
  \/ \E q \in Requests : /\ q.op \notin {"created", "access"}
                         /\ \E e \in events' : Changes(q, e)
  \/ \E S \in SUBSET Mems : Counts(S)
  \/ \E e \in Appends : Noted(e)
  \/ UNCHANGED <<rec, events>>

\* The answer stored under a key names a record that has the version it names.
EntryFor(a) == rec[a.mid] # NoRec /\ rec[a.mid].ver >= a.ver

KeyStep ==
  \/ \E k \in Keys, a \in Entry :
       idem[k] = NoEntry /\ idem' = [idem EXCEPT ![k] = a] /\ EntryFor(a)'
  \/ \E s \in Saves : idem' = [idem EXCEPT ![s.key] = s.entry]
  \/ UNCHANGED idem

-----------------------------------------------------------------------------
(***************************************************************************)
(* The inductive invariants.                                               *)
(***************************************************************************)

\* The key of a creation is taken.
CreatedInv ==
  /\ OneCreatePerKey
  /\ \A e \in events : e.type = "created" /\ e.key # NoKey => idem[e.key] # NoEntry

\* What was answered for a key that callers leave alone is what is stored under it.
Unsaved(k) == \A s \in Saves : s.key # k
Tells(r, a) == r.hash = a.hash /\ r.mid = a.mid /\ r.ver = a.ver
ReplyInv ==
  /\ \A k \in Keys : Unsaved(k) /\ idem[k] # NoEntry => EntryFor(idem[k])
  /\ \A r \in replies : r.key \in Keys /\
       (Unsaved(r.key) => idem[r.key] # NoEntry /\ Tells(r, idem[r.key]))

\* A promotion that was told it made the change has taken its key.
PromotedInv ==
  /\ PromotedOnce
  /\ \A r \in replies : r.op = "promoted" /\ r.created => r.key \in Keys /\ idem[r.key] # NoEntry

\* A record that does not exist has no event of its own, and the others one for every
\* version.
Own(m) == {e \in events : e.mid = m /\ e.type # "collapsed"}
ChainInv ==
  \A m \in Mems :
    /\ IsFiniteSet(Own(m))
    /\ rec[m] = NoRec => Own(m) = {}
    /\ rec[m] # NoRec => /\ {e.ver : e \in Own(m)} = 1..rec[m].ver
                         /\ Cardinality(Own(m)) = rec[m].ver

\* No event is ahead of its record.
AheadInv ==
  \A e \in events : rec[e.mid] # NoRec /\ e.ver = e.snap.ver /\ e.ver <= rec[e.mid].ver

-----------------------------------------------------------------------------
(* Every step is a TableStep and a KeyStep. *)

\* What a call of Ledger logs for a change.
LEMMA LoggedChange ==
  ASSUME Inv, NEW q \in Requests, q.op \notin {"created", "access"}, Atomic!Change(q),
         NEW e \in Atomic!ChangeEvents(q),
         \/ events' = events \cup {e}
         \/ \E f \in events' : CollapseLike(e, f) /\ events' = events \cup {e, f}
  PROVE  TableStep
<1>1. /\ rec[q.mid] # NoRec /\ rec[q.mid].ver = q.ver
      /\ rec' = [rec EXCEPT ![q.mid] = Atomic!Applied(q, @)]
  BY DEF Atomic!Change
<1>2. rec' = [rec EXCEPT ![q.mid] = Applied(q, rec[q.mid])]
  BY <1>1, SameOperators
<1>3. PICK s \in Atomic!Copies(Atomic!Applied(q, rec[q.mid])) :
        e = Atomic!NewEvent(q.mid, s, Atomic!MutationType(q), NoKey, NoMem)
  BY DEF Atomic!ChangeEvents
<1>4. e = NewEvent(q.mid, s, MutationType(q), NoKey, NoMem) /\ e.snap = s
  BY <1>3, SameOperators DEF NewEvent
<1>5. CopyOf(s, Applied(q, rec[q.mid]))
  BY <1>3, SameOperators DEF CopyOf, Atomic!Copies
<1>6. Changes(q, e)
  BY <1>1, <1>2, <1>4, <1>5, Zenon DEF Changes
<1>7. e \in events'
  OBVIOUS
<1> QED
  BY <1>6, <1>7 DEF TableStep

\* Every step changes the tables as one call of Ledger does, or not at all.
LEMMA StepOfTables ==
  ASSUME Inv, Inv', WorkInv, PairedInv, [Next]_vars
  PROVE  TableStep
<1>1. ASSUME NEW q \in Requests, NEW m \in Mems, Atomic!Write(q, m)
      PROVE  TableStep
  <2> DEFINE r == FirstVersion(q)
  <2>1. /\ q.op = "created" /\ rec[m] = NoRec /\ rec' = [rec EXCEPT ![m] = r]
        /\ Atomic!Log({NewEvent(m, r, "created", q.key, NoMem)}) /\ Atomic!Remember(q, m, 1)
    BY <1>1, SameOperators DEF Atomic!Write
  <2>2. events' = events \cup {NewEvent(m, r, "created", q.key, NoMem)}
    BY <2>1 DEF Atomic!Log
  <2>3. q.key \in Keys /\ q.key # NoKey /\ q \in Keyed
    BY <2>1, RecordsAssumption
  <2>4. NewEntry(q, m, 1) \in Entry
    BY <2>3, NewEntryType
  <2>5. idem[q.key] = NoEntry
        /\ idem' = [idem EXCEPT ![q.key] = NewEntry(q, m, 1)]
    BY <2>1, <2>3, SameOperators DEF Atomic!Remember
  <2>6. idem'[q.key] # NoEntry
    BY <2>3, <2>4, <2>5, RecordsAssumption DEF Inv, TypeInv, TypeOK
  <2>7. Appears(q, m)
    BY <2>1, <2>2, <2>3, <2>5, <2>6 DEF Appears
  <2> QED
    BY <2>1, <2>7 DEF TableStep
<1>2. ASSUME NEW q \in Requests, Atomic!Mutate(q)
      PROVE  TableStep
  <2>1. q.op \notin {"created", "access"} /\ Atomic!Change(q)
    BY <1>2 DEF Atomic!Mutate
  <2>2. PICK e \in Atomic!ChangeEvents(q) : Atomic!Log({e})
    BY <1>2 DEF Atomic!Mutate
  <2>3. events' = events \cup {e}
    BY <2>2 DEF Atomic!Log
  <2> QED
    BY <2>1, <2>3, LoggedChange
<1>3. ASSUME NEW q \in Requests, Atomic!Lose(q)
      PROVE  TableStep
  <2> DEFINE w == dedupe[q.dk]
  <2>1. q.op = "dedupe" /\ Atomic!Change(q)
    BY <1>3, Zenon DEF Atomic!Lose
  <2>2. PICK e \in Atomic!ChangeEvents(q) :
          \E past \in {h.snap : h \in {g \in events \cup {e} : g.mid = w}} :
            \E s \in Atomic!Copies([past EXCEPT !.hits = rec'[w].hits]) :
              Atomic!Log({e, Atomic!NewEvent(w, s, "collapsed", NoKey, q.mid)})
    BY <1>3, Zenon DEF Atomic!Lose
  <2>3. PICK g \in events \cup {e} :
          /\ g.mid = w
          /\ \E s \in Atomic!Copies([g.snap EXCEPT !.hits = rec'[w].hits]) :
               Atomic!Log({e, Atomic!NewEvent(w, s, "collapsed", NoKey, q.mid)})
    BY <2>2
  <2>4. PICK h, s : /\ s = [[g.snap EXCEPT !.hits = rec'[w].hits] EXCEPT !.hits = h]
                    /\ Atomic!Log({e, Atomic!NewEvent(w, s, "collapsed", NoKey, q.mid)})
    BY <2>3 DEF Atomic!Copies
  <2> DEFINE f == NewEvent(w, s, "collapsed", NoKey, q.mid)
  <2>5. events' = events \cup {e, f}
    BY <2>4, SameOperators DEF Atomic!Log
  <2>6. e \in Event /\ f \in Event /\ g \in Event
    BY <2>5 DEF Inv, TypeInv, TypeOK
  <2>7. s.ver = g.snap.ver
    BY <2>4, <2>6 DEF Event, Record
  <2>8. CollapseLike(e, f)
    BY <2>3, <2>6, <2>7 DEF CollapseLike, NewEvent
  <2>9. \E x \in events' : CollapseLike(e, x) /\ events' = events \cup {e, x}
    BY <2>5, <2>8
  <2> QED
    BY <2>1, <2>9, LoggedChange
<1>4. ASSUME NEW q \in Requests, NEW S \in SUBSET Mems, Atomic!Access(q, S)
      PROVE  TableStep
  <2>1. Counts(S)
    BY <1>4 DEF Atomic!Access, Counts
  <2> QED
    BY <2>1 DEF TableStep
<1>5. ASSUME NEW e \in Appends, Atomic!Note(e)
      PROVE  TableStep
  <2>1. Noted(e)
    BY <1>5, SameOperators DEF Atomic!Note, Noted
  <2> QED
    BY <2>1 DEF TableStep
<1>6. CASE UNCHANGED <<rec, events>>
  BY <1>6 DEF TableStep
<1>7. CASE \/ \E q \in Requests : Atomic!Win(q)
           \/ \E s \in Saves : Atomic!Save(s)
  BY <1>6, <1>7 DEF Atomic!Win, Atomic!Save
<1> QED
  BY <1>1, <1>2, <1>3, <1>4, <1>5, <1>6, <1>7, NextLedger DEF Atomic!Next


\* An entry that a call stores is new, and names a version its record has.
LEMMA RememberedAnswer ==
  ASSUME NEW q \in Requests, NEW m \in Mems, NEW v \in Nat, Atomic!Remember(q, m, v),
         rec'[m] # NoRec, rec'[m].ver >= v
  PROVE  KeyStep
<1> DEFINE a == NewEntry(q, m, v)
<1>1. CASE q.key = NoKey
  BY <1>1 DEF Atomic!Remember, KeyStep
<1>2. CASE q.key # NoKey
  <2>1. q.key \in Keys /\ q \in Keyed
    BY <1>2, RecordsAssumption
  <2>2. a \in Entry /\ a.mid = m /\ a.ver = v
    BY <2>1, NewEntryType, NewEntryFields
  <2>3. idem[q.key] = NoEntry /\ idem' = [idem EXCEPT ![q.key] = a]
    BY <1>2, SameOperators DEF Atomic!Remember
  <2> HIDE DEF a
  <2>4. EntryFor(a)'
    BY <2>2 DEF EntryFor
  <2> QED
    BY <2>1, <2>2, <2>3, <2>4 DEF KeyStep
<1> QED
  BY <1>1, <1>2

\* Every step keeps the entries that are there and the versions they name.
LEMMA StepOfKeys ==
  ASSUME Inv, Inv', WorkInv, PairedInv, [Next]_vars
  PROVE  KeyStep
<1>1. rec \in [Mems -> Record \cup {NoRec}] /\ NoRec \notin Record
  BY RecordsAssumption DEF Inv, TypeInv, TypeOK
<1>2. ASSUME NEW q \in Requests, NEW m \in Mems, Atomic!Write(q, m)
      PROVE  KeyStep
  <2>1. q.op = "created" /\ Atomic!Remember(q, m, 1)
        /\ rec' = [rec EXCEPT ![m] = FirstVersion(q)]
    BY <1>2, SameOperators DEF Atomic!Write
  <2>2. FirstVersion(q) \in Record /\ FirstVersion(q).ver = 1
    BY <2>1, FirstVersionType
  <2>3. rec'[m] = FirstVersion(q)
    BY <1>1, <2>1
  <2> QED
    BY <1>1, <2>1, <2>2, <2>3, RememberedAnswer
<1>3. ASSUME NEW q \in Requests, Atomic!Mutate(q)
      PROVE  KeyStep
  <2>1. /\ q.op \notin {"created", "access"} /\ Atomic!Remember(q, q.mid, q.ver + 1)
        /\ rec[q.mid] # NoRec /\ rec[q.mid].ver = q.ver
        /\ rec' = [rec EXCEPT ![q.mid] = Applied(q, rec[q.mid])]
    BY <1>3, SameOperators DEF Atomic!Mutate, Atomic!Change
  <2>2. q.mid \in Mems
    BY <2>1, RecordsAssumption
  <2>3. rec[q.mid] \in Record /\ q.ver \in Nat
    BY <1>1, <2>1, <2>2 DEF Record
  <2>4. Applied(q, rec[q.mid]) \in Record /\ Applied(q, rec[q.mid]).ver = q.ver + 1
    BY <2>1, <2>3, AppliedFields
  <2>5. rec'[q.mid] = Applied(q, rec[q.mid])
    BY <1>1, <2>1, <2>2
  <2> QED
    BY <1>1, <2>1, <2>2, <2>3, <2>4, <2>5, RememberedAnswer
<1>4. CASE \E s \in Saves : Atomic!Save(s)
  BY <1>4 DEF Atomic!Save, KeyStep
<1>5. CASE UNCHANGED idem
  BY <1>5 DEF KeyStep
<1>6. CASE \/ \E q \in Requests : Atomic!Win(q) \/ Atomic!Lose(q)
                                  \/ \E S \in SUBSET Mems : Atomic!Access(q, S)
           \/ \E e \in Appends : Atomic!Note(e)
  <2>1. ASSUME NEW q \in Requests, Atomic!Lose(q)
        PROVE  UNCHANGED idem
    BY <2>1, Zenon DEF Atomic!Lose
  <2> QED
    BY <1>5, <1>6, <2>1 DEF Atomic!Win, Atomic!Access, Atomic!Note
<1> QED
  BY <1>2, <1>3, <1>4, <1>5, <1>6, NextLedger DEF Atomic!Next

-----------------------------------------------------------------------------
(* Idempotency keys. *)

\* A key that is taken stays taken.
LEMMA KeysStayTaken ==
  ASSUME Inv, KeyStep, NEW k \in Keys, idem[k] # NoEntry
  PROVE  idem'[k] # NoEntry
<1>1. idem \in [Keys -> Entry \cup {NoEntry}]
  BY DEF Inv, TypeInv, TypeOK
<1> QED
  BY <1>1, RecordsAssumption DEF KeyStep

\* A new event of a creation takes a key that was free.
LEMMA NextCreated ==
  ASSUME \A e \in Appends : Appendable(e) /\ e.type = "created" => e.key = NoKey,
         Inv, Inv', WorkInv, PairedInv, CreatedInv, [Next]_vars
  PROVE  CreatedInv'
<1>1. TableStep /\ KeyStep
  BY StepOfTables, StepOfKeys
<1>2. events \subseteq Event /\ \A e \in Event : e.key \in Keys \cup {NoKey}
  BY DEF Inv, TypeInv, TypeOK, Event
<1>3. \A k \in Keys : idem[k] # NoEntry => idem'[k] # NoEntry
  BY <1>1, KeysStayTaken
<1>4. ASSUME NEW q \in Requests, NEW m \in Mems, Appears(q, m)
      PROVE  CreatedInv'
  <2> DEFINE e == NewEvent(m, FirstVersion(q), "created", q.key, NoMem)
  <2>1. e.key = q.key
    BY DEF NewEvent
  <2>2. /\ q.key \in Keys /\ idem[q.key] = NoEntry /\ idem'[q.key] # NoEntry
        /\ events' = events \cup {e}
    BY <1>4 DEF Appears
  <2> HIDE DEF e
  <2>3. \A f \in events : f.type = "created" /\ f.key # NoKey => f.key # e.key
    BY <2>1, <2>2 DEF CreatedInv
  <2> QED
    BY <1>2, <1>3, <2>1, <2>2, <2>3 DEF CreatedInv, OneCreatePerKey
<1>5. ASSUME \A e \in events' \ events : e.type # "created" \/ e.key = NoKey
      PROVE  CreatedInv'
  <2>1. \A e \in events' : e.type = "created" /\ e.key # NoKey => e \in events
    BY <1>5
  <2> QED
    BY <1>2, <1>3, <2>1 DEF CreatedInv, OneCreatePerKey
<1>6. ASSUME NEW q \in Requests, NEW e \in events', Changes(q, e)
      PROVE  CreatedInv'
  <2>1. e.key = NoKey
    BY <1>6 DEF Changes, NewEvent
  <2>2. \A f \in events' \ events : f = e \/ f.type = "collapsed"
    BY <1>6 DEF Changes, CollapseLike
  <2> QED
    BY <1>5, <2>1, <2>2
<1>7. CASE (\E S \in SUBSET Mems : Counts(S)) \/ UNCHANGED <<rec, events>>
  BY <1>5, <1>7 DEF Counts
<1>8. CASE \E e \in Appends : Noted(e)
  BY <1>5, <1>8 DEF Noted
<1> QED
  BY <1>1, <1>4, <1>6, <1>7, <1>8 DEF TableStep

\* One key creates one record, for any number of callers that race with it or try again,
\* as long as no caller appends an event of a creation with a key itself: a creation
\* inserts its key with its event, and a key is never given back (WriteRecord).
THEOREM OneCreateForever ==
  ASSUME \A e \in Appends : Appendable(e) /\ e.type = "created" => e.key = NoKey
  PROVE  Spec => []OneCreatePerKey
<1>1. Init => CreatedInv
  BY DEF Init, CreatedInv, OneCreatePerKey, SeedEvents, NewEvent
<1>2. Inv /\ Inv' /\ WorkInv /\ PairedInv /\ CreatedInv /\ [Next]_vars => CreatedInv'
  BY NextCreated
<1>3. CreatedInv => OneCreatePerKey
  BY DEF CreatedInv
<1> QED
  BY <1>1, <1>2, <1>3, InitInv, NextInv, InitWork, NextWork, InitPaired, NextPaired, PTL
  DEF Spec


-----------------------------------------------------------------------------
(* Answers. *)

\* Rows stay and their versions never go back.
LEMMA RowsMoveOn ==
  ASSUME Inv, Inv', WorkInv, [Next]_vars, NEW m \in Mems, rec[m] # NoRec
  PROVE  rec'[m] # NoRec /\ rec'[m].ver >= rec[m].ver
<1>1. rec[m].ver \in Nat /\ (rec'[m] # NoRec => rec'[m].ver \in Nat)
  BY DEF Inv, TypeInv, TypeOK, Record
<1>2. ASSUME NEW c \in Clients, Apply(c)
      PROVE  rec'[m] # NoRec /\ rec'[m].ver >= rec[m].ver
  <2>1. MovesOn(m)
    BY <1>2, CommitMovesOn
  <2>2. rec'[m] # NoRec /\ (rec'[m].ver > rec[m].ver \/ rec'[m].ver = rec[m].ver)
    BY <2>1 DEF MovesOn
  <2> QED
    BY <1>1, <2>2
<1>3. CASE UNCHANGED rec
  BY <1>1, <1>3
<1> QED
  BY <1>2, <1>3, OnlyCommits
  DEF Commit, CommitReplyLost, AppendEvent, SaveIdempotency, tables, vars

\* What a call answers for its key is what it has stored, where nothing was.
LEMMA CommittedReply ==
  ASSUME Inv, WorkInv, NEW c \in Clients, Apply(c), req[c].op # "dedupe", req[c].key # NoKey
  PROVE  /\ req[c].key \in Keys /\ idem[req[c].key] = NoEntry
         /\ idem'[req[c].key] # NoEntry
         /\ idem'[req[c].key] = tx[c].idem[req[c].key]
         /\ tx[c].idem[req[c].key].hash = RequestHash(req[c])
<1> DEFINE q == req[c]
<1>1. /\ pc[c] = "commit" /\ q \in Requests /\ q \in Keyed /\ q.key \in Keys
      /\ q.op \in {"created", "promoted"}
  BY CallFacts, RecordsAssumption DEF Apply, Keyed
<1>2. ASSUME NEW m \in Mems, NEW v \in Nat, Stored(c, m, v)
      PROVE  /\ tx[c].idem[q.key] # NoEntry /\ tx[c].idem[q.key].hash = RequestHash(q)
             /\ idem[q.key] = NoEntry
  <2> DEFINE a == NewEntry(q, m, v)
  <2>1. a \in Entry /\ a.hash = RequestHash(q)
    BY <1>1, NewEntryType, NewEntryFields
  <2>2. tx[c].idem[q.key] = a
    BY <1>2 DEF Stored
  <2> HIDE DEF a
  <2>3. tx[c].idem[q.key] # NoEntry
    BY <2>1, <2>2, RecordsAssumption
  <2>4. idem[q.key] = NoEntry
    BY <1>1, <2>3 DEF WorkInv, WorkOK, KeysOK
  <2> QED
    BY <2>1, <2>2, <2>3, <2>4
<1>3. CASE q.op = "created"
  <2>1. PICK m \in Mems : Created(c, m)
    BY <1>1, <1>3 DEF WorkInv, WorkOK, WrittenOK
  <2>2. Stored(c, m, 1)
    BY <1>1, <2>1 DEF Created
  <2> QED
    BY <1>1, <1>2, <2>2 DEF Apply
<1>4. CASE q.op = "promoted"
  <2>1. PICK e \in tx[c].events : Mutated(c, e)
    BY <1>1, <1>4 DEF WorkInv, WorkOK, WrittenOK, Won
  <2>2. Stored(c, q.mid, q.ver + 1) /\ Changed(c, e)
    BY <1>1, <1>4, <2>1 DEF Mutated
  <2>3. q.mid \in Mems /\ rec[q.mid] \in Record /\ rec[q.mid].ver = q.ver
    BY <1>1, <1>4, <2>2, CallFacts DEF Changed
  <2>4. q.ver + 1 \in Nat
    BY <2>3 DEF Record
  <2> QED
    BY <1>1, <1>2, <2>2, <2>3, <2>4 DEF Apply
<1> QED
  BY <1>1, <1>3, <1>4

\* Who answers.
LEMMA WhoAnswers ==
  ASSUME Next, NEW r \in replies', r \notin replies
  PROVE  \/ \E c \in Clients : Commit(c) \/ LookupReplay(c)
         \/ \E k \in Keys : LoadIdempotency(k)
<1>1. ASSUME NEW c \in Clients, Statement(c), ~LookupReplay(c)
      PROVE  UNCHANGED replies
  BY <1>1
  DEF Statement, LookupMiss, LookupConflict, InsertRecord, InsertDuplicate,
      Load, LoadFails, Update, UpdateConflict, UpdateDuplicate, Claim, LockIndex, LoadWinner,
      LoadWinnerFails, Collapse, CollapseDuplicate, SaveIdem, SaveIdemDuplicate, AccessRow,
      AccessDone, DeadlockAbort, Fail, history
<1> QED
  BY <1>1
  DEF Next, Step, Begin, Abort, CommitReplyLost, Fail, AppendEvent, SaveIdempotency, history

\* What an answer says of itself.
LEMMA ReplyFields ==
  \A c, m, v, made :
    LET r == Reply(c, m, v, made)
    IN  /\ r.op = req[c].op /\ r.key = req[c].key /\ r.hash = RequestHash(req[c])
        /\ r.mid = m /\ r.ver = v /\ r.created = made
BY DEF Reply

\* Every new answer tells what the table holds for its key.
LEMMA NewReply ==
  ASSUME Inv, WorkInv, Next, NEW r \in replies', r \notin replies
  PROVE  /\ r.key \in Keys /\ idem'[r.key] # NoEntry
         /\ Tells(r, idem'[r.key])
<1>1. ASSUME NEW c \in Clients, Commit(c)
      PROVE  r.key \in Keys /\ idem'[r.key] # NoEntry /\ Tells(r, idem'[r.key])
  <2> DEFINE q == req[c]
             a == tx[c].idem[q.key]
  <2>1. /\ Apply(c) /\ q.op # "dedupe" /\ q.key # NoKey
        /\ replies' = replies \cup {Reply(c, a.mid, a.ver, TRUE)}
    BY <1>1, Zenon DEF Commit
  <2>2. q.key \in Keys /\ idem'[q.key] # NoEntry /\ idem'[q.key] = a /\ a.hash = RequestHash(q)
    BY <2>1, CommittedReply
  <2>3. r.key = q.key /\ r.hash = RequestHash(q) /\ r.mid = a.mid /\ r.ver = a.ver
    <3>1. r = Reply(c, a.mid, a.ver, TRUE)
      BY <2>1
    <3> QED
      BY <3>1 DEF Reply
  <2> HIDE DEF a
  <2> QED
    BY <2>2, <2>3 DEF Tells
<1>2. ASSUME NEW c \in Clients, LookupReplay(c)
      PROVE  r.key \in Keys /\ idem'[r.key] # NoEntry /\ Tells(r, idem'[r.key])
  <2> DEFINE q == req[c]
             a == idem[q.key]
  <2>1. /\ pc[c] = "lookup" /\ a # NoEntry /\ a.hash = RequestHash(q) /\ idem' = idem
        /\ r = Reply(c, a.mid, a.ver, CreatedOnReplay(q, a))
    BY <1>2 DEF LookupReplay, HashMatches, tables
  <2>2. q.key \in Keys
    BY <2>1, RecordsAssumption DEF Inv, CallInv, CallOK
  <2>3. r.key = q.key /\ r.hash = RequestHash(q) /\ r.mid = a.mid /\ r.ver = a.ver
    BY <2>1, ReplyFields
  <2> QED
    BY <2>1, <2>2, <2>3 DEF Tells
<1>3. ASSUME NEW k \in Keys, LoadIdempotency(k)
      PROVE  r.key \in Keys /\ idem'[r.key] # NoEntry /\ Tells(r, idem'[r.key])
  <2>1. /\ idem[k] # NoEntry /\ idem' = idem
        /\ r.key = k /\ r.hash = idem[k].hash /\ r.mid = idem[k].mid /\ r.ver = idem[k].ver
    BY <1>3 DEF LoadIdempotency, tables
  <2> QED
    BY <2>1 DEF Tells
<1> QED
  BY <1>1, <1>2, <1>3, WhoAnswers

\* Every step answers from an entry, or gives no answer.
LEMMA NextReplies ==
  ASSUME Inv, Inv', WorkInv, PairedInv, ReplyInv, [Next]_vars
  PROVE  ReplyInv'
<1>1. KeyStep
  BY StepOfKeys
<1>2. idem \in [Keys -> Entry \cup {NoEntry}] /\ \A a \in Entry : a.mid \in Mems /\ a.ver \in Nat
  BY DEF Inv, TypeInv, TypeOK, Entry
<1>3. ASSUME NEW k \in Keys, Unsaved(k), idem[k] # NoEntry
      PROVE  idem'[k] = idem[k]
  BY <1>1, <1>2, <1>3 DEF KeyStep, Unsaved
<1>4. ASSUME NEW k \in Keys, Unsaved(k), idem'[k] # NoEntry
      PROVE  EntryFor(idem[k])'
  <2>1. CASE idem[k] # NoEntry
    <3>1. rec[idem[k].mid] # NoRec /\ rec[idem[k].mid].ver >= idem[k].ver /\ idem[k] \in Entry
      BY <1>2, <1>4, <2>1 DEF ReplyInv, EntryFor
    <3>2. /\ rec'[idem[k].mid] # NoRec /\ rec'[idem[k].mid].ver >= rec[idem[k].mid].ver
          /\ rec[idem[k].mid].ver \in Nat /\ rec'[idem[k].mid].ver \in Nat /\ idem[k].ver \in Nat
      BY <1>2, <3>1, RowsMoveOn DEF Inv, TypeInv, TypeOK, Record
    <3>3. rec'[idem[k].mid].ver >= idem[k].ver
      BY <3>1, <3>2
    <3> QED
      BY <1>3, <1>4, <2>1, <3>2, <3>3 DEF EntryFor
  <2>2. CASE idem[k] = NoEntry
    <3>1. PICK a \in Entry : idem'[k] = a /\ EntryFor(a)'
      BY <1>1, <1>2, <1>4, <2>2 DEF KeyStep, Unsaved
    <3> QED
      BY <3>1 DEF EntryFor
  <2> QED
    BY <2>1, <2>2
<1>5. ASSUME NEW r \in replies'
      PROVE  /\ r.key \in Keys
             /\ Unsaved(r.key) => idem'[r.key] # NoEntry /\ Tells(r, idem'[r.key])
  <2>1. CASE r \in replies
    BY <1>3, <2>1 DEF ReplyInv
  <2>2. CASE r \notin replies
    BY <2>2, NewReply DEF vars, history
  <2> QED
    BY <2>1, <2>2
<1> QED
  BY <1>4, <1>5 DEF ReplyInv, Unsaved

\* All answers ever given for one key are for one request hash and name the same record
\* and version, and that record exists, for any callers, races and lost replies, as long as
\* callers save no entry under the key themselves: the entry of a key is inserted once,
\* together with the version it names, and every answer is read from it (WriteRecord,
\* Promote, LoadIdempotency). What hashes different requests share is not assumed.
THEOREM AnswersAgree == Spec => []RepliesAgree
<1>1. Init => ReplyInv
  BY DEF Init, NoTx, ReplyInv
<1>2. Inv /\ Inv' /\ WorkInv /\ PairedInv /\ ReplyInv /\ [Next]_vars => ReplyInv'
  BY NextReplies
<1>3. ReplyInv => RepliesAgree
  BY DEF ReplyInv, RepliesAgree, Unsaved, EntryFor, Tells
<1> QED
  BY <1>1, <1>2, <1>3, InitInv, NextInv, InitWork, NextWork, InitPaired, NextPaired, PTL
  DEF Spec

\* A step tells no call that it has promoted, or one call, whose key was free before.
LEMMA NewPromotion ==
  ASSUME Inv, WorkInv, Next
  PROVE  \/ \A r \in replies' : r.op = "promoted" /\ r.created => r \in replies
         \/ \E p : /\ replies' \subseteq replies \cup {p}
                  /\ p.key \in Keys /\ idem[p.key] = NoEntry /\ idem'[p.key] # NoEntry
<1>1. ASSUME NEW c \in Clients, Commit(c), replies' # replies
      PROVE  \E p : /\ replies' \subseteq replies \cup {p}
                   /\ p.key \in Keys /\ idem[p.key] = NoEntry /\ idem'[p.key] # NoEntry
  <2> DEFINE a == tx[c].idem[req[c].key]
             p == Reply(c, a.mid, a.ver, TRUE)
  <2>1. /\ Apply(c) /\ req[c].op # "dedupe" /\ req[c].key # NoKey
        /\ replies' = replies \cup {p}
    BY <1>1 DEF Commit
  <2>2. p.key = req[c].key
    BY DEF Reply
  <2> HIDE DEF a, p
  <2>3. p.key \in Keys /\ idem[p.key] = NoEntry /\ idem'[p.key] # NoEntry
    BY <2>1, <2>2, CommittedReply
  <2> QED
    BY <2>1, <2>3
<1>2. ASSUME ~\E c \in Clients : Commit(c), NEW r \in replies', r \notin replies
      PROVE  ~(r.op = "promoted" /\ r.created)
  <2>1. ASSUME NEW c \in Clients, LookupReplay(c)
        PROVE  ~(r.op = "promoted" /\ r.created)
    <3> DEFINE a == idem[req[c].key]
    <3>1. r = Reply(c, a.mid, a.ver, CreatedOnReplay(req[c], a))
      BY <1>2, <2>1 DEF LookupReplay
    <3>2. r.op = req[c].op /\ r.created = (req[c].op = "created" /\ a.created)
      BY <3>1, ReplyFields DEF CreatedOnReplay
    <3> QED
      BY <3>2
  <2>2. ASSUME NEW k \in Keys, LoadIdempotency(k)
        PROVE  r.op = "load"
    BY <1>2, <2>2 DEF LoadIdempotency
  <2> QED
    BY <1>2, <2>1, <2>2, WhoAnswers
<1> QED
  BY <1>1, <1>2

\* A promotion is told to one call at most of those that share a key.
LEMMA NextPromoted ==
  ASSUME Inv, Inv', WorkInv, PairedInv, PromotedInv, [Next]_vars
  PROVE  PromotedInv'
<1>1. \A k \in Keys : idem[k] # NoEntry => idem'[k] # NoEntry
  BY StepOfKeys, KeysStayTaken
<1>2. CASE \A r \in replies' : r.op = "promoted" /\ r.created => r \in replies
  BY <1>1, <1>2 DEF PromotedInv, PromotedOnce
<1>3. ASSUME NEW p, replies' \subseteq replies \cup {p},
             p.key \in Keys, idem[p.key] = NoEntry, idem'[p.key] # NoEntry
      PROVE  PromotedInv'
  <2>1. \A r \in replies : r.op = "promoted" /\ r.created => r.key # p.key
    BY <1>3 DEF PromotedInv
  <2> QED
    BY <1>1, <1>3, <2>1 DEF PromotedInv, PromotedOnce
<1>4. CASE UNCHANGED vars
  BY <1>2, <1>4 DEF vars, history
<1> QED
  BY <1>2, <1>3, <1>4, NewPromotion

\* However many calls of Promote share a key, race, retry after a lost COMMIT reply or meet
\* entries that callers save themselves, at most one of them is told that it made the
\* change: the call that is inserts the key where there was none, and a key that is taken
\* stays taken (Promote's Created).
THEOREM PromotedOnceForever == Spec => []PromotedOnce
<1>1. Init => PromotedInv
  BY DEF Init, PromotedInv, PromotedOnce
<1>2. Inv /\ Inv' /\ WorkInv /\ PairedInv /\ PromotedInv /\ [Next]_vars => PromotedInv'
  BY NextPromoted
<1>3. PromotedInv => PromotedOnce
  BY DEF PromotedInv
<1> QED
  BY <1>1, <1>2, <1>3, InitInv, NextInv, InitWork, NextWork, InitPaired, NextPaired, PTL
  DEF Spec


-----------------------------------------------------------------------------
(* Versions and events. *)

\* Callers append no events of changes themselves.
OnlyCollapsesAppended == \A e \in Appends : Appendable(e) => e.type = "collapsed"

\* What a change logs: an event of its own, for the version after the row's.
LEMMA ChangeFacts ==
  ASSUME Inv, Inv', NEW q \in Requests, q.op \notin {"created", "access"},
         NEW e \in events', Changes(q, e)
  PROVE  /\ q.mid \in Mems /\ rec[q.mid] \in Record /\ rec'[q.mid] = Applied(q, rec[q.mid])
         /\ rec[q.mid].ver \in Nat \ {0} /\ rec'[q.mid].ver = rec[q.mid].ver + 1
         /\ \A m \in Mems \ {q.mid} : rec'[m] = rec[m]
         /\ CopyOf(e.snap, rec'[q.mid]) /\ rec'[q.mid] \in Record
         /\ e.mid = q.mid /\ e.ver = rec'[q.mid].ver /\ e.ver = e.snap.ver
         /\ e.type = MutationType(q) /\ e.type # "collapsed"
         /\ events \subseteq events' /\ e \in events'
         /\ \A f \in events' : f \in events \/ f = e \/ CollapseLike(e, f)
<1>1. /\ q.mid \in Mems /\ MutationType(q) # "collapsed"
  BY RecordsAssumption DEF MutationType, EventTypes, Toggles
<1>2. /\ rec \in [Mems -> Record \cup {NoRec}] /\ rec[q.mid] # NoRec
      /\ rec' = [rec EXCEPT ![q.mid] = Applied(q, rec[q.mid])]
      /\ CopyOf(e.snap, Applied(q, rec[q.mid]))
      /\ e = NewEvent(q.mid, e.snap, MutationType(q), NoKey, NoMem)
      /\ events \subseteq events'
      /\ \A f \in events' : f \in events \/ f = e \/ CollapseLike(e, f)
  BY DEF Changes, Inv, TypeInv, TypeOK
<1>3. /\ rec[q.mid] \in Record /\ rec'[q.mid] = Applied(q, rec[q.mid])
      /\ \A m \in Mems \ {q.mid} : rec'[m] = rec[m]
  BY <1>1, <1>2
<1>4. /\ rec'[q.mid] \in Record /\ rec'[q.mid].ver = rec[q.mid].ver + 1
      /\ rec[q.mid].ver \in Nat \ {0}
  BY <1>3, AppliedFields DEF Record
<1>5. e.snap.ver = rec'[q.mid].ver
  BY <1>2, <1>3, <1>4, CopyFacts
<1>6. e.mid = q.mid /\ e.ver = e.snap.ver /\ e.type = MutationType(q)
  BY <1>2 DEF NewEvent
<1> QED
  BY <1>1, <1>2, <1>3, <1>4, <1>5, <1>6

\* What the first event of a record says.
LEMMA AppearFacts ==
  ASSUME Inv, NEW q \in Requests, q.op = "created", NEW m \in Mems, Appears(q, m)
  PROVE  /\ rec[m] = NoRec /\ rec'[m] = FirstVersion(q) /\ rec'[m] \in Record
         /\ rec'[m] # NoRec /\ rec'[m].ver = 1 /\ \A n \in Mems \ {m} : rec'[n] = rec[n]
         /\ \E e \in events' : /\ events' = events \cup {e} /\ e.snap = rec'[m]
                               /\ e.mid = m /\ e.ver = 1 /\ e.type = "created"
<1> DEFINE e == NewEvent(m, FirstVersion(q), "created", q.key, NoMem)
<1>1. /\ rec \in [Mems -> Record \cup {NoRec}] /\ rec[m] = NoRec
      /\ rec' = [rec EXCEPT ![m] = FirstVersion(q)] /\ events' = events \cup {e}
  BY DEF Appears, Inv, TypeInv, TypeOK
<1>2. FirstVersion(q) \in Record /\ FirstVersion(q).ver = 1
  BY FirstVersionType
<1>3. rec'[m] = FirstVersion(q) /\ \A n \in Mems \ {m} : rec'[n] = rec[n]
  BY <1>1
<1>4. e.snap = FirstVersion(q) /\ e.mid = m /\ e.ver = FirstVersion(q).ver /\ e.type = "created"
  BY DEF NewEvent
<1>5. e \in events'
  BY <1>1
<1> HIDE DEF e
<1> QED
  BY <1>1, <1>2, <1>3, <1>4, <1>5, RecordsAssumption

\* An access changes neither versions nor what exists.
LEMMA CountFacts ==
  ASSUME Inv, NEW S \in SUBSET Mems, Counts(S), NEW m \in Mems
  PROVE  /\ events' = events
         /\ rec[m] = NoRec => rec'[m] = NoRec
         /\ rec[m] # NoRec => /\ rec[m] \in Record /\ rec'[m] \in Record /\ rec'[m] # NoRec
                              /\ \/ rec'[m] = rec[m]
                                 \/ rec'[m] = [rec[m] EXCEPT !.hits = rec[m].hits + 1]
                              /\ rec'[m].ver = rec[m].ver
<1>1. rec[m] \in Record \cup {NoRec} /\ NoRec \notin Record
  BY RecordsAssumption DEF Inv, TypeInv, TypeOK
<1>2. rec'[m] = IF m \in S THEN [rec[m] EXCEPT !.hits = @ + 1] ELSE rec[m]
  BY DEF Counts
<1>3. CASE m \notin S
  BY <1>1, <1>2, <1>3 DEF Counts
<1>4. CASE m \in S
  <2>1. rec[m] \in Record /\ rec[m] # NoRec /\ rec[m].hits + 1 \in Nat
    BY <1>1, <1>4 DEF Counts, Record
  <2>2. rec'[m] = [rec[m] EXCEPT !.hits = rec[m].hits + 1]
    BY <1>2, <1>4
  <2>3. rec'[m] \in Record /\ rec'[m].ver = rec[m].ver
    BY <2>1, <2>2, WithHits
  <2> QED
    BY <1>1, <2>1, <2>2, <2>3 DEF Counts
<1> QED
  BY <1>3, <1>4

\* A record gains a version exactly with an event for it.
LEMMA NextChain ==
  ASSUME OnlyCollapsesAppended, Inv, Inv', WorkInv, PairedInv, ChainInv, [Next]_vars
  PROVE  ChainInv'
<1> SUFFICES ASSUME NEW m \in Mems
             PROVE  /\ IsFiniteSet(Own(m)')
                    /\ rec'[m] = NoRec => Own(m)' = {}
                    /\ rec'[m] # NoRec => /\ {e.ver : e \in Own(m)'} = 1..rec'[m].ver
                                          /\ Cardinality(Own(m)') = rec'[m].ver
  BY DEF ChainInv
<1>1. TableStep
  BY StepOfTables
<1>2. /\ IsFiniteSet(Own(m))
      /\ rec[m] = NoRec => Own(m) = {}
      /\ rec[m] # NoRec => /\ {e.ver : e \in Own(m)} = 1..rec[m].ver
                           /\ Cardinality(Own(m)) = rec[m].ver
  BY DEF ChainInv
<1>3. CASE /\ Own(m)' = Own(m) /\ (rec[m] = NoRec => rec'[m] = NoRec)
           /\ rec[m] # NoRec => rec'[m] # NoRec /\ rec'[m].ver = rec[m].ver
  BY <1>2, <1>3
<1>4. ASSUME NEW q \in Requests, NEW n \in Mems, q.op = "created", Appears(q, n)
      PROVE  /\ IsFiniteSet(Own(m)')
             /\ rec'[m] = NoRec => Own(m)' = {}
             /\ rec'[m] # NoRec => /\ {e.ver : e \in Own(m)'} = 1..rec'[m].ver
                                   /\ Cardinality(Own(m)') = rec'[m].ver
  <2>1. PICK e \in events' : /\ events' = events \cup {e} /\ e.mid = n /\ e.ver = 1
                             /\ e.type = "created"
    BY <1>4, AppearFacts
  <2>2. CASE m # n
    <3>1. Own(m)' = Own(m) /\ rec'[m] = rec[m]
      BY <1>4, <2>1, <2>2, AppearFacts DEF Own
    <3> QED
      BY <1>3, <3>1
  <2>3. CASE m = n
    <3>1. Own(m) = {} /\ rec'[m] # NoRec /\ rec'[m].ver = 1
      BY <1>2, <1>4, <2>3, AppearFacts
    <3>2. Own(m)' = {e}
      BY <2>1, <2>3, <3>1 DEF Own
    <3>3. IsFiniteSet({e}) /\ Cardinality({e}) = 1
      BY FS_Singleton
    <3> QED
      BY <2>1, <3>1, <3>2, <3>3
  <2> QED
    BY <2>2, <2>3
<1>5. ASSUME NEW q \in Requests, q.op \notin {"created", "access"},
             NEW e \in events', Changes(q, e)
      PROVE  /\ IsFiniteSet(Own(m)')
             /\ rec'[m] = NoRec => Own(m)' = {}
             /\ rec'[m] # NoRec => /\ {f.ver : f \in Own(m)'} = 1..rec'[m].ver
                                   /\ Cardinality(Own(m)') = rec'[m].ver
  <2>1. /\ rec[q.mid] \in Record /\ rec[q.mid].ver \in Nat \ {0}
        /\ rec'[q.mid] \in Record /\ rec'[q.mid].ver = rec[q.mid].ver + 1
        /\ \A n \in Mems \ {q.mid} : rec'[n] = rec[n]
        /\ e.mid = q.mid /\ e.ver = rec'[q.mid].ver /\ e.type # "collapsed"
        /\ events \subseteq events' /\ e \in events'
        /\ \A f \in events' : f \in events \/ f = e \/ f.type = "collapsed"
    BY <1>5, ChangeFacts DEF CollapseLike
  <2>2. CASE m # q.mid
    <3>1. Own(m)' = Own(m) /\ rec'[m] = rec[m]
      BY <2>1, <2>2 DEF Own
    <3> QED
      BY <1>3, <3>1
  <2>3. CASE m = q.mid
    <3>1. Own(m)' = Own(m) \cup {e}
      BY <2>1, <2>3 DEF Own
    <3>2. {f.ver : f \in Own(m)} = 1..rec[m].ver /\ Cardinality(Own(m)) = rec[m].ver
      BY <1>2, <2>1, <2>3, RecordsAssumption
    <3>3. e \notin Own(m)
      <4>1. \A f \in Own(m) : f.ver \in 1..rec[m].ver
        BY <3>2
      <4>2. e.ver \notin 1..rec[m].ver
        BY <2>1, <2>3
      <4> QED
        BY <4>1, <4>2
    <3>4. IsFiniteSet(Own(m)') /\ Cardinality(Own(m)') = Cardinality(Own(m)) + 1
      BY <1>2, <3>1, <3>3, FS_AddElement
    <3>5. {f.ver : f \in Own(m)'} = {f.ver : f \in Own(m)} \cup {e.ver}
      BY <3>1
    <3>6. {f.ver : f \in Own(m)'} = 1..rec'[m].ver
      BY <2>1, <2>3, <3>2, <3>5
    <3> QED
      BY <2>1, <2>3, <3>2, <3>4, <3>6, RecordsAssumption
  <2> QED
    BY <2>2, <2>3
<1>6. ASSUME NEW S \in SUBSET Mems, Counts(S)
      PROVE  /\ Own(m)' = Own(m) /\ (rec[m] = NoRec => rec'[m] = NoRec)
             /\ rec[m] # NoRec => rec'[m] # NoRec /\ rec'[m].ver = rec[m].ver
  BY <1>6, CountFacts DEF Own
<1>7. ASSUME NEW e \in Appends, Noted(e)
      PROVE  Own(m)' = Own(m) /\ rec' = rec
  BY <1>7 DEF Noted, OnlyCollapsesAppended, Own
<1>8. CASE UNCHANGED <<rec, events>>
  BY <1>3, <1>8 DEF Own
<1> QED
  BY <1>1, <1>3, <1>4, <1>5, <1>6, <1>7, <1>8 DEF TableStep


\* The seeded records have the event of their creation.
LEMMA InitChain == Init => ChainInv
<1> SUFFICES ASSUME Init, NEW m \in Mems
             PROVE  /\ IsFiniteSet(Own(m))
                    /\ rec[m] = NoRec => Own(m) = {}
                    /\ rec[m] # NoRec => /\ {e.ver : e \in Own(m)} = 1..rec[m].ver
                                         /\ Cardinality(Own(m)) = rec[m].ver
  BY DEF ChainInv
<1>1. rec = SeedRecords /\ events = SeedEvents
  BY DEF Init
<1>2. CASE m \in DOMAIN Seed
  <2> DEFINE e == NewEvent(m, SeedRecords[m], "created", NoKey, NoMem)
  <2>1. rec[m] = Seed[m] /\ rec[m] \in Record /\ rec[m].ver = 1
    BY <1>1, <1>2, RecordsAssumption DEF SeedRecords
  <2>2. Own(m) = {e} /\ e.ver = 1
    <3>1. \A n : NewEvent(n, SeedRecords[n], "created", NoKey, NoMem).mid = n
                 /\ NewEvent(n, SeedRecords[n], "created", NoKey, NoMem).type = "created"
      BY DEF NewEvent
    <3>2. e.ver = 1
      BY <1>1, <2>1 DEF NewEvent
    <3> QED
      BY <1>1, <1>2, <3>1, <3>2 DEF Own, SeedEvents
  <2> HIDE DEF e
  <2>3. IsFiniteSet({e}) /\ Cardinality({e}) = 1
    BY FS_Singleton
  <2> QED
    BY <2>1, <2>2, <2>3, RecordsAssumption
<1>3. CASE m \notin DOMAIN Seed
  <2>1. rec[m] = NoRec
    BY <1>1, <1>3 DEF SeedRecords
  <2>2. Own(m) = {}
    BY <1>1, <1>3 DEF Own, SeedEvents, NewEvent
  <2> QED
    BY <2>1, <2>2, FS_EmptySet
<1> QED
  BY <1>2, <1>3

\* The events of a record number its versions without gap or repetition, for any writers
\* that load the same version: each UPDATE finds the version its caller loaded, moves it
\* on by one and inserts the event with it (mutateRecordTx, Promote, WriteRecord).
THEOREM VersionsChained ==
  ASSUME OnlyCollapsesAppended
  PROVE  Spec => []VersionChain
<1>1. Inv /\ Inv' /\ WorkInv /\ PairedInv /\ ChainInv /\ [Next]_vars => ChainInv'
  BY NextChain
<1>2. ChainInv => VersionChain
  BY DEF ChainInv, VersionChain, Own
<1> QED
  BY <1>1, <1>2, InitChain, InitInv, NextInv, InitWork, NextWork, InitPaired, NextPaired, PTL
  DEF Spec

\* No event gets ahead of its record.
LEMMA NextAhead ==
  ASSUME \A e \in Appends : ~Appendable(e),
         Inv, Inv', WorkInv, PairedInv, AheadInv, [Next]_vars
  PROVE  AheadInv'
<1>1. TableStep
  BY StepOfTables
<1>2. events \subseteq Event /\ events' \subseteq Event
      /\ \A e \in Event : e.mid \in Mems /\ e.ver \in Nat
  BY DEF Inv, TypeInv, TypeOK, Event
<1>3. ASSUME NEW e \in events
      PROVE  rec'[e.mid] # NoRec /\ e.ver = e.snap.ver /\ e.ver <= rec'[e.mid].ver
  <2>1. e.mid \in Mems /\ e.ver \in Nat /\ rec[e.mid] # NoRec /\ e.ver = e.snap.ver
        /\ e.ver <= rec[e.mid].ver
    BY <1>2 DEF AheadInv
  <2>2. rec'[e.mid] # NoRec /\ rec'[e.mid].ver >= rec[e.mid].ver
        /\ rec[e.mid].ver \in Nat /\ rec'[e.mid].ver \in Nat
    BY <2>1, RowsMoveOn DEF Inv, TypeInv, TypeOK, Record
  <2> QED
    BY <2>1, <2>2
<1>4. ASSUME NEW q \in Requests, NEW m \in Mems, q.op = "created", Appears(q, m)
      PROVE  AheadInv'
  <2>1. PICK e \in events' : /\ events' = events \cup {e} /\ e.snap = rec'[m]
                             /\ e.mid = m /\ e.ver = 1
    BY <1>4, AppearFacts
  <2>2. rec'[m] # NoRec /\ rec'[m].ver = 1
    BY <1>4, AppearFacts
  <2> QED
    BY <1>3, <2>1, <2>2 DEF AheadInv
<1>5. ASSUME NEW q \in Requests, q.op \notin {"created", "access"},
             NEW e \in events', Changes(q, e)
      PROVE  AheadInv'
  <2>1. /\ rec'[q.mid] \in Record /\ rec'[q.mid].ver \in Nat /\ e.mid = q.mid
        /\ e.ver = rec'[q.mid].ver /\ e.ver = e.snap.ver
        /\ \A f \in events' : f \in events \/ f = e \/ CollapseLike(e, f)
    BY <1>5, ChangeFacts DEF Record
  <2>2. rec'[e.mid] # NoRec /\ e.ver <= rec'[e.mid].ver
    BY <2>1, RecordsAssumption
  <2>3. ASSUME NEW f \in events', CollapseLike(e, f)
        PROVE  rec'[f.mid] # NoRec /\ f.ver = f.snap.ver /\ f.ver <= rec'[f.mid].ver
    <3>1. PICK g \in events \cup {e} : g.mid = f.mid /\ g.snap.ver = f.ver /\ f.ver = f.snap.ver
      BY <2>3 DEF CollapseLike
    <3> QED
      BY <1>3, <2>1, <2>2, <3>1
  <2> QED
    BY <1>3, <2>1, <2>2, <2>3 DEF AheadInv
<1>6. CASE UNCHANGED events
  BY <1>3, <1>6 DEF AheadInv
<1> QED
  BY <1>1, <1>4, <1>5, <1>6 DEF TableStep, Counts, Noted

\* The session list names an event of the record's own version, for any collapses next to
\* it, as long as no caller appends events itself: a collapse describes the winner as some
\* event has, and no event is ahead of its record (ListSessionWorking, ResolveDedupe).
THEOREM SessionListsStayCurrent ==
  ASSUME \A e \in Appends : ~Appendable(e)
  PROVE  Spec => []SessionListsCurrent
<1>1. Init => AheadInv
  <2> SUFFICES ASSUME Init, NEW m \in DOMAIN Seed,
                      NEW e, e = NewEvent(m, SeedRecords[m], "created", NoKey, NoMem)
               PROVE  rec[e.mid] # NoRec /\ e.ver = e.snap.ver /\ e.ver <= rec[e.mid].ver
    BY DEF Init, AheadInv, SeedEvents
  <2>1. m \in Mems /\ SeedRecords[m] \in Record /\ rec = SeedRecords
    BY RecordsAssumption DEF Init, SeedRecords
  <2>2. e.mid = m /\ e.ver = SeedRecords[m].ver /\ e.snap = SeedRecords[m]
    BY DEF NewEvent
  <2>3. SeedRecords[m].ver \in Nat
    BY <2>1 DEF Record
  <2> QED
    BY <2>1, <2>2, <2>3, RecordsAssumption
<1>2. Inv /\ Inv' /\ WorkInv /\ PairedInv /\ AheadInv /\ [Next]_vars => AheadInv'
  BY NextAhead
<1>3. Inv /\ Inv' /\ WorkInv /\ PairedInv /\ ChainInv /\ [Next]_vars => ChainInv'
  BY NextChain DEF OnlyCollapsesAppended
<1>4. Inv /\ ChainInv /\ AheadInv => SessionListsCurrent
  <2> SUFFICES ASSUME Inv, ChainInv, AheadInv, NEW m \in Mems, rec[m] # NoRec
               PROVE  Latest(m) # {} /\ \A e \in Latest(m) : e.ver = rec[m].ver
    BY DEF SessionListsCurrent, Listed, Readable
  <2>1. rec[m].ver \in Nat \ {0} /\ \A e \in events : e.ver \in Nat
    BY DEF Inv, TypeInv, TypeOK, Record, Event
  <2>2. PICK e \in events : e.mid = m /\ e.ver = rec[m].ver
    <3>1. rec[m].ver \in {e.ver : e \in Own(m)}
      BY <2>1 DEF ChainInv
    <3> QED
      BY <3>1 DEF Own
  <2>3. \A f \in events : f.mid = m => f.ver <= rec[m].ver
    BY DEF AheadInv
  <2> QED
    BY <2>1, <2>2, <2>3 DEF Latest
<1> QED
  BY <1>1, <1>2, <1>3, <1>4, InitChain, InitInv, NextInv, InitWork, NextWork, InitPaired,
     NextPaired, PTL
  DEF Spec


-----------------------------------------------------------------------------
(* Records from their events. *)

\* A record but for its counter.
Bare(r) == [r EXCEPT !.hits = 0]

\* Records that are equal but for the counter have the same other fields.
LEMMA BareFields ==
  ASSUME NEW r \in Record, NEW s \in Record, Bare(r) = Bare(s)
  PROVE  /\ r.ver = s.ver /\ r.content = s.content /\ r.kind = s.kind /\ r.from = s.from
         /\ r.pinned = s.pinned /\ r.disabled = s.disabled /\ r.deleted = s.deleted
<1>1. /\ Bare(r).ver = r.ver /\ Bare(r).content = r.content /\ Bare(r).kind = r.kind
      /\ Bare(r).from = r.from /\ Bare(r).pinned = r.pinned
      /\ Bare(r).disabled = r.disabled /\ Bare(r).deleted = r.deleted
  BY WithHits DEF Bare
<1>2. /\ Bare(s).ver = s.ver /\ Bare(s).content = s.content /\ Bare(s).kind = s.kind
      /\ Bare(s).from = s.from /\ Bare(s).pinned = s.pinned
      /\ Bare(s).disabled = s.disabled /\ Bare(s).deleted = s.deleted
  BY WithHits DEF Bare
<1> QED
  BY <1>1, <1>2, Zenon

\* Records with the same other fields are equal but for the counter.
LEMMA BareIf ==
  ASSUME NEW r \in Record, NEW s \in Record,
         r.ver = s.ver, r.content = s.content, r.kind = s.kind, r.from = s.from,
         r.pinned = s.pinned, r.disabled = s.disabled, r.deleted = s.deleted
  PROVE  Bare(r) = Bare(s)
<1>1. /\ Bare(r) \in Record /\ Bare(r).hits = 0
      /\ Bare(r).ver = r.ver /\ Bare(r).content = r.content /\ Bare(r).kind = r.kind
      /\ Bare(r).from = r.from /\ Bare(r).pinned = r.pinned
      /\ Bare(r).disabled = r.disabled /\ Bare(r).deleted = r.deleted
  BY WithHits DEF Bare
<1>2. /\ Bare(s) \in Record /\ Bare(s).hits = 0
      /\ Bare(s).ver = s.ver /\ Bare(s).content = s.content /\ Bare(s).kind = s.kind
      /\ Bare(s).from = s.from /\ Bare(s).pinned = s.pinned
      /\ Bare(s).disabled = s.disabled /\ Bare(s).deleted = s.deleted
  BY WithHits DEF Bare
<1>3. /\ Bare(r).pinned = Bare(s).pinned /\ Bare(r).disabled = Bare(s).disabled
      /\ Bare(r).deleted = Bare(s).deleted
  BY <1>1, <1>2, Zenon
<1>4. /\ Bare(r).hits = Bare(s).hits /\ Bare(r).ver = Bare(s).ver
      /\ Bare(r).content = Bare(s).content /\ Bare(r).kind = Bare(s).kind
      /\ Bare(r).from = Bare(s).from
  BY <1>1, <1>2, Zenon
<1> QED
  BY <1>1, <1>2, <1>3, <1>4, SameRecord

\* A copy differs in the counter only.
LEMMA BareCopy ==
  ASSUME NEW s \in Record, NEW r, CopyOf(r, s)
  PROVE  Bare(r) = Bare(s)
BY CopyFacts, BareIf

\* A call makes the same of records that differ in the counter only.
LEMMA BareApplied ==
  ASSUME NEW q \in Requests, q.op \notin {"created", "access"},
         NEW r \in Record, NEW s \in Record, Bare(r) = Bare(s)
  PROVE  Bare(Applied(q, r)) = Bare(Applied(q, s))
<1> DEFINE a == Applied(q, r)
           b == Applied(q, s)
<1>1. /\ r.ver = s.ver /\ r.content = s.content /\ r.kind = s.kind /\ r.from = s.from
      /\ r.pinned = s.pinned /\ r.disabled = s.disabled /\ r.deleted = s.deleted
  BY BareFields
<1>2. a \in Record /\ b \in Record /\ a.ver = r.ver + 1 /\ b.ver = s.ver + 1
  BY AppliedFields
<1>3. a.content = b.content /\ a.kind = b.kind /\ a.from = b.from
  BY <1>1, AppliedFields
<1>4. a.pinned = b.pinned /\ a.disabled = b.disabled /\ a.deleted = b.deleted
  BY <1>1, AppliedFields
<1> HIDE DEF a, b
<1>5. Bare(a) = Bare(b)
  BY <1>1, <1>2, <1>3, <1>4, BareIf
<1> QED
  BY <1>5 DEF a, b

\* The type of a call and its value are all that it makes of a record.
LEMMA AppliedByType ==
  ASSUME NEW q \in Requests, q.op \notin {"created", "access"}, NEW r \in Record
  PROVE  \E v \in Values \cup {Blank} :
           Applied(q, r) = Applied([op |-> MutationType(q), val |-> v], r)
<1> DEFINE type == MutationType(q)
<1>1. type # "dedupe"
  BY RecordsAssumption DEF MutationType, EventTypes, Toggles
<1>2. ASSUME NEW v \in Values \cup {Blank}, type \in {"updated", "promoted"} => v = q.val
      PROVE  Applied(q, r) = Applied([op |-> type, val |-> v], r)
  <2> DEFINE p == [op |-> type, val |-> v]
  <2>1. MutationType(p) = type /\ p.val = v
    BY <1>1 DEF MutationType
  <2> HIDE DEF p, type
  <2>2. (IF type = "updated" /\ q.val # Blank THEN q.val ELSE r.content)
        = (IF MutationType(p) = "updated" /\ p.val # Blank THEN p.val ELSE r.content)
    BY <1>2, <2>1
  <2>3. (IF type = "promoted" THEN q.val ELSE r.from)
        = (IF MutationType(p) = "promoted" THEN p.val ELSE r.from)
    BY <1>2, <2>1
  <2>4. Applied(q, r) = Applied(p, r)
    BY <2>1, <2>2, <2>3 DEF Applied, type
  <2> QED
    BY <2>4 DEF p
<1>3. CASE type \in {"updated", "promoted"}
  <2>1. q.val \in Values \cup {Blank}
    BY <1>3, RecordsAssumption DEF MutationType
  <2> QED
    BY <1>2, <2>1
<1>4. CASE type \notin {"updated", "promoted"}
  BY <1>2, <1>4
<1> QED
  BY <1>3, <1>4

\* The event is what the version before it became, and describes its record if it is the
\* last one.
Explained(e) ==
  e.ver > 1 => \E f \in events, v \in Values \cup {Blank} :
    /\ f.mid = e.mid /\ f.type # "collapsed" /\ f.ver + 1 = e.ver
    /\ Bare(e.snap) = Bare(Applied([op |-> e.type, val |-> v], f.snap))
Described(e) == rec[e.mid].ver = e.ver => Bare(rec[e.mid]) = Bare(e.snap)
ExplainInv == \A e \in events : e.type # "collapsed" => Explained(e) /\ Described(e)

\* Every step keeps each event explained and each record described.
LEMMA NextExplains ==
  ASSUME OnlyCollapsesAppended, Inv, Inv', WorkInv, PairedInv, ChainInv, ExplainInv,
         [Next]_vars
  PROVE  ExplainInv'
<1>1. TableStep
  BY StepOfTables
<1>2. events \subseteq Event /\ \A e \in Event : e.mid \in Mems /\ e.snap \in Record
  BY DEF Inv, TypeInv, TypeOK, Event
<1>3. ASSUME NEW e \in events, e.type # "collapsed"
      PROVE  /\ e.mid \in Mems /\ rec[e.mid] # NoRec /\ rec[e.mid] \in Record
             /\ e.ver \in 1..rec[e.mid].ver
             /\ events \subseteq events' => Explained(e)'
  <2>1. e \in Own(e.mid) /\ e.mid \in Mems
    BY <1>2, <1>3 DEF Own
  <2>2. rec[e.mid] # NoRec /\ e.ver \in 1..rec[e.mid].ver
    BY <2>1 DEF ChainInv
  <2>3. Explained(e)
    BY <1>3 DEF ExplainInv
  <2>4. events \subseteq events' => Explained(e)'
    BY <2>3 DEF Explained
  <2> QED
    BY <2>1, <2>2, <2>4 DEF Inv, TypeInv, TypeOK
<1>4. CASE /\ events \subseteq events'
           /\ \A e \in events' \ events : e.type = "collapsed"
           /\ \A m \in Mems : rec[m] # NoRec =>
                rec'[m].ver = rec[m].ver /\ Bare(rec'[m]) = Bare(rec[m])
  <2>1. ASSUME NEW e \in events, e.type # "collapsed"
        PROVE  Explained(e)' /\ Described(e)'
    <3>1. Described(e)
      BY <2>1 DEF ExplainInv
    <3>2. Described(e)'
      BY <1>3, <1>4, <2>1, <3>1 DEF Described
    <3> QED
      BY <1>3, <1>4, <2>1, <3>2
  <2> QED
    BY <1>4, <2>1 DEF ExplainInv
<1>5. ASSUME NEW q \in Requests, NEW m \in Mems, q.op = "created", Appears(q, m)
      PROVE  ExplainInv'
  <2>1. PICK e \in events' : /\ events' = events \cup {e} /\ e.snap = rec'[m]
                             /\ e.mid = m /\ e.ver = 1
    BY <1>5, AppearFacts
  <2>2. rec[m] = NoRec /\ \A n \in Mems \ {m} : rec'[n] = rec[n]
    BY <1>5, AppearFacts
  <2>3. Explained(e)' /\ Described(e)'
    BY <2>1 DEF Explained, Described
  <2>4. ASSUME NEW f \in events, f.type # "collapsed"
        PROVE  Explained(f)' /\ Described(f)'
    <3>1. Described(f) /\ rec'[f.mid] = rec[f.mid]
      BY <1>3, <2>2, <2>4 DEF ExplainInv
    <3>2. Described(f)'
      BY <3>1 DEF Described
    <3> QED
      BY <1>3, <2>1, <2>4, <3>2
  <2> QED
    BY <2>1, <2>3, <2>4 DEF ExplainInv
<1>6. ASSUME NEW q \in Requests, q.op \notin {"created", "access"},
             NEW e \in events', Changes(q, e)
      PROVE  ExplainInv'
  <2> DEFINE m == q.mid
  <2>1. /\ m \in Mems /\ rec[m] \in Record /\ rec'[m] = Applied(q, rec[m])
        /\ rec[m].ver \in Nat \ {0} /\ rec'[m].ver = rec[m].ver + 1
        /\ \A n \in Mems \ {m} : rec'[n] = rec[n]
        /\ CopyOf(e.snap, rec'[m]) /\ rec'[m] \in Record
        /\ e.mid = m /\ e.ver = rec'[m].ver /\ e.type = MutationType(q)
        /\ events \subseteq events'
        /\ \A f \in events' : f \in events \/ f = e \/ f.type = "collapsed"
    BY <1>6, ChangeFacts DEF CollapseLike
  <2>2. Bare(e.snap) = Bare(rec'[m])
    BY <2>1, BareCopy
  <2>3. PICK f \in Own(m) : f.ver = rec[m].ver
    <3>1. rec[m].ver \in {f.ver : f \in Own(m)}
      BY <2>1, RecordsAssumption DEF ChainInv
    <3> QED
      BY <3>1
  <2>4. f \in events /\ f.mid = m /\ f.type # "collapsed" /\ f.snap \in Record
    BY <1>2, <2>3 DEF Own
  <2>5. Bare(rec[m]) = Bare(f.snap)
    BY <2>3, <2>4 DEF ExplainInv, Described
  <2>6. Bare(e.snap) = Bare(Applied(q, f.snap))
    BY <1>6, <2>1, <2>2, <2>4, <2>5, BareApplied
  <2>7. PICK v \in Values \cup {Blank} :
          Applied(q, f.snap) = Applied([op |-> MutationType(q), val |-> v], f.snap)
    BY <1>6, <2>4, AppliedByType
  <2>8. Bare(e.snap) = Bare(Applied([op |-> e.type, val |-> v], f.snap))
    BY <2>1, <2>6, <2>7
  <2>9. f.mid = e.mid /\ f.ver + 1 = e.ver /\ f \in events'
    BY <2>1, <2>3, <2>4
  <2>10. Explained(e)'
    BY <2>4, <2>8, <2>9, Zenon DEF Explained
  <2>11. Described(e)'
    BY <2>1, <2>2 DEF Described
  <2>12. ASSUME NEW x \in events, x.type # "collapsed"
         PROVE  Explained(x)' /\ Described(x)'
    <3>1. Described(x) /\ x.mid \in Mems /\ x.ver \in 1..rec[x.mid].ver
      BY <1>3, <2>12 DEF ExplainInv
    <3>2. Described(x)'
      <4>1. CASE x.mid = m
        <5>1. rec'[x.mid].ver # x.ver
          BY <2>1, <3>1, <4>1
        <5> QED
          BY <5>1 DEF Described
      <4>2. CASE x.mid # m
        <5>1. rec'[x.mid] = rec[x.mid]
          BY <2>1, <3>1, <4>2
        <5> QED
          BY <3>1, <5>1 DEF Described
      <4> QED
        BY <4>1, <4>2
    <3> QED
      BY <1>3, <2>1, <2>12, <3>2
  <2> QED
    BY <2>1, <2>10, <2>11, <2>12 DEF ExplainInv
<1>7. ASSUME NEW S \in SUBSET Mems, Counts(S)
      PROVE  ExplainInv'
  <2>1. ASSUME NEW m \in Mems, rec[m] # NoRec
        PROVE  rec'[m].ver = rec[m].ver /\ Bare(rec'[m]) = Bare(rec[m])
    <3>1. /\ rec[m] \in Record /\ rec'[m] \in Record /\ rec'[m].ver = rec[m].ver
          /\ \/ rec'[m] = rec[m]
             \/ rec'[m] = [rec[m] EXCEPT !.hits = rec[m].hits + 1]
      BY <1>7, <2>1, CountFacts
    <3>2. ASSUME rec'[m] = [rec[m] EXCEPT !.hits = rec[m].hits + 1]
          PROVE  Bare(rec'[m]) = Bare(rec[m])
      <4>1. rec[m].hits + 1 \in Nat
        BY <3>1 DEF Record
      <4> DEFINE r == rec[m]
                 s == [r EXCEPT !.hits = r.hits + 1]
      <4>2. /\ s \in Record
            /\ s.ver = r.ver /\ s.content = r.content /\ s.kind = r.kind /\ s.from = r.from
            /\ s.pinned = r.pinned /\ s.disabled = r.disabled /\ s.deleted = r.deleted
        BY <3>1, <4>1, WithHits
      <4> HIDE DEF s
      <4>3. Bare(s) = Bare(r)
        BY <3>1, <4>2, BareIf
      <4> QED
        BY <3>2, <4>3 DEF s
    <3> QED
      BY <3>1, <3>2
  <2>2. events' = events
    BY <1>7 DEF Counts
  <2> QED
    BY <1>4, <2>1, <2>2
<1>8. ASSUME NEW e \in Appends, Noted(e)
      PROVE  ExplainInv'
  BY <1>4, <1>8 DEF Noted, OnlyCollapsesAppended
<1>9. CASE UNCHANGED <<rec, events>>
  BY <1>4, <1>9
<1> QED
  BY <1>1, <1>5, <1>6, <1>7, <1>8, <1>9 DEF TableStep

\* Every record can be rebuilt from its events, for any calls next to each other: the event
\* of a change carries what the caller made of the version it loaded, the UPDATE finds that
\* very version, and its SET list leaves no other column behind (mutateRecordTx, Promote).
THEOREM HistoryAlwaysExplains ==
  ASSUME OnlyCollapsesAppended
  PROVE  Spec => []HistoryExplains
<1>1. Init => ExplainInv
  <2> SUFFICES ASSUME Init, NEW m \in DOMAIN Seed,
                      NEW e, e = NewEvent(m, SeedRecords[m], "created", NoKey, NoMem)
               PROVE  Explained(e) /\ Described(e)
    BY DEF Init, ExplainInv, SeedEvents
  <2>1. SeedRecords[m] = Seed[m] /\ SeedRecords[m].ver = 1 /\ rec = SeedRecords
    BY RecordsAssumption DEF Init, SeedRecords
  <2>2. e.mid = m /\ e.ver = 1 /\ e.snap = SeedRecords[m]
    BY <2>1 DEF NewEvent
  <2> QED
    BY <2>1, <2>2 DEF Explained, Described
<1>2. Inv /\ Inv' /\ WorkInv /\ PairedInv /\ ChainInv /\ [Next]_vars => ChainInv'
  BY NextChain
<1>3. Inv /\ Inv' /\ WorkInv /\ PairedInv /\ ChainInv /\ ExplainInv /\ [Next]_vars
        => ExplainInv'
  BY NextExplains
<1>4. ExplainInv => HistoryExplains
  BY DEF ExplainInv, Explained, Described, HistoryExplains, Bare
<1> QED
  BY <1>1, <1>2, <1>3, <1>4, InitChain, InitInv, NextInv, InitWork, NextWork, InitPaired,
     NextPaired, PTL
  DEF Spec


=============================================================================

------------------------------- MODULE Ledger -------------------------------
(***************************************************************************)
(* What Store promises its callers: every call that changes the tables     *)
(* does so in one step, on the tables as they are in that step, as if      *)
(* calls were made one after another.  Two things are weaker than that.    *)
(* The copy of a record in an event may miss accesses counted meanwhile,   *)
(* and a collapse may describe the winner as an earlier version.           *)
(***************************************************************************)
EXTENDS Records

VARIABLES rec, events, outbox, idem, dedupe

Init ==
  /\ rec = SeedRecords
  /\ events = SeedEvents
  /\ outbox = {EventKey(e) : e \in SeedEvents}
  /\ idem = [k \in Keys |-> NoEntry]
  /\ dedupe = [d \in DKeys |-> NoMem]

\* New events, each under a key of its own and each with an outbox row.
Log(new) ==
  /\ \A e \in new, f \in events : EventKey(e) # EventKey(f)
  /\ events' = events \cup new
  /\ outbox' = outbox \cup {EventKey(e) : e \in new}

\* The answer is stored under a key that is free.
Remember(q, m, v) ==
  IF q.key = NoKey THEN UNCHANGED idem
  ELSE /\ idem[q.key] = NoEntry
       /\ idem' = [idem EXCEPT ![q.key] = NewEntry(q, m, v)]

\* Copies of a record that may miss accesses.
Copies(r) == {[r EXCEPT !.hits = h] : h \in 0..r.hits}

Write(q, m) ==
  /\ q.op = "created" /\ q.mid \in {m, NoMem} /\ rec[m] = NoRec
  /\ rec' = [rec EXCEPT ![m] = FirstVersion(q)]
  /\ Log({NewEvent(m, FirstVersion(q), "created", q.key, NoMem)})
  /\ Remember(q, m, 1)
  /\ UNCHANGED dedupe

\* The version the caller expects is the record's own, and moves on by one.
Change(q) ==
  /\ rec[q.mid] # NoRec /\ rec[q.mid].ver = q.ver
  /\ rec' = [rec EXCEPT ![q.mid] = Applied(q, @)]

ChangeEvents(q) ==
  {NewEvent(q.mid, s, MutationType(q), NoKey, NoMem) : s \in Copies(Applied(q, rec[q.mid]))}

Mutate(q) ==
  /\ q.op \notin {"created", "dedupe", "access"}
  /\ Change(q)
  /\ \E e \in ChangeEvents(q) : Log({e})
  /\ Remember(q, q.mid, q.ver + 1)
  /\ UNCHANGED dedupe

\* The first caller of a dedupe key wins it.
Win(q) ==
  /\ q.op = "dedupe" /\ dedupe[q.dk] = NoMem
  /\ dedupe' = [dedupe EXCEPT ![q.dk] = q.mid]
  /\ UNCHANGED <<rec, events, outbox, idem>>

\* The others are deleted in its favour.
Lose(q) ==
  LET w == dedupe[q.dk]
  IN  /\ q.op = "dedupe" /\ w # NoMem
      /\ Change(q)
      /\ \E e \in ChangeEvents(q) :
           \E past \in {f.snap : f \in {g \in events \cup {e} : g.mid = w}} :
             \E s \in Copies([past EXCEPT !.hits = rec'[w].hits]) :
               Log({e, NewEvent(w, s, "collapsed", NoKey, q.mid)})
      /\ UNCHANGED <<idem, dedupe>>

\* All rows the call has found count one access more.
Access(q, S) ==
  /\ q.op = "access" /\ S \subseteq {q.ids[i] : i \in DOMAIN q.ids}
  /\ \A m \in S : rec[m] # NoRec
  /\ rec' = [m \in Mems |-> IF m \in S THEN [rec[m] EXCEPT !.hits = @ + 1] ELSE rec[m]]
  /\ UNCHANGED <<events, outbox, idem, dedupe>>

\* Callers add events and entries of their own.
Note(e) ==
  /\ Appendable(e) /\ \A f \in events : EventKey(f) # EventKey(e)
  /\ events' = events \cup {e}
  /\ UNCHANGED <<rec, outbox, idem, dedupe>>

Save(s) ==
  /\ idem' = [idem EXCEPT ![s.key] = s.entry]
  /\ UNCHANGED <<rec, events, outbox, dedupe>>

Next ==
  \/ \E q \in Requests :
       \/ \E m \in Mems : Write(q, m)
       \/ Mutate(q) \/ Win(q) \/ Lose(q)
       \/ \E S \in SUBSET Mems : Access(q, S)
  \/ \E e \in Appends : Note(e)
  \/ \E s \in Saves : Save(s)

Spec == Init /\ [][Next]_<<rec, events, outbox, idem, dedupe>>

=============================================================================

------------------------------- MODULE Records -------------------------------
(***************************************************************************)
(* The rows of memory_record and memory_event, the calls of the package,   *)
(* and what a call makes of the record it has loaded.                      *)
(***************************************************************************)
EXTENDS Integers, Sequences, FiniteSets

CONSTANTS
  Mems, NoMem,          \* memory ids
  Keys, NoKey,          \* idempotency keys
  DKeys,                \* dedupe keys
  NoRec, NoEntry,       \* no row
  Values, Blank,        \* contents, source event ids; Blank is the empty string
  Seed,                 \* records written before: a function from ids to records
  Joined,               \* texts "promote:<memory id>:<source event id>:<version>"
  Requests,             \* the calls the clients may make
  Appends, Saves        \* the arguments of AppendEvent and SaveIdempotency

Kinds      == {"working", "episodic", "semantic"}
Toggles    == {"pinned", "unpinned", "disabled", "enabled"}
EventTypes == Toggles \cup {"created", "updated", "deleted", "promoted", "collapsed"}

Record  == [ver : Nat \ {0}, content : Values \cup {Blank}, kind : Kinds,
            from : Values \cup {Blank}, pinned : BOOLEAN, disabled : BOOLEAN,
            deleted : BOOLEAN, hits : Nat]
Event   == [mid : Mems, ver : Nat \ {0}, type : EventTypes, key : Keys \cup {NoKey},
            snap : Record, loser : Mems \cup {NoMem}]

\* The synthetic hash of a promote request; other requests bring their own.  Ids may
\* contain the separator and callers any text, so different requests may share a hash.
RequestHash(q) == IF q.op = "promoted" THEN Joined[q.mid, q.val, q.ver] ELSE q.hash

\* Calls with an idempotency key, and what is stored under it.
Keyed  == {q \in Requests : q.op \in {"created", "promoted"}}
Hashes == {RequestHash(q) : q \in Keyed} \cup {s.entry.hash : s \in Saves}
Entry  == [hash : Hashes, mid : Mems, ver : Nat, created : BOOLEAN]

\* A mutant that numbers the first version 0.
FirstVersionZero(q) == [q.rec EXCEPT !.ver = 0]

\* The record the caller passes, at version 1.
FirstVersion(q) == [q.rec EXCEPT !.ver = 1]

ASSUME RecordsAssumption ==
  /\ NoMem \notin Mems /\ NoKey \notin Keys
  /\ NoRec \notin Record /\ NoEntry \notin Entry
  /\ DOMAIN Seed \subseteq Mems
  /\ \A m \in DOMAIN Seed : Seed[m] \in Record /\ Seed[m].ver = 1
  /\ \A q \in Requests :
       /\ q.op \in (EventTypes \ {"collapsed"}) \cup {"dedupe", "access"}
       /\ q.key \in Keys \cup {NoKey} /\ (q.key # NoKey => q \in Keyed)
       /\ q.op = "created" => q.key # NoKey /\ q.mid \in Mems \cup {NoMem}
       /\ q.op = "dedupe"  => q.dk \in DKeys
       /\ q.op = "access"  => q.ids # <<>> /\ \A i \in DOMAIN q.ids : q.ids[i] \in Mems
       /\ q.op \notin {"created", "access"} => q.mid \in Mems
       /\ q.op \in {"updated", "promoted"} => q.val \in Values \cup {Blank}
  /\ \A e \in Appends : e.type \in EventTypes => e \in Event
  /\ \A s \in Saves : s.key \in Keys /\ s.entry \in Entry

\* What a caller passes to WriteRecord is a record, whatever version it names.
ASSUME WritesAssumption ==
  \A q \in Requests : q.op = "created" => [q.rec EXCEPT !.ver = 1] \in Record

\* What is stored under the key of a call that has made its change.
NewEntry(q, m, v) == [hash |-> RequestHash(q), mid |-> m, ver |-> v, created |-> TRUE]

EventKey(e) == <<e.mid, e.ver, e.type>>
NewEvent(m, snap, type, key, loser) ==
  [mid |-> m, ver |-> snap.ver, type |-> type, key |-> key, snap |-> snap, loser |-> loser]

\* The tables as earlier calls left them.
SeedRecords == [m \in Mems |-> IF m \in DOMAIN Seed THEN Seed[m] ELSE NoRec]
SeedEvents  == {NewEvent(m, SeedRecords[m], "created", NoKey, NoMem) : m \in DOMAIN Seed}

\* What a dedupe collision does to the loser is a delete.
MutationType(q) == IF q.op = "dedupe" THEN "deleted" ELSE q.op

\* The apply closures, then Version++.
Applied(q, r) ==
  LET type == MutationType(q)
  IN  [r EXCEPT
        !.ver      = @ + 1,
        !.content  = IF type = "updated" /\ q.val # Blank THEN q.val ELSE @,
        !.kind     = IF type = "promoted" THEN "episodic" ELSE @,
        !.from     = IF type = "promoted" THEN q.val ELSE @,
        !.pinned   = IF type \in {"pinned", "unpinned"} THEN type = "pinned" ELSE @,
        !.disabled = IF type \in {"disabled", "enabled"} THEN type = "disabled" ELSE @,
        !.deleted  = (type = "deleted") \/ @]

\* What validateEventType lets into memory_event.
Appendable(e) == e.type \in EventTypes

=============================================================================

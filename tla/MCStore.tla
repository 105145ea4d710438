------------------------------ MODULE MCStore ------------------------------
(***************************************************************************)
(* Small instances of Store for TLC: the calls the clients may make in     *)
(* each scenario.                                                          *)
(***************************************************************************)
EXTENDS Store, TLC

CONSTANTS c1, c2, c3, m1, m2, m3, k1, k2, d1, d2, h1, h2, x, y

TwoClients == {c1, c2}
ThreeClients == {c1, c2, c3}
MCMems == {m1, m2, m3}
MCKeys == {k1}
TwoKeys == {k1, k2}
OneDKey == {d1}
TwoDKeys == {d1, d2}
MCValues == {x}
TwoValues == {x, y}
Nothing == {}

\* Records as callers pass them: a fresh one, and one that is pinned and was accessed.
Draft ==
  [ver |-> 0, content |-> x, kind |-> "working", from |-> Blank, pinned |-> FALSE,
   disabled |-> FALSE, deleted |-> FALSE, hits |-> 0]
Used == [Draft EXCEPT !.pinned = TRUE, !.hits = 2]

\* A record written before, by its kind.
Stored(kind) == [Draft EXCEPT !.ver = 1, !.kind = kind, !.hits = 1]

Write(m, hash, key, r) ==
  [op |-> "created", mid |-> m, key |-> key, hash |-> hash, rec |-> r]
Mutate(type, v, value) ==
  [op |-> type, mid |-> m1, ver |-> v, key |-> NoKey, val |-> value]
Promote(v, key) ==
  [op |-> "promoted", mid |-> m1, ver |-> v, key |-> key, val |-> x]
Dedupe(dk, m) ==
  [op |-> "dedupe", mid |-> m, ver |-> 1, key |-> NoKey, dk |-> dk]

Access(ids) == [op |-> "access", ids |-> ids, key |-> NoKey]

\* Callers that share one idempotency key: one request, another one, one that promotes,
\* and one under a key of its own.  A writer brings the very text that the promotion is
\* hashed to.
OneWorking == m1 :> Stored("working")
SharedKey ==
  {Write(NoMem, h1, k1, Draft), Write(NoMem, h2, k1, Draft), Promote(1, k1),
   Write(NoMem, h1, k2, Draft)}
SameHash == [m \in Mems, v \in Values \cup {Blank}, n \in 1..2 |-> h1]

\* Events and entries the callers store themselves: one that takes the place of the
\* promotion's, one of an unknown type, and an entry that names no record.
OwnEvent(type) ==
  [mid |-> m1, ver |-> 2, type |-> type, key |-> NoKey, snap |-> Stored("working"),
   loser |-> NoMem]
OwnEvents == {OwnEvent("promoted"), OwnEvent("archived")}
OwnEntry == {[key |-> k2, entry |-> [hash |-> h1, mid |-> m3, ver |-> 1, created |-> TRUE]]}

\* Duplicates, one of them yet to be written by a caller, pinned and with a counter of
\* its own; meanwhile one of them is changed, promoted and accessed, with right and with
\* stale versions.
TwoWorking == [m \in {m1, m2} |-> Stored("working")]
AllCalls ==
  {Dedupe(d1, m) : m \in MCMems} \cup
  {Mutate("updated", 1, y), Mutate("deleted", 2, Blank), Mutate("disabled", 2, Blank),
   Promote(1, NoKey), Write(m3, h1, k1, Used), Access(<<m1, m3>>)}

\* Two keys whose winners are each other's losers.
TwoEpisodic == [m \in {m1, m2} |-> Stored("episodic")]
Crossed ==
  {Dedupe(d, m) : d \in {d1, d2}, m \in {m1, m2}}
    \cup {Access(<<m1, m2>>), Access(<<m2, m1>>)}

\* The scenarios of the findings.
ThreeWorking == [m \in MCMems |-> Stored("working")]
OnlyDedupes == {Dedupe(d1, m) : m \in MCMems}
OneRetry == {Dedupe(d1, m1)}
OneEpisodic == m1 :> Stored("episodic")
OvertakenCollapse == {Dedupe(d1, m1), Dedupe(d1, m2), Mutate("pinned", 1, Blank)}

\* Clients are compared for equality only.
ClientSymmetry == Permutations(Clients)

=============================================================================

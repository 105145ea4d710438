----------------------------- MODULE MCPipeline -----------------------------
(***************************************************************************)
(* A small instance of Pipeline for TLC: two callers change one record     *)
(* while one relay at a time publishes.                                    *)
(***************************************************************************)
EXTENDS Pipeline, TLC

CONSTANTS c1, c2, m1, k1, x

TwoClients == {c1, c2}
OneMem == {m1}
OneKey == {k1}
Nothing == {}
MCValues == {x}
OneWorking ==
  m1 :> [ver |-> 1, content |-> x, kind |-> "working", from |-> Blank, pinned |-> FALSE,
         disabled |-> FALSE, deleted |-> FALSE, hits |-> 0]
NoneJoined == <<>>
TwoWorkers == {1, 2}
OneChild == {1}

Change(type, v) == [op |-> type, mid |-> m1, ver |-> v, key |-> NoKey, val |-> x]
Changes == {Change("pinned", 1), Change("deleted", 2)}

ClientSymmetry == Permutations(Clients)

=============================================================================

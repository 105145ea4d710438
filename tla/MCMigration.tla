---------------------------- MODULE MCMigration ----------------------------
(***************************************************************************)
(* Small instances of Migration for TLC: processes of the first release,   *)
(* of this one and of the next, whose group 4 is direct.                   *)
(***************************************************************************)
EXTENDS Migration, TLC

CONSTANTS p1, p2, p3

Rolling == {p1, p2, p3}
Releases == p1 :> 1 @@ p2 :> 3 @@ p3 :> 4
Current == {p2}
CurrentRelease == p2 :> 3
GroupFour == {4}

\* Databases that are fresh, behind, and too far ahead of one release, of two.
FreshOrSkewed == {0, 2, 7, 9}
FarAhead == {9}

Lower    == [first |-> "lower", chars |-> {"lower", "digit", "underscore"}]
Mixed    == [first |-> "upper", chars |-> {"lower", "upper"}]
Unsafe   == [first |-> "underscore", chars |-> {"lower", "underscore"}]
PlainPrefixes == {Lower, Unsafe}
MixedPrefix == {Mixed}

=============================================================================

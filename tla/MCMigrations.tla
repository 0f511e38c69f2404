---------------------------- MODULE MCMigrations ----------------------------
(* Migrations for TLC: an instance of the old release and two of the new, over *)
(* the shapes of the repository's files: 001 creates a table; 002 one that     *)
(* refers to it and an unnamed index on that; 003 needs 001 only; 007 adds a   *)
(* column, IF NOT EXISTS, to the table of 002.                                 *)
EXTENDS Migrations, TLC

CONSTANTS i1, i2, i3
Upgrade == i1 :> 2 @@ i2 :> 4 @@ i3 :> 4
SameRelease == Permutations({i2, i3})
Script == <<1, 2, 2, 3, 4>>
References == <<{}, {1}, {2}, {1}, {2}>>
=============================================================================

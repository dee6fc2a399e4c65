------------------------------ MODULE MCTable ------------------------------
(* Table for TLC: keys whose hashes collide, wrap around or do neither.    *)
EXTENDS Table, TLC

Keys == Permutations(Key)
=============================================================================

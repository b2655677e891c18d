------------------------------ MODULE MCJobPoll ------------------------------
(* JobPoll for TLC: a character of two bytes, one of one byte.             *)
EXTENDS JobPoll, TLC

Mixed == <<"h", "t", "c">>
ReadSymmetry == Permutations(Reads)
==============================================================================

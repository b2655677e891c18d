---- MODULE MCColabSessions ----
(* Small instances of ColabSessions for TLC. *)
EXTENDS ColabSessions, TLC

ColabSymmetry == Permutations(Tasks) \cup Permutations(Sessions)
====

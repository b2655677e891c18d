---- MODULE MCSingleFlight ----
(* Model values for TLC: calls and pollers are interchangeable. *)
EXTENDS SingleFlight, TLC

CallSymmetry == Permutations(Calls)
====

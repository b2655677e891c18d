---- MODULE MCLocalExec ----
(* Model values for TLC: executions are interchangeable, and so are kernels. *)
EXTENDS LocalExec, TLC

ExecSymmetry == Permutations(Execs)

ExecKernelSymmetry == Permutations(Execs) \cup Permutations(Kernels)
====

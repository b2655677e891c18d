---- MODULE MCKernelLifecycle ----
(* Small instances of KernelLifecycle for TLC. *)
EXTENDS KernelLifecycle, TLC

TaskSymmetry == Permutations(Tasks)
====

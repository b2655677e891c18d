---------------------------- MODULE MCBoundedSink ----------------------------
(* BoundedSink for TLC.                                                    *)
EXTENDS BoundedSink, TLC

Symmetry == Permutations(Streams)
==============================================================================

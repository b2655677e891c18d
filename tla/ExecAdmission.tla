---- MODULE ExecAdmission ----
(***************************************************************************)
(* What the single-flight guard promises its clients, without tasks,       *)
(* records or polls: at any time a kernel has at most one owner; a call is  *)
(* refused only while the kernel has one; a call that is not refused either *)
(* executes or recovers the result of a finished call, and no result is     *)
(* recovered twice.                                                        *)
(***************************************************************************)
CONSTANTS Kernels, Calls, NoCall

VARIABLES
  owner,      \* the call whose execution holds the kernel
  fate,       \* what became of every call
  recovered   \* calls whose result was handed to another call

vars == <<owner, fate, recovered>>

Fates == {"new", "refused", "recovered", "executing", "disowned", "finished", "lost"}

TypeOK ==
  /\ owner \in [Kernels -> Calls \cup {NoCall}]
  /\ fate \in [Calls -> Fates]
  /\ recovered \subseteq Calls

Init ==
  /\ owner = [k \in Kernels |-> NoCall]
  /\ fate = [c \in Calls |-> "new"]
  /\ recovered = {}

Admit(k, c) ==
  /\ fate[c] = "new"
  /\ owner[k] = NoCall
  /\ owner' = [owner EXCEPT ![k] = c]
  /\ fate' = [fate EXCEPT ![c] = "executing"]
  /\ UNCHANGED recovered

Refuse(k, c) ==
  /\ fate[c] = "new"
  /\ owner[k] # NoCall
  /\ fate' = [fate EXCEPT ![c] = "refused"]
  /\ UNCHANGED <<owner, recovered>>

Recover(k, c, e) ==
  /\ fate[c] = "new"
  /\ owner[k] = NoCall
  /\ fate[e] = "finished"
  /\ e \notin recovered
  /\ fate' = [fate EXCEPT ![c] = "recovered"]
  /\ recovered' = recovered \cup {e}
  /\ UNCHANGED owner

Finish(k, c) ==
  /\ owner[k] = c
  /\ fate[c] = "executing"
  /\ owner' = [owner EXCEPT ![k] = NoCall]
  /\ fate' = [fate EXCEPT ![c] = "finished"]
  /\ UNCHANGED recovered

\* The kernel was stopped: its owner no longer holds it, but its work may
\* take a while to notice.
Disown(k, c) ==
  /\ owner[k] = c
  /\ fate[c] = "executing"
  /\ owner' = [owner EXCEPT ![k] = NoCall]
  /\ fate' = [fate EXCEPT ![c] = "disowned"]
  /\ UNCHANGED recovered

FinishDisowned(c) ==
  /\ fate[c] = "disowned"
  /\ fate' = [fate EXCEPT ![c] = "finished"]
  /\ UNCHANGED <<owner, recovered>>

\* The server restarts: nothing is owned, and nothing that ran is known.
Reset ==
  /\ owner' = [k \in Kernels |-> NoCall]
  /\ fate' = [c \in Calls |-> IF fate[c] \in {"executing", "disowned"} THEN "lost" ELSE fate[c]]
  /\ UNCHANGED recovered

Next ==
  \/ \E k \in Kernels, c \in Calls :
       \/ Admit(k, c) \/ Refuse(k, c) \/ Finish(k, c) \/ Disown(k, c)
       \/ \E e \in Calls : Recover(k, c, e)
  \/ \E c \in Calls : FinishDisowned(c)
  \/ Reset

Spec == Init /\ [][Next]_vars
====

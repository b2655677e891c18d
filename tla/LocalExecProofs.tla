---- MODULE LocalExecProofs ----
(***************************************************************************)
(* Proofs about executions on local kernels, for any executions, kernels   *)
(* and pool.                                                               *)
(***************************************************************************)
EXTENDS LocalExec, SequenceTheorems, FiniteSetTheorems, TLAPS

(***************************************************************************)
(* The inductive invariant has three parts: the pool's accounts, the       *)
(* kernel's queues, and what is true of each execution by itself.          *)
(***************************************************************************)
PoolInv ==
  /\ PoolAccounts
  /\ IsFiniteSet(LiveWorkers)

\* The code of an execution is queued on its own kernel, once.
QueueInv ==
  /\ queue \in [Kernels -> Seq(Execs \cup {Human})]
  /\ \A k \in Kernels : \A i \in DOMAIN queue[k] : queue[k][i] \in Execs => kern[queue[k][i]] = k
  /\ \A k \in Kernels : \A i, j \in DOMAIN queue[k] :
       queue[k][i] \in Execs /\ queue[k][i] = queue[k][j] => i = j

Sent(e) == e \in Range(queue[kern[e]])

\* Between the acquisition of the lock and the exit that releases it.
Inside == {"attach", "wait", "interrupting", "grace", "watch", "probe", "dropping", "raising"}

LockKept(e) == lock[kern[e]] = e <=> pc[e] \in Inside

\* No reply was received, and none will be.
Unanswered(e) == Started(e) /\ e \notin replied /\ ~Sent(e)

\* The worker, the kernel's queue and the coroutine know of each other.
WorkerKnown(e) ==
  /\ pc[e] \in {"idle", "locking", "attach"} => worker[e] = "none"
  /\ pc[e] \in Inside \ {"attach"} => worker[e] # "none"
  /\ pc[e] \in {"interrupting", "grace", "done"} => worker[e] # "queued"
  /\ worker[e] \in {"none", "queued"} => ~Sent(e) /\ e \notin replied
  /\ worker[e] = "returned" => e \in replied
  /\ worker[e] = "raised" => e \in stopped
  /\ e \in flagged => Started(e)
  /\ e \in replied => ~Sent(e)

\* Two observations of an idle kernel, with the reply not there at the second.
Observed(e) ==
  /\ pc[e] \in {"probe", "dropping"} => Started(e)
  /\ misses[e] > 0 => Started(e) /\ ~Sent(e)
  /\ pc[e] = "probe" /\ misses[e] > 0 => e \notin replied
  /\ pc[e] = "dropping" => Unanswered(e)
  /\ pc[e] = "raising" => worker[e] = "raised" \/ Unanswered(e)
  /\ result[e] # "none" => pc[e] = "done"
  /\ result[e] = "gone" => Unanswered(e)

ExecInv(e) == LockKept(e) /\ WorkerKnown(e) /\ Observed(e)

LocalInv == PoolInv /\ QueueInv /\ \A e \in Execs : ExecInv(e)

\* What nobody listens to any more is off the kernel, or about to be swept.
Covered(e) == Sent(e) /\ (e \in stopped \/ pc[e] = "done") => AboutToBeSwept(e)

\* No request to interrupt, to restart or to delete a kernel fails.
RestAnswers == Faults \cap {"interrupt_fails", "restart_fails", "delete_fails"} = {}

AllCovered == \A e \in Execs : Covered(e)

----
(* Queues. *)

LEMMA AppendRange ==
  ASSUME NEW S, NEW s \in Seq(S), NEW x \in S
  PROVE  /\ Append(s, x) \in Seq(S)
         /\ Range(Append(s, x)) = Range(s) \cup {x}
<1> DEFINE t == Append(s, x)
<1>1. /\ t \in Seq(S) /\ Len(t) = Len(s) + 1 /\ Len(s) \in Nat /\ t[Len(s) + 1] = x
      /\ \A i \in 1..Len(s) : t[i] = s[i]
  OBVIOUS
<1>2. DOMAIN s = 1..Len(s) /\ DOMAIN t = 1..(Len(s) + 1)
  BY <1>1
<1> HIDE DEF t
<1>3. ASSUME NEW y \in Range(t) PROVE y \in Range(s) \cup {x}
  <2>1. PICK i \in 1..(Len(s) + 1) : y = t[i] BY <1>2 DEF Range
  <2>2. i \in 1..Len(s) \/ i = Len(s) + 1 BY <1>1
  <2>3. QED BY <1>1, <1>2, <2>1, <2>2 DEF Range
<1>4. ASSUME NEW y \in Range(s) PROVE y \in Range(t)
  <2>1. PICK i \in 1..Len(s) : y = s[i] BY <1>2 DEF Range
  <2>2. i \in 1..(Len(s) + 1) BY <1>1
  <2>3. QED BY <1>1, <1>2, <2>1, <2>2 DEF Range
<1>5. x \in Range(t)
  <2>1. Len(s) + 1 \in 1..(Len(s) + 1) BY <1>1
  <2>2. QED BY <1>1, <1>2, <2>1 DEF Range
<1>6. QED BY <1>1, <1>3, <1>4, <1>5 DEF t

LEMMA TailRange ==
  ASSUME NEW S, NEW s \in Seq(S), s # <<>>
  PROVE  /\ Tail(s) \in Seq(S) /\ Head(s) \in Range(s) /\ Head(s) = s[1] /\ 1 \in DOMAIN s
         /\ Range(Tail(s)) \subseteq Range(s)
         /\ \A i \in DOMAIN Tail(s) : i + 1 \in DOMAIN s /\ Tail(s)[i] = s[i + 1]
         /\ \A i \in DOMAIN Tail(s) : i \in Nat \ {0}
<1> DEFINE t == Tail(s)
<1>1. Len(s) \in Nat \ {0} /\ t \in Seq(S) /\ Len(t) = Len(s) - 1 /\ Head(s) = s[1]
  OBVIOUS
<1>2. DOMAIN s = 1..Len(s) /\ DOMAIN t = 1..(Len(s) - 1)
  BY <1>1
<1>3. \A i \in DOMAIN t : i + 1 \in DOMAIN s /\ t[i] = s[i + 1]
  BY <1>1, <1>2
<1> HIDE DEF t
<1>4. Range(t) \subseteq Range(s)
  BY <1>3 DEF Range
<1>5. 1 \in DOMAIN s /\ Head(s) \in Range(s)
  BY <1>1, <1>2 DEF Range
<1>6. QED BY <1>1, <1>2, <1>3, <1>4, <1>5 DEF t

\* One more cell in a queue.
LEMMA Appended ==
  ASSUME TypeOK, QueueInv, NEW k \in Kernels, NEW x \in Execs \cup {Human}, UNCHANGED kern,
         x \in Execs => kern[x] = k /\ ~Sent(x),
         queue' = [queue EXCEPT ![k] = Append(@, x)]
  PROVE  QueueInv' /\ \A d \in Execs : Sent(d)' <=> Sent(d) \/ d = x
<1> DEFINE S == Execs \cup {Human}
           q == queue[k]
           t == Append(q, x)
<1>1. q \in Seq(S) /\ queue' \in [Kernels -> Seq(S)]
  BY AppendRange DEF QueueInv
<1>2. queue'[k] = t /\ \A j \in Kernels \ {k} : queue'[j] = queue[j]
  BY DEF QueueInv
<1>3. Range(t) = Range(q) \cup {x}
  BY <1>1, AppendRange
<1>4. \A d \in Execs : kern[d] \in Kernels
  BY DEF TypeOK
<1>5. ASSUME NEW d \in Execs PROVE Sent(d)' <=> Sent(d) \/ d = x
  <2>1. CASE kern[d] = k BY <1>2, <1>3, <2>1 DEF Sent
  <2>2. CASE kern[d] # k
    <3>1. Sent(d)' <=> Sent(d) BY <1>2, <1>4, <2>2 DEF Sent
    <3>2. d # x BY <2>2
    <3>3. QED BY <3>1, <3>2
  <2>3. QED BY <2>1, <2>2
<1>6. /\ Len(q) \in Nat /\ DOMAIN q = 1..Len(q) /\ DOMAIN t = 1..(Len(q) + 1)
      /\ t[Len(q) + 1] = x /\ \A i \in 1..Len(q) : t[i] = q[i]
  BY <1>1
<1> HIDE DEF t, S
<1>7. \A i \in DOMAIN t : (i \in DOMAIN q /\ t[i] = q[i]) \/ (i = Len(q) + 1 /\ t[i] = x)
  BY <1>6
<1>8. \A i \in DOMAIN q : q[i] \in Execs => kern[q[i]] = k
  BY DEF QueueInv
<1>9. \A i, j \in DOMAIN q : q[i] \in Execs /\ q[i] = q[j] => i = j
  BY DEF QueueInv
<1>10. x \in Execs => \A i \in DOMAIN q : q[i] # x
  BY DEF Sent, Range
<1>11. \A i \in DOMAIN t : t[i] \in Execs => kern[t[i]] = k
  BY <1>7, <1>8
<1>12. \A i, j \in DOMAIN t : t[i] \in Execs /\ t[i] = t[j] => i = j
  BY <1>7, <1>9, <1>10
<1> HIDE DEF q
<1>13. \A j \in Kernels : \A i \in DOMAIN queue'[j] :
         queue'[j][i] \in Execs => kern'[queue'[j][i]] = j
  BY <1>2, <1>11 DEF QueueInv
<1>14. \A j \in Kernels : \A i, l \in DOMAIN queue'[j] :
         queue'[j][i] \in Execs /\ queue'[j][i] = queue'[j][l] => i = l
  BY <1>2, <1>12 DEF QueueInv
<1>15. QED BY <1>1, <1>5, <1>13, <1>14 DEF QueueInv, S

\* The cell at the head of a queue ends.
LEMMA HeadGone ==
  ASSUME TypeOK, QueueInv, NEW k \in Kernels, UNCHANGED kern, HeadEnds(k)
  PROVE  /\ QueueInv'
         /\ replied \subseteq replied' /\ replied' \subseteq Execs
         /\ \A d \in Execs : Sent(d)' => Sent(d)
         /\ \A d \in Execs : d \in replied' \ replied =>
               Sent(d) /\ ~Sent(d)' /\ d \notin stopped /\ d = Head(queue[k]) /\ kern[d] = k
         /\ Head(queue[k]) \in Execs \cup {Human}
         /\ Head(queue[k]) \in Execs => Sent(Head(queue[k])) /\ kern[Head(queue[k])] = k
<1> DEFINE S == Execs \cup {Human}
           q == queue[k]
           t == Tail(q)
           h == Head(q)
<1>1. q \in Seq(S) /\ q # <<>> /\ t \in Seq(S)
  BY TailRange DEF QueueInv, HeadEnds
<1>2. queue' \in [Kernels -> Seq(S)] /\ queue'[k] = t /\ \A j \in Kernels \ {k} : queue'[j] = queue[j]
  BY <1>1 DEF QueueInv, HeadEnds
<1>3. /\ h \in Range(q) /\ h = q[1] /\ 1 \in DOMAIN q /\ Range(t) \subseteq Range(q)
      /\ \A i \in DOMAIN t : i + 1 \in DOMAIN q /\ t[i] = q[i + 1]
      /\ \A i \in DOMAIN t : i \in Nat \ {0}
  BY <1>1, TailRange
<1>4. h \in S
  BY <1>1, <1>3
<1>5. replied' = replied \cup ({h} \ ({Human} \cup stopped))
  BY DEF HeadEnds
<1>6. \A d \in Execs : kern[d] \in Kernels
  BY DEF TypeOK
<1>7. \A i \in DOMAIN q : q[i] \in Execs => kern[q[i]] = k
  BY DEF QueueInv
<1>8. \A i, j \in DOMAIN q : q[i] \in Execs /\ q[i] = q[j] => i = j
  BY DEF QueueInv
<1> HIDE DEF q, t, h, S
<1>9. h \in Execs => kern[h] = k /\ h \notin Range(t)
  <2>1. \A i \in DOMAIN t : i + 1 # 1
    BY <1>3
  <2>2. h \in Execs => \A i \in DOMAIN t : t[i] # h
    BY <1>3, <1>8, <2>1
  <2>3. QED BY <1>3, <1>7, <2>2 DEF Range
<1>10. ASSUME NEW d \in Execs PROVE Sent(d)' => Sent(d)
  <2>1. CASE kern[d] = k BY <1>2, <1>3, <2>1 DEF Sent, q
  <2>2. CASE kern[d] # k BY <1>2, <1>6, <2>2 DEF Sent
  <2>3. QED BY <2>1, <2>2
<1>11. \A d \in Execs : d = h => Sent(d) /\ ~Sent(d)'
  BY <1>2, <1>3, <1>9 DEF Sent, q
<1>12. \A j \in Kernels : \A i \in DOMAIN queue'[j] :
         queue'[j][i] \in Execs => kern'[queue'[j][i]] = j
  BY <1>2, <1>3, <1>7 DEF QueueInv
<1>13. \A i, l \in DOMAIN t : t[i] \in Execs /\ t[i] = t[l] => i = l
  <2> TAKE i, l \in DOMAIN t
  <2>1. t[i] \in Execs /\ t[i] = t[l] => i + 1 = l + 1
    BY <1>3, <1>8
  <2>2. i \in Nat /\ l \in Nat
    BY <1>3
  <2>3. QED BY <2>1, <2>2
<1>14. \A j \in Kernels : \A i, l \in DOMAIN queue'[j] :
         queue'[j][i] \in Execs /\ queue'[j][i] = queue'[j][l] => i = l
  BY <1>2, <1>13 DEF QueueInv
<1>15. QueueInv'
  BY <1>2, <1>12, <1>14 DEF QueueInv, S
<1>16. \A d \in Execs : d \in replied' \ replied => d = h /\ d \notin stopped
  BY <1>5
<1>17. replied' \subseteq Execs
  BY <1>4, <1>5 DEF TypeOK, S
<1>18. QED
  BY <1>4, <1>5, <1>9, <1>10, <1>11, <1>15, <1>16, <1>17 DEF S, h, q

\* A restart empties the queue.
LEMMA Cleared ==
  ASSUME TypeOK, QueueInv, NEW k \in Kernels, UNCHANGED kern,
         queue' = [queue EXCEPT ![k] = <<>>]
  PROVE  /\ QueueInv'
         /\ \A d \in Execs : Sent(d)' => Sent(d) /\ kern[d] # k
<1>1. /\ queue' \in [Kernels -> Seq(Execs \cup {Human})]
      /\ queue'[k] = <<>> /\ \A j \in Kernels \ {k} : queue'[j] = queue[j]
  BY DEF QueueInv
<1>2. DOMAIN (<<>>) = {} /\ Range(<<>>) = {}
  BY DEF Range
<1>3. QueueInv'
  BY <1>1, <1>2 DEF QueueInv
<1>4. ASSUME NEW d \in Execs PROVE Sent(d)' => Sent(d) /\ kern[d] # k
  BY <1>1, <1>2 DEF Sent, TypeOK
<1>5. QED BY <1>3, <1>4

LEMMA Unqueued ==
  ASSUME QueueInv, UNCHANGED <<kern, queue>>
  PROVE  QueueInv' /\ \A d \in Execs : Sent(d)' <=> Sent(d)
BY DEF QueueInv, Sent

----
(* The pool. *)

\* What is left of PoolInv once the types of the other variables are known.
Counted ==
  /\ poolInflight \in 0..Workers /\ orphans \in 0..Workers
  /\ worker \in [Execs -> {"none", "queued", "running"} \cup Unwound]
  /\ IsFiniteSet(LiveWorkers)
  /\ poolInflight = Cardinality(LiveWorkers)
  /\ orphans = Cardinality(flagged \cap LiveWorkers)
  /\ Cardinality(LiveWorkers) <= Workers

LEMMA PoolIsCounted == PoolInv => Counted
BY DEF PoolInv, PoolAccounts, Counted, TypeOK

\* A set of live workers is no larger than the pool.
LEMMA SomeLive ==
  ASSUME Counted, NEW S \in SUBSET LiveWorkers
  PROVE  IsFiniteSet(S) /\ Cardinality(S) \in 0..Workers
<1>1. IsFiniteSet(S) /\ Cardinality(S) <= Cardinality(LiveWorkers)
  BY FS_Subset DEF Counted
<1>2. Cardinality(S) \in Nat /\ Cardinality(LiveWorkers) \in Nat
  BY <1>1, FS_CardinalityType DEF Counted
<1>3. QED BY <1>1, <1>2, WorkersAssumption DEF Counted

LEMMA SameWorkers ==
  ASSUME Counted, UNCHANGED <<worker, flagged, poolInflight, orphans>>
  PROVE  Counted'
BY DEF Counted, LiveWorkers

\* An item that is taken up is as live as before.
LEMMA TakenUp ==
  ASSUME Counted, UNCHANGED <<flagged, poolInflight, orphans>>,
         NEW e \in Execs, worker[e] = "queued", worker' = [worker EXCEPT ![e] = "running"]
  PROVE  Counted'
<1>1. /\ worker' \in [Execs -> {"none", "queued", "running"} \cup Unwound]
      /\ LiveWorkers' = LiveWorkers
  BY DEF Counted, LiveWorkers
<1>2. QED BY <1>1 DEF Counted

LEMMA Accepted ==
  ASSUME Counted, UNCHANGED <<flagged, orphans>>, ~PoolFull, NEW e \in Execs, worker[e] = "none",
         e \notin flagged,
         worker' = [worker EXCEPT ![e] = "queued"], poolInflight' = poolInflight + 1
  PROVE  Counted'
<1>1. /\ worker' \in [Execs -> {"none", "queued", "running"} \cup Unwound]
      /\ LiveWorkers' = LiveWorkers \cup {e} /\ e \notin LiveWorkers
  BY DEF Counted, LiveWorkers
<1>2. flagged' \cap LiveWorkers' = flagged \cap LiveWorkers
  BY <1>1
<1>3. IsFiniteSet(LiveWorkers') /\ Cardinality(LiveWorkers') = Cardinality(LiveWorkers) + 1
  BY <1>1, FS_AddElement DEF Counted
<1>4. poolInflight + 1 \in 0..Workers
  BY WorkersAssumption DEF PoolFull, Counted
<1>5. poolInflight' = Cardinality(LiveWorkers') /\ Cardinality(LiveWorkers') <= Workers
  BY <1>3, <1>4, WorkersAssumption DEF Counted
<1>6. orphans' = Cardinality(flagged' \cap LiveWorkers') /\ orphans' \in 0..Workers
  BY <1>2 DEF Counted
<1>7. QED BY <1>1, <1>3, <1>4, <1>5, <1>6 DEF Counted

LEMMA Unwinds ==
  ASSUME Counted, UNCHANGED flagged, NEW e \in LiveWorkers, NEW how \in Unwound, Unwind(e, how)
  PROVE  Counted'
<1>1. e \in Execs /\ worker' = [worker EXCEPT ![e] = how]
  BY DEF LiveWorkers, Unwind
<1>2. /\ worker' \in [Execs -> {"none", "queued", "running"} \cup Unwound]
      /\ LiveWorkers' = LiveWorkers \ {e}
  BY <1>1 DEF Counted, LiveWorkers, Unwound
<1>3. IsFiniteSet(LiveWorkers') /\ Cardinality(LiveWorkers') = Cardinality(LiveWorkers) - 1
  BY <1>2, FS_RemoveElement DEF Counted
<1>4. Cardinality(LiveWorkers) \in Nat /\ Cardinality(LiveWorkers') \in Nat
  BY <1>3, FS_CardinalityType DEF Counted
<1>5. poolInflight' = Cardinality(LiveWorkers') /\ poolInflight' \in 0..Workers
  BY <1>3, <1>4, WorkersAssumption DEF Counted, Unwind
<1>11. Cardinality(LiveWorkers') <= Workers
  BY <1>5, WorkersAssumption
<1> DEFINE F == flagged \cap LiveWorkers
<1>6. IsFiniteSet(F) /\ Cardinality(F) \in 0..Workers /\ orphans = Cardinality(F)
  BY SomeLive DEF Counted
<1>7. flagged' \cap LiveWorkers' = F \ {e}
  BY <1>2
<1>8. CASE e \in flagged
  <2>1. e \in F /\ orphans' = orphans - 1
    BY <1>8 DEF Unwind
  <2> HIDE DEF F
  <2>2. IsFiniteSet(F \ {e}) /\ Cardinality(F \ {e}) = Cardinality(F) - 1
    BY <1>6, <2>1, FS_RemoveElement
  <2>3. Cardinality(F \ {e}) \in Nat
    BY <2>2, FS_CardinalityType
  <2>4. orphans' = Cardinality(F \ {e}) /\ orphans' \in 0..Workers
    BY <1>6, <2>1, <2>2, <2>3, WorkersAssumption
  <2>5. orphans' = Cardinality(flagged' \cap LiveWorkers')
    BY <1>7, <2>4
  <2>6. QED BY <1>2, <1>3, <1>5, <1>11, <2>4, <2>5 DEF Counted
<1>9. CASE e \notin flagged
  <2>1. F \ {e} = F /\ orphans' = orphans
    BY <1>9 DEF Unwind
  <2>2. orphans' = Cardinality(flagged' \cap LiveWorkers') /\ orphans' \in 0..Workers
    BY <1>6, <1>7, <2>1
  <2>3. QED BY <1>2, <1>3, <1>5, <1>11, <2>2 DEF Counted
<1>10. QED BY <1>8, <1>9

LEMMA Orphaned ==
  ASSUME Counted, UNCHANGED <<worker, poolInflight>>, NEW e \in Execs, Orphan(e),
         flagged \subseteq Execs
  PROVE  Counted' /\ flagged' \subseteq Execs
<1>1. CASE UNCHANGED <<flagged, orphans>>
  BY <1>1, SameWorkers
<1>2. CASE ~UNCHANGED <<flagged, orphans>>
  <2> DEFINE F == flagged \cap LiveWorkers
  <2>1. worker[e] = "running" /\ e \notin flagged /\ flagged' = flagged \cup {e} /\ orphans' = orphans + 1
    BY <1>2 DEF Orphan
  <2>2. LiveWorkers' = LiveWorkers /\ e \in LiveWorkers
    BY <2>1 DEF LiveWorkers
  <2>3. flagged' \cap LiveWorkers' = F \cup {e} /\ e \notin F
    BY <2>1, <2>2
  <2>4. IsFiniteSet(F) /\ orphans = Cardinality(F)
    BY SomeLive DEF Counted
  <2>5. F \cup {e} \in SUBSET LiveWorkers
    BY <2>2
  <2> HIDE DEF F
  <2>6. Cardinality(F \cup {e}) \in 0..Workers
    BY <2>5, SomeLive
  <2>7. Cardinality(F \cup {e}) = Cardinality(F) + 1
    BY <2>3, <2>4, FS_AddElement
  <2>8. QED BY <2>1, <2>2, <2>3, <2>4, <2>6, <2>7 DEF Counted
<1>3. QED BY <1>1, <1>2

----
(* The coroutine, where it touches neither the pool nor the kernel. *)

\* An execution that a step leaves alone.
LEMMA Untouched ==
  ASSUME NEW d \in Execs, ExecInv(d), UNCHANGED kern,
         lock'[kern[d]] = d <=> lock[kern[d]] = d,
         pc'[d] = pc[d], result'[d] = result[d], misses'[d] = misses[d], worker'[d] = worker[d],
         d \in stopped => d \in stopped', d \in flagged' => d \in flagged,
         d \in replied' <=> d \in replied, Sent(d)' => Sent(d)
  PROVE  ExecInv(d)'
BY DEF ExecInv, LockKept, WorkerKnown, Observed, Unanswered, Started

\* The lock of a kernel is taken when it is free and given back by its holder.
LocksRight(e) ==
  \/ lock' = lock
  \/ lock[kern[e]] = NoHolder /\ lock' = [lock EXCEPT ![kern[e]] = e]
  \/ lock[kern[e]] = e /\ lock' = [lock EXCEPT ![kern[e]] = NoHolder]

LEMMA LocksOnly ==
  ASSUME TypeOK, NEW e \in Execs, LocksRight(e)
  PROVE  /\ lock' \in [Kernels -> Execs \cup {NoHolder}]
         /\ \A d \in Execs \ {e} : lock'[kern[d]] = d <=> lock[kern[d]] = d
<1>1. \A d \in Execs : kern[d] \in Kernels
  BY DEF TypeOK
<1>2. lock' \in [Kernels -> Execs \cup {NoHolder}]
  BY <1>1 DEF TypeOK, LocksRight
<1>3. ASSUME NEW d \in Execs \ {e} PROVE lock'[kern[d]] = d <=> lock[kern[d]] = d
  <2>1. d # NoHolder /\ d # e /\ kern[d] \in Kernels /\ kern[e] \in Kernels
    BY <1>1, NoHolderAssumption
  <2>2. CASE kern[d] # kern[e]
    BY <2>1, <2>2 DEF TypeOK, LocksRight
  <2>3. CASE kern[d] = kern[e]
    BY <2>1, <2>3 DEF TypeOK, LocksRight
  <2>4. QED BY <2>2, <2>3
<1>4. QED BY <1>2, <1>3

\* e gets from where it is to `to`, and nobody else does anything.
Moves(e, to) ==
  /\ to \in PCs
  /\ UNCHANGED <<args, pool, kernelVars, life>>
  /\ pc' = [pc EXCEPT ![e] = to]
  /\ LocksRight(e)
  /\ result' \in [Execs -> Results] /\ via' \in [Execs -> {"uncapped", "unstarted", "grace"}]
  /\ misses' \in [Execs -> 0..2]
  /\ \A d \in Execs \ {e} : result'[d] = result[d] /\ misses'[d] = misses[d]

LEMMA Moved ==
  ASSUME LocalInv, NEW e \in Execs, NEW to, Moves(e, to)
  PROVE  /\ ExecInv(e)' => LocalInv'
         /\ Sent(e)' <=> Sent(e)
         /\ pc'[e] = to
<1>1. TypeOK /\ Counted /\ QueueInv /\ UNCHANGED <<kern, queue, worker, flagged, poolInflight, orphans>>
  BY PoolIsCounted DEF LocalInv, PoolInv, PoolAccounts, Moves, args, pool, kernelVars
<1>2. Counted' /\ QueueInv' /\ \A d \in Execs : Sent(d)' <=> Sent(d)
  BY <1>1, SameWorkers, Unqueued
<1>3. kern[e] \in Kernels /\ pc'[e] = to
  BY <1>1 DEF TypeOK, Moves
<1>4. TypeOK'
  BY <1>1, <1>3, LocksOnly DEF TypeOK, Moves, args, pool, kernelVars
<1>5. ASSUME NEW d \in Execs \ {e} PROVE ExecInv(d)'
  <2>1. lock'[kern[d]] = d <=> lock[kern[d]] = d
    BY <1>1, LocksOnly DEF Moves
  <2>2. ExecInv(d) /\ pc'[d] = pc[d] /\ UNCHANGED <<stopped, flagged, replied>>
    BY <1>1 DEF LocalInv, TypeOK, Moves, pool, kernelVars
  <2>3. QED BY <1>1, <1>2, <2>1, <2>2, Untouched DEF Moves
<1>6. PoolInv'
  BY <1>2, <1>4 DEF PoolInv, PoolAccounts, Counted
<1>7. QED
  BY <1>2, <1>3, <1>5, <1>6 DEF LocalInv

\* How an exit of the try block moves.
LEMMA Exits ==
  ASSUME LocalInv, NEW e \in Execs, pc[e] \in Inside, NEW how \in Results, Exit(e, how),
         UNCHANGED <<args, via, misses, pool, kernelVars, life>>
  PROVE  /\ Moves(e, "done") /\ result'[e] = how /\ lock'[kern'[e]] # e
<1>1. TypeOK /\ lock[kern[e]] = e
  BY DEF LocalInv, PoolInv, PoolAccounts, ExecInv, LockKept
<1>2. UNCHANGED <<kern, via, misses>>
  BY DEF args
<1>3. LocksRight(e)
  BY <1>1 DEF LocksRight, Exit
<1>4. lock'[kern'[e]] # e
  BY <1>1, <1>2, NoHolderAssumption DEF Exit, TypeOK
<1>5. result' \in [Execs -> Results] /\ result'[e] = how /\ \A d \in Execs \ {e} : result'[d] = result[d]
  BY <1>1 DEF Exit, TypeOK
<1>6. QED BY <1>1, <1>2, <1>3, <1>4, <1>5 DEF Moves, Exit, Goto, PCs, TypeOK

LEMMA BeforeSubmit ==
  ASSUME LocalInv, NEW e \in Execs, Enter(e) \/ Acquire(e) \/ AcquireTimeout(e) \/ Refused(e)
  PROVE  LocalInv'
<1>1. TypeOK /\ ExecInv(e)
  BY DEF LocalInv, PoolInv, PoolAccounts
<1>2. CASE Enter(e)
  <2>1. PICK to \in {"locking", "done"} :
          /\ Moves(e, to) /\ pc[e] = "idle" /\ UNCHANGED <<kern, lock, pool, misses, replied>>
          /\ IF to = "done" THEN result'[e] = "refused" ELSE UNCHANGED result
    <3>1. UNCHANGED <<args, via, misses, lock, pool, kernelVars, life>> /\ pc[e] = "idle" /\ LocksRight(e)
      BY <1>2 DEF Enter, LocksRight
    <3>2. CASE life[kern[e]] # "gone"
      <4>1. Goto(e, "locking") /\ UNCHANGED result
        BY <1>2, <3>2 DEF Enter
      <4>2. QED BY <1>1, <3>1, <4>1 DEF Moves, Goto, PCs, TypeOK, args, kernelVars
    <3>3. CASE life[kern[e]] = "gone"
      <4>1. Goto(e, "done") /\ result' = [result EXCEPT ![e] = "refused"]
        BY <1>2, <3>3 DEF Enter
      <4>2. /\ result' \in [Execs -> Results] /\ result'[e] = "refused"
            /\ \A d \in Execs \ {e} : result'[d] = result[d]
        BY <1>1, <4>1 DEF TypeOK, Results
      <4>3. QED BY <1>1, <3>1, <4>1, <4>2 DEF Moves, Goto, PCs, TypeOK, args, kernelVars
    <3>4. QED BY <3>2, <3>3
  <2>2. ExecInv(e)'
    BY <1>1, <2>1, Moved DEF ExecInv, LockKept, WorkerKnown, Observed, Unanswered, Started, Inside, pool
  <2>3. QED BY <2>1, <2>2, Moved
<1>3. CASE Acquire(e)
  <2>1. Moves(e, "attach") /\ pc[e] = "locking" /\ UNCHANGED <<kern, pool, result, misses, replied>>
    BY <1>1, <1>3 DEF Acquire, Moves, LocksRight, Goto, PCs, TypeOK, args, kernelVars
  <2>2. lock'[kern'[e]] = e
    BY <1>1, <1>3, <2>1 DEF Acquire, TypeOK
  <2>3. ExecInv(e)'
    BY <1>1, <2>1, <2>2, Moved DEF ExecInv, LockKept, WorkerKnown, Observed, Unanswered, Started, Inside, pool
  <2>4. QED BY <2>1, <2>3, Moved
<1>4. CASE AcquireTimeout(e)
  <2>1. Moves(e, "done") /\ pc[e] = "locking" /\ UNCHANGED <<kern, lock, pool, misses, replied>>
        /\ result'[e] = "kernel_busy"
    BY <1>1, <1>4 DEF AcquireTimeout, Moves, LocksRight, Goto, PCs, Results, TypeOK, args, kernelVars
  <2>2. ExecInv(e)'
    BY <1>1, <2>1, Moved DEF ExecInv, LockKept, WorkerKnown, Observed, Unanswered, Started, Inside, pool
  <2>3. QED BY <2>1, <2>2, Moved
<1>5. CASE Refused(e)
  <2>1. Moves(e, "done") /\ pc[e] = "attach" /\ UNCHANGED <<kern, pool, misses, replied>>
        /\ result'[e] = "refused" /\ lock'[kern'[e]] # e
    BY <1>1, <1>5, Exits DEF Refused, Inside, Results, args, kernelVars
  <2>2. ExecInv(e)'
    BY <1>1, <2>1, Moved DEF ExecInv, LockKept, WorkerKnown, Observed, Unanswered, Started, Inside, pool
  <2>3. QED BY <2>1, <2>2, Moved
<1>6. QED BY <1>2, <1>3, <1>4, <1>5

\* The exits that answer with the reply, with a timeout or with an exception
\* that no clause catches.
LEMMA Ends ==
  ASSUME LocalInv, NEW e \in Execs, pc[e] \in Inside \ {"attach"}, worker[e] # "queued",
         NEW how \in Results \ {"gone"}, Exit(e, how),
         UNCHANGED <<args, via, misses, pool, kernelVars, life>>
  PROVE  LocalInv'
<1>1. ExecInv(e) /\ UNCHANGED <<kern, worker, stopped, flagged, misses, replied>>
  BY DEF LocalInv, args, pool, kernelVars
<1>2. Moves(e, "done") /\ result'[e] = how /\ lock'[kern'[e]] # e
  BY Exits DEF Inside
<1>3. ExecInv(e)'
  BY <1>1, <1>2, Moved DEF ExecInv, LockKept, WorkerKnown, Observed, Unanswered, Started, Inside
<1>4. QED BY <1>2, <1>3, Moved

\* From one point of the wait to another, without the lock or the result.
LEMMA Waits ==
  ASSUME LocalInv, NEW e \in Execs, pc[e] \in Inside \ {"attach"},
         NEW to \in Inside \ {"attach"}, Goto(e, to),
         UNCHANGED <<args, result, lock, pool, kernelVars, life>>,
         via' \in [Execs -> {"uncapped", "unstarted", "grace"}],
         misses' \in [Execs -> 0..2], \A d \in Execs \ {e} : misses'[d] = misses[d],
         misses'[e] > 0 => Started(e) /\ ~Sent(e),
         to \in {"interrupting", "grace"} => worker[e] # "queued",
         to = "probe" => Started(e) /\ (misses'[e] > 0 => e \notin replied),
         to = "dropping" => Unanswered(e),
         to = "raising" => worker[e] = "raised" \/ Unanswered(e)
  PROVE  LocalInv'
<1>1. /\ ExecInv(e) /\ TypeOK
      /\ UNCHANGED <<kern, lock, result, worker, stopped, flagged, replied>>
  BY DEF LocalInv, PoolInv, PoolAccounts, args, pool, kernelVars
<1>2. Moves(e, to)
  BY <1>1 DEF Moves, LocksRight, Goto, Inside, PCs, TypeOK
<1>3. Started(e)' <=> Started(e)
  BY <1>1 DEF Started
<1>4. Unanswered(e)' <=> Unanswered(e)
  BY <1>1, <1>2, <1>3, Moved DEF Unanswered
<1>5. pc'[e] = to /\ (Sent(e)' <=> Sent(e))
  BY <1>2, Moved
<1>6. LockKept(e)'
  BY <1>1, <1>5 DEF ExecInv, LockKept, Inside
<1>7. WorkerKnown(e)'
  BY <1>1, <1>3, <1>5 DEF ExecInv, WorkerKnown, Inside
<1>8. Observed(e)'
  BY <1>1, <1>3, <1>5 DEF ExecInv, Observed, Unanswered, Inside
<1>9. QED BY <1>2, <1>6, <1>7, <1>8, Moved DEF ExecInv

LEMMA AfterSubmit ==
  ASSUME LocalInv, NEW e \in Execs,
         \/ Reply(e) \/ Raise(e) \/ CapExpires(e) \/ InterruptFails(e) \/ GraceExpires(e)
         \/ Tick(e) \/ Probe(e)
  PROVE  LocalInv'
<1>1. TypeOK /\ ExecInv(e)
  BY DEF LocalInv, PoolInv, PoolAccounts
<1>2. ASSUME misses' = misses
      PROVE  /\ misses' \in [Execs -> 0..2] /\ \A d \in Execs \ {e} : misses'[d] = misses[d]
             /\ misses'[e] > 0 => Started(e) /\ ~Sent(e)
  BY <1>1, <1>2 DEF TypeOK, ExecInv, Observed
<1>3. CASE Reply(e)
  <2>1. \E how \in {"reply", "timeout"} : Exit(e, how)
    BY <1>3 DEF Reply
  <2>2. /\ pc[e] \in Inside \ {"attach"} /\ worker[e] # "queued"
        /\ UNCHANGED <<args, via, misses, pool, kernelVars, life>>
    BY <1>3 DEF Reply, Inside
  <2>3. QED BY <2>1, <2>2, Ends DEF Results
<1>4. CASE Raise(e)
  <2>1. CASE Exit(e, "escaped")
    <3>1. /\ pc[e] \in Inside \ {"attach"} /\ worker[e] # "queued"
          /\ UNCHANGED <<args, via, misses, pool, kernelVars, life>>
      BY <1>4 DEF Raise, Inside
    <3>2. QED BY <2>1, <3>1, Ends DEF Results
  <2>2. CASE Goto(e, "raising") /\ UNCHANGED <<result, lock>>
    <3>1. /\ pc[e] \in Inside \ {"attach"} /\ worker[e] = "raised"
          /\ UNCHANGED <<args, via, misses, pool, kernelVars, life>>
      BY <1>4 DEF Raise, Inside
    <3>2. via' \in [Execs -> {"uncapped", "unstarted", "grace"}] /\ "raising" \in Inside \ {"attach"}
      BY <1>1, <3>1 DEF TypeOK, Inside
    <3>3. QED BY <1>2, <2>2, <3>1, <3>2, Waits
  <2>3. QED BY <1>4, <2>1, <2>2 DEF Raise
<1>5. CASE CapExpires(e)
  <2>1. /\ pc[e] \in Inside \ {"attach"}
        /\ UNCHANGED <<args, result, misses, lock, pool, kernelVars, life>>
        /\ \E to \in {"interrupting", "watch"} :
             Goto(e, to) /\ (to = "interrupting" => worker[e] # "queued")
    BY <1>5 DEF CapExpires, Inside, Started
  <2>2. via' \in [Execs -> {"uncapped", "unstarted", "grace"}]
    BY <1>1, <1>5 DEF CapExpires, TypeOK
  <2>3. QED BY <1>2, <2>1, <2>2, Waits DEF Inside
<1>6. CASE InterruptFails(e)
  <2>1. /\ pc[e] = "interrupting" /\ Exit(e, "escaped")
        /\ UNCHANGED <<args, via, misses, pool, kernelVars, life>>
    BY <1>6 DEF InterruptFails
  <2>2. worker[e] # "queued"
    BY <1>1, <2>1 DEF ExecInv, WorkerKnown
  <2>3. QED BY <2>1, <2>2, Ends DEF Inside, Results
<1>7. CASE GraceExpires(e)
  <2>1. /\ pc[e] \in Inside \ {"attach"} /\ Goto(e, "watch")
        /\ UNCHANGED <<args, result, misses, lock, pool, kernelVars, life>>
    BY <1>7 DEF GraceExpires, Inside
  <2>2. via' \in [Execs -> {"uncapped", "unstarted", "grace"}] /\ "watch" \in Inside \ {"attach"}
    BY <1>1, <1>7 DEF GraceExpires, TypeOK, Inside
  <2>3. QED BY <1>2, <2>1, <2>2, Waits
<1>8. CASE Tick(e)
  <2>1. /\ pc[e] \in Inside \ {"attach"} /\ Goto(e, "probe")
        /\ UNCHANGED <<args, result, via, misses, lock, pool, kernelVars, life>>
    BY <1>8 DEF Tick, Inside
  <2>2. Started(e) /\ (misses'[e] > 0 => e \notin replied)
    BY <1>8, <2>1 DEF Tick, Started
  <2>3. via' \in [Execs -> {"uncapped", "unstarted", "grace"}] /\ "probe" \in Inside \ {"attach"}
    BY <1>1, <2>1 DEF TypeOK, Inside
  <2>4. QED BY <1>2, <2>1, <2>2, <2>3, Waits
<1>9. CASE Probe(e)
  <2>1. /\ pc[e] = "probe" /\ pc[e] \in Inside \ {"attach"} /\ Started(e)
        /\ {"watch", "dropping"} \subseteq Inside \ {"attach"}
        /\ UNCHANGED <<args, result, via, lock, pool, kernelVars, life>>
    BY <1>1, <1>9 DEF Probe, Inside, ExecInv, Observed
  <2>2. via' \in [Execs -> {"uncapped", "unstarted", "grace"}]
    BY <1>1, <2>1 DEF TypeOK
  <2>3. CASE misses' = [misses EXCEPT ![e] = 0] /\ Goto(e, "watch")
    <3>1. misses' \in [Execs -> 0..2] /\ misses'[e] = 0 /\ \A d \in Execs \ {e} : misses'[d] = misses[d]
      BY <1>1, <2>3 DEF TypeOK
    <3>2. QED BY <2>1, <2>2, <2>3, <3>1, Waits
  <2>4. CASE /\ queue[kern[e]] = <<>>
             /\ misses' = [misses EXCEPT ![e] = IF @ < 2 THEN @ + 1 ELSE @]
             /\ Goto(e, IF StoppedRunning(misses[e] + 1) THEN "dropping" ELSE "watch")
    <3>1. misses' \in [Execs -> 0..2] /\ \A d \in Execs \ {e} : misses'[d] = misses[d]
      BY <1>1, <2>4 DEF TypeOK
    <3>2. ~Sent(e)
      BY <2>4 DEF Sent, Range
    <3>3. CASE misses[e] > 0
      <4>1. e \notin replied
        BY <1>1, <2>1, <3>3 DEF ExecInv, Observed
      <4>2. \E to \in {"watch", "dropping"} : Goto(e, to)
        BY <2>4
      <4>3. Unanswered(e)
        BY <2>1, <3>2, <4>1 DEF Unanswered
      <4>4. QED BY <2>1, <2>2, <3>1, <3>2, <4>2, <4>3, Waits
    <3>4. CASE ~(misses[e] > 0)
      <4>1. misses[e] = 0
        BY <1>1, <3>4 DEF TypeOK
      <4>2. Goto(e, "watch")
        BY <2>4, <4>1 DEF StoppedRunning
      <4>3. QED BY <2>1, <2>2, <3>1, <3>2, <4>2, Waits
    <3>5. QED BY <3>3, <3>4
  <2>5. QED BY <1>9, <2>3, <2>4 DEF Probe
<1>10. QED BY <1>3, <1>4, <1>5, <1>6, <1>7, <1>8, <1>9

----
(* The pool's threads and the kernel. *)

\* The facts that every step starts from.
LEMMA LocalFacts ==
  ASSUME LocalInv
  PROVE  TypeOK /\ Counted /\ QueueInv /\ \A e \in Execs : ExecInv(e) /\ kern[e] \in Kernels
BY PoolIsCounted DEF LocalInv, PoolInv, PoolAccounts, TypeOK

LEMMA SubmitStep ==
  ASSUME LocalInv, NEW e \in Execs, Submit(e) PROVE LocalInv'
<1>1. /\ TypeOK /\ Counted /\ QueueInv /\ ExecInv(e)
      /\ UNCHANGED <<kern, capped, patient, result, via, misses, lock, stopped, flagged, orphans, queue, humans,
                     replied, life>>
  BY LocalFacts DEF Submit, args, kernelVars
<1>2. pc[e] = "attach" /\ worker[e] = "none" /\ e \notin flagged
  BY <1>1 DEF Submit, ExecInv, WorkerKnown, Started
<1>3. Counted'
  BY <1>1, <1>2, Accepted DEF Submit
<1>4. QueueInv' /\ \A d \in Execs : Sent(d)' <=> Sent(d)
  BY <1>1, Unqueued
<1>5. pc' \in [Execs -> PCs] /\ pc'[e] \in {"wait", "watch"} /\ \A d \in Execs \ {e} : pc'[d] = pc[d]
  BY <1>1 DEF Submit, Goto, TypeOK, PCs
<1>6. worker'[e] = "queued" /\ \A d \in Execs \ {e} : worker'[d] = worker[d]
  BY <1>1 DEF Submit, TypeOK
<1>7. TypeOK'
  BY <1>1, <1>3, <1>5 DEF TypeOK, Counted, Submit
<1>8. ExecInv(e)'
  <2>1. LockKept(e)'
    BY <1>1, <1>2, <1>5 DEF ExecInv, LockKept, Inside
  <2>2. WorkerKnown(e)'
    BY <1>1, <1>2, <1>4, <1>5, <1>6 DEF ExecInv, WorkerKnown, Started, Inside
  <2>3. Observed(e)'
    BY <1>1, <1>2, <1>4, <1>5, <1>6 DEF ExecInv, Observed, Started, Unanswered
  <2>4. QED BY <2>1, <2>2, <2>3 DEF ExecInv
<1>9. ASSUME NEW d \in Execs \ {e} PROVE ExecInv(d)'
  BY <1>1, <1>4, <1>5, <1>6, LocalFacts, Untouched
<1>10. QED BY <1>3, <1>4, <1>7, <1>8, <1>9 DEF LocalInv, PoolInv, PoolAccounts, Counted

\* The steps of the threads and of the kernel leave the coroutines where they are.
LEMMA Behind ==
  ASSUME NEW d \in Execs, ExecInv(d), UNCHANGED <<args, coVars>>,
         Started(d) => Started(d)',
         worker[d] # "none" => worker'[d] # "none",
         worker'[d] \in {"none", "queued"} => worker[d] = worker'[d],
         worker[d] = "none" => worker'[d] = "none",
         worker[d] = "raised" => worker'[d] = "raised",
         worker'[d] = "raised" => d \in stopped',
         worker'[d] = "returned" => d \in replied',
         d \in stopped => d \in stopped',
         d \in flagged' => Started(d)',
         Sent(d)' => Sent(d) \/ worker[d] = "queued",
         Sent(d)' => Started(d)' /\ d \notin replied',
         d \in replied => d \in replied',
         d \in replied' => d \in replied \/ Sent(d)
  PROVE  ExecInv(d)'
<1>1. UNCHANGED <<kern, pc, result, misses, lock>>
  BY DEF args, coVars
<1>2. LockKept(d)'
  BY <1>1 DEF ExecInv, LockKept
<1>3. WorkerKnown(d)'
  BY <1>1 DEF ExecInv, WorkerKnown, Started
<1>4. Unanswered(d) => Unanswered(d)'
  BY DEF Unanswered, Started
<1>5. Observed(d)'
  BY <1>1, <1>4 DEF ExecInv, Observed, Started
<1>6. QED BY <1>2, <1>3, <1>5 DEF ExecInv

LEMMA WorkerStartsStep ==
  ASSUME LocalInv, NEW e \in Execs, WorkerStarts(e) PROVE LocalInv'
<1>1. /\ TypeOK /\ Counted /\ QueueInv /\ ExecInv(e) /\ kern[e] \in Kernels
      /\ UNCHANGED <<args, coVars>> /\ UNCHANGED <<kern, stopped, attached, flagged, humans, replied, life>>
  BY LocalFacts DEF WorkerStarts, args
<1>2. worker[e] = "queued" /\ ~Sent(e) /\ e \notin replied /\ e \notin flagged
  BY <1>1 DEF WorkerStarts, ExecInv, WorkerKnown, Started
<1>3. /\ Counted' /\ QueueInv'
      /\ worker'[e] \in {"running", "raised"} /\ (worker'[e] = "raised" => e \in stopped)
      /\ \A d \in Execs \ {e} : worker'[d] = worker[d] /\ (Sent(d)' <=> Sent(d))
  <2>1. CASE e \in stopped
    <3>1. Unwind(e, "raised") /\ UNCHANGED queue
      BY <2>1 DEF WorkerStarts
    <3>2. Counted'
      BY <1>1, <1>2, <3>1, Unwinds DEF LiveWorkers, Unwound
    <3>3. worker'[e] = "raised" /\ \A d \in Execs \ {e} : worker'[d] = worker[d]
      BY <1>1, <3>1 DEF Unwind, TypeOK
    <3>4. QED BY <1>1, <2>1, <3>1, <3>2, <3>3, Unqueued
  <2>2. CASE e \notin stopped
    <3>1. /\ worker' = [worker EXCEPT ![e] = "running"] /\ UNCHANGED <<poolInflight, orphans>>
          /\ queue' \in {queue, [queue EXCEPT ![kern[e]] = Append(@, e)]}
      BY <2>2 DEF WorkerStarts
    <3>2. Counted'
      BY <1>1, <1>2, <3>1, TakenUp
    <3>3. worker'[e] = "running" /\ \A d \in Execs \ {e} : worker'[d] = worker[d]
      BY <1>1, <3>1 DEF TypeOK
    <3>4. QueueInv' /\ \A d \in Execs \ {e} : Sent(d)' <=> Sent(d)
      <4>1. CASE UNCHANGED queue BY <1>1, <4>1, Unqueued
      <4>2. CASE ~UNCHANGED queue BY <1>1, <1>2, <3>1, <4>2, Appended
      <4>3. QED BY <4>1, <4>2
    <3>5. QED BY <3>2, <3>3, <3>4
  <2>3. QED BY <2>1, <2>2
<1>4. TypeOK'
  <2>1. \A k \in Kernels : Range(queue'[k]) \subseteq Execs \cup {Human}
    BY <1>3 DEF QueueInv, Range
  <2>2. QED BY <1>1, <1>3, <2>1 DEF TypeOK, Counted, args, coVars
<1>5. ASSUME NEW d \in Execs PROVE ExecInv(d)'
  <2>1. ExecInv(d)
    BY LocalFacts
  <2>2. CASE d = e
    BY <1>1, <1>2, <1>3, <2>1, <2>2, Behind DEF Started
  <2>3. CASE d # e
    BY <1>1, <1>3, <2>1, <2>3, Behind DEF Started, ExecInv, WorkerKnown
  <2>4. QED BY <2>2, <2>3
<1>6. QED BY <1>3, <1>4, <1>5 DEF LocalInv, PoolInv, PoolAccounts, Counted

LEMMA WorkerReturnsStep ==
  ASSUME LocalInv, NEW e \in Execs, WorkerReturns(e) PROVE LocalInv'
<1>1. /\ TypeOK /\ Counted /\ QueueInv /\ ExecInv(e) /\ worker[e] = "running"
      /\ UNCHANGED <<args, coVars>>
      /\ UNCHANGED <<kern, stopped, attached, flagged, queue, humans, replied, life>>
  BY LocalFacts DEF WorkerReturns, args, kernelVars
<1>2. \E h \in Unwound : Unwind(e, h) /\ (h = "raised" => e \in stopped) /\ (h = "returned" => e \in replied)
  <2>1. CASE e \in replied /\ Unwind(e, "returned")
    BY <2>1 DEF Unwound
  <2>2. CASE e \in stopped /\ Unwind(e, "raised")
    BY <2>2 DEF Unwound
  <2>3. QED BY <2>1, <2>2 DEF WorkerReturns
<1> PICK how \in Unwound : Unwind(e, how) /\ (how = "raised" => e \in stopped) /\ (how = "returned" => e \in replied)
  BY <1>2
<1>3. Counted'
  BY <1>1, Unwinds DEF LiveWorkers
<1>4. worker'[e] = how /\ \A d \in Execs \ {e} : worker'[d] = worker[d]
  BY <1>1 DEF Unwind, TypeOK
<1>5. QueueInv' /\ \A d \in Execs : Sent(d)' <=> Sent(d)
  BY <1>1, Unqueued
<1>6. TypeOK'
  BY <1>1, <1>3 DEF TypeOK, Counted, args, coVars
<1>7. ASSUME NEW d \in Execs PROVE ExecInv(d)'
  <2>1. ExecInv(d)
    BY LocalFacts
  <2>2. CASE d = e
    BY <1>1, <1>2, <1>4, <1>5, <2>1, <2>2, Behind DEF Started, ExecInv, WorkerKnown, Unwound
  <2>3. CASE d # e
    BY <1>1, <1>4, <1>5, <2>1, <2>3, Behind DEF Started, ExecInv, WorkerKnown
  <2>4. QED BY <2>2, <2>3
<1>8. QED BY <1>3, <1>5, <1>6, <1>7 DEF LocalInv, PoolInv, PoolAccounts, Counted

\* What a kernel does to its queue, whoever made it do so.
LEMMA QueueStep ==
  ASSUME LocalInv, UNCHANGED <<args, coVars, worker, flagged, poolInflight, orphans>>,
         QueueInv', stopped \subseteq stopped', stopped' \subseteq Execs, attached' \subseteq Execs,
         humans' \in 0..MaxHuman, replied \subseteq replied', replied' \subseteq Execs,
         life' \in [Kernels -> Lives],
         \A d \in Execs : Sent(d)' => Sent(d),
         \A d \in Execs : d \in replied' \ replied => Sent(d) /\ ~Sent(d)'
  PROVE  LocalInv'
<1>1. TypeOK /\ Counted
  BY LocalFacts
<1>2. Counted'
  BY <1>1, SameWorkers
<1>3. \A k \in Kernels : Range(queue'[k]) \subseteq Execs \cup {Human}
  BY DEF QueueInv, Range
<1>4. TypeOK'
  BY <1>1, <1>3 DEF TypeOK, args, coVars
<1>5. ASSUME NEW d \in Execs PROVE ExecInv(d)'
  <2>1. ExecInv(d)
    BY LocalFacts
  <2>2. Started(d)' <=> Started(d)
    BY DEF Started
  <2>3. QED BY <2>1, <2>2, Behind DEF ExecInv, WorkerKnown, Started
<1>6. QED BY <1>2, <1>4, <1>5 DEF LocalInv, PoolInv, PoolAccounts, Counted

LEMMA KernelSteps ==
  ASSUME LocalInv, NEW k \in Kernels, KernelStep(k) PROVE LocalInv'
<1>1. /\ TypeOK /\ QueueInv
      /\ UNCHANGED <<args, coVars, worker, flagged, poolInflight, orphans>>
      /\ UNCHANGED <<kern, stopped, attached, life>>
  BY LocalFacts DEF KernelStep, CellEnds, HumanRuns, KernelReset, args, pool
<1>2. CASE CellEnds(k)
  BY <1>1, <1>2, HeadGone, QueueStep DEF CellEnds, TypeOK
<1>3. CASE HumanRuns(k)
  <2>1. QueueInv' /\ \A d \in Execs : Sent(d)' <=> Sent(d)
    BY <1>1, <1>3, Appended, HumanAssumption DEF HumanRuns
  <2>2. humans' \in 0..MaxHuman /\ UNCHANGED replied
    BY <1>1, <1>3, MaxHumanAssumption DEF HumanRuns, TypeOK
  <2>3. QED BY <1>1, <2>1, <2>2, QueueStep DEF TypeOK
<1>4. CASE KernelReset(k)
  BY <1>1, <1>4, Cleared, QueueStep DEF KernelReset, TypeOK
<1>5. QED BY <1>2, <1>3, <1>4 DEF KernelStep

----
(* Interrupts, cleanups and restarts. *)

LEMMA InterruptSentStep ==
  ASSUME LocalInv, NEW e \in Execs, InterruptSent(e) PROVE LocalInv'
<1>1. /\ TypeOK /\ Counted /\ QueueInv /\ ExecInv(e) /\ kern[e] \in Kernels
      /\ UNCHANGED <<kern, capped, patient, result, via, misses, lock, worker, stopped, attached, flagged,
                     poolInflight, orphans, humans, life>>
      /\ pc[e] = "interrupting"
  BY LocalFacts DEF InterruptSent, args, pool
<1>2. pc' \in [Execs -> PCs] /\ pc'[e] = "grace" /\ \A d \in Execs \ {e} : pc'[d] = pc[d]
  BY <1>1 DEF InterruptSent, Goto, TypeOK, PCs
<1>3. /\ QueueInv' /\ replied \subseteq replied' /\ replied' \subseteq Execs
      /\ \A d \in Execs : Sent(d)' => Sent(d)
      /\ \A d \in Execs : d \in replied' \ replied => Sent(d) /\ ~Sent(d)'
  <2>1. CASE HeadEnds(kern[e])
    BY <1>1, <2>1, HeadGone
  <2>2. CASE UNCHANGED <<queue, replied>>
    BY <1>1, <2>2, Unqueued DEF TypeOK
  <2>3. QED BY <2>1, <2>2 DEF InterruptSent
<1>4. Counted'
  BY <1>1, SameWorkers
<1>5. \A k \in Kernels : Range(queue'[k]) \subseteq Execs \cup {Human}
  BY <1>3 DEF QueueInv, Range
<1>6. TypeOK'
  BY <1>1, <1>2, <1>3, <1>5 DEF TypeOK
<1>7. ASSUME NEW d \in Execs PROVE ExecInv(d)'
  <2>1. ExecInv(d) /\ (Started(d)' <=> Started(d))
    BY <1>1, LocalFacts DEF Started
  <2>2. Unanswered(d) => Unanswered(d)'
    BY <1>3, <2>1 DEF Unanswered
  <2>3. LockKept(d)'
    BY <1>1, <1>2, <2>1 DEF ExecInv, LockKept, Inside
  <2>4. WorkerKnown(d)'
    BY <1>1, <1>2, <1>3, <2>1 DEF ExecInv, WorkerKnown, Started, Inside
  <2>5. Observed(d)'
    BY <1>1, <1>2, <1>3, <2>1, <2>2 DEF ExecInv, Observed
  <2>6. QED BY <2>3, <2>4, <2>5 DEF ExecInv
<1>8. QED BY <1>3, <1>4, <1>6, <1>7 DEF LocalInv, PoolInv, PoolAccounts, Counted

\* e drops the client, counts its worker or not, and gets to `to`.
LEMMA Cleanup ==
  ASSUME LocalInv, NEW e \in Execs, NEW to \in {"raising", "done"},
         UNCHANGED <<args, via, misses, worker, poolInflight, kernelVars, life>>,
         DropClient(kern[e]), Orphan(e) \/ UNCHANGED <<flagged, orphans>>,
         pc' = [pc EXCEPT ![e] = to],
         lock' = IF to = "done" THEN [lock EXCEPT ![kern[e]] = NoHolder] ELSE lock,
         result' \in [Execs -> Results], \A d \in Execs \ {e} : result'[d] = result[d],
         pc[e] \in {"dropping", "raising"}, to = "raising" => Unanswered(e) /\ result' = result,
         result'[e] = "gone" => Unanswered(e)
  PROVE  LocalInv'
<1>1. /\ TypeOK /\ Counted /\ QueueInv /\ ExecInv(e) /\ kern[e] \in Kernels
      /\ UNCHANGED <<kern, capped, patient, queue, humans, replied>>
      /\ lock[kern[e]] = e
  BY LocalFacts DEF args, kernelVars, ExecInv, LockKept, Inside
<1>2. QueueInv' /\ \A d \in Execs : Sent(d)' <=> Sent(d)
  BY <1>1, Unqueued
<1>3. Counted' /\ flagged' \subseteq Execs
  <2>1. CASE Orphan(e)
    BY <1>1, <2>1, Orphaned DEF TypeOK
  <2>2. CASE UNCHANGED <<flagged, orphans>>
    BY <1>1, <2>2, SameWorkers DEF TypeOK
  <2>3. QED BY <2>1, <2>2
<1>4. pc' \in [Execs -> PCs] /\ pc'[e] = to /\ \A d \in Execs \ {e} : pc'[d] = pc[d]
  BY <1>1 DEF TypeOK, PCs
<1>5. LocksRight(e)
  BY <1>1 DEF LocksRight
<1>6. /\ lock' \in [Kernels -> Execs \cup {NoHolder}]
      /\ \A d \in Execs \ {e} : lock'[kern[d]] = d <=> lock[kern[d]] = d
      /\ lock'[kern[e]] = e <=> to = "raising"
  BY <1>1, <1>5, LocksOnly, NoHolderAssumption DEF TypeOK
<1>7. /\ stopped \subseteq stopped' /\ stopped' \subseteq Execs /\ attached' \subseteq Execs
      /\ \A d \in Execs \ {e} : d \in flagged' => d \in flagged
      /\ e \in flagged' => e \in flagged \/ worker[e] = "running"
  BY <1>1 DEF DropClient, Orphan, TypeOK
<1>8. TypeOK'
  BY <1>1, <1>3, <1>4, <1>6, <1>7 DEF TypeOK, Counted
<1>9. ASSUME NEW d \in Execs \ {e} PROVE ExecInv(d)'
  BY <1>1, <1>2, <1>4, <1>6, <1>7, LocalFacts, Untouched
<1>10. ExecInv(e)'
  <2>1. Unanswered(e)' <=> Unanswered(e)
    BY <1>1, <1>2 DEF Unanswered, Started
  <2>2. LockKept(e)'
    BY <1>1, <1>4, <1>6 DEF LockKept, Inside
  <2>3. WorkerKnown(e)'
    <3>1. Started(e)
      BY <1>1, <1>4 DEF ExecInv, Observed, WorkerKnown, Unanswered, Started
    <3>2. QED BY <1>1, <1>2, <1>4, <1>7, <3>1 DEF ExecInv, WorkerKnown, Started, Inside
  <2>4. result[e] = "none"
    BY <1>1 DEF ExecInv, Observed
  <2>5. Observed(e)'
    BY <1>1, <1>2, <1>4, <2>1, <2>4 DEF ExecInv, Observed, Started
  <2>6. QED BY <2>2, <2>3, <2>5 DEF ExecInv
<1>11. QED BY <1>2, <1>3, <1>8, <1>9, <1>10 DEF LocalInv, PoolInv, PoolAccounts, Counted

LEMMA CleanupSteps ==
  ASSUME LocalInv, NEW e \in Execs, DropAndOrphan(e) \/ GiveUp(e) PROVE LocalInv'
<1>1. TypeOK /\ ExecInv(e)
  BY LocalFacts
<1>2. CASE DropAndOrphan(e)
  <2>1. /\ UNCHANGED <<args, via, misses, worker, poolInflight, kernelVars, life>>
        /\ DropClient(kern[e]) /\ Orphan(e) /\ pc[e] = "dropping"
    BY <1>2 DEF DropAndOrphan
  <2>2. Unanswered(e)
    BY <1>1, <2>1 DEF ExecInv, Observed
  <2>3. CASE Exit(e, "gone")
    <3>1. result' \in [Execs -> Results] /\ \A d \in Execs \ {e} : result'[d] = result[d]
      BY <1>1, <2>3 DEF Exit, TypeOK, Results
    <3>2. /\ pc' = [pc EXCEPT ![e] = "done"]
          /\ lock' = IF "done" = "done" THEN [lock EXCEPT ![kern[e]] = NoHolder] ELSE lock
      BY <2>3 DEF Exit, Goto
    <3>3. QED BY <2>1, <2>2, <3>1, <3>2, Cleanup
  <2>4. CASE Goto(e, "raising") /\ UNCHANGED <<result, lock>>
    <3>1. /\ pc' = [pc EXCEPT ![e] = "raising"]
          /\ lock' = IF "raising" = "done" THEN [lock EXCEPT ![kern[e]] = NoHolder] ELSE lock
      BY <2>4 DEF Goto
    <3>2. QED BY <1>1, <2>1, <2>2, <2>4, <3>1, Cleanup DEF TypeOK
  <2>5. QED BY <1>2, <2>3, <2>4 DEF DropAndOrphan
<1>3. CASE GiveUp(e)
  <2> DEFINE how == IF via[e] = "grace" THEN "timeout"
                    ELSE IF worker[e] = "raised" THEN "failed" ELSE "gone"
  <2>1. /\ UNCHANGED <<args, via, misses, worker, poolInflight, kernelVars, life>>
        /\ DropClient(kern[e]) /\ (Orphan(e) \/ UNCHANGED <<flagged, orphans>>) /\ pc[e] = "raising"
        /\ Exit(e, how)
    BY <1>3 DEF GiveUp
  <2>2. how \in Results /\ (how = "gone" => Unanswered(e))
    BY <1>1, <2>1 DEF ExecInv, Observed, Results
  <2> HIDE DEF how
  <2>3. result' \in [Execs -> Results] /\ result'[e] = how /\ \A d \in Execs \ {e} : result'[d] = result[d]
    BY <1>1, <2>1, <2>2 DEF Exit, TypeOK
  <2>4. /\ pc' = [pc EXCEPT ![e] = "done"]
        /\ lock' = IF "done" = "done" THEN [lock EXCEPT ![kern[e]] = NoHolder] ELSE lock
    BY <2>1 DEF Exit, Goto
  <2>5. QED BY <2>1, <2>2, <2>3, <2>4, Cleanup
<1>4. QED BY <1>2, <1>3

LEMMA ClosingSteps ==
  ASSUME LocalInv, NEW k \in Kernels, Closing(k) PROVE LocalInv'
<1>1. /\ TypeOK /\ QueueInv
      /\ UNCHANGED <<args, coVars, worker, flagged, poolInflight, orphans>>
      /\ UNCHANGED <<kern, humans, replied>> /\ life' \in [Kernels -> Lives]
      /\ stopped \subseteq stopped' /\ stopped' \subseteq Execs /\ attached' \subseteq Execs
      /\ queue' \in {queue, [queue EXCEPT ![k] = <<>>]}
  <2>1. TypeOK /\ QueueInv
    BY LocalFacts
  <2>2. CASE \E for \in Lives : Drops(k, for)
    BY <2>1, <2>2 DEF Drops, DropClient, args, kernelVars, TypeOK
  <2>3. CASE \E from, to \in Lives : Sweeps(k, from, to)
    BY <2>1, <2>3 DEF Sweeps, args, pool, TypeOK
  <2>4. CASE RequestFails(k)
    BY <2>1, <2>4 DEF RequestFails, args, pool, kernelVars, TypeOK, Lives
  <2>5. QED
    BY <2>2, <2>3, <2>4 DEF Closing, RestartDrops, StopDrops, RestartPosts, StopDeletes, Lives
<1>2. QueueInv' /\ \A d \in Execs : Sent(d)' => Sent(d)
  <2>1. CASE queue' = queue
    BY <1>1, <2>1, Unqueued
  <2>2. CASE queue' = [queue EXCEPT ![k] = <<>>]
    BY <1>1, <2>2, Cleared
  <2>3. QED BY <1>1, <2>1, <2>2
<1>3. humans' \in 0..MaxHuman /\ replied' \subseteq Execs
  BY <1>1 DEF TypeOK
<1>4. QED BY <1>1, <1>2, <1>3, QueueStep

----
(* The invariant. *)

LEMMA LocalInvInit == Init => LocalInv
<1> SUFFICES ASSUME Init PROVE LocalInv
  OBVIOUS
<1>1. /\ LiveWorkers = {} /\ flagged \cap LiveWorkers = {}
      /\ worker \in [Execs -> {"none", "queued", "running"} \cup Unwound]
  BY DEF Init, LiveWorkers
<1>2. Counted
  BY <1>1, FS_EmptySet, WorkersAssumption DEF Counted, Init
<1>3. <<>> \in Seq(Execs \cup {Human}) /\ DOMAIN (<<>>) = {} /\ Range(<<>>) = {}
  BY DEF Range
<1>4. QueueInv
  BY <1>3 DEF QueueInv, Init
<1>5. TypeOK
  BY <1>2, <1>3, MaxHumanAssumption DEF TypeOK, Init, Counted, PCs, Results, Lives
<1>6. ASSUME NEW e \in Execs PROVE ExecInv(e)
  <2>1. lock[kern[e]] # e /\ ~Sent(e)
    BY <1>3, NoHolderAssumption DEF Init, Sent
  <2>2. QED BY <2>1 DEF Init, ExecInv, LockKept, WorkerKnown, Observed, Unanswered, Started, Inside
<1>7. QED BY <1>2, <1>4, <1>5, <1>6 DEF LocalInv, PoolInv, PoolAccounts, Counted

LEMMA LocalInvStep == LocalInv /\ [Next]_vars => LocalInv'
<1> SUFFICES ASSUME LocalInv, [Next]_vars PROVE LocalInv'
  OBVIOUS
<1>1. CASE UNCHANGED vars
  BY <1>1 DEF vars, args, coVars, pool, kernelVars, LocalInv, PoolInv, PoolAccounts, LiveWorkers, TypeOK,
              QueueInv, ExecInv, LockKept, WorkerKnown, Observed, Unanswered, Started, Sent
<1>2. ASSUME NEW e \in Execs, Enter(e) \/ Coroutine(e) PROVE LocalInv'
  BY <1>2, BeforeSubmit, SubmitStep, AfterSubmit, InterruptSentStep, CleanupSteps DEF Coroutine
<1>3. ASSUME NEW e \in Execs, Thread(e) PROVE LocalInv'
  BY <1>3, WorkerStartsStep, WorkerReturnsStep DEF Thread
<1>4. ASSUME NEW k \in Kernels, KernelStep(k) \/ Closing(k) PROVE LocalInv'
  BY <1>4, KernelSteps, ClosingSteps
<1>5. QED BY <1>1, <1>2, <1>3, <1>4 DEF Next

LEMMA LocalInvariance == Spec => []LocalInv
BY LocalInvInit, LocalInvStep, PTL DEF Spec

\* The pool's counters say what they claim, and an accepted item always finds a
\* free thread, however many cleanup paths gave up on the same worker
\* (_exec_done, _orphan_worker); every variable keeps its type.
THEOREM PoolIsAccounted == Spec => []PoolAccounts
<1>1. LocalInv => PoolAccounts
  BY DEF LocalInv, PoolInv
<1>2. QED BY <1>1, LocalInvariance, PTL

\* Work whose reply arrived is never declared unrecoverable: the watchdog that
\* gives up saw the kernel idle twice, and the second time the reply was still
\* not there (_await_uncapped).
THEOREM NothingWrittenOff == Spec => []NothingIsWrittenOff
<1>1. LocalInv => NothingIsWrittenOff
  BY DEF LocalInv, ExecInv, Observed, Unanswered, NothingIsWrittenOff
<1>2. QED BY <1>1, LocalInvariance, PTL

----
(***************************************************************************)
(* Nothing is left on a kernel that nobody listens to, as long as Jupyter  *)
(* answers requests to interrupt and to restart.                           *)
(***************************************************************************)

LEMMA StaysCovered ==
  ASSUME NEW d \in Execs, Covered(d), UNCHANGED kern, Sent(d)' => Sent(d),
         d \in stopped' => d \in stopped, pc'[d] = "done" => pc[d] = "done" \/ ~Sent(d) \/ d \in stopped,
         d \in stopped => d \in stopped', life'[kern[d]] = life[kern[d]]
  PROVE  Covered(d)'
BY DEF Covered, AboutToBeSwept

\* A coroutine that moves without an effect on the kernel or on the client, to
\* its end only when its code is off the kernel or its client was stopped.
LEMMA MovesCovered ==
  ASSUME LocalInv, AllCovered, NEW e \in Execs,
         UNCHANGED <<kern, queue, stopped, life>>,
         \E to \in PCs : Goto(e, to) /\ (to = "done" => ~Sent(e) \/ e \in stopped)
  PROVE  AllCovered'
<1>1. TypeOK
  BY LocalFacts
<1>2. PICK to \in PCs : Goto(e, to) /\ (to = "done" => ~Sent(e) \/ e \in stopped)
  OBVIOUS
<1>3. pc'[e] = to /\ \A d \in Execs \ {e} : pc'[d] = pc[d]
  BY <1>1, <1>2 DEF Goto, TypeOK
<1>4. \A d \in Execs : Sent(d)' <=> Sent(d)
  BY DEF Sent
<1>5. ASSUME NEW d \in Execs PROVE Covered(d)'
  BY <1>2, <1>3, <1>4, StaysCovered DEF AllCovered
<1>6. QED BY <1>5 DEF AllCovered

LEMMA CoroutineCovered ==
  ASSUME LocalInv, AllCovered, RestAnswers, NEW e \in Execs,
         \/ Enter(e) \/ Acquire(e) \/ AcquireTimeout(e) \/ Refused(e) \/ Submit(e) \/ Reply(e) \/ Raise(e)
         \/ CapExpires(e) \/ InterruptFails(e) \/ GraceExpires(e) \/ Tick(e) \/ Probe(e)
  PROVE  AllCovered'
<1>1. ExecInv(e)
  BY LocalFacts
<1>2. UNCHANGED <<kern, queue, stopped, life>>
  BY DEF Enter, Acquire, AcquireTimeout, Refused, Submit, Reply, Raise, CapExpires, InterruptFails,
         GraceExpires, Tick, Probe, args, pool, kernelVars
<1>3. CASE Acquire(e) \/ Submit(e) \/ CapExpires(e) \/ GraceExpires(e) \/ Tick(e) \/ Probe(e)
  <2>1. \E to \in PCs \ {"done"} : Goto(e, to)
    BY <1>3 DEF Acquire, Submit, CapExpires, GraceExpires, Tick, Probe, PCs
  <2>2. QED BY <1>2, <2>1, MovesCovered
<1>4. CASE AcquireTimeout(e) \/ Refused(e)
  <2>1. Goto(e, "done") /\ ~Sent(e)
    BY <1>1, <1>4 DEF AcquireTimeout, Refused, Exit, ExecInv, WorkerKnown
  <2>2. QED BY <1>2, <2>1, MovesCovered DEF PCs
<1>5. CASE Reply(e)
  <2>1. Goto(e, "done") /\ ~Sent(e)
    BY <1>1, <1>5 DEF Reply, Exit, ExecInv, WorkerKnown
  <2>2. QED BY <1>2, <2>1, MovesCovered DEF PCs
<1>6. CASE Raise(e)
  <2>1. e \in stopped /\ (Goto(e, "done") \/ Goto(e, "raising"))
    BY <1>1, <1>6 DEF Raise, Exit, ExecInv, WorkerKnown
  <2>2. QED BY <1>2, <2>1, MovesCovered DEF PCs
<1>7. CASE InterruptFails(e)
  BY <1>7 DEF InterruptFails, RestAnswers
<1>8. CASE Enter(e)
  <2>1. (Goto(e, "locking") \/ Goto(e, "done")) /\ ~Sent(e)
    BY <1>1, <1>8 DEF Enter, ExecInv, WorkerKnown
  <2>2. QED BY <1>2, <2>1, MovesCovered DEF PCs
<1>9. QED BY <1>3, <1>4, <1>5, <1>6, <1>7, <1>8

\* The client that the holder of the lock drops served nobody whose code is on
\* the kernel, unless a restart is about to sweep it.
LEMMA CleanupCovered ==
  ASSUME LocalInv, AllCovered, NEW e \in Execs, DropAndOrphan(e) \/ GiveUp(e)
  PROVE  AllCovered'
<1>1. /\ TypeOK /\ ExecInv(e) /\ UNCHANGED <<kern, queue, life>> /\ DropClient(kern[e])
      /\ pc[e] \in {"dropping", "raising"} /\ \E to \in {"raising", "done"} : Goto(e, to)
  BY LocalFacts DEF DropAndOrphan, GiveUp, Exit, args, kernelVars
<1>2. \A d \in Execs : Sent(d)' <=> Sent(d)
  BY <1>1 DEF Sent
<1>3. \A d \in Execs \ {e} : pc'[d] = pc[d]
  BY <1>1 DEF Goto, TypeOK
<1>4. Sent(e) => e \in stopped
  BY <1>1 DEF ExecInv, Observed, WorkerKnown, Unanswered
<1>5. Covered(e)'
  <2>1. Sent(e)' => AboutToBeSwept(e)
    BY <1>2, <1>4 DEF AllCovered, Covered
  <2>2. QED BY <1>1, <2>1 DEF Covered, AboutToBeSwept, DropClient
<1>6. ASSUME NEW d \in Execs \ {e} PROVE Covered(d)'
  <2>1. Covered(d) /\ ExecInv(d)
    BY LocalFacts DEF AllCovered
  <2>2. CASE d \notin stopped' \/ d \in stopped
    <3>1. d \in stopped => d \in stopped'
      BY <1>1 DEF DropClient
    <3>2. QED BY <1>1, <1>2, <1>3, <2>1, <2>2, <3>1, StaysCovered
  <2>3. CASE d \in stopped' /\ d \notin stopped
    <3>1. kern[d] = kern[e]
      BY <1>1, <2>3 DEF DropClient
    <3>2. lock[kern[d]] = e
      BY <1>1, <3>1 DEF ExecInv, LockKept, Inside
    <3>3. pc[d] \in {"idle", "locking", "done"}
      BY <1>1, <2>1, <3>2 DEF ExecInv, LockKept, Inside, TypeOK, PCs
    <3>4. pc[d] = "done" \/ ~Sent(d)
      BY <2>1, <3>3 DEF ExecInv, WorkerKnown
    <3>5. ~Sent(d)
      BY <2>1, <2>3, <3>4 DEF Covered, AboutToBeSwept
    <3>6. QED BY <1>2, <3>5 DEF Covered
  <2>4. QED BY <2>2, <2>3
<1>7. QED BY <1>5, <1>6 DEF AllCovered

LEMMA AllCoveredStep ==
  ASSUME LocalInv, AllCovered, RestAnswers, [Next]_vars
  PROVE  AllCovered'
<1>1. TypeOK /\ QueueInv /\ \A e \in Execs : ExecInv(e) /\ Covered(e) /\ kern[e] \in Kernels
  BY LocalFacts DEF AllCovered
<1>2. CASE UNCHANGED vars
  BY <1>1, <1>2 DEF vars, args, coVars, pool, kernelVars, AllCovered, Covered, Sent, AboutToBeSwept
<1>3. ASSUME NEW e \in Execs, InterruptSent(e) PROVE AllCovered'
  <2>1. UNCHANGED <<kern, stopped, life>> /\ pc'[e] = "grace" /\ \A d \in Execs \ {e} : pc'[d] = pc[d]
    BY <1>1, <1>3 DEF InterruptSent, Goto, TypeOK, args, pool
  <2>2. \A d \in Execs : Sent(d)' => Sent(d)
    BY <1>1, <1>3, <2>1, HeadGone, Unqueued DEF InterruptSent
  <2>3. ASSUME NEW d \in Execs PROVE Covered(d)'
    BY <1>1, <2>1, <2>2, StaysCovered
  <2>4. QED BY <2>3 DEF AllCovered
<1>4. ASSUME NEW e \in Execs, Coroutine(e) \/ Enter(e) PROVE AllCovered'
  BY <1>3, <1>4, CoroutineCovered, CleanupCovered DEF Coroutine
<1>5. ASSUME NEW e \in Execs, WorkerStarts(e) PROVE AllCovered'
  <2>1. UNCHANGED <<kern, pc, stopped, life>> /\ worker[e] = "queued"
    BY <1>5 DEF WorkerStarts, args, coVars
  <2>2. pc[e] # "done" /\ ~Sent(e)
    BY <1>1, <2>1 DEF ExecInv, WorkerKnown
  <2>3. CASE e \in stopped
    <3>1. \A d \in Execs : Sent(d)' <=> Sent(d)
      BY <1>5, <2>1, <2>3 DEF WorkerStarts, Sent
    <3>2. QED BY <1>1, <2>1, <3>1, StaysCovered DEF AllCovered
  <2>4. CASE e \notin stopped
    <3>1. \A d \in Execs : Sent(d)' => Sent(d) \/ d = e
      <4>1. CASE queue' = [queue EXCEPT ![kern[e]] = Append(@, e)]
        BY <1>1, <2>1, <2>2, <4>1, Appended
      <4>2. CASE UNCHANGED queue
        BY <2>1, <4>2 DEF Sent
      <4>3. QED BY <1>5, <2>4, <4>1, <4>2 DEF WorkerStarts
    <3>2. Covered(e)'
      BY <2>1, <2>2, <2>4 DEF Covered
    <3>3. ASSUME NEW d \in Execs \ {e} PROVE Covered(d)'
      BY <1>1, <2>1, <3>1, StaysCovered
    <3>4. QED BY <3>2, <3>3 DEF AllCovered
  <2>5. QED BY <2>3, <2>4
<1>6. ASSUME NEW e \in Execs, WorkerReturns(e) PROVE AllCovered'
  <2>1. UNCHANGED <<kern, queue, pc, stopped, life>>
    BY <1>6 DEF WorkerReturns, args, coVars, kernelVars
  <2>2. \A d \in Execs : Sent(d)' <=> Sent(d)
    BY <2>1 DEF Sent
  <2>3. QED BY <1>1, <2>1, <2>2, StaysCovered DEF AllCovered
<1>7. ASSUME NEW k \in Kernels, KernelStep(k) PROVE AllCovered'
  <2>1. UNCHANGED <<kern, pc, stopped, life>>
    BY <1>7 DEF KernelStep, CellEnds, HumanRuns, KernelReset, args, coVars, pool
  <2>2. \A d \in Execs : Sent(d)' => Sent(d)
    <3>1. CASE CellEnds(k)
      BY <1>1, <2>1, <3>1, HeadGone DEF CellEnds
    <3>2. CASE HumanRuns(k)
      BY <1>1, <2>1, <3>2, Appended, HumanAssumption DEF HumanRuns
    <3>3. CASE KernelReset(k)
      BY <1>1, <2>1, <3>3, Cleared DEF KernelReset
    <3>4. QED BY <1>7, <3>1, <3>2, <3>3 DEF KernelStep
  <2>3. QED BY <1>1, <2>1, <2>2, StaysCovered DEF AllCovered
<1>8. ASSUME NEW k \in Kernels, NEW for \in {"restarting", "stopping"}, Drops(k, for) PROVE AllCovered'
  <2>1. /\ UNCHANGED <<kern, queue, pc>> /\ life'[k] = for /\ stopped \subseteq stopped'
        /\ \A j \in Kernels \ {k} : life'[j] = life[j]
        /\ \A d \in Execs : d \in stopped' => d \in stopped \/ kern[d] = k
    BY <1>1, <1>8 DEF Drops, DropClient, args, coVars, kernelVars, TypeOK
  <2>2. \A d \in Execs : Sent(d)' <=> Sent(d)
    BY <2>1 DEF Sent
  <2>3. ASSUME NEW d \in Execs PROVE Covered(d)'
    <3>1. CASE kern[d] = k
      <4>1. pc[d] = "done" /\ Sent(d) => d \in stopped
        BY <1>1 DEF Covered, AboutToBeSwept
      <4>2. QED BY <2>1, <2>2, <3>1, <4>1 DEF Covered, AboutToBeSwept
    <3>2. CASE kern[d] # k BY <1>1, <2>1, <2>2, <3>2, StaysCovered
    <3>3. QED BY <3>1, <3>2
  <2>4. QED BY <2>3 DEF AllCovered
<1>9. ASSUME NEW k \in Kernels, NEW from, NEW to, Sweeps(k, from, to) PROVE AllCovered'
  <2>1. /\ UNCHANGED <<kern, stopped, pc>> /\ queue' = [queue EXCEPT ![k] = <<>>]
        /\ \A j \in Kernels \ {k} : life'[j] = life[j]
    BY <1>1, <1>9 DEF Sweeps, args, coVars, pool, TypeOK
  <2>2. \A d \in Execs : Sent(d)' => Sent(d) /\ kern[d] # k
    BY <1>1, <2>1, Cleared
  <2>3. ASSUME NEW d \in Execs PROVE Covered(d)'
    <3>1. CASE kern[d] = k BY <2>2, <3>1 DEF Covered
    <3>2. CASE kern[d] # k BY <1>1, <2>1, <2>2, <3>2, StaysCovered
    <3>3. QED BY <3>1, <3>2
  <2>4. QED BY <2>3 DEF AllCovered
<1>10. ASSUME NEW k \in Kernels, Closing(k) PROVE AllCovered'
  <2>1. ~RequestFails(k)
    BY DEF RequestFails, RestAnswers
  <2>2. QED
    BY <1>8, <1>9, <1>10, <2>1 DEF Closing, RestartDrops, StopDrops, RestartPosts, StopDeletes
<1>11. QED
  BY <1>2, <1>4, <1>5, <1>6, <1>7, <1>10 DEF Next, Thread

LEMMA CoveredInvariance == ASSUME RestAnswers PROVE Spec => [](LocalInv /\ AllCovered)
<1>1. Init => AllCovered
  BY DEF Init, AllCovered, Covered, Sent, Range
<1>2. LocalInv /\ AllCovered /\ [Next]_vars => LocalInv' /\ AllCovered'
  BY LocalInvStep, AllCoveredStep
<1>3. QED BY <1>1, <1>2, LocalInvInit, PTL DEF Spec

\* If requests to interrupt, to restart and to delete are answered, an execution
\* whose coroutine is over has nothing left on its kernel (exec_local: "Do NOT
\* return yet"), unless a restart or a stop cut off its client and is about to
\* sweep it.
THEOREM ReturnedIsOver == ASSUME RestAnswers PROVE Spec => []ReturnedMeansOver
<1>1. AllCovered => ReturnedMeansOver
  BY DEF AllCovered, Covered, Sent, ReturnedMeansOver
<1>2. QED BY <1>1, CoveredInvariance, PTL

SparesOthers ==
  \A e \in Execs : (pc[e] = "interrupting" /\ pc'[e] = "grace") =>
    \A d \in Execs \ {e} :
      d \in Range(queue[kern[e]]) /\ d \notin Range(queue'[kern[e]]) => AboutToBeSwept(d)

\* Under the same assumption, an interrupt never ends another call's cell, unless
\* a restart or a stop under way has cut that call off already (exec_local).
THEOREM InterruptsSpareOthers == ASSUME RestAnswers PROVE Spec => InterruptsNoOtherCall
<1>1. LocalInv /\ AllCovered /\ [Next]_vars => SparesOthers
  <2> SUFFICES ASSUME LocalInv, AllCovered, [Next]_vars, NEW e \in Execs,
                      pc[e] = "interrupting", pc'[e] = "grace", NEW d \in Execs \ {e},
                      d \in Range(queue[kern[e]])
               PROVE  AboutToBeSwept(d)
    BY DEF SparesOthers
  <2> DEFINE k == kern[e]
  <2>1. TypeOK /\ QueueInv /\ k \in Kernels /\ ExecInv(e) /\ ExecInv(d) /\ Covered(d)
    BY LocalFacts DEF AllCovered
  <2>2. kern[d] = k /\ Sent(d)
    <3>1. PICK i \in DOMAIN queue[k] : queue[k][i] = d
      BY DEF Range
    <3>2. QED BY <2>1, <3>1 DEF QueueInv, Sent
  <2>3. lock[k] = e
    BY <2>1 DEF ExecInv, LockKept, Inside
  <2>4. pc[d] \in {"idle", "locking", "done"}
    BY <2>1, <2>2, <2>3 DEF ExecInv, LockKept, Inside, TypeOK, PCs
  <2>5. pc[d] = "done"
    BY <2>1, <2>2, <2>4 DEF ExecInv, WorkerKnown
  <2>6. QED BY <2>1, <2>2, <2>5 DEF Covered
<1>2. LocalInv /\ AllCovered /\ [Next]_vars => [SparesOthers]_vars
  BY <1>1
<1>3. QED
  BY <1>2, CoveredInvariance, PTL DEF Spec, InterruptsNoOtherCall, SparesOthers
====

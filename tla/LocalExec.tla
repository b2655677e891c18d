---- MODULE LocalExec ----
(***************************************************************************)
(* Execution on a local Jupyter kernel (exec_local and its helpers in      *)
(* src/mcp/backends/local_jupyter.py): a coroutine per execution that      *)
(* holds the kernel's lock, a worker thread of a bounded pool that sits in *)
(* the blocking client call, and the kernel process with its message       *)
(* queue, which a human co-editing in JupyterLab shares.                   *)
(*                                                                         *)
(* A step is the code between two awaits.  Time is abstracted to the order *)
(* of events, with one assumption: a worker that has its reply returns     *)
(* before two liveness intervals have gone by (Tick).                      *)
(***************************************************************************)
EXTENDS Naturals, FiniteSets, Sequences, SequencesExt

CONSTANTS
  Kernels, Execs,
  Workers,    \* _EXEC_POOL_WORKERS
  Human,      \* a cell run from JupyterLab
  MaxHuman,   \* bound on those
  Faults      \* REST calls that may fail

FaultKinds == {"interrupt_fails", "restart_fails", "delete_fails", "lookup_fails"}

ASSUME HumanAssumption == Human \notin Execs
ASSUME WorkersAssumption == Workers \in Nat \ {0}
ASSUME MaxHumanAssumption == MaxHuman \in Nat
ASSUME RestFaultsAssumption == Faults \subseteq FaultKinds

VARIABLES
  kern, capped,  \* arguments: the kernel, and whether there is a hard cap
  patient,       \* no acquire_timeout: waits for the lock as long as it takes
  pc, result,    \* the coroutine
  via,           \* what led it to wait for the kernel rather than a clock
  misses,        \* consecutive liveness checks that found the kernel idle
  lock,          \* state._locks: the holder
  worker,        \* the pool work item
  stopped,       \* workers whose client was stopped
  attached,      \* workers on the kernel's current client
  flagged,       \* futures marked _rmcp_orphaned
  poolInflight,  \* _exec_inflight
  orphans,       \* _orphaned_exec_workers
  queue,         \* what the kernel executes (head) and has queued
  humans,        \* cells run from JupyterLab so far
  replied,       \* code whose reply reached its client
  life           \* what stop_kernel, the reaper or restart_kernel do to the kernel

args == <<kern, capped, patient>>
pool == <<worker, stopped, attached, flagged, poolInflight, orphans>>
kernelVars == <<queue, humans, replied>>
coVars == <<pc, result, via, misses, lock>>
vars == <<args, coVars, pool, kernelVars, life>>

NoHolder == "free"
ASSUME NoHolderAssumption == NoHolder \notin Execs

Unwound == {"returned", "raised"}
LiveWorkers == {e \in Execs : worker[e] \in {"queued", "running"}}

PCs == {"idle", "locking", "attach", "wait", "interrupting", "grace", "watch", "probe",
        "dropping", "raising", "done"}
Lives == {"up", "restarting", "stopping", "gone"}
Results == {"none", "reply", "timeout", "failed", "refused", "kernel_busy", "gone", "escaped"}

TypeOK ==
  /\ kern \in [Execs -> Kernels] /\ capped \in [Execs -> BOOLEAN]
  /\ patient \in [Execs -> BOOLEAN]
  /\ pc \in [Execs -> PCs] /\ result \in [Execs -> Results]
  /\ via \in [Execs -> {"uncapped", "unstarted", "grace"}]
  /\ misses \in [Execs -> 0..2]
  /\ lock \in [Kernels -> Execs \cup {NoHolder}]
  /\ worker \in [Execs -> {"none", "queued", "running"} \cup Unwound]
  /\ stopped \subseteq Execs /\ attached \subseteq Execs /\ flagged \subseteq Execs
  /\ poolInflight \in 0..Workers /\ orphans \in 0..Workers
  /\ \A k \in Kernels : Range(queue[k]) \subseteq Execs \cup {Human}
  /\ humans \in 0..MaxHuman
  /\ replied \subseteq Execs
  /\ life \in [Kernels -> Lives]

Init ==
  /\ kern \in [Execs -> Kernels] /\ capped \in [Execs -> BOOLEAN]
  /\ patient \in [Execs -> BOOLEAN]
  /\ \A e \in Execs : ~patient[e] => ~capped[e]  \* introspection, timeout=0
  /\ pc = [e \in Execs |-> "idle"] /\ result = [e \in Execs |-> "none"]
  /\ via = [e \in Execs |-> "uncapped"]
  /\ misses = [e \in Execs |-> 0]
  /\ lock = [k \in Kernels |-> NoHolder]
  /\ worker = [e \in Execs |-> "none"]
  /\ stopped = {} /\ attached = {} /\ flagged = {}
  /\ poolInflight = 0 /\ orphans = 0
  /\ queue = [k \in Kernels |-> <<>>]
  /\ humans = 0
  /\ replied = {}
  /\ life = [k \in Kernels |-> "up"]

----
(* The coroutine up to the submission of the work item. *)

Goto(e, to) == pc' = [pc EXCEPT ![e] = to]

\* Every exit of the try block releases the lock.
Exit(e, how) ==
  /\ Goto(e, "done")
  /\ result' = [result EXCEPT ![e] = how]
  /\ lock' = [lock EXCEPT ![kern[e]] = NoHolder]

\* The kernel is looked up first: on a deleted one nothing is attempted.
Enter(e) ==
  /\ pc[e] = "idle"
  /\ IF life[kern[e]] # "gone"
     THEN Goto(e, "locking") /\ UNCHANGED result
     ELSE Goto(e, "done") /\ result' = [result EXCEPT ![e] = "refused"]
  /\ UNCHANGED <<args, via, misses, lock, pool, kernelVars, life>>

\* Mutant: the lock in the table is not the one that is held.
AcquireTaken(e) ==
  /\ pc[e] = "locking"
  /\ lock' = [lock EXCEPT ![kern[e]] = e]
  /\ Goto(e, "attach")
  /\ UNCHANGED <<args, result, via, misses, pool, kernelVars, life>>

Acquire(e) ==
  /\ pc[e] = "locking"
  /\ lock[kern[e]] = NoHolder
  /\ lock' = [lock EXCEPT ![kern[e]] = e]
  /\ Goto(e, "attach")
  /\ UNCHANGED <<args, result, via, misses, pool, kernelVars, life>>

AcquireTimeout(e) ==
  /\ pc[e] = "locking"
  /\ ~patient[e]
  /\ Goto(e, "done")
  /\ result' = [result EXCEPT ![e] = "kernel_busy"]
  /\ UNCHANGED <<args, via, misses, lock, pool, kernelVars, life>>

PoolFull == poolInflight >= Workers

\* No client could be connected, or no thread would take the item.
Refused(e) ==
  /\ pc[e] = "attach"
  /\ Exit(e, "refused")
  /\ UNCHANGED <<args, via, misses, pool, kernelVars, life>>

Submit(e) ==
  /\ pc[e] = "attach"
  /\ ~PoolFull
  /\ worker' = [worker EXCEPT ![e] = "queued"]
  /\ attached' = attached \cup {e}
  /\ poolInflight' = poolInflight + 1
  /\ Goto(e, IF capped[e] THEN "wait" ELSE "watch")
  /\ UNCHANGED <<args, result, via, misses, lock, stopped, flagged, orphans, kernelVars,
                 life>>

----
(* The worker thread and the kernel. *)

Started(e) == worker[e] \notin {"none", "queued"}

\* The done callbacks: _exec_done, and _unwound if the future was orphaned.
Unwind(e, how) ==
  /\ worker' = [worker EXCEPT ![e] = how]
  /\ poolInflight' = poolInflight - 1
  /\ orphans' = IF e \in flagged THEN orphans - 1 ELSE orphans

\* A pool thread takes the item, sets `started` and sends the code; on a
\* client that was stopped meanwhile the send raises, and a deleted kernel
\* never hears it.
WorkerStarts(e) ==
  /\ worker[e] = "queued"
  /\ Cardinality({d \in Execs : worker[d] = "running"}) < Workers
  /\ IF e \in stopped
     THEN Unwind(e, "raised") /\ UNCHANGED queue
     ELSE /\ worker' = [worker EXCEPT ![e] = "running"]
          /\ queue' = IF life[kern[e]] = "gone" THEN queue
                      ELSE [queue EXCEPT ![kern[e]] = Append(@, e)]
          /\ UNCHANGED <<poolInflight, orphans>>
  /\ UNCHANGED <<args, coVars, stopped, attached, flagged, humans, replied, life>>

WorkerReturns(e) ==
  /\ worker[e] = "running"
  /\ \/ e \in replied /\ Unwind(e, "returned")
     \/ e \in stopped /\ Unwind(e, "raised")
  /\ UNCHANGED <<args, coVars, stopped, attached, flagged, kernelVars, life>>

\* The cell at the head of the queue ends, by itself or interrupted; a client
\* that was not stopped gets the reply.
HeadEnds(k) ==
  /\ queue[k] # <<>>
  /\ queue' = [queue EXCEPT ![k] = Tail(@)]
  /\ replied' = replied \cup ({Head(queue[k])} \ ({Human} \cup stopped))

CellEnds(k) ==
  /\ HeadEnds(k)
  /\ UNCHANGED <<args, coVars, pool, humans, life>>

HumanRuns(k) ==
  /\ humans < MaxHuman
  /\ life[k] # "gone"
  /\ humans' = humans + 1
  /\ queue' = [queue EXCEPT ![k] = Append(@, Human)]
  /\ UNCHANGED <<args, coVars, pool, replied, life>>

\* Restarted in place (JupyterLab's button, an OOM kill): the websocket stays
\* open and no reply ever comes.
KernelReset(k) ==
  /\ queue[k] # <<>>
  /\ queue' = [queue EXCEPT ![k] = <<>>]
  /\ UNCHANGED <<args, coVars, pool, humans, replied, life>>

----
(* Waiting for the work item. *)

\* _drop_client: stop the kernel's current client, and wake its workers.
DropClient(k) ==
  LET users == {e \in attached : kern[e] = k}
  IN  /\ stopped' = stopped \cup users
      /\ attached' = attached \ users

\* Mutant: every cleanup path counts the same parked worker.
OrphanAgain(e) ==
  IF worker[e] = "running"
  THEN flagged' = flagged \cup {e} /\ orphans' = orphans + 1
  ELSE UNCHANGED <<flagged, orphans>>

\* _orphan_worker: count a worker given up on, once, unless it is over or
\* never started.
Orphan(e) ==
  IF worker[e] = "running" /\ e \notin flagged
  THEN flagged' = flagged \cup {e} /\ orphans' = orphans + 1
  ELSE UNCHANGED <<flagged, orphans>>

\* The awaited future has a reply.
Reply(e) ==
  /\ pc[e] \in {"wait", "grace", "watch"}
  /\ worker[e] = "returned"
  /\ Exit(e, IF pc[e] = "wait" \/ ~capped[e] THEN "reply" ELSE "timeout")
  /\ UNCHANGED <<args, via, misses, pool, kernelVars, life>>

\* The awaited future raises.  Inside the TimeoutError handler no sibling
\* except clause applies: only the finally block runs.
Raise(e) ==
  /\ worker[e] = "raised"
  /\ \/ /\ pc[e] = "wait" \/ (pc[e] = "watch" /\ via[e] # "unstarted")
        /\ Goto(e, "raising")
        /\ UNCHANGED <<result, lock>>
     \/ /\ pc[e] = "grace" \/ (pc[e] = "watch" /\ via[e] # "uncapped")
        /\ Exit(e, "escaped")
  /\ UNCHANGED <<args, via, misses, pool, kernelVars, life>>

\* The hard cap: interrupt only what has started.
CapExpires(e) ==
  /\ pc[e] = "wait"
  /\ IF Started(e)
     THEN Goto(e, "interrupting") /\ UNCHANGED via
     ELSE Goto(e, "watch") /\ via' = [via EXCEPT ![e] = "unstarted"]
  /\ UNCHANGED <<args, result, misses, lock, pool, kernelVars, life>>

\* The POST is answered; the interrupt ends the running cell, or does not.
InterruptSent(e) ==
  /\ pc[e] = "interrupting"
  /\ Goto(e, "grace")
  /\ HeadEnds(kern[e]) \/ UNCHANGED <<queue, replied>>
  /\ UNCHANGED <<args, result, via, misses, lock, pool, humans, life>>

\* The POST raises, again inside the TimeoutError handler.
InterruptFails(e) ==
  /\ "interrupt_fails" \in Faults
  /\ pc[e] = "interrupting"
  /\ Exit(e, "escaped")
  /\ UNCHANGED <<args, via, misses, pool, kernelVars, life>>

\* Mutant: an interrupt that did not land ends the wait all the same.
GraceReturns(e) ==
  /\ pc[e] = "grace"
  /\ Exit(e, "timeout")
  /\ UNCHANGED <<args, via, misses, pool, kernelVars, life>>

GraceExpires(e) ==
  /\ pc[e] = "grace"
  /\ Goto(e, "watch")
  /\ via' = [via EXCEPT ![e] = "grace"]
  /\ UNCHANGED <<args, result, misses, lock, pool, kernelVars, life>>

\* _await_uncapped: every interval, look whether the kernel still executes.
Tick(e) ==
  /\ pc[e] = "watch"
  /\ worker[e] = "running"
  /\ ~(misses[e] > 0 /\ e \in replied)
  /\ Goto(e, "probe")
  /\ UNCHANGED <<args, result, via, misses, lock, pool, kernelVars, life>>

\* Mutants: one idle observation is enough; none ever is.
StoppedOnce(n) == n >= 1
NeverStopped(n) == FALSE

StoppedRunning(n) == n >= 2

\* An error of the lookup counts as busy.
Probe(e) ==
  /\ pc[e] = "probe"
  /\ \/ /\ queue[kern[e]] # <<>> \/ "lookup_fails" \in Faults
        /\ misses' = [misses EXCEPT ![e] = 0]
        /\ Goto(e, "watch")
     \/ /\ queue[kern[e]] = <<>>
        /\ misses' = [misses EXCEPT ![e] = IF @ < 2 THEN @ + 1 ELSE @]
        /\ Goto(e, IF StoppedRunning(misses[e] + 1) THEN "dropping" ELSE "watch")
  /\ UNCHANGED <<args, result, via, lock, pool, kernelVars, life>>

\* The client is stopped in a thread; then the worker counts as orphaned, and
\* a RuntimeError tells that the result is unrecoverable.
DropAndOrphan(e) ==
  /\ pc[e] = "dropping"
  /\ DropClient(kern[e])
  /\ Orphan(e)
  /\ IF via[e] = "unstarted"
     THEN Exit(e, "gone")
     ELSE Goto(e, "raising") /\ UNCHANGED <<result, lock>>
  /\ UNCHANGED <<args, via, misses, worker, poolInflight, kernelVars, life>>

\* exec_local's own handlers drop the client once more, and answer with what
\* the sink holds if the cap had passed.
GiveUp(e) ==
  /\ pc[e] = "raising"
  /\ DropClient(kern[e])
  /\ IF via[e] = "grace" THEN UNCHANGED <<flagged, orphans>> ELSE Orphan(e)
  /\ Exit(e, IF via[e] = "grace" THEN "timeout"
             ELSE IF worker[e] = "raised" THEN "failed" ELSE "gone")
  /\ UNCHANGED <<args, via, misses, worker, poolInflight, kernelVars, life>>

----
(* restart_kernel and _delete_kernel (stop_kernel, the reaper, the capacity   *)
(* check): both drop the client and only then send their request; neither     *)
(* takes the lock.  One such call per kernel at a time.                       *)

Drops(k, for) ==
  /\ life[k] = "up"
  /\ DropClient(k)
  /\ life' = [life EXCEPT ![k] = for]
  /\ UNCHANGED <<args, coVars, worker, flagged, poolInflight, orphans, kernelVars>>

RestartDrops(k) == Drops(k, "restarting")

StopDrops(k) == Drops(k, "stopping")

\* The request reaches the kernel, which loses all it has queued.
Sweeps(k, from, to) ==
  /\ life[k] = from
  /\ queue' = [queue EXCEPT ![k] = <<>>]
  /\ life' = [life EXCEPT ![k] = to]
  /\ UNCHANGED <<args, coVars, pool, humans, replied>>

RestartPosts(k) == Sweeps(k, "restarting", "up")

\* The popped lock is of no more use: Enter finds no kernel.
StopDeletes(k) == Sweeps(k, "stopping", "gone")

\* The request fails, and the kernel lives on as it was.
RequestFails(k) ==
  /\ \/ "restart_fails" \in Faults /\ life[k] = "restarting"
     \/ "delete_fails" \in Faults /\ life[k] = "stopping"
  /\ life' = [life EXCEPT ![k] = "up"]
  /\ UNCHANGED <<args, coVars, pool, kernelVars>>

----
Coroutine(e) ==
  \/ Acquire(e) \/ AcquireTimeout(e) \/ Refused(e) \/ Submit(e)
  \/ Reply(e) \/ Raise(e) \/ CapExpires(e) \/ InterruptSent(e) \/ InterruptFails(e) \/ GraceExpires(e)
  \/ Tick(e) \/ Probe(e) \/ DropAndOrphan(e) \/ GiveUp(e)
Thread(e) == WorkerStarts(e) \/ WorkerReturns(e)
KernelStep(k) == CellEnds(k) \/ HumanRuns(k) \/ KernelReset(k)
Closing(k) ==
  \/ RestartDrops(k) \/ RestartPosts(k)
  \/ StopDrops(k) \/ StopDeletes(k) \/ RequestFails(k)

Next ==
  \/ \E e \in Execs : Enter(e) \/ Coroutine(e) \/ Thread(e)
  \/ \E k \in Kernels : KernelStep(k) \/ Closing(k)

Spec == Init /\ [][Next]_vars

\* The loop, the pool's threads and their timers run; Jupyter answers; cells end.
FairSpec ==
  /\ Spec
  /\ \A e \in Execs : WF_vars(Coroutine(e)) /\ WF_vars(Thread(e))
  /\ \A k \in Kernels : WF_vars(CellEnds(k))

----
(* Properties. *)

\* An execution whose client was stopped by a restart or a stop that has yet to
\* sweep the kernel (restart_kernel, _delete_kernel).
AboutToBeSwept(e) == e \in stopped /\ life[kern[e]] \in {"restarting", "stopping"}

\* An execution whose coroutine is over, so that the lock and the single-flight
\* claim are free, has nothing left on the kernel (exec_local: "Do NOT return
\* yet"), unless a restart or a stop under way cut off its client and has yet to
\* reach the kernel.
ReturnedMeansOver ==
  \A e \in Execs : pc[e] = "done" /\ e \in Range(queue[kern[e]]) => AboutToBeSwept(e)

\* Work whose reply arrived is not declared "unrecoverable" (_await_uncapped's
\* two consecutive observations).
NothingIsWrittenOff ==
  \A e \in Execs : result[e] = "gone" => e \notin replied

\* The counters say what they claim: items not done, and the abandoned part of
\* them, however many cleanup paths saw the same worker (_orphan_worker); so
\* "refuse rather than queue" works: an accepted item finds a free thread, parked
\* ones included.  The other variables stay in their range too.
PoolAccounts ==
  /\ TypeOK
  /\ poolInflight = Cardinality(LiveWorkers)
  /\ orphans = Cardinality(flagged \cap LiveWorkers)
  /\ Cardinality(LiveWorkers) <= Workers

\* An interrupt never ends another call's cell, unless a restart or a stop under
\* way has cut that call off already.  It may end a person's (exec_local).
InterruptsNoOtherCall ==
  [][\A e \in Execs : (pc[e] = "interrupting" /\ pc'[e] = "grace") =>
       \A d \in Execs \ {e} :
         d \in Range(queue[kern[e]]) /\ d \notin Range(queue'[kern[e]]) => AboutToBeSwept(d)]_vars

\* An interrupt never ends a person's cell.  It may (README, 5): one the caller's
\* own cell is queued behind, or one that began once that was over, with the
\* reply or the request still on its way.
InterruptSparesPeople ==
  [][\A e \in Execs : (pc[e] = "interrupting" /\ pc'[e] = "grace") =>
       LET k == kern[e] IN queue'[k] # queue[k] => Head(queue[k]) # Human]_vars

\* Every execution ends: a reply that will never come (a kernel restarted in
\* place) is noticed by the watchdog, whatever a human runs meanwhile.
ExecEnds == \A e \in Execs : pc[e] = "locking" ~> pc[e] = "done"
====

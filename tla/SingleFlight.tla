---- MODULE SingleFlight ----
(***************************************************************************)
(* The single-flight execution guard (src/mcp/state.py, ADR 0017/0018):    *)
(* one foreground execution per kernel, a caller that is always answered,  *)
(* and a result that outlives the client that stopped listening for it.    *)
(*                                                                         *)
(* One call is one execute_code / execute_cell request.  Its asyncio side  *)
(* is two coroutines: the caller (run_single_flight) and the shielded task *)
(* (_guarded) that runs the backend.  A step of the model is the code      *)
(* between two awaits.  Behind the task stands the kernel itself, a        *)
(* separate process that goes on executing whatever was sent to it.        *)
(***************************************************************************)
EXTENDS FiniteSets

CONSTANTS
  Kernels,   \* kernel ids
  Calls,     \* execute_* requests; the exec_id of a claim is its call
  Idents,    \* what makes two requests "the same call" (tool, mode, code)
  Pollers,   \* get_execution requests
  NoCall,    \* no execution
  Faults     \* which of FaultKinds the environment may inject

FaultKinds == {"stop_fails", "mcp_restart", "early_return"}

ASSUME NoCallAssumption == NoCall \notin Calls
ASSUME FaultsAssumption == Faults \subseteq FaultKinds

VARIABLES
  kern, ident,  \* the arguments of every call, chosen once
  caller,       \* where the caller's coroutine is
  reply,        \* what the client was answered
  abandoned,    \* calls whose info["abandoned"] is set
  task,         \* where the shielded task is
  inflight,     \* state._inflight
  lastExec,     \* state._last_exec
  kernel,       \* is the kernel process alive, and is it in the registry
  running,      \* code the kernel process is executing or has queued
  severed,      \* the part of it whose client was stopped
  closing,      \* kernels between _drop_client and the DELETE or restart after it
  poll          \* get_execution requests

args == <<kern, ident>>
callVars == <<caller, reply, abandoned>>
guardVars == <<inflight, lastExec>>
kernelVars == <<kernel, running, severed, closing>>
vars == <<args, callVars, task, guardVars, kernelVars, poll>>

----
MaybeCall == Calls \cup {NoCall}

\* Phases of the task: the claim is taken, the id resolved to a backend, the
\* code sent; then returned, raised, or lost with the process.
Live == {"claimed", "routed", "sent"}
Finished == {"ok", "raised"}

Record == [exec: MaybeCall, raised: BOOLEAN, abandoned: BOOLEAN,
           replayed: BOOLEAN, fresh: BOOLEAN]
NoRecord == [exec |-> NoCall, raised |-> FALSE, abandoned |-> FALSE,
             replayed |-> FALSE, fresh |-> FALSE]

Reply == [kind: {"none", "busy", "replay", "still_running", "result", "raised"},
          exec: MaybeCall]
NoReply == [kind |-> "none", exec |-> NoCall]

\* What a waiting poll asks for; of what it was told something, and what.
Poll == [pc: {"idle", "waiting", "answered"}, kern: Kernels, want: MaybeCall,
         of: MaybeCall,
         answer: {"none", "running", "finished", "unknown", "nothing"}]

TypeOK ==
  /\ kern \in [Calls -> Kernels]
  /\ ident \in [Calls -> Idents]
  /\ caller \in [Calls -> {"idle", "waiting", "answered", "gone"}]
  /\ reply \in [Calls -> Reply]
  /\ abandoned \subseteq Calls
  /\ task \in [Calls -> {"none"} \cup Live \cup Finished \cup {"lost"}]
  /\ inflight \in [Kernels -> MaybeCall]
  /\ lastExec \in [Kernels -> Record]
  /\ kernel \in [Kernels -> {"up", "killed", "gone", "untracked"}]
  /\ running \in [Kernels -> SUBSET Calls]
  /\ severed \subseteq Calls
  /\ closing \subseteq Kernels
  /\ poll \in [Pollers -> Poll]

Init ==
  /\ kern \in [Calls -> Kernels]
  /\ ident \in [Calls -> Idents]
  /\ caller = [c \in Calls |-> "idle"]
  /\ reply = [c \in Calls |-> NoReply]
  /\ abandoned = {}
  /\ task = [c \in Calls |-> "none"]
  /\ inflight = [k \in Kernels |-> NoCall]
  /\ lastExec = [k \in Kernels |-> NoRecord]
  /\ kernel = [k \in Kernels |-> "up"]
  /\ running = [k \in Kernels |-> {}]
  /\ severed = {}
  /\ closing = {}
  /\ poll \in [Pollers -> {[pc |-> "idle", kern |-> k, want |-> NoCall,
                            of |-> NoCall, answer |-> "none"] : k \in Kernels}]

----
(***************************************************************************)
(* run_single_flight up to its first await: busy, replay or claim, with no *)
(* other coroutine in between.                                             *)
(***************************************************************************)
Replayable(k, i) ==
  LET rec == lastExec[k]
  IN  /\ rec.exec # NoCall
      /\ rec.abandoned
      /\ ~rec.replayed
      /\ ident[rec.exec] = i
      /\ rec.fresh

Answer(c, kind, e) ==
  /\ caller' = [caller EXCEPT ![c] = "answered"]
  /\ reply' = [reply EXCEPT ![c] = [kind |-> kind, exec |-> e]]

Refuse(c) ==
  /\ caller[c] = "idle"
  /\ inflight[kern[c]] # NoCall
  /\ Answer(c, "busy", inflight[kern[c]])
  /\ UNCHANGED <<args, abandoned, task, guardVars, kernelVars, poll>>

\* Mutant: a replayed result stays available.
ReplayAgain(c) ==
  /\ caller[c] = "idle"
  /\ inflight[kern[c]] = NoCall
  /\ Replayable(kern[c], ident[c])
  /\ Answer(c, "replay", lastExec[kern[c]].exec)
  /\ UNCHANGED <<args, abandoned, task, guardVars, kernelVars, poll>>

Replay(c) ==
  /\ caller[c] = "idle"
  /\ inflight[kern[c]] = NoCall
  /\ Replayable(kern[c], ident[c])
  /\ lastExec' = [lastExec EXCEPT ![kern[c]].replayed = TRUE]
  /\ Answer(c, "replay", lastExec[kern[c]].exec)
  /\ UNCHANGED <<args, abandoned, task, inflight, kernelVars, poll>>

\* Mutant: the guard forgets the busy check and lets the kernel queue.
ClaimQueued(c) ==
  /\ caller[c] = "idle"
  /\ ~Replayable(kern[c], ident[c])
  /\ inflight' = [inflight EXCEPT ![kern[c]] = c]
  /\ task' = [task EXCEPT ![c] = "claimed"]
  /\ caller' = [caller EXCEPT ![c] = "waiting"]
  /\ UNCHANGED <<args, reply, abandoned, lastExec, kernelVars, poll>>

Claim(c) ==
  /\ caller[c] = "idle"
  /\ inflight[kern[c]] = NoCall
  /\ ~Replayable(kern[c], ident[c])
  /\ inflight' = [inflight EXCEPT ![kern[c]] = c]
  /\ task' = [task EXCEPT ![c] = "claimed"]
  /\ caller' = [caller EXCEPT ![c] = "waiting"]
  /\ UNCHANGED <<args, reply, abandoned, lastExec, kernelVars, poll>>

----
(***************************************************************************)
(* The other exits of run_single_flight.  The soft deadline and the        *)
(* client's cancellation can both win over a task that is already done:    *)
(* the caller has been scheduled but has not resumed yet.                  *)
(***************************************************************************)
Resume(c) ==
  /\ caller[c] = "waiting"
  /\ task[c] \in Finished
  /\ Answer(c, IF task[c] = "ok" THEN "result" ELSE "raised", c)
  /\ UNCHANGED <<args, abandoned, task, guardVars, kernelVars, poll>>

SoftDeadline(c) ==
  /\ caller[c] = "waiting"
  /\ Answer(c, "still_running", c)
  /\ UNCHANGED <<args, abandoned, task, guardVars, kernelVars, poll>>

\* Mutant: a record written before the cancellation is left as it is.
UncorrectedRecord(c) == lastExec

CorrectedRecord(c) ==
  IF lastExec[kern[c]].exec = c
  THEN [lastExec EXCEPT ![kern[c]].abandoned = TRUE]
  ELSE lastExec

\* Mutant: a cancelled caller gives its claim back.
CancelReleases(c) ==
  /\ caller[c] = "waiting"
  /\ caller' = [caller EXCEPT ![c] = "gone"]
  /\ abandoned' = abandoned \cup {c}
  /\ lastExec' = CorrectedRecord(c)
  /\ inflight' = [inflight EXCEPT ![kern[c]] = IF @ = c THEN NoCall ELSE @]
  /\ UNCHANGED <<args, reply, task, kernelVars, poll>>

Cancel(c) ==
  /\ caller[c] = "waiting"
  /\ caller' = [caller EXCEPT ![c] = "gone"]
  /\ abandoned' = abandoned \cup {c}
  /\ lastExec' = CorrectedRecord(c)
  /\ UNCHANGED <<args, reply, task, inflight, kernelVars, poll>>

----
(***************************************************************************)
(* The shielded task.  Release and record happen in the task's last step.  *)
(***************************************************************************)
Release(c) ==
  IF inflight[kern[c]] = c
  THEN [inflight EXCEPT ![kern[c]] = NoCall]
  ELSE inflight

\* Mutant: a caller that was told still_running counts as one that left.
RecordedDetached(c, how) ==
  [exec |-> c, raised |-> (how = "raised"), abandoned |-> (caller[c] # "waiting"),
   replayed |-> FALSE, fresh |-> TRUE]

Recorded(c, how) ==
  [exec |-> c, raised |-> (how = "raised"), abandoned |-> (c \in abandoned),
   replayed |-> FALSE, fresh |-> TRUE]

\* Mutant: the task is done before its bookkeeping is (a done-callback).
FinishBeforeCleanup(c, how) ==
  /\ task' = [task EXCEPT ![c] = how]
  /\ UNCHANGED guardVars

Finish(c, how) ==
  /\ task' = [task EXCEPT ![c] = how]
  /\ inflight' = Release(c)
  /\ lastExec' = [lastExec EXCEPT ![kern[c]] = Recorded(c, how)]

\* _resolve_backend: a registered id has a backend, any other id raises.
Route(c) ==
  /\ task[c] = "claimed"
  /\ kernel[kern[c]] \in {"up", "killed"}
  /\ task' = [task EXCEPT ![c] = "routed"]
  /\ UNCHANGED <<args, callVars, guardVars, kernelVars, poll>>

\* Mutant: an exception before the code is sent skips the cleanup.
RouteRaises(c) ==
  /\ task[c] = "claimed"
  /\ kernel[kern[c]] \in {"gone", "untracked"}
  /\ task' = [task EXCEPT ![c] = "raised"]
  /\ UNCHANGED <<args, callVars, guardVars, kernelVars, poll>>

RouteFails(c) ==
  /\ task[c] = "claimed"
  /\ kernel[kern[c]] \in {"gone", "untracked"}
  /\ Finish(c, "raised")
  /\ UNCHANGED <<args, callVars, kernelVars, poll>>

\* The backend gets the per-kernel lock and sends the code.
Send(c) ==
  /\ task[c] = "routed"
  /\ kernel[kern[c]] \in {"up", "untracked"}
  /\ task' = [task EXCEPT ![c] = "sent"]
  /\ running' = [running EXCEPT ![kern[c]] = @ \cup {c}]
  /\ UNCHANGED <<args, callVars, guardVars, kernel, severed, closing, poll>>

\* The backend ends without sending: kernel not found, kernel_busy, pool full.
NotSent(c, how) ==
  /\ task[c] = "routed"
  /\ Finish(c, how)
  /\ UNCHANGED <<args, callVars, kernelVars, poll>>

\* The code is over on the kernel: it ended, failed or was interrupted.
KernelDone(c) ==
  /\ c \in running[kern[c]]
  /\ running' = [running EXCEPT ![kern[c]] = @ \ {c}]
  /\ severed' = severed \ {c}
  /\ UNCHANGED <<args, callVars, task, guardVars, kernel, closing, poll>>

Return(c, how) ==
  /\ task[c] = "sent"
  /\ c \notin running[kern[c]]
  /\ Finish(c, how)
  /\ UNCHANGED <<args, callVars, kernelVars, poll>>

\* The client was stopped under the worker: it raises, and exec_local with it,
\* while the code is still on the kernel.
ClientGone(c) ==
  /\ task[c] = "sent"
  /\ c \in severed
  /\ Finish(c, "raised")
  /\ UNCHANGED <<args, callVars, kernelVars, poll>>

\* The backend ends while the kernel still executes.  exec_colab does when the
\* cell's reply timed out: "the kernel may STILL be running it".
EarlyReturn(c) ==
  /\ "early_return" \in Faults
  /\ task[c] = "sent"
  /\ c \in running[kern[c]]
  /\ Finish(c, "ok")
  /\ UNCHANGED <<args, callVars, kernelVars, poll>>

----
(***************************************************************************)
(* The kernel's life: stop_kernel and the reaper end it, list_kernels      *)
(* adopts a live session nobody tracks, 300 s end the replay window.       *)
(***************************************************************************)
\* stop_kernel, the reaper and restart_kernel stop a local kernel's client some
\* awaits before their request reaches the kernel.
DropClient(k) ==
  /\ kernel[k] \in {"up", "untracked"}
  /\ severed' = severed \cup running[k]
  /\ closing' = closing \cup {k}
  /\ UNCHANGED <<args, callVars, task, guardVars, kernel, running, poll>>

\* Nothing is left on the kernel, and no request on its way to it.
Sweep(k) ==
  /\ running' = [running EXCEPT ![k] = {}]
  /\ severed' = severed \ running[k]
  /\ closing' = closing \ {k}

\* The kernel's process is over: the DELETE or `colab stop` took effect (its
\* coroutine has not resumed yet), or it died by itself.
Kill(k) ==
  /\ kernel[k] \in {"up", "untracked"}
  /\ kernel' = [kernel EXCEPT ![k] = IF @ = "up" THEN "killed" ELSE "gone"]
  /\ Sweep(k)
  /\ UNCHANGED <<args, callVars, task, guardVars, poll>>

\* The restart request took effect: same id, nothing left to execute.
Restart(k) ==
  /\ kernel[k] \in {"up", "untracked"}
  /\ k \in closing
  /\ Sweep(k)
  /\ UNCHANGED <<args, callVars, task, guardVars, kernel, poll>>

\* The DELETE or the restart fails, or its tool call was cancelled before it.
RequestFails(k) ==
  /\ "stop_fails" \in Faults
  /\ k \in closing
  /\ closing' = closing \ {k}
  /\ UNCHANGED <<args, callVars, task, guardVars, kernel, running, severed, poll>>

Forget(k, to) ==
  /\ kernel' = [kernel EXCEPT ![k] = to]
  /\ inflight' = [inflight EXCEPT ![k] = NoCall]
  /\ lastExec' = [lastExec EXCEPT ![k] = NoRecord]
  /\ UNCHANGED <<args, callVars, task, running, severed, closing, poll>>

ForgetKilled(k) ==
  /\ kernel[k] = "killed"
  /\ Forget(k, "gone")

\* `colab stop` failed; _delete_kernel ignores its exit code and forgets.
ForgetAlive(k) ==
  /\ "stop_fails" \in Faults
  /\ kernel[k] = "up"
  /\ Forget(k, "untracked")

\* stop_kernel of an id the registry does not know: a 404, then the same cleanup.
ForgetUnknown(k) ==
  /\ kernel[k] \in {"gone", "untracked"}
  /\ Forget(k, kernel[k])

\* _mark_lost unregisters a dead session and leaves the guard alone.
MarkLost(k) ==
  /\ kernel[k] = "killed"
  /\ kernel' = [kernel EXCEPT ![k] = "gone"]
  /\ UNCHANGED <<args, callVars, task, guardVars, running, severed, closing, poll>>

\* list_kernels tracks a live session it does not know.
Adopt(k) ==
  /\ kernel[k] = "untracked"
  /\ kernel' = [kernel EXCEPT ![k] = "up"]
  /\ UNCHANGED <<args, callVars, task, guardVars, running, severed, closing, poll>>

WindowCloses(k) ==
  /\ lastExec[k].fresh
  /\ lastExec' = [lastExec EXCEPT ![k].fresh = FALSE]
  /\ UNCHANGED <<args, callVars, task, inflight, kernelVars, poll>>

\* The mcp process dies and comes back with empty dicts; kernels do not.
McpRestart ==
  /\ "mcp_restart" \in Faults
  /\ inflight' = [k \in Kernels |-> NoCall]
  /\ lastExec' = [k \in Kernels |-> NoRecord]
  /\ task' = [c \in Calls |-> IF task[c] \in Live THEN "lost" ELSE task[c]]
  /\ caller' = [c \in Calls |-> IF caller[c] = "waiting" THEN "gone" ELSE caller[c]]
  /\ poll' = [p \in Pollers |-> [poll[p] EXCEPT !.pc = IF @ = "waiting" THEN "idle" ELSE @]]
  /\ closing' = {}
  /\ UNCHANGED <<args, reply, abandoned, kernel, running, severed>>

----
(***************************************************************************)
(* get_execution, optionally long-polling.                                 *)
(***************************************************************************)
Holds(k, want) == inflight[k] # NoCall /\ want \in {NoCall, inflight[k]}
Remembers(k, want) == lastExec[k].exec # NoCall /\ want \in {NoCall, lastExec[k].exec}

Report(p, k, want) ==
  poll' = [poll EXCEPT ![p] =
    [@ EXCEPT !.pc = "answered", !.want = NoCall,
       !.answer = IF Holds(k, want) THEN "running"
                  ELSE IF Remembers(k, want) THEN "finished"
                  ELSE IF want # NoCall THEN "unknown" ELSE "nothing",
       !.of = IF Holds(k, want) THEN inflight[k]
              ELSE IF Remembers(k, want) THEN lastExec[k].exec
              ELSE NoCall]]

\* wait_seconds = 0, or nothing to wait for.
PollNow(p, k, want) ==
  /\ poll[p].pc = "idle"
  /\ Report(p, k, want)
  /\ UNCHANGED <<args, callVars, task, guardVars, kernelVars>>

PollWait(p, k, want) ==
  /\ poll[p].pc = "idle"
  /\ Holds(k, want)
  /\ poll' = [poll EXCEPT ![p] = [@ EXCEPT !.pc = "waiting", !.kern = k, !.want = want]]
  /\ UNCHANGED <<args, callVars, task, guardVars, kernelVars>>

\* asyncio.wait returned: the task is done, or wait_seconds went by.
PollWake(p) ==
  /\ poll[p].pc = "waiting"
  /\ Report(p, poll[p].kern, poll[p].want)
  /\ UNCHANGED <<args, callVars, task, guardVars, kernelVars>>

----
Submit(c) == Refuse(c) \/ Replay(c) \/ Claim(c)
Hear(c) == Resume(c) \/ SoftDeadline(c) \/ Cancel(c)
Run(c) == \/ Route(c) \/ RouteFails(c) \/ Send(c) \/ KernelDone(c) \/ ClientGone(c) \/ EarlyReturn(c)
          \/ \E how \in Finished : NotSent(c, how) \/ Return(c, how)
Manage(k) == \/ DropClient(k) \/ Kill(k) \/ Restart(k) \/ RequestFails(k)
             \/ MarkLost(k) \/ Adopt(k) \/ WindowCloses(k)
             \/ ForgetKilled(k) \/ ForgetAlive(k) \/ ForgetUnknown(k)
Ask(p) == \/ \E k \in Kernels, want \in MaybeCall : PollNow(p, k, want) \/ PollWait(p, k, want)
          \/ PollWake(p)

Next ==
  \/ \E c \in Calls : Submit(c) \/ Hear(c) \/ Run(c)
  \/ \E k \in Kernels : Manage(k)
  \/ \E p \in Pollers : Ask(p)
  \/ McpRestart

Spec == Init /\ [][Next]_vars

\* A backend works through its own steps and the user's code ends; what is
\* ready to run in the event loop runs.
FairSpec == Spec /\ \A c \in Calls : WF_vars(Run(c))

----
(***************************************************************************)
(* Properties.                                                             *)
(***************************************************************************)

\* A claim stands for a live task of that kernel, whatever stops, adoptions
\* and restarts happen around it: no claim outlives its work and leaves the
\* kernel answering "busy" forever (_release, forget_exec).
ClaimIsLive ==
  \A k \in Kernels : inflight[k] # NoCall =>
    task[inflight[k]] \in Live /\ kern[inflight[k]] = k

\* "ONE EXECUTION PER KERNEL": the kernel process never holds the code of two
\* calls, running or queued one behind the other (execute_code, ADR 0017).
OneExecutionPerKernel ==
  \A k \in Kernels : \A c, d \in running[k] : c = d

\* The same of a kernel that no stop or restart is about to sweep.
OneExecutionUnlessClosing ==
  \A k \in Kernels \ closing : \A c, d \in running[k] : c = d

\* Whatever a kernel executes is covered by its claim, so that no other call is
\* admitted beside it, or was cut off by a stop or restart that is still under
\* way and will sweep it: the code of a finished task never stays behind on a
\* kernel that answers calls (_guarded, _drop_client before DELETE and restart).
ClaimCoversExecution ==
  \A k \in Kernels : \A c \in running[k] :
    \/ inflight[k] = c
    \/ c \in severed /\ k \in closing

\* In whichever order a call is cancelled and its task ends, the record of the
\* call says its client never saw the result, and only then (run_single_flight's
\* correction in the CancelledError branch, _record_exec).
AbandonmentIsRecorded ==
  \A k \in Kernels : lastExec[k].exec # NoCall =>
    (lastExec[k].abandoned <=> caller[lastExec[k].exec] = "gone")

\* A replay hands over the result of a finished, identical call on the same
\* kernel whose client got nothing, and no result is replayed twice
\* (_take_replay: "consumed on first use").
ReplayIsOneShot ==
  \A c \in Calls : reply[c].kind = "replay" =>
    LET e == reply[c].exec
    IN  /\ e \in Calls /\ task[e] \in Finished /\ caller[e] = "gone"
        /\ kern[e] = kern[c] /\ ident[e] = ident[c]
        /\ \A d \in Calls \ {c} : ~(reply[d].kind = "replay" /\ reply[d].exec = e)

KeepsLiveClaims ==
  \A k \in Kernels :
    (inflight[k] # NoCall /\ inflight'[k] # inflight[k]) =>
      \/ task'[inflight[k]] \notin Live
      \/ /\ inflight'[k] = NoCall /\ lastExec'[k] = NoRecord
         /\ kernel[k] # "up" \/ "stop_fails" \in Faults

\* The claim of a task that is not over goes to nobody else: it is given up with
\* the task itself (its end, or a restart of the server), or by the cleanup of a
\* stop (forget_exec), which finds the kernel gone unless a stop failed.  In
\* particular a forgotten task that ends late never evicts the claim of a newer
\* call (_release: "ONLY if it is still ours").
ClaimKeptWhileLive == [][KeepsLiveClaims]_vars

\* d is the resend of c: its result is the one remembered, unread.
Resends(d, c) ==
  /\ caller[c] = "gone"
  /\ lastExec[kern[c]].exec = c /\ lastExec[kern[c]].fresh
  /\ kern[d] = kern[c] /\ ident[d] = ident[c]
  /\ \A e \in Calls : ~(reply[e].kind = "replay" /\ reply[e].exec = c)

StartsNoResend ==
  \A c, d \in Calls : Resends(d, c) => ~(task[d] = "none" /\ task'[d] = "claimed")

\* A blind resend (same kernel, same identity, after a cancelled call whose
\* result is the remembered one, unread and inside the window) executes nothing.
BlindResendRunsNothing == [][StartsNoResend]_vars

AnswersTruly ==
  \A p \in Pollers : (poll[p].pc # "answered" /\ poll'[p].pc = "answered") =>
    LET a == poll'[p]
    IN  /\ a.answer = "running" => task[a.of] \in Live
        /\ a.answer = "finished" => task[a.of] \in Finished

\* get_execution says "running" only of a task that is not over, and
\* "finished" only of one that is: the bookkeeping is done when the task is,
\* so a long poll woken by the task never reads the state of before (_guarded).
PollIsCurrent == [][AnswersTruly]_vars

\* If backends make progress and user code ends, every claim is released: no
\* kernel answers "busy" for ever, whichever way the task ends.
ClaimIsReleased == \A k \in Kernels, c \in Calls : inflight[k] = c ~> inflight[k] # c

----
(***************************************************************************)
(* The guard implements the admission contract.                            *)
(***************************************************************************)
FateOf(c) ==
  CASE task[c] \in Live -> (IF inflight[kern[c]] = c THEN "executing" ELSE "disowned")
    [] task[c] \in Finished -> "finished"
    [] task[c] = "lost" -> "lost"
    [] OTHER -> (IF reply[c].kind = "busy" THEN "refused"
                 ELSE IF reply[c].kind = "replay" THEN "recovered" ELSE "new")

Recovered == {e \in Calls : \E c \in Calls : reply[c].kind = "replay" /\ reply[c].exec = e}

Admission == INSTANCE ExecAdmission
  WITH owner <- inflight, fate <- [c \in Calls |-> FateOf(c)], recovered <- Recovered

\* Every step of the guard is a step of ExecAdmission or leaves it alone, under
\* every fault: a kernel has one owner, a refusal has a reason, a result is
\* recovered once.
AdmissionSpec == Admission!Spec
====

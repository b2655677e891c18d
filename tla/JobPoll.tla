------------------------------- MODULE JobPoll -------------------------------
(***************************************************************************)
(* Background jobs (src/mcp/jobs.py): execute_code(background=True) starts *)
(* a wrapper process through a tiny execution on the kernel, and get_job   *)
(* reads the files that the wrapper writes through another one.            *)
(*                                                                         *)
(* One job.  The wrapper, a person's cells, the foreground execution and   *)
(* the loss of the kernel are the environment.  What a poll does on the    *)
(* kernel is a coroutine of its own (`read`), because a poll that stops    *)
(* waiting leaves it behind.  Output is a sequence of bytes: "c" is a      *)
(* character of one byte, "h" and "t" are the halves of a wider one.       *)
(***************************************************************************)
EXTENDS Naturals, Sequences, FiniteSets

CONSTANTS
  Clients,   \* who calls get_job
  Reads,     \* reads that may exist at once, left behind or awaited (a bound)
  Output,    \* the bytes that the job prints when nobody stops it
  Window,    \* max_chars, in bytes
  MaxHuman,  \* a person's cells in the kernel's queue at once (a bound)
  Human, Launcher, Fore, Nobody

\* The names are names: of different things.
ASSUME JobAssumption ==
  /\ Output \in Seq({"c", "h", "t"}) /\ Window \in Nat \ {0}
  /\ Human # Launcher /\ Human # Fore /\ Launcher # Fore /\ Nobody \notin {Human, Launcher, Fore}
  /\ {Human, Launcher, Fore, Nobody} \cap (Clients \cup Reads) = {}

Ext == INSTANCE SequencesExt

VARIABLES
  cli,       \* the kernel is a Colab session
  alive,     \* ... and exists
  inflight,  \* whose claim the single-flight guard holds
  lock,      \* who holds the kernel's lock
  queue,     \* what the kernel runs (its head) and what waits behind it
  job,       \* the wrapper process and its two files
  launch,    \* where the launching call is, or what it answered
  read,      \* the coroutines that read the job's files
  client     \* the get_job calls, and what their callers hold

jobVars == <<cli, alive, inflight, lock, queue, job, launch, read, client>>
kernelVars == <<cli, alive, inflight, lock, queue>>

NoRead == [by |-> Nobody, at |-> "none", tail |-> TRUE, off |-> 0, st |-> "absent", tot |-> 0, start |-> 0, nx |-> 0]

JobTypeOK ==
  /\ cli \in BOOLEAN /\ alive \in BOOLEAN
  /\ inflight \in {Nobody, Launcher, Fore} /\ lock \in {Nobody, Launcher, Fore} \cup Reads
  /\ \A i \in DOMAIN queue : queue[i] \in {Human, Launcher, Fore} \cup Reads
  /\ job \in [proc : {"none", "script", "exited", "recording", "over", "killed"},
              status : {"absent", "running", "empty", "done", "error"}, written : 0..Len(Output)]
  /\ launch \in {"idle", "lock", "kernel", "spawned", "given", "refused", "unheard"}
  /\ \A r \in Reads : /\ read[r].at \in {"none", "lock", "kernel", "size", "window", "done"}
                      /\ read[r].by \in Clients \cup {Nobody}
                      /\ read[r].start <= read[r].nx \/ read[r].at # "done"
  /\ \A c \in Clients : /\ client[c].pc \in {"idle", "check", "oob", "read", "sleep"}
                        /\ client[c].from <= client[c].held /\ client[c].held <= Len(Output)

JobInit ==
  /\ cli \in BOOLEAN /\ alive = TRUE
  /\ inflight = Nobody /\ lock = Nobody /\ queue = <<>>
  /\ job = [proc |-> "none", status |-> "absent", written |-> 0]
  /\ launch = "idle"
  /\ read = [r \in Reads |-> NoRead]
  /\ client = [c \in Clients |-> [pc |-> "idle", tail |-> TRUE, expired |-> FALSE, last |-> "none",
                                  more |-> FALSE, from |-> 0, held |-> 0, text |-> <<>>, cut |-> FALSE]]

Heads(x) == queue # <<>> /\ Head(queue) = x
------------------------------------------------------------------------------
(* The environment: the kernel's other work, its end, and the wrapper.     *)

HumanRuns ==
  /\ ~cli /\ alive
  /\ Cardinality({i \in DOMAIN queue : queue[i] = Human}) < MaxHuman
  /\ queue' = Append(queue, Human)
  /\ UNCHANGED <<cli, alive, inflight, lock, job, launch, read, client>>

HumanEnds ==
  /\ Heads(Human) /\ queue' = Tail(queue)
  /\ UNCHANGED <<cli, alive, inflight, lock, job, launch, read, client>>

\* A foreground execution: it claims, waits for the lock without a limit, runs.
ForeClaims ==
  /\ inflight = Nobody /\ alive /\ inflight' = Fore
  /\ UNCHANGED <<cli, alive, lock, queue, job, launch, read, client>>

ForeLocks ==
  /\ inflight = Fore /\ lock = Nobody /\ alive
  /\ lock' = Fore /\ queue' = Append(queue, Fore)
  /\ UNCHANGED <<cli, alive, inflight, job, launch, read, client>>

ForeEnds ==
  /\ inflight = Fore
  /\ \/ Heads(Fore) /\ queue' = Tail(queue)
     \/ ~alive /\ UNCHANGED queue
  /\ inflight' = Nobody /\ lock' = IF lock = Fore THEN Nobody ELSE lock
  /\ UNCHANGED <<cli, alive, job, launch, read, client>>

\* The kernel is gone; a Colab session takes the job and its files with it.
KernelDies ==
  /\ alive /\ alive' = FALSE /\ queue' = <<>>
  /\ job' = IF ~cli THEN job
            ELSE [job EXCEPT !.proc = IF @ = "none" THEN @ ELSE "killed", !.status = "absent", !.written = 0]
  /\ UNCHANGED <<cli, inflight, lock, launch, read, client>>

JobStep(j) == job' = j /\ UNCHANGED <<kernelVars, launch, read, client>>

ScriptPrints == job.proc = "script" /\ job.written < Len(Output) /\ JobStep([job EXCEPT !.written = @ + 1])

ScriptEnds == job.proc = "script" /\ JobStep([job EXCEPT !.proc = "exited"])

\* `echo done > status`: the shell empties the file before echo fills it.
Truncates == job.proc = "exited" /\ JobStep([job EXCEPT !.proc = "recording", !.status = "empty"])

Records == job.proc = "recording" /\ \E rc \in {"done", "error"} :
                                          JobStep([job EXCEPT !.proc = "over", !.status = rc])

WrapperKilled == job.proc \in {"script", "exited", "recording"} /\ JobStep([job EXCEPT !.proc = "killed"])
------------------------------------------------------------------------------
(* execute_code(background=True): the launch takes the claim and the lock. *)

LaunchCall ==
  /\ launch = "idle" /\ inflight = Nobody /\ alive
  /\ launch' = "lock" /\ inflight' = Launcher
  /\ UNCHANGED <<cli, alive, lock, queue, job, read, client>>

LaunchLocks ==
  /\ launch = "lock" /\ lock = Nobody /\ alive
  /\ launch' = "kernel" /\ lock' = Launcher /\ queue' = Append(queue, Launcher)
  /\ UNCHANGED <<cli, alive, inflight, job, read, client>>

\* The snippet on the kernel: the status file first, then the wrapper.
WritesRunning ==
  /\ Heads(Launcher) /\ job.status = "absent"
  /\ job' = [job EXCEPT !.status = "running"]
  /\ UNCHANGED <<kernelVars, launch, read, client>>

Spawns ==
  /\ Heads(Launcher) /\ job.status = "running"
  /\ job' = [job EXCEPT !.proc = "script"] /\ queue' = Tail(queue)
  /\ launch' = IF launch = "kernel" THEN "spawned" ELSE launch
  /\ UNCHANGED <<cli, alive, inflight, lock, read, client>>

EndLaunch(answer) ==
  /\ launch' = answer /\ inflight' = Nobody
  /\ lock' = IF lock = Launcher THEN Nobody ELSE lock
  /\ UNCHANGED <<cli, alive, job, read, client>>

LaunchReplies == launch = "spawned" /\ EndLaunch("given") /\ UNCHANGED queue

LaunchStops ==
  \/ launch = "lock" /\ (lock # Nobody \/ ~alive) /\ UNCHANGED queue
  \/ launch = "kernel" /\ ~alive /\ UNCHANGED queue
  \/ launch = "kernel" /\ Heads(Launcher) /\ queue' = Tail(queue)

\* Mutant: whatever the launch answered, its job id is handed out.
IdWhateverHappened == LaunchStops /\ EndLaunch("given")

\* kernel_busy, a kernel that is gone, or a snippet that raised before Popen.
LaunchFails == LaunchStops /\ EndLaunch("refused")

\* No reply in 60 s from Colab, or a kernel restarted under the call: the same
\* answer as a launch that failed, but the snippet may have run, or may still.
LaunchUnheard ==
  /\ launch = "spawned" \/ (launch = "kernel" /\ cli)
  /\ EndLaunch("unheard") /\ UNCHANGED queue
------------------------------------------------------------------------------
(* get_job.                                                                *)

\* bytes.decode("utf-8", "replace"): half a character becomes a "?".
Decoded(b) ==
  LET Shown(i) == CASE b[i] = "c" -> <<"c">>
                    [] b[i] = "h" -> IF i < Len(b) /\ b[i + 1] = "t" THEN <<"w">> ELSE <<"?">>
                    [] b[i] = "t" -> IF i > 1 /\ b[i - 1] = "h" THEN <<>> ELSE <<"?">>
      upTo[i \in 0..Len(b)] == IF i = 0 THEN <<>> ELSE upTo[i - 1] \o Shown(i)
  IN upTo[Len(b)]

CutsCharacter(i) == 0 < i /\ i < Len(Output) /\ Output[i] = "h" /\ Output[i + 1] = "t"
Least(m, n) == IF m < n THEN m ELSE n

Normalised(st) ==
  CASE st \in {"absent", "empty"} -> "unknown"
    [] st = "running" -> "running_in_background"
    [] OTHER -> st

Answered(c, answer) == client' = [client EXCEPT ![c].pc = "idle", ![c].tail = TRUE, ![c].expired = FALSE,
                                                ![c].last = answer]

\* The caller knows the job id.  With an offset it passes next_offset back;
\* without wait_seconds its deadline is over from the start.
Call(c) ==
  /\ client[c].pc = "idle" /\ launch = "given"
  /\ Cardinality({r \in Reads : read[r].at # "none"})
       + Cardinality({d \in Clients : client[d].pc \in {"check", "oob", "sleep"}}) < Cardinality(Reads)
  /\ \E tail, expired \in BOOLEAN :
       client' = [client EXCEPT ![c].pc = "check", ![c].tail = tail, ![c].expired = expired,
                                 ![c].last = "none", ![c].more = FALSE]
  /\ UNCHANGED <<kernelVars, job, launch, read>>

StartRead(c) ==
  \E r \in Reads :
    /\ read[r].at = "none"
    /\ read' = [read EXCEPT ![r] = [NoRead EXCEPT !.by = c, !.at = "lock", !.tail = client[c].tail,
                                                  !.off = client[c].held]]
    /\ client' = [client EXCEPT ![c].pc = "read"]

\* running_exec is looked at; on a Colab session the read begins at once.
Check(c) ==
  /\ client[c].pc = "check"
  /\ \/ inflight # Nobody /\ Answered(c, "kernel_busy") /\ UNCHANGED read
     \/ inflight = Nobody /\ ~cli /\ client' = [client EXCEPT ![c].pc = "oob"] /\ UNCHANGED read
     \/ inflight = Nobody /\ cli /\ StartRead(c)
  /\ UNCHANGED <<kernelVars, job, launch>>

\* _kernel_busy_oob answers; a lookup that fails counts as not busy.
Oob(c) ==
  /\ client[c].pc = "oob"
  /\ \/ queue # <<>> /\ Answered(c, "kernel_busy") /\ UNCHANGED read
     \/ StartRead(c)
  /\ UNCHANGED <<kernelVars, job, launch>>

\* The read r ends: its caller, if it still waits, is answered.
EndRead(r, answer) ==
  /\ read' = [read EXCEPT ![r] = NoRead]
  /\ lock' = IF lock = r THEN Nobody ELSE lock
  /\ IF read[r].by = Nobody THEN UNCHANGED client ELSE Answered(read[r].by, answer)
  /\ UNCHANGED <<cli, alive, inflight, job, launch>>

TakeLock(r) ==
  /\ read[r].at = "lock" /\ lock = Nobody /\ alive
  /\ lock' = r /\ queue' = Append(queue, r)
  /\ read' = [read EXCEPT ![r].at = "kernel"]
  /\ UNCHANGED <<cli, alive, inflight, job, launch, client>>

LockExpires(r) == read[r].at = "lock" /\ lock # Nobody /\ EndRead(r, "kernel_busy") /\ UNCHANGED queue

\* The kernel is gone.  A local one is missed only by the lookup before the lock;
\* later its read comes back without a JSON line.
LossAnswers(r) == (IF cli \/ read[r].at = "lock" THEN {"session_lost"} ELSE {})
                    \cup (IF cli THEN {} ELSE {"unknown"})

ReadLost(r) ==
  /\ read[r].at \notin {"none", "done"} /\ ~alive
  /\ \E answer \in LossAnswers(r) : EndRead(r, answer) /\ UNCHANGED queue

\* Interrupted, the kernel restarted, or 60 s without a reply from Colab: there
\* is no JSON line in what comes back (or an exception).
ReadBroken(r) ==
  /\ read[r].at \in {"kernel", "size", "window"} /\ alive
  /\ EndRead(r, "unknown") /\ \E i \in DOMAIN queue : queue[i] = r /\ queue' = Ext!RemoveAt(queue, i)

\* The snippet on the kernel: the status file, then the size, then the window.
ReadStatus(r) ==
  /\ Heads(r) /\ read[r].at = "kernel"
  /\ read' = [read EXCEPT ![r].at = "size", ![r].st = job.status]
  /\ UNCHANGED <<kernelVars, job, launch, client>>

ReadSize(r) ==
  /\ Heads(r) /\ read[r].at = "size"
  /\ LET tot == job.written
     IN read' = [read EXCEPT ![r].at = "window", ![r].tot = tot,
                   ![r].start = IF read[r].tail THEN tot - Least(Window, tot) ELSE Least(read[r].off, tot)]
  /\ UNCHANGED <<kernelVars, job, launch, client>>

WindowRead(r, st) ==
  LET start == read[r].start
      nx    == IF start < read[r].tot THEN Least(start + Window, job.written) ELSE start
  IN /\ Heads(r) /\ read[r].at = "window"
     /\ read' = [read EXCEPT ![r].at = "done", ![r].st = st, ![r].nx = nx]
     /\ queue' = Tail(queue)
     /\ UNCHANGED <<cli, alive, inflight, lock, job, launch, client>>

\* Mutant: the status file is read after the output.
StatusReadLast(r) == WindowRead(r, job.status)

ReadWindow(r) == WindowRead(r, read[r].st)

\* Mutant: next_offset is the size of the file, wherever the window stopped.
NextIsTotal(r) == read[r].tot

NextOffset(r) == read[r].nx

\* The reply is there: a job that still runs is polled again until the deadline.
Deliver(r) ==
  LET c == read[r].by
      answer == Normalised(read[r].st)
      again == answer = "running_in_background" /\ ~client[c].expired
      piece == Decoded(SubSeq(Output, read[r].start + 1, read[r].nx))
      edges == {read[r].start, NextOffset(r)}
  IN /\ read[r].at = "done"
     /\ read' = [read EXCEPT ![r] = NoRead] /\ lock' = Nobody
     /\ client' =
          IF c = Nobody THEN client
          ELSE IF again THEN [client EXCEPT ![c].pc = "sleep"]
          ELSE [client EXCEPT ![c] =
                  [pc |-> "idle", tail |-> TRUE, expired |-> FALSE, last |-> answer,
                   more |-> NextOffset(r) < read[r].tot,
                   from |-> IF read[r].tail THEN read[r].start ELSE @.from,
                   held |-> NextOffset(r),
                   text |-> IF read[r].tail THEN piece ELSE @.text \o piece,
                   cut  |-> (~read[r].tail /\ @.cut) \/ \E e \in edges : CutsCharacter(e)]]
     /\ UNCHANGED <<cli, alive, inflight, queue, job, launch>>

Wake(c) ==
  /\ client[c].pc = "sleep" /\ client' = [client EXCEPT ![c].pc = "check"]
  /\ UNCHANGED <<kernelVars, job, launch, read>>

DeadlinePasses(c) ==
  /\ client[c].pc # "idle" /\ ~client[c].expired
  /\ client' = [client EXCEPT ![c].expired = TRUE]
  /\ UNCHANGED <<kernelVars, job, launch, read>>

\* Mutant: the poll waits for its read for as long as that takes.
WaitsForRead(c) == FALSE

\* 5 s without a reply (local kernels): the read is left to complete on its own.
Abandon(c) ==
  /\ ~cli /\ client[c].pc = "read"
  /\ \E r \in Reads : /\ read[r].by = c /\ read[r].at # "done"
                      /\ read' = [read EXCEPT ![r] = [NoRead EXCEPT !.at = read[r].at]]
  /\ Answered(c, "kernel_busy")
  /\ UNCHANGED <<kernelVars, job, launch>>
------------------------------------------------------------------------------
Environment ==
  \/ HumanRuns \/ HumanEnds \/ ForeClaims \/ ForeLocks \/ ForeEnds \/ KernelDies
  \/ ScriptPrints \/ ScriptEnds \/ Truncates \/ Records \/ WrapperKilled

Launch == \/ LaunchCall \/ LaunchLocks \/ WritesRunning \/ Spawns
          \/ LaunchReplies \/ LaunchFails \/ LaunchUnheard

OfRead(r) == \/ TakeLock(r) \/ LockExpires(r) \/ ReadLost(r) \/ ReadBroken(r)
             \/ ReadStatus(r) \/ ReadSize(r) \/ ReadWindow(r) \/ Deliver(r)

OfClient(c) == Call(c) \/ Check(c) \/ Oob(c) \/ Wake(c) \/ DeadlinePasses(c) \/ Abandon(c)

JobNext == Environment \/ Launch \/ (\E r \in Reads : OfRead(r)) \/ (\E c \in Clients : OfClient(c))

JobSpec == JobInit /\ [][JobNext]_jobVars

\* The event loop goes on and timers fire: the lock wait, the 5 s bound of a
\* local poll, the 60 s of a Colab reply, the caller's deadline.  Nothing is
\* assumed of the kernel, of a person's cell, of foreground code or of the job.
Fairness ==
  /\ \A c \in Clients : /\ WF_jobVars(Check(c)) /\ WF_jobVars(Oob(c)) /\ WF_jobVars(Wake(c))
                        /\ WF_jobVars(DeadlinePasses(c)) /\ WF_jobVars(Abandon(c))
  /\ \A r \in Reads : /\ WF_jobVars(TakeLock(r) \/ LockExpires(r) \/ ReadLost(r)) /\ WF_jobVars(Deliver(r))
                      /\ WF_jobVars(cli /\ ReadBroken(r))

FairSpec == JobSpec /\ Fairness
------------------------------------------------------------------------------
(* Safety.                                                                 *)

\* A job id is handed out only for a wrapper that was started, and a launch
\* that was heard to fail started none (_execute_background's early returns).
\* Every variable stays in its range.
LaunchAnswersAreTrue ==
  /\ JobTypeOK
  /\ launch = "given" => job.proc # "none"
  /\ launch = "refused" => job.proc = "none"

\* When a poll says that the job ended and that its window reaches the end,
\* the caller holds everything the job ever printed: the status file is read
\* before the size, and written after the script has closed its output.
EndCoversOutput ==
  \A c \in Clients :
    client[c].last \in {"done", "error"} /\ ~client[c].more /\ job.proc = "over"
      => client[c].held = job.written

\* Passing next_offset back loses and repeats nothing: the pieces put together
\* are the output between the first offset and the last, as long as no window
\* began or ended inside a character.
StreamLosesNothing ==
  \A c \in Clients :
    ~client[c].cut => client[c].text = Decoded(SubSeq(Output, client[c].from + 1, client[c].held))

\* Liveness: get_job answers, whatever runs on the kernel and for how long.
PollAnswered == \A c \in Clients : client[c].pc # "idle" ~> client[c].pc = "idle"
------------------------------------------------------------------------------
(* Stated without their exceptions; the README says where they fail.       *)

\* The streamed text is the output, wherever the windows end.
StreamedTextIsOutput ==
  \A c \in Clients : client[c].text = Decoded(SubSeq(Output, client[c].from + 1, client[c].held))

\* A launch that answers that nothing started has started nothing.
UnheardStartedNothing == launch \in {"refused", "unheard"} => job.proc = "none"

==============================================================================

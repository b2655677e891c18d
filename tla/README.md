# A formal model of jupyter-rmcp

TLA+ modules, TLC configurations and TLAPS proofs for the MCP server in
`src/mcp/`: a single asyncio process that lets an MCP client run code on local
Jupyter kernels and on Google Colab sessions, edit notebooks, and move files; and
for the script in `src/scripts/` that puts that server behind Cloudflare. Paths
below are relative to `src/mcp/` unless they start with `docs/` or `scripts/` or name
a file of the repository's root.

- [1. The system](#1-the-system)
- [2. Modules and code](#2-modules-and-code)
- [3. What is checked](#3-what-is-checked)
- [4. What is proved](#4-what-is-proved)
- [5. Where the code and its documentation part](#5-where-the-code-and-its-documentation-part)
- [6. What is not modelled](#6-what-is-not-modelled)
- [7. Plan](#7-plan)

## 1. The system

One Python process, one event loop, no locks but `asyncio.Lock`s: coroutines
interleave at awaits. Behind it stand processes that it does not control: the
Jupyter server and its kernels, the `colab` command and the VMs behind it, the
person who uses JupyterLab on the same kernels and notebooks, and MCP clients
that time out, cancel and resend.

| Component | State | Operations | Talks to |
|---|---|---|---|
| Single-flight guard (`state.py`, `jobs.py`) | `_inflight` (claims), `_last_exec` (records), in memory | `run_single_flight`, `_guarded`, `_take_replay`, `forget_exec`, `get_execution` | backends, clients |
| Output sink (`state.py`, `outputs.py`) | the outputs of one execution, within two caps | `append`, `_cap`, the partial of a `still_running` reply | the guard's record, the notebook write-back |
| Local backend (`backends/local_jupyter.py`) | client per kernel, lock per kernel, worker pool and its counters | `exec_local`, `_drop_client`, `_await_uncapped` | kernels, Jupyter's REST API |
| Colab backend (`backends/colab_cli.py`) | session states, lock per session | `exec_colab`, `_mark_lost`, `_heartbeat_colab` | `colab` subprocesses |
| Registry (`registry.py`) | id to backend, state, pin, age, notebook; saved at each change | `track`, `forget`, `set_state`, `pin`, `set_notebook` | everything that routes |
| Kernel tools (`kernels.py`) | none of their own | start, stop, restart, list, pin, switch | backends, registry, reaper |
| Reaper (`reaper.py`, `backends/__init__.py`) | none of its own | the periodic pass, capacity, reconcile at startup | registry, backends |
| Background jobs (`jobs.py`) | a status and an output file next to a wrapper subprocess | launch, `get_job` | kernels, the guard's claim, the kernel's lock |
| Notebook editing (`notebook.py`) | the `.ipynb` on disk | read, insert, patch, edit, delete, move, execute, create | Contents API, guard |
| Workspace transfer (`workspace.py`, `local_jupyter.py`) | files on disk, temporary files | upload, fetch, download | Contents API, HTTP sources |
| Setup (`scripts/setup_cfzt.py`) | objects at Cloudflare, two files and a service on the host | apply, service-token, connector, destroy | Cloudflare's API, the operator |
| Server, HTTP surface, configuration | configuration | start-up | |

What makes it hard, and what each part has to keep right:

- **The guard.** Three parties can end a call in any order: the task, the soft
  deadline and the client's cancellation. Whoever wins, the claim must be held as
  long as the kernel executes and no longer, the record must say whether the
  client saw the result, and a retry must get that result or be refused. A stop or a
  restart cuts a task off before it reaches the kernel.
- **The local backend.** The blocking client call sits in a thread that cannot be
  cancelled. A kernel restarted in place never replies; a person's cell may run
  before ours; restarts and interrupts arrive from elsewhere. No coroutine may
  return while its code is on the kernel, every coroutine must return, and the
  pool's counters must survive all cleanup paths.
- **Colab sessions.** What runs, what the registry says and what a coroutine
  learnt from a subprocess are three views that change apart. A session must not
  be declared lost on a hiccup, nor stay in the registry when it is dead, nor run
  past its age.
- **Local kernels.** Capacity checks, reaping and tools work on lists fetched some
  awaits ago, next to a JupyterLab user who starts and ends kernels.
- **Notebooks.** Every tool is a GET of the whole file and a PUT of the whole
  file, and the person saves the same file.
- **Background jobs.** The poll of a job is itself a small execution on a kernel that
  may be busy with a person's cell: it has to be given up without being undone. It
  reads two files that another process writes, one after the other.
- **The output sink.** Output of any length goes through three cuts, two of them while
  it still arrives; no cut may hide the end, or cut without saying so.
- **Setup.** Every request may be the last of a run. A re-run has to find by name what
  exists, and to overwrite whole objects without dropping what they still have to hold.
- **Transfers.** A body arrives in pieces under a temporary name; any request may
  fail before or after it was served, and a deadline may cancel a fetch anywhere.

The list of hazards, each at its line, is in `PROJECT.json`.

## 2. Modules and code

In all modules a step is the code between two awaits (or between the points
where an external process takes effect), and an action models the handler with
every call it makes that changes state. Operators that are wrong on purpose
(their comment says "Mutant:" or "A wrong ...") stand before the operator they
distort; each shows that a property would notice that mistake.

**`SingleFlight`** — `state.py`, and `get_execution` of `jobs.py`. One call is one
`execute_code` / `execute_cell` request: its caller coroutine (`caller`, `reply`,
`abandoned`) and its shielded task (`task`). `inflight` is `_inflight`, `lastExec`
is `_last_exec`, `kernel` whether the kernel process lives and is registered,
`running` the code the kernel process has, `severed` the part of it whose client was
stopped, `closing` the kernels between `_drop_client` and the DELETE or restart that
follows it. `Refuse`, `Replay` and `Claim` are the
three exits of `run_single_flight` before its first await; `Resume`,
`SoftDeadline` and `Cancel` those after it; `Route` to `Return` are the task;
`DropClient` to `Adopt` the kernel's life around it: `DropClient` comes first, `Kill` or
`Restart` is the request served, `RequestFails` the one that is not, and in between
`ClientGone` ends the task while the kernel goes on; `Poll*` is `get_execution` with
its long poll. Faults: a stop (`colab stop`, DELETE or restart request) that fails, a
server restart, a backend that returns early.

**`ExecAdmission`** — the contract of the guard without tasks, records and polls:
a kernel has at most one owner, a refusal has a reason, a call executes or
recovers a finished call's result, and no result is recovered twice.
`SingleFlight` maps to it (`Admission == INSTANCE ExecAdmission WITH ...`): `fate`
is computed from task, claim and reply.

**`LocalExec`** — `exec_local` and its helpers, `restart_kernel`, `_delete_kernel`. Per
execution a coroutine (`pc`, `result`, `misses`) and a pool item (`worker`); per kernel
the lock, the message queue that a person's cells share, and `life`: a restart or a stop
under way (the client is dropped, the request is not served yet), or gone. Only the
introspection calls are impatient for the lock, and they have no hard cap.
`_exec_inflight` is `poolInflight`, `_orphaned_exec_workers` is `orphans`. Time is
the order of events, with one assumption: a worker that has its reply returns
before two liveness intervals (2 x 30 s in the code) have gone by.

**`ColabSessions`** — `colab_cli.py`, and the Colab halves of `kernels.py`,
`registry.py`, `reaper.py` and `backends/__init__.py`. `vm` is what runs at Colab,
`reg` the registry (each operator on it is one save), `cmd` every coroutine: its
operation, where it is, what it learnt. A lock that was popped from the table
while held or awaited leaves its coroutines in `stale`. A crash may come between
any two saves and is followed by the reconcile of the startup. `Reclaim` takes a VM away:
its own end, or `colab` losing its record of it, which `colab sessions` then lists as
`[?]` and the code skips (`colab_cli.py:207`).

**`KernelLifecycle`** — local kernels. `jup` and `created` are the Jupyter server,
`reg` the registry, `cmd` the coroutines with the rows of the list each fetched.
`JupyterLab`'s user starts and ends kernels (`HumanStarts`, `HumanShutsDown`).

**`NotebookEdit`** — one `.ipynb` file (`file`), and per call its phase, request,
copy (`nb`) and answer (`view`). `Load` is `_load_nb`, with the write-back of fresh
ids (`PersistIds`) when cells had none; `Write` is the PUT; `Reread` is
`execute_cell` after its cell has run; `AppendCell` is the write-back of
`execute_code`. `meta` is a cell's identity, which no tool changes. Jupyter's Contents API
normalises what it saves (`docs/refactor/README.md:160-166`): a cell that was changed and is
in `Rewritten` is stored in another form than the one that was sent (`Normal`), while
the call that sent it goes on with its own copy. `NotebookAssumption`
and `BooksAssumption` say what the values are (an id is dealt by a call or by the
person; at first no cell has outputs, and the file is in Jupyter's form).

**`FileTransfer`** — calls that want the same path. `target` is the file there,
`temp` each call's temporary file; a step is one request and what the program does
with its answer, `Fails` a request that fails before or after it was served,
`Deadline` the cancellation of a fetch in any request.

**`JobPoll`** — one background job of `jobs.py`. `job` is the wrapper with its two files
(`status`, `written`), whose steps are those of the shell line the launch makes; `launch`
the launching call; `read` the small executions that read the files, which a poll may
leave behind (`Abandon`); `client` the `get_job` calls and the text their callers hold.
`queue` is what the kernel runs and what waits behind it, a person's cells included,
`lock` and `inflight` the kernel's lock and claim. Output is a sequence of bytes, some of
them halves of a character, as the windows are cut in bytes and decoded afterwards.

**`BoundedSink`** — `BoundedSink.append` of `state.py` (`Prints`, `Displays`) and the way
from the buffer to a `still_running` reply (`Capped`, `Joined`, `Reply`). A text is a
sequence of the places of its characters, so that two texts are equal exactly when
nothing was lost or moved; the elision marker is one character (`Elided`), and the code
may print it too. `whole` and `printed` are history variables.

**`CloudflareSetup`** — `scripts/setup_cfzt.py`. `objects`, `made`, `allows`, `gate`, `rule`,
`others`, `extras`, `dns` are the account, `tunnelFile`, `svcFile`, `connector` the host, `run` the
command with what it has learnt. `Ensured` is create-or-reuse by name; `PutApp` and
`PutRules` are the PUTs that replace whole objects, with a policy that a person attached
(`Theirs`), catch-alls and settings (`extras`) that they drop; `Attaches` says whether a PUT
always attaches the policies it names (the script goes on when it did not); `Stops` ends a command anywhere, which
covers a failing request, a lost answer, `die` and Ctrl-C. A person edits the
configuration, adds rules, settings and a policy in the dashboard, deletes a token and
uninstalls the connector at any time. `clean` and `orphaned` are history variables.

**`MC*`** extend these for TLC with symmetry sets, small initial notebooks and the bytes
of a job. **`*Proofs`** hold the theorems: one module for each of the above except
`ExecAdmission`, whose refinement is proved in `SingleFlightProofs`; `OutputProofs` has those of
`BoundedSink` and, in a second part, of `JobPoll`, whose names differ for that, as both are about
joining the pieces of what a program prints, and use the same lemmas for it.

The modules meet where the code does: `SingleFlight`'s `Send`/`Return`/
`EarlyReturn` are what `LocalExec` and `exec_colab` do in detail (its `early_return` and
`stop_fails` are what `ReturnedMeansOver` excludes for the local backend, its `closing`
is `Closing` there), and its `ForgetAlive`/`Adopt` are `StopReturns` and `Listed` of `ColabSessions`. `JobPoll` takes the
claim and the lock from the guard and the backend as it finds them; `BoundedSink` is the
record's `sink` of one task of `SingleFlight`.

## 3. What is checked

Each run is `tlc -config <cfg> MC<module>`. All runs explore their whole state
space. Deadlock is not checked: every instance makes finitely many calls and then
stops, which is the intended end.

| Run (cfg) | Question | Instance | States |
|---|---|---|---|
| `guard` (`SingleFlight_guard`) | Does a kernel execute without its claim, or a blind resend execute twice? Is a result handed over twice? | 3 calls, 2 identities, 1 kernel, stops, restarts and losses, no fault | 159 k |
| `guard_live` (`SingleFlight_live`) | Do records, claims and polls stay true under every fault, is the contract implemented, is every claim released? | 2 calls of one identity, 1 poller, all faults | 332 k |
| `local_kernel` (`LocalExec_kernel`) | Does anyone return too early, write off finished work, interrupt another call, or miscount the pool? | 2 executions, 2 kernels, 1 thread, 1 person's cell, restarts and stops, failing lookups | 2.7 M |
| `local_live` (`LocalExec_live`) | Does every execution end? | 2 executions, 1 kernel, 1 thread, failing interrupts, restarts and deletions | 366 k |
| `colab_overlap` (`ColabSessions_overlap`) | Are clients told the truth, does nothing terminal route, does no living session lose its entry, however tools overlap? | 1 session, any 3 calls of any tool, the reaper, failing stops, crashes between saves | 1.3 M |
| `colab_calls` (`ColabSessions_calls`) | Do dead sessions leave and old ones stop, whatever the calls of two clients that meet on one leave behind? | 1 session, any 2 calls of any tool, the reaper | 74 k |
| `kernels_live` (`KernelLifecycle_live`) | Does a start keep the cap it saw, is only the dead forgotten, does everything turn off? | 2 kernels (1 that cannot be deleted, 1 a person may start), 2 calls of any tool, the reaper | 383 k |
| `jobs` (`JobPoll_poll`) | Are ids, ends and windows of a job true, and is every poll answered? | 1 job of a few bytes, 1 client, 2 reads at once, window 2, 1 person's cell, a foreground execution, killed wrappers, broken reads, loss of the kernel | 487 k |
| `notebook` (`NotebookEdit_calls`) | Are outputs, ids, revs and edits what the tools promise in any interleaving of GETs and PUTs? | 3 calls of any tool, 1 save by the person, 2 cells (1 without id, 1 saved in another form) or no file | 3.5 M |
| `sink` (`BoundedSink_sink`) | Does bounding output as it arrives lose nothing without a mark, and is the end shown? | budget 4, 4 entries, 6 characters in messages of up to 5, 2 streams | 1.36 M |
| `transfer` (`FileTransfer_transfer`) | Does only a whole file appear, is nothing left behind, does every call end? | 2 calls, bodies of up to 3 pieces, cap 2, every request failing | 176 k |
| `setup` (`CloudflareSetup_setup`) | Does a re-run finish what was cut off, make nothing twice, keep the gate, the service policy and the other hostnames? | 2 versions of the configuration, 1 other hostname, 2 objects of a kind ever made, every command stopped anywhere, dashboard changes at any time | 1.4 M |

What they show, property by property (the comments in the modules say it in full):

- `ClaimCoversExecution`: without faults, whatever a kernel process executes is covered
  by its claim, or lost its client to a stop or restart that is still under way and will
  sweep it. In that window the code does run without a claim (section 5).
- `BlindResendRunsNothing`: after a cancelled call whose result is still
  remembered, an identical call starts nothing, whatever happened in between.
  `ReplayIsOneShot`: what it gets is the result of a finished, identical call whose client
  got nothing, and nobody gets it a second time.
- `AbandonmentIsRecorded`: the record says "the client never saw this" exactly when
  it did not, in both orders of cancellation and completion.
- `PollIsCurrent`: a long poll woken by the end of a task finds the bookkeeping done.
  `AdmissionSpec`: the guard refines `ExecAdmission`; among other things a task that
  ends late never takes the claim of its successor.
- `ClaimIsReleased`: if backends make progress and the user's code ends, every claim is
  released, whichever way its task ends.
- `ReturnedMeansOver`: when an execution's coroutine is over, so that lock and claim
  go, its code is off the kernel, or a restart or stop that cut it off has yet to reach the
  kernel. `NothingIsWrittenOff`: no execution whose reply arrived is declared
  unrecoverable. `InterruptsNoOtherCall`: an interrupt never ends another call's cell
  (but one that such a restart or stop has cut off); it may end a person's (section 5).
  `PoolAccounts`: the two counters are the workers they stand for, and no accepted item
  waits for a thread. `ExecEnds`: every execution ends, also when its kernel was
  restarted in place or deleted, or a request for that failed.
- `ReportedLostIsGone`: a loss is reported only when the VM is gone.
  `OnlyTheDeadAreDropped`: an entry leaves the registry only with its VM, but for a stop
  whose command failed and for a session tracked behind the list that drops it.
  `TerminalNeverRoutes`: only a crash between two saves leaves an entry in a terminal
  state. `HeartbeatNeverRaces`: a heartbeat and an exec never hold the session's lock of
  the table together. `ReaperCleansUp`: dead sessions leave and old ones stop while
  clients use them, of those entries that have a backend. `ColabSessions_live` asks the
  same of 2 sessions and 1 call (69 k states), where one session keeps the reaper busy
  while another waits for it.
- `StartKeepsCap`: a start leaves no more kernels than `MAX_KERNELS` or than it
  found, unless a kernel appeared after it looked. `OnlyTheDeadAreForgotten`: a
  DELETE that fails leaves the kernel under the age rule. `TurnsOff`: every kernel,
  busy, pinned or unknown, dies, unless an undeletable one is listed before it.
- `LaunchAnswersAreTrue`: an id is handed out only for a job that was started, and what
  was refused outright did not start. `EndCoversOutput`: a reply that says the job is
  over came with its last byte, or says that there is more. `StreamLosesNothing`: a
  client that passes `next_offset` back holds every byte of the file once and in order.
  `PollAnswered`: every `get_job` is answered, whatever a person runs on the kernel.
- `OutputsLandInTheirCell`: outputs are only ever in the cell whose source ran,
  wherever it moved. `IssuedRevDescribesFile`: until somebody writes, the notebook that was
  handed out is the file up to the form in which Jupyter saves it, and so is its rev unless
  this very call had to deal ids. `GuardedWriteOverwritesItsRev`, `WriteKeepsTheRest`: a
  write that nobody raced replaces the guarded revision, keeps the outputs of other
  cells, and keeps the edits made while a cell ran.
- `Bounds`: the buffer never grows past its caps. `StreamingIsFolding`: bounding as the
  output arrives is bounding all of it at once. `EndIsShown`: the last characters printed
  are the last of the reply. `LossIsMarked`: where something is missing, there is a marker.
- `NeverPartial`, `AbortTouchesNothing`, `OnlySwapsLose`, `TransferEnds`: only whole bodies
  land; an aborted body changes nothing; only a swap that broke after its DELETE loses a
  file; every call ends, also with a source that stalls, and its temporary file stays
  only if the deletion failed.
- `OneOfEach`: nothing exists twice, whatever stopped earlier runs. `CompletedMeansReconciled`:
  when apply is through, cloud and host are what the configuration says.
  `GateBeforeDoor`: no step outside destroy opens the hostname without its application and
  policy. `TheRestIsKept`: outside destroy, whole-object PUTs keep the service policy of the other
  command, and the rules of other hostnames that the GET before them returned. They do drop
  what else others put there (section 5).

Each module's `TypeOK` (`JobTypeOK` in `JobPoll`) is checked too: it is a theorem of `SingleFlight`, `KernelLifecycle`,
`FileTransfer`, `BoundedSink` and `CloudflareSetup`, and a part of `OneOfEach`,
`LaunchAnswersAreTrue`, `PoolAccounts`, `ReportedLostIsGone` and `IssuedRevDescribesFile`.

**Bounds.** `Calls`, `Execs`, `Tasks` are calls made once each; the properties relate
two calls (or a call, the one that resends it and a third that interferes), one
kernel or session, and the environment. `Kernels` is 2 where a resource is shared
between kernels (the pool, the capacity, Jupyter's list), else 1, as nothing
couples two kernels. `Workers = 1` makes the pool full at the second item.
`MaxHuman` bounds a person's cells, `MaxSaves` their saves, `MaxStarts` the starts
that overlap, `MaxPieces = 3 > Cap = 2` lets a body have a first, a middle and a
last piece and exceed the cap. `Reads = 2` lets one read be left behind while the next
one is awaited; `Window = 2` cuts a character of two bytes. `Budget = 4` gives a head
and a tail of two characters each, `MaxOutputs = 4` is the
smallest list with entries on both sides of the marker, `MaxChunk = 5` a message larger than
the budget, `MaxPrinted = MaxEntries = 6` two more than fit; for larger ones there is the
proof. `MaxMade = 2` lets a second object of a kind come to exist if the code would make
one. In `NotebookEdit` insertions go to the front and
moves past the end, so that positions shift under a running cell.

**Fairness.** `SingleFlight`: tasks go on, which is to say that backends work through their
steps and the user's code ends; nothing is assumed of clients, stops or restarts. `LocalExec`: coroutines and threads go on, which includes that REST
calls are answered (every client has a timeout), and a cell that runs ends; not
that a reply arrives. `ColabSessions`: subprocesses end (each has a timeout) and the
reaper's pass goes on; strong fairness only for a heartbeat (one per interval, as
often as the session's lock is free) and for `colab` saying at some ping of a dead
session that it is lost. `KernelLifecycle`: coroutines and the reaper go on, age
passes. `FileTransfer`: a request to Jupyter is answered or fails (client timeout);
nothing is assumed of the source of a fetch, whose deadline passes instead.
`JobPoll`: coroutines of the server go on and timers fire; nothing is assumed of the kernel,
of the person's cell, or of the job. `NotebookEdit`, `BoundedSink` and `CloudflareSetup` state
safety only: their calls are sequences of requests, and a setup command may stop anywhere.

## 4. What is proved

TLAPS checks the following for every value of the constants.

`SingleFlightProofs`, from `NoCallAssumption` (`NoCall` is not a call) and
`FaultsAssumption`:

| Theorem | Statement |
|---|---|
| `TypeCorrect` | `Spec => []TypeOK` |
| `ClaimsAreLive` | `Spec => []ClaimIsLive`: a claim belongs to a live task of its kernel |
| `AbandonmentRecorded` | `Spec => []AbandonmentIsRecorded` |
| `ReplayOneShot` | `Spec => []ReplayIsOneShot`: a result is replayed once, to an identical call whose predecessor's client got nothing |
| `ClaimCovers`, `OneExecution` | without faults, `Spec => []ClaimCoversExecution` and `Spec => []OneExecutionUnlessClosing`: one execution on every kernel that no stop or restart is about to sweep |
| `GuardImplementsAdmission` | `Spec => AdmissionSpec`, under every fault |
| `ClaimsAreKept` | `Spec => ClaimKeptWhileLive`: the claim of a live task is never handed to another call; it goes with the task (its end, a restart of the server) or to the cleanup of a stop (`forget_exec`), which finds the kernel gone unless a stop failed |
| `BlindResend` | `Spec => BlindResendRunsNothing`, under every fault |
| `PollsAreCurrent` | `Spec => PollIsCurrent` |

The argument. `ReplayIsOneShot` and `AbandonmentIsRecorded` are not inductive: they
depend on what a record can point to. `GuardInv` adds to them that a claim is of a
live task (`ClaimIsLive`), how a caller's phase fits its reply and its task
(`CallerInv`), that a record is of a finished task of its own kernel (`RecordInv`)
and that a replayed result is marked as such as long as it is remembered
(`ReplayInv`). It holds under every fault. What a kernel executes needs more:
`HoldInv` says that the code on a kernel is the one its claim's task has sent or has lost its
client (`severed`), the latter only while a stop or restart is under way (`closing`), that
no live kernel is unregistered, and that a live task without its claim has lost its
kernel; faults falsify it, so it is proved from `Faults = {}`. For the refinement each
action is a lemma (`FinishRefines`, `ForgetRefines`, `StepRefines`): `Finish` is
`Finish` or `FinishDisowned` according to whether the claim was still the task's,
`Forget` is `Disown` or a stutter, a cancellation, a deadline or a poll is a stutter.
The action properties follow from `GuardInv` step by step; `BlindResend` also needs
`ReplayedInv`: a result that was handed over is not offered as unread again.

`KernelLifecycleProofs`, from the assumptions in `KernelLifecycle` (any kernels, calls, cap,
JupyterLab user and undeletable kernels):

| Theorem | Statement |
|---|---|
| `TypeCorrect` | `Spec => []TypeOK`, with the server's list naming each living kernel once |
| `DeadAreForgotten` | `Spec => OnlyTheDeadAreForgotten` |
| `StartsKeepCap` | `Spec => StartKeepsCap` |

Coroutines act on lists that may be stale, so the invariant says what stays true of a
stale list: its kernels once existed (`Acts`), so that one that is not alive can never
come back, and as long as no kernel was created behind it, it holds all that are alive
(`Room`). `KernelInv` joins these to the types. `OneMoves` and `OneIsCreated` carry
it over for the coroutines that did not move; the step lemmas (`DeletingSteps`,
`StartingSteps`, `ToolSteps`, `ReaperSteps`, `OutsideSteps`) do the one that did. The cap is
then a count: what lives after the POST is in the list, less the victim, plus one.

`FileTransferProofs`, from `TransferAssumption` (any calls, tools, sizes, cap and
failures):

| Theorem | Statement |
|---|---|
| `TypeCorrect` | `Spec => []TypeOK`, with no temporary file above the cap |
| `NothingPartialLands` | `Spec => []NeverPartial` |
| `BrokenTransfersTouchNothing` | `Spec => []AbortTouchesNothing` |
| `OnlyBrokenSwapsLose` | `Spec => []OnlySwapsLose` |

`TransferInv` adds to the three how many pieces the temporary file has at every
request of a call (`Progress`), that no temporary file, and no download, is larger
than the cap (`Capped`), and that a call that touched the path had its whole body at the server
(`Traces`). `ServedEffect` says what a served request leaves; the step lemmas
(`StartKeeps`, `GoesOn`, `SucceedsKeeps`, `BreakOff`, `CleanupKeeps`) use it once for
each way a request can end. `SwapInv` is about a file that is gone: some call owes it
(`Owes`), one that has deleted it and has not renamed its own body yet, or broke there; it
rests on what a call was asked to do (`Asked`) and on `ServedEmpties`, the one request
that can empty the path.

`OutputProofs`, first part, from `SinkAssumption` (any even budget, caps and messages, markers in
them included):

| Theorem | Statement |
|---|---|
| `StreamingIsBounding` | `Spec => []StreamingIsFolding` |
| `SinkIsBounded` | `Spec => []Bounds` |
| `LossIsShown` | `Spec => []LossIsMarked` |
| `TheEndIsShown` | `Spec => []EndIsShown` |

The heart is `MergeIsFold`: merging a message into a bounded text gives the bounded text of
both together, because the head is cut at the first marker and the last `Half` characters of
a concatenation only depend on the last `Half` of its front. `SinkInv` carries it over the
list: the last entries of the buffer and of the whole output have the same kind, and, as
long as the code prints no marker, the buffer is `FoldedAtOnce` of the whole; the rest is
about which places of a list survive when its middle is replaced.

`LastsInv` compares the last text in the buffer with all of what its stream printed: they have the
same end, for half a budget (`EndsAlike`), and the same head up to the first marker
(`CutAlike`), also when the code prints the marker itself; and a list that is shorter
than the whole is full and has the marker in its middle. `LossIsShown` is read off it. For
`TheEndIsShown` the end is followed through the reply: a join ends with its last text
(`JoinedEnd`), and each of the two cuts behind it keeps an end (`CappedEnd`, `LastEnd`). `Joined`
is a recursive function; that it exists and what it holds is proved from a smallest
counterexample (`SmallestElement`), in place of an induction rule.

`OutputProofs`, second part, from `JobAssumption` (`Output` is a sequence of bytes, `Window` is
positive, and the names are different), for any number of callers, of reads and of a
person's cells:

| Theorem | Statement |
|---|---|
| `LaunchesAreTrue` | `JobSpec => []LaunchAnswersAreTrue` |
| `EndIsWhole` | `JobSpec => []EndCoversOutput` |
| `StreamIsWhole` | `JobSpec => []StreamLosesNothing` |
| `NarrowStreamIsOutput` | if the job prints no character of several bytes (`Narrow`), `JobSpec => []StreamedTextIsOutput` |

`JobInv` is the inductive invariant. The launch is at most once in the kernel's queue, and while it
is there no wrapper was started, also when its caller has given it up (`KernelInv`). What a
read has seen stays true (`ReadInv`): a job whose status said that it ended stays
ended, a size is not above the file's, and when the end was read before the size, the size is the
final one. That fails when a Colab VM takes the files with it, so it is claimed while they
are kept (`Kept`): a lost wrapper is then `killed`, never `over`. Each caller has one read that
belongs to it (`OneRead`) and it starts where the caller's text ends (`AskedInv`): this is
what lets a poll leave a read behind, whose window nobody will see. `FilesMove` carries all of
this over the steps of the kernel and the wrapper at once; `ReadMoves`, `CallerMoves` and `BothMove`
over those of a read and of its caller. For the text, `DecodedCat` says that decoding a
concatenation is concatenating what is decoded, unless a character lies across, and
`NextWindow` applies it to two windows that meet at a place where none does; as with `Joined`, it
is by smallest counterexample over the recursive function that decodes. The last theorem says that
cut characters are all that `StreamLosesNothing` excepts; `JobPoll_text` (section 5) shows
one.

`LocalExecProofs`, from the assumptions in `LocalExec` (any executions, kernels, threads,
person's cells), the last two also from `RestAnswers` (requests to interrupt, to restart and
to delete a kernel do not fail; the code has no path that sweeps up after one that does, see
section 5):

| Theorem | Statement |
|---|---|
| `PoolIsAccounted` | `Spec => []PoolAccounts`, under every fault |
| `NothingWrittenOff` | `Spec => []NothingIsWrittenOff`, under every fault |
| `ReturnedIsOver` | `Spec => []ReturnedMeansOver` |
| `InterruptsSpareOthers` | `Spec => InterruptsNoOtherCall` |

`LocalInv` has three parts. `PoolInv`: the counters are the cardinalities of the workers they
stand for, and these are finitely many. `QueueInv`: an execution's code is queued once, on its own
kernel. `ExecInv`, of each execution by itself: it holds its kernel's lock exactly between
`attach` and the exit (`LockKept`), its worker, its place in the queue and its coroutine agree
(`WorkerKnown`), and what the watchdog has seen is still so (`Observed`): a reply that was not
there at the second look at an idle kernel never comes. `NothingIsWrittenOff` is the last
of these. `ReturnedMeansOver` is not inductive even so: a stop of the client ends a worker whose
code goes on, until the restart or stop it belongs to sweeps the kernel. `AllCovered` says so:
code whose worker was stopped or whose coroutine is over is on the kernel only while that is
under way. What an interrupt meets is then its own cell, a person's, or one that is about
to be swept, as any other execution would hold the lock.

`ColabSessionsProofs`, from the assumptions in `ColabSessions` (any sessions, calls and
other faults):

| Theorem | Statement |
|---|---|
| `LostIsGone` | if no output looks like a lost session, `Spec => []ReportedLostIsGone` |
| `HeartbeatExcluded` | `Spec => []HeartbeatNeverRaces` |
| `TerminalIsRemoved` | `Spec => TerminalNeverRoutes` |
| `TheLivingAreKept` | if no output looks like a lost session, `Spec => OnlyTheDeadAreDropped` |

The hypothesis is that `"lookalike"` is not among the faults; `ColabSessions_lookalike` shows that
it is needed. `ColabInv` says of each coroutine what it may still believe: that a session
it deals with was made (`KnowsBorn`), and that a death it learnt of is one, which stays true
because no session is made twice (`KnowsDead`); of a list it holds only that
a living session missing from it is being started at that moment. `OneStart` keeps two starts off
one name; `LocksKept` says that whoever holds a lock that is still in the table is its holder
there. The two action properties go through one lemma per operator on the registry (`Forgotten`,
`Adopted`, `Marked`) and then through the tools, one by one.

`NotebookEditProofs`, from `NotebookAssumption` and `BooksAssumption` (any calls, tools,
notebooks, fragments and saves by a person):

| Theorem | Statement |
|---|---|
| `IssuedRevs` | `Spec => []IssuedRevDescribesFile` |
| `GuardedWrites` | `Spec => GuardedWriteOverwritesItsRev` |
| `WritesKeepTheRest` | `Spec => WriteKeepsTheRest` |
| `OutputsReachTheirCell` | if the notebook gives no id to two cells at first (`OneIdOneCell`), `Spec => []OutputsLandInTheirCell` |

`NotebookInv` says what a call holds that nobody has overtaken (`Unraced`): a read tool's answer
is the file, an edit's copy is the file with that edit, an execution's copy is the file with its
outputs, each up to the form in which Jupyter saves it; in a copy whose ids the call dealt
itself, only cells with such an id can differ in form (`Dealing`), and the file is always in
that form (`StoredInv`). With the lemmas about saving and the edits (`NormalFacts`, `SavedBook`,
`EditedFacts`, `WithOutputsFacts`) the first three theorems follow. The fourth is about calls that were overtaken, and old copies of the file that
are written back by whoever is late. `IdentityInv` says what an id stands for: wherever it
is, in the file, in any copy, in the hands of a running cell, it stands for one cell (`OneMeta`),
because a call deals each of its ids once, from one notebook, and no id it has yet to deal stands
for anything (`FreshInv`). The hypothesis is needed: in a notebook with duplicate ids a call that
resolves them may write back late and bring an id back for another cell than the one that still
has it (section 5). TLC finds it in six steps.

`CloudflareSetupProofs`, from `SetupAssumption` (any versions of the configuration, other
hostnames and number of objects ever made); the last three also from `~Crowded` (a lookup by
name finds what exists), and all but the first and the third also from `Attaches` (a PUT
attaches the policies it names; section 5):

| Theorem | Statement |
|---|---|
| `TypeCorrect` | `Spec => []TypeOK` |
| `GateComesFirst` | `Spec => GateBeforeDoor`, in any account |
| `NothingTwice` | `Spec => []OneOfEach` |
| `CompletedReconciles` | `Spec => []CompletedMeansReconciled` |
| `OthersAreKept` | `Spec => TheRestIsKept`: service policies and other hostnames' rules, outside destroy; no claim about what else others add |

`GateInv` is what a command knows of the application in any account: the policies it is about to
put include the human one, and once apply is past the gate, the gate stands. In an account where
lookups find what exists, an object is the last one of its kind (`Newest`), so what a
command has brought about before a request is there when it is sent (`Applying`, `Putting`,
`Serving`), and a configuration that was reconciled stays so until it is edited (`CleanInv`);
`SecretInv` says whose secret is on the host. `SetupInv` is inductive with the types.

Only model-checked: the liveness properties (`ClaimIsReleased`, `ExecEnds`,
`ReaperCleansUp`, `TurnsOff`, `PollAnswered`, `TransferEnds`), which are beyond the prover's
reach under fairness. Every invariant and every action property of the passing runs is stated by a
theorem.

## 5. Where the code and its documentation part

The configurations below reproduce disagreements and limits. Each ends in the violation
of the one property its table row names; where a row gives another property than the one in the file,
or other values, these are to be put in its place:

| Configuration | Property | What the code does |
|---|---|---|
| `ColabSessions_stalelist` | `OnlyTheGoneAreDropped` | `list_kernels` compares the registry after the `colab sessions` subprocess with the live set from before; a session that `start_kernel` tracked in between is declared lost and forgotten while its VM runs (`kernels.py:42`; against `kernels.py:43-44`, `backends/colab_cli.py:220-223`) |
| `FileTransfer_swap` | `FileSurvives` | with `overwrite` the target is deleted before the rename; when the rename fails, or a deadline cancels it, neither content is left (`backends/local_jupyter.py:256`; against `backends/local_jupyter.py:228-230`) |
| `SingleFlight_drop` | `OneExecutionPerKernel` | `_delete_kernel` and `restart_kernel` stop the client before they send their request: the call they cut off ends and its claim goes while its code is still on the kernel, and another call is admitted beside it (`backends/__init__.py:134`, `kernels.py:213`; against `jobs.py:156`) |
| `SingleFlight_drop` with `Faults = {"stop_fails"}` | `OneExecutionUnlessClosing` | `_delete_kernel` ignores the exit code of `colab stop` and drops the claim of a VM that still executes; `list_kernels` adopts it again (`backends/__init__.py:130`; against `jobs.py:156`) |
| `SingleFlight_drop` with `Faults = {"early_return"}` | `OneExecutionUnlessClosing` | `exec_colab` returns on a reply timeout while the cell may run, and the claim goes (`backends/colab_cli.py:354`; against `jobs.py:156`) |
| `SingleFlight_drop` with `Faults = {"mcp_restart"}` | `OneExecutionUnlessClosing` | after a server restart a kernel executes what the old process sent and no claim covers it (`state.py:76`; against the comment at `state.py:74-75`) |
| `LocalExec_interrupt` | `ReturnedMeansOver` | an interrupt request that fails ends `exec_local` with the code still running and its worker uncounted (`backends/local_jupyter.py:540`; against `:545-547`) |
| `LocalExec_interrupt` with `Faults = {"restart_fails"}` | `ReturnedMeansOver` | `restart_kernel` drops the client, which ends the running execution, and its restart request then fails (`kernels.py:213`) |
| `LocalExec_interrupt` with `Faults = {"delete_fails"}` | `ReturnedMeansOver` | `_delete_kernel` does the same before a DELETE that then fails (`backends/__init__.py:134-137`) |
| `LocalExec_interrupt` with `Faults = {}`, `MaxHuman = 1` | `InterruptSparesPeople` | the hard cap of a call whose cell waits behind a person's interrupts the person's (`backends/local_jupyter.py:540`; the comment at `jobs.py:79-80` names this and keeps job polls clear of it) |
| `ColabSessions_lookalike` with `Faults = {"crash"}` | `TerminalRoutesNowhere` | state and removal are two saves; a crash in between brings back a lost session that routes and that `stop_kernel` cannot remove (`backends/colab_cli.py:257`; against `:65-67`) |
| `ColabSessions_lockwait` | `ReaperNeverWaits` | an `asyncio.Lock` with waiters is not `locked()` between a release and the waiter's turn: the heartbeat then queues behind that exec (`backends/colab_cli.py:274`; against `:269-272`) |
| `ColabSessions_pinned` | `NothingLivesPastMaxAge` | the max-age cap skips pinned sessions (`backends/__init__.py:151`; against `kernels.py:288-289`) |
| `ColabSessions_pinned` with `Tasks = {t1, t2}` | `EveryEntryIsReaped` | a pin and an unpin of an id that is not tracked leave an entry without a backend, which no backend's pass ever visits (`registry.py:146-156`, `:178-180`; `backends/__init__.py:148`) |
| `ColabSessions_lookalike` | `ReportedLostIsGone` | an exception whose text looks like a lost session is taken for the loss of a healthy one (`backends/colab_cli.py:134`; against `:104-105`) |
| `KernelLifecycle_race` | `AtMostMaxKernels` | overlapping `start_kernel` calls each see room (`reaper.py:57`; against `README.md:138-139` of the repository) |
| `KernelLifecycle_busy` | `BusyIsSpared` | the reaper decides on a list fetched before earlier deletes; a kernel that has become busy is deleted for idleness (`backends/__init__.py:181`; against `:179`) |
| `KernelLifecycle_undeletable` | `NothingLivesOn` | an error of one DELETE ends every pass before the kernels listed after it (`backends/__init__.py:177`; against ADR 0006) |
| `NotebookEdit_clobber` | `GuardedWriteNeverClobbers` | `expected_rev` is compared with what was read at the start of the call, and the PUT comes an await later (`notebook.py:218`; against `README.md:111` of the repository) |
| `NotebookEdit_calls` with no other property | `IssuedRevIsTheFiles` | the rev that `read_notebook` hands out after it has dealt ids is the hash of the copy in memory, and Jupyter brings a file into its own form on save (`docs/refactor/README.md:160-166`): it is not the rev of the file (`notebook.py:110-112`; against `:123-124`) |
| `NotebookEdit_outputs` | `EditNeverTouchesOutputs` | `patch_cell` writes back the notebook it read, over outputs saved meanwhile (`notebook.py:223`; against `:211`) |
| `NotebookEdit_twoids` | `HandedOutIdsStay` | two readers of a notebook without ids each deal and save ids; the first one's are void (`notebook.py:110`; against ADR 0011) |
| `NotebookEdit_clobber` with `Tools = {"execute"}` and a notebook of two cells with one id | `OutputsLandInTheirCell` | the person deletes one of two cells that share an id after a call has loaded both: its write-back brings the id back for another cell than the one an execution knows by it, and outputs land in that one (`notebook.py:307`; needs a file with duplicate ids, which Jupyter itself does not write) |
| `FileTransfer_unasked` | `NoOverwriteUnasked` | `upload_file` checks the path and PUTs an await later: a file that appeared in between is replaced (`workspace.py:249`; against `:246`, `:251`) |
| `JobPoll_text` | `StreamedTextIsOutput` | a window ends in bytes: a character cut in two is shown as two replacement characters in the two replies (`jobs.py:319`) |
| `JobPoll_text` | `UnheardStartedNothing` | a launch whose reply is lost answers as one that failed, and the job runs without anybody knowing its id (`jobs.py:92-100`) |
| `BoundedSink_head` | `HeadStays` | the head kept is what stands before the first marker in the text, also one that the code printed itself (`state.py:142`; against the comment at `:143`) |
| `CloudflareSetup_crowded` | `OneOfEach` | lookups by name read one page of 50 objects: in an account with more, a re-run duplicates (`scripts/setup_cfzt.py:267`; against `:21-22`) |
| `CloudflareSetup_connector` | `SecretIsKept` | the secret of a new service token is written after the POST; a run that stops in between leaves a token that the re-run reuses without its secret (`scripts/setup_cfzt.py:790-803`) |
| `CloudflareSetup_connector` | `ConnectorServesDoor` | an installed connector is kept: after destroy and apply it serves the old tunnel (`scripts/setup_cfzt.py:657-659`) |
| `CloudflareSetup_connector` | `DoorIsGated` | destroy deletes the application before the DNS record and the tunnel (`scripts/setup_cfzt.py:855-869`; against the order apply keeps, `:569-571`) |
| `CloudflareSetup_setup` with no other property | `OthersAreLeftAlone` | an apply replaces the application's policies and the whole tunnel configuration: a policy a person attached, a rule without a hostname and the keys beside `ingress` go (`scripts/setup_cfzt.py:308-328`, `:381`, `:388`; against `:22`, "Nothing is deleted unless you ask for `destroy`") |
| `CloudflareSetup_setup` with no other property | `DestroySparesOthers` | destroy deletes the tunnel, and with it the rules of other hostnames (`scripts/setup_cfzt.py:871-887`; against `:29`, "remove what this script created") |
| `CloudflareSetup_setup` with `Attaches = FALSE` and no other property | `GateBeforeDoor` | when the PUT has attached no policy the script prints "NONE - stop and investigate" and goes on to open the door (`scripts/setup_cfzt.py:330`; against the order of `:569-571`) |

The passing runs state what does hold next to these: without the fault (`local_kernel` runs
without the three REST faults), without the input (`colab_overlap` has no look-alike output,
`setup` no crowded account and no PUT that attaches nothing), or with the exception named in
the property (`ClaimCoversExecution` for a kernel that a stop or restart is about to sweep,
`InterruptsNoOtherCall`, `ReaperCleansUp`, `OnlyTheDeadAreDropped`, `TerminalNeverRoutes`,
`StartKeepsCap`, `TurnsOff`, `LaunchAnswersAreTrue`, `StreamLosesNothing`,
`IssuedRevDescribesFile`, `GuardedWriteOverwritesItsRev`, `WriteKeepsTheRest`, `OnlySwapsLose`,
`StreamingIsFolding`, `CompletedMeansReconciled`, `GateBeforeDoor`, `TheRestIsKept`).

## 6. What is not modelled

- Cancellation of the coroutines of `start_kernel`, `stop_kernel` and
  `list_kernels` by a client; waits for readiness.
- Saves of the registry that fail; notebook bindings and heartbeat times in it. Entries
  without a backend only as far as a pin and an unpin leave them.
- The rows of `colab sessions` that are marked `[?]` have no state of their own: a VM whose
  record colab-cli has lost counts as gone (`Reclaim`), for the lookup skips it.
- Eviction of the oldest record beyond 256 kernels; the `detached` flag of a record.
- Which generation of a popped lock a coroutine holds: `stale` holds them all.
- Introspection tools, `switch_notebook`.
- In jobs: several jobs of one kernel; a killed wrapper leaves `running` in the status
  file for ever, which no poll can tell from a job that runs.
- In the sink: the separators between joined outputs, the length of the marker, a reader
  between the two halves of `append` (there is no await between them).
- In the setup script: the read-only probes `verify` and `check`, waits, messages; two
  operators at once. Of what other people change in the account: their policies on the
  application, and their rules and settings in the tunnel's configuration, and nothing else.
- In notebooks: cell types, summaries, `old` occurring twice, deletion of the file. That
  Jupyter brings a file into its own form on save is modelled as a change of the form of the
  cells alone: it leaves ids, sources and outputs as they are (no stripping of ids for an old
  nbformat), and a file that nobody has written through the program is already in that form.
  Revs returned by the tools that write: these are hashes of the copy in memory as well.
- In transfers: URL, redirect and path checks (pure), requests that Jupyter serves
  after the program gave them up, the `colab` subprocess that fetches a download to
  the server's own disk.
- Configuration, HTTP surface, the other scripts and deployment: no state to check.

## 7. Plan

Done: all modules of section 2, and proofs of all their safety properties.

Left to model, by what is missed most:

1. Registry bindings: notebook bindings, failing saves and the reload.
2. Compositions: `LocalExec` implements the part of `SingleFlight` behind `Run`
   (refinement mapping of `pc`, `queue` and `worker` to `task` and `running`, without
   the three REST faults); `NotebookEdit` with the guard's lost sessions; `JobPoll`'s reads as
   items of `LocalExec`'s pool.

Left to prove: the refinement of item 2, once it is modelled; the rest of what is checked is
liveness.

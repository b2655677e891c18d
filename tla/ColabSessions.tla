---- MODULE ColabSessions ----
(***************************************************************************)
(* Colab sessions: src/mcp/backends/colab_cli.py, the session half of      *)
(* kernels.py, registry.py, reaper.py and backends/__init__.py.            *)
(*                                                                         *)
(* Three views of a session have to agree: what runs at Colab, what the    *)
(* registry (kernels.json) says, and what a coroutine learnt from a        *)
(* `colab` subprocess before it resumed.  An operation is split where the  *)
(* code awaits: the call, the moment the subprocess takes effect, and the  *)
(* coroutine's return.  A registry write reaches the disk at once, so the  *)
(* registry of the model is both; a crash may hit between two writes.      *)
(***************************************************************************)
CONSTANTS
  Sessions,  \* session names: `rmcp-<hex>`, fresh for every start_kernel
  Tasks,     \* tool calls; each is made at most once
  Reaper,    \* the reaper's task
  Nobody,    \* no holder, no session
  Tools,     \* the tools that clients call
  Faults     \* what may go wrong

ToolKinds == {"start", "exec", "list", "restart", "stop", "stop_unknown", "pin"}
FaultKinds == {"crash", "stop_fails", "lookalike"}

ASSUME AgentsAssumption == Reaper \notin Tasks /\ Nobody \notin Tasks \cup {Reaper}
ASSUME NobodyAssumption == Nobody \notin Sessions
ASSUME ToolsAssumption == Tools \subseteq ToolKinds
ASSUME ColabFaultsAssumption == Faults \subseteq FaultKinds

VARIABLES
  vm,     \* the session at Colab, as far as colab-cli can address it
  reg,    \* state._registry
  cmd,    \* every coroutine: its operation, where it is, what it learnt
  lock,   \* state._locks: who holds the lock that is in the table
  stale,  \* coroutines that hold, or wait for, a lock no longer in the table
  todo    \* ids the reaper's pass has left

vars == <<vm, reg, cmd, lock, stale, todo>>

Agents == Tasks \cup {Reaper}

States == {"none", "unset", "starting", "live", "lost", "stopped"}
Entry == [backend: BOOLEAN, state: States, pinned: BOOLEAN,
          age: {"none", "young", "old"}]
Absent == [backend |-> FALSE, state |-> "none", pinned |-> FALSE, age |-> "none"]

Idle == [op |-> "none", on |-> Nobody, pc |-> "idle", got |-> "none", live |-> {}]
Answers == {"started", "answered", "session_lost", "kernel_busy", "listed", "stopped",
            "illegal", "failed", "killed"}

TypeOK ==
  /\ vm \in [Sessions -> {"unborn", "up", "gone"}]
  /\ reg \in [Sessions -> Entry]
  /\ cmd \in [Agents -> [op: {"none", "beat", "boot"} \cup ToolKinds,
                         on: Sessions \cup {Nobody},
                         pc: {"idle", "lock", "cli", "back", "probe", "probed", "done"},
                         got: {"none", "live", "timeout", "error", "lost", "ok"} \cup Answers,
                         live: SUBSET Sessions]]
  /\ lock \in [Sessions -> Agents \cup {Nobody}]
  /\ stale \subseteq Agents
  /\ todo \subseteq Sessions

----
(* The registry.  Each operator on one id is one mutation, that is one save.   *)

Known(r, s) == r[s].state # "none"
Routed(r, s) == r[s].backend
Ids(r) == {s \in Sessions : Routed(r, s)}

Tracked(e) == IF e.state = "none"
              THEN [backend |-> TRUE, state |-> "unset", pinned |-> FALSE, age |-> "young"]
              ELSE [e EXCEPT !.backend = TRUE]

TrackAll(r, S) == [s \in Sessions |-> IF s \in S THEN Tracked(r[s]) ELSE r[s]]
Forget(r, S) == [s \in Sessions |-> IF s \in S THEN Absent ELSE r[s]]
SetState(r, s, to) == [r EXCEPT ![s].state = to]

\* An entry that pin makes has a first_seen but no backend.
SetPin(r, s, to) ==
  IF Known(r, s) THEN [r EXCEPT ![s].pinned = to]
  ELSE IF to THEN [r EXCEPT ![s] = [Tracked(Absent) EXCEPT !.backend = FALSE, !.pinned = TRUE]]
  ELSE r

GetState(r, s) == IF r[s].state = "unset" THEN "live" ELSE r[s].state

Legal(from, to) ==
  \/ from = to
  \/ from = "starting" /\ to \in {"live", "lost", "stopped"}
  \/ from = "live" /\ to \in {"lost", "stopped"}

\* The registries that _mark_lost leaves on the disk before its last save, when
\* it is called for the ids of S in some order.
LosingWrites(r, S) ==
  UNION {{Forget(r, D)}
           \cup {SetState(Forget(r, D), s, "lost") :
                   s \in {x \in S \ D : Known(r, x) /\ Legal(GetState(r, x), "lost")}}
         : D \in SUBSET S}

----
(* Locks. *)

InLock(a) == cmd[a].op \in {"exec", "beat"} /\ cmd[a].pc # "done"
Holding(a) == InLock(a) /\ cmd[a].pc # "lock"

\* locks.pop(id), from a's last step before the next await (or its end).
PopLocks(a, S) ==
  /\ lock' = [s \in Sessions |-> IF s \in S THEN Nobody ELSE lock[s]]
  /\ stale' = (stale \cup {b \in Agents : InLock(b) /\ cmd[b].on \in S}) \ {a}

\* lock.release(), when a holds one.
Release(a) ==
  /\ lock' = [s \in Sessions |-> IF lock[s] = a THEN Nobody ELSE lock[s]]
  /\ stale' = stale \ {a}

----
(* How a coroutine begins, moves on and ends. *)

Call(t, o, s, at) ==
  /\ o \in Tools
  /\ cmd[t] = Idle
  /\ cmd' = [cmd EXCEPT ![t] = [Idle EXCEPT !.op = o, !.on = s, !.pc = at]]

Goto(a, at, g) == cmd' = [cmd EXCEPT ![a] = [@ EXCEPT !.pc = at, !.got = g]]

\* The reaper goes on with its pass; a tool call is over.
End(a, answer) ==
  cmd' = [cmd EXCEPT ![a] = IF a = Reaper THEN Idle
                            ELSE [@ EXCEPT !.pc = "done", !.got = answer, !.live = {}]]

\* The process dies with any of `left` on the disk; the next one reconciles.
Dies(left) ==
  /\ "crash" \in Faults
  /\ reg' \in left
  /\ cmd' = [a \in Agents |->
       IF a = Reaper THEN [Idle EXCEPT !.op = "boot", !.pc = "probe"]
       ELSE IF cmd[a].pc \in {"idle", "done"} THEN cmd[a]
       ELSE [cmd[a] EXCEPT !.pc = "done", !.got = "killed", !.live = {}]]
  /\ lock' = [s \in Sessions |-> Nobody]
  /\ stale' = {}
  /\ todo' = {}

Crash == Dies({reg}) /\ UNCHANGED vm

\* _mark_lost for the ids of S, as the end of a: r is the registry it finds,
\* `before` what the same stretch of code has written until then.
LoseAndEnd(a, r, S, before, answer) ==
  \/ /\ reg' = Forget(r, S)
     /\ End(a, answer)
     /\ IF S = {} THEN Release(a) ELSE PopLocks(a, S)
     /\ UNCHANGED todo
  \/ Dies(before \cup LosingWrites(r, S))

----
(***************************************************************************)
(* The `colab` subprocess, as its caller sees it.                          *)
(***************************************************************************)
\* classify_result for exec and restart-kernel.  colab-cli reports a loss only
\* of a dead session, not of every one; but the user's own output is read too,
\* when the code raises.
Outcomes(a) ==
  {"timeout", "error"}
    \cup (IF vm[cmd[a].on] = "up" THEN {"live"} ELSE {"lost"})
    \cup (IF cmd[a].op = "exec" /\ "lookalike" \in Faults THEN {"lost"} ELSE {})

CliAnswers(a, how) ==
  /\ cmd[a].pc = "cli"
  /\ cmd[a].op \in {"exec", "beat", "restart"}
  /\ how \in Outcomes(a)
  /\ Goto(a, "back", how)
  /\ UNCHANGED <<vm, reg, lock, stale, todo>>

\* Mutant: a lookup that failed looks like one that found no session.
LookupEmpty(a) ==
  /\ cmd[a].pc = "probe"
  /\ \E up \in {{s \in Sessions : vm[s] = "up"}, {}} :
       cmd' = [cmd EXCEPT ![a] = [@ EXCEPT !.pc = "probed", !.got = "ok", !.live = up]]
  /\ UNCHANGED <<vm, reg, lock, stale, todo>>

\* _live_colab_sessions: the names, or None if `colab sessions` failed.  A VM
\* listed as `[?]`, without a record here, is skipped.
Lookup(a) ==
  /\ cmd[a].pc = "probe"
  /\ \/ cmd' = [cmd EXCEPT ![a] = [@ EXCEPT !.pc = "probed", !.got = "ok",
                                            !.live = {s \in Sessions : vm[s] = "up"}]]
     \/ Goto(a, "probed", "error")
  /\ UNCHANGED <<vm, reg, lock, stale, todo>>

Absence(a, s) == cmd[a].got = "ok" /\ s \notin cmd[a].live

\* Colab reclaims the VM, or colab-cli loses its record of the session and can
\* no longer address it.
Reclaim(s) ==
  /\ vm[s] = "up"
  /\ vm' = [vm EXCEPT ![s] = "gone"]
  /\ UNCHANGED <<reg, cmd, lock, stale, todo>>

----
(***************************************************************************)
(* start_kernel(backend="colab").                                          *)
(***************************************************************************)
Start(t, s) ==
  /\ vm[s] = "unborn"
  /\ \A b \in Agents : ~(cmd[b].op = "start" /\ cmd[b].on = s)
  /\ Call(t, "start", s, "cli")
  /\ UNCHANGED <<vm, reg, lock, stale, todo>>

\* `colab new` may have made the session although it reports a failure.
Provision(t) ==
  /\ cmd[t].op = "start" /\ cmd[t].pc = "cli"
  /\ \/ vm' = [vm EXCEPT ![cmd[t].on] = "up"] /\ Goto(t, "back", "ok")
     \/ vm' = [vm EXCEPT ![cmd[t].on] = "up"] /\ Goto(t, "back", "error")
     \/ vm' = [vm EXCEPT ![cmd[t].on] = "gone"] /\ Goto(t, "back", "error")
  /\ UNCHANGED <<reg, lock, stale, todo>>

\* track, then mark_session_live's two set_state.
Started(t) ==
  LET s == cmd[t].on
      tracked == TrackAll(reg, {s})
  IN  /\ cmd[t].op = "start" /\ cmd[t].pc = "back"
      /\ \/ /\ cmd[t].got = "ok"
            /\ \/ reg' = SetState(tracked, s, "live") /\ End(t, "started") /\ UNCHANGED <<lock, stale, todo>>
               \/ Dies({reg, tracked, SetState(tracked, s, "starting")})
         \/ cmd[t].got = "error" /\ End(t, "failed") /\ UNCHANGED <<reg, lock, stale, todo>>
      /\ UNCHANGED vm

----
(***************************************************************************)
(* exec_colab, reached through _resolve_backend: a tracked id routes, in   *)
(* whatever state; an unknown one raises.                                  *)
(***************************************************************************)
Exec(t, s) ==
  /\ Routed(reg, s)
  /\ Call(t, "exec", s, "lock")
  /\ UNCHANGED <<vm, reg, lock, stale, todo>>

\* The lock in the table, or the one that was there when a began to wait.
LockFree(a) ==
  LET s == cmd[a].on
  IN  IF a \in stale
      THEN \A b \in stale : ~(Holding(b) /\ cmd[b].on = s)
      ELSE lock[s] = Nobody

AcquireLock(a) ==
  /\ InLock(a) /\ cmd[a].pc = "lock"
  /\ LockFree(a)
  /\ lock' = IF a \in stale THEN lock ELSE [lock EXCEPT ![cmd[a].on] = a]
  /\ Goto(a, "cli", "none")
  /\ UNCHANGED <<vm, reg, stale, todo>>

\* acquire_timeout, which introspection calls have.
KernelBusy(t) ==
  /\ cmd[t].op = "exec" /\ cmd[t].pc = "lock"
  /\ End(t, "kernel_busy")
  /\ Release(t)
  /\ UNCHANGED <<vm, reg, todo>>

ExecReturns(t) ==
  /\ cmd[t].op = "exec" /\ cmd[t].pc = "back"
  /\ CASE cmd[t].got = "lost" -> LoseAndEnd(t, reg, {cmd[t].on}, {}, "session_lost")
       [] cmd[t].got = "timeout" -> Goto(t, "probe", "none") /\ UNCHANGED <<reg, lock, stale, todo>>
       [] OTHER -> End(t, "answered") /\ Release(t) /\ UNCHANGED <<reg, todo>>
  /\ UNCHANGED vm

\* restart_kernel: the same questions without the lock, and any result but a
\* live one is looked into.
Restart(t, s) ==
  /\ Routed(reg, s)
  /\ Call(t, "restart", s, "cli")
  /\ UNCHANGED <<vm, reg, lock, stale, todo>>

\* Mutant: an opaque failure of restart-kernel is taken for a loss.
RestartGivesUp(t) ==
  /\ cmd[t].op = "restart" /\ cmd[t].pc = "back"
  /\ IF cmd[t].got # "live"
     THEN LoseAndEnd(t, reg, {cmd[t].on}, {}, "session_lost")
     ELSE End(t, "answered") /\ UNCHANGED <<reg, lock, stale, todo>>
  /\ UNCHANGED vm

RestartReturns(t) ==
  /\ cmd[t].op = "restart" /\ cmd[t].pc = "back"
  /\ CASE cmd[t].got = "lost" -> LoseAndEnd(t, reg, {cmd[t].on}, {}, "session_lost")
       [] cmd[t].got = "live" -> End(t, "answered") /\ UNCHANGED <<reg, lock, stale, todo>>
       [] OTHER -> Goto(t, "probe", "none") /\ UNCHANGED <<reg, lock, stale, todo>>
  /\ UNCHANGED vm

\* _confirm_lost: only an absence that was looked up makes a session lost.
Confirmed(t) ==
  /\ cmd[t].op \in {"exec", "restart"} /\ cmd[t].pc = "probed"
  /\ IF Absence(t, cmd[t].on)
     THEN LoseAndEnd(t, reg, {cmd[t].on}, {}, "session_lost")
     ELSE End(t, "answered") /\ Release(t) /\ UNCHANGED <<reg, todo>>
  /\ UNCHANGED vm

----
(***************************************************************************)
(* list_kernels, stop_kernel, pin_kernel.                                  *)
(***************************************************************************)
List(t) ==
  /\ Call(t, "list", Nobody, "probe")
  /\ UNCHANGED <<vm, reg, lock, stale, todo>>

\* The live set against the registry as it is now: adopt, then declare lost.
Listed(t) ==
  LET unknown == {s \in cmd[t].live : ~Routed(reg, s)}
      adopted == TrackAll(reg, unknown)
  IN  /\ cmd[t].op = "list" /\ cmd[t].pc = "probed"
      /\ IF cmd[t].got = "ok"
         THEN LoseAndEnd(t, adopted, Ids(adopted) \ cmd[t].live,
                         {TrackAll(reg, A) : A \in SUBSET unknown}, "listed")
         ELSE End(t, "listed") /\ UNCHANGED <<reg, lock, stale, todo>>
      /\ UNCHANGED vm

Stop(t, s) ==
  /\ Routed(reg, s)
  /\ Call(t, "stop", s, "cli")
  /\ UNCHANGED <<vm, reg, lock, stale, todo>>

\* `colab stop`, whose result nobody looks at.
StopRuns(a) ==
  /\ cmd[a].op = "stop" /\ cmd[a].pc = "cli"
  /\ \/ vm' = [vm EXCEPT ![cmd[a].on] = "gone"]
     \/ "stop_fails" \in Faults /\ UNCHANGED vm
  /\ Goto(a, "back", "none")
  /\ UNCHANGED <<reg, lock, stale, todo>>

\* Mutant: a stopped session's entry is left for list_kernels to clean up.
StopReturnsKeeps(a) ==
  LET s == cmd[a].on
  IN  /\ cmd[a].op = "stop" /\ cmd[a].pc = "back"
      /\ reg' = IF Known(reg, s) THEN SetState(reg, s, "stopped") ELSE reg
      /\ End(a, "stopped")
      /\ PopLocks(a, {s})
      /\ UNCHANGED <<vm, todo>>

\* An illegal transition leaves _delete_kernel, and the reaper's pass.
StopReturns(a) ==
  LET s == cmd[a].on
      known == Known(reg, s)
  IN  /\ cmd[a].op = "stop" /\ cmd[a].pc = "back"
      /\ IF known /\ ~Legal(GetState(reg, s), "stopped")
         THEN /\ End(a, "illegal")
              /\ todo' = IF a = Reaper THEN {} ELSE todo
              /\ UNCHANGED <<reg, lock, stale>>
         ELSE \/ /\ reg' = Forget(reg, {s})
                 /\ End(a, "stopped")
                 /\ PopLocks(a, {s})
                 /\ UNCHANGED todo
              \/ known /\ Dies({SetState(reg, s, "stopped")})
      /\ UNCHANGED vm

\* An id without a backend is taken for a local kernel: a 404, then the cleanup.
StopUnknown(t, s) ==
  /\ vm[s] # "unborn" /\ ~Routed(reg, s)
  /\ Call(t, "stop_unknown", s, "cli")
  /\ UNCHANGED <<vm, reg, lock, stale, todo>>

StoppedUnknown(t) ==
  LET s == cmd[t].on
  IN  /\ cmd[t].op = "stop_unknown" /\ cmd[t].pc = "cli"
      /\ reg' = Forget(reg, {s})
      /\ End(t, "stopped")
      /\ PopLocks(t, {s})
      /\ UNCHANGED <<vm, todo>>

Pin(t, s, to) ==
  /\ vm[s] # "unborn"
  /\ Call(t, "pin", s, "done")
  /\ reg' = SetPin(reg, s, to)
  /\ UNCHANGED <<vm, lock, stale, todo>>

----
(***************************************************************************)
(* The reaper: once _reconcile_colab, then passes of _reap_cli_backend     *)
(* over a snapshot of the ids, one at a time.                              *)
(***************************************************************************)
BootAdopts ==
  LET unknown == {s \in cmd[Reaper].live : ~Routed(reg, s)}
  IN  /\ cmd[Reaper].op = "boot" /\ cmd[Reaper].pc = "probed"
      /\ \/ reg' = TrackAll(reg, unknown) /\ End(Reaper, "none") /\ UNCHANGED <<lock, stale, todo>>
         \/ Dies({TrackAll(reg, A) : A \in SUBSET unknown})
      /\ UNCHANGED vm

Ages(s) ==
  /\ reg[s].age = "young"
  /\ reg' = [reg EXCEPT ![s].age = "old"]
  /\ UNCHANGED <<vm, cmd, lock, stale, todo>>

ReapPass ==
  /\ cmd[Reaper] = Idle /\ todo = {}
  /\ Ids(reg) # {}
  /\ todo' = Ids(reg)
  /\ UNCHANGED <<vm, reg, cmd, lock, stale>>

Visit(s) == cmd[Reaper] = Idle /\ s \in todo /\ todo' = todo \ {s}

Overdue(s) == reg[s].age = "old" /\ ~reg[s].pinned

ReapStop(s) ==
  /\ Visit(s)
  /\ Overdue(s)
  /\ cmd' = [cmd EXCEPT ![Reaper] = [Idle EXCEPT !.op = "stop", !.on = s, !.pc = "cli"]]
  /\ UNCHANGED <<vm, reg, lock, stale>>

\* Not due, or the lock is held.
ReapSkip(s) ==
  /\ Visit(s)
  /\ ~Overdue(s)
  /\ UNCHANGED <<vm, reg, cmd, lock, stale>>

\* Mutant: a held lock does not keep the ping back.
PingAlways(s) ==
  /\ Visit(s)
  /\ ~Overdue(s)
  /\ cmd' = [cmd EXCEPT ![Reaper] = [Idle EXCEPT !.op = "beat", !.on = s, !.pc = "cli"]]
  /\ UNCHANGED <<vm, reg, lock, stale>>

\* The lock is not held, yet somebody may be about to get it.
Ping(s) ==
  /\ Visit(s)
  /\ ~Overdue(s)
  /\ lock[s] = Nobody
  /\ LET waited == \E b \in Tasks \ stale : cmd[b].on = s /\ cmd[b].op = "exec" /\ cmd[b].pc = "lock"
     IN  /\ cmd' = [cmd EXCEPT ![Reaper] = [Idle EXCEPT !.op = "beat", !.on = s,
                                                          !.pc = IF waited THEN "lock" ELSE "cli"]]
         /\ lock' = IF waited THEN lock ELSE [lock EXCEPT ![s] = Reaper]
  /\ UNCHANGED <<vm, reg, stale>>

\* Mutant: only an answered ping counts; a dead session keeps its entry.
PingForgives ==
  /\ cmd[Reaper].op = "beat" /\ cmd[Reaper].pc = "back"
  /\ End(Reaper, "answered") /\ Release(Reaper)
  /\ UNCHANGED <<vm, reg, todo>>

Pinged ==
  /\ cmd[Reaper].op = "beat" /\ cmd[Reaper].pc = "back"
  /\ IF cmd[Reaper].got = "lost"
     THEN LoseAndEnd(Reaper, reg, {cmd[Reaper].on}, {}, "answered")
     ELSE End(Reaper, "answered") /\ Release(Reaper) /\ UNCHANGED <<reg, todo>>
  /\ UNCHANGED vm

----
Init ==
  /\ vm \in [Sessions -> {"unborn", "up"}]
  /\ reg \in [Sessions -> {Absent, [Tracked(Absent) EXCEPT !.state = "live"]}]
  /\ \A s \in Sessions : vm[s] = "unborn" => reg[s] = Absent
  /\ cmd = [a \in Agents |-> IF a = Reaper THEN [Idle EXCEPT !.op = "boot", !.pc = "probe"] ELSE Idle]
  /\ lock = [s \in Sessions |-> Nobody]
  /\ stale = {}
  /\ todo = {}

ClientCall(t) ==
  \/ List(t)
  \/ \E s \in Sessions : Start(t, s) \/ Exec(t, s) \/ Restart(t, s) \/ Stop(t, s) \/ StopUnknown(t, s)
  \/ \E s \in Sessions, to \in BOOLEAN : Pin(t, s, to)

Progress(a) ==
  \/ \E how \in {"live", "timeout", "error", "lost"} : CliAnswers(a, how)
  \/ Lookup(a) \/ Provision(a) \/ Started(a) \/ AcquireLock(a) \/ KernelBusy(a) \/ ExecReturns(a)
  \/ RestartReturns(a) \/ Confirmed(a) \/ Listed(a) \/ StopRuns(a) \/ StopReturns(a) \/ StoppedUnknown(a)

Reap == \/ BootAdopts \/ ReapPass \/ Pinged
        \/ \E s \in Sessions : ReapStop(s) \/ ReapSkip(s) \/ Ping(s)

Next ==
  \/ \E t \in Tasks : ClientCall(t)
  \/ \E a \in Agents : Progress(a)
  \/ Reap
  \/ \E s \in Sessions : Reclaim(s) \/ Ages(s)
  \/ Crash

Spec == Init /\ [][Next]_vars

\* Subprocesses end and the loop runs; heartbeats fall due again and again, and
\* colab-cli will in the end say of a dead session that it is lost.
FairSpec ==
  /\ Spec
  /\ \A a \in Agents : WF_vars(Progress(a))
  /\ WF_vars(Reap)
  /\ \A s \in Sessions : SF_vars(Ping(s))
  /\ SF_vars(CliAnswers(Reaper, "lost"))

----
(* Properties. *)

\* A client told session_lost ("its VM/tunnel is gone", "nothing survives") can
\* act on it: no hiccup of colab-cli is reported as a death (classify_result,
\* _confirm_lost).  Every variable stays in its range.
ReportedLostIsGone ==
  /\ TypeOK
  /\ \A t \in Tasks : cmd[t].got = "session_lost" => vm[cmd[t].on] = "gone"

Dropped(s) == Routed(reg, s) /\ ~Routed(reg', s)

\* A stop of s comes back (`colab stop` may have failed, _delete_kernel does not
\* look), or a list_kernels whose lookup is older than the session.
StopOf(a, s) == cmd[a].op \in {"stop", "stop_unknown"} /\ cmd[a].on = s
ListBefore(a, s) == cmd[a].op = "list" /\ cmd[a].got = "ok" /\ s \notin cmd[a].live
BornLate(s) == \E t \in Tasks : cmd[t].op = "start" /\ cmd[t].on = s

\* "Never on a hiccup, only on authoritative absence": an entry is dropped only
\* when its session is gone, whatever was looked up and done in between, and
\* wherever a crash hits; except by a stop of that very session, and by a
\* list_kernels that looked before start_kernel had made it.
OnlyTheDeadAreDropped ==
  [][\A s \in Sessions : Dropped(s) /\ vm[s] = "up" =>
       \E a \in Agents :
         /\ cmd'[a] # cmd[a]
         /\ StopOf(a, s) \/ (ListBefore(a, s) /\ BornLate(s))]_vars

\* The same without the exceptions (_confirm_lost).
OnlyTheGoneAreDropped == [][\A s \in Sessions : Dropped(s) => vm[s] = "gone"]_vars

Terminal(r, s) == r[s].state \in {"lost", "stopped"}
Crashed == cmd'[Reaper].op = "boot" /\ cmd'[Reaper].pc = "probe" /\ \A t \in Tasks : cmd'[t].pc \in {"idle", "done"}

\* A terminal state is followed by the entry's removal before anything else
\* runs, "so it never routes anywhere" (ColabSessionState): only a crash between
\* the two saves leaves an entry in one.
TerminalNeverRoutes ==
  [][\A s \in Sessions : Terminal(reg', s) => Terminal(reg, s) \/ Crashed]_vars

\* The same without the exception.
TerminalRoutesNowhere == \A s \in Sessions : ~(Routed(reg, s) /\ Terminal(reg, s))

\* The heartbeat "never races a user exec": no ping while an exec that uses the
\* session's present lock is with colab-cli.
HeartbeatNeverRaces ==
  \A t \in Tasks \ stale :
    ~(/\ cmd[t].op = "exec" /\ Holding(t) /\ cmd[Reaper].op = "beat" /\ Holding(Reaper)
      /\ Reaper \notin stale /\ cmd[t].on = cmd[Reaper].on)

\* A heartbeat that found the lock free does not wait for it: "the lock wait
\* would block the entire sequential reaper" (_heartbeat_colab).
ReaperNeverWaits == cmd[Reaper].pc # "lock"

\* The reaper cleans up: the entry of a dead session does not stay, even if
\* nobody calls list_kernels and a stale list_kernels brings it back; and the
\* max-age cap reaches every unpinned session that is routed, also behind others
\* that are busy or slow to answer (_heartbeat_colab, _reap_cli_backend).
ReaperCleansUp ==
  /\ \A s \in Sessions : (vm[s] = "gone" /\ Routed(reg, s)) ~> ~Routed(reg, s)
  /\ \A s \in Sessions : (Overdue(s) /\ Routed(reg, s)) ~> ~(Overdue(s) /\ Routed(reg, s))

\* The same of every entry.  A pin and an unpin of an id that is not tracked
\* leave one without a backend, which ids_for_backend does not return.
EveryEntryIsReaped == \A s \in Sessions : Overdue(s) ~> ~Overdue(s)

\* pin_kernel: "nothing lives past" the max-age hard cap.
NothingLivesPastMaxAge == \A s \in Sessions : reg[s].age = "old" ~> reg[s].age # "old"
====

---- MODULE KernelLifecycle ----
(***************************************************************************)
(* Local kernels: start_kernel and its capacity check, stop_kernel,        *)
(* list_kernels, pin_kernel, the routing of an execution, and the reaper's *)
(* pass (src/mcp/kernels.py, reaper.py, backends/__init__.py).             *)
(*                                                                         *)
(* The Jupyter server has the kernels; the registry has what this server   *)
(* knows of them; a coroutine acts on a list of kernels it fetched some    *)
(* awaits ago.  A request is split where the code awaits the answer.       *)
(***************************************************************************)
EXTENDS Naturals, FiniteSets, Sequences, SequencesExt

CONSTANTS
  Kernels,     \* kernel ids
  Tasks,       \* tool calls; each is made at most once
  Reaper,
  Nothing,     \* no kernel
  MaxKernels,
  Tools,
  Outside,     \* kernels that JupyterLab's user may start, and shut down
  Undeletable, \* kernels whose DELETE the server answers with an error
  MaxStarts    \* bound on start_kernel calls that overlap

ToolKinds == {"start", "exec", "stop", "list", "pin"}

ASSUME ReaperAssumption == Reaper \notin Tasks
ASSUME NothingAssumption == Nothing \notin Kernels
ASSUME CapAssumption == MaxKernels \in Nat \ {0}
ASSUME ToolsAssumption == Tools \subseteq ToolKinds
ASSUME UndeletableAssumption == Undeletable \subseteq Kernels
ASSUME OutsideAssumption == Outside \subseteq Kernels
ASSUME MaxStartsAssumption == MaxStarts \in Nat

VARIABLES
  jup,      \* the kernel at the server
  created,  \* the server's list of living kernels, oldest first
  quiet,    \* kernels whose last activity is longer ago than the idle timeout
  reg,      \* state._registry
  old,      \* kernels known for longer than the max age
  cmd,      \* every coroutine
  raced     \* start_kernel calls behind whose list another kernel was created

vars == <<jup, created, quiet, reg, old, cmd, raced>>
server == <<jup, created, quiet>>

Agents == Tasks \cup {Reaper}
Alive == {k \in Kernels : jup[k] \in {"idle", "busy"}}

Entry == [known: BOOLEAN, routed: BOOLEAN, pinned: BOOLEAN]
Absent == [known |-> FALSE, routed |-> FALSE, pinned |-> FALSE]

\* A kernel as GET /api/kernels shows it.
Row == [id: Kernels, idle: BOOLEAN, quiet: BOOLEAN]

Coroutine == [op: {"none", "reap"} \cup ToolKinds, on: Kernels \cup {Nothing},
              pc: {"idle", "fetch", "fetched", "loop", "delete", "deleted", "post", "posted",
                   "run", "running", "done"},
              rows: Seq(Row)]
Idle == [op |-> "none", on |-> Nothing, pc |-> "idle", rows |-> <<>>]

TypeOK ==
  /\ jup \in [Kernels -> {"none", "idle", "busy", "gone"}]
  /\ created \in Seq(Kernels) /\ Range(created) = Alive /\ IsInjective(created)
  /\ quiet \subseteq Alive
  /\ reg \in [Kernels -> Entry]
  /\ old \subseteq Kernels
  /\ cmd \in [Agents -> Coroutine]
  /\ raced \subseteq Tasks

----
(* The registry. *)

Tracked(e) == IF e.known THEN [e EXCEPT !.routed = TRUE]
              ELSE [Absent EXCEPT !.known = TRUE, !.routed = TRUE]

Track(S) == reg' = [k \in Kernels |-> IF k \in S THEN Tracked(reg[k]) ELSE reg[k]]

Adopt(S) == Track({k \in S : ~reg[k].routed})

\* Its first_seen goes with the entry.
Forget(k) ==
  /\ reg' = [reg EXCEPT ![k] = Absent]
  /\ old' = old \ {k}

----
(* Coroutines. *)

Call(t, o, k, at) ==
  /\ o \in Tools
  /\ cmd[t] = Idle
  /\ cmd' = [cmd EXCEPT ![t] = [Idle EXCEPT !.op = o, !.on = k, !.pc = at]]

Goto(a, at) == cmd' = [cmd EXCEPT ![a].pc = at]
Target(a, k, at) == cmd' = [cmd EXCEPT ![a] = [@ EXCEPT !.on = k, !.pc = at]]
End(t) == cmd' = [cmd EXCEPT ![t] = [Idle EXCEPT !.op = cmd[t].op, !.pc = "done"]]
RowIds(a) == {r.id : r \in Range(cmd[a].rows)}

\* GET /api/kernels takes effect.
Fetch(a) ==
  /\ cmd[a].pc = "fetch"
  /\ cmd' = [cmd EXCEPT ![a] = [@ EXCEPT !.pc = "fetched",
       !.rows = [i \in DOMAIN created |-> [id |-> created[i], idle |-> jup[created[i]] = "idle",
                                           quiet |-> created[i] \in quiet]]]]
  /\ raced' = raced \ {a}
  /\ UNCHANGED <<server, reg, old>>

----
(* The kernel process, JupyterLab's user. *)

Create(k) ==
  /\ jup[k] = "none"
  /\ jup' = [jup EXCEPT ![k] = "idle"]
  /\ created' = Append(created, k)
  /\ raced' = {t \in Tasks : cmd[t].op = "start" /\ cmd[t].pc \in {"fetched", "delete", "deleted", "post"}}
  /\ UNCHANGED quiet

Shut(k) ==
  /\ jup' = [jup EXCEPT ![k] = "gone"]
  /\ quiet' = quiet \ {k}
  /\ \/ k \notin Alive /\ UNCHANGED created
     \/ \E i \in DOMAIN created : created[i] = k /\ created' = RemoveAt(created, i)

HumanStarts(k) ==
  /\ k \in Outside
  /\ Create(k)
  /\ UNCHANGED <<reg, old, cmd>>

HumanShutsDown(k) ==
  /\ k \in Alive \cap Outside
  /\ Shut(k)
  /\ UNCHANGED <<reg, old, cmd, raced>>

BecomesQuiet(k) ==
  /\ jup[k] = "idle"
  /\ quiet' = quiet \cup {k}
  /\ UNCHANGED <<jup, created, reg, old, cmd, raced>>

Ages(k) ==
  /\ k \in Alive /\ reg[k].known
  /\ old' = old \cup {k}
  /\ UNCHANGED <<server, reg, cmd, raced>>

----
(***************************************************************************)
(* _delete_kernel: drop the client, DELETE, then the cleanup.  The caller  *)
(* is a stop_kernel, the capacity check of a start_kernel, or the reaper.  *)
(***************************************************************************)
\* Mutant: the answer to the DELETE is not looked at.
DeleteBlindly(a) ==
  LET k == cmd[a].on
  IN  /\ cmd[a].pc = "delete"
      /\ IF k \in Undeletable \cap Alive THEN UNCHANGED server ELSE Shut(k)
      /\ Goto(a, "deleted")
      /\ UNCHANGED <<reg, old, raced>>

\* 204, 404, or an error that raises; the reaper then gives up its pass.
Delete(a) ==
  LET k == cmd[a].on
  IN  /\ cmd[a].pc = "delete"
      /\ IF k \in Undeletable \cap Alive
         THEN /\ IF a = Reaper THEN cmd' = [cmd EXCEPT ![a] = Idle] ELSE End(a)
              /\ UNCHANGED server
         ELSE Shut(k) /\ Goto(a, "deleted")
      /\ UNCHANGED <<reg, old, raced>>

Deleted(a) ==
  LET k == cmd[a].on
  IN  /\ cmd[a].pc = "deleted"
      /\ Forget(k)
      /\ CASE cmd[a].op = "start" -> Target(a, Nothing, "post")
           [] cmd[a].op = "reap" -> Target(a, Nothing, "loop")
           [] OTHER -> End(a)
      /\ UNCHANGED <<server, raced>>

Stop(t, k) ==
  /\ jup[k] # "none"
  /\ Call(t, "stop", k, "delete")
  /\ UNCHANGED <<server, reg, old, raced>>

----
(* start_kernel. *)

Start(t) ==
  /\ Cardinality({b \in Tasks : cmd[b].op = "start" /\ cmd[b].pc # "done"}) < MaxStarts
  /\ Call(t, "start", Nothing, "fetch")
  /\ UNCHANGED <<server, reg, old, raced>>

\* Idle in the list, unpinned now.  Which of them is oldest is left open.
Victims(t) == {r.id : r \in {x \in Range(cmd[t].rows) : x.idle /\ ~reg[x.id].pinned}}

\* Mutant: room is looked for one kernel too late.
EnforceLate(t) ==
  /\ cmd[t].op = "start" /\ cmd[t].pc = "fetched"
  /\ IF Len(cmd[t].rows) <= MaxKernels THEN Target(t, Nothing, "post")
     ELSE \/ \E k \in Victims(t) : Target(t, k, "delete")
          \/ Victims(t) = {} /\ End(t)
  /\ UNCHANGED <<server, reg, old, raced>>

\* _enforce_capacity after its list arrived: room, one victim, or a refusal.
Enforce(t) ==
  /\ cmd[t].op = "start" /\ cmd[t].pc = "fetched"
  /\ IF Len(cmd[t].rows) < MaxKernels THEN Target(t, Nothing, "post")
     ELSE \/ \E k \in Victims(t) : Target(t, k, "delete")
          \/ Victims(t) = {} /\ End(t)
  /\ UNCHANGED <<server, reg, old, raced>>

Post(t, k) ==
  /\ cmd[t].op = "start" /\ cmd[t].pc = "post"
  /\ Create(k)
  /\ Target(t, k, "posted")
  /\ UNCHANGED <<reg, old>>

PostFails(t) ==
  /\ cmd[t].op = "start" /\ cmd[t].pc = "post"
  /\ End(t)
  /\ UNCHANGED <<server, reg, old, raced>>

Posted(t) ==
  /\ cmd[t].op = "start" /\ cmd[t].pc = "posted"
  /\ Track({cmd[t].on})
  /\ End(t)
  /\ UNCHANGED <<server, old, raced>>

----
(* Executions, list_kernels, pin_kernel. *)

\* _resolve_backend asks the server about an id it does not know.
Exec(t, k) ==
  /\ jup[k] # "none"
  /\ Call(t, "exec", k, IF reg[k].routed THEN "run" ELSE "fetch")
  /\ UNCHANGED <<server, reg, old, raced>>

Routed(t) ==
  LET k == cmd[t].on
  IN  /\ cmd[t].op = "exec" /\ cmd[t].pc = "fetched"
      /\ IF k \in RowIds(t) THEN Track({k}) /\ Goto(t, "run") ELSE End(t) /\ UNCHANGED reg
      /\ UNCHANGED <<server, old, raced>>

Run(t) ==
  LET k == cmd[t].on
  IN  /\ cmd[t].op = "exec" /\ cmd[t].pc = "run"
      /\ IF jup[k] = "idle"
         THEN /\ jup' = [jup EXCEPT ![k] = "busy"]
              /\ quiet' = quiet \ {k}
              /\ Goto(t, "running")
              /\ UNCHANGED created
         ELSE jup[k] = "gone" /\ End(t) /\ UNCHANGED server
      /\ UNCHANGED <<reg, old, raced>>

RunEnds(t) ==
  LET k == cmd[t].on
  IN  /\ cmd[t].op = "exec" /\ cmd[t].pc = "running"
      /\ jup' = [jup EXCEPT ![k] = IF @ = "busy" THEN "idle" ELSE @]
      /\ End(t)
      /\ UNCHANGED <<created, quiet, reg, old, raced>>

List(t) ==
  /\ Call(t, "list", Nothing, "fetch")
  /\ UNCHANGED <<server, reg, old, raced>>

Listed(t) ==
  /\ cmd[t].op = "list" /\ cmd[t].pc = "fetched"
  /\ Adopt(RowIds(t))
  /\ End(t)
  /\ UNCHANGED <<server, old, raced>>

\* An entry that pin makes has a first_seen but no backend.
Pin(t, k, to) ==
  /\ jup[k] # "none"
  /\ Call(t, "pin", k, "done")
  /\ reg' = [reg EXCEPT ![k] = IF @.known \/ to THEN [@ EXCEPT !.known = TRUE, !.pinned = to] ELSE @]
  /\ UNCHANGED <<server, old, raced>>

----
(***************************************************************************)
(* The reaper's pass over the local backend (_reap_jupyter_backend).       *)
(***************************************************************************)
ReapPass ==
  /\ cmd[Reaper] = Idle
  /\ cmd' = [cmd EXCEPT ![Reaper] = [Idle EXCEPT !.op = "reap", !.pc = "fetch"]]
  /\ UNCHANGED <<server, reg, old, raced>>

ReapList ==
  /\ cmd[Reaper].op = "reap" /\ cmd[Reaper].pc = "fetched"
  /\ Goto(Reaper, "loop")
  /\ UNCHANGED <<server, reg, old, raced>>

\* Mutant: a pinned kernel is skipped before its age is looked at.
ReapUnpinned(k) == k \in old /\ ~reg[k].pinned

ReapTooOld(k) == k \in old

\* What the row said when it was fetched, but the pin of now.
ReapIdle(r) == ~reg[r.id].pinned /\ r.idle /\ r.quiet

Visit ==
  LET r == Head(cmd[Reaper].rows)
  IN  /\ cmd[Reaper].pc = "loop" /\ cmd[Reaper].rows # <<>>
      /\ Adopt({r.id})
      /\ cmd' = [cmd EXCEPT ![Reaper] =
           [@ EXCEPT !.rows = Tail(cmd[Reaper].rows),
                     !.on = IF ReapTooOld(r.id) \/ ReapIdle(r) THEN r.id ELSE Nothing,
                     !.pc = IF ReapTooOld(r.id) \/ ReapIdle(r) THEN "delete" ELSE "loop"]]
      /\ UNCHANGED <<server, old, raced>>

ReapEnds ==
  /\ cmd[Reaper].pc = "loop" /\ cmd[Reaper].rows = <<>>
  /\ cmd' = [cmd EXCEPT ![Reaper] = Idle]
  /\ UNCHANGED <<server, reg, old, raced>>

----
Init ==
  /\ jup = [k \in Kernels |-> "none"]
  /\ created = <<>>
  /\ quiet = {} /\ old = {} /\ raced = {}
  /\ reg = [k \in Kernels |-> Absent]
  /\ cmd = [a \in Agents |-> Idle]

ClientCall(t) ==
  \/ Start(t) \/ List(t)
  \/ \E k \in Kernels : Stop(t, k) \/ Exec(t, k)
  \/ \E k \in Kernels, to \in BOOLEAN : Pin(t, k, to)

Progress(a) ==
  \/ Fetch(a) \/ Delete(a) \/ Deleted(a) \/ Enforce(a) \/ PostFails(a) \/ Posted(a)
  \/ Routed(a) \/ Run(a) \/ RunEnds(a) \/ Listed(a)
  \/ \E k \in Kernels : Post(a, k)

Reap == ReapPass \/ ReapList \/ Visit \/ ReapEnds

Environment(k) == HumanStarts(k) \/ HumanShutsDown(k) \/ BecomesQuiet(k)

Next ==
  \/ \E t \in Tasks : ClientCall(t)
  \/ \E a \in Agents : Progress(a)
  \/ Reap
  \/ \E k \in Kernels : Environment(k) \/ Ages(k)

Spec == Init /\ [][Next]_vars

\* The loop runs, the server answers, the reaper makes its passes, time passes.
FairSpec ==
  /\ Spec
  /\ \A a \in Agents : WF_vars(Progress(a))
  /\ WF_vars(Reap)
  /\ \A k \in Kernels : WF_vars(Ages(k))

----
(* Properties. *)

Most(m, n) == IF m > n THEN m ELSE n
Posting(t) == cmd[t].op = "start" /\ cmd[t].pc = "post" /\ cmd'[t].pc = "posted"

KeepsCap ==
  \A t \in Tasks : (Posting(t) /\ t \notin raced) =>
    Cardinality(Alive') <= Most(MaxKernels, Len(cmd[t].rows))

\* The cap of one start_kernel: it leaves no more kernels than MAX_KERNELS or
\* than it found, unless another one was created after it looked, whatever was
\* stopped or reaped meanwhile (_enforce_capacity).
StartKeepsCap == [][KeepsCap]_vars

\* "At most MAX_KERNELS at once" (README).
AtMostMaxKernels == Cardinality(Alive) <= MaxKernels

ForgetsTheDead ==
  \A k \in Kernels : (reg[k].known /\ ~reg'[k].known) => k \notin Alive

\* A kernel loses its entry, and with it its age, only when it is gone: a DELETE
\* that failed leaves the kernel under the max-age rule (_delete_kernel).
OnlyTheDeadAreForgotten == [][ForgetsTheDead]_vars

\* The idle and capacity rules take idle kernels only, while no max age is due.
BusyIsSpared ==
  [][\A a \in Agents :
       (cmd[a].pc = "delete" /\ cmd'[a].pc = "deleted" /\ cmd[a].op # "stop"
          /\ cmd[a].on \notin old)
       => jup[cmd[a].on] # "busy"]_vars

\* A kernel whose DELETE fails is listed before k, and ends every pass there.
Shielded(k) ==
  \E u \in Undeletable \cap Alive :
    \E i, j \in DOMAIN created : i <= j /\ created[i] = u /\ created[j] = k

\* "It turns off after a while": every kernel that exists, known or not, busy
\* or pinned, dies in the end, unless a kernel that cannot be deleted comes
\* before it in Jupyter's list.
TurnsOff == \A k \in Kernels : k \in Alive ~> k \notin Alive \/ Shielded(k)

\* "Nothing lives past the hard cap" (ADR 0006).
NothingLivesOn == \A k \in Kernels \ Undeletable : k \in Alive ~> k \notin Alive
====

---- MODULE ColabSessionsProofs ----
(***************************************************************************)
(* Proofs about Colab sessions, for any sessions and tool calls.           *)
(***************************************************************************)
EXTENDS ColabSessions, TLAPS

(***************************************************************************)
(* The inductive invariant: what the registry holds, what each coroutine   *)
(* learnt, and who holds which lock.                                       *)
(***************************************************************************)
Born(s) == vm[s] # "unborn"

\* A registry of sessions that exist, with no backend without an entry.
RegOK(r) ==
  /\ r \in [Sessions -> Entry]
  /\ \A s \in Sessions : ~Born(s) => r[s] = Absent
  /\ \A s \in Sessions : Routed(r, s) => Known(r, s)

\* Nobody but its start_kernel deals with a session that does not exist yet.
KnowsBorn(a) ==
  /\ cmd[a].op \in {"exec", "beat", "restart", "stop", "stop_unknown", "pin"} =>
       cmd[a].on \in Sessions /\ Born(cmd[a].on)
  /\ \A s \in cmd[a].live : Born(s)
  /\ cmd[a].pc = "idle" => cmd[a].op = "none"
  /\ cmd[a].op = "start" =>
       /\ a \in Tasks /\ cmd[a].on \in Sessions
       /\ cmd[a].pc = "cli" => ~Born(cmd[a].on)
       /\ cmd[a].pc = "back" => Born(cmd[a].on)

\* A death that was learnt stays true, since a session is never made again.
KnowsDead(a) ==
  /\ /\ "lookalike" \notin Faults
     /\ cmd[a].op \in {"exec", "beat", "restart"} /\ cmd[a].pc = "back" /\ cmd[a].got = "lost"
     => vm[cmd[a].on] = "gone"
  /\ cmd[a].op \in {"exec", "restart"} /\ cmd[a].pc = "probed" /\ Absence(a, cmd[a].on)
     => vm[cmd[a].on] = "gone"
  /\ cmd[a].op = "list" /\ cmd[a].pc = "probed" /\ cmd[a].got = "ok"
     => \A s \in Sessions : s \notin cmd[a].live /\ vm[s] = "up" => BornLate(s)
  /\ "lookalike" \notin Faults /\ cmd[a].got = "session_lost"
     => cmd[a].op \in {"exec", "restart"} /\ vm[cmd[a].on] = "gone"

OneStart ==
  \A a, b \in Agents : cmd[a].op = "start" /\ cmd[b].op = "start" /\ cmd[a].on = cmd[b].on => a = b

\* Whoever holds a lock that is still in the table is the holder in the table.
LocksKept == \A a \in Agents : Holding(a) /\ a \notin stale => lock[cmd[a].on] = a

ColabInv ==
  /\ TypeOK
  /\ RegOK(reg)
  /\ \A s \in todo : Born(s)
  /\ \A a \in Agents : KnowsBorn(a) /\ KnowsDead(a)
  /\ OneStart
  /\ LocksKept

----
(* The registry. *)

LEMMA EntryFacts ==
  /\ Absent \in Entry /\ Absent.state = "none" /\ ~Absent.backend
  /\ \A e \in Entry : Tracked(e) \in Entry /\ Tracked(e).backend /\ Tracked(e).state # "none"
  /\ \A e \in Entry : e.state \in {"lost", "stopped"} <=> Tracked(e).state \in {"lost", "stopped"}
  /\ [Tracked(Absent) EXCEPT !.backend = FALSE, !.pinned = TRUE] \in Entry
  /\ [Tracked(Absent) EXCEPT !.backend = FALSE, !.pinned = TRUE].state = "unset"
  /\ ~[Tracked(Absent) EXCEPT !.backend = FALSE, !.pinned = TRUE].backend
<1>1. Absent \in Entry /\ Absent.state = "none" /\ ~Absent.backend
  BY DEF Absent, Entry, States
<1>2. ASSUME NEW e \in Entry
      PROVE  /\ Tracked(e) \in Entry /\ Tracked(e).backend /\ Tracked(e).state # "none"
             /\ e.state \in {"lost", "stopped"} <=> Tracked(e).state \in {"lost", "stopped"}
  <2>1. CASE e.state = "none"
    BY <2>1 DEF Tracked, Entry, States
  <2>2. CASE e.state # "none"
    BY <2>2 DEF Tracked, Entry, States
  <2>3. QED BY <2>1, <2>2
<1>3. Tracked(Absent) = [backend |-> TRUE, state |-> "unset", pinned |-> FALSE, age |-> "young"]
  BY <1>1 DEF Tracked
<1>4. /\ [Tracked(Absent) EXCEPT !.backend = FALSE, !.pinned = TRUE] \in Entry
      /\ [Tracked(Absent) EXCEPT !.backend = FALSE, !.pinned = TRUE].state = "unset"
      /\ ~[Tracked(Absent) EXCEPT !.backend = FALSE, !.pinned = TRUE].backend
  <2> DEFINE e == Tracked(Absent)
  <2>0. e \in Entry
    BY <1>1, <1>2
  <2>1. e.state = "unset"
    BY <1>3
  <2> HIDE DEF e
  <2>2. /\ [e EXCEPT !.backend = FALSE, !.pinned = TRUE] \in Entry
        /\ [e EXCEPT !.backend = FALSE, !.pinned = TRUE].state = "unset"
        /\ ~[e EXCEPT !.backend = FALSE, !.pinned = TRUE].backend
    BY <2>1, <2>0 DEF Entry, States
  <2>3. QED BY <2>2 DEF e
<1>5. QED BY <1>1, <1>2, <1>4

LEMMA Forgotten ==
  ASSUME NEW r, RegOK(r), NEW S \in SUBSET Sessions
  PROVE  /\ RegOK(Forget(r, S))
         /\ \A s \in Sessions : Forget(r, S)[s] = IF s \in S THEN Absent ELSE r[s]
         /\ \A s \in Sessions : Terminal(Forget(r, S), s) => Terminal(r, s)
BY EntryFacts DEF RegOK, Forget, Known, Routed, Terminal

LEMMA Adopted ==
  ASSUME NEW r, RegOK(r), NEW S \in SUBSET Sessions, \A s \in S : Born(s)
  PROVE  /\ RegOK(TrackAll(r, S))
         /\ \A s \in Sessions : Routed(r, s) => Routed(TrackAll(r, S), s)
         /\ \A s \in Sessions : Routed(TrackAll(r, S), s) => Routed(r, s) \/ s \in S
         /\ \A s \in S : Known(TrackAll(r, S), s)
         /\ \A s \in Sessions : Terminal(TrackAll(r, S), s) => Terminal(r, s)
<1>1. \A s \in Sessions : TrackAll(r, S)[s] = IF s \in S THEN Tracked(r[s]) ELSE r[s]
  BY DEF TrackAll
<1>2. \A s \in Sessions : r[s] \in Entry
  BY DEF RegOK
<1>3. TrackAll(r, S) \in [Sessions -> Entry]
  BY <1>2, EntryFacts DEF TrackAll
<1>4. RegOK(TrackAll(r, S))
  BY <1>1, <1>2, <1>3, EntryFacts DEF RegOK, Known, Routed
<1>5. QED
  BY <1>1, <1>2, <1>4, EntryFacts DEF Known, Routed, Terminal

LEMMA Marked ==
  ASSUME NEW r, RegOK(r), NEW s \in Sessions, Known(r, s), NEW to \in States \ {"none"}
  PROVE  /\ RegOK(SetState(r, s, to))
         /\ \A x \in Sessions : Routed(SetState(r, s, to), x) <=> Routed(r, x)
         /\ SetState(r, s, to)[s].state = to /\ Known(SetState(r, s, to), s)
         /\ \A x \in Sessions \ {s} : SetState(r, s, to)[x] = r[x]
<1>1. r \in [Sessions -> Entry] /\ r[s] # Absent
  BY EntryFacts DEF RegOK, Known
<1>2. SetState(r, s, to) \in [Sessions -> Entry]
  BY <1>1 DEF SetState, Entry
<1>3. \A x \in Sessions \ {s} : SetState(r, s, to)[x] = r[x]
  BY <1>1 DEF SetState
<1>4. SetState(r, s, to)[s].state = to /\ SetState(r, s, to)[s].backend = r[s].backend
  BY <1>1 DEF SetState, Entry
<1>5. \A x \in Sessions : Routed(SetState(r, s, to), x) <=> Routed(r, x)
  BY <1>3, <1>4 DEF Routed
<1>6. RegOK(SetState(r, s, to))
  BY <1>1, <1>2, <1>3, <1>4, <1>5 DEF RegOK, Known
<1>7. QED BY <1>3, <1>4, <1>5, <1>6 DEF Known

\* The registries that the loss of the ids of S passes through.
LEMMA Losing ==
  ASSUME NEW r, RegOK(r), NEW S \in SUBSET Sessions, NEW w \in LosingWrites(r, S)
  PROVE  /\ RegOK(w)
         /\ \A s \in Sessions : Routed(r, s) /\ ~Routed(w, s) => s \in S
<1>1. PICK D \in SUBSET S :
        \/ w = Forget(r, D)
        \/ \E s \in S \ D : Known(r, s) /\ w = SetState(Forget(r, D), s, "lost")
  BY DEF LosingWrites
<1> DEFINE f == Forget(r, D)
<1>2. RegOK(f) /\ \A s \in Sessions : f[s] = IF s \in D THEN Absent ELSE r[s]
  BY Forgotten
<1>3. \A s \in Sessions : Routed(r, s) /\ ~Routed(f, s) => s \in S
  BY <1>2 DEF Routed
<1> HIDE DEF f
<1>4. ASSUME NEW s \in S \ D, Known(r, s), w = SetState(f, s, "lost")
      PROVE  RegOK(w) /\ \A x \in Sessions : Routed(w, x) <=> Routed(f, x)
  <2>1. Known(f, s)
    BY <1>2, <1>4 DEF Known
  <2>2. QED BY <1>2, <1>4, <2>1, Marked DEF States
<1>5. CASE w = f
  BY <1>2, <1>3, <1>5
<1>6. CASE \E s \in S \ D : Known(r, s) /\ w = SetState(f, s, "lost")
  BY <1>3, <1>4, <1>6
<1>7. QED BY <1>1, <1>5, <1>6 DEF f

LEMMA Pinned ==
  ASSUME NEW r, RegOK(r), NEW s \in Sessions, Born(s), NEW to \in BOOLEAN
  PROVE  /\ RegOK(SetPin(r, s, to))
         /\ \A x \in Sessions : Routed(r, x) => Routed(SetPin(r, s, to), x)
         /\ \A x \in Sessions : Terminal(SetPin(r, s, to), x) => Terminal(r, x)
<1> DEFINE q == [Tracked(Absent) EXCEPT !.backend = FALSE, !.pinned = TRUE]
<1>1. r \in [Sessions -> Entry] /\ (Routed(r, s) => Known(r, s))
  BY DEF RegOK
<1>2. q \in Entry /\ q.state = "unset" /\ ~q.backend
  BY EntryFacts
<1> HIDE DEF q
<1>3. CASE SetPin(r, s, to) = r
  BY <1>3
<1>4. CASE Known(r, s) /\ SetPin(r, s, to) = [r EXCEPT ![s].pinned = to]
  <2> DEFINE p == [r EXCEPT ![s].pinned = to]
  <2>1. /\ p \in [Sessions -> Entry] /\ p[s].state = r[s].state /\ p[s].backend = r[s].backend
        /\ \A x \in Sessions \ {s} : p[x] = r[x]
    BY <1>1 DEF Entry
  <2> HIDE DEF p
  <2>2. RegOK(p)
    BY <1>4, <2>1 DEF RegOK, Known, Routed
  <2>3. QED BY <1>4, <2>1, <2>2 DEF Routed, Terminal, p
<1>5. CASE ~Known(r, s) /\ SetPin(r, s, to) = [r EXCEPT ![s] = q]
  <2> DEFINE p == [r EXCEPT ![s] = q]
  <2>1. /\ p \in [Sessions -> Entry] /\ p[s] = q /\ \A x \in Sessions \ {s} : p[x] = r[x]
    BY <1>1, <1>2
  <2> HIDE DEF p
  <2>2. RegOK(p)
    BY <1>2, <2>1 DEF RegOK, Known, Routed
  <2>3. QED BY <1>1, <1>2, <1>5, <2>1, <2>2 DEF Routed, Terminal, p
<1>6. QED BY <1>3, <1>4, <1>5 DEF SetPin, q

----
(* Coroutines. *)

Coroutine == [op: {"none", "beat", "boot"} \cup ToolKinds,
              on: Sessions \cup {Nobody},
              pc: {"idle", "lock", "cli", "back", "probe", "probed", "done"},
              got: {"none", "live", "timeout", "error", "lost", "ok"} \cup Answers,
              live: SUBSET Sessions]
Points == {"idle", "lock", "cli", "back", "probe", "probed", "done"}
Gots == {"none", "live", "timeout", "error", "lost", "ok"} \cup Answers

LEMMA IdleFacts ==
  /\ Idle \in Coroutine /\ Idle.op = "none" /\ Idle.on = Nobody /\ Idle.pc = "idle"
  /\ Idle.got = "none" /\ Idle.live = {}
BY DEF Idle, Coroutine

\* Only a moves.
Turn(a) == cmd' \in [Agents -> Coroutine] /\ \A b \in Agents \ {a} : cmd'[b] = cmd[b]

\* The same call, further on.
Further(a, at, g, live) ==
  /\ Turn(a)
  /\ cmd'[a].op = cmd[a].op /\ cmd'[a].on = cmd[a].on
  /\ cmd'[a].pc = at /\ cmd'[a].got = g /\ cmd'[a].live = live

LEMMA GotoFacts ==
  ASSUME TypeOK, NEW a \in Agents, NEW at \in Points, NEW g \in Gots, Goto(a, at, g)
  PROVE  Further(a, at, g, cmd[a].live)
BY DEF TypeOK, Goto, Further, Turn, Coroutine, Points, Gots

LEMMA LearnFacts ==
  ASSUME TypeOK, NEW a \in Agents, NEW S \in SUBSET Sessions,
         cmd' = [cmd EXCEPT ![a] = [@ EXCEPT !.pc = "probed", !.got = "ok", !.live = S]]
  PROVE  Further(a, "probed", "ok", S)
BY DEF TypeOK, Further, Turn, Coroutine

LEMMA CallFacts ==
  ASSUME TypeOK, NEW t \in Tasks, NEW o, NEW s \in Sessions \cup {Nobody}, NEW at \in Points,
         Call(t, o, s, at)
  PROVE  /\ Turn(t) /\ t \in Agents /\ cmd[t] = Idle /\ o \in ToolKinds /\ cmd'[t] # cmd[t]
         /\ cmd'[t].op = o /\ cmd'[t].on = s /\ cmd'[t].pc = at /\ cmd'[t].got = "none"
         /\ cmd'[t].live = {}
<1> DEFINE e == Idle
           q == [e EXCEPT !.op = o, !.on = s, !.pc = at]
<1>1. t \in Agents /\ o \in ToolKinds /\ cmd[t] = Idle
  BY ToolsAssumption DEF Call, Agents
<1>2. cmd' = [cmd EXCEPT ![t] = q]
  BY DEF Call
<1>3. e \in Coroutine /\ e.op = "none" /\ e.got = "none" /\ e.live = {}
  BY IdleFacts
<1> HIDE DEF e
<1>4. /\ q \in Coroutine /\ q.op = o /\ q.on = s /\ q.pc = at /\ q.got = "none" /\ q.live = {}
  BY <1>1, <1>3 DEF Coroutine, Points
<1> HIDE DEF q
<1>5. Turn(t) /\ cmd'[t] = q
  BY <1>1, <1>2, <1>4 DEF Turn, TypeOK, Coroutine
<1>6. o # "none"
  BY <1>1 DEF ToolKinds
<1>7. QED BY <1>1, <1>3, <1>4, <1>5, <1>6 DEF e

\* A call is over, or the reaper's step is.
Over(a, answer) ==
  /\ Turn(a)
  /\ a = Reaper => cmd'[a] = Idle
  /\ a # Reaper => /\ cmd'[a].op = cmd[a].op /\ cmd'[a].on = cmd[a].on
                   /\ cmd'[a].pc = "done" /\ cmd'[a].got = answer /\ cmd'[a].live = {}

LEMMA EndFacts ==
  ASSUME TypeOK, NEW a \in Agents, NEW g \in Answers \cup {"none"}, End(a, g)
  PROVE  Over(a, g)
<1>1. CASE a = Reaper
  BY <1>1, IdleFacts DEF TypeOK, End, Over, Turn, Coroutine
<1>2. CASE a # Reaper
  BY <1>2 DEF TypeOK, End, Over, Turn, Coroutine
<1>3. QED BY <1>1, <1>2

\* What a crash leaves of the coroutines and the locks.
Killed ==
  /\ cmd' \in [Agents -> Coroutine]
  /\ \A a \in Agents :
       IF a = Reaper THEN /\ cmd'[a].op = "boot" /\ cmd'[a].pc = "probe" /\ cmd'[a].got = "none"
                          /\ cmd'[a].live = {}
       ELSE /\ cmd'[a].pc \in {"idle", "done"} /\ cmd'[a].op = cmd[a].op /\ cmd'[a].on = cmd[a].on
            /\ cmd'[a] = cmd[a] \/ (cmd'[a].pc = "done" /\ cmd'[a].got = "killed" /\ cmd'[a].live = {})
            /\ cmd[a].pc \in {"idle", "done"} \/ cmd'[a] # cmd[a]
  /\ lock' = [s \in Sessions |-> Nobody] /\ stale' = {} /\ todo' = {}

LEMMA DiesFacts ==
  ASSUME TypeOK, NEW W, Dies(W)
  PROVE  Killed /\ Crashed /\ reg' \in W
<1> DEFINE e == Idle
           boot == [e EXCEPT !.op = "boot", !.pc = "probe"]
<1>1. /\ boot \in Coroutine /\ boot.op = "boot" /\ boot.pc = "probe" /\ boot.got = "none" /\ boot.live = {}
  <2>1. e \in Coroutine /\ e.got = "none" /\ e.live = {}
    BY IdleFacts
  <2> HIDE DEF e
  <2>2. QED BY <2>1 DEF Coroutine
<1>2. cmd' = [a \in Agents |->
        IF a = Reaper THEN boot
        ELSE IF cmd[a].pc \in {"idle", "done"} THEN cmd[a]
        ELSE [cmd[a] EXCEPT !.pc = "done", !.got = "killed", !.live = {}]]
  BY DEF Dies
<1>3. \A a \in Agents : cmd[a] \in Coroutine
  BY DEF TypeOK, Coroutine
<1>4. ASSUME NEW q \in Coroutine
      PROVE  LET d == [q EXCEPT !.pc = "done", !.got = "killed", !.live = {}]
             IN  /\ d \in Coroutine /\ d.op = q.op /\ d.on = q.on /\ d.pc = "done" /\ d.got = "killed" /\ d.live = {}
  BY DEF Coroutine, Answers
<1> HIDE DEF boot
<1>5. cmd' \in [Agents -> Coroutine]
  BY <1>1, <1>2, <1>3, <1>4
<1>6. Reaper \in Agents /\ cmd'[Reaper] = boot
  BY <1>2 DEF Agents
<1>7. ASSUME NEW a \in Agents, a # Reaper
      PROVE  /\ cmd'[a].pc \in {"idle", "done"} /\ cmd'[a].op = cmd[a].op /\ cmd'[a].on = cmd[a].on
             /\ cmd'[a] = cmd[a] \/ (cmd'[a].pc = "done" /\ cmd'[a].got = "killed" /\ cmd'[a].live = {})
             /\ cmd[a].pc \in {"idle", "done"} \/ cmd'[a] # cmd[a]
  <2>1. CASE cmd[a].pc \in {"idle", "done"}
    BY <1>2, <1>7, <2>1
  <2>2. CASE cmd[a].pc \notin {"idle", "done"}
    BY <1>2, <1>3, <1>4, <1>7, <2>2
  <2>3. QED BY <2>1, <2>2
<1>8. Killed
  BY <1>1, <1>5, <1>6, <1>7 DEF Killed, Dies
<1>9. Crashed
  BY <1>1, <1>6, <1>7, AgentsAssumption DEF Crashed, Agents
<1>10. QED BY <1>8, <1>9 DEF Dies

----
(* What one coroutine's move means to what all of them know. *)

\* Sessions die, or are made by the start_kernel that is about to.
Makes(t, s) ==
  /\ t \in Tasks /\ cmd[t].op = "start" /\ cmd[t].on = s /\ cmd[t].pc = "cli" /\ cmd'[t].pc = "back"
VMMoves ==
  /\ vm' \in [Sessions -> {"unborn", "up", "gone"}]
  /\ \A s \in Sessions : vm'[s] # vm[s] =>
       \/ vm[s] = "up" /\ vm'[s] = "gone"
       \/ vm[s] = "unborn" /\ \E t \in Agents : Makes(t, s)

\* No start_kernel begins, and none is forgotten.
SameStarts ==
  \A b \in Agents :
    /\ cmd'[b].op = "start" <=> cmd[b].op = "start"
    /\ cmd[b].op = "start" => cmd'[b].on = cmd[b].on

LEMMA LateStays ==
  ASSUME SameStarts, NEW s \in Sessions, BornLate(s)
  PROVE  BornLate(s)'
BY DEF SameStarts, BornLate, Agents

LEMMA VMSame ==
  ASSUME TypeOK, UNCHANGED vm
  PROVE  VMMoves
BY DEF TypeOK, VMMoves

\* Another coroutine's move takes nothing back.
LEMMA StillKnows ==
  ASSUME ColabInv, VMMoves, \A s \in Sessions : BornLate(s) => BornLate(s)',
         NEW b \in Agents, cmd'[b] = cmd[b]
  PROVE  KnowsBorn(b)' /\ KnowsDead(b)'
<1>1. TypeOK /\ KnowsBorn(b) /\ KnowsDead(b) /\ OneStart
  BY DEF ColabInv
<1>2. cmd[b].live \subseteq Sessions /\ (cmd[b].on \in Sessions \/ cmd[b].on = Nobody)
  BY <1>1 DEF TypeOK
<1>3. \A s \in Sessions : (Born(s) => Born(s)') /\ (vm[s] = "gone" => vm'[s] = "gone")
  BY DEF VMMoves, Born, Makes
<1>4. \A s \in Sessions : vm'[s] = "up" => vm[s] = "up" \/ BornLate(s)
  BY DEF VMMoves, Makes, BornLate
<1>5. cmd[b].op = "start" /\ cmd[b].pc = "cli" => ~Born(cmd[b].on)'
  <2> SUFFICES ASSUME cmd[b].op = "start", cmd[b].pc = "cli", vm'[cmd[b].on] # "unborn" PROVE FALSE
    BY <1>1 DEF Born
  <2> DEFINE s == cmd[b].on
  <2>1. s \in Sessions /\ vm[s] = "unborn"
    BY <1>1 DEF KnowsBorn, Born
  <2>2. PICK t \in Agents : Makes(t, s)
    BY <2>1 DEF VMMoves
  <2>3. t = b
    BY <1>1, <2>2 DEF OneStart, Makes
  <2>4. QED BY <2>2, <2>3 DEF Makes
<1>6. KnowsBorn(b)'
  BY <1>1, <1>2, <1>3, <1>5 DEF KnowsBorn
<1>7. Absence(b, cmd[b].on)' <=> Absence(b, cmd[b].on)
  BY DEF Absence
<1>8. KnowsDead(b)'
  <2>1. cmd[b].op \in {"exec", "beat", "restart"} => cmd[b].on \in Sessions
    BY <1>1 DEF KnowsBorn
  <2>2. cmd'[b].op = "list" /\ cmd'[b].pc = "probed" /\ cmd'[b].got = "ok"
          => \A s \in Sessions : s \notin cmd'[b].live /\ vm'[s] = "up" => BornLate(s)'
    BY <1>1, <1>4 DEF KnowsDead
  <2>3. QED BY <1>1, <1>3, <1>7, <2>1, <2>2 DEF KnowsDead, Absence
<1>9. QED BY <1>6, <1>8

Knowledge == \A a \in Agents : KnowsBorn(a) /\ KnowsDead(a)

LEMMA KnowledgeKept ==
  ASSUME ColabInv, VMMoves, NEW a \in Agents, Turn(a), SameStarts, KnowsBorn(a)', KnowsDead(a)'
  PROVE  Knowledge' /\ OneStart'
<1>1. \A b \in Agents : KnowsBorn(b)' /\ KnowsDead(b)'
  BY LateStays, StillKnows DEF Turn
<1>2. OneStart'
  BY DEF ColabInv, OneStart, SameStarts
<1>3. QED BY <1>1, <1>2 DEF Knowledge

LEMMA FurtherStarts ==
  ASSUME NEW a \in Agents, NEW at, NEW g, NEW live, Further(a, at, g, live)
  PROVE  SameStarts
BY DEF Further, Turn, SameStarts

LEMMA OverStarts ==
  ASSUME ColabInv, NEW a \in Agents, NEW g, Over(a, g)
  PROVE  SameStarts
<1>1. cmd[Reaper].op # "start"
  BY AgentsAssumption DEF ColabInv, KnowsBorn, Agents
<1>2. QED BY <1>1, IdleFacts DEF Over, Turn, SameStarts

LEMMA OverKnows ==
  ASSUME ColabInv, NEW a \in Agents, NEW g, Over(a, g), UNCHANGED vm,
         /\ g = "session_lost" /\ "lookalike" \notin Faults
         => cmd[a].op \in {"exec", "restart"} /\ vm[cmd[a].on] = "gone"
  PROVE  Knowledge' /\ OneStart'
<1>1. TypeOK /\ KnowsBorn(a)
  BY DEF ColabInv
<1>2. CASE a = Reaper
  <2>1. cmd'[a] = Idle
    BY <1>2 DEF Over
  <2>2. KnowsBorn(a)' /\ KnowsDead(a)'
    BY <2>1, IdleFacts DEF KnowsBorn, KnowsDead
  <2>3. QED BY <1>1, <2>2, OverStarts, VMSame, KnowledgeKept DEF Over
<1>3. CASE a # Reaper
  <2>1. /\ cmd'[a].op = cmd[a].op /\ cmd'[a].on = cmd[a].on
        /\ cmd'[a].pc = "done" /\ cmd'[a].got = g /\ cmd'[a].live = {}
    BY <1>3 DEF Over
  <2>2. KnowsBorn(a)' /\ KnowsDead(a)'
    BY <1>1, <2>1 DEF KnowsBorn, KnowsDead, Born
  <2>3. QED BY <1>1, <2>2, OverStarts, VMSame, KnowledgeKept DEF Over
<1>4. QED BY <1>2, <1>3

LEMMA KilledKnows ==
  ASSUME ColabInv, Killed, UNCHANGED vm
  PROVE  Knowledge' /\ OneStart'
<1>1. \A a \in Agents : KnowsBorn(a) /\ KnowsDead(a) /\ OneStart
  BY DEF ColabInv
<1>2. SameStarts
  <2>1. cmd[Reaper].op # "start"
    BY AgentsAssumption DEF ColabInv, KnowsBorn, Agents
  <2>2. QED BY <2>1 DEF Killed, SameStarts
<1>3. ASSUME NEW a \in Agents PROVE KnowsBorn(a)' /\ KnowsDead(a)'
  <2>1. CASE cmd'[a] = cmd[a]
    BY <1>2, <2>1, LateStays, StillKnows, VMSame DEF ColabInv
  <2>2. CASE a # Reaper /\ cmd'[a] # cmd[a]
    <3>1. /\ cmd'[a].op = cmd[a].op /\ cmd'[a].on = cmd[a].on /\ cmd'[a].pc = "done"
          /\ cmd'[a].got = "killed" /\ cmd'[a].live = {}
      BY <2>2 DEF Killed
    <3>2. QED BY <1>1, <3>1 DEF KnowsBorn, KnowsDead, Born
  <2>3. CASE a = Reaper
    <3>1. cmd'[a].op = "boot" /\ cmd'[a].pc = "probe" /\ cmd'[a].got = "none" /\ cmd'[a].live = {}
      BY <2>3 DEF Killed
    <3>2. QED BY <3>1 DEF KnowsBorn, KnowsDead
  <2>4. QED BY <2>1, <2>2, <2>3
<1>4. OneStart'
  BY <1>2 DEF ColabInv, OneStart, SameStarts
<1>5. QED BY <1>3, <1>4 DEF Knowledge

----
(* Locks. *)

LEMMA SameLocks ==
  ASSUME LocksKept, NEW a \in Agents, Turn(a), UNCHANGED <<lock, stale>>,
         Holding(a)' => Holding(a) /\ cmd'[a].on = cmd[a].on
  PROVE  LocksKept'
BY DEF LocksKept, Turn, Holding, InLock

\* A call that is over holds nothing.
LEMMA OverHolds ==
  ASSUME NEW a \in Agents, NEW g, Over(a, g)
  PROVE  ~InLock(a)' /\ ~Holding(a)' /\ \A b \in Agents \ {a} : (InLock(b)' <=> InLock(b)) /\ (Holding(b)' <=> Holding(b))
BY IdleFacts DEF Over, Turn, InLock, Holding

\* A lock is held on a session.
LEMMA HoldsOn ==
  ASSUME ColabInv, NEW a \in Agents, Holding(a)
  PROVE  cmd[a].on \in Sessions
BY DEF ColabInv, KnowsBorn, Holding, InLock

LEMMA ReleasedLocks ==
  ASSUME ColabInv, NEW a \in Agents, NEW g, Over(a, g), Release(a)
  PROVE  LocksKept' /\ lock' \in [Sessions -> Agents \cup {Nobody}] /\ stale' \subseteq Agents
<1>1. lock' \in [Sessions -> Agents \cup {Nobody}] /\ stale' \subseteq Agents
  BY DEF ColabInv, TypeOK, Release
<1>2. ASSUME NEW b \in Agents, Holding(b)', b \notin stale' PROVE lock'[cmd'[b].on] = b
  <2>1. b # a /\ Holding(b) /\ cmd'[b] = cmd[b] /\ b \notin stale
    BY <1>2, OverHolds DEF Release, Over, Turn
  <2>2. lock[cmd[b].on] = b
    BY <2>1 DEF ColabInv, LocksKept
  <2>3. cmd[b].on \in Sessions
    BY <2>1, HoldsOn
  <2>4. QED
    BY <2>1, <2>2, <2>3 DEF Release
<1>3. QED BY <1>1, <1>2 DEF LocksKept

LEMMA PoppedLocks ==
  ASSUME ColabInv, NEW a \in Agents, NEW g, Over(a, g), NEW S \in SUBSET Sessions, PopLocks(a, S)
  PROVE  LocksKept' /\ lock' \in [Sessions -> Agents \cup {Nobody}] /\ stale' \subseteq Agents
<1>1. lock' \in [Sessions -> Agents \cup {Nobody}] /\ stale' \subseteq Agents
  BY DEF ColabInv, TypeOK, PopLocks
<1>2. ASSUME NEW b \in Agents, Holding(b)', b \notin stale' PROVE lock'[cmd'[b].on] = b
  <2>1. b # a /\ Holding(b) /\ InLock(b) /\ cmd'[b] = cmd[b]
    BY <1>2, OverHolds DEF Over, Turn, Holding
  <2>2. b \notin stale /\ cmd[b].on \notin S
    BY <1>2, <2>1 DEF PopLocks
  <2>3. lock[cmd[b].on] = b
    BY <2>1, <2>2 DEF ColabInv, LocksKept
  <2>4. cmd[b].on \in Sessions
    BY <2>1, HoldsOn
  <2>5. QED
    BY <2>1, <2>2, <2>3, <2>4 DEF PopLocks
<1>3. QED BY <1>1, <1>2 DEF LocksKept

\* After a crash nobody is left to hold one.
LEMMA KilledLocks ==
  ASSUME ColabInv, Killed
  PROVE  LocksKept' /\ lock' \in [Sessions -> Agents \cup {Nobody}] /\ stale' \subseteq Agents
<1>1. ASSUME NEW a \in Agents PROVE ~Holding(a)'
  <2>1. CASE a = Reaper
    BY <2>1 DEF Killed, Holding, InLock
  <2>2. CASE a # Reaper
    <3>1. CASE cmd'[a].pc = "done"
      BY <3>1 DEF Holding, InLock
    <3>2. CASE cmd'[a].pc # "done"
      BY <2>2, <3>2 DEF ColabInv, KnowsBorn, Killed, Holding, InLock
    <3>3. QED BY <3>1, <3>2
  <2>3. QED BY <2>1, <2>2
<1>2. QED BY <1>1 DEF LocksKept, Killed

----
(* The invariant, put together again after a step. *)

LocksTyped == lock \in [Sessions -> Agents \cup {Nobody}] /\ stale \subseteq Agents

LEMMA Assembled ==
  ASSUME ColabInv, VMMoves, RegOK(reg)', cmd' \in [Agents -> Coroutine], LocksTyped', LocksKept',
         Knowledge', OneStart', todo' \subseteq Sessions, \A s \in todo' : Born(s)
  PROVE  ColabInv'
<1>1. TypeOK'
  BY DEF VMMoves, RegOK, Coroutine, LocksTyped, TypeOK
<1>2. \A s \in todo' : Born(s)'
  BY DEF VMMoves, Born, Makes
<1>3. QED BY <1>1, <1>2 DEF ColabInv, Knowledge

LEMMA RegSame ==
  ASSUME UNCHANGED vm, RegOK(reg')
  PROVE  RegOK(reg)'
BY DEF RegOK, Born

LEMMA RegKept ==
  ASSUME ColabInv, VMMoves, UNCHANGED reg
  PROVE  RegOK(reg)'
<1>1. RegOK(reg)
  BY DEF ColabInv
<1>2. \A s \in Sessions : Born(s) => Born(s)'
  BY DEF VMMoves, Born, Makes
<1>3. QED BY <1>1, <1>2 DEF RegOK

LEMMA TodoFacts ==
  ASSUME ColabInv
  PROVE  todo \subseteq Sessions /\ \A s \in todo : Born(s)
BY DEF ColabInv, TypeOK

LEMMA RoutedBorn ==
  ASSUME ColabInv, NEW s \in Sessions, Routed(reg, s)
  PROVE  Born(s)
BY EntryFacts DEF ColabInv, RegOK, Known

\* A crash, from any registry that the code may leave.
LEMMA Died ==
  ASSUME ColabInv, NEW W, \A w \in W : RegOK(w), Dies(W), UNCHANGED vm
  PROVE  ColabInv'
<1>1. TypeOK
  BY DEF ColabInv
<1>2. Killed /\ reg' \in W
  BY <1>1, DiesFacts
<1>3. RegOK(reg)'
  BY <1>2, RegSame
<1>4. LocksKept' /\ LocksTyped'
  BY <1>2, KilledLocks DEF LocksTyped
<1>5. todo' = {} /\ cmd' \in [Agents -> Coroutine]
  BY <1>2 DEF Killed
<1>6. QED BY <1>1, <1>2, <1>3, <1>4, <1>5, VMSame, KilledKnows, Assembled

\* The end of a call or of a reaper's step.
LEMMA Ended ==
  ASSUME ColabInv, NEW a \in Agents, NEW g \in Answers \cup {"none"}, End(a, g), UNCHANGED vm,
         RegOK(reg'), todo' \subseteq todo,
         \/ UNCHANGED <<lock, stale>>
         \/ Release(a)
         \/ \E S \in SUBSET Sessions : PopLocks(a, S),
         /\ g = "session_lost" /\ "lookalike" \notin Faults
         => cmd[a].op \in {"exec", "restart"} /\ vm[cmd[a].on] = "gone"
  PROVE  ColabInv'
<1>1. TypeOK /\ LocksKept
  BY DEF ColabInv
<1>2. Over(a, g)
  BY <1>1, EndFacts
<1>3. Knowledge' /\ OneStart'
  BY <1>2, OverKnows
<1>4. LocksKept' /\ LocksTyped'
  <2>1. CASE UNCHANGED <<lock, stale>>
    <3>1. ~Holding(a)' /\ Turn(a)
      BY <1>2, OverHolds DEF Over
    <3>2. LocksKept'
      BY <1>1, <2>1, <3>1, SameLocks
    <3>3. QED BY <1>1, <2>1, <3>2 DEF TypeOK, LocksTyped
  <2>2. CASE Release(a)
    BY <1>2, <2>2, ReleasedLocks DEF LocksTyped
  <2>3. CASE \E S \in SUBSET Sessions : PopLocks(a, S)
    BY <1>2, <2>3, PoppedLocks DEF LocksTyped
  <2>4. QED BY <2>1, <2>2, <2>3
<1>5. todo' \subseteq Sessions /\ \A s \in todo' : Born(s)
  BY TodoFacts
<1>6. cmd' \in [Agents -> Coroutine]
  BY <1>2 DEF Over, Turn
<1>7. QED BY <1>1, <1>3, <1>4, <1>5, <1>6, RegSame, VMSame, Assembled

LEMMA LostAndEnded ==
  ASSUME ColabInv, NEW a \in Agents, NEW r, RegOK(r), NEW S \in SUBSET Sessions,
         NEW B, \A w \in B : RegOK(w), NEW g \in Answers \cup {"none"}, UNCHANGED vm,
         LoseAndEnd(a, r, S, B, g),
         /\ g = "session_lost" /\ "lookalike" \notin Faults
         => cmd[a].op \in {"exec", "restart"} /\ vm[cmd[a].on] = "gone"
  PROVE  ColabInv'
<1>1. CASE Dies(B \cup LosingWrites(r, S))
  BY <1>1, Losing, Died
<1>2. CASE /\ reg' = Forget(r, S) /\ End(a, g) /\ UNCHANGED todo
           /\ IF S = {} THEN Release(a) ELSE PopLocks(a, S)
  BY <1>2, Forgotten, Ended
<1>3. QED BY <1>1, <1>2 DEF LoseAndEnd

\* The next step of a call.
LEMMA Moved ==
  ASSUME ColabInv, VMMoves, NEW a \in Agents, NEW at, NEW g, NEW live, Further(a, at, g, live),
         KnowsBorn(a)', KnowsDead(a)', UNCHANGED <<reg, todo>>, LocksTyped', LocksKept'
  PROVE  ColabInv'
<1>1. Turn(a) /\ SameStarts
  BY FurtherStarts DEF Further
<1>2. Knowledge' /\ OneStart'
  BY <1>1, KnowledgeKept
<1>3. cmd' \in [Agents -> Coroutine]
  BY <1>1 DEF Turn
<1>4. todo' \subseteq Sessions /\ \A s \in todo' : Born(s)
  BY TodoFacts
<1>5. QED BY <1>2, <1>3, <1>4, RegKept, Assembled

LEMMA LocksSame ==
  ASSUME ColabInv, NEW a \in Agents, NEW at, NEW g, NEW live, Further(a, at, g, live),
         UNCHANGED <<lock, stale>>, cmd[a].pc # "lock", cmd[a].pc # "done"
  PROVE  LocksTyped' /\ LocksKept'
<1>1. LocksTyped'
  BY DEF ColabInv, TypeOK, LocksTyped
<1>2. Holding(a)' => Holding(a) /\ cmd'[a].on = cmd[a].on
  BY DEF Further, Holding, InLock
<1>3. QED BY <1>1, <1>2, SameLocks DEF ColabInv, Further

\* A call begins.
LEMMA Called ==
  ASSUME ColabInv, NEW t \in Tasks, NEW o, NEW s \in Sessions \cup {Nobody},
         NEW at \in {"lock", "cli", "probe", "done"}, Call(t, o, s, at),
         o # "start", o = "exec" => at = "lock", o # "list" => s \in Sessions /\ Born(s),
         RegOK(reg'), UNCHANGED <<vm, lock, stale, todo>>
  PROVE  ColabInv'
<1>1. TypeOK /\ LocksKept
  BY DEF ColabInv
<1>2. /\ Turn(t) /\ t \in Agents /\ cmd[t] = Idle /\ o \in ToolKinds
      /\ cmd'[t].op = o /\ cmd'[t].on = s /\ cmd'[t].pc = at /\ cmd'[t].got = "none" /\ cmd'[t].live = {}
  BY <1>1, CallFacts DEF Points
<1>3. SameStarts
  BY <1>2, IdleFacts DEF SameStarts, Turn
<1>4. KnowsBorn(t)' /\ KnowsDead(t)'
  BY <1>2 DEF KnowsBorn, KnowsDead, Born
<1>5. Knowledge' /\ OneStart' /\ VMMoves
  BY <1>1, <1>2, <1>3, <1>4, VMSame, KnowledgeKept
<1>6. ~Holding(t)'
  BY <1>2 DEF Holding, InLock, ToolKinds
<1>7. LocksKept' /\ LocksTyped'
  BY <1>1, <1>2, <1>6, SameLocks DEF TypeOK, LocksTyped
<1>8. cmd' \in [Agents -> Coroutine]
  BY <1>2 DEF Turn
<1>9. todo' \subseteq Sessions /\ \A x \in todo' : Born(x)
  BY TodoFacts
<1>10. QED BY <1>5, <1>7, <1>8, <1>9, RegSame, Assembled

\* Nobody's turn: sessions die, or the registry ages.
LEMMA Untouched ==
  ASSUME ColabInv, VMMoves, RegOK(reg)', UNCHANGED <<cmd, lock, stale>>,
         todo' \subseteq Sessions, \A s \in todo' : Born(s)
  PROVE  ColabInv'
<1>1. Knowledge'
  <2>1. \A s \in Sessions : BornLate(s) => BornLate(s)'
    BY DEF BornLate
  <2>2. \A b \in Agents : cmd'[b] = cmd[b]
    OBVIOUS
  <2>3. QED BY <2>1, <2>2, StillKnows DEF Knowledge
<1>2. OneStart' /\ LocksKept' /\ LocksTyped'
  BY DEF ColabInv, OneStart, LocksKept, Holding, InLock, LocksTyped, TypeOK
<1>3. cmd' \in [Agents -> Coroutine]
  BY DEF ColabInv, TypeOK, Coroutine
<1>4. QED BY <1>1, <1>2, <1>3, Assembled

----
(* One lemma for each kind of step: it keeps the invariant. *)

LEMMA CallSteps ==
  ASSUME ColabInv, NEW t \in Tasks, NEW s \in Sessions, NEW to \in BOOLEAN,
         Exec(t, s) \/ Restart(t, s) \/ Stop(t, s) \/ StopUnknown(t, s) \/ Pin(t, s, to)
  PROVE  ColabInv'
<1>1. RegOK(reg) /\ (Routed(reg, s) => Born(s))
  BY RoutedBorn DEF ColabInv
<1>2. CASE Exec(t, s)
  BY <1>1, <1>2, Called DEF Exec
<1>3. CASE Restart(t, s)
  BY <1>1, <1>3, Called DEF Restart
<1>4. CASE Stop(t, s)
  BY <1>1, <1>4, Called DEF Stop
<1>5. CASE StopUnknown(t, s)
  BY <1>1, <1>5, Called DEF StopUnknown, Born
<1>6. CASE Pin(t, s, to)
  <2>1. Born(s)
    BY <1>6 DEF Pin, Born
  <2>2. RegOK(reg')
    BY <1>1, <1>6, <2>1, Pinned DEF Pin
  <2>3. QED BY <1>6, <2>1, <2>2, Called DEF Pin
<1>7. QED BY <1>2, <1>3, <1>4, <1>5, <1>6

\* The one call that makes something new: nobody else is starting this session.
LEMMA StartStep ==
  ASSUME ColabInv, NEW t \in Tasks, NEW s \in Sessions, Start(t, s)
  PROVE  ColabInv'
<1>1. TypeOK /\ LocksKept /\ RegOK(reg)
  BY DEF ColabInv
<1>2. /\ Turn(t) /\ t \in Agents /\ cmd[t] = Idle
      /\ cmd'[t].op = "start" /\ cmd'[t].on = s /\ cmd'[t].pc = "cli" /\ cmd'[t].got = "none" /\ cmd'[t].live = {}
  BY <1>1, CallFacts DEF Start, Points
<1>3. ~Born(s) /\ \A b \in Agents : ~(cmd[b].op = "start" /\ cmd[b].on = s)
  BY DEF Start, Born
<1>4. \A x \in Sessions : BornLate(x) => BornLate(x)'
  <2> SUFFICES ASSUME NEW x \in Sessions, NEW b \in Tasks, cmd[b].op = "start", cmd[b].on = x
               PROVE  BornLate(x)'
    BY DEF BornLate
  <2>1. b # t
    BY <1>2, IdleFacts
  <2>2. cmd'[b] = cmd[b]
    BY <1>2, <2>1 DEF Turn, Agents
  <2>3. QED BY <2>2 DEF BornLate
<1>5. VMMoves /\ UNCHANGED <<vm, reg, lock, stale, todo>>
  BY <1>1, VMSame DEF Start
<1>6. KnowsBorn(t)' /\ KnowsDead(t)'
  BY <1>2, <1>3, <1>5 DEF KnowsBorn, KnowsDead, Born
<1>7. Knowledge'
  <2>1. ASSUME NEW b \in Agents PROVE KnowsBorn(b)' /\ KnowsDead(b)'
    <3>1. CASE b = t
      BY <1>6, <3>1
    <3>2. CASE b # t
      BY <1>2, <1>4, <1>5, <3>2, StillKnows DEF Turn
    <3>3. QED BY <3>1, <3>2
  <2>2. QED BY <2>1 DEF Knowledge
<1>8. OneStart'
  <2> SUFFICES ASSUME NEW a \in Agents, NEW b \in Agents, cmd'[a].op = "start", cmd'[b].op = "start",
                      cmd'[a].on = cmd'[b].on
               PROVE  a = b
    BY DEF OneStart
  <2>1. CASE a = t
    BY <1>2, <1>3, <2>1 DEF Turn
  <2>2. CASE b = t
    BY <1>2, <1>3, <2>2 DEF Turn
  <2>3. CASE a # t /\ b # t
    BY <1>2, <2>3 DEF ColabInv, OneStart, Turn
  <2>4. QED BY <2>1, <2>2, <2>3
<1>9. LocksKept' /\ LocksTyped'
  <2>1. ~Holding(t)'
    BY <1>2 DEF Holding, InLock
  <2>2. QED BY <1>1, <1>2, <1>5, <2>1, SameLocks DEF TypeOK, LocksTyped
<1>10. cmd' \in [Agents -> Coroutine] /\ RegOK(reg)'
  BY <1>1, <1>2, <1>5, RegSame DEF Turn
<1>11. todo' \subseteq Sessions /\ \A x \in todo' : Born(x)
  BY <1>5, TodoFacts
<1>12. QED BY <1>5, <1>7, <1>8, <1>9, <1>10, <1>11, Assembled

\* The subprocess of an exec, a heartbeat or a restart takes effect.
LEMMA CliStep ==
  ASSUME ColabInv, NEW a \in Agents, NEW how \in {"live", "timeout", "error", "lost"}, CliAnswers(a, how)
  PROVE  ColabInv'
<1>1. TypeOK /\ KnowsBorn(a) /\ VMMoves
  BY VMSame DEF ColabInv, CliAnswers
<1>2. cmd[a].pc = "cli" /\ cmd[a].op \in {"exec", "beat", "restart"} /\ how \in Outcomes(a)
  BY DEF CliAnswers
<1>3. Further(a, "back", how, cmd[a].live)
  BY <1>1, GotoFacts DEF CliAnswers, Points, Gots
<1>4. cmd[a].on \in Sessions /\ Born(cmd[a].on)
  BY <1>1, <1>2 DEF KnowsBorn
<1>5. how = "lost" /\ "lookalike" \notin Faults => vm[cmd[a].on] = "gone"
  <2>1. vm[cmd[a].on] \in {"up", "gone"}
    BY <1>1, <1>4 DEF TypeOK, Born
  <2>2. QED BY <1>2, <2>1 DEF Outcomes
<1>6. UNCHANGED <<vm, reg, lock, stale, todo>>
  BY DEF CliAnswers
<1>7. KnowsBorn(a)'
  BY <1>1, <1>2, <1>3, <1>6 DEF Further, KnowsBorn, Born
<1>8. KnowsDead(a)'
  BY <1>2, <1>3, <1>5, <1>6 DEF Further, KnowsDead
<1>9. QED BY <1>1, <1>2, <1>3, <1>6, <1>7, <1>8, LocksSame, Moved

\* `colab sessions` answers.
LEMMA LookupStep ==
  ASSUME ColabInv, NEW a \in Agents, Lookup(a)
  PROVE  ColabInv'
<1>1. TypeOK /\ KnowsBorn(a) /\ VMMoves
  BY VMSame DEF ColabInv, Lookup
<1> DEFINE up == {s \in Sessions : vm[s] = "up"}
<1>2. cmd[a].pc = "probe" /\ UNCHANGED <<vm, reg, lock, stale, todo>>
  BY DEF Lookup
<1>3. CASE cmd' = [cmd EXCEPT ![a] = [@ EXCEPT !.pc = "probed", !.got = "ok", !.live = up]]
  <2>1. Further(a, "probed", "ok", up)
    BY <1>1, <1>3, LearnFacts
  <2>2. KnowsBorn(a)'
    BY <1>1, <1>2, <2>1 DEF Further, KnowsBorn, Born
  <2>3. cmd[a].op \in {"exec", "restart"} /\ cmd[a].on \notin up => vm[cmd[a].on] = "gone"
    BY <1>1 DEF KnowsBorn, Born, TypeOK
  <2>4. KnowsDead(a)'
    BY <1>2, <2>1, <2>3 DEF Further, KnowsDead, Absence
  <2>5. QED BY <1>1, <1>2, <2>1, <2>2, <2>4, LocksSame, Moved
<1>4. CASE Goto(a, "probed", "error")
  <2>1. Further(a, "probed", "error", cmd[a].live)
    BY <1>1, <1>4, GotoFacts DEF Points, Gots
  <2>2. KnowsBorn(a)' /\ KnowsDead(a)'
    BY <1>1, <1>2, <2>1 DEF Further, KnowsBorn, KnowsDead, Absence, Born
  <2>3. QED BY <1>1, <1>2, <2>1, <2>2, LocksSame, Moved
<1>5. QED BY <1>3, <1>4 DEF Lookup

\* `colab new` and `colab stop` take effect.
LEMMA VMSteps ==
  ASSUME ColabInv, NEW a \in Agents, Provision(a) \/ StopRuns(a)
  PROVE  ColabInv'
<1>1. TypeOK /\ KnowsBorn(a) /\ cmd[a].on \in Sessions
  BY DEF ColabInv, KnowsBorn, Provision, StopRuns
<1>2. UNCHANGED <<reg, lock, stale, todo>> /\ cmd[a].pc = "cli"
  BY DEF Provision, StopRuns
<1>3. PICK g \in {"ok", "error", "none"} : Goto(a, "back", g)
  BY DEF Provision, StopRuns
<1>4. Further(a, "back", g, cmd[a].live)
  BY <1>1, <1>3, GotoFacts DEF Points, Gots
<1>5. VMMoves
  <2>1. CASE Provision(a)
    <3>1. a \in Tasks /\ vm[cmd[a].on] = "unborn" /\ Makes(a, cmd[a].on)
      BY <1>1, <1>4, <2>1 DEF Provision, KnowsBorn, Born, Makes, Further
    <3>2. \E v \in {"up", "gone"} : vm' = [vm EXCEPT ![cmd[a].on] = v]
      BY <2>1 DEF Provision
    <3>3. QED BY <1>1, <3>1, <3>2 DEF TypeOK, VMMoves
  <2>2. CASE StopRuns(a)
    <3>1. vm[cmd[a].on] \in {"up", "gone"}
      BY <1>1, <2>2 DEF StopRuns, KnowsBorn, Born, TypeOK
    <3>2. QED BY <1>1, <2>2, <3>1 DEF StopRuns, VMMoves, TypeOK
  <2>3. QED BY <2>1, <2>2
<1>6. \A s \in Sessions : Born(s) => Born(s)'
  BY <1>5 DEF VMMoves, Born, Makes
<1>7. cmd[a].op = "stop" \/ (cmd[a].op = "start" /\ vm'[cmd[a].on] # "unborn")
  BY <1>1 DEF Provision, StopRuns, TypeOK
<1>8. cmd[a].live \subseteq Sessions
  BY <1>1 DEF TypeOK
<1>9. KnowsBorn(a)' /\ KnowsDead(a)'
  BY <1>1, <1>3, <1>4, <1>6, <1>7, <1>8 DEF Further, KnowsBorn, KnowsDead, Born
<1>10. QED BY <1>1, <1>2, <1>4, <1>5, <1>9, LocksSame, Moved

\* start_kernel comes back.
LEMMA StartedStep ==
  ASSUME ColabInv, NEW a \in Agents, Started(a)
  PROVE  ColabInv'
<1> DEFINE s == cmd[a].on
           tracked == TrackAll(reg, {s})
<1>1. s \in Sessions /\ Born(s) /\ RegOK(reg) /\ UNCHANGED vm
  BY DEF ColabInv, KnowsBorn, Started
<1>2. RegOK(tracked) /\ Known(tracked, s)
  BY <1>1, Adopted
<1>3. RegOK(SetState(tracked, s, "live")) /\ RegOK(SetState(tracked, s, "starting"))
  BY <1>1, <1>2, Marked DEF States
<1>4. CASE reg' = SetState(tracked, s, "live") /\ End(a, "started") /\ UNCHANGED <<lock, stale, todo>>
  BY <1>1, <1>3, <1>4, Ended DEF Answers
<1>5. CASE Dies({reg, tracked, SetState(tracked, s, "starting")})
  <2>1. \A w \in {reg, tracked, SetState(tracked, s, "starting")} : RegOK(w)
    BY <1>1, <1>2, <1>3
  <2> HIDE DEF tracked, s
  <2>2. QED BY <1>1, <1>5, <2>1, Died
<1>6. CASE End(a, "failed") /\ UNCHANGED <<reg, lock, stale, todo>>
  BY <1>1, <1>6, Ended DEF Answers
<1>7. QED BY <1>4, <1>5, <1>6 DEF Started

LEMMA AcquireStep ==
  ASSUME ColabInv, NEW a \in Agents, AcquireLock(a)
  PROVE  ColabInv'
<1>1. TypeOK /\ KnowsBorn(a) /\ LocksKept /\ VMMoves
  BY VMSame DEF ColabInv, AcquireLock
<1>2. Further(a, "cli", "none", cmd[a].live)
  BY <1>1, GotoFacts DEF AcquireLock, Points, Gots
<1>3. cmd[a].op \in {"exec", "beat"} /\ cmd[a].on \in Sessions /\ UNCHANGED <<vm, reg, stale, todo>>
  BY <1>1 DEF AcquireLock, InLock, KnowsBorn
<1>4. KnowsBorn(a)' /\ KnowsDead(a)'
  BY <1>1, <1>2, <1>3 DEF Further, KnowsBorn, KnowsDead, Born
<1>5. LocksTyped'
  BY <1>1, <1>3 DEF AcquireLock, TypeOK, LocksTyped
<1>6. ASSUME NEW b \in Agents, Holding(b)', b \notin stale' PROVE lock'[cmd'[b].on] = b
  <2>1. CASE b = a
    BY <1>1, <1>2, <1>3, <1>6, <2>1 DEF AcquireLock, Further, TypeOK
  <2>2. CASE b # a
    <3>1. Holding(b) /\ b \notin stale /\ cmd'[b] = cmd[b]
      BY <1>2, <1>3, <1>6, <2>2 DEF Further, Turn, Holding, InLock
    <3>2. lock[cmd[b].on] = b /\ cmd[b].on \in Sessions
      BY <1>1, <3>1, HoldsOn DEF LocksKept
    <3>3. b # Nobody
      BY AgentsAssumption DEF Agents
    <3>4. QED BY <1>1, <1>3, <2>2, <3>1, <3>2, <3>3 DEF AcquireLock, LockFree, TypeOK
  <2>3. QED BY <2>1, <2>2
<1>7. LocksKept'
  BY <1>6 DEF LocksKept
<1>8. QED BY <1>1, <1>2, <1>3, <1>4, <1>5, <1>7, Moved

\* The steps that may find a session lost.
LEMMA LossSteps ==
  ASSUME ColabInv, NEW a \in Agents,
         ExecReturns(a) \/ RestartReturns(a) \/ Confirmed(a) \/ (a = Reaper /\ Pinged)
  PROVE  ColabInv'
<1>1. TypeOK /\ KnowsBorn(a) /\ KnowsDead(a) /\ VMMoves /\ RegOK(reg) /\ UNCHANGED vm
  BY VMSame DEF ColabInv, ExecReturns, RestartReturns, Confirmed, Pinged
<1>2. cmd[a].op \in {"exec", "restart", "beat"} /\ cmd[a].on \in Sessions
  BY <1>1 DEF ExecReturns, RestartReturns, Confirmed, Pinged, KnowsBorn
<1>3. ASSUME NEW g \in {"session_lost", "answered"}, LoseAndEnd(a, reg, {cmd[a].on}, {}, g),
             /\ g = "session_lost" /\ "lookalike" \notin Faults
             => cmd[a].op \in {"exec", "restart"} /\ vm[cmd[a].on] = "gone"
      PROVE  ColabInv'
  <2>1. \A w \in {} : RegOK(w)
    OBVIOUS
  <2>2. {cmd[a].on} \in SUBSET Sessions
    BY <1>2
  <2>3. QED BY <1>1, <1>3, <2>1, <2>2, LostAndEnded DEF Answers
<1>4. CASE Goto(a, "probe", "none") /\ cmd[a].pc = "back" /\ UNCHANGED <<reg, lock, stale, todo>>
  <2>1. Further(a, "probe", "none", cmd[a].live)
    BY <1>1, <1>4, GotoFacts DEF Points, Gots
  <2>2. KnowsBorn(a)' /\ KnowsDead(a)'
    BY <1>1, <1>2, <2>1 DEF Further, KnowsBorn, KnowsDead, Born
  <2>3. QED BY <1>1, <1>4, <2>1, <2>2, LocksSame, Moved
<1>5. CASE End(a, "answered") /\ (Release(a) \/ UNCHANGED <<lock, stale>>) /\ UNCHANGED <<reg, todo>>
  BY <1>1, <1>5, Ended DEF Answers
<1>6. CASE ExecReturns(a)
  <2>1. CASE cmd[a].got = "lost"
    BY <1>1, <1>3, <1>6, <2>1 DEF ExecReturns, KnowsDead
  <2>2. CASE cmd[a].got # "lost"
    BY <1>4, <1>5, <1>6, <2>2 DEF ExecReturns
  <2>3. QED BY <2>1, <2>2
<1>7. CASE RestartReturns(a)
  <2>1. CASE cmd[a].got = "lost"
    BY <1>1, <1>3, <1>7, <2>1 DEF RestartReturns, KnowsDead
  <2>2. CASE cmd[a].got # "lost"
    BY <1>4, <1>5, <1>7, <2>2 DEF RestartReturns
  <2>3. QED BY <2>1, <2>2
<1>8. CASE Confirmed(a)
  <2>1. CASE Absence(a, cmd[a].on)
    BY <1>1, <1>3, <1>8, <2>1 DEF Confirmed, KnowsDead
  <2>2. CASE ~Absence(a, cmd[a].on)
    BY <1>5, <1>8, <2>2 DEF Confirmed
  <2>3. QED BY <2>1, <2>2
<1>9. CASE a = Reaper /\ Pinged
  BY <1>3, <1>5, <1>9 DEF Pinged
<1>10. QED BY <1>6, <1>7, <1>8, <1>9

\* What a lookup found and the registry lacks is adopted, in any order.
LEMMA AdoptedWrites ==
  ASSUME ColabInv, NEW a \in Agents
  PROVE  LET unknown == {s \in cmd[a].live : ~Routed(reg, s)}
         IN  /\ RegOK(TrackAll(reg, unknown))
             /\ \A w \in {TrackAll(reg, A) : A \in SUBSET unknown} : RegOK(w)
<1>1. RegOK(reg) /\ cmd[a].live \subseteq Sessions /\ \A s \in cmd[a].live : Born(s)
  BY DEF ColabInv, TypeOK, KnowsBorn
<1>2. QED BY <1>1, Adopted

LEMMA ListedStep ==
  ASSUME ColabInv, NEW a \in Agents, Listed(a)
  PROVE  ColabInv'
<1> DEFINE unknown == {s \in cmd[a].live : ~Routed(reg, s)}
           adopted == TrackAll(reg, unknown)
           writes == {TrackAll(reg, A) : A \in SUBSET unknown}
<1>1. RegOK(reg) /\ UNCHANGED vm
  BY DEF ColabInv, Listed
<1>2. RegOK(adopted) /\ \A w \in writes : RegOK(w)
  BY AdoptedWrites
<1>3. CASE LoseAndEnd(a, adopted, Ids(adopted) \ cmd[a].live, writes, "listed")
  <2>1. Ids(adopted) \ cmd[a].live \in SUBSET Sessions
    BY DEF Ids
  <2> HIDE DEF adopted, writes
  <2>2. QED BY <1>1, <1>2, <1>3, <2>1, LostAndEnded DEF Answers
<1>4. CASE End(a, "listed") /\ UNCHANGED <<reg, lock, stale, todo>>
  BY <1>1, <1>4, Ended DEF Answers
<1>5. QED BY <1>3, <1>4 DEF Listed

LEMMA StopSteps ==
  ASSUME ColabInv, NEW a \in Agents, StopReturns(a) \/ StoppedUnknown(a)
  PROVE  ColabInv'
<1> DEFINE s == cmd[a].on
<1>1. RegOK(reg) /\ UNCHANGED vm /\ s \in Sessions
  BY DEF ColabInv, KnowsBorn, StopReturns, StoppedUnknown
<1>2. CASE reg' = Forget(reg, {s}) /\ End(a, "stopped") /\ PopLocks(a, {s}) /\ UNCHANGED todo
  <2>1. RegOK(reg')
    BY <1>1, <1>2, Forgotten
  <2>2. QED BY <1>1, <1>2, <2>1, Ended DEF Answers
<1>3. CASE End(a, "illegal") /\ todo' \subseteq todo /\ UNCHANGED <<reg, lock, stale>>
  BY <1>1, <1>3, Ended DEF Answers
<1>4. CASE Known(reg, s) /\ Dies({SetState(reg, s, "stopped")})
  <2>1. RegOK(SetState(reg, s, "stopped"))
    BY <1>1, <1>4, Marked DEF States
  <2>2. QED BY <1>1, <1>4, <2>1, Died
<1>5. QED BY <1>2, <1>3, <1>4 DEF StopReturns, StoppedUnknown

LEMMA BusyStep ==
  ASSUME ColabInv, NEW a \in Agents, KernelBusy(a)
  PROVE  ColabInv'
BY Ended DEF KernelBusy, ColabInv, Answers

\* The reaper turns to an id of its pass.
LEMMA ReaperTurns ==
  ASSUME ColabInv, NEW o \in {"stop", "beat"}, NEW s \in todo, NEW at \in {"lock", "cli"},
         cmd[Reaper] = Idle,
         cmd' = [cmd EXCEPT ![Reaper] = [Idle EXCEPT !.op = o, !.on = s, !.pc = at]],
         todo' = todo \ {s}, UNCHANGED <<vm, reg, stale>>,
         \/ (o = "stop" \/ at = "lock") /\ UNCHANGED lock
         \/ lock[s] = Nobody /\ lock' = [lock EXCEPT ![s] = Reaper]
  PROVE  ColabInv'
<1> DEFINE e == Idle
           q == [e EXCEPT !.op = o, !.on = s, !.pc = at]
<1>1. TypeOK /\ LocksKept /\ VMMoves /\ Reaper \in Agents /\ s \in Sessions /\ Born(s)
  BY VMSame, TodoFacts DEF ColabInv, Agents
<1>2. e \in Coroutine /\ e.op = "none" /\ e.got = "none" /\ e.live = {} /\ cmd[Reaper] = e
  BY IdleFacts
<1>3. cmd' = [cmd EXCEPT ![Reaper] = q]
  OBVIOUS
<1> HIDE DEF e
<1>4. q \in Coroutine /\ q.op = o /\ q.on = s /\ q.pc = at /\ q.got = "none" /\ q.live = {}
  BY <1>1, <1>2 DEF Coroutine, ToolKinds
<1> HIDE DEF q
<1>5. Turn(Reaper) /\ cmd'[Reaper] = q
  BY <1>1, <1>3, <1>4 DEF Turn, TypeOK, Coroutine
<1>6. SameStarts
  BY <1>2, <1>4, <1>5 DEF Turn, SameStarts
<1>7. KnowsBorn(Reaper)' /\ KnowsDead(Reaper)'
  BY <1>1, <1>4, <1>5 DEF KnowsBorn, KnowsDead, Born
<1>8. Knowledge' /\ OneStart'
  BY <1>1, <1>5, <1>6, <1>7, KnowledgeKept
<1>9. LocksTyped'
  BY <1>1 DEF TypeOK, LocksTyped
<1>10. ASSUME NEW b \in Agents, Holding(b)', b \notin stale' PROVE lock'[cmd'[b].on] = b
  <2>1. CASE b = Reaper
    <3>1. lock' = [lock EXCEPT ![s] = Reaper]
      BY <1>4, <1>5, <1>10, <2>1 DEF Holding, InLock
    <3>2. QED BY <1>1, <1>4, <1>5, <2>1, <3>1 DEF TypeOK
  <2>2. CASE b # Reaper
    <3>1. Holding(b) /\ b \notin stale /\ cmd'[b] = cmd[b]
      BY <1>5, <1>10, <2>2 DEF Turn, Holding, InLock
    <3>2. lock[cmd[b].on] = b /\ cmd[b].on \in Sessions
      BY <1>1, <3>1, HoldsOn DEF LocksKept
    <3>3. b # Nobody
      BY AgentsAssumption DEF Agents
    <3>4. QED BY <1>1, <3>1, <3>2, <3>3 DEF TypeOK
  <2>3. QED BY <2>1, <2>2
<1>11. LocksKept'
  BY <1>10 DEF LocksKept
<1>12. RegOK(reg)' /\ cmd' \in [Agents -> Coroutine]
  BY <1>1, <1>5, RegKept DEF Turn
<1>13. todo' \subseteq Sessions /\ \A x \in todo' : Born(x)
  BY TodoFacts
<1>14. QED BY <1>1, <1>8, <1>9, <1>11, <1>12, <1>13, Assembled

LEMMA PassSteps ==
  ASSUME ColabInv, BootAdopts \/ ReapPass
  PROVE  ColabInv'
<1>1. RegOK(reg) /\ Reaper \in Agents /\ UNCHANGED vm
  BY DEF ColabInv, Agents, BootAdopts, ReapPass
<1>2. CASE BootAdopts
  <2> DEFINE unknown == {x \in cmd[Reaper].live : ~Routed(reg, x)}
             adopted == TrackAll(reg, unknown)
             writes == {TrackAll(reg, A) : A \in SUBSET unknown}
  <2>1. RegOK(adopted) /\ \A w \in writes : RegOK(w)
    BY <1>1, AdoptedWrites
  <2>2. \/ reg' = adopted /\ End(Reaper, "none") /\ UNCHANGED <<lock, stale, todo>>
        \/ Dies(writes)
    BY <1>2 DEF BootAdopts
  <2> HIDE DEF adopted, writes
  <2>3. CASE reg' = adopted /\ End(Reaper, "none") /\ UNCHANGED <<lock, stale, todo>>
    BY <1>1, <2>1, <2>3, Ended
  <2>4. CASE Dies(writes)
    BY <1>1, <2>1, <2>4, Died
  <2>5. QED BY <2>2, <2>3, <2>4
<1>3. CASE ReapPass
  <2>1. \A x \in Ids(reg) : Born(x)
    BY RoutedBorn DEF Ids
  <2>2. todo' \subseteq Sessions /\ \A x \in todo' : Born(x)
    BY <1>3, <2>1 DEF ReapPass, Ids
  <2>3. VMMoves /\ RegOK(reg)'
    BY <1>1, <1>3, VMSame, RegSame DEF ReapPass, ColabInv
  <2>4. QED BY <1>3, <2>2, <2>3, Untouched DEF ReapPass
<1>4. QED BY <1>2, <1>3

LEMMA VisitSteps ==
  ASSUME ColabInv, NEW s \in Sessions, ReapStop(s) \/ ReapSkip(s) \/ Ping(s)
  PROVE  ColabInv'
<1>1. RegOK(reg) /\ UNCHANGED vm
  BY DEF ColabInv, ReapStop, ReapSkip, Ping
<1>2. CASE ReapStop(s)
  BY <1>2, ReaperTurns DEF ReapStop, Visit
<1>3. CASE ReapSkip(s)
  <2>1. todo' \subseteq Sessions /\ \A x \in todo' : Born(x)
    BY <1>3, TodoFacts DEF ReapSkip, Visit
  <2>2. VMMoves /\ RegOK(reg)'
    BY <1>1, <1>3, VMSame, RegSame DEF ReapSkip, ColabInv
  <2>3. QED BY <1>3, <2>1, <2>2, Untouched DEF ReapSkip
<1>4. CASE Ping(s)
  <2>1. PICK at \in {"lock", "cli"} :
          /\ cmd' = [cmd EXCEPT ![Reaper] = [Idle EXCEPT !.op = "beat", !.on = s, !.pc = at]]
          /\ lock' = IF at = "lock" THEN lock ELSE [lock EXCEPT ![s] = Reaper]
    BY <1>4 DEF Ping
  <2>2. QED BY <1>4, <2>1, ReaperTurns DEF Ping, Visit
<1>5. QED BY <1>2, <1>3, <1>4

LEMMA WorldSteps ==
  ASSUME ColabInv, NEW s \in Sessions, Reclaim(s) \/ Ages(s) \/ Crash
  PROVE  ColabInv'
<1>1. RegOK(reg) /\ TypeOK
  BY DEF ColabInv
<1>2. CASE Reclaim(s)
  <2>1. VMMoves
    BY <1>1, <1>2 DEF Reclaim, VMMoves, TypeOK
  <2>2. RegOK(reg)'
    BY <1>2, <2>1, RegKept DEF Reclaim
  <2>3. QED BY <1>2, <2>1, <2>2, TodoFacts, Untouched DEF Reclaim
<1>3. CASE Ages(s)
  <2>1. /\ reg' \in [Sessions -> Entry] /\ reg'[s].backend = reg[s].backend /\ reg'[s].state = reg[s].state
        /\ \A x \in Sessions \ {s} : reg'[x] = reg[x]
    BY <1>1, <1>3 DEF Ages, TypeOK, Entry
  <2>2. Born(s)
    BY <1>1, <1>3 DEF Ages, RegOK, Absent
  <2>3. RegOK(reg')
    BY <1>1, <2>1, <2>2 DEF RegOK, Routed, Known
  <2>4. RegOK(reg)' /\ VMMoves
    BY <1>1, <1>3, <2>3, RegSame, VMSame DEF Ages
  <2>5. QED BY <1>3, <2>4, TodoFacts, Untouched DEF Ages
<1>4. CASE Crash
  BY <1>1, <1>4, Died DEF Crash
<1>5. QED BY <1>2, <1>3, <1>4

----
(* The invariant of every behaviour. *)

LEMMA Begins == Init => ColabInv
<1> SUFFICES ASSUME Init PROVE ColabInv
  OBVIOUS
<1>1. /\ vm \in [Sessions -> {"unborn", "up"}] /\ lock = [s \in Sessions |-> Nobody] /\ stale = {} /\ todo = {}
      /\ reg \in [Sessions -> {Absent, [Tracked(Absent) EXCEPT !.state = "live"]}]
      /\ \A s \in Sessions : vm[s] = "unborn" => reg[s] = Absent
  BY DEF Init
<1>2. RegOK(reg)
  <2> DEFINE t == Tracked(Absent)
             l == [t EXCEPT !.state = "live"]
  <2>1. t \in Entry
    BY EntryFacts
  <2> HIDE DEF t
  <2>2. l \in Entry /\ l.state = "live"
    BY <2>1 DEF Entry, States
  <2> HIDE DEF l
  <2>3. reg \in [Sessions -> {Absent, l}]
    BY <1>1 DEF l, t
  <2>4. reg \in [Sessions -> Entry]
    BY <2>2, <2>3, EntryFacts
  <2>5. QED BY <1>1, <2>2, <2>3, <2>4, EntryFacts DEF RegOK, Known, Routed, Born
<1>3. \A a \in Agents : /\ cmd[a] \in Coroutine /\ cmd[a].op \in {"none", "boot"} /\ cmd[a].got = "none"
                        /\ cmd[a].live = {} /\ (cmd[a].pc = "idle" => cmd[a].op = "none")
  <2> DEFINE e == Idle
             boot == [e EXCEPT !.op = "boot", !.pc = "probe"]
  <2>1. e \in Coroutine /\ e.op = "none" /\ e.got = "none" /\ e.live = {}
    BY IdleFacts
  <2>2. cmd = [a \in Agents |-> IF a = Reaper THEN boot ELSE e]
    BY DEF Init
  <2> HIDE DEF e
  <2>3. boot \in Coroutine /\ boot.op = "boot" /\ boot.pc = "probe" /\ boot.got = "none" /\ boot.live = {}
    BY <2>1 DEF Coroutine
  <2> HIDE DEF boot
  <2>4. QED BY <2>1, <2>2, <2>3
<1>4. cmd \in [Agents -> Coroutine]
  BY <1>3 DEF Init
<1>5. TypeOK
  BY <1>1, <1>2, <1>4 DEF TypeOK, RegOK, Coroutine
<1>6. \A a \in Agents : KnowsBorn(a) /\ KnowsDead(a)
  BY <1>3 DEF KnowsBorn, KnowsDead
<1>7. OneStart /\ LocksKept
  BY <1>3 DEF OneStart, LocksKept, Holding, InLock
<1>8. QED BY <1>1, <1>2, <1>5, <1>6, <1>7 DEF ColabInv

LEMMA Continues == ColabInv /\ [Next]_vars => ColabInv'
<1> SUFFICES ASSUME ColabInv, [Next]_vars PROVE ColabInv'
  OBVIOUS
<1>1. ASSUME NEW t \in Tasks, ClientCall(t) PROVE ColabInv'
  <2>1. CASE \E s \in Sessions : Start(t, s)
    BY <2>1, StartStep
  <2>2. CASE List(t)
    <3>1. RegOK(reg')
      BY <2>2 DEF List, ColabInv
    <3>2. QED BY <2>2, <3>1, Called DEF List
  <2>3. CASE \E s \in Sessions : Exec(t, s) \/ Restart(t, s) \/ Stop(t, s) \/ StopUnknown(t, s)
    BY <2>3, CallSteps
  <2>4. CASE \E s \in Sessions, to \in BOOLEAN : Pin(t, s, to)
    BY <2>4, CallSteps
  <2>5. QED BY <1>1, <2>1, <2>2, <2>3, <2>4 DEF ClientCall
<1>2. ASSUME NEW a \in Agents, Progress(a) PROVE ColabInv'
  BY <1>2, CliStep, LookupStep, VMSteps, StartedStep, AcquireStep, BusyStep, LossSteps, ListedStep, StopSteps
     DEF Progress
<1>3. CASE Reap
  <2>1. CASE Pinged
    BY <2>1, LossSteps DEF Agents
  <2>2. CASE BootAdopts \/ ReapPass
    BY <2>2, PassSteps
  <2>3. CASE \E s \in Sessions : ReapStop(s) \/ ReapSkip(s) \/ Ping(s)
    BY <2>3, VisitSteps
  <2>4. QED BY <1>3, <2>1, <2>2, <2>3 DEF Reap
<1>4. CASE \E s \in Sessions : Reclaim(s) \/ Ages(s)
  BY <1>4, WorldSteps
<1>5. CASE Crash
  BY <1>5, Died DEF ColabInv, Crash
<1>6. CASE UNCHANGED vars
  <2>1. VMMoves /\ RegOK(reg)'
    BY <1>6, VMSame, RegSame DEF vars, ColabInv
  <2>2. QED BY <1>6, <2>1, TodoFacts, Untouched DEF vars
<1>7. QED BY <1>1, <1>2, <1>3, <1>4, <1>5, <1>6 DEF Next

LEMMA AlwaysColab == Spec => []ColabInv
<1>1. QED BY Begins, Continues, PTL DEF Spec

\* A client that was told session_lost can act on it, unless its own output can
\* pass for colab-cli's (classify_result, _confirm_lost); for any number of calls.
THEOREM LostIsGone == ASSUME "lookalike" \notin Faults PROVE Spec => []ReportedLostIsGone
<1>1. ColabInv => ReportedLostIsGone
  BY DEF ColabInv, KnowsDead, ReportedLostIsGone, Agents
<1>2. QED BY <1>1, AlwaysColab, PTL

\* A heartbeat never runs beside an exec under the session's present lock
\* (_heartbeat_colab), whatever fails.
THEOREM HeartbeatExcluded == Spec => []HeartbeatNeverRaces
<1>1. ColabInv => HeartbeatNeverRaces
  BY AgentsAssumption DEF ColabInv, LocksKept, HeartbeatNeverRaces, Agents
<1>2. QED BY <1>1, AlwaysColab, PTL

----
(* What a step may do to the registry. *)

Quiet == \A s \in Sessions : Terminal(reg', s) => Terminal(reg, s) \/ Crashed
Kept(s) == Routed(reg, s) => Routed(reg', s)
Reasons(s) ==
  \E a \in Agents : cmd'[a] # cmd[a] /\ (StopOf(a, s) \/ (ListBefore(a, s) /\ BornLate(s)))
Justified == \A s \in Sessions : Dropped(s) /\ vm[s] = "up" => Reasons(s)

\* A coroutine that is at work and whose step ends it, or the process, has moved.
LEMMA HasMoved ==
  ASSUME ColabInv, NEW a \in Agents, cmd[a].op \notin {"none", "boot"}, cmd[a].pc \notin {"idle", "done"},
         NEW g, Over(a, g) \/ Killed
  PROVE  cmd'[a] # cmd[a]
BY IdleFacts DEF Over, Killed

\* _mark_lost drops no other ids than those of S.
LEMMA LossDrops ==
  ASSUME ColabInv, NEW a \in Agents, NEW r, RegOK(r), NEW S \in SUBSET Sessions, NEW B,
         NEW g \in Answers \cup {"none"}, LoseAndEnd(a, r, S, B, g),
         \A s \in Sessions : Terminal(r, s) => Terminal(reg, s),
         \A s \in Sessions : Routed(reg, s) => Routed(r, s),
         \A w \in B, s \in Sessions : Routed(reg, s) => Routed(w, s)
  PROVE  Quiet /\ (\A s \in Sessions \ S : Kept(s)) /\ (Over(a, g) \/ Killed)
<1>1. TypeOK
  BY DEF ColabInv
<1>2. CASE reg' = Forget(r, S) /\ End(a, g)
  <2>1. Over(a, g)
    BY <1>1, <1>2, EndFacts
  <2>2. \A s \in Sessions : /\ Forget(r, S)[s] = IF s \in S THEN Absent ELSE r[s]
                            /\ Terminal(Forget(r, S), s) => Terminal(r, s)
    BY EntryFacts DEF Forget, Terminal
  <2>3. \A s \in Sessions : Terminal(reg', s) => Terminal(reg, s)
    BY <1>2, <2>2
  <2>4. \A s \in Sessions \ S : Kept(s)
    <3>1. \A s \in Sessions \ S : reg'[s] = r[s]
      BY <1>2, <2>2
    <3>2. QED BY <3>1 DEF Kept, Routed
  <2>5. QED BY <2>1, <2>3, <2>4 DEF Quiet
<1>3. CASE Dies(B \cup LosingWrites(r, S))
  <2>1. Killed /\ Crashed /\ reg' \in B \cup LosingWrites(r, S)
    BY <1>1, <1>3, DiesFacts
  <2>2. \A s \in Sessions \ S : Kept(s)
    BY <2>1, Losing DEF Kept
  <2>3. QED BY <2>1, <2>2 DEF Quiet
<1>4. QED BY <1>2, <1>3 DEF LoseAndEnd

\* A loss that was learnt of one id.
LEMMA LossOfOne ==
  ASSUME ColabInv, NEW a \in Agents, cmd[a].on \in Sessions, NEW g \in {"session_lost", "answered"},
         LoseAndEnd(a, reg, {cmd[a].on}, {}, g)
  PROVE  Quiet /\ (vm[cmd[a].on] = "gone" => Justified)
<1>1. RegOK(reg) /\ {cmd[a].on} \in SUBSET Sessions
  BY DEF ColabInv
<1>2. Quiet /\ \A s \in Sessions \ {cmd[a].on} : Kept(s)
  <2> DEFINE S == {cmd[a].on}
             B == {}
  <2>1. \A w \in B, s \in Sessions : Routed(reg, s) => Routed(w, s)
    OBVIOUS
  <2>2. g \in Answers \cup {"none"} /\ S \in SUBSET Sessions /\ LoseAndEnd(a, reg, S, B, g) /\ RegOK(reg)
    BY <1>1 DEF Answers
  <2> HIDE DEF S, B
  <2>3. Quiet /\ \A s \in Sessions \ S : Kept(s)
    BY <2>1, <2>2, LossDrops
  <2>4. QED BY <2>3 DEF S
<1>3. QED BY <1>2 DEF Justified, Dropped, Kept

LEMMA LossesJustified ==
  ASSUME ColabInv, NEW a \in Agents,
         ExecReturns(a) \/ RestartReturns(a) \/ Confirmed(a) \/ (a = Reaper /\ Pinged)
  PROVE  Quiet /\ ("lookalike" \notin Faults => Justified)
<1>1. KnowsBorn(a) /\ KnowsDead(a)
  BY DEF ColabInv
<1>2. cmd[a].op \in {"exec", "restart", "beat"} /\ cmd[a].on \in Sessions
  BY <1>1 DEF ExecReturns, RestartReturns, Confirmed, Pinged, KnowsBorn
<1>3. CASE UNCHANGED reg
  BY <1>3 DEF Quiet, Justified, Dropped, Terminal
<1>4. CASE \E g \in {"session_lost", "answered"} :
             /\ LoseAndEnd(a, reg, {cmd[a].on}, {}, g)
             /\ "lookalike" \notin Faults => vm[cmd[a].on] = "gone"
  BY <1>2, <1>4, LossOfOne
<1>5. CASE ExecReturns(a)
  <2>1. CASE cmd[a].got = "lost"
    BY <1>1, <1>4, <1>5, <2>1 DEF ExecReturns, KnowsDead
  <2>2. CASE cmd[a].got # "lost"
    BY <1>3, <1>5, <2>2 DEF ExecReturns
  <2>3. QED BY <2>1, <2>2
<1>6. CASE RestartReturns(a)
  <2>1. CASE cmd[a].got = "lost"
    BY <1>1, <1>4, <1>6, <2>1 DEF RestartReturns, KnowsDead
  <2>2. CASE cmd[a].got # "lost"
    BY <1>3, <1>6, <2>2 DEF RestartReturns
  <2>3. QED BY <2>1, <2>2
<1>7. CASE Confirmed(a)
  <2>1. CASE Absence(a, cmd[a].on)
    BY <1>1, <1>4, <1>7, <2>1 DEF Confirmed, KnowsDead
  <2>2. CASE ~Absence(a, cmd[a].on)
    BY <1>3, <1>7, <2>2 DEF Confirmed
  <2>3. QED BY <2>1, <2>2
<1>8. CASE a = Reaper /\ Pinged
  BY <1>1, <1>3, <1>4, <1>8 DEF Pinged, KnowsDead
<1>9. QED BY <1>5, <1>6, <1>7, <1>8

\* list_kernels: what it drops was not there when it looked.
LEMMA ListJustified ==
  ASSUME ColabInv, NEW a \in Agents, Listed(a)
  PROVE  Quiet /\ Justified
<1> DEFINE unknown == {s \in cmd[a].live : ~Routed(reg, s)}
           adopted == TrackAll(reg, unknown)
           writes == {TrackAll(reg, A) : A \in SUBSET unknown}
           S == Ids(adopted) \ cmd[a].live
<1>1. /\ RegOK(reg) /\ cmd[a].live \subseteq Sessions /\ (\A s \in cmd[a].live : Born(s)) /\ KnowsDead(a)
      /\ cmd[a].op = "list" /\ cmd[a].pc = "probed"
  BY DEF ColabInv, TypeOK, KnowsBorn, Listed
<1>2. CASE UNCHANGED reg
  BY <1>2 DEF Quiet, Justified, Dropped, Terminal
<1>3. CASE cmd[a].got = "ok" /\ LoseAndEnd(a, adopted, S, writes, "listed")
  <2>1. /\ RegOK(adopted)
        /\ \A s \in Sessions : Terminal(adopted, s) => Terminal(reg, s)
        /\ \A s \in Sessions : Routed(reg, s) => Routed(adopted, s)
    BY <1>1, Adopted
  <2>2. \A w \in writes, s \in Sessions : Routed(reg, s) => Routed(w, s)
    BY <1>1, Adopted
  <2>3. S \in SUBSET Sessions
    BY DEF Ids
  <2> HIDE DEF adopted, writes
  <2>4. Quiet /\ (\A s \in Sessions \ S : Kept(s)) /\ (Over(a, "listed") \/ Killed)
    BY <1>3, <2>1, <2>2, <2>3, LossDrops DEF Answers
  <2>5. cmd'[a] # cmd[a]
    BY <1>1, <2>4, HasMoved
  <2>6. ASSUME NEW s \in Sessions, Dropped(s), vm[s] = "up" PROVE Reasons(s)
    <3>1. s \notin cmd[a].live
      BY <2>4, <2>6 DEF Dropped, Kept
    <3>2. ListBefore(a, s) /\ BornLate(s)
      BY <1>1, <1>3, <2>6, <3>1 DEF ListBefore, KnowsDead
    <3>3. QED BY <2>5, <3>2 DEF Reasons
  <2>7. QED BY <2>4, <2>6 DEF Justified
<1>4. QED BY <1>2, <1>3 DEF Listed

LEMMA StopsJustified ==
  ASSUME ColabInv, NEW a \in Agents, StopReturns(a) \/ StoppedUnknown(a)
  PROVE  Quiet /\ Justified
<1> DEFINE s == cmd[a].on
<1>1. /\ RegOK(reg) /\ TypeOK /\ s \in Sessions /\ StopOf(a, s)
      /\ cmd[a].op \notin {"none", "boot"} /\ cmd[a].pc \notin {"idle", "done"}
  BY DEF ColabInv, KnowsBorn, StopOf, StopReturns, StoppedUnknown
<1>2. CASE UNCHANGED reg
  BY <1>2 DEF Quiet, Justified, Dropped, Terminal
<1>3. CASE reg' = Forget(reg, {s}) /\ End(a, "stopped")
  <2>1. Quiet /\ \A x \in Sessions \ {s} : Kept(x)
    BY <1>1, <1>3, Forgotten DEF Quiet, Kept, Routed
  <2>2. cmd'[a] # cmd[a]
    BY <1>1, <1>3, EndFacts, HasMoved DEF Answers
  <2>3. Reasons(s)
    BY <1>1, <2>2 DEF Reasons
  <2>4. QED BY <2>1, <2>3 DEF Justified, Dropped, Kept
<1>4. CASE Known(reg, s) /\ Dies({SetState(reg, s, "stopped")})
  <2>1. Crashed /\ reg' = SetState(reg, s, "stopped")
    BY <1>1, <1>4, DiesFacts
  <2>2. \A x \in Sessions : Routed(reg', x) <=> Routed(reg, x)
    BY <1>1, <1>4, <2>1, Marked DEF States
  <2>3. QED BY <2>1, <2>2 DEF Quiet, Justified, Dropped
<1>5. QED BY <1>2, <1>3, <1>4 DEF StopReturns, StoppedUnknown

\* The steps that only add to the registry.
LEMMA AddersJustified ==
  ASSUME ColabInv,
         \/ \E a \in Agents : Started(a)
         \/ \E t \in Tasks, s \in Sessions, to \in BOOLEAN : Pin(t, s, to)
         \/ BootAdopts
         \/ \E s \in Sessions : Ages(s)
  PROVE  Quiet /\ \A s \in Sessions : Kept(s)
<1>1. RegOK(reg) /\ TypeOK
  BY DEF ColabInv
<1>2. CASE UNCHANGED reg
  BY <1>2 DEF Quiet, Kept, Terminal
<1>3. ASSUME NEW a \in Agents, Started(a) PROVE Quiet /\ \A s \in Sessions : Kept(s)
  <2> DEFINE s == cmd[a].on
             tracked == TrackAll(reg, {s})
  <2>1. s \in Sessions /\ Born(s)
    BY <1>3 DEF ColabInv, KnowsBorn, Started
  <2>2. /\ RegOK(tracked) /\ Known(tracked, s)
        /\ \A x \in Sessions : Terminal(tracked, x) => Terminal(reg, x)
        /\ \A x \in Sessions : Routed(reg, x) => Routed(tracked, x)
    BY <1>1, <2>1, Adopted
  <2> DEFINE started == SetState(tracked, s, "live")
             starting == SetState(tracked, s, "starting")
  <2>3. \/ reg' = started
        \/ Dies({reg, tracked, starting})
        \/ UNCHANGED reg
    BY <1>3 DEF Started
  <2> HIDE DEF tracked
  <2>4. /\ \A x \in Sessions : Routed(started, x) <=> Routed(tracked, x)
        /\ \A x \in Sessions : Routed(starting, x) <=> Routed(tracked, x)
        /\ \A x \in Sessions : Terminal(started, x) => Terminal(tracked, x)
    BY <2>1, <2>2, Marked DEF States, Terminal
  <2> HIDE DEF started, starting
  <2>5. CASE reg' = started
    BY <2>2, <2>4, <2>5 DEF Quiet, Kept
  <2>6. CASE Dies({reg, tracked, starting})
    <3>1. Crashed /\ reg' \in {reg, tracked, starting}
      BY <1>1, <2>6, DiesFacts
    <3>2. QED BY <2>2, <2>4, <3>1 DEF Quiet, Kept
  <2>7. QED BY <1>2, <2>3, <2>5, <2>6
<1>4. ASSUME NEW t \in Tasks, NEW s \in Sessions, NEW to \in BOOLEAN, Pin(t, s, to)
      PROVE  Quiet /\ \A x \in Sessions : Kept(x)
  <2>1. Born(s)
    BY <1>4 DEF Pin, Born
  <2>2. QED BY <1>1, <1>4, <2>1, Pinned DEF Pin, Quiet, Kept
<1>5. CASE BootAdopts
  <2> DEFINE unknown == {x \in cmd[Reaper].live : ~Routed(reg, x)}
             writes == {TrackAll(reg, A) : A \in SUBSET unknown}
  <2>1. unknown \subseteq Sessions /\ \A x \in unknown : Born(x)
    BY DEF ColabInv, TypeOK, KnowsBorn, Agents
  <2>2. \A A \in SUBSET unknown, x \in Sessions :
          /\ Terminal(TrackAll(reg, A), x) => Terminal(reg, x)
          /\ Routed(reg, x) => Routed(TrackAll(reg, A), x)
    BY <1>1, <2>1, Adopted
  <2>3. reg' \in writes
    BY <1>1, <1>5, DiesFacts DEF BootAdopts
  <2>4. QED BY <2>2, <2>3 DEF Quiet, Kept
<1>6. ASSUME NEW s \in Sessions, Ages(s) PROVE Quiet /\ \A x \in Sessions : Kept(x)
  <2>1. \A x \in Sessions : reg'[x].backend = reg[x].backend /\ reg'[x].state = reg[x].state
    BY <1>1, <1>6 DEF Ages, TypeOK, Entry
  <2>2. QED BY <2>1 DEF Quiet, Kept, Routed, Terminal
<1>7. QED BY <1>3, <1>4, <1>5, <1>6

LEMMA StepJustified ==
  ASSUME ColabInv, [Next]_vars
  PROVE  Quiet /\ ("lookalike" \notin Faults => Justified)
<1>1. CASE UNCHANGED reg
  BY <1>1 DEF Quiet, Justified, Dropped, Terminal
<1>2. CASE Quiet /\ \A s \in Sessions : Kept(s)
  BY <1>2 DEF Justified, Dropped, Kept
<1>3. ASSUME NEW t \in Tasks, ClientCall(t) PROVE Quiet /\ ("lookalike" \notin Faults => Justified)
  BY <1>1, <1>2, <1>3, AddersJustified DEF ClientCall, List, Start, Exec, Restart, Stop, StopUnknown
<1>4. ASSUME NEW a \in Agents, Progress(a) PROVE Quiet /\ ("lookalike" \notin Faults => Justified)
  <2>1. CASE UNCHANGED reg \/ Started(a)
    BY <1>1, <1>2, <2>1, AddersJustified
  <2>2. CASE ExecReturns(a) \/ RestartReturns(a) \/ Confirmed(a)
    BY <2>2, LossesJustified
  <2>3. CASE Listed(a) \/ StopReturns(a) \/ StoppedUnknown(a)
    BY <2>3, ListJustified, StopsJustified
  <2>4. QED BY <1>4, <2>1, <2>2, <2>3 DEF Progress, CliAnswers, Lookup, Provision, AcquireLock, KernelBusy, StopRuns
<1>5. CASE Reap
  <2>1. CASE Pinged
    BY <2>1, LossesJustified DEF Agents
  <2>2. CASE BootAdopts
    BY <1>2, <2>2, AddersJustified
  <2>3. QED BY <1>1, <1>5, <2>1, <2>2 DEF Reap, ReapPass, ReapStop, ReapSkip, Ping
<1>6. CASE \E s \in Sessions : Reclaim(s) \/ Ages(s)
  BY <1>1, <1>2, <1>6, AddersJustified DEF Reclaim
<1>7. CASE Crash
  BY <1>1, <1>7, DiesFacts DEF Crash, ColabInv
<1>8. QED BY <1>1, <1>3, <1>4, <1>5, <1>6, <1>7 DEF Next, vars

\* No registry entry is left in a terminal state, except by a crash between the
\* two saves of a removal (set_state, forget): for any sessions and faults.
THEOREM TerminalIsRemoved == Spec => TerminalNeverRoutes
<1>1. ColabInv /\ [Next]_vars => [\A s \in Sessions : Terminal(reg', s) => Terminal(reg, s) \/ Crashed]_vars
  BY StepJustified DEF Quiet
<1>2. QED BY <1>1, AlwaysColab, PTL DEF Spec, TerminalNeverRoutes

\* A session that still runs keeps its entry, but for a stop of that very session
\* and for a list_kernels that looked before the session was made (_mark_lost).
THEOREM TheLivingAreKept == ASSUME "lookalike" \notin Faults PROVE Spec => OnlyTheDeadAreDropped
<1>1. ColabInv /\ [Next]_vars =>
        [\A s \in Sessions : Dropped(s) /\ vm[s] = "up" =>
           \E a \in Agents :
             /\ cmd'[a] # cmd[a]
             /\ StopOf(a, s) \/ (ListBefore(a, s) /\ BornLate(s))]_vars
  BY StepJustified DEF Justified, Reasons
<1>2. QED BY <1>1, AlwaysColab, PTL DEF Spec, OnlyTheDeadAreDropped
====

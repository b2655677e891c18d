---- MODULE SingleFlightProofs ----
(***************************************************************************)
(* Proofs about the single-flight guard, for any number of kernels, calls, *)
(* identities and pollers.                                                 *)
(***************************************************************************)
EXTENDS SingleFlight, TLAPS

----
\* Updating a flag of a remembered execution leaves a table of records.
LEMMA FlagUpdate ==
  ASSUME lastExec \in [Kernels -> Record], NEW k \in Kernels
  PROVE  /\ [lastExec EXCEPT ![k].replayed = TRUE] \in [Kernels -> Record]
         /\ [lastExec EXCEPT ![k].abandoned = TRUE] \in [Kernels -> Record]
         /\ [lastExec EXCEPT ![k].fresh = FALSE] \in [Kernels -> Record]
<1>1. lastExec[k] \in Record
  OBVIOUS
<1>2. /\ [lastExec[k] EXCEPT !.replayed = TRUE] \in Record
      /\ [lastExec[k] EXCEPT !.abandoned = TRUE] \in Record
      /\ [lastExec[k] EXCEPT !.fresh = FALSE] \in Record
  BY <1>1 DEF Record
<1>3. QED BY <1>2

\* An answered, a waiting and a dropped get_execution are records of their type.
LEMMA PollUpdate ==
  ASSUME NEW q \in Poll, NEW k \in Kernels, NEW want \in MaybeCall,
         NEW of \in MaybeCall,
         NEW answer \in {"none", "running", "finished", "unknown", "nothing"},
         NEW pc \in {"idle", "waiting", "answered"}
  PROVE  /\ [q EXCEPT !.pc = "answered", !.want = want, !.answer = answer, !.of = of] \in Poll
         /\ [q EXCEPT !.pc = "waiting", !.kern = k, !.want = want] \in Poll
         /\ [q EXCEPT !.pc = pc] \in Poll
BY DEF Poll

\* Every variable stays in its type.
LEMMA TypeStep == TypeOK /\ [Next]_vars => TypeOK'
<1> SUFFICES ASSUME TypeOK, [Next]_vars PROVE TypeOK'
  OBVIOUS
<1> USE NoCallAssumption
<1> USE DEF TypeOK, MaybeCall, Live, Finished, Record, Reply, Poll, NoRecord, NoReply,
            args, callVars, guardVars, kernelVars
<1>1. ASSUME NEW c \in Calls, Submit(c) PROVE TypeOK'
  <2>1. CASE Refuse(c) BY <2>1 DEF Refuse, Answer
  <2>2. CASE Replay(c) 
    <3>1. lastExec' \in [Kernels -> Record] BY <2>2, FlagUpdate DEF Replay
    <3>2. lastExec[kern[c]].exec \in MaybeCall BY DEF Record
    <3>3. QED BY <2>2, <3>1, <3>2 DEF Replay, Answer
  <2>3. CASE Claim(c) BY <2>3 DEF Claim
  <2>4. QED BY <1>1, <2>1, <2>2, <2>3 DEF Submit
<1>2. ASSUME NEW c \in Calls, Hear(c) PROVE TypeOK'
  <2>1. CASE Resume(c) BY <2>1 DEF Resume, Answer
  <2>2. CASE SoftDeadline(c) BY <2>2 DEF SoftDeadline, Answer
  <2>3. CASE Cancel(c) 
    <3>1. lastExec' \in [Kernels -> Record]
      BY <2>3, FlagUpdate DEF Cancel, CorrectedRecord
    <3>2. QED BY <2>3, <3>1 DEF Cancel
  <2>4. QED BY <1>2, <2>1, <2>2, <2>3 DEF Hear
<1>3. ASSUME NEW c \in Calls, NEW how \in Finished, Finish(c, how),
             UNCHANGED <<args, callVars, kernelVars, poll>>
      PROVE TypeOK'
  BY <1>3 DEF Finish, Release, Recorded
<1>4. ASSUME NEW c \in Calls, Run(c) PROVE TypeOK'
  <2>1. CASE Route(c) BY <2>1 DEF Route
  <2>2. CASE RouteFails(c) BY <2>2, <1>3 DEF RouteFails
  <2>3. CASE Send(c) BY <2>3 DEF Send
  <2>4. CASE KernelDone(c) BY <2>4 DEF KernelDone
  <2>5. CASE EarlyReturn(c) BY <2>5, <1>3 DEF EarlyReturn
  <2>6. ASSUME NEW how \in Finished, NotSent(c, how) \/ Return(c, how) PROVE TypeOK'
    BY <2>6, <1>3 DEF NotSent, Return
  <2>7. CASE ClientGone(c) BY <2>7, <1>3 DEF ClientGone
  <2>8. QED BY <1>4, <2>1, <2>2, <2>3, <2>4, <2>5, <2>6, <2>7 DEF Run
<1>5. ASSUME NEW k \in Kernels, Manage(k) PROVE TypeOK'
  <2>1. CASE Kill(k) \/ Restart(k)
    <3>1. /\ running' \in [Kernels -> SUBSET Calls]
          /\ severed' \subseteq Calls /\ closing' \subseteq Kernels
      BY <2>1 DEF Kill, Restart, Sweep
    <3>2. kernel' \in [Kernels -> {"up", "killed", "gone", "untracked"}]
      BY <2>1 DEF Kill, Restart
    <3>3. UNCHANGED <<args, callVars, task, guardVars, poll>>
      BY <2>1 DEF Kill, Restart
    <3>4. QED BY <3>1, <3>2, <3>3
  <2>2. CASE MarkLost(k) BY <2>2 DEF MarkLost
  <2>3. CASE Adopt(k) BY <2>3 DEF Adopt
  <2>4. CASE WindowCloses(k) 
    <3>1. lastExec' \in [Kernels -> Record] BY <2>4, FlagUpdate DEF WindowCloses
    <3>2. QED BY <2>4, <3>1 DEF WindowCloses
  <2>5. CASE ForgetKilled(k) BY <2>5 DEF ForgetKilled, Forget
  <2>6. CASE ForgetAlive(k) BY <2>6 DEF ForgetAlive, Forget
  <2>7. CASE ForgetUnknown(k) BY <2>7 DEF ForgetUnknown, Forget
  <2>8. CASE DropClient(k) \/ RequestFails(k)
    <3>1. \A d \in running[k] : d \in Calls OBVIOUS
    <3>2. QED BY <2>8, <3>1 DEF DropClient, RequestFails
  <2>9. QED BY <1>5, <2>1, <2>2, <2>3, <2>4, <2>5, <2>6, <2>7, <2>8 DEF Manage
<1>6. ASSUME NEW p \in Pollers, NEW k \in Kernels, NEW want \in MaybeCall, Report(p, k, want)
      PROVE poll' \in [Pollers -> Poll]
  <2> DEFINE answer == IF Holds(k, want) THEN "running"
                       ELSE IF Remembers(k, want) THEN "finished"
                       ELSE IF want # NoCall THEN "unknown" ELSE "nothing"
             of == IF Holds(k, want) THEN inflight[k]
                   ELSE IF Remembers(k, want) THEN lastExec[k].exec ELSE NoCall
  <2>1. lastExec[k].exec \in MaybeCall
    BY DEF Record
  <2>2. of \in MaybeCall /\ answer \in {"none", "running", "finished", "unknown", "nothing"}
    BY <2>1
  <2>3. poll' = [poll EXCEPT ![p] = [poll[p] EXCEPT !.pc = "answered", !.want = NoCall,
                                     !.answer = answer, !.of = of]]
    BY <1>6 DEF Report
  <2>4. [poll[p] EXCEPT !.pc = "answered", !.want = NoCall,
                        !.answer = answer, !.of = of] \in Poll
    <3>1. poll[p] \in Poll /\ NoCall \in MaybeCall OBVIOUS
    <3> HIDE DEF answer, of, Poll, MaybeCall
    <3>2. QED BY <3>1, <2>2, PollUpdate
  <2>5. QED BY <2>3, <2>4
<1>7. ASSUME NEW p \in Pollers, Ask(p) PROVE TypeOK'
  <2>1. ASSUME NEW k \in Kernels, NEW want \in MaybeCall, PollNow(p, k, want) PROVE TypeOK'
    BY <2>1, <1>6 DEF PollNow
  <2>2. ASSUME NEW k \in Kernels, NEW want \in MaybeCall, PollWait(p, k, want) PROVE TypeOK'
    <3>1. poll[p] \in Poll OBVIOUS
    <3>2. [poll[p] EXCEPT !.pc = "waiting", !.kern = k, !.want = want] \in Poll
      <4> HIDE DEF Poll, MaybeCall
      <4>1. QED BY <3>1, PollUpdate
    <3>3. QED BY <2>2, <3>2 DEF PollWait
  <2>3. CASE PollWake(p) BY <2>3, <1>6 DEF PollWake
  <2>4. QED BY <1>7, <2>1, <2>2, <2>3 DEF Ask
<1>8. CASE McpRestart
  <2>1. \A p \in Pollers : [poll[p] EXCEPT !.pc = IF @ = "waiting" THEN "idle" ELSE @] \in Poll
    <3> TAKE p \in Pollers
    <3>1. poll[p] \in Poll /\ poll[p].pc \in {"idle", "waiting", "answered"} OBVIOUS
    <3>2. QED BY <3>1
  <2>2. poll' \in [Pollers -> Poll] BY <1>8, <2>1 DEF McpRestart
  <2>3. QED BY <1>8, <2>2 DEF McpRestart
<1>9. CASE UNCHANGED vars BY <1>9 DEF vars
<1>10. QED BY <1>1, <1>2, <1>4, <1>5, <1>7, <1>8, <1>9 DEF Next

\* Initially every variable has its type.
LEMMA TypeInit == Init => TypeOK
BY NoCallAssumption DEF Init, TypeOK, MaybeCall, Live, Finished, Record, Reply, Poll,
                        NoRecord, NoReply

\* Type correctness of the guard.
THEOREM TypeCorrect == Spec => []TypeOK
BY TypeInit, TypeStep, PTL DEF Spec

----
(***************************************************************************)
(* The inductive invariant.  ClaimIsLive is inductive by itself; the other *)
(* two parts tie a client's view of a call to its task and to its record,  *)
(* which neither AbandonmentIsRecorded nor ReplayIsOneShot does: a record  *)
(* is written by the task, its abandoned flag by either coroutine.         *)
(***************************************************************************)
CallerInv ==
  \A c \in Calls :
    /\ caller[c] = "idle" => task[c] = "none" /\ reply[c].kind = "none"
    /\ caller[c] = "waiting" => task[c] \in Live \cup Finished
    /\ caller[c] = "gone" => task[c] # "none"
    /\ caller[c] = "gone" /\ task[c] \in Live => c \in abandoned
    /\ c \in abandoned => caller[c] = "gone"
    /\ reply[c].kind \in {"busy", "replay"} => task[c] = "none"

RecordInv ==
  \A k \in Kernels : lastExec[k].exec # NoCall =>
    /\ kern[lastExec[k].exec] = k
    /\ task[lastExec[k].exec] \in Finished
    /\ lastExec[k].abandoned <=> caller[lastExec[k].exec] = "gone"

ReplayInv ==
  \A c \in Calls : reply[c].kind = "replay" =>
    /\ reply[c].exec \in Calls
    /\ lastExec[kern[c]].exec = reply[c].exec => lastExec[kern[c]].replayed

GuardInv == TypeOK /\ ClaimIsLive /\ CallerInv /\ RecordInv /\ ReplayInv /\ ReplayIsOneShot

\* The parts hold initially.
LEMMA GuardInit == Init => GuardInv
<1> SUFFICES ASSUME Init PROVE GuardInv
  OBVIOUS
<1>1. TypeOK BY TypeInit
<1>2. ClaimIsLive /\ CallerInv /\ RecordInv /\ ReplayInv /\ ReplayIsOneShot
  BY DEF Init, ClaimIsLive, CallerInv, RecordInv, ReplayInv, ReplayIsOneShot, NoReply, NoRecord
<1>3. QED BY <1>1, <1>2 DEF GuardInv

\* A task's last step releases its own claim and no other, and records what
\* its client knows.
LEMMA FinishStep ==
  ASSUME GuardInv, TypeOK', NEW c \in Calls, NEW how \in Finished, task[c] \in Live,
         Finish(c, how), UNCHANGED <<args, callVars, kernelVars, poll>>
  PROVE  ClaimIsLive' /\ CallerInv' /\ RecordInv' /\ ReplayInv' /\ ReplayIsOneShot'
<1> USE NoCallAssumption DEF GuardInv, TypeOK, MaybeCall, Finish, args, callVars, Finished, Live
<1>1. ClaimIsLive'
  BY DEF ClaimIsLive, Release
<1>2. CallerInv'
  BY DEF CallerInv
<1>3. lastExec'[kern[c]] = Recorded(c, how)
  OBVIOUS
<1>4. RecordInv'
  <2> SUFFICES ASSUME NEW k \in Kernels, lastExec'[k].exec # NoCall
               PROVE  /\ kern[lastExec'[k].exec] = k
                      /\ task'[lastExec'[k].exec] \in Finished
                      /\ lastExec'[k].abandoned <=> caller[lastExec'[k].exec] = "gone"
    BY DEF RecordInv
  <2>1. CASE k = kern[c]
    <3>1. c \in abandoned <=> caller[c] = "gone"
      BY DEF CallerInv
    <3>2. lastExec'[k].exec = c /\ (lastExec'[k].abandoned <=> c \in abandoned)
      BY <1>3, <2>1 DEF Recorded
    <3>3. task'[c] = how OBVIOUS
    <3>4. QED BY <2>1, <3>1, <3>2, <3>3
  <2>2. CASE k # kern[c]
    <3>1. lastExec'[k] = lastExec[k] /\ lastExec[k].exec \in MaybeCall
      BY <2>2 DEF Record
    <3>2. /\ kern[lastExec[k].exec] = k
          /\ task[lastExec[k].exec] \in Finished
          /\ lastExec[k].abandoned <=> caller[lastExec[k].exec] = "gone"
      BY <3>1 DEF RecordInv
    <3>3. lastExec[k].exec # c
      BY <3>2
    <3>4. QED BY <3>1, <3>2, <3>3
  <2>3. QED BY <2>1, <2>2
<1>5. ReplayInv'
  BY <1>3 DEF ReplayInv, ReplayIsOneShot, Recorded
<1>6. ReplayIsOneShot'
  BY DEF ReplayIsOneShot
<1>7. QED BY <1>1, <1>2, <1>4, <1>5, <1>6

\* A cleanup that empties a kernel's two entries keeps every part.
LEMMA ForgetStep ==
  ASSUME GuardInv, NEW k \in Kernels, NEW to, Forget(k, to)
  PROVE  ClaimIsLive' /\ CallerInv' /\ RecordInv' /\ ReplayInv' /\ ReplayIsOneShot'
BY NoCallAssumption DEF GuardInv, TypeOK, MaybeCall, Forget, args, callVars, NoRecord, ClaimIsLive,
   CallerInv, RecordInv, ReplayInv, ReplayIsOneShot

\* Every step keeps the invariant.
LEMMA GuardStep == GuardInv /\ [Next]_vars => GuardInv'
<1> SUFFICES ASSUME GuardInv, [Next]_vars PROVE GuardInv'
  OBVIOUS
<1>0. TypeOK' BY TypeStep DEF GuardInv
<1> DEFINE Rest == ClaimIsLive /\ CallerInv /\ RecordInv /\ ReplayInv /\ ReplayIsOneShot
<1> USE NoCallAssumption
<1>execs. \A k \in Kernels : lastExec[k] \in Record /\ lastExec[k].exec \in MaybeCall
  BY DEF GuardInv, TypeOK, Record
<1> USE DEF GuardInv, TypeOK, MaybeCall, Live, Finished, args, callVars, guardVars
<1>1. ASSUME NEW c \in Calls, Refuse(c) PROVE Rest'
  <2>1. reply'[c].kind = "busy" /\ \A d \in Calls \ {c} : reply'[d] = reply[d]
    BY <1>1 DEF Refuse, Answer
  <2>2. QED BY <1>1, <2>1 DEF Refuse, Answer, ClaimIsLive, CallerInv, RecordInv, ReplayInv,
                            ReplayIsOneShot
<1>2. ASSUME NEW c \in Calls, Replay(c) PROVE Rest'
  <2> DEFINE k == kern[c]
             e == lastExec[k].exec
  <2>1. /\ e \in Calls /\ kern[e] = k /\ task[e] \in Finished /\ caller[e] = "gone"
        /\ ident[e] = ident[c] /\ ~lastExec[k].replayed /\ e # c
    BY <1>2 DEF Replay, Replayable, RecordInv, Record
  <2>2. /\ reply'[c] = [kind |-> "replay", exec |-> e]
        /\ \A d \in Calls \ {c} : reply'[d] = reply[d]
        /\ caller'[c] = "answered" /\ \A d \in Calls \ {c} : caller'[d] = caller[d]
    BY <1>2 DEF Replay, Answer
  <2>3. /\ \A j \in Kernels : /\ lastExec'[j].exec = lastExec[j].exec
                              /\ lastExec'[j].abandoned = lastExec[j].abandoned
        /\ lastExec'[k].replayed
        /\ \A j \in Kernels : lastExec[j].replayed => lastExec'[j].replayed
    BY <1>2 DEF Replay, Record
  <2>4. \A d \in Calls : reply[d].kind = "replay" => reply[d].exec # e
    BY <2>1 DEF ReplayInv, ReplayIsOneShot
  <2>5. ClaimIsLive' BY <1>2 DEF Replay, ClaimIsLive
  <2>6. CallerInv' BY <1>2, <2>2 DEF Replay, CallerInv
  <2>7. RecordInv'
    BY <1>2, <2>2, <2>3 DEF Replay, RecordInv, Record
  <2>8. ReplayInv' BY <1>2, <2>1, <2>2, <2>3 DEF Replay, ReplayInv
  <2>9. ReplayIsOneShot' BY <1>2, <2>1, <2>2, <2>4 DEF Replay, ReplayIsOneShot
  <2>10. QED BY <2>5, <2>6, <2>7, <2>8, <2>9
<1>3. ASSUME NEW c \in Calls, Claim(c) PROVE Rest'
  <2>1. task[c] = "none"
    BY <1>3 DEF Claim, CallerInv
  <2>2. QED BY <1>3, <2>1 DEF Claim, ClaimIsLive, CallerInv, RecordInv, ReplayInv,
                            ReplayIsOneShot, Record
<1>4. ASSUME NEW c \in Calls, Resume(c) \/ SoftDeadline(c) PROVE Rest'
  <2>1. /\ reply'[c].kind \in {"result", "raised", "still_running"}
        /\ \A d \in Calls \ {c} : reply'[d] = reply[d]
        /\ caller[c] = "waiting" /\ caller' = [caller EXCEPT ![c] = "answered"]
        /\ UNCHANGED <<args, abandoned, task, guardVars, kernelVars, poll>>
    BY <1>4 DEF Resume, SoftDeadline, Answer
  <2>2. ClaimIsLive' /\ CallerInv' BY <2>1 DEF ClaimIsLive, CallerInv
  <2>3. RecordInv' BY <1>execs, <2>1 DEF RecordInv
  <2>4. ReplayInv' BY <2>1 DEF ReplayInv
  <2>5. ReplayIsOneShot' BY <2>1 DEF ReplayIsOneShot
  <2>6. QED BY <2>2, <2>3, <2>4, <2>5
<1>5. ASSUME NEW c \in Calls, Cancel(c) PROVE Rest'
  <2>1. \A k \in Kernels : /\ lastExec'[k].exec = lastExec[k].exec
                           /\ lastExec'[k].replayed = lastExec[k].replayed
                           /\ lastExec'[k].abandoned =
                                IF k = kern[c] /\ lastExec[k].exec = c THEN TRUE
                                ELSE lastExec[k].abandoned
    <3> TAKE k \in Kernels
    <3>1. lastExec' = CorrectedRecord(c) /\ lastExec[k] \in Record
      BY <1>5, <1>execs DEF Cancel
    <3>2. CASE lastExec[kern[c]].exec = c
      <4>1. lastExec' = [lastExec EXCEPT ![kern[c]].abandoned = TRUE]
        BY <3>1, <3>2 DEF CorrectedRecord
      <4>2. CASE k = kern[c] BY <3>1, <3>2, <4>1, <4>2 DEF Record
      <4>3. CASE k # kern[c] BY <4>1, <4>3
      <4>4. QED BY <4>2, <4>3
    <3>3. CASE lastExec[kern[c]].exec # c
      BY <3>1, <3>3 DEF CorrectedRecord
    <3>4. QED BY <3>2, <3>3
  <2>2. /\ caller[c] = "waiting" /\ caller' = [caller EXCEPT ![c] = "gone"]
        /\ abandoned' = abandoned \cup {c}
        /\ UNCHANGED <<args, reply, task, inflight>>
    BY <1>5 DEF Cancel
  <2>3. ClaimIsLive' BY <2>2 DEF ClaimIsLive
  <2>4. CallerInv' BY <2>2 DEF CallerInv
  <2>5. RecordInv'
    <3> SUFFICES ASSUME NEW k \in Kernels, lastExec'[k].exec # NoCall
                 PROVE  /\ kern[lastExec'[k].exec] = k
                        /\ task[lastExec'[k].exec] \in Finished
                        /\ lastExec'[k].abandoned <=> caller'[lastExec'[k].exec] = "gone"
      BY <2>2 DEF RecordInv
    <3> DEFINE e == lastExec[k].exec
    <3>1. e \in Calls /\ lastExec'[k].exec = e /\ kern[e] = k /\ task[e] \in Finished
      BY <1>execs, <2>1, ZenonT(60) DEF RecordInv
    <3>2. lastExec[k].abandoned <=> caller[e] = "gone"
      BY <3>1 DEF RecordInv
    <3>3. CASE e = c BY <2>1, <2>2, <3>1, <3>3
    <3>4. CASE e # c
      <4>1. lastExec'[k].abandoned = lastExec[k].abandoned BY <2>1, <3>4
      <4>2. caller'[e] = caller[e] BY <2>2, <3>1, <3>4
      <4>3. QED BY <3>1, <3>2, <4>1, <4>2
    <3>5. QED BY <3>3, <3>4
  <2>6. ReplayInv' BY <2>1, <2>2 DEF ReplayInv
  <2>7. ReplayIsOneShot' BY <2>2 DEF ReplayIsOneShot
  <2>8. QED BY <2>3, <2>4, <2>5, <2>6, <2>7
<1>6. ASSUME NEW c \in Calls, Run(c) PROVE Rest'
  <2>1. CASE Route(c) \/ Send(c)
    <3>1. /\ task[c] \in Live /\ \E t \in Live : task' = [task EXCEPT ![c] = t]
          /\ UNCHANGED <<args, callVars, guardVars>>
      BY <2>1 DEF Route, Send
    <3>2. QED BY <3>1 DEF ClaimIsLive, CallerInv, RecordInv, ReplayInv, ReplayIsOneShot, Record
  <2>2. CASE RouteFails(c) BY <2>2, <1>0, FinishStep DEF RouteFails
  <2>3. CASE KernelDone(c)
    BY <2>3 DEF KernelDone, ClaimIsLive, CallerInv, RecordInv, ReplayInv, ReplayIsOneShot
  <2>4. CASE EarlyReturn(c) \/ ClientGone(c)
    BY <2>4, <1>0, FinishStep DEF EarlyReturn, ClientGone
  <2>5. ASSUME NEW how \in Finished, NotSent(c, how) \/ Return(c, how) PROVE Rest'
    BY <2>5, <1>0, FinishStep DEF NotSent, Return
  <2>6. QED BY <1>6, <2>1, <2>2, <2>3, <2>4, <2>5 DEF Run
<1>7. ASSUME NEW k \in Kernels, Manage(k) PROVE Rest'
  <2>1. CASE \/ DropClient(k) \/ Kill(k) \/ Restart(k) \/ RequestFails(k)
            \/ MarkLost(k) \/ Adopt(k)
    BY <2>1 DEF DropClient, Kill, Restart, RequestFails, MarkLost, Adopt, ClaimIsLive, CallerInv,
                RecordInv, ReplayInv,
                ReplayIsOneShot
  <2>2. CASE WindowCloses(k)
    <3>1. /\ \A j \in Kernels : /\ lastExec'[j].exec = lastExec[j].exec
                                /\ lastExec'[j].abandoned = lastExec[j].abandoned
                                /\ lastExec'[j].replayed = lastExec[j].replayed
          /\ UNCHANGED <<args, callVars, task, inflight>>
      BY <2>2 DEF WindowCloses, Record
    <3>2. ClaimIsLive' /\ CallerInv' BY <3>1 DEF ClaimIsLive, CallerInv
    <3>3. RecordInv' BY <1>execs, <3>1 DEF RecordInv
    <3>4. ReplayInv' /\ ReplayIsOneShot' BY <3>1 DEF ReplayInv, ReplayIsOneShot
    <3>5. QED BY <3>2, <3>3, <3>4
  <2>3. CASE ForgetKilled(k) \/ ForgetAlive(k) \/ ForgetUnknown(k)
    BY <2>3, ForgetStep DEF ForgetKilled, ForgetAlive, ForgetUnknown
  <2>4. QED BY <1>7, <2>1, <2>2, <2>3 DEF Manage
<1>8. ASSUME NEW p \in Pollers, Ask(p) PROVE Rest'
  <2>1. UNCHANGED <<args, callVars, task, guardVars, kernelVars>>
    BY <1>8 DEF Ask, PollNow, PollWait, PollWake
  <2>2. QED BY <2>1 DEF ClaimIsLive, CallerInv, RecordInv, ReplayInv, ReplayIsOneShot
<1>9. ASSUME McpRestart PROVE Rest'
  <2>1. /\ \A c \in Calls : task'[c] = IF task[c] \in Live THEN "lost" ELSE task[c]
        /\ \A c \in Calls : caller'[c] = IF caller[c] = "waiting" THEN "gone" ELSE caller[c]
        /\ \A k \in Kernels : inflight'[k] = NoCall /\ lastExec'[k].exec = NoCall
        /\ UNCHANGED <<args, reply, abandoned>>
    BY <1>9 DEF McpRestart, NoRecord
  <2>2. ClaimIsLive' /\ RecordInv' BY <2>1 DEF ClaimIsLive, RecordInv
  <2>3. CallerInv' BY <2>1 DEF CallerInv
  <2>4. ReplayInv'
    <3>1. ASSUME NEW c \in Calls, reply[c].kind = "replay"
          PROVE  reply[c].exec \in Calls /\ lastExec'[kern[c]].exec # reply[c].exec
      BY <2>1, <3>1 DEF ReplayInv
    <3>2. QED BY <2>1, <3>1 DEF ReplayInv
  <2>5. ReplayIsOneShot'
    <3>1. \A e \in Calls : (task[e] \in Finished => task'[e] = task[e])
                         /\ (caller[e] = "gone" => caller'[e] = caller[e])
      BY <2>1
    <3>2. QED BY <2>1, <3>1 DEF ReplayIsOneShot
  <2>6. QED BY <2>2, <2>3, <2>4, <2>5
<1>10. ASSUME UNCHANGED vars PROVE Rest'
  BY <1>10 DEF vars, ClaimIsLive, CallerInv, RecordInv, ReplayInv, ReplayIsOneShot
<1>11. Rest'
  BY <1>1, <1>2, <1>3, <1>4, <1>5, <1>6, <1>7, <1>8, <1>9, <1>10 DEF Next, Submit, Hear
<1>12. QED BY <1>0, <1>11

LEMMA GuardInvariant == Spec => []GuardInv
BY GuardInit, GuardStep, PTL DEF Spec

\* No claim outlives its task, under every fault (_release, forget_exec).
THEOREM ClaimsAreLive == Spec => []ClaimIsLive
<1>1. GuardInv => ClaimIsLive BY DEF GuardInv
<1>2. QED BY <1>1, GuardInvariant, PTL

\* A record says its client never saw the result exactly when that is so.
THEOREM AbandonmentRecorded == Spec => []AbandonmentIsRecorded
<1>1. GuardInv => AbandonmentIsRecorded BY DEF GuardInv, RecordInv, AbandonmentIsRecorded
<1>2. QED BY <1>1, GuardInvariant, PTL

\* A result is replayed at most once, and only for a client that got nothing.
THEOREM ReplayOneShot == Spec => []ReplayIsOneShot
<1>1. GuardInv => ReplayIsOneShot BY DEF GuardInv
<1>2. QED BY <1>1, GuardInvariant, PTL

----
(***************************************************************************)
(* Without faults the claim also speaks for the kernel process.  Needed    *)
(* besides the goal: a live task without its claim belongs to a kernel     *)
(* that is gone, where nothing can be sent any more.                       *)
(***************************************************************************)
HoldInv ==
  /\ \A k \in Kernels : kernel[k] # "untracked"
  /\ \A k \in Kernels : \A c \in running[k] :
       /\ kern[c] = k /\ kernel[k] = "up"
       /\ task[c] \in {"sent"} \cup Finished
       /\ inflight[k] = c \/ c \in severed
  /\ \A c \in severed : c \in running[kern[c]] /\ kern[c] \in closing
  /\ \A c \in Calls : task[c] \in Live /\ inflight[kern[c]] # c => kernel[kern[c]] = "gone"

\* A task that ends takes nothing from the kernel's other calls, and leaves
\* nothing of its own there that no stop or restart will sweep.
LEMMA FinishHolds ==
  ASSUME GuardInv, HoldInv, NEW c \in Calls, NEW how \in Finished, task[c] \in Live,
         c \notin running[kern[c]] \/ c \in severed,
         Finish(c, how), UNCHANGED <<args, callVars, kernelVars, poll>>
  PROVE  HoldInv'
BY NoCallAssumption DEF GuardInv, TypeOK, MaybeCall, HoldInv, Finish, Release, args, kernelVars, Live,
                        Finished

LEMMA HoldStep ==
  ASSUME Faults = {}, GuardInv, HoldInv, [Next]_vars PROVE HoldInv'
<1> USE NoCallAssumption
<1> USE DEF GuardInv, TypeOK, MaybeCall, Live, Finished, args, callVars, guardVars, kernelVars
<1>1. ASSUME NEW c \in Calls, Submit(c) PROVE HoldInv'
  <2>1. CASE Refuse(c) \/ Replay(c)
    BY <2>1 DEF Refuse, Replay, Answer, HoldInv
  <2>2. CASE Claim(c)
    BY <2>2 DEF Claim, HoldInv, CallerInv
  <2>3. QED BY <1>1, <2>1, <2>2 DEF Submit
<1>2. ASSUME NEW c \in Calls, Hear(c) PROVE HoldInv'
  <2>1. UNCHANGED <<args, task, inflight, kernelVars>>
    BY <1>2 DEF Hear, Resume, SoftDeadline, Cancel
  <2>2. QED BY <2>1 DEF HoldInv
<1>3. ASSUME NEW c \in Calls, Run(c) PROVE HoldInv'
  <2>1. CASE Route(c) BY <2>1 DEF Route, HoldInv
  <2>2. CASE RouteFails(c)
    <3>1. c \notin running[kern[c]] BY <2>2 DEF RouteFails, HoldInv
    <3>2. QED BY <2>2, <3>1, FinishHolds DEF RouteFails
  <2>3. CASE Send(c)
    <3>1. inflight[kern[c]] = c BY <2>3 DEF Send, HoldInv
    <3>2. QED BY <2>3, <3>1 DEF Send, HoldInv
  <2>4. CASE KernelDone(c) BY <2>4 DEF KernelDone, HoldInv
  <2>5. ASSUME NEW how \in Finished, NotSent(c, how) PROVE HoldInv'
    <3>1. c \notin running[kern[c]] BY <2>5 DEF NotSent, HoldInv
    <3>2. QED BY <2>5, <3>1, FinishHolds DEF NotSent
  <2>6. ASSUME NEW how \in Finished, Return(c, how) PROVE HoldInv'
    BY <2>6, FinishHolds DEF Return
  <2>7. ~EarlyReturn(c) BY DEF EarlyReturn
  <2>8. CASE ClientGone(c) BY <2>8, FinishHolds DEF ClientGone
  <2>9. QED BY <1>3, <2>1, <2>2, <2>3, <2>4, <2>5, <2>6, <2>7, <2>8 DEF Run
<1>4. ASSUME NEW k \in Kernels, Manage(k) PROVE HoldInv'
  <2>1. CASE Kill(k) \/ Restart(k)
    BY <2>1 DEF Kill, Restart, Sweep, HoldInv
  <2>2. CASE MarkLost(k) BY <2>2 DEF MarkLost, HoldInv
  <2>3. ~Adopt(k) BY DEF Adopt, HoldInv
  <2>4. CASE WindowCloses(k) BY <2>4 DEF WindowCloses, HoldInv
  <2>5. CASE ForgetKilled(k) BY <2>5 DEF ForgetKilled, Forget, HoldInv
  <2>6. ~ForgetAlive(k) BY DEF ForgetAlive
  <2>7. CASE ForgetUnknown(k) BY <2>7 DEF ForgetUnknown, Forget, HoldInv
  <2>8. CASE DropClient(k) BY <2>8 DEF DropClient, HoldInv
  <2>9. ~RequestFails(k) BY DEF RequestFails
  <2>10. QED BY <1>4, <2>1, <2>2, <2>3, <2>4, <2>5, <2>6, <2>7, <2>8, <2>9 DEF Manage
<1>5. ASSUME NEW p \in Pollers, Ask(p) PROVE HoldInv'
  <2>1. UNCHANGED <<args, task, inflight, kernelVars>>
    BY <1>5 DEF Ask, PollNow, PollWait, PollWake
  <2>2. QED BY <2>1 DEF HoldInv
<1>6. ~McpRestart BY DEF McpRestart
<1>7. CASE UNCHANGED vars BY <1>7 DEF vars, HoldInv
<1>8. QED BY <1>1, <1>2, <1>3, <1>4, <1>5, <1>6, <1>7 DEF Next

LEMMA HoldInvariant == ASSUME Faults = {} PROVE Spec => []HoldInv
<1>1. Init => HoldInv BY NoCallAssumption DEF Init, HoldInv, Live
<1>2. GuardInv /\ HoldInv /\ [Next]_vars => HoldInv' BY HoldStep
<1>3. QED BY <1>1, <1>2, GuardInvariant, PTL DEF Spec

\* When requests to stop and to restart succeed, a backend returns only once
\* the kernel is done or its client was stopped, and the server does not
\* restart, then what a kernel executes has its claim, or is about to be swept
\* by the stop or restart that took its client.
THEOREM ClaimCovers == ASSUME Faults = {} PROVE Spec => []ClaimCoversExecution
<1>1. HoldInv => ClaimCoversExecution BY DEF HoldInv, ClaimCoversExecution, TypeOK
<1>2. QED BY <1>1, HoldInvariant, PTL

\* So at rest "ONE EXECUTION PER KERNEL" holds: a kernel that no stop or restart
\* is about to sweep never has the code of two calls.
THEOREM OneExecution ==
  ASSUME Faults = {}
  PROVE  Spec => []OneExecutionUnlessClosing
<1>1. TypeOK /\ HoldInv => OneExecutionUnlessClosing
  BY DEF HoldInv, TypeOK, OneExecutionUnlessClosing
<1>2. GuardInv => TypeOK BY DEF GuardInv
<1>3. QED BY <1>1, <1>2, GuardInvariant, HoldInvariant, PTL

----
(***************************************************************************)
(* The guard implements ExecAdmission, under every fault.                  *)
(***************************************************************************)
FateMap == [c \in Calls |-> FateOf(c)]

\* A finishing task is the owner's end, or that of a task disowned before.
LEMMA FinishRefines ==
  ASSUME GuardInv, NEW c \in Calls, NEW how \in Finished, task[c] \in Live,
         Finish(c, how), UNCHANGED <<args, callVars, kernelVars, poll>>
  PROVE  Admission!Next
<1> USE DEF GuardInv, TypeOK, MaybeCall, args, callVars, Live, Finished
<1>1. task' = [task EXCEPT ![c] = how] /\ inflight' = Release(c)
  BY DEF Finish
<1>2. \A d \in Calls : d # c => FateOf(d)' = FateOf(d)
  BY <1>1, NoCallAssumption DEF FateOf, Release, ClaimIsLive
<1>3. FateOf(c)' = "finished"
  BY <1>1 DEF FateOf
<1>4. FateMap' = [FateMap EXCEPT ![c] = "finished"]
  BY <1>2, <1>3 DEF FateMap
<1>5. Recovered' = Recovered
  BY DEF Recovered
<1>6. CASE inflight[kern[c]] = c
  <2>1. FateMap[c] = "executing" BY <1>6 DEF FateOf, FateMap
  <2>2. inflight' = [inflight EXCEPT ![kern[c]] = NoCall] BY <1>1, <1>6 DEF Release
  <2>3. Admission!Finish(kern[c], c)
    BY <1>4, <1>5, <1>6, <2>1, <2>2 DEF Admission!Finish, FateMap
  <2>4. QED BY <2>3 DEF Admission!Next
<1>7. CASE inflight[kern[c]] # c
  <2>1. FateMap[c] = "disowned" BY <1>7 DEF FateOf, FateMap
  <2>2. inflight' = inflight BY <1>1, <1>7 DEF Release
  <2>3. Admission!FinishDisowned(c)
    BY <1>4, <1>5, <2>1, <2>2 DEF Admission!FinishDisowned, FateMap
  <2>4. QED BY <2>3 DEF Admission!Next
<1>8. QED BY <1>6, <1>7

\* stop_kernel's cleanup disowns the kernel's execution, if there is one.
LEMMA ForgetRefines ==
  ASSUME GuardInv, NEW k \in Kernels, NEW to, Forget(k, to)
  PROVE  Admission!Next \/ UNCHANGED Admission!vars
<1> USE DEF GuardInv, TypeOK, MaybeCall, args, callVars, Live, Finished
<1>1. inflight' = [inflight EXCEPT ![k] = NoCall] /\ UNCHANGED <<args, callVars, task>>
  BY DEF Forget
<1>2. Recovered' = Recovered BY <1>1 DEF Recovered
<1>3. CASE inflight[k] = NoCall
  <2>1. inflight' = inflight BY <1>1, <1>3
  <2>2. FateMap' = FateMap BY <1>1, <2>1 DEF FateMap, FateOf
  <2>3. QED BY <1>2, <2>1, <2>2 DEF Admission!vars, FateMap
<1>4. CASE inflight[k] # NoCall
  <2>0. PICK c \in Calls : c = inflight[k]
    BY <1>4
  <2>1. c \in Calls /\ kern[c] = k /\ task[c] \in Live
    BY <1>4, <2>0 DEF ClaimIsLive
  <2>2. \A d \in Calls : d # c => FateOf(d)' = FateOf(d)
    BY <1>1, <2>0, <2>1, NoCallAssumption DEF FateOf
  <2>3. FateOf(c) = "executing" BY <2>0, <2>1 DEF FateOf
  <2>4. FateOf(c)' = "disowned"
    <3>1. /\ task'[c] \in Live /\ kern'[c] = k
          /\ inflight'[k] = NoCall /\ NoCall # c
      BY <1>1, <2>0, <2>1, NoCallAssumption
    <3>2. QED BY <3>1 DEF FateOf
  <2>5. FateMap' = [FateMap EXCEPT ![c] = "disowned"]
    BY <2>1, <2>2, <2>4 DEF FateMap
  <2>6. Admission!Disown(k, c)
    BY <1>1, <1>2, <2>0, <2>1, <2>3, <2>5 DEF Admission!Disown, FateMap
  <2>7. QED BY <2>1, <2>6 DEF Admission!Next
<1>5. QED BY <1>3, <1>4

\* Every step of the guard is a step of ExecAdmission or a stutter.
LEMMA StepRefines ==
  ASSUME GuardInv, [Next]_vars PROVE [Admission!Next]_(Admission!vars)
<1> USE NoCallAssumption
<1> USE DEF GuardInv, TypeOK, MaybeCall, Live, Finished, args, callVars, guardVars
<1>same. ASSUME UNCHANGED <<kern, reply, task, inflight>>
         PROVE  UNCHANGED Admission!vars
  BY <1>same DEF Admission!vars, FateOf, Recovered
<1>1. ASSUME NEW c \in Calls, Refuse(c) PROVE Admission!Next
  <2>1. /\ task[c] = "none" /\ reply[c].kind = "none"
        /\ reply'[c].kind = "busy" /\ \A d \in Calls : d # c => reply'[d] = reply[d]
        /\ UNCHANGED <<kern, task, inflight>>
    BY <1>1 DEF Refuse, Answer, CallerInv
  <2>2. FateMap' = [FateMap EXCEPT ![c] = "refused"] /\ FateMap[c] = "new"
    BY <2>1, ZenonT(60) DEF FateMap, FateOf
  <2>3. Recovered' = Recovered BY <2>1 DEF Recovered
  <2>4. Admission!Refuse(kern[c], c)
    BY <1>1, <2>1, <2>2, <2>3 DEF Admission!Refuse, FateMap, Refuse
  <2>5. QED BY <2>4 DEF Admission!Next
<1>2. ASSUME NEW c \in Calls, Replay(c) PROVE Admission!Next
  <2> DEFINE e == lastExec[kern[c]].exec
  <2>1. e \in Calls /\ kern[e] = kern[c] /\ task[e] \in Finished /\ ~lastExec[kern[c]].replayed
    BY <1>2 DEF Replay, Replayable, RecordInv, Record
  <2>2. /\ task[c] = "none" /\ reply[c].kind = "none"
        /\ reply'[c] = [kind |-> "replay", exec |-> e]
        /\ \A d \in Calls : d # c => reply'[d] = reply[d]
        /\ UNCHANGED <<kern, task, inflight>>
    BY <1>2 DEF Replay, Answer, CallerInv
  <2>3. FateMap' = [FateMap EXCEPT ![c] = "recovered"] /\ FateMap[c] = "new"
    <3> HIDE DEF e
    <3>1. FateOf(c) = "new" /\ FateOf(c)' = "recovered" BY <2>2 DEF FateOf
    <3>2. \A d \in Calls : d # c => FateOf(d)' = FateOf(d) BY <2>2 DEF FateOf
    <3>3. QED BY <3>1, <3>2 DEF FateMap
  <2>4. e \notin Recovered
    BY <2>1 DEF Recovered, ReplayInv, ReplayIsOneShot
  <2>5. Recovered' = Recovered \cup {e}
    BY <2>1, <2>2 DEF Recovered
  <2>6. FateMap[e] = "finished"
    BY <2>1 DEF FateMap, FateOf
  <2>7. Admission!Recover(kern[c], c, e)
    BY <1>2, <2>1, <2>2, <2>3, <2>4, <2>5, <2>6 DEF Admission!Recover, FateMap, Replay
  <2>8. QED BY <2>1, <2>7 DEF Admission!Next
<1>3. ASSUME NEW c \in Calls, Claim(c) PROVE Admission!Next
  <2>1. /\ task[c] = "none" /\ reply[c].kind = "none"
        /\ task' = [task EXCEPT ![c] = "claimed"]
        /\ inflight[kern[c]] = NoCall /\ inflight' = [inflight EXCEPT ![kern[c]] = c]
        /\ UNCHANGED <<kern, reply>>
    BY <1>3 DEF Claim, CallerInv
  <2>2. FateOf(c) = "new" /\ FateOf(c)' = "executing"
    BY <2>1 DEF FateOf
  <2>3. \A d \in Calls : d # c => FateOf(d)' = FateOf(d)
    BY <2>1 DEF FateOf
  <2>4. FateMap' = [FateMap EXCEPT ![c] = "executing"] /\ FateMap[c] = "new"
    BY <2>2, <2>3 DEF FateMap
  <2>5. Recovered' = Recovered BY <2>1 DEF Recovered
  <2>6. Admission!Admit(kern[c], c)
    BY <2>1, <2>4, <2>5 DEF Admission!Admit, FateMap
  <2>7. QED BY <2>6 DEF Admission!Next
<1>4. ASSUME NEW c \in Calls, Hear(c) PROVE UNCHANGED Admission!vars
  <2>1. CASE Cancel(c) BY <2>1, <1>same DEF Cancel
  <2>2. CASE Resume(c) \/ SoftDeadline(c)
    <3>1. /\ task[c] # "none" /\ reply'[c].kind \notin {"busy", "replay"}
          /\ reply[c].kind \notin {"busy", "replay"}
          /\ \A d \in Calls : d # c => reply'[d] = reply[d]
          /\ UNCHANGED <<kern, task, inflight>>
      BY <2>2 DEF Resume, SoftDeadline, Answer, CallerInv
    <3>2. \A d \in Calls : FateOf(d)' = FateOf(d)
      BY <3>1 DEF FateOf
    <3>3. Recovered' = Recovered BY <3>1 DEF Recovered
    <3>4. QED BY <3>1, <3>2, <3>3 DEF Admission!vars
  <2>3. QED BY <1>4, <2>1, <2>2 DEF Hear
<1>5. ASSUME NEW c \in Calls, Run(c) PROVE [Admission!Next]_(Admission!vars)
  <2>1. CASE Route(c) \/ Send(c)
    <3>1. /\ task[c] \in Live /\ \E t \in Live : task' = [task EXCEPT ![c] = t]
          /\ UNCHANGED <<kern, reply, inflight>>
      BY <2>1 DEF Route, Send
    <3>2. \A d \in Calls : FateOf(d)' = FateOf(d)
      BY <3>1 DEF FateOf
    <3>3. Recovered' = Recovered BY <3>1 DEF Recovered
    <3>4. QED BY <3>1, <3>2, <3>3 DEF Admission!vars
  <2>2. CASE RouteFails(c) BY <2>2, FinishRefines DEF RouteFails
  <2>3. CASE KernelDone(c) BY <2>3, <1>same DEF KernelDone
  <2>4. CASE EarlyReturn(c) \/ ClientGone(c)
    BY <2>4, FinishRefines DEF EarlyReturn, ClientGone
  <2>5. ASSUME NEW how \in Finished, NotSent(c, how) \/ Return(c, how)
        PROVE  Admission!Next
    BY <2>5, FinishRefines DEF NotSent, Return
  <2>6. QED BY <1>5, <2>1, <2>2, <2>3, <2>4, <2>5 DEF Run
<1>6. ASSUME NEW k \in Kernels, Manage(k) PROVE [Admission!Next]_(Admission!vars)
  <2>1. CASE \/ DropClient(k) \/ Kill(k) \/ Restart(k) \/ RequestFails(k)
            \/ MarkLost(k) \/ Adopt(k) \/ WindowCloses(k)
    BY <2>1, <1>same DEF DropClient, Kill, Restart, RequestFails, MarkLost, Adopt, WindowCloses
  <2>2. CASE ForgetKilled(k) \/ ForgetAlive(k) \/ ForgetUnknown(k)
    BY <2>2, ForgetRefines DEF ForgetKilled, ForgetAlive, ForgetUnknown
  <2>3. QED BY <1>6, <2>1, <2>2 DEF Manage
<1>7. ASSUME NEW p \in Pollers, Ask(p) PROVE UNCHANGED Admission!vars
  BY <1>7, <1>same DEF Ask, PollNow, PollWait, PollWake
<1>8. ASSUME McpRestart PROVE Admission!Next
  <2>1. /\ \A c \in Calls : task'[c] = IF task[c] \in Live THEN "lost" ELSE task[c]
        /\ inflight' = [k \in Kernels |-> NoCall]
        /\ UNCHANGED <<kern, reply>>
    BY <1>8 DEF McpRestart
  <2>2. \A c \in Calls : FateOf(c)' = IF FateOf(c) \in {"executing", "disowned"} THEN "lost"
                                     ELSE FateOf(c)
    BY <2>1 DEF FateOf
  <2>3. Recovered' = Recovered BY <2>1 DEF Recovered
  <2>4. Admission!Reset BY <2>1, <2>2, <2>3 DEF Admission!Reset
  <2>5. QED BY <2>4 DEF Admission!Next
<1>9. CASE UNCHANGED vars BY <1>9, <1>same DEF vars
<1>10. QED
  BY <1>1, <1>2, <1>3, <1>4, <1>5, <1>6, <1>7, <1>8, <1>9 DEF Next, Submit

\* The guard keeps the admission contract under every fault.
THEOREM GuardImplementsAdmission == Spec => AdmissionSpec
<1>1. Init => Admission!Init
  BY DEF Init, Admission!Init, FateOf, Recovered, Live, Finished, NoReply
<1>2. GuardInv /\ [Next]_vars => [Admission!Next]_(Admission!vars)
  BY StepRefines
<1>3. QED BY <1>1, <1>2, GuardInvariant, PTL DEF Spec, AdmissionSpec, Admission!Spec

----
(***************************************************************************)
(* What no step of the guard may do.                                       *)
(***************************************************************************)
\* A claim goes with its task's last step, with a cleanup, or with the process
\* (_release, forget_exec).
LEMMA ClaimStep == GuardInv /\ [Next]_vars => KeepsLiveClaims
<1> SUFFICES ASSUME GuardInv, [Next]_vars, NEW k \in Kernels,
                    inflight[k] # NoCall, inflight'[k] # inflight[k]
             PROVE  \/ task'[inflight[k]] \notin Live
                    \/ /\ inflight'[k] = NoCall /\ lastExec'[k] = NoRecord
                       /\ kernel[k] # "up" \/ "stop_fails" \in Faults
  BY DEF KeepsLiveClaims
<1> USE NoCallAssumption DEF GuardInv, TypeOK, MaybeCall, guardVars
<1>1. ASSUME NEW c \in Calls, Submit(c) PROVE FALSE
  BY <1>1 DEF Submit, Refuse, Replay, Claim
<1>2. ASSUME NEW c \in Calls, Hear(c) PROVE FALSE
  BY <1>2 DEF Hear, Resume, SoftDeadline, Cancel
<1>3. ASSUME NEW c \in Calls, NEW how \in Finished, Finish(c, how)
      PROVE  task'[inflight[k]] \notin Live
  <2>1. inflight[k] = c
    BY <1>3 DEF Finish, Release
  <2>2. task'[c] = how
    BY <1>3 DEF Finish
  <2>3. QED BY <2>1, <2>2 DEF Live, Finished
<1>4. ASSUME NEW c \in Calls, Run(c) PROVE task'[inflight[k]] \notin Live
  <2>1. CASE Route(c) \/ Send(c) \/ KernelDone(c) BY <2>1 DEF Route, Send, KernelDone
  <2>2. CASE RouteFails(c) \/ EarlyReturn(c) \/ ClientGone(c)
    BY <2>2, <1>3 DEF RouteFails, EarlyReturn, ClientGone, Finished
  <2>3. ASSUME NEW how \in Finished, NotSent(c, how) \/ Return(c, how)
        PROVE  task'[inflight[k]] \notin Live
    BY <2>3, <1>3 DEF NotSent, Return
  <2>4. QED BY <1>4, <2>1, <2>2, <2>3 DEF Run
<1>5. ASSUME NEW j \in Kernels, Manage(j)
      PROVE  /\ inflight'[k] = NoCall /\ lastExec'[k] = NoRecord
             /\ kernel[k] # "up" \/ "stop_fails" \in Faults
  <2>1. CASE \/ DropClient(j) \/ Kill(j) \/ Restart(j) \/ RequestFails(j)
            \/ MarkLost(j) \/ Adopt(j) \/ WindowCloses(j)
    BY <2>1 DEF DropClient, Kill, Restart, RequestFails, MarkLost, Adopt, WindowCloses
  <2>2. ASSUME NEW to, Forget(j, to) PROVE j = k /\ inflight'[k] = NoCall /\ lastExec'[k] = NoRecord
    BY <2>2 DEF Forget
  <2>3. QED BY <1>5, <2>1, <2>2 DEF Manage, ForgetKilled, ForgetAlive, ForgetUnknown
<1>6. ASSUME NEW p \in Pollers, Ask(p) PROVE FALSE
  BY <1>6 DEF Ask, PollNow, PollWait, PollWake
<1>7. ASSUME McpRestart PROVE task'[inflight[k]] \notin Live
  BY <1>7 DEF McpRestart, Live
<1>8. CASE UNCHANGED vars BY <1>8 DEF vars
<1>9. QED BY <1>1, <1>2, <1>4, <1>5, <1>6, <1>7, <1>8 DEF Next

\* The claim of a live task is never handed to another call; only the cleanup
\* of a stop gives it up, which finds the kernel gone unless a stop failed.
THEOREM ClaimsAreKept == Spec => ClaimKeptWhileLive
<1>1. GuardInv /\ [Next]_vars => [KeepsLiveClaims]_vars BY ClaimStep
<1>2. QED BY <1>1, GuardInvariant, PTL DEF Spec, ClaimKeptWhileLive

\* A record says it was replayed only if a call got it (_take_replay).
ReplayedInv ==
  \A k \in Kernels : lastExec[k].replayed =>
    \E e \in Calls : reply[e].kind = "replay" /\ reply[e].exec = lastExec[k].exec

\* Every step keeps this: an answer is given once.
LEMMA ReplayedStep == GuardInv /\ ReplayedInv /\ [Next]_vars => ReplayedInv'
<1> SUFFICES ASSUME GuardInv, ReplayedInv, [Next]_vars, NEW k \in Kernels, lastExec'[k].replayed
             PROVE  \E e \in Calls : reply'[e].kind = "replay" /\ reply'[e].exec = lastExec'[k].exec
  BY DEF ReplayedInv
<1> USE DEF GuardInv, TypeOK, guardVars, callVars
<1> DEFINE Kept == lastExec[k].replayed /\ lastExec'[k].exec = lastExec[k].exec
           Stays == \A e \in Calls : reply[e].kind = "replay" => reply'[e] = reply[e]
<1>1. ASSUME Kept, Stays
      PROVE  \E e \in Calls : reply'[e].kind = "replay" /\ reply'[e].exec = lastExec'[k].exec
  BY <1>1 DEF ReplayedInv
<1>2. ASSUME NEW c \in Calls, NEW kind, NEW e, Answer(c, kind, e), caller[c] \in {"idle", "waiting"}
      PROVE  Stays
  BY <1>2 DEF Answer, CallerInv, Live, Finished
<1> HIDE DEF Kept, Stays
<1>3. lastExec' = lastExec /\ reply' = reply => Kept /\ Stays
  BY DEF Kept, Stays
<1>4. ASSUME NEW c \in Calls, Submit(c)
      PROVE  \E e \in Calls : reply'[e].kind = "replay" /\ reply'[e].exec = lastExec'[k].exec
  <2>1. CASE Refuse(c)
    BY <1>1, <1>2, <2>1 DEF Refuse, Kept
  <2>2. CASE Claim(c)
    BY <1>1, <1>3, <2>2 DEF Claim
  <2>3. CASE Replay(c)
    <3>1. Stays BY <1>2, <2>3 DEF Replay
    <3>2. CASE k = kern[c]
      <4>1. reply'[c] = [kind |-> "replay", exec |-> lastExec[k].exec]
        BY <2>3, <3>2 DEF Replay, Answer
      <4>2. lastExec'[k].exec = lastExec[k].exec
        BY <2>3, <3>2 DEF Replay, Record
      <4>3. QED BY <4>1, <4>2
    <3>3. CASE k # kern[c]
      <4>1. Kept BY <2>3, <3>3 DEF Replay, Kept
      <4>2. QED BY <1>1, <3>1, <4>1
    <3>4. QED BY <3>2, <3>3
  <2>4. QED BY <1>4, <2>1, <2>2, <2>3 DEF Submit
<1>5. ASSUME NEW c \in Calls, Hear(c)
      PROVE  \E e \in Calls : reply'[e].kind = "replay" /\ reply'[e].exec = lastExec'[k].exec
  <2>1. CASE Resume(c) \/ SoftDeadline(c)
    BY <1>1, <1>2, <2>1 DEF Resume, SoftDeadline, Kept
  <2>2. CASE Cancel(c)
    <3>1. Stays BY <2>2 DEF Cancel, Stays
    <3>2. Kept BY <2>2 DEF Cancel, CorrectedRecord, Record, Kept
    <3>3. QED BY <1>1, <3>1, <3>2
  <2>3. QED BY <1>5, <2>1, <2>2 DEF Hear
<1>6. ASSUME NEW c \in Calls, NEW how, Finish(c, how), UNCHANGED callVars
      PROVE  Kept /\ Stays
  BY <1>6 DEF Finish, Recorded, Kept, Stays
<1>7. ASSUME NEW c \in Calls, Run(c) PROVE Kept /\ Stays
  <2>1. CASE Route(c) \/ Send(c) \/ KernelDone(c)
    BY <1>3, <2>1 DEF Route, Send, KernelDone
  <2>2. CASE RouteFails(c) \/ EarlyReturn(c) \/ ClientGone(c)
    BY <2>2, <1>6 DEF RouteFails, EarlyReturn, ClientGone
  <2>3. ASSUME NEW how \in Finished, NotSent(c, how) \/ Return(c, how) PROVE Kept /\ Stays
    BY <2>3, <1>6 DEF NotSent, Return
  <2>4. QED BY <1>7, <2>1, <2>2, <2>3 DEF Run
<1>8. ASSUME NEW j \in Kernels, Manage(j) PROVE Kept /\ Stays
  <2>1. CASE \/ DropClient(j) \/ Kill(j) \/ Restart(j) \/ RequestFails(j)
            \/ MarkLost(j) \/ Adopt(j)
    BY <1>3, <2>1 DEF DropClient, Kill, Restart, RequestFails, MarkLost, Adopt
  <2>2. CASE WindowCloses(j)
    BY <2>2 DEF WindowCloses, Record, Kept, Stays
  <2>3. ASSUME NEW to, Forget(j, to) PROVE Kept /\ Stays
    BY <2>3 DEF Forget, NoRecord, Kept, Stays
  <2>4. QED BY <1>8, <2>1, <2>2, <2>3 DEF Manage, ForgetKilled, ForgetAlive, ForgetUnknown
<1>9. ASSUME NEW p \in Pollers, Ask(p) PROVE Kept /\ Stays
  BY <1>3, <1>9 DEF Ask, PollNow, PollWait, PollWake
<1>10. CASE McpRestart BY <1>10 DEF McpRestart, NoRecord
<1>11. CASE UNCHANGED vars BY <1>1, <1>3, <1>11 DEF vars
<1>12. QED
  BY <1>1, <1>4, <1>5, <1>7, <1>8, <1>9, <1>10, <1>11 DEF Next

\* Only Claim makes a task, and it asks for a replay first.
LEMMA ResendStep == GuardInv /\ ReplayedInv /\ [Next]_vars => StartsNoResend
<1> SUFFICES ASSUME GuardInv, ReplayedInv, [Next]_vars, NEW c \in Calls, NEW d \in Calls,
                    Resends(d, c), task[d] = "none", task'[d] = "claimed"
             PROVE  FALSE
  BY DEF StartsNoResend
<1> USE NoCallAssumption DEF GuardInv, TypeOK, MaybeCall, guardVars
<1>1. Replayable(kern[d], ident[d])
  <2>1. ~lastExec[kern[c]].replayed BY DEF Resends, ReplayedInv
  <2>2. lastExec[kern[c]].abandoned BY DEF Resends, RecordInv
  <2>3. QED BY <2>1, <2>2 DEF Resends, Replayable
<1>2. ASSUME NEW b \in Calls, Submit(b) PROVE FALSE
  <2>1. b = d /\ Claim(b)
    BY <1>2 DEF Submit, Refuse, Replay, Claim
  <2>2. QED BY <1>1, <2>1 DEF Claim
<1>3. ASSUME NEW b \in Calls, Hear(b) PROVE FALSE
  BY <1>3 DEF Hear, Resume, SoftDeadline, Cancel
<1>4. ASSUME NEW b \in Calls, Run(b) PROVE FALSE
  BY <1>4 DEF Run, Route, RouteFails, Send, KernelDone, ClientGone, EarlyReturn, NotSent, Return, Finish, Finished
<1>5. ASSUME NEW k \in Kernels, Manage(k) PROVE FALSE
  BY <1>5 DEF Manage, DropClient, Kill, Restart, RequestFails, MarkLost, Adopt, WindowCloses, ForgetKilled, ForgetAlive, ForgetUnknown,
              Forget
<1>6. ASSUME NEW p \in Pollers, Ask(p) PROVE FALSE
  BY <1>6 DEF Ask, PollNow, PollWait, PollWake
<1>7. CASE McpRestart BY <1>7 DEF McpRestart, Live
<1>8. CASE UNCHANGED vars BY <1>8 DEF vars
<1>9. QED BY <1>2, <1>3, <1>4, <1>5, <1>6, <1>7, <1>8 DEF Next

\* A blind resend executes nothing, under every fault.
THEOREM BlindResend == Spec => BlindResendRunsNothing
<1>1. Init => ReplayedInv BY DEF Init, ReplayedInv, NoRecord
<1>2. GuardInv /\ ReplayedInv /\ [Next]_vars => ReplayedInv' BY ReplayedStep
<1>3. GuardInv /\ ReplayedInv /\ [Next]_vars => [StartsNoResend]_vars BY ResendStep
<1>4. QED BY <1>1, <1>2, <1>3, GuardInvariant, PTL DEF Spec, BlindResendRunsNothing

\* A poll reads the claim and the record in one step with its answer.
LEMMA PollStep == GuardInv /\ [Next]_vars => AnswersTruly
<1> SUFFICES ASSUME GuardInv, [Next]_vars, NEW p \in Pollers,
                    poll[p].pc # "answered", poll'[p].pc = "answered"
             PROVE  /\ poll'[p].answer = "running" => task[poll'[p].of] \in Live
                    /\ poll'[p].answer = "finished" => task[poll'[p].of] \in Finished
  BY DEF AnswersTruly
<1> USE NoCallAssumption DEF GuardInv, TypeOK, MaybeCall
<1>1. ASSUME NEW k \in Kernels, NEW want \in MaybeCall, Report(p, k, want)
      PROVE  /\ poll'[p].answer = "running" => task[poll'[p].of] \in Live
             /\ poll'[p].answer = "finished" => task[poll'[p].of] \in Finished
  <2> DEFINE answer == IF Holds(k, want) THEN "running"
                       ELSE IF Remembers(k, want) THEN "finished"
                       ELSE IF want # NoCall THEN "unknown" ELSE "nothing"
             of == IF Holds(k, want) THEN inflight[k]
                   ELSE IF Remembers(k, want) THEN lastExec[k].exec ELSE NoCall
  <2>1. poll[p] \in Poll OBVIOUS
  <2>2. poll'[p].answer = answer /\ poll'[p].of = of
    BY <1>1, <2>1 DEF Report, Poll
  <2>3. answer = "running" => Holds(k, want)
    OBVIOUS
  <2>4. answer = "finished" => ~Holds(k, want) /\ Remembers(k, want)
    OBVIOUS
  <2>5. Holds(k, want) => task[of] \in Live
    BY DEF Holds, ClaimIsLive
  <2>6. ~Holds(k, want) /\ Remembers(k, want) => task[of] \in Finished
    BY DEF Remembers, RecordInv
  <2>7. QED BY <2>2, <2>3, <2>4, <2>5, <2>6
<1>2. ASSUME NEW c \in Calls, Submit(c) \/ Hear(c) PROVE FALSE
  BY <1>2 DEF Submit, Refuse, Replay, Claim, Hear, Resume, SoftDeadline, Cancel
<1>3. ASSUME NEW c \in Calls, Run(c) PROVE FALSE
  BY <1>3 DEF Run, Route, RouteFails, Send, KernelDone, ClientGone, EarlyReturn, NotSent, Return
<1>4. ASSUME NEW k \in Kernels, Manage(k) PROVE FALSE
  BY <1>4 DEF Manage, DropClient, Kill, Restart, RequestFails, MarkLost, Adopt, WindowCloses, ForgetKilled, ForgetAlive, ForgetUnknown,
              Forget
<1>5. ASSUME NEW q \in Pollers, Ask(q)
      PROVE  /\ poll'[p].answer = "running" => task[poll'[p].of] \in Live
             /\ poll'[p].answer = "finished" => task[poll'[p].of] \in Finished
  <2>1. ASSUME NEW k \in Kernels, NEW want \in MaybeCall, PollWait(q, k, want) PROVE FALSE
    BY <2>1 DEF PollWait, Poll
  <2>2. ASSUME NEW k \in Kernels, NEW want \in MaybeCall, Report(q, k, want) PROVE q = p
    BY <2>2 DEF Report
  <2>3. ASSUME NEW k \in Kernels, NEW want \in MaybeCall, PollNow(q, k, want)
        PROVE  Report(p, k, want)
    <3>1. Report(q, k, want) BY <2>3 DEF PollNow
    <3>2. q = p BY <2>2, <3>1
    <3>3. QED BY <3>1, <3>2
  <2>4. CASE PollWake(q)
    <3>1. poll[q].kern \in Kernels /\ poll[q].want \in MaybeCall BY DEF Poll
    <3>2. Report(q, poll[q].kern, poll[q].want) BY <2>4 DEF PollWake
    <3>3. q = p BY <2>2, <3>1, <3>2
    <3>4. QED BY <1>1, <3>1, <3>2, <3>3
  <2>5. QED BY <1>1, <1>5, <2>1, <2>3, <2>4 DEF Ask
<1>6. CASE McpRestart BY <1>6 DEF McpRestart, Poll
<1>7. CASE UNCHANGED vars BY <1>7 DEF vars
<1>8. QED BY <1>2, <1>3, <1>4, <1>5, <1>6, <1>7 DEF Next

\* get_execution never reports an execution that ended as running, nor one that
\* runs as ended.
THEOREM PollsAreCurrent == Spec => PollIsCurrent
<1>1. GuardInv /\ [Next]_vars => [AnswersTruly]_vars BY PollStep
<1>2. QED BY <1>1, GuardInvariant, PTL DEF Spec, PollIsCurrent
====

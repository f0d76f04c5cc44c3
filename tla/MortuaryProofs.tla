---------------------------- MODULE MortuaryProofs ----------------------------
(***************************************************************************)
(* For every number of CPUs and tasks: the two lists of the mortuary keep  *)
(* a task alive as long as a CPU buffer refers to it.                      *)
(***************************************************************************)
EXTENDS Mortuary, TLAPS

(* Every variable keeps its type, and a task is on one list at a time.     *)
THEOREM TypeCorrect == Spec => []TypeOK
<1> USE MortuaryAssumption
<1>1. Init => TypeOK
  BY DEF Init, TypeOK
<1>2. TypeOK /\ [Next]_vars => TypeOK'
  <2> SUFFICES ASSUME TypeOK, [Next]_vars PROVE TypeOK'
    OBVIOUS
  <2> USE DEF TypeOK
  <2>1. CASE StartWork \/ Register \/ RegisterFails \/ StartStop \/ Unregister \/ EndCpuWork
    BY <2>1 DEF StartWork, Register, RegisterFails, StartStop, Unregister, EndCpuWork,
                taskVars, ringVars, cpuVars
  <2>2. CASE EndSync \/ FreeCpuBuffers
    BY <2>2 DEF EndSync, FreeCpuBuffers, ProcessTaskMortuary, taskVars, ringVars, cpuVars
  <2>3. CASE MarkDone
    BY <2>3 DEF MarkDone, ProcessTaskMortuary, cpuVars
  <2>4. ASSUME NEW c \in CPUs, NEW t \in Tasks, Sample(c, t) PROVE TypeOK'
    BY <2>4 DEF Sample, taskVars, cpuVars
  <2>5. ASSUME NEW t \in Tasks, TaskFree(t) PROVE TypeOK'
    <3>1. direct' \in BOOLEAN
      <4>1. (direct \/ Referenced(t)) \in BOOLEAN
        OBVIOUS
      <4> QED
        BY <2>5, <4>1 DEF TaskFree
    <3> QED
      BY <2>5, <3>1 DEF TaskFree, ringVars, cpuVars
  <2>6. ASSUME NEW c \in CPUs, BeginSync(c) PROVE TypeOK'
    BY <2>6 DEF BeginSync, taskVars, cpuVars
  <2>7. ASSUME NEW c \in CPUs, WorkerGivesUp(c) PROVE TypeOK'
    BY <2>7 DEF WorkerGivesUp, taskVars, ringVars, cpuVars
  <2>8. ASSUME NEW c \in CPUs, Offline(c) \/ Online(c) PROVE TypeOK'
    <3>1. unplugged' \in BOOLEAN
      BY <2>8 DEF Offline, Online
    <3> QED
      BY <2>8, <3>1 DEF Offline, Online, taskVars, ringVars
  <2>9. CASE UNCHANGED vars
    BY <2>9 DEF vars, taskVars, ringVars, cpuVars
  <2> QED
    BY <2>1, <2>2, <2>3, <2>4, <2>5, <2>6, <2>7, <2>8, <2>9
       DEF Next, WorkerSync, NotifierSync
<1> QED
  BY <1>1, <1>2, PTL DEF Spec

-----------------------------------------------------------------------------
(* A sync after end_cpu_work() is of a late item; the lists are empty from *)
(* the second process_task_mortuary() of end_sync() until the notifiers    *)
(* are registered.                                                         *)
WorkInPhase ==
  /\ sampling => phase = "on"
  /\ phase \in {"flushed", "emptying", "emptied", "off"} /\ syncing # NoCpu => late
  /\ phase \in {"emptying", "emptied", "off", "working"} => dying = {}
  /\ phase \in {"emptied", "off", "working"} => dead = {}
  /\ syncing = NoCpu => batch = {}

(* No buffer refers to a freed task; a marked CPU, one that is being       *)
(* synced and one that is offline holds no task of dead_tasks.             *)
RefsAlive ==
  /\ ~late => batch \cap freed = {}
  /\ ~late /\ syncing \in marked => batch \cap dead = {}
  /\ \A c \in CPUs :
       /\ phase \notin {"flushed", "emptying", "emptied"}
            => /\ refs[c] \cap freed = {}
               /\ c \in marked \/ c = syncing => refs[c] \cap dead = {}
       /\ c \notin online => refs[c] = {}

IInv == TypeOK /\ WorkInPhase /\ (~direct /\ ~unplugged => RefsAlive)

(* The inductive invariant.                                                *)
THEOREM Inductive == Spec => []IInv
<1> USE MortuaryAssumption
<1>1. Init => IInv
  BY DEF Init, IInv, TypeOK, WorkInPhase, RefsAlive
<1>2. IInv /\ TypeOK' /\ [Next]_vars => IInv'
  <2> SUFFICES ASSUME IInv, TypeOK', [Next]_vars
               PROVE  WorkInPhase' /\ (~direct' /\ ~unplugged' => RefsAlive')
    BY DEF IInv
  <2> USE DEF IInv
  <2>1. CASE StartWork \/ Register \/ RegisterFails \/ StartStop \/ Unregister
    <3> USE <2>1 DEF StartWork, Register, RegisterFails, StartStop, Unregister
    <3>1. WorkInPhase'
      BY DEF TypeOK, WorkInPhase, taskVars, ringVars
    <3>2. UNCHANGED << taskVars, ringVars, cpuVars, direct >>
      OBVIOUS
    <3>3. /\ phase \notin {"flushed", "emptying", "emptied"}
          /\ phase' \notin {"flushed", "emptying", "emptied"}
      OBVIOUS
    <3> QED
      BY <3>1, <3>2, <3>3 DEF RefsAlive, taskVars, ringVars, cpuVars
  <2>2. CASE EndCpuWork
    BY <2>2 DEF EndCpuWork, TypeOK, WorkInPhase, RefsAlive, taskVars, ringVars, cpuVars
  <2>3. CASE EndSync
    BY <2>3 DEF EndSync, ProcessTaskMortuary, TypeOK, WorkInPhase, RefsAlive, ringVars, cpuVars
  <2>12. CASE FreeCpuBuffers
    BY <2>12 DEF FreeCpuBuffers, TypeOK, WorkInPhase, RefsAlive, taskVars, cpuVars
  <2>4. CASE MarkDone
    <3> USE <2>4 DEF MarkDone
    <3>1. WorkInPhase'
      BY DEF WorkInPhase, ProcessTaskMortuary
    <3>2. ASSUME ~direct', ~unplugged' PROVE RefsAlive'
      <4>0. RefsAlive /\ syncing \in CPUs /\ UNCHANGED << phase, refs, late, online >>
        BY <3>2 DEF TypeOK, cpuVars
      <4>1. CASE online \subseteq marked \cup {syncing}
        <5>1. phase \notin {"flushed", "emptying", "emptied"}
                => \A c \in CPUs : refs[c] \cap dead = {}
          BY <4>0, <4>1 DEF RefsAlive
        <5> QED
          BY <4>0, <4>1, <5>1 DEF RefsAlive, ProcessTaskMortuary
      <4>2. CASE ~(online \subseteq marked \cup {syncing})
        BY <4>0, <4>2 DEF RefsAlive, TypeOK
      <4> QED
        BY <4>1, <4>2
    <3> QED
      BY <3>1, <3>2
  <2>5. ASSUME NEW c \in CPUs, NEW t \in Tasks, Sample(c, t)
        PROVE  WorkInPhase' /\ (~direct' /\ ~unplugged' => RefsAlive')
    BY <2>5 DEF Sample, TypeOK, WorkInPhase, RefsAlive, taskVars, cpuVars
  <2>6. ASSUME NEW t \in Tasks, TaskFree(t)
        PROVE  WorkInPhase' /\ (~direct' /\ ~unplugged' => RefsAlive')
    <3> USE <2>6 DEF TaskFree
    <3>1. WorkInPhase'
      BY DEF WorkInPhase, ringVars
    <3>2. ASSUME ~direct', ~unplugged' PROVE RefsAlive'
      <4>0. /\ RefsAlive
            /\ UNCHANGED << phase, dead, refs, syncing, batch, late, marked, online >>
        <5>1. ~direct /\ ~unplugged
          BY <3>2 DEF TypeOK, cpuVars
        <5> QED
          BY <5>1 DEF ringVars, cpuVars
      <4>1. CASE phase = "on"
        BY <4>0, <4>1 DEF RefsAlive
      <4>2. CASE phase # "on"
        <5>1. freed' = freed \cup {t} /\ direct' = (direct \/ Referenced(t))
          BY <4>2
        <5>2. ~Referenced(t)
          BY <3>2, <5>1, Zenon
        <5>3. t \notin batch /\ \A c \in CPUs : t \notin refs[c]
          BY <5>2 DEF Referenced
        <5> QED
          BY <4>0, <5>1, <5>3 DEF RefsAlive
      <4> QED
        BY <4>1, <4>2
    <3> QED
      BY <3>1, <3>2
  <2>7. ASSUME NEW c \in CPUs, WorkerSync(c) \/ NotifierSync(c)
        PROVE  WorkInPhase' /\ (~direct' /\ ~unplugged' => RefsAlive')
    <3>0. BeginSync(c) /\ phase # "off"
      BY <2>7 DEF WorkerSync, NotifierSync
    <3> QED
      BY <3>0 DEF BeginSync, TypeOK, WorkInPhase, RefsAlive, taskVars, cpuVars
  <2>8. ASSUME NEW c \in CPUs, WorkerGivesUp(c)
        PROVE  WorkInPhase' /\ (~direct' /\ ~unplugged' => RefsAlive')
    BY <2>8 DEF WorkerGivesUp, WorkInPhase, RefsAlive, taskVars, ringVars, cpuVars
  <2>9. ASSUME NEW c \in CPUs, Offline(c) \/ Online(c)
        PROVE  WorkInPhase' /\ (~direct' /\ ~unplugged' => RefsAlive')
    BY <2>9 DEF Offline, Online, TypeOK, WorkInPhase, RefsAlive, taskVars, ringVars
  <2>10. CASE UNCHANGED vars
    BY <2>10 DEF vars, WorkInPhase, RefsAlive, taskVars, ringVars, cpuVars
  <2> QED
    BY <2>1, <2>2, <2>3, <2>4, <2>5, <2>6, <2>7, <2>8, <2>9, <2>10, <2>12 DEF Next
<1> QED
  BY <1>1, <1>2, TypeCorrect, PTL DEF Spec

(* sync_buffer() never follows a pointer to a freed task, but for the      *)
(* three exceptions.                                                       *)
THEOREM NeverFollowsFreed == Spec => []NoUseAfterFree
<1>1. IInv => NoUseAfterFree
  BY DEF IInv, RefsAlive, NoUseAfterFree, NoFreedTaskFollowed, TypeOK
<1> QED
  BY <1>1, Inductive, PTL

(* A CPU that was synced since dead_tasks was filled holds none of it.     *)
THEOREM MarkedAreClean == Spec => []MarkedHoldNoDead
<1>1. IInv => MarkedHoldNoDead
  BY DEF IInv, RefsAlive, MarkedHoldNoDead, TypeOK
<1> QED
  BY <1>1, Inductive, PTL
=============================================================================

------------------------------ MODULE OprofProofs ------------------------------
(***************************************************************************)
(* For every number of CPUs and every ring size: what a session promises.  *)
(* The first two theorems hold with any number of clients, the others with *)
(* one at a time: OprofTwoClients.cfg shows that they need it.             *)
(***************************************************************************)
EXTENDS Oprof, TLAPS

(* Every variable keeps its type; interrupts are on only on CPUs that are  *)
(* there.                                                                  *)
THEOREM TypeCorrect == Spec => []TypeOK
<1> USE DEF clientVars, sectionVars, opsVars, flagVars, bufferVars, workVars, cpuVars, Ops
<1>0. RingSize \in Nat /\ [c \in CPUs |-> 0] \in [CPUs -> 0 .. RingSize]
  BY OprofAssumption
<1>1. Init => TypeOK
  BY <1>0 DEF Init, TypeOK
<1>2. TypeOK /\ [Next]_vars => TypeOK'
  <2> SUFFICES ASSUME TypeOK, [Next]_vars PROVE TypeOK'
    OBVIOUS
  <2> USE DEF TypeOK, At
  <2>1. CASE Open \/ ReleaseStop \/ Shutdown
    <3>1. CASE Open
      BY <3>1 DEF Open
    <3>2. CASE ReleaseStop
      BY <3>2 DEF ReleaseStop, BeginStop, OpsStop
    <3>3. CASE Shutdown
      BY <3>3 DEF Shutdown
    <3> QED
      BY <2>1, <3>1, <3>2, <3>3
  <2>2. CASE Start
    BY <2>2 DEF Start, OpsStart
  <2>14. CASE Stop \/ Adapt
    <3>1. CASE Stop
      BY <3>1 DEF Stop, BeginStop, OpsStop
    <3>2. CASE Adapt
      BY <3>2 DEF Adapt, OpsStop
    <3> QED
      BY <2>14, <3>1, <3>2
  <2>3. CASE TimerWriteCheck \/ TimerWriteSet
    <3>1. CASE TimerWriteCheck
      BY <3>1 DEF TimerWriteCheck
    <3>2. CASE TimerWriteSet
      BY <3>2 DEF TimerWriteSet
    <3> QED
      BY <2>3, <3>1, <3>2
  <2>4. CASE Alloc
    <3> DEFINE inUse == \E c \in CPUs : work[c] # "idle"
    <3>1. inUse \in BOOLEAN
      OBVIOUS
    <3>2. oops' \in {FALSE, inUse}
      BY <2>4 DEF Alloc
    <3>3. oops' \in BOOLEAN
      BY <3>1, <3>2
    <3>4. /\ allocated' \in BOOLEAN /\ samples' \in [CPUs -> 0 .. RingSize]
          /\ section' \in {"setup", "none"} /\ daemon' \in {daemon, "closed"}
          /\ UNCHANGED << tuner, todo, opsVars, flagVars, workVars, cpuVars >>
      BY <1>0, <2>4 DEF Alloc
    <3> QED
      BY <3>3, <3>4
  <2>5. CASE OpsSetup
    <3>1. /\ section' \in {"sync_start", "none"} /\ daemon' \in {daemon, "closed"}
          /\ allocated' \in BOOLEAN /\ samples' \in [CPUs -> 0 .. RingSize]
          /\ armed' \subseteq Ops
      BY <1>0, <2>5 DEF OpsSetup
    <3>2. UNCHANGED << tuner, todo, ops, sampling, running, flagVars, workVars, cpuVars, oops >>
      BY <2>5 DEF OpsSetup
    <3> QED
      BY <3>1, <3>2
  <2>12. CASE SyncStart
    <3>1. work' \in [CPUs -> {"idle", "armed", "queued", "synced", "rearm"}]
      BY <2>12 DEF SyncStart
    <3> QED
      BY <2>12, <3>1 DEF SyncStart
  <2>6. ASSUME NEW c \in CPUs, SyncOne(c) PROVE TypeOK'
    <3>1. samples' \in [CPUs -> 0 .. RingSize] /\ todo' \subseteq CPUs
      BY <1>0, <2>6 DEF SyncOne
    <3> QED
      BY <2>6, <3>1 DEF SyncOne
  <2>7. CASE EndStop
    BY <2>7 DEF EndStop
  <2>15. CASE EndAdapt
    BY <2>15 DEF EndAdapt, OpsStart
  <2>8. CASE FlushWork \/ Free
    <3>1. CASE FlushWork
      BY <3>1 DEF FlushWork
    <3>2. CASE Free
      BY <1>0, <3>2 DEF Free
    <3> QED
      BY <2>8, <3>1, <3>2
  <2>13. CASE CancelWork
    <3>1. work' \in [CPUs -> {"idle", "armed", "queued", "synced", "rearm"}]
      BY <2>13 DEF CancelWork
    <3> QED
      BY <2>13, <3>1 DEF CancelWork
  <2>9. ASSUME NEW c \in CPUs, Work(c) PROVE TypeOK'
    <3>1. late' \in BOOLEAN /\ oops' \in BOOLEAN
      BY <2>9 DEF Work, TimerFires, WorkOffline, WorkSync, WorkTest, WorkRearm
    <3>2. /\ todo' \subseteq todo
          /\ \E to \in {"idle", "armed", "queued", "synced", "rearm"} :
               work' = [work EXCEPT ![c] = to]
          /\ samples' = samples \/ samples' = [samples EXCEPT ![c] = 0]
          /\ UNCHANGED << clientVars, section, opsVars, flagVars, allocated, work_enabled, cpuVars >>
      BY <2>9 DEF Work, TimerFires, WorkOffline, WorkSync, WorkTest, WorkRearm, WorkStep
    <3>3. work' \in [CPUs -> {"idle", "armed", "queued", "synced", "rearm"}]
      BY <3>2
    <3>4. samples' \in [CPUs -> 0 .. RingSize]
      BY <1>0, <3>2
    <3> QED
      BY <3>1, <3>2, <3>3, <3>4
  <2>10. ASSUME NEW c \in CPUs, Machine(c) PROVE TypeOK'
    <3>1. oops' \in BOOLEAN
      BY <2>10 DEF Machine, Sample, Unplug, Plug
    <3>2. CASE Sample(c)
      BY <1>0, <3>1, <3>2 DEF Sample
    <3>3. CASE Unplug(c)
      BY <3>3 DEF Unplug
    <3>4. CASE Plug(c)
      <4>1. running' \subseteq running \cup {c}
        BY <3>4 DEF Plug
      <4> QED
        BY <3>4, <4>1 DEF Plug
    <3> QED
      BY <2>10, <3>2, <3>3, <3>4 DEF Machine
  <2>11. CASE UNCHANGED vars
    BY <2>11 DEF vars
  <2> QED
    BY <2>1, <2>2, <2>3, <2>4, <2>5, <2>6, <2>7, <2>8, <2>9, <2>10, <2>11, <2>12, <2>13, <2>14, <2>15
       DEF Next, Client, SectionStep
<1> QED
  BY <1>1, <1>2, PTL DEF Spec

-----------------------------------------------------------------------------
(* A CPU that is not there has been unplugged.                             *)
OfflineKnown == CPUs \ online \subseteq unplugged

(* Interrupts are on only between start and stop, and not in stop or adapt.*)
Quiet ==
  /\ sampling = "none" => running = {}
  /\ sampling # "none" => oprofile_started
  /\ section \in {"stop", "adapt"} => sampling = "none"
  /\ section = "adapt" => oprofile_started

(* What the loop of stop and adapt has passed is empty.                    *)
PassedAreEmpty ==
  section \in {"stop", "adapt"} => \A c \in CPUs \ (todo \cup unplugged) : samples[c] = 0

DrainInv == OfflineKnown /\ Quiet /\ PassedAreEmpty

LEMMA DrainInvariant == TypeOK /\ DrainInv /\ [Next]_vars => DrainInv'
<1> SUFFICES ASSUME TypeOK, DrainInv, [Next]_vars PROVE DrainInv'
  OBVIOUS
<1> USE DEF clientVars, sectionVars, opsVars, flagVars, bufferVars, workVars, cpuVars, Ops,
            DrainInv, OfflineKnown, Quiet, PassedAreEmpty, At
<1>1. CASE Open \/ ReleaseStop \/ Shutdown
  BY <1>1 DEF Open, ReleaseStop, BeginStop, OpsStop, Shutdown
<1>2. CASE Start \/ Stop \/ Adapt
  BY <1>2 DEF Start, OpsStart, Stop, BeginStop, Adapt, OpsStop, TypeOK, ClientRuns
<1>3. CASE TimerWriteCheck \/ TimerWriteSet
  BY <1>3 DEF TimerWriteCheck, TimerWriteSet
<1>4. CASE Alloc \/ OpsSetup \/ SyncStart
  BY <1>4 DEF Alloc, OpsSetup, SyncStart
<1>5. ASSUME NEW c \in CPUs, SyncOne(c) PROVE DrainInv'
  <2>1. /\ todo' = todo \ {c} /\ UNCHANGED << section, sampling, running, oprofile_started, cpuVars >>
        /\ \A d \in CPUs : samples'[d] = IF d = c /\ c \in online THEN 0 ELSE samples[d]
    BY <1>5 DEF SyncOne, TypeOK
  <2>2. \A d \in CPUs \ (todo' \cup unplugged') : samples'[d] = 0
    BY <1>5, <2>1 DEF SyncOne
  <2> QED
    BY <2>1, <2>2
<1>6. CASE EndStop \/ EndAdapt
  BY <1>6 DEF EndStop, EndAdapt, OpsStart, TypeOK
<1>7. CASE CancelWork \/ FlushWork \/ Free
  BY <1>7 DEF CancelWork, FlushWork, Free
<1>8. ASSUME NEW c \in CPUs, Work(c) PROVE DrainInv'
  <2>1. /\ samples' = samples \/ samples' = [samples EXCEPT ![c] = 0]
        /\ section \in {"stop", "adapt"} => todo' = todo
        /\ UNCHANGED << section, sampling, running, oprofile_started, online, unplugged >>
    BY <1>8 DEF Work, TimerFires, WorkOffline, WorkSync, WorkTest, WorkRearm, WorkStep
  <2> QED
    BY <2>1 DEF TypeOK
<1>9. ASSUME NEW c \in CPUs, Machine(c) PROVE DrainInv'
  <2>1. CASE Sample(c)
    BY <2>1 DEF Sample
  <2>2. CASE Unplug(c)
    BY <2>2 DEF Unplug
  <2>3. CASE Plug(c)
    BY <2>3 DEF Plug
  <2> QED
    BY <1>9, <2>1, <2>2, <2>3 DEF Machine
<1>10. CASE UNCHANGED vars
  BY <1>10 DEF vars
<1> QED
  BY <1>1, <1>2, <1>3, <1>4, <1>5, <1>6, <1>7, <1>8, <1>9, <1>10
     DEF Next, Client, SectionStep

LEMMA DrainInitially == Init => DrainInv
BY DEF Init, DrainInv, OfflineKnown, Quiet, PassedAreEmpty

(* When oprofile_stop() wakes the daemon the rings of all CPUs that were   *)
(* there throughout are empty, whoever else uses the control files.        *)
THEOREM StopDrains == Spec => []StopLeavesNothing
<1>1. DrainInv => StopLeavesNothing
  BY DEF DrainInv, PassedAreEmpty, StopLeavesNothing
<1> QED
  BY TypeCorrect, DrainInitially, DrainInvariant, <1>1, PTL DEF Spec

-----------------------------------------------------------------------------
(* Where the daemon is says how far the session is, and what it has.       *)
Stages ==
  /\ daemon = "closed" =>
       section = "none" /\ ~is_setup /\ ~allocated /\ ~oprofile_started /\ armed = {}
  /\ daemon = "opening" =>
       /\ section \in {"alloc", "setup", "sync_start"}
       /\ ~is_setup /\ ~oprofile_started
       /\ allocated <=> section # "alloc"
       /\ armed = IF section = "sync_start" THEN {ops} ELSE {}
  /\ daemon \in {"open", "stopping", "stopped"} => is_setup /\ allocated /\ armed = {ops}
  /\ daemon = "open" => section \in {"none", "stop", "adapt"}
  /\ daemon = "stopping" => section = "stop"
  /\ daemon = "stopped" => section \in {"none", "cancel", "flush", "free"} /\ ~oprofile_started
  /\ section = "stop" => ~oprofile_started
  /\ section \in {"cancel", "flush", "free"} => daemon = "stopped" /\ ~work_enabled

(* The operations change only while the file is closed.                    *)
OpsStay ==
  /\ tuner = "checked" => daemon = "closed"
  /\ sampling \in {"none", ops}

(* Work is left where it can be used; what end_cpu_work() did not cancel   *)
(* it waits for.                                                           *)
WorkEndsInTime ==
  ~late => \A c \in CPUs \ unplugged :
    /\ section = "flush" /\ work[c] # "idle" => c \in todo
    /\ daemon \in {"closed", "opening"} \/ section = "free" => work[c] = "idle"

OopsExcused == late \/ unplugged # {} \/ ~oops

SessionInv == Stages /\ OpsStay /\ WorkEndsInTime /\ OopsExcused

LEMMA SessionInitially == Init => SessionInv
BY DEF Init, SessionInv, Stages, OpsStay, WorkEndsInTime, OopsExcused

LEMMA StagesKept ==
  ASSUME ~OtherClients, TypeOK, DrainInv, Stages, OpsStay, [Next]_vars
  PROVE  Stages'
<1> USE DEF clientVars, sectionVars, opsVars, flagVars, bufferVars, workVars, cpuVars,
            Stages, OpsStay, At
<1>1. CASE Open
  BY <1>1 DEF Open
<1>2. CASE ReleaseStop
  <2>1. /\ daemon = "open" /\ section = "none"
        /\ UNCHANGED << is_setup, allocated, armed, ops, work_enabled >>
    BY <1>2 DEF ReleaseStop, BeginStop
  <2>2. is_setup /\ allocated /\ armed = {ops}
    BY <2>1
  <2>3. \/ daemon' = "stopping" /\ section' = "stop" /\ oprofile_started' = FALSE
        \/ daemon' = "stopped" /\ section' = "none" /\ ~oprofile_started'
    BY <1>2, <2>1 DEF ReleaseStop, BeginStop
  <2> QED
    BY <2>1, <2>2, <2>3
<1>3. CASE Shutdown
  BY <1>3 DEF Shutdown
<1>4. CASE Start \/ Stop \/ Adapt
  BY <1>4 DEF Start, OpsStart, Stop, BeginStop, Adapt, OpsStop, ClientRuns
<1>5. CASE TimerWriteCheck \/ TimerWriteSet
  BY <1>5 DEF TimerWriteCheck, TimerWriteSet
<1>6. CASE Alloc
  <2>1. section = "alloc" /\ UNCHANGED << is_setup, oprofile_started, armed, ops, work_enabled >>
    BY <1>6 DEF Alloc
  <2>2. daemon = "opening" /\ ~is_setup /\ ~oprofile_started /\ ~allocated /\ armed = {}
    BY <2>1 DEF TypeOK
  <2>3. CASE daemon' = daemon /\ section' = "setup" /\ allocated' = TRUE
    BY <2>1, <2>2, <2>3
  <2>4. CASE daemon' = "closed" /\ section' = "none" /\ allocated' = allocated
    BY <2>1, <2>2, <2>4
  <2> QED
    BY <1>6, <2>3, <2>4 DEF Alloc
<1>7. CASE OpsSetup
  <2>1. section = "setup" /\ UNCHANGED << is_setup, oprofile_started, ops, work_enabled >>
    BY <1>7 DEF OpsSetup
  <2>2. daemon = "opening" /\ ~is_setup /\ ~oprofile_started /\ allocated /\ armed = {}
    BY <2>1 DEF TypeOK
  <2>3. CASE armed' = armed \cup {ops} /\ section' = "sync_start" /\ UNCHANGED << daemon, allocated >>
    BY <2>1, <2>2, <2>3
  <2>4. CASE daemon' = "closed" /\ section' = "none" /\ allocated' = FALSE /\ armed' = armed
    BY <2>1, <2>2, <2>4
  <2> QED
    BY <1>7, <2>3, <2>4 DEF OpsSetup
<1>8. CASE SyncStart
  BY <1>8 DEF SyncStart, TypeOK
<1>9. ASSUME NEW c \in CPUs, SyncOne(c) PROVE Stages'
  BY <1>9 DEF SyncOne
<1>10. CASE EndStop
  BY <1>10 DEF EndStop, TypeOK
<1>11. CASE EndAdapt
  BY <1>11 DEF EndAdapt, TypeOK
<1>12. CASE CancelWork \/ FlushWork
  BY <1>12 DEF CancelWork, FlushWork
<1>13. CASE Free
  BY <1>13 DEF Free, TypeOK
<1>14. ASSUME NEW c \in CPUs, Work(c) PROVE Stages'
  BY <1>14 DEF Work, TimerFires, WorkOffline, WorkSync, WorkTest, WorkRearm, WorkStep
<1>15. ASSUME NEW c \in CPUs, Machine(c) PROVE Stages'
  BY <1>15 DEF Machine, Sample, Unplug, Plug
<1>16. CASE UNCHANGED vars
  BY <1>16 DEF vars
<1> QED
  BY <1>1, <1>2, <1>3, <1>4, <1>5, <1>6, <1>7, <1>8, <1>9, <1>10, <1>11, <1>12, <1>13, <1>14,
     <1>15, <1>16 DEF Next, Client, SectionStep

LEMMA OpsStayKept ==
  ASSUME ~OtherClients, TypeOK, DrainInv, Stages, OpsStay, [Next]_vars
  PROVE  OpsStay'
<1> USE DEF clientVars, sectionVars, opsVars, flagVars, bufferVars, workVars, cpuVars,
            OpsStay, At
<1>1. CASE Open \/ ReleaseStop \/ Shutdown
  BY <1>1 DEF Open, ReleaseStop, BeginStop, OpsStop, Shutdown
<1>2. CASE Start \/ Stop \/ Adapt
  BY <1>2 DEF Start, OpsStart, Stop, BeginStop, Adapt, OpsStop, ClientRuns, Stages
<1>3. CASE TimerWriteCheck
  BY <1>3 DEF TimerWriteCheck
<1>4. CASE TimerWriteSet
  BY <1>4 DEF TimerWriteSet, Stages, DrainInv, Quiet
<1>5. CASE Alloc \/ OpsSetup \/ SyncStart
  BY <1>5 DEF Alloc, OpsSetup, SyncStart, Stages, TypeOK
<1>6. ASSUME NEW c \in CPUs, SyncOne(c) PROVE OpsStay'
  BY <1>6 DEF SyncOne
<1>7. CASE EndStop \/ EndAdapt
  BY <1>7 DEF EndStop, EndAdapt, OpsStart
<1>8. CASE CancelWork \/ FlushWork \/ Free
  BY <1>8 DEF CancelWork, FlushWork, Free
<1>9. ASSUME NEW c \in CPUs, Work(c) PROVE OpsStay'
  BY <1>9 DEF Work, TimerFires, WorkOffline, WorkSync, WorkTest, WorkRearm, WorkStep
<1>10. ASSUME NEW c \in CPUs, Machine(c) PROVE OpsStay'
  BY <1>10 DEF Machine, Sample, Unplug, Plug
<1>11. CASE UNCHANGED vars
  BY <1>11 DEF vars
<1> QED
  BY <1>1, <1>2, <1>3, <1>4, <1>5, <1>6, <1>7, <1>8, <1>9, <1>10, <1>11
     DEF Next, Client, SectionStep

LEMMA WorkKept ==
  ASSUME ~OtherClients, TypeOK, DrainInv, Stages, WorkEndsInTime, [Next]_vars
  PROVE  WorkEndsInTime'
<1> USE DEF clientVars, sectionVars, opsVars, flagVars, bufferVars, workVars, cpuVars,
            WorkEndsInTime, At
<1>1. CASE Open \/ ReleaseStop \/ Shutdown
  BY <1>1 DEF Open, ReleaseStop, BeginStop, OpsStop, Shutdown
<1>2. CASE Start \/ Stop \/ Adapt
  BY <1>2 DEF Start, OpsStart, Stop, BeginStop, Adapt, OpsStop
<1>3. CASE TimerWriteCheck \/ TimerWriteSet
  BY <1>3 DEF TimerWriteCheck, TimerWriteSet
<1>4. CASE Alloc \/ OpsSetup
  BY <1>4 DEF Alloc, OpsSetup, Stages, TypeOK
<1>5. CASE SyncStart
  BY <1>5 DEF SyncStart
<1>6. ASSUME NEW c \in CPUs, SyncOne(c) PROVE WorkEndsInTime'
  BY <1>6 DEF SyncOne
<1>7. CASE EndStop \/ EndAdapt
  BY <1>7 DEF EndStop, EndAdapt, Stages
<1>8. CASE CancelWork
  <2>1. \A c \in CPUs \ unplugged : c \in online
    BY DEF DrainInv, OfflineKnown
  <2>2. \A c \in CPUs \ unplugged : work'[c] # "idle" => c \in todo'
    BY <1>8, <2>1 DEF CancelWork, TypeOK
  <2> QED
    BY <1>8, <2>2 DEF CancelWork, Stages
<1>9. CASE FlushWork \/ Free
  BY <1>9 DEF FlushWork, Free, Stages
<1>10. ASSUME NEW c \in CPUs, Work(c), ~late' PROVE WorkEndsInTime'
  <2>1. /\ ~late /\ work[c] # "idle"
        /\ UNCHANGED << daemon, section, unplugged >>
        /\ \A d \in CPUs : d # c => work'[d] = work[d] /\ (d \in todo => d \in todo')
        /\ section = "flush" => work'[c] # "armed"
        /\ c \in todo => c \in todo' \/ work'[c] \in {"idle", "armed"}
    BY <1>10 DEF Work, TimerFires, WorkOffline, WorkSync, WorkTest, WorkRearm, WorkStep, TypeOK,
                 Stages
  <2> QED
    BY <2>1
<1>11. ASSUME NEW c \in CPUs, Machine(c) PROVE WorkEndsInTime'
  BY <1>11 DEF Machine, Sample, Unplug, Plug
<1>12. CASE UNCHANGED vars
  BY <1>12 DEF vars
<1> QED
  BY <1>1, <1>2, <1>3, <1>4, <1>5, <1>6, <1>7, <1>8, <1>9, <1>10, <1>11, <1>12
     DEF Next, Client, SectionStep

LEMMA OopsKept ==
  ASSUME ~OtherClients, TypeOK, DrainInv, Stages, WorkEndsInTime, OopsExcused, [Next]_vars
  PROVE  OopsExcused'
<1> USE DEF clientVars, sectionVars, opsVars, flagVars, bufferVars, workVars, cpuVars,
            OopsExcused, At
<1>1. CASE Open \/ ReleaseStop \/ Shutdown
  BY <1>1 DEF Open, ReleaseStop, BeginStop, OpsStop, Shutdown
<1>2. CASE Client
  BY <1>2 DEF Client, Start, Stop, BeginStop, Adapt, TimerWriteCheck, TimerWriteSet
<1>3. CASE Alloc
  <2>1. CASE late \/ unplugged # {}
    BY <1>3, <2>1 DEF Alloc
  <2>2. CASE ~late /\ unplugged = {}
    <3>1. \A c \in CPUs : work[c] = "idle"
      BY <1>3, <2>2 DEF Alloc, Stages, WorkEndsInTime, TypeOK
    <3> QED
      BY <1>3, <3>1 DEF Alloc
  <2> QED
    BY <2>1, <2>2
<1>4. CASE OpsSetup \/ SyncStart \/ EndStop \/ EndAdapt \/ CancelWork \/ FlushWork \/ Free
  BY <1>4 DEF OpsSetup, SyncStart, EndStop, EndAdapt, CancelWork, FlushWork, Free
<1>5. ASSUME NEW c \in CPUs, SyncOne(c) PROVE OopsExcused'
  BY <1>5 DEF SyncOne
<1>6. ASSUME NEW c \in CPUs, Work(c), ~late', unplugged' = {} PROVE ~oops'
  <2>1. ~oops /\ unplugged = {}
    BY <1>6 DEF Work, TimerFires, WorkOffline, WorkSync, WorkTest, WorkRearm, WorkStep
  <2>2. ~late
    BY <1>6 DEF Work, TimerFires, WorkOffline, WorkSync, WorkTest, WorkRearm
  <2>3. work[c] = "queued" => allocated
    <3>1. daemon \in {"closed", "opening"} => work[c] = "idle"
      BY <2>1, <2>2 DEF WorkEndsInTime
    <3>2. daemon \notin {"closed", "opening"} => allocated
      BY DEF Stages, TypeOK
    <3> QED
      BY <3>1, <3>2
  <2>4. CASE WorkSync(c)
    BY <2>3, <2>4 DEF WorkSync, WorkStep
  <2>5. CASE ~WorkSync(c)
    BY <1>6, <2>1, <2>5 DEF Work, TimerFires, WorkOffline, WorkTest, WorkRearm
  <2> QED
    BY <2>4, <2>5
<1>7. ASSUME NEW c \in CPUs, Machine(c) PROVE OopsExcused'
  <2>1. c \in running => allocated
    BY DEF DrainInv, Quiet, Stages, TypeOK
  <2> QED
    BY <1>7, <2>1 DEF Machine, Sample, Unplug, Plug
<1>8. CASE UNCHANGED vars
  BY <1>8 DEF vars
<1> QED
  BY <1>1, <1>2, <1>3, <1>4, <1>5, <1>6, <1>7, <1>8 DEF Next, SectionStep

LEMMA SessionInvariant == ASSUME ~OtherClients PROVE Spec => [](TypeOK /\ DrainInv /\ SessionInv)
<1>1. Init => DrainInv /\ SessionInv
  BY DrainInitially, SessionInitially
<1>2. TypeOK /\ DrainInv /\ SessionInv /\ [Next]_vars => DrainInv' /\ SessionInv'
  BY DrainInvariant, StagesKept, OpsStayKept, WorkKept, OopsKept DEF SessionInv
<1> QED
  BY TypeCorrect, <1>1, <1>2, PTL DEF Spec

(* With one client at a time the interrupts delivered are those of the     *)
(* operations that were set up, and a closed file leaves nothing set up.   *)
THEOREM StartsWhatIsSetUp == ASSUME ~OtherClients PROVE Spec => []SetUpBeforeStart
<1>1. TypeOK /\ DrainInv /\ SessionInv => SetUpBeforeStart
  BY DEF TypeOK, DrainInv, Quiet, SessionInv, Stages, OpsStay, SetUpBeforeStart
<1> QED
  BY SessionInvariant, <1>1, PTL

(* With one client at a time the only work item that end_cpu_work() leaves *)
(* behind is one re-added by a worker that looked at work_enabled before.  *)
THEOREM WorkOutlivedOnlyLate == ASSUME ~OtherClients PROVE Spec => []NoWorkAfterFreeUnlessLate
<1>1. TypeOK /\ DrainInv /\ SessionInv => NoWorkAfterFreeUnlessLate
  BY DEF TypeOK, SessionInv, Stages, WorkEndsInTime, NoWorkAfterFreeUnlessLate, NoWorkAfterFree
<1> QED
  BY SessionInvariant, <1>1, PTL

(* With one client at a time, all CPUs there and no such item, neither an  *)
(* interrupt nor a worker ever uses buffers that are not there.            *)
THEOREM BuffersOutliveTheirUsers == ASSUME ~OtherClients PROVE Spec => []NoUseAfterFreeUnlessLate
<1>1. SessionInv => NoUseAfterFreeUnlessLate
  BY DEF SessionInv, OopsExcused, NoUseAfterFreeUnlessLate, NoUseAfterFree
<1> QED
  BY SessionInvariant, <1>1, PTL
=============================================================================

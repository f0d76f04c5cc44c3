-------------------------------- MODULE Oprof --------------------------------
(***************************************************************************)
(* A profiling session (driver/oprof.c): the daemon opens the buffer file, *)
(* somebody starts and stops profiling, the daemon closes the file.  With  *)
(* it go the two things a session sets in motion and has to stop again:    *)
(* the interrupts, and one delayed work item for each CPU that empties the *)
(* buffer of that CPU every tenth of a second (driver/cpu_buffer.c).       *)
(*                                                                         *)
(* The control functions run one at a time under start_sem.  This is the   *)
(* RRPROFILE build on a kernel with CPU hotplug notifiers in the timer's   *)
(* setup (3.3 and later).                                                  *)
(***************************************************************************)
EXTENDS Naturals, FiniteSets

CONSTANTS
  CPUs,          \* the possible CPUs
  RingSize,      \* bound: samples one CPU buffer holds
  OtherClients   \* do others use the control files while the daemon opens or closes?

ASSUME OprofAssumption ==
  /\ IsFiniteSet(CPUs) /\ CPUs # {}
  /\ RingSize \in Nat \ {0}
  /\ OtherClients \in BOOLEAN

VARIABLES
  daemon,        \* where event_buffer_open() or _release() is
  section,       \* what runs under start_sem, and how far it is; "none"
  todo,          \* CPUs its loop has not come to, or whose work it waits for
  tuner,         \* where timer_write() is
  is_setup,
  oprofile_started,
  ops,           \* oprofile_ops: timer_ops or arch_ops
  armed,         \* the ops whose setup() ran and whose shutdown() did not
  sampling,      \* the ops whose interrupts are on, or "none"
  running,       \* the CPUs that take them
  online,
  allocated,     \* are the CPU buffers and the event buffer there?
  samples,       \* entries in the buffer of each CPU
  work,          \* the work item of each CPU
  work_enabled,
  late,          \* history: a work item went back to its timer after end_cpu_work()
  unplugged,     \* history: the CPUs that have been offline
  oops           \* history: freed memory was used, or a work item initialised in use

clientVars  == << daemon, tuner >>
sectionVars == << section, todo >>
opsVars     == << ops, armed, sampling, running >>
flagVars    == << is_setup, oprofile_started >>
bufferVars  == << allocated, samples >>
workVars    == << work, work_enabled, late >>
cpuVars     == << online, unplugged >>
vars == << clientVars, sectionVars, opsVars, flagVars, bufferVars, workVars, cpuVars, oops >>

Ops == {"timer", "event"}

(* oprofile_init(); both modes are available.                              *)
Init ==
  /\ daemon = "closed" /\ tuner = "idle"
  /\ section = "none" /\ todo = {}
  /\ is_setup = FALSE /\ oprofile_started = FALSE
  /\ ops = "event" /\ armed = {} /\ sampling = "none" /\ running = {}
  /\ online = CPUs /\ unplugged = {}
  /\ allocated = FALSE /\ samples = [c \in CPUs |-> 0]
  /\ work = [c \in CPUs |-> "idle"] /\ work_enabled = FALSE
  /\ late = FALSE /\ oops = FALSE

(* What runs under start_sem is at this place.  After an oops nothing the  *)
(* machine does can be relied on, so nothing goes on.                      *)
At(place) == ~oops /\ section = place

(* A client that works alone does not call while the daemon is inside      *)
(* open() or close().                                                      *)
ClientRuns ==
  /\ At("none")
  /\ OtherClients \/ daemon \in {"closed", "open"}

-----------------------------------------------------------------------------
(* event_buffer_open() and oprofile_setup()                                *)

Open ==
  /\ daemon = "closed"
  /\ At("none")
  /\ OtherClients \/ tuner = "idle"
  /\ daemon' = "opening"
  /\ section' = "alloc"
  /\ UNCHANGED << tuner, todo, opsVars, flagVars, bufferVars, workVars, cpuVars, oops >>

(* alloc_cpu_buffers() and alloc_event_buffer(): both or neither.  The     *)
(* first initialises the work item of every CPU it has memory for, whether *)
(* or not the item is still in use.                                        *)
Alloc ==
  /\ At("alloc")
  /\ LET inUse == \E c \in CPUs : work[c] # "idle" IN
     \/ /\ allocated' = TRUE
        /\ samples' = [c \in CPUs |-> 0]
        /\ section' = "setup"
        /\ oops' = inUse
        /\ UNCHANGED daemon
     \/ /\ section' = "none"
        /\ daemon' = "closed"
        /\ oops' \in {FALSE, inUse}
        /\ UNCHANGED bufferVars
  /\ UNCHANGED << tuner, todo, opsVars, flagVars, workVars, cpuVars >>

OpsSetup ==
  /\ At("setup")
  /\ \/ /\ armed' = armed \cup {ops}
        /\ section' = "sync_start"
        /\ UNCHANGED << daemon, bufferVars >>
     \/ /\ allocated' = FALSE
        /\ samples' = [c \in CPUs |-> 0]
        /\ section' = "none"
        /\ daemon' = "closed"
        /\ UNCHANGED armed
  /\ UNCHANGED << tuner, todo, ops, sampling, running, flagVars, workVars, cpuVars, oops >>

(* sync_start(), that is start_cpu_work(), which cannot fail.              *)
SyncStart ==
  /\ At("sync_start")
  /\ work_enabled' = TRUE
  /\ work' = [c \in CPUs |-> IF c \in online /\ work[c] = "idle" THEN "armed" ELSE work[c]]
  /\ is_setup' = TRUE
  /\ section' = "none"
  /\ daemon' = "open"
  /\ UNCHANGED << tuner, todo, opsVars, oprofile_started, bufferVars, late, cpuVars, oops >>

-----------------------------------------------------------------------------
(* oprofile_start(), oprofile_stop(), oprofile_adapt()                     *)

(* Mutant: starts CPUs that are not there.                                 *)
OpsStartPossible ==
  /\ sampling' = ops
  /\ running' = CPUs

OpsStart ==
  /\ sampling' = ops
  /\ running' = online

Start ==
  /\ ClientRuns
  /\ is_setup /\ ~oprofile_started
  /\ OpsStart
  /\ oprofile_started' = TRUE
  /\ UNCHANGED << clientVars, sectionVars, ops, armed, is_setup, bufferVars, workVars, cpuVars,
                  oops >>

(* Mutant: the interrupts go on while the buffers are emptied.             *)
OpsStopNothing == UNCHANGED << sampling, running >>

(* hrtimer_cancel() returns when no handler runs any more.  nmi_stop() may *)
(* return while an NMI is inside its handler: CounterSession, not here.    *)
OpsStop == sampling' = "none" /\ running' = {}

BeginStop ==
  /\ oprofile_started
  /\ OpsStop
  /\ oprofile_started' = FALSE
  /\ section' = "stop"
  /\ todo' = CPUs
  /\ UNCHANGED << tuner, ops, armed, is_setup, bufferVars, workVars, cpuVars, oops >>

Stop == ClientRuns /\ BeginStop /\ UNCHANGED daemon

Adapt ==
  /\ ClientRuns
  /\ oprofile_started
  /\ OpsStop
  /\ section' = "adapt"
  /\ todo' = CPUs
  /\ UNCHANGED << clientVars, ops, armed, flagVars, bufferVars, workVars, cpuVars, oops >>

(* The loop over the online CPUs, which looks at each when it comes to it. *)
SyncOne(c) ==
  /\ At("stop") \/ At("adapt")
  /\ c \in todo
  /\ todo' = todo \ {c}
  /\ samples' = [samples EXCEPT ![c] = IF c \in online THEN 0 ELSE @]
  /\ UNCHANGED << clientVars, section, opsVars, flagVars, allocated, workVars, cpuVars, oops >>

(* wake_up_buffer_waiter() and the way out.                                *)
EndStop ==
  /\ At("stop")
  /\ todo = {}
  /\ section' = "none"
  /\ daemon' = IF daemon = "stopping" THEN "stopped" ELSE daemon
  /\ UNCHANGED << tuner, todo, opsVars, flagVars, bufferVars, workVars, cpuVars, oops >>

(* ops.start() may fail here; it leaves the session set up.                *)
EndAdapt ==
  /\ At("adapt")
  /\ todo = {}
  /\ section' = "none"
  /\ \/ /\ OpsStart
        /\ UNCHANGED oprofile_started
     \/ /\ oprofile_started' = FALSE
        /\ UNCHANGED << sampling, running >>
  /\ UNCHANGED << clientVars, todo, ops, armed, is_setup, bufferVars, workVars, cpuVars, oops >>

(* Mutant: does not look at buffer_opened.                                 *)
TimerWriteUnchecked ==
  /\ tuner = "idle"
  /\ tuner' = "checked"
  /\ UNCHANGED << daemon, sectionVars, opsVars, flagVars, bufferVars, workVars, cpuVars, oops >>

(* timer_write(): buffer_opened is looked at before start_sem is taken.    *)
TimerWriteCheck ==
  /\ ~oops
  /\ tuner = "idle"
  /\ daemon = "closed"
  /\ tuner' = "checked"
  /\ UNCHANGED << daemon, sectionVars, opsVars, flagVars, bufferVars, workVars, cpuVars, oops >>

(* oprofile_set_oprofile_timer_count()                                     *)
TimerWriteSet ==
  /\ tuner = "checked"
  /\ At("none")
  /\ tuner' = "idle"
  /\ ops' \in IF oprofile_started THEN {ops} ELSE Ops
  /\ UNCHANGED << daemon, sectionVars, armed, sampling, running, flagVars, bufferVars,
                  workVars, cpuVars, oops >>

-----------------------------------------------------------------------------
(* event_buffer_release(): oprofile_stop(), then oprofile_shutdown().      *)

ReleaseStop ==
  /\ daemon = "open"
  /\ At("none")
  /\ \/ BeginStop /\ daemon' = "stopping"
     \/ /\ ~oprofile_started
        /\ daemon' = "stopped"
        /\ UNCHANGED << tuner, sectionVars, opsVars, flagVars, bufferVars, workVars, cpuVars,
                        oops >>

(* oprofile_shutdown() takes start_sem; end_cpu_work() begins.             *)
Shutdown ==
  /\ daemon = "stopped"
  /\ At("none")
  /\ work_enabled' = FALSE
  /\ section' = "cancel"
  /\ UNCHANGED << clientVars, todo, opsVars, flagVars, bufferVars, work, late, cpuVars, oops >>

(* Mutant: nothing is cancelled.                                           *)
CancelNothing ==
  /\ At("cancel")
  /\ todo' = {c \in CPUs : work[c] \notin {"idle", "armed"}}
  /\ section' = "flush"
  /\ UNCHANGED << clientVars, opsVars, flagVars, bufferVars, workVars, cpuVars, oops >>

(* cancel_delayed_work() for each online CPU: only an item still on its    *)
(* timer is cancelled.                                                     *)
CancelWork ==
  /\ At("cancel")
  /\ work' = [c \in CPUs |-> IF c \in online /\ work[c] = "armed" THEN "idle" ELSE work[c]]
  /\ todo' = {c \in CPUs : work[c] \notin {"idle", "armed"}}
  /\ section' = "flush"
  /\ UNCHANGED << clientVars, opsVars, flagVars, bufferVars, work_enabled, late, cpuVars,
                  oops >>

(* Mutant: flush_scheduled_work() is not called.                           *)
FlushNothing ==
  /\ At("flush")
  /\ section' = "free"
  /\ UNCHANGED << clientVars, todo, opsVars, flagVars, bufferVars, workVars, cpuVars, oops >>

(* flush_scheduled_work() waits for the items that are off their timers    *)
(* when it is called.                                                      *)
FlushWork ==
  /\ At("flush")
  /\ todo = {}
  /\ section' = "free"
  /\ UNCHANGED << clientVars, todo, opsVars, flagVars, bufferVars, workVars, cpuVars, oops >>

(* ops.shutdown() and the rest, up to the clearing of buffer_opened.       *)
Free ==
  /\ At("free")
  /\ armed' = armed \ {ops}
  /\ is_setup' = FALSE
  /\ allocated' = FALSE
  /\ samples' = [c \in CPUs |-> 0]
  /\ section' = "none"
  /\ daemon' = "closed"
  /\ UNCHANGED << tuner, todo, ops, sampling, running, oprofile_started, workVars, cpuVars,
                  oops >>

-----------------------------------------------------------------------------
(* The work item of a CPU: on its timer ("armed"), on the queue, past      *)
(* sync_buffer(), past the look at work_enabled, idle.                     *)

WorkStep(c, from, to) ==
  /\ ~oops
  /\ work[c] = from
  /\ work' = [work EXCEPT ![c] = to]
  /\ todo' = IF section = "flush" /\ to \in {"idle", "armed"} THEN todo \ {c} ELSE todo
  /\ UNCHANGED << clientVars, section, opsVars, flagVars, allocated, work_enabled,
                  cpuVars >>

TimerFires(c) ==
  /\ WorkStep(c, "armed", "queued")
  /\ UNCHANGED << samples, late, oops >>

(* wq_sync_buffer(): the CPU has gone, and the item with it.               *)
WorkOffline(c) ==
  /\ c \notin online
  /\ WorkStep(c, "queued", "idle")
  /\ UNCHANGED << samples, late, oops >>

(* Mutant: sync_buffer() under start_sem.                                  *)
WorkSyncStartSem(c) ==
  /\ At("none")
  /\ c \in online
  /\ WorkStep(c, "queued", "synced")
  /\ samples' = [samples EXCEPT ![c] = 0]
  /\ oops' = ~allocated
  /\ UNCHANGED late

WorkSync(c) ==
  /\ c \in online
  /\ WorkStep(c, "queued", "synced")
  /\ samples' = [samples EXCEPT ![c] = 0]
  /\ oops' = ~allocated
  /\ UNCHANGED late

WorkTest(c) ==
  /\ WorkStep(c, "synced", IF work_enabled THEN "rearm" ELSE "idle")
  /\ UNCHANGED << samples, late, oops >>

(* Mutant: the work is done once.                                          *)
WorkEnds(c) ==
  /\ WorkStep(c, "rearm", "idle")
  /\ UNCHANGED << samples, late, oops >>

WorkRearm(c) ==
  /\ WorkStep(c, "rearm", "armed")
  /\ late' = (late \/ ~work_enabled)
  /\ UNCHANGED << samples, oops >>

Work(c) ==
  TimerFires(c) \/ WorkOffline(c) \/ WorkSync(c) \/ WorkTest(c) \/ WorkRearm(c)

-----------------------------------------------------------------------------
(* The machine                                                             *)

(* A full buffer loses the sample.                                         *)
Sample(c) ==
  /\ ~oops
  /\ c \in running
  /\ samples' = [samples EXCEPT ![c] = IF @ < RingSize THEN @ + 1 ELSE @]
  /\ oops' = ~allocated
  /\ UNCHANGED << clientVars, sectionVars, opsVars, flagVars, allocated, workVars, cpuVars >>

Unplug(c) ==
  /\ ~oops
  /\ c \in online /\ online # {c}
  /\ online' = online \ {c}
  /\ running' = running \ {c}
  /\ unplugged' = unplugged \cup {c}
  /\ UNCHANGED << clientVars, sectionVars, ops, armed, sampling, flagVars, bufferVars, workVars,
                  oops >>

(* Only the timer's setup() has registered for CPU_ONLINE.                 *)
Plug(c) ==
  /\ ~oops
  /\ c \notin online
  /\ online' = online \cup {c}
  /\ running' = IF sampling = "timer" /\ "timer" \in armed THEN running \cup {c} ELSE running
  /\ UNCHANGED << clientVars, sectionVars, ops, armed, sampling, flagVars, bufferVars, workVars,
                  unplugged, oops >>

-----------------------------------------------------------------------------
SectionStep ==
  \/ Alloc \/ OpsSetup \/ SyncStart
  \/ \E c \in CPUs : SyncOne(c)
  \/ EndStop \/ EndAdapt
  \/ CancelWork \/ FlushWork \/ Free

Client == Start \/ Stop \/ Adapt \/ TimerWriteCheck \/ TimerWriteSet

Machine(c) == Sample(c) \/ Unplug(c) \/ Plug(c)

Next ==
  \/ Open \/ ReleaseStop \/ Shutdown
  \/ Client \/ SectionStep
  \/ \E c \in CPUs : Work(c) \/ Machine(c)

(* Timers expire, the workqueue runs what is on it, and a system call that *)
(* holds start_sem goes on.                                                *)
Fairness ==
  /\ WF_vars(SectionStep)
  /\ WF_vars(Shutdown)
  /\ \A c \in CPUs : WF_vars(Work(c))

Spec == Init /\ [][Next]_vars /\ Fairness

-----------------------------------------------------------------------------
(* Properties                                                              *)

(* Types; interrupts are on only on CPUs that are there.                   *)
TypeOK ==
  /\ daemon \in {"closed", "opening", "open", "stopping", "stopped"}
  /\ section \in {"none", "alloc", "setup", "sync_start", "stop", "adapt",
                  "cancel", "flush", "free"}
  /\ tuner \in {"idle", "checked"}
  /\ todo \subseteq CPUs
  /\ is_setup \in BOOLEAN /\ oprofile_started \in BOOLEAN /\ allocated \in BOOLEAN
  /\ work_enabled \in BOOLEAN /\ late \in BOOLEAN /\ oops \in BOOLEAN
  /\ ops \in Ops /\ armed \subseteq Ops /\ sampling \in Ops \cup {"none"}
  /\ running \subseteq online /\ online \subseteq CPUs /\ unplugged \subseteq CPUs
  /\ samples \in [CPUs -> 0 .. RingSize]
  /\ work \in [CPUs -> {"idle", "armed", "queued", "synced", "rearm"}]

(* "don't re-add the work if we're shutting down" (wq_sync_buffer()): when *)
(* the buffers are gone no work item is left that would drain them, except *)
(* those of CPUs that were offline when end_cpu_work() cancelled.          *)
NoWorkAfterFree ==
  ~allocated => \A c \in CPUs \ unplugged : work[c] = "idle"

(* What end_cpu_work() does guarantee: the one item it can leave behind is *)
(* that of a worker which looked at work_enabled before and re-adds after. *)
NoWorkAfterFreeUnlessLate == late \/ NoWorkAfterFree

(* Neither an interrupt nor a worker uses the buffers before they are      *)
(* allocated or after they are freed, and alloc_cpu_buffers() never        *)
(* initialises a work item that is on its timer or the queue.              *)
NoUseAfterFree == ~oops

NoUseAfterFreeUnlessLate == late \/ unplugged # {} \/ NoUseAfterFree

(* "Do any necessary interrupt setup", "Start delivering interrupts"       *)
(* (oprofile.h): the interrupts that are delivered are those of the        *)
(* operations whose setup has run, and a closed file leaves nothing set up.*)
SetUpBeforeStart ==
  /\ sampling # "none" => sampling \in armed
  /\ daemon = "closed" => armed = {}

(* "sync the cpu and the event buffers (dump remaining events in cpu       *)
(* buffers)" (oprofile_stop()): when the daemon is woken nothing is left   *)
(* behind, and nothing can arrive; except what a CPU held that went        *)
(* offline.                                                                *)
StopLeavesNothing ==
  section = "stop" /\ todo = {} => \A c \in CPUs \ unplugged : samples[c] = 0

(* "This serves to avoid cpu buffer overflow" (wq_sync_buffer()): as long  *)
(* as the session lasts, what is in the buffer of a CPU is drained; except *)
(* for a CPU that has been offline, whose work item is not added again.    *)
RingsDrained ==
  \A c \in CPUs :
    is_setup /\ samples[c] > 0 ~> samples[c] = 0 \/ c \in unplugged \/ oops

(* A control function comes back, the one that waits for the workers while *)
(* it holds start_sem too.                                                 *)
ControlReturns == section # "none" ~> section = "none" \/ oops
=============================================================================

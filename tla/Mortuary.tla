------------------------------- MODULE Mortuary -------------------------------
(***************************************************************************)
(* Who frees a task that CPU buffers still refer to (driver/buffer_sync.c, *)
(* the build without RRPROFILE).  The buffer of a CPU holds pointers to    *)
(* the tasks that ran there, and sync_buffer() follows them.  A task that  *)
(* dies while profiling is handed to the mortuary: first to dying_tasks,   *)
(* then, once every online CPU has been synced, to dead_tasks, and once    *)
(* they all have been synced again it is freed.                            *)
(***************************************************************************)
CONSTANTS CPUs, Tasks, NoCpu

ASSUME MortuaryAssumption == CPUs # {} /\ NoCpu \notin CPUs

VARIABLES
  phase,         \* how far sync_start() or sync_stop() is
  sampling,      \* between ops.start() and ops.stop()
  alive,         \* the tasks that can run
  dying, dead,   \* dying_tasks, dead_tasks
  freed,
  refs,          \* the tasks the buffer of each CPU refers to
  syncing,       \* the CPU whose buffer is synced under buffer_mutex
  batch,         \* the tasks the entries acquired by it refer to
  marked,        \* marked_cpus
  online,
  worker,        \* the CPUs whose work item is scheduled or runs
  late,          \* was the batch acquired after end_cpu_work()?
  direct,        \* history: a referenced task died after task_handoff_unregister()
  unplugged      \* history: a CPU with entries went offline

taskVars == << alive, dying, dead, freed >>
ringVars == << refs, syncing, batch, late, marked >>
cpuVars  == << online, unplugged >>
vars == << phase, sampling, taskVars, ringVars, cpuVars, worker, direct >>

Init ==
  /\ phase = "off" /\ sampling = FALSE
  /\ alive = Tasks /\ dying = {} /\ dead = {} /\ freed = {}
  /\ refs = [c \in CPUs |-> {}] /\ syncing = NoCpu /\ batch = {} /\ marked = {}
  /\ online \in SUBSET CPUs /\ online # {}
  /\ worker = {} /\ late = FALSE /\ direct = FALSE /\ unplugged = FALSE

-----------------------------------------------------------------------------
(* sync_start(): start_cpu_work() comes before the notifiers.              *)
StartWork ==
  /\ phase = "off"
  /\ phase' = "working" /\ worker' = worker \cup online
  /\ UNCHANGED << sampling, taskVars, ringVars, cpuVars, direct >>

Register ==
  /\ phase = "working" /\ phase' = "on"
  /\ UNCHANGED << sampling, taskVars, ringVars, cpuVars, worker, direct >>

(* A notifier could not be registered: the others are taken back.          *)
RegisterFails ==
  /\ phase = "working" /\ phase' = "stopping"
  /\ UNCHANGED << sampling, taskVars, ringVars, cpuVars, worker, direct >>

StartStop ==
  /\ phase = "on" /\ sampling' = ~sampling
  /\ UNCHANGED << phase, taskVars, ringVars, cpuVars, worker, direct >>

(* sync_stop(): the notifiers go first ...                                 *)
Unregister ==
  /\ phase = "on" /\ ~sampling /\ phase' = "stopping"
  /\ UNCHANGED << sampling, taskVars, ringVars, cpuVars, worker, direct >>

(* ... then end_cpu_work() cancels the work and waits for the sync that    *)
(* runs.  An item outlives it that a worker adds again after the cancel,   *)
(* because it had found work_enabled set, and one of a CPU that is not     *)
(* online.                                                                 *)
EndCpuWork ==
  /\ phase = "stopping" /\ syncing = NoCpu
  /\ phase' = "flushed" /\ worker' \in SUBSET worker
  /\ UNCHANGED << sampling, taskVars, ringVars, cpuVars, direct >>

(* Mutant: one list.                                                       *)
ProcessAtOnce == freed' = freed \cup dead \cup dying /\ dead' = {} /\ dying' = {}

(* Mutant: dying_tasks is not emptied.                                     *)
ProcessKeepsDying == freed' = freed \cup dead /\ dead' = dying /\ UNCHANGED dying

(* process_task_mortuary()                                                 *)
ProcessTaskMortuary ==
  /\ freed' = freed \cup dead /\ dead' = dying /\ dying' = {}

(* ... then end_sync() empties both lists, one after the other ...         *)
EndSync ==
  /\ \/ phase = "flushed" /\ phase' = "emptying"
     \/ phase = "emptying" /\ phase' = "emptied"
  /\ ProcessTaskMortuary
  /\ UNCHANGED << sampling, alive, ringVars, cpuVars, worker, direct >>

(* ... then the buffers are freed.  What an item does that is still there  *)
(* when they are gone is a matter of Oprof.                                *)
FreeCpuBuffers ==
  /\ phase = "emptied" /\ phase' = "off"
  /\ refs' = [c \in CPUs |-> {}]
  /\ UNCHANGED << sampling, taskVars, syncing, batch, late, marked, cpuVars, worker, direct >>

-----------------------------------------------------------------------------
(* An interrupt notes the task that runs on a CPU.                         *)
Sample(c, t) ==
  /\ sampling /\ c \in online /\ t \in alive
  /\ refs' = [refs EXCEPT ![c] = @ \cup {t}]
  /\ UNCHANGED << phase, sampling, taskVars, syncing, batch, late, marked, cpuVars, worker,
                  direct >>

Referenced(t) == t \in batch \/ \E c \in CPUs : t \in refs[c]

(* The last reference to a task is dropped: task_free_notify() takes it,   *)
(* or without the notifier the kernel frees it.                            *)
TaskFree(t) ==
  /\ t \in alive /\ alive' = alive \ {t}
  /\ IF phase = "on"
     THEN dying' = dying \cup {t} /\ UNCHANGED << freed, direct >>
     ELSE /\ freed' = freed \cup {t} /\ direct' = (direct \/ Referenced(t))
          /\ UNCHANGED dying
  /\ UNCHANGED << phase, sampling, dead, ringVars, cpuVars, worker >>

-----------------------------------------------------------------------------
(* sync_buffer() acquires the entries it will follow.                      *)
BeginSync(c) ==
  /\ syncing = NoCpu
  /\ syncing' = c /\ batch' = refs[c] /\ refs' = [refs EXCEPT ![c] = {}]
  /\ late' = (phase \in {"flushed", "emptying", "emptied"})
  /\ UNCHANGED << phase, sampling, taskVars, marked, cpuVars, worker, direct >>

(* wq_sync_buffer()                                                        *)
WorkerSync(c) == phase # "off" /\ c \in worker /\ c \in online /\ BeginSync(c)

(* task_exit_notify(), munmap_notify()                                     *)
NotifierSync(c) == phase = "on" /\ c \in online /\ BeginSync(c)

(* Mutant: the CPUs stay marked.                                           *)
MarkDoneKeepsMarks ==
  /\ syncing # NoCpu
  /\ syncing' = NoCpu /\ batch' = {} /\ marked' = marked \cup {syncing}
  /\ IF online \subseteq marked' THEN ProcessTaskMortuary ELSE UNCHANGED << freed, dead, dying >>
  /\ UNCHANGED << phase, sampling, alive, refs, late, cpuVars, worker, direct >>

(* Mutant: it waits for CPUs that are offline.                             *)
MarkDonePossible ==
  /\ syncing # NoCpu
  /\ syncing' = NoCpu /\ batch' = {}
  /\ IF CPUs \subseteq marked \cup {syncing}
     THEN marked' = {} /\ ProcessTaskMortuary
     ELSE marked' = marked \cup {syncing} /\ UNCHANGED << freed, dead, dying >>
  /\ UNCHANGED << phase, sampling, alive, refs, late, cpuVars, worker, direct >>

(* mark_done()                                                             *)
MarkDone ==
  /\ syncing # NoCpu
  /\ syncing' = NoCpu /\ batch' = {}
  /\ IF online \subseteq marked \cup {syncing}
     THEN marked' = {} /\ ProcessTaskMortuary
     ELSE marked' = marked \cup {syncing} /\ UNCHANGED << freed, dead, dying >>
  /\ UNCHANGED << phase, sampling, alive, refs, late, cpuVars, worker, direct >>

(* wq_sync_buffer() of a CPU that is offline gives up its work item.       *)
WorkerGivesUp(c) ==
  /\ c \in worker \ online /\ worker' = worker \ {c}
  /\ UNCHANGED << phase, sampling, taskVars, ringVars, cpuVars, direct >>

-----------------------------------------------------------------------------
(* Nothing in the driver looks at a CPU that comes or goes.                *)
Offline(c) ==
  /\ c \in online /\ online # {c}
  /\ online' = online \ {c} /\ unplugged' = (unplugged \/ refs[c] # {})
  /\ UNCHANGED << phase, sampling, taskVars, ringVars, worker, direct >>

Online(c) ==
  /\ c \notin online /\ online' = online \cup {c}
  /\ UNCHANGED << phase, sampling, taskVars, ringVars, unplugged, worker, direct >>

Next ==
  \/ StartWork \/ Register \/ RegisterFails \/ StartStop
  \/ Unregister \/ EndCpuWork \/ EndSync \/ FreeCpuBuffers \/ MarkDone
  \/ \E c \in CPUs, t \in Tasks : Sample(c, t)
  \/ \E t \in Tasks : TaskFree(t)
  \/ \E c \in CPUs : WorkerSync(c)
  \/ \E c \in CPUs : NotifierSync(c)
  \/ \E c \in CPUs : WorkerGivesUp(c)
  \/ \E c \in CPUs : Offline(c)
  \/ \E c \in CPUs : Online(c)

(* Work items run again every tenth of a second and wait their turn for    *)
(* the mutex; a sync ends.                                                 *)
Fairness ==
  /\ WF_vars(MarkDone)
  /\ WF_vars(EndCpuWork) /\ WF_vars(EndSync) /\ WF_vars(FreeCpuBuffers)
  /\ \A c \in CPUs : SF_vars(WorkerSync(c))

Spec == Init /\ [][Next]_vars /\ Fairness

-----------------------------------------------------------------------------
TypeOK ==
  /\ phase \in {"off", "working", "on", "stopping", "flushed", "emptying", "emptied"}
  /\ sampling \in BOOLEAN /\ late \in BOOLEAN /\ direct \in BOOLEAN /\ unplugged \in BOOLEAN
  /\ alive \subseteq Tasks /\ dying \subseteq Tasks /\ dead \subseteq Tasks /\ freed \subseteq Tasks
  /\ dying \cap dead = {} /\ (dying \cup dead) \cap freed = {}
  /\ alive \cap (dying \cup dead \cup freed) = {}
  /\ refs \in [CPUs -> SUBSET Tasks] /\ batch \subseteq Tasks
  /\ syncing \in CPUs \cup {NoCpu}
  /\ marked \subseteq CPUs /\ online \subseteq CPUs /\ worker \subseteq CPUs

(* "Only after two full buffer syncs does the task eventually get freed,   *)
(* because by then we are sure we will not reference it again"             *)
(* (buffer_sync.c:60): sync_buffer() never follows a pointer to a freed    *)
(* task.                                                                   *)
NoFreedTaskFollowed == batch \cap freed = {}

(* It does so only in a sync after end_cpu_work(), or if a task died after *)
(* task_handoff_unregister() while a CPU buffer referred to it, or if a    *)
(* CPU went offline with entries in its buffer.                            *)
NoUseAfterFree == NoFreedTaskFollowed \/ late \/ direct \/ unplugged

(* "Any tasks on dead_tasks will definitely have no remaining references   *)
(* in any CPU buffers" (buffer_sync.c:492) once every online CPU is        *)
(* marked: the marked CPUs hold none.                                      *)
MarkedHoldNoDead ==
  phase \in {"on", "stopping"} /\ ~direct /\ ~unplugged
    => \A c \in marked : refs[c] \cap dead = {}

(* "makes sure the task mortuary progresses" (cpu_buffer.c:390): a task in *)
(* the mortuary is freed, unless a CPU is online that came too late for    *)
(* start_cpu_work() or lost its work item while it was offline.            *)
MortuaryProgresses ==
  \A t \in Tasks : t \in dying \cup dead ~> (t \in freed \/ \E c \in online : c \notin worker)
=============================================================================

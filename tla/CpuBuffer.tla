------------------------------ MODULE CpuBuffer ------------------------------
(***************************************************************************)
(* One per-CPU sample buffer (driver/cpu_buffer.c): a ring that the        *)
(* interrupt handler of that CPU fills and sync_buffer() empties, without  *)
(* a lock.  The writer owns head_pos, the reader owns tail_pos; each looks *)
(* at the other's index, and the reader also clears last_task and          *)
(* last_is_kernel, which the writer compares and sets.                     *)
(*                                                                         *)
(* The writer advances one buffer entry per step, so a reader on another   *)
(* CPU can see every intermediate ring.  A reader on the same CPU          *)
(* (SameCpu) is preempted by the handler and never the other way round.    *)
(*                                                                         *)
(* The sources hold two builds of this code.  RRPROFILE, the one the       *)
(* Makefile selects, writes the task as two entries (TGID, TID) where the  *)
(* other writes one, and adds timestamp entries around every sample.       *)
(***************************************************************************)
EXTENDS Integers

CONSTANTS
  RRPROFILE,      \* which of the two builds
  BufferSize,     \* cpu_buffer[i].buffer_size
  Tasks,          \* the tasks an interrupt can hit
  NoTask,         \* NULL
  MaxDepth,       \* bound: oprofile_backtrace_depth
  SameCpu,        \* does sync_buffer() run on the CPU whose buffer it drains?
  MaxInterrupts   \* bound: handler invocations in one behaviour

ASSUME CpuBufferAssumption ==
  /\ RRPROFILE \in BOOLEAN
  /\ BufferSize \in Nat \ {0}
  /\ NoTask \notin Tasks
  /\ MaxDepth \in Nat
  /\ SameCpu \in BOOLEAN
  /\ MaxInterrupts \in Nat

VARIABLES
  buffer,           \* the slots of the ring
  head_pos,         \* next slot to write
  tail_pos,         \* next slot to read
  last_task,        \* task of the last context note
  last_is_kernel,   \* mode of the last kernel/user note; -1: none
  tracing,          \* inside begin_trace .. end_trace
  stats,            \* the counters of the buffer
  wpc,              \* where the handler is
  cur,              \* the interrupt the handler works on
  frames,           \* stack frames the backtrace has offered so far
  depth,            \* oprofile_backtrace_depth; 0: no backtraces
  interrupts,       \* handler invocations so far (bound)
  rpc,              \* where sync_buffer() is
  available,        \* its remaining iterations
  overrun           \* history: the writer has run into the reader's index

ringVars   == << buffer, head_pos, overrun >>
writerVars == << last_task, last_is_kernel, tracing, stats, wpc, cur, frames,
                 interrupts, depth >>
readerVars == << tail_pos, rpc, available >>
vars       == << ringVars, writerVars, readerVars >>

Slots == 0 .. BufferSize - 1

(* An entry's eip: a usable address, NULL, or ESCAPE_CODE, which makes the *)
(* entry a note whose kind is its event.                                   *)
Pcs   == {"address", "null", "escape"}
Kinds == {"kernel", "task", "tgid", "tid", "begin", "sampling_start",
          "sampling_stop", "sample_start", "sample_stop", "sample", "frame"}

(* The interrupt behind an entry.  The decoder sees only what the C entry  *)
(* carries (kernel in a mode note, task in a context note); id and hole    *)
(* are there for the properties: hole says that the handler overlapped     *)
(* the reader's window between reading head_pos and clearing last_task.    *)
Interrupts == [task : Tasks, kernel : {0, 1}, pc : Pcs, id : Nat, hole : BOOLEAN]
Entries    == [kind : Kinds, pc : Pcs, src : Interrupts]
Counters   == {"received", "lost", "aborted", "invalid"}

ResetWindow == {"reset_kernel", "reset_task"}

-----------------------------------------------------------------------------
(* Ring arithmetic                                                         *)

(* Mutant: forgets the slot that tells a full ring from an empty one.      *)
NrAvailableSlotsNoGap ==
  IF tail_pos > head_pos THEN tail_pos - head_pos
                         ELSE tail_pos + (BufferSize - head_pos)

NrAvailableSlots ==
  IF tail_pos > head_pos
  THEN (tail_pos - head_pos) - 1
  ELSE tail_pos + (BufferSize - head_pos) - 1

(* What get_slots() computes from the two indices.                         *)
SlotsUsed ==
  IF head_pos >= tail_pos
  THEN head_pos - tail_pos
  ELSE head_pos + (BufferSize - tail_pos)

(* Mutant: wraps one slot late.                                            *)
IncrementPastEnd(pos) == IF pos + 1 <= BufferSize THEN pos + 1 ELSE 0

Increment(pos) == IF pos + 1 < BufferSize THEN pos + 1 ELSE 0

(* The room log_sample() and oprofile_begin_trace() ask for.  Mutant: one  *)
(* slot less than a mode note, a task note and the sample take.            *)
SpaceForSampleShort == NrAvailableSlots >= 2

SpaceForSample == NrAvailableSlots >= 3
SpaceForTrace  == NrAvailableSlots >= 4

(* The mode that no sample has.  Mutant: 0, which is user mode.            *)
InvalidModeZero == 0

InvalidMode == -1

(* What an interrupt that never happened leaves in cur and in the slots.   *)
Junk(task) == [task |-> task, kernel |-> 0, pc |-> "null", id |-> 0, hole |-> TRUE]

(* alloc_cpu_buffers(); a slot nobody wrote holds anything.                *)
Init ==
  /\ \E task \in Tasks :
       /\ cur = Junk(task)
       /\ buffer = [s \in Slots |-> [kind |-> "frame", pc |-> "null", src |-> Junk(task)]]
  /\ head_pos = 0 /\ tail_pos = 0
  /\ last_task = NoTask /\ last_is_kernel = InvalidMode
  /\ tracing = FALSE
  /\ stats = [c \in Counters |-> 0]
  /\ wpc = "idle" /\ frames = 0 /\ interrupts = 0
  /\ depth \in 0 .. MaxDepth
  /\ rpc = "idle" /\ available = 0
  /\ overrun = FALSE

-----------------------------------------------------------------------------
(* The writer                                                              *)

(* add_sample() and, for notes, add_code(): fill the slot, move the head.  *)
AddSlot(kind, pc) ==
  /\ buffer' = [buffer EXCEPT ![head_pos] = [kind |-> kind, pc |-> pc, src |-> cur]]
  /\ head_pos' = Increment(head_pos)
  /\ overrun' = (overrun \/ Increment(head_pos) = tail_pos)

AddCode(kind) == AddSlot(kind, "escape")

(* oprofile_end_trace() on the way out of oprofile_add_ext_sample().       *)
Leave ==
  /\ wpc' = "idle"
  /\ tracing' = FALSE

(* A timer tick, counter overflow or NMI at an arbitrary place.            *)
Interrupt(task, kernel, pc) ==
  /\ wpc = "idle"
  /\ interrupts < MaxInterrupts
  /\ interrupts' = interrupts + 1
  /\ cur' = [task |-> task, kernel |-> kernel, pc |-> pc, id |-> interrupts + 1,
             hole |-> rpc \in ResetWindow]
  /\ wpc' = IF RRPROFILE THEN "sample_start" ELSE "ext_sample"
  /\ frames' = 0
  /\ UNCHANGED << ringVars, last_task, last_is_kernel, tracing, stats, depth, readerVars >>

(* oprofile_add_start() and oprofile_add_stop(), called on every CPU when  *)
(* profiling starts and stops: no look at the free slots.                  *)
AddSamplingMark(kind) ==
  /\ RRPROFILE
  /\ wpc = "idle"
  /\ interrupts < MaxInterrupts
  /\ interrupts' = interrupts + 1
  /\ AddCode(kind)
  /\ UNCHANGED << last_task, last_is_kernel, tracing, stats, wpc, cur, frames,
                  depth, readerVars >>

(* oprofile_add_sample_start() and _stop(): no look at the free slots.     *)
AddSampleStamp(kind, next) ==
  /\ wpc = kind
  /\ AddCode(kind)
  /\ wpc' = next
  /\ UNCHANGED << last_task, last_is_kernel, tracing, stats, cur, frames, interrupts, depth,
                  readerVars >>

AddSampleStart == AddSampleStamp("sample_start", "sample_stop")
AddSampleStop  == AddSampleStamp("sample_stop", "ext_sample")

(* oprofile_add_ext_sample() up to its call of log_sample().               *)
BeginTrace ==
  /\ IF ~SpaceForTrace
     THEN /\ stats' = [stats EXCEPT !.lost = @ + 1]
          /\ wpc' = "idle"
          /\ UNCHANGED << ringVars, tracing >>
     ELSE /\ AddCode("begin")
          /\ tracing' = TRUE
          /\ wpc' = "log"
          /\ UNCHANGED stats

AddExtSample ==
  /\ wpc = "ext_sample"
  /\ \/ /\ depth = 0
        /\ wpc' = "log"
        /\ UNCHANGED << ringVars, tracing, stats >>
     \/ /\ depth > 0
        /\ BeginTrace
  /\ UNCHANGED << last_task, last_is_kernel, cur, frames, interrupts, depth, readerVars >>

(* log_sample() up to its last early return.                               *)
LogSample ==
  /\ wpc = "log"
  /\ \/ /\ cur.pc = "escape"
        /\ stats' = [stats EXCEPT !.received = @ + 1, !.invalid = @ + 1]
        /\ Leave
     \/ /\ cur.pc # "escape"
        /\ ~SpaceForSample
        /\ stats' = [stats EXCEPT !.received = @ + 1, !.lost = @ + 1]
        /\ Leave
     \/ /\ cur.pc # "escape"
        /\ SpaceForSample
        /\ stats' = [stats EXCEPT !.received = @ + 1]
        /\ wpc' = "kernel"
        /\ UNCHANGED tracing
  /\ UNCHANGED << ringVars, last_task, last_is_kernel, cur, frames, interrupts, depth,
                  readerVars >>

(* log_sample() notices a switch from user to kernel or vice versa.        *)
NoteKernel ==
  /\ wpc = "kernel"
  /\ wpc' = "task"
  /\ last_is_kernel' = cur.kernel
  /\ IF last_is_kernel # cur.kernel THEN AddCode("kernel") ELSE UNCHANGED ringVars
  /\ UNCHANGED << last_task, tracing, stats, cur, frames, interrupts, depth, readerVars >>

(* Mutant: writes the TID alone.                                           *)
NoteTaskTidOnly ==
  /\ wpc = "task"
  /\ last_task' = cur.task
  /\ wpc' = "sample"
  /\ IF last_task = cur.task THEN UNCHANGED ringVars ELSE AddCode("tid")
  /\ UNCHANGED << last_is_kernel, tracing, stats, cur, frames, interrupts, depth, readerVars >>

(* log_sample() notices a task switch; RRPROFILE needs NoteTid as well.    *)
NoteTask ==
  /\ wpc = "task"
  /\ last_task' = cur.task
  /\ IF last_task = cur.task
     THEN wpc' = "sample" /\ UNCHANGED ringVars
     ELSE IF RRPROFILE
          THEN wpc' = "tid" /\ AddCode("tgid")
          ELSE wpc' = "sample" /\ AddCode("task")
  /\ UNCHANGED << last_is_kernel, tracing, stats, cur, frames, interrupts, depth, readerVars >>

NoteTid ==
  /\ wpc = "tid"
  /\ AddCode("tid")
  /\ wpc' = "sample"
  /\ UNCHANGED << last_task, last_is_kernel, tracing, stats, cur, frames, interrupts, depth,
                  readerVars >>

(* The sample itself; then the backtrace, if there is one.                 *)
AddSample ==
  /\ wpc = "sample"
  /\ AddSlot("sample", cur.pc)
  /\ wpc' = IF depth > 0 THEN "frames" ELSE "idle"
  /\ UNCHANGED << last_task, last_is_kernel, tracing, stats, cur, frames, interrupts, depth,
                  readerVars >>

(* oprofile_add_trace(), once for each frame the unwinder finds.           *)
AddTrace(pc) ==
  /\ wpc = "frames"
  /\ frames < depth
  /\ frames' = frames + 1
  /\ \/ /\ ~tracing
        /\ UNCHANGED << ringVars, tracing, stats >>
     \/ /\ tracing
        /\ NrAvailableSlots < 1
        /\ tracing' = FALSE
        /\ stats' = [stats EXCEPT !.lost = @ + 1]
        /\ UNCHANGED ringVars
     \/ /\ tracing
        /\ NrAvailableSlots >= 1
        /\ pc = "escape"
        /\ tracing' = FALSE
        /\ stats' = [stats EXCEPT !.aborted = @ + 1]
        /\ UNCHANGED ringVars
     \/ /\ tracing
        /\ NrAvailableSlots >= 1
        /\ pc # "escape"
        /\ AddSlot("frame", pc)
        /\ UNCHANGED << tracing, stats >>
  /\ UNCHANGED << last_task, last_is_kernel, wpc, cur, interrupts, depth, readerVars >>

EndTrace ==
  /\ wpc = "frames"
  /\ Leave
  /\ UNCHANGED << ringVars, last_task, last_is_kernel, stats, cur, frames, interrupts, depth,
                  readerVars >>

HandlerStep ==
  \/ AddSampleStart \/ AddSampleStop
  \/ AddExtSample \/ LogSample \/ NoteKernel \/ NoteTask \/ NoteTid \/ AddSample
  \/ \E pc \in Pcs : AddTrace(pc)
  \/ EndTrace

Arrival ==
  \/ \E task \in Tasks, kernel \in {0, 1}, pc \in Pcs : Interrupt(task, kernel, pc)
  \/ \E kind \in {"sampling_start", "sampling_stop"} : AddSamplingMark(kind)

-----------------------------------------------------------------------------
(* The reader: the part of sync_buffer() that touches the ring.  Its       *)
(* callers hold buffer_sem, so there is one at a time.                     *)

ReaderRuns == SameCpu => wpc = "idle"

(* get_slots(): read the indices, then cpu_buffer_reset(), whose two       *)
(* stores an interrupt can separate.                                       *)
GetSlots ==
  /\ rpc = "idle"
  /\ ReaderRuns
  /\ available' = SlotsUsed
  /\ rpc' = "reset_kernel"
  /\ cur' = [cur EXCEPT !.hole = TRUE]
  /\ UNCHANGED << ringVars, last_task, last_is_kernel, tracing, stats, wpc, frames,
                  interrupts, depth, tail_pos >>

ResetKernel ==
  /\ rpc = "reset_kernel"
  /\ ReaderRuns
  /\ last_is_kernel' = InvalidMode
  /\ rpc' = "reset_task"
  /\ UNCHANGED << ringVars, last_task, tracing, stats, wpc, cur, frames, interrupts, depth,
                  tail_pos, available >>

(* Mutant: the task survives the reset.                                    *)
ResetTaskForgotten ==
  /\ rpc = "reset_task"
  /\ ReaderRuns
  /\ rpc' = "drain"
  /\ UNCHANGED << ringVars, writerVars, tail_pos, available >>

ResetTask ==
  /\ rpc = "reset_task"
  /\ ReaderRuns
  /\ last_task' = NoTask
  /\ rpc' = "drain"
  /\ UNCHANGED << ringVars, last_is_kernel, tracing, stats, wpc, cur, frames,
                  interrupts, depth, tail_pos, available >>

(* One iteration of the loop: increment_tail() after the entry is used.    *)
Drain ==
  /\ rpc = "drain"
  /\ ReaderRuns
  /\ available > 0
  /\ available' = available - 1
  /\ tail_pos' = Increment(tail_pos)
  /\ UNCHANGED << ringVars, writerVars, rpc >>

EndSync ==
  /\ rpc = "drain"
  /\ ReaderRuns
  /\ available = 0
  /\ rpc' = "idle"
  /\ UNCHANGED << ringVars, writerVars, tail_pos, available >>

ReaderStep == GetSlots \/ ResetKernel \/ ResetTask \/ Drain \/ EndSync

Next == Arrival \/ HandlerStep \/ ReaderStep

Spec == Init /\ [][Next]_vars

-----------------------------------------------------------------------------
(* Properties                                                              *)

(* Types; in particular both indices stay inside the allocated buffer,     *)
(* whose bounds add_sample() and cpu_buffer_entry() do not check.          *)
TypeOK ==
  /\ buffer \in [Slots -> Entries]
  /\ head_pos \in Slots
  /\ tail_pos \in Slots
  /\ last_task \in Tasks \cup {NoTask}
  /\ last_is_kernel \in {-1, 0, 1}
  /\ tracing \in BOOLEAN
  /\ stats \in [Counters -> Nat]
  /\ wpc \in {"idle", "sample_start", "sample_stop", "ext_sample", "log", "kernel",
              "task", "tid", "sample", "frames"}
  /\ cur \in Interrupts
  /\ frames \in Nat
  /\ interrupts \in Nat
  /\ depth \in Nat
  /\ rpc \in {"idle", "reset_kernel", "reset_task", "drain"}
  /\ available \in Nat
  /\ overrun \in BOOLEAN

(* "It's safe writing here because of the head/tail separation of the      *)
(* writer and reader" (log_sample()): the writer never advances head_pos   *)
(* onto tail_pos, which would make a full ring look empty and throw away   *)
(* everything in it.                                                       *)
NoOverrun == ~overrun

(* The ring as a queue, oldest entry first.                                *)
RingIndex(i) ==
  IF tail_pos + i < BufferSize THEN tail_pos + i ELSE tail_pos + i - BufferSize

RingContents == [i \in 1 .. SlotsUsed |-> buffer[RingIndex(i - 1)]]

Fifo == INSTANCE SampleFifo WITH Capacity <- BufferSize - 1, queue <- RingContents

(* The lock-free ring implements a bounded FIFO: whatever the interleaving *)
(* of the handler and sync_buffer(), every entry logged is read once, in   *)
(* order, and unchanged.                                                   *)
ImplementsFifo == Fifo!Spec
=============================================================================

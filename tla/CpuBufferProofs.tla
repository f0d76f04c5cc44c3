--------------------------- MODULE CpuBufferProofs ---------------------------
(***************************************************************************)
(* What holds of the per-CPU buffer for every BufferSize, every set of     *)
(* tasks and every backtrace depth: the types in both builds, and in the   *)
(* build without RRPROFILE that the ring never overruns and is a FIFO.     *)
(***************************************************************************)
EXTENDS CpuBuffer, SequenceTheorems, TLAPS

(* Every variable keeps its type: in particular both indices stay inside   *)
(* the allocated buffer (increment_head, increment_tail).                  *)
THEOREM TypeCorrect == Spec => []TypeOK
<1> USE CpuBufferAssumption
<1>0. TypeOK => NrAvailableSlots \in Nat /\ SlotsUsed \in Nat
  BY DEF TypeOK, Slots, NrAvailableSlots, SlotsUsed
<1>1. Init => TypeOK
  <2> SUFFICES ASSUME Init PROVE TypeOK
    OBVIOUS
  <2>1. \A task \in Tasks : Junk(task) \in Interrupts
    BY DEF Junk, Interrupts, Pcs
  <2>2. cur \in Interrupts /\ buffer \in [Slots -> Entries]
    BY <2>1 DEF Init, Entries, Kinds, Pcs
  <2>3. head_pos \in Slots /\ tail_pos \in Slots /\ depth \in Nat
    BY DEF Init, Slots
  <2>4. stats \in [Counters -> Nat]
    BY DEF Init
  <2> QED
    BY <2>2, <2>3, <2>4 DEF Init, TypeOK, InvalidMode
<1>2. TypeOK /\ [Next]_vars => TypeOK'
  <2> SUFFICES ASSUME TypeOK, [Next]_vars PROVE TypeOK'
    OBVIOUS
  <2>0. \A pos \in Slots : Increment(pos) \in Slots
    BY DEF Slots, Increment
  <2>a. ASSUME NEW kind \in Kinds, NEW pc \in Pcs, AddSlot(kind, pc)
        PROVE  /\ buffer' \in [Slots -> Entries]
               /\ head_pos' \in Slots
               /\ overrun' \in BOOLEAN
    BY <2>a, <2>0 DEF AddSlot, TypeOK, Entries
  <2>b. UNCHANGED ringVars =>
          /\ buffer' \in [Slots -> Entries]
          /\ head_pos' \in Slots
          /\ overrun' \in BOOLEAN
    BY DEF ringVars, TypeOK
  <2>c. ASSUME NEW kind \in Kinds, AddCode(kind)
        PROVE  /\ buffer' \in [Slots -> Entries]
               /\ head_pos' \in Slots
               /\ overrun' \in BOOLEAN
    BY <2>c, <2>a DEF AddCode, Pcs
  <2>d. /\ [stats EXCEPT !.received = @ + 1, !.invalid = @ + 1] \in [Counters -> Nat]
        /\ [stats EXCEPT !.received = @ + 1, !.lost = @ + 1] \in [Counters -> Nat]
        /\ [stats EXCEPT !.received = @ + 1] \in [Counters -> Nat]
        /\ [stats EXCEPT !.lost = @ + 1] \in [Counters -> Nat]
        /\ [stats EXCEPT !.aborted = @ + 1] \in [Counters -> Nat]
    <3>1. ASSUME NEW c \in Counters, NEW d \in Counters
          PROVE  /\ [stats EXCEPT ![c] = @ + 1] \in [Counters -> Nat]
                 /\ [stats EXCEPT ![c] = @ + 1, ![d] = @ + 1] \in [Counters -> Nat]
      BY DEF TypeOK
    <3>2. /\ "received" \in Counters /\ "lost" \in Counters
          /\ "aborted" \in Counters /\ "invalid" \in Counters
      BY DEF Counters
    <3>3. [stats EXCEPT !.received = @ + 1, !.invalid = @ + 1] \in [Counters -> Nat]
      BY <3>1, <3>2
    <3>4. [stats EXCEPT !.received = @ + 1, !.lost = @ + 1] \in [Counters -> Nat]
      BY <3>1, <3>2
    <3>5. [stats EXCEPT !.received = @ + 1] \in [Counters -> Nat]
      BY <3>1, <3>2
    <3>6. [stats EXCEPT !.lost = @ + 1] \in [Counters -> Nat]
      BY <3>1, <3>2
    <3>7. [stats EXCEPT !.aborted = @ + 1] \in [Counters -> Nat]
      BY <3>1, <3>2
    <3> QED
      BY <3>3, <3>4, <3>5, <3>6, <3>7
  <2> USE DEF TypeOK, readerVars
  <2>1. ASSUME NEW task \in Tasks, NEW kernel \in {0, 1}, NEW pc \in Pcs,
               Interrupt(task, kernel, pc)
        PROVE  TypeOK'
    BY <2>1, <2>b DEF Interrupt, Interrupts
  <2>2. ASSUME NEW kind \in {"sampling_start", "sampling_stop"}, AddSamplingMark(kind)
        PROVE  TypeOK'
    BY <2>2, <2>c DEF AddSamplingMark, Kinds
  <2>3. CASE AddSampleStart
    BY <2>3, <2>c DEF AddSampleStart, AddSampleStamp, Kinds
  <2>4. CASE AddSampleStop
    BY <2>4, <2>c DEF AddSampleStop, AddSampleStamp, Kinds
  <2>5. CASE AddExtSample
    <3>1. stats' \in [Counters -> Nat]
      <4>1. stats' = stats \/ stats' = [stats EXCEPT !.lost = @ + 1]
        BY <2>5 DEF AddExtSample, BeginTrace
      <4> QED
        BY <4>1, <2>d
    <3> QED
      BY <2>5, <2>c, <2>b, <3>1 DEF AddExtSample, BeginTrace, Kinds
  <2>6. CASE LogSample
    <3>1. stats' \in [Counters -> Nat]
      <4>1. \/ stats' = [stats EXCEPT !.received = @ + 1, !.invalid = @ + 1]
            \/ stats' = [stats EXCEPT !.received = @ + 1, !.lost = @ + 1]
            \/ stats' = [stats EXCEPT !.received = @ + 1]
        BY <2>6 DEF LogSample
      <4> QED
        BY <4>1, <2>d
    <3> QED
      BY <2>6, <2>b, <3>1 DEF LogSample, Leave
  <2>7. CASE NoteKernel
    BY <2>7, <2>b, <2>c DEF NoteKernel, Kinds, Interrupts
  <2>8. CASE NoteTask
    BY <2>8, <2>b, <2>c DEF NoteTask, Kinds, Interrupts
  <2>9. CASE NoteTid
    BY <2>9, <2>c DEF NoteTid, Kinds
  <2>10. CASE AddSample
    BY <2>10, <2>a DEF AddSample, Kinds, Interrupts
  <2>11. ASSUME NEW pc \in Pcs, AddTrace(pc)
         PROVE  TypeOK'
    <3>1. stats' \in [Counters -> Nat]
      <4>1. \/ stats' = stats
            \/ stats' = [stats EXCEPT !.lost = @ + 1]
            \/ stats' = [stats EXCEPT !.aborted = @ + 1]
        BY <2>11 DEF AddTrace
      <4> QED
        BY <4>1, <2>d
    <3>2. /\ buffer' \in [Slots -> Entries]
          /\ head_pos' \in Slots
          /\ overrun' \in BOOLEAN
      BY <2>11, <2>a, <2>b DEF AddTrace, Kinds
    <3>3. tracing' \in BOOLEAN
      <4>1. tracing' = tracing \/ tracing' = FALSE
        BY <2>11 DEF AddTrace
      <4> QED
        BY <4>1
    <3>5. frames' = frames + 1
      BY <2>11 DEF AddTrace
    <3>6. frames' \in Nat
      BY <3>5
    <3>4. UNCHANGED << last_task, last_is_kernel, wpc, cur, interrupts, depth, readerVars >>
      BY <2>11 DEF AddTrace
    <3> QED
      BY <3>1, <3>2, <3>3, <3>4, <3>6
  <2>12. CASE EndTrace
    BY <2>12, <2>b DEF EndTrace, Leave
  <2>13. CASE GetSlots
    <3>1. cur' \in Interrupts
      BY <2>13 DEF GetSlots, Interrupts
    <3> QED
      BY <2>13, <2>b, <3>1, <1>0 DEF GetSlots
  <2>14. CASE ResetKernel
    BY <2>14, <2>b DEF ResetKernel, InvalidMode
  <2>15. CASE ResetTask
    BY <2>15, <2>b DEF ResetTask
  <2>16. CASE Drain
    BY <2>16, <2>b, <2>0 DEF Drain, writerVars
  <2>17. CASE EndSync
    BY <2>17, <2>b DEF EndSync, writerVars
  <2>18. CASE UNCHANGED vars
    BY <2>18, <2>b DEF vars, writerVars
  <2> QED
    BY <2>1, <2>2, <2>3, <2>4, <2>5, <2>6, <2>7, <2>8, <2>9, <2>10, <2>11, <2>12,
       <2>13, <2>14, <2>15, <2>16, <2>17, <2>18
       DEF Next, Arrival, HandlerStep, ReaderStep
<1> QED
  BY <1>1, <1>2, PTL DEF Spec

-----------------------------------------------------------------------------
(* The ring arithmetic: used and free slots add up to one less than the    *)
(* buffer, a written entry takes one, a drained entry gives one back.      *)
LEMMA SlotsAddUp ==
  ASSUME TypeOK
  PROVE  /\ SlotsUsed \in Nat /\ NrAvailableSlots \in Nat
         /\ SlotsUsed + NrAvailableSlots = BufferSize - 1
BY CpuBufferAssumption DEF TypeOK, Slots, SlotsUsed, NrAvailableSlots

LEMMA WriteTakesOneSlot ==
  ASSUME TypeOK, NrAvailableSlots >= 1,
         head_pos' = Increment(head_pos), tail_pos' = tail_pos
  PROVE  /\ Increment(head_pos) # tail_pos
         /\ NrAvailableSlots' = NrAvailableSlots - 1
         /\ SlotsUsed' = SlotsUsed + 1
BY CpuBufferAssumption DEF TypeOK, Slots, SlotsUsed, NrAvailableSlots, Increment

LEMMA DrainFreesOneSlot ==
  ASSUME TypeOK, SlotsUsed >= 1,
         tail_pos' = Increment(tail_pos), head_pos' = head_pos
  PROVE  /\ NrAvailableSlots' = NrAvailableSlots + 1
         /\ SlotsUsed' = SlotsUsed - 1
BY CpuBufferAssumption DEF TypeOK, Slots, SlotsUsed, NrAvailableSlots, Increment

(* Why, without RRPROFILE: the handler never has more entries left to      *)
(* write than log_sample() made sure of (a reader only adds room), and     *)
(* sync_buffer() never takes more entries than it counted in the ring.     *)
RoomLeft ==
  /\ wpc = "kernel" => NrAvailableSlots >= 3
  /\ wpc = "task"   => NrAvailableSlots >= 2
  /\ wpc = "sample" => NrAvailableSlots >= 1
  /\ wpc \notin {"sample_start", "sample_stop", "tid"}

RingInv == TypeOK /\ NoOverrun /\ available <= SlotsUsed /\ RoomLeft

(* The build without RRPROFILE never overruns its ring, whatever the size  *)
(* and whatever the reader does meanwhile: log_sample()'s one look at the  *)
(* free slots covers all three entries it may write.                       *)
THEOREM RingSafe == ASSUME ~RRPROFILE PROVE Spec => []RingInv
<1> DEFINE Room == NoOverrun /\ available <= SlotsUsed /\ RoomLeft
<1>0. (TypeOK => SlotsUsed \in Nat /\ NrAvailableSlots \in Nat)'
  BY SlotsAddUp, PTL
<1>1. Init => Room
  BY CpuBufferAssumption DEF Init, NoOverrun, RoomLeft, SlotsUsed
<1>2. TypeOK /\ TypeOK' /\ Room /\ [Next]_vars => Room'
  <2> SUFFICES ASSUME TypeOK, TypeOK', Room, [Next]_vars PROVE Room'
    OBVIOUS
  <2>0. /\ SlotsUsed \in Nat /\ NrAvailableSlots \in Nat
        /\ SlotsUsed' \in Nat /\ NrAvailableSlots' \in Nat
        /\ available \in Nat
    BY SlotsAddUp, <1>0 DEF TypeOK
  <2>a. ASSUME NEW kind, NEW pc, AddSlot(kind, pc),
               NrAvailableSlots >= 1, tail_pos' = tail_pos
        PROVE  /\ ~overrun'
               /\ NrAvailableSlots' = NrAvailableSlots - 1
               /\ SlotsUsed' = SlotsUsed + 1
    BY <2>a, WriteTakesOneSlot DEF AddSlot, NoOverrun
  <2>b. ASSUME NEW kind, AddCode(kind),
               NrAvailableSlots >= 1, tail_pos' = tail_pos
        PROVE  /\ ~overrun'
               /\ NrAvailableSlots' = NrAvailableSlots - 1
               /\ SlotsUsed' = SlotsUsed + 1
    BY <2>b, <2>a DEF AddCode
  <2>c. ASSUME UNCHANGED ringVars, tail_pos' = tail_pos
        PROVE  /\ ~overrun'
               /\ NrAvailableSlots' = NrAvailableSlots
               /\ SlotsUsed' = SlotsUsed
    BY <2>c DEF ringVars, NrAvailableSlots, SlotsUsed, NoOverrun
  <2> USE <2>0 DEF NoOverrun, RoomLeft, readerVars
  <2>1. ASSUME NEW task \in Tasks, NEW kernel \in {0, 1}, NEW pc \in Pcs,
               Interrupt(task, kernel, pc)
        PROVE  Room'
    BY <2>1, <2>c DEF Interrupt
  <2>2. ASSUME NEW kind \in {"sampling_start", "sampling_stop"}, AddSamplingMark(kind)
        PROVE  Room'
    BY <2>2 DEF AddSamplingMark
  <2>3. CASE AddSampleStart \/ AddSampleStop
    BY <2>3 DEF AddSampleStart, AddSampleStop, AddSampleStamp
  <2>5. CASE AddExtSample
    <3>1. CASE UNCHANGED ringVars
      BY <2>5, <2>c, <3>1 DEF AddExtSample, BeginTrace
    <3>2. CASE SpaceForTrace /\ AddCode("begin")
      BY <2>5, <2>b, <3>2 DEF AddExtSample, BeginTrace, SpaceForTrace
    <3> QED
      BY <2>5, <3>1, <3>2 DEF AddExtSample, BeginTrace
  <2>6. CASE LogSample
    BY <2>6, <2>c DEF LogSample, Leave, SpaceForSample
  <2>7. CASE NoteKernel
    BY <2>7, <2>b, <2>c DEF NoteKernel
  <2>8. CASE NoteTask
    BY <2>8, <2>b, <2>c DEF NoteTask
  <2>9. CASE NoteTid
    BY <2>9 DEF NoteTid
  <2>10. CASE AddSample
    BY <2>10, <2>a DEF AddSample
  <2>11. ASSUME NEW pc \in Pcs, AddTrace(pc)
         PROVE  Room'
    <3>1. wpc = "frames" /\ wpc' = "frames" /\ tail_pos' = tail_pos /\ available' = available
      BY <2>11 DEF AddTrace
    <3>2. \/ UNCHANGED ringVars
          \/ NrAvailableSlots >= 1 /\ AddSlot("frame", pc)
      BY <2>11 DEF AddTrace
    <3> QED
      BY <3>1, <3>2, <2>a, <2>c
  <2>12. CASE EndTrace
    BY <2>12, <2>c DEF EndTrace, Leave
  <2>13. CASE GetSlots
    BY <2>13, <2>c DEF GetSlots
  <2>14. CASE ResetKernel
    BY <2>14, <2>c DEF ResetKernel
  <2>15. CASE ResetTask
    BY <2>15, <2>c DEF ResetTask
  <2>16. CASE Drain
    <3>1. SlotsUsed >= 1 /\ head_pos' = head_pos /\ tail_pos' = Increment(tail_pos)
      BY <2>16 DEF Drain, ringVars
    <3>2. NrAvailableSlots' = NrAvailableSlots + 1 /\ SlotsUsed' = SlotsUsed - 1
      BY <3>1, DrainFreesOneSlot
    <3> QED
      BY <2>16, <3>2 DEF Drain, ringVars, writerVars
  <2>17. CASE EndSync
    BY <2>17, <2>c DEF EndSync, writerVars
  <2>18. CASE UNCHANGED vars
    BY <2>18, <2>c DEF vars, writerVars
  <2> QED
    BY <2>1, <2>2, <2>3, <2>5, <2>6, <2>7, <2>8, <2>9, <2>10, <2>11, <2>12,
       <2>13, <2>14, <2>15, <2>16, <2>17, <2>18
       DEF Next, Arrival, HandlerStep, ReaderStep
<1>3. TypeOK /\ Room => RingInv
  BY DEF RingInv
<1> QED
  BY <1>1, <1>2, <1>3, TypeCorrect, PTL DEF Spec

(* In particular head_pos never catches up with tail_pos, which would make *)
(* a full ring read as an empty one (increment_head, add_sample).          *)
THEOREM RingNeverOverruns == ASSUME ~RRPROFILE PROVE Spec => []NoOverrun
BY RingSafe, PTL DEF RingInv

-----------------------------------------------------------------------------
(* The ring as a queue.  Each step of the handler or of the reader either  *)
(* leaves it alone, or puts one entry at its back, or takes the one at its *)
(* front.                                                                  *)

(* What RingContents is as a sequence.                                     *)
LEMMA QueueDef ==
  ASSUME TypeOK
  PROVE  /\ RingContents \in Seq(Entries)
         /\ Len(RingContents) = SlotsUsed
         /\ \A i \in 1 .. SlotsUsed : RingContents[i] = buffer[RingIndex(i - 1)]
<1>1. SlotsUsed \in Nat /\ SlotsUsed < BufferSize
  BY SlotsAddUp, CpuBufferAssumption
<1>2. \A i \in 1 .. SlotsUsed : RingIndex(i - 1) \in Slots
  BY <1>1, CpuBufferAssumption DEF RingIndex, TypeOK, Slots
<1>3. \A i \in 1 .. SlotsUsed : buffer[RingIndex(i - 1)] \in Entries
  BY <1>2 DEF TypeOK
<1>4. RingContents \in [1 .. SlotsUsed -> Entries]
  BY <1>3 DEF RingContents
<1>5. RingContents \in Seq(Entries)
  BY <1>1, <1>4, SeqDef
<1>6. Len(RingContents) \in Nat /\ DOMAIN RingContents = 1 .. Len(RingContents)
  BY <1>5, LenProperties
<1>7. DOMAIN RingContents = 1 .. SlotsUsed
  BY <1>4
<1>8. Len(RingContents) = SlotsUsed
  <2>1. \A m, n \in Nat : 1 .. m = 1 .. n => m <= n
    <3> SUFFICES ASSUME NEW m \in Nat, NEW n \in Nat, 1 .. m = 1 .. n, ~(m <= n)
                 PROVE  FALSE
      OBVIOUS
    <3>1. m \in 1 .. m /\ m \notin 1 .. n
      OBVIOUS
    <3> QED
      BY <3>1
  <2>2. \A m, n \in Nat : 1 .. m = 1 .. n => m = n
    BY <2>1
  <2> QED
    BY <1>1, <1>6, <1>7, <2>2
<1>9. \A i \in 1 .. SlotsUsed : RingContents[i] = buffer[RingIndex(i - 1)]
  BY DEF RingContents
<1> QED
  BY <1>5, <1>8, <1>9

(* A written entry joins the back: its slot is none of the slots in use.   *)
LEMMA WriteIsPut ==
  ASSUME TypeOK, TypeOK', NrAvailableSlots >= 1,
         NEW kind, NEW pc, AddSlot(kind, pc), tail_pos' = tail_pos
  PROVE  Fifo!Put
<1>1. (TypeOK => Len(RingContents) = SlotsUsed
                 /\ \A i \in 1 .. SlotsUsed : RingContents[i] = buffer[RingIndex(i - 1)])'
  BY QueueDef, PTL
<1>2. SlotsUsed' = SlotsUsed + 1 /\ SlotsUsed \in Nat /\ SlotsUsed + 1 <= BufferSize - 1
  BY WriteTakesOneSlot, SlotsAddUp, CpuBufferAssumption DEF AddSlot
<1>3. ASSUME NEW i \in 1 .. SlotsUsed
      PROVE  RingContents'[i] = RingContents[i]
  <2>1. RingIndex(i - 1)' = RingIndex(i - 1)
    BY DEF RingIndex
  <2>2. RingIndex(i - 1) \in Slots /\ RingIndex(i - 1) # head_pos
    BY <1>2, CpuBufferAssumption DEF RingIndex, TypeOK, Slots, SlotsUsed
  <2>3. buffer'[RingIndex(i - 1)] = buffer[RingIndex(i - 1)]
    BY <2>2 DEF AddSlot, TypeOK
  <2>4. i \in 1 .. SlotsUsed'
    BY <1>2
  <2>5. RingContents'[i] = buffer'[RingIndex(i - 1)']
    BY <1>1, <2>4
  <2> QED
    BY <2>1, <2>3, <2>5, QueueDef
<1>4. Len(RingContents) = SlotsUsed /\ Len(RingContents)' = SlotsUsed'
  BY <1>1, QueueDef
<1> QED
  BY <1>2, <1>3, <1>4 DEF Fifo!Put

(* A drained entry leaves the front: the rest moves up by one.             *)
LEMMA DrainIsGet ==
  ASSUME TypeOK, TypeOK', SlotsUsed >= 1,
         tail_pos' = Increment(tail_pos), head_pos' = head_pos, buffer' = buffer
  PROVE  Fifo!Get
<1>1. (TypeOK => /\ RingContents \in Seq(Entries)
                 /\ Len(RingContents) = SlotsUsed
                 /\ \A i \in 1 .. SlotsUsed : RingContents[i] = buffer[RingIndex(i - 1)])'
  BY QueueDef, PTL
<1>2. SlotsUsed' = SlotsUsed - 1 /\ SlotsUsed \in Nat /\ SlotsUsed <= BufferSize - 1
  BY DrainFreesOneSlot, SlotsAddUp, CpuBufferAssumption
<1>3. RingContents # << >>
  BY <1>2, QueueDef, EmptySeq
<1>4. /\ Tail(RingContents) \in Seq(Entries)
      /\ Len(Tail(RingContents)) = SlotsUsed - 1
      /\ \A i \in 1 .. SlotsUsed - 1 : Tail(RingContents)[i] = RingContents[i + 1]
  BY <1>3, QueueDef, HeadTailProperties
<1>5. ASSUME NEW i \in 1 .. SlotsUsed - 1
      PROVE  RingContents'[i] = Tail(RingContents)[i]
  <2>1. RingIndex(i - 1)' = RingIndex(i)
    BY <1>2, CpuBufferAssumption DEF RingIndex, TypeOK, Slots, Increment
  <2>2. i \in 1 .. SlotsUsed' /\ i + 1 \in 1 .. SlotsUsed /\ (i + 1) - 1 = i
    BY <1>2
  <2>3. RingContents'[i] = buffer[RingIndex(i)]
    BY <1>1, <2>1, <2>2
  <2>4. RingContents[i + 1] = buffer[RingIndex(i)]
    <3>1. RingContents[i + 1] = buffer[RingIndex((i + 1) - 1)]
      BY <2>2, QueueDef
    <3> QED
      BY <3>1, <2>2
  <2> QED
    BY <2>3, <2>4, <1>4
<1>6. RingContents' = Tail(RingContents)
  BY <1>1, <1>2, <1>4, <1>5, SeqEqual
<1> QED
  BY <1>3, <1>6 DEF Fifo!Get

(* Every step is one of three.                                             *)
LEMMA RingStep ==
  ASSUME ~RRPROFILE, RingInv, [Next]_vars
  PROVE  \/ UNCHANGED << buffer, head_pos, tail_pos >>
         \/ /\ NrAvailableSlots >= 1
            /\ tail_pos' = tail_pos
            /\ \E kind, pc : AddSlot(kind, pc)
         \/ /\ SlotsUsed >= 1
            /\ tail_pos' = Increment(tail_pos)
            /\ UNCHANGED << buffer, head_pos >>
<1> USE DEF RingInv, RoomLeft, ringVars, writerVars, readerVars, AddCode
<1>0. NrAvailableSlots \in Nat /\ SlotsUsed \in Nat /\ available \in Nat
  BY SlotsAddUp DEF TypeOK
<1>1. CASE Arrival
  BY <1>1 DEF Arrival, Interrupt, AddSamplingMark
<1>2. CASE AddSampleStart \/ AddSampleStop \/ NoteTid
  BY <1>2 DEF AddSampleStart, AddSampleStop, AddSampleStamp, NoteTid
<1>3. CASE AddExtSample
  BY <1>3, <1>0 DEF AddExtSample, BeginTrace, SpaceForTrace
<1>4. CASE LogSample \/ EndTrace
  BY <1>4 DEF LogSample, EndTrace
<1>5. CASE NoteKernel
  BY <1>5, <1>0 DEF NoteKernel
<1>6. CASE NoteTask
  BY <1>6, <1>0 DEF NoteTask
<1>7. CASE AddSample
  BY <1>7, <1>0 DEF AddSample
<1>8. ASSUME NEW pc \in Pcs, AddTrace(pc)
      PROVE  \/ UNCHANGED << buffer, head_pos, tail_pos >>
             \/ /\ NrAvailableSlots >= 1
                /\ tail_pos' = tail_pos
                /\ AddSlot("frame", pc)
  BY <1>8 DEF AddTrace
<1>9. CASE GetSlots \/ ResetKernel \/ ResetTask \/ EndSync \/ UNCHANGED vars
  BY <1>9 DEF GetSlots, ResetKernel, ResetTask, EndSync, vars
<1>10. CASE Drain
  BY <1>10, <1>0 DEF Drain
<1> QED
  BY <1>1, <1>2, <1>3, <1>4, <1>5, <1>6, <1>7, <1>8, <1>9, <1>10
     DEF Next, HandlerStep, ReaderStep

(* Whatever the interleaving of the handler and sync_buffer(), what is     *)
(* logged is read once, in order and unchanged.                            *)
THEOREM RingImplementsFifo == ASSUME ~RRPROFILE PROVE Spec => ImplementsFifo
<1>1. Init => Fifo!Init
  <2> SUFFICES ASSUME Init PROVE RingContents = << >>
    BY DEF Fifo!Init
  <2>1. SlotsUsed = 0
    BY DEF Init, SlotsUsed
  <2> QED
    BY <2>1 DEF RingContents
<1>2. TypeOK' /\ RingInv /\ [Next]_vars => [Fifo!Next]_RingContents
  <2> SUFFICES ASSUME TypeOK', RingInv, [Next]_vars
               PROVE  Fifo!Put \/ Fifo!Get \/ UNCHANGED RingContents
    BY DEF Fifo!Next
  <2>0. TypeOK
    BY DEF RingInv
  <2>1. CASE UNCHANGED << buffer, head_pos, tail_pos >>
    BY <2>1 DEF RingContents, RingIndex, SlotsUsed
  <2>2. CASE /\ NrAvailableSlots >= 1
             /\ tail_pos' = tail_pos
             /\ \E kind, pc : AddSlot(kind, pc)
    BY <2>0, <2>2, WriteIsPut
  <2>3. CASE /\ SlotsUsed >= 1
             /\ tail_pos' = Increment(tail_pos)
             /\ UNCHANGED << buffer, head_pos >>
    BY <2>0, <2>3, DrainIsGet
  <2> QED
    BY <2>1, <2>2, <2>3, RingStep
<1> QED
  BY <1>1, <1>2, TypeCorrect, RingSafe, PTL DEF Spec, ImplementsFifo, Fifo!Spec
=============================================================================

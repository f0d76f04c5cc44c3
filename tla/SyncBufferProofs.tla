-------------------------- MODULE SyncBufferProofs --------------------------
(***************************************************************************)
(* What the records of sync_buffer() say is right, for every buffer size,  *)
(* every set of tasks, every backtrace depth, both builds, and a reader on *)
(* any CPU: the invariant follows the notes of a sample through the ring,  *)
(* from the handler that writes them to the decoder that needs them.       *)
(***************************************************************************)
EXTENDS SyncBuffer, CpuBufferProofs

(* The entries in the ring, oldest first: Entry(0) is the next one that is *)
(* read.  The first `available` of them are the rest of the batch being    *)
(* read; a place i with i < available is in this batch, others in the next.*)
Places   == 0 .. SlotsUsed - 1
Entry(i) == buffer[RingIndex(i)]

Preceded(i) == i > 0 /\ i # available      \* by an entry of the same batch
Next0(i)    == i = 0 /\ available > 0      \* the decoder comes to it next

(* The TGID that the decoder will have when it comes to place i.           *)
TgidKnown(task, i) ==
  \/ Preceded(i) /\ Entry(i - 1).kind = "tgid" /\ Entry(i - 1).src.task = task
  \/ Next0(i) /\ sb.tgid = task

SameBatch(j, i) == j >= available \/ i < available

(* The mode record that a sample at place i will have.                     *)
IsMode(e) == e.kind = "kernel"

ModeKnown(kernel, i) ==
  \/ \E j \in 0 .. i - 1 :
       /\ IsMode(Entry(j)) /\ Entry(j).src.kernel = kernel
       /\ SameBatch(j, i)
       /\ \A m \in j + 1 .. i - 1 : ~IsMode(Entry(m))
  \/ /\ i < available
     /\ sb.mode = kernel
     /\ \A m \in 0 .. i - 1 : ~IsMode(Entry(m))

(* The context record that it will have.                                   *)
IsContext(e) == e.kind \in {"tid", "task"}

ContextKnown(task, i) ==
  \/ \E j \in 0 .. i - 1 :
       /\ IsContext(Entry(j)) /\ Entry(j).src.task = task
       /\ Entry(j).kind = "tid" => TgidKnown(task, j)
       /\ SameBatch(j, i)
       /\ \A m \in j + 1 .. i - 1 : ~IsContext(Entry(m))
  \/ /\ i < available
     /\ sb.ctx = << task, task >>
     /\ \A m \in 0 .. i - 1 : ~IsContext(Entry(m))

(* The decoder will be in a trace whose sample has not come.               *)
TraceBegun(i) ==
  \/ /\ Preceded(i)
     /\ Entry(i - 1).kind \in {"begin", "kernel", "task", "tgid", "tid"}
     /\ ~Entry(i - 1).src.hole
  \/ Next0(i) /\ sb.state = bt_start

(* It will be in the trace of sample id, or will ignore the rest of it.    *)
TraceOf(id, i) ==
  \/ /\ Preceded(i)
     /\ Entry(i - 1).kind \in {"sample", "frame"}
     /\ Entry(i - 1).src.id = id
     /\ ~Entry(i - 1).src.hole
  \/ Next0(i) /\ (sb.state = bt_ignore \/ (sb.state = bt_start /\ sb.owner = id))

-----------------------------------------------------------------------------
(* What is true of every entry in the ring.                                *)
EntryOK(i) ==
  LET e == Entry(i) IN
  /\ e.pc = "escape" <=> e.kind \notin {"sample", "frame"}
  /\ e.kind = "tid" /\ (SameCpu \/ ~e.src.hole) => TgidKnown(e.src.task, i)
  /\ e.kind \in {"sample", "frame"} /\ ~e.src.hole =>
       ModeKnown(e.src.kernel, i) /\ ContextKnown(e.src.task, i)
  /\ e.kind \in {"kernel", "task", "tgid", "tid", "sample"} /\ ~e.src.hole /\ depth > 0 =>
       TraceBegun(i)
  /\ e.kind = "frame" /\ ~e.src.hole => depth > 0 /\ TraceOf(e.src.id, i)

RingOK == \A i \in Places : EntryOK(i)

(* What is true of the entry the handler writes next.                      *)
HandlerOK ==
  /\ wpc \in {"kernel", "task", "tid", "sample"} => cur.pc # "escape"
  /\ wpc = "tid" /\ (SameCpu \/ ~cur.hole) => TgidKnown(cur.task, SlotsUsed)
  /\ wpc # "idle" /\ ~cur.hole => rpc \notin ResetWindow
  /\ wpc \in {"task", "tid", "sample", "frames"} /\ ~cur.hole =>
       ModeKnown(cur.kernel, SlotsUsed)
  /\ wpc \in {"sample", "frames"} /\ ~cur.hole => ContextKnown(cur.task, SlotsUsed)
  /\ wpc \in {"log", "kernel", "task", "tid", "sample"} /\ ~cur.hole /\ depth > 0 =>
       TraceBegun(SlotsUsed)
  /\ wpc = "frames" => depth > 0
  /\ wpc = "frames" /\ ~cur.hole => TraceOf(cur.id, SlotsUsed)

(* last_is_kernel and last_task are what the ring will have told the       *)
(* decoder, or reset, or about to be reset.                                *)
LastOK ==
  /\ \/ rpc = "reset_kernel" \/ last_is_kernel = InvalidMode
     \/ ModeKnown(last_is_kernel, SlotsUsed)
  /\ \/ rpc \in ResetWindow \/ last_task = NoTask
     \/ wpc = "tid" /\ last_task = cur.task /\ TgidKnown(cur.task, SlotsUsed)
     \/ wpc # "tid" /\ ContextKnown(last_task, SlotsUsed)

ReaderOK ==
  /\ available <= SlotsUsed
  /\ rpc = "idle" => available = 0
  /\ SameCpu /\ sb.ctx # << >> => sb.ctx[1] = sb.ctx[2]
  /\ out # << >> =>
       /\ out[1].src.hole \/ (sb.mode = out[1].src.kernel
                              /\ sb.ctx = << out[1].src.task, out[1].src.task >>)
       /\ out[1].kind = "frame" => out[1].src.hole \/ sb.owner = out[1].src.id

(* The types of the decoder's locals.                                      *)
TaskOrNone == Tasks \cup {NoTask}

LocalsOK ==
  sb \in [state : Int, in_kernel : {0, 1}, tgid : TaskOrNone, mm : TaskOrNone, mode : {-1, 0, 1},
          ctx : {<< >>} \cup (TaskOrNone \X TaskOrNone), owner : Nat]

NotesInv == LocalsOK /\ RingOK /\ HandlerOK /\ LastOK /\ ReaderOK

NotesInvUnlessOverrun == overrun \/ NotesInv

-----------------------------------------------------------------------------
(* The ring, as places and entries.                                        *)

LEMMA Places1 ==
  ASSUME TypeOK
  PROVE  /\ SlotsUsed \in Nat /\ SlotsUsed < BufferSize /\ BufferSize \in Nat
         /\ \A i \in 0 .. SlotsUsed - 1 :
              RingIndex(i) \in Slots /\ RingIndex(i) # head_pos /\ Entry(i) \in Entries
<1>1. SlotsUsed \in Nat /\ SlotsUsed < BufferSize /\ BufferSize \in Nat
  BY SlotsAddUp, CpuBufferAssumption
<1>2. \A i \in 0 .. SlotsUsed - 1 : RingIndex(i) \in Slots /\ RingIndex(i) # head_pos
  BY <1>1 DEF RingIndex, TypeOK, Slots, SlotsUsed
<1> QED
  BY <1>1, <1>2 DEF Entry, TypeOK

LEMMA Written ==
  ASSUME TypeOK, NEW kind, NEW pc, AddSlot(kind, pc), ~overrun', tail_pos' = tail_pos
  PROVE  /\ SlotsUsed' = SlotsUsed + 1
         /\ \A i \in 0 .. SlotsUsed - 1 : Entry(i)' = Entry(i)
         /\ \A i : i = SlotsUsed => Entry(i)' = [kind |-> kind, pc |-> pc, src |-> cur]
<1>1. Increment(head_pos) # tail_pos /\ head_pos' = Increment(head_pos)
  BY DEF AddSlot
<1>2. SlotsUsed' = SlotsUsed + 1
  BY <1>1, CpuBufferAssumption DEF TypeOK, Slots, SlotsUsed, Increment
<1>3. RingIndex(SlotsUsed) = head_pos
  BY CpuBufferAssumption DEF TypeOK, Slots, SlotsUsed, RingIndex
<1>4. \A i : RingIndex(i)' = RingIndex(i)
  BY DEF RingIndex
<1>5. head_pos \in DOMAIN buffer
  BY DEF TypeOK
<1>6. \A i \in 0 .. SlotsUsed - 1 : buffer'[RingIndex(i)] = buffer[RingIndex(i)]
  BY Places1 DEF AddSlot, TypeOK
<1>7. buffer'[head_pos] = [kind |-> kind, pc |-> pc, src |-> cur]
  BY <1>5 DEF AddSlot
<1> QED
  BY <1>2, <1>3, <1>4, <1>6, <1>7 DEF Entry

LEMMA Read ==
  ASSUME TypeOK, Drain, available <= SlotsUsed
  PROVE  /\ SlotsUsed' = SlotsUsed - 1 /\ available' = available - 1
         /\ available \in Nat /\ available > 0
         /\ \A i \in 0 .. SlotsUsed - 2 : Entry(i)' = Entry(i + 1)
         /\ Entry(0) = buffer[tail_pos]
<1>1. /\ available \in Nat /\ available > 0 /\ available' = available - 1
      /\ tail_pos' = Increment(tail_pos) /\ UNCHANGED << buffer, head_pos >>
  BY DEF Drain, ringVars, TypeOK
<1>2. SlotsUsed >= 1
  BY <1>1, Places1
<1>3. SlotsUsed' = SlotsUsed - 1
  BY <1>1, <1>2, DrainFreesOneSlot
<1>4. \A i \in 0 .. SlotsUsed - 2 : RingIndex(i)' = RingIndex(i + 1)
  BY <1>1, Places1 DEF RingIndex, TypeOK, Slots, Increment
<1>5. RingIndex(0) = tail_pos
  BY CpuBufferAssumption DEF RingIndex, TypeOK, Slots
<1> QED
  BY <1>1, <1>3, <1>4, <1>5 DEF Entry

LEMMA SameRing ==
  ASSUME UNCHANGED << buffer, head_pos, tail_pos >>
  PROVE  SlotsUsed' = SlotsUsed /\ \A i : Entry(i)' = Entry(i)
BY DEF SlotsUsed, Entry, RingIndex

-----------------------------------------------------------------------------
(* What is known at a place stays known while entries join behind it,      *)
Keeps(i) ==
  /\ \A task : TgidKnown(task, i) => TgidKnown(task, i)'
  /\ \A kernel : ModeKnown(kernel, i) => ModeKnown(kernel, i)'
  /\ \A task : ContextKnown(task, i) => ContextKnown(task, i)'
  /\ TraceBegun(i) => TraceBegun(i)'
  /\ \A id : TraceOf(id, i) => TraceOf(id, i)'

LEMMA KnownStays ==
  ASSUME NEW i \in Nat, available \in Nat, UNCHANGED << available, sb >>,
         \A j \in 0 .. i - 1 : Entry(j)' = Entry(j)
  PROVE  Keeps(i)
<1>1. \A j \in 0 .. i : \A task : TgidKnown(task, j) => TgidKnown(task, j)'
  BY DEF TgidKnown, Preceded, Next0
<1>2. \A kernel : ModeKnown(kernel, i) => ModeKnown(kernel, i)'
  BY DEF ModeKnown, IsMode, SameBatch
<1>3. ASSUME NEW task, ContextKnown(task, i) PROVE ContextKnown(task, i)'
  BY <1>1, <1>3 DEF ContextKnown, IsContext, SameBatch
<1>4. TraceBegun(i) => TraceBegun(i)'
  BY DEF TraceBegun, Preceded, Next0
<1>5. \A id : TraceOf(id, i) => TraceOf(id, i)'
  BY DEF TraceOf, Preceded, Next0
<1> QED
  BY <1>1, <1>2, <1>3, <1>4, <1>5 DEF Keeps

(* what an entry adds is known behind it,                                  *)
LEMMA KnownNew ==
  ASSUME NEW n \in Nat, available \in Nat, available <= n, UNCHANGED << available, sb >>,
         \A j \in 0 .. n - 1 : Entry(j)' = Entry(j), NEW e, Entry(n)' = e
  PROVE  /\ \A kernel : ModeKnown(kernel, n) /\ e.kind # "kernel" => ModeKnown(kernel, n + 1)'
         /\ \A task : ContextKnown(task, n) /\ e.kind \notin {"tid", "task"} =>
              ContextKnown(task, n + 1)'
         /\ e.kind = "kernel" => ModeKnown(e.src.kernel, n + 1)'
         /\ e.kind = "tgid" => TgidKnown(e.src.task, n + 1)'
         /\ e.kind = "task" \/ (e.kind = "tid" /\ TgidKnown(e.src.task, n)) =>
              ContextKnown(e.src.task, n + 1)'
         /\ e.kind \in {"begin", "kernel", "task", "tgid", "tid"} /\ ~e.src.hole =>
              TraceBegun(n + 1)'
         /\ e.kind \in {"sample", "frame"} /\ ~e.src.hole => TraceOf(e.src.id, n + 1)'
<1>1. Preceded(n + 1)' /\ (n + 1) - 1 = n
  BY DEF Preceded
<1>2. \A j \in 0 .. n : \A task : TgidKnown(task, j) => TgidKnown(task, j)'
  BY DEF TgidKnown, Preceded, Next0
<1>3. \A kernel : ModeKnown(kernel, n) /\ e.kind # "kernel" => ModeKnown(kernel, n + 1)'
  BY DEF ModeKnown, IsMode, SameBatch
<1>4. ASSUME NEW task, ContextKnown(task, n), e.kind \notin {"tid", "task"}
      PROVE  ContextKnown(task, n + 1)'
  BY <1>2, <1>4 DEF ContextKnown, IsContext, SameBatch
<1>5. e.kind = "kernel" => ModeKnown(e.src.kernel, n + 1)'
  BY DEF ModeKnown, IsMode, SameBatch
<1>6. ASSUME e.kind = "task" \/ (e.kind = "tid" /\ TgidKnown(e.src.task, n))
      PROVE  ContextKnown(e.src.task, n + 1)'
  BY <1>2, <1>6 DEF ContextKnown, IsContext, SameBatch
<1>7. e.kind = "tgid" => TgidKnown(e.src.task, n + 1)'
  BY <1>1 DEF TgidKnown
<1>8. e.kind \in {"begin", "kernel", "task", "tgid", "tid"} /\ ~e.src.hole => TraceBegun(n + 1)'
  BY <1>1 DEF TraceBegun
<1>9. e.kind \in {"sample", "frame"} /\ ~e.src.hole => TraceOf(e.src.id, n + 1)'
  BY <1>1 DEF TraceOf
<1> QED
  BY <1>3, <1>4, <1>5, <1>6, <1>7, <1>8, <1>9

(* the ring becomes the batch,                                             *)
LEMMA KnownTaken ==
  ASSUME available = 0, SlotsUsed \in Nat, available' = SlotsUsed,
         NEW i \in 0 .. SlotsUsed - 1, \A j \in 0 .. SlotsUsed - 1 : Entry(j)' = Entry(j)
  PROVE  Keeps(i)
<1>1. \A j \in 0 .. i : \A task : TgidKnown(task, j) => TgidKnown(task, j)'
  BY DEF TgidKnown, Preceded, Next0
<1>2. ASSUME NEW kernel, ModeKnown(kernel, i) PROVE ModeKnown(kernel, i)'
  BY <1>2 DEF ModeKnown, IsMode, SameBatch
<1>3. ASSUME NEW task, ContextKnown(task, i) PROVE ContextKnown(task, i)'
  BY <1>1, <1>3 DEF ContextKnown, IsContext, SameBatch
<1>4. TraceBegun(i) => TraceBegun(i)'
  BY DEF TraceBegun, Preceded, Next0
<1>5. \A id : TraceOf(id, i) => TraceOf(id, i)'
  BY DEF TraceOf, Preceded, Next0
<1> QED
  BY <1>1, <1>2, <1>3, <1>4, <1>5 DEF Keeps

-----------------------------------------------------------------------------
(* What one entry does to the locals.                                      *)
LEMMA LocalsStay ==
  ASSUME LocalsOK, NEW s \in Int, NEW o \in Nat, NEW k \in {0, 1}
  PROVE  /\ sb' = [sb EXCEPT !.state = s, !.owner = o] => LocalsOK'
         /\ sb' = [sb EXCEPT !.in_kernel = k, !.mode = k, !.state = s] => LocalsOK'
<1>1. k \in {-1, 0, 1}
  OBVIOUS
<1> QED
  BY <1>1 DEF LocalsOK

LEMMA Decoded ==
  ASSUME LocalsOK, NEW e \in Entries, Decode(e),
         e.pc = "escape" <=> e.kind \notin {"sample", "frame"}
  PROVE  /\ LocalsOK'
         /\ sb'.tgid = IF e.kind = "tgid" THEN e.src.task ELSE sb.tgid
         /\ sb'.mode = IF e.kind = "kernel" THEN e.src.kernel ELSE sb.mode
         /\ sb'.ctx = IF e.kind = "tid" THEN << sb.tgid, e.src.task >>
                      ELSE IF e.kind = "task" THEN << e.src.task, e.src.task >> ELSE sb.ctx
         /\ e.kind = "begin" => sb'.state = bt_start
         /\ e.kind \in {"kernel", "task", "tgid", "tid"} /\ sb.state = bt_start =>
              sb'.state = bt_start
         /\ e.kind \notin {"sample", "frame"} => out' = << >>
         /\ e.kind \in {"sample", "frame"} =>
              \/ /\ out' = << e >> /\ sb.state >= bt_start /\ sb'.state = sb.state
                 /\ sb'.owner = IF e.kind = "sample" THEN e.src.id ELSE sb.owner
              \/ /\ out' = << >>
                 /\ sb' = [sb EXCEPT !.state = IF @ = bt_start THEN bt_ignore ELSE @]
<1> USE DEF bt_start, bt_ignore, buffer_start, sample_start
<1>1. /\ e.kind \in Kinds /\ e.src.task \in TaskOrNone /\ e.src.kernel \in {0, 1}
      /\ e.src.id \in Nat
  BY DEF Entries, Interrupts, TaskOrNone
<1>2. CASE e.kind = "kernel"
  <2>1. sb' = DecodeMode(e) /\ out' = << >>
    BY <1>2 DEF Decode, DecodeNote
  <2>2. LocalsOK'
    <3>1. (IF sb.state = buffer_start THEN sample_start ELSE sb.state) \in Int
      BY DEF LocalsOK
    <3> QED
      BY <1>1, <2>1, <3>1, LocalsStay DEF DecodeMode
  <2>3. /\ sb'.tgid = sb.tgid /\ sb'.mode = e.src.kernel /\ sb'.ctx = sb.ctx
        /\ sb.state = bt_start => sb'.state = bt_start
    BY <2>1 DEF DecodeMode, LocalsOK
  <2> QED
    BY <1>2, <2>1, <2>2, <2>3
<1>3. CASE e.kind = "begin"
  <2>1. sb' = [sb EXCEPT !.state = bt_start, !.owner = 0] /\ out' = << >>
    BY <1>3 DEF Decode, DecodeNote
  <2>2. LocalsOK'
    <3>1. bt_start \in Int /\ 0 \in Nat /\ 0 \in {0, 1}
      OBVIOUS
    <3> QED
      BY <2>1, <3>1, LocalsStay
  <2>3. sb'.tgid = sb.tgid /\ sb'.mode = sb.mode /\ sb'.ctx = sb.ctx /\ sb'.state = bt_start
    BY <2>1 DEF LocalsOK
  <2> QED
    BY <1>3, <2>1, <2>2, <2>3
<1>4. CASE e.kind = "tgid"
  <2>1. sb' = [sb EXCEPT !.tgid = e.src.task] /\ out' = << >>
    BY <1>4 DEF Decode, DecodeNote
  <2> QED
    BY <1>1, <1>4, <2>1 DEF LocalsOK
<1>5. CASE e.kind = "tid"
  <2>1. sb' = [sb EXCEPT !.ctx = << sb.tgid, e.src.task >>] /\ out' = << >>
    BY <1>5 DEF Decode, DecodeNote
  <2> QED
    BY <1>1, <1>5, <2>1 DEF LocalsOK
<1>6. CASE e.kind = "task"
  <2>1. /\ sb' = [sb EXCEPT !.mm = e.src.task, !.ctx = << e.src.task, e.src.task >>]
        /\ out' = << >>
    BY <1>6 DEF Decode, DecodeNote
  <2> QED
    BY <1>1, <1>6, <2>1 DEF LocalsOK
<1>7. CASE e.kind \notin {"kernel", "begin", "tgid", "tid", "task", "sample", "frame"}
  <2>1. sb' = sb /\ out' = << >>
    BY <1>7 DEF Decode, DecodeNote
  <2> QED
    BY <1>7, <2>1 DEF LocalsOK
<1>8. CASE e.kind \in {"sample", "frame"}
  <2>1. KeepSample(e) \/ DropSample(e)
    BY <1>8 DEF Decode
  <2>2. CASE KeepSample(e)
    BY <1>1, <1>8, <2>2 DEF KeepSample, LocalsOK
  <2>3. CASE DropSample(e)
    BY <1>1, <1>8, <2>3 DEF DropSample, LocalsOK
  <2> QED
    BY <2>1, <2>2, <2>3
<1> QED
  BY <1>2, <1>3, <1>4, <1>5, <1>6, <1>7, <1>8

-----------------------------------------------------------------------------
(* and when the decoder has used the first entry, everything moves up.     *)
Moves(i) ==
  /\ \A task : TgidKnown(task, i) => TgidKnown(task, i - 1)'
  /\ \A kernel : ModeKnown(kernel, i) => ModeKnown(kernel, i - 1)'
  /\ \A task : ContextKnown(task, i) => ContextKnown(task, i - 1)'
  /\ depth > 0 /\ TraceBegun(i) => TraceBegun(i - 1)'
  /\ \A id : depth > 0 /\ TraceOf(id, i) => TraceOf(id, i - 1)'

LEMMA KnownMoves ==
  ASSUME NEW n \in Nat, available \in Nat, available > 0, available <= n,
         available' = available - 1, LocalsOK, Entry(0) \in Entries, EntryOK(0),
         \A j \in 0 .. n - 2 : Entry(j)' = Entry(j + 1),
         Decode(Entry(0)), NEW i \in 1 .. n
  PROVE  Moves(i)
<1> DEFINE e == Entry(0)
<1>0. e.pc = "escape" <=> e.kind \notin {"sample", "frame"}
  BY DEF EntryOK
<1>1. /\ sb'.tgid = IF e.kind = "tgid" THEN e.src.task ELSE sb.tgid
      /\ sb'.mode = IF e.kind = "kernel" THEN e.src.kernel ELSE sb.mode
      /\ sb'.ctx = IF e.kind = "tid" THEN << sb.tgid, e.src.task >>
                   ELSE IF e.kind = "task" THEN << e.src.task, e.src.task >> ELSE sb.ctx
      /\ e.kind = "begin" => sb'.state = bt_start
      /\ e.kind \in {"kernel", "task", "tgid", "tid"} /\ sb.state = bt_start =>
           sb'.state = bt_start
      /\ e.kind \in {"sample", "frame"} =>
           \/ /\ sb'.state = sb.state
              /\ sb'.owner = IF e.kind = "sample" THEN e.src.id ELSE sb.owner
           \/ sb' = [sb EXCEPT !.state = IF @ = bt_start THEN bt_ignore ELSE @]
  BY <1>0, Decoded
<1>2. /\ \A j \in 1 .. n : j > 1 /\ Preceded(j) => Preceded(j - 1)'
      /\ i = 1 /\ Preceded(i) => Next0(0)'
      /\ ~Next0(i)
      /\ \A j \in 2 .. n : Entry(j - 2)' = Entry(j - 1)
  BY DEF Preceded, Next0
<1>3. \A j \in 1 .. n : \A task : TgidKnown(task, j) => TgidKnown(task, j - 1)'
  <2> SUFFICES ASSUME NEW j \in 1 .. n, NEW task, TgidKnown(task, j)
               PROVE  TgidKnown(task, j - 1)'
    OBVIOUS
  <2>1. Preceded(j) /\ Entry(j - 1).kind = "tgid" /\ Entry(j - 1).src.task = task
    BY DEF TgidKnown, Next0
  <2>2. CASE j = 1
    BY <1>1, <2>1, <2>2 DEF TgidKnown, Preceded, Next0
  <2>3. CASE j > 1
    BY <1>2, <2>1, <2>3 DEF TgidKnown
  <2> QED
    BY <2>2, <2>3
<1>4. ASSUME NEW kernel, ModeKnown(kernel, i) PROVE ModeKnown(kernel, i - 1)'
  <2>1. CASE /\ i < available /\ sb.mode = kernel
             /\ \A m \in 0 .. i - 1 : ~IsMode(Entry(m))
    BY <1>1, <2>1 DEF ModeKnown, IsMode
  <2>2. ASSUME NEW j \in 0 .. i - 1, IsMode(Entry(j)), Entry(j).src.kernel = kernel,
               SameBatch(j, i), \A m \in j + 1 .. i - 1 : ~IsMode(Entry(m))
        PROVE  ModeKnown(kernel, i - 1)'
    <3>1. \A m \in j .. i - 2 : ~IsMode(Entry(m))'
      BY <2>2 DEF IsMode
    <3>2. CASE j = 0
      <4>1. sb'.mode = kernel /\ i - 1 < available'
        BY <1>1, <2>2, <3>2 DEF IsMode, SameBatch
      <4> QED
        BY <3>1, <3>2, <4>1 DEF ModeKnown
    <3>3. CASE j > 0
      <4>1. IsMode(Entry(j - 1))' /\ Entry(j - 1)'.src.kernel = kernel
        BY <2>2, <3>3 DEF IsMode
      <4>2. SameBatch(j - 1, i - 1)'
        BY <2>2 DEF SameBatch
      <4> QED
        BY <3>1, <3>3, <4>1, <4>2 DEF ModeKnown
    <3> QED
      BY <3>2, <3>3
  <2> QED
    BY <1>4, <2>1, <2>2 DEF ModeKnown
<1>5. ASSUME NEW task, ContextKnown(task, i) PROVE ContextKnown(task, i - 1)'
  <2>1. CASE /\ i < available /\ sb.ctx = << task, task >>
             /\ \A m \in 0 .. i - 1 : ~IsContext(Entry(m))
    BY <1>1, <2>1 DEF ContextKnown, IsContext
  <2>2. ASSUME NEW j \in 0 .. i - 1, IsContext(Entry(j)), Entry(j).src.task = task,
               Entry(j).kind = "tid" => TgidKnown(task, j),
               SameBatch(j, i), \A m \in j + 1 .. i - 1 : ~IsContext(Entry(m))
        PROVE  ContextKnown(task, i - 1)'
    <3>1. \A m \in j .. i - 2 : ~IsContext(Entry(m))'
      BY <2>2 DEF IsContext
    <3>2. CASE j = 0
      <4>1. e.kind = "tid" => sb.tgid = task
        BY <2>2, <3>2 DEF TgidKnown, Preceded
      <4>2. sb'.ctx = << task, task >> /\ i - 1 < available'
        BY <1>1, <2>2, <3>2, <4>1 DEF IsContext, SameBatch
      <4> QED
        BY <3>1, <3>2, <4>2 DEF ContextKnown
    <3>3. CASE j > 0
      <4>1. /\ IsContext(Entry(j - 1))' /\ Entry(j - 1)'.src.task = task
            /\ Entry(j - 1)'.kind = "tid" => TgidKnown(task, j - 1)'
        BY <1>3, <2>2, <3>3 DEF IsContext
      <4>2. SameBatch(j - 1, i - 1)'
        BY <2>2 DEF SameBatch
      <4> QED
        BY <3>1, <3>3, <4>1, <4>2 DEF ContextKnown
    <3> QED
      BY <3>2, <3>3
  <2> QED
    BY <1>5, <2>1, <2>2 DEF ContextKnown
<1>6. ASSUME depth > 0, TraceBegun(i) PROVE TraceBegun(i - 1)'
  <2>1. /\ Preceded(i) /\ Entry(i - 1).kind \in {"begin", "kernel", "task", "tgid", "tid"}
        /\ ~Entry(i - 1).src.hole
    BY <1>2, <1>6 DEF TraceBegun
  <2>2. CASE i = 1
    <3>1. e.kind # "begin" => sb.state = bt_start
      BY <1>6, <2>1, <2>2 DEF EntryOK, TraceBegun, Preceded
    <3> QED
      BY <1>1, <1>2, <2>1, <2>2, <3>1 DEF TraceBegun
  <2>3. CASE i > 1
    BY <1>2, <2>1, <2>3 DEF TraceBegun
  <2> QED
    BY <2>2, <2>3
<1>7. ASSUME NEW id, depth > 0, TraceOf(id, i) PROVE TraceOf(id, i - 1)'
  <2>1. /\ Preceded(i) /\ Entry(i - 1).kind \in {"sample", "frame"}
        /\ Entry(i - 1).src.id = id /\ ~Entry(i - 1).src.hole
    BY <1>2, <1>7 DEF TraceOf
  <2>2. CASE i = 1
    <3>1. CASE e.kind = "sample"
      <4>1. sb.state = bt_start
        BY <1>7, <2>1, <2>2, <3>1 DEF EntryOK, TraceBegun, Preceded
      <4>2. sb'.state = bt_ignore \/ (sb'.state = bt_start /\ sb'.owner = id)
        BY <1>1, <2>1, <2>2, <3>1, <4>1 DEF LocalsOK
      <4> QED
        BY <1>2, <2>1, <2>2, <4>2 DEF TraceOf
    <3>2. CASE e.kind = "frame"
      <4>1. sb.state = bt_ignore \/ (sb.state = bt_start /\ sb.owner = id)
        BY <2>1, <2>2, <3>2 DEF EntryOK, TraceOf, Preceded
      <4>2. sb'.state = bt_ignore \/ (sb'.state = bt_start /\ sb'.owner = id)
        BY <1>1, <3>2, <4>1 DEF LocalsOK
      <4> QED
        BY <1>2, <2>1, <2>2, <4>2 DEF TraceOf
    <3> QED
      BY <2>1, <2>2, <3>1, <3>2
  <2>3. CASE i > 1
    BY <1>2, <2>1, <2>3 DEF TraceOf
  <2> QED
    BY <2>2, <2>3
<1> QED
  BY <1>3, <1>4, <1>5, <1>6, <1>7 DEF Moves

-----------------------------------------------------------------------------
(* The ring stays as it should be.                                         *)

(* What was known of the place of the next entry still is.                 *)
StillKnown ==
  /\ \A task : TgidKnown(task, SlotsUsed) => TgidKnown(task, SlotsUsed)'
  /\ \A kernel : ModeKnown(kernel, SlotsUsed) => ModeKnown(kernel, SlotsUsed)'
  /\ \A task : ContextKnown(task, SlotsUsed) => ContextKnown(task, SlotsUsed)'
  /\ depth > 0 /\ TraceBegun(SlotsUsed) => TraceBegun(SlotsUsed)'
  /\ \A id : depth > 0 /\ TraceOf(id, SlotsUsed) => TraceOf(id, SlotsUsed)'

(* The same entry, of which the same is known.                             *)
LEMMA EntryStays ==
  ASSUME NEW i, EntryOK(i), Keeps(i), Entry(i)' = Entry(i), UNCHANGED depth
  PROVE  EntryOK(i)'
BY DEF EntryOK, Keeps

LEMMA RingStays ==
  ASSUME TypeOK, RingOK, UNCHANGED << buffer, head_pos, tail_pos, available, sb, depth >>
  PROVE  RingOK' /\ StillKnown /\ SlotsUsed' = SlotsUsed
<1>1. SlotsUsed \in Nat /\ SlotsUsed' = SlotsUsed /\ \A i : Entry(i)' = Entry(i)
  BY SameRing, Places1
<1>2. \A i \in Nat : Keeps(i)
  BY <1>1, KnownStays DEF TypeOK
<1>3. RingOK'
  <2>1. ASSUME NEW i \in 0 .. SlotsUsed - 1 PROVE EntryOK(i)'
    BY <1>1, <1>2, EntryStays DEF RingOK, Places
  <2> QED
    BY <1>1, <2>1 DEF RingOK, Places
<1>4. StillKnown
  BY <1>1, <1>2 DEF Keeps, StillKnown
<1> QED
  BY <1>1, <1>3, <1>4

(* What the handler has to know before it writes an entry.                 *)
MayAdd(kind, pc) ==
  /\ pc = "escape" <=> kind \notin {"sample", "frame"}
  /\ kind = "tid" /\ (SameCpu \/ ~cur.hole) => TgidKnown(cur.task, SlotsUsed)
  /\ kind \in {"sample", "frame"} /\ ~cur.hole =>
       ModeKnown(cur.kernel, SlotsUsed) /\ ContextKnown(cur.task, SlotsUsed)
  /\ kind \in {"kernel", "task", "tgid", "tid", "sample"} /\ ~cur.hole /\ depth > 0 =>
       TraceBegun(SlotsUsed)
  /\ kind = "frame" /\ ~cur.hole => depth > 0 /\ TraceOf(cur.id, SlotsUsed)

(* What it knows afterwards.                                               *)
NowKnown(kind) ==
  /\ \A kernel : ModeKnown(kernel, SlotsUsed) /\ kind # "kernel" => ModeKnown(kernel, SlotsUsed)'
  /\ \A task : ContextKnown(task, SlotsUsed) /\ kind \notin {"tid", "task"} =>
       ContextKnown(task, SlotsUsed)'
  /\ kind = "kernel" => ModeKnown(cur.kernel, SlotsUsed)'
  /\ kind = "tgid" => TgidKnown(cur.task, SlotsUsed)'
  /\ kind = "task" \/ (kind = "tid" /\ TgidKnown(cur.task, SlotsUsed)) =>
       ContextKnown(cur.task, SlotsUsed)'
  /\ kind \in {"begin", "kernel", "task", "tgid", "tid"} /\ ~cur.hole => TraceBegun(SlotsUsed)'
  /\ kind \in {"sample", "frame"} /\ ~cur.hole => TraceOf(cur.id, SlotsUsed)'

LEMMA RingGrows ==
  ASSUME TypeOK, RingOK, available <= SlotsUsed,
         NEW kind, NEW pc, AddSlot(kind, pc), ~overrun', MayAdd(kind, pc),
         UNCHANGED << tail_pos, available, sb, depth, cur >>
  PROVE  RingOK' /\ NowKnown(kind) /\ available' <= SlotsUsed'
<1>1. PICK n \in Nat : n = SlotsUsed
  BY Places1
<1>2. PICK e : e = [kind |-> kind, pc |-> pc, src |-> cur]
  OBVIOUS
<1>3. e.kind = kind /\ e.pc = pc /\ e.src = cur /\ e.src = cur'
  BY <1>2
<1>4. /\ SlotsUsed' = n + 1
      /\ \A i \in 0 .. n - 1 : Entry(i)' = Entry(i)
      /\ Entry(n)' = e
      /\ available \in Nat
  BY <1>1, <1>2, Written DEF TypeOK
<1>5. \A i \in 0 .. n : Keeps(i)
  <2>1. ASSUME NEW i \in 0 .. n PROVE Keeps(i)
    <3>1. i \in Nat /\ \A j \in 0 .. i - 1 : Entry(j)' = Entry(j)
      BY <1>4
    <3> QED
      BY <1>4, <3>1, KnownStays
  <2> QED
    BY <2>1
<1>6. ASSUME NEW i \in 0 .. n - 1 PROVE EntryOK(i)'
  BY <1>1, <1>4, <1>5, <1>6, EntryStays DEF RingOK, Places
<1>7. EntryOK(n)'
  <2>1. Keeps(n)
    BY <1>5
  <2> QED
    BY <1>1, <1>4, <1>3, <2>1 DEF EntryOK, MayAdd, Keeps
<1>8. RingOK'
  <2>1. \A i \in 0 .. n : EntryOK(i)'
    BY <1>6, <1>7
  <2> QED
    BY <1>4, <2>1 DEF RingOK, Places
<1>9. NowKnown(kind)
  <2>1. SlotsUsed = n /\ SlotsUsed' = n + 1 /\ available <= n
    BY <1>1, <1>4
  <2>2. /\ \A kernel : ModeKnown(kernel, n) /\ e.kind # "kernel" => ModeKnown(kernel, n + 1)'
        /\ \A task : ContextKnown(task, n) /\ e.kind \notin {"tid", "task"} =>
             ContextKnown(task, n + 1)'
        /\ e.kind = "kernel" => ModeKnown(e.src.kernel, n + 1)'
        /\ e.kind = "tgid" => TgidKnown(e.src.task, n + 1)'
        /\ e.kind = "task" \/ (e.kind = "tid" /\ TgidKnown(e.src.task, n)) =>
             ContextKnown(e.src.task, n + 1)'
        /\ e.kind \in {"begin", "kernel", "task", "tgid", "tid"} /\ ~e.src.hole =>
             TraceBegun(n + 1)'
        /\ e.kind \in {"sample", "frame"} /\ ~e.src.hole => TraceOf(e.src.id, n + 1)'
    BY <1>4, <2>1, KnownNew
  <2> QED
    BY <1>3, <2>1, <2>2 DEF NowKnown
<1>10. available' <= SlotsUsed'
  BY <1>1, <1>4
<1> QED
  BY <1>8, <1>9, <1>10

-----------------------------------------------------------------------------
(* The handler's steps.                                                    *)

LEMMA ReaderWaits ==
  ASSUME LocalsOK, ReaderOK, UNCHANGED << sb, out, rpc, available >>, available' <= SlotsUsed'
  PROVE  LocalsOK' /\ ReaderOK'
BY DEF LocalsOK, ReaderOK

LEMMA ArrivalKeeps ==
  ASSUME TypeOK, NotesInv, ~overrun', Arrival, UNCHANGED decoderVars
  PROVE  NotesInv'
<1> USE DEF decoderVars, ringVars, readerVars
<1>1. LocalsOK /\ RingOK /\ HandlerOK /\ LastOK /\ ReaderOK /\ available <= SlotsUsed
  BY DEF NotesInv, ReaderOK
<1>2. ASSUME NEW task \in Tasks, NEW kernel \in {0, 1}, NEW pc \in Pcs,
             Interrupt(task, kernel, pc)
      PROVE  NotesInv'
  <2>1. RingOK' /\ StillKnown /\ SlotsUsed' = SlotsUsed
    BY <1>1, <1>2, RingStays DEF Interrupt
  <2>2. cur'.hole = (rpc \in ResetWindow) /\ wpc' \in {"sample_start", "ext_sample"}
    BY <1>2 DEF Interrupt
  <2>3. HandlerOK'
    BY <1>2, <2>2 DEF Interrupt, HandlerOK
  <2>4. LastOK'
    BY <1>1, <1>2, <2>1, <2>2 DEF Interrupt, LastOK, StillKnown
  <2>5. LocalsOK' /\ ReaderOK'
    BY <1>1, <1>2, <2>1, ReaderWaits DEF Interrupt
  <2> QED
    BY <2>1, <2>3, <2>4, <2>5 DEF NotesInv
<1>3. ASSUME NEW kind \in {"sampling_start", "sampling_stop"}, AddSamplingMark(kind)
      PROVE  NotesInv'
  <2>1. AddSlot(kind, "escape") /\ UNCHANGED << tail_pos, available, sb, depth, cur >>
    BY <1>3 DEF AddSamplingMark, AddCode
  <2>2. MayAdd(kind, "escape")
    BY DEF MayAdd
  <2>3. RingOK' /\ NowKnown(kind) /\ available' <= SlotsUsed'
    BY <1>1, <2>1, <2>2, RingGrows
  <2>4. HandlerOK'
    BY <1>3 DEF AddSamplingMark, HandlerOK
  <2>5. LastOK'
    BY <1>1, <1>3, <2>3 DEF AddSamplingMark, LastOK, NowKnown
  <2>6. LocalsOK' /\ ReaderOK'
    BY <1>1, <1>3, <2>3, ReaderWaits DEF AddSamplingMark
  <2> QED
    BY <2>3, <2>4, <2>5, <2>6 DEF NotesInv
<1> QED
  BY <1>2, <1>3 DEF Arrival

(* A step of the handler that adds no entry.                               *)
LEMMA QuietStep ==
  ASSUME TypeOK, NotesInv, UNCHANGED << buffer, head_pos, tail_pos, available, rpc, sb, out, depth >>
  PROVE  RingOK' /\ LocalsOK' /\ ReaderOK' /\ StillKnown /\ SlotsUsed' = SlotsUsed
BY RingStays, ReaderWaits DEF NotesInv, ReaderOK

(* A step of the handler that adds one.                                    *)
LEMMA AddingStep ==
  ASSUME TypeOK, NotesInv, ~overrun', NEW kind, NEW pc, AddSlot(kind, pc), MayAdd(kind, pc),
         UNCHANGED << tail_pos, available, rpc, sb, out, depth, cur >>
  PROVE  RingOK' /\ LocalsOK' /\ ReaderOK' /\ NowKnown(kind)
BY RingGrows, ReaderWaits DEF NotesInv, ReaderOK

LEMMA HandlerKeeps ==
  ASSUME TypeOK, NotesInv, ~overrun', HandlerStep, UNCHANGED decoderVars
  PROVE  NotesInv'
<1> USE DEF decoderVars, ringVars, readerVars, AddCode
<1>1. HandlerOK /\ LastOK
  BY DEF NotesInv
<1>2. CASE AddSampleStart \/ AddSampleStop
  <2>1. PICK kind \in {"sample_start", "sample_stop"} :
          AddSampleStamp(kind, IF kind = "sample_start" THEN "sample_stop" ELSE "ext_sample")
    BY <1>2 DEF AddSampleStart, AddSampleStop
  <2>2. MayAdd(kind, "escape")
    BY DEF MayAdd
  <2>3. RingOK' /\ LocalsOK' /\ ReaderOK' /\ NowKnown(kind)
    BY <2>1, <2>2, AddingStep DEF AddSampleStamp
  <2>4. HandlerOK'
    BY <1>1, <2>1 DEF AddSampleStamp, HandlerOK
  <2>5. LastOK'
    BY <1>1, <2>1, <2>3 DEF AddSampleStamp, LastOK, NowKnown
  <2> QED
    BY <2>3, <2>4, <2>5 DEF NotesInv
<1>3. CASE AddExtSample
  <2>1. \/ /\ UNCHANGED ringVars
           /\ wpc' = "idle" \/ (wpc' = "log" /\ depth = 0)
        \/ AddSlot("begin", "escape") /\ wpc' = "log"
    BY <1>3 DEF AddExtSample, BeginTrace
  <2>2. /\ UNCHANGED << tail_pos, available, rpc, sb, out, depth, cur >>
        /\ UNCHANGED << last_task, last_is_kernel >>
        /\ wpc = "ext_sample"
    BY <1>3 DEF AddExtSample
  <2>3. CASE /\ UNCHANGED ringVars
             /\ wpc' = "idle" \/ (wpc' = "log" /\ depth = 0)
    <3>1. RingOK' /\ LocalsOK' /\ ReaderOK' /\ StillKnown
      BY <2>2, <2>3, QuietStep
    <3>2. HandlerOK' /\ LastOK'
      BY <1>1, <2>2, <2>3, <3>1 DEF HandlerOK, LastOK, StillKnown
    <3> QED
      BY <3>1, <3>2 DEF NotesInv
  <2>4. CASE AddSlot("begin", "escape") /\ wpc' = "log"
    <3>1. MayAdd("begin", "escape")
      BY DEF MayAdd
    <3>2. RingOK' /\ LocalsOK' /\ ReaderOK' /\ NowKnown("begin")
      BY <2>2, <2>4, <3>1, AddingStep
    <3>3. HandlerOK' /\ LastOK'
      BY <1>1, <2>2, <2>4, <3>2 DEF HandlerOK, LastOK, NowKnown
    <3> QED
      BY <3>2, <3>3 DEF NotesInv
  <2> QED
    BY <2>1, <2>3, <2>4
<1>4. CASE LogSample
  <2>1. RingOK' /\ LocalsOK' /\ ReaderOK' /\ StillKnown
    BY <1>4, QuietStep DEF LogSample
  <2>2. wpc = "log" /\ (wpc' = "idle" \/ (wpc' = "kernel" /\ cur.pc # "escape"))
    BY <1>4 DEF LogSample, Leave
  <2>3. HandlerOK' /\ LastOK'
    BY <1>1, <1>4, <2>1, <2>2 DEF LogSample, HandlerOK, LastOK, StillKnown
  <2> QED
    BY <2>1, <2>3 DEF NotesInv
<1>5. CASE NoteKernel
  <2>1. /\ wpc = "kernel" /\ wpc' = "task" /\ last_is_kernel' = cur.kernel
        /\ UNCHANGED << tail_pos, available, rpc, sb, out, depth, cur, last_task >>
    BY <1>5 DEF NoteKernel
  <2>2. CASE last_is_kernel # cur.kernel /\ AddSlot("kernel", "escape")
    <3>1. MayAdd("kernel", "escape")
      BY <1>1, <2>1 DEF MayAdd, HandlerOK
    <3>2. RingOK' /\ LocalsOK' /\ ReaderOK' /\ NowKnown("kernel")
      BY <2>1, <2>2, <3>1, AddingStep
    <3>3. HandlerOK' /\ LastOK'
      BY <1>1, <2>1, <2>2, <3>2 DEF HandlerOK, LastOK, NowKnown
    <3> QED
      BY <3>2, <3>3 DEF NotesInv
  <2>3. CASE last_is_kernel = cur.kernel /\ UNCHANGED ringVars
    <3>1. RingOK' /\ LocalsOK' /\ ReaderOK' /\ StillKnown
      BY <2>1, <2>3, QuietStep
    <3>2. ~cur.hole => ModeKnown(cur.kernel, SlotsUsed)
      BY <1>1, <2>1, <2>3 DEF HandlerOK, LastOK, ResetWindow, InvalidMode, TypeOK, Interrupts
    <3>3. HandlerOK' /\ LastOK'
      BY <1>1, <2>1, <2>3, <3>1, <3>2 DEF HandlerOK, LastOK, StillKnown
    <3> QED
      BY <3>1, <3>3 DEF NotesInv
  <2> QED
    BY <1>5, <2>2, <2>3 DEF NoteKernel
<1>6. CASE NoteTask
  <2>1. /\ wpc = "task" /\ last_task' = cur.task
        /\ UNCHANGED << tail_pos, available, rpc, sb, out, depth, cur, last_is_kernel >>
    BY <1>6 DEF NoteTask
  <2>2. CASE last_task = cur.task /\ wpc' = "sample" /\ UNCHANGED ringVars
    <3>1. RingOK' /\ LocalsOK' /\ ReaderOK' /\ StillKnown
      BY <2>1, <2>2, QuietStep
    <3>2. ~cur.hole => ContextKnown(cur.task, SlotsUsed)
      BY <1>1, <2>1, <2>2, CpuBufferAssumption DEF HandlerOK, LastOK, TypeOK, Interrupts
    <3>3. HandlerOK' /\ LastOK'
      BY <1>1, <2>1, <2>2, <3>1, <3>2 DEF HandlerOK, LastOK, StillKnown
    <3> QED
      BY <3>1, <3>3 DEF NotesInv
  <2>3. CASE wpc' = "tid" /\ AddSlot("tgid", "escape")
    <3>1. MayAdd("tgid", "escape")
      BY <1>1, <2>1 DEF MayAdd, HandlerOK
    <3>2. RingOK' /\ LocalsOK' /\ ReaderOK' /\ NowKnown("tgid")
      BY <2>1, <2>3, <3>1, AddingStep
    <3>3. HandlerOK' /\ LastOK'
      BY <1>1, <2>1, <2>3, <3>2 DEF HandlerOK, LastOK, NowKnown
    <3> QED
      BY <3>2, <3>3 DEF NotesInv
  <2>4. CASE wpc' = "sample" /\ AddSlot("task", "escape")
    <3>1. MayAdd("task", "escape")
      BY <1>1, <2>1 DEF MayAdd, HandlerOK
    <3>2. RingOK' /\ LocalsOK' /\ ReaderOK' /\ NowKnown("task")
      BY <2>1, <2>4, <3>1, AddingStep
    <3>3. HandlerOK' /\ LastOK'
      BY <1>1, <2>1, <2>4, <3>2 DEF HandlerOK, LastOK, NowKnown
    <3> QED
      BY <3>2, <3>3 DEF NotesInv
  <2> QED
    BY <1>6, <2>2, <2>3, <2>4 DEF NoteTask
<1>7. CASE NoteTid
  <2>1. /\ wpc = "tid" /\ wpc' = "sample" /\ AddSlot("tid", "escape")
        /\ UNCHANGED << tail_pos, available, rpc, sb, out, depth, cur, last_is_kernel, last_task >>
    BY <1>7 DEF NoteTid
  <2>2. MayAdd("tid", "escape")
    BY <1>1, <2>1 DEF MayAdd, HandlerOK
  <2>3. RingOK' /\ LocalsOK' /\ ReaderOK' /\ NowKnown("tid")
    BY <2>1, <2>2, AddingStep
  <2>4. HandlerOK' /\ LastOK'
    BY <1>1, <2>1, <2>3 DEF HandlerOK, LastOK, NowKnown
  <2> QED
    BY <2>3, <2>4 DEF NotesInv
<1>8. CASE AddSample
  <2>1. /\ wpc = "sample" /\ AddSlot("sample", cur.pc)
        /\ wpc' = "idle" \/ (wpc' = "frames" /\ depth > 0)
        /\ UNCHANGED << tail_pos, available, rpc, sb, out, depth, cur, last_is_kernel, last_task >>
    BY <1>8 DEF AddSample
  <2>2. MayAdd("sample", cur.pc)
    BY <1>1, <2>1 DEF MayAdd, HandlerOK
  <2>3. RingOK' /\ LocalsOK' /\ ReaderOK' /\ NowKnown("sample")
    BY <2>1, <2>2, AddingStep
  <2>4. HandlerOK' /\ LastOK'
    BY <1>1, <2>1, <2>3 DEF HandlerOK, LastOK, NowKnown
  <2> QED
    BY <2>3, <2>4 DEF NotesInv
<1>9. ASSUME NEW pc \in Pcs, AddTrace(pc) PROVE NotesInv'
  <2>1. /\ wpc = "frames" /\ wpc' = "frames"
        /\ UNCHANGED << tail_pos, available, rpc, sb, out, depth, cur, last_is_kernel, last_task >>
    BY <1>9 DEF AddTrace
  <2>2. CASE UNCHANGED ringVars
    <3>1. RingOK' /\ LocalsOK' /\ ReaderOK' /\ StillKnown
      BY <2>1, <2>2, QuietStep
    <3>2. HandlerOK' /\ LastOK'
      BY <1>1, <2>1, <2>2, <3>1 DEF HandlerOK, LastOK, StillKnown
    <3> QED
      BY <3>1, <3>2 DEF NotesInv
  <2>3. CASE pc # "escape" /\ AddSlot("frame", pc)
    <3>1. MayAdd("frame", pc)
      BY <1>1, <2>1, <2>3 DEF MayAdd, HandlerOK
    <3>2. RingOK' /\ LocalsOK' /\ ReaderOK' /\ NowKnown("frame")
      BY <2>1, <2>3, <3>1, AddingStep
    <3>3. HandlerOK' /\ LastOK'
      BY <1>1, <2>1, <2>3, <3>2 DEF HandlerOK, LastOK, NowKnown
    <3> QED
      BY <3>2, <3>3 DEF NotesInv
  <2> QED
    BY <1>9, <2>2, <2>3 DEF AddTrace
<1>10. CASE EndTrace
  <2>1. RingOK' /\ LocalsOK' /\ ReaderOK' /\ StillKnown
    BY <1>10, QuietStep DEF EndTrace
  <2>2. HandlerOK' /\ LastOK'
    BY <1>1, <1>10, <2>1 DEF EndTrace, Leave, HandlerOK, LastOK, StillKnown
  <2> QED
    BY <2>1, <2>2 DEF NotesInv
<1> QED
  BY <1>2, <1>3, <1>4, <1>5, <1>6, <1>7, <1>8, <1>9, <1>10 DEF HandlerStep

-----------------------------------------------------------------------------
(* The reader's steps.                                                     *)

LEMMA StartKeeps ==
  ASSUME TypeOK, NotesInv, SyncStart
  PROVE  NotesInv'
<1>1. /\ LocalsOK /\ RingOK /\ HandlerOK /\ LastOK /\ ReaderOK /\ rpc = "idle"
      /\ available = 0 /\ available' = SlotsUsed /\ rpc' = "reset_kernel"
      /\ cur' = [cur EXCEPT !.hole = TRUE] /\ sb' = Locals /\ out' = << >>
      /\ SameCpu => wpc = "idle"
      /\ UNCHANGED << buffer, head_pos, tail_pos, depth, wpc, last_task, last_is_kernel >>
  BY DEF NotesInv, ReaderOK, SyncStart, GetSlots, ReaderRuns, ringVars
<1>2. SlotsUsed \in Nat /\ SlotsUsed' = SlotsUsed /\ \A i : Entry(i)' = Entry(i)
  BY <1>1, SameRing, Places1
<1>3. RingOK'
  <2>1. ASSUME NEW i \in 0 .. SlotsUsed - 1 PROVE EntryOK(i)'
    <3>1. Keeps(i)
      BY <1>1, <1>2, KnownTaken
    <3> QED
      BY <1>1, <1>2, <3>1, EntryStays DEF RingOK, Places
  <2> QED
    BY <1>2, <2>1 DEF RingOK, Places
<1>4. cur'.hole /\ cur'.pc = cur.pc
  BY <1>1 DEF TypeOK, Interrupts
<1>5. HandlerOK'
  BY <1>1, <1>4 DEF HandlerOK
<1>6. LastOK'
  BY <1>1 DEF LastOK, ResetWindow
<1>7. LocalsOK'
  BY <1>1 DEF Locals, LocalsOK, buffer_start, TaskOrNone
<1>8. ReaderOK'
  BY <1>1, <1>2 DEF ReaderOK, Locals
<1> QED
  BY <1>3, <1>5, <1>6, <1>7, <1>8 DEF NotesInv

LEMMA ResetKeeps ==
  ASSUME TypeOK, NotesInv, ResetKernel \/ ResetTask \/ EndSync, UNCHANGED decoderVars
  PROVE  NotesInv'
<1> USE DEF decoderVars, ringVars, writerVars
<1>1. RingOK' /\ StillKnown /\ SlotsUsed' = SlotsUsed
  BY RingStays DEF NotesInv, ResetKernel, ResetTask, EndSync
<1>2. HandlerOK'
  BY <1>1 DEF NotesInv, HandlerOK, ResetKernel, ResetTask, EndSync, StillKnown, ResetWindow
<1>3. LastOK'
  BY <1>1 DEF NotesInv, LastOK, ResetKernel, ResetTask, EndSync, StillKnown, ResetWindow
<1>4. LocalsOK' /\ ReaderOK'
  BY <1>1 DEF NotesInv, LocalsOK, ReaderOK, ResetKernel, ResetTask, EndSync
<1> QED
  BY <1>1, <1>2, <1>3, <1>4 DEF NotesInv

LEMMA EntryKeeps ==
  ASSUME TypeOK, NotesInv, SyncEntry
  PROVE  NotesInv'
<1>0. PICK n \in Nat : n = SlotsUsed
  BY Places1
<1>1. /\ LocalsOK /\ RingOK /\ HandlerOK /\ LastOK /\ ReaderOK /\ rpc = "drain"
      /\ available \in Nat /\ available > 0 /\ available <= n /\ available' = available - 1
      /\ SlotsUsed' = n - 1
      /\ \A i \in 0 .. n - 2 : Entry(i)' = Entry(i + 1)
      /\ UNCHANGED << depth, wpc, rpc, cur, last_task, last_is_kernel >>
  BY <1>0, Read DEF NotesInv, ReaderOK, SyncEntry, Drain, writerVars
<1>2. Entry(0) \in Entries /\ EntryOK(0) /\ Decode(Entry(0))
  BY <1>0, <1>1, Places1, Read DEF RingOK, Places, SyncEntry
<1>3. \A i \in 1 .. n : Moves(i)
  BY <1>1, <1>2, KnownMoves
<1>4. RingOK'
  <2>1. ASSUME NEW i \in 0 .. n - 2 PROVE EntryOK(i)'
    <3>1. /\ EntryOK(i + 1) /\ Entry(i)' = Entry(i + 1) /\ Moves(i + 1) /\ (i + 1) - 1 = i
          /\ UNCHANGED depth
      BY <1>0, <1>1, <1>3 DEF RingOK, Places
    <3> QED
      BY <3>1 DEF EntryOK, Moves
  <2> QED
    BY <1>1, <2>1 DEF RingOK, Places
<1>5. StillKnown
  <2>1. Moves(n) /\ SlotsUsed = n /\ SlotsUsed' = n - 1
    BY <1>0, <1>1, <1>3
  <2> QED
    BY <2>1 DEF Moves, StillKnown
<1>6. HandlerOK' /\ LastOK'
  BY <1>1, <1>5 DEF HandlerOK, LastOK, StillKnown, ResetWindow
<1>7. PICK e : e = Entry(0)
  OBVIOUS
<1>8. /\ LocalsOK'
      /\ sb'.tgid = IF e.kind = "tgid" THEN e.src.task ELSE sb.tgid
      /\ sb'.mode = IF e.kind = "kernel" THEN e.src.kernel ELSE sb.mode
      /\ sb'.ctx = IF e.kind = "tid" THEN << sb.tgid, e.src.task >>
                   ELSE IF e.kind = "task" THEN << e.src.task, e.src.task >> ELSE sb.ctx
      /\ e.kind \notin {"sample", "frame"} => out' = << >>
      /\ e.kind \in {"sample", "frame"} =>
           \/ /\ out' = << e >> /\ sb.state >= bt_start
              /\ sb'.owner = IF e.kind = "sample" THEN e.src.id ELSE sb.owner
           \/ out' = << >>
  BY <1>1, <1>2, <1>7, Decoded DEF EntryOK
<1>9. SameCpu /\ sb'.ctx # << >> => sb'.ctx[1] = sb'.ctx[2]
  <2>1. SameCpu /\ e.kind = "tid" => sb.tgid = e.src.task
    BY <1>2, <1>7 DEF EntryOK, TgidKnown, Preceded
  <2> QED
    BY <1>1, <1>8, <2>1 DEF ReaderOK
<1>10. ASSUME out' # << >>
       PROVE  /\ out'[1].src.hole \/ (sb'.mode = out'[1].src.kernel
                                      /\ sb'.ctx = << out'[1].src.task, out'[1].src.task >>)
              /\ out'[1].kind = "frame" => out'[1].src.hole \/ sb'.owner = out'[1].src.id
  <2>1. /\ e.kind \in {"sample", "frame"} /\ out'[1] = e /\ sb.state >= bt_start
        /\ sb'.owner = IF e.kind = "sample" THEN e.src.id ELSE sb.owner
        /\ sb'.mode = sb.mode /\ sb'.ctx = sb.ctx
    BY <1>8, <1>10
  <2>2. ASSUME ~e.src.hole PROVE sb.mode = e.src.kernel /\ sb.ctx = << e.src.task, e.src.task >>
    BY <1>2, <1>7, <2>1, <2>2 DEF EntryOK, ModeKnown, ContextKnown
  <2>3. ASSUME ~e.src.hole, e.kind = "frame" PROVE sb.owner = e.src.id
    BY <1>2, <1>7, <2>1, <2>3 DEF EntryOK, TraceOf, Preceded, bt_ignore, bt_start
  <2> QED
    BY <2>1, <2>2, <2>3
<1>11. ReaderOK'
  BY <1>1, <1>9, <1>10 DEF ReaderOK
<1> QED
  BY <1>4, <1>6, <1>8, <1>11 DEF NotesInv

-----------------------------------------------------------------------------
LEMMA NotesInitially == SyncInit => NotesInv
<1> SUFFICES ASSUME SyncInit PROVE NotesInv
  OBVIOUS
<1>1. SlotsUsed = 0 /\ available = 0 /\ wpc = "idle" /\ rpc = "idle" /\ sb = Locals /\ out = << >>
  BY DEF SyncInit, Init, SlotsUsed
<1>2. RingOK
  BY <1>1 DEF RingOK, Places
<1>3. HandlerOK /\ LastOK
  BY <1>1 DEF HandlerOK, LastOK, SyncInit, Init
<1>4. LocalsOK /\ ReaderOK
  BY <1>1 DEF LocalsOK, ReaderOK, Locals, TaskOrNone, buffer_start
<1> QED
  BY <1>2, <1>3, <1>4 DEF NotesInv

LEMMA NotesKept ==
  ASSUME TypeOK, NotesInvUnlessOverrun, [SyncNext]_syncVars
  PROVE  NotesInvUnlessOverrun'
<1>1. ~overrun' => ~overrun
  BY DEF SyncNext, SyncStart, SyncEntry, GetSlots, ResetKernel, ResetTask, Drain, EndSync, Arrival,
         Interrupt, AddSamplingMark, AddSampleStart, AddSampleStop, AddSampleStamp, AddExtSample,
         BeginTrace, LogSample, NoteKernel, NoteTask, NoteTid, AddSample, AddTrace, EndTrace,
         AddCode, AddSlot, ringVars, syncVars, vars
<1> SUFFICES ASSUME NotesInv, ~overrun' PROVE NotesInv'
  BY <1>1 DEF NotesInvUnlessOverrun
<1>2. CASE SyncStart
  BY <1>2, StartKeeps
<1>3. CASE SyncEntry
  BY <1>3, EntryKeeps
<1>4. CASE (ResetKernel \/ ResetTask \/ EndSync) /\ UNCHANGED decoderVars
  BY <1>4, ResetKeeps
<1>5. CASE Arrival /\ UNCHANGED decoderVars
  BY <1>5, ArrivalKeeps
<1>6. CASE HandlerStep /\ UNCHANGED decoderVars
  BY <1>6, HandlerKeeps
<1>7. CASE UNCHANGED syncVars
  <2> USE DEF syncVars, vars, ringVars, writerVars, readerVars, decoderVars
  <2>1. RingOK' /\ LocalsOK' /\ ReaderOK' /\ StillKnown
    BY <1>7, QuietStep
  <2>2. HandlerOK' /\ LastOK'
    BY <1>7, <2>1 DEF NotesInv, HandlerOK, LastOK, StillKnown
  <2> QED
    BY <2>1, <2>2 DEF NotesInv
<1> QED
  BY <1>2, <1>3, <1>4, <1>5, <1>6, <1>7 DEF SyncNext, HandlerStep

(* The ring under the decoder is the one of CpuBuffer.                     *)
LEMMA SyncIsRing == SyncSpec => Spec
<1>1. SyncInit => Init
  BY DEF SyncInit
<1>2. [SyncNext]_syncVars => [Next]_vars
  BY DEF SyncNext, SyncStart, SyncEntry, Next, ReaderStep, HandlerStep, syncVars
<1> QED
  BY <1>1, <1>2, PTL DEF SyncSpec, Spec

LEMMA NotesInvariant == SyncSpec => []NotesInvUnlessOverrun
<1>1. SyncInit => NotesInvUnlessOverrun
  BY NotesInitially DEF NotesInvUnlessOverrun
<1> QED
  BY <1>1, NotesKept, SyncIsRing, TypeCorrect, PTL DEF SyncSpec

(* Unless the ring overran, a record of sync_buffer() stands in the mode   *)
(* and the context it was taken in; except in the hole of get_slots().     *)
THEOREM RecordsAttributed == SyncSpec => []Attribution
<1>1. NotesInvUnlessOverrun => Attribution
  BY DEF NotesInvUnlessOverrun, NotesInv, ReaderOK, Attribution
<1> QED
  BY <1>1, NotesInvariant, PTL

(* A frame is recorded in the trace of the sample whose stack it is.       *)
THEOREM FramesAttributed == SyncSpec => []FramesFollowTheirSample
<1>1. NotesInvUnlessOverrun => FramesFollowTheirSample
  BY DEF NotesInvUnlessOverrun, NotesInv, ReaderOK, FramesFollowTheirSample
<1> QED
  BY <1>1, NotesInvariant, PTL

(* On its own CPU the reader never splits the TGID from the TID.           *)
THEOREM PairsMatch == SyncSpec => []ContextPairsMatch
<1>1. NotesInvUnlessOverrun => ContextPairsMatch
  BY DEF NotesInvUnlessOverrun, NotesInv, ReaderOK, ContextPairsMatch
<1> QED
  BY <1>1, NotesInvariant, PTL
=============================================================================

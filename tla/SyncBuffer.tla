----------------------------- MODULE SyncBuffer -----------------------------
(***************************************************************************)
(* sync_buffer() (driver/buffer_sync.c): drains one per-CPU buffer and     *)
(* translates its entries into the records of the event buffer.  The       *)
(* module adds the decoder to the reader of CpuBuffer: its local variables *)
(* and the sample record that the last step has written.                   *)
(***************************************************************************)
EXTENDS CpuBuffer

VARIABLES
  sb,    \* the local variables of sync_buffer()
  out    \* the entry the last step wrote as a sample record: << >> or << entry >>

decoderVars == << sb, out >>
syncVars    == << vars, decoderVars >>

(* The enum sync_buffer_state, whose order the code compares.              *)
bt_ignore    == -2
buffer_start == -1
bt_start     == 0
sample_start == 1

(* The locals at the head of sync_buffer(): state, in_kernel, tgid (NoTask *)
(* stands for 0) and mm, by the task that owns it.  The other fields say   *)
(* what the records written so far tell the daemon: the mode and context   *)
(* records of this batch, and the interrupt whose sample opened the trace. *)
Locals ==
  [state |-> buffer_start, in_kernel |-> 1, tgid |-> NoTask, mm |-> NoTask,
   mode |-> -1, ctx |-> << >>, owner |-> 0]

SyncInit == Init /\ sb = Locals /\ out = << >>

-----------------------------------------------------------------------------
(* The decoder: what one entry does to the locals.                         *)

DecodeMode(e) ==
  [sb EXCEPT !.in_kernel = e.src.kernel,
             !.mode = e.src.kernel,
             !.state = IF @ = buffer_start THEN sample_start ELSE @]

DecodeNote(e) ==
  CASE e.kind = "kernel" -> DecodeMode(e)
    [] e.kind = "begin"  -> [sb EXCEPT !.state = bt_start, !.owner = 0]
    [] e.kind = "tgid"   -> [sb EXCEPT !.tgid = e.src.task]
    [] e.kind = "tid"    -> [sb EXCEPT !.ctx = << sb.tgid, e.src.task >>]
    [] e.kind = "task"   -> [sb EXCEPT !.mm = e.src.task,
                                       !.ctx = << e.src.task, e.src.task >>]
    [] OTHER             -> sb     \* a timestamp record

(* add_sample(): does the entry become a record?  With RRPROFILE only NULL *)
(* is skipped.  Otherwise a kernel address is kept, and a user address     *)
(* needs an mm and a mapping that covers it.                               *)
SampleKept(e, mapped) ==
  IF RRPROFILE
  THEN e.pc # "null"
  ELSE sb.in_kernel = 1 \/ (sb.mm # NoTask /\ mapped)

(* Mutant: entries of an ignored trace count as samples.                   *)
KeepSampleIgnored(e) ==
  /\ sb.state # buffer_start
  /\ \E mapped \in BOOLEAN : SampleKept(e, mapped)
  /\ out' = << e >>
  /\ sb' = [sb EXCEPT !.owner = IF e.kind = "sample" THEN e.src.id ELSE @]

KeepSample(e) ==
  /\ sb.state >= bt_start
  /\ \E mapped \in BOOLEAN : SampleKept(e, mapped)
  /\ out' = << e >>
  /\ sb' = [sb EXCEPT !.owner = IF e.kind = "sample" THEN e.src.id ELSE @]

(* Mutant: the trace goes on without the sample it starts from.            *)
DropSampleOnly(e) ==
  /\ \/ sb.state < bt_start
     \/ \E mapped \in BOOLEAN : ~SampleKept(e, mapped)
  /\ out' = << >>
  /\ UNCHANGED sb

DropSample(e) ==
  /\ \/ sb.state < bt_start
     \/ \E mapped \in BOOLEAN : ~SampleKept(e, mapped)
  /\ out' = << >>
  /\ sb' = [sb EXCEPT !.state = IF @ = bt_start THEN bt_ignore ELSE @]

(* The body of the loop.                                                   *)
Decode(e) ==
  \/ e.pc = "escape" /\ sb' = DecodeNote(e) /\ out' = << >>
  \/ e.pc # "escape" /\ (KeepSample(e) \/ DropSample(e))

SyncStart == GetSlots /\ sb' = Locals /\ out' = << >>
SyncEntry == Drain /\ Decode(buffer[tail_pos])

SyncNext ==
  \/ SyncStart
  \/ SyncEntry
  \/ ResetKernel    /\ UNCHANGED decoderVars
  \/ ResetTask      /\ UNCHANGED decoderVars
  \/ EndSync        /\ UNCHANGED decoderVars
  \/ Arrival        /\ UNCHANGED decoderVars
  \/ AddSampleStart /\ UNCHANGED decoderVars
  \/ AddSampleStop  /\ UNCHANGED decoderVars
  \/ AddExtSample   /\ UNCHANGED decoderVars
  \/ LogSample      /\ UNCHANGED decoderVars
  \/ NoteKernel     /\ UNCHANGED decoderVars
  \/ NoteTask       /\ UNCHANGED decoderVars
  \/ NoteTid        /\ UNCHANGED decoderVars
  \/ AddSample      /\ UNCHANGED decoderVars
  \/ (\E pc \in Pcs : AddTrace(pc)) /\ UNCHANGED decoderVars
  \/ EndTrace       /\ UNCHANGED decoderVars

SyncSpec == SyncInit /\ [][SyncNext]_syncVars

-----------------------------------------------------------------------------
(* Properties                                                              *)

(* The comment in get_slots() admits one hole: an interrupt between the    *)
(* read of head_pos and the reset of last_task and last_is_kernel may      *)
(* leave a sample without its notes.  Every other sample that reaches the  *)
(* event buffer is preceded, in its own batch, by the mode and the context *)
(* it was taken in: the reset makes the next sample write its notes again, *)
(* and nothing but an overrun separates a sample from them.                *)
Attribution ==
  out # << >> =>
    LET src == out[1].src IN
    \/ src.hole
    \/ overrun
    \/ sb.mode = src.kernel /\ sb.ctx = << src.task, src.task >>

(* A stack frame is recorded only after the sample whose stack it is: a    *)
(* trace whose first sample is dropped (bt_ignore), cut by a full ring or  *)
(* by a batch boundary never puts its frames under another sample.         *)
FramesFollowTheirSample ==
  out # << >> =>
    LET e == out[1] IN
    e.kind # "frame" \/ e.src.hole \/ overrun \/ sb.owner = e.src.id

(* The TGID and TID of a context record come from the same interrupt when  *)
(* the reader runs on the buffer's own CPU, for the samples in the hole of *)
(* get_slots() too: the two entries can be separated only by a reader on   *)
(* another CPU, or by an overrun that overwrites one of them.              *)
ContextPairsMatch ==
  SameCpu /\ ~overrun /\ sb.ctx # << >> => sb.ctx[1] = sb.ctx[2]
=============================================================================

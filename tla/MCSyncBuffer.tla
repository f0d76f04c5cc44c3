---------------------------- MODULE MCSyncBuffer ----------------------------
(***************************************************************************)
(* Instances of SyncBuffer for TLC.                                        *)
(***************************************************************************)
EXTENDS SyncBuffer, TLC

CONSTANTS t1, t2

MCTasks == {t1, t2}

TaskSymmetry == Permutations(MCTasks)

(* The state without what nothing can read any more: slots beyond the ones *)
(* in use or still promised to the reader, and the locals of a function    *)
(* that has returned.                                                      *)
LiveSlots == 1 .. (IF available > SlotsUsed THEN available ELSE SlotsUsed)

LiveState ==
  << [i \in LiveSlots |-> buffer[RingIndex(i - 1)]], head_pos, tail_pos,
     last_task, last_is_kernel, tracing, stats, wpc, interrupts, depth, rpc, available,
     overrun,
     IF wpc = "idle" THEN << >> ELSE << cur, frames >>,
     IF rpc = "idle" THEN << >> ELSE << sb, out >> >>
=============================================================================

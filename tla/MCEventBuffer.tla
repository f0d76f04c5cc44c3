--------------------------- MODULE MCEventBuffer ---------------------------
(***************************************************************************)
(* Instances of EventBuffer for TLC.                                       *)
(***************************************************************************)
EXTENDS EventBuffer

(* The properties of the passing run promise nothing once raced is set.    *)
NotRaced == ~raced

(* The state without slots and entries that nothing can read any more.     *)
LiveState ==
  << [i \in 0 .. BufferSize - 1 |->
        IF i < buffer_pos \/ \E w \in Writers : slot[w] = i THEN event_buffer[i] ELSE Blank],
     [w \in Writers |-> IF left[w] = 0 THEN Blank ELSE entry[w]],
     buffer_pos, buffer_sem, unread, raced, flagVars, sessionVars,
     left, slot, batches, readerVars >>
=============================================================================

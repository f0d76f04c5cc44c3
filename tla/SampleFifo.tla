----------------------------- MODULE SampleFifo -----------------------------
(***************************************************************************)
(* What a per-CPU sample buffer promises its two users: a bounded FIFO.    *)
(* The interrupt handler puts entries at the back, sync_buffer() takes     *)
(* them from the front, and no entry is lost, repeated or reordered        *)
(* between the two.                                                        *)
(***************************************************************************)
EXTENDS Naturals, Sequences

CONSTANT Capacity       \* entries the buffer holds at most

VARIABLE queue          \* the entries logged and not yet taken, oldest first

Init == queue = << >>

(* One entry joins the back; everything in front of it stays as it is.     *)
Put ==
  /\ Len(queue') = Len(queue) + 1
  /\ Len(queue') <= Capacity
  /\ \A i \in 1 .. Len(queue) : queue'[i] = queue[i]

Get ==
  /\ queue # << >>
  /\ queue' = Tail(queue)

Next == Put \/ Get

Spec == Init /\ [][Next]_queue
=============================================================================

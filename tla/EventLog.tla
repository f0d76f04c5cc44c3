------------------------------ MODULE EventLog ------------------------------
(***************************************************************************)
(* What the event buffer promises those who add to it and the daemon that  *)
(* reads it: a log to which a whole batch is added at once, cut at its end *)
(* if the log is full, and which is taken as a whole by a read that        *)
(* returns data, or thrown away when the file is closed.  Any other read   *)
(* leaves it as it is.                                                     *)
(***************************************************************************)
EXTENDS Naturals, Sequences

CONSTANTS
  Capacity,   \* entries the log holds at most
  Lengths     \* for each writer, the lengths its batches may have

VARIABLES
  log,        \* the entries added and not yet taken, oldest first
  count,      \* the batches added so far
  answer,     \* how the last read ended
  open,       \* whether the file is open
  spoilt      \* two users did not keep out of each other's way

logVars == << log, count, answer, open, spoilt >>

Init == log = << >> /\ count = 0 /\ answer = "none" /\ ~open /\ ~spoilt

Smaller(a, b) == IF a < b THEN a ELSE b

Put(writer, length) ==
  /\ open
  /\ count' = count + 1
  /\ log' = log \o [i \in 1 .. Smaller(length, Capacity - Len(log)) |->
                      [by |-> writer, batch |-> count', place |-> i]]
  /\ UNCHANGED << answer, open >>

Take == log' = << >> /\ answer' = "data" /\ UNCHANGED << count, open >>

Close == log' = << >> /\ open /\ ~open' /\ UNCHANGED count

(* Opening, reads that return no data, calls for the daemon.               *)
Keep ==
  /\ UNCHANGED << log, count >>
  /\ answer' = "data" => answer = "data"
  /\ open => open'

(* Nothing is promised any more.                                           *)
Spoil == spoilt'

Next ==
  \/ \E writer \in DOMAIN Lengths : \E length \in Lengths[writer] : Put(writer, length)
  \/ Take \/ Close \/ Keep \/ Spoil

Spec == Init /\ [][Next]_logVars
=============================================================================

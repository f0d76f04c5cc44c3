------------------------------- MODULE MCDetails -------------------------------
(***************************************************************************)
(* Three parts that share no state with one another or with the rest, in   *)
(* one instance for TLC: the mortuary, the registers of a Pentium 4, and a *)
(* walk of the stack.  A behaviour is of one part; the variables of the    *)
(* others stand still.                                                     *)
(***************************************************************************)
EXTENDS Mortuary, P4Registers, Backtrace

CONSTANTS c1, c2, t1, t2

VARIABLE part

MortuaryIdle == Init /\ online = CPUs

P4Idle ==
  /\ ht = FALSE /\ old = FALSE /\ pmc = FALSE /\ config = << >> /\ reg = << >>
  /\ active = {} /\ saved = << >> /\ call = "none" /\ todo = {}

WalkIdle ==
  /\ walker = "none" /\ wanted = 0 /\ readable = {} /\ start = Null
  /\ back = << >> /\ left = 0 /\ head = Null /\ first_frame = FALSE
  /\ trace = << >> /\ walking = TRUE /\ writes = 0

MCInit ==
  \/ part = "mortuary" /\ Init /\ P4Idle /\ WalkIdle
  \/ part = "p4" /\ P4Init /\ MortuaryIdle /\ WalkIdle
  \/ part = "walk" /\ WalkInit /\ MortuaryIdle /\ P4Idle

MCNext ==
  \/ part = "mortuary" /\ Next /\ UNCHANGED << part, p4Vars, walkVars >>
  \/ part = "p4" /\ P4Next /\ UNCHANGED << part, vars, walkVars >>
  \/ part = "walk" /\ WalkNext /\ UNCHANGED << part, vars, p4Vars >>

(* None of the fair actions of the mortuary is enabled where it is idle.   *)
MCSpec == MCInit /\ [][MCNext]_<< part, vars, p4Vars, walkVars >> /\ Fairness

MCCPUs  == {c1, c2}
MCTasks == {t1, t2}
(* Any event on one counter, and event 14 on another.                       *)
One(i, e) == [c \in {i} |-> e]
MCSettings == {One(i, e) : i \in 0 .. 7, e \in 0 .. 40}
              \cup {[c \in {i, j} |-> IF c = i THEN e ELSE 14] :
                      i \in 0 .. 7, e \in 0 .. 40, j \in 0 .. 7}
=============================================================================

--------------------------- MODULE MCCounterSession ---------------------------
(***************************************************************************)
(* Instances of CounterSession for TLC.                                    *)
(***************************************************************************)
EXTENDS CounterSession, TLC

CONSTANTS c1, c2, k1, k2

MCCPUs     == {c1, c2}
MCCounters == {k1, k2}

(* The counters of a CPU are interchangeable.                              *)
MCSymmetry == Permutations(MCCounters)

MCModels == X86 \cup PowerPC

(* A Pentium 4 has the PMC available on one of its CPUs.                   *)
MCFirmware == {{c1}}

(* Off, or on with a count that can be adapted, and on a P4 with an event  *)
(* for which the counter may have no binding.                              *)
MCChoices ==
  {[enabled |-> FALSE, count |-> 1, bound |-> MCCPUs],
   [enabled |-> TRUE,  count |-> 1, bound |-> MCCPUs],
   [enabled |-> TRUE,  count |-> 1, bound |-> {}]}

PeriodsExcepted == Happened({"reconfigured", "decayed", "resumed"})

(* What can still be told apart: of the history, which properties except   *)
(* it; of the periods, which only PeriodAsAnnounced looks at, nothing once *)
(* it excepts the behaviour.                                               *)
LiveState ==
  << machine, config, changes, controlVars, stateVars, idleVars, saved, pend, on, midVars,
     history \cap {"late", "resumed", "raced"}, PeriodsExcepted,
     Happened({"late", "resumed", "restarted"}), Happened({"late", "reconfigured", "slept"}),
     IF PeriodsExcepted
     THEN [c \in CPUs |-> << hw[c].over, hw[c].prog, hw[c].gate, hw[c].lvtpc, hw[c] = PowerOn >>]
     ELSE << hw, asked >> >>
=============================================================================

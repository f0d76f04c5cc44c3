----------------------------- MODULE CounterModels -----------------------------
(***************************************************************************)
(* What a performance counter model does to the registers of its CPU: the  *)
(* functions of struct op_x86_model_spec and struct op_powerpc_model.      *)
(*                                                                         *)
(* A counter register counts up and interrupts when bit 31 changes: x86    *)
(* counters are loaded with minus the count and reach zero, powerpc        *)
(* counters are loaded with 2^31 minus the count and turn negative.  Of a  *)
(* counter's value the models only ever test that bit.                     *)
(***************************************************************************)
EXTENDS Naturals

CONSTANTS
  Counters,   \* the counters of a CPU
  Top         \* 2^31 in the code; a register holds 0 .. 2 * Top - 1

ASSUME CountersAssumption == Counters # {} /\ Top \in Nat \ {0}

X86     == {"ppro", "athlon", "p4"}
PowerPC == {"power4", "7450", "rs64"}

(* stop() of these disables one counter after the other.                   *)
Loops == {"athlon", "p4"}

(* The registers of a CPU: the counters that have overflowed; the controls *)
(* that name an event; the counters that are let count (CTRL_SET_ACTIVE,   *)
(* CCCR_SET_ENABLE, the freeze bit FC); where LVTPC sends the interrupt;   *)
(* and the period each counter was loaded with.                            *)
Hardware == [over : SUBSET Counters, prog : SUBSET Counters, gate : SUBSET Counters,
             lvtpc : {"boot", "nmi", "masked"}, period : [Counters -> Nat]]

PowerOn == [over |-> {}, prog |-> {}, gate |-> {}, lvtpc |-> "boot",
            period |-> [k \in Counters |-> 0]]

Enabled(config) == {k \in Counters : config[k].enabled}

Periods(config) == [k \in Counters |-> config[k].count]

Counting(hw) == (hw.prog \cap hw.gate) \ hw.over

-----------------------------------------------------------------------------
(* Is bit 31 of a counter just loaded for this period as after an overflow? *)
X86Over(period) == (2 * Top - (period % (2 * Top))) % (2 * Top) < Top

PowerPCOver(period) == (3 * Top - (period % (2 * Top))) % (2 * Top) >= Top

Load(hw, K, period, over) ==
  [hw EXCEPT !.over   = (@ \ K) \cup over,
             !.period = [k \in Counters |-> IF k \in K THEN period[k] ELSE @[k]]]

X86Load(hw, K, period) == Load(hw, K, period, {k \in K : X86Over(period[k])})

PowerPCLoad(hw, K, period) == Load(hw, K, period, {k \in K : PowerPCOver(period[k])})

Zero(hw, K) ==
  [hw EXCEPT !.over = @ \ K, !.period = [k \in Counters |-> IF k \in K THEN 0 ELSE @[k]]]

Unmask(hw) == [hw EXCEPT !.lvtpc = IF @ = "masked" THEN "nmi" ELSE @]

Gate(hw, K) == [hw EXCEPT !.gate = K]

Program(hw, K) == [hw EXCEPT !.gate = {}, !.prog = K]

-----------------------------------------------------------------------------
(* Pentium Pro to Core (op_model_ppro.c).  The counters that are not used  *)
(* are loaded too, and their old reset values are kept.                    *)
ppro_setup_ctrs(config, reset, hw) ==
  LET on     == Enabled(config)
      unused == X86Load(Program(hw, on), Counters, [k \in Counters |-> 1])
  IN  [hw |-> X86Load(unused, on, Periods(config)),
       reset |-> [k \in Counters |-> IF k \in on THEN config[k].count ELSE reset[k]]]

(* One bit, in the control of counter 0, is for both counters.             *)
ppro_start(hw) == Gate(hw, Counters)
ppro_stop(hw)  == Gate(hw, {})

(* Mutant: the APIC vector is not unmasked again.                          *)
ppro_check_ctrs_masked(reset, hw) == ppro_start(X86Load(ppro_stop(hw), hw.over, reset))

ppro_check_ctrs(reset, hw) ==
  ppro_start(Unmask(X86Load(ppro_stop(hw), hw.over, reset)))

-----------------------------------------------------------------------------
(* Athlon (op_model_athlon.c)                                              *)
athlon_setup_ctrs(config, hw) ==
  LET on     == Enabled(config)
      unused == X86Load(Program(hw, on), Counters, [k \in Counters |-> 1])
  IN  [hw |-> X86Load(unused, on, Periods(config)),
       reset |-> [k \in Counters |-> IF k \in on THEN config[k].count ELSE 0]]

athlon_start(reset, hw) == Gate(hw, hw.gate \cup {k \in Counters : reset[k] # 0})
athlon_stop(hw)         == Gate(hw, {})

athlon_check_ctrs(reset, hw) ==
  athlon_start(reset, X86Load(athlon_stop(hw), hw.over, reset))

-----------------------------------------------------------------------------
(* Pentium 4 (op_model_p4.c): a counter that is not used keeps its value.  *)
(* Nothing is done where the PMC is not available.  A counter for which    *)
(* the user's event is out of range or has no binding is loaded too, but   *)
(* pmc_setup_one_p4_counter() leaves its controls cleared.                 *)
p4_setup_ctrs(config, available, bound, reset, hw) ==
  LET on == Enabled(config)
  IN  IF available
      THEN [hw |-> X86Load(Program(hw, on \cap bound), on, Periods(config)),
            reset |-> [k \in Counters |-> IF k \in on THEN config[k].count ELSE 0]]
      ELSE [hw |-> hw, reset |-> reset]

p4_start(reset, hw) == Gate(hw, hw.gate \cup {k \in Counters : reset[k] # 0})
p4_stop(hw)         == Gate(hw, {})

P4Logged(reset, hw) == {k \in hw.over : reset[k] # 0}

p4_check_ctrs(reset, hw) ==
  p4_start(reset, Unmask(X86Load(p4_stop(hw), P4Logged(reset, hw), reset)))

-----------------------------------------------------------------------------
(* POWER4 and later (op_model_power4.c): a counter without a count is in   *)
(* counter mode, which always starts from zero.                            *)
power4_reg_setup(config) == Periods(config)

power4_cpu_setup(config, hw) == Program(hw, Enabled(config))

power4_start(config, reset, hw) ==
  LET on == {k \in Enabled(config) : config[k].count # 0}
  IN  Gate(PowerPCLoad(Zero(hw, Counters \ on), on, reset), Counters)

power4_stop(hw) == Gate(hw, {})

Power4Logged(config, running, hw) ==
  {k \in hw.over \cap Enabled(config) : running /\ config[k].count # 0}

power4_handle_interrupt(config, reset, running, hw) ==
  LET logged == Power4Logged(config, running, hw)
      mode   == {k \in Enabled(config) : running /\ config[k].count = 0}
  IN  Gate(PowerPCLoad(Zero(hw, mode \cup (hw.over \ logged)), logged, reset), Counters)

-----------------------------------------------------------------------------
(* MPC7450 (op_model_7450.c): every counter is given its event.            *)
fsl7450_reg_setup(config) == Periods(config)

fsl7450_cpu_setup(hw) == Program(hw, Counters)

pmc_start_ctrs(hw) == Gate(hw, Counters)
pmc_stop_ctrs(hw)  == Gate(hw, {})

fsl7450_start(config, reset, hw) ==
  LET on == Enabled(config)
  IN  pmc_start_ctrs(PowerPCLoad(Zero(hw, Counters \ on), on, reset))

fsl7450_stop(hw) == pmc_stop_ctrs(hw)

Fsl7450Logged(config, running, hw) == {k \in hw.over \cap Enabled(config) : running}

fsl7450_handle_interrupt(config, reset, running, hw) ==
  LET logged == Fsl7450Logged(config, running, hw)
  IN  pmc_start_ctrs(PowerPCLoad(Zero(hw, hw.over \ logged), logged, reset))

-----------------------------------------------------------------------------
(* RS64 (op_model_rs64.c): the events are named by start(); the handler    *)
(* does not ask whether profiling is on.                                   *)
rs64_reg_setup(config) == Periods(config)

rs64_cpu_setup(hw) == Program(hw, {})

rs64_start(config, reset, hw) ==
  LET on     == Enabled(config)
      loaded == PowerPCLoad(Zero(hw, Counters \ on), on, reset)
  IN  Gate([loaded EXCEPT !.prog = @ \cup on], Counters)

rs64_stop(hw) == Gate(hw, {})

Rs64Logged(config, hw) == hw.over \cap Enabled(config)

rs64_handle_interrupt(config, reset, hw) ==
  LET logged == Rs64Logged(config, hw)
  IN  Gate(PowerPCLoad(Zero(hw, hw.over \ logged), logged, reset), Counters)

-----------------------------------------------------------------------------
(* model->setup_ctrs() of x86: the registers and reset_value after it.     *)
setup_ctrs(model, config, available, bound, reset, hw) ==
  CASE model = "ppro"   -> ppro_setup_ctrs(config, reset, hw)
    [] model = "athlon" -> athlon_setup_ctrs(config, hw)
    [] model = "p4"     -> p4_setup_ctrs(config, available, bound, reset, hw)

(* model->reg_setup() and model->cpu_setup() of powerpc                    *)
reg_setup(model, config) ==
  CASE model = "power4" -> power4_reg_setup(config)
    [] model = "7450"   -> fsl7450_reg_setup(config)
    [] model = "rs64"   -> rs64_reg_setup(config)

cpu_setup(model, config, hw) ==
  CASE model = "power4" -> power4_cpu_setup(config, hw)
    [] model = "7450"   -> fsl7450_cpu_setup(hw)
    [] model = "rs64"   -> rs64_cpu_setup(hw)

(* model->start(), model->stop()                                           *)
StartCtrs(model, config, reset, hw) ==
  CASE model = "ppro"   -> ppro_start(hw)
    [] model = "athlon" -> athlon_start(reset, hw)
    [] model = "p4"     -> p4_start(reset, hw)
    [] model = "power4" -> power4_start(config, reset, hw)
    [] model = "7450"   -> fsl7450_start(config, reset, hw)
    [] model = "rs64"   -> rs64_start(config, reset, hw)

StopCtrs(model, hw) ==
  CASE model = "ppro"   -> ppro_stop(hw)
    [] model = "athlon" -> athlon_stop(hw)
    [] model = "p4"     -> p4_stop(hw)
    [] model = "power4" -> power4_stop(hw)
    [] model = "7450"   -> fsl7450_stop(hw)
    [] model = "rs64"   -> rs64_stop(hw)

(* The loop of stop(): the next counter, and the last, when those of K     *)
(* have been passed.  An NMI that comes in between may let them count.     *)
StopOne(k, hw) == Gate(hw, hw.gate \ {k})

StopLast(model, K, hw) ==
  IF model \in Loops THEN Gate(hw, hw.gate \cap K) ELSE StopCtrs(model, hw)

(* model->check_ctrs(), model->handle_interrupt()                          *)
CheckCtrs(model, config, reset, running, hw) ==
  CASE model = "ppro"   -> ppro_check_ctrs(reset, hw)
    [] model = "athlon" -> athlon_check_ctrs(reset, hw)
    [] model = "p4"     -> p4_check_ctrs(reset, hw)
    [] model = "power4" -> power4_handle_interrupt(config, reset, running, hw)
    [] model = "7450"   -> fsl7450_handle_interrupt(config, reset, running, hw)
    [] model = "rs64"   -> rs64_handle_interrupt(config, reset, hw)

(* The counters for which it logs a sample.                                *)
Logged(model, config, reset, running, hw) ==
  CASE model \in {"ppro", "athlon"} -> hw.over
    [] model = "p4"     -> P4Logged(reset, hw)
    [] model = "power4" -> Power4Logged(config, running, hw)
    [] model = "7450"   -> Fsl7450Logged(config, running, hw)
    [] model = "rs64"   -> Rs64Logged(config, hw)
=============================================================================

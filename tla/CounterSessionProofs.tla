------------------------- MODULE CounterSessionProofs -------------------------
(***************************************************************************)
(* For every number of CPUs and counters and every counter model: when     *)
(* nothing is profiled no counter counts, no NMI finds the session running *)
(* and the kernel's idle loop is back; in a session every counter granted  *)
(* to the user counts, and what it logs is worth the period announced; a   *)
(* ring has one writer; counts stay small; registers come back.  The       *)
(* exceptions are those that CounterSession names.                         *)
(***************************************************************************)
EXTENDS CounterSession, TLAPS

Configs == [Counters -> [enabled : BOOLEAN, count : Nat, bound : SUBSET CPUs]]

Resets == [Counters -> Nat]

-----------------------------------------------------------------------------
(* What the counter models do to the registers of a CPU.                   *)

LEMMA EnabledAreCounters == ASSUME NEW c PROVE Enabled(c) \subseteq Counters
BY DEF Enabled

LEMMA PeriodsAreNumbers == ASSUME NEW c \in Configs PROVE Periods(c) \in Resets
BY DEF Configs, Periods, Resets

(* Loading counters leaves what counts, and where the interrupt goes.      *)
LEMMA LoadKeeps ==
  ASSUME NEW h \in Hardware, NEW K \in SUBSET Counters, NEW p \in Resets
  PROVE  /\ X86Load(h, K, p) \in Hardware
         /\ X86Load(h, K, p).gate = h.gate
         /\ PowerPCLoad(h, K, p) \in Hardware
         /\ PowerPCLoad(h, K, p).gate = h.gate
         /\ Zero(h, K) \in Hardware
         /\ Zero(h, K).gate = h.gate
<1>1. ASSUME NEW over \in SUBSET Counters
      PROVE  Load(h, K, p, over) \in Hardware /\ Load(h, K, p, over).gate = h.gate
  BY <1>1 DEF Load, Hardware, Resets
<1>2. {k \in K : X86Over(p[k])} \in SUBSET Counters
  OBVIOUS
<1>3. {k \in K : PowerPCOver(p[k])} \in SUBSET Counters
  OBVIOUS
<1>4. Zero(h, K) \in Hardware /\ Zero(h, K).gate = h.gate
  BY DEF Zero, Hardware
<1> QED
  BY <1>1, <1>2, <1>3, <1>4 DEF X86Load, PowerPCLoad

LEMMA GateKeeps ==
  ASSUME NEW h \in Hardware, NEW K \in SUBSET Counters
  PROVE  /\ Gate(h, K) \in Hardware /\ Gate(h, K).gate = K
         /\ Program(h, K) \in Hardware /\ Program(h, K).gate = {}
         /\ Unmask(h) \in Hardware
BY DEF Gate, Program, Unmask, Hardware

(* setup_ctrs() and cpu_setup() leave no counter that counts.              *)
LEMMA SetupCtrsKeeps ==
  ASSUME NEW m \in X86, NEW c \in Configs, NEW P, NEW e, NEW b, NEW r \in Resets,
         NEW h \in Hardware
  PROVE  /\ setup_ctrs(m, c, e \in P, b, r, h).hw \in Hardware
         /\ IF m = "p4" => e \in P THEN setup_ctrs(m, c, e \in P, b, r, h).hw.gate = {}
                             ELSE setup_ctrs(m, c, e \in P, b, r, h).hw = h
         /\ setup_ctrs(m, c, e \in P, b, r, h).reset \in Resets
<1> DEFINE sel    == Enabled(c)
           start  == Program(h, sel)
           some   == Program(h, sel \cap b)
           ones   == [k \in Counters |-> 1]
           unused == X86Load(start, Counters, ones)
<1>1. sel \in SUBSET Counters /\ Periods(c) \in Resets /\ ones \in Resets
  BY EnabledAreCounters, PeriodsAreNumbers DEF Resets
<1>2. start \in Hardware /\ start.gate = {} /\ some \in Hardware /\ some.gate = {}
  BY <1>1, GateKeeps
<1> HIDE DEF start, some
<1>3. unused \in Hardware /\ unused.gate = {}
  BY <1>1, <1>2, LoadKeeps
<1> HIDE DEF unused, sel
<1>a. /\ X86Load(unused, sel, Periods(c)) \in Hardware
      /\ X86Load(unused, sel, Periods(c)).gate = {}
  BY <1>1, <1>3, LoadKeeps
<1>b. /\ X86Load(some, sel, Periods(c)) \in Hardware
      /\ X86Load(some, sel, Periods(c)).gate = {}
  BY <1>1, <1>2, LoadKeeps
<1>4. /\ X86Load(unused, sel, Periods(c)) \in Hardware
      /\ X86Load(unused, sel, Periods(c)).gate = {}
      /\ X86Load(some, sel, Periods(c)) \in Hardware
      /\ X86Load(some, sel, Periods(c)).gate = {}
  BY <1>a, <1>b
<1>5. /\ [k \in Counters |-> IF k \in sel THEN c[k].count ELSE r[k]] \in Resets
      /\ [k \in Counters |-> IF k \in sel THEN c[k].count ELSE 0] \in Resets
  BY DEF Configs, Resets
<1>6. CASE m = "ppro"
  BY <1>4, <1>5, <1>6 DEF setup_ctrs, ppro_setup_ctrs, sel, start, unused
<1>7. CASE m = "athlon"
  BY <1>4, <1>5, <1>7 DEF setup_ctrs, athlon_setup_ctrs, sel, start, unused
<1>8. CASE m = "p4"
  BY <1>4, <1>5, <1>8 DEF setup_ctrs, p4_setup_ctrs, sel, some
<1> QED
  BY <1>6, <1>7, <1>8 DEF X86

LEMMA CpuSetupKeeps ==
  ASSUME NEW m \in PowerPC, NEW c \in Configs, NEW h \in Hardware
  PROVE  /\ cpu_setup(m, c, h) \in Hardware
         /\ cpu_setup(m, c, h).gate = {}
         /\ reg_setup(m, c) \in Resets
<1>1. /\ Program(h, Enabled(c)) \in Hardware /\ Program(h, Enabled(c)).gate = {}
      /\ Program(h, Counters) \in Hardware /\ Program(h, Counters).gate = {}
      /\ Program(h, {}) \in Hardware /\ Program(h, {}).gate = {}
  BY EnabledAreCounters, GateKeeps
<1>2. m = "power4" \/ m = "7450" \/ m = "rs64"
  BY DEF PowerPC
<1> QED
  BY <1>1, <1>2, PeriodsAreNumbers
  DEF cpu_setup, reg_setup, power4_cpu_setup, fsl7450_cpu_setup, rs64_cpu_setup,
      power4_reg_setup, fsl7450_reg_setup, rs64_reg_setup

LEMMA StopKeeps ==
  ASSUME NEW m \in X86 \cup PowerPC, NEW h \in Hardware
  PROVE  StopCtrs(m, h) \in Hardware /\ StopCtrs(m, h).gate = {}
<1>1. Gate(h, {}) \in Hardware /\ Gate(h, {}).gate = {}
  BY GateKeeps
<1>2. m \in {"ppro", "athlon", "p4", "power4", "7450", "rs64"}
  BY DEF X86, PowerPC
<1> QED
  BY <1>1, <1>2 DEF StopCtrs, ppro_stop, athlon_stop, p4_stop, power4_stop, fsl7450_stop,
      pmc_stop_ctrs, rs64_stop

(* The loop of stop() disables no counter that an NMI does not enable.     *)
LEMMA StopLoopKeeps ==
  ASSUME NEW m \in X86 \cup PowerPC, NEW K \in SUBSET Counters, NEW k, NEW h \in Hardware
  PROVE  /\ StopOne(k, h) \in Hardware /\ StopOne(k, h).gate = h.gate \ {k}
         /\ StopLast(m, K, h) \in Hardware /\ StopLast(m, K, h).gate \subseteq h.gate \cap K
<1>1. h.gate \ {k} \in SUBSET Counters /\ h.gate \cap K \in SUBSET Counters
  BY DEF Hardware
<1>2. /\ Gate(h, h.gate \ {k}) \in Hardware /\ Gate(h, h.gate \ {k}).gate = h.gate \ {k}
      /\ Gate(h, h.gate \cap K) \in Hardware /\ Gate(h, h.gate \cap K).gate = h.gate \cap K
  BY <1>1, GateKeeps
<1> QED
  BY <1>2, StopKeeps DEF StopOne, StopLast

LEMMA StartKeeps ==
  ASSUME NEW m \in X86 \cup PowerPC, NEW c \in Configs, NEW r \in Resets, NEW h \in Hardware
  PROVE  StartCtrs(m, c, r, h) \in Hardware
<1>1. /\ Gate(h, Counters) \in Hardware
      /\ Gate(h, h.gate \cup {k \in Counters : r[k] # 0}) \in Hardware
  <2>1. h.gate \cup {k \in Counters : r[k] # 0} \in SUBSET Counters
    BY DEF Hardware
  <2> QED
    BY <2>1, GateKeeps
<1>2. ASSUME NEW sel \in SUBSET Counters
      PROVE  LET loaded == PowerPCLoad(Zero(h, Counters \ sel), sel, r)
             IN  /\ Gate(loaded, Counters) \in Hardware
                 /\ Gate([loaded EXCEPT !.prog = @ \cup sel], Counters) \in Hardware
  <2> DEFINE zeroed == Zero(h, Counters \ sel)
             loaded == PowerPCLoad(zeroed, sel, r)
  <2>1. zeroed \in Hardware
    BY LoadKeeps
  <2>2. loaded \in Hardware
    BY <2>1, LoadKeeps
  <2> HIDE DEF loaded
  <2>3. [loaded EXCEPT !.prog = @ \cup sel] \in Hardware
    BY <2>2 DEF Hardware
  <2>4. Gate(loaded, Counters) \in Hardware /\ Gate([loaded EXCEPT !.prog = @ \cup sel], Counters) \in Hardware
    BY <2>2, <2>3, GateKeeps
  <2> QED
    BY <2>4 DEF loaded
<1>3. /\ Enabled(c) \in SUBSET Counters
      /\ {k \in Enabled(c) : c[k].count # 0} \in SUBSET Counters
  BY EnabledAreCounters
<1>4. CASE m \in X86
  BY <1>1, <1>4 DEF X86, StartCtrs, ppro_start, athlon_start, p4_start
<1>5. CASE m = "power4"
  BY <1>2, <1>3, <1>5 DEF StartCtrs, power4_start
<1>6. CASE m = "7450"
  BY <1>2, <1>3, <1>6 DEF StartCtrs, fsl7450_start, pmc_start_ctrs
<1>7. CASE m = "rs64"
  BY <1>2, <1>3, <1>7 DEF StartCtrs, rs64_start
<1> QED
  BY <1>4, <1>5, <1>6, <1>7 DEF PowerPC

LEMMA CheckKeeps ==
  ASSUME NEW m \in X86 \cup PowerPC, NEW c \in Configs, NEW r \in Resets,
         NEW run \in BOOLEAN, NEW h \in Hardware
  PROVE  CheckCtrs(m, c, r, run, h) \in Hardware
<1>1. ASSUME NEW g \in Hardware
      PROVE  /\ ppro_start(g) \in Hardware /\ ppro_stop(g) \in Hardware
             /\ athlon_start(r, g) \in Hardware /\ athlon_stop(g) \in Hardware
             /\ p4_start(r, g) \in Hardware /\ p4_stop(g) \in Hardware
  <2>1. g.gate \cup {k \in Counters : r[k] # 0} \in SUBSET Counters
    BY DEF Hardware
  <2> QED
    BY <2>1, GateKeeps
    DEF ppro_start, ppro_stop, athlon_start, athlon_stop, p4_start, p4_stop
<1>2. h.over \in SUBSET Counters /\ P4Logged(r, h) \in SUBSET Counters
  BY DEF Hardware, P4Logged
<1>3. ASSUME NEW Z \in SUBSET Counters, NEW K \in SUBSET Counters
      PROVE  Gate(PowerPCLoad(Zero(h, Z), K, r), Counters) \in Hardware
  <2>1. Zero(h, Z) \in Hardware
    BY LoadKeeps
  <2>2. PowerPCLoad(Zero(h, Z), K, r) \in Hardware
    BY <2>1, LoadKeeps
  <2> QED
    BY <2>2, GateKeeps
<1>4. CASE m = "ppro"
  <2>1. X86Load(ppro_stop(h), h.over, r) \in Hardware
    BY <1>1, <1>2, LoadKeeps
  <2>2. ppro_check_ctrs(r, h) \in Hardware
    BY <2>1, <1>1, GateKeeps DEF ppro_check_ctrs
  <2> QED
    BY <2>2, <1>4 DEF CheckCtrs
<1>5. CASE m = "athlon"
  <2>1. X86Load(athlon_stop(h), h.over, r) \in Hardware
    BY <1>1, <1>2, LoadKeeps
  <2>2. athlon_check_ctrs(r, h) \in Hardware
    BY <2>1, <1>1 DEF athlon_check_ctrs
  <2> QED
    BY <2>2, <1>5 DEF CheckCtrs
<1>6. CASE m = "p4"
  <2>1. X86Load(p4_stop(h), P4Logged(r, h), r) \in Hardware
    BY <1>1, <1>2, LoadKeeps
  <2>2. p4_check_ctrs(r, h) \in Hardware
    BY <2>1, <1>1, GateKeeps DEF p4_check_ctrs
  <2> QED
    BY <2>2, <1>6 DEF CheckCtrs
<1>7. CASE m = "power4"
  <2> DEFINE logged == Power4Logged(c, run, h)
             mode   == {k \in Enabled(c) : run /\ c[k].count = 0}
  <2>1. logged \in SUBSET Counters /\ mode \cup (h.over \ logged) \in SUBSET Counters
    BY <1>2, EnabledAreCounters DEF Power4Logged
  <2>2. power4_handle_interrupt(c, r, run, h) \in Hardware
    BY <2>1, <1>3 DEF power4_handle_interrupt
  <2> QED
    BY <2>2, <1>7 DEF CheckCtrs
<1>8. CASE m = "7450"
  <2>1. /\ Fsl7450Logged(c, run, h) \in SUBSET Counters
        /\ h.over \ Fsl7450Logged(c, run, h) \in SUBSET Counters
    BY <1>2 DEF Fsl7450Logged
  <2>2. fsl7450_handle_interrupt(c, r, run, h) \in Hardware
    BY <2>1, <1>3 DEF fsl7450_handle_interrupt, pmc_start_ctrs
  <2> QED
    BY <2>2, <1>8 DEF CheckCtrs
<1>9. CASE m = "rs64"
  <2>1. Rs64Logged(c, h) \in SUBSET Counters /\ h.over \ Rs64Logged(c, h) \in SUBSET Counters
    BY <1>2 DEF Rs64Logged
  <2>2. rs64_handle_interrupt(c, r, h) \in Hardware
    BY <2>1, <1>3 DEF rs64_handle_interrupt
  <2> QED
    BY <2>2, <1>9 DEF CheckCtrs
<1> QED
  BY <1>4, <1>5, <1>6, <1>7, <1>8, <1>9 DEF X86, PowerPC

-----------------------------------------------------------------------------
LEMMA PowerOnTyped == PowerOn \in Hardware /\ Counting(PowerOn) = {}
BY DEF PowerOn, Hardware, Counting

LEMMA AskedTyped == ASSUME NEW c \in Configs PROVE Asked(c) \in [Counters -> Nat]
BY DEF Asked, Configs

LEMMA ChosenTyped ==
  ASSUME config \in Configs, NEW k \in Counters, NEW new \in Settings
  PROVE  [config EXCEPT ![k] = new] \in Configs
<1>1. new \in [enabled : BOOLEAN, count : Nat, bound : SUBSET CPUs]
  BY SessionAssumption DEF Settings
<1> QED
  BY <1>1 DEF Configs

(* Handlers run only inside an operation; start and stop leave marks.      *)
Types ==
  /\ TypeOK
  /\ section = "none" => todo = {}
  /\ section \notin {"start", "stop"} => at = {}

LEMMA TypesInitially == Init => Types
<1> SUFFICES ASSUME Init PROVE Types
  OBVIOUS
<1>1. config \in Configs
  BY SessionAssumption DEF Init, Configs, Settings
<1>2. reset_value \in [Counters -> Nat] /\ model \in X86 \cup PowerPC
  <2>1. (IF model = "ppro" THEN Garbage ELSE {0}) \subseteq Nat
    BY SessionAssumption
  <2>2. reset_value \in [Counters -> IF model = "ppro" THEN Garbage ELSE {0}]
    BY DEF Init
  <2>3. model \in X86 \cup PowerPC
    BY SessionAssumption DEF Init
  <2> HIDE DEF Init
  <2> QED
    BY <2>1, <2>2, <2>3
<1>6. pmc \subseteq CPUs /\ (model # "p4" => pmc = CPUs)
  BY SessionAssumption DEF Init
<1>3. asked \in [Counters -> Nat]
  BY <1>1, AskedTyped DEF Init
<1>4. hw \in [CPUs -> Hardware] /\ saved \in [CPUs -> Hardware]
  BY PowerOnTyped DEF Init
<1>5. /\ changes \in 0 .. MaxChanges /\ adapt_value \in Nat
      /\ poll_idle_enabled \in BOOLEAN
  BY SessionAssumption DEF Init
<1> QED
  BY <1>1, <1>2, <1>3, <1>4, <1>5, <1>6 DEF Init, Types, TypeOK, Configs

(* Most actions change only the variables of the control thread.           *)
LEMMA ControlTyped ==
  ASSUME Types, UNCHANGED << machine, configVars, reset_value, cpuVars, history >>,
         section' \in {"none", "save", "setup", "start", "stop", "decay", "adapt", "shutdown"},
         todo' \subseteq CPUs, at' \subseteq todo', section' = "none" => todo' = {},
         section' \notin {"start", "stop"} => at' = {},
         adapting' \in BOOLEAN, running' \in BOOLEAN, nmi_enabled' \in BOOLEAN,
         is_setup' \in BOOLEAN, started' \in BOOLEAN, asleep' \in BOOLEAN,
         poll_idle_enabled' \in BOOLEAN, pm_idle' \in {"saved", "poll"}, adapt_value' \in Nat
  PROVE  Types'
BY DEF Types, TypeOK, machine, configVars, cpuVars, midVars

LEMMA TypesKept == ASSUME Types, [Next]_vars PROVE Types'
<1> USE DEF machine, configVars, controlVars, stateVars, idleVars, cpuVars, midVars, Enter, Leave, Done
<1>1. CASE BeginSetup
  <2>1. CASE model \in X86
    <3>1. UNCHANGED << machine, configVars, reset_value, cpuVars, history >>
      BY <1>1, <2>1 DEF BeginSetup
    <3>2. /\ section' = "save" /\ todo' = CPUs /\ at' = at
          /\ running' = FALSE /\ nmi_enabled' = FALSE /\ is_setup' = TRUE
          /\ UNCHANGED << adapting, started, asleep, poll_idle_enabled, pm_idle, adapt_value >>
      BY <1>1, <2>1 DEF BeginSetup
    <3>3. /\ adapting' \in BOOLEAN /\ started' \in BOOLEAN /\ asleep' \in BOOLEAN
          /\ poll_idle_enabled' \in BOOLEAN /\ pm_idle' \in {"saved", "poll"}
          /\ adapt_value' \in Nat
      BY <3>2 DEF Types, TypeOK
    <3>4. section = "none" /\ at' = {}
      BY <1>1, <3>2 DEF BeginSetup, Types
    <3> HIDE DEF configVars, cpuVars
    <3> QED
      BY <3>1, <3>2, <3>3, <3>4, ControlTyped
  <2>2. CASE model \notin X86
    <3>1. model \in PowerPC /\ config \in Configs /\ PowerOn \in Hardware
      BY <2>2, PowerOnTyped DEF Types, TypeOK, Configs
    <3>2. reset_value' \in Resets
      BY <1>1, <2>2, <3>1, CpuSetupKeeps DEF BeginSetup
    <3>3. /\ section = "none" /\ section' = "setup" /\ todo' = CPUs /\ is_setup' = TRUE
          /\ UNCHANGED << machine, configVars, adapting, at, started, asleep, running, nmi_enabled,
                          adapt_value, idleVars, cpuVars, history >>
      BY <1>1, <2>2 DEF BeginSetup
    <3> QED
      BY <3>2, <3>3 DEF Types, TypeOK, Resets
  <2> QED
    BY <2>1, <2>2
<1>2. ASSUME NEW c \in CPUs, SaveRegisters(c) PROVE Types'
  <2>1. saved' \in [CPUs -> Hardware]
    BY <1>2 DEF SaveRegisters, Types, TypeOK
  <2> QED
    BY <1>2, <2>1 DEF SaveRegisters, Types, TypeOK
<1>3. CASE EndSave \/ EndSetup \/ EndStop \/ CannotAdapt \/ EndAdapt \/ CanAdapt \/ EndShutdown
  <2>1. /\ UNCHANGED << machine, configVars, reset_value, cpuVars, history >>
        /\ section' \in {"setup", "none", "start", "decay"}
        /\ todo' \in {CPUs, {}}
        /\ section' = "none" => todo' = {}
        /\ at' = at /\ todo = {}
        /\ UNCHANGED << adapting, asleep, poll_idle_enabled, pm_idle >>
        /\ running' \in BOOLEAN /\ nmi_enabled' \in BOOLEAN
        /\ is_setup' \in BOOLEAN /\ started' \in BOOLEAN
        /\ adapt_value' \in {adapt_value, adapt_value * Factor}
    <3>1. CASE EndSave
      BY <3>1 DEF EndSave, Types, TypeOK
    <3>5. CASE EndSetup
      <4>1. nmi_enabled' \in BOOLEAN
        <5>1. nmi_enabled' = (model \in X86)
          BY <3>5 DEF EndSetup
        <5>2. (model \in X86) \in BOOLEAN
          OBVIOUS
        <5> QED
          BY <5>1, <5>2, Zenon
      <4> QED
        BY <3>5, <4>1 DEF EndSetup, Types, TypeOK
    <3>2. CASE EndStop \/ EndShutdown
      BY <3>2 DEF EndStop, EndShutdown, Types, TypeOK
    <3>3. CASE CanAdapt \/ CannotAdapt
      BY <3>3 DEF CanAdapt, CannotAdapt, EnterStart, Types, TypeOK
    <3>4. CASE EndAdapt
      BY <3>4 DEF EndAdapt, EnterStart, Types, TypeOK
    <3> QED
      BY <1>3, <3>1, <3>2, <3>3, <3>4, <3>5
  <2>2. adapt_value * Factor \in Nat
    <3>1. adapt_value \in Nat /\ Factor \in Nat
      BY SessionAssumption DEF Types, TypeOK
    <3> QED
      BY <3>1
  <2>3. at' = {} /\ adapt_value' \in Nat
    BY <2>1, <2>2 DEF Types, TypeOK
  <2>4. /\ adapting' \in BOOLEAN /\ asleep' \in BOOLEAN /\ poll_idle_enabled' \in BOOLEAN
        /\ pm_idle' \in {"saved", "poll"} /\ todo' \subseteq CPUs
    BY <2>1 DEF Types, TypeOK
  <2> HIDE DEF configVars, cpuVars
  <2> QED
    BY <2>1, <2>3, <2>4, ControlTyped
<1>4. ASSUME NEW c \in CPUs, SetupCpu(c) PROVE Types'
  <2>1. hw[c] \in Hardware /\ config \in Configs /\ reset_value \in Resets
    BY DEF Types, TypeOK, Configs, Resets
  <2>2. hw' \in [CPUs -> Hardware] /\ reset_value' \in [Counters -> Nat]
    <3>1. CASE model \in X86
      <4> DEFINE done == setup_ctrs(model, config, c \in pmc, Bound(c), reset_value, hw[c])
      <4>1. done.hw \in Hardware /\ done.reset \in Resets
        BY <2>1, <3>1, SetupCtrsKeeps
      <4>2. /\ reset_value' = done.reset
            /\ hw' = [hw EXCEPT ![c] =
                        [done.hw EXCEPT !.lvtpc = IF section = "setup" THEN "nmi" ELSE @]]
        BY <1>4, <3>1 DEF SetupCpu
      <4> HIDE DEF done
      <4>3. [done.hw EXCEPT !.lvtpc = IF section = "setup" THEN "nmi" ELSE @] \in Hardware
        BY <4>1 DEF Hardware
      <4> QED
        BY <4>1, <4>2, <4>3 DEF Types, TypeOK, Resets
    <3>2. CASE model \notin X86
      <4>1. cpu_setup(model, config, hw[c]) \in Hardware
        BY <2>1, <3>2, CpuSetupKeeps DEF Types, TypeOK
      <4> QED
        BY <1>4, <3>2, <4>1 DEF SetupCpu, Types, TypeOK
    <3> QED
      BY <3>1, <3>2
  <2>3. /\ section \in {"setup", "adapt"} /\ todo' \subseteq CPUs
        /\ UNCHANGED << machine, configVars, section, adapting, at, is_setup, started, asleep,
                        running, nmi_enabled, adapt_value, idleVars, saved, pend, on, midVars, history >>
    BY <1>4 DEF SetupCpu, Types, TypeOK
  <2> QED
    BY <2>2, <2>3 DEF Types, TypeOK
<1>5. CASE BeginStart
  <2>1. UNCHANGED << machine, configVars, reset_value, cpuVars >> /\ history' \subseteq history \cup {"decayed"}
    BY <1>5 DEF BeginStart, EnterStart, Note
  <2>2. running' \in BOOLEAN /\ adapt_value' \in Nat
    BY <1>5 DEF BeginStart, EnterStart, Types, TypeOK
  <2> QED
    BY <1>5, <2>1, <2>2 DEF BeginStart, EnterStart, Types, TypeOK
<1>6. ASSUME NEW c \in CPUs, StartMark(c) PROVE Types'
  BY <1>6 DEF StartMark, Types, TypeOK
<1>7. ASSUME NEW c \in CPUs, StartCpu(c) PROVE Types'
  <2>1. StartCtrs(model, config, reset_value, hw[c]) \in Hardware
    BY StartKeeps DEF Types, TypeOK, Configs, Resets
  <2>2. hw' \in [CPUs -> Hardware]
    BY <1>7, <2>1 DEF StartCpu, Types, TypeOK
  <2> QED
    BY <1>7, <2>2 DEF StartCpu, Types, TypeOK
<1>8. CASE EndStart
  <2>1. UNCHANGED << machine, configVars, reset_value, cpuVars, history >>
    BY <1>8 DEF EndStart
  <2>2. /\ section' = "none" /\ todo' = {} /\ todo = {} /\ at' = at
        /\ adapting' = FALSE /\ asleep' = FALSE /\ started' \in BOOLEAN
        /\ UNCHANGED << running, nmi_enabled, is_setup, poll_idle_enabled, adapt_value >>
        /\ pm_idle' \in {pm_idle, "poll"}
    BY <1>8 DEF EndStart, enable_poll_idle, Types, TypeOK
  <2> HIDE DEF configVars, cpuVars
  <2> QED
    BY <2>1, <2>2, ControlTyped DEF Types, TypeOK
<1>9. CASE BeginStop \/ BeginAdapt
  <2>1. UNCHANGED << machine, configVars, reset_value, cpuVars, history >>
    BY <1>9 DEF BeginStop, BeginAdapt
  <2>2. /\ section' = "stop" /\ todo' = CPUs /\ at' = at /\ adapting' \in BOOLEAN
        /\ UNCHANGED << running, nmi_enabled, is_setup, started, asleep, poll_idle_enabled,
                        pm_idle, adapt_value >>
    BY <1>9 DEF BeginStop, BeginAdapt, Types, TypeOK
  <2> HIDE DEF configVars, cpuVars
  <2> QED
    BY <2>1, <2>2, ControlTyped DEF Types, TypeOK
<1>10. ASSUME NEW c \in CPUs, StopCpu(c) PROVE Types'
  <2>1. StopLast(model, passed[c], hw[c]) \in Hardware
    BY StopLoopKeeps DEF Types, TypeOK
  <2>2. hw' \in [CPUs -> Hardware] /\ passed' \in [CPUs -> SUBSET Counters]
    BY <1>10, <2>1 DEF StopCpu, Types, TypeOK
  <2>3. running' \in BOOLEAN
    BY <1>10 DEF StopCpu, Types, TypeOK
  <2> QED
    BY <1>10, <2>2, <2>3 DEF StopCpu, Types, TypeOK
<1>22. ASSUME NEW c \in CPUs, NEW k \in Counters, StopCounter(c, k) PROVE Types'
  <2>1. StopOne(k, hw[c]) \in Hardware
    BY StopLoopKeeps DEF Types, TypeOK
  <2>2. hw' \in [CPUs -> Hardware] /\ passed' \in [CPUs -> SUBSET Counters]
    BY <1>22, <2>1 DEF StopCounter, Types, TypeOK
  <2> QED
    BY <1>22, <2>2 DEF StopCounter, Types, TypeOK
<1>11. ASSUME NEW c \in CPUs, StopMark(c) PROVE Types'
  BY <1>11 DEF StopMark, disable_poll_idle, Types, TypeOK
<1>12. CASE Decay
  <2>1. ASSUME NEW k \in Counters
        PROVE  [config[k] EXCEPT !.count = @ * Factor] \in [enabled : BOOLEAN, count : Nat, bound : SUBSET CPUs]
    <3>1. config[k] \in [enabled : BOOLEAN, count : Nat, bound : SUBSET CPUs]
      BY DEF Types, TypeOK
    <3>2. config[k].count * Factor \in Nat
      BY <3>1, SessionAssumption
    <3> QED
      BY <3>1, <3>2
  <2>2. config' \in [Counters -> [enabled : BOOLEAN, count : Nat, bound : SUBSET CPUs]]
    BY <1>12, <2>1 DEF Decay, Types, TypeOK
  <2> QED
    BY <1>12, <2>2 DEF Decay, Types, TypeOK
<1>13. CASE BeginShutdown
  <2>1. UNCHANGED << machine, configVars, reset_value, cpuVars, history >>
    BY <1>13 DEF BeginShutdown
  <2>2. /\ section = "none" /\ section' = "shutdown" /\ todo' \in {CPUs, {}} /\ at' = at
        /\ nmi_enabled' = FALSE /\ pm_idle' = "saved"
        /\ UNCHANGED << adapting, running, is_setup, started, asleep, poll_idle_enabled,
                        adapt_value >>
    BY <1>13 DEF BeginShutdown, disable_poll_idle
  <2> HIDE DEF configVars, cpuVars
  <2> QED
    BY <2>1, <2>2, ControlTyped DEF Types, TypeOK
<1>14. ASSUME NEW c \in CPUs, ShutdownCpu(c) PROVE Types'
  <2>1. at' = at /\ section = "shutdown" /\ hw' \in [CPUs -> Hardware]
    BY <1>14 DEF ShutdownCpu, Types, TypeOK
  <2> QED
    BY <1>14, <2>1 DEF ShutdownCpu, Types, TypeOK
<1>15. CASE Suspend
  <2>1. hw' \in [CPUs -> Hardware]
    BY <1>15, PowerOnTyped DEF Suspend, Types, TypeOK
  <2>2. history' \subseteq history \cup {"slept"} /\ changes' \in 0 .. MaxChanges
    BY <1>15, SessionAssumption DEF Suspend, Note, Change, Types, TypeOK
  <2> QED
    BY <1>15, <2>1, <2>2, SessionAssumption DEF Suspend, Types, TypeOK
<1>16. CASE Resume
  <2>1. history' \subseteq history \cup {"resumed"} /\ running' \in BOOLEAN
    BY <1>16 DEF Resume, EnterStart, Note, Types, TypeOK
  <2> QED
    BY <1>16, <2>1, SessionAssumption DEF Resume, EnterStart, Types, TypeOK
<1>17. CASE IdlePollWrite
  <2>1. changes' \in 0 .. MaxChanges /\ poll_idle_enabled' \in BOOLEAN
    BY <1>17, SessionAssumption DEF IdlePollWrite, Change, Types, TypeOK
  <2> QED
    BY <1>17, <2>1 DEF IdlePollWrite, Types, TypeOK
<1>18. ASSUME NEW k \in Counters, Configure(k) PROVE Types'
  <2>1. config' \in Configs
    BY <1>18, ChosenTyped DEF Configure, Types, TypeOK, Configs
  <2>2. asked' \in [Counters -> Nat]
    <3>1. PICK new \in Settings :
            asked' = [asked EXCEPT ![k] = IF new.enabled THEN new.count ELSE 0]
      BY <1>18 DEF Configure
    <3>2. new.count \in Nat
      BY SessionAssumption DEF Settings
    <3> QED
      BY <3>1, <3>2 DEF Types, TypeOK
  <2>3. changes' \in 0 .. MaxChanges /\ history' \subseteq history \cup {"reconfigured", "raced"}
    BY <1>18, SessionAssumption DEF Configure, Change, Types, TypeOK
  <2>4. UNCHANGED << machine, controlVars, stateVars, idleVars, cpuVars >>
    BY <1>18 DEF Configure
  <2> QED
    BY <2>1, <2>2, <2>3, <2>4 DEF Types, TypeOK, Configs
<1>19. ASSUME NEW c \in CPUs, NEW k \in Counters, Count(c, k) PROVE Types'
  <2>1. hw[c] \in Hardware
    BY DEF Types, TypeOK
  <2>2. hw' \in [CPUs -> Hardware]
    <3> DEFINE after == [hw[c] EXCEPT
             !.over  = @ \cup {k},
             !.gate  = IF model \in PowerPC THEN {} ELSE @,
             !.lvtpc = IF Sends(c) /\ model \in {"ppro", "p4"} THEN "masked" ELSE @]
    <3>1. hw' = [hw EXCEPT ![c] = after]
      BY <1>19 DEF Count, Types, TypeOK
    <3>2. after \in Hardware
      BY <2>1 DEF Hardware
    <3> HIDE DEF after
    <3> QED
      BY <3>1, <3>2 DEF Types, TypeOK
  <2> QED
    BY <1>19, <2>2 DEF Count, Types, TypeOK
<1>20. ASSUME NEW c \in CPUs, Interrupt(c) PROVE Types'
  <2> USE DEF Interrupt, NmiUnclaimed, NmiEnter, NmiCheck, NmiStop, PmcInterrupt, Take, Handled,
              Note
  <2>1. /\ pend' \subseteq CPUs
        /\ UNCHANGED << machine, configVars, controlVars, stateVars, idleVars, saved, on, passed >>
    BY <1>20 DEF Types, TypeOK
  <2>2. CheckCtrs(model, config, reset_value, running, hw[c]) \in Hardware
    BY CheckKeeps DEF Types, TypeOK, Configs, Resets
  <2>3. StopCtrs(model, hw[c]) \in Hardware /\ hw[c] \in Hardware
    BY StopKeeps DEF Types, TypeOK
  <2>4. \/ hw' = hw
        \/ hw' = [hw EXCEPT ![c] = CheckCtrs(model, config, reset_value, running, @)]
        \/ hw' = [hw EXCEPT ![c] = IF nmi_enabled THEN StopCtrs(model, @) ELSE @]
    BY <1>20
  <2>5. hw' \in [CPUs -> Hardware]
    BY <2>2, <2>3, <2>4 DEF Types, TypeOK
  <2>6. history' \subseteq history \cup {"late", "restarted"}
    BY <1>20
  <2>7. nmi' \in [CPUs -> {"none", "check", "stop"}]
    BY <1>20 DEF Types, TypeOK
  <2> QED
    BY <2>1, <2>5, <2>6, <2>7 DEF Types, TypeOK
<1>21. CASE UNCHANGED vars
  BY <1>21 DEF vars, Types, TypeOK
<1> QED
  BY <1>1, <1>2, <1>3, <1>4, <1>5, <1>6, <1>7, <1>8, <1>9, <1>10, <1>11, <1>12, <1>13, <1>14,
     <1>15, <1>16, <1>17, <1>18, <1>19, <1>20, <1>21, <1>22
     DEF Next, EndOfSection, HandlerOnCpu

LEMMA TypesInvariant == Spec => []Types
BY TypesInitially, TypesKept, PTL DEF Spec

(* Every variable keeps its type, for every counter model.                 *)
THEOREM TypeCorrect == Spec => []TypeOK
<1>1. Types => TypeOK
  BY DEF Types
<1> QED
  BY TypesInvariant, <1>1, PTL

-----------------------------------------------------------------------------
(* What has happened is not forgotten.                                     *)
LEMMA HistoryGrows == ASSUME [Next]_vars PROVE history \subseteq history'
<1> USE DEF controlVars, stateVars, idleVars, cpuVars
<1>1. CASE BeginSetup \/ BeginStart \/ BeginStop \/ BeginAdapt \/ BeginShutdown
  BY <1>1 DEF BeginSetup, BeginStart, BeginStop, BeginAdapt, BeginShutdown, Note
<1>2. CASE Suspend \/ Resume \/ IdlePollWrite
  BY <1>2 DEF Suspend, Resume, IdlePollWrite, Note
<1>3. CASE EndOfSection
  BY <1>3 DEF EndOfSection, EndSave, EndSetup, EndStart, EndStop, CanAdapt, CannotAdapt, Decay,
      EndAdapt, EndShutdown
<1>4. ASSUME NEW c \in CPUs, HandlerOnCpu(c) PROVE history' = history
  BY <1>4 DEF HandlerOnCpu, SaveRegisters, SetupCpu, ShutdownCpu, StartMark, StartCpu, StopCpu,
      StopMark, StopCounter
<1>5. ASSUME NEW c \in CPUs, Interrupt(c) PROVE history \subseteq history'
  BY <1>5 DEF Interrupt, NmiUnclaimed, NmiEnter, NmiCheck, NmiStop, PmcInterrupt, Handled, Note
<1>6. ASSUME NEW c \in CPUs, NEW k \in Counters, Count(c, k) PROVE history' = history
  BY <1>6 DEF Count
<1>7. ASSUME NEW k \in Counters, Configure(k) PROVE history \subseteq history'
  BY <1>7 DEF Configure
<1>8. CASE UNCHANGED vars
  BY <1>8 DEF vars
<1> QED
  BY <1>1, <1>2, <1>3, <1>4, <1>5, <1>6, <1>7, <1>8 DEF Next

(* An NMI comes on x86, when the handler is registered, on a CPU that is   *)
(* on if it is not late; the loop of stop() runs in a stop.                *)
Mid ==
  /\ nmi_enabled => model \in X86
  /\ \A c \in CPUs : passed[c] # {} => section = "stop" /\ c \in todo \ at /\ model \in Loops
  /\ \A c \in CPUs :
       nmi[c] # "none" => model \in X86 /\ is_setup /\ (c \in on \/ "late" \in history)

LEMMA MidKept == ASSUME Types, Mid, [Next]_vars PROVE Mid'
<1> USE DEF machine, configVars, controlVars, stateVars, idleVars, cpuVars, midVars, Enter, Leave,
            Done
<1>0. history \subseteq history'
  BY HistoryGrows
<1>1. CASE /\ UNCHANGED << machine, midVars, on >>
           /\ section # "stop" \/ todo = {}
           /\ is_setup => is_setup'
           /\ nmi_enabled' => nmi_enabled \/ model \in X86
  <2>1. \A c \in CPUs : passed[c] = {}
    BY <1>1 DEF Mid
  <2>2. nmi_enabled' => model' \in X86
    BY <1>1 DEF Mid
  <2>3. ASSUME NEW c \in CPUs, nmi'[c] # "none"
        PROVE  model' \in X86 /\ is_setup' /\ (c \in on' \/ "late" \in history')
    <3>1. nmi' = nmi /\ on' = on /\ model' = model
      BY <1>1
    <3>2. model \in X86 /\ is_setup /\ (c \in on \/ "late" \in history)
      BY <2>3, <3>1 DEF Mid
    <3> QED
      BY <1>0, <1>1, <3>1, <3>2
  <2> QED
    BY <1>1, <2>1, <2>2, <2>3 DEF Mid
<1>2. CASE BeginSetup \/ BeginStart \/ BeginStop \/ BeginAdapt \/ BeginShutdown \/ Resume
  BY <1>1, <1>2 DEF BeginSetup, BeginStart, BeginStop, BeginAdapt, BeginShutdown, Resume, EnterStart
<1>3. CASE Suspend
  BY <1>3 DEF Suspend, Mid
<1>4. CASE EndSave \/ EndSetup \/ EndStart \/ EndStop \/ CanAdapt \/ CannotAdapt \/ Decay \/ EndAdapt
  BY <1>1, <1>4 DEF EndSave, EndSetup, EndStart, EndStop, CanAdapt, CannotAdapt, Decay, EndAdapt,
     EnterStart
<1>5. CASE EndShutdown
  BY <1>5 DEF EndShutdown, Mid
<1>6. ASSUME NEW c \in CPUs, nmi[c] = "none", SaveRegisters(c) \/ SetupCpu(c) \/ StartMark(c) PROVE Mid'
  BY <1>1, <1>6 DEF SaveRegisters, SetupCpu, StartMark
<1>7. ASSUME NEW c \in CPUs, StartCpu(c) PROVE Mid'
  BY <1>0, <1>7 DEF StartCpu, Mid
<1>8. ASSUME NEW c \in CPUs, nmi[c] = "none", ShutdownCpu(c) PROVE Mid'
  BY <1>8 DEF ShutdownCpu, Mid
<1>9. ASSUME NEW c \in CPUs, nmi[c] = "none", StopCpu(c) PROVE Mid'
  BY <1>9 DEF StopCpu, Mid, Types, TypeOK
<1>10. ASSUME NEW c \in CPUs, StopMark(c) PROVE Mid'
  BY <1>10 DEF StopMark, Mid
<1>11. ASSUME NEW c \in CPUs, NEW k \in Counters, StopCounter(c, k) PROVE Mid'
  BY <1>11 DEF StopCounter, Mid, Types, TypeOK
<1>12. ASSUME NEW c \in CPUs, NEW k \in Counters, Count(c, k) PROVE Mid'
  BY <1>12 DEF Count, Mid
<1>13. ASSUME NEW c \in CPUs, Interrupt(c) PROVE Mid'
  <2> USE DEF Take, Note, Mid
  <2>1. CASE NmiUnclaimed(c)
    BY <1>0, <2>1 DEF NmiUnclaimed
  <2>2. CASE NmiEnter(c)
    BY <1>0, <2>2 DEF NmiEnter, Types, TypeOK
  <2>3. CASE NmiCheck(c)
    BY <1>0, <2>3 DEF NmiCheck, Types, TypeOK
  <2>4. CASE NmiStop(c)
    BY <2>4 DEF NmiStop, Types, TypeOK
  <2>5. CASE PmcInterrupt(c)
    BY <1>0, <2>5 DEF PmcInterrupt
  <2> QED
    BY <1>13, <2>1, <2>2, <2>3, <2>4, <2>5 DEF Interrupt
<1>14. ASSUME NEW k \in Counters, Configure(k) PROVE Mid'
  BY <1>0, <1>14 DEF Configure, Mid
<1>15. CASE IdlePollWrite
  BY <1>15 DEF IdlePollWrite, Mid
<1>16. CASE UNCHANGED vars
  BY <1>16 DEF vars, Mid
<1> QED
  BY <1>2, <1>3, <1>4, <1>5, <1>6, <1>7, <1>8, <1>9, <1>10, <1>11, <1>12, <1>13, <1>14, <1>15,
     <1>16 DEF Next, EndOfSection, HandlerOnCpu

LEMMA MidInvariant == Spec => []Mid
<1>1. Init => Mid
  BY DEF Init, Mid
<1> QED
  BY <1>1, MidKept, TypesInvariant, PTL DEF Spec

(* Only the handlers change nmi.                                           *)
LEMMA NmiChanges ==
  ASSUME Mid, [Next]_vars, \A d \in CPUs : ~Interrupt(d)
  PROVE  /\ nmi' = nmi
         /\ model \in PowerPC => pend \subseteq pend'
<1> USE DEF cpuVars, midVars
<1>1. CASE Suspend
  BY <1>1 DEF Suspend, Mid, X86, PowerPC
<1>2. CASE UNCHANGED << nmi, pend >>
  BY <1>2
<1>3. CASE BeginSetup \/ BeginStart \/ BeginStop \/ BeginAdapt \/ BeginShutdown \/ Resume
            \/ IdlePollWrite
  BY <1>2, <1>3 DEF BeginSetup, BeginStart, BeginStop, BeginAdapt, BeginShutdown, Resume,
     IdlePollWrite
<1>4. CASE EndOfSection
  BY <1>2, <1>4 DEF EndOfSection, EndSave, EndSetup, EndStart, EndStop, CanAdapt, CannotAdapt,
     Decay, EndAdapt, EndShutdown
<1>5. ASSUME NEW d \in CPUs, HandlerOnCpu(d) PROVE UNCHANGED << nmi, pend >>
  BY <1>5 DEF HandlerOnCpu, SaveRegisters, SetupCpu, ShutdownCpu, StartMark, StartCpu, StopCpu,
     StopMark, StopCounter
<1>6. ASSUME NEW d \in CPUs, NEW k \in Counters, Count(d, k)
      PROVE  nmi' = nmi /\ pend \subseteq pend'
  BY <1>6 DEF Count
<1>7. ASSUME NEW k \in Counters, Configure(k) PROVE UNCHANGED << nmi, pend >>
  BY <1>7 DEF Configure
<1>8. CASE UNCHANGED vars
  BY <1>8 DEF vars
<1> QED
  BY <1>1, <1>2, <1>3, <1>4, <1>5, <1>6, <1>7, <1>8 DEF Next

(* The steps in which a handler logs its samples.                          *)
LEMMA HandlesWhen ==
  ASSUME Types, Mid, [Next]_vars, NEW c \in CPUs, Handles(c)
  PROVE  NmiCheck(c) \/ (is_setup /\ PmcInterrupt(c))
<1>1. CASE \A d \in CPUs : ~Interrupt(d)
  BY <1>1, NmiChanges DEF Handles
<1>2. ASSUME NEW d \in CPUs, Interrupt(d) PROVE NmiCheck(c) \/ (is_setup /\ PmcInterrupt(c))
  <2>1. nmi \in [CPUs -> {"none", "check", "stop"}] /\ X86 \cap PowerPC = {}
    BY DEF Types, TypeOK, X86, PowerPC
  <2>2. CASE d = c
    BY <1>2, <2>1, <2>2
    DEF Interrupt, NmiUnclaimed, NmiEnter, NmiCheck, NmiStop, PmcInterrupt, Take, Mid, Handles,
        cpuVars, midVars
  <2>3. CASE d # c
    BY <1>2, <2>1, <2>3
    DEF Interrupt, NmiUnclaimed, NmiEnter, NmiCheck, NmiStop, PmcInterrupt, Take, Handles,
        cpuVars, midVars
  <2> QED
    BY <2>2, <2>3
<1> QED
  BY <1>1, <1>2

-----------------------------------------------------------------------------
(* Until a resume starts counters that were not started: counters are on   *)
(* only in a session, or while it starts or stops; a CPU that writes a     *)
(* mark to its ring has none on; the loop over the CPUs turns all of them  *)
(* off and puts the idle loop back.                                        *)
Rest ==
  /\ running \/ on # {} => started \/ section = "start"
  /\ section = "start" => on \cap todo = {}
  /\ section = "stop" => on \subseteq todo
  /\ section \in {"decay", "adapt"} => on = {} /\ adapting
  /\ section \in {"save", "shutdown"} => ~started
  /\ at \cap on = {}
  /\ adapting => started /\ ~asleep /\ section \in {"stop", "decay", "adapt", "start"}
  /\ asleep => section \in {"none", "start", "stop"}
  /\ asleep /\ section = "none" => on = {}
  /\ asleep /\ section = "start" => started
  /\ started \/ section = "start" => is_setup
  /\ pm_idle = "poll" => started
  /\ section = "stop" /\ todo = {} => pm_idle = "saved"

RestUnlessResumed == Happened({"resumed"}) \/ Rest

LEMMA RestInitially == Init => Rest
BY DEF Init, Rest

LEMMA RestKept == ASSUME Types, RestUnlessResumed, [Next]_vars PROVE RestUnlessResumed'
<1> SUFFICES ASSUME Rest, ~Happened({"resumed"})' PROVE Rest'
  BY HistoryGrows DEF RestUnlessResumed, Happened
<1> USE DEF machine, configVars, controlVars, stateVars, idleVars, cpuVars, midVars, Enter, Leave, Done
<1>0. Boot \in CPUs /\ at \subseteq todo /\ on \subseteq CPUs /\ todo \subseteq CPUs
  BY SessionAssumption DEF Types, TypeOK
<1>1. CASE BeginSetup
  BY <1>1 DEF BeginSetup, Rest
<1>2. ASSUME NEW c \in CPUs, SaveRegisters(c) PROVE Rest'
  BY <1>2 DEF SaveRegisters, Rest
<1>3. CASE EndSave
  BY <1>3 DEF EndSave, Rest
<1>4. ASSUME NEW c \in CPUs, SetupCpu(c) PROVE Rest'
  BY <1>4 DEF SetupCpu, Rest
<1>5. CASE EndSetup
  BY <1>5 DEF EndSetup, Rest
<1>6. CASE BeginStart
  BY <1>6 DEF BeginStart, EnterStart, Rest
<1>7. ASSUME NEW c \in CPUs, StartMark(c) PROVE Rest'
  BY <1>7 DEF StartMark, Rest
<1>8. ASSUME NEW c \in CPUs, StartCpu(c) PROVE Rest'
  BY <1>8 DEF StartCpu, Rest
<1>9. CASE EndStart
  BY <1>9 DEF EndStart, Rest, enable_poll_idle
<1>10. CASE BeginStop
  BY <1>0, <1>10 DEF BeginStop, Rest
<1>11. ASSUME NEW c \in CPUs, StopCpu(c) PROVE Rest'
  BY <1>11 DEF StopCpu, Rest
<1>12. ASSUME NEW c \in CPUs, StopMark(c) PROVE Rest'
  BY <1>12 DEF StopMark, disable_poll_idle, Rest
<1>13. CASE EndStop
  BY <1>0, <1>13 DEF EndStop, Rest
<1>14. CASE BeginAdapt
  BY <1>0, <1>14 DEF BeginAdapt, Rest
<1>15. CASE CanAdapt
  BY <1>0, <1>15 DEF CanAdapt, Rest
<1>16. CASE Decay
  BY <1>16 DEF Decay, Rest
<1>17. CASE CannotAdapt
  BY <1>0, <1>17 DEF CannotAdapt, EnterStart, Rest
<1>18. CASE EndAdapt
  BY <1>18 DEF EndAdapt, EnterStart, Rest
<1>19. CASE BeginShutdown
  BY <1>19 DEF BeginShutdown, disable_poll_idle, Rest
<1>20. ASSUME NEW c \in CPUs, ShutdownCpu(c) PROVE Rest'
  BY <1>20 DEF ShutdownCpu, Rest
<1>21. CASE EndShutdown
  BY <1>21 DEF EndShutdown, Rest
<1>22. CASE Suspend
  BY <1>0, <1>22 DEF Suspend, Rest, Types
<1>23. CASE Resume
  <2>1. started
    BY <1>23 DEF Resume, Note, Happened
  <2> QED
    BY <1>23, <2>1 DEF Resume, EnterStart, Rest
<1>24. CASE IdlePollWrite
  BY <1>24 DEF IdlePollWrite, Rest
<1>25. ASSUME NEW c \in CPUs, NEW k \in Counters, Count(c, k) PROVE Rest'
  BY <1>25 DEF Count, Rest
<1>26. ASSUME NEW c \in CPUs, Interrupt(c) PROVE Rest'
  <2>1. UNCHANGED << controlVars, stateVars, idleVars, on >>
    BY <1>26 DEF Interrupt, NmiUnclaimed, NmiEnter, NmiCheck, NmiStop, PmcInterrupt, Take
  <2> QED
    BY <2>1 DEF Rest
<1>27. ASSUME NEW k \in Counters, Configure(k) PROVE Rest'
  BY <1>27 DEF Configure, Rest
<1>28. CASE UNCHANGED vars
  BY <1>28 DEF vars, Rest
<1>29. ASSUME NEW c \in CPUs, NEW k \in Counters, StopCounter(c, k) PROVE Rest'
  BY <1>29 DEF StopCounter, Rest
<1> QED
  BY <1>1, <1>2, <1>3, <1>4, <1>5, <1>6, <1>7, <1>8, <1>9, <1>10, <1>11, <1>12, <1>13, <1>14,
     <1>15, <1>16, <1>17, <1>18, <1>19, <1>20, <1>21, <1>22, <1>23, <1>24, <1>25, <1>26, <1>27,
     <1>28, <1>29 DEF Next, EndOfSection, HandlerOnCpu

LEMMA RestInvariant == Spec => []RestUnlessResumed
<1>1. Init => RestUnlessResumed
  BY RestInitially DEF RestUnlessResumed
<1> QED
  BY <1>1, RestKept, TypesInvariant, PTL DEF Spec

(* The kernel's own idle loop is back when nothing is profiled.            *)
THEOREM IdleLoopReturns == Spec => []IdleRestored
<1>1. Types /\ RestUnlessResumed => IdleRestored
  BY DEF Types, TypeOK, RestUnlessResumed, Rest, IdleRestored
<1> QED
  BY RestInvariant, TypesInvariant, <1>1, PTL

-----------------------------------------------------------------------------
(* Until an interrupt is late only counters that are on count, and the     *)
(* loop of stop() leaves those it has passed disabled until an NMI comes.  *)
OffCountNothing ==
  /\ \A c \in CPUs : Counting(hw[c]) # {} => c \in on
  /\ \A c \in CPUs : hw[c].gate \cap passed[c] = {}
  /\ \A c \in CPUs : Counting(saved[c]) = {}

OffUnlessLate == Happened({"late", "resumed", "restarted"}) \/ OffCountNothing

LEMMA GateShut == ASSUME NEW h, h.gate = {} PROVE Counting(h) = {}
BY DEF Counting

(* A step that changes the registers of one CPU.                           *)
LEMMA OffOneCpu ==
  ASSUME OffCountNothing, NEW c \in CPUs, saved' = saved,
         \A d \in CPUs \ {c} : /\ hw'[d] = hw[d] /\ passed'[d] = passed[d]
                               /\ d \in on => d \in on',
         Counting(hw'[c]) # {} => c \in on', hw'[c].gate \cap passed'[c] = {}
  PROVE  OffCountNothing'
BY DEF OffCountNothing

LEMMA OffKept ==
  ASSUME Types, Mid, RestUnlessResumed, OffUnlessLate, [Next]_vars PROVE OffUnlessLate'
<1> SUFFICES ASSUME Rest, OffCountNothing, ~Happened({"late", "resumed", "restarted"})'
             PROVE  OffCountNothing'
  BY HistoryGrows DEF OffUnlessLate, RestUnlessResumed, Happened
<1> USE DEF controlVars, stateVars, idleVars, cpuVars, midVars
<1>0. /\ \A c \in CPUs : hw[c] \in Hardware /\ saved[c] \in Hardware
      /\ model \in X86 \cup PowerPC /\ hw \in [CPUs -> Hardware]
      /\ passed \in [CPUs -> SUBSET Counters]
  BY DEF Types, TypeOK
<1>1. CASE UNCHANGED << hw, saved, on, passed >>
  BY <1>1 DEF OffCountNothing
<1>2. ASSUME NEW c \in CPUs, SaveRegisters(c) PROVE OffCountNothing'
  <2>1. /\ saved' = [saved EXCEPT ![c] = hw[c]] /\ UNCHANGED << hw, on, passed >>
        /\ section = "save"
    BY <1>2 DEF SaveRegisters
  <2>2. c \notin on
    BY <2>1 DEF Rest
  <2>3. Counting(hw[c]) = {}
    BY <2>2 DEF OffCountNothing
  <2> QED
    BY <2>1, <2>3 DEF OffCountNothing, Types, TypeOK
<1>3. ASSUME NEW c \in CPUs, SetupCpu(c) PROVE OffCountNothing'
  <2>1. \A d \in CPUs \ {c} : hw'[d] = hw[d]
    BY <1>3 DEF SetupCpu, Types, TypeOK
  <2>2. Counting(hw'[c]) = {} \/ Counting(hw'[c]) = Counting(hw[c])
    <3>1. CASE model \in X86
      <4> DEFINE done == setup_ctrs(model, config, c \in pmc, Bound(c), reset_value, hw[c])
      <4>1. done.hw \in Hardware /\ (done.hw.gate = {} \/ done.hw = hw[c])
        <5>1. config \in Configs /\ reset_value \in Resets
          BY DEF Types, TypeOK, Configs, Resets
        <5>2. /\ done.hw \in Hardware
              /\ IF model = "p4" => c \in pmc THEN done.hw.gate = {} ELSE done.hw = hw[c]
          BY <1>0, <3>1, <5>1, SetupCtrsKeeps
        <5> QED
          BY <5>2
      <4>2. hw' = [hw EXCEPT ![c] =
                     [done.hw EXCEPT !.lvtpc = IF section = "setup" THEN "nmi" ELSE @]]
        BY <1>3, <3>1 DEF SetupCpu
      <4> HIDE DEF done
      <4>3. /\ hw'[c].gate = done.hw.gate /\ hw'[c].prog = done.hw.prog
            /\ hw'[c].over = done.hw.over
        BY <1>0, <4>1, <4>2 DEF Hardware
      <4> QED
        BY <4>1, <4>3 DEF Counting
    <3>2. CASE model \notin X86
      <4>1. cpu_setup(model, config, hw[c]).gate = {}
        BY <1>0, <3>2, CpuSetupKeeps DEF Types, TypeOK, Configs
      <4> QED
        BY <1>0, <1>3, <3>2, <4>1, GateShut DEF SetupCpu
    <3> QED
      BY <3>1, <3>2
  <2>3. UNCHANGED << saved, on, passed >> /\ passed[c] = {}
    BY <1>3 DEF SetupCpu, Mid
  <2> QED
    BY <2>1, <2>2, <2>3, OffOneCpu DEF OffCountNothing
<1>4. ASSUME NEW c \in CPUs, StartCpu(c) PROVE OffCountNothing'
  <2>1. /\ c \in on' /\ on \subseteq on' /\ UNCHANGED << saved, passed >>
        /\ \A d \in CPUs \ {c} : hw'[d] = hw[d]
    BY <1>4 DEF StartCpu, Types, TypeOK
  <2>2. passed[c] = {}
    BY <1>4 DEF StartCpu, Mid
  <2> QED
    BY <2>1, <2>2, OffOneCpu
<1>5. ASSUME NEW c \in CPUs, StopCpu(c) PROVE OffCountNothing'
  <2>1. StopLast(model, passed[c], hw[c]).gate \subseteq hw[c].gate \cap passed[c]
    BY <1>0, StopLoopKeeps
  <2>2. StopLast(model, passed[c], hw[c]).gate = {}
    BY <2>1 DEF OffCountNothing
  <2>3. /\ hw'[c].gate = {} /\ \A d \in CPUs \ {c} : hw'[d] = hw[d] /\ passed'[d] = passed[d]
        /\ on' = on \ {c} /\ saved' = saved
    BY <1>0, <1>5, <2>2 DEF StopCpu
  <2> QED
    BY <2>3, GateShut, OffOneCpu
<1>15. ASSUME NEW c \in CPUs, NEW k \in Counters, StopCounter(c, k) PROVE OffCountNothing'
  <2>0. hw[c] \in Hardware
    BY <1>0
  <2>1. StopOne(k, hw[c]).gate = hw[c].gate \ {k}
    BY <2>0 DEF StopOne, Gate, Hardware
  <2>2. /\ StopOne(k, hw[c]).prog = hw[c].prog /\ StopOne(k, hw[c]).over = hw[c].over
    BY <2>0 DEF StopOne, Gate, Hardware
  <2>3. /\ hw'[c] = StopOne(k, hw[c]) /\ passed'[c] = passed[c] \cup {k}
        /\ \A d \in CPUs \ {c} : hw'[d] = hw[d] /\ passed'[d] = passed[d]
        /\ UNCHANGED << on, saved >>
    BY <1>0, <1>15 DEF StopCounter
  <2>4. Counting(hw'[c]) \subseteq Counting(hw[c])
    BY <2>1, <2>2, <2>3 DEF Counting
  <2>5. hw'[c].gate \cap passed'[c] = {}
    BY <2>1, <2>3 DEF OffCountNothing
  <2> QED
    BY <2>3, <2>4, <2>5, OffOneCpu DEF OffCountNothing
<1>6. ASSUME NEW c \in CPUs, ShutdownCpu(c) PROVE OffCountNothing'
  <2>1. /\ hw'[c] = saved[c] /\ \A d \in CPUs \ {c} : hw'[d] = hw[d]
        /\ on' = on \ {c} /\ UNCHANGED << saved, passed >>
    BY <1>6 DEF ShutdownCpu, Types, TypeOK
  <2>2. passed[c] = {}
    BY <1>6 DEF ShutdownCpu, Mid
  <2> QED
    BY <2>1, <2>2, OffOneCpu DEF OffCountNothing
<1>7. CASE Suspend
  <2>1. /\ \A d \in CPUs : hw'[d] = IF d = Boot THEN hw[d] ELSE PowerOn
        /\ on' = on \cap {Boot} /\ UNCHANGED << saved, passed >>
    BY <1>7 DEF Suspend
  <2>2. \A d \in CPUs : passed[d] = {}
    BY <1>7 DEF Suspend, Mid
  <2> QED
    BY <2>1, <2>2, PowerOnTyped DEF OffCountNothing
<1>8. ASSUME NEW c \in CPUs, NEW k \in Counters, Count(c, k) PROVE OffCountNothing'
  <2> DEFINE after == [hw[c] EXCEPT
           !.over  = @ \cup {k},
           !.gate  = IF model \in PowerPC THEN {} ELSE @,
           !.lvtpc = IF Sends(c) /\ model \in {"ppro", "p4"} THEN "masked" ELSE @]
  <2>1. hw'[c] = after /\ \A d \in CPUs \ {c} : hw'[d] = hw[d]
    BY <1>8 DEF Count, Types, TypeOK
  <2>2. /\ after.over = hw[c].over \cup {k} /\ after.prog = hw[c].prog
        /\ after.gate \in {{}, hw[c].gate}
    BY <1>0 DEF Hardware
  <2> HIDE DEF after
  <2>3. Counting(after) \subseteq Counting(hw[c]) /\ after.gate \subseteq hw[c].gate
    BY <2>2 DEF Counting
  <2>4. UNCHANGED << saved, on, passed >>
    BY <1>8 DEF Count
  <2> QED
    BY <2>1, <2>3, <2>4, OffOneCpu DEF OffCountNothing
<1>9. ASSUME NEW c \in CPUs, Interrupt(c) PROVE OffCountNothing'
  <2>1. /\ UNCHANGED << saved, on, passed >> /\ \A d \in CPUs \ {c} : hw'[d] = hw[d]
    BY <1>0, <1>9 DEF Interrupt, NmiUnclaimed, NmiEnter, NmiCheck, NmiStop, PmcInterrupt, Take,
       Handled
  <2>2. CASE hw'[c] = hw[c] \/ (c \in on /\ passed[c] = {})
    BY <2>1, <2>2, OffOneCpu DEF OffCountNothing
  <2>3. CASE NmiUnclaimed(c) \/ NmiEnter(c)
    BY <2>2, <2>3 DEF NmiUnclaimed, NmiEnter
  <2>4. CASE NmiCheck(c)
    BY <2>2, <2>4 DEF NmiCheck, Handled, Happened
  <2>5. CASE PmcInterrupt(c)
    BY <2>2, <2>5 DEF PmcInterrupt, Handled, Happened
  <2>6. CASE NmiStop(c)
    <3>1. hw'[c] = hw[c] \/ hw'[c] = StopCtrs(model, hw[c])
      BY <1>0, <2>6 DEF NmiStop
    <3>2. StopCtrs(model, hw[c]).gate = {}
      BY <1>0, StopKeeps
    <3> QED
      BY <2>1, <2>2, <3>1, <3>2, GateShut, OffOneCpu
  <2> QED
    BY <1>9, <2>3, <2>4, <2>5, <2>6 DEF Interrupt
<1>10. CASE \/ BeginSetup \/ BeginStart \/ BeginStop \/ BeginAdapt \/ BeginShutdown
            \/ Resume \/ IdlePollWrite
  BY <1>1, <1>10 DEF BeginSetup, BeginStart, BeginStop, BeginAdapt, BeginShutdown, Resume,
      IdlePollWrite
<1>11. CASE EndOfSection
  BY <1>1, <1>11 DEF EndOfSection, EndSave, EndSetup, EndStart, EndStop, CanAdapt, CannotAdapt,
      Decay, EndAdapt, EndShutdown
<1>12. ASSUME NEW c \in CPUs, StartMark(c) \/ StopMark(c) PROVE OffCountNothing'
  BY <1>1, <1>12 DEF StartMark, StopMark
<1>13. ASSUME NEW k \in Counters, Configure(k) PROVE OffCountNothing'
  BY <1>1, <1>13 DEF Configure
<1>14. CASE UNCHANGED vars
  BY <1>1, <1>14 DEF vars
<1> QED
  BY <1>2, <1>3, <1>4, <1>5, <1>6, <1>7, <1>8, <1>9, <1>10, <1>11, <1>12, <1>13, <1>14, <1>15
  DEF Next, HandlerOnCpu

LEMMA OffInvariant == Spec => []OffUnlessLate
<1>1. Init => OffUnlessLate
  BY PowerOnTyped DEF Init, OffUnlessLate, OffCountNothing
<1> QED
  BY <1>1, OffKept, TypesInvariant, MidInvariant, RestInvariant, PTL DEF Spec

(* "Stop delivering interrupts" (oprofile.h): between sessions no counter  *)
(* of any CPU counts.                                                      *)
THEOREM CountersAreOff == Spec => []CountersOffBetweenSessions
<1>1. RestUnlessResumed /\ OffUnlessLate => CountersOffBetweenSessions
  BY DEF RestUnlessResumed, Rest, OffUnlessLate, OffCountNothing, CountersOffBetweenSessions,
         CountersOff, Stopped, Happened
<1> QED
  BY RestInvariant, OffInvariant, <1>1, PTL

-----------------------------------------------------------------------------
(* An interrupt that finds its CPU off is late.                            *)
LEMMA HandlerIsLate ==
  ASSUME Mid, NEW c \in CPUs, NmiCheck(c) \/ (is_setup /\ PmcInterrupt(c)), c \notin on
  PROVE  "late" \in history'
BY DEF Mid, NmiCheck, PmcInterrupt, Handled

(* While a CPU writes a mark its counters are off.                         *)
LEMMA WriterIsLate ==
  ASSUME Types, Mid, RestUnlessResumed, [Next]_vars, NEW c \in at, Handles(c), LoggedOn(c) # {}
  PROVE  Happened({"late", "resumed"})
<1>1. c \in CPUs
  BY DEF Types, TypeOK
<1>2. NmiCheck(c) \/ (is_setup /\ PmcInterrupt(c))
  BY <1>1, HandlesWhen
<1>3. ~PmcInterrupt(c)
  BY DEF PmcInterrupt
<1>4. nmi[c] # "none" /\ model \in X86
  BY <1>1, <1>2, <1>3 DEF NmiCheck, Mid
<1> QED
  BY <1>1, <1>4 DEF Mid, RestUnlessResumed, Rest, Happened

(* oprofile_add_start() and oprofile_add_stop() never write to a ring      *)
(* while an interrupt logs a sample there, unless it is late.              *)
THEOREM RingHasOneWriter == Spec => OneWriter
<1>1. Types /\ Mid /\ RestUnlessResumed /\ [Next]_vars
        => [\A c \in at : Handles(c) /\ LoggedOn(c) # {} => Happened({"late", "resumed"})]_vars
  BY WriterIsLate
<1> QED
  BY <1>1, TypesInvariant, MidInvariant, RestInvariant, PTL DEF Spec, OneWriter

(* Between sessions ctr_running is clear, and the handlers that ask what   *)
(* the session is doing find nothing to log.                               *)
LEMMA NoneEntersStopped ==
  ASSUME Types, Mid, RestUnlessResumed, [Next]_vars, Stopped, ~Happened({"resumed"}),
         NEW c \in CPUs
  PROVE  /\ nmi[c] = "none" => nmi'[c] # "check"
         /\ Handles(c) /\ LoggedOn(c) # {} => c \notin on /\ model \in X86 \cup {"rs64"}
<1>1. running = FALSE /\ on = {}
  BY DEF RestUnlessResumed, Rest, Stopped, Types, TypeOK
<1>2. ASSUME nmi[c] = "none" PROVE nmi'[c] # "check"
  <2>1. ASSUME NEW d \in CPUs, Interrupt(d) PROVE nmi'[c] # "check"
    BY <1>1, <1>2, <2>1 DEF Interrupt, NmiUnclaimed, NmiEnter, NmiCheck, NmiStop, PmcInterrupt,
       Types, TypeOK
  <2>2. (\A d \in CPUs : ~Interrupt(d)) => nmi' = nmi
    BY NmiChanges
  <2> QED
    BY <1>2, <2>1, <2>2
<1>3. ASSUME Handles(c), LoggedOn(c) # {} PROVE c \notin on /\ model \in X86 \cup {"rs64"}
  <2>1. model # "power4" /\ model # "7450"
    BY <1>1, <1>3 DEF LoggedOn, Logged, Power4Logged, Fsl7450Logged
  <2> QED
    BY <1>1, <2>1 DEF Types, TypeOK, PowerPC
<1> QED
  BY <1>2, <1>3

(* Once ops.stop() has returned no NMI finds the session running, and no   *)
(* sample is logged on any powerpc model but rs64.                         *)
THEOREM NothingAfterStop == Spec => NoSampleAfterStop
<1>1. Types /\ Mid /\ RestUnlessResumed /\ [Next]_vars
        => [Stopped /\ ~Happened({"resumed"})
              => \A c \in CPUs :
                   /\ nmi[c] = "none" => nmi'[c] # "check"
                   /\ Handles(c) /\ LoggedOn(c) # {}
                        => c \notin on /\ model \in X86 \cup {"rs64"}]_vars
  BY NoneEntersStopped
<1> QED
  BY <1>1, TypesInvariant, MidInvariant, RestInvariant, PTL DEF Spec, NoSampleAfterStop

-----------------------------------------------------------------------------
Fits == CountsFit /\ (~Happened({"raced"}) /\ section = "decay" => Adaptable(config))

LEMMA ProductFits ==
  ASSUME NEW n \in Nat, n < (Top - 1) \div Factor PROVE n * Factor < Top
<1>1. Factor \in Nat /\ Factor > 0 /\ Top \in Nat /\ Top > 0
  BY SessionAssumption, CountersAssumption
<1> DEFINE q == (Top - 1) \div Factor
<1>2. q \in Nat /\ q * Factor <= Top - 1
  BY <1>1
<1> HIDE DEF q
<1>3. n < q
  BY DEF q
<1>4. n * Factor <= q * Factor
  BY <1>1, <1>2, <1>3
<1> QED
  BY <1>1, <1>2, <1>4

LEMMA FitsKept == ASSUME Types, Fits, [Next]_vars PROVE Fits'
<1> USE DEF controlVars, stateVars, idleVars, cpuVars, Happened, Enter, Leave
<1>0. CASE config' = config /\ (section' = section \/ section' # "decay")
  BY <1>0, HistoryGrows DEF Fits, CountsFit, Enabled, Adaptable
<1>1. CASE Decay
  <2>1. ASSUME "raced" \notin history', NEW k \in Counters, config'[k].enabled
        PROVE  config'[k].count < Top
    <3>1. /\ config[k] \in [enabled : BOOLEAN, count : Nat, bound : SUBSET CPUs] /\ "raced" \notin history
          /\ config'[k] = IF config[k].enabled THEN [config[k] EXCEPT !.count = @ * Factor] ELSE config[k]
      BY <1>1, <2>1, HistoryGrows DEF Decay, Types, TypeOK
    <3>2. config[k].enabled /\ config'[k].count = config[k].count * Factor
      BY <2>1, <3>1
    <3>3. config[k].count < (Top - 1) \div Factor
      BY <1>1, <3>1, <3>2 DEF Decay, Fits, Adaptable, Enabled
    <3>4. config[k].count \in Nat
      BY <3>1
    <3> QED
      BY <3>2, <3>3, <3>4, ProductFits
  <2>2. section' = "adapt"
    BY <1>1 DEF Decay
  <2> QED
    BY <2>1, <2>2 DEF Fits, CountsFit, Enabled
<1>2. CASE CanAdapt
  BY <1>2, HistoryGrows DEF CanAdapt, configVars, Fits, CountsFit, Enabled, Adaptable
<1>3. ASSUME NEW k \in Counters, Configure(k) PROVE Fits'
  <2>1. PICK new \in Settings : config' = [config EXCEPT ![k] = new]
    BY <1>3 DEF Configure
  <2>2. new.count \in 0 .. Top - 1 /\ Top \in Nat
    BY SessionAssumption, CountersAssumption DEF Settings
  <2>3. \A j \in Counters : config'[j] = IF j = k THEN new ELSE config[j]
    BY <2>1 DEF Types, TypeOK
  <2>4. section' = section /\ (section = "decay" => "raced" \in history') /\ history \subseteq history'
    BY <1>3 DEF Configure
  <2> QED
    BY <2>2, <2>3, <2>4 DEF Fits, CountsFit, Enabled
<1>4. CASE BeginSetup \/ BeginStart \/ BeginStop \/ BeginAdapt \/ BeginShutdown
  BY <1>0, <1>4 DEF BeginSetup, BeginStart, BeginStop, BeginAdapt, BeginShutdown, EnterStart,
      configVars
<1>5. CASE Suspend \/ Resume \/ IdlePollWrite
  BY <1>0, <1>5 DEF Suspend, Resume, IdlePollWrite, EnterStart, configVars
<1>6. CASE \/ EndSave \/ EndSetup \/ EndStart \/ EndStop \/ CannotAdapt \/ EndAdapt
           \/ EndShutdown
  BY <1>0, <1>6 DEF EndSave, EndSetup, EndStart, EndStop, CannotAdapt, EndAdapt, EndShutdown,
      EnterStart, configVars
<1>7. ASSUME NEW c \in CPUs, HandlerOnCpu(c) PROVE Fits'
  BY <1>0, <1>7 DEF HandlerOnCpu, SaveRegisters, SetupCpu, ShutdownCpu, StartMark, StartCpu,
      StopCpu, StopMark, StopCounter, configVars
<1>8. ASSUME NEW c \in CPUs, Interrupt(c) PROVE Fits'
  BY <1>0, <1>8 DEF Interrupt, NmiUnclaimed, NmiEnter, NmiCheck, NmiStop, PmcInterrupt, Take, configVars
<1>9. ASSUME NEW c \in CPUs, NEW k \in Counters, Count(c, k) PROVE Fits'
  BY <1>0, <1>9 DEF Count, configVars
<1>10. CASE UNCHANGED vars
  BY <1>0, <1>10 DEF vars, configVars
<1> QED
  BY <1>1, <1>2, <1>3, <1>4, <1>5, <1>6, <1>7, <1>8, <1>9, <1>10 DEF Next, EndOfSection

(* However often nmi_adapt() multiplies it, the count of a counter stays   *)
(* below 2^31, for every factor.                                           *)
THEOREM CountsStayBelowTop == Spec => []CountsFit
<1>1. Init => Fits
  <2>1. ASSUME Init, NEW k \in Counters PROVE config[k].count < Top
    <3>1. config[k].count \in 0 .. Top - 1 /\ Top \in Nat
      BY <2>1, SessionAssumption, CountersAssumption DEF Init, Settings
    <3> QED
      BY <3>1
  <2> QED
    BY <2>1 DEF Init, Fits, CountsFit, Enabled
<1>2. Fits => CountsFit
  BY DEF Fits
<1> QED
  BY <1>1, <1>2, FitsKept, TypesInvariant, PTL DEF Spec

-----------------------------------------------------------------------------
(* What the x86 models leave of the events and of LVTPC.                   *)
SameEvents(h, g) == h.prog = g.prog /\ h.lvtpc = g.lvtpc

LEMMA X86LoadEvents ==
  ASSUME NEW h \in Hardware, NEW K \in SUBSET Counters, NEW p \in Resets
  PROVE  SameEvents(X86Load(h, K, p), h)
BY DEF X86Load, Load, Hardware, SameEvents

LEMMA GateEvents ==
  ASSUME NEW h \in Hardware, NEW K
  PROVE  /\ SameEvents(Gate(h, K), h)
         /\ Program(h, K).lvtpc = h.lvtpc
         /\ Unmask(h).prog = h.prog
         /\ Unmask(h).lvtpc = IF h.lvtpc = "masked" THEN "nmi" ELSE h.lvtpc
BY DEF Gate, Program, Unmask, Hardware, SameEvents

LEMMA SetupEvents ==
  ASSUME NEW m \in X86, NEW c \in Configs, NEW P, NEW e, NEW b, NEW r \in Resets,
         NEW h \in Hardware
  PROVE  setup_ctrs(m, c, e \in P, b, r, h).hw.lvtpc = h.lvtpc
<1> DEFINE sel    == Enabled(c)
           start  == Program(h, sel)
           some   == Program(h, sel \cap b)
           ones   == [k \in Counters |-> 1]
           unused == X86Load(start, Counters, ones)
<1>1. sel \in SUBSET Counters /\ Periods(c) \in Resets /\ ones \in Resets
  BY EnabledAreCounters, PeriodsAreNumbers DEF Resets
<1>2. start \in Hardware /\ start.lvtpc = h.lvtpc /\ some \in Hardware /\ some.lvtpc = h.lvtpc
  BY <1>1, GateKeeps, GateEvents
<1>3. unused \in Hardware /\ unused.lvtpc = h.lvtpc
  <2> HIDE DEF start, some, ones
  <2>1. unused \in Hardware
    BY <1>1, <1>2, LoadKeeps
  <2>2. SameEvents(unused, start)
    BY <1>1, <1>2, X86LoadEvents
  <2> QED
    BY <1>2, <2>1, <2>2 DEF SameEvents
<1>4. /\ X86Load(unused, sel, Periods(c)).lvtpc = h.lvtpc
      /\ X86Load(some, sel, Periods(c)).lvtpc = h.lvtpc
  BY <1>1, <1>2, <1>3, X86LoadEvents DEF SameEvents
<1> HIDE DEF start, some, unused, sel
<1>5. CASE m = "ppro"
  BY <1>4, <1>5 DEF setup_ctrs, ppro_setup_ctrs, sel, start, unused
<1>6. CASE m = "athlon"
  BY <1>4, <1>6 DEF setup_ctrs, athlon_setup_ctrs, sel, start, unused
<1>7. CASE m = "p4"
  BY <1>4, <1>7 DEF setup_ctrs, p4_setup_ctrs, sel, some
<1> QED
  BY <1>5, <1>6, <1>7 DEF X86

LEMMA StopEvents ==
  ASSUME NEW m \in X86, NEW h \in Hardware PROVE SameEvents(StopCtrs(m, h), h)
<1>1. SameEvents(Gate(h, {}), h)
  BY GateEvents
<1> QED
  BY <1>1 DEF X86, StopCtrs, ppro_stop, athlon_stop, p4_stop

LEMMA StartEvents ==
  ASSUME NEW m \in X86, NEW c, NEW r, NEW h \in Hardware
  PROVE  SameEvents(StartCtrs(m, c, r, h), h)
<1>1. ASSUME NEW K PROVE SameEvents(Gate(h, K), h)
  BY GateEvents
<1> QED
  BY <1>1 DEF X86, StartCtrs, ppro_start, athlon_start, p4_start

LEMMA StopLoopEvents ==
  ASSUME NEW m \in X86, NEW K, NEW k, NEW h \in Hardware
  PROVE  SameEvents(StopOne(k, h), h) /\ SameEvents(StopLast(m, K, h), h)
BY StopEvents, GateEvents DEF StopOne, StopLast

(* The handlers of the models whose APIC masks LVTPC unmask it.            *)
LEMMA CheckEvents ==
  ASSUME NEW m \in X86, NEW c, NEW r \in Resets, NEW run, NEW h \in Hardware
  PROVE  /\ CheckCtrs(m, c, r, run, h).prog = h.prog
         /\ CheckCtrs(m, c, r, run, h).lvtpc =
              IF h.lvtpc = "masked" /\ m # "athlon" THEN "nmi" ELSE h.lvtpc
<1>1. /\ Gate(h, {}) \in Hardware /\ SameEvents(Gate(h, {}), h)
      /\ h.over \in SUBSET Counters /\ P4Logged(r, h) \in SUBSET Counters
  BY GateKeeps, GateEvents DEF Hardware, P4Logged
<1>2. ASSUME NEW K \in SUBSET Counters
      PROVE  /\ X86Load(Gate(h, {}), K, r) \in Hardware
             /\ SameEvents(X86Load(Gate(h, {}), K, r), h)
  BY <1>1, LoadKeeps, X86LoadEvents DEF SameEvents
<1>3. ASSUME NEW g \in Hardware, NEW K PROVE SameEvents(Gate(g, K), g)
  BY GateEvents
<1>4. CASE m = "ppro"
  <2> DEFINE loaded == X86Load(Gate(h, {}), h.over, r)
  <2>1. loaded \in Hardware /\ SameEvents(loaded, h)
    BY <1>1, <1>2
  <2> HIDE DEF loaded
  <2>2. Unmask(loaded) \in Hardware /\ SameEvents(Gate(Unmask(loaded), Counters), Unmask(loaded))
    BY <2>1, <1>3, GateKeeps
  <2>3. CheckCtrs(m, c, r, run, h) = Gate(Unmask(loaded), Counters)
    BY <1>4 DEF CheckCtrs, ppro_check_ctrs, ppro_start, ppro_stop, loaded
  <2> QED
    BY <1>4, <2>1, <2>2, <2>3, GateEvents DEF SameEvents
<1>5. CASE m = "p4"
  <2> DEFINE loaded == X86Load(Gate(h, {}), P4Logged(r, h), r)
             ready  == Unmask(loaded)
  <2>1. loaded \in Hardware /\ SameEvents(loaded, h)
    BY <1>1, <1>2
  <2> HIDE DEF loaded
  <2>2. ready \in Hardware
    BY <2>1, GateKeeps
  <2>3. SameEvents(Gate(ready, ready.gate \cup {k \in Counters : r[k] # 0}), ready)
    BY <2>2, <1>3
  <2>4. CheckCtrs(m, c, r, run, h) = Gate(ready, ready.gate \cup {k \in Counters : r[k] # 0})
    BY <1>5 DEF CheckCtrs, p4_check_ctrs, p4_start, p4_stop, loaded
  <2> QED
    BY <1>5, <2>1, <2>3, <2>4, GateEvents DEF SameEvents
<1>6. CASE m = "athlon"
  <2> DEFINE loaded == X86Load(Gate(h, {}), h.over, r)
  <2>1. loaded \in Hardware /\ SameEvents(loaded, h)
    BY <1>1, <1>2
  <2> HIDE DEF loaded
  <2>2. SameEvents(Gate(loaded, loaded.gate \cup {k \in Counters : r[k] # 0}), loaded)
    BY <2>1, <1>3
  <2>3. CheckCtrs(m, c, r, run, h) = Gate(loaded, loaded.gate \cup {k \in Counters : r[k] # 0})
    BY <1>6 DEF CheckCtrs, athlon_check_ctrs, athlon_start, athlon_stop, loaded
  <2> QED
    BY <1>6, <2>1, <2>2, <2>3 DEF SameEvents
<1> QED
  BY <1>4, <1>5, <1>6 DEF X86

-----------------------------------------------------------------------------
(* An operation runs on what is set up; nmi_enabled is set between setup   *)
(* and shutdown.                                                           *)
Control ==
  /\ section # "none" \/ asleep \/ started \/ nmi_enabled => is_setup
  /\ asleep => section \in {"none", "start", "stop"}
  /\ adapting => ~asleep /\ section \in {"stop", "decay", "adapt", "start"}
  /\ section \in {"save", "setup", "shutdown"} => ~started /\ ~nmi_enabled
  /\ is_setup /\ ~nmi_enabled /\ model \in X86 => section \in {"save", "setup", "shutdown"}

(* On x86 start() sets ctr_running before, and only stop() clears it       *)
(* after, the counters of all CPUs.                                        *)
OnWhileRunning ==
  /\ section \in {"save", "setup"} => ~running
  /\ section = "stop" => on \subseteq todo \ at
  /\ section = "shutdown" => on \subseteq todo
  /\ ~is_setup \/ ~running => on = {}

ControlInv == Control /\ (model \in X86 => OnWhileRunning)

(* The machine stays the same.                                            *)
LEMMA MachineIsFixed == ASSUME [Next]_vars PROVE UNCHANGED machine
<1> USE DEF Next, EndOfSection, HandlerOnCpu, Interrupt
<1> QED
  BY DEF BeginSetup, BeginStart, BeginStop, BeginAdapt, BeginShutdown, Suspend, Resume,
     IdlePollWrite, EndSave, EndSetup, EndStart, EndStop, CanAdapt, CannotAdapt, Decay,
     EndAdapt, EndShutdown, SaveRegisters, SetupCpu, ShutdownCpu, StartMark, StartCpu,
     StopCpu, StopMark, StopCounter, NmiUnclaimed, NmiEnter, NmiCheck, NmiStop,
     PmcInterrupt, Take, Count, Configure, machine, vars

LEMMA ControlKept == ASSUME Types, ControlInv, [Next]_vars PROVE ControlInv'
<1> USE DEF machine, configVars, controlVars, stateVars, idleVars, cpuVars, midVars, Enter, Leave, Done
<1>0. on \subseteq CPUs /\ model' = model /\ (section = "none" => at = {})
  <2>1. model' = model
    BY MachineIsFixed
  <2> QED
    BY <2>1, SessionAssumption DEF Types, TypeOK
<1> USE DEF ControlInv, Control, OnWhileRunning
<1>1. CASE BeginSetup
  BY <1>0, <1>1 DEF BeginSetup
<1>2. ASSUME NEW c \in CPUs, SaveRegisters(c) PROVE ControlInv'
  BY <1>0, <1>2 DEF SaveRegisters
<1>3. CASE EndSave
  BY <1>0, <1>3 DEF EndSave
<1>4. ASSUME NEW c \in CPUs, SetupCpu(c) PROVE ControlInv'
  BY <1>0, <1>4 DEF SetupCpu
<1>5. CASE EndSetup
  BY <1>0, <1>5 DEF EndSetup
<1>6. CASE BeginStart
  BY <1>0, <1>6 DEF BeginStart, EnterStart
<1>7. ASSUME NEW c \in CPUs, StartMark(c) PROVE ControlInv'
  BY <1>0, <1>7 DEF StartMark
<1>8. ASSUME NEW c \in CPUs, StartCpu(c) PROVE ControlInv'
  BY <1>0, <1>8 DEF StartCpu
<1>9. CASE EndStart
  BY <1>0, <1>9 DEF EndStart
<1>10. CASE BeginStop
  BY <1>0, <1>10 DEF BeginStop
<1>11. ASSUME NEW c \in CPUs, StopCpu(c) PROVE ControlInv'
  BY <1>0, <1>11 DEF StopCpu
<1>12. ASSUME NEW c \in CPUs, StopMark(c) PROVE ControlInv'
  BY <1>0, <1>12 DEF StopMark
<1>13. CASE EndStop
  BY <1>0, <1>13 DEF EndStop
<1>14. CASE BeginAdapt
  BY <1>0, <1>14 DEF BeginAdapt
<1>15. CASE CanAdapt
  <2>1. /\ section = "stop" /\ todo = {} /\ section' = "decay" /\ running' = FALSE
        /\ adapting /\ UNCHANGED << machine, on, adapting, asleep, started, nmi_enabled, is_setup >>
    BY <1>15 DEF CanAdapt
  <2> QED
    BY <2>1
<1>16. CASE Decay
  BY <1>0, <1>16 DEF Decay
<1>17. CASE CannotAdapt
  BY <1>0, <1>17 DEF CannotAdapt, EnterStart
<1>18. CASE EndAdapt
  BY <1>0, <1>18 DEF EndAdapt, EnterStart
<1>19. CASE BeginShutdown
  BY <1>0, <1>19 DEF BeginShutdown
<1>20. ASSUME NEW c \in CPUs, ShutdownCpu(c) PROVE ControlInv'
  BY <1>0, <1>20 DEF ShutdownCpu
<1>21. CASE EndShutdown
  BY <1>0, <1>21 DEF EndShutdown
<1>22. CASE Suspend
  BY <1>0, <1>22 DEF Suspend
<1>23. CASE Resume
  BY <1>0, <1>23 DEF Resume, EnterStart
<1>24. CASE IdlePollWrite
  BY <1>0, <1>24 DEF IdlePollWrite
<1>25. ASSUME NEW c \in CPUs, NEW k \in Counters, Count(c, k) PROVE ControlInv'
  BY <1>0, <1>25 DEF Count
<1>26. ASSUME NEW c \in CPUs, Interrupt(c) PROVE ControlInv'
  <2>1. UNCHANGED << controlVars, stateVars, on >>
    BY <1>26 DEF Interrupt, NmiUnclaimed, NmiEnter, NmiCheck, NmiStop, PmcInterrupt, Take
  <2> QED
    BY <1>0, <2>1
<1>27. ASSUME NEW k \in Counters, Configure(k) PROVE ControlInv'
  BY <1>0, <1>27 DEF Configure
<1>28. CASE UNCHANGED vars
  BY <1>0, <1>28 DEF vars
<1>29. ASSUME NEW c \in CPUs, NEW k \in Counters, StopCounter(c, k) PROVE ControlInv'
  BY <1>0, <1>29 DEF StopCounter
<1> QED
  BY <1>1, <1>2, <1>3, <1>4, <1>5, <1>6, <1>7, <1>8, <1>9, <1>10, <1>11, <1>12, <1>13, <1>14,
     <1>15, <1>16, <1>17, <1>18, <1>19, <1>20, <1>21, <1>22, <1>23, <1>24, <1>25, <1>26, <1>27,
     <1>28, <1>29 DEF Next, EndOfSection, HandlerOnCpu

LEMMA ControlInvariant == Spec => []ControlInv
<1>1. Init => ControlInv
  BY DEF Init, ControlInv, Control, OnWhileRunning
<1> QED
  BY <1>1, ControlKept, TypesInvariant, PTL DEF Spec

-----------------------------------------------------------------------------
(* The registers of a CPU are as before the setup.                         *)
Bare(c) ==
  \/ ~is_setup
  \/ section = "save"
  \/ section = "setup" /\ c \in todo
  \/ section = "shutdown" /\ c \notin todo

SavedIsBare(c) == saved[c].prog = {} /\ saved[c].lvtpc = "boot"

BareCountsNothing(c) == Bare(c) => hw[c].prog = {} /\ hw[c].lvtpc = "boot"

SetUpCpuIsReady(c) ==
  section = "setup" /\ c \notin todo => Counting(hw[c]) = {} /\ hw[c].lvtpc # "boot"

(* A CPU that sleep has reset has no interrupt on its way.                 *)
ResetCpuIsQuiet(c) ==
  is_setup /\ section \notin {"save", "setup", "shutdown"} /\ hw[c].lvtpc = "boot"
    => c \notin pend /\ nmi[c] = "none"

(* A counter that counts without being able to interrupt was started with  *)
(* LVTPC masked, or its interrupt is on its way.                           *)
CanInterrupt(c) ==
  section # "shutdown" /\ hw[c].lvtpc # "nmi" /\ Counting(hw[c]) # {}
    => c \in pend \/ nmi[c] # "none" \/ c \in on

(* What the loop of stop() has passed counts again after an NMI, which     *)
(* unmasks LVTPC.                                                          *)
PassedCanInterrupt(c) ==
  hw[c].gate \cap passed[c] # {} => hw[c].lvtpc = "nmi" \/ c \in pend \/ nmi[c] # "none"

(* An NMI finds ctr_running set only where there is a session.             *)
CheckIsInSession(c) ==
  nmi[c] = "check" => /\ section \notin {"save", "setup"}
                      /\ Bare(c) => {"resumed", "late"} \subseteq history

SavedAndRestored(c) ==
  {"resumed", "late"} \subseteq history \/ (saved[c] = PowerOn /\ (Bare(c) => hw[c] = PowerOn))

CpuInv(c) ==
  /\ SavedIsBare(c) /\ BareCountsNothing(c) /\ SetUpCpuIsReady(c)
  /\ ResetCpuIsQuiet(c) /\ CanInterrupt(c) /\ PassedCanInterrupt(c)
  /\ CheckIsInSession(c) /\ SavedAndRestored(c)
  /\ model = "athlon" => hw[c].lvtpc # "masked"

X86Inv == model \in X86 => \A c \in CPUs : CpuInv(c)

(* A step that does nothing on a CPU.                                      *)
LEMMA OtherCpu ==
  ASSUME NEW c \in CPUs, CpuInv(c), history \subseteq history',
         UNCHANGED << machine, section, is_setup >>,
         hw'[c] = hw[c], saved'[c] = saved[c], nmi'[c] = nmi[c], passed'[c] = passed[c],
         c \in todo' <=> c \in todo, c \in pend' <=> c \in pend, c \in on' <=> c \in on
  PROVE  CpuInv(c)'
<1>1. Bare(c)' <=> Bare(c)
  BY DEF Bare
<1>2. SavedIsBare(c)' /\ BareCountsNothing(c)' /\ SetUpCpuIsReady(c)' /\ SavedAndRestored(c)'
  BY <1>1 DEF CpuInv, SavedIsBare, BareCountsNothing, SetUpCpuIsReady, SavedAndRestored
<1>3. ResetCpuIsQuiet(c)' /\ CanInterrupt(c)' /\ PassedCanInterrupt(c)' /\ CheckIsInSession(c)'
  BY <1>1 DEF CpuInv, ResetCpuIsQuiet, CanInterrupt, PassedCanInterrupt, CheckIsInSession
<1> QED
  BY <1>2, <1>3 DEF CpuInv, machine

(* Nor does one of the control thread between the loops over the CPUs.     *)
LEMMA BetweenLoops ==
  ASSUME NEW c \in CPUs, CpuInv(c), history \subseteq history',
         UNCHANGED << machine, cpuVars >>, Bare(c)' => Bare(c),
         section' \notin {"save", "setup"}, is_setup, section \notin {"save", "shutdown"},
         section = "setup" => todo = {}
  PROVE  CpuInv(c)'
<1> USE DEF cpuVars, midVars
<1>1. SavedIsBare(c)' /\ BareCountsNothing(c)' /\ SetUpCpuIsReady(c)' /\ SavedAndRestored(c)'
  BY DEF CpuInv, SavedIsBare, BareCountsNothing, SetUpCpuIsReady, SavedAndRestored
<1>2. ResetCpuIsQuiet(c)' /\ CanInterrupt(c)' /\ PassedCanInterrupt(c)' /\ CheckIsInSession(c)'
  BY DEF CpuInv, SetUpCpuIsReady, ResetCpuIsQuiet, CanInterrupt, PassedCanInterrupt,
         CheckIsInSession
<1> QED
  BY <1>1, <1>2 DEF CpuInv, machine

(* An NMI that comes to a CPU whose registers are bare and finds           *)
(* ctr_running set comes late, in a shutdown after a resume.               *)
LEMMA BareIsShutDown ==
  ASSUME RestUnlessResumed, ControlInv, model \in X86, is_setup, running, NEW c \in CPUs, Bare(c)
  PROVE  "resumed" \in history /\ c \notin on
<1>1. section = "shutdown" /\ c \notin todo /\ ~started
  BY DEF Bare, ControlInv, Control, OnWhileRunning
<1> QED
  BY <1>1 DEF ControlInv, OnWhileRunning, RestUnlessResumed, Rest, Happened

LEMMA InterruptKeepsCpu ==
  ASSUME Types, Mid, RestUnlessResumed, ControlInv, model \in X86,
         NEW c \in CPUs, CpuInv(c), Interrupt(c)
  PROVE  CpuInv(c)'
<1>0. hw[c] \in Hardware /\ reset_value \in Resets
  BY DEF Types, TypeOK, Resets
<1>1. /\ UNCHANGED << machine, controlVars, stateVars, saved, on, passed >>
      /\ history \subseteq history'
  BY DEF Interrupt, NmiUnclaimed, NmiEnter, NmiCheck, NmiStop, PmcInterrupt, Take, Handled, Note,
         cpuVars, midVars
<1> USE DEF machine, controlVars, stateVars
<1>2. CASE NmiUnclaimed(c)
  <2>1. /\ UNCHANGED << hw, nmi >> /\ pend' = pend \ {c} /\ ~is_setup /\ Bare(c) /\ Bare(c)'
    BY <1>1, <1>2 DEF NmiUnclaimed, Take, Bare
  <2>2. Counting(hw[c]) = {}
    BY <2>1 DEF CpuInv, BareCountsNothing, Counting
  <2>3. SavedIsBare(c)' /\ BareCountsNothing(c)' /\ SetUpCpuIsReady(c)' /\ SavedAndRestored(c)'
    BY <1>1, <2>1 DEF CpuInv, SavedIsBare, BareCountsNothing, SetUpCpuIsReady, SavedAndRestored
  <2>4. passed[c] = {} /\ nmi[c] = "none"
    BY <2>1 DEF Mid, ControlInv, Control
  <2>5. ResetCpuIsQuiet(c)' /\ CanInterrupt(c)' /\ PassedCanInterrupt(c)' /\ CheckIsInSession(c)'
    BY <1>1, <2>1, <2>2, <2>4 DEF ResetCpuIsQuiet, CanInterrupt, PassedCanInterrupt,
       CheckIsInSession
  <2> QED
    BY <1>1, <2>1, <2>3, <2>5 DEF CpuInv
<1>3. CASE NmiEnter(c)
  <2>1. /\ hw' = hw /\ pend' = pend \ {c} /\ is_setup /\ c \in pend /\ nmi'[c] # "none"
        /\ nmi'[c] = "check" => running
        /\ c \notin on => "late" \in history'
        /\ Bare(c)' <=> Bare(c)
    BY <1>1, <1>3 DEF NmiEnter, Take, Note, Bare, Types, TypeOK
  <2>2. SavedIsBare(c)' /\ BareCountsNothing(c)' /\ SetUpCpuIsReady(c)' /\ SavedAndRestored(c)'
    BY <1>1, <2>1 DEF CpuInv, SavedIsBare, BareCountsNothing, SetUpCpuIsReady, SavedAndRestored
  <2>3. ResetCpuIsQuiet(c)' /\ CanInterrupt(c)' /\ PassedCanInterrupt(c)'
    BY <1>1, <2>1 DEF CpuInv, ResetCpuIsQuiet, CanInterrupt, PassedCanInterrupt
  <2>4. CheckIsInSession(c)'
    BY <1>1, <2>1, BareIsShutDown DEF CheckIsInSession, ControlInv, OnWhileRunning
  <2> QED
    BY <1>1, <2>1, <2>2, <2>3, <2>4 DEF CpuInv
<1>4. CASE NmiCheck(c)
  <2>1. /\ hw'[c] = CheckCtrs(model, config, reset_value, running, hw[c])
        /\ nmi[c] = "check" /\ nmi'[c] = "none" /\ UNCHANGED << pend, on >>
    BY <1>4 DEF NmiCheck, Handled, Types, TypeOK
  <2>2. /\ hw'[c].prog = hw[c].prog
        /\ hw'[c].lvtpc = IF hw[c].lvtpc = "masked" /\ model # "athlon" THEN "nmi" ELSE hw[c].lvtpc
    <3>1. /\ CheckCtrs(model, config, reset_value, running, hw[c]).prog = hw[c].prog
          /\ CheckCtrs(model, config, reset_value, running, hw[c]).lvtpc =
               IF hw[c].lvtpc = "masked" /\ model # "athlon" THEN "nmi" ELSE hw[c].lvtpc
      BY <1>0, CheckEvents
    <3> QED
      BY <2>1, <3>1
  <2>3. /\ section \notin {"save", "setup"} /\ (Bare(c) => {"resumed", "late"} \subseteq history)
        /\ Bare(c)' <=> Bare(c)
    BY <1>1, <2>1 DEF CpuInv, CheckIsInSession, Bare
  <2>4. SavedIsBare(c)' /\ BareCountsNothing(c)' /\ SetUpCpuIsReady(c)'
    BY <1>1, <2>2, <2>3 DEF CpuInv, SavedIsBare, BareCountsNothing, SetUpCpuIsReady
  <2>5. SavedAndRestored(c)' /\ CheckIsInSession(c)'
    BY <1>1, <2>1, <2>3 DEF CpuInv, SavedAndRestored, CheckIsInSession
  <2>6. is_setup /\ (section = "shutdown" => passed[c] = {})
    BY <2>1 DEF Mid
  <2>7. section # "shutdown" => hw'[c].lvtpc = "nmi"
    BY <1>0, <2>1, <2>2, <2>3, <2>6 DEF CpuInv, ResetCpuIsQuiet, Hardware
  <2>8. ResetCpuIsQuiet(c)' /\ CanInterrupt(c)' /\ PassedCanInterrupt(c)'
    BY <1>1, <2>6, <2>7 DEF ResetCpuIsQuiet, CanInterrupt, PassedCanInterrupt
  <2> QED
    BY <1>1, <2>2, <2>4, <2>5, <2>8 DEF CpuInv
<1>5. CASE NmiStop(c)
  <2>1. /\ hw'[c] = IF nmi_enabled THEN StopCtrs(model, hw[c]) ELSE hw[c]
        /\ nmi'[c] = "none" /\ nmi[c] # "none" /\ UNCHANGED << pend, on, history >>
    BY <1>5 DEF NmiStop, Types, TypeOK
  <2>2. SameEvents(hw'[c], hw[c]) /\ is_setup /\ (Bare(c)' <=> Bare(c))
    BY <1>0, <1>1, <2>1, StopEvents DEF SameEvents, Mid, Bare
  <2>3. nmi_enabled => hw'[c].gate = {} /\ Counting(hw'[c]) = {}
    BY <1>0, <2>1, StopKeeps, GateShut
  <2>4. Bare(c) => hw'[c] = hw[c]
    BY <2>1, <2>2 DEF Bare, ControlInv, Control
  <2>5. ~nmi_enabled /\ section # "shutdown" => Counting(hw'[c]) = {} /\ passed[c] = {}
    <3>1. ASSUME ~nmi_enabled, section # "shutdown" PROVE section \in {"save", "setup"}
      BY <2>2, <3>1 DEF ControlInv, Control
    <3>2. ASSUME section \in {"save", "setup"} PROVE Counting(hw[c]) = {} /\ passed[c] = {}
      BY <3>2 DEF CpuInv, BareCountsNothing, SetUpCpuIsReady, Bare, Counting, Mid
    <3> QED
      BY <2>1, <3>1, <3>2
  <2>6. SavedIsBare(c)' /\ BareCountsNothing(c)' /\ SavedAndRestored(c)' /\ CheckIsInSession(c)'
    BY <1>1, <2>1, <2>2, <2>4 DEF CpuInv, SavedIsBare, BareCountsNothing, SavedAndRestored,
       CheckIsInSession, SameEvents
  <2>7. SetUpCpuIsReady(c)' /\ ResetCpuIsQuiet(c)'
    BY <1>1, <2>1, <2>2, <2>3 DEF CpuInv, SetUpCpuIsReady, ResetCpuIsQuiet, SameEvents
  <2>8. CanInterrupt(c)' /\ PassedCanInterrupt(c)'
    <3>1. section = "shutdown" => passed[c] = {}
      BY DEF Mid
    <3>2. section # "shutdown" => Counting(hw'[c]) = {} /\ hw'[c].gate \cap passed[c] = {}
      BY <2>3, <2>5
    <3> QED
      BY <1>1, <3>1, <3>2 DEF CanInterrupt, PassedCanInterrupt
  <2> QED
    BY <1>1, <2>2, <2>6, <2>7, <2>8 DEF CpuInv, SameEvents
<1> QED
  BY <1>2, <1>3, <1>4, <1>5 DEF Interrupt, PmcInterrupt, X86, PowerPC

LEMMA CountKeepsCpu ==
  ASSUME Types, model \in X86, NEW c \in CPUs, NEW k \in Counters, CpuInv(c), Count(c, k)
  PROVE  CpuInv(c)'
<1> USE DEF controlVars
<1> DEFINE after == [hw[c] EXCEPT
         !.over  = @ \cup {k},
         !.gate  = IF model \in PowerPC THEN {} ELSE @,
         !.lvtpc = IF Sends(c) /\ model \in {"ppro", "p4"} THEN "masked" ELSE @]
<1>0. hw[c] \in Hardware /\ model \notin PowerPC
  BY DEF Types, TypeOK, X86, PowerPC
<1>1. /\ k \in Counting(hw[c]) /\ hw'[c] = after
      /\ pend' = pend \cup {x \in {c} : Sends(c)}
      /\ UNCHANGED << machine, controlVars, saved, on, passed, nmi, history >>
  BY DEF Count, midVars, Types, TypeOK
<1>2. /\ after.over = hw[c].over \cup {k} /\ after.prog = hw[c].prog /\ after.gate = hw[c].gate
      /\ after.lvtpc = IF Sends(c) /\ model \in {"ppro", "p4"} THEN "masked" ELSE hw[c].lvtpc
  BY <1>0 DEF Hardware
<1> HIDE DEF after
<1>3. Counting(after) \subseteq Counting(hw[c])
  BY <1>2 DEF Counting
<1>4. ~Bare(c) /\ ~Bare(c)' /\ ~(section = "setup" /\ c \notin todo)
  BY <1>1 DEF CpuInv, BareCountsNothing, SetUpCpuIsReady, Counting, Bare
<1>5. Sends(c) <=> hw[c].lvtpc = "nmi"
  BY <1>0 DEF Sends
<1>6. SavedIsBare(c)' /\ BareCountsNothing(c)' /\ SetUpCpuIsReady(c)' /\ SavedAndRestored(c)'
  BY <1>1, <1>4 DEF CpuInv, SavedIsBare, BareCountsNothing, SetUpCpuIsReady, SavedAndRestored,
      Bare
<1>7. ResetCpuIsQuiet(c)' /\ CanInterrupt(c)'
  BY <1>1, <1>2, <1>3, <1>5 DEF CpuInv, ResetCpuIsQuiet, CanInterrupt
<1>8. PassedCanInterrupt(c)' /\ CheckIsInSession(c)'
  BY <1>1, <1>2, <1>4, <1>5 DEF CpuInv, PassedCanInterrupt, CheckIsInSession
<1> QED
  BY <1>1, <1>2, <1>6, <1>7, <1>8 DEF CpuInv, machine

LEMMA HandlerKeepsCpu ==
  ASSUME Types, Mid, ControlInv, model \in X86, NEW c \in CPUs, CpuInv(c), HandlerOnCpu(c)
  PROVE  CpuInv(c)'
<1> USE DEF machine, controlVars, cpuVars, midVars
<1>0. /\ hw[c] \in Hardware /\ reset_value \in Resets /\ config \in Configs
      /\ passed \in [CPUs -> SUBSET Counters]
  BY DEF Types, TypeOK, Resets, Configs
<1>9. nmi[c] = "none" /\ nmi' = nmi
  BY DEF HandlerOnCpu, SaveRegisters, SetupCpu, ShutdownCpu, StartMark, StartCpu, StopCpu, StopMark,
     StopCounter
<1>10. CheckIsInSession(c)'
  BY <1>9 DEF CheckIsInSession
<1>1. CASE SaveRegisters(c)
  <2>1. /\ saved'[c] = hw[c] /\ hw' = hw /\ section = "save"
        /\ UNCHANGED << machine, section, is_setup, pend, on, passed, history >>
    BY <1>1 DEF SaveRegisters, Types, TypeOK
  <2>2. Bare(c) /\ Bare(c)'
    BY <2>1 DEF Bare
  <2>3. SavedIsBare(c)' /\ BareCountsNothing(c)' /\ SetUpCpuIsReady(c)' /\ SavedAndRestored(c)'
    BY <2>1, <2>2 DEF CpuInv, SavedIsBare, BareCountsNothing, SetUpCpuIsReady, SavedAndRestored
  <2>4. ResetCpuIsQuiet(c)' /\ CanInterrupt(c)' /\ PassedCanInterrupt(c)'
    BY <1>9, <2>1 DEF CpuInv, ResetCpuIsQuiet, CanInterrupt, PassedCanInterrupt
  <2> QED
    BY <1>10, <2>1, <2>3, <2>4 DEF CpuInv
<1>2. CASE SetupCpu(c)
  <2> DEFINE done == setup_ctrs(model, config, c \in pmc, Bound(c), reset_value, hw[c])
             new  == [done.hw EXCEPT !.lvtpc = IF section = "setup" THEN "nmi" ELSE @]
  <2>1. /\ done.hw \in Hardware /\ (done.hw.gate = {} \/ done.hw = hw[c])
        /\ done.hw.lvtpc = hw[c].lvtpc
    <3>1. /\ done.hw \in Hardware
          /\ IF model = "p4" => c \in pmc THEN done.hw.gate = {} ELSE done.hw = hw[c]
      BY <1>0, SetupCtrsKeeps
    <3>2. done.hw.lvtpc = hw[c].lvtpc
      BY <1>0, SetupEvents
    <3> QED
      BY <3>1, <3>2
  <2>2. /\ hw'[c] = new /\ section \in {"setup", "adapt"} /\ todo' = todo \ {c}
        /\ UNCHANGED << machine, section, is_setup, saved, pend, on, passed, history >>
    BY <1>2 DEF SetupCpu, Types, TypeOK
  <2> HIDE DEF done
  <2>3. /\ new.gate = done.hw.gate /\ new.prog = done.hw.prog /\ new.over = done.hw.over
        /\ new.lvtpc = IF section = "setup" THEN "nmi" ELSE hw[c].lvtpc
    BY <2>1 DEF Hardware
  <2> HIDE DEF new
  <2>4. Counting(new) = {} \/ Counting(new) = Counting(hw[c])
    BY <2>1, <2>3 DEF Counting
  <2>5. section = "setup" => Counting(new) = {}
    BY <1>2, <2>4 DEF SetupCpu, CpuInv, BareCountsNothing, Bare, Counting
  <2>6. ~Bare(c)' /\ passed[c] = {}
    BY <2>2 DEF Bare, ControlInv, Control, Mid
  <2>7. SavedIsBare(c)' /\ BareCountsNothing(c)' /\ SetUpCpuIsReady(c)' /\ SavedAndRestored(c)'
    BY <2>2, <2>3, <2>5, <2>6 DEF CpuInv, SavedIsBare, BareCountsNothing, SetUpCpuIsReady,
       SavedAndRestored
  <2>8. ResetCpuIsQuiet(c)' /\ CanInterrupt(c)' /\ PassedCanInterrupt(c)'
    BY <1>9, <2>2, <2>3, <2>4, <2>5, <2>6 DEF CpuInv, ResetCpuIsQuiet, CanInterrupt,
       PassedCanInterrupt
  <2> QED
    BY <1>10, <2>2, <2>3, <2>7, <2>8 DEF CpuInv
<1>3. CASE ShutdownCpu(c)
  <2>1. /\ hw'[c] = saved[c] /\ section = "shutdown"
        /\ UNCHANGED << machine, section, is_setup, saved, pend, passed, history >>
    BY <1>3 DEF ShutdownCpu, Types, TypeOK
  <2>2. passed[c] = {}
    BY <2>1 DEF Mid
  <2>3. SavedIsBare(c)' /\ BareCountsNothing(c)' /\ SetUpCpuIsReady(c)' /\ SavedAndRestored(c)'
    BY <2>1 DEF CpuInv, SavedIsBare, BareCountsNothing, SetUpCpuIsReady, SavedAndRestored
  <2>4. ResetCpuIsQuiet(c)' /\ CanInterrupt(c)' /\ PassedCanInterrupt(c)'
    BY <2>1, <2>2 DEF ResetCpuIsQuiet, CanInterrupt, PassedCanInterrupt
  <2> QED
    BY <1>10, <2>1, <2>3, <2>4 DEF CpuInv, SavedIsBare
<1>7. ASSUME section \in {"start", "stop"}, UNCHANGED << section, is_setup, saved, pend, history >>,
             hw'[c].prog = hw[c].prog, hw'[c].lvtpc = hw[c].lvtpc,
             CanInterrupt(c)', PassedCanInterrupt(c)'
      PROVE  CpuInv(c)'
  <2>1. ~Bare(c)' /\ UNCHANGED machine
    BY <1>7 DEF Bare, ControlInv, Control, HandlerOnCpu, SaveRegisters, SetupCpu, ShutdownCpu,
       StartMark, StartCpu, StopCpu, StopMark, StopCounter
  <2>2. SavedIsBare(c)' /\ BareCountsNothing(c)' /\ SetUpCpuIsReady(c)' /\ SavedAndRestored(c)'
    BY <1>7, <2>1 DEF CpuInv, SavedIsBare, BareCountsNothing, SetUpCpuIsReady, SavedAndRestored
  <2>3. ResetCpuIsQuiet(c)'
    BY <1>7, <1>9 DEF CpuInv, ResetCpuIsQuiet
  <2> QED
    BY <1>7, <1>10, <2>1, <2>2, <2>3 DEF CpuInv
<1>4. CASE StartCpu(c)
  <2>1. /\ hw'[c] = StartCtrs(model, config, reset_value, hw[c]) /\ section = "start"
        /\ c \in on'
        /\ UNCHANGED << machine, section, is_setup, saved, pend, passed, history >>
    BY <1>4 DEF StartCpu, Types, TypeOK
  <2>2. SameEvents(hw'[c], hw[c]) /\ passed[c] = {}
    BY <1>0, <2>1, StartEvents DEF Mid
  <2>3. CanInterrupt(c)' /\ PassedCanInterrupt(c)'
    BY <2>1, <2>2 DEF CanInterrupt, PassedCanInterrupt
  <2> QED
    BY <1>7, <2>1, <2>2, <2>3 DEF SameEvents
<1>5. CASE StopCpu(c)
  <2>1. /\ hw'[c] = StopLast(model, passed[c], hw[c]) /\ section = "stop" /\ passed'[c] = {}
        /\ UNCHANGED << machine, section, is_setup, saved, pend, history >>
    BY <1>0, <1>5 DEF StopCpu, Types, TypeOK
  <2>2. SameEvents(hw'[c], hw[c]) /\ hw'[c].gate \subseteq hw[c].gate \cap passed[c]
    BY <1>0, <2>1, StopLoopEvents, StopLoopKeeps
  <2>3. Counting(hw'[c]) # {} => hw[c].gate \cap passed[c] # {}
    BY <2>2 DEF Counting
  <2>4. CanInterrupt(c)' /\ PassedCanInterrupt(c)'
    BY <1>9, <2>1, <2>2, <2>3 DEF CpuInv, CanInterrupt, PassedCanInterrupt, SameEvents
  <2> QED
    BY <1>7, <2>1, <2>2, <2>4 DEF SameEvents
<1>8. CASE \E k \in Counters : StopCounter(c, k)
  <2> PICK k \in Counters : StopCounter(c, k)
    BY <1>8
  <2>1. /\ hw'[c] = StopOne(k, hw[c]) /\ section = "stop" /\ passed'[c] = passed[c] \cup {k}
        /\ UNCHANGED << machine, section, is_setup, saved, pend, on, history >>
    BY <1>0 DEF StopCounter, Types, TypeOK
  <2>2. SameEvents(hw'[c], hw[c]) /\ hw'[c].gate = hw[c].gate \ {k} /\ hw'[c].over = hw[c].over
    <3>1. SameEvents(StopOne(k, hw[c]), hw[c]) /\ StopOne(k, hw[c]).gate = hw[c].gate \ {k}
      BY <1>0, StopLoopEvents, StopLoopKeeps
    <3>2. StopOne(k, hw[c]).over = hw[c].over
      BY <1>0 DEF StopOne, Gate, Hardware
    <3> QED
      BY <2>1, <3>1, <3>2
  <2>3. Counting(hw'[c]) \subseteq Counting(hw[c])
    BY <2>2 DEF Counting, SameEvents
  <2>4. CanInterrupt(c)' /\ PassedCanInterrupt(c)'
    BY <1>9, <2>1, <2>2, <2>3 DEF CpuInv, CanInterrupt, PassedCanInterrupt, SameEvents
  <2> QED
    BY <1>7, <2>1, <2>2, <2>4 DEF SameEvents
<1>6. CASE StartMark(c) \/ StopMark(c)
  <2>1. /\ section \in {"start", "stop"}
        /\ UNCHANGED << machine, section, is_setup, hw, saved, pend, on, midVars, history >>
    BY <1>6 DEF StartMark, StopMark
  <2>2. CanInterrupt(c)' /\ PassedCanInterrupt(c)'
    BY <2>1 DEF CpuInv, CanInterrupt, PassedCanInterrupt
  <2> QED
    BY <1>7, <2>1, <2>2
<1> QED
  BY <1>1, <1>2, <1>3, <1>4, <1>5, <1>6, <1>8 DEF HandlerOnCpu

(* What one CPU does leaves the registers of the others.                   *)
LEMMA OneCpuAtATime ==
  ASSUME Types, NEW c \in CPUs, NEW d \in CPUs, c # d, CpuInv(d),
         \/ HandlerOnCpu(c) \/ Interrupt(c) \/ (\E k \in Counters : Count(c, k))
  PROVE  CpuInv(d)'
<1> USE DEF machine, controlVars, cpuVars, midVars
<1>1. CASE HandlerOnCpu(c)
  <2>1. /\ UNCHANGED << machine, section, is_setup, pend, nmi, history >>
        /\ hw'[d] = hw[d] /\ saved'[d] = saved[d] /\ passed'[d] = passed[d]
    BY <1>1 DEF HandlerOnCpu, SaveRegisters, SetupCpu, ShutdownCpu, StartMark, StartCpu,
        StopCpu, StopMark, StopCounter, Types, TypeOK
  <2>2. (d \in todo' <=> d \in todo) /\ (d \in on' <=> d \in on)
    BY <1>1 DEF HandlerOnCpu, SaveRegisters, SetupCpu, ShutdownCpu, StartMark, StartCpu,
        StopCpu, StopMark, StopCounter
  <2> QED
    BY <2>1, <2>2, OtherCpu
<1>2. CASE Interrupt(c)
  <2>1. /\ UNCHANGED << machine, section, is_setup, todo, on, saved, passed >>
        /\ history \subseteq history' /\ (d \in pend' <=> d \in pend) /\ nmi'[d] = nmi[d]
    BY <1>2 DEF Interrupt, NmiUnclaimed, NmiEnter, NmiCheck, NmiStop, PmcInterrupt, Take, Handled, Note,
       Types, TypeOK
  <2>2. hw'[d] = hw[d]
    BY <1>2 DEF Interrupt, NmiUnclaimed, NmiEnter, NmiCheck, NmiStop, PmcInterrupt, Handled, Types, TypeOK
  <2> QED
    BY <2>1, <2>2, OtherCpu
<1>3. ASSUME NEW k \in Counters, Count(c, k) PROVE CpuInv(d)'
  <2>1. /\ UNCHANGED << machine, section, is_setup, todo, on, saved, passed, nmi, history >>
        /\ (d \in pend' <=> d \in pend)
    BY <1>3 DEF Count
  <2>2. hw \in [CPUs -> Hardware]
    BY DEF Types, TypeOK
  <2>3. hw'[d] = hw[d]
    BY <1>3, <2>2 DEF Count
  <2> QED
    BY <2>1, <2>3, OtherCpu
<1> QED
  BY <1>1, <1>2, <1>3

LEMMA X86Kept ==
  ASSUME Types, Mid, RestUnlessResumed, ControlInv, X86Inv, [Next]_vars PROVE X86Inv'
<1> USE DEF machine, configVars, controlVars, stateVars, idleVars, Enter, Leave, Done
<1> SUFFICES ASSUME model' \in X86, NEW c \in CPUs PROVE CpuInv(c)'
  BY DEF X86Inv
<1>0. UNCHANGED << model, pmc >> /\ history \subseteq history' /\ CpuInv(c)
  <2>1. UNCHANGED << model, pmc >>
    <3> USE DEF Next, EndOfSection, HandlerOnCpu, Interrupt
    <3> QED
      BY DEF BeginSetup, BeginStart, BeginStop, BeginAdapt, BeginShutdown, Suspend, Resume,
        IdlePollWrite, EndSave, EndSetup, EndStart, EndStop, CanAdapt, CannotAdapt, Decay,
        EndAdapt, EndShutdown, SaveRegisters, SetupCpu, ShutdownCpu, StartMark, StartCpu,
        StopCpu, StopMark, StopCounter, NmiUnclaimed, NmiEnter, NmiCheck, NmiStop,
        PmcInterrupt, Take, Count, Configure, vars
  <2> QED
    BY <2>1, HistoryGrows DEF X86Inv
<1>1. ASSUME NEW d \in CPUs,
             HandlerOnCpu(d) \/ Interrupt(d) \/ (\E k \in Counters : Count(d, k))
      PROVE  CpuInv(c)'
  BY <1>0, <1>1, OneCpuAtATime, HandlerKeepsCpu, InterruptKeepsCpu, CountKeepsCpu
<1>2. CASE BeginSetup
  <2>1. /\ Bare(c) /\ section' = "save" /\ nmi[c] = "none"
        /\ UNCHANGED << cpuVars, history >>
    BY <1>0, <1>2 DEF BeginSetup, Bare, Mid
  <2> QED
    BY <1>0, <2>1 DEF cpuVars, midVars, CpuInv, SavedIsBare, BareCountsNothing,
       SetUpCpuIsReady, ResetCpuIsQuiet, CanInterrupt, PassedCanInterrupt, CheckIsInSession,
       SavedAndRestored, Counting
<1>3. CASE EndSave
  <2>1. /\ Bare(c) /\ section = "save" /\ section' = "setup" /\ c \in todo'
        /\ UNCHANGED << cpuVars, history >>
    BY <1>3 DEF EndSave, Bare
  <2> QED
    BY <1>0, <2>1 DEF cpuVars, midVars, CpuInv, SavedIsBare, BareCountsNothing,
       SetUpCpuIsReady, ResetCpuIsQuiet, CanInterrupt, PassedCanInterrupt, CheckIsInSession,
       SavedAndRestored, Counting
<1>4. CASE EndShutdown
  <2>1. /\ Bare(c) /\ section' = "none" /\ is_setup' = FALSE /\ nmi[c] = "none"
        /\ UNCHANGED << cpuVars, history >>
    BY <1>4 DEF EndShutdown, Bare
  <2> QED
    BY <1>0, <2>1 DEF cpuVars, midVars, CpuInv, SavedIsBare, BareCountsNothing,
       SetUpCpuIsReady, ResetCpuIsQuiet, CanInterrupt, PassedCanInterrupt, CheckIsInSession,
       SavedAndRestored, Counting
<1>5. CASE \/ EndSetup \/ EndStart \/ EndStop \/ CanAdapt \/ CannotAdapt \/ Decay \/ EndAdapt
  <2>1. /\ UNCHANGED << cpuVars, is_setup >> /\ section \notin {"none", "save", "shutdown"}
        /\ section' \notin {"save", "setup", "shutdown"} /\ (section = "setup" => todo = {})
    BY <1>5 DEF EndSetup, EndStart, EndStop, CanAdapt, CannotAdapt, Decay, EndAdapt, EnterStart
  <2>2. is_setup /\ ~Bare(c)'
    BY <2>1 DEF ControlInv, Control, Bare
  <2> QED
    BY <1>0, <2>1, <2>2, BetweenLoops
<1>6. CASE BeginStart \/ BeginStop \/ BeginAdapt \/ BeginShutdown
  <2>1. /\ UNCHANGED << cpuVars, is_setup >> /\ section = "none"
        /\ section' \notin {"save", "setup"} /\ (section' = "shutdown" => c \in todo')
    BY <1>0, <1>6 DEF BeginStart, BeginStop, BeginAdapt, BeginShutdown, EnterStart
  <2>2. is_setup /\ ~Bare(c)'
    BY <1>6, <2>1 DEF BeginStart, BeginStop, BeginAdapt, BeginShutdown, ControlInv, Control, Bare
  <2> QED
    BY <1>0, <2>1, <2>2, BetweenLoops
<1>7. CASE Resume
  <2>1. /\ UNCHANGED << cpuVars, is_setup >> /\ section = "none" /\ section' = "start" /\ asleep
    BY <1>7 DEF Resume, EnterStart
  <2>2. is_setup /\ ~Bare(c)'
    BY <2>1 DEF ControlInv, Control, Bare
  <2> QED
    BY <1>0, <2>1, <2>2, BetweenLoops
<1>8. CASE Suspend
  <2>1. /\ hw'[c] = IF c = Boot THEN hw[c] ELSE PowerOn
        /\ section = "none" /\ section' = "stop" /\ nmi_enabled
        /\ pend' = pend \cap {Boot} /\ on' = on \cap {Boot}
        /\ UNCHANGED << saved, is_setup, midVars >> /\ nmi[c] = "none"
    BY <1>8 DEF Suspend
  <2>2. is_setup /\ ~Bare(c)'
    BY <2>1 DEF ControlInv, Control, Bare
  <2>3. PowerOn.lvtpc = "boot"
    BY DEF PowerOn
  <2>4. passed[c] = {}
    BY <2>1 DEF Mid
  <2> QED
    BY <1>0, <2>1, <2>2, <2>3, <2>4, PowerOnTyped DEF CpuInv, SavedIsBare, BareCountsNothing,
       SetUpCpuIsReady, ResetCpuIsQuiet, CanInterrupt, PassedCanInterrupt, CheckIsInSession,
       SavedAndRestored, midVars
<1>9. CASE IdlePollWrite \/ (\E k \in Counters : Configure(k)) \/ UNCHANGED vars
  <2>1. UNCHANGED << cpuVars, section, todo, is_setup >>
    BY <1>9 DEF IdlePollWrite, Configure, vars
  <2> QED
    BY <1>0, <2>1, OtherCpu DEF cpuVars, midVars
<1> QED
  BY <1>1, <1>2, <1>3, <1>4, <1>5, <1>6, <1>7, <1>8, <1>9 DEF Next, EndOfSection

LEMMA X86Invariant == Spec => []X86Inv
<1>1. Init => X86Inv
  <2>1. /\ PowerOn.prog = {} /\ PowerOn.lvtpc = "boot" /\ Counting(PowerOn) = {}
    BY PowerOnTyped DEF PowerOn
  <2>2. ASSUME Init, NEW c \in CPUs PROVE CpuInv(c)
    <3>1. /\ hw[c] = PowerOn /\ saved[c] = PowerOn /\ section = "none" /\ pend = {}
          /\ is_setup = FALSE /\ passed[c] = {} /\ nmi[c] = "none"
      BY <2>2 DEF Init
    <3> QED
      BY <2>1, <3>1 DEF CpuInv, SavedIsBare, BareCountsNothing, SetUpCpuIsReady,
         ResetCpuIsQuiet, CanInterrupt, PassedCanInterrupt, CheckIsInSession, SavedAndRestored
  <2> QED
    BY <2>2 DEF X86Inv
<1> QED
  BY <1>1, X86Kept, TypesInvariant, MidInvariant, RestInvariant, ControlInvariant, PTL DEF Spec

(* After nmi_shutdown() the registers of every CPU are as they were before *)
(* nmi_setup(), through every adapt, suspend, resume and late interrupt,   *)
(* unless both of the last two happened.                                   *)
THEOREM RegistersComeBack == Spec => []RestoredAfterShutdown
<1>1. Types /\ X86Inv => RestoredAfterShutdown
  BY DEF Types, TypeOK, X86Inv, CpuInv, SavedAndRestored, Bare, RestoredAfterShutdown
<1> QED
  BY TypesInvariant, X86Invariant, <1>1, PTL

(* A counter that a late interrupt let count again can interrupt, so that  *)
(* profile_exceptions_notify() stops it.                                   *)
THEOREM LateCountersAreStopped == Spec => []LateCountersCanBeStopped
<1>1. ControlInv /\ X86Inv => LateCountersCanBeStopped
  BY DEF ControlInv, OnWhileRunning, X86Inv, CpuInv, CanInterrupt, LateCountersCanBeStopped
<1> QED
  BY ControlInvariant, X86Invariant, <1>1, PTL

-----------------------------------------------------------------------------
(* What the counter models do to one counter.  A count up to 2^31 leaves   *)
(* bit 31 of a counter just loaded as before an overflow.                  *)
LEMMA LoadedIsBelow ==
  ASSUME NEW p \in Nat, p # 0, p <= Top
  PROVE  ~X86Over(p) /\ ~PowerPCOver(p)
<1>1. Top \in Nat /\ Top > 0
  BY CountersAssumption
<1> DEFINE M == 2 * Top
<1>2. M \in Nat /\ M > 0
  BY <1>1
<1>3. \A n \in Nat : n < M => n % M = n
  BY <1>2
<1>4. \A n \in Nat : M <= n /\ n < 2 * M => n % M = n - M
  <2> SUFFICES ASSUME NEW n \in Nat, M <= n, n < 2 * M PROVE n % M = n - M
    OBVIOUS
  <2> DEFINE q == n \div M
             r == n % M
  <2>1. q \in Nat /\ r \in 0 .. M - 1 /\ n = M * q + r
    BY <1>2
  <2> HIDE DEF q, r, M
  <2>2. CASE q = 0
    <3>1. M * q = 0
      BY <1>2, <2>1, <2>2
    <3> QED
      BY <1>2, <2>1, <3>1
  <2>3. CASE q >= 2
    <3>1. M * q >= M * 2
      BY <1>2, <2>1, <2>3
    <3> QED
      BY <1>2, <2>1, <3>1
  <2>4. CASE q = 1
    BY <1>2, <2>1, <2>4 DEF r
  <2> QED
    BY <2>1, <2>2, <2>3, <2>4
<1> HIDE DEF M
<1>5. p % M = p /\ (M - p) % M = M - p
  BY <1>1, <1>2, <1>3 DEF M
<1>6. (3 * Top - p) % M = 3 * Top - p - M
  BY <1>1, <1>2, <1>4 DEF M
<1> QED
  BY <1>1, <1>5, <1>6 DEF X86Over, PowerPCOver, M

LEMMA X86LoadCounters ==
  ASSUME NEW h \in Hardware, NEW K \in SUBSET Counters, NEW p \in Resets
  PROVE  /\ X86Load(h, K, p) \in Hardware
         /\ X86Load(h, K, p).prog = h.prog
         /\ \A k \in K : X86Load(h, K, p).period[k] = p[k]
         /\ \A k \in Counters \ K : X86Load(h, K, p).period[k] = h.period[k]
         /\ \A k \in K : k \in X86Load(h, K, p).over <=> X86Over(p[k])
         /\ \A k \in Counters \ K : k \in X86Load(h, K, p).over <=> k \in h.over
<1> DEFINE over == {k \in K : X86Over(p[k])}
<1>1. over \in SUBSET Counters
  OBVIOUS
<1>2. \A k \in K : k \in over <=> X86Over(p[k])
  OBVIOUS
<1>3. over \subseteq K
  OBVIOUS
<1>4. X86Load(h, K, p) = Load(h, K, p, over)
  BY DEF X86Load
<1>5. X86Load(h, K, p) \in Hardware
  BY LoadKeeps
<1> HIDE DEF over
<1>6. /\ Load(h, K, p, over).prog = h.prog
      /\ Load(h, K, p, over).over = (h.over \ K) \cup over
      /\ \A k \in K : Load(h, K, p, over).period[k] = p[k]
      /\ \A k \in Counters \ K : Load(h, K, p, over).period[k] = h.period[k]
  BY <1>1 DEF Load, Hardware
<1> QED
  BY <1>2, <1>3, <1>4, <1>5, <1>6

LEMMA PowerPCLoadCounters ==
  ASSUME NEW h \in Hardware, NEW K \in SUBSET Counters, NEW p \in Resets
  PROVE  /\ PowerPCLoad(h, K, p) \in Hardware
         /\ PowerPCLoad(h, K, p).prog = h.prog
         /\ \A k \in K : PowerPCLoad(h, K, p).period[k] = p[k]
         /\ \A k \in Counters \ K : PowerPCLoad(h, K, p).period[k] = h.period[k]
         /\ \A k \in K : k \in PowerPCLoad(h, K, p).over <=> PowerPCOver(p[k])
         /\ \A k \in Counters \ K : k \in PowerPCLoad(h, K, p).over <=> k \in h.over
<1> DEFINE over == {k \in K : PowerPCOver(p[k])}
<1>1. over \in SUBSET Counters
  OBVIOUS
<1>2. \A k \in K : k \in over <=> PowerPCOver(p[k])
  OBVIOUS
<1>3. over \subseteq K
  OBVIOUS
<1>4. PowerPCLoad(h, K, p) = Load(h, K, p, over)
  BY DEF PowerPCLoad
<1>5. PowerPCLoad(h, K, p) \in Hardware
  BY LoadKeeps
<1> HIDE DEF over
<1>6. /\ Load(h, K, p, over).prog = h.prog
      /\ Load(h, K, p, over).over = (h.over \ K) \cup over
      /\ \A k \in K : Load(h, K, p, over).period[k] = p[k]
      /\ \A k \in Counters \ K : Load(h, K, p, over).period[k] = h.period[k]
  BY <1>1 DEF Load, Hardware
<1> QED
  BY <1>2, <1>3, <1>4, <1>5, <1>6

LEMMA ZeroCounters ==
  ASSUME NEW h \in Hardware, NEW K \in SUBSET Counters
  PROVE  /\ Zero(h, K) \in Hardware
         /\ Zero(h, K).prog = h.prog
         /\ Zero(h, K).over = h.over \ K
         /\ \A k \in K : Zero(h, K).period[k] = 0
         /\ \A k \in Counters \ K : Zero(h, K).period[k] = h.period[k]
BY DEF Zero, Hardware

LEMMA GateCounters ==
  ASSUME NEW h \in Hardware, NEW K
  PROVE  /\ Gate(h, K).prog = h.prog /\ Gate(h, K).over = h.over /\ Gate(h, K).period = h.period
         /\ Gate(h, K).gate = K
         /\ Program(h, K).prog = K /\ Program(h, K).over = h.over
         /\ Program(h, K).period = h.period
         /\ Unmask(h).prog = h.prog /\ Unmask(h).over = h.over /\ Unmask(h).period = h.period
BY DEF Gate, Program, Unmask, Hardware

(* Loading the enabled counters with their counts.                         *)
LEMMA EnabledAreLoaded ==
  ASSUME NEW c \in Configs, NEW g \in Hardware
  PROVE  LET x == X86Load(g, Enabled(c), Periods(c))
         IN  /\ x.prog = g.prog
             /\ \A k \in Enabled(c) : /\ x.period[k] = c[k].count
                                      /\ k \in x.over <=> X86Over(c[k].count)
             /\ x.over \subseteq g.over \cup Enabled(c)
<1> DEFINE sel == Enabled(c)
           p   == Periods(c)
           x   == X86Load(g, sel, p)
<1>1. sel \in SUBSET Counters /\ p \in Resets
  BY EnabledAreCounters, PeriodsAreNumbers
<1>2. \A k \in sel : k \in Counters /\ p[k] = c[k].count
  BY <1>1 DEF Periods
<1> HIDE DEF sel, p
<1>3. /\ x \in Hardware /\ x.prog = g.prog
      /\ \A k \in sel : x.period[k] = p[k]
      /\ \A k \in sel : k \in x.over <=> X86Over(p[k])
      /\ \A k \in Counters \ sel : k \in x.over <=> k \in g.over
  BY <1>1, X86LoadCounters
<1>5. x.over \subseteq Counters
  BY <1>3 DEF Hardware
<1> HIDE DEF x
<1> QED
  BY <1>2, <1>3, <1>5 DEF x, sel, p

(* setup_ctrs() on a CPU that has its PMC.                                 *)
FullSetup(m, c, b, r, h) ==
  CASE m = "ppro"   -> ppro_setup_ctrs(c, r, h)
    [] m = "athlon" -> athlon_setup_ctrs(c, h)
    [] m = "p4"     ->
         [hw    |-> X86Load(Program(h, Enabled(c) \cap b), Enabled(c), Periods(c)),
          reset |-> [k \in Counters |-> IF k \in Enabled(c) THEN c[k].count ELSE 0]]

(* It names the events of the enabled counters and loads them; the models  *)
(* that load the others give them a count of one.  A P4 names only events  *)
(* that have a binding.                                                    *)
LEMMA SetupLoads ==
  ASSUME NEW m \in X86, NEW c \in Configs, NEW b, NEW r \in Resets,
         NEW h \in Hardware
  PROVE  /\ FullSetup(m, c, b, r, h).hw.prog \subseteq Enabled(c)
         /\ Enabled(c) \cap b \subseteq FullSetup(m, c, b, r, h).hw.prog
         /\ m # "p4" => Enabled(c) \subseteq FullSetup(m, c, b, r, h).hw.prog
         /\ \A k \in Enabled(c) :
              /\ FullSetup(m, c, b, r, h).hw.period[k] = c[k].count
              /\ k \in FullSetup(m, c, b, r, h).hw.over <=> X86Over(c[k].count)
         /\ m # "p4" => FullSetup(m, c, b, r, h).hw.over \subseteq Enabled(c)
<1> DEFINE sel    == Enabled(c)
           start  == Program(h, sel)
           some   == Program(h, sel \cap b)
           ones   == [k \in Counters |-> 1]
           unused == X86Load(start, Counters, ones)
           loads(g) == \A k \in sel : /\ g.period[k] = c[k].count
                                      /\ k \in g.over <=> X86Over(c[k].count)
<1>1. /\ sel \in SUBSET Counters /\ sel \cap b \in SUBSET Counters
      /\ Periods(c) \in Resets /\ ones \in Resets
  BY EnabledAreCounters, PeriodsAreNumbers DEF Resets
<1>2. start \in Hardware /\ start.prog = sel
  BY <1>1, GateKeeps, GateCounters
<1>11. some \in Hardware /\ some.prog = sel \cap b
  BY <1>1, GateKeeps, GateCounters
<1>3. \A k \in Counters : Periods(c)[k] = c[k].count
  BY DEF Periods
<1>4. unused \in Hardware /\ unused.prog = sel /\ unused.over = {}
  <2>2. \A k \in Counters : ~X86Over(ones[k])
    BY LoadedIsBelow, CountersAssumption
  <2>a. Counters \in SUBSET Counters
    OBVIOUS
  <2> HIDE DEF start, ones
  <2>1. unused \in Hardware /\ unused.prog = sel
    BY <1>1, <1>2, <2>a, X86LoadCounters
  <2>3. \A k \in Counters : k \notin unused.over
    BY <1>1, <1>2, <2>2, <2>a, X86LoadCounters
  <2>4. unused.over \subseteq Counters
    BY <2>1 DEF Hardware
  <2> QED
    BY <2>1, <2>3, <2>4
<1>5. ASSUME NEW g \in Hardware
      PROVE  /\ loads(X86Load(g, sel, Periods(c)))
             /\ X86Load(g, sel, Periods(c)).prog = g.prog
             /\ X86Load(g, sel, Periods(c)).over \subseteq g.over \cup sel
  BY EnabledAreLoaded
<1> HIDE DEF start, some, unused, sel
<1>6. /\ loads(X86Load(unused, sel, Periods(c)))
      /\ X86Load(unused, sel, Periods(c)).prog = sel
      /\ X86Load(unused, sel, Periods(c)).over \subseteq sel
      /\ loads(X86Load(some, sel, Periods(c)))
      /\ X86Load(some, sel, Periods(c)).prog = sel \cap b
  BY <1>2, <1>4, <1>5, <1>11
<1>7. sel \subseteq Counters
  BY <1>1
<1>8. CASE m = "ppro"
  BY <1>6, <1>7, <1>8 DEF FullSetup, ppro_setup_ctrs, sel, start, unused
<1>9. CASE m = "athlon"
  BY <1>6, <1>7, <1>9 DEF FullSetup, athlon_setup_ctrs, sel, start, unused
<1>10. CASE m = "p4"
  BY <1>6, <1>7, <1>10 DEF FullSetup, sel, some
<1> QED
  BY <1>8, <1>9, <1>10 DEF X86

LEMMA SetupNames ==
  ASSUME NEW m \in X86, NEW c \in Configs, NEW b, NEW r \in Resets, NEW h \in Hardware
  PROVE  /\ FullSetup(m, c, b, r, h).hw.prog \subseteq Enabled(c)
         /\ Enabled(c) \cap b \subseteq FullSetup(m, c, b, r, h).hw.prog
         /\ m # "p4" => Enabled(c) \subseteq FullSetup(m, c, b, r, h).hw.prog
BY SetupLoads

LEMMA SetupPeriods ==
  ASSUME NEW m \in X86, NEW c \in Configs, NEW b, NEW r \in Resets, NEW h \in Hardware
  PROVE  \A k \in Enabled(c) : FullSetup(m, c, b, r, h).hw.period[k] = c[k].count
BY SetupLoads

LEMMA SetupOverflows ==
  ASSUME NEW m \in X86, NEW c \in Configs, NEW b, NEW r \in Resets, NEW h \in Hardware
  PROVE  /\ \A k \in Enabled(c) : k \in FullSetup(m, c, b, r, h).hw.over <=> X86Over(c[k].count)
         /\ m # "p4" => FullSetup(m, c, b, r, h).hw.over \subseteq Enabled(c)
BY SetupLoads

LEMMA SetupResets ==
  ASSUME NEW m \in X86, NEW c \in Configs, NEW P, NEW e \in P, NEW b, NEW r \in Resets,
         NEW h \in Hardware
  PROVE  /\ \A k \in Enabled(c) : setup_ctrs(m, c, e \in P, b, r, h).reset[k] = c[k].count
         /\ m = "p4" => \A k \in Counters \ Enabled(c) :
                          setup_ctrs(m, c, e \in P, b, r, h).reset[k] = 0
<1>1. \A k \in Enabled(c) : k \in Counters
  BY EnabledAreCounters
<1> QED
  BY <1>1 DEF X86, setup_ctrs, ppro_setup_ctrs, athlon_setup_ctrs, p4_setup_ctrs

(* start() of x86 opens the counters that have a reset value.              *)
LEMMA StartOpens ==
  ASSUME NEW m \in X86, NEW c, NEW r \in Resets, NEW h \in Hardware
  PROVE  /\ StartCtrs(m, c, r, h).over = h.over
         /\ StartCtrs(m, c, r, h).period = h.period
         /\ \A k \in Counters : r[k] # 0 => k \in StartCtrs(m, c, r, h).gate
<1>1. ASSUME NEW K
      PROVE  /\ Gate(h, K).over = h.over /\ Gate(h, K).period = h.period
             /\ Gate(h, K).gate = K
  BY GateCounters
<1>2. CASE m = "ppro"
  BY <1>1, <1>2 DEF StartCtrs, ppro_start
<1> DEFINE opened == h.gate \cup {k \in Counters : r[k] # 0}
<1>a. /\ Gate(h, opened).over = h.over /\ Gate(h, opened).period = h.period
      /\ {k \in Counters : r[k] # 0} \subseteq Gate(h, opened).gate
  <2>1. {k \in Counters : r[k] # 0} \subseteq opened
    OBVIOUS
  <2> HIDE DEF opened
  <2> QED
    BY <1>1, <2>1
<1>3. CASE m = "athlon"
  BY <1>a, <1>3 DEF StartCtrs, athlon_start
<1>4. CASE m = "p4"
  BY <1>a, <1>4 DEF StartCtrs, p4_start
<1> QED
  BY <1>2, <1>3, <1>4 DEF X86

LEMMA StopCloses ==
  ASSUME NEW m \in X86 \cup PowerPC, NEW h \in Hardware
  PROVE  /\ StopCtrs(m, h).prog = h.prog /\ StopCtrs(m, h).over = h.over
         /\ StopCtrs(m, h).period = h.period
<1>1. /\ Gate(h, {}).prog = h.prog /\ Gate(h, {}).over = h.over /\ Gate(h, {}).period = h.period
  BY GateCounters
<1>2. m \in {"ppro", "athlon", "p4", "power4", "7450", "rs64"}
  BY DEF X86, PowerPC
<1> QED
  BY <1>1, <1>2 DEF StopCtrs, ppro_stop, athlon_stop, p4_stop, power4_stop, fsl7450_stop,
      pmc_stop_ctrs, rs64_stop

LEMMA StopLoopCloses ==
  ASSUME NEW m \in X86 \cup PowerPC, NEW K, NEW k, NEW h \in Hardware
  PROVE  /\ StopOne(k, h).prog = h.prog /\ StopOne(k, h).over = h.over
         /\ StopOne(k, h).period = h.period
         /\ StopLast(m, K, h).prog = h.prog /\ StopLast(m, K, h).over = h.over
         /\ StopLast(m, K, h).period = h.period
BY StopCloses, GateCounters DEF StopOne, StopLast

LEMMA X86Logs ==
  ASSUME NEW m \in X86, NEW c, NEW r, NEW run, NEW h \in Hardware
  PROVE  /\ Logged(m, c, r, run, h) \subseteq h.over
         /\ \A k \in h.over : k \in Logged(m, c, r, run, h) <=> m # "p4" \/ r[k] # 0
BY DEF Logged, P4Logged, X86

(* check_ctrs() of x86 loads the counters it logs with their reset values. *)
LEMMA CheckReloads ==
  ASSUME NEW m \in X86, NEW c, NEW r \in Resets, NEW run, NEW h \in Hardware,
         NEW j \in Counters
  PROVE  /\ CheckCtrs(m, c, r, run, h).prog = h.prog
         /\ CheckCtrs(m, c, r, run, h).over \subseteq h.over
         /\ CheckCtrs(m, c, r, run, h).period[j] =
              IF j \in Logged(m, c, r, run, h) THEN r[j] ELSE h.period[j]
         /\ j \in Logged(m, c, r, run, h) =>
              (j \in CheckCtrs(m, c, r, run, h).over <=> X86Over(r[j]))
         /\ r[j] # 0 => j \in CheckCtrs(m, c, r, run, h).gate
<1> DEFINE logged  == Logged(m, c, r, run, h)
           after   == CheckCtrs(m, c, r, run, h)
           stopped == Gate(h, {})
           loaded  == X86Load(stopped, logged, r)
           ready   == IF m = "athlon" THEN loaded ELSE Unmask(loaded)
<1>2. logged \in SUBSET Counters /\ logged \subseteq h.over
  BY X86Logs DEF Hardware
<1>3. after = StartCtrs(m, c, r, ready)
  BY DEF X86, CheckCtrs, StartCtrs, Logged, ppro_check_ctrs, athlon_check_ctrs, p4_check_ctrs,
      ppro_start, ppro_stop, athlon_start, athlon_stop, p4_start, p4_stop
<1>4. /\ stopped \in Hardware /\ stopped.prog = h.prog
      /\ stopped.over = h.over /\ stopped.period = h.period
  BY GateKeeps, GateCounters
<1> HIDE DEF logged, stopped
<1>a. /\ loaded \in Hardware
      /\ loaded.prog = stopped.prog
      /\ \A k \in logged : loaded.period[k] = r[k]
      /\ \A k \in Counters \ logged : loaded.period[k] = stopped.period[k]
      /\ \A k \in logged : k \in loaded.over <=> X86Over(r[k])
      /\ \A k \in Counters \ logged : k \in loaded.over <=> k \in stopped.over
  BY <1>2, <1>4, X86LoadCounters
<1> HIDE DEF loaded
<1>5. /\ loaded \in Hardware
      /\ loaded.prog = h.prog
      /\ \A k \in logged : loaded.period[k] = r[k]
      /\ \A k \in Counters \ logged : loaded.period[k] = h.period[k]
      /\ \A k \in logged : k \in loaded.over <=> X86Over(r[k])
      /\ \A k \in Counters \ logged : k \in loaded.over <=> k \in h.over
  BY <1>4, <1>a
<1>6. /\ ready \in Hardware /\ ready.prog = loaded.prog
      /\ ready.over = loaded.over /\ ready.period = loaded.period
  BY <1>5, GateKeeps, GateCounters
<1> HIDE DEF ready, after
<1>7. /\ after.over = ready.over /\ after.period = ready.period
      /\ \A k \in Counters : r[k] # 0 => k \in after.gate
  BY <1>3, <1>6, StartOpens
<1>8. SameEvents(after, ready)
  BY <1>3, <1>6, StartEvents
<1>9. loaded.over \subseteq Counters
  BY <1>5 DEF Hardware
<1>10. loaded.over \subseteq h.over
  BY <1>2, <1>5, <1>9
<1> QED
  BY <1>2, <1>5, <1>6, <1>7, <1>8, <1>10 DEF SameEvents, logged, after

(* On powerpc start() and handle_interrupt() zero some counters and load   *)
(* others.                                                                 *)
LEMMA PowerPCStarts ==
  ASSUME NEW m \in PowerPC, NEW c \in Configs, NEW r \in Resets, NEW h \in Hardware,
         \A k \in Enabled(c) : r[k] = c[k].count
  PROVE  LET after == StartCtrs(m, c, r, h)
         IN  /\ \A k \in Enabled(c) : after.period[k] = c[k].count
             /\ \A k \in Enabled(c) : c[k].count # 0 /\ k \in after.over => PowerPCOver(c[k].count)
             /\ \A k \in Counters : k \in after.gate
             /\ \A k \in Enabled(c) : m = "rs64" \/ k \in h.prog => k \in after.prog
<1> DEFINE sel   == IF m = "power4" THEN {k \in Enabled(c) : c[k].count # 0} ELSE Enabled(c)
           rest  == Counters \ sel
           empty == Zero(h, rest)
           ready == PowerPCLoad(empty, sel, r)
           named == IF m = "rs64" THEN [ready EXCEPT !.prog = @ \cup sel] ELSE ready
<1>1. StartCtrs(m, c, r, h) = Gate(named, Counters)
  BY DEF PowerPC, StartCtrs, power4_start, fsl7450_start, pmc_start_ctrs, rs64_start
<1>2. /\ sel \in SUBSET Counters /\ Counters \ sel \in SUBSET Counters
      /\ sel \subseteq Enabled(c) /\ Enabled(c) \subseteq Counters
      /\ \A k \in Enabled(c) : k \in sel \/ c[k].count = 0
      /\ m = "rs64" => sel = Enabled(c)
  BY EnabledAreCounters
<1> HIDE DEF sel
<1>9. rest \in SUBSET Counters /\ \A k \in Counters : k \in rest <=> k \notin sel
  OBVIOUS
<1> HIDE DEF rest
<1>8. /\ empty \in Hardware /\ empty.prog = h.prog /\ empty.over = h.over \ rest
      /\ \A k \in rest : empty.period[k] = 0
      /\ \A k \in Counters \ rest : empty.period[k] = h.period[k]
  BY <1>2, <1>9, ZeroCounters
<1> HIDE DEF empty
<1>3. /\ ready \in Hardware /\ ready.prog = empty.prog
      /\ \A k \in sel : ready.period[k] = r[k]
      /\ \A k \in Counters \ sel : ready.period[k] = empty.period[k]
      /\ \A k \in sel : k \in ready.over <=> PowerPCOver(r[k])
      /\ \A k \in Counters \ sel : k \in ready.over <=> k \in empty.over
  BY <1>2, <1>9, <1>8, PowerPCLoadCounters
<1> HIDE DEF ready
<1>4. /\ named \in Hardware /\ named.over = ready.over /\ named.period = ready.period
      /\ named.prog = IF m = "rs64" THEN h.prog \cup sel ELSE h.prog
  BY <1>2, <1>3, <1>8 DEF Hardware
<1> HIDE DEF named
<1>5. /\ Gate(named, Counters).prog = named.prog /\ Gate(named, Counters).over = named.over
      /\ Gate(named, Counters).period = named.period /\ Gate(named, Counters).gate = Counters
  BY <1>4, GateCounters
<1>6. \A k \in Enabled(c) : ready.period[k] = c[k].count
  BY <1>2, <1>3, <1>8, <1>9
<1>7. \A k \in Enabled(c) : c[k].count # 0 /\ k \in ready.over => PowerPCOver(c[k].count)
  BY <1>2, <1>3
<1>10. \A k \in Enabled(c) : m = "rs64" \/ k \in h.prog => k \in named.prog
  BY <1>2, <1>4
<1> QED
  BY <1>1, <1>4, <1>5, <1>6, <1>7, <1>10

LEMMA PowerPCReloads ==
  ASSUME NEW m \in PowerPC, NEW c \in Configs, NEW r \in Resets, NEW run \in BOOLEAN,
         NEW h \in Hardware, \A k \in Enabled(c) : r[k] = c[k].count
  PROVE  LET logged == Logged(m, c, r, run, h)
             after  == CheckCtrs(m, c, r, run, h)
         IN  /\ logged \subseteq Enabled(c)
             /\ logged # {} => run \/ m = "rs64"
             /\ run \/ m = "rs64" =>
                  \A k \in Enabled(c) : h.period[k] = c[k].count => after.period[k] = c[k].count
             /\ \A k \in Enabled(c) : c[k].count # 0 /\ k \in after.over => PowerPCOver(c[k].count)
             /\ after.gate = Counters /\ after.prog = h.prog
<1> DEFINE logged == Logged(m, c, r, run, h)
           after  == CheckCtrs(m, c, r, run, h)
           mode   == IF m = "power4" THEN {k \in Enabled(c) : run /\ c[k].count = 0} ELSE {}
           zeroed == mode \cup (h.over \ logged)
           empty  == Zero(h, zeroed)
           ready  == PowerPCLoad(empty, logged, r)
<1>1. after = Gate(ready, Counters)
  <2>1. CASE m = "power4"
    BY <2>1 DEF CheckCtrs, Logged, power4_handle_interrupt
  <2>2. CASE m = "7450"
    <3>1. zeroed = h.over \ Fsl7450Logged(c, run, h) /\ logged = Fsl7450Logged(c, run, h)
      BY <2>2 DEF Logged
    <3> QED
      BY <2>2, <3>1 DEF CheckCtrs, fsl7450_handle_interrupt, pmc_start_ctrs
  <2>3. CASE m = "rs64"
    <3>1. zeroed = h.over \ Rs64Logged(c, h) /\ logged = Rs64Logged(c, h)
      BY <2>3 DEF Logged
    <3> QED
      BY <2>3, <3>1 DEF CheckCtrs, rs64_handle_interrupt
  <2> QED
    BY <2>1, <2>2, <2>3 DEF PowerPC
<1>2. /\ logged \subseteq Enabled(c) /\ logged \subseteq h.over
      /\ logged # {} => run \/ m = "rs64"
      /\ run \/ m = "rs64" => \A k \in Enabled(c) \cap h.over : k \in logged \/ c[k].count = 0
  BY DEF PowerPC, Logged, Power4Logged, Fsl7450Logged, Rs64Logged
<1>3. mode \subseteq Enabled(c) /\ \A k \in mode : c[k].count = 0
  OBVIOUS
<1>4. /\ logged \in SUBSET Counters /\ zeroed \in SUBSET Counters /\ Enabled(c) \subseteq Counters
  BY <1>2, <1>3, EnabledAreCounters DEF Hardware
<1>5. zeroed \subseteq mode \cup (h.over \ logged) /\ h.over \ logged \subseteq zeroed
  OBVIOUS
<1> HIDE DEF logged, zeroed, mode
<1>10. /\ empty \in Hardware /\ empty.prog = h.prog /\ empty.over = h.over \ zeroed
       /\ \A k \in zeroed : empty.period[k] = 0
  BY <1>4, ZeroCounters
<1>11. \A k \in Counters \ zeroed : empty.period[k] = h.period[k]
  BY <1>4, ZeroCounters
<1> HIDE DEF empty
<1>6. /\ ready \in Hardware /\ ready.prog = empty.prog
      /\ \A k \in logged : ready.period[k] = r[k]
      /\ \A k \in Counters \ logged : ready.period[k] = empty.period[k]
      /\ \A k \in logged : k \in ready.over <=> PowerPCOver(r[k])
      /\ \A k \in Counters \ logged : k \in ready.over <=> k \in empty.over
  BY <1>4, <1>10, PowerPCLoadCounters
<1> HIDE DEF ready, after
<1>7. /\ after.prog = ready.prog /\ after.over = ready.over
      /\ after.period = ready.period /\ after.gate = Counters
  BY <1>1, <1>6, GateCounters
<1>8. ASSUME run \/ m = "rs64", NEW k \in Enabled(c), h.period[k] = c[k].count
      PROVE  ready.period[k] = c[k].count
  <2>1. CASE k \in logged
    BY <1>6, <2>1
  <2>2. CASE k \in zeroed \ logged
    BY <1>2, <1>3, <1>4, <1>5, <1>6, <1>8, <1>10, <2>2
  <2>3. CASE k \notin zeroed \cup logged
    <3>1. k \in Counters
      BY <1>4
    <3>2. ready.period[k] = empty.period[k]
      BY <1>6, <2>3, <3>1
    <3>3. empty.period[k] = h.period[k]
      BY <1>11, <2>3, <3>1
    <3> QED
      BY <1>8, <3>2, <3>3
  <2> QED
    BY <2>1, <2>2, <2>3
<1>9. ASSUME NEW k \in Enabled(c), k \in ready.over PROVE PowerPCOver(c[k].count)
  BY <1>4, <1>5, <1>6, <1>9, <1>10
<1> QED
  BY <1>2, <1>6, <1>7, <1>8, <1>9, <1>10 DEF logged, after

-----------------------------------------------------------------------------
(* The control thread adapts what is started; powerpc neither adapts nor   *)
(* suspends; only a sleeping machine resumes.                              *)
PowerPCPlain ==
  model \in PowerPC =>
    /\ ~nmi_enabled /\ ~asleep /\ ~adapting /\ ~Happened({"slept", "resumed"})
    /\ section \notin {"save", "decay", "adapt"}

Flags ==
  /\ adapting => started
  /\ section \in {"decay", "adapt"} => adapting /\ ~running
  /\ asleep \/ Happened({"resumed"}) => Happened({"slept"})
  /\ Happened({"raced"}) => Happened({"reconfigured"})
  /\ PowerPCPlain

LEMMA FlagsKept == ASSUME Types, ControlInv, Flags, [Next]_vars PROVE Flags'
<1> USE DEF machine, configVars, controlVars, stateVars, idleVars, cpuVars, midVars, Enter, Leave, Done, Happened
<1>0. \/ model \in X86 /\ model \notin PowerPC
      \/ model \in PowerPC /\ model \notin X86
  BY DEF Types, TypeOK, X86, PowerPC
<1> USE DEF Flags, PowerPCPlain
<1>1. CASE BeginSetup
  BY <1>0, <1>1 DEF BeginSetup
<1>2. CASE EndSave \/ EndSetup
  <2>1. model \in PowerPC => ~nmi_enabled'
    BY <1>0, <1>2, Zenon DEF EndSave, EndSetup
  <2>2. /\ UNCHANGED << machine, adapting, started, asleep, history >>
        /\ section' \in {"setup", "none"}
    BY <1>2 DEF EndSave, EndSetup
  <2> QED
    BY <2>1, <2>2
<1>3. CASE BeginStart \/ BeginStop
  BY <1>3 DEF BeginStart, BeginStop, EnterStart, Note
<1>4. CASE EndStart \/ EndStop \/ CannotAdapt \/ EndAdapt
  BY <1>4 DEF EndStart, EndStop, CannotAdapt, EndAdapt, EnterStart
<1>5. CASE BeginAdapt
  BY <1>0, <1>5 DEF BeginAdapt
<1>6. CASE CanAdapt
  BY <1>6 DEF CanAdapt
<1>7. CASE Decay
  BY <1>7 DEF Decay
<1>8. CASE BeginShutdown
  BY <1>8 DEF BeginShutdown
<1>9. CASE EndShutdown
  BY <1>9 DEF EndShutdown
<1>10. CASE Suspend
  BY <1>10 DEF Suspend, Note
<1>11. CASE Resume
  BY <1>11 DEF Resume, EnterStart, Note
<1>12. CASE IdlePollWrite
  BY <1>12 DEF IdlePollWrite
<1>13. ASSUME NEW c \in CPUs, HandlerOnCpu(c) PROVE Flags'
  <2>1. /\ UNCHANGED << machine, section, adapting, started, asleep, nmi_enabled, history >>
        /\ section \in {"decay", "adapt"} => (running' => running)
    BY <1>13 DEF HandlerOnCpu, SaveRegisters, SetupCpu, ShutdownCpu, StartMark, StartCpu, StopCpu,
        StopMark, StopCounter
  <2> QED
    BY <2>1
<1>14. ASSUME NEW c \in CPUs, Interrupt(c) PROVE Flags'
  <2>1. /\ UNCHANGED << machine, section, adapting, started, asleep, nmi_enabled, running >>
        /\ history' \subseteq history \cup {"late", "restarted"}
        /\ history \subseteq history'
    BY <1>14 DEF Interrupt, NmiUnclaimed, NmiEnter, NmiCheck, NmiStop, PmcInterrupt, Take, Handled, Note
  <2> QED
    BY <2>1
<1>15. ASSUME NEW c \in CPUs, NEW k \in Counters, Count(c, k) PROVE Flags'
  BY <1>15 DEF Count
<1>16. ASSUME NEW k \in Counters, Configure(k) PROVE Flags'
  <2>1. /\ UNCHANGED << machine, section, adapting, started, asleep, nmi_enabled, running >>
        /\ history' = history \cup {f \in {"reconfigured"} : is_setup}
                              \cup {f \in {"raced"} : section = "decay"}
    BY <1>16 DEF Configure
  <2>2. section = "decay" => is_setup
    BY DEF ControlInv, Control
  <2> QED
    BY <2>1, <2>2
<1>17. CASE UNCHANGED vars
  BY <1>17 DEF vars
<1> QED
  BY <1>1, <1>2, <1>3, <1>4, <1>5, <1>6, <1>7, <1>8, <1>9, <1>10, <1>11, <1>12, <1>13, <1>14,
     <1>15, <1>16, <1>17 DEF Next, EndOfSection

LEMMA FlagsInvariant == Spec => []Flags
<1>1. Init => Flags
  BY DEF Init, Flags, PowerPCPlain, Happened
<1> QED
  BY <1>1, FlagsKept, TypesInvariant, ControlInvariant, PTL DEF Spec

(* In a session, and until the last of its NMIs has returned, each count   *)
(* is what the user asked for, times the interval announced last, times    *)
(* the factor while an adapt is under way.                                 *)
InSession == started \/ section = "start" \/ \E c \in CPUs : nmi[c] = "check"

CountsAnnounced ==
  InSession =>
    \A k \in Enabled(config) :
      config[k].count = IF section = "adapt" THEN asked[k] * adapt_value * Factor
                        ELSE asked[k] * adapt_value

AnnouncedUnlessTold == Happened({"reconfigured", "decayed", "resumed"}) \/ CountsAnnounced

LEMMA ProductAssociates ==
  ASSUME NEW a \in Nat, NEW b \in Nat, NEW f \in Nat PROVE a * b * f = a * (b * f)
OBVIOUS

LEMMA AnnouncedKept ==
  ASSUME Types, Mid, RestUnlessResumed, ControlInv, Flags, AnnouncedUnlessTold, [Next]_vars
  PROVE  AnnouncedUnlessTold'
<1> SUFFICES ASSUME CountsAnnounced, ~Happened({"reconfigured", "decayed", "resumed"})'
             PROVE  CountsAnnounced'
  BY HistoryGrows DEF AnnouncedUnlessTold, Happened
<1> USE DEF machine, configVars, controlVars, stateVars, idleVars, cpuVars, midVars, Enter, Leave, Done, Happened
<1>1. ASSUME UNCHANGED << config, asked, adapt_value >>,
             InSession' => InSession,
             section' = "adapt" <=> section = "adapt"
      PROVE  CountsAnnounced'
  BY <1>1 DEF CountsAnnounced, Enabled
<1>2. CASE BeginStart
  <2>1. /\ adapt_value' = 1 /\ UNCHANGED << config, asked >> /\ section' = "start"
        /\ \A k \in Counters : config[k].enabled => config[k].count = asked[k]
    BY <1>2 DEF BeginStart, EnterStart, Note
  <2>2. \A k \in Counters : asked[k] \in Nat
    BY DEF Types, TypeOK
  <2> QED
    BY <2>1, <2>2 DEF CountsAnnounced, Enabled
<1>3. CASE Decay
  <2>1. /\ section = "decay" /\ section' = "adapt" /\ InSession
        /\ UNCHANGED << asked, adapt_value >>
    BY <1>3 DEF Decay, Flags, InSession
  <2>2. ASSUME NEW k \in Enabled(config)'
        PROVE  k \in Enabled(config) /\ config'[k].count = config[k].count * Factor
    <3>1. /\ k \in Counters /\ config'[k].enabled
          /\ config[k] \in [enabled : BOOLEAN, count : Nat, bound : SUBSET CPUs]
          /\ config'[k] = IF config[k].enabled THEN [config[k] EXCEPT !.count = @ * Factor]
                          ELSE config[k]
      BY <1>3 DEF Decay, Enabled, Types, TypeOK
    <3> QED
      BY <3>1 DEF Enabled
  <2> QED
    BY <2>1, <2>2 DEF CountsAnnounced
<1>4. CASE EndAdapt
  <2>1. /\ section = "adapt" /\ section' = "start" /\ InSession
        /\ adapt_value' = adapt_value * Factor /\ UNCHANGED << config, asked >>
    BY <1>4 DEF EndAdapt, EnterStart, Flags, InSession
  <2>2. ASSUME NEW k \in Enabled(config) PROVE config[k].count = asked[k] * adapt_value'
    <3>1. asked[k] \in Nat /\ adapt_value \in Nat /\ Factor \in Nat
      BY SessionAssumption DEF Types, TypeOK, Enabled
    <3>2. config[k].count = asked[k] * adapt_value * Factor
      BY <2>1 DEF CountsAnnounced
    <3> QED
      BY <2>1, <3>1, <3>2, ProductAssociates
  <2> QED
    BY <2>1, <2>2 DEF CountsAnnounced, Enabled
<1>5. CASE BeginSetup \/ BeginStop \/ BeginAdapt \/ BeginShutdown
  BY <1>1, <1>5 DEF BeginSetup, BeginStop, BeginAdapt, BeginShutdown, InSession
<1>6. CASE EndSave \/ EndSetup \/ EndStart \/ EndStop \/ EndShutdown
  BY <1>1, <1>6 DEF EndSave, EndSetup, EndStart, EndStop, EndShutdown, InSession
<1>7. CASE CanAdapt \/ CannotAdapt
  BY <1>1, <1>7 DEF CanAdapt, CannotAdapt, EnterStart, Flags, InSession
<1>8. CASE Suspend \/ IdlePollWrite
  BY <1>1, <1>8 DEF Suspend, IdlePollWrite, InSession
<1>9. CASE Resume
  <2>1. started
    BY <1>9 DEF Resume, Note
  <2> QED
    BY <1>1, <1>9, <2>1 DEF Resume, EnterStart, InSession
<1>10. ASSUME NEW c \in CPUs, HandlerOnCpu(c) PROVE CountsAnnounced'
  <2>1. UNCHANGED << config, asked, adapt_value, section, started, nmi >>
    BY <1>10 DEF HandlerOnCpu, SaveRegisters, SetupCpu, ShutdownCpu, StartMark, StartCpu, StopCpu,
        StopMark, StopCounter
  <2> QED
    BY <1>1, <2>1 DEF InSession
<1>11. ASSUME NEW c \in CPUs, Interrupt(c) \/ (\E k \in Counters : Count(c, k))
       PROVE  CountsAnnounced'
  <2>1. UNCHANGED << config, asked, adapt_value, section, started >>
    BY <1>11 DEF Interrupt, NmiUnclaimed, NmiEnter, NmiCheck, NmiStop, PmcInterrupt, Take, Count
  <2>2. ASSUME NEW d \in CPUs, nmi'[d] = "check" PROVE InSession
    <3>1. nmi[d] = "check" \/ running
      BY <1>11, <2>2 DEF Interrupt, NmiUnclaimed, NmiEnter, NmiCheck, NmiStop, PmcInterrupt, Take,
         Count, Types, TypeOK
    <3>2. running => started \/ section = "start"
      BY HistoryGrows DEF RestUnlessResumed, Rest
    <3> QED
      BY <3>1, <3>2 DEF InSession
  <2> QED
    BY <1>1, <2>1, <2>2 DEF InSession
<1>12. ASSUME NEW k \in Counters, Configure(k) PROVE CountsAnnounced'
  <2>1. ~is_setup /\ UNCHANGED << section, started, nmi >>
    BY <1>12 DEF Configure
  <2> QED
    BY <2>1 DEF ControlInv, Control, Mid, CountsAnnounced, InSession
<1>13. CASE UNCHANGED vars
  BY <1>1, <1>13 DEF vars, InSession
<1> QED
  BY <1>2, <1>3, <1>4, <1>5, <1>6, <1>7, <1>8, <1>9, <1>10, <1>11, <1>12, <1>13
  DEF Next, EndOfSection

LEMMA AnnouncedInvariant == Spec => []AnnouncedUnlessTold
<1>1. Init => AnnouncedUnlessTold
  BY DEF Init, AnnouncedUnlessTold, CountsAnnounced, InSession
<1> QED
  BY <1>1, AnnouncedKept, TypesInvariant, MidInvariant, RestInvariant, ControlInvariant, FlagsInvariant, PTL DEF Spec

(* p4_setup_ctrs() leaves the registers of a CPU without its PMC.          *)
Unprogrammed(h) == h.prog = {} /\ h.over = {}

NoPmc == \A c \in CPUs \ pmc : Unprogrammed(hw[c]) /\ Unprogrammed(saved[c])

(* A step that leaves the registers of all CPUs, or changes those of one.  *)
LEMMA NoPmcElsewhere ==
  ASSUME NoPmc, pmc' = pmc, saved' = saved,
         \A c \in CPUs \ pmc : \/ hw'[c] = hw[c]
                               \/ hw'[c].prog = hw[c].prog /\ hw'[c].over \subseteq hw[c].over
  PROVE  NoPmc'
BY DEF NoPmc, Unprogrammed

LEMMA NoPmcKept == ASSUME Types, Mid, NoPmc, [Next]_vars PROVE NoPmc'
<1> USE DEF machine, configVars, controlVars, stateVars, idleVars, cpuVars, midVars
<1>0. /\ hw \in [CPUs -> Hardware] /\ saved \in [CPUs -> Hardware] /\ reset_value \in Resets
      /\ config \in Configs /\ passed \in [CPUs -> SUBSET Counters]
      /\ model \in X86 \cup PowerPC /\ (model # "p4" => pmc = CPUs)
  BY DEF Types, TypeOK, Resets, Configs
<1>1. CASE UNCHANGED << pmc, hw, saved >>
  BY <1>1, NoPmcElsewhere
<1>2. CASE \/ BeginSetup \/ BeginStart \/ BeginStop \/ BeginAdapt \/ BeginShutdown \/ Resume
           \/ IdlePollWrite
  BY <1>1, <1>2 DEF BeginSetup, BeginStart, BeginStop, BeginAdapt, BeginShutdown, Resume,
     IdlePollWrite
<1>3. CASE EndOfSection
  BY <1>1, <1>3 DEF EndOfSection, EndSave, EndSetup, EndStart, EndStop, CanAdapt, CannotAdapt,
     Decay, EndAdapt, EndShutdown
<1>4. CASE Suspend
  BY <1>4 DEF Suspend, NoPmc, Unprogrammed, PowerOn
<1>5. ASSUME NEW c \in CPUs, SaveRegisters(c) \/ ShutdownCpu(c) PROVE NoPmc'
  BY <1>0, <1>5 DEF SaveRegisters, ShutdownCpu, NoPmc
<1>6. ASSUME NEW c \in CPUs, StartMark(c) \/ StopMark(c) PROVE NoPmc'
  BY <1>1, <1>6 DEF StartMark, StopMark
<1>7. ASSUME NEW c \in CPUs, SetupCpu(c) PROVE NoPmc'
  <2>1. UNCHANGED << pmc, saved >> /\ \A d \in CPUs \ {c} : hw'[d] = hw[d]
    BY <1>0, <1>7 DEF SetupCpu
  <2>2. ASSUME c \notin pmc PROVE hw'[c].prog = hw[c].prog /\ hw'[c].over = hw[c].over
    <3>1. model = "p4" /\ model \in X86 /\ hw[c] \in Hardware
      BY <1>0, <2>2 DEF X86
    <3>2. hw'[c] = [hw[c] EXCEPT !.lvtpc = IF section = "setup" THEN "nmi" ELSE @]
      BY <1>0, <1>7, <2>2, <3>1 DEF SetupCpu, setup_ctrs, p4_setup_ctrs
    <3> QED
      BY <3>1, <3>2 DEF Hardware
  <2> QED
    BY <2>1, <2>2, NoPmcElsewhere
<1>8. ASSUME NEW c \in CPUs, StartCpu(c) PROVE NoPmc'
  <2>1. /\ UNCHANGED << pmc, saved >> /\ \A d \in CPUs \ {c} : hw'[d] = hw[d]
        /\ hw'[c] = StartCtrs(model, config, reset_value, hw[c])
    BY <1>0, <1>8 DEF StartCpu
  <2>2. ASSUME c \notin pmc PROVE hw'[c].prog = hw[c].prog /\ hw'[c].over = hw[c].over
    <3>1. model \in X86 /\ hw[c] \in Hardware
      BY <1>0, <2>2 DEF X86
    <3>2. StartCtrs(model, config, reset_value, hw[c]).prog = hw[c].prog
      BY <3>1, StartEvents DEF SameEvents
    <3>3. StartCtrs(model, config, reset_value, hw[c]).over = hw[c].over
      BY <1>0, <3>1, StartOpens
    <3> QED
      BY <2>1, <3>2, <3>3
  <2> QED
    BY <2>1, <2>2, NoPmcElsewhere
<1>9. ASSUME NEW c \in CPUs, StopCpu(c) \/ (\E k \in Counters : StopCounter(c, k)) PROVE NoPmc'
  <2>1. /\ UNCHANGED << pmc, saved >> /\ \A d \in CPUs \ {c} : hw'[d] = hw[d]
        /\ hw'[c] = StopLast(model, passed[c], hw[c]) \/ \E k \in Counters : hw'[c] = StopOne(k, hw[c])
    BY <1>0, <1>9 DEF StopCpu, StopCounter
  <2>2. hw'[c].prog = hw[c].prog /\ hw'[c].over = hw[c].over
    <3>1. model \in X86 \cup PowerPC /\ hw[c] \in Hardware
      BY <1>0 DEF X86
    <3>2. ASSUME NEW k
          PROVE  /\ StopLast(model, passed[c], hw[c]).prog = hw[c].prog
                 /\ StopLast(model, passed[c], hw[c]).over = hw[c].over
                 /\ StopOne(k, hw[c]).prog = hw[c].prog /\ StopOne(k, hw[c]).over = hw[c].over
      BY <3>1, StopLoopCloses
    <3> QED
      BY <2>1, <3>2
  <2> QED
    BY <2>1, <2>2, NoPmcElsewhere
<1>10. ASSUME NEW c \in CPUs, Interrupt(c) PROVE NoPmc'
  <2>1. /\ UNCHANGED << pmc, saved >> /\ \A d \in CPUs \ {c} : hw'[d] = hw[d]
        /\ \/ hw'[c] = hw[c]
           \/ hw'[c] = StopCtrs(model, hw[c])
           \/ hw'[c] = CheckCtrs(model, config, reset_value, running, hw[c])
    BY <1>0, <1>10 DEF Interrupt, NmiUnclaimed, NmiEnter, NmiCheck, NmiStop, PmcInterrupt, Take,
       Handled
  <2>2. ASSUME c \notin pmc PROVE hw'[c].prog = hw[c].prog /\ hw'[c].over \subseteq hw[c].over
    <3>1. model \in X86 /\ hw[c] \in Hardware
      BY <1>0, <2>2 DEF X86
    <3>3. PICK j \in Counters : TRUE
      BY CountersAssumption
    <3>2. /\ CheckCtrs(model, config, reset_value, running, hw[c]).prog = hw[c].prog
          /\ CheckCtrs(model, config, reset_value, running, hw[c]).over \subseteq hw[c].over
      BY <1>0, <3>1, <3>3, CheckReloads
    <3> QED
      BY <2>1, <3>1, <3>2, StopCloses
  <2> QED
    BY <2>1, <2>2, NoPmcElsewhere
<1>11. ASSUME NEW c \in CPUs, NEW k \in Counters, Count(c, k) PROVE NoPmc'
  <2>1. UNCHANGED << pmc, saved >> /\ \A d \in CPUs \ {c} : hw'[d] = hw[d]
    BY <1>0, <1>11 DEF Count
  <2>2. k \in hw[c].prog
    BY <1>11 DEF Count, Counting
  <2>3. c \in pmc
    BY <2>2 DEF NoPmc, Unprogrammed
  <2> QED
    BY <2>1, <2>3, NoPmcElsewhere
<1>12. ASSUME NEW k \in Counters, Configure(k) PROVE NoPmc'
  BY <1>1, <1>12 DEF Configure
<1>13. CASE UNCHANGED vars
  BY <1>1, <1>13 DEF vars
<1> QED
  BY <1>2, <1>3, <1>4, <1>5, <1>6, <1>7, <1>8, <1>9, <1>10, <1>11, <1>12, <1>13
  DEF Next, HandlerOnCpu

LEMMA NoPmcInvariant == Spec => []NoPmc
<1>1. Init => NoPmc
  BY DEF Init, NoPmc, Unprogrammed, PowerOn
<1> QED
  BY <1>1, NoPmcKept, TypesInvariant, MidInvariant, PTL DEF Spec

(* reset_value follows the counts as soon as one CPU that has a PMC has    *)
(* been set up; while it does not, a P4 knows which counters are disabled. *)
ResetsKnown ==
  /\ is_setup /\ section # "save" /\ pmc # {}
  /\ model \in X86 /\ section \in {"setup", "adapt"} => ~(pmc \subseteq todo)

ResetsClear(c) == model = "p4" => \A k \in Counters \ Enabled(c) : reset_value[k] = 0

ResetsAre(c) == ResetsClear(c) /\ \A k \in Enabled(c) : reset_value[k] = c[k].count

ResetsFollow ==
  Happened({"reconfigured"})
    \/ /\ ResetsKnown => ResetsAre(config)
       /\ section = "adapt" /\ pmc # {} => ResetsClear(config)

LEMMA ResetsKept ==
  ASSUME Types, ControlInv, Flags, ResetsFollow, ~Happened({"reconfigured"})', ResetsKnown',
         [Next]_vars
  PROVE  ResetsAre(config)'
<1> SUFFICES ASSUME ResetsKnown => ResetsAre(config)
             PROVE  ResetsAre(config)'
  BY HistoryGrows DEF ResetsFollow, Happened
<1> USE DEF ResetsClear
<1> USE DEF machine, configVars, controlVars, stateVars, idleVars, cpuVars, midVars, Enter, Leave, Done, Happened
<1>0. /\ todo \subseteq CPUs /\ pmc \subseteq CPUs
      /\ model \in PowerPC => model # "p4" /\ model \notin X86
      /\ model \in X86 \/ model \in PowerPC
  <2>1. model \in X86 \cup PowerPC
    BY DEF Types, TypeOK
  <2> QED
    BY <2>1 DEF X86, PowerPC, Types, TypeOK
<1>1. CASE UNCHANGED << machine, config, reset_value >> /\ ResetsKnown
  BY <1>1 DEF ResetsAre, Enabled
<1>2. CASE BeginSetup
  <2>1. model \in PowerPC
    BY <1>0, <1>2 DEF BeginSetup, ResetsKnown
  <2>2. reset_value' = Periods(config) /\ UNCHANGED << machine, config >>
    BY <1>0, <1>2, <2>1 DEF BeginSetup, PowerPC, reg_setup, power4_reg_setup, fsl7450_reg_setup,
        rs64_reg_setup
  <2>3. \A k \in Counters : reset_value'[k] = config[k].count
    BY <2>2 DEF Periods
  <2> QED
    BY <1>0, <2>1, <2>2, <2>3, EnabledAreCounters DEF ResetsAre
<1>3. ASSUME NEW c \in CPUs, SetupCpu(c) PROVE ResetsAre(config)'
  <2>1. CASE model \in X86 /\ c \in pmc
    <3> DEFINE done == setup_ctrs(model, config, c \in pmc, Bound(c), reset_value, hw[c])
    <3>1. reset_value' = done.reset /\ UNCHANGED << machine, config >>
      BY <1>3, <2>1 DEF SetupCpu
    <3>2. config \in Configs /\ reset_value \in Resets /\ hw[c] \in Hardware
      BY DEF Types, TypeOK, Configs, Resets
    <3>3. /\ \A k \in Enabled(config) : done.reset[k] = config[k].count
          /\ model = "p4" => \A k \in Counters \ Enabled(config) : done.reset[k] = 0
      BY <2>1, <3>2, SetupResets
    <3> HIDE DEF done
    <3> QED
      BY <3>1, <3>3 DEF ResetsAre
  <2>2. CASE model \notin X86
    <3>1. UNCHANGED << machine, config, reset_value, is_setup, section >>
      BY <1>3, <2>2 DEF SetupCpu
    <3> QED
      BY <1>1, <2>2, <3>1 DEF ResetsKnown
  <2>3. CASE model \in X86 /\ c \notin pmc
    <3>1. model = "p4"
      BY <2>3 DEF Types, TypeOK
    <3>2. reset_value' = reset_value
      BY <1>3, <2>3, <3>1 DEF SetupCpu, setup_ctrs, p4_setup_ctrs
    <3>3. UNCHANGED << machine, config, is_setup, section >> /\ todo' = todo \ {c}
      BY <1>3 DEF SetupCpu
    <3> QED
      BY <1>1, <2>3, <3>2, <3>3 DEF ResetsKnown
  <2> QED
    BY <2>1, <2>2, <2>3
<1>4. CASE EndSave \/ EndSetup \/ EndAdapt
  <2>1. CASE EndSave
    BY <1>0, <2>1 DEF EndSave, ResetsKnown, Flags, PowerPCPlain
  <2>2. CASE EndSetup \/ EndAdapt
    BY <1>0, <1>1, <2>2 DEF EndSetup, EndAdapt, EnterStart, ResetsKnown
  <2> QED
    BY <1>4, <2>1, <2>2
<1>5. CASE BeginStart \/ BeginStop \/ BeginAdapt \/ BeginShutdown
  BY <1>1, <1>5 DEF BeginStart, BeginStop, BeginAdapt, BeginShutdown, EnterStart, ResetsKnown
<1>6. CASE EndStart \/ EndStop \/ CanAdapt \/ CannotAdapt \/ EndShutdown
  BY <1>1, <1>6 DEF EndStart, EndStop, CanAdapt, CannotAdapt, EndShutdown, EnterStart, ResetsKnown
<1>7. CASE Decay
  BY <1>0, <1>7 DEF Decay, ResetsKnown, Flags, PowerPCPlain
<1>8. CASE Suspend \/ Resume \/ IdlePollWrite
  BY <1>1, <1>8 DEF Suspend, Resume, IdlePollWrite, EnterStart, ResetsKnown
<1>9. ASSUME NEW c \in CPUs,
             \/ SaveRegisters(c) \/ ShutdownCpu(c) \/ StartMark(c) \/ StartCpu(c) \/ StopCpu(c)
             \/ StopMark(c) \/ (\E k \in Counters : StopCounter(c, k))
      PROVE  ResetsAre(config)'
  <2>1. /\ UNCHANGED << machine, config, reset_value, is_setup, section >>
        /\ section \notin {"setup", "adapt"}
    BY <1>9 DEF SaveRegisters, ShutdownCpu, StartMark, StartCpu, StopCpu, StopMark,
       StopCounter
  <2> QED
    BY <1>1, <2>1 DEF ResetsKnown
<1>10. ASSUME NEW c \in CPUs, Interrupt(c) \/ (\E k \in Counters : Count(c, k))
       PROVE  ResetsAre(config)'
  <2>1. UNCHANGED << machine, config, reset_value, is_setup, section, todo >>
    BY <1>10 DEF Interrupt, NmiUnclaimed, NmiEnter, NmiCheck, NmiStop, PmcInterrupt, Take, Count
  <2> QED
    BY <1>1, <2>1 DEF ResetsKnown
<1>11. ASSUME NEW k \in Counters, Configure(k) PROVE FALSE
  BY <1>11 DEF Configure, ResetsKnown
<1>12. CASE UNCHANGED vars
  BY <1>1, <1>12 DEF vars, ResetsKnown
<1> QED
  BY <1>2, <1>3, <1>4, <1>5, <1>6, <1>7, <1>8, <1>9, <1>10, <1>11, <1>12
  DEF Next, EndOfSection, HandlerOnCpu

LEMMA ClearKept ==
  ASSUME Types, ControlInv, Flags, ResetsFollow, ~Happened({"reconfigured"})', (section = "adapt")',
         pmc # {}, [Next]_vars
  PROVE  ResetsClear(config)'
<1> USE DEF machine, configVars, controlVars, stateVars, idleVars, cpuVars, midVars, Enter, Leave
<1>0. ~Happened({"reconfigured"})
  BY HistoryGrows DEF Happened
<1>1. CASE /\ UNCHANGED << machine, config, reset_value, section >>
  BY <1>0, <1>1 DEF ResetsFollow, ResetsClear, Enabled
<1>2. ASSUME NEW c \in CPUs, SetupCpu(c) PROVE ResetsClear(config)'
  <2>1. section = "adapt" /\ UNCHANGED << machine, config >>
    BY <1>2 DEF SetupCpu
  <2>2. ResetsClear(config)
    BY <1>0, <2>1 DEF ResetsFollow
  <2>3. CASE model = "p4" /\ c \in pmc
    <3>1. /\ config \in Configs /\ reset_value \in Resets /\ hw[c] \in Hardware
          /\ model \in X86
      BY <2>3 DEF Types, TypeOK, Configs, Resets, X86
    <3>2. reset_value' = setup_ctrs(model, config, c \in pmc, Bound(c), reset_value, hw[c]).reset
      BY <1>2, <3>1 DEF SetupCpu
    <3>3. \A k \in Counters \ Enabled(config) :
            setup_ctrs(model, config, c \in pmc, Bound(c), reset_value, hw[c]).reset[k] = 0
      BY <2>3, <3>1, SetupResets
    <3> QED
      BY <2>1, <3>2, <3>3 DEF ResetsClear, Enabled
  <2>4. CASE model = "p4" /\ c \notin pmc
    <3>1. reset_value' = reset_value
      BY <1>2, <2>4 DEF SetupCpu, setup_ctrs, p4_setup_ctrs, X86
    <3> QED
      BY <2>1, <2>2, <3>1 DEF ResetsClear, Enabled
  <2> QED
    BY <2>1, <2>3, <2>4 DEF ResetsClear
<1>3. CASE Decay
  <2>1. ResetsAre(config)
    BY <1>0, <1>3 DEF Decay, ResetsFollow, ResetsKnown, ControlInv, Control
  <2>2. \A k \in Counters : config'[k].enabled <=> config[k].enabled
    BY <1>3 DEF Decay, Types, TypeOK
  <2>3. UNCHANGED << machine, reset_value >>
    BY <1>3 DEF Decay
  <2> QED
    BY <2>1, <2>2, <2>3 DEF ResetsAre, ResetsClear, Enabled
<1>4. CASE BeginSetup \/ BeginStart \/ BeginStop \/ BeginAdapt \/ BeginShutdown \/ Suspend \/ Resume
  BY <1>4 DEF BeginSetup, BeginStart, BeginStop, BeginAdapt, BeginShutdown, Suspend, Resume,
     EnterStart
<1>5. CASE \/ EndSave \/ EndSetup \/ EndStart \/ EndStop \/ CanAdapt \/ CannotAdapt \/ EndAdapt
           \/ EndShutdown
  BY <1>5 DEF EndSave, EndSetup, EndStart, EndStop, CanAdapt, CannotAdapt, EndAdapt, EndShutdown,
     EnterStart
<1>6. ASSUME NEW c \in CPUs,
             \/ SaveRegisters(c) \/ ShutdownCpu(c) \/ StartMark(c) \/ StartCpu(c) \/ StopCpu(c)
             \/ StopMark(c) \/ (\E k \in Counters : StopCounter(c, k))
      PROVE  ResetsClear(config)'
  BY <1>1, <1>6 DEF SaveRegisters, ShutdownCpu, StartMark, StartCpu, StopCpu, StopMark, StopCounter
<1>7. ASSUME NEW c \in CPUs, Interrupt(c) \/ (\E k \in Counters : Count(c, k))
      PROVE  ResetsClear(config)'
  BY <1>1, <1>7 DEF Interrupt, NmiUnclaimed, NmiEnter, NmiCheck, NmiStop, PmcInterrupt, Take, Count
<1>8. ASSUME NEW k \in Counters, Configure(k) PROVE ResetsClear(config)'
  BY <1>8 DEF Configure, Happened, ControlInv, Control
<1>9. CASE IdlePollWrite \/ UNCHANGED vars
  BY <1>1, <1>9 DEF IdlePollWrite, vars
<1> QED
  BY <1>2, <1>3, <1>4, <1>5, <1>6, <1>7, <1>8, <1>9 DEF Next, EndOfSection, HandlerOnCpu

LEMMA ResetsInvariant == Spec => []ResetsFollow
<1>1. Init => ResetsFollow
  BY DEF Init, ResetsFollow, ResetsKnown
<1>2. Types /\ ControlInv /\ Flags /\ ResetsFollow /\ [Next]_vars => ResetsFollow'
  <2>1. ASSUME [Next]_vars PROVE pmc' = pmc
    BY <2>1, MachineIsFixed DEF machine
  <2> QED
    BY <2>1, ResetsKept, ClearKept DEF ResetsFollow
<1> QED
  BY <1>1, <1>2, TypesInvariant, ControlInvariant, FlagsInvariant, PTL DEF Spec

(* Until the machine sleeps all CPUs are on in a session.  On powerpc the  *)
(* first CPU that is on sets oprofile_running.                             *)
AllOn ==
  /\ section = "start" => on = CPUs \ todo
  /\ section = "none" /\ started => on = CPUs

OnInv ==
  /\ Happened({"slept"}) \/ AllOn
  /\ model \in PowerPC /\ section = "start" /\ on # {} => running

LEMMA OnKept ==
  ASSUME Types, RestUnlessResumed, ControlInv, Flags, OnInv, [Next]_vars PROVE OnInv'
<1> USE DEF machine, configVars, controlVars, stateVars, idleVars, cpuVars, midVars, Enter, Leave, Done, Happened
<1>0. on \subseteq CPUs /\ todo \subseteq CPUs /\ history \subseteq history'
  BY HistoryGrows DEF Types, TypeOK
<1>1. ~Happened({"slept"}) \/ model \in PowerPC => Rest
  BY DEF RestUnlessResumed, Flags, PowerPCPlain
<1>2. CASE UNCHANGED << machine, on >> /\ section' \notin {"start", "none"}
  BY <1>0, <1>2 DEF OnInv, AllOn
<1>3. CASE UNCHANGED << machine, on, section, todo, started, running >>
  BY <1>0, <1>3 DEF OnInv, AllOn
<1>4. CASE BeginStart \/ CannotAdapt \/ EndAdapt
  <2>1. /\ UNCHANGED << machine, on >> /\ section' = "start" /\ todo' = CPUs
        /\ \/ section = "none" /\ ~started
           \/ section = "stop" /\ todo = {}
           \/ section = "adapt"
    <3>1. CASE BeginStart
      BY <3>1 DEF BeginStart, EnterStart
    <3>2. CASE CannotAdapt
      BY <3>2 DEF CannotAdapt, EnterStart
    <3>3. CASE EndAdapt
      BY <3>3 DEF EndAdapt, EnterStart
    <3> QED
      BY <1>4, <3>1, <3>2, <3>3
  <2>2. Rest => on = {}
    <3>1. CASE section = "stop" \/ section = "adapt"
      BY <2>1, <3>1 DEF Rest
    <3>2. CASE section = "none" /\ ~started
      BY <3>2 DEF Rest
    <3> QED
      BY <2>1, <3>1, <3>2
  <2> QED
    BY <1>0, <1>1, <2>1, <2>2 DEF OnInv, AllOn
<1>5. CASE Resume
  BY <1>0, <1>5 DEF Resume, Flags, PowerPCPlain, OnInv
<1>6. ASSUME NEW c \in CPUs, StartCpu(c) PROVE OnInv'
  <2>1. /\ on' = on \cup {c} /\ todo' = todo \ {c} /\ section = "start" /\ running' = TRUE
        /\ UNCHANGED << machine, section >>
    BY <1>6 DEF StartCpu
  <2> QED
    BY <1>0, <2>1 DEF OnInv, AllOn
<1>7. CASE EndStart
  <2>1. UNCHANGED << machine, on >> /\ section = "start" /\ todo = {} /\ section' = "none"
    BY <1>7 DEF EndStart
  <2> QED
    BY <1>0, <2>1 DEF OnInv, AllOn
<1>8. CASE EndSetup \/ EndShutdown
  <2>1. /\ UNCHANGED << machine, on, started >> /\ section \in {"setup", "shutdown"}
        /\ section' = "none"
    BY <1>8 DEF EndSetup, EndShutdown
  <2> QED
    BY <1>0, <2>1 DEF OnInv, AllOn, ControlInv, Control
<1>9. CASE EndStop
  <2>1. /\ UNCHANGED << machine, on >> /\ section' = "none" /\ started' = (started /\ asleep)
    BY <1>9 DEF EndStop
  <2>2. Happened({"slept"}) \/ ~started'
    BY <2>1 DEF Flags
  <2> QED
    BY <1>0, <2>1, <2>2 DEF OnInv, AllOn
<1>10. CASE BeginSetup \/ EndSave \/ BeginStop \/ BeginAdapt \/ BeginShutdown \/ CanAdapt \/ Decay
  <2>1. UNCHANGED << machine, on >> /\ section' \notin {"start", "none"}
    BY <1>10 DEF BeginSetup, EndSave, BeginStop, BeginAdapt, BeginShutdown, CanAdapt, Decay
  <2> QED
    BY <1>2, <2>1
<1>11. CASE Suspend
  <2>1. "slept" \in history' /\ section' = "stop"
    BY <1>11 DEF Suspend, Note
  <2> QED
    BY <2>1 DEF OnInv
<1>12. ASSUME NEW c \in CPUs,
              \/ SaveRegisters(c) \/ SetupCpu(c) \/ ShutdownCpu(c) \/ StopCpu(c) \/ StopMark(c)
              \/ \E k \in Counters : StopCounter(c, k)
       PROVE  OnInv'
  <2>1. section' = section /\ section \notin {"start", "none"}
    <3>1. section # "none"
      BY <1>12 DEF SaveRegisters, SetupCpu, ShutdownCpu, StopCpu, StopMark, StopCounter
    <3> QED
      BY <1>12, <3>1 DEF SaveRegisters, SetupCpu, ShutdownCpu, StopCpu, StopMark, StopCounter
  <2> QED
    BY <2>1 DEF OnInv, AllOn
<1>13. ASSUME NEW c \in CPUs, StartMark(c) \/ Interrupt(c) \/ (\E k \in Counters : Count(c, k))
       PROVE  OnInv'
  <2>1. UNCHANGED << machine, on, section, todo, started, running >>
    BY <1>13 DEF StartMark, Interrupt, NmiUnclaimed, NmiEnter, NmiCheck, NmiStop, PmcInterrupt, Take, Count
  <2> QED
    BY <1>3, <2>1
<1>14. CASE IdlePollWrite \/ (\E k \in Counters : Configure(k)) \/ UNCHANGED vars
  BY <1>3, <1>14 DEF IdlePollWrite, Configure, vars
<1> QED
  BY <1>4, <1>5, <1>6, <1>7, <1>8, <1>9, <1>10, <1>11, <1>12, <1>13, <1>14
  DEF Next, EndOfSection, HandlerOnCpu

LEMMA OnInvariant == Spec => []OnInv
<1>1. Init => OnInv
  BY DEF Init, OnInv, AllOn
<1> QED
  BY <1>1, OnKept, TypesInvariant, RestInvariant, ControlInvariant, FlagsInvariant, PTL DEF Spec

-----------------------------------------------------------------------------
(* The periods the counters of a CPU were loaded with.                     *)
SetUp(c) ==
  /\ is_setup /\ section # "save"
  /\ section = "setup" => c \notin todo
  /\ section = "shutdown" => c \in todo

Loaded(c) == SetUp(c) /\ (section = "adapt" => c \notin todo)

(* On x86 the counters that may overflow, and those that have, are enabled *)
(* and were loaded with their count.                                       *)
Counted(m, conf, h) ==
  /\ h.prog \subseteq Enabled(conf)
  /\ m # "p4" => h.over \subseteq Enabled(conf)
  /\ \A k \in Enabled(conf) : k \in h.prog \cup h.over => h.period[k] = conf[k].count

X86Period(c) == Loaded(c) => Counted(model, config, hw[c])

(* On powerpc an interrupt after oprofile_running is cleared spoils them.  *)
PowerPCPeriod(c) ==
  c \in on /\ (running \/ model = "rs64") =>
    \A k \in Enabled(config) : hw[c].period[k] = config[k].count

PeriodInv ==
  Happened({"reconfigured"})
    \/ \A c \in CPUs : IF model \in X86 THEN X86Period(c) ELSE PowerPCPeriod(c)

LEMMA CheckIsCounted ==
  ASSUME NEW m \in X86, NEW c \in Configs, NEW r \in Resets, NEW run, NEW h \in Hardware,
         Counted(m, c, h), \A k \in Enabled(c) : r[k] = c[k].count
  PROVE  Counted(m, c, CheckCtrs(m, c, r, run, h))
<1> DEFINE logged == Logged(m, c, r, run, h)
           after  == CheckCtrs(m, c, r, run, h)
<1>1. after.prog = h.prog /\ after.over \subseteq h.over
  BY CheckReloads, CountersAssumption
<1>2. \A k \in Counters : after.period[k] = IF k \in logged THEN r[k] ELSE h.period[k]
  BY CheckReloads
<1>4. Enabled(c) \subseteq Counters
  BY EnabledAreCounters
<1> HIDE DEF logged, after
<1>3. Counted(m, c, after)
  BY <1>1, <1>2, <1>4 DEF Counted
<1> QED
  BY <1>3 DEF after

(* A step that leaves the registers of a CPU.                              *)
LEMMA PeriodStays ==
  ASSUME NEW c \in CPUs, IF model \in X86 THEN X86Period(c) ELSE PowerPCPeriod(c),
         UNCHANGED << machine, config >>, hw'[c] = hw[c],
         model \in X86 => (Loaded(c)' => Loaded(c)),
         model \notin X86 /\ c \in on' => c \in on /\ (running' => running)
  PROVE  (IF model \in X86 THEN X86Period(c) ELSE PowerPCPeriod(c))'
BY DEF X86Period, PowerPCPeriod, Counted, Enabled, machine

LEMMA X86PeriodKept ==
  ASSUME Types, ControlInv, ResetsKnown => ResetsAre(config), NoPmc', model \in X86,
         NEW c \in CPUs, X86Period(c),
         HandlerOnCpu(c) \/ Interrupt(c) \/ (\E k \in Counters : Count(c, k))
  PROVE  X86Period(c)'
<1> USE DEF machine, configVars, controlVars, stateVars, idleVars, cpuVars, midVars
<1>0. /\ hw[c] \in Hardware /\ reset_value \in Resets /\ config \in Configs
      /\ model \notin PowerPC
  BY DEF Types, TypeOK, Resets, Configs, X86, PowerPC
<1>8. UNCHANGED machine
  BY DEF HandlerOnCpu, SaveRegisters, SetupCpu, ShutdownCpu, StartMark, StartCpu, StopCpu, StopMark,
     StopCounter, Interrupt, NmiUnclaimed, NmiEnter, NmiCheck, NmiStop, PmcInterrupt, Take, Count
<1>9. CASE c \notin pmc
  <2>1. hw'[c].prog = {} /\ hw'[c].over = {}
    BY <1>8, <1>9 DEF NoPmc, Unprogrammed
  <2> QED
    BY <2>1 DEF X86Period, Counted
<1>1. SUFFICES ASSUME Loaded(c)', c \in pmc PROVE Counted(model, config, hw[c])'
  BY <1>9 DEF X86Period
<1>2. CASE SetupCpu(c)
  <2> DEFINE done == setup_ctrs(model, config, c \in pmc, Bound(c), reset_value, hw[c])
             new  == [done.hw EXCEPT !.lvtpc = IF section = "setup" THEN "nmi" ELSE @]
  <2>7. done = FullSetup(model, config, Bound(c), reset_value, hw[c])
    BY <1>1 DEF X86, setup_ctrs, p4_setup_ctrs, FullSetup
  <2>5. done.hw.prog \subseteq Enabled(config)
    BY <1>0, <2>7, SetupNames
  <2>6. \A k \in Enabled(config) : done.hw.period[k] = config[k].count
    BY <1>0, <2>7, SetupPeriods
  <2>4. model # "p4" => done.hw.over \subseteq Enabled(config)
    BY <1>0, <2>7, SetupOverflows
  <2>1. done.hw \in Hardware
    BY <1>0, SetupCtrsKeeps
  <2>2. hw'[c] = new /\ UNCHANGED << machine, config >>
    BY <1>2 DEF SetupCpu, Types, TypeOK
  <2> HIDE DEF done
  <2>3. new.prog = done.hw.prog /\ new.over = done.hw.over /\ new.period = done.hw.period
    BY <2>1 DEF Hardware
  <2> HIDE DEF new
  <2> QED
    BY <2>2, <2>3, <2>4, <2>5, <2>6 DEF Counted, Enabled
<1>3. CASE StartCpu(c) \/ StopCpu(c) \/ \E k \in Counters : StopCounter(c, k)
  <2>1. /\ UNCHANGED << machine, config, section, is_setup >> /\ section \in {"start", "stop"}
        /\ \/ hw'[c] = StartCtrs(model, config, reset_value, hw[c])
           \/ hw'[c] = StopLast(model, passed[c], hw[c])
           \/ \E k \in Counters : hw'[c] = StopOne(k, hw[c])
    BY <1>3 DEF StartCpu, StopCpu, StopCounter, Types, TypeOK
  <2>2. hw'[c].prog = hw[c].prog /\ hw'[c].over = hw[c].over /\ hw'[c].period = hw[c].period
    <3>1. CASE hw'[c] = StartCtrs(model, config, reset_value, hw[c])
      <4>1. /\ StartCtrs(model, config, reset_value, hw[c]).over = hw[c].over
            /\ StartCtrs(model, config, reset_value, hw[c]).period = hw[c].period
        <5>1. model \in X86 /\ reset_value \in Resets /\ hw[c] \in Hardware
          BY <1>0
        <5> QED
          BY <5>1, StartOpens
      <4>2. StartCtrs(model, config, reset_value, hw[c]).prog = hw[c].prog
        BY <1>0, StartEvents DEF SameEvents
      <4> QED
        BY <3>1, <4>1, <4>2
    <3>2. CASE \/ hw'[c] = StopLast(model, passed[c], hw[c])
               \/ \E k \in Counters : hw'[c] = StopOne(k, hw[c])
      BY <1>0, <3>2, StopLoopCloses
    <3> QED
      BY <2>1, <3>1, <3>2
  <2>3. Loaded(c)
    BY <1>1, <2>1 DEF Loaded, SetUp
  <2> QED
    BY <2>1, <2>2, <2>3 DEF X86Period, Counted, Enabled
<1>4. CASE StartMark(c) \/ StopMark(c)
  <2>1. UNCHANGED << machine, config, section, is_setup, hw >> /\ section \in {"start", "stop"}
    BY <1>4 DEF StartMark, StopMark
  <2>2. Loaded(c)
    BY <1>1, <2>1 DEF Loaded, SetUp
  <2> QED
    BY <2>1, <2>2 DEF X86Period, Counted, Enabled
<1>5. CASE SaveRegisters(c) \/ ShutdownCpu(c)
  BY <1>1, <1>5 DEF SaveRegisters, ShutdownCpu, Loaded, SetUp
<1>6. CASE Interrupt(c)
  <2>1. /\ UNCHANGED << machine, config, section, is_setup, todo >>
        /\ \/ hw'[c] = hw[c]
           \/ hw'[c] = StopCtrs(model, hw[c])
           \/ hw'[c] = CheckCtrs(model, config, reset_value, running, hw[c])
    BY <1>0, <1>6 DEF Interrupt, NmiUnclaimed, NmiEnter, NmiCheck, NmiStop, PmcInterrupt, Take, Handled, Types,
       TypeOK
  <2>2. Loaded(c) /\ ResetsKnown
    BY <1>1, <2>1 DEF Loaded, SetUp, ResetsKnown
  <2>3. Counted(model, config, hw[c]) /\ \A k \in Enabled(config) : reset_value[k] = config[k].count
    BY <2>2 DEF X86Period, ResetsAre
  <2>4. StopCtrs(model, hw[c]).prog = hw[c].prog /\ StopCtrs(model, hw[c]).over = hw[c].over
        /\ StopCtrs(model, hw[c]).period = hw[c].period
    BY <1>0, StopCloses
  <2>5. Counted(model, config, StopCtrs(model, hw[c]))
    BY <2>3, <2>4 DEF Counted
  <2>6. Counted(model, config, CheckCtrs(model, config, reset_value, running, hw[c]))
    BY <1>0, <2>3, CheckIsCounted
  <2>7. Counted(model, config, hw'[c])
    BY <2>1, <2>3, <2>5, <2>6
  <2> QED
    BY <2>1, <2>7 DEF Counted, Enabled
<1>7. ASSUME NEW k \in Counters, Count(c, k) PROVE Counted(model, config, hw[c])'
  <2>1. UNCHANGED << machine, config, section, is_setup, todo >> /\ k \in hw[c].prog
    BY <1>7 DEF Count, Counting
  <2>3. /\ hw'[c].over = hw[c].over \cup {k}
        /\ hw'[c].prog = hw[c].prog /\ hw'[c].period = hw[c].period
    BY <1>0, <1>7 DEF Count, Types, TypeOK, Hardware
  <2>2. Loaded(c)
    BY <1>1, <2>1 DEF Loaded, SetUp
  <2> QED
    BY <2>1, <2>2, <2>3 DEF X86Period, Counted, Enabled
<1> QED
  BY <1>2, <1>3, <1>4, <1>5, <1>6, <1>7 DEF HandlerOnCpu

LEMMA PowerPCPeriodKept ==
  ASSUME Types, Mid, ControlInv, Flags, ResetsKnown => ResetsAre(config), model \in PowerPC,
         NEW c \in CPUs, PowerPCPeriod(c),
         HandlerOnCpu(c) \/ Interrupt(c) \/ (\E k \in Counters : Count(c, k))
  PROVE  PowerPCPeriod(c)'
<1> USE DEF machine, configVars, controlVars, stateVars, idleVars, cpuVars, midVars
<1>0. /\ hw[c] \in Hardware /\ reset_value \in Resets /\ config \in Configs
      /\ running \in BOOLEAN /\ model \notin X86
  BY DEF Types, TypeOK, Resets, Configs, X86, PowerPC
<1>1. ResetsKnown => \A k \in Enabled(config) : reset_value[k] = config[k].count
  BY DEF ResetsAre
<1>2. CASE SetupCpu(c)
  <2>1. /\ hw'[c] = cpu_setup(model, config, hw[c])
        /\ UNCHANGED << machine, config, running, on >>
    BY <1>0, <1>2 DEF SetupCpu, Types, TypeOK
  <2>2. \E K : hw'[c] = Program(hw[c], K)
    BY <2>1 DEF PowerPC, cpu_setup, power4_cpu_setup, fsl7450_cpu_setup, rs64_cpu_setup
  <2>3. hw'[c].period = hw[c].period
    BY <1>0, <2>2, GateCounters
  <2> QED
    BY <2>1, <2>3 DEF PowerPCPeriod, Enabled
<1>3. CASE StartCpu(c)
  <2>1. /\ hw'[c] = StartCtrs(model, config, reset_value, hw[c]) /\ section = "start"
        /\ UNCHANGED << machine, config >>
    BY <1>3 DEF StartCpu, Types, TypeOK
  <2>2. ResetsKnown
    BY <1>0, <2>1 DEF ResetsKnown, ControlInv, Control, Types, TypeOK, PowerPC
  <2>3. \A k \in Enabled(config) :
          StartCtrs(model, config, reset_value, hw[c]).period[k] = config[k].count
    BY <1>0, <1>1, <2>2, PowerPCStarts
  <2> QED
    BY <2>1, <2>3 DEF PowerPCPeriod, Enabled
<1>4. CASE StopCpu(c) \/ ShutdownCpu(c)
  <2>1. c \notin on'
    BY <1>4 DEF StopCpu, ShutdownCpu
  <2> QED
    BY <2>1 DEF PowerPCPeriod
<1>8. ASSUME NEW k \in Counters, StopCounter(c, k) PROVE FALSE
  BY <1>8 DEF StopCounter, Loops, PowerPC
<1>5. CASE SaveRegisters(c) \/ StartMark(c) \/ StopMark(c)
  <2>1. UNCHANGED << machine, config, hw, running, on >>
    BY <1>5 DEF SaveRegisters, StartMark, StopMark
  <2> QED
    BY <2>1 DEF PowerPCPeriod, Enabled
<1>6. CASE Interrupt(c)
  <2>1. /\ UNCHANGED << machine, config, running, on >>
        /\ hw'[c] = IF is_setup THEN CheckCtrs(model, config, reset_value, running, hw[c])
                    ELSE hw[c]
    BY <1>0, <1>6 DEF Mid, Interrupt, NmiUnclaimed, NmiEnter, NmiCheck, NmiStop, PmcInterrupt, Take, Handled, Types,
       TypeOK
  <2>2. CASE is_setup
    <3> DEFINE after == CheckCtrs(model, config, reset_value, running, hw[c])
    <3>1. ResetsKnown
      BY <1>0, <2>2 DEF ResetsKnown, Flags, PowerPCPlain, Types, TypeOK, PowerPC
    <3>2. running \/ model = "rs64" =>
            \A k \in Enabled(config) :
              hw[c].period[k] = config[k].count => after.period[k] = config[k].count
      BY <1>0, <1>1, <3>1, PowerPCReloads
    <3> HIDE DEF after
    <3>3. hw'[c] = after
      BY <2>1, <2>2 DEF after
    <3> QED
      BY <2>1, <3>2, <3>3 DEF PowerPCPeriod, Enabled
  <2>3. CASE ~is_setup
    BY <2>1, <2>3 DEF PowerPCPeriod, Enabled
  <2> QED
    BY <2>2, <2>3
<1>7. ASSUME NEW k \in Counters, Count(c, k) PROVE PowerPCPeriod(c)'
  <2>1. UNCHANGED << machine, config, running, on >> /\ hw'[c].period = hw[c].period
    BY <1>0, <1>7 DEF Count, Types, TypeOK, Hardware
  <2> QED
    BY <2>1 DEF PowerPCPeriod, Enabled
<1> QED
  BY <1>2, <1>3, <1>4, <1>5, <1>6, <1>7, <1>8 DEF HandlerOnCpu

(* What one CPU does leaves the periods of the others.                     *)
LEMMA PeriodElsewhere ==
  ASSUME Types, OnInv, NEW c \in CPUs, NEW d \in CPUs, c # d,
         HandlerOnCpu(c) \/ Interrupt(c) \/ (\E k \in Counters : Count(c, k)),
         IF model \in X86 THEN X86Period(d) ELSE PowerPCPeriod(d)
  PROVE  (IF model \in X86 THEN X86Period(d) ELSE PowerPCPeriod(d))'
<1> USE DEF machine, configVars, controlVars, stateVars, idleVars, cpuVars, midVars
<1>1. CASE HandlerOnCpu(c)
  <2>1. UNCHANGED << machine, config, section, is_setup >> /\ hw'[d] = hw[d]
    BY <1>1 DEF HandlerOnCpu, SaveRegisters, SetupCpu, ShutdownCpu, StartMark, StartCpu,
        StopCpu, StopMark, StopCounter, Types, TypeOK
  <2>2. (d \in todo' <=> d \in todo) /\ (d \in on' <=> d \in on)
    BY <1>1 DEF HandlerOnCpu, SaveRegisters, SetupCpu, ShutdownCpu, StartMark, StartCpu,
        StopCpu, StopMark, StopCounter
  <2>3. (running' => running) \/ StartCpu(c)
    BY <1>1 DEF HandlerOnCpu, SaveRegisters, SetupCpu, ShutdownCpu, StartMark, StopCpu, StopMark,
        StopCounter
  <2>4. StartCpu(c) /\ model \notin X86 /\ d \in on => running
    BY DEF StartCpu, OnInv, Types, TypeOK
  <2> QED
    BY <2>1, <2>2, <2>3, <2>4, PeriodStays DEF Loaded, SetUp
<1>2. CASE Interrupt(c) \/ (\E k \in Counters : Count(c, k))
  <2>1. /\ UNCHANGED << machine, config, section, is_setup, todo, on, running >> /\ hw'[d] = hw[d]
    BY <1>2 DEF Interrupt, NmiUnclaimed, NmiEnter, NmiCheck, NmiStop, PmcInterrupt, Take, Handled, Count, Types,
       TypeOK
  <2> QED
    BY <2>1, PeriodStays DEF Loaded, SetUp
<1> QED
  BY <1>1, <1>2

LEMMA PeriodKept ==
  ASSUME Types, Mid, RestUnlessResumed, ControlInv, Flags, ResetsFollow, NoPmc, OnInv, PeriodInv,
         [Next]_vars
  PROVE  PeriodInv'
<1> SUFFICES ASSUME ~Happened({"reconfigured"}), ~Happened({"reconfigured"})', NEW c \in CPUs,
                    IF model \in X86 THEN X86Period(c) ELSE PowerPCPeriod(c)
             PROVE  (IF model \in X86 THEN X86Period(c) ELSE PowerPCPeriod(c))'
  BY HistoryGrows DEF PeriodInv, Happened
<1> USE DEF machine, configVars, controlVars, stateVars, idleVars, cpuVars, midVars, Enter, Leave, Done
<1>0. \/ model \in X86 /\ model \notin PowerPC
      \/ model \in PowerPC /\ model \notin X86
  BY DEF Types, TypeOK, X86, PowerPC
<1>1. ASSUME NEW d \in CPUs,
             HandlerOnCpu(d) \/ Interrupt(d) \/ (\E k \in Counters : Count(d, k))
      PROVE  (IF model \in X86 THEN X86Period(c) ELSE PowerPCPeriod(c))'
  <2>1. model' = model /\ (ResetsKnown => ResetsAre(config))
    BY <1>1 DEF HandlerOnCpu, SaveRegisters, SetupCpu, ShutdownCpu, StartMark, StartCpu, StopCpu,
        StopMark, StopCounter, Interrupt, NmiUnclaimed, NmiEnter, NmiCheck, NmiStop, PmcInterrupt,
        Take, Count, ResetsFollow
  <2>4. NoPmc'
    BY NoPmcKept
  <2>2. CASE c = d
    BY <1>0, <1>1, <2>1, <2>2, <2>4, X86PeriodKept, PowerPCPeriodKept
  <2>3. CASE c # d
    BY <1>1, <2>3, PeriodElsewhere
  <2> QED
    BY <2>2, <2>3
<1>2. CASE BeginSetup \/ EndSave \/ EndSetup
  <2>1. UNCHANGED << machine, config, hw, on >> /\ (model \notin X86 => running' = running)
    BY <1>2 DEF BeginSetup, EndSave, EndSetup
  <2>2. Loaded(c)' /\ model \in X86 => Loaded(c)
    <3>1. CASE BeginSetup
      BY <3>1 DEF BeginSetup, Loaded, SetUp
    <3>2. CASE EndSave \/ EndSetup
      BY <3>2 DEF EndSave, EndSetup, Loaded, SetUp
    <3> QED
      BY <1>2, <3>1, <3>2
  <2> QED
    BY <2>1, <2>2, PeriodStays
<1>3. CASE BeginStart \/ CannotAdapt \/ EndAdapt \/ Resume
  <2>1. /\ UNCHANGED << machine, config, hw, on, is_setup >> /\ section' = "start"
        /\ section \in {"none", "stop", "adapt"} /\ (section = "adapt" => todo = {})
        /\ running' = (running \/ model \in X86)
    <3>1. CASE BeginStart
      BY <3>1 DEF BeginStart, EnterStart
    <3>2. CASE CannotAdapt
      BY <3>2 DEF CannotAdapt, EnterStart
    <3>3. CASE EndAdapt
      BY <3>3 DEF EndAdapt, EnterStart
    <3>4. CASE Resume
      BY <3>4 DEF Resume, EnterStart
    <3> QED
      BY <1>3, <3>1, <3>2, <3>3, <3>4
  <2>2. Loaded(c)' => Loaded(c)
    BY <2>1 DEF Loaded, SetUp
  <2>3. model \notin X86 => (running' => running)
    BY <2>1
  <2> QED
    BY <2>1, <2>2, <2>3, PeriodStays
<1>4. CASE EndStart \/ BeginStop \/ EndStop \/ BeginAdapt \/ CanAdapt \/ BeginShutdown
  <2>1. /\ UNCHANGED << machine, config, hw, on, is_setup >> /\ (running' => running)
        /\ section \in {"none", "start", "stop"} /\ section' \in {"none", "stop", "decay", "shutdown"}
    BY <1>4 DEF EndStart, BeginStop, EndStop, BeginAdapt, CanAdapt, BeginShutdown
  <2> QED
    BY <2>1, PeriodStays DEF Loaded, SetUp
<1>5. CASE Decay
  <2>1. model \in X86
    BY <1>0, <1>5 DEF Decay, Flags, PowerPCPlain
  <2>2. model' = model /\ ~Loaded(c)'
    BY <1>5 DEF Decay, Loaded
  <2> QED
    BY <2>1, <2>2 DEF X86Period
<1>6. CASE EndShutdown
  <2>1. /\ UNCHANGED << machine, config, hw, on, running >> /\ is_setup' = FALSE
    BY <1>6 DEF EndShutdown
  <2> QED
    BY <2>1, PeriodStays DEF Loaded, SetUp
<1>7. CASE Suspend
  <2>1. model \in X86
    BY <1>0, <1>7 DEF Suspend, Flags, PowerPCPlain
  <2>2. /\ UNCHANGED << machine, config, is_setup >> /\ section = "none"
        /\ hw'[c] = IF c = Boot THEN hw[c] ELSE PowerOn
    BY <1>7 DEF Suspend
  <2>3. Loaded(c)' => Loaded(c)
    BY <2>2 DEF Suspend, Loaded, SetUp
  <2>4. Counted(model, config, PowerOn)
    BY DEF PowerOn, Counted
  <2> QED
    BY <2>1, <2>2, <2>3, <2>4 DEF X86Period, Counted, Enabled
<1>8. CASE IdlePollWrite \/ UNCHANGED vars
  <2>1. UNCHANGED << machine, config, hw, on, running, section, todo, is_setup >>
    BY <1>8 DEF IdlePollWrite, vars
  <2> QED
    BY <2>1, PeriodStays DEF Loaded, SetUp
<1>9. ASSUME NEW k \in Counters, Configure(k)
      PROVE  (IF model \in X86 THEN X86Period(c) ELSE PowerPCPeriod(c))'
  <2>1. /\ ~is_setup /\ UNCHANGED << machine, is_setup, on >>
    BY <1>9 DEF Configure, Happened
  <2>2. model \in PowerPC => on = {}
    BY <2>1 DEF RestUnlessResumed, Rest, Flags, PowerPCPlain, Happened
  <2> QED
    BY <1>0, <2>1, <2>2 DEF X86Period, PowerPCPeriod, Loaded, SetUp
<1> QED
  BY <1>1, <1>2, <1>3, <1>4, <1>5, <1>6, <1>7, <1>8, <1>9 DEF Next, EndOfSection

LEMMA PeriodInvariant == Spec => []PeriodInv
<1>1. Init => PeriodInv
  BY DEF Init, PeriodInv, X86Period, PowerPCPeriod, Loaded, SetUp
<1> QED
  BY <1>1, PeriodKept, TypesInvariant, MidInvariant, NoPmcInvariant, RestInvariant, ControlInvariant, FlagsInvariant,
     ResetsInvariant, OnInvariant, PTL DEF Spec

(* The check that an NMI began before nmi_adapt() logs counters that were  *)
(* loaded before it: its CPU has not been adapted yet.                     *)
CheckedBeforeAdapt(c) ==
  section = "adapt" /\ nmi[c] = "check" =>
    /\ c \in todo
    /\ hw[c].prog \subseteq Enabled(config)
    /\ model # "p4" => hw[c].over \subseteq Enabled(config)
    /\ \A k \in Enabled(config) :
         k \in hw[c].prog \cup hw[c].over => hw[c].period[k] = asked[k] * adapt_value

ChecksBeforeAdapt ==
  Happened({"reconfigured", "decayed", "resumed"}) \/ \A c \in CPUs : CheckedBeforeAdapt(c)

LEMMA ChecksKept ==
  ASSUME Types, ControlInv, Flags, AnnouncedUnlessTold, PeriodInv, ChecksBeforeAdapt, [Next]_vars
  PROVE  ChecksBeforeAdapt'
<1> SUFFICES ASSUME ~Happened({"reconfigured", "decayed", "resumed"}),
                    ~Happened({"reconfigured", "decayed", "resumed"})',
                    NEW c \in CPUs, section' = "adapt", nmi'[c] = "check", CheckedBeforeAdapt(c)
             PROVE  CheckedBeforeAdapt(c)'
  BY HistoryGrows DEF ChecksBeforeAdapt, CheckedBeforeAdapt, Happened
<1> USE DEF machine, configVars, controlVars, stateVars, idleVars, cpuVars, midVars, Enter, Leave
<1>1. CASE /\ UNCHANGED << machine, config, asked, adapt_value, section >>
           /\ hw'[c] = hw[c] /\ nmi'[c] = nmi[c] /\ (c \in todo => c \in todo')
  BY <1>1 DEF CheckedBeforeAdapt, Enabled
<1>2. CASE Decay
  <2>1. /\ section = "decay" /\ todo' = CPUs
        /\ UNCHANGED << machine, asked, adapt_value, hw, nmi, is_setup >>
    BY <1>2 DEF Decay
  <2>2. model \in X86 /\ is_setup
    BY <2>1 DEF Flags, PowerPCPlain, ControlInv, Control, Types, TypeOK
  <2>3. Counted(model, config, hw[c])
    BY <2>1, <2>2 DEF PeriodInv, X86Period, Loaded, SetUp, Happened
  <2>4. \A k \in Enabled(config) : config[k].count = asked[k] * adapt_value
    BY <2>1 DEF AnnouncedUnlessTold, CountsAnnounced, InSession
  <2>5. Enabled(config)' = Enabled(config)
    <3>1. \A k \in Counters : config'[k].enabled <=> config[k].enabled
      BY <1>2 DEF Decay, Types, TypeOK
    <3> QED
      BY <3>1 DEF Enabled
  <2> QED
    BY <2>1, <2>3, <2>4, <2>5 DEF CheckedBeforeAdapt, Counted
<1>3. CASE BeginSetup \/ BeginStart \/ BeginStop \/ BeginAdapt \/ BeginShutdown \/ Suspend \/ Resume
  BY <1>3 DEF BeginSetup, BeginStart, BeginStop, BeginAdapt, BeginShutdown, Suspend, Resume,
     EnterStart
<1>4. CASE \/ EndSave \/ EndSetup \/ EndStart \/ EndStop \/ CanAdapt \/ CannotAdapt \/ EndAdapt
           \/ EndShutdown
  BY <1>4 DEF EndSave, EndSetup, EndStart, EndStop, CanAdapt, CannotAdapt, EndAdapt, EndShutdown,
     EnterStart
<1>5. ASSUME NEW d \in CPUs, HandlerOnCpu(d) PROVE CheckedBeforeAdapt(c)'
  <2>1. /\ SetupCpu(d) /\ nmi[d] = "none" /\ section = "adapt"
    BY <1>5 DEF HandlerOnCpu, SaveRegisters, ShutdownCpu, StartMark, StartCpu, StopCpu, StopMark,
       StopCounter, SetupCpu
  <2>2. nmi' = nmi /\ c # d
    BY <2>1 DEF SetupCpu
  <2> QED
    BY <1>1, <2>1, <2>2 DEF SetupCpu, Types, TypeOK
<1>6. ASSUME NEW d \in CPUs, Interrupt(d) PROVE CheckedBeforeAdapt(c)'
  <2>1. UNCHANGED << machine, config, asked, adapt_value, section, todo >>
    BY <1>6 DEF Interrupt, NmiUnclaimed, NmiEnter, NmiCheck, NmiStop, PmcInterrupt, Take
  <2>2. ~running
    BY <2>1 DEF Flags
  <2>3. c # d
    BY <1>6, <2>2 DEF Interrupt, NmiUnclaimed, NmiEnter, NmiCheck, NmiStop, PmcInterrupt, Take,
       Types, TypeOK
  <2>4. hw'[c] = hw[c] /\ nmi'[c] = nmi[c]
    BY <1>6, <2>3 DEF Interrupt, NmiUnclaimed, NmiEnter, NmiCheck, NmiStop, PmcInterrupt, Take,
       Handled, Types, TypeOK
  <2> QED
    BY <1>1, <2>1, <2>4
<1>7. ASSUME NEW d \in CPUs, NEW k \in Counters, Count(d, k) PROVE CheckedBeforeAdapt(c)'
  <2>1. UNCHANGED << machine, config, asked, adapt_value, section, todo, nmi >>
    BY <1>7 DEF Count
  <2>2. CASE c # d
    BY <1>1, <1>7, <2>1, <2>2 DEF Count, Types, TypeOK
  <2>3. CASE c = d
    <3>1. /\ hw'[c].over = hw[c].over \cup {k} /\ k \in hw[c].prog
          /\ hw'[c].prog = hw[c].prog /\ hw'[c].period = hw[c].period
      BY <1>7, <2>3 DEF Count, Counting, Types, TypeOK, Hardware
    <3> QED
      BY <2>1, <3>1 DEF CheckedBeforeAdapt, Enabled
  <2> QED
    BY <2>2, <2>3
<1>8. ASSUME NEW k \in Counters, Configure(k) PROVE FALSE
  BY <1>8 DEF Configure, Happened, ControlInv, Control
<1>9. CASE IdlePollWrite \/ UNCHANGED vars
  BY <1>1, <1>9 DEF IdlePollWrite, vars
<1> QED
  BY <1>2, <1>3, <1>4, <1>5, <1>6, <1>7, <1>8, <1>9 DEF Next, EndOfSection

LEMMA ChecksInvariant == Spec => []ChecksBeforeAdapt
<1>1. Init => ChecksBeforeAdapt
  BY DEF Init, ChecksBeforeAdapt, CheckedBeforeAdapt
<1> QED
  BY <1>1, ChecksKept, TypesInvariant, ControlInvariant, FlagsInvariant, AnnouncedInvariant,
     PeriodInvariant, PTL DEF Spec

(* Every NMI that logs, late or not, logs counters that were loaded with   *)
(* the period announced ...                                                *)
LEMMA NmiLogsAnnounced ==
  ASSUME Types, Mid, X86Inv, ResetsFollow, NoPmc, AnnouncedUnlessTold, PeriodInv,
         ChecksBeforeAdapt, ~Happened({"reconfigured", "decayed", "resumed"}),
         NEW c \in CPUs, nmi[c] = "check", NEW k \in LoggedOn(c)
  PROVE  hw[c].period[k] = asked[k] * adapt_value
<1>1. /\ hw[c] \in Hardware /\ model \in X86 /\ is_setup
      /\ section \notin {"save", "setup"} /\ (section = "shutdown" => c \in todo)
  BY DEF Mid, X86Inv, CpuInv, CheckIsInSession, Bare, Happened, Types, TypeOK
<1>2. /\ k \in hw[c].over /\ k \in Counters /\ (model = "p4" => reset_value[k] # 0)
  BY <1>1, X86Logs DEF LoggedOn, Hardware
<1>3. c \in pmc
  BY <1>2 DEF NoPmc, Unprogrammed
<1>4. CountsAnnounced /\ X86Period(c) /\ CheckedBeforeAdapt(c)
  BY <1>1 DEF AnnouncedUnlessTold, PeriodInv, ChecksBeforeAdapt, Happened
<1>5. CASE section = "adapt"
  <2>1. ResetsClear(config)
    BY <1>3, <1>5 DEF ResetsFollow, Happened
  <2>2. k \in Enabled(config)
    BY <1>2, <1>4, <1>5, <2>1 DEF CheckedBeforeAdapt, ResetsClear
  <2> QED
    BY <1>2, <1>4, <1>5, <2>2 DEF CheckedBeforeAdapt
<1>6. CASE section # "adapt"
  <2>1. Counted(model, config, hw[c])
    BY <1>1, <1>4, <1>6 DEF X86Period, Loaded, SetUp
  <2>2. ResetsAre(config)
    BY <1>1, <1>3, <1>6 DEF ResetsFollow, ResetsKnown, Happened
  <2>3. k \in Enabled(config)
    BY <1>2, <2>1, <2>2 DEF Counted, ResetsAre, ResetsClear
  <2>4. hw[c].period[k] = config[k].count
    BY <1>2, <2>1, <2>3 DEF Counted
  <2> QED
    BY <1>4, <1>6, <2>3, <2>4 DEF CountsAnnounced, InSession
<1> QED
  BY <1>5, <1>6

(* ... and so does an interrupt of powerpc that comes in time.             *)
LEMMA PmcLogsAnnounced ==
  ASSUME Types, RestUnlessResumed, ControlInv, Flags, ResetsFollow, AnnouncedUnlessTold, PeriodInv,
         ~Happened({"reconfigured", "decayed", "resumed"}), model \in PowerPC, is_setup,
         NEW c \in on, NEW k \in LoggedOn(c)
  PROVE  hw[c].period[k] = asked[k] * adapt_value
<1>0. /\ c \in CPUs /\ hw[c] \in Hardware /\ reset_value \in Resets /\ config \in Configs
      /\ running \in BOOLEAN /\ model \notin X86 /\ pmc # {}
  BY DEF Types, TypeOK, Resets, Configs, X86, PowerPC
<1>1. Rest /\ CountsAnnounced /\ (ResetsKnown => ResetsAre(config)) /\ PowerPCPeriod(c)
  BY <1>0 DEF RestUnlessResumed, AnnouncedUnlessTold, ResetsFollow, PeriodInv, Happened
<1>2. /\ started \/ section = "start"
      /\ section \notin {"save", "adapt"}
  BY <1>1 DEF Rest, Flags, PowerPCPlain
<1>3. \A j \in Enabled(config) : reset_value[j] = config[j].count
  BY <1>0, <1>1, <1>2 DEF ResetsKnown, ResetsAre
<1>4. /\ LoggedOn(c) \subseteq Enabled(config)
      /\ running \/ model = "rs64"
  BY <1>0, <1>3, PowerPCReloads DEF LoggedOn
<1> QED
  BY <1>1, <1>2, <1>4 DEF PowerPCPeriod, CountsAnnounced, InSession

(* Every sample stands for the number of events that the user asked for    *)
(* times the interval announced last, through every adapt and on every     *)
(* model, but for the exceptions named.                                    *)
THEOREM PeriodsAreAnnounced == Spec => PeriodAsAnnounced
<1> DEFINE Worth(c) == \A k \in LoggedOn(c) : \/ hw[c].period[k] = asked[k] * adapt_value
                                              \/ model \in PowerPC /\ Happened({"late"})'
           Step == ~Happened({"reconfigured", "decayed", "resumed"})
                     => \A c \in CPUs : Handles(c) => Worth(c)
           Inv == /\ Types /\ Mid /\ RestUnlessResumed /\ ControlInv /\ X86Inv /\ Flags
                  /\ ResetsFollow /\ NoPmc /\ AnnouncedUnlessTold /\ PeriodInv /\ ChecksBeforeAdapt
<1>1. Inv /\ [Next]_vars => [Step]_vars
  <2> SUFFICES ASSUME Inv, [Next]_vars, ~Happened({"reconfigured", "decayed", "resumed"}),
                      NEW c \in CPUs, Handles(c), NEW k \in LoggedOn(c),
                      ~(model \in PowerPC /\ Happened({"late"})')
               PROVE  hw[c].period[k] = asked[k] * adapt_value
    OBVIOUS
  <2>1. CASE NmiCheck(c)
    BY <2>1, NmiLogsAnnounced DEF NmiCheck
  <2>2. CASE is_setup /\ PmcInterrupt(c)
    <3>1. model \in PowerPC /\ c \in on
      BY <2>2, HandlerIsLate DEF PmcInterrupt, Happened
    <3> QED
      BY <2>2, <3>1, PmcLogsAnnounced
  <2> QED
    BY <2>1, <2>2, HandlesWhen
<1>2. Spec => []Inv
  BY TypesInvariant, MidInvariant, RestInvariant, ControlInvariant, X86Invariant, FlagsInvariant,
     ResetsInvariant, NoPmcInvariant, AnnouncedInvariant, PeriodInvariant, ChecksInvariant, PTL
<1> QED
  BY <1>1, <1>2, PTL DEF Spec, PeriodAsAnnounced

-----------------------------------------------------------------------------
(* The counters that have their event on a CPU.                            *)
Held(c) == {k \in Enabled(config) : model = "p4" => c \in pmc /\ k \in Bound(c)}

(* Those of a CPU that is on count, or have overflowed and the interrupt   *)
(* is on its way or being handled.                                         *)
X86Live(c) ==
  /\ nmi[c] # "stop"
  /\ SetUp(c) =>
       /\ Held(c) \subseteq hw[c].prog
       /\ hw[c].lvtpc # "boot"
       /\ hw[c].lvtpc = "masked" => c \in pend \/ nmi[c] # "none"
       /\ c \in pend \/ nmi[c] # "none" \/ Granted(c) \cap hw[c].over = {}
       /\ c \in on /\ passed[c] = {} => Granted(c) \subseteq hw[c].gate

PowerPCLive(c) ==
  /\ SetUp(c) /\ model # "rs64" => Enabled(config) \subseteq hw[c].prog
  /\ c \in on =>
       /\ Enabled(config) \subseteq hw[c].prog
       /\ c \in pend \/ (Granted(c) \cap hw[c].over = {} /\ Granted(c) \subseteq hw[c].gate)

LiveInv ==
  Happened({"reconfigured", "slept", "late"})
    \/ \A c \in CPUs : IF model \in X86 THEN X86Live(c) ELSE PowerPCLive(c)

LEMMA GrantedIsBelow ==
  ASSUME Types, CountsFit, ~Happened({"raced"}), NEW c \in CPUs, NEW k \in Granted(c)
  PROVE  /\ k \in Held(c) /\ k \in Enabled(config) /\ k \in Counters /\ pmc # {}
         /\ config[k].count # 0
         /\ ~X86Over(config[k].count) /\ ~PowerPCOver(config[k].count)
<1>1. /\ k \in Enabled(config) /\ k \in Counters /\ config[k].count # 0 /\ k \in Held(c)
  BY DEF Granted, Held, Enabled
<1>2. config[k].count \in Nat /\ config[k].count < Top /\ Top \in Nat
  BY <1>1, CountersAssumption DEF Types, TypeOK, CountsFit, Happened
<1>3. config[k].count <= Top
  BY <1>2
<1>4. pmc # {}
  BY DEF Granted, Types, TypeOK
<1> QED
  BY <1>1, <1>2, <1>3, <1>4, LoadedIsBelow

(* The settings decide which counters these are.                           *)
LEMMA SameGranted ==
  ASSUME UNCHANGED << machine, config >>, NEW c
  PROVE  Held(c)' = Held(c) /\ Granted(c)' = Granted(c) /\ Enabled(config)' = Enabled(config)
BY DEF machine, Held, Granted, Bound, Enabled

LEMMA X86LiveKept ==
  ASSUME Types, Mid, Rest, ControlInv, Flags, X86Inv, CountsFit, ResetsKnown => ResetsAre(config),
         model \in X86, ~Happened({"reconfigured", "late"})', NEW c \in CPUs, X86Live(c),
         HandlerOnCpu(c) \/ Interrupt(c) \/ (\E k \in Counters : Count(c, k)),
         history \subseteq history'
  PROVE  X86Live(c)'
<1> USE DEF machine, configVars, controlVars, stateVars, idleVars, cpuVars, midVars
<1>0. /\ hw[c] \in Hardware /\ reset_value \in Resets /\ config \in Configs
      /\ model \notin PowerPC /\ (model = "athlon" => hw[c].lvtpc # "masked")
      /\ nmi \in [CPUs -> {"none", "check", "stop"}] /\ passed \in [CPUs -> SUBSET Counters]
      /\ hw \in [CPUs -> Hardware]
  BY DEF Types, TypeOK, Resets, Configs, X86, PowerPC, X86Inv, CpuInv
<1>a. UNCHANGED << machine, config >>
  BY DEF HandlerOnCpu, SaveRegisters, SetupCpu, ShutdownCpu, StartMark, StartCpu, StopCpu, StopMark,
     StopCounter, Interrupt, NmiUnclaimed, NmiEnter, NmiCheck, NmiStop, PmcInterrupt, Take, Count
<1>b. Held(c)' = Held(c) /\ Granted(c)' = Granted(c)
  BY <1>a, SameGranted
<1>c. nmi'[c] # "stop"
  <2>1. CASE NmiEnter(c)
    <3>1. c \in on
      BY <2>1 DEF NmiEnter, Note, Happened
    <3>2. running
      BY <3>1 DEF ControlInv, OnWhileRunning
    <3> QED
      BY <1>0, <2>1, <3>2 DEF NmiEnter
  <2>2. CASE ~NmiEnter(c)
    BY <1>0, <2>2 DEF HandlerOnCpu, SaveRegisters, SetupCpu, ShutdownCpu, StartMark, StartCpu,
       StopCpu, StopMark, StopCounter, Interrupt, NmiUnclaimed, NmiCheck, NmiStop, PmcInterrupt,
       Take, Count, X86Live
  <2> QED
    BY <2>1, <2>2
<1>d. hw'[c] \in Hardware
  BY TypesKept, <1>a DEF Types, TypeOK, Next
<1>1. SUFFICES ASSUME SetUp(c)'
               PROVE  /\ Held(c) \subseteq hw'[c].prog
                      /\ hw'[c].lvtpc # "boot"
                      /\ hw'[c].lvtpc = "masked" => c \in pend' \/ nmi'[c] # "none"
                      /\ c \in pend' \/ nmi'[c] # "none" \/ Granted(c) \cap hw'[c].over = {}
                      /\ c \in on' /\ passed'[c] = {} => Granted(c) \subseteq hw'[c].gate
  BY <1>b, <1>c DEF X86Live
<1>2. \A k \in Granted(c) : /\ k \in Held(c) /\ k \in Enabled(config) /\ k \in Counters
                            /\ pmc # {} /\ config[k].count # 0 /\ ~X86Over(config[k].count)
  BY GrantedIsBelow DEF Flags, Happened
<1>3. ResetsKnown => \A k \in Granted(c) : reset_value[k] = config[k].count
  BY <1>2 DEF ResetsAre
<1>4. CASE SetupCpu(c)
  <2> DEFINE done == setup_ctrs(model, config, c \in pmc, Bound(c), reset_value, hw[c])
             full == FullSetup(model, config, Bound(c), reset_value, hw[c])
             new  == [done.hw EXCEPT !.lvtpc = IF section = "setup" THEN "nmi" ELSE @]
  <2>1. done.hw \in Hardware /\ done.hw.lvtpc = hw[c].lvtpc
    <3>3. hw[c] \in Hardware /\ reset_value \in Resets /\ config \in Configs
      BY <1>0
    <3>1. done.hw \in Hardware
      BY <3>3, SetupCtrsKeeps
    <3>2. done.hw.lvtpc = hw[c].lvtpc
      BY <1>0, SetupEvents
    <3> HIDE DEF done
    <3> QED
      BY <3>1, <3>2
  <2>3. /\ hw'[c] = new /\ section \in {"setup", "adapt"}
        /\ UNCHANGED << section, is_setup, pend, on, nmi >>
    BY <1>4, <1>0 DEF SetupCpu
  <2>8. Held(c) \subseteq done.hw.prog /\ Granted(c) \cap done.hw.over = {}
    <3>1. CASE c \in pmc
      <4>1. done = full
        BY <3>1 DEF X86, setup_ctrs, p4_setup_ctrs, FullSetup
      <4>2. Held(c) \subseteq full.hw.prog
        <5>1. /\ Enabled(config) \cap Bound(c) \subseteq full.hw.prog
              /\ model # "p4" => Enabled(config) \subseteq full.hw.prog
          BY <1>0, SetupNames
        <5> HIDE DEF full
        <5> QED
          BY <5>1 DEF Held
      <4>3. \A k \in Enabled(config) : k \in full.hw.over <=> X86Over(config[k].count)
        BY <1>0, SetupOverflows
      <4> HIDE DEF done, full
      <4> QED
        BY <1>2, <4>1, <4>2, <4>3
    <3>2. CASE c \notin pmc
      <4>1. Held(c) = {}
        BY <3>2 DEF Held, Types, TypeOK
      <4> QED
        BY <1>2, <4>1
    <3> QED
      BY <3>1, <3>2
  <2> HIDE DEF done
  <2>4. /\ new.prog = done.hw.prog /\ new.over = done.hw.over
        /\ new.lvtpc = IF section = "setup" THEN "nmi" ELSE hw[c].lvtpc
    BY <2>1 DEF Hardware
  <2> HIDE DEF new
  <2>5. on = {}
    BY <1>0, <2>3 DEF Rest, ControlInv, OnWhileRunning, Control
  <2>6. section = "adapt" => SetUp(c)
    BY <2>3 DEF SetUp, ControlInv, Control
  <2> QED
    BY <2>3, <2>4, <2>5, <2>6, <2>8 DEF X86Live
<1>5. CASE StartCpu(c)
  <2> DEFINE after == StartCtrs(model, config, reset_value, hw[c])
  <2>1. /\ hw'[c] = after /\ section = "start" /\ UNCHANGED << section, is_setup, pend, nmi >>
    BY <1>0, <1>5 DEF StartCpu
  <2>2. after.prog = hw[c].prog /\ after.lvtpc = hw[c].lvtpc
    BY <1>0, StartEvents DEF SameEvents
  <2>3. after.over = hw[c].over /\ \A k \in Counters : reset_value[k] # 0 => k \in after.gate
    BY <1>0, StartOpens
  <2>4. SetUp(c) /\ (pmc # {} => ResetsKnown)
    BY <2>1 DEF SetUp, ResetsKnown, ControlInv, Control
  <2> HIDE DEF after
  <2>5. Granted(c) \subseteq after.gate
    BY <1>2, <1>3, <2>3, <2>4
  <2> QED
    BY <2>1, <2>2, <2>3, <2>4, <2>5 DEF X86Live
<1>6. CASE StopCpu(c) \/ \E k \in Counters : StopCounter(c, k)
  <2>1. /\ \/ hw'[c] = StopLast(model, passed[c], hw[c]) /\ c \notin on'
           \/ (\E k \in Counters : hw'[c] = StopOne(k, hw[c])) /\ passed'[c] # {}
        /\ section = "stop" /\ UNCHANGED << section, is_setup, pend, nmi >>
    BY <1>0, <1>6 DEF StopCpu, StopCounter
  <2>2. hw'[c].prog = hw[c].prog /\ hw'[c].lvtpc = hw[c].lvtpc /\ hw'[c].over = hw[c].over
    <3>1. ASSUME NEW k
          PROVE  /\ SameEvents(StopLast(model, passed[c], hw[c]), hw[c])
                 /\ SameEvents(StopOne(k, hw[c]), hw[c])
      BY <1>0, StopLoopEvents
    <3>2. ASSUME NEW k
          PROVE  /\ StopLast(model, passed[c], hw[c]).over = hw[c].over
                 /\ StopOne(k, hw[c]).over = hw[c].over
      BY <1>0, StopLoopCloses
    <3> QED
      BY <2>1, <3>1, <3>2 DEF SameEvents
  <2>3. SetUp(c)
    BY <2>1 DEF SetUp, ControlInv, Control
  <2> QED
    BY <2>1, <2>2, <2>3 DEF X86Live
<1>7. CASE StartMark(c) \/ StopMark(c)
  <2>1. /\ UNCHANGED << section, is_setup, hw, pend, on, nmi, passed >>
        /\ section \in {"start", "stop"}
    BY <1>7 DEF StartMark, StopMark
  <2>2. SetUp(c)
    BY <1>1, <2>1 DEF SetUp
  <2> QED
    BY <2>1, <2>2 DEF X86Live
<1>8. CASE SaveRegisters(c) \/ ShutdownCpu(c)
  BY <1>1, <1>8 DEF SaveRegisters, ShutdownCpu, SetUp
<1>9. CASE NmiCheck(c)
  <2> DEFINE logged == Logged(model, config, reset_value, running, hw[c])
             after  == CheckCtrs(model, config, reset_value, running, hw[c])
  <2>1. /\ UNCHANGED << section, is_setup, todo, on >> /\ c \in on /\ hw'[c] = after
    BY <1>0, <1>9 DEF NmiCheck, Handled, Happened
  <2>2. is_setup /\ running
    BY <2>1 DEF ControlInv, OnWhileRunning
  <2>4. SetUp(c) /\ (pmc # {} => ResetsKnown)
    <3>1. section \notin {"save", "setup", "adapt"}
      BY <2>2 DEF ControlInv, OnWhileRunning, Flags
    <3> QED
      BY <1>1, <2>1, <2>2, <3>1 DEF SetUp, ResetsKnown
  <2>5. /\ after.prog = hw[c].prog
        /\ after.lvtpc = IF hw[c].lvtpc = "masked" /\ model # "athlon" THEN "nmi" ELSE hw[c].lvtpc
    BY <1>0, CheckEvents
  <2>6. after.lvtpc \notin {"boot", "masked"}
    BY <1>0, <2>4, <2>5 DEF X86Live
  <2>7. ASSUME NEW k \in Granted(c) PROVE k \notin after.over /\ k \in after.gate
    <3>1. k \in Counters /\ reset_value[k] # 0 /\ ~X86Over(reset_value[k])
      BY <1>2, <1>3, <2>4
    <3>2. k \in hw[c].over => k \in logged
      BY <1>0, <3>1, X86Logs
    <3>3. /\ after.over \subseteq hw[c].over
          /\ k \in logged => (k \in after.over <=> X86Over(reset_value[k]))
          /\ reset_value[k] # 0 => k \in after.gate
      BY <1>0, <3>1, CheckReloads
    <3> QED
      BY <3>1, <3>2, <3>3
  <2> HIDE DEF after
  <2> QED
    BY <2>1, <2>4, <2>5, <2>6, <2>7 DEF X86Live
<1>11. CASE NmiEnter(c)
  <2>1. UNCHANGED << section, is_setup, todo, on, passed, hw >> /\ nmi'[c] # "none"
    BY <1>0, <1>11 DEF NmiEnter, Take
  <2>2. SetUp(c)
    BY <1>1, <2>1 DEF SetUp
  <2> QED
    BY <2>1, <2>2 DEF X86Live
<1>12. CASE NmiUnclaimed(c) \/ NmiStop(c) \/ PmcInterrupt(c)
  <2>1. ~NmiStop(c) /\ ~PmcInterrupt(c)
    BY <1>0 DEF NmiStop, PmcInterrupt, X86Live
  <2>2. NmiUnclaimed(c) => c \in on /\ ~is_setup
    BY DEF NmiUnclaimed, Note, Happened
  <2> QED
    BY <1>12, <2>1, <2>2 DEF Rest
<1>10. ASSUME NEW k \in Counters, Count(c, k)
       PROVE  /\ Held(c) \subseteq hw'[c].prog
              /\ hw'[c].lvtpc # "boot"
              /\ hw'[c].lvtpc = "masked" => c \in pend' \/ nmi'[c] # "none"
              /\ c \in pend' \/ nmi'[c] # "none" \/ Granted(c) \cap hw'[c].over = {}
              /\ c \in on' /\ passed'[c] = {} => Granted(c) \subseteq hw'[c].gate
  <2>1. /\ UNCHANGED << section, is_setup, todo, on, nmi, passed >>
        /\ hw'[c].prog = hw[c].prog /\ hw'[c].gate = hw[c].gate
        /\ hw'[c].lvtpc \in {hw[c].lvtpc, "masked"}
        /\ pend' = pend \cup {x \in {c} : Sends(c)}
    BY <1>0, <1>10 DEF Count, Hardware
  <2>2. SetUp(c)
    BY <1>1, <2>1 DEF SetUp
  <2>3. hw[c].lvtpc = "nmi" \/ hw[c].lvtpc = "masked"
    BY <1>0, <2>2 DEF X86Live, Hardware
  <2>4. c \in pend' \/ nmi'[c] # "none"
    BY <2>1, <2>2, <2>3 DEF X86Live, Sends
  <2> QED
    BY <2>1, <2>2, <2>4 DEF X86Live
<1> QED
  BY <1>4, <1>5, <1>6, <1>7, <1>8, <1>9, <1>10, <1>11, <1>12 DEF HandlerOnCpu, Interrupt

LEMMA PowerPCLiveKept ==
  ASSUME Types, Mid, Rest, ControlInv, Flags, CountsFit, ResetsKnown => ResetsAre(config),
         model \in PowerPC, ~Happened({"reconfigured", "late"})', NEW c \in CPUs, PowerPCLive(c),
         HandlerOnCpu(c) \/ Interrupt(c) \/ (\E k \in Counters : Count(c, k)),
         history \subseteq history'
  PROVE  PowerPCLive(c)'
<1> USE DEF machine, configVars, controlVars, stateVars, idleVars, cpuVars, midVars
<1>0. /\ hw[c] \in Hardware /\ reset_value \in Resets /\ config \in Configs
      /\ running \in BOOLEAN /\ model \notin X86 /\ pmc = CPUs
  BY DEF Types, TypeOK, Resets, Configs, X86, PowerPC
<1>a. UNCHANGED << machine, config >>
  BY DEF HandlerOnCpu, SaveRegisters, SetupCpu, ShutdownCpu, StartMark, StartCpu, StopCpu, StopMark,
     StopCounter, Interrupt, NmiUnclaimed, NmiEnter, NmiCheck, NmiStop, PmcInterrupt, Take, Count
<1>b. Enabled(config)' = Enabled(config) /\ Granted(c)' = Granted(c)
  BY <1>a, SameGranted
<1>1. \A k \in Granted(c) : k \in Enabled(config) /\ k \in Counters /\ config[k].count # 0
                            /\ ~PowerPCOver(config[k].count)
  BY GrantedIsBelow DEF Flags, Happened
<1>2. ResetsKnown => \A k \in Enabled(config) : reset_value[k] = config[k].count
  BY DEF ResetsAre
<1>3. Enabled(config) \subseteq Counters
  BY EnabledAreCounters
<1>4. CASE SetupCpu(c)
  <2>1. /\ hw'[c] = cpu_setup(model, config, hw[c]) /\ section = "setup"
        /\ UNCHANGED on
    BY <1>0, <1>4 DEF SetupCpu, Types, TypeOK, Flags, PowerPCPlain
  <2>2. c \notin on
    BY <2>1 DEF Rest, ControlInv, Control
  <2>3. model # "rs64" => \E K : hw'[c] = Program(hw[c], K) /\ Enabled(config) \subseteq K
    BY <1>3, <2>1 DEF PowerPC, cpu_setup, power4_cpu_setup, fsl7450_cpu_setup
  <2>4. model # "rs64" => Enabled(config) \subseteq hw'[c].prog
    BY <1>0, <2>3, GateCounters
  <2> QED
    BY <1>a, <1>b, <2>1, <2>2, <2>4 DEF PowerPCLive
<1>5. CASE StartCpu(c)
  <2> DEFINE after == StartCtrs(model, config, reset_value, hw[c])
  <2>1. /\ hw'[c] = after /\ section = "start"
        /\ UNCHANGED << section, is_setup >>
    BY <1>5 DEF StartCpu, Types, TypeOK
  <2>2. SetUp(c) /\ ResetsKnown
    BY <1>0, <2>1 DEF SetUp, ResetsKnown, ControlInv, Control
  <2>3. \A k \in Enabled(config) : reset_value[k] = config[k].count
    BY <1>2, <2>2
  <2>4. \A k \in Enabled(config) : config[k].count # 0 /\ k \in after.over
                                     => PowerPCOver(config[k].count)
    BY <1>0, <2>3, PowerPCStarts
  <2>5. \A k \in Counters : k \in after.gate
    BY <1>0, <2>3, PowerPCStarts
  <2>6. \A k \in Enabled(config) : model = "rs64" \/ k \in hw[c].prog => k \in after.prog
    BY <1>0, <2>3, PowerPCStarts
  <2> HIDE DEF after
  <2>7. Granted(c) \cap after.over = {} /\ Granted(c) \subseteq after.gate
    BY <1>1, <2>4, <2>5
  <2>8. Enabled(config) \subseteq after.prog
    BY <2>2, <2>6 DEF PowerPCLive
  <2> QED
    BY <1>a, <1>b, <2>1, <2>7, <2>8 DEF PowerPCLive
<1>6. CASE StopCpu(c)
  <2>1. /\ hw'[c] = StopLast(model, passed[c], hw[c]) /\ section = "stop" /\ c \notin on'
        /\ UNCHANGED << section, is_setup >>
    BY <1>6 DEF StopCpu, Types, TypeOK
  <2>2. hw'[c].prog = hw[c].prog
    BY <1>0, <2>1, StopLoopCloses
  <2>3. SetUp(c)
    BY <2>1 DEF SetUp, ControlInv, Control
  <2> QED
    BY <1>a, <1>b, <2>1, <2>2, <2>3 DEF PowerPCLive
<1>11. ASSUME NEW k \in Counters, StopCounter(c, k) PROVE FALSE
  BY <1>11 DEF StopCounter, Loops, PowerPC
<1>7. CASE StartMark(c) \/ StopMark(c)
  <2>1. /\ UNCHANGED << section, is_setup, hw, pend, on >>
        /\ section \in {"start", "stop"}
    BY <1>7 DEF StartMark, StopMark
  <2>2. SetUp(c)
    BY <2>1 DEF SetUp, ControlInv, Control
  <2> QED
    BY <1>a, <1>b, <2>1, <2>2 DEF PowerPCLive
<1>8. CASE SaveRegisters(c) \/ ShutdownCpu(c)
  <2>1. section' = "shutdown" /\ c \notin todo' /\ c \notin on'
    BY <1>8 DEF SaveRegisters, ShutdownCpu, Flags, PowerPCPlain
  <2> QED
    BY <2>1 DEF PowerPCLive, SetUp
<1>9. CASE Interrupt(c)
  <2>4. PmcInterrupt(c)
    BY <1>0, <1>9 DEF Interrupt, NmiUnclaimed, NmiEnter, NmiCheck, NmiStop, Mid
  <2>1. UNCHANGED << section, is_setup, todo, on >>
    BY <2>4 DEF PmcInterrupt, Take
  <2>2. CASE is_setup
    <3> DEFINE after == CheckCtrs(model, config, reset_value, running, hw[c])
    <3>1. hw'[c] = after /\ c \in on
      BY <2>2, <2>4 DEF PmcInterrupt, Handled, Happened, Types, TypeOK
    <3>2. ResetsKnown
      BY <1>0, <2>2 DEF ResetsKnown, Flags, PowerPCPlain
    <3>3. /\ \A k \in Enabled(config) : config[k].count # 0 /\ k \in after.over
                                         => PowerPCOver(config[k].count)
          /\ after.gate = Counters /\ after.prog = hw[c].prog
      BY <1>0, <1>2, <3>2, PowerPCReloads
    <3> HIDE DEF after
    <3>4. Granted(c) \cap after.over = {} /\ Granted(c) \subseteq after.gate
      BY <1>1, <3>3
    <3> QED
      BY <1>a, <1>b, <2>1, <3>1, <3>3, <3>4 DEF PowerPCLive
  <2>3. CASE ~is_setup
    <3>1. c \notin on
      BY <2>3 DEF Rest
    <3> QED
      BY <2>1, <2>3, <3>1 DEF PowerPCLive, SetUp
  <2> QED
    BY <2>2, <2>3
<1>10. ASSUME NEW k \in Counters, Count(c, k) PROVE PowerPCLive(c)'
  <2>1. /\ UNCHANGED << section, is_setup, todo, on >>
        /\ hw'[c].prog = hw[c].prog /\ c \in pend'
    BY <1>0, <1>10 DEF Count, Sends, Types, TypeOK, Hardware
  <2> QED
    BY <1>a, <1>b, <2>1 DEF PowerPCLive, SetUp
<1> QED
  BY <1>4, <1>5, <1>6, <1>7, <1>8, <1>9, <1>10, <1>11 DEF HandlerOnCpu

(* A step that leaves a CPU, its events and its interrupt.                 *)
LEMMA LiveStays ==
  ASSUME NEW c \in CPUs, IF model \in X86 THEN X86Live(c) ELSE PowerPCLive(c),
         UNCHANGED << machine, config >>, hw'[c] = hw[c], nmi'[c] = nmi[c], passed'[c] = passed[c],
         c \in pend' <=> c \in pend, c \in on' => c \in on, SetUp(c)' => SetUp(c)
  PROVE  (IF model \in X86 THEN X86Live(c) ELSE PowerPCLive(c))'
<1>1. /\ Held(c)' = Held(c) /\ Granted(c)' = Granted(c) /\ Enabled(config)' = Enabled(config)
      /\ model' = model
  BY SameGranted DEF machine
<1>2. X86Live(c) => X86Live(c)'
  BY <1>1 DEF X86Live
<1>3. PowerPCLive(c) => PowerPCLive(c)'
  BY <1>1 DEF PowerPCLive
<1> QED
  BY <1>1, <1>2, <1>3

(* What one CPU does leaves the events of the others.                      *)
LEMMA LiveElsewhere ==
  ASSUME Types, NEW c \in CPUs, NEW d \in CPUs, c # d,
         HandlerOnCpu(c) \/ Interrupt(c) \/ (\E k \in Counters : Count(c, k)),
         IF model \in X86 THEN X86Live(d) ELSE PowerPCLive(d)
  PROVE  (IF model \in X86 THEN X86Live(d) ELSE PowerPCLive(d))'
<1> USE DEF machine, configVars, controlVars, stateVars, idleVars, cpuVars, midVars
<1>1. CASE HandlerOnCpu(c)
  <2>1. UNCHANGED << machine, config, section, is_setup, pend, nmi >>
    BY <1>1 DEF HandlerOnCpu, SaveRegisters, SetupCpu, ShutdownCpu, StartMark, StartCpu,
        StopCpu, StopMark, StopCounter
  <2>3. hw'[d] = hw[d] /\ passed'[d] = passed[d]
    BY <1>1 DEF HandlerOnCpu, SaveRegisters, SetupCpu, ShutdownCpu, StartMark, StartCpu,
        StopCpu, StopMark, StopCounter, Types, TypeOK
  <2>2. (d \in todo' <=> d \in todo) /\ (d \in on' <=> d \in on)
    BY <1>1 DEF HandlerOnCpu, SaveRegisters, SetupCpu, ShutdownCpu, StartMark, StartCpu,
        StopCpu, StopMark, StopCounter
  <2>4. SetUp(d)' => SetUp(d)
    BY <2>1, <2>2 DEF SetUp
  <2> QED
    BY <2>1, <2>2, <2>3, <2>4, LiveStays
<1>2. CASE Interrupt(c) \/ (\E k \in Counters : Count(c, k))
  <2>1. UNCHANGED << machine, config, section, is_setup, todo, on, passed >>
    BY <1>2 DEF Interrupt, NmiUnclaimed, NmiEnter, NmiCheck, NmiStop, PmcInterrupt, Take, Handled,
       Count
  <2>2. /\ hw'[d] = hw[d] /\ nmi'[d] = nmi[d]
        /\ d \in pend' <=> d \in pend
    BY <1>2 DEF Interrupt, NmiUnclaimed, NmiEnter, NmiCheck, NmiStop, PmcInterrupt, Take, Handled,
       Count, Types, TypeOK
  <2>3. SetUp(d)' => SetUp(d)
    BY <2>1 DEF SetUp
  <2> QED
    BY <2>1, <2>2, <2>3, LiveStays
<1> QED
  BY <1>1, <1>2

LEMMA LiveKept ==
  ASSUME Types, Mid, RestUnlessResumed, ControlInv, Flags, X86Inv, CountsFit, ResetsFollow, LiveInv,
         [Next]_vars
  PROVE  LiveInv'
<1> SUFFICES ASSUME ~Happened({"reconfigured", "slept", "late"})',
                    ~Happened({"reconfigured", "slept", "late"}), NEW c \in CPUs,
                    IF model \in X86 THEN X86Live(c) ELSE PowerPCLive(c)
             PROVE  (IF model \in X86 THEN X86Live(c) ELSE PowerPCLive(c))'
  BY HistoryGrows DEF LiveInv, Happened
<1> USE DEF machine, configVars, controlVars, stateVars, idleVars, cpuVars, midVars, Enter, Leave, Done
<1>0. /\ \/ model \in X86 /\ model \notin PowerPC
         \/ model \in PowerPC /\ model \notin X86
      /\ config \in Configs
  BY DEF Types, TypeOK, X86, PowerPC, Configs
<1>1. Rest /\ ~asleep
  BY DEF Flags, RestUnlessResumed, Happened
<1>2. ASSUME NEW d \in CPUs,
             HandlerOnCpu(d) \/ Interrupt(d) \/ (\E k \in Counters : Count(d, k))
      PROVE  (IF model \in X86 THEN X86Live(c) ELSE PowerPCLive(c))'
  <2>1. model' = model
    BY MachineIsFixed
  <2>2. /\ ResetsKnown => ResetsAre(config)
        /\ ~Happened({"reconfigured", "late"})' /\ history \subseteq history'
    BY HistoryGrows DEF ResetsFollow, Happened
  <2>3. CASE c = d
    BY <1>0, <1>1, <1>2, <2>1, <2>2, <2>3, X86LiveKept, PowerPCLiveKept
  <2>4. CASE c # d
    BY <1>2, <2>4, LiveElsewhere
  <2> QED
    BY <2>3, <2>4
<1>3. CASE BeginSetup \/ EndSave \/ EndSetup
  <2>1. UNCHANGED << machine, config, hw, on, pend, nmi, passed >>
    BY <1>3 DEF BeginSetup, EndSave, EndSetup
  <2>2. SetUp(c)' => SetUp(c)
    <3>1. CASE BeginSetup
      BY <3>1 DEF BeginSetup, SetUp
    <3>2. CASE EndSave \/ EndSetup
      BY <3>2 DEF EndSave, EndSetup, SetUp
    <3> QED
      BY <1>3, <3>1, <3>2
  <2> QED
    BY <2>1, <2>2, LiveStays
<1>4. CASE BeginStart \/ CannotAdapt \/ EndAdapt
  <2>1. /\ UNCHANGED << machine, config, hw, on, pend, nmi, passed, is_setup >>
        /\ section \in {"none", "stop", "adapt"}
    BY <1>4 DEF BeginStart, CannotAdapt, EndAdapt, EnterStart
  <2> QED
    BY <2>1, LiveStays DEF SetUp
<1>5. CASE EndStart \/ BeginStop \/ EndStop \/ BeginAdapt \/ CanAdapt
  <2>1. /\ UNCHANGED << machine, config, hw, on, pend, nmi, passed, is_setup >>
        /\ section \in {"none", "start", "stop"}
    BY <1>5 DEF EndStart, BeginStop, EndStop, BeginAdapt, CanAdapt
  <2> QED
    BY <2>1, LiveStays DEF SetUp
<1>6. CASE BeginShutdown \/ EndShutdown \/ IdlePollWrite \/ UNCHANGED vars
  <2>1. /\ UNCHANGED << machine, config, hw, on, pend, nmi, passed >>
        /\ SetUp(c)' => SetUp(c)
    <3>1. CASE BeginShutdown
      BY <3>1 DEF BeginShutdown, SetUp
    <3>2. CASE EndShutdown
      BY <3>2 DEF EndShutdown, SetUp
    <3>3. CASE IdlePollWrite \/ UNCHANGED vars
      BY <3>3 DEF IdlePollWrite, vars, SetUp
    <3> QED
      BY <1>6, <3>1, <3>2, <3>3
  <2> QED
    BY <2>1, LiveStays
<1>7. CASE Decay
  <2>1. model \in X86 /\ SetUp(c)
    BY <1>0, <1>7 DEF Decay, Flags, PowerPCPlain, SetUp, ControlInv, Control
  <2>2. UNCHANGED << machine, hw, on, pend, nmi, passed >> /\ on = {}
    BY <1>1, <1>7 DEF Decay, Rest
  <2>3. \A k \in Counters : /\ config'[k].enabled <=> config[k].enabled
                            /\ config'[k].bound = config[k].bound
                            /\ config[k].enabled => config'[k].count = config[k].count * Factor
    BY <1>0, <1>7 DEF Decay, Configs
  <2>4. \A k \in Enabled(config) : config[k].count \in Nat /\ Factor \in Nat
    BY <1>0, SessionAssumption DEF Configs, Enabled
  <2>5. Enabled(config)' = Enabled(config) /\ Bound(c)' = Bound(c)
    BY <2>3 DEF Enabled, Bound
  <2>6. Held(c)' = Held(c) /\ \A k \in Granted(c)' : k \in Granted(c)
    BY <2>2, <2>3, <2>4, <2>5 DEF Held, Granted, Enabled
  <2> QED
    BY <2>1, <2>2, <2>6 DEF X86Live
<1>8. CASE Suspend \/ Resume
  BY <1>1, <1>8 DEF Suspend, Resume, Note, Happened
<1>9. ASSUME NEW k \in Counters, Configure(k)
      PROVE  (IF model \in X86 THEN X86Live(c) ELSE PowerPCLive(c))'
  <2>1. /\ ~is_setup /\ UNCHANGED << machine, is_setup, on, nmi >>
    BY <1>9 DEF Configure, Happened
  <2>2. on = {}
    BY <1>1, <2>1 DEF Rest
  <2> QED
    BY <2>1, <2>2 DEF X86Live, PowerPCLive, SetUp
<1> QED
  BY <1>2, <1>3, <1>4, <1>5, <1>6, <1>7, <1>8, <1>9 DEF Next, EndOfSection

LEMMA LiveInvariant == Spec => []LiveInv
<1>1. Init => LiveInv
  BY DEF Init, LiveInv, X86Live, PowerPCLive, SetUp
<1> QED
  BY <1>1, LiveKept, TypesInvariant, MidInvariant, RestInvariant, ControlInvariant, FlagsInvariant,
     X86Invariant, CountsStayBelowTop, ResetsInvariant, PTL DEF Spec

(* In a session every counter granted to the user on a CPU counts there,   *)
(* whatever the model and however often the session was adapted, stopped   *)
(* and started.                                                            *)
THEOREM SessionsCount == Spec => []SessionCounts
<1>1. Types /\ Mid /\ ControlInv /\ Flags /\ OnInv /\ LiveInv => SessionCounts
  <2> SUFFICES ASSUME Types, Mid, ControlInv, Flags, OnInv, LiveInv,
                      section = "none", started, ~Happened({"reconfigured", "slept", "late"}),
                      NEW c \in CPUs, c \notin pend, nmi[c] = "none"
               PROVE  /\ Granted(c) \subseteq Counting(hw[c])
                      /\ model \in X86 => hw[c].lvtpc = "nmi"
    BY DEF SessionCounts, CpuCounts, Happened
  <2>1. c \in on /\ passed[c] = {}
    BY DEF OnInv, AllOn, Mid, Happened
  <2>2. SetUp(c)
    BY DEF ControlInv, Control, SetUp
  <2>3. IF model \in X86 THEN X86Live(c) ELSE PowerPCLive(c)
    BY DEF LiveInv
  <2>6. Granted(c) \subseteq Enabled(config) /\ Granted(c) \subseteq Held(c)
    BY DEF Granted, Held
  <2>4. /\ Granted(c) \subseteq hw[c].prog
        /\ Granted(c) \cap hw[c].over = {} /\ Granted(c) \subseteq hw[c].gate
    BY <2>1, <2>2, <2>3, <2>6 DEF X86Live, PowerPCLive
  <2>5. model \in X86 => hw[c].lvtpc = "nmi"
    BY <2>2, <2>3 DEF X86Live, Types, TypeOK, Hardware
  <2> QED
    BY <2>4, <2>5 DEF Counting
<1> QED
  BY <1>1, TypesInvariant, MidInvariant, ControlInvariant, FlagsInvariant, OnInvariant,
     LiveInvariant, PTL DEF Spec
=============================================================================

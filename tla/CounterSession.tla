---------------------------- MODULE CounterSession ----------------------------
(***************************************************************************)
(* The performance counters of all CPUs over profiling sessions: the x86   *)
(* session (x86/nmi_int.c), the powerpc session (powerpc/common.c), the    *)
(* idle loop they replace (x86/process.c) and the counter models under     *)
(* them.  The control thread runs each operation on every CPU with         *)
(* on_each_cpu(); the handlers run in parallel, and counter interrupts     *)
(* come in between.  On x86 the interrupt is an NMI and comes at any time; *)
(* on powerpc not while a handler of on_each_cpu() runs.                   *)
(*                                                                         *)
(* x86 is modelled for kernels from 3.2 on, where the NMI handler looks at *)
(* ctr_running and nmi_enabled.                                            *)
(***************************************************************************)
EXTENDS CounterModels

CONSTANTS
  Models,       \* the counter models, of which a machine has one
  CPUs, Boot,   \* Boot: the CPU that suspends and resumes last
  Choices,      \* the settings of a counter the user chooses from
  Firmware,     \* p4: the sets of CPUs where it may have made the PMC available
  Garbage,      \* bound: what kmalloc() may leave in reset_value of ppro
  Factor,       \* ADAPT_DECAY_FACTOR
  MaxAdapt,     \* bound: adapt_value, which nothing caps if no counter is enabled
  MaxChanges    \* bound: settings changed, and suspends

ASSUME SessionAssumption ==
  /\ Models \subseteq X86 \cup PowerPC /\ Boot \in CPUs
  /\ Choices \subseteq [enabled : BOOLEAN, count : 0 .. Top - 1, bound : SUBSET CPUs]
  /\ Firmware \subseteq SUBSET CPUs /\ Garbage \subseteq Nat
  /\ Factor \in Nat \ {0, 1}
  /\ MaxAdapt \in Nat /\ MaxChanges \in Nat

VARIABLES
  model,
  pmc,            \* p4: the CPUs where the PMC is available
  config,         \* counter_config, ctr
  reset_value,
  section,        \* the operation of the control thread
  adapting,       \* is the stop or start part of oprofile_adapt()?
  todo,           \* CPUs whose handler of on_each_cpu() has not returned
  at,             \* CPUs writing oprofile_add_start() or _stop() to their ring
  passed,         \* the counters that the loop of stop() has passed on each CPU
  nmi,            \* the branch profile_exceptions_notify() has taken on each CPU
  running,        \* ctr_running, oprofile_running
  nmi_enabled,
  is_setup,       \* the handler is registered, the PMC hardware reserved
  started,        \* oprofile_started
  hw,             \* the registers of each CPU
  saved,          \* what nmi_save_registers() found
  pend,           \* CPUs with a counter interrupt on its way
  adapt_value,    \* oprofile_adapt_value, as last announced to the reader
  pm_idle,        \* the idle loop: the kernel's own or poll_idle()
  poll_idle_enabled,
  asleep,
  on,             \* history: CPUs where start() was called since the last stop()
  asked,          \* history: the periods the user asked for; 0 if disabled
  changes,
  history

machine     == << model, pmc >>
configVars  == << config, asked, changes >>
controlVars == << section, adapting, todo, at, is_setup, started, asleep >>
stateVars   == << reset_value, running, nmi_enabled, adapt_value >>
idleVars    == << pm_idle, poll_idle_enabled >>
midVars     == << passed, nmi >>
cpuVars     == << hw, saved, pend, on, midVars >>
vars == << machine, configVars, controlVars, stateVars, idleVars, cpuVars, history >>

Asked(c) == [k \in Counters |-> IF c[k].enabled THEN c[k].count ELSE 0]

Note(flag, condition) == history' = history \cup {f \in {flag} : condition}

(* What the user may ask of a counter.  The events of a P4 each need one   *)
(* of a few counters (P4Registers); the CPUs on which the counter can have *)
(* the event are the setting's "bound".                                    *)
Settings == {s \in Choices : model # "p4" => s.bound = CPUs}

(* oprofile_arch_init() has picked a model.  reset_value of ppro comes     *)
(* from kmalloc().  The user has asked for idle polling where there is it. *)
Init ==
  /\ model \in Models
  /\ pmc \in IF model = "p4" THEN Firmware ELSE {CPUs}
  /\ config \in [Counters -> Settings]
  /\ asked = Asked(config) /\ changes = 0
  /\ reset_value \in [Counters -> IF model = "ppro" THEN Garbage ELSE {0}]
  /\ section = "none" /\ adapting = FALSE /\ todo = {} /\ at = {}
  /\ is_setup = FALSE /\ started = FALSE /\ asleep = FALSE
  /\ running = FALSE /\ nmi_enabled = FALSE /\ adapt_value = 1
  /\ pm_idle = "saved" /\ poll_idle_enabled = (model \in X86)
  /\ hw = [c \in CPUs |-> PowerOn] /\ saved = hw
  /\ pend = {} /\ on = {} /\ history = {}
  /\ passed = [c \in CPUs |-> {}] /\ nmi = [c \in CPUs |-> "none"]

(* The idle loop is one for all CPUs; both calls may come twice.            *)
enable_poll_idle  == pm_idle' = "poll"

disable_poll_idle == pm_idle' = "saved"

-----------------------------------------------------------------------------
Change == changes < MaxChanges /\ changes' = changes + 1

(* A write to one of the files of a counter, at any time.                  *)
Configure(k) ==
  /\ Change
  /\ \E new \in Settings, file \in {"enabled", "count", "bound"} :
       /\ new # config[k] /\ new = [config[k] EXCEPT ![file] = new[file]]
       /\ config' = [config EXCEPT ![k] = new]
       /\ asked' = [asked EXCEPT ![k] = IF new.enabled THEN new.count ELSE 0]
  /\ history' = history \cup {f \in {"reconfigured"} : is_setup}
                        \cup {f \in {"raced"} : section = "decay"}
  /\ UNCHANGED << machine, controlVars, stateVars, idleVars, cpuVars >>

(* idle_poll_write()                                                       *)
IdlePollWrite ==
  /\ model \in X86 /\ Change
  /\ poll_idle_enabled' = ~poll_idle_enabled
  /\ UNCHANGED << machine, config, asked, controlVars, stateVars, cpuVars, pm_idle, history >>

Enter(s, cpus) == section' = s /\ todo' = cpus

Leave == section' = "none" /\ todo' = {}

(* An NMI holds up the control function too while one CPU is left.         *)
Done(s) == section = s /\ todo = {} /\ (asleep => nmi[Boot] = "none")

-----------------------------------------------------------------------------
(* ops.setup(): nmi_setup(), op_powerpc_setup()                            *)
BeginSetup ==
  /\ section = "none" /\ ~is_setup /\ ~asleep
  /\ is_setup' = TRUE
  /\ IF model \in X86
     THEN /\ nmi_enabled' = FALSE /\ running' = FALSE
          /\ Enter("save", CPUs)
          /\ UNCHANGED reset_value
     ELSE /\ reset_value' = reg_setup(model, config)
          /\ Enter("setup", CPUs)
          /\ UNCHANGED << nmi_enabled, running >>
  /\ UNCHANGED << machine, configVars, adapting, at, started, asleep, adapt_value, idleVars,
                  cpuVars, history >>

(* nmi_save_registers()                                                    *)
SaveRegisters(c) ==
  /\ section = "save" /\ c \in todo
  /\ saved' = [saved EXCEPT ![c] = hw[c]]
  /\ todo' = todo \ {c}
  /\ UNCHANGED << machine, configVars, section, adapting, at, is_setup, started, asleep,
                  stateVars, idleVars, hw, pend, on, midVars, history >>

EndSave ==
  /\ Done("save") /\ Enter("setup", CPUs)
  /\ UNCHANGED << machine, configVars, adapting, at, is_setup, started, asleep, stateVars,
                  idleVars, cpuVars, history >>

Bound(c) == {k \in Counters : c \in config[k].bound}

(* nmi_cpu_setup(), nmi_cpu_adapt(), cpu_setup()                           *)
SetupCpu(c) ==
  /\ section \in {"setup", "adapt"} /\ c \in todo
  /\ IF model \in X86
     THEN LET done == setup_ctrs(model, config, c \in pmc, Bound(c), reset_value, hw[c])
          IN  /\ reset_value' = done.reset
              /\ hw' = [hw EXCEPT ![c] =
                          [done.hw EXCEPT !.lvtpc = IF section = "setup" THEN "nmi" ELSE @]]
     ELSE /\ hw' = [hw EXCEPT ![c] = cpu_setup(model, config, @)]
          /\ UNCHANGED reset_value
  /\ todo' = todo \ {c}
  /\ UNCHANGED << machine, configVars, section, adapting, at, is_setup, started, asleep,
                  running, nmi_enabled, adapt_value, idleVars, saved, pend, on, midVars, history >>

EndSetup ==
  /\ Done("setup") /\ Leave
  /\ nmi_enabled' = (model \in X86)
  /\ UNCHANGED << machine, configVars, adapting, at, is_setup, started, asleep, reset_value,
                  running, adapt_value, idleVars, cpuVars, history >>

-----------------------------------------------------------------------------
(* ops.start(): nmi_start(), op_powerpc_start()                            *)
EnterStart(cpus) ==
  /\ Enter("start", cpus)
  /\ running' = (running \/ model \in X86)

(* oprofile_start() announces the interval first.                          *)
BeginStart ==
  /\ section = "none" /\ is_setup /\ ~started /\ ~asleep
  /\ EnterStart(CPUs)
  /\ adapt_value' = 1
  /\ Note("decayed", \E k \in Counters : config[k].enabled /\ config[k].count # asked[k])
  /\ UNCHANGED << machine, configVars, adapting, at, is_setup, started, asleep, reset_value,
                  nmi_enabled, idleVars, cpuVars >>

(* Mutant: the mark is written after the counters are started.             *)
StartMarkAfter(c) ==
  /\ section = "start" /\ c \in todo \ at
  /\ at' = at \cup {c} /\ on' = on \cup {c}
  /\ hw' = [hw EXCEPT ![c] = StartCtrs(model, config, reset_value, @)]
  /\ UNCHANGED << machine, configVars, section, adapting, todo, is_setup, started, asleep,
                  stateVars, idleVars, saved, pend, midVars, history >>

(* nmi_cpu_start(), op_powerpc_cpu_start(): oprofile_add_start() ...       *)
StartMark(c) ==
  /\ section = "start" /\ c \in todo \ at
  /\ at' = at \cup {c}
  /\ UNCHANGED << machine, configVars, section, adapting, todo, is_setup, started, asleep,
                  stateVars, idleVars, cpuVars, history >>

(* ... and then start() of the model.                                      *)
StartCpu(c) ==
  /\ section = "start" /\ c \in todo \cap at
  /\ hw' = [hw EXCEPT ![c] = StartCtrs(model, config, reset_value, @)]
  /\ running' = TRUE
  /\ on' = on \cup {c} /\ todo' = todo \ {c} /\ at' = at \ {c}
  /\ UNCHANGED << machine, configVars, section, adapting, is_setup, started, asleep, reset_value,
                  nmi_enabled, adapt_value, idleVars, saved, pend, midVars, history >>

EndStart ==
  /\ Done("start") /\ Leave
  /\ started' = (started \/ ~asleep) /\ adapting' = FALSE /\ asleep' = FALSE
  /\ IF poll_idle_enabled THEN enable_poll_idle ELSE UNCHANGED pm_idle
  /\ UNCHANGED << machine, configVars, at, is_setup, stateVars, poll_idle_enabled, cpuVars,
                  history >>

-----------------------------------------------------------------------------
(* ops.stop(): nmi_stop(), op_powerpc_stop()                               *)
BeginStop ==
  /\ section = "none" /\ started /\ ~asleep
  /\ Enter("stop", CPUs)
  /\ UNCHANGED << machine, configVars, adapting, at, is_setup, started, asleep, stateVars, idleVars,
                  cpuVars, history >>

(* athlon_stop(), p4_stop(): all counters but the last.                    *)
StopCounter(c, k) ==
  /\ section = "stop" /\ c \in todo \ at /\ model \in Loops
  /\ k \notin passed[c] /\ passed[c] \cup {k} # Counters
  /\ hw' = [hw EXCEPT ![c] = StopOne(k, @)]
  /\ passed' = [passed EXCEPT ![c] = @ \cup {k}]
  /\ UNCHANGED << machine, configVars, controlVars, stateVars, idleVars, saved, pend, on, nmi,
                  history >>

IsLast(c) == model \in Loops => \E k \in Counters : Counters \ passed[c] = {k}

(* Mutant: the handler counts as returned before it writes its mark.       *)
StopCpuReturns(c) ==
  /\ section = "stop" /\ c \in todo \ at /\ IsLast(c)
  /\ hw' = [hw EXCEPT ![c] = StopLast(model, passed[c], @)]
  /\ passed' = [passed EXCEPT ![c] = {}]
  /\ running' = (running /\ model \in X86)
  /\ on' = on \ {c} /\ at' = at \cup {c} /\ todo' = todo \ {c}
  /\ UNCHANGED << machine, configVars, section, adapting, is_setup, started, asleep,
                  reset_value, nmi_enabled, adapt_value, idleVars, saved, pend, nmi, history >>

(* nmi_cpu_stop(), op_powerpc_cpu_stop(): stop() of the model ...          *)
StopCpu(c) ==
  /\ section = "stop" /\ c \in todo \ at /\ IsLast(c)
  /\ hw' = [hw EXCEPT ![c] = StopLast(model, passed[c], @)]
  /\ passed' = [passed EXCEPT ![c] = {}]
  /\ running' = (running /\ model \in X86)
  /\ on' = on \ {c} /\ at' = at \cup {c}
  /\ UNCHANGED << machine, configVars, section, adapting, todo, is_setup, started, asleep,
                  reset_value, nmi_enabled, adapt_value, idleVars, saved, pend, nmi, history >>

(* Mutant: the idle loop is left as it is.                                 *)
StopMarkPolls(c) ==
  /\ section = "stop" /\ c \in todo \cap at
  /\ at' = at \ {c} /\ todo' = todo \ {c}
  /\ UNCHANGED << machine, configVars, section, adapting, is_setup, started, asleep, stateVars,
                  idleVars, cpuVars, history >>

(* ... and then oprofile_add_stop() and disable_poll_idle().               *)
StopMark(c) ==
  /\ section = "stop" /\ c \in todo \cap at
  /\ at' = at \ {c} /\ todo' = todo \ {c}
  /\ disable_poll_idle
  /\ UNCHANGED << machine, configVars, section, adapting, is_setup, started, asleep, stateVars,
                  poll_idle_enabled, cpuVars, history >>

(* Mutant: on_each_cpu() does not wait.                                    *)
EndStopEarly ==
  /\ section = "stop" /\ at = {} /\ ~adapting /\ Leave
  /\ running' = FALSE /\ started' = (started /\ asleep)
  /\ UNCHANGED << machine, configVars, adapting, at, is_setup, asleep, reset_value,
                  nmi_enabled, adapt_value, idleVars, cpuVars, history >>

(* Mutant: ctr_running stays set.                                          *)
EndStopRunning ==
  /\ Done("stop") /\ ~adapting /\ Leave
  /\ started' = (started /\ asleep)
  /\ UNCHANGED << machine, configVars, adapting, at, is_setup, asleep, stateVars, idleVars,
                  cpuVars, history >>

EndStop ==
  /\ Done("stop") /\ ~adapting /\ Leave
  /\ running' = FALSE /\ started' = (started /\ asleep)
  /\ UNCHANGED << machine, configVars, adapting, at, is_setup, asleep, reset_value,
                  nmi_enabled, adapt_value, idleVars, cpuVars, history >>

-----------------------------------------------------------------------------
(* oprofile_adapt(): stop, nmi_adapt(), start.  powerpc does not have it.  *)
BeginAdapt ==
  /\ section = "none" /\ started /\ ~asleep /\ model \in X86 /\ adapt_value < MaxAdapt
  /\ Enter("stop", CPUs) /\ adapting' = TRUE
  /\ UNCHANGED << machine, configVars, at, is_setup, started, asleep, stateVars, idleVars,
                  cpuVars, history >>

(* Mutant: the cap forgets the factor.                                     *)
AdaptableToTop(c) == \A k \in Enabled(c) : c[k].count < Top - 1

Adaptable(c) == \A k \in Enabled(c) : c[k].count < (Top - 1) \div Factor

(* The counts are looked at, then multiplied; a write may come between.    *)
CanAdapt ==
  /\ Done("stop") /\ adapting /\ Adaptable(config)
  /\ running' = FALSE
  /\ Enter("decay", {})
  /\ UNCHANGED << machine, configVars, adapting, at, is_setup, started, asleep, reset_value,
                  nmi_enabled, adapt_value, idleVars, cpuVars, history >>

Decay ==
  /\ section = "decay" /\ Enter("adapt", CPUs)
  /\ config' = [k \in Counters |-> IF config[k].enabled
                                   THEN [config[k] EXCEPT !.count = @ * Factor] ELSE config[k]]
  /\ UNCHANGED << machine, asked, changes, adapting, at, is_setup, started, asleep, stateVars,
                  idleVars, cpuVars, history >>

CannotAdapt ==
  /\ Done("stop") /\ adapting /\ ~Adaptable(config)
  /\ EnterStart(CPUs)
  /\ UNCHANGED << machine, configVars, adapting, at, is_setup, started, asleep, reset_value,
                  nmi_enabled, adapt_value, idleVars, cpuVars, history >>

(* Mutant: the new interval is not announced.                              *)
EndAdaptSilent ==
  /\ Done("adapt") /\ EnterStart(CPUs)
  /\ UNCHANGED << machine, configVars, adapting, at, is_setup, started, asleep, reset_value,
                  nmi_enabled, adapt_value, idleVars, cpuVars, history >>

EndAdapt ==
  /\ Done("adapt") /\ EnterStart(CPUs)
  /\ adapt_value' = adapt_value * Factor
  /\ UNCHANGED << machine, configVars, adapting, at, is_setup, started, asleep, reset_value,
                  nmi_enabled, idleVars, cpuVars, history >>

-----------------------------------------------------------------------------
(* ops.shutdown(): nmi_shutdown(), op_powerpc_shutdown()                   *)
BeginShutdown ==
  /\ section = "none" /\ is_setup /\ ~started /\ ~asleep
  /\ disable_poll_idle
  /\ nmi_enabled' = FALSE
  /\ IF model \in X86 THEN Enter("shutdown", CPUs) ELSE Enter("shutdown", {})
  /\ UNCHANGED << machine, configVars, adapting, at, is_setup, started, asleep, reset_value,
                  running, adapt_value, poll_idle_enabled, cpuVars, history >>

(* Mutant: LVTPC is not restored.                                          *)
ShutdownCpuKeeps(c) ==
  /\ section = "shutdown" /\ c \in todo
  /\ hw' = [hw EXCEPT ![c] = [saved[c] EXCEPT !.lvtpc = hw[c].lvtpc]]
  /\ on' = on \ {c} /\ todo' = todo \ {c}
  /\ UNCHANGED << machine, configVars, section, adapting, at, is_setup, started, asleep,
                  stateVars, idleVars, saved, pend, midVars, history >>

(* nmi_cpu_shutdown(), nmi_restore_registers()                             *)
ShutdownCpu(c) ==
  /\ section = "shutdown" /\ c \in todo
  /\ hw' = [hw EXCEPT ![c] = saved[c]]
  /\ on' = on \ {c} /\ todo' = todo \ {c}
  /\ UNCHANGED << machine, configVars, section, adapting, at, is_setup, started, asleep,
                  stateVars, idleVars, saved, pend, midVars, history >>

(* unregister_nmi_handler() waits for the handlers that run.               *)
EndShutdown ==
  /\ Done("shutdown") /\ Leave
  /\ \A c \in CPUs : nmi[c] = "none"
  /\ is_setup' = FALSE
  /\ UNCHANGED << machine, configVars, adapting, at, started, asleep, stateVars, idleVars,
                  cpuVars, history >>

-----------------------------------------------------------------------------
(* nmi_suspend(): only the boot CPU is left; sleep costs the other CPUs    *)
(* their registers.                                                        *)
Suspend ==
  /\ section = "none" /\ ~asleep /\ nmi_enabled /\ Change
  /\ \A c \in CPUs : nmi[c] = "none"
  /\ asleep' = TRUE
  /\ Enter("stop", {Boot})
  /\ hw' = [c \in CPUs |-> IF c = Boot THEN hw[c] ELSE PowerOn]
  /\ pend' = pend \cap {Boot} /\ on' = on \cap {Boot}
  /\ Note("slept", TRUE)
  /\ UNCHANGED << machine, config, asked, adapting, at, is_setup, started, stateVars, idleVars,
                  saved, midVars >>

(* nmi_resume() starts the counters, whether or not they were started.     *)
Resume ==
  /\ section = "none" /\ asleep /\ nmi[Boot] = "none"
  /\ EnterStart({Boot})
  /\ Note("resumed", ~started)
  /\ UNCHANGED << machine, configVars, adapting, at, is_setup, started, asleep, reset_value,
                  nmi_enabled, adapt_value, idleVars, cpuVars >>

-----------------------------------------------------------------------------
(* The hardware counts an event; on overflow it sends the interrupt.  The  *)
(* local APIC of a Pentium M or a P4 masks LVTPC with it; powerpc freezes  *)
(* the counters.                                                           *)
Sends(c) == model \in PowerPC \/ hw[c].lvtpc = "nmi"

Count(c, k) ==
  /\ k \in Counting(hw[c])
  /\ hw' = [hw EXCEPT ![c].over  = @ \cup {k},
                      ![c].gate  = IF model \in PowerPC THEN {} ELSE @,
                      ![c].lvtpc = IF Sends(c) /\ model \in {"ppro", "p4"} THEN "masked" ELSE @]
  /\ pend' = pend \cup {x \in {c} : Sends(c)}
  /\ UNCHANGED << machine, configVars, controlVars, stateVars, idleVars, saved, on, midVars,
                  history >>

Take(c) ==
  /\ c \in pend /\ nmi[c] = "none" /\ pend' = pend \ {c}
  /\ UNCHANGED << machine, configVars, controlVars, stateVars, idleVars, saved, on, passed >>

Handled(c) ==
  /\ hw' = [hw EXCEPT ![c] = CheckCtrs(model, config, reset_value, running, @)]
  /\ history' = history \cup {f \in {"late"}      : c \notin on}
                        \cup {f \in {"restarted"} : passed[c] # {}}

(* An NMI without profile_exceptions_notify()                              *)
NmiUnclaimed(c) ==
  /\ model \in X86 /\ ~is_setup /\ Take(c)
  /\ Note("late", c \notin on)
  /\ UNCHANGED << hw, nmi >>

(* profile_exceptions_notify() looks at ctr_running ...                    *)
NmiEnter(c) ==
  /\ model \in X86 /\ is_setup /\ Take(c)
  /\ nmi' = [nmi EXCEPT ![c] = IF running THEN "check" ELSE "stop"]
  /\ Note("late", c \notin on)
  /\ UNCHANGED hw

(* ... and goes on with check_ctrs(), whatever ctr_running is now ...      *)
NmiCheck(c) ==
  /\ nmi[c] = "check" /\ nmi' = [nmi EXCEPT ![c] = "none"]
  /\ Handled(c)
  /\ UNCHANGED << machine, configVars, controlVars, stateVars, idleVars, saved, pend, on, passed >>

(* ... or, if nmi_enabled is set, with stop().                             *)
NmiStop(c) ==
  /\ nmi[c] = "stop" /\ nmi' = [nmi EXCEPT ![c] = "none"]
  /\ hw' = [hw EXCEPT ![c] = IF nmi_enabled THEN StopCtrs(model, @) ELSE @]
  /\ UNCHANGED << machine, configVars, controlVars, stateVars, idleVars, saved, pend, on, passed,
                  history >>

(* op_handle_interrupt(); without reserve_pmc_hardware() nobody handles it. *)
PmcInterrupt(c) ==
  /\ model \in PowerPC /\ c \notin at
  /\ Take(c) /\ UNCHANGED nmi
  /\ IF is_setup THEN Handled(c) ELSE UNCHANGED << hw, history >>

Interrupt(c) ==
  NmiUnclaimed(c) \/ NmiEnter(c) \/ NmiCheck(c) \/ NmiStop(c) \/ PmcInterrupt(c)

(* The handlers of on_each_cpu().  An NMI suspends what its CPU is doing.  *)
HandlerOnCpu(c) ==
  /\ nmi[c] = "none"
  /\ \/ SaveRegisters(c) \/ SetupCpu(c) \/ ShutdownCpu(c)
     \/ StartMark(c) \/ StartCpu(c) \/ StopCpu(c) \/ StopMark(c)
     \/ \E k \in Counters : StopCounter(c, k)

EndOfSection ==
  \/ EndSave \/ EndSetup \/ EndStart \/ EndStop
  \/ CanAdapt \/ CannotAdapt \/ Decay \/ EndAdapt \/ EndShutdown

Next ==
  \/ BeginSetup \/ BeginStart \/ BeginStop \/ BeginAdapt \/ BeginShutdown
  \/ Suspend \/ Resume \/ IdlePollWrite
  \/ EndOfSection
  \/ \E c \in CPUs : HandlerOnCpu(c)
  \/ \E c \in CPUs : Interrupt(c)
  \/ \E c \in CPUs, k \in Counters : Count(c, k)
  \/ \E k \in Counters : Configure(k)

Spec == Init /\ [][Next]_vars

-----------------------------------------------------------------------------
TypeOK ==
  /\ model \in X86 \cup PowerPC /\ pmc \subseteq CPUs /\ (model # "p4" => pmc = CPUs)
  /\ config \in [Counters -> [enabled : BOOLEAN, count : Nat, bound : SUBSET CPUs]]
  /\ reset_value \in [Counters -> Nat] /\ asked \in [Counters -> Nat]
  /\ section \in {"none", "save", "setup", "start", "stop", "decay", "adapt", "shutdown"}
  /\ adapting \in BOOLEAN /\ running \in BOOLEAN /\ nmi_enabled \in BOOLEAN
  /\ is_setup \in BOOLEAN /\ started \in BOOLEAN /\ asleep \in BOOLEAN
  /\ poll_idle_enabled \in BOOLEAN
  /\ pm_idle \in {"saved", "poll"} /\ adapt_value \in Nat /\ changes \in 0 .. MaxChanges
  /\ at \subseteq todo /\ todo \subseteq CPUs /\ pend \subseteq CPUs /\ on \subseteq CPUs
  /\ hw \in [CPUs -> Hardware] /\ saved \in [CPUs -> Hardware]
  /\ passed \in [CPUs -> SUBSET Counters] /\ nmi \in [CPUs -> {"none", "check", "stop"}]
  /\ history \subseteq {"late", "restarted", "reconfigured", "raced", "decayed", "slept",
                        "resumed"}

Happened(flags) == history \cap flags # {}

(* Nothing is profiled: ops.stop() has returned.                           *)
Stopped == section = "none" /\ ~started

(* The counters for which a handler of c logs a sample.                    *)
LoggedOn(c) == Logged(model, config, reset_value, running, hw[c])

(* Is this the step in which it does?                                      *)
Handles(c) ==
  \/ nmi[c] = "check" /\ nmi'[c] = "none"
  \/ model \in PowerPC /\ is_setup /\ c \in pend \ pend'

(* "Stop delivering interrupts" (oprofile.h): no counter counts when       *)
(* nothing is being profiled.                                              *)
CountersOff == Stopped => \A c \in CPUs : Counting(hw[c]) = {}

(* What leaves a counter on: an interrupt that was still on its way after  *)
(* stop() let it count again, a resume started it, or an NMI came inside   *)
(* the loop of athlon_stop() or p4_stop() and started what the loop had    *)
(* passed.                                                                 *)
CountersOffBetweenSessions == Happened({"late", "resumed", "restarted"}) \/ CountersOff

(* stop() leaves nothing on if no interrupt comes after it ("Subtle: stop  *)
(* on all counters", op_model_athlon.c).                                   *)
CountersOffUnlessLate == Happened({"late", "resumed"}) \/ CountersOff

(* The ring of a CPU has one writer: an interrupt logs a sample while      *)
(* oprofile_add_start() or oprofile_add_stop() writes only if it comes     *)
(* late, or if a resume had already started the counters.                  *)
OneWriter ==
  [][\A c \in at : Handles(c) /\ LoggedOn(c) # {} => Happened({"late", "resumed"})]_vars

(* No NMI that comes when ops.stop() has returned finds ctr_running set,   *)
(* and no interrupt logs a sample then, but on rs64, whose handler does    *)
(* not know whether profiling is on, and but for an NMI that has read      *)
(* ctr_running before.  on_each_cpu() waits for the NMIs of a CPU, so this *)
(* one came after its CPU had been stopped.                                *)
NoSampleAfterStop ==
  [][Stopped /\ ~Happened({"resumed"})
       => \A c \in CPUs :
            /\ nmi[c] = "none" => nmi'[c] # "check"
            /\ Handles(c) /\ LoggedOn(c) # {}
                 => c \notin on /\ model \in X86 \cup {"rs64"}]_vars

(* A sample is logged for an enabled counter that counted as many events   *)
(* as the user asked for times the interval announced last, unless the     *)
(* user changed the settings since the setup, a session follows one that   *)
(* was adapted (oprofile_start() announces 1 but the counts stay           *)
(* multiplied), a resume started counters without announcing anything, or, *)
(* on powerpc, an interrupt came late and let them count from zero.        *)
PeriodAsAnnounced ==
  [][~Happened({"reconfigured", "decayed", "resumed"})
       => \A c \in CPUs : Handles(c) => \A k \in LoggedOn(c) :
            \/ hw[c].period[k] = asked[k] * adapt_value
            \/ model \in PowerPC /\ Happened({"late"})']_vars

(* nmi_adapt() never takes the count of an enabled counter to 2^31 or      *)
(* beyond, where the counter would read as overflowed at once, unless the  *)
(* user's write came between its test and its multiplication.              *)
CountsFit ==
  ~Happened({"raced"}) => \A k \in Enabled(config) : config[k].count < Top

(* What the user asked of the counters that a CPU can be asked for.        *)
Granted(c) ==
  {k \in Enabled(config) : config[k].count # 0 /\ (model = "p4" => c \in pmc /\ k \in Bound(c))}

(* During a session every counter granted to the user on a CPU counts, and *)
(* can interrupt, or its interrupt is on its way or being handled.         *)
CpuCounts(c) ==
  \/ c \in pend \/ nmi[c] # "none"
  \/ /\ Granted(c) \subseteq Counting(hw[c])
     /\ model \in X86 => hw[c].lvtpc = "nmi"

(* Exceptions: the settings changed, the machine slept, or a late          *)
(* interrupt on a Pentium M or a P4 left LVTPC masked, which start() does  *)
(* not undo.                                                               *)
SessionCounts ==
  section = "none" /\ started /\ ~Happened({"reconfigured", "slept", "late"})
    => \A c \in CPUs : CpuCounts(c)

(* After ops.shutdown() the registers of every CPU hold what they held     *)
(* before ops.setup(), whatever came between.  The exception is a late     *)
(* interrupt in the shutdown of counters that a resume had started: with   *)
(* ctr_running set it lets the restored counters count again.              *)
RestoredAfterShutdown ==
  model \in X86 /\ ~is_setup /\ ~({"resumed", "late"} \subseteq history)
    => hw = [c \in CPUs |-> PowerOn]

(* The kernel's own idle loop is back when nothing is profiled, unless a   *)
(* resume started the counters.                                            *)
IdleRestored ==
  section = "none" /\ ~started /\ ~Happened({"resumed"}) => pm_idle = "saved"

(* A counter that a late interrupt let count again after the session can   *)
(* still interrupt, so that profile_exceptions_notify() stops it.          *)
LateCountersCanBeStopped ==
  model \in X86 /\ is_setup /\ ~running /\ section = "none"
    => \A c \in CPUs : Counting(hw[c]) # {} =>
         c \in pend \/ nmi[c] # "none" \/ hw[c].lvtpc = "nmi"
=============================================================================

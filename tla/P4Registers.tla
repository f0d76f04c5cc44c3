------------------------------ MODULE P4Registers ------------------------------
(***************************************************************************)
(* The registers of a Pentium 4 (x86/op_model_p4.c), which the two threads *)
(* of a hyper-threaded core divide among them: a thread saves and restores *)
(* every other control register, but the registers it writes in setup are  *)
(* not those it saves.  on_each_cpu() (x86/nmi_int.c) runs an operation on *)
(* both threads, in any order, and waits for both.                         *)
(***************************************************************************)
EXTENDS Integers, Sequences, FiniteSets

CONSTANT Settings    \* bound: the enabled counters, and the event of each

ASSUME P4Assumption ==
  \A c \in Settings : DOMAIN c \subseteq 0 .. 7 /\ \A i \in DOMAIN c : c[i] \in Nat

VARIABLES
  ht,        \* smp_num_siblings == 2
  old,       \* boot_cpu_data.x86_model < 3
  pmc,       \* MISC_PMC_ENABLED_P
  config,    \* counter_config: the event of each enabled counter
  reg,       \* the registers of the core
  active,    \* the CCCRs with the enable bit
  saved,     \* cpu_msrs[]: what each thread saved
  call,      \* the function on_each_cpu() runs, or ran last
  todo       \* the threads that have not run it yet

machine == << ht, old, pmc, config >>
p4Vars == << machine, reg, active, saved, call, todo >>

-----------------------------------------------------------------------------
(* Register numbers.                                                       *)
Bsu == \h3A0      \* MSR_P4_BSU_ESCR0, the first ESCR
Iq  == \h3BA      \* MSR_P4_IQ_ESCR0
Cccrs == \h360 .. \h371
Cru4 == \h3E0
Cru5 == \h3E1

p4_counters == << \h300, \h304, \h308, \h310, \h302, \h306, \h30A, \h311 >>
cccr_address(v) == p4_counters[v + 1] + \h60

p4_unused_cccr ==
  << \h361, \h363, \h365, \h367, \h369, \h36B, \h36C, \h36D, \h36E, \h36F >>

(* p4_events: the counters that can count an event, each with its ESCR.    *)
(* Counter v + 4 is the sibling's counterpart of counter v.                *)
Pair(v, escr) == { << v, escr >>, << v + 4, escr + 1 >> }

p4_events(e) ==
  CASE e \in {1, 18, 28, 32, 33, 34} -> Pair(3, \h3CC)
    [] e \in {2, 35, 36}   -> Pair(3, \h3B8)
    [] e = 37              -> Pair(3, \h3BC)
    [] e = 3               -> Pair(1, \h3C4)
    [] e \in {30, 31}      -> Pair(1, \h3C0)
    [] e \in {38, 39}      -> Pair(1, \h3C2)
    [] e = 4               -> Pair(0, \h3B2)
    [] e = 5               -> Pair(0, \h3B6)
    [] e = 10              -> Pair(0, \h3AA)
    [] e = 11              -> Pair(0, \h3AC)
    [] e = 12              -> Pair(0, Bsu)
    [] e \in {15, 29}      -> Pair(0, \h3A2)
    [] e = 6               -> Pair(2, \h3A8)
    [] e \in 7 .. 9        -> Pair(2, \h3AE)
    [] e \in 19 .. 27      -> Pair(2, \h3A4)
    [] e = 13              -> { << 0, \h3A2 >> }
    [] e = 14              -> { << 4, \h3A3 >> }
    [] e = 16              -> { << 0, Bsu >> }
    [] e = 17              -> { << 4, Bsu + 1 >> }
    [] OTHER               -> {}          \* "event code out of range"

num_counters == IF ht THEN 4 ELSE 8
num_controls == IF ht THEN 32 ELSE 63
addr_increment == IF ht THEN 2 ELSE 1
Threads == IF ht THEN {0, 1} ELSE {0}     \* get_stagger()
VIRT_CTR(s, i) == i + num_counters * s
Own(s) == {VIRT_CTR(s, i) : i \in 0 .. num_counters - 1}

(* for (addr = lo + stag; addr <= hi; addr += addr_increment())            *)
Staggered(lo, hi, s) ==
  [n \in 1 .. (hi - lo - s) \div addr_increment + 1 |-> lo + s + (n - 1) * addr_increment]

-----------------------------------------------------------------------------
(* Mutant: "<=" in the loop over the first ESCRs.                          *)
ControlAddressesPastIq(s) ==
  Staggered(\h360, \h371, s) \o Staggered(Bsu, Iq, s)
  \o (IF old THEN Staggered(Iq, Iq + 1, s) ELSE Staggered(Bsu, Bsu + 1, s))
  \o Staggered(\h3BC, \h3BE, s) \o Staggered(\h3C0, \h3C5, s) \o Staggered(\h3C8, \h3CD, s)
  \o (IF ~ht THEN << Cru5, Cru4 >> ELSE IF s = 0 THEN << Cru4 >> ELSE << Cru5, Cru5 >>)

(* p4_fill_in_addresses(): the entries of msrs->controls, in order.  Later *)
(* models have no IQ_ESCRs and save the BSU_ESCRs twice.                   *)
ControlAddresses(s) ==
  Staggered(\h360, \h371, s) \o Staggered(Bsu, Iq - 1, s)
  \o (IF old THEN Staggered(Iq, Iq + 1, s) ELSE Staggered(Bsu, Bsu + 1, s))
  \o Staggered(\h3BC, \h3BE, s) \o Staggered(\h3C0, \h3C5, s) \o Staggered(\h3C8, \h3CD, s)
  \o (IF ~ht THEN << Cru5, Cru4 >> ELSE IF s = 0 THEN << Cru4 >> ELSE << Cru5, Cru5 >>)

Elements(seq) == {seq[n] : n \in DOMAIN seq}

SavedAddresses(s) ==
  Elements(ControlAddresses(s)) \cup {p4_counters[v + 1] : v \in Own(s)}

(* The CCCRs that p4_setup_ctrs() clears ...                               *)
ClearedCccrs(s) ==
  {cccr_address(v) : v \in Own(s)}
  \cup {p4_unused_cccr[n + 1] : n \in {k \in 0 .. 9 : k \in Elements(Staggered(0, 9, s))}}

(* Mutant: ... and every ESCR, whichever thread it belongs to.             *)
ClearedEscrsOfBoth(s) == Bsu .. (IF old THEN Iq + 1 ELSE Iq - 1)
  \cup \h3BC .. \h3BE \cup \h3C0 .. \h3C5 \cup \h3C8 .. \h3CD \cup {Cru4, Cru5}

(* ... and the ESCRs: every other one of the range, but both IQ_ESCRs.     *)
ClearedEscrs(s) ==
  Elements(Staggered(Bsu, Iq - 1, s)) \cup (IF old THEN {Iq, Iq + 1} ELSE {})
  \cup Elements(Staggered(\h3BC, \h3BE, s)) \cup Elements(Staggered(\h3C0, \h3C5, s))
  \cup Elements(Staggered(\h3C8, \h3CD, s))
  \cup (IF ~ht THEN {Cru4, Cru5} ELSE IF s = 0 THEN {Cru4} ELSE {Cru5})

Msrs == Cccrs \cup Elements(p4_counters)
        \cup UNION {Elements(ControlAddresses(s)) \cup ClearedEscrs(s) : s \in Threads}

(* pmc_setup_one_p4_counter(): the binding that counter i finds on this    *)
(* thread, if any.                                                         *)
Binding(s, i) == {b \in p4_events(config[i]) : b[1] = VIRT_CTR(s, i)}

(* Contents of a register, as far as the driver tells them apart.          *)
Boot     == << "boot" >>
Clear    == << "clear" >>
Reload   == << "count" >>
Selects(e, s) == << "select", e, s >>     \* a CCCR for an event of a thread
Counts(e, s)  == << "event", e, s >>      \* an ESCR

Programmed(s, a) ==
  {Reload : i \in {j \in DOMAIN config : p4_counters[VIRT_CTR(s, j) + 1] = a}}
  \cup {Selects(config[i], s) :
          i \in {j \in DOMAIN config : Binding(s, j) # {} /\ cccr_address(VIRT_CTR(s, j)) = a}}
  \cup {Counts(config[i], s) :
          i \in {j \in DOMAIN config : \E b \in Binding(s, j) : b[2] = a}}

p4_setup_ctrs(s) ==
  IF ~pmc THEN reg ELSE
  [a \in DOMAIN reg |->
     IF Programmed(s, a) # {} THEN CHOOSE v \in Programmed(s, a) : TRUE
     ELSE IF a \in ClearedCccrs(s) \cup ClearedEscrs(s) THEN Clear
     ELSE reg[a]]

-----------------------------------------------------------------------------
Configs == {c \in Settings : DOMAIN c \subseteq 0 .. num_counters - 1}

P4Init ==
  /\ ht \in BOOLEAN /\ old \in BOOLEAN /\ pmc \in BOOLEAN
  /\ config \in Configs
  /\ reg = [a \in Msrs |-> Boot] /\ active = {}
  /\ saved = [s \in Threads |-> << >>]
  /\ call = "shutdown" /\ todo = {}

(* nmi_setup(), nmi_start(), nmi_stop(), nmi_shutdown(): the next call of  *)
(* on_each_cpu(), when the last one is over.                               *)
Call(f) ==
  /\ todo = {} /\ todo' = Threads /\ call' = f
  /\ << call, f >> \in { << "shutdown", "save" >>, << "save", "setup" >>,
                         << "setup", "start" >>, << "setup", "shutdown" >>,
                         << "start", "stop" >>, << "stop", "start" >>, << "stop", "shutdown" >> }
  /\ UNCHANGED << machine, reg, active, saved >>

Runs(s, f) == s \in todo /\ call = f /\ todo' = todo \ {s} /\ UNCHANGED << machine, call >>

(* Mutant: a thread saves and sets up in one call, cf. nmi_int.c:319.      *)
SaveRegistersAndSetup(s) ==
  /\ Runs(s, "save")
  /\ saved' = [saved EXCEPT ![s] = [a \in SavedAddresses(s) |-> reg[a]]]
  /\ reg' = p4_setup_ctrs(s)
  /\ UNCHANGED active

SaveRegisters(s) ==
  /\ Runs(s, "save")
  /\ saved' = [saved EXCEPT ![s] = [a \in SavedAddresses(s) |-> reg[a]]]
  /\ UNCHANGED << reg, active >>

SetupCtrs(s) ==
  /\ Runs(s, "setup")
  /\ reg' = p4_setup_ctrs(s)
  /\ active' = IF pmc THEN active \ ClearedCccrs(s) ELSE active
  /\ UNCHANGED saved

(* reset_value is set for the enabled counters, unless setup gave up.      *)
p4_start(s) ==
  /\ Runs(s, "start")
  /\ active' = active \cup {cccr_address(VIRT_CTR(s, i)) : i \in IF pmc THEN DOMAIN config ELSE {}}
  /\ UNCHANGED << reg, saved >>

p4_stop(s) ==
  /\ Runs(s, "stop")
  /\ active' = active \ {cccr_address(v) : v \in Own(s)}
  /\ UNCHANGED << reg, saved >>

RestoreRegisters(s) ==
  /\ Runs(s, "shutdown")
  /\ reg' = [a \in DOMAIN reg |-> IF a \in DOMAIN saved[s] THEN saved[s][a] ELSE reg[a]]
  /\ active' = active \ DOMAIN saved[s]
  /\ saved' = [saved EXCEPT ![s] = << >>]

P4Next ==
  \/ \E f \in {"save", "setup", "start", "stop", "shutdown"} : Call(f)
  \/ \E s \in Threads : \/ SaveRegisters(s) \/ SetupCtrs(s) \/ p4_start(s)
                        \/ p4_stop(s) \/ RestoreRegisters(s)

P4Spec == P4Init /\ [][P4Next]_p4Vars

-----------------------------------------------------------------------------
(* allocate_msrs() gets num_controls entries and does not clear them, and  *)
(* nmi_cpu_save_registers() reads the address of each: p4_fill_in_addresses*)
(* must fill them all, and none beyond, on every model and both threads.   *)
EveryControlFilled == \A s \in Threads : Len(ControlAddresses(s)) = num_controls

(* After shutdown every register is as the firmware left it, whichever of  *)
(* the threads saved, wrote and restored it, and in whatever order.  This  *)
(* is what serialising save and setup is for (nmi_int.c:319).              *)
P4RegistersRestored ==
  call = "shutdown" /\ todo = {} => active = {} /\ \A a \in DOMAIN reg : reg[a] = Boot

(* Between setup and shutdown every enabled counter with a binding on its  *)
(* thread has its own ESCR and CCCR: neither the sibling nor another       *)
(* counter has cleared or claimed them.  Exactly the enabled counters run  *)
(* after a start and none after a stop.                                    *)
P4EventsProgrammed ==
  pmc /\ todo = {} /\ call \in {"setup", "start", "stop"} =>
    /\ \A s \in Threads, i \in DOMAIN config : \A b \in Binding(s, i) :
         /\ reg[cccr_address(b[1])] = Selects(config[i], s)
         /\ reg[b[2]] = Counts(config[i], s)
    /\ active = {cccr_address(VIRT_CTR(s, i)) :
                   s \in Threads, i \in IF call = "start" THEN DOMAIN config ELSE {}}
=============================================================================

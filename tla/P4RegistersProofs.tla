--------------------------- MODULE P4RegistersProofs ---------------------------
(***************************************************************************)
(* Proofs about the registers of a Pentium 4, for every choice of events   *)
(* on any of the counters.  First which registers the loops of the driver  *)
(* go over: a sequence of addresses is the set of every, or every other,   *)
(* address of a range.  From it two facts about the threads of a core:     *)
(* what either writes in setup, one of them has saved (WrittenAreSaved),   *)
(* and what one of them binds a counter to the other leaves alone          *)
(* (SiblingLeaves).  The invariants then say what the copies hold, what is *)
(* not covered by a copy, which counters run and what they are bound to.   *)
(***************************************************************************)
EXTENDS P4Registers, TLAPS

(* Two parts of p4_fill_in_addresses(), one after the other.               *)
LEMMA ElementsOfBoth ==
  ASSUME NEW p \in Seq(Nat), NEW q \in Seq(Nat)
  PROVE  /\ p \o q \in Seq(Nat) /\ Len(p \o q) = Len(p) + Len(q)
         /\ \A a : a \in Elements(p \o q) <=> a \in Elements(p) \/ a \in Elements(q)
<1>1. /\ p \o q \in Seq(Nat) /\ Len(p \o q) = Len(p) + Len(q)
      /\ Len(p) \in Nat /\ Len(q) \in Nat
  OBVIOUS
<1>2. /\ \A n \in 1 .. Len(p) + Len(q) :
           (p \o q)[n] = IF n <= Len(p) THEN p[n] ELSE q[n - Len(p)]
      /\ DOMAIN (p \o q) = 1 .. Len(p) + Len(q)
      /\ DOMAIN p = 1 .. Len(p) /\ DOMAIN q = 1 .. Len(q)
  BY <1>1
<1>3. ASSUME NEW a, a \in Elements(p \o q) PROVE a \in Elements(p) \/ a \in Elements(q)
  <2>1. PICK n \in 1 .. Len(p) + Len(q) : a = (p \o q)[n]
    BY <1>2, <1>3 DEF Elements
  <2>2. CASE n <= Len(p)
    BY <1>1, <1>2, <2>1, <2>2 DEF Elements
  <2>3. CASE ~(n <= Len(p))
    <3>1. n - Len(p) \in 1 .. Len(q) /\ a = q[n - Len(p)]
      BY <1>1, <1>2, <2>1, <2>3
    <3> QED
      BY <1>2, <3>1 DEF Elements
  <2> QED
    BY <2>2, <2>3
<1>4. ASSUME NEW a, a \in Elements(p) \/ a \in Elements(q) PROVE a \in Elements(p \o q)
  <2>1. CASE a \in Elements(p)
    <3>1. PICK n \in 1 .. Len(p) : a = p[n]
      BY <1>2, <2>1 DEF Elements
    <3>2. n \in 1 .. Len(p) + Len(q) /\ a = (p \o q)[n]
      BY <1>1, <1>2, <3>1
    <3> QED
      BY <1>2, <3>2 DEF Elements
  <2>2. CASE a \in Elements(q)
    <3>1. PICK n \in 1 .. Len(q) : a = q[n]
      BY <1>2, <2>2 DEF Elements
    <3>2. n + Len(p) \in 1 .. Len(p) + Len(q) /\ a = (p \o q)[n + Len(p)]
      BY <1>1, <1>2, <3>1
    <3> QED
      BY <1>2, <3>2 DEF Elements
  <2> QED
    BY <1>4, <2>1, <2>2
<1> QED
  BY <1>1, <1>3, <1>4

(* One of its loops.                                                       *)
LEMMA StaggeredElements ==
  ASSUME NEW lo \in Nat, NEW hi \in Nat, NEW s \in {0, 1}, lo + s <= hi
  PROVE  /\ Staggered(lo, hi, s) \in Seq(Nat)
         /\ Len(Staggered(lo, hi, s)) = (hi - lo - s) \div addr_increment + 1
         /\ \A a : a \in Elements(Staggered(lo, hi, s))
                     <=> a \in lo + s .. hi /\ (ht => a % 2 = (lo + s) % 2)
<1> DEFINE len == (hi - lo - s) \div addr_increment + 1
           el(n) == lo + s + (n - 1) * addr_increment
<1>1. len \in Nat /\ \A n \in 1 .. len : el(n) \in lo + s .. hi /\ (ht => el(n) % 2 = (lo + s) % 2)
  BY DEF addr_increment
<1>2. Staggered(lo, hi, s) = [n \in 1 .. len |-> el(n)]
  BY DEF Staggered
<1>3. ASSUME NEW a \in lo + s .. hi, ht => a % 2 = (lo + s) % 2
      PROVE  \E n \in 1 .. len : a = el(n)
  <2>1. CASE ht
    <3> DEFINE n == (a - lo - s) \div 2 + 1
    <3>1. n \in 1 .. len /\ a = el(n)
      BY <1>3, <2>1 DEF addr_increment
    <3> QED
      BY <3>1
  <2>2. CASE ~ht
    <3>1. a - lo - s + 1 \in 1 .. len /\ a = el(a - lo - s + 1)
      BY <1>3, <2>2 DEF addr_increment
    <3> QED
      BY <3>1
  <2> QED
    BY <2>1, <2>2
<1> HIDE DEF len
<1>4. \A n \in 1 .. len : el(n) \in Nat
  BY <1>1
<1> HIDE DEF el
<1>5. Staggered(lo, hi, s) \in Seq(Nat) /\ Len(Staggered(lo, hi, s)) = len
  BY <1>1, <1>2, <1>4
<1>6. \A a : a \in Elements(Staggered(lo, hi, s)) <=> \E n \in 1 .. len : a = el(n)
  BY <1>2 DEF Elements
<1>7. \A a : a \in Elements(Staggered(lo, hi, s))
              <=> a \in lo + s .. hi /\ (ht => a % 2 = (lo + s) % 2)
  BY <1>1, <1>3, <1>6
<1> QED
  BY <1>5, <1>7 DEF len

-----------------------------------------------------------------------------
(* What a loop of p4_fill_in_addresses() or p4_setup_ctrs() goes over.     *)
Every(lo, hi, s) == {a \in lo + s .. hi : ht => a % 2 = (lo + s) % 2}

Controls(s) ==
  Every(\h360, \h371, s) \cup Every(Bsu, Iq - 1, s)
  \cup (IF old THEN Every(Iq, Iq + 1, s) ELSE Every(Bsu, Bsu + 1, s))
  \cup Every(\h3BC, \h3BE, s) \cup Every(\h3C0, \h3C5, s) \cup Every(\h3C8, \h3CD, s)
  \cup (IF ~ht THEN {Cru4, Cru5} ELSE IF s = 0 THEN {Cru4} ELSE {Cru5})

(* What the entries are, and how many.                                     *)
Fills(seq, S, n) == seq \in Seq(Nat) /\ Len(seq) = n /\ \A a : a \in Elements(seq) <=> a \in S

LEMMA StaggeredFills ==
  ASSUME NEW lo \in Nat, NEW hi \in Nat, NEW s \in Threads, lo + s <= hi
  PROVE  Fills(Staggered(lo, hi, s), Every(lo, hi, s),
               IF ht THEN (hi - lo - s) \div 2 + 1 ELSE hi - lo + 1)
<1>1. s \in {0, 1} /\ (~ht => s = 0)
  BY DEF Threads
<1>2. (hi - lo - s) \div addr_increment + 1 = IF ht THEN (hi - lo - s) \div 2 + 1 ELSE hi - lo + 1
  BY <1>1 DEF addr_increment
<1>3. /\ Staggered(lo, hi, s) \in Seq(Nat)
      /\ Len(Staggered(lo, hi, s)) = (hi - lo - s) \div addr_increment + 1
      /\ \A a : a \in Elements(Staggered(lo, hi, s))
                  <=> a \in lo + s .. hi /\ (ht => a % 2 = (lo + s) % 2)
  BY <1>1, StaggeredElements, ZenonT(30)
<1> QED
  BY <1>2, <1>3 DEF Fills, Every

LEMMA FillsBoth ==
  ASSUME NEW p, NEW q, NEW P, NEW Q, NEW m, NEW n, Fills(p, P, m), Fills(q, Q, n)
  PROVE  Fills(p \o q, P \cup Q, m + n)
BY ElementsOfBoth DEF Fills

LEMMA ControlsAreFilled == ASSUME NEW s \in Threads
                           PROVE  Fills(ControlAddresses(s), Controls(s), num_controls)
<1>0. s \in {0, 1} /\ (~ht => s = 0)
  BY DEF Threads
<1> DEFINE A == Staggered(\h360, \h371, s)
           B == Staggered(Bsu, Iq - 1, s)
           C == IF old THEN Staggered(Iq, Iq + 1, s) ELSE Staggered(Bsu, Bsu + 1, s)
           D == Staggered(\h3BC, \h3BE, s)
           E == Staggered(\h3C0, \h3C5, s)
           F == Staggered(\h3C8, \h3CD, s)
           G == IF ~ht THEN << Cru5, Cru4 >> ELSE IF s = 0 THEN << Cru4 >> ELSE << Cru5, Cru5 >>
           inA == Every(\h360, \h371, s)
           inB == Every(Bsu, Iq - 1, s)
           inC == IF old THEN Every(Iq, Iq + 1, s) ELSE Every(Bsu, Bsu + 1, s)
           inD == Every(\h3BC, \h3BE, s)
           inE == Every(\h3C0, \h3C5, s)
           inF == Every(\h3C8, \h3CD, s)
           inG == IF ~ht THEN {Cru4, Cru5} ELSE IF s = 0 THEN {Cru4} ELSE {Cru5}
           nA == IF ht THEN 9 ELSE 18
           nB == IF ht THEN 13 ELSE 26
           nC == IF ht THEN 1 ELSE 2
           nD == IF ~ht THEN 3 ELSE IF s = 0 THEN 2 ELSE 1
           nE == IF ht THEN 3 ELSE 6
           nF == IF ht THEN 3 ELSE 6
           nG == IF ht /\ s = 0 THEN 1 ELSE 2
<1>1. Fills(A, inA, nA)
  <2>1. (IF ht THEN (\h371 - \h360 - s) \div 2 + 1 ELSE \h371 - \h360 + 1) = nA
    BY <1>0
  <2>2. \h360 \in Nat /\ \h371 \in Nat /\ \h360 + s <= \h371
    BY <1>0
  <2> HIDE DEF nA
  <2> QED
    BY <2>1, <2>2, StaggeredFills
<1>2. Fills(B, inB, nB)
  <2>1. (IF ht THEN (Iq - 1 - Bsu - s) \div 2 + 1 ELSE Iq - 1 - Bsu + 1) = nB
    BY <1>0 DEF Bsu, Iq
  <2>2. Bsu \in Nat /\ Iq - 1 \in Nat /\ Bsu + s <= Iq - 1
    BY <1>0 DEF Bsu, Iq
  <2> HIDE DEF nB
  <2> QED
    BY <2>1, <2>2, StaggeredFills
<1>3. Fills(C, inC, nC)
  <2>1. ASSUME NEW lo \in Nat, NEW hi \in Nat, hi = lo + 1
        PROVE  Fills(Staggered(lo, hi, s), Every(lo, hi, s), nC)
    <3>1. (IF ht THEN (hi - lo - s) \div 2 + 1 ELSE hi - lo + 1) = nC
      BY <1>0, <2>1
    <3>2. lo + s <= hi
      BY <1>0, <2>1
    <3> HIDE DEF nC
    <3> QED
      BY <3>1, <3>2, StaggeredFills
  <2>2. Bsu \in Nat /\ Iq \in Nat /\ Bsu + 1 \in Nat /\ Iq + 1 \in Nat
    BY DEF Bsu, Iq
  <2> HIDE DEF nC
  <2> QED
    BY <2>1, <2>2
<1>4. Fills(D, inD, nD)
  <2>1. (IF ht THEN (\h3BE - \h3BC - s) \div 2 + 1 ELSE \h3BE - \h3BC + 1) = nD
    BY <1>0
  <2>2. \h3BC \in Nat /\ \h3BE \in Nat /\ \h3BC + s <= \h3BE
    BY <1>0
  <2> HIDE DEF nD
  <2> QED
    BY <2>1, <2>2, StaggeredFills
<1>5. Fills(E, inE, nE)
  <2>1. (IF ht THEN (\h3C5 - \h3C0 - s) \div 2 + 1 ELSE \h3C5 - \h3C0 + 1) = nE
    BY <1>0
  <2>2. \h3C0 \in Nat /\ \h3C5 \in Nat /\ \h3C0 + s <= \h3C5
    BY <1>0
  <2> HIDE DEF nE
  <2> QED
    BY <2>1, <2>2, StaggeredFills
<1>6. Fills(F, inF, nF)
  <2>1. (IF ht THEN (\h3CD - \h3C8 - s) \div 2 + 1 ELSE \h3CD - \h3C8 + 1) = nF
    BY <1>0
  <2>2. \h3C8 \in Nat /\ \h3CD \in Nat /\ \h3C8 + s <= \h3CD
    BY <1>0
  <2> HIDE DEF nF
  <2> QED
    BY <2>1, <2>2, StaggeredFills
<1>7. Fills(G, inG, nG)
  <2>1. Cru4 \in Nat /\ Cru5 \in Nat
    BY DEF Cru4, Cru5
  <2> QED
    BY <1>0, <2>1 DEF Elements, Fills
<1>8. /\ ControlAddresses(s) = A \o B \o C \o D \o E \o F \o G
      /\ Controls(s) = inA \cup inB \cup inC \cup inD \cup inE \cup inF \cup inG
  BY DEF ControlAddresses, Controls
<1>9. nA + nB + nC + nD + nE + nF + nG = num_controls
  BY <1>0 DEF num_controls
<1> HIDE DEF A, B, C, D, E, F, G, inA, inB, inC, inD, inE, inF, inG, nA, nB, nC, nD, nE, nF, nG
<1>10. Fills(A \o B, inA \cup inB, nA + nB)
  BY <1>1, <1>2, FillsBoth
<1>11. Fills(A \o B \o C, inA \cup inB \cup inC, nA + nB + nC)
  BY <1>3, <1>10, FillsBoth
<1>12. Fills(A \o B \o C \o D, inA \cup inB \cup inC \cup inD, nA + nB + nC + nD)
  BY <1>4, <1>11, FillsBoth
<1>13. Fills(A \o B \o C \o D \o E, inA \cup inB \cup inC \cup inD \cup inE,
             nA + nB + nC + nD + nE)
  BY <1>5, <1>12, FillsBoth
<1>14. Fills(A \o B \o C \o D \o E \o F, inA \cup inB \cup inC \cup inD \cup inE \cup inF,
             nA + nB + nC + nD + nE + nF)
  BY <1>6, <1>13, FillsBoth
<1>15. Fills(A \o B \o C \o D \o E \o F \o G,
             inA \cup inB \cup inC \cup inD \cup inE \cup inF \cup inG,
             nA + nB + nC + nD + nE + nF + nG)
  BY <1>7, <1>14, FillsBoth
<1> QED
  BY <1>8, <1>9, <1>15

(* The two threads together go over all of a range.                        *)
LEMMA TogetherEvery ==
  ASSUME NEW lo \in Nat, NEW hi \in Nat, NEW a \in lo .. hi, lo % 2 = 0
  PROVE  \E s \in Threads : a \in Every(lo, hi, s)
<1>1. CASE ht
  <2>1. a % 2 \in Threads /\ a \in Every(lo, hi, a % 2)
    BY <1>1 DEF Threads, Every
  <2> QED
    BY <2>1
<1>2. CASE ~ht
  BY <1>2 DEF Threads, Every
<1> QED
  BY <1>1, <1>2

(* The table of events.                                                    *)
Escrs == Bsu .. Iq - 1 \cup \h3BC .. \h3BE \cup \h3C0 .. \h3C5 \cup \h3C8 .. \h3CD

LEMMA EventTable ==
  ASSUME NEW e \in Nat, NEW b \in p4_events(e)
  PROVE  /\ b[1] \in 0 .. 7 /\ b[2] \in Escrs /\ b[2] # Iq /\ b[2] # Iq + 1
         /\ b[2] % 2 = IF b[1] < 4 THEN 0 ELSE 1
BY DEF p4_events, Pair, Bsu, Iq, Escrs

(* An ESCR is for one counter.                                             *)
LEMMA EscrDecides ==
  ASSUME NEW e \in Nat, NEW f \in Nat, NEW b \in p4_events(e), NEW c \in p4_events(f), b[2] = c[2]
  PROVE  b[1] = c[1]
BY DEF p4_events, Pair, Bsu

(* Addresses of counters and CCCRs: all different, and no ESCRs.           *)
LEMMA Addresses ==
  /\ \A v \in 0 .. 7 : /\ cccr_address(v) \in Cccrs /\ p4_counters[v + 1] \in \h300 .. \h311
                       /\ p4_counters[v + 1] \in Elements(p4_counters)
  /\ \A v \in 0 .. 7, w \in 0 .. 7 : cccr_address(v) = cccr_address(w) => v = w
  /\ \A n \in 0 .. 9 : /\ p4_unused_cccr[n + 1] \in Cccrs
                       /\ \A v \in 0 .. 7 : p4_unused_cccr[n + 1] # cccr_address(v)
  /\ \A a \in Cccrs : a \notin \h300 .. \h311 /\ a \notin Escrs
  /\ \A a \in Escrs : a \notin \h300 .. \h311
<1>1. \A v \in 0 .. 7 : v + 1 \in DOMAIN p4_counters
  BY DEF p4_counters
<1>2. \A v \in 0 .. 7 : p4_counters[v + 1] \in Elements(p4_counters)
  BY <1>1 DEF Elements
<1>3. \A v \in 0 .. 7 : cccr_address(v) \in Cccrs /\ p4_counters[v + 1] \in \h300 .. \h311
  BY DEF cccr_address, p4_counters, Cccrs
<1>4. \A v \in 0 .. 7, w \in 0 .. 7 : cccr_address(v) = cccr_address(w) => v = w
  BY DEF cccr_address, p4_counters
<1>5. \A n \in 0 .. 9 : p4_unused_cccr[n + 1] \in Cccrs
  BY DEF p4_unused_cccr, Cccrs
<1>6. ASSUME NEW n \in 0 .. 9, NEW v \in 0 .. 7 PROVE p4_unused_cccr[n + 1] # cccr_address(v)
  <2>1. cccr_address(v) \in {\h360, \h364, \h368, \h370, \h362, \h366, \h36A, \h371}
    BY DEF cccr_address, p4_counters
  <2>2. p4_unused_cccr[n + 1] \in {\h361, \h363, \h365, \h367, \h369} \cup \h36B .. \h36F
    BY DEF p4_unused_cccr
  <2> QED
    BY <2>1, <2>2
<1>7. /\ \A a \in Cccrs : a \notin \h300 .. \h311 /\ a \notin Escrs
      /\ \A a \in Escrs : a \notin \h300 .. \h311
  BY DEF Cccrs, Escrs, Bsu, Iq
<1> QED
  BY <1>2, <1>3, <1>4, <1>5, <1>6, <1>7

(* The counters of a thread, and what they are bound to.                   *)
LEMMA OwnCounters ==
  ASSUME NEW s \in Threads
  PROVE  /\ Own(s) \subseteq 0 .. 7
         /\ \A t \in Threads : s # t => ht /\ Own(s) \cap Own(t) = {}
BY DEF Threads, Own, VIRT_CTR, num_counters

LEMMA OwnBinding ==
  ASSUME config \in Configs, NEW s \in Threads, NEW i \in DOMAIN config
  PROVE  /\ i \in 0 .. 7 /\ config[i] \in Nat /\ VIRT_CTR(s, i) \in Own(s)
         /\ VIRT_CTR(s, i) \in 0 .. 7
         /\ \A j \in DOMAIN config : VIRT_CTR(s, i) = VIRT_CTR(s, j) => i = j
         /\ \A b \in Binding(s, i) :
              /\ b \in p4_events(config[i]) /\ b[1] = VIRT_CTR(s, i)
              /\ b[2] \in Escrs /\ b[2] # Iq /\ b[2] # Iq + 1
              /\ ht => b[2] % 2 = s
<1>1. /\ DOMAIN config \subseteq 0 .. num_counters - 1 /\ config[i] \in Nat
      /\ s \in {0, 1} /\ (~ht => s = 0) /\ num_counters = IF ht THEN 4 ELSE 8
  BY P4Assumption DEF Configs, Threads, num_counters
<1>2. /\ i \in 0 .. 7 /\ VIRT_CTR(s, i) \in Own(s) /\ VIRT_CTR(s, i) \in 0 .. 7
      /\ \A j \in DOMAIN config : VIRT_CTR(s, i) = VIRT_CTR(s, j) => i = j
      /\ ht => (VIRT_CTR(s, i) < 4 <=> s = 0)
  BY <1>1 DEF VIRT_CTR, Own
<1>3. ASSUME NEW b \in Binding(s, i)
      PROVE  /\ b \in p4_events(config[i]) /\ b[1] = VIRT_CTR(s, i)
             /\ b[2] \in Escrs /\ b[2] # Iq /\ b[2] # Iq + 1
             /\ ht => b[2] % 2 = s
  <2>1. b \in p4_events(config[i]) /\ b[1] = VIRT_CTR(s, i)
    BY <1>3 DEF Binding
  <2> QED
    BY <1>1, <1>2, <2>1, EventTable
<1> QED
  BY <1>1, <1>2, <1>3

(* What setup clears.                                                      *)
LEMMA ClearedAre ==
  ASSUME NEW s \in Threads, NEW a
  PROVE  /\ a \in ClearedCccrs(s) =>
              /\ a \in Cccrs
              /\ \A v \in 0 .. 7 : a = cccr_address(v) => v \in Own(s)
         /\ a \in ClearedEscrs(s) =>
              \/ a \in Escrs /\ (ht => a % 2 = s)
              \/ old /\ a \in {Iq, Iq + 1}
              \/ a \in {Cru4, Cru5}
<1>1. s \in {0, 1} /\ Own(s) \subseteq 0 .. 7
  BY OwnCounters DEF Threads
<1>2. ASSUME a \in ClearedCccrs(s)
      PROVE  a \in Cccrs /\ \A v \in 0 .. 7 : a = cccr_address(v) => v \in Own(s)
  <2>1. CASE \E v \in Own(s) : a = cccr_address(v)
    BY <1>1, <2>1, Addresses
  <2>2. CASE \E n \in 0 .. 9 : a = p4_unused_cccr[n + 1]
    BY <2>2, Addresses
  <2> QED
    BY <1>2, <2>1, <2>2 DEF ClearedCccrs
<1>3. ASSUME a \in ClearedEscrs(s)
      PROVE  \/ a \in Escrs /\ (ht => a % 2 = s)
             \/ old /\ a \in {Iq, Iq + 1}
             \/ a \in {Cru4, Cru5}
  <2>1. ASSUME NEW lo \in Nat, NEW hi \in Nat, a \in Elements(Staggered(lo, hi, s)), lo < hi,
               lo % 2 = 0
        PROVE  a \in lo .. hi /\ (ht => a % 2 = s)
    <3>1. lo + s <= hi
      BY <1>1, <2>1
    <3>2. a \in Every(lo, hi, s)
      BY <2>1, <3>1, StaggeredFills DEF Fills
    <3> QED
      BY <1>1, <2>1, <3>2 DEF Every
  <2>2. /\ Bsu \in Nat /\ Iq - 1 \in Nat /\ Bsu < Iq - 1 /\ Bsu % 2 = 0
    BY DEF Bsu, Iq
  <2>3. \/ \/ a \in Elements(Staggered(Bsu, Iq - 1, s))
           \/ a \in Elements(Staggered(\h3BC, \h3BE, s))
           \/ a \in Elements(Staggered(\h3C0, \h3C5, s))
           \/ a \in Elements(Staggered(\h3C8, \h3CD, s))
        \/ old /\ a \in {Iq, Iq + 1}
        \/ a \in {Cru4, Cru5}
    BY <1>3 DEF ClearedEscrs
  <2>4. CASE a \in Elements(Staggered(Bsu, Iq - 1, s))
    BY <2>1, <2>2, <2>4 DEF Escrs
  <2>5. CASE a \in Elements(Staggered(\h3BC, \h3BE, s))
    BY <2>1, <2>5 DEF Escrs
  <2>6. CASE a \in Elements(Staggered(\h3C0, \h3C5, s))
    BY <2>1, <2>6 DEF Escrs
  <2>7. CASE a \in Elements(Staggered(\h3C8, \h3CD, s))
    BY <2>1, <2>7 DEF Escrs
  <2> QED
    BY <2>3, <2>4, <2>5, <2>6, <2>7
<1> QED
  BY <1>2, <1>3

(* Whatever a thread writes in setup, it or its sibling has saved.         *)
LEMMA ControlsAreSaved ==
  ASSUME NEW a, a \in Cccrs \/ a \in Escrs \/ (old /\ a \in {Iq, Iq + 1}) \/ a \in {Cru4, Cru5}
  PROVE  \E t \in Threads : a \in SavedAddresses(t)
<1>1. SUFFICES \E t \in Threads : a \in Controls(t)
  BY ControlsAreFilled DEF Fills, SavedAddresses
<1>2. CASE a \in Cccrs
  BY <1>2, TogetherEvery DEF Cccrs, Controls
<1>3. CASE a \in Escrs
  <2>1. CASE a \in Bsu .. Iq - 1
    <3>1. Bsu \in Nat /\ Iq - 1 \in Nat /\ Bsu % 2 = 0
      BY DEF Bsu, Iq
    <3> QED
      BY <2>1, <3>1, TogetherEvery DEF Controls
  <2>2. CASE a \in \h3BC .. \h3BE
    BY <2>2, TogetherEvery DEF Controls
  <2>3. CASE a \in \h3C0 .. \h3C5
    BY <2>3, TogetherEvery DEF Controls
  <2>4. CASE a \in \h3C8 .. \h3CD
    BY <2>4, TogetherEvery DEF Controls
  <2> QED
    BY <1>3, <2>1, <2>2, <2>3, <2>4 DEF Escrs
<1>4. CASE old /\ a \in {Iq, Iq + 1}
  <2>1. Iq \in Nat /\ Iq + 1 \in Nat /\ Iq % 2 = 0 /\ a \in Iq .. Iq + 1
    BY <1>4 DEF Iq
  <2> QED
    BY <1>4, <2>1, TogetherEvery DEF Controls
<1>5. CASE a \in {Cru4, Cru5}
  <2>1. CASE ht
    BY <1>5, <2>1 DEF Controls, Threads
  <2>2. CASE ~ht
    BY <1>5, <2>2 DEF Controls, Threads
  <2> QED
    BY <2>1, <2>2
<1> QED
  BY <1>2, <1>3, <1>4, <1>5

LEMMA WrittenAreSaved ==
  ASSUME config \in Configs, NEW s \in Threads, NEW a,
         a \in ClearedCccrs(s) \cup ClearedEscrs(s) \/ Programmed(s, a) # {}
  PROVE  \E t \in Threads : a \in SavedAddresses(t)
<1>1. CASE a \in ClearedCccrs(s) \cup ClearedEscrs(s)
  BY <1>1, ClearedAre, ControlsAreSaved
<1>2. CASE \E i \in DOMAIN config : p4_counters[VIRT_CTR(s, i) + 1] = a
  BY <1>2, OwnBinding DEF SavedAddresses
<1>3. CASE \E i \in DOMAIN config : cccr_address(VIRT_CTR(s, i)) = a
  BY <1>3, OwnBinding, Addresses, ControlsAreSaved
<1>4. CASE \E i \in DOMAIN config : \E b \in Binding(s, i) : b[2] = a
  BY <1>4, OwnBinding, ControlsAreSaved
<1> QED
  BY <1>1, <1>2, <1>3, <1>4 DEF Programmed

(* The sibling leaves what a counter is bound to.                          *)
LEMMA SiblingLeaves ==
  ASSUME config \in Configs, NEW s \in Threads, NEW t \in Threads, s # t,
         NEW i \in DOMAIN config, NEW b \in Binding(s, i), NEW a \in {cccr_address(b[1]), b[2]}
  PROVE  a \notin ClearedCccrs(t) \cup ClearedEscrs(t) /\ Programmed(t, a) = {}
<1>1. /\ ht /\ s \in {0, 1} /\ t \in {0, 1} /\ Own(s) \cap Own(t) = {}
      /\ Own(s) \subseteq 0 .. 7 /\ Own(t) \subseteq 0 .. 7
  BY OwnCounters DEF Threads
<1>2. b[1] \in Own(s) /\ b[2] \in Escrs /\ b[2] % 2 = s /\ b[2] # Iq /\ b[2] # Iq + 1
  BY <1>1, OwnBinding
<1>3. \A j \in DOMAIN config : VIRT_CTR(t, j) \in Own(t) /\ VIRT_CTR(t, j) \in 0 .. 7
  BY OwnBinding
<1>4. \A j \in DOMAIN config : \A c \in Binding(t, j) : c[2] \in Escrs /\ c[2] % 2 = t
  BY <1>1, OwnBinding
<1>5. /\ Cru4 \notin Escrs /\ Cru5 \notin Escrs /\ Cru4 \notin Cccrs /\ Cru5 \notin Cccrs
      /\ Iq \notin Cccrs /\ Iq + 1 \notin Cccrs
  BY DEF Escrs, Cccrs, Cru4, Cru5, Iq, Bsu
<1>6. CASE a = cccr_address(b[1])
  <2>1. b[1] \in 0 .. 7 /\ a \in Cccrs /\ a \notin Escrs /\ a \notin \h300 .. \h311
    BY <1>1, <1>2, <1>6, Addresses
  <2>2. a \notin ClearedCccrs(t) /\ a \notin ClearedEscrs(t)
    BY <1>1, <1>2, <1>5, <1>6, <2>1, ClearedAre
  <2>3. \A j \in DOMAIN config : /\ p4_counters[VIRT_CTR(t, j) + 1] # a
                                 /\ cccr_address(VIRT_CTR(t, j)) # a
                                 /\ \A c \in Binding(t, j) : c[2] # a
    BY <1>1, <1>2, <1>3, <1>4, <1>6, <2>1, Addresses
  <2> QED
    BY <2>2, <2>3 DEF Programmed
<1>7. CASE a = b[2]
  <2>1. a \in Escrs /\ a \notin Cccrs /\ a \notin \h300 .. \h311
    BY <1>2, <1>7, Addresses
  <2>2. a \notin ClearedCccrs(t) /\ a \notin ClearedEscrs(t)
    BY <1>1, <1>2, <1>5, <1>7, <2>1, ClearedAre
  <2>3. \A j \in DOMAIN config : /\ p4_counters[VIRT_CTR(t, j) + 1] # a
                                 /\ cccr_address(VIRT_CTR(t, j)) # a
                                 /\ \A c \in Binding(t, j) : c[2] # a
    BY <1>1, <1>2, <1>3, <1>4, <1>7, <2>1, Addresses
  <2> QED
    BY <2>2, <2>3 DEF Programmed
<1> QED
  BY <1>6, <1>7

(* Setup programs a counter and nothing else into what it is bound to.     *)
LEMMA OwnIsProgrammed ==
  ASSUME config \in Configs, NEW s \in Threads, NEW i \in DOMAIN config, NEW b \in Binding(s, i)
  PROVE  /\ Programmed(s, cccr_address(b[1])) = {Selects(config[i], s)}
         /\ Programmed(s, b[2]) = {Counts(config[i], s)}
<1>1. /\ b[1] \in 0 .. 7 /\ b[1] = VIRT_CTR(s, i) /\ b[2] \in Escrs
      /\ b \in p4_events(config[i]) /\ config[i] \in Nat
  BY OwnBinding
<1>2. \A j \in DOMAIN config : /\ VIRT_CTR(s, j) \in 0 .. 7 /\ config[j] \in Nat
                               /\ VIRT_CTR(s, i) = VIRT_CTR(s, j) => i = j
  BY OwnBinding
<1>3. \A j \in DOMAIN config : \A c \in Binding(s, j) :
        /\ c[2] \in Escrs /\ c \in p4_events(config[j]) /\ c[1] = VIRT_CTR(s, j)
        /\ c[2] = b[2] => j = i
  <2>1. ASSUME NEW j \in DOMAIN config, NEW c \in Binding(s, j)
        PROVE  c[2] \in Escrs /\ c \in p4_events(config[j]) /\ c[1] = VIRT_CTR(s, j)
    BY OwnBinding
  <2>2. ASSUME NEW j \in DOMAIN config, NEW c \in Binding(s, j), c[2] = b[2] PROVE j = i
    <3>1. c[1] = b[1]
      BY <1>1, <1>2, <2>1, <2>2, EscrDecides
    <3> QED
      BY <1>1, <1>2, <2>1, <3>1
  <2> QED
    BY <2>1, <2>2
<1>4. \A j \in DOMAIN config : /\ p4_counters[VIRT_CTR(s, j) + 1] \in \h300 .. \h311
                               /\ cccr_address(VIRT_CTR(s, j)) \in Cccrs
                               /\ cccr_address(VIRT_CTR(s, j)) = cccr_address(b[1]) <=> j = i
  BY <1>1, <1>2, Addresses
<1>5. /\ cccr_address(b[1]) \in Cccrs /\ cccr_address(b[1]) \notin \h300 .. \h311
      /\ cccr_address(b[1]) \notin Escrs /\ b[2] \notin \h300 .. \h311 /\ b[2] \notin Cccrs
  BY <1>1, Addresses
<1>6. ASSUME NEW a
      PROVE  \A v : v \in Programmed(s, a) <=>
               \E j \in DOMAIN config :
                 \/ v = Reload /\ p4_counters[VIRT_CTR(s, j) + 1] = a
                 \/ v = Selects(config[j], s) /\ Binding(s, j) # {}
                    /\ cccr_address(VIRT_CTR(s, j)) = a
                 \/ v = Counts(config[j], s) /\ \E c \in Binding(s, j) : c[2] = a
  BY DEF Programmed
<1>7. \A v : v \in Programmed(s, cccr_address(b[1])) <=> v = Selects(config[i], s)
  BY <1>3, <1>4, <1>5, <1>6
<1>8. \A v : v \in Programmed(s, b[2]) <=> v = Counts(config[i], s)
  BY <1>3, <1>4, <1>5, <1>6
<1> QED
  BY <1>7, <1>8

-----------------------------------------------------------------------------
(* Nothing but the contents of registers ever changes: the machine stays,  *)
(* and with it who owns which register.                                    *)
LEMMA MachineStays ==
  ASSUME UNCHANGED machine
  PROVE  /\ Threads' = Threads /\ num_counters' = num_counters /\ num_controls' = num_controls
         /\ Configs' = Configs
         /\ \A s \in Threads : SavedAddresses(s)' = SavedAddresses(s)
         /\ \A s, i : Binding(s, i)' = Binding(s, i) /\ VIRT_CTR(s, i)' = VIRT_CTR(s, i)
<1>1. /\ Threads' = Threads /\ num_counters' = num_counters /\ num_controls' = num_controls
      /\ addr_increment' = addr_increment
  BY DEF machine, Threads, num_counters, num_controls, addr_increment
<1>2. Configs' = Configs
  BY <1>1 DEF Configs
<1>3. \A s, i : VIRT_CTR(s, i)' = VIRT_CTR(s, i)
  BY <1>1 DEF VIRT_CTR
<1>4. \A s, i : Binding(s, i)' = Binding(s, i)
  BY <1>3 DEF Binding, machine
<1>5. ASSUME NEW s PROVE ControlAddresses(s)' = ControlAddresses(s)
  <2>1. ht' = ht /\ old' = old
    BY DEF machine
  <2>2. /\ Staggered(\h360, \h371, s)' = Staggered(\h360, \h371, s)
        /\ Staggered(Bsu, Iq - 1, s)' = Staggered(Bsu, Iq - 1, s)
        /\ Staggered(Iq, Iq + 1, s)' = Staggered(Iq, Iq + 1, s)
        /\ Staggered(Bsu, Bsu + 1, s)' = Staggered(Bsu, Bsu + 1, s)
        /\ Staggered(\h3BC, \h3BE, s)' = Staggered(\h3BC, \h3BE, s)
        /\ Staggered(\h3C0, \h3C5, s)' = Staggered(\h3C0, \h3C5, s)
        /\ Staggered(\h3C8, \h3CD, s)' = Staggered(\h3C8, \h3CD, s)
    BY <1>1 DEF Staggered, Bsu, Iq
  <2> DEFINE C  == IF old THEN Staggered(Iq, Iq + 1, s) ELSE Staggered(Bsu, Bsu + 1, s)
             G  == IF ~ht THEN << Cru5, Cru4 >>
                   ELSE IF s = 0 THEN << Cru4 >> ELSE << Cru5, Cru5 >>
             nC == IF old' THEN Staggered(Iq, Iq + 1, s)' ELSE Staggered(Bsu, Bsu + 1, s)'
             nG == IF ~ht' THEN << Cru5, Cru4 >>
                   ELSE IF s = 0 THEN << Cru4 >> ELSE << Cru5, Cru5 >>
  <2>3. nC = C /\ nG = G
    BY <2>1, <2>2
  <2>4. ControlAddresses(s) =
          Staggered(\h360, \h371, s) \o Staggered(Bsu, Iq - 1, s) \o C
          \o Staggered(\h3BC, \h3BE, s) \o Staggered(\h3C0, \h3C5, s) \o Staggered(\h3C8, \h3CD, s)
          \o G
    BY DEF ControlAddresses
  <2>5. ControlAddresses(s)' =
          Staggered(\h360, \h371, s)' \o Staggered(Bsu, Iq - 1, s)' \o nC
          \o Staggered(\h3BC, \h3BE, s)' \o Staggered(\h3C0, \h3C5, s)'
          \o Staggered(\h3C8, \h3CD, s)' \o nG
    BY DEF ControlAddresses
  <2> HIDE DEF C, G, nC, nG
  <2> QED
    BY <2>2, <2>3, <2>4, <2>5, SMTT(30)
<1>7. \A s : Own(s)' = Own(s)
  BY <1>1, <1>3 DEF Own
<1>8. \A s : SavedAddresses(s)' = SavedAddresses(s)
  BY <1>5, <1>7 DEF SavedAddresses
<1> QED
  BY <1>1, <1>2, <1>3, <1>4, <1>8

-----------------------------------------------------------------------------
(* allocate_msrs() counts as many entries as p4_fill_in_addresses() fills. *)
THEOREM ControlsFit == P4Spec => []EveryControlFilled
<1>1. EveryControlFilled
  BY ControlsAreFilled DEF EveryControlFilled, Fills
<1> QED
  BY <1>1, PTL

-----------------------------------------------------------------------------
P4Types ==
  /\ config \in Configs
  /\ \A s \in Threads : SavedAddresses(s) \subseteq DOMAIN reg
  /\ DOMAIN saved = Threads
  /\ todo \subseteq Threads
  /\ call \in {"save", "setup", "start", "stop", "shutdown"}

LEMMA SavedExist == ASSUME NEW s \in Threads PROVE SavedAddresses(s) \subseteq Msrs
BY OwnCounters, Addresses DEF SavedAddresses, Msrs

LEMMA TypesKept == ASSUME P4Types, [P4Next]_p4Vars PROVE P4Types' /\ UNCHANGED machine
<1>1. UNCHANGED machine
  BY DEF P4Next, Call, Runs, SaveRegisters, SetupCtrs, p4_start, p4_stop, RestoreRegisters,
      p4Vars, machine
<1>2. /\ Threads' = Threads /\ Configs' = Configs /\ config' = config
      /\ \A s \in Threads : SavedAddresses(s)' = SavedAddresses(s)
  BY <1>1, MachineStays DEF machine
<1>3. DOMAIN reg' = DOMAIN reg
  BY DEF P4Next, Call, Runs, SaveRegisters, SetupCtrs, p4_setup_ctrs, p4_start, p4_stop,
      RestoreRegisters, p4Vars
<1>4. DOMAIN saved' = DOMAIN saved
  BY DEF P4Next, Call, Runs, SaveRegisters, SetupCtrs, p4_start, p4_stop, RestoreRegisters, p4Vars
<1>5. todo' \subseteq Threads /\ call' \in {"save", "setup", "start", "stop", "shutdown"}
  BY DEF P4Types, P4Next, Call, Runs, SaveRegisters, SetupCtrs, p4_start, p4_stop,
      RestoreRegisters, p4Vars
<1> QED
  BY <1>1, <1>2, <1>3, <1>4, <1>5 DEF P4Types

LEMMA P4TypesInvariant == P4Spec => []P4Types
<1>1. P4Init => P4Types
  BY SavedExist DEF P4Init, P4Types
<1> QED
  BY <1>1, TypesKept, PTL DEF P4Spec

-----------------------------------------------------------------------------
(* A thread holds a copy from its save to its shutdown.                    *)
HoldsCopy(s) ==
  \/ call = "save" /\ s \notin todo
  \/ call \in {"setup", "start", "stop"}
  \/ call = "shutdown" /\ s \in todo

(* The copies are of what the firmware left, and cover every register that *)
(* may hold anything else.                                                 *)
CopiesAreBoot ==
  \A s \in Threads : HoldsCopy(s) =>
    /\ DOMAIN saved[s] = SavedAddresses(s)
    /\ \A a \in SavedAddresses(s) : saved[s][a] = Boot

OthersAreBoot ==
  \A a \in DOMAIN reg :
    \/ reg[a] = Boot
    \/ \E s \in Threads : HoldsCopy(s) /\ call # "save" /\ a \in SavedAddresses(s)

(* Which counters run.                                                     *)
ActiveAre(T) ==
  active = {cccr_address(VIRT_CTR(s, i)) : s \in T, i \in IF pmc THEN DOMAIN config ELSE {}}

ActiveInv ==
  /\ call = "start" => ActiveAre(Threads \ todo)
  /\ call = "stop" => ActiveAre(todo)
  /\ call \notin {"start", "stop"} => active = {}

CopiesInv == CopiesAreBoot /\ OthersAreBoot

LEMMA CopiesKept == ASSUME P4Types, CopiesInv, [P4Next]_p4Vars PROVE CopiesInv'
<1>0. /\ Threads' = Threads
      /\ \A s \in Threads : SavedAddresses(s)' = SavedAddresses(s)
      /\ \A s \in Threads : SavedAddresses(s) \subseteq DOMAIN reg
      /\ DOMAIN saved = Threads /\ todo \subseteq Threads
  BY TypesKept, MachineStays DEF P4Types
<1>1. ASSUME NEW f, Call(f) PROVE CopiesInv'
  <2>1. UNCHANGED << reg, saved >> /\ todo = {} /\ todo' = Threads
    BY <1>1 DEF Call
  <2>2. ASSUME NEW s \in Threads
        PROVE  /\ HoldsCopy(s)' => HoldsCopy(s)
               /\ HoldsCopy(s) => HoldsCopy(s)' /\ call' # "save"
    BY <1>1, <2>1 DEF Call, HoldsCopy
  <2>3. CopiesAreBoot'
    BY <1>0, <2>1, <2>2 DEF CopiesInv, CopiesAreBoot
  <2>4. OthersAreBoot'
    BY <1>0, <2>1, <2>2 DEF CopiesInv, OthersAreBoot
  <2> QED
    BY <2>3, <2>4 DEF CopiesInv
<1>2. ASSUME NEW s \in Threads, SaveRegisters(s) PROVE CopiesInv'
  <2>1. /\ call = "save" /\ UNCHANGED << reg, call >> /\ todo' = todo \ {s}
        /\ saved' = [saved EXCEPT ![s] = [a \in SavedAddresses(s) |-> reg[a]]]
    BY <1>2 DEF SaveRegisters, Runs
  <2>2. \A a \in DOMAIN reg : reg[a] = Boot
    BY <2>1 DEF CopiesInv, OthersAreBoot
  <2>3. \A t \in Threads : HoldsCopy(t)' => t = s \/ HoldsCopy(t)
    BY <2>1 DEF HoldsCopy
  <2>4. \A t \in Threads : saved'[t] = IF t = s THEN [a \in SavedAddresses(s) |-> reg[a]] ELSE saved[t]
    BY <1>0, <2>1
  <2> QED
    BY <1>0, <2>1, <2>2, <2>3, <2>4 DEF CopiesInv, CopiesAreBoot, OthersAreBoot
<1>3. ASSUME NEW s \in Threads, SetupCtrs(s) PROVE CopiesInv'
  <2>1. call = "setup" /\ UNCHANGED << saved, call >> /\ reg' = p4_setup_ctrs(s)
    BY <1>3 DEF SetupCtrs, Runs
  <2>2. \A t \in Threads : HoldsCopy(t) /\ HoldsCopy(t)'
    BY <2>1 DEF HoldsCopy
  <2>3. DOMAIN reg' = DOMAIN reg
    BY <2>1 DEF p4_setup_ctrs
  <2>4. ASSUME NEW a \in DOMAIN reg
        PROVE  reg'[a] = Boot \/ \E t \in Threads : a \in SavedAddresses(t)
    <3>1. CASE a \in ClearedCccrs(s) \cup ClearedEscrs(s) \/ Programmed(s, a) # {}
      BY <3>1, WrittenAreSaved DEF P4Types
    <3>2. CASE ~(a \in ClearedCccrs(s) \cup ClearedEscrs(s) \/ Programmed(s, a) # {})
      <4>1. reg'[a] = reg[a]
        BY <2>1, <3>2 DEF p4_setup_ctrs
      <4> QED
        BY <4>1 DEF CopiesInv, OthersAreBoot
    <3> QED
      BY <3>1, <3>2
  <2> QED
    BY <1>0, <2>1, <2>2, <2>3, <2>4 DEF CopiesInv, CopiesAreBoot, OthersAreBoot
<1>4. ASSUME NEW s \in Threads, p4_start(s) \/ p4_stop(s) PROVE CopiesInv'
  <2>1. call \in {"start", "stop"} /\ UNCHANGED << reg, saved, call >>
    BY <1>4 DEF p4_start, p4_stop, Runs
  <2>2. \A t \in Threads : HoldsCopy(t) /\ HoldsCopy(t)'
    BY <2>1 DEF HoldsCopy
  <2> QED
    BY <1>0, <2>1, <2>2 DEF CopiesInv, CopiesAreBoot, OthersAreBoot
<1>5. ASSUME NEW s \in Threads, RestoreRegisters(s) PROVE CopiesInv'
  <2>1. /\ s \in todo /\ call = "shutdown" /\ call' = call /\ todo' = todo \ {s}
        /\ reg' = [a \in DOMAIN reg |-> IF a \in DOMAIN saved[s] THEN saved[s][a] ELSE reg[a]]
        /\ saved' = [saved EXCEPT ![s] = << >>]
    BY <1>5 DEF RestoreRegisters, Runs
  <2>2. DOMAIN saved[s] = SavedAddresses(s) /\ \A a \in SavedAddresses(s) : saved[s][a] = Boot
    BY <2>1 DEF CopiesInv, CopiesAreBoot, HoldsCopy
  <2>3. \A t \in Threads : HoldsCopy(t)' <=> t # s /\ HoldsCopy(t)
    BY <2>1 DEF HoldsCopy
  <2>4. \A t \in Threads : t # s => saved'[t] = saved[t]
    BY <2>1
  <2>5. CopiesAreBoot'
    BY <1>0, <2>3, <2>4 DEF CopiesInv, CopiesAreBoot
  <2>6. DOMAIN reg' = DOMAIN reg
        /\ \A a \in DOMAIN reg : reg'[a] = IF a \in SavedAddresses(s) THEN Boot ELSE reg[a]
    BY <2>1, <2>2
  <2>7. OthersAreBoot'
    BY <1>0, <2>1, <2>3, <2>6 DEF CopiesInv, OthersAreBoot
  <2> QED
    BY <2>5, <2>7 DEF CopiesInv
<1>6. CASE UNCHANGED p4Vars
  BY <1>0, <1>6 DEF p4Vars, CopiesInv, CopiesAreBoot, OthersAreBoot, HoldsCopy
<1> QED
  BY <1>1, <1>2, <1>3, <1>4, <1>5, <1>6 DEF P4Next

LEMMA CopiesInvariant == P4Spec => []CopiesInv
<1>1. P4Init => CopiesInv
  BY DEF P4Init, CopiesInv, CopiesAreBoot, OthersAreBoot, HoldsCopy
<1> QED
  BY <1>1, CopiesKept, P4TypesInvariant, PTL DEF P4Spec

LEMMA ActiveKept == ASSUME P4Types, CopiesInv, ActiveInv, [P4Next]_p4Vars PROVE ActiveInv'
<1> DEFINE on == IF pmc THEN DOMAIN config ELSE {}
           Cccr(s, i) == cccr_address(VIRT_CTR(s, i))
<1>0. /\ Threads' = Threads /\ UNCHANGED << pmc, config >> /\ todo \subseteq Threads
      /\ \A s, i : VIRT_CTR(s, i)' = VIRT_CTR(s, i)
  BY TypesKept, MachineStays DEF P4Types, machine
<1>1. \A T : ActiveAre(T)' <=> active' = {Cccr(s, i) : s \in T, i \in on}
  BY <1>0 DEF ActiveAre, cccr_address
<1>2. \A T : ActiveAre(T) <=> active = {Cccr(s, i) : s \in T, i \in on}
  BY DEF ActiveAre
<1>3. \A s \in Threads, i \in on : VIRT_CTR(s, i) \in Own(s)
  BY OwnBinding DEF P4Types
<1> HIDE DEF on, Cccr
<1>4. ASSUME NEW f, Call(f) PROVE ActiveInv'
  <2>1. active' = active /\ todo = {} /\ todo' = Threads /\ call' = f
    BY <1>4 DEF Call
  <2>2. f = "stop" => call = "start" /\ Threads \ todo = Threads
    BY <1>4, <2>1 DEF Call
  <2>3. f # "stop" => active = {}
    BY <1>2, <1>4, <2>1 DEF Call, ActiveInv
  <2>4. f = "start" => Threads' \ todo' = {}
    BY <1>0, <2>1
  <2> QED
    BY <1>0, <1>1, <1>2, <2>1, <2>2, <2>3, <2>4 DEF ActiveInv
<1>5. ASSUME NEW s \in Threads, p4_start(s) PROVE ActiveInv'
  <2>1. /\ active' = active \cup {Cccr(s, i) : i \in on} /\ call = "start" /\ call' = call
        /\ s \in todo /\ todo' = todo \ {s}
    BY <1>5 DEF p4_start, Runs, on, Cccr
  <2>2. active = {Cccr(t, i) : t \in Threads \ todo, i \in on}
    BY <1>2, <2>1 DEF ActiveInv
  <2>3. active' = {Cccr(t, i) : t \in Threads \ todo', i \in on}
    BY <2>1, <2>2
  <2> QED
    BY <1>0, <1>1, <2>1, <2>3 DEF ActiveInv
<1>6. ASSUME NEW s \in Threads, p4_stop(s) PROVE ActiveInv'
  <2>1. /\ active' = active \ {cccr_address(v) : v \in Own(s)} /\ call = "stop" /\ call' = call
        /\ s \in todo /\ todo' = todo \ {s}
    BY <1>6 DEF p4_stop, Runs
  <2>2. active = {Cccr(t, i) : t \in todo, i \in on}
    BY <1>2, <2>1 DEF ActiveInv
  <2>3. \A t \in Threads, i \in on : t # s <=> Cccr(t, i) \notin {cccr_address(v) : v \in Own(s)}
    <3>1. \A t \in Threads, i \in on : t # s => VIRT_CTR(t, i) \notin Own(s)
      BY <1>3, OwnCounters
    <3>2. \A t \in Threads : Own(t) \subseteq 0 .. 7
      BY OwnCounters
    <3> QED
      BY <1>3, <3>1, <3>2, Addresses DEF Cccr
  <2>4. active' = {Cccr(t, i) : t \in todo', i \in on}
    BY <1>0, <2>1, <2>2, <2>3
  <2> QED
    BY <1>1, <2>1, <2>4 DEF ActiveInv
<1>7. ASSUME NEW s \in Threads, SaveRegisters(s) \/ SetupCtrs(s) \/ RestoreRegisters(s)
      PROVE  ActiveInv'
  <2>1. call' = call /\ call \notin {"start", "stop"} /\ active' \subseteq active
    BY <1>7 DEF SaveRegisters, SetupCtrs, RestoreRegisters, Runs
  <2> QED
    BY <2>1 DEF ActiveInv
<1>8. CASE UNCHANGED p4Vars
  BY <1>0, <1>1, <1>2, <1>8 DEF p4Vars, ActiveInv
<1> QED
  BY <1>4, <1>5, <1>6, <1>7, <1>8 DEF P4Next

LEMMA ActiveInvariant == P4Spec => []ActiveInv
<1>1. P4Init => ActiveInv
  BY DEF P4Init, ActiveInv
<1> QED
  BY <1>1, ActiveKept, CopiesInvariant, P4TypesInvariant, PTL DEF P4Spec

(* After shutdown the firmware's registers are back on both threads,       *)
(* though each saved, wrote and restored another part of them.             *)
THEOREM RegistersRestored == P4Spec => []P4RegistersRestored
<1>1. CopiesInv /\ ActiveInv => P4RegistersRestored
  BY DEF CopiesInv, OthersAreBoot, HoldsCopy, ActiveInv, P4RegistersRestored
<1> QED
  BY <1>1, CopiesInvariant, ActiveInvariant, PTL

-----------------------------------------------------------------------------
(* From its setup to the next shutdown a thread's counters have their      *)
(* events, whatever the sibling sets up meanwhile.                         *)
Bound(s) ==
  \A i \in DOMAIN config : \A b \in Binding(s, i) :
    /\ reg[cccr_address(b[1])] = Selects(config[i], s)
    /\ reg[b[2]] = Counts(config[i], s)

BoundInv ==
  \A s \in Threads :
    pmc /\ (call \in {"start", "stop"} \/ (call = "setup" /\ s \notin todo)) => Bound(s)

LEMMA BoundKept == ASSUME P4Types, BoundInv, [P4Next]_p4Vars PROVE BoundInv'
<1>0. /\ Threads' = Threads /\ UNCHANGED << pmc, config >> /\ todo \subseteq Threads
      /\ \A s, i : Binding(s, i)' = Binding(s, i)
      /\ \A s \in Threads : SavedAddresses(s) \subseteq DOMAIN reg
  BY TypesKept, MachineStays DEF P4Types, machine
<1>1. ASSUME NEW s \in Threads, Bound(s), reg' = reg PROVE Bound(s)'
  BY <1>0, <1>1 DEF Bound, Selects, Counts, cccr_address
<1>2. ASSUME NEW s \in Threads, SetupCtrs(s) PROVE BoundInv'
  <2>1. call = "setup" /\ call' = call /\ todo' = todo \ {s} /\ reg' = p4_setup_ctrs(s)
    BY <1>2 DEF SetupCtrs, Runs
  <2>2. SUFFICES ASSUME NEW t \in Threads, pmc, t \notin todo', NEW i \in DOMAIN config,
                        NEW b \in Binding(t, i)
                 PROVE  /\ reg'[cccr_address(b[1])] = Selects(config[i], t)
                        /\ reg'[b[2]] = Counts(config[i], t)
    BY <1>0, <2>1 DEF BoundInv, Bound, Selects, Counts, cccr_address
  <2>3. \A a \in DOMAIN reg :
          reg'[a] = IF Programmed(s, a) # {} THEN CHOOSE v \in Programmed(s, a) : TRUE
                    ELSE IF a \in ClearedCccrs(s) \cup ClearedEscrs(s) THEN Clear ELSE reg[a]
    BY <2>1, <2>2 DEF p4_setup_ctrs
  <2>4. cccr_address(b[1]) \in DOMAIN reg /\ b[2] \in DOMAIN reg
    <3>1. cccr_address(b[1]) \in Cccrs /\ b[2] \in Escrs
      BY OwnBinding, Addresses DEF P4Types
    <3> QED
      BY <1>0, <3>1, ControlsAreSaved
  <2>5. CASE t = s
    <3>1. /\ Programmed(s, cccr_address(b[1])) = {Selects(config[i], s)}
          /\ Programmed(s, b[2]) = {Counts(config[i], s)}
      BY <2>5, OwnIsProgrammed DEF P4Types
    <3> QED
      BY <2>3, <2>4, <2>5, <3>1
  <2>6. CASE t # s
    <3>1. /\ cccr_address(b[1]) \notin ClearedCccrs(s) \cup ClearedEscrs(s)
          /\ Programmed(s, cccr_address(b[1])) = {}
          /\ b[2] \notin ClearedCccrs(s) \cup ClearedEscrs(s) /\ Programmed(s, b[2]) = {}
      BY <2>6, SiblingLeaves DEF P4Types
    <3>2. Bound(t)
      BY <2>1, <2>2, <2>6 DEF BoundInv
    <3> QED
      BY <2>3, <2>4, <3>1, <3>2 DEF Bound
  <2> QED
    BY <2>5, <2>6
<1>3. ASSUME NEW f, Call(f) PROVE BoundInv'
  <2>1. reg' = reg /\ todo = {} /\ todo' = Threads /\ call' = f
    BY <1>3 DEF Call
  <2>2. f \in {"start", "stop"} => call \in {"setup", "start", "stop"}
    BY <1>3 DEF Call
  <2>3. ASSUME NEW s \in Threads, pmc, f \in {"start", "stop"} PROVE Bound(s)'
    <3>1. Bound(s)
      BY <2>1, <2>2, <2>3 DEF BoundInv
    <3> QED
      BY <1>1, <2>1, <3>1
  <2>4. f \notin {"start", "stop"} => \A s \in Threads : s \in todo' \/ f # "setup"
    BY <2>1
  <2> QED
    BY <1>0, <2>1, <2>3, <2>4 DEF BoundInv
<1>4. ASSUME NEW s \in Threads, p4_start(s) \/ p4_stop(s) PROVE BoundInv'
  <2>1. reg' = reg /\ call' = call /\ call \in {"start", "stop"}
    BY <1>4 DEF p4_start, p4_stop, Runs
  <2> QED
    BY <1>0, <1>1, <2>1 DEF BoundInv
<1>5. ASSUME NEW s \in Threads, SaveRegisters(s) \/ RestoreRegisters(s) PROVE BoundInv'
  <2>1. call' = call /\ call \in {"save", "shutdown"}
    BY <1>5 DEF SaveRegisters, RestoreRegisters, Runs
  <2> QED
    BY <2>1 DEF BoundInv
<1>6. CASE UNCHANGED p4Vars
  BY <1>0, <1>1, <1>6 DEF p4Vars, BoundInv
<1> QED
  BY <1>2, <1>3, <1>4, <1>5, <1>6 DEF P4Next

LEMMA BoundInvariant == P4Spec => []BoundInv
<1>1. P4Init => BoundInv
  BY DEF P4Init, BoundInv
<1> QED
  BY <1>1, BoundKept, P4TypesInvariant, PTL DEF P4Spec

(* Between setup and shutdown every counter has the event that the user    *)
(* chose for it, on whichever thread and whatever the other counters have; *)
(* the enabled counters run from start to stop.                            *)
THEOREM EventsProgrammed == P4Spec => []P4EventsProgrammed
<1>1. P4Types /\ ActiveInv /\ BoundInv => P4EventsProgrammed
  <2> SUFFICES ASSUME ActiveInv, BoundInv, pmc, todo = {}, call \in {"setup", "start", "stop"}
               PROVE  /\ \A s \in Threads, i \in DOMAIN config : \A b \in Binding(s, i) :
                           /\ reg[cccr_address(b[1])] = Selects(config[i], s)
                           /\ reg[b[2]] = Counts(config[i], s)
                      /\ active = {cccr_address(VIRT_CTR(s, i)) : s \in Threads,
                                     i \in IF call = "start" THEN DOMAIN config ELSE {}}
    BY DEF P4EventsProgrammed
  <2>1. \A s \in Threads : Bound(s)
    BY DEF BoundInv
  <2>2. CASE call = "start"
    BY <2>1, <2>2 DEF ActiveInv, ActiveAre, Bound
  <2>3. CASE call # "start"
    BY <2>1, <2>3 DEF ActiveInv, ActiveAre, Bound
  <2> QED
    BY <2>2, <2>3
<1> QED
  BY <1>1, P4TypesInvariant, ActiveInvariant, BoundInvariant, PTL
=============================================================================

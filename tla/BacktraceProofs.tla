---------------------------- MODULE BacktraceProofs ----------------------------
(***************************************************************************)
(* For every stack, every depth and every width of the depth: a walk adds  *)
(* at most as many frames as wanted, and on x86 upwards only, whatever     *)
(* other threads write to the stack meanwhile; and if they write nothing,  *)
(* it records the whole chain of frames, each in its place.                *)
(***************************************************************************)
EXTENDS Backtrace, WellFoundedInduction, TLAPS

WalkType ==
  /\ walker \in X86Walkers \cup PowerPCWalkers
  /\ wanted \in 0 .. Limit - 1 /\ left \in Nat
  /\ readable \subseteq Frames
  /\ head \in Frames \cup {Null}
  /\ back \in [Frames -> Frames \cup {Null}]
  /\ first_frame \in BOOLEAN
  /\ trace \in Seq(Nat)

(* What has been recorded and what may still be recorded is no more than   *)
(* wanted; the extra iteration, the first one, records nothing.            *)
DepthLeft ==
  \/ /\ walker \in PowerPCWalkers /\ first_frame
     /\ left = ExtraTime(wanted) /\ trace = << >>
  \/ Len(trace) + left <= wanted

(* On x86 the next frame is above those recorded.                          *)
Upwards ==
  walker \in X86Walkers =>
    /\ \A i, j \in DOMAIN trace : i < j => trace[i] < trace[j]
    /\ head # Null => \A i \in DOMAIN trace : trace[i] < head

WalkInv == WalkType /\ DepthLeft /\ Upwards /\ Len(trace) <= wanted

-----------------------------------------------------------------------------
LEMMA ExtraTimeBound ==
  ASSUME NEW depth \in 0 .. Limit - 1
  PROVE  ExtraTime(depth) \in Nat /\ ExtraTime(depth) <= depth + 1
<1> USE BacktraceAssumption
<1>1. CASE depth + 1 = Limit
  BY <1>1 DEF ExtraTime
<1>2. CASE depth + 1 < Limit
  BY <1>2 DEF ExtraTime
<1> QED
  BY <1>1, <1>2

(* One more frame, above the others, keeps the trace going upwards.        *)
LEMMA AppendUpwards ==
  ASSUME NEW s \in Seq(Nat), NEW f \in Nat,
         \A i, j \in DOMAIN s : i < j => s[i] < s[j],
         \A i \in DOMAIN s : s[i] < f
  PROVE  /\ Append(s, f) \in Seq(Nat) /\ Len(Append(s, f)) = Len(s) + 1
         /\ \A i, j \in DOMAIN Append(s, f) : i < j => Append(s, f)[i] < Append(s, f)[j]
         /\ \A i \in DOMAIN Append(s, f) : Append(s, f)[i] <= f
<1>1. DOMAIN Append(s, f) = 1 .. Len(s) + 1
  OBVIOUS
<1>2. \A i \in 1 .. Len(s) + 1 : Append(s, f)[i] = IF i = Len(s) + 1 THEN f ELSE s[i]
  OBVIOUS
<1>3. DOMAIN s = 1 .. Len(s) /\ \A i \in DOMAIN s : s[i] \in Nat
  OBVIOUS
<1>4. Append(s, f) \in Seq(Nat) /\ Len(Append(s, f)) = Len(s) + 1
  OBVIOUS
<1>5. ASSUME NEW i \in DOMAIN Append(s, f), NEW j \in DOMAIN Append(s, f), i < j
      PROVE  Append(s, f)[i] < Append(s, f)[j]
  BY <1>1, <1>2, <1>3, <1>5
<1>6. ASSUME NEW i \in DOMAIN Append(s, f)
      PROVE  Append(s, f)[i] <= f
  BY <1>1, <1>2, <1>3
<1> QED
  BY <1>4, <1>5, <1>6

LEMMA InitWalk == WalkInit => WalkInv
<1> SUFFICES ASSUME WalkInit PROVE WalkInv
  OBVIOUS
<1> USE BacktraceAssumption DEF WalkInit, X86Walkers, PowerPCWalkers, Null
<1>1. ExtraTime(wanted) \in Nat
  BY ExtraTimeBound
<1>2. trace = << >> /\ Len(trace) = 0 /\ DOMAIN trace = {}
  BY DEF WalkInit
<1>3. WalkType
  BY <1>1 DEF WalkInit, WalkType
<1>4. DepthLeft
  <2>1. CASE walker \in PowerPCWalkers
    BY <1>2, <2>1 DEF WalkInit, DepthLeft
  <2>2. CASE walker \in X86Walkers
    <3>1. left = wanted
      BY <2>2 DEF WalkInit
    <3> QED
      BY <1>2, <1>3, <3>1 DEF DepthLeft, WalkType
  <2> QED
    BY <2>1, <2>2 DEF WalkInit
<1>5. Upwards
  BY <1>2 DEF Upwards
<1> QED
  BY <1>2, <1>3, <1>4, <1>5 DEF WalkInv

LEMMA NextWalk == WalkInv /\ [WalkNext]_walkVars => WalkInv'
<1> SUFFICES ASSUME WalkInv, [WalkNext]_walkVars PROVE WalkInv'
  OBVIOUS
<1> USE BacktraceAssumption DEF WalkInv, Null, X86Walkers, PowerPCWalkers
<1>0. /\ Frames \subseteq Nat /\ 0 \notin Frames
      /\ \A f \in Frames : back[f] \in Frames \cup {0}
      /\ ExtraTime(wanted) \in Nat /\ ExtraTime(wanted) <= wanted + 1
      /\ wanted \in Nat /\ Len(trace) \in Nat
  BY ExtraTimeBound DEF WalkType
<1>1. CASE Leaves
  BY <1>1 DEF Leaves, Stop, inputs, WalkType, DepthLeft, Upwards
<1>2. CASE X86Kernel
  <2>1. /\ walker = "x86_kernel" /\ left > 0 /\ left' = left - 1
        /\ head \in Frames /\ trace' = Append(trace, head)
        /\ head' = IF head >= back[head] THEN 0 ELSE back[head]
        /\ UNCHANGED << walker, wanted, readable, back, first_frame >>
    BY <1>2 DEF X86Kernel, Loop, inputs, WalkType
  <2>2. /\ trace' \in Seq(Nat) /\ Len(trace') = Len(trace) + 1
        /\ \A i, j \in DOMAIN trace' : i < j => trace'[i] < trace'[j]
        /\ \A i \in DOMAIN trace' : trace'[i] <= head
    BY <1>0, <2>1, AppendUpwards DEF WalkType, Upwards
  <2>3. WalkType'
    BY <1>0, <2>1, <2>2 DEF WalkType
  <2>4. DepthLeft' /\ Len(trace') <= wanted'
    BY <1>0, <2>1, <2>2 DEF WalkType, DepthLeft
  <2>5. Upwards'
    <3>1. head' # 0 => head < head'
      BY <1>0, <2>1
    <3>2. \A i \in DOMAIN trace' : trace'[i] \in Nat
      BY <2>2
    <3>3. head \in Nat /\ head' \in Nat
      BY <1>0, <2>1
    <3>4. head' # 0 => \A i \in DOMAIN trace' : trace'[i] < head'
      BY <2>2, <3>1, <3>2, <3>3
    <3> QED
      BY <2>2, <3>4 DEF Upwards
  <2> QED
    BY <2>3, <2>4, <2>5
<1>3. CASE X86User
  <2>1. /\ walker = "x86_user" /\ left > 0 /\ left' = left - 1 /\ head \in Frames
        /\ UNCHANGED << walker, wanted, readable, back, first_frame >>
    BY <1>3 DEF X86User, Loop, inputs, WalkType
  <2>2. CASE head \notin readable \/ head >= back[head]
    <3>1. head' = 0 /\ trace' = trace
      BY <1>3, <2>2 DEF X86User
    <3> QED
      BY <1>0, <2>1, <3>1 DEF WalkType, DepthLeft, Upwards
  <2>3. CASE ~(head \notin readable \/ head >= back[head])
    <3>0. head' = back[head] /\ trace' = Append(trace, head)
      BY <1>3, <2>3 DEF X86User
    <3>1. head' = back[head] /\ trace' = Append(trace, head) /\ head < head'
      <4>1. head \in Nat /\ back[head] \in Nat
        <5>1. back[head] \in Frames \cup {0} /\ Frames \cup {0} \subseteq Nat
          BY <1>0, <2>1
        <5> QED
          BY <1>0, <2>1, <5>1
      <4> QED
        BY <2>3, <3>0, <4>1
    <3>2. /\ trace' \in Seq(Nat) /\ Len(trace') = Len(trace) + 1
          /\ \A i, j \in DOMAIN trace' : i < j => trace'[i] < trace'[j]
          /\ \A i \in DOMAIN trace' : trace'[i] <= head
      BY <1>0, <2>1, <3>1, AppendUpwards DEF WalkType, Upwards
    <3>3. WalkType'
      BY <1>0, <2>1, <3>1, <3>2 DEF WalkType
    <3>4. DepthLeft' /\ Len(trace') <= wanted'
      BY <1>0, <2>1, <3>2 DEF WalkType, DepthLeft
    <3>5. Upwards'
      <4>1. \A i \in DOMAIN trace' : trace'[i] \in Nat
        BY <3>2
      <4> QED
        BY <1>0, <2>1, <3>1, <3>2, <3>3, <4>1 DEF Upwards, WalkType
    <3> QED
      BY <3>3, <3>4, <3>5
  <2> QED
    BY <2>2, <2>3
<1>4. CASE PpcKernel \/ PpcUserFirst \/ PpcUser
  <2>1. /\ walker \in PowerPCWalkers /\ left > 0 /\ left' = left - 1
        /\ head' = Getsp
        /\ UNCHANGED << walker, wanted, readable, back >>
    BY <1>4 DEF PpcKernel, PpcUserFirst, PpcUser, Loop, inputs
  <2>2. head' \in Frames \cup {0}
    BY <1>0, <2>1 DEF Getsp, WalkType
  <2>3. first_frame' \in BOOLEAN
    BY <1>4 DEF PpcKernel, PpcUserFirst, PpcUser, WalkType
  <2>4. trace' = trace \/ \E f \in Nat : trace' = Append(trace, f)
    BY <1>0, <1>4 DEF PpcKernel, PpcUserFirst, PpcUser, Added, Link, WalkType
  <2>5. /\ trace' \in Seq(Nat)
        /\ Len(trace') \in {Len(trace), Len(trace) + 1}
    <3>1. CASE trace' = trace
      BY <3>1 DEF WalkType
    <3>2. ASSUME NEW f \in Nat, trace' = Append(trace, f)
          PROVE  trace' \in Seq(Nat) /\ Len(trace') = Len(trace) + 1
      <4>1. trace \in Seq(Nat)
        BY DEF WalkType
      <4> QED
        BY <3>2, <4>1
    <3> QED
      BY <2>4, <3>1, <3>2
  <2>6. CASE left = ExtraTime(wanted) /\ first_frame
    <3>1. trace' = trace
      BY <1>4, <2>6 DEF PpcKernel, PpcUserFirst, PpcUser, Added
    <3>2. Len(trace) + left' <= wanted
      BY <1>0, <2>1, <2>6 DEF DepthLeft, WalkType
    <3> QED
      BY <1>0, <2>1, <2>2, <2>3, <3>1, <3>2 DEF WalkType, DepthLeft, Upwards
  <2>7. CASE Len(trace) + left <= wanted
    BY <1>0, <2>1, <2>2, <2>3, <2>5, <2>7 DEF WalkType, DepthLeft, Upwards
  <2> QED
    BY <2>6, <2>7 DEF DepthLeft
<1>5. CASE \E f \in Frames, to \in Frames \cup {Null} : Write(f, to)
  <2>1. PICK f \in Frames, to \in Frames \cup {0} : Write(f, to)
    BY <1>5
  <2>2. back' \in [Frames -> Frames \cup {0}]
    BY <2>1 DEF Write, WalkType
  <2> QED
    BY <2>1, <2>2 DEF Write, inputs, WalkType, DepthLeft, Upwards
<1>6. CASE UNCHANGED walkVars
  BY <1>6 DEF walkVars, inputs, WalkType, DepthLeft, Upwards
<1> QED
  BY <1>1, <1>2, <1>3, <1>4, <1>5, <1>6 DEF WalkNext

(* A sample gets at most as many frames as wanted, and on x86 each above   *)
(* the one before, for every stack and whatever is written to it.          *)
THEOREM WalkStaysInBounds == WalkSpec => []TraceInBounds
<1>1. WalkInv => TraceInBounds
  BY DEF WalkInv, Upwards, TraceInBounds
<1> QED
  BY InitWalk, NextWalk, <1>1, PTL DEF WalkSpec

-----------------------------------------------------------------------------
(* The chain is a function defined by recursion: that there is one is      *)
(* shown with the least length at which there would be none.               *)
LEMMA Less == \E R : IsWellFoundedOn(R, Nat) /\ \A x, y \in Nat : y < x => <<y, x>> \in R
<1> DEFINE R == OpToRel(<, Nat)
<1>1. IsWellFoundedOn(R, Nat)
  BY NatLessThanWellFounded
<1>2. \A x, y \in Nat : y < x => <<y, x>> \in R
  BY DEF OpToRel
<1> HIDE DEF R
<1> QED
  BY <1>1, <1>2

LEMMA Least ==
  ASSUME NEW T, T \subseteq Nat, T # {}
  PROVE  \E x \in T : \A y \in T : x <= y
<1>1. PICK R : IsWellFoundedOn(R, Nat) /\ \A x, y \in Nat : y < x => <<y, x>> \in R
  BY Less
<1>2. PICK x \in T : \A y \in T : ~(<<y, x>> \in R)
  BY <1>1, WFMin
<1>3. \A y \in T : ~(y < x)
  BY <1>1, <1>2
<1>4. x \in Nat /\ \A y \in T : y \in Nat
  OBVIOUS
<1> QED
  BY <1>2, <1>3, <1>4

(* A prefix of the chain, of length n.                                     *)
Prefix(f, n) ==
  f = [i \in 1 .. n |-> IF i = 1 THEN start ELSE Up(f[i - 1])]

LEMMA PrefixGrows ==
  ASSUME NEW f, NEW n \in Nat \ {0}, Prefix(f, n)
  PROVE  \E g : Prefix(g, n + 1)
<1> DEFINE g == [i \in 1 .. n + 1 |-> IF i = 1 THEN start ELSE Up(f[i - 1])]
<1>1. \A i \in 1 .. n : f[i] = IF i = 1 THEN start ELSE Up(f[i - 1])
  BY DEF Prefix
<1>2. \A i \in 1 .. n : g[i] = f[i]
  BY <1>1
<1>3. \A i \in 1 .. n + 1 : i # 1 => i - 1 \in 1 .. n
  OBVIOUS
<1>4. \A i \in 1 .. n + 1 : (IF i = 1 THEN start ELSE Up(f[i - 1]))
                           = (IF i = 1 THEN start ELSE Up(g[i - 1]))
  <2> HIDE DEF g
  <2> QED
    BY <1>2, <1>3
<1>5. g = [i \in 1 .. n + 1 |-> IF i = 1 THEN start ELSE Up(g[i - 1])]
  <2>1. g = [i \in 1 .. n + 1 |-> IF i = 1 THEN start ELSE Up(f[i - 1])]
    OBVIOUS
  <2> HIDE DEF g
  <2> QED
    BY <1>4, <2>1
<1> HIDE DEF g
<1>6. Prefix(g, n + 1)
  BY <1>5 DEF Prefix
<1> QED
  BY <1>6

LEMMA PrefixExists == ASSUME NEW n \in Nat \ {0} PROVE \E f : Prefix(f, n)
<1> SUFFICES ASSUME ~\E f : Prefix(f, n) PROVE FALSE
  OBVIOUS
<1> DEFINE T == {m \in Nat \ {0} : ~\E f : Prefix(f, m)}
<1>1. PICK m \in T : \A k \in T : m <= k
  <2>1. T \subseteq Nat /\ n \in T
    OBVIOUS
  <2> HIDE DEF T
  <2> QED
    BY <2>1, Least
<1>2. m # 1
  <2> DEFINE f == [i \in 1 .. 1 |-> start]
  <2>1. f = [i \in 1 .. 1 |-> IF i = 1 THEN start ELSE Up(f[i - 1])]
    <3>1. \A i \in 1 .. 1 : i = 1
      OBVIOUS
    <3>2. \A i \in 1 .. 1 : start = IF i = 1 THEN start ELSE Up(f[i - 1])
      BY <3>1
    <3>3. f = [i \in 1 .. 1 |-> start]
      OBVIOUS
    <3> HIDE DEF f
    <3> QED
      BY <3>2, <3>3
  <2> HIDE DEF f
  <2>2. Prefix(f, 1)
    BY <2>1 DEF Prefix
  <2> QED
    BY <2>2
<1>3. m - 1 \in Nat \ {0} /\ m - 1 \notin T
  <2>1. m \in Nat \ {0}
    OBVIOUS
  <2>2. m - 1 \in Nat \ {0} /\ ~(m <= m - 1)
    BY <1>2, <2>1
  <2> HIDE DEF T
  <2> QED
    BY <1>1, <2>2
<1>4. PICK f : Prefix(f, m - 1)
  BY <1>3
<1>5. \E g : Prefix(g, m - 1 + 1)
  BY <1>3, <1>4, PrefixGrows
<1>6. m - 1 + 1 = m /\ ~\E g : Prefix(g, m)
  OBVIOUS
<1> QED
  BY <1>5, <1>6

(* The chain is well defined.                                              *)
LEMMA ChainIs ==
  /\ Chain[1] = start
  /\ \A i \in 1 .. Limit : Chain[i + 1] = Up(Chain[i])
<1>1. Limit + 1 \in Nat \ {0}
  BY BacktraceAssumption
<1>2. PICK f : f = [i \in 1 .. Limit + 1 |-> IF i = 1 THEN start ELSE Up(f[i - 1])]
  BY <1>1, PrefixExists DEF Prefix
<1>3. Chain = [i \in 1 .. Limit + 1 |-> IF i = 1 THEN start ELSE Up(Chain[i - 1])]
  BY <1>2 DEF Chain
<1>4. \A i \in 1 .. Limit + 1 : Chain[i] = IF i = 1 THEN start ELSE Up(Chain[i - 1])
  BY <1>3
<1>5. 1 \in 1 .. Limit + 1
  BY <1>1, BacktraceAssumption
<1>6. Chain[1] = start
  BY <1>4, <1>5
<1>7. ASSUME NEW i \in 1 .. Limit
      PROVE  Chain[i + 1] = Up(Chain[i])
  <2>1. i + 1 \in 1 .. Limit + 1 /\ i + 1 # 1 /\ i + 1 - 1 = i
    BY BacktraceAssumption
  <2> QED
    BY <1>4, <2>1
<1> QED
  BY <1>6, <1>7

(* Above a frame that cannot be read there is none.                        *)
LEMMA ChainEnds ==
  ASSUME WalkType, NEW p \in 1 .. Limit, Chain[p] \notin readable
  PROVE  \A i \in p + 1 .. Limit + 1 : Chain[i] = Null
<1> SUFFICES ASSUME NEW n \in p + 1 .. Limit + 1, Chain[n] # Null PROVE FALSE
  OBVIOUS
<1> DEFINE T == {i \in p + 1 .. Limit + 1 : Chain[i] # Null}
<1>1. PICK m \in T : \A k \in T : m <= k
  <2>1. T \subseteq Nat /\ n \in T
    OBVIOUS
  <2> HIDE DEF T
  <2> QED
    BY <2>1, Least
<1>2. m \in p + 1 .. Limit + 1 /\ Chain[m] # Null
  OBVIOUS
<1>3. m - 1 \in 1 .. Limit /\ m - 1 + 1 = m /\ m - 1 \in p .. Limit
  BY <1>2, BacktraceAssumption
<1>4. Chain[m - 1] \notin readable
  <2>1. CASE m - 1 = p
    BY <2>1
  <2>2. CASE m - 1 # p
    <3>1. m - 1 \in p + 1 .. Limit + 1 /\ ~(m <= m - 1)
      BY <1>2, <1>3, <2>2, BacktraceAssumption
    <3>2. m - 1 \notin T
      <4> HIDE DEF T
      <4> QED
        BY <1>1, <3>1
    <3>3. Chain[m - 1] = Null
      BY <3>1, <3>2
    <3> QED
      BY <3>3, BacktraceAssumption DEF WalkType, Null
  <2> QED
    BY <2>1, <2>2
<1>5. Chain[m] = Up(Chain[m - 1])
  BY <1>3, ChainIs
<1> QED
  BY <1>2, <1>4, <1>5 DEF Up

(* One more frame, after the others.                                       *)
LEMMA ListsOneMore ==
  ASSUME NEW seq \in Seq(Nat), NEW S, S \subseteq Nat, NEW cells, NEW k \in Nat,
         NEW f \in Nat, f = cells[k], \A i \in S : i < k, Lists(seq, S, cells)
  PROVE  Lists(Append(seq, f), S \cup {k}, cells)
<1>1. PICK place \in [DOMAIN seq -> S] :
        /\ \A i \in S : \E n \in DOMAIN seq : place[n] = i
        /\ \A m, n \in DOMAIN seq : m < n => place[m] < place[n]
        /\ \A n \in DOMAIN seq : seq[n] = cells[place[n]]
  BY DEF Lists
<1> DEFINE more == [n \in 1 .. Len(seq) + 1 |-> IF n = Len(seq) + 1 THEN k ELSE place[n]]
<1>2. DOMAIN Append(seq, f) = 1 .. Len(seq) + 1 /\ DOMAIN seq = 1 .. Len(seq) /\ Len(seq) \in Nat
  OBVIOUS
<1>3. \A n \in 1 .. Len(seq) + 1 : Append(seq, f)[n] = IF n = Len(seq) + 1 THEN f ELSE seq[n]
  OBVIOUS
<1>4. \A n \in 1 .. Len(seq) + 1 : n = Len(seq) + 1 \/ n \in 1 .. Len(seq)
  BY <1>2
<1>5. \A n \in 1 .. Len(seq) : n \in 1 .. Len(seq) + 1 /\ n < Len(seq) + 1 /\ n # Len(seq) + 1
  BY <1>2
<1>6. \A n \in 1 .. Len(seq) + 1 : more[n] = IF n = Len(seq) + 1 THEN k ELSE place[n]
  OBVIOUS
<1>7. \A n \in 1 .. Len(seq) : place[n] \in S
  BY <1>2
<1>8. more \in [DOMAIN Append(seq, f) -> S \cup {k}]
  BY <1>2, <1>4, <1>7
<1> HIDE DEF more
<1>9. Len(seq) + 1 \in 1 .. Len(seq) + 1
  BY <1>2
<1>10. ASSUME NEW i \in S \cup {k}
       PROVE  \E n \in DOMAIN Append(seq, f) : more[n] = i
  <2>1. CASE i = k
    BY <1>2, <1>6, <1>9, <2>1
  <2>2. CASE i \in S
    <3>1. PICK n \in 1 .. Len(seq) : place[n] = i
      BY <1>1, <1>2, <2>2
    <3> QED
      BY <1>2, <1>5, <1>6, <3>1
  <2> QED
    BY <2>1, <2>2
<1>11. ASSUME NEW m \in DOMAIN Append(seq, f), NEW n \in DOMAIN Append(seq, f), m < n
       PROVE  more[m] < more[n]
  <2>1. m \in 1 .. Len(seq)
    BY <1>2, <1>11
  <2>2. more[m] = place[m] /\ place[m] \in S
    BY <1>5, <1>6, <1>7, <2>1
  <2>3. CASE n = Len(seq) + 1
    BY <1>2, <1>6, <2>2, <2>3
  <2>4. CASE n \in 1 .. Len(seq)
    BY <1>1, <1>2, <1>5, <1>6, <1>11, <2>1, <2>2, <2>4
  <2> QED
    BY <1>2, <1>4, <2>3, <2>4
<1>12. ASSUME NEW n \in DOMAIN Append(seq, f)
       PROVE  Append(seq, f)[n] = cells[more[n]]
  <2>1. CASE n = Len(seq) + 1
    BY <1>2, <1>3, <1>6, <2>1
  <2>2. CASE n \in 1 .. Len(seq)
    BY <1>1, <1>2, <1>3, <1>5, <1>6, <2>2
  <2> QED
    BY <1>2, <1>4, <2>1, <2>2
<1> QED
  BY <1>8, <1>10, <1>11, <1>12 DEF Lists

(* Records(i), case by case.                                               *)
LEMMA RecordsIs ==
  ASSUME NEW i
  PROVE  /\ walker = "x86_kernel" => (Records(i) <=> i <= wanted /\ Chain[i] \in readable)
         /\ walker = "x86_user" => (Records(i) <=> i <= wanted /\ Chain[i + 1] # Null)
         /\ walker = "ppc_kernel" =>
              (Records(i) <=> i \in 2 .. wanted + 1 /\ Chain[i] \in readable \cap KernelLr)
         /\ walker = "ppc_user" =>
              (Records(i) <=> \/ i = 2 /\ wanted > 0 /\ Chain[3] # Null
                              \/ i \in 3 .. wanted + 1 /\ Chain[i] \in readable)
BY DEF Records

LEMMA RecordedPlaces == \A i \in Recorded : i \in 1 .. Limit /\ i \in Nat /\ Records(i)
BY DEF Recorded

(* Nothing is recorded of a frame that cannot be read, nor above it.       *)
LEMMA NothingAbove ==
  ASSUME WalkType, NEW p \in 1 .. Limit, Chain[p] \notin readable
  PROVE  \A i \in Recorded : i < p
<1> SUFFICES ASSUME NEW i \in Recorded, i >= p PROVE FALSE
  BY RecordedPlaces
<1>1. i \in 1 .. Limit /\ i \in p .. Limit /\ i + 1 \in p + 1 .. Limit + 1 /\ Records(i)
  BY RecordedPlaces, BacktraceAssumption
<1>2. \A n \in p + 1 .. Limit + 1 : Chain[n] = Null
  BY ChainEnds
<1>3. Chain[i + 1] = Null
  BY <1>1, <1>2
<1>4. Chain[i] \notin readable
  <2>1. i = p \/ i \in p + 1 .. Limit + 1
    BY <1>1, BacktraceAssumption
  <2>2. Null \notin readable
    BY BacktraceAssumption DEF WalkType, Null
  <2> QED
    BY <1>2, <2>1, <2>2
<1>5. i = 2 => i + 1 = 3
  OBVIOUS
<1> QED
  BY <1>1, <1>3, <1>4, <1>5, RecordsIs DEF WalkType, X86Walkers, PowerPCWalkers

-----------------------------------------------------------------------------
(* The frames read so far.                                                 *)
Position == IF walker \in PowerPCWalkers THEN wanted + 1 - left ELSE wanted - left

RecordedTo(p) == {i \in Recorded : i <= p}

Quiet == writes = 0 /\ (walker \in PowerPCWalkers => wanted < Limit - 1)

(* The walk is at its place in the chain; first_frame says whether the     *)
(* next frame is the first, or one of the first two of a user task.        *)
InPlace ==
  /\ Position \in 0 .. Limit - 1
  /\ head = Chain[Position + 1]
  /\ walker = "ppc_kernel" => (first_frame <=> Position = 0)
  /\ walker = "ppc_user" => (first_frame <=> Position <= 1)

WalkedSoFar ==
  /\ writes \in Nat /\ walking \in BOOLEAN
  /\ Quiet /\ walking => InPlace /\ Lists(trace, RecordedTo(Position), Cells)
  /\ Quiet /\ ~walking => Lists(trace, Recorded, Cells)

(* One more frame of the chain has been read.                              *)
LEMMA ReadsOneMore ==
  ASSUME WalkType, NEW p \in 0 .. Limit - 1, Lists(trace, RecordedTo(p), Cells),
         NEW seq,
         \/ p + 1 \in Recorded /\ Cells[p + 1] \in Nat /\ seq = Append(trace, Cells[p + 1])
         \/ p + 1 \notin Recorded /\ seq = trace
  PROVE  Lists(seq, RecordedTo(p + 1), Cells)
<1>1. p \in Nat /\ p + 1 \in Nat
  BY BacktraceAssumption
<1>2. \A i \in Recorded : i \in Nat
  BY RecordedPlaces
<1>3. \A i \in Recorded : i <= p + 1 <=> i <= p \/ i = p + 1
  BY <1>1, <1>2
<1>4. \A i \in RecordedTo(p) : i \in Nat /\ i < p + 1
  <2>1. \A i \in Recorded : i <= p => i < p + 1
    BY <1>1, <1>2
  <2> QED
    BY <1>2, <2>1 DEF RecordedTo
<1>5. CASE p + 1 \in Recorded /\ Cells[p + 1] \in Nat /\ seq = Append(trace, Cells[p + 1])
  <2>1. RecordedTo(p + 1) = RecordedTo(p) \cup {p + 1}
    <3>1. p + 1 <= p + 1
      BY <1>1
    <3> QED
      BY <1>3, <1>5, <3>1, Zenon DEF RecordedTo
  <2>2. trace \in Seq(Nat)
    BY DEF WalkType
  <2> DEFINE S == RecordedTo(p)
             f == Cells[p + 1]
  <2>3. S \subseteq Nat /\ (\A i \in S : i < p + 1) /\ Lists(trace, S, Cells) /\ f = Cells[p + 1]
    BY <1>4
  <2>4. RecordedTo(p + 1) = S \cup {p + 1} /\ seq = Append(trace, f) /\ f \in Nat
    BY <1>5, <2>1
  <2> HIDE DEF S, f
  <2>5. Lists(Append(trace, f), S \cup {p + 1}, Cells)
    BY <1>1, <2>2, <2>3, <2>4, ListsOneMore
  <2> QED
    BY <2>4, <2>5
<1>6. CASE p + 1 \notin Recorded /\ seq = trace
  <2>1. RecordedTo(p + 1) = RecordedTo(p)
    BY <1>3, <1>6, Zenon DEF RecordedTo
  <2> QED
    BY <1>6, <2>1
<1> QED
  BY <1>5, <1>6

(* The trace is complete once the walk cannot go on.                       *)
LEMMA WalkIsOver ==
  ASSUME WalkType, NEW p \in 0 .. Limit,
         \/ walker \in X86Walkers /\ p = wanted
         \/ walker \in PowerPCWalkers /\ p = wanted + 1
         \/ p < Limit /\ Chain[p + 1] \notin readable
  PROVE  RecordedTo(p) = Recorded
<1>1. CASE p < Limit /\ Chain[p + 1] \notin readable
  <2>1. p + 1 \in 1 .. Limit
    BY <1>1, BacktraceAssumption
  <2>2. \A i \in Recorded : i < p + 1
    BY <1>1, <2>1, NothingAbove
  <2>3. \A i \in Recorded : i \in Nat
    BY DEF Recorded
  <2> QED
    BY <2>2, <2>3 DEF RecordedTo
<1>2. CASE walker \in X86Walkers /\ p = wanted
  <2>1. \A i \in Recorded : i <= wanted
    BY <1>2, RecordedPlaces, RecordsIs DEF X86Walkers
  <2> QED
    BY <1>2, <2>1 DEF RecordedTo
<1>3. CASE walker \in PowerPCWalkers /\ p = wanted + 1
  <2>1. \A i \in Recorded : i <= wanted + 1
    <3>1. ASSUME NEW i \in Recorded PROVE i \in 2 .. wanted + 1
      BY <1>3, RecordedPlaces, RecordsIs DEF PowerPCWalkers, WalkType
    <3> QED
      BY <3>1 DEF WalkType
  <2> QED
    BY <1>3, <2>1 DEF RecordedTo
<1> QED
  BY <1>1, <1>2, <1>3

LEMMA InitWalked == WalkInit => WalkedSoFar
<1> SUFFICES ASSUME WalkInit PROVE WalkedSoFar
  OBVIOUS
<1>1. WalkType
  BY InitWalk DEF WalkInv
<1>2. writes = 0 /\ walking = TRUE /\ trace = << >> /\ head = start
  BY DEF WalkInit
<1>3. ASSUME Quiet PROVE Position = 0
  <2>1. CASE walker \in PowerPCWalkers
    <3>1. left = ExtraTime(wanted) /\ wanted < Limit - 1
      BY <1>3, <2>1 DEF WalkInit, Quiet
    <3>2. left = wanted + 1
      BY <1>1, <3>1, BacktraceAssumption DEF ExtraTime, WalkType
    <3> QED
      BY <1>1, <2>1, <3>2 DEF Position, WalkType
  <2>2. CASE walker \notin PowerPCWalkers
    BY <1>1, <2>2 DEF Position, WalkType, WalkInit
  <2> QED
    BY <2>1, <2>2
<1>4. ASSUME Quiet PROVE InPlace
  <2>1. Chain[1] = start
    BY ChainIs
  <2>2. first_frame = (walker \in PowerPCWalkers)
    BY DEF WalkInit
  <2>3. Position \in 0 .. Limit - 1 /\ Position + 1 = 1 /\ Position <= 1
    BY <1>3, <1>4, BacktraceAssumption
  <2> QED
    BY <1>2, <1>3, <1>4, <2>1, <2>2, <2>3 DEF InPlace, PowerPCWalkers
<1>5. ASSUME Quiet PROVE Lists(trace, RecordedTo(Position), Cells)
  <2>1. RecordedTo(0) = {}
    BY RecordedPlaces DEF RecordedTo
  <2>2. DOMAIN trace = {}
    BY <1>2
  <2>3. [i \in {} |-> 0] \in [DOMAIN trace -> {}]
    BY <2>2
  <2> QED
    BY <1>3, <1>5, <2>1, <2>2, <2>3 DEF Lists
<1> QED
  BY <1>2, <1>4, <1>5 DEF WalkedSoFar

(* The chain and what is to be recorded of it depend on the inputs and on  *)
(* the stack only.                                                         *)
LEMMA ChainStays ==
  ASSUME UNCHANGED << inputs, back >>
  PROVE  Chain' = Chain /\ Cells' = Cells /\ Recorded' = Recorded
<1>1. UNCHANGED << walker, wanted, readable, start, back >>
  BY DEF inputs
<1>2. Chain' = Chain
  BY <1>1 DEF Chain, Up
<1>3. Cells' = Cells
  BY <1>1, <1>2 DEF Cells
<1>4. Recorded' = Recorded
  BY <1>1, <1>2 DEF Recorded, Records
<1> QED
  BY <1>2, <1>3, <1>4

(* What an iteration of the loop does to a walk in its place: it records   *)
(* the frame if it is to be recorded, goes up, and stops only at the end.  *)
LEMMA WalksUp ==
  ASSUME WalkType, WalkType', WalkedSoFar, Quiet, walking, Position < Limit - 1, left > 0,
         UNCHANGED << inputs, back, writes >>, left' = left - 1, head' = Up(head),
         \/ /\ Position + 1 \in Recorded /\ Cells[Position + 1] \in Nat
            /\ trace' = Append(trace, Cells[Position + 1])
         \/ Position + 1 \notin Recorded /\ trace' = trace,
         walker = "ppc_kernel" => ~first_frame' \/ ~walking',
         walker = "ppc_user" /\ walking' => (first_frame' <=> Position + 1 <= 1),
         walking' \in BOOLEAN, ~walking' => head' = Null
  PROVE  WalkedSoFar'
<1>1. InPlace /\ Lists(trace, RecordedTo(Position), Cells) /\ writes \in Nat
  BY DEF WalkedSoFar
<1>2. UNCHANGED << walker, wanted, readable, start, back >> /\ writes' = writes
  BY DEF inputs
<1>3. Chain' = Chain /\ Cells' = Cells /\ Recorded' = Recorded
  BY ChainStays
<1>4. Position \in 0 .. Limit - 1 /\ Position \in Nat /\ Position + 1 \in 0 .. Limit - 1
  BY <1>1, BacktraceAssumption DEF InPlace
<1>5. Position' = Position + 1
  BY <1>2, BacktraceAssumption DEF Position, WalkType
<1>6. Lists(trace', RecordedTo(Position + 1), Cells)
  <2> DEFINE p == Position
  <2>1. p \in 0 .. Limit - 1 /\ Lists(trace, RecordedTo(p), Cells)
    BY <1>1, <1>4
  <2>2. \/ p + 1 \in Recorded /\ Cells[p + 1] \in Nat /\ trace' = Append(trace, Cells[p + 1])
        \/ p + 1 \notin Recorded /\ trace' = trace
    OBVIOUS
  <2> HIDE DEF p
  <2>3. Lists(trace', RecordedTo(p + 1), Cells)
    BY <2>1, <2>2, ReadsOneMore
  <2> QED
    BY <2>3 DEF p
<1>7. Chain[Position + 2] = head'
  <2>1. Position + 1 \in 1 .. Limit /\ Position + 1 + 1 = Position + 2
    BY <1>4, BacktraceAssumption
  <2>2. Chain[Position + 1 + 1] = Up(Chain[Position + 1])
    BY <2>1, ChainIs
  <2> QED
    BY <1>1, <2>1, <2>2 DEF InPlace
<1>8. ASSUME walking' PROVE InPlace'
  <2>1. Position' + 1 = Position + 2 /\ Position' # 0
    BY <1>4, <1>5
  <2> QED
    BY <1>2, <1>3, <1>4, <1>5, <1>7, <1>8, <2>1 DEF InPlace
<1>9. RecordedTo(Position)' = RecordedTo(Position + 1)
  BY <1>3, <1>5 DEF RecordedTo
<1>10. ASSUME ~walking' PROVE RecordedTo(Position + 1) = Recorded
  <2> DEFINE p == Position + 1
  <2>1. p \in 0 .. Limit /\ p < Limit /\ Chain[p + 1] = Null
    <3>1. p + 1 = Position + 2
      BY <1>4
    <3> QED
      BY <1>4, <1>7, <1>10, <3>1, BacktraceAssumption
  <2>2. Null \notin readable
    BY BacktraceAssumption DEF WalkType, Null
  <2> HIDE DEF p
  <2>3. RecordedTo(p) = Recorded
    BY <2>1, <2>2, WalkIsOver
  <2> QED
    BY <2>3 DEF p
<1>11. ASSUME walking' PROVE Lists(trace, RecordedTo(Position), Cells)'
  BY <1>3, <1>6, <1>9
<1>12. ASSUME ~walking' PROVE Lists(trace, Recorded, Cells)'
  BY <1>3, <1>6, <1>10, <1>12
<1> QED
  BY <1>1, <1>2, <1>8, <1>11, <1>12 DEF WalkedSoFar

(* What is in the trace for the frame the walk is at.                      *)
LEMMA CellHere ==
  ASSUME WalkType, InPlace
  PROVE  /\ Cells[Position + 1] \in Nat
         /\ Cells[Position + 1] = IF walker = "ppc_user" /\ Position = 1 THEN Link ELSE head
<1>1. Position + 1 \in 1 .. Limit /\ (Position + 1 = 2 <=> Position = 1)
  BY BacktraceAssumption DEF InPlace
<1>2. Cells[Position + 1] = IF walker = "ppc_user" /\ Position = 1 THEN Link ELSE head
  BY <1>1 DEF InPlace, Cells
<1>3. head \in Nat /\ Link \in Nat
  BY BacktraceAssumption DEF WalkType, Null, Link
<1> QED
  BY <1>2, <1>3

(* An iteration leaves room in the chain, and counts the frames read.      *)
LEMMA RoomAbove ==
  ASSUME WalkType, Quiet, InPlace, left > 0
  PROVE  /\ Position < Limit - 1 /\ Position \in Nat
         /\ walker \in X86Walkers => Position + 1 <= wanted
         /\ walker \in PowerPCWalkers => Position <= wanted
         /\ Position + 1 \in 1 .. Limit
<1>1. Position \in Nat
  BY BacktraceAssumption DEF InPlace
<1>2. CASE walker \in PowerPCWalkers
  <2>1. Position = wanted + 1 - left /\ wanted < Limit - 1 /\ wanted \in Nat /\ left \in Nat
    BY <1>2, BacktraceAssumption DEF Position, Quiet, WalkType
  <2> QED
    BY <1>1, <1>2, <2>1, BacktraceAssumption DEF PowerPCWalkers, X86Walkers
<1>3. CASE walker \in X86Walkers
  <2>1. Position = wanted - left /\ wanted < Limit /\ wanted \in Nat /\ left \in Nat
    BY <1>3, BacktraceAssumption DEF Position, WalkType, X86Walkers, PowerPCWalkers
  <2> QED
    BY <1>1, <1>3, <2>1, BacktraceAssumption DEF PowerPCWalkers, X86Walkers
<1> QED
  BY <1>2, <1>3 DEF WalkType

LEMMA LeavesWalked == WalkType /\ WalkedSoFar /\ Leaves => WalkedSoFar'
<1> SUFFICES ASSUME WalkType, WalkedSoFar, Leaves PROVE WalkedSoFar'
  OBVIOUS
<1>1. walking /\ walking' = FALSE /\ UNCHANGED << inputs, back, left, trace, writes >>
  BY DEF Leaves, Stop
<1>2. Cells' = Cells /\ Recorded' = Recorded
  BY <1>1, ChainStays
<1>3. Quiet' <=> Quiet
  BY <1>1 DEF Quiet, inputs
<1>4. ASSUME Quiet PROVE Lists(trace', Recorded, Cells)
  <2>1. InPlace /\ Lists(trace, RecordedTo(Position), Cells)
    BY <1>1, <1>4 DEF WalkedSoFar
  <2>2. Null \notin readable
    BY BacktraceAssumption DEF WalkType, Null
  <2> DEFINE p == Position
  <2>3. p \in 0 .. Limit /\ p < Limit /\ head = Chain[p + 1]
    BY <2>1, BacktraceAssumption DEF InPlace
  <2>4. \/ walker \in X86Walkers /\ p = wanted
        \/ walker \in PowerPCWalkers /\ p = wanted + 1
        \/ Chain[p + 1] \notin readable
    <3>1. CASE left = 0
      BY <3>1 DEF Position, WalkType
    <3>2. CASE left # 0
      BY <2>2, <2>3, <3>2 DEF Leaves
    <3> QED
      BY <3>1, <3>2
  <2> HIDE DEF p
  <2>5. RecordedTo(p) = Recorded
    BY <2>3, <2>4, WalkIsOver
  <2>6. Lists(trace, RecordedTo(p), Cells)
    BY <2>1 DEF p
  <2> QED
    BY <1>1, <2>5, <2>6
<1>5. writes' \in Nat /\ walking' \in BOOLEAN
  BY <1>1 DEF WalkedSoFar
<1> QED
  BY <1>1, <1>2, <1>3, <1>4, <1>5 DEF WalkedSoFar

LEMMA X86Walked ==
  WalkType /\ WalkType' /\ WalkedSoFar /\ (X86Kernel \/ X86User) => WalkedSoFar'
<1> SUFFICES ASSUME WalkType, WalkType', WalkedSoFar, X86Kernel \/ X86User PROVE WalkedSoFar'
  OBVIOUS
<1>1. /\ walker \in X86Walkers /\ walking /\ left > 0 /\ left' = left - 1
      /\ UNCHANGED << inputs, back, first_frame, walking, writes >>
  BY DEF X86Kernel, X86User, Loop, X86Walkers
<1>2. CASE ~Quiet
  BY <1>1, <1>2 DEF WalkedSoFar, Quiet, inputs
<1>3. CASE Quiet
  <2>1. InPlace /\ Position < Limit - 1 /\ Position \in Nat /\ Position + 1 <= wanted
        /\ Position + 1 \in 1 .. Limit
    BY <1>1, <1>3, RoomAbove DEF WalkedSoFar
  <2>2. Cells[Position + 1] \in Nat /\ Cells[Position + 1] = head
    BY <1>1, <2>1, CellHere DEF X86Walkers
  <2>3. head = Chain[Position + 1] /\ Chain[Position + 1 + 1] = Up(head)
    BY <2>1, ChainIs DEF InPlace
  <2>4. head \in readable => head \in Nat /\ back[head] \in Nat /\ head > 0
    <3>1. Frames \cup {0} \subseteq Nat /\ 0 \notin Frames
      BY BacktraceAssumption
    <3>2. head \in readable => head \in Frames /\ back[head] \in Frames \cup {0}
      BY DEF WalkType, Null
    <3> QED
      BY <3>1, <3>2
  <2>5. head' = Up(head)
    BY <1>1, <2>4 DEF X86Kernel, X86User, Up
  <2>6. \/ Position + 1 \in Recorded /\ trace' = Append(trace, head)
        \/ Position + 1 \notin Recorded /\ trace' = trace
    <3>1. CASE X86Kernel
      <4>1. walker = "x86_kernel" /\ head \in readable /\ trace' = Append(trace, head)
        BY <3>1 DEF X86Kernel
      <4>2. Records(Position + 1)
        BY <2>1, <2>3, <4>1, RecordsIs
      <4> QED
        BY <2>1, <4>1, <4>2 DEF Recorded
    <3>2. CASE X86User
      <4>1. Position + 1 \in Recorded <=> Up(head) # Null
        BY <2>1, <2>3, <3>2, RecordsIs DEF Recorded, X86User
      <4>2. Up(head) # Null <=> ~(head \notin readable \/ head >= back[head])
        BY <1>1, <2>4 DEF Up, Null
      <4> QED
        BY <3>2, <4>1, <4>2 DEF X86User
    <3> QED
      BY <3>1, <3>2
  <2> QED
    BY <1>1, <1>3, <2>1, <2>2, <2>5, <2>6, WalksUp DEF X86Walkers
<1> QED
  BY <1>2, <1>3

LEMMA PowerPCWalked ==
  WalkType /\ WalkType' /\ WalkedSoFar /\ (PpcKernel \/ PpcUserFirst \/ PpcUser) => WalkedSoFar'
<1> SUFFICES ASSUME WalkType, WalkType', WalkedSoFar, PpcKernel \/ PpcUserFirst \/ PpcUser
             PROVE  WalkedSoFar'
  OBVIOUS
<1>1. /\ walker \in PowerPCWalkers /\ walking /\ left > 0 /\ left' = left - 1 /\ head' = Getsp
      /\ (IF head' = Null THEN walking' = FALSE ELSE walking' = walking)
      /\ UNCHANGED << inputs, back, writes >>
  BY DEF PpcKernel, PpcUserFirst, PpcUser, Loop, Stop, PowerPCWalkers
<1>2. walking' \in BOOLEAN /\ (~walking' => head' = Null) /\ (walking' => head' # Null)
  BY <1>1 DEF WalkedSoFar
<1>3. CASE ~Quiet
  BY <1>1, <1>2, <1>3 DEF WalkedSoFar, Quiet, inputs
<1>4. CASE Quiet
  <2>1. InPlace /\ Position < Limit - 1 /\ Position \in Nat /\ Position <= wanted
        /\ Position + 1 \in 1 .. Limit
    BY <1>1, <1>4, RoomAbove DEF WalkedSoFar
  <2>2. /\ Cells[Position + 1] \in Nat
        /\ Cells[Position + 1] = IF walker = "ppc_user" /\ Position = 1 THEN Link ELSE head
    BY <2>1, CellHere
  <2>3. head = Chain[Position + 1] /\ Chain[Position + 1 + 1] = Up(head)
    BY <2>1, ChainIs DEF InPlace
  <2>4. head' = Up(head)
    BY <1>1 DEF Getsp, Up, X86Walkers, PowerPCWalkers
  <2>5. /\ wanted \in Nat /\ left = wanted + 1 - Position /\ left \in Nat
        /\ ExtraTime(wanted) = wanted + 1
    <3>1. wanted \in Nat /\ wanted + 1 < Limit
      BY <1>1, <1>4, BacktraceAssumption DEF Quiet, WalkType
    <3>2. ExtraTime(wanted) = wanted + 1
      BY <3>1, BacktraceAssumption DEF ExtraTime
    <3> QED
      BY <1>1, <3>1, <3>2 DEF Position, WalkType
  <2>6. left = ExtraTime(wanted) <=> Position = 0
    BY <2>1, <2>5
  <2>7. CASE PpcKernel
    <3>1. /\ walker = "ppc_kernel" /\ (first_frame <=> Position = 0)
          /\ trace' = IF head \in Added THEN Append(trace, head) ELSE trace
          /\ first_frame' = (first_frame /\ head' = Null)
      BY <2>1, <2>7 DEF PpcKernel, InPlace
    <3>2. Position + 1 \in Recorded <=> Position # 0 /\ head \in readable \cap KernelLr
      <4>1. Position + 1 \in 2 .. wanted + 1 <=> Position # 0
        BY <2>1, <2>5
      <4> QED
        BY <2>1, <2>3, <3>1, <4>1, RecordsIs DEF Recorded
    <3>3. head \in Added <=> Position + 1 \in Recorded
      BY <3>1, <3>2 DEF Added
    <3> QED
      BY <1>1, <1>2, <1>4, <2>1, <2>2, <2>4, <3>1, <3>3, WalksUp
  <2>8. CASE PpcUserFirst
    <3>1. walker = "ppc_user" /\ Position = 0 /\ first_frame /\ first_frame' = first_frame
          /\ trace' = trace
      BY <2>1, <2>6, <2>8 DEF PpcUserFirst, InPlace
    <3>2. Position + 1 \notin Recorded
      <4>1. Position + 1 = 1 /\ 1 \notin 3 .. wanted + 1
        BY <2>5, <3>1
      <4> QED
        BY <3>1, <4>1, RecordsIs DEF Recorded
    <3> QED
      BY <1>1, <1>2, <1>4, <2>1, <2>4, <3>1, <3>2, WalksUp
  <2>9. CASE PpcUser
    <3>1. /\ walker = "ppc_user" /\ Position # 0 /\ (first_frame <=> Position <= 1)
          /\ trace' = IF head \in Added THEN Append(trace, head)
                      ELSE IF first_frame /\ head' # Null THEN Append(trace, Link) ELSE trace
          /\ first_frame' = (first_frame /\ head' = Null)
      BY <2>1, <2>6, <2>9 DEF PpcUser, InPlace
    <3>2. walking' => (first_frame' <=> Position + 1 <= 1)
      <4>1. ~(Position + 1 <= 1)
        BY <2>1, <3>1
      <4> QED
        BY <1>2, <3>1, <4>1, Zenon
    <3>3. head \in Added <=> head \in readable /\ Position # 1
      BY <2>1, <3>1 DEF Added
    <3>4. CASE Position = 1
      <4>1. Position + 1 = 2 /\ Position + 1 + 1 = 3 /\ wanted > 0 /\ 2 \notin 3 .. wanted + 1
        BY <2>1, <2>5, <3>4
      <4>2. Position + 1 \in Recorded <=> head' # Null
        BY <2>1, <2>3, <2>4, <3>1, <4>1, RecordsIs DEF Recorded
      <4>3. \/ /\ Position + 1 \in Recorded /\ trace' = Append(trace, Cells[Position + 1])
            \/ Position + 1 \notin Recorded /\ trace' = trace
        BY <2>2, <3>1, <3>3, <3>4, <4>2
      <4> QED
        BY <1>1, <1>2, <1>4, <2>1, <2>2, <2>4, <3>1, <3>2, <4>3, WalksUp
    <3>5. CASE Position # 1
      <4>1. Position + 1 # 2 /\ Position + 1 \in 3 .. wanted + 1
        BY <2>1, <2>5, <3>1, <3>5
      <4>2. Position + 1 \in Recorded <=> head \in readable
        BY <2>1, <2>3, <3>1, <4>1, RecordsIs DEF Recorded
      <4>3. \/ /\ Position + 1 \in Recorded /\ trace' = Append(trace, Cells[Position + 1])
            \/ Position + 1 \notin Recorded /\ trace' = trace
        BY <2>1, <2>2, <3>1, <3>3, <3>5, <4>2
      <4> QED
        BY <1>1, <1>2, <1>4, <2>1, <2>2, <2>4, <3>1, <3>2, <4>3, WalksUp
    <3> QED
      BY <3>4, <3>5
  <2> QED
    BY <2>7, <2>8, <2>9
<1> QED
  BY <1>3, <1>4

LEMMA NextWalked == WalkInv /\ WalkedSoFar /\ [WalkNext]_walkVars => WalkedSoFar'
<1> SUFFICES ASSUME WalkInv, WalkedSoFar, [WalkNext]_walkVars PROVE WalkedSoFar'
  OBVIOUS
<1>1. WalkType /\ WalkType'
  BY NextWalk DEF WalkInv
<1>2. CASE Leaves
  BY <1>1, <1>2, LeavesWalked
<1>3. CASE X86Kernel \/ X86User
  BY <1>1, <1>3, X86Walked
<1>4. CASE PpcKernel \/ PpcUserFirst \/ PpcUser
  BY <1>1, <1>4, PowerPCWalked
<1>5. CASE \E f \in Frames, to \in Frames \cup {Null} : Write(f, to)
  <2>1. writes' = writes + 1 /\ writes \in Nat /\ walking' = walking /\ walking \in BOOLEAN
    BY <1>5 DEF Write, WalkedSoFar
  <2>2. writes' \in Nat /\ writes' # 0
    BY <2>1
  <2> QED
    BY <2>1, <2>2 DEF WalkedSoFar, Quiet
<1>6. CASE UNCHANGED walkVars
  <2>1. UNCHANGED << inputs, back, left, head, first_frame, trace, walking, writes >>
    BY <1>6 DEF walkVars
  <2>2. UNCHANGED << walker, wanted, readable, start >>
    BY <2>1 DEF inputs
  <2>3. Chain' = Chain /\ Cells' = Cells /\ Recorded' = Recorded
    BY <2>1, ChainStays
  <2>4. Position' = Position
    BY <2>1, <2>2 DEF Position
  <2>5. (InPlace' <=> InPlace) /\ (Quiet' <=> Quiet)
    BY <2>1, <2>2, <2>3, <2>4 DEF InPlace, Quiet
  <2>6. RecordedTo(Position)' = RecordedTo(Position)
    BY <2>3, <2>4 DEF RecordedTo
  <2> QED
    BY <2>1, <2>3, <2>5, <2>6 DEF WalkedSoFar
<1> QED
  BY <1>2, <1>3, <1>4, <1>5, <1>6 DEF WalkNext

(* A walk of a stack that nobody writes to records the whole chain of      *)
(* frames, as deep as wanted, each frame once and in its place.            *)
THEOREM WholeChainIsWalked == WalkSpec => []WholeChainWalked
<1>1. WalkInit => WalkInv /\ WalkedSoFar
  BY InitWalk, InitWalked
<1>2. WalkInv /\ WalkedSoFar /\ [WalkNext]_walkVars => WalkInv' /\ WalkedSoFar'
  BY NextWalk, NextWalked
<1>3. WalkedSoFar => WholeChainWalked
  BY DEF WalkedSoFar, WholeChainWalked, Quiet
<1> QED
  BY <1>1, <1>2, <1>3, PTL DEF WalkSpec
=============================================================================

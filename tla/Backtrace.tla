------------------------------- MODULE Backtrace -------------------------------
(***************************************************************************)
(* Walking the stack of an interrupted task (x86/backtrace.c,              *)
(* powerpc/backtrace.c, built with RRPROFILE).  Each loop iteration reads  *)
(* one frame.  The stack of a user task is not the driver's: other threads *)
(* of the task may write to it between two reads.                          *)
(***************************************************************************)
EXTENDS Naturals, Sequences

CONSTANTS
  Frames,      \* addresses at which a frame may lie
  KernelLr,    \* the frames whose return address is in the kernel
  Limit,       \* 2^32 in the code: the depth is an unsigned int
  MaxWrites    \* bound: writes of other threads

ASSUME BacktraceAssumption ==
  /\ Frames \subseteq Nat \ {0} /\ KernelLr \subseteq Frames
  /\ Limit \in Nat \ {0} /\ MaxWrites \in Nat

Null == 0
Junk == 0      \* the word at an address of Unreadable
Link == 0      \* in a trace: the link register, not a frame

X86Walkers     == {"x86_kernel", "x86_user"}
PowerPCWalkers == {"ppc_kernel", "ppc_user"}

VARIABLES
  walker,
  wanted,      \* depth, as the caller gave it
  readable,    \* frames on the kernel stack, or that copy_from_user can read
  back,        \* the back chain word of each frame
  left,        \* depth, counted down by the loop
  head,        \* head, sp
  first_frame,
  trace,       \* the frames given to oprofile_add_trace()
  walking,
  start,       \* history: where the walk started
  writes

inputs == << walker, wanted, readable, start >>
walkVars == << inputs, back, left, head, first_frame, trace, walking, writes >>

(* "We ditch the top stackframe so need to loop through an extra time"     *)
ExtraTime(depth) == (depth + 1) % Limit

WalkInit ==
  /\ walker \in X86Walkers \cup PowerPCWalkers
  /\ wanted \in 0 .. Limit - 1
  /\ readable \in SUBSET Frames
  /\ back \in [Frames -> Frames \cup {Null}] /\ \A f \in Frames \ readable : back[f] = Junk
  /\ left = IF walker \in PowerPCWalkers THEN ExtraTime(wanted) ELSE wanted
  /\ head \in Frames \cup {Null} /\ start = head
  /\ first_frame = (walker \in PowerPCWalkers)
  /\ trace = << >> /\ walking = TRUE /\ writes = 0

-----------------------------------------------------------------------------
(* while (depth-- && ...): one more iteration.                             *)
Loop == walking /\ left > 0 /\ left' = left - 1

Stop == walking' = FALSE

Leaves ==
  /\ walking /\ Stop
  /\ left = 0 \/ (walker \in X86Walkers /\ head = Null)
              \/ (walker = "x86_kernel" /\ head \notin readable)
  /\ UNCHANGED << inputs, back, left, head, first_frame, trace, writes >>

(* dump_kernel_backtrace(): the frame is recorded before the test.         *)
X86Kernel ==
  /\ walker = "x86_kernel" /\ Loop /\ head \in readable
  /\ trace' = Append(trace, head)
  /\ head' = IF head >= back[head] THEN Null ELSE back[head]
  /\ UNCHANGED << inputs, back, first_frame, walking, writes >>

(* Mutant: a frame that points to itself is followed.                      *)
X86UserEqual ==
  /\ walker = "x86_user" /\ Loop /\ head # Null
  /\ IF head \notin readable \/ head > back[head]
     THEN head' = Null /\ UNCHANGED trace
     ELSE head' = back[head] /\ trace' = Append(trace, head)
  /\ UNCHANGED << inputs, back, first_frame, walking, writes >>

(* dump_user64_backtrace(), dump_user32_backtrace()                        *)
X86User ==
  /\ walker = "x86_user" /\ Loop /\ head # Null
  /\ IF head \notin readable \/ head >= back[head]
     THEN head' = Null /\ UNCHANGED trace
     ELSE head' = back[head] /\ trace' = Append(trace, head)
  /\ UNCHANGED << inputs, back, first_frame, walking, writes >>

(* kernel_getsp(), user_getsp64(), user_getsp32(): what they return ...    *)
Getsp == IF head \in readable THEN back[head] ELSE Null

(* ... and what they add.                                                  *)
Added == {f \in readable : f = head /\ ~first_frame /\ (walker = "ppc_kernel" => f \in KernelLr)}

PpcKernel ==
  /\ walker = "ppc_kernel" /\ Loop
  /\ trace' = IF head \in Added THEN Append(trace, head) ELSE trace
  /\ head' = Getsp
  /\ first_frame' = (first_frame /\ head' = Null)
  /\ IF head' = Null THEN Stop ELSE UNCHANGED walking
  /\ UNCHANGED << inputs, back, writes >>

(* The first frame of a user task is ditched before the loop.              *)
PpcUserFirst ==
  /\ walker = "ppc_user" /\ Loop /\ left = ExtraTime(wanted)
  /\ head' = Getsp
  /\ IF head' = Null THEN Stop ELSE UNCHANGED walking
  /\ UNCHANGED << inputs, back, first_frame, trace, writes >>

(* Mutant: the link register is added before the back chain is read.       *)
PpcUserLinkFirst ==
  /\ walker = "ppc_user" /\ Loop /\ left # ExtraTime(wanted)
  /\ head' = Getsp
  /\ trace' = IF first_frame THEN Append(trace, Link)
              ELSE IF head \in Added THEN Append(trace, head) ELSE trace
  /\ first_frame' = FALSE
  /\ IF head' = Null THEN Stop ELSE UNCHANGED walking
  /\ UNCHANGED << inputs, back, writes >>

(* Of the second the link register stands for the return address, if there *)
(* is a third.                                                             *)
PpcUser ==
  /\ walker = "ppc_user" /\ Loop /\ left # ExtraTime(wanted)
  /\ head' = Getsp
  /\ trace' = IF head \in Added THEN Append(trace, head)
              ELSE IF first_frame /\ head' # Null THEN Append(trace, Link) ELSE trace
  /\ first_frame' = (first_frame /\ head' = Null)
  /\ IF head' = Null THEN Stop ELSE UNCHANGED walking
  /\ UNCHANGED << inputs, back, writes >>

(* Another thread of the task writes to its stack.                         *)
Write(f, to) ==
  /\ walking /\ walker \in {"x86_user", "ppc_user"}
  /\ writes < MaxWrites /\ writes' = writes + 1
  /\ f \in readable /\ to # back[f] /\ back' = [back EXCEPT ![f] = to]
  /\ UNCHANGED << inputs, left, head, first_frame, trace, walking >>

WalkNext ==
  \/ Leaves \/ X86Kernel \/ X86User \/ PpcKernel \/ PpcUserFirst \/ PpcUser
  \/ \E f \in Frames, to \in Frames \cup {Null} : Write(f, to)

WalkSpec == WalkInit /\ [][WalkNext]_walkVars

-----------------------------------------------------------------------------
(* A sample gets at most as many frames as oprofile_backtrace_depth, and   *)
(* on x86 "frame pointers should strictly progress back up the stack"      *)
(* (backtrace.c:93), so that a broken or changing stack neither fills the  *)
(* ring nor shows a frame twice.                                           *)
TraceInBounds ==
  /\ Len(trace) <= wanted
  /\ walker \in X86Walkers => \A i, j \in DOMAIN trace : i < j => trace[i] < trace[j]

(* The frame above f, as memory has it, and the chain of them from start.  *)
Up(f) == IF f \notin readable \/ (walker \in X86Walkers /\ back[f] <= f) THEN Null
         ELSE back[f]

Chain ==
  LET chain[i \in 1 .. Limit + 1] == IF i = 1 THEN start ELSE Up(chain[i - 1])
  IN  chain

(* What the trace has for each frame of the chain.                         *)
Cells == [i \in 1 .. Limit |-> IF walker = "ppc_user" /\ i = 2 THEN Link ELSE Chain[i]]

(* Whether the frame at place i of the chain is to be recorded.            *)
Records(i) ==
  CASE walker = "x86_kernel" -> i <= wanted /\ Chain[i] \in readable
    [] walker = "x86_user"   -> i <= wanted /\ Chain[i + 1] # Null
    [] walker = "ppc_kernel" -> i \in 2 .. wanted + 1 /\ Chain[i] \in readable \cap KernelLr
    [] walker = "ppc_user"   -> \/ i = 2 /\ wanted > 0 /\ Chain[3] # Null
                                \/ i \in 3 .. wanted + 1 /\ Chain[i] \in readable

Recorded == {i \in 1 .. Limit : Records(i)}

(* seq is cells[i] for each i in S once, in ascending order of i.          *)
Lists(seq, S, cells) ==
  \E place \in [DOMAIN seq -> S] :
    /\ \A i \in S : \E n \in DOMAIN seq : place[n] = i
    /\ \A m, n \in DOMAIN seq : m < n => place[m] < place[n]
    /\ \A n \in DOMAIN seq : seq[n] = cells[place[n]]

(* If nobody writes to the stack meanwhile, the trace is the chain of      *)
(* frames, each in its place, as deep as wanted.  The exception is         *)
(* powerpc at the largest depth, where the extra iteration wraps to zero.  *)
WholeChainWalked ==
  ~walking /\ writes = 0 /\ (walker \in PowerPCWalkers => wanted < Limit - 1)
    => Lists(trace, Recorded, Cells)
=============================================================================

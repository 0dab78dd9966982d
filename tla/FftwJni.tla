------------------------------ MODULE FftwJni -------------------------------
(***************************************************************************)
(* The binding to FFTW: jni/fftw_jni.c with its static variables, the class *)
(* algorithms/fftw/FFTW.java and the two algorithms that call it.           *)
(*                                                                         *)
(* The statics belong to the process, not to a DspThread.  Two callbacks    *)
(* are in the binding at once when the live screen is restarted while the   *)
(* old session's callback still performs: its task's cancel(false) does not *)
(* wait, and the new session starts a tenth of a second later.  So any      *)
(* number of Callers use the binding here, and an action is one access of   *)
(* the statics or of what they point to.                                    *)
(*                                                                         *)
(* Numbers are abstracted: a bin of a spectrum holds the caller whose       *)
(* present execution computed it, Stale for an earlier execution's, or Raw  *)
(* for memory never written.                                                *)
(***************************************************************************)
EXTENDS Integers

CONSTANTS
    Callers,    \* the threads that perform blocks
    Sizes,      \* the block sizes they may have
    MaxBin,     \* num/2 of the largest of them
    Addresses   \* bound: what malloc may return

Null == 0
Stale == "stale"
Raw == "raw"

ASSUME FftwAssumption ==
    /\ Sizes \subseteq Nat \ {0}
    /\ MaxBin \in Nat
    /\ \A n \in Sizes : n \div 2 <= MaxBin
    /\ Null \notin Addresses
    /\ Stale \notin Callers /\ Raw \notin Callers

\* The number of bins of a real transform of n samples.
Bins(n) == n \div 2 + 1

VARIABLES
    threads_enabled, threads_initialized,
    out, out_res, out_size,
    nthreads,   \* fftw_plan_with_nthreads(): FFTW's own setting
    heap,       \* how many bins the block at an address has; 0 when it is free
    mem,        \* what the bins there hold
    pc,         \* where each caller is
    num,        \* its block size
    multi,      \* whether it performs FFTW_MULTI
    plan,       \* its plan, from its making to its end: output block and threads
    res,        \* the array executeJNI() returned to it
    disturbed,  \* history: the callers whose last execution overlapped another one
    overlapped, \* history: some execution did
    raced,      \* history: buffers were used or replaced while they were replaced
    fault       \* history: memory was used that is free or too short

flags == <<threads_enabled, threads_initialized, nthreads>>
buffers == <<out, out_res, out_size, heap, mem>>
calls == <<num, multi, plan, res>>
past == <<disturbed, overlapped, raced>>
fftwVars == <<flags, buffers, pc, calls, past, fault>>

ModeLabels == {"mode", "remove", "disable", "init", "enable", "initialized"}
GrowLabels == {"freeOut", "freeRes", "setSize", "newOut", "newRes"}
UseLabels == {"plan", "execute", "copy", "result"}
BusyLabels == {"check"} \cup ModeLabels \cup GrowLabels \cup UseLabels
CallerLabels == {"idle", "returned", "thrown"} \cup BusyLabels

Contents == Callers \cup {Stale, Raw}
Spectra == [0..MaxBin -> Contents]
Nothing == [i \in 0..MaxBin |-> Raw]
NoPlan == [at |-> Null, threads |-> 1]

FftwTypeOK ==
    /\ threads_enabled \in BOOLEAN /\ threads_initialized \in BOOLEAN
    /\ nthreads \in {1, 2}
    /\ out \in Addresses \cup {Null} /\ out_res \in Addresses \cup {Null}
    /\ out_size \in Sizes \cup {0}
    /\ heap \in [Addresses -> Nat]
    /\ mem \in [Addresses -> Spectra]
    /\ pc \in [Callers -> CallerLabels]
    /\ num \in [Callers -> Sizes] /\ multi \in [Callers -> BOOLEAN]
    /\ plan \in [Callers -> [at : Addresses \cup {Null}, threads : {1, 2}]]
    /\ res \in [Callers -> Spectra]
    /\ disturbed \subseteq Callers
    /\ overlapped \in BOOLEAN /\ raced \in BOOLEAN /\ fault \in BOOLEAN

\* The library is loaded: the statics have their initial values.
FftwInit ==
    /\ threads_enabled = FALSE /\ threads_initialized = FALSE
    /\ nthreads = 1
    /\ out = Null /\ out_res = Null
    /\ out_size = 0
    /\ heap = [a \in Addresses |-> 0]
    /\ mem = [a \in Addresses |-> Nothing]
    /\ pc = [c \in Callers |-> "idle"]
    /\ num \in [Callers -> Sizes] /\ multi \in [Callers -> BOOLEAN]
    /\ plan = [c \in Callers |-> NoPlan]
    /\ res = [c \in Callers |-> Nothing]
    /\ disturbed = {}
    /\ overlapped = FALSE /\ raced = FALSE /\ fault = FALSE

Goto(c, label) == pc' = [pc EXCEPT ![c] = label]

Step(c, from, to) == pc[c] = from /\ Goto(c, to)

\* What c computed before is from now on an earlier execution's.
Aged(c, spectrum) == [i \in 0..MaxBin |-> IF spectrum[i] = c THEN Stale ELSE spectrum[i]]

\* A block at a, with room for n bins, may be used; otherwise the step is a fault.
Holds(a, n) == a # Null /\ heap[a] >= n

-----------------------------------------------------------------------------
(* perform(): FFTW.setMonothread() or setMultithread(2), then FFTW.execute() *)

\* A session's callback performs a block; a later session of the same thread may
\* have another block size or the other algorithm.  perform() has dropped the
\* array of the execution before.
Begin(c) ==
    /\ pc[c] \notin BusyLabels
    /\ Goto(c, "mode")
    /\ \E n \in Sizes, b \in BOOLEAN :
           num' = [num EXCEPT ![c] = n] /\ multi' = [multi EXCEPT ![c] = b]
    /\ mem' = [a \in Addresses |-> Aged(c, mem[a])]
    /\ res' = [d \in Callers |-> IF d = c THEN Nothing ELSE Aged(c, res[d])]
    /\ UNCHANGED <<flags, out, out_res, out_size, heap, plan, fault>>

\* areThreadsEnabled(), and what the two setters make of it.
AskMode(c) ==
    /\ Step(c, "mode", IF threads_enabled = multi[c] THEN "check"
                       ELSE IF multi[c] THEN "init" ELSE "remove")
    /\ UNCHANGED <<flags, buffers, calls, fault>>

\* removeThreadsJNI(): an exception, or planning with one thread ...
RemoveThreads(c) ==
    /\ pc[c] = "remove"
    /\ IF threads_initialized THEN Goto(c, "disable") /\ nthreads' = 1
       ELSE Goto(c, "thrown") /\ UNCHANGED nthreads
    /\ UNCHANGED <<threads_enabled, threads_initialized, buffers, calls, fault>>

\* A bug: threads_enabled stays 1, as if they could be taken away again.
DisableForgotten(c) ==
    /\ Step(c, "disable", "check")
    /\ UNCHANGED <<flags, buffers, calls, fault>>

\* ... and threads_enabled = 0.
Disable(c) ==
    /\ Step(c, "disable", "check")
    /\ threads_enabled' = FALSE
    /\ UNCHANGED <<threads_initialized, nthreads, buffers, calls, fault>>

\* initThreadsJNI(2): fftw_init_threads() may fail the first time ...
InitThreads(c) ==
    /\ pc[c] = "init"
    /\ \/ Goto(c, "enable") /\ nthreads' = 2
       \/ ~threads_initialized /\ Goto(c, "thrown") /\ UNCHANGED nthreads
    /\ UNCHANGED <<threads_enabled, threads_initialized, buffers, calls, fault>>

\* ... then threads_enabled = 1 ...
Enable(c) ==
    /\ Step(c, "enable", "initialized")
    /\ threads_enabled' = TRUE
    /\ UNCHANGED <<threads_initialized, nthreads, buffers, calls, fault>>

\* A bug: threads_initialized is left at 0.
InitializedForgotten(c) ==
    /\ Step(c, "initialized", "check")
    /\ UNCHANGED <<flags, buffers, calls, fault>>

\* ... and threads_initialized = 1.
Initialized(c) ==
    /\ Step(c, "initialized", "check")
    /\ threads_initialized' = TRUE
    /\ UNCHANGED <<threads_enabled, nthreads, buffers, calls, fault>>

SetMode(c) ==
    \/ AskMode(c) \/ RemoveThreads(c) \/ Disable(c)
    \/ InitThreads(c) \/ Enable(c) \/ Initialized(c)

-----------------------------------------------------------------------------
(* execute_fftw() and alloc_fftw() *)

\* A bug: the buffers are made once.
CheckOnce(c) ==
    /\ Step(c, "check", IF out_size = 0 THEN "freeOut" ELSE "plan")
    /\ UNCHANGED <<flags, buffers, calls, fault>>

\* if (out_size < num)
CheckSize(c) ==
    /\ Step(c, "check", IF out_size < num[c] THEN "freeOut" ELSE "plan")
    /\ UNCHANGED <<flags, buffers, calls, fault>>

\* if (p) fftw_free(p): freeing what is free already is a fault.
Free(p) ==
    /\ heap' = IF p = Null THEN heap ELSE [heap EXCEPT ![p] = 0]
    /\ mem' = IF p = Null THEN mem ELSE [mem EXCEPT ![p] = Nothing]
    /\ fault' = (p # Null /\ heap[p] = 0)

FreeOut(c) ==
    /\ Step(c, "freeOut", "freeRes")
    /\ Free(out)
    /\ UNCHANGED <<flags, out, out_res, out_size, calls>>

FreeRes(c) ==
    /\ Step(c, "freeRes", "setSize")
    /\ Free(out_res)
    /\ UNCHANGED <<flags, out, out_res, out_size, calls>>

SetSize(c) ==
    /\ Step(c, "setSize", "newOut")
    /\ out_size' = num[c]
    /\ UNCHANGED <<flags, out, out_res, heap, mem, calls, fault>>

\* fftw_malloc() of n bins at a: any free address, and whatever lies there.
Malloc(a, n) ==
    /\ heap[a] = 0
    /\ heap' = [heap EXCEPT ![a] = n]
    /\ UNCHANGED <<mem, fault>>

NewOut(c) ==
    /\ Step(c, "newOut", "newRes")
    /\ \E a \in Addresses : out' = a /\ Malloc(a, Bins(num[c]))
    /\ UNCHANGED <<flags, out_res, out_size, calls>>

NewRes(c) ==
    /\ Step(c, "newRes", "plan")
    /\ \E a \in Addresses : out_res' = a /\ Malloc(a, Bins(num[c]))
    /\ UNCHANGED <<flags, out, out_size, calls>>

\* fftw_plan_dft_r2c_1d(): the plan keeps the pointer out and FFTW's thread
\* setting; with FFTW_ESTIMATE it does not touch the arrays.
MakePlan(c) ==
    /\ Step(c, "plan", "execute")
    /\ plan' = [plan EXCEPT ![c] = [at |-> out, threads |-> nthreads]]
    /\ UNCHANGED <<flags, buffers, num, multi, res, fault>>

\* fftw_execute(): all bins of the transform, into the plan's output; and
\* fftw_destroy_plan().
Execute(c) ==
    /\ Step(c, "execute", "copy")
    /\ fault' = ~Holds(plan[c].at, Bins(num[c]))
    /\ mem' = IF fault' THEN mem
              ELSE [mem EXCEPT ![plan[c].at] =
                        [i \in 0..MaxBin |-> IF i < Bins(num[c]) THEN c ELSE @[i]]]
    /\ plan' = [plan EXCEPT ![c] = NoPlan]
    /\ UNCHANGED <<flags, out, out_res, out_size, heap, num, multi, res>>

\* A bug: one pair too few is copied.
CopyShort(c) ==
    /\ Step(c, "copy", "result")
    /\ fault' = ~(Holds(out, num[c] \div 2) /\ Holds(out_res, num[c] \div 2))
    /\ mem' = IF fault' THEN mem
              ELSE [mem EXCEPT ![out_res] =
                        [i \in 0..MaxBin |-> IF i < num[c] \div 2 - 1 THEN mem[out][i] ELSE @[i]]]
    /\ UNCHANGED <<flags, out, out_res, out_size, heap, calls>>

\* The loop from out to out_res: i < num/2, so the last bin is not copied.
Copy(c) ==
    /\ Step(c, "copy", "result")
    /\ fault' = ~(Holds(out, num[c] \div 2) /\ Holds(out_res, num[c] \div 2))
    /\ mem' = IF fault' THEN mem
              ELSE [mem EXCEPT ![out_res] =
                        [i \in 0..MaxBin |-> IF i < num[c] \div 2 THEN mem[out][i] ELSE @[i]]]
    /\ UNCHANGED <<flags, out, out_res, out_size, heap, calls>>

\* executeJNI(): the array returned has all of the bins, the last one included.
Result(c) ==
    /\ Step(c, "result", "returned")
    /\ fault' = ~Holds(out_res, Bins(num[c]))
    /\ res' = IF fault' THEN res
              ELSE [res EXCEPT ![c] =
                        [i \in 0..MaxBin |-> IF i < Bins(num[c]) THEN mem[out_res][i] ELSE Raw]]
    /\ UNCHANGED <<flags, buffers, num, multi, plan>>

ExecuteFftw(c) ==
    \/ CheckSize(c)
    \/ FreeOut(c) \/ FreeRes(c) \/ SetSize(c) \/ NewOut(c) \/ NewRes(c)
    \/ MakePlan(c) \/ Execute(c) \/ Copy(c) \/ Result(c)

-----------------------------------------------------------------------------

\* Who shares the binding with somebody else.
Overlap(p) == {c \in Callers : p[c] \in BusyLabels /\ \E d \in Callers \ {c} : p[d] \in BusyLabels}

\* Somebody replaces the buffers and somebody else replaces or uses them.
Races(p) ==
    \E c, d \in Callers : c # d /\ p[c] \in GrowLabels /\ p[d] \in GrowLabels \cup UseLabels

History ==
    /\ disturbed' = {c \in disturbed : ~(pc[c] \notin BusyLabels /\ pc'[c] \in BusyLabels)}
                        \cup Overlap(pc')
    /\ overlapped' = (overlapped \/ Overlap(pc') # {})
    /\ raced' = (raced \/ Races(pc'))

\* After a fault nothing can be said of the process.
FftwNext ==
    /\ ~fault
    /\ \E c \in Callers : Begin(c) \/ SetMode(c) \/ ExecuteFftw(c)
    /\ History

FftwSpec == FftwInit /\ [][FftwNext]_fftwVars

-----------------------------------------------------------------------------
(* Properties *)

\* The buffers are never used when they are free or too short, in executions of
\* any sizes in any order and however many at once, as long as nobody uses them
\* while somebody makes larger ones.
SafeUnlessRaced == fault => raced

\* removeThreadsJNI() finds the threads initialised: "enabled" is never seen
\* without it except between the two assignments of initThreadsJNI().
EnabledIsInitialized ==
    threads_enabled => threads_initialized \/ \E c \in Callers : pc[c] = "initialized"

\* An execution nobody disturbed returns its own spectrum, except for the last
\* bin, which is never its own: that of an earlier block or of no block.
OwnSpectrum ==
    ~raced => \A c \in Callers \ disturbed :
        pc[c] = "returned" =>
            \A i \in 0..MaxBin : i < Bins(num[c]) => (res[c][i] = c) = (i < num[c] \div 2)

\* One at a time, the multithreaded algorithm plans with two threads and the other
\* with one, whatever was performed before.
PlannedThreads ==
    ~overlapped => \A c \in Callers :
        pc[c] = "execute" => plan[c].threads = IF multi[c] THEN 2 ELSE 1

=============================================================================

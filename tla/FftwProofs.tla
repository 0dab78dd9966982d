----------------------------- MODULE FftwProofs -----------------------------
(***************************************************************************)
(* What FftwJni promises, for any number of callers, any block sizes and    *)
(* any memory: the buffers are not misused unless they were raced for, the  *)
(* flags agree, and without overlap every plan has its algorithm's threads. *)
(***************************************************************************)
EXTENDS FftwJni, TLAPS

\* Bins of a block size are a positive number of bins.
LEMMA BinsPositive ==
    ASSUME NEW n \in Sizes PROVE n \in Nat \ {0} /\ Bins(n) \in Nat \ {0} /\ Bins(n) <= MaxBin + 1
BY FftwAssumption, SMT DEF Bins

-----------------------------------------------------------------------------
(* Types *)

LEMMA FftwTypeInit == FftwInit => FftwTypeOK
<1> SUFFICES ASSUME FftwInit PROVE FftwTypeOK
  OBVIOUS
<1>1. Nothing \in Spectra /\ NoPlan \in [at : Addresses \cup {Null}, threads : {1, 2}]
  BY SMT DEF Nothing, Spectra, Contents, NoPlan
<1>2. "idle" \in CallerLabels
  BY Zenon DEF CallerLabels
<1>3. /\ heap \in [Addresses -> Nat] /\ mem \in [Addresses -> Spectra]
      /\ res \in [Callers -> Spectra] /\ pc \in [Callers -> CallerLabels]
      /\ plan \in [Callers -> [at : Addresses \cup {Null}, threads : {1, 2}]]
  BY <1>1, <1>2, SMT DEF FftwInit
<1>4. /\ threads_enabled \in BOOLEAN /\ threads_initialized \in BOOLEAN
      /\ overlapped \in BOOLEAN /\ raced \in BOOLEAN /\ fault \in BOOLEAN
      /\ num \in [Callers -> Sizes] /\ multi \in [Callers -> BOOLEAN]
      /\ nthreads \in {1, 2} /\ disturbed \subseteq Callers
      /\ out \in Addresses \cup {Null} /\ out_res \in Addresses \cup {Null}
      /\ out_size \in Sizes \cup {0}
  BY Zenon DEF FftwInit
<1> QED BY <1>3, <1>4, Zenon DEF FftwTypeOK

\* A spectrum made of two stays one.
LEMMA Merged ==
    ASSUME NEW s \in Spectra, NEW t \in Spectra, NEW n
    PROVE  [i \in 0..MaxBin |-> IF i < n THEN s[i] ELSE t[i]] \in Spectra
<1>1. \A i \in 0..MaxBin : (IF i < n THEN s[i] ELSE t[i]) \in Contents
  BY SMT DEF Spectra
<1> QED BY <1>1, Zenon DEF Spectra

\* And so does one with some of its bins overwritten.
LEMMA Filled ==
    ASSUME NEW t \in Spectra, NEW x \in Contents, NEW n
    PROVE  /\ [i \in 0..MaxBin |-> IF i < n THEN x ELSE t[i]] \in Spectra
           /\ [i \in 0..MaxBin |-> IF i < n THEN t[i] ELSE x] \in Spectra
<1>1. \A i \in 0..MaxBin : /\ (IF i < n THEN x ELSE t[i]) \in Contents
                          /\ (IF i < n THEN t[i] ELSE x) \in Contents
  BY SMT DEF Spectra
<1> QED BY <1>1, Zenon DEF Spectra

LEMMA Stored ==
    ASSUME NEW S, NEW f \in [S -> Spectra], NEW a, NEW s \in Spectra
    PROVE  [f EXCEPT ![a] = s] \in [S -> Spectra]
OBVIOUS

\* A label change keeps the labels labels.
LEMMA StepType ==
    ASSUME FftwTypeOK, NEW c \in Callers, NEW label \in CallerLabels, Goto(c, label)
    PROVE  pc' \in [Callers -> CallerLabels]
BY SMT DEF FftwTypeOK, Goto

\* The history variables keep their types.
LEMMA HistoryType ==
    ASSUME FftwTypeOK, History
    PROVE  disturbed' \subseteq Callers /\ overlapped' \in BOOLEAN /\ raced' \in BOOLEAN
BY SMT DEF FftwTypeOK, History, Overlap

LEMMA BeginType ==
    ASSUME FftwTypeOK, NEW c \in Callers, Begin(c), History PROVE FftwTypeOK'
<1>1. pc' \in [Callers -> CallerLabels]
  BY StepType DEF Begin, CallerLabels, BusyLabels, ModeLabels
<1>2. \A s \in Spectra : Aged(c, s) \in Spectra
  BY SMT DEF Aged, Spectra, Contents
<1>3. mem' \in [Addresses -> Spectra]
  BY <1>2, SMT DEF FftwTypeOK, Begin
<1>4. res' \in [Callers -> Spectra]
  <2>1. Nothing \in Spectra
    BY SMT DEF Nothing, Spectra, Contents
  <2> QED BY <1>2, <2>1, SMT DEF FftwTypeOK, Begin
<1>5. num' \in [Callers -> Sizes] /\ multi' \in [Callers -> BOOLEAN]
  <2>1. PICK n \in Sizes, b \in BOOLEAN :
             num' = [num EXCEPT ![c] = n] /\ multi' = [multi EXCEPT ![c] = b]
    BY DEF Begin
  <2> QED BY <2>1, SMT DEF FftwTypeOK
<1>6. disturbed' \subseteq Callers /\ overlapped' \in BOOLEAN /\ raced' \in BOOLEAN
  BY HistoryType
<1>7. UNCHANGED <<flags, out, out_res, out_size, heap, plan, fault>>
  BY DEF Begin
<1> QED BY <1>1, <1>3, <1>4, <1>5, <1>6, <1>7, Zenon DEF FftwTypeOK, flags

LEMMA SetModeType ==
    ASSUME FftwTypeOK, NEW c \in Callers, SetMode(c), History PROVE FftwTypeOK'
<1>1. pc' \in [Callers -> CallerLabels]
  BY SMT DEF FftwTypeOK, SetMode, AskMode, RemoveThreads, Disable, InitThreads, Enable,
             Initialized, Step, Goto, CallerLabels, BusyLabels, ModeLabels
<1>2. UNCHANGED <<buffers, calls, fault>>
  BY Zenon DEF SetMode, AskMode, RemoveThreads, Disable, InitThreads, Enable, Initialized
<1>3. threads_enabled' \in BOOLEAN /\ threads_initialized' \in BOOLEAN /\ nthreads' \in {1, 2}
  BY Zenon DEF FftwTypeOK, SetMode, AskMode, RemoveThreads, Disable, InitThreads, Enable,
               Initialized, flags
<1>4. disturbed' \subseteq Callers /\ overlapped' \in BOOLEAN /\ raced' \in BOOLEAN
  BY HistoryType
<1> QED BY <1>1, <1>2, <1>3, <1>4, Zenon DEF FftwTypeOK, buffers, calls

LEMMA GrowType ==
    ASSUME FftwTypeOK, NEW c \in Callers, History,
           CheckSize(c) \/ FreeOut(c) \/ FreeRes(c) \/ SetSize(c) \/ NewOut(c) \/ NewRes(c)
    PROVE  FftwTypeOK'
<1>1. pc' \in [Callers -> CallerLabels]
  BY SMT DEF FftwTypeOK, CheckSize, FreeOut, FreeRes, SetSize, NewOut, NewRes, Step, Goto,
             CallerLabels, BusyLabels, GrowLabels, UseLabels
<1>2. Nothing \in Spectra
  BY SMT DEF Nothing, Spectra, Contents
<1>3. num[c] \in Sizes /\ Bins(num[c]) \in Nat
  BY BinsPositive DEF FftwTypeOK
<1>4. CASE CheckSize(c)
  BY <1>1, <1>4, HistoryType, SMT DEF FftwTypeOK, CheckSize, flags, buffers, calls
<1>5. CASE FreeOut(c) \/ FreeRes(c)
  <2>1. fault' \in BOOLEAN
    BY <1>5, Zenon DEF FreeOut, FreeRes, Free
  <2>2. heap' \in [Addresses -> Nat] /\ mem' \in [Addresses -> Spectra]
    BY <1>2, <1>5, SMT DEF FftwTypeOK, FreeOut, FreeRes, Free
  <2>3. disturbed' \subseteq Callers /\ overlapped' \in BOOLEAN /\ raced' \in BOOLEAN
    BY HistoryType
  <2>4. UNCHANGED <<flags, out, out_res, out_size, calls>>
    BY <1>5 DEF FreeOut, FreeRes
  <2> QED BY <1>1, <2>1, <2>2, <2>3, <2>4, Zenon DEF FftwTypeOK, flags, calls
<1>6. CASE SetSize(c)
  BY <1>1, <1>3, <1>6, HistoryType, SMT DEF FftwTypeOK, SetSize, flags, calls
<1>7. CASE NewOut(c) \/ NewRes(c)
  BY <1>1, <1>3, <1>7, HistoryType, SMT DEF FftwTypeOK, NewOut, NewRes, Malloc, flags, calls
<1> QED BY <1>4, <1>5, <1>6, <1>7

LEMMA UseType ==
    ASSUME FftwTypeOK, NEW c \in Callers, History,
           MakePlan(c) \/ Execute(c) \/ Copy(c) \/ Result(c)
    PROVE  FftwTypeOK'
<1>1. pc' \in [Callers -> CallerLabels]
  <2>1. \E label \in {"execute", "copy", "result", "returned"} : Goto(c, label)
    BY Zenon DEF MakePlan, Execute, Copy, Result, Step
  <2> QED BY <2>1, StepType, Zenon DEF CallerLabels, BusyLabels, UseLabels
<1>2. CASE MakePlan(c)
  BY <1>1, <1>2, HistoryType, SMT DEF FftwTypeOK, MakePlan, flags, buffers
<1>3. CASE Execute(c)
  <2>1. fault' \in BOOLEAN
    BY <1>3, Zenon DEF Execute, Holds
  <2>2. mem' \in [Addresses -> Spectra]
    <3>1. CASE fault'
      BY <1>3, <3>1, Zenon DEF FftwTypeOK, Execute
    <3>2. CASE ~fault'
      <4>1. Holds(plan[c].at, Bins(num[c]))
        BY <1>3, <3>2, Zenon DEF Execute
      <4>2. plan[c].at \in Addresses
        BY <4>1, SMT DEF FftwTypeOK, Holds
      <4>3. mem' = [mem EXCEPT ![plan[c].at] =
                        [i \in 0..MaxBin |-> IF i < Bins(num[c]) THEN c ELSE @[i]]]
        BY <1>3, <3>2, Zenon DEF Execute
      <4> DEFINE own == [i \in 0..MaxBin |-> IF i < Bins(num[c]) THEN c ELSE mem[plan[c].at][i]]
      <4>4. mem[plan[c].at] \in Spectra
        BY <4>2, Zenon DEF FftwTypeOK
      <4>5. own \in Spectra
        <5>1. c \in Contents /\ Raw \in Contents
          BY Zenon DEF Contents
        <5> QED BY <4>4, <5>1, Filled
      <4>6. mem' = [mem EXCEPT ![plan[c].at] = own]
        BY <4>3, Zenon
      <4> HIDE DEF own
      <4> QED BY <4>2, <4>5, <4>6, SMT DEF FftwTypeOK
    <3> QED BY <3>1, <3>2
  <2>3. plan' \in [Callers -> [at : Addresses \cup {Null}, threads : {1, 2}]]
    BY <1>3, SMT DEF FftwTypeOK, Execute, NoPlan
  <2> QED BY <1>1, <1>3, <2>1, <2>2, <2>3, HistoryType, SMT DEF FftwTypeOK, Execute, flags
<1>4. CASE Copy(c)
  <2>1. fault' \in BOOLEAN
    BY <1>4, Zenon DEF Copy, Holds
  <2>2. mem' \in [Addresses -> Spectra]
    <3>1. CASE fault'
      BY <1>4, <3>1, SMT DEF FftwTypeOK, Copy
    <3>2. CASE ~fault'
      <4>1. Holds(out, num[c] \div 2) /\ Holds(out_res, num[c] \div 2)
        BY <1>4, <3>2, Zenon DEF Copy
      <4>2. out \in Addresses /\ out_res \in Addresses
        BY <4>1, SMT DEF FftwTypeOK, Holds
      <4>3. mem' = [mem EXCEPT ![out_res] =
                        [i \in 0..MaxBin |-> IF i < num[c] \div 2 THEN mem[out][i] ELSE @[i]]]
        BY <1>4, <3>2, Zenon DEF Copy
      <4> DEFINE copied == [i \in 0..MaxBin |->
                                IF i < num[c] \div 2 THEN mem[out][i] ELSE mem[out_res][i]]
      <4>4. mem[out] \in Spectra /\ mem[out_res] \in Spectra
        BY <4>2, Zenon DEF FftwTypeOK
      <4>5. copied \in Spectra
        BY <4>4, Merged
      <4>6. mem' = [mem EXCEPT ![out_res] = copied]
        BY <4>3, Zenon
      <4>7. mem \in [Addresses -> Spectra]
        BY Zenon DEF FftwTypeOK
      <4> HIDE DEF copied
      <4> QED BY <4>5, <4>6, <4>7, Stored, Zenon
    <3> QED BY <3>1, <3>2
  <2> QED BY <1>1, <1>4, <2>1, <2>2, HistoryType, SMT DEF FftwTypeOK, Copy, flags, calls
<1>5. CASE Result(c)
  <2>1. fault' \in BOOLEAN
    BY <1>5, Zenon DEF Result, Holds
  <2>2. res' \in [Callers -> Spectra]
    <3>1. CASE fault'
      BY <1>5, <3>1, SMT DEF FftwTypeOK, Result
    <3>2. CASE ~fault'
      <4>1. Holds(out_res, Bins(num[c]))
        BY <1>5, <3>2, Zenon DEF Result
      <4>2. out_res \in Addresses
        BY <4>1, SMT DEF FftwTypeOK, Holds
      <4>3. res' = [res EXCEPT ![c] =
                [i \in 0..MaxBin |-> IF i < Bins(num[c]) THEN mem[out_res][i] ELSE Raw]]
        BY <1>5, <3>2, Zenon DEF Result
      <4> DEFINE returned == [i \in 0..MaxBin |->
                                IF i < Bins(num[c]) THEN mem[out_res][i] ELSE Raw]
      <4>4. mem[out_res] \in Spectra
        BY <4>2, Zenon DEF FftwTypeOK
      <4>5. returned \in Spectra
        <5>1. c \in Contents /\ Raw \in Contents
          BY Zenon DEF Contents
        <5> QED BY <4>4, <5>1, Filled
      <4>6. res' = [res EXCEPT ![c] = returned]
        BY <4>3, Zenon
      <4> HIDE DEF returned
      <4> QED BY <4>5, <4>6, SMT DEF FftwTypeOK
    <3> QED BY <3>1, <3>2
  <2> QED BY <1>1, <1>5, <2>1, <2>2, HistoryType, SMT DEF FftwTypeOK, Result, flags, buffers
<1> QED BY <1>2, <1>3, <1>4, <1>5

LEMMA FftwTypeStep == FftwTypeOK /\ [FftwNext]_fftwVars => FftwTypeOK'
<1> SUFFICES ASSUME FftwTypeOK, [FftwNext]_fftwVars PROVE FftwTypeOK'
  OBVIOUS
<1>1. CASE UNCHANGED fftwVars
  BY <1>1, SMT DEF FftwTypeOK, fftwVars, flags, buffers, calls, past
<1>2. ASSUME NEW c \in Callers, Begin(c), History PROVE FftwTypeOK'
  BY <1>2, BeginType
<1>3. ASSUME NEW c \in Callers, SetMode(c), History PROVE FftwTypeOK'
  BY <1>3, SetModeType
<1>4. ASSUME NEW c \in Callers, ExecuteFftw(c), History PROVE FftwTypeOK'
  BY <1>4, GrowType, UseType DEF ExecuteFftw
<1> QED BY <1>1, <1>2, <1>3, <1>4 DEF FftwNext

\* FftwTypeOK: every variable stays in its set.
THEOREM FftwTypeCorrect == FftwSpec => []FftwTypeOK
BY FftwTypeInit, FftwTypeStep, PTL DEF FftwSpec


-----------------------------------------------------------------------------
(* The buffers *)

\* Both buffers are there and have room for n bins.
Whole(n) == Holds(out, Bins(n)) /\ Holds(out_res, Bins(n)) /\ out # out_res

\* What is true of them when nobody replaces them.
Made == IF out_size = 0 THEN out = Null /\ out_res = Null ELSE Whole(out_size)

Quiet == \A c \in Callers : pc[c] \notin GrowLabels

\* What is true of them where c is.
Place(c) ==
    /\ pc[c] \in UseLabels => num[c] <= out_size
    /\ pc[c] = "freeOut" => Made
    /\ pc[c] = "freeRes" => out_res = Null \/ heap[out_res] > 0
    /\ pc[c] \in {"newOut", "newRes"} => out_size = num[c]
    /\ pc[c] = "newRes" => Holds(out, Bins(num[c]))
    /\ pc[c] = "execute" => plan[c].at = out

Sound == ~fault /\ (Quiet => Made) /\ \A c \in Callers : Place(c)

\* The strengthening: while nobody has raced for the buffers, their state follows
\* from where the callers are.
BufferInv ==
    /\ raced \/ ~Races(pc)
    /\ ~raced => Sound

\* The labels of the three parts of a call are apart.
LEMMA LabelsApart ==
    /\ \A l \in ModeLabels \cup {"idle", "returned", "thrown", "check"} :
           l \notin GrowLabels /\ l \notin UseLabels
    /\ \A l \in GrowLabels : l \notin UseLabels
BY SMT DEF ModeLabels, GrowLabels, UseLabels

\* Where everybody is after c went to a label.
LEMMA Moved ==
    ASSUME FftwTypeOK, NEW c \in Callers, NEW label, Goto(c, label)
    PROVE  pc'[c] = label /\ \A d \in Callers \ {c} : pc'[d] = pc[d]
BY SMT DEF FftwTypeOK, Goto

\* Who replaces the buffers is alone with them.
LEMMA Alone ==
    ASSUME NEW p, ~Races(p), NEW c \in Callers, p[c] \in GrowLabels,
           NEW d \in Callers \ {c}
    PROVE  p[d] \notin GrowLabels /\ p[d] \notin UseLabels
BY DEF Races

\* And who uses them is not disturbed.
LEMMA UsersQuiet ==
    ASSUME ~Races(pc), NEW c \in Callers, pc[c] \in UseLabels PROVE Quiet
BY LabelsApart DEF Races, Quiet

LEMMA SizesNatural ==
    ASSUME FftwTypeOK, NEW c \in Callers PROVE num[c] \in Nat \ {0} /\ out_size \in Nat
<1>1. num[c] \in Sizes /\ out_size \in Sizes \cup {0}
  BY Zenon DEF FftwTypeOK
<1>2. num[c] \in Nat \ {0} /\ \A n \in Sizes : n \in Nat
  BY <1>1, BinsPositive
<1>3. 0 \in Nat
  BY SMT
<1> QED BY <1>1, <1>2, <1>3, Zenon

\* What a size has room for.
LEMMA RoomFor ==
    ASSUME FftwTypeOK, Sound, ~Races(pc), NEW c \in Callers, pc[c] \in UseLabels
    PROVE  Whole(num[c]) /\ Holds(out, num[c] \div 2) /\ Holds(out_res, num[c] \div 2)
<1>1. Made /\ num[c] <= out_size
  BY UsersQuiet, Zenon DEF Sound, Place
<1>2. num[c] \in Nat \ {0} /\ out_size \in Nat
  BY SizesNatural
<1>3. Whole(out_size)
  BY <1>1, <1>2, SMT DEF Made
<1>4. Bins(num[c]) <= Bins(out_size) /\ num[c] \div 2 <= Bins(out_size)
      /\ Bins(num[c]) \in Nat /\ Bins(out_size) \in Nat /\ num[c] \div 2 \in Nat
  BY <1>1, <1>2, SMT DEF Bins
<1>5. heap \in [Addresses -> Nat] /\ out \in Addresses /\ out_res \in Addresses
  BY <1>3, Zenon DEF FftwTypeOK, Whole, Holds
<1> QED BY <1>3, <1>4, <1>5, SMT DEF Whole, Holds

\* A step that leaves the buffers alone and moves its caller between labels that
\* do not use them.
LEMMA ElsewhereSound ==
    ASSUME FftwTypeOK, Sound, NEW c \in Callers, NEW label, Goto(c, label),
           pc[c] \notin GrowLabels \cup UseLabels, label \notin GrowLabels \cup UseLabels,
           UNCHANGED <<out, out_res, out_size, heap, plan, fault>>,
           \A d \in Callers \ {c} : num'[d] = num[d]
    PROVE  Sound'
<1>1. pc'[c] = label /\ \A d \in Callers \ {c} : pc'[d] = pc[d]
  BY Moved
<1>2. ~fault' /\ (Quiet' => Made')
  BY <1>1, Zenon DEF Sound, Quiet, Made, Whole, Holds
<1>3. Place(c)'
  BY <1>1, SMT DEF Place, GrowLabels, UseLabels
<1>4. ASSUME NEW d \in Callers \ {c} PROVE Place(d)'
  <2>1. Place(d) /\ pc'[d] = pc[d] /\ num'[d] = num[d]
    BY <1>1 DEF Sound
  <2> QED BY <2>1, Zenon DEF Place, Made, Whole, Holds
<1> QED BY <1>2, <1>3, <1>4 DEF Sound

LEMMA BeginSound ==
    ASSUME FftwTypeOK, Sound, NEW c \in Callers, Begin(c) PROVE Sound'
<1>1. pc[c] \notin GrowLabels \cup UseLabels
  BY Zenon DEF Begin, BusyLabels
<1>2. "mode" \notin GrowLabels \cup UseLabels
  BY LabelsApart, Zenon DEF ModeLabels
<1>3. \A d \in Callers \ {c} : num'[d] = num[d]
  BY SMT DEF FftwTypeOK, Begin
<1> QED BY <1>1, <1>2, <1>3, ElsewhereSound, Zenon DEF Begin

LEMMA SetModeSound ==
    ASSUME FftwTypeOK, Sound, NEW c \in Callers, SetMode(c) PROVE Sound'
<1>1. pc[c] \in ModeLabels /\ UNCHANGED <<buffers, calls, fault>>
  BY Zenon DEF SetMode, AskMode, RemoveThreads, Disable, InitThreads, Enable, Initialized,
               Step, ModeLabels
<1>2. \E label \in ModeLabels \cup {"check", "thrown"} : Goto(c, label)
  <2>1. CASE AskMode(c)
    <3>1. (IF threads_enabled = multi[c] THEN "check"
           ELSE IF multi[c] THEN "init" ELSE "remove") \in {"check", "init", "remove"}
      BY Zenon
    <3> QED BY <2>1, <3>1, Zenon DEF AskMode, Step, ModeLabels
  <2>2. CASE RemoveThreads(c) \/ Disable(c) \/ InitThreads(c) \/ Enable(c) \/ Initialized(c)
    BY <2>2, Zenon DEF RemoveThreads, Disable, InitThreads, Enable, Initialized, Step, ModeLabels
  <2> QED BY <2>1, <2>2 DEF SetMode
<1>3. \A d \in Callers \ {c} : num'[d] = num[d]
  BY <1>1 DEF calls
<1> QED BY <1>1, <1>2, <1>3, LabelsApart, ElsewhereSound, Zenon DEF buffers, calls

\* The other callers while c replaces the buffers: no clause of theirs is about them.
LEMMA OthersPlaced ==
    ASSUME FftwTypeOK, NEW c \in Callers, NEW label, Goto(c, label), ~Races(pc'),
           label \in GrowLabels \/ (pc[c] \in GrowLabels /\ ~Races(pc))
    PROVE  \A d \in Callers \ {c} : Place(d)' /\ pc'[d] \notin GrowLabels
<1> SUFFICES ASSUME NEW d \in Callers \ {c} PROVE Place(d)' /\ pc'[d] \notin GrowLabels
  OBVIOUS
<1>1. pc'[c] = label /\ pc'[d] = pc[d]
  BY Moved
<1>2. pc'[d] \notin GrowLabels /\ pc'[d] \notin UseLabels
  BY <1>1, Alone
<1> QED BY <1>2, SMT DEF Place, GrowLabels, UseLabels

LEMMA CheckSizeSound ==
    ASSUME FftwTypeOK, Sound, ~Races(pc), ~Races(pc'), NEW c \in Callers, CheckSize(c)
    PROVE  Sound'
<1>1. UNCHANGED <<out, out_res, out_size, heap, num, plan, fault>> /\ pc[c] = "check"
  BY DEF CheckSize, Step, buffers, calls
<1>2. CASE out_size < num[c]
  <2>1. Goto(c, "freeOut") /\ "freeOut" \in GrowLabels
    BY <1>2 DEF CheckSize, Step, GrowLabels
  <2>2. pc'[c] = "freeOut" /\ \A d \in Callers \ {c} : pc'[d] = pc[d]
    BY <2>1, Moved
  <2>3. \A d \in Callers \ {c} : Place(d)' /\ pc'[d] \notin GrowLabels
    BY <2>1, OthersPlaced
  <2>4. Quiet
    BY <1>1, <2>2, <2>3, SMT DEF Quiet, GrowLabels
  <2>5. Made'
    BY <1>1, <2>4, Zenon DEF Sound, Made, Whole, Holds
  <2>6. Place(c)'
    BY <2>2, <2>5, SMT DEF Place, UseLabels
  <2> QED BY <1>1, <2>3, <2>5, <2>6, Zenon DEF Sound
<1>3. CASE ~(out_size < num[c])
  <2>1. Goto(c, "plan")
    BY <1>3 DEF CheckSize, Step
  <2>2. pc'[c] = "plan" /\ \A d \in Callers \ {c} : pc'[d] = pc[d]
    BY <2>1, Moved
  <2>3. Quiet' => Made'
    <3>1. Quiet' => Quiet
      BY <1>1, <2>2, SMT DEF Quiet, GrowLabels
    <3> QED BY <1>1, <3>1, Zenon DEF Sound, Made, Whole, Holds
  <2>4. Place(c)'
    <3>1. num[c] <= out_size
      BY <1>3, SizesNatural, SMT
    <3> QED BY <1>1, <2>2, <3>1, SMT DEF Place
  <2>5. ASSUME NEW d \in Callers \ {c} PROVE Place(d)'
    BY <1>1, <2>2, Zenon DEF Sound, Place, Made, Whole, Holds
  <2> QED BY <1>1, <2>3, <2>4, <2>5, Zenon DEF Sound
<1> QED BY <1>2, <1>3

LEMMA FreeSound ==
    ASSUME FftwTypeOK, Sound, ~Races(pc), ~Races(pc'), NEW c \in Callers,
           FreeOut(c) \/ FreeRes(c)
    PROVE  Sound'
<1>1. CASE FreeOut(c)
  <2>1. /\ pc[c] = "freeOut" /\ Goto(c, "freeRes")
        /\ "freeOut" \in GrowLabels /\ "freeRes" \in GrowLabels
    BY <1>1 DEF FreeOut, Step, GrowLabels
  <2>2. pc'[c] = "freeRes"
    BY <2>1, Moved
  <2>3. \A d \in Callers \ {c} : Place(d)' /\ pc'[d] \notin GrowLabels
    BY <2>1, OthersPlaced
  <2>4. Made
    BY <2>1 DEF Sound, Place
  <2>5. /\ out # Null => out \in Addresses /\ heap[out] > 0
        /\ out_res # Null => out_res \in Addresses /\ heap[out_res] > 0 /\ out_res # out
    <3>1. CASE out_size = 0
      BY <2>4, <3>1 DEF Made
    <3>2. CASE out_size # 0
      <4>1. out_size \in Sizes /\ Whole(out_size)
        BY <2>4, <3>2 DEF Made, FftwTypeOK
      <4>2. Bins(out_size) \in Nat \ {0}
        BY <4>1, BinsPositive
      <4> QED BY <4>1, <4>2, SMT DEF Whole, Holds, FftwTypeOK
    <3> QED BY <3>1, <3>2
  <2>6. ~fault'
    <3>1. out = Null \/ heap[out] # 0
      BY <2>5, SMT DEF FftwTypeOK
    <3> QED BY <1>1, <3>1, Zenon DEF FreeOut, Free
  <2>7. out_res' = Null \/ heap'[out_res'] > 0
    <3>1. out_res' = out_res
      BY <1>1 DEF FreeOut
    <3>2. heap' = IF out = Null THEN heap ELSE [heap EXCEPT ![out] = 0]
      BY <1>1 DEF FreeOut, Free
    <3> QED BY <2>5, <3>1, <3>2, SMT DEF FftwTypeOK
  <2>8. Place(c)'
    BY <2>2, <2>7, SMT DEF Place, UseLabels
  <2>9. ~Quiet'
    BY <2>1, <2>2, Zenon DEF Quiet
  <2> QED BY <2>3, <2>6, <2>8, <2>9, Zenon DEF Sound
<1>2. CASE FreeRes(c)
  <2>1. /\ pc[c] = "freeRes" /\ Goto(c, "setSize")
        /\ "freeRes" \in GrowLabels /\ "setSize" \in GrowLabels
    BY <1>2 DEF FreeRes, Step, GrowLabels
  <2>2. pc'[c] = "setSize"
    BY <2>1, Moved
  <2>3. \A d \in Callers \ {c} : Place(d)' /\ pc'[d] \notin GrowLabels
    BY <2>1, OthersPlaced
  <2>4. ~fault'
    <3>1. out_res = Null \/ heap[out_res] > 0
      BY <2>1 DEF Sound, Place
    <3>2. ~(out_res # Null /\ heap[out_res] = 0)
      BY <3>1, SMT DEF FftwTypeOK
    <3> QED BY <1>2, <3>2, Zenon DEF FreeRes, Free
  <2>5. Place(c)' /\ ~Quiet'
    BY <2>1, <2>2, SMT DEF Place, UseLabels, Quiet
  <2> QED BY <2>3, <2>4, <2>5, Zenon DEF Sound
<1> QED BY <1>1, <1>2

LEMMA MakeSound ==
    ASSUME FftwTypeOK, Sound, ~Races(pc), ~Races(pc'), NEW c \in Callers,
           SetSize(c) \/ NewOut(c) \/ NewRes(c)
    PROVE  Sound'
<1>1. CASE SetSize(c)
  <2>1. /\ Goto(c, "newOut") /\ "newOut" \in GrowLabels
        /\ out_size' = num[c] /\ num' = num /\ fault' = fault
    BY <1>1 DEF SetSize, Step, GrowLabels, calls
  <2>2. pc'[c] = "newOut" /\ \A d \in Callers \ {c} : Place(d)' /\ pc'[d] \notin GrowLabels
    BY <2>1, Moved, OthersPlaced
  <2>3. Place(c)' /\ ~Quiet'
    BY <2>1, <2>2, SMT DEF Place, UseLabels, Quiet
  <2> QED BY <2>1, <2>2, <2>3, Zenon DEF Sound
<1>2. CASE NewOut(c)
  <2>1. /\ Goto(c, "newRes") /\ "newRes" \in GrowLabels /\ pc[c] = "newOut"
        /\ out_size' = out_size /\ num' = num /\ fault' = fault
    BY <1>2 DEF NewOut, Step, GrowLabels, calls, Malloc
  <2>2. pc'[c] = "newRes" /\ \A d \in Callers \ {c} : Place(d)' /\ pc'[d] \notin GrowLabels
    BY <2>1, Moved, OthersPlaced
  <2>3. out_size' = num'[c]
    BY <2>1, SMT DEF Sound, Place
  <2>4. Holds(out, Bins(num[c]))'
    <3>1. PICK a \in Addresses : out' = a /\ Malloc(a, Bins(num[c]))
      BY <1>2 DEF NewOut
    <3>2. heap' = [heap EXCEPT ![a] = Bins(num[c])] /\ Bins(num[c]) \in Nat /\ a # Null
      BY <3>1, BinsPositive, FftwAssumption DEF Malloc, FftwTypeOK
    <3> QED BY <2>1, <3>1, <3>2, SMT DEF Holds, FftwTypeOK, Bins
  <2>5. Place(c)' /\ ~Quiet'
    BY <2>1, <2>2, <2>3, <2>4, SMT DEF Place, UseLabels, Quiet
  <2> QED BY <2>1, <2>2, <2>5, Zenon DEF Sound
<1>3. CASE NewRes(c)
  <2>1. /\ Goto(c, "plan") /\ "newRes" \in GrowLabels /\ pc[c] = "newRes"
        /\ out_size' = out_size /\ out' = out /\ num' = num /\ fault' = fault
    BY <1>3 DEF NewRes, Step, GrowLabels, calls, Malloc
  <2>2. pc'[c] = "plan" /\ \A d \in Callers \ {c} : Place(d)' /\ pc'[d] \notin GrowLabels
    BY <2>1, Moved, OthersPlaced
  <2>3. out_size = num[c] /\ num[c] \in Nat \ {0} /\ Holds(out, Bins(num[c]))
        /\ Bins(num[c]) \in Nat \ {0}
    BY <2>1, BinsPositive, SMT DEF Sound, Place, FftwTypeOK
  <2>4. Whole(num[c])'
    <3>1. PICK a \in Addresses : out_res' = a /\ Malloc(a, Bins(num[c]))
      BY <1>3 DEF NewRes
    <3>2. heap' = [heap EXCEPT ![a] = Bins(num[c])] /\ heap[a] = 0 /\ a # Null
      BY <3>1, FftwAssumption DEF Malloc
    <3>3. a # out /\ out \in Addresses
      BY <2>3, <3>2, SMT DEF Holds, FftwTypeOK
    <3>4. Bins(num'[c]) = Bins(num[c])
      BY <2>1
    <3>5. heap'[a] = Bins(num[c]) /\ heap'[out] = heap[out] /\ heap[out] >= Bins(num[c])
          /\ out # Null
      BY <2>3, <3>2, <3>3, SMT DEF Holds, FftwTypeOK
    <3> QED BY <2>1, <2>3, <3>1, <3>2, <3>3, <3>4, <3>5, SMT DEF Whole, Holds
  <2>5. Made'
    BY <2>1, <2>3, <2>4, Zenon DEF Made
  <2>6. Place(c)'
    BY <2>1, <2>2, <2>3, SMT DEF Place
  <2> QED BY <2>1, <2>2, <2>5, <2>6, Zenon DEF Sound
<1> QED BY <1>1, <1>2, <1>3


LEMMA UseSound ==
    ASSUME FftwTypeOK, Sound, ~Races(pc), NEW c \in Callers,
           MakePlan(c) \/ Execute(c) \/ Copy(c) \/ Result(c)
    PROVE  Sound'
<1>1. pc[c] \in UseLabels /\ UNCHANGED <<out, out_res, out_size, heap, num>>
  <2>1. pc[c] \in {"plan", "execute", "copy", "result"}
    BY Zenon DEF MakePlan, Execute, Copy, Result, Step
  <2>2. pc[c] \in UseLabels
    BY <2>1, Zenon DEF UseLabels
  <2>3. CASE MakePlan(c)
    BY <2>2, <2>3 DEF MakePlan, buffers
  <2>4. CASE Execute(c)
    BY <2>2, <2>4 DEF Execute
  <2>5. CASE Copy(c)
    BY <2>2, <2>5 DEF Copy, calls
  <2>6. CASE Result(c)
    BY <2>2, <2>6 DEF Result, buffers
  <2> QED BY <2>3, <2>4, <2>5, <2>6
<1>2. /\ Quiet /\ Made /\ Whole(num[c]) /\ num[c] <= out_size
      /\ Holds(out, num[c] \div 2) /\ Holds(out_res, num[c] \div 2)
  BY <1>1, UsersQuiet, RoomFor DEF Sound, Place
<1>3. \E label \in {"execute", "copy", "result", "returned"} : Goto(c, label)
  BY Zenon DEF MakePlan, Execute, Copy, Result, Step
<1>4. PICK label \in {"execute", "copy", "result", "returned"} : Goto(c, label)
  BY <1>3
<1>5. pc'[c] = label /\ \A d \in Callers \ {c} : pc'[d] = pc[d]
  BY <1>4, Moved
<1>6. Made'
  BY <1>1, <1>2, Zenon DEF Made, Whole, Holds
<1>7. ~fault'
  <2>1. CASE MakePlan(c)
    BY <2>1, Zenon DEF MakePlan, Sound
  <2>2. CASE Execute(c)
    <3>1. pc[c] = "execute"
      BY <2>2 DEF Execute, Step
    <3>2. plan[c].at = out
      BY <3>1 DEF Sound, Place
    <3> QED BY <1>2, <2>2, <3>2, Zenon DEF Execute, Whole
  <2>3. CASE Copy(c)
    BY <1>2, <2>3, Zenon DEF Copy
  <2>4. CASE Result(c)
    BY <1>2, <2>4, Zenon DEF Result, Whole
  <2> QED BY <2>1, <2>2, <2>3, <2>4
<1>8. Place(c)'
  <2>1. pc'[c] = "execute" => plan'[c].at = out'
    <3>1. CASE MakePlan(c)
      BY <1>1, <3>1, SMT DEF MakePlan, FftwTypeOK
    <3>2. CASE Execute(c) \/ Copy(c) \/ Result(c)
      <4>1. Goto(c, "copy") \/ Goto(c, "result") \/ Goto(c, "returned")
        BY <3>2 DEF Execute, Copy, Result, Step
      <4> QED BY <4>1, SMT DEF Goto, FftwTypeOK
    <3> QED BY <3>1, <3>2
  <2>2. pc'[c] \notin GrowLabels
    BY <1>5, SMT DEF GrowLabels
  <2> QED BY <1>1, <1>2, <2>1, <2>2, SMT DEF Place, GrowLabels
<1>9. ASSUME NEW d \in Callers \ {c} PROVE Place(d)'
  <2>1. Place(d) /\ pc'[d] = pc[d]
    BY <1>5 DEF Sound
  <2>2. plan'[d] = plan[d]
    BY SMT DEF MakePlan, Execute, Copy, Result, calls, FftwTypeOK
  <2> QED BY <1>1, <2>1, <2>2, Zenon DEF Place, Made, Whole, Holds
<1> QED BY <1>6, <1>7, <1>8, <1>9 DEF Sound

LEMMA BufferInit == FftwInit => BufferInv
<1> SUFFICES ASSUME FftwInit PROVE BufferInv
  OBVIOUS
<1>1. \A c \in Callers : pc[c] = "idle"
  BY DEF FftwInit
<1>2. ~Races(pc)
  BY <1>1, SMT DEF Races, GrowLabels
<1>3. ~fault /\ Made
  BY Zenon DEF FftwInit, Made
<1>4. \A c \in Callers : Place(c)
  <2> SUFFICES ASSUME NEW c \in Callers PROVE Place(c)
    OBVIOUS
  <2>1. pc[c] \notin UseLabels \cup {"freeOut", "freeRes", "newOut", "newRes", "execute"}
    BY <1>1, SMT DEF UseLabels
  <2> QED BY <2>1, Zenon DEF Place
<1> QED BY <1>2, <1>3, <1>4 DEF BufferInv, Sound

LEMMA BufferStep == FftwTypeOK /\ BufferInv /\ [FftwNext]_fftwVars => BufferInv'
<1> SUFFICES ASSUME FftwTypeOK, BufferInv, [FftwNext]_fftwVars PROVE BufferInv'
  OBVIOUS
<1>1. CASE UNCHANGED fftwVars
  BY <1>1, Zenon DEF BufferInv, Sound, Races, Quiet, Made, Place, Whole, Holds,
                     fftwVars, flags, buffers, calls, past
<1>2. CASE FftwNext
  <2>1. CASE raced'
    BY <2>1 DEF BufferInv
  <2>2. CASE ~raced'
    <3>1. ~raced /\ ~Races(pc')
      BY <1>2, <2>2, Zenon DEF FftwNext, History
    <3>2. Sound /\ ~Races(pc)
      BY <3>1 DEF BufferInv
    <3>3. PICK c \in Callers : Begin(c) \/ SetMode(c) \/ ExecuteFftw(c)
      BY <1>2 DEF FftwNext
    <3>4. Sound'
      BY <3>1, <3>2, <3>3, BeginSound, SetModeSound, CheckSizeSound, FreeSound, MakeSound, UseSound
      DEF ExecuteFftw
    <3> QED BY <3>1, <3>4 DEF BufferInv
  <2> QED BY <2>1, <2>2
<1> QED BY <1>1, <1>2

\* SafeUnlessRaced: for any number of callers and any sizes, fftw_jni.c uses memory
\* that is free or too short only after a race for its static buffers.
THEOREM SafeUnlessRacedHolds == FftwSpec => []SafeUnlessRaced
<1>1. FftwTypeOK /\ BufferInv => SafeUnlessRaced
  BY Zenon DEF BufferInv, Sound, SafeUnlessRaced
<1> QED BY <1>1, FftwTypeInit, FftwTypeStep, BufferInit, BufferStep, PTL DEF FftwSpec


-----------------------------------------------------------------------------
(* The flags *)

LEMMA EnabledStep ==
    FftwTypeOK /\ EnabledIsInitialized /\ [FftwNext]_fftwVars => EnabledIsInitialized'
<1> SUFFICES ASSUME FftwTypeOK, EnabledIsInitialized, [FftwNext]_fftwVars
             PROVE  EnabledIsInitialized'
  OBVIOUS
<1>1. CASE UNCHANGED fftwVars
  BY <1>1, Zenon DEF EnabledIsInitialized, fftwVars, flags
<1>2. ASSUME NEW c \in Callers, Enable(c) PROVE EnabledIsInitialized'
  <2>1. pc'[c] = "initialized"
    BY <1>2, Moved DEF Enable, Step
  <2> QED BY <2>1, Zenon DEF EnabledIsInitialized
<1>3. ASSUME NEW c \in Callers, Initialized(c) \/ Disable(c) PROVE EnabledIsInitialized'
  BY <1>3, Zenon DEF Initialized, Disable, EnabledIsInitialized
<1>4. ASSUME NEW c \in Callers,
             Begin(c) \/ AskMode(c) \/ RemoveThreads(c) \/ InitThreads(c) \/ ExecuteFftw(c)
      PROVE  EnabledIsInitialized'
  <2>1. UNCHANGED <<threads_enabled, threads_initialized>>
    BY <1>4, Zenon DEF Begin, AskMode, RemoveThreads, InitThreads, ExecuteFftw, CheckSize, FreeOut,
         FreeRes, SetSize, NewOut, NewRes, MakePlan, Execute, Copy, Result, flags
  <2>2. pc[c] # "initialized"
    BY <1>4, SMT DEF Begin, AskMode, RemoveThreads, InitThreads, ExecuteFftw, CheckSize, FreeOut,
         FreeRes, SetSize, NewOut, NewRes, MakePlan, Execute, Copy, Result, Step,
         BusyLabels, ModeLabels
  <2>3. \E label : Goto(c, label)
    BY <1>4, Zenon DEF Begin, AskMode, RemoveThreads, InitThreads, ExecuteFftw, CheckSize, FreeOut,
         FreeRes, SetSize, NewOut, NewRes, MakePlan, Execute, Copy, Result, Step
  <2>4. \A d \in Callers \ {c} : pc'[d] = pc[d]
    BY <2>3, Moved
  <2> QED BY <2>1, <2>2, <2>4, Zenon DEF EnabledIsInitialized
<1> QED BY <1>1, <1>2, <1>3, <1>4 DEF FftwNext, SetMode

\* EnabledIsInitialized: removeThreadsJNI() throws only between the two assignments of
\* initThreadsJNI().
THEOREM EnabledIsInitializedHolds == FftwSpec => []EnabledIsInitialized
<1>1. FftwInit => EnabledIsInitialized
  BY DEF FftwInit, EnabledIsInitialized
<1> QED BY <1>1, FftwTypeInit, FftwTypeStep, EnabledStep, PTL DEF FftwSpec

\* FFTW's own setting, when the only call under way stands at label.
ThreadsAt(label) ==
    nthreads = IF label = "disable" THEN 1
               ELSE IF label = "enable" THEN 2
               ELSE IF threads_enabled THEN 2 ELSE 1

\* The mode a call has, and what it has of it already.
ModeAt(c) ==
    /\ pc[c] \in {"remove", "disable"} => threads_enabled /\ ~multi[c]
    /\ pc[c] \in {"init", "enable", "initialized"} => multi[c]
    /\ pc[c] = "init" => ~threads_enabled
    /\ pc[c] = "initialized" => threads_enabled
    /\ pc[c] \in {"check"} \cup GrowLabels \cup UseLabels => (threads_enabled <=> multi[c])
    /\ pc[c] = "execute" => plan[c].threads = IF multi[c] THEN 2 ELSE 1

\* The strengthening: as long as no two calls have overlapped, the flags and FFTW's
\* setting follow from where the one call is.
ModeInv ==
    ~overlapped =>
        /\ \A c, d \in Callers : c # d => pc[c] \notin BusyLabels \/ pc[d] \notin BusyLabels
        /\ (\A c \in Callers : pc[c] \notin BusyLabels) => ThreadsAt("idle")
        /\ \A c \in Callers : pc[c] \in BusyLabels => ThreadsAt(pc[c]) /\ ModeAt(c)

\* A step of the only call, or the beginning of one.
LEMMA OnlyCall ==
    ASSUME FftwTypeOK, NEW c \in Callers, NEW label, Goto(c, label),
           \A d \in Callers \ {c} : pc[d] \notin BusyLabels,
           label \in BusyLabels => ThreadsAt(label)' /\ ModeAt(c)',
           label \notin BusyLabels => ThreadsAt("idle")'
    PROVE  ModeInv'
<1>1. pc'[c] = label /\ \A d \in Callers \ {c} : pc'[d] = pc[d]
  BY Moved
<1>2. \A d \in Callers \ {c} : pc'[d] \notin BusyLabels
  BY <1>1
<1>3. CASE label \in BusyLabels
  BY <1>1, <1>2, <1>3, Zenon DEF ModeInv, ThreadsAt
<1>4. CASE label \notin BusyLabels
  BY <1>1, <1>2, <1>4, Zenon DEF ModeInv, ThreadsAt
<1> QED BY <1>3, <1>4

LEMMA BeginModeInv ==
    ASSUME FftwTypeOK, ModeInv, ~overlapped, NEW c \in Callers, Begin(c),
           \A d \in Callers \ {c} : pc[d] \notin BusyLabels
    PROVE  ModeInv'
<1>1. pc[c] \notin BusyLabels /\ Goto(c, "mode") /\ UNCHANGED flags
  BY DEF Begin
<1>2. ThreadsAt("idle")
  BY <1>1 DEF ModeInv
<1>3. ThreadsAt("mode")'
  BY <1>1, <1>2, SMT DEF ThreadsAt, flags
<1>4. ModeAt(c)'
  <2>1. pc'[c] = "mode"
    BY <1>1, Moved
  <2> QED BY <2>1, SMT DEF ModeAt, GrowLabels, UseLabels
<1>5. "mode" \in BusyLabels
  BY Zenon DEF BusyLabels, ModeLabels
<1> QED BY <1>1, <1>3, <1>4, <1>5, OnlyCall

LEMMA SetModeModeInv ==
    ASSUME FftwTypeOK, ModeInv, ~overlapped, NEW c \in Callers, SetMode(c),
           \A d \in Callers \ {c} : pc[d] \notin BusyLabels
    PROVE  ModeInv'
<1> DEFINE labels == {"check", "thrown"} \cup ModeLabels
<1>1. pc[c] \in BusyLabels /\ multi' = multi /\ plan' = plan
  BY Zenon DEF SetMode, AskMode, RemoveThreads, Disable, InitThreads, Enable, Initialized,
               Step, BusyLabels, ModeLabels, calls
<1>2. ThreadsAt(pc[c]) /\ ModeAt(c)
  BY <1>1 DEF ModeInv
<1>3. threads_enabled \in BOOLEAN /\ multi[c] \in BOOLEAN
  BY DEF FftwTypeOK
<1>4. "thrown" \notin BusyLabels
  BY SMT DEF BusyLabels, ModeLabels, GrowLabels, UseLabels
<1>5. {"check", "remove", "disable", "init", "enable", "initialized"} \subseteq BusyLabels
  BY Zenon DEF BusyLabels, ModeLabels
<1>6. ASSUME NEW label \in {"check", "remove", "disable", "init", "enable", "initialized"},
             Goto(c, label), ThreadsAt(label)',
             label \in {"remove", "disable"} => threads_enabled' /\ ~multi[c],
             label \in {"init", "enable", "initialized"} => multi[c],
             label = "init" => ~threads_enabled',
             label = "initialized" => threads_enabled',
             label = "check" => (threads_enabled' <=> multi[c])
      PROVE  ModeInv'
  <2>1. pc'[c] = label
    BY <1>6, Moved
  <2>2. ModeAt(c)'
    <3>1. label \notin GrowLabels \cup UseLabels /\ label # "execute"
      BY SMT DEF GrowLabels, UseLabels
    <3> QED BY <1>1, <1>6, <2>1, <3>1, Zenon DEF ModeAt
  <2> QED BY <1>5, <1>6, <2>2, OnlyCall
<1>7. CASE AskMode(c)
  <2>1. UNCHANGED flags /\ pc[c] = "mode"
    BY <1>7 DEF AskMode, Step
  <2>2. \A label \in {"check", "remove", "init"} : ThreadsAt(label)'
    BY <1>2, <2>1, SMT DEF ThreadsAt, flags
  <2>3. CASE threads_enabled = multi[c]
    <3>1. Goto(c, "check")
      BY <1>7, <2>3 DEF AskMode, Step
    <3>2. threads_enabled' <=> multi[c]
      BY <2>1, <2>3, Zenon DEF flags
    <3> QED BY <1>6, <2>2, <3>1, <3>2, Zenon
  <2>4. CASE threads_enabled # multi[c] /\ multi[c]
    <3>1. Goto(c, "init")
      BY <1>7, <2>4 DEF AskMode, Step
    <3>2. ~threads_enabled
      BY <1>3, <2>4, Zenon
    <3>3. ~threads_enabled'
      BY <2>1, <3>2 DEF flags
    <3> QED BY <1>6, <2>2, <2>4, <3>1, <3>3, Zenon
  <2>5. CASE threads_enabled # multi[c] /\ ~multi[c]
    <3>1. Goto(c, "remove")
      BY <1>7, <2>5 DEF AskMode, Step
    <3>2. threads_enabled
      BY <1>3, <2>5, Zenon
    <3>3. threads_enabled'
      BY <2>1, <3>2 DEF flags
    <3> QED BY <1>6, <2>2, <2>5, <3>1, <3>3, Zenon
  <2> QED BY <2>3, <2>4, <2>5
<1>8. CASE RemoveThreads(c)
  <2>1. pc[c] = "remove" /\ threads_enabled' = threads_enabled
    BY <1>8 DEF RemoveThreads
  <2>2. threads_enabled /\ ~multi[c]
    BY <1>2, <2>1 DEF ModeAt
  <2>3. CASE threads_initialized
    <3>1. Goto(c, "disable") /\ nthreads' = 1
      BY <1>8, <2>3 DEF RemoveThreads
    <3>2. ThreadsAt("disable")'
      BY <3>1, Zenon DEF ThreadsAt
    <3> QED BY <1>6, <2>1, <2>2, <3>1, <3>2, Zenon
  <2>4. CASE ~threads_initialized
    <3>1. Goto(c, "thrown") /\ nthreads' = nthreads
      BY <1>8, <2>4 DEF RemoveThreads
    <3>2. ThreadsAt("idle")'
      BY <1>2, <2>1, <3>1, SMT DEF ThreadsAt
    <3> QED BY <1>4, <3>1, <3>2, OnlyCall
  <2> QED BY <2>3, <2>4
<1>9. CASE Disable(c)
  <2>1. /\ pc[c] = "disable" /\ Goto(c, "check")
        /\ threads_enabled' = FALSE /\ nthreads' = nthreads
    BY <1>9 DEF Disable, Step
  <2>2. ThreadsAt("check")' /\ ~multi[c]
    BY <1>2, <2>1, SMT DEF ThreadsAt, ModeAt
  <2> QED BY <1>6, <2>1, <2>2, Zenon
<1>10. CASE InitThreads(c)
  <2>1. pc[c] = "init" /\ threads_enabled' = threads_enabled
    BY <1>10 DEF InitThreads
  <2>2. ~threads_enabled /\ multi[c]
    BY <1>2, <2>1 DEF ModeAt
  <2>3. CASE Goto(c, "enable") /\ nthreads' = 2
    <3>1. ThreadsAt("enable")'
      BY <2>3, SMT DEF ThreadsAt
    <3> QED BY <1>6, <2>1, <2>2, <2>3, <3>1, Zenon
  <2>4. CASE Goto(c, "thrown") /\ nthreads' = nthreads
    <3>1. ThreadsAt("idle")'
      BY <1>2, <2>1, <2>4, SMT DEF ThreadsAt
    <3> QED BY <1>4, <2>4, <3>1, OnlyCall
  <2> QED BY <1>10, <2>3, <2>4 DEF InitThreads
<1>11. CASE Enable(c)
  <2>1. /\ pc[c] = "enable" /\ Goto(c, "initialized")
        /\ threads_enabled' = TRUE /\ nthreads' = nthreads
    BY <1>11 DEF Enable, Step
  <2>2. ThreadsAt("initialized")' /\ multi[c]
    BY <1>2, <2>1, SMT DEF ThreadsAt, ModeAt
  <2> QED BY <1>6, <2>1, <2>2, Zenon
<1>12. CASE Initialized(c)
  <2>1. /\ pc[c] = "initialized" /\ Goto(c, "check")
        /\ threads_enabled' = threads_enabled /\ nthreads' = nthreads
    BY <1>12 DEF Initialized, Step
  <2>2. ThreadsAt("check")' /\ multi[c] /\ threads_enabled
    BY <1>2, <2>1, SMT DEF ThreadsAt, ModeAt
  <2> QED BY <1>6, <2>1, <2>2, Zenon
<1> QED BY <1>7, <1>8, <1>9, <1>10, <1>11, <1>12 DEF SetMode

LEMMA ExecuteModeInv ==
    ASSUME FftwTypeOK, ModeInv, ~overlapped, NEW c \in Callers, ExecuteFftw(c),
           \A d \in Callers \ {c} : pc[d] \notin BusyLabels
    PROVE  ModeInv'
<1> DEFINE inside == {"check"} \cup GrowLabels \cup UseLabels
<1>1. pc[c] \in inside
  BY SMT DEF ExecuteFftw, CheckSize, FreeOut, FreeRes, SetSize, NewOut, NewRes, MakePlan, Execute,
             Copy, Result, Step, GrowLabels, UseLabels
<1>2. \E label \in inside \cup {"returned"} : Goto(c, label)
  <2>1. CASE CheckSize(c)
    <3>1. (IF out_size < num[c] THEN "freeOut" ELSE "plan") \in inside
      BY Zenon DEF GrowLabels, UseLabels
    <3> QED BY <2>1, <3>1, Zenon DEF CheckSize, Step
  <2>2. CASE FreeOut(c) \/ FreeRes(c) \/ SetSize(c) \/ NewOut(c) \/ NewRes(c)
    BY <2>2, Zenon DEF FreeOut, FreeRes, SetSize, NewOut, NewRes, Step, GrowLabels, UseLabels
  <2>3. CASE MakePlan(c) \/ Execute(c) \/ Copy(c) \/ Result(c)
    BY <2>3, Zenon DEF MakePlan, Execute, Copy, Result, Step, UseLabels
  <2> QED BY <2>1, <2>2, <2>3 DEF ExecuteFftw
<1>3. PICK label \in inside \cup {"returned"} : Goto(c, label)
  BY <1>2
<1>4. UNCHANGED flags /\ multi' = multi
  BY Zenon DEF ExecuteFftw, CheckSize, FreeOut, FreeRes, SetSize, NewOut, NewRes, MakePlan, Execute,
               Copy, Result, calls
<1>5. ThreadsAt(pc[c]) /\ (threads_enabled <=> multi[c])
  BY <1>1, Zenon DEF ModeInv, ModeAt, BusyLabels
<1>6. pc[c] # "disable" /\ pc[c] # "enable" /\ label # "disable" /\ label # "enable"
  BY <1>1, <1>3, SMT DEF GrowLabels, UseLabels
<1>7. nthreads = IF threads_enabled THEN 2 ELSE 1
  BY <1>5, <1>6, Zenon DEF ThreadsAt
<1>8. ThreadsAt(label)' /\ ThreadsAt("idle")'
  BY <1>4, <1>6, <1>7, SMT DEF ThreadsAt, flags
<1>9. pc'[c] = label
  BY <1>3, Moved
<1>10. label = "execute" => plan'[c].threads = IF multi[c] THEN 2 ELSE 1
  <2>1. CASE MakePlan(c)
    <3>1. plan'[c].threads = nthreads
      BY <2>1, SMT DEF MakePlan, FftwTypeOK
    <3> QED BY <1>5, <1>7, <3>1, Zenon
  <2>2. CASE ~MakePlan(c)
    <3>1. pc'[c] # "execute"
      <4>1. CASE CheckSize(c)
        <5>1. pc'[c] = IF out_size < num[c] THEN "freeOut" ELSE "plan"
          BY <4>1, Moved DEF CheckSize, Step
        <5> QED BY <5>1, SMT
      <4>2. CASE FreeOut(c) \/ FreeRes(c) \/ SetSize(c) \/ NewOut(c) \/ NewRes(c)
        <5>1. pc'[c] \in {"freeRes", "setSize", "newOut", "newRes", "plan"}
          BY <4>2, SMT DEF FreeOut, FreeRes, SetSize, NewOut, NewRes, Step, Goto, FftwTypeOK
        <5> QED BY <5>1, SMT
      <4>3. CASE Execute(c) \/ Copy(c) \/ Result(c)
        <5>1. Goto(c, "copy") \/ Goto(c, "result") \/ Goto(c, "returned")
          BY <4>3 DEF Execute, Copy, Result, Step
        <5> QED BY <5>1, Moved, SMT
      <4> QED BY <2>2, <4>1, <4>2, <4>3 DEF ExecuteFftw
    <3> QED BY <1>9, <3>1
  <2> QED BY <2>1, <2>2
<1>11. label \in BusyLabels => ModeAt(c)'
  <2>1. label \notin {"remove", "disable", "init", "enable", "initialized"}
    BY <1>3, SMT DEF GrowLabels, UseLabels
  <2> QED BY <1>4, <1>5, <1>9, <1>10, <2>1, Zenon DEF ModeAt, flags
<1> QED BY <1>3, <1>8, <1>11, OnlyCall

LEMMA ModeStep == FftwTypeOK /\ ModeInv /\ [FftwNext]_fftwVars => ModeInv'
<1> SUFFICES ASSUME FftwTypeOK, ModeInv, [FftwNext]_fftwVars PROVE ModeInv'
  OBVIOUS
<1>1. CASE UNCHANGED fftwVars
  <2>1. UNCHANGED <<threads_enabled, nthreads, pc, multi, plan, overlapped>>
    BY <1>1 DEF fftwVars, flags, calls, past
  <2> QED BY <2>1, Zenon DEF ModeInv, ThreadsAt, ModeAt
<1>2. CASE FftwNext
  <2>1. CASE overlapped'
    BY <2>1 DEF ModeInv
  <2>2. CASE ~overlapped'
    <3>1. ~overlapped /\ Overlap(pc') = {}
      BY <1>2, <2>2, Zenon DEF FftwNext, History
    <3>2. PICK c \in Callers : Begin(c) \/ SetMode(c) \/ ExecuteFftw(c)
      BY <1>2 DEF FftwNext
    <3>3. CASE Begin(c)
      <4>1. Goto(c, "mode") /\ "mode" \in BusyLabels
        BY <3>3, Zenon DEF Begin, BusyLabels, ModeLabels
      <4>2. pc'[c] \in BusyLabels /\ \A d \in Callers \ {c} : pc'[d] = pc[d]
        BY <4>1, Moved
      <4>3. \A d \in Callers \ {c} : pc[d] \notin BusyLabels
        BY <3>1, <4>2, Zenon DEF Overlap
      <4> QED BY <3>1, <3>3, <4>3, BeginModeInv
    <3>4. CASE SetMode(c) \/ ExecuteFftw(c)
      <4>1. pc[c] \in BusyLabels
        BY <3>4, SMT DEF SetMode, AskMode, RemoveThreads, Disable, InitThreads, Enable, Initialized,
             ExecuteFftw, CheckSize, FreeOut, FreeRes, SetSize, NewOut, NewRes, MakePlan, Execute,
             Copy, Result, Step, BusyLabels, ModeLabels, GrowLabels, UseLabels
      <4>2. \A d \in Callers \ {c} : pc[d] \notin BusyLabels
        BY <3>1, <4>1 DEF ModeInv
      <4> QED BY <3>1, <3>4, <4>2, SetModeModeInv, ExecuteModeInv
    <3> QED BY <3>2, <3>3, <3>4
  <2> QED BY <2>1, <2>2
<1> QED BY <1>1, <1>2

LEMMA ModeInit == FftwInit => ModeInv
<1> SUFFICES ASSUME FftwInit PROVE ModeInv
  OBVIOUS
<1>1. \A c \in Callers : pc[c] \notin BusyLabels
  <2>1. \A c \in Callers : pc[c] = "idle"
    BY DEF FftwInit
  <2>2. "idle" \notin BusyLabels
    BY SMT DEF BusyLabels, ModeLabels, GrowLabels, UseLabels
  <2> QED BY <2>1, <2>2
<1>2. ThreadsAt("idle")
  BY SMT DEF FftwInit, ThreadsAt
<1> QED BY <1>1, <1>2, Zenon DEF ModeInv

\* PlannedThreads: one call at a time, FFTW plans with the threads the algorithm asks
\* for, whatever was performed before and whether or not the threads could be made.
THEOREM PlannedThreadsHolds == FftwSpec => []PlannedThreads
<1>1. ModeInv => PlannedThreads
  <2> SUFFICES ASSUME ModeInv, ~overlapped, NEW c \in Callers, pc[c] = "execute"
               PROVE  plan[c].threads = IF multi[c] THEN 2 ELSE 1
    BY DEF PlannedThreads
  <2>1. pc[c] \in BusyLabels
    BY Zenon DEF BusyLabels, UseLabels
  <2> QED BY <2>1 DEF ModeInv, ModeAt
<1> QED BY <1>1, ModeInit, FftwTypeInit, FftwTypeStep, ModeStep, PTL DEF FftwSpec

-----------------------------------------------------------------------------
(* Whose spectrum *)

Busy(c) == pc[c] \in BusyLabels

\* c's bins of the execution it is in are exactly those of its spectrum but the last.
OwnBins(c, spectrum) ==
    \A i \in 0..MaxBin : i < Bins(num[c]) => (spectrum[i] = c) = (i < num[c] \div 2)

\* Where the present bins of c are: nowhere until it has executed, then in out, then
\* in out_res, then in its array.
OwnPlace(c) ==
    /\ Busy(c) /\ pc[c] \notin {"copy", "result"} =>
           \A a \in Addresses : \A i \in 0..MaxBin : mem[a][i] # c
    /\ pc[c] = "copy" =>
           \A i \in 0..MaxBin : /\ i < Bins(num[c]) => mem[out][i] = c
                                /\ mem[out_res][i] # c
    /\ pc[c] = "result" => OwnBins(c, mem[out_res])
    /\ pc[c] = "returned" => OwnBins(c, res[c])

\* The strengthening: who is with somebody now is disturbed, and while nobody has
\* raced for the buffers the bins of the others are where their calls are.
OwnInv ==
    /\ Overlap(pc) \subseteq disturbed
    /\ ~raced => \A c \in Callers \ disturbed : OwnPlace(c)

\* The parts of a call are labels of a call.
LEMMA PartsBusy ==
    /\ "mode" \in BusyLabels
    /\ \A l \in {"check"} \cup ModeLabels \cup GrowLabels \cup UseLabels : l \in BusyLabels
    /\ "returned" \notin BusyLabels /\ "thrown" \notin BusyLabels /\ "idle" \notin BusyLabels
BY SMT DEF BusyLabels, ModeLabels, GrowLabels, UseLabels

\* Every step is one of a call or the beginning of one.
LEMMA CallStep ==
    ASSUME FftwTypeOK, NEW d \in Callers, Begin(d) \/ SetMode(d) \/ ExecuteFftw(d)
    PROVE  /\ \E label : Goto(d, label)
           /\ Begin(d) \/ Busy(d)
<1>1. CASE Begin(d)
  BY <1>1 DEF Begin
<1>2. CASE SetMode(d)
  <2>1. pc[d] \in ModeLabels
    BY <1>2, Zenon DEF SetMode, AskMode, RemoveThreads, Disable, InitThreads, Enable, Initialized,
                       Step, ModeLabels
  <2>2. \E label : Goto(d, label)
    BY <1>2, Zenon DEF SetMode, AskMode, RemoveThreads, Disable, InitThreads, Enable, Initialized,
                       Step
  <2> QED BY <2>1, <2>2, PartsBusy DEF Busy
<1>3. CASE ExecuteFftw(d)
  <2>1. pc[d] \in {"check"} \cup GrowLabels \cup UseLabels
    BY <1>3, Zenon DEF ExecuteFftw, CheckSize, FreeOut, FreeRes, SetSize, NewOut, NewRes,
                       MakePlan, Execute, Copy, Result, Step, GrowLabels, UseLabels
  <2>2. \E label : Goto(d, label)
    BY <1>3, Zenon DEF ExecuteFftw, CheckSize, FreeOut, FreeRes, SetSize, NewOut, NewRes,
                       MakePlan, Execute, Copy, Result, Step
  <2> QED BY <2>1, <2>2, PartsBusy DEF Busy
<1> QED BY <1>1, <1>2, <1>3

\* What the steps of d do to an array another caller got: they age d's bins in it.
LEMMA OthersArray ==
    ASSUME FftwTypeOK, NEW d \in Callers, Begin(d) \/ SetMode(d) \/ ExecuteFftw(d),
           NEW c \in Callers \ {d}
    PROVE  /\ num'[c] = num[c]
           /\ \A i \in 0..MaxBin : (res'[c][i] = c) = (res[c][i] = c)
<1>1. CASE Begin(d)
  <2>1. num'[c] = num[c] /\ res'[c] = Aged(d, res[c])
    BY <1>1, SMT DEF Begin, FftwTypeOK
  <2>2. Stale # c
    BY FftwAssumption
  <2>3. ASSUME NEW i \in 0..MaxBin PROVE (res'[c][i] = c) = (res[c][i] = c)
    <3>1. res'[c][i] = IF res[c][i] = d THEN Stale ELSE res[c][i]
      BY <2>1, Zenon DEF Aged
    <3> QED BY <2>2, <3>1
  <2> QED BY <2>1, <2>3
<1>2. CASE SetMode(d)
  <2>1. UNCHANGED calls
    BY <1>2, Zenon DEF SetMode, AskMode, RemoveThreads, Disable, InitThreads, Enable, Initialized
  <2> QED BY <2>1 DEF calls
<1>3. CASE ExecuteFftw(d)
  <2>1. UNCHANGED num
    BY <1>3, Zenon DEF ExecuteFftw, CheckSize, FreeOut, FreeRes, SetSize, NewOut, NewRes,
                       MakePlan, Execute, Copy, Result, calls
  <2>2. CASE Result(d)
    <3>1. \E s : res' = [res EXCEPT ![d] = s] \/ res' = res
      BY <2>2, Zenon DEF Result
    <3>2. res'[c] = res[c]
      BY <3>1, Zenon DEF FftwTypeOK
    <3> QED BY <2>1, <3>2
  <2>3. CASE ~Result(d)
    <3>1. UNCHANGED res
      BY <1>3, <2>3, Zenon DEF ExecuteFftw, CheckSize, FreeOut, FreeRes, SetSize, NewOut, NewRes,
                         MakePlan, Execute, Copy, calls
    <3> QED BY <2>1, <3>1
  <2> QED BY <2>2, <2>3
<1> QED BY <1>1, <1>2, <1>3

\* Who is disturbed stays so until the next call of its own, and a caller that
\* is with somebody is.
LEMMA StayDisturbed ==
    ASSUME History, NEW c \in Callers, c \notin disturbed'
    PROVE  /\ c \in disturbed => pc[c] \notin BusyLabels /\ pc'[c] \in BusyLabels
           /\ \A d \in Callers \ {c} : pc'[c] \notin BusyLabels \/ pc'[d] \notin BusyLabels
BY Zenon DEF History, Overlap

\* The others, in a step of d: whoever is undisturbed is not in a call.
LEMMA OthersOwn ==
    ASSUME FftwTypeOK, Overlap(pc) \subseteq disturbed, History,
           NEW d \in Callers, Begin(d) \/ SetMode(d) \/ ExecuteFftw(d),
           NEW c \in Callers \ {d}, c \notin disturbed',
           c \notin disturbed => OwnPlace(c)
    PROVE  OwnPlace(c)'
<1>1. pc'[c] = pc[c]
  BY CallStep, Moved
<1>2. c \notin disturbed
  BY <1>1, StayDisturbed
<1>3. ~Busy(c)
  <2>1. CASE Busy(d)
    <3>1. Busy(c) => c \in Overlap(pc)
      BY <2>1, Zenon DEF Overlap, Busy
    <3> QED BY <1>2, <3>1
  <2>2. CASE Begin(d)
    <3>1. pc'[d] \in BusyLabels
      BY <2>2, Moved, PartsBusy DEF Begin
    <3>2. pc'[c] \notin BusyLabels
      BY <3>1, StayDisturbed
    <3> QED BY <1>1, <3>2 DEF Busy
  <2> QED BY <2>1, <2>2, CallStep
<1>4. ~Busy(c)' /\ pc'[c] \notin {"copy", "result"}
  BY <1>1, <1>3, PartsBusy, Zenon DEF Busy, UseLabels
<1>5. pc'[c] = "returned" => OwnBins(c, res[c])
  BY <1>1, <1>2 DEF OwnPlace
<1>6. OwnBins(c, res[c]) => OwnBins(c, res[c])'
  <2>1. num'[c] = num[c] /\ \A i \in 0..MaxBin : (res'[c][i] = c) = (res[c][i] = c)
    BY OthersArray
  <2> QED BY <2>1, Zenon DEF OwnBins
<1> QED BY <1>4, <1>5, <1>6, Zenon DEF OwnPlace

LEMMA BeginOwn ==
    ASSUME FftwTypeOK, NEW c \in Callers, Begin(c) PROVE OwnPlace(c)'
<1>1. pc'[c] = "mode"
  BY Moved DEF Begin
<1>2. ASSUME NEW a \in Addresses, NEW i \in 0..MaxBin PROVE mem'[a][i] # c
  <2>1. mem'[a][i] = IF mem[a][i] = c THEN Stale ELSE mem[a][i]
    BY Zenon DEF Begin, Aged
  <2>2. Stale # c
    BY FftwAssumption
  <2> QED BY <2>1, <2>2
<1> QED BY <1>1, <1>2, Zenon DEF OwnPlace

\* Up to the execution: no step of the call writes a bin of its own.
LEMMA PreparesOwn ==
    ASSUME FftwTypeOK, NEW c \in Callers, OwnPlace(c),
           SetMode(c) \/ CheckSize(c) \/ FreeOut(c) \/ FreeRes(c) \/ SetSize(c) \/ NewOut(c)
               \/ NewRes(c) \/ MakePlan(c)
    PROVE  OwnPlace(c)'
<1>1. pc[c] \in {"check", "plan"} \cup ModeLabels \cup GrowLabels
  BY Zenon DEF SetMode, AskMode, RemoveThreads, Disable, InitThreads, Enable, Initialized,
               CheckSize, FreeOut, FreeRes, SetSize, NewOut, NewRes, MakePlan, Step,
               ModeLabels, GrowLabels
<1>2. Busy(c) /\ pc[c] \notin {"copy", "result"}
  BY <1>1, SMT DEF Busy, BusyLabels, ModeLabels, GrowLabels, UseLabels
<1>3. \A a \in Addresses : \A i \in 0..MaxBin : mem[a][i] # c
  BY <1>2 DEF OwnPlace
<1>4. \A a \in Addresses : \A i \in 0..MaxBin : mem'[a][i] # c
  <2>1. CASE FreeOut(c) \/ FreeRes(c)
    <3>1. PICK p : mem' = IF p = Null THEN mem ELSE [mem EXCEPT ![p] = Nothing]
      BY <2>1 DEF FreeOut, FreeRes, Free
    <3>2. Raw # c
      BY FftwAssumption
    <3>3. \A i \in 0..MaxBin : Nothing[i] # c
      BY <3>2, Zenon DEF Nothing
    <3>4. \A a \in Addresses : mem'[a] = mem[a] \/ mem'[a] = Nothing
      BY <3>1, SMT DEF FftwTypeOK
    <3> QED BY <1>3, <3>3, <3>4, Zenon
  <2>2. CASE ~(FreeOut(c) \/ FreeRes(c))
    <3>1. UNCHANGED mem
      BY <2>2, Zenon DEF SetMode, AskMode, RemoveThreads, Disable, InitThreads, Enable, Initialized,
                         CheckSize, SetSize, NewOut, NewRes, Malloc, MakePlan, buffers
    <3> QED BY <1>3, <3>1
  <2> QED BY <2>1, <2>2
<1>5. \E label : label \notin {"copy", "result", "returned"} /\ Goto(c, label)
  <2>1. CASE AskMode(c) \/ CheckSize(c)
    BY <2>1, SMT DEF AskMode, CheckSize, Step
  <2>2. CASE RemoveThreads(c) \/ InitThreads(c)
    BY <2>2, SMT DEF RemoveThreads, InitThreads
  <2>3. CASE ~(AskMode(c) \/ CheckSize(c) \/ RemoveThreads(c) \/ InitThreads(c))
    BY <2>3, SMT DEF SetMode, Disable, Enable, Initialized, FreeOut, FreeRes, SetSize, NewOut,
                     NewRes, MakePlan, Step
  <2> QED BY <2>1, <2>2, <2>3
<1>6. pc'[c] \notin {"copy", "result", "returned"}
  BY <1>5, Moved
<1> QED BY <1>4, <1>6, SMT DEF OwnPlace

\* The execution, the copy and the array, in buffers that are whole.
LEMMA UseOwn ==
    ASSUME FftwTypeOK, Sound, ~Races(pc), NEW c \in Callers, OwnPlace(c),
           Execute(c) \/ Copy(c) \/ Result(c)
    PROVE  OwnPlace(c)'
<1>1. pc[c] \in UseLabels
  BY Zenon DEF Execute, Copy, Result, Step, UseLabels
<1>2. Whole(num[c]) /\ Holds(out, num[c] \div 2) /\ Holds(out_res, num[c] \div 2)
  BY <1>1, RoomFor
<1>3. out \in Addresses /\ out_res \in Addresses /\ out # out_res
  BY <1>2, SMT DEF Whole, Holds, FftwTypeOK
<1>4. num[c] \in Nat /\ num' = num /\ UNCHANGED <<out, out_res>>
  BY SizesNatural, Zenon DEF Execute, Copy, Result, calls, buffers
<1>5. mem \in [Addresses -> Spectra] /\ Raw # c
  BY FftwAssumption DEF FftwTypeOK
<1>6. CASE Execute(c)
  <2>1. pc[c] = "execute" /\ pc'[c] = "copy"
    BY <1>6, Moved DEF Execute, Step
  <2>2. plan[c].at = out
    BY <2>1 DEF Sound, Place
  <2>3. ~fault'
    BY <1>2, <1>6, <2>2, Zenon DEF Execute, Whole
  <2>4. mem' = [mem EXCEPT ![out] =
                   [i \in 0..MaxBin |-> IF i < Bins(num[c]) THEN c ELSE mem[out][i]]]
    BY <1>6, <2>2, <2>3, Zenon DEF Execute
  <2>5. \A i \in 0..MaxBin : mem'[out][i] = IF i < Bins(num[c]) THEN c ELSE mem[out][i]
    BY <1>3, <1>5, <2>4, Zenon
  <2>6. mem'[out_res] = mem[out_res]
    BY <1>3, <1>5, <2>4, Zenon
  <2>7. Busy(c) /\ pc[c] \notin {"copy", "result"}
    BY <1>1, <2>1, PartsBusy, SMT DEF Busy
  <2>8. \A i \in 0..MaxBin : mem[out_res][i] # c
    BY <1>3, <2>7 DEF OwnPlace
  <2> QED BY <1>4, <2>1, <2>5, <2>6, <2>8, Zenon DEF OwnPlace
<1>7. CASE Copy(c)
  <2>1. pc[c] = "copy" /\ pc'[c] = "result"
    BY <1>7, Moved DEF Copy, Step
  <2>2. mem' = [mem EXCEPT ![out_res] =
            [i \in 0..MaxBin |-> IF i < num[c] \div 2 THEN mem[out][i] ELSE mem[out_res][i]]]
    BY <1>2, <1>7, Zenon DEF Copy
  <2>3. \A i \in 0..MaxBin :
            mem'[out_res][i] = IF i < num[c] \div 2 THEN mem[out][i] ELSE mem[out_res][i]
    BY <1>3, <1>5, <2>2, Zenon
  <2>4. \A i \in 0..MaxBin : /\ i < Bins(num[c]) => mem[out][i] = c
                              /\ mem[out_res][i] # c
    BY <2>1 DEF OwnPlace
  <2>5. OwnBins(c, mem'[out_res])
    <3> SUFFICES ASSUME NEW i \in 0..MaxBin, i < Bins(num[c])
                 PROVE  (mem'[out_res][i] = c) = (i < num[c] \div 2)
      BY DEF OwnBins
    <3>1. (i < num[c] \div 2) \in BOOLEAN
      BY <1>4, SMT
    <3>2. CASE i < num[c] \div 2
      BY <2>3, <2>4, <3>2
    <3>3. CASE ~(i < num[c] \div 2)
      BY <2>3, <2>4, <3>1, <3>3
    <3> QED BY <3>2, <3>3
  <2> QED BY <1>4, <2>1, <2>5, Zenon DEF OwnPlace, OwnBins
<1>8. CASE Result(c)
  <2>1. pc[c] = "result" /\ pc'[c] = "returned"
    BY <1>8, Moved DEF Result, Step
  <2>2. res' = [res EXCEPT ![c] =
                   [i \in 0..MaxBin |-> IF i < Bins(num[c]) THEN mem[out_res][i] ELSE Raw]]
    BY <1>2, <1>8, Zenon DEF Result, Whole
  <2>3. \A i \in 0..MaxBin : res'[c][i] = IF i < Bins(num[c]) THEN mem[out_res][i] ELSE Raw
    BY <2>2, Zenon DEF FftwTypeOK
  <2>4. OwnBins(c, mem[out_res])
    BY <2>1 DEF OwnPlace
  <2>5. OwnBins(c, res'[c])
    <3> SUFFICES ASSUME NEW i \in 0..MaxBin, i < Bins(num[c])
                 PROVE  (res'[c][i] = c) = (i < num[c] \div 2)
      BY DEF OwnBins
    <3>1. res'[c][i] = mem[out_res][i]
      BY <2>3
    <3> QED BY <2>4, <3>1, Zenon DEF OwnBins
  <2>6. ~Busy(c)'
    BY <2>1, PartsBusy DEF Busy
  <2> QED BY <1>4, <2>1, <2>5, <2>6, Zenon DEF OwnPlace, OwnBins
<1> QED BY <1>6, <1>7, <1>8

LEMMA OwnStep == FftwTypeOK /\ BufferInv /\ OwnInv /\ [FftwNext]_fftwVars => OwnInv'
<1> SUFFICES ASSUME FftwTypeOK, BufferInv, OwnInv, [FftwNext]_fftwVars PROVE OwnInv'
  OBVIOUS
<1>1. CASE UNCHANGED fftwVars
  <2>1. /\ pc' = pc /\ mem' = mem /\ out' = out /\ out_res' = out_res /\ num' = num /\ res' = res
        /\ disturbed' = disturbed /\ raced' = raced
    BY <1>1 DEF fftwVars, buffers, calls, past
  <2>2. \A c \in Callers : OwnPlace(c) => OwnPlace(c)'
    BY <2>1, Zenon DEF OwnPlace, OwnBins, Busy
  <2> QED BY <2>1, <2>2, Zenon DEF OwnInv
<1>2. CASE FftwNext
  <2>1. History
    BY <1>2 DEF FftwNext
  <2>2. PICK d \in Callers : Begin(d) \/ SetMode(d) \/ ExecuteFftw(d)
    BY <1>2 DEF FftwNext
  <2>3. Overlap(pc') \subseteq disturbed'
    BY <2>1 DEF History
  <2>4. ASSUME ~raced', NEW c \in Callers, c \notin disturbed' PROVE OwnPlace(c)'
    <3>1. ~raced
      BY <2>1, <2>4 DEF History
    <3>2. Sound /\ ~Races(pc)
      BY <3>1 DEF BufferInv
    <3>3. c \notin disturbed => OwnPlace(c)
      BY <3>1 DEF OwnInv
    <3>4. CASE c # d
      BY <2>1, <2>2, <2>4, <3>3, <3>4, OthersOwn DEF OwnInv
    <3>5. CASE c = d
      <4>1. CASE Begin(c)
        BY <4>1, BeginOwn
      <4>2. CASE ~Begin(c)
        <5>1. OwnPlace(c)
          BY <2>1, <2>2, <2>4, <3>3, <3>5, <4>2, CallStep, StayDisturbed DEF Busy
        <5> QED BY <2>2, <3>2, <3>5, <4>2, <5>1, PreparesOwn, UseOwn DEF ExecuteFftw
      <4> QED BY <4>1, <4>2
    <3> QED BY <3>4, <3>5
  <2> QED BY <2>3, <2>4 DEF OwnInv
<1> QED BY <1>1, <1>2

LEMMA OwnInit == FftwInit => OwnInv
<1> SUFFICES ASSUME FftwInit PROVE OwnInv
  OBVIOUS
<1>1. \A c \in Callers : pc[c] = "idle"
  BY Zenon DEF FftwInit
<1>2. Overlap(pc) = {}
  BY <1>1, PartsBusy, Zenon DEF Overlap
<1>3. \A c \in Callers : OwnPlace(c)
  <2>1. "idle" \notin {"copy", "result", "returned"}
    OBVIOUS
  <2> QED BY <1>1, <2>1, PartsBusy, Zenon DEF OwnPlace, Busy
<1> QED BY <1>2, <1>3 DEF OwnInv

\* OwnSpectrum: whatever other callers did before and do afterwards, and whatever the
\* sizes of their blocks, an execution of FFTW that overlapped no other one returns
\* its own bins and, since the copy ends one short, something else as the last one.
THEOREM OwnSpectrumHolds == FftwSpec => []OwnSpectrum
<1>1. OwnInv => OwnSpectrum
  BY Zenon DEF OwnInv, OwnPlace, OwnBins, OwnSpectrum
<1> QED BY <1>1, FftwTypeInit, FftwTypeStep, BufferInit, BufferStep, OwnInit, OwnStep, PTL
        DEF FftwSpec

=============================================================================

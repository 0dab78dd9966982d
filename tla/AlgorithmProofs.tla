-------------------------- MODULE AlgorithmProofs ---------------------------
(***************************************************************************)
(* Algorithms for every plan, every ceiling, table and block size: what      *)
(* performs is what was launched, and additive synthesis is heard in its     *)
(* first test only.  Each setter is a lemma on what it does to a thread's    *)
(* record, a launch is their composition, and the invariant says what        *)
(* earlier tests have left in the objects.                                   *)
(***************************************************************************)
EXTENDS Algorithms, TLAPS

Objects == [block : Nat, stress : Nat \ {0}, coefficient : Int, level : Int]

Dsps == [blockSize : Nat, algorithm : AlgorithmEnum, stressParameter : Nat, level : Nat,
         object : [AlgorithmEnum -> Objects], fft : Nat, ended : {"no", "thrown", "exited"}]

\* What the three setters of an object leave alone of the thread's own fields.
OwnKept(d, r) ==
    /\ r.blockSize = d.blockSize /\ r.algorithm = d.algorithm
    /\ r.stressParameter = d.stressParameter /\ r.level = d.level

\* setBlockSize() of object alg took d to r.
BlockSet(d, r, alg, block) ==
    /\ r \in Dsps /\ OwnKept(d, r)
    /\ \A a \in AlgorithmEnum : r.object[a].stress = d.object[a].stress
    /\ r.object[alg].block = block
    /\ alg \in AdditiveAlgs => r.object[alg].coefficient = 1 \div d.object[alg].stress
    /\ alg = "FFT_ALGORITHM" => r.fft = block

\* setStressParameter() or setParams() of object alg took d to r.
BlocksKept(d, r) ==
    \A a \in AlgorithmEnum : /\ r.object[a].block = d.object[a].block
                             /\ r.object[a].coefficient = d.object[a].coefficient

StressSet(d, r, alg, param) ==
    /\ r \in Dsps /\ OwnKept(d, r) /\ r.fft = d.fft /\ BlocksKept(d, r)
    /\ \A a \in AlgorithmEnum \ {alg} : r.object[a].stress = d.object[a].stress
    /\ r.object[alg].stress = AtLeastOne(param)

ParamsSet(d, r, alg, level) ==
    /\ r \in Dsps /\ OwnKept(d, r) /\ r.fft = d.fft /\ BlocksKept(d, r)
    /\ \A a \in AlgorithmEnum \ {alg} : r.object[a].stress = d.object[a].stress
    /\ r.object[alg].stress = IF alg \in AdditiveAlgs THEN AtLeastOne(level)
                                                     ELSE d.object[alg].stress

-----------------------------------------------------------------------------
(* The setters *)

LEMMA AtLeastOneType == \A p \in Nat : AtLeastOne(p) \in Nat \ {0}
  BY DEF AtLeastOne

\* 1 / stressParameter as Java computes it.
LEMMA IntReciprocal ==
    \A s \in Nat \ {0} :
        1 \div s \in Int /\ (s = 1 => 1 \div s = 1) /\ (s > 1 => 1 \div s = 0)
  <1> TAKE s \in Nat \ {0}
  <1>1. 1 \div s \in Int
    OBVIOUS
  <1>2. ASSUME s = 1 PROVE 1 \div s = 1
    BY <1>2
  <1>3. ASSUME s > 1 PROVE 1 \div s = 0
    BY <1>3
  <1> QED BY <1>1, <1>2, <1>3

\* What setBlockSize() of an object changes.
LEMMA BlockObject ==
    \A d \in Dsps, alg \in AlgorithmEnum, block \in Nat :
        BlockSet(d, ObjectSetBlockSize(d, alg, block), alg, block)
  <1> TAKE d \in Dsps, alg \in AlgorithmEnum, block \in Nat
  <1> DEFINE r == ObjectSetBlockSize(d, alg, block)
             new == Resized(alg, d.object[alg], block)
             end == EndedBy(d, alg = "FFT_ALGORITHM" /\ block > MaxFft, "exited")
             fft == IF alg = "FFT_ALGORITHM" THEN block ELSE d.fft
  <1>1. d.object[alg] \in Objects
    BY DEF Dsps
  <1>2. 1 \div d.object[alg].stress \in Int
    BY <1>1, IntReciprocal DEF Objects
  <1>3. /\ new \in Objects /\ new.block = block /\ new.stress = d.object[alg].stress
        /\ alg \in AdditiveAlgs => new.coefficient = 1 \div d.object[alg].stress
    BY <1>1, <1>2 DEF Objects, Resized
  <1>5. end \in {"no", "thrown", "exited"} /\ fft \in Nat
    BY DEF EndedBy, Dsps
  <1>4. r = [[[d EXCEPT !.object = [d.object EXCEPT ![alg] = new]]
                EXCEPT !.fft = fft] EXCEPT !.ended = end]
    BY DEF ObjectSetBlockSize, Dsps
  <1>6. fft = block \/ alg # "FFT_ALGORITHM"
    OBVIOUS
  <1> DEFINE o == [d.object EXCEPT ![alg] = new]
  <1> HIDE DEF new, end, fft
  <1>7. /\ o \in [AlgorithmEnum -> Objects] /\ o[alg] = new
        /\ \A a \in AlgorithmEnum : o[a].stress = d.object[a].stress
    BY <1>3 DEF Dsps
  <1> HIDE DEF o
  <1>8. /\ r.object = o /\ r.fft = fft /\ r.ended = end
        /\ r.blockSize = d.blockSize /\ r.algorithm = d.algorithm
        /\ r.stressParameter = d.stressParameter /\ r.level = d.level
    BY <1>4, o = [d.object EXCEPT ![alg] = new] DEF Dsps, o
  <1>9. r = [blockSize |-> d.blockSize, algorithm |-> d.algorithm,
             stressParameter |-> d.stressParameter, level |-> d.level,
             object |-> o, fft |-> fft, ended |-> end]
    BY <1>4 DEF Dsps, o
  <1>10. r \in Dsps
    BY <1>5, <1>7, <1>9 DEF Dsps
  <1> QED BY <1>3, <1>6, <1>7, <1>8, <1>10 DEF BlockSet, OwnKept

\* What setStressParameter() of a stress object changes.
LEMMA StressObject ==
    \A d \in Dsps, alg \in AlgorithmEnum, param \in Nat :
        StressSet(d, ObjectSetStress(d, alg, param), alg, param)
  <1> TAKE d \in Dsps, alg \in AlgorithmEnum, param \in Nat
  <1> DEFINE r == ObjectSetStress(d, alg, param)
             s == AtLeastOne(param)
             end == EndedBy(d, alg \in TableAlgs /\ s > Tables, "thrown")
             o == [d.object EXCEPT ![alg] = [d.object[alg] EXCEPT !.stress = s]]
  <1>1. s \in Nat \ {0}
    BY AtLeastOneType
  <1>2. end \in {"no", "thrown", "exited"}
    BY DEF EndedBy, Dsps
  <1>3. r = [[d EXCEPT !.object = o] EXCEPT !.ended = end]
    BY DEF ObjectSetStress, Dsps
  <1> HIDE DEF s, end
  <1>4. /\ o \in [AlgorithmEnum -> Objects] /\ o[alg].stress = s
        /\ \A a \in AlgorithmEnum :
               /\ o[a].block = d.object[a].block
               /\ o[a].coefficient = d.object[a].coefficient
               /\ a # alg => o[a].stress = d.object[a].stress
    BY <1>1 DEF Dsps, Objects
  <1> HIDE DEF o
  <1>5. r = [blockSize |-> d.blockSize, algorithm |-> d.algorithm,
             stressParameter |-> d.stressParameter, level |-> d.level,
             object |-> o, fft |-> d.fft, ended |-> end]
    BY <1>3 DEF Dsps
  <1>6. r \in Dsps
    BY <1>2, <1>4, <1>5 DEF Dsps
  <1> QED BY <1>4, <1>5, <1>6 DEF s, StressSet, OwnKept, BlocksKept

\* What setParams() of an object changes.
LEMMA ParamsObject ==
    \A d \in Dsps, alg \in AlgorithmEnum, level \in Nat :
        ParamsSet(d, ObjectSetParams(d, alg, level), alg, level)
  <1> TAKE d \in Dsps, alg \in AlgorithmEnum, level \in Nat
  <1> DEFINE r == ObjectSetParams(d, alg, level)
             o == [d.object EXCEPT ![alg] = [d.object[alg] EXCEPT !.level = level]]
             set == [d EXCEPT !.object[alg].level = level]
  <1>1. set = [d EXCEPT !.object = o]
    BY DEF Dsps
  <1>2. /\ o \in [AlgorithmEnum -> Objects]
        /\ \A a \in AlgorithmEnum :
               /\ o[a].block = d.object[a].block
               /\ o[a].coefficient = d.object[a].coefficient
               /\ o[a].stress = d.object[a].stress
    BY DEF Dsps, Objects
  <1>3. r = IF alg \in AdditiveAlgs THEN ObjectSetStress(set, alg, level) ELSE set
    BY DEF ObjectSetParams
  <1> HIDE DEF o, set
  <1>4. set = [blockSize |-> d.blockSize, algorithm |-> d.algorithm,
               stressParameter |-> d.stressParameter, level |-> d.level,
               object |-> o, fft |-> d.fft, ended |-> d.ended]
    BY <1>1 DEF Dsps
  <1>5. set \in Dsps
    BY <1>2, <1>4 DEF Dsps
  <1>6. CASE alg \in AdditiveAlgs
    <2>1. r = ObjectSetStress(set, alg, level)
      BY <1>3, <1>6
    <2>2. StressSet(set, r, alg, level)
      BY <1>5, <2>1, StressObject
    <2>3. \A a \in AlgorithmEnum :
             /\ set.object[a].block = d.object[a].block
             /\ set.object[a].coefficient = d.object[a].coefficient
             /\ set.object[a].stress = d.object[a].stress
      BY <1>2, <1>4
    <2> QED BY <1>4, <1>6, <2>2, <2>3 DEF StressSet, ParamsSet, OwnKept, BlocksKept
  <1>7. CASE alg \notin AdditiveAlgs
    <2>1. r = set
      BY <1>3, <1>7
    <2> QED BY <1>2, <1>4, <1>5, <1>7, <2>1 DEF ParamsSet, OwnKept, BlocksKept
  <1> QED BY <1>6, <1>7

-----------------------------------------------------------------------------
(* The setters of the thread, and a launch *)

\* What configuring for a test or a session leaves: alg is current at that block
\* size, with the coefficient its object's parameter of before gives, and the
\* parameters of the other objects are as they were.
Configured(d, r, alg, block) ==
    /\ r \in Dsps /\ r.algorithm = alg /\ r.blockSize = block
    /\ r.object[alg].block = block
    /\ alg = "FFT_ALGORITHM" => r.fft = block
    /\ alg \in AdditiveAlgs => r.object[alg].coefficient = 1 \div d.object[alg].stress
    /\ \A a \in AlgorithmEnum \ {alg} : r.object[a].stress = d.object[a].stress

\* setAlgorithm() ends in a thread configured at the block size it had; the
\* convolution takes the thread's stress parameter over.
HandedOn(d, r, alg) ==
    /\ r.stressParameter = d.stressParameter
    /\ alg \in StressAlgs \ AdditiveAlgs => r.object[alg].stress = AtLeastOne(d.stressParameter)

LEMMA AlgorithmConfigured ==
    \A d \in Dsps, alg \in AlgorithmEnum :
        /\ Configured(d, SetAlgorithm(d, alg), alg, d.blockSize)
        /\ HandedOn(d, SetAlgorithm(d, alg), alg)
  <1> TAKE d \in Dsps, alg \in AlgorithmEnum
  <1> DEFINE d0 == [d EXCEPT !.algorithm = alg]
             d1 == ObjectSetBlockSize(d0, alg, d.blockSize)
             d2 == StressHandedOn(d1)
             d3 == SetParams(d2, d.level)
             d4 == [d2 EXCEPT !.level = d.level]
  <1>0. d.blockSize \in Nat /\ d.level \in Nat
    BY DEF Dsps
  <1>1. /\ d0 \in Dsps /\ d0.object = d.object /\ d0.blockSize = d.blockSize
        /\ d0.algorithm = alg /\ d0.level = d.level
    BY DEF Dsps
  <1> HIDE DEF d0
  <1>2. BlockSet(d0, d1, alg, d.blockSize)
    BY <1>0, <1>1, BlockObject
  <1>3. d1 \in Dsps /\ d1.algorithm = alg /\ d1.stressParameter \in Nat
    BY <1>1, <1>2 DEF BlockSet, OwnKept, Dsps
  <1>4. SetAlgorithm(d, alg) = d3
    BY DEF SetAlgorithm, d0
  <1> HIDE DEF d1
  <1>5. /\ d2 \in Dsps /\ OwnKept(d1, d2) /\ d2.fft = d1.fft /\ BlocksKept(d1, d2)
        /\ \A a \in AlgorithmEnum \ {alg} : d2.object[a].stress = d1.object[a].stress
        /\ alg \in StressAlgs => d2.object[alg].stress = AtLeastOne(d1.stressParameter)
    <2>1. CASE alg \in StressAlgs
      <3>1. d2 = ObjectSetStress(d1, alg, d1.stressParameter)
        BY <1>3, <2>1 DEF StressHandedOn
      <3>2. StressSet(d1, d2, alg, d1.stressParameter)
        BY <1>3, <3>1, StressObject
      <3> QED BY <3>2 DEF StressSet
    <2>2. CASE alg \notin StressAlgs
      <3>1. d2 = d1
        BY <1>3, <2>2 DEF StressHandedOn
      <3> QED BY <1>3, <2>2, <3>1 DEF OwnKept, BlocksKept
    <2> QED BY <2>1, <2>2
  <1> HIDE DEF d2
  <1>6. d3 = ObjectSetParams(d4, alg, d.level)
    BY <1>3, <1>5 DEF SetParams, OwnKept, Dsps
  <1>7. /\ d4 \in Dsps /\ d4.object = d2.object /\ d4.fft = d2.fft
        /\ d4.blockSize = d2.blockSize /\ d4.algorithm = d2.algorithm
    BY <1>0, <1>5 DEF Dsps
  <1> HIDE DEF d3, d4
  <1>8. ParamsSet(d4, d3, alg, d.level)
    BY <1>0, <1>6, <1>7, ParamsObject
  <1>9. d3 \in Dsps /\ d3.algorithm = alg /\ d3.blockSize = d.blockSize /\ d3.fft = d1.fft
    BY <1>1, <1>2, <1>5, <1>7, <1>8 DEF ParamsSet, OwnKept, BlockSet
  <1>10. /\ d3.object[alg].block = d1.object[alg].block
         /\ d3.object[alg].coefficient = d1.object[alg].coefficient
    BY <1>5, <1>7, <1>8 DEF ParamsSet, BlocksKept
  <1>11. \A a \in AlgorithmEnum \ {alg} : d3.object[a].stress = d.object[a].stress
    BY <1>1, <1>2, <1>5, <1>7, <1>8 DEF ParamsSet, BlockSet
  <1>12. /\ d1.object[alg].block = d.blockSize
         /\ alg = "FFT_ALGORITHM" => d1.fft = d.blockSize
         /\ alg \in AdditiveAlgs => d1.object[alg].coefficient = 1 \div d.object[alg].stress
    BY <1>1, <1>2 DEF BlockSet
  <1>13. d1.stressParameter = d.stressParameter /\ d4.stressParameter = d2.stressParameter
    BY <1>1, <1>2, <1>5 DEF BlockSet, OwnKept, d0, d4, Dsps
  <1>14. HandedOn(d, d3, alg)
    BY <1>5, <1>7, <1>8, <1>13 DEF HandedOn, ParamsSet, OwnKept
  <1> QED BY <1>4, <1>9, <1>10, <1>11, <1>12, <1>14 DEF Configured

\* setBlockSize() of the thread.
LEMMA SizeThread ==
    \A d \in Dsps, block \in Nat :
        /\ SetBlockSize(d, block) \in Dsps /\ SetBlockSize(d, block).blockSize = block
        /\ SetBlockSize(d, block).stressParameter = d.stressParameter
        /\ \A a \in AlgorithmEnum : SetBlockSize(d, block).object[a].stress = d.object[a].stress
  <1> TAKE d \in Dsps, block \in Nat
  <1> DEFINE d0 == [d EXCEPT !.blockSize = block]
             d1 == SetBlockSize(d, block)
  <1>1. /\ d0 \in Dsps /\ d0.object = d.object /\ d0.blockSize = block
        /\ d0.stressParameter = d.stressParameter /\ d.algorithm \in AlgorithmEnum
    BY DEF Dsps
  <1>2. d1 = ObjectSetBlockSize(d0, d.algorithm, block)
    BY DEF SetBlockSize
  <1> HIDE DEF d0, d1
  <1>3. BlockSet(d0, d1, d.algorithm, block)
    BY <1>1, <1>2, BlockObject
  <1> QED BY <1>1, <1>3 DEF BlockSet, OwnKept, d1

\* setBlockSize(), then setAlgorithm().
LEMMA LaunchConfigured ==
    \A d \in Dsps, alg \in AlgorithmEnum, block \in Nat :
        /\ Configured(d, SetAlgorithm(SetBlockSize(d, block), alg), alg, block)
        /\ HandedOn(d, SetAlgorithm(SetBlockSize(d, block), alg), alg)
  <1> TAKE d \in Dsps, alg \in AlgorithmEnum, block \in Nat
  <1> DEFINE d1 == SetBlockSize(d, block)
             d2 == SetAlgorithm(d1, alg)
  <1>1. /\ d1 \in Dsps /\ d1.blockSize = block /\ d1.stressParameter = d.stressParameter
        /\ \A a \in AlgorithmEnum : d1.object[a].stress = d.object[a].stress
    BY SizeThread
  <1> HIDE DEF d1
  <1>2. Configured(d1, d2, alg, block) /\ HandedOn(d1, d2, alg)
    BY <1>1, AlgorithmConfigured
  <1> HIDE DEF d2
  <1>3. Configured(d, d2, alg, block) /\ HandedOn(d, d2, alg)
    BY <1>1, <1>2 DEF Configured, HandedOn
  <1> QED BY <1>3 DEF d1, d2

\* setStressParameter() and setParams() of the thread change a parameter of the
\* current object only.
LEMMA StressConfigured ==
    \A d \in Dsps, c \in Dsps, alg \in AlgorithmEnum, block \in Nat, param \in Nat :
        Configured(d, c, alg, block) =>
            /\ Configured(d, SetStressParameter(c, param), alg, block)
            /\ alg \in StressAlgs =>
                   SetStressParameter(c, param).object[alg].stress = AtLeastOne(param)
  <1> TAKE d \in Dsps, c \in Dsps, alg \in AlgorithmEnum, block \in Nat, param \in Nat
  <1> DEFINE set == [c EXCEPT !.stressParameter = param]
             r == SetStressParameter(c, param)
  <1> HAVE Configured(d, c, alg, block)
  <1>1. /\ set \in Dsps /\ set.object = c.object /\ set.fft = c.fft
        /\ set.algorithm = c.algorithm /\ set.blockSize = c.blockSize
    BY DEF Dsps
  <1>2. c.algorithm = alg
    BY DEF Configured
  <1>3. r = IF alg \in StressAlgs THEN ObjectSetStress(set, alg, param) ELSE set
    BY <1>2 DEF SetStressParameter
  <1> HIDE DEF r, set
  <1>4. Configured(d, set, alg, block)
    BY <1>1 DEF Configured
  <1>5. CASE alg \in StressAlgs
    <2>1. StressSet(set, r, alg, param)
      BY <1>1, <1>3, <1>5, StressObject
    <2>2. Configured(d, r, alg, block)
      BY <1>4, <2>1 DEF Configured, StressSet, OwnKept, BlocksKept
    <2> QED BY <2>1, <2>2 DEF StressSet, r
  <1>6. CASE alg \notin StressAlgs
    BY <1>3, <1>4, <1>6 DEF r
  <1> QED BY <1>5, <1>6

LEMMA ParamsConfigured ==
    \A d \in Dsps, c \in Dsps, alg \in AlgorithmEnum, block \in Nat, level \in Nat :
        Configured(d, c, alg, block) =>
            /\ Configured(d, SetParams(c, level), alg, block)
            /\ SetParams(c, level).object[alg].stress =
                   IF alg \in AdditiveAlgs THEN AtLeastOne(level) ELSE c.object[alg].stress
  <1> TAKE d \in Dsps, c \in Dsps, alg \in AlgorithmEnum, block \in Nat, level \in Nat
  <1> DEFINE set == [c EXCEPT !.level = level]
             r == SetParams(c, level)
  <1> HAVE Configured(d, c, alg, block)
  <1>1. /\ set \in Dsps /\ set.object = c.object /\ set.fft = c.fft
        /\ set.algorithm = c.algorithm /\ set.blockSize = c.blockSize
    BY DEF Dsps
  <1>2. c.algorithm = alg
    BY DEF Configured
  <1>3. r = ObjectSetParams(set, alg, level)
    BY <1>2 DEF SetParams
  <1> HIDE DEF r, set
  <1>4. Configured(d, set, alg, block)
    BY <1>1 DEF Configured
  <1>5. ParamsSet(set, r, alg, level)
    BY <1>1, <1>3, ParamsObject
  <1>6. Configured(d, r, alg, block)
    BY <1>4, <1>5 DEF Configured, ParamsSet, OwnKept, BlocksKept
  <1> QED BY <1>1, <1>5, <1>6 DEF ParamsSet, r

\* A new thread has one oscillator in each object.
LEMMA NewThreadFresh ==
    /\ NewThread \in Dsps /\ NewThread.stressParameter = 0
    /\ \A a \in AdditiveAlgs : NewThread.object[a].stress = 1
  <1> DEFINE c == SetAlgorithm(Made, "LOOPBACK")
  <1>1. Made \in Dsps /\ Made.stressParameter = 0 /\ \A a \in AlgorithmEnum : Made.object[a].stress = 1
    BY AlgorithmsAssumption DEF Made, Dsps, Objects, AlgorithmEnum
  <1>2. Configured(Made, c, "LOOPBACK", Made.blockSize) /\ HandedOn(Made, c, "LOOPBACK")
    BY <1>1, AlgorithmConfigured DEF AlgorithmEnum
  <1> HIDE DEF c
  <1>3. c \in Dsps /\ c.stressParameter = 0 /\ \A a \in AdditiveAlgs : a \in AlgorithmEnum /\ c.object[a].stress = 1
    BY <1>1, <1>2 DEF Configured, HandedOn, AdditiveAlgs, TableAlgs, StressAlgs, AlgorithmEnum
  <1>4. NewThread = SetBlockSize(c, DefaultBlock) /\ DefaultBlock \in Nat
    BY AlgorithmsAssumption DEF NewThread, c
  <1> QED BY <1>3, <1>4, SizeThread

-----------------------------------------------------------------------------
(* The units *)

\* The outer loop of a phase: unit after unit, an algorithm at every block size.
LEMMA Quotient ==
    ASSUME NEW a \in Nat, NEW b \in Nat \ {0}, NEW c \in Nat
    PROVE  /\ a \div b \in Nat
           /\ a < c * b => a \div b < c
           /\ a >= c * b => a \div b >= c
  <1> DEFINE q == a \div b
  <1>1. q \in Nat
    BY SMTT(20)
  <1>2. a = b * q + (a % b) /\ a % b \in 0..(b - 1)
    BY Z3T(20)
  <1> HIDE DEF q
  <1>3. b * q <= a /\ a < b * q + b
    BY <1>1, <1>2
  <1>4. ASSUME a < c * b, q >= c PROVE FALSE
    <2>1. PICK k \in Nat : q = c + k
      BY <1>1, <1>4, q - c \in Nat
    <2>2. b * q = b * c + b * k /\ b * k >= 0
      BY <2>1
    <2> QED BY <1>3, <1>4, <2>2
  <1>5. ASSUME a >= c * b, q < c PROVE FALSE
    <2>1. PICK k \in Nat : c = q + 1 + k
      BY <1>1, <1>5, c - q - 1 \in Nat
    <2>2. c * b = b * q + b + b * k /\ b * k >= 0
      BY <1>1, <2>1
    <2> QED BY <1>1, <1>3, <1>5, <2>2
  <1> QED BY <1>1, <1>4, <1>5 DEF q

LEMMA PhaseOfUnit ==
    ASSUME NEW u \in Nat \ {0}, u <= UnitCount
    PROVE  /\ AlgOf(u) \in AlgorithmEnum /\ BlockOf(u) \in Nat
           /\ InPhase2(u) <=> AlgOf(u) \in StressAlgs
  <1> DEFINE n1 == Len(Phase1)
             n2 == Len(Phase2)
             b == Len(BlockSizes)
             q == (u - 1) \div b
  <1>1. n1 \in Nat /\ n2 \in Nat /\ b \in Nat \ {0}
    BY UnitsAssumption
  <1>2. u - 1 \in Nat /\ u - 1 < (n1 + n2) * b
    BY <1>1 DEF UnitCount
  <1>3. InPhase2(u) <=> u - 1 >= n1 * b
    BY <1>1 DEF InPhase2
  <1>4. /\ q \in Nat /\ q < n1 + n2
        /\ u - 1 < n1 * b => q < n1
        /\ u - 1 >= n1 * b => q >= n1
    BY <1>1, <1>2, Quotient
  <1>5. AlgOf(u) = (Phase1 \o Phase2)[q + 1]
    BY DEF AlgOf
  <1>6. ((u - 1) % b) + 1 \in 1..b
    BY <1>1, <1>2
  <1>7. BlockOf(u) \in Nat
    BY <1>6, UnitsAssumption DEF BlockOf
  <1> HIDE DEF q
  <1>8. CASE q < n1
    <2>1. AlgOf(u) = Phase1[q + 1] /\ q + 1 \in DOMAIN Phase1
      BY <1>1, <1>4, <1>5, <1>8, UnitsAssumption
    <2> QED BY <1>1, <1>2, <1>3, <1>4, <1>7, <1>8, <2>1, AlgorithmsAssumption
  <1>9. CASE q >= n1
    <2>1. AlgOf(u) = Phase2[q + 1 - n1] /\ q + 1 - n1 \in DOMAIN Phase2
      BY <1>1, <1>4, <1>5, <1>9, UnitsAssumption
    <2> QED BY <1>1, <1>2, <1>3, <1>4, <1>7, <1>9, <2>1, AlgorithmsAssumption DEF AlgorithmEnum
  <1> QED BY <1>1, <1>4, <1>8, <1>9

-----------------------------------------------------------------------------
(* The invariant *)

\* A search only tests parameters of two or more.
SearchInv ==
    search \in [m : Nat \ {0}, M : Nat, stressParam : Nat \ {0}, reachedPeak : BOOLEAN]

Launches == [alg : AlgorithmEnum, block : Nat, stress : Nat]

AlgTypeOK ==
    /\ user \in {"tests", "live"} /\ dsp \in Dsps /\ unit \in Nat \ {0} /\ SearchInv
    /\ launched \in {Idle} \cup Launches
    /\ earlier \subseteq AlgorithmEnum
    /\ user = "live" => earlier = {}

\* A thread and what it was launched with agree.
Agrees(d, l) ==
    /\ d.algorithm = l.alg /\ d.blockSize = l.block /\ d.object[l.alg].block = l.block
    /\ l.alg \in StressAlgs => d.object[l.alg].stress = AtLeastOne(l.stress)
    /\ l.alg = "FFT_ALGORITHM" => d.fft = l.block
    /\ l.alg \in AdditiveAlgs =>
           d.object[l.alg].coefficient = IF l.alg \in earlier THEN 0 ELSE 1

Launched == Testing => Agrees(dsp, launched)

\* What earlier tests have left: one oscillator in an object that was never
\* launched, more in one that was.
Left ==
    user = "tests" =>
        /\ \A a \in AdditiveAlgs :
               /\ a \in earlier => dsp.object[a].stress > 1
               /\ a \notin earlier /\ launched.alg # a => dsp.object[a].stress = 1
        /\ Testing /\ launched.alg \in AdditiveAlgs => launched.stress > 1

AlgInv == AlgTypeOK /\ Launched /\ Left

LEMMA AdditiveAreStress == AdditiveAlgs \subseteq StressAlgs /\ StressAlgs \subseteq AlgorithmEnum
  BY DEF StressAlgs, AlgorithmEnum

LEMMA LaunchIsNotIdle == \A l \in Launches : l # Idle
  BY DEF Launches, Idle, AlgorithmEnum, StressAlgs, AdditiveAlgs, TableAlgs

LEMMA AlgInit == Init => AlgInv
  <1> SUFFICES ASSUME Init PROVE AlgInv
    OBVIOUS
  <1> DEFINE c1 == SetBlockSize(NewThread, BlockSizes[1])
             c2 == SetAlgorithm(c1, "LOOPBACK")
             c3 == SetParams(c2, 5)
  <1>1. BlockSizes[1] \in Nat /\ "LOOPBACK" \in AlgorithmEnum /\ "LOOPBACK" \notin AdditiveAlgs
    BY UnitsAssumption DEF AlgorithmEnum, AdditiveAlgs, TableAlgs
  <1>2. NewThread \in Dsps /\ \A a \in AdditiveAlgs : NewThread.object[a].stress = 1
    BY NewThreadFresh
  <1>3. Configured(NewThread, c2, "LOOPBACK", BlockSizes[1])
    BY <1>1, <1>2, LaunchConfigured
  <1> HIDE DEF c2
  <1>4. Configured(NewThread, c3, "LOOPBACK", BlockSizes[1])
    BY <1>1, <1>2, <1>3, ParamsConfigured DEF Configured
  <1>5. SetUp = c3
    BY DEF SetUp, c2
  <1> HIDE DEF c3
  <1>6. SetUp \in Dsps /\ \A a \in AdditiveAlgs : SetUp.object[a].stress = 1
    BY <1>1, <1>2, <1>4, <1>5, AdditiveAreStress DEF Configured
  <1>7. dsp \in Dsps /\ \A a \in AdditiveAlgs : dsp.object[a].stress = 1
    BY <1>2, <1>6 DEF Init
  <1>8. SearchInv
    BY SearchAssumption DEF Init, SearchInv, Fresh
  <1>9. AlgTypeOK
    BY <1>7, <1>8 DEF Init, AlgTypeOK
  <1>10. Launched /\ Left
    BY <1>7 DEF Init, Launched, Left, Testing
  <1> QED BY <1>9, <1>10 DEF AlgInv

\* A launch, whatever its search is.
LEMMA LaunchStep ==
    ASSUME AlgInv, user = "tests", ~Testing,
           NEW alg \in AlgorithmEnum, NEW block \in Nat, NEW stress \in Nat,
           alg \in AdditiveAlgs => stress > 1,
           LaunchTest(alg, block, stress), SearchInv'
    PROVE  AlgInv'
  <1> DEFINE c == SetAlgorithm(SetBlockSize(dsp, block), alg)
             l == Launch(alg, block, stress)
  <1>1. /\ dsp \in Dsps /\ dsp' = SetStressParameter(c, stress) /\ launched' = l
        /\ user' = user /\ unit' = unit /\ earlier' = earlier
    BY DEF AlgInv, AlgTypeOK, LaunchTest
  <1>2. Configured(dsp, c, alg, block)
    BY <1>1, LaunchConfigured
  <1>3. c \in Dsps
    BY <1>2 DEF Configured
  <1> HIDE DEF c
  <1>4. /\ Configured(dsp, dsp', alg, block)
        /\ alg \in StressAlgs => dsp'.object[alg].stress = AtLeastOne(stress)
    BY <1>1, <1>2, <1>3, StressConfigured
  <1>5. l \in Launches /\ l.alg = alg /\ l.block = block /\ l.stress = stress
    BY DEF Launch, Launches
  <1> HIDE DEF l
  <1>6. AlgTypeOK'
    BY <1>1, <1>4, <1>5 DEF AlgInv, AlgTypeOK, Configured
  <1>7. ASSUME alg \in AdditiveAlgs
        PROVE  dsp'.object[alg].coefficient = IF alg \in earlier THEN 0 ELSE 1
    <2>1. launched.alg # alg
      BY <1>7 DEF Testing, Idle, AdditiveAlgs, TableAlgs
    <2>2. /\ alg \in earlier => dsp.object[alg].stress > 1
          /\ alg \notin earlier => dsp.object[alg].stress = 1
      BY <1>7, <2>1 DEF AlgInv, Left
    <2>3. dsp.object[alg].stress \in Nat \ {0}
      BY <1>1 DEF Dsps, Objects
    <2>4. dsp'.object[alg].coefficient = 1 \div dsp.object[alg].stress
      BY <1>4, <1>7 DEF Configured
    <2> QED BY <2>2, <2>3, <2>4, IntReciprocal
  <1>8. Launched'
    BY <1>1, <1>4, <1>5, <1>7 DEF Launched, Agrees, Configured
  <1>9. ASSUME NEW a \in AdditiveAlgs
        PROVE  /\ a \in earlier => dsp'.object[a].stress > 1
               /\ a \notin earlier /\ alg # a => dsp'.object[a].stress = 1
    <2>1. CASE a = alg
      BY <1>4, <2>1, AdditiveAreStress DEF AtLeastOne
    <2>2. CASE a # alg
      <3>1. dsp'.object[a].stress = dsp.object[a].stress
        BY <1>4, <2>2, AdditiveAreStress DEF Configured
      <3>2. launched.alg # a
        BY DEF Testing, Idle, AdditiveAlgs, TableAlgs
      <3> QED BY <3>1, <3>2 DEF AlgInv, Left
    <2> QED BY <2>1, <2>2
  <1>10. Left'
    BY <1>1, <1>5, <1>9 DEF Left
  <1> QED BY <1>6, <1>8, <1>10 DEF AlgInv

LEMMA ProbedIsMore ==
    ASSUME SearchInv, Searching(search)
    PROVE  /\ Probed(search) \in [m : Nat \ {0}, M : Nat, stressParam : Nat \ {0}, reachedPeak : BOOLEAN]
           /\ Probed(search).stressParam > 1
  <1> DEFINE m == search.m
             half == (search.M - m) \div 2
  <1>1. m \in Nat \ {0} /\ search.M \in Nat /\ search.M - m > 1
    BY DEF SearchInv, Searching
  <1>2. half \in Nat /\ half >= 1
    BY <1>1
  <1>3. search.stressParam \in Nat \ {0}
    BY DEF SearchInv
  <1> HIDE DEF half
  <1>4. NextParam(search) \in Nat /\ NextParam(search) > 1
    BY <1>1, <1>2, <1>3 DEF NextParam, half
  <1> QED BY <1>4 DEF Probed, SearchInv

LEMMA Phase1Step == AlgInv /\ LaunchPhase1 => AlgInv'
  <1> SUFFICES ASSUME AlgInv, LaunchPhase1 PROVE AlgInv'
    OBVIOUS
  <1>1. /\ user = "tests" /\ ~Testing /\ LaunchTest(AlgOf(unit), BlockOf(unit), 0)
        /\ unit \in Nat \ {0} /\ unit <= UnitCount /\ ~InPhase2(unit) /\ search' = search
    BY DEF LaunchPhase1, AlgInv, AlgTypeOK
  <1>2. /\ AlgOf(unit) \in AlgorithmEnum /\ BlockOf(unit) \in Nat
        /\ AlgOf(unit) \notin AdditiveAlgs
    BY <1>1, PhaseOfUnit, AdditiveAreStress
  <1>3. SearchInv'
    BY <1>1 DEF AlgInv, AlgTypeOK, SearchInv
  <1> QED BY <1>1, <1>2, <1>3, LaunchStep

LEMMA Phase2Step == AlgInv /\ LaunchPhase2 => AlgInv'
  <1> SUFFICES ASSUME AlgInv, LaunchPhase2 PROVE AlgInv'
    OBVIOUS
  <1> DEFINE param == Probed(search).stressParam
  <1>1. /\ user = "tests" /\ ~Testing /\ unit \in Nat \ {0} /\ unit <= UnitCount
        /\ Searching(search) /\ SearchInv /\ search' = Probed(search)
        /\ LaunchTest(AlgOf(unit), BlockOf(unit), param)
    BY DEF LaunchPhase2, AlgInv, AlgTypeOK
  <1>2. AlgOf(unit) \in AlgorithmEnum /\ BlockOf(unit) \in Nat
    BY <1>1, PhaseOfUnit
  <1>3. param \in Nat /\ param > 1 /\ SearchInv'
    BY <1>1, ProbedIsMore DEF SearchInv
  <1> QED BY <1>1, <1>2, <1>3, LaunchStep

LEMMA EndStep == AlgInv /\ EndTest => AlgInv'
  <1> SUFFICES ASSUME AlgInv, EndTest PROVE AlgInv'
    OBVIOUS
  <1>1. /\ user = "tests" /\ Testing /\ user' = user /\ dsp' = dsp /\ launched' = Idle
        /\ earlier' = earlier \cup {launched.alg}
    BY DEF EndTest
  <1>2. launched \in Launches /\ launched.alg \in AlgorithmEnum /\ launched.stress \in Nat
    BY <1>1 DEF AlgInv, AlgTypeOK, Testing, Launches
  <1>3. unit' \in Nat \ {0} /\ SearchInv'
    <2>1. unit \in Nat \ {0} /\ SearchInv
      BY DEF AlgInv, AlgTypeOK
    <2>2. CASE InPhase2(unit)
      <3>1. PICK feasible \in BOOLEAN : search' = Judged(search, feasible) /\ unit' = unit
        BY <2>2 DEF EndTest
      <3> QED BY <2>1, <3>1 DEF SearchInv, Judged
    <2>3. CASE ~InPhase2(unit)
      <3>1. unit' = unit + 1 /\ search' = search
        BY <2>3 DEF EndTest
      <3> QED BY <2>1, <3>1 DEF SearchInv
    <2> QED BY <2>2, <2>3
  <1>4. AlgTypeOK'
    BY <1>1, <1>2, <1>3 DEF AlgInv, AlgTypeOK
  <1>5. ~Testing'
    BY <1>1 DEF Testing
  <1>6. ASSUME NEW a \in AdditiveAlgs
        PROVE  /\ a \in earlier' => dsp.object[a].stress > 1
               /\ a \notin earlier' => dsp.object[a].stress = 1
    <2>1. CASE a = launched.alg
      <3>1. launched.stress > 1 /\ dsp.object[a].stress = AtLeastOne(launched.stress)
        BY <1>1, <2>1, AdditiveAreStress DEF AlgInv, Left, Launched, Agrees
      <3> QED BY <1>1, <1>2, <2>1, <3>1 DEF AtLeastOne
    <2>2. CASE a # launched.alg
      BY <1>1, <2>2 DEF AlgInv, Left
    <2> QED BY <2>1, <2>2
  <1>7. Launched' /\ Left'
    BY <1>1, <1>5, <1>6 DEF Launched, Left
  <1> QED BY <1>4, <1>7 DEF AlgInv

LEMMA UnitStep == AlgInv /\ NextUnit => AlgInv'
  <1> SUFFICES ASSUME AlgInv, NextUnit PROVE AlgInv'
    OBVIOUS
  <1>1. /\ user' = user /\ dsp' = dsp /\ launched' = launched /\ earlier' = earlier
        /\ unit' \in Nat \ {0}
    BY DEF NextUnit, AlgInv, AlgTypeOK
  <1>2. SearchInv'
    BY SearchAssumption DEF NextUnit, SearchInv, Fresh
  <1>3. AlgTypeOK'
    BY <1>1, <1>2 DEF AlgInv, AlgTypeOK
  <1> QED BY <1>1, <1>3 DEF AlgInv, Launched, Left, Testing, Agrees

LEMMA ToggleStep == AlgInv /\ ToggleOn => AlgInv'
  <1> SUFFICES ASSUME AlgInv, ToggleOn PROVE AlgInv'
    OBVIOUS
  <1>1. PICK alg \in AlgorithmEnum, block \in LiveBlocks, level \in Levels :
            /\ dsp' = SetParams(SetAlgorithm(SetBlockSize(NewThread, block), alg), level)
            /\ launched' = Launch(alg, block, IF alg \in AdditiveAlgs THEN level ELSE 0)
    BY DEF ToggleOn
  <1>2. user = "live" /\ user' = user /\ unit' = unit /\ search' = search /\ earlier' = earlier
    BY DEF ToggleOn
  <1> DEFINE c == SetAlgorithm(SetBlockSize(NewThread, block), alg)
             stress == IF alg \in AdditiveAlgs THEN level ELSE 0
  <1>3. block \in Nat /\ level \in Nat /\ stress \in Nat
    BY AlgorithmsAssumption DEF Levels
  <1>4. Configured(NewThread, c, alg, block) /\ HandedOn(NewThread, c, alg)
    BY <1>3, NewThreadFresh, LaunchConfigured
  <1>5. dsp' = SetParams(c, level)
    BY <1>1
  <1> HIDE DEF c
  <1>6. c \in Dsps
    BY <1>4 DEF Configured
  <1>7. /\ Configured(NewThread, dsp', alg, block)
        /\ dsp'.object[alg].stress =
               IF alg \in AdditiveAlgs THEN AtLeastOne(level) ELSE c.object[alg].stress
    BY <1>3, <1>4, <1>5, <1>6, NewThreadFresh, ParamsConfigured
  <1>8. alg \in StressAlgs => dsp'.object[alg].stress = AtLeastOne(stress)
    BY <1>4, <1>7, NewThreadFresh DEF HandedOn
  <1>9. alg \in AdditiveAlgs => dsp'.object[alg].coefficient = 1
    BY <1>7, NewThreadFresh, IntReciprocal DEF Configured
  <1>10. /\ launched' \in Launches /\ launched'.alg = alg /\ launched'.block = block
         /\ launched'.stress = stress
    BY <1>1, <1>3 DEF Launch, Launches
  <1> HIDE DEF stress
  <1>11. AlgTypeOK'
    BY <1>2, <1>7, <1>10 DEF AlgInv, AlgTypeOK, SearchInv, Configured
  <1>12. earlier' = {}
    BY <1>2 DEF AlgInv, AlgTypeOK
  <1>13. Launched'
    BY <1>7, <1>8, <1>9, <1>10, <1>12 DEF Launched, Agrees, Configured
  <1>14. Left'
    BY <1>2 DEF Left
  <1> QED BY <1>11, <1>13, <1>14 DEF AlgInv

LEMMA SlideStep == AlgInv /\ Slide => AlgInv'
  <1> SUFFICES ASSUME AlgInv, Slide PROVE AlgInv'
    OBVIOUS
  <1> DEFINE alg == launched.alg
  <1>1. PICK level \in Levels :
            /\ dsp' = SetParams(dsp, level)
            /\ launched' = IF alg \in AdditiveAlgs
                           THEN [launched EXCEPT !.stress = level] ELSE launched
    BY DEF Slide
  <1>2. /\ user = "live" /\ user' = user /\ unit' = unit /\ search' = search
        /\ earlier' = earlier /\ earlier = {} /\ launched \in Launches
        /\ dsp \in Dsps /\ Agrees(dsp, launched)
    BY DEF Slide, AlgInv, AlgTypeOK, Launched, Testing
  <1> DEFINE set == [dsp EXCEPT !.level = level]
  <1>3. /\ set \in Dsps /\ set.object = dsp.object /\ set.fft = dsp.fft /\ level \in Nat
        /\ set.algorithm = dsp.algorithm /\ set.blockSize = dsp.blockSize
    BY <1>2 DEF Dsps, Levels
  <1>4. dsp' = ObjectSetParams(set, alg, level)
    BY <1>1, <1>2 DEF SetParams, Agrees
  <1> HIDE DEF set
  <1>5. ParamsSet(set, dsp', alg, level)
    BY <1>2, <1>3, <1>4, ParamsObject DEF Launches
  <1>6. /\ launched' \in Launches /\ launched'.alg = alg /\ launched'.block = launched.block
        /\ launched'.stress = IF alg \in AdditiveAlgs THEN level ELSE launched.stress
    BY <1>1, <1>2, <1>3 DEF Launches
  <1>7. AlgTypeOK'
    BY <1>2, <1>5, <1>6 DEF AlgInv, AlgTypeOK, SearchInv, ParamsSet
  <1>8. alg \in StressAlgs => dsp'.object[alg].stress = AtLeastOne(launched'.stress)
    BY <1>2, <1>3, <1>5, <1>6 DEF ParamsSet, Agrees
  <1>9. Launched'
    BY <1>2, <1>3, <1>5, <1>6, <1>8 DEF Launched, Agrees, ParamsSet, OwnKept, BlocksKept, Launches
  <1>10. Left'
    BY <1>2 DEF Left
  <1> QED BY <1>7, <1>9, <1>10 DEF AlgInv

-----------------------------------------------------------------------------
(* The theorems *)

LEMMA AlgInvariant == Spec => []AlgInv
  <1>1. AlgInv /\ UNCHANGED algVars => AlgInv'
    BY DEF algVars, AlgInv, AlgTypeOK, SearchInv, Launched, Agrees, Testing, Left
  <1>2. AlgInv /\ [Next]_algVars => AlgInv'
    BY <1>1, Phase1Step, Phase2Step, EndStep, UnitStep, ToggleStep, SlideStep DEF Next
  <1> QED BY <1>2, AlgInit, PTL DEF Spec

\* What performs is what was launched, through every plan, search and slide.
THEOREM PerformsAsLaunchedHolds == Spec => []PerformsAsLaunched
  <1>1. AlgInv => PerformsAsLaunched
    BY DEF AlgInv, Launched, Agrees, PerformsAsLaunched, Current
  <1> QED BY <1>1, AlgInvariant, PTL

\* Additive synthesis is heard in its first test on a thread only, whatever the
\* searches find.
THEOREM HeardOnceHolds == Spec => []HeardOnce
  <1>1. AlgInv => HeardOnce
    BY DEF AlgInv, Launched, Agrees, HeardOnce, Current
  <1> QED BY <1>1, AlgInvariant, PTL

-----------------------------------------------------------------------------
(* Where configuring fails *)

\* From d to r the thread ends by an exception only if T, by an exit only if X.
EndsOnly(d, r, T, X) ==
    /\ r.ended = "thrown" => d.ended = "thrown" \/ T
    /\ r.ended = "exited" => d.ended = "exited" \/ X

TooMany(alg, param) == alg \in TableAlgs /\ AtLeastOne(param) > Tables
TooLarge(alg, block) == alg = "FFT_ALGORITHM" /\ block > MaxFft

LEMMA EndsObject ==
    \A d \in Dsps, alg \in AlgorithmEnum, p \in Nat :
        /\ EndsOnly(d, ObjectSetBlockSize(d, alg, p), FALSE, TooLarge(alg, p))
        /\ EndsOnly(d, ObjectSetStress(d, alg, p), TooMany(alg, p), FALSE)
        /\ EndsOnly(d, ObjectSetParams(d, alg, p), TooMany(alg, p), FALSE)
  <1> TAKE d \in Dsps, alg \in AlgorithmEnum, p \in Nat
  <1>1. EndsOnly(d, ObjectSetBlockSize(d, alg, p), FALSE, TooLarge(alg, p))
    <2>1. ObjectSetBlockSize(d, alg, p).ended = EndedBy(d, TooLarge(alg, p), "exited")
      BY DEF ObjectSetBlockSize, Dsps, TooLarge
    <2> QED BY <2>1 DEF EndsOnly, EndedBy
  <1>2. \A e \in Dsps : EndsOnly(e, ObjectSetStress(e, alg, p), TooMany(alg, p), FALSE)
    <2> TAKE e \in Dsps
    <2>1. ObjectSetStress(e, alg, p).ended = EndedBy(e, TooMany(alg, p), "thrown")
      BY DEF ObjectSetStress, Dsps, TooMany
    <2> QED BY <2>1 DEF EndsOnly, EndedBy
  <1>3. EndsOnly(d, ObjectSetParams(d, alg, p), TooMany(alg, p), FALSE)
    <2> DEFINE set == [d EXCEPT !.object[alg].level = p]
    <2>1. ObjectSetParams(d, alg, p) =
              IF alg \in AdditiveAlgs THEN ObjectSetStress(set, alg, p) ELSE set
      BY DEF ObjectSetParams
    <2>2. set \in [blockSize : Nat, algorithm : AlgorithmEnum, stressParameter : Nat,
                   level : Nat, object : [AlgorithmEnum -> Objects], fft : Nat,
                   ended : {"no", "thrown", "exited"}] /\ set.ended = d.ended
      <3> DEFINE o == [d.object EXCEPT ![alg] = [d.object[alg] EXCEPT !.level = p]]
      <3>1. set = [d EXCEPT !.object = o]
        BY DEF Dsps
      <3>2. o \in [AlgorithmEnum -> Objects]
        BY DEF Dsps, Objects
      <3> HIDE DEF o, set
      <3> QED BY <3>1, <3>2 DEF Dsps
    <2> HIDE DEF set
    <2>3. EndsOnly(set, ObjectSetStress(set, alg, p), TooMany(alg, p), FALSE)
      BY <1>2, <2>2 DEF Dsps
    <2> QED BY <2>1, <2>2, <2>3 DEF EndsOnly
  <1> QED BY <1>1, <1>2, <1>3

LEMMA EndsThread ==
    \A d \in Dsps, p \in Nat :
        /\ EndsOnly(d, SetBlockSize(d, p), FALSE, TooLarge(d.algorithm, p))
        /\ EndsOnly(d, SetParams(d, p), TooMany(d.algorithm, p), FALSE)
        /\ EndsOnly(d, SetStressParameter(d, p), TooMany(d.algorithm, p), FALSE)
        /\ SetBlockSize(d, p).level = d.level
        /\ SetParams(d, p).level = p /\ SetParams(d, p).stressParameter = d.stressParameter
        /\ SetStressParameter(d, p).level = d.level /\ SetStressParameter(d, p).stressParameter = p
  <1> TAKE d \in Dsps, p \in Nat
  <1> DEFINE a == d.algorithm
             d1 == [d EXCEPT !.blockSize = p]
             d2 == [d EXCEPT !.level = p]
             d3 == [d EXCEPT !.stressParameter = p]
  <1>1. a \in AlgorithmEnum /\ d1 \in Dsps /\ d2 \in Dsps /\ d3 \in Dsps
    BY DEF Dsps
  <1>2. /\ d1.ended = d.ended /\ d2.ended = d.ended /\ d3.ended = d.ended
        /\ d2.algorithm = a /\ d3.algorithm = a
        /\ d1.level = d.level /\ d3.level = d.level /\ d2.level = p
        /\ d2.stressParameter = d.stressParameter /\ d3.stressParameter = p
    BY DEF Dsps
  <1>3. /\ SetBlockSize(d, p) = ObjectSetBlockSize(d1, a, p)
        /\ SetParams(d, p) = ObjectSetParams(d2, a, p)
        /\ SetStressParameter(d, p) = IF a \in StressAlgs THEN ObjectSetStress(d3, a, p) ELSE d3
    BY DEF SetBlockSize, SetParams, SetStressParameter
  <1> HIDE DEF d1, d2, d3
  <1>4. EndsOnly(d, SetBlockSize(d, p), FALSE, TooLarge(a, p)) /\ SetBlockSize(d, p).level = d.level
    <2>1. /\ EndsOnly(d1, ObjectSetBlockSize(d1, a, p), FALSE, TooLarge(a, p))
          /\ BlockSet(d1, ObjectSetBlockSize(d1, a, p), a, p)
      BY <1>1, EndsObject, BlockObject
    <2> QED BY <1>2, <1>3, <2>1 DEF EndsOnly, BlockSet, OwnKept
  <1>5. /\ EndsOnly(d, SetParams(d, p), TooMany(a, p), FALSE)
        /\ SetParams(d, p).level = p /\ SetParams(d, p).stressParameter = d.stressParameter
    <2>1. /\ EndsOnly(d2, ObjectSetParams(d2, a, p), TooMany(a, p), FALSE)
          /\ ParamsSet(d2, ObjectSetParams(d2, a, p), a, p)
      BY <1>1, EndsObject, ParamsObject
    <2> QED BY <1>2, <1>3, <2>1 DEF EndsOnly, ParamsSet, OwnKept
  <1>6. /\ EndsOnly(d, SetStressParameter(d, p), TooMany(a, p), FALSE)
        /\ SetStressParameter(d, p).level = d.level /\ SetStressParameter(d, p).stressParameter = p
    <2>1. /\ EndsOnly(d3, ObjectSetStress(d3, a, p), TooMany(a, p), FALSE)
          /\ StressSet(d3, ObjectSetStress(d3, a, p), a, p)
      BY <1>1, EndsObject, StressObject
    <2> QED BY <1>2, <1>3, <2>1 DEF EndsOnly, StressSet, OwnKept
  <1> QED BY <1>4, <1>5, <1>6

\* setAlgorithm() fails by the parameter and the slider value of the test before.
LEMMA EndsAlgorithm ==
    \A d \in Dsps, alg \in AlgorithmEnum :
        /\ EndsOnly(d, SetAlgorithm(d, alg),
                    TooMany(alg, d.stressParameter) \/ TooMany(alg, d.level),
                    TooLarge(alg, d.blockSize))
        /\ SetAlgorithm(d, alg).level = d.level
  <1> TAKE d \in Dsps, alg \in AlgorithmEnum
  <1> DEFINE d0 == [d EXCEPT !.algorithm = alg]
             d1 == ObjectSetBlockSize(d0, alg, d.blockSize)
             d2 == StressHandedOn(d1)
             d3 == SetParams(d2, d.level)
  <1>0. d.blockSize \in Nat /\ d.level \in Nat /\ d.stressParameter \in Nat
    BY DEF Dsps
  <1>1. /\ d0 \in Dsps /\ d0.algorithm = alg /\ d0.ended = d.ended
        /\ d0.stressParameter = d.stressParameter
    BY DEF Dsps
  <1> HIDE DEF d0
  <1>2. BlockSet(d0, d1, alg, d.blockSize) /\ EndsOnly(d0, d1, FALSE, TooLarge(alg, d.blockSize))
    BY <1>0, <1>1, BlockObject, EndsObject
  <1>3. d1 \in Dsps /\ d1.algorithm = alg /\ d1.stressParameter = d.stressParameter
    BY <1>1, <1>2 DEF BlockSet, OwnKept
  <1>4. SetAlgorithm(d, alg) = d3
    BY DEF SetAlgorithm, d0
  <1> HIDE DEF d1
  <1>5. /\ d2 \in Dsps /\ d2.algorithm = alg
        /\ EndsOnly(d1, d2, TooMany(alg, d.stressParameter), FALSE)
    <2>1. CASE alg \in StressAlgs
      <3>1. d2 = ObjectSetStress(d1, alg, d.stressParameter)
        BY <1>3, <2>1 DEF StressHandedOn
      <3>2. /\ StressSet(d1, d2, alg, d.stressParameter)
            /\ EndsOnly(d1, d2, TooMany(alg, d.stressParameter), FALSE)
        BY <1>0, <1>3, <3>1, StressObject, EndsObject
      <3> QED BY <1>3, <3>2 DEF StressSet, OwnKept
    <2>2. CASE alg \notin StressAlgs
      <3>1. d2 = d1
        BY <1>3, <2>2 DEF StressHandedOn
      <3> QED BY <1>3, <3>1 DEF EndsOnly
    <2> QED BY <2>1, <2>2
  <1> HIDE DEF d2
  <1>6. EndsOnly(d2, d3, TooMany(alg, d.level), FALSE) /\ d3.level = d.level
    BY <1>0, <1>5, EndsThread
  <1> HIDE DEF d3
  <1> QED BY <1>1, <1>2, <1>4, <1>5, <1>6 DEF EndsOnly

\* setBlockSize(), then setAlgorithm().
LEMMA EndsConfiguring ==
    \A d \in Dsps, alg \in AlgorithmEnum, block \in Nat :
        LET r == SetAlgorithm(SetBlockSize(d, block), alg)
        IN  /\ EndsOnly(d, r, TooMany(alg, d.stressParameter) \/ TooMany(alg, d.level),
                        TooLarge(d.algorithm, block) \/ TooLarge(alg, block))
            /\ r.level = d.level
  <1> TAKE d \in Dsps, alg \in AlgorithmEnum, block \in Nat
  <1> DEFINE d1 == SetBlockSize(d, block)
             r == SetAlgorithm(d1, alg)
  <1>1. /\ d1 \in Dsps /\ d1.blockSize = block /\ d1.stressParameter = d.stressParameter
        /\ d1.level = d.level /\ EndsOnly(d, d1, FALSE, TooLarge(d.algorithm, block))
    BY SizeThread, EndsThread
  <1> HIDE DEF d1
  <1>2. /\ EndsOnly(d1, r, TooMany(alg, d.stressParameter) \/ TooMany(alg, d.level),
                    TooLarge(alg, block))
        /\ r.level = d.level
    BY <1>1, EndsAlgorithm
  <1> HIDE DEF r
  <1>3. /\ EndsOnly(d, r, TooMany(alg, d.stressParameter) \/ TooMany(alg, d.level),
                    TooLarge(d.algorithm, block) \/ TooLarge(alg, block))
        /\ r.level = d.level
    BY <1>1, <1>2 DEF EndsOnly
  <1> QED BY <1>3 DEF r, d1

\* What the slider asks for is in the tables.
LEMMA LevelsFit == \A alg, level : level \in 0..10 => ~TooMany(alg, level)
  BY AlgorithmsAssumption DEF TooMany, AtLeastOne

LEMMA NewThreadRuns == NewThread.ended = "no" /\ NewThread.level = 0
  <1> DEFINE c == SetAlgorithm(Made, "LOOPBACK")
  <1>1. Made \in Dsps /\ Made.ended = "no" /\ Made.level = 0 /\ "LOOPBACK" \in AlgorithmEnum
    BY AlgorithmsAssumption DEF Made, Dsps, Objects, AlgorithmEnum
  <1>2. /\ Configured(Made, c, "LOOPBACK", Made.blockSize) /\ c.level = Made.level
        /\ EndsOnly(Made, c, TooMany("LOOPBACK", Made.stressParameter) \/ TooMany("LOOPBACK", Made.level),
                    TooLarge("LOOPBACK", Made.blockSize))
    BY <1>1, AlgorithmConfigured, EndsAlgorithm
  <1>3. \A p : ~TooMany("LOOPBACK", p) /\ ~TooLarge("LOOPBACK", p)
    BY DEF TooMany, TooLarge, TableAlgs
  <1> HIDE DEF c
  <1>4. c \in Dsps /\ c.ended = "no" /\ c.level = 0 /\ c.algorithm = "LOOPBACK"
    <2>1. c \in Dsps /\ c.level = 0 /\ c.algorithm = "LOOPBACK" /\ c.ended \notin {"thrown", "exited"}
      BY <1>1, <1>2, <1>3 DEF Configured, EndsOnly
    <2> QED BY <2>1 DEF Dsps
  <1>5. NewThread = SetBlockSize(c, DefaultBlock) /\ DefaultBlock \in Nat
    BY AlgorithmsAssumption DEF NewThread, c
  <1>6. NewThread.level = 0 /\ NewThread.ended \notin {"thrown", "exited"} /\ NewThread \in Dsps
    BY <1>3, <1>4, <1>5, EndsThread, NewThreadFresh DEF EndsOnly
  <1> QED BY <1>6 DEF Dsps

\* The quotient of the next number is the same or the next one.
LEMMA QuotientNext ==
    ASSUME NEW a \in Nat, NEW b \in Nat \ {0}
    PROVE  (a + 1) \div b = a \div b \/ (a + 1) \div b = (a \div b) + 1
  <1> DEFINE q == a \div b
             r == (a + 1) \div b
  <1>1. q \in Nat /\ r \in Nat /\ a + 1 \in Nat
    BY Quotient
  <1>2. a = b * q + (a % b) /\ a % b \in 0..(b - 1)
    BY Z3T(20)
  <1>3. a + 1 = b * r + ((a + 1) % b) /\ (a + 1) % b \in 0..(b - 1)
    BY <1>1, Z3T(20)
  <1> HIDE DEF q, r
  <1>4. b * q <= a /\ a < b * q + b /\ b * r <= a + 1 /\ a + 1 < b * r + b
    BY <1>1, <1>2, <1>3
  <1>5. ASSUME r < q PROVE FALSE
    <2>1. PICK k \in Nat : q = r + 1 + k
      BY <1>1, <1>5, q - r - 1 \in Nat
    <2>2. b * q = b * r + b + b * k /\ b * k >= 0
      BY <1>1, <2>1
    <2> QED BY <1>1, <1>4, <2>2
  <1>6. ASSUME r > q + 1 PROVE FALSE
    <2>1. PICK k \in Nat : r = q + 2 + k
      BY <1>1, <1>6, r - q - 2 \in Nat
    <2>2. b * r = b * q + b + b + b * k /\ b * k >= 0
      BY <1>1, <2>1
    <2> QED BY <1>1, <1>4, <2>2
  <1>7. r = q \/ r = q + 1
    BY <1>1, <1>5, <1>6
  <1> QED BY <1>7 DEF q, r

\* One unit further is the same algorithm or the next one.
LEMMA NextAlg ==
    ASSUME NEW u \in Nat \ {0}, u + 1 <= UnitCount, InPhase2(u), AlgOf(u + 1) \in TableAlgs
    PROVE  AlgOf(u) \in AdditiveAlgs
  <1> DEFINE n1 == Len(Phase1)
             n2 == Len(Phase2)
             b == Len(BlockSizes)
             q == (u - 1) \div b
             r == u \div b
  <1>1. n1 \in Nat /\ n2 \in Nat /\ b \in Nat \ {0}
    BY UnitsAssumption
  <1>2. u - 1 \in Nat /\ u \in Nat /\ u < (n1 + n2) * b /\ u - 1 >= n1 * b
    BY <1>1 DEF UnitCount, InPhase2
  <1>3. q \in Nat /\ q >= n1
    BY <1>1, <1>2, Quotient
  <1>4. r \in Nat /\ r < n1 + n2
    <2>1. n1 + n2 \in Nat
      BY <1>1
    <2> QED BY <1>1, <1>2, <2>1, Quotient
  <1>5. r = q \/ r = q + 1
    <2>1. (u - 1) + 1 = u
      OBVIOUS
    <2> QED BY <1>1, <1>2, <2>1, QuotientNext
  <1> HIDE DEF q, r
  <1>6. AlgOf(u) = (Phase1 \o Phase2)[q + 1] /\ AlgOf(u + 1) = (Phase1 \o Phase2)[r + 1]
    <2>1. (u + 1) - 1 = u
      OBVIOUS
    <2> QED BY <2>1 DEF AlgOf, q, r
  <1>7. AlgOf(u) = Phase2[q + 1 - n1]
    BY <1>1, <1>3, <1>4, <1>5, <1>6, UnitsAssumption
  <1>8. AlgOf(u + 1) = Phase2[r + 1 - n1] /\ r + 1 - n1 \in DOMAIN Phase2
    BY <1>1, <1>3, <1>4, <1>5, <1>6, UnitsAssumption
  <1>9. CASE r = q
    BY <1>7, <1>8, <1>9 DEF AdditiveAlgs
  <1>10. CASE r = q + 1
    <2>1. r + 1 - n1 # 1 /\ (r + 1 - n1) - 1 = q + 1 - n1
      BY <1>1, <1>3, <1>10
    <2> QED BY <1>7, <1>8, <2>1, AlgorithmsAssumption
  <1> QED BY <1>5, <1>9, <1>10

LEMMA BlocksFit ==
    ASSUME NEW u \in Nat \ {0}, u <= UnitCount PROVE BlockOf(u) <= MaxFft
  <1> DEFINE b == Len(BlockSizes)
  <1>1. ((u - 1) % b) + 1 \in DOMAIN BlockSizes
    BY UnitsAssumption
  <1> QED BY <1>1, AlgorithmsAssumption DEF BlockOf

-----------------------------------------------------------------------------
(* What the searches have shown *)

\* The test under way is the search's.
UnderTest ==
    Testing /\ InPhase2(unit) =>
        /\ unit <= UnitCount
        /\ launched.alg = AlgOf(unit) /\ launched.stress = search.stressParam

\* Until its first failure a search visits the doubles.
Doubling ==
    /\ search.stressParam > 1 \/ search = Fresh
    /\ ~InPhase2(unit) => search = Fresh
    /\ ~search.reachedPeak =>
           /\ search.M = MaxParam /\ search.m \in Doubles /\ search.stressParam \in Doubles
           /\ search.stressParam = IF Testing /\ InPhase2(unit) THEN 2 * search.m ELSE search.m

\* A search with additive synthesis asks for more than a table has only when a whole
\* table was managed.
Managed ==
    InPhase2(unit) /\ unit <= UnitCount /\ AlgOf(unit) \in AdditiveAlgs =>
        /\ search.m > 1 => manages >= search.m
        /\ search.reachedPeak => search.M <= Tables \/ manages >= Tables
        /\ search.stressParam > Tables => manages >= Tables

\* The parameter the next test finds on the thread is more than a table has only
\* after the convolution's tests.
HandsOn ==
    dsp.stressParameter > Tables /\ manages < Tables =>
        /\ InPhase2(unit)
        /\ unit <= UnitCount => AlgOf(unit) \notin TableAlgs
        /\ search.stressParam > 1 => AlgOf(unit) \notin AdditiveAlgs

FailInv ==
    /\ manages \in Nat /\ dsp.level \in 0..10
    /\ FailsOnlyBeyond
    /\ user = "tests" /\ Running => UnderTest /\ Doubling /\ Managed /\ HandsOn

LEMMA FailInit == Init => FailInv
  <1> SUFFICES ASSUME Init PROVE FailInv
    OBVIOUS
  <1> DEFINE c == SetAlgorithm(SetBlockSize(NewThread, BlockSizes[1]), "LOOPBACK")
  <1>1. /\ BlockSizes[1] \in Nat /\ "LOOPBACK" \in AlgorithmEnum
        /\ NewThread \in Dsps /\ NewThread.stressParameter = 0
        /\ NewThread.ended = "no" /\ NewThread.level = 0
    BY UnitsAssumption, NewThreadFresh, NewThreadRuns DEF AlgorithmEnum
  <1>2. /\ Configured(NewThread, c, "LOOPBACK", BlockSizes[1])
        /\ HandedOn(NewThread, c, "LOOPBACK")
    BY <1>1, LaunchConfigured
  <1> HIDE DEF c
  <1>3. SetUp = SetParams(c, 5) /\ c \in Dsps /\ c.stressParameter = 0
    BY <1>1, <1>2 DEF SetUp, c, Configured, HandedOn
  <1>4. SetUp.level = 5 /\ SetUp.stressParameter = 0
    <2>1. 5 \in Nat
      OBVIOUS
    <2>2. SetParams(c, 5).level = 5 /\ SetParams(c, 5).stressParameter = c.stressParameter
      BY <1>3, <2>1, EndsThread
    <2> QED BY <1>3, <2>2
  <1>5. dsp.level \in 0..10 /\ dsp.stressParameter = 0
    BY <1>1, <1>4 DEF Init
  <1>6. dsp.ended \notin {"thrown", "exited"}
    <2>1. /\ \A p : ~TooMany("LOOPBACK", p) /\ ~TooLarge("LOOPBACK", p)
          /\ BlockSizes[1] <= MaxFft
      BY UnitsAssumption, AlgorithmsAssumption DEF TooMany, TooLarge, TableAlgs
    <2>2. /\ EndsOnly(NewThread, c,
                      TooMany("LOOPBACK", NewThread.stressParameter)
                          \/ TooMany("LOOPBACK", NewThread.level),
                      TooLarge(NewThread.algorithm, BlockSizes[1])
                          \/ TooLarge("LOOPBACK", BlockSizes[1]))
      BY <1>1, EndsConfiguring DEF c
    <2>3. ~TooLarge(NewThread.algorithm, BlockSizes[1])
      BY <1>1, <2>1, AlgorithmsAssumption DEF TooLarge
    <2>4. c.ended \notin {"thrown", "exited"} /\ c.algorithm = "LOOPBACK"
      BY <1>1, <1>2, <2>1, <2>2, <2>3 DEF EndsOnly, Configured
    <2>5. SetUp.ended \notin {"thrown", "exited"}
      BY <1>3, <2>1, <2>4, EndsThread DEF EndsOnly
    <2> QED BY <1>1, <2>5 DEF Init
  <1>7. FailsOnlyBeyond
    BY <1>6 DEF FailsOnlyBeyond
  <1>8. /\ launched = Idle /\ search = Fresh /\ manages = 0
    BY DEF Init
  <1>9. UnderTest /\ HandsOn
    BY <1>5, <1>8, AlgorithmsAssumption DEF UnderTest, HandsOn, Testing
  <1>10. Doubling
    BY <1>8, SearchAssumption DEF Doubling, Fresh, Testing
  <1>11. Managed
    BY <1>8, AlgorithmsAssumption DEF Managed, Fresh
  <1> QED BY <1>5, <1>7, <1>8, <1>9, <1>10, <1>11 DEF FailInv

\* What launchTest() does with a thread that runs.
LEMMA FailLaunch ==
    ASSUME AlgInv, FailInv, user = "tests", Running, ~Testing, unit <= UnitCount,
           NEW stress \in Nat, LaunchTest(AlgOf(unit), BlockOf(unit), stress)
    PROVE  /\ dsp'.stressParameter = stress /\ dsp'.level = dsp.level /\ manages' = manages
           /\ dsp'.ended # "exited"
           /\ dsp'.ended = "thrown" =>
                  /\ AlgOf(unit) \in TableAlgs
                  /\ dsp.stressParameter > Tables \/ stress > Tables
  <1> DEFINE alg == AlgOf(unit)
             block == BlockOf(unit)
             c == SetAlgorithm(SetBlockSize(dsp, block), alg)
  <1>1. /\ dsp \in Dsps /\ dsp' = SetStressParameter(c, stress) /\ manages' = manages
        /\ unit \in Nat \ {0}
    BY DEF AlgInv, AlgTypeOK, LaunchTest
  <1>2. alg \in AlgorithmEnum /\ block \in Nat /\ block <= MaxFft
    BY <1>1, PhaseOfUnit, BlocksFit
  <1> HIDE DEF alg, block
  <1>3. Configured(dsp, c, alg, block)
    BY <1>1, <1>2, LaunchConfigured
  <1>4. /\ EndsOnly(dsp, c, TooMany(alg, dsp.stressParameter) \/ TooMany(alg, dsp.level),
                    TooLarge(dsp.algorithm, block) \/ TooLarge(alg, block))
        /\ c.level = dsp.level
    BY <1>1, <1>2, EndsConfiguring
  <1> HIDE DEF c
  <1>5. c \in Dsps /\ c.algorithm = alg
    BY <1>3 DEF Configured
  <1>6. /\ EndsOnly(c, dsp', TooMany(alg, stress), FALSE)
        /\ dsp'.stressParameter = stress /\ dsp'.level = c.level
    BY <1>1, <1>5, EndsThread
  <1>7. MaxFft \in Nat /\ \A a : ~TooLarge(a, block)
    BY <1>2, AlgorithmsAssumption DEF TooLarge
  <1>8. ~TooMany(alg, dsp.level) /\ dsp.ended = "no"
    BY LevelsFit DEF FailInv, Running
  <1>9. dsp'.ended # "exited"
    BY <1>4, <1>6, <1>7, <1>8 DEF EndsOnly
  <1>10. dsp'.ended = "thrown" => TooMany(alg, dsp.stressParameter) \/ TooMany(alg, stress)
    BY <1>4, <1>6, <1>8 DEF EndsOnly
  <1>11. \A p \in Nat : TooMany(alg, p) => alg \in TableAlgs /\ p > Tables
    BY AlgorithmsAssumption DEF TooMany, AtLeastOne
  <1>12. dsp.stressParameter \in Nat
    BY <1>1 DEF Dsps
  <1> QED BY <1>1, <1>4, <1>6, <1>9, <1>10, <1>11, <1>12 DEF alg

LEMMA FailPhase1 == AlgInv /\ FailInv /\ LaunchPhase1 => FailInv'
  <1> SUFFICES ASSUME AlgInv, FailInv, LaunchPhase1 PROVE FailInv'
    OBVIOUS
  <1>1. /\ user = "tests" /\ Running /\ ~Testing /\ unit <= UnitCount /\ ~InPhase2(unit)
        /\ LaunchTest(AlgOf(unit), BlockOf(unit), 0)
        /\ search' = search /\ user' = user /\ unit' = unit /\ unit \in Nat \ {0}
    BY DEF LaunchPhase1, LaunchTest, AlgInv, AlgTypeOK
  <1>2. /\ dsp'.stressParameter = 0 /\ dsp'.level = dsp.level /\ manages' = manages
        /\ dsp'.ended # "exited"
        /\ dsp'.ended = "thrown" => AlgOf(unit) \in TableAlgs
    BY <1>1, FailLaunch
  <1>3. AlgOf(unit) \notin TableAlgs
    BY <1>1, PhaseOfUnit DEF StressAlgs, AdditiveAlgs
  <1>4. FailsOnlyBeyond'
    BY <1>2, <1>3 DEF FailsOnlyBeyond
  <1>5. InPhase2(unit') = InPhase2(unit) /\ AlgOf(unit') = AlgOf(unit)
    BY <1>1
  <1>6. UnderTest' /\ Managed'
    BY <1>1, <1>5 DEF UnderTest, Managed
  <1>7. Doubling'
    BY <1>1, <1>5 DEF FailInv, Doubling, Fresh
  <1>8. HandsOn'
    BY <1>2, AlgorithmsAssumption DEF HandsOn
  <1> QED BY <1>2, <1>4, <1>6, <1>7, <1>8 DEF FailInv

LEMMA FailPhase2 == AlgInv /\ FailInv /\ LaunchPhase2 => FailInv'
  <1> SUFFICES ASSUME AlgInv, FailInv, LaunchPhase2 PROVE FailInv'
    OBVIOUS
  <1> DEFINE param == Probed(search).stressParam
  <1>1. /\ user = "tests" /\ Running /\ ~Testing /\ unit <= UnitCount /\ InPhase2(unit)
        /\ Searching(search) /\ search' = Probed(search) /\ SearchInv
        /\ LaunchTest(AlgOf(unit), BlockOf(unit), param)
        /\ user' = user /\ unit' = unit /\ unit \in Nat \ {0}
        /\ launched' = Launch(AlgOf(unit), BlockOf(unit), param)
    BY DEF LaunchPhase2, LaunchTest, AlgInv, AlgTypeOK
  <1>2. param \in Nat /\ param > 1 /\ param = NextParam(search)
    BY <1>1, ProbedIsMore DEF Probed, SearchInv
  <1>3. /\ search'.m = search.m /\ search'.M = search.M
        /\ search'.reachedPeak = search.reachedPeak /\ search'.stressParam = param
    BY <1>1 DEF Probed, SearchInv
  <1> HIDE DEF param
  <1>4. /\ dsp'.stressParameter = param /\ dsp'.level = dsp.level /\ manages' = manages
        /\ dsp'.ended # "exited"
        /\ dsp'.ended = "thrown" =>
               /\ AlgOf(unit) \in TableAlgs
               /\ dsp.stressParameter > Tables \/ param > Tables
    BY <1>1, <1>2, FailLaunch
  <1>5. UnderTest /\ Doubling /\ Managed /\ HandsOn /\ manages \in Nat
    BY <1>1 DEF FailInv
  <1>6. InPhase2(unit') /\ AlgOf(unit') = AlgOf(unit)
    BY <1>1
  <1>7. Testing' /\ launched'.alg = AlgOf(unit) /\ launched'.stress = param
    <2>1. launched' \in Launches
      BY <1>1, <1>2, PhaseOfUnit DEF Launch, Launches
    <2> QED BY <1>1, <2>1, LaunchIsNotIdle DEF Launch, Testing
  <1>8. UnderTest'
    BY <1>1, <1>3, <1>6, <1>7 DEF UnderTest
  <1>9. search.m \in Nat /\ search.M \in Nat /\ Tables \in Nat /\ search.m < search.M - 1
    BY <1>1, AlgorithmsAssumption DEF SearchInv, Searching
  <1>10. ~search.reachedPeak =>
             param = 2 * search.m /\ search.M = MaxParam /\ search.m \in Doubles
             /\ param \in Doubles
    <2> SUFFICES ASSUME ~search.reachedPeak
                 PROVE  param = 2 * search.m /\ search.M = MaxParam /\ search.m \in Doubles
                        /\ param \in Doubles
      OBVIOUS
    <2>1. param = 2 * search.m /\ search.M = MaxParam /\ search.m \in Doubles
      BY <1>1, <1>2, <1>5 DEF NextParam, Doubling
    <2>2. search.m # MaxParam
      BY <1>9, <2>1
    <2> QED BY <2>1, <2>2, SearchAssumption
  <1>11. search.reachedPeak => param < search.M
    <2> SUFFICES ASSUME search.reachedPeak PROVE param < search.M
      OBVIOUS
    <2>1. param = search.m + (search.M - search.m) \div 2
      BY <1>2 DEF NextParam
    <2> QED BY <1>9, <2>1
  <1>12. Doubling'
    BY <1>2, <1>3, <1>6, <1>7, <1>10 DEF Doubling
  <1>13. AlgOf(unit) \in AdditiveAlgs /\ param > Tables => manages >= Tables
    <2> SUFFICES ASSUME AlgOf(unit) \in AdditiveAlgs, param > Tables PROVE manages >= Tables
      OBVIOUS
    <2>1. /\ search.m > 1 => manages >= search.m
          /\ search.reachedPeak => search.M <= Tables \/ manages >= Tables
      BY <1>1, <1>5 DEF Managed
    <2>2. CASE search.reachedPeak
      BY <1>2, <1>5, <1>9, <1>11, <2>1, <2>2
    <2>3. CASE ~search.reachedPeak
      <3>1. search.m >= Tables
        BY <1>9, <1>10, <2>3, AlgorithmsAssumption
      <3> QED BY <1>5, <1>9, <2>1, <3>1, AlgorithmsAssumption
    <2> QED BY <2>2, <2>3
  <1>14. Managed'
    BY <1>1, <1>3, <1>4, <1>5, <1>6, <1>13 DEF Managed
  <1>15. TableAlgs \subseteq AdditiveAlgs
    BY DEF AdditiveAlgs
  <1>16. dsp.stressParameter \in Nat
    BY DEF AlgInv, AlgTypeOK, Dsps
  <1>17. FailsOnlyBeyond'
    <2>1. dsp'.ended = "thrown" => manages >= Tables
      BY <1>1, <1>4, <1>5, <1>9, <1>13, <1>15 DEF HandsOn
    <2> QED BY <1>1, <1>4, <2>1 DEF FailsOnlyBeyond
  <1>18. HandsOn'
    BY <1>1, <1>2, <1>4, <1>5, <1>6, <1>9, <1>13, <1>15 DEF HandsOn
  <1> QED BY <1>4, <1>5, <1>8, <1>12, <1>14, <1>17, <1>18 DEF FailInv

LEMMA FailEnd == AlgInv /\ FailInv /\ EndTest => FailInv'
  <1> SUFFICES ASSUME AlgInv, FailInv, EndTest PROVE FailInv'
    OBVIOUS
  <1>1. /\ user = "tests" /\ Running /\ Testing /\ user' = user /\ dsp' = dsp
        /\ launched' = Idle /\ ~Testing' /\ unit \in Nat \ {0} /\ SearchInv
        /\ launched \in Launches /\ Tables \in Nat /\ Tables >= 10
    BY AlgorithmsAssumption DEF EndTest, Testing, AlgInv, AlgTypeOK
  <1>2. UnderTest /\ Doubling /\ Managed /\ HandsOn /\ manages \in Nat /\ dsp.ended = "no"
    BY <1>1 DEF FailInv, Running
  <1>3. FailsOnlyBeyond' /\ UnderTest'
    BY <1>1, <1>2 DEF FailsOnlyBeyond, UnderTest
  <1>4. CASE ~InPhase2(unit)
    <2>1. unit' = unit + 1 /\ search' = search /\ manages' = manages /\ search = Fresh
      BY <1>2, <1>4 DEF EndTest, Doubling
    <2>2. Doubling'
      BY <1>1, <2>1, SearchAssumption DEF Doubling, Fresh
    <2>3. Managed'
      BY <1>1, <2>1 DEF Managed, Fresh
    <2>4. HandsOn'
      BY <1>1, <1>2, <1>4, <2>1 DEF HandsOn
    <2> QED BY <1>1, <1>2, <1>3, <2>1, <2>2, <2>3, <2>4 DEF FailInv
  <1>5. CASE InPhase2(unit)
    <2>1. PICK feasible \in BOOLEAN :
              /\ search' = Judged(search, feasible)
              /\ manages' = IF feasible /\ launched.alg \in AdditiveAlgs
                                /\ launched.stress > manages
                             THEN launched.stress ELSE manages
              /\ unit' = unit
      BY <1>5 DEF EndTest
    <2>2. unit <= UnitCount /\ launched.alg = AlgOf(unit) /\ launched.stress = search.stressParam
      BY <1>1, <1>2, <1>5 DEF UnderTest
    <2>3. search.stressParam \in Nat /\ search.m \in Nat /\ search.M \in Nat
      BY <1>1 DEF SearchInv
    <2>4. manages' \in Nat /\ manages' >= manages
      BY <1>2, <2>1, <2>2, <2>3
    <2>5. InPhase2(unit') /\ AlgOf(unit') = AlgOf(unit)
      BY <1>5, <2>1
    <2>6. search.stressParam > 1
      <3>1. CASE search.reachedPeak
        BY <1>2, <3>1 DEF Doubling, Fresh
      <3>2. CASE ~search.reachedPeak
        <4>1. search.stressParam = 2 * search.m /\ search.m \in Nat \ {0}
          BY <1>1, <1>2, <1>5, <3>2 DEF Doubling, SearchInv
        <4> QED BY <4>1
      <3> QED BY <3>1, <3>2
    <2>7. CASE feasible
      <3>1. /\ search'.m = search.stressParam /\ search'.M = search.M
            /\ search'.stressParam = search.stressParam
            /\ search'.reachedPeak = search.reachedPeak
        BY <1>1, <2>1, <2>7 DEF Judged, SearchInv
      <3>2. Doubling'
        BY <1>1, <1>2, <2>5, <2>6, <3>1 DEF Doubling
      <3>3. AlgOf(unit) \in AdditiveAlgs => manages' >= search.stressParam
        BY <1>2, <2>1, <2>2, <2>3, <2>7
      <3>4. Managed'
        BY <1>1, <1>2, <1>5, <2>1, <2>2, <2>3, <2>4, <2>5, <3>1, <3>3 DEF Managed
      <3>5. HandsOn'
        BY <1>1, <1>2, <2>1, <2>4, <2>5, <3>1 DEF HandsOn
      <3> QED BY <1>1, <1>2, <1>3, <2>4, <3>2, <3>4, <3>5 DEF FailInv
    <2>8. CASE ~feasible
      <3>1. /\ search'.m = search.m /\ search'.M = search.stressParam
            /\ search'.stressParam = search.stressParam /\ search'.reachedPeak = TRUE
        BY <1>1, <2>1, <2>8 DEF Judged, SearchInv
      <3>2. Doubling'
        BY <2>5, <2>6, <3>1 DEF Doubling
      <3>3. Managed'
        BY <1>1, <1>2, <1>5, <2>1, <2>2, <2>3, <2>4, <2>5, <3>1 DEF Managed
      <3>4. HandsOn'
        BY <1>1, <1>2, <2>1, <2>4, <2>5, <3>1 DEF HandsOn
      <3> QED BY <1>1, <1>2, <1>3, <2>4, <3>2, <3>3, <3>4 DEF FailInv
    <2> QED BY <2>7, <2>8
  <1> QED BY <1>4, <1>5

LEMMA FailUnit == AlgInv /\ FailInv /\ NextUnit => FailInv'
  <1> SUFFICES ASSUME AlgInv, FailInv, NextUnit PROVE FailInv'
    OBVIOUS
  <1>1. /\ user = "tests" /\ Running /\ ~Testing /\ unit <= UnitCount /\ InPhase2(unit)
        /\ ~Searching(search) /\ unit' = unit + 1 /\ search' = Fresh
        /\ UNCHANGED <<user, dsp, launched, earlier, manages>>
        /\ unit \in Nat \ {0} /\ Tables \in Nat /\ Tables >= 10
    BY AlgorithmsAssumption DEF NextUnit, AlgInv, AlgTypeOK
  <1>2. Doubling /\ HandsOn /\ manages \in Nat
    BY <1>1 DEF FailInv
  <1>3. search.stressParam > 1
    <2>1. Searching(Fresh)
      BY SearchAssumption DEF Searching, Fresh
    <2> QED BY <1>1, <1>2, <2>1 DEF Doubling
  <1>4. InPhase2(unit')
    <2>1. Len(Phase1) * Len(BlockSizes) \in Nat
      BY UnitsAssumption
    <2> QED BY <1>1, <2>1 DEF InPhase2
  <1>5. HandsOn'
    <2>1. UnitCount \in Nat
      BY UnitsAssumption DEF UnitCount
    <2>2. unit + 1 <= UnitCount /\ AlgOf(unit) \notin AdditiveAlgs => AlgOf(unit + 1) \notin TableAlgs
      BY <1>1, NextAlg
    <2>3. ~(Fresh.stressParam > 1)
      BY DEF Fresh
    <2> QED BY <1>1, <1>2, <1>3, <1>4, <2>2, <2>3 DEF HandsOn
  <1>6. UnderTest' /\ FailsOnlyBeyond'
    BY <1>1 DEF UnderTest, Testing, FailInv, FailsOnlyBeyond
  <1>7. Doubling'
    BY <1>1, SearchAssumption DEF Doubling, Testing, Fresh
  <1>8. Managed'
    BY <1>1, <1>2 DEF Managed, Fresh
  <1> QED BY <1>1, <1>5, <1>6, <1>7, <1>8 DEF FailInv

LEMMA FailLive == AlgInv /\ FailInv /\ (ToggleOn \/ Slide) => FailInv'
  <1> SUFFICES ASSUME AlgInv, FailInv, ToggleOn \/ Slide PROVE FailInv'
    OBVIOUS
  <1>1. user = "live" /\ user' = user /\ manages' = manages /\ manages \in Nat
    BY DEF ToggleOn, Slide, FailInv
  <1>2. CASE ToggleOn
    <2>1. PICK alg \in AlgorithmEnum, block \in LiveBlocks, level \in Levels :
              /\ dsp' = SetParams(SetAlgorithm(SetBlockSize(NewThread, block), alg), level)
              /\ launched' = Launch(alg, block, IF alg \in AdditiveAlgs THEN level ELSE 0)
      BY <1>2 DEF ToggleOn
    <2> DEFINE c == SetAlgorithm(SetBlockSize(NewThread, block), alg)
    <2>2. /\ block \in Nat /\ level \in Nat /\ level \in 0..10
          /\ NewThread \in Dsps /\ NewThread.stressParameter = 0
          /\ NewThread.ended = "no" /\ NewThread.level = 0
      BY NewThreadFresh, NewThreadRuns, AlgorithmsAssumption DEF Levels
    <2>3. Configured(NewThread, c, alg, block)
      BY <2>2, LaunchConfigured
    <2>4. EndsOnly(NewThread, c,
                   TooMany(alg, NewThread.stressParameter) \/ TooMany(alg, NewThread.level),
                   TooLarge(NewThread.algorithm, block) \/ TooLarge(alg, block))
      BY <2>2, EndsConfiguring
    <2>5. dsp' = SetParams(c, level)
      BY <2>1
    <2> HIDE DEF c
    <2>6. c \in Dsps /\ c.algorithm = alg
      BY <2>3 DEF Configured
    <2>7. EndsOnly(c, dsp', TooMany(alg, level), FALSE) /\ dsp'.level = level
      BY <2>2, <2>5, <2>6, EndsThread
    <2>8. ~TooMany(alg, 0) /\ ~TooMany(alg, level)
      BY <2>2, LevelsFit
    <2>9. NewThread.algorithm = "LOOPBACK"
      <3>1. NewThread = SetBlockSize(SetAlgorithm(Made, "LOOPBACK"), DefaultBlock)
        BY DEF NewThread
      <3>2. Made \in Dsps /\ "LOOPBACK" \in AlgorithmEnum
        BY AlgorithmsAssumption DEF Made, Dsps, Objects, AlgorithmEnum
      <3> DEFINE e == SetAlgorithm(Made, "LOOPBACK")
      <3>3. e \in Dsps /\ e.algorithm = "LOOPBACK"
        BY <3>2, AlgorithmConfigured DEF Configured
      <3> HIDE DEF e
      <3> DEFINE e0 == [e EXCEPT !.blockSize = DefaultBlock]
      <3>4. e0 \in Dsps /\ e0.algorithm = "LOOPBACK" /\ DefaultBlock \in Nat
        BY <3>3, AlgorithmsAssumption DEF Dsps
      <3>5. NewThread = ObjectSetBlockSize(e0, "LOOPBACK", DefaultBlock)
        BY <3>1, <3>3 DEF SetBlockSize, e
      <3> HIDE DEF e0
      <3>6. BlockSet(e0, NewThread, "LOOPBACK", DefaultBlock)
        BY <3>2, <3>4, <3>5, BlockObject
      <3> QED BY <3>4, <3>6 DEF BlockSet, OwnKept
    <2>10. ~TooLarge(NewThread.algorithm, block)
      BY <2>9 DEF TooLarge
    <2>11. dsp'.ended # "thrown" /\ (dsp'.ended = "exited" => TooLarge(alg, block))
      BY <2>2, <2>4, <2>7, <2>8, <2>10 DEF EndsOnly
    <2>12. launched'.alg = alg /\ launched'.block = block
      BY <2>1 DEF Launch
    <2>13. FailsOnlyBeyond'
      BY <1>1, <2>11, <2>12 DEF FailsOnlyBeyond, TooLarge
    <2> QED BY <1>1, <2>2, <2>7, <2>13 DEF FailInv
  <1>3. CASE Slide
    <2>1. PICK level \in Levels : dsp' = SetParams(dsp, level)
      BY <1>3 DEF Slide
    <2>2. dsp \in Dsps /\ level \in Nat /\ level \in 0..10 /\ dsp.ended = "no"
      BY <1>3 DEF Slide, Running, AlgInv, AlgTypeOK, Levels
    <2>3. EndsOnly(dsp, dsp', TooMany(dsp.algorithm, level), FALSE) /\ dsp'.level = level
      BY <2>1, <2>2, EndsThread
    <2>4. ~TooMany(dsp.algorithm, level)
      BY <2>2, LevelsFit
    <2>5. FailsOnlyBeyond'
      BY <2>2, <2>3, <2>4 DEF EndsOnly, FailsOnlyBeyond
    <2> QED BY <1>1, <2>2, <2>3, <2>5 DEF FailInv
  <1> QED BY <1>2, <1>3

\* FailsOnlyBeyond: for every plan whose tables follow tests with additive synthesis,
\* every ceiling and every table of a power of two, configuring a test throws only on a
\* device that manages a whole table, and configuring a session exits only for an FFT
\* of more than MaxFft.
THEOREM FailsOnlyBeyondHolds == Spec => []FailsOnlyBeyond
  <1>1. FailInv => FailsOnlyBeyond
    BY DEF FailInv
  <1>2. FailInv /\ UNCHANGED algVars => FailInv'
    BY DEF algVars, FailInv, FailsOnlyBeyond, UnderTest, Doubling, Managed, HandsOn, Testing,
           Running
  <1>3. AlgInv /\ FailInv /\ [Next]_algVars => FailInv'
    BY <1>2, FailPhase1, FailPhase2, FailEnd, FailUnit, FailLive DEF Next
  <1> QED BY <1>1, <1>3, AlgInvariant, FailInit, PTL DEF Spec

=============================================================================

---------------------------- MODULE KernelProofs ----------------------------
(***************************************************************************)
(* The kernels for every block size and every parameter: exactly which        *)
(* samples of a block the convolution's division by the index costs, that    *)
(* the reverberation computes one filter across the edges of the blocks, and *)
(* that the FFT is the discrete Fourier transform.                          *)
(***************************************************************************)
EXTENDS ConvolutionKernel, ReverbKernel, FftKernel, WellFoundedInduction, TLAPS

-----------------------------------------------------------------------------
\* The convolution.

\* The loop is somewhere in the block, and has lost what the property says.
ConvInv ==
    /\ length \in Nat \ {0} /\ taps \in Nat /\ slot \in 0..length
    /\ SpoiledExactly

\* A window that ends inside the block has only samples from its first on.
LEMMA WindowInside ==
    ASSUME length \in Nat \ {0}, taps \in Nat, NEW i \in 0..(length - 1), i + taps <= length
    PROVE  \A w \in Window(i) : w >= i
  <1> TAKE w \in Window(i)
  <1>1. PICK k \in 0..(taps - 1) : w = (i + k) % length
    BY DEF Window
  <1>2. i + k \in Nat /\ i + k < length
    BY <1>1
  <1> QED BY <1>1, <1>2

\* One that reaches past the end has the first sample of the block.
LEMMA WindowRound ==
    ASSUME length \in Nat \ {0}, taps \in Nat, NEW i \in 0..(length - 1), i + taps > length
    PROVE  0 \in Window(i)
  <1> DEFINE k == length - i
  <1>1. k \in 0..(taps - 1) /\ i + k = length
    OBVIOUS
  <1>2. (i + k) % length = 0
    BY <1>1
  <1> HIDE DEF k
  <1> QED BY <1>1, <1>2 DEF Window

\* The loop spoils the first sample, and each whose window has a spoiled one.
LEMMA ConvolveStep == ConvInv /\ Convolve => ConvInv'
  <1> SUFFICES ASSUME ConvInv, Convolve PROVE ConvInv'
    OBVIOUS
  <1>1. /\ length \in Nat \ {0} /\ taps \in Nat /\ slot \in 0..(length - 1)
        /\ length' = length /\ taps' = taps /\ slot' = slot + 1
    BY DEF ConvInv, Convolve
  <1>2. \A w : w \in spoiled <=> w \in 0..(slot - 1) /\ (w = 0 \/ w + taps > length)
    BY DEF ConvInv, SpoiledExactly
  <1> DEFINE lost == slot = 0 \/ Window(slot) \cap spoiled # {}
  <1>3. lost <=> slot = 0 \/ slot + taps > length
    <2>1. ASSUME slot # 0, slot + taps > length PROVE lost
      <3>1. 0 \in Window(slot)
        BY <1>1, <2>1, WindowRound
      <3>2. 0 \in spoiled
        BY <1>1, <1>2, <2>1
      <3> QED BY <3>1, <3>2
    <2>2. ASSUME slot # 0, slot + taps <= length PROVE ~lost
      <3>1. \A w \in Window(slot) : w >= slot
        BY <1>1, <2>2, WindowInside
      <3>2. \A w \in spoiled : w < slot
        BY <1>1, <1>2
      <3>3. ASSUME NEW w \in Window(slot), w \in spoiled PROVE FALSE
        BY <1>1, <1>2, <3>1, <3>2, <3>3
      <3> QED BY <2>2, <3>3
    <2> QED BY <1>1, <2>1, <2>2
  <1>4. spoiled' = IF lost THEN spoiled \cup {slot} ELSE spoiled
    BY DEF Convolve
  <1> HIDE DEF lost
  <1>5. \A w : w \in spoiled' <=> w \in 0..slot /\ (w = 0 \/ w + taps > length)
    BY <1>1, <1>2, <1>3, <1>4
  <1>6. SpoiledExactly'
    BY <1>1, <1>5 DEF SpoiledExactly
  <1> QED BY <1>1, <1>6 DEF ConvInv

\* How far Convolution.perform() is from the FIR filter its class comment promises
\* (StaysFinite is refuted by TLC): the samples of a block that are lost are the first
\* and those whose window reaches round the end to it, at every size and with any
\* number of taps.
THEOREM SpoiledExactlyHolds == ConvSpec => []SpoiledExactly
  <1>1. ConvInit => ConvInv
    BY ConvAssumption DEF ConvInit, ConvInv, SpoiledExactly
  <1>2. ConvInv /\ NextBuffer => ConvInv'
    BY ConvAssumption DEF ConvInv, NextBuffer, SpoiledExactly
  <1>3. ConvInv /\ UNCHANGED convVars => ConvInv'
    BY DEF ConvInv, convVars, SpoiledExactly
  <1>4. ConvInv /\ [ConvNext]_convVars => ConvInv'
    BY <1>2, <1>3, ConvolveStep DEF ConvNext
  <1>5. ConvInv => SpoiledExactly
    BY DEF ConvInv
  <1> QED BY <1>1, <1>4, <1>5, PTL DEF ConvSpec

-----------------------------------------------------------------------------
\* The reverberation.

\* The types of the object's state and of the history.
ReverbTypes ==
    /\ blockSize \in Nat \ {0} /\ position \in 0..Positions
    /\ performing \in BOOLEAN
    /\ turn \in 0..blockSize /\ m \in 1..blockSize
    /\ oldInput \in [0..(blockSize - 1) -> Int] /\ oldOutput \in [0..(blockSize - 1) -> Int]
    /\ buffer \in [0..(blockSize - 1) -> Int] /\ tmpOldInput \in [0..(blockSize - 1) -> Int]
    /\ heard \in Seq(Int) /\ played \in Seq(Int) /\ delays \in Seq(Nat \ {0})
    /\ Len(heard) = Len(played) /\ Len(delays) = Len(played)
    /\ turn <= Len(played) /\ (~performing => turn = 0)

\* The samples of the streams before the block in hand, or before the next one.
Start == Len(played) - turn

\* The arrays of the object are the ends of the two streams, up to that block.
LookBack ==
    \A k \in 0..(blockSize - 1) :
        /\ oldInput[k] = At(heard, Start - blockSize + k + 1)
        /\ oldOutput[k] = At(played, Start - blockSize + k + 1)

\* Within perform() the buffer is output up to the index, and input from it on.
InPlace ==
    performing =>
        \A k \in 0..(blockSize - 1) :
            IF k < turn THEN /\ buffer[k] = played[Start + k + 1]
                             /\ tmpOldInput[k] = heard[Start + k + 1]
                        ELSE buffer[k] = tmpOldInput[k]

\* The inductive invariant.
ReverbInv == ReverbTypes /\ LookBack /\ InPlace /\ ReverbIsFilter

\* The slider cannot ask for a delay longer than the block.
LEMMA DelayInBlock ==
    ASSUME blockSize \in Nat \ {0}, position \in 0..Positions
    PROVE  Delay \in 1..blockSize
  <1> DEFINE p == position * blockSize
             d == p \div Positions
  <1>1. Positions \in Nat \ {0}
    BY ReverbAssumption
  <1>2. p \in Nat /\ p <= Positions * blockSize
    BY <1>1, SMT
  <1>3. d \in Nat /\ Positions * d <= p
    BY <1>1, <1>2, SMT
  <1> HIDE DEF p, d
  <1>4. d <= blockSize
    <2> SUFFICES ASSUME d >= blockSize + 1 PROVE FALSE
      BY <1>3, SMT
    <2>1. Positions * d >= Positions * (blockSize + 1)
      BY <1>1, <1>3, SMT
    <2>2. Positions * (blockSize + 1) = Positions * blockSize + Positions
      BY <1>1, SMT
    <2>3. Positions * blockSize \in Nat /\ Positions * d \in Nat
      BY <1>1, <1>3, SMT
    <2> QED BY <1>1, <1>2, <1>3, <2>1, <2>2, <2>3, SMT
  <1>5. Delay = IF d < 1 THEN 1 ELSE d
    BY DEF Delay, p, d
  <1> QED BY <1>3, <1>4, <1>5, SMT

\* What the filter mixes is a number.
LEMMA MixInt ==
    ASSUME NEW now \in Int, NEW before \in Int, NEW echo \in Int
    PROVE  Mix(now, before, echo) \in Int
  <1> DEFINE a == -Gain * now
             b == Gain * echo
  <1>1. a \in Int /\ b \in Int /\ Field \in Nat \ {0}
    BY ReverbAssumption, SMT
  <1> HIDE DEF a, b
  <1>2. (a + before + b) % Field \in Int
    BY <1>1, SMT
  <1> QED BY <1>2, Zenon DEF Mix, a, b

\* What a stream has played does not change when it goes on.
LEMMA AppendKeeps ==
    ASSUME NEW S, NEW s \in Seq(S), NEW e \in S
    PROVE  /\ Append(s, e) \in Seq(S) /\ Len(Append(s, e)) = Len(s) + 1
           /\ Append(s, e)[Len(s) + 1] = e
           /\ \A n \in 1..Len(s) : Append(s, e)[n] = s[n]
           /\ \A n \in Int : n <= Len(s) => At(Append(s, e), n) = At(s, n)
  <1>1. /\ Append(s, e) \in Seq(S) /\ Len(Append(s, e)) = Len(s) + 1
        /\ Append(s, e)[Len(s) + 1] = e
        /\ \A n \in 1..Len(s) : Append(s, e)[n] = s[n]
    OBVIOUS
  <1>2. ASSUME NEW n \in Int, n <= Len(s) PROVE At(Append(s, e), n) = At(s, n)
    <2>1. CASE n < 1
      BY <2>1 DEF At
    <2>2. CASE ~(n < 1)
      <3>1. n \in 1..Len(s)
        BY <1>2, <2>2
      <3> QED BY <1>1, <2>2, <3>1 DEF At
    <2> QED BY <2>1, <2>2
  <1> QED BY <1>1, <1>2

\* The numbers of a state, without its arrays and streams.
LEMMA ReverbNumbers ==
    ASSUME ReverbTypes
    PROVE  /\ blockSize \in Nat \ {0} /\ turn \in 0..blockSize /\ m \in 1..blockSize
           /\ Len(played) \in Nat /\ Start \in Nat /\ Len(played) = Start + turn
  <1>1. played \in Seq(Int)
    BY DEF ReverbTypes
  <1>2. Len(played) \in Nat
    BY <1>1
  <1>3. /\ blockSize \in Nat \ {0} /\ turn \in 0..blockSize /\ m \in 1..blockSize
        /\ turn <= Len(played)
    BY DEF ReverbTypes
  <1> DEFINE L == Len(played)
  <1>4. L \in Nat /\ turn <= L /\ Start = L - turn
    BY <1>2, <1>3 DEF Start
  <1> HIDE DEF L
  <1>5. Start \in Nat /\ L = Start + turn
    BY <1>3, <1>4
  <1> QED BY <1>2, <1>3, <1>5 DEF L

\* A turn writes what the filter says, if it reads the delayed samples of both streams.
LEMMA ReplacedStep ==
    ASSUME ReverbInv, performing, turn < blockSize,
           NEW before \in Int, before = At(heard, Len(played) + 1 - m),
           NEW echo \in Int, echo = At(played, Len(played) + 1 - m),
           Replaced(Mix(buffer[turn], before, echo))
    PROVE  ReverbInv'
  <1> DEFINE out == Mix(buffer[turn], before, echo)
             now == tmpOldInput[turn]
             L == Len(played)
  <1>1. /\ buffer' = [buffer EXCEPT ![turn] = out]
        /\ turn' = turn + 1
        /\ heard' = Append(heard, now) /\ played' = Append(played, out)
        /\ delays' = Append(delays, m)
        /\ blockSize' = blockSize /\ oldInput' = oldInput /\ oldOutput' = oldOutput
        /\ position' = position /\ performing' = performing
        /\ tmpOldInput' = tmpOldInput /\ m' = m
    BY DEF Replaced, object
  <1>2. /\ ReverbTypes /\ turn \in 0..(blockSize - 1)
        /\ now = buffer[turn] /\ now \in Int /\ m \in Nat \ {0}
    BY DEF ReverbInv, ReverbTypes, InPlace
  <1>3. out \in Int
    BY <1>2, MixInt
  <1>4. /\ heard \in Seq(Int) /\ played \in Seq(Int) /\ delays \in Seq(Nat \ {0})
        /\ Len(heard) = L /\ Len(delays) = L
    BY <1>2 DEF ReverbTypes
  <1>5. /\ L \in Nat /\ Start \in Nat /\ L = Start + turn
        /\ blockSize \in Nat \ {0} /\ m \in 1..blockSize
    BY <1>2, ReverbNumbers
  <1> HIDE DEF now, out, L
  <1>6. /\ heard' \in Seq(Int) /\ Len(heard') = L + 1 /\ heard'[L + 1] = now
        /\ \A n \in 1..L : heard'[n] = heard[n]
        /\ \A n \in Int : n <= L => At(heard', n) = At(heard, n)
    <2>1. /\ Append(heard, now) \in Seq(Int) /\ Len(Append(heard, now)) = Len(heard) + 1
          /\ Append(heard, now)[Len(heard) + 1] = now
          /\ \A n \in 1..Len(heard) : Append(heard, now)[n] = heard[n]
          /\ \A n \in Int : n <= Len(heard) => At(Append(heard, now), n) = At(heard, n)
      BY <1>2, <1>4, AppendKeeps
    <2> QED BY <1>1, <1>4, <2>1, Zenon
  <1>7. /\ played' \in Seq(Int) /\ Len(played') = L + 1 /\ played'[L + 1] = out
        /\ \A n \in 1..L : played'[n] = played[n]
        /\ \A n \in Int : n <= L => At(played', n) = At(played, n)
    <2>1. /\ Append(played, out) \in Seq(Int) /\ Len(Append(played, out)) = Len(played) + 1
          /\ Append(played, out)[Len(played) + 1] = out
          /\ \A n \in 1..Len(played) : Append(played, out)[n] = played[n]
          /\ \A n \in Int : n <= Len(played) => At(Append(played, out), n) = At(played, n)
      BY <1>3, <1>4, AppendKeeps
    <2> QED BY <1>1, <2>1, Zenon DEF L
  <1>8. /\ delays' \in Seq(Nat \ {0}) /\ Len(delays') = L + 1 /\ delays'[L + 1] = m
        /\ \A n \in 1..L : delays'[n] = delays[n]
    <2>1. /\ Append(delays, m) \in Seq(Nat \ {0}) /\ Len(Append(delays, m)) = Len(delays) + 1
          /\ Append(delays, m)[Len(delays) + 1] = m
          /\ \A n \in 1..Len(delays) : Append(delays, m)[n] = delays[n]
      BY <1>2, <1>4, AppendKeeps
    <2> QED BY <1>1, <1>4, <2>1, Zenon
  <1>9. buffer' \in [0..(blockSize - 1) -> Int]
    BY <1>1, <1>2, <1>3 DEF ReverbTypes
  <1>10. ReverbTypes'
    <2>1. /\ turn + 1 \in 0..blockSize /\ turn + 1 <= L + 1
      BY <1>2, <1>5
    <2>2. /\ Len(heard') = Len(played') /\ Len(delays') = Len(played')
          /\ turn' <= Len(played') /\ turn' \in 0..blockSize'
      BY <1>1, <1>6, <1>7, <1>8, <2>1
    <2> QED BY <1>1, <1>2, <1>6, <1>7, <1>8, <1>9, <2>2, Zenon DEF ReverbTypes
  <1>11. Start' = Start
    <2>1. Start' = (L + 1) - (turn + 1)
      BY <1>1, <1>7 DEF Start
    <2> QED BY <1>2, <1>5, <2>1
  <1>12. LookBack'
    <2> SUFFICES ASSUME NEW k \in 0..(blockSize - 1)
                 PROVE  /\ oldInput[k] = At(heard', Start - blockSize + k + 1)
                        /\ oldOutput[k] = At(played', Start - blockSize + k + 1)
      BY <1>1, <1>11 DEF LookBack
    <2>1. Start - blockSize + k + 1 \in Int /\ Start - blockSize + k + 1 <= L
      BY <1>2, <1>5
    <2> QED BY <1>6, <1>7, <2>1 DEF ReverbInv, LookBack
  <1>13. InPlace'
    <2> SUFFICES ASSUME NEW k \in 0..(blockSize - 1)
                 PROVE  IF k < turn + 1 THEN /\ buffer'[k] = played'[Start + k + 1]
                                             /\ tmpOldInput[k] = heard'[Start + k + 1]
                                        ELSE buffer'[k] = tmpOldInput[k]
      BY <1>1, <1>11 DEF InPlace
    <2>1. CASE k < turn
      <3>1. Start + k + 1 \in 1..L /\ k < turn + 1
        BY <1>2, <1>5, <2>1
      <3>2. buffer'[k] = buffer[k]
        BY <1>1, <1>2, <2>1 DEF ReverbTypes
      <3>3. /\ buffer[k] = played[Start + k + 1]
            /\ tmpOldInput[k] = heard[Start + k + 1]
        BY <2>1 DEF ReverbInv, InPlace
      <3>4. /\ played'[Start + k + 1] = played[Start + k + 1]
            /\ heard'[Start + k + 1] = heard[Start + k + 1]
        BY <1>6, <1>7, <3>1, Zenon
      <3> QED BY <3>1, <3>2, <3>3, <3>4
    <2>2. CASE k = turn
      <3>1. Start + k + 1 = L + 1 /\ buffer'[k] = out /\ tmpOldInput[k] = now
        BY <1>1, <1>2, <1>5, <2>2 DEF ReverbTypes, now
      <3> QED BY <1>2, <1>6, <1>7, <2>2, <3>1
    <2>3. CASE k > turn
      <3>1. buffer'[k] = buffer[k] /\ ~(k < turn + 1) /\ ~(k < turn)
        BY <1>1, <1>2, <2>3 DEF ReverbTypes
      <3>2. buffer[k] = tmpOldInput[k]
        BY <3>1 DEF ReverbInv, InPlace
      <3> QED BY <3>1, <3>2
    <2> QED BY <1>2, <2>1, <2>2, <2>3
  <1>14. ReverbIsFilter'
    <2> SUFFICES ASSUME NEW n \in 1..(L + 1)
                 PROVE  played'[n] = Mix(heard'[n], At(heard', n - delays'[n]),
                                                    At(played', n - delays'[n]))
      BY <1>7 DEF ReverbIsFilter
    <2>1. CASE n = L + 1
      <3>1. L + 1 - m \in Int /\ L + 1 - m <= L
        BY <1>2, <1>5
      <3>2. At(heard', L + 1 - m) = before /\ At(played', L + 1 - m) = echo
        <4>1. At(heard, L + 1 - m) = before /\ At(played, L + 1 - m) = echo
          BY DEF L
        <4> QED BY <1>6, <1>7, <3>1, <4>1, Zenon
      <3>3. out = Mix(now, before, echo)
        BY <1>2 DEF out
      <3>4. played'[n] = out /\ heard'[n] = now /\ n - delays'[n] = L + 1 - m
        BY <1>6, <1>7, <1>8, <1>5, <1>2, <2>1
      <3> QED BY <3>2, <3>3, <3>4, Zenon
    <2>2. CASE n \in 1..L
      <3>1. delays[n] \in Nat \ {0}
        BY <1>4, <2>2
      <3>2. n - delays[n] \in Int /\ n - delays[n] <= L
        BY <1>5, <2>2, <3>1
      <3>3. played[n] = Mix(heard[n], At(heard, n - delays[n]), At(played, n - delays[n]))
        BY <2>2 DEF ReverbInv, ReverbIsFilter, L
      <3>4. /\ At(heard', n - delays[n]) = At(heard, n - delays[n])
            /\ At(played', n - delays[n]) = At(played, n - delays[n])
        BY <1>6, <1>7, <3>2
      <3> QED BY <1>6, <1>7, <1>8, <2>2, <3>3, <3>4
    <2> QED BY <1>5, <2>1, <2>2
  <1> QED BY <1>10, <1>12, <1>13, <1>14 DEF ReverbInv

\* The samples the first loop looks up are m before, in the block before.
LEMMA FromOldBlockStep == ReverbInv /\ FromOldBlock => ReverbInv'
  <1> SUFFICES ASSUME ReverbInv, FromOldBlock PROVE ReverbInv'
    OBVIOUS
  <1> DEFINE k == blockSize - m + turn
  <1>1. ReverbTypes /\ performing /\ turn < m
    BY DEF ReverbInv, FromOldBlock
  <1>2. /\ k \in 0..(blockSize - 1) /\ turn < blockSize
        /\ Start - blockSize + k + 1 = Len(played) + 1 - m
    BY <1>1, ReverbNumbers
  <1>3. oldInput[k] \in Int /\ oldOutput[k] \in Int
    BY <1>1, <1>2 DEF ReverbTypes
  <1>4. /\ oldInput[k] = At(heard, Len(played) + 1 - m)
        /\ oldOutput[k] = At(played, Len(played) + 1 - m)
    BY <1>2 DEF ReverbInv, LookBack
  <1>5. Replaced(Mix(buffer[turn], oldInput[k], oldOutput[k]))
    BY DEF FromOldBlock
  <1> QED BY <1>1, <1>2, <1>3, <1>4, <1>5, ReplacedStep

\* Those of the second are in this block, the outputs in the buffer already.
LEMMA FromThisBlockStep == ReverbInv /\ FromThisBlock => ReverbInv'
  <1> SUFFICES ASSUME ReverbInv, FromThisBlock PROVE ReverbInv'
    OBVIOUS
  <1> DEFINE k == turn - m
  <1>1. ReverbTypes /\ performing /\ m <= turn /\ turn < blockSize
    BY DEF ReverbInv, FromThisBlock
  <1>2. /\ k \in 0..(blockSize - 1) /\ k < turn
        /\ Start + k + 1 = Len(played) + 1 - m
        /\ Len(played) + 1 - m \in Nat \ {0}
    BY <1>1, ReverbNumbers
  <1>3. tmpOldInput[k] \in Int /\ buffer[k] \in Int
    BY <1>1, <1>2 DEF ReverbTypes
  <1>4. tmpOldInput[k] = heard[Start + k + 1] /\ buffer[k] = played[Start + k + 1]
    BY <1>1, <1>2 DEF ReverbInv, InPlace
  <1>5. /\ tmpOldInput[k] = At(heard, Len(played) + 1 - m)
        /\ buffer[k] = At(played, Len(played) + 1 - m)
    BY <1>2, <1>4 DEF At
  <1>6. Replaced(Mix(buffer[turn], tmpOldInput[k], buffer[k]))
    BY DEF FromThisBlock
  <1> QED BY <1>1, <1>2, <1>3, <1>5, <1>6, ReplacedStep

\* Between blocks the arrays change hands, or start again with the streams.
LEMMA ReverbFinishStep == ReverbInv /\ ReverbFinish => ReverbInv'
  <1> SUFFICES ASSUME ReverbInv, ReverbFinish PROVE ReverbInv'
    OBVIOUS
  <1>1. /\ performing /\ turn = blockSize
        /\ oldInput' = tmpOldInput /\ oldOutput' = buffer
        /\ performing' = FALSE /\ turn' = 0
        /\ blockSize' = blockSize /\ position' = position /\ buffer' = buffer
        /\ tmpOldInput' = tmpOldInput /\ m' = m
        /\ heard' = heard /\ played' = played /\ delays' = delays
    BY DEF ReverbFinish, history
  <1>2. ReverbTypes
    BY DEF ReverbInv
  <1>3. ReverbTypes'
    <2>1. 0 \in 0..blockSize /\ 0 <= Len(played)
      BY <1>1, <1>2, ReverbNumbers
    <2> QED BY <1>1, <1>2, <2>1, Zenon DEF ReverbTypes
  <1>4. Start' - blockSize = Start /\ Start \in Nat /\ Start' = Len(played)
    <2>1. Start' = Len(played) - 0
      BY <1>1 DEF Start
    <2> QED BY <1>1, <1>2, <2>1, ReverbNumbers
  <1>5. LookBack'
    <2> SUFFICES ASSUME NEW k \in 0..(blockSize - 1)
                 PROVE  /\ tmpOldInput[k] = At(heard, Start + k + 1)
                        /\ buffer[k] = At(played, Start + k + 1)
      BY <1>1, <1>4 DEF LookBack
    <2>1. k < turn /\ Start + k + 1 \in Nat \ {0}
      BY <1>1, <1>2, <1>4 DEF ReverbTypes
    <2> QED BY <1>1, <2>1 DEF ReverbInv, InPlace, At
  <1>6. InPlace' /\ ReverbIsFilter'
    BY <1>1 DEF InPlace, ReverbInv, ReverbIsFilter, At
  <1> QED BY <1>3, <1>5, <1>6 DEF ReverbInv

\* Empty streams and silent arrays are a beginning.
LEMMA ReverbSilent ==
    ASSUME NEW n \in ReverbBlocks
    PROVE  /\ n \in Nat \ {0} /\ Zeros(n) \in [0..(n - 1) -> Int]
           /\ \A k \in 0..(n - 1) : Zeros(n)[k] = 0 /\ At(<<>>, 0 - n + k + 1) = 0
           /\ Len(<<>>) = 0
  BY ReverbAssumption DEF Zeros, At

\* A new object has heard nothing.
LEMMA ReverbInitInv == ReverbInit => ReverbInv
  <1> SUFFICES ASSUME ReverbInit PROVE ReverbInv
    OBVIOUS
  <1>1. ReverbTypes
    <2>1. /\ <<>> \in Seq(Int) /\ <<>> \in Seq(Nat \ {0}) /\ Len(<<>>) = 0
      OBVIOUS
    <2>2. /\ blockSize \in Nat \ {0} /\ Zeros(blockSize) \in [0..(blockSize - 1) -> Int]
      BY ReverbSilent DEF ReverbInit
    <2>3. 0 \in 0..blockSize /\ 1 \in 1..blockSize /\ 0 <= 0 /\ Positions \in 0..Positions
      BY <2>2, ReverbAssumption
    <2> QED BY <2>1, <2>2, <2>3, Zenon DEF ReverbInit, ReverbTypes
  <1>2. LookBack
    BY ReverbSilent DEF ReverbInit, LookBack, Start
  <1>3. InPlace /\ ReverbIsFilter
    BY ReverbSilent DEF ReverbInit, InPlace, ReverbIsFilter
  <1> QED BY <1>1, <1>2, <1>3 DEF ReverbInv

\* The activity gives the object another block size between two blocks.
LEMMA ReverbSetBlockSizeStep == ReverbInv /\ ReverbSetBlockSize => ReverbInv'
  <1> SUFFICES ASSUME ReverbInv, ReverbSetBlockSize PROVE ReverbInv'
    OBVIOUS
  <1>1. turn' = 0 /\ performing' = FALSE /\ position' \in 0..Positions
    BY DEF ReverbInv, ReverbTypes, ReverbSetBlockSize
  <1>2. ReverbTypes'
    <2>1. /\ <<>> \in Seq(Int) /\ <<>> \in Seq(Nat \ {0}) /\ Len(<<>>) = 0
      OBVIOUS
    <2>2. /\ blockSize' \in Nat \ {0} /\ Zeros(blockSize') \in [0..(blockSize' - 1) -> Int]
      BY ReverbSilent DEF ReverbSetBlockSize
    <2>3. 0 \in 0..blockSize' /\ 1 \in 1..blockSize' /\ 0 <= 0
      BY <1>1, <2>2, SMT
    <2> QED BY <1>1, <2>1, <2>2, <2>3, Zenon DEF ReverbSetBlockSize, ReverbTypes
  <1>3. LookBack'
    BY <1>1, ReverbSilent DEF ReverbSetBlockSize, LookBack, Start
  <1>4. InPlace' /\ ReverbIsFilter'
    BY <1>1, ReverbSilent DEF ReverbSetBlockSize, InPlace, ReverbIsFilter
  <1> QED BY <1>2, <1>3, <1>4 DEF ReverbInv

\* A block comes in.
LEMMA ReverbCallStep == ReverbInv /\ ReverbCall => ReverbInv'
  <1> SUFFICES ASSUME ReverbInv, ReverbCall PROVE ReverbInv'
    OBVIOUS
  <1>1. /\ turn' = turn /\ turn = 0 /\ performing' = TRUE /\ tmpOldInput' = buffer' /\ m' = Delay
        /\ blockSize' = blockSize /\ oldInput' = oldInput /\ oldOutput' = oldOutput
        /\ position' = position /\ heard' = heard /\ played' = played /\ delays' = delays
    BY DEF ReverbInv, ReverbTypes, ReverbCall, object, history
  <1>2. buffer' \in [0..(blockSize - 1) -> Int]
    BY ReverbAssumption DEF ReverbCall
  <1>3. m' \in 1..blockSize
    BY <1>1, DelayInBlock DEF ReverbInv, ReverbTypes
  <1>4. ReverbTypes'
    BY <1>1, <1>2, <1>3 DEF ReverbInv, ReverbTypes
  <1>5. InPlace'
    BY <1>1 DEF InPlace
  <1>6. LookBack' /\ ReverbIsFilter'
    BY <1>1 DEF ReverbInv, LookBack, Start, ReverbIsFilter, At
  <1> QED BY <1>4, <1>5, <1>6 DEF ReverbInv

\* The slider moves between two blocks or within one: the delay of the block in
\* hand was read before.
LEMMA ReverbSetParamsStep == ReverbInv /\ ReverbSetParams => ReverbInv'
  BY DEF ReverbInv, ReverbTypes, LookBack, Start, InPlace, ReverbIsFilter, At,
         ReverbSetParams, object, history

\* Between the steps nothing changes.
LEMMA ReverbStill == ReverbInv /\ UNCHANGED reverbVars => ReverbInv'
  BY DEF ReverbInv, ReverbTypes, LookBack, Start, InPlace, ReverbIsFilter, At, reverbVars

\* Computed in place and cut into blocks of any size, with the slider moved at any
\* time, the reverberation is the filter's difference equation over the whole stream.
THEOREM ReverbIsFilterHolds == ReverbSpec => []ReverbIsFilter
  <1>1. ReverbInv /\ [ReverbNext]_reverbVars => ReverbInv'
    BY FromOldBlockStep, FromThisBlockStep, ReverbFinishStep, ReverbSetBlockSizeStep,
       ReverbSetParamsStep, ReverbCallStep, ReverbStill DEF ReverbNext
  <1>2. ReverbInv => ReverbIsFilter
    BY DEF ReverbInv
  <1> QED BY ReverbInitInv, <1>1, <1>2, PTL DEF ReverbSpec

-----------------------------------------------------------------------------
\* The FFT: recursion. The library has induction over the naturals for a predicate,
\* which no prover here can take; for a set it is a consequence of the order of the
\* naturals being well founded, and the recursive functions of FftKernel follow from it.

\* Induction over the naturals, for a set in place of a predicate.
LEMMA SetInduction ==
    ASSUME NEW S, 0 \in S, \A n \in Nat : n \in S => n + 1 \in S
    PROVE  Nat \subseteq S
  <1> SUFFICES ASSUME ~(Nat \subseteq S) PROVE FALSE
    OBVIOUS
  <1> DEFINE T == {n \in Nat : n \notin S}
             Less == OpToRel(<, Nat)
  <1>1. T \subseteq Nat /\ T # {}
    OBVIOUS
  <1>2. Less = {r \in Nat \X Nat : r[1] < r[2]}
    BY Zenon DEF OpToRel
  <1>3. IsWellFoundedOn(Less, Nat)
    BY NatLessThanWellFounded, Zenon
  <1> HIDE DEF Less
  <1>4. PICK least \in T : \A n \in T : ~(<<n, least>> \in Less)
    <2> HIDE DEF T
    <2> QED BY <1>1, <1>3, WFMin, Zenon
  <1>5. least \in Nat /\ least \notin S /\ least # 0
    OBVIOUS
  <1>6. least - 1 \in Nat /\ least - 1 \notin S
    BY <1>5
  <1>7. <<least - 1, least>> \in Less
    BY <1>2, <1>5, <1>6
  <1> QED BY <1>4, <1>6, <1>7

\* f is what a recursion from base by step comes to, up to n.
Recursed(f, n, base, step) ==
    f[0] = base /\ \A k \in 0..(n - 1) : f[k + 1] = step[k][f[k]]

\* Two functions that begin alike and go on alike are alike, as far as they go.
Alike(f, g, n) == \A k \in 0..n : f[k] = g[k]

\* A recursion has one outcome.
LEMMA OneRecursion ==
    ASSUME NEW n \in Nat, NEW base, NEW step, NEW f, NEW g,
           Recursed(f, n, base, step), Recursed(g, n, base, step)
    PROVE  Alike(f, g, n)
  <1> DEFINE S == {k \in Nat : k <= n => f[k] = g[k]}
  <1>1. 0 \in S
    BY DEF Recursed
  <1>2. \A k \in Nat : k \in S => k + 1 \in S
    <2> SUFFICES ASSUME NEW k \in Nat, k \in S, k + 1 <= n PROVE f[k + 1] = g[k + 1]
      OBVIOUS
    <2>1. k \in 0..(n - 1) /\ f[k] = g[k]
      OBVIOUS
    <2> QED BY <2>1 DEF Recursed
  <1>3. Nat \subseteq S
    <2> HIDE DEF S
    <2> QED BY <1>1, <1>2, SetInduction
  <1> QED BY <1>3 DEF Alike

\* A recursion comes to every number.
LEMMA RecursionReaches ==
    ASSUME NEW V, NEW base \in V, NEW step \in [Nat -> [V -> V]]
    PROVE  \A n \in Nat : \E f \in [0..n -> V] : Recursed(f, n, base, step)
  <1> DEFINE S == {n \in Nat : \E f \in [0..n -> V] : Recursed(f, n, base, step)}
  <1>1. 0 \in S
    <2> DEFINE f == [k \in 0..0 |-> base]
    <2>1. f \in [0..0 -> V] /\ Recursed(f, 0, base, step)
      BY DEF Recursed
    <2> QED BY <2>1
  <1>2. \A n \in Nat : n \in S => n + 1 \in S
    <2> SUFFICES ASSUME NEW n \in Nat, n \in S PROVE n + 1 \in S
      OBVIOUS
    <2>1. PICK f \in [0..n -> V] : Recursed(f, n, base, step)
      OBVIOUS
    <2> DEFINE g == [k \in 0..(n + 1) |-> IF k <= n THEN f[k] ELSE step[n][f[n]]]
    <2>2. f[n] \in V /\ step[n] \in [V -> V]
      OBVIOUS
    <2>3. g \in [0..(n + 1) -> V]
      BY <2>2
    <2>4. g[0] = base
      BY <2>1 DEF Recursed
    <2>5. ASSUME NEW k \in 0..n PROVE g[k + 1] = step[k][g[k]]
      <3>1. CASE k < n
        <4>1. k \in 0..(n - 1) /\ f[k + 1] = step[k][f[k]]
          BY <2>1, <3>1 DEF Recursed
        <4> QED BY <4>1
      <3>2. CASE k = n
        BY <3>2
      <3> QED BY <3>1, <3>2
    <2>6. Recursed(g, n + 1, base, step)
      <3> HIDE DEF g
      <3> QED BY <2>4, <2>5 DEF Recursed
    <2> HIDE DEF g
    <2> QED BY <2>3, <2>6
  <1>3. Nat \subseteq S
    <2> HIDE DEF S
    <2> QED BY <1>1, <1>2, SetInduction
  <1> QED BY <1>3

\* So it defines a function on all of them.
Steps(step, V) == step \in [Nat -> [V -> V]]
Recurses(V, base, step) ==
    \E f \in [Nat -> V] : f[0] = base /\ \A n \in Nat : f[n + 1] = step[n][f[n]]

\* A recursion whose steps stay in V defines a function into V.
LEMMA Recursion ==
    ASSUME NEW V, NEW base, base \in V, NEW step, Steps(step, V)
    PROVE  Recurses(V, base, step)
  <1> DEFINE part == [n \in Nat |-> CHOOSE f \in [0..n -> V] : Recursed(f, n, base, step)]
             f == [n \in Nat |-> part[n][n]]
  <1>1. ASSUME NEW n \in Nat
        PROVE  part[n] \in [0..n -> V] /\ Recursed(part[n], n, base, step)
    BY RecursionReaches DEF Steps
  <1> HIDE DEF part
  <1>2. f \in [Nat -> V]
    BY <1>1
  <1>3. f[0] = base
    BY <1>1 DEF Recursed
  <1>4. ASSUME NEW n \in Nat PROVE f[n + 1] = step[n][f[n]]
    <2>1. Recursed(part[n], n, base, step) /\ Recursed(part[n + 1], n + 1, base, step)
      BY <1>1
    <2>2. Recursed(part[n + 1], n, base, step)
      BY <2>1 DEF Recursed
    <2>3. Alike(part[n], part[n + 1], n)
      BY <2>1, <2>2, OneRecursion
    <2>4. part[n + 1][n + 1] = step[n][part[n + 1][n]]
      BY <2>1 DEF Recursed
    <2> QED BY <2>3, <2>4 DEF Alike
  <1> HIDE DEF f
  <1> QED BY <1>2, <1>3, <1>4 DEF Recurses

\* The recursive functions of FftKernel satisfy their equations.
LEMMA TwoToType ==
    /\ TwoTo \in [Nat -> Nat \ {0}]
    /\ TwoTo[0] = 1 /\ \A b \in Nat : TwoTo[b + 1] = 2 * TwoTo[b]
  <1> DEFINE step == [n \in Nat |-> [v \in Nat \ {0} |-> 2 * v]]
  <1>1. PICK f \in [Nat -> Nat \ {0}] : f[0] = 1 /\ \A n \in Nat : f[n + 1] = step[n][f[n]]
    <2>1. Steps(step, Nat \ {0})
      BY DEF Steps
    <2> HIDE DEF step
    <2>2. Recurses(Nat \ {0}, 1, step)
      BY <2>1, Recursion
    <2> QED BY <2>2 DEF Recurses
  <1>2. f = [b \in Nat |-> IF b = 0 THEN 1 ELSE 2 * f[b - 1]]
    <2> SUFFICES ASSUME NEW b \in Nat \ {0} PROVE f[b] = 2 * f[b - 1]
      BY <1>1
    <2> DEFINE n == b - 1
    <2>1. n \in Nat /\ b = n + 1
      OBVIOUS
    <2> HIDE DEF n
    <2>2. f[n + 1] = step[n][f[n]] /\ f[n] \in Nat \ {0}
      BY <1>1, <2>1
    <2>3. f[n + 1] = 2 * f[n]
      BY <2>1, <2>2
    <2> QED BY <2>1, <2>3 DEF n
  <1>3. TwoTo = [b \in Nat |-> IF b = 0 THEN 1 ELSE 2 * TwoTo[b - 1]]
    BY <1>2 DEF TwoTo
  <1>4. TwoTo[0] = 1 /\ \A b \in Nat : TwoTo[b + 1] = 2 * TwoTo[b]
    BY <1>3
  <1> DEFINE S == {b \in Nat : TwoTo[b] \in Nat \ {0}}
  <1>5. Nat \subseteq S
    <2>1. 0 \in S /\ \A n \in Nat : n \in S => n + 1 \in S
      BY <1>4
    <2> HIDE DEF S
    <2> QED BY <2>1, SetInduction
  <1> QED BY <1>3, <1>4, <1>5

\* The powers of the generator are elements of the field, each the next of the last.
LEMMA PowerType ==
    /\ Power \in [Nat -> 0..(Prime - 1)]
    /\ Power[0] = 1 /\ \A e \in Nat : Power[e + 1] = (Generator * Power[e]) % Prime
  <1> DEFINE step == [n \in Nat |-> [v \in Nat |-> (Generator * v) % Prime]]
  <1>0. Prime \in Nat /\ Prime > 2 /\ Generator \in Nat
    BY FftAssumption
  <1>1. PICK f \in [Nat -> Nat] : f[0] = 1 /\ \A n \in Nat : f[n + 1] = step[n][f[n]]
    <2>1. Steps(step, Nat)
      <3>1. ASSUME NEW v \in Nat PROVE (Generator * v) % Prime \in Nat
        <4>1. Generator * v \in Nat
          BY <1>0
        <4> QED BY <1>0, <4>1
      <3> QED BY <3>1 DEF Steps
    <2> HIDE DEF step
    <2>2. Recurses(Nat, 1, step)
      BY <2>1, Recursion
    <2> QED BY <2>2 DEF Recurses
  <1>2. f = [e \in Nat |-> IF e = 0 THEN 1 ELSE (Generator * f[e - 1]) % Prime]
    <2> SUFFICES ASSUME NEW e \in Nat \ {0} PROVE f[e] = (Generator * f[e - 1]) % Prime
      BY <1>1
    <2> DEFINE n == e - 1
    <2>1. n \in Nat /\ e = n + 1
      OBVIOUS
    <2> HIDE DEF n
    <2>2. f[n + 1] = step[n][f[n]] /\ f[n] \in Nat
      BY <1>1, <2>1
    <2>3. f[n + 1] = (Generator * f[n]) % Prime
      BY <2>1, <2>2
    <2>4. e - 1 = n
      BY <2>1
    <2> QED BY <2>1, <2>3, <2>4
  <1>3. Power = [e \in Nat |-> IF e = 0 THEN 1 ELSE (Generator * Power[e - 1]) % Prime]
    BY <1>2 DEF Power
  <1>4. Power[0] = 1
    BY <1>3
  <1>5. ASSUME NEW e \in Nat PROVE Power[e + 1] = (Generator * Power[e]) % Prime
    BY <1>3
  <1> DEFINE S == {e \in Nat : Power[e] \in 0..(Prime - 1)}
  <1>6. Nat \subseteq S
    <2>1. 0 \in S
      BY <1>0, <1>4
    <2>2. ASSUME NEW e \in Nat, e \in S PROVE e + 1 \in S
      <3>1. Generator * Power[e] \in Nat
        BY <1>0, <2>2
      <3>2. (Generator * Power[e]) % Prime \in 0..(Prime - 1)
        BY <1>0, <3>1
      <3> QED BY <3>2, <1>5
    <2> HIDE DEF S
    <2> QED BY <2>1, <2>2, SetInduction
  <1>7. Power = [e \in Nat |-> Power[e]]
    BY <1>3
  <1> QED BY <1>4, <1>5, <1>6, <1>7

\* The reversal of the lowest bits: each turn of the loop puts the next bit at the end.
LEMMA ReversedType ==
    /\ Reversed \in [Nat -> [Nat -> Nat]]
    /\ \A i \in Nat : Reversed[0][i] = 0
    /\ \A b, i \in Nat :
           Reversed[b + 1][i] = 2 * Reversed[b][i] + ((i \div TwoTo[b]) % 2)
  <1> DEFINE Turned(n, v) == [i \in Nat |-> 2 * v[i] + ((i \div TwoTo[n]) % 2)]
             step == [n \in Nat |-> [v \in [Nat -> Nat] |-> Turned(n, v)]]
             zero == [i \in Nat |-> 0]
  <1>1. ASSUME NEW n \in Nat, NEW v \in [Nat -> Nat] PROVE Turned(n, v) \in [Nat -> Nat]
    <2> SUFFICES ASSUME NEW i \in Nat PROVE 2 * v[i] + ((i \div TwoTo[n]) % 2) \in Nat
      OBVIOUS
    <2>1. TwoTo[n] \in Nat \ {0}
      BY TwoToType
    <2>2. i \div TwoTo[n] \in Nat /\ v[i] \in Nat
      BY <2>1
    <2> QED BY <2>2
  <1>2. PICK f \in [Nat -> [Nat -> Nat]] :
            f[0] = zero /\ \A n \in Nat : f[n + 1] = step[n][f[n]]
    <2>1. Steps(step, [Nat -> Nat])
      <3> HIDE DEF Turned
      <3> QED BY <1>1 DEF Steps
    <2>2. zero \in [Nat -> Nat]
      OBVIOUS
    <2> HIDE DEF step, zero
    <2>3. Recurses([Nat -> Nat], zero, step)
      BY <2>1, <2>2, Recursion
    <2> QED BY <2>3 DEF Recurses
  <1>3. ASSUME NEW n \in Nat PROVE f[n + 1] = Turned(n, f[n])
    <2> HIDE DEF Turned
    <2>1. f[n] \in [Nat -> Nat] /\ f[n + 1] = step[n][f[n]]
      BY <1>2
    <2> QED BY <2>1
  <1>4. f = [j \in Nat |-> IF j = 0 THEN zero ELSE Turned(j - 1, f[j - 1])]
    <2> HIDE DEF Turned, zero
    <2> SUFFICES ASSUME NEW j \in Nat \ {0} PROVE f[j] = Turned(j - 1, f[j - 1])
      BY <1>2
    <2> DEFINE n == j - 1
    <2>1. n \in Nat /\ j = n + 1
      OBVIOUS
    <2> HIDE DEF n
    <2>2. f[n + 1] = Turned(n, f[n])
      BY <1>3, <2>1
    <2>3. j - 1 = n
      BY <2>1
    <2> QED BY <2>1, <2>2, <2>3
  <1>5. Reversed = [j \in Nat |-> IF j = 0 THEN zero ELSE Turned(j - 1, Reversed[j - 1])]
    BY <1>4 DEF Reversed
  <1>6. Reversed[0] = zero /\ \A n \in Nat : Reversed[n + 1] = Turned(n, Reversed[n])
    <2> HIDE DEF Turned, zero
    <2> QED BY <1>5
  <1> DEFINE S == {b \in Nat : Reversed[b] \in [Nat -> Nat]}
  <1>7. Nat \subseteq S
    <2>1. 0 \in S
      BY <1>6
    <2>2. ASSUME NEW n \in Nat, n \in S PROVE n + 1 \in S
      <3> HIDE DEF Turned
      <3>0. Reversed[n] \in [Nat -> Nat]
        BY <2>2
      <3>1. Turned(n, Reversed[n]) \in [Nat -> Nat]
        BY <1>1, <3>0
      <3>2. Reversed[n + 1] = Turned(n, Reversed[n])
        BY <1>6
      <3>3. Reversed[n + 1] \in [Nat -> Nat]
        BY ONLY <3>1, <3>2, Zenon
      <3>4. n + 1 \in Nat
        OBVIOUS
      <3> QED BY ONLY <3>3, <3>4, Zenon
    <2> HIDE DEF S
    <2> QED BY <2>1, <2>2, SetInduction
  <1>8. Reversed = [n \in Nat |-> Reversed[n]]
    <2> HIDE DEF Turned, zero
    <2> QED BY <1>5
  <1>9. Reversed \in [Nat -> [Nat -> Nat]]
    BY <1>7, <1>8
  <1>10. ASSUME NEW i \in Nat PROVE Reversed[0][i] = 0
    BY <1>6
  <1>11. ASSUME NEW n \in Nat, NEW i \in Nat
         PROVE  Reversed[n + 1][i] = 2 * Reversed[n][i] + ((i \div TwoTo[n]) % 2)
    <2>1. Reversed[n + 1] = Turned(n, Reversed[n])
      <3> HIDE DEF Turned, zero
      <3> QED BY <1>6
    <2>2. Turned(n, Reversed[n])[i] = 2 * Reversed[n][i] + ((i \div TwoTo[n]) % 2)
      BY Zenon
    <2> HIDE DEF Turned
    <2> QED BY <2>1, <2>2
  <1> QED BY <1>9, <1>10, <1>11, Zenon

-----------------------------------------------------------------------------
\* Division with remainder, and congruence modulo Prime.

\* A natural number is its quotient and its remainder.
LEMMA Division ==
    ASSUME NEW a \in Nat, NEW n \in Nat \ {0}
    PROVE  /\ a \div n \in Nat /\ a % n \in 0..(n - 1)
           /\ a = n * (a \div n) + (a % n)
  <1>1. a \div n \in Nat
    BY SMT
  <1>2. a % n \in 0..(n - 1)
    BY SMT
  <1>3. a % n = a - n * (a \div n) /\ n * (a \div n) \in Nat
    BY SMT
  <1> DEFINE q == n * (a \div n)
             r == a % n
  <1>4. r = a - q /\ q \in Nat
    BY <1>3
  <1> HIDE DEF q, r
  <1>5. a = q + r
    BY <1>4, SMT
  <1> QED BY <1>1, <1>2, <1>5, Zenon DEF q, r

\* An integer is, too: the remainder is not negative.
LEMMA IntDivision ==
    ASSUME NEW a \in Int, NEW n \in Nat \ {0}
    PROVE  /\ a \div n \in Int /\ a % n \in 0..(n - 1)
           /\ a = n * (a \div n) + (a % n)
  <1>1. a \div n \in Int
    BY SMT
  <1>2. a % n \in 0..(n - 1)
    BY SMT
  <1>3. a % n = a - n * (a \div n) /\ n * (a \div n) \in Int
    BY SMT
  <1> DEFINE q == n * (a \div n)
             r == a % n
  <1>4. r = a - q /\ q \in Int
    BY <1>3
  <1> HIDE DEF q, r
  <1>5. a = q + r
    BY <1>4, SMT
  <1> QED BY <1>1, <1>2, <1>5, Zenon DEF q, r

\* What is written as a quotient and a remainder has these.
LEMMA DivisionUnique ==
    ASSUME NEW n \in Nat \ {0}, NEW q \in Int, NEW r \in 0..(n - 1)
    PROVE  (n * q + r) \div n = q /\ (n * q + r) % n = r
  <1> DEFINE a == n * q + r
             d == a \div n
             o == a % n
  <1>1. n * q \in Int /\ a \in Int
    BY SMT
  <1>2. d \in Int /\ o \in 0..(n - 1) /\ a = n * d + o
    BY <1>1, IntDivision
  <1> HIDE DEF d, o
  <1>3. q = d
    <2>1. CASE q >= d + 1
      <3>1. n * q >= n * (d + 1)
        BY <1>2, <2>1, SMT
      <3>2. n * (d + 1) = n * d + n
        BY <1>2, SMT
      <3> QED BY <1>1, <1>2, <3>1, <3>2, SMT
    <2>2. CASE d >= q + 1
      <3>1. n * d >= n * (q + 1)
        BY <1>2, <2>2, SMT
      <3>2. n * (q + 1) = n * q + n
        BY SMT
      <3> QED BY <1>1, <1>2, <3>1, <3>2, SMT
    <2> QED BY <1>2, <2>1, <2>2, SMT
  <1>4. r = o
    BY <1>1, <1>2, <1>3, SMT
  <1> QED BY <1>3, <1>4 DEF d, o

\* A number below the divisor is its own remainder.
LEMMA SmallRemainder ==
    ASSUME NEW n \in Nat \ {0}, NEW r \in 0..(n - 1)
    PROVE  r \div n = 0 /\ r % n = r
  <1> DEFINE q == 0
  <1>1. q \in Int /\ r = n * q + r
    OBVIOUS
  <1> HIDE DEF q
  <1>2. (n * q + r) \div n = q /\ (n * q + r) % n = r
    BY <1>1, DivisionUnique
  <1> QED BY <1>1, <1>2 DEF q

\* Congruence modulo Prime.
Congruent(a, b) == \E k \in Int : a = b + k * Prime

\* The field has more than two elements.
LEMMA PrimeType == Prime \in Nat \ {0} /\ Prime > 2
  BY FftAssumption

\* Congruence is an equivalence that sums and products respect.
LEMMA CongruentRefl == ASSUME NEW a \in Int PROVE Congruent(a, a)
  <1>1. a = a + 0 * Prime
    BY PrimeType
  <1> QED BY <1>1 DEF Congruent

\* It is symmetric.
LEMMA CongruentSym ==
    ASSUME NEW a \in Int, NEW b \in Int, Congruent(a, b) PROVE Congruent(b, a)
  <1>1. PICK k \in Int : a = b + k * Prime
    BY DEF Congruent
  <1>2. -k \in Int /\ b = a + (-k) * Prime
    BY <1>1, PrimeType
  <1> QED BY <1>2 DEF Congruent

\* It is transitive.
LEMMA CongruentTrans ==
    ASSUME NEW a \in Int, NEW b \in Int, NEW c \in Int, Congruent(a, b), Congruent(b, c)
    PROVE  Congruent(a, c)
  <1>1. PICK k \in Int : a = b + k * Prime
    BY DEF Congruent
  <1>2. PICK j \in Int : b = c + j * Prime
    BY DEF Congruent
  <1>3. k + j \in Int /\ a = c + (k + j) * Prime
    BY <1>1, <1>2, PrimeType
  <1> QED BY <1>3 DEF Congruent

\* Sums and differences of congruent numbers are congruent.
LEMMA CongruentSum ==
    ASSUME NEW a \in Int, NEW b \in Int, NEW c \in Int, NEW d \in Int,
           Congruent(a, b), Congruent(c, d)
    PROVE  Congruent(a + c, b + d) /\ Congruent(a - c, b - d)
  <1>1. PICK k \in Int : a = b + k * Prime
    BY DEF Congruent
  <1>2. PICK j \in Int : c = d + j * Prime
    BY DEF Congruent
  <1>3. k + j \in Int /\ a + c = b + d + (k + j) * Prime
    BY <1>1, <1>2, PrimeType
  <1>4. k - j \in Int /\ a - c = b - d + (k - j) * Prime
    BY <1>1, <1>2, PrimeType
  <1> QED BY <1>3, <1>4 DEF Congruent

\* Products of congruent numbers are congruent.
LEMMA CongruentProduct ==
    ASSUME NEW a \in Int, NEW b \in Int, NEW c \in Int, NEW d \in Int,
           Congruent(a, b), Congruent(c, d)
    PROVE  Congruent(a * c, b * d)
  <1>1. PICK k \in Int : a = b + k * Prime
    BY DEF Congruent
  <1>2. PICK j \in Int : c = d + j * Prime
    BY DEF Congruent
  <1> DEFINE l == b * j + k * d + k * j * Prime
  <1>3. l \in Int /\ a * c = b * d + l * Prime
    BY <1>1, <1>2, PrimeType
  <1> HIDE DEF l
  <1> QED BY <1>3 DEF Congruent

\* A number is congruent to its remainder.
LEMMA CongruentRemainder == ASSUME NEW a \in Int PROVE Congruent(a % Prime, a)
  <1> DEFINE d == a \div Prime
             r == a % Prime
  <1>1. d \in Int /\ r \in Int /\ a = Prime * d + r
    BY IntDivision, PrimeType
  <1> HIDE DEF d, r
  <1>2. -d \in Int /\ r = a + (-d) * Prime
    BY <1>1, PrimeType
  <1> QED BY <1>2 DEF Congruent, r

\* Congruent numbers have the same remainder.
LEMMA RemainderCongruent ==
    ASSUME NEW a \in Int, NEW b \in Int, Congruent(a, b) PROVE a % Prime = b % Prime
  <1>1. PICK k \in Int : a = b + k * Prime
    BY DEF Congruent
  <1> DEFINE d == b \div Prime
             r == b % Prime
  <1>2. d \in Int /\ r \in 0..(Prime - 1) /\ b = Prime * d + r
    BY IntDivision, PrimeType
  <1> HIDE DEF d, r
  <1>3. d + k \in Int /\ a = Prime * (d + k) + r
    BY <1>1, <1>2, PrimeType
  <1>4. a % Prime = r
    BY <1>2, <1>3, DivisionUnique, PrimeType
  <1> QED BY <1>4 DEF r

-----------------------------------------------------------------------------
\* Powers of the generator, and of two.

\* Powers multiply.
LEMMA PowerSum ==
    ASSUME NEW a \in Nat, NEW b \in Nat
    PROVE  Congruent(Power[a + b], Power[a] * Power[b])
  <1> DEFINE S == {n \in Nat : Congruent(Power[a + n], Power[a] * Power[n])}
  <1>0. \A e \in Nat : Power[e] \in Int
    BY PowerType, PrimeType
  <1>1. 0 \in S
    <2>1. Power[a] = Power[a] * Power[0] /\ a + 0 = a
      BY <1>0, PowerType
    <2> QED BY <1>0, <2>1, CongruentRefl
  <1>2. ASSUME NEW n \in Nat, n \in S PROVE n + 1 \in S
    <2> DEFINE u == Power[a]
               v == Power[n]
               w == Power[a + n]
               u1 == Power[n + 1]
               w1 == Power[a + n + 1]
    <2>1. a + n \in Nat /\ w1 = (Generator * w) % Prime /\ u1 = (Generator * v) % Prime
      BY PowerType
    <2>2. u \in Int /\ v \in Int /\ w \in Int /\ u1 \in Int /\ w1 \in Int
      BY <1>0, <2>1
    <2>3. Congruent(w, u * v)
      BY <1>2
    <2> HIDE DEF u, v, w, u1, w1
    <2>4. Generator \in Int /\ Generator * w \in Int /\ Generator * v \in Int /\ u * v \in Int
      BY <2>2, FftAssumption
    <2>5. Congruent(w1, Generator * w) /\ Congruent(u1, Generator * v)
      BY <2>1, <2>4, CongruentRemainder
    <2>6. Congruent(Generator * w, Generator * (u * v))
      BY <2>2, <2>3, <2>4, CongruentRefl, CongruentProduct
    <2>7. Congruent(u * u1, u * (Generator * v))
      BY <2>2, <2>4, <2>5, CongruentRefl, CongruentProduct
    <2>8. u * (Generator * v) = Generator * (u * v) /\ u * u1 \in Int /\ Generator * (u * v) \in Int
      BY <2>2, <2>4
    <2>9. Congruent(Generator * (u * v), u * u1)
      BY <2>7, <2>8, CongruentSym
    <2>10. Congruent(w1, Generator * (u * v))
      BY <2>2, <2>4, <2>5, <2>6, <2>8, CongruentTrans
    <2>11. Congruent(w1, u * u1)
      BY <2>2, <2>8, <2>9, <2>10, CongruentTrans
    <2>12. a + (n + 1) = a + n + 1 /\ n + 1 \in Nat
      OBVIOUS
    <2> QED BY <2>11, <2>12 DEF u, u1, w1
  <1>3. Nat \subseteq S
    <2> HIDE DEF S
    <2> QED BY <1>1, <1>2, SetInduction
  <1> QED BY <1>3

\* Twice half way round is all the way.
LEMMA PowerRound == Congruent(Power[Prime - 1], 1)
  <1> DEFINE h == (Prime - 1) \div 2
  <1>1. Prime - 1 \in Nat /\ h \in Nat /\ h + h = Prime - 1
    <2>1. Prime - 1 \in Nat /\ (Prime - 1) % 2 = 0
      BY FftAssumption
    <2>2. h \in Nat /\ Prime - 1 = 2 * h + ((Prime - 1) % 2)
      BY <2>1, Division
    <2> HIDE DEF h
    <2> QED BY <2>1, <2>2
  <1>2. Power[h] = Prime - 1
    BY FftAssumption
  <1> HIDE DEF h
  <1>3. Congruent(Power[Prime - 1], (Prime - 1) * (Prime - 1))
    BY <1>1, <1>2, PowerSum
  <1>4. Congruent((Prime - 1) * (Prime - 1), 1)
    <2> DEFINE k == Prime - 2
    <2>1. k \in Int /\ (Prime - 1) * (Prime - 1) = 1 + k * Prime
      BY PrimeType
    <2> HIDE DEF k
    <2> QED BY <2>1 DEF Congruent
  <1>5. Power[Prime - 1] \in Int /\ (Prime - 1) * (Prime - 1) \in Int
    BY <1>1, PowerType, PrimeType
  <1> QED BY <1>3, <1>4, <1>5, CongruentTrans

\* Powers of two divide greater ones.
LEMMA TwoToSum ==
    ASSUME NEW a \in Nat, NEW b \in Nat PROVE TwoTo[a + b] = TwoTo[a] * TwoTo[b]
  <1> DEFINE S == {n \in Nat : TwoTo[a + n] = TwoTo[a] * TwoTo[n]}
  <1>1. 0 \in S
    <2>1. a + 0 = a /\ TwoTo[a] \in Nat
      BY TwoToType
    <2> QED BY <2>1, TwoToType
  <1>2. ASSUME NEW n \in Nat, n \in S PROVE n + 1 \in S
    <2> DEFINE u == TwoTo[a]
               v == TwoTo[n]
    <2>1. TwoTo[a + n + 1] = 2 * (u * v) /\ TwoTo[n + 1] = 2 * v /\ u \in Nat /\ v \in Nat
      BY <1>2, TwoToType
    <2> HIDE DEF u, v
    <2>2. TwoTo[a + (n + 1)] = u * TwoTo[n + 1]
      BY <2>1
    <2> QED BY <2>2 DEF u
  <1>3. Nat \subseteq S
    <2> HIDE DEF S
    <2> QED BY <1>1, <1>2, SetInduction
  <1> QED BY <1>3

\* The order of the root divides the order of the group.
Stride(o) == (Prime - 1) \div TwoTo[o]

\* The stride is exact, and half of the order goes half way round the group.
LEMMA StrideExact ==
    ASSUME NEW o \in 0..MaxBits
    PROVE  /\ TwoTo[o] \in Nat \ {0} /\ Stride(o) \in Nat /\ Stride(o) * TwoTo[o] = Prime - 1
           /\ o > 0 => \E half \in Nat \ {0} :
                  /\ TwoTo[o] = 2 * half /\ half = TwoTo[o - 1]
                  /\ Stride(o) * half = (Prime - 1) \div 2
  <1> DEFINE c == (Prime - 1) \div TwoTo[MaxBits]
             d == TwoTo[MaxBits - o]
             N == TwoTo[o]
  <1>0. MaxBits \in Nat /\ o \in Nat /\ MaxBits - o \in Nat /\ Prime - 1 \in Nat
    BY FftAssumption
  <1>1. c \in Nat /\ Prime - 1 = TwoTo[MaxBits] * c
    <2>1. TwoTo[MaxBits] \in Nat \ {0} /\ (Prime - 1) % TwoTo[MaxBits] = 0
      BY <1>0, FftAssumption, TwoToType
    <2>2. c \in Nat /\ Prime - 1 = TwoTo[MaxBits] * c + ((Prime - 1) % TwoTo[MaxBits])
      BY <1>0, <2>1, Division
    <2> HIDE DEF c
    <2> QED BY <1>0, <2>1, <2>2
  <1>2. TwoTo[MaxBits] = N * d /\ N \in Nat \ {0} /\ d \in Nat \ {0}
    <2>1. o + (MaxBits - o) = MaxBits
      BY <1>0
    <2> QED BY <1>0, <2>1, TwoToSum, TwoToType
  <1> HIDE DEF c, d
  <1>3. TwoTo[o] = N
    OBVIOUS
  <1> HIDE DEF N
  <1> DEFINE s == d * c
  <1>4. s \in Nat /\ Prime - 1 = N * s + 0
    BY <1>0, <1>1, <1>2
  <1> HIDE DEF s
  <1>5. Stride(o) = s
    <2>1. 0 \in 0..(N - 1)
      BY <1>2
    <2>2. (N * s + 0) \div N = s
      BY <1>2, <1>4, <2>1, DivisionUnique
    <2> QED BY <1>3, <1>4, <2>2 DEF Stride
  <1>6. Stride(o) * TwoTo[o] = Prime - 1
    BY <1>2, <1>3, <1>4, <1>5
  <1>7. ASSUME o > 0
        PROVE  \E half \in Nat \ {0} :
                  /\ TwoTo[o] = 2 * half /\ half = TwoTo[o - 1]
                  /\ Stride(o) * half = (Prime - 1) \div 2
    <2> DEFINE half == TwoTo[o - 1]
    <2>1. o - 1 \in Nat /\ (o - 1) + 1 = o
      BY <1>0, <1>7
    <2>2. half \in Nat \ {0} /\ N = 2 * half
      <3>1. TwoTo[(o - 1) + 1] = 2 * half /\ half \in Nat \ {0}
        BY <2>1, TwoToType
      <3> QED BY <2>1, <3>1 DEF N
    <2> HIDE DEF half
    <2>3. s * half \in Nat /\ Prime - 1 = 2 * (s * half) + 0
      BY <1>4, <2>2
    <2>4. (Prime - 1) \div 2 = s * half
      BY <2>3
    <2> QED BY <1>3, <1>5, <2>2, <2>4 DEF half
  <1> QED BY <1>2, <1>3, <1>4, <1>5, <1>6, <1>7

\* The powers of the root of unity of the order 1 << o.
RootOf(o, e) == Power[((Prime - 1) \div TwoTo[o]) * (e % TwoTo[o])]

\* A power of the root is a number.
LEMMA RootType ==
    ASSUME NEW o \in 0..MaxBits, NEW a \in Int PROVE RootOf(o, a) \in Int
  <1>1. a % TwoTo[o] \in Nat /\ Stride(o) \in Nat
    BY StrideExact, IntDivision
  <1>2. Stride(o) * (a % TwoTo[o]) \in Nat
    BY <1>1
  <1> QED BY <1>2, PowerType, PrimeType DEF RootOf, Stride

\* Its power 0 is 1.
LEMMA RootZero == ASSUME NEW o \in 0..MaxBits PROVE RootOf(o, 0) = 1
  <1>1. TwoTo[o] \in Nat \ {0} /\ Stride(o) \in Nat
    BY StrideExact
  <1>2. 0 % TwoTo[o] = 0
    BY <1>1
  <1>3. Stride(o) * (0 % TwoTo[o]) = 0
    BY <1>1, <1>2
  <1> QED BY <1>3, PowerType DEF RootOf, Stride

\* The power of a sum is the product of the powers.
LEMMA RootSum ==
    ASSUME NEW o \in 0..MaxBits, NEW a \in Int, NEW b \in Int
    PROVE  Congruent(RootOf(o, a + b), RootOf(o, a) * RootOf(o, b))
  <1> DEFINE N == TwoTo[o]
             u == a % N
             v == b % N
             w == (a + b) % N
             h == Stride(o)
  <1>1. N \in Nat \ {0} /\ h \in Nat /\ h * N = Prime - 1
    BY StrideExact
  <1>2. /\ u \in 0..(N - 1) /\ a = N * (a \div N) + u /\ a \div N \in Int
        /\ v \in 0..(N - 1) /\ b = N * (b \div N) + v /\ b \div N \in Int
    BY <1>1, IntDivision
  <1> DEFINE c == a \div N
             d == b \div N
  <1> HIDE DEF N, u, v, c, d, h
  <1>3. c \in Int /\ d \in Int /\ a = N * c + u /\ b = N * d + v
    BY <1>2 DEF c, d
  <1>4. RootOf(o, a) = Power[h * u] /\ RootOf(o, b) = Power[h * v] /\ RootOf(o, a + b) = Power[h * w]
    BY DEF RootOf, h, u, v, w, N, Stride
  <1> HIDE DEF w
  <1>5. h * u \in Nat /\ h * v \in Nat
    BY <1>1, <1>2
  <1>6. Congruent(Power[h * u + h * v], Power[h * u] * Power[h * v])
    BY <1>5, PowerSum
  <1>7. CASE u + v < N
    <2>1. u + v \in 0..(N - 1) /\ c + d \in Int /\ a + b = N * (c + d) + (u + v)
      BY <1>1, <1>2, <1>3, <1>7
    <2>2. w = u + v
      BY <1>1, <2>1, DivisionUnique DEF w
    <2>3. h * w = h * u + h * v
      BY <1>1, <1>2, <2>2
    <2> QED BY <1>4, <1>6, <2>3
  <1>8. CASE u + v >= N
    <2>1. u + v - N \in 0..(N - 1) /\ c + d + 1 \in Int /\ a + b = N * (c + d + 1) + (u + v - N)
      BY <1>1, <1>2, <1>3, <1>8
    <2>2. w = u + v - N
      <3> DEFINE m1 == c + d + 1
                 o1 == u + v - N
      <3>1. m1 \in Int /\ o1 \in 0..(N - 1) /\ a + b = N * m1 + o1
        BY <2>1
      <3> HIDE DEF m1, o1
      <3>2. (N * m1 + o1) % N = o1
        BY <1>1, <3>1, DivisionUnique
      <3>3. w = o1
        BY <3>1, <3>2 DEF w
      <3> QED BY <3>3 DEF o1
    <2>3. w \in Nat /\ h * w \in Nat /\ h * w + (Prime - 1) = h * u + h * v
      BY <1>1, <1>2, <1>8, <2>2
    <2>4. Congruent(Power[h * w + (Prime - 1)], Power[h * w] * Power[Prime - 1])
      <3>1. h * w \in Nat /\ Prime - 1 \in Nat
        BY <2>3, PrimeType
      <3> QED BY ONLY <3>1, PowerSum
    <2> DEFINE p == Power[h * w]
               q == Power[Prime - 1]
               r == Power[h * u] * Power[h * v]
               t == Power[h * u + h * v]
    <2>5. p \in Int /\ q \in Int /\ r \in Int /\ t \in Int
      <3>1. Power[h * u] \in Int /\ Power[h * v] \in Int
        BY <1>5, PowerType, PrimeType
      <3>2. h * u + h * v \in Nat /\ Prime - 1 \in Nat
        BY <1>5, PrimeType
      <3> QED BY <2>3, <3>1, <3>2, PowerType, PrimeType
    <2>6. Congruent(t, p * q) /\ Congruent(t, r) /\ Congruent(q, 1)
      BY <1>6, <2>3, <2>4, PowerRound
    <2> HIDE DEF p, q, r, t
    <2>7. Congruent(p * q, p * 1) /\ p * 1 = p /\ p * q \in Int
      BY <2>5, <2>6, CongruentRefl, CongruentProduct
    <2>8. Congruent(t, p)
      BY <2>5, <2>6, <2>7, CongruentTrans
    <2>9. Congruent(p, r)
      BY <2>5, <2>6, <2>8, CongruentSym, CongruentTrans
    <2> QED BY <1>4, <2>9 DEF p, r
  <1> QED BY <1>1, <1>2, <1>7, <1>8

\* Half way round the root is -1.
LEMMA RootHalf ==
    ASSUME NEW o \in 0..MaxBits, NEW half \in Nat \ {0}, TwoTo[o] = 2 * half, o > 0,
           half = TwoTo[o - 1], NEW a \in Int
    PROVE  Congruent(RootOf(o, a + half), -RootOf(o, a))
  <1>1. RootOf(o, half) = Prime - 1
    <2>1. half % TwoTo[o] = half
      <3>1. half \in 0..(TwoTo[o] - 1) /\ TwoTo[o] \in Nat \ {0}
        OBVIOUS
      <3> QED BY <3>1, SmallRemainder
    <2>2. Stride(o) * half = (Prime - 1) \div 2
      BY StrideExact
    <2> QED BY <2>1, <2>2, FftAssumption DEF RootOf, Stride
  <1> DEFINE r == RootOf(o, a)
  <1>2. r \in Int /\ RootOf(o, a + half) \in Int
    BY RootType
  <1>3. Congruent(RootOf(o, a + half), r * (Prime - 1))
    <2>1. half \in Int
      OBVIOUS
    <2>2. Congruent(RootOf(o, a + half), RootOf(o, a) * RootOf(o, half))
      BY <2>1, RootSum
    <2> QED BY <1>1, <2>2
  <1> HIDE DEF r
  <1>4. r * (Prime - 1) \in Int /\ -r \in Int /\ r * (Prime - 1) = -r + r * Prime
    BY <1>2, PrimeType
  <1>5. Congruent(r * (Prime - 1), -r)
    BY <1>2, <1>4 DEF Congruent
  <1> QED BY <1>2, <1>3, <1>4, <1>5, CongruentTrans DEF r

\* The sums of the first terms.
Sums(f) == CHOOSE s \in [Nat -> Int] : s[0] = 0 /\ \A n \in Nat : s[n + 1] = s[n] + f[n]

\* The sums exist, and each adds a term to the last.
LEMMA SumsType ==
    ASSUME NEW f, f \in [Nat -> Int]
    PROVE  /\ Sums(f) \in [Nat -> Int]
           /\ Sums(f)[0] = 0 /\ \A n \in Nat : Sums(f)[n + 1] = Sums(f)[n] + f[n]
  <1> DEFINE step == [n \in Nat |-> [v \in Int |-> v + f[n]]]
  <1>1. \E s \in [Nat -> Int] : s[0] = 0 /\ \A n \in Nat : s[n + 1] = s[n] + f[n]
    <2>1. Steps(step, Int)
      BY DEF Steps
    <2> HIDE DEF step
    <2>2. Recurses(Int, 0, step)
      BY <2>1, Recursion
    <2>3. PICK s \in [Nat -> Int] : s[0] = 0 /\ \A n \in Nat : s[n + 1] = step[n][s[n]]
      BY <2>2 DEF Recurses
    <2>4. ASSUME NEW n \in Nat PROVE s[n + 1] = s[n] + f[n]
      BY <2>3 DEF step
    <2> QED BY <2>3, <2>4
  <1> QED BY <1>1 DEF Sums

\* A sum of twice as many terms is a sum of pairs.
Paired(f, g, h, c, n) ==
    \A k \in 0..(n - 1) : Congruent(f[2 * k], g[k]) /\ Congruent(f[2 * k + 1], c * h[k])

\* Such a sum is that of the even terms and c times that of the odd ones.
LEMMA PairSums ==
    ASSUME NEW f, NEW g, NEW h, f \in [Nat -> Int], g \in [Nat -> Int], h \in [Nat -> Int],
           NEW c \in Int, NEW n \in Nat, Paired(f, g, h, c, n)
    PROVE  Congruent(Sums(f)[2 * n], Sums(g)[n] + c * Sums(h)[n])
  <1> DEFINE S == {k \in Nat : k <= n => Congruent(Sums(f)[2 * k], Sums(g)[k] + c * Sums(h)[k])}
  <1>1. 0 \in S
    <2>1. Sums(f)[2 * 0] = 0 /\ Sums(g)[0] + c * Sums(h)[0] = 0
      <3>1. Sums(f)[0] = 0 /\ Sums(g)[0] = 0 /\ Sums(h)[0] = 0
        BY SumsType
      <3> QED BY <3>1
    <2> QED BY <2>1, CongruentRefl
  <1>2. ASSUME NEW k \in Nat, k \in S PROVE k + 1 \in S
    <2> SUFFICES ASSUME k + 1 <= n
                 PROVE  Congruent(Sums(f)[2 * (k + 1)], Sums(g)[k + 1] + c * Sums(h)[k + 1])
      OBVIOUS
    <2> DEFINE s == Sums(f)[2 * k]
               t == Sums(g)[k]
               u == Sums(h)[k]
               f0 == f[2 * k]
               f1 == f[2 * k + 1]
               g0 == g[k]
               h0 == h[k]
    <2>1. /\ s \in Int /\ t \in Int /\ u \in Int
          /\ f0 \in Int /\ f1 \in Int /\ g0 \in Int /\ h0 \in Int
      <3>1. 2 * k \in Nat /\ 2 * k + 1 \in Nat
        OBVIOUS
      <3> QED BY <3>1, SumsType
    <2>2. Sums(f)[2 * (k + 1)] = (s + f0) + f1
      <3>1. 2 * k \in Nat /\ 2 * k + 1 \in Nat /\ 2 * (k + 1) = (2 * k + 1) + 1
        OBVIOUS
      <3>2. Sums(f)[2 * k + 1] = s + f0
        BY <3>1, SumsType
      <3>3. Sums(f)[(2 * k + 1) + 1] = Sums(f)[2 * k + 1] + f1
        BY <3>1, SumsType
      <3> QED BY <3>1, <3>2, <3>3
    <2>3. Sums(g)[k + 1] = t + g0 /\ Sums(h)[k + 1] = u + h0
      BY SumsType
    <2>4. Congruent(s, t + c * u)
      BY <1>2
    <2>5. Congruent(f0, g0) /\ Congruent(f1, c * h0)
      <3>1. k \in 0..(n - 1)
        OBVIOUS
      <3> QED BY <3>1 DEF Paired
    <2> HIDE DEF s, t, u, f0, f1, g0, h0
    <2>6. c * u \in Int /\ c * h0 \in Int
      BY <2>1
    <2>7. Congruent(s + f0, (t + c * u) + g0)
      BY <2>1, <2>4, <2>5, <2>6, CongruentSum
    <2>8. Congruent((s + f0) + f1, ((t + c * u) + g0) + c * h0)
      BY <2>1, <2>5, <2>6, <2>7, CongruentSum
    <2>9. ((t + c * u) + g0) + c * h0 = (t + g0) + c * (u + h0)
      BY <2>1
    <2> QED BY <2>2, <2>3, <2>8, <2>9
  <1>3. Nat \subseteq S
    <2> HIDE DEF S
    <2> QED BY <1>1, <1>2, SetInduction
  <1> QED BY <1>3

-----------------------------------------------------------------------------
\* The reversal of bits.

\* A reversal of b bits is a number of b bits.
LEMMA ReversedLess ==
    ASSUME NEW b \in Nat, NEW i \in Nat
    PROVE  Reversed[b][i] \in 0..(TwoTo[b] - 1)
  <1> DEFINE S == {k \in Nat : Reversed[k][i] \in 0..(TwoTo[k] - 1)}
  <1>1. 0 \in S
    <2>1. Reversed[0][i] = 0 /\ TwoTo[0] = 1
      BY ReversedType, TwoToType
    <2> QED BY <2>1
  <1>2. ASSUME NEW k \in Nat, k \in S PROVE k + 1 \in S
    <2> DEFINE y == Reversed[k][i]
               n == TwoTo[k]
               o == (i \div n) % 2
    <2>1. Reversed[k + 1][i] = 2 * y + o /\ TwoTo[k + 1] = 2 * n
      BY ReversedType, TwoToType
    <2>2. n \in Nat \ {0} /\ y \in 0..(n - 1)
      BY <1>2, TwoToType
    <2>3. o \in 0..1
      <3>1. i \div n \in Nat
        BY <2>2, Division
      <3> QED BY <3>1
    <2> HIDE DEF y, n, o
    <2>4. 2 * y + o \in 0..(2 * n - 1)
      BY <2>2, <2>3
    <2> QED BY <2>1, <2>4
  <1>3. Nat \subseteq S
    <2> HIDE DEF S
    <2> QED BY <1>1, <1>2, SetInduction
  <1> QED BY <1>3

\* Dividing twice a number by twice the divisor, a last bit is lost.
LEMMA DivisionTwice ==
    ASSUME NEW n \in Nat \ {0}, NEW q \in Nat, NEW d \in 0..1
    PROVE  (2 * q + d) \div (2 * n) = q \div n
  <1> DEFINE c == q \div n
             r == q % n
             n2 == 2 * n
             o == 2 * r + d
  <1>1. c \in Nat /\ r \in 0..(n - 1) /\ q = n * c + r
    BY Division
  <1> HIDE DEF c, r
  <1>2. n2 \in Nat \ {0} /\ o \in 0..(n2 - 1) /\ c \in Int /\ 2 * q + d = n2 * c + o
    BY <1>1
  <1> HIDE DEF n2, o
  <1>3. (n2 * c + o) \div n2 = c
    BY <1>2, DivisionUnique
  <1> QED BY <1>2, <1>3 DEF c, n2

\* What comes first goes last.
LEMMA ReversedFirst ==
    ASSUME NEW b \in Nat, NEW q \in Nat, NEW d \in 0..1
    PROVE  Reversed[b + 1][2 * q + d] = d * TwoTo[b] + Reversed[b][q]
  <1> DEFINE S == {k \in Nat : Reversed[k + 1][2 * q + d] = d * TwoTo[k] + Reversed[k][q]}
             i == 2 * q + d
  <1>0. i \in Nat
    OBVIOUS
  <1>1. 0 \in S
    <2>1. Reversed[0 + 1][i] = 2 * Reversed[0][i] + ((i \div TwoTo[0]) % 2)
      BY <1>0, ReversedType
    <2>2. Reversed[0][i] = 0 /\ Reversed[0][q] = 0 /\ TwoTo[0] = 1
      BY <1>0, ReversedType, TwoToType
    <2>3. i % 2 = d
      <3> DEFINE n == 2
      <3>1. n \in Nat \ {0} /\ d \in 0..(n - 1) /\ i = n * q + d /\ q \in Int
        OBVIOUS
      <3> HIDE DEF n, i
      <3>2. (n * q + d) % n = d
        BY <3>1, DivisionUnique
      <3> QED BY <3>1, <3>2 DEF n
    <2>4. i \div 1 = i
      <3> HIDE DEF i
      <3> QED BY <1>0
    <2> HIDE DEF i
    <2>5. Reversed[0 + 1][i] = d
      BY <2>1, <2>2, <2>3, <2>4
    <2> QED BY <2>2, <2>5 DEF i
  <1>2. ASSUME NEW k \in Nat, k \in S PROVE k + 1 \in S
    <2> DEFINE n == TwoTo[k]
               y == Reversed[k][q]
               o == (q \div n) % 2
    <2>1. Reversed[k + 1 + 1][i] = 2 * Reversed[k + 1][i] + ((i \div TwoTo[k + 1]) % 2)
      BY <1>0, ReversedType
    <2>2. TwoTo[k + 1] = 2 * n /\ n \in Nat \ {0} /\ Reversed[k + 1][q] = 2 * y + o /\ y \in Nat
      BY ReversedType, TwoToType
    <2>3. i \div (2 * n) = q \div n
      BY <2>2, DivisionTwice
    <2>4. Reversed[k + 1][i] = d * n + y
      BY <1>2
    <2>5. o \in 0..1
      <3>1. q \div n \in Nat
        BY <2>2, Division
      <3> QED BY <3>1
    <2>6. Reversed[k + 1 + 1][i] = 2 * (d * n + y) + o
      <3> HIDE DEF i, y
      <3> QED BY <2>1, <2>2, <2>3, <2>4
    <2> HIDE DEF i, n, y, o
    <2>7. 2 * (d * n + y) + o = d * TwoTo[k + 1] + Reversed[k + 1][q]
      BY <2>2, <2>5
    <2> QED BY <2>6, <2>7 DEF i
  <1>3. Nat \subseteq S
    <2> HIDE DEF S
    <2> QED BY <1>1, <1>2, SetInduction
  <1> QED BY <1>3

\* What the bits above hold does not matter.
Low(b) == \A i, c \in Nat : Reversed[b][i + c * TwoTo[b]] = Reversed[b][i]

\* Reversing b bits, the bits above the lowest b are not read.
LEMMA ReversedLow == ASSUME NEW b \in Nat PROVE Low(b)
  <1> DEFINE S == {k \in Nat : Low(k)}
  <1>1. 0 \in S
    <2>1. ASSUME NEW i \in Nat, NEW c \in Nat
          PROVE  Reversed[0][i + c * TwoTo[0]] = Reversed[0][i]
      <3>1. i + c * TwoTo[0] \in Nat
        BY TwoToType
      <3> QED BY <3>1, ReversedType
    <2> QED BY <2>1 DEF Low
  <1>2. ASSUME NEW k \in Nat, k \in S PROVE k + 1 \in S
    <2> SUFFICES ASSUME NEW i \in Nat, NEW c \in Nat
                 PROVE  Reversed[k + 1][i + c * TwoTo[k + 1]] = Reversed[k + 1][i]
      BY DEF Low
    <2> DEFINE n == TwoTo[k]
               j == i + c * TwoTo[k + 1]
               c2 == 2 * c
               q == i \div n
               r == i % n
    <2>1. n \in Nat \ {0} /\ TwoTo[k + 1] = 2 * n
      BY TwoToType
    <2>2. c2 \in Nat /\ j = i + c2 * n /\ j \in Nat
      <3> HIDE DEF n
      <3> QED BY <2>1
    <2>3. q \in Nat /\ r \in 0..(n - 1) /\ i = n * q + r
      BY <2>1, Division
    <2> HIDE DEF j, c2, q, r
    <2>4. Reversed[k][j] = Reversed[k][i]
      BY <1>2, <2>2 DEF Low
    <2> HIDE DEF n
    <2>5. q + c2 \in Int /\ j = n * (q + c2) + r
      BY <2>1, <2>2, <2>3
    <2>6. j \div n = q + c2
      BY <2>1, <2>3, <2>5, DivisionUnique
    <2>7. (q + c2) % 2 = q % 2
      BY <2>3 DEF c2
    <2>8. /\ Reversed[k + 1][j] = 2 * Reversed[k][j] + ((j \div n) % 2)
          /\ Reversed[k + 1][i] = 2 * Reversed[k][i] + ((i \div n) % 2)
      BY <2>2, ReversedType DEF n
    <2> QED BY <2>4, <2>6, <2>7, <2>8 DEF j, q
  <1>3. Nat \subseteq S
    <2> HIDE DEF S
    <2> QED BY <1>1, <1>2, SetInduction
  <1> QED BY <1>3

\* A number of fewer bits is reversed into the upper ones.
LEMMA ReversedShort ==
    ASSUME NEW b \in Nat, NEW q \in 0..(TwoTo[b] - 1)
    PROVE  Reversed[b + 1][q] = 2 * Reversed[b][q]
  <1>1. TwoTo[b] \in Nat \ {0} /\ q \in Nat
    BY TwoToType
  <1>2. q \div TwoTo[b] = 0
    BY <1>1, SmallRemainder
  <1>3. Reversed[b + 1][q] = 2 * Reversed[b][q] + ((q \div TwoTo[b]) % 2)
    BY <1>1, ReversedType
  <1>4. Reversed[b][q] \in Nat
    BY <1>1, ReversedType
  <1> QED BY <1>2, <1>3, <1>4

\* The reversal undoes itself.
Undoes(b) == \A i \in 0..(TwoTo[b] - 1) : Reversed[b][Reversed[b][i]] = i

\* For every number of bits, reversing twice gives the number itself.
LEMMA ReversedTwice == ASSUME NEW b \in Nat PROVE Undoes(b)
  <1> DEFINE S == {k \in Nat : Undoes(k)}
  <1>1. 0 \in S
    <2>1. ASSUME NEW i \in 0..(TwoTo[0] - 1) PROVE Reversed[0][Reversed[0][i]] = i
      <3>1. i = 0
        BY TwoToType
      <3>2. Reversed[0][0] = 0
        BY ReversedType
      <3> QED BY <3>1, <3>2
    <2> QED BY <2>1 DEF Undoes
  <1>2. ASSUME NEW k \in Nat, k \in S PROVE k + 1 \in S
    <2> SUFFICES ASSUME NEW i \in 0..(TwoTo[k + 1] - 1)
                 PROVE  Reversed[k + 1][Reversed[k + 1][i]] = i
      BY DEF Undoes
    <2> DEFINE n == TwoTo[k]
               q == i \div 2
               d == i % 2
               y == Reversed[k][q]
               j == d * n + y
    <2>1. n \in Nat \ {0} /\ TwoTo[k + 1] = 2 * n
      BY TwoToType
    <2>2. q \in 0..(n - 1) /\ d \in 0..1 /\ i = 2 * q + d
      <3>1. q \in Nat /\ d \in 0..1 /\ i = 2 * q + d
        BY <2>1
      <3> HIDE DEF n, q, d
      <3> QED BY <2>1, <3>1
    <2>3. y \in 0..(n - 1)
      BY <2>2, ReversedLess
    <2>4. Reversed[k][y] = q
      BY <1>2, <2>2 DEF Undoes
    <2> HIDE DEF n, q, d, y
    <2>5. Reversed[k + 1][i] = j
      <3>1. q \in Nat
        BY <2>1, <2>2
      <3>2. Reversed[k + 1][2 * q + d] = d * n + y
        BY <2>2, <3>1, ReversedFirst DEF n, y
      <3> QED BY <2>2, <3>2
    <2>6. j \in Nat /\ j = n * d + y /\ d \in Nat /\ y \in Nat /\ j = y + d * n
      BY <2>1, <2>2, <2>3
    <2> HIDE DEF j
    <2>7. j \div n = d
      BY <2>1, <2>3, <2>6, DivisionUnique
    <2>8. Reversed[k][j] = q
      <3>1. Low(k)
        BY ReversedLow
      <3>2. Reversed[k][y + d * TwoTo[k]] = Reversed[k][y]
        BY <2>6, <3>1 DEF Low
      <3> QED BY <2>4, <2>6, <3>2 DEF n
    <2>9. Reversed[k + 1][j] = 2 * Reversed[k][j] + ((j \div n) % 2)
      BY <2>6, ReversedType DEF n
    <2>10. d % 2 = d
      BY <2>2
    <2> QED BY <2>2, <2>5, <2>7, <2>8, <2>9, <2>10
  <1>3. Nat \subseteq S
    <2> HIDE DEF S
    <2> QED BY <1>1, <1>2, SetInduction
  <1> QED BY <1>3

-----------------------------------------------------------------------------
\* The root's powers, and the terms a slot has summed.

\* The powers of the root repeat with its order.
LEMMA RootPeriod ==
    ASSUME NEW o \in 0..MaxBits, NEW a \in Int, NEW k \in Int
    PROVE  RootOf(o, a + k * TwoTo[o]) = RootOf(o, a)
  <1> DEFINE N == TwoTo[o]
             c == a \div N
             u == a % N
             b == a + k * N
             d == c + k
  <1>1. N \in Nat \ {0}
    BY StrideExact
  <1>2. c \in Int /\ u \in 0..(N - 1) /\ a = N * c + u
    BY <1>1, IntDivision
  <1> HIDE DEF N, c, u
  <1>3. d \in Int /\ b = N * d + u
    BY <1>1, <1>2
  <1> HIDE DEF b, d
  <1>4. (N * d + u) % N = u
    BY <1>1, <1>2, <1>3, DivisionUnique
  <1>5. b % N = a % N
    BY <1>3, <1>4 DEF u
  <1>6. RootOf(o, b) = RootOf(o, a)
    BY <1>5, Zenon DEF RootOf, N
  <1> QED BY <1>6 DEF b, N

\* The terms of slot r of a block of n slots, with the root taken to the power c.
Terms(sig, o, n, r, c) ==
    [s \in Nat |->
        IF n * s + r \in 0..(TwoTo[o] - 1) THEN sig[n * s + r] * RootOf(o, -(c * s)) ELSE 0]

\* A block of integers, of 1 << o slots.
Blocked(sig, o) == sig \in [0..(TwoTo[o] - 1) -> Int]

\* The terms are numbers.
LEMMA TermsType ==
    ASSUME NEW o \in 0..MaxBits, NEW sig, Blocked(sig, o),
           NEW n \in Nat, NEW r \in Nat, NEW c \in Int
    PROVE  Terms(sig, o, n, r, c) \in [Nat -> Int]
  <1> DEFINE Term(s) ==
        IF n * s + r \in 0..(TwoTo[o] - 1) THEN sig[n * s + r] * RootOf(o, -(c * s)) ELSE 0
  <1>1. ASSUME NEW s \in Nat PROVE Term(s) \in Int
    <2>1. CASE n * s + r \in 0..(TwoTo[o] - 1)
      <3>1. sig[n * s + r] \in Int
        BY <2>1 DEF Blocked
      <3>2. -(c * s) \in Int
        OBVIOUS
      <3>3. RootOf(o, -(c * s)) \in Int
        BY <3>2, RootType
      <3> QED BY <2>1, <3>1, <3>3
    <2>2. CASE ~(n * s + r \in 0..(TwoTo[o] - 1))
      BY <2>2
    <2> QED BY <2>1, <2>2
  <1>2. Terms(sig, o, n, r, c) = [s \in Nat |-> Term(s)]
    BY Zenon DEF Terms
  <1> HIDE DEF Term
  <1> QED BY <1>1, <1>2

\* The terms of a block half as long are those of the two halves in turn.
LEMMA TermsPaired ==
    ASSUME NEW o \in 0..MaxBits, NEW sig, Blocked(sig, o), NEW n \in Nat, NEW r \in Nat,
           NEW c \in Int, NEW c1 \in Int, NEW e \in Int, 2 * c1 = c + e * TwoTo[o],
           NEW count \in Nat
    PROVE  Paired(Terms(sig, o, n, r, c1), Terms(sig, o, 2 * n, r, c),
                  Terms(sig, o, 2 * n, r + n, c), RootOf(o, -c1), count)
  <1> DEFINE f == Terms(sig, o, n, r, c1)
             g == Terms(sig, o, 2 * n, r, c)
             h == Terms(sig, o, 2 * n, r + n, c)
             R == RootOf(o, -c1)
             N == TwoTo[o]
             slots == 0..(N - 1)
  <1>0. N \in Nat \ {0} /\ -c1 \in Int /\ R \in Int
    <2>1. -c1 \in Int
      OBVIOUS
    <2> QED BY <2>1, StrideExact, RootType
  <1> SUFFICES ASSUME NEW k \in 0..(count - 1)
               PROVE  Congruent(f[2 * k], g[k]) /\ Congruent(f[2 * k + 1], R * h[k])
    BY Zenon DEF Paired
  <1> DEFINE a == -(c * k)
             b == -(e * k)
             i == (2 * n) * k + r
             j == (2 * n) * k + (r + n)
  <1>1. k \in Nat /\ 2 * k \in Nat /\ 2 * k + 1 \in Nat /\ a \in Int /\ b \in Int /\ -c1 \in Int
    OBVIOUS
  <1>2. n * (2 * k) + r = i /\ n * (2 * k + 1) + r = j
    OBVIOUS
  <1>3. -(c1 * (2 * k)) = a + b * N
    <2>1. c1 * (2 * k) = (2 * c1) * k
      OBVIOUS
    <2>2. (c + e * N) * k = c * k + (e * k) * N
      <3> HIDE DEF N
      <3> QED BY <1>0
    <2> HIDE DEF N
    <2>3. c * k \in Int /\ e * k \in Int
      OBVIOUS
    <2> DEFINE ck == c * k
               ek == e * k
    <2>4. c1 * (2 * k) = ck + ek * N
      BY <2>1, <2>2 DEF N
    <2>5. ck \in Int /\ ek \in Int /\ a = -ck /\ b = -ek
      BY <2>3
    <2> HIDE DEF ck, ek
    <2>6. -(ck + ek * N) = -ck + (-ek) * N
      BY <1>0, <2>5
    <2> QED BY <2>4, <2>5, <2>6
  <1>4. -(c1 * (2 * k + 1)) = (a + -c1) + b * N
    <2>1. c1 * (2 * k + 1) = c1 * (2 * k) + c1 /\ c1 * (2 * k) \in Int
      OBVIOUS
    <2> DEFINE ck == c1 * (2 * k)
    <2> HIDE DEF a, b, N, ck
    <2>2. b * N \in Int
      BY <1>0, <1>1
    <2> QED BY <1>0, <1>1, <1>3, <2>1, <2>2 DEF ck
  <1>5. /\ f[2 * k] = IF i \in slots THEN sig[i] * RootOf(o, a + b * N) ELSE 0
        /\ g[k] = IF i \in slots THEN sig[i] * RootOf(o, a) ELSE 0
        /\ f[2 * k + 1] = IF j \in slots THEN sig[j] * RootOf(o, (a + -c1) + b * N) ELSE 0
        /\ h[k] = IF j \in slots THEN sig[j] * RootOf(o, a) ELSE 0
    <2>1. f[2 * k] = IF i \in slots THEN sig[i] * RootOf(o, a + b * N) ELSE 0
      BY <1>1, <1>2, <1>3, Zenon DEF Terms
    <2>2. g[k] = IF i \in slots THEN sig[i] * RootOf(o, a) ELSE 0
      BY <1>1, Zenon DEF Terms
    <2>3. f[2 * k + 1] = IF j \in slots THEN sig[j] * RootOf(o, (a + -c1) + b * N) ELSE 0
      BY <1>1, <1>2, <1>4, Zenon DEF Terms
    <2>4. h[k] = IF j \in slots THEN sig[j] * RootOf(o, a) ELSE 0
      BY <1>1, Zenon DEF Terms
    <2> QED BY <2>1, <2>2, <2>3, <2>4
  <1>6. RootOf(o, a + b * N) = RootOf(o, a) /\ RootOf(o, (a + -c1) + b * N) = RootOf(o, a + -c1)
    <2>1. a + -c1 \in Int
      BY <1>1
    <2> HIDE DEF a, b
    <2> QED BY <1>1, <2>1, RootPeriod
  <1>7. g[k] \in Int /\ h[k] \in Int /\ f[2 * k] \in Int /\ f[2 * k + 1] \in Int
    <2>1. 2 * n \in Nat /\ r + n \in Nat
      OBVIOUS
    <2>2. f \in [Nat -> Int] /\ g \in [Nat -> Int] /\ h \in [Nat -> Int]
      BY <2>1, TermsType
    <2> HIDE DEF f, g, h
    <2> QED BY <1>1, <2>2
  <1> DEFINE A == RootOf(o, a)
             B == RootOf(o, a + -c1)
  <1>8. A \in Int /\ B \in Int /\ Congruent(B, A * R)
    <2>1. a + -c1 \in Int
      BY <1>1
    <2> HIDE DEF a
    <2> QED BY <1>1, <2>1, RootType, RootSum
  <1> HIDE DEF f, g, h, a, b, i, j
  <1>9. Congruent(f[2 * k], g[k])
    BY <1>5, <1>6, <1>7, CongruentRefl
  <1>10. Congruent(f[2 * k + 1], R * h[k])
    <2>1. CASE j \in slots
      <3> DEFINE v == sig[j]
      <3>1. v \in Int
        BY <2>1 DEF Blocked
      <3>2. f[2 * k + 1] = v * B /\ h[k] = v * A
        BY <1>5, <1>6, <2>1
      <3> HIDE DEF v, A, B, R
      <3>3. A * R \in Int
        BY <1>0, <1>8
      <3>4. Congruent(v * B, v * (A * R))
        BY <1>8, <3>1, <3>3, CongruentRefl, CongruentProduct
      <3>5. v * (A * R) = R * (v * A)
        BY <1>0, <1>8, <3>1
      <3> QED BY <3>2, <3>4, <3>5
    <2>2. CASE j \notin slots
      <3>1. f[2 * k + 1] = 0 /\ h[k] = 0
        BY <1>5, <2>2
      <3> HIDE DEF R
      <3>2. R * h[k] = 0
        BY <1>0, <3>1
      <3> QED BY <1>7, <3>1, <3>2, CongruentRefl
    <2> QED BY <2>1, <2>2
  <1> QED BY <1>9, <1>10

-----------------------------------------------------------------------------
\* The levels.

\* Before level l, block q of slots holds the transforms of every TwoTo[o - l]th
\* sample, each at the frequency of q's reversal.
Blocks(v, sig, o, l) ==
    \A q \in 0..(TwoTo[l] - 1), r \in 0..(TwoTo[o - l] - 1) :
        Congruent(v[TwoTo[o - l] * q + r],
                  Sums(Terms(sig, o, TwoTo[o - l], r, Reversed[o][q]))[TwoTo[l]])

\* Before the first level, there is one block, of transforms of one sample.
LEMMA FirstBlocks ==
    ASSUME NEW o \in 0..MaxBits, NEW sig, Blocked(sig, o)
    PROVE  Blocks(sig, sig, o, 0)
  <1> DEFINE n == TwoTo[o]
  <1>1. TwoTo[0] = 1 /\ n \in Nat \ {0} /\ o - 0 = o /\ o \in Nat
    BY TwoToType, StrideExact
  <1> HIDE DEF n
  <1> SUFFICES ASSUME NEW q \in 0..0, NEW r \in 0..(n - 1)
               PROVE  Congruent(sig[n * q + r], Sums(Terms(sig, o, n, r, Reversed[o][q]))[1])
    BY <1>1 DEF Blocks, n
  <1> DEFINE c == Reversed[o][q]
             f == Terms(sig, o, n, r, c)
  <1>2. q = 0 /\ c \in Int /\ n \in Nat /\ r \in Nat
    <2>1. Reversed[o][0] \in Nat
      BY <1>1, ReversedType
    <2> QED BY <1>1, <2>1
  <1> HIDE DEF c
  <1>3. n * q + r = r /\ n * 0 + r = r /\ -(c * 0) = 0 /\ r \in 0..(TwoTo[o] - 1)
    BY <1>1, <1>2 DEF n
  <1>4. f \in [Nat -> Int]
    BY <1>2, TermsType
  <1>5. f[0] = sig[r] * RootOf(o, 0)
    <2>1. f[0] = IF n * 0 + r \in 0..(TwoTo[o] - 1)
                 THEN sig[n * 0 + r] * RootOf(o, -(c * 0)) ELSE 0
      BY DEF Terms
    <2> HIDE DEF f
    <2> QED BY <1>3, <2>1
  <1>6. sig[r] \in Int
    BY <1>3 DEF Blocked
  <1>7. f[0] = sig[r]
    BY <1>5, <1>6, RootZero
  <1> HIDE DEF f
  <1>8. Sums(f)[1] = sig[r]
    <2>1. Sums(f)[0] = 0 /\ Sums(f)[0 + 1] = Sums(f)[0] + f[0]
      BY <1>4, SumsType
    <2> QED BY <1>6, <1>7, <2>1
  <1>9. Congruent(sig[r], sig[r])
    BY <1>6, CongruentRefl
  <1> QED BY <1>3, <1>8, <1>9 DEF f, c

\* A level makes the sums and the differences of the pairs of slots.
Butterflies(w, v, o, l) ==
    \A q \in 0..(TwoTo[l] - 1), r \in 0..(TwoTo[o - (l + 1)] - 1) :
        LET n == TwoTo[o - (l + 1)]
            t == RootOf(o, TwoTo[o] - Reversed[o][2 * q]) * v[TwoTo[o - l] * q + (r + n)]
        IN  /\ Congruent(w[n * (2 * q) + r], v[TwoTo[o - l] * q + r] + t)
            /\ Congruent(w[n * (2 * q + 1) + r], v[TwoTo[o - l] * q + r] - t)

\* The powers of two of the levels.
LEMMA LevelSizes ==
    ASSUME NEW o \in Nat, NEW l \in Nat, l < o
    PROVE  /\ o - l \in Nat /\ o - (l + 1) \in Nat /\ o - 1 \in Nat /\ l + 1 \in Nat
           /\ TwoTo[o - l] = 2 * TwoTo[o - (l + 1)] /\ TwoTo[l + 1] = 2 * TwoTo[l]
           /\ TwoTo[o] = 2 * TwoTo[o - 1] /\ TwoTo[o] = TwoTo[o - l] * TwoTo[l]
           /\ TwoTo[o - 1] = TwoTo[o - (l + 1)] * TwoTo[l]
           /\ TwoTo[o] \in Nat \ {0} /\ TwoTo[o - 1] \in Nat \ {0} /\ TwoTo[l] \in Nat \ {0}
           /\ TwoTo[o - l] \in Nat \ {0} /\ TwoTo[o - (l + 1)] \in Nat \ {0}
  <1>1. o - l \in Nat /\ o - (l + 1) \in Nat /\ o - 1 \in Nat /\ l + 1 \in Nat
    OBVIOUS
  <1>2. /\ (o - (l + 1)) + 1 = o - l /\ (o - 1) + 1 = o
        /\ (o - l) + l = o /\ (o - (l + 1)) + l = o - 1
    OBVIOUS
  <1>3. TwoTo[(o - (l + 1)) + 1] = 2 * TwoTo[o - (l + 1)] /\ TwoTo[(o - 1) + 1] = 2 * TwoTo[o - 1]
    BY <1>1, TwoToType
  <1>4. TwoTo[l + 1] = 2 * TwoTo[l]
    BY TwoToType
  <1>5. /\ TwoTo[(o - l) + l] = TwoTo[o - l] * TwoTo[l]
        /\ TwoTo[(o - (l + 1)) + l] = TwoTo[o - (l + 1)] * TwoTo[l]
    BY <1>1, TwoToSum
  <1>6. /\ TwoTo[o] \in Nat \ {0} /\ TwoTo[o - 1] \in Nat \ {0} /\ TwoTo[l] \in Nat \ {0}
        /\ TwoTo[o - l] \in Nat \ {0} /\ TwoTo[o - (l + 1)] \in Nat \ {0}
    BY <1>1, TwoToType
  <1> QED BY <1>1, <1>2, <1>3, <1>4, <1>5, <1>6

\* The reversals of a block and of the two it splits into.
LEMMA BlockAngles ==
    ASSUME NEW o \in Nat, NEW l \in Nat, l < o, NEW q \in 0..(TwoTo[l] - 1), NEW d \in 0..1
    PROVE  /\ Reversed[o][2 * q] \in Nat /\ Reversed[o][q] = 2 * Reversed[o][2 * q]
           /\ Reversed[o][2 * q + d] = Reversed[o][2 * q] + d * TwoTo[o - 1]
           /\ q \in Nat
  <1> DEFINE b == o - 1
             y == Reversed[b][q]
             T == TwoTo[b]
  <1>1. b \in Nat /\ o = b + 1 /\ T \in Nat \ {0} /\ q \in Nat
    <2>1. b \in Nat /\ o = b + 1
      OBVIOUS
    <2>2. TwoTo[l] \in Nat /\ T \in Nat \ {0}
      BY <2>1, TwoToType
    <2>3. q \in Nat
      BY <2>2
    <2> QED BY <2>1, <2>2, <2>3
  <1>2. q \in 0..(T - 1)
    <2> DEFINE e == TwoTo[o - (l + 1)]
               L == TwoTo[l]
    <2>1. T = e * L /\ e \in Nat \ {0} /\ L \in Nat \ {0} /\ q \in 0..(L - 1)
      BY LevelSizes
    <2> HIDE DEF e, L, T
    <2>2. e * L >= L
      BY <2>1
    <2> QED BY <1>1, <2>1, <2>2
  <1> HIDE DEF b
  <1>3. Reversed[b + 1][q] = 2 * y
    BY <1>1, <1>2, ReversedShort
  <1>4. Reversed[b + 1][2 * q + d] = d * T + y
    BY <1>1, ReversedFirst
  <1>5. y \in Nat
    BY <1>1, ReversedType
  <1>6. Reversed[o][2 * q] = y
    <2> DEFINE d0 == 0
    <2>1. d0 \in 0..1
      OBVIOUS
    <2> HIDE DEF d0
    <2>2. Reversed[b + 1][2 * q + d0] = d0 * T + y
      BY <1>1, <2>1, ReversedFirst
    <2>3. 2 * q + d0 = 2 * q /\ d0 * T = 0
      BY <1>1 DEF d0
    <2> HIDE DEF y
    <2> QED BY <1>1, <1>5, <2>2, <2>3
  <1> HIDE DEF y
  <1> QED BY <1>1, <1>3, <1>4, <1>5, <1>6 DEF b

\* The butterflies take the blocks of one level to those of the next: each sum is
\* split into its even and its odd terms, and the root half way round is -1.
LEMMA NextBlocks ==
    ASSUME NEW o \in 0..MaxBits, NEW l \in Nat, l < o, NEW sig, Blocked(sig, o),
           NEW v, Blocked(v, o), NEW w, Blocked(w, o),
           Blocks(v, sig, o, l), Butterflies(w, v, o, l)
    PROVE  Blocks(w, sig, o, l + 1)
  <1> DEFINE n == TwoTo[o - (l + 1)]
             n2 == TwoTo[o - l]
             Q == TwoTo[l]
             T == TwoTo[o - 1]
             N == TwoTo[o]
  <1>0. o \in Nat
    BY FftAssumption
  <1>1. /\ n2 = 2 * n /\ TwoTo[l + 1] = 2 * Q /\ N = 2 * T /\ N = n2 * Q
        /\ N \in Nat \ {0} /\ T \in Nat \ {0} /\ Q \in Nat \ {0}
        /\ n2 \in Nat \ {0} /\ n \in Nat \ {0}
    BY <1>0, LevelSizes
  <1> SUFFICES ASSUME NEW q1 \in 0..(TwoTo[l + 1] - 1), NEW r \in 0..(n - 1)
               PROVE  Congruent(w[n * q1 + r],
                                Sums(Terms(sig, o, n, r, Reversed[o][q1]))[TwoTo[l + 1]])
    BY DEF Blocks
  <1> DEFINE q == q1 \div 2
             d == q1 % 2
             y == Reversed[o][2 * q]
             c == Reversed[o][q]
             c1 == Reversed[o][q1]
             v0 == v[n2 * q + r]
             v1 == v[n2 * q + (r + n)]
             w1 == w[n * q1 + r]
             S0 == Sums(Terms(sig, o, n2, r, c))[Q]
             S1 == Sums(Terms(sig, o, n2, r + n, c))[Q]
             Z == Sums(Terms(sig, o, n, r, c1))[2 * Q]
             R == RootOf(o, N - y)
             R1 == RootOf(o, -c1)
  <1>2. q \in 0..(Q - 1) /\ d \in 0..1 /\ q1 = 2 * q + d /\ q1 \in Nat
    <2> HIDE DEF Q
    <2>1. q1 \in 0..(2 * Q - 1)
      BY <1>1
    <2>2. q1 \in Nat /\ q \in Nat /\ d \in 0..1 /\ q1 = 2 * q + d
      BY <1>1, <2>1
    <2> HIDE DEF q, d
    <2> QED BY <1>1, <2>1, <2>2
  <1> HIDE DEF q, d
  <1>3. y \in Nat /\ c = 2 * y /\ c1 = y + d * T /\ q \in Nat
    BY <1>0, <1>2, BlockAngles
  <1> HIDE DEF y, c, c1, N, T
  <1>4. c \in Int /\ c1 \in Int /\ d \in Int /\ 2 * c1 = c + d * N
    BY <1>1, <1>2, <1>3
  <1>5. r \in Nat /\ n \in Nat /\ r + n \in Nat /\ r \in 0..(n2 - 1) /\ r + n \in 0..(n2 - 1)
    <2> HIDE DEF n, n2
    <2> QED BY <1>1
  <1>6. v0 \in Int /\ v1 \in Int /\ w1 \in Int
    <2> HIDE DEF n, n2, Q
    <2>1. ASSUME NEW i \in 0..(n2 - 1) PROVE n2 * q + i \in 0..(N - 1)
      <3>1. n2 * (q + 1) <= n2 * Q
        BY <1>1, <1>2
      <3>2. n2 * (q + 1) = n2 * q + n2 /\ n2 * q \in Nat
        BY <1>1, <1>3
      <3> QED BY <1>1, <3>1, <3>2
    <2>2. n * q1 + r \in 0..(N - 1)
      <3> DEFINE i == n * d + r
      <3>1. i \in 0..(n2 - 1) /\ n * q1 + r = n2 * q + i
        BY <1>1, <1>2, <1>3
      <3> HIDE DEF i
      <3> QED BY <2>1, <3>1
    <2>3. n2 * q + r \in 0..(N - 1) /\ n2 * q + (r + n) \in 0..(N - 1)
      BY <1>5, <2>1
    <2> QED BY <2>2, <2>3 DEF Blocked, N
  <1>7. Congruent(v0, S0) /\ Congruent(v1, S1)
    <2> DEFINE i == r + n
    <2>1. i \in 0..(n2 - 1)
      BY <1>5
    <2> HIDE DEF i
    <2>2. Congruent(v[n2 * q + r], Sums(Terms(sig, o, n2, r, c))[Q])
      BY <1>2, <1>5, Zenon DEF Blocks, c
    <2>3. Congruent(v[n2 * q + i], Sums(Terms(sig, o, n2, i, c))[Q])
      BY <1>2, <2>1, Zenon DEF Blocks, c
    <2> QED BY <2>2, <2>3 DEF i
  <1> DEFINE F == Terms(sig, o, n, r, c1)
             G == Terms(sig, o, n2, r, c)
             H == Terms(sig, o, n2, r + n, c)
  <1>8. Paired(F, G, H, R1, Q)
    <2> HIDE DEF n, n2, Q
    <2>1. Q \in Nat /\ 2 * c1 = c + d * TwoTo[o]
      BY <1>1, <1>4 DEF N
    <2>2. Paired(F, Terms(sig, o, 2 * n, r, c), Terms(sig, o, 2 * n, r + n, c), R1, Q)
      BY <1>4, <1>5, <2>1, TermsPaired
    <2> QED BY <1>1, <2>2
  <1>9. F \in [Nat -> Int] /\ G \in [Nat -> Int] /\ H \in [Nat -> Int]
    <2>1. n2 \in Nat
      BY <1>1
    <2> HIDE DEF n, n2, Q
    <2> QED BY <1>4, <1>5, <2>1, TermsType
  <1>10. -c1 \in Int /\ N - y \in Int /\ -y \in Int
    BY <1>1, <1>3, <1>4
  <1>11. R \in Int /\ R1 \in Int
    BY <1>10, RootType
  <1> HIDE DEF F, G, H, n, n2, Q
  <1>12. Congruent(Z, S0 + R1 * S1)
    <2>1. Q \in Nat
      BY <1>1
    <2> HIDE DEF R1
    <2>2. Congruent(Sums(F)[2 * Q], Sums(G)[Q] + R1 * Sums(H)[Q])
      BY <1>8, <1>9, <1>11, <2>1, PairSums
    <2> QED BY <2>2 DEF F, G, H
  <1>13. Z \in Int /\ S0 \in Int /\ S1 \in Int
    <2>1. Q \in Nat /\ 2 * Q \in Nat
      BY <1>1
    <2>2. Sums(F)[2 * Q] \in Int /\ Sums(G)[Q] \in Int /\ Sums(H)[Q] \in Int
      BY <1>9, <2>1, SumsType
    <2> QED BY <2>2 DEF F, G, H
  <1>14. R = RootOf(o, -y)
    <2> DEFINE k == 1
    <2>1. k \in Int /\ N - y = -y + k * TwoTo[o]
      BY <1>1, <1>3 DEF N
    <2> HIDE DEF k
    <2>2. RootOf(o, -y + k * TwoTo[o]) = RootOf(o, -y)
      BY <1>10, <2>1, RootPeriod
    <2> QED BY <2>1, <2>2
  <1>15. d = 0 => Congruent(w1, v0 + R * v1)
    <2> SUFFICES ASSUME d = 0 PROVE Congruent(w1, v0 + R * v1)
      OBVIOUS
    <2>1. Congruent(w[n * (2 * q) + r], v0 + R * v1)
      BY <1>2, Zenon DEF Butterflies, n, n2, Q, N, y
    <2>2. q1 = 2 * q
      BY <1>2, <1>3
    <2> QED BY <2>1, <2>2
  <1>16. d = 1 => Congruent(w1, v0 - R * v1)
    <2> SUFFICES ASSUME d = 1 PROVE Congruent(w1, v0 - R * v1)
      OBVIOUS
    <2>1. Congruent(w[n * (2 * q + 1) + r], v0 - R * v1)
      BY <1>2, Zenon DEF Butterflies, n, n2, Q, N, y
    <2>2. q1 = 2 * q + 1
      BY <1>2, <1>3
    <2> QED BY <2>1, <2>2
  <1>17. d = 1 => Congruent(R, -R1)
    <2> SUFFICES ASSUME d = 1 PROVE Congruent(R, -R1)
      OBVIOUS
    <2>1. -c1 + T = -y
      BY <1>1, <1>3
    <2>2. T = TwoTo[o - 1] /\ TwoTo[o] = 2 * T /\ o > 0
      BY <1>0, <1>1 DEF T, N
    <2>3. Congruent(RootOf(o, -c1 + T), -RootOf(o, -c1))
      BY <1>1, <1>10, <2>2, RootHalf
    <2> QED BY <1>14, <2>1, <2>3
  <1> HIDE DEF v0, v1, w1, S0, S1, Z, R, R1
  <1>18. Congruent(R * v1, R * S1) /\ R * v1 \in Int /\ R * S1 \in Int /\ R1 * S1 \in Int
    <2>1. Congruent(R, R)
      BY <1>11, CongruentRefl
    <2>2. Congruent(R * v1, R * S1)
      BY <1>6, <1>7, <1>11, <1>13, <2>1, CongruentProduct
    <2> QED BY <1>6, <1>11, <1>13, <2>2
  <1>19. Congruent(S0 + R1 * S1, Z)
    BY <1>12, <1>13, <1>18, CongruentSym
  <1>20. Congruent(w1, Z)
    <2>1. CASE d = 0
      <3>1. R = R1
        <4>1. c1 = y
          BY <1>1, <1>3, <2>1
        <4> QED BY <1>14, <4>1 DEF R1
      <3>2. Congruent(v0 + R * v1, S0 + R * S1)
        BY <1>6, <1>7, <1>13, <1>18, CongruentSum
      <3>3. Congruent(w1, S0 + R1 * S1)
        <4>1. v0 + R * v1 \in Int /\ S0 + R * S1 \in Int
          BY <1>6, <1>13, <1>18
        <4> QED BY <1>6, <1>15, <2>1, <3>1, <3>2, <4>1, CongruentTrans
      <3>4. S0 + R1 * S1 \in Int
        BY <1>13, <1>18
      <3> QED BY <1>6, <1>13, <1>19, <3>3, <3>4, CongruentTrans
    <2>2. CASE d = 1
      <3>1. -R1 \in Int /\ S1 * (-R1) = -(R1 * S1) /\ R * S1 = S1 * R /\ -(R1 * S1) \in Int
        BY <1>11, <1>13
      <3>2. Congruent(S1 * R, S1 * (-R1))
        BY <1>11, <1>13, <1>17, <2>2, <3>1, CongruentRefl, CongruentProduct
      <3>3. Congruent(R * v1, -(R1 * S1))
        BY <1>18, <3>1, <3>2, CongruentTrans
      <3>4. Congruent(v0 - R * v1, S0 - (-(R1 * S1)))
        BY <1>6, <1>7, <1>13, <1>18, <3>1, <3>3, CongruentSum
      <3>5. S0 - (-(R1 * S1)) = S0 + R1 * S1 /\ S0 + R1 * S1 \in Int /\ v0 - R * v1 \in Int
        BY <1>6, <1>13, <1>18
      <3>6. Congruent(v0 - R * v1, S0 + R1 * S1)
        BY <3>4, <3>5
      <3>7. Congruent(w1, S0 + R1 * S1)
        BY <1>6, <1>16, <2>2, <3>5, <3>6, CongruentTrans
      <3> QED BY <1>6, <1>13, <1>19, <3>5, <3>7, CongruentTrans
    <2> QED BY <1>2, <2>1, <2>2
  <1> QED BY <1>1, <1>20 DEF w1, Z, n, Q, c1

-----------------------------------------------------------------------------
\* The inverse of the size, and the reference.

\* The number of samples has an inverse.
LEMMA OneOverSize ==
    ASSUME NEW o \in 0..MaxBits
    PROVE  OneOver(TwoTo[o]) \in Int /\ Congruent(OneOver(TwoTo[o]) * TwoTo[o], 1)
  <1> DEFINE N == TwoTo[o]
             h == Stride(o)
             i == Prime - h
             one == 1
  <1>1. N \in Nat \ {0} /\ h \in Nat /\ h * N = Prime - 1 /\ Prime \in Nat \ {0} /\ Prime > 2
    BY StrideExact, PrimeType
  <1> HIDE DEF N, h
  <1>2. h >= 1 /\ h <= Prime - 1
    <2>1. h # 0
      BY <1>1
    <2>2. h * N >= h
      BY <1>1
    <2> QED BY <1>1, <2>1, <2>2
  <1>3. i \in 1..(Prime - 1)
    BY <1>1, <1>2
  <1>4. i * N = Prime * (N - 1) + one
    BY <1>1
  <1>5. (Prime * (N - 1) + one) % Prime = one
    <2>1. one \in 0..(Prime - 1) /\ N - 1 \in Int
      BY <1>1
    <2> HIDE DEF one
    <2> QED BY <1>1, <2>1, DivisionUnique
  <1>6. \E k \in 1..(Prime - 1) : (k * N) % Prime = 1
    BY <1>3, <1>4, <1>5
  <1> DEFINE k == OneOver(N)
  <1>7. k \in 1..(Prime - 1) /\ (k * N) % Prime = 1
    BY <1>6, Zenon DEF OneOver
  <1> HIDE DEF k
  <1>8. k \in Int /\ k * N \in Int
    BY <1>1, <1>7
  <1>9. Congruent((k * N) % Prime, k * N)
    BY <1>8, CongruentRemainder
  <1>10. Congruent(k * N, 1)
    BY <1>7, <1>8, <1>9, CongruentSym
  <1> QED BY <1>8, <1>10 DEF k, N

\* The reference, of any block.
DftOf(sig, o, j) ==
    LET sum[k \in 0..TwoTo[o]] ==
            IF k = 0 THEN 0
            ELSE sum[k - 1] + sig[k - 1] * RootOf(o, TwoTo[o] - ((j * (k - 1)) % TwoTo[o]))
    IN  sum[TwoTo[o]] % Prime

\* f is the terms of coefficient j.
Coefficient(f, sig, o, j) ==
    \A s \in 0..(TwoTo[o] - 1) : f[s] = sig[s] * RootOf(o, TwoTo[o] - ((j * s) % TwoTo[o]))

\* Whatever f is, if its values are the terms of coefficient j, the reference is its sum.
LEMMA DftSums ==
    ASSUME NEW o \in 0..MaxBits, NEW sig, NEW j \in Int, NEW f, f \in [Nat -> Int],
           Coefficient(f, sig, o, j)
    PROVE  DftOf(sig, o, j) = Sums(f)[TwoTo[o]] % Prime
  <1> DEFINE N == TwoTo[o]
             Added(k, s) == s + sig[k] * RootOf(o, N - ((j * k) % N))
             Summed(g) == [k \in 0..N |-> IF k = 0 THEN 0 ELSE Added(k - 1, g[k - 1])]
             sum == CHOOSE g : g = Summed(g)
             g0 == [k \in 0..N |-> Sums(f)[k]]
  <1>1. N \in Nat \ {0}
    BY StrideExact
  <1>2. DftOf(sig, o, j) = sum[N] % Prime
    BY Zenon DEF DftOf
  <1> HIDE DEF N
  <1>3. ASSUME NEW k \in 0..(N - 1)
        PROVE  Sums(f)[k + 1] = Added(k, Sums(f)[k])
    <2>1. f[k] = sig[k] * RootOf(o, N - ((j * k) % N))
      BY Zenon DEF Coefficient, N
    <2>2. Sums(f)[k + 1] = Sums(f)[k] + f[k]
      BY <1>1, SumsType
    <2> QED BY <2>1, <2>2
  <1> HIDE DEF Added
  <1>4. g0 = Summed(g0)
    <2> SUFFICES ASSUME NEW k \in 0..N
                 PROVE  Sums(f)[k] = IF k = 0 THEN 0 ELSE Added(k - 1, g0[k - 1])
      BY Zenon
    <2>1. CASE k = 0
      BY <2>1, SumsType
    <2>2. CASE k # 0
      <3> DEFINE i == k - 1
      <3>1. i \in 0..(N - 1) /\ k = i + 1 /\ i \in 0..N
        BY <1>1, <2>2
      <3> HIDE DEF i
      <3>2. Sums(f)[i + 1] = Added(i, Sums(f)[i]) /\ g0[i] = Sums(f)[i]
        BY <1>3, <3>1
      <3> QED BY <2>2, <3>1, <3>2 DEF i
    <2> QED BY <2>1, <2>2
  <1>5. sum = Summed(sum)
    <2> HIDE DEF g0, Summed
    <2> QED BY <1>4, Zenon
  <1> HIDE DEF sum
  <1>6. sum[0] = 0
    BY <1>1, <1>5
  <1>7. ASSUME NEW k \in 0..(N - 1) PROVE sum[k + 1] = Added(k, sum[k])
    <2>1. k + 1 \in 0..N /\ k + 1 # 0 /\ (k + 1) - 1 = k
      BY <1>1
    <2>2. Summed(sum)[k + 1] = IF k + 1 = 0 THEN 0 ELSE Added((k + 1) - 1, sum[(k + 1) - 1])
      BY <2>1, Zenon
    <2> HIDE DEF Summed
    <2> QED BY <1>5, <2>1, <2>2
  <1> DEFINE S == {k \in Nat : k <= N => sum[k] = Sums(f)[k]}
  <1>8. 0 \in S
    BY <1>6, SumsType
  <1>9. ASSUME NEW k \in Nat, k \in S PROVE k + 1 \in S
    <2> SUFFICES ASSUME k + 1 <= N PROVE sum[k + 1] = Sums(f)[k + 1]
      OBVIOUS
    <2>1. k \in 0..(N - 1) /\ sum[k] = Sums(f)[k]
      BY <1>1, <1>9
    <2> QED BY <1>3, <1>7, <2>1
  <1>10. Nat \subseteq S
    <2> HIDE DEF S
    <2> QED BY <1>8, <1>9, SetInduction
  <1>11. sum[N] = Sums(f)[N]
    BY <1>1, <1>10
  <1> QED BY <1>2, <1>11 DEF N

\* The transform of a block is the sum that the last level has made.
LEMMA DftTerms ==
    ASSUME NEW o \in 0..MaxBits, NEW sig, Blocked(sig, o), NEW j \in 0..(TwoTo[o] - 1)
    PROVE  DftOf(sig, o, j) = Sums(Terms(sig, o, 1, 0, j))[TwoTo[o]] % Prime
  <1> DEFINE N == TwoTo[o]
             one == 1
             zero == 0
             f == Terms(sig, o, one, zero, j)
  <1>1. N \in Nat \ {0} /\ one \in Nat /\ zero \in Nat /\ j \in Int
    BY StrideExact
  <1>2. f \in [Nat -> Int]
    <2> HIDE DEF one, zero
    <2> QED BY <1>1, TermsType
  <1>3. Coefficient(f, sig, o, j)
    <2> SUFFICES ASSUME NEW s \in 0..(N - 1)
                 PROVE  f[s] = sig[s] * RootOf(o, N - ((j * s) % N))
      BY Zenon DEF Coefficient
    <2>1. s \in Nat /\ one * s + zero = s
      BY <1>1
    <2>2. f[s] = IF one * s + zero \in 0..(N - 1)
                 THEN sig[one * s + zero] * RootOf(o, -(j * s)) ELSE 0
      BY <2>1, Zenon DEF Terms
    <2>3. f[s] = sig[s] * RootOf(o, -(j * s))
      <3> HIDE DEF f, one, zero
      <3> QED BY <2>1, <2>2
    <2> DEFINE a == j * s
               c == a \div N
               u == a % N
               k == c + 1
    <2>4. a \in Int
      BY <2>1
    <2>5. c \in Int /\ u \in 0..(N - 1) /\ a = N * c + u
      <3> HIDE DEF a
      <3> QED BY <1>1, <2>4, IntDivision
    <2> HIDE DEF a, c, u, N
    <2>6. N - u = -a + k * N /\ k \in Int /\ -a \in Int
      BY <1>1, <2>4, <2>5
    <2> HIDE DEF k
    <2>7. RootOf(o, -a + k * TwoTo[o]) = RootOf(o, -a)
      BY <2>6, RootPeriod
    <2>8. RootOf(o, N - u) = RootOf(o, -a)
      BY <2>6, <2>7 DEF N
    <2> QED BY <2>3, <2>8 DEF a, u
  <1> HIDE DEF f
  <1>4. DftOf(sig, o, j) = Sums(f)[N] % Prime
    BY <1>1, <1>2, <1>3, DftSums
  <1> QED BY <1>4 DEF f

\* The transform of silence is silence.
LEMMA DftOfSilence ==
    ASSUME NEW o \in 0..MaxBits, NEW j \in Int
    PROVE  DftOf([i \in 0..(TwoTo[o] - 1) |-> 0], o, j) = 0
  <1> DEFINE N == TwoTo[o]
             sig == [i \in 0..(N - 1) |-> 0]
             f == [s \in Nat |-> 0]
  <1>1. N \in Nat \ {0}
    BY StrideExact
  <1>2. f \in [Nat -> Int] /\ \A s \in Nat : f[s] = 0
    OBVIOUS
  <1>3. Coefficient(f, sig, o, j)
    <2> SUFFICES ASSUME NEW s \in 0..(N - 1)
                 PROVE  f[s] = sig[s] * RootOf(o, N - ((j * s) % N))
      BY Zenon DEF Coefficient
    <2> DEFINE a == j * s
               u == N - (a % N)
    <2>1. a \in Int
      BY <1>1
    <2>2. u \in Int
      <3> HIDE DEF a
      <3> QED BY <1>1, <2>1, IntDivision
    <2> HIDE DEF u
    <2>3. RootOf(o, u) \in Int
      BY <2>2, RootType
    <2>4. sig[s] = 0 /\ f[s] = 0
      BY <1>1
    <2> HIDE DEF sig, f
    <2>5. f[s] = sig[s] * RootOf(o, u)
      BY <2>3, <2>4
    <2> QED BY <2>5 DEF u
  <1> HIDE DEF f, sig
  <1>4. DftOf(sig, o, j) = Sums(f)[N] % Prime
    BY <1>2, <1>3, DftSums
  <1> DEFINE S == {k \in Nat : Sums(f)[k] = 0}
  <1>5. Nat \subseteq S
    <2>1. Sums(f)[0] = 0 /\ \A k \in Nat : Sums(f)[k + 1] = Sums(f)[k] + f[k]
      BY <1>2, SumsType
    <2>2. 0 \in S /\ \A k \in Nat : k \in S => k + 1 \in S
      BY <1>2, <2>1
    <2> HIDE DEF S
    <2> QED BY <2>2, SetInduction
  <1>6. Sums(f)[N] = 0
    BY <1>1, <1>5
  <1>7. 0 % Prime = 0
    BY PrimeType
  <1> QED BY <1>4, <1>6, <1>7 DEF sig, N

-----------------------------------------------------------------------------
\* The FFT's invariant, and its steps.

\* After the swaps: each slot holds the sum of its coefficient.
Transformed(v, sig, o) ==
    \A k \in 0..(TwoTo[o] - 1) :
        Congruent(v[k], Sums(Terms(sig, o, 1, 0, k))[TwoTo[o]])

\* After the scaling: the reference, divided by the number of samples.
Scaled(v, sig, o) ==
    \A j \in 0..(TwoTo[o] - 1) : (TwoTo[o] * v[j]) % Prime = DftOf(sig, o, j)

\* The table holds the reversals of the slots in use.
Filled(table, o) == \A i \in 0..(TwoTo[o] - 1) : table[i] = Reversed[o][i]

\* The types of the object's state.
FftTypes ==
    /\ bits \in 0..MaxBits
    /\ bitreverse \in [0..(TwoTo[MaxBits] - 1) -> Nat]
    /\ Blocked(signal, bits) /\ Blocked(x, bits)
    /\ level \in Nat
    /\ phase \in {"done", "levels", "scale"}

\* The inductive invariant: what each phase has made of the block.
FftInv ==
    /\ FftTypes
    /\ Filled(bitreverse, bits)
    /\ phase = "levels" => level <= bits /\ Blocks(x, signal, bits, level)
    /\ phase = "scale" => Transformed(x, signal, bits)
    /\ phase = "done" => Scaled(x, signal, bits)

\* No block is larger than the table of reversals.
LEMMA TwoToDivides ==
    ASSUME NEW o \in 0..MaxBits PROVE TwoTo[o] \in Nat \ {0} /\ TwoTo[o] <= TwoTo[MaxBits]
  <1> DEFINE d == TwoTo[MaxBits - o]
             N == TwoTo[o]
  <1>0. MaxBits \in Nat /\ o \in Nat /\ MaxBits - o \in Nat /\ o + (MaxBits - o) = MaxBits
    BY FftAssumption
  <1>1. TwoTo[MaxBits] = N * d /\ N \in Nat \ {0} /\ d \in Nat \ {0}
    BY <1>0, TwoToSum, TwoToType
  <1> HIDE DEF N, d
  <1>2. N <= N * d
    BY <1>1
  <1> QED BY <1>1, <1>2 DEF N

\* setBits() fills the entries in use, whatever the table held.
LEMMA RefilledFilled ==
    ASSUME NEW o \in 0..MaxBits, NEW table, table \in [0..(TwoTo[MaxBits] - 1) -> Nat]
    PROVE  /\ Refilled(table, o) \in [0..(TwoTo[MaxBits] - 1) -> Nat]
           /\ Filled(Refilled(table, o), o)
  <1>1. TwoTo[o] \in Nat \ {0} /\ TwoTo[o] <= TwoTo[MaxBits]
    BY TwoToDivides
  <1>2. o \in Nat /\ TwoTo[MaxBits] \in Nat
    BY FftAssumption, TwoToType
  <1> DEFINE slots == 0..(TwoTo[MaxBits] - 1)
             t == [i \in slots |-> IF i < TwoTo[o] THEN Reversed[o][i] ELSE table[i]]
  <1>3. Refilled(table, o) = t
    BY DEF Refilled
  <1>4. ASSUME NEW i \in slots PROVE i \in Nat /\ Reversed[o][i] \in Nat /\ table[i] \in Nat
    <2>1. i \in Nat
      BY <1>2
    <2> QED BY <1>2, <2>1, ReversedType
  <1>5. t \in [slots -> Nat]
    BY <1>4
  <1>6. ASSUME NEW i \in 0..(TwoTo[o] - 1) PROVE t[i] = Reversed[o][i]
    <2>1. i \in slots /\ i < TwoTo[o]
      BY <1>1, <1>2
    <2> QED BY <2>1
  <1> HIDE DEF t
  <1> QED BY <1>3, <1>5, <1>6 DEF Filled

\* A block of silence is its own transform.
LEMMA SilenceScaled ==
    ASSUME NEW o \in 0..MaxBits, NEW s, s = [i \in 0..(TwoTo[o] - 1) |-> 0]
    PROVE  Blocked(s, o) /\ Scaled(s, s, o)
  <1>1. Blocked(s, o)
    BY DEF Blocked
  <1>2. ASSUME NEW j \in 0..(TwoTo[o] - 1) PROVE (TwoTo[o] * s[j]) % Prime = DftOf(s, o, j)
    <2>1. TwoTo[o] \in Nat \ {0}
      BY StrideExact
    <2>2. TwoTo[o] * s[j] = 0 /\ j \in Int
      BY <2>1
    <2>3. 0 % Prime = 0
      BY PrimeType
    <2>4. DftOf(s, o, j) = 0
      BY <2>2, DftOfSilence
    <2> QED BY <2>2, <2>3, <2>4
  <1> QED BY <1>1, <1>2 DEF Scaled

\* One level makes the butterflies of its pairs.
LEMMA LevelButterflies ==
    ASSUME FftInv, Level
    PROVE  Blocked(x', bits) /\ Butterflies(x', x, bits, level)
  <1> DEFINE o == bits
             l == level
             n == TwoTo[o - (l + 1)]
             n2 == TwoTo[o - l]
             Q == TwoTo[l]
             N == TwoTo[o]
             slots == 0..(N - 1)
  <1>0. o \in 0..MaxBits /\ o \in Nat /\ l \in Nat /\ l < o
    BY FftAssumption DEF FftInv, FftTypes, Level
  <1>1. /\ n2 = 2 * n /\ TwoTo[l + 1] = 2 * Q /\ N = n2 * Q
        /\ N \in Nat \ {0} /\ Q \in Nat \ {0} /\ n2 \in Nat \ {0} /\ n \in Nat \ {0}
    BY <1>0, LevelSizes
  <1>2. x' = [k \in slots |-> Butterfly(n, k)]
    <2> DEFINE L == TwoTo[l + 1]
               z == 0
    <2>1. L \in Nat \ {0} /\ N = L * n + z /\ z \in 0..(L - 1) /\ n \in Int
      <3>1. L = 2 * Q
        BY <1>1
      <3> HIDE DEF L, N, n, n2, Q
      <3> QED BY <1>1, <3>1
    <2> HIDE DEF L, N, n, z
    <2>2. (L * n + z) \div L = n
      BY <2>1, DivisionUnique
    <2>3. N \div L = n
      BY <2>1, <2>2
    <2> QED BY <2>3, Zenon DEF Level, Slots, Size, L, N
  <1> DEFINE R(q) == RootOf(o, N - Reversed[o][2 * q])
  <1>3. ASSUME NEW q \in 0..(Q - 1), NEW r \in 0..(n - 1)
        PROVE  LET k == n * (2 * q) + r
                   j == n * (2 * q + 1) + r
                   t == R(q) * x[k + n]
               IN  /\ k \in slots /\ j \in slots /\ n2 * q + r = k /\ n2 * q + (r + n) = k + n
                   /\ k + n \in slots
                   /\ x[k] \in Int /\ x[k + n] \in Int /\ R(q) \in Int
                   /\ Butterfly(n, k) = (x[k] + t) % Prime
                   /\ Butterfly(n, j) = (x[k] + (-t)) % Prime
    <2> DEFINE k == n * (2 * q) + r
               j == n * (2 * q + 1) + r
               t == R(q) * x[k + n]
               q2 == 2 * q
               q3 == 2 * q + 1
    <2>1. q \in Nat /\ r \in Nat /\ q2 \in Nat /\ q3 \in Nat /\ q2 % 2 = 0 /\ q3 % 2 = 1
      <3>1. q \in Nat /\ r \in Nat
        BY <1>1
      <3> QED BY <3>1
    <2>2. k = n * q2 + r /\ j = n * q3 + r /\ j = k + n /\ k \in Nat /\ k = n2 * q + r
      <3> HIDE DEF n, n2
      <3> QED BY <1>1, <2>1
    <2>3. n2 * q + (r + n) = k + n
      <3> HIDE DEF n, n2, k
      <3> QED BY <1>1, <2>1, <2>2
    <2>4. j \in slots /\ k \in slots
      <3> HIDE DEF n, n2, k, j, Q, N
      <3>1. n2 * (q + 1) <= n2 * Q
        BY <1>1
      <3>2. n2 * (q + 1) = n2 * q + n2 /\ n2 * q \in Nat
        BY <1>1, <2>1
      <3> QED BY <1>1, <2>2, <3>1, <3>2
    <2>5. q2 \in slots
      <3> HIDE DEF n, n2, Q, N
      <3>1. n2 * Q >= 2 * Q
        BY <1>1
      <3> QED BY <1>1, <2>1, <3>1
    <2>6. bitreverse[q2] = Reversed[o][q2]
      BY <2>5, Zenon DEF FftInv, Filled
    <2> HIDE DEF k, j, q2, q3
    <2>7. (n * q2 + r) \div n = q2 /\ (n * q3 + r) \div n = q3
      <3>1. q2 \in Int /\ q3 \in Int
        BY <2>1
      <3> HIDE DEF n
      <3> QED BY <1>1, <3>1, DivisionUnique
    <2>8. k \div n = q2 /\ j \div n = q3
      BY <2>2, <2>7
    <2>9. x[k] \in Int /\ x[k + n] \in Int
      BY <2>2, <2>4, Zenon DEF FftInv, FftTypes, Blocked
    <2>10. RootOf(o, N - Reversed[o][q2]) \in Int
      <3>1. Reversed[o][q2] \in Nat
        BY <1>0, <2>1, ReversedType
      <3>2. N - Reversed[o][q2] \in Int
        BY <1>1, <3>1
      <3> QED BY <1>0, <3>2, RootType
    <2>11. Root(Size - bitreverse[q2]) = RootOf(o, N - Reversed[o][q2])
      BY <2>6, Zenon DEF Root, RootOf, Size
    <2>12. Butterfly(n, k) = (x[k] + RootOf(o, N - Reversed[o][q2]) * x[k + n]) % Prime
      <3> DEFINE y == RootOf(o, N - Reversed[o][q2])
      <3> HIDE DEF n, N, y
      <3>1. Root(Size - bitreverse[q2]) = y
        BY <2>11 DEF y
      <3>2. Butterfly(n, k) = (x[k] + y * x[k + n]) % Prime
        BY <2>1, <2>8, <3>1 DEF Butterfly
      <3> QED BY <3>2 DEF y
    <2>13. Butterfly(n, j) = (x[k] + (-(RootOf(o, N - Reversed[o][q2]) * x[k + n]))) % Prime
      <3> DEFINE y == RootOf(o, N - Reversed[o][q2])
      <3> HIDE DEF n, N, y
      <3>1. Root(Size - bitreverse[q2]) = y
        BY <2>11 DEF y
      <3>2. j - n = k /\ j # k /\ q3 % 2 # 0
        BY <1>1, <2>1, <2>2
      <3>3. Butterfly(n, j) = (x[k] + (-(y * x[k + n]))) % Prime
        BY <2>8, <3>1, <3>2 DEF Butterfly
      <3> QED BY <3>3 DEF y
    <2> HIDE DEF n, n2, N
    <2> QED BY <2>2, <2>3, <2>4, <2>9, <2>10, <2>12, <2>13 DEF k, j, q2
  <1> HIDE DEF R
  <1>4. ASSUME NEW k \in slots PROVE Butterfly(n, k) \in Int
    <2> DEFINE q1 == k \div n
               r == k % n
               q == q1 \div 2
    <2>0. k \in Nat
      BY <1>1
    <2>1. q1 \in Nat /\ r \in 0..(n - 1) /\ k = n * q1 + r
      <3> HIDE DEF n
      <3> QED BY <1>1, <2>0, Division
    <2> HIDE DEF q1, r
    <2>2. q \in Nat /\ (q1 = 2 * q \/ q1 = 2 * q + 1)
      BY <2>1
    <2> HIDE DEF q
    <2>3. q \in 0..(Q - 1)
      <3> HIDE DEF n, n2, Q, N
      <3>1. CASE q >= Q
        <4>1. n2 * q >= n2 * Q
          BY <1>1, <2>2, <3>1
        <4>2. n * q1 >= n * (2 * q)
          BY <1>1, <2>1, <2>2
        <4>3. n * (2 * q) = n2 * q
          BY <1>1, <2>2
        <4>4. n * q1 \in Nat /\ n2 * q \in Nat
          BY <1>1, <2>1, <2>2
        <4> QED BY <1>1, <2>1, <4>1, <4>2, <4>3, <4>4
      <3> QED BY <1>1, <2>2, <3>1
    <2> DEFINE i == n * (2 * q) + r
               t == R(q) * x[i + n]
    <2>4. /\ x[i] \in Int /\ x[i + n] \in Int /\ R(q) \in Int
          /\ Butterfly(n, i) = (x[i] + t) % Prime
          /\ Butterfly(n, n * (2 * q + 1) + r) = (x[i] + (-t)) % Prime
      BY <1>3, <2>1, <2>3, Zenon
    <2> HIDE DEF i
    <2>5. t \in Int
      BY <2>4
    <2> HIDE DEF t
    <2>6. (x[i] + t) % Prime \in Int /\ (x[i] + (-t)) % Prime \in Int
      BY <2>4, <2>5, PrimeType
    <2>7. CASE q1 = 2 * q
      BY <2>1, <2>4, <2>6, <2>7 DEF i
    <2>8. CASE q1 = 2 * q + 1
      BY <2>1, <2>4, <2>6, <2>8 DEF i
    <2> QED BY <2>2, <2>7, <2>8
  <1>5. Blocked(x', bits)
    <2> HIDE DEF n
    <2>1. x' \in [slots -> Int]
      BY <1>2, <1>4
    <2> QED BY <2>1 DEF Blocked
  <1>6. ASSUME NEW q \in 0..(Q - 1), NEW r \in 0..(n - 1)
        PROVE  LET t == R(q) * x[n2 * q + (r + n)]
               IN  /\ Congruent(x'[n * (2 * q) + r], x[n2 * q + r] + t)
                   /\ Congruent(x'[n * (2 * q + 1) + r], x[n2 * q + r] - t)
    <2> DEFINE k == n * (2 * q) + r
               j == n * (2 * q + 1) + r
               t == R(q) * x[k + n]
    <2>1. /\ k \in slots /\ j \in slots /\ n2 * q + r = k /\ n2 * q + (r + n) = k + n
          /\ x[k] \in Int /\ x[k + n] \in Int /\ R(q) \in Int
          /\ Butterfly(n, k) = (x[k] + t) % Prime
          /\ Butterfly(n, j) = (x[k] + (-t)) % Prime
      BY <1>3, Zenon
    <2> HIDE DEF k, j, n, n2, N
    <2>2. x'[k] = (x[k] + t) % Prime /\ x'[j] = (x[k] + (-t)) % Prime
      BY <1>2, <2>1
    <2>3. t \in Int
      BY <2>1
    <2> DEFINE xk == x[k]
    <2>4. xk + t \in Int /\ xk + (-t) \in Int /\ xk + (-t) = xk - t
      <3> HIDE DEF t
      <3> QED BY <2>1, <2>3
    <2>5. Congruent((xk + t) % Prime, xk + t) /\ Congruent((xk + (-t)) % Prime, xk + (-t))
      <3> HIDE DEF t, xk
      <3> QED BY <2>4, CongruentRemainder
    <2> HIDE DEF xk, t
    <2>6. Congruent(x'[k], xk + t) /\ Congruent(x'[j], xk - t)
      BY <2>2, <2>4, <2>5 DEF xk
    <2> QED BY <2>1, <2>6 DEF xk, t, k, j
  <1>7. Butterflies(x', x, bits, level)
    BY <1>6, Zenon DEF Butterflies, R
  <1> QED BY <1>5, <1>7

\* The reference of the block in hand.
LEMMA DftIsDftOf == \A j : Dft(j) = DftOf(signal, bits, j)
  BY Zenon DEF Dft, DftOf, Root, RootOf, Size

\* A new object holds silence.
LEMMA FftInvInit == FftInit => FftInv
  <1> SUFFICES ASSUME FftInit PROVE FftInv
    OBVIOUS
  <1> DEFINE table == [i \in 0..(TwoTo[MaxBits] - 1) |-> 0]
  <1>1. /\ bits \in 0..MaxBits /\ bitreverse = Refilled(table, bits)
        /\ signal = [i \in 0..(TwoTo[bits] - 1) |-> 0] /\ x = signal
        /\ level = 0 /\ phase = "done"
    BY Zenon DEF FftInit, Slots, Size
  <1>2. table \in [0..(TwoTo[MaxBits] - 1) -> Nat]
    OBVIOUS
  <1> HIDE DEF table
  <1>3. bitreverse \in [0..(TwoTo[MaxBits] - 1) -> Nat] /\ Filled(bitreverse, bits)
    BY <1>1, <1>2, RefilledFilled
  <1>4. Blocked(signal, bits) /\ Scaled(signal, signal, bits)
    BY <1>1, SilenceScaled
  <1> QED BY <1>1, <1>3, <1>4 DEF FftInv, FftTypes

\* setBits() refills the table and silences the block.
LEMMA SetBitsKeeps == ASSUME FftInv, SetBits PROVE FftInv'
  <1>1. PICK b \in 0..MaxBits : bits' = b /\ bitreverse' = Refilled(bitreverse, b)
    BY DEF SetBits
  <1>2. /\ x' = [i \in 0..(TwoTo[bits'] - 1) |-> 0] /\ signal' = x'
        /\ phase' = "done" /\ level' = level
    BY Zenon DEF SetBits, Slots, Size
  <1>3. bitreverse' \in [0..(TwoTo[MaxBits] - 1) -> Nat] /\ Filled(bitreverse', bits')
    BY <1>1, RefilledFilled DEF FftInv, FftTypes
  <1>4. Blocked(signal', bits') /\ Scaled(signal', signal', bits')
    BY <1>1, <1>2, SilenceScaled
  <1> QED BY <1>1, <1>2, <1>3, <1>4 DEF FftInv, FftTypes

\* doFFT() starts with one block, of transforms of one sample.
LEMMA DoFftKeeps == ASSUME FftInv, DoFft PROVE FftInv'
  <1>1. /\ signal' \in Signals(TwoTo[bits]) /\ x' = signal' /\ level' = 0
        /\ phase' = "levels" /\ bits' = bits /\ bitreverse' = bitreverse
    BY Zenon DEF DoFft, Size
  <1>2. bits \in 0..MaxBits
    BY DEF FftInv, FftTypes
  <1>3. Blocked(signal', bits)
    BY <1>1, <1>2, FftAssumption DEF Blocked
  <1>4. Blocks(signal', signal', bits, 0)
    BY <1>2, <1>3, FirstBlocks
  <1> QED BY <1>1, <1>2, <1>3, <1>4 DEF FftInv, FftTypes

\* Each level halves the blocks and doubles the samples of each transform.
LEMMA LevelKeeps == ASSUME FftInv, Level PROVE FftInv'
  <1>1. /\ phase = "levels" /\ level < bits /\ level' = level + 1 /\ bits' = bits
        /\ bitreverse' = bitreverse /\ signal' = signal /\ phase' = "levels"
    BY DEF Level
  <1>2. Blocked(x', bits) /\ Butterflies(x', x, bits, level)
    BY LevelButterflies
  <1>3. /\ bits \in 0..MaxBits /\ level \in Nat /\ bits \in Int
        /\ Blocked(signal, bits) /\ Blocked(x, bits) /\ Blocks(x, signal, bits, level)
    BY <1>1, FftAssumption DEF FftInv, FftTypes
  <1>4. Blocks(x', signal, bits, level + 1)
    BY <1>1, <1>2, <1>3, NextBlocks
  <1> QED BY <1>1, <1>2, <1>3, <1>4 DEF FftInv, FftTypes

\* After the turns below k of the loop of swaps, each pair with a slot below k is swapped.
SwappedBelow(k) ==
    [j \in Slots |-> IF j < k \/ bitreverse[j] < k THEN x[bitreverse[j]] ELSE x[j]]

\* One turn swaps the pair of its slot, if it meets the lower slot of the two.
LEMMA SwapTurn ==
    ASSUME FftInv, NEW s \in Slots
    PROVE  SwappedBelow(s + 1) =
               LET v == SwappedBelow(s)
                   i == bitreverse[s]
               IN  IF i <= s THEN v ELSE [v EXCEPT ![s] = v[i], ![i] = v[s]]
  <1> DEFINE i == bitreverse[s]
             v == SwappedBelow(s)
             w == SwappedBelow(s + 1)
  <1>1. /\ \A j \in Slots : /\ j \in Nat /\ bitreverse[j] \in Slots
                            /\ bitreverse[bitreverse[j]] = j
    <2> SUFFICES ASSUME NEW j \in Slots
                 PROVE  /\ j \in Nat /\ bitreverse[j] \in Slots
                        /\ bitreverse[bitreverse[j]] = j
      OBVIOUS
    <2> DEFINE N == TwoTo[bits]
               q == Reversed[bits][j]
    <2>1. bits \in Nat /\ N \in Nat \ {0} /\ Slots = 0..(N - 1)
      BY FftAssumption, StrideExact DEF FftInv, FftTypes, Slots, Size
    <2> HIDE DEF N
    <2>2. j \in Nat
      BY <2>1
    <2>3. q \in 0..(N - 1)
      BY <2>1, <2>2, ReversedLess DEF N
    <2>4. Reversed[bits][q] = j
      <3>1. Undoes(bits)
        BY <2>1, ReversedTwice
      <3> QED BY <2>1, <3>1 DEF Undoes, N
    <2>5. bitreverse[j] = q
      BY <2>1, Zenon DEF FftInv, Filled, N
    <2> HIDE DEF q
    <2>6. bitreverse[q] = Reversed[bits][q]
      BY <2>3, Zenon DEF FftInv, Filled, N
    <2> QED BY <2>1, <2>2, <2>3, <2>4, <2>5, <2>6
  <1>2. i \in Slots /\ i \in Nat /\ s \in Nat /\ bitreverse[i] = s
    BY <1>1
  <1>3. \A j \in Slots : bitreverse[j] = s => j = i
    BY <1>1
  <1>4. /\ \A j \in Slots : v[j] = IF j < s \/ bitreverse[j] < s THEN x[bitreverse[j]] ELSE x[j]
        /\ \A j \in Slots : w[j] = IF j < s + 1 \/ bitreverse[j] < s + 1
                                  THEN x[bitreverse[j]] ELSE x[j]
    BY Zenon DEF SwappedBelow
  <1>5. v = [j \in Slots |-> v[j]] /\ w = [j \in Slots |-> w[j]]
    BY Zenon DEF SwappedBelow
  <1> HIDE DEF v, w, i
  <1>6. ASSUME NEW j \in Slots, j # s, j # i PROVE w[j] = v[j]
    <2> DEFINE b == bitreverse[j]
    <2>1. j \in Nat /\ b \in Slots /\ b # s
      BY <1>1, <1>3, <1>6
    <2>2. b \in Nat
      BY <1>1, <2>1
    <2>3. /\ v[j] = IF j < s \/ b < s THEN x[b] ELSE x[j]
          /\ w[j] = IF j < s + 1 \/ b < s + 1 THEN x[b] ELSE x[j]
      BY <1>4
    <2> HIDE DEF b
    <2> QED BY <1>2, <1>6, <2>1, <2>2, <2>3
  <1>7. /\ v[s] = IF i < s THEN x[i] ELSE x[s]
        /\ v[i] = IF i < s THEN x[s] ELSE x[i]
        /\ w[s] = x[i] /\ w[i] = x[s]
    <2>1. bitreverse[s] = i
      BY DEF i
    <2>2. /\ v[s] = IF s < s \/ i < s THEN x[i] ELSE x[s]
          /\ v[i] = IF i < s \/ s < s THEN x[s] ELSE x[i]
          /\ w[s] = IF s < s + 1 \/ i < s + 1 THEN x[i] ELSE x[s]
          /\ w[i] = IF i < s + 1 \/ s < s + 1 THEN x[s] ELSE x[i]
      BY <1>2, <1>4, <2>1
    <2> QED BY <1>2, <2>2
  <1>8. CASE i <= s
    <2>1. ASSUME NEW j \in Slots PROVE w[j] = v[j]
      <3>1. i < s \/ i = s
        BY <1>2, <1>8
      <3> QED BY <1>6, <1>7, <3>1
    <2>2. w = v
      BY <1>5, <2>1
    <2> QED BY <1>8, <2>2 DEF v, w, i
  <1>9. CASE ~(i <= s)
    <2> DEFINE u == [v EXCEPT ![s] = v[i], ![i] = v[s]]
    <2>0. i # s /\ ~(i < s)
      BY <1>2, <1>9
    <2>1. u = [j \in Slots |-> u[j]]
      BY <1>5
    <2>2. ASSUME NEW j \in Slots PROVE w[j] = u[j]
      <3>1. u[j] = IF j = i THEN v[s] ELSE IF j = s THEN v[i] ELSE v[j]
        BY <1>5, <2>0
      <3> HIDE DEF u
      <3> QED BY <1>6, <1>7, <2>0, <3>1
    <2> HIDE DEF u
    <2>3. w = u
      BY <1>5, <2>1, <2>2
    <2> QED BY <1>9, <2>3 DEF v, w, i, u
  <1> QED BY <1>8, <1>9

\* So after all turns, each slot holds what was in its reversed one.
LEMMA SwapsReverse ==
    FftInv => Swaps[Size] = [j \in Slots |-> x[bitreverse[j]]]
  <1> SUFFICES ASSUME FftInv PROVE Swaps[Size] = [j \in Slots |-> x[bitreverse[j]]]
    OBVIOUS
  <1> DEFINE Turn(g, k) ==
                 IF k = 0 THEN x
                 ELSE LET v == g[k - 1]
                          i == bitreverse[k - 1]
                      IN  IF i <= k - 1 THEN v
                          ELSE [v EXCEPT ![k - 1] = v[i], ![i] = v[k - 1]]
             Turns(g) == [k \in 0..Size |-> Turn(g, k)]
             g0 == [k \in 0..Size |-> SwappedBelow(k)]
  <1>1. Size \in Nat \ {0} /\ Slots = 0..(Size - 1)
    BY StrideExact, Zenon DEF FftInv, FftTypes, Slots, Size
  <1>2. \A j \in Slots : bitreverse[j] \in Nat /\ j \in Nat
    <2>1. ASSUME NEW j \in Slots PROVE bitreverse[j] \in Nat /\ j \in Nat
      <3>1. bits \in Nat /\ j \in Nat
        BY <1>1, FftAssumption DEF FftInv, FftTypes
      <3>2. Reversed[bits][j] \in Nat
        BY <3>1, ReversedType
      <3>3. bitreverse[j] = Reversed[bits][j]
        BY Zenon DEF FftInv, Filled, Slots, Size
      <3> QED BY <3>1, <3>2, <3>3
    <2> QED BY <2>1
  <1>3. SwappedBelow(0) = x
    <2>1. x = [j \in Slots |-> x[j]]
      BY Zenon DEF FftInv, FftTypes, Blocked, Slots, Size
    <2>2. ASSUME NEW j \in Slots PROVE ~(j < 0) /\ ~(bitreverse[j] < 0)
      BY <1>2
    <2>3. SwappedBelow(0) = [j \in Slots |-> x[j]]
      BY <2>2, Zenon DEF SwappedBelow
    <2> QED BY <2>1, <2>3
  <1>4. ASSUME NEW g, NEW k \in 1..Size, g[k - 1] = SwappedBelow(k - 1)
        PROVE  Turn(g, k) = SwappedBelow(k)
    <2> DEFINE s == k - 1
    <2>1. s \in Slots /\ k = s + 1 /\ k # 0
      BY <1>1
    <2> HIDE DEF s
    <2>2. SwappedBelow(s + 1) =
              LET v == SwappedBelow(s)
                  i == bitreverse[s]
              IN  IF i <= s THEN v ELSE [v EXCEPT ![s] = v[i], ![i] = v[s]]
      BY <2>1, SwapTurn, Zenon
    <2>3. Turn(g, k) =
              LET v == SwappedBelow(s)
                  i == bitreverse[s]
              IN  IF i <= s THEN v ELSE [v EXCEPT ![s] = v[i], ![i] = v[s]]
      BY <1>4, <2>1, Zenon DEF s
    <2> QED BY <2>1, <2>2, <2>3, Zenon
  <1>5. Swaps = CHOOSE g : g = Turns(g)
    BY Zenon DEF Swaps
  <1>6. g0 = Turns(g0)
    <2> SUFFICES ASSUME NEW k \in 0..Size PROVE SwappedBelow(k) = Turn(g0, k)
      BY Zenon
    <2>1. CASE k = 0
      BY <1>3, <2>1, Zenon
    <2>2. CASE k # 0
      <3>1. k \in 1..Size /\ k - 1 \in 0..Size
        BY <1>1, <2>2
      <3>2. g0[k - 1] = SwappedBelow(k - 1)
        BY <3>1, Zenon
      <3> HIDE DEF g0, Turn
      <3> QED BY <1>4, <3>1, <3>2
    <2> QED BY <2>1, <2>2
  <1>7. Swaps = Turns(Swaps)
    <2> HIDE DEF g0, Turns
    <2> QED BY <1>5, <1>6, Zenon
  <1>8. ASSUME NEW k \in 0..Size PROVE Swaps[k] = Turn(Swaps, k)
    <2> HIDE DEF Turn
    <2> QED BY <1>7, Zenon
  <1> DEFINE S == {k \in Nat : k <= Size => Swaps[k] = SwappedBelow(k)}
  <1>9. 0 \in S
    <2>1. Swaps[0] = Turn(Swaps, 0)
      <3> HIDE DEF Turn
      <3> QED BY <1>1, <1>8
    <2>2. Turn(Swaps, 0) = x
      BY Zenon
    <2> HIDE DEF Turn
    <2> QED BY <1>3, <2>1, <2>2
  <1>10. ASSUME NEW k \in Nat, k \in S PROVE k + 1 \in S
    <2> SUFFICES ASSUME k + 1 <= Size PROVE Swaps[k + 1] = SwappedBelow(k + 1)
      OBVIOUS
    <2> DEFINE n == k + 1
    <2>1. n \in 1..Size /\ n \in 0..Size /\ n - 1 = k
      BY <1>1
    <2>2. Swaps[k] = SwappedBelow(k)
      BY <1>1, <1>10
    <2> HIDE DEF n, Turn
    <2>3. Turn(Swaps, n) = SwappedBelow(n)
      BY <1>4, <2>1, <2>2
    <2>4. Swaps[n] = SwappedBelow(n)
      BY <1>8, <2>1, <2>3
    <2> QED BY <2>4 DEF n
  <1>11. Swaps[Size] = SwappedBelow(Size)
    <2>1. Nat \subseteq S
      <3> HIDE DEF S
      <3> QED BY <1>9, <1>10, SetInduction
    <2> QED BY <1>1, <2>1
  <1>12. ASSUME NEW j \in Slots PROVE j < Size
    BY <1>1
  <1> QED BY <1>11, <1>12, Zenon DEF SwappedBelow

\* After the last level, the swaps put each coefficient in its slot.
LEMMA ReorderKeeps == ASSUME FftInv, Reorder PROVE FftInv'
  <1> DEFINE N == TwoTo[bits]
             slots == 0..(N - 1)
             Z(k) == Sums(Terms(signal, bits, 1, 0, k))[N]
  <1>1. /\ phase = "levels" /\ level = bits /\ level' = level /\ bits' = bits
        /\ bitreverse' = bitreverse /\ signal' = signal /\ phase' = "scale"
        /\ x' = [k \in slots |-> x[bitreverse[k]]]
    BY SwapsReverse, Zenon DEF Reorder, Slots, Size
  <1>2. /\ bits \in 0..MaxBits /\ bits \in Nat /\ Blocked(x, bits)
        /\ Blocks(x, signal, bits, bits) /\ N \in Nat \ {0}
    BY <1>1, FftAssumption, StrideExact DEF FftInv, FftTypes
  <1> HIDE DEF N, Z
  <1>3. ASSUME NEW k \in slots
        PROVE  x'[k] = x[bitreverse[k]] /\ bitreverse[k] \in slots /\ Congruent(x'[k], Z(k))
    <2> DEFINE q == Reversed[bits][k]
               z == 0
    <2>1. bitreverse[k] = q
      BY Zenon DEF FftInv, Filled, N
    <2>2. q \in slots /\ k \in Nat
      <3>1. k \in Nat
        BY <1>2
      <3> QED BY <1>2, <3>1, ReversedLess DEF N
    <2>3. Reversed[bits][q] = k
      <3>1. Undoes(bits)
        BY <1>2, ReversedTwice
      <3> QED BY <3>1 DEF Undoes, N
    <2> HIDE DEF q
    <2>4. TwoTo[bits - bits] = 1 /\ z \in 0..(1 - 1) /\ 1 * q + z = q
      <3>1. bits - bits = 0
        BY <1>2
      <3> QED BY <1>2, <2>2, <3>1, TwoToType
    <2>5. Congruent(x[1 * q + z], Sums(Terms(signal, bits, 1, z, Reversed[bits][q]))[N])
      <3> HIDE DEF z
      <3> QED BY <1>2, <2>2, <2>4 DEF Blocks, N
    <2>6. x'[k] = x[q]
      BY <1>1, <2>1
    <2> QED BY <2>1, <2>2, <2>3, <2>4, <2>5, <2>6 DEF Z
  <1>4. Blocked(x', bits)
    <2>1. ASSUME NEW k \in slots PROVE x[bitreverse[k]] \in Int
      BY <1>2, <1>3 DEF Blocked, N
    <2> QED BY <1>1, <2>1 DEF Blocked, N
  <1>5. Transformed(x', signal, bits)
    BY <1>3, Zenon DEF Transformed, Z, N
  <1> QED BY <1>1, <1>2, <1>4, <1>5 DEF FftInv, FftTypes

\* The division by the number of samples leaves the reference over it.
LEMMA ScaleKeeps == ASSUME FftInv, Scale PROVE FftInv'
  <1> DEFINE N == TwoTo[bits]
             i == OneOver(N)
             slots == 0..(N - 1)
             Z(k) == Sums(Terms(signal, bits, 1, 0, k))[N]
  <1>1. /\ phase = "scale" /\ level' = 0 /\ bits' = bits
        /\ bitreverse' = bitreverse /\ signal' = signal /\ phase' = "done"
        /\ x' = [k \in slots |-> (x[k] * i) % Prime]
    BY Zenon DEF Scale, Slots, Size
  <1>2. /\ bits \in 0..MaxBits /\ bits \in Nat /\ Blocked(x, bits) /\ Blocked(signal, bits)
        /\ Transformed(x, signal, bits) /\ N \in Nat \ {0}
    BY <1>1, FftAssumption, StrideExact DEF FftInv, FftTypes
  <1>3. i \in Int /\ Congruent(i * N, 1)
    BY <1>2, OneOverSize
  <1> HIDE DEF N, i
  <1>4. ASSUME NEW k \in slots
        PROVE  (x[k] * i) % Prime \in Int /\ (N * x'[k]) % Prime = DftOf(signal, bits, k)
    <2> DEFINE v == x[k]
               w == (v * i) % Prime
               s == Z(k)
    <2>1. v \in Int
      BY <1>2 DEF Blocked, N
    <2>2. Congruent(v, s)
      BY <1>2, Zenon DEF Transformed, N
    <2>3. s \in Int /\ DftOf(signal, bits, k) = s % Prime
      <3> DEFINE one == 1
                 zero == 0
      <3>1. one \in Nat /\ zero \in Nat /\ k \in Int /\ N \in Nat
        BY <1>2
      <3> HIDE DEF one, zero
      <3>2. Terms(signal, bits, one, zero, k) \in [Nat -> Int]
        BY <1>2, <3>1, TermsType
      <3>3. Sums(Terms(signal, bits, one, zero, k)) \in [Nat -> Int]
        BY <3>2, SumsType
      <3>4. Sums(Terms(signal, bits, one, zero, k))[N] \in Int
        BY <3>1, <3>3
      <3>5. DftOf(signal, bits, k) = s % Prime
        BY <1>2, DftTerms DEF N
      <3> QED BY <3>4, <3>5 DEF one, zero
    <2> HIDE DEF v, s
    <2>4. v * i \in Int /\ w \in Int /\ Congruent(w, v * i)
      <3>1. v * i \in Int
        BY <1>3, <2>1
      <3> DEFINE p == v * i
      <3> HIDE DEF p
      <3>2. p % Prime \in Int /\ Congruent(p % Prime, p)
        BY <3>1, PrimeType, CongruentRemainder DEF p
      <3> QED BY <3>1, <3>2 DEF p
    <2>5. x'[k] = w
      BY <1>1 DEF v
    <2> HIDE DEF w
    <2>6. N \in Int /\ N * w \in Int /\ N * (v * i) \in Int /\ i * N \in Int /\ v * (i * N) \in Int
      BY <1>2, <1>3, <2>1, <2>4
    <2>7. Congruent(N * w, N * (v * i))
      <3>1. Congruent(N, N)
        BY <2>6, CongruentRefl
      <3> QED BY <2>4, <2>6, <3>1, CongruentProduct
    <2>8. N * (v * i) = v * (i * N)
      BY <1>2, <1>3, <2>1
    <2>9. Congruent(v * (i * N), v * 1) /\ v * 1 = v
      <3>1. Congruent(v, v) /\ 1 \in Int
        BY <2>1, CongruentRefl
      <3>2. Congruent(v * (i * N), v * 1)
        BY <1>3, <2>1, <2>6, <3>1, CongruentProduct
      <3> QED BY <2>1, <3>2
    <2>10. Congruent(N * w, v)
      BY <2>1, <2>6, <2>7, <2>8, <2>9, CongruentTrans
    <2>11. Congruent(N * w, s)
      BY <2>1, <2>2, <2>3, <2>6, <2>10, CongruentTrans
    <2>12. (N * w) % Prime = s % Prime
      BY <2>3, <2>6, <2>11, RemainderCongruent
    <2> QED BY <2>3, <2>4, <2>5, <2>12 DEF w, v
  <1>5. Blocked(x', bits)
    BY <1>1, <1>4 DEF Blocked, N
  <1>6. Scaled(x', signal, bits)
    BY <1>4, Zenon DEF Scaled, N
  <1> QED BY <1>1, <1>2, <1>5, <1>6 DEF FftInv, FftTypes

\* Every step keeps the invariant.
LEMMA FftInvStep == FftInv /\ [FftNext]_fftVars => FftInv'
  <1> SUFFICES ASSUME FftInv, [FftNext]_fftVars PROVE FftInv'
    OBVIOUS
  <1>1. CASE UNCHANGED fftVars
    BY <1>1 DEF fftVars, FftInv, FftTypes
  <1>2. CASE FftNext
    BY <1>2, SetBitsKeeps, DoFftKeeps, LevelKeeps, ReorderKeeps, ScaleKeeps DEF FftNext
  <1> QED BY <1>1, <1>2

\* For every size up to the largest, whatever sizes the object had before, and every
\* block, a finished transform is the discrete Fourier transform of its block divided
\* by the number of samples.
THEOREM FftIsDftHolds == FftSpec => []FftIsDft
  <1>1. FftInv => FftIsDft
    <2> SUFFICES ASSUME FftInv, phase = "done", NEW j \in Slots
                 PROVE  (Size * x[j]) % Prime = Dft(j)
      BY DEF FftIsDft
    <2>1. Scaled(x, signal, bits) /\ j \in 0..(TwoTo[bits] - 1)
      BY Zenon DEF FftInv, Slots, Size
    <2>2. (TwoTo[bits] * x[j]) % Prime = DftOf(signal, bits, j)
      BY <2>1, Zenon DEF Scaled
    <2> QED BY <2>2, DftIsDftOf, Zenon DEF Size
  <1> QED BY <1>1, FftInvInit, FftInvStep, PTL DEF FftSpec

\* Whenever the loop of swaps runs, it leaves in each slot what was in its reversed one:
\* no pair is swapped twice, and none is missed.
THEOREM SwapsReverseHolds == FftSpec => [](Swaps[Size] = [j \in Slots |-> x[bitreverse[j]]])
  BY FftInvInit, FftInvStep, SwapsReverse, PTL DEF FftSpec
=============================================================================

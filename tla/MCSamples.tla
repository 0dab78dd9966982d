----------------------------- MODULE MCSamples ------------------------------
(* What works on blocks of samples, side by side: a behaviour is one of the   *)
(* three kernels, of the sample buffer, or of the FFTW binding at work.       *)
(*                                                                            *)
(* The FFT is linear, so its blocks of 8 and 16 samples are single pulses;    *)
(* those of up to 4 are all blocks of zeros and ones.  The buffer's ints have *)
(* six bits, so that both indices overflow; the smallest two blocks divide    *)
(* Half.  The binding has two callbacks and two block sizes; three addresses, *)
(* of which two are in use unless a race leaks one.  Callers and addresses    *)
(* are interchangeable.                                                       *)
EXTENDS FftKernel, ReverbKernel, ConvolutionKernel, SampleRing, FftwJni, TLC

VARIABLE working

MCSymmetry == Permutations(Callers) \cup Permutations(Addresses)

MCSignals(size) ==
    IF size <= 4 THEN [0..(size - 1) -> {0, 1}]
    ELSE {[i \in 0..(size - 1) |-> IF i = j THEN 1 ELSE 0] : j \in 0..(size - 1)}

SamplesInit ==
    /\ working \in {"FFT", "REVERB", "CONVOLUTION", "BUFFER", "FFTW"}
    /\ FftInit /\ ReverbInit /\ ConvInit /\ RingInit /\ FftwInit
    /\ working # "FFT" => bits = 0
    /\ working # "REVERB" => blockSize = 2
    /\ working # "CONVOLUTION" => length = 1 /\ taps = 1
    /\ working # "BUFFER" => source = "WAV" /\ made = 2
    /\ working # "FFTW" => \A c \in Callers : num[c] = 2 /\ ~multi[c]

SamplesNext ==
    /\ UNCHANGED working
    /\ \/ working = "FFT" /\ FftNext
          /\ UNCHANGED <<reverbVars, convVars, ringVars, fftwVars>>
       \/ working = "REVERB" /\ ReverbNext
          /\ UNCHANGED <<fftVars, convVars, ringVars, fftwVars>>
       \/ working = "CONVOLUTION" /\ ConvNext
          /\ UNCHANGED <<fftVars, reverbVars, ringVars, fftwVars>>
       \/ working = "BUFFER" /\ RingNext
          /\ UNCHANGED <<fftVars, reverbVars, convVars, fftwVars>>
       \/ working = "FFTW" /\ FftwNext
          /\ UNCHANGED <<fftVars, reverbVars, convVars, ringVars>>

SamplesSpec ==
    SamplesInit /\ [][SamplesNext]_<<working, fftVars, reverbVars, convVars, ringVars, fftwVars>>
=============================================================================

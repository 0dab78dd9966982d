--------------------------- MODULE MCConvolution ----------------------------
(* Blocks with fewer samples than taps, as many, and more.                    *)
EXTENDS ConvolutionKernel
=============================================================================

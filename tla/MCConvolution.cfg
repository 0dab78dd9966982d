SPECIFICATION ConvSpec
CONSTANTS
    ConvBlocks = {5, 8}
    ConvParams = {1, 5, 8, 20}
INVARIANT StaysFinite

--------------------------- MODULE MCActionAnswer ---------------------------
\* ActionAnswer on a small instance.
EXTENDS ActionAnswer, TLC

FrameSymmetry == Permutations(Frame)
=============================================================================

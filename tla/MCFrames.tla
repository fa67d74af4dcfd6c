------------------------------ MODULE MCFrames ------------------------------
EXTENDS Frames

MCPages == 0 .. 4
=============================================================================

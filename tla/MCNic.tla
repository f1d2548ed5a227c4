-------------------------------- MODULE MCNic --------------------------------
EXTENDS Nic

MCFrames == 1 .. 2
=============================================================================

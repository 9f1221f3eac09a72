----------------------------- MODULE MCSpiFlash ------------------------------
EXTENDS SpiFlash
MCSectors == 0 .. 1
==============================================================================

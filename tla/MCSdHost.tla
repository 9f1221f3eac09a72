------------------------------ MODULE MCSdHost -------------------------------
EXTENDS SdHost
==============================================================================

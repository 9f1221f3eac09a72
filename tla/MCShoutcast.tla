----------------------------- MODULE MCShoutcast -----------------------------
EXTENDS Shoutcast
MCUnits == 0 .. 2
==============================================================================

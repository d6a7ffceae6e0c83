------------------------------ MODULE MCProcess -----------------------------
EXTENDS Process, TLC
CONSTANTS k1, k2
=============================================================================

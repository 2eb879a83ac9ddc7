---------------------------- MODULE MCConnection ----------------------------
EXTENDS ConnectionCycle

=============================================================================

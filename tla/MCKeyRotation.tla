---------------------------- MODULE MCKeyRotation ----------------------------
EXTENDS KeyRotation, TLC
CONSTANTS c1, c2
=============================================================================

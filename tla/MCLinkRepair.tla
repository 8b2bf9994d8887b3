---------------------------- MODULE MCLinkRepair ----------------------------
EXTENDS LinkRepair

CONSTANTS a, b

MCSides == {a, b}
=============================================================================

------------------------------ MODULE MCSending ------------------------------
EXTENDS Sending, TLC
CONSTANTS f1, f2
MCFlows == {f1, f2}
=============================================================================

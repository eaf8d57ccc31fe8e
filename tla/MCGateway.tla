----------------------------- MODULE MCGateway -----------------------------
(* A group the device may be invited to or begin, or two it is in already. *)
EXTENDS Gateway

CONSTANTS g1, g2

MCOne == {g1}
MCBoth == {g1, g2}
MCNone == {}

=============================================================================

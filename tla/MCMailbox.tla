------------------------------ MODULE MCMailbox ------------------------------
(* Two devices: "a" founds the conversation, "b" is added to it, discovers  *)
(* it, posts and polls beside "a".                                          *)
EXTENDS Mailbox

CONSTANTS a, b
TheDevices == {a, b}
TheFounders == {a}
TheReaders == {b}
=============================================================================

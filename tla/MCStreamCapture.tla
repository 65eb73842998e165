-------------------------- MODULE MCStreamCapture --------------------------
(***************************************************************************)
(* StreamCapture for TLC: more than two buffers can be unread, timeouts    *)
(* that are up before the child starts (the tests use -1), soon or never.  *)
(***************************************************************************)
EXTENDS StreamCapture

CONSTANT none

MCTimeouts == {-1, 0, 1, none}
=============================================================================

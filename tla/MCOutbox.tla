------------------------------- MODULE MCOutbox -------------------------------
(***************************************************************************)
(* Two dispatchers that claim one event at a time, of two.                 *)
(***************************************************************************)
EXTENDS Outbox

CONSTANTS d1, d2
=============================================================================

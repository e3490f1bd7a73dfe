-------------------------- MODULE MCPlurimathPool --------------------------
(***************************************************************************)
(* PlurimathPool for TLC.  Three requests and two workers are the least    *)
(* that put a second worker in service, with a request of its own, while   *)
(* the exit of the first one is still to be delivered.                     *)
(***************************************************************************)
EXTENDS PlurimathPool
=============================================================================

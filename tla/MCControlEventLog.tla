------------------------- MODULE MCControlEventLog -------------------------
(***************************************************************************)
(* Instances of ControlEventLog for TLC.                                   *)
(***************************************************************************)
EXTENDS ControlEventLog, TLC

CONSTANTS p1, p2, c1

\* Every client is connected to p1.
MCProcOf == [c \in Clients |-> p1]
=============================================================================

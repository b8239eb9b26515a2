---------------------------- MODULE MCPortBuffer ----------------------------
(* Instances of PortBuffer. *)
EXTENDS PortBuffer

\* A ReadPort whose reader reads in every cycle, with a PeekPort; a skid port
\* that may be given up; a stall port.
MCKinds     == {{"diligent", "peek"}, {"relaxed", "deactivate"}, {"relaxed", "stall"}}
MCItemBound == [k \in Kinds |-> IF "stall" \in k THEN 3 ELSE MaxItems]
=============================================================================

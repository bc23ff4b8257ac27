--------------------------- MODULE MCAuditedBuild ---------------------------
(***************************************************************************)
(* AuditedBuild on small instances.                                        *)
(***************************************************************************)
EXTENDS AuditedBuild, TLC

CONSTANTS p1, p2, p3

MCPids == {p1, p2, p3}
MCActions == [by : MCPids, n : 1 .. MaxAccess]
MC2 == {p1, p2}
MCA2 == [by : MC2, n : 1 .. MaxAccess]
Symmetry == Permutations({p2, p3})
=============================================================================

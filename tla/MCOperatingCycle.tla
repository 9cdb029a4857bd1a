--------------------------- MODULE MCOperatingCycle ---------------------------
(* Instances of OperatingCycle for TLC. *)
EXTENDS OperatingCycle

CONSTANTS u1, u2, u3, h1, h2, core

\* Two cells of which none outlasts its job, or one that does.
MCUnits == {u1, u2, u3}
MCPlans == {{}, {u1, u2}, {u3}}
MCSlow == {u3}
MCTiers == {core}

=============================================================================

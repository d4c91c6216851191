----------------------------- MODULE MCSidecar -----------------------------
\* Model values and symmetry for the runs of module Sidecar.
EXTENDS SidecarInv, TLC

EngineSymmetry == Permutations(Engines)
NumberSymmetry == EngineSymmetry \cup Permutations(Ids)
=============================================================================

-------------------------- MODULE MCUpstreamMonitor --------------------------
(* Instance of UpstreamMonitor for TLC: two profiles share endpoint a,      *)
(* and a leaves the registry and comes back.                              *)
EXTENDS UpstreamMonitor

CONSTANTS a, b

MCEndpoints == {a, b}
MCStart == <<Direct, a, a, b>>
MCRegistries == {MCStart, <<b, Direct, b>>}
=============================================================================

------------------------------- MODULE PanelDb -------------------------------
(***************************************************************************)
(* The two tasks that write the panel's database: the query log ingest     *)
(* (DnsQueryLog) and the traffic accounting (TrafficAggregator).  They use *)
(* different tables of one connection, whose mutex makes every statement   *)
(* and transaction atomic, so that neither changes what the other does;    *)
(* behaviours in which both are busy are therefore left out.               *)
(***************************************************************************)
EXTENDS DnsQueryLog, TrafficAggregator

DbInit == LogInit /\ TrafficInit

DbNext ==
  \/ recorded = 0 /\ open /\ running /\ LogNext /\ UNCHANGED trafficVars
  \/ said = <<>> /\ restarts = 0 /\ TrafficNext /\ UNCHANGED logVars

DbSpec ==
  DbInit /\ [][DbNext]_<<logVars, trafficVars>> /\ LogFairness /\ TrafficFairness

------------------------------------------------------------------------------
(* Properties *)

\* Types of both parts.
DbTypeOK == LogTypeOK /\ TrafficTypeOK

\* Neither task falls behind for good: the log is read to its end, and the samples in memory
\* are written.
TasksCatchUp == CatchesUp /\ TrafficDrains
=============================================================================

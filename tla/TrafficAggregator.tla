-------------------------- MODULE TrafficAggregator --------------------------
(***************************************************************************)
(* The traffic accounting of the panel (src/panel/traffic.rs): sessions    *)
(* that end put a sample into a bounded queue without waiting, one task    *)
(* collects samples and writes them in batches into two tables, in one     *)
(* transaction (apply_traffic_batch).  A full queue drops the sample, a    *)
(* failed transaction drops the batch, and the end of the process drops    *)
(* what is still in memory.                                                *)
(***************************************************************************)
EXTENDS Integers, FiniteSets, FiniteSetsExt

CONSTANTS
  Capacity,     \* 8192: samples in the channel
  BatchSize,    \* 500: samples at which the task writes without waiting for the tick
  MaxSamples,   \* bound: sessions that end
  LastFlushDay  \* bound: the last day of a behaviour

ASSUME TrafficAssumption ==
  /\ Capacity \in Nat \ {0} /\ BatchSize \in Nat \ {0}
  /\ MaxSamples \in Nat /\ LastFlushDay \in Nat

Days == 0..LastFlushDay

VARIABLES
  recorded,    \* calls of record
  queue,       \* samples in the channel
  batch,       \* samples in buf
  byIp,        \* traffic_by_ip.sessions, per day
  byDomain,    \* traffic_by_ip_domain.sessions, per day
  open,        \* some sender is left
  running,     \* the task has not ended
  flushDay,    \* Utc::now() of the process
  dropped,     \* history: samples that found the queue full or the task gone
  lost,        \* history: samples of failed batches, and in memory at the end of the process
  broken       \* history: a transaction has failed, or the process was killed

tables == <<byIp, byDomain>>
trafficVars == <<recorded, queue, batch, tables, open, running, flushDay, dropped, lost, broken>>

------------------------------------------------------------------------------
\* TrafficAggregator::record, called when a session has ended: try_send.
Record ==
  /\ recorded < MaxSamples /\ open
  /\ recorded' = recorded + 1
  /\ IF queue < Capacity /\ running
     THEN queue' = queue + 1 /\ UNCHANGED dropped
     ELSE dropped' = dropped + 1 /\ UNCHANGED queue
  /\ UNCHANGED <<batch, tables, open, running, flushDay, lost, broken>>

\* Mutant: the statements are not in a transaction.
ApplyUnguarded(n) ==
  \/ /\ byIp' = [byIp EXCEPT ![flushDay] = @ + n]
     /\ byDomain' = [byDomain EXCEPT ![flushDay] = @ + n]
     /\ UNCHANGED <<lost, broken>>
  \/ /\ n > 0
     /\ \E k \in 1..n : /\ byIp' = [byIp EXCEPT ![flushDay] = @ + k]
                         /\ byDomain' = [byDomain EXCEPT ![flushDay] = @ + k - 1]
                         /\ lost' = lost + n - k
     /\ broken' = TRUE

\* apply_traffic_batch: one transaction for both tables, on the day of the flush.
ApplyTrafficBatch(n) ==
  \/ /\ byIp' = [byIp EXCEPT ![flushDay] = @ + n]
     /\ byDomain' = [byDomain EXCEPT ![flushDay] = @ + n]
     /\ UNCHANGED <<lost, broken>>
  \/ /\ n > 0
     /\ lost' = lost + n
     /\ broken' = TRUE
     /\ UNCHANGED tables

\* flush_buf: the batch is taken out of the buffer, then written.
FlushBuf(n) == batch' = 0 /\ ApplyTrafficBatch(n)

\* Mutant: the task writes when it has more than BatchSize samples.
RecvMore ==
  /\ running /\ queue > 0
  /\ queue' = queue - 1
  /\ IF batch + 1 > BatchSize THEN FlushBuf(batch + 1)
     ELSE batch' = batch + 1 /\ UNCHANGED <<tables, lost, broken>>
  /\ UNCHANGED <<recorded, open, running, flushDay, dropped>>

\* rx.recv() returns a sample.
Recv ==
  /\ running /\ queue > 0
  /\ queue' = queue - 1
  /\ IF batch + 1 >= BatchSize THEN FlushBuf(batch + 1)
     ELSE batch' = batch + 1 /\ UNCHANGED <<tables, lost, broken>>
  /\ UNCHANGED <<recorded, open, running, flushDay, dropped>>

\* ticker.tick()
FlushTick ==
  /\ running /\ batch > 0
  /\ FlushBuf(batch)
  /\ UNCHANGED <<recorded, queue, open, running, flushDay, dropped>>

\* The last sender is dropped.
DropSenders ==
  /\ open /\ open' = FALSE
  /\ UNCHANGED <<recorded, queue, batch, tables, running, flushDay, dropped, lost, broken>>

\* rx.recv() returns None: the channel is closed and empty.
RecvNone ==
  /\ running /\ ~open /\ queue = 0
  /\ FlushBuf(batch)
  /\ running' = FALSE
  /\ UNCHANGED <<recorded, queue, open, flushDay, dropped>>

\* The process ends (main returns and the runtime is dropped, or it is killed).
Killed ==
  /\ running /\ running' = FALSE
  /\ lost' = lost + queue + batch
  /\ queue' = 0 /\ batch' = 0
  /\ broken' = TRUE
  /\ UNCHANGED <<recorded, tables, open, flushDay, dropped>>

NextDay ==
  /\ flushDay < LastFlushDay
  /\ flushDay' = flushDay + 1
  /\ UNCHANGED <<recorded, queue, batch, tables, open, running, dropped, lost, broken>>

------------------------------------------------------------------------------
TrafficInit ==
  /\ recorded = 0 /\ queue = 0 /\ batch = 0
  /\ byIp = [d \in Days |-> 0] /\ byDomain = [d \in Days |-> 0]
  /\ open = TRUE /\ running = TRUE
  /\ flushDay = 0
  /\ dropped = 0 /\ lost = 0 /\ broken = FALSE

TrafficTask == Recv \/ FlushTick \/ RecvNone

TrafficNext == Record \/ TrafficTask \/ DropSenders \/ Killed \/ NextDay

\* The task is never blocked; tick and channel are polled in random order by select!.
TrafficFairness == WF_trafficVars(Recv) /\ WF_trafficVars(FlushTick) /\ WF_trafficVars(RecvNone)

TrafficSpec == TrafficInit /\ [][TrafficNext]_trafficVars /\ TrafficFairness

------------------------------------------------------------------------------
(* Properties *)

Stored == MapThenSumSet(LAMBDA d : byIp[d], Days)

\* Types; queue and buffer stay within their limits.
TrafficTypeOK ==
  /\ recorded \in 0..MaxSamples
  /\ queue \in 0..Capacity /\ batch \in 0..(BatchSize - 1)
  /\ byIp \in [Days -> 0..MaxSamples] /\ byDomain \in [Days -> 0..MaxSamples]

\* Each session that has ended is in exactly one place: waiting in memory, in the tables,
\* dropped or lost; none is counted twice, and none is lost as long as no transaction
\* fails and the process is not killed.  The totals per client and per client and domain
\* agree, day by day, whatever fails.
SamplesAccounted ==
  /\ recorded = queue + batch + Stored + dropped + lost
  /\ ~broken => lost = 0
  /\ byIp = byDomain

\* What waits in memory is written soon: as long as the process lives, again and again
\* nothing waits; and if the channel is closed, the task ends with everything written.
TrafficDrains ==
  /\ []<>(queue = 0 /\ batch = 0)
  /\ ~open ~> ~running
=============================================================================

----------------------------- MODULE RelayService -----------------------------
(***************************************************************************)
(* SniProxyService::run with its listeners and sessions (src/service.rs):  *)
(* the accept loops that take a permit of the connection semaphore before  *)
(* they accept, the session task that carries the permit through           *)
(* handle_connection, the shutdown signal, and the connection metrics.     *)
(* The outcome of a check that depends on data (ACL, host name, limiter,   *)
(* hosts table, upstream) is a choice; DomainLimiter has the limiter.      *)
(***************************************************************************)
EXTENDS Integers, FiniteSets, Sequences

CONSTANTS
  Listeners,        \* cfg.listens
  Clients,          \* client connections; one may come back after it ended
  Slots,            \* permits of connection_slots
  MaxCandidates,    \* bound: upstream profiles that connect_candidates returns
  MaxAccepted,      \* bound: connections accepted in a behaviour
  MaxAcceptErrors   \* bound: failed accept() calls in a behaviour

ASSUME RelayAssumption ==
  /\ IsFiniteSet(Listeners) /\ IsFiniteSet(Clients)
  /\ Slots \in Nat
  /\ MaxCandidates \in Nat \ {0}
  /\ MaxAccepted \in Nat /\ MaxAcceptErrors \in Nat

VARIABLES
  main,       \* where run() is
  shutdown,   \* the value in the watch channel
  lpc,        \* where each listener task is
  permits,    \* free permits of connection_slots
  waiters,    \* listeners queued in acquire_owned, in order of arrival
  granted,    \* listeners whose acquire has been given a permit they have not taken
  backlog,    \* connections the kernel holds for each listener
  stage,      \* where each client's session is
  tries,      \* candidates a session has not tried yet
  faults,     \* accept() calls that have failed
  late,       \* history: connections a listener accepted after the signal
  metrics     \* accepted, rejected, errors, total, active; history: closed

semVars == <<permits, waiters, granted>>
vars == <<main, shutdown, lpc, permits, waiters, granted, backlog, stage, tries,
          faults, late, metrics>>

Stages == {"acl", "peek", "limit", "resolve", "candidates", "connect", "replay",
           "splice"}
InService == {c \in Clients : stage[c] \in Stages}
Opened == {c \in Clients : stage[c] \in {"replay", "splice"}}
Holding == granted \cup {l \in Listeners : lpc[l] = "accept"}
Up == main # "stopped"

Metrics == {"accepted", "rejected", "errors", "total", "active", "closed"}
Add(m, f, n) == [m EXCEPT ![f] = @ + n]

\* A sequence without its k-th element.
Without(s, k) == [i \in 1..(Len(s) - 1) |-> IF i < k THEN s[i] ELSE s[i + 1]]

------------------------------------------------------------------------------
(* The semaphore: a released permit goes to the listener that waits longest *)

Release ==
  \/ /\ waiters # <<>>
     /\ granted' = granted \cup {Head(waiters)}
     /\ waiters' = Tail(waiters)
     /\ UNCHANGED permits
  \/ /\ waiters = <<>>
     /\ permits' = permits + 1
     /\ UNCHANGED <<waiters, granted>>

\* Mutant: the permit of a listener that stops while it waits is not handed on.
CancelAcquireLeak(l) ==
  \/ l \in granted /\ granted' = granted \ {l} /\ UNCHANGED <<permits, waiters>>
  \/ /\ l \notin granted
     /\ \E k \in 1..Len(waiters) : /\ waiters[k] = l
                                   /\ waiters' = Without(waiters, k)
     /\ UNCHANGED <<permits, granted>>

\* Dropping an acquire_owned future leaves the queue, or hands on the permit it
\* has been given.
CancelAcquire(l) ==
  \/ /\ l \in granted
     /\ waiters # <<>>
     /\ granted' = (granted \ {l}) \cup {Head(waiters)}
     /\ waiters' = Tail(waiters)
     /\ UNCHANGED permits
  \/ /\ l \in granted
     /\ waiters = <<>>
     /\ granted' = granted \ {l}
     /\ permits' = permits + 1
     /\ UNCHANGED waiters
  \/ /\ l \notin granted
     /\ \E k \in 1..Len(waiters) : /\ waiters[k] = l
                                   /\ waiters' = Without(waiters, k)
     /\ UNCHANGED <<permits, granted>>

------------------------------------------------------------------------------
(* run_listener *)

ListenerAt(l, from, to) == Up /\ lpc[l] = from /\ lpc' = [lpc EXCEPT ![l] = to]

\* bind_listener; on failure the task logs the error and ends, the others go on.
Bind(l) ==
  /\ \E to \in {"loop", "stopped"} : ListenerAt(l, "bind", to)
  /\ UNCHANGED <<main, shutdown, semVars, backlog, stage, tries, faults, late, metrics>>

\* Mutant: the flag is not looked at before select!.
CheckShutdownSkipped(l) ==
  /\ ListenerAt(l, "loop", "select")
  /\ UNCHANGED <<main, shutdown, semVars, backlog, stage, tries, faults, late, metrics>>

\* if *shutdown_rx.borrow() { break }
CheckShutdown(l) ==
  /\ ListenerAt(l, "loop", IF shutdown THEN "stopped" ELSE "select")
  /\ UNCHANGED <<main, shutdown, semVars, backlog, stage, tries, faults, late, metrics>>

\* select!: the acquire branch is polled, and succeeds at once ...
AcquireNow(l) ==
  /\ ListenerAt(l, "select", "accept")
  /\ permits > 0
  /\ permits' = permits - 1
  /\ UNCHANGED <<main, shutdown, waiters, granted, backlog, stage, tries, faults, late,
                 metrics>>

\* ... or queues up ...
Enqueue(l) ==
  /\ ListenerAt(l, "select", "waiting")
  /\ permits = 0
  /\ waiters' = Append(waiters, l)
  /\ UNCHANGED <<main, shutdown, permits, granted, backlog, stage, tries, faults, late,
                 metrics>>

\* ... and takes the permit when it has been given one.
TakeGrant(l) ==
  /\ ListenerAt(l, "waiting", "accept")
  /\ l \in granted
  /\ granted' = granted \ {l}
  /\ UNCHANGED <<main, shutdown, permits, waiters, backlog, stage, tries, faults, late,
                 metrics>>

\* select!: shutdown_rx.changed() wins, also against a permit that is there; the
\* acquire future is dropped.
SelectShutdown(l) ==
  /\ shutdown
  /\ \/ ListenerAt(l, "select", "stopped") /\ UNCHANGED semVars
     \/ ListenerAt(l, "waiting", "stopped") /\ CancelAcquire(l)
  /\ UNCHANGED <<main, shutdown, backlog, stage, tries, faults, late, metrics>>

\* Mutant: the permit stays with the accept loop and is dropped after accept().
AcceptDropsPermit(l) ==
  LET c == Head(backlog[l])
  IN /\ ListenerAt(l, "accept", "loop")
     /\ backlog[l] # <<>>
     /\ backlog' = [backlog EXCEPT ![l] = Tail(@)]
     /\ stage' = [stage EXCEPT ![c] = "acl"]
     /\ metrics' = Add(metrics, "accepted", 1)
     /\ Release
     /\ UNCHANGED <<main, shutdown, tries, faults, late>>

\* listener.accept() returns a connection: it is counted and its session task
\* is spawned with the permit.  Nothing else wakes a listener that waits here.
Accept(l) ==
  LET c == Head(backlog[l])
  IN /\ ListenerAt(l, "accept", "loop")
     /\ backlog[l] # <<>>
     /\ backlog' = [backlog EXCEPT ![l] = Tail(@)]
     /\ stage' = [stage EXCEPT ![c] = "acl"]
     /\ late' = IF shutdown THEN [late EXCEPT ![l] = @ + 1] ELSE late
     /\ metrics' = Add(metrics, "accepted", 1)
     /\ UNCHANGED <<main, shutdown, semVars, tries, faults>>

\* accept() fails (out of descriptors, connection aborted): drop(permit).
AcceptError(l) ==
  /\ ListenerAt(l, "accept", "loop")
  /\ backlog[l] # <<>>
  /\ faults < MaxAcceptErrors
  /\ faults' = faults + 1
  /\ Release
  /\ UNCHANGED <<main, shutdown, backlog, stage, tries, late, metrics>>

ListenerStep(l) == \/ Bind(l)
                   \/ CheckShutdown(l)
                   \/ AcquireNow(l)
                   \/ Enqueue(l)
                   \/ TakeGrant(l)
                   \/ SelectShutdown(l)
                   \/ Accept(l)
                   \/ AcceptError(l)

------------------------------------------------------------------------------
(* handle_connection *)

SessionAt(c, from) == Up /\ stage[c] = from

\* The session goes on to the next stage.
Continue(c, to) ==
  /\ stage' = [stage EXCEPT ![c] = to]
  /\ UNCHANGED <<semVars, metrics>>

\* Mutant: the permit is not given back when the session ends.
FinishLeak(c, field, opened) ==
  /\ stage' = [stage EXCEPT ![c] = "away"]
  /\ metrics' = Add(Add(metrics, field, 1), "active", IF opened THEN -1 ELSE 0)
  /\ UNCHANGED semVars

\* The session task ends: `_permit` is dropped, the metric says how it ended.
Finish(c, field, opened) ==
  /\ stage' = [stage EXCEPT ![c] = "away"]
  /\ metrics' = Add(Add(metrics, field, 1), "active", IF opened THEN -1 ELSE 0)
  /\ Release

Rejected(c) == Finish(c, "rejected", FALSE)  \* connection_rejected, return Ok(())
Failed(c, opened) == Finish(c, "errors", opened)  \* connection_failed(.., opened)
Closed(c) == Finish(c, "closed", TRUE)  \* connection_closed

\* client_acl.read().is_allowed(..)
CheckAcl(c) ==
  /\ SessionAt(c, "acl")
  /\ Continue(c, "peek") \/ Rejected(c)
  /\ UNCHANGED <<main, shutdown, lpc, backlog, tries, faults, late>>

\* extract_tls_info, extract_http_info or extract_auto finds a host name, or
\* fails: time-out, end of stream, too large, no host name.
Peek(c) ==
  /\ SessionAt(c, "peek")
  /\ Continue(c, "limit") \/ Failed(c, FALSE)
  /\ UNCHANGED <<main, shutdown, lpc, backlog, tries, faults, late>>

\* Mutant: a connection over its limit is counted as rejected and as an error.
CheckLimitErr(c) ==
  /\ SessionAt(c, "limit")
  /\ \/ Continue(c, "resolve")
     \/ /\ stage' = [stage EXCEPT ![c] = "away"]
        /\ metrics' = Add(Add(metrics, "rejected", 1), "errors", 1)
        /\ Release
  /\ UNCHANGED <<main, shutdown, lpc, backlog, tries, faults, late>>

\* limiter.check_connection
CheckLimit(c) ==
  /\ SessionAt(c, "limit")
  /\ Continue(c, "resolve") \/ Rejected(c)
  /\ UNCHANGED <<main, shutdown, lpc, backlog, tries, faults, late>>

\* resolve_destination, then would_loop: "unlisted_host" or "self_loop" rejects.
Resolve(c) ==
  /\ SessionAt(c, "resolve")
  /\ Continue(c, "candidates") \/ Rejected(c)
  /\ UNCHANGED <<main, shutdown, lpc, backlog, tries, faults, late>>

\* connect_candidates: one profile, or all of them when failover is on; an error
\* when the primary profile is missing.
Candidates(c) ==
  /\ SessionAt(c, "candidates")
  /\ \/ \E n \in 1..MaxCandidates : /\ tries' = [tries EXCEPT ![c] = n]
                                    /\ Continue(c, "connect")
     \/ Failed(c, FALSE) /\ UNCHANGED tries
  /\ UNCHANGED <<main, shutdown, lpc, backlog, faults, late>>

\* One iteration of the loop over the candidates: connected, so connection_opened;
\* failed with candidates left; failed with none left.
Connect(c) ==
  /\ SessionAt(c, "connect")
  /\ \/ /\ stage' = [stage EXCEPT ![c] = "replay"]
        /\ metrics' = Add(Add(metrics, "total", 1), "active", 1)
        /\ tries' = [tries EXCEPT ![c] = 0]
        /\ UNCHANGED semVars
     \/ /\ tries[c] > 1
        /\ tries' = [tries EXCEPT ![c] = @ - 1]
        /\ UNCHANGED <<stage, metrics, semVars>>
     \/ /\ tries[c] = 1
        /\ tries' = [tries EXCEPT ![c] = 0]
        /\ Failed(c, FALSE)
  /\ UNCHANGED <<main, shutdown, lpc, backlog, faults, late>>

\* The peeked bytes and what followed them are written to the upstream.
Replay(c) ==
  /\ SessionAt(c, "replay")
  /\ Continue(c, "splice") \/ Failed(c, TRUE)
  /\ UNCHANGED <<main, shutdown, lpc, backlog, tries, faults, late>>

\* splice() returns, connection_closed.
Spliced(c) ==
  /\ SessionAt(c, "splice")
  /\ Closed(c)
  /\ UNCHANGED <<main, shutdown, lpc, backlog, tries, faults, late>>

SessionStep(c) == \/ CheckAcl(c)
                  \/ Peek(c)
                  \/ CheckLimit(c)
                  \/ Resolve(c)
                  \/ Candidates(c)
                  \/ Connect(c)
                  \/ Replay(c)
                  \/ Spliced(c)

------------------------------------------------------------------------------
(* The network and run() *)

\* A client's connection is completed by the kernel of a bound listener.
Arrive(c, l) ==
  /\ Up /\ stage[c] = "away"
  /\ lpc[l] \notin {"bind", "stopped"}
  /\ metrics.accepted + Cardinality({d \in Clients : stage[d] = "backlog"}) < MaxAccepted
  /\ stage' = [stage EXCEPT ![c] = "backlog"]
  /\ backlog' = [backlog EXCEPT ![l] = Append(@, c)]
  /\ UNCHANGED <<main, shutdown, lpc, semVars, tries, faults, late, metrics>>

\* wait_shutdown_signal returns, the signal task sends true.
Signal ==
  /\ main = "serving" /\ ~shutdown
  /\ shutdown' = TRUE
  /\ UNCHANGED <<main, lpc, semVars, backlog, stage, tries, faults, late, metrics>>

\* run() sees the value and awaits the listener handles.
StopListeners ==
  /\ main = "serving" /\ shutdown
  /\ main' = "joining"
  /\ UNCHANGED <<shutdown, lpc, semVars, backlog, stage, tries, faults, late, metrics>>

\* Every handle has ended: the final persist, then run() returns and the process
\* ends with whatever sessions are left.
Return ==
  /\ main = "joining"
  /\ \A l \in Listeners : lpc[l] = "stopped"
  /\ main' = "stopped"
  /\ UNCHANGED <<shutdown, lpc, semVars, backlog, stage, tries, faults, late, metrics>>

Init ==
  /\ main = "serving"
  /\ shutdown = FALSE
  /\ lpc = [l \in Listeners |-> "bind"]
  /\ permits = Slots
  /\ waiters = <<>>
  /\ granted = {}
  /\ backlog = [l \in Listeners |-> <<>>]
  /\ stage = [c \in Clients |-> "away"]
  /\ tries = [c \in Clients |-> 0]
  /\ faults = 0
  /\ late = [l \in Listeners |-> 0]
  /\ metrics = [f \in Metrics |-> 0]

Next == \/ \E l \in Listeners : ListenerStep(l)
        \/ \E c \in Clients : SessionStep(c)
        \/ \E c \in Clients, l \in Listeners : Arrive(c, l)
        \/ Signal
        \/ StopListeners
        \/ Return

Spec == Init /\ [][Next]_vars

\* The runtime polls every listener task that can go on, run(), and the session
\* steps that wait for nobody.  Nothing is assumed of the others: a client or an
\* upstream may be silent for ever.
Fairness == /\ \A l \in Listeners : WF_vars(ListenerStep(l))
            /\ \A c \in Clients : WF_vars(CheckAcl(c) \/ CheckLimit(c) \/ Candidates(c))
            /\ WF_vars(StopListeners)
            /\ WF_vars(Return)

FairSpec == Spec /\ Fairness

------------------------------------------------------------------------------
(* Properties *)

\* The shape of the state.
TypeOK ==
  /\ main \in {"serving", "joining", "stopped"}
  /\ shutdown \in BOOLEAN
  /\ lpc \in [Listeners -> {"bind", "loop", "select", "waiting", "accept", "stopped"}]
  /\ permits \in Nat
  /\ waiters \in Seq(Listeners)
  /\ granted \in SUBSET Listeners
  /\ backlog \in [Listeners -> Seq(Clients)]
  /\ stage \in [Clients -> {"away", "backlog"} \cup Stages]
  /\ tries \in [Clients -> Nat]
  /\ faults \in Nat
  /\ late \in [Listeners -> Nat]
  /\ metrics \in [Metrics -> Int]

\* No permit is lost and none is made up, on any path through a rejection, an
\* error, a failover, an accept that fails or an acquire that is dropped: the
\* free permits, those with listeners and those with sessions are Slots.
SlotsConserved ==
  permits + Cardinality(Holding) + Cardinality(InService) = Slots

Gate == INSTANCE SessionGate WITH inService <- InService

\* The service implements the gate that max_connections promises.
ImplementsGate == Gate!GateSpec

\* sniproxy_active_connections is the number of sessions between
\* connection_opened and their end, whichever way they end.
GaugeExact == metrics.active = Cardinality(Opened)

\* Every accepted connection is in service or was counted as exactly one of
\* rejected, error and closed.
EveryConnectionAccounted ==
  metrics.accepted = Cardinality(InService) + metrics.rejected + metrics.errors
                       + metrics.closed

\* The counters that metrics.rs exports are right at every instant, on every path through
\* handle_connection: the gauge of active connections and the outcomes.
MetricsExact == GaugeExact /\ EveryConnectionAccounted

\* After the signal a listener accepts at most one more connection.
OneLateAccept == \A l \in Listeners : late[l] <= 1

Pending(c, l) == \E i \in 1..Len(backlog[l]) : backlog[l][i] = c

\* While there is a permit for every session and every listener, no connection
\* waits in the backlog for ever, whatever the sessions and the other listeners do.
\* (Below that it may: every other listener keeps a permit while it is idle.)
ServedBelowReserve ==
  \A c \in Clients, l \in Listeners :
    []<>~( /\ Pending(c, l) /\ lpc[l] # "stopped"
           /\ Cardinality(InService) + Cardinality(Listeners) <= Slots )

\* README: "SIGINT / SIGTERM stops listeners cleanly": after the signal run()
\* returns.
ShutdownCompletes == shutdown ~> main = "stopped"
=============================================================================

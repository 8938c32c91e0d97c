--------------------------- MODULE UpstreamMonitor ---------------------------
(***************************************************************************)
(* Upstream health: the probes before the listeners start (src/main.rs,    *)
(* src/proxy_connector.rs), then the loop of src/upstream_monitor.rs that  *)
(* probes every endpoint in turn, applies thresholds and sends alerts to   *)
(* Telegram (src/telegram.rs), while endpoints come and go, also in the    *)
(* middle of a probe, and the panel replaces the registry.  Time is        *)
(* counted in rounds of the loop, at start-up in seconds.                  *)
(***************************************************************************)
EXTENDS Integers, FiniteSets, SequencesExt

CONSTANTS
  Endpoints,         \* proxy endpoints (type, host and port)
  HttpProxies,       \* those of type http, the others are socks5
  Direct,            \* the profile type without a proxy
  Registries,        \* registries: functions from profile names, as numbers in
                     \* alphabetical order, to endpoints and Direct
  StartRegistry,
  Watched,           \* upstream_monitor.profiles; {} is all
  FailThreshold, RecoverThreshold, Cooldown, NotifyRecovery,
  Wait, Interval, ProbeTimeout,  \* upstream_probe_* and connect_timeout, in seconds
  MaxChanges         \* bound: changes of endpoints and registry in a behaviour

ASSUME MonitorAssumption ==
  /\ IsFiniteSet(Endpoints)
  /\ HttpProxies \subseteq Endpoints /\ Direct \notin Endpoints
  /\ StartRegistry \in Registries /\ IsFiniteSet(DOMAIN StartRegistry)
  /\ \A reg \in Registries : \A p \in DOMAIN reg : p \in Nat /\ reg[p] \in Endpoints \cup {Direct}
  /\ {FailThreshold, RecoverThreshold, Interval} \subseteq Nat \ {0}
  /\ {Cooldown, Wait, ProbeTimeout, MaxChanges} \subseteq Nat
  /\ NotifyRecovery \in BOOLEAN

VARIABLES
  reach,       \* per endpoint: "up"; "partial": the proxy answers, not every probe target
               \* does; "silent": it accepts and never answers; or "down"
  registry,    \* the live registry
  changes,     \* changes of reach and registry so far
  pc,          \* where the process is
  elapsed,     \* seconds since start-up began, until the monitor starts
  first,       \* the default profile, as a set, until the monitor starts
  left,        \* the other profiles that are still to be probed at start-up
  states,      \* per endpoint: ProfileState
  todo,        \* the targets of this round that are left
  seen,        \* how the endpoint has been since the probe under way has its connection
  hung,        \* that probe waits in the handshake for an answer that does not come
  alert,       \* the message that is being sent: "down", "up" or "none"
  run,         \* history, per endpoint: successes in a row, or minus the failures
  lastSent,    \* history, per endpoint: the last message that arrived
  suppressed   \* history, per endpoint: the last transition was not reported

Reach == {"up", "partial", "silent", "down"}
world == <<reach, registry, changes>>
startup == <<elapsed, first, left>>
probe == <<seen, hung>>
history == <<run, lastSent, suppressed>>
vars == <<world, pc, startup, probe, states, todo, alert, history>>

\* Counters saturate here, in the code at u32::MAX: only the thresholds matter.
Cap == IF FailThreshold > RecoverThreshold THEN FailThreshold ELSE RecoverThreshold
Inc(n) == IF n < Cap THEN n + 1 ELSE n
Min2(a, b) == IF a < b THEN a ELSE b

------------------------------------------------------------------------------
(* The world *)

Change == changes < MaxChanges /\ changes' = changes + 1

\* What becomes of a connection with a handshake under way: an endpoint that is lost may
\* leave it open and unanswered, or reset it; one that comes back may go on with it, or
\* know nothing of it.  It has neither a time-out nor keepalive.
HungAfter(r) == {hung, (r \in {"silent", "down"})}

ReachChanges ==
  /\ Change
  /\ \E e \in Endpoints, r \in Reach :
       /\ reach[e] # r /\ reach' = [reach EXCEPT ![e] = r]
       /\ IF pc = "handshake" /\ e = Head(todo)
          THEN seen' = seen \cup {r} /\ hung' \in HungAfter(r)
          ELSE UNCHANGED probe
  /\ UNCHANGED <<registry, pc, startup, states, todo, alert, history>>

\* *state.upstream_registry.write() = registry, in the panel
RegistryChanges ==
  /\ Change /\ pc \notin {"startup", "others", "exited"}
  /\ \E reg \in Registries \ {registry} : registry' = reg
  /\ UNCHANGED <<reach, pc, startup, probe, states, todo, alert, history>>

------------------------------------------------------------------------------
(* Start-up *)

\* probe_upstream_inner: an HTTP proxy only has to accept.
ProbeAnswers(e) ==
  e \in {Direct} \cup {x \in Endpoints : reach[x] \in {"up", "partial"}}
               \cup {x \in HttpProxies : reach[x] = "silent"}

\* probe_upstream: at most ProbeTimeout, all of it for a proxy that accepts and is silent.
ProbeTime(e) ==
  IF e = Direct THEN {0}
  ELSE IF reach[e] = "silent" /\ ~ProbeAnswers(e) THEN {ProbeTimeout} ELSE 0..ProbeTimeout

\* Mutant: the whole interval is slept, also when less of the wait is left.
SleepInterval(remaining) == Interval

\* sleep(interval.min(remaining))
RetrySleep(remaining) == Min2(Interval, remaining)

\* Mutant: the probe is not wrapped into a timeout.
StartupProbeUnbounded ==
  /\ pc = "startup"
  /\ \E p \in first : StartRegistry[p] \notin {x \in Endpoints : reach[x] = "silent"}
  /\ pc' = "others" /\ left' = DOMAIN StartRegistry \ first
  /\ UNCHANGED <<world, elapsed, first, probe, states, todo, alert, history>>

\* One turn of the loop of ensure_upstream_ready.  A probe that fails is followed by a
\* sleep or by the end of the loop, and of the process if upstream_probe_required is set.
StartupProbe ==
  /\ pc = "startup"
  /\ \E p \in first : LET e == StartRegistry[p] IN
       \E d \in ProbeTime(e) :
         \/ /\ ProbeAnswers(e)
            /\ pc' = "others" /\ left' = DOMAIN StartRegistry \ {p}
            /\ elapsed' = elapsed + d
         \/ /\ ~ProbeAnswers(e) /\ elapsed + d < Wait
            /\ elapsed' = elapsed + d + RetrySleep(Wait - (elapsed + d))
            /\ UNCHANGED <<pc, left>>
         \/ /\ ~ProbeAnswers(e) /\ elapsed + d >= Wait
            /\ elapsed' = elapsed + d
            /\ \/ pc' = "exited" /\ UNCHANGED left
               \/ pc' = "others" /\ left' = DOMAIN StartRegistry \ {p}
  /\ UNCHANGED <<world, first, probe, states, todo, alert, history>>

\* main: "Soft-probe other named profiles (warn only)", in the order of a hash map.
SoftProbe ==
  /\ pc = "others"
  /\ \E p \in left :
       /\ left' = left \ {p}
       /\ \E d \in ProbeTime(StartRegistry[p]) : elapsed' = elapsed + d
  /\ UNCHANGED <<world, pc, first, probe, states, todo, alert, history>>

\* main goes on to upstream_monitor::start and to the listeners.
StartMonitor ==
  /\ pc = "others" /\ left = {}
  /\ pc' = "tick" /\ elapsed' = 0 /\ first' = {}
  /\ UNCHANGED <<world, left, probe, states, todo, alert, history>>

------------------------------------------------------------------------------
(* The monitor *)

\* Profiles that are to be checked.
Wanted(reg) == {p \in DOMAIN reg : Watched = {} \/ p \in Watched}

\* Mutant: direct profiles are not left out.
TargetsWithDirect(reg) == SetToSeq({reg[p] : p \in Wanted(reg)})

\* The endpoints of the wanted profiles, and the first profile of each.
Targets(reg) == {reg[p] : p \in Wanted(reg)} \ {Direct}
First(reg, e) == CHOOSE p \in Wanted(reg) :
                   reg[p] = e /\ \A q \in Wanted(reg) : reg[q] = e => p <= q

\* targets_to_check: each endpoint once, in the order of their first profiles.
TargetsToCheck(reg) ==
  LET rank(e) == Cardinality({x \in Targets(reg) : First(reg, x) < First(reg, e)})
  IN [i \in 1..Cardinality(Targets(reg)) |-> CHOOSE e \in Targets(reg) : rank(e) = i - 1]

\* A round begins.
Tick ==
  /\ pc = "tick"
  /\ todo' = TargetsToCheck(registry)
  /\ pc' = "probe"
  /\ UNCHANGED <<world, startup, probe, states, alert, history>>

\* Mutant: a success does not end a row of failures.
ApplyKeepingFails(s, ok) ==
  IF ok
  THEN [s EXCEPT !.oks = IF s.health = "down" /\ Inc(@) >= RecoverThreshold THEN 0 ELSE Inc(@),
                 !.health = IF s.health = "down" /\ Inc(s.oks) >= RecoverThreshold
                            THEN "up" ELSE @]
  ELSE [s EXCEPT !.oks = 0,
                 !.fails = IF s.health = "up" /\ Inc(@) >= FailThreshold THEN 0 ELSE Inc(@),
                 !.health = IF s.health = "up" /\ Inc(s.fails) >= FailThreshold
                            THEN "down" ELSE @]

\* apply_probe_result; the transition is the change of health.
ApplyProbeResult(s, ok) ==
  LET oks == IF ok THEN Inc(s.oks) ELSE 0
      fails == IF ok THEN 0 ELSE Inc(s.fails)
      recovered == s.health = "down" /\ oks >= RecoverThreshold
      wentDown == s.health = "up" /\ fails >= FailThreshold
  IN [s EXCEPT !.health = IF recovered THEN "up" ELSE IF wentDown THEN "down" ELSE @,
               !.oks = IF recovered THEN 0 ELSE oks,
               !.fails = IF wentDown THEN 0 ELSE fails]

\* cooldown_ok: age is the time since last_notify, Cooldown when it is longer ago
\* or there was none.
CooldownOk(s) == s.age >= Cooldown

\* Mutant: the wrong one of the two messages.
DownMessage(health) == "down"

\* down_message and up_message, by the new health.
Message(health) == health

\* check_upstream: every probe target has to answer through the tunnel.  When the endpoint
\* has changed meanwhile, some targets were probed before and some after.
CheckUpstream(s) == {ok \in BOOLEAN : IF ok THEN "up" \in s ELSE s # {"up"}}

\* Mutant: the error of a probe ends the round.
JudgeEndsRound(e, ok) ==
  LET s == ApplyProbeResult(states[e], ok)
      transition == s.health # states[e].health
  IN /\ states' = [states EXCEPT ![e] = s]
     /\ run' = [run EXCEPT ![e] = IF ok THEN (IF @ > 0 THEN Inc(@) ELSE 1)
                                  ELSE (IF @ < 0 THEN -Inc(-@) ELSE -1)]
     /\ IF transition /\ CooldownOk(s) /\ (s.health = "up" => NotifyRecovery)
        THEN alert' = Message(s.health) /\ pc' = "notify" /\ UNCHANGED todo
        ELSE /\ todo' = IF ok THEN Tail(todo) ELSE <<>>
             /\ pc' = "probe" /\ UNCHANGED alert
     /\ suppressed' = IF transition THEN [suppressed EXCEPT ![e] = TRUE] ELSE suppressed

\* What the loop does with a result.  No transition, or one that is not reported, leads
\* to the next target.
Judge(e, ok) ==
  LET s == ApplyProbeResult(states[e], ok)
      transition == s.health # states[e].health
      reports == transition /\ CooldownOk(s) /\ (s.health = "up" => NotifyRecovery)
  IN /\ states' = [states EXCEPT ![e] = s]
     /\ run' = [run EXCEPT ![e] = IF ok THEN (IF @ > 0 THEN Inc(@) ELSE 1)
                                  ELSE (IF @ < 0 THEN -Inc(-@) ELSE -1)]
     /\ IF reports
        THEN alert' = Message(s.health) /\ pc' = "notify" /\ UNCHANGED todo
        ELSE todo' = Tail(todo) /\ pc' = "probe" /\ UNCHANGED alert
     /\ suppressed' = IF transition THEN [suppressed EXCEPT ![e] = TRUE] ELSE suppressed

\* connect, up to the TCP connection, which has a time-out: it is there, and the handshake
\* begins, or the probe has failed.
Connect ==
  /\ pc = "probe" /\ todo # <<>>
  /\ LET e == Head(todo)
     IN \/ /\ reach[e] # "down"
           /\ pc' = "handshake"
           /\ seen' = {reach[e]} /\ hung' = (reach[e] = "silent")
           /\ UNCHANGED <<states, todo, alert, run, suppressed>>
        \/ /\ reach[e] = "down"
           /\ Judge(e, FALSE)
           /\ UNCHANGED probe
  /\ UNCHANGED <<world, startup, lastSent>>

\* The probe returns.  The reads of the handshake have no time-out; what follows, up to the
\* last target's answer, has.
ProbeReturns ==
  /\ pc = "handshake" /\ ~hung
  /\ \E ok \in CheckUpstream(seen) : Judge(Head(todo), ok)
  /\ seen' = {}
  /\ UNCHANGED <<world, startup, hung, lastSent>>

\* telegram::notify returns, the message sent or not (curl has its own time-out);
\* last_notify is set in both cases.
Notify ==
  /\ pc = "notify"
  /\ LET e == Head(todo)
     IN /\ \/ /\ lastSent' = [lastSent EXCEPT ![e] = alert]
              /\ suppressed' = [suppressed EXCEPT ![e] = FALSE]
           \/ UNCHANGED <<lastSent, suppressed>>
        /\ states' = [states EXCEPT ![e].age = 0]
  /\ alert' = "none"
  /\ todo' = Tail(todo)
  /\ pc' = "probe"
  /\ UNCHANGED <<world, startup, probe, run>>

\* The round is over; sleep(interval).
Sleep ==
  /\ pc = "probe" /\ todo = <<>>
  /\ pc' = "tick"
  /\ states' = [e \in Endpoints |-> [states[e] EXCEPT !.age = Min2(@ + 1, Cooldown)]]
  /\ UNCHANGED <<world, startup, probe, todo, alert, history>>

------------------------------------------------------------------------------
Init ==
  /\ reach \in [Endpoints -> Reach]
  /\ registry = StartRegistry
  /\ changes = 0
  /\ pc = "startup" /\ elapsed = 0 /\ left = {}
  /\ \E p \in DOMAIN StartRegistry : first = {p}
  /\ seen = {} /\ hung = FALSE
  /\ states = [e \in Endpoints |-> [health |-> "up", fails |-> 0, oks |-> 0, age |-> Cooldown]]
  /\ todo = <<>> /\ alert = "none"
  /\ run = [e \in Endpoints |-> 0]
  /\ lastSent = [e \in Endpoints |-> "none"]
  /\ suppressed = [e \in Endpoints |-> FALSE]

Step == \/ StartupProbe \/ SoftProbe \/ StartMonitor
        \/ Tick \/ Connect \/ ProbeReturns \/ Notify \/ Sleep

Next == Step \/ ReachChanges \/ RegistryChanges

Spec == Init /\ [][Next]_vars

\* The task goes on when what it waits for has happened; every wait but the
\* handshake of a probe has a time-out.
FairSpec == Spec /\ WF_vars(Step)

------------------------------------------------------------------------------
(* Properties *)

\* Types; only proxies are probed.
TypeOK ==
  /\ reach \in [Endpoints -> Reach]
  /\ registry \in Registries
  /\ changes \in 0..MaxChanges
  /\ pc \in {"startup", "others", "exited", "tick", "probe", "handshake", "notify"}
  /\ elapsed \in Nat /\ first \cup left \subseteq DOMAIN StartRegistry
  /\ seen \subseteq Reach /\ hung \in BOOLEAN
  /\ states \in [Endpoints -> [health : {"up", "down"}, fails : 0..Cap, oks : 0..Cap,
                               age : 0..Cooldown]]
  /\ todo \in Seq(Endpoints)
  /\ alert \in {"none", "up", "down"}
  /\ run \in [Endpoints -> -Cap..Cap]
  /\ lastSent \in [Endpoints -> {"none", "up", "down"}]
  /\ suppressed \in [Endpoints -> BOOLEAN]

\* An endpoint goes down at its FailThreshold-th failed probe in a row and not
\* before, recovers at its RecoverThreshold-th success in a row and not before:
\* the counters that apply_probe_result resets agree with the results themselves.
HealthFollowsRuns ==
  [][\A e \in Endpoints :
       states'[e].health = IF states[e].health = "up"
                           THEN IF run'[e] <= -FailThreshold THEN "down" ELSE "up"
                           ELSE IF run'[e] >= RecoverThreshold THEN "up" ELSE "down"]_vars

\* Unless its last transition fell into the cooldown, was not to be reported or was
\* lost by Telegram, the last message about an endpoint says what its health is.
AlertMatchesHealth ==
  \A e \in Endpoints :
    ~suppressed[e] => (lastSent[e] = "down") = (states[e].health = "down")

\* The listeners wait for at most Wait and one probe of each profile with a proxy, whatever
\* the proxies do: only the last probe of the default profile goes beyond Wait.
Proxied == {p \in DOMAIN StartRegistry : StartRegistry[p] # Direct}
StartupBounded == elapsed <= Wait + ProbeTimeout * Cardinality(Proxied)

\* Start-up ends, also when a proxy accepts and never answers.
StartupEnds == <>(pc \notin {"startup", "others"})

\* An endpoint that is monitored from some time on, and stays as it is, is found to
\* be up or down, partial outages included, unless a probe hangs for ever: changes of the
\* registry, what happens to other endpoints and results from before the last change do
\* not keep it from being judged.  (A probe hangs when the proxy accepts and is silent, or
\* is lost in the middle of the handshake: then nothing is monitored any more.)
HealthConverges ==
  \A e \in Endpoints, r \in Reach \ {"silent"} :
    /\ <>[](/\ pc \notin {"startup", "others", "exited"}
            /\ e \in ToSet(TargetsToCheck(registry)) /\ reach[e] = r)
    /\ []<>~hung
    => <>[](states[e].health = IF r = "up" THEN "up" ELSE "down")
=============================================================================

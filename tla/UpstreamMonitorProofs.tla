------------------------- MODULE UpstreamMonitorProofs -------------------------
(***************************************************************************)
(* Proofs about UpstreamMonitor, for every set of endpoints, every         *)
(* registry and every threshold, cooldown and time limit.                  *)
(***************************************************************************)
EXTENDS UpstreamMonitor, FiniteSetTheorems, WellFoundedInduction, TLAPS

------------------------------------------------------------------------------
(* The inductive invariant *)

\* The counter that decides on the next transition is the length of the row of results
\* the history has, and has not reached its threshold.
RunsOK ==
  \A e \in Endpoints :
    /\ states[e].health = "up" =>
         /\ states[e].fails = (IF run[e] < 0 THEN -run[e] ELSE 0)
         /\ run[e] > -FailThreshold
    /\ states[e].health = "down" =>
         /\ states[e].oks = (IF run[e] > 0 THEN run[e] ELSE 0)
         /\ run[e] < RecoverThreshold

\* The message that is being sent is about the transition of the target at hand.
AlertOK ==
  pc = "notify" => /\ todo # <<>>
                   /\ suppressed[Head(todo)]
                   /\ alert = states[Head(todo)].health

\* A probe under way has a target.
ProbeOK == pc = "handshake" => todo # <<>>

\* While the loop of ensure_upstream_ready goes on, the wait is not over; then each of the
\* other profiles with a proxy takes one probe at most.
StartupOK == /\ pc = "startup" => elapsed <= Wait
             /\ pc = "others" => elapsed + ProbeTimeout * Cardinality(left \cap Proxied)
                                   <= Wait + ProbeTimeout * Cardinality(Proxied)
             /\ StartupBounded

Inv == TypeOK /\ RunsOK /\ AlertOK /\ ProbeOK /\ AlertMatchesHealth /\ StartupOK

------------------------------------------------------------------------------
(* The targets of a round *)

\* A set of numbers has a least one.
LEMMA LeastNumber ==
  ASSUME NEW S \in SUBSET Nat, S # {}
  PROVE  \E x \in S : \A y \in S : x <= y
  <1>1. PICK x \in S : \A y \in S : <<y, x>> \notin OpToRel(<, Nat)
    BY NatLessThanWellFounded, WFMin
  <1>2. \A y \in S : ~(y < x)
    BY <1>1 DEF OpToRel
  <1> QED BY <1>2

\* Every target has a first profile, and different targets have different ones.
LEMMA FirstProfile ==
  ASSUME NEW g \in Registries, NEW e \in Targets(g)
  PROVE  /\ e \in Endpoints
         /\ First(g, e) \in Nat /\ g[First(g, e)] = e
  <1>1. \A p \in DOMAIN g : p \in Nat /\ g[p] \in Endpoints \cup {Direct}
    BY MonitorAssumption
  <1> DEFINE P == {p \in Wanted(g) : g[p] = e}
  <1>2. P \in SUBSET Nat /\ P # {} /\ e \in Endpoints
    BY <1>1 DEF Wanted, Targets
  <1>3. PICK p \in P : \A q \in P : p <= q
    BY <1>2, LeastNumber
  <1>4. p \in Wanted(g) /\ g[p] = e /\ \A q \in Wanted(g) : g[q] = e => p <= q
    BY <1>3
  <1>5. First(g, e) \in Wanted(g) /\ g[First(g, e)] = e
    BY <1>4 DEF First
  <1> QED BY <1>1, <1>2, <1>5 DEF Wanted

\* targets_to_check returns every wanted proxy exactly once.
LEMMA TargetsSeq ==
  ASSUME NEW g \in Registries
  PROVE  /\ TargetsToCheck(g) \in Seq(Endpoints)
         /\ TargetsToCheck(g) \in Bijection(1..Cardinality(Targets(g)), Targets(g))
  <1> DEFINE T == Targets(g)
             n == Cardinality(T)
             below(e) == {x \in T : First(g, x) < First(g, e)}
             rank == [e \in T |-> Cardinality(below(e))]
  <1>1. T \subseteq Endpoints /\ IsFiniteSet(T) /\ n \in Nat
    <2>1. T \subseteq Endpoints
      BY FirstProfile
    <2>2. IsFiniteSet(T)
      BY <2>1, FS_Subset, MonitorAssumption
    <2> QED BY <2>1, <2>2, FS_CardinalityType
  <1>2. \A e \in T : First(g, e) \in Nat /\ g[First(g, e)] = e
    BY FirstProfile
  <1>3. ASSUME NEW e \in T
        PROVE  /\ IsFiniteSet(below(e)) /\ Cardinality(below(e)) \in 0..(n - 1)
    <2>1. below(e) \in SUBSET T /\ e \notin below(e)
      BY <1>2
    <2>2. below(e) \in SUBSET (T \ {e})
      BY <2>1
    <2>3. IsFiniteSet(T \ {e}) /\ Cardinality(T \ {e}) = n - 1
      BY <1>1, FS_RemoveElement
    <2>4. IsFiniteSet(below(e)) /\ Cardinality(below(e)) <= n - 1
      BY <2>2, <2>3, FS_Subset
    <2>5. Cardinality(below(e)) \in Nat
      BY <2>4, FS_CardinalityType
    <2> QED BY <1>1, <2>4, <2>5
  <1>4. ASSUME NEW d \in T, NEW e \in T, First(g, d) < First(g, e)
        PROVE  Cardinality(below(d)) # Cardinality(below(e))
    <2>1. below(d) \in SUBSET below(e) /\ d \in below(e) /\ d \notin below(d)
      BY <1>2, <1>4
    <2>2. IsFiniteSet(below(e))
      BY <1>3
    <2> QED BY <2>1, <2>2, FS_Subset
  <1>5. \A d, e \in T : d # e => Cardinality(below(d)) # Cardinality(below(e))
    <2> SUFFICES ASSUME NEW d \in T, NEW e \in T, d # e
                 PROVE  Cardinality(below(d)) # Cardinality(below(e))
      OBVIOUS
    <2>1. First(g, d) < First(g, e) \/ First(g, e) < First(g, d)
      BY <1>2
    <2> QED BY <1>4, <2>1
  <1>6. rank \in Injection(T, 0..(n - 1))
    <2> HIDE DEF below
    <2>1. rank \in [T -> 0..(n - 1)]
      BY <1>3
    <2>2. IsInjective(rank)
      BY <1>5 DEF IsInjective
    <2> QED BY <2>1, <2>2 DEF Injection
  <1>7. rank \in Surjection(T, 0..(n - 1))
    <2>1. IsFiniteSet(0..(n - 1)) /\ Cardinality(0..(n - 1)) = n
      BY <1>1, FS_Interval
    <2> HIDE DEF rank
    <2> QED BY <1>6, <2>1, FS_Injection
  <1> DEFINE s == TargetsToCheck(g)
  <1>8. s = [i \in 1..n |-> CHOOSE e \in T : Cardinality(below(e)) = i - 1]
    BY DEF TargetsToCheck
  <1> HIDE DEF s, below
  <1>9. ASSUME NEW i \in 1..n
        PROVE  s[i] \in T /\ Cardinality(below(s[i])) = i - 1
    <2>1. i - 1 \in 0..(n - 1)
      BY <1>1
    <2>2. \E e \in T : rank[e] = i - 1
      BY <1>7, <2>1 DEF Surjection
    <2>3. \E e \in T : Cardinality(below(e)) = i - 1
      BY <2>2
    <2> QED BY <1>8, <2>3
  <1>10. s \in [1..n -> T]
    BY <1>8, <1>9
  <1>11. s \in Bijection(1..n, T)
    <2>1. \A i, j \in 1..n : s[i] = s[j] => i = j
      BY <1>1, <1>9
    <2>2. \A e \in T : \E i \in 1..n : s[i] = e
      <3> SUFFICES ASSUME NEW e \in T PROVE \E i \in 1..n : s[i] = e
        OBVIOUS
      <3>1. Cardinality(below(e)) + 1 \in 1..n
            /\ Cardinality(below(e)) = (Cardinality(below(e)) + 1) - 1
        BY <1>1, <1>3
      <3>2. Cardinality(below(s[Cardinality(below(e)) + 1])) = Cardinality(below(e))
        BY <1>9, <3>1
      <3>3. s[Cardinality(below(e)) + 1] \in T
        BY <1>9, <3>1
      <3> QED BY <1>5, <3>1, <3>2, <3>3
    <2> QED BY <1>10, <2>1, <2>2 DEF Bijection, Injection, Surjection, IsInjective
  <1>12. s \in Seq(Endpoints)
    BY <1>1, <1>10
  <1> QED BY <1>11, <1>12 DEF s

------------------------------------------------------------------------------
(* The actions *)

\* The thresholds are within the range of the counters, which are numbers.
LEMMA CapFacts ==
  /\ Cap \in Nat \ {0} /\ FailThreshold <= Cap /\ RecoverThreshold <= Cap
  /\ \A n \in 0..Cap : Inc(n) \in 0..Cap /\ (n < Cap => Inc(n) = n + 1)
                       /\ Inc(n) >= n /\ (n > 0 => Inc(n) > 0)
  <1>1. FailThreshold \in Nat \ {0} /\ RecoverThreshold \in Nat \ {0}
    BY MonitorAssumption
  <1> QED BY <1>1 DEF Cap, Inc

\* The numbers of start-up.
LEMMA StartupNumbers ==
  /\ Wait \in Nat /\ ProbeTimeout \in Nat /\ Interval \in Nat
  /\ IsFiniteSet(Proxied) /\ Cardinality(Proxied) \in Nat
  /\ ProbeTimeout * Cardinality(Proxied) \in Nat
  <1>1. Wait \in Nat /\ ProbeTimeout \in Nat /\ Interval \in Nat
    BY MonitorAssumption
  <1>2. IsFiniteSet(Proxied) /\ Cardinality(Proxied) \in Nat
    <2>1. Proxied \in SUBSET DOMAIN StartRegistry
      BY DEF Proxied
    <2> QED BY <2>1, FS_Subset, FS_CardinalityType, MonitorAssumption
  <1> QED BY <1>1, <1>2

\* Start-up begins with everything up and no message sent.
LEMMA InitInv == Init => Inv
  <1> SUFFICES ASSUME Init PROVE Inv
    OBVIOUS
  <1>0. /\ FailThreshold \in Nat \ {0} /\ RecoverThreshold \in Nat \ {0}
        /\ Cooldown \in Nat /\ Wait \in Nat /\ ProbeTimeout \in Nat /\ MaxChanges \in Nat
        /\ StartRegistry \in Registries
    BY MonitorAssumption
  <1>1. TypeOK
    <2>1. 0 \in 0..Cap /\ 0 \in -Cap..Cap /\ Cooldown \in 0..Cooldown /\ 0 \in 0..MaxChanges
      BY <1>0, CapFacts
    <2>2. states \in [Endpoints -> [health : {"up", "down"}, fails : 0..Cap, oks : 0..Cap,
                                    age : 0..Cooldown]]
      BY <2>1 DEF Init
    <2>3. run \in [Endpoints -> -Cap..Cap] /\ lastSent \in [Endpoints -> {"none", "up", "down"}]
          /\ suppressed \in [Endpoints -> BOOLEAN]
      BY <2>1 DEF Init
    <2>4. elapsed \in Nat /\ changes \in 0..MaxChanges /\ seen \subseteq Reach /\ hung \in BOOLEAN
          /\ registry \in Registries /\ todo = << >> /\ pc = "startup" /\ alert = "none"
      BY <1>0, <2>1 DEF Init
    <2>5. /\ first \cup left \subseteq DOMAIN StartRegistry
          /\ reach \in [Endpoints -> Reach] /\ << >> \in Seq(Endpoints)
      BY DEF Init
    <2> QED BY <2>2, <2>3, <2>4, <2>5, Zenon DEF TypeOK
  <1>2. RunsOK /\ AlertOK /\ ProbeOK /\ AlertMatchesHealth
    BY <1>0 DEF Init, RunsOK, AlertOK, ProbeOK, AlertMatchesHealth
  <1>3. StartupOK
    <2>1. elapsed = 0 /\ pc = "startup"
      BY DEF Init
    <2>2. 0 <= Wait /\ 0 <= Wait + ProbeTimeout * Cardinality(Proxied)
      BY <1>0, StartupNumbers
    <2> QED BY <2>1, <2>2 DEF StartupOK, StartupBounded
  <1> QED BY <1>1, <1>2, <1>3 DEF Inv

\* The world outside changes nothing of the monitor's but what its connection goes through.
LEMMA WorldInv ==
  ASSUME Inv, ReachChanges \/ RegistryChanges
  PROVE  Inv'
  <1>1. UNCHANGED <<pc, startup, states, todo, alert, history>>
    BY DEF ReachChanges, RegistryChanges
  <1>2. changes' \in 0..MaxChanges
    BY MonitorAssumption DEF ReachChanges, RegistryChanges, Change, Inv, TypeOK
  <1>3. reach' \in [Endpoints -> Reach] /\ registry' \in Registries
    BY DEF ReachChanges, RegistryChanges, Inv, TypeOK
  <1>4. seen' \subseteq Reach /\ hung' \in BOOLEAN
    <2>1. CASE ReachChanges
      <3>1. PICK e \in Endpoints : \E r \in Reach :
              IF pc = "handshake" /\ e = Head(todo)
              THEN seen' = seen \cup {r} /\ hung' \in HungAfter(r) ELSE UNCHANGED probe
        BY <2>1 DEF ReachChanges
      <3>2. PICK r \in Reach :
              IF pc = "handshake" /\ e = Head(todo)
              THEN seen' = seen \cup {r} /\ hung' \in HungAfter(r) ELSE UNCHANGED probe
        BY <3>1
      <3>3. CASE pc = "handshake" /\ e = Head(todo)
        <4>1. seen' = seen \cup {r} /\ hung' \in HungAfter(r)
          BY <3>2, <3>3
        <4>2. hung' \in BOOLEAN
          <5>1. hung \in BOOLEAN
            BY DEF Inv, TypeOK
          <5>2. (r \in {"silent", "down"}) \in BOOLEAN
            OBVIOUS
          <5>3. hung' = hung \/ hung' = (r \in {"silent", "down"})
            BY <4>1, Zenon DEF HungAfter
          <5> QED BY <5>1, <5>2, <5>3, Zenon
        <4> QED BY <4>1, <4>2 DEF Inv, TypeOK
      <3>4. CASE ~(pc = "handshake" /\ e = Head(todo))
        BY <3>2, <3>4 DEF probe, Inv, TypeOK
      <3> QED BY <3>3, <3>4
    <2>2. CASE RegistryChanges
      BY <2>2 DEF RegistryChanges, probe, Inv, TypeOK
    <2> QED BY <2>1, <2>2
  <1>5. TypeOK'
    BY <1>1, <1>2, <1>3, <1>4 DEF Inv, TypeOK, startup, history
  <1> QED BY <1>1, <1>5 DEF Inv, RunsOK, AlertOK, ProbeOK, AlertMatchesHealth, StartupOK,
                           StartupBounded, Proxied, startup, history

\* A probe at start-up takes a time between zero and ProbeTimeout, none without a proxy.
LEMMA ProbeTimes ==
  ASSUME NEW e, NEW d \in ProbeTime(e)
  PROVE  d \in 0..ProbeTimeout /\ (e = Direct => d = 0)
  BY StartupNumbers DEF ProbeTime

\* A turn of the start-up loop: the sleep is cut to what is left of the wait, and only
\* the last probe can pass it.
LEMMA StartupInv ==
  ASSUME Inv, StartupProbe
  PROVE  Inv'
  <1>1. UNCHANGED <<world, first, probe, states, todo, alert, history>> /\ pc = "startup"
    BY DEF StartupProbe
  <1>2. /\ Wait \in Nat /\ ProbeTimeout \in Nat /\ Interval \in Nat
        /\ elapsed \in Nat /\ elapsed <= Wait /\ left \subseteq DOMAIN StartRegistry
    BY <1>1, StartupNumbers DEF Inv, TypeOK, StartupOK
  <1>a. PICK p \in first : \E d \in ProbeTime(StartRegistry[p]) :
          \/ /\ pc' = "others" /\ left' = DOMAIN StartRegistry \ {p}
             /\ elapsed' = elapsed + d
          \/ /\ elapsed + d < Wait
             /\ elapsed' = elapsed + d + RetrySleep(Wait - (elapsed + d))
             /\ UNCHANGED <<pc, left>>
          \/ pc' = "exited" /\ elapsed' = elapsed + d /\ UNCHANGED left
    BY DEF StartupProbe
  <1>3. PICK d \in ProbeTime(StartRegistry[p]) :
          \/ /\ pc' = "others" /\ left' = DOMAIN StartRegistry \ {p}
             /\ elapsed' = elapsed + d
          \/ /\ elapsed + d < Wait
             /\ elapsed' = elapsed + d + RetrySleep(Wait - (elapsed + d))
             /\ UNCHANGED <<pc, left>>
          \/ pc' = "exited" /\ elapsed' = elapsed + d /\ UNCHANGED left
    BY <1>a
  <1>4. d \in 0..ProbeTimeout /\ (StartRegistry[p] = Direct => d = 0) /\ p \in DOMAIN StartRegistry
    BY <1>3, ProbeTimes DEF Inv, TypeOK
  <1> DEFINE n == Cardinality(Proxied)
             Goal == /\ pc' \in {"startup", "others", "exited"} /\ elapsed' \in Nat
                     /\ left' \subseteq DOMAIN StartRegistry /\ StartupOK'
  <1>5. n \in Nat /\ IsFiniteSet(Proxied) /\ ProbeTimeout * n \in Nat
    BY StartupNumbers
  <1>6. elapsed + d <= Wait + ProbeTimeout * n
    <2>1. CASE StartRegistry[p] = Direct
      BY <1>2, <1>4, <1>5, <2>1
    <2>2. CASE StartRegistry[p] # Direct
      <3>1. n >= 1
        <4>1. p \in Proxied
          BY <1>4, <2>2 DEF Proxied
        <4>2. n # 0
          BY <1>5, <4>1, FS_EmptySet
        <4> HIDE DEF n
        <4> QED BY <1>5, <4>2
      <3> HIDE DEF n
      <3>2. ProbeTimeout <= ProbeTimeout * n
        BY <1>2, <1>5, <3>1
      <3> QED BY <1>2, <1>4, <1>5, <3>2
    <2> QED BY <2>1, <2>2
  <1>7. Goal
    <2>1. CASE pc' = "others" /\ left' = DOMAIN StartRegistry \ {p} /\ elapsed' = elapsed + d
      <3> DEFINE m == Cardinality(left' \cap Proxied)
      <3>1. elapsed' + ProbeTimeout * m <= Wait + ProbeTimeout * n
        <4>1. CASE StartRegistry[p] = Direct
          <5>1. left' \cap Proxied = Proxied
            BY <2>1, <4>1 DEF Proxied
          <5>2. elapsed' <= Wait /\ elapsed' \in Nat
            BY <1>2, <1>4, <2>1, <4>1
          <5>3. m = n
            BY <5>1
          <5> HIDE DEF m, n
          <5>4. ProbeTimeout * m = ProbeTimeout * n
            BY <5>3
          <5> QED BY <1>2, <1>5, <5>2, <5>4
        <4>2. CASE StartRegistry[p] # Direct
          <5>1. p \in Proxied /\ left' \cap Proxied = Proxied \ {p}
            BY <1>4, <2>1, <4>2 DEF Proxied
          <5>2. m = n - 1
            BY <1>5, <5>1, FS_RemoveElement
          <5> HIDE DEF m, n
          <5>3. ProbeTimeout * m = ProbeTimeout * n - ProbeTimeout
            BY <1>2, <1>5, <5>2
          <5> QED BY <1>2, <1>4, <1>5, <2>1, <5>3
        <4> QED BY <4>1, <4>2
      <3> QED BY <1>2, <1>4, <1>6, <2>1, <3>1 DEF StartupOK, StartupBounded, Proxied
    <2>2. CASE /\ elapsed + d < Wait
               /\ elapsed' = elapsed + d + RetrySleep(Wait - (elapsed + d))
               /\ UNCHANGED <<pc, left>>
      <3>1. elapsed' \in Nat /\ elapsed' <= Wait
        BY <1>2, <1>4, <2>2 DEF RetrySleep, Min2
      <3>2. elapsed' <= Wait + ProbeTimeout * n
        BY <1>2, <1>5, <3>1
      <3> QED BY <1>1, <1>2, <2>2, <3>1, <3>2 DEF StartupOK, StartupBounded, Proxied
    <2>3. CASE pc' = "exited" /\ elapsed' = elapsed + d /\ UNCHANGED left
      BY <1>2, <1>4, <1>6, <2>3 DEF StartupOK, StartupBounded, Proxied
    <2> QED BY <1>3, <2>1, <2>2, <2>3
  <1>8. TypeOK'
    BY <1>1, <1>7 DEF Inv, TypeOK, world, probe, history
  <1>9. RunsOK' /\ AlertMatchesHealth'
    BY <1>1 DEF Inv, RunsOK, AlertMatchesHealth, history
  <1> QED BY <1>7, <1>8, <1>9 DEF Inv, AlertOK, ProbeOK

\* A probe of another profile at start-up takes what the bound has kept for it.
LEMMA SoftProbeInv ==
  ASSUME Inv, SoftProbe
  PROVE  Inv'
  <1>1. UNCHANGED <<world, pc, first, probe, states, todo, alert, history>> /\ pc = "others"
    BY DEF SoftProbe
  <1>a. PICK p \in left : /\ left' = left \ {p}
                          /\ \E d \in ProbeTime(StartRegistry[p]) : elapsed' = elapsed + d
    BY DEF SoftProbe
  <1>2. PICK d \in ProbeTime(StartRegistry[p]) : left' = left \ {p} /\ elapsed' = elapsed + d
    BY <1>a
  <1> DEFINE n == Cardinality(Proxied)
             m == Cardinality(left \cap Proxied)
             k == Cardinality(left' \cap Proxied)
  <1>3. /\ Wait \in Nat /\ ProbeTimeout \in Nat /\ n \in Nat /\ ProbeTimeout * n \in Nat
        /\ IsFiniteSet(Proxied) /\ left \subseteq DOMAIN StartRegistry
        /\ elapsed \in Nat /\ elapsed + ProbeTimeout * m <= Wait + ProbeTimeout * n
    BY <1>1, StartupNumbers DEF Inv, TypeOK, StartupOK
  <1>4. d \in 0..ProbeTimeout /\ (StartRegistry[p] = Direct => d = 0)
    BY <1>2, ProbeTimes
  <1>5. IsFiniteSet(left \cap Proxied) /\ m \in Nat /\ IsFiniteSet(left' \cap Proxied) /\ k \in Nat
    BY <1>3, FS_Subset, FS_CardinalityType
  <1>6. elapsed' + ProbeTimeout * k <= Wait + ProbeTimeout * n
    <2>1. CASE StartRegistry[p] = Direct
      <3>1. left' \cap Proxied = left \cap Proxied
        BY <1>2, <2>1 DEF Proxied
      <3>2. k = m
        BY <3>1
      <3> HIDE DEF k, m, n
      <3> QED BY <1>2, <1>3, <1>4, <2>1, <3>2
    <2>2. CASE StartRegistry[p] # Direct
      <3>1. p \in left \cap Proxied /\ left' \cap Proxied = (left \cap Proxied) \ {p}
        BY <1>2, <1>3, <2>2 DEF Proxied
      <3>2. k = m - 1
        BY <1>5, <3>1, FS_RemoveElement
      <3> HIDE DEF k, m, n
      <3>3. ProbeTimeout * k = ProbeTimeout * m - ProbeTimeout
        BY <1>3, <1>5, <3>2
      <3>4. ProbeTimeout * m \in Nat
        BY <1>3, <1>5
      <3> QED BY <1>2, <1>3, <1>4, <3>3, <3>4
    <2> QED BY <2>1, <2>2
  <1>7. elapsed' \in Nat /\ elapsed' <= Wait + ProbeTimeout * n
    <2> HIDE DEF k, n
    <2>1. ProbeTimeout * k \in Nat
      BY <1>3, <1>5
    <2> QED BY <1>2, <1>3, <1>4, <1>6, <2>1
  <1>8. StartupOK'
    BY <1>1, <1>6, <1>7 DEF StartupOK, StartupBounded, Proxied
  <1>9. TypeOK'
    BY <1>1, <1>2, <1>3, <1>7 DEF Inv, TypeOK, world, probe, history
  <1> QED BY <1>1, <1>8, <1>9 DEF Inv, RunsOK, AlertOK, ProbeOK, AlertMatchesHealth, history

\* The monitor starts.
LEMMA StartMonitorInv ==
  ASSUME Inv, StartMonitor
  PROVE  Inv'
  <1>1. /\ UNCHANGED <<world, left, probe, states, todo, alert, history>>
        /\ pc' = "tick" /\ elapsed' = 0 /\ first' = {}
    BY DEF StartMonitor
  <1>2. TypeOK'
    BY <1>1 DEF Inv, TypeOK, world, probe, history
  <1>3. 0 <= Wait + ProbeTimeout * Cardinality(Proxied)
    BY StartupNumbers
  <1>4. StartupOK'
    BY <1>1, <1>3 DEF StartupOK, StartupBounded, Proxied
  <1> QED BY <1>1, <1>2, <1>4 DEF Inv, RunsOK, AlertOK, ProbeOK, AlertMatchesHealth, history

\* A round begins with the targets of the registry of that moment.
LEMMA TickInv ==
  ASSUME Inv, Tick
  PROVE  Inv'
  <1>1. /\ UNCHANGED <<world, startup, probe, states, alert, history>>
        /\ pc' = "probe" /\ todo' = TargetsToCheck(registry)
    BY DEF Tick
  <1>2. todo' \in Seq(Endpoints)
    BY <1>1, TargetsSeq DEF Inv, TypeOK
  <1>3. TypeOK'
    BY <1>1, <1>2 DEF Inv, TypeOK, world, startup, probe, history
  <1> QED BY <1>1, <1>3 DEF Inv, RunsOK, AlertOK, ProbeOK, AlertMatchesHealth,
                           StartupOK, StartupBounded, Proxied, startup, history

\* Ages advance when a round is over.
LEMMA SleepInv ==
  ASSUME Inv, Sleep
  PROVE  Inv'
  <1>1. /\ UNCHANGED <<world, startup, probe, todo, alert, history>> /\ pc' = "tick"
        /\ states' = [e \in Endpoints |-> [states[e] EXCEPT !.age = Min2(@ + 1, Cooldown)]]
    BY DEF Sleep
  <1>2. ASSUME NEW e \in Endpoints
        PROVE  /\ states'[e] \in [health : {"up", "down"}, fails : 0..Cap, oks : 0..Cap,
                                  age : 0..Cooldown]
               /\ states'[e].health = states[e].health /\ states'[e].fails = states[e].fails
               /\ states'[e].oks = states[e].oks
    <2>1. Cooldown \in Nat /\ states[e] \in [health : {"up", "down"}, fails : 0..Cap,
                                             oks : 0..Cap, age : 0..Cooldown]
      BY MonitorAssumption DEF Inv, TypeOK
    <2>2. Min2(states[e].age + 1, Cooldown) \in 0..Cooldown
      BY <2>1 DEF Min2
    <2>3. states'[e] = [states[e] EXCEPT !.age = Min2(states[e].age + 1, Cooldown)]
      BY <1>1
    <2> QED BY <2>1, <2>2, <2>3
  <1>3. TypeOK'
    <2>1. states' \in [Endpoints -> [health : {"up", "down"}, fails : 0..Cap, oks : 0..Cap,
                                     age : 0..Cooldown]]
      BY <1>1, <1>2
    <2> QED BY <1>1, <2>1 DEF Inv, TypeOK, world, startup, probe, history
  <1> QED BY <1>1, <1>2, <1>3 DEF Inv, RunsOK, AlertOK, ProbeOK, AlertMatchesHealth,
                           StartupOK, StartupBounded, Proxied, startup, history

\* What a probe result does to the state of an endpoint whose counters agree with its
\* row of results: they go on to agree, and the health changes at the thresholds only.
LEMMA ProbeResult ==
  ASSUME NEW h \in {"up", "down"}, NEW f \in 0..Cap, NEW o \in 0..Cap, NEW a \in 0..Cooldown,
         NEW r \in -Cap..Cap, NEW ok \in BOOLEAN,
         h = "up" => f = (IF r < 0 THEN -r ELSE 0) /\ r > -FailThreshold,
         h = "down" => o = (IF r > 0 THEN r ELSE 0) /\ r < RecoverThreshold
  PROVE  LET s == ApplyProbeResult([health |-> h, fails |-> f, oks |-> o, age |-> a], ok)
             q == IF ok THEN (IF r > 0 THEN Inc(r) ELSE 1)
                  ELSE (IF r < 0 THEN -Inc(-r) ELSE -1)
         IN /\ s \in [health : {"up", "down"}, fails : 0..Cap, oks : 0..Cap, age : 0..Cooldown]
            /\ q \in -Cap..Cap
            /\ s.health = IF h = "up" THEN IF q <= -FailThreshold THEN "down" ELSE "up"
                          ELSE IF q >= RecoverThreshold THEN "up" ELSE "down"
            /\ s.health = "up" => s.fails = (IF q < 0 THEN -q ELSE 0) /\ q > -FailThreshold
            /\ s.health = "down" => s.oks = (IF q > 0 THEN q ELSE 0) /\ q < RecoverThreshold
  <1>0. FailThreshold \in Nat \ {0} /\ RecoverThreshold \in Nat \ {0}
    BY MonitorAssumption
  <1> DEFINE t == [health |-> h, fails |-> f, oks |-> o, age |-> a]
             s == ApplyProbeResult(t, ok)
             q == IF ok THEN (IF r > 0 THEN Inc(r) ELSE 1)
                  ELSE (IF r < 0 THEN -Inc(-r) ELSE -1)
             x == IF ok THEN Inc(o) ELSE 0
             y == IF ok THEN 0 ELSE Inc(f)
             recovered == h = "down" /\ x >= RecoverThreshold
             wentDown == h = "up" /\ y >= FailThreshold
             h1 == IF recovered THEN "up" ELSE IF wentDown THEN "down" ELSE h
             f1 == IF wentDown THEN 0 ELSE y
             o1 == IF recovered THEN 0 ELSE x
  <1>1. s = [health |-> h1, fails |-> f1, oks |-> o1, age |-> a]
    <2>1. s = [t EXCEPT !.health = h1, !.oks = o1, !.fails = f1]
      BY DEF ApplyProbeResult
    <2> HIDE DEF h1, f1, o1, s
    <2> QED BY <2>1
  <1>2. x \in 0..Cap /\ y \in 0..Cap /\ q \in -Cap..Cap
    <2>1. x \in 0..Cap /\ y \in 0..Cap
      BY CapFacts
    <2>2. r > 0 => Inc(r) \in 0..Cap
      BY CapFacts
    <2>3. r < 0 => -r \in 0..Cap
      BY CapFacts
    <2>4. r < 0 => Inc(-r) \in 0..Cap
      BY <2>3, CapFacts
    <2>5. Cap \in Nat \ {0}
      BY CapFacts
    <2>6. q \in -Cap..Cap
      <3>1. CASE ok
        BY <2>2, <2>5, <3>1
      <3>2. CASE ~ok
        BY <2>4, <2>5, <3>2
      <3> QED BY <3>1, <3>2
    <2> QED BY <2>1, <2>6
  <1>3. s \in [health : {"up", "down"}, fails : 0..Cap, oks : 0..Cap, age : 0..Cooldown]
    <2> HIDE DEF x, y, recovered, wentDown, s
    <2>1. 0 \in 0..Cap
      BY CapFacts
    <2> QED BY <1>1, <1>2, <2>1
  <1>4. CASE h = "up"
    <2>1. f \in Nat /\ f < FailThreshold /\ f = (IF r < 0 THEN -r ELSE 0)
      BY <1>0, <1>4
    <2>2. CASE ok
      <3>1. q > 0 /\ y = 0
        BY <2>2, CapFacts
      <3>2. ~recovered /\ ~wentDown
        BY <1>0, <1>4, <3>1
      <3> HIDE DEF q, x, y, recovered, wentDown, s
      <3>3. s.health = "up" /\ s.fails = 0
        BY <1>1, <1>4, <3>1, <3>2
      <3>4. q \in Int /\ ~(q <= -FailThreshold) /\ q > -FailThreshold /\ ~(q < 0)
        BY <1>0, <1>2, <3>1, CapFacts
      <3> QED BY <1>2, <1>3, <1>4, <3>3, <3>4 DEF s, q, t
    <2>3. CASE ~ok
      <3>1. y = f + 1 /\ q = -(f + 1)
        <4>1. f < Cap /\ Inc(f) = f + 1
          BY <1>0, <2>1, CapFacts
        <4>2. CASE r < 0
          <5>1. -r = f
            BY <2>1, <4>2
          <5>2. q = -Inc(f)
            BY <2>3, <4>2, <5>1
          <5> QED BY <2>3, <4>1, <5>2
        <4>3. CASE ~(r < 0)
          BY <2>1, <2>3, <4>1, <4>3
        <4> QED BY <4>2, <4>3
      <3>2. ~recovered /\ x = 0
        BY <1>4, <2>3
      <3> HIDE DEF q, x, y, recovered, s
      <3>3. CASE f + 1 >= FailThreshold
        <4>1. wentDown
          BY <1>4, <3>1, <3>3
        <4> HIDE DEF wentDown
        <4>2. s.health = "down" /\ s.oks = 0
          BY <1>1, <3>2, <4>1
        <4>3. q <= -FailThreshold /\ ~(q > 0) /\ q < RecoverThreshold
          BY <1>0, <2>1, <3>1, <3>3
        <4> QED BY <1>2, <1>3, <1>4, <4>2, <4>3 DEF s, q, t
      <3>4. CASE ~(f + 1 >= FailThreshold)
        <4>1. ~wentDown
          BY <3>1, <3>4
        <4> HIDE DEF wentDown
        <4>2. s.health = "up" /\ s.fails = f + 1
          BY <1>1, <1>4, <3>1, <3>2, <4>1
        <4>3. ~(q <= -FailThreshold) /\ q > -FailThreshold /\ q < 0 /\ -q = f + 1
          BY <1>0, <2>1, <3>1, <3>4
        <4> QED BY <1>2, <1>3, <1>4, <4>2, <4>3 DEF s, q, t
      <3> QED BY <3>3, <3>4
    <2> QED BY <2>2, <2>3
  <1>5. CASE h = "down"
    <2>1. o \in Nat /\ o < RecoverThreshold /\ o = (IF r > 0 THEN r ELSE 0)
      BY <1>0, <1>5
    <2>2. CASE ~ok
      <3>1. q < 0 /\ x = 0
        <4>1. CASE r < 0
          <5>1. -r \in 0..Cap /\ -r > 0
            BY <4>1, CapFacts
          <5>2. Inc(-r) \in Nat /\ Inc(-r) > 0
            BY <5>1, CapFacts
          <5> QED BY <2>2, <4>1, <5>2
        <4>2. CASE ~(r < 0)
          BY <2>2, <4>2
        <4> QED BY <4>1, <4>2
      <3>2. ~recovered /\ ~wentDown
        BY <1>0, <1>5, <3>1
      <3> HIDE DEF q, x, y, recovered, wentDown, s
      <3>3. s.health = "down" /\ s.oks = 0
        BY <1>1, <1>5, <3>1, <3>2
      <3>4. q \in Int /\ ~(q >= RecoverThreshold) /\ q < RecoverThreshold /\ ~(q > 0)
        BY <1>0, <1>2, <3>1, CapFacts
      <3> QED BY <1>2, <1>3, <1>5, <3>3, <3>4 DEF s, q, t
    <2>3. CASE ok
      <3>1. x = o + 1 /\ q = o + 1
        <4>1. o < Cap /\ Inc(o) = o + 1
          BY <1>0, <2>1, CapFacts
        <4>2. CASE r > 0
          <5>1. r = o
            BY <2>1, <4>2
          <5> QED BY <2>3, <4>1, <4>2, <5>1
        <4>3. CASE ~(r > 0)
          BY <2>1, <2>3, <4>1, <4>3
        <4> QED BY <4>2, <4>3
      <3>2. ~wentDown /\ y = 0
        BY <1>5, <2>3
      <3> HIDE DEF q, x, y, wentDown, s
      <3>3. CASE o + 1 >= RecoverThreshold
        <4>1. recovered
          BY <1>5, <3>1, <3>3
        <4> HIDE DEF recovered
        <4>2. s.health = "up" /\ s.fails = 0
          BY <1>1, <3>2, <4>1
        <4>3. q >= RecoverThreshold /\ ~(q < 0) /\ q > -FailThreshold
          BY <1>0, <2>1, <3>1, <3>3
        <4> QED BY <1>2, <1>3, <1>5, <4>2, <4>3 DEF s, q, t
      <3>4. CASE ~(o + 1 >= RecoverThreshold)
        <4>1. ~recovered
          BY <3>1, <3>4
        <4> HIDE DEF recovered
        <4>2. s.health = "down" /\ s.oks = o + 1
          BY <1>1, <1>5, <3>1, <3>2, <4>1
        <4>3. ~(q >= RecoverThreshold) /\ q < RecoverThreshold /\ q > 0 /\ q = o + 1
          BY <1>0, <2>1, <3>1, <3>4
        <4> QED BY <1>2, <1>3, <1>5, <4>2, <4>3 DEF s, q, t
      <3> QED BY <3>3, <3>4
    <2> QED BY <2>2, <2>3
  <1> QED BY <1>4, <1>5

\* A result: the counters follow the row of results, and a transition is either
\* about to be reported or left unreported.
LEMMA JudgeInv ==
  ASSUME Inv, todo # <<>>, NEW ok \in BOOLEAN, Judge(Head(todo), ok),
         UNCHANGED <<world, startup, lastSent>>, seen' \subseteq Reach, hung' \in BOOLEAN,
         pc \in {"probe", "handshake"}
  PROVE  /\ Inv'
         /\ \A e \in Endpoints :
              states'[e].health = IF states[e].health = "up"
                                  THEN IF run'[e] <= -FailThreshold THEN "down" ELSE "up"
                                  ELSE IF run'[e] >= RecoverThreshold THEN "up" ELSE "down"
  <1> DEFINE e == Head(todo)
             s == ApplyProbeResult(states[e], ok)
             q == IF ok THEN (IF run[e] > 0 THEN Inc(run[e]) ELSE 1)
                  ELSE (IF run[e] < 0 THEN -Inc(-run[e]) ELSE -1)
             Rec == [health : {"up", "down"}, fails : 0..Cap, oks : 0..Cap, age : 0..Cooldown]
  <1>1. /\ UNCHANGED <<world, startup, lastSent>> /\ todo # << >>
        /\ states' = [states EXCEPT ![e] = s] /\ run' = [run EXCEPT ![e] = q]
        /\ \/ alert' = s.health /\ pc' = "notify" /\ todo' = todo /\ s.health # states[e].health
           \/ todo' = Tail(todo) /\ alert' = alert /\ pc' = "probe"
        /\ suppressed' = IF s.health # states[e].health
                         THEN [suppressed EXCEPT ![e] = TRUE] ELSE suppressed
    BY DEF Judge, Message
  <1>2. TypeOK /\ RunsOK /\ AlertMatchesHealth /\ StartupOK
    BY DEF Inv
  <1>3. e \in Endpoints /\ Tail(todo) \in Seq(Endpoints) /\ todo \in Seq(Endpoints)
    BY <1>1, <1>2 DEF TypeOK
  <1>4. states[e] \in Rec /\ run[e] \in -Cap..Cap
    BY <1>2, <1>3 DEF TypeOK
  <1>5. /\ states[e].health = "up" =>
             states[e].fails = (IF run[e] < 0 THEN -run[e] ELSE 0) /\ run[e] > -FailThreshold
        /\ states[e].health = "down" =>
             states[e].oks = (IF run[e] > 0 THEN run[e] ELSE 0) /\ run[e] < RecoverThreshold
    BY <1>2, <1>3 DEF RunsOK
  <1>6. /\ s \in Rec /\ q \in -Cap..Cap
        /\ s.health = IF states[e].health = "up" THEN IF q <= -FailThreshold THEN "down" ELSE "up"
                      ELSE IF q >= RecoverThreshold THEN "up" ELSE "down"
        /\ s.health = "up" => s.fails = (IF q < 0 THEN -q ELSE 0) /\ q > -FailThreshold
        /\ s.health = "down" => s.oks = (IF q > 0 THEN q ELSE 0) /\ q < RecoverThreshold
    <2> DEFINE h == states[e].health
               f == states[e].fails
               o == states[e].oks
               a == states[e].age
    <2>1. states[e] = [health |-> h, fails |-> f, oks |-> o, age |-> a]
          /\ h \in {"up", "down"} /\ f \in 0..Cap /\ o \in 0..Cap /\ a \in 0..Cooldown
      BY <1>4
    <2>2. ok \in BOOLEAN
      OBVIOUS
    <2> HIDE DEF e, h, f, o, a
    <2>3. s = ApplyProbeResult([health |-> h, fails |-> f, oks |-> o, age |-> a], ok)
      BY <2>1
    <2>4. /\ h = "up" => f = (IF run[e] < 0 THEN -run[e] ELSE 0) /\ run[e] > -FailThreshold
          /\ h = "down" => o = (IF run[e] > 0 THEN run[e] ELSE 0) /\ run[e] < RecoverThreshold
      BY <1>5 DEF h, f, o
    <2> DEFINE r == run[e]
               Result(t, p) ==
                 /\ t \in Rec /\ p \in -Cap..Cap
                 /\ t.health = IF h = "up" THEN IF p <= -FailThreshold THEN "down" ELSE "up"
                               ELSE IF p >= RecoverThreshold THEN "up" ELSE "down"
                 /\ t.health = "up" => t.fails = (IF p < 0 THEN -p ELSE 0) /\ p > -FailThreshold
                 /\ t.health = "down" => t.oks = (IF p > 0 THEN p ELSE 0) /\ p < RecoverThreshold
    <2>5. /\ r \in -Cap..Cap
          /\ h = "up" => f = (IF r < 0 THEN -r ELSE 0) /\ r > -FailThreshold
          /\ h = "down" => o = (IF r > 0 THEN r ELSE 0) /\ r < RecoverThreshold
      BY <1>4, <2>4
    <2> HIDE DEF r
    <2>6. Result(ApplyProbeResult([health |-> h, fails |-> f, oks |-> o, age |-> a], ok),
                 IF ok THEN (IF r > 0 THEN Inc(r) ELSE 1) ELSE (IF r < 0 THEN -Inc(-r) ELSE -1))
      BY <2>1, <2>2, <2>5, ProbeResult
    <2>7. Result(s, q)
      <3> HIDE DEF Result, s
      <3> QED BY <2>3, <2>6 DEF r
    <2> QED BY <2>7 DEF h
  <1> HIDE DEF e, s, q
  <1>7. /\ states'[e] = s /\ run'[e] = q
        /\ \A x \in Endpoints : x # e => states'[x] = states[x] /\ run'[x] = run[x]
    BY <1>1, <1>2, <1>3 DEF TypeOK
  <1>8. TypeOK'
    <2>1. states' \in [Endpoints -> Rec] /\ run' \in [Endpoints -> -Cap..Cap]
      BY <1>1, <1>2, <1>3, <1>6 DEF TypeOK
    <2>2. suppressed' \in [Endpoints -> BOOLEAN] /\ lastSent' \in [Endpoints -> {"none", "up", "down"}]
      BY <1>1, <1>2, <1>3 DEF TypeOK
    <2>3. s.health \in {"up", "down"}
      BY <1>6
    <2>4. pc' \in {"probe", "notify"} /\ alert' \in {"none", "up", "down"} /\ todo' \in Seq(Endpoints)
      BY <1>1, <1>2, <1>3, <2>3 DEF TypeOK
    <2>5. /\ first' \cup left' \subseteq DOMAIN StartRegistry
          /\ reach' \in [Endpoints -> Reach] /\ registry' \in Registries
          /\ changes' \in 0..MaxChanges /\ elapsed' \in Nat
      BY <1>1, <1>2 DEF TypeOK, world, startup
    <2> QED BY <2>1, <2>2, <2>4, <2>5 DEF TypeOK
  <1>9. RunsOK'
    <2> SUFFICES ASSUME NEW x \in Endpoints
                 PROVE  /\ states'[x].health = "up" =>
                             /\ states'[x].fails = (IF run'[x] < 0 THEN -run'[x] ELSE 0)
                             /\ run'[x] > -FailThreshold
                        /\ states'[x].health = "down" =>
                             /\ states'[x].oks = (IF run'[x] > 0 THEN run'[x] ELSE 0)
                             /\ run'[x] < RecoverThreshold
      BY DEF RunsOK
    <2>1. CASE x = e
      BY <1>6, <1>7, <2>1
    <2>2. CASE x # e
      BY <1>2, <1>7, <2>2 DEF RunsOK
    <2> QED BY <2>1, <2>2
  <1>10. AlertMatchesHealth'
    <2> SUFFICES ASSUME NEW x \in Endpoints, ~suppressed'[x]
                 PROVE  (lastSent'[x] = "down") = (states'[x].health = "down")
      BY DEF AlertMatchesHealth
    <2>1. ~suppressed[x] /\ states'[x].health = states[x].health
      <3>1. CASE x = e
        BY <1>1, <1>2, <1>7, <3>1 DEF TypeOK
      <3>2. CASE x # e
        BY <1>1, <1>2, <1>7, <3>2 DEF TypeOK
      <3> QED BY <3>1, <3>2
    <2> QED BY <1>1, <1>2, <2>1 DEF AlertMatchesHealth
  <1>11. AlertOK'
    <2> SUFFICES ASSUME pc' = "notify"
                 PROVE  todo' # << >> /\ suppressed'[Head(todo')]
                        /\ alert' = states'[Head(todo')].health
      BY DEF AlertOK
    <2>1. alert' = s.health /\ todo' = todo /\ s.health # states[e].health
      BY <1>1
    <2>2. Head(todo') = e /\ suppressed'[e]
      BY <1>1, <1>2, <1>3, <2>1 DEF e, TypeOK
    <2> QED BY <1>1, <1>7, <2>1, <2>2
  <1>12. StartupOK' /\ ProbeOK'
    BY <1>1, <1>2 DEF StartupOK, StartupBounded, Proxied, ProbeOK, startup
  <1>13. ASSUME NEW x \in Endpoints
         PROVE  states'[x].health = IF states[x].health = "up"
                                    THEN IF run'[x] <= -FailThreshold THEN "down" ELSE "up"
                                    ELSE IF run'[x] >= RecoverThreshold THEN "up" ELSE "down"
    <2>1. CASE x = e
      BY <1>6, <1>7, <2>1
    <2>2. CASE x # e
      <3>1. /\ states[x].health \in {"up", "down"} /\ run[x] \in Int
            /\ FailThreshold \in Nat /\ RecoverThreshold \in Nat
        BY <1>2, CapFacts, MonitorAssumption DEF TypeOK
      <3>2. /\ states[x].health = "up" => ~(run[x] <= -FailThreshold)
            /\ states[x].health = "down" => ~(run[x] >= RecoverThreshold)
        BY <1>2, <3>1 DEF RunsOK
      <3> QED BY <1>7, <2>2, <3>1, <3>2
    <2> QED BY <2>1, <2>2
  <1> QED BY <1>8, <1>9, <1>10, <1>11, <1>12, <1>13 DEF Inv

\* A step that leaves the health and the row of results alone is one the thresholds allow.
LEMMA HealthKept ==
  ASSUME Inv, UNCHANGED run, \A e \in Endpoints : states'[e].health = states[e].health
  PROVE  \A e \in Endpoints :
           states'[e].health = IF states[e].health = "up"
                               THEN IF run'[e] <= -FailThreshold THEN "down" ELSE "up"
                               ELSE IF run'[e] >= RecoverThreshold THEN "up" ELSE "down"
  <1> TAKE x \in Endpoints
  <1>1. /\ states[x].health \in {"up", "down"} /\ run[x] \in Int
        /\ FailThreshold \in Nat /\ RecoverThreshold \in Nat
    BY CapFacts, MonitorAssumption DEF Inv, TypeOK
  <1>2. /\ states[x].health = "up" => ~(run[x] <= -FailThreshold)
        /\ states[x].health = "down" => ~(run[x] >= RecoverThreshold)
    BY <1>1 DEF Inv, RunsOK
  <1> QED BY <1>1, <1>2

\* The thresholds allow a step of a probe.
HealthStep ==
  \A e \in Endpoints :
    states'[e].health = IF states[e].health = "up"
                        THEN IF run'[e] <= -FailThreshold THEN "down" ELSE "up"
                        ELSE IF run'[e] >= RecoverThreshold THEN "up" ELSE "down"

\* The TCP connection of a probe: the handshake begins, or the probe has failed.
LEMMA ConnectInv ==
  ASSUME Inv, Connect
  PROVE  Inv' /\ HealthStep
  <1>1. UNCHANGED <<world, startup, lastSent>> /\ pc = "probe" /\ todo # <<>>
    BY DEF Connect
  <1>2. TypeOK
    BY DEF Inv
  <1>3. CASE /\ pc' = "handshake" /\ seen' = {reach[Head(todo)]}
             /\ hung' = (reach[Head(todo)] = "silent")
             /\ UNCHANGED <<states, todo, alert, run, suppressed>>
    <2>1. Head(todo) \in Endpoints
      BY <1>1, <1>2 DEF TypeOK
    <2>2. seen' \subseteq Reach /\ hung' \in BOOLEAN
      BY <1>2, <1>3, <2>1 DEF TypeOK
    <2>3. TypeOK'
      BY <1>1, <1>2, <1>3, <2>2 DEF TypeOK, world, startup
    <2>4. Inv'
      BY <1>1, <1>3, <2>3 DEF Inv, RunsOK, AlertOK, ProbeOK, AlertMatchesHealth, StartupOK,
                             StartupBounded, Proxied, startup
    <2> QED BY <1>3, <2>4, HealthKept DEF HealthStep
  <1>4. CASE Judge(Head(todo), FALSE) /\ UNCHANGED probe
    <2>1. seen' \subseteq Reach /\ hung' \in BOOLEAN
      BY <1>2, <1>4 DEF TypeOK, probe
    <2> QED BY <1>1, <1>4, <2>1, JudgeInv DEF HealthStep
  <1> QED BY <1>3, <1>4 DEF Connect

\* The probe returns.
LEMMA ReturnInv ==
  ASSUME Inv, ProbeReturns
  PROVE  Inv' /\ HealthStep
  <1>1. /\ UNCHANGED <<world, startup, lastSent>> /\ pc = "handshake"
        /\ seen' = {} /\ hung' = hung
    BY DEF ProbeReturns
  <1>2. PICK ok \in BOOLEAN : Judge(Head(todo), ok)
    BY DEF ProbeReturns, CheckUpstream
  <1>3. todo # <<>> /\ hung' \in BOOLEAN /\ seen' \subseteq Reach
    BY <1>1 DEF Inv, ProbeOK, TypeOK
  <1> QED BY <1>1, <1>2, <1>3, JudgeInv DEF HealthStep

\* telegram::notify returns: only a message that arrived counts as sent.
LEMMA NotifyInv ==
  ASSUME Inv, Notify
  PROVE  Inv'
  <1> DEFINE e == Head(todo)
             Rec == [health : {"up", "down"}, fails : 0..Cap, oks : 0..Cap, age : 0..Cooldown]
  <1>1. /\ UNCHANGED <<world, startup, probe, run>> /\ pc = "notify" /\ pc' = "probe"
        /\ alert' = "none" /\ todo' = Tail(todo)
        /\ states' = [states EXCEPT ![e].age = 0]
        /\ \/ /\ lastSent' = [lastSent EXCEPT ![e] = alert]
              /\ suppressed' = [suppressed EXCEPT ![e] = FALSE]
           \/ UNCHANGED <<lastSent, suppressed>>
    BY DEF Notify
  <1>2. TypeOK /\ RunsOK /\ AlertMatchesHealth /\ StartupOK
    BY DEF Inv
  <1>3. todo # << >> /\ suppressed[e] /\ alert = states[e].health
    BY <1>1 DEF Inv, AlertOK
  <1>4. e \in Endpoints /\ Tail(todo) \in Seq(Endpoints)
    BY <1>2, <1>3 DEF TypeOK
  <1> HIDE DEF e
  <1>5. ASSUME NEW x \in Endpoints
        PROVE  /\ states'[x] \in Rec /\ states'[x].health = states[x].health
               /\ states'[x].fails = states[x].fails /\ states'[x].oks = states[x].oks
    <2>1. states[x] \in Rec /\ 0 \in 0..Cooldown
      BY <1>2, MonitorAssumption DEF TypeOK
    <2>2. states'[x] = IF x = e THEN [states[x] EXCEPT !.age = 0] ELSE states[x]
      BY <1>1, <1>2, <1>4 DEF TypeOK
    <2> QED BY <2>1, <2>2
  <1>6. TypeOK'
    <2>1. states' \in [Endpoints -> Rec]
      BY <1>1, <1>2, <1>5 DEF TypeOK
    <2>2. suppressed' \in [Endpoints -> BOOLEAN] /\ lastSent' \in [Endpoints -> {"none", "up", "down"}]
      BY <1>1, <1>2, <1>4 DEF TypeOK
    <2> QED BY <1>1, <1>2, <1>4, <2>1, <2>2 DEF TypeOK, world, startup, probe
  <1>7. RunsOK'
    BY <1>1, <1>2, <1>5 DEF RunsOK
  <1>8. AlertMatchesHealth'
    <2> SUFFICES ASSUME NEW x \in Endpoints, ~suppressed'[x]
                 PROVE  (lastSent'[x] = "down") = (states'[x].health = "down")
      BY DEF AlertMatchesHealth
    <2>1. CASE x = e
      <3>1. lastSent'[x] = states[x].health
        BY <1>1, <1>2, <1>3, <1>4, <2>1 DEF TypeOK
      <3> QED BY <1>5, <3>1
    <2>2. CASE x # e
      <3>1. lastSent'[x] = lastSent[x] /\ suppressed'[x] = suppressed[x]
        BY <1>1, <1>2, <2>2 DEF TypeOK
      <3> QED BY <1>2, <1>5, <3>1 DEF AlertMatchesHealth
    <2> QED BY <2>1, <2>2
  <1>9. AlertOK' /\ ProbeOK' /\ StartupOK'
    BY <1>1, <1>2 DEF AlertOK, ProbeOK, StartupOK, StartupBounded, Proxied, startup
  <1> QED BY <1>6, <1>7, <1>8, <1>9 DEF Inv

\* Every step keeps the invariant.
LEMMA StepInv == Inv /\ [Next]_vars => Inv'
  <1> SUFFICES ASSUME Inv, [Next]_vars PROVE Inv'
    OBVIOUS
  <1>1. CASE UNCHANGED vars
    BY <1>1 DEF vars, world, startup, probe, history, Inv, TypeOK, RunsOK, AlertOK, ProbeOK,
                AlertMatchesHealth, StartupOK, StartupBounded, Proxied
  <1> QED BY <1>1, WorldInv, StartupInv, SoftProbeInv, StartMonitorInv, TickInv, ConnectInv,
             ReturnInv, NotifyInv, SleepInv DEF Next, Step

------------------------------------------------------------------------------
(* Theorems *)

\* The variables of the monitor keep their types; only proxies are probed.
THEOREM TypeCorrect == Spec => []TypeOK
  <1>1. Inv => TypeOK
    BY DEF Inv
  <1> QED BY <1>1, InitInv, StepInv, PTL DEF Spec

\* The listeners start within the wait and one probe per proxy, whatever the retry interval
\* and however the proxies answer.
THEOREM StartupWithinLimit == Spec => []StartupBounded
  <1>1. Inv => StartupBounded
    BY DEF Inv, StartupOK
  <1> QED BY <1>1, InitInv, StepInv, PTL DEF Spec

\* The last Telegram message about an endpoint says what its health is, unless its last
\* transition was left unreported or lost.
THEOREM AlertsCorrect == Spec => []AlertMatchesHealth
  <1>1. Inv => AlertMatchesHealth
    BY DEF Inv
  <1> QED BY <1>1, InitInv, StepInv, PTL DEF Spec

\* apply_probe_result changes the health of an endpoint exactly at its FailThreshold-th
\* failure and its RecoverThreshold-th success in a row.
THEOREM HealthCorrect == Spec => HealthFollowsRuns
  <1> DEFINE A == \A e \in Endpoints :
                    states'[e].health = IF states[e].health = "up"
                                        THEN IF run'[e] <= -FailThreshold THEN "down" ELSE "up"
                                        ELSE IF run'[e] >= RecoverThreshold THEN "up" ELSE "down"
  <1>1. Inv /\ [Next]_vars => [A]_vars
    <2> SUFFICES ASSUME Inv, Next PROVE A
      OBVIOUS
    <2>1. CASE Connect \/ ProbeReturns
      BY <2>1, ConnectInv, ReturnInv DEF HealthStep
    <2>2. CASE ReachChanges \/ RegistryChanges \/ StartupProbe \/ SoftProbe \/ StartMonitor \/ Tick
      <3>1. UNCHANGED <<states, run>>
        BY <2>2 DEF ReachChanges, RegistryChanges, StartupProbe, SoftProbe, StartMonitor, Tick,
                    history
      <3> QED BY <3>1, HealthKept
    <2>3. CASE Notify \/ Sleep
      <3>1. UNCHANGED run
        BY <2>3 DEF Notify, Sleep, history
      <3>2. ASSUME NEW x \in Endpoints PROVE states'[x].health = states[x].health
        <4>1. CASE Notify
          BY <4>1 DEF Notify, Inv, TypeOK
        <4>2. CASE Sleep
          BY <4>2 DEF Sleep, Inv, TypeOK
        <4> QED BY <2>3, <4>1, <4>2
      <3> HIDE DEF A
      <3> QED BY <3>1, <3>2, HealthKept DEF A
    <2> QED BY <2>1, <2>2, <2>3 DEF Next, Step
  <1> QED BY <1>1, InitInv, StepInv, PTL DEF Spec, HealthFollowsRuns
=============================================================================

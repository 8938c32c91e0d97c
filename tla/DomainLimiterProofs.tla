------------------------- MODULE DomainLimiterProofs -------------------------
(***************************************************************************)
(* Proofs about DomainLimiter, for every set of keys, sessions and limits. *)
(***************************************************************************)
EXTENDS DomainLimiter, FiniteSetTheorems, TLAPS

------------------------------------------------------------------------------
(* Tasks *)

\* What a task is: a session or saver together with a role, and the three kinds
\* of task are disjoint.
LEMMA TaskFacts ==
  /\ \A s \in Sessions : /\ Conn(s) \in ConnTasks
                         /\ Conn(s)[1] = s
                         /\ Copies(s) \subseteq CopyTasks
                         /\ Conn(s) \notin Copies(s)
  /\ \A t \in ConnTasks : /\ t[1] \in Sessions /\ t[2] = "conn" /\ t = Conn(t[1])
                          /\ t \notin CopyTasks /\ t \notin SaveTasks
  /\ \A t \in CopyTasks : /\ t[1] \in Sessions /\ t[2] \in Dirs
                          /\ t \in Copies(t[1])
                          /\ \A s \in Sessions : t \in Copies(s) => s = t[1]
                          /\ t \notin ConnTasks /\ t \notin SaveTasks
  /\ \A t \in SaveTasks : /\ t[1] \in Savers /\ t[2] = "save"
                          /\ t \notin ConnTasks /\ t \notin CopyTasks
  /\ \A t \in Tasks : t[1] \in Sessions \cup Savers
  <1>1. ASSUME NEW s \in Sessions
        PROVE  /\ Conn(s) \in ConnTasks
               /\ Conn(s)[1] = s
               /\ Copies(s) \subseteq CopyTasks
               /\ Conn(s) \notin Copies(s)
    BY DEF Conn, ConnTasks, Copies, CopyTasks, Dirs
  <1>2. ASSUME NEW t \in ConnTasks
        PROVE  /\ t[1] \in Sessions /\ t[2] = "conn" /\ t = Conn(t[1])
               /\ t \notin CopyTasks /\ t \notin SaveTasks
    BY DEF Conn, ConnTasks, CopyTasks, SaveTasks, Dirs
  <1>3. ASSUME NEW t \in CopyTasks
        PROVE  /\ t[1] \in Sessions /\ t[2] \in Dirs
               /\ t \in Copies(t[1])
               /\ \A s \in Sessions : t \in Copies(s) => s = t[1]
               /\ t \notin ConnTasks /\ t \notin SaveTasks
    BY DEF Copies, ConnTasks, CopyTasks, SaveTasks, Dirs
  <1>4. ASSUME NEW t \in SaveTasks
        PROVE  /\ t[1] \in Savers /\ t[2] = "save"
               /\ t \notin ConnTasks /\ t \notin CopyTasks
    BY DEF ConnTasks, CopyTasks, SaveTasks, Dirs
  <1>5. ASSUME NEW t \in Tasks PROVE t[1] \in Sessions \cup Savers
    BY <1>2, <1>3, <1>4 DEF Tasks
  <1> QED BY <1>1, <1>2, <1>3, <1>4, <1>5

------------------------------------------------------------------------------
(* Type correctness and control *)

\* A task that moves to a label its kind may be at, and is not a session that
\* leaves splice(), keeps the control invariant.
LEMMA StepControl ==
  ASSUME TypeOK, ControlOK, NEW t \in Tasks, NEW l,
         pc' = [pc EXCEPT ![t] = l], dom' = dom,
         t \in ConnTasks => pc[t] # "splice" /\ ConnAt(t, l),
         t \in CopyTasks => pc[t] # "idle" /\ CopyAt(t, l),
         t \in SaveTasks => SaveAt(t, l)
  PROVE  ControlOK' /\ pc' \in [Tasks -> Pcs]
  <1> USE TaskFacts DEF Tasks
  <1>1. \A u \in Tasks : pc'[u] = IF u = t THEN l ELSE pc[u]
    BY DEF TypeOK
  <1>2. \A u, m : /\ ConnAt(u, m)' <=> ConnAt(u, m)
                  /\ CopyAt(u, m)' <=> CopyAt(u, m)
                  /\ SaveAt(u, m)' <=> SaveAt(u, m)
    BY DEF ConnAt, CopyAt, SaveAt, Key
  <1>3. \A u \in ConnTasks : ConnAt(u, pc'[u])
    BY <1>1 DEF ControlOK
  <1>4. \A u \in CopyTasks : CopyAt(u, pc'[u])
    BY <1>1 DEF ControlOK
  <1>5. \A u \in SaveTasks : SaveAt(u, pc'[u])
    BY <1>1 DEF ControlOK
  <1>6. \A u \in CopyTasks : pc'[u] # "idle" => pc'[Conn(u[1])] = "splice"
    BY <1>1 DEF ControlOK
  <1>7. pc' \in [Tasks -> Pcs]
    BY <1>1 DEF TypeOK, ConnAt, CopyAt, SaveAt, Pcs, RefreshPcs, CheckPcs, SavePcs
  <1> QED BY <1>2, <1>3, <1>4, <1>5, <1>6, <1>7 DEF ControlOK

Inv == TypeOK /\ ControlOK

\* The conjuncts of the control invariant in the next state.
LEMMA ControlNext ==
  ASSUME \A t \in ConnTasks : ConnAt(t, pc[t])',
         \A t \in CopyTasks : /\ CopyAt(t, pc[t])'
                              /\ pc'[t] # "idle" => pc'[Conn(t[1])] = "splice",
         \A t \in SaveTasks : SaveAt(t, pc[t])'
  PROVE  ControlOK'
  BY DEF ControlOK

\* A step of refresh_if_new_day, by whatever task, keeps the invariant.
LEMMA RefreshInv ==
  ASSUME Inv, NEW t \in Tasks, Refresh(t)
  PROVE  Inv'
  <1> USE DEF Inv
  <1>0. /\ pc[t] \in RefreshPcs /\ Key(t) \in Domains
        /\ dom' = dom
        /\ t \in ConnTasks => ConnAt(t, pc[t])
        /\ t \in CopyTasks => CopyAt(t, pc[t])
        /\ t \in SaveTasks => SaveAt(t, pc[t])
    <2>1. pc[t] \in RefreshPcs /\ dom' = dom
      BY DEF Refresh, ReadClock, LoadDay, CasDay, ZeroBytes, ZeroConnections, RefreshPcs
    <2> QED BY <2>1 DEF ControlOK, ConnAt, CopyAt, SaveAt, RefreshPcs, Tasks
  <1>1. /\ t \in ConnTasks => \A l \in RefreshPcs \cup {AfterRefresh(t)} : ConnAt(t, l)
        /\ t \in CopyTasks => \A l \in RefreshPcs \cup {AfterRefresh(t)} : CopyAt(t, l)
        /\ t \in SaveTasks => \A l \in RefreshPcs \cup {AfterRefresh(t)} : SaveAt(t, l)
    <2>1. CASE t \in ConnTasks
      BY <1>0, <2>1, TaskFacts
         DEF ConnAt, AfterRefresh, RefreshPcs, CheckPcs
    <2>2. CASE t \in CopyTasks
      BY <1>0, <2>2, TaskFacts
         DEF CopyAt, AfterRefresh, RefreshPcs, Dirs
    <2>3. CASE t \in SaveTasks
      BY <1>0, <2>3, TaskFacts
         DEF SaveAt, AfterRefresh, RefreshPcs, SavePcs
    <2> QED BY <2>1, <2>2, <2>3, TaskFacts DEF Tasks
  <1>2. PICK l \in RefreshPcs \cup {AfterRefresh(t)} : pc' = [pc EXCEPT ![t] = l]
    BY DEF Refresh, ReadClock, LoadDay, CasDay, ZeroBytes, ZeroConnections,
           RefreshPcs, Goto
  <1>3. ControlOK' /\ pc' \in [Tasks -> Pcs]
    <2>1. /\ t \in ConnTasks => pc[t] # "splice" /\ ConnAt(t, l)
          /\ t \in CopyTasks => pc[t] # "idle" /\ CopyAt(t, l)
          /\ t \in SaveTasks => SaveAt(t, l)
      BY <1>0, <1>1 DEF RefreshPcs
    <2> QED BY <1>0, <1>2, <2>1, StepControl
  <1>4. /\ clock' = clock /\ dirty' = dirty /\ admitted' = admitted
        /\ day' \in [Domains -> 0..LastDay]
        /\ bytes' \in [Domains -> Nat]
        /\ connections' \in [Domains -> Nat]
        /\ today' \in [Tasks -> 0..LastDay]
        /\ reg' \in [Tasks -> Nat]
    BY <1>0, LimiterAssumption
       DEF TypeOK, Refresh, ReadClock, LoadDay, CasDay, ZeroBytes, ZeroConnections
  <1> QED BY <1>0, <1>3, <1>4 DEF TypeOK

\* The remaining steps of check_connection keep the invariant.
LEMMA CheckInv ==
  ASSUME Inv, NEW t \in ConnTasks,
         CheckBandwidth(t) \/ LoadConnections(t) \/ Increment(t) \/ MarkAdmitted(t)
  PROVE  Inv'
  <1> USE DEF Inv
  <1>0. /\ t \in Tasks /\ t \notin CopyTasks /\ t \notin SaveTasks
        /\ ConnAt(t, pc[t]) /\ pc[t] \in CheckPcs \cup {"mark"} /\ Key(t) \in Domains
        /\ dom' = dom
    BY TaskFacts DEF ControlOK, Tasks, CheckBandwidth, LoadConnections, Increment,
                     MarkAdmitted, ConnAt, CheckPcs
  <1>1. PICK l \in {"idle", "connect", "connections", "increment", "mark"} :
          pc' = [pc EXCEPT ![t] = l] /\ ConnAt(t, l)
    <2>1. CASE CheckBandwidth(t)
      BY <1>0, <2>1 DEF CheckBandwidth, Return, Goto, ConnAt, CheckPcs
    <2>2. CASE LoadConnections(t)
      BY <1>0, <2>2 DEF LoadConnections, Goto, ConnAt, CheckPcs
    <2>3. CASE Increment(t)
      <3>1. pc[t] = "increment" /\ pc = [pc EXCEPT ![t] = pc[t]]
        BY <2>3, <1>0 DEF Increment, TypeOK
      <3> QED BY <1>0, <2>3, <3>1 DEF Increment, Return, Goto, ConnAt, CheckPcs
    <2>4. CASE MarkAdmitted(t)
      BY <1>0, <2>4 DEF MarkAdmitted, Return, Goto, ConnAt, CheckPcs
    <2> QED BY <2>1, <2>2, <2>3, <2>4
  <1>2. ControlOK' /\ pc' \in [Tasks -> Pcs]
    BY <1>0, <1>1, StepControl DEF CheckPcs
  <1>3. /\ clock' = clock /\ day' = day /\ bytes' = bytes
        /\ dirty' \in BOOLEAN
        /\ connections' \in [Domains -> Nat]
        /\ today' \in [Tasks -> 0..LastDay]
        /\ reg' \in [Tasks -> Nat]
        /\ admitted' \in [Domains -> Nat]
    <2>1. CASE CheckBandwidth(t)
      BY <1>0, <2>1, LimiterAssumption DEF CheckBandwidth, Return, TypeOK
    <2>2. CASE LoadConnections(t)
      BY <1>0, <2>2, LimiterAssumption DEF LoadConnections, TypeOK
    <2>3. CASE Increment(t)
      BY <1>0, <2>3, LimiterAssumption DEF Increment, Return, TypeOK
    <2>4. CASE MarkAdmitted(t)
      BY <1>0, <2>4, LimiterAssumption DEF MarkAdmitted, Return, TypeOK
    <2> QED BY <2>1, <2>2, <2>3, <2>4
  <1> QED BY <1>0, <1>2, <1>3 DEF TypeOK

\* The steps of a copy task keep the invariant.
LEMMA CopyInv ==
  ASSUME Inv, NEW t \in CopyTasks,
         \/ \E n \in 1..MaxChunk : AddBytes(t, n)
         \/ MarkAdded(t) \/ AccountBytes(t) \/ EndOfStream(t)
  PROVE  Inv'
  <1> USE DEF Inv
  <1>0. /\ t \in Tasks /\ t \notin ConnTasks /\ t \notin SaveTasks
        /\ CopyAt(t, pc[t]) /\ pc[t] \in {"copy", "add", "mark"}
        /\ pc[t] # "copy" => Key(t) \in Domains
        /\ Key(t) \in Domains \cup {NoKey}
        /\ dom' = dom
    BY TaskFacts DEF ControlOK, Tasks, AddBytes, MarkAdded, AccountBytes,
                     EndOfStream, CopyAt, TypeOK, Key
  <1>1. PICK l \in {"copy", "today", "mark", "done"} :
          pc' = [pc EXCEPT ![t] = l] /\ CopyAt(t, l)
    BY <1>0 DEF AddBytes, MarkAdded, AccountBytes, EndOfStream, Return, Goto,
                CopyAt, RefreshPcs
  <1>2. ControlOK' /\ pc' \in [Tasks -> Pcs]
    BY <1>0, <1>1, StepControl
  <1>3. /\ clock' = clock /\ day' = day /\ connections' = connections
        /\ admitted' = admitted /\ dirty' \in BOOLEAN
        /\ bytes' \in [Domains -> Nat]
        /\ today' \in [Tasks -> 0..LastDay]
        /\ reg' \in [Tasks -> Nat]
    <2>1. CASE \E n \in 1..MaxChunk : AddBytes(t, n)
      BY <1>0, <2>1, LimiterAssumption DEF AddBytes, TypeOK
    <2>2. CASE MarkAdded(t)
      BY <1>0, <2>2, LimiterAssumption DEF MarkAdded, Return, TypeOK
    <2>3. CASE AccountBytes(t) \/ EndOfStream(t)
      BY <2>3 DEF AccountBytes, EndOfStream, TypeOK
    <2> QED BY <2>1, <2>2, <2>3
  <1> QED BY <1>0, <1>2, <1>3 DEF TypeOK

\* Starting, abandoning, splicing and joining a session keep the invariant.
LEMMA SessionInv ==
  ASSUME Inv, NEW s \in Sessions,
         \/ \E d \in Domains \cup {NoKey} : CheckConnection(s, d)
         \/ Abandon(s) \/ Splice(s) \/ Join(s)
  PROVE  Inv'
  <1> USE TaskFacts DEF Inv
  <1>0. Conn(s) \in Tasks /\ Conn(s) \in ConnTasks /\ Conn(s) \notin SaveTasks
        /\ Conn(s) \notin CopyTasks
    BY DEF Tasks
  <1>1. CASE \E d \in Domains \cup {NoKey} : CheckConnection(s, d)
    <2>1. PICK d \in Domains \cup {NoKey} : CheckConnection(s, d)
      BY <1>1
    <2>2. PICK l \in {"connect", "today"} :
            /\ pc' = [pc EXCEPT ![Conn(s)] = l]
            /\ l = "today" => d \in Domains
      BY <2>1 DEF CheckConnection, Goto
    <2>3. dom' = [dom EXCEPT ![s] = d] /\ dom' \in [Sessions \cup Savers -> Domains \cup {NoKey}]
      BY <2>1 DEF CheckConnection, TypeOK
    <2>4. \A u \in Tasks : pc'[u] = IF u = Conn(s) THEN l ELSE pc[u]
      BY <2>2, <1>0 DEF TypeOK
    <2>5. \A u \in Tasks : u[1] # s => dom'[u[1]] = dom[u[1]]
      BY <2>3 DEF TypeOK
    <2>6. \A u \in CopyTasks : u[1] = s => pc[u] = "idle"
      BY <2>1 DEF CheckConnection, ControlOK
    <2>7. \A u \in ConnTasks : ConnAt(u, pc[u])'
      <3> SUFFICES ASSUME NEW u \in ConnTasks PROVE ConnAt(u, pc[u])'
        OBVIOUS
      <3>1. CASE u = Conn(s)
        BY <2>2, <2>3, <2>4, <3>1, <1>0 DEF ConnAt, Key, RefreshPcs, CheckPcs, TypeOK
      <3>2. CASE u # Conn(s)
        BY <2>4, <2>5, <3>2 DEF ConnAt, Key, ControlOK, Tasks
      <3> QED BY <3>1, <3>2
    <2>8. \A u \in CopyTasks : /\ CopyAt(u, pc[u])'
                               /\ pc'[u] # "idle" => pc'[Conn(u[1])] = "splice"
      <3> SUFFICES ASSUME NEW u \in CopyTasks
                   PROVE  /\ CopyAt(u, pc[u])'
                          /\ pc'[u] # "idle" => pc'[Conn(u[1])] = "splice"
        OBVIOUS
      <3>1. CASE u[1] = s
        BY <2>4, <2>6, <3>1 DEF CopyAt, Tasks
      <3>2. CASE u[1] # s
        BY <2>4, <2>5, <3>2 DEF CopyAt, Key, ControlOK, Tasks
      <3> QED BY <3>1, <3>2
    <2>9. \A u \in SaveTasks : SaveAt(u, pc[u])'
      BY <2>4, <2>5, LimiterAssumption DEF SaveAt, Key, ControlOK, Tasks
    <2>10. pc' \in [Tasks -> Pcs]
      BY <2>2, <1>0 DEF TypeOK, Pcs, RefreshPcs
    <2>11. TypeOK'
      BY <2>1, <2>3, <2>10 DEF CheckConnection, TypeOK
    <2>12. ControlOK'
      BY <2>7, <2>8, <2>9, ControlNext
    <2> QED BY <2>11, <2>12
  <1>2. CASE Abandon(s)
    <2>1. ConnAt(Conn(s), "idle")
      BY DEF ConnAt
    <2>2. pc' = [pc EXCEPT ![Conn(s)] = "idle"] /\ dom' = dom /\ pc[Conn(s)] # "splice"
      BY <1>2 DEF Abandon, Goto
    <2>3. ControlOK' /\ pc' \in [Tasks -> Pcs]
      BY <1>0, <2>1, <2>2, StepControl
    <2> QED BY <1>2, <2>3 DEF Abandon, TypeOK
  <1>3. CASE Splice(s) \/ Join(s)
    <2>1. /\ UNCHANGED <<clock, day, bytes, connections, dirty, dom, today, reg, admitted>>
          /\ pc[Conn(s)] \in {"connect", "splice"}
      BY <1>3 DEF Splice, Join
    <2>2. PICK m \in {"copy", "idle"} :
            /\ DOMAIN pc' = Tasks
            /\ \A t \in Tasks : pc'[t] = IF t = Conn(s)
                                        THEN IF m = "copy" THEN "splice" ELSE "idle"
                                        ELSE IF t \in Copies(s) THEN m
                                        ELSE pc[t]
            /\ pc' = [t \in Tasks |-> pc'[t]]
      <3>1. CASE Splice(s)
        <4> WITNESS "copy" \in {"copy", "idle"}
        <4> QED BY <3>1 DEF Splice
      <3>2. CASE Join(s)
        <4> WITNESS "idle" \in {"copy", "idle"}
        <4> QED BY <3>2 DEF Join
      <3> QED BY <1>3, <3>1, <3>2
    <2>3. pc' \in [Tasks -> Pcs]
      BY <2>2 DEF TypeOK, Pcs
    <2>4. \A u \in ConnTasks : ConnAt(u, pc[u])'
      BY <2>1, <2>2 DEF ConnAt, Key, ControlOK, Tasks
    <2>5. \A u \in CopyTasks : /\ CopyAt(u, pc[u])'
                               /\ pc'[u] # "idle" => pc'[Conn(u[1])] = "splice"
      BY <2>1, <2>2 DEF CopyAt, Key, ControlOK, Tasks
    <2>6. \A u \in SaveTasks : SaveAt(u, pc[u])'
      BY <2>1, <2>2 DEF SaveAt, Key, ControlOK, Tasks
    <2>7. TypeOK'
      BY <2>1, <2>3 DEF TypeOK
    <2>8. ControlOK'
      BY <2>4, <2>5, <2>6, ControlNext
    <2> QED BY <2>7, <2>8
  <1> QED BY <1>1, <1>2, <1>3

\* A stuttering step and midnight keep the invariant.
LEMMA MidnightInv ==
  ASSUME Inv, Midnight \/ UNCHANGED limiterVars
  PROVE  Inv'
  <1>1. ControlOK'
    BY DEF Inv, ControlOK, ConnAt, CopyAt, SaveAt, Key, Midnight, limiterVars
  <1>2. TypeOK'
    BY LimiterAssumption DEF Inv, TypeOK, Midnight, limiterVars
  <1> QED BY <1>1, <1>2 DEF Inv

(* load() without a state file builds counters that satisfy the invariant.   *)
LEMMA InitInv == Init => Inv
  <1> SUFFICES ASSUME Init PROVE Inv
    OBVIOUS
  <1>1. TypeOK
    <2>1. /\ clock \in 0..LastDay
          /\ day \in [Domains -> 0..LastDay]
          /\ bytes \in [Domains -> Nat]
          /\ connections \in [Domains -> Nat]
          /\ dom \in [Sessions \cup Savers -> Domains \cup {NoKey}]
          /\ today \in [Tasks -> 0..LastDay]
          /\ reg \in [Tasks -> Nat]
          /\ admitted \in [Domains -> Nat]
      BY LimiterAssumption DEF Init
    <2>2. pc \in [Tasks -> Pcs] /\ dirty \in BOOLEAN
      BY DEF Init, Pcs
    <2> QED BY <2>1, <2>2 DEF TypeOK
  <1>2. ControlOK
    BY TaskFacts DEF Init, ControlOK, ConnAt, CopyAt, SaveAt, Tasks
  <1> QED BY <1>1, <1>2 DEF Inv

(* Every step of the sessions and their copy tasks keeps the invariant.      *)
LEMMA TrafficInv ==
  ASSUME Inv, Traffic
  PROVE  Inv'
  <1>1. CASE \E s \in Sessions : SessionStep(s)
    BY <1>1, SessionInv, CopyInv, TaskFacts DEF SessionStep
  <1>2. CASE \E t \in ConnTasks : ConnStep(t)
    BY <1>2, CheckInv, RefreshInv DEF ConnStep, Tasks
  <1>3. CASE \E t \in CopyTasks : CopyStep(t)
    BY <1>3, CopyInv, RefreshInv DEF CopyStep, Tasks
  <1> QED BY <1>1, <1>2, <1>3 DEF Traffic

\* The limiter's state keeps its shape, and every task inside it works on a key
\* that has the limit it is checking: no step of check_connection or
\* account_bytes reads a limit that is not configured.
THEOREM TypeCorrect == Spec => [](TypeOK /\ ControlOK)
  <1>1. Inv /\ [Next]_limiterVars => Inv'
    BY TrafficInv, MidnightInv DEF Next
  <1>2. Inv => TypeOK /\ ControlOK
    BY DEF Inv
  <1> QED BY InitInv, <1>1, <1>2, PTL DEF Spec

------------------------------------------------------------------------------
(* The connection limit *)

\* The connection counter is moved by the reset of a new day and by the exchange of
\* check_connection, by nothing else.
LEMMA ConnectionMoves ==
  ASSUME [Next]_limiterVars
  PROVE  \/ UNCHANGED connections
         \/ \E t \in Tasks : ZeroConnections(t)
         \/ \E t \in ConnTasks : Increment(t)
  BY DEF Next, Traffic, SessionStep, ConnStep, CopyStep, Refresh, limiterVars,
         ReadClock, LoadDay, CasDay, ZeroBytes, CheckConnection, CheckBandwidth,
         LoadConnections, MarkAdmitted, Abandon, Splice, Join, AccountBytes,
         AddBytes, MarkAdded, EndOfStream, Midnight, Tasks

\* A step of the limiter keeps the connection counters within their limits.
LEMMA ConnectionStep ==
  ASSUME Inv, ConnectionsWithinLimit, [Next]_limiterVars
  PROVE  ConnectionsWithinLimit'
  <1>1. CASE UNCHANGED connections
    BY <1>1 DEF ConnectionsWithinLimit
  <1>2. ASSUME NEW t \in Tasks, ZeroConnections(t)
        PROVE  ConnectionsWithinLimit'
    <2>1. \A d \in Domains : connections'[d] = 0 \/ connections'[d] = connections[d]
      BY <1>2 DEF ZeroConnections, Inv, TypeOK
    <2>2. \A d \in Domains : DailyConnections[d] # NoLimit => 0 <= DailyConnections[d]
      BY LimiterAssumption
    <2> QED BY <2>1, <2>2 DEF ConnectionsWithinLimit
  <1>3. ASSUME NEW t \in ConnTasks, Increment(t)
        PROVE  ConnectionsWithinLimit'
    <2>1. /\ t \in Tasks /\ Key(t) \in Domains /\ reg[t] \in Nat
          /\ DailyConnections[Key(t)] \in Nat
      BY <1>3, LimiterAssumption
         DEF Increment, Inv, TypeOK, ControlOK, ConnAt, Tasks
    <2> QED BY <1>3, <2>1, LimiterAssumption
            DEF Increment, ConnectionsWithinLimit, Inv, TypeOK
  <1> QED BY <1>1, <1>2, <1>3, ConnectionMoves

\* No interleaving of check_connection calls, account_bytes calls and resets
\* takes the connection counter of a key above its daily_connections: a counter
\* moves up only by an exchange that saw it below the limit.
THEOREM ConnectionLimitHolds == Spec => []ConnectionsWithinLimit
  <1> DEFINE CInv == Inv /\ ConnectionsWithinLimit
  <1>1. Init => CInv
    BY InitInv, LimiterAssumption DEF Init, ConnectionsWithinLimit
  <1>2. CInv /\ [Next]_limiterVars => CInv'
    BY TrafficInv, MidnightInv, ConnectionStep DEF Next
  <1>3. CInv => ConnectionsWithinLimit
    OBVIOUS
  <1> QED BY <1>1, <1>2, <1>3, PTL DEF Spec

------------------------------------------------------------------------------
(* The bandwidth limit *)

(* There are two copy tasks per session, so that any set of them is finite   *)
(* and can be counted.                                                       *)
LEMMA CopySubsetFinite ==
  ASSUME NEW S \in SUBSET CopyTasks
  PROVE  IsFiniteSet(S) /\ Cardinality(S) \in Nat
  <1>1. IsFiniteSet(Dirs)
    <2>1. Dirs = {"up"} \cup {"down"}
      BY DEF Dirs
    <2> QED BY <2>1, FS_Singleton, FS_Union
  <1>2. IsFiniteSet(CopyTasks)
    BY <1>1, FS_Product, LimiterAssumption DEF CopyTasks
  <1>3. IsFiniteSet(S)
    BY <1>2, FS_Subset
  <1> QED BY <1>3, FS_CardinalityType

\* When no copy task becomes able to add and the counter does not grow, the
\* bound stays.
LEMMA BoundKept ==
  ASSUME Inv, NEW d \in Domains, DailyBandwidth[d] # NoLimit,
         bytes[d] <= DailyBandwidth[d] + MaxChunk * Cardinality(Spent(d)),
         bytes'[d] \in Nat, bytes'[d] <= bytes[d],
         \A u \in CopyTasks : MayAdd(u, d)' => MayAdd(u, d)
  PROVE  (bytes[d] <= DailyBandwidth[d] + MaxChunk * Cardinality(Spent(d)))'
  <1>1. Spent(d) \in SUBSET Spent(d)'
    BY DEF Spent
  <1>2. /\ IsFiniteSet(Spent(d)) /\ Cardinality(Spent(d)) \in Nat
        /\ IsFiniteSet(Spent(d)') /\ Cardinality(Spent(d)') \in Nat
    <2>1. Spent(d) \in SUBSET CopyTasks /\ Spent(d)' \in SUBSET CopyTasks
      BY DEF Spent
    <2> QED BY <2>1, CopySubsetFinite
  <1>3. Cardinality(Spent(d)) <= Cardinality(Spent(d)')
    BY <1>1, <1>2, FS_Subset
  <1>4. MaxChunk * Cardinality(Spent(d)) <= MaxChunk * Cardinality(Spent(d)')
    BY <1>2, <1>3, LimiterAssumption
  <1>5. bytes[d] \in Nat /\ DailyBandwidth[d] \in Nat
    BY LimiterAssumption DEF Inv, TypeOK
  <1>6. /\ MaxChunk * Cardinality(Spent(d)) \in Nat
        /\ MaxChunk * Cardinality(Spent(d)') \in Nat
    BY <1>2, LimiterAssumption
  <1> QED BY <1>4, <1>5, <1>6

\* A copy task that adds at most a chunk and is stopped when it passes the limit
\* keeps the bound: it joins the spent tasks.
LEMMA BoundAdded ==
  ASSUME Inv, NEW d \in Domains, DailyBandwidth[d] # NoLimit,
         bytes[d] <= DailyBandwidth[d] + MaxChunk * Cardinality(Spent(d)),
         NEW t \in CopyTasks, t \notin Spent(d), NEW n \in 1..MaxChunk,
         bytes'[d] = bytes[d] + n,
         \A u \in CopyTasks : MayAdd(u, d)' => MayAdd(u, d),
         bytes'[d] > DailyBandwidth[d] => t \in Spent(d)'
  PROVE  (bytes[d] <= DailyBandwidth[d] + MaxChunk * Cardinality(Spent(d)))'
  <1>1. bytes[d] \in Nat /\ DailyBandwidth[d] \in Nat /\ n \in Nat /\ n <= MaxChunk
    BY LimiterAssumption DEF Inv, TypeOK
  <1>2. /\ IsFiniteSet(Spent(d)) /\ Cardinality(Spent(d)) \in Nat
        /\ IsFiniteSet(Spent(d)') /\ Cardinality(Spent(d)') \in Nat
    <2>1. Spent(d) \in SUBSET CopyTasks /\ Spent(d)' \in SUBSET CopyTasks
      BY DEF Spent
    <2> QED BY <2>1, CopySubsetFinite
  <1>3. CASE bytes'[d] <= DailyBandwidth[d]
    <2>1. MaxChunk * Cardinality(Spent(d)') \in Nat
      BY <1>2, LimiterAssumption
    <2> QED BY <1>1, <1>3, <2>1
  <1>4. CASE bytes'[d] > DailyBandwidth[d]
    <2>1. Spent(d) \cup {t} \in SUBSET Spent(d)'
      BY <1>4 DEF Spent
    <2>2. Cardinality(Spent(d)) + 1 <= Cardinality(Spent(d)')
      <3>1. Cardinality(Spent(d) \cup {t}) = Cardinality(Spent(d)) + 1
        BY <1>2, FS_AddElement
      <3>2. Cardinality(Spent(d) \cup {t}) <= Cardinality(Spent(d)')
        BY <1>2, <2>1, FS_Subset
      <3> QED BY <3>1, <3>2
    <2>3. MaxChunk * Cardinality(Spent(d)) + MaxChunk <= MaxChunk * Cardinality(Spent(d)')
      BY <1>2, <2>2, LimiterAssumption
    <2>4. /\ MaxChunk * Cardinality(Spent(d)) \in Nat
          /\ MaxChunk * Cardinality(Spent(d)') \in Nat /\ MaxChunk \in Nat
      BY <1>2, LimiterAssumption
    <2> QED BY <1>1, <2>3, <2>4
  <1> QED BY <1>1, <1>3, <1>4

\* A step of one task leaves the other copy tasks as able to add as they were,
\* if a session does not pass the bandwidth check in it and a copy task does not
\* come back from the stop.
LEMMA MayAddStep ==
  ASSUME Inv, NEW d \in Domains, NEW t \in Tasks, NEW l,
         pc' = [pc EXCEPT ![t] = l], dom' = dom,
         \A u \in CopyTasks : u # t => reg'[u] = reg[u],
         t \in ConnTasks => \/ l \notin {"connections", "increment", "mark", "connect"}
                            \/ pc[t] \in {"connections", "increment", "mark", "connect"},
         t \in CopyTasks /\ MayAdd(t, d)' => MayAdd(t, d)
  PROVE  \A u \in CopyTasks : MayAdd(u, d)' => MayAdd(u, d)
  <1> SUFFICES ASSUME NEW u \in CopyTasks, MayAdd(u, d)', u # t
               PROVE  MayAdd(u, d)
    OBVIOUS
  <1>1. \A w \in Tasks : pc'[w] = IF w = t THEN l ELSE pc[w]
    BY DEF Inv, TypeOK
  <1>2. u \in Tasks /\ Conn(u[1]) \in Tasks /\ Conn(u[1]) \in ConnTasks
    BY TaskFacts DEF Tasks
  <1>3. pc'[u] = pc[u] /\ reg'[u] = reg[u] /\ Key(u)' = Key(u)
    BY <1>1, <1>2 DEF Key
  <1>4. \/ pc'[Conn(u[1])] \notin {"connections", "increment", "mark", "connect"}
        \/ pc[Conn(u[1])] \in {"connections", "increment", "mark", "connect"}
    BY <1>1, <1>2
  <1> QED BY <1>3, <1>4 DEF MayAdd

\* No step of refresh_if_new_day lets a stopped copy task add again.
LEMMA MayAddRefresh ==
  ASSUME Inv, NEW d \in Domains, NEW t \in Tasks, Refresh(t)
  PROVE  \A u \in CopyTasks : MayAdd(u, d)' => MayAdd(u, d)
  <1>1. pc[t] \in RefreshPcs /\ dom' = dom /\ Key(t)' = Key(t)
    BY DEF Refresh, ReadClock, LoadDay, CasDay, ZeroBytes, ZeroConnections,
           RefreshPcs, Key
  <1>2. PICK l \in RefreshPcs \cup {AfterRefresh(t)} : pc' = [pc EXCEPT ![t] = l]
    BY DEF Refresh, ReadClock, LoadDay, CasDay, ZeroBytes, ZeroConnections,
           RefreshPcs, Goto
  <1>3. \A u \in CopyTasks : u # t => reg'[u] = reg[u]
    BY DEF Refresh, ReadClock, LoadDay, CasDay, ZeroBytes, ZeroConnections, Inv,
           TypeOK, Tasks
  <1>4. t \in ConnTasks => l \notin {"connections", "increment", "mark", "connect"}
    BY TaskFacts DEF AfterRefresh, RefreshPcs
  <1>5. t \in CopyTasks /\ MayAdd(t, d)' => MayAdd(t, d)
    BY <1>1 DEF MayAdd
  <1> QED BY <1>1, <1>2, <1>3, <1>4, <1>5, MayAddStep

\* Nor does a step of a session other than the bandwidth check.
LEMMA MayAddSession ==
  ASSUME Inv, NEW d \in Domains, NEW s \in Sessions,
         \/ \E k \in Domains \cup {NoKey} : CheckConnection(s, k)
         \/ Abandon(s) \/ Splice(s) \/ Join(s)
  PROVE  \A u \in CopyTasks : MayAdd(u, d)' => MayAdd(u, d)
  <1> USE TaskFacts DEF Inv
  <1>0. Conn(s) \in Tasks /\ Conn(s) \in ConnTasks /\ Conn(s) \notin CopyTasks
    BY DEF Tasks
  <1>1. CASE \E k \in Domains \cup {NoKey} : CheckConnection(s, k)
    <2>1. PICK k \in Domains \cup {NoKey} : CheckConnection(s, k)
      BY <1>1
    <2>2. SUFFICES ASSUME NEW u \in CopyTasks, MayAdd(u, d)'
                   PROVE  MayAdd(u, d)
      OBVIOUS
    <2>3. /\ dom' = [dom EXCEPT ![s] = k] /\ reg' = reg
          /\ pc' = [pc EXCEPT ![Conn(s)] = IF k = NoKey THEN "connect" ELSE "today"]
          /\ pc[Conn(s)] = "idle"
      BY <2>1 DEF CheckConnection, Goto
    <2>4. u \in Tasks /\ u # Conn(s) /\ pc'[u] = pc[u] /\ u[1] \in Sessions
      BY <1>0, <2>3 DEF TypeOK, Tasks
    <2>5. CASE u[1] = s
      <3>1. pc[u] = "idle"
        BY <2>3, <2>5 DEF ControlOK
      <3>2. Key(u)' = k
        BY <2>3, <2>5 DEF Key, TypeOK
      <3>3. pc'[Conn(s)] = IF k = NoKey THEN "connect" ELSE "today"
        BY <1>0, <2>3 DEF TypeOK
      <3>4. k # NoKey
        BY <2>2, <3>2, LimiterAssumption DEF MayAdd
      <3> QED BY <2>2, <2>4, <2>5, <3>1, <3>3, <3>4 DEF MayAdd, RefreshPcs
    <2>6. CASE u[1] # s
      <3>1. Conn(u[1]) # Conn(s) /\ Conn(u[1]) \in Tasks
        BY <2>6, <2>4 DEF Tasks
      <3>2. pc'[Conn(u[1])] = pc[Conn(u[1])]
        BY <2>3, <3>1 DEF TypeOK
      <3>3. Key(u)' = Key(u)
        BY <2>3, <2>4, <2>6 DEF Key, TypeOK
      <3> QED BY <2>2, <2>3, <2>4, <3>2, <3>3 DEF MayAdd
    <2> QED BY <2>5, <2>6
  <1>2. CASE Abandon(s)
    <2>1. pc' = [pc EXCEPT ![Conn(s)] = "idle"] /\ dom' = dom /\ reg' = reg
      BY <1>2 DEF Abandon, Goto
    <2> QED BY <1>0, <2>1, MayAddStep
  <1>3. CASE Splice(s)
    <2>1. SUFFICES ASSUME NEW u \in CopyTasks, MayAdd(u, d)'
                   PROVE  MayAdd(u, d)
      OBVIOUS
    <2>2. Key(u)' = Key(u) /\ reg' = reg /\ pc[Conn(s)] = "connect"
      BY <1>3 DEF Splice, Key
    <2>3. CASE u[1] = s
      BY <2>1, <2>2, <2>3 DEF MayAdd
    <2>4. CASE u[1] # s
      <3>1. u \in Tasks /\ Conn(u[1]) \in Tasks /\ u # Conn(s) /\ Conn(u[1]) # Conn(s)
            /\ u \notin Copies(s) /\ Conn(u[1]) \notin Copies(s)
        BY <1>0, <2>4 DEF Tasks
      <3>2. pc'[u] = pc[u] /\ pc'[Conn(u[1])] = pc[Conn(u[1])]
        BY <1>3, <3>1 DEF Splice
      <3> QED BY <2>1, <2>2, <3>2 DEF MayAdd
    <2> QED BY <2>3, <2>4
  <1>4. CASE Join(s)
    <2>1. SUFFICES ASSUME NEW u \in CopyTasks, MayAdd(u, d)'
                   PROVE  MayAdd(u, d)
      OBVIOUS
    <2>2. Key(u)' = Key(u) /\ reg' = reg
      BY <1>4 DEF Join, Key
    <2>3. CASE u[1] = s
      <3>1. u \in Tasks /\ u \in Copies(s) /\ Conn(u[1]) = Conn(s)
        BY <2>3 DEF Tasks
      <3>2. pc'[u] = "idle" /\ pc'[Conn(u[1])] = "idle"
        BY <1>0, <1>4, <3>1 DEF Join
      <3> QED BY <2>1, <3>2 DEF MayAdd, RefreshPcs
    <2>4. CASE u[1] # s
      <3>1. u \in Tasks /\ Conn(u[1]) \in Tasks /\ u # Conn(s) /\ Conn(u[1]) # Conn(s)
            /\ u \notin Copies(s) /\ Conn(u[1]) \notin Copies(s)
        BY <1>0, <2>4 DEF Tasks
      <3>2. pc'[u] = pc[u] /\ pc'[Conn(u[1])] = pc[Conn(u[1])]
        BY <1>4, <3>1 DEF Join
      <3> QED BY <2>1, <2>2, <3>2 DEF MayAdd
    <2> QED BY <2>3, <2>4
  <1> QED BY <1>1, <1>2, <1>3, <1>4

\* The steps of check_connection after the bandwidth check, and the steps of a
\* copy task that do not add, let no stopped copy task add again.
LEMMA MayAddCall ==
  ASSUME Inv, NEW d \in Domains,
         \/ \E t \in ConnTasks : LoadConnections(t) \/ Increment(t) \/ MarkAdmitted(t)
         \/ \E t \in CopyTasks : MarkAdded(t) \/ AccountBytes(t) \/ EndOfStream(t)
  PROVE  \A u \in CopyTasks : MayAdd(u, d)' => MayAdd(u, d)
  <1>1. ASSUME NEW t \in ConnTasks, LoadConnections(t) \/ Increment(t) \/ MarkAdmitted(t)
        PROVE  \A u \in CopyTasks : MayAdd(u, d)' => MayAdd(u, d)
    <2>0. t \in Tasks /\ t \notin CopyTasks /\ pc = [pc EXCEPT ![t] = pc[t]]
      BY TaskFacts DEF Tasks, Inv, TypeOK
    <2>1. /\ dom' = dom /\ \A u \in CopyTasks : u # t => reg'[u] = reg[u]
          /\ pc[t] \in {"connections", "increment", "mark", "connect"}
      BY <1>1 DEF LoadConnections, Increment, MarkAdmitted, Return, Inv, TypeOK, Tasks
    <2>2. PICK l : pc' = [pc EXCEPT ![t] = l]
      BY <1>1, <2>0 DEF LoadConnections, Increment, MarkAdmitted, Return, Goto
    <2> QED BY <2>0, <2>1, <2>2, MayAddStep
  <1>2. ASSUME NEW t \in CopyTasks, MarkAdded(t) \/ AccountBytes(t) \/ EndOfStream(t)
        PROVE  \A u \in CopyTasks : MayAdd(u, d)' => MayAdd(u, d)
    <2>0. t \in Tasks /\ t \notin ConnTasks /\ Conn(t[1]) \in ConnTasks
          /\ Conn(t[1]) \in Tasks /\ Conn(t[1]) # t
      BY TaskFacts DEF Tasks
    <2>1. dom' = dom /\ Key(t)' = Key(t) /\ \A u \in CopyTasks : u # t => reg'[u] = reg[u]
      BY <1>2 DEF MarkAdded, AccountBytes, EndOfStream, Return, Inv, TypeOK, Tasks, Key
    <2>2. PICK l : pc' = [pc EXCEPT ![t] = l]
      BY <1>2 DEF MarkAdded, AccountBytes, EndOfStream, Return, Goto
    <2>3. pc'[t] = l /\ pc'[Conn(t[1])] = pc[Conn(t[1])]
      BY <2>0, <2>2 DEF Inv, TypeOK
    <2>4. MayAdd(t, d)' => MayAdd(t, d)
      <3>1. CASE MarkAdded(t)
        <4>0. SUFFICES ASSUME MayAdd(t, d)' PROVE MayAdd(t, d)
          OBVIOUS
        <4>1. Key(t) = d /\ pc[t] = "mark"
          BY <2>1, <3>1, <4>0 DEF MayAdd, MarkAdded
        <4>2. /\ pc'[t] = IF reg[t] > DailyBandwidth[Key(t)] THEN "done" ELSE "copy"
              /\ Key(t) \in Domains /\ DailyBandwidth[d] # NoLimit
          BY <2>0, <3>1, <4>1
             DEF MarkAdded, Return, Goto, Inv, TypeOK, ControlOK, CopyAt, RefreshPcs
        <4>3. reg[t] \in Nat /\ DailyBandwidth[d] \in Nat
          BY <2>0, <4>2, LimiterAssumption DEF Inv, TypeOK
        <4> QED BY <2>3, <4>0, <4>1, <4>2, <4>3 DEF MayAdd, RefreshPcs
      <3>2. CASE AccountBytes(t) \/ EndOfStream(t)
        BY <2>1, <3>2 DEF AccountBytes, EndOfStream, MayAdd
      <3> QED BY <1>2, <3>1, <3>2
    <2> QED BY <2>0, <2>1, <2>2, <2>4, MayAddStep
  <1> QED BY <1>1, <1>2

\* A bandwidth check that passes has just seen the counter below the limit.
LEMMA BoundChecked ==
  ASSUME Inv, OvershootBounded, NEW t \in ConnTasks, CheckBandwidth(t)
  PROVE  OvershootBounded'
  <1> SUFFICES ASSUME NEW d \in Domains, DailyBandwidth[d] # NoLimit
               PROVE  (bytes[d] <= DailyBandwidth[d] + MaxChunk * Cardinality(Spent(d)))'
    BY DEF OvershootBounded
  <1>0. /\ bytes' = bytes /\ dom' = dom /\ pc[t] = "bandwidth" /\ t \in Tasks
        /\ t \notin CopyTasks /\ t = Conn(t[1])
    BY TaskFacts DEF CheckBandwidth, Tasks
  <1>1. bytes[d] \in Nat /\ DailyBandwidth[d] \in Nat
    BY LimiterAssumption DEF Inv, TypeOK
  <1>2. CASE bytes[d] <= DailyBandwidth[d]
    <2>1. Spent(d)' \in SUBSET CopyTasks
      BY DEF Spent
    <2>2. Cardinality(Spent(d)') \in Nat
      BY <2>1, CopySubsetFinite
    <2>3. MaxChunk * Cardinality(Spent(d)') \in Nat
      BY <2>2, LimiterAssumption
    <2> QED BY <1>0, <1>1, <1>2, <2>3
  <1>3. CASE bytes[d] > DailyBandwidth[d]
    <2>1. PICK l \in {"idle", "connect", "connections"} :
            /\ pc' = [pc EXCEPT ![t] = l]
            /\ Key(t) = d => l = "idle"
      BY <1>1, <1>3 DEF CheckBandwidth, Return, Goto
    <2>2. \A u \in CopyTasks : reg'[u] = reg[u]
      BY <1>0 DEF CheckBandwidth, Return, Inv, TypeOK, Tasks
    <2>3. ASSUME NEW u \in CopyTasks, MayAdd(u, d)' PROVE MayAdd(u, d)
      <3>1. u \in Tasks /\ u # t /\ Conn(u[1]) \in Tasks /\ u[1] = Conn(u[1])[1]
        BY <1>0, TaskFacts DEF Tasks
      <3>2. pc'[u] = pc[u] /\ Key(u)' = Key(u)
        BY <1>0, <2>1, <3>1 DEF Inv, TypeOK, Key
      <3>3. Conn(u[1]) = t => Key(u) = Key(t)
        BY <3>1 DEF Key
      <3>4. pc'[Conn(u[1])] = IF Conn(u[1]) = t THEN l ELSE pc[Conn(u[1])]
        BY <2>1, <3>1 DEF Inv, TypeOK
      <3> QED BY <2>1, <2>2, <2>3, <3>2, <3>3, <3>4 DEF MayAdd
    <2>4. bytes[d] <= DailyBandwidth[d] + MaxChunk * Cardinality(Spent(d))
      BY DEF OvershootBounded
    <2>5. bytes'[d] \in Nat /\ bytes'[d] <= bytes[d]
      BY <1>0, <1>1
    <2> QED BY <2>3, <2>4, <2>5, BoundKept
  <1> QED BY <1>1, <1>2, <1>3

\* fetch_add and the comparison that stops the direction keep the bound.
LEMMA BoundAddBytes ==
  ASSUME Inv, OvershootBounded, NEW t \in CopyTasks, NEW n \in 1..MaxChunk, AddBytes(t, n)
  PROVE  OvershootBounded'
  <1> SUFFICES ASSUME NEW d \in Domains, DailyBandwidth[d] # NoLimit
               PROVE  (bytes[d] <= DailyBandwidth[d] + MaxChunk * Cardinality(Spent(d)))'
    BY DEF OvershootBounded
  <1>0. /\ t \in Tasks /\ t \notin ConnTasks /\ dom' = dom /\ Key(t)' = Key(t)
        /\ pc[t] = "add" /\ pc' = [pc EXCEPT ![t] = "mark"]
        /\ bytes[d] \in Nat /\ n \in Nat /\ Key(t) \in Domains
    <2>1. pc[t] = "add" /\ CopyAt(t, pc[t])
      BY DEF AddBytes, Inv, ControlOK
    <2>2. Key(t) \in Domains
      BY <2>1 DEF CopyAt
    <2> QED BY <2>1, <2>2, TaskFacts DEF AddBytes, Goto, Tasks, Inv, TypeOK, Key
  <1>1. /\ \A u \in CopyTasks : u # t => reg'[u] = reg[u]
        /\ reg'[t] = bytes[Key(t)] + n /\ pc'[t] = "mark"
        /\ bytes'[d] = IF d = Key(t) THEN bytes[d] + n ELSE bytes[d]
    BY <1>0 DEF AddBytes, Inv, TypeOK, Tasks
  <1>2. t \in CopyTasks /\ MayAdd(t, d)' => MayAdd(t, d)
    BY <1>0 DEF MayAdd
  <1>3. \A u \in CopyTasks : MayAdd(u, d)' => MayAdd(u, d)
    BY <1>0, <1>1, <1>2, MayAddStep
  <1>4. bytes[d] <= DailyBandwidth[d] + MaxChunk * Cardinality(Spent(d))
    BY DEF OvershootBounded
  <1>5. CASE d = Key(t)
    <2>1. t \notin Spent(d)
      BY <1>0, <1>5 DEF Spent, MayAdd
    <2>2. pc'[Conn(t[1])] = "splice"
      <3>1. pc[Conn(t[1])] = "splice"
        BY <1>0 DEF Inv, ControlOK
      <3>2. Conn(t[1]) \in Tasks /\ Conn(t[1]) # t
        BY TaskFacts DEF Tasks
      <3> QED BY <1>0, <3>1, <3>2 DEF Inv, TypeOK
    <2>3. DailyBandwidth[d] \in Nat
      BY LimiterAssumption
    <2>4. bytes'[d] > DailyBandwidth[d] => t \in Spent(d)'
      <3>0. SUFFICES ASSUME bytes'[d] > DailyBandwidth[d] PROVE ~ MayAdd(t, d)'
        BY DEF Spent
      <3>1. ~ (reg'[t] <= DailyBandwidth[d])
        BY <1>0, <1>1, <1>5, <2>3, <3>0
      <3> QED BY <1>1, <2>2, <3>1 DEF MayAdd, RefreshPcs
    <2> QED BY <1>1, <1>3, <1>4, <1>5, <2>1, <2>4, BoundAdded
  <1>6. CASE d # Key(t)
    BY <1>0, <1>1, <1>3, <1>4, <1>6, BoundKept
  <1> QED BY <1>5, <1>6

\* However the adds, the comparisons, the bandwidth checks of new sessions and
\* the resets interleave, bytes passes daily_bandwidth by at most one chunk per
\* copy task that can no longer add.
THEOREM OvershootHolds == Spec => []OvershootBounded
  <1> DEFINE OInv == Inv /\ OvershootBounded
  <1>1. Init => OInv
    <2> SUFFICES ASSUME Init, NEW d \in Domains, DailyBandwidth[d] # NoLimit
                 PROVE  bytes[d] <= DailyBandwidth[d] + MaxChunk * Cardinality(Spent(d))
      BY InitInv DEF OvershootBounded
    <2>1. Spent(d) \in SUBSET CopyTasks
      BY DEF Spent
    <2>2. Cardinality(Spent(d)) \in Nat
      BY <2>1, CopySubsetFinite
    <2>3. MaxChunk * Cardinality(Spent(d)) \in Nat
      BY <2>2, LimiterAssumption
    <2> QED BY <2>3, LimiterAssumption DEF Init
  <1>2. OInv /\ [Next]_limiterVars => OInv'
    <2> SUFFICES ASSUME Inv, OvershootBounded, [Next]_limiterVars
                 PROVE  OInv'
      OBVIOUS
    <2>1. Inv'
      BY TrafficInv, MidnightInv DEF Next
    <2>2. ASSUME \A d \in Domains : bytes'[d] <= bytes[d],
                 \A d \in Domains, u \in CopyTasks : MayAdd(u, d)' => MayAdd(u, d)
          PROVE  OvershootBounded'
      <3> SUFFICES ASSUME NEW d \in Domains, DailyBandwidth[d] # NoLimit
                   PROVE  (bytes[d] <= DailyBandwidth[d] + MaxChunk * Cardinality(Spent(d)))'
        BY DEF OvershootBounded
      <3>1. bytes'[d] \in Nat
        BY <2>1 DEF Inv, TypeOK
      <3>2. bytes[d] <= DailyBandwidth[d] + MaxChunk * Cardinality(Spent(d))
        BY DEF OvershootBounded
      <3> QED BY <2>2, <3>1, <3>2, BoundKept
    <2>3. ASSUME UNCHANGED bytes PROVE \A d \in Domains : bytes'[d] <= bytes[d]
      BY <2>3 DEF Inv, TypeOK
    <2>4. ASSUME NEW t \in Tasks, Refresh(t) PROVE OvershootBounded'
      <3>1. \A d \in Domains : bytes'[d] <= bytes[d]
        <4>1. CASE UNCHANGED bytes
          BY <2>3, <4>1
        <4>2. CASE ZeroBytes(t)
          BY <4>2 DEF ZeroBytes, Inv, TypeOK
        <4> QED BY <2>4, <4>1, <4>2
                DEF Refresh, ReadClock, LoadDay, CasDay, ZeroConnections
      <3> QED BY <2>2, <2>4, <3>1, MayAddRefresh
    <2>5. ASSUME NEW s \in Sessions,
                 \/ \E k \in Domains \cup {NoKey} : CheckConnection(s, k)
                 \/ Abandon(s) \/ Splice(s) \/ Join(s)
          PROVE  OvershootBounded'
      <3>1. UNCHANGED bytes
        BY <2>5 DEF CheckConnection, Abandon, Splice, Join
      <3> QED BY <2>2, <2>3, <2>5, <3>1, MayAddSession
    <2>6. ASSUME \/ \E t \in ConnTasks : LoadConnections(t) \/ Increment(t) \/ MarkAdmitted(t)
                 \/ \E t \in CopyTasks : MarkAdded(t) \/ AccountBytes(t) \/ EndOfStream(t)
          PROVE  OvershootBounded'
      <3>1. UNCHANGED bytes
        BY <2>6 DEF LoadConnections, Increment, MarkAdmitted, MarkAdded, AccountBytes,
                    EndOfStream
      <3> QED BY <2>2, <2>3, <2>6, <3>1, MayAddCall
    <2>7. ASSUME Midnight \/ UNCHANGED limiterVars PROVE OvershootBounded'
      <3>1. bytes' = bytes /\ pc' = pc /\ dom' = dom /\ reg' = reg
        BY <2>7 DEF Midnight, limiterVars
      <3>2. \A d \in Domains, u \in CopyTasks : MayAdd(u, d)' => MayAdd(u, d)
        BY <3>1 DEF MayAdd, Key
      <3> QED BY <2>2, <2>3, <3>1, <3>2
    <2>8. OvershootBounded'
      <3>1. CASE \E s \in Sessions : SessionStep(s)
        BY <3>1, <2>5, <2>6, TaskFacts DEF SessionStep
      <3>2. CASE \E t \in ConnTasks : ConnStep(t)
        BY <3>2, <2>4, <2>6, BoundChecked DEF ConnStep, Tasks
      <3>3. CASE \E t \in CopyTasks : CopyStep(t)
        BY <3>3, <2>4, <2>6, BoundAddBytes DEF CopyStep, Tasks
      <3> QED BY <2>7, <3>1, <3>2, <3>3 DEF Next, Traffic
    <2> QED BY <2>1, <2>8
  <1>3. OInv => OvershootBounded
    OBVIOUS
  <1> QED BY <1>1, <1>2, <1>3, PTL DEF Spec
=============================================================================

----------------------- MODULE LimiterPersistenceProofs -----------------------
(***************************************************************************)
(* Proofs about LimiterPersistence, for every set of keys and sessions,    *)
(* every limit and any number of stops, crashes and restarts.              *)
(***************************************************************************)
EXTENDS LimiterPersistence, DomainLimiterProofs

------------------------------------------------------------------------------
(* The inductive invariants *)

\* Types and control, of the limiter and of the savers.
PInv == Inv /\ PersistTypeOK

Files == {"tmp", "state"}
Text(f) == files[f] \notin {Absent, Unparsable}

\* The savers that can run in each phase.
PhaseOK ==
  /\ phase = "stopping" => "final" \in Savers
  /\ \A v \in Savers :
       /\ phase \in {"down", "unlimited"} => pc[Saver(v)] = "idle"
       /\ phase = "up" /\ v = "final" => pc[Saver(v)] = "idle"

\* No second saver can be running: there is one, or its time has not come yet, or it had
\* ended when the final persist began.
Solo == \/ \A u, v \in Savers : u = v
        \/ phase # "stopping"
        \/ due # NoDue

\* A saver that runs alone finds its own temporary file as it left it.
WriterOK ==
  Solo => /\ \A u, v \in Savers : u = v \/ pc[Saver(u)] = "idle" \/ pc[Saver(v)] = "idle"
          /\ \A v \in Savers :
               /\ pc[Saver(v)] = "write" => fd[v] = "tmp" /\ files["tmp"] = Unparsable
               /\ pc[Saver(v)] = "rename" => Text("tmp")

\* Memory, snapshots and files charge key d with at most b connections.
Within(d, b) ==
  /\ connections[d] <= b
  /\ \A v \in Savers : snap[v][d].connections <= b
  /\ \A f \in Files : Text(f) => files[f][d].connections <= b

\* No counter and no file is ahead of the clock.
DaysOK ==
  /\ \A d \in Domains : day[d] <= clock
  /\ \A t \in Tasks : today[t] <= clock
  /\ \A d \in Domains, v \in Savers : snap[v][d].day <= clock
  /\ \A d \in Domains, f \in Files : Text(f) => files[f][d].day <= clock

\* The snapshot of saver v has key d.
KeyPcs == RefreshPcs \cup {"snapshot", "snapshot_bytes", "snapshot_connections"}
HasRead(v, d) ==
  \/ pc[Saver(v)] = "write"
  \/ pc[Saver(v)] = "next" /\ d \notin todo[v]
  \/ pc[Saver(v)] \in KeyPcs /\ d \notin todo[v] /\ dom[v] # d

\* A saved entry agrees with the counters in memory.
Same(d, entry) == entry.day = day[d] /\ entry.connections = connections[d]

\* Saver v has carried the counters of key d as far as it has come.
Carried(v, d) ==
  /\ HasRead(v, d) => Same(d, snap[v][d])
  /\ pc[Saver(v)] \in {"snapshot_bytes", "snapshot_connections"} /\ dom[v] = d =>
       snap[v][d].day = day[d]
  /\ pc[Saver(v)] = "rename" => Same(d, files["tmp"][d])
  /\ pc[Saver(v)] = "clean" => Text("state") /\ Same(d, files["state"][d])

\* While no counter moves, a flush carries the counters of memory to the state file, and
\* the mark stays until it has.
FlushOK ==
  phase = "up" =>
    /\ \A v \in Savers : pc[Saver(v)] # "idle" => dirty
    /\ ~raced => \A v \in Savers, d \in Domains : Carried(v, d)
    /\ ~raced /\ ~dirty => \A d \in Domains : Saved(d) = Held(d)

\* On one day nothing is reset.
OneDayOK == \A t \in Tasks : pc[t] \notin {"cas", "zero_bytes", "zero_connections"}

\* What saver v carries of key d is at least lo and at most what memory holds.
Between(v, d, lo) ==
  /\ HasRead(v, d) => /\ lo <= snap[v][d].connections
                      /\ snap[v][d].connections <= connections[d]
  /\ pc[Saver(v)] = "rename" => /\ lo <= files["tmp"][d].connections
                                /\ files["tmp"][d].connections <= connections[d]

\* On one day, while the service is up, the numbers on their way to the state file lie
\* between what it holds and what memory holds.
KeptOK ==
  phase = "up" => \A d \in Domains :
    /\ Saved(d) <= connections[d]
    /\ \A v \in Savers : Between(v, d, Saved(d))

\* On one day, the final persist, which then runs alone, carries what is due to the
\* state file.
DueOK ==
  phase = "stopping" /\ due # NoDue =>
    /\ \A v \in Savers : v # "final" => pc[Saver(v)] = "idle"
    /\ \A d \in Domains :
         /\ due[d] <= connections[d]
         /\ Between("final", d, due[d])
         /\ pc[Saver("final")] \in {"clean", "idle"} => due[d] <= Saved(d)

------------------------------------------------------------------------------
(* Types and control *)

\* The task of a saver.
LEMMA SaverFacts ==
  ASSUME NEW v \in Savers
  PROVE  /\ Saver(v) \in SaveTasks /\ Saver(v) \in Tasks /\ Key(Saver(v)) = dom[v]
         /\ Saver(v) \notin ConnTasks /\ Saver(v) \notin CopyTasks
         /\ \A u \in Savers : Saver(u) = Saver(v) => u = v
  <1>1. Saver(v) \in SaveTasks
    BY DEF Saver, SaveTasks
  <1>2. Saver(v) \notin ConnTasks /\ Saver(v) \notin CopyTasks
    BY <1>1, TaskFacts
  <1>3. Key(Saver(v)) = dom[v] /\ \A u \in Savers : Saver(u) = Saver(v) => u = v
    BY DEF Saver, Key
  <1> QED BY <1>1, <1>2, <1>3 DEF Tasks

\* A saver that moves to a label where it may be keeps control.
LEMMA SaverMove ==
  ASSUME Inv, NEW v \in Savers, NEW l, Goto(Saver(v), l), UNCHANGED dom,
         SaveAt(Saver(v), l)
  PROVE  /\ ControlOK' /\ pc' \in [Tasks -> Pcs]
         /\ pc'[Saver(v)] = l
         /\ \A t \in Tasks : t # Saver(v) => pc'[t] = pc[t]
  <1>1. pc' = [pc EXCEPT ![Saver(v)] = l] /\ Saver(v) \in Tasks
    BY SaverFacts DEF Goto
  <1>2. pc'[Saver(v)] = l /\ \A t \in Tasks : t # Saver(v) => pc'[t] = pc[t]
    BY <1>1 DEF Inv, TypeOK
  <1>3. Saver(v) \notin ConnTasks /\ Saver(v) \notin CopyTasks
    BY SaverFacts
  <1>4. ControlOK' /\ pc' \in [Tasks -> Pcs]
    BY <1>1, <1>3, StepControl DEF Inv
  <1> QED BY <1>2, <1>4

\* Sessions move neither the savers nor the clock, and never clear the mark.
LEMMA TrafficFrame ==
  ASSUME Inv, Traffic
  PROVE  /\ \A v \in Savers : pc'[Saver(v)] = pc[Saver(v)] /\ dom'[v] = dom[v]
         /\ clock' = clock /\ (dirty => dirty')
  <1>1. clock' = clock /\ (dirty => dirty')
    <2>1. clock' = clock /\ (UNCHANGED dirty \/ dirty' = (dirty \/ HasStateFile))
      BY DEF Traffic, SessionStep, ConnStep, CopyStep, Refresh, ReadClock, LoadDay, CasDay,
             ZeroBytes, ZeroConnections, CheckConnection, CheckBandwidth, LoadConnections,
             Increment, MarkAdmitted, Abandon, Splice, Join, AccountBytes, AddBytes,
             MarkAdded, EndOfStream
    <2> QED BY <2>1, PersistenceAssumption, LimiterAssumption DEF Inv, TypeOK
  <1>2. \/ UNCHANGED dom
        \/ \E s \in Sessions, d \in Domains \cup {NoKey} : dom' = [dom EXCEPT ![s] = d]
    BY DEF Traffic, SessionStep, ConnStep, CopyStep, Refresh, ReadClock, LoadDay, CasDay,
           ZeroBytes, ZeroConnections, CheckConnection, CheckBandwidth, LoadConnections,
           Increment, MarkAdmitted, Abandon, Splice, Join, AccountBytes, AddBytes,
           MarkAdded, EndOfStream
  <1>3. \/ UNCHANGED pc
        \/ \E t \in ConnTasks \cup CopyTasks, l \in Pcs : pc' = [pc EXCEPT ![t] = l]
        \/ \E s \in Sessions : Splice(s) \/ Join(s)
    <2>1. ASSUME NEW t \in Tasks, Refresh(t)
          PROVE  \E l \in Pcs : pc' = [pc EXCEPT ![t] = l]
      BY <2>1 DEF Refresh, ReadClock, LoadDay, CasDay, ZeroBytes, ZeroConnections, Goto,
                  AfterRefresh, Pcs, RefreshPcs, CheckPcs, SavePcs
    <2>2. ASSUME NEW t \in ConnTasks,
                 CheckBandwidth(t) \/ LoadConnections(t) \/ Increment(t) \/ MarkAdmitted(t)
          PROVE  UNCHANGED pc \/ \E l \in Pcs : pc' = [pc EXCEPT ![t] = l]
      BY <2>2 DEF CheckBandwidth, LoadConnections, Increment, MarkAdmitted, Return, Goto,
                  Pcs, CheckPcs
    <2>3. ASSUME NEW t \in CopyTasks,
                 \/ \E n \in 1..MaxChunk : AddBytes(t, n)
                 \/ MarkAdded(t) \/ AccountBytes(t) \/ EndOfStream(t)
          PROVE  \E l \in Pcs : pc' = [pc EXCEPT ![t] = l]
      BY <2>3 DEF AddBytes, MarkAdded, AccountBytes, EndOfStream, Return, Goto, Pcs,
                  RefreshPcs
    <2>4. ASSUME NEW s \in Sessions,
                 Abandon(s) \/ \E d \in Domains \cup {NoKey} : CheckConnection(s, d)
          PROVE  \E l \in Pcs : pc' = [pc EXCEPT ![Conn(s)] = l]
      BY <2>4 DEF Abandon, CheckConnection, Goto, Pcs, RefreshPcs
    <2>5. CASE \E s \in Sessions : SessionStep(s)
      BY <2>3, <2>4, <2>5, TaskFacts DEF SessionStep
    <2>6. CASE \E t \in ConnTasks : ConnStep(t)
      BY <2>1, <2>2, <2>6 DEF ConnStep, Tasks
    <2>7. CASE \E t \in CopyTasks : CopyStep(t)
      BY <2>1, <2>3, <2>7 DEF CopyStep, Tasks
    <2> QED BY <2>5, <2>6, <2>7 DEF Traffic
  <1>4. ASSUME NEW v \in Savers
        PROVE  pc'[Saver(v)] = pc[Saver(v)] /\ dom'[v] = dom[v]
    <2>1. dom'[v] = dom[v]
      BY <1>2, LimiterAssumption DEF Inv, TypeOK
    <2>2. Saver(v) \in Tasks /\ Saver(v) \notin ConnTasks \cup CopyTasks
      BY SaverFacts
    <2>3. ASSUME NEW s \in Sessions, Splice(s) \/ Join(s)
          PROVE  pc'[Saver(v)] = pc[Saver(v)]
      <3>1. Saver(v) # Conn(s) /\ Saver(v) \notin Copies(s)
        BY <2>2, TaskFacts
      <3> QED BY <2>2, <2>3, <3>1 DEF Splice, Join
    <2>4. pc'[Saver(v)] = pc[Saver(v)]
      BY <1>3, <2>2, <2>3 DEF Inv, TypeOK
    <2> QED BY <2>1, <2>4
  <1> QED BY <1>1, <1>4

\* What a file holds when it parses.
LEMMA TextType ==
  ASSUME PersistTypeOK, NEW f \in Files
  PROVE  /\ Text(f) <=> files[f] \in PersistedState
         /\ ~Text(f) => files[f] = Absent \/ files[f] = Unparsable
         /\ files[f] \in PersistedState \cup {Absent, Unparsable}
  BY PersistenceAssumption DEF PersistTypeOK, Text, Files

\* The empty snapshot.
LEMMA ZeroState == [d \in Domains |-> Zero] \in PersistedState
  <1>1. Zero \in PersistedDomain
    BY LimiterAssumption DEF Zero, PersistedDomain
  <1> QED BY <1>1 DEF PersistedState

\* The labels of a saver that needs no key, and those that do while it has one.
LEMMA SaverLabels ==
  ASSUME Inv, NEW v \in Savers
  PROVE  /\ \A l \in {"idle", "next", "write", "rename", "clean"} : SaveAt(Saver(v), l)
         /\ pc[Saver(v)] \in KeyPcs => dom[v] \in Domains /\ \A l \in KeyPcs : SaveAt(Saver(v), l)
         /\ pc[Saver(v)] \in {"idle", "next", "write", "rename", "clean"} \cup KeyPcs
  <1>1. Key(Saver(v)) = dom[v] /\ SaveAt(Saver(v), pc[Saver(v)])
    BY SaverFacts DEF Inv, ControlOK
  <1> QED BY <1>1 DEF SaveAt, SavePcs, RefreshPcs, KeyPcs

\* A persist_now that begins, by the tick or after shutdown.
LEMMA BeginPInv ==
  ASSUME PInv, (\E v \in Savers : Begin(v)) \/ Shutdown
  PROVE  PInv'
  <1>1. PICK v \in Savers : /\ Goto(Saver(v), "next") /\ todo' = [todo EXCEPT ![v] = Domains]
                            /\ raced' = FALSE
    BY DEF Begin, Shutdown
  <1>2. /\ UNCHANGED <<clock, counters, dirty, dom, today, reg, admitted, snap, files, fd,
                       stops, counted>>
        /\ phase' = phase \/ phase' = "stopping"
        /\ due' = due \/ due' = NoDue \/ due' = connections
    BY DEF Begin, Shutdown
  <1>3. ControlOK' /\ pc' \in [Tasks -> Pcs]
    BY <1>1, <1>2, SaverMove, SaverLabels DEF PInv
  <1>4. TypeOK'
    BY <1>2, <1>3 DEF PInv, Inv, TypeOK, counters
  <1>5. due' \in [Domains -> Nat] /\ todo' \in [Savers -> SUBSET Domains]
    BY <1>1, <1>2 DEF PInv, PersistTypeOK, TypeOK, NoDue
  <1> QED BY <1>1, <1>2, <1>3, <1>4, <1>5 DEF PInv, Inv, PersistTypeOK

\* build_snapshot goes on to the next key.
LEMMA KeyPInv ==
  ASSUME PInv, NEW v \in Savers, NEW d \in Domains, SnapshotKey(v, d)
  PROVE  PInv'
  <1>1. /\ Saver(v) \in Tasks /\ Saver(v) \in SaveTasks /\ v \notin Sessions
        /\ Saver(v) \notin ConnTasks /\ Saver(v) \notin CopyTasks
    BY SaverFacts, LimiterAssumption
  <1>2. /\ pc' = [pc EXCEPT ![Saver(v)] = "today"] /\ dom' = [dom EXCEPT ![v] = d]
        /\ UNCHANGED <<clock, counters, dirty, today, reg, admitted,
                       phase, snap, files, fd, stops, raced, counted, due>>
        /\ todo' = [todo EXCEPT ![v] = @ \ {d}]
    BY DEF SnapshotKey, Goto
  <1>3. TypeOK'
    BY <1>1, <1>2 DEF PInv, Inv, TypeOK, counters, Pcs, RefreshPcs
  <1>4. ControlOK'
    <2>1. ASSUME NEW t \in ConnTasks PROVE ConnAt(t, pc[t])'
      <3>1. t \in Tasks /\ t[1] \in Sessions /\ t # Saver(v)
        BY <1>1, TaskFacts DEF Tasks
      <3>2. pc'[t] = pc[t] /\ Key(t)' = Key(t)
        BY <1>1, <1>2, <3>1 DEF PInv, Inv, TypeOK, Key
      <3> QED BY <3>2 DEF PInv, Inv, ControlOK, ConnAt
    <2>2. ASSUME NEW t \in CopyTasks
          PROVE  CopyAt(t, pc[t])' /\ (pc'[t] # "idle" => pc'[Conn(t[1])] = "splice")
      <3>1. /\ t \in Tasks /\ t[1] \in Sessions /\ t # Saver(v)
            /\ Conn(t[1]) \in Tasks /\ Conn(t[1]) # Saver(v)
        BY <1>1, TaskFacts DEF Tasks
      <3>2. pc'[t] = pc[t] /\ Key(t)' = Key(t) /\ pc'[Conn(t[1])] = pc[Conn(t[1])]
        BY <1>1, <1>2, <3>1 DEF PInv, Inv, TypeOK, Key
      <3> QED BY <3>2 DEF PInv, Inv, ControlOK, CopyAt
    <2>3. ASSUME NEW t \in SaveTasks PROVE SaveAt(t, pc[t])'
      <3>1. t \in Tasks /\ t[1] \in Savers /\ (t = Saver(v) \/ t[1] # v)
        BY TaskFacts DEF Tasks, SaveTasks, Saver
      <3>2. CASE t = Saver(v)
        <4>1. pc'[t] = "today" /\ Key(t)' = d
          BY <1>1, <1>2, <3>2 DEF PInv, Inv, TypeOK, Key, Saver
        <4> QED BY <4>1 DEF SaveAt, RefreshPcs
      <3>3. CASE t # Saver(v)
        <4>1. pc'[t] = pc[t] /\ Key(t)' = Key(t)
          BY <1>1, <1>2, <3>1, <3>3 DEF PInv, Inv, TypeOK, Key
        <4> QED BY <4>1 DEF PInv, Inv, ControlOK, SaveAt
      <3> QED BY <3>2, <3>3
    <2> QED BY <2>1, <2>2, <2>3, ControlNext
  <1>5. todo' \in [Savers -> SUBSET Domains]
    BY <1>2 DEF PInv, PersistTypeOK
  <1> QED BY <1>2, <1>3, <1>4, <1>5 DEF PInv, Inv, PersistTypeOK

\* snapshot() of a key.
LEMMA LoadPInv ==
  ASSUME PInv, NEW v \in Savers,
         \/ SnapshotRefresh(v) \/ SnapshotDay(v) \/ SnapshotBytes(v) \/ SnapshotConnections(v)
  PROVE  PInv'
  <1>1. CASE SnapshotRefresh(v)
    <2>1. Inv'
      BY <1>1, SaverFacts, RefreshInv DEF SnapshotRefresh, PInv
    <2>2. UNCHANGED persistVars
      BY <1>1 DEF SnapshotRefresh
    <2> QED BY <2>1, <2>2 DEF PInv, PersistTypeOK, persistVars, Inv
  <1>2. CASE ~SnapshotRefresh(v)
    <2>1. PICK from \in {"snapshot", "snapshot_bytes", "snapshot_connections"},
               to \in {"snapshot_bytes", "snapshot_connections", "next"},
               field \in {"day", "bytes", "connections"},
               value \in {day[dom[v]], bytes[dom[v]], connections[dom[v]]} :
            Load(v, from, to, field, value) /\ (field = "day" => value = day[dom[v]])
      BY <1>2 DEF SnapshotDay, SnapshotBytes, SnapshotConnections
    <2>2. UNCHANGED today \/ today' = [today EXCEPT ![Saver(v)] = 0]
      BY <1>2 DEF SnapshotDay, SnapshotBytes, SnapshotConnections
    <2>3. /\ pc[Saver(v)] = from /\ Goto(Saver(v), to)
          /\ snap' = [snap EXCEPT ![v][dom[v]][field] = value]
          /\ UNCHANGED <<clock, counters, dirty, dom, reg, admitted,
                         phase, todo, files, fd, stops, raced, counted, due>>
      BY <2>1 DEF Load
    <2>4. dom[v] \in Domains /\ SaveAt(Saver(v), to)
      BY <2>3, SaverLabels DEF KeyPcs, PInv
    <2>5. ControlOK' /\ pc' \in [Tasks -> Pcs]
      BY <2>3, <2>4, SaverMove DEF PInv
    <2>6. today' \in [Tasks -> 0..LastDay]
      BY <2>2, LimiterAssumption DEF PInv, Inv, TypeOK
    <2>7. TypeOK'
      BY <2>3, <2>5, <2>6 DEF PInv, Inv, TypeOK, counters
    <2>8. snap' \in [Savers -> PersistedState]
      <3>1. value \in Nat /\ (field = "day" => value \in 0..LastDay)
        BY <2>1, <2>4, LimiterAssumption DEF PInv, Inv, TypeOK
      <3>2. snap[v][dom[v]] \in PersistedDomain
        BY <2>4 DEF PInv, PersistTypeOK, PersistedState
      <3>3. [snap[v][dom[v]] EXCEPT ![field] = value] \in PersistedDomain
        <4>1. CASE field = "day"
          BY <3>1, <3>2, <4>1 DEF PersistedDomain
        <4>2. CASE field = "bytes"
          BY <3>1, <3>2, <4>2 DEF PersistedDomain
        <4>3. CASE field = "connections"
          BY <3>1, <3>2, <4>3 DEF PersistedDomain
        <4> QED BY <4>1, <4>2, <4>3
      <3> HIDE DEF PersistedDomain
      <3>4. [snap[v] EXCEPT ![dom[v]] = [snap[v][dom[v]] EXCEPT ![field] = value]]
              \in PersistedState
        BY <2>4, <3>3 DEF PInv, PersistTypeOK, PersistedState
      <3> QED BY <2>3, <3>4 DEF PInv, PersistTypeOK
    <2> QED BY <2>3, <2>5, <2>7, <2>8 DEF PInv, Inv, PersistTypeOK
  <1> QED BY <1>1, <1>2

\* The rest of persist_now, and its early returns.
LEMMA WritePInv ==
  ASSUME PInv, NEW v \in Savers,
         OpenTmp(v) \/ WriteTmp(v) \/ Rename(v) \/ ClearDirty(v) \/ PersistFails(v)
  PROVE  PInv'
  <1>1. PICK l \in {"idle", "write", "rename", "clean"} : Goto(Saver(v), l)
    BY DEF OpenTmp, WriteTmp, Rename, ClearDirty, PersistFails
  <1>2. /\ UNCHANGED <<clock, counters, dom, today, reg, admitted, phase, stops, raced, counted>>
        /\ dirty' = dirty \/ dirty' = FALSE
        /\ due' = due \/ due' = NoDue
        /\ todo' = todo \/ todo' = [todo EXCEPT ![v] = {}]
        /\ snap' = snap \/ snap' = [snap EXCEPT ![v] = [d \in Domains |-> Zero]]
    <2>1. CASE OpenTmp(v)
      BY <2>1 DEF OpenTmp
    <2>2. CASE WriteTmp(v)
      BY <2>2 DEF WriteTmp
    <2>3. CASE Rename(v)
      BY <2>3 DEF Rename
    <2>4. CASE ClearDirty(v)
      BY <2>4 DEF ClearDirty, persistVars
    <2>5. CASE PersistFails(v)
      BY <2>5 DEF PersistFails
    <2> QED BY <2>1, <2>2, <2>3, <2>4, <2>5
  <1>3. ControlOK' /\ pc' \in [Tasks -> Pcs]
    BY <1>1, <1>2, SaverMove, SaverLabels DEF PInv
  <1>4. TypeOK'
    BY <1>2, <1>3 DEF PInv, Inv, TypeOK, counters
  <1>5. /\ due' \in [Domains -> Nat] /\ todo' \in [Savers -> SUBSET Domains]
        /\ snap' \in [Savers -> PersistedState]
    BY <1>2, ZeroState DEF PInv, PersistTypeOK, NoDue
  <1>6. fd' \in [Savers -> {"tmp", "state", "gone"}]
    BY DEF OpenTmp, WriteTmp, Rename, ClearDirty, PersistFails, persistVars, PInv, PersistTypeOK
  <1>7. files' \in [{"tmp", "state"} -> PersistedState \cup {Absent, Unparsable}]
    <2>1. CASE OpenTmp(v)
      BY <2>1 DEF OpenTmp, PInv, PersistTypeOK
    <2>2. CASE WriteTmp(v)
      <3>1. PICK text \in {snap[v]} \cup {Unparsable} :
              files' = IF fd[v] = "gone" THEN files ELSE [files EXCEPT ![fd[v]] = text]
        BY <2>2 DEF WriteTmp
      <3>2. text \in PersistedState \cup {Unparsable}
        BY <3>1 DEF PInv, PersistTypeOK
      <3> QED BY <3>1, <3>2 DEF PInv, PersistTypeOK
    <2>3. CASE Rename(v)
      BY <2>3 DEF Rename, PInv, PersistTypeOK
    <2>4. CASE ClearDirty(v) \/ PersistFails(v)
      BY <2>4 DEF ClearDirty, PersistFails, persistVars, PInv, PersistTypeOK
    <2> QED BY <2>1, <2>2, <2>3, <2>4
  <1> QED BY <1>2, <1>3, <1>4, <1>5, <1>6, <1>7 DEF PInv, Inv, PersistTypeOK

\* The process ends, in whatever way.
LEMMA GonePInv ==
  ASSUME PInv, Gone
  PROVE  PInv'
  <1>1. TypeOK'
    <2>1. /\ clock' \in 0..LastDay /\ day' \in [Domains -> 0..LastDay]
          /\ bytes' \in [Domains -> Nat] /\ connections' \in [Domains -> Nat]
          /\ admitted' \in [Domains -> Nat]
      BY DEF Gone, PInv, Inv, TypeOK
    <2>2. /\ dom' \in [Sessions \cup Savers -> Domains \cup {NoKey}]
          /\ today' \in [Tasks -> 0..LastDay] /\ reg' \in [Tasks -> Nat]
      BY LimiterAssumption DEF Gone
    <2>3. pc' \in [Tasks -> Pcs] /\ dirty' \in BOOLEAN
      BY DEF Gone, Pcs
    <2> QED BY <2>1, <2>2, <2>3 DEF TypeOK
  <1>2. ControlOK'
    <2>1. \A t \in Tasks : pc'[t] = "idle"
      BY DEF Gone
    <2>2. \A t \in ConnTasks : ConnAt(t, pc[t])'
      BY <2>1 DEF ConnAt, Tasks
    <2>3. \A t \in CopyTasks : CopyAt(t, pc[t])' /\ (pc'[t] # "idle" => pc'[Conn(t[1])] = "splice")
      BY <2>1 DEF CopyAt, Tasks
    <2>4. \A t \in SaveTasks : SaveAt(t, pc[t])'
      BY <2>1 DEF SaveAt, Tasks
    <2> QED BY <2>2, <2>3, <2>4, ControlNext
  <1>3. /\ todo' \in [Savers -> SUBSET Domains] /\ snap' \in [Savers -> PersistedState]
        /\ fd' \in [Savers -> {"tmp", "state", "gone"}] /\ due' \in [Domains -> Nat]
    BY ZeroState DEF Gone, NoDue
  <1>4. /\ stops' \in 0..MaxStops /\ phase' = "down" /\ raced' \in BOOLEAN
        /\ UNCHANGED <<files, counted>>
    <2>1. MaxStops \in Nat
      BY PersistenceAssumption
    <2>2. stops' \in 0..MaxStops
      BY <2>1 DEF Gone, PInv, PersistTypeOK
    <2> QED BY <2>2 DEF Gone
  <1> QED BY <1>1, <1>2, <1>3, <1>4 DEF PInv, Inv, PersistTypeOK

\* What the counters are after a start.
LEMMA Restored ==
  ASSUME PInv, Start
  PROVE  \/ files["state"] = Unparsable /\ phase' = "unlimited" /\ UNCHANGED counters
         \/ /\ phase' = "up" /\ files["state"] # Unparsable
            /\ \A d \in Domains :
                 /\ day'[d] = clock
                 /\ bytes'[d] = IF Text("state") /\ files["state"][d].day = clock
                                THEN files["state"][d].bytes ELSE 0
                 /\ connections'[d] = IF Text("state") /\ files["state"][d].day = clock
                                      THEN files["state"][d].connections ELSE 0
  BY DEF Start, Restore, Text

\* A start restores counters of the right type.
LEMMA StartPInv ==
  ASSUME PInv, Start
  PROVE  PInv'
  <1>1. /\ UNCHANGED <<clock, dirty, pc, dom, today, reg, admitted,
                       todo, snap, files, fd, stops, raced, counted, due>>
        /\ phase' \in {"up", "unlimited"}
    BY DEF Start
  <1>2. /\ day' \in [Domains -> 0..LastDay] /\ bytes' \in [Domains -> Nat]
        /\ connections' \in [Domains -> Nat]
    <2>1. CASE UNCHANGED counters
      BY <2>1 DEF counters, PInv, Inv, TypeOK
    <2>2. CASE files["state"] # Unparsable /\ Restore(files["state"])
      <3> DEFINE f == files["state"]
      <3>1. f # Absent => f \in PersistedState
        BY <2>2 DEF PInv, PersistTypeOK
      <3>2. ASSUME NEW d \in Domains, f # Absent
            PROVE  f[d].bytes \in Nat /\ f[d].connections \in Nat
        BY <3>1, <3>2 DEF PersistedState, PersistedDomain
      <3> HIDE DEF f
      <3>3. \A d \in Domains : /\ (IF f # Absent /\ f[d].day = clock THEN f[d].bytes ELSE 0) \in Nat
                               /\ (IF f # Absent /\ f[d].day = clock THEN f[d].connections ELSE 0) \in Nat
        BY <3>2
      <3>4. /\ day' = [d \in Domains |-> clock]
            /\ bytes' = [d \in Domains |->
                           IF f # Absent /\ f[d].day = clock THEN f[d].bytes ELSE 0]
            /\ connections' = [d \in Domains |->
                                 IF f # Absent /\ f[d].day = clock THEN f[d].connections ELSE 0]
        BY <2>2 DEF Restore, f
      <3> QED BY <3>3, <3>4 DEF PInv, Inv, TypeOK
    <2> QED BY <2>1, <2>2 DEF Start
  <1>3. TypeOK'
    BY <1>1, <1>2 DEF PInv, Inv, TypeOK
  <1>4. ControlOK'
    BY <1>1 DEF PInv, Inv, ControlOK, ConnAt, CopyAt, SaveAt, Key
  <1> QED BY <1>1, <1>3, <1>4 DEF PInv, Inv, PersistTypeOK

\* Sessions and midnight.
LEMMA ServePInv ==
  ASSUME PInv, Serve \/ NewDay \/ UNCHANGED vars
  PROVE  PInv'
  <1>1. Inv'
    BY TrafficInv, MidnightInv DEF PInv, Serve, NewDay, vars
  <1>2. counted' \in [Domains -> Nat]
    <2>1. CASE Serve
      <3>1. \A d \in Domains : counted[d] \in Nat /\ counted[d] + 1 \in Nat
        BY DEF PInv, PersistTypeOK
      <3> QED BY <2>1, <3>1 DEF Serve
    <2>2. CASE NewDay \/ UNCHANGED vars
      BY <2>2 DEF NewDay, vars, persistVars, PInv, PersistTypeOK
    <2> QED BY <2>1, <2>2
  <1>3. UNCHANGED <<phase, todo, snap, files, fd, stops, due>> /\ raced' \in BOOLEAN
    BY DEF Serve, NewDay, vars, persistVars, PInv, PersistTypeOK
  <1> QED BY <1>1, <1>2, <1>3 DEF PInv, Inv, PersistTypeOK

\* The first start.
LEMMA InitPInv == PersistInit => PInv
  <1> SUFFICES ASSUME PersistInit PROVE PInv
    OBVIOUS
  <1>1. Inv
    BY InitInv DEF PersistInit
  <1>2. /\ todo \in [Savers -> SUBSET Domains] /\ snap \in [Savers -> PersistedState]
        /\ fd \in [Savers -> {"tmp", "state", "gone"}]
        /\ counted \in [Domains -> Nat] /\ due \in [Domains -> Nat]
    BY ZeroState DEF PersistInit, NoDue
  <1>3. files \in [{"tmp", "state"} -> PersistedState \cup {Absent, Unparsable}]
    BY DEF PersistInit
  <1>4. stops \in 0..MaxStops /\ raced \in BOOLEAN /\ phase = "up"
    <2>1. MaxStops \in Nat
      BY PersistenceAssumption
    <2>2. stops \in 0..MaxStops
      BY <2>1 DEF PersistInit
    <2> QED BY <2>2 DEF PersistInit
  <1> QED BY <1>1, <1>2, <1>3, <1>4 DEF PInv, Inv, PersistTypeOK

\* Every step keeps types and control.
LEMMA StepPInv ==
  ASSUME PInv, [PersistNext]_vars
  PROVE  PInv'
  <1>1. CASE Serve \/ NewDay \/ UNCHANGED vars
    BY <1>1, ServePInv
  <1>2. CASE Tick \/ Shutdown
    BY <1>2, BeginPInv DEF Tick
  <1>3. CASE Exit \/ Crash
    BY <1>3, GonePInv DEF Exit, Crash
  <1>4. CASE Start
    BY <1>4, StartPInv
  <1>5. CASE \E v \in Savers : SaverStep(v) \/ PersistFails(v)
    BY <1>5, KeyPInv, LoadPInv, WritePInv DEF SaverStep
  <1> QED BY <1>1, <1>2, <1>3, <1>4, <1>5 DEF PersistNext

\* The limiter, its snapshots and its files keep their shape through flushes that
\* overlap, fail or are cut off, through every stop and through every restore.
THEOREM PersistTypeCorrect == PersistSpec => []PersistTypeOK
  <1>1. PInv /\ [PersistNext]_vars => PInv'
    BY StepPInv
  <1>2. PInv => PersistTypeOK
    BY DEF PInv
  <1> QED BY <1>1, <1>2, InitPInv, PTL DEF PersistSpec

------------------------------------------------------------------------------
(* What can be in memory, in a snapshot and in a file *)

\* One load of snapshot() changes one field of one entry.
LEMMA LoadEffect ==
  ASSUME PInv, NEW v \in Savers, dom[v] \in Domains,
         NEW field \in {"day", "bytes", "connections"}, NEW value,
         snap' = [snap EXCEPT ![v][dom[v]][field] = value]
  PROVE  /\ \A u \in Savers, d \in Domains :
              (u # v \/ d # dom[v]) => snap'[u][d] = snap[u][d]
         /\ field = "day" => /\ snap'[v][dom[v]].day = value
                             /\ snap'[v][dom[v]].connections = snap[v][dom[v]].connections
         /\ field = "bytes" => /\ snap'[v][dom[v]].day = snap[v][dom[v]].day
                               /\ snap'[v][dom[v]].connections = snap[v][dom[v]].connections
         /\ field = "connections" => /\ snap'[v][dom[v]].day = snap[v][dom[v]].day
                                     /\ snap'[v][dom[v]].connections = value
  <1> DEFINE e == snap[v][dom[v]]
             e1 == [e EXCEPT ![field] = value]
  <1>1. snap \in [Savers -> PersistedState] /\ snap[v] \in [Domains -> PersistedDomain]
    BY DEF PInv, PersistTypeOK, PersistedState
  <1>2. e \in PersistedDomain
    BY <1>1
  <1>3. snap'[v] = [snap[v] EXCEPT ![dom[v]] = e1]
        /\ \A u \in Savers : u # v => snap'[u] = snap[u]
    BY <1>1
  <1>4. snap'[v][dom[v]] = e1 /\ \A d \in Domains : d # dom[v] => snap'[v][d] = snap[v][d]
    BY <1>1, <1>3
  <1>5. /\ field = "day" => e1.day = value /\ e1.connections = e.connections
        /\ field = "bytes" => e1.day = e.day /\ e1.connections = e.connections
        /\ field = "connections" => e1.day = e.day /\ e1.connections = value
    BY <1>2 DEF PersistedDomain
  <1> QED BY <1>3, <1>4, <1>5

\* The loads of snapshot(), one by one.
LEMMA Loads ==
  ASSUME PInv, NEW v \in Savers
  PROVE  /\ SnapshotDay(v) =>
              /\ pc[Saver(v)] = "snapshot" /\ pc'[Saver(v)] = "snapshot_bytes"
              /\ snap'[v][dom[v]].day = day[dom[v]]
              /\ snap'[v][dom[v]].connections = snap[v][dom[v]].connections
         /\ SnapshotBytes(v) =>
              /\ pc[Saver(v)] = "snapshot_bytes" /\ pc'[Saver(v)] = "snapshot_connections"
              /\ snap'[v][dom[v]].day = snap[v][dom[v]].day
              /\ snap'[v][dom[v]].connections = snap[v][dom[v]].connections
         /\ SnapshotConnections(v) =>
              /\ pc[Saver(v)] = "snapshot_connections" /\ pc'[Saver(v)] = "next"
              /\ snap'[v][dom[v]].day = snap[v][dom[v]].day
              /\ snap'[v][dom[v]].connections = connections[dom[v]]
         /\ SnapshotDay(v) \/ SnapshotBytes(v) \/ SnapshotConnections(v) =>
              /\ dom[v] \in Domains
              /\ \A u \in Savers, d \in Domains :
                   (u # v \/ d # dom[v]) => snap'[u][d] = snap[u][d]
              /\ UNCHANGED <<clock, counters, dirty, dom, reg, admitted,
                             phase, todo, files, fd, stops, raced, counted, due>>
              /\ \A t \in Tasks : t # Saver(v) => pc'[t] = pc[t]
  <1>1. ASSUME NEW from \in {"snapshot", "snapshot_bytes", "snapshot_connections"},
               NEW to \in Pcs, NEW field \in {"day", "bytes", "connections"}, NEW value,
               Load(v, from, to, field, value)
        PROVE  /\ dom[v] \in Domains /\ pc[Saver(v)] = from /\ pc'[Saver(v)] = to
               /\ snap' = [snap EXCEPT ![v][dom[v]][field] = value]
               /\ UNCHANGED <<clock, counters, dirty, dom, reg, admitted,
                             phase, todo, files, fd, stops, raced, counted, due>>
               /\ \A t \in Tasks : t # Saver(v) => pc'[t] = pc[t]
    <2>1. pc[Saver(v)] = from /\ pc' = [pc EXCEPT ![Saver(v)] = to]
      BY <1>1 DEF Load, Goto
    <2>2. dom[v] \in Domains
      BY <2>1, SaverLabels DEF PInv, KeyPcs
    <2>3. Saver(v) \in Tasks /\ pc \in [Tasks -> Pcs]
      BY SaverFacts DEF PInv, Inv, TypeOK
    <2> QED BY <1>1, <2>1, <2>2, <2>3 DEF Load
  <1>2. {"snapshot_bytes", "snapshot_connections", "next"} \subseteq Pcs
    BY DEF Pcs, SavePcs
  <1>3. CASE SnapshotDay(v)
    <2>1. Load(v, "snapshot", "snapshot_bytes", "day", day[dom[v]])
      BY <1>3 DEF SnapshotDay
    <2> QED BY <1>1, <1>2, <1>3, <2>1, LoadEffect DEF SnapshotBytes, SnapshotConnections, Load
  <1>4. CASE SnapshotBytes(v)
    <2>1. Load(v, "snapshot_bytes", "snapshot_connections", "bytes", bytes[dom[v]])
      BY <1>4 DEF SnapshotBytes
    <2> QED BY <1>1, <1>2, <1>4, <2>1, LoadEffect DEF SnapshotDay, SnapshotConnections, Load
  <1>5. CASE SnapshotConnections(v)
    <2>1. Load(v, "snapshot_connections", "next", "connections", connections[dom[v]])
      BY <1>5 DEF SnapshotConnections
    <2> QED BY <1>1, <1>2, <1>5, <2>1, LoadEffect DEF SnapshotDay, SnapshotBytes, Load
  <1> QED BY <1>3, <1>4, <1>5

\* An entry of a snapshot comes from the counters.
LEMMA SnapMoves ==
  ASSUME PInv, [PersistNext]_vars, NEW v \in Savers, NEW d \in Domains
  PROVE  /\ snap'[v][d].connections \in {snap[v][d].connections, connections[d], 0}
         /\ snap'[v][d].day \in {snap[v][d].day, day[d], 0}
  <1>1. CASE UNCHANGED snap
    BY <1>1
  <1>2. ASSUME NEW u \in Savers,
               SnapshotDay(u) \/ SnapshotBytes(u) \/ SnapshotConnections(u)
        PROVE  /\ snap'[v][d].connections \in {snap[v][d].connections, connections[d], 0}
               /\ snap'[v][d].day \in {snap[v][d].day, day[d], 0}
    <2>1. CASE u # v \/ d # dom[u]
      <3>1. snap'[v][d] = snap[v][d]
        BY <1>2, <2>1, Loads
      <3> QED BY <3>1
    <2>2. CASE u = v /\ d = dom[u]
      BY <1>2, <2>2, Loads
    <2> QED BY <2>1, <2>2
  <1>3. ASSUME NEW u \in Savers, snap' = [snap EXCEPT ![u] = [x \in Domains |-> Zero]]
        PROVE  /\ snap'[v][d].connections \in {snap[v][d].connections, connections[d], 0}
               /\ snap'[v][d].day \in {snap[v][d].day, day[d], 0}
    <2>1. snap'[v][d] = Zero \/ snap'[v][d] = snap[v][d]
      BY <1>3 DEF PInv, PersistTypeOK
    <2> QED BY <2>1 DEF Zero
  <1>4. CASE Gone
    <2>1. snap'[v][d] = Zero
      BY <1>4 DEF Gone
    <2> QED BY <2>1 DEF Zero
  <1>5. CASE \E u \in Savers : SaverStep(u) \/ PersistFails(u)
    BY <1>1, <1>2, <1>3, <1>5 DEF SaverStep, PersistFails, SnapshotKey, SnapshotRefresh,
                                  OpenTmp, WriteTmp, Rename, ClearDirty, persistVars
  <1>6. CASE Serve \/ NewDay \/ Tick \/ Shutdown \/ Start \/ UNCHANGED vars
    BY <1>1, <1>6 DEF Serve, NewDay, Tick, Begin, Shutdown, Start, vars, persistVars
  <1> QED BY <1>4, <1>5, <1>6 DEF PersistNext, Exit, Crash

\* What is in a file was in a file or in a snapshot.
LEMMA FileMoves ==
  ASSUME PInv, [PersistNext]_vars, NEW f \in Files
  PROVE  \/ files'[f] \in {files["tmp"], files["state"], Absent, Unparsable}
         \/ \E v \in Savers : files'[f] = snap[v]
  <1> USE DEF Files
  <1>1. CASE UNCHANGED files
    BY <1>1
  <1>2. ASSUME NEW v \in Savers, OpenTmp(v) \/ Rename(v)
        PROVE  files'[f] \in {files["tmp"], files["state"], Absent, Unparsable}
    BY <1>2 DEF OpenTmp, Rename, PInv, PersistTypeOK
  <1>3. ASSUME NEW v \in Savers, WriteTmp(v)
        PROVE  files'[f] \in {files["tmp"], files["state"], Unparsable, snap[v]}
    BY <1>3 DEF WriteTmp, PInv, PersistTypeOK
  <1>4. CASE \E v \in Savers : SaverStep(v) \/ PersistFails(v)
    BY <1>1, <1>2, <1>3, <1>4 DEF SaverStep, PersistFails, SnapshotKey, SnapshotRefresh,
         SnapshotDay, SnapshotBytes, SnapshotConnections, Load, ClearDirty, persistVars
  <1>5. CASE Serve \/ NewDay \/ Tick \/ Shutdown \/ Exit \/ Crash \/ Start \/ UNCHANGED vars
    BY <1>1, <1>5 DEF Serve, NewDay, Tick, Begin, Shutdown, Exit, Crash, Gone, Start, vars,
                      persistVars
  <1> QED BY <1>4, <1>5 DEF PersistNext

\* Only sessions count; otherwise a connection counter stays, is reset or restored.
LEMMA MemoryMoves ==
  ASSUME PInv, [PersistNext]_vars, ~Serve, NEW d \in Domains
  PROVE  \/ connections'[d] \in {connections[d], 0}
         \/ Text("state") /\ connections'[d] = files["state"][d].connections
  <1>1. CASE UNCHANGED connections
    BY <1>1
  <1>2. ASSUME NEW v \in Savers, SnapshotRefresh(v)
        PROVE  connections'[d] \in {connections[d], 0}
    BY <1>2, SaverFacts DEF SnapshotRefresh, Refresh, ReadClock, LoadDay, CasDay, ZeroBytes,
                            ZeroConnections, PInv, Inv, TypeOK
  <1>3. CASE Exit \/ Crash
    BY <1>3 DEF Exit, Crash, Gone
  <1>4. CASE Start
    BY <1>4, Restored DEF counters
  <1>5. CASE \E v \in Savers : SaverStep(v) \/ PersistFails(v)
    BY <1>1, <1>2, <1>5 DEF SaverStep, PersistFails, SnapshotKey, SnapshotDay, SnapshotBytes,
         SnapshotConnections, Load, OpenTmp, WriteTmp, Rename, ClearDirty, counters
  <1>6. CASE NewDay \/ Tick \/ Shutdown \/ UNCHANGED vars
    BY <1>1, <1>6 DEF NewDay, Midnight, Tick, Begin, Shutdown, vars, limiterVars, counters
  <1> QED BY <1>3, <1>4, <1>5, <1>6 DEF PersistNext

------------------------------------------------------------------------------
(* Connections across restarts *)

\* A bound on what is in memory and on disk holds on, as long as sessions keep to it.
LEMMA WithinStep ==
  ASSUME PInv, [PersistNext]_vars, NEW d \in Domains, NEW b \in Nat, Within(d, b),
         Serve => connections'[d] <= b
  PROVE  Within(d, b)'
  <1>1. /\ connections[d] \in Nat /\ connections[d] <= b
        /\ \A v \in Savers : snap[v][d].connections <= b
        /\ \A f \in Files : Text(f) => files[f][d].connections <= b
    BY DEF Within, PInv, Inv, TypeOK
  <1>2. connections'[d] <= b
    <2>1. CASE Serve
      BY <2>1
    <2>2. CASE ~Serve
      BY <1>1, <2>2, MemoryMoves DEF Files
    <2> QED BY <2>1, <2>2
  <1>3. \A v \in Savers : snap'[v][d].connections <= b
    BY <1>1, SnapMoves
  <1>4. ASSUME NEW f \in Files, Text(f)' PROVE files'[f][d].connections <= b
    <2>1. files'[f] # Absent /\ files'[f] # Unparsable
      BY <1>4 DEF Text
    <2>2. CASE \E v \in Savers : files'[f] = snap[v]
      BY <1>1, <2>2
    <2>3. CASE files'[f] \in {files["tmp"], files["state"]}
      BY <1>1, <2>1, <2>3 DEF Text, Files
    <2> QED BY <2>1, <2>2, <2>3, FileMoves
  <1> QED BY <1>2, <1>3, <1>4 DEF Within

\* Before anything is counted every bound holds.
LEMMA WithinInit ==
  ASSUME PersistInit, NEW d \in Domains, NEW b \in Nat
  PROVE  Within(d, b)
  <1>1. \A f \in Files : ~Text(f)
    BY DEF PersistInit, Files, Text
  <1>2. \A v \in Savers : snap[v][d] = Zero
    BY DEF PersistInit
  <1> QED BY <1>1, <1>2 DEF PersistInit, Init, Within, Zero

\* No crash, restart or restore, whatever flushes it cuts off or mixes, takes the
\* connection counter of a key above its daily_connections: what the state file can
\* hold was within the limit when it was read.
THEOREM LimitSurvivesRestarts == PersistSpec => []ConnectionsWithinLimit
  <1> DEFINE L == \A d \in Domains : DailyConnections[d] # NoLimit => Within(d, DailyConnections[d])
             LInv == PInv /\ L
  <1>0. \A d \in Domains : DailyConnections[d] # NoLimit => DailyConnections[d] \in Nat
    BY LimiterAssumption
  <1>1. PersistInit => LInv
    BY <1>0, InitPInv, WithinInit
  <1>2. LInv /\ [PersistNext]_vars => LInv'
    <2> SUFFICES ASSUME PInv, L, [PersistNext]_vars PROVE PInv' /\ L'
      OBVIOUS
    <2>1. ASSUME Serve PROVE ConnectionsWithinLimit'
      <3>1. ConnectionsWithinLimit
        BY DEF Within, ConnectionsWithinLimit
      <3> QED BY <2>1, <3>1, ConnectionStep DEF Serve, Next, PInv
    <2>2. ASSUME NEW d \in Domains, DailyConnections[d] # NoLimit
          PROVE  Within(d, DailyConnections[d])'
      <3>1. Serve => connections'[d] <= DailyConnections[d]
        BY <2>1, <2>2 DEF ConnectionsWithinLimit
      <3> QED BY <1>0, <2>2, <3>1, WithinStep
    <2>3. PInv'
      BY StepPInv
    <2> QED BY <2>2, <2>3
  <1>3. LInv => ConnectionsWithinLimit
    BY DEF Within, ConnectionsWithinLimit
  <1> QED BY <1>1, <1>2, <1>3, PTL DEF PersistSpec

\* A session that moves the connection counter up is counted.
LEMMA CountedMoves ==
  ASSUME PInv, Serve, NEW d \in Domains
  PROVE  /\ counted'[d] \in {counted[d], counted[d] + 1}
         /\ \/ connections'[d] \in {connections[d], 0}
            \/ connections'[d] = connections[d] + 1 /\ counted'[d] = counted[d] + 1
  <1>1. counted'[d] = IF \E t \in ConnTasks : /\ Key(t) = d
                                              /\ pc[t] = "increment" /\ pc'[t] = "mark"
                      THEN counted[d] + 1 ELSE counted[d]
    BY DEF Serve
  <1>2. CASE UNCHANGED connections
    BY <1>1, <1>2
  <1>3. ASSUME NEW t \in Tasks, ZeroConnections(t)
        PROVE  connections'[d] \in {connections[d], 0}
    BY <1>3 DEF ZeroConnections, PInv, Inv, TypeOK
  <1>4. ASSUME NEW t \in ConnTasks, Increment(t)
        PROVE  \/ connections'[d] = connections[d]
               \/ connections'[d] = connections[d] + 1 /\ counted'[d] = counted[d] + 1
    <2>1. CASE UNCHANGED connections
      BY <2>1
    <2>2. CASE /\ connections[Key(t)] = reg[t]
               /\ connections' = [connections EXCEPT ![Key(t)] = reg[t] + 1]
               /\ Goto(t, "mark")
      <3>1. pc[t] = "increment" /\ pc'[t] = "mark"
        BY <1>4, <2>2 DEF Increment, Goto, PInv, Inv, TypeOK, Tasks
      <3>2. CASE Key(t) = d
        BY <1>1, <2>2, <3>1, <3>2 DEF PInv, Inv, TypeOK
      <3>3. CASE Key(t) # d
        BY <2>2, <3>3 DEF PInv, Inv, TypeOK
      <3> QED BY <3>2, <3>3
    <2> QED BY <1>4, <2>1, <2>2 DEF Increment
  <1>5. \/ UNCHANGED connections
        \/ \E t \in Tasks : ZeroConnections(t)
        \/ \E t \in ConnTasks : Increment(t)
    BY ConnectionMoves DEF Serve, Next
  <1> QED BY <1>1, <1>2, <1>3, <1>4, <1>5

\* On one day, a restart never charges a key with more connections than were counted,
\* whichever flush the process died in.
THEOREM NoPhantomHolds ==
  ASSUME LastDay = 0
  PROVE  PersistSpec => []NoPhantomUsage
  <1> DEFINE C == \A d \in Domains : Within(d, counted[d])
             CInv == PInv /\ C
  <1>1. PersistInit => CInv
    <2> SUFFICES ASSUME PersistInit PROVE CInv
      OBVIOUS
    <2>1. PInv /\ \A d \in Domains : counted[d] \in Nat
      BY InitPInv DEF PInv, PersistTypeOK
    <2> QED BY <2>1, WithinInit
  <1>2. CInv /\ [PersistNext]_vars => CInv'
    <2> SUFFICES ASSUME PInv, C, [PersistNext]_vars, NEW d \in Domains
                 PROVE  PInv' /\ Within(d, counted[d])'
      BY StepPInv
    <2>1. counted[d] \in Nat /\ connections[d] \in Nat /\ connections[d] <= counted[d]
      BY DEF PInv, PersistTypeOK, Inv, TypeOK, Within
    <2>2. /\ counted'[d] \in Nat /\ counted[d] <= counted'[d]
          /\ Serve => connections'[d] <= counted'[d]
      <3>1. CASE Serve
        BY <2>1, <3>1, CountedMoves
      <3>2. CASE ~Serve
        <4>1. ~NewDay
          BY DEF NewDay, Midnight, PInv, Inv, TypeOK
        <4>2. counted' = counted
          BY <3>2, <4>1 DEF PersistNext, Tick, Begin, Shutdown, Exit, Crash, Gone, Start,
               SaverStep, PersistFails, SnapshotKey, SnapshotRefresh, SnapshotDay,
               SnapshotBytes, SnapshotConnections, Load, OpenTmp, WriteTmp, Rename,
               ClearDirty, vars, persistVars
        <4> QED BY <2>1, <3>2, <4>2
      <3> QED BY <3>1, <3>2
    <2>3. Within(d, counted'[d])
      <3>1. \A v \in Savers : snap[v][d].connections \in Nat
        BY DEF PInv, PersistTypeOK, PersistedState, PersistedDomain
      <3>2. \A f \in Files : Text(f) => files[f][d].connections \in Nat
        BY TextType DEF PInv, PersistedState, PersistedDomain
      <3>3. Within(d, counted[d])
        OBVIOUS
      <3> QED BY <2>1, <2>2, <3>1, <3>2, <3>3 DEF Within
    <2>4. PInv'
      BY StepPInv
    <2>5. ASSUME NEW b, b = counted'[d] PROVE Within(d, b)'
      BY <2>2, <2>3, <2>5, WithinStep
    <2> QED BY <2>4, <2>5 DEF Within
  <1>3. CInv => NoPhantomUsage
    <2> SUFFICES ASSUME PInv, C, NEW d \in Domains PROVE Saved(d) <= counted[d]
      BY DEF NoPhantomUsage
    <2>1. counted[d] \in Nat /\ Within(d, counted[d])
      BY DEF PInv, PersistTypeOK
    <2> QED BY <2>1 DEF Within, Saved, Text, Files
  <1> QED BY <1>1, <1>2, <1>3, PTL DEF PersistSpec

------------------------------------------------------------------------------
(* A saver that runs alone *)

\* Where each step of persist_now leads from and to.
LEMMA SaverLabel ==
  ASSUME PInv, NEW v \in Savers
  PROVE  LET l == pc[Saver(v)]
             m == pc'[Saver(v)]
         IN /\ \A d \in Domains : SnapshotKey(v, d) => l = "next" /\ m = "today"
            /\ SnapshotRefresh(v) => l \in RefreshPcs /\ m \in RefreshPcs \cup {"snapshot"}
            /\ OpenTmp(v) => l = "next" /\ m = "write"
            /\ WriteTmp(v) => l = "write" /\ m = "rename"
            /\ Rename(v) => l = "rename" /\ m \in {"clean", "idle"}
            /\ ClearDirty(v) => l = "clean" /\ m = "idle"
            /\ PersistFails(v) => l \in {"next", "write", "rename"} /\ m = "idle"
            /\ Begin(v) => m = "next"
  <1>1. ASSUME NEW k, Goto(Saver(v), k) PROVE pc'[Saver(v)] = k
    BY <1>1, SaverFacts DEF Goto, PInv, Inv, TypeOK
  <1>2. AfterRefresh(Saver(v)) = "snapshot"
    BY SaverFacts, TaskFacts DEF AfterRefresh
  <1>3. SnapshotRefresh(v) => /\ pc[Saver(v)] \in RefreshPcs
                              /\ pc'[Saver(v)] \in RefreshPcs \cup {"snapshot"}
    BY <1>1, <1>2 DEF SnapshotRefresh, Refresh, ReadClock, LoadDay, CasDay, ZeroBytes,
                      ZeroConnections, RefreshPcs
  <1>4. /\ \A d \in Domains : SnapshotKey(v, d) => /\ pc[Saver(v)] = "next"
                                                   /\ pc'[Saver(v)] = "today"
        /\ OpenTmp(v) => pc[Saver(v)] = "next" /\ pc'[Saver(v)] = "write"
        /\ WriteTmp(v) => pc[Saver(v)] = "write" /\ pc'[Saver(v)] = "rename"
        /\ Rename(v) => pc[Saver(v)] = "rename" /\ pc'[Saver(v)] \in {"clean", "idle"}
        /\ ClearDirty(v) => pc[Saver(v)] = "clean" /\ pc'[Saver(v)] = "idle"
        /\ PersistFails(v) => /\ pc[Saver(v)] \in {"next", "write", "rename"}
                              /\ pc'[Saver(v)] = "idle"
        /\ Begin(v) => pc'[Saver(v)] = "next"
    BY <1>1 DEF SnapshotKey, OpenTmp, WriteTmp, Rename, ClearDirty, PersistFails, Begin
  <1> QED BY <1>3, <1>4

\* What a step of one saver leaves alone: the other one, the phase, the clock.
LEMMA SaverFrame ==
  ASSUME PInv, NEW v \in Savers, SaverStep(v) \/ PersistFails(v) \/ Begin(v)
  PROVE  /\ \A u \in Savers : u # v => /\ pc'[Saver(u)] = pc[Saver(u)] /\ dom'[u] = dom[u]
                                       /\ todo'[u] = todo[u] /\ snap'[u] = snap[u]
         /\ phase' = phase /\ clock' = clock
  <1>1. phase' = phase /\ clock' = clock
    BY DEF SaverStep, PersistFails, Begin, SnapshotKey, SnapshotRefresh, Refresh, ReadClock,
           LoadDay, CasDay, ZeroBytes, ZeroConnections, SnapshotDay, SnapshotBytes,
           SnapshotConnections, Load, OpenTmp, WriteTmp, Rename, ClearDirty, persistVars
  <1>2. ASSUME NEW u \in Savers, u # v
        PROVE  /\ pc'[Saver(u)] = pc[Saver(u)] /\ dom'[u] = dom[u]
               /\ todo'[u] = todo[u] /\ snap'[u] = snap[u]
    <2>1. Saver(u) \in Tasks /\ Saver(u) # Saver(v)
      BY <1>2, SaverFacts
    <2>2. \E l : pc' = [pc EXCEPT ![Saver(v)] = l]
      BY DEF SaverStep, PersistFails, Begin, SnapshotKey, SnapshotRefresh, Refresh,
             ReadClock, LoadDay, CasDay, ZeroBytes, ZeroConnections, SnapshotDay,
             SnapshotBytes, SnapshotConnections, Load, OpenTmp, WriteTmp, Rename,
             ClearDirty, Goto
    <2>3. dom' = dom \/ \E d \in Domains : dom' = [dom EXCEPT ![v] = d]
      BY DEF SaverStep, PersistFails, Begin, SnapshotKey, SnapshotRefresh, Refresh,
             ReadClock, LoadDay, CasDay, ZeroBytes, ZeroConnections, SnapshotDay,
             SnapshotBytes, SnapshotConnections, Load, OpenTmp, WriteTmp, Rename,
             ClearDirty
    <2>4. todo' = todo \/ \E S : todo' = [todo EXCEPT ![v] = S]
      BY DEF SaverStep, PersistFails, Begin, SnapshotKey, SnapshotRefresh, SnapshotDay,
             SnapshotBytes, SnapshotConnections, Load, OpenTmp, WriteTmp, Rename,
             ClearDirty, persistVars
    <2>5. snap' = snap \/ \E r : snap' = [snap EXCEPT ![v] = r]
      BY DEF SaverStep, PersistFails, Begin, SnapshotKey, SnapshotRefresh, SnapshotDay,
             SnapshotBytes, SnapshotConnections, Load, OpenTmp, WriteTmp, Rename,
             ClearDirty, persistVars
    <2>6. pc'[Saver(u)] = pc[Saver(u)]
      BY <2>1, <2>2 DEF PInv, Inv, TypeOK
    <2>7. dom'[u] = dom[u]
      BY <1>2, <2>3 DEF PInv, Inv, TypeOK
    <2>8. todo'[u] = todo[u] /\ snap'[u] = snap[u]
      BY <1>2, <2>4, <2>5 DEF PInv, PersistTypeOK
    <2> QED BY <2>6, <2>7, <2>8
  <1> QED BY <1>1, <1>2

\* A saver that takes a step is inside persist_now.
LEMMA SaverRuns ==
  ASSUME PInv, NEW v \in Savers, SaverStep(v) \/ PersistFails(v)
  PROVE  pc[Saver(v)] # "idle"
  <1>1. SnapshotDay(v) \/ SnapshotBytes(v) \/ SnapshotConnections(v) => pc[Saver(v)] # "idle"
    BY Loads
  <1> QED BY <1>1, SaverLabel DEF SaverStep, RefreshPcs

\* Sessions, midnight and stuttering leave the savers and the files alone.
LEMMA ServeFrame ==
  ASSUME PInv, Serve \/ NewDay \/ UNCHANGED vars
  PROVE  /\ \A v \in Savers : pc'[Saver(v)] = pc[Saver(v)] /\ dom'[v] = dom[v]
         /\ UNCHANGED <<phase, todo, snap, files, fd, stops, due>>
         /\ dirty => dirty'
  <1>1. CASE Serve
    BY <1>1, TrafficFrame DEF Serve, PInv
  <1>2. CASE NewDay \/ UNCHANGED vars
    BY <1>2 DEF NewDay, Midnight, vars, limiterVars, persistVars
  <1> QED BY <1>1, <1>2

\* The phases of the process and the savers that run in them.
LEMMA PhaseStep ==
  ASSUME PInv, PhaseOK, [PersistNext]_vars
  PROVE  PhaseOK'
  <1>1. CASE Serve \/ NewDay \/ UNCHANGED vars
    BY <1>1, ServeFrame DEF PhaseOK
  <1>2. CASE Tick
    <2>1. "periodic" \in Savers /\ phase = "up" /\ Begin("periodic")
      BY <1>2 DEF Tick
    <2>2. phase' = phase /\ \A u \in Savers : u # "periodic" => pc'[Saver(u)] = pc[Saver(u)]
      BY <2>1, SaverFrame
    <2> QED BY <2>1, <2>2 DEF PhaseOK
  <1>3. CASE Shutdown
    BY <1>3 DEF Shutdown, PhaseOK
  <1>4. CASE Exit \/ Crash
    BY <1>4, SaverFacts DEF Exit, Crash, Gone, PhaseOK
  <1>5. CASE Start
    BY <1>5 DEF Start, PhaseOK
  <1>6. ASSUME NEW v \in Savers, SaverStep(v) \/ PersistFails(v) PROVE PhaseOK'
    <2>1. /\ \A u \in Savers : u # v => pc'[Saver(u)] = pc[Saver(u)]
          /\ phase' = phase
      BY <1>6, SaverFrame
    <2>2. pc[Saver(v)] # "idle"
      BY <1>6, SaverRuns
    <2> QED BY <2>1, <2>2 DEF PhaseOK
  <1> QED BY <1>1, <1>2, <1>3, <1>4, <1>5, <1>6 DEF PersistNext

\* What a saver that runs alone does to the files.
LEMMA WriterFiles ==
  ASSUME PInv, WriterOK, Solo, NEW v \in Savers, SaverStep(v) \/ PersistFails(v)
  PROVE  /\ \A u \in Savers : u # v => pc[Saver(u)] = "idle" /\ pc'[Saver(u)] = "idle"
         /\ OpenTmp(v) => fd'[v] = "tmp" /\ files'["tmp"] = Unparsable
         /\ WriteTmp(v) => files'["tmp"] = snap[v] /\ Text("tmp")'
         /\ Rename(v) => /\ Text("tmp") /\ files'["state"] = files["tmp"]
                         /\ pc'[Saver(v)] = "clean"
         /\ ~Rename(v) => files'["state"] = files["state"]
         /\ pc'[Saver(v)] = "write" => OpenTmp(v)
         /\ pc'[Saver(v)] = "rename" => WriteTmp(v)
         /\ pc'[Saver(v)] = "clean" => Rename(v)
  <1>0. files \in [Files -> PersistedState \cup {Absent, Unparsable}]
        /\ fd \in [Savers -> {"tmp", "state", "gone"}] /\ snap[v] \in PersistedState
    BY DEF PInv, PersistTypeOK, Files
  <1>1. \A u \in Savers : u # v => pc[Saver(u)] = "idle" /\ pc'[Saver(u)] = "idle"
    BY SaverRuns, SaverFrame DEF WriterOK
  <1>2. OpenTmp(v) => /\ fd'[v] = "tmp" /\ files'["tmp"] = Unparsable
                      /\ files'["state"] = files["state"]
    BY <1>0 DEF OpenTmp, Files
  <1>3. WriteTmp(v) => /\ files'["tmp"] = snap[v] /\ Text("tmp")'
                       /\ files'["state"] = files["state"]
    <2> SUFFICES ASSUME WriteTmp(v)
                 PROVE  /\ files'["tmp"] = snap[v] /\ Text("tmp")'
                        /\ files'["state"] = files["state"]
      OBVIOUS
    <2>1. fd[v] = "tmp" /\ files["tmp"] = Unparsable
      BY DEF WriteTmp, WriterOK
    <2>2. files' = [files EXCEPT !["tmp"] = snap[v]]
      BY <2>1 DEF WriteTmp
    <2> QED BY <1>0, <2>2, PersistenceAssumption DEF Text, Files
  <1>4. Rename(v) => /\ Text("tmp") /\ files'["state"] = files["tmp"]
                     /\ pc'[Saver(v)] = "clean"
    <2> SUFFICES ASSUME Rename(v)
                 PROVE  /\ Text("tmp") /\ files'["state"] = files["tmp"]
                        /\ pc'[Saver(v)] = "clean"
      OBVIOUS
    <2>1. Text("tmp")
      BY DEF Rename, WriterOK
    <2>2. files["tmp"] # Absent
      BY <2>1 DEF Text
    <2>3. files'["state"] = files["tmp"] /\ Goto(Saver(v), "clean")
      BY <2>2 DEF Rename
    <2>4. pc'[Saver(v)] = "clean"
      BY <2>3, SaverFacts DEF Goto, PInv, Inv, TypeOK
    <2> QED BY <2>1, <2>3, <2>4
  <1>5. ~OpenTmp(v) /\ ~WriteTmp(v) /\ ~Rename(v) => files' = files
    BY DEF SaverStep, PersistFails, SnapshotKey, SnapshotRefresh, SnapshotDay, SnapshotBytes,
           SnapshotConnections, Load, ClearDirty, persistVars
  <1>6. /\ pc'[Saver(v)] = "write" => OpenTmp(v)
        /\ pc'[Saver(v)] = "rename" => WriteTmp(v)
        /\ pc'[Saver(v)] = "clean" => Rename(v)
    BY Loads, SaverLabel DEF SaverStep, RefreshPcs
  <1> QED BY <1>1, <1>2, <1>3, <1>4, <1>5, <1>6

\* A saver that runs alone goes on to find its own temporary file.
LEMMA WriterStep ==
  ASSUME PInv, PhaseOK, WriterOK, [PersistNext]_vars
  PROVE  WriterOK'
  <1> DEFINE W == /\ \A u, v \in Savers : \/ u = v \/ pc'[Saver(u)] = "idle"
                                          \/ pc'[Saver(v)] = "idle"
                  /\ \A v \in Savers :
                       /\ pc'[Saver(v)] = "write" => fd'[v] = "tmp" /\ files'["tmp"] = Unparsable
                       /\ pc'[Saver(v)] = "rename" => Text("tmp")'
  <1> SUFFICES ASSUME Solo' PROVE W
    BY DEF WriterOK
  <1>1. CASE Serve \/ NewDay \/ UNCHANGED vars
    <2>1. Solo
      BY <1>1, ServeFrame DEF Solo
    <2> QED BY <1>1, <2>1, ServeFrame DEF WriterOK, Text
  <1>2. ASSUME NEW v \in Savers, \A u \in Savers : u # v => pc'[Saver(u)] = "idle",
               pc'[Saver(v)] \notin {"write", "rename"}
        PROVE  W
    BY <1>2
  <1>3. CASE Tick
    <2>1. "periodic" \in Savers /\ phase = "up" /\ Begin("periodic")
      BY <1>3 DEF Tick
    <2>2. \A u \in Savers : u # "periodic" => pc[Saver(u)] = "idle"
      BY <2>1, PersistenceAssumption DEF PhaseOK
    <2>3. \A u \in Savers : u # "periodic" => pc'[Saver(u)] = "idle"
      BY <2>1, <2>2, SaverFrame
    <2>4. pc'[Saver("periodic")] = "next"
      BY <2>1, SaverLabel
    <2> QED BY <1>2, <2>1, <2>3, <2>4
  <1>4. CASE Shutdown
    <2>1. "final" \in Savers /\ phase = "up" /\ phase' = "stopping" /\ Goto(Saver("final"), "next")
      BY <1>4 DEF Shutdown
    <2>2. \A u \in Savers : u # "final" => pc[Saver(u)] = "idle"
      <3>1. (\A u, v \in Savers : u = v) \/ due' # NoDue
        BY <2>1 DEF Solo
      <3>2. due' # NoDue => "periodic" \notin Savers \/ pc[Saver("periodic")] = "idle"
        BY <1>4 DEF Shutdown
      <3> QED BY <2>1, <3>1, <3>2, PersistenceAssumption
    <2>3. SaveAt(Saver("final"), "next") /\ UNCHANGED dom
      BY <1>4, <2>1, SaverLabels DEF PInv, Shutdown
    <2>4. pc'[Saver("final")] = "next" /\ \A t \in Tasks : t # Saver("final") => pc'[t] = pc[t]
      BY <2>1, <2>3, SaverMove DEF PInv
    <2>5. \A u \in Savers : u # "final" => pc'[Saver(u)] = "idle"
      BY <2>1, <2>2, <2>4, SaverFacts
    <2> QED BY <1>2, <2>1, <2>4, <2>5
  <1>5. CASE Exit \/ Crash
    <2>1. \A u \in Savers : pc'[Saver(u)] = "idle"
      BY <1>5, SaverFacts DEF Exit, Crash, Gone
    <2> QED BY <2>1
  <1>6. CASE Start
    <2>1. \A u \in Savers : pc'[Saver(u)] = "idle"
      BY <1>6 DEF Start, PhaseOK
    <2> QED BY <2>1
  <1>7. ASSUME NEW v \in Savers, SaverStep(v) \/ PersistFails(v) PROVE W
    <2>1. phase' = phase /\ (due' = due \/ due' = NoDue)
      <3>1. phase' = phase
        BY <1>7, SaverFrame
      <3>2. due' = due \/ due' = NoDue
        BY <1>7 DEF SaverStep, PersistFails, SnapshotKey, SnapshotRefresh, SnapshotDay,
             SnapshotBytes, SnapshotConnections, Load, OpenTmp, WriteTmp, Rename, ClearDirty,
             persistVars
      <3> QED BY <3>1, <3>2
    <2>2. Solo
      BY <2>1 DEF Solo
    <2>3. \A u \in Savers : u # v => pc'[Saver(u)] = "idle"
      BY <1>7, <2>2, WriterFiles
    <2>4. /\ pc'[Saver(v)] = "write" => fd'[v] = "tmp" /\ files'["tmp"] = Unparsable
          /\ pc'[Saver(v)] = "rename" => Text("tmp")'
      BY <1>7, <2>2, WriterFiles
    <2> QED BY <2>3, <2>4
  <1> QED BY <1>1, <1>3, <1>4, <1>5, <1>6, <1>7 DEF PersistNext

\* The savers' part of the invariant.
SaversOK == PInv /\ PhaseOK /\ WriterOK

\* A new process has no save under way, and its file is whole or absent.
LEMMA SaversInit == PersistInit => SaversOK
  <1> SUFFICES ASSUME PersistInit PROVE SaversOK
    OBVIOUS
  <1>1. PInv
    BY InitPInv
  <1>2. phase = "up" /\ \A v \in Savers : pc[Saver(v)] = "idle"
    BY SaverFacts DEF PersistInit, Init
  <1> QED BY <1>1, <1>2 DEF SaversOK, PhaseOK, WriterOK

\* Every step keeps types and phases, and what a saver that runs alone has written.
LEMMA SaversStep == SaversOK /\ [PersistNext]_vars => SaversOK'
  BY StepPInv, PhaseStep, WriterStep DEF SaversOK

\* With one saver the state file parses at every instant, so that the next start never
\* runs without its limits: the rename moves a complete text, and nothing else writes the
\* state file.  (With both savers it does not hold: each may rename what the
\* other has just truncated.)
THEOREM StateFileSafe ==
  ASSUME \A u, v \in Savers : u = v
  PROVE  PersistSpec => []StateFileParses
  <1> DEFINE FInv == SaversOK /\ StateFileParses
  <1>1. PersistInit => FInv
    BY SaversInit, PersistenceAssumption DEF PersistInit, StateFileParses
  <1>2. FInv /\ [PersistNext]_vars => FInv'
    <2> SUFFICES ASSUME SaversOK, StateFileParses, [PersistNext]_vars
                 PROVE  StateFileParses'
      BY SaversStep
    <2>1. CASE \E v \in Savers : SaverStep(v) \/ PersistFails(v)
      <3>1. PICK v \in Savers : SaverStep(v) \/ PersistFails(v)
        BY <2>1
      <3>2. PInv /\ WriterOK /\ Solo
        BY DEF SaversOK, Solo
      <3> QED BY <3>1, <3>2, WriterFiles DEF StateFileParses, Text
    <2>2. CASE ~\E v \in Savers : SaverStep(v) \/ PersistFails(v)
      <3>1. files' = files
        BY <2>2 DEF PersistNext, Serve, NewDay, Tick, Begin, Shutdown, Exit, Crash, Gone,
                    Start, vars, persistVars
      <3> QED BY <3>1 DEF StateFileParses
    <2> QED BY <2>1, <2>2
  <1>3. FInv => StateFileParses
    OBVIOUS
  <1> QED BY <1>1, <1>2, <1>3, PTL DEF PersistSpec

------------------------------------------------------------------------------
(* A flush that no counter races *)

\* Where the days of counters and of calls come from.
LEMMA DayMoves ==
  ASSUME PInv, [PersistNext]_vars
  PROVE  /\ clock' \in {clock, clock + 1}
         /\ \A d \in Domains : day'[d] \in {day[d], clock} \/ \E t \in Tasks : day'[d] = today[t]
         /\ \A t \in Tasks : today'[t] \in {today[t], clock, 0}
  <1> DEFINE G == /\ clock' \in {clock, clock + 1}
                  /\ \A d \in Domains : day'[d] \in {day[d], clock}
                                        \/ \E t \in Tasks : day'[d] = today[t]
                  /\ \A t \in Tasks : today'[t] \in {today[t], clock, 0}
  <1>0. day \in [Domains -> 0..LastDay] /\ today \in [Tasks -> 0..LastDay]
    BY DEF PInv, Inv, TypeOK
  <1>1. ASSUME UNCHANGED <<clock, day, today>> PROVE G
    BY <1>1
  <1>2. ASSUME NEW t \in Tasks, Refresh(t) PROVE G
    <2>1. CASE ReadClock(t)
      BY <1>0, <2>1 DEF ReadClock
    <2>2. CASE CasDay(t)
      BY <1>0, <2>2 DEF CasDay
    <2>3. CASE LoadDay(t) \/ ZeroBytes(t) \/ ZeroConnections(t)
      BY <1>1, <2>3 DEF LoadDay, ZeroBytes, ZeroConnections
    <2> QED BY <1>2, <2>1, <2>2, <2>3 DEF Refresh
  <1>3. ASSUME NEW t \in Tasks, UNCHANGED <<clock, day>>, today' = [today EXCEPT ![t] = 0]
        PROVE  G
    BY <1>0, <1>3
  <1>4. CASE Serve
    <2>1. ASSUME NEW t \in ConnTasks, ConnStep(t) PROVE G
      BY <1>1, <1>2, <1>3, <2>1 DEF ConnStep, CheckBandwidth, LoadConnections, Increment,
                                    MarkAdmitted, Return, Tasks
    <2>2. ASSUME NEW t \in CopyTasks, CopyStep(t) PROVE G
      BY <1>1, <1>2, <1>3, <2>2 DEF CopyStep, AddBytes, MarkAdded, Return, Tasks
    <2>3. ASSUME NEW s \in Sessions, SessionStep(s) PROVE G
      BY <1>1, <2>3 DEF SessionStep, CheckConnection, Abandon, Splice, Join, AccountBytes,
                        EndOfStream
    <2> QED BY <1>4, <2>1, <2>2, <2>3 DEF Serve, Traffic
  <1>5. CASE NewDay
    BY <1>5 DEF NewDay, Midnight
  <1>6. CASE Exit \/ Crash
    BY <1>6 DEF Exit, Crash, Gone
  <1>7. CASE Start
    BY <1>7 DEF Start, Restore, counters
  <1>8. ASSUME NEW v \in Savers, SaverStep(v) \/ PersistFails(v) PROVE G
    <2>1. CASE SnapshotRefresh(v)
      BY <1>2, <2>1, SaverFacts DEF SnapshotRefresh
    <2>2. CASE SnapshotDay(v)
      BY <1>3, <2>2, SaverFacts DEF SnapshotDay, Load, counters
    <2>3. CASE ~SnapshotRefresh(v) /\ ~SnapshotDay(v)
      BY <1>1, <1>8, <2>3 DEF SaverStep, PersistFails, SnapshotKey, SnapshotBytes,
           SnapshotConnections, Load, OpenTmp, WriteTmp, Rename, ClearDirty, counters
    <2> QED BY <2>1, <2>2, <2>3
  <1>9. CASE Tick \/ Shutdown \/ UNCHANGED vars
    BY <1>1, <1>9 DEF Tick, Begin, Shutdown, vars, limiterVars, counters
  <1> QED BY <1>4, <1>5, <1>6, <1>7, <1>8, <1>9 DEF PersistNext

\* Nothing gets ahead of the clock.
LEMMA DaysStep ==
  ASSUME PInv, DaysOK, [PersistNext]_vars
  PROVE  DaysOK'
  <1>1. clock \in Nat /\ clock' \in Nat /\ clock <= clock'
    BY DayMoves, LimiterAssumption DEF PInv, Inv, TypeOK
  <1>2. ASSUME NEW n \in Nat, n <= clock PROVE n <= clock'
    BY <1>1, <1>2
  <1>3. ASSUME NEW d \in Domains PROVE day'[d] <= clock'
    <2>1. day[d] \in Nat /\ day[d] <= clock /\ \A t \in Tasks : today[t] \in Nat /\ today[t] <= clock
      BY LimiterAssumption DEF PInv, Inv, TypeOK, DaysOK
    <2>2. day'[d] \in Nat /\ day'[d] <= clock
      BY <1>1, <2>1, DayMoves
    <2> QED BY <1>2, <2>2
  <1>4. ASSUME NEW t \in Tasks PROVE today'[t] <= clock'
    <2>1. today[t] \in Nat /\ today[t] <= clock
      BY LimiterAssumption DEF PInv, Inv, TypeOK, DaysOK
    <2>2. today'[t] \in Nat /\ today'[t] <= clock
      BY <1>1, <2>1, DayMoves
    <2> QED BY <1>2, <2>2
  <1>5. ASSUME NEW d \in Domains, NEW v \in Savers
        PROVE  /\ snap[v][d].day \in Nat /\ snap[v][d].day <= clock
               /\ snap'[v][d].day <= clock'
    <2>1. snap[v][d].day \in Nat /\ snap[v][d].day <= clock /\ day[d] \in Nat /\ day[d] <= clock
      BY LimiterAssumption DEF PInv, PersistTypeOK, PersistedState, PersistedDomain, Inv, TypeOK,
                               DaysOK
    <2>2. snap'[v][d].day \in Nat /\ snap'[v][d].day <= clock
      BY <1>1, <2>1, SnapMoves
    <2> QED BY <1>2, <2>1, <2>2
  <1>6. ASSUME NEW d \in Domains, NEW f \in Files, Text(f)'
        PROVE  files'[f][d].day <= clock'
    <2>1. ASSUME NEW g \in Files, Text(g)
          PROVE  files[g][d].day \in Nat /\ files[g][d].day <= clock
      BY <2>1, TextType, LimiterAssumption DEF PInv, PersistedState, PersistedDomain, DaysOK
    <2>2. files'[f] # Absent /\ files'[f] # Unparsable
      BY <1>6 DEF Text
    <2>3. CASE \E v \in Savers : files'[f] = snap[v]
      BY <1>2, <1>5, <2>3
    <2>4. CASE files'[f] \in {files["tmp"], files["state"]}
      BY <1>2, <2>1, <2>2, <2>4 DEF Text, Files
    <2> QED BY <2>2, <2>3, <2>4, FileMoves
  <1> QED BY <1>3, <1>4, <1>5, <1>6 DEF DaysOK

\* At the start no counter, snapshot or file is of a later day than the clock.
LEMMA DaysInit ==
  ASSUME PersistInit
  PROVE  DaysOK
  <1>1. \A f \in Files : ~Text(f)
    BY DEF PersistInit, Files, Text
  <1>2. \A v \in Savers, d \in Domains : snap[v][d] = Zero
    BY DEF PersistInit
  <1> QED BY <1>1, <1>2 DEF PersistInit, Init, DaysOK, Zero

\* A saver that is not inside persist_now carries nothing.
LEMMA IdleCarried ==
  ASSUME NEW v, NEW d, pc[Saver(v)] = "idle"
  PROVE  Carried(v, d) /\ ~HasRead(v, d)
  BY DEF Carried, HasRead, KeyPcs, RefreshPcs

\* Each step of a saver that runs alone carries the counters further.
LEMMA CarriedStep ==
  ASSUME PInv, WriterOK, Solo, NEW v \in Savers, NEW d \in Domains, Carried(v, d),
         SaverStep(v) \/ PersistFails(v)
  PROVE  Carried(v, d)'
  <1>1. ASSUME NEW k \in Domains, SnapshotKey(v, k) PROVE Carried(v, d)'
    <2>1. pc[Saver(v)] = "next" /\ pc'[Saver(v)] = "today"
      BY <1>1, SaverLabel
    <2>2. /\ UNCHANGED <<counters, snap, files>>
          /\ dom'[v] = k /\ todo'[v] = todo[v] \ {k}
      BY <1>1 DEF SnapshotKey, PInv, PersistTypeOK, Inv, TypeOK
    <2>3. HasRead(v, d)' => HasRead(v, d)
      BY <2>1, <2>2 DEF HasRead
    <2> QED BY <2>1, <2>2, <2>3 DEF Carried, Same, counters
  <1>2. CASE SnapshotRefresh(v)
    <2>1. /\ pc[Saver(v)] \in RefreshPcs /\ pc'[Saver(v)] \in RefreshPcs \cup {"snapshot"}
          /\ UNCHANGED <<todo, snap, files, dom>>
      BY <1>2, SaverLabel DEF SnapshotRefresh, persistVars, Refresh, ReadClock, LoadDay,
                              CasDay, ZeroBytes, ZeroConnections
    <2>2. HasRead(v, d)' => HasRead(v, d) /\ d # dom[v]
      BY <2>1 DEF HasRead, KeyPcs, RefreshPcs
    <2>3. d # dom[v] => day'[d] = day[d] /\ connections'[d] = connections[d]
      <3>1. Key(Saver(v)) = dom[v]
        BY SaverFacts
      <3> QED BY <1>2, <3>1 DEF SnapshotRefresh, Refresh, ReadClock, LoadDay, CasDay, ZeroBytes,
                                ZeroConnections, PInv, Inv, TypeOK
    <2> QED BY <2>1, <2>2, <2>3 DEF Carried, Same, RefreshPcs
  <1>3. CASE SnapshotDay(v) \/ SnapshotBytes(v) \/ SnapshotConnections(v)
    <2>1. /\ dom[v] \in Domains /\ UNCHANGED <<counters, todo, files, dom>>
          /\ d # dom[v] => snap'[v][d] = snap[v][d]
      BY <1>3, Loads
    <2>2. CASE SnapshotDay(v)
      <3>1. /\ pc[Saver(v)] = "snapshot" /\ pc'[Saver(v)] = "snapshot_bytes"
            /\ snap'[v][dom[v]].day = day[dom[v]]
        BY <2>2, Loads
      <3> QED BY <2>1, <3>1 DEF Carried, HasRead, Same, counters, KeyPcs
    <2>3. CASE SnapshotBytes(v)
      <3>1. /\ pc[Saver(v)] = "snapshot_bytes" /\ pc'[Saver(v)] = "snapshot_connections"
            /\ snap'[v][dom[v]].day = snap[v][dom[v]].day
        BY <2>3, Loads
      <3> QED BY <2>1, <3>1 DEF Carried, HasRead, Same, counters, KeyPcs
    <2>4. CASE SnapshotConnections(v)
      <3>1. /\ pc[Saver(v)] = "snapshot_connections" /\ pc'[Saver(v)] = "next"
            /\ snap'[v][dom[v]].day = snap[v][dom[v]].day
            /\ snap'[v][dom[v]].connections = connections[dom[v]]
        BY <2>4, Loads
      <3> QED BY <2>1, <3>1 DEF Carried, HasRead, Same, counters, KeyPcs
    <2> QED BY <1>3, <2>2, <2>3, <2>4
  <1>4. CASE OpenTmp(v)
    <2>1. pc[Saver(v)] = "next" /\ pc'[Saver(v)] = "write"
      BY <1>4, SaverLabel
    <2>2. todo[v] = {} /\ UNCHANGED <<counters, snap>>
      BY <1>4 DEF OpenTmp
    <2> QED BY <2>1, <2>2 DEF Carried, HasRead, Same, counters
  <1>5. CASE WriteTmp(v)
    <2>1. pc[Saver(v)] = "write" /\ pc'[Saver(v)] = "rename"
      BY <1>5, SaverLabel
    <2>2. files'["tmp"] = snap[v]
      BY <1>5, WriterFiles
    <2>3. UNCHANGED counters
      BY <1>5 DEF WriteTmp
    <2> QED BY <2>1, <2>2, <2>3 DEF Carried, HasRead, Same, counters, KeyPcs, RefreshPcs
  <1>6. CASE Rename(v)
    <2>1. /\ pc[Saver(v)] = "rename" /\ pc'[Saver(v)] = "clean"
          /\ Text("tmp") /\ files'["state"] = files["tmp"]
      BY <1>6, SaverLabel, WriterFiles
    <2>2. UNCHANGED counters
      BY <1>6 DEF Rename
    <2> QED BY <2>1, <2>2 DEF Carried, HasRead, Same, Text, counters, KeyPcs, RefreshPcs
  <1>7. CASE ClearDirty(v) \/ PersistFails(v)
    <2>1. pc'[Saver(v)] = "idle"
      BY <1>7, SaverLabel
    <2> QED BY <2>1 DEF Carried, HasRead, KeyPcs, RefreshPcs
  <1> QED BY <1>1, <1>2, <1>3, <1>4, <1>5, <1>6, <1>7 DEF SaverStep

\* The mark is there until the counters are in the state file.
LEMMA FlushStep ==
  ASSUME SaversOK, DaysOK, FlushOK, [PersistNext]_vars
  PROVE  FlushOK'
  <1> USE DEF SaversOK
  <1> DEFINE F == /\ \A v \in Savers : pc'[Saver(v)] # "idle" => dirty'
                  /\ ~raced' => \A v \in Savers, d \in Domains : Carried(v, d)'
                  /\ ~raced' /\ ~dirty' => \A d \in Domains : (Saved(d) = Held(d))'
  <1> SUFFICES ASSUME phase' = "up" PROVE F
    BY DEF FlushOK
  <1>1. CASE Serve
    <2>1. /\ phase = "up" /\ (dirty => dirty')
          /\ \A v \in Savers : pc'[Saver(v)] = pc[Saver(v)] /\ dom'[v] = dom[v]
          /\ UNCHANGED <<todo, snap, files>>
      BY <1>1, ServeFrame
    <2>2. clock' = clock /\ (~raced' => ~raced /\ UNCHANGED counters)
      BY <1>1, TrafficFrame DEF Serve, PInv
    <2>3. ASSUME ~raced', NEW v \in Savers, NEW d \in Domains PROVE Carried(v, d)'
      <3>1. Carried(v, d)
        BY <2>1, <2>2, <2>3 DEF FlushOK
      <3> QED BY <2>1, <2>2, <2>3, <3>1 DEF Carried, HasRead, Same, Text, counters
    <2>4. ASSUME ~raced', ~dirty', NEW d \in Domains PROVE (Saved(d) = Held(d))'
      <3>1. Saved(d) = Held(d)
        BY <2>1, <2>2, <2>4 DEF FlushOK
      <3> QED BY <2>1, <2>2, <2>4, <3>1 DEF Saved, Held, counters
    <2> QED BY <2>1, <2>3, <2>4 DEF FlushOK
  <1>2. CASE NewDay
    <2>1. /\ phase = "up" /\ clock' = clock + 1
          /\ UNCHANGED <<day, bytes, connections, dirty, pc, dom, todo, snap, files, raced>>
      BY <1>2 DEF NewDay, Midnight
    <2>2. ASSUME NEW d \in Domains PROVE (Saved(d) = Held(d))'
      <3>1. clock \in Nat /\ day[d] \in Nat /\ day[d] <= clock
        BY LimiterAssumption DEF PInv, Inv, TypeOK, DaysOK
      <3>2. Held(d)' = 0
        BY <2>1, <3>1 DEF Held
      <3>3. Text("state") => files["state"][d].day \in Nat /\ files["state"][d].day <= clock
        BY TextType, LimiterAssumption
           DEF PInv, PersistedState, PersistedDomain, DaysOK, Files
      <3>4. Saved(d)' = 0
        BY <2>1, <3>1, <3>3 DEF Saved, Text
      <3> QED BY <3>2, <3>4
    <2>3. ASSUME ~raced', NEW v \in Savers, NEW d \in Domains PROVE Carried(v, d)'
      <3>1. Carried(v, d)
        BY <2>1, <2>3 DEF FlushOK
      <3> QED BY <2>1, <3>1 DEF Carried, HasRead, Same, Text
    <2> QED BY <2>1, <2>2, <2>3 DEF FlushOK
  <1>3. CASE UNCHANGED vars
    <2>1. UNCHANGED <<clock, day, connections, dirty, pc, dom, phase, todo, snap, files, raced>>
      BY <1>3 DEF vars, limiterVars, persistVars
    <2> QED BY <2>1 DEF FlushOK, Carried, HasRead, Same, Text, Saved, Held
  <1>4. CASE Tick
    <2>1. "periodic" \in Savers /\ phase = "up" /\ dirty /\ Begin("periodic")
      BY <1>4 DEF Tick
    <2>2. dirty' = dirty /\ pc'[Saver("periodic")] = "next" /\ todo'["periodic"] = Domains
      BY <2>1, SaverLabel DEF Begin, PInv, PersistTypeOK
    <2>3. ASSUME NEW v \in Savers, NEW d \in Domains PROVE Carried(v, d)'
      <3>1. CASE v = "periodic"
        BY <2>2, <3>1 DEF Carried, HasRead, KeyPcs, RefreshPcs
      <3>2. CASE v # "periodic"
        <4>1. pc[Saver(v)] = "idle"
          BY <2>1, <3>2, PersistenceAssumption DEF PhaseOK
        <4>2. pc'[Saver(v)] = "idle"
          BY <2>1, <3>2, <4>1, SaverFrame
        <4> QED BY <4>2 DEF Carried, HasRead, KeyPcs, RefreshPcs
      <3> QED BY <3>1, <3>2
    <2> QED BY <2>1, <2>2, <2>3
  <1>5. CASE Start
    <2>1. \A v \in Savers : pc'[Saver(v)] = "idle"
      BY <1>5 DEF Start, PhaseOK
    <2>2. \A v \in Savers, d \in Domains : Carried(v, d)'
      BY <2>1 DEF Carried, HasRead, KeyPcs, RefreshPcs
    <2>3. ASSUME NEW d \in Domains PROVE (Saved(d) = Held(d))'
      <3>1. UNCHANGED <<files, clock>>
        BY <1>5 DEF Start
      <3>2. /\ day'[d] = clock
            /\ connections'[d] = IF Text("state") /\ files["state"][d].day = clock
                                 THEN files["state"][d].connections ELSE 0
        BY <1>5, Restored
      <3> QED BY <3>1, <3>2 DEF Saved, Held, Text
    <2> QED BY <2>1, <2>2, <2>3
  <1>6. ASSUME NEW v \in Savers, SaverStep(v) \/ PersistFails(v) PROVE F
    <2>1. phase = "up" /\ clock' = clock /\ Solo
      BY <1>6, SaverFrame DEF Solo
    <2>2. \A u \in Savers : u # v => pc'[Saver(u)] = "idle"
      BY <1>6, <2>1, WriterFiles
    <2>3. dirty /\ raced' = raced
      <3>1. pc[Saver(v)] # "idle"
        BY <1>6, SaverRuns
      <3>2. raced' = raced
        BY <1>6 DEF SaverStep, PersistFails, SnapshotKey, SnapshotRefresh, SnapshotDay,
             SnapshotBytes, SnapshotConnections, Load, OpenTmp, WriteTmp, Rename, ClearDirty,
             persistVars
      <3> QED BY <2>1, <3>1, <3>2 DEF FlushOK
    <2>4. ASSUME ~raced', NEW u \in Savers, NEW d \in Domains PROVE Carried(u, d)'
      <3>1. CASE u = v
        <4>1. Carried(v, d)
          BY <2>1, <2>3, <2>4 DEF FlushOK
        <4> QED BY <1>6, <2>1, <3>1, <4>1, CarriedStep
      <3>2. CASE u # v
        BY <2>2, <3>2 DEF Carried, HasRead, KeyPcs, RefreshPcs
      <3> QED BY <3>1, <3>2
    <2>5. CASE ClearDirty(v)
      <3>1. pc[Saver(v)] = "clean" /\ pc'[Saver(v)] = "idle"
        BY <2>5, SaverLabel
      <3>2. UNCHANGED <<counters, files>>
        BY <2>5 DEF ClearDirty, persistVars
      <3>3. ASSUME ~raced', NEW d \in Domains PROVE (Saved(d) = Held(d))'
        <4>1. Carried(v, d)
          BY <2>1, <2>3, <3>3 DEF FlushOK
        <4>2. Text("state") /\ Same(d, files["state"][d])
          BY <3>1, <4>1 DEF Carried
        <4> QED BY <2>1, <3>2, <4>2 DEF Saved, Held, Same, Text, counters
      <3> QED BY <2>2, <2>4, <3>1, <3>3
    <2>6. CASE ~ClearDirty(v)
      <3>1. dirty' = dirty
        BY <1>6, <2>6 DEF SaverStep, PersistFails, SnapshotKey, SnapshotRefresh, Refresh,
             ReadClock, LoadDay, CasDay, ZeroBytes, ZeroConnections, SnapshotDay,
             SnapshotBytes, SnapshotConnections, Load, OpenTmp, WriteTmp, Rename
      <3> QED BY <2>3, <2>4, <3>1
    <2> QED BY <2>5, <2>6
  <1>7. ~Shutdown /\ ~Exit /\ ~Crash
    BY DEF Shutdown, Exit, Crash, Gone
  <1> QED BY <1>1, <1>2, <1>3, <1>4, <1>5, <1>6, <1>7 DEF PersistNext

\* A flush during which no counter moved leaves in the state file what memory holds,
\* or its mark: the rename comes before the mark is cleared, and a flush that fails, at
\* whatever step, keeps it for the next tick.
THEOREM FlushSaves == PersistSpec => []UnracedFlushSaves
  <1> DEFINE FInv == SaversOK /\ DaysOK /\ FlushOK
  <1>1. PersistInit => FInv
    <2> SUFFICES ASSUME PersistInit PROVE FInv
      OBVIOUS
    <2>1. SaversOK /\ DaysOK
      BY SaversInit, DaysInit
    <2>2. \A v \in Savers : pc[Saver(v)] = "idle"
      BY SaverFacts DEF PersistInit, Init
    <2>3. \A v \in Savers, d \in Domains : Carried(v, d)
      BY <2>2, IdleCarried
    <2>4. \A d \in Domains : Saved(d) = Held(d)
      BY DEF PersistInit, Init, Saved, Held
    <2> QED BY <2>1, <2>2, <2>3, <2>4 DEF FlushOK
  <1>2. FInv /\ [PersistNext]_vars => FInv'
    BY SaversStep, DaysStep, FlushStep DEF SaversOK
  <1>3. FInv => UnracedFlushSaves
    BY DEF FlushOK, UnracedFlushSaves, Quiet
  <1> QED BY <1>1, <1>2, <1>3, PTL DEF PersistSpec

------------------------------------------------------------------------------
(* One day: what is flushed stays, and a graceful stop saves *)

\* On one day refresh_if_new_day never finds a new day.
LEMMA OneDayStep ==
  ASSUME LastDay = 0, PInv, OneDayOK, [PersistNext]_vars
  PROVE  OneDayOK'
  <1> DEFINE Bad == {"cas", "zero_bytes", "zero_connections"}
  <1>0. pc \in [Tasks -> Pcs]
    BY DEF PInv, Inv, TypeOK
  <1>1. CASE UNCHANGED pc
    BY <1>1 DEF OneDayOK
  <1>2. ASSUME NEW t \in Tasks, NEW l, l \notin Bad, pc' = [pc EXCEPT ![t] = l]
        PROVE  OneDayOK'
    BY <1>0, <1>2 DEF OneDayOK
  <1>3. ASSUME NEW t \in Tasks, Refresh(t) PROVE OneDayOK'
    <2>1. /\ pc[t] \in {"today", "load"}
          /\ ReadClock(t) \/ LoadDay(t)
      BY <1>3 DEF OneDayOK, Refresh, ReadClock, LoadDay, CasDay, ZeroBytes, ZeroConnections
    <2>2. Key(t) \in Domains
      <3>1. \/ t \in ConnTasks /\ ConnAt(t, pc[t])
            \/ t \in CopyTasks /\ CopyAt(t, pc[t])
            \/ t \in SaveTasks /\ SaveAt(t, pc[t])
        BY DEF PInv, Inv, ControlOK, Tasks
      <3> QED BY <2>1, <3>1 DEF ConnAt, CopyAt, SaveAt
    <2>3. day[Key(t)] = 0 /\ today[t] = 0
      BY <2>2 DEF PInv, Inv, TypeOK
    <2>4. \E l : l \notin Bad /\ pc' = [pc EXCEPT ![t] = l]
      <3>1. CASE ReadClock(t)
        BY <3>1 DEF ReadClock, Goto
      <3>2. CASE LoadDay(t)
        BY <2>3, <3>2 DEF LoadDay, Goto, AfterRefresh
      <3> QED BY <2>1, <3>1, <3>2
    <2> QED BY <1>2, <2>4
  <1>4. CASE Serve
    <2>1. ASSUME NEW t \in ConnTasks, ConnStep(t) PROVE OneDayOK'
      <3>1. t \in Tasks
        BY DEF Tasks
      <3>2. ASSUME ~Refresh(t)
            PROVE  UNCHANGED pc \/ \E l : l \notin Bad /\ pc' = [pc EXCEPT ![t] = l]
        BY <2>1, <3>2 DEF ConnStep, CheckBandwidth, LoadConnections, Increment, MarkAdmitted,
                          Return, Goto
      <3> QED BY <1>1, <1>2, <1>3, <3>1, <3>2
    <2>2. ASSUME NEW t \in CopyTasks, CopyStep(t) PROVE OneDayOK'
      <3>1. t \in Tasks
        BY DEF Tasks
      <3>2. ASSUME ~Refresh(t) PROVE \E l : l \notin Bad /\ pc' = [pc EXCEPT ![t] = l]
        BY <2>2, <3>2 DEF CopyStep, AddBytes, MarkAdded, Return, Goto
      <3> QED BY <1>2, <1>3, <3>1, <3>2
    <2>3. ASSUME NEW s \in Sessions, SessionStep(s) PROVE OneDayOK'
      <3>1. CASE Splice(s) \/ Join(s)
        BY <3>1 DEF Splice, Join, OneDayOK
      <3>2. Conn(s) \in Tasks /\ Copies(s) \subseteq Tasks
        BY TaskFacts DEF Tasks
      <3>3. CASE ~(Splice(s) \/ Join(s))
        <4>1. \E t \in {Conn(s)} \cup Copies(s) : \E l : l \notin Bad /\ pc' = [pc EXCEPT ![t] = l]
          BY <2>3, <3>3 DEF SessionStep, CheckConnection, Abandon, AccountBytes, EndOfStream, Goto
        <4> QED BY <1>2, <3>2, <4>1
      <3> QED BY <3>1, <3>3
    <2> QED BY <1>4, <2>1, <2>2, <2>3 DEF Serve, Traffic
  <1>5. CASE Exit \/ Crash
    BY <1>5 DEF Exit, Crash, Gone, OneDayOK
  <1>6. ASSUME NEW v \in Savers, SaverStep(v) \/ PersistFails(v) \/ Begin(v) PROVE OneDayOK'
    <2>1. Saver(v) \in Tasks
      BY SaverFacts
    <2>2. CASE SnapshotRefresh(v)
      BY <1>3, <2>1, <2>2 DEF SnapshotRefresh
    <2>3. CASE ~SnapshotRefresh(v)
      <3>1. \E l : l \notin Bad /\ pc' = [pc EXCEPT ![Saver(v)] = l]
        BY <1>6, <2>3 DEF SaverStep, PersistFails, Begin, SnapshotKey, SnapshotDay,
             SnapshotBytes, SnapshotConnections, Load, OpenTmp, WriteTmp, Rename, ClearDirty,
             Goto
      <3> QED BY <1>2, <2>1, <3>1
    <2> QED BY <2>2, <2>3
  <1>7. CASE Shutdown
    BY <1>2, <1>7, SaverFacts DEF Shutdown, Goto
  <1>8. CASE NewDay \/ Start \/ UNCHANGED vars
    BY <1>1, <1>8 DEF NewDay, Midnight, Start, vars, limiterVars
  <1> QED BY <1>4, <1>5, <1>6, <1>7, <1>8 DEF PersistNext, Tick

\* On one day sessions only move the connection counters up, and savers leave them alone.
LEMMA OneDayCounters ==
  ASSUME LastDay = 0, PInv, OneDayOK, NEW d \in Domains
  PROVE  /\ Serve => connections'[d] \in Nat /\ connections[d] <= connections'[d]
         /\ \A v \in Savers : SaverStep(v) \/ PersistFails(v) => connections' = connections
         /\ ~NewDay /\ clock = 0
         /\ \A f \in Files : Text(f) => files[f][d].day = 0 /\ files[f][d].connections \in Nat
         /\ Saved(d) \in Nat /\ connections[d] \in Nat
  <1>0. connections[d] \in Nat /\ clock = 0 /\ clock \in 0..0
    BY DEF PInv, Inv, TypeOK
  <1>1. ASSUME Serve PROVE connections'[d] \in Nat /\ connections[d] <= connections'[d]
    <2>1. CASE UNCHANGED connections
      BY <1>0, <2>1
    <2>2. ~\E t \in Tasks : ZeroConnections(t)
      BY DEF OneDayOK, ZeroConnections
    <2>3. ASSUME NEW t \in ConnTasks, Increment(t)
          PROVE  connections'[d] \in {connections[d], connections[d] + 1}
      BY <2>3 DEF Increment, PInv, Inv, TypeOK
    <2>4. \/ UNCHANGED connections
          \/ \E t \in Tasks : ZeroConnections(t)
          \/ \E t \in ConnTasks : Increment(t)
      BY <1>1, ConnectionMoves DEF Serve, Next
    <2> QED BY <1>0, <2>1, <2>2, <2>3, <2>4
  <1>2. ASSUME NEW v \in Savers, SaverStep(v) \/ PersistFails(v) PROVE connections' = connections
    <2>1. ~ZeroConnections(Saver(v))
      BY SaverFacts DEF OneDayOK, ZeroConnections
    <2> QED BY <1>2, <2>1 DEF SaverStep, PersistFails, SnapshotKey, SnapshotRefresh, Refresh,
               ReadClock, LoadDay, CasDay, ZeroBytes, SnapshotDay, SnapshotBytes,
               SnapshotConnections, Load, OpenTmp, WriteTmp, Rename, ClearDirty, counters
  <1>3. ~NewDay
    BY <1>0 DEF NewDay, Midnight
  <1>4. \A f \in Files : Text(f) => files[f][d].day = 0 /\ files[f][d].connections \in Nat
    BY TextType DEF PInv, PersistedState, PersistedDomain
  <1>5. Saved(d) \in Nat
    BY <1>4 DEF Saved, Text, Files
  <1> QED BY <1>0, <1>1, <1>2, <1>3, <1>4, <1>5

\* A saver that runs alone carries at least lo of key d, up to the state file.
LEMMA BetweenStep ==
  ASSUME LastDay = 0, PInv, OneDayOK, WriterOK, Solo, NEW v \in Savers, NEW d \in Domains,
         NEW lo \in Nat, lo <= connections[d], Between(v, d, lo),
         SaverStep(v) \/ PersistFails(v)
  PROVE  /\ ~Rename(v) => Between(v, d, lo)' /\ Saved(d)' = Saved(d)
         /\ Rename(v) => lo <= Saved(d)' /\ Saved(d)' <= connections[d]
         /\ connections' = connections
  <1>1. /\ connections' = connections /\ connections[d] \in Nat /\ clock = 0
        /\ \A f \in Files : Text(f) => files[f][d].day = 0 /\ files[f][d].connections \in Nat
    BY OneDayCounters
  <1>2. clock' = clock
    BY SaverFrame
  <1>3. ASSUME ~Rename(v) PROVE Saved(d)' = Saved(d)
    <2>1. files'["state"] = files["state"]
      BY <1>3, WriterFiles
    <2> QED BY <1>2, <2>1 DEF Saved
  <1>4. ASSUME Rename(v) PROVE lo <= Saved(d)' /\ Saved(d)' <= connections[d]
    <2>1. pc[Saver(v)] = "rename" /\ Text("tmp") /\ files'["state"] = files["tmp"]
      BY <1>4, SaverLabel, WriterFiles
    <2>2. Saved(d)' = files["tmp"][d].connections
      BY <1>1, <1>2, <2>1 DEF Saved, Text, Files
    <2> QED BY <2>1, <2>2 DEF Between
  <1>5. ASSUME NEW k \in Domains, SnapshotKey(v, k) PROVE Between(v, d, lo)'
    <2>1. pc[Saver(v)] = "next" /\ pc'[Saver(v)] = "today"
      BY <1>5, SaverLabel
    <2>2. snap' = snap /\ dom'[v] = k /\ todo'[v] = todo[v] \ {k}
      BY <1>5 DEF SnapshotKey, PInv, PersistTypeOK, Inv, TypeOK
    <2>3. HasRead(v, d)' => HasRead(v, d)
      BY <2>1, <2>2 DEF HasRead
    <2> QED BY <1>1, <2>1, <2>2, <2>3 DEF Between
  <1>6. ASSUME SnapshotRefresh(v) PROVE Between(v, d, lo)'
    <2>1. /\ pc[Saver(v)] \in RefreshPcs /\ pc'[Saver(v)] \in RefreshPcs \cup {"snapshot"}
          /\ UNCHANGED <<todo, snap, dom>>
      BY <1>6, SaverLabel DEF SnapshotRefresh, persistVars, Refresh, ReadClock, LoadDay,
                              CasDay, ZeroBytes, ZeroConnections
    <2>2. HasRead(v, d)' => HasRead(v, d)
      BY <2>1 DEF HasRead, KeyPcs, RefreshPcs
    <2> QED BY <1>1, <2>1, <2>2 DEF Between, RefreshPcs
  <1>7. ASSUME SnapshotDay(v) \/ SnapshotBytes(v) \/ SnapshotConnections(v) PROVE Between(v, d, lo)'
    <2>1. /\ UNCHANGED <<todo, dom>>
          /\ d # dom[v] => snap'[v][d] = snap[v][d]
      BY <1>7, Loads
    <2>2. ASSUME SnapshotDay(v) \/ SnapshotBytes(v) PROVE Between(v, d, lo)'
      <3>1. pc[Saver(v)] \in KeyPcs /\ pc'[Saver(v)] \in {"snapshot_bytes", "snapshot_connections"}
        BY <2>2, Loads DEF KeyPcs
      <3> QED BY <1>1, <2>1, <3>1 DEF Between, HasRead
    <2>3. ASSUME SnapshotConnections(v) PROVE Between(v, d, lo)'
      <3>1. /\ pc[Saver(v)] = "snapshot_connections" /\ pc'[Saver(v)] = "next"
            /\ snap'[v][dom[v]].connections = connections[dom[v]]
        BY <2>3, Loads
      <3> QED BY <1>1, <2>1, <3>1 DEF Between, HasRead, KeyPcs
    <2> QED BY <1>7, <2>2, <2>3
  <1>8. ASSUME OpenTmp(v) PROVE Between(v, d, lo)'
    <2>1. pc[Saver(v)] = "next" /\ pc'[Saver(v)] = "write"
      BY <1>8, SaverLabel
    <2>2. todo[v] = {} /\ snap' = snap
      BY <1>8 DEF OpenTmp
    <2> QED BY <1>1, <2>1, <2>2 DEF Between, HasRead
  <1>9. ASSUME WriteTmp(v) PROVE Between(v, d, lo)'
    <2>1. pc[Saver(v)] = "write" /\ pc'[Saver(v)] = "rename" /\ files'["tmp"] = snap[v]
      BY <1>9, SaverLabel, WriterFiles
    <2> QED BY <1>1, <2>1 DEF Between, HasRead, KeyPcs, RefreshPcs
  <1>10. ASSUME ClearDirty(v) \/ PersistFails(v) PROVE Between(v, d, lo)'
    <2>1. pc'[Saver(v)] = "idle"
      BY <1>10, SaverLabel
    <2>2. ~HasRead(v, d)'
      BY <2>1 DEF HasRead, KeyPcs, RefreshPcs
    <2> QED BY <2>1, <2>2 DEF Between
  <1>11. ASSUME ~Rename(v) PROVE Between(v, d, lo)'
    BY <1>5, <1>6, <1>7, <1>8, <1>9, <1>10, <1>11 DEF SaverStep
  <1> QED BY <1>1, <1>3, <1>4, <1>11

\* While the service is up, what is on disk and on its way to it stays below memory.
LEMMA KeptStep ==
  ASSUME LastDay = 0, SaversOK, OneDayOK, KeptOK, [PersistNext]_vars
  PROVE  /\ KeptOK'
         /\ phase = "up" => \A d \in Domains : Saved(d) <= Saved(d)'
  <1> USE DEF SaversOK
  <1> SUFFICES ASSUME NEW d \in Domains
               PROVE  /\ phase' = "up" => /\ (Saved(d) <= connections[d])'
                                          /\ \A v \in Savers : Between(v, d, Saved(d))'
                      /\ phase = "up" => Saved(d) <= Saved(d)'
    BY DEF KeptOK
  <1> DEFINE K == /\ phase' = "up" => /\ (Saved(d) <= connections[d])'
                                      /\ \A v \in Savers : Between(v, d, Saved(d))'
                  /\ phase = "up" => Saved(d) <= Saved(d)'
  <1>0. Saved(d) \in Nat /\ connections[d] \in Nat /\ ~NewDay
    BY OneDayCounters
  <1>1. ASSUME NEW v, pc'[Saver(v)] \notin {"write", "next", "rename"} \cup KeyPcs
        PROVE  Between(v, d, Saved(d))'
    BY <1>1 DEF Between, HasRead
  <1>2. CASE Serve
    <2>1. /\ \A v \in Savers : pc'[Saver(v)] = pc[Saver(v)] /\ dom'[v] = dom[v]
          /\ UNCHANGED <<phase, todo, snap, files>>
      BY <1>2, ServeFrame
    <2>2. clock' = clock /\ Saved(d)' = Saved(d)
      BY <1>2, <2>1, TrafficFrame DEF Serve, PInv, Saved
    <2>3. connections'[d] \in Nat /\ connections[d] <= connections'[d]
      BY <1>2, OneDayCounters
    <2>4. ASSUME phase = "up", NEW v \in Savers PROVE Between(v, d, Saved(d))'
      <3>1. Between(v, d, Saved(d))
        BY <2>4 DEF KeptOK
      <3>2. HasRead(v, d)' => HasRead(v, d)
        BY <2>1 DEF HasRead
      <3>3. snap[v][d].connections \in Nat
        BY DEF PInv, PersistTypeOK, PersistedState, PersistedDomain
      <3>4. pc[Saver(v)] = "rename" => files["tmp"][d].connections \in Nat
        <4>1. pc[Saver(v)] = "rename" => Text("tmp")
          BY <2>4 DEF WriterOK, Solo
        <4> QED BY <4>1, OneDayCounters DEF Files
      <3> QED BY <1>0, <2>1, <2>2, <2>3, <3>1, <3>2, <3>3, <3>4 DEF Between
    <2> QED BY <1>0, <2>1, <2>2, <2>3, <2>4 DEF KeptOK
  <1>3. CASE UNCHANGED vars
    <2>1. UNCHANGED <<clock, connections, pc, dom, phase, todo, snap, files>>
      BY <1>3 DEF vars, limiterVars, persistVars
    <2> QED BY <1>0, <2>1 DEF KeptOK, Between, HasRead, Saved
  <1>4. CASE Tick
    <2>1. "periodic" \in Savers /\ phase = "up" /\ Begin("periodic")
      BY <1>4 DEF Tick
    <2>2. pc'[Saver("periodic")] = "next" /\ todo'["periodic"] = Domains
      BY <2>1, SaverLabel DEF Begin, PInv, PersistTypeOK
    <2>3. UNCHANGED <<clock, connections, files>> /\ Saved(d)' = Saved(d)
      BY <2>1 DEF Begin, counters, Saved
    <2>4. ASSUME NEW v \in Savers PROVE Between(v, d, Saved(d))'
      <3>1. CASE v = "periodic"
        BY <2>2, <3>1 DEF Between, HasRead, KeyPcs, RefreshPcs
      <3>2. CASE v # "periodic"
        <4>1. pc[Saver(v)] = "idle"
          BY <2>1, <3>2, PersistenceAssumption DEF PhaseOK
        <4>2. pc'[Saver(v)] = "idle"
          BY <2>1, <3>2, <4>1, SaverFrame
        <4> QED BY <1>1, <4>2 DEF KeyPcs, RefreshPcs
      <3> QED BY <3>1, <3>2
    <2> QED BY <1>0, <2>1, <2>3, <2>4 DEF KeptOK
  <1>5. CASE Shutdown \/ Exit \/ Crash
    <2>1. phase' # "up" /\ UNCHANGED <<clock, files>>
      BY <1>5 DEF Shutdown, Exit, Crash, Gone
    <2>2. Saved(d)' = Saved(d)
      BY <2>1 DEF Saved
    <2> QED BY <1>0, <2>1, <2>2
  <1>6. CASE Start
    <2>1. phase = "down" /\ UNCHANGED <<clock, files>> /\ Saved(d)' = Saved(d)
      BY <1>6 DEF Start, Saved
    <2>2. \A v \in Savers : pc'[Saver(v)] = "idle"
      BY <1>6 DEF Start, PhaseOK
    <2>3. phase' = "up" => connections'[d] = Saved(d)
      BY <1>6, Restored DEF Saved, Text
    <2>4. \A v \in Savers : Between(v, d, Saved(d))'
      BY <1>1, <2>2 DEF KeyPcs, RefreshPcs
    <2> QED BY <1>0, <2>1, <2>3, <2>4
  <1>7. ASSUME NEW v \in Savers, SaverStep(v) \/ PersistFails(v) PROVE K
    <2>1. phase' = phase
      BY <1>7, SaverFrame
    <2>2. SUFFICES ASSUME phase = "up"
                   PROVE  /\ (Saved(d) <= connections[d])'
                          /\ \A u \in Savers : Between(u, d, Saved(d))'
                          /\ Saved(d) <= Saved(d)'
      BY <2>1
    <2>3. Solo /\ Saved(d) <= connections[d] /\ Between(v, d, Saved(d))
      BY <2>2 DEF Solo, KeptOK
    <2>4. ASSUME NEW lo \in Nat, lo = Saved(d)
          PROVE  /\ ~Rename(v) => Between(v, d, lo)' /\ Saved(d)' = Saved(d)
                 /\ Rename(v) => lo <= Saved(d)' /\ Saved(d)' <= connections[d]
                 /\ connections' = connections
      BY <1>7, <2>3, <2>4, BetweenStep
    <2>5. /\ ~Rename(v) => Saved(d)' = Saved(d)
          /\ Rename(v) => Saved(d) <= Saved(d)' /\ Saved(d)' <= connections[d]
          /\ connections' = connections
      BY <1>0, <2>4
    <2>6. Between(v, d, Saved(d))'
      <3>1. CASE Rename(v)
        <4>1. pc'[Saver(v)] = "clean"
          BY <1>7, <2>3, <3>1, WriterFiles
        <4> QED BY <1>1, <4>1 DEF KeyPcs, RefreshPcs
      <3>2. CASE ~Rename(v)
        BY <1>0, <2>4, <2>5, <3>2 DEF Between
      <3> QED BY <3>1, <3>2
    <2>7. ASSUME NEW u \in Savers, u # v PROVE Between(u, d, Saved(d))'
      <3>1. pc'[Saver(u)] = "idle"
        BY <1>7, <2>3, <2>7, WriterFiles
      <3> QED BY <1>1, <3>1 DEF KeyPcs, RefreshPcs
    <2> QED BY <1>0, <2>3, <2>5, <2>6, <2>7
  <1> QED BY <1>0, <1>2, <1>3, <1>4, <1>5, <1>6, <1>7 DEF PersistNext

\* On one day, while the service is up, the usage in the state file never goes down:
\* what one flush has saved survives crashes, restarts and every later flush.
THEOREM FlushedSurvives ==
  ASSUME LastDay = 0
  PROVE  PersistSpec => FlushedCountsSurvive
  <1> DEFINE KInv == SaversOK /\ OneDayOK /\ KeptOK
             A == clock' = clock /\ phase = "up" => \A d \in Domains : Saved(d)' >= Saved(d)
  <1>1. PersistInit => KInv
    <2> SUFFICES ASSUME PersistInit PROVE KInv
      OBVIOUS
    <2>1. SaversOK
      BY SaversInit
    <2>2. \A t \in Tasks : pc[t] = "idle"
      BY DEF PersistInit, Init
    <2>3. \A v \in Savers, d \in Domains : Between(v, d, Saved(d))
      BY <2>2, SaverFacts DEF Between, HasRead, KeyPcs, RefreshPcs
    <2>4. \A d \in Domains : Saved(d) = 0 /\ connections[d] = 0
      BY DEF PersistInit, Init, Saved
    <2> QED BY <2>1, <2>2, <2>3, <2>4 DEF OneDayOK, KeptOK
  <1>2. KInv /\ [PersistNext]_vars => KInv'
    BY SaversStep, OneDayStep, KeptStep DEF SaversOK
  <1>3. KInv /\ KInv' /\ [PersistNext]_vars => [A]_vars
    <2> SUFFICES ASSUME KInv, KInv', [PersistNext]_vars, phase = "up", NEW d \in Domains
                 PROVE  Saved(d)' >= Saved(d)
      OBVIOUS
    <2>1. Saved(d) <= Saved(d)'
      BY KeptStep
    <2>2. Saved(d) \in Nat
      BY OneDayCounters DEF SaversOK
    <2>3. Saved(d)' \in Nat
      <3>1. \A f \in Files : Text(f)' => files'[f][d].connections \in Nat
        BY TextType DEF SaversOK, PInv, PersistTypeOK, Text, Files, PersistedState, PersistedDomain
      <3> QED BY <3>1 DEF Saved, Text, Files
    <2> QED BY <2>1, <2>2, <2>3
  <1> QED BY <1>1, <1>2, <1>3, PTL DEF PersistSpec, FlushedCountsSurvive

\* The final persist carries what was counted before the stop.
LEMMA DueStep ==
  ASSUME LastDay = 0, SaversOK, OneDayOK, DueOK, [PersistNext]_vars
  PROVE  DueOK'
  <1> USE DEF SaversOK
  <1> DEFINE D == /\ \A v \in Savers : v # "final" => pc'[Saver(v)] = "idle"
                  /\ \A d \in Domains :
                       /\ (due[d] <= connections[d])'
                       /\ Between("final", d, due[d])'
                       /\ pc'[Saver("final")] \in {"clean", "idle"} => (due[d] <= Saved(d))'
  <1> SUFFICES ASSUME phase' = "stopping", due' # NoDue PROVE D
    BY DEF DueOK
  <1>0. /\ due \in [Domains -> Nat]
        /\ \A d \in Domains : Saved(d) \in Nat /\ connections[d] \in Nat
    BY OneDayCounters DEF PInv, PersistTypeOK
  <1>1. CASE Serve \/ UNCHANGED vars
    <2>1. /\ \A v \in Savers : pc'[Saver(v)] = pc[Saver(v)] /\ dom'[v] = dom[v]
          /\ UNCHANGED <<phase, todo, snap, files, due>>
      BY <1>1, ServeFrame
    <2>2. "final" \in Savers /\ phase = "stopping" /\ due # NoDue
      BY <2>1 DEF PhaseOK
    <2>3. clock' = clock
      BY <1>1, TrafficFrame DEF Serve, PInv, vars, limiterVars
    <2>4. ASSUME NEW d \in Domains
          PROVE  connections'[d] \in Nat /\ connections[d] <= connections'[d]
      <3>1. CASE Serve
        BY <3>1, OneDayCounters
      <3>2. CASE UNCHANGED vars
        BY <1>0, <3>2 DEF vars, limiterVars
      <3> QED BY <1>1, <3>1, <3>2
    <2>5. ASSUME NEW d \in Domains
          PROVE  /\ (due[d] <= connections[d])' /\ Between("final", d, due[d])'
                 /\ pc'[Saver("final")] \in {"clean", "idle"} => (due[d] <= Saved(d))'
      <3>1. /\ due[d] <= connections[d] /\ Between("final", d, due[d])
            /\ pc[Saver("final")] \in {"clean", "idle"} => due[d] <= Saved(d)
        BY <2>2 DEF DueOK
      <3>2. HasRead("final", d)' => HasRead("final", d)
        BY <2>1, <2>2 DEF HasRead
      <3>3. snap["final"][d].connections \in Nat
        BY <2>2 DEF PInv, PersistTypeOK, PersistedState, PersistedDomain
      <3>4. pc[Saver("final")] = "rename" => files["tmp"][d].connections \in Nat
        <4>1. pc[Saver("final")] = "rename" => Text("tmp")
          BY <2>2 DEF WriterOK, Solo
        <4> QED BY <4>1, OneDayCounters DEF Files
      <3>5. (due[d] <= connections[d])'
        BY <1>0, <2>1, <2>4, <3>1
      <3>6. Saved(d)' = Saved(d)
        BY <2>1, <2>3 DEF Saved
      <3>7. Between("final", d, due[d])'
        BY <1>0, <2>1, <2>2, <2>4, <3>1, <3>2, <3>3, <3>4 DEF Between
      <3> QED BY <2>1, <2>2, <3>1, <3>5, <3>6, <3>7
    <2>6. \A v \in Savers : v # "final" => pc'[Saver(v)] = "idle"
      BY <2>1, <2>2 DEF DueOK
    <2> QED BY <2>5, <2>6
  <1>2. CASE Shutdown
    <2>1. /\ "final" \in Savers /\ Goto(Saver("final"), "next") /\ UNCHANGED <<connections, dom>>
          /\ todo' = [todo EXCEPT !["final"] = Domains]
          /\ due' = connections
          /\ "periodic" \notin Savers \/ pc[Saver("periodic")] = "idle"
      BY <1>2 DEF Shutdown, counters
    <2>2. SaveAt(Saver("final"), "next")
      BY <2>1, SaverLabels DEF PInv
    <2>3. pc'[Saver("final")] = "next" /\ \A t \in Tasks : t # Saver("final") => pc'[t] = pc[t]
      BY <2>1, <2>2, SaverMove DEF PInv
    <2>4. todo'["final"] = Domains
      BY <2>1 DEF PInv, PersistTypeOK
    <2>5. ASSUME NEW v \in Savers, v # "final" PROVE pc'[Saver(v)] = "idle"
      <3>1. v = "periodic"
        BY <2>5, PersistenceAssumption
      <3>2. Saver(v) \in Tasks /\ Saver(v) # Saver("final")
        BY <2>1, <2>5, SaverFacts
      <3> QED BY <2>1, <2>3, <3>1, <3>2
    <2>6. \A d \in Domains : Between("final", d, due[d])'
      BY <2>3, <2>4 DEF Between, HasRead, KeyPcs, RefreshPcs
    <2> QED BY <1>0, <2>1, <2>3, <2>5, <2>6
  <1>3. ASSUME NEW v \in Savers, SaverStep(v) \/ PersistFails(v) PROVE D
    <2>1. phase = "stopping" /\ clock' = clock
      BY <1>3, SaverFrame
    <2>2. due' = due /\ (PersistFails(v) => v # "final")
      BY <1>3 DEF SaverStep, PersistFails, SnapshotKey, SnapshotRefresh, SnapshotDay,
             SnapshotBytes, SnapshotConnections, Load, OpenTmp, WriteTmp, Rename, ClearDirty,
             persistVars
    <2>3. v = "final" /\ pc[Saver(v)] # "idle"
      BY <1>3, <2>1, <2>2, SaverRuns DEF DueOK
    <2>4. Solo /\ \A u \in Savers : u # "final" => pc'[Saver(u)] = "idle"
      BY <1>3, <2>2, <2>3, WriterFiles DEF Solo
    <2>5. ASSUME NEW d \in Domains
          PROVE  /\ (due[d] <= connections[d])' /\ Between("final", d, due[d])'
                 /\ pc'[Saver("final")] \in {"clean", "idle"} => (due[d] <= Saved(d))'
      <3>1. /\ due[d] <= connections[d] /\ Between("final", d, due[d]) /\ due[d] \in Nat
            /\ pc[Saver("final")] \in {"clean", "idle"} => due[d] <= Saved(d)
        BY <1>0, <2>1, <2>2 DEF DueOK
      <3>2. ASSUME NEW lo \in Nat, lo = due[d]
            PROVE  /\ ~Rename(v) => Between(v, d, lo)' /\ Saved(d)' = Saved(d)
                   /\ Rename(v) => lo <= Saved(d)' /\ Saved(d)' <= connections[d]
                   /\ connections' = connections
        BY <1>3, <2>3, <2>4, <3>1, <3>2, BetweenStep
      <3>3. /\ ~Rename(v) => Saved(d)' = Saved(d)
            /\ Rename(v) => due[d] <= Saved(d)'
            /\ connections' = connections
        BY <3>1, <3>2
      <3>4. Between("final", d, due[d])'
        <4>1. CASE Rename(v)
          <5>1. pc'[Saver("final")] = "clean"
            BY <1>3, <2>3, <2>4, <4>1, WriterFiles
          <5> QED BY <5>1 DEF Between, HasRead, KeyPcs, RefreshPcs
        <4>2. CASE ~Rename(v)
          BY <2>2, <2>3, <3>1, <3>2, <4>2 DEF Between
        <4> QED BY <4>1, <4>2
      <3>5. ASSUME pc'[Saver("final")] \in {"clean", "idle"} PROVE (due[d] <= Saved(d))'
        <4>1. Rename(v) \/ ClearDirty(v)
          <5>1. ~(SnapshotDay(v) \/ SnapshotBytes(v) \/ SnapshotConnections(v))
            BY <2>3, <3>5, Loads
          <5> QED BY <1>3, <2>2, <2>3, <3>5, <5>1, SaverLabel DEF SaverStep, RefreshPcs
        <4>2. CASE Rename(v)
          BY <2>2, <3>3, <4>2
        <4>3. CASE ~Rename(v)
          <5>1. pc[Saver("final")] = "clean"
            BY <2>3, <4>1, <4>3, SaverLabel
          <5> QED BY <2>2, <3>1, <3>3, <4>3, <5>1
        <4> QED BY <4>2, <4>3
      <3> QED BY <2>2, <3>1, <3>3, <3>4, <3>5
    <2> QED BY <2>4, <2>5
  <1>4. ~Tick /\ ~Exit /\ ~Crash /\ ~Start
    BY DEF Tick, Begin, Exit, Crash, Gone, Start
  <1>5. ~NewDay
    BY DEF NewDay, Midnight, PInv, Inv, TypeOK
  <1> QED BY <1>1, <1>2, <1>3, <1>4, <1>5 DEF PersistNext

\* On one day, a graceful stop whose final persist succeeds, with no flush already
\* running, leaves every connection counted before the stop in the state file.
THEOREM GracefulStopHolds ==
  ASSUME LastDay = 0
  PROVE  PersistSpec => GracefulStopSaves
  <1> DEFINE DInv == SaversOK /\ OneDayOK /\ DueOK
             A == Exit => \A d \in Domains : due[d] <= Saved(d)
  <1>1. PersistInit => DInv
    BY SaversInit DEF PersistInit, Init, OneDayOK, DueOK
  <1>2. DInv /\ [PersistNext]_vars => DInv'
    BY SaversStep, OneDayStep, DueStep DEF SaversOK
  <1>3. DInv => A
    <2> SUFFICES ASSUME DInv, Exit, NEW d \in Domains PROVE due[d] <= Saved(d)
      OBVIOUS
    <2>1. phase = "stopping" /\ \A v \in Savers : pc[Saver(v)] = "idle"
      BY DEF Exit
    <2>2. "final" \in Savers /\ Saved(d) \in Nat
      BY <2>1, OneDayCounters DEF SaversOK, PhaseOK
    <2>3. CASE due = NoDue
      BY <2>2, <2>3 DEF NoDue
    <2>4. CASE due # NoDue
      BY <2>1, <2>2, <2>4 DEF DueOK
    <2> QED BY <2>3, <2>4
  <1> QED BY <1>1, <1>2, <1>3, PTL DEF PersistSpec, GracefulStopSaves
=============================================================================

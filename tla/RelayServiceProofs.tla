-------------------------- MODULE RelayServiceProofs --------------------------
(***************************************************************************)
(* Proofs about RelayService, for every number of listeners, clients and   *)
(* permits: permits are conserved, the service implements SessionGate, the *)
(* session metrics are exact, and a listener accepts at most one           *)
(* connection after the signal to stop.                                    *)
(***************************************************************************)
EXTENDS RelayService, FiniteSetTheorems, TLAPS

------------------------------------------------------------------------------
(* The inductive invariant *)

\* The queue of the semaphore: listeners wait in it once, all of them are
\* waiting, and a listener that has been given a permit has left it.
Queue(w, g, at) ==
  /\ \A i \in 1..Len(w) : at[w[i]] = "waiting" /\ w[i] \notin g
  /\ \A i, j \in 1..Len(w) : w[i] = w[j] => i = j
  /\ \A l \in g : at[l] = "waiting"
QueueOK == Queue(waiters, granted, lpc)

\* A connection in a backlog is in one place of one backlog and has no session.
BacklogOK ==
  /\ \A l \in Listeners, i \in Nat :
       i \in 1..Len(backlog[l]) => stage[backlog[l][i]] = "backlog"
  /\ \A l, m \in Listeners, i, j \in Nat :
       /\ i \in 1..Len(backlog[l]) /\ j \in 1..Len(backlog[m])
       /\ backlog[l][i] = backlog[m][j]
       => l = m /\ i = j

Inv == TypeOK /\ QueueOK /\ BacklogOK /\ SlotsConserved

------------------------------------------------------------------------------
(* Counting *)

\* Adding and removing one element of a finite set.
LEMMA CountOne ==
  ASSUME NEW U, IsFiniteSet(U), NEW S \in SUBSET U
  PROVE  /\ IsFiniteSet(S) /\ Cardinality(S) \in Nat
         /\ \A x \in U : x \notin S => Cardinality(S \cup {x}) = Cardinality(S) + 1
         /\ \A x \in U : x \in S => Cardinality(S \ {x}) = Cardinality(S) - 1
  <1>1. IsFiniteSet(S)
    BY FS_Subset
  <1>2. Cardinality(S) \in Nat
    BY <1>1, FS_CardinalityType
  <1>3. \A x \in U : x \notin S => Cardinality(S \cup {x}) = Cardinality(S) + 1
    BY <1>1, FS_AddElement
  <1>4. \A x \in U : x \in S => Cardinality(S \ {x}) = Cardinality(S) - 1
    BY <1>1, FS_RemoveElement
  <1> QED BY <1>1, <1>2, <1>3, <1>4

\* The sets whose sizes SlotsConserved adds up.
LEMMA CountedSets ==
  ASSUME TypeOK
  PROVE  /\ Holding \in SUBSET Listeners /\ InService \in SUBSET Clients
         /\ Cardinality(Holding) \in Nat /\ Cardinality(InService) \in Nat
  <1>1. Holding \in SUBSET Listeners /\ InService \in SUBSET Clients
    BY DEF TypeOK, Holding, InService
  <1> QED BY <1>1, CountOne, RelayAssumption

------------------------------------------------------------------------------
(* The semaphore *)

\* A released permit becomes free or goes to one listener that waits; the queue
\* stays in order.
LEMMA ReleaseFacts ==
  ASSUME TypeOK, QueueOK, Release
  PROVE  /\ permits' \in Nat /\ waiters' \in Seq(Listeners)
         /\ granted' \in SUBSET Listeners
         /\ \/ permits' = permits + 1 /\ granted' = granted
            \/ /\ permits' = permits
               /\ \E h \in Listeners : /\ h \notin granted /\ lpc[h] = "waiting"
                                       /\ granted' = granted \cup {h}
         /\ Queue(waiters', granted', lpc)
  <1>1. CASE waiters = <<>>
    BY <1>1 DEF Release, TypeOK, QueueOK
  <1>2. CASE waiters # <<>>
    <2>1. /\ granted' = granted \cup {Head(waiters)} /\ waiters' = Tail(waiters)
          /\ permits' = permits
      BY <1>2 DEF Release
    <2>2. /\ waiters \in Seq(Listeners) /\ Len(waiters) \in Nat /\ Len(waiters) > 0
          /\ Head(waiters) = waiters[1] /\ Head(waiters) \in Listeners
          /\ Tail(waiters) \in Seq(Listeners) /\ Len(Tail(waiters)) = Len(waiters) - 1
          /\ \A i \in 1..Len(Tail(waiters)) : Tail(waiters)[i] = waiters[i + 1]
      BY <1>2 DEF TypeOK
    <2>3. lpc[Head(waiters)] = "waiting" /\ Head(waiters) \notin granted
      BY <2>2 DEF QueueOK, Queue
    <2>4. Queue(waiters', granted', lpc)
      <3>1. \A i \in 1..Len(waiters') : /\ i + 1 \in 1..Len(waiters)
                                        /\ waiters'[i] = waiters[i + 1]
        BY <2>1, <2>2
      <3>2. \A i \in 1..Len(waiters') : /\ lpc[waiters'[i]] = "waiting"
                                        /\ waiters'[i] \notin granted'
        BY <2>1, <2>2, <3>1 DEF QueueOK, Queue
      <3>3. \A i, j \in 1..Len(waiters') : waiters'[i] = waiters'[j] => i = j
        BY <2>2, <3>1 DEF QueueOK, Queue
      <3>4. \A l \in granted' : lpc[l] = "waiting"
        BY <2>1, <2>3 DEF QueueOK, Queue
      <3> QED BY <3>2, <3>3, <3>4 DEF Queue
    <2> QED BY <2>1, <2>2, <2>3, <2>4 DEF TypeOK
  <1> QED BY <1>1, <1>2

\* A listener that is not waiting and moves anywhere but into the queue leaves
\* the queue in order.
LEMMA QueueFrame ==
  ASSUME TypeOK, NEW w \in Seq(Listeners), NEW g \in SUBSET Listeners, Queue(w, g, lpc),
         NEW l \in Listeners, lpc[l] # "waiting", NEW x, lpc' = [lpc EXCEPT ![l] = x]
  PROVE  Queue(w, g, lpc')
  <1>1. \A m \in Listeners : lpc[m] = "waiting" => lpc'[m] = "waiting"
    BY DEF TypeOK
  <1>2. Len(w) \in Nat /\ \A i \in 1..Len(w) : w[i] \in Listeners
    OBVIOUS
  <1> QED BY <1>1, <1>2 DEF Queue

\* How an acquire that is dropped leaves the semaphore.
LEMMA CancelFacts ==
  ASSUME TypeOK, QueueOK, NEW l \in Listeners, lpc[l] = "waiting", CancelAcquire(l)
  PROVE  /\ permits' \in Nat /\ waiters' \in Seq(Listeners)
         /\ granted' \in SUBSET Listeners
         /\ \/ l \in granted /\ permits' = permits + 1 /\ granted' = granted \ {l}
            \/ /\ l \in granted /\ permits' = permits
               /\ \E h \in Listeners : /\ h \notin granted /\ lpc[h] = "waiting"
                                       /\ granted' = (granted \ {l}) \cup {h}
            \/ l \notin granted /\ permits' = permits /\ granted' = granted
         /\ Queue(waiters', granted', lpc)
         /\ l \notin granted' /\ \A i \in 1..Len(waiters') : waiters'[i] # l
  <1>0. waiters \in Seq(Listeners) /\ Len(waiters) \in Nat
    BY DEF TypeOK
  <1>1. CASE l \in granted /\ waiters = <<>>
    BY <1>0, <1>1 DEF CancelAcquire, TypeOK, QueueOK, Queue
  <1>2. CASE l \in granted /\ waiters # <<>>
    <2>1. /\ granted' = (granted \ {l}) \cup {Head(waiters)} /\ waiters' = Tail(waiters)
          /\ permits' = permits
      BY <1>2 DEF CancelAcquire
    <2>2. /\ Len(waiters) > 0
          /\ Head(waiters) = waiters[1] /\ Head(waiters) \in Listeners
          /\ Tail(waiters) \in Seq(Listeners) /\ Len(Tail(waiters)) = Len(waiters) - 1
          /\ \A i \in 1..Len(Tail(waiters)) : Tail(waiters)[i] = waiters[i + 1]
      BY <1>0, <1>2
    <2>3. lpc[Head(waiters)] = "waiting" /\ Head(waiters) \notin granted
      BY <1>0, <2>2 DEF QueueOK, Queue
    <2>4. \A i \in 1..Len(waiters') : /\ i + 1 \in 1..Len(waiters)
                                      /\ waiters'[i] = waiters[i + 1]
      BY <1>0, <2>1, <2>2
    <2>5. \A i \in 1..Len(waiters') : /\ lpc[waiters'[i]] = "waiting"
                                      /\ waiters'[i] \notin granted'
                                      /\ waiters'[i] # l
      BY <1>0, <1>2, <2>1, <2>2, <2>4 DEF QueueOK, Queue
    <2>6. \A i, j \in 1..Len(waiters') : waiters'[i] = waiters'[j] => i = j
      BY <1>0, <2>2, <2>4 DEF QueueOK, Queue
    <2>7. \A m \in granted' : lpc[m] = "waiting"
      BY <2>1, <2>3 DEF QueueOK, Queue
    <2>8. Queue(waiters', granted', lpc)
      BY <2>5, <2>6, <2>7 DEF Queue
    <2>9. l \notin granted'
      BY <1>2, <2>1, <2>3
    <2> QED BY <1>2, <2>1, <2>2, <2>3, <2>5, <2>8, <2>9 DEF TypeOK
  <1>3. CASE l \notin granted
    <2>1. PICK k \in 1..Len(waiters) : waiters[k] = l /\ waiters' = Without(waiters, k)
      BY <1>3 DEF CancelAcquire
    <2>2. permits' = permits /\ granted' = granted
      BY <1>3 DEF CancelAcquire
    <2>3. /\ waiters' \in Seq(Listeners) /\ Len(waiters') = Len(waiters) - 1
          /\ \A i \in 1..Len(waiters') :
               waiters'[i] = IF i < k THEN waiters[i] ELSE waiters[i + 1]
      BY <1>0, <2>1 DEF Without
    <2>4. \A i \in 1..Len(waiters') : /\ i \in 1..Len(waiters) /\ i + 1 \in 1..Len(waiters)
                                      /\ i < k => i # k
                                      /\ ~(i < k) => i + 1 # k
      BY <1>0, <2>1, <2>3
    <2>5. \A i \in 1..Len(waiters') : /\ lpc[waiters'[i]] = "waiting"
                                      /\ waiters'[i] \notin granted'
                                      /\ waiters'[i] # l
      BY <2>1, <2>2, <2>3, <2>4 DEF QueueOK, Queue
    <2>6. \A i, j \in 1..Len(waiters') : waiters'[i] = waiters'[j] => i = j
      <3> SUFFICES ASSUME NEW i \in 1..Len(waiters'), NEW j \in 1..Len(waiters'),
                          waiters'[i] = waiters'[j]
                   PROVE  i = j
        OBVIOUS
      <3>1. \A a, b \in 1..Len(waiters) : waiters[a] = waiters[b] => a = b
        BY DEF QueueOK, Queue
      <3> QED BY <1>0, <2>1, <2>3, <2>4, <3>1
    <2>7. Queue(waiters', granted', lpc)
      BY <2>2, <2>5, <2>6 DEF Queue, QueueOK
    <2> QED BY <1>3, <2>2, <2>3, <2>5, <2>7 DEF TypeOK
  <1> QED BY <1>1, <1>2, <1>3

------------------------------------------------------------------------------
(* Sessions *)

\* What is in a backlog is a client.
LEMMA BacklogType ==
  ASSUME TypeOK
  PROVE  /\ \A l \in Listeners : backlog[l] \in Seq(Clients)
         /\ \A l \in Listeners, i \in Nat :
              i \in 1..Len(backlog[l]) => backlog[l][i] \in Clients
  <1>1. \A l \in Listeners : backlog[l] \in Seq(Clients)
    BY DEF TypeOK
  <1>2. \A s \in Seq(Clients), i \in Nat : i \in 1..Len(s) => s[i] \in Clients
    OBVIOUS
  <1> QED BY <1>1, <1>2

\* What SlotsConserved adds up.
LEMMA SlotsSum ==
  ASSUME Inv
  PROVE  /\ permits \in Nat /\ Cardinality(Holding) \in Nat
         /\ Cardinality(InService) \in Nat
         /\ permits + Cardinality(Holding) + Cardinality(InService) = Slots
  <1>1. permits \in Nat
    BY DEF Inv, TypeOK
  <1> QED BY <1>1, CountedSets DEF Inv, SlotsConserved

\* A session that goes on keeps its permit.
LEMMA SessionMoves ==
  ASSUME Inv, TypeOK', NEW c \in Clients, NEW s \in Stages, stage[c] \in Stages,
         stage' = [stage EXCEPT ![c] = s], UNCHANGED <<semVars, lpc, backlog>>
  PROVE  Inv'
  <1>1. InService' = InService /\ Holding' = Holding /\ permits' = permits
    BY DEF InService, Holding, semVars, Inv, TypeOK
  <1>2. SlotsConserved'
    BY <1>1 DEF Inv, SlotsConserved
  <1>3. QueueOK'
    BY DEF Inv, QueueOK, Queue, semVars
  <1>4. BacklogOK'
    <2>1. stage[c] # "backlog"
      BY DEF Stages
    <2>2. \A d \in Clients : stage[d] = "backlog" => stage'[d] = "backlog"
      BY <2>1 DEF Inv, TypeOK
    <2>3. \A l \in Listeners, i \in Nat : i \in 1..Len(backlog[l]) => backlog[l][i] \in Clients
      BY BacklogType DEF Inv
    <2> QED BY <2>2, <2>3 DEF Inv, BacklogOK
  <1> QED BY <1>2, <1>3, <1>4 DEF Inv

\* A session that ends gives its permit back.
LEMMA SessionEnds ==
  ASSUME Inv, TypeOK', NEW c \in Clients, stage[c] \in Stages,
         stage' = [stage EXCEPT ![c] = "away"], Release, UNCHANGED <<lpc, backlog>>
  PROVE  Inv'
  <1>0. TypeOK /\ QueueOK /\ SlotsConserved /\ c \in InService
    BY DEF Inv, InService
  <1>1. InService' = InService \ {c}
    BY DEF InService, Inv, TypeOK, Stages
  <1>2. Cardinality(InService') = Cardinality(InService) - 1
    BY <1>0, <1>1, CountedSets, CountOne, RelayAssumption
  <1>3. SlotsConserved'
    <2>1. CASE permits' = permits + 1 /\ granted' = granted
      <3>1. Holding' = Holding
        BY <2>1 DEF Holding
      <3> QED BY <1>2, <2>1, <3>1, SlotsSum DEF SlotsConserved
    <2>2. ASSUME NEW h \in Listeners, h \notin granted, lpc[h] = "waiting",
                 granted' = granted \cup {h}, permits' = permits
          PROVE  SlotsConserved'
      <3>1. Holding' = Holding \cup {h} /\ h \notin Holding
        BY <2>2 DEF Holding
      <3>2. Cardinality(Holding') = Cardinality(Holding) + 1
        BY <1>0, <3>1, CountedSets, CountOne, RelayAssumption
      <3> QED BY <1>2, <2>2, <3>2, SlotsSum DEF SlotsConserved
    <2> QED BY <1>0, <2>1, <2>2, ReleaseFacts
  <1>4. QueueOK'
    BY <1>0, ReleaseFacts DEF QueueOK, Queue
  <1>5. BacklogOK'
    <2>1. stage[c] # "backlog"
      BY DEF Stages
    <2>2. \A d \in Clients : stage[d] = "backlog" => stage'[d] = "backlog"
      BY <2>1 DEF Inv, TypeOK
    <2>3. \A l \in Listeners, i \in Nat : i \in 1..Len(backlog[l]) => backlog[l][i] \in Clients
      BY BacklogType DEF Inv
    <2> QED BY <2>2, <2>3 DEF Inv, BacklogOK
  <1> QED BY <1>3, <1>4, <1>5 DEF Inv

\* The metrics stay integers.
LEMMA MetricsType ==
  ASSUME NEW m \in [Metrics -> Int], NEW f \in Metrics, NEW n \in Int
  PROVE  Add(m, f, n) \in [Metrics -> Int]
  BY DEF Add

\* Every step of handle_connection keeps the invariant.
LEMMA SessionInv ==
  ASSUME Inv, NEW c \in Clients, SessionStep(c)
  PROVE  Inv'
  <1>0. TypeOK /\ QueueOK
    BY DEF Inv
  <1>1. /\ stage[c] \in Stages
        /\ UNCHANGED <<main, shutdown, lpc, backlog, faults, late>>
    BY DEF SessionStep, CheckAcl, Peek, CheckLimit, Resolve, Candidates, Connect, Replay,
           Spliced, SessionAt, Stages
  <1>2. tries' \in [Clients -> Nat]
    <2>1. CASE UNCHANGED tries
      BY <1>0, <2>1 DEF TypeOK
    <2>2. CASE Candidates(c)
      <3>1. UNCHANGED tries \/ \E n \in 1..MaxCandidates : tries' = [tries EXCEPT ![c] = n]
        BY <2>2 DEF Candidates
      <3>2. tries \in [Clients -> Nat] /\ MaxCandidates \in Nat
        BY <1>0, RelayAssumption DEF TypeOK
      <3> QED BY <3>1, <3>2
    <2>3. CASE Connect(c)
      <3>1. tries' = [tries EXCEPT ![c] = 0] \/ (tries[c] > 1 /\ tries' = [tries EXCEPT ![c] = @ - 1])
        BY <2>3 DEF Connect
      <3>2. tries \in [Clients -> Nat]
        BY <1>0 DEF TypeOK
      <3>3. tries[c] > 1 => tries[c] - 1 \in Nat
        BY <3>2
      <3> QED BY <3>1, <3>2, <3>3
    <2> QED BY <2>1, <2>2, <2>3
            DEF SessionStep, CheckAcl, Peek, CheckLimit, Resolve, Replay, Spliced
  <1>3. \/ /\ \E s \in Stages : stage' = [stage EXCEPT ![c] = s]
           /\ UNCHANGED semVars
        \/ /\ stage' = [stage EXCEPT ![c] = "away"]
           /\ Release
    <2>1. CASE Connect(c)
      <3>1. stage = [stage EXCEPT ![c] = stage[c]]
        BY <1>0 DEF TypeOK
      <3> QED BY <1>1, <2>1, <3>1 DEF Connect, Failed, Finish, Stages
    <2>2. CASE CheckAcl(c) \/ Peek(c) \/ CheckLimit(c) \/ Resolve(c)
      BY <2>2 DEF CheckAcl, Peek, CheckLimit, Resolve, Continue, Rejected, Failed, Finish,
                  Stages
    <2>3. CASE Candidates(c) \/ Replay(c) \/ Spliced(c)
      BY <2>3 DEF Candidates, Replay, Spliced, Continue, Failed, Closed, Finish, Stages
    <2> QED BY <2>1, <2>2, <2>3 DEF SessionStep
  <1>4. metrics' \in [Metrics -> Int]
    <2>0. metrics \in [Metrics -> Int]
      BY <1>0 DEF TypeOK
    <2>1. ASSUME NEW f \in Metrics, NEW o \in BOOLEAN, Finish(c, f, o)
          PROVE  metrics' \in [Metrics -> Int]
      <3>1. Add(metrics, f, 1) \in [Metrics -> Int]
        BY <2>0, MetricsType
      <3>2. "active" \in Metrics /\ (o => -1 \in Int) /\ 0 \in Int
        BY DEF Metrics
      <3>3. metrics' = Add(Add(metrics, f, 1), "active", IF o THEN -1 ELSE 0)
        BY <2>1 DEF Finish
      <3>4. CASE o
        BY <3>1, <3>2, <3>3, <3>4, MetricsType
      <3>5. CASE ~o
        BY <3>1, <3>2, <3>3, <3>5, MetricsType
      <3> QED BY <3>4, <3>5
    <2>2. ASSUME metrics' = Add(Add(metrics, "total", 1), "active", 1)
          PROVE  metrics' \in [Metrics -> Int]
      <3>1. "total" \in Metrics /\ "active" \in Metrics
        BY DEF Metrics
      <3>2. Add(metrics, "total", 1) \in [Metrics -> Int]
        BY <2>0, <3>1, MetricsType
      <3> QED BY <2>2, <3>1, <3>2, MetricsType
    <2>3. \/ UNCHANGED metrics
          \/ metrics' = Add(Add(metrics, "total", 1), "active", 1)
          \/ Rejected(c) \/ Failed(c, FALSE) \/ Failed(c, TRUE) \/ Closed(c)
      BY DEF SessionStep, CheckAcl, Peek, CheckLimit, Resolve, Candidates, Connect,
             Replay, Spliced, Continue
    <2>4. (Rejected(c) \/ Failed(c, FALSE) \/ Failed(c, TRUE) \/ Closed(c)) =>
            \E f \in Metrics, o \in BOOLEAN : Finish(c, f, o)
      BY DEF Rejected, Failed, Closed, Metrics
    <2> QED BY <2>0, <2>1, <2>2, <2>3, <2>4
  <1>5. TypeOK'
    <2>1. permits' \in Nat /\ waiters' \in Seq(Listeners) /\ granted' \in SUBSET Listeners
      <3>1. CASE UNCHANGED semVars
        BY <1>0, <3>1 DEF TypeOK, semVars
      <3>2. CASE Release
        BY <1>0, <3>2, ReleaseFacts
      <3> QED BY <1>3, <3>1, <3>2
    <2>2. stage' \in [Clients -> {"away", "backlog"} \cup Stages]
      BY <1>0, <1>3 DEF TypeOK
    <2>3. shutdown' \in BOOLEAN /\ main' \in {"serving", "joining", "stopped"}
      BY <1>0, <1>1 DEF TypeOK
    <2> QED BY <1>0, <1>1, <1>2, <1>4, <2>1, <2>2, <2>3 DEF TypeOK
  <1> QED BY <1>1, <1>3, <1>5, SessionMoves, SessionEnds

------------------------------------------------------------------------------
(* Listeners *)

\* A listener that changes place outside the queue and without a permit.
LEMMA ListenerMoves ==
  ASSUME Inv, NEW l \in Listeners, NEW x \in {"loop", "select", "stopped"},
         lpc[l] \in {"bind", "loop", "select"}, lpc' = [lpc EXCEPT ![l] = x],
         UNCHANGED <<main, shutdown, semVars, backlog, stage, tries, faults, late, metrics>>
  PROVE  Inv'
  <1>1. TypeOK'
    BY DEF Inv, TypeOK, semVars
  <1>2. QueueOK'
    <2>1. Queue(waiters, granted, lpc')
      BY QueueFrame DEF Inv, TypeOK, QueueOK
    <2> QED BY <2>1 DEF QueueOK, Queue, semVars
  <1>3. BacklogOK'
    BY DEF Inv, BacklogOK
  <1>4. Holding' = Holding /\ InService' = InService /\ permits' = permits
    BY DEF Holding, InService, semVars, Inv, TypeOK
  <1>5. SlotsConserved'
    BY <1>4 DEF Inv, SlotsConserved
  <1> QED BY <1>1, <1>2, <1>3, <1>5 DEF Inv

\* Acquiring: at once, by queueing, by taking the permit given.
LEMMA AcquireInv ==
  ASSUME Inv, NEW l \in Listeners, AcquireNow(l) \/ Enqueue(l) \/ TakeGrant(l)
  PROVE  Inv'
  <1>0. /\ TypeOK /\ QueueOK
        /\ UNCHANGED <<main, shutdown, backlog, stage, tries, faults, late, metrics>>
        /\ lpc[l] \in {"select", "waiting"}
    BY DEF Inv, AcquireNow, Enqueue, TakeGrant, ListenerAt
  <1>1. BacklogOK' /\ InService' = InService
    BY <1>0 DEF Inv, BacklogOK, InService
  <1>2. CASE AcquireNow(l)
    <2>1. /\ lpc' = [lpc EXCEPT ![l] = "accept"] /\ lpc[l] = "select"
          /\ permits > 0 /\ permits' = permits - 1
          /\ waiters' = waiters /\ granted' = granted
      BY <1>2 DEF AcquireNow, ListenerAt
    <2>2. TypeOK'
      BY <1>0, <2>1 DEF TypeOK
    <2>3. QueueOK'
      <3>1. Queue(waiters, granted, lpc')
        BY <1>0, <2>1, QueueFrame DEF TypeOK, QueueOK
      <3> QED BY <2>1, <3>1 DEF QueueOK, Queue
    <2>4. l \notin granted
      BY <1>0, <2>1 DEF QueueOK, Queue
    <2>5. Holding' = Holding \cup {l} /\ l \notin Holding
      BY <1>0, <2>1, <2>4 DEF Holding, TypeOK
    <2>6. Cardinality(Holding') = Cardinality(Holding) + 1
      BY <1>0, <2>5, CountedSets, CountOne, RelayAssumption
    <2>7. SlotsConserved'
      BY <1>1, <2>1, <2>6, SlotsSum DEF SlotsConserved
    <2> QED BY <1>1, <2>2, <2>3, <2>7 DEF Inv
  <1>3. CASE Enqueue(l)
    <2>1. /\ lpc' = [lpc EXCEPT ![l] = "waiting"] /\ lpc[l] = "select"
          /\ permits' = permits /\ granted' = granted
          /\ waiters' = Append(waiters, l)
      BY <1>3 DEF Enqueue, ListenerAt
    <2>2. /\ waiters \in Seq(Listeners) /\ Len(waiters) \in Nat
          /\ waiters' \in Seq(Listeners) /\ Len(waiters') = Len(waiters) + 1
          /\ \A i \in 1..Len(waiters') :
               waiters'[i] = IF i = Len(waiters) + 1 THEN l ELSE waiters[i]
          /\ \A i \in 1..Len(waiters) : waiters[i] \in Listeners
      BY <1>0, <2>1 DEF TypeOK
    <2>3. TypeOK'
      BY <1>0, <2>1, <2>2 DEF TypeOK
    <2>4. /\ \A m \in Listeners : lpc'[m] = IF m = l THEN "waiting" ELSE lpc[m]
          /\ l \notin granted /\ granted \subseteq Listeners
          /\ \A i \in 1..Len(waiters) : waiters[i] # l
      BY <1>0, <2>1 DEF TypeOK, QueueOK, Queue
    <2>5. QueueOK'
      <3>1. \A i \in 1..Len(waiters') : /\ lpc'[waiters'[i]] = "waiting"
                                        /\ waiters'[i] \notin granted'
        <4> SUFFICES ASSUME NEW i \in 1..Len(waiters')
                     PROVE  lpc'[waiters'[i]] = "waiting" /\ waiters'[i] \notin granted'
          OBVIOUS
        <4>1. CASE i = Len(waiters) + 1
          BY <2>1, <2>2, <2>4, <4>1
        <4>2. CASE i # Len(waiters) + 1
          <5>1. i \in 1..Len(waiters) /\ waiters'[i] = waiters[i]
            BY <2>2, <4>2
          <5> QED BY <1>0, <2>1, <2>2, <2>4, <5>1 DEF QueueOK, Queue
        <4> QED BY <4>1, <4>2
      <3>2. \A i, j \in 1..Len(waiters') : waiters'[i] = waiters'[j] => i = j
        <4> SUFFICES ASSUME NEW i \in 1..Len(waiters'), NEW j \in 1..Len(waiters'),
                            waiters'[i] = waiters'[j]
                     PROVE  i = j
          OBVIOUS
        <4>1. \A a, b \in 1..Len(waiters) : waiters[a] = waiters[b] => a = b
          BY <1>0 DEF QueueOK, Queue
        <4>2. \A a \in 1..Len(waiters') : a # Len(waiters) + 1 => a \in 1..Len(waiters)
          BY <2>2
        <4> QED BY <2>2, <2>4, <4>1, <4>2
      <3>3. \A m \in granted' : lpc'[m] = "waiting"
        BY <1>0, <2>1, <2>4 DEF QueueOK, Queue
      <3> QED BY <3>1, <3>2, <3>3 DEF QueueOK, Queue
    <2>6. Holding' = Holding
      BY <1>0, <2>1, <2>4 DEF Holding
    <2>7. SlotsConserved'
      BY <1>1, <2>1, <2>6 DEF Inv, SlotsConserved
    <2> QED BY <1>1, <2>3, <2>5, <2>7 DEF Inv
  <1>4. CASE TakeGrant(l)
    <2>1. /\ lpc' = [lpc EXCEPT ![l] = "accept"] /\ l \in granted
          /\ granted' = granted \ {l}
          /\ permits' = permits /\ waiters' = waiters
      BY <1>4 DEF TakeGrant, ListenerAt
    <2>2. TypeOK'
      BY <1>0, <2>1 DEF TypeOK
    <2>3. QueueOK'
      <3>1. waiters \in Seq(Listeners) /\ Len(waiters) \in Nat
            /\ \A i \in 1..Len(waiters) : waiters[i] \in Listeners /\ waiters[i] # l
        BY <1>0, <2>1 DEF TypeOK, QueueOK, Queue
      <3>2. \A m \in Listeners : m # l => lpc'[m] = lpc[m]
        BY <1>0, <2>1 DEF TypeOK
      <3>3. granted \subseteq Listeners
        BY <1>0 DEF TypeOK
      <3> QED BY <1>0, <2>1, <3>1, <3>2, <3>3 DEF QueueOK, Queue
    <2>4. Holding' = Holding
      BY <1>0, <2>1 DEF Holding, TypeOK
    <2>5. SlotsConserved'
      BY <1>1, <2>1, <2>4 DEF Inv, SlotsConserved
    <2> QED BY <1>1, <2>2, <2>3, <2>5 DEF Inv
  <1> QED BY <1>2, <1>3, <1>4

\* A listener that stops while it waits gives up its place or its permit.
LEMMA CancelInv ==
  ASSUME Inv, NEW l \in Listeners, ListenerAt(l, "waiting", "stopped"), CancelAcquire(l),
         UNCHANGED <<main, shutdown, backlog, stage, tries, faults, late, metrics>>
  PROVE  Inv'
  <1>0. /\ TypeOK /\ QueueOK /\ lpc[l] = "waiting"
        /\ lpc' = [lpc EXCEPT ![l] = "stopped"]
    BY DEF Inv, ListenerAt
  <1>1. BacklogOK' /\ InService' = InService
    BY DEF Inv, BacklogOK, InService
  <1>2. TypeOK'
    BY <1>0, CancelFacts DEF TypeOK
  <1>3. QueueOK'
    <2>1. /\ Queue(waiters', granted', lpc) /\ l \notin granted'
          /\ \A i \in 1..Len(waiters') : waiters'[i] # l
      BY <1>0, CancelFacts
    <2>2. waiters' \in Seq(Listeners) /\ granted' \subseteq Listeners
      BY <1>2 DEF TypeOK
    <2>3. \A i \in 1..Len(waiters') : waiters'[i] \in Listeners
      BY <2>2
    <2>4. \A m \in Listeners : m # l => lpc'[m] = lpc[m]
      BY <1>0 DEF TypeOK
    <2> QED BY <2>1, <2>2, <2>3, <2>4 DEF QueueOK, Queue
  <1>4. {m \in Listeners : lpc'[m] = "accept"} = {m \in Listeners : lpc[m] = "accept"}
    BY <1>0 DEF TypeOK
  <1>5. SlotsConserved'
    <2>1. CASE l \in granted /\ permits' = permits + 1 /\ granted' = granted \ {l}
      <3>1. Holding' = Holding \ {l} /\ l \in Holding
        BY <1>0, <1>4, <2>1 DEF Holding
      <3>2. Cardinality(Holding') = Cardinality(Holding) - 1
        BY <1>0, <3>1, CountedSets, CountOne, RelayAssumption
      <3> QED BY <1>1, <2>1, <3>2, SlotsSum DEF SlotsConserved
    <2>2. ASSUME NEW h \in Listeners, l \in granted, permits' = permits, h \notin granted,
                 lpc[h] = "waiting", granted' = (granted \ {l}) \cup {h}
          PROVE  SlotsConserved'
      <3>1. Holding' = (Holding \ {l}) \cup {h} /\ l \in Holding /\ h \notin Holding \ {l}
        BY <1>0, <1>4, <2>2 DEF Holding
      <3>2. Cardinality(Holding \ {l}) = Cardinality(Holding) - 1
            /\ Holding \ {l} \in SUBSET Listeners
        BY <1>0, <3>1, CountedSets, CountOne, RelayAssumption
      <3>3. Cardinality(Holding') = Cardinality(Holding \ {l}) + 1
        BY <3>1, <3>2, CountOne, RelayAssumption
      <3> QED BY <1>1, <2>2, <3>2, <3>3, SlotsSum DEF SlotsConserved
    <2>3. CASE permits' = permits /\ granted' = granted
      <3>1. Holding' = Holding
        BY <1>4, <2>3 DEF Holding
      <3> QED BY <1>1, <2>3, <3>1 DEF Inv, SlotsConserved
    <2> QED BY <1>0, <2>1, <2>2, <2>3, CancelFacts
  <1> QED BY <1>1, <1>2, <1>3, <1>5 DEF Inv

\* accept() hands the listener's permit to the new session, which was in no
\* backlog but this one.
LEMMA AcceptInv ==
  ASSUME Inv, NEW l \in Listeners, Accept(l)
  PROVE  Inv' /\ \E c \in Clients \ InService : InService' = InService \cup {c}
  <1> DEFINE c == Head(backlog[l])
  <1>0. /\ TypeOK /\ QueueOK /\ BacklogOK
        /\ lpc[l] = "accept" /\ lpc' = [lpc EXCEPT ![l] = "loop"]
        /\ backlog[l] # <<>> /\ backlog' = [backlog EXCEPT ![l] = Tail(@)]
        /\ stage' = [stage EXCEPT ![c] = "acl"]
        /\ late' = (IF shutdown THEN [late EXCEPT ![l] = @ + 1] ELSE late)
        /\ metrics' = Add(metrics, "accepted", 1)
        /\ main' = main /\ shutdown' = shutdown /\ tries' = tries /\ faults' = faults
        /\ permits' = permits /\ waiters' = waiters /\ granted' = granted
    BY DEF Inv, Accept, ListenerAt, semVars
  <1>1. backlog[l] \in Seq(Clients)
    BY <1>0, BacklogType
  <1>2. /\ Len(backlog[l]) \in Nat /\ 1 \in 1..Len(backlog[l]) /\ c = backlog[l][1]
        /\ c \in Clients /\ Tail(backlog[l]) \in Seq(Clients)
        /\ Len(Tail(backlog[l])) = Len(backlog[l]) - 1
        /\ \A i \in 1..Len(Tail(backlog[l])) : Tail(backlog[l])[i] = backlog[l][i + 1]
    BY <1>0, <1>1
  <1>3. stage[c] = "backlog"
    BY <1>0, <1>2 DEF BacklogOK
  <1> HIDE DEF c
  <1>4. TypeOK'
    <2>1. metrics' \in [Metrics -> Int]
      <3>1. metrics \in [Metrics -> Int] /\ "accepted" \in Metrics
        BY <1>0 DEF TypeOK, Metrics
      <3> QED BY <1>0, <3>1, MetricsType
    <2>2. backlog' \in [Listeners -> Seq(Clients)]
      BY <1>0, <1>2 DEF TypeOK
    <2>3. late' \in [Listeners -> Nat]
      BY <1>0 DEF TypeOK
    <2>4. stage' \in [Clients -> {"away", "backlog"} \cup Stages]
      BY <1>0, <1>2 DEF TypeOK, Stages
    <2>5. lpc' \in [Listeners -> {"bind", "loop", "select", "waiting", "accept", "stopped"}]
      BY <1>0 DEF TypeOK
    <2> QED BY <1>0, <2>1, <2>2, <2>3, <2>4, <2>5 DEF TypeOK
  <1>5. QueueOK'
    <2>1. Queue(waiters, granted, lpc')
      BY <1>0, QueueFrame DEF TypeOK, QueueOK
    <2> QED BY <1>0, <2>1 DEF QueueOK, Queue
  <1>6. BacklogOK'
    <2>1. \A m \in Listeners : backlog'[m] = IF m = l THEN Tail(backlog[l]) ELSE backlog[m]
      BY <1>0 DEF TypeOK
    <2>2. \A m \in Listeners, i \in Nat : i \in 1..Len(backlog'[m]) =>
            \E k \in Nat : /\ k \in 1..Len(backlog[m]) /\ backlog'[m][i] = backlog[m][k]
                           /\ k = (IF m = l THEN i + 1 ELSE i)
      <3> SUFFICES ASSUME NEW m \in Listeners, NEW i \in Nat, i \in 1..Len(backlog'[m])
                   PROVE  \E k \in Nat : /\ k \in 1..Len(backlog[m])
                                         /\ backlog'[m][i] = backlog[m][k]
                                         /\ k = (IF m = l THEN i + 1 ELSE i)
        OBVIOUS
      <3>1. CASE m = l
        <4>1. backlog'[m] = Tail(backlog[l]) /\ i \in 1..Len(Tail(backlog[l]))
          BY <2>1, <3>1
        <4>2. i + 1 \in Nat /\ i + 1 \in 1..Len(backlog[l])
          BY <1>2, <4>1
        <4>3. backlog'[m][i] = backlog[l][i + 1]
          BY <1>2, <4>1
        <4> QED BY <3>1, <4>2, <4>3
      <3>2. CASE m # l
        BY <2>1, <3>2
      <3> QED BY <3>1, <3>2
    <2>3. \A d \in Clients : d # c => stage'[d] = stage[d]
      BY <1>0, <1>2 DEF TypeOK
    <2>4. \A m \in Listeners, i \in Nat :
            i \in 1..Len(backlog'[m]) => stage'[backlog'[m][i]] = "backlog"
      <3> SUFFICES ASSUME NEW m \in Listeners, NEW i \in Nat, i \in 1..Len(backlog'[m])
                   PROVE  stage'[backlog'[m][i]] = "backlog"
        OBVIOUS
      <3>1. PICK k \in Nat : /\ k \in 1..Len(backlog[m]) /\ backlog'[m][i] = backlog[m][k]
                             /\ k = (IF m = l THEN i + 1 ELSE i)
        BY <2>2
      <3>2. backlog[m][k] \in Clients /\ stage[backlog[m][k]] = "backlog"
        BY <1>0, <3>1, BacklogType DEF BacklogOK
      <3>3. backlog[m][k] # c
        <4>1. backlog[m][k] = backlog[l][1] => m = l /\ k = 1
          BY <1>0, <1>2, <3>1 DEF BacklogOK
        <4>2. i > 0
          OBVIOUS
        <4> QED BY <1>2, <3>1, <4>1, <4>2
      <3> QED BY <2>3, <3>1, <3>2, <3>3
    <2>5. \A m, n \in Listeners, i, j \in Nat :
            /\ i \in 1..Len(backlog'[m]) /\ j \in 1..Len(backlog'[n])
            /\ backlog'[m][i] = backlog'[n][j]
            => m = n /\ i = j
      <3> SUFFICES ASSUME NEW m \in Listeners, NEW n \in Listeners, NEW i \in Nat,
                          NEW j \in Nat,
                          i \in 1..Len(backlog'[m]), j \in 1..Len(backlog'[n]),
                          backlog'[m][i] = backlog'[n][j]
                   PROVE  m = n /\ i = j
        OBVIOUS
      <3>1. PICK k \in Nat : /\ k \in 1..Len(backlog[m]) /\ backlog'[m][i] = backlog[m][k]
                             /\ k = (IF m = l THEN i + 1 ELSE i)
        BY <2>2
      <3>2. PICK q \in Nat : /\ q \in 1..Len(backlog[n]) /\ backlog'[n][j] = backlog[n][q]
                             /\ q = (IF n = l THEN j + 1 ELSE j)
        BY <2>2
      <3>3. m = n /\ k = q
        BY <1>0, <3>1, <3>2 DEF BacklogOK
      <3> QED BY <3>1, <3>2, <3>3
    <2> QED BY <2>4, <2>5 DEF BacklogOK
  <1>7. InService' = InService \cup {c} /\ c \notin InService
    BY <1>0, <1>2, <1>3 DEF InService, TypeOK, Stages
  <1>8. Holding' = Holding \ {l} /\ l \in Holding
    <2>1. l \notin granted
      BY <1>0 DEF QueueOK, Queue
    <2> QED BY <1>0, <2>1 DEF Holding, TypeOK
  <1>9. /\ Cardinality(InService') = Cardinality(InService) + 1
        /\ Cardinality(Holding') = Cardinality(Holding) - 1
    BY <1>0, <1>2, <1>7, <1>8, CountedSets, CountOne, RelayAssumption
  <1>10. SlotsConserved'
    BY <1>0, <1>9, SlotsSum DEF SlotsConserved
  <1> QED BY <1>2, <1>4, <1>5, <1>6, <1>7, <1>10 DEF Inv

\* accept() that fails gives the permit back.
LEMMA AcceptErrorInv ==
  ASSUME Inv, NEW l \in Listeners, AcceptError(l)
  PROVE  Inv'
  <1>0. /\ TypeOK /\ QueueOK /\ Release
        /\ lpc[l] = "accept" /\ lpc' = [lpc EXCEPT ![l] = "loop"]
        /\ faults' = faults + 1
        /\ UNCHANGED <<main, shutdown, backlog, stage, tries, late, metrics>>
    BY DEF Inv, AcceptError, ListenerAt
  <1>1. BacklogOK' /\ InService' = InService
    BY <1>0 DEF Inv, BacklogOK, InService
  <1>2. TypeOK'
    BY <1>0, ReleaseFacts DEF TypeOK
  <1>3. QueueOK'
    <2>1. Queue(waiters', granted', lpc) /\ waiters' \in Seq(Listeners)
          /\ granted' \in SUBSET Listeners
      BY <1>0, ReleaseFacts
    <2>2. Queue(waiters', granted', lpc')
      BY <1>0, <2>1, QueueFrame
    <2> QED BY <2>2 DEF QueueOK, Queue
  <1>4. /\ {m \in Listeners : lpc'[m] = "accept"} = {m \in Listeners : lpc[m] = "accept"} \ {l}
        /\ l \notin granted /\ l \in Holding
    BY <1>0 DEF TypeOK, QueueOK, Queue, Holding
  <1>5. Cardinality(Holding \ {l}) = Cardinality(Holding) - 1
        /\ Holding \ {l} \in SUBSET Listeners
    BY <1>0, <1>4, CountedSets, CountOne, RelayAssumption
  <1>6. SlotsConserved'
    <2>1. CASE permits' = permits + 1 /\ granted' = granted
      <3>1. Holding' = Holding \ {l}
        BY <1>4, <2>1 DEF Holding
      <3> QED BY <1>1, <1>5, <2>1, <3>1, SlotsSum DEF SlotsConserved
    <2>2. ASSUME NEW h \in Listeners, h \notin granted, lpc[h] = "waiting",
                 granted' = granted \cup {h}, permits' = permits
          PROVE  SlotsConserved'
      <3>1. Holding' = (Holding \ {l}) \cup {h} /\ h \notin Holding \ {l}
        BY <1>0, <1>4, <2>2 DEF Holding
      <3>2. Cardinality(Holding') = Cardinality(Holding \ {l}) + 1
        BY <1>5, <3>1, CountOne, RelayAssumption
      <3> QED BY <1>1, <1>5, <2>2, <3>2, SlotsSum DEF SlotsConserved
    <2> QED BY <1>0, <2>1, <2>2, ReleaseFacts
  <1> QED BY <1>1, <1>2, <1>3, <1>6 DEF Inv

\* Every step of a listener keeps the invariant, and starts at most one session.
LEMMA ListenerInv ==
  ASSUME Inv, NEW l \in Listeners, ListenerStep(l)
  PROVE  /\ Inv'
         /\ \/ InService' = InService
            \/ \E c \in Clients \ InService : Accept(l) /\ InService' = InService \cup {c}
  <1>1. CASE Bind(l) \/ CheckShutdown(l)
    <2>1. PICK x \in {"loop", "select", "stopped"} : lpc' = [lpc EXCEPT ![l] = x]
      BY <1>1 DEF Bind, CheckShutdown, ListenerAt
    <2>2. /\ lpc[l] \in {"bind", "loop", "select"}
          /\ UNCHANGED <<main, shutdown, semVars, backlog, stage, tries, faults, late,
                         metrics>>
      BY <1>1 DEF Bind, CheckShutdown, ListenerAt
    <2>3. Inv'
      BY <2>1, <2>2, ListenerMoves
    <2> QED BY <2>2, <2>3 DEF InService
  <1>2. CASE AcquireNow(l) \/ Enqueue(l) \/ TakeGrant(l)
    <2>1. UNCHANGED stage
      BY <1>2 DEF AcquireNow, Enqueue, TakeGrant
    <2> QED BY <1>2, <2>1, AcquireInv DEF InService
  <1>3. CASE SelectShutdown(l)
    <2>0. UNCHANGED <<main, shutdown, backlog, stage, tries, faults, late, metrics>>
      BY <1>3 DEF SelectShutdown
    <2>1. CASE ListenerAt(l, "waiting", "stopped") /\ CancelAcquire(l)
      BY <2>0, <2>1, CancelInv DEF InService
    <2>2. CASE ListenerAt(l, "select", "stopped") /\ UNCHANGED semVars
      <3>1. lpc[l] \in {"bind", "loop", "select"} /\ lpc' = [lpc EXCEPT ![l] = "stopped"]
        BY <2>2 DEF ListenerAt
      <3>2. Inv'
        BY <2>0, <2>2, <3>1, ListenerMoves
      <3> QED BY <2>0, <3>2 DEF InService
    <2> QED BY <1>3, <2>1, <2>2 DEF SelectShutdown
  <1>4. CASE Accept(l)
    BY <1>4, AcceptInv
  <1>5. CASE AcceptError(l)
    <2>1. UNCHANGED stage
      BY <1>5 DEF AcceptError
    <2> QED BY <1>5, <2>1, AcceptErrorInv DEF InService
  <1> QED BY <1>1, <1>2, <1>3, <1>4, <1>5 DEF ListenerStep

\* A connection that arrives joins one backlog.
LEMMA ArriveInv ==
  ASSUME Inv, NEW c \in Clients, NEW l \in Listeners, Arrive(c, l)
  PROVE  Inv' /\ InService' = InService
  <1>0. /\ TypeOK /\ BacklogOK /\ stage[c] = "away"
        /\ stage' = [stage EXCEPT ![c] = "backlog"]
        /\ backlog' = [backlog EXCEPT ![l] = Append(@, c)]
        /\ UNCHANGED <<main, shutdown, lpc, semVars, tries, faults, late, metrics>>
    BY DEF Inv, Arrive
  <1>1. backlog[l] \in Seq(Clients)
    BY <1>0, BacklogType
  <1>2. /\ Len(backlog[l]) \in Nat /\ Append(backlog[l], c) \in Seq(Clients)
        /\ Len(Append(backlog[l], c)) = Len(backlog[l]) + 1
        /\ \A i \in 1..Len(backlog[l]) + 1 :
             Append(backlog[l], c)[i] = IF i = Len(backlog[l]) + 1 THEN c ELSE backlog[l][i]
    BY <1>1
  <1>3. TypeOK'
    <2>1. backlog' \in [Listeners -> Seq(Clients)]
      BY <1>0, <1>2 DEF TypeOK
    <2>2. stage' \in [Clients -> {"away", "backlog"} \cup Stages]
      BY <1>0 DEF TypeOK
    <2> QED BY <1>0, <2>1, <2>2 DEF TypeOK, semVars
  <1>4. QueueOK'
    BY <1>0 DEF Inv, QueueOK, Queue, semVars
  <1>5. \A m \in Listeners, i \in Nat : i \in 1..Len(backlog'[m]) =>
          \/ i \in 1..Len(backlog[m]) /\ backlog'[m][i] = backlog[m][i]
          \/ m = l /\ i = Len(backlog[l]) + 1 /\ backlog'[m][i] = c
    <2> SUFFICES ASSUME NEW m \in Listeners, NEW i \in Nat, i \in 1..Len(backlog'[m])
                 PROVE  \/ i \in 1..Len(backlog[m]) /\ backlog'[m][i] = backlog[m][i]
                        \/ m = l /\ i = Len(backlog[l]) + 1 /\ backlog'[m][i] = c
      OBVIOUS
    <2>1. backlog'[m] = IF m = l THEN Append(backlog[l], c) ELSE backlog[m]
      BY <1>0 DEF TypeOK
    <2>2. CASE m = l
      <3>1. i \in 1..Len(backlog[l]) + 1
        BY <1>2, <2>1, <2>2
      <3> QED BY <1>2, <2>1, <2>2, <3>1
    <2>3. CASE m # l
      BY <2>1, <2>3
    <2> QED BY <2>2, <2>3
  <1>6. \A m \in Listeners, i \in Nat : i \in 1..Len(backlog[m]) =>
          backlog[m][i] # c /\ backlog[m][i] \in Clients /\ stage[backlog[m][i]] = "backlog"
    BY <1>0, BacklogType DEF BacklogOK
  <1>7. BacklogOK'
    <2>1. \A d \in Clients : stage'[d] = IF d = c THEN "backlog" ELSE stage[d]
      BY <1>0 DEF TypeOK
    <2>2. \A m \in Listeners, i \in Nat :
            i \in 1..Len(backlog'[m]) => stage'[backlog'[m][i]] = "backlog"
      BY <1>5, <1>6, <2>1
    <2>3. \A m, n \in Listeners, i, j \in Nat :
            /\ i \in 1..Len(backlog'[m]) /\ j \in 1..Len(backlog'[n])
            /\ backlog'[m][i] = backlog'[n][j]
            => m = n /\ i = j
      <3> SUFFICES ASSUME NEW m \in Listeners, NEW n \in Listeners, NEW i \in Nat,
                          NEW j \in Nat,
                          i \in 1..Len(backlog'[m]), j \in 1..Len(backlog'[n]),
                          backlog'[m][i] = backlog'[n][j]
                   PROVE  m = n /\ i = j
        OBVIOUS
      <3>1. CASE backlog'[m][i] = c
        <4>1. m = l /\ i = Len(backlog[l]) + 1
          BY <1>5, <1>6, <3>1
        <4>2. n = l /\ j = Len(backlog[l]) + 1
          BY <1>5, <1>6, <3>1
        <4> QED BY <4>1, <4>2
      <3>2. CASE backlog'[m][i] # c
        <4>1. /\ i \in 1..Len(backlog[m]) /\ backlog'[m][i] = backlog[m][i]
              /\ j \in 1..Len(backlog[n]) /\ backlog'[n][j] = backlog[n][j]
          BY <1>5, <3>2
        <4> QED BY <1>0, <4>1 DEF BacklogOK
      <3> QED BY <3>1, <3>2
    <2> QED BY <2>2, <2>3 DEF BacklogOK
  <1>8. Holding' = Holding /\ InService' = InService /\ permits' = permits
    BY <1>0 DEF Holding, InService, semVars, TypeOK, Stages
  <1>9. SlotsConserved'
    BY <1>8 DEF Inv, SlotsConserved
  <1> QED BY <1>3, <1>4, <1>7, <1>8, <1>9 DEF Inv

\* The signal, run() and stuttering steps.
LEMMA MainInv ==
  ASSUME Inv, Signal \/ StopListeners \/ Return \/ UNCHANGED vars
  PROVE  Inv' /\ InService' = InService
  <1>1. UNCHANGED <<lpc, permits, waiters, granted, backlog, stage, tries, faults, late,
                    metrics>>
    BY DEF Signal, StopListeners, Return, semVars, vars
  <1>2. main' \in {"serving", "joining", "stopped"} /\ shutdown' \in BOOLEAN
    BY DEF Inv, TypeOK, Signal, StopListeners, Return, vars
  <1>3. TypeOK'
    BY <1>1, <1>2 DEF Inv, TypeOK
  <1>4. QueueOK' /\ BacklogOK'
    BY <1>1 DEF Inv, QueueOK, Queue, BacklogOK
  <1>5. Holding' = Holding /\ InService' = InService
    BY <1>1 DEF Holding, InService
  <1>6. SlotsConserved'
    BY <1>1, <1>5 DEF Inv, SlotsConserved
  <1> QED BY <1>3, <1>4, <1>5, <1>6 DEF Inv

\* Nothing is held before the listeners start.
LEMMA InitInv == Init => Inv /\ InService = {}
  <1> SUFFICES ASSUME Init PROVE Inv /\ InService = {}
    OBVIOUS
  <1>1. TypeOK
    <2>1. /\ permits \in Nat /\ waiters \in Seq(Listeners) /\ granted \in SUBSET Listeners
          /\ backlog \in [Listeners -> Seq(Clients)]
          /\ tries \in [Clients -> Nat] /\ faults \in Nat /\ late \in [Listeners -> Nat]
          /\ metrics \in [Metrics -> Int]
      BY RelayAssumption DEF Init
    <2>2. /\ lpc \in [Listeners -> {"bind", "loop", "select", "waiting", "accept", "stopped"}]
          /\ stage \in [Clients -> {"away", "backlog"} \cup Stages]
          /\ main \in {"serving", "joining", "stopped"} /\ shutdown \in BOOLEAN
      BY DEF Init
    <2> QED BY <2>1, <2>2 DEF TypeOK
  <1>2. QueueOK /\ BacklogOK
    BY DEF Init, QueueOK, Queue, BacklogOK
  <1>3. Holding = {} /\ InService = {}
    BY DEF Init, Holding, InService, Stages
  <1>4. SlotsConserved
    BY <1>3, FS_EmptySet, RelayAssumption DEF Init, SlotsConserved
  <1> QED BY <1>1, <1>2, <1>3, <1>4 DEF Inv

\* What a step does to the invariant and to the sessions in service.
LEMMA StepInv ==
  ASSUME Inv, [Next]_vars
  PROVE  /\ Inv'
         /\ \/ InService' = InService
            \/ \E c \in InService : InService' = InService \ {c}
            \/ \E c \in Clients \ InService : /\ InService' = InService \cup {c}
                                              /\ \E l \in Listeners : Accept(l)
  <1>1. ASSUME NEW c \in Clients, SessionStep(c)
        PROVE  \/ InService' = InService
               \/ c \in InService /\ InService' = InService \ {c}
    <2>1. \/ \E s \in Stages \cup {stage[c]} : stage' = [stage EXCEPT ![c] = s]
          \/ stage' = [stage EXCEPT ![c] = "away"]
      <3>1. stage = [stage EXCEPT ![c] = stage[c]]
        BY DEF Inv, TypeOK
      <3>2. CASE CheckAcl(c) \/ Peek(c) \/ CheckLimit(c) \/ Resolve(c)
        BY <3>2 DEF CheckAcl, Peek, CheckLimit, Resolve, Continue, Rejected, Failed, Finish,
                    Stages
      <3>3. CASE Candidates(c) \/ Connect(c) \/ Replay(c) \/ Spliced(c)
        BY <3>1, <3>3 DEF Candidates, Connect, Replay, Spliced, Continue, Failed, Closed,
                          Finish, Stages
      <3> QED BY <1>1, <3>2, <3>3 DEF SessionStep
    <2>2. stage[c] \in Stages
      BY <1>1 DEF SessionStep, CheckAcl, Peek, CheckLimit, Resolve, Candidates, Connect,
                  Replay, Spliced, SessionAt, Stages
    <2>3. stage \in [Clients -> {"away", "backlog"} \cup Stages]
      BY DEF Inv, TypeOK
    <2>4. "away" \notin Stages
      BY DEF Stages
    <2> QED BY <2>1, <2>2, <2>3, <2>4 DEF InService
  <1>2. CASE \E c \in Clients : SessionStep(c)
    BY <1>1, <1>2, SessionInv
  <1>3. CASE \E l \in Listeners : ListenerStep(l)
    BY <1>3, ListenerInv
  <1>4. CASE \E c \in Clients, l \in Listeners : Arrive(c, l)
    BY <1>4, ArriveInv
  <1>5. CASE Signal \/ StopListeners \/ Return \/ UNCHANGED vars
    BY <1>5, MainInv
  <1> QED BY <1>2, <1>3, <1>4, <1>5 DEF Next

------------------------------------------------------------------------------
(* The metrics *)

\* What an update of one metric leaves in all of them.
LEMMA MetricsAt ==
  ASSUME NEW m \in [Metrics -> Int], NEW f \in Metrics, NEW n \in Int
  PROVE  /\ Add(m, f, n) \in [Metrics -> Int]
         /\ \A g \in Metrics : Add(m, f, n)[g] = IF g = f THEN m[g] + n ELSE m[g]
  BY DEF Add

\* The sets whose sizes the metrics count.
LEMMA OpenedSets ==
  ASSUME TypeOK
  PROVE  /\ Opened \in SUBSET Clients /\ Cardinality(Opened) \in Nat
         /\ InService \in SUBSET Clients /\ Cardinality(InService) \in Nat
         /\ metrics \in [Metrics -> Int]
         /\ \A f \in Metrics : metrics[f] \in Int
         /\ {"accepted", "rejected", "errors", "active", "closed"} \subseteq Metrics
  <1>1. Opened \in SUBSET Clients
    BY DEF Opened
  <1>2. Cardinality(Opened) \in Nat
    BY <1>1, CountOne, RelayAssumption
  <1>3. metrics \in [Metrics -> Int]
    BY DEF TypeOK
  <1>4. {"accepted", "rejected", "errors", "active", "closed"} \subseteq Metrics
    BY DEF Metrics
  <1> QED BY <1>1, <1>2, <1>3, <1>4, CountedSets

\* What a step of handle_connection does to the stage and to the metrics: the
\* session goes on on the same side of connection_opened, is opened, or ends with
\* one outcome and with the flag that says on which side it was.
LEMMA SessionKinds ==
  ASSUME Inv, NEW c \in Clients, SessionStep(c)
  PROVE  \/ /\ UNCHANGED metrics
            /\ \E s \in Stages : /\ stage' = [stage EXCEPT ![c] = s]
                                 /\ stage[c] \in Stages
                                 /\ (s \in {"replay", "splice"}) <=>
                                      (stage[c] \in {"replay", "splice"})
         \/ /\ stage[c] = "connect" /\ stage' = [stage EXCEPT ![c] = "replay"]
            /\ metrics' = Add(Add(metrics, "total", 1), "active", 1)
         \/ \E f \in {"rejected", "errors", "closed"} :
              \/ /\ stage[c] \in Stages \ {"replay", "splice"}
                 /\ Finish(c, f, FALSE)
              \/ /\ stage[c] \in {"replay", "splice"}
                 /\ Finish(c, f, TRUE)
  <1>1. CASE CheckAcl(c) \/ Peek(c) \/ CheckLimit(c) \/ Resolve(c)
    BY <1>1 DEF CheckAcl, Peek, CheckLimit, Resolve, Continue, Rejected, Failed, SessionAt,
                Stages
  <1>2. CASE Candidates(c)
    BY <1>2 DEF Candidates, Continue, Failed, SessionAt, Stages
  <1>3. CASE Connect(c)
    <2>1. stage = [stage EXCEPT ![c] = stage[c]] /\ stage[c] = "connect"
      BY <1>3 DEF Inv, TypeOK, Connect, SessionAt
    <2> QED BY <1>3, <2>1 DEF Connect, Failed, Stages
  <1>4. CASE Replay(c) \/ Spliced(c)
    BY <1>4 DEF Replay, Spliced, Continue, Failed, Closed, SessionAt, Stages
  <1> QED BY <1>1, <1>2, <1>3, <1>4 DEF SessionStep

\* A step of a session keeps the gauge and the outcomes right.
LEMMA SessionMetrics ==
  ASSUME Inv, MetricsExact, NEW c \in Clients, SessionStep(c)
  PROVE  MetricsExact'
  <1>0. TypeOK /\ stage \in [Clients -> {"away", "backlog"} \cup Stages]
    BY DEF Inv, TypeOK
  <1>1. ASSUME UNCHANGED metrics, NEW s \in Stages, stage' = [stage EXCEPT ![c] = s],
               stage[c] \in Stages,
               (s \in {"replay", "splice"}) <=> (stage[c] \in {"replay", "splice"})
        PROVE  MetricsExact'
    <2>1. InService' = InService /\ Opened' = Opened
      BY <1>0, <1>1 DEF InService, Opened
    <2> QED BY <1>1, <2>1 DEF MetricsExact, GaugeExact, EveryConnectionAccounted
  <1>2. ASSUME stage[c] = "connect", stage' = [stage EXCEPT ![c] = "replay"],
               metrics' = Add(Add(metrics, "total", 1), "active", 1)
        PROVE  MetricsExact'
    <2>1. InService' = InService /\ Opened' = Opened \cup {c} /\ c \notin Opened
      BY <1>0, <1>2 DEF InService, Opened, Stages
    <2>2. Cardinality(Opened') = Cardinality(Opened) + 1
      BY <1>0, <2>1, OpenedSets, CountOne, RelayAssumption
    <2>3. "total" \in Metrics
      BY DEF Metrics
    <2>4. /\ Add(metrics, "total", 1) \in [Metrics -> Int]
          /\ \A g \in Metrics : Add(metrics, "total", 1)[g] =
                                  IF g = "total" THEN metrics[g] + 1 ELSE metrics[g]
      <3>1. metrics \in [Metrics -> Int]
        BY <1>0 DEF TypeOK
      <3> QED BY <2>3, <3>1 DEF Add
    <2>5. \A g \in Metrics :
            metrics'[g] = IF g = "active" THEN Add(metrics, "total", 1)[g] + 1
                                          ELSE Add(metrics, "total", 1)[g]
      <3>1. "active" \in Metrics
        BY DEF Metrics
      <3> QED BY <1>2, <2>4, <3>1, MetricsAt
    <2>6. /\ metrics'["active"] = metrics["active"] + 1
          /\ \A f \in {"accepted", "rejected", "errors", "closed"} : metrics'[f] = metrics[f]
      BY <1>0, <2>4, <2>5, OpenedSets
    <2> QED BY <2>1, <2>2, <2>6 DEF MetricsExact, GaugeExact, EveryConnectionAccounted
  <1>3. ASSUME NEW f \in {"rejected", "errors", "closed"}, NEW o \in BOOLEAN,
               Finish(c, f, o), stage[c] \in Stages, o <=> c \in Opened
        PROVE  MetricsExact'
    <2> DEFINE n == IF o THEN -1 ELSE 0
    <2>1. /\ stage' = [stage EXCEPT ![c] = "away"] /\ n \in Int
          /\ metrics' = Add(Add(metrics, f, 1), "active", n)
      BY <1>3 DEF Finish
    <2>2. InService' = InService \ {c} /\ c \in InService /\ Opened' = Opened \ {c}
      BY <1>0, <1>3, <2>1 DEF InService, Opened, Stages
    <2>3. Cardinality(InService') = Cardinality(InService) - 1
      BY <1>0, <2>2, OpenedSets, CountOne, RelayAssumption
    <2>4. Cardinality(Opened') = Cardinality(Opened) + n
      <3>1. CASE o
        BY <1>0, <1>3, <2>2, <3>1, OpenedSets, CountOne, RelayAssumption
      <3>2. CASE ~o
        <4>1. Opened' = Opened
          BY <1>3, <2>2, <3>2
        <4> QED BY <1>0, <3>2, <4>1, OpenedSets
      <3> QED BY <3>1, <3>2
    <2> HIDE DEF n
    <2>5. /\ Add(metrics, f, 1) \in [Metrics -> Int] /\ f \in Metrics
          /\ \A g \in Metrics : Add(metrics, f, 1)[g] =
                                  IF g = f THEN metrics[g] + 1 ELSE metrics[g]
      <3>1. metrics \in [Metrics -> Int] /\ f \in Metrics
        BY <1>0 DEF TypeOK, Metrics
      <3> QED BY <3>1 DEF Add
    <2>6. \A g \in Metrics : metrics'[g] = IF g = "active" THEN Add(metrics, f, 1)[g] + n
                                                           ELSE Add(metrics, f, 1)[g]
      <3>1. "active" \in Metrics
        BY DEF Metrics
      <3> QED BY <2>1, <2>5, <3>1, MetricsAt
    <2>7. \A g \in Metrics \ {"active"} : metrics'[g] = IF g = f THEN metrics[g] + 1 ELSE metrics[g]
      BY <2>5, <2>6
    <2>8. GaugeExact'
      <3>1. metrics'["active"] = metrics["active"] + n
        BY <1>0, <2>5, <2>6, OpenedSets
      <3> QED BY <2>4, <3>1 DEF MetricsExact, GaugeExact
    <2>9. EveryConnectionAccounted'
      <3>1. /\ metrics'["accepted"] = metrics["accepted"]
            /\ metrics'["rejected"] = metrics["rejected"] + (IF f = "rejected" THEN 1 ELSE 0)
            /\ metrics'["errors"] = metrics["errors"] + (IF f = "errors" THEN 1 ELSE 0)
            /\ metrics'["closed"] = metrics["closed"] + (IF f = "closed" THEN 1 ELSE 0)
        BY <1>0, <2>7, OpenedSets
      <3>2. /\ metrics["accepted"] \in Int /\ metrics["rejected"] \in Int
            /\ metrics["errors"] \in Int /\ metrics["closed"] \in Int
        BY <1>0, OpenedSets
      <3> QED BY <1>0, <2>3, <3>1, <3>2, OpenedSets DEF MetricsExact, EveryConnectionAccounted
    <2> QED BY <2>8, <2>9 DEF MetricsExact
  <1>4. \A s \in Stages : s \in {"replay", "splice"} \/ s \in Stages \ {"replay", "splice"}
    OBVIOUS
  <1>5. (c \in Opened <=> stage[c] \in {"replay", "splice"})
        /\ {"replay", "splice"} \subseteq Stages
    BY DEF Opened, Stages
  <1> QED BY <1>1, <1>2, <1>3, <1>5, SessionKinds

\* A step of a listener keeps the gauge and the outcomes right.
LEMMA ListenerMetrics ==
  ASSUME Inv, MetricsExact, NEW l \in Listeners, ListenerStep(l)
  PROVE  MetricsExact'
  <1>0. TypeOK
    BY DEF Inv
  <1>1. CASE Accept(l)
    <2>1. PICK c \in Clients \ InService : InService' = InService \cup {c}
      BY <1>1, AcceptInv
    <2>2. Opened' = Opened
      <3>1. backlog[l] \in Seq(Clients) /\ backlog[l] # <<>>
        BY <1>0, <1>1, BacklogType DEF Accept
      <3>2. Head(backlog[l]) = backlog[l][1] /\ 1 \in 1..Len(backlog[l])
        BY <3>1
      <3>3. stage[Head(backlog[l])] = "backlog"
        BY <3>2 DEF Inv, BacklogOK
      <3>4. stage' = [stage EXCEPT ![Head(backlog[l])] = "acl"]
        BY <1>1 DEF Accept
      <3> QED BY <1>0, <3>3, <3>4 DEF Opened, TypeOK
    <2>3. Cardinality(InService') = Cardinality(InService) + 1
      BY <1>0, <2>1, OpenedSets, CountOne, RelayAssumption
    <2>4. metrics' = Add(metrics, "accepted", 1)
      BY <1>1 DEF Accept
    <2>5. \A g \in Metrics : metrics'[g] = IF g = "accepted" THEN metrics[g] + 1 ELSE metrics[g]
      <3>1. metrics \in [Metrics -> Int] /\ "accepted" \in Metrics
        BY <1>0 DEF TypeOK, Metrics
      <3> QED BY <2>4, <3>1 DEF Add
    <2>6. /\ metrics'["accepted"] = metrics["accepted"] + 1
          /\ metrics'["active"] = metrics["active"]
          /\ metrics'["rejected"] = metrics["rejected"]
          /\ metrics'["errors"] = metrics["errors"]
          /\ metrics'["closed"] = metrics["closed"]
      BY <1>0, <2>5, OpenedSets
    <2>7. /\ metrics["accepted"] \in Int /\ metrics["rejected"] \in Int
          /\ metrics["errors"] \in Int /\ metrics["closed"] \in Int
      BY <1>0, OpenedSets
    <2>8. GaugeExact'
      BY <2>2, <2>6 DEF MetricsExact, GaugeExact
    <2>9. EveryConnectionAccounted'
      BY <1>0, <2>3, <2>6, <2>7, OpenedSets DEF MetricsExact, EveryConnectionAccounted
    <2> QED BY <2>8, <2>9 DEF MetricsExact
  <1>2. CASE UNCHANGED <<stage, metrics>>
    BY <1>2 DEF MetricsExact, GaugeExact, EveryConnectionAccounted, InService, Opened
  <1>3. Accept(l) \/ UNCHANGED <<stage, metrics>>
    BY DEF ListenerStep, Bind, CheckShutdown, AcquireNow, Enqueue, TakeGrant,
           SelectShutdown, AcceptError
  <1> QED BY <1>1, <1>2, <1>3

\* Every step keeps them right.
LEMMA MetricsStep ==
  ASSUME Inv, MetricsExact, [Next]_vars
  PROVE  MetricsExact'
  <1>1. CASE \E c \in Clients : SessionStep(c)
    BY <1>1, SessionMetrics
  <1>2. CASE \E l \in Listeners : ListenerStep(l)
    BY <1>2, ListenerMetrics
  <1>3. ASSUME NEW c \in Clients, NEW l \in Listeners, Arrive(c, l)
        PROVE  MetricsExact'
    <2>1. InService' = InService /\ metrics' = metrics
      BY <1>3, ArriveInv DEF Arrive
    <2>2. Opened' = Opened
      BY <1>3 DEF Arrive, Opened, Inv, TypeOK
    <2> QED BY <2>1, <2>2 DEF MetricsExact, GaugeExact, EveryConnectionAccounted
  <1>4. CASE Signal \/ StopListeners \/ Return \/ UNCHANGED vars
    <2>1. UNCHANGED <<stage, metrics>>
      BY <1>4 DEF Signal, StopListeners, Return, vars
    <2> QED BY <2>1 DEF MetricsExact, GaugeExact, EveryConnectionAccounted, InService, Opened
  <1> QED BY <1>1, <1>2, <1>3, <1>4 DEF Next

------------------------------------------------------------------------------
(* Connections accepted after the signal *)

\* Nothing is late before the signal, and a listener that has accepted one late
\* connection is at the top of its loop, where the flag is looked at, or gone.
LateOK == \A l \in Listeners :
            \/ late[l] = 0
            \/ late[l] = 1 /\ shutdown /\ lpc[l] \in {"loop", "stopped"}

\* Every step keeps the account of the connections accepted after the stop.
LEMMA LateStep ==
  ASSUME Inv, LateOK, [Next]_vars
  PROVE  LateOK'
  <1>0. /\ late \in [Listeners -> Nat]
        /\ lpc \in [Listeners -> {"bind", "loop", "select", "waiting", "accept", "stopped"}]
    BY DEF Inv, TypeOK
  <1>1. ASSUME NEW l \in Listeners, ListenerStep(l)
        PROVE  LateOK'
    <2>1. shutdown' = shutdown /\ \E x : lpc' = [lpc EXCEPT ![l] = x]
      BY <1>1 DEF ListenerStep, Bind, CheckShutdown, AcquireNow, Enqueue, TakeGrant,
                  SelectShutdown, Accept, AcceptError, ListenerAt
    <2>2. \A m \in Listeners \ {l} : lpc'[m] = lpc[m]
      BY <1>0, <2>1
    <2>3. CASE Accept(l)
      <3>1. lpc[l] = "accept" /\ lpc' = [lpc EXCEPT ![l] = "loop"]
        BY <2>3 DEF Accept, ListenerAt
      <3>2. late[l] = 0 /\ lpc'[l] = "loop"
        BY <1>0, <3>1 DEF LateOK
      <3>3. late' = IF shutdown THEN [late EXCEPT ![l] = @ + 1] ELSE late
        BY <2>3 DEF Accept
      <3>4. CASE shutdown
        <4>1. late'[l] = 1 /\ \A m \in Listeners \ {l} : late'[m] = late[m]
          BY <1>0, <3>2, <3>3, <3>4
        <4> QED BY <2>1, <2>2, <3>2, <3>4, <4>1 DEF LateOK
      <3>5. CASE ~shutdown
        <4>1. late' = late
          BY <3>3, <3>5
        <4> QED BY <2>1, <2>2, <3>2, <3>5, <4>1 DEF LateOK
      <3> QED BY <3>4, <3>5
    <2>4. CASE ~Accept(l)
      <3>1. late' = late
        BY <1>1, <2>4 DEF ListenerStep, Bind, CheckShutdown, AcquireNow, Enqueue, TakeGrant,
                          SelectShutdown, AcceptError
      <3>2. ASSUME late[l] = 1, shutdown, lpc[l] \in {"loop", "stopped"}
            PROVE  lpc' = [lpc EXCEPT ![l] = "stopped"]
        BY <1>1, <2>4, <3>2 DEF ListenerStep, Bind, CheckShutdown, AcquireNow, Enqueue,
                                TakeGrant, SelectShutdown, AcceptError, ListenerAt
      <3>3. late[l] = 0 \/ (late[l] = 1 /\ shutdown /\ lpc'[l] = "stopped")
        BY <1>0, <3>2 DEF LateOK
      <3> QED BY <2>1, <2>2, <3>1, <3>3 DEF LateOK
    <2> QED BY <2>3, <2>4
  <1>2. CASE \E c \in Clients : SessionStep(c)
    <2>1. UNCHANGED <<lpc, shutdown, late>>
      BY <1>2 DEF SessionStep, CheckAcl, Peek, CheckLimit, Resolve, Candidates, Connect,
                  Replay, Spliced
    <2> QED BY <2>1 DEF LateOK
  <1>3. CASE \E c \in Clients, l \in Listeners : Arrive(c, l)
    <2>1. UNCHANGED <<lpc, shutdown, late>>
      BY <1>3 DEF Arrive
    <2> QED BY <2>1 DEF LateOK
  <1>4. CASE Signal \/ StopListeners \/ Return \/ UNCHANGED vars
    <2>1. UNCHANGED <<lpc, late>> /\ (shutdown => shutdown')
      BY <1>4 DEF Signal, StopListeners, Return, vars
    <2> QED BY <2>1 DEF LateOK
  <1> QED BY <1>1, <1>2, <1>3, <1>4 DEF Next

------------------------------------------------------------------------------
(* Theorems *)

\* The state of the service keeps its shape: above all, no permit is taken that
\* is not there.
THEOREM TypeCorrect == Spec => []TypeOK
  <1>1. Inv => TypeOK
    BY DEF Inv
  <1> QED BY <1>1, InitInv, StepInv, PTL DEF Spec

\* Permits are neither lost nor made up by the select! of the accept loop, by
\* dropped acquires, by failed accepts or by sessions, however they end.
THEOREM PermitsConserved == Spec => []SlotsConserved
  <1>1. Inv => SlotsConserved
    BY DEF Inv
  <1> QED BY <1>1, InitInv, StepInv, PTL DEF Spec

\* The accept loops and sessions implement the gate that max_connections
\* promises: a listener that accepts holds a permit, so that fewer than Slots
\* sessions are in service when it starts one.
THEOREM GateImplemented == Spec => ImplementsGate
  <1>1. Init => Gate!GateInit
    BY InitInv DEF Gate!GateInit
  <1>2. Inv /\ [Next]_vars => [Gate!GateNext]_InService
    <2> SUFFICES ASSUME Inv, [Next]_vars PROVE [Gate!GateNext]_InService
      OBVIOUS
    <2>1. ASSUME NEW c \in InService, InService' = InService \ {c}
          PROVE  Gate!GateNext
      <3>1. c \in Clients
        BY DEF InService
      <3> QED BY <2>1, <3>1 DEF Gate!GateNext, Gate!Leave
    <2>2. ASSUME NEW c \in Clients \ InService, InService' = InService \cup {c},
                 NEW l \in Listeners, Accept(l)
          PROVE  Gate!GateNext
      <3>1. l \in Holding
        BY <2>2 DEF Accept, ListenerAt, Holding
      <3>2. Cardinality(Holding \ {l}) = Cardinality(Holding) - 1
            /\ Holding \ {l} \in SUBSET Listeners
        BY <3>1, CountedSets, CountOne, RelayAssumption DEF Inv
      <3>3. Cardinality(Holding \ {l}) \in Nat
        BY <3>2, CountOne, RelayAssumption
      <3>4. Cardinality(InService) < Slots
        BY <3>2, <3>3, SlotsSum
      <3>5. Gate!Cardinality(InService) = Cardinality(InService)
        BY DEF Gate!Cardinality, Cardinality
      <3> QED BY <2>2, <3>4, <3>5 DEF Gate!GateNext, Gate!Admit
    <2> QED BY <2>1, <2>2, StepInv
  <1> QED BY <1>1, <1>2, InitInv, StepInv, PTL DEF Spec, ImplementsGate, Gate!GateSpec
\* The counters that metrics.rs exports are right at every instant: the gauge is
\* the number of sessions between connection_opened and their end, and every
\* accepted connection is in service or was counted as one outcome.
THEOREM MetricsCorrect == Spec => []MetricsExact
  <1>1. Init => MetricsExact
    <2> SUFFICES ASSUME Init PROVE MetricsExact
      OBVIOUS
    <2>1. Opened = {} /\ InService = {}
      BY InitInv DEF Init, Opened
    <2>2. \A f \in Metrics : metrics[f] = 0
      BY DEF Init
    <2>3. /\ metrics["active"] = 0 /\ metrics["accepted"] = 0 /\ metrics["rejected"] = 0
          /\ metrics["errors"] = 0 /\ metrics["closed"] = 0
      BY <2>2 DEF Metrics
    <2> QED BY <2>1, <2>3, FS_EmptySet DEF MetricsExact, GaugeExact, EveryConnectionAccounted
  <1> QED BY <1>1, InitInv, StepInv, MetricsStep, PTL DEF Spec

\* After the signal a listener accepts at most one more connection, because the
\* flag is looked at before every select!.
THEOREM LateAcceptBounded == Spec => []OneLateAccept
  <1>1. Init => LateOK
    BY DEF Init, LateOK
  <1>2. LateOK => OneLateAccept
    BY DEF LateOK, OneLateAccept
  <1> QED BY <1>1, <1>2, InitInv, StepInv, LateStep, PTL DEF Spec
=============================================================================

---------------------------- MODULE PanelDbProofs ----------------------------
(***************************************************************************)
(* Proofs about PanelDb, for every length of the log and the queue, every  *)
(* set of lines and any number of faults.                                  *)
(***************************************************************************)
EXTENDS PanelDb, FiniteSetTheorems, SequenceTheorems, WellFoundedInduction, TLAPS

------------------------------------------------------------------------------
(* The sum over the days *)

\* A set of numbers that has 0 and with each number the next one has them all.
LEMMA SetInduction ==
  ASSUME NEW S, 0 \in S, \A n \in Nat : n \in S => n + 1 \in S
  PROVE  Nat \subseteq S
  <1> SUFFICES ASSUME Nat \ S # {} PROVE FALSE
    OBVIOUS
  <1>1. PICK x \in Nat \ S : \A y \in Nat \ S : <<y, x>> \notin OpToRel(<, Nat)
    BY NatLessThanWellFounded, WFMin
  <1>2. \A y \in Nat \ S : ~(y < x)
    BY <1>1 DEF OpToRel
  <1>3. x # 0
    <2>1. x \notin S
      OBVIOUS
    <2> QED BY <2>1
  <1>4. x - 1 \in Nat /\ x - 1 < x /\ x = (x - 1) + 1
    BY <1>3
  <1>5. x - 1 \in S
    BY <1>2, <1>4
  <1> QED BY <1>4, <1>5

\* The element that a fold takes out of a set first, and what it computes for every set of
\* days from the sums of the smaller ones.
Pick(s) == CHOOSE x \in s : TRUE
SumEq(f, it, s) == it[s] = IF s = {} THEN 0 ELSE f[Pick(s)] + it[s \ {Pick(s)}]
SumOf(f) == CHOOSE it : it = [s \in SUBSET Days |->
                                IF s = {} THEN 0 ELSE f[Pick(s)] + it[s \ {Pick(s)}]]

\* What is stored is that sum.
LEMMA StoredIsSum == Stored = SumOf(byIp)[Days]
  BY DEF Stored, MapThenSumSet, MapThenFoldSet, SumOf, Pick

\* The same after a step.
LEMMA StoredIsSumNext == (Stored = SumOf(byIp)[Days])'
  BY StoredIsSum, PTL

\* Sets of days and their sizes.
LEMMA DaySets ==
  /\ IsFiniteSet(Days) /\ Cardinality(Days) \in Nat
  /\ \A s \in SUBSET Days :
       /\ IsFiniteSet(s) /\ Cardinality(s) \in Nat /\ Cardinality(s) <= Cardinality(Days)
       /\ s # {} => /\ Pick(s) \in s /\ Pick(s) \in Days /\ s \ {Pick(s)} \in SUBSET Days
                    /\ Cardinality(s \ {Pick(s)}) = Cardinality(s) - 1
                    /\ Cardinality(s) # 0
  <1>1. IsFiniteSet(Days) /\ Cardinality(Days) \in Nat
    BY TrafficAssumption, FS_Interval, FS_CardinalityType DEF Days
  <1>2. ASSUME NEW s \in SUBSET Days
        PROVE  IsFiniteSet(s) /\ Cardinality(s) \in Nat /\ Cardinality(s) <= Cardinality(Days)
    BY <1>1, FS_Subset, FS_CardinalityType
  <1>3. ASSUME NEW s \in SUBSET Days, s # {}
        PROVE  /\ Pick(s) \in s /\ Pick(s) \in Days /\ s \ {Pick(s)} \in SUBSET Days
               /\ Cardinality(s \ {Pick(s)}) = Cardinality(s) - 1
               /\ Cardinality(s) # 0
    <2>1. Pick(s) \in s
      BY <1>3 DEF Pick
    <2>2. Cardinality(s) # 0
      BY <1>2, <1>3, FS_EmptySet
    <2>3. Cardinality(s \ {Pick(s)}) = Cardinality(s) - 1
      BY <1>2, <2>1, FS_RemoveElement
    <2> QED BY <2>1, <2>2, <2>3
  <1> QED BY <1>1, <1>2, <1>3

\* There is a function that satisfies the equation.
LEMMA SumExists ==
  ASSUME NEW f \in [Days -> Nat]
  PROVE  \E it \in [SUBSET Days -> Nat] : \A s \in SUBSET Days : SumEq(f, it, s)
  <1> DEFINE Upto(it, n) == \A s \in SUBSET Days : Cardinality(s) <= n => SumEq(f, it, s)
             S == {n \in Nat : \E it \in [SUBSET Days -> Nat] : Upto(it, n)}
  <1>1. 0 \in S
    <2> DEFINE it == [s \in SUBSET Days |-> 0]
    <2>1. it \in [SUBSET Days -> Nat]
      OBVIOUS
    <2>2. ASSUME NEW s \in SUBSET Days, Cardinality(s) <= 0 PROVE SumEq(f, it, s)
      <3>1. IsFiniteSet(s) /\ Cardinality(s) \in Nat
        BY DaySets
      <3>2. s = {}
        BY <2>2, <3>1, FS_EmptySet
      <3>3. it[s] = 0
        OBVIOUS
      <3> QED BY <3>2, <3>3 DEF SumEq
    <2> QED BY <2>1, <2>2
  <1>2. ASSUME NEW n \in Nat, n \in S PROVE n + 1 \in S
    <2>1. PICK it \in [SUBSET Days -> Nat] : Upto(it, n)
      BY <1>2
    <2> DEFINE jt == [s \in SUBSET Days |->
                        IF Cardinality(s) <= n THEN it[s]
                        ELSE IF s = {} THEN 0 ELSE f[Pick(s)] + it[s \ {Pick(s)}]]
    <2>2. jt \in [SUBSET Days -> Nat]
      <3> SUFFICES ASSUME NEW s \in SUBSET Days
                   PROVE  (IF Cardinality(s) <= n THEN it[s]
                           ELSE IF s = {} THEN 0 ELSE f[Pick(s)] + it[s \ {Pick(s)}]) \in Nat
        OBVIOUS
      <3>1. CASE s = {}
        BY <3>1
      <3>2. CASE s # {}
        <4>1. f[Pick(s)] \in Nat /\ it[s \ {Pick(s)}] \in Nat /\ it[s] \in Nat
          BY <3>2, DaySets
        <4> QED BY <4>1
      <3> QED BY <3>1, <3>2
    <2>3. ASSUME NEW s \in SUBSET Days, Cardinality(s) <= n + 1 PROVE SumEq(f, jt, s)
      <3>1. CASE s = {}
        <4>1. Cardinality(s) <= n
          BY <3>1, FS_EmptySet
        <4>2. jt[s] = it[s]
          BY <4>1
        <4>3. SumEq(f, it, s)
          BY <2>1, <4>1
        <4> HIDE DEF jt
        <4> QED BY <3>1, <4>2, <4>3 DEF SumEq
      <3>2. CASE s # {}
        <4> DEFINE t == s \ {Pick(s)}
        <4>1. t \in SUBSET Days /\ Cardinality(t) <= n
          BY <2>3, <3>2, DaySets
        <4>2. jt[t] = it[t]
          BY <4>1
        <4>3. jt[s] = f[Pick(s)] + it[t]
          <5>1. CASE Cardinality(s) <= n
            <6>1. SumEq(f, it, s)
              BY <2>1, <5>1
            <6> QED BY <3>2, <5>1, <6>1 DEF SumEq
          <5>2. CASE ~(Cardinality(s) <= n)
            <6>1. jt[s] = IF s = {} THEN 0 ELSE f[Pick(s)] + it[t]
              BY <5>2
            <6> QED BY <3>2, <6>1
          <5> QED BY <5>1, <5>2
        <4> HIDE DEF jt
        <4> QED BY <3>2, <4>2, <4>3 DEF SumEq
      <3> QED BY <3>1, <3>2
    <2>4. Upto(jt, n + 1)
      BY <2>3
    <2> HIDE DEF jt, Upto
    <2> QED BY <2>2, <2>4
  <1> HIDE DEF S
  <1>3. Cardinality(Days) \in S
    BY <1>1, <1>2, SetInduction, DaySets
  <1>4. PICK it \in [SUBSET Days -> Nat] : Upto(it, Cardinality(Days))
    BY <1>3 DEF S
  <1> QED BY <1>4, DaySets

\* So the sum satisfies it.
LEMMA SumFacts ==
  ASSUME NEW f \in [Days -> Nat]
  PROVE  \A s \in SUBSET Days : SumEq(f, SumOf(f), s)
  <1> DEFINE Body(it) == [s \in SUBSET Days |->
                            IF s = {} THEN 0 ELSE f[Pick(s)] + it[s \ {Pick(s)}]]
  <1>1. PICK it \in [SUBSET Days -> Nat] : \A s \in SUBSET Days : SumEq(f, it, s)
    BY SumExists
  <1>2. it = Body(it)
    BY <1>1 DEF SumEq
  <1>3. SumOf(f) = Body(SumOf(f))
    BY <1>2 DEF SumOf
  <1>4. ASSUME NEW s \in SUBSET Days
        PROVE  SumOf(f)[s] = IF s = {} THEN 0 ELSE f[Pick(s)] + SumOf(f)[s \ {Pick(s)}]
    <2>1. SumOf(f)[s] = Body(SumOf(f))[s]
      BY <1>3
    <2> HIDE DEF SumOf
    <2> QED BY <2>1
  <1> QED BY <1>4 DEF SumEq
\* What holds of the empty set, and of a set if it holds without its first element, holds of
\* every set of days.
LEMMA DaySetInduction ==
  ASSUME NEW P, {} \in P,
         \A s \in SUBSET Days : s # {} /\ s \ {Pick(s)} \in P => s \in P
  PROVE  SUBSET Days \subseteq P
  <1> DEFINE S == {n \in Nat : \A s \in SUBSET Days : Cardinality(s) <= n => s \in P}
  <1>1. 0 \in S
    <2> SUFFICES ASSUME NEW s \in SUBSET Days, Cardinality(s) <= 0 PROVE s \in P
      OBVIOUS
    <2>1. IsFiniteSet(s) /\ Cardinality(s) \in Nat
      BY DaySets
    <2>2. s = {}
      BY <2>1, FS_EmptySet
    <2> QED BY <2>2
  <1>2. ASSUME NEW n \in Nat, n \in S PROVE n + 1 \in S
    <2> SUFFICES ASSUME NEW s \in SUBSET Days, Cardinality(s) <= n + 1 PROVE s \in P
      OBVIOUS
    <2>1. CASE s = {}
      BY <2>1
    <2>2. CASE s # {}
      <3>1. s \ {Pick(s)} \in SUBSET Days /\ Cardinality(s \ {Pick(s)}) <= n
        BY <2>2, DaySets
      <3> QED BY <1>2, <2>2, <3>1
    <2> QED BY <2>1, <2>2
  <1> HIDE DEF S
  <1>3. Cardinality(Days) \in S
    BY <1>1, <1>2, SetInduction, DaySets
  <1> QED BY <1>3, DaySets DEF S

\* A sum is a number.
LEMMA SumType ==
  ASSUME NEW f \in [Days -> Nat]
  PROVE  \A s \in SUBSET Days : SumOf(f)[s] \in Nat
  <1> DEFINE P == {s \in SUBSET Days : SumOf(f)[s] \in Nat}
  <1>0. \A s \in SUBSET Days : SumEq(f, SumOf(f), s)
    BY SumFacts
  <1> HIDE DEF SumOf
  <1>1. {} \in P
    <2>1. {} \in SUBSET Days /\ SumEq(f, SumOf(f), {})
      BY <1>0
    <2> QED BY <2>1 DEF SumEq
  <1>2. ASSUME NEW s \in SUBSET Days, s # {}, s \ {Pick(s)} \in P PROVE s \in P
    <2>1. SumOf(f)[s] = f[Pick(s)] + SumOf(f)[s \ {Pick(s)}]
      BY <1>0, <1>2 DEF SumEq
    <2>2. f[Pick(s)] \in Nat
      BY <1>2, DaySets
    <2>3. SumOf(f)[s \ {Pick(s)}] \in Nat
      BY <1>2
    <2> QED BY <2>1, <2>2, <2>3
  <1> HIDE DEF P
  <1>3. SUBSET Days \subseteq P
    BY <1>1, <1>2, DaySetInduction
  <1> QED BY <1>3 DEF P

\* What is added to one day is added to the sum.
LEMMA SumAdds ==
  ASSUME NEW f \in [Days -> Nat], NEW d \in Days, NEW n \in Nat,
         NEW g \in [Days -> Nat], g[d] = f[d] + n, \A e \in Days \ {d} : g[e] = f[e]
  PROVE  SumOf(g)[Days] = SumOf(f)[Days] + n
  <1> DEFINE P == {s \in SUBSET Days : SumOf(g)[s] = SumOf(f)[s] + (IF d \in s THEN n ELSE 0)}
  <1>1. /\ \A s \in SUBSET Days : SumEq(f, SumOf(f), s) /\ SumEq(g, SumOf(g), s)
        /\ \A s \in SUBSET Days : SumOf(f)[s] \in Nat /\ SumOf(g)[s] \in Nat
    BY SumFacts, SumType
  <1> HIDE DEF SumOf
  <1>2. {} \in P
    <2>1. {} \in SUBSET Days /\ SumEq(f, SumOf(f), {}) /\ SumEq(g, SumOf(g), {})
      BY <1>1
    <2>2. SumOf(f)[{}] = 0 /\ SumOf(g)[{}] = 0
      BY <2>1 DEF SumEq
    <2> QED BY <2>1, <2>2
  <1>3. ASSUME NEW s \in SUBSET Days, s # {}, s \ {Pick(s)} \in P PROVE s \in P
    <2> DEFINE x == Pick(s)
               t == s \ {x}
    <2>1. x \in s /\ x \in Days /\ t \in SUBSET Days
      BY <1>3, DaySets
    <2>2. SumOf(f)[s] = f[x] + SumOf(f)[t] /\ SumOf(g)[s] = g[x] + SumOf(g)[t]
      BY <1>1, <1>3 DEF SumEq
    <2>3. SumOf(g)[t] = SumOf(f)[t] + (IF d \in t THEN n ELSE 0)
      BY <1>3
    <2>4. SumOf(f)[t] \in Nat /\ SumOf(g)[t] \in Nat /\ f[x] \in Nat /\ g[x] \in Nat
      BY <1>1, <2>1
    <2>5. CASE x = d
      <3>1. d \notin t /\ d \in s /\ g[x] = f[x] + n
        BY <2>1, <2>5
      <3> HIDE DEF x, t
      <3>2. SumOf(g)[s] = SumOf(f)[s] + n
        BY <2>2, <2>3, <2>4, <3>1
      <3> QED BY <3>1, <3>2
    <2>6. CASE x # d
      <3>1. (d \in t <=> d \in s) /\ g[x] = f[x]
        BY <2>1, <2>6
      <3> HIDE DEF x, t
      <3>2. SumOf(g)[s] = SumOf(f)[s] + (IF d \in s THEN n ELSE 0)
        BY <2>2, <2>3, <2>4, <3>1
      <3> QED BY <3>2
    <2> QED BY <2>5, <2>6
  <1> HIDE DEF P
  <1>4. Days \in P
    BY <1>2, <1>3, DaySetInduction
  <1> QED BY <1>4 DEF P

\* No day has more than the sum.
LEMMA DayBelowSum ==
  ASSUME NEW f \in [Days -> Nat], NEW d \in Days
  PROVE  f[d] <= SumOf(f)[Days]
  <1> DEFINE e == [f EXCEPT ![d] = 0]
  <1>1. e \in [Days -> Nat] /\ f[d] \in Nat
    OBVIOUS
  <1>2. f[d] = e[d] + f[d] /\ \A x \in Days \ {d} : f[x] = e[x]
    BY <1>1
  <1> HIDE DEF e
  <1>3. SumOf(f)[Days] = SumOf(e)[Days] + f[d]
    BY <1>1, <1>2, SumAdds
  <1>4. SumOf(e)[Days] \in Nat
    BY <1>1, SumType
  <1> QED BY <1>1, <1>3, <1>4

\* Without traffic the sum is 0.
LEMMA SumOfZeros == SumOf([d \in Days |-> 0])[Days] = 0
  <1> DEFINE f == [d \in Days |-> 0]
             P == {s \in SUBSET Days : SumOf(f)[s] = 0}
  <1>0. f \in [Days -> Nat] /\ \A d \in Days : f[d] = 0
    OBVIOUS
  <1> HIDE DEF f
  <1>1. \A s \in SUBSET Days : SumEq(f, SumOf(f), s)
    BY <1>0, SumFacts
  <1> HIDE DEF SumOf
  <1>2. {} \in P
    <2>1. {} \in SUBSET Days /\ SumEq(f, SumOf(f), {})
      BY <1>1
    <2> QED BY <2>1 DEF SumEq
  <1>3. ASSUME NEW s \in SUBSET Days, s # {}, s \ {Pick(s)} \in P PROVE s \in P
    <2>1. SumOf(f)[s] = f[Pick(s)] + SumOf(f)[s \ {Pick(s)}]
      BY <1>1, <1>3 DEF SumEq
    <2>2. f[Pick(s)] = 0
      BY <1>0, <1>3, DaySets
    <2> QED BY <1>3, <2>1, <2>2
  <1> HIDE DEF P
  <1>4. Days \in P
    BY <1>2, <1>3, DaySetInduction
  <1> QED BY <1>4 DEF P, f

------------------------------------------------------------------------------
(* The traffic accounting *)

\* The inductive invariant: each sample is in one place, and the history is of numbers.
TrafficInv ==
  /\ recorded \in 0..MaxSamples
  /\ queue \in 0..Capacity /\ batch \in 0..(BatchSize - 1)
  /\ byIp \in [Days -> Nat] /\ flushDay \in Days
  /\ dropped \in Nat /\ lost \in Nat
  /\ SamplesAccounted

\* The stored total, by the sum.
LEMMA StoredFacts ==
  ASSUME byIp \in [Days -> Nat]
  PROVE  Stored \in Nat /\ \A d \in Days : byIp[d] <= Stored
  BY StoredIsSum, SumType, DayBelowSum

\* A batch of n samples that leave the memory is in the tables or lost.
LEMMA ApplyFacts ==
  ASSUME byIp \in [Days -> Nat], flushDay \in Days, lost \in Nat, NEW n \in Nat,
         byIp = byDomain, Stored \in Nat, ~broken => lost = 0, ApplyTrafficBatch(n)
  PROVE  /\ byIp' \in [Days -> Nat] /\ byIp' = byDomain' /\ lost' \in Nat
         /\ Stored' + lost' = Stored + lost + n
         /\ Stored' \in Nat
         /\ ~broken' => lost' = 0
  <1>1. CASE /\ byIp' = [byIp EXCEPT ![flushDay] = @ + n]
             /\ byDomain' = [byDomain EXCEPT ![flushDay] = @ + n]
             /\ UNCHANGED <<lost, broken>>
    <2>1. byIp' \in [Days -> Nat]
      BY <1>1
    <2>2. Stored' = Stored + n
      <3>1. /\ byIp'[flushDay] = byIp[flushDay] + n
            /\ \A d \in Days \ {flushDay} : byIp'[d] = byIp[d]
        BY <1>1
      <3>2. SumOf(byIp')[Days] = SumOf(byIp)[Days] + n
        BY <2>1, <3>1, SumAdds
      <3> QED BY <3>2, StoredIsSum, StoredIsSumNext
    <2> QED BY <1>1, <2>1, <2>2
  <1>2. CASE lost' = lost + n /\ n > 0 /\ broken' = TRUE /\ UNCHANGED tables
    <2>1. UNCHANGED <<byIp, byDomain>>
      BY <1>2 DEF tables
    <2>2. Stored' = Stored
      BY <2>1, StoredIsSum, StoredIsSumNext
    <2> QED BY <1>2, <2>1, <2>2
  <1> QED BY <1>1, <1>2 DEF ApplyTrafficBatch

\* The tables and the history do not change: neither does the total.
LEMMA StoredStays == UNCHANGED tables => Stored' = Stored
  BY StoredIsSum, StoredIsSumNext DEF tables

\* flush_buf empties the buffer.
LEMMA FlushInv ==
  ASSUME TrafficInv, NEW n \in Nat, FlushBuf(n),
         recorded' = recorded, queue' \in 0..Capacity, queue' + n = queue + batch,
         UNCHANGED <<flushDay, dropped>>
  PROVE  TrafficInv'
  <1>1. /\ byIp \in [Days -> Nat] /\ flushDay \in Days /\ lost \in Nat /\ byIp = byDomain
        /\ ~broken => lost = 0
        /\ recorded = queue + batch + Stored + dropped + lost
        /\ recorded \in Nat /\ queue \in Nat /\ batch \in Nat /\ dropped \in Nat
        /\ batch' = 0 /\ ApplyTrafficBatch(n)
    BY TrafficAssumption DEF TrafficInv, SamplesAccounted, FlushBuf
  <1>2. Stored \in Nat
    BY <1>1, StoredFacts
  <1>3. /\ byIp' \in [Days -> Nat] /\ byIp' = byDomain' /\ lost' \in Nat
        /\ Stored' + lost' = Stored + lost + n /\ Stored' \in Nat
        /\ ~broken' => lost' = 0
    BY <1>1, <1>2, ApplyFacts
  <1>4. queue' \in Nat /\ dropped' = dropped /\ queue' + n = queue + batch
        /\ recorded' = recorded /\ n \in Nat
    BY TrafficAssumption
  <1>5. recorded' = queue' + batch' + Stored' + dropped' + lost'
    <2>1. /\ recorded = queue + batch + Stored + dropped + lost /\ batch' = 0
          /\ queue \in Nat /\ batch \in Nat /\ dropped \in Nat /\ lost \in Nat
      BY <1>1
    <2>2. Stored' + lost' = Stored + lost + n /\ Stored' \in Nat /\ lost' \in Nat
      BY <1>3
    <2>3. PICK q1 \in Nat, s1 \in Nat, l1 \in Nat : q1 = queue' /\ s1 = Stored' /\ l1 = lost'
      BY <1>4, <2>2
    <2>4. q1 + n = queue + batch /\ s1 + l1 = Stored + lost + n
      BY <1>4, <2>2, <2>3
    <2>5. recorded = q1 + 0 + s1 + dropped + l1
      BY <1>2, <2>1, <2>4
    <2> QED BY <1>4, <2>1, <2>3, <2>5
  <1>6. SamplesAccounted'
    BY <1>3, <1>5 DEF SamplesAccounted
  <1>7. batch' \in 0..(BatchSize - 1)
    BY <1>1, TrafficAssumption
  <1> QED BY <1>1, <1>3, <1>6, <1>7 DEF TrafficInv

\* Each step of the accounting.
LEMMA TrafficStepInv ==
  ASSUME TrafficInv, TrafficNext
  PROVE  TrafficInv'
  <1>0. /\ recorded \in 0..MaxSamples /\ queue \in 0..Capacity /\ batch \in 0..(BatchSize - 1)
        /\ recorded \in Nat /\ queue \in Nat /\ batch \in Nat /\ Stored \in Nat
        /\ byIp \in [Days -> Nat] /\ flushDay \in Days /\ byIp = byDomain
        /\ dropped \in Nat /\ lost \in Nat /\ (~broken => lost = 0)
        /\ recorded = queue + batch + Stored + dropped + lost
    BY TrafficAssumption, StoredFacts DEF TrafficInv, SamplesAccounted
  <1>1. CASE Record
    <2>1. /\ recorded' = recorded + 1 /\ recorded < MaxSamples
          /\ UNCHANGED <<batch, byIp, byDomain, flushDay, lost, broken>> /\ Stored' = Stored
          /\ \/ queue < Capacity /\ queue' = queue + 1 /\ dropped' = dropped
             \/ dropped' = dropped + 1 /\ queue' = queue
      BY <1>1, StoredStays DEF Record, tables
    <2>2. queue' \in 0..Capacity /\ dropped' \in Nat /\ recorded' \in 0..MaxSamples
      BY <1>0, <2>1, TrafficAssumption
    <2>3. recorded' = queue' + batch' + Stored' + dropped' + lost'
      BY <1>0, <2>1
    <2> QED BY <1>0, <2>1, <2>2, <2>3 DEF TrafficInv, SamplesAccounted
  <1>2. CASE Recv
    <2>1. /\ queue > 0 /\ queue' = queue - 1 /\ queue' \in 0..Capacity
          /\ UNCHANGED <<recorded, flushDay, dropped>>
      BY <1>0, <1>2, TrafficAssumption DEF Recv
    <2>2. CASE batch + 1 >= BatchSize
      <3>1. FlushBuf(batch + 1)
        BY <1>2, <2>2 DEF Recv
      <3> QED BY <1>0, <2>1, <3>1, FlushInv
    <2>3. CASE ~(batch + 1 >= BatchSize)
      <3>1. batch' = batch + 1 /\ UNCHANGED <<byIp, byDomain, lost, broken>> /\ Stored' = Stored
        BY <1>2, <2>3, StoredStays DEF Recv, tables
      <3>2. batch' \in 0..(BatchSize - 1)
        BY <1>0, <2>3, <3>1, TrafficAssumption
      <3>3. recorded' = queue' + batch' + Stored' + dropped' + lost'
        BY <1>0, <2>1, <3>1
      <3> QED BY <1>0, <2>1, <3>1, <3>2, <3>3 DEF TrafficInv, SamplesAccounted
    <2> QED BY <2>2, <2>3
  <1>3. CASE FlushTick
    <2>1. FlushBuf(batch) /\ UNCHANGED <<recorded, queue, flushDay, dropped>>
      BY <1>3 DEF FlushTick
    <2> QED BY <1>0, <2>1, FlushInv
  <1>4. CASE RecvNone
    <2>1. FlushBuf(batch) /\ UNCHANGED <<recorded, queue, flushDay, dropped>>
      BY <1>4 DEF RecvNone
    <2> QED BY <1>0, <2>1, FlushInv
  <1>5. CASE Killed
    <2>1. /\ lost' = lost + queue + batch /\ queue' = 0 /\ batch' = 0 /\ broken' = TRUE
          /\ UNCHANGED <<recorded, byIp, byDomain, flushDay, dropped>> /\ Stored' = Stored
      BY <1>5, StoredStays DEF Killed, tables
    <2>2. /\ queue' \in 0..Capacity /\ batch' \in 0..(BatchSize - 1) /\ lost' \in Nat
          /\ recorded' = queue' + batch' + Stored' + dropped' + lost'
      BY <1>0, <2>1, TrafficAssumption
    <2> QED BY <1>0, <2>1, <2>2 DEF TrafficInv, SamplesAccounted
  <1>6. CASE DropSenders
    <2>1. UNCHANGED <<recorded, queue, batch, byIp, byDomain, flushDay, dropped, lost, broken>>
          /\ Stored' = Stored
      BY <1>6, StoredStays DEF DropSenders, tables
    <2> QED BY <1>0, <2>1 DEF TrafficInv, SamplesAccounted
  <1>7. CASE NextDay
    <2>1. UNCHANGED <<recorded, queue, batch, byIp, byDomain, dropped, lost, broken>>
          /\ Stored' = Stored
      BY <1>7, StoredStays DEF NextDay, tables
    <2>2. flushDay' \in Days
      BY <1>0, <1>7, TrafficAssumption DEF NextDay, Days
    <2> QED BY <1>0, <2>1, <2>2 DEF TrafficInv, SamplesAccounted
  <1> QED BY <1>1, <1>2, <1>3, <1>4, <1>5, <1>6, <1>7 DEF TrafficNext, TrafficTask

\* Nor does a step of the other task disturb the accounting.
LEMMA TrafficStays ==
  ASSUME TrafficInv, UNCHANGED trafficVars
  PROVE  TrafficInv'
  <1>1. /\ UNCHANGED <<recorded, queue, batch, byIp, byDomain, flushDay, dropped, lost, broken>>
        /\ Stored' = Stored
    BY StoredStays DEF trafficVars, tables
  <1> QED BY <1>1 DEF TrafficInv, SamplesAccounted

\* Nothing is counted at the start.
LEMMA TrafficInitInv ==
  ASSUME TrafficInit
  PROVE  TrafficInv
  <1>1. Stored = 0
    BY StoredIsSum, SumOfZeros DEF TrafficInit
  <1>2. byIp \in [Days -> Nat] /\ flushDay \in Days /\ byIp = byDomain
    BY TrafficAssumption DEF TrafficInit, Days
  <1> QED BY <1>1, <1>2, TrafficAssumption DEF TrafficInit, TrafficInv, SamplesAccounted

\* The types follow: no table has more than was recorded.
LEMMA TrafficTypes ==
  ASSUME TrafficInv
  PROVE  TrafficTypeOK
  <1>1. Stored \in Nat /\ \A d \in Days : byIp[d] \in Nat /\ byIp[d] <= Stored
    BY StoredFacts DEF TrafficInv
  <1>2. Stored <= MaxSamples
    BY <1>1, TrafficAssumption DEF TrafficInv, SamplesAccounted
  <1>3. \A d \in Days : byIp[d] \in 0..MaxSamples
    BY <1>1, <1>2, TrafficAssumption
  <1>4. byIp \in [Days -> 0..MaxSamples] /\ byDomain = byIp
    BY <1>3 DEF TrafficInv, SamplesAccounted
  <1> QED BY <1>4 DEF TrafficInv, TrafficTypeOK
------------------------------------------------------------------------------
(* The query log: the inductive invariant *)

\* The file holds the lines since it was last emptied; the buffer holds consecutive lines.
FileOK ==
  /\ said \in Seq(Lines) /\ Len(said) <= MaxLines
  /\ ingested \in Seq(Nat) /\ Len(ingested) = Len(said)
  /\ log \in Seq(Nat) /\ Len(log) <= Len(said)
  /\ \A i \in 1..Len(log) : log[i] = Len(said) - Len(log) + i
  /\ gen \in [file : Nat, offset : Nat, saved : Nat]
  /\ gen.offset <= gen.file /\ gen.saved <= gen.file

TaskOK ==
  /\ offset \in 0..MaxLines /\ saved \in 0..MaxLines /\ len \in 0..MaxLines
  /\ ipc \in {"idle", "open", "rows"} /\ (ipc # "rows" => buf = <<>>)
  /\ buf \in Seq(Nat)
  /\ \A j \in 1..Len(buf) : buf[j] \in 1..Len(said) /\ buf[j] = buf[1] + j - 1
  /\ deletes \in Nat /\ restarts \in Nat /\ failed \in Nat

\* An offset into the file as it is now lies behind handled lines only.
SavedOK ==
  gen.saved = gen.file /\ ~masked =>
    saved <= Len(log) /\ \A i \in 1..saved : ingested[log[i]] > 0

InBuf(n) == \E j \in 1..Len(buf) : buf[j] = n

OffsetOK ==
  gen.offset = gen.file /\ ~masked =>
    /\ offset <= Len(log) /\ (ipc = "open" => len <= Len(log))
    /\ \A i \in 1..offset : ingested[log[i]] > 0 \/ InBuf(log[i])

\* Without a restart and a change between stat and read, the lines are handled in the order
\* in which they were written: those that the task still has to read, or has in its buffer,
\* come after all that were handled.
Clean == restarts = 0 /\ ~crossed
ToRead(l) == l > offset \/ Len(log) < offset
Unhandled(n) == \A m \in n..Len(said) : ingested[m] = 0

OrderOK ==
  Clean =>
    /\ ipc = "open" => len = Len(log) /\ offset < len
    /\ \A l \in 1..Len(log) : ToRead(l) => Unhandled(log[l])
    /\ \A j \in 1..Len(buf) :
         /\ Unhandled(buf[j])
         /\ \A l \in 1..Len(log) : ToRead(l) => buf[j] < log[l]
    /\ \A n \in 1..Len(said) : ingested[n] <= 1

\* Ids are given once; a row has a handled line, an answer that fits it, or none.
RowOK(i) ==
  LET q == rows[i].line
      a == rows[i].answer
  IN /\ rows[i] \in [line : Nat, answer : Nat]
     /\ q \in 1..Len(said) /\ a \in 0..Len(said) /\ ingested[q] > 0
     /\ a = 0 => said[q].kind = "query"
     /\ a # 0 => said[a].kind = "answer"
     /\ a # 0 /\ a # q => /\ said[q].kind = "query" /\ said[q].domain = said[a].domain
                          /\ Clean => q < a

\* What waits under a key is a query with that key, unless its row was deleted.
PendingOK(k) ==
  /\ pending[k] \in 1..(nextId - 1)
  /\ pending[k] \in DOMAIN rows =>
       LET q == said[rows[pending[k]].line]
       IN q.kind = "query" /\ k \in {FullKey(q), DomainKey(q)}

TableOK ==
  /\ nextId \in Nat \ {0} /\ DOMAIN rows \subseteq 1..(nextId - 1)
  /\ \A i \in DOMAIN rows : RowOK(i)
  /\ \A k \in DOMAIN pending : PendingOK(k)

\* As long as no statement failed and nothing was deleted, no id is missing and what
\* waits has no answer yet.
ShownOK ==
  failed = 0 /\ deletes = 0 =>
    /\ DOMAIN rows = 1..(nextId - 1)
    /\ \A k \in DOMAIN pending : rows[pending[k]].answer = 0
    /\ EveryLineShown

LogInv == FileOK /\ TaskOK /\ SavedOK /\ OffsetOK /\ OrderOK /\ TableOK /\ ShownOK

------------------------------------------------------------------------------
(* The query log: steps that do not handle a line *)

\* The numbers.
LEMMA LogNumbers ==
  ASSUME FileOK, TaskOK
  PROVE  /\ Len(said) \in Nat /\ Len(log) \in Nat /\ Len(buf) \in Nat /\ Len(ingested) = Len(said)
         /\ Len(said) <= MaxLines /\ Len(log) <= Len(said) /\ MaxLines \in Nat
         /\ offset \in Nat /\ saved \in Nat /\ len \in Nat
         /\ \A i \in 1..Len(log) : log[i] \in 1..Len(said) /\ log[i] = Len(said) - Len(log) + i
         /\ \A n \in 1..Len(said) : ingested[n] \in Nat /\ said[n] \in Lines
  <1>1. /\ said \in Seq(Lines) /\ ingested \in Seq(Nat) /\ log \in Seq(Nat) /\ buf \in Seq(Nat)
        /\ Len(ingested) = Len(said) /\ Len(said) <= MaxLines /\ Len(log) <= Len(said)
        /\ \A i \in 1..Len(log) : log[i] = Len(said) - Len(log) + i
        /\ offset \in 0..MaxLines /\ saved \in 0..MaxLines /\ len \in 0..MaxLines
        /\ MaxLines \in Nat
    BY LogAssumption DEF FileOK, TaskOK
  <1>2. Len(said) \in Nat /\ Len(log) \in Nat /\ Len(buf) \in Nat
    BY <1>1
  <1>3. offset \in Nat /\ saved \in Nat /\ len \in Nat
    BY <1>1
  <1>4. \A n \in 1..Len(said) : ingested[n] \in Nat /\ said[n] \in Lines
    BY <1>1
  <1>5. \A i \in 1..Len(log) : log[i] \in 1..Len(said)
    BY <1>1, <1>2
  <1> QED BY <1>1, <1>2, <1>3, <1>4, <1>5

\* The rows and what waits for them, in a step that changes neither the rows nor what was
\* written and handled, and puts no key into the map.
LEMMA TableFrame ==
  ASSUME TableOK, ShownOK, UNCHANGED <<said, ingested, rows, nextId, deletes>>,
         failed' = 0 => failed = 0, Clean' => Clean,
         DOMAIN pending' \subseteq DOMAIN pending,
         \A k \in DOMAIN pending' : pending'[k] = pending[k]
  PROVE  TableOK' /\ ShownOK'
  <1>1. \A i \in DOMAIN rows : RowOK(i)'
    BY DEF TableOK, RowOK
  <1>2. \A k \in DOMAIN pending' : PendingOK(k)'
    BY DEF TableOK, PendingOK
  <1>3. TableOK'
    BY <1>1, <1>2 DEF TableOK
  <1>4. EveryLineShown => EveryLineShown'
    BY DEF EveryLineShown
  <1>5. ShownOK'
    BY <1>4 DEF ShownOK
  <1> QED BY <1>3, <1>5

\* logrotate empties the file.
LEMMA RotateInv ==
  ASSUME LogInv, Rotate
  PROVE  LogInv'
  <1>0. FileOK /\ TaskOK /\ SavedOK /\ OffsetOK /\ OrderOK /\ TableOK /\ ShownOK
    BY DEF LogInv
  <1>1. /\ log' = <<>> /\ gen' = [gen EXCEPT !.file = @ + 1]
        /\ crossed' = (crossed \/ ipc = "open")
        /\ UNCHANGED <<said, ingested, masked, rows, nextId, saved, offset, pending, ipc, len, buf,
                       deletes, restarts, failed>>
    BY DEF Rotate, table, task, faults
  <1>2. /\ gen' \in [file : Nat, offset : Nat, saved : Nat] /\ gen'.file = gen.file + 1
        /\ gen'.offset = gen.offset /\ gen'.saved = gen.saved
        /\ gen'.offset < gen'.file /\ gen'.saved < gen'.file
    <2>1. /\ gen \in [file : Nat, offset : Nat, saved : Nat]
          /\ gen.offset <= gen.file /\ gen.saved <= gen.file
      BY <1>0 DEF FileOK
    <2>2. /\ gen' \in [file : Nat, offset : Nat, saved : Nat] /\ gen'.file = gen.file + 1
          /\ gen'.offset = gen.offset /\ gen'.saved = gen.saved
      BY <1>1, <2>1
    <2>3. gen.file \in Nat /\ gen.offset \in Nat /\ gen.saved \in Nat
      BY <2>1
    <2> QED BY <2>1, <2>2, <2>3
  <1>3. Len(log') = 0 /\ log' \in Seq(Nat)
    BY <1>1
  <1>4. FileOK' /\ TaskOK'
    <2>1. FileOK'
      <3>1. gen'.offset <= gen'.file /\ gen'.saved <= gen'.file
        BY <1>2
      <3>2. Len(log') <= Len(said') /\ \A i \in 1..Len(log') : log'[i] = Len(said') - Len(log') + i
        <4>1. Len(said) \in Nat
          BY <1>0 DEF FileOK
        <4> QED BY <1>1, <1>3, <4>1
      <3> QED BY <1>0, <1>1, <1>2, <1>3, <3>1, <3>2 DEF FileOK
    <2>2. TaskOK'
      BY <1>0, <1>1 DEF TaskOK
    <2> QED BY <2>1, <2>2
  <1>5. SavedOK' /\ OffsetOK'
    BY <1>2 DEF SavedOK, OffsetOK, FileOK
  <1>6. Clean' => Clean /\ ipc # "open"
    BY <1>1 DEF Clean
  <1>7. OrderOK'
    <2> SUFFICES ASSUME Clean'
                 PROVE  /\ \A j \in 1..Len(buf) : Unhandled(buf[j])'
                        /\ \A n \in 1..Len(said) : ingested[n] <= 1
      BY <1>1, <1>3, <1>6 DEF OrderOK
    <2> QED BY <1>0, <1>1, <1>6 DEF OrderOK, Unhandled
  <1>8. TableOK' /\ ShownOK'
    BY <1>0, <1>1, <1>6, TableFrame
  <1> QED BY <1>4, <1>5, <1>7, <1>8 DEF LogInv

\* A restart goes back to the saved offset.
LEMMA RestartInv ==
  ASSUME LogInv, Restart
  PROVE  LogInv'
  <1>0. FileOK /\ TaskOK /\ SavedOK /\ OffsetOK /\ OrderOK /\ TableOK /\ ShownOK
    BY DEF LogInv
  <1>1. /\ restarts' = restarts + 1 /\ offset' = saved /\ pending' = NoKeys /\ ipc' = "idle"
        /\ len' = 0 /\ buf' = <<>> /\ gen' = [gen EXCEPT !.offset = gen.saved]
        /\ UNCHANGED <<said, log, rows, nextId, saved, deletes, failed, ingested, crossed, masked>>
    BY DEF Restart, disk, table
  <1>2. /\ gen' \in [file : Nat, offset : Nat, saved : Nat] /\ gen'.file = gen.file
        /\ gen'.offset = gen.saved /\ gen'.saved = gen.saved
    BY <1>0, <1>1 DEF FileOK
  <1>3. FileOK' /\ TaskOK'
    <2>1. FileOK'
      BY <1>0, <1>1, <1>2 DEF FileOK
    <2>2. Len(buf') = 0 /\ buf' \in Seq(Nat) /\ len' \in 0..MaxLines /\ restarts' \in Nat
      BY <1>0, <1>1, LogNumbers DEF TaskOK
    <2>3. TaskOK'
      BY <1>0, <1>1, <2>2 DEF TaskOK
    <2> QED BY <2>1, <2>3
  <1>4. SavedOK' /\ OffsetOK'
    BY <1>0, <1>1, <1>2 DEF SavedOK, OffsetOK
  <1>5. ~Clean'
    BY <1>0, <1>1 DEF Clean, TaskOK
  <1>6. OrderOK'
    BY <1>5 DEF OrderOK
  <1>7. TableOK' /\ ShownOK'
    <2>1. DOMAIN pending' = {}
      BY <1>1 DEF NoKeys
    <2> QED BY <1>0, <1>1, <1>5, <2>1, TableFrame
  <1> QED BY <1>3, <1>4, <1>6, <1>7 DEF LogInv

\* The stat: a file shorter than the offset is read from its start.
LEMMA StatInv ==
  ASSUME LogInv, Stat
  PROVE  LogInv'
  <1> DEFINE start == IF Len(log) < offset THEN 0 ELSE offset
  <1>0. FileOK /\ TaskOK /\ SavedOK /\ OffsetOK /\ OrderOK /\ TableOK /\ ShownOK
    BY DEF LogInv
  <1>1. /\ ipc = "idle" /\ Len(log) # offset /\ offset' = start
        /\ pending' = IF Len(log) < offset THEN NoKeys ELSE pending
        /\ \/ Len(log) = start /\ len' = len /\ ipc' = "idle"
           \/ Len(log) # start /\ len' = Len(log) /\ ipc' = "open"
        /\ gen' = IF start = 0 THEN [gen EXCEPT !.offset = gen.file] ELSE gen
        /\ masked' = (masked \/ (start > 0 /\ gen.offset # gen.file))
        /\ UNCHANGED <<said, log, rows, nextId, saved, buf, deletes, restarts, failed, ingested, crossed>>
    BY DEF Stat, disk, table, faults
  <1>2. /\ gen' \in [file : Nat, offset : Nat, saved : Nat] /\ gen'.file = gen.file
        /\ gen'.saved = gen.saved /\ gen'.offset <= gen'.file
        /\ start = 0 \/ gen'.offset = gen.offset
    BY <1>0, <1>1 DEF FileOK
  <1>3. start \in Nat /\ start <= Len(log) /\ buf = <<>> /\ Len(buf) = 0
    BY <1>0, <1>1, LogNumbers DEF TaskOK
  <1>10. start = 0 \/ start = offset
    OBVIOUS
  <1> HIDE DEF start
  <1>4. FileOK' /\ TaskOK'
    <2>1. offset' \in 0..MaxLines /\ len' \in 0..MaxLines
      BY <1>0, <1>1, <1>3, LogNumbers DEF TaskOK
    <2> QED BY <1>0, <1>1, <1>2, <1>3, <2>1 DEF FileOK, TaskOK
  <1>5. SavedOK'
    BY <1>0, <1>1, <1>2 DEF SavedOK
  <1>6. OffsetOK'
    <2> SUFFICES ASSUME gen'.offset = gen'.file, ~masked'
                 PROVE  /\ offset' <= Len(log) /\ (ipc' = "open" => len' <= Len(log))
                        /\ \A i \in 1..offset' : ingested[log[i]] > 0
      BY <1>1 DEF OffsetOK
    <2>1. CASE start = 0
      BY <1>0, <1>1, <2>1, LogNumbers
    <2>2. CASE start # 0
      <3>1. gen.offset = gen.file /\ ~masked /\ start = offset
        BY <1>1, <1>3, <1>10, <2>2
      <3>2. \A i \in 1..offset : ingested[log[i]] > 0
        BY <1>0, <1>3, <3>1 DEF OffsetOK, InBuf
      <3> QED BY <1>0, <1>1, <1>3, <3>1, <3>2, LogNumbers
    <2> QED BY <2>1, <2>2
  <1>7. Clean' = Clean
    BY <1>1 DEF Clean
  <1>8. OrderOK'
    <2> SUFFICES ASSUME Clean
                 PROVE  /\ ipc' = "open" => len' = Len(log) /\ offset' < len'
                        /\ \A l \in 1..Len(log) : ToRead(l)' => Unhandled(log[l])
                        /\ \A n \in 1..Len(said) : ingested[n] <= 1
      BY <1>1, <1>3, <1>7 DEF OrderOK, Unhandled
    <2>1. ASSUME ipc' = "open" PROVE len' = Len(log) /\ offset' < len'
      BY <1>0, <1>1, <1>3, <2>1, LogNumbers
    <2>2. ASSUME NEW l \in 1..Len(log), ToRead(l)' PROVE ToRead(l)
      <3>1. l > start
        BY <1>0, <1>1, <1>3, <2>2, LogNumbers DEF ToRead
      <3> QED BY <1>0, <1>1, <3>1, LogNumbers DEF ToRead, start
    <2> QED BY <1>0, <2>1, <2>2 DEF OrderOK
  <1>9. TableOK' /\ ShownOK'
    <2>1. DOMAIN pending' \subseteq DOMAIN pending /\ \A k \in DOMAIN pending' : pending'[k] = pending[k]
      BY <1>1 DEF NoKeys
    <2> QED BY <1>0, <1>1, <1>7, <2>1, TableFrame
  <1> QED BY <1>4, <1>5, <1>6, <1>8, <1>9 DEF LogInv

\* What a read from the offset returns.
LEMMA ReadText ==
  ASSUME FileOK, TaskOK, NEW text, text = SubSeq(log, offset + 1, Len(log))
  PROVE  /\ text \in Seq(Nat)
         /\ Len(text) = IF Len(log) < offset THEN 0 ELSE Len(log) - offset
         /\ \A j \in 1..Len(text) : offset + j \in 1..Len(log) /\ text[j] = log[offset + j]
  <1>1. log \in Seq(Nat) /\ offset \in Nat /\ Len(log) \in Nat
    BY LogNumbers DEF FileOK
  <1>2. CASE Len(log) < offset
    <2>1. offset + 1 > Len(log)
      BY <1>1, <1>2
    <2>2. text = <<>>
      BY <1>1, <2>1, SubSeqEmpty
    <2>3. Len(<<>>) = 0 /\ <<>> \in Seq(Nat) /\ 1..0 = {}
      OBVIOUS
    <2>4. Len(text) = 0 /\ text \in Seq(Nat)
      BY <2>2, <2>3, Zenon
    <2> QED BY <1>2, <2>3, <2>4
  <1>3. CASE ~(Len(log) < offset)
    <2>1. offset + 1 \in 1..(Len(log) + 1) /\ Len(log) \in ((offset + 1) - 1)..Len(log)
      BY <1>1, <1>3
    <2>2. /\ text \in Seq(Nat) /\ Len(text) = Len(log) - (offset + 1) + 1
          /\ \A j \in 1..(Len(log) - (offset + 1) + 1) : text[j] = log[(offset + 1) + j - 1]
      BY <1>1, <2>1, SubSeqProperties
    <2>3. Len(text) = Len(log) - offset
      BY <1>1, <2>2
    <2>4. ASSUME NEW j \in 1..Len(text)
          PROVE  offset + j \in 1..Len(log) /\ text[j] = log[offset + j]
      <3>1. offset + j \in 1..Len(log) /\ (offset + 1) + j - 1 = offset + j
            /\ j \in 1..(Len(log) - (offset + 1) + 1)
        BY <1>1, <2>3
      <3> QED BY <2>2, <3>1
    <2> QED BY <1>3, <2>2, <2>3, <2>4
  <1> QED BY <1>2, <1>3

\* The read: what lies between the offset and the end is in the buffer, or the turn ends.
LEMMA ReadInv ==
  ASSUME LogInv, Read
  PROVE  LogInv'
  <1>0. FileOK /\ TaskOK /\ SavedOK /\ OffsetOK /\ OrderOK /\ TableOK /\ ShownOK
    BY DEF LogInv
  <1>1. PICK text : text = SubSeq(log, offset + 1, Len(log))
    OBVIOUS
  <1>2. /\ text \in Seq(Nat) /\ Len(text) \in Nat
        /\ Len(text) = IF Len(log) < offset THEN 0 ELSE Len(log) - offset
        /\ \A j \in 1..Len(text) : offset + j \in 1..Len(log) /\ text[j] = log[offset + j]
    <2>1. /\ text \in Seq(Nat)
          /\ Len(text) = IF Len(log) < offset THEN 0 ELSE Len(log) - offset
          /\ \A j \in 1..Len(text) : offset + j \in 1..Len(log) /\ text[j] = log[offset + j]
      BY <1>0, <1>1, ReadText
    <2>2. Len(text) \in Nat
      BY <2>1
    <2> QED BY <2>1, <2>2
  <1>3. /\ ipc = "open" /\ len' = 0
        /\ \/ /\ buf' = text /\ offset' = len
              /\ ipc' = (IF text # <<>> THEN "rows" ELSE "idle")
           \/ buf' = <<>> /\ offset' = offset /\ ipc' = "idle"
        /\ UNCHANGED <<said, log, rows, nextId, saved, pending, deletes, restarts, failed,
                       gen, ingested, crossed, masked>>
    BY <1>1 DEF Read, disk, table, faults, logHistory
  <1>4. buf = <<>> /\ Len(buf) = 0
    BY <1>0, <1>3 DEF TaskOK
  <1>5. /\ Len(said) \in Nat /\ Len(log) \in Nat /\ offset \in Nat /\ len \in Nat
        /\ Len(log) <= Len(said) /\ MaxLines \in Nat
        /\ \A i \in 1..Len(log) : log[i] \in 1..Len(said) /\ log[i] = Len(said) - Len(log) + i
    BY <1>0, LogNumbers
  <1>6. FileOK' /\ SavedOK'
    BY <1>0, <1>3 DEF FileOK, SavedOK
  <1>7. Clean' = Clean
    BY <1>3 DEF Clean
  <1>8. TableOK' /\ ShownOK'
    BY <1>0, <1>3, <1>7, TableFrame
  <1>9. CASE buf' = <<>> /\ offset' = offset /\ ipc' = "idle"
    <2>1. Len(buf') = 0 /\ buf' \in Seq(Nat)
      BY <1>9
    <2>2. TaskOK'
      BY <1>0, <1>3, <1>5, <1>9, <2>1 DEF TaskOK
    <2>3. OffsetOK'
      BY <1>0, <1>3, <1>4, <1>9, <2>1 DEF OffsetOK, InBuf
    <2>4. OrderOK'
      BY <1>0, <1>3, <1>7, <1>9, <2>1 DEF OrderOK, ToRead, Unhandled
    <2> QED BY <1>6, <1>8, <2>2, <2>3, <2>4 DEF LogInv
  <1>10. CASE buf' = text /\ offset' = len /\ ipc' = (IF text # <<>> THEN "rows" ELSE "idle")
    <2>1. TaskOK'
      <3>1. ASSUME NEW j \in 1..Len(text)
            PROVE  text[j] \in 1..Len(said) /\ text[j] = text[1] + j - 1
        <4>1. 1 \in 1..Len(text)
          BY <1>2
        <4>2. text[j] = Len(said) - Len(log) + (offset + j) /\ text[j] \in 1..Len(said)
          BY <1>2, <1>5
        <4>3. text[1] = Len(said) - Len(log) + (offset + 1)
          BY <1>2, <1>5, <4>1
        <4> QED BY <1>5, <4>2, <4>3
      <3>2. offset' \in 0..MaxLines /\ len' \in 0..MaxLines
        BY <1>0, <1>3, <1>5, <1>10 DEF TaskOK
      <3> QED BY <1>0, <1>2, <1>3, <1>10, <3>1, <3>2 DEF TaskOK
    <2>2. OffsetOK'
      <3> SUFFICES ASSUME gen.offset = gen.file, ~masked
                   PROVE  /\ len <= Len(log)
                          /\ \A i \in 1..len : ingested[log[i]] > 0 \/ InBuf(log[i])'
        BY <1>3, <1>10 DEF OffsetOK, InBuf
      <3>1. offset <= Len(log) /\ len <= Len(log) /\ \A i \in 1..offset : ingested[log[i]] > 0
        BY <1>0, <1>3, <1>4 DEF OffsetOK, InBuf
      <3>2. ASSUME NEW i \in 1..len, ~(i <= offset) PROVE InBuf(log[i])'
        <4>1. i - offset \in 1..Len(text) /\ offset + (i - offset) = i
          BY <1>2, <1>5, <3>1, <3>2
        <4>2. text[i - offset] = log[i]
          BY <1>2, <4>1
        <4> QED BY <1>3, <1>10, <4>1, <4>2 DEF InBuf
      <3>3. ASSUME NEW i \in 1..len, i <= offset PROVE ingested[log[i]] > 0
        BY <1>5, <3>1, <3>3
      <3> QED BY <3>1, <3>2, <3>3
    <2>3. OrderOK'
      <3> SUFFICES ASSUME Clean
                   PROVE  /\ \A l \in 1..Len(log) : ~ToRead(l)'
                          /\ \A j \in 1..Len(text) : Unhandled(text[j])
                          /\ \A n \in 1..Len(said) : ingested[n] <= 1
        BY <1>3, <1>7, <1>10 DEF OrderOK, Unhandled
      <3>1. len = Len(log) /\ offset < len
        BY <1>0, <1>3 DEF OrderOK
      <3>2. \A l \in 1..Len(log) : ~ToRead(l)'
        BY <1>3, <1>5, <1>10, <3>1 DEF ToRead
      <3>3. ASSUME NEW j \in 1..Len(text) PROVE Unhandled(text[j])
        <4>1. offset + j \in 1..Len(log) /\ text[j] = log[offset + j] /\ offset + j > offset
          BY <1>2, <1>5
        <4> QED BY <1>0, <4>1 DEF OrderOK, ToRead
      <3> QED BY <1>0, <3>2, <3>3 DEF OrderOK
    <2> QED BY <1>6, <1>8, <2>1, <2>2, <2>3 DEF LogInv
  <1> QED BY <1>3, <1>9, <1>10

\* The end of a turn: the offset is saved, behind handled lines.
LEMMA FinishInv ==
  ASSUME LogInv, Finish
  PROVE  LogInv'
  <1>0. FileOK /\ TaskOK /\ SavedOK /\ OffsetOK /\ OrderOK /\ TableOK /\ ShownOK
    BY DEF LogInv
  <1>1. /\ ipc = "rows" /\ buf = <<>> /\ ipc' = "idle"
        /\ pending' = IF Cardinality(DOMAIN pending) > MaxPending THEN NoKeys ELSE pending
        /\ \/ saved' = offset /\ gen' = [gen EXCEPT !.saved = gen.offset] /\ failed' = failed
           \/ failed' = failed + 1 /\ UNCHANGED <<saved, gen>>
        /\ UNCHANGED <<said, log, rows, nextId, offset, len, buf, deletes, restarts, ingested,
                       crossed, masked>>
    BY DEF Finish, disk
  <1>2. /\ gen' \in [file : Nat, offset : Nat, saved : Nat] /\ gen'.file = gen.file
        /\ gen'.offset = gen.offset
        /\ \/ gen'.saved = gen.offset /\ saved' = offset
           \/ gen'.saved = gen.saved /\ saved' = saved
    BY <1>0, <1>1 DEF FileOK
  <1>3. FileOK'
    BY <1>0, <1>1, <1>2 DEF FileOK
  <1>4. TaskOK'
    BY <1>0, <1>1, <1>2 DEF TaskOK
  <1>5. OffsetOK'
    BY <1>0, <1>1, <1>2 DEF OffsetOK, InBuf
  <1>6. SavedOK'
    <2>1. \A n : ~InBuf(n)
      BY <1>1 DEF InBuf
    <2>2. gen.offset = gen.file /\ ~masked =>
            offset <= Len(log) /\ \A i \in 1..offset : ingested[log[i]] > 0
      BY <1>0, <2>1 DEF OffsetOK
    <2>3. gen.saved = gen.file /\ ~masked =>
            saved <= Len(log) /\ \A i \in 1..saved : ingested[log[i]] > 0
      BY <1>0 DEF SavedOK
    <2> QED BY <1>1, <1>2, <2>2, <2>3 DEF SavedOK
  <1>7. Clean' = Clean
    BY <1>1 DEF Clean
  <1>8. OrderOK'
    BY <1>0, <1>1, <1>7 DEF OrderOK, ToRead, Unhandled
  <1>9. TableOK' /\ ShownOK'
    <2>1. DOMAIN pending' \subseteq DOMAIN pending /\ \A k \in DOMAIN pending' : pending'[k] = pending[k]
      BY <1>1 DEF NoKeys
    <2>2. failed' = 0 => failed = 0
      BY <1>0, <1>1 DEF TaskOK
    <2> QED BY <1>0, <1>1, <1>7, <2>1, <2>2, TableFrame
  <1> QED BY <1>3, <1>4, <1>5, <1>6, <1>8, <1>9 DEF LogInv

\* Rows are deleted under the ids that wait.
LEMMA DeleteInv ==
  ASSUME LogInv, NEW n, DeleteRows(n)
  PROVE  LogInv'
  <1>0. FileOK /\ TaskOK /\ SavedOK /\ OffsetOK /\ OrderOK /\ TableOK /\ ShownOK
    BY DEF LogInv
  <1>1. /\ deletes' = deletes + 1
        /\ rows' = [i \in {j \in DOMAIN rows : rows[j].line > n} |-> rows[i]]
        /\ UNCHANGED <<said, log, nextId, saved, offset, pending, ipc, len, buf, restarts, failed,
                       gen, ingested, crossed, masked>>
    BY DEF DeleteRows, disk, task, logHistory
  <1>2. DOMAIN rows' \subseteq DOMAIN rows /\ \A i \in DOMAIN rows' : rows'[i] = rows[i]
    BY <1>1
  <1>3. deletes' \in Nat /\ deletes' # 0
    BY <1>0, <1>1 DEF TaskOK
  <1>4. FileOK' /\ SavedOK' /\ OffsetOK'
    BY <1>0, <1>1 DEF FileOK, SavedOK, OffsetOK, InBuf
  <1>5. TaskOK'
    BY <1>0, <1>1, <1>3 DEF TaskOK
  <1>6. Clean' = Clean
    BY <1>1 DEF Clean
  <1>7. OrderOK'
    BY <1>0, <1>1, <1>6 DEF OrderOK, ToRead, Unhandled
  <1>8. TableOK'
    <2>1. \A i \in DOMAIN rows' : RowOK(i)'
      BY <1>0, <1>1, <1>2, <1>6 DEF TableOK, RowOK
    <2>2. \A k \in DOMAIN pending : PendingOK(k)'
      BY <1>0, <1>1, <1>2 DEF TableOK, PendingOK
    <2> QED BY <1>0, <1>1, <1>2, <2>1, <2>2 DEF TableOK
  <1>9. ShownOK'
    BY <1>3 DEF ShownOK
  <1> QED BY <1>4, <1>5, <1>7, <1>8, <1>9 DEF LogInv

\* dnsmasq writes a line: it is behind all the others, and nobody has handled it.
LEMMA WriteInv ==
  ASSUME LogInv, NEW l \in Lines, WriteLine(l)
  PROVE  LogInv'
  <1>0. FileOK /\ TaskOK /\ SavedOK /\ OffsetOK /\ OrderOK /\ TableOK /\ ShownOK
    BY DEF LogInv
  <1>1. PICK N \in Nat, M \in Nat : N = Len(said) /\ M = Len(log)
    BY <1>0, LogNumbers
  <1>2. /\ N < MaxLines /\ said' = Append(said, l) /\ log' = Append(log, N + 1)
        /\ ingested' = Append(ingested, 0) /\ crossed' = (crossed \/ ipc = "open")
        /\ UNCHANGED <<rows, nextId, saved, offset, pending, ipc, len, buf, deletes, restarts,
                       failed, gen, masked>>
    BY <1>1 DEF WriteLine, table, task, faults
  <1>3. /\ said \in Seq(Lines) /\ ingested \in Seq(Nat) /\ log \in Seq(Nat) /\ M <= N
        /\ Len(ingested) = N /\ MaxLines \in Nat /\ offset \in Nat /\ saved \in Nat /\ len \in Nat
        /\ \A i \in 1..M : log[i] \in 1..N /\ log[i] = N - M + i
    BY <1>0, <1>1, LogNumbers DEF FileOK
  <1>4. /\ said' \in Seq(Lines) /\ Len(said') = N + 1 /\ \A n \in 1..N : said'[n] = said[n]
        /\ ingested' \in Seq(Nat) /\ Len(ingested') = N + 1 /\ ingested'[N + 1] = 0
        /\ \A n \in 1..N : ingested'[n] = ingested[n]
        /\ log' \in Seq(Nat) /\ Len(log') = M + 1 /\ log'[M + 1] = N + 1
        /\ \A i \in 1..M : log'[i] = log[i]
    BY <1>1, <1>2, <1>3, AppendProperties
  <1>5. FileOK'
    <2>1. ASSUME NEW i \in 1..(M + 1) PROVE log'[i] = (N + 1) - (M + 1) + i
      <3>1. CASE i = M + 1
        BY <1>4, <3>1
      <3>2. CASE i # M + 1
        <4>1. i \in 1..M /\ (N + 1) - (M + 1) + i = N - M + i
          BY <3>2
        <4> QED BY <1>3, <1>4, <4>1
      <3> QED BY <3>1, <3>2
    <2> QED BY <1>0, <1>2, <1>3, <1>4, <2>1 DEF FileOK
  <1>6. TaskOK'
    <2>1. \A j \in 1..Len(buf) : buf[j] \in 1..(N + 1) /\ buf[j] = buf[1] + j - 1
      BY <1>0, <1>1 DEF TaskOK
    <2> QED BY <1>0, <1>2, <1>4, <2>1 DEF TaskOK
  <1>7. offset \in Nat /\ \A i \in 1..M : log'[i] = log[i] /\ log[i] \in 1..N
    BY <1>3, <1>4
  <1>8. \A i \in 1..M : ingested'[log'[i]] = ingested[log[i]]
    BY <1>4, <1>7
  <1>9. SavedOK'
    <2> SUFFICES ASSUME gen.saved = gen.file, ~masked
                 PROVE  saved <= M + 1 /\ \A i \in 1..saved : ingested'[log'[i]] > 0
      BY <1>2, <1>4 DEF SavedOK
    <2>1. saved <= M /\ \A i \in 1..saved : ingested[log[i]] > 0
      BY <1>0, <1>1 DEF SavedOK
    <2>2. \A i \in 1..saved : i \in 1..M
      BY <1>3, <2>1
    <2>3. \A i \in 1..saved : ingested'[log'[i]] > 0
      BY <1>8, <2>1, <2>2
    <2>4. saved <= M + 1
      BY <1>3, <2>1
    <2> QED BY <2>3, <2>4
  <1>10. OffsetOK'
    <2> SUFFICES ASSUME gen.offset = gen.file, ~masked
                 PROVE  /\ offset <= M + 1 /\ (ipc = "open" => len <= M + 1)
                        /\ \A i \in 1..offset :
                             ingested'[log'[i]] > 0 \/ (\E j \in 1..Len(buf) : buf[j] = log'[i])
      BY <1>2, <1>4 DEF OffsetOK, InBuf
    <2>1. /\ offset <= M /\ (ipc = "open" => len <= M)
          /\ \A i \in 1..offset : ingested[log[i]] > 0 \/ InBuf(log[i])
      BY <1>0, <1>1 DEF OffsetOK
    <2>2. ASSUME NEW i \in 1..offset
          PROVE  ingested'[log'[i]] > 0 \/ (\E j \in 1..Len(buf) : buf[j] = log'[i])
      <3>1. i \in 1..M
        BY <1>7, <2>1
      <3>2. log'[i] = log[i] /\ ingested'[log'[i]] = ingested[log[i]]
        BY <1>8, <1>7, <3>1
      <3> QED BY <2>1, <3>1, <3>2 DEF InBuf
    <2>3. offset <= M + 1 /\ (ipc = "open" => len <= M + 1)
      BY <1>3, <2>1
    <2> QED BY <2>2, <2>3
  <1>11. Clean' => Clean /\ ipc # "open"
    BY <1>2 DEF Clean
  <1>12. OrderOK'
    <2> DEFINE Free(n) == \A m \in n..(N + 1) : ingested'[m] = 0
    <2> SUFFICES ASSUME Clean'
                 PROVE  /\ \A i \in 1..(M + 1) : ToRead(i)' => Free(log'[i])
                        /\ \A j \in 1..Len(buf) :
                             /\ Free(buf[j])
                             /\ \A i \in 1..(M + 1) : ToRead(i)' => buf[j] < log'[i]
                        /\ \A n \in 1..(N + 1) : ingested'[n] <= 1
      BY <1>2, <1>4, <1>11 DEF OrderOK, Unhandled
    <2>1. /\ \A i \in 1..M : ToRead(i) => Unhandled(log[i])
          /\ \A j \in 1..Len(buf) : /\ Unhandled(buf[j])
                                    /\ \A i \in 1..M : ToRead(i) => buf[j] < log[i]
          /\ \A n \in 1..N : ingested[n] <= 1
          /\ \A j \in 1..Len(buf) : buf[j] \in 1..N
      BY <1>0, <1>1, <1>11 DEF OrderOK, TaskOK
    <2>2. ASSUME NEW n \in 1..N, Unhandled(n) PROVE Free(n)
      <3> SUFFICES ASSUME NEW m \in n..(N + 1) PROVE ingested'[m] = 0
        OBVIOUS
      <3>1. m = N + 1 \/ (m \in 1..N /\ m \in n..N)
        OBVIOUS
      <3>2. m \in n..N => ingested[m] = 0
        BY <1>1, <2>2 DEF Unhandled
      <3> QED BY <1>4, <3>1, <3>2
    <2>3. Free(N + 1)
      BY <1>4
    <2>4. ASSUME NEW i \in 1..M, ToRead(i)' PROVE ToRead(i)
      BY <1>1, <1>2, <1>3, <1>4, <2>4 DEF ToRead
    <2>5. ASSUME NEW i \in 1..(M + 1), ToRead(i)'
          PROVE  Free(log'[i]) /\ \A j \in 1..Len(buf) : buf[j] < log'[i]
      <3>1. CASE i = M + 1
        <4>1. log'[i] = N + 1
          BY <1>4, <3>1
        <4>2. \A j \in 1..Len(buf) : buf[j] < N + 1
          BY <2>1
        <4> QED BY <2>3, <4>1, <4>2
      <3>2. CASE i # M + 1
        <4>1. i \in 1..M
          BY <3>2
        <4>2. i \in 1..M /\ log'[i] = log[i] /\ log[i] \in 1..N
          BY <1>7, <4>1
        <4>3. ToRead(i)
          BY <2>4, <2>5, <4>2
        <4>4. Unhandled(log[i]) /\ \A j \in 1..Len(buf) : buf[j] < log[i]
          BY <2>1, <4>2, <4>3
        <4>5. Free(log[i])
          BY <2>2, <4>2, <4>4
        <4> HIDE DEF Free
        <4> QED BY <4>2, <4>4, <4>5
      <3> QED BY <3>1, <3>2
    <2>6. ASSUME NEW n \in 1..(N + 1) PROVE ingested'[n] <= 1
      <3>1. n = N + 1 \/ n \in 1..N
        OBVIOUS
      <3> QED BY <1>4, <2>1, <3>1
    <2> QED BY <2>1, <2>2, <2>5, <2>6
  <1>13. TableOK'
    <2>1. ASSUME NEW i \in DOMAIN rows PROVE RowOK(i)'
      <3>1. rows[i].line \in 1..N /\ rows[i].answer \in 0..N /\ RowOK(i)
        BY <1>0, <1>1 DEF TableOK, RowOK
      <3>2. /\ said'[rows[i].line] = said[rows[i].line]
            /\ ingested'[rows[i].line] = ingested[rows[i].line]
            /\ rows[i].answer # 0 => said'[rows[i].answer] = said[rows[i].answer]
        BY <1>4, <3>1
      <3>3. rows[i].line \in 1..(N + 1) /\ rows[i].answer \in 0..(N + 1)
        BY <3>1
      <3> QED BY <1>2, <1>4, <1>11, <3>1, <3>2, <3>3 DEF RowOK
    <2>2. ASSUME NEW k \in DOMAIN pending PROVE PendingOK(k)'
      <3>1. PendingOK(k)
        BY <1>0 DEF TableOK
      <3>2. CASE pending[k] \in DOMAIN rows
        <4>1. rows[pending[k]].line \in 1..N
          BY <1>0, <1>1, <3>2 DEF TableOK, RowOK
        <4> QED BY <1>2, <1>4, <3>1, <4>1 DEF PendingOK
      <3>3. CASE pending[k] \notin DOMAIN rows
        BY <1>2, <3>1, <3>3 DEF PendingOK
      <3> QED BY <3>2, <3>3
    <2> QED BY <1>0, <1>2, <2>1, <2>2 DEF TableOK
  <1>14. ShownOK'
    <2> SUFFICES ASSUME failed = 0, deletes = 0 PROVE EveryLineShown'
      BY <1>0, <1>2 DEF ShownOK
    <2> SUFFICES ASSUME NEW n \in 1..(N + 1)
                 PROVE  /\ said'[n].kind = "query" =>
                             Cardinality({i \in DOMAIN rows : rows[i].line = n}) = ingested'[n]
                        /\ said'[n].kind = "answer" =>
                             Cardinality({i \in DOMAIN rows : rows[i].answer = n}) = ingested'[n]
      <3>1. DOMAIN said' = 1..(N + 1)
        BY <1>4
      <3> QED BY <1>2, <3>1 DEF EveryLineShown
    <2>1. CASE n = N + 1
      <3>1. \A i \in DOMAIN rows : rows[i].line \in 1..N /\ rows[i].answer \in 0..N
        BY <1>0, <1>1 DEF TableOK, RowOK
      <3>2. \A i \in DOMAIN rows : rows[i].line # n /\ rows[i].answer # n
        BY <2>1, <3>1
      <3>3. /\ {i \in DOMAIN rows : rows[i].line = n} = {}
            /\ {i \in DOMAIN rows : rows[i].answer = n} = {}
        BY <3>2
      <3> QED BY <1>4, <2>1, <3>3, FS_EmptySet
    <2>2. CASE n # N + 1
      <3>1. n \in 1..N /\ said'[n] = said[n] /\ ingested'[n] = ingested[n]
        BY <1>4, <2>2
      <3>2. DOMAIN said = 1..N
        BY <1>1, <1>3
      <3>3. EveryLineShown
        BY <1>0 DEF ShownOK
      <3> QED BY <3>1, <3>2, <3>3 DEF EveryLineShown
    <2> QED BY <2>1, <2>2
  <1> QED BY <1>5, <1>6, <1>9, <1>10, <1>12, <1>13, <1>14 DEF LogInv

------------------------------------------------------------------------------
(* The query log: a line is handled *)

\* What the body of the loop does to the buffer and the count of the line at its head.
Handled(n) ==
  /\ n \in 1..Len(said) /\ Len(buf) > 0 /\ n = buf[1]
  /\ ingested' \in Seq(Nat) /\ Len(ingested') = Len(said) /\ ingested'[n] = ingested[n] + 1
  /\ \A m \in 1..Len(said) : m # n => ingested'[m] = ingested[m]
  /\ buf' \in Seq(Nat) /\ Len(buf') = Len(buf) - 1
  /\ \A j \in 1..Len(buf') : j + 1 \in 1..Len(buf) /\ buf'[j] = buf[j + 1]
  /\ ipc = "rows"
  /\ UNCHANGED <<said, log, saved, offset, ipc, len, deletes, restarts, gen, crossed, masked>>

\* The body of the loop does that with the line at the head of the buffer.
LEMMA HandledFacts ==
  ASSUME FileOK, TaskOK, HandleLine
  PROVE  Handled(Head(buf))
  <1> DEFINE n == Head(buf)
  <1>1. /\ ipc = "rows" /\ buf # <<>> /\ buf' = Tail(buf)
        /\ ingested' = [ingested EXCEPT ![n] = @ + 1]
        /\ UNCHANGED <<said, log, saved, offset, ipc, len, deletes, restarts, gen, crossed, masked>>
    BY DEF HandleLine, disk
  <1>2. /\ buf \in Seq(Nat) /\ ingested \in Seq(Nat) /\ Len(ingested) = Len(said)
        /\ \A j \in 1..Len(buf) : buf[j] \in 1..Len(said)
    BY DEF FileOK, TaskOK
  <1>3. n = buf[1] /\ Len(buf) > 0 /\ Len(buf) \in Nat
    BY <1>1, <1>2
  <1>4. n \in 1..Len(said)
    BY <1>2, <1>3
  <1>5. buf' \in Seq(Nat) /\ Len(buf') = Len(buf) - 1
    BY <1>1, <1>2, HeadTailProperties
  <1>6. \A j \in 1..Len(buf') : buf'[j] = buf[j + 1]
    BY <1>1, <1>2, <1>5, HeadTailProperties
  <1>7. \A j \in 1..Len(buf') : j + 1 \in 1..Len(buf)
    BY <1>3, <1>5
  <1> HIDE DEF n
  <1>8. /\ ingested' \in Seq(Nat) /\ Len(ingested') = Len(said) /\ ingested'[n] = ingested[n] + 1
        /\ \A m \in 1..Len(said) : m # n => ingested'[m] = ingested[m]
    <2>1. DOMAIN ingested = 1..Len(said) /\ ingested[n] \in Nat
      BY <1>2, <1>4
    <2>2. ingested' \in Seq(Nat) /\ Len(ingested') = Len(ingested)
      BY <1>1, <1>2, <1>4, <2>1, ExceptSeq
    <2>3. /\ ingested'[n] = ingested[n] + 1
          /\ \A m \in 1..Len(said) : m # n => ingested'[m] = ingested[m]
      BY <1>1, <1>4, <2>1
    <2> QED BY <1>2, <2>2, <2>3
  <1>9. Handled(n)
    BY <1>1, <1>3, <1>4, <1>5, <1>6, <1>7, <1>8 DEF Handled
  <1> QED BY <1>9 DEF n

\* Counts only grow.
LEMMA CountsGrow ==
  ASSUME FileOK, TaskOK, NEW n, Handled(n)
  PROVE  /\ \A m \in 1..Len(said) : ingested[m] > 0 => ingested'[m] > 0
         /\ ingested[n] \in Nat /\ ingested'[n] > 0 /\ Len(said) \in Nat
  <1>1. \A m \in 1..Len(said) : ingested[m] \in Nat
    BY LogNumbers
  <1>2. /\ n \in 1..Len(said) /\ ingested'[n] = ingested[n] + 1
        /\ \A m \in 1..Len(said) : m # n => ingested'[m] = ingested[m]
    BY DEF Handled
  <1>3. ingested[n] \in Nat /\ ingested'[n] > 0
    BY <1>1, <1>2
  <1>4. \A m \in 1..Len(said) : ingested[m] > 0 => ingested'[m] > 0
    BY <1>2, <1>3
  <1> QED BY <1>3, <1>4, LogNumbers

\* The file, the task and the order of the lines.
LEMMA HandleOrder ==
  ASSUME FileOK, TaskOK, SavedOK, OffsetOK, OrderOK, NEW n, Handled(n), failed' \in Nat
  PROVE  FileOK' /\ TaskOK' /\ SavedOK' /\ OffsetOK' /\ OrderOK'
  <1>0. /\ Len(said) \in Nat /\ Len(log) \in Nat /\ Len(buf) \in Nat /\ offset \in Nat /\ saved \in Nat
        /\ \A i \in 1..Len(log) : log[i] \in 1..Len(said)
        /\ \A m \in 1..Len(said) : ingested[m] \in Nat
        /\ \A j \in 1..Len(buf) : buf[j] \in 1..Len(said) /\ buf[j] = buf[1] + j - 1
    BY LogNumbers DEF TaskOK
  <1>1. UNCHANGED <<said, log, saved, offset, ipc, len, deletes, restarts, gen, crossed, masked>>
    BY DEF Handled
  <1>2. /\ n \in 1..Len(said) /\ Len(buf) > 0 /\ n = buf[1] /\ ipc = "rows"
        /\ ingested' \in Seq(Nat) /\ Len(ingested') = Len(said) /\ ingested'[n] = ingested[n] + 1
        /\ \A m \in 1..Len(said) : m # n => ingested'[m] = ingested[m]
        /\ buf' \in Seq(Nat) /\ Len(buf') = Len(buf) - 1
        /\ \A j \in 1..Len(buf') : j + 1 \in 1..Len(buf) /\ buf'[j] = buf[j + 1]
    BY DEF Handled
  <1>3. FileOK'
    BY <1>1, <1>2 DEF FileOK
  <1>4. \A j \in 1..Len(buf') : buf'[j] \in 1..Len(said) /\ buf'[j] = n + j
    <2> SUFFICES ASSUME NEW j \in 1..Len(buf') PROVE buf'[j] \in 1..Len(said) /\ buf'[j] = n + j
      OBVIOUS
    <2>1. j + 1 \in 1..Len(buf) /\ buf'[j] = buf[j + 1]
      BY <1>2
    <2>2. buf[j + 1] \in 1..Len(said) /\ buf[j + 1] = buf[1] + (j + 1) - 1
      BY <1>0, <2>1
    <2> QED BY <1>0, <1>2, <2>1, <2>2
  <1>5. TaskOK'
    <2>1. ASSUME NEW j \in 1..Len(buf') PROVE buf'[j] = buf'[1] + j - 1
      <3>1. 1 \in 1..Len(buf')
        BY <1>0, <1>2
      <3>2. buf'[j] = n + j /\ buf'[1] = n + 1
        BY <1>4, <3>1
      <3> QED BY <1>2, <3>2
    <2> QED BY <1>1, <1>2, <1>4, <2>1 DEF TaskOK
  <1>6. \A m \in 1..Len(said) : ingested[m] > 0 => ingested'[m] > 0
    BY CountsGrow
  <1>7. SavedOK'
    <2> SUFFICES ASSUME gen.saved = gen.file, ~masked
                 PROVE  saved <= Len(log) /\ \A i \in 1..saved : ingested'[log[i]] > 0
      BY <1>1 DEF SavedOK
    <2>1. saved <= Len(log) /\ \A i \in 1..saved : ingested[log[i]] > 0
      BY DEF SavedOK
    <2>2. \A i \in 1..saved : log[i] \in 1..Len(said)
      BY <1>0, <2>1
    <2> QED BY <1>6, <2>1, <2>2
  <1>8. OffsetOK'
    <2> SUFFICES ASSUME gen.offset = gen.file, ~masked, NEW i \in 1..offset
                 PROVE  ingested'[log[i]] > 0 \/ \E j \in 1..Len(buf') : buf'[j] = log[i]
      BY <1>1 DEF OffsetOK, InBuf
    <2>1. offset <= Len(log) /\ (ingested[log[i]] > 0 \/ InBuf(log[i]))
      BY DEF OffsetOK
    <2>2. log[i] \in 1..Len(said)
      BY <1>0, <2>1
    <2>3. CASE ingested[log[i]] > 0
      BY <1>6, <2>2, <2>3
    <2>4. CASE InBuf(log[i])
      <3>1. PICK j \in 1..Len(buf) : buf[j] = log[i]
        BY <2>4 DEF InBuf
      <3>2. CASE j = 1
        BY <1>2, <3>1, <3>2, CountsGrow
      <3>3. CASE j # 1
        <4>1. j - 1 \in 1..Len(buf') /\ (j - 1) + 1 = j
          BY <1>0, <1>2, <3>3
        <4>2. buf'[j - 1] = log[i]
          BY <1>2, <3>1, <4>1
        <4> QED BY <4>1, <4>2
      <3> QED BY <3>2, <3>3
    <2> QED BY <2>1, <2>3, <2>4
  <1>9. OrderOK'
    <2> DEFINE Free(x) == \A m \in x..Len(said) : ingested'[m] = 0
    <2> SUFFICES ASSUME Clean
                 PROVE  /\ \A i \in 1..Len(log) : ToRead(i) => Free(log[i])
                        /\ \A j \in 1..Len(buf') :
                             /\ Free(buf'[j])
                             /\ \A i \in 1..Len(log) : ToRead(i) => buf'[j] < log[i]
                        /\ \A m \in 1..Len(said) : ingested'[m] <= 1
      BY <1>1, <1>2 DEF OrderOK, Unhandled, Clean, ToRead
    <2>1. ASSUME NEW x \in 1..Len(said), n < x, Unhandled(x) PROVE Free(x)
      <3> SUFFICES ASSUME NEW m \in x..Len(said) PROVE ingested'[m] = 0
        OBVIOUS
      <3>1. m \in 1..Len(said) /\ m # n
        BY <1>0, <1>2, <2>1
      <3> QED BY <1>2, <2>1, <3>1 DEF Unhandled
    <2>2. 1 \in 1..Len(buf)
      BY <1>0, <1>2
    <2>3. \A i \in 1..Len(log) : ToRead(i) => Free(log[i])
      <3> SUFFICES ASSUME NEW i \in 1..Len(log), ToRead(i) PROVE Free(log[i])
        OBVIOUS
      <3>1. Unhandled(log[i]) /\ buf[1] < log[i]
        BY <2>2 DEF OrderOK
      <3> QED BY <1>0, <1>2, <2>1, <3>1
    <2>4. ASSUME NEW j \in 1..Len(buf') PROVE Free(buf'[j])
      <3>1. j + 1 \in 1..Len(buf) /\ buf'[j] = buf[j + 1]
        BY <1>2
      <3>2. Unhandled(buf'[j])
        BY <3>1 DEF OrderOK
      <3>3. buf'[j] \in 1..Len(said) /\ n < buf'[j]
        BY <1>2, <1>4
      <3> QED BY <2>1, <3>2, <3>3
    <2>5. ASSUME NEW j \in 1..Len(buf'), NEW i \in 1..Len(log), ToRead(i) PROVE buf'[j] < log[i]
      <3>1. j + 1 \in 1..Len(buf) /\ buf'[j] = buf[j + 1]
        BY <1>2
      <3> QED BY <2>5, <3>1 DEF OrderOK
    <2>6. ASSUME NEW m \in 1..Len(said) PROVE ingested'[m] <= 1
      <3>1. ingested[m] <= 1 /\ Unhandled(buf[1])
        BY <2>2 DEF OrderOK
      <3>2. ingested[n] = 0
        BY <1>0, <1>2, <3>1 DEF Unhandled
      <3>3. m = n => ingested'[m] = 1
        BY <1>2, <3>2
      <3> QED BY <1>2, <3>1, <3>3
    <2> QED BY <2>3, <2>4, <2>5, <2>6
  <1> QED BY <1>3, <1>5, <1>7, <1>8, <1>9

\* A row that is not touched stays right.
LEMMA RowKept ==
  ASSUME FileOK, TaskOK, NEW n, Handled(n), NEW i, RowOK(i), rows'[i] = rows[i]
  PROVE  RowOK(i)'
  <1>1. said' = said /\ Clean' = Clean
    BY DEF Handled, Clean
  <1>2. ingested'[rows[i].line] > 0
    BY CountsGrow DEF RowOK
  <1> QED BY <1>1, <1>2 DEF RowOK

\* So does what waits for a row whose line stays.
LEMMA PendingKept ==
  ASSUME NEW n, Handled(n), NEW k, PendingOK(k), pending'[k] = pending[k],
         nextId \in Nat, nextId' \in Nat, nextId <= nextId',
         pending[k] \in DOMAIN rows' =>
           pending[k] \in DOMAIN rows /\ rows'[pending[k]].line = rows[pending[k]].line
  PROVE  PendingOK(k)'
  <1>1. said' = said
    BY DEF Handled
  <1>2. pending[k] \in 1..(nextId' - 1)
    BY DEF PendingOK
  <1> QED BY <1>1, <1>2 DEF PendingOK

\* The rows of a line and those of an answer.
LinesOf(f, m) == {i \in DOMAIN f : f[i].line = m}
AnswersOf(f, m) == {i \in DOMAIN f : f[i].answer = m}

Counted(f, n) ==
  /\ said[n].kind = "query" => Cardinality(LinesOf(f, n)) = ingested[n]
  /\ said[n].kind = "answer" => Cardinality(AnswersOf(f, n)) = ingested[n]

LEMMA ShownCounts ==
  EveryLineShown <=> (failed = 0 /\ deletes = 0 => \A n \in DOMAIN said : Counted(rows, n))
  BY DEF EveryLineShown, Counted, LinesOf, AnswersOf

\* The same after a step.
LEMMA ShownCountsNext ==
  EveryLineShown' <=> (failed' = 0 /\ deletes' = 0 => \A n \in DOMAIN said' : Counted(rows, n)')
  BY DEF EveryLineShown, Counted, LinesOf, AnswersOf

\* How many rows have a line, or an answer, when one is inserted.
LEMMA InsertCounts ==
  ASSUME NEW id \in Nat \ {0}, NEW f, DOMAIN f = 1..(id - 1), NEW q, NEW a, NEW g, NEW m,
         g = Insert(f, id, [line |-> q, answer |-> a])
  PROVE  /\ Cardinality(LinesOf(g, m)) = Cardinality(LinesOf(f, m)) + (IF q = m THEN 1 ELSE 0)
         /\ Cardinality(AnswersOf(g, m)) = Cardinality(AnswersOf(f, m)) + (IF a = m THEN 1 ELSE 0)
  <1>1. PICK r : r = [line |-> q, answer |-> a]
    OBVIOUS
  <1>2. /\ DOMAIN g = DOMAIN f \cup {id} /\ g[id] = r /\ id \notin DOMAIN f
        /\ \A i \in DOMAIN f : g[i] = f[i]
    <2>1. id \notin DOMAIN f
      OBVIOUS
    <2>2. g = Insert(f, id, r)
      BY <1>1
    <2>3. DOMAIN g = DOMAIN f \cup {id} /\ g[id] = r /\ \A i \in DOMAIN f : i # id => g[i] = f[i]
      BY <2>2 DEF Insert
    <2> QED BY <2>1, <2>3
  <1>3. g[id].line = q /\ g[id].answer = a
    BY <1>1, <1>2
  <1>4. IsFiniteSet(DOMAIN f)
    BY FS_Interval
  <1>5. ASSUME NEW S, S \subseteq DOMAIN f
        PROVE  Cardinality(S) \in Nat /\ Cardinality(S \cup {id}) = Cardinality(S) + 1
    <2>1. IsFiniteSet(S) /\ id \notin S
      BY <1>2, <1>4, <1>5, FS_Subset
    <2> QED BY <2>1, FS_AddElement, FS_CardinalityType
  <1>6. Cardinality(LinesOf(g, m)) = Cardinality(LinesOf(f, m)) + (IF q = m THEN 1 ELSE 0)
    <2>1. LinesOf(f, m) \subseteq DOMAIN f
      BY DEF LinesOf
    <2>2. q = m => LinesOf(g, m) = LinesOf(f, m) \cup {id}
      BY <1>2, <1>3 DEF LinesOf
    <2>3. q # m => LinesOf(g, m) = LinesOf(f, m)
      BY <1>2, <1>3 DEF LinesOf
    <2>4. /\ Cardinality(LinesOf(f, m)) \in Nat
          /\ Cardinality(LinesOf(f, m) \cup {id}) = Cardinality(LinesOf(f, m)) + 1
      BY <1>5, <2>1
    <2>5. CASE q = m
      BY <2>2, <2>4, <2>5
    <2>6. CASE q # m
      BY <2>3, <2>4, <2>6
    <2> QED BY <2>5, <2>6
  <1>7. Cardinality(AnswersOf(g, m)) = Cardinality(AnswersOf(f, m)) + (IF a = m THEN 1 ELSE 0)
    <2>1. AnswersOf(f, m) \subseteq DOMAIN f
      BY DEF AnswersOf
    <2>2. a = m => AnswersOf(g, m) = AnswersOf(f, m) \cup {id}
      BY <1>2, <1>3 DEF AnswersOf
    <2>3. a # m => AnswersOf(g, m) = AnswersOf(f, m)
      BY <1>2, <1>3 DEF AnswersOf
    <2>4. /\ Cardinality(AnswersOf(f, m)) \in Nat
          /\ Cardinality(AnswersOf(f, m) \cup {id}) = Cardinality(AnswersOf(f, m)) + 1
      BY <1>5, <2>1
    <2>5. CASE a = m
      BY <2>2, <2>4, <2>5
    <2>6. CASE a # m
      BY <2>3, <2>4, <2>6
    <2> QED BY <2>5, <2>6
  <1> QED BY <1>6, <1>7

\* A new row for a line: the counts of the lines go with it.
LEMMA InsertShown ==
  ASSUME FileOK, TaskOK, TableOK, ShownOK, NEW n, Handled(n), NEW a, InsertDnsQuery(n, a),
         failed' = failed,
         \/ said[n].kind = "query" /\ a = 0
         \/ said[n].kind = "answer" /\ a = n,
         failed = 0 /\ deletes = 0 => \A k \in DOMAIN pending' : rows'[pending'[k]].answer = 0
  PROVE  ShownOK'
  <1>1. deletes' = deletes /\ said' = said
    BY DEF Handled
  <1> SUFFICES ASSUME failed = 0, deletes = 0
               PROVE  /\ DOMAIN rows' = 1..(nextId' - 1)
                      /\ \A m \in DOMAIN said : Counted(rows, m)'
    BY <1>1, ShownCountsNext DEF ShownOK
  <1>2. /\ nextId \in Nat \ {0} /\ nextId' = nextId + 1 /\ DOMAIN rows = 1..(nextId - 1)
        /\ rows' = Insert(rows, nextId, [line |-> n, answer |-> a])
        /\ \A m \in DOMAIN said : Counted(rows, m)
    BY ShownCounts DEF TableOK, ShownOK, InsertDnsQuery
  <1>3. n \in 1..Len(said) /\ ingested'[n] = ingested[n] + 1 /\ DOMAIN said = 1..Len(said)
    BY DEF Handled, FileOK
  <1>4. \A m \in 1..Len(said) : (m # n => ingested'[m] = ingested[m]) /\ ingested[m] \in Nat
    BY LogNumbers DEF Handled
  <1>5. DOMAIN rows' = 1..(nextId' - 1)
    <2>1. DOMAIN rows' = DOMAIN rows \cup {nextId}
      BY <1>2 DEF Insert
    <2>2. 1..(nextId - 1) \cup {nextId} = 1..nextId /\ nextId' - 1 = nextId
      BY <1>2
    <2> QED BY <1>2, <2>1, <2>2
  <1>6. ASSUME NEW m \in 1..Len(said), said[m].kind = "query"
        PROVE  Cardinality(LinesOf(rows', m)) = ingested'[m]
    <2>1. Cardinality(LinesOf(rows, m)) = ingested[m]
      BY <1>2, <1>3, <1>6 DEF Counted
    <2>2. Cardinality(LinesOf(rows', m)) = Cardinality(LinesOf(rows, m)) + (IF n = m THEN 1 ELSE 0)
      BY <1>2, InsertCounts
    <2> QED BY <1>3, <1>4, <2>1, <2>2
  <1>7. ASSUME NEW m \in 1..Len(said), said[m].kind = "answer"
        PROVE  Cardinality(AnswersOf(rows', m)) = ingested'[m]
    <2>1. Cardinality(AnswersOf(rows, m)) = ingested[m]
      BY <1>2, <1>3, <1>7 DEF Counted
    <2>2. Cardinality(AnswersOf(rows', m)) = Cardinality(AnswersOf(rows, m)) + (IF a = m THEN 1 ELSE 0)
      BY <1>2, InsertCounts
    <2>3. a = m <=> n = m
      BY <1>3, <1>7
    <2> QED BY <1>3, <1>4, <2>1, <2>2, <2>3
  <1> QED BY <1>1, <1>3, <1>5, <1>6, <1>7 DEF Counted

\* A statement fails: the rows stay, and no key is added.
LEMMA FailedInv ==
  ASSUME FileOK, TaskOK, TableOK, NEW n, Handled(n), StatementFails,
         DOMAIN pending' \subseteq DOMAIN pending,
         \A k \in DOMAIN pending' : pending'[k] = pending[k]
  PROVE  TableOK' /\ ShownOK'
  <1>1. rows' = rows /\ nextId' = nextId /\ failed' = failed + 1 /\ failed' # 0
    BY DEF StatementFails, TaskOK
  <1>2. \A i \in DOMAIN rows : RowOK(i)'
    BY <1>1, RowKept DEF TableOK
  <1>3. \A k \in DOMAIN pending' : PendingOK(k)'
    BY <1>1, PendingKept DEF TableOK
  <1>4. TableOK'
    BY <1>1, <1>2, <1>3 DEF TableOK
  <1> QED BY <1>1, <1>4 DEF ShownOK

\* A line that does not parse changes nothing.
LEMMA OtherInv ==
  ASSUME FileOK, TaskOK, TableOK, ShownOK, NEW n, Handled(n), said[n].kind = "other",
         UNCHANGED <<rows, nextId, pending, failed>>
  PROVE  TableOK' /\ ShownOK'
  <1>1. \A i \in DOMAIN rows : RowOK(i)'
    BY RowKept DEF TableOK
  <1>2. \A k \in DOMAIN pending' : PendingOK(k)'
    BY PendingKept DEF TableOK
  <1>3. TableOK'
    BY <1>1, <1>2 DEF TableOK
  <1>4. /\ said' = said /\ deletes' = deletes /\ DOMAIN said = 1..Len(said)
        /\ \A m \in 1..Len(said) : m # n => ingested'[m] = ingested[m]
    <2>1. said \in Seq(Lines)
      BY DEF FileOK
    <2> QED BY <2>1 DEF Handled
  <1>5. ASSUME NEW m \in DOMAIN said, Counted(rows, m) PROVE Counted(rows, m)'
    <2>1. CASE m = n
      BY <1>4, <2>1 DEF Counted
    <2>2. CASE m # n
      <3>1. ingested'[m] = ingested[m] /\ rows' = rows
        BY <1>4, <2>2
      <3> QED BY <1>4, <1>5, <3>1 DEF Counted
    <2> QED BY <2>1, <2>2
  <1>6. EveryLineShown => EveryLineShown'
    <2>1. failed' = failed
      OBVIOUS
    <2> QED BY <1>4, <1>5, <2>1, ShownCounts, ShownCountsNext
  <1>7. ShownOK'
    BY <1>4, <1>6 DEF ShownOK
  <1> QED BY <1>3, <1>7

\* A query has a new row, which waits under both keys.
LEMMA QueryInv ==
  ASSUME FileOK, TaskOK, TableOK, ShownOK, NEW n, Handled(n), said[n].kind = "query",
         InsertDnsQuery(n, 0), failed' = failed,
         pending' = Insert(Insert(pending, FullKey(said[n]), nextId' - 1), DomainKey(said[n]), nextId' - 1)
  PROVE  TableOK' /\ ShownOK'
  <1>1. /\ nextId \in Nat \ {0} /\ nextId' = nextId + 1 /\ nextId' - 1 = nextId
        /\ DOMAIN rows \subseteq 1..(nextId - 1) /\ nextId \notin DOMAIN rows
    BY DEF TableOK, InsertDnsQuery
  <1>2. PICK r : r = [line |-> n, answer |-> 0]
    OBVIOUS
  <1>3. /\ DOMAIN rows' = DOMAIN rows \cup {nextId} /\ rows'[nextId] = r
        /\ \A i \in DOMAIN rows : rows'[i] = rows[i]
    <2>1. rows' = Insert(rows, nextId, r)
      BY <1>2 DEF InsertDnsQuery
    <2> QED BY <1>1, <2>1 DEF Insert
  <1>4. /\ n \in 1..Len(said) /\ n \in Nat /\ ingested'[n] > 0 /\ said' = said /\ deletes' = deletes
        /\ Len(said) \in Nat
    BY CountsGrow DEF Handled
  <1>5. r \in [line : Nat, answer : Nat] /\ r.line = n /\ r.answer = 0
    BY <1>2, <1>4
  <1>6. ASSUME NEW i \in DOMAIN rows' PROVE RowOK(i)'
    <2>1. CASE i = nextId
      <3>1. rows'[i] = r
        BY <1>3, <2>1
      <3> QED BY <1>4, <1>5, <3>1 DEF RowOK
    <2>2. CASE i # nextId
      <3>1. i \in DOMAIN rows /\ rows'[i] = rows[i]
        BY <1>3, <2>2
      <3> QED BY <3>1, RowKept DEF TableOK
    <2> QED BY <2>1, <2>2
  <1>7. PICK fk, dk : fk = FullKey(said[n]) /\ dk = DomainKey(said[n])
    OBVIOUS
  <1>8. /\ DOMAIN pending' = DOMAIN pending \cup {fk, dk}
        /\ pending'[fk] = nextId /\ pending'[dk] = nextId
        /\ \A k \in DOMAIN pending : k \notin {fk, dk} => pending'[k] = pending[k]
    <2>1. pending' = Insert(Insert(pending, fk, nextId), dk, nextId)
      BY <1>1, <1>7
    <2> QED BY <2>1 DEF Insert
  <1>9. ASSUME NEW k \in DOMAIN pending' PROVE PendingOK(k)'
    <2>1. CASE k \in {fk, dk}
      <3>1. pending'[k] = nextId /\ nextId \in 1..(nextId' - 1) /\ rows'[nextId].line = n
        BY <1>1, <1>3, <1>5, <1>8, <2>1
      <3> QED BY <1>4, <1>7, <2>1, <3>1 DEF PendingOK
    <2>2. CASE k \notin {fk, dk}
      <3>1. k \in DOMAIN pending /\ pending'[k] = pending[k] /\ PendingOK(k)
        BY <1>8, <2>2 DEF TableOK
      <3>2. pending[k] # nextId
        BY <1>1, <3>1 DEF PendingOK
      <3>3. pending[k] \in DOMAIN rows' =>
              pending[k] \in DOMAIN rows /\ rows'[pending[k]].line = rows[pending[k]].line
        BY <1>3, <3>2
      <3>4. nextId \in Nat /\ nextId' \in Nat /\ nextId <= nextId'
        BY <1>1
      <3> QED BY <3>1, <3>3, <3>4, PendingKept
    <2> QED BY <2>1, <2>2
  <1>10. TableOK'
    <2>1. DOMAIN rows' \subseteq 1..(nextId' - 1) /\ nextId' \in Nat \ {0}
      BY <1>1, <1>3
    <2> QED BY <1>6, <1>9, <2>1 DEF TableOK
  <1>11. ASSUME failed = 0, deletes = 0, NEW k \in DOMAIN pending' PROVE rows'[pending'[k]].answer = 0
    <2>1. CASE k \in {fk, dk}
      BY <1>3, <1>5, <1>8, <2>1
    <2>2. CASE k \notin {fk, dk}
      <3>1. k \in DOMAIN pending /\ pending'[k] = pending[k] /\ PendingOK(k)
        BY <1>8, <2>2 DEF TableOK
      <3>2. pending[k] \in DOMAIN rows /\ rows[pending[k]].answer = 0
        BY <1>11, <3>1 DEF ShownOK, PendingOK
      <3> QED BY <1>3, <3>1, <3>2
    <2> QED BY <2>1, <2>2
  <1>12. ShownOK'
    BY <1>11, InsertShown
  <1> QED BY <1>10, <1>12

\* An answer for which nothing waits has a row of its own.
LEMMA NewRowInv ==
  ASSUME FileOK, TaskOK, TableOK, ShownOK, NEW n, Handled(n), said[n].kind = "answer",
         InsertDnsQuery(n, n), UNCHANGED <<pending, failed>>
  PROVE  TableOK' /\ ShownOK'
  <1>1. /\ nextId \in Nat \ {0} /\ nextId' = nextId + 1
        /\ DOMAIN rows \subseteq 1..(nextId - 1) /\ nextId \notin DOMAIN rows
    BY DEF TableOK, InsertDnsQuery
  <1>2. PICK r : r = [line |-> n, answer |-> n]
    OBVIOUS
  <1>3. /\ DOMAIN rows' = DOMAIN rows \cup {nextId} /\ rows'[nextId] = r
        /\ \A i \in DOMAIN rows : rows'[i] = rows[i]
    <2>1. rows' = Insert(rows, nextId, r)
      BY <1>2 DEF InsertDnsQuery
    <2> QED BY <1>1, <2>1 DEF Insert
  <1>4. /\ n \in 1..Len(said) /\ n \in Nat /\ n # 0 /\ n \in 0..Len(said)
        /\ ingested'[n] > 0 /\ said' = said /\ deletes' = deletes
    BY CountsGrow DEF Handled
  <1>5. r \in [line : Nat, answer : Nat] /\ r.line = n /\ r.answer = n
    BY <1>2, <1>4
  <1>6. ASSUME NEW i \in DOMAIN rows' PROVE RowOK(i)'
    <2>1. CASE i = nextId
      <3>1. rows'[i] = r
        BY <1>3, <2>1
      <3> QED BY <1>4, <1>5, <3>1 DEF RowOK
    <2>2. CASE i # nextId
      <3>1. i \in DOMAIN rows /\ rows'[i] = rows[i]
        BY <1>3, <2>2
      <3> QED BY <3>1, RowKept DEF TableOK
    <2> QED BY <2>1, <2>2
  <1>7. ASSUME NEW k \in DOMAIN pending
        PROVE  /\ PendingOK(k) /\ pending[k] # nextId
               /\ pending[k] \in DOMAIN rows' =>
                    pending[k] \in DOMAIN rows /\ rows'[pending[k]] = rows[pending[k]]
    <2>1. PendingOK(k)
      BY DEF TableOK
    <2>2. pending[k] # nextId
      BY <1>1, <2>1 DEF PendingOK
    <2> QED BY <1>3, <2>1, <2>2
  <1>8. \A k \in DOMAIN pending' : PendingOK(k)'
    <2>1. nextId \in Nat /\ nextId' \in Nat /\ nextId <= nextId'
      BY <1>1
    <2> QED BY <1>7, <2>1, PendingKept
  <1>9. TableOK'
    <2>1. DOMAIN rows' \subseteq 1..(nextId' - 1) /\ nextId' \in Nat \ {0}
      BY <1>1, <1>3
    <2> QED BY <1>6, <1>8, <2>1 DEF TableOK
  <1>10. ASSUME failed = 0, deletes = 0, NEW k \in DOMAIN pending PROVE rows'[pending[k]].answer = 0
    <2>1. pending[k] \in DOMAIN rows /\ rows[pending[k]].answer = 0
      BY <1>7, <1>10 DEF ShownOK, PendingOK
    <2> QED BY <1>3, <2>1
  <1>11. ShownOK'
    BY <1>10, InsertShown
  <1> QED BY <1>9, <1>11

\* Both keys of a line name its domain, and no other.
LEMMA KeyDomain ==
  ASSUME NEW x, NEW y, NEW k, k \in {FullKey(x), DomainKey(x)}, k \in {FullKey(y), DomainKey(y)}
  PROVE  x.domain = y.domain
  <1>1. /\ Len(FullKey(x)) = 2 /\ Len(DomainKey(x)) = 1
        /\ Len(FullKey(y)) = 2 /\ Len(DomainKey(y)) = 1
    BY DEF FullKey, DomainKey
  <1>2. /\ FullKey(x)[2] = x.domain /\ DomainKey(x)[1] = x.domain
        /\ FullKey(y)[2] = y.domain /\ DomainKey(y)[1] = y.domain
    BY DEF FullKey, DomainKey
  <1>3. FullKey(x) # DomainKey(y) /\ FullKey(y) # DomainKey(x)
    BY <1>1
  <1> QED BY <1>2, <1>3

\* An answer goes to the row that waits; nothing waits for that row any more.
LEMMA AnswerInv ==
  ASSUME FileOK, TaskOK, OrderOK, TableOK, ShownOK, NEW n, Handled(n), said[n].kind = "answer",
         NEW key \in {FullKey(said[n]), DomainKey(said[n])}, key \in DOMAIN pending,
         pending' = Remove(pending[key]),
         rows' = [i \in DOMAIN rows |->
                    IF i = pending[key] THEN [rows[i] EXCEPT !.answer = n] ELSE rows[i]],
         UNCHANGED <<nextId, failed>>
  PROVE  TableOK' /\ ShownOK'
  <1>1. PICK p : p = pending[key]
    OBVIOUS
  <1>2. /\ DOMAIN rows' = DOMAIN rows
        /\ \A i \in DOMAIN rows : i # p => rows'[i] = rows[i]
        /\ p \in DOMAIN rows => rows'[p] = [rows[p] EXCEPT !.answer = n]
    BY <1>1
  <1>3. /\ n \in 1..Len(said) /\ n \in Nat /\ n # 0 /\ n \in 0..Len(said) /\ Len(said) \in Nat
        /\ ingested'[n] = ingested[n] + 1
        /\ said' = said /\ deletes' = deletes /\ Clean' = Clean
        /\ DOMAIN said = 1..Len(said)
    <2>1. Len(said) \in Nat /\ DOMAIN said = 1..Len(said)
      BY DEF FileOK
    <2>2. /\ n \in 1..Len(said) /\ ingested'[n] = ingested[n] + 1
          /\ said' = said /\ deletes' = deletes /\ Clean' = Clean
      BY DEF Handled, Clean
    <2>3. n \in Nat /\ n # 0 /\ n \in 0..Len(said)
      BY <2>1, <2>2
    <2> QED BY <2>1, <2>2, <2>3
  <1>4. \A m \in 1..Len(said) : (m # n => ingested'[m] = ingested[m]) /\ ingested[m] \in Nat
    BY LogNumbers DEF Handled
  <1>5. /\ DOMAIN pending' \subseteq DOMAIN pending
        /\ \A k \in DOMAIN pending' : pending'[k] = pending[k] /\ pending[k] # p
    BY <1>1 DEF Remove
  <1>6. ASSUME p \in DOMAIN rows
        PROVE  /\ rows[p] \in [line : Nat, answer : Nat] /\ RowOK(p)
               /\ rows'[p].line = rows[p].line /\ rows'[p].answer = n
               /\ rows'[p] \in [line : Nat, answer : Nat]
               /\ said[rows[p].line].kind = "query"
               /\ said[rows[p].line].domain = said[n].domain
    <2>1. RowOK(p) /\ rows[p] \in [line : Nat, answer : Nat]
      BY <1>6 DEF TableOK, RowOK
    <2>2. PendingOK(key)
      BY DEF TableOK
    <2>3. /\ said[rows[p].line].kind = "query"
          /\ key \in {FullKey(said[rows[p].line]), DomainKey(said[rows[p].line])}
      BY <1>1, <1>6, <2>2 DEF PendingOK
    <2>4. said[rows[p].line].domain = said[n].domain
      BY <2>3, KeyDomain
    <2> QED BY <1>2, <1>3, <1>6, <2>1, <2>3, <2>4
  <1>7. ASSUME NEW i \in DOMAIN rows PROVE RowOK(i)'
    <2>1. CASE i = p
      <3>1. PICK q : q = rows[p].line
        OBVIOUS
      <3>2. q \in 1..Len(said) /\ ingested[q] > 0 /\ ingested'[q] > 0
        BY <1>6, <2>1, <3>1, CountsGrow DEF RowOK
      <3>3. Clean => q < n
        <4> SUFFICES ASSUME Clean PROVE q < n
          OBVIOUS
        <4>1. Unhandled(n) /\ n \in Nat
          <5>1. 1 \in 1..Len(buf) /\ n = buf[1]
            BY LogNumbers DEF Handled
          <5> QED BY <1>3, <5>1 DEF OrderOK
        <4>2. ~(q \in n..Len(said))
          BY <3>2, <4>1 DEF Unhandled
        <4> QED BY <1>3, <3>2, <4>2
      <3>4. /\ rows'[i].line = q /\ rows'[i].answer = n /\ rows'[i] \in [line : Nat, answer : Nat]
            /\ said[q].kind = "query" /\ said[q].domain = said[n].domain
        BY <1>6, <2>1, <3>1
      <3> QED BY <1>3, <3>2, <3>3, <3>4 DEF RowOK
    <2>2. CASE i # p
      BY <1>2, <2>2, RowKept DEF TableOK
    <2> QED BY <2>1, <2>2
  <1>8. ASSUME NEW k \in DOMAIN pending' PROVE PendingOK(k)'
    <2>1. k \in DOMAIN pending /\ pending'[k] = pending[k] /\ pending[k] # p /\ PendingOK(k)
      BY <1>5 DEF TableOK
    <2>2. pending[k] \in DOMAIN rows' =>
            pending[k] \in DOMAIN rows /\ rows'[pending[k]].line = rows[pending[k]].line
      BY <1>2, <2>1
    <2>3. nextId \in Nat /\ nextId' \in Nat /\ nextId <= nextId'
      BY DEF TableOK
    <2> QED BY <2>1, <2>2, <2>3, PendingKept
  <1>9. TableOK'
    BY <1>2, <1>7, <1>8 DEF TableOK
  <1>10. ShownOK'
    <2> SUFFICES ASSUME failed = 0, deletes = 0
                 PROVE  /\ DOMAIN rows' = 1..(nextId - 1)
                        /\ \A k \in DOMAIN pending' : rows'[pending'[k]].answer = 0
                        /\ \A m \in DOMAIN said : Counted(rows, m)'
      BY <1>3, ShownCountsNext DEF ShownOK
    <2>1. /\ DOMAIN rows = 1..(nextId - 1) /\ \A k \in DOMAIN pending : rows[pending[k]].answer = 0
          /\ \A m \in DOMAIN said : Counted(rows, m)
      BY ShownCounts DEF ShownOK
    <2>2. p \in DOMAIN rows /\ rows[p].answer = 0
      <3>1. PendingOK(key)
        BY DEF TableOK
      <3> QED BY <1>1, <2>1, <3>1 DEF PendingOK
    <2>3. ASSUME NEW k \in DOMAIN pending' PROVE rows'[pending'[k]].answer = 0
      <3>1. k \in DOMAIN pending /\ pending'[k] = pending[k] /\ pending[k] # p /\ PendingOK(k)
        BY <1>5 DEF TableOK
      <3>2. pending[k] \in DOMAIN rows
        BY <2>1, <3>1 DEF PendingOK
      <3>3. rows'[pending[k]] = rows[pending[k]] /\ rows[pending[k]].answer = 0
        BY <1>2, <2>1, <3>1, <3>2
      <3> QED BY <3>1, <3>3
    <2>4. IsFiniteSet(DOMAIN rows)
      BY <2>1, FS_Interval DEF TableOK
    <2>5. ASSUME NEW m \in 1..Len(said), said[m].kind = "query"
          PROVE  Cardinality(LinesOf(rows', m)) = ingested'[m]
      <3>1. LinesOf(rows', m) = LinesOf(rows, m)
        <4>1. \A i \in DOMAIN rows : rows'[i].line = rows[i].line
          BY <1>2, <1>6
        <4> QED BY <1>2, <4>1 DEF LinesOf
      <3>2. Cardinality(LinesOf(rows, m)) = ingested[m]
        BY <1>3, <2>1, <2>5 DEF Counted
      <3>3. m # n
        BY <2>5
      <3> QED BY <1>4, <3>1, <3>2, <3>3
    <2>6. ASSUME NEW m \in 1..Len(said), said[m].kind = "answer"
          PROVE  Cardinality(AnswersOf(rows', m)) = ingested'[m]
      <3>1. Cardinality(AnswersOf(rows, m)) = ingested[m] /\ ingested[m] \in Nat
        BY <1>3, <1>4, <2>1, <2>6 DEF Counted
      <3>2. m # 0 /\ p \notin AnswersOf(rows, m) /\ rows'[p].answer = n
        BY <1>6, <2>2 DEF AnswersOf
      <3>3. CASE m = n
        <4>1. AnswersOf(rows', m) = AnswersOf(rows, m) \cup {p}
          BY <1>2, <2>2, <3>2, <3>3 DEF AnswersOf
        <4>2. IsFiniteSet(AnswersOf(rows, m))
          BY <2>4, FS_Subset DEF AnswersOf
        <4>3. Cardinality(AnswersOf(rows, m) \cup {p}) = Cardinality(AnswersOf(rows, m)) + 1
          BY <3>2, <4>2, FS_AddElement
        <4> QED BY <1>3, <3>1, <3>3, <4>1, <4>3
      <3>4. CASE m # n
        <4>1. AnswersOf(rows', m) = AnswersOf(rows, m)
          BY <1>2, <2>2, <3>2, <3>4 DEF AnswersOf
        <4> QED BY <1>4, <3>1, <3>4, <4>1
      <3> QED BY <3>3, <3>4
    <2> QED BY <1>2, <1>3, <2>1, <2>3, <2>5, <2>6 DEF Counted
  <1> QED BY <1>9, <1>10

\* The body of the loop, whatever the line says.
LEMMA HandleInv ==
  ASSUME LogInv, HandleLine
  PROVE  LogInv'
  <1>0. FileOK /\ TaskOK /\ SavedOK /\ OffsetOK /\ OrderOK /\ TableOK /\ ShownOK
    BY DEF LogInv
  <1>1. PICK n : n = Head(buf)
    OBVIOUS
  <1>2. Handled(n)
    BY <1>0, <1>1, HandledFacts
  <1>3. \/ said[n].kind = "query" /\ Query(n, said[n])
        \/ said[n].kind = "answer" /\ Result(n, said[n])
        \/ said[n].kind = "other" /\ UNCHANGED <<rows, nextId, pending, failed>>
    BY <1>1 DEF HandleLine
  <1>4. failed' \in Nat /\ TableOK' /\ ShownOK'
    <2>1. CASE said[n].kind = "query" /\ Query(n, said[n])
      <3>1. CASE StatementFails /\ UNCHANGED pending
        <4>1. failed' \in Nat
          BY <1>0, <3>1 DEF StatementFails, TaskOK
        <4> QED BY <1>0, <1>2, <3>1, <4>1, FailedInv
      <3>2. CASE /\ InsertDnsQuery(n, 0) /\ failed' = failed
                 /\ pending' = Insert(Insert(pending, FullKey(said[n]), nextId' - 1),
                                      DomainKey(said[n]), nextId' - 1)
        <4>1. failed' \in Nat
          BY <1>0, <3>2 DEF TaskOK
        <4> QED BY <1>0, <1>2, <2>1, <3>2, <4>1, QueryInv
      <3> QED BY <2>1, <3>1, <3>2 DEF Query
    <2>2. CASE said[n].kind = "answer" /\ Result(n, said[n])
      <3> DEFINE keys == {FullKey(said[n]), DomainKey(said[n])} \cap DOMAIN pending
                 key == IF FullKey(said[n]) \in keys THEN FullKey(said[n]) ELSE DomainKey(said[n])
      <3>1. CASE StatementFails /\ (pending' = pending \/ pending' = Remove(pending[key]))
        <4>1. failed' \in Nat
          BY <1>0, <3>1 DEF StatementFails, TaskOK
        <4>2. /\ DOMAIN pending' \subseteq DOMAIN pending
              /\ \A k \in DOMAIN pending' : pending'[k] = pending[k]
          BY <3>1 DEF Remove
        <4> QED BY <1>0, <1>2, <3>1, <4>1, <4>2, FailedInv
      <3>2. CASE /\ keys # {} /\ pending' = Remove(pending[key])
                 /\ rows' = [i \in DOMAIN rows |->
                               IF i = pending[key] THEN [rows[i] EXCEPT !.answer = n] ELSE rows[i]]
                 /\ UNCHANGED <<nextId, failed>>
        <4>1. key \in {FullKey(said[n]), DomainKey(said[n])} /\ key \in DOMAIN pending
          BY <3>2
        <4>2. failed' \in Nat
          BY <1>0, <3>2 DEF TaskOK
        <4> HIDE DEF keys, key
        <4> QED BY <1>0, <1>2, <2>2, <3>2, <4>1, <4>2, AnswerInv
      <3>3. CASE pending' = pending /\ InsertDnsQuery(n, n) /\ failed' = failed
        <4>1. failed' \in Nat
          BY <1>0, <3>3 DEF TaskOK
        <4> QED BY <1>0, <1>2, <2>2, <3>3, <4>1, NewRowInv
      <3> QED BY <2>2, <3>1, <3>2, <3>3 DEF Result
    <2>3. CASE said[n].kind = "other" /\ UNCHANGED <<rows, nextId, pending, failed>>
      <3>1. failed' \in Nat
        BY <1>0, <2>3 DEF TaskOK
      <3> QED BY <1>0, <1>2, <2>3, <3>1, OtherInv
    <2> QED BY <1>3, <2>1, <2>2, <2>3
  <1>5. FileOK' /\ TaskOK' /\ SavedOK' /\ OffsetOK' /\ OrderOK'
    BY <1>0, <1>2, <1>4, HandleOrder
  <1> QED BY <1>4, <1>5 DEF LogInv

------------------------------------------------------------------------------
(* The theorems *)

\* Each step of the query log.
LEMMA LogStepInv ==
  ASSUME LogInv, LogNext
  PROVE  LogInv'
  BY WriteInv, RotateInv, DeleteInv, RestartInv, StatInv, ReadInv, HandleInv, FinishInv
     DEF LogNext, IngestOnce

\* A step of the other task.
LEMMA LogStays ==
  ASSUME LogInv, UNCHANGED logVars
  PROVE  LogInv'
  <1>0. FileOK /\ TaskOK /\ SavedOK /\ OffsetOK /\ OrderOK /\ TableOK /\ ShownOK
    BY DEF LogInv
  <1>1. UNCHANGED <<said, log, rows, nextId, saved, offset, pending, ipc, len, buf, deletes,
                    restarts, failed, gen, ingested, crossed, masked>>
    BY DEF logVars, disk, table, task, faults, logHistory
  <1>2. Clean' = Clean
    BY <1>1 DEF Clean
  <1>3. FileOK' /\ SavedOK' /\ OffsetOK'
    BY <1>0, <1>1 DEF FileOK, SavedOK, OffsetOK, InBuf
  <1>4. TaskOK'
    BY <1>0, <1>1 DEF TaskOK
  <1>5. OrderOK'
    BY <1>0, <1>1, <1>2 DEF OrderOK, ToRead, Unhandled
  <1>6. TableOK' /\ ShownOK'
    BY <1>0, <1>1, <1>2, TableFrame
  <1> QED BY <1>3, <1>4, <1>5, <1>6 DEF LogInv

\* The start: an empty log and an empty table.
LEMMA LogInitInv ==
  ASSUME LogInit
  PROVE  LogInv
  <1>1. /\ said = <<>> /\ log = <<>> /\ ingested = <<>> /\ buf = <<>>
        /\ offset = 0 /\ saved = 0 /\ len = 0 /\ ipc = "idle" /\ nextId = 1
        /\ deletes = 0 /\ restarts = 0 /\ failed = 0
        /\ gen = [file |-> 0, offset |-> 0, saved |-> 0]
    BY DEF LogInit
  <1>2. DOMAIN pending = {} /\ DOMAIN rows = {}
    BY DEF LogInit, NoKeys
  <1>3. /\ \A S : <<>> \in Seq(S)
        /\ Len(<<>>) = 0 /\ MaxLines \in Nat /\ 1..0 = {}
    BY LogAssumption
  <1>4. FileOK
    BY <1>1, <1>3 DEF FileOK
  <1>5. TaskOK
    BY <1>1, <1>3 DEF TaskOK
  <1>6. SavedOK /\ OffsetOK /\ OrderOK
    BY <1>1, <1>3 DEF SavedOK, OffsetOK, OrderOK
  <1>7. TableOK
    BY <1>1, <1>2 DEF TableOK
  <1>8. ShownOK
    <2>1. DOMAIN said = {}
      BY <1>1
    <2>2. 1..(nextId - 1) = {}
      BY <1>1
    <2> QED BY <1>2, <2>1, <2>2 DEF ShownOK, EveryLineShown
  <1> QED BY <1>4, <1>5, <1>6, <1>7, <1>8 DEF LogInv

\* Both invariants hold in every state of the two tasks.
LEMMA DbInvariant == DbSpec => [](LogInv /\ TrafficInv)
  <1>1. DbInit => LogInv /\ TrafficInv
    BY LogInitInv, TrafficInitInv DEF DbInit
  <1>2. LogInv /\ TrafficInv /\ [DbNext]_<<logVars, trafficVars>> => LogInv' /\ TrafficInv'
    <2> SUFFICES ASSUME LogInv, TrafficInv, [DbNext]_<<logVars, trafficVars>>
                 PROVE  LogInv' /\ TrafficInv'
      OBVIOUS
    <2>1. CASE LogNext /\ UNCHANGED trafficVars
      BY <2>1, LogStepInv, TrafficStays
    <2>2. CASE TrafficNext /\ UNCHANGED logVars
      BY <2>2, TrafficStepInv, LogStays
    <2>3. CASE UNCHANGED logVars /\ UNCHANGED trafficVars
      BY <2>3, LogStays, TrafficStays
    <2> QED BY <2>1, <2>2, <2>3 DEF DbNext
  <1> QED BY <1>1, <1>2, PTL DEF DbSpec

\* Types, for any number of lines, faults and samples: the queue and the buffer stay within
\* their limits, and the task never holds an id that was not given out.
THEOREM DbTypeCorrect == DbSpec => []DbTypeOK
  <1>1. LogInv /\ TrafficInv => DbTypeOK
    <2> SUFFICES ASSUME LogInv, TrafficInv PROVE DbTypeOK
      OBVIOUS
    <2>0. FileOK /\ TaskOK /\ TableOK
      BY DEF LogInv
    <2>1. said \in Seq(Lines) /\ log \in Seq(Nat)
      BY <2>0 DEF FileOK
    <2>2. \A i \in DOMAIN log : log[i] \in DOMAIN said
      <3>1. DOMAIN log = 1..Len(log) /\ DOMAIN said = 1..Len(said)
        BY <2>1
      <3>2. \A i \in 1..Len(log) : log[i] \in 1..Len(said)
        BY <2>0, LogNumbers
      <3> QED BY <3>1, <3>2
    <2>3. LogTypeOK
      BY <2>0, <2>1, <2>2 DEF FileOK, TaskOK, TableOK, PendingOK, LogTypeOK
    <2> QED BY <2>3, TrafficTypes DEF DbTypeOK
  <1> QED BY <1>1, DbInvariant, PTL

\* ingest_once skips no line and handles none twice, for any log, with the rotations,
\* restarts and failures where they may: a line is skipped only after a rotation to a file
\* as long as the offset, and handled twice only after a restart or a change of the file
\* between the stat and the read.
THEOREM LinesCorrect == DbSpec => []LinesHandledOnce
  <1>1. LogInv => LinesHandledOnce
    <2> SUFFICES ASSUME LogInv PROVE LinesHandledOnce
      OBVIOUS
    <2>0. FileOK /\ TaskOK /\ OffsetOK /\ OrderOK
      BY DEF LogInv
    <2>1. NoLineSkipped
      <3> SUFFICES ASSUME ipc = "idle", gen.offset = gen.file, ~masked
                   PROVE  \A i \in 1..offset : ingested[log[i]] > 0
        BY DEF NoLineSkipped
      <3>1. \A x : ~InBuf(x)
        BY <2>0 DEF TaskOK, InBuf
      <3> QED BY <2>0, <3>1 DEF OffsetOK
    <2>2. HandledOnce
      <3>1. DOMAIN ingested = 1..Len(said)
        BY <2>0 DEF FileOK
      <3> QED BY <2>0, <3>1 DEF OrderOK, Clean, HandledOnce
    <2> QED BY <2>1, <2>2 DEF LinesHandledOnce
  <1> QED BY <1>1, DbInvariant, PTL

\* An answer is shown with a query of its own domain, also when rows are deleted under the
\* ids that wait, and nothing that was handled is missing or overwritten as long as no
\* statement fails and no row is deleted.
THEOREM RowsCorrect == DbSpec => []RowsFitLines
  <1>1. LogInv => RowsFitLines
    <2> SUFFICES ASSUME LogInv PROVE RowsFitLines
      OBVIOUS
    <2>1. AnswersFitQueries
      BY DEF LogInv, TableOK, RowOK, Clean, AnswersFitQueries
    <2>2. EveryLineShown
      BY DEF LogInv, ShownOK, EveryLineShown
    <2> QED BY <2>1, <2>2 DEF RowsFitLines
  <1> QED BY <1>1, DbInvariant, PTL

\* Every sample is counted once: it waits, is in both tables, or was dropped or lost for a
\* reason that the history names.
THEOREM SamplesCorrect == DbSpec => []SamplesAccounted
  <1>1. TrafficInv => SamplesAccounted
    BY DEF TrafficInv
  <1> QED BY <1>1, DbInvariant, PTL
==============================================================================

---------------------------- MODULE DomainLimiter ----------------------------
(***************************************************************************)
(* The per-domain daily limiter (src/domain_limiter.rs), one step per      *)
(* atomic memory operation.  Every relayed session calls check_connection  *)
(* once and then, from its two copy tasks, account_bytes after every chunk *)
(* it has forwarded; tasks run on several worker threads, so the atomic    *)
(* operations of different calls interleave freely.  The tasks that write  *)
(* the counters to disk call refresh_if_new_day as well; what they do with *)
(* the values they read is in LimiterPersistence.                          *)
(***************************************************************************)
EXTENDS Integers, FiniteSets

CONSTANTS
  Domains,          \* the keys of cfg.domain_limits
  NoKey,            \* stands for the host names that match no key
  Sessions,         \* concurrent relayed connections
  Savers,           \* tasks that take snapshots of the counters
  DailyBandwidth,   \* [Domains -> bytes or NoLimit]
  DailyConnections, \* [Domains -> connections or NoLimit]
  NoLimit,          \* an Option that is None
  MaxChunk,         \* largest chunk one copy iteration forwards
  HasStateFile,     \* whether state_file is configured
  LastDay           \* bound: the last UTC day a behaviour reaches

ASSUME LimiterAssumption ==
  /\ NoKey \notin Domains
  /\ NoLimit \notin Nat
  /\ DailyBandwidth \in [Domains -> Nat \cup {NoLimit}]
  /\ DailyConnections \in [Domains -> Nat \cup {NoLimit}]
  /\ IsFiniteSet(Sessions)
  /\ Sessions \cap Savers = {}
  /\ MaxChunk \in Nat \ {0}
  /\ HasStateFile \in BOOLEAN
  /\ LastDay \in Nat

VARIABLES
  clock,        \* the true UTC day, what epoch_day_utc() returns
  day,          \* DomainCounters.day
  bytes,        \* DomainCounters.bytes
  connections,  \* DomainCounters.connections
  dirty,        \* DomainLimiter.dirty
  pc,           \* where each task is
  dom,          \* the key each session or saver works on
  today,        \* the local `today` of refresh_if_new_day
  reg,          \* the local `stored`, `current` or `new_used` of a task
  admitted      \* history: admissions made today by calls that saw today

counters == <<day, bytes, connections>>
limiterVars == <<clock, day, bytes, connections, dirty, pc, dom, today, reg,
                 admitted>>

------------------------------------------------------------------------------
(* Tasks.  <<s, "conn">> is the handle_connection task of session s,       *)
(* <<s, "up">> and <<s, "down">> are its copy tasks, <<v, "save">> is a    *)
(* task inside persist_now.                                                *)

Dirs == {"up", "down"}
ConnTasks == Sessions \X {"conn"}
CopyTasks == Sessions \X Dirs
SaveTasks == Savers \X {"save"}
Tasks == ConnTasks \cup CopyTasks \cup SaveTasks

Conn(s) == <<s, "conn">>
Copies(s) == {<<s, "up">>, <<s, "down">>}
Key(t) == dom[t[1]]

RefreshPcs == {"today", "load", "cas", "zero_bytes", "zero_connections"}
CheckPcs == {"bandwidth", "connections", "increment"}
SavePcs == {"next", "snapshot", "snapshot_bytes", "snapshot_connections",
            "write", "rename", "clean"}
Pcs == {"idle", "connect", "splice", "copy", "add", "mark", "done"}
         \cup RefreshPcs \cup CheckPcs \cup SavePcs

Goto(t, l) == pc' = [pc EXCEPT ![t] = l]

------------------------------------------------------------------------------
(* refresh_if_new_day *)

\* Where the caller goes on when refresh_if_new_day returns.
AfterRefresh(t) == IF t[2] = "conn" THEN "bandwidth"
                   ELSE IF t[2] = "save" THEN "snapshot"
                   ELSE "add"

\* let today = epoch_day_utc();
ReadClock(t) ==
  /\ pc[t] = "today"
  /\ today' = [today EXCEPT ![t] = clock]
  /\ Goto(t, "load")
  /\ UNCHANGED <<clock, day, bytes, connections, dirty, dom, reg, admitted>>

\* let stored = self.day.load(..); if stored != today
LoadDay(t) ==
  /\ pc[t] = "load"
  /\ \/ /\ day[Key(t)] # today[t]
        /\ reg' = [reg EXCEPT ![t] = day[Key(t)]]
        /\ Goto(t, "cas")
     \/ /\ day[Key(t)] = today[t]
        /\ Goto(t, AfterRefresh(t))
        /\ UNCHANGED reg
  /\ UNCHANGED <<clock, day, bytes, connections, dirty, dom, today, admitted>>

\* self.day.compare_exchange(stored, today, ..)
CasDay(t) ==
  /\ pc[t] = "cas"
  /\ \/ /\ day[Key(t)] = reg[t]
        /\ day' = [day EXCEPT ![Key(t)] = today[t]]
        /\ Goto(t, "zero_bytes")
     \/ /\ day[Key(t)] # reg[t]
        /\ Goto(t, AfterRefresh(t))
        /\ UNCHANGED day
  /\ reg' = [reg EXCEPT ![t] = 0]
  /\ UNCHANGED <<clock, bytes, connections, dirty, dom, today, admitted>>

\* self.bytes.store(0, ..)
ZeroBytes(t) ==
  /\ pc[t] = "zero_bytes"
  /\ bytes' = [bytes EXCEPT ![Key(t)] = 0]
  /\ Goto(t, "zero_connections")
  /\ UNCHANGED <<clock, day, connections, dirty, dom, today, reg, admitted>>

\* self.connections.store(0, ..)
ZeroConnections(t) ==
  /\ pc[t] = "zero_connections"
  /\ connections' = [connections EXCEPT ![Key(t)] = 0]
  /\ Goto(t, AfterRefresh(t))
  /\ UNCHANGED <<clock, day, bytes, dirty, dom, today, reg, admitted>>

Refresh(t) == \/ ReadClock(t)
              \/ LoadDay(t)
              \/ CasDay(t)
              \/ ZeroBytes(t)
              \/ ZeroConnections(t)

------------------------------------------------------------------------------
(* check_connection *)

\* handle_connection has a host name and calls check_connection; a name that
\* matches no key is admitted without touching a counter.
CheckConnection(s, d) ==
  /\ pc[Conn(s)] = "idle"
  /\ dom' = [dom EXCEPT ![s] = d]
  /\ Goto(Conn(s), IF d = NoKey THEN "connect" ELSE "today")
  /\ UNCHANGED <<clock, day, bytes, connections, dirty, today, reg, admitted>>

\* Return from the limiter.  A check_connection that is Ok goes on to "connect";
\* one that is Err goes to "idle": handle_connection closes the client's socket
\* and ends.
Return(t, l) ==
  /\ Goto(t, l)
  /\ today' = [today EXCEPT ![t] = 0]
  /\ reg' = [reg EXCEPT ![t] = 0]

\* if let Some(max_bytes) .. { if used >= max_bytes { return Err } }
CheckBandwidth(t) ==
  LET max == DailyBandwidth[Key(t)]
      over == max # NoLimit /\ bytes[Key(t)] >= max
      limited == DailyConnections[Key(t)] # NoLimit
  IN /\ pc[t] = "bandwidth"
     /\ \/ over /\ Return(t, "idle")
        \/ ~over /\ ~limited /\ Return(t, "connect")
        \/ ~over /\ limited /\ Goto(t, "connections") /\ UNCHANGED <<today, reg>>
     /\ UNCHANGED <<clock, day, bytes, connections, dirty, dom, admitted>>

\* let mut current = counters.connections.load(..)
LoadConnections(t) ==
  /\ pc[t] = "connections"
  /\ reg' = [reg EXCEPT ![t] = connections[Key(t)]]
  /\ Goto(t, "increment")
  /\ UNCHANGED <<clock, day, bytes, connections, dirty, dom, today, admitted>>

\* Mutant: fetch_add after the comparison instead of the exchange.
IncrementFetchAdd(t) ==
  LET d == Key(t)
      admit == reg[t] < DailyConnections[d]
  IN /\ pc[t] = "increment"
     /\ \/ ~admit /\ Return(t, "idle") /\ UNCHANGED connections
        \/ /\ admit
           /\ connections' = [connections EXCEPT ![d] = @ + 1]
           /\ Goto(t, "mark")
           /\ UNCHANGED <<today, reg>>
     /\ UNCHANGED <<clock, day, bytes, dirty, dom, admitted>>

\* Mutant: the comparison with the limit is off by one.
IncrementPastLimit(t) ==
  LET d == Key(t)
      admit == reg[t] <= DailyConnections[d]
  IN /\ pc[t] = "increment"
     /\ \/ ~admit /\ Return(t, "idle") /\ UNCHANGED connections
        \/ /\ admit /\ connections[d] = reg[t]
           /\ connections' = [connections EXCEPT ![d] = reg[t] + 1]
           /\ Goto(t, "mark")
           /\ UNCHANGED <<today, reg>>
     /\ UNCHANGED <<clock, day, bytes, dirty, dom, admitted>>

\* Mutant: a call that is turned away is counted as well.
IncrementRejected(t) ==
  LET d == Key(t)
      admit == reg[t] < DailyConnections[d]
  IN /\ pc[t] = "increment"
     /\ connections[d] = reg[t]
     /\ connections' = [connections EXCEPT ![d] = reg[t] + 1]
     /\ IF admit THEN Goto(t, "mark") /\ UNCHANGED <<today, reg>> ELSE Return(t, "idle")
     /\ UNCHANGED <<clock, day, bytes, dirty, dom, admitted>>

\* One iteration of the compare_exchange_weak loop.  A spurious failure of the
\* exchange leaves everything as it was, which is a stuttering step.
Increment(t) ==
  LET d == Key(t)
  IN /\ pc[t] = "increment"
     /\ \/ /\ reg[t] >= DailyConnections[d]
           /\ Return(t, "idle")
           /\ UNCHANGED <<connections, admitted>>
        \/ /\ reg[t] < DailyConnections[d]
           /\ connections[d] = reg[t]
           /\ connections' = [connections EXCEPT ![d] = reg[t] + 1]
           /\ admitted' = [admitted EXCEPT ![d] = @ + (IF today[t] = clock THEN 1 ELSE 0)]
           /\ Goto(t, "mark")
           /\ UNCHANGED <<today, reg>>
        \/ /\ reg[t] < DailyConnections[d]
           /\ connections[d] # reg[t]
           /\ reg' = [reg EXCEPT ![t] = connections[d]]
           /\ UNCHANGED <<connections, pc, today, admitted>>
     /\ UNCHANGED <<clock, day, bytes, dirty, dom>>

\* mark_dirty, then Ok(())
MarkAdmitted(t) ==
  /\ pc[t] = "mark" /\ t \in ConnTasks
  /\ dirty' = (dirty \/ HasStateFile)
  /\ Return(t, "connect")
  /\ UNCHANGED <<clock, day, bytes, connections, dom, admitted>>

------------------------------------------------------------------------------
(* The session after check_connection *)

\* The allowlist, the loop guard, every upstream, or the replay of the peeked
\* bytes fails: the session ends, what check_connection counted stays counted.
Abandon(s) ==
  /\ pc[Conn(s)] = "connect"
  /\ Goto(Conn(s), "idle")
  /\ UNCHANGED <<clock, day, bytes, connections, dirty, dom, today, reg, admitted>>

\* splice() spawns one copy task per direction.
Splice(s) ==
  /\ pc[Conn(s)] = "connect"
  /\ pc' = [t \in Tasks |-> IF t = Conn(s) THEN "splice"
                            ELSE IF t \in Copies(s) THEN "copy"
                            ELSE pc[t]]
  /\ UNCHANGED <<clock, day, bytes, connections, dirty, dom, today, reg, admitted>>

\* splice() returns when both directions have ended.
Join(s) ==
  /\ pc[Conn(s)] = "splice"
  /\ \A t \in Copies(s) : pc[t] = "done"
  /\ pc' = [t \in Tasks |-> IF t = Conn(s) \/ t \in Copies(s) THEN "idle" ELSE pc[t]]
  /\ UNCHANGED <<clock, day, bytes, connections, dirty, dom, today, reg, admitted>>

\* A copy task has forwarded a chunk and calls account_bytes, which counts only
\* for a key that has a bandwidth limit.
AccountBytes(t) ==
  /\ pc[t] = "copy"
  /\ Key(t) # NoKey /\ DailyBandwidth[Key(t)] # NoLimit
  /\ Goto(t, "today")
  /\ UNCHANGED <<clock, day, bytes, connections, dirty, dom, today, reg, admitted>>

\* let new_used = counters.bytes.fetch_add(bytes, ..) + bytes;
AddBytes(t, n) ==
  /\ pc[t] = "add"
  /\ bytes' = [bytes EXCEPT ![Key(t)] = @ + n]
  /\ reg' = [reg EXCEPT ![t] = bytes[Key(t)] + n]
  /\ Goto(t, "mark")
  /\ UNCHANGED <<clock, day, connections, dirty, dom, today, admitted>>

\* Mutant: the comparison after the add is dropped.
MarkAddedNoCheck(t) ==
  /\ pc[t] = "mark" /\ t \in CopyTasks
  /\ dirty' = (dirty \/ HasStateFile)
  /\ Return(t, "copy")
  /\ UNCHANGED <<clock, day, bytes, connections, dom, admitted>>

\* mark_dirty, then Err when new_used > max_bytes, which ends this direction.
MarkAdded(t) ==
  /\ pc[t] = "mark" /\ t \in CopyTasks
  /\ dirty' = (dirty \/ HasStateFile)
  /\ Return(t, IF reg[t] > DailyBandwidth[Key(t)] THEN "done" ELSE "copy")
  /\ UNCHANGED <<clock, day, bytes, connections, dom, admitted>>

\* End of stream, a read error or a write error ends the direction.
EndOfStream(t) ==
  /\ pc[t] = "copy"
  /\ Goto(t, "done")
  /\ UNCHANGED <<clock, day, bytes, connections, dirty, dom, today, reg, admitted>>

------------------------------------------------------------------------------
(* Midnight, UTC *)
Midnight ==
  /\ clock < LastDay
  /\ clock' = clock + 1
  /\ admitted' = [d \in Domains |-> 0]
  /\ UNCHANGED <<day, bytes, connections, dirty, pc, dom, today, reg>>

Init ==
  /\ clock = 0
  /\ day = [d \in Domains |-> clock]
  /\ bytes = [d \in Domains |-> 0]
  /\ connections = [d \in Domains |-> 0]
  /\ dirty = FALSE
  /\ pc = [t \in Tasks |-> "idle"]
  /\ dom = [a \in Sessions \cup Savers |-> NoKey]
  /\ today = [t \in Tasks |-> 0]
  /\ reg = [t \in Tasks |-> 0]
  /\ admitted = [d \in Domains |-> 0]

ConnStep(t) == \/ Refresh(t)
               \/ CheckBandwidth(t)
               \/ LoadConnections(t)
               \/ Increment(t)
               \/ MarkAdmitted(t)

CopyStep(t) == \/ Refresh(t)
               \/ \E n \in 1..MaxChunk : AddBytes(t, n)
               \/ MarkAdded(t)

SessionStep(s) == \/ \E d \in Domains \cup {NoKey} : CheckConnection(s, d)
                  \/ Abandon(s)
                  \/ Splice(s)
                  \/ Join(s)
                  \/ \E t \in Copies(s) : AccountBytes(t) \/ EndOfStream(t)

Traffic == \/ \E s \in Sessions : SessionStep(s)
           \/ \E t \in ConnTasks : ConnStep(t)
           \/ \E t \in CopyTasks : CopyStep(t)

Next == Traffic \/ Midnight

Spec == Init /\ [][Next]_limiterVars

------------------------------------------------------------------------------
(* Properties *)

\* The shape of the state.
TypeOK ==
  /\ clock \in 0..LastDay
  /\ day \in [Domains -> 0..LastDay]
  /\ bytes \in [Domains -> Nat]
  /\ connections \in [Domains -> Nat]
  /\ dirty \in BOOLEAN
  /\ pc \in [Tasks -> Pcs]
  /\ dom \in [Sessions \cup Savers -> Domains \cup {NoKey}]
  /\ today \in [Tasks -> 0..LastDay]
  /\ reg \in [Tasks -> Nat]
  /\ admitted \in [Domains -> Nat]

\* The labels each kind of task can be at, and what its key must be there: the
\* compare-exchange loop runs only for a key with daily_connections,
\* account_bytes counts only for a key with daily_bandwidth.
ConnAt(t, l) ==
  /\ l \in {"idle", "connect", "splice", "mark"} \cup RefreshPcs \cup CheckPcs
  /\ l \notin {"idle", "connect", "splice"} => Key(t) \in Domains
  /\ l \in {"connections", "increment", "mark"} => DailyConnections[Key(t)] # NoLimit
CopyAt(t, l) ==
  /\ l \in {"idle", "copy", "add", "mark", "done"} \cup RefreshPcs
  /\ l \notin {"idle", "copy", "done"} =>
       Key(t) \in Domains /\ DailyBandwidth[Key(t)] # NoLimit
SaveAt(t, l) ==
  /\ l \in {"idle"} \cup RefreshPcs \cup SavePcs
  /\ l \notin {"idle", "next", "write", "rename", "clean"} => Key(t) \in Domains

\* Every task is where its kind can be, and copy tasks run only while their
\* session is in splice().
ControlOK ==
  /\ \A t \in ConnTasks : ConnAt(t, pc[t])
  /\ \A t \in CopyTasks : /\ CopyAt(t, pc[t])
                          /\ pc[t] # "idle" => pc[Conn(t[1])] = "splice"
  /\ \A t \in SaveTasks : SaveAt(t, pc[t])

\* The connection counter of a key never exceeds its daily_connections, however
\* the load, the comparison and the exchange of concurrent check_connection
\* calls and the resets at midnight interleave.
ConnectionsWithinLimit ==
  \A d \in Domains :
    DailyConnections[d] # NoLimit => connections[d] <= DailyConnections[d]

\* A copy task of a session on key d that may still add to bytes[d]: its session
\* has passed the bandwidth check and the direction has not been stopped.
MayAdd(t, d) ==
  /\ Key(t) = d
  /\ \/ pc[Conn(t[1])] \in {"connections", "increment", "mark", "connect"}
     \/ pc[t] \in RefreshPcs \cup {"copy", "add"}
     \/ pc[t] = "mark" /\ reg[t] <= DailyBandwidth[d]

Spent(d) == {t \in CopyTasks : ~MayAdd(t, d)}

\* bytes[d] passes daily_bandwidth by at most one chunk per copy task that the
\* limiter has already stopped or not yet let through: two chunks per
\* concurrent session in the worst case, never more, although account_bytes
\* adds first and compares afterwards and the bandwidth check of
\* check_connection is not repeated when the splice starts.
OvershootBounded ==
  \A d \in Domains :
    DailyBandwidth[d] # NoLimit =>
      bytes[d] <= DailyBandwidth[d] + MaxChunk * Cardinality(Spent(d))

\* config.rs: "Maximum new connections per calendar day (UTC)": the connections
\* admitted on one day by calls that saw that day stay within daily_connections.
AdmittedPerDayWithinLimit ==
  \A d \in Domains :
    DailyConnections[d] # NoLimit => admitted[d] <= DailyConnections[d]
=============================================================================

-------------------------- MODULE LimiterPersistence --------------------------
(***************************************************************************)
(* The limiter with its state file: the task that calls flush_if_dirty on  *)
(* every tick, the persist_now that SniProxyService::run makes after       *)
(* shutdown, crashes, and the restore of the counters at the next start.   *)
(* Neither persist_now excludes the other: aborting the ticking task does  *)
(* not interrupt a flush that is already running on its worker thread, and *)
(* both write the same temporary file.                                     *)
(***************************************************************************)
EXTENDS DomainLimiter

CONSTANTS
  Absent,       \* no such file
  Unparsable,   \* a file serde_json rejects: truncated, empty or overwritten
  MaxStops      \* bound: how often the process stops in a behaviour

PersistedDomain == [day : 0..LastDay, bytes : Nat, connections : Nat]
PersistedState == [Domains -> PersistedDomain]

ASSUME PersistenceAssumption ==
  /\ Savers \subseteq {"periodic", "final"}
  /\ HasStateFile
  /\ Absent # Unparsable /\ Absent \notin PersistedState /\ Unparsable \notin PersistedState
  /\ MaxStops \in Nat

VARIABLES
  phase,     \* "up", "stopping" (final persist), "down", "unlimited"
  todo,      \* per saver: the keys build_snapshot has not read yet
  snap,      \* per saver: the snapshot read so far, per key
  files,     \* contents of the temporary and of the state file
  fd,        \* per saver: the name of the file its open descriptor refers to
  stops,     \* how often the process has stopped
  raced,     \* history: a counter moved since the last persist_now began
  counted,   \* history: admissions by check_connection since midnight, per key
  due        \* history: connections the final persist has to save, per key

persistVars == <<phase, todo, snap, files, fd, stops, raced, counted, due>>
vars == <<limiterVars, persistVars>>

Saver(v) == <<v, "save">>
Zero == [day |-> 0, bytes |-> 0, connections |-> 0]
NoDue == [d \in Domains |-> 0]

------------------------------------------------------------------------------
(* persist_now *)

\* persist_now begins; build_snapshot will visit every key, in any order.
Begin(v) ==
  /\ Goto(Saver(v), "next")
  /\ todo' = [todo EXCEPT ![v] = Domains]
  /\ raced' = FALSE
  /\ UNCHANGED <<clock, counters, dirty, dom, today, reg, admitted,
                 phase, snap, files, fd, stops, counted, due>>

\* The tick of the periodic task: flush_if_dirty.
Tick ==
  /\ "periodic" \in Savers
  /\ phase = "up"
  /\ pc[Saver("periodic")] = "idle"
  /\ dirty
  /\ Begin("periodic")

\* counters.snapshot() of the next key starts with refresh_if_new_day.
SnapshotKey(v, d) ==
  /\ pc[Saver(v)] = "next"
  /\ d \in todo[v]
  /\ dom' = [dom EXCEPT ![v] = d]
  /\ todo' = [todo EXCEPT ![v] = @ \ {d}]
  /\ Goto(Saver(v), "today")
  /\ UNCHANGED <<clock, counters, dirty, today, reg, admitted,
                 phase, snap, files, fd, stops, raced, counted, due>>

SnapshotRefresh(v) ==
  /\ Refresh(Saver(v))
  /\ UNCHANGED persistVars

\* The three loads of snapshot(), one after the other.
Load(v, from, to, field, value) ==
  /\ pc[Saver(v)] = from
  /\ snap' = [snap EXCEPT ![v][dom[v]][field] = value]
  /\ Goto(Saver(v), to)
  /\ UNCHANGED <<clock, counters, dirty, dom, reg, admitted,
                 phase, todo, files, fd, stops, raced, counted, due>>

SnapshotDay(v) ==
  /\ Load(v, "snapshot", "snapshot_bytes", "day", day[dom[v]])
  /\ today' = [today EXCEPT ![Saver(v)] = 0]
SnapshotBytes(v) ==
  /\ Load(v, "snapshot_bytes", "snapshot_connections", "bytes", bytes[dom[v]])
  /\ UNCHANGED today
\* Mutant: the snapshot leaves out the connection being counted.
SnapshotConnectionsLess(v) ==
  /\ Load(v, "snapshot_connections", "next", "connections", connections[dom[v]] - 1)
  /\ UNCHANGED today

SnapshotConnections(v) ==
  /\ Load(v, "snapshot_connections", "next", "connections", connections[dom[v]])
  /\ UNCHANGED today

\* Mutant: the state file itself is truncated and written.
OpenState(v) ==
  /\ pc[Saver(v)] = "next" /\ todo[v] = {}
  /\ files' = [files EXCEPT !["state"] = Unparsable]
  /\ fd' = [fd EXCEPT ![v] = "state"]
  /\ Goto(Saver(v), "write")
  /\ UNCHANGED <<clock, counters, dirty, dom, today, reg, admitted,
                 phase, todo, snap, stops, raced, counted, due>>

\* fs::write opens the temporary file and truncates it ...
OpenTmp(v) ==
  /\ pc[Saver(v)] = "next" /\ todo[v] = {}
  /\ files' = [files EXCEPT !["tmp"] = Unparsable]
  /\ fd' = [fd EXCEPT ![v] = "tmp"]
  /\ Goto(Saver(v), "write")
  /\ UNCHANGED <<clock, counters, dirty, dom, today, reg, admitted,
                 phase, todo, snap, stops, raced, counted, due>>

\* ... and writes the text at offset 0 of whatever file the descriptor refers to
\* by now.  Text shorter than what another writer has put there leaves its tail.
WriteTmp(v) ==
  /\ pc[Saver(v)] = "write"
  /\ \E text \in {snap[v]} \cup {Unparsable} :
       /\ text = Unparsable => fd[v] # "gone" /\ files[fd[v]] # Unparsable
       /\ files' = IF fd[v] = "gone" THEN files
                   ELSE [files EXCEPT ![fd[v]] = text]
  /\ fd' = [fd EXCEPT ![v] = "gone"]
  /\ snap' = [snap EXCEPT ![v] = [d \in Domains |-> Zero]]
  /\ Goto(Saver(v), "rename")
  /\ UNCHANGED <<clock, counters, dirty, dom, today, reg, admitted,
                 phase, todo, stops, raced, counted, due>>

\* fs::rename moves the temporary file over the state file; descriptors follow
\* the file they opened.  It is an error when the other saver has moved it.
Rename(v) ==
  /\ pc[Saver(v)] = "rename"
  /\ \/ /\ files["tmp"] # Absent
        /\ files' = [tmp |-> Absent, state |-> files["tmp"]]
        /\ fd' = [u \in Savers |-> IF fd[u] = "tmp" THEN "state" ELSE "gone"]
        /\ Goto(Saver(v), "clean")
     \/ /\ files["tmp"] = Absent
        /\ Goto(Saver(v), "idle")
        /\ UNCHANGED <<files, fd>>
  /\ UNCHANGED <<clock, counters, dirty, dom, today, reg, admitted,
                 phase, todo, snap, stops, raced, counted, due>>

\* self.dirty.store(false, ..)
ClearDirty(v) ==
  /\ pc[Saver(v)] = "clean"
  /\ dirty' = FALSE
  /\ Goto(Saver(v), "idle")
  /\ UNCHANGED <<clock, counters, dom, today, reg, admitted, persistVars>>

\* Mutant: the mark is cleared whether or not the write succeeded.
PersistFailsClean(v) ==
  /\ pc[Saver(v)] \in {"next", "write", "rename"}
  /\ pc[Saver(v)] = "next" => todo[v] \in {{}, Domains}
  /\ Goto(Saver(v), "idle")
  /\ dirty' = FALSE
  /\ todo' = [todo EXCEPT ![v] = {}]
  /\ snap' = [snap EXCEPT ![v] = [d \in Domains |-> Zero]]
  /\ fd' = [fd EXCEPT ![v] = "gone"]
  /\ due' = IF v = "final" THEN NoDue ELSE due
  /\ UNCHANGED <<clock, counters, dom, today, reg, admitted,
                 phase, files, stops, raced, counted>>

\* create_dir_all, fs::write or fs::rename fails: persist_now returns early, the
\* dirty mark stays for the next tick.
PersistFails(v) ==
  /\ pc[Saver(v)] \in {"next", "write", "rename"}
  /\ pc[Saver(v)] = "next" => todo[v] \in {{}, Domains}
  /\ Goto(Saver(v), "idle")
  /\ todo' = [todo EXCEPT ![v] = {}]
  /\ snap' = [snap EXCEPT ![v] = [d \in Domains |-> Zero]]
  /\ fd' = [fd EXCEPT ![v] = "gone"]
  /\ due' = IF v = "final" THEN NoDue ELSE due
  /\ UNCHANGED <<clock, counters, dirty, dom, today, reg, admitted,
                 phase, files, stops, raced, counted>>

SaverStep(v) == \/ \E d \in Domains : SnapshotKey(v, d)
                \/ SnapshotRefresh(v)
                \/ SnapshotDay(v)
                \/ SnapshotBytes(v)
                \/ SnapshotConnections(v)
                \/ OpenTmp(v)
                \/ WriteTmp(v)
                \/ Rename(v)
                \/ ClearDirty(v)

------------------------------------------------------------------------------
(* The life of the process *)

\* Mutant: no persist_now at the end, the ticks are relied on.
ShutdownNoPersist ==
  /\ "final" \in Savers
  /\ phase = "up"
  /\ phase' = "stopping"
  /\ due' = IF "periodic" \in Savers /\ pc[Saver("periodic")] # "idle"
            THEN NoDue ELSE connections
  /\ UNCHANGED <<limiterVars, todo, snap, files, fd, stops, raced, counted>>

\* SIGTERM, every listener has ended: the ticking task is aborted and run()
\* calls persist_now itself.  Sessions go on until the process exits.
Shutdown ==
  /\ "final" \in Savers
  /\ phase = "up"
  /\ phase' = "stopping"
  /\ Goto(Saver("final"), "next")
  /\ todo' = [todo EXCEPT !["final"] = Domains]
  /\ raced' = FALSE
  /\ due' = IF "periodic" \in Savers /\ pc[Saver("periodic")] # "idle"
            THEN NoDue ELSE connections
  /\ UNCHANGED <<clock, counters, dirty, dom, today, reg, admitted,
                 snap, files, fd, stops, counted>>

\* The process is gone: memory and descriptors with it, the files stay.
Gone ==
  /\ stops < MaxStops
  /\ stops' = stops + 1
  /\ phase' = "down"
  /\ pc' = [t \in Tasks |-> "idle"]
  /\ dom' = [a \in Sessions \cup Savers |-> NoKey]
  /\ today' = [t \in Tasks |-> 0]
  /\ reg' = [t \in Tasks |-> 0]
  /\ day' = [d \in Domains |-> clock]
  /\ bytes' = [d \in Domains |-> 0]
  /\ connections' = [d \in Domains |-> 0]
  /\ dirty' = FALSE
  /\ todo' = [v \in Savers |-> {}]
  /\ snap' = [v \in Savers |-> [d \in Domains |-> Zero]]
  /\ fd' = [v \in Savers |-> "gone"]
  /\ raced' = FALSE
  /\ due' = NoDue
  /\ UNCHANGED <<clock, admitted, files, counted>>

\* run() returns after its persist_now; dropping the runtime waits for a flush
\* that is still running on a worker thread.
Exit ==
  /\ phase = "stopping"
  /\ \A v \in Savers : pc[Saver(v)] = "idle"
  /\ Gone

\* SIGKILL, a panic that aborts, the OOM killer: at any moment.
Crash == phase \in {"up", "stopping"} /\ Gone

\* Mutant: the saved counts are not taken over.
RestoreNothing(state) ==
  /\ day' = [d \in Domains |-> clock]
  /\ bytes' = [d \in Domains |-> 0]
  /\ connections' = [d \in Domains |-> 0]

\* DomainLimiter::load.  Entries of another day are skipped; a state file that
\* does not parse is an error, on which SniProxyService::new goes on without a
\* limiter.
Restore(state) ==
  LET restored(d) == state # Absent /\ state[d].day = clock
  IN /\ day' = [d \in Domains |-> clock]
     /\ bytes' = [d \in Domains |-> IF restored(d) THEN state[d].bytes ELSE 0]
     /\ connections' = [d \in Domains |->
                          IF restored(d) THEN state[d].connections ELSE 0]

Start ==
  /\ phase = "down"
  /\ \/ /\ files["state"] = Unparsable
        /\ phase' = "unlimited"
        /\ UNCHANGED counters
     \/ /\ files["state"] # Unparsable
        /\ phase' = "up"
        /\ Restore(files["state"])
  /\ UNCHANGED <<clock, dirty, pc, dom, today, reg, admitted,
                 todo, snap, files, fd, stops, raced, counted, due>>

------------------------------------------------------------------------------
\* Sessions use the limiter while the process lives.
Serve ==
  /\ phase \in {"up", "stopping"}
  /\ Traffic
  /\ raced' = (raced \/ counters' # counters)
  /\ counted' = [d \in Domains |->
                   IF \E t \in ConnTasks : /\ Key(t) = d
                                           /\ pc[t] = "increment" /\ pc'[t] = "mark"
                   THEN counted[d] + 1 ELSE counted[d]]
  /\ UNCHANGED <<phase, todo, snap, files, fd, stops, due>>

NewDay ==
  /\ Midnight
  /\ counted' = [d \in Domains |-> 0]
  /\ UNCHANGED <<phase, todo, snap, files, fd, stops, raced, due>>

PersistInit ==
  /\ Init
  /\ phase = "up"
  /\ todo = [v \in Savers |-> {}]
  /\ snap = [v \in Savers |-> [d \in Domains |-> Zero]]
  /\ files = [tmp |-> Absent, state |-> Absent]
  /\ fd = [v \in Savers |-> "gone"]
  /\ stops = 0
  /\ raced = FALSE
  /\ counted = [d \in Domains |-> 0]
  /\ due = NoDue

PersistNext ==
  \/ Serve
  \/ NewDay
  \/ Tick
  \/ \E v \in Savers : SaverStep(v) \/ PersistFails(v)
  \/ Shutdown
  \/ Exit
  \/ Crash
  \/ Start

PersistSpec == PersistInit /\ [][PersistNext]_vars

------------------------------------------------------------------------------
(* Properties *)

\* The shape of the state.
PersistTypeOK ==
  /\ TypeOK
  /\ phase \in {"up", "stopping", "down", "unlimited"}
  /\ todo \in [Savers -> SUBSET Domains]
  /\ snap \in [Savers -> PersistedState]
  /\ files \in [{"tmp", "state"} -> PersistedState \cup {Absent, Unparsable}]
  /\ fd \in [Savers -> {"tmp", "state", "gone"}]
  /\ stops \in 0..MaxStops
  /\ raced \in BOOLEAN
  /\ counted \in [Domains -> Nat]
  /\ due \in [Domains -> Nat]

\* What a start at this moment would restore for key d.
Saved(d) == LET f == files["state"]
            IN IF f \notin {Absent, Unparsable} /\ f[d].day = clock
               THEN f[d].connections ELSE 0

\* What the counters in memory hold for today.
Held(d) == IF day[d] = clock THEN connections[d] ELSE 0

\* No call is inside the limiter and no flush is running.
Quiet == /\ phase = "up"
         /\ \A t \in ConnTasks : pc[t] \in {"idle", "connect", "splice"}
         /\ \A t \in CopyTasks : pc[t] \in {"idle", "copy", "done"}
         /\ \A t \in SaveTasks : pc[t] = "idle"

\* domain_limiter.rs: "Write counters to disk (atomic rename)": whatever
\* instant the process dies at, the next start finds a state file it can parse
\* (or none), so that it never runs without its limits.
StateFileParses == files["state"] # Unparsable

\* A restart never charges a key with connections that were not counted today:
\* neither a crash in the middle of a flush nor a snapshot taken while sessions
\* go on puts more into the state file than was counted.
NoPhantomUsage == \A d \in Domains : Saved(d) <= counted[d]

\* While the service is up the usage on disk never goes down during a day: once
\* flushed, a connection stays counted through crashes, restarts and the flushes
\* of the next life.  (During a graceful stop it may: see Shutdown.)
FlushedCountsSurvive ==
  [][clock' = clock /\ phase = "up" =>
       \A d \in Domains : Saved(d)' >= Saved(d)]_vars

\* When no counter moved since the last flush began and no mark is left, the
\* state file holds what memory holds: a flush that failed half way keeps its
\* mark, and the mark is cleared only after the rename.  (A connection counted
\* between the snapshot and the clearing does lose its mark.)
UnracedFlushSaves ==
  Quiet /\ ~dirty /\ ~raced => \A d \in Domains : Saved(d) = Held(d)

\* README: "limit counters flushed to disk": a graceful stop whose final persist
\* succeeds, with no flush already running, leaves every connection counted
\* before the stop in the state file, also when sessions keep counting.
GracefulStopSaves == [][Exit => \A d \in Domains : due[d] <= Saved(d)]_vars
=============================================================================

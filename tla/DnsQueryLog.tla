----------------------------- MODULE DnsQueryLog -----------------------------
(***************************************************************************)
(* The DNS query log of the panel (src/panel/dnsmasq_query_log.rs): a task *)
(* that follows the log file of dnsmasq once a second and turns its lines  *)
(* into rows of the database.  dnsmasq writes and logrotate truncates the  *)
(* file at any time, also between the stat and the read of one turn; rows  *)
(* and the offset are saved in separate statements; the panel deletes rows *)
(* while the task holds their ids; the process may be killed anywhere.     *)
(***************************************************************************)
EXTENDS Integers, Sequences, FiniteSets

CONSTANTS
  Lines,         \* what a line may say: [kind, client, domain]
  MaxPending,    \* 50 000: entries of the pending map above which it is cleared
  MaxLines,      \* bound: lines that dnsmasq writes
  MaxFaults      \* bound: rotations, restarts, deletions and failed statements in a behaviour

\* A "query" names its client; an "answer" stands for relay, config, cached, reply and
\* forwarded lines; "other" is a line that does not parse, "bad" one that is not UTF-8.
ASSUME LogAssumption ==
  /\ \A l \in Lines : l.kind \in {"query", "answer", "other", "bad"}
  /\ {MaxPending, MaxLines, MaxFaults} \subseteq Nat

VARIABLES
  said,        \* every line ever written: the n-th is line n
  log,         \* the lines of the file, as numbers; an offset counts lines
  offset,      \* offset
  pending,     \* pending: from keys to row ids
  ipc,         \* where ingest_once is
  len,         \* meta.len()
  buf,         \* lines read and not yet turned into rows
  saved,       \* setting dnsmasq_log_offset
  rows,        \* table dns_queries: id -> [line, answer], the lines it comes from; 0 is none
  nextId,      \* the AUTOINCREMENT counter
  deletes, restarts, failed,   \* deletions, restarts, statements that failed (which the task ignores)
  gen,         \* history: the generation of the file, and those offset and saved are of
  ingested,    \* history: how often each line was handled
  crossed,     \* history: the file has changed between the stat and the read of a turn
  masked       \* history: a new file was already as long as the offset into the old one

disk == <<said, log>>
table == <<rows, nextId, saved>>
task == <<offset, pending, ipc, len, buf>>
faults == <<deletes, restarts, failed>>
logHistory == <<gen, ingested, crossed, masked>>
logVars == <<disk, table, task, faults, logHistory>>

MayFail == gen.file + deletes + restarts + failed < MaxFaults

NoKeys == [k \in {} |-> 0]
Insert(f, k, v) == [x \in DOMAIN f \cup {k} |-> IF x = k THEN v ELSE f[x]]

\* The two keys under which a query waits: client|qtype|domain, and the domain.
FullKey(l) == <<l.client, l.domain>>
DomainKey(l) == <<l.domain>>

------------------------------------------------------------------------------
(* The world *)

\* dnsmasq writes a line.
WriteLine(l) ==
  /\ Len(said) < MaxLines
  /\ said' = Append(said, l)
  /\ log' = Append(log, Len(said) + 1)
  /\ ingested' = Append(ingested, 0)
  /\ crossed' = (crossed \/ ipc = "open")
  /\ UNCHANGED <<table, task, faults, gen, masked>>

\* logrotate empties the file.
Rotate ==
  /\ MayFail /\ log # <<>>
  /\ log' = <<>>
  /\ gen' = [gen EXCEPT !.file = @ + 1]
  /\ crossed' = (crossed \/ ipc = "open")
  /\ UNCHANGED <<said, table, task, faults, ingested, masked>>

\* clear_dns_queries, at any time, deletes all rows; prune_dns_queries, between the turns of
\* the task, those of lines older than a time.
DeleteRows(n) ==
  /\ MayFail
  /\ n = Len(said) \/ ipc = "idle"
  /\ deletes' = deletes + 1
  /\ rows' = [i \in {j \in DOMAIN rows : rows[j].line > n} |-> rows[i]]
  /\ UNCHANGED <<disk, nextId, saved, task, restarts, failed, logHistory>>

\* The process ends and is started again: start_query_log_ingest.
Restart ==
  /\ MayFail
  /\ restarts' = restarts + 1
  /\ offset' = saved
  /\ pending' = NoKeys /\ ipc' = "idle" /\ len' = 0 /\ buf' = <<>>
  /\ gen' = [gen EXCEPT !.offset = gen.saved]
  /\ UNCHANGED <<disk, table, deletes, failed, ingested, crossed, masked>>

------------------------------------------------------------------------------
(* One turn of ingest_once *)

\* Mutant: a file that is shorter than the offset is left alone.
StatNoReset ==
  /\ ipc = "idle" /\ Len(log) > offset
  /\ len' = Len(log) /\ ipc' = "open"
  /\ masked' = (masked \/ gen.offset # gen.file)
  /\ UNCHANGED <<disk, table, offset, pending, buf, faults, gen, ingested, crossed>>

\* The length of the file; a file that is shorter than the offset is a new one.
Stat ==
  LET reset == Len(log) < offset
      start == IF reset THEN 0 ELSE offset
  IN /\ ipc = "idle" /\ Len(log) # offset
     /\ offset' = start
     /\ pending' = IF reset THEN NoKeys ELSE pending
     /\ IF Len(log) = start THEN UNCHANGED <<len, ipc>>
        ELSE len' = Len(log) /\ ipc' = "open"
     /\ gen' = IF start = 0 THEN [gen EXCEPT !.offset = gen.file] ELSE gen
     /\ masked' = (masked \/ (start > 0 /\ gen.offset # gen.file))
     /\ UNCHANGED <<disk, table, buf, faults, ingested, crossed>>

\* Mutant: the offset is saved when the file has been read.
ReadAndSave ==
  /\ ipc = "open"
  /\ buf' = SubSeq(log, offset + 1, Len(log))
  /\ offset' = len /\ saved' = len
  /\ gen' = [gen EXCEPT !.saved = gen.offset]
  /\ ipc' = IF buf' # <<>> THEN "rows" ELSE "idle"
  /\ len' = 0
  /\ UNCHANGED <<disk, rows, nextId, pending, faults, ingested, crossed, masked>>

\* Read from the offset to the end, which may be beyond the length seen before.  A
\* byte sequence that is not UTF-8 is an error, and the offset stays.
Read ==
  LET text == SubSeq(log, offset + 1, Len(log))
      utf8 == \A i \in DOMAIN text : said[text[i]].kind # "bad"
  IN /\ ipc = "open"
     /\ buf' = IF utf8 THEN text ELSE <<>>
     /\ offset' = IF utf8 THEN len ELSE offset
     /\ ipc' = IF utf8 /\ text # <<>> THEN "rows" ELSE "idle"
     /\ len' = 0
     /\ UNCHANGED <<disk, table, pending, faults, logHistory>>

\* Mutant: the id of a new row is one more than the largest in the table.
InsertReusing(n, a) ==
  LET id == CHOOSE i \in 1..nextId : /\ \A k \in DOMAIN rows : k < i
                                     /\ i = 1 \/ i - 1 \in DOMAIN rows
  IN /\ rows' = Insert(rows, id, [line |-> n, answer |-> a])
     /\ nextId' = id + 1

\* insert_dns_query.
InsertDnsQuery(n, a) ==
  /\ rows' = Insert(rows, nextId, [line |-> n, answer |-> a])
  /\ nextId' = nextId + 1

\* A statement fails: the error is ignored.
StatementFails == MayFail /\ failed' = failed + 1 /\ UNCHANGED <<rows, nextId>>

\* A "query" line: a new row, which waits under both keys.
Query(n, l) ==
  \/ /\ InsertDnsQuery(n, 0)
     /\ pending' = Insert(Insert(pending, FullKey(l), nextId' - 1), DomainKey(l), nextId' - 1)
     /\ UNCHANGED failed
  \/ StatementFails /\ UNCHANGED pending

\* pending.remove and pending.retain(|_, v| *v != id).
Remove(id) == [k \in {x \in DOMAIN pending : pending[x] # id} |-> pending[k]]

\* Any other line that parses: the answer for the query that waits, or a row of its own.
\* The line has no client, so that only the domain matches.
Result(n, l) ==
  LET keys == {FullKey(l), DomainKey(l)} \cap DOMAIN pending
      key == IF FullKey(l) \in keys THEN FullKey(l) ELSE DomainKey(l)
  IN \/ /\ keys # {}
        /\ pending' = Remove(pending[key])
        /\ \/ /\ rows' = [i \in DOMAIN rows |->
                            IF i = pending[key] THEN [rows[i] EXCEPT !.answer = n] ELSE rows[i]]
              /\ UNCHANGED <<nextId, failed>>
           \/ StatementFails
     \/ /\ keys = {}
        /\ UNCHANGED pending
        /\ \/ InsertDnsQuery(n, n) /\ UNCHANGED failed
           \/ StatementFails

\* The body of the loop over the lines that were read.
HandleLine ==
  LET n == Head(buf)
      l == said[n]
  IN /\ ipc = "rows" /\ buf # <<>>
     /\ buf' = Tail(buf)
     /\ ingested' = [ingested EXCEPT ![n] = @ + 1]
     /\ \/ l.kind = "query" /\ Query(n, l)
        \/ l.kind = "answer" /\ Result(n, l)
        \/ l.kind = "other" /\ UNCHANGED <<rows, nextId, pending, failed>>
     /\ UNCHANGED <<disk, saved, offset, ipc, len, deletes, restarts, gen, crossed, masked>>

\* The end of the turn: a large map is cleared, the offset is saved.
Finish ==
  /\ ipc = "rows" /\ buf = <<>>
  /\ pending' = IF Cardinality(DOMAIN pending) > MaxPending THEN NoKeys ELSE pending
  /\ \/ /\ saved' = offset
        /\ gen' = [gen EXCEPT !.saved = gen.offset]
        /\ UNCHANGED failed
     \/ MayFail /\ failed' = failed + 1 /\ UNCHANGED <<saved, gen>>
  /\ ipc' = "idle"
  /\ UNCHANGED <<disk, rows, nextId, offset, len, buf, deletes, restarts, ingested, crossed, masked>>

------------------------------------------------------------------------------
LogInit ==
  /\ said = <<>> /\ log = <<>> /\ ingested = <<>>
  /\ offset = 0 /\ saved = 0
  /\ pending = NoKeys /\ rows = NoKeys /\ nextId = 1
  /\ ipc = "idle" /\ len = 0 /\ buf = <<>>
  /\ deletes = 0 /\ restarts = 0 /\ failed = 0
  /\ gen = [file |-> 0, offset |-> 0, saved |-> 0]
  /\ crossed = FALSE /\ masked = FALSE

IngestOnce == Stat \/ Read \/ HandleLine \/ Finish

LogNext ==
  \/ \E l \in Lines : WriteLine(l)
  \/ Rotate
  \/ \E n \in DOMAIN said : DeleteRows(n)
  \/ Restart
  \/ IngestOnce

LogFairness == WF_logVars(IngestOnce)

LogSpec == LogInit /\ [][LogNext]_logVars /\ LogFairness

------------------------------------------------------------------------------
(* Properties *)

\* Types; the task is never ahead of the ids it has been given.
LogTypeOK ==
  /\ said \in Seq(Lines) /\ Len(said) <= MaxLines /\ Len(ingested) = Len(said)
  /\ \A i \in DOMAIN log : log[i] \in DOMAIN said
  /\ offset \in 0..MaxLines /\ saved \in 0..MaxLines /\ len \in 0..MaxLines
  /\ ipc \in {"idle", "open", "rows"}
  /\ DOMAIN rows \subseteq 1..(nextId - 1)
  /\ \A k \in DOMAIN pending : pending[k] \in 1..(nextId - 1)

\* Between two turns every line before the offset has been handled, also right after a
\* restart (the offset is saved after the rows) and after a rotation, unless the new file
\* was already as long as the offset into the old one when the task looked.
NoLineSkipped ==
  ipc = "idle" /\ gen.offset = gen.file /\ ~masked =>
    \A i \in 1..offset : ingested[log[i]] > 0

\* A line is handled twice only if the process was restarted, or the file changed
\* between the stat and the read of a turn: the read goes to the end of the file, the
\* offset only to the length seen before.
HandledOnce ==
  restarts = 0 /\ ~crossed => \A n \in DOMAIN ingested : ingested[n] <= 1

\* ingest_once handles each line of the log once, whenever the file is rotated and the
\* process restarted, but for the exceptions above.
LinesHandledOnce == NoLineSkipped /\ HandledOnce

\* An answer is shown in a row of its own domain, whatever rows were deleted while their
\* ids were waiting; and, unless lines were handled twice, its query came before it.
AnswersFitQueries ==
  \A i \in DOMAIN rows :
    LET q == rows[i].line
        a == rows[i].answer
    IN a # 0 /\ a # q =>
         /\ said[q].kind = "query" /\ said[q].domain = said[a].domain
         /\ restarts = 0 /\ ~crossed => q < a

\* README: "The panel tails the file into SQLite and shows client IP, type, domain, and
\* answer".  If no statement failed and no row was deleted, each query that was handled
\* has a row, and each answer is in a row, as often as it was handled: no answer
\* overwrites another one.
EveryLineShown ==
  failed = 0 /\ deletes = 0 =>
    \A n \in DOMAIN said :
      /\ said[n].kind = "query" =>
           Cardinality({i \in DOMAIN rows : rows[i].line = n}) = ingested[n]
      /\ said[n].kind = "answer" =>
           Cardinality({i \in DOMAIN rows : rows[i].answer = n}) = ingested[n]

\* Rows and lines belong together, whatever is deleted under the waiting ids.
RowsFitLines == AnswersFitQueries /\ EveryLineShown

\* The task catches up: again and again every line has been handled, or its file was rotated
\* away, or it is skipped as above, or a line that is not UTF-8 keeps the whole file from
\* being read.  (In a behaviour dnsmasq writes MaxLines lines and is then silent.)
CatchesUp ==
  []<> \/ masked \/ (gen.offset # gen.file /\ Len(log) >= offset)
       \/ \A i \in DOMAIN log : ingested[log[i]] > 0
       \/ \E i \in DOMAIN log : said[log[i]].kind = "bad"
=============================================================================

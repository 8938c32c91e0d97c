----------------------------- MODULE DnsmasqStore -----------------------------
(***************************************************************************)
(* The domain rules of the panel, kept in the *.conf files of a dnsmasq    *)
(* directory (src/panel/dnsmasq_store.rs) and changed by the domain        *)
(* handlers of src/panel/api.rs.  A handler loads the rules of all files,  *)
(* changes the list, finds out which files are the relay file and the      *)
(* bypass file, removes the rules from every other file, rewrites the two  *)
(* and has dnsmasq reload.  Nothing is locked, each write truncates its    *)
(* file first, and an error ends the handler where it stands.              *)
(***************************************************************************)
EXTENDS Integers, FiniteSets

CONSTANTS
  Handlers,        \* domain requests that may be under way at the same time
  Patterns,        \* domains
  NoPattern,       \* the empty text
  ConfFiles,       \* names of *.conf files in the directory
  NamedBypass,     \* those that contain "bypass"
  RelayFile, BypassFile,        \* configured names, or NoFile to detect them
  DefaultRelay, DefaultBypass,  \* snirelay-relay.conf and bypass.conf
  NoFile,
  StartConfs,      \* what the directory may hold at first
  Lists,           \* bodies of PUT /domains
  Imports,         \* bodies of POST /domains/import: sets of lines
  HasReloadCmd,    \* panel.dnsmasq_reload_cmd is set
  MaxDomainRequests  \* bound: domain requests in a behaviour

\* A rule is address=/pattern/IP or server=/pattern/#.
Rules == [pattern : Patterns, mode : {"relay", "bypass"}]

\* A file: its rules; which kinds of lines it has that begin as rules do and are none, as
\* address=/x/ and server=//# (they are counted and removed, never loaded); and whether
\* the administrator's other directives are in it.  Comments and the panel's own banner
\* are left out.
Texts == [rules : SUBSET Rules, junk : SUBSET {"relay", "bypass"}, other : BOOLEAN]
Empty == [rules |-> {}, junk |-> {}, other |-> FALSE]

ASSUME DnsmasqAssumption ==
  /\ NoPattern \notin Patterns
  /\ NamedBypass \subseteq ConfFiles /\ NoFile \notin ConfFiles \cup Texts
  /\ {RelayFile, BypassFile} \subseteq ConfFiles \cup {NoFile}
  /\ DefaultRelay \in ConfFiles \ NamedBypass /\ DefaultBypass \in NamedBypass
  /\ StartConfs \subseteq [ConfFiles -> Texts \cup {NoFile}]
  /\ \A c \in StartConfs, f, g \in ConfFiles, p \in Patterns :
       ~ /\ c[f] # NoFile /\ [pattern |-> p, mode |-> "relay"] \in c[f].rules
         /\ c[g] # NoFile /\ [pattern |-> p, mode |-> "bypass"] \in c[g].rules
  /\ \A l \in Lists : \A x \in l : x.pattern \in Patterns \cup {NoPattern}
  /\ \A i \in Imports : \A x \in i : /\ x.pattern \in Patterns \cup {NoPattern}
                                     /\ x.kind \in {"address", "server", "bare"}
  /\ HasReloadCmd \in BOOLEAN /\ MaxDomainRequests \in Nat

VARIABLES
  conf,        \* the directory: per name its text, or NoFile
  running,     \* the rules dnsmasq has loaded, if reload commands do what they are for
  at,          \* per handler: where it is
  asked,       \* per handler: its request
  list,        \* per handler: the list it is going to save
  paths,       \* per handler: the relay and the bypass file
  todo,        \* per handler: files still to be cleaned
  out,         \* per handler: the file it has truncated, and the text for it
  requests,    \* requests made
  wanted,      \* history: the mode of each domain if every request were atomic
  foreign,     \* history: files that had other directives at first
  crossed,     \* history: handlers whose save has overlapped another one or left a file uncleaned
  damaged,     \* history: saves have overlapped, failed or left a file uncleaned since the last good PUT
  clobbered,   \* history: saves have overlapped, or a file was left half written or misread
  stale        \* history: no reload has succeeded since a save or a reload failed

handlerVars == <<at, asked, list, paths, todo, out>>
dnsVars == <<conf, running, handlerVars, requests, wanted, foreign, crossed, damaged,
             clobbered, stale>>

Present == {f \in ConfFiles : conf[f] # NoFile}
NoPaths == [relay |-> NoFile, bypass |-> NoFile]
Closed == [file |-> NoFile, text |-> Empty]
NoRequest == [op |-> "none"]
DnsQuiet == \A h \in Handlers : at[h] = "idle"

------------------------------------------------------------------------------
(* Rules and files *)

\* normalize_mode, and the same match in save_domains.
NormalizeMode(m) == IF m \in {"bypass", "direct"} THEN "bypass" ELSE "relay"

\* load_domains: the rules of every file, keyed by pattern and mode.
LoadDomains == UNION {conf[f].rules : f \in Present}

Of(rules, mode) == {x \in rules : x.mode = mode}

\* The file with most lines of a mode, the first in the order of the directory when
\* several have as many; NoFile when none has any.
MostRules(files, mode) ==
  LET n(f) == Cardinality(Of(conf[f].rules, mode)) + Cardinality(conf[f].junk \cap {mode})
      best == {f \in files : n(f) > 0 /\ \A g \in files : n(g) <= n(f)}
  IN IF best = {} THEN {NoFile} ELSE best

Or(x, y) == IF x # NoFile THEN x ELSE y

\* DnsmasqPaths::from_panel and detect_files, of the files that can be read: a configured
\* name, which is taken to be of the directory, else the file that looks like it, else
\* the default name.
FromPanel(readable) ==
  {[relay |-> Or(RelayFile, Or(r, DefaultRelay)),
    bypass |-> Or(BypassFile, Or(b, DefaultBypass))] :
     r \in MostRules(readable, "relay"),
     b \in IF readable \cap NamedBypass # {} THEN readable \cap NamedBypass
           ELSE MostRules(readable, "bypass")}

\* Mutant: a domain in both lists keeps both rules.
KeepBoth(rules) == rules

\* "If same domain in both, bypass wins".
BypassWins(rules) ==
  {x \in rules : x.mode = "relay" =>
     [pattern |-> x.pattern, mode |-> "bypass"] \notin rules}

\* Mutant: strip_managed_lines starts from nothing.
StripAll(text) == Empty

\* strip_managed_lines, strip_panel_banners: what stays of a file.
StripManagedLines(text) == IF text = NoFile THEN Empty ELSE [text EXCEPT !.rules = {}, !.junk = {}]

------------------------------------------------------------------------------
(* What a request makes of the list *)

Add(rules, p, m) == rules \cup {[pattern |-> p, mode |-> m]}

\* The handlers of POST, PUT and DELETE /domains/{pattern}.  DELETE removes the rule of
\* its mode, or else any rule of the pattern.
CreateDomain(q, rules) == Add(rules, q.pattern, NormalizeMode(q.mode))

UpdateDomain(q, rules) ==
  Add({x \in rules : x.pattern # q.old}, q.pattern, NormalizeMode(q.mode))

DeleteDomain(q, rules) ==
  LET mode == NormalizeMode(q.mode)
      rest == {x \in rules : ~(x.pattern = q.pattern /\ x.mode = mode)}
  IN IF rest = rules THEN {x \in rules : x.pattern # q.pattern} ELSE rest

\* PUT /domains, whose list save_domains cleans.
ReplaceDomains(q) ==
  {[pattern |-> x.pattern, mode |-> NormalizeMode(x.mode)] :
     x \in {y \in q.list : y.pattern # NoPattern}}

\* POST /domains/import: a raw dnsmasq line has its own mode.
LineMode(line, mode) == CASE line.kind = "address" -> "relay"
                          [] line.kind = "server" -> "bypass"
                          [] line.kind = "bare" -> NormalizeMode(mode)

ImportDomains(q, rules) ==
  rules \cup {[pattern |-> l.pattern, mode |-> LineMode(l, q.mode)] :
                l \in {k \in q.lines : k.pattern # NoPattern}}

\* The list that is saved; POST /dnsmasq/apply saves the one it has loaded.
Edited(q, rules) ==
  CASE q.op = "create" -> CreateDomain(q, rules)
    [] q.op = "update" -> UpdateDomain(q, rules)
    [] q.op = "delete" -> DeleteDomain(q, rules)
    [] q.op = "replace" -> ReplaceDomains(q)
    [] q.op = "import" -> ImportDomains(q, rules)
    [] q.op = "apply" -> rules

\* What the same request asks for, when a domain has one mode or none: a relay rule does
\* not replace a bypass rule, and DELETE removes the domain whatever mode it names.
Intended(q, w) ==
  LET direct(m) == m \in {"bypass", "direct"}
      bypasses(p) ==
        \/ q.op = "create" /\ p = q.pattern /\ direct(q.mode)
        \/ q.op = "update" /\ p = q.pattern /\ direct(q.mode)
        \/ q.op = "replace" /\ \E x \in q.list : x.pattern = p /\ direct(x.mode)
        \/ q.op = "import" /\ \E l \in q.lines :
             l.pattern = p /\ (l.kind = "server" \/ (l.kind = "bare" /\ direct(q.mode)))
      relays(p) ==
        \/ q.op \in {"create", "update"} /\ p = q.pattern
        \/ q.op = "replace" /\ \E x \in q.list : x.pattern = p
        \/ q.op = "import" /\ \E l \in q.lines : l.pattern = p
      dropped(p) ==
        \/ q.op = "update" /\ p = q.old
        \/ q.op = "delete" /\ p = q.pattern
        \/ q.op = "replace"
      before(p) == IF dropped(p) THEN "none" ELSE w[p]
  IN [p \in Patterns |-> IF bypasses(p) \/ before(p) = "bypass" THEN "bypass"
                         ELSE IF relays(p) THEN "relay" ELSE before(p)]

DomainRequests ==
  LET modes == {"relay", "direct"}
  IN [op : {"create"}, pattern : Patterns \cup {NoPattern}, mode : modes]
       \cup [op : {"update"}, old : Patterns, pattern : Patterns \cup {NoPattern}, mode : modes]
       \cup [op : {"delete"}, pattern : Patterns, mode : modes]
       \cup [op : {"replace"}, list : Lists]
       \cup [op : {"import"}, lines : Imports, mode : modes]
       \cup [op : {"apply"}]

------------------------------------------------------------------------------
(* The handlers *)

Saving(h) == at[h] \notin {"idle", "reload"}

\* The handler has answered.
Answer(h) ==
  /\ at' = [at EXCEPT ![h] = "idle"]
  /\ asked' = [asked EXCEPT ![h] = NoRequest]
  /\ list' = [list EXCEPT ![h] = {}]
  /\ paths' = [paths EXCEPT ![h] = NoPaths]
  /\ todo' = [todo EXCEPT ![h] = {}]
  /\ out' = [out EXCEPT ![h] = Closed]

\* save_domains has returned an error: the handler ends without a reload.
SaveFails(h) ==
  /\ Answer(h)
  /\ damaged' = TRUE
  /\ stale' = TRUE

\* A request comes in.  load_domains is one step: a load that overlaps a save is a
\* race in any case.
BeginDomain(h, q) ==
  LET others == {x \in Handlers \ {h} : Saving(x)}
  IN /\ at[h] = "idle" /\ requests < MaxDomainRequests
     /\ requests' = requests + 1
     /\ \/ UNCHANGED <<handlerVars, crossed, damaged, clobbered>>
           \* an empty pattern, a file that cannot be read, no directory
        \/ /\ q.op \in {"create", "update"} => q.pattern # NoPattern
           /\ asked' = [asked EXCEPT ![h] = q]
           /\ list' = [list EXCEPT ![h] = BypassWins(Edited(q, LoadDomains))]
           /\ at' = [at EXCEPT ![h] = "save"]
           /\ crossed' = IF others = {} THEN crossed \ {h} ELSE crossed \cup others \cup {h}
           /\ damaged' = (damaged \/ others # {})
           /\ clobbered' = (clobbered \/ others # {})
           /\ UNCHANGED <<paths, todo, out>>
     /\ UNCHANGED <<conf, running, wanted, foreign, stale>>

\* POST /dnsmasq/reload.
BeginReload(h) ==
  /\ at[h] = "idle" /\ requests < MaxDomainRequests
  /\ requests' = requests + 1
  /\ at' = [at EXCEPT ![h] = "reload"]
  /\ UNCHANGED <<conf, running, asked, list, paths, todo, out, wanted, foreign, crossed,
                 damaged, clobbered, stale>>

\* save_dnsmasq detects the files once more; save_domains lists the directory.
StartSave(h) ==
  /\ at[h] = "save"
  /\ \E readable \in SUBSET Present : \E p \in FromPanel(readable) :
       /\ paths' = [paths EXCEPT ![h] = p]
       /\ todo' = [todo EXCEPT ![h] = Present \ {p.relay, p.bypass}]
  /\ at' = [at EXCEPT ![h] = "strip"]
  /\ UNCHANGED <<conf, running, asked, list, out, requests, wanted, foreign, crossed,
                 damaged, clobbered, stale>>

\* fs::write opens and truncates file f, or fails to.
Open(h, f, text, next) ==
  \/ /\ conf' = [conf EXCEPT ![f] = Empty]
     /\ out' = [out EXCEPT ![h] = [file |-> f, text |-> text]]
     /\ at' = [at EXCEPT ![h] = next]
     /\ UNCHANGED <<asked, list, paths, damaged, stale>>
  \/ SaveFails(h) /\ UNCHANGED conf

\* One file of "Strip managed lines from every conf, preserve everything else".  A file
\* that cannot be read is left alone, and so is one that has nothing to remove, unless
\* its line ends are not the ones that strip_managed_lines writes.
Strip(h) ==
  /\ at[h] = "strip" /\ out[h] = Closed
  /\ \/ \E f \in todo[h] :
          \/ /\ todo' = [todo EXCEPT ![h] = @ \ {f}]
             /\ damaged' = (damaged \/ conf[f].rules # {})
             /\ crossed' = IF conf[f].rules = {} THEN crossed ELSE crossed \cup {h}
             /\ UNCHANGED <<conf, at, asked, list, paths, out, stale>>
          \/ /\ Open(h, f, StripManagedLines(conf[f]), "strip")
             /\ todo' = [todo EXCEPT ![h] = IF at'[h] = "idle" THEN {} ELSE @ \ {f}]
             /\ UNCHANGED crossed
     \/ /\ todo[h] = {}
        /\ at' = [at EXCEPT ![h] = "relay"]
        /\ UNCHANGED <<conf, asked, list, paths, todo, out, crossed, damaged, stale>>
  /\ UNCHANGED <<running, requests, wanted, foreign, clobbered>>

\* write_managed_file for the rules of a mode: the file is read, its rules are
\* replaced.  A file that cannot be read counts as empty.
WriteManagedFile(h, f, mode, next) ==
  /\ out[h] = Closed
  /\ \E kept \in {StripManagedLines(conf[f]), Empty} :
       /\ Open(h, f, [kept EXCEPT !.rules = Of(list[h], mode)], next)
       /\ clobbered' = (clobbered \/ kept # StripManagedLines(conf[f]))
  /\ todo' = [todo EXCEPT ![h] = {}]
  /\ UNCHANGED <<running, requests, wanted, foreign, crossed>>

WriteRelay(h) == at[h] = "relay" /\ WriteManagedFile(h, paths[h].relay, "relay", "bypass")

WriteBypass(h) == at[h] = "bypass" /\ WriteManagedFile(h, paths[h].bypass, "bypass", "saved")

\* save_domains returns Ok.
Saved(h) ==
  /\ at' = [at EXCEPT ![h] = "reload"]
  /\ wanted' = Intended(asked[h], wanted)
  /\ damaged' = (damaged /\ ~(asked[h].op = "replace" /\ h \notin crossed))

\* fs::write writes the text.  What another handler has written since the truncation
\* may be left behind it; a full disk, or the end of the process, leaves a part, of
\* which the last line may be cut off.
Flush(h) ==
  LET f == out[h].file
      text == out[h].text
  IN /\ out[h] # Closed
     /\ \/ /\ \E rest \in {Empty, conf[f]} :
                conf' = [conf EXCEPT ![f] = [text EXCEPT !.rules = @ \cup rest.rules,
                                                         !.junk = @ \cup rest.junk]]
           /\ out' = [out EXCEPT ![h] = Closed]
           /\ IF at[h] = "saved" THEN Saved(h) ELSE UNCHANGED <<at, wanted, damaged>>
           /\ UNCHANGED <<asked, list, paths, todo, clobbered, stale>>
        \/ /\ \E part \in SUBSET text.rules, cut \in {{}, {x.mode : x \in text.rules} \cap {"relay"}} :
                conf' = [conf EXCEPT ![f] = [text EXCEPT !.rules = part, !.junk = cut]]
           /\ SaveFails(h)
           /\ clobbered' = TRUE
           /\ UNCHANGED wanted
     /\ UNCHANGED <<running, requests, foreign, crossed>>

\* Mutant: no reload when dnsmasq already has the list that was saved.
ReloadIfChanged(h) ==
  /\ at[h] = "reload"
  /\ \/ HasReloadCmd /\ list[h] # running /\ running' = LoadDomains /\ stale' = FALSE
     \/ list[h] = running /\ stale' = FALSE /\ UNCHANGED running
  /\ Answer(h)
  /\ UNCHANGED <<conf, requests, wanted, foreign, crossed, damaged, clobbered>>

\* reload: the command succeeds, or it fails, which is only reported, or there is none.
\* The code knows its exit status and no more.  The model takes it that a command that
\* succeeds makes dnsmasq read the directory, which is what the command is configured for;
\* kill -HUP of config/config.yaml does so only if dnsmasq does on that signal.
Reload(h) ==
  /\ at[h] = "reload"
  /\ \/ HasReloadCmd /\ running' = LoadDomains /\ stale' = FALSE
     \/ stale' = TRUE /\ UNCHANGED running
  /\ Answer(h)
  /\ UNCHANGED <<conf, requests, wanted, foreign, crossed, damaged, clobbered>>

------------------------------------------------------------------------------
DnsInit ==
  /\ conf \in StartConfs
  /\ running = LoadDomains
  /\ wanted = [p \in Patterns |->
                 IF \E m \in {"relay", "bypass"} : [pattern |-> p, mode |-> m] \in LoadDomains
                 THEN CHOOSE m \in {"relay", "bypass"} : [pattern |-> p, mode |-> m] \in LoadDomains
                 ELSE "none"]
  /\ at = [h \in Handlers |-> "idle"]
  /\ asked = [h \in Handlers |-> NoRequest]
  /\ list = [h \in Handlers |-> {}]
  /\ paths = [h \in Handlers |-> NoPaths]
  /\ todo = [h \in Handlers |-> {}]
  /\ out = [h \in Handlers |-> Closed]
  /\ requests = 0
  /\ foreign = {f \in Present : conf[f].other}
  /\ crossed = {}
  /\ damaged = FALSE /\ clobbered = FALSE /\ stale = FALSE

DomainStep(h) == \/ StartSave(h)
                 \/ Strip(h)
                 \/ WriteRelay(h)
                 \/ WriteBypass(h)
                 \/ Flush(h)
                 \/ Reload(h)

DnsNext ==
  \E h \in Handlers :
    \/ \E q \in DomainRequests : BeginDomain(h, q)
    \/ BeginReload(h)
    \/ DomainStep(h)

DnsSpec == DnsInit /\ [][DnsNext]_dnsVars

------------------------------------------------------------------------------
(* Properties *)

\* Types.
DnsTypeOK ==
  /\ conf \in [ConfFiles -> Texts \cup {NoFile}]
  /\ running \subseteq Rules
  /\ wanted \in [Patterns -> {"relay", "bypass", "none"}]
  /\ at \in [Handlers -> {"idle", "save", "strip", "relay", "bypass", "saved", "reload"}]
  /\ list \in [Handlers -> SUBSET Rules]
  /\ paths \in [Handlers -> [relay : ConfFiles \cup {NoFile}, bypass : ConfFiles \cup {NoFile}]]
  /\ todo \in [Handlers -> SUBSET ConfFiles]
  /\ requests \in 0..MaxDomainRequests

\* dnsmasq_store.rs: "Rewrite relay + bypass files from the domain list", and api.rs of
\* /dnsmasq/apply: "Re-save current on-disk list (normalize + reload)".  When no request
\* is under way, the directory holds one rule for each domain that the requests ask for,
\* in the mode they ask for (or bypass, which wins), and no other.  Saves that overlap,
\* fail half way or cannot read a file break it until the next PUT of the whole list, which repairs it.
RulesFollowRequests ==
  DnsQuiet /\ ~damaged =>
    LoadDomains = {x \in Rules : x.mode = wanted[x.pattern]}

\* dnsmasq_store.rs: "Other directives in this file are preserved": whatever saves and
\* failed saves there were, a file that had directives of the administrator still has
\* them, unless saves overlapped or a file was left half written or could not be read.
\* Lines that begin with address=/, or with server=/ and end with /#, are not among them:
\* every save removes them, also those that load_domains has no rule for.
DirectivesPreserved ==
  DnsQuiet /\ ~clobbered => \A f \in foreign : conf[f] # NoFile /\ conf[f].other

\* When no request is under way, dnsmasq runs with the rules on disk, however the saves
\* have raced, unless a save or a reload has failed and none has succeeded since: every
\* handler reloads after its last write.  It is about reload commands that work (Reload).
RunningFollowsFiles == DnsQuiet /\ ~stale => running = LoadDomains
=============================================================================

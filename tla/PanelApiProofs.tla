---------------------------- MODULE PanelApiProofs ----------------------------
(***************************************************************************)
(* Proofs about DnsmasqStore, for any number of handlers, domains and      *)
(* files, and about PanelApi, which runs it beside PanelStore: dnsmasq     *)
(* runs with the rules on disk, the administrator's directives stay, and   *)
(* with two configured files the rules follow the requests.                *)
(***************************************************************************)
EXTENDS PanelApi, PanelStoreProofs

------------------------------------------------------------------------------
(* The inductive invariant *)

AtPcs == {"idle", "save", "strip", "relay", "bypass", "saved", "reload"}

\* A handler that is saving has a request and knows its two files, and only then has one
\* open.
HandlerOK(h) ==
  /\ Saving(h) => asked[h] \in DomainRequests
  /\ at[h] \in {"strip", "relay", "bypass", "saved"} =>
       paths[h].relay \in ConfFiles /\ paths[h].bypass \in ConfFiles
  /\ out[h] # Closed => /\ at[h] \in {"strip", "bypass", "saved"}
                        /\ out[h].file \in ConfFiles /\ conf[out[h].file] # NoFile
  /\ at[h] = "saved" => out[h] # Closed

DnsTypeInv ==
  /\ DnsTypeOK
  /\ asked \in [Handlers -> DomainRequests \cup {NoRequest}]
  /\ out \in [Handlers -> [file : ConfFiles \cup {NoFile}, text : Texts]]
  /\ damaged \in BOOLEAN /\ clobbered \in BOOLEAN /\ stale \in BOOLEAN
  /\ foreign \subseteq ConfFiles /\ crossed \subseteq Handlers
  /\ \A h \in Handlers : HandlerOK(h)

\* While no save has overlapped another one or been cut off: one handler saves at a time,
\* and the directives of a file are in the file or in the text for it, never in both.
DirectivesOK ==
  ~clobbered =>
    /\ \A g, h \in Handlers : Saving(g) /\ Saving(h) => g = h
    /\ \A h \in Handlers : out[h] # Closed => conf[out[h].file].other = FALSE
    /\ \A f \in foreign :
         \/ conf[f] # NoFile /\ conf[f].other
         \/ \E h \in Handlers : out[h] # Closed /\ out[h].file = f /\ out[h].text.other

\* The rules that requests ask for, and the rules of a file.
RulesFor(w) == {x \in Rules : x.mode = w[x.pattern]}
RulesIn(f) == IF conf[f] = NoFile THEN {} ELSE conf[f].rules

\* A save that no other one has met, and that has left no file uncleaned: what is still
\* to be removed from the other files, and what has been written into the two.
SaveState(h) ==
  LET r == paths[h].relay
      b == paths[h].bypass
      f == out[h].file
  IN /\ \A g \in Handlers : Saving(g) => g = h
     /\ at[h] # "save" =>
          /\ r # b
          /\ todo[h] \cap {r, b} = {}
          /\ \A g \in ConfFiles \ {r, b} : RulesIn(g) # {} => at[h] = "strip" /\ g \in todo[h]
     /\ out[h] # Closed =>
          /\ conf[f] = Empty
          /\ at[h] = "strip" => f \notin {r, b} /\ out[h].text.rules = {}
          /\ at[h] = "bypass" => f = r /\ out[h].text.rules = Of(list[h], "relay")
          /\ at[h] = "saved" => f = b /\ out[h].text.rules = Of(list[h], "bypass")
     /\ at[h] = "saved" \/ (at[h] = "bypass" /\ out[h] = Closed) =>
          RulesIn(r) = Of(list[h], "relay")
     /\ asked[h].op = "replace" => list[h] = BypassWins(ReplaceDomains(asked[h]))

RequestsOK ==
  /\ \A h \in Handlers : Saving(h) /\ h \notin crossed => SaveState(h)
  /\ ~damaged =>
       /\ \A h \in Handlers : Saving(h) =>
            h \notin crossed /\ list[h] = RulesFor(Intended(asked[h], wanted))
       /\ (\A h \in Handlers : ~Saving(h)) => LoadDomains = RulesFor(wanted)

------------------------------------------------------------------------------
(* Types *)

\* The modes of rules and the rules of texts.
LEMMA RuleFacts ==
  /\ \A p \in Patterns : \A m \in {"relay", "bypass"} : [pattern |-> p, mode |-> m] \in Rules
  /\ \A x \in Rules : /\ x.pattern \in Patterns /\ x.mode \in {"relay", "bypass"}
                      /\ x = [pattern |-> x.pattern, mode |-> x.mode]
  BY DEF Rules

\* What is made of a text is a text, and no text is a missing file.
LEMMA TextFacts ==
  /\ Empty \in Texts /\ Empty.rules = {} /\ Empty.other = FALSE /\ NoFile \notin Texts
  /\ \A t \in Texts : t.rules \subseteq Rules /\ t.other \in BOOLEAN
  /\ \A t \in Texts : \A s \in SUBSET Rules :
       /\ [t EXCEPT !.rules = s] \in Texts
       /\ [t EXCEPT !.rules = s].rules = s
       /\ [t EXCEPT !.rules = s].other = t.other
  /\ \A t \in Texts \cup {NoFile} :
       /\ StripManagedLines(t) \in Texts
       /\ StripManagedLines(t).rules = {}
       /\ t # NoFile => StripManagedLines(t).other = t.other
  <1>1. Empty \in Texts /\ Empty.rules = {} /\ Empty.other = FALSE /\ NoFile \notin Texts
    BY DnsmasqAssumption DEF Empty, Texts
  <1>2. \A t \in Texts : t.rules \subseteq Rules /\ t.other \in BOOLEAN
    BY DEF Texts
  <1>3. \A t \in Texts : \A s \in SUBSET Rules :
          /\ [t EXCEPT !.rules = s] \in Texts
          /\ [t EXCEPT !.rules = s].rules = s
          /\ [t EXCEPT !.rules = s].other = t.other
    BY DEF Texts
  <1>4. \A t \in Texts \cup {NoFile} :
          /\ StripManagedLines(t) \in Texts
          /\ StripManagedLines(t).rules = {}
          /\ t # NoFile => StripManagedLines(t).other = t.other
    BY <1>1 DEF StripManagedLines, Texts
  <1> QED BY <1>1, <1>2, <1>3, <1>4

\* A text with other rules, and other lines that are none, is a text.
LEMMA TextJunk ==
  ASSUME NEW t \in Texts, NEW u \in SUBSET Rules, NEW j \in SUBSET {"relay", "bypass"}
  PROVE  /\ [t EXCEPT !.rules = u, !.junk = j] \in Texts
         /\ [t EXCEPT !.rules = u, !.junk = j].rules = u
         /\ [t EXCEPT !.rules = u, !.junk = j].other = t.other
  BY DEF Texts

\* The rules of the directory are rules.
LEMMA LoadFacts ==
  ASSUME conf \in [ConfFiles -> Texts \cup {NoFile}]
  PROVE  /\ LoadDomains \subseteq Rules
         /\ \A x : x \in LoadDomains <=> \E f \in ConfFiles : x \in RulesIn(f)
  BY TextFacts DEF LoadDomains, Present, RulesIn

\* The same after a step.
LEMMA LoadFactsNext ==
  ASSUME conf' \in [ConfFiles -> Texts \cup {NoFile}]
  PROVE  /\ LoadDomains' \subseteq Rules
         /\ \A x : x \in LoadDomains' <=> \E f \in ConfFiles : x \in RulesIn(f)'
  BY TextFacts DEF LoadDomains, Present, RulesIn

\* The requests, sort by sort.
LEMMA RequestFacts ==
  ASSUME NEW q \in DomainRequests
  PROVE  \/ /\ q.op = "create" /\ q.pattern \in Patterns \cup {NoPattern}
            /\ q.mode \in {"relay", "direct"}
         \/ /\ q.op = "update" /\ q.old \in Patterns /\ q.pattern \in Patterns \cup {NoPattern}
            /\ q.mode \in {"relay", "direct"}
         \/ q.op = "delete" /\ q.pattern \in Patterns /\ q.mode \in {"relay", "direct"}
         \/ q.op = "replace" /\ q.list \in Lists
         \/ q.op = "import" /\ q.lines \in Imports /\ q.mode \in {"relay", "direct"}
         \/ q.op = "apply"
  <1> USE DEF DomainRequests
  <1>1. CASE q \in [op : {"create"}, pattern : Patterns \cup {NoPattern}, mode : {"relay", "direct"}]
    BY <1>1
  <1>2. CASE q \in [op : {"update"}, old : Patterns, pattern : Patterns \cup {NoPattern},
                    mode : {"relay", "direct"}]
    BY <1>2
  <1>3. CASE q \in [op : {"delete"}, pattern : Patterns, mode : {"relay", "direct"}]
    BY <1>3
  <1>4. CASE q \in [op : {"replace"}, list : Lists]
    BY <1>4
  <1>5. CASE q \in [op : {"import"}, lines : Imports, mode : {"relay", "direct"}]
    BY <1>5
  <1>6. CASE q \in [op : {"apply"}]
    BY <1>6
  <1> QED BY <1>1, <1>2, <1>3, <1>4, <1>5, <1>6

\* The mode of a request is one of the two modes of rules.
LEMMA ModeFacts ==
  /\ \A m : NormalizeMode(m) \in {"relay", "bypass"}
  /\ NormalizeMode("relay") = "relay" /\ NormalizeMode("direct") = "bypass"
  BY DEF NormalizeMode

\* The list that a request saves is a set of rules.
LEMMA EditedType ==
  ASSUME NEW q \in DomainRequests, NEW rules \in SUBSET Rules,
         q.op \in {"create", "update"} => q.pattern # NoPattern
  PROVE  Edited(q, rules) \subseteq Rules /\ BypassWins(Edited(q, rules)) \subseteq Rules
  <1> SUFFICES Edited(q, rules) \subseteq Rules
    BY DEF BypassWins
  <1>1. CASE q.op = "create"
    BY <1>1, RequestFacts, ModeFacts, RuleFacts DEF Edited, CreateDomain, Add
  <1>2. CASE q.op = "update"
    BY <1>2, RequestFacts, ModeFacts, RuleFacts DEF Edited, UpdateDomain, Add
  <1>3. CASE q.op = "delete"
    BY <1>3 DEF Edited, DeleteDomain
  <1>4. CASE q.op = "replace"
    <2>1. q.list \in Lists
      BY <1>4, RequestFacts
    <2>2. \A x \in q.list : x.pattern \in Patterns \cup {NoPattern}
      BY <2>1, DnsmasqAssumption
    <2> QED BY <1>4, <2>2, ModeFacts, RuleFacts DEF Edited, ReplaceDomains
  <1>5. CASE q.op = "import"
    <2>1. q.lines \in Imports
      BY <1>5, RequestFacts
    <2>2. \A x \in q.lines : /\ x.pattern \in Patterns \cup {NoPattern}
                             /\ x.kind \in {"address", "server", "bare"}
      BY <2>1, DnsmasqAssumption
    <2>3. \A x \in q.lines : LineMode(x, q.mode) \in {"relay", "bypass"}
      BY <2>2, ModeFacts DEF LineMode
    <2> QED BY <1>5, <2>2, <2>3, RuleFacts DEF Edited, ImportDomains
  <1>6. CASE q.op = "apply"
    BY <1>6 DEF Edited
  <1> QED BY <1>1, <1>2, <1>3, <1>4, <1>5, <1>6, RequestFacts

\* What the domains want after a request is a mode for each domain.
LEMMA IntendedType ==
  ASSUME NEW q, NEW w \in [Patterns -> {"relay", "bypass", "none"}]
  PROVE  Intended(q, w) \in [Patterns -> {"relay", "bypass", "none"}]
  BY DEF Intended

\* A step of a handler.
HandlerStep(h) == \/ \E q \in DomainRequests : BeginDomain(h, q)
                  \/ BeginReload(h)
                  \/ DomainStep(h)

\* A handler changes only its own part of what the handlers keep.
LEMMA HandlerFrame ==
  ASSUME DnsTypeInv, NEW h \in Handlers, HandlerStep(h)
  PROVE  /\ \E v : at' = [at EXCEPT ![h] = v]
         /\ \E v : asked' = [asked EXCEPT ![h] = v]
         /\ \E v : list' = [list EXCEPT ![h] = v]
         /\ \E v : paths' = [paths EXCEPT ![h] = v]
         /\ \E v : todo' = [todo EXCEPT ![h] = v]
         /\ \E v : out' = [out EXCEPT ![h] = v]
         /\ foreign' = foreign
  <1> DEFINE Goal == /\ \E v : at' = [at EXCEPT ![h] = v]
                     /\ \E v : asked' = [asked EXCEPT ![h] = v]
                     /\ \E v : list' = [list EXCEPT ![h] = v]
                     /\ \E v : paths' = [paths EXCEPT ![h] = v]
                     /\ \E v : todo' = [todo EXCEPT ![h] = v]
                     /\ \E v : out' = [out EXCEPT ![h] = v]
  <1>0. /\ at = [at EXCEPT ![h] = at[h]] /\ asked = [asked EXCEPT ![h] = asked[h]]
        /\ list = [list EXCEPT ![h] = list[h]] /\ paths = [paths EXCEPT ![h] = paths[h]]
        /\ todo = [todo EXCEPT ![h] = todo[h]] /\ out = [out EXCEPT ![h] = out[h]]
    <2>1. at = [at EXCEPT ![h] = at[h]] /\ list = [list EXCEPT ![h] = list[h]]
      BY DEF DnsTypeInv, DnsTypeOK
    <2>2. paths = [paths EXCEPT ![h] = paths[h]] /\ todo = [todo EXCEPT ![h] = todo[h]]
      BY DEF DnsTypeInv, DnsTypeOK
    <2>3. out = [out EXCEPT ![h] = out[h]]
      BY DEF DnsTypeInv
    <2>4. asked = [asked EXCEPT ![h] = asked[h]]
      BY DEF DnsTypeInv
    <2> QED BY <2>1, <2>2, <2>3, <2>4
  <1>1. foreign' = foreign
    BY DEF HandlerStep, BeginDomain, BeginReload, DomainStep, StartSave, Strip, WriteRelay,
           WriteBypass, WriteManagedFile, Flush, Reload
  <1> SUFFICES Goal
    BY <1>1
  <1>2. CASE Answer(h)
    BY <1>2, Zenon DEF Answer
  <1>3. ASSUME NEW q \in DomainRequests, BeginDomain(h, q) PROVE Goal
    <2>1. CASE UNCHANGED handlerVars
      BY <1>0, <2>1, Zenon DEF handlerVars
    <2>2. CASE ~UNCHANGED handlerVars
      BY <1>0, <1>3, <2>2, Zenon DEF BeginDomain, handlerVars
    <2> QED BY <2>1, <2>2
  <1>4. CASE BeginReload(h)
    BY <1>0, <1>4, Zenon DEF BeginReload
  <1>5. CASE StartSave(h)
    BY <1>0, <1>5, Zenon DEF StartSave
  <1>6. CASE Strip(h)
    <2>1. \E v : todo' = [todo EXCEPT ![h] = v]
      BY <1>0, <1>6, Zenon DEF Strip
    <2>2. Answer(h) \/ /\ UNCHANGED <<asked, list, paths>>
                       /\ \E v : at' = [at EXCEPT ![h] = v]
                       /\ \E v : out' = [out EXCEPT ![h] = v]
      BY <1>0, <1>6, Zenon DEF Strip, Open, SaveFails
    <2> QED BY <1>0, <1>2, <2>1, <2>2, Zenon
  <1>7. ASSUME NEW f, NEW mode, NEW next, WriteManagedFile(h, f, mode, next) PROVE Goal
    <2>1. \E v : todo' = [todo EXCEPT ![h] = v]
      BY <1>0, <1>7, Zenon DEF WriteManagedFile
    <2>2. Answer(h) \/ /\ UNCHANGED <<asked, list, paths>>
                       /\ \E v : at' = [at EXCEPT ![h] = v]
                       /\ \E v : out' = [out EXCEPT ![h] = v]
      BY <1>0, <1>7, Zenon DEF WriteManagedFile, Open, SaveFails
    <2> QED BY <1>0, <1>2, <2>1, <2>2, Zenon
  <1>8. CASE Flush(h)
    <2>1. Answer(h) \/ /\ UNCHANGED <<asked, list, paths, todo>>
                       /\ \E v : at' = [at EXCEPT ![h] = v]
                       /\ \E v : out' = [out EXCEPT ![h] = v]
      BY <1>0, <1>8, Zenon DEF Flush, Saved, SaveFails
    <2> QED BY <1>0, <1>2, <2>1, Zenon
  <1>9. CASE Reload(h)
    BY <1>2, <1>9 DEF Reload
  <1> QED BY <1>3, <1>4, <1>5, <1>6, <1>7, <1>8, <1>9
          DEF HandlerStep, DomainStep, WriteRelay, WriteBypass

\* The types of what one handler keeps.
HandlerType(h) ==
  /\ at[h] \in AtPcs
  /\ asked[h] \in DomainRequests \cup {NoRequest}
  /\ list[h] \subseteq Rules
  /\ paths[h] \in [relay : ConfFiles \cup {NoFile}, bypass : ConfFiles \cup {NoFile}]
  /\ todo[h] \subseteq ConfFiles
  /\ out[h] \in [file : ConfFiles \cup {NoFile}, text : Texts]
  /\ HandlerOK(h)

\* The types of what they share.
SharedType ==
  /\ conf \in [ConfFiles -> Texts \cup {NoFile}]
  /\ running \subseteq Rules
  /\ wanted \in [Patterns -> {"relay", "bypass", "none"}]
  /\ requests \in 0..MaxDomainRequests
  /\ damaged \in BOOLEAN /\ clobbered \in BOOLEAN /\ stale \in BOOLEAN
  /\ foreign \subseteq ConfFiles /\ crossed \subseteq Handlers

\* No file is removed.
FilesStay == \A f \in ConfFiles : conf[f] # NoFile => conf'[f] # NoFile

\* The types, part by part.
LEMMA HandlerTypes ==
  ASSUME DnsTypeInv
  PROVE  /\ SharedType
         /\ \A h \in Handlers : HandlerType(h)
         /\ DOMAIN at = Handlers /\ DOMAIN asked = Handlers /\ DOMAIN list = Handlers
         /\ DOMAIN paths = Handlers /\ DOMAIN todo = Handlers /\ DOMAIN out = Handlers
  BY DEF DnsTypeInv, DnsTypeOK, SharedType, HandlerType, AtPcs

\* The other handlers keep what they have; what the acting one keeps has its types.
LEMMA HandlerTypesNext ==
  ASSUME DnsTypeInv, NEW h \in Handlers, HandlerStep(h), SharedType', HandlerType(h)',
         FilesStay
  PROVE  DnsTypeInv'
  <1>1. /\ \A g \in Handlers \ {h} : /\ at'[g] = at[g] /\ asked'[g] = asked[g] /\ list'[g] = list[g]
                                     /\ paths'[g] = paths[g] /\ todo'[g] = todo[g]
                                     /\ out'[g] = out[g]
        /\ DOMAIN at' = Handlers /\ DOMAIN asked' = Handlers /\ DOMAIN list' = Handlers
        /\ DOMAIN paths' = Handlers /\ DOMAIN todo' = Handlers /\ DOMAIN out' = Handlers
    BY HandlerFrame, HandlerTypes
  <1>2. \A g \in Handlers : HandlerType(g)'
    <2> TAKE g \in Handlers
    <2>1. CASE g = h
      BY <2>1
    <2>2. CASE g # h
      BY <1>1, <2>2, HandlerTypes DEF HandlerType, HandlerOK, Saving, FilesStay
    <2> QED BY <2>1, <2>2
  <1>3. at' \in [Handlers -> AtPcs]
    <2>1. at \in [Handlers -> AtPcs] /\ at'[h] \in AtPcs
      BY DEF DnsTypeInv, DnsTypeOK, AtPcs, HandlerType
    <2> QED BY <2>1, HandlerFrame
  <1>4. list' \in [Handlers -> SUBSET Rules]
    <2>1. list \in [Handlers -> SUBSET Rules] /\ list'[h] \in SUBSET Rules
      BY DEF DnsTypeInv, DnsTypeOK, HandlerType
    <2> QED BY <2>1, HandlerFrame
  <1>5. paths' \in [Handlers -> [relay : ConfFiles \cup {NoFile}, bypass : ConfFiles \cup {NoFile}]]
    <2> DEFINE S == [relay : ConfFiles \cup {NoFile}, bypass : ConfFiles \cup {NoFile}]
    <2>1. paths \in [Handlers -> S] /\ paths'[h] \in S
      BY DEF DnsTypeInv, DnsTypeOK, HandlerType
    <2> HIDE DEF S
    <2>2. paths' \in [Handlers -> S]
      BY <2>1, HandlerFrame
    <2> QED BY <2>2 DEF S
  <1>6. todo' \in [Handlers -> SUBSET ConfFiles]
    <2>1. todo \in [Handlers -> SUBSET ConfFiles] /\ todo'[h] \in SUBSET ConfFiles
      BY DEF DnsTypeInv, DnsTypeOK, HandlerType
    <2> QED BY <2>1, HandlerFrame
  <1>7. out' \in [Handlers -> [file : ConfFiles \cup {NoFile}, text : Texts]]
    <2> DEFINE S == [file : ConfFiles \cup {NoFile}, text : Texts]
    <2>1. out \in [Handlers -> S] /\ out'[h] \in S
      BY DEF DnsTypeInv, HandlerType
    <2> HIDE DEF S
    <2>2. out' \in [Handlers -> S]
      BY <2>1, HandlerFrame
    <2> QED BY <2>2 DEF S
  <1>8. asked' \in [Handlers -> DomainRequests \cup {NoRequest}]
    <2> DEFINE S == DomainRequests \cup {NoRequest}
    <2>1. asked \in [Handlers -> S] /\ asked'[h] \in S
      BY DEF DnsTypeInv, HandlerType
    <2> HIDE DEF S
    <2>2. asked' \in [Handlers -> S]
      BY <2>1, HandlerFrame
    <2> QED BY <2>2 DEF S
  <1> QED BY <1>1, <1>2, <1>3, <1>4, <1>5, <1>6, <1>7, <1>8
          DEF DnsTypeInv, DnsTypeOK, SharedType, HandlerType, AtPcs

\* A handler that has answered keeps nothing.
LEMMA AnswerFacts ==
  ASSUME DnsTypeInv, NEW h \in Handlers, Answer(h)
  PROVE  /\ HandlerType(h)'
         /\ at'[h] = "idle" /\ out'[h] = Closed
  <1>1. /\ at'[h] = "idle" /\ asked'[h] = NoRequest /\ list'[h] = {} /\ paths'[h] = NoPaths
        /\ todo'[h] = {} /\ out'[h] = Closed
    BY HandlerTypes DEF Answer
  <1>2. NoPaths \in [relay : ConfFiles \cup {NoFile}, bypass : ConfFiles \cup {NoFile}]
    BY DEF NoPaths
  <1>3. Closed \in [file : ConfFiles \cup {NoFile}, text : Texts]
    BY TextFacts DEF Closed
  <1> QED BY <1>1, <1>2, <1>3 DEF HandlerType, HandlerOK, AtPcs, Saving

\* The file that fs::write opens: it is truncated and its text is ready, or the handler
\* has answered.
LEMMA OpenFacts ==
  ASSUME DnsTypeInv, NEW h \in Handlers, NEW f \in ConfFiles, NEW text \in Texts, NEW next,
         Open(h, f, text, next)
  PROVE  \/ /\ conf' = [conf EXCEPT ![f] = Empty]
            /\ out'[h] = [file |-> f, text |-> text] /\ out'[h] # Closed
            /\ out'[h] \in [file : ConfFiles \cup {NoFile}, text : Texts]
            /\ at'[h] = next
            /\ UNCHANGED <<asked, list, paths, damaged, stale>>
         \/ /\ Answer(h) /\ damaged' = TRUE /\ stale' = TRUE /\ UNCHANGED conf
  <1>1. [file |-> f, text |-> text] # Closed
    BY DnsmasqAssumption DEF Closed
  <1> QED BY <1>1, HandlerTypes DEF Open, SaveFails

\* The files that FromPanel finds are files of the directory.
LEMMA PathFacts ==
  ASSUME NEW readable \in SUBSET Present, NEW p \in FromPanel(readable)
  PROVE  /\ p \in [relay : ConfFiles, bypass : ConfFiles]
         /\ RelayFile # NoFile => p.relay = RelayFile
         /\ BypassFile # NoFile => p.bypass = BypassFile
  <1>1. \A m : MostRules(readable, m) \subseteq ConfFiles \cup {NoFile}
    BY DEF MostRules, Present
  <1>2. PICK r \in MostRules(readable, "relay"),
             b \in (IF readable \cap NamedBypass # {} THEN readable \cap NamedBypass
                    ELSE MostRules(readable, "bypass")) :
          p = [relay |-> Or(RelayFile, Or(r, DefaultRelay)),
               bypass |-> Or(BypassFile, Or(b, DefaultBypass))]
    BY DEF FromPanel
  <1>3. r \in ConfFiles \cup {NoFile} /\ b \in ConfFiles \cup {NoFile}
    BY <1>1, <1>2 DEF Present
  <1>4. /\ RelayFile \in ConfFiles \cup {NoFile} /\ BypassFile \in ConfFiles \cup {NoFile}
        /\ DefaultRelay \in ConfFiles /\ DefaultBypass \in ConfFiles
    BY DnsmasqAssumption
  <1> QED BY <1>2, <1>3, <1>4 DEF Or

\* A write of the relay or the bypass file.
LEMMA ManagedFacts ==
  ASSUME DnsTypeInv, NEW h \in Handlers, NEW f \in ConfFiles, NEW mode, NEW next,
         WriteManagedFile(h, f, mode, next)
  PROVE  \E kept \in {StripManagedLines(conf[f]), Empty} :
           /\ kept \in Texts
           /\ [kept EXCEPT !.rules = Of(list[h], mode)] \in Texts
           /\ Open(h, f, [kept EXCEPT !.rules = Of(list[h], mode)], next)
           /\ clobbered' = (clobbered \/ kept # StripManagedLines(conf[f]))
           /\ todo'[h] = {}
  <1>1. PICK kept \in {StripManagedLines(conf[f]), Empty} :
           /\ Open(h, f, [kept EXCEPT !.rules = Of(list[h], mode)], next)
           /\ clobbered' = (clobbered \/ kept # StripManagedLines(conf[f]))
    BY Zenon DEF WriteManagedFile
  <1>2. conf[f] \in Texts \cup {NoFile} /\ list[h] \subseteq Rules
    BY HandlerTypes DEF SharedType, HandlerType
  <1>3. kept \in Texts
    BY <1>2, TextFacts
  <1>4. Of(list[h], mode) \in SUBSET Rules
    BY <1>2 DEF Of
  <1>5. [kept EXCEPT !.rules = Of(list[h], mode)] \in Texts
    BY <1>3, <1>4, TextFacts
  <1>6. todo'[h] = {}
    BY HandlerTypes DEF WriteManagedFile
  <1> QED BY <1>1, <1>3, <1>5, <1>6

\* The relay and the bypass file.
LEMMA ManagedType ==
  ASSUME DnsTypeInv, NEW h \in Handlers, WriteRelay(h) \/ WriteBypass(h)
  PROVE  SharedType' /\ HandlerType(h)' /\ FilesStay
  <1>0. SharedType /\ HandlerType(h)
    BY HandlerTypes
  <1>1. \E f \in ConfFiles : \E next \in {"bypass", "saved"}, mode \in {"relay", "bypass"} :
          WriteManagedFile(h, f, mode, next)
    BY <1>0 DEF WriteRelay, WriteBypass, HandlerType, HandlerOK
  <1>2. PICK f \in ConfFiles, next \in {"bypass", "saved"}, mode \in {"relay", "bypass"} :
          WriteManagedFile(h, f, mode, next)
    BY <1>1
  <1>3. PICK text \in Texts : Open(h, f, text, next)
    BY <1>2, ManagedFacts
  <1>4. clobbered' \in BOOLEAN /\ todo'[h] = {}
    BY <1>0, <1>2, ManagedFacts DEF SharedType
  <1>5. UNCHANGED <<running, requests, wanted, foreign, crossed>>
    BY <1>2 DEF WriteManagedFile
  <1>6. at[h] \in {"relay", "bypass"}
    BY DEF WriteRelay, WriteBypass
  <1>7. CASE Answer(h) /\ damaged' = TRUE /\ stale' = TRUE /\ UNCHANGED conf
    BY <1>0, <1>4, <1>5, <1>7, AnswerFacts DEF SharedType, FilesStay
  <1>8. CASE ~(Answer(h) /\ damaged' = TRUE /\ stale' = TRUE /\ UNCHANGED conf)
    <2>1. /\ conf' = [conf EXCEPT ![f] = Empty]
          /\ out'[h] = [file |-> f, text |-> text]
          /\ out'[h] \in [file : ConfFiles \cup {NoFile}, text : Texts]
          /\ at'[h] = next /\ out'[h] # Closed
          /\ UNCHANGED <<asked, list, paths, damaged, stale>>
      BY <1>3, <1>8, OpenFacts
    <2>2. conf' \in [ConfFiles -> Texts \cup {NoFile}]
      BY <1>0, <2>1, TextFacts DEF SharedType
    <2>3. SharedType'
      BY <1>0, <1>4, <1>5, <2>1, <2>2 DEF SharedType
    <2>4. out'[h].file = f /\ conf'[f] # NoFile /\ FilesStay
      BY <1>0, <2>1, TextFacts DEF SharedType, FilesStay
    <2> QED BY <1>0, <1>4, <1>6, <2>1, <2>3, <2>4 DEF HandlerType, HandlerOK, Saving, AtPcs
  <1> QED BY <1>7, <1>8

\* A file that is cleaned.
LEMMA StripType ==
  ASSUME DnsTypeInv, NEW h \in Handlers, Strip(h)
  PROVE  SharedType' /\ HandlerType(h)' /\ FilesStay
  <1>0. SharedType /\ HandlerType(h) /\ at[h] = "strip" /\ out[h] = Closed
    BY HandlerTypes DEF Strip
  <1>1. UNCHANGED <<running, requests, wanted, foreign, clobbered>>
    BY DEF Strip
  <1>2. CASE todo[h] = {} /\ at' = [at EXCEPT ![h] = "relay"]
             /\ UNCHANGED <<conf, asked, list, paths, todo, out, crossed, damaged, stale>>
    <2>1. at'[h] = "relay"
      BY <1>2, HandlerTypes
    <2> QED BY <1>0, <1>1, <1>2, <2>1 DEF SharedType, HandlerType, HandlerOK, Saving, AtPcs, FilesStay
  <1>3. ASSUME NEW f \in todo[h], todo' = [todo EXCEPT ![h] = @ \ {f}],
               damaged' = (damaged \/ conf[f].rules # {}),
               crossed' = IF conf[f].rules = {} THEN crossed ELSE crossed \cup {h},
               UNCHANGED <<conf, at, asked, list, paths, out, stale>>
        PROVE  SharedType' /\ HandlerType(h)' /\ FilesStay
    <2>1. todo'[h] \subseteq ConfFiles
      BY <1>0, <1>3, HandlerTypes DEF HandlerType
    <2>2. damaged' \in BOOLEAN /\ crossed' \subseteq Handlers
      BY <1>0, <1>3 DEF SharedType
    <2>3. SharedType'
      BY <1>0, <1>1, <1>3, <2>2 DEF SharedType
    <2>4. HandlerType(h)'
      BY <1>0, <1>3, <2>1 DEF HandlerType, HandlerOK, Saving, AtPcs
    <2> QED BY <1>3, <2>3, <2>4 DEF FilesStay
  <1>4. ASSUME NEW f \in todo[h],
               Open(h, f, StripManagedLines(conf[f]), "strip"),
               todo' = [todo EXCEPT ![h] = IF at'[h] = "idle" THEN {} ELSE @ \ {f}],
               UNCHANGED crossed
        PROVE  SharedType' /\ HandlerType(h)' /\ FilesStay
    <2>1. f \in ConfFiles
      BY <1>0 DEF HandlerType
    <2>2. StripManagedLines(conf[f]) \in Texts
      BY <1>0, <2>1, TextFacts DEF SharedType
    <2>3. CASE Answer(h) /\ damaged' = TRUE /\ stale' = TRUE /\ UNCHANGED conf
      BY <1>0, <1>1, <1>4, <2>3, AnswerFacts DEF SharedType, FilesStay
    <2>4. CASE ~(Answer(h) /\ damaged' = TRUE /\ stale' = TRUE /\ UNCHANGED conf)
      <3>1. /\ conf' = [conf EXCEPT ![f] = Empty]
            /\ out'[h] = [file |-> f, text |-> StripManagedLines(conf[f])]
            /\ out'[h] \in [file : ConfFiles \cup {NoFile}, text : Texts]
            /\ at'[h] = "strip" /\ out'[h] # Closed
            /\ UNCHANGED <<asked, list, paths, damaged, stale>>
        BY <1>4, <2>1, <2>2, <2>4, OpenFacts
      <3>2. conf' \in [ConfFiles -> Texts \cup {NoFile}]
        BY <1>0, <3>1, TextFacts DEF SharedType
      <3>3. SharedType'
        BY <1>0, <1>1, <1>4, <3>1, <3>2 DEF SharedType
      <3>4. out'[h].file = f /\ conf'[f] # NoFile /\ FilesStay
        BY <1>0, <2>1, <3>1, TextFacts DEF SharedType, FilesStay
      <3>5. todo'[h] \subseteq ConfFiles
        BY <1>0, <1>4, HandlerTypes DEF HandlerType
      <3> QED BY <1>0, <2>1, <3>1, <3>3, <3>4, <3>5 DEF HandlerType, HandlerOK, Saving, AtPcs
    <2> QED BY <2>3, <2>4
  <1> QED BY <1>2, <1>3, <1>4 DEF Strip

\* The text that is written, or a part of it.
LEMMA FlushFacts ==
  ASSUME DnsTypeInv, NEW h \in Handlers, Flush(h)
  PROVE  /\ out[h] # Closed /\ out[h].file \in ConfFiles /\ out[h].text \in Texts
         /\ at[h] \in {"strip", "bypass", "saved"}
         /\ UNCHANGED <<running, requests, foreign, crossed>>
         /\ \/ /\ \E t \in Texts :
                    /\ conf' = [conf EXCEPT ![out[h].file] = t]
                    /\ t.other = out[h].text.other
                    /\ \/ t.rules = out[h].text.rules
                       \/ t.rules = out[h].text.rules \cup conf[out[h].file].rules
               /\ out'[h] = Closed
               /\ IF at[h] = "saved" THEN Saved(h) ELSE UNCHANGED <<at, wanted, damaged>>
               /\ UNCHANGED <<asked, list, paths, todo, clobbered, stale>>
            \/ /\ \E t \in Texts : /\ conf' = [conf EXCEPT ![out[h].file] = t]
                                    /\ t.other = out[h].text.other
               /\ Answer(h) /\ damaged' = TRUE /\ stale' = TRUE
               /\ clobbered' = TRUE /\ UNCHANGED wanted
  <1> DEFINE f == out[h].file
             text == out[h].text
  <1>1. /\ out[h] # Closed /\ f \in ConfFiles /\ text \in Texts
        /\ at[h] \in {"strip", "bypass", "saved"}
        /\ conf[f] \in Texts
    <2>1. SharedType /\ HandlerType(h)
      BY HandlerTypes
    <2>2. out[h] # Closed
      BY DEF Flush
    <2> QED BY <2>1, <2>2 DEF HandlerType, HandlerOK, SharedType
  <1>2. UNCHANGED <<running, requests, foreign, crossed>>
    BY DEF Flush
  <1>3. \A u \in SUBSET Rules, j \in SUBSET {"relay", "bypass"} :
          /\ [text EXCEPT !.rules = u, !.junk = j] \in Texts
          /\ [text EXCEPT !.rules = u, !.junk = j].rules = u
          /\ [text EXCEPT !.rules = u, !.junk = j].other = text.other
    BY <1>1, TextJunk
  <1>4. CASE /\ \E rest \in {Empty, conf[f]} :
                  conf' = [conf EXCEPT ![f] = [text EXCEPT !.rules = @ \cup rest.rules,
                                                           !.junk = @ \cup rest.junk]]
             /\ out' = [out EXCEPT ![h] = Closed]
             /\ IF at[h] = "saved" THEN Saved(h) ELSE UNCHANGED <<at, wanted, damaged>>
             /\ UNCHANGED <<asked, list, paths, todo, clobbered, stale>>
    <2>1. PICK rest \in {Empty, conf[f]} :
            conf' = [conf EXCEPT ![f] = [text EXCEPT !.rules = text.rules \cup rest.rules,
                                                     !.junk = text.junk \cup rest.junk]]
      BY <1>4
    <2>2. rest \in Texts
      BY <1>1, <2>1, TextFacts
    <2>3. /\ text.rules \cup rest.rules \in SUBSET Rules
          /\ text.junk \cup rest.junk \in SUBSET {"relay", "bypass"}
      BY <1>1, <2>2 DEF Texts
    <2> DEFINE t == [text EXCEPT !.rules = text.rules \cup rest.rules,
                                 !.junk = text.junk \cup rest.junk]
    <2>4. t \in Texts /\ t.rules = text.rules \cup rest.rules /\ t.other = text.other
      BY <1>3, <2>3
    <2>5. text.rules \cup rest.rules = text.rules
          \/ text.rules \cup rest.rules = text.rules \cup conf[f].rules
      BY <2>1, TextFacts
    <2>6. out'[h] = Closed
      BY <1>4, HandlerTypes
    <2> HIDE DEF t
    <2>7. conf' = [conf EXCEPT ![f] = t]
      BY <2>1 DEF t
    <2> QED BY <1>1, <1>2, <1>4, <2>4, <2>5, <2>6, <2>7
  <1>5. CASE /\ \E part \in SUBSET text.rules,
                   cut \in {{}, {x.mode : x \in text.rules} \cap {"relay"}} :
                  conf' = [conf EXCEPT ![f] = [text EXCEPT !.rules = part, !.junk = cut]]
             /\ SaveFails(h) /\ clobbered' = TRUE /\ UNCHANGED wanted
    <2>1. PICK part \in SUBSET text.rules,
               cut \in {{}, {x.mode : x \in text.rules} \cap {"relay"}} :
            conf' = [conf EXCEPT ![f] = [text EXCEPT !.rules = part, !.junk = cut]]
      BY <1>5
    <2>2. part \in SUBSET Rules /\ cut \in SUBSET {"relay", "bypass"}
      BY <1>1, TextFacts
    <2>3. \E t \in Texts : conf' = [conf EXCEPT ![f] = t] /\ t.other = text.other
      <3> DEFINE t == [text EXCEPT !.rules = part, !.junk = cut]
      <3>1. t \in Texts /\ t.other = text.other
        BY <1>3, <2>2
      <3>2. conf' = [conf EXCEPT ![f] = t]
        BY <2>1
      <3> HIDE DEF t
      <3> QED BY <3>1, <3>2
    <2> QED BY <1>1, <1>2, <1>5, <2>3 DEF SaveFails
  <1> QED BY <1>4, <1>5 DEF Flush

\* The same text keeps the types.
LEMMA FlushType ==
  ASSUME DnsTypeInv, NEW h \in Handlers, Flush(h)
  PROVE  SharedType' /\ HandlerType(h)' /\ FilesStay
  <1> DEFINE f == out[h].file
             text == out[h].text
  <1>0. SharedType /\ HandlerType(h) /\ f \in ConfFiles /\ text \in Texts
    BY HandlerTypes, FlushFacts
  <1>1. \E t \in Texts : conf' = [conf EXCEPT ![f] = t]
    BY FlushFacts
  <1>2. conf' \in [ConfFiles -> Texts \cup {NoFile}] /\ FilesStay
    BY <1>0, <1>1, TextFacts DEF SharedType, FilesStay
  <1>3. UNCHANGED <<running, requests, foreign, crossed>>
    BY FlushFacts
  <1>4. CASE Answer(h) /\ damaged' = TRUE /\ stale' = TRUE /\ clobbered' = TRUE /\ UNCHANGED wanted
    BY <1>0, <1>2, <1>3, <1>4, AnswerFacts DEF SharedType
  <1>5. CASE ~(Answer(h) /\ damaged' = TRUE /\ stale' = TRUE /\ clobbered' = TRUE /\ UNCHANGED wanted)
    <2>1. /\ out'[h] = Closed
          /\ IF at[h] = "saved" THEN Saved(h) ELSE UNCHANGED <<at, wanted, damaged>>
          /\ UNCHANGED <<asked, list, paths, todo, clobbered, stale>>
      BY <1>5, FlushFacts
    <2>2. Closed \in [file : ConfFiles \cup {NoFile}, text : Texts]
      BY TextFacts DEF Closed
    <2>3. CASE at[h] = "saved"
      <3>1. at'[h] = "reload" /\ wanted' = Intended(asked[h], wanted) /\ damaged' \in BOOLEAN
        BY <1>0, <2>1, <2>3, HandlerTypes DEF Saved, SharedType
      <3>2. wanted' \in [Patterns -> {"relay", "bypass", "none"}]
        BY <1>0, <3>1, IntendedType DEF SharedType
      <3>3. SharedType'
        BY <1>0, <1>2, <1>3, <2>1, <3>1, <3>2 DEF SharedType
      <3>4. HandlerType(h)'
        BY <1>0, <2>1, <2>2, <3>1 DEF HandlerType, HandlerOK, Saving, AtPcs
      <3> QED BY <1>2, <3>3, <3>4
    <2>4. CASE at[h] # "saved"
      <3>1. SharedType'
        BY <1>0, <1>2, <1>3, <2>1, <2>4 DEF SharedType
      <3>2. HandlerType(h)'
        BY <1>0, <2>1, <2>2, <2>4 DEF HandlerType, HandlerOK, Saving, AtPcs
      <3> QED BY <1>2, <3>1, <3>2
    <2> QED BY <2>3, <2>4
  <1> QED BY <1>4, <1>5

\* The other steps keep the types.
LEMMA OtherType ==
  ASSUME DnsTypeInv, NEW h \in Handlers,
         \/ \E q \in DomainRequests : BeginDomain(h, q)
         \/ BeginReload(h) \/ StartSave(h) \/ Reload(h)
  PROVE  SharedType' /\ HandlerType(h)' /\ FilesStay
  <1>0. SharedType /\ HandlerType(h)
    BY HandlerTypes
  <1>1. conf' = conf /\ FilesStay
    BY DEF BeginDomain, BeginReload, StartSave, Reload, FilesStay
  <1>2. MaxDomainRequests \in Nat
    BY DnsmasqAssumption
  <1>3. ASSUME NEW q \in DomainRequests, BeginDomain(h, q) PROVE SharedType' /\ HandlerType(h)'
    <2>1. requests' \in 0..MaxDomainRequests
      BY <1>0, <1>2, <1>3 DEF BeginDomain, SharedType
    <2>2. UNCHANGED <<conf, running, wanted, foreign, stale>> /\ at[h] = "idle"
      BY <1>3 DEF BeginDomain
    <2>3. CASE UNCHANGED <<handlerVars, crossed, damaged, clobbered>>
      BY <1>0, <2>1, <2>2, <2>3 DEF SharedType, HandlerType, HandlerOK, Saving, handlerVars
    <2>4. CASE ~UNCHANGED <<handlerVars, crossed, damaged, clobbered>>
      <3> DEFINE others == {x \in Handlers \ {h} : Saving(x)}
      <3>1. /\ q.op \in {"create", "update"} => q.pattern # NoPattern
            /\ asked' = [asked EXCEPT ![h] = q]
            /\ list' = [list EXCEPT ![h] = BypassWins(Edited(q, LoadDomains))]
            /\ at' = [at EXCEPT ![h] = "save"]
            /\ crossed' = IF others = {} THEN crossed \ {h} ELSE crossed \cup others \cup {h}
            /\ damaged' = (damaged \/ others # {})
            /\ clobbered' = (clobbered \/ others # {})
            /\ UNCHANGED <<paths, todo, out>>
        BY <1>3, <2>4, Zenon DEF BeginDomain
      <3>2. asked'[h] = q /\ list'[h] = BypassWins(Edited(q, LoadDomains)) /\ at'[h] = "save"
        BY <3>1, HandlerTypes
      <3>3. LoadDomains \in SUBSET Rules
        BY <1>0, LoadFacts DEF SharedType
      <3>4. list'[h] \subseteq Rules
        BY <3>1, <3>2, <3>3, EditedType
      <3>5. crossed' \subseteq Handlers /\ damaged' \in BOOLEAN /\ clobbered' \in BOOLEAN
        BY <1>0, <3>1 DEF SharedType
      <3>6. SharedType'
        BY <1>0, <2>1, <2>2, <3>5 DEF SharedType
      <3>7. HandlerType(h)'
        BY <1>0, <2>2, <3>1, <3>2, <3>4 DEF HandlerType, HandlerOK, Saving, AtPcs
      <3> QED BY <3>6, <3>7
    <2> QED BY <2>3, <2>4
  <1>4. CASE BeginReload(h)
    <2>1. requests' \in 0..MaxDomainRequests
      BY <1>0, <1>2, <1>4 DEF BeginReload, SharedType
    <2>2. at'[h] = "reload" /\ at[h] = "idle"
      BY <1>4, HandlerTypes DEF BeginReload
    <2>3. SharedType'
      BY <1>0, <1>4, <2>1 DEF BeginReload, SharedType
    <2>4. HandlerType(h)'
      BY <1>0, <1>4, <2>2 DEF BeginReload, HandlerType, HandlerOK, Saving, AtPcs
    <2> QED BY <1>1, <2>3, <2>4
  <1>5. CASE StartSave(h)
    <2>1. PICK p \in [relay : ConfFiles, bypass : ConfFiles] :
            /\ paths' = [paths EXCEPT ![h] = p]
            /\ todo' = [todo EXCEPT ![h] = Present \ {p.relay, p.bypass}]
      BY <1>5, PathFacts DEF StartSave
    <2>2. paths'[h] = p /\ todo'[h] \subseteq ConfFiles /\ at'[h] = "strip" /\ at[h] = "save"
      BY <1>5, <2>1, HandlerTypes DEF StartSave, Present
    <2>3. p.relay \in ConfFiles /\ p.bypass \in ConfFiles
      OBVIOUS
    <2>4. p \in [relay : ConfFiles \cup {NoFile}, bypass : ConfFiles \cup {NoFile}]
      OBVIOUS
    <2>5. SharedType'
      BY <1>0, <1>5 DEF StartSave, SharedType
    <2>6. HandlerType(h)'
      BY <1>0, <1>5, <2>2, <2>3, <2>4 DEF StartSave, HandlerType, HandlerOK, Saving, AtPcs
    <2> QED BY <1>1, <2>5, <2>6
  <1>6. CASE Reload(h)
    <2>1. running' \subseteq Rules /\ stale' \in BOOLEAN
      BY <1>0, <1>6, LoadFacts DEF Reload, SharedType
    <2>2. HandlerType(h)'
      BY <1>6, AnswerFacts DEF Reload
    <2>3. SharedType'
      BY <1>0, <1>6, <2>1 DEF Reload, SharedType
    <2> QED BY <1>1, <2>2, <2>3
  <1> QED BY <1>1, <1>3, <1>4, <1>5, <1>6

\* The types hold at the start.
LEMMA DnsInitType == DnsInit => DnsTypeInv
  <1> SUFFICES ASSUME DnsInit PROVE DnsTypeInv
    OBVIOUS
  <1>1. conf \in [ConfFiles -> Texts \cup {NoFile}]
    BY DnsmasqAssumption DEF DnsInit
  <1>2. running \subseteq Rules
    BY <1>1, LoadFacts DEF DnsInit
  <1>3. wanted \in [Patterns -> {"relay", "bypass", "none"}]
    BY DEF DnsInit
  <1>4. requests \in 0..MaxDomainRequests
    BY DnsmasqAssumption DEF DnsInit
  <1>5. Closed \in [file : ConfFiles \cup {NoFile}, text : Texts]
    BY TextFacts DEF Closed
  <1>6. NoPaths \in [relay : ConfFiles \cup {NoFile}, bypass : ConfFiles \cup {NoFile}]
    BY DEF NoPaths
  <1>7. /\ at \in [Handlers -> AtPcs] /\ list \in [Handlers -> SUBSET Rules]
        /\ todo \in [Handlers -> SUBSET ConfFiles]
        /\ asked \in [Handlers -> DomainRequests \cup {NoRequest}]
    BY DEF DnsInit, AtPcs
  <1>8. paths \in [Handlers -> [relay : ConfFiles \cup {NoFile}, bypass : ConfFiles \cup {NoFile}]]
    BY <1>6 DEF DnsInit
  <1>9. out \in [Handlers -> [file : ConfFiles \cup {NoFile}, text : Texts]]
    BY <1>5 DEF DnsInit
  <1>10. \A h \in Handlers : HandlerOK(h)
    BY DEF DnsInit, HandlerOK, Saving
  <1>11. foreign \subseteq ConfFiles /\ crossed \subseteq Handlers
    BY DEF DnsInit, Present
  <1>12. damaged \in BOOLEAN /\ clobbered \in BOOLEAN /\ stale \in BOOLEAN
    BY DEF DnsInit
  <1> QED BY <1>1, <1>2, <1>3, <1>4, <1>7, <1>8, <1>9, <1>10, <1>11, <1>12
          DEF DnsTypeInv, DnsTypeOK, AtPcs

\* Every step keeps the types, and no file.
LEMMA DnsStepType == DnsTypeInv /\ [DnsNext]_dnsVars => DnsTypeInv'
  <1>1. ASSUME DnsTypeInv, UNCHANGED dnsVars PROVE DnsTypeInv'
    BY <1>1 DEF DnsTypeInv, DnsTypeOK, HandlerOK, Saving, dnsVars, handlerVars
  <1>2. ASSUME DnsTypeInv, NEW h \in Handlers, HandlerStep(h) PROVE DnsTypeInv'
    <2>1. SharedType' /\ HandlerType(h)' /\ FilesStay
      BY <1>2, ManagedType, StripType, FlushType, OtherType DEF HandlerStep, DomainStep
    <2> QED BY <1>2, <2>1, HandlerTypesNext
  <1> QED BY <1>1, <1>2 DEF DnsNext, HandlerStep

\* The variables of the domain rules always have their types.
THEOREM DnsTypeCorrect == DnsSpec => []DnsTypeOK
  <1>1. DnsTypeInv => DnsTypeOK
    BY DEF DnsTypeInv
  <1> QED BY <1>1, DnsInitType, DnsStepType, PTL DEF DnsSpec

------------------------------------------------------------------------------
(* dnsmasq runs with the rules on disk *)

\* Every step keeps them equal: a handler that has touched a file is not idle before it
\* has reloaded or failed.
LEMMA RunningStep ==
  ASSUME DnsTypeInv, RunningFollowsFiles, [DnsNext]_dnsVars
  PROVE  RunningFollowsFiles'
  <1>1. CASE UNCHANGED dnsVars
    BY <1>1 DEF RunningFollowsFiles, DnsQuiet, LoadDomains, Present, dnsVars, handlerVars
  <1>2. ASSUME NEW h \in Handlers, HandlerStep(h) PROVE RunningFollowsFiles'
    <2> SUFFICES ASSUME at'[h] = "idle", stale' = FALSE, DnsQuiet' PROVE running' = LoadDomains'
      <3>1. stale' \in BOOLEAN
        BY <1>2, DnsStepType DEF DnsNext, HandlerStep, DnsTypeInv
      <3> QED BY <1>2, <3>1 DEF RunningFollowsFiles, DnsQuiet
    <2>1. ASSUME NEW q \in DomainRequests, BeginDomain(h, q) PROVE running' = LoadDomains'
      <3>1. UNCHANGED <<conf, running, stale>>
        BY <2>1 DEF BeginDomain
      <3>2. ~ at' = [at EXCEPT ![h] = "save"]
        BY HandlerTypes
      <3>3. at' = at
        BY <2>1, <3>2 DEF BeginDomain, handlerVars
      <3> QED BY <3>1, <3>3 DEF RunningFollowsFiles, DnsQuiet, LoadDomains, Present
    <2>2. CASE BeginReload(h) \/ StartSave(h)
      BY <2>2, HandlerTypes DEF BeginReload, StartSave
    <2>3. CASE Strip(h)
      BY <2>3, HandlerTypes DEF Strip, Open, SaveFails
    <2>4. CASE WriteRelay(h) \/ WriteBypass(h)
      BY <2>4, HandlerTypes DEF WriteRelay, WriteBypass, WriteManagedFile, Open, SaveFails
    <2>5. CASE Flush(h)
      <3>1. at[h] \in {"strip", "bypass", "saved"}
        BY <2>5, FlushFacts
      <3>2. IF at[h] = "saved" THEN Saved(h) ELSE UNCHANGED at
        BY <2>5, FlushFacts
      <3>3. CASE at[h] = "saved"
        BY <3>2, <3>3, HandlerTypes DEF Saved
      <3>4. CASE at[h] # "saved"
        BY <3>1, <3>2, <3>4
      <3> QED BY <3>3, <3>4
    <2>6. CASE Reload(h)
      BY <2>6 DEF Reload, LoadDomains, Present
    <2> QED BY <1>2, <2>1, <2>2, <2>3, <2>4, <2>5, <2>6 DEF HandlerStep, DomainStep
  <1> QED BY <1>1, <1>2 DEF DnsNext, HandlerStep

\* When no request is under way, dnsmasq runs with the rules on disk, however the saves
\* have raced, unless a save or a reload has failed and none has succeeded since.
THEOREM RunningCorrect == DnsSpec => []RunningFollowsFiles
  <1> DEFINE RInv == DnsTypeInv /\ RunningFollowsFiles
  <1>1. DnsInit => RInv
    BY DnsInitType DEF DnsInit, RunningFollowsFiles
  <1>2. RInv /\ [DnsNext]_dnsVars => RInv'
    BY DnsStepType, RunningStep
  <1> QED BY <1>1, <1>2, PTL DEF DnsSpec

------------------------------------------------------------------------------
(* The administrator's directives *)

\* A handler that has a file open is saving.
LEMMA OpenSaves ==
  ASSUME DnsTypeInv, NEW h \in Handlers, out[h] # Closed
  PROVE  Saving(h)
  BY HandlerTypes DEF HandlerType, HandlerOK, Saving

\* What the other handlers have stays.
LEMMA OthersKeep ==
  ASSUME DnsTypeInv, NEW h \in Handlers, HandlerStep(h), NEW g \in Handlers, g # h
  PROVE  /\ at'[g] = at[g] /\ asked'[g] = asked[g] /\ list'[g] = list[g]
         /\ paths'[g] = paths[g] /\ todo'[g] = todo[g] /\ out'[g] = out[g]
  BY HandlerFrame, HandlerTypes

\* A save begins only in BeginDomain, and a second one marks the overlap.
LEMMA SaverFacts ==
  ASSUME DnsTypeInv, NEW h \in Handlers, HandlerStep(h)
  PROVE  /\ clobbered' = FALSE => clobbered = FALSE
         /\ Saving(h)' => \/ Saving(h)
                          \/ /\ \E q \in DomainRequests : BeginDomain(h, q)
                             /\ UNCHANGED <<conf, out>>
                             /\ clobbered' = FALSE => \A g \in Handlers \ {h} : ~Saving(g)
  <1>0. clobbered \in BOOLEAN /\ clobbered' \in BOOLEAN
    BY DnsStepType DEF DnsNext, HandlerStep, DnsTypeInv
  <1>1. clobbered' = FALSE => clobbered = FALSE
    BY <1>0 DEF HandlerStep, DomainStep, BeginDomain, BeginReload, StartSave, Strip, WriteRelay,
                WriteBypass, WriteManagedFile, Flush, Reload
  <1>2. ASSUME NEW q \in DomainRequests, BeginDomain(h, q), Saving(h)', clobbered' = FALSE
        PROVE  \A g \in Handlers \ {h} : ~Saving(g)
    <2>1. at[h] = "idle" /\ at' # at
      BY <1>2 DEF BeginDomain, Saving
    <2> QED BY <1>2, <2>1 DEF BeginDomain, handlerVars
  <1>3. ASSUME NEW q \in DomainRequests, BeginDomain(h, q)
        PROVE  UNCHANGED <<conf, out>>
    BY <1>3 DEF BeginDomain, handlerVars
  <1>4. BeginReload(h) \/ Reload(h) => ~Saving(h)'
    BY HandlerTypes DEF BeginReload, Reload, Answer, Saving
  <1>5. StartSave(h) \/ Strip(h) \/ WriteRelay(h) \/ WriteBypass(h) \/ Flush(h) => Saving(h)
    BY HandlerTypes DEF StartSave, Strip, WriteRelay, WriteBypass, Flush, Saving, HandlerType,
                        HandlerOK
  <1> QED BY <1>1, <1>2, <1>3, <1>4, <1>5 DEF HandlerStep, DomainStep

\* What a step of the only saver makes of the directives: the file it opens loses them to
\* the text, the file it writes gets them from the text.
LEMMA DirectivesMove ==
  ASSUME DnsTypeInv, NEW h \in Handlers, HandlerStep(h), clobbered' = FALSE
  PROVE  \/ UNCHANGED <<conf>> /\ out'[h] = out[h]
         \/ /\ out[h] = Closed
            /\ out'[h] # Closed
            /\ out'[h].file \in ConfFiles
            /\ conf' = [conf EXCEPT ![out'[h].file] = Empty]
            /\ out'[h].text.other = StripManagedLines(conf[out'[h].file]).other
         \/ /\ out[h] # Closed
            /\ out[h].file \in ConfFiles
            /\ out'[h] = Closed
            /\ \E t \in Texts : /\ t.other = out[h].text.other
                                /\ conf' = [conf EXCEPT ![out[h].file] = t]
  <1>0. SharedType /\ HandlerType(h)
    BY HandlerTypes
  <1> DEFINE Opened(f, text) == /\ out[h] = Closed
                                /\ out'[h] # Closed
                                /\ out'[h].file = f
                                /\ conf' = [conf EXCEPT ![f] = Empty]
                                /\ out'[h].text = text
             Kept == UNCHANGED <<conf>> /\ out'[h] = out[h]
  <1>1. ASSUME NEW f \in ConfFiles, NEW text \in Texts, NEW next, Open(h, f, text, next),
               out[h] = Closed
        PROVE  Opened(f, text) \/ Kept
    <2>1. CASE Answer(h) /\ UNCHANGED conf
      BY <1>1, <2>1, AnswerFacts
    <2>2. CASE ~(Answer(h) /\ UNCHANGED conf)
      <3>1. conf' = [conf EXCEPT ![f] = Empty] /\ out'[h] = [file |-> f, text |-> text]
            /\ out'[h] # Closed
        BY <1>1, <2>2, OpenFacts
      <3>2. out'[h].file = f /\ out'[h].text = text
        BY <3>1
      <3> QED BY <1>1, <3>1, <3>2
    <2> QED BY <2>1, <2>2
  <1>2. ASSUME NEW q \in DomainRequests, BeginDomain(h, q) PROVE Kept
    BY <1>2 DEF BeginDomain, handlerVars
  <1>3. CASE BeginReload(h) \/ StartSave(h)
    BY <1>3 DEF BeginReload, StartSave
  <1>4. CASE Reload(h)
    <2>1. out[h] = Closed
      BY <1>0, <1>4 DEF Reload, HandlerType, HandlerOK
    <2> QED BY <1>4, <2>1, AnswerFacts DEF Reload
  <1>5. CASE Strip(h)
    <2>1. CASE UNCHANGED <<conf, out>>
      BY <2>1
    <2>2. CASE ~UNCHANGED <<conf, out>>
      <3>1. PICK f \in todo[h] : Open(h, f, StripManagedLines(conf[f]), "strip")
        BY <1>5, <2>2 DEF Strip
      <3>2. f \in ConfFiles /\ out[h] = Closed
        BY <1>0, <1>5 DEF HandlerType, Strip
      <3>3. StripManagedLines(conf[f]) \in Texts
        BY <1>0, <3>2, TextFacts DEF SharedType
      <3>4. Opened(f, StripManagedLines(conf[f])) \/ Kept
        BY <1>1, <3>1, <3>2, <3>3
      <3> QED BY <3>2, <3>4
    <2> QED BY <2>1, <2>2
  <1>6. ASSUME NEW f \in ConfFiles, NEW mode, NEW next, WriteManagedFile(h, f, mode, next)
        PROVE  Kept \/ \E text : /\ Opened(f, text)
                                 /\ text.other = StripManagedLines(conf[f]).other
    <2>1. PICK kept \in Texts :
             /\ [kept EXCEPT !.rules = Of(list[h], mode)] \in Texts
             /\ Open(h, f, [kept EXCEPT !.rules = Of(list[h], mode)], next)
             /\ clobbered' = (clobbered \/ kept # StripManagedLines(conf[f]))
      BY <1>6, ManagedFacts
    <2>2. kept = StripManagedLines(conf[f])
      BY <2>1
    <2>3. out[h] = Closed
      BY <1>6 DEF WriteManagedFile
    <2>4. [kept EXCEPT !.rules = Of(list[h], mode)].other = kept.other
      BY TextFacts DEF Texts
    <2>5. Opened(f, [kept EXCEPT !.rules = Of(list[h], mode)]) \/ Kept
      BY <1>1, <2>1, <2>3
    <2> HIDE DEF Opened, Kept
    <2> QED BY <2>2, <2>4, <2>5
  <1>7. CASE WriteRelay(h) \/ WriteBypass(h)
    <2>1. PICK f \in ConfFiles, next \in {"bypass", "saved"}, mode \in {"relay", "bypass"} :
            WriteManagedFile(h, f, mode, next)
      BY <1>0, <1>7 DEF WriteRelay, WriteBypass, HandlerType, HandlerOK
    <2> QED BY <1>6, <2>1
  <1>8. CASE Flush(h)
    <2>1. \E t \in Texts : /\ t.other = out[h].text.other
                           /\ conf' = [conf EXCEPT ![out[h].file] = t]
      BY <1>8, FlushFacts
    <2>2. out[h] # Closed /\ out[h].file \in ConfFiles /\ out[h].text \in Texts /\ out'[h] = Closed
      BY <1>8, FlushFacts, AnswerFacts
    <2> QED BY <2>1, <2>2
  <1> QED BY <1>2, <1>3, <1>4, <1>5, <1>7, <1>8 DEF HandlerStep, DomainStep

\* The same after a step.
LEMMA OpenSavesNext ==
  ASSUME DnsTypeInv', NEW h \in Handlers, out'[h] # Closed
  PROVE  Saving(h)'
  BY DEF DnsTypeInv, HandlerOK, Saving

\* Every step keeps the directives where they are, or moves them between file and text.
LEMMA DirectivesStep ==
  ASSUME DnsTypeInv, DirectivesOK, [DnsNext]_dnsVars
  PROVE  DirectivesOK'
  <1>1. CASE UNCHANGED dnsVars
    BY <1>1 DEF DirectivesOK, Saving, dnsVars, handlerVars
  <1>2. ASSUME NEW h \in Handlers, HandlerStep(h) PROVE DirectivesOK'
    <2>0. clobbered' \in BOOLEAN /\ DnsTypeInv'
      BY <1>2, DnsStepType DEF DnsNext, HandlerStep, DnsTypeInv
    <2> SUFFICES ASSUME clobbered' = FALSE PROVE DirectivesOK'
      BY <2>0 DEF DirectivesOK
    <2>1. clobbered = FALSE /\ foreign' = foreign
      BY <1>2, SaverFacts, HandlerFrame
    <2>2. /\ \A g, k \in Handlers : Saving(g) /\ Saving(k) => g = k
          /\ \A g \in Handlers : out[g] # Closed => conf[out[g].file].other = FALSE
          /\ \A f \in foreign :
               \/ conf[f] # NoFile /\ conf[f].other
               \/ \E g \in Handlers : out[g] # Closed /\ out[g].file = f /\ out[g].text.other
      BY <2>1, Zenon DEF DirectivesOK
    <2>3. \A g \in Handlers \ {h} : (Saving(g)' <=> Saving(g)) /\ out'[g] = out[g]
      BY <1>2, OthersKeep DEF Saving
    <2>4. \A g, k \in Handlers : Saving(g)' /\ Saving(k)' => g = k
      <3>1. Saving(h)' => \A g \in Handlers \ {h} : ~Saving(g)
        BY <1>2, <2>2, SaverFacts
      <3> QED BY <2>2, <2>3, <3>1
    <2>5. \A f \in foreign : f \in ConfFiles
      BY HandlerTypes DEF SharedType
    <2> DEFINE Have(f) == conf[f] # NoFile /\ conf[f].other
               Hold(g, f) == out[g] # Closed /\ out[g].file = f /\ out[g].text.other
    <2>6. SUFFICES /\ \A g \in Handlers : out'[g] # Closed => conf'[out'[g].file].other = FALSE
                   /\ \A f \in foreign : Have(f)' \/ \E g \in Handlers : Hold(g, f)'
      BY <2>1, <2>4 DEF DirectivesOK
    <2>7. CASE UNCHANGED <<conf>> /\ out'[h] = out[h]
      <3>1. \A g \in Handlers : out'[g] = out[g]
        BY <2>3, <2>7
      <3> QED BY <2>2, <2>7, <3>1
    <2>8. CASE ~(UNCHANGED <<conf>> /\ out'[h] = out[h]) /\ out[h] = Closed
      <3>0. PICK o : o = out'[h].file
        OBVIOUS
      <3>1. /\ out'[h] # Closed /\ o \in ConfFiles
            /\ conf' = [conf EXCEPT ![o] = Empty]
            /\ out'[h].text.other = StripManagedLines(conf[o]).other
        BY <1>2, <2>8, <3>0, DirectivesMove
      <3>2. \A g \in Handlers \ {h} : out[g] = Closed /\ out'[g] = Closed
        BY <2>0, <2>3, <2>4, <3>1, OpenSavesNext
      <3>3. conf'[o].other = FALSE /\ \A f \in ConfFiles \ {o} : conf'[f] = conf[f]
        BY <3>1, TextFacts, HandlerTypes DEF SharedType
      <3>4. \A f \in foreign : Have(f)
        BY <2>2, <2>8, <3>2
      <3>5. o \in foreign => Hold(h, o)'
        <4>1. SUFFICES ASSUME o \in foreign PROVE out'[h].text.other
          BY <3>0, <3>1
        <4>2. conf[o] \in Texts \cup {NoFile}
          BY <3>1, HandlerTypes DEF SharedType
        <4> QED BY <3>1, <3>4, <4>1, <4>2, TextFacts
      <3> QED BY <2>5, <3>0, <3>2, <3>3, <3>4, <3>5
    <2>9. CASE ~(UNCHANGED <<conf>> /\ out'[h] = out[h]) /\ out[h] # Closed
      <3> DEFINE o == out[h].file
      <3>1. o \in ConfFiles /\ out'[h] = Closed
        BY <1>2, <2>9, DirectivesMove
      <3>2. PICK t \in Texts : t.other = out[h].text.other /\ conf' = [conf EXCEPT ![o] = t]
        BY <1>2, <2>9, DirectivesMove
      <3>3. \A g \in Handlers \ {h} : out[g] = Closed /\ out'[g] = Closed
        BY <2>2, <2>3, <2>9, OpenSaves
      <3>4. conf'[o] = t /\ t # NoFile /\ \A f \in ConfFiles \ {o} : conf'[f] = conf[f]
        BY <3>1, <3>2, TextFacts, HandlerTypes DEF SharedType
      <3>5. \A f \in foreign : Have(f) \/ Hold(h, f)
        BY <2>2, <3>3
      <3>6. o \in foreign => t.other
        BY <2>2, <2>9, <3>2, <3>5
      <3>7. \A f \in foreign : Have(f)'
        BY <2>5, <3>4, <3>5, <3>6
      <3> QED BY <3>1, <3>3, <3>7
    <2> QED BY <2>7, <2>8, <2>9
  <1> QED BY <1>1, <1>2 DEF DnsNext, HandlerStep

\* A file that had directives of the administrator at first has them whenever no request
\* is under way, unless saves overlapped or a file was left half written or misread.
THEOREM DirectivesCorrect == DnsSpec => []DirectivesPreserved
  <1> DEFINE DInv == DnsTypeInv /\ DirectivesOK
  <1>1. DnsInit => DInv
    <2> SUFFICES ASSUME DnsInit PROVE DInv
      OBVIOUS
    <2>1. /\ \A h \in Handlers : at[h] = "idle" /\ out[h] = Closed
          /\ \A f \in foreign : conf[f] # NoFile /\ conf[f].other
      BY DEF DnsInit, Present
    <2> QED BY <2>1, DnsInitType DEF DirectivesOK, Saving
  <1>2. DInv /\ [DnsNext]_dnsVars => DInv'
    BY DnsStepType, DirectivesStep
  <1>3. DInv => DirectivesPreserved
    <2> SUFFICES ASSUME DInv, DnsQuiet, ~clobbered, NEW f \in foreign
                 PROVE  conf[f] # NoFile /\ conf[f].other
      BY DEF DirectivesPreserved
    <2>1. \A h \in Handlers : out[h] = Closed
      BY OpenSaves DEF DnsQuiet, Saving
    <2> QED BY <2>1 DEF DirectivesOK
  <1> QED BY <1>1, <1>2, <1>3, PTL DEF DnsSpec

------------------------------------------------------------------------------
(* What a request makes of the rules *)

\* A list of rules in which bypass wins is the one that gives each domain its mode.
LEMMA ModesOf ==
  ASSUME NEW rules \in SUBSET Rules, NEW v \in [Patterns -> {"relay", "bypass", "none"}],
         \A p \in Patterns :
           /\ v[p] = "bypass" <=> [pattern |-> p, mode |-> "bypass"] \in rules
           /\ v[p] = "relay" <=> /\ [pattern |-> p, mode |-> "relay"] \in rules
                                 /\ [pattern |-> p, mode |-> "bypass"] \notin rules
  PROVE  BypassWins(rules) = RulesFor(v)
  <1>1. ASSUME NEW x \in Rules PROVE x \in BypassWins(rules) <=> x \in RulesFor(v)
    <2>1. /\ x.pattern \in Patterns /\ x.mode \in {"relay", "bypass"}
          /\ x = [pattern |-> x.pattern, mode |-> x.mode]
      BY RuleFacts
    <2>2. CASE x.mode = "relay"
      BY <2>1, <2>2 DEF BypassWins, RulesFor
    <2>3. CASE x.mode = "bypass"
      BY <2>1, <2>3 DEF BypassWins, RulesFor
    <2> QED BY <2>1, <2>2, <2>3
  <1>2. BypassWins(rules) \subseteq Rules /\ RulesFor(v) \subseteq Rules
    BY DEF BypassWins, RulesFor
  <1> QED BY <1>1, <1>2

\* The rules of a mode that the requests ask for.
LEMMA RulesForFacts ==
  ASSUME NEW w \in [Patterns -> {"relay", "bypass", "none"}]
  PROVE  /\ RulesFor(w) \subseteq Rules
         /\ \A p \in Patterns : \A m \in {"relay", "bypass"} :
              [pattern |-> p, mode |-> m] \in RulesFor(w) <=> w[p] = m
  BY RuleFacts DEF RulesFor

\* The list that a handler makes of the rules that were asked for is the list of the rules
\* that are asked for with its request; a PUT of the whole list needs no such start.
LEMMA EditedFor ==
  ASSUME NEW q \in DomainRequests, q.op \in {"create", "update"} => q.pattern # NoPattern,
         NEW w \in [Patterns -> {"relay", "bypass", "none"}], NEW rules \in SUBSET Rules,
         rules = RulesFor(w) \/ q.op = "replace"
  PROVE  BypassWins(Edited(q, rules)) = RulesFor(Intended(q, w))
  <1> DEFINE v == Intended(q, w)
             E == Edited(q, rules)
             D(p) == [pattern |-> p, mode |-> "bypass"]
             R(p) == [pattern |-> p, mode |-> "relay"]
  <1>1. E \in SUBSET Rules /\ v \in [Patterns -> {"relay", "bypass", "none"}]
    BY EditedType, IntendedType
  <1>2. ASSUME NEW p \in Patterns
        PROVE  /\ v[p] = "bypass" <=> D(p) \in E
               /\ v[p] = "relay" <=> R(p) \in E /\ D(p) \notin E
    <2>1. w[p] \in {"relay", "bypass", "none"}
      OBVIOUS
    <2>2. q.op # "replace" => (D(p) \in rules <=> w[p] = "bypass") /\ (R(p) \in rules <=> w[p] = "relay")
      BY RulesForFacts
    <2>3. p # NoPattern
      BY DnsmasqAssumption
    <2>4. CASE q.op = "create"
      <3>1. v[p] = IF (p = q.pattern /\ q.mode = "direct") \/ w[p] = "bypass" THEN "bypass"
                   ELSE IF p = q.pattern THEN "relay" ELSE w[p]
        BY <2>4, RequestFacts DEF Intended
      <3>2. E = rules \cup {[pattern |-> q.pattern, mode |-> NormalizeMode(q.mode)]}
        BY <2>4 DEF Edited, CreateDomain, Add
      <3>3. /\ D(p) \in E <=> D(p) \in rules \/ (p = q.pattern /\ q.mode = "direct")
            /\ R(p) \in E <=> R(p) \in rules \/ (p = q.pattern /\ q.mode = "relay")
        BY <2>4, <3>2, RequestFacts, ModeFacts
      <3> HIDE DEF E, v, D, R
      <3> QED BY <2>1, <2>2, <2>4, <3>1, <3>3, RequestFacts
    <2>5. CASE q.op = "update"
      <3> DEFINE b == IF p = q.old THEN "none" ELSE w[p]
      <3>1. v[p] = IF (p = q.pattern /\ q.mode = "direct") \/ b = "bypass" THEN "bypass"
                   ELSE IF p = q.pattern THEN "relay" ELSE b
        BY <2>5, RequestFacts DEF Intended
      <3>2. E = {x \in rules : x.pattern # q.old}
                  \cup {[pattern |-> q.pattern, mode |-> NormalizeMode(q.mode)]}
        BY <2>5 DEF Edited, UpdateDomain, Add
      <3>3. /\ D(p) \in E <=> (D(p) \in rules /\ p # q.old) \/ (p = q.pattern /\ q.mode = "direct")
            /\ R(p) \in E <=> (R(p) \in rules /\ p # q.old) \/ (p = q.pattern /\ q.mode = "relay")
        BY <2>5, <3>2, RequestFacts, ModeFacts
      <3> HIDE DEF E, v, D, R
      <3> QED BY <2>1, <2>2, <2>5, <3>1, <3>3, RequestFacts
    <2>6. CASE q.op = "delete"
      <3>1. v[p] = IF p = q.pattern THEN "none" ELSE w[p]
        BY <2>1, <2>6 DEF Intended
      <3> DEFINE rest == {x \in rules : ~(x.pattern = q.pattern /\ x.mode = NormalizeMode(q.mode))}
      <3>2. E = IF rest = rules THEN {x \in rules : x.pattern # q.pattern} ELSE rest
        BY <2>6 DEF Edited, DeleteDomain
      <3>3. rules = RulesFor(w)
        BY <2>6
      <3>4. \A x \in rules : w[x.pattern] = x.mode
        BY <3>3 DEF RulesFor
      <3>5. E = {x \in rules : x.pattern # q.pattern}
        <4>1. CASE rest = rules
          BY <3>2, <4>1
        <4>2. CASE rest # rules
          <5>1. PICK y \in rules : y.pattern = q.pattern /\ y.mode = NormalizeMode(q.mode)
            BY <4>2
          <5>2. \A x \in rules : x.pattern = q.pattern => x.mode = NormalizeMode(q.mode)
            BY <3>4, <5>1
          <5> QED BY <3>2, <4>2, <5>2
        <4> QED BY <4>1, <4>2
      <3>6. /\ D(p) \in E <=> D(p) \in rules /\ p # q.pattern
            /\ R(p) \in E <=> R(p) \in rules /\ p # q.pattern
        BY <3>5
      <3> HIDE DEF E, v, D, R
      <3> QED BY <2>1, <2>2, <2>6, <3>1, <3>6
    <2>7. CASE q.op = "replace"
      <3>1. v[p] = IF \E x \in q.list : x.pattern = p /\ x.mode \in {"bypass", "direct"} THEN "bypass"
                   ELSE IF \E x \in q.list : x.pattern = p THEN "relay" ELSE "none"
        BY <2>7 DEF Intended
      <3>2. E = {[pattern |-> x.pattern, mode |-> NormalizeMode(x.mode)] :
                   x \in {y \in q.list : y.pattern # NoPattern}}
        BY <2>7 DEF Edited, ReplaceDomains
      <3>3. /\ D(p) \in E <=> \E x \in q.list : x.pattern = p /\ NormalizeMode(x.mode) = "bypass"
            /\ R(p) \in E <=> \E x \in q.list : x.pattern = p /\ NormalizeMode(x.mode) = "relay"
        BY <2>3, <3>2
      <3>4. \A m : /\ NormalizeMode(m) = "bypass" <=> m \in {"bypass", "direct"}
                   /\ NormalizeMode(m) = "relay" <=> m \notin {"bypass", "direct"}
        BY DEF NormalizeMode
      <3> HIDE DEF E, v, D, R
      <3> QED BY <3>1, <3>3, <3>4
    <2>8. CASE q.op = "import"
      <3> DEFINE by == \E l \in q.lines : /\ l.pattern = p
                                          /\ l.kind = "server" \/ (l.kind = "bare" /\ q.mode = "direct")
      <3>1. v[p] = IF by \/ w[p] = "bypass" THEN "bypass"
                   ELSE IF \E l \in q.lines : l.pattern = p THEN "relay" ELSE w[p]
        BY <2>8, RequestFacts DEF Intended
      <3>2. E = rules \cup {[pattern |-> l.pattern, mode |-> LineMode(l, q.mode)] :
                              l \in {k \in q.lines : k.pattern # NoPattern}}
        BY <2>8 DEF Edited, ImportDomains
      <3>3. /\ D(p) \in E <=> \/ D(p) \in rules
                              \/ \E l \in q.lines : l.pattern = p /\ LineMode(l, q.mode) = "bypass"
            /\ R(p) \in E <=> \/ R(p) \in rules
                              \/ \E l \in q.lines : l.pattern = p /\ LineMode(l, q.mode) = "relay"
        BY <2>3, <3>2
      <3>4. \A l \in q.lines :
              /\ LineMode(l, q.mode) \in {"relay", "bypass"}
              /\ LineMode(l, q.mode) = "bypass" <=>
                   l.kind = "server" \/ (l.kind = "bare" /\ q.mode = "direct")
        <4>1. q.lines \in Imports /\ q.mode \in {"relay", "direct"}
          BY <2>8, RequestFacts
        <4>2. \A l \in q.lines : l.kind \in {"address", "server", "bare"}
          BY <4>1, DnsmasqAssumption
        <4> QED BY <4>1, <4>2 DEF LineMode, NormalizeMode
      <3> HIDE DEF E, v, D, R
      <3> QED BY <2>1, <2>2, <2>8, <3>1, <3>3, <3>4
    <2>9. CASE q.op = "apply"
      <3>1. v[p] = w[p] /\ E = rules
        BY <2>1, <2>9 DEF Intended, Edited
      <3> QED BY <2>1, <2>2, <2>9, <3>1
    <2> QED BY <2>4, <2>5, <2>6, <2>7, <2>8, <2>9, RequestFacts
  <1> HIDE DEF E, v
  <1>3. BypassWins(E) = RulesFor(v)
    BY <1>1, <1>2, ModesOf
  <1> QED BY <1>3 DEF E, v

------------------------------------------------------------------------------
(* The rules follow the requests *)

\* The two files are configured, as two files.
TwoFiles == RelayFile # NoFile /\ BypassFile # NoFile /\ RelayFile # BypassFile

\* A state that promises nothing: a save is damaged, and so is every one under way.
LEMMA NothingPromised ==
  ASSUME damaged' = TRUE, \A x \in Handlers : Saving(x)' => x \in crossed'
  PROVE  RequestsOK'
  BY DEF RequestsOK

\* A save that only one handler makes goes on.
LEMMA SaveGoesOn ==
  ASSUME RequestsOK, NEW h \in Handlers, Saving(h), h \notin crossed,
         \A g \in Handlers \ {h} : ~Saving(g)',
         Saving(h)', SaveState(h)',
         asked'[h] = asked[h], list'[h] = list[h], UNCHANGED <<wanted, damaged, crossed>>
  PROVE  RequestsOK'
  <1>1. ~damaged' => list'[h] = RulesFor(Intended(asked'[h], wanted'))
    BY DEF RequestsOK
  <1>2. ~damaged' => \A x \in Handlers : Saving(x)' =>
          x \notin crossed' /\ list'[x] = RulesFor(Intended(asked'[x], wanted'))
    BY <1>1
  <1>3. \A x \in Handlers : Saving(x)' /\ x \notin crossed' => SaveState(x)'
    OBVIOUS
  <1>4. ~ \A x \in Handlers : ~Saving(x)'
    OBVIOUS
  <1> QED BY <1>2, <1>3, <1>4, Zenon DEF RequestsOK

\* While another save is under way, a step of a save leaves both marked.
LEMMA SavesCross ==
  ASSUME DnsTypeInv, RequestsOK, NEW h \in Handlers, Saving(h), DomainStep(h),
         (\E g \in Handlers \ {h} : Saving(g)) \/ h \in crossed
  PROVE  RequestsOK'
  <1>0. h \in crossed /\ \A g \in Handlers : Saving(g) => g \in crossed
    <2>1. ASSUME h \notin crossed PROVE FALSE
      BY <2>1 DEF RequestsOK, SaveState
    <2>2. \A g \in Handlers \ {h} : Saving(g) => g \in crossed
      BY DEF RequestsOK, SaveState
    <2> QED BY <2>1, <2>2
  <1>1. damaged = TRUE
    <2>1. damaged \in BOOLEAN
      BY HandlerTypes DEF SharedType
    <2> QED BY <1>0, <2>1 DEF RequestsOK
  <1>2. \A g \in Handlers \ {h} : Saving(g)' <=> Saving(g)
    BY OthersKeep DEF Saving, HandlerStep
  <1>3. ~Reload(h)
    BY DEF Reload, Saving
  <1>4. crossed \subseteq crossed'
    BY <1>3 DEF DomainStep, StartSave, Strip, WriteRelay, WriteBypass, WriteManagedFile, Flush
  <1>5. damaged' = TRUE
    <2>1. CASE StartSave(h)
      BY <1>1, <2>1 DEF StartSave
    <2>2. CASE Strip(h)
      BY <1>1, <2>2 DEF Strip, Open, SaveFails
    <2>3. CASE WriteRelay(h) \/ WriteBypass(h)
      BY <1>1, <2>3 DEF WriteRelay, WriteBypass, WriteManagedFile, Open, SaveFails
    <2>4. CASE Flush(h)
      BY <1>0, <1>1, <2>4 DEF Flush, Saved, SaveFails
    <2> QED BY <1>3, <2>1, <2>2, <2>3, <2>4 DEF DomainStep
  <1>6. \A x \in Handlers : Saving(x)' => x \in crossed'
    BY <1>0, <1>2, <1>4
  <1> QED BY <1>5, <1>6, NothingPromised

\* Steps that save nothing.
LEMMA QuietSteps ==
  ASSUME DnsTypeInv, RequestsOK, NEW h \in Handlers, HandlerStep(h), ~Saving(h), ~Saving(h)',
         UNCHANGED <<conf, wanted, crossed, damaged>>
  PROVE  RequestsOK'
  <1>1. \A g \in Handlers \ {h} : /\ at'[g] = at[g] /\ asked'[g] = asked[g] /\ list'[g] = list[g]
                                  /\ paths'[g] = paths[g] /\ todo'[g] = todo[g] /\ out'[g] = out[g]
    BY OthersKeep
  <1>2. \A g \in Handlers : Saving(g)' <=> Saving(g)
    BY <1>1 DEF Saving
  <1>3. LoadDomains' = LoadDomains /\ \A f : RulesIn(f)' = RulesIn(f)
    BY DEF LoadDomains, Present, RulesIn
  <1>4. ASSUME NEW g \in Handlers, Saving(g)', g \notin crossed' PROVE SaveState(g)'
    <2>1. g # h /\ Saving(g) /\ SaveState(g)
      BY <1>2, <1>4 DEF RequestsOK
    <2> QED BY <1>1, <1>2, <1>3, <2>1 DEF SaveState
  <1>5. ASSUME ~damaged', NEW g \in Handlers, Saving(g)'
        PROVE  g \notin crossed' /\ list'[g] = RulesFor(Intended(asked'[g], wanted'))
    <2>1. g # h /\ Saving(g)
      BY <1>2, <1>5
    <2> QED BY <1>1, <1>5, <2>1 DEF RequestsOK
  <1>6. ASSUME ~damaged', \A g \in Handlers : ~Saving(g)' PROVE LoadDomains' = RulesFor(wanted')
    BY <1>2, <1>3, <1>6 DEF RequestsOK
  <1> QED BY <1>4, <1>5, <1>6 DEF RequestsOK

\* A request that begins a save.
LEMMA BeginStep ==
  ASSUME DnsTypeInv, RequestsOK, NEW h \in Handlers, NEW q \in DomainRequests, BeginDomain(h, q)
  PROVE  RequestsOK'
  <1> DEFINE others == {x \in Handlers \ {h} : Saving(x)}
  <1>0. SharedType /\ HandlerType(h) /\ at[h] = "idle" /\ ~Saving(h) /\ HandlerStep(h)
    BY HandlerTypes DEF BeginDomain, Saving, HandlerStep
  <1>1. UNCHANGED <<conf, wanted>>
    BY DEF BeginDomain
  <1>2. CASE UNCHANGED <<handlerVars, crossed, damaged, clobbered>>
    <2>1. ~Saving(h)'
      BY <1>0, <1>2 DEF handlerVars, Saving
    <2> QED BY <1>0, <1>1, <1>2, <2>1, QuietSteps
  <1>3. CASE ~UNCHANGED <<handlerVars, crossed, damaged, clobbered>>
    <2>1. /\ q.op \in {"create", "update"} => q.pattern # NoPattern
          /\ asked' = [asked EXCEPT ![h] = q]
          /\ list' = [list EXCEPT ![h] = BypassWins(Edited(q, LoadDomains))]
          /\ at' = [at EXCEPT ![h] = "save"]
          /\ crossed' = IF others = {} THEN crossed \ {h} ELSE crossed \cup others \cup {h}
          /\ damaged' = (damaged \/ others # {})
          /\ UNCHANGED <<paths, todo, out>>
      BY <1>3, Zenon DEF BeginDomain
    <2>2. /\ asked'[h] = q /\ list'[h] = BypassWins(Edited(q, LoadDomains)) /\ at'[h] = "save"
          /\ \A g \in Handlers \ {h} : Saving(g)' <=> Saving(g)
      BY <1>0, <2>1, HandlerTypes, OthersKeep DEF Saving
    <2>3. CASE others # {}
      <3>1. \A x \in Handlers : Saving(x)' => x \in crossed'
        BY <2>1, <2>2, <2>3
      <3>2. damaged' = TRUE
        BY <2>1, <2>3
      <3> QED BY <3>1, <3>2, NothingPromised
    <2>4. CASE others = {}
      <3>1. \A g \in Handlers : ~Saving(g)
        BY <1>0, <2>4
      <3>2. \A g \in Handlers : Saving(g)' <=> g = h
        BY <2>2, <3>1 DEF Saving
      <3>3. out'[h] = Closed
        BY <1>0, <2>1 DEF HandlerType, HandlerOK
      <3>4. q.op = "replace" => list'[h] = BypassWins(ReplaceDomains(q))
        BY <2>2 DEF Edited
      <3>5. SaveState(h)'
        BY <2>2, <3>2, <3>3, <3>4 DEF SaveState
      <3>6. h \notin crossed' /\ damaged' = damaged
        <4>1. damaged \in BOOLEAN
          BY <1>0 DEF SharedType
        <4> QED BY <2>1, <2>4, <4>1
      <3>7. ~damaged' => list'[h] = RulesFor(Intended(asked'[h], wanted'))
        <4> SUFFICES ASSUME ~damaged' PROVE list'[h] = RulesFor(Intended(q, wanted))
          BY <1>1, <2>2
        <4>1. LoadDomains = RulesFor(wanted)
          BY <3>1, <3>6 DEF RequestsOK
        <4>2. LoadDomains \in SUBSET Rules /\ wanted \in [Patterns -> {"relay", "bypass", "none"}]
          BY <1>0, LoadFacts DEF SharedType
        <4> QED BY <2>1, <2>2, <4>1, <4>2, EditedFor
      <3>8. ~ \A g \in Handlers : ~Saving(g)'
        BY <3>2
      <3>9. \A g \in Handlers : Saving(g)' /\ g \notin crossed' => SaveState(g)'
        BY <3>2, <3>5
      <3>10. ~damaged' => \A g \in Handlers : Saving(g)' =>
               g \notin crossed' /\ list'[g] = RulesFor(Intended(asked'[g], wanted'))
        BY <3>2, <3>6, <3>7
      <3> QED BY <3>8, <3>9, <3>10, Zenon DEF RequestsOK
    <2> QED BY <2>3, <2>4
  <1> QED BY <1>2, <1>3

\* One file gets a text.
LEMMA FileSet ==
  ASSUME DnsTypeInv, NEW f \in ConfFiles, NEW t \in Texts, conf' = [conf EXCEPT ![f] = t]
  PROVE  /\ conf'[f] = t /\ RulesIn(f)' = t.rules
         /\ \A g \in ConfFiles \ {f} : conf'[g] = conf[g] /\ RulesIn(g)' = RulesIn(g)
  BY TextFacts, HandlerTypes DEF SharedType, RulesIn

\* The rules of the relay and the bypass file are all rules of a list.
LEMMA BothModes ==
  ASSUME NEW rules \in SUBSET Rules
  PROVE  Of(rules, "relay") \cup Of(rules, "bypass") = rules
  BY RuleFacts DEF Of

\* A handler whose save is the only one and has left nothing out.
Alone(h) == /\ DnsTypeInv /\ RequestsOK
            /\ h \in Handlers /\ Saving(h) /\ h \notin crossed
            /\ \A g \in Handlers \ {h} : ~Saving(g)

\* It stays the only one, and what it has done so far is done.
LEMMA AloneFacts ==
  ASSUME NEW h \in Handlers, Alone(h), HandlerStep(h)
  PROVE  /\ SharedType /\ HandlerType(h) /\ SaveState(h)
         /\ \A g \in Handlers \ {h} : ~Saving(g)'
         /\ \A g \in Handlers : Saving(g)' => g = h
  <1>1. SharedType /\ HandlerType(h) /\ SaveState(h)
    BY HandlerTypes DEF Alone, RequestsOK
  <1>2. \A g \in Handlers \ {h} : ~Saving(g)'
    BY OthersKeep DEF Alone, Saving
  <1> QED BY <1>1, <1>2

\* A save that fails promises nothing.
LEMMA AloneFails ==
  ASSUME NEW h \in Handlers, Alone(h), HandlerStep(h), Answer(h), damaged' = TRUE
  PROVE  RequestsOK'
  <1>1. ~Saving(h)'
    BY AnswerFacts DEF Alone, Saving
  <1> QED BY <1>1, AloneFacts, NothingPromised

\* The files are found.
LEMMA AloneStarts ==
  ASSUME TwoFiles, NEW h \in Handlers, Alone(h), StartSave(h)
  PROVE  RequestsOK'
  <1>0. SharedType /\ HandlerType(h) /\ SaveState(h) /\ HandlerStep(h) /\ DnsTypeInv
    BY AloneFacts DEF HandlerStep, DomainStep, Alone
  <1>1. PICK p \in [relay : ConfFiles, bypass : ConfFiles] :
          /\ p.relay = RelayFile /\ p.bypass = BypassFile
          /\ paths' = [paths EXCEPT ![h] = p]
          /\ todo' = [todo EXCEPT ![h] = Present \ {p.relay, p.bypass}]
    BY PathFacts DEF StartSave, TwoFiles
  <1>2. p.relay = RelayFile /\ p.bypass = BypassFile
    BY <1>1
  <1>3. /\ paths'[h] = p /\ todo'[h] = Present \ {p.relay, p.bypass} /\ at'[h] = "strip"
        /\ UNCHANGED <<conf, asked, list, out, wanted, damaged, crossed>>
    BY <1>0, <1>1, HandlerTypes DEF StartSave
  <1>4. out[h] = Closed
    BY <1>0 DEF HandlerType, HandlerOK, StartSave
  <1>5. \A g \in ConfFiles : RulesIn(g)' # {} => g \in Present
    BY <1>3 DEF RulesIn, Present
  <1>6. SaveState(h)'
    BY <1>0, <1>2, <1>3, <1>4, <1>5, AloneFacts DEF SaveState, TwoFiles
  <1>7. Saving(h)'
    BY <1>3 DEF Saving
  <1> QED BY <1>0, <1>3, <1>6, <1>7, AloneFacts, SaveGoesOn DEF Alone

\* The other files are cleaned.
LEMMA AloneStrips ==
  ASSUME NEW h \in Handlers, Alone(h), Strip(h)
  PROVE  RequestsOK'
  <1>0. SharedType /\ HandlerType(h) /\ SaveState(h) /\ HandlerStep(h) /\ DnsTypeInv
    BY AloneFacts DEF HandlerStep, DomainStep, Alone
  <1> DEFINE r == paths[h].relay
             b == paths[h].bypass
  <1>1. /\ at[h] = "strip" /\ out[h] = Closed /\ wanted' = wanted
        /\ r # b /\ todo[h] \cap {r, b} = {}
        /\ \A g \in ConfFiles \ {r, b} : RulesIn(g) # {} => g \in todo[h]
        /\ asked[h].op = "replace" => list[h] = BypassWins(ReplaceDomains(asked[h]))
    BY <1>0 DEF Strip, SaveState
  <1>2. CASE todo[h] = {} /\ at' = [at EXCEPT ![h] = "relay"]
             /\ UNCHANGED <<conf, asked, list, paths, todo, out, crossed, damaged, stale>>
    <2>1. at'[h] = "relay" /\ \A f : RulesIn(f)' = RulesIn(f)
      BY <1>0, <1>2, HandlerTypes DEF RulesIn
    <2>2. SaveState(h)'
      BY <1>0, <1>1, <1>2, <2>1, AloneFacts DEF SaveState
    <2>3. Saving(h)'
      BY <2>1 DEF Saving
    <2> QED BY <1>0, <1>1, <1>2, <2>2, <2>3, AloneFacts, SaveGoesOn DEF Alone
  <1>3. ASSUME NEW f \in todo[h], todo' = [todo EXCEPT ![h] = @ \ {f}],
               damaged' = (damaged \/ conf[f].rules # {}),
               crossed' = IF conf[f].rules = {} THEN crossed ELSE crossed \cup {h},
               UNCHANGED <<conf, at, asked, list, paths, out, stale>>
        PROVE  RequestsOK'
    <2>1. CASE conf[f].rules = {}
      <3>1. RulesIn(f) = {} /\ todo'[h] = todo[h] \ {f} /\ \A g : RulesIn(g)' = RulesIn(g)
        BY <1>0, <1>3, <2>1, HandlerTypes DEF RulesIn
      <3>2. damaged' = damaged /\ crossed' = crossed
        <4>1. damaged \in BOOLEAN
          BY <1>0 DEF SharedType
        <4> QED BY <1>3, <2>1, <4>1
      <3>3. SaveState(h)'
        BY <1>0, <1>1, <1>3, <3>1, AloneFacts DEF SaveState
      <3>4. Saving(h)'
        BY <1>1, <1>3 DEF Saving
      <3> QED BY <1>0, <1>1, <1>3, <3>2, <3>3, <3>4, AloneFacts, SaveGoesOn DEF Alone
    <2>2. CASE conf[f].rules # {}
      BY <1>0, <1>3, <2>2, AloneFacts, NothingPromised
    <2> QED BY <2>1, <2>2
  <1>4. ASSUME NEW f \in todo[h],
               Open(h, f, StripManagedLines(conf[f]), "strip"),
               todo' = [todo EXCEPT ![h] = IF at'[h] = "idle" THEN {} ELSE @ \ {f}],
               UNCHANGED crossed
        PROVE  RequestsOK'
    <2>1. f \in ConfFiles /\ f \notin {r, b}
      BY <1>0, <1>1 DEF HandlerType
    <2>2. StripManagedLines(conf[f]) \in Texts /\ StripManagedLines(conf[f]).rules = {}
      BY <1>0, <2>1, TextFacts DEF SharedType
    <2>3. CASE Answer(h) /\ damaged' = TRUE
      BY <1>0, <2>3, AloneFails
    <2>4. CASE ~(Answer(h) /\ damaged' = TRUE)
      <3>1. /\ conf' = [conf EXCEPT ![f] = Empty]
            /\ out'[h] = [file |-> f, text |-> StripManagedLines(conf[f])]
            /\ at'[h] = "strip"
            /\ UNCHANGED <<asked, list, paths, damaged, stale>>
        BY <1>0, <1>4, <2>1, <2>2, <2>4, OpenFacts
      <3>2. out'[h].file = f /\ out'[h].text.rules = {}
        BY <2>2, <3>1
      <3>3. /\ conf'[f] = Empty /\ RulesIn(f)' = {}
            /\ \A g \in ConfFiles \ {f} : RulesIn(g)' = RulesIn(g)
        BY <1>0, <2>1, <3>1, FileSet, TextFacts
      <3>4. todo'[h] = todo[h] \ {f}
        BY <1>0, <1>4, <3>1, HandlerTypes
      <3>5. SaveState(h)'
        BY <1>0, <1>1, <2>1, <3>1, <3>2, <3>3, <3>4, AloneFacts DEF SaveState
      <3>6. Saving(h)'
        BY <3>1 DEF Saving
      <3> QED BY <1>0, <1>1, <1>4, <3>1, <3>5, <3>6, AloneFacts, SaveGoesOn DEF Alone
    <2> QED BY <2>3, <2>4
  <1> QED BY <1>2, <1>3, <1>4 DEF Strip

\* The relay file or the bypass file is opened.
LEMMA AloneWrites ==
  ASSUME NEW h \in Handlers, Alone(h), WriteRelay(h) \/ WriteBypass(h)
  PROVE  RequestsOK'
  <1>0. SharedType /\ HandlerType(h) /\ SaveState(h) /\ HandlerStep(h) /\ DnsTypeInv
    BY AloneFacts DEF HandlerStep, DomainStep, Alone
  <1> DEFINE r == paths[h].relay
             b == paths[h].bypass
  <1>1. /\ r \in ConfFiles /\ b \in ConfFiles /\ out[h] = Closed
        /\ at[h] \in {"relay", "bypass"} /\ UNCHANGED <<wanted, crossed>>
    BY <1>0 DEF WriteRelay, WriteBypass, WriteManagedFile, HandlerType, HandlerOK
  <1>2. /\ r # b /\ \A g \in ConfFiles \ {r, b} : RulesIn(g) = {}
        /\ at[h] = "bypass" => RulesIn(r) = Of(list[h], "relay")
        /\ asked[h].op = "replace" => list[h] = BypassWins(ReplaceDomains(asked[h]))
    BY <1>0, <1>1 DEF SaveState
  <1>3. ASSUME NEW f \in {r, b}, NEW mode, NEW next, WriteManagedFile(h, f, mode, next),
               \/ at[h] = "relay" /\ f = r /\ mode = "relay" /\ next = "bypass"
               \/ at[h] = "bypass" /\ f = b /\ mode = "bypass" /\ next = "saved"
        PROVE  RequestsOK'
    <2>1. PICK kept \in Texts :
            /\ [kept EXCEPT !.rules = Of(list[h], mode)] \in Texts
            /\ Open(h, f, [kept EXCEPT !.rules = Of(list[h], mode)], next)
            /\ todo'[h] = {}
      BY <1>0, <1>1, <1>3, ManagedFacts
    <2>2. CASE Answer(h) /\ damaged' = TRUE
      BY <1>0, <2>2, AloneFails
    <2>3. CASE ~(Answer(h) /\ damaged' = TRUE)
      <3>1. /\ conf' = [conf EXCEPT ![f] = Empty]
            /\ out'[h] = [file |-> f, text |-> [kept EXCEPT !.rules = Of(list[h], mode)]]
            /\ out'[h] # Closed
            /\ at'[h] = next
            /\ UNCHANGED <<asked, list, paths, damaged, stale>>
        BY <1>0, <1>1, <2>1, <2>3, OpenFacts
      <3>2. out'[h].file = f /\ out'[h].text.rules = Of(list[h], mode)
        BY <3>1 DEF Texts
      <3>3. /\ conf'[f] = Empty
            /\ \A g \in ConfFiles \ {f} : RulesIn(g)' = RulesIn(g)
        BY <1>0, <1>1, <3>1, FileSet, TextFacts
      <3>4. SaveState(h)'
        <4>1. CASE f = r /\ mode = "relay" /\ next = "bypass"
          BY <1>0, <1>1, <1>2, <2>1, <3>1, <3>2, <3>3, <4>1, AloneFacts DEF SaveState
        <4>2. CASE at[h] = "bypass" /\ f = b /\ mode = "bypass" /\ next = "saved"
          BY <1>0, <1>1, <1>2, <2>1, <3>1, <3>2, <3>3, <4>2, AloneFacts DEF SaveState
        <4> QED BY <1>3, <4>1, <4>2
      <3>5. Saving(h)'
        BY <1>3, <3>1 DEF Saving
      <3> QED BY <1>0, <1>1, <3>1, <3>4, <3>5, AloneFacts, SaveGoesOn DEF Alone
    <2> QED BY <2>2, <2>3
  <1> QED BY <1>3 DEF WriteRelay, WriteBypass

\* A text is written; with the last one the save is complete.
LEMMA AloneFlushes ==
  ASSUME NEW h \in Handlers, Alone(h), Flush(h)
  PROVE  RequestsOK'
  <1>0. SharedType /\ HandlerType(h) /\ SaveState(h) /\ HandlerStep(h) /\ DnsTypeInv
    BY AloneFacts DEF HandlerStep, DomainStep, Alone
  <1>f. PICK r, b, f : r = paths[h].relay /\ b = paths[h].bypass /\ f = out[h].file
    OBVIOUS
  <1>1. /\ out[h] # Closed /\ f \in ConfFiles /\ out[h].text \in Texts
        /\ at[h] \in {"strip", "bypass", "saved"} /\ crossed' = crossed
        /\ r \in ConfFiles /\ b \in ConfFiles
    BY <1>0, <1>f, FlushFacts DEF HandlerType, HandlerOK
  <1>2. /\ r # b /\ conf[f] = Empty
        /\ \A g \in ConfFiles \ {r, b} : RulesIn(g) # {} => at[h] = "strip" /\ g \in todo[h]
        /\ at[h] = "strip" => f \notin {r, b} /\ out[h].text.rules = {} /\ todo[h] \cap {r, b} = {}
        /\ at[h] = "bypass" => f = r /\ out[h].text.rules = Of(list[h], "relay")
        /\ at[h] = "saved" => f = b /\ out[h].text.rules = Of(list[h], "bypass")
        /\ at[h] = "saved" => RulesIn(r) = Of(list[h], "relay")
        /\ asked[h].op = "replace" => list[h] = BypassWins(ReplaceDomains(asked[h]))
    BY <1>0, <1>f, <1>1 DEF SaveState
  <1>3. CASE Answer(h) /\ damaged' = TRUE
    BY <1>0, <1>3, AloneFails
  <1>4. CASE ~(Answer(h) /\ damaged' = TRUE)
    <2>1. PICK t \in Texts :
            /\ conf' = [conf EXCEPT ![f] = t]
            /\ \/ t.rules = out[h].text.rules
               \/ t.rules = out[h].text.rules \cup conf[f].rules
      BY <1>0, <1>f, <1>4, FlushFacts
    <2>2. /\ out'[h] = Closed
          /\ IF at[h] = "saved" THEN Saved(h) ELSE UNCHANGED <<at, wanted, damaged>>
          /\ UNCHANGED <<asked, list, paths, todo, clobbered, stale>>
      BY <1>0, <1>4, FlushFacts
    <2>3. t.rules = out[h].text.rules
      BY <1>2, <2>1, TextFacts
    <2>4. /\ RulesIn(f)' = out[h].text.rules
          /\ \A g \in ConfFiles \ {f} : RulesIn(g)' = RulesIn(g)
      BY <1>0, <1>1, <2>1, <2>3, FileSet
    <2>5. CASE at[h] # "saved"
      <3>1. Saving(h)' /\ UNCHANGED <<at, wanted, damaged>>
        BY <1>1, <2>2, <2>5 DEF Saving
      <3>2. CASE at[h] = "strip"
        <4>1. SaveState(h)'
          BY <1>f, <1>1, <1>2, <2>2, <2>4, <3>1, <3>2, <1>0, AloneFacts DEF SaveState
        <4> QED BY <1>0, <1>1, <2>2, <3>1, <4>1, AloneFacts, SaveGoesOn DEF Alone
      <3>3. CASE at[h] = "bypass"
        <4>1. SaveState(h)'
          BY <1>f, <1>1, <1>2, <2>2, <2>4, <3>1, <3>3, <1>0, AloneFacts DEF SaveState
        <4> QED BY <1>0, <1>1, <2>2, <3>1, <4>1, AloneFacts, SaveGoesOn DEF Alone
      <3> QED BY <1>1, <2>5, <3>2, <3>3
    <2>6. CASE at[h] = "saved"
      <3>1. /\ at'[h] = "reload" /\ wanted' = Intended(asked[h], wanted)
            /\ damaged' = (damaged /\ ~(asked[h].op = "replace" /\ h \notin crossed))
        BY <1>0, <2>2, <2>6, HandlerTypes DEF Saved
      <3>2. \A g \in Handlers : ~Saving(g)'
        BY <1>0, <3>1, AloneFacts DEF Saving
      <3>3. LoadDomains' = list[h]
        <4>1. conf' \in [ConfFiles -> Texts \cup {NoFile}]
          BY <1>0, FlushType DEF SharedType
        <4>2. \A x : x \in LoadDomains' <=> \E g \in ConfFiles : x \in RulesIn(g)'
          BY <4>1, LoadFactsNext
        <4>3. /\ RulesIn(b)' = Of(list[h], "bypass") /\ RulesIn(r)' = Of(list[h], "relay")
              /\ \A g \in ConfFiles \ {r, b} : RulesIn(g)' = {}
          BY <1>1, <1>2, <2>4, <2>6
        <4>4. Of(list[h], "relay") \cup Of(list[h], "bypass") = list[h]
          BY <1>0, BothModes DEF HandlerType
        <4>5. \A x : (\E g \in ConfFiles : x \in RulesIn(g)')
                       <=> (x \in RulesIn(r)' \/ x \in RulesIn(b)')
          <5>1. r \in ConfFiles /\ b \in ConfFiles
            BY <1>1
          <5> QED BY ONLY <4>3, <5>1, Zenon
        <4>6. \A x : x \in LoadDomains' <=> x \in list[h]
          BY ONLY <4>2, <4>3, <4>4, <4>5
        <4> QED BY <4>6
      <3>4. ~damaged' => list[h] = RulesFor(wanted')
        <4>1. CASE ~damaged
          BY <3>1, <4>1 DEF Alone, RequestsOK
        <4>2. CASE asked[h].op = "replace"
          <5>1. asked[h] \in DomainRequests
            BY <1>0 DEF HandlerType, HandlerOK, Alone
          <5>2. wanted \in [Patterns -> {"relay", "bypass", "none"}] /\ {} \in SUBSET Rules
            BY <1>0 DEF SharedType
          <5>3. BypassWins(Edited(asked[h], {})) = RulesFor(Intended(asked[h], wanted))
            BY <4>2, <5>1, <5>2, EditedFor
          <5>4. Edited(asked[h], {}) = ReplaceDomains(asked[h])
            BY <4>2 DEF Edited
          <5> QED BY <1>2, <3>1, <4>2, <5>3, <5>4
        <4>3. damaged \in BOOLEAN
          BY <1>0 DEF SharedType
        <4> QED BY <3>1, <4>1, <4>2, <4>3
      <3> QED BY <3>2, <3>3, <3>4 DEF RequestsOK
    <2> QED BY <2>5, <2>6
  <1> QED BY <1>3, <1>4

\* Every step keeps the promise.
LEMMA RequestsStep ==
  ASSUME TwoFiles, DnsTypeInv, RequestsOK, [DnsNext]_dnsVars
  PROVE  RequestsOK'
  <1>1. CASE UNCHANGED dnsVars
    BY <1>1 DEF RequestsOK, SaveState, Saving, RulesIn, LoadDomains, Present, dnsVars, handlerVars
  <1>2. ASSUME NEW h \in Handlers, HandlerStep(h) PROVE RequestsOK'
    <2>1. ASSUME NEW q \in DomainRequests, BeginDomain(h, q) PROVE RequestsOK'
      BY <2>1, BeginStep
    <2>2. CASE BeginReload(h) \/ Reload(h)
      <3>1. ~Saving(h) /\ ~Saving(h)'
        BY <2>2, HandlerTypes DEF BeginReload, Reload, Answer, Saving
      <3>2. UNCHANGED <<conf, wanted, crossed, damaged>>
        BY <2>2 DEF BeginReload, Reload
      <3> QED BY <1>2, <3>1, <3>2, QuietSteps
    <2>3. CASE StartSave(h) \/ Strip(h) \/ WriteRelay(h) \/ WriteBypass(h) \/ Flush(h)
      <3>1. Saving(h) /\ DomainStep(h)
        BY <2>3, HandlerTypes DEF StartSave, Strip, WriteRelay, WriteBypass, Flush, Saving,
                                  HandlerType, HandlerOK, DomainStep
      <3>2. CASE (\E g \in Handlers \ {h} : Saving(g)) \/ h \in crossed
        BY <3>1, <3>2, SavesCross
      <3>3. CASE ~((\E g \in Handlers \ {h} : Saving(g)) \/ h \in crossed)
        <4>1. Alone(h)
          BY <3>1, <3>3 DEF Alone
        <4> QED BY <2>3, <4>1, AloneStarts, AloneStrips, AloneWrites, AloneFlushes
      <3> QED BY <3>2, <3>3
    <2> QED BY <1>2, <2>1, <2>2, <2>3 DEF HandlerStep, DomainStep
  <1> QED BY <1>1, <1>2 DEF DnsNext, HandlerStep

\* At first the rules are the ones that are wanted: no domain has both modes.
LEMMA RequestsInit ==
  ASSUME DnsInit
  PROVE  RequestsOK
  <1>1. \A h \in Handlers : ~Saving(h)
    BY DEF DnsInit, Saving
  <1>2. conf \in StartConfs /\ conf \in [ConfFiles -> Texts \cup {NoFile}]
    BY DnsmasqAssumption DEF DnsInit
  <1>3. LoadDomains \subseteq Rules
        /\ \A x : x \in LoadDomains <=> \E f \in ConfFiles : conf[f] # NoFile /\ x \in conf[f].rules
    BY <1>2, LoadFacts DEF RulesIn
  <1> DEFINE M(p) == {m \in {"relay", "bypass"} : [pattern |-> p, mode |-> m] \in LoadDomains}
  <1>4. ASSUME NEW p \in Patterns
        PROVE  ~(/\ [pattern |-> p, mode |-> "relay"] \in LoadDomains
                 /\ [pattern |-> p, mode |-> "bypass"] \in LoadDomains)
    BY <1>2, <1>3, DnsmasqAssumption
  <1>5. ASSUME NEW p \in Patterns, NEW m \in {"relay", "bypass"}
        PROVE  wanted[p] = m <=> [pattern |-> p, mode |-> m] \in LoadDomains
    <2>1. wanted[p] = IF \E n \in {"relay", "bypass"} : [pattern |-> p, mode |-> n] \in LoadDomains
                      THEN CHOOSE n \in {"relay", "bypass"} : [pattern |-> p, mode |-> n] \in LoadDomains
                      ELSE "none"
      BY DEF DnsInit
    <2>2. CASE \E n \in {"relay", "bypass"} : [pattern |-> p, mode |-> n] \in LoadDomains
      <3>1. wanted[p] \in {"relay", "bypass"} /\ [pattern |-> p, mode |-> wanted[p]] \in LoadDomains
        BY <2>1, <2>2
      <3> QED BY <1>4, <3>1
    <2>3. CASE ~ \E n \in {"relay", "bypass"} : [pattern |-> p, mode |-> n] \in LoadDomains
      BY <2>1, <2>3
    <2> QED BY <2>2, <2>3
  <1>6. LoadDomains = RulesFor(wanted)
    <2>1. ASSUME NEW x \in Rules PROVE x \in LoadDomains <=> x \in RulesFor(wanted)
      BY <1>5, RuleFacts DEF RulesFor
    <2> QED BY <1>3, <2>1 DEF RulesFor
  <1> QED BY <1>1, <1>6 DEF RequestsOK

\* When no request is under way, the directory holds one rule for each domain that the
\* requests ask for, in the mode they ask for, and no other, unless saves overlapped,
\* failed or could not read a file since the last whole list.  The relay file and the
\* bypass file are configured as two files: the run with one file shows what the
\* detection of the files may do otherwise.
THEOREM RulesCorrect ==
  ASSUME RelayFile # NoFile, BypassFile # NoFile, RelayFile # BypassFile
  PROVE  DnsSpec => []RulesFollowRequests
  <1> DEFINE QInv == DnsTypeInv /\ RequestsOK
  <1>1. DnsInit => QInv
    BY DnsInitType, RequestsInit
  <1>2. QInv /\ [DnsNext]_dnsVars => QInv'
    BY DnsStepType, RequestsStep DEF TwoFiles
  <1>3. QInv => RulesFollowRequests
    <2> SUFFICES ASSUME QInv, DnsQuiet, ~damaged
                 PROVE  LoadDomains = {x \in Rules : x.mode = wanted[x.pattern]}
      BY DEF RulesFollowRequests
    <2>1. \A h \in Handlers : ~Saving(h)
      BY DEF DnsQuiet, Saving
    <2> QED BY <2>1 DEF RequestsOK, RulesFor
  <1> QED BY <1>1, <1>2, <1>3, PTL DEF DnsSpec

------------------------------------------------------------------------------
(* The panel as a whole *)

\* The two sorts of handlers have nothing in common: a behaviour of the panel is one of
\* its stores and one of its domain rules, so that what is proved of each holds here.
LEMMA PanelParts == ApiSpec => Spec /\ DnsSpec
  <1>1. ApiInit => Init /\ DnsInit
    BY DEF ApiInit
  <1>2. [ApiNext]_<<vars, dnsVars>> => [Next]_vars /\ [DnsNext]_dnsVars
    BY DEF ApiNext
  <1> QED BY <1>1, <1>2, PTL DEF ApiSpec, Spec, DnsSpec

\* The variables of the panel always have their types.
THEOREM ApiTypeCorrect == ApiSpec => []ApiTypeOK
  <1>1. TypeOK /\ DnsTypeOK => ApiTypeOK
    BY DEF ApiTypeOK
  <1> QED BY <1>1, PanelParts, TypeCorrect, DnsTypeCorrect, PTL

\* Under every request to the panel: routes resolve, changes are kept, the file follows
\* the running configuration, the firewall follows the whitelist, secrets stay, dnsmasq
\* runs with the rules on disk, and the administrator's directives stay.
THEOREM PanelCorrect ==
  ApiSpec => /\ []RoutesResolve /\ []NoLostChange /\ []FileIsLive /\ []UfwFollowsAcl
             /\ SecretsKept
             /\ []RunningFollowsFiles /\ []DirectivesPreserved
  BY PanelParts, RoutesAlwaysResolve, ChangesKept, FileFollows, FirewallFollows, SecretsAreKept,
     RunningCorrect, DirectivesCorrect, PTL
=============================================================================

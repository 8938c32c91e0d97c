------------------------------ MODULE PanelStore ------------------------------
(***************************************************************************)
(* The panel's configuration handlers (src/panel/api.rs): concurrent       *)
(* requests that replace the hosts table, the upstream registry and the    *)
(* client whitelist of the running relay, and save them into one YAML file *)
(* and the firewall.  A handler copies the live value under a read lock,   *)
(* changes the copy and puts it back under a write lock; the YAML file is  *)
(* read, changed and written back with no lock at all.  Handlers do not    *)
(* await in between, but run on several worker threads.                    *)
(***************************************************************************)
EXTENDS Integers, SequencesExt

CONSTANTS
  Requests,       \* requests that may be under way at the same time
  HostsTables,    \* bodies of PUT /hosts that compile
  BadHosts,       \* a body that does not
  Registries,     \* bodies of PUT /upstreams
  Profiles,       \* profile names, as numbers in alphabetical order
  Ips,            \* client addresses in the spelling that IpAddr::to_string gives them
  Spellings,      \* other texts in a request: spellings of an address, or no address
  AddressOf,      \* function from Spellings to Ips, or None for no address
  Users,          \* usernames; "" is none
  Whitelists,     \* lists of PUT /whitelist: functions from addresses to Users
  StartHosts, StartRegistry, StartWhitelist, StartSync,  \* the configuration file at start
  Unparsable,     \* a file that serde_yaml rejects or that is empty
  None,
  MaxRequests     \* bound: requests in a behaviour

\* Partial functions, and the values of the three stores.
Maps(keys, values) == UNION {[K -> values] : K \in SUBSET keys}
Profile == [type : {"socks5", "http", "direct"}, secret : BOOLEAN]
RegistryOf(addresses) == [profiles : Maps(Profiles, Profile), default : Profiles,
                          byIp : Maps(addresses, Profiles), failover : BOOLEAN]
Whitelist == [ips : Maps(Ips, Users), sync : BOOLEAN]
Config == [hosts : HostsTables, upstreams : RegistryOf(Ips), whitelist : Whitelist]

\* normalize_upstreams: the start ends with an error, or drops routes, unless every
\* profile that is named is there.  Keys that are no address, which it keeps, match no
\* client and are left out of the start.
ASSUME PanelAssumption ==
  /\ StartHosts \in HostsTables /\ BadHosts \notin HostsTables
  /\ Profiles \subseteq Nat /\ IsFiniteSet(Profiles)
  /\ "" \in Users
  /\ Ips \cap Spellings = {} /\ AddressOf \in [Spellings -> Ips \cup {None}]
  /\ Registries \subseteq RegistryOf(Ips \cup Spellings) /\ StartRegistry \in RegistryOf(Ips)
  /\ StartRegistry.default \in DOMAIN StartRegistry.profiles
  /\ \A ip \in DOMAIN StartRegistry.byIp :
       StartRegistry.byIp[ip] \in DOMAIN StartRegistry.profiles
  /\ Whitelists \subseteq Maps(Ips \cup Spellings, Users) /\ StartWhitelist \in Maps(Ips, Users)
  /\ Unparsable \notin Config
  /\ StartSync \in BOOLEAN
  /\ MaxRequests \in Nat

VARIABLES
  hostsLive,    \* hosts_live: what sessions resolve with
  live,         \* per store: hosts_entries, upstream_registry, client_acl
  file,         \* the YAML file: per store, or Unparsable
  ufw,          \* firewall rules: a function from addresses to users
  pc,           \* per request: where its handler is
  req,          \* per request: what it asks for
  mine,         \* per request: the changed copy
  prev,         \* per request: the whitelist put_whitelist compares with
  doc,          \* per request: the YAML value it has read and changed
  made,         \* requests made
  serial,       \* history: the stores if every request were atomic
  raced,        \* history: stores two requests have changed at the same time
  torn,         \* history: two requests were in the YAML file at the same time
  unsaved,      \* history: stores whose last save has failed
  missed        \* history: ways in which a save has gone wrong for good, see below

stores == <<hostsLive, live, file, ufw>>
history == <<serial, raced, torn, unsaved, missed>>
vars == <<stores, pc, req, mine, prev, doc, made, history>>

Stores == {"hosts", "upstreams", "whitelist"}
Idle == [op |-> "none"]

\* "disk": the file was left half written; "ufw": a firewall command failed;
\* "off": a change was made while UFW sync was off; "spelled": a rule was to be
\* deleted under another spelling of its address.
Misses == {"disk", "ufw", "off", "spelled"}

StoreOf(q) == CASE q.op = "put_hosts" -> "hosts"
                [] q.op \in {"put_upstreams", "set_client", "del_client"} -> "upstreams"
                [] q.op \in {"put_whitelist", "add_ip", "del_ip"} -> "whitelist"

Active(r) == pc[r] # "idle"
Quiet == \A r \in Requests : ~Active(r)

\* Function f with x mapped to y, and without x.
With(f, x, y) == [z \in DOMAIN f \cup {x} |-> IF z = x THEN y ELSE f[z]]
Without(f, x) == [z \in DOMAIN f \ {x} |-> f[z]]

\* Mutant: an address is used as it is spelled.
AsSpelled(x) == x

\* normalize_client_ip; None when the text is no address.
NormalizeClientIp(x) == IF x \in Spellings THEN AddressOf[x] ELSE x

\* A map with its keys normalized.  Two spellings of one address in one body are
\* left out: which of them wins depends on the iteration order of a HashMap.
NormalKeys(f) ==
  [ip \in {NormalizeClientIp(x) : x \in DOMAIN f} |->
     f[CHOOSE x \in DOMAIN f : NormalizeClientIp(x) = ip]]

------------------------------------------------------------------------------
(* UpstreamRegistry: [profiles, default, byIp, failover].  A profile is its type *)
(* and whether it carries a password.                                            *)

\* Mutant: the default profile is not looked up.
FromPartsUnchecked(reg) ==
  /\ DOMAIN reg.profiles # {}
  /\ \A x \in DOMAIN reg.byIp : reg.byIp[x] \in DOMAIN reg.profiles
                               /\ NormalizeClientIp(x) # None

\* from_parts accepts it.
FromParts(reg) ==
  /\ DOMAIN reg.profiles # {}
  /\ reg.default \in DOMAIN reg.profiles
  /\ \A x \in DOMAIN reg.byIp : reg.byIp[x] \in DOMAIN reg.profiles
                               /\ NormalizeClientIp(x) # None

\* Mutant: what the body leaves out is not filled in.
NoMerge(new, old) == new

\* merge_proxy_secrets for every profile that both have with the same type.
MergeProxySecrets(new, old) ==
  [new EXCEPT !.profiles =
     [p \in DOMAIN new.profiles |->
        IF p \in DOMAIN old.profiles /\ old.profiles[p].type = new.profiles[p].type
        THEN [new.profiles[p] EXCEPT !.secret = @ \/ old.profiles[p].secret]
        ELSE new.profiles[p]]]

ProfileNameForIp(reg, ip) ==
  IF ip \in DOMAIN reg.byIp /\ reg.byIp[ip] \in DOMAIN reg.profiles
  THEN reg.byIp[ip] ELSE reg.default

\* The order of the profiles to fall back on: the default, then by name.
Order(reg, p) == IF p = reg.default THEN 0 ELSE p + 1

\* connect_candidates; the empty sequence is its error.
ConnectCandidates(reg, ip) ==
  LET primary == ProfileNameForIp(reg, ip)
      rest == DOMAIN reg.profiles \ {primary}
      rank(p) == Cardinality({x \in rest : Order(reg, x) < Order(reg, p)})
  IN IF primary \notin DOMAIN reg.profiles THEN <<>>
     ELSE IF ~reg.failover THEN <<primary>>
     ELSE <<primary>> \o [i \in 1..Cardinality(rest) |-> CHOOSE p \in rest : rank(p) = i - 1]

------------------------------------------------------------------------------
(* What a request makes of the value it has copied *)

\* The request is answered with 400 Bad Request.
Refused(q, old) ==
  \/ q.op = "put_hosts" /\ q.arg = BadHosts
  \/ q.op = "put_upstreams" /\ ~FromParts(MergeProxySecrets(q.arg, old))
  \/ q.op = "set_client" /\ q.profile \notin DOMAIN old.profiles
  \/ q.op = "put_whitelist" /\ \E x \in DOMAIN q.arg : NormalizeClientIp(x) = None
  \/ q.op = "add_ip" /\ q.user = ""
  \/ q.op \in {"set_client", "del_client", "add_ip", "del_ip"} /\ NormalizeClientIp(q.ip) = None

Changed(q, old) ==
  CASE q.op = "put_hosts" -> q.arg
    [] q.op = "put_upstreams" ->
         [MergeProxySecrets(q.arg, old) EXCEPT !.byIp = NormalKeys(@)]
    [] q.op = "set_client" -> [old EXCEPT !.byIp = With(@, NormalizeClientIp(q.ip), q.profile)]
    [] q.op = "del_client" -> [old EXCEPT !.byIp = Without(@, NormalizeClientIp(q.ip))]
    [] q.op = "put_whitelist" ->
         [ips |-> NormalKeys(q.arg), sync |-> IF q.sync = "keep" THEN old.sync ELSE q.sync = "on"]
    [] q.op = "add_ip" -> [old EXCEPT !.ips = With(@, NormalizeClientIp(q.ip), q.user)]
    [] q.op = "del_ip" -> [old EXCEPT !.ips = Without(@, NormalizeClientIp(q.ip))]

Bodies ==
  [op : {"put_hosts"}, arg : HostsTables \cup {BadHosts}]
    \cup [op : {"put_upstreams"}, arg : Registries]
    \cup [op : {"set_client"}, ip : Ips \cup Spellings, profile : Profiles]
    \cup [op : {"del_client", "del_ip"}, ip : Ips \cup Spellings]
    \cup [op : {"put_whitelist"}, arg : Whitelists, sync : {"on", "off", "keep"}]
    \cup [op : {"add_ip"}, ip : Ips \cup Spellings, user : Users]

------------------------------------------------------------------------------
(* The handlers *)

\* The configuration file as the process has found it.
Start == [hosts |-> StartHosts, upstreams |-> StartRegistry,
          whitelist |-> [ips |-> StartWhitelist, sync |-> StartSync]]

\* Mutant: the copy is taken from the file, not from the live value.
CopyOfFile(q) == IF file = Unparsable THEN live[StoreOf(q)] ELSE file[StoreOf(q)]

\* state.<store>.read().clone()
Copy(q) == live[StoreOf(q)]

\* A request comes in; its handler copies the live value and changes the copy.
Begin(r, q) ==
  LET s == StoreOf(q)
  IN /\ pc[r] = "idle" /\ made < MaxRequests
     /\ made' = made + 1
     /\ \/ /\ Refused(q, Copy(q))
           /\ UNCHANGED <<pc, req, mine, prev, raced>>
        \/ /\ ~Refused(q, Copy(q))
           /\ req' = [req EXCEPT ![r] = q]
           /\ mine' = [mine EXCEPT ![r] = Changed(q, Copy(q))]
           /\ prev' = IF q.op \in {"add_ip", "del_ip"}
                      THEN [prev EXCEPT ![r] = Copy(q).ips] ELSE prev
           /\ pc' = [pc EXCEPT ![r] =
                       CASE q.op = "put_whitelist" -> "prev"
                         [] q.op \in {"add_ip", "del_ip"} -> "ufw"
                         [] OTHER -> "live"]
           /\ raced' = IF \E x \in Requests : Active(x) /\ StoreOf(req[x]) = s
                       THEN raced \cup {s} ELSE raced
     /\ UNCHANGED <<stores, doc, serial, torn, unsaved, missed>>

\* put_whitelist: let prev = state.client_acl.read().clone();
ReadPrev(r) ==
  /\ pc[r] = "prev"
  /\ prev' = [prev EXCEPT ![r] = live["whitelist"].ips]
  /\ pc' = [pc EXCEPT ![r] = "ufw"]
  /\ UNCHANGED <<stores, req, mine, doc, made, history>>

\* Mutant: the rules of addresses that are no longer on the list are kept.
UfwAllowsOnly(q, new, old) ==
  CASE q.op = "put_whitelist" ->
         {ip \in DOMAIN new : ip \notin DOMAIN old \/ old[ip] # new[ip] \/ new[ip] = ""}
    [] q.op = "add_ip" -> {NormalizeClientIp(q.ip)}
    [] q.op = "del_ip" -> {q.ip} \cap DOMAIN old

\* The addresses whose rules a handler touches: allow_ip for those on the new list
\* that are new, have another user or none (None is never equal to Some("")),
\* delete_ip for those that are no longer on it.  DELETE passes the address as it is
\* spelled in the request, and rule_exists looks for that text in `ufw status`.
UfwChanges(q, new, old) ==
  CASE q.op = "put_whitelist" ->
         {ip \in DOMAIN new : ip \notin DOMAIN old \/ old[ip] # new[ip] \/ new[ip] = ""}
           \cup (DOMAIN old \ DOMAIN new)
    [] q.op = "add_ip" -> {NormalizeClientIp(q.ip)}
    [] q.op = "del_ip" -> {q.ip} \cap DOMAIN old

\* The ufw commands of one handler, when sync is on; each may fail, which is only
\* reported, and allow_ip that fails after its delete leaves no rule.
UfwStep(r) ==
  LET new == mine[r].ips
      change == IF mine[r].sync THEN UfwChanges(req[r], new, prev[r]) ELSE {}
      allow == change \cap DOMAIN new
  IN /\ pc[r] = "ufw"
     /\ \E ok \in SUBSET change :
          \E lost \in SUBSET ((allow \cap DOMAIN ufw) \ ok) :
            /\ ufw' = [ip \in (DOMAIN ufw \ (lost \cup (ok \ allow))) \cup (ok \cap allow) |->
                         IF ip \in ok THEN new[ip] ELSE ufw[ip]]
            /\ missed' = missed
                 \cup (IF ok # change THEN {"ufw"} ELSE {})
                 \cup (IF mine[r].sync THEN {} ELSE {"off"})
                 \cup (IF req[r].op = "del_ip" /\ req[r].ip \in Spellings THEN {"spelled"} ELSE {})
     /\ prev' = [prev EXCEPT ![r] = None]
     /\ pc' = [pc EXCEPT ![r] = "read"]
     /\ UNCHANGED <<hostsLive, live, file, req, mine, doc, made, serial, raced, torn, unsaved>>

Done(r) ==
  /\ pc' = [pc EXCEPT ![r] = "idle"]
  /\ req' = [req EXCEPT ![r] = Idle]
  /\ mine' = [mine EXCEPT ![r] = None]

\* *state.hosts_live.write() = compiled;
WriteHostsLive(r) ==
  /\ pc[r] = "live" /\ StoreOf(req[r]) = "hosts"
  /\ hostsLive' = mine[r]
  /\ pc' = [pc EXCEPT ![r] = "entries"]
  /\ UNCHANGED <<live, file, ufw, req, mine, prev, doc, made, history>>

\* *state.<store>.write() = copy: the last step of the whitelist handlers; the
\* others save after it.
WriteLive(r) ==
  LET s == StoreOf(req[r])
  IN /\ \/ pc[r] = "entries"
        \/ pc[r] = "live" /\ s # "hosts"
     /\ live' = [live EXCEPT ![s] = mine[r]]
     /\ serial' = [serial EXCEPT ![s] = Changed(req[r], serial[s])]
     /\ IF s = "whitelist" THEN Done(r)
        ELSE pc' = [pc EXCEPT ![r] = "read"] /\ UNCHANGED <<req, mine>>
     /\ UNCHANGED <<hostsLive, file, ufw, prev, doc, made, raced, torn, unsaved, missed>>

\* persist_*_yaml has returned, with or without an error.
Persisted(r) ==
  IF StoreOf(req[r]) = "whitelist"
  THEN pc' = [pc EXCEPT ![r] = "live"] /\ UNCHANGED <<req, mine>>
  ELSE Done(r)

\* persist_*_yaml returns an error, which is only reported.
NotSaved(r) ==
  /\ Persisted(r)
  /\ unsaved' = unsaved \cup {StoreOf(req[r])}

\* Mutant: the keys are inserted into the configuration the process started with.
ReadYamlAtStart(r) ==
  /\ pc[r] = "read"
  /\ doc' = [doc EXCEPT ![r] = [Start EXCEPT ![StoreOf(req[r])] = mine[r]]]
  /\ pc' = [pc EXCEPT ![r] = "truncate"]
  /\ UNCHANGED <<stores, req, mine, prev, made, history>>

\* persist_*_yaml reads the file and inserts its keys.
ReadYaml(r) ==
  /\ pc[r] = "read"
  /\ \/ /\ file # Unparsable
        /\ doc' = [doc EXCEPT ![r] = [file EXCEPT ![StoreOf(req[r])] = mine[r]]]
        /\ pc' = [pc EXCEPT ![r] = "truncate"]
        /\ torn' = (torn \/ \E x \in Requests : pc[x] \in {"truncate", "write"})
        /\ UNCHANGED <<req, mine, unsaved>>
     \/ /\ NotSaved(r)  \* the file cannot be read or is not a mapping
        /\ UNCHANGED <<doc, torn>>
  /\ UNCHANGED <<stores, prev, made, serial, raced, missed>>

\* fs::write opens and truncates ...
TruncateYaml(r) ==
  /\ pc[r] = "truncate"
  /\ \/ /\ file' = Unparsable
        /\ pc' = [pc EXCEPT ![r] = "write"]
        /\ UNCHANGED <<req, mine, doc, unsaved>>
     \/ /\ NotSaved(r)  \* a read-only mount
        /\ doc' = [doc EXCEPT ![r] = None]
        /\ UNCHANGED file
  /\ UNCHANGED <<hostsLive, live, ufw, prev, made, serial, raced, torn, missed>>

\* ... and writes.  The text may end inside the longer one of a handler that has
\* written since the truncation; a full disk leaves a part of it.
WriteYaml(r) ==
  /\ pc[r] = "write"
  /\ \/ /\ file' = doc[r] \/ (file # Unparsable /\ file' = Unparsable)
        /\ Persisted(r)
        /\ unsaved' = unsaved \ {StoreOf(req[r])}
        /\ UNCHANGED missed
     \/ /\ file' = Unparsable
        /\ NotSaved(r)
        /\ missed' = missed \cup {"disk"}
  /\ doc' = [doc EXCEPT ![r] = None]
  /\ UNCHANGED <<hostsLive, live, ufw, prev, made, serial, raced, torn>>

------------------------------------------------------------------------------
Init ==
  /\ hostsLive = StartHosts
  /\ live = Start /\ file = Start /\ serial = Start
  /\ ufw = StartWhitelist
  /\ pc = [r \in Requests |-> "idle"]
  /\ req = [r \in Requests |-> Idle]
  /\ mine = [r \in Requests |-> None]
  /\ prev = [r \in Requests |-> None]
  /\ doc = [r \in Requests |-> None]
  /\ made = 0
  /\ raced = {} /\ torn = FALSE
  /\ unsaved = {}
  /\ missed = IF StartSync THEN {} ELSE {"off"}

Handle(r) == \/ ReadPrev(r)
             \/ UfwStep(r)
             \/ WriteHostsLive(r)
             \/ WriteLive(r)
             \/ ReadYaml(r)
             \/ TruncateYaml(r)
             \/ WriteYaml(r)

Next == \E r \in Requests : (\E q \in Bodies : Begin(r, q)) \/ Handle(r)

Spec == Init /\ [][Next]_vars

------------------------------------------------------------------------------
(* Properties *)

\* Types; registry, whitelist and firewall are keyed by normalized addresses.
TypeOK ==
  /\ hostsLive \in HostsTables /\ live \in Config /\ file \in Config \cup {Unparsable}
  /\ ufw \in Maps(Ips, Users)
  /\ pc \in [Requests -> {"idle", "prev", "ufw", "live", "entries", "read", "truncate", "write"}]
  /\ raced \subseteq Stores /\ unsaved \subseteq Stores /\ missed \subseteq Misses
  /\ torn \in BOOLEAN /\ made \in 0..MaxRequests

\* Whatever requests race, every client has a route in the live registry and in a
\* file that can be read: its own profile or the default first and, with failover,
\* every other profile once, the default before the rest (connect_candidates never
\* returns its error).
RoutesResolve ==
  \A reg \in {live.upstreams} \cup (IF file = Unparsable THEN {} ELSE {file.upstreams}) :
    \A ip \in Ips :
      LET c == ConnectCandidates(reg, ip)
      IN /\ c # <<>>
         /\ c[1] = (IF ip \in DOMAIN reg.byIp THEN reg.byIp[ip] ELSE reg.default)
         /\ Len(c) = (IF reg.failover THEN Cardinality(DOMAIN reg.profiles) ELSE 1)
         /\ ToSet(c) \subseteq DOMAIN reg.profiles /\ Cardinality(ToSet(c)) = Len(c)
         /\ reg.failover /\ c[1] # reg.default => c[2] = reg.default

\* A change is lost only to another request for the same store that was under way
\* at the same time; requests for other stores, and saves that fail, never undo one,
\* and sessions resolve with the table the panel shows.
NoLostChange ==
  \A s \in Stores \ raced :
    /\ live[s] = serial[s]
    /\ s = "hosts" /\ (\A r \in Requests : pc[r] # "entries") => hostsLive = live.hosts

\* When no request is under way, a restart finds what is live, store by store, unless
\* the last save of that store failed: a save that succeeds makes up for one that
\* failed.  Two saves of different stores that overlap, and a half written file, break it.
FileIsLive ==
  Quiet /\ ~torn /\ "disk" \notin missed =>
    /\ file # Unparsable
    /\ \A s \in Stores \ (raced \cup unsaved) : file[s] = live[s]

\* When no request is under way, the firewall admits the addresses of the whitelist,
\* each with its user, if no ufw command has failed, sync was never off and no rule was
\* deleted under another spelling.
UfwFollowsAcl ==
  Quiet /\ "whitelist" \notin raced /\ missed \subseteq {"disk"} =>
    ufw = live.whitelist.ips

\* A profile that keeps its name and type keeps its password or auth when the request
\* leaves it out (merge_proxy_secrets), unless two requests raced.
SecretsKept ==
  [][LET old == live.upstreams.profiles
         new == live'.upstreams.profiles
     IN "upstreams" \notin raced' =>
          \A p \in DOMAIN old \cap DOMAIN new :
            old[p].secret /\ old[p].type = new[p].type => new[p].secret]_vars
=============================================================================

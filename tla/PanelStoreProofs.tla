--------------------------- MODULE PanelStoreProofs ---------------------------
(***************************************************************************)
(* Proofs about PanelStore, for any number of requests under way, any      *)
(* registries, whitelists and spellings of addresses: every client has a   *)
(* route, changes are lost only to a race for the same store, the file and *)
(* the firewall follow the live values, and passwords are kept.            *)
(***************************************************************************)
EXTENDS PanelStore, FiniteSetTheorems, FunctionTheorems, TLAPS

------------------------------------------------------------------------------
(* The inductive invariant *)

\* Every profile that a registry names is there.
Sound(reg) ==
  /\ reg.default \in DOMAIN reg.profiles
  /\ \A ip \in DOMAIN reg.byIp : reg.byIp[ip] \in DOMAIN reg.profiles

\* What a store, and the file, may hold.
Values(s) == CASE s = "hosts" -> HostsTables
               [] s = "upstreams" -> {reg \in RegistryOf(Ips) : Sound(reg)}
               [] s = "whitelist" -> Whitelist
Docs == {c \in Config : Sound(c.upstreams)}

\* A request that is under way: what it asks for, its copy, and where it may be.
RequestOK(r) ==
  /\ req[r] \in Bodies
  /\ mine[r] \in Values(StoreOf(req[r]))
  /\ pc[r] = "prev" => req[r].op = "put_whitelist"
  /\ pc[r] = "ufw" => StoreOf(req[r]) = "whitelist" /\ prev[r] \in Maps(Ips, Users)
  /\ pc[r] = "entries" => StoreOf(req[r]) = "hosts"
  /\ pc[r] \in {"truncate", "write"} => doc[r] \in Docs

TypeInv ==
  /\ TypeOK
  /\ live \in Docs /\ file \in Docs \cup {Unparsable} /\ DOMAIN serial = Stores
  /\ DOMAIN req = Requests /\ DOMAIN mine = Requests
  /\ DOMAIN prev = Requests /\ DOMAIN doc = Requests
  /\ \A r \in Requests : Active(r) => RequestOK(r)

\* Request r is under way and is about store s.
On(r, s) == Active(r) /\ StoreOf(req[r]) = s

\* The request has not yet put its copy into the live store.
Fresh(r) == StoreOf(req[r]) = "whitelist" \/ pc[r] \in {"live", "entries"}

\* A store for which no requests have raced: at most one is under way, whose copy is
\* the live value with the change made, or the live value itself.
AloneOK ==
  \A s \in Stores \ raced :
    /\ \A r, x \in Requests : On(r, s) /\ On(x, s) => r = x
    /\ live[s] = serial[s]
    /\ \A r \in Requests : On(r, s) =>
         mine[r] = IF Fresh(r) THEN Changed(req[r], live[s]) ELSE live[s]

\* The two copies of the hosts table differ only between the two writes of a request.
HostsOK ==
  "hosts" \notin raced =>
    /\ (\A r \in Requests : pc[r] # "entries") => hostsLive = live.hosts
    /\ \A r \in Requests : pc[r] = "entries" => hostsLive = mine[r]

\* Whether the text f has the live value of s, where that is due: before a request
\* changes one of the two, and when a whitelist has been saved but is not yet live.
Unsaved(r, s) == pc[r] \in IF s = "whitelist" THEN {"prev", "ufw", "read", "truncate"}
                           ELSE {"live", "entries"}
Due(s) == \A r \in Requests : On(r, s) => Unsaved(r, s)
Holds(f, s) ==
  /\ Due(s) => f[s] = live[s]
  /\ s = "whitelist" => \A r \in Requests : On(r, s) /\ pc[r] = "live" => f[s] = mine[r]

\* The file while no two requests have been in it together: the request that is in it has
\* the only text of what it has truncated.
FileOK ==
  ~torn /\ "disk" \notin missed =>
    /\ \A r, x \in Requests :
         pc[r] \in {"truncate", "write"} /\ pc[x] \in {"truncate", "write"} => r = x
    /\ (\A r \in Requests : pc[r] # "write") => file # Unparsable
    /\ \A r \in Requests :
         /\ pc[r] = "truncate" => doc[r] = [file EXCEPT ![StoreOf(req[r])] = mine[r]]
         /\ pc[r] = "write" => file = Unparsable /\ doc[r][StoreOf(req[r])] = mine[r]
    /\ \A s \in Stores \ (raced \cup unsaved) :
         /\ file # Unparsable => Holds(file, s)
         /\ \A r \in Requests : pc[r] = "write" => Holds(doc[r], s)

\* The firewall: ahead of the live whitelist from the commands to the end of a request.
UfwOK ==
  "whitelist" \notin raced /\ missed \subseteq {"disk"} =>
    /\ (\A r \in Requests : On(r, "whitelist") => pc[r] \in {"prev", "ufw"})
         => ufw = live.whitelist.ips
    /\ \A r \in Requests : On(r, "whitelist") =>
         /\ pc[r] = "ufw" => prev[r] = live.whitelist.ips
         /\ pc[r] \in {"read", "truncate", "write", "live"} => ufw = mine[r].ips

------------------------------------------------------------------------------
(* The operators *)

\* A partial function: its domain, its values, and that it is a function.
LEMMA MapsFacts ==
  ASSUME NEW K, NEW V, NEW f \in Maps(K, V)
  PROVE  /\ DOMAIN f \subseteq K /\ f \in [DOMAIN f -> V]
         /\ \A x \in DOMAIN f : f[x] \in V
  <1>1. PICK D \in SUBSET K : f \in [D -> V]
    BY DEF Maps
  <1> QED BY <1>1

\* A function from a part of the keys is one.
LEMMA MapsIntro ==
  ASSUME NEW K, NEW V, NEW D \in SUBSET K, NEW f \in [D -> V]
  PROVE  f \in Maps(K, V)
  BY DEF Maps

\* One key set or removed.
LEMMA WithType ==
  ASSUME NEW K, NEW V, NEW f \in Maps(K, V), NEW x \in K, NEW y \in V
  PROVE  With(f, x, y) \in Maps(K, V) /\ Without(f, x) \in Maps(K, V)
  <1>1. DOMAIN f \subseteq K /\ \A z \in DOMAIN f : f[z] \in V
    BY MapsFacts
  <1>2. (DOMAIN f \cup {x}) \in SUBSET K /\ With(f, x, y) \in [DOMAIN f \cup {x} -> V]
    BY <1>1 DEF With
  <1>3. (DOMAIN f \ {x}) \in SUBSET K /\ Without(f, x) \in [DOMAIN f \ {x} -> V]
    BY <1>1 DEF Without
  <1> QED BY <1>2, <1>3, MapsIntro

\* A text that is an address has a normal spelling, and normal spellings stay.
LEMMA NormalType ==
  ASSUME NEW x \in Ips \cup Spellings
  PROVE  /\ NormalizeClientIp(x) # None => NormalizeClientIp(x) \in Ips
         /\ x \in Ips => NormalizeClientIp(x) = x
  BY PanelAssumption DEF NormalizeClientIp

\* A body with addresses for keys becomes a map from normal spellings, and has no
\* values that the body did not have.
LEMMA NormalKeysType ==
  ASSUME NEW V, NEW f \in Maps(Ips \cup Spellings, V),
         \A x \in DOMAIN f : NormalizeClientIp(x) # None
  PROVE  /\ NormalKeys(f) \in Maps(Ips, V)
         /\ \A ip \in DOMAIN NormalKeys(f) : \E x \in DOMAIN f : NormalKeys(f)[ip] = f[x]
  <1> DEFINE D == {NormalizeClientIp(x) : x \in DOMAIN f}
             at(ip) == CHOOSE x \in DOMAIN f : NormalizeClientIp(x) = ip
             g == [ip \in D |-> f[at(ip)]]
  <1>1. DOMAIN f \subseteq Ips \cup Spellings /\ \A x \in DOMAIN f : f[x] \in V
    BY MapsFacts
  <1>2. D \in SUBSET Ips
    BY <1>1, NormalType
  <1>3. \A ip \in D : at(ip) \in DOMAIN f
    OBVIOUS
  <1>4. g \in [D -> V] /\ \A ip \in DOMAIN g : \E x \in DOMAIN f : g[ip] = f[x]
    <2> HIDE DEF D, at
    <2> QED BY <1>1, <1>3
  <1>5. g \in Maps(Ips, V)
    <2> HIDE DEF D, g
    <2> QED BY <1>2, <1>4, MapsIntro
  <1>6. NormalKeys(f) = g
    BY DEF NormalKeys
  <1> QED BY <1>4, <1>5, <1>6

\* What a request may be, by its operation.
LEMMA BodyFacts ==
  ASSUME NEW q \in Bodies
  PROVE  \/ q.op = "put_hosts" /\ StoreOf(q) = "hosts" /\ q.arg \in HostsTables \cup {BadHosts}
         \/ q.op = "put_upstreams" /\ StoreOf(q) = "upstreams" /\ q.arg \in Registries
         \/ /\ q.op = "set_client" /\ StoreOf(q) = "upstreams"
            /\ q.ip \in Ips \cup Spellings /\ q.profile \in Profiles
         \/ q.op = "del_client" /\ StoreOf(q) = "upstreams" /\ q.ip \in Ips \cup Spellings
         \/ q.op = "put_whitelist" /\ StoreOf(q) = "whitelist" /\ q.arg \in Whitelists
         \/ /\ q.op = "add_ip" /\ StoreOf(q) = "whitelist"
            /\ q.ip \in Ips \cup Spellings /\ q.user \in Users
         \/ q.op = "del_ip" /\ StoreOf(q) = "whitelist" /\ q.ip \in Ips \cup Spellings
  BY DEF Bodies, StoreOf

\* A request is about one of the three stores.
LEMMA StoreType ==
  ASSUME NEW q \in Bodies
  PROVE  /\ StoreOf(q) \in Stores
         /\ q.op \in {"put_whitelist", "add_ip", "del_ip"} <=> StoreOf(q) = "whitelist"
  BY BodyFacts DEF Stores

\* The file and the live stores hold values of the three stores.
LEMMA DocFacts ==
  ASSUME NEW c \in Docs
  PROVE  /\ c \in Config /\ c # Unparsable /\ DOMAIN c = Stores
         /\ \A s \in Stores : c[s] \in Values(s)
         /\ \A s \in Stores : \A v \in Values(s) : [c EXCEPT ![s] = v] \in Docs
  <1>1. c \in Config /\ Sound(c.upstreams)
    BY DEF Docs
  <1>2. c # Unparsable
    BY <1>1, PanelAssumption
  <1>3. DOMAIN c = Stores /\ \A s \in Stores : c[s] \in Values(s)
    <2> HIDE DEF Sound
    <2> QED BY <1>1 DEF Config, Stores, Values
  <1>4. ASSUME NEW s \in Stores, NEW v \in Values(s)
        PROVE  [c EXCEPT ![s] = v] \in Docs
    <2>1. CASE s = "hosts"
      BY <1>1, <1>4, <2>1 DEF Config, Values, Docs
    <2>2. CASE s = "upstreams"
      BY <1>1, <1>4, <2>2 DEF Config, Values, Docs
    <2>3. CASE s = "whitelist"
      BY <1>1, <1>4, <2>3 DEF Config, Values, Docs
    <2> QED BY <2>1, <2>2, <2>3 DEF Stores
  <1> QED BY <1>1, <1>2, <1>3, <1>4

\* What a registry is made of.
LEMMA RegistryFacts ==
  ASSUME NEW A, NEW g \in RegistryOf(A)
  PROVE  /\ g.profiles \in Maps(Profiles, Profile) /\ g.default \in Profiles
         /\ g.byIp \in Maps(A, Profiles) /\ g.failover \in BOOLEAN
         /\ DOMAIN g = {"profiles", "default", "byIp", "failover"}
  BY DEF RegistryOf

\* The secrets that a body leaves out are filled in, and nothing else is changed.
LEMMA MergeFacts ==
  ASSUME NEW A, NEW new \in RegistryOf(A), NEW old \in RegistryOf(Ips)
  PROVE  LET g == MergeProxySecrets(new, old)
         IN /\ g \in RegistryOf(A) /\ g.default = new.default /\ g.byIp = new.byIp
            /\ DOMAIN g.profiles = DOMAIN new.profiles
            /\ \A p \in DOMAIN new.profiles \cap DOMAIN old.profiles :
                 /\ g.profiles[p].type = new.profiles[p].type
                 /\ old.profiles[p].type = new.profiles[p].type /\ old.profiles[p].secret
                      => g.profiles[p].secret
  <1> DEFINE P == [p \in DOMAIN new.profiles |->
                     IF p \in DOMAIN old.profiles /\ old.profiles[p].type = new.profiles[p].type
                     THEN [new.profiles[p] EXCEPT !.secret = @ \/ old.profiles[p].secret]
                     ELSE new.profiles[p]]
             g == MergeProxySecrets(new, old)
  <1>1. /\ new.profiles \in Maps(Profiles, Profile) /\ old.profiles \in Maps(Profiles, Profile)
        /\ new.byIp \in Maps(A, Profiles) /\ new.default \in Profiles /\ new.failover \in BOOLEAN
        /\ DOMAIN new = {"profiles", "default", "byIp", "failover"}
    BY RegistryFacts
  <1>2. /\ DOMAIN new.profiles \in SUBSET Profiles
        /\ \A p \in DOMAIN new.profiles : new.profiles[p] \in Profile
        /\ \A p \in DOMAIN old.profiles : old.profiles[p] \in Profile
    BY <1>1, MapsFacts
  <1>3. ASSUME NEW p \in DOMAIN new.profiles
        PROVE  /\ P[p] \in Profile /\ P[p].type = new.profiles[p].type
               /\ p \in DOMAIN old.profiles /\ old.profiles[p].type = new.profiles[p].type
                    /\ old.profiles[p].secret => P[p].secret
    <2>1. new.profiles[p] \in Profile
      BY <1>2
    <2>2. CASE p \in DOMAIN old.profiles /\ old.profiles[p].type = new.profiles[p].type
      <3>1. P[p] = [new.profiles[p] EXCEPT !.secret = @ \/ old.profiles[p].secret]
        BY <2>2
      <3>2. P[p].type = new.profiles[p].type
            /\ P[p].secret = (new.profiles[p].secret \/ old.profiles[p].secret)
            /\ P[p] = [type |-> P[p].type, secret |-> P[p].secret]
        BY <2>1, <3>1 DEF Profile
      <3>3. (new.profiles[p].secret \/ old.profiles[p].secret) \in BOOLEAN
        OBVIOUS
      <3>4. P[p] \in Profile
        BY <2>1, <3>2, <3>3 DEF Profile
      <3> QED BY <3>2, <3>4
    <2>3. CASE ~(p \in DOMAIN old.profiles /\ old.profiles[p].type = new.profiles[p].type)
      BY <2>1, <2>3
    <2> QED BY <2>2, <2>3
  <1>4. DOMAIN P = DOMAIN new.profiles /\ P \in [DOMAIN new.profiles -> Profile]
    <2>1. DOMAIN P = DOMAIN new.profiles /\ P = [p \in DOMAIN new.profiles |-> P[p]]
      OBVIOUS
    <2> HIDE DEF P
    <2> QED BY <1>3, <2>1
  <1>5. P \in Maps(Profiles, Profile)
    <2> HIDE DEF P
    <2> QED BY <1>2, <1>4, MapsIntro
  <1>6. g = [new EXCEPT !.profiles = P]
    BY DEF MergeProxySecrets
  <1>7. g.profiles = P /\ g.default = new.default /\ g.byIp = new.byIp
    <2> HIDE DEF P, g
    <2> QED BY <1>1, <1>6
  <1>8. g \in RegistryOf(A)
    <2> HIDE DEF P, g
    <2> QED BY <1>5, <1>6 DEF RegistryOf
  <1> HIDE DEF P
  <1> QED BY <1>3, <1>4, <1>7, <1>8

\* A request that is not refused makes a value of its store out of one.
LEMMA ChangedType ==
  ASSUME NEW q \in Bodies, NEW old \in Values(StoreOf(q)), ~Refused(q, old)
  PROVE  Changed(q, old) \in Values(StoreOf(q))
  <1>1. CASE q.op = "put_hosts"
    <2>1. Changed(q, old) = q.arg /\ StoreOf(q) = "hosts" /\ q.arg \in HostsTables
      BY <1>1, BodyFacts DEF Changed, Refused
    <2> QED BY <2>1 DEF Values
  <1>2. CASE q.op = "put_upstreams"
    <2> DEFINE g == MergeProxySecrets(q.arg, old)
    <2>1. StoreOf(q) = "upstreams" /\ q.arg \in RegistryOf(Ips \cup Spellings)
      BY <1>2, BodyFacts, PanelAssumption
    <2>2. old \in RegistryOf(Ips) /\ Values(StoreOf(q)) = {reg \in RegistryOf(Ips) : Sound(reg)}
      BY <2>1 DEF Values
    <2>3. g \in RegistryOf(Ips \cup Spellings) /\ FromParts(g)
      BY <1>2, <2>1, <2>2, MergeFacts DEF Refused
    <2>4. Changed(q, old) = [g EXCEPT !.byIp = NormalKeys(@)]
      BY <1>2 DEF Changed
    <2> HIDE DEF g
    <2>5. g.byIp \in Maps(Ips \cup Spellings, Profiles)
          /\ \A x \in DOMAIN g.byIp : g.byIp[x] \in DOMAIN g.profiles /\ NormalizeClientIp(x) # None
      BY <2>3, RegistryFacts DEF FromParts
    <2> DEFINE b == NormalKeys(g.byIp)
    <2>6. b \in Maps(Ips, Profiles) /\ \A ip \in DOMAIN b : b[ip] \in DOMAIN g.profiles
      BY <2>5, NormalKeysType
    <2>7. Changed(q, old) = [g EXCEPT !.byIp = b]
      BY <2>4
    <2> HIDE DEF b
    <2>8. Changed(q, old) \in RegistryOf(Ips)
          /\ Changed(q, old).byIp = b /\ Changed(q, old).profiles = g.profiles
          /\ Changed(q, old).default = g.default
      BY <2>3, <2>6, <2>7 DEF RegistryOf
    <2> QED BY <2>2, <2>3, <2>6, <2>8 DEF Sound, FromParts
  <1>3. CASE q.op \in {"set_client", "del_client"}
    <2>1. StoreOf(q) = "upstreams" /\ NormalizeClientIp(q.ip) \in Ips
          /\ (q.op = "set_client" => q.profile \in Profiles /\ q.profile \in DOMAIN old.profiles)
      BY <1>3, BodyFacts, NormalType DEF Refused
    <2>2. /\ old \in RegistryOf(Ips) /\ Sound(old)
          /\ Values(StoreOf(q)) = {reg \in RegistryOf(Ips) : Sound(reg)}
      BY <2>1 DEF Values
    <2>3. old.byIp \in Maps(Ips, Profiles) /\ old.default \in Profiles
      BY <2>2, RegistryFacts
    <2> DEFINE k == NormalizeClientIp(q.ip)
               b == IF q.op = "set_client" THEN With(old.byIp, k, q.profile)
                    ELSE Without(old.byIp, k)
    <2>4. Changed(q, old) = [old EXCEPT !.byIp = b]
      BY <1>3 DEF Changed
    <2>5. b \in Maps(Ips, Profiles)
      BY <2>1, <2>3, WithType
    <2>6. \A ip \in DOMAIN b : b[ip] \in DOMAIN old.profiles
      BY <1>3, <2>1, <2>2 DEF Sound, With, Without
    <2> HIDE DEF b
    <2>7. Changed(q, old) \in RegistryOf(Ips)
          /\ Changed(q, old).byIp = b /\ Changed(q, old).profiles = old.profiles
          /\ Changed(q, old).default = old.default
      BY <2>2, <2>4, <2>5 DEF RegistryOf
    <2> QED BY <2>2, <2>6, <2>7 DEF Sound
  <1>4. CASE q.op = "put_whitelist"
    <2>1. StoreOf(q) = "whitelist" /\ q.arg \in Maps(Ips \cup Spellings, Users)
          /\ \A x \in DOMAIN q.arg : NormalizeClientIp(x) # None
      BY <1>4, BodyFacts, PanelAssumption DEF Refused
    <2>2. NormalKeys(q.arg) \in Maps(Ips, Users)
      BY <2>1, NormalKeysType
    <2>3. old.sync \in BOOLEAN
      BY <2>1 DEF Values, Whitelist
    <2>4. (IF q.sync = "keep" THEN old.sync ELSE q.sync = "on") \in BOOLEAN
      BY <2>3
    <2>5. Changed(q, old) \in Whitelist
      BY <1>4, <2>2, <2>4 DEF Changed, Whitelist
    <2> QED BY <2>1, <2>5 DEF Values
  <1>5. CASE q.op \in {"add_ip", "del_ip"}
    <2>1. StoreOf(q) = "whitelist" /\ NormalizeClientIp(q.ip) \in Ips
          /\ (q.op = "add_ip" => q.user \in Users)
      BY <1>5, BodyFacts, NormalType DEF Refused
    <2>2. old \in Whitelist /\ old.ips \in Maps(Ips, Users)
      BY <2>1 DEF Values, Whitelist
    <2> DEFINE k == NormalizeClientIp(q.ip)
               b == IF q.op = "add_ip" THEN With(old.ips, k, q.user) ELSE Without(old.ips, k)
    <2>3. Changed(q, old) = [old EXCEPT !.ips = b]
      BY <1>5 DEF Changed
    <2>4. "" \in Users
      BY PanelAssumption
    <2>5. b \in Maps(Ips, Users)
      BY <2>1, <2>2, <2>4, WithType
    <2> HIDE DEF b
    <2>6. Changed(q, old) \in Whitelist
      BY <2>2, <2>3, <2>5 DEF Whitelist
    <2> QED BY <2>1, <2>6 DEF Values
  <1> QED BY <1>1, <1>2, <1>3, <1>4, <1>5, BodyFacts

------------------------------------------------------------------------------
(* Types and control *)

Pcs == {"idle", "prev", "ufw", "live", "entries", "read", "truncate", "write"}
StoresOK == /\ hostsLive \in HostsTables /\ live \in Docs /\ file \in Docs \cup {Unparsable}
            /\ DOMAIN serial = Stores /\ ufw \in Maps(Ips, Users)
HistoryOK == /\ raced \subseteq Stores /\ unsaved \subseteq Stores /\ missed \subseteq Misses
             /\ torn \in BOOLEAN /\ made \in 0..MaxRequests
FieldsOK == /\ pc \in [Requests -> Pcs] /\ DOMAIN req = Requests /\ DOMAIN mine = Requests
            /\ DOMAIN prev = Requests /\ DOMAIN doc = Requests

Step(r) == (\E q \in Bodies : Begin(r, q)) \/ Handle(r)

\* The invariant in parts.
LEMMA TypeParts ==
  /\ TypeInv <=> /\ StoresOK /\ HistoryOK /\ FieldsOK
                 /\ \A r \in Requests : Active(r) => RequestOK(r)
  /\ TypeInv' <=> /\ StoresOK' /\ HistoryOK' /\ FieldsOK'
                  /\ \A r \in Requests : Active(r)' => RequestOK(r)'
  BY DEF TypeInv, TypeOK, StoresOK, HistoryOK, FieldsOK, Pcs, Docs

\* A step of one request leaves what the others are doing alone.
LEMMA Frame ==
  ASSUME TypeInv, NEW r \in Requests, Step(r)
  PROVE  /\ FieldsOK'
         /\ \A x \in Requests : x # r =>
              /\ pc'[x] = pc[x] /\ req'[x] = req[x] /\ mine'[x] = mine[x]
              /\ prev'[x] = prev[x] /\ doc'[x] = doc[x]
  <1>0. FieldsOK
    BY TypeParts
  <1>1. CASE \E q \in Bodies : Begin(r, q)
    BY <1>0, <1>1 DEF Begin, FieldsOK, Pcs
  <1>2. CASE ReadPrev(r)
    BY <1>0, <1>2 DEF ReadPrev, FieldsOK, Pcs
  <1>3. CASE UfwStep(r)
    BY <1>0, <1>3 DEF UfwStep, FieldsOK, Pcs
  <1>4. CASE WriteHostsLive(r)
    BY <1>0, <1>4 DEF WriteHostsLive, FieldsOK, Pcs
  <1>5. CASE WriteLive(r)
    BY <1>0, <1>5 DEF WriteLive, Done, FieldsOK, Pcs
  <1>6. CASE ReadYaml(r)
    BY <1>0, <1>6 DEF ReadYaml, NotSaved, Persisted, Done, FieldsOK, Pcs
  <1>7. CASE TruncateYaml(r)
    BY <1>0, <1>7 DEF TruncateYaml, NotSaved, Persisted, Done, FieldsOK, Pcs
  <1>8. CASE WriteYaml(r)
    BY <1>0, <1>8 DEF WriteYaml, NotSaved, Persisted, Done, FieldsOK, Pcs
  <1> QED BY <1>1, <1>2, <1>3, <1>4, <1>5, <1>6, <1>7, <1>8 DEF Step, Handle

\* persist_*_yaml ends: a whitelist goes on to the live list, the others are done.
LEMMA PersistedFacts ==
  ASSUME FieldsOK, NEW r \in Requests, Persisted(r)
  PROVE  /\ StoreOf(req[r]) = "whitelist" =>
              pc'[r] = "live" /\ req'[r] = req[r] /\ mine'[r] = mine[r]
         /\ StoreOf(req[r]) # "whitelist" => pc'[r] = "idle"
  BY DEF Persisted, Done, FieldsOK, Pcs

\* A request that comes in: it is answered at once, or its handler has copied the live
\* value and made the change.
LEMMA BeginFacts ==
  ASSUME TypeInv, NEW r \in Requests, NEW q \in Bodies, Begin(r, q)
  PROVE  /\ ~Active(r) /\ UNCHANGED <<stores, doc, serial, torn, unsaved, missed>>
         /\ \/ UNCHANGED <<pc, req, mine, prev, raced>>
            \/ /\ ~Refused(q, live[StoreOf(q)]) /\ Active(r)' /\ req'[r] = q
               /\ mine'[r] = Changed(q, live[StoreOf(q)])
               /\ pc'[r] \in {"prev", "ufw", "live"}
               /\ pc'[r] = "prev" => q.op = "put_whitelist"
               /\ pc'[r] = "ufw" => prev'[r] = live[StoreOf(q)].ips
                                    /\ q.op \in {"add_ip", "del_ip"}
               /\ pc'[r] = "live" => q.op \notin {"put_whitelist", "add_ip", "del_ip"}
               /\ raced' = IF \E x \in Requests : On(x, StoreOf(q))
                           THEN raced \cup {StoreOf(q)} ELSE raced
  <1>0. FieldsOK
    BY TypeParts
  <1>1. /\ pc[r] = "idle" /\ UNCHANGED <<stores, doc, serial, torn, unsaved, missed>>
        /\ \/ UNCHANGED <<pc, req, mine, prev, raced>>
           \/ /\ ~Refused(q, Copy(q))
              /\ req' = [req EXCEPT ![r] = q]
              /\ mine' = [mine EXCEPT ![r] = Changed(q, Copy(q))]
              /\ prev' = IF q.op \in {"add_ip", "del_ip"}
                         THEN [prev EXCEPT ![r] = Copy(q).ips] ELSE prev
              /\ pc' = [pc EXCEPT ![r] =
                          CASE q.op = "put_whitelist" -> "prev"
                            [] q.op \in {"add_ip", "del_ip"} -> "ufw"
                            [] OTHER -> "live"]
              /\ raced' = IF \E x \in Requests : On(x, StoreOf(q))
                          THEN raced \cup {StoreOf(q)} ELSE raced
    BY DEF Begin, On
  <1>2. CASE UNCHANGED <<pc, req, mine, prev, raced>>
    BY <1>1, <1>2 DEF Active
  <1>3. CASE ~UNCHANGED <<pc, req, mine, prev, raced>>
    <2>1. /\ req'[r] = q /\ mine'[r] = Changed(q, Copy(q)) /\ ~Refused(q, Copy(q))
          /\ q.op \in {"add_ip", "del_ip"} => prev'[r] = Copy(q).ips
      BY <1>0, <1>1, <1>3 DEF FieldsOK
    <2>2. pc'[r] = CASE q.op = "put_whitelist" -> "prev"
                    [] q.op \in {"add_ip", "del_ip"} -> "ufw"
                    [] OTHER -> "live"
      BY <1>0, <1>1, <1>3 DEF FieldsOK
    <2> QED BY <1>1, <1>3, <2>1, <2>2 DEF Active, Copy
  <1> QED BY <1>2, <1>3

\* Where each step of a handler begins, where it ends, and what it makes of the request.
LEMMA HandleFacts ==
  ASSUME TypeInv, NEW r \in Requests
  PROVE  /\ ReadPrev(r) => /\ pc[r] = "prev" /\ pc'[r] = "ufw" /\ prev'[r] = live.whitelist.ips
                           /\ UNCHANGED <<req, mine, doc>>
         /\ UfwStep(r) => pc[r] = "ufw" /\ pc'[r] = "read" /\ UNCHANGED <<req, mine, doc>>
         /\ WriteHostsLive(r) => /\ pc[r] = "live" /\ StoreOf(req[r]) = "hosts"
                                 /\ pc'[r] = "entries" /\ UNCHANGED <<req, mine, doc>>
         /\ WriteLive(r) =>
              /\ pc[r] \in {"entries", "live"}
              /\ pc[r] = "live" => StoreOf(req[r]) # "hosts"
              /\ IF StoreOf(req[r]) = "whitelist" THEN pc'[r] = "idle"
                 ELSE pc'[r] = "read" /\ UNCHANGED <<req, mine, doc>>
         /\ ReadYaml(r) =>
              /\ pc[r] = "read"
              /\ \/ /\ file # Unparsable /\ pc'[r] = "truncate" /\ UNCHANGED <<req, mine, unsaved>>
                    /\ doc'[r] = [file EXCEPT ![StoreOf(req[r])] = mine[r]]
                    /\ torn' = (torn \/ \E x \in Requests : pc[x] \in {"truncate", "write"})
                 \/ NotSaved(r) /\ UNCHANGED <<doc, torn>>
         /\ TruncateYaml(r) =>
              /\ pc[r] = "truncate"
              /\ \/ file' = Unparsable /\ pc'[r] = "write" /\ UNCHANGED <<req, mine, doc, unsaved>>
                 \/ NotSaved(r) /\ file' = file
  BY TypeParts DEF FieldsOK, ReadPrev, UfwStep, WriteHostsLive, WriteLive, Done, ReadYaml,
                   TruncateYaml

\* A request that has been begun is of its type.
LEMMA BeginType ==
  ASSUME TypeInv, NEW r \in Requests, NEW q \in Bodies, Begin(r, q)
  PROVE  TypeInv'
  <1>0. StoresOK /\ HistoryOK /\ FieldsOK /\ \A x \in Requests : Active(x) => RequestOK(x)
    BY TypeParts
  <1>1. FieldsOK' /\ \A x \in Requests : x # r =>
          /\ pc'[x] = pc[x] /\ req'[x] = req[x] /\ mine'[x] = mine[x]
          /\ prev'[x] = prev[x] /\ doc'[x] = doc[x]
    BY Frame DEF Step
  <1>2. StoreOf(q) \in Stores /\ live[StoreOf(q)] \in Values(StoreOf(q))
    BY <1>0, StoreType, DocFacts DEF StoresOK
  <1>3. StoresOK'
    BY <1>0, BeginFacts DEF StoresOK, stores
  <1>4. HistoryOK'
    <2>1. made' \in 0..MaxRequests
      <3>1. made \in 0..MaxRequests /\ made < MaxRequests /\ made' = made + 1
        BY <1>0 DEF Begin, HistoryOK
      <3>2. MaxRequests \in Nat
        BY PanelAssumption
      <3> QED BY <3>1, <3>2
    <2>2. raced' \subseteq Stores
      BY <1>0, <1>2, BeginFacts DEF HistoryOK
    <2> QED BY <1>0, <2>1, <2>2, BeginFacts DEF HistoryOK
  <1>5. ASSUME NEW x \in Requests, x # r, Active(x)' PROVE RequestOK(x)'
    BY <1>0, <1>1, <1>5 DEF RequestOK, Active
  <1>6. ASSUME Active(r)' PROVE RequestOK(r)'
    <2>1. /\ ~Refused(q, live[StoreOf(q)]) /\ req'[r] = q
          /\ mine'[r] = Changed(q, live[StoreOf(q)])
          /\ pc'[r] \in {"prev", "ufw", "live"}
          /\ pc'[r] = "prev" => q.op = "put_whitelist"
          /\ pc'[r] = "ufw" => prev'[r] = live[StoreOf(q)].ips /\ q.op \in {"add_ip", "del_ip"}
      BY <1>6, BeginFacts DEF Active
    <2>2. mine'[r] \in Values(StoreOf(q))
      BY <1>2, <2>1, ChangedType
    <2>3. pc'[r] = "ufw" => StoreOf(q) = "whitelist" /\ prev'[r] \in Maps(Ips, Users)
      <3>1. q.op \in {"add_ip", "del_ip"} => StoreOf(q) = "whitelist"
        BY StoreType
      <3> QED BY <1>2, <2>1, <3>1 DEF Values, Whitelist
    <2> QED BY <2>1, <2>2, <2>3 DEF RequestOK
  <1> QED BY <1>1, <1>3, <1>4, <1>5, <1>6, TypeParts

\* The firewall commands keep the firewall a map from addresses to users.
LEMMA UfwType ==
  ASSUME TypeInv, NEW r \in Requests, UfwStep(r)
  PROVE  ufw' \in Maps(Ips, Users) /\ missed' \subseteq Misses
  <1>1. pc[r] = "ufw" /\ RequestOK(r) /\ ufw \in Maps(Ips, Users) /\ missed \subseteq Misses
    BY TypeParts DEF UfwStep, Active, StoresOK, HistoryOK
  <1>2. mine[r].ips \in Maps(Ips, Users)
    BY <1>1 DEF RequestOK, Values, Whitelist
  <1> DEFINE new == mine[r].ips
             change == IF mine[r].sync THEN UfwChanges(req[r], new, prev[r]) ELSE {}
             allow == change \cap DOMAIN new
  <1>3. PICK ok \in SUBSET change : \E lost \in SUBSET ((allow \cap DOMAIN ufw) \ ok) :
           ufw' = [ip \in (DOMAIN ufw \ (lost \cup (ok \ allow))) \cup (ok \cap allow) |->
                     IF ip \in ok THEN new[ip] ELSE ufw[ip]]
    BY DEF UfwStep
  <1>4. PICK lost \in SUBSET ((allow \cap DOMAIN ufw) \ ok) :
           ufw' = [ip \in (DOMAIN ufw \ (lost \cup (ok \ allow))) \cup (ok \cap allow) |->
                     IF ip \in ok THEN new[ip] ELSE ufw[ip]]
    BY <1>3
  <1> DEFINE D == (DOMAIN ufw \ (lost \cup (ok \ allow))) \cup (ok \cap allow)
  <1>5. /\ DOMAIN ufw \subseteq Ips /\ \A ip \in DOMAIN ufw : ufw[ip] \in Users
        /\ DOMAIN new \subseteq Ips /\ \A ip \in DOMAIN new : new[ip] \in Users
    BY <1>1, <1>2, MapsFacts
  <1> HIDE DEF new, change
  <1>6. D \in SUBSET Ips /\ \A ip \in D : ip \in ok => ip \in DOMAIN new
    BY <1>5
  <1>7. \A ip \in D : ip \notin ok => ip \in DOMAIN ufw
    OBVIOUS
  <1>8. ufw' \in [D -> Users]
    <2> HIDE DEF D
    <2>1. ufw' = [ip \in D |-> IF ip \in ok THEN new[ip] ELSE ufw[ip]]
      BY <1>4 DEF D
    <2> QED BY <1>5, <1>6, <1>7, <2>1
  <1>9. ufw' \in Maps(Ips, Users)
    <2> HIDE DEF D
    <2> QED BY <1>6, <1>8, MapsIntro
  <1>10. missed' \subseteq Misses
    BY <1>1 DEF UfwStep, Misses
  <1> QED BY <1>9, <1>10

\* So do the steps of a handler.
LEMMA HandleType ==
  ASSUME TypeInv, NEW r \in Requests, Handle(r)
  PROVE  TypeInv'
  <1>0. StoresOK /\ HistoryOK /\ FieldsOK /\ \A x \in Requests : Active(x) => RequestOK(x)
    BY TypeParts
  <1>1. FieldsOK' /\ \A x \in Requests : x # r =>
          /\ pc'[x] = pc[x] /\ req'[x] = req[x] /\ mine'[x] = mine[x]
          /\ prev'[x] = prev[x] /\ doc'[x] = doc[x]
    BY Frame DEF Step
  <1>2. Active(r)
    BY DEF Handle, ReadPrev, UfwStep, WriteHostsLive, WriteLive, ReadYaml, TruncateYaml,
           WriteYaml, Active
  <1>3. /\ RequestOK(r) /\ req[r] \in Bodies /\ mine[r] \in Values(StoreOf(req[r]))
        /\ StoreOf(req[r]) \in Stores
    BY <1>0, <1>2, StoreType DEF RequestOK
  <1>4. live[StoreOf(req[r])] \in Values(StoreOf(req[r]))
        /\ live["whitelist"] \in Values("whitelist")
    BY <1>0, <1>3, DocFacts DEF StoresOK, Stores
  <1>5. ASSUME NEW x \in Requests, x # r, Active(x)' PROVE RequestOK(x)'
    BY <1>0, <1>1, <1>5 DEF RequestOK, Active
  <1> SUFFICES StoresOK' /\ HistoryOK' /\ (Active(r)' => RequestOK(r)')
    BY <1>1, <1>5, TypeParts
  <1>6. CASE ReadPrev(r)
    <2>1. live.whitelist.ips \in Maps(Ips, Users)
      BY <1>4 DEF Values, Whitelist
    <2>2. StoreOf(req[r]) = "whitelist"
      BY <1>3, <1>6, HandleFacts, StoreType DEF RequestOK
    <2>3. RequestOK(r)'
      BY <1>3, <1>6, <2>1, <2>2, HandleFacts DEF RequestOK
    <2>4. StoresOK' /\ HistoryOK'
      BY <1>0, <1>6 DEF ReadPrev, StoresOK, HistoryOK, stores, history
    <2> QED BY <2>3, <2>4
  <1>7. CASE UfwStep(r)
    <2>1. RequestOK(r)'
      BY <1>3, <1>7, HandleFacts DEF RequestOK
    <2>2. StoresOK' /\ HistoryOK'
      BY <1>0, <1>7, UfwType DEF UfwStep, StoresOK, HistoryOK
    <2> QED BY <2>1, <2>2
  <1>8. CASE WriteHostsLive(r)
    <2>1. RequestOK(r)' /\ mine[r] \in HostsTables
      BY <1>3, <1>8, HandleFacts DEF RequestOK, Values
    <2>2. StoresOK' /\ HistoryOK'
      BY <1>0, <1>8, <2>1 DEF WriteHostsLive, StoresOK, HistoryOK, history
    <2> QED BY <2>1, <2>2
  <1>9. CASE WriteLive(r)
    <2>1. live' \in Docs
      BY <1>0, <1>3, <1>9, DocFacts DEF WriteLive, StoresOK
    <2>2. Active(r)' => RequestOK(r)'
      BY <1>3, <1>9, HandleFacts DEF RequestOK, Active
    <2>3. StoresOK' /\ HistoryOK'
      BY <1>0, <1>9, <2>1 DEF WriteLive, StoresOK, HistoryOK
    <2> QED BY <2>2, <2>3
  <1>10. ASSUME Persisted(r) PROVE Active(r)' => RequestOK(r)'
    BY <1>0, <1>3, <1>10, PersistedFacts DEF RequestOK, Active
  <1>11. CASE ReadYaml(r)
    <2>1. StoresOK' /\ HistoryOK'
      <3>1. unsaved' \subseteq Stores /\ torn' \in BOOLEAN
        BY <1>0, <1>3, <1>11, HandleFacts DEF HistoryOK, NotSaved
      <3> QED BY <1>0, <1>11, <3>1 DEF ReadYaml, StoresOK, HistoryOK, stores
    <2>2. CASE NotSaved(r)
      BY <1>10, <2>1, <2>2 DEF NotSaved
    <2>3. CASE ~NotSaved(r)
      <3>1. /\ file \in Docs /\ pc'[r] = "truncate" /\ UNCHANGED <<req, mine>>
            /\ doc'[r] = [file EXCEPT ![StoreOf(req[r])] = mine[r]]
        BY <1>0, <1>11, <2>3, HandleFacts DEF StoresOK
      <3>2. doc'[r] \in Docs
        BY <1>3, <3>1, DocFacts
      <3> QED BY <1>3, <2>1, <3>1, <3>2 DEF RequestOK
    <2> QED BY <2>2, <2>3
  <1>12. CASE TruncateYaml(r)
    <2>1. StoresOK' /\ HistoryOK'
      <3>1. unsaved' \subseteq Stores /\ file' \in Docs \cup {Unparsable}
        BY <1>0, <1>3, <1>12, HandleFacts DEF StoresOK, HistoryOK, NotSaved
      <3> QED BY <1>0, <1>12, <3>1 DEF TruncateYaml, StoresOK, HistoryOK
    <2>2. CASE NotSaved(r)
      BY <1>10, <2>1, <2>2 DEF NotSaved
    <2>3. CASE ~NotSaved(r)
      BY <1>3, <1>12, <2>1, <2>3, HandleFacts DEF RequestOK
    <2> QED BY <2>2, <2>3
  <1>13. CASE WriteYaml(r)
    <2>1. doc[r] \in Docs /\ Persisted(r)
      BY <1>3, <1>13 DEF WriteYaml, NotSaved, RequestOK
    <2>2. /\ unsaved' \subseteq Stores /\ file' \in Docs \cup {Unparsable}
          /\ missed' \subseteq Misses
      BY <1>0, <1>3, <1>13, <2>1 DEF WriteYaml, NotSaved, HistoryOK, Misses
    <2>3. StoresOK' /\ HistoryOK'
      BY <1>0, <1>13, <2>2 DEF WriteYaml, StoresOK, HistoryOK
    <2> QED BY <1>10, <2>1, <2>3
  <1> QED BY <1>6, <1>7, <1>8, <1>9, <1>11, <1>12, <1>13 DEF Handle

\* The configuration at the start.
LEMMA InitType == Init => TypeInv
  <1> SUFFICES ASSUME Init PROVE TypeInv
    OBVIOUS
  <1>1. Start \in Docs /\ DOMAIN Start = Stores
    <2>1. [ips |-> StartWhitelist, sync |-> StartSync] \in Whitelist
      BY PanelAssumption DEF Whitelist
    <2>2. Start \in Config
      BY <2>1, PanelAssumption DEF Start, Config
    <2>3. Sound(Start.upstreams)
      BY PanelAssumption DEF Start, Sound
    <2> QED BY <2>2, <2>3 DEF Docs, Start, Stores
  <1>2. StoresOK
    BY <1>1, PanelAssumption DEF Init, StoresOK
  <1>3. FieldsOK
    BY DEF Init, FieldsOK, Pcs
  <1>4. HistoryOK
    <2>0. MaxRequests \in Nat
      BY PanelAssumption
    <2>1. made = 0 /\ 0 \in 0..MaxRequests
      BY <2>0 DEF Init
    <2>2. torn \in BOOLEAN /\ raced = {} /\ unsaved = {} /\ missed \subseteq {"off"}
      BY DEF Init
    <2> QED BY <2>1, <2>2 DEF HistoryOK, Misses
  <1>5. \A r \in Requests : ~Active(r)
    BY DEF Init, Active
  <1> QED BY <1>2, <1>3, <1>4, <1>5, TypeParts

\* Every step keeps types and control.
LEMMA StepType == TypeInv /\ [Next]_vars => TypeInv'
  <1> SUFFICES ASSUME TypeInv, [Next]_vars PROVE TypeInv'
    OBVIOUS
  <1>1. CASE UNCHANGED vars
    BY <1>1 DEF vars, stores, history, TypeInv, TypeOK, RequestOK, Active
  <1>2. CASE Next
    BY <1>2, BeginType, HandleType DEF Next
  <1> QED BY <1>1, <1>2

\* Registry, whitelist and firewall are keyed by normalized addresses, in memory and in
\* every file that can be read.
THEOREM TypeCorrect == Spec => []TypeOK
  <1>1. TypeInv => TypeOK
    BY DEF TypeInv
  <1> QED BY <1>1, InitType, StepType, PTL DEF Spec

------------------------------------------------------------------------------
(* Routes *)

\* The profiles to fall back on, in order: each of a set of them once, the default first.
LEMMA RestSeq ==
  ASSUME NEW reg, NEW T \in SUBSET Profiles
  PROVE  LET below(p) == {x \in T : Order(reg, x) < Order(reg, p)}
             n == Cardinality(T)
             s == [i \in 1..n |-> CHOOSE p \in T : Cardinality(below(p)) = i - 1]
         IN /\ n \in Nat /\ s \in Bijection(1..n, T)
            /\ reg.default \in T => n >= 1 /\ s[1] = reg.default
  <1> DEFINE n == Cardinality(T)
             below(p) == {x \in T : Order(reg, x) < Order(reg, p)}
             rank == [p \in T |-> Cardinality(below(p))]
             s == [i \in 1..n |-> CHOOSE p \in T : Cardinality(below(p)) = i - 1]
  <1>1. T \subseteq Nat /\ IsFiniteSet(T) /\ n \in Nat
    <2>1. Profiles \subseteq Nat /\ IsFiniteSet(Profiles)
      BY PanelAssumption
    <2> QED BY <2>1, FS_Subset, FS_CardinalityType
  <1>2. /\ \A p \in T : Order(reg, p) \in Nat
        /\ \A p, q \in T : Order(reg, p) = Order(reg, q) => p = q
        /\ \A p \in T : Order(reg, p) = 0 <=> p = reg.default
    BY <1>1 DEF Order
  <1>3. ASSUME NEW p \in T
        PROVE  IsFiniteSet(below(p)) /\ Cardinality(below(p)) \in 0..(n - 1)
    <2>1. below(p) \in SUBSET (T \ {p})
      BY <1>2
    <2>2. IsFiniteSet(T \ {p}) /\ Cardinality(T \ {p}) = n - 1
      BY <1>1, FS_RemoveElement
    <2>3. IsFiniteSet(below(p)) /\ Cardinality(below(p)) <= n - 1
      BY <2>1, <2>2, FS_Subset
    <2>4. Cardinality(below(p)) \in Nat
      BY <2>3, FS_CardinalityType
    <2> QED BY <1>1, <2>3, <2>4
  <1>4. ASSUME NEW p \in T, NEW q \in T, Order(reg, p) < Order(reg, q)
        PROVE  Cardinality(below(p)) # Cardinality(below(q))
    <2>1. below(p) \in SUBSET below(q) /\ p \in below(q) /\ p \notin below(p)
      BY <1>2, <1>4
    <2>2. IsFiniteSet(below(q))
      BY <1>3
    <2> QED BY <2>1, <2>2, FS_Subset
  <1>5. \A p, q \in T : p # q => Cardinality(below(p)) # Cardinality(below(q))
    <2> SUFFICES ASSUME NEW p \in T, NEW q \in T, p # q
                 PROVE  Cardinality(below(p)) # Cardinality(below(q))
      OBVIOUS
    <2>1. Order(reg, p) < Order(reg, q) \/ Order(reg, q) < Order(reg, p)
      BY <1>2
    <2> QED BY <1>4, <2>1
  <1>6. rank \in Injection(T, 0..(n - 1))
    <2> HIDE DEF below
    <2>1. rank \in [T -> 0..(n - 1)]
      BY <1>3
    <2>2. IsInjective(rank)
      BY <1>5 DEF IsInjective
    <2> QED BY <2>1, <2>2 DEF Injection
  <1>7. rank \in Surjection(T, 0..(n - 1))
    <2>1. IsFiniteSet(0..(n - 1)) /\ Cardinality(0..(n - 1)) = n
      <3>1. n \in Nat /\ 0 \in Int /\ n - 1 \in Int
        BY <1>1
      <3> HIDE DEF n
      <3> QED BY <3>1, FS_Interval
    <2> HIDE DEF rank
    <2> QED BY <1>1, <1>6, <2>1, FS_Injection
  <1>8. s = [i \in 1..n |-> CHOOSE p \in T : Cardinality(below(p)) = i - 1]
    OBVIOUS
  <1> HIDE DEF s, below
  <1>9. ASSUME NEW i \in 1..n
        PROVE  s[i] \in T /\ Cardinality(below(s[i])) = i - 1
    <2>1. i - 1 \in 0..(n - 1)
      BY <1>1
    <2>2. \E p \in T : rank[p] = i - 1
      BY <1>7, <2>1 DEF Surjection
    <2>3. \E p \in T : Cardinality(below(p)) = i - 1
      BY <2>2
    <2> QED BY <1>8, <2>3
  <1>10. s \in [1..n -> T]
    BY <1>8, <1>9
  <1>11. ASSUME NEW p \in T
         PROVE  /\ Cardinality(below(p)) + 1 \in 1..n
                /\ s[Cardinality(below(p)) + 1] = p
    <2>1. Cardinality(below(p)) + 1 \in 1..n
          /\ Cardinality(below(p)) = (Cardinality(below(p)) + 1) - 1
      BY <1>1, <1>3
    <2>2. s[Cardinality(below(p)) + 1] \in T
          /\ Cardinality(below(s[Cardinality(below(p)) + 1])) = Cardinality(below(p))
      BY <1>9, <2>1
    <2> QED BY <1>5, <2>1, <2>2
  <1>12. s \in Bijection(1..n, T)
    <2>1. \A i, j \in 1..n : s[i] = s[j] => i = j
      BY <1>1, <1>9
    <2>2. \A p \in T : \E i \in 1..n : s[i] = p
      BY <1>11
    <2> QED BY <1>10, <2>1, <2>2 DEF Bijection, Injection, Surjection, IsInjective
  <1>13. ASSUME reg.default \in T PROVE n >= 1 /\ s[1] = reg.default
    <2>1. below(reg.default) = {}
      BY <1>2, <1>13 DEF below
    <2>2. Cardinality(below(reg.default)) = 0
      BY <2>1, FS_EmptySet
    <2>3. 0 + 1 \in 1..n /\ s[0 + 1] = reg.default
      BY <1>11, <1>13, <2>2
    <2>4. n \in Nat
      BY <1>1
    <2> HIDE DEF n
    <2> QED BY <2>3, <2>4
  <1> QED BY <1>1, <1>12, <1>13 DEF s, below

\* connect_candidates of a registry that names only profiles it has.
LEMMA Candidates ==
  ASSUME NEW reg \in RegistryOf(Ips), Sound(reg), NEW ip \in Ips
  PROVE  LET c == ConnectCandidates(reg, ip)
         IN /\ c # <<>>
            /\ c[1] = (IF ip \in DOMAIN reg.byIp THEN reg.byIp[ip] ELSE reg.default)
            /\ Len(c) = (IF reg.failover THEN Cardinality(DOMAIN reg.profiles) ELSE 1)
            /\ ToSet(c) \subseteq DOMAIN reg.profiles /\ Cardinality(ToSet(c)) = Len(c)
            /\ reg.failover /\ c[1] # reg.default => c[2] = reg.default
  <1> DEFINE P == DOMAIN reg.profiles
             primary == ProfileNameForIp(reg, ip)
             c == ConnectCandidates(reg, ip)
             T == P \ {primary}
             n == Cardinality(T)
             rank(p) == Cardinality({x \in T : Order(reg, x) < Order(reg, p)})
             s == [i \in 1..n |-> CHOOSE p \in T : rank(p) = i - 1]
  <1>1. /\ primary \in P
        /\ primary = (IF ip \in DOMAIN reg.byIp THEN reg.byIp[ip] ELSE reg.default)
    BY DEF ProfileNameForIp, Sound
  <1>2. P \in SUBSET Profiles /\ IsFiniteSet(P)
    <2>1. IsFiniteSet(Profiles)
      BY PanelAssumption
    <2> QED BY <2>1, RegistryFacts, MapsFacts, FS_Subset
  <1>3. CASE ~reg.failover
    <2>1. c = <<primary>>
      BY <1>1, <1>3 DEF ConnectCandidates
    <2> HIDE DEF c, primary
    <2>2. ToSet(c) = {primary} /\ Len(c) = 1 /\ c[1] = primary /\ c # <<>>
      BY <2>1 DEF ToSet
    <2>3. Cardinality(ToSet(c)) = 1
      BY <2>2, FS_Singleton
    <2>4. c[1] = (IF ip \in DOMAIN reg.byIp THEN reg.byIp[ip] ELSE reg.default)
      BY <1>1, <2>2
    <2>5. ToSet(c) \subseteq P
      BY <1>1, <2>2
    <2> HIDE DEF P
    <2> QED BY <1>3, <2>2, <2>3, <2>4, <2>5 DEF c, P
  <1>4. CASE reg.failover
    <2>1. c = <<primary>> \o s
      BY <1>1, <1>4 DEF ConnectCandidates
    <2>2. T \in SUBSET Profiles
      BY <1>2
    <2>3. n \in Nat /\ s \in Bijection(1..n, T) /\ (reg.default \in T => n >= 1 /\ s[1] = reg.default)
      <3> HIDE DEF T
      <3> QED BY <2>2, RestSeq
    <2> HIDE DEF c, s, primary, n
    <2>4. s \in [1..n -> T] /\ s \in Seq(T) /\ Len(s) = n
          /\ \A p \in T : \E i \in 1..n : s[i] = p
      BY <2>3 DEF Bijection, Injection, Surjection
    <2>5. /\ Len(c) = n + 1 /\ c[1] = primary /\ c # <<>>
          /\ \A i \in 1..n : c[i + 1] = s[i]
          /\ \A i \in 2..(n + 1) : c[i] = s[i - 1]
          /\ DOMAIN c = 1..(n + 1)
      <3>1. <<primary>> \in Seq({primary}) /\ Len(<<primary>>) = 1
        OBVIOUS
      <3> HIDE DEF T
      <3> QED BY <2>1, <2>3, <2>4, <3>1
    <2>6. ToSet(c) = P
      <3>1. ASSUME NEW i \in DOMAIN c PROVE c[i] \in P
        <4>1. CASE i = 1
          BY <1>1, <2>5, <4>1
        <4>2. CASE i # 1
          <5>1. i \in 2..(n + 1) /\ i - 1 \in 1..n
            BY <2>3, <2>5, <4>2
          <5> QED BY <2>4, <2>5, <5>1
        <4> QED BY <4>1, <4>2
      <3>2. ASSUME NEW p \in P PROVE \E i \in DOMAIN c : c[i] = p
        <4>1. CASE p = primary
          BY <2>3, <2>5, <4>1
        <4>2. CASE p # primary
          <5>1. PICK i \in 1..n : s[i] = p
            BY <2>4, <4>2
          <5>2. i + 1 \in DOMAIN c /\ c[i + 1] = p
            BY <2>3, <2>5, <5>1
          <5> QED BY <5>2
        <4> QED BY <4>1, <4>2
      <3>3. ToSet(c) = {c[i] : i \in DOMAIN c}
        BY DEF ToSet
      <3> QED BY <3>1, <3>2, <3>3
    <2>7. n + 1 = Cardinality(P)
      <3>1. Cardinality(T) = Cardinality(P) - 1 /\ Cardinality(P) \in Nat
        BY <1>1, <1>2, FS_RemoveElement, FS_CardinalityType
      <3> QED BY <3>1 DEF n
    <2>8. primary # reg.default => c[2] = reg.default
      <3> SUFFICES ASSUME primary # reg.default PROVE c[2] = reg.default
        OBVIOUS
      <3>1. reg.default \in T
        BY DEF Sound
      <3>2. n >= 1 /\ s[1] = reg.default
        BY <2>3, <3>1
      <3> QED BY <2>3, <2>5, <3>2
    <2>9. c[1] = (IF ip \in DOMAIN reg.byIp THEN reg.byIp[ip] ELSE reg.default)
      BY <1>1, <2>5
    <2>10. reg.failover /\ c[1] # reg.default => c[2] = reg.default
      BY <2>5, <2>8
    <2>11. Len(c) = Cardinality(P) /\ ToSet(c) \subseteq P /\ Cardinality(ToSet(c)) = Len(c)
      BY <2>5, <2>6, <2>7
    <2> HIDE DEF P
    <2> QED BY <1>4, <2>5, <2>9, <2>10, <2>11 DEF c, P
  <1>5. reg.failover \in BOOLEAN
    BY RegistryFacts
  <1> QED BY <1>3, <1>4, <1>5

\* Whatever requests race, connect_candidates never returns its error: every client has a
\* route in the live registry and in a file that can be read.
THEOREM RoutesAlwaysResolve == Spec => []RoutesResolve
  <1>1. TypeInv => RoutesResolve
    <2> SUFFICES ASSUME TypeInv PROVE RoutesResolve
      OBVIOUS
    <2>1. ASSUME NEW reg \in {live.upstreams} \cup
                               (IF file = Unparsable THEN {} ELSE {file.upstreams})
          PROVE  reg \in RegistryOf(Ips) /\ Sound(reg)
      <3>1. PICK c \in Docs : reg = c["upstreams"]
        BY <2>1 DEF TypeInv
      <3>2. reg \in Values("upstreams")
        BY <3>1, DocFacts DEF Stores
      <3> QED BY <3>2 DEF Values
    <2> QED BY <2>1, Candidates DEF RoutesResolve
  <1> QED BY <1>1, InitType, StepType, PTL DEF Spec

------------------------------------------------------------------------------
(* Lost changes *)

\* Only WriteLive changes a live store; the other steps of a handler keep its request and
\* its copy until it has answered.
LEMMA KeepFacts ==
  ASSUME TypeInv, NEW r \in Requests, Handle(r), ~WriteLive(r)
  PROVE  /\ Active(r) /\ UNCHANGED <<live, serial, raced>>
         /\ Active(r)' => /\ req'[r] = req[r] /\ mine'[r] = mine[r]
                          /\ Fresh(r)' <=> Fresh(r)
  <1>0. /\ FieldsOK /\ (Active(r) => RequestOK(r))
    BY TypeParts
  <1>1. Active(r) /\ UNCHANGED <<live, serial, raced>>
    BY DEF Handle, ReadPrev, UfwStep, WriteHostsLive, ReadYaml, TruncateYaml, WriteYaml,
           stores, history, Active
  <1>2. /\ pc[r] \in {"prev", "ufw"} => StoreOf(req[r]) = "whitelist"
    BY <1>0, <1>1, StoreType DEF RequestOK
  <1>3. CASE ReadPrev(r) \/ UfwStep(r) \/ WriteHostsLive(r)
    BY <1>1, <1>2, <1>3, HandleFacts DEF Fresh
  <1>4. ASSUME Persisted(r)
        PROVE  Active(r)' => /\ req'[r] = req[r] /\ mine'[r] = mine[r]
                             /\ Fresh(r)' <=> Fresh(r)
    BY <1>0, <1>4, PersistedFacts DEF Fresh, Active
  <1>5. CASE ReadYaml(r) \/ TruncateYaml(r)
    <2>1. CASE NotSaved(r)
      BY <1>1, <1>4, <2>1 DEF NotSaved
    <2>2. CASE ~NotSaved(r)
      BY <1>1, <1>5, <2>2, HandleFacts DEF Fresh
    <2> QED BY <2>1, <2>2
  <1>6. CASE WriteYaml(r)
    BY <1>1, <1>4, <1>6 DEF WriteYaml, NotSaved
  <1> QED BY <1>3, <1>5, <1>6 DEF Handle

\* What WriteLive does.
LEMMA WriteLiveFacts ==
  ASSUME TypeInv, NEW r \in Requests, WriteLive(r)
  PROVE  LET s == StoreOf(req[r])
         IN /\ s \in Stores /\ On(r, s) /\ Fresh(r) /\ raced' = raced
            /\ live'[s] = mine[r] /\ serial'[s] = Changed(req[r], serial[s])
            /\ \A t \in Stores : t # s => live'[t] = live[t] /\ serial'[t] = serial[t]
            /\ Active(r)' => /\ s # "whitelist" /\ req'[r] = req[r] /\ mine'[r] = mine[r]
                             /\ pc'[r] = "read" /\ ~Fresh(r)'
  <1>0. StoresOK /\ FieldsOK /\ (Active(r) => RequestOK(r))
    BY TypeParts
  <1>1. Active(r) /\ Fresh(r) /\ On(r, StoreOf(req[r])) /\ StoreOf(req[r]) \in Stores
    BY <1>0, HandleFacts, StoreType DEF Active, Fresh, On, RequestOK
  <1>2. DOMAIN live = Stores /\ DOMAIN serial = Stores
    BY <1>0, DocFacts DEF StoresOK
  <1>3. /\ live' = [live EXCEPT ![StoreOf(req[r])] = mine[r]]
        /\ serial' = [serial EXCEPT ![StoreOf(req[r])] = Changed(req[r], serial[StoreOf(req[r])])]
        /\ raced' = raced
    BY DEF WriteLive
  <1>4. Active(r)' => /\ StoreOf(req[r]) # "whitelist" /\ req'[r] = req[r] /\ mine'[r] = mine[r]
                      /\ pc'[r] = "read" /\ ~Fresh(r)'
    BY HandleFacts DEF Active, Fresh
  <1> QED BY <1>1, <1>2, <1>3, <1>4

\* No step lets two requests for a store that has not raced work on different copies.
LEMMA AloneStep ==
  ASSUME TypeInv, AloneOK, NEW r \in Requests, Step(r)
  PROVE  AloneOK'
  <1>0. \A x \in Requests : x # r =>
          /\ pc'[x] = pc[x] /\ req'[x] = req[x] /\ mine'[x] = mine[x]
    BY Frame
  <1>1. \A x \in Requests, s \in Stores : x # r =>
          (On(x, s)' <=> On(x, s)) /\ (Fresh(x)' <=> Fresh(x))
    BY <1>0 DEF On, Active, Fresh
  <1> SUFFICES ASSUME NEW s \in Stores, s \notin raced'
               PROVE  /\ \A w, x \in Requests : On(w, s)' /\ On(x, s)' => w = x
                      /\ live'[s] = serial'[s]
                      /\ \A x \in Requests : On(x, s)' =>
                           mine'[x] = IF Fresh(x)' THEN Changed(req'[x], live'[s]) ELSE live'[s]
    BY DEF AloneOK
  <1>2. ASSUME s \notin raced
        PROVE  /\ \A w, x \in Requests : On(w, s) /\ On(x, s) => w = x
               /\ live[s] = serial[s]
               /\ \A x \in Requests : On(x, s) =>
                    mine[x] = IF Fresh(x) THEN Changed(req[x], live[s]) ELSE live[s]
    BY <1>2 DEF AloneOK
  <1>3. ASSUME NEW q \in Bodies, Begin(r, q)
        PROVE  /\ \A w, x \in Requests : On(w, s)' /\ On(x, s)' => w = x
               /\ live'[s] = serial'[s]
               /\ \A x \in Requests : On(x, s)' =>
                    mine'[x] = IF Fresh(x)' THEN Changed(req'[x], live'[s]) ELSE live'[s]
    <2>1. live' = live /\ serial' = serial /\ ~Active(r) /\ s \notin raced
      BY <1>3, BeginFacts DEF stores
    <2>2. CASE ~On(r, s)'
      BY <1>0, <1>1, <1>2, <2>1, <2>2 DEF On
    <2>3. CASE On(r, s)'
      <3>1. /\ req'[r] = q /\ mine'[r] = Changed(q, live[StoreOf(q)]) /\ StoreOf(q) = s
            /\ Fresh(r)' /\ raced' = IF \E x \in Requests : On(x, s) THEN raced \cup {s} ELSE raced
        BY <1>3, <2>1, <2>3, BeginFacts, StoreType DEF On, Active, Fresh
      <3>2. \A x \in Requests : ~On(x, s)
        BY <3>1
      <3> QED BY <1>1, <1>2, <2>1, <3>1, <3>2
    <2> QED BY <2>2, <2>3
  <1>4. CASE WriteLive(r)
    <2>1. s \notin raced
      BY <1>4, WriteLiveFacts
    <2>2. CASE s = StoreOf(req[r])
      <3>1. On(r, s) /\ live'[s] = mine[r] /\ mine[r] = Changed(req[r], live[s])
            /\ serial'[s] = Changed(req[r], serial[s])
        BY <1>2, <1>4, <2>1, <2>2, WriteLiveFacts
      <3>2. live'[s] = serial'[s]
        BY <1>2, <2>1, <3>1
      <3>3. \A x \in Requests : On(x, s)' => x = r
        BY <1>1, <1>2, <2>1, <3>1
      <3>4. On(r, s)' => mine'[r] = live'[s] /\ ~Fresh(r)'
        BY <1>4, <3>1, WriteLiveFacts DEF On
      <3> QED BY <3>2, <3>3, <3>4
    <2>3. CASE s # StoreOf(req[r])
      <3>1. live'[s] = live[s] /\ serial'[s] = serial[s] /\ ~On(r, s)'
        BY <1>4, <2>3, WriteLiveFacts DEF On
      <3> QED BY <1>0, <1>1, <1>2, <2>1, <3>1
    <2> QED BY <2>2, <2>3
  <1>5. CASE Handle(r) /\ ~WriteLive(r)
    <2>1. UNCHANGED <<live, serial, raced>>
      BY <1>5, KeepFacts
    <2>2. On(r, s)' => /\ On(r, s) /\ req'[r] = req[r] /\ mine'[r] = mine[r]
                       /\ Fresh(r)' <=> Fresh(r)
      BY <1>5, KeepFacts DEF On
    <2> QED BY <1>0, <1>1, <1>2, <2>1, <2>2
  <1> QED BY <1>3, <1>4, <1>5 DEF Step

\* The table that sessions resolve with and the one the panel shows.
LEMMA HostsStep ==
  ASSUME TypeInv, AloneOK, HostsOK, NEW r \in Requests, Step(r)
  PROVE  HostsOK'
  <1>0. \A x \in Requests : x # r => pc'[x] = pc[x] /\ req'[x] = req[x] /\ mine'[x] = mine[x]
    BY Frame
  <1>1. \A x \in Requests : pc[x] = "entries" => On(x, "hosts")
    BY DEF TypeInv, RequestOK, On, Active
  <1> SUFFICES ASSUME "hosts" \notin raced'
               PROVE  /\ (\A x \in Requests : pc'[x] # "entries") => hostsLive' = live'["hosts"]
                      /\ \A x \in Requests : pc'[x] = "entries" => hostsLive' = mine'[x]
    BY DEF HostsOK
  <1>2. /\ \A x, y \in Requests : On(x, "hosts") /\ On(y, "hosts") => x = y
        /\ (\A x \in Requests : pc[x] # "entries") => hostsLive = live["hosts"]
        /\ \A x \in Requests : pc[x] = "entries" => hostsLive = mine[x]
    <2>1. "hosts" \notin raced
      BY BeginFacts, KeepFacts, WriteLiveFacts DEF Step
    <2> QED BY <2>1 DEF AloneOK, HostsOK, Stores
  <1>3. ASSUME NEW q \in Bodies, Begin(r, q)
        PROVE  /\ (\A x \in Requests : pc'[x] # "entries") => hostsLive' = live'["hosts"]
               /\ \A x \in Requests : pc'[x] = "entries" => hostsLive' = mine'[x]
    <2>1. pc[r] # "entries" /\ pc'[r] # "entries" /\ UNCHANGED <<hostsLive, live>>
      BY <1>3, BeginFacts DEF Active, stores
    <2> QED BY <1>0, <1>2, <2>1
  <1>4. CASE WriteHostsLive(r)
    <2>1. On(r, "hosts") /\ pc'[r] = "entries" /\ hostsLive' = mine'[r]
      BY <1>4, HandleFacts DEF On, Active, WriteHostsLive
    <2>2. \A x \in Requests : x # r => pc'[x] # "entries"
      BY <1>0, <1>1, <1>2, <2>1
    <2> QED BY <2>1, <2>2
  <1>5. CASE WriteLive(r)
    <2>1. hostsLive' = hostsLive /\ pc'[r] # "entries"
      BY <1>5, HandleFacts DEF WriteLive
    <2>2. CASE pc[r] = "entries"
      <3>1. StoreOf(req[r]) = "hosts" /\ hostsLive = mine[r] /\ live'["hosts"] = mine[r]
        BY <1>1, <1>2, <1>5, <2>2, WriteLiveFacts DEF On
      <3>2. \A x \in Requests : x # r => pc'[x] # "entries"
        BY <1>0, <1>1, <1>2, <2>2
      <3> QED BY <2>1, <3>1, <3>2
    <2>3. CASE pc[r] # "entries"
      <3>1. live'["hosts"] = live["hosts"]
        BY <1>5, <2>3, HandleFacts, WriteLiveFacts DEF Stores
      <3> QED BY <1>0, <1>2, <2>1, <2>3, <3>1
    <2> QED BY <2>2, <2>3
  <1>6. CASE Handle(r) /\ ~WriteLive(r) /\ ~WriteHostsLive(r)
    <2>1. hostsLive' = hostsLive /\ live' = live
      BY <1>6 DEF Handle, ReadPrev, UfwStep, ReadYaml, TruncateYaml, WriteYaml, stores
    <2>2. pc[r] # "entries" /\ pc'[r] # "entries"
      <3>1. Persisted(r) => pc'[r] # "entries"
        BY PersistedFacts, TypeParts
      <3> QED BY <1>6, <3>1, HandleFacts DEF Handle, NotSaved, WriteYaml
    <2> QED BY <1>0, <1>2, <2>1, <2>2
  <1> QED BY <1>3, <1>4, <1>5, <1>6 DEF Step, Handle

StoresInv == TypeInv /\ AloneOK /\ HostsOK

\* The stores start equal, with no request under way.
LEMMA StoresInit == Init => StoresInv
  <1> SUFFICES ASSUME Init PROVE StoresInv
    OBVIOUS
  <1>1. \A r \in Requests : pc[r] = "idle"
    BY DEF Init
  <1>2. AloneOK /\ HostsOK
    BY <1>1 DEF Init, AloneOK, HostsOK, On, Active, Start
  <1> QED BY <1>2, InitType DEF StoresInv

\* Every step keeps them so.
LEMMA StoresStep == StoresInv /\ [Next]_vars => StoresInv'
  <1> SUFFICES ASSUME StoresInv, [Next]_vars PROVE StoresInv'
    OBVIOUS
  <1>1. TypeInv'
    BY StepType DEF StoresInv
  <1>2. CASE UNCHANGED vars
    <2>1. AloneOK' /\ HostsOK'
      BY <1>2 DEF StoresInv, vars, stores, history, AloneOK, HostsOK, On, Active, Fresh
    <2> QED BY <1>1, <2>1 DEF StoresInv
  <1>3. CASE Next
    <2>1. PICK r \in Requests : Step(r)
      BY <1>3 DEF Next, Step
    <2> QED BY <1>1, <2>1, AloneStep, HostsStep DEF StoresInv
  <1> QED BY <1>2, <1>3

\* A change is lost only to another request for the same store that was under way at the
\* same time, for any number of requests and whatever saves fail; and sessions resolve
\* with the hosts table that the panel shows.
THEOREM ChangesKept == Spec => []NoLostChange
  <1>1. StoresInv => NoLostChange
    BY DEF StoresInv, AloneOK, HostsOK, NoLostChange
  <1> QED BY <1>1, StoresInit, StoresStep, PTL DEF Spec

------------------------------------------------------------------------------
(* The file *)

\* Holds after the step, for a text of before the step.
HoldsNext(f, s) ==
  /\ Due(s)' => f[s] = live'[s]
  /\ s = "whitelist" => \A x \in Requests : On(x, s)' /\ pc'[x] = "live" => f[s] = mine'[x]

\* A text that has what it should have of a store goes on to have it, unless the save of
\* the store ends.
LEMMA HoldsKept ==
  ASSUME StoresInv, NEW r \in Requests, Step(r), NEW s \in Stores, s \notin raced',
         s \notin unsaved', ~(WriteYaml(r) /\ StoreOf(req[r]) = s), NEW f, Holds(f, s)
  PROVE  HoldsNext(f, s)
  <1>0. /\ \A x \in Requests : x # r =>
             /\ pc'[x] = pc[x] /\ req'[x] = req[x] /\ mine'[x] = mine[x]
        /\ TypeInv /\ AloneOK /\ s \notin raced
    <2>1. TypeInv /\ AloneOK
      BY DEF StoresInv
    <2>2. s \notin raced
      BY <2>1, BeginFacts, KeepFacts, WriteLiveFacts DEF Step
    <2> QED BY <2>1, <2>2, Frame
  <1>1. \A x \in Requests : x # r =>
          (On(x, s)' <=> On(x, s)) /\ (Unsaved(x, s)' <=> Unsaved(x, s))
    BY <1>0 DEF On, Active, Unsaved
  <1>2. Active(r) => RequestOK(r)
    BY <1>0, TypeParts
  <1>3. ASSUME live'[s] = live[s], (On(r, s) /\ ~Unsaved(r, s)) => (On(r, s)' /\ ~Unsaved(r, s)'),
               On(r, s)' /\ pc'[r] = "live" => s # "whitelist" \/ (On(r, s) /\ pc[r] = "live"
                                                                   /\ mine'[r] = mine[r])
        PROVE  HoldsNext(f, s)
    <2>1. Due(s)' => Due(s)
      BY <1>1, <1>3 DEF Due
    <2> QED BY <1>0, <1>1, <1>3, <2>1 DEF Holds, HoldsNext
  <1>4. ASSUME NEW q \in Bodies, Begin(r, q) PROVE HoldsNext(f, s)
    <2>1. live' = live /\ ~On(r, s)
      BY <1>0, <1>4, BeginFacts DEF stores, On
    <2>2. On(r, s)' /\ pc'[r] = "live" => s # "whitelist"
      BY <1>0, <1>4, <2>1, BeginFacts, StoreType DEF On, Active
    <2> QED BY <1>3, <2>1, <2>2
  <1>5. CASE ReadPrev(r) \/ UfwStep(r)
    <2>1. /\ StoreOf(req[r]) = "whitelist" /\ UNCHANGED <<live, req, mine>>
          /\ pc[r] \in {"prev", "ufw"} /\ pc'[r] \in {"ufw", "read"}
      BY <1>0, <1>2, <1>5, HandleFacts, StoreType DEF ReadPrev, UfwStep, stores, RequestOK, Active
    <2> QED BY <1>3, <2>1 DEF On, Active, Unsaved
  <1>6. CASE WriteHostsLive(r)
    <2>1. /\ StoreOf(req[r]) = "hosts" /\ UNCHANGED <<live, req, mine>>
          /\ pc[r] = "live" /\ pc'[r] = "entries"
      BY <1>0, <1>6, HandleFacts DEF WriteHostsLive
    <2> QED BY <1>3, <2>1 DEF On, Active, Unsaved
  <1>7. CASE WriteLive(r)
    <2>1. CASE StoreOf(req[r]) # s
      <3>1. live'[s] = live[s] /\ ~On(r, s) /\ ~On(r, s)'
        BY <1>0, <1>7, <2>1, WriteLiveFacts DEF On
      <3> QED BY <1>3, <3>1
    <2>2. CASE StoreOf(req[r]) = s
      <3>1. On(r, s) /\ live'[s] = mine[r] /\ \A x \in Requests : On(x, s) => x = r
        BY <1>0, <1>7, <2>2, WriteLiveFacts DEF AloneOK
      <3>2. \A x \in Requests : On(x, s)' => x = r
        BY <1>1, <3>1
      <3>3. CASE s = "whitelist"
        <4>1. pc[r] = "live" /\ ~On(r, s)'
          BY <1>0, <1>2, <1>7, <2>2, <3>1, <3>3, HandleFacts, WriteLiveFacts DEF RequestOK, On
        <4>2. f[s] = mine[r]
          BY <3>1, <3>3, <4>1 DEF Holds
        <4> QED BY <3>1, <3>2, <4>1, <4>2 DEF HoldsNext
      <3>4. CASE s # "whitelist"
        <4>1. On(r, s)' /\ ~Unsaved(r, s)'
          BY <1>0, <1>7, <2>2, <3>4, HandleFacts DEF On, Active, Unsaved
        <4> QED BY <3>4, <4>1 DEF HoldsNext, Due
      <3> QED BY <3>3, <3>4
    <2> QED BY <2>1, <2>2
  <1>8. CASE ReadYaml(r) \/ TruncateYaml(r) \/ WriteYaml(r)
    <2>1. live' = live
      BY <1>8 DEF ReadYaml, TruncateYaml, WriteYaml, stores
    <2>2. CASE StoreOf(req[r]) # s
      <3>1. ~On(r, s) /\ ~On(r, s)'
        BY <1>0, <1>8, <2>2, KeepFacts, HandleFacts DEF On, Handle, WriteLive, WriteYaml
      <3> QED BY <1>3, <2>1, <3>1
    <2>3. CASE StoreOf(req[r]) = s
      <3>1. ~NotSaved(r) /\ ~WriteYaml(r)
        BY <2>3 DEF NotSaved
      <3>2. /\ UNCHANGED <<req, mine>> /\ pc'[r] \in {"truncate", "write"}
            /\ \/ pc[r] = "read" /\ pc'[r] = "truncate"
               \/ pc[r] = "truncate" /\ pc'[r] = "write"
        BY <1>0, <1>8, <3>1, HandleFacts
      <3> QED BY <1>3, <2>1, <2>3, <3>2 DEF On, Active, Unsaved
    <2> QED BY <2>2, <2>3
  <1> QED BY <1>4, <1>5, <1>6, <1>7, <1>8 DEF Step, Handle

\* The request that is in the file has, with its text, all that the file should have.
LEMMA FileStep ==
  ASSUME StoresInv, StoresInv', FileOK, NEW r \in Requests, Step(r)
  PROVE  FileOK'
  <1> DEFINE InFile(x) == pc[x] \in {"truncate", "write"}
             Kept(s) == s \in Stores /\ s \notin raced' /\ s \notin unsaved'
  <1>0. /\ \A x \in Requests : x # r =>
             /\ pc'[x] = pc[x] /\ req'[x] = req[x] /\ mine'[x] = mine[x] /\ doc'[x] = doc[x]
        /\ TypeInv /\ AloneOK /\ StoresOK /\ FieldsOK /\ (Active(r) => RequestOK(r))
    <2>1. TypeInv /\ AloneOK
      BY DEF StoresInv
    <2> QED BY <2>1, Frame, TypeParts
  <1> SUFFICES ASSUME ~torn', "disk" \notin missed'
               PROVE  /\ \A w, x \in Requests : InFile(w)' /\ InFile(x)' => w = x
                      /\ (\A x \in Requests : pc'[x] # "write") => file' # Unparsable
                      /\ \A x \in Requests :
                           /\ pc'[x] = "truncate" =>
                                doc'[x] = [file' EXCEPT ![StoreOf(req'[x])] = mine'[x]]
                           /\ pc'[x] = "write" => file' = Unparsable
                                                  /\ doc'[x][StoreOf(req'[x])] = mine'[x]
                      /\ \A s : Kept(s) =>
                           /\ file' # Unparsable => Holds(file, s)'
                           /\ \A x \in Requests : pc'[x] = "write" => Holds(doc[x], s)'
    BY DEF FileOK
  <1>1. ~torn /\ "disk" \notin missed /\ raced \subseteq raced'
    <2>1. CASE \E q \in Bodies : Begin(r, q)
      BY <1>0, <2>1, BeginFacts
    <2>2. CASE Handle(r)
      <3>1. raced' = raced
        BY <1>0, <2>2, KeepFacts, WriteLiveFacts
      <3>2. missed \subseteq missed'
        BY <2>2 DEF Handle, ReadPrev, UfwStep, WriteHostsLive, WriteLive, ReadYaml, TruncateYaml,
                    WriteYaml, history
      <3>3. torn' = torn \/ ReadYaml(r)
        BY <2>2 DEF Handle, ReadPrev, UfwStep, WriteHostsLive, WriteLive, TruncateYaml,
                    WriteYaml, history
      <3>4. ReadYaml(r) => ~torn
        BY <1>0, HandleFacts
      <3> QED BY <3>1, <3>2, <3>3, <3>4
    <2> QED BY <2>1, <2>2 DEF Step
  <1>2. /\ \A w, x \in Requests : InFile(w) /\ InFile(x) => w = x
        /\ (\A x \in Requests : pc[x] # "write") => file # Unparsable
        /\ \A x \in Requests :
             /\ pc[x] = "truncate" => doc[x] = [file EXCEPT ![StoreOf(req[x])] = mine[x]]
             /\ pc[x] = "write" => file = Unparsable /\ doc[x][StoreOf(req[x])] = mine[x]
        /\ \A s \in Stores \ (raced \cup unsaved) :
             /\ file # Unparsable => Holds(file, s)
             /\ \A x \in Requests : pc[x] = "write" => Holds(doc[x], s)
    BY <1>1 DEF FileOK
  <1>3. \A s, f : Kept(s) /\ s \notin unsaved /\ Holds(f, s)
                  /\ ~(WriteYaml(r) /\ StoreOf(req[r]) = s) => HoldsNext(f, s)
    BY HoldsKept
  <1>4. \A s : Kept(s) => s \in Stores /\ s \notin raced
    BY <1>1
  <1>5. ASSUME ~InFile(r), ~InFile(r)', file' = file, unsaved \subseteq unsaved', ~WriteYaml(r)
        PROVE  FileOK'
    <2>1. ASSUME NEW s, Kept(s)
          PROVE  /\ file' # Unparsable => Holds(file, s)'
                 /\ \A x \in Requests : pc'[x] = "write" => Holds(doc[x], s)'
      <3>1. s \in Stores \ (raced \cup unsaved)
        BY <1>4, <1>5, <2>1
      <3>2. file # Unparsable => HoldsNext(file, s)
        BY <1>2, <1>3, <1>5, <2>1, <3>1
      <3>3. \A x \in Requests : pc[x] = "write" => HoldsNext(doc[x], s)
        BY <1>2, <1>3, <1>5, <2>1, <3>1
      <3>4. file' # Unparsable => Holds(file, s)'
        BY <1>5, <3>2 DEF Holds, HoldsNext
      <3>5. ASSUME NEW x \in Requests, pc'[x] = "write" PROVE Holds(doc[x], s)'
        <4>1. x # r /\ doc'[x] = doc[x] /\ HoldsNext(doc[x], s)
          BY <1>0, <1>5, <3>3, <3>5
        <4> QED BY <4>1 DEF Holds, HoldsNext
      <3> QED BY <3>4, <3>5
    <2>2. \A w, x \in Requests : InFile(w)' /\ InFile(x)' => w = x
      BY <1>0, <1>2, <1>5
    <2>3. (\A x \in Requests : pc'[x] # "write") => file' # Unparsable
      BY <1>0, <1>2, <1>5
    <2>4. ASSUME NEW x \in Requests
          PROVE  /\ pc'[x] = "truncate" => doc'[x] = [file' EXCEPT ![StoreOf(req'[x])] = mine'[x]]
                 /\ pc'[x] = "write" => file' = Unparsable /\ doc'[x][StoreOf(req'[x])] = mine'[x]
      BY <1>0, <1>2, <1>5
    <2> QED BY <2>1, <2>2, <2>3, <2>4 DEF FileOK
  <1>6. ASSUME NEW q \in Bodies, Begin(r, q) PROVE FileOK'
    <2>1. file' = file /\ unsaved' = unsaved /\ ~InFile(r) /\ ~InFile(r)' /\ ~WriteYaml(r)
      BY <1>0, <1>6, BeginFacts DEF stores, Active, WriteYaml
    <2> QED BY <1>5, <2>1
  <1>7. CASE ReadPrev(r) \/ UfwStep(r) \/ WriteHostsLive(r) \/ WriteLive(r)
    <2>1. file' = file /\ unsaved' = unsaved /\ ~InFile(r) /\ ~InFile(r)' /\ ~WriteYaml(r)
      BY <1>0, <1>7, HandleFacts
         DEF ReadPrev, UfwStep, WriteHostsLive, WriteLive, WriteYaml, stores, history
    <2> QED BY <1>5, <2>1 DEF FileOK
  <1>8. ASSUME NotSaved(r) PROVE ~InFile(r)' /\ unsaved \subseteq unsaved'
    BY <1>0, <1>8, PersistedFacts DEF NotSaved
  <1>9. CASE ReadYaml(r)
    <2>1. file' = file /\ ~InFile(r) /\ ~WriteYaml(r)
      BY <1>0, <1>9, HandleFacts DEF ReadYaml, stores, WriteYaml
    <2>2. CASE NotSaved(r)
      BY <1>5, <1>8, <2>1, <2>2 DEF FileOK
    <2>3. CASE ~NotSaved(r)
      <3>1. /\ file # Unparsable /\ pc'[r] = "truncate" /\ UNCHANGED <<req, mine, unsaved>>
            /\ doc'[r] = [file EXCEPT ![StoreOf(req[r])] = mine[r]]
            /\ \A x \in Requests : ~InFile(x)
        BY <1>0, <1>1, <1>9, <2>3, HandleFacts
      <3>2. \A x \in Requests : x # r => ~InFile(x)'
        BY <1>0, <3>1
      <3>3. ASSUME NEW s, Kept(s) PROVE Holds(file, s)'
        <4>1. HoldsNext(file, s)
          BY <1>2, <1>3, <1>4, <2>1, <3>1, <3>3
        <4> QED BY <2>1, <4>1 DEF Holds, HoldsNext
      <3> QED BY <2>1, <3>1, <3>2, <3>3
    <2> QED BY <2>2, <2>3 DEF FileOK
  <1>10. CASE TruncateYaml(r)
    <2>0. /\ pc[r] = "truncate" /\ ~WriteYaml(r) /\ RequestOK(r) /\ StoreOf(req[r]) \in Stores
          /\ \A x \in Requests : x # r => ~InFile(x) /\ ~InFile(x)'
      <3>1. pc[r] = "truncate"
        BY <1>0, <1>10, HandleFacts
      <3> QED BY <1>0, <1>2, <3>1, StoreType DEF WriteYaml, RequestOK, Active
    <2>1. file \in Docs /\ file # Unparsable
      BY <1>0, <1>2, <2>0 DEF StoresOK
    <2>2. CASE NotSaved(r)
      <3>1. file' = file
        <4>1. CASE file' = Unparsable /\ pc'[r] = "write"
          BY <1>8, <2>2, <4>1
        <4> QED BY <1>0, <1>10, <4>1, HandleFacts
      <3>2. ~InFile(r)' /\ unsaved \subseteq unsaved'
        BY <1>8, <2>2
      <3>3. ASSUME NEW s, Kept(s) PROVE Holds(file, s)'
        <4>1. HoldsNext(file, s)
          BY <1>2, <1>3, <1>4, <2>0, <2>1, <3>2, <3>3
        <4> QED BY <3>1, <4>1 DEF Holds, HoldsNext
      <3> QED BY <2>0, <2>1, <3>1, <3>2, <3>3
    <2>3. CASE ~NotSaved(r)
      <3>1. file' = Unparsable /\ pc'[r] = "write" /\ UNCHANGED <<req, mine, doc, unsaved>>
        BY <1>0, <1>10, <2>3, HandleFacts
      <3>2. /\ doc[r] = [file EXCEPT ![StoreOf(req[r])] = mine[r]] /\ DOMAIN file = Stores
            /\ doc[r][StoreOf(req[r])] = mine[r]
        BY <1>2, <2>0, <2>1, DocFacts
      <3>3. ASSUME NEW s, Kept(s) PROVE Holds(doc[r], s)'
        <4>1. CASE s # StoreOf(req[r])
          <5>1. HoldsNext(file, s) /\ doc[r][s] = file[s]
            BY <1>2, <1>3, <1>4, <2>0, <2>1, <3>1, <3>2, <3>3, <4>1
          <5> QED BY <3>1, <5>1 DEF Holds, HoldsNext
        <4>2. CASE s = StoreOf(req[r])
          <5>1. On(r, s)' /\ ~Unsaved(r, s)'
            BY <3>1, <4>2 DEF On, Active, Unsaved
          <5>2. \A x \in Requests : On(x, s)' => x = r
            BY <1>4, <3>3, <5>1 DEF StoresInv, AloneOK
          <5> QED BY <3>1, <5>1, <5>2 DEF Holds, Due
        <4> QED BY <4>1, <4>2
      <3> QED BY <2>0, <3>1, <3>2, <3>3
    <2> QED BY <2>2, <2>3 DEF FileOK
  <1>11. CASE WriteYaml(r)
    <2>0. /\ pc[r] = "write" /\ RequestOK(r) /\ StoreOf(req[r]) \in Stores /\ doc[r] \in Docs
          /\ \A x \in Requests : x # r => ~InFile(x) /\ ~InFile(x)'
      <3>1. pc[r] = "write"
        BY <1>11 DEF WriteYaml
      <3> QED BY <1>0, <1>2, <3>1, StoreType DEF RequestOK, Active
    <2>1. /\ file' = doc[r] /\ Persisted(r) /\ unsaved' = unsaved \ {StoreOf(req[r])}
          /\ live' = live
      BY <1>2, <1>11, <2>0 DEF WriteYaml
    <2>2. ~InFile(r)' /\ doc[r] # Unparsable
      BY <1>0, <2>0, <2>1, PersistedFacts, DocFacts
    <2>3. ASSUME NEW s, Kept(s) PROVE Holds(file, s)'
      <3>1. CASE s # StoreOf(req[r])
        <4>1. HoldsNext(doc[r], s)
          BY <1>2, <1>3, <1>4, <2>0, <2>1, <2>3, <3>1
        <4> QED BY <2>1, <4>1 DEF Holds, HoldsNext
      <3>2. CASE s = StoreOf(req[r])
        <4>1. doc[r][s] = mine[r] /\ On(r, s) /\ \A x \in Requests : On(x, s) => x = r
          <5>1. On(r, s)
            BY <2>0, <3>2 DEF On, Active
          <5> QED BY <1>0, <1>2, <1>4, <2>0, <2>3, <3>2, <5>1 DEF AloneOK
        <4>2. \A x \in Requests : On(x, s)' => x = r
          BY <1>0, <4>1 DEF On, Active
        <4>3. CASE s = "whitelist"
          <5>1. pc'[r] = "live" /\ mine'[r] = mine[r] /\ On(r, s)' /\ ~Unsaved(r, s)'
            BY <1>0, <2>1, <3>2, <4>3, PersistedFacts DEF On, Active, Unsaved
          <5> QED BY <2>1, <4>1, <4>2, <5>1 DEF Holds, Due
        <4>4. CASE s # "whitelist"
          <5>1. mine[r] = live[s]
            BY <1>0, <1>4, <2>0, <2>3, <3>2, <4>1, <4>4 DEF AloneOK, Fresh
          <5> QED BY <2>1, <4>1, <4>4, <5>1 DEF Holds
        <4> QED BY <4>3, <4>4
      <3> QED BY <3>1, <3>2
    <2> QED BY <2>0, <2>1, <2>2, <2>3
  <1> QED BY <1>6, <1>7, <1>9, <1>10, <1>11 DEF Step, Handle, FileOK

\* When no request is under way, a restart finds what is live, store by store, unless
\* saves have overlapped, the disk was full, or the last save of the store has failed.
THEOREM FileFollows == Spec => []FileIsLive
  <1> DEFINE FInv == StoresInv /\ FileOK
  <1>1. Init => FInv
    <2> SUFFICES ASSUME Init PROVE FInv
      OBVIOUS
    <2>1. StoresInv
      BY StoresInit
    <2>2. file # Unparsable
      BY <2>1, DocFacts, TypeParts DEF StoresInv, StoresOK, Init
    <2>3. /\ \A r \in Requests : pc[r] = "idle"
          /\ file = live
      BY DEF Init
    <2>4. FileOK
      BY <2>2, <2>3 DEF FileOK, Holds, On, Active
    <2> QED BY <2>1, <2>4
  <1>2. FInv /\ [Next]_vars => FInv'
    <2> SUFFICES ASSUME FInv, [Next]_vars PROVE FInv'
      OBVIOUS
    <2>1. StoresInv'
      BY StoresStep
    <2>2. CASE UNCHANGED vars
      <3>1. FileOK'
        BY <2>2 DEF vars, stores, history, FileOK, Holds, Due, On, Active, Unsaved
      <3> QED BY <2>1, <3>1
    <2>3. CASE Next
      <3>1. PICK r \in Requests : Step(r)
        BY <2>3 DEF Next, Step
      <3> QED BY <2>1, <3>1, FileStep
    <2> QED BY <2>2, <2>3
  <1>3. FInv => FileIsLive
    <2> SUFFICES ASSUME FInv, Quiet, ~torn, "disk" \notin missed
                 PROVE  /\ file # Unparsable
                        /\ \A s \in Stores \ (raced \cup unsaved) : file[s] = live[s]
      BY DEF FileIsLive
    <2>1. \A r \in Requests : ~Active(r) /\ pc[r] = "idle"
      BY DEF Quiet, Active
    <2>2. file # Unparsable
      BY <2>1 DEF FileOK
    <2>3. \A s \in Stores \ (raced \cup unsaved) : Holds(file, s)
      BY <2>2 DEF FileOK
    <2> QED BY <2>1, <2>2, <2>3 DEF Holds, Due, On
  <1> QED BY <1>1, <1>2, <1>3, PTL DEF Spec

------------------------------------------------------------------------------
(* The firewall *)

\* The commands of a handler, all successful, turn the rules for the old list into rules
\* for the new one.
LEMMA UfwCommands ==
  ASSUME NEW q \in Bodies, StoreOf(q) = "whitelist", q.op = "del_ip" => q.ip \notin Spellings,
         NEW old \in Whitelist, NEW new, new = Changed(q, old).ips,
         NEW change, change = UfwChanges(q, new, old.ips)
  PROVE  [ip \in (DOMAIN old.ips \ (change \ DOMAIN new)) \cup (change \cap DOMAIN new) |->
            IF ip \in change THEN new[ip] ELSE old.ips[ip]] = new
  <1> DEFINE o == old.ips
             D == (DOMAIN o \ (change \ DOMAIN new)) \cup (change \cap DOMAIN new)
             u == [ip \in D |-> IF ip \in change THEN new[ip] ELSE o[ip]]
  <1>1. ASSUME DOMAIN new = D, new = [ip \in DOMAIN new |-> new[ip]],
               \A ip \in D : ip \notin change => o[ip] = new[ip]
        PROVE  u = new
    <2> HIDE DEF D
    <2> QED BY <1>1
  <1>2. CASE q.op = "put_whitelist"
    <2>1. new = NormalKeys(q.arg)
      BY <1>2 DEF Changed
    <2>2. new = [ip \in DOMAIN new |-> new[ip]]
      BY <2>1 DEF NormalKeys
    <2>3. change = {ip \in DOMAIN new : ip \notin DOMAIN o \/ o[ip] # new[ip] \/ new[ip] = ""}
                     \cup (DOMAIN o \ DOMAIN new)
      BY <1>2 DEF UfwChanges
    <2>4. DOMAIN new = D /\ \A ip \in D : ip \notin change => o[ip] = new[ip]
      BY <2>3
    <2> QED BY <1>1, <2>2, <2>4
  <1>3. CASE q.op = "add_ip"
    <2> DEFINE k == NormalizeClientIp(q.ip)
    <2>1. new = With(o, k, q.user) /\ change = {k}
      BY <1>3 DEF Changed, UfwChanges, Whitelist
    <2> HIDE DEF k, o
    <2>2. new = [z \in DOMAIN o \cup {k} |-> IF z = k THEN q.user ELSE o[z]]
      BY <2>1 DEF With
    <2>3. DOMAIN new = DOMAIN o \cup {k} /\ new = [ip \in DOMAIN new |-> new[ip]]
          /\ \A z \in DOMAIN o : z # k => new[z] = o[z]
      BY <2>2
    <2>4. DOMAIN new = D /\ \A ip \in D : ip \notin change => o[ip] = new[ip]
      BY <2>1, <2>3
    <2>5. u = new
      BY <1>1, <2>3, <2>4
    <2> QED BY <2>5 DEF o
  <1>4. CASE q.op = "del_ip"
    <2>1. q.ip \in Ips /\ NormalizeClientIp(q.ip) = q.ip
      BY <1>4, BodyFacts, NormalType
    <2>2. new = Without(o, q.ip) /\ change = {q.ip} \cap DOMAIN o
      BY <1>4, <2>1 DEF Changed, UfwChanges, Whitelist
    <2> HIDE DEF o
    <2>3. DOMAIN new = DOMAIN o \ {q.ip} /\ new = [ip \in DOMAIN new |-> new[ip]]
          /\ \A z \in DOMAIN new : new[z] = o[z]
      BY <2>2 DEF Without
    <2>4. DOMAIN new = D /\ \A ip \in D : ip \notin change => o[ip] = new[ip]
      BY <2>2, <2>3
    <2>5. u = new
      BY <1>1, <2>3, <2>4
    <2> QED BY <2>5 DEF o
  <1> QED BY <1>2, <1>3, <1>4, StoreType

\* The firewall goes ahead of the live whitelist with each request, and waits for it.
LEMMA FirewallStep ==
  ASSUME StoresInv, UfwOK, NEW r \in Requests, Step(r)
  PROVE  UfwOK'
  <1> DEFINE W(x) == On(x, "whitelist")
             Later == {"read", "truncate", "write", "live"}
             G == /\ (\A x \in Requests : W(x)' => pc'[x] \in {"prev", "ufw"})
                       => ufw' = live'["whitelist"].ips
                  /\ \A x \in Requests : W(x)' =>
                       /\ pc'[x] = "ufw" => prev'[x] = live'["whitelist"].ips
                       /\ pc'[x] \in Later => ufw' = mine'[x].ips
  <1> SUFFICES ASSUME "whitelist" \notin raced', missed' \subseteq {"disk"} PROVE G
    BY DEF UfwOK
  <1>0. /\ \A x \in Requests : x # r =>
             pc'[x] = pc[x] /\ mine'[x] = mine[x] /\ prev'[x] = prev[x] /\ (W(x)' <=> W(x))
        /\ TypeInv /\ AloneOK /\ StoresOK /\ FieldsOK /\ (Active(r) => RequestOK(r))
    <2>1. TypeInv /\ AloneOK
      BY DEF StoresInv
    <2> QED BY <2>1, Frame, TypeParts DEF On, Active
  <1>1. "whitelist" \notin raced /\ missed \subseteq {"disk"}
    <2>1. raced \subseteq raced'
      BY <1>0, BeginFacts, KeepFacts, WriteLiveFacts DEF Step
    <2>2. missed \subseteq missed'
      BY <1>0, BeginFacts
         DEF Step, Handle, ReadPrev, UfwStep, WriteHostsLive, WriteLive, ReadYaml, TruncateYaml,
             WriteYaml, history
    <2> QED BY <2>1, <2>2
  <1>2. /\ (\A x \in Requests : W(x) => pc[x] \in {"prev", "ufw"}) => ufw = live["whitelist"].ips
        /\ \A x \in Requests : W(x) =>
             /\ pc[x] = "ufw" => prev[x] = live["whitelist"].ips
             /\ pc[x] \in Later => ufw = mine[x].ips
    BY <1>1 DEF UfwOK
  <1>3. /\ \A x, y \in Requests : W(x) /\ W(y) => x = y
        /\ \A x \in Requests : W(x) => mine[x] = Changed(req[x], live["whitelist"])
    BY <1>0, <1>1 DEF AloneOK, Stores, On, Fresh
  <1> HIDE DEF W
  <1>4. ASSUME ufw' = ufw, live'["whitelist"] = live["whitelist"], ~W(r),
               W(r)' => pc'[r] \in {"prev", "ufw"}
                        /\ (pc'[r] = "ufw" => prev'[r] = live["whitelist"].ips)
        PROVE  G
    BY <1>0, <1>2, <1>4
  <1>5. ASSUME NEW q \in Bodies, Begin(r, q) PROVE G
    <2>1. ufw' = ufw /\ live' = live /\ ~W(r)
      BY <1>0, <1>5, BeginFacts DEF stores, On, W
    <2>2. W(r)' => pc'[r] \in {"prev", "ufw"}
                   /\ (pc'[r] = "ufw" => prev'[r] = live["whitelist"].ips)
      BY <1>0, <1>5, BeginFacts, StoreType DEF On, Active, W
    <2> QED BY <1>4, <2>1, <2>2
  <1>6. CASE ReadPrev(r)
    <2>1. /\ ufw' = ufw /\ live' = live /\ pc[r] = "prev" /\ pc'[r] = "ufw"
          /\ prev'[r] = live["whitelist"].ips
      BY <1>0, <1>6, HandleFacts DEF ReadPrev, stores
    <2>2. W(r)
      BY <1>0, <2>1, StoreType DEF W, On, Active, RequestOK
    <2>3. (\A x \in Requests : W(x)' => pc'[x] \in {"prev", "ufw"})
            => \A x \in Requests : W(x) => pc[x] \in {"prev", "ufw"}
      BY <1>0, <2>1
    <2> QED BY <1>0, <1>2, <2>1, <2>3
  <1>7. CASE UfwStep(r)
    <2>1. /\ pc[r] = "ufw" /\ pc'[r] = "read" /\ live' = live /\ mine' = mine /\ req' = req
      BY <1>0, <1>7, HandleFacts DEF UfwStep
    <2>2. W(r) /\ W(r)' /\ req[r] \in Bodies /\ StoreOf(req[r]) = "whitelist"
      BY <1>0, <2>1 DEF W, On, Active, RequestOK
    <2>3. \A x \in Requests : W(x) => x = r
      BY <1>3, <2>2
    <2>4. /\ ufw = live["whitelist"].ips /\ prev[r] = live["whitelist"].ips
          /\ mine[r] = Changed(req[r], live["whitelist"])
      BY <1>2, <1>3, <2>1, <2>2, <2>3
    <2>5. live["whitelist"] \in Whitelist
      BY <1>0, DocFacts DEF StoresOK, Stores, Values
    <2> DEFINE new == mine[r].ips
               change == UfwChanges(req[r], new, prev[r])
               allow == change \cap DOMAIN new
    <2>6. mine[r].sync /\ (req[r].op = "del_ip" => req[r].ip \notin Spellings)
      BY <1>7 DEF UfwStep
    <2>7. PICK lost \in SUBSET ((allow \cap DOMAIN ufw) \ change) :
            ufw' = [ip \in (DOMAIN ufw \ (lost \cup (change \ allow))) \cup (change \cap allow) |->
                      IF ip \in change THEN new[ip] ELSE ufw[ip]]
      BY <1>7, <2>6 DEF UfwStep
    <2>8. ufw' = new
      <3> HIDE DEF new, change
      <3>1. /\ DOMAIN ufw \ (lost \cup (change \ allow)) = DOMAIN ufw \ (change \ DOMAIN new)
            /\ change \cap allow = change \cap DOMAIN new
        BY <2>7
      <3>2. ufw' = [ip \in (DOMAIN ufw \ (change \ DOMAIN new)) \cup (change \cap DOMAIN new) |->
                      IF ip \in change THEN new[ip] ELSE ufw[ip]]
        BY <2>7, <3>1
      <3>3. /\ new = Changed(req[r], live["whitelist"]).ips
            /\ change = UfwChanges(req[r], new, live["whitelist"].ips)
        BY <2>4 DEF new, change
      <3> DEFINE w == live["whitelist"]
      <3>4. [ip \in (DOMAIN w.ips \ (change \ DOMAIN new)) \cup (change \cap DOMAIN new) |->
               IF ip \in change THEN new[ip] ELSE w.ips[ip]] = new
        <4> HIDE DEF w
        <4>1. w \in Whitelist /\ new = Changed(req[r], w).ips
              /\ change = UfwChanges(req[r], new, w.ips)
          BY <2>5, <3>3 DEF w
        <4> QED BY <2>2, <2>6, <4>1, UfwCommands
      <3> QED BY <2>4, <3>2, <3>4
    <2>9. \A x \in Requests : W(x)' => x = r
      BY <1>0, <2>3
    <2> QED BY <2>1, <2>2, <2>8, <2>9
  <1>8. CASE WriteLive(r)
    <2>1. ufw' = ufw
      BY <1>8 DEF WriteLive
    <2>2. CASE W(r)
      <3>1. pc[r] = "live" /\ live'["whitelist"] = mine[r] /\ ~W(r)'
        BY <1>0, <1>8, <2>2, HandleFacts, WriteLiveFacts DEF W, On, RequestOK
      <3>2. \A x \in Requests : ~W(x)'
        BY <1>0, <1>3, <2>2, <3>1
      <3> QED BY <1>2, <2>1, <2>2, <3>1, <3>2
    <2>3. CASE ~W(r)
      <3>1. live'["whitelist"] = live["whitelist"] /\ ~W(r)'
        BY <1>0, <1>8, <2>3, WriteLiveFacts DEF W, On, Stores
      <3> QED BY <1>4, <2>1, <2>3, <3>1
    <2> QED BY <2>2, <2>3
  <1>9. CASE WriteHostsLive(r) \/ ReadYaml(r) \/ TruncateYaml(r) \/ WriteYaml(r)
    <2>1. (Handle(r) /\ ~WriteLive(r)) \/ WriteHostsLive(r)
      <3>1. WriteLive(r) /\ (ReadYaml(r) \/ TruncateYaml(r) \/ WriteYaml(r)) => FALSE
        BY <1>0, HandleFacts DEF WriteYaml
      <3> QED BY <1>9, <3>1 DEF WriteHostsLive, ReadYaml, TruncateYaml, WriteYaml, stores, Handle
    <2>2. ufw' = ufw /\ live' = live
      BY <1>9 DEF WriteHostsLive, ReadYaml, TruncateYaml, WriteYaml, stores
    <2>3. CASE ~W(r)
      <3>1. ~W(r)'
        BY <1>0, <1>9, <2>1, <2>3, KeepFacts, HandleFacts DEF W, On
      <3> QED BY <1>4, <2>2, <2>3, <3>1
    <2>4. CASE W(r)
      <3>1. pc[r] \in Later /\ pc'[r] \in Later /\ W(r)' /\ mine'[r] = mine[r]
        <4>1. StoreOf(req[r]) = "whitelist" /\ ~WriteHostsLive(r)
          BY <2>4 DEF W, On, WriteHostsLive
        <4>2. CASE Persisted(r)
          BY <1>0, <1>9, <4>1, <4>2, PersistedFacts, HandleFacts DEF WriteYaml, W, On, Active
        <4>3. CASE ~Persisted(r)
          BY <1>0, <1>9, <4>1, <4>3, HandleFacts DEF WriteYaml, NotSaved, W, On, Active
        <4> QED BY <4>2, <4>3
      <3>2. \A x \in Requests : W(x)' => x = r
        BY <1>0, <1>3, <2>4
      <3> QED BY <1>2, <2>2, <2>4, <3>1, <3>2
    <2> QED BY <2>3, <2>4
  <1> QED BY <1>5, <1>6, <1>7, <1>8, <1>9 DEF Step, Handle

\* When no request is under way, the firewall admits exactly the addresses of the
\* whitelist, each with its user, if no command has failed, sync was never off, no rule
\* was deleted under another spelling and no requests for the whitelist have raced.
THEOREM FirewallFollows == Spec => []UfwFollowsAcl
  <1> DEFINE UInv == StoresInv /\ UfwOK
  <1>1. Init => UInv
    <2> SUFFICES ASSUME Init PROVE UInv
      OBVIOUS
    <2>1. /\ \A r \in Requests : pc[r] = "idle"
          /\ ufw = live.whitelist.ips
      BY DEF Init, Start
    <2>2. UfwOK
      BY <2>1 DEF UfwOK, On, Active
    <2> QED BY <2>2, StoresInit
  <1>2. UInv /\ [Next]_vars => UInv'
    <2> SUFFICES ASSUME UInv, [Next]_vars PROVE UInv'
      OBVIOUS
    <2>1. StoresInv'
      BY StoresStep
    <2>2. CASE UNCHANGED vars
      <3>1. UfwOK'
        BY <2>2 DEF vars, stores, history, UfwOK, On, Active
      <3> QED BY <2>1, <3>1
    <2>3. CASE Next
      <3>1. PICK r \in Requests : Step(r)
        BY <2>3 DEF Next, Step
      <3> QED BY <2>1, <3>1, FirewallStep
    <2> QED BY <2>2, <2>3
  <1>3. UInv => UfwFollowsAcl
    BY DEF UfwOK, UfwFollowsAcl, Quiet, On
  <1> QED BY <1>1, <1>2, <1>3, PTL DEF Spec

------------------------------------------------------------------------------
(* Passwords *)

\* No request makes a registry out of the live one that lacks a password of a profile
\* which keeps its name and type.
LEMMA SecretsInChange ==
  ASSUME NEW q \in Bodies, StoreOf(q) = "upstreams", NEW old \in RegistryOf(Ips),
         NEW new, new = Changed(q, old),
         NEW p \in DOMAIN old.profiles \cap DOMAIN new.profiles,
         old.profiles[p].secret, old.profiles[p].type = new.profiles[p].type
  PROVE  new.profiles[p].secret
  <1>1. CASE q.op = "put_upstreams"
    <2> DEFINE g == MergeProxySecrets(q.arg, old)
    <2>1. q.arg \in RegistryOf(Ips \cup Spellings)
      BY <1>1, BodyFacts, PanelAssumption
    <2>2. /\ g \in RegistryOf(Ips \cup Spellings) /\ DOMAIN g.profiles = DOMAIN q.arg.profiles
          /\ \A x \in DOMAIN q.arg.profiles \cap DOMAIN old.profiles :
               /\ g.profiles[x].type = q.arg.profiles[x].type
               /\ old.profiles[x].type = q.arg.profiles[x].type /\ old.profiles[x].secret
                    => g.profiles[x].secret
      BY <2>1, MergeFacts
    <2>3. new = [g EXCEPT !.byIp = NormalKeys(@)]
      BY <1>1 DEF Changed
    <2> HIDE DEF g
    <2>4. new.profiles = g.profiles
      BY <2>2, <2>3, RegistryFacts
    <2> QED BY <2>2, <2>4
  <1>2. CASE q.op \in {"set_client", "del_client"}
    <2>1. new.profiles = old.profiles
      BY <1>2, RegistryFacts DEF Changed
    <2> QED BY <2>1
  <1> QED BY <1>1, <1>2, BodyFacts

\* merge_proxy_secrets: a profile that keeps its name and type keeps its password, unless
\* requests for the registry have raced.
THEOREM SecretsAreKept == Spec => SecretsKept
  <1> DEFINE A == LET old == live.upstreams.profiles
                      new == live'.upstreams.profiles
                  IN "upstreams" \notin raced' =>
                       \A p \in DOMAIN old \cap DOMAIN new :
                         old[p].secret /\ old[p].type = new[p].type => new[p].secret
  <1>1. StoresInv /\ [Next]_vars => [A]_vars
    <2> SUFFICES ASSUME StoresInv, Next, "upstreams" \notin raced',
                        NEW p \in DOMAIN live["upstreams"].profiles
                                    \cap DOMAIN live'["upstreams"].profiles,
                        live["upstreams"].profiles[p].secret,
                        live["upstreams"].profiles[p].type = live'["upstreams"].profiles[p].type
                 PROVE  live'["upstreams"].profiles[p].secret
      OBVIOUS
    <2>0. TypeInv /\ AloneOK /\ StoresOK
      BY TypeParts DEF StoresInv
    <2>1. PICK r \in Requests : Step(r)
      BY DEF Next, Step
    <2>2. CASE live'["upstreams"] = live["upstreams"]
      BY <2>2
    <2>3. CASE live'["upstreams"] # live["upstreams"]
      <3>1. WriteLive(r) /\ StoreOf(req[r]) = "upstreams"
        BY <2>0, <2>1, <2>3, BeginFacts, KeepFacts, WriteLiveFacts DEF Step, stores, Stores
      <3>2. /\ live'["upstreams"] = mine[r] /\ On(r, "upstreams") /\ Fresh(r)
            /\ "upstreams" \notin raced
        BY <2>0, <3>1, WriteLiveFacts
      <3>3. mine[r] = Changed(req[r], live["upstreams"])
        BY <2>0, <3>2 DEF AloneOK, Stores
      <3>4. req[r] \in Bodies
        BY <2>0, <3>2, TypeParts DEF On, RequestOK
      <3>5. live["upstreams"] \in RegistryOf(Ips)
        BY <2>0, DocFacts DEF StoresOK, Stores, Values
      <3> QED BY <3>1, <3>2, <3>3, <3>4, <3>5, SecretsInChange
    <2> QED BY <2>2, <2>3
  <1> QED BY <1>1, StoresInit, StoresStep, PTL DEF Spec, SecretsKept
=============================================================================

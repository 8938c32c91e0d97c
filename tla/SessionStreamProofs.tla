-------------------------- MODULE SessionStreamProofs --------------------------
(***************************************************************************)
(* Proofs about SessionStream, for streams, heads and buffers of every     *)
(* length: what a peer gets is what the other has sent, in order and       *)
(* without a gap, and an orderly end has delivered everything.             *)
(***************************************************************************)
EXTENDS SessionStream, SequenceTheorems, TLAPS

------------------------------------------------------------------------------
(* The inductive invariant *)

\* What is fixed when the session begins.
SetupOK == kind \in Kinds /\ via \in Vias /\ head \in Heads /\ serverFirst \in BOOLEAN

Forwarding == {"splice", "closed"}

\* The copy tasks run in the splice only, and nothing has been written before.  Until the
\* extraction is over nothing is to be replayed and no upstream has been talked to.
QuietOK ==
  /\ phase \notin Forwarding => /\ out = <<>> /\ got = <<>>
                                /\ chunk = [d \in Dirs |-> <<>>]
                                /\ copy = [d \in Dirs |-> "off"]
  /\ phase \in {"detect", "extract"} => /\ flight = <<>> /\ overflow = <<>>
                                        /\ usent = 0 /\ uread = 0
  /\ phase \in Forwarding => \A d \in Dirs : copy[d] # "off"
  /\ phase \notin Forwarding => cut = {}

\* The client's stream: what the origin has got are the pieces after k up to m.  What is to
\* be replayed, or is in the hands of the copy task, follows without a gap up to the last
\* piece that was read.
UpAt(k, m) ==
  /\ (k = 0) = (kind # "connect")
  /\ k <= m /\ out = Pieces(k, m)
  /\ phase \in {"connect", "replay"} => k <= read /\ flight \o overflow = Pieces(k, read)
  /\ phase \in Forwarding =>
       /\ m <= read
       /\ copy["up"] = "run" => chunk["up"] = Pieces(m, read)
       /\ copy["up"] = "done" /\ cut = {} => m = read /\ read = sent /\ fin

\* http_connect may read bytes of an origin that sends first.
MayDrop == via = "http" /\ serverFirst

\* The handshake: the tunnel is open when all of its answers have been read, and but for
\* MayDrop no piece of the origin has been read by then.
HandshakeOK ==
  /\ phase = "connect" /\ via = "direct" => usent = 0
  /\ phase = "connect" /\ Socks5 => uread < Handshake
  /\ phase \in {"connect", "replay"} /\ via = "http" /\ ~serverFirst => usent <= Handshake
  /\ phase = "replay" => /\ uread >= Handshake
                         /\ ~MayDrop => uread = Handshake
  /\ phase \in Forwarding => uread >= Handshake

\* The origin's stream, in the same way.
DownAt(m) ==
  /\ got = Pieces(0, m)
  /\ phase \in Forwarding =>
       /\ m <= uread - Handshake
       /\ copy["down"] = "run" => chunk["down"] = Pieces(m, uread - Handshake)
       /\ copy["down"] = "done" /\ cut = {} => /\ m = uread - Handshake
                                               /\ uread = usent /\ ufin

UpOK == \E k, m \in 0..(head + Body) : UpAt(k, m)
DownOK == ~MayDrop => \E m \in 0..Reply : DownAt(m)

Inv == SetupOK /\ TypeOK /\ QuietOK /\ HandshakeOK /\ UpOK /\ DownOK

------------------------------------------------------------------------------
(* Pieces of a stream *)

\* A stretch of a stream is a sequence of numbers.
LEMMA PiecesType ==
  ASSUME NEW a \in Nat, NEW b \in Nat, a <= b
  PROVE  /\ Pieces(a, b) \in Seq(Nat)
         /\ Len(Pieces(a, b)) = b - a
         /\ \A i \in 1..(b - a) : Pieces(a, b)[i] = a + i
         /\ Pieces(a, b) = <<>> <=> a = b
  <1>1. \A i \in 1..(b - a) : a + i \in Nat
    OBVIOUS
  <1>2. b - a \in Nat
    OBVIOUS
  <1>3. Pieces(a, b) \in Seq(Nat) /\ Len(Pieces(a, b)) = b - a
    BY <1>1, <1>2 DEF Pieces
  <1>4. \A i \in 1..(b - a) : Pieces(a, b)[i] = a + i
    BY DEF Pieces
  <1>5. Pieces(a, b) = <<>> <=> a = b
    BY <1>3
  <1> QED BY <1>3, <1>4, <1>5

\* Two stretches that meet are one.
LEMMA PiecesConcat ==
  ASSUME NEW a \in Nat, NEW b \in Nat, NEW c \in Nat, a <= b, b <= c
  PROVE  Pieces(a, b) \o Pieces(b, c) = Pieces(a, c)
  <1>1. /\ Pieces(a, b) \in Seq(Nat) /\ Len(Pieces(a, b)) = b - a
        /\ \A i \in 1..(b - a) : Pieces(a, b)[i] = a + i
    BY PiecesType
  <1>2. /\ Pieces(b, c) \in Seq(Nat) /\ Len(Pieces(b, c)) = c - b
        /\ \A i \in 1..(c - b) : Pieces(b, c)[i] = b + i
    BY PiecesType
  <1>3. /\ Pieces(a, c) \in Seq(Nat) /\ Len(Pieces(a, c)) = c - a
        /\ \A i \in 1..(c - a) : Pieces(a, c)[i] = a + i
    BY PiecesType
  <1>4. \A p, q \in Seq(Nat) :
          /\ p \o q \in Seq(Nat) /\ Len(p \o q) = Len(p) + Len(q)
          /\ \A i \in 1..(Len(p) + Len(q)) :
               (p \o q)[i] = IF i <= Len(p) THEN p[i] ELSE q[i - Len(p)]
    BY ConcatProperties
  <1> DEFINE p == Pieces(a, b)
             q == Pieces(b, c)
             r == Pieces(a, c)
             s == p \o q
  <1>5. s \in Seq(Nat) /\ Len(s) = c - a
    <2> HIDE DEF p, q
    <2>1. p \in Seq(Nat) /\ q \in Seq(Nat) /\ Len(p) = b - a /\ Len(q) = c - b
      BY <1>1, <1>2 DEF p, q
    <2> QED BY <1>4, <2>1
  <1>6. ASSUME NEW i \in 1..(c - a)
        PROVE  s[i] = r[i]
    <2> HIDE DEF p, q, r
    <2>0. /\ p \in Seq(Nat) /\ q \in Seq(Nat) /\ Len(p) = b - a /\ Len(q) = c - b
          /\ r[i] = a + i
      BY <1>1, <1>2, <1>3 DEF p, q, r
    <2>1. i \in 1..(Len(p) + Len(q))
      BY <2>0
    <2>2. s[i] = IF i <= Len(p) THEN p[i] ELSE q[i - Len(p)]
      BY <1>4, <2>0, <2>1
    <2>3. CASE i <= b - a
      <3>1. p[i] = a + i
        BY <1>1, <2>3 DEF p
      <3> QED BY <2>0, <2>2, <2>3, <3>1
    <2>4. CASE ~(i <= b - a)
      <3>1. i - (b - a) \in 1..(c - b) /\ b + (i - (b - a)) = a + i
        BY <2>4
      <3>2. q[i - (b - a)] = a + i
        BY <1>2, <3>1 DEF q
      <3> QED BY <2>0, <2>2, <2>4, <3>2
    <2> QED BY <2>3, <2>4
  <1> HIDE DEF p, q, r, s
  <1>7. s = r
    <2>1. r \in Seq(Nat) /\ Len(r) = c - a
      BY <1>3 DEF r
    <2> QED BY <1>5, <1>6, <2>1, SeqEqual
  <1> QED BY <1>7 DEF s, r, p, q

\* The beginning of a stretch is a prefix of it.
LEMMA PiecesPrefix ==
  ASSUME NEW a \in Nat, NEW b \in Nat, NEW c \in Nat, a <= b, b <= c
  PROVE  IsPrefix(Pieces(a, b), Pieces(a, c))
  <1>1. /\ Pieces(a, b) \in Seq(Nat) /\ Len(Pieces(a, b)) = b - a
        /\ \A i \in 1..(b - a) : Pieces(a, b)[i] = a + i
    BY PiecesType
  <1>2. /\ Pieces(a, c) \in Seq(Nat) /\ Len(Pieces(a, c)) = c - a
        /\ \A i \in 1..(c - a) : Pieces(a, c)[i] = a + i
    BY PiecesType
  <1>3. SubSeq(Pieces(a, b), 1, b - a) = SubSeq(Pieces(a, c), 1, b - a)
    BY <1>1, <1>2
  <1> QED BY <1>1, <1>2, <1>3 DEF IsPrefix

------------------------------------------------------------------------------
(* Numbers and types *)

\* The lengths that are fixed.
LEMMA Lengths ==
  ASSUME SetupOK
  PROVE  /\ head \in Nat /\ head > 2 /\ Body \in Nat /\ Reply \in Nat
         /\ BufLen \in Nat /\ BufLen > 2 /\ Handshake \in Nat
         /\ via \in {"direct", "socks5", "socks5_auth", "http"}
         /\ kind \in {"tls", "http", "connect"}
         /\ via = "direct" <=> Handshake = 0
         /\ Candidates \in Nat
  <1>1. via \in {"direct", "socks5", "socks5_auth", "http"}
    BY StreamAssumption DEF SetupOK
  <1>2. Handshake \in Nat /\ (via = "direct" <=> Handshake = 0)
    BY <1>1 DEF Handshake
  <1> QED BY <1>1, <1>2, StreamAssumption DEF SetupOK

\* What the type invariant says of the numbers, one by one.
LEMMA Counts ==
  ASSUME SetupOK, TypeOK
  PROVE  /\ sent \in Nat /\ read \in Nat /\ usent \in Nat /\ uread \in Nat
         /\ read <= sent /\ sent <= head + Body
         /\ uread <= usent /\ usent <= Handshake + Reply
         /\ tries \in Nat /\ fin \in BOOLEAN /\ ufin \in BOOLEAN
  BY Lengths DEF TypeOK

\* The setup does not change, and what is defined from it neither.
LEMMA SetupStays ==
  ASSUME SetupOK, UNCHANGED setup
  PROVE  /\ SetupOK' /\ Handshake' = Handshake
         /\ head' = head /\ kind' = kind /\ via' = via /\ serverFirst' = serverFirst
         /\ Socks5' = Socks5 /\ MayDrop' = MayDrop
  BY DEF SetupOK, setup, Handshake, Socks5, MayDrop

------------------------------------------------------------------------------
(* The peers *)

\* A peer sends or ends: what has been read and written stays.
LEMMA PeersInv ==
  ASSUME Inv, ClientSend \/ ClientFin \/ UpstreamSend \/ UpstreamFin
  PROVE  Inv'
  <1>0. /\ SetupOK /\ TypeOK /\ QuietOK /\ HandshakeOK /\ UpOK /\ DownOK
        /\ UNCHANGED <<setup, phase, parser, read, flight, overflow, replied, tries,
                       uread, out, got, chunk, copy, cut>>
    BY DEF Inv, ClientSend, ClientFin, UpstreamSend, UpstreamFin, copies, client, upstream
  <1>1. /\ SetupOK' /\ Handshake' = Handshake
        /\ head' = head /\ kind' = kind /\ via' = via /\ serverFirst' = serverFirst
        /\ Socks5' = Socks5 /\ MayDrop' = MayDrop
    BY <1>0, SetupStays
  <1>2. /\ sent' \in 0..(head + Body) /\ sent' >= sent /\ (fin => sent' = sent /\ fin')
        /\ fin' \in BOOLEAN
    <2>1. sent' = sent \/ (sent' = sent + 1 /\ sent < head + Body)
      BY DEF ClientSend, ClientFin, UpstreamSend, UpstreamFin, client
    <2>2. sent' \in 0..(head + Body) /\ sent' >= sent
      BY <1>0, <2>1, Counts, Lengths
    <2>3. (fin => sent' = sent /\ fin') /\ (fin' = fin \/ fin' = TRUE)
      BY DEF ClientSend, ClientFin, UpstreamSend, UpstreamFin, ClientUp, client
    <2> QED BY <1>0, <2>2, <2>3 DEF TypeOK
  <1>3. /\ usent' \in 0..(Handshake + Reply) /\ usent' >= usent
        /\ (ufin => usent' = usent /\ ufin')
        /\ ufin' \in BOOLEAN
    <2>1. usent' = usent \/ (usent' = usent + 1 /\ usent < Handshake + Reply)
      BY DEF ClientSend, ClientFin, UpstreamSend, UpstreamFin, upstream
    <2>2. usent' \in 0..(Handshake + Reply) /\ usent' >= usent
      BY <1>0, <2>1, Counts, Lengths
    <2>3. (ufin => usent' = usent /\ ufin') /\ (ufin' = ufin \/ ufin' = TRUE)
      BY DEF ClientSend, ClientFin, UpstreamSend, UpstreamFin, UpstreamUp, upstream
    <2> QED BY <1>0, <2>2, <2>3 DEF TypeOK
  <1>4. usent' # usent =>
          /\ phase \in {"connect", "replay", "splice"} /\ (phase = "connect" => via # "direct")
          /\ usent' = usent + 1
          /\ usent >= Handshake => serverFirst \/ out # <<>>
    BY <1>0, Counts
       DEF ClientSend, ClientFin, UpstreamSend, UpstreamFin, UpstreamUp, client, upstream
  <1>5. TypeOK'
    <2>1. read' \in 0..sent' /\ uread' \in 0..usent'
      BY <1>0, <1>2, <1>3, Counts, Lengths
    <2> QED BY <1>0, <1>1, <1>2, <1>3, <2>1 DEF TypeOK
  <1>6. QuietOK'
    BY <1>0, <1>4 DEF QuietOK, Forwarding
  <1>7. HandshakeOK'
    BY <1>0, <1>1, <1>3, <1>4, Counts, Lengths DEF HandshakeOK, QuietOK, Forwarding
  <1>8. UpOK'
    <2>1. PICK k, m \in 0..(head + Body) : UpAt(k, m)
      BY <1>0 DEF UpOK
    <2>2. UpAt(k, m)'
      BY <1>0, <1>1, <1>2, <2>1 DEF UpAt
    <2> QED BY <1>1, <2>2 DEF UpOK
  <1>9. DownOK'
    <2> SUFFICES ASSUME ~MayDrop PROVE \E m \in 0..Reply : DownAt(m)'
      BY <1>1 DEF DownOK
    <2>1. PICK m \in 0..Reply : DownAt(m)
      BY <1>0 DEF DownOK
    <2>2. DownAt(m)'
      BY <1>0, <1>1, <1>3, <2>1 DEF DownAt
    <2> QED BY <2>2
  <1> QED BY <1>1, <1>5, <1>6, <1>7, <1>8, <1>9 DEF Inv

\* A peer resets its connection: from then on no end is an orderly one.
LEMMA ResetInv ==
  ASSUME Inv, ClientReset \/ UpstreamReset
  PROVE  Inv'
  <1>0. /\ SetupOK /\ TypeOK /\ QuietOK /\ HandshakeOK /\ UpOK /\ DownOK
        /\ phase = "splice"
        /\ UNCHANGED <<setup, phase, parser, read, flight, overflow, replied, tries,
                       uread, out, got, chunk, copy>>
        /\ cut' # {} /\ cut' \subseteq {"client", "upstream", "limit"}
    BY DEF Inv, ClientReset, UpstreamReset, copies, client, upstream, TypeOK
  <1>1. /\ SetupOK' /\ Handshake' = Handshake
        /\ head' = head /\ kind' = kind /\ via' = via /\ serverFirst' = serverFirst
        /\ Socks5' = Socks5 /\ MayDrop' = MayDrop
    BY <1>0, SetupStays
  <1>2. /\ sent' \in 0..(head + Body) /\ read <= sent' /\ fin' \in BOOLEAN
        /\ usent' \in 0..(Handshake + Reply) /\ uread <= usent' /\ ufin' \in BOOLEAN
    <2>1. (sent' = sent \/ sent' = read) /\ (usent' = usent \/ usent' = uread)
      BY DEF ClientReset, UpstreamReset, client, upstream
    <2>2. (fin' = fin \/ fin' = TRUE) /\ (ufin' = ufin \/ ufin' = TRUE)
      BY DEF ClientReset, UpstreamReset, client, upstream
    <2>3. fin' \in BOOLEAN /\ ufin' \in BOOLEAN
      BY <1>0, <2>2 DEF TypeOK
    <2> QED BY <1>0, <2>1, <2>3, Counts, Lengths
  <1>3. TypeOK'
    <2>1. read' \in 0..sent' /\ uread' \in 0..usent'
      BY <1>0, <1>2, Counts, Lengths
    <2> QED BY <1>0, <1>1, <1>2, <2>1 DEF TypeOK
  <1>4. QuietOK' /\ HandshakeOK'
    BY <1>0, <1>1 DEF QuietOK, HandshakeOK, Forwarding
  <1>5. UpOK'
    <2>1. PICK k, m \in 0..(head + Body) : UpAt(k, m)
      BY <1>0 DEF UpOK
    <2>2. UpAt(k, m)'
      BY <1>0, <1>1, <2>1 DEF UpAt
    <2> QED BY <1>1, <2>2 DEF UpOK
  <1>6. DownOK'
    <2> SUFFICES ASSUME ~MayDrop PROVE \E m \in 0..Reply : DownAt(m)'
      BY <1>1 DEF DownOK
    <2>1. PICK m \in 0..Reply : DownAt(m)
      BY <1>0 DEF DownOK
    <2>2. DownAt(m)'
      BY <1>0, <1>1, <2>1 DEF DownAt
    <2> QED BY <2>2
  <1> QED BY <1>1, <1>3, <1>4, <1>5, <1>6 DEF Inv

------------------------------------------------------------------------------
(* The extraction *)

\* The session fails before the splice: nothing has been forwarded.
LEMMA FailInv ==
  ASSUME Inv, phase \notin Forwarding, phase' = "failed", read' \in 0..sent,
         UNCHANGED <<setup, parser, sent, fin, flight, overflow, replied, tries,
                     usent, ufin, uread, out, got, chunk, copy, cut>>
  PROVE  Inv'
  <1>0. SetupOK /\ TypeOK /\ QuietOK /\ HandshakeOK /\ UpOK /\ DownOK
    BY DEF Inv
  <1>1. /\ SetupOK' /\ Handshake' = Handshake
        /\ head' = head /\ kind' = kind /\ via' = via /\ serverFirst' = serverFirst
        /\ Socks5' = Socks5 /\ MayDrop' = MayDrop
    BY <1>0, SetupStays
  <1>2. TypeOK'
    BY <1>0, <1>1 DEF TypeOK
  <1>3. QuietOK' /\ HandshakeOK'
    BY <1>0, <1>1 DEF QuietOK, HandshakeOK, Forwarding
  <1>4. UpOK'
    <2>1. PICK k, m \in 0..(head + Body) : UpAt(k, m)
      BY <1>0 DEF UpOK
    <2>2. UpAt(k, m)'
      BY <1>1, <2>1 DEF UpAt, Forwarding
    <2> QED BY <1>1, <2>2 DEF UpOK
  <1>5. DownOK'
    <2> SUFFICES ASSUME ~MayDrop PROVE \E m \in 0..Reply : DownAt(m)'
      BY <1>1 DEF DownOK
    <2>1. PICK m \in 0..Reply : DownAt(m)
      BY <1>0 DEF DownOK
    <2>2. DownAt(m)'
      BY <2>1 DEF DownAt, Forwarding
    <2> QED BY <2>2
  <1> QED BY <1>1, <1>2, <1>3, <1>4, <1>5 DEF Inv

\* The extraction goes on: bytes are read, the parser is chosen.
LEMMA GoOnInv ==
  ASSUME Inv, phase \in {"detect", "extract"}, phase' = "extract", read' \in 0..sent,
         parser' \in {"tls", "http"},
         UNCHANGED <<setup, sent, fin, flight, overflow, replied, tries,
                     usent, ufin, uread, out, got, chunk, copy, cut>>
  PROVE  Inv'
  <1>0. SetupOK /\ TypeOK /\ QuietOK /\ HandshakeOK /\ UpOK /\ DownOK
    BY DEF Inv
  <1>1. /\ SetupOK' /\ Handshake' = Handshake
        /\ head' = head /\ kind' = kind /\ via' = via /\ serverFirst' = serverFirst
        /\ Socks5' = Socks5 /\ MayDrop' = MayDrop
    BY <1>0, SetupStays
  <1>2. TypeOK'
    BY <1>0, <1>1 DEF TypeOK
  <1>3. QuietOK' /\ HandshakeOK'
    BY <1>0, <1>1 DEF QuietOK, HandshakeOK, Forwarding
  <1>4. UpOK'
    <2>1. PICK k, m \in 0..(head + Body) : UpAt(k, m)
      BY <1>0 DEF UpOK
    <2>2. UpAt(k, m)'
      BY <1>1, <2>1 DEF UpAt, Forwarding
    <2> QED BY <1>1, <2>2 DEF UpOK
  <1>5. DownOK'
    <2> SUFFICES ASSUME ~MayDrop PROVE \E m \in 0..Reply : DownAt(m)'
      BY <1>1 DEF DownOK
    <2>1. PICK m \in 0..Reply : DownAt(m)
      BY <1>0 DEF DownOK
    <2>2. DownAt(m)'
      BY <2>1 DEF DownAt, Forwarding
    <2> QED BY <2>2
  <1> QED BY <1>1, <1>2, <1>3, <1>4, <1>5 DEF Inv

\* The host name is there: what has been read after the first k pieces is to be
\* replayed.
LEMMA ExtractedInv ==
  ASSUME Inv, phase = "extract", phase' = "connect", read' \in 0..sent,
         replied' \in BOOLEAN, flight' \in Seq(Nat), overflow' \in Seq(Nat),
         NEW k \in 0..(head + Body), (k = 0) = (kind # "connect"), k <= read',
         flight' \o overflow' = Pieces(k, read'),
         UNCHANGED <<setup, parser, sent, fin, tries,
                     usent, ufin, uread, out, got, chunk, copy, cut>>
  PROVE  Inv'
  <1>0. SetupOK /\ TypeOK /\ QuietOK /\ HandshakeOK /\ UpOK /\ DownOK
    BY DEF Inv
  <1>1. /\ SetupOK' /\ Handshake' = Handshake
        /\ head' = head /\ kind' = kind /\ via' = via /\ serverFirst' = serverFirst
        /\ Socks5' = Socks5 /\ MayDrop' = MayDrop
    BY <1>0, SetupStays
  <1>2. TypeOK'
    BY <1>0, <1>1 DEF TypeOK
  <1>3. QuietOK'
    BY <1>0, <1>1 DEF QuietOK, Forwarding
  <1>4. HandshakeOK'
    <2>1. usent' = 0 /\ uread' = 0
      BY <1>0 DEF QuietOK
    <2> QED BY <1>0, <1>1, <2>1, Lengths DEF HandshakeOK, Forwarding, Socks5
  <1>5. UpOK'
    <2>1. out' = Pieces(k, k)
      BY <1>0, Lengths, PiecesType DEF QuietOK, Forwarding
    <2>2. UpAt(k, k)'
      BY <1>1, <2>1 DEF UpAt, Forwarding
    <2> QED BY <1>1, <2>2 DEF UpOK
  <1>6. DownOK'
    <2> SUFFICES ASSUME ~MayDrop PROVE \E m \in 0..Reply : DownAt(m)'
      BY <1>1 DEF DownOK
    <2>1. PICK m \in 0..Reply : DownAt(m)
      BY <1>0 DEF DownOK
    <2>2. DownAt(m)'
      BY <2>1 DEF DownAt, Forwarding
    <2> QED BY <2>2
  <1> QED BY <1>1, <1>2, <1>3, <1>4, <1>5, <1>6 DEF Inv

\* Every step of the extraction.
LEMMA ExtractInv ==
  ASSUME Inv, Detect \/ Extract
  PROVE  Inv'
  <1>0. SetupOK /\ TypeOK /\ QuietOK
    BY DEF Inv
  <1>1. CASE Detect
    <2>1. /\ phase = "detect" /\ phase' = "extract" /\ parser' \in {"tls", "http"}
          /\ UNCHANGED <<setup, sent, fin, read, flight, overflow, replied, tries,
                         usent, ufin, uread, out, got, chunk, copy, cut>>
      BY <1>1 DEF Detect, client, upstream, copies
    <2>2. read' \in 0..sent
      BY <1>0, <2>1 DEF TypeOK
    <2> QED BY <2>1, <2>2, GoOnInv
  <1>2. CASE ReadFails
    <2>1. /\ phase = "extract" /\ phase' = "failed"
          /\ UNCHANGED <<setup, parser, sent, fin, read, flight, overflow, replied, tries,
                         usent, ufin, uread, out, got, chunk, copy, cut>>
      BY <1>2 DEF ReadFails, Fail, client, upstream, copies
    <2>2. read' \in 0..sent
      BY <1>0, <2>1 DEF TypeOK
    <2> QED BY <2>1, <2>2, FailInv DEF Forwarding
  <1>3. CASE ReadHead
    <2>1. /\ phase = "extract"
          /\ UNCHANGED <<setup, parser, sent, fin, tries,
                         usent, ufin, uread, out, got, chunk, copy, cut>>
      BY <1>3 DEF ReadHead, client, upstream, copies
    <2>2. read' \in 0..sent
      BY <1>0, <1>3, Counts, Lengths DEF ReadHead
    <2>3. /\ flight = <<>> /\ overflow = <<>>
      BY <1>0, <2>1 DEF QuietOK
    <2>4. CASE Fail
      BY <2>1, <2>2, <2>4, FailInv DEF Fail, Forwarding
    <2>5. CASE UNCHANGED <<phase, flight, overflow, replied>>
      BY <1>0, <2>1, <2>2, <2>5, GoOnInv DEF TypeOK
    <2>6. CASE ~Fail /\ ~UNCHANGED <<phase, flight, overflow, replied>>
      <3>1. CASE parser = "tls"
        <4>1. ParseTls(read')
          BY <1>3, <2>6, <3>1 DEF ReadHead
        <4>2. /\ kind = "tls" /\ read' >= head
              /\ flight' = Pieces(0, head) /\ overflow' = Pieces(head, read')
              /\ phase' = "connect" /\ replied' = replied
          BY <2>6, <4>1 DEF ParseTls
        <4>3. read' \in Nat /\ head \in Nat
          BY <1>0, <2>2, Counts, Lengths
        <4>4. /\ flight' \in Seq(Nat) /\ overflow' \in Seq(Nat)
              /\ flight' \o overflow' = Pieces(0, read')
          <5>1. 0 \in Nat /\ 0 <= head /\ head <= read'
            BY <4>2, <4>3
          <5>2. Pieces(0, head) \in Seq(Nat) /\ Pieces(head, read') \in Seq(Nat)
            BY <4>3, <5>1, PiecesType
          <5>3. Pieces(0, head) \o Pieces(head, read') = Pieces(0, read')
            BY <4>3, <5>1, PiecesConcat
          <5> QED BY <4>2, <5>2, <5>3
        <4>5. replied' \in BOOLEAN
          BY <1>0, <4>2 DEF TypeOK
        <4>6. 0 \in 0..(head + Body) /\ 0 <= read' /\ (0 = 0) = (kind # "connect")
          BY <1>0, <4>2, <4>3, Lengths
        <4> QED BY <2>1, <2>2, <4>2, <4>4, <4>5, <4>6, ExtractedInv
      <3>2. CASE parser # "tls"
        <4>1. ParseHttp(read')
          BY <1>3, <2>6, <3>2 DEF ReadHead
        <4>2. read' \in Nat /\ read' \in 0..(head + Body)
          BY <1>0, <2>2, Counts, Lengths
        <4>3. CASE /\ kind = "connect" /\ read' >= 2 /\ replied' = TRUE /\ phase' = "connect"
                   /\ UNCHANGED <<flight, overflow>>
          <5>1. <<>> \o <<>> = <<>> /\ <<>> \in Seq(Nat)
            OBVIOUS
          <5>2. flight' \o overflow' = Pieces(read', read')
            BY <2>3, <4>2, <4>3, <5>1, PiecesType
          <5>3. (read' = 0) = (kind # "connect") /\ read' <= read'
            BY <4>2, <4>3
          <5> QED BY <2>1, <2>2, <2>3, <4>2, <4>3, <5>1, <5>2, <5>3, ExtractedInv
        <4>4. CASE /\ kind = "http" /\ read' >= head
                   /\ flight' = Pieces(0, read') /\ phase' = "connect"
                   /\ UNCHANGED <<overflow, replied>>
          <5>1. flight' \in Seq(Nat) /\ overflow' = <<>> /\ overflow' \in Seq(Nat)
            BY <2>3, <4>2, <4>4, PiecesType
          <5>2. flight' \o overflow' = Pieces(0, read')
            BY <4>4, <5>1, ConcatEmptySeq
          <5>3. replied' \in BOOLEAN
            BY <1>0, <4>4 DEF TypeOK
          <5>4. 0 \in 0..(head + Body) /\ 0 <= read' /\ (0 = 0) = (kind # "connect")
            BY <1>0, <4>2, <4>4, Lengths
          <5> QED BY <2>1, <2>2, <4>4, <5>1, <5>2, <5>3, <5>4, ExtractedInv
        <4> QED BY <2>6, <4>1, <4>3, <4>4 DEF ParseHttp
      <3> QED BY <3>1, <3>2
    <2> QED BY <2>4, <2>5, <2>6
  <1> QED BY <1>1, <1>2, <1>3 DEF Extract

------------------------------------------------------------------------------
(* The upstream *)

\* A step of the handshake, or the next candidate: the client's stream is not touched.
LEMMA ConnectFrame ==
  ASSUME Inv, phase = "connect", phase' \in {"connect", "replay"},
         tries' \in 1..Candidates, ufin' \in BOOLEAN,
         usent' \in 0..(Handshake + Reply), uread' \in 0..usent', HandshakeOK',
         UNCHANGED <<setup, parser, sent, fin, read, flight, overflow, replied,
                     out, got, chunk, copy, cut>>
  PROVE  Inv'
  <1>0. SetupOK /\ TypeOK /\ QuietOK /\ HandshakeOK /\ UpOK /\ DownOK
    BY DEF Inv
  <1>1. /\ SetupOK' /\ Handshake' = Handshake
        /\ head' = head /\ kind' = kind /\ via' = via /\ serverFirst' = serverFirst
        /\ Socks5' = Socks5 /\ MayDrop' = MayDrop
    BY <1>0, SetupStays
  <1>2. TypeOK'
    BY <1>0, <1>1 DEF TypeOK
  <1>3. QuietOK'
    BY <1>0, <1>1 DEF QuietOK, Forwarding
  <1>4. UpOK'
    <2>1. PICK k, m \in 0..(head + Body) : UpAt(k, m)
      BY <1>0 DEF UpOK
    <2>2. UpAt(k, m)'
      BY <1>1, <2>1 DEF UpAt, Forwarding
    <2> QED BY <1>1, <2>2 DEF UpOK
  <1>5. DownOK'
    <2> SUFFICES ASSUME ~MayDrop PROVE \E m \in 0..Reply : DownAt(m)'
      BY <1>1 DEF DownOK
    <2>1. PICK m \in 0..Reply : DownAt(m)
      BY <1>0 DEF DownOK
    <2>2. DownAt(m)'
      BY <2>1 DEF DownAt, Forwarding
    <2> QED BY <2>2
  <1> QED BY <1>1, <1>2, <1>3, <1>4, <1>5 DEF Inv

\* Every step of connect.
LEMMA ConnectInv ==
  ASSUME Inv, ConnectFails \/ ConnectDirect \/ Socks5Read \/ HttpConnectRead
  PROVE  Inv'
  <1>0. SetupOK /\ TypeOK /\ QuietOK /\ HandshakeOK /\ phase = "connect"
    BY DEF Inv, ConnectFails, ConnectDirect, Socks5Read, HttpConnectRead
  <1>1. UNCHANGED <<setup, parser, sent, fin, read, flight, overflow, replied,
                    out, got, chunk, copy, cut>>
    BY DEF ConnectFails, ConnectDirect, Socks5Read, HttpConnectRead, Fail, client, copies
  <1>2. /\ SetupOK' /\ Handshake' = Handshake
        /\ head' = head /\ kind' = kind /\ via' = via /\ serverFirst' = serverFirst
        /\ Socks5' = Socks5 /\ MayDrop' = MayDrop
    BY <1>0, <1>1, SetupStays
  <1>3. CASE ConnectFails
    <2>1. CASE tries = 1
      <3>1. phase' = "failed" /\ UNCHANGED <<tries, usent, ufin, uread>>
        BY <1>3, <2>1 DEF ConnectFails, Fail, upstream
      <3>2. read' \in 0..sent
        BY <1>0, <1>1 DEF TypeOK
      <3> QED BY <1>0, <1>1, <3>1, <3>2, FailInv DEF Forwarding
    <2>2. CASE tries # 1
      <3>1. /\ tries > 1 /\ tries' = tries - 1 /\ phase' = phase
            /\ usent' = 0 /\ ufin' = FALSE /\ uread' = 0
        BY <1>3, <2>2 DEF ConnectFails
      <3>2. /\ tries' \in 1..Candidates /\ usent' \in 0..(Handshake + Reply)
            /\ uread' \in 0..usent'
        BY <1>0, <3>1, Lengths DEF TypeOK
      <3>3. HandshakeOK'
        BY <1>0, <1>2, <3>1, Lengths DEF HandshakeOK, Socks5, Forwarding
      <3> QED BY <1>0, <1>1, <3>1, <3>2, <3>3, ConnectFrame
    <2> QED BY <2>1, <2>2
  <1>4. ASSUME UNCHANGED <<usent, ufin, tries>>, phase' \in {"connect", "replay"},
               uread' \in Nat, uread' <= usent, HandshakeOK'
        PROVE  Inv'
    <2>1. /\ tries' \in 1..Candidates /\ ufin' \in BOOLEAN
          /\ usent' \in 0..(Handshake + Reply)
      BY <1>0, <1>4 DEF TypeOK
    <2>2. uread' \in 0..usent'
      BY <1>0, <1>4, Counts
    <2> QED BY <1>0, <1>1, <1>4, <2>1, <2>2, ConnectFrame
  <1>5. CASE ConnectDirect
    <2>1. via = "direct" /\ phase' = "replay" /\ UNCHANGED <<usent, ufin, tries, uread>>
      BY <1>5 DEF ConnectDirect, upstream
    <2>2. usent = 0 /\ uread = 0
      BY <1>0, <2>1, Counts DEF HandshakeOK
    <2>3. HandshakeOK'
      BY <1>0, <1>2, <2>1, <2>2, Lengths DEF HandshakeOK, Forwarding
    <2> QED BY <1>0, <1>4, <2>1, <2>2, <2>3
  <1>6. CASE Socks5Read
    <2>1. /\ Socks5 /\ usent > uread /\ uread' = uread + 1 /\ UNCHANGED <<usent, ufin, tries>>
          /\ phase' = IF uread' = Handshake THEN "replay" ELSE "connect"
      BY <1>6 DEF Socks5Read, upstream
    <2>2. uread < Handshake /\ via # "http" /\ via # "direct"
      BY <1>0, <2>1 DEF HandshakeOK, Socks5
    <2>3. HandshakeOK'
      BY <1>0, <1>2, <2>1, <2>2, Counts, Lengths DEF HandshakeOK, Forwarding
    <2>4. uread' \in Nat /\ uread' <= usent
      BY <1>0, <2>1, Counts
    <2> QED BY <1>4, <2>1, <2>3, <2>4
  <1>7. CASE HttpConnectRead
    <2>1. /\ via = "http" /\ usent > uread /\ uread' = usent /\ UNCHANGED <<usent, ufin, tries>>
          /\ phase' = IF uread' >= Handshake THEN "replay" ELSE "connect"
      BY <1>7 DEF HttpConnectRead, upstream
    <2>2. ~serverFirst => usent <= Handshake
      BY <1>0, <2>1 DEF HandshakeOK
    <2>3. HandshakeOK'
      BY <1>0, <1>2, <2>1, <2>2, Counts, Lengths
         DEF HandshakeOK, Forwarding, Socks5, MayDrop
    <2>4. uread' \in Nat /\ uread' <= usent
      BY <1>0, <2>1, Counts
    <2> QED BY <1>4, <2>1, <2>3, <2>4
  <1> QED BY <1>3, <1>5, <1>6, <1>7

\* The replay hands over to the splice at the piece where reading stopped.
LEMMA ReplayInv ==
  ASSUME Inv, Replay \/ ReplayFails
  PROVE  Inv'
  <1>0. /\ SetupOK /\ TypeOK /\ QuietOK /\ HandshakeOK /\ UpOK /\ DownOK
        /\ phase = "replay"
    BY DEF Inv, Replay, ReplayFails
  <1>1. CASE ReplayFails
    <2>1. /\ phase' = "failed"
          /\ UNCHANGED <<setup, parser, sent, fin, read, flight, overflow, replied, tries,
                         usent, ufin, uread, out, got, chunk, copy, cut>>
      BY <1>1 DEF ReplayFails, Fail, client, upstream, copies
    <2>2. read' \in 0..sent
      BY <1>0, <2>1 DEF TypeOK
    <2> QED BY <1>0, <2>1, <2>2, FailInv DEF Forwarding
  <1>2. CASE Replay
    <2>0. /\ phase' = "splice" /\ out' = flight \o overflow
          /\ flight' = <<>> /\ overflow' = <<>> /\ copy' = [d \in Dirs |-> "run"]
          /\ UNCHANGED <<setup, parser, sent, fin, read, replied, tries,
                         usent, ufin, uread, got, chunk, cut>>
      BY <1>2 DEF Replay, client, upstream
    <2>1. /\ SetupOK' /\ Handshake' = Handshake
          /\ head' = head /\ kind' = kind /\ via' = via /\ serverFirst' = serverFirst
          /\ Socks5' = Socks5 /\ MayDrop' = MayDrop
      BY <1>0, <2>0, SetupStays
    <2>2. /\ copy'["up"] = "run" /\ copy'["down"] = "run"
          /\ chunk'["up"] = <<>> /\ chunk'["down"] = <<>> /\ got' = <<>>
      BY <1>0, <2>0 DEF QuietOK, Forwarding, Dirs
    <2>3. PICK k, m \in 0..(head + Body) : UpAt(k, m)
      BY <1>0 DEF UpOK
    <2>4. k <= read /\ out' = Pieces(k, read) /\ (k = 0) = (kind # "connect")
      BY <1>0, <2>0, <2>3 DEF UpAt
    <2>5. k \in Nat /\ read \in Nat /\ read \in 0..(head + Body)
      BY <1>0, Counts, Lengths
    <2>6. TypeOK'
      <3>1. out' \in Seq(Nat) /\ flight' \in Seq(Nat) /\ overflow' \in Seq(Nat)
        BY <2>0, <2>4, <2>5, PiecesType
      <3> QED BY <1>0, <2>0, <2>1, <3>1 DEF TypeOK
    <2>7. QuietOK' /\ HandshakeOK'
      BY <1>0, <2>0, <2>1 DEF QuietOK, HandshakeOK, Forwarding
    <2>8. UpOK'
      <3>1. Pieces(read, read) = <<>>
        BY <2>5, PiecesType
      <3>2. UpAt(k, read)'
        BY <2>0, <2>1, <2>2, <2>4, <2>5, <3>1 DEF UpAt, Forwarding
      <3>3. k \in 0..(head' + Body) /\ read \in 0..(head' + Body)
        BY <2>1, <2>5
      <3>4. UpAt(k, read)' => \E a, b \in 0..(head' + Body) : UpAt(a, b)'
        BY <2>0, <3>3 DEF UpAt
      <3> QED BY <3>2, <3>4 DEF UpOK
    <2>9. DownOK'
      <3> SUFFICES ASSUME ~MayDrop PROVE \E n \in 0..Reply : DownAt(n)'
        BY <2>1 DEF DownOK
      <3>1. uread' - Handshake' = 0 /\ 0 \in 0..Reply
        BY <1>0, <2>0, <2>1, Counts, Lengths DEF HandshakeOK
      <3>2. Pieces(0, 0) = <<>>
        BY PiecesType
      <3>3. DownAt(0)'
        BY <2>0, <2>2, <3>1, <3>2 DEF DownAt, Forwarding
      <3> QED BY <3>1, <3>3
    <2> QED BY <2>1, <2>6, <2>7, <2>8, <2>9 DEF Inv
  <1> QED BY <1>1, <1>2

------------------------------------------------------------------------------
(* splice *)

\* A step of the copy task of the client's stream.
LEMMA CopyUpInv ==
  ASSUME Inv, CopyStep("up")
  PROVE  Inv'
  <1>0. /\ SetupOK /\ TypeOK /\ QuietOK /\ HandshakeOK /\ UpOK /\ DownOK
        /\ phase = "splice" /\ copy["up"] = "run"
        /\ copy \in [Dirs -> {"off", "run", "done"}] /\ chunk \in [Dirs -> Seq(Nat)]
        /\ "up" \in Dirs /\ "down" \in Dirs /\ "up" # "down"
        /\ cut \subseteq {"client", "upstream", "limit"}
    BY DEF Inv, TypeOK, CopyStep, CopyRead, CopyEnd, CopyWrite, Dirs
  <1>1. UNCHANGED <<setup, phase, parser, sent, fin, flight, overflow, replied, tries,
                    usent, ufin, uread, got>>
    BY DEF CopyStep, CopyRead, CopyEnd, CopyWrite, client, upstream
  <1>2. /\ SetupOK' /\ Handshake' = Handshake
        /\ head' = head /\ kind' = kind /\ via' = via /\ serverFirst' = serverFirst
        /\ Socks5' = Socks5 /\ MayDrop' = MayDrop
    BY <1>0, <1>1, SetupStays
  <1>3. PICK k, m \in 0..(head + Body) : UpAt(k, m)
    BY <1>0 DEF UpOK
  <1>4. /\ (k = 0) = (kind # "connect") /\ k <= m /\ out = Pieces(k, m)
        /\ m <= read /\ chunk["up"] = Pieces(m, read)
    BY <1>0, <1>3 DEF UpAt, Forwarding
  <1>5. /\ k \in Nat /\ m \in Nat /\ read \in Nat /\ sent \in Nat /\ read <= sent
        /\ read \in 0..(head + Body) /\ sent \in 0..(head + Body)
    BY <1>0, Counts, Lengths
  <1>5a. /\ Pieces(m, read) = <<>> => m = read
         /\ Pieces(k, m) \o Pieces(m, read) = Pieces(k, read) /\ Pieces(read, read) = <<>>
    <2>1. m <= read /\ k <= m /\ read <= read
      BY <1>4, <1>5
    <2>2. Len(Pieces(m, read)) = read - m /\ (Pieces(read, read) = <<>>)
      BY <1>5, <2>1, PiecesType
    <2>3. Pieces(k, m) \o Pieces(m, read) = Pieces(k, read)
      BY <1>5, <2>1, PiecesConcat
    <2> QED BY <1>5, <2>1, <2>2, <2>3
  \* What each of the steps does.
  <1>6. \E n \in {m, read} :
          /\ out' = Pieces(k, n) /\ m <= n /\ read' \in 0..sent /\ n <= read'
          /\ chunk'["up"] \in Seq(Nat) /\ chunk' = [chunk EXCEPT !["up"] = chunk'["up"]]
          /\ copy'["up"] \in {"run", "done"} /\ copy' = [copy EXCEPT !["up"] = copy'["up"]]
          /\ copy'["up"] = "run" => chunk'["up"] = Pieces(n, read')
          /\ copy'["up"] = "done" /\ cut' = {} => n = read' /\ read' = sent /\ fin
          /\ cut \subseteq cut' /\ cut' \subseteq {"client", "upstream", "limit"}
    <2>1. CASE CopyRead("up")
      <3>1. /\ chunk["up"] = <<>> /\ chunk' = [chunk EXCEPT !["up"] = Pieces(read, sent)]
            /\ read' = sent /\ UNCHANGED <<out, copy, cut>>
        BY <1>0, <2>1 DEF CopyRead
      <3>2. m = read
        BY <1>4, <1>5a, <3>1
      <3>3. Pieces(read, sent) \in Seq(Nat)
        BY <1>5, PiecesType
      <3>4. chunk'["up"] = Pieces(read, sent) /\ copy'["up"] = "run"
        BY <1>0, <3>1
      <3>5. sent \in 0..sent /\ read <= sent
        BY <1>5
      <3>6. /\ chunk' = [chunk EXCEPT !["up"] = chunk'["up"]]
            /\ copy' = [copy EXCEPT !["up"] = copy'["up"]]
        BY <1>0, <3>1, <3>4
      <3> QED BY <1>0, <1>4, <1>5, <3>1, <3>2, <3>3, <3>4, <3>5, <3>6
    <2>2. CASE CopyEnd("up")
      <3>1. /\ chunk["up"] = <<>> /\ copy' = [copy EXCEPT !["up"] = "done"]
            /\ "client" \in cut \/ (fin /\ sent = read)
            /\ UNCHANGED <<read, out, chunk, cut>>
        BY <1>0, <2>2 DEF CopyEnd
      <3>2. m = read
        BY <1>4, <1>5a, <3>1
      <3>3. copy'["up"] = "done" /\ chunk'["up"] \in Seq(Nat)
        BY <1>0, <3>1
      <3>4. read \in 0..sent /\ read <= read
        BY <1>5
      <3>5. /\ chunk' = [chunk EXCEPT !["up"] = chunk'["up"]]
            /\ copy' = [copy EXCEPT !["up"] = copy'["up"]]
        BY <1>0, <3>1, <3>3
      <3> QED BY <1>0, <1>4, <1>5, <3>1, <3>2, <3>3, <3>4, <3>5
    <2>3. CASE CopyWrite("up")
      <3>1. /\ chunk' = [chunk EXCEPT !["up"] = <<>>] /\ read' = read
            /\ \/ /\ out' = out \o chunk["up"]
                  /\ UNCHANGED <<copy, cut>>
               \/ /\ out' = out \o chunk["up"]
                  /\ copy' = [copy EXCEPT !["up"] = "done"] /\ cut' = cut \cup {"limit"}
               \/ /\ "upstream" \in cut /\ copy' = [copy EXCEPT !["up"] = "done"]
                  /\ UNCHANGED <<out, cut>>
        BY <1>0, <2>3 DEF CopyWrite
      <3>2. out \o chunk["up"] = Pieces(k, read) /\ Pieces(read, read) = <<>>
        BY <1>4, <1>5a
      <3>3. chunk'["up"] = <<>> /\ <<>> \in Seq(Nat)
            /\ chunk' = [chunk EXCEPT !["up"] = chunk'["up"]]
        BY <1>0, <3>1
      <3>4. read \in 0..sent /\ read <= read
        BY <1>5
      <3>5. CASE out' = out \o chunk["up"] /\ UNCHANGED <<copy, cut>>
        <4>1. copy' = [copy EXCEPT !["up"] = copy'["up"]] /\ copy'["up"] = "run"
          BY <1>0, <3>5
        <4> QED BY <1>0, <1>4, <3>1, <3>2, <3>3, <3>4, <3>5, <4>1
      <3>6. CASE /\ out' = out \o chunk["up"]
                 /\ copy' = [copy EXCEPT !["up"] = "done"] /\ cut' = cut \cup {"limit"}
        <4>1. copy' = [copy EXCEPT !["up"] = copy'["up"]] /\ copy'["up"] = "done"
          BY <1>0, <3>6
        <4> QED BY <1>0, <1>4, <3>1, <3>2, <3>3, <3>4, <3>6, <4>1
      <3>7. CASE /\ "upstream" \in cut /\ copy' = [copy EXCEPT !["up"] = "done"]
                 /\ UNCHANGED <<out, cut>>
        <4>1. copy' = [copy EXCEPT !["up"] = copy'["up"]] /\ copy'["up"] = "done"
          BY <1>0, <3>7
        <4>2. m <= m
          BY <1>5
        <4> QED BY <1>0, <1>4, <3>1, <3>3, <3>4, <3>7, <4>1, <4>2
      <3> QED BY <3>1, <3>5, <3>6, <3>7
    <2> QED BY <2>1, <2>2, <2>3 DEF CopyStep
  <1>7. PICK n \in {m, read} :
          /\ out' = Pieces(k, n) /\ m <= n /\ read' \in 0..sent /\ n <= read'
          /\ chunk'["up"] \in Seq(Nat) /\ chunk' = [chunk EXCEPT !["up"] = chunk'["up"]]
          /\ copy'["up"] \in {"run", "done"} /\ copy' = [copy EXCEPT !["up"] = copy'["up"]]
          /\ copy'["up"] = "run" => chunk'["up"] = Pieces(n, read')
          /\ copy'["up"] = "done" /\ cut' = {} => n = read' /\ read' = sent /\ fin
          /\ cut \subseteq cut' /\ cut' \subseteq {"client", "upstream", "limit"}
    BY <1>6
  <1>8. n \in 0..(head + Body) /\ n \in Nat /\ k <= n
    BY <1>4, <1>5, <1>7
  <1>9. /\ copy'["down"] = copy["down"] /\ chunk'["down"] = chunk["down"]
        /\ copy' \in [Dirs -> {"off", "run", "done"}] /\ chunk' \in [Dirs -> Seq(Nat)]
    BY <1>0, <1>7
  <1>10. TypeOK'
    <2>1. out' \in Seq(Nat)
      BY <1>5, <1>7, <1>8, PiecesType
    <2> QED BY <1>0, <1>1, <1>2, <1>7, <1>9, <2>1 DEF TypeOK
  <1>11. QuietOK' /\ HandshakeOK'
    BY <1>0, <1>1, <1>2, <1>7, <1>9 DEF QuietOK, HandshakeOK, Forwarding, Dirs
  <1>12. UpOK'
    <2>1. UpAt(k, n)'
      BY <1>0, <1>1, <1>2, <1>4, <1>7, <1>8 DEF UpAt, Forwarding
    <2>2. k \in 0..(head' + Body) /\ n \in 0..(head' + Body)
      BY <1>2, <1>8
    <2> QED BY <2>1, <2>2 DEF UpOK
  <1>13. DownOK'
    <2> SUFFICES ASSUME ~MayDrop PROVE \E j \in 0..Reply : DownAt(j)'
      BY <1>2 DEF DownOK
    <2>1. PICK j \in 0..Reply : DownAt(j)
      BY <1>0 DEF DownOK
    <2>2. cut' = {} => cut = {}
      BY <1>7
    <2>3. DownAt(j)'
      BY <1>0, <1>1, <1>2, <1>9, <2>1, <2>2 DEF DownAt, Forwarding
    <2> QED BY <2>3
  <1> QED BY <1>2, <1>10, <1>11, <1>12, <1>13 DEF Inv

\* A step of the copy task of the origin's stream.
LEMMA CopyDownInv ==
  ASSUME Inv, CopyStep("down")
  PROVE  Inv'
  <1>0. /\ SetupOK /\ TypeOK /\ QuietOK /\ HandshakeOK /\ UpOK /\ DownOK
        /\ phase = "splice" /\ copy["down"] = "run"
        /\ copy \in [Dirs -> {"off", "run", "done"}] /\ chunk \in [Dirs -> Seq(Nat)]
        /\ "up" \in Dirs /\ "down" \in Dirs /\ "up" # "down"
        /\ cut \subseteq {"client", "upstream", "limit"} /\ got \in Seq(Nat)
    BY DEF Inv, TypeOK, CopyStep, CopyRead, CopyEnd, CopyWrite, Dirs
  <1>1. UNCHANGED <<setup, phase, parser, sent, fin, read, flight, overflow, replied, tries,
                    usent, ufin, out>>
    BY DEF CopyStep, CopyRead, CopyEnd, CopyWrite, client, upstream
  <1>2. /\ SetupOK' /\ Handshake' = Handshake
        /\ head' = head /\ kind' = kind /\ via' = via /\ serverFirst' = serverFirst
        /\ Socks5' = Socks5 /\ MayDrop' = MayDrop
    BY <1>0, <1>1, SetupStays
  <1> DEFINE r == uread - Handshake
             u == usent - Handshake
  <1>3. /\ r \in Nat /\ u \in Nat /\ r <= u /\ u <= Reply /\ Reply \in Nat
        /\ uread \in Nat /\ usent \in Nat /\ Handshake \in Nat /\ uread <= usent
    <2>1. Reply \in Nat /\ Handshake \in Nat
      BY <1>0, Lengths
    <2>2. uread \in Nat /\ usent \in Nat /\ uread <= usent /\ usent <= Handshake + Reply
      BY <1>0, Counts
    <2>3. phase \in Forwarding
      BY <1>0 DEF Forwarding
    <2>4. uread >= Handshake
      BY <1>0, <2>3 DEF HandshakeOK
    <2> QED BY <2>1, <2>2, <2>4
  \* What each of the steps does.
  <1>4. \/ /\ chunk["down"] = <<>> /\ chunk' = [chunk EXCEPT !["down"] = Pieces(r, u)]
           /\ uread' = usent /\ UNCHANGED <<got, copy, cut>>
        \/ /\ chunk["down"] = <<>> /\ copy' = [copy EXCEPT !["down"] = "done"]
           /\ "upstream" \in cut \/ (ufin /\ usent = uread)
           /\ UNCHANGED <<uread, got, chunk, cut>>
        \/ /\ chunk' = [chunk EXCEPT !["down"] = <<>>] /\ uread' = uread
           /\ \/ /\ got' = got \o chunk["down"]
                 /\ UNCHANGED <<copy, cut>>
              \/ /\ got' = got \o chunk["down"]
                 /\ copy' = [copy EXCEPT !["down"] = "done"] /\ cut' = cut \cup {"limit"}
              \/ /\ "client" \in cut /\ copy' = [copy EXCEPT !["down"] = "done"]
                 /\ UNCHANGED <<got, cut>>
    <2>1. CASE CopyRead("down")
      BY <1>0, <2>1 DEF CopyRead
    <2>2. CASE CopyEnd("down")
      BY <1>0, <2>2 DEF CopyEnd
    <2>3. CASE CopyWrite("down")
      BY <1>0, <2>3 DEF CopyWrite
    <2> QED BY <2>1, <2>2, <2>3 DEF CopyStep
  <1> HIDE DEF r, u
  <1>5. chunk["down"] \in Seq(Nat) /\ Pieces(r, u) \in Seq(Nat) /\ <<>> \in Seq(Nat)
    BY <1>0, <1>3, PiecesType
  <1>6. got \o chunk["down"] \in Seq(Nat)
    BY <1>0, <1>5
  <1>7. /\ got' \in Seq(Nat) /\ chunk' \in [Dirs -> Seq(Nat)]
        /\ copy' \in [Dirs -> {"off", "run", "done"}]
        /\ copy'["up"] = copy["up"] /\ chunk'["up"] = chunk["up"]
        /\ copy'["down"] # "off"
        /\ cut \subseteq cut' /\ cut' \subseteq {"client", "upstream", "limit"}
    <2>1. got' \in Seq(Nat)
      BY <1>0, <1>4, <1>6
    <2>2. chunk' \in [Dirs -> Seq(Nat)] /\ chunk'["up"] = chunk["up"]
      <3>1. \/ chunk' = chunk
            \/ chunk' = [chunk EXCEPT !["down"] = Pieces(r, u)]
            \/ chunk' = [chunk EXCEPT !["down"] = <<>>]
        BY <1>4
      <3>2. ASSUME NEW x \in Seq(Nat), chunk' = [chunk EXCEPT !["down"] = x]
            PROVE  chunk' \in [Dirs -> Seq(Nat)] /\ chunk'["up"] = chunk["up"]
        BY <1>0, <3>2
      <3> QED BY <1>0, <1>5, <3>1, <3>2
    <2>3. copy' = copy \/ copy' = [copy EXCEPT !["down"] = "done"]
      BY <1>4
    <2>4. /\ copy' \in [Dirs -> {"off", "run", "done"}] /\ copy'["up"] = copy["up"]
          /\ copy'["down"] # "off"
      BY <1>0, <2>3
    <2>5. cut' = cut \/ cut' = cut \cup {"limit"}
      BY <1>4
    <2> QED BY <1>0, <2>1, <2>2, <2>4, <2>5
  <1>8. uread' \in Nat /\ uread' >= uread /\ uread' <= usent
    BY <1>3, <1>4
  <1>9. TypeOK'
    <2>1. uread' \in 0..usent'
      BY <1>1, <1>3, <1>8
    <2> QED BY <1>0, <1>1, <1>2, <1>7, <2>1 DEF TypeOK
  <1>10. QuietOK'
    BY <1>0, <1>1, <1>2, <1>7 DEF QuietOK, Forwarding, Dirs
  <1>11. HandshakeOK'
    BY <1>0, <1>1, <1>2, <1>3, <1>8 DEF HandshakeOK, Forwarding
  <1>12. UpOK'
    <2>1. PICK k, m \in 0..(head + Body) : UpAt(k, m)
      BY <1>0 DEF UpOK
    <2>2. cut' = {} => cut = {}
      BY <1>7
    <2>3. UpAt(k, m)'
      BY <1>0, <1>1, <1>2, <1>7, <2>1, <2>2 DEF UpAt, Forwarding
    <2> QED BY <1>2, <2>3 DEF UpOK
  <1>13. DownOK'
    <2> SUFFICES ASSUME ~MayDrop PROVE \E j \in 0..Reply : DownAt(j)'
      BY <1>2 DEF DownOK
    <2>1. PICK m \in 0..Reply : DownAt(m)
      BY <1>0 DEF DownOK
    <2>2. got = Pieces(0, m) /\ m <= r /\ chunk["down"] = Pieces(m, r)
      BY <1>0, <2>1 DEF DownAt, Forwarding, r
    <2>3. /\ m \in Nat /\ 0 \in Nat /\ 0 <= m /\ m <= m /\ r <= r /\ r \in 0..Reply
      BY <1>3
    <2>4. /\ Pieces(m, r) = <<>> => m = r
          /\ Pieces(0, m) \o Pieces(m, r) = Pieces(0, r) /\ Pieces(r, r) = <<>>
      <3>1. Len(Pieces(m, r)) = r - m /\ (Pieces(r, r) = <<>>)
        BY <1>3, <2>2, <2>3, PiecesType
      <3>2. Pieces(0, m) \o Pieces(m, r) = Pieces(0, r)
        BY <1>3, <2>2, <2>3, PiecesConcat
      <3> QED BY <1>3, <2>2, <2>3, <3>1, <3>2
    \* It suffices to say how far the client has got.
    <2>5. ASSUME NEW n \in {m, r}, got' = Pieces(0, n),
                 n <= uread' - Handshake,
                 copy'["down"] = "run" => chunk'["down"] = Pieces(n, uread' - Handshake),
                 copy'["down"] = "done" /\ cut' = {} =>
                   n = uread' - Handshake /\ uread' = usent /\ ufin
          PROVE  \E j \in 0..Reply : DownAt(j)'
      <3>1. DownAt(n)'
        BY <1>1, <1>2, <2>5 DEF DownAt
      <3>2. n \in 0..Reply
        BY <2>3
      <3> QED BY <3>1, <3>2
    <2>6. CASE /\ chunk["down"] = <<>> /\ chunk' = [chunk EXCEPT !["down"] = Pieces(r, u)]
               /\ uread' = usent /\ UNCHANGED <<got, copy, cut>>
      <3>1. m = r /\ chunk'["down"] = Pieces(m, u) /\ copy'["down"] = "run"
        BY <1>0, <2>2, <2>4, <2>6
      <3>2. m <= u /\ uread' - Handshake = u
        BY <1>3, <2>6, <3>1 DEF u
      <3> QED BY <2>2, <2>5, <2>6, <3>1, <3>2
    <2>7. CASE /\ chunk["down"] = <<>> /\ copy' = [copy EXCEPT !["down"] = "done"]
               /\ "upstream" \in cut \/ (ufin /\ usent = uread)
               /\ UNCHANGED <<uread, got, chunk, cut>>
      <3>1. m = r /\ copy'["down"] = "done" /\ (cut' = {} => ufin /\ usent = uread)
        BY <1>0, <2>2, <2>4, <2>7
      <3>2. uread' - Handshake = r
        BY <2>7 DEF r
      <3> QED BY <2>2, <2>3, <2>5, <2>7, <3>1, <3>2
    <2>8. CASE /\ chunk' = [chunk EXCEPT !["down"] = <<>>] /\ uread' = uread
               /\ got' = got \o chunk["down"]
               /\ \/ UNCHANGED <<copy, cut>>
                  \/ copy' = [copy EXCEPT !["down"] = "done"] /\ cut' = cut \cup {"limit"}
      <3>1. got' = Pieces(0, r) /\ chunk'["down"] = Pieces(r, r)
        BY <1>0, <2>2, <2>4, <2>8
      <3>2. copy'["down"] = "run" \/ cut' # {}
        BY <1>0, <2>8
      <3>3. uread' - Handshake = r /\ (copy'["down"] = "run" => copy'["down"] # "done")
        BY <2>8 DEF r
      <3> QED BY <2>3, <2>5, <3>1, <3>2, <3>3
    <2>9. CASE /\ chunk' = [chunk EXCEPT !["down"] = <<>>] /\ uread' = uread
               /\ "client" \in cut /\ copy' = [copy EXCEPT !["down"] = "done"]
               /\ UNCHANGED <<got, cut>>
      <3>1. copy'["down"] = "done" /\ cut' # {}
        BY <1>0, <2>9
      <3>2. uread' - Handshake = r
        BY <2>9 DEF r
      <3> QED BY <2>2, <2>5, <2>9, <3>1, <3>2
    <2> QED BY <1>4, <2>6, <2>7, <2>8, <2>9
  <1> QED BY <1>2, <1>9, <1>10, <1>11, <1>12, <1>13 DEF Inv

\* Both tasks have ended, and stuttering steps.
LEMMA CloseInv ==
  ASSUME Inv, Close \/ UNCHANGED vars
  PROVE  Inv'
  <1>0. /\ SetupOK /\ TypeOK /\ QuietOK /\ HandshakeOK /\ UpOK /\ DownOK
        /\ phase' = phase \/ (phase = "splice" /\ phase' = "closed")
        /\ UNCHANGED <<setup, parser, sent, fin, read, flight, overflow, replied, tries,
                       usent, ufin, uread, out, got, chunk, copy, cut>>
    BY DEF Inv, Close, vars, copies, client, upstream
  <1>1. /\ SetupOK' /\ Handshake' = Handshake
        /\ head' = head /\ kind' = kind /\ via' = via /\ serverFirst' = serverFirst
        /\ Socks5' = Socks5 /\ MayDrop' = MayDrop
    BY <1>0, SetupStays
  <1>2. TypeOK'
    BY <1>0, <1>1 DEF TypeOK
  <1>3. QuietOK' /\ HandshakeOK'
    BY <1>0, <1>1 DEF QuietOK, HandshakeOK, Forwarding
  <1>4. UpOK'
    <2>1. PICK k, m \in 0..(head + Body) : UpAt(k, m)
      BY <1>0 DEF UpOK
    <2>2. UpAt(k, m)'
      BY <1>0, <1>1, <2>1 DEF UpAt, Forwarding
    <2> QED BY <1>1, <2>2 DEF UpOK
  <1>5. DownOK'
    <2> SUFFICES ASSUME ~MayDrop PROVE \E m \in 0..Reply : DownAt(m)'
      BY <1>1 DEF DownOK
    <2>1. PICK m \in 0..Reply : DownAt(m)
      BY <1>0 DEF DownOK
    <2>2. DownAt(m)'
      BY <1>0, <1>1, <2>1 DEF DownAt, Forwarding
    <2> QED BY <2>2
  <1> QED BY <1>1, <1>2, <1>3, <1>4, <1>5 DEF Inv

------------------------------------------------------------------------------
(* The specification *)

\* The invariant holds when a connection has been accepted.
LEMMA InitInv == Init => Inv
  <1> SUFFICES ASSUME Init PROVE Inv
    OBVIOUS
  <1>1. SetupOK
    BY DEF Init, SetupOK
  <1>2. TypeOK
    <2>1. /\ sent \in 0..(head + Body) /\ read \in 0..sent /\ tries \in 1..Candidates
          /\ usent \in 0..(Handshake + Reply) /\ uread \in 0..usent
      BY <1>1, Lengths, StreamAssumption DEF Init
    <2>2. /\ flight \in Seq(Nat) /\ overflow \in Seq(Nat) /\ out \in Seq(Nat)
          /\ got \in Seq(Nat) /\ chunk \in [Dirs -> Seq(Nat)]
      BY DEF Init
    <2>3. /\ phase \in {"detect", "extract"} /\ parser \in {"tls", "http"}
          /\ fin \in BOOLEAN /\ ufin \in BOOLEAN /\ replied \in BOOLEAN
          /\ copy \in [Dirs -> {"off", "run", "done"}] /\ cut = {}
      BY DEF Init
    <2> QED BY <2>1, <2>2, <2>3 DEF TypeOK
  <1>3. phase \in {"detect", "extract"}
    BY DEF Init
  <1>4. QuietOK /\ HandshakeOK
    BY <1>3 DEF Init, QuietOK, HandshakeOK, Forwarding
  <1>5. /\ Pieces(0, 0) = <<>> /\ Pieces(1, 1) = <<>>
    BY PiecesType
  <1>6. UpOK
    <2>1. 0 \in 0..(head + Body) /\ 1 \in 0..(head + Body) /\ 0 <= 0 /\ 1 <= 1 /\ 1 # 0
      BY <1>1, Lengths
    <2>2. CASE kind = "connect"
      <3>1. UpAt(1, 1)
        BY <1>3, <1>5, <2>1, <2>2 DEF UpAt, Init, Forwarding
      <3> QED BY <2>1, <3>1 DEF UpOK
    <2>3. CASE kind # "connect"
      <3>1. UpAt(0, 0)
        BY <1>3, <1>5, <2>1, <2>3 DEF UpAt, Init, Forwarding
      <3> QED BY <2>1, <3>1 DEF UpOK
    <2> QED BY <2>2, <2>3
  <1>7. DownOK
    <2>1. 0 \in 0..Reply
      BY <1>1, Lengths
    <2>2. DownAt(0)
      BY <1>3, <1>5 DEF DownAt, Init, Forwarding
    <2> QED BY <2>1, <2>2 DEF DownOK
  <1> QED BY <1>1, <1>2, <1>4, <1>6, <1>7 DEF Inv

\* Every step of the session and of its two peers keeps it.
LEMMA StepInv == Inv /\ [Next]_vars => Inv'
  <1> SUFFICES ASSUME Inv, [Next]_vars PROVE Inv'
    OBVIOUS
  <1>1. CASE Peers
    BY <1>1, PeersInv, ResetInv DEF Peers
  <1>2. CASE Detect \/ Extract
    BY <1>2, ExtractInv
  <1>3. CASE ConnectFails \/ ConnectDirect \/ Socks5Read \/ HttpConnectRead
    BY <1>3, ConnectInv
  <1>4. CASE Replay \/ ReplayFails
    BY <1>4, ReplayInv
  <1>5. CASE \E d \in Dirs : CopyStep(d)
    BY <1>5, CopyUpInv, CopyDownInv DEF Dirs
  <1>6. CASE Close \/ UNCHANGED vars
    BY <1>6, CloseInv
  <1> QED BY <1>1, <1>2, <1>3, <1>4, <1>5, <1>6 DEF Next

------------------------------------------------------------------------------
(* Theorems *)

\* The state of a session keeps its shape: nothing is read that has not been sent.
THEOREM TypeCorrect == Spec => []TypeOK
  <1>1. Inv => TypeOK
    BY DEF Inv
  <1> QED BY <1>1, InitInv, StepInv, PTL DEF Spec

\* For every way of cutting the streams into reads, every length of the head and of the
\* buffer and every upstream: the origin gets the client's bytes and the client the
\* origin's, in order, none twice and none left out between the peeked bytes, the
\* overflow and splice().
THEOREM StreamsCorrect == Spec => []StreamsInOrder
  <1>1. Inv => StreamsInOrder
    <2> SUFFICES ASSUME Inv PROVE OriginGetsPrefix /\ ClientGetsPrefix
      BY DEF StreamsInOrder
    <2>0. SetupOK /\ TypeOK /\ UpOK /\ DownOK
      BY DEF Inv
    <2>1. OriginGetsPrefix
      <3>1. PICK k, m \in 0..(head + Body) : UpAt(k, m)
        BY <2>0 DEF UpOK
      <3>2. /\ (k = 0) = (kind # "connect") /\ k <= m /\ out = Pieces(k, m)
            /\ k \in Nat /\ m \in Nat /\ head + Body \in Nat /\ m <= head + Body
        BY <2>0, <3>1, Lengths DEF UpAt
      <3>3. IsPrefix(Pieces(k, m), Pieces(k, head + Body))
        BY <3>2, PiecesPrefix
      <3>4. kind = "connect" => k \in 1..(head + Body)
        BY <3>2
      <3> QED BY <3>2, <3>3, <3>4 DEF OriginGetsPrefix, ClientStream
    <2>2. ClientGetsPrefix
      <3> SUFFICES ASSUME ~MayDrop PROVE IsPrefix(got, OriginStream)
        BY DEF ClientGetsPrefix, MayDrop
      <3>1. PICK m \in 0..Reply : DownAt(m)
        BY <2>0 DEF DownOK
      <3>2. got = Pieces(0, m) /\ 0 \in Nat /\ m \in Nat /\ Reply \in Nat /\ 0 <= m /\ m <= Reply
        BY <2>0, <3>1, Lengths DEF DownAt
      <3>3. IsPrefix(Pieces(0, m), Pieces(0, Reply))
        BY <3>2, PiecesPrefix
      <3> QED BY <3>2, <3>3 DEF OriginStream
    <2> QED BY <2>1, <2>2
  <1> QED BY <1>1, InitInv, StepInv, PTL DEF Spec

\* A session that ends without a reset and within its quota has delivered all that
\* either side sent, also when one side had finished long before the other.
THEOREM OrderlyEndCorrect == Spec => []OrderlyEndDeliversAll
  <1>1. Inv /\ (phase = "closed" => \A d \in Dirs : copy[d] = "done") => OrderlyEndDeliversAll
    <2> SUFFICES ASSUME Inv, phase = "closed", \A d \in Dirs : copy[d] = "done", cut = {}
                 PROVE  /\ kind # "connect" => out = Pieces(0, sent)
                        /\ ~MayDrop => got = Pieces(0, usent - Handshake)
      BY DEF OrderlyEndDeliversAll, MayDrop
    <2>1. copy["up"] = "done" /\ copy["down"] = "done" /\ phase \in Forwarding
      BY DEF Dirs, Forwarding
    <2>2. kind # "connect" => out = Pieces(0, sent)
      <3>1. PICK k, m \in 0..(head + Body) : UpAt(k, m)
        BY DEF Inv, UpOK
      <3> QED BY <2>1, <3>1 DEF UpAt
    <2>3. ~MayDrop => got = Pieces(0, usent - Handshake)
      BY <2>1 DEF Inv, DownOK, DownAt
    <2> QED BY <2>2, <2>3
  <1>2. Init => (phase = "closed" => \A d \in Dirs : copy[d] = "done")
    BY DEF Init
  <1>3. /\ (phase = "closed" => \A d \in Dirs : copy[d] = "done") /\ [Next]_vars
        => (phase = "closed" => \A d \in Dirs : copy[d] = "done")'
    <2> SUFFICES ASSUME phase = "closed" => \A d \in Dirs : copy[d] = "done", [Next]_vars,
                        phase' = "closed"
                 PROVE  \A d \in Dirs : copy'[d] = "done"
      OBVIOUS
    <2>1. CASE phase = "closed"
      <3>1. copy' = copy
        BY <2>1 DEF Next, Peers, Extract, CopyStep, ClientSend, ClientFin, UpstreamSend,
                    UpstreamFin, ClientReset, UpstreamReset, Detect, ReadHead, ReadFails,
                    ConnectFails, ConnectDirect, Socks5Read, HttpConnectRead, Replay,
                    ReplayFails, CopyRead, CopyEnd, CopyWrite, Close, vars, copies
      <3> QED BY <2>1, <3>1
    <2>2. CASE phase # "closed"
      <3>1. Close
        <4>1. CASE ReadHead
          BY <2>2, <4>1 DEF ReadHead, ParseTls, ParseHttp, Fail
        <4>2. CASE ~ReadHead
          BY <2>2, <4>2 DEF Next, Peers, Extract, CopyStep, ClientSend, ClientFin,
                    UpstreamSend, UpstreamFin, ClientReset, UpstreamReset, Detect, ReadFails,
                    ConnectFails, ConnectDirect, Socks5Read, HttpConnectRead, Replay,
                    ReplayFails, CopyRead, CopyEnd, CopyWrite, Fail, vars
        <4> QED BY <4>1, <4>2
      <3> QED BY <3>1 DEF Close, copies
    <2> QED BY <2>1, <2>2
  <1> QED BY <1>1, <1>2, <1>3, InitInv, StepInv, PTL DEF Spec
=============================================================================

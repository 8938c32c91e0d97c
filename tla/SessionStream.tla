----------------------------- MODULE SessionStream -----------------------------
(***************************************************************************)
(* The bytes of one session, from the first read of the client to the end  *)
(* of splice(): the extraction of the host name, which consumes bytes that *)
(* have to be replayed (src/service.rs), the handshake with the upstream   *)
(* proxy (src/proxy_connector.rs) and the two copy tasks.                  *)
(*                                                                         *)
(* A stream is a sequence of pieces, numbered from 1; a read returns what  *)
(* has arrived, so that every way TCP can cut a stream into reads is a     *)
(* behaviour.  Piece 1 of the client is shorter than three bytes, piece 2  *)
(* completes the first five bytes (a record header, a method), piece head  *)
(* completes the ClientHello or the request head.  What comes between the  *)
(* extraction and the connection is in RelayService.                       *)
(***************************************************************************)
EXTENDS Integers, SequencesExt

CONSTANTS
  Kinds,       \* what the client speaks: "tls", "http", "connect"
  Protos,      \* listen proto: "tls", "http", "auto"
  Vias,        \* upstream type: "direct", "socks5", "socks5_auth", "http"
  Heads,       \* lengths of the head, in pieces
  Body,        \* bound: pieces the client sends after the head
  Reply,       \* bound: pieces the origin sends
  BufLen,      \* pieces the extraction buffer holds
  Candidates   \* upstream profiles to try

ASSUME StreamAssumption ==
  /\ Kinds \subseteq {"tls", "http", "connect"}
  /\ Protos \subseteq {"tls", "http", "auto"}
  /\ Vias \subseteq {"direct", "socks5", "socks5_auth", "http"}
  /\ Heads \subseteq Nat /\ \A h \in Heads : h > 2
  /\ Body \in Nat /\ Reply \in Nat
  /\ BufLen \in Nat /\ BufLen > 2
  /\ Candidates \in Nat \ {0}

VARIABLES
  kind, via, head,  \* the client, the upstream and the length of the head: fixed
  serverFirst,  \* whether the origin sends before it has heard anything: fixed
  phase,        \* where handle_connection is
  parser,       \* "tls" or "http"
  sent, fin,    \* pieces the client has sent; whether it has finished
  read,         \* pieces the relay has read from the client
  flight,       \* peeked_bytes
  overflow,     \* client_overflow
  replied,      \* whether "200 Connection Established" has gone to the client
  tries,        \* candidates left, this one included
  usent, ufin,  \* pieces the upstream has sent, handshake included
  uread,        \* pieces the relay has read from the upstream
  out,          \* pieces written to the tunnel
  got,          \* pieces written to the client
  chunk,        \* per direction: read and not yet written
  copy,         \* per direction: "off", "run", "done"
  cut           \* what has cut the splice short: a peer's reset, the quota

setup == <<kind, via, head, serverFirst>>
client == <<sent, fin>>
upstream == <<usent, ufin>>
copies == <<out, got, chunk, copy>>
vars == <<setup, phase, parser, client, read, flight, overflow, replied, tries,
          upstream, uread, copies, cut>>

Dirs == {"up", "down"}

\* The pieces after a up to b.
Pieces(a, b) == [i \in 1..(b - a) |-> a + i]

\* What the proxy answers before the tunnel is open: the SOCKS5 method, with a
\* password the result of the authentication, the header of the reply and the
\* bound address; or the response head of CONNECT, which may come in two reads.
Handshake == CASE via = "direct" -> 0
               [] via = "socks5" -> 3
               [] via = "socks5_auth" -> 4
               [] via = "http" -> 2
Socks5 == via \in {"socks5", "socks5_auth"}

------------------------------------------------------------------------------
(* The peers *)

ClientUp == phase \notin {"closed", "failed"} /\ ~fin /\ "client" \notin cut

UpstreamUp == /\ phase \in {"replay", "splice"} \/ (phase = "connect" /\ via # "direct")
              /\ ~ufin /\ "upstream" \notin cut

\* The client sends; one that asked for CONNECT waits for the answer.
ClientSend ==
  /\ ClientUp
  /\ sent < head + Body
  /\ kind = "connect" /\ sent >= head => replied
  /\ sent' = sent + 1
  /\ UNCHANGED <<setup, phase, parser, fin, read, flight, overflow, replied, tries,
                 upstream, uread, copies, cut>>

\* The client shuts down its sending side.
ClientFin ==
  /\ ClientUp
  /\ fin' = TRUE
  /\ UNCHANGED <<setup, phase, parser, sent, read, flight, overflow, replied, tries,
                 upstream, uread, copies, cut>>

\* The proxy answers, then the origin sends through it.  A SOCKS5 proxy answers
\* when it has the request, its last answer comes in two pieces; an origin that
\* waits for a request has got one.
UpstreamSend ==
  /\ UpstreamUp
  /\ usent < Handshake + Reply
  /\ Socks5 /\ usent < Handshake - 1 => uread = usent
  /\ usent >= Handshake => serverFirst \/ out # <<>>
  /\ usent' = usent + 1
  /\ UNCHANGED <<setup, phase, parser, client, read, flight, overflow, replied, tries,
                 ufin, uread, copies, cut>>

UpstreamFin ==
  /\ UpstreamUp
  /\ ufin' = TRUE
  /\ UNCHANGED <<setup, phase, parser, client, read, flight, overflow, replied, tries,
                 usent, uread, copies, cut>>

\* A peer resets its connection; what it had sent and nobody has read is lost.
ClientReset ==
  /\ phase = "splice" /\ "client" \notin cut
  /\ cut' = cut \cup {"client"}
  /\ fin' = TRUE /\ sent' = read
  /\ UNCHANGED <<setup, phase, parser, read, flight, overflow, replied, tries,
                 upstream, uread, copies>>

UpstreamReset ==
  /\ phase = "splice" /\ "upstream" \notin cut
  /\ cut' = cut \cup {"upstream"}
  /\ ufin' = TRUE /\ usent' = uread
  /\ UNCHANGED <<setup, phase, parser, client, read, flight, overflow, replied, tries,
                 uread, copies>>

------------------------------------------------------------------------------
(* extract_tls_info, extract_http_info, extract_auto *)

\* extract_auto: client.peek, which has no time-out, decides on the parser.
Detect ==
  /\ phase = "detect"
  /\ sent > 0 \/ fin
  /\ parser' = IF kind = "tls" /\ sent >= 2 THEN "tls" ELSE "http"
  /\ phase' = "extract"
  /\ UNCHANGED <<setup, client, read, flight, overflow, replied, tries,
                 upstream, uread, copies, cut>>

\* bail!: the session ends, the sockets are closed.
Fail ==
  /\ phase' = "failed"
  /\ UNCHANGED <<flight, overflow, replied>>

\* parse_sni_with_replay on the first n pieces, and what becomes of them: the
\* record that holds the ClientHello first, the rest as overflow.
ParseTls(n) ==
  \/ /\ kind = "tls" /\ n >= head
     /\ flight' = Pieces(0, head)
     /\ overflow' = Pieces(head, n)
     /\ phase' = "connect"
     /\ UNCHANGED replied
  \/ kind = "tls" /\ n >= head /\ Fail  \* TlsNoSni
  \/ /\ kind = "tls" /\ n < head /\ n >= BufLen
     /\ Fail
  \/ /\ \/ kind = "tls" /\ n < head /\ n < BufLen
        \/ kind # "tls" /\ n < 2
     /\ UNCHANGED <<phase, flight, overflow, replied>>
  \/ kind # "tls" /\ n >= 2 /\ Fail  \* PlainHttp, Unknown

\* The same for extract_http_info: CONNECT is answered as soon as the method is
\* there, and what has been read is dropped.  Bytes after the head that are not UTF-8, or
\* end within a character, make from_utf8 fail for the whole buffer: the loop reads on.
ParseHttp(n) ==
  \/ /\ kind = "connect" /\ n >= 2
     /\ replied' = TRUE
     /\ phase' = "connect"
     /\ UNCHANGED <<flight, overflow>>
  \/ /\ kind = "http" /\ n >= head
     /\ flight' = Pieces(0, n)
     /\ phase' = "connect"
     /\ UNCHANGED <<overflow, replied>>
  \/ kind = "http" /\ n >= head /\ Fail  \* no Host header
  \/ LET more == kind = "tls" \/ (kind = "http" /\ n < head) \/ n < 2 \/ n > head
     IN /\ more
        /\ \/ n >= BufLen /\ Fail
           \/ n < BufLen /\ UNCHANGED <<phase, flight, overflow, replied>>

\* One iteration of the read loop of either function.
ReadHead ==
  /\ phase = "extract"
  /\ \/ /\ sent > read
        /\ read' = IF sent <= BufLen THEN sent ELSE BufLen
        /\ IF parser = "tls" THEN ParseTls(read') ELSE ParseHttp(read')
     \/ /\ sent = read /\ fin
        /\ Fail
        /\ UNCHANGED read
  /\ UNCHANGED <<setup, parser, client, tries, upstream, uread, copies, cut>>

\* Mutant: the read has no time-out.
ReadFailsNoTimeout ==
  /\ phase = "extract" /\ fin
  /\ Fail
  /\ UNCHANGED <<setup, parser, client, read, tries, upstream, uread, copies, cut>>

\* That read fails, or its time-out passes.
ReadFails ==
  /\ phase = "extract"
  /\ Fail
  /\ UNCHANGED <<setup, parser, client, read, tries, upstream, uread, copies, cut>>

------------------------------------------------------------------------------
(* proxy_connector::connect *)

\* Mutant: the count of what has been read is carried over to the next candidate.
ConnectFailsKeepsRead ==
  /\ phase = "connect"
  /\ \/ /\ tries > 1
        /\ tries' = tries - 1
        /\ usent' = 0 /\ ufin' = FALSE
        /\ UNCHANGED <<phase, flight, overflow, replied, uread>>
     \/ /\ tries = 1
        /\ Fail
        /\ UNCHANGED <<tries, upstream, uread>>
  /\ UNCHANGED <<setup, parser, client, read, copies, cut>>

\* The TCP connection, or the handshake, fails; the next candidate is tried on a
\* new connection, or the session fails.
ConnectFails ==
  /\ phase = "connect"
  /\ \/ /\ tries > 1
        /\ tries' = tries - 1
        /\ usent' = 0 /\ ufin' = FALSE /\ uread' = 0
        /\ UNCHANGED <<phase, flight, overflow, replied>>
     \/ /\ tries = 1
        /\ Fail
        /\ UNCHANGED <<tries, upstream, uread>>
  /\ UNCHANGED <<setup, parser, client, read, copies, cut>>

\* TcpStream::connect.
ConnectDirect ==
  /\ phase = "connect" /\ via = "direct"
  /\ phase' = "replay"
  /\ UNCHANGED <<setup, parser, client, read, flight, overflow, replied, tries,
                 upstream, uread, copies, cut>>

\* socks5_connect: read_exact takes one answer after the other.
Socks5Read ==
  /\ phase = "connect" /\ Socks5
  /\ usent > uread
  /\ uread' = uread + 1
  /\ phase' = IF uread' = Handshake THEN "replay" ELSE "connect"
  /\ UNCHANGED <<setup, parser, client, read, flight, overflow, replied, tries,
                 upstream, copies, cut>>

\* http_connect: a read takes whatever is there; what follows the head stays in
\* response_buf and is dropped with it.
HttpConnectRead ==
  /\ phase = "connect" /\ via = "http"
  /\ usent > uread
  /\ uread' = usent
  /\ phase' = IF uread' >= Handshake THEN "replay" ELSE "connect"
  /\ UNCHANGED <<setup, parser, client, read, flight, overflow, replied, tries,
                 upstream, copies, cut>>

------------------------------------------------------------------------------
(* The replay and splice() *)

\* Mutant: what was read behind the ClientHello is not forwarded.
ReplayFlightOnly ==
  /\ phase = "replay"
  /\ out' = flight
  /\ flight' = <<>> /\ overflow' = <<>>
  /\ phase' = "splice"
  /\ copy' = [d \in Dirs |-> "run"]
  /\ UNCHANGED <<setup, parser, client, read, replied, tries, upstream, uread,
                 got, chunk, cut>>

\* peeked_bytes, then client_overflow, are written to the upstream; splice()
\* spawns the copy tasks.
Replay ==
  /\ phase = "replay"
  /\ out' = flight \o overflow
  /\ flight' = <<>> /\ overflow' = <<>>
  /\ phase' = "splice"
  /\ copy' = [d \in Dirs |-> "run"]
  /\ UNCHANGED <<setup, parser, client, read, replied, tries, upstream, uread,
                 got, chunk, cut>>

ReplayFails ==
  /\ phase = "replay"
  /\ Fail
  /\ UNCHANGED <<setup, parser, client, read, tries, upstream, uread, copies, cut>>

\* One read of copy_counting.
CopyRead(d) ==
  /\ phase = "splice" /\ copy[d] = "run" /\ chunk[d] = <<>>
  /\ \/ /\ d = "up" /\ "client" \notin cut /\ sent > read
        /\ chunk' = [chunk EXCEPT ![d] = Pieces(read, sent)]
        /\ read' = sent
        /\ UNCHANGED uread
     \/ /\ d = "down" /\ "upstream" \notin cut /\ usent > uread
        /\ chunk' = [chunk EXCEPT ![d] = Pieces(uread - Handshake, usent - Handshake)]
        /\ uread' = usent
        /\ UNCHANGED read
  /\ UNCHANGED <<setup, phase, parser, client, flight, overflow, replied, tries,
                 upstream, out, got, copy, cut>>

\* Mutant: the direction ends at FIN, before what came ahead of it has been read.
CopyEndEarly(d) ==
  /\ phase = "splice" /\ copy[d] = "run" /\ chunk[d] = <<>>
  /\ \/ d = "up" /\ ("client" \in cut \/ fin)
     \/ d = "down" /\ ("upstream" \in cut \/ ufin)
  /\ copy' = [copy EXCEPT ![d] = "done"]
  /\ UNCHANGED <<setup, phase, parser, client, read, flight, overflow, replied, tries,
                 upstream, uread, out, got, chunk, cut>>

\* Mutant: a read error does not end the direction.
CopyEndEofOnly(d) ==
  /\ phase = "splice" /\ copy[d] = "run" /\ chunk[d] = <<>>
  /\ \/ d = "up" /\ "client" \notin cut /\ fin /\ sent = read
     \/ d = "down" /\ "upstream" \notin cut /\ ufin /\ usent = uread
  /\ copy' = [copy EXCEPT ![d] = "done"]
  /\ UNCHANGED <<setup, phase, parser, client, read, flight, overflow, replied, tries,
                 upstream, uread, out, got, chunk, cut>>

\* Ok(0) or an error: this direction ends.  Nobody tells the other peer.
CopyEnd(d) ==
  /\ phase = "splice" /\ copy[d] = "run" /\ chunk[d] = <<>>
  /\ \/ d = "up" /\ ("client" \in cut \/ (fin /\ sent = read))
     \/ d = "down" /\ ("upstream" \in cut \/ (ufin /\ usent = uread))
  /\ copy' = [copy EXCEPT ![d] = "done"]
  /\ UNCHANGED <<setup, phase, parser, client, read, flight, overflow, replied, tries,
                 upstream, uread, out, got, chunk, cut>>

\* write_all, then account_bytes, which may end this direction.
CopyWrite(d) ==
  /\ phase = "splice" /\ copy[d] = "run" /\ chunk[d] # <<>>
  /\ chunk' = [chunk EXCEPT ![d] = <<>>]
  /\ LET peer == IF d = "up" THEN "upstream" ELSE "client"
     IN \/ /\ peer \notin cut
           /\ out' = IF d = "up" THEN out \o chunk[d] ELSE out
           /\ got' = IF d = "down" THEN got \o chunk[d] ELSE got
           /\ \/ UNCHANGED <<copy, cut>>
              \/ /\ copy' = [copy EXCEPT ![d] = "done"]
                 /\ cut' = cut \cup {"limit"}
        \/ /\ peer \in cut
           /\ copy' = [copy EXCEPT ![d] = "done"]
           /\ UNCHANGED <<out, got, cut>>
  /\ UNCHANGED <<setup, phase, parser, client, read, flight, overflow, replied, tries,
                 upstream, uread>>

\* Mutant: the session ends with the first of the two tasks.
CloseFirst ==
  /\ phase = "splice"
  /\ \E d \in Dirs : copy[d] = "done"
  /\ phase' = "closed"
  /\ UNCHANGED <<setup, parser, client, read, flight, overflow, replied, tries,
                 upstream, uread, copies, cut>>

\* Both tasks are joined: the sockets are dropped, connection_closed.
Close ==
  /\ phase = "splice"
  /\ \A d \in Dirs : copy[d] = "done"
  /\ phase' = "closed"
  /\ UNCHANGED <<setup, parser, client, read, flight, overflow, replied, tries,
                 upstream, uread, copies, cut>>

------------------------------------------------------------------------------
Init ==
  /\ kind \in Kinds /\ via \in Vias /\ head \in Heads
  /\ serverFirst \in BOOLEAN
  /\ \E proto \in Protos : /\ phase = IF proto = "auto" THEN "detect" ELSE "extract"
                           /\ parser = IF proto = "http" THEN "http" ELSE "tls"
  /\ sent = 0 /\ fin = FALSE /\ read = 0
  /\ flight = <<>> /\ overflow = <<>>
  /\ replied = FALSE
  /\ tries = Candidates
  /\ usent = 0 /\ ufin = FALSE /\ uread = 0
  /\ out = <<>> /\ got = <<>>
  /\ chunk = [d \in Dirs |-> <<>>]
  /\ copy = [d \in Dirs |-> "off"]
  /\ cut = {}

Peers == \/ ClientSend
         \/ ClientFin
         \/ UpstreamSend
         \/ UpstreamFin
         \/ ClientReset
         \/ UpstreamReset

Extract == ReadHead \/ ReadFails
CopyStep(d) == CopyRead(d) \/ CopyEnd(d) \/ CopyWrite(d)

Next == \/ Peers
        \/ Detect
        \/ Extract
        \/ ConnectFails
        \/ ConnectDirect
        \/ Socks5Read
        \/ HttpConnectRead
        \/ Replay
        \/ ReplayFails
        \/ \E d \in Dirs : CopyStep(d)
        \/ Close

Spec == Init /\ [][Next]_vars

\* The runtime goes on with a task that can, timers fire, and a peer that has not
\* reset its connection reads what is written to it.  Nothing is assumed of what
\* the peers send.
Fairness == /\ WF_vars(Extract)
            /\ \A d \in Dirs : WF_vars(CopyStep(d))
            /\ WF_vars(Close)

FairSpec == Spec /\ Fairness

------------------------------------------------------------------------------
(* Properties *)

\* The shape of the state.
TypeOK ==
  /\ phase \in {"detect", "extract", "connect", "replay", "splice", "closed", "failed"}
  /\ parser \in {"tls", "http"}
  /\ sent \in 0..(head + Body) /\ read \in 0..sent
  /\ usent \in 0..(Handshake + Reply) /\ uread \in 0..usent
  /\ fin \in BOOLEAN /\ ufin \in BOOLEAN /\ replied \in BOOLEAN
  /\ flight \in Seq(Nat) /\ overflow \in Seq(Nat)
  /\ out \in Seq(Nat) /\ got \in Seq(Nat)
  /\ tries \in 1..Candidates
  /\ chunk \in [Dirs -> Seq(Nat)]
  /\ copy \in [Dirs -> {"off", "run", "done"}]
  /\ cut \subseteq {"client", "upstream", "limit"}

ClientStream == Pieces(0, head + Body)
OriginStream == Pieces(0, Reply)

\* However TCP cuts the client's stream, and wherever the head ends in a read,
\* the origin gets the client's bytes from the first one on, in order, none twice
\* and none left out between the flight, the overflow and the splice.  After a CONNECT it
\* gets them from some later piece on: what was read with the request is dropped, be it less
\* or more than the request.
OriginGetsPrefix ==
  /\ kind # "connect" => IsPrefix(out, ClientStream)
  /\ kind = "connect" => \E k \in 1..(head + Body) : IsPrefix(out, Pieces(k, head + Body))

\* The client gets the origin's bytes from the first one on and nothing of the
\* proxy's handshake; the exception is an origin that sends first behind an HTTP
\* proxy, whose bytes http_connect may read with the response head.
ClientGetsPrefix ==
  via # "http" \/ ~serverFirst => IsPrefix(got, OriginStream)

\* Both peers get each other's bytes in order and without a gap through peek, handshake,
\* replay and splice.
StreamsInOrder == OriginGetsPrefix /\ ClientGetsPrefix

\* A session that ends without a reset and without reaching its quota has
\* delivered all that either side sent.
OrderlyEndDeliversAll ==
  phase = "closed" /\ cut = {} =>
    /\ kind # "connect" => out = Pieces(0, sent)
    /\ via # "http" \/ ~serverFirst => got = Pieces(0, usent - Handshake)

\* On a tls or http listener the extraction of the host name ends, whatever the
\* client does: every read has a time-out.  (On an auto listener peek has none.)
ExtractionEnds == phase = "extract" ~> phase # "extract"

\* The end of one direction does not cut off the other: an answer that the origin
\* sends to a client that has shut down its sending side arrives.
AnswerAfterHalfClose ==
  /\ phase = "splice" /\ fin /\ usent = Handshake + Reply
  /\ via # "http" \/ ~serverFirst
  ~> got = OriginStream \/ cut # {}

\* Once both peers have finished or reset their connections, the session ends and gives its
\* permit back.
SessionEnds ==
  /\ phase = "splice"
  /\ fin /\ ufin
  ~> phase = "closed"
=============================================================================

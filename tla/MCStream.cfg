\* Every client, listener and upstream; heads that fit into the buffer and not.
CONSTANTS
  Kinds = {"tls", "http", "connect"}
  Protos = {"tls", "http", "auto"}
  Vias = {"direct", "socks5", "socks5_auth", "http"}
  Heads = {3, 5}
  Body = 2
  Reply = 2
  BufLen = 4
  Candidates = 2
SPECIFICATION FairSpec
INVARIANTS TypeOK StreamsInOrder OrderlyEndDeliversAll
PROPERTIES ExtractionEnds AnswerAfterHalfClose SessionEnds
CHECK_DEADLOCK FALSE

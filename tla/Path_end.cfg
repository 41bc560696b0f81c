SPECIFICATION Spec
CONSTANTS
  Magic = Magic
  Junk = Junk
  Blank = Junk
  MaxBody = 4
  RECV_BATCH_SIZE = 2
  MAX_DATAGRAM_SIZE = 7
  N = 4
  K = 2
  Width = 2
  Modulus <- Quadratic
  Sent <- SentBlock
  Copies <- FirstAndParity
  Undecoded = Undecoded
  MaxReceived = 3
INVARIANTS TypeOK OnlyWholeFramesOk DecodedIsSent

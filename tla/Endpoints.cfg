\* Commands: a share fills; the clock goes forward and may be set back, so that arrival
\* order is not the order of forgetting; a certificate starts while commands are on their way.
CONSTANTS
  Senders = {q1, q2}
  Nonces = {n1, n2}
  q1 = q1  q2 = q2  n1 = n1  n2 = n2
  Me = Me  Nothing = Nothing
  Says <- MCSays
  LeafOf <- MCLeafOf
  Window = 1
  WindowCapacity = 2
  PerSender = 1
  Unsealed = Unsealed
  MaxWall = 4
  MaxBack = 1
\* Certificates: two keys and two agreement keys, and time for all windows to end.
  i1 = i1  i2 = i2  e1 = e1  e2 = e2
  Root = Root
  Principals <- MCPrincipals
  AgreementKeys <- MCAgreementKeys
  RootSpecs <- MCSpecs
  Windows <- MCWindows
  MaxCertificate = 3
  MaxGrants = 2
  LastTime = 4
  NoCert = NoCert
\* A box: more replayed than is remembered.
  Slack = 1
  PendingFrames = 1
  Dedupe = 1
  Never = Never
  BoxFrames <- MCBoxFrames
  MaxLog = 3
  LastBoxTime = 2
  MaxOut = 3
\* A stream: two rotations or restarts.
  NoReader = NoReader
  MaxPublished = 5
  MaxStreamKeys = 3
\* A state directory: two invocations side by side, two accounts.
  Procs = {p1, p2}
  Owners = {w1, w2}
  Absent = Absent  Torn = Torn  Blank = Blank
  MaxKeys = 4
\* A client: two pairing calls among other frames.
  NoCall = NoCall
  MaxFrames = 6
  MaxCalls = 2
\* Bytes: two bits a byte of a length, sizes and lengths of one and two bytes.
  Radix = 4
  MaxVarintBytes = 3
  MaxTop = 1
  MaxBoxFrame = 4
  MaxChunk = 3
  MaxSizeLine = 3
  CR = 3  LF = 2
  Bodies <- MCBodies
SPECIFICATION MCSpec
INVARIANTS AcceptedOnce CertificatesSound NothingMissed GapsToldTruly StaysTheSamePrincipal EventsReachTheCaller FramesIntact
CHECK_DEADLOCK FALSE

CONSTANTS
  BufferSize = 3
  MaxLength = 2
  BaseSize = 2
  ByteValue = {a, b}
  Junk = junk
  MaxChunks = 2
  MaxInput = 3
  Width = 8
  GroupBits = 3
  LengthWidth = 4
  MaxString = 20
  Caller = {c1, c2, c3}
  Conn = {k1, k2, k3}
  NoConn = NoConn
  MaxRequest = 2
  MaxAliveTime = 1
  Now = 5
  Thread = {t1, t2}
  Key = {logs}
  LogKey = logs
  LoggerName = {"a", "b"}
  ConfValue <- MCValue
  Default <- MCDefault
  Same <- MCSame
  Listener = {l1, l2}
  LogListener = l1
  Never = Never
  Bad = Bad
  AsDaemon = FALSE
  MaxYaml = 1
  FdThread = {t1, t2, t3}
  Hooking = {t1, t2}
  FdNumber = {63, 64}
  DatasSize = 64
  MaxOpens = 3
  ListenSock = {s1}
  NoSock = NoSock
  ThreadCounts = {1, 2}
  MaxClients = 2
  MaxServerCalls = 4
  ExitCode = {0, 1, 9, 256}
  Signal = {9, 11}
  MaxRestart = 2
SPECIFICATION LibrarySpec
INVARIANTS RequestTexts ResponseTexts ResponseFlags
  FileIsExact RoundTrip TotalExact ListenersFollow LoggersFollow OwnContext
  ClosedOnlyAfterEarlyStart
PROPERTIES PartsInOrder   ClientIsHandled CrashIsRestarted
CHECK_DEADLOCK FALSE

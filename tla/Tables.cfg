SPECIFICATION TablesSpec
CONSTANTS
  VrfNames = {"blue", "red"}
  VrfOids = {1, 2}
  VrfIntIds = {0, 1}
  KeyAddrs = {k1, k2, k3}
  CtrlAddrs = {r1, r2, r3}
  VrfReaders = {c1}
  FREE = FREE
  Bridges = {br1, br2}
  Vids = {10, 20}
  BridgeUsers = {u1, u2}
  NoVid = NoVid
  TableNpus = {0, 1, 2}
  NdiIds = {1, 2}
  NoId = NoId
  Files <- MCFiles
  MaxSwitches = 3
  NpuIds = {0, 1, 2, 3}
  MISS = MISS
  BAD = BAD
  NpuFiles <- MCNpuFiles
  AclFiles <- MCAclFiles
  AclPools = {0, 2, 3, 4}
  SKIP = SKIP
  EMPTY = EMPTY
  MacUsers = {m1, m2}
  BaseAddr = BaseAddr
  NoMac = NoMac
  MaxRestarts = 3
  MaxChunks = 3
  MaxIds = 5
  ArrayBits = 8
  TestIds = {0, 1, 2, 3, 4, 5, 6, 9}
  MoveSizes = {5}
CHECK_DEADLOCK FALSE
INVARIANTS TypeOK VrfEntriesSound VrfOidStable AttachedVidStable RoundTrip TopologyQueriesSafe MaxNpusIsTotal NpuWalkIsFile AclWalkIsArray
PROPERTIES ImplementsPool ReuseInTurn EveryoneGetsMac WalksEnd RpcReturns

SPECIFICATION FairSpec
CONSTANTS
  Devices = {"net0", "net1", "net2"}
  Booted <- MCBooted
  Via = {"none", "net0"}
  Packets = {1, 2, 3}
  TX_RING = 2
  ARP_TRIES = 1
  Datagrams <- MCDatagrams
  Settings <- MCSettings
  Dests = {8, 12}
  Arrivals = {9, 15}
  Neighbours = {8}
  LLAddrs = {1, 2}
  Mem = {0, 100}
  Drv = {0, 1}
  MaxEvents = 4
INVARIANTS OneOwner SentInOrder CacheFresh DeviceReferences RoutesFollowSettings ReassemblyExact
PROPERTY EveryBufferFreed
CHECK_DEADLOCK FALSE

SPECIFICATION Spec
CONSTANTS
  n1 = n1
  n2 = n2
  n3 = n3
  Names = {n1, n2, n3}
  NoName = NoName
  Servers = {"s1", "s2"}
  Remote = Remote
  MaxPort = 4
  MaxSubscriptionSize = 1
  CutPorts = {1, 2, 3, 4}
  Starts = {1, 3}
  Sources <- MCSources
INVARIANTS
  TypeOK
  PortsAreUnique
  RefusedOnlyWhenFull
  ServesFirstOfName
  ViewsAgree
PROPERTIES
  LosesPortOnlyToEarlierNode

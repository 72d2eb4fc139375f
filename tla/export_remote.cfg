SPECIFICATION Spec
CONSTANTS
  n1 = n1
  n2 = n2
  n3 = n3
  Names = {n1, n2, n3}
  NoName = NoName
  Servers = {"s1", "s2"}
  Remote = Remote
  MaxPort = 4
  MaxSubscriptionSize = 1
  CutPorts = {}
  Starts = {1, 3}
  Sources <- MCSources
INVARIANTS
  ExportIsLocal

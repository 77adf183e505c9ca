\* Two interfaces in two networks, of every kind; files written by the program and by
\* hand; wake requests from both networks.
SPECIFICATION Spec
CONSTANTS
  lan1 = lan1
  lan2 = lan2
  Interfaces = {1, 2}
  Macs <- MacsValue
  Tunnels = {2}
  Lans = {lan1, lan2}
  NoLan = NoLan
  Zero = Zero
  Loopback = Loopback
  Fallback = Fallback
  Shared = Shared
  Wide = Wide
  Default = Default
  NoFile = NoFile
  Refused = Refused
  Stopped = Stopped
  Hosts = {"short"}
  Edits <- EditsValue
INVARIANTS
  OwnFileLoads
  WrittenAsDefault
  PartialSuccess
  SentInside
  OwnNetworksAdmitted
CHECK_DEADLOCK FALSE

\* Default targets when the default route goes through a tunnel (DefaultsReachLan), and a
\* request that answers internal_error after packets were sent (AnyPacketIsSuccess). TLC
\* stops at the first violation, so keep one of the last two lines at a time.
SPECIFICATION Spec
CONSTANTS
  lan1 = lan1
  lan2 = lan2
  Interfaces = {1, 2}
  Macs <- MacsValue
  Tunnels = {2}
  Lans = {lan1, lan2}
  NoLan = NoLan
  Zero = Zero
  Loopback = Loopback
  Fallback = Fallback
  Shared = Shared
  Wide = Wide
  Default = Default
  NoFile = NoFile
  Refused = Refused
  Stopped = Stopped
  Hosts = {"short"}
  Edits <- EditsValue
INVARIANT DefaultsReachLan
INVARIANT AnyPacketIsSuccess

\* Starting without a configuration file: load refuses two default targets with one
\* address, and a host name of more than 63 bytes.
SPECIFICATION Spec
CONSTANTS
  lan1 = lan1
  lan2 = lan2
  Interfaces = {1, 2}
  Macs <- MacsValue
  Tunnels = {2}
  Lans = {lan1, lan2}
  NoLan = NoLan
  Zero = Zero
  Loopback = Loopback
  Fallback = Fallback
  Shared = Shared
  Wide = Wide
  Default = Default
  NoFile = NoFile
  Refused = Refused
  Stopped = Stopped
  Hosts = {"short", "long"}
  Edits <- EditsValue
PROPERTY MissingFileStarts
CHECK_DEADLOCK FALSE

SPECIFICATION FairSpec
CONSTANTS
  c1 = c1
  c2 = c2
  c3 = c3
  i1 = i1
  i2 = i2
  Client <- MCOneClient
  Channel = {ch1}
  IP = {i1, i2}
  IpOf <- MCIpOf
  MaxConnsPerIP = 0
  QueueCap = 1
  SendBuffer = 1
  MaxFrames = 0
  MaxPublish = 0
PROPERTIES DisconnectUnregisters

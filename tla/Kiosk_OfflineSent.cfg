SPECIFICATION Spec
CONSTANTS
  m1 = m1
  m2 = m2
  m3 = m3
  o1 = o1
  o2 = o2
  b1 = b1
  b2 = b2
  NoOwner = NoOwner
  NoBssid = NoBssid
  NoMac = NoMac
  Mac = {m1}
  Owner = {o1}
  Bssid = {b1}
  RandomMac = {}
  ServerHas <- EmptyServer
  ServerAps <- NoAps
  DeviceSlot = {1, 2}
  ListSlot = {1}
  Limit <- LimitOffline
CHECK_DEADLOCK FALSE
PROPERTIES
  OfflineRegistrationsAreSent

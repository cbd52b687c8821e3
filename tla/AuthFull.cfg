SPECIFICATION Spec
CONSTANTS
  Calls = {c1, c2, c3}
  Devices = {d1}
  DeviceOf <- MCDeviceOf
  Lag <- MCLag
  ChallengeTTL = 1
  SessionTTL = 1
  MaxAccounts = 1
  NoCall = NoCall
PROPERTY RegisteredReadmitted

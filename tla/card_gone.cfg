SPECIFICATION FairSpec
CONSTANTS
  a = a
  b = b
  s1 = s1
  s2 = s2
  s3 = s3
  Card = {a, b}
  Stream = {s1}
  NoStream = NoStream
  NoReport = NoReport
  MayFail = {}
  MaxFaults = 0
  MaxChanges = 0
  MaxUnplugs = 1
PROPERTIES
  GoneIsNotHealthy

SPECIFICATION FairSpec
CONSTANTS
  a = a
  b = b
  s1 = s1
  s2 = s2
  s3 = s3
  Card = {a, b}
  Stream = {s1, s2}
  NoStream = NoStream
  NoReport = NoReport
  MayFail = {"infos", "health", "patch"}
  MaxFaults = 2
  MaxChanges = 2
  MaxUnplugs = 1
INVARIANTS
  TypeOK
  NoFalseAlarm
PROPERTIES
  HealthShown
  MemReported

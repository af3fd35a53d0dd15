SPECIFICATION FairSpec
CONSTANTS
  a = a
  b = b
  s1 = s1
  s2 = s2
  s3 = s3
  Card = {a, b}
  Stream = {s1, s2}
  NoStream = NoStream
  NoReport = NoReport
  MayFail = {"infos"}
  MaxFaults = 1
  MaxChanges = 1
  MaxUnplugs = 0
PROPERTIES
  CardsShown

SPECIFICATION FairSpec
CONSTANTS
  p1 = p1
  p2 = p2
  n1 = n1
  n2 = n2
  w1 = w1
  i1 = i1
  alloc = alloc
  v1 = v1
  v2 = v2
  Pod = {p1}
  Name = {n1, n2}
  NameOf <- OnePodName
  Ctr = {1, 2, 3}
  Kind <- EveryKind
  Ask <- PartPartWhole
  Watch = {w1}
  Informer = {i1}
  Alloc = alloc
  Vdev = {v1, v2}
  NoVdev = NoVdev
  Ungranted = Ungranted
  NoReq = NoReq
  RestartKinds = {"sidecar", "app"}
  InitFirst = FALSE
  MaxFaults = 0
INVARIANTS LiveGrantMarked
PROPERTIES DrainedNodeFree MarksDrain AllocAnswered

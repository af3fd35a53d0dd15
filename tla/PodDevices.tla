----------------------------- MODULE PodDevices -----------------------------
(***************************************************************************)
(* The device annotation of a pod: HAMi's scheduler writes one segment of  *)
(* devices per container, Allocate takes the first segment that is not     *)
(* empty and blanks it for the next call.                                  *)
(*                                                                         *)
(* Code: internal/pkg/util/util.go (EncodePodSingleDevice,                 *)
(* DecodePodDevices, expandPodDeviceSegments, GetNextDeviceRequest,        *)
(* eraseFirstDeviceSegment).  A device's text is one symbol of Dev; the    *)
(* separators stay symbols of their own, because what matters is where the *)
(* text is cut.                                                            *)
(***************************************************************************)
EXTENDS Integers, Sequences, FiniteSets, FiniteSetsExt, SequencesExt

CONSTANT Dev  \* devices, "uuid,type,mem,cores"

ASSUME DevAssumption == {":", ";"} \cap Dev = {}

-----------------------------------------------------------------------------
(* Positions.                                                              *)

NonEmpty(pd) == {i \in DOMAIN pd : pd[i] # <<>>}

Rank(S, i) == Cardinality({j \in S : j <= i})
Nth(S, k) == CHOOSE i \in S : Rank(S, i) = k

\* The members of a list whose positions are in S, closed up.
Kept(pd, S) == [k \in 1 .. Cardinality(S) |-> pd[Nth(S, k)]]

-----------------------------------------------------------------------------
(* The text of an annotation.                                              *)

\* Every part is followed by its separator.
Ended(parts, sep) == FlattenSeq([i \in DOMAIN parts |-> Append(parts[i], sep)])

EncodeContainerDevices(cd) == Ended([i \in DOMAIN cd |-> <<cd[i]>>], ":")

EncodePodSingleDevice(pd) ==
  Ended([i \in DOMAIN pd |-> EncodeContainerDevices(pd[i])], ";")

\* strings.Split
Split(text, sep) ==
  LET cuts == {0, Len(text) + 1} \cup {i \in DOMAIN text : text[i] = sep}
  IN  [k \in 1 .. Cardinality(cuts) - 1 |->
         SubSeq(text, Nth(cuts, k) + 1, Nth(cuts, k + 1) - 1)]

\* Mutant: every empty part is dropped, not only the last one.
SplitNonEmpty(anno) ==
  LET parts == Split(anno, ";") IN Kept(parts, NonEmpty(parts))

\* Only the empty part after the last ';' is dropped.
SplitPodDeviceAnnotation(anno) ==
  LET parts == Split(anno, ";")
  IN  IF Last(parts) = <<>> THEN Front(parts) ELSE parts

\* The parts with a comma are devices; the empty part after the last ':' is not.
DecodeContainerDevices(str) ==
  LET parts == Split(str, ":")
      named == Kept(parts, NonEmpty(parts))
  IN  [i \in DOMAIN named |-> Head(named[i])]

DecodePodDevices(anno) ==
  LET segments == SplitPodDeviceAnnotation(anno)
  IN  [i \in DOMAIN segments |-> DecodeContainerDevices(segments[i])]

\* PodAllocationTrySuccess: the text still names a device.
HasDevices(anno) == \E i \in DOMAIN anno : anno[i] \in Dev

-----------------------------------------------------------------------------
(* Segments and containers.  A pod has containers 1 .. n, init containers   *)
(* first; requesting is the set of those with a hygon.com limit.           *)

Alignable(pd, n, requesting) ==
  n > 0 /\ (Len(pd) = n \/ Cardinality(NonEmpty(pd)) = Cardinality(requesting))

\* Mutant: segments are paired with containers from the first one on.
ExpandFromFirst(pd, n, requesting) ==
  [c \in 1 .. n |-> IF c \in DOMAIN pd THEN pd[c] ELSE <<>>]

\* expandPodDeviceSegments: one segment per container is taken as it stands;
\* otherwise the k-th segment with devices belongs to the k-th requesting one.
Expand(pd, n, requesting) ==
  IF Len(pd) = n THEN pd
  ELSE [c \in 1 .. n |->
         IF c \in requesting THEN Kept(pd, NonEmpty(pd))[Rank(requesting, c)] ELSE <<>>]

\* GetNextDeviceRequest on an expanded list: the container served next.
NextContainer(pd) == Min(NonEmpty(pd))

\* Mutant: the served segment is cut out and the others move up.
EraseAndShift(pd) == RemoveAt(pd, Min(NonEmpty(pd)))

EraseFirstDeviceSegment(pd) ==
  IF NonEmpty(pd) = {} THEN pd ELSE [pd EXCEPT ![Min(NonEmpty(pd))] = <<>>]

=============================================================================

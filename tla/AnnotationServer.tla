-------------------------- MODULE AnnotationServer --------------------------
(***************************************************************************)
(* One pod's annotation from the scheduler's patch to the last Allocate:   *)
(* every pod of up to MaxCtr containers and every way in which the         *)
(* scheduler may leave empty segments out.  The text is decoded, aligned,  *)
(* served, erased and written back, call after call, until nothing is left *)
(* of it.  Who calls, what fails and which pod is found is BindProtocol's. *)
(*                                                                         *)
(* Code: internal/pkg/util/util.go (GetNextDeviceRequest,                  *)
(* EraseNextDeviceTypeFromAnnotation).                                     *)
(***************************************************************************)
EXTENDS PodDevices

CONSTANTS
  MaxCtr, \* containers of a pod, init containers included
  Choice  \* lists of devices the scheduler may choose for a container

ASSUME ServerAssumption == MaxCtr \in Nat /\ Choice \subseteq Seq(Dev)

VARIABLES
  devs,       \* devs[c]: the devices the scheduler chose for container c
  requesting, \* containers with a hygon.com limit
  text,       \* the annotation
  served      \* the containers served so far, in order, with their devices

serverVars == <<devs, requesting, text, served>>

\* The scheduler writes a segment for every container that gets devices; those
\* of the others may be there or not.
Written ==
  \E n \in 1 .. MaxCtr :
    /\ devs \in [1 .. n -> Choice]
    /\ NonEmpty(devs) # {}
    /\ requesting \in SUBSET (1 .. n)
    /\ NonEmpty(devs) \subseteq requesting
    /\ \E kept \in SUBSET (1 .. n) :
         text = EncodePodSingleDevice(Kept(devs, kept \cup NonEmpty(devs)))
    /\ served = <<>>

\* The part of an Allocate call that reads and erases the annotation.
Serve ==
  LET pd == DecodePodDevices(text)
      all == Expand(pd, Len(devs), requesting)
  IN  /\ Alignable(pd, Len(devs), requesting)
      /\ NonEmpty(all) # {}
      /\ served' = Append(served, [ctr |-> NextContainer(all), devs |-> all[NextContainer(all)]])
      /\ text' = EncodePodSingleDevice(EraseFirstDeviceSegment(all))
      /\ UNCHANGED <<devs, requesting>>

ServerSpec == Written /\ [][Serve]_serverVars

-----------------------------------------------------------------------------
\* Every container is served once, in flat order and with its own devices,
\* however the annotation was laid out (README_EN.md:435: init and app
\* containers are allocated in order, dense annotations map onto the correct
\* containers).
ServedInOrder ==
  \A k \in DOMAIN served :
    /\ served[k].ctr \in NonEmpty(devs)
    /\ Rank(NonEmpty(devs), served[k].ctr) = k
    /\ served[k].devs = devs[served[k].ctr]

\* Once the first call has erased its segment, the text has one segment per
\* container until the end (util.go:363), so later calls are positional.
SlotsKept == served # <<>> => Len(DecodePodDevices(text)) = Len(devs)

\* An annotation that lists the devices of every requesting container is
\* never refused, and when its text names no device, every container has been
\* served: the two ends of the protocol read the same text alike.
NeverStuck ==
  NonEmpty(devs) = requesting =>
    \/ HasDevices(text) /\ Alignable(DecodePodDevices(text), Len(devs), requesting)
    \/ ~HasDevices(text) /\ Len(served) = Cardinality(requesting)

=============================================================================

--------------------------- MODULE StreamCapacity ---------------------------
(***************************************************************************)
(* How long a byte stream may become (Log::byte_writer): a binary search   *)
(* for the number of chunk references that fit one node under the log's    *)
(* options, one iteration at a time.                                       *)
(***************************************************************************)
EXTENDS NodeSizes

CONSTANTS
  RefLimits,   \* values of max_object_refs to start from
  ByteLimits,  \* values of max_object_bytes to start from
  MaxChunk     \* MAX_CHUNK_BYTES

ASSUME CapacityAssumption ==
  RefLimits \subseteq Nat /\ ByteLimits \subseteq Nat /\ MaxChunk \in Nat

VARIABLES maxRefs, maxBytes, low, high

capacityVars == <<maxRefs, maxBytes, low, high>>

DescriptorBytes == 24

Least(a, b) == IF a < b THEN a ELSE b

ChunkBytes == Least(maxBytes, MaxChunk)

(* node_size of a descriptor over `count` full chunks is within limits.    *)
Fits(count) ==
  /\ count <= maxRefs
  /\ NodeLen(DescriptorBytes, count, count * ReferenceLen(ChunkBytes, 1)) <= maxBytes

(* The search starts only when a node without children fits.               *)
CapacityInit ==
  /\ maxRefs \in RefLimits /\ maxBytes \in ByteLimits
  /\ Fits(0)
  /\ low = 0
  /\ high = Least(maxRefs, maxBytes \div 32)

(* Mutation: the middle is rounded down and the upper half starts past it. *)
SearchOffByOne ==
  LET mid == low + (high - low) \div 2 IN
  /\ low < high
  /\ IF Fits(mid) THEN low' = mid + 1 /\ UNCHANGED high
                  ELSE high' = mid - 1 /\ UNCHANGED low
  /\ UNCHANGED <<maxRefs, maxBytes>>

Search ==
  LET mid == low + (high - low + 1) \div 2 IN
  /\ low < high
  /\ IF Fits(mid) THEN low' = mid /\ UNCHANGED high
                  ELSE high' = mid - 1 /\ UNCHANGED low
  /\ UNCHANGED <<maxRefs, maxBytes>>

CapacitySpec == CapacityInit /\ [][Search]_capacityVars /\ WF_capacityVars(Search)

-----------------------------------------------------------------------------
(* The stream may use every reference that fits, and not one more: the     *)
(* start of the search (a reference holds a 32-byte digest) cuts nothing   *)
(* off.                                                                    *)
CapacityIsMaximal ==
  low = high => \A count \in 0 .. maxBytes : Fits(count) <=> count <= low

(* ByteWriter::finish cannot meet a limit after its writes were accepted:  *)
(* the node of every stream within the capacity fits, whatever its last    *)
(* chunk's length.                                                         *)
AcceptedStreamsFit ==
  low = high =>
    \A count \in 1 .. low : \A last \in 1 .. ChunkBytes :
      NodeLen(DescriptorBytes, count,
              (count - 1) * ReferenceLen(ChunkBytes, 1) + ReferenceLen(last, 1))
        <= maxBytes

=============================================================================

-------------------------------- MODULE Codec -------------------------------
(***************************************************************************)
(* The durable encodings of format.rs: heads, commits, checkpoints, nodes, *)
(* collection plans and recovery tokens, each sealed in an envelope with   *)
(* its digest.  A value is encoded, then the encoding is changed in the    *)
(* ways in which another encoder, or damage, could make it differ; decode  *)
(* must take the canonical encoding and nothing else.                      *)
(*                                                                         *)
(* LogId::new's alphabet and the commit-sequence rules of Head::validate   *)
(* (module Head) are left out: they do not look at the encoding.           *)
(***************************************************************************)
EXTENDS Wire

CONSTANTS
  Values,        \* format -> the values that are encoded
  MaxRefs,       \* max_object_refs
  MaxObjects,    \* max_collection_objects
  MaxBytes,      \* max_object_bytes
  MaxPlanBytes,  \* max_collection_plan_bytes
  MaxEdits       \* bound: changes to one encoding

VARIABLES
  format,  \* which of the encodings
  value,   \* what was encoded
  input,   \* the bytes to decode: [form, payload, digest, extra]
  edits    \* changes so far

vars == <<format, value, input, edits>>

-----------------------------------------------------------------------------
(* The wire types.                                                         *)
Uuid == Bin(16)
Digest == Bin(32)
LogId == Str(128)

CommitRefWire == Record(<<Uint, Uuid, Digest, Uint, Uuid>>, {})
ObjectRefWire == Record(<<Uint, Digest, Uint, Uuid, Uint>>, {})
CheckpointRefWire == Record(<<Uint, Digest, ObjectRefWire>>, {})
CollectionPlanRefWire == Record(<<Uuid, Digest, Uint>>, {})
OptionsWire == Record([i \in 1 .. 12 |-> Uint], {})
CandidateWire == Record(<<Uuid, Uint, Uuid, Digest, Uint>>, {})

HeadWire == Record(<<Uint, LogId, Uint, Uint, CheckpointRefWire, List(CommitRefWire),
                     List(CommitRefWire), Uuid, OptionsWire, Uint,
                     CollectionPlanRefWire, List(Uuid)>>, {5, 11})
CommitWire == Record(<<Uint, LogId, Uuid, Digest, Bin(Varying), Bin(Varying),
                       List(ObjectRefWire), Uuid>>, {4})
CheckpointWire == Record(<<Uint, LogId, Uint, Digest, Bin(Varying), Uuid,
                           List(ObjectRefWire)>>, {})
NodeWire == Record(<<Uint, Bin(Varying), List(ObjectRefWire)>>, {})
CollectionPlanWire == Record(<<Uint, LogId, Uint, List(CandidateWire)>>, {})
RecoveryTokenWire == Record(<<Uint, Digest, Str(Varying), Str(Varying), Uuid,
                              Bin(Varying), Bin(Varying), List(ObjectRefWire), Uuid,
                              Digest, Uint, Uint, Digest, LogId, Uuid, Digest>>,
                            {3, 4, 13})

Schema(f) ==
  CASE f = "head" -> HeadWire [] f = "commit" -> CommitWire
    [] f = "checkpoint" -> CheckpointWire [] f = "node" -> NodeWire
    [] f = "plan" -> CollectionPlanWire [] f = "token" -> RecoveryTokenWire

(* encode_envelope: the digest is over the payload.                        *)
Seal(payload) == [form |-> "min", payload |-> payload, digest |-> payload, extra |-> FALSE]

(* The bytes of a sealed object: a map of two fields, the payload and a    *)
(* 32-byte digest.                                                         *)
SealedLen(payload) ==
  LET n == Bytes(payload) IN 1 + (1 + CborHeadLen(n) + n) + (1 + 2 + 32)

EncodeHead(v) == Seal(Encode(HeadWire, v))
EncodeCommit(v) == Seal(Encode(CommitWire, v))
EncodeCheckpoint(v) == Seal(Encode(CheckpointWire, v))
EncodeNode(v) == Seal(Encode(NodeWire, v))
EncodeCollectionPlan(v) == Seal(Encode(CollectionPlanWire, v))
EncodeRecoveryToken(v) == Seal(Encode(RecoveryTokenWire, v))

Encoding(f, v) ==
  CASE f = "head" -> EncodeHead(v) [] f = "commit" -> EncodeCommit(v)
    [] f = "checkpoint" -> EncodeCheckpoint(v) [] f = "node" -> EncodeNode(v)
    [] f = "plan" -> EncodeCollectionPlan(v) [] f = "token" -> EncodeRecoveryToken(v)

(* decode_borrowed_envelope reads exactly, decode_envelope does not.       *)
EnvelopeOpens(exact, in) ==
  /\ exact => in.form = "min"
  /\ ~in.extra
  /\ in.digest = in.payload

-----------------------------------------------------------------------------
(* Conversions from the wire (TryFrom, validate_count).                    *)
Blob == 1
CheckpointKind == 2
NodeKind == 3

CountIsValid(r) == r[5].n # 0 /\ (r[1].n = Blob => r[5].n = 1)

ObjectRefIsValid(r) == r[1].n \in {Blob, CheckpointKind, NodeKind} /\ CountIsValid(r)

ObjectRefsAreValid(refs) == \A i \in 1 .. Len(refs) : ObjectRefIsValid(refs[i])

(* retention_ids: each identity is above the one before it.                *)
RetentionIdsAreSorted(ids) == \A i \in 1 .. Len(ids) - 1 : ids[i].b < ids[i + 1].b

(* The order of immutable keys: incarnation, kind, storage id, digest.     *)
KeyOf(c) == <<c[1].b, c[2].n, c[3].b, c[4].b>>
KeyLess(c, d) ==
  \E i \in 1 .. 4 : KeyOf(c)[i] < KeyOf(d)[i] /\ \A j \in 1 .. i - 1 : KeyOf(c)[j] = KeyOf(d)[j]

(* The part of Head::validate that relates its counters, the kind of the   *)
(* checkpoint object and the order of the retention ids.                   *)
HeadIsValid(v) ==
  /\ v[4].n <= v[3].n
  /\ v[10].n <= v[3].n
  /\ 5 \in DOMAIN v => v[5][3][1].n = CheckpointKind /\ CountIsValid(v[5][3])
  /\ 11 \in DOMAIN v => v[12] = <<>> /\ v[10].n > 0
  /\ RetentionIdsAreSorted(v[12])

(* The checks of decode_node_payload.  MinReference: the bytes that a      *)
(* reference takes at least; a count that cannot fit is refused before     *)
(* anything is reserved for it.                                            *)
MinReference == 60

NodeIsValid(v, left) ==
  /\ Len(v[3]) <= MaxRefs
  /\ Len(v[3]) <= left \div MinReference
  /\ \A i \in 1 .. Len(v[3]) :
       /\ v[3][i][1].n \in {Blob, NodeKind}
       /\ v[3][i][3].n <= MaxBytes
       /\ CountIsValid(v[3][i])

MinCandidate == 76

(* decode_collection_payload's checks and CollectionPlan::validate.        *)
PlanIsValid(v, left) ==
  /\ v[3].n # 0
  /\ v[4] # <<>>
  /\ Len(v[4]) <= MaxObjects
  /\ Len(v[4]) <= left \div MinCandidate
  /\ \A i \in 1 .. Len(v[4]) : v[4][i][2].n \in 1 .. 5
  /\ \A i \in 1 .. Len(v[4]) - 1 : KeyLess(v[4][i], v[4][i + 1])

TokenIsValid(v) ==
  /\ ObjectRefsAreValid(v[8])
  /\ v[12].n <= v[11].n
  /\ 13 \in DOMAIN v <=> v[12].n > 0

(* require_version *)
VersionIsKnown(v) == v[1].n = 1

(* The bytes after the first `read` tokens.                                *)
Left(payload, read) == Bytes(SubSeq(payload, read + 1, Len(payload)))

(* What a derived or exact reader returned, with the widths of digest and  *)
(* uuid and a known version.                                               *)
Converts(s, r) == r.ok /\ VersionIsKnown(r.v) /\ Widths(s, r.v)

RequireCanonical(s, v, in) == in = Seal(Encode(s, v))

(* The payload alone: the envelope was read exactly.                       *)
RequireCanonicalWire(s, v, in) == in.payload = Encode(s, v)

(* A head is decoded once its shape is known.                              *)
DecodeHead(in) ==
  LET r == DecodeAll("derived", HeadWire, in.payload) IN
  IF /\ EnvelopeOpens(TRUE, in)
     /\ DecodeAll("shape", HeadWire, in.payload).ok
     /\ Converts(HeadWire, r)
     /\ HeadIsValid(r.v)
     /\ RequireCanonical(HeadWire, r.v, in)
  THEN r ELSE Reject

DecodeCommit(in) ==
  LET r == DecodeAll("derived", CommitWire, in.payload) IN
  IF /\ EnvelopeOpens(TRUE, in)
     /\ Converts(CommitWire, r)
     /\ ObjectRefsAreValid(r.v[7])
     /\ RequireCanonicalWire(CommitWire, r.v, in)
  THEN r ELSE Reject

DecodeCheckpoint(in) ==
  LET r == DecodeAll("derived", CheckpointWire, in.payload) IN
  IF /\ EnvelopeOpens(TRUE, in)
     /\ Converts(CheckpointWire, r)
     /\ ObjectRefsAreValid(r.v[7])
     /\ RequireCanonicalWire(CheckpointWire, r.v, in)
  THEN r ELSE Reject

(* Nodes and plans are compared with their encoding while they are read:   *)
(* their list of children is the last field, and its count the 7th or 9th  *)
(* token.                                                                  *)
DecodeNode(in) ==
  LET r == DecodeAll("exact", NodeWire, in.payload) IN
  IF /\ EnvelopeOpens(TRUE, in)
     /\ Converts(NodeWire, r)
     /\ NodeIsValid(r.v, Left(in.payload, 7))
  THEN r ELSE Reject

DecodeCollectionPlan(in) ==
  LET r == DecodeAll("exact", CollectionPlanWire, in.payload) IN
  IF /\ SealedLen(in.payload) <= MaxPlanBytes
     /\ EnvelopeOpens(TRUE, in)
     /\ Converts(CollectionPlanWire, r)
     /\ PlanIsValid(r.v, Left(in.payload, 9))
  THEN r ELSE Reject

DecodeRecoveryToken(in) ==
  LET r == DecodeAll("derived", RecoveryTokenWire, in.payload) IN
  IF /\ EnvelopeOpens(FALSE, in)
     /\ Converts(RecoveryTokenWire, r)
     /\ TokenIsValid(r.v)
     /\ RequireCanonical(RecoveryTokenWire, r.v, in)
  THEN r ELSE Reject

Decoded(f, in) ==
  CASE f = "head" -> DecodeHead(in) [] f = "commit" -> DecodeCommit(in)
    [] f = "checkpoint" -> DecodeCheckpoint(in) [] f = "node" -> DecodeNode(in)
    [] f = "plan" -> DecodeCollectionPlan(in) [] f = "token" -> DecodeRecoveryToken(in)

-----------------------------------------------------------------------------
(* node_size for the children of a node.                                   *)
NodeSize(v) ==
  NodeLen(v[2].n, Len(v[3]),
          FoldLeft(LAMBDA sum, r : sum + ReferenceLen(r[3].n, r[5].n), 0, v[3]))

(* publication_base_digest digests the encoding of this head.              *)
BaseOf(v) ==
  [v EXCEPT ![3].n = IF v[4].n < v[10].n THEN v[10].n ELSE v[4].n, ![12] = <<>>]

(* Head::has_same_publication_base: all but generation and retentions.     *)
SamePublicationBase(v, w) ==
  LET keys == 1 .. 12 \ {3, 12} IN
  /\ DOMAIN v \intersect keys = DOMAIN w \intersect keys
  /\ \A key \in DOMAIN v \intersect keys : v[key] = w[key]

-----------------------------------------------------------------------------
(* Ways in which an encoding can differ from the canonical one.            *)
Tokens == input.payload

Digested(payload) ==
  \E digest \in {payload, input.digest} :
    input' = [input EXCEPT !.payload = payload, !.digest = digest]

Reform(i, w) ==
  /\ Tokens[i].w = "min"
  /\ w = "indef" => Tokens[i].t \in {"map", "array"}
  /\ Digested([Tokens EXCEPT ![i].w = w])

Renumber(i, d) ==
  /\ Tokens[i].n + d >= 0
  /\ Digested([Tokens EXCEPT ![i].n = @ + d])

(* Two neighbouring fields of one token each change places.                *)
SwapFields(i) ==
  /\ i + 3 <= Len(Tokens)
  /\ Digested(SubSeq(Tokens, 1, i - 1) \o SubSeq(Tokens, i + 2, i + 3)
                 \o SubSeq(Tokens, i, i + 1) \o SubSeq(Tokens, i + 4, Len(Tokens)))

(* A field joins the record that starts at m.                              *)
AddField(m, i, field) ==
  /\ m < i /\ Tokens[m].t = "map"
  /\ LET counted == [Tokens EXCEPT ![m].n = @ + 1] IN
     Digested(SubSeq(counted, 1, i) \o field \o SubSeq(counted, i + 1, Len(counted)))

NewFields == {<<Token("uint", 99, 0), Token("uint", 0, 0)>>}
  \union {<<Token("uint", key, 0), Token("null", 0, 0)>> : key \in Schema(format).optional}

Truncate == Digested(SubSeq(Tokens, 1, Len(Tokens) - 1))

Extend == Digested(Append(Tokens, Token("uint", 0, 0)))

ChangeEnvelope ==
  \/ input.form = "min" /\ input' = [input EXCEPT !.form = "wide"]
  \/ ~input.extra /\ input' = [input EXCEPT !.extra = TRUE]

Init ==
  /\ format \in DOMAIN Values
  /\ value \in Values[format]
  /\ input = Encoding(format, value)
  /\ edits = 0

Next ==
  /\ edits < MaxEdits
  /\ edits' = edits + 1
  /\ UNCHANGED <<format, value>>
  /\ \/ \E i \in 1 .. Len(Tokens) :
          \/ \E w \in {"wide", "indef"} : Reform(i, w)
          \/ \E d \in {-1, 1} : Renumber(i, d)
          \/ SwapFields(i)
          \/ \E m \in 1 .. i - 1 : \/ AddField(m, i, SubSeq(Tokens, i - 1, i))
                                   \/ \E field \in NewFields : AddField(m, i, field)
     \/ Truncate
     \/ Extend
     \/ ChangeEnvelope

Spec == Init /\ [][Next]_vars

-----------------------------------------------------------------------------
(* What was encoded is decoded: no limit, minimum size or reader refuses a *)
(* value that the encoder accepted, or returns another one.                *)
RoundTrip ==
  edits = 0 => LET r == Decoded(format, input) IN r.ok /\ r.v = value

(* Only the canonical encoding of a value is accepted, by each of the six  *)
(* decoders: equal values have equal bytes, hence equal digests.           *)
CanonicalOnly ==
  LET r == Decoded(format, input) IN r.ok => input = Encoding(format, r.v)

(* A head that passes validate_head_shape costs the derived decoder no     *)
(* value that it throws away and no string of another width, and what the  *)
(* shape accepts the decoder can read.                                     *)
ShapeBoundsDecoding ==
  format = "head" /\ DecodeAll("shape", HeadWire, input.payload).ok =>
    LET r == DecodeAll("derived", HeadWire, input.payload) IN r.ok /\ ~r.waste

(* The preflight size of a node is the size of its encoding, to the byte.  *)
NodeSizeIsExact ==
  format = "node" /\ edits = 0 => NodeSize(value) = SealedLen(input.payload)

(* The digest in a recovery token stands for has_same_publication_base:    *)
(* the head that it digests can always be encoded, and two heads have the  *)
(* same digest exactly when they have the same base.                       *)
BaseDigestAgrees ==
  format = "head" /\ edits = 0 =>
    /\ HeadIsValid(BaseOf(value))
    /\ \A other \in Values["head"] :
         SamePublicationBase(value, other)
           <=> Encoding("head", BaseOf(value)) = Encoding("head", BaseOf(other))

=============================================================================

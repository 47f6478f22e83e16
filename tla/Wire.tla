-------------------------------- MODULE Wire --------------------------------
(***************************************************************************)
(* The ways in which format.rs reads and writes CBOR, token by token: the  *)
(* one canonical encoding of a value, and the three readers.               *)
(*                                                                         *)
(*   "exact"    writes back each token that it reads and compares          *)
(*              (exact_value, exact_len, MatchingWriter)                   *)
(*   "shape"    checks fields and widths without keeping anything          *)
(*              (head_shape_map, shape_bytes, shape_uint)                  *)
(*   "derived"  minicbor's derived decoder: takes fields in any order and  *)
(*              every form of a length (external)                          *)
(*                                                                         *)
(* A token is [t, n, b, w]: its type, its number (a value, a length or a   *)
(* count), what tells strings of one length apart, and its form: "min",    *)
(* the shortest one, "wide", with a longer head than needed, or "indef",   *)
(* for a container whose end a break marks.  A schema says what a reader   *)
(* expects; all records number their fields from one.                      *)
(***************************************************************************)
EXTENDS NodeSizes, Sequences, SequencesExt, FiniteSets

Token(t, n, b) == [t |-> t, n |-> n, b |-> b, w |-> "min"]

(* Schemas.  A byte string of length Varying has no fixed width, a text    *)
(* of length Varying no limit.                                             *)
Varying == 0
Uint == [s |-> "uint"]
Str(max) == [s |-> "str", max |-> max]
Bin(len) == [s |-> "bytes", len |-> len]
List(element) == [s |-> "array", of |-> element]
Record(fields, optional) ==
  [s |-> "map", fields |-> fields, optional |-> optional]

IsLeaf(s) == s.s \in {"uint", "str", "bytes"}

-----------------------------------------------------------------------------
(* The canonical encoding (minicbor's derived encoder over the *Wire       *)
(* types): shortest heads, fields in order, absent options left out.       *)
RECURSIVE Encode(_, _)
Encode(s, v) ==
  IF IsLeaf(s) THEN <<Token(s.s, v.n, v.b)>>
  ELSE IF s.s = "array" THEN
    <<Token("array", Len(v), 0)>>
      \o FlattenSeq([i \in 1 .. Len(v) |-> Encode(s.of, v[i])])
  ELSE
    LET keys == SelectSeq([i \in 1 .. Len(s.fields) |-> i], LAMBDA i : i \in DOMAIN v) IN
    <<Token("map", Len(keys), 0)>>
      \o FlattenSeq([i \in 1 .. Len(keys) |->
           <<Token("uint", keys[i], 0)>> \o Encode(s.fields[keys[i]], v[keys[i]])])

(* The bytes of a token: a head, and the content of a string.              *)
TokenLen(k) ==
  (CASE k.w = "min" -> CborHeadLen(k.n) [] k.w = "wide" -> 9 [] OTHER -> 2)
    + (IF k.t \in {"bytes", "str"} THEN k.n ELSE 0)

Bytes(tokens) == FoldLeft(LAMBDA sum, k : sum + TokenLen(k), 0, tokens)

-----------------------------------------------------------------------------
(* What a reader returns: whether it accepts, the value, the position      *)
(* after it, and whether it held a value that it then threw away or a      *)
(* string of the wrong width (observer).                                   *)
Read(v, at, waste) == [ok |-> TRUE, v |-> v, at |-> at, waste |-> waste]
Reject == [ok |-> FALSE, v |-> <<>>, at |-> 0, waste |-> FALSE]

(* A leaf, read or to be read, has the width that its field asks for       *)
(* (digest, uuid, LogId::new, shape_bytes).                                *)
WidthFits(s, x) ==
  CASE s.s = "bytes" -> s.len \in {Varying, x.n}
    [] s.s = "str" -> s.max = Varying \/ x.n \in 1 .. s.max
    [] OTHER -> TRUE


(* exact_value, shape_bytes, shape_uint: a token that a reader takes for a *)
(* leaf.                                                                   *)
LeafFits(mode, s, k) ==
  /\ k.t = s.s
  /\ mode = "exact" => k.w = "min"
  /\ mode = "shape" => WidthFits(s, k)

(* exact_len; the shape reader refuses an indefinite length.               *)
LenFits(mode, s, k) ==
  /\ k.t = s.s
  /\ mode = "exact" => k.w = "min"
  /\ mode = "shape" => k.w # "indef"

(* Exact readers name the next field; head_shape_map takes fields in       *)
(* ascending order and none that it does not know.                         *)
KeyFits(mode, s, k, previous) ==
  /\ LeafFits(mode, Uint, k)
  /\ mode = "exact" => k.n = previous + 1
  /\ mode = "shape" => k.n > previous /\ k.n \in DOMAIN s.fields

(* Skips a value of any kind (minicbor's skip).                            *)
RECURSIVE Skip(_, _, _)
Skip(in, at, count) ==
  IF count = 0 \/ at > Len(in) THEN at
  ELSE LET k == in[at]
           inside == CASE k.t = "array" -> k.n [] k.t = "map" -> 2 * k.n [] OTHER -> 0
       IN Skip(in, at + 1, count - 1 + inside)

Put(v, key, x) == [k \in DOMAIN v \union {key} |-> IF k = key THEN x ELSE v[k]]

RECURSIVE Decode(_, _, _, _), Fields(_, _, _, _, _, _, _), Elements(_, _, _, _, _, _)

(* A value of schema s from position `at` on.                              *)
Decode(mode, s, in, at) ==
  IF at > Len(in) THEN Reject
  ELSE LET k == in[at] IN
    IF IsLeaf(s) THEN
      IF LeafFits(mode, s, k)
      THEN Read([n |-> k.n, b |-> k.b], at + 1, ~WidthFits(s, k))
      ELSE Reject
    ELSE IF ~LenFits(mode, s, k) THEN Reject
    ELSE IF s.s = "array" THEN Elements(mode, s, in, at + 1, k.n, Read(<<>>, at, FALSE))
    ELSE IF mode = "exact" /\ k.n # Len(s.fields) THEN Reject
    ELSE Fields(mode, s, in, at + 1, k.n, 0, Read(<<>>, at, FALSE))

Elements(mode, s, in, at, count, sofar) ==
  IF count = 0 THEN Read(sofar.v, at, sofar.waste)
  ELSE LET r == Decode(mode, s.of, in, at) IN
    IF ~r.ok THEN Reject
    ELSE Elements(mode, s, in, r.at, count - 1,
                  Read(Append(sofar.v, r.v), r.at, sofar.waste \/ r.waste))

(* The fields of a record; at the end, all that are not optional are       *)
(* there.                                                                  *)
Fields(mode, s, in, at, count, previous, sofar) ==
  IF count = 0 THEN
    IF DOMAIN s.fields \ s.optional \subseteq DOMAIN sofar.v
    THEN Read(sofar.v, at, sofar.waste) ELSE Reject
  ELSE IF at >= Len(in) \/ ~KeyFits(mode, s, in[at], previous) THEN Reject
  ELSE LET key == in[at].n IN
    IF key \notin DOMAIN s.fields THEN
      Fields(mode, s, in, Skip(in, at + 1, 1), count - 1, key, sofar)
    ELSE IF mode = "derived" /\ key \in s.optional /\ in[at + 1].t = "null" THEN
      Fields(mode, s, in, at + 2, count - 1, key,
             Read([k \in DOMAIN sofar.v \ {key} |-> sofar.v[k]], at, sofar.waste))
    ELSE LET r == Decode(mode, s.fields[key], in, at + 1) IN
      IF ~r.ok THEN Reject
      ELSE Fields(mode, s, in, r.at, count - 1, key,
                  Read(Put(sofar.v, key, r.v), r.at,
                       sofar.waste \/ r.waste \/ key \in DOMAIN sofar.v))

(* decode_exact, and the end of the exact and shape readers: nothing may   *)
(* follow.                                                                 *)
DecodeAll(mode, s, in) ==
  LET r == Decode(mode, s, in, 1) IN IF r.ok /\ r.at = Len(in) + 1 THEN r ELSE Reject

(* A decoded value whose leaves all have their widths.                     *)
RECURSIVE Widths(_, _)
Widths(s, v) ==
  IF IsLeaf(s) THEN WidthFits(s, v)
  ELSE IF s.s = "array" THEN \A i \in 1 .. Len(v) : Widths(s.of, v[i])
  ELSE \A key \in DOMAIN v : Widths(s.fields[key], v[key])

=============================================================================

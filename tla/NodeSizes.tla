----------------------------- MODULE NodeSizes ------------------------------
(***************************************************************************)
(* The encoded size of a node (format.rs, node_size): what the preflight   *)
(* checks, the node encoder and the capacity of a byte stream rest on.     *)
(* Lengths stay far below the width of usize here; checked_add's failure   *)
(* is the limit error that the comparison with max_object_bytes gives too. *)
(***************************************************************************)
EXTENDS Integers

(* The bytes of a CBOR head (cbor_head_len).  Values of 2^32 and more,     *)
(* whose heads take nine bytes, do not occur in objects of bounded size.   *)
CborHeadLen(value) ==
  IF value < 24 THEN 1
  ELSE IF value < 256 THEN 2
  ELSE IF value < 65536 THEN 3
  ELSE 5

(* One child reference, from its length and its subtree count.             *)
ReferenceLen(len, subtree) == 58 + CborHeadLen(len) + CborHeadLen(subtree)

InnerLen(payload, count, childrenLen) ==
  5 + CborHeadLen(payload) + payload + CborHeadLen(count) + childrenLen

NodeLen(payload, count, childrenLen) ==
  LET inner == InnerLen(payload, count, childrenLen)
  IN 37 + CborHeadLen(inner) + inner

=============================================================================

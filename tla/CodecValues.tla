---------------------------- MODULE CodecValues -----------------------------
(* Values of the six formats: lists of none, one and two, options present  *)
(* and absent, and lengths at the edges of the CBOR heads.                 *)
EXTENDS Integers, Sequences, TLC

U(n) == [n |-> n, b |-> 0]
Id(b) == [n |-> 16, b |-> b]
Hash(b) == [n |-> 32, b |-> b]
Name == [n |-> 3, b |-> 1]
Inline(n) == [n |-> n, b |-> 1]

Opt(v, on) == [key \in {k \in DOMAIN v : k \notin DOMAIN on \/ on[k]} |-> v[key]]

CommitRef(i) == <<U(i), Id(i), Hash(i), U(30), Id(i)>>
ObjectRef(kind, len, count) == <<U(kind), Hash(1), U(len), Id(1), U(count)>>
Plan(i) == <<Id(i), Hash(i), U(100)>>
Durable == [i \in 1 .. 12 |-> U(100)]

HeadOf(gen, next, epoch, based, tail, planned, ids) ==
  Opt(<<U(1), Name, U(gen), U(next), <<U(0), Hash(1), ObjectRef(2, 90, 1)>>, tail,
        <<>>, Id(9), Durable, U(epoch), Plan(1), ids>>,
      5 :> based @@ 11 :> planned)

Heads ==
  {HeadOf(gen, next, epoch, next > 1, [i \in 1 .. (IF next = 0 THEN 0 ELSE 1) |-> CommitRef(i)],
          planned, [i \in 1 .. kept |-> Id(i)]) :
     <<gen, next, epoch, planned, kept>> \in
       {<<0, 0, 0, FALSE, 0>>, <<3, 1, 0, FALSE, 0>>, <<4, 1, 0, FALSE, 2>>,
        <<5, 1, 3, TRUE, 0>>, <<6, 1, 3, FALSE, 1>>, <<7, 2, 3, FALSE, 0>>}}

Commits ==
  {Opt(<<U(1), Name, Id(1), Hash(1), Inline(n), Inline(0), objects, Id(9)>>, 4 :> tipped) :
     n \in {0, 24}, tipped \in BOOLEAN,
     objects \in {<<>>, <<ObjectRef(1, 23, 1)>>, <<ObjectRef(3, 24, 3), ObjectRef(1, 0, 1)>>}}

Checkpoints ==
  {<<U(1), Name, U(2), Hash(2), Inline(n), Id(9), objects>> :
     n \in {0, 256}, objects \in {<<>>, <<ObjectRef(3, 24, 2)>>}}

Nodes ==
  {<<U(1), Inline(n), children>> :
     n \in {0, 23, 24, 255, 256},
     children \in {<<>>, <<ObjectRef(1, 0, 1)>>, <<ObjectRef(1, 300, 1), ObjectRef(3, 23, 24)>>}}

Candidate(i, n) == <<Id(9), U(i), Id(1), Hash(1), U(n)>>

Plans ==
  {<<U(1), Name, U(1), list>> :
     list \in {<<Candidate(1, 0)>>, <<Candidate(1, 24), Candidate(5, 0)>>}}

RecoveryTokens ==
  {Opt(<<U(1), Hash(1), Inline(5), Inline(5), Id(1), Inline(2), Inline(0), objects, Id(2),
         Hash(2), U(4), U(IF tipped THEN 2 ELSE 0), Hash(3), Name, Id(9), Hash(4)>>,
       3 :> tagged @@ 4 :> FALSE @@ 13 :> tipped) :
     tagged \in BOOLEAN, tipped \in BOOLEAN, objects \in {<<>>, <<ObjectRef(1, 5, 1)>>}}

AllValues ==
  "head" :> Heads @@ "commit" :> Commits @@ "checkpoint" :> Checkpoints
    @@ "node" :> Nodes @@ "plan" :> Plans @@ "token" :> RecoveryTokens

=============================================================================

--------------------------- MODULE HeadStoreProofs --------------------------
(***************************************************************************)
(* The legal transitions keep a head valid, for every value of the         *)
(* options.  And what the conditional update guarantees, for every client  *)
(* and any number of writes in flight: when each proposal is legal from    *)
(* the head of the view it was computed from (not from the current head,   *)
(* which its author has not read), the durable head makes legal steps      *)
(* only, however late a write takes effect.                                *)
(***************************************************************************)
EXTENDS HeadStore, HeadSteps

(* The shape of a head: a record with these fields.                        *)
IsHead(h) ==
  /\ h = [generation |-> h.generation, next_sequence |-> h.next_sequence,
          checkpoint |-> h.checkpoint, tail |-> h.tail,
          recent_outcomes |-> h.recent_outcomes,
          collection_epoch |-> h.collection_epoch,
          active_plan |-> h.active_plan, retention_ids |-> h.retention_ids]
  /\ h.generation \in Nat
  /\ h.next_sequence \in Nat
  /\ h.collection_epoch \in Nat
  /\ h.checkpoint.through_sequence \in Nat \cup {-1}
  /\ h.tail \in Seq(Range(h.tail))
  /\ h.recent_outcomes \in Seq(Range(h.recent_outcomes))

(* Two retained commits of one transaction are the same position.  Unlike  *)
(* DistinctTransactions it is preserved by dropping commits.               *)
OnePositionPerTransaction(h) ==
  \A c, d \in Retained(h) : c.transaction_id = d.transaction_id => c.sequence = d.sequence

(* ValidCollectionState but for the number of retention ids, which no      *)
(* other part depends on: RefinementProofs bounds it.                      *)
EpochOk(h) ==
  /\ h.collection_epoch <= h.generation
  /\ h.active_plan # None => h.retention_ids = {} /\ h.collection_epoch > 0

HeadInvariant(h) ==
  /\ IsHead(h)
  /\ ValidTail(h)
  /\ ValidOutcomes(h)
  /\ OnePositionPerTransaction(h)
  /\ EpochOk(h)

-----------------------------------------------------------------------------
(* Sequences.  The provers know what follows; SequenceTheorems states more *)
(* of the kind, but every theorem in reach slows every step of a proof.    *)

(* Elements and length.                                                    *)
LEMMA LenProperties ==
  ASSUME NEW S, NEW s \in Seq(S)
  PROVE  Len(s) \in Nat /\ DOMAIN s = 1..Len(s) /\ s \in [1..Len(s) -> S]
OBVIOUS

(* Each element is of the set.                                             *)
LEMMA ElementOfSeq ==
  ASSUME NEW S, NEW s \in Seq(S), NEW i \in 1..Len(s) PROVE s[i] \in S
OBVIOUS

(* A sequence over a set is one over a larger set.                         *)
LEMMA SeqMonotonic ==
  ASSUME NEW S, NEW T, NEW s \in Seq(S), S \subseteq T PROVE s \in Seq(T)
OBVIOUS

(* A sequence is one over its own elements.                                *)
LEMMA SeqOfRange ==
  ASSUME NEW S, NEW s \in Seq(S) PROVE s \in Seq(Range(s))
BY DEF Range

(* The empty sequence, and the others.                                     *)
LEMMA EmptySeq ==
  ASSUME NEW S
  PROVE  /\ <<>> \in Seq(S) /\ Len(<<>>) = 0
         /\ \A s \in Seq(S) : s # <<>> => Len(s) \in Nat \ {0}
OBVIOUS

(* Sequences are equal element by element.                                 *)
LEMMA SeqEqual ==
  ASSUME NEW S, NEW s \in Seq(S), NEW t \in Seq(S), Len(s) = Len(t),
         \A i \in 1..Len(s) : s[i] = t[i]
  PROVE  s = t
OBVIOUS

(* Concatenation, element by element.                                      *)
LEMMA ConcatProperties ==
  ASSUME NEW S, NEW s \in Seq(S), NEW t \in Seq(S)
  PROVE  /\ s \o t \in Seq(S) /\ Len(s \o t) = Len(s) + Len(t)
         /\ \A i \in 1 .. Len(s) + Len(t) :
              (s \o t)[i] = IF i <= Len(s) THEN s[i] ELSE t[i - Len(s)]
OBVIOUS

(* Append, element by element.                                             *)
LEMMA AppendProperties ==
  ASSUME NEW S, NEW s \in Seq(S), NEW e \in S
  PROVE  /\ Append(s, e) \in Seq(S) /\ Len(Append(s, e)) = Len(s) + 1
         /\ Append(s, e)[Len(s) + 1] = e
         /\ \A i \in 1..Len(s) : Append(s, e)[i] = s[i]
OBVIOUS

(* SubSeq, element by element.                                             *)
LEMMA SubSeqProperties ==
  ASSUME NEW S, NEW s, NEW m \in Int, NEW n \in Int, \A i \in m..n : s[i] \in S
  PROVE  /\ SubSeq(s, m, n) \in Seq(S)
         /\ Len(SubSeq(s, m, n)) = IF m <= n THEN n - m + 1 ELSE 0
         /\ \A i \in 1 .. n - m + 1 : SubSeq(s, m, n)[i] = s[m + i - 1]
OBVIOUS

(* A member of a sequence is the element at some position of it.           *)
LEMMA ToSetMember ==
  ASSUME NEW s, NEW S, s \in Seq(S), NEW e
  PROVE  e \in Range(s) <=> \E i \in 1..Len(s) : s[i] = e
BY DEF Range

(* The sequence numbers of a valid head separate its commits, so one       *)
(* position per transaction is what the validation's HashSet checks.       *)
LEMMA DistinctFromPositions ==
  ASSUME NEW h, IsHead(h), ValidTail(h), ValidOutcomes(h), OnePositionPerTransaction(h)
  PROVE  DistinctTransactions(h.tail \o h.recent_outcomes)
<1> DEFINE t == h.tail
           o == h.recent_outcomes
           u == h.tail \o h.recent_outcomes
           start == ExpectedStart(h)
           S == Retained(h)
<1>1. t \in Seq(S) /\ o \in Seq(S)
  BY SeqMonotonic DEF IsHead, Retained
<1>2. /\ u \in Seq(S)
      /\ Len(u) = Len(t) + Len(o)
      /\ \A i \in 1 .. Len(t) + Len(o) :
           u[i] = IF i <= Len(t) THEN t[i] ELSE o[i - Len(t)]
  BY <1>1, ConcatProperties
<1>3. DOMAIN u = 1 .. Len(t) + Len(o) /\ Len(t) \in Nat /\ Len(o) \in Nat
  BY <1>1, <1>2, LenProperties
<1>4. /\ \A i \in 1..Len(t) : t[i] \in S /\ t[i].sequence = start + i - 1
      /\ \A i \in 1..Len(o) : o[i] \in S /\ o[i].sequence = start - Len(o) + i - 1
  BY <1>1, LenProperties DEF ValidTail, ValidOutcomes, Contiguous
<1>5. start \in Int
  BY DEF IsHead, ExpectedStart
<1> HIDE DEF t, o, u, start, S
<1>6. ASSUME NEW i \in DOMAIN u
      PROVE  /\ u[i] \in S
             /\ i <= Len(t) => u[i].sequence = start + i - 1
             /\ i > Len(t) => u[i].sequence = start - Len(o) + (i - Len(t)) - 1
  <2>1. CASE i <= Len(t)
    BY <1>2, <1>3, <1>4, <1>5, <2>1
  <2>2. CASE i > Len(t)
    <3>1. i - Len(t) \in 1..Len(o) /\ u[i] = o[i - Len(t)]
      BY <1>2, <1>3, <2>2
    <3> QED BY <1>3, <1>4, <2>2, <3>1
  <2> QED BY <1>3, <2>1, <2>2
<1>7. SUFFICES ASSUME NEW i \in DOMAIN u, NEW j \in DOMAIN u,
                      u[i].transaction_id = u[j].transaction_id
               PROVE  i = j
  BY DEF DistinctTransactions, u
<1>8. u[i].sequence = u[j].sequence
  BY <1>6, <1>7 DEF OnePositionPerTransaction, S
<1> DEFINE m == Len(t)
           n == Len(o)
<1>9. i \in 1 .. m + n /\ j \in 1 .. m + n /\ m \in Nat /\ n \in Nat
  BY <1>3
<1>10. /\ i <= m => u[i].sequence = start + i - 1
       /\ i > m => u[i].sequence = start - n + (i - m) - 1
       /\ j <= m => u[j].sequence = start + j - 1
       /\ j > m => u[j].sequence = start - n + (j - m) - 1
  BY <1>6
<1> HIDE DEF m, n
<1> QED BY <1>5, <1>8, <1>9, <1>10

-----------------------------------------------------------------------------
(* A record with well-typed fields is a head.                              *)
LEMMA MakeHead ==
  ASSUME NEW g \in Nat, NEW n \in Nat, NEW e \in Nat, NEW c, NEW t, NEW o, NEW p, NEW r,
         c.through_sequence \in Nat \cup {-1},
         t \in Seq(Range(t)), o \in Seq(Range(o))
  PROVE  IsHead([generation |-> g, next_sequence |-> n, checkpoint |-> c, tail |-> t,
                 recent_outcomes |-> o, collection_epoch |-> e, active_plan |-> p,
                 retention_ids |-> r])
BY DEF IsHead

(* Head::empty is valid.                                                   *)
LEMMA EmptyIsValid == HeadInvariant(Empty)
<1>1. IsHead(Empty)
  <2>1. <<>> \in Seq(Range(<<>>))
    BY EmptySeq
  <2> QED BY <2>1 DEF IsHead, Empty, NoCheckpoint
<1>2. Range(<<>>) = {} /\ Len(<<>>) = 0 /\ DOMAIN <<>> = {}
  BY EmptySeq DEF Range
<1>3. Empty.tail = <<>> /\ Empty.recent_outcomes = <<>> /\ ExpectedStart(Empty) = 0
  BY DEF Empty, NoCheckpoint, ExpectedStart
<1>4. ValidTail(Empty)
  BY <1>2, <1>3, OptionsAssumption DEF ValidTail, Contiguous, Empty
<1>5. ValidOutcomes(Empty)
  BY <1>2, <1>3, OptionsAssumption DEF ValidOutcomes, Contiguous, RequiredOutcomes
<1>6. OnePositionPerTransaction(Empty)
  BY <1>2, <1>3 DEF OnePositionPerTransaction, Retained
<1>7. EpochOk(Empty)
  BY DEF EpochOk, Empty
<1> QED BY <1>1, <1>4, <1>5, <1>6, <1>7 DEF HeadInvariant

(* Log::candidate_head keeps a head valid.                                 *)
LEMMA AppendKeepsHead ==
  ASSUME NEW h, NEW next, HeadInvariant(h), AppendCommit(h, next)
  PROVE  HeadInvariant(next)
<1>1. PICK commit : FollowsHead(h, commit) /\ next = CandidateHead(h, commit)
  BY DEF AppendCommit
<1> USE DEF HeadInvariant
<1>2. /\ next = [generation |-> h.generation + 1, next_sequence |-> h.next_sequence + 1,
                 checkpoint |-> h.checkpoint, tail |-> Append(h.tail, commit),
                 recent_outcomes |-> h.recent_outcomes,
                 collection_epoch |-> h.collection_epoch,
                 active_plan |-> h.active_plan, retention_ids |-> h.retention_ids]
  BY <1>1 DEF CandidateHead, IsHead
<1> DEFINE S == Range(h.tail) \cup {commit}
           t == Append(h.tail, commit)
<1>3. h.tail \in Seq(S) /\ commit \in S
  BY SeqMonotonic DEF IsHead
<1>4. /\ t \in Seq(S)
      /\ Len(t) = Len(h.tail) + 1
      /\ \A i \in 1..Len(h.tail) : t[i] = h.tail[i]
      /\ t[Len(h.tail) + 1] = commit
      /\ DOMAIN t = 1..Len(t)
      /\ DOMAIN h.tail = 1..Len(h.tail)
      /\ Len(h.tail) \in Nat
  BY <1>3, AppendProperties, LenProperties
<1>5. IsHead(next)
  <2>1. t \in Seq(Range(t))
    BY <1>4, SeqOfRange
  <2>2. /\ h.generation + 1 \in Nat /\ h.next_sequence + 1 \in Nat
        /\ h.collection_epoch \in Nat
        /\ h.checkpoint.through_sequence \in Nat \cup {-1}
        /\ h.recent_outcomes \in Seq(Range(h.recent_outcomes))
    BY DEF IsHead
  <2> HIDE DEF t
  <2> QED BY <1>2, <2>1, <2>2, MakeHead DEF t
<1>6. ExpectedStart(next) = ExpectedStart(h) /\ ExpectedStart(h) \in Nat
  BY <1>2 DEF ExpectedStart, IsHead
<1>7. ValidTail(next)
  <2>1. Len(t) <= MaxTailEntries
    BY <1>1, <1>4, OptionsAssumption DEF FollowsHead, ValidCommitPosition
  <2>2. ASSUME NEW i \in 1..Len(t) PROVE t[i].sequence = ExpectedStart(h) + i - 1
    BY <1>1, <1>4, <1>6 DEF ValidTail, Contiguous, FollowsHead
  <2> QED BY <1>2, <1>4, <1>6, <2>1, <2>2 DEF ValidTail, Contiguous, IsHead
<1>8. ValidOutcomes(next)
  BY <1>2, <1>6 DEF ValidOutcomes, RequiredOutcomes
<1>9. OnePositionPerTransaction(next)
  <2>1. Range(t) \subseteq S
    BY <1>4, ElementOfSeq DEF Range
  <2>2. \A c \in Retained(next) : c \in Retained(h) \/ c = commit
    BY <1>2, <2>1 DEF Retained
  <2>3. \A c \in Retained(h) : c.transaction_id # commit.transaction_id
    BY <1>1 DEF FollowsHead, ValidCommitPosition
  <2> QED BY <2>2, <2>3 DEF OnePositionPerTransaction
<1>10. EpochOk(next)
  <2>1. /\ next.collection_epoch = h.collection_epoch
        /\ next.generation = h.generation + 1
        /\ next.active_plan = h.active_plan
        /\ next.retention_ids = h.retention_ids
    BY <1>2
  <2>2. h.collection_epoch \in Nat /\ h.generation \in Nat
    BY DEF IsHead
  <2> QED BY <2>1, <2>2 DEF EpochOk
<1> QED BY <1>5, <1>7, <1>8, <1>9, <1>10

(* Log::checkpoint_head keeps a head valid: the covered prefix becomes the *)
(* newest outcomes, of which exactly the required suffix is kept.          *)
LEMMA CoverKeepsHead ==
  ASSUME NEW h, NEW next, HeadInvariant(h), CoverTail(h, next)
  PROVE  HeadInvariant(next)
<1> USE DEF HeadInvariant
<1> DEFINE t == h.tail
           o == h.recent_outcomes
           S == Retained(h)
           m == Len(t)
           start == ExpectedStart(h)
           W == ResolutionWindow
<1>1. PICK through \in Range(t) : next = CheckpointHead(h, through, next.checkpoint.object)
  BY DEF CoverTail
<1> DEFINE k == CHOOSE i \in DOMAIN h.tail : h.tail[i] = through
           kept == SubSeq(t, k + 1, m)
           all == o \o SubSeq(t, 1, k)
           n == Len(all)
           outcomes == LastN(all, W)
<1>2. /\ t \in Seq(S) /\ o \in Seq(S)
      /\ DOMAIN t = 1..m /\ m \in Nat
      /\ DOMAIN o = 1..Len(o) /\ Len(o) \in Nat
  BY SeqMonotonic, LenProperties DEF IsHead, Retained
<1>3. k \in 1..m /\ t[k] = through
  BY <1>1, <1>2 DEF Range
<1>4. start \in Nat /\ W \in Nat
  BY OptionsAssumption DEF ExpectedStart, IsHead
<1>5. \A i \in 1..m : t[i] \in S /\ t[i].sequence = start + i - 1
  BY <1>2, ElementOfSeq DEF ValidTail, Contiguous
<1>6. \A i \in 1..Len(o) : o[i] \in S /\ o[i].sequence = start - Len(o) + i - 1
  BY <1>2, ElementOfSeq DEF ValidOutcomes, Contiguous
<1>7. next = [generation |-> h.generation + 1, next_sequence |-> h.next_sequence,
              checkpoint |-> [through_sequence |-> through.sequence,
                              through_commit |-> through.digest,
                              object |-> next.checkpoint.object],
              tail |-> kept, recent_outcomes |-> outcomes,
              collection_epoch |-> h.collection_epoch,
              active_plan |-> h.active_plan, retention_ids |-> h.retention_ids]
  BY <1>1 DEF CheckpointHead, IsHead
<1>8. /\ next.tail = kept /\ next.recent_outcomes = outcomes
      /\ next.checkpoint.through_commit = through.digest
      /\ next.checkpoint.through_sequence = through.sequence
      /\ next.next_sequence = h.next_sequence
      /\ next.generation = h.generation + 1
      /\ next.collection_epoch = h.collection_epoch
      /\ next.active_plan = h.active_plan
      /\ next.retention_ids = h.retention_ids
  BY <1>7
<1> HIDE DEF k
<1>9. /\ kept \in Seq(S) /\ Len(kept) = m - k
      /\ DOMAIN kept = 1 .. m - k
      /\ \A i \in 1 .. m - k : kept[i] = t[k + i]
  <2>1. \A i \in k + 1 .. m : t[i] \in S
    BY <1>3, <1>5, <1>2
  <2>2. /\ kept \in Seq(S)
        /\ Len(kept) = IF k + 1 <= m THEN m - (k + 1) + 1 ELSE 0
        /\ \A i \in 1 .. m - (k + 1) + 1 : kept[i] = t[(k + 1) + i - 1]
    BY <2>1, <1>2, <1>3, SubSeqProperties, k + 1 \in Int, m \in Int
  <2> HIDE DEF kept, t, S, m
  <2>3. Len(kept) = m - k
    BY <2>2, <1>2, <1>3
  <2>4. \A i \in 1 .. m - k : kept[i] = t[k + i]
    BY <2>2, <1>2, <1>3
  <2> QED BY <2>2, <2>3, <2>4, LenProperties
<1>10. /\ all \in Seq(S) /\ n = Len(o) + k
       /\ DOMAIN all = 1..n
       /\ all[n] = through
       /\ \A i \in 1..n : all[i] \in S /\ all[i].sequence = start - Len(o) + i - 1
  <2> DEFINE c == SubSeq(t, 1, k)
  <2>1. \A i \in 1..k : t[i] \in S
    BY <1>3, <1>5, <1>2
  <2>2. /\ c \in Seq(S) /\ Len(c) = IF 1 <= k THEN k - 1 + 1 ELSE 0
        /\ \A i \in 1 .. k - 1 + 1 : c[i] = t[1 + i - 1]
    BY <2>1, <1>2, <1>3, SubSeqProperties, k \in Int
  <2>3. Len(c) = k /\ \A i \in 1..k : c[i] = t[i]
    <3> HIDE DEF c, t, S, m
    <3> QED BY <2>2, <1>2, <1>3
  <2>4. /\ all \in Seq(S) /\ n = Len(o) + Len(c)
        /\ \A i \in 1 .. Len(o) + Len(c) :
             all[i] = IF i <= Len(o) THEN o[i] ELSE c[i - Len(o)]
    BY <1>2, <2>2, ConcatProperties
  <2>5. DOMAIN all = 1..n
    BY <2>4, LenProperties
  <2> HIDE DEF c, all, n, t, o, S, m, start
  <2>6. ASSUME NEW i \in 1..n
        PROVE  /\ all[i] \in S
               /\ all[i].sequence = start - Len(o) + i - 1
               /\ i = n => all[i] = through
    <3>1. CASE i <= Len(o)
      BY <3>1, <1>2, <1>3, <1>6, <2>3, <2>4
    <3>2. CASE i > Len(o)
      <4>1. i - Len(o) \in 1..k /\ all[i] = t[i - Len(o)] /\ i - Len(o) \in 1..m
        BY <3>2, <1>2, <1>3, <2>3, <2>4
      <4>2. all[i].sequence = start + (i - Len(o)) - 1 /\ all[i] \in S
        BY <4>1, <1>5
      <4>3. i = n => i - Len(o) = k
        BY <1>2, <1>3, <2>3, <2>4
      <4> QED BY <4>1, <4>2, <4>3, <1>2, <1>3, <1>4
    <3> QED BY <3>1, <3>2, <1>2
  <2> QED BY <2>3, <2>4, <2>5, <2>6, <1>2, <1>3
<1>11. /\ outcomes \in Seq(S)
       /\ Len(outcomes) = IF n <= W THEN n ELSE W
       /\ DOMAIN outcomes = 1..Len(outcomes)
       /\ \A i \in 1..Len(outcomes) : outcomes[i] = all[n - Len(outcomes) + i]
  <2> HIDE DEF all, S
  <2>0. n \in Nat
    BY <1>10, LenProperties
  <2>1. CASE n <= W
    <3>1. outcomes = all
      BY <2>1 DEF LastN
    <3> HIDE DEF outcomes
    <3> QED BY <3>1, <2>0, <2>1, <1>10
  <2>2. CASE n > W
    <3> DEFINE a == n - W + 1
    <3>1. outcomes = SubSeq(all, a, n)
      BY <2>0, <2>2, <1>4 DEF LastN
    <3>2. a \in Int /\ n \in Int /\ \A i \in a..n : all[i] \in S
      BY <1>10, <2>0, <2>2, <1>4
    <3> HIDE DEF a
    <3>3. /\ outcomes \in Seq(S)
          /\ Len(outcomes) = IF a <= n THEN n - a + 1 ELSE 0
          /\ \A i \in 1 .. n - a + 1 : outcomes[i] = all[a + i - 1]
      BY <3>1, <3>2, SubSeqProperties
    <3> HIDE DEF outcomes, n
    <3>4. Len(outcomes) = W
      BY <3>3, <2>0, <2>2, <1>4 DEF a
    <3>5. \A i \in 1..Len(outcomes) : outcomes[i] = all[n - Len(outcomes) + i]
      BY <3>3, <3>4, <2>0, <2>2, <1>4 DEF a
    <3> QED BY <3>3, <3>4, <3>5, <2>0, <2>2, <1>4, LenProperties
  <2> QED BY <2>0, <2>1, <2>2, <1>4
<1>12. through.sequence = start + k - 1 /\ ExpectedStart(next) = start + k
  <2> HIDE DEF start
  <2>1. through.sequence = start + k - 1
    BY <1>3, <1>5
  <2> QED BY <2>1, <1>3, <1>4, <1>8 DEF ExpectedStart
<1> HIDE DEF kept, all, outcomes, t, o, S, start, m, n, W
<1>13. IsHead(next)
  <2>1. kept \in Seq(Range(kept)) /\ outcomes \in Seq(Range(outcomes))
    BY <1>9, <1>11, SeqOfRange
  <2>2. /\ h.generation + 1 \in Nat /\ h.next_sequence \in Nat
        /\ h.collection_epoch \in Nat
    BY DEF IsHead
  <2>3. through.sequence \in Nat
    BY <1>12, <1>3, <1>4, <1>2
  <2> DEFINE c == [through_sequence |-> through.sequence,
                   through_commit |-> through.digest, object |-> next.checkpoint.object]
  <2>4. c.through_sequence \in Nat \cup {-1}
    BY <2>3
  <2>5. next = [generation |-> h.generation + 1, next_sequence |-> h.next_sequence,
                checkpoint |-> c, tail |-> kept, recent_outcomes |-> outcomes,
                collection_epoch |-> h.collection_epoch,
                active_plan |-> h.active_plan, retention_ids |-> h.retention_ids]
    BY <1>7
  <2> HIDE DEF c
  <2> QED BY <2>1, <2>2, <2>4, <2>5, MakeHead
<1>14. ValidTail(next)
  <2>1. /\ m <= MaxTailEntries /\ h.generation >= h.next_sequence
        /\ h.next_sequence = start + m
    BY DEF ValidTail, t, m, start
  <2>2. h.generation \in Nat /\ h.next_sequence \in Nat
    BY DEF IsHead
  <2>3. ASSUME NEW i \in DOMAIN kept PROVE kept[i].sequence = start + k + i - 1
    <3>1. kept[i] = t[k + i] /\ k + i \in 1..m /\ i \in Nat
      BY <1>2, <1>3, <1>9
    <3> QED BY <3>1, <1>3, <1>4, <1>5
  <2>4. m - k <= MaxTailEntries
    BY <2>1, <1>2, <1>3, OptionsAssumption
  <2>5. Contiguous(next.tail, ExpectedStart(next))
    BY <1>8, <1>12, <2>3 DEF Contiguous
  <2>6. Len(next.tail) <= MaxTailEntries /\ next.generation >= next.next_sequence
    BY <1>8, <1>9, <2>1, <2>2, <2>4
  <2>7. next.next_sequence = ExpectedStart(next) + Len(next.tail)
    BY <1>2, <1>3, <1>4, <1>8, <1>9, <1>12, <2>1
  <2> QED BY <2>5, <2>6, <2>7 DEF ValidTail
<1>15. ValidOutcomes(next)
  <2>1. Len(o) = IF start < W THEN start ELSE W
    BY DEF ValidOutcomes, RequiredOutcomes, o, start, W
  <2>2. n \in Nat /\ n = Len(o) + k
    BY <1>2, <1>3, <1>10
  <2>3. Len(outcomes) = IF start + k < W THEN start + k ELSE W
    BY <1>2, <1>3, <1>4, <1>11, <2>1, <2>2
  <2>4. Len(outcomes) = RequiredOutcomes(next)
    BY <2>3, <1>12 DEF RequiredOutcomes, W
  <2>5. Len(outcomes) \in Nat /\ Len(outcomes) <= n
    BY <1>4, <1>11, <2>2
  <2>6. ASSUME NEW i \in DOMAIN outcomes
        PROVE  outcomes[i].sequence = start + k - Len(outcomes) + i - 1
    <3> DEFINE j == n - Len(outcomes) + i
    <3>1. j \in 1..n /\ outcomes[i] = all[j] /\ i \in Nat
      BY <1>11, <2>2, <2>5
    <3>2. outcomes[i].sequence = start - Len(o) + j - 1
      BY <3>1, <1>10
    <3> QED BY <3>1, <3>2, <1>2, <1>3, <1>4, <2>2, <2>5
  <2>7. ASSUME outcomes # <<>> PROVE outcomes[Len(outcomes)] = through
    <3>1. Len(outcomes) # 0
      BY <2>7, <1>11, EmptySeq
    <3> QED BY <3>1, <1>10, <1>11, <2>2, <2>5
  <2>8. Contiguous(next.recent_outcomes, ExpectedStart(next) - Len(next.recent_outcomes))
    <3>1. Contiguous(outcomes, start + k - Len(outcomes))
      BY <2>6 DEF Contiguous
    <3> DEFINE base == start + k - Len(outcomes)
    <3>2. next.recent_outcomes = outcomes /\ ExpectedStart(next) - Len(outcomes) = base
      BY <1>3, <1>4, <1>8, <1>12, <2>5
    <3>3. Contiguous(outcomes, base)
      BY <3>1
    <3> HIDE DEF base, HeadInvariant
    <3> QED BY <3>2, <3>3
  <2>9. next.recent_outcomes # <<>> =>
          Newest(next.recent_outcomes).digest = next.checkpoint.through_commit
    BY <1>8, <2>7 DEF Newest
  <2>10. Len(next.recent_outcomes) = RequiredOutcomes(next)
    BY <1>8, <2>4
  <2> QED BY <2>8, <2>9, <2>10 DEF ValidOutcomes
<1>16. OnePositionPerTransaction(next)
  <2>1. Range(kept) \subseteq S
    BY <1>9, ElementOfSeq DEF Range
  <2>2. Range(outcomes) \subseteq S
    BY <1>11, ElementOfSeq DEF Range
  <2> QED BY <2>1, <2>2, <1>8 DEF OnePositionPerTransaction, Retained, S
<1>17. EpochOk(next)
  <2>1. h.collection_epoch \in Nat /\ h.generation \in Nat
    BY DEF IsHead
  <2> QED BY <2>1, <1>8 DEF EpochOk
<1> QED BY <1>13, <1>14, <1>15, <1>16, <1>17

(* RetentionChange::apply, the fence and its removal change no commit: a   *)
(* head with the same log and a valid collection state stays valid.        *)
LEMMA SameLogKeepsHead ==
  ASSUME NEW h, HeadInvariant(h), NEW e \in Nat, NEW p, NEW r,
         e <= h.generation + 1,
         p # None => r = {} /\ e > 0
  PROVE  HeadInvariant([generation |-> h.generation + 1,
                        next_sequence |-> h.next_sequence,
                        checkpoint |-> h.checkpoint, tail |-> h.tail,
                        recent_outcomes |-> h.recent_outcomes,
                        collection_epoch |-> e, active_plan |-> p,
                        retention_ids |-> r])
<1> DEFINE next == [generation |-> h.generation + 1, next_sequence |-> h.next_sequence,
                    checkpoint |-> h.checkpoint, tail |-> h.tail,
                    recent_outcomes |-> h.recent_outcomes, collection_epoch |-> e,
                    active_plan |-> p, retention_ids |-> r]
<1>1. /\ IsHead(h) /\ ValidTail(h) /\ ValidOutcomes(h)
      /\ OnePositionPerTransaction(h) /\ EpochOk(h)
  BY DEF HeadInvariant
<1>2. /\ h.generation \in Nat /\ h.generation + 1 \in Nat /\ h.next_sequence \in Nat
      /\ h.checkpoint.through_sequence \in Nat \cup {-1}
      /\ h.tail \in Seq(Range(h.tail))
      /\ h.recent_outcomes \in Seq(Range(h.recent_outcomes))
  BY <1>1 DEF IsHead
<1>3. IsHead(next)
  BY <1>2, MakeHead
<1>4. /\ next.generation = h.generation + 1 /\ next.next_sequence = h.next_sequence
      /\ next.checkpoint = h.checkpoint /\ next.tail = h.tail
      /\ next.recent_outcomes = h.recent_outcomes
      /\ next.collection_epoch = e /\ next.active_plan = p /\ next.retention_ids = r
  OBVIOUS
<1> HIDE DEF next
<1>5. ValidTail(next)
  BY <1>1, <1>2, <1>4 DEF ValidTail, ExpectedStart
<1>6. ValidOutcomes(next)
  BY <1>1, <1>4 DEF ValidOutcomes, RequiredOutcomes, ExpectedStart
<1>7. OnePositionPerTransaction(next)
  BY <1>1, <1>4 DEF OnePositionPerTransaction, Retained
<1>8. EpochOk(next)
  BY <1>1, <1>4 DEF EpochOk
<1>9. HeadInvariant(next)
  BY <1>3, <1>5, <1>6, <1>7, <1>8 DEF HeadInvariant
<1> QED BY <1>9 DEF next

(* Every legal transition keeps a head valid.                              *)
LEMMA LegalStepKeepsHead ==
  ASSUME NEW h, NEW next, HeadInvariant(h), LegalStep(h, next)
  PROVE  HeadInvariant(next)
<1>1. /\ h.generation \in Nat /\ h.collection_epoch \in Nat
      /\ h.collection_epoch <= h.generation
      /\ h.active_plan # None => h.retention_ids = {} /\ h.collection_epoch > 0
  BY DEF HeadInvariant, IsHead, EpochOk
<1>2. IsHead(h) BY DEF HeadInvariant
<1> DEFINE With(e, p, r) ==
      [generation |-> h.generation + 1, next_sequence |-> h.next_sequence,
       checkpoint |-> h.checkpoint, tail |-> h.tail,
       recent_outcomes |-> h.recent_outcomes, collection_epoch |-> e,
       active_plan |-> p, retention_ids |-> r]
<1>3. CASE AppendCommit(h, next)
  BY <1>3, AppendKeepsHead
<1>4. CASE CoverTail(h, next)
  BY <1>4, CoverKeepsHead
<1>5. CASE AcquireRetention(h, next)
  <2>1. PICK id \in next.retention_ids \ h.retention_ids :
          next = RetentionHead(h, [kind |-> "Acquire", id |-> id])
    BY <1>5 DEF AcquireRetention
  <2> DEFINE r == h.retention_ids \cup {id}
  <2>2. next.retention_ids = r /\ next = With(h.collection_epoch, h.active_plan, r)
    BY <1>2, <2>1 DEF RetentionHead, IsHead
  <2>3. h.active_plan = None
    BY <1>5 DEF AcquireRetention
  <2> HIDE DEF r
  <2> QED BY <1>1, <2>2, <2>3, SameLogKeepsHead
<1>6. CASE ReleaseRetention(h, next)
  <2>1. PICK id \in h.retention_ids :
          next = RetentionHead(h, [kind |-> "Release", id |-> id])
    BY <1>6 DEF ReleaseRetention
  <2> DEFINE r == h.retention_ids \ {id}
  <2>2. next = With(h.collection_epoch, h.active_plan, r)
    BY <1>2, <2>1 DEF RetentionHead, IsHead
  <2>3. h.active_plan # None => r = {}
    BY <1>1
  <2> HIDE DEF r
  <2> QED BY <1>1, <2>2, <2>3, SameLogKeepsHead
<1>7. CASE ClearRetentions(h, next)
  <2>1. next = With(h.collection_epoch, h.active_plan, {})
    BY <1>2, <1>7 DEF ClearRetentions, RetentionHead, IsHead
  <2> QED BY <1>1, <2>1, SameLogKeepsHead
<1>8. CASE InstallFence(h, next)
  <2>1. next = With(h.collection_epoch + 1, next.active_plan, {})
    BY <1>2, <1>8 DEF InstallFence, FenceHead, IsHead
  <2> DEFINE e == h.collection_epoch + 1
  <2>2. e \in Nat /\ e <= h.generation + 1 /\ e > 0
    BY <1>1
  <2> HIDE DEF e
  <2> QED BY <2>1, <2>2, SameLogKeepsHead DEF e
<1>9. CASE ClearFence(h, next)
  <2>1. next = With(h.collection_epoch, None, h.retention_ids)
    BY <1>2, <1>9 DEF ClearFence, UnfencedHead, IsHead
  <2> QED BY <1>1, <2>1, SameLogKeepsHead
<1> QED BY <1>3, <1>4, <1>5, <1>6, <1>7, <1>8, <1>9 DEF LegalStep

(* The fields of the head a checkpoint writes.                             *)
LEMMA CheckpointFields ==
  ASSUME NEW h, IsHead(h), NEW through, NEW object, NEW next,
         next = CheckpointHead(h, through, object)
  PROVE  /\ next.generation = h.generation + 1
         /\ next.next_sequence = h.next_sequence
         /\ next.checkpoint = [through_sequence |-> through.sequence,
                               through_commit |-> through.digest, object |-> object]
         /\ next.collection_epoch = h.collection_epoch
         /\ next.active_plan = h.active_plan
         /\ next.retention_ids = h.retention_ids
<1> DEFINE k == CHOOSE i \in DOMAIN h.tail : h.tail[i] = through
           kept == SubSeq(h.tail, k + 1, Len(h.tail))
           recent == LastN(h.recent_outcomes \o SubSeq(h.tail, 1, k), ResolutionWindow)
           covers == [through_sequence |-> through.sequence,
                      through_commit |-> through.digest, object |-> object]
<1>1. next = [h EXCEPT !.generation = h.generation + 1, !.tail = kept,
                       !.recent_outcomes = recent, !.checkpoint = covers]
  BY DEF CheckpointHead
<1> HIDE DEF kept, recent, covers
<1>2. /\ next.generation = h.generation + 1 /\ next.next_sequence = h.next_sequence
      /\ next.checkpoint = covers /\ next.collection_epoch = h.collection_epoch
      /\ next.active_plan = h.active_plan /\ next.retention_ids = h.retention_ids
  BY <1>1 DEF IsHead
<1> QED BY <1>2 DEF covers

(* Where it splits the tail: at the covered commit.                        *)
LEMMA CheckpointSplits ==
  ASSUME NEW h, IsHead(h), NEW through \in Range(h.tail), NEW object, NEW next,
         next = CheckpointHead(h, through, object)
  PROVE  \E k \in 1..Len(h.tail) :
           /\ next.tail = SubSeq(h.tail, k + 1, Len(h.tail))
           /\ next.recent_outcomes =
                LastN(h.recent_outcomes \o SubSeq(h.tail, 1, k), ResolutionWindow)
           /\ next.next_sequence = h.next_sequence
<1> DEFINE k == CHOOSE i \in DOMAIN h.tail : h.tail[i] = through
           kept == SubSeq(h.tail, k + 1, Len(h.tail))
           recent == LastN(h.recent_outcomes \o SubSeq(h.tail, 1, k), ResolutionWindow)
           covers == [through_sequence |-> through.sequence,
                      through_commit |-> through.digest, object |-> object]
<1>1. next = [h EXCEPT !.generation = h.generation + 1, !.tail = kept,
                       !.recent_outcomes = recent, !.checkpoint = covers]
  BY DEF CheckpointHead
<1>2. k \in 1..Len(h.tail)
  <2>1. DOMAIN h.tail = 1..Len(h.tail)
    BY LenProperties DEF IsHead
  <2> QED BY <2>1 DEF Range
<1> HIDE DEF kept, recent, covers, k
<1>3. /\ next.tail = kept /\ next.recent_outcomes = recent
      /\ next.next_sequence = h.next_sequence
  BY <1>1 DEF IsHead
<1> QED BY <1>2, <1>3 DEF kept, recent

(* A checkpoint forgets commits, and retains no other.                     *)
LEMMA CoverRetains ==
  ASSUME NEW h, HeadInvariant(h), NEW next, CoverTail(h, next)
  PROVE  /\ Retained(next) \subseteq Retained(h) /\ next.next_sequence = h.next_sequence
         /\ Range(next.tail) \subseteq Range(h.tail)
<1> DEFINE t == h.tail
           o == h.recent_outcomes
           S == Retained(h)
<1>1. PICK through \in Range(h.tail) :
        next = CheckpointHead(h, through, next.checkpoint.object)
  BY DEF CoverTail
<1>2. PICK k \in 1..Len(t) :
        /\ next.tail = SubSeq(t, k + 1, Len(t))
        /\ next.recent_outcomes = LastN(o \o SubSeq(t, 1, k), ResolutionWindow)
        /\ next.next_sequence = h.next_sequence
  <2>1. PICK object : next = CheckpointHead(h, through, object)
    BY <1>1
  <2>2. IsHead(h) /\ through \in Range(h.tail) /\ h.next_sequence \in Nat
    BY DEF HeadInvariant, IsHead
  <2>3. PICK k \in 1..Len(h.tail) :
          /\ next.tail = SubSeq(h.tail, k + 1, Len(h.tail))
          /\ next.recent_outcomes =
               LastN(h.recent_outcomes \o SubSeq(h.tail, 1, k), ResolutionWindow)
          /\ next.next_sequence = h.next_sequence
    BY <2>1, <2>2, CheckpointSplits
  <2> QED BY <2>3
<1> DEFINE kept == SubSeq(t, k + 1, Len(t))
           covered == SubSeq(t, 1, k)
           all == o \o covered
<1>3. /\ t \in Seq(S) /\ o \in Seq(S) /\ DOMAIN t = 1..Len(t) /\ Len(t) \in Nat
      /\ \A i \in 1..Len(t) : t[i] \in S
  BY SeqMonotonic, LenProperties, ElementOfSeq DEF HeadInvariant, IsHead, Retained
<1>4. /\ next.tail = kept /\ next.recent_outcomes = LastN(all, ResolutionWindow)
      /\ next.next_sequence = h.next_sequence
  BY <1>2
<1> HIDE DEF t, o, S
<1>5. kept \in Seq(S) /\ covered \in Seq(S)
  <2>1. \A i \in k + 1 .. Len(t) : t[i] \in S
    BY <1>3
  <2>2. \A i \in 1 .. k : t[i] \in S
    BY <1>3
  <2>3. k \in Int /\ k + 1 \in Int /\ Len(t) \in Int /\ 1 \in Int
    BY <1>3
  <2>4. kept \in Seq(S)
    BY <2>1, <2>3, SubSeqProperties
  <2>5. covered \in Seq(S)
    BY <2>2, <2>3, SubSeqProperties
  <2> QED BY <2>4, <2>5
<1> HIDE DEF kept, covered
<1>6. all \in Seq(S)
  BY <1>3, <1>5, ConcatProperties
<1> HIDE DEF all
<1>7. LastN(all, ResolutionWindow) \in Seq(S)
  <2>1. Len(all) \in Nat /\ ResolutionWindow \in Nat /\ \A i \in 1..Len(all) : all[i] \in S
    BY <1>6, LenProperties, ElementOfSeq, OptionsAssumption
  <2>2. CASE Len(all) > ResolutionWindow
    <3> DEFINE a == Len(all) - ResolutionWindow + 1
    <3>1. a \in Int /\ Len(all) \in Int /\ \A i \in a..Len(all) : all[i] \in S
      BY <2>1, <2>2
    <3>2. SubSeq(all, a, Len(all)) \in Seq(S)
      BY <3>1, SubSeqProperties
    <3> QED BY <2>1, <2>2, <3>2 DEF LastN
  <2> QED BY <1>6, <2>1, <2>2 DEF LastN
<1>8. Range(next.tail) \subseteq S /\ Range(next.recent_outcomes) \subseteq S
  BY <1>4, <1>5, <1>7, ElementOfSeq, LenProperties DEF Range
<1>9. Range(next.tail) \subseteq Range(h.tail)
  <2>1. \A i \in 1..Len(kept) : kept[i] = t[k + i] /\ k + i \in 1..Len(t)
    BY <1>3 DEF kept
  <2>2. DOMAIN kept = 1..Len(kept) /\ DOMAIN t = 1..Len(t)
    BY <1>3, <1>5, LenProperties
  <2>3. ASSUME NEW e \in Range(kept) PROVE e \in Range(t)
    <3>1. PICK i \in 1..Len(kept) : e = kept[i]
      BY <2>2 DEF Range
    <3> QED BY <2>1, <2>2, <3>1 DEF Range
  <2> QED BY <1>4, <2>3 DEF t
<1> QED BY <1>4, <1>8, <1>9 DEF Retained, S

(* What a legal transition does to the retained commits.                   *)
LEMMA LegalStepRetains ==
  ASSUME NEW h, HeadInvariant(h), NEW next, LegalStep(h, next)
  PROVE  \/ /\ next.next_sequence = h.next_sequence
            /\ Retained(next) \subseteq Retained(h)
            /\ Range(next.tail) \subseteq Range(h.tail)
         \/ /\ next.next_sequence = h.next_sequence + 1
            /\ FollowsHead(h, Newest(next.tail))
            /\ Newest(next.tail) \in Range(next.tail)
            /\ Retained(next) \subseteq Retained(h) \cup {Newest(next.tail)}
            /\ Range(next.tail) \subseteq Range(h.tail) \cup {Newest(next.tail)}
            /\ next.checkpoint = h.checkpoint
<1>1. CASE AppendCommit(h, next)
  <2>1. PICK commit : FollowsHead(h, commit) /\ next = CandidateHead(h, commit)
    BY <1>1 DEF AppendCommit
  <2> DEFINE t == Append(h.tail, commit)
             S == Range(h.tail) \cup {commit}
  <2>2. /\ next.next_sequence = h.next_sequence + 1 /\ next.tail = t
        /\ next.recent_outcomes = h.recent_outcomes /\ next.checkpoint = h.checkpoint
    BY <2>1 DEF CandidateHead, HeadInvariant, IsHead
  <2>3. h.tail \in Seq(S) /\ commit \in S
    BY SeqMonotonic DEF HeadInvariant, IsHead
  <2>4. /\ t \in Seq(S) /\ Len(t) = Len(h.tail) + 1 /\ t[Len(h.tail) + 1] = commit
    BY <2>3, AppendProperties
  <2>5. Range(t) \subseteq S
    BY <2>4, ElementOfSeq, LenProperties DEF Range
  <2>6. Newest(next.tail) = commit /\ commit \in Range(t)
    BY <2>2, <2>3, <2>4, LenProperties DEF Newest, Range
  <2> HIDE DEF t
  <2>7. Retained(next) \subseteq Retained(h) \cup {commit}
    BY <2>2, <2>5 DEF Retained
  <2> QED BY <2>1, <2>2, <2>5, <2>6, <2>7
<1>2. CASE CoverTail(h, next)
  BY <1>2, CoverRetains
<1>3. ASSUME next.next_sequence = h.next_sequence, next.tail = h.tail,
             next.recent_outcomes = h.recent_outcomes
      PROVE  /\ next.next_sequence = h.next_sequence
             /\ Retained(next) \subseteq Retained(h)
             /\ Range(next.tail) \subseteq Range(h.tail)
  BY <1>3 DEF Retained
<1>4. CASE AcquireRetention(h, next)
  BY <1>3, <1>4 DEF AcquireRetention, RetentionHead, HeadInvariant, IsHead
<1>5. CASE ReleaseRetention(h, next)
  BY <1>3, <1>5 DEF ReleaseRetention, RetentionHead, HeadInvariant, IsHead
<1>6. CASE ClearRetentions(h, next)
  BY <1>3, <1>6 DEF ClearRetentions, RetentionHead, HeadInvariant, IsHead
<1>7. CASE InstallFence(h, next)
  <2>1. PICK plan : next = FenceHead(h, plan)
    BY <1>7 DEF InstallFence
  <2> QED BY <1>3, <2>1 DEF FenceHead, HeadInvariant, IsHead
<1>8. CASE ClearFence(h, next)
  BY <1>3, <1>8 DEF ClearFence, UnfencedHead, HeadInvariant, IsHead
<1> QED BY <1>1, <1>2, <1>4, <1>5, <1>6, <1>7, <1>8 DEF LegalStep

(* The types of a valid head's numbers.                                    *)
LEMMA HeadNumbers ==
  ASSUME NEW h, HeadInvariant(h)
  PROVE  /\ h.generation \in Nat /\ h.next_sequence \in Nat /\ h.collection_epoch \in Nat
         /\ h.checkpoint.through_sequence \in Int
BY DEF HeadInvariant, IsHead

(* What a legal transition never does: it skips no generation, takes back  *)
(* no sequence number and no epoch, changes plan only with the epoch,      *)
(* enters an epoch with no retention, and covers a commit of the tail.     *)
Advances(h, next) ==
  /\ next.generation = h.generation + 1
  /\ h.next_sequence <= next.next_sequence
  /\ h.collection_epoch <= next.collection_epoch
  /\ h.collection_epoch = next.collection_epoch => next.active_plan \in {h.active_plan, None}
  /\ h.collection_epoch # next.collection_epoch => h.retention_ids = {}
  /\ next.checkpoint # h.checkpoint =>
       \E through \in Range(h.tail) :
         /\ next.checkpoint.through_sequence = through.sequence
         /\ next.checkpoint.through_commit = through.digest
         /\ h.checkpoint.through_sequence < through.sequence

(* A legal transition moves the counters of a head by one, or leaves them. *)
LEMMA LegalStepAdvances ==
  ASSUME NEW h, HeadInvariant(h), NEW next, LegalStep(h, next)
  PROVE  Advances(h, next)
<1>1. /\ IsHead(h) /\ h.generation \in Nat /\ h.next_sequence \in Nat
      /\ h.collection_epoch \in Nat /\ h.checkpoint.through_sequence \in Int
  BY DEF HeadInvariant, IsHead
<1>2. CASE AppendCommit(h, next)
  BY <1>1, <1>2 DEF AppendCommit, CandidateHead, IsHead, Advances
<1>3. CASE CoverTail(h, next)
  <2>0. PICK through \in Range(h.tail) :
          next = CheckpointHead(h, through, next.checkpoint.object)
    BY <1>3 DEF CoverTail
  <2>1. PICK object : next = CheckpointHead(h, through, object)
    BY <2>0
  <2>2. /\ next.generation = h.generation + 1 /\ next.next_sequence = h.next_sequence
        /\ next.collection_epoch = h.collection_epoch
        /\ next.active_plan = h.active_plan
        /\ next.checkpoint = [through_sequence |-> through.sequence,
                              through_commit |-> through.digest, object |-> object]
    BY <1>1, <2>1, CheckpointFields
  <2>3. PICK i \in 1..Len(h.tail) : h.tail[i] = through
    <3>1. DOMAIN h.tail = 1..Len(h.tail)
      BY <1>1, LenProperties DEF IsHead
    <3> QED BY <2>1, <3>1 DEF Range
  <2>4. through.sequence = h.checkpoint.through_sequence + 1 + i - 1
    BY <1>1, <2>3 DEF HeadInvariant, IsHead, ValidTail, Contiguous, ExpectedStart
  <2> QED BY <1>1, <2>2, <2>3, <2>4 DEF Advances, IsHead
<1>4. CASE AcquireRetention(h, next)
  BY <1>1, <1>4 DEF AcquireRetention, RetentionHead, IsHead, Advances
<1>5. CASE ReleaseRetention(h, next)
  BY <1>1, <1>5 DEF ReleaseRetention, RetentionHead, IsHead, Advances
<1>6. CASE ClearRetentions(h, next)
  BY <1>1, <1>6 DEF ClearRetentions, RetentionHead, IsHead, Advances
<1>7. CASE InstallFence(h, next)
  <2>1. PICK plan : next = FenceHead(h, plan)
    BY <1>7 DEF InstallFence
  <2>2. /\ next.generation = h.generation + 1 /\ next.next_sequence = h.next_sequence
        /\ next.collection_epoch = h.collection_epoch + 1
        /\ next.checkpoint = h.checkpoint /\ h.retention_ids = {}
    BY <1>1, <1>7, <2>1 DEF FenceHead, IsHead, InstallFence
  <2> QED BY <1>1, <2>2 DEF Advances
<1>8. CASE ClearFence(h, next)
  BY <1>1, <1>8 DEF ClearFence, UnfencedHead, IsHead, Advances
<1> QED BY <1>2, <1>3, <1>4, <1>5, <1>6, <1>7, <1>8 DEF LegalStep

-----------------------------------------------------------------------------
(* What may differ between the head that a proposal was computed from and  *)
(* the head that it is published on.                                       *)

(* A candidate that fits on a head fits on every head with its base:       *)
(* retention changes and generations do not matter.                        *)
LEMMA SameBaseSameFit ==
  ASSUME NEW h, NEW other, NEW commit, HasSamePublicationBase(h, other),
         FollowsHead(h, commit)
  PROVE  FollowsHead(other, commit)
BY DEF HasSamePublicationBase, FollowsHead, ValidCommitPosition, Retained, Tip

(* Having the same base is an equivalence.                                 *)
LEMMA SameBaseComposes ==
  ASSUME NEW h, NEW other, NEW third, HasSamePublicationBase(h, other)
  PROVE  /\ HasSamePublicationBase(h, h) /\ HasSamePublicationBase(other, h)
         /\ HasSamePublicationBase(other, third) <=> HasSamePublicationBase(h, third)
BY DEF HasSamePublicationBase

(* The recovery token records a digest of the base: equal digests, equal   *)
(* bases.                                                                  *)
LEMMA SameDigestSameBase ==
  ASSUME NEW h, NEW other, IsHead(h), IsHead(other)
  PROVE  PublicationBase(other) = PublicationBase(h) <=> HasSamePublicationBase(h, other)
<1>1. ASSUME PublicationBase(other) = PublicationBase(h)
      PROVE  HasSamePublicationBase(h, other)
  BY <1>1 DEF PublicationBase, IsHead, HasSamePublicationBase
<1>2. ASSUME HasSamePublicationBase(h, other)
      PROVE  PublicationBase(other) = PublicationBase(h)
  BY <1>2 DEF PublicationBase, IsHead, HasSamePublicationBase
<1> QED BY <1>1, <1>2

(* candidate_head of a candidate that fits is a legal transition.          *)
LEMMA CandidateIsLegal ==
  ASSUME NEW h, HeadInvariant(h), NEW commit, FollowsHead(h, commit)
  PROVE  LegalStep(h, CandidateHead(h, commit))
<1> DEFINE next == CandidateHead(h, commit)
<1>1. next.tail = Append(h.tail, commit)
  BY DEF CandidateHead, HeadInvariant, IsHead
<1>2. h.tail \in Seq(Range(h.tail) \cup {commit})
  BY SeqMonotonic DEF HeadInvariant, IsHead
<1>3. commit \in Range(next.tail)
  BY <1>1, <1>2, AppendProperties, LenProperties DEF Range
<1> QED BY <1>3 DEF LegalStep, AppendCommit

(* A prefix, element by element.                                           *)
LEMMA PrefixElements ==
  ASSUME NEW S, NEW s \in Seq(S), NEW T, NEW t \in Seq(T)
  PROVE  StartsWith(t, s) <=> Len(s) <= Len(t) /\ \A i \in 1..Len(s) : s[i] = t[i]
<1> DEFINE n == Len(s)
           b == SubSeq(t, 1, n)
           U == S \cup T
<1>1. n \in Nat /\ Len(t) \in Nat
  BY LenProperties
<1>2. s \in Seq(U) /\ t \in Seq(U)
  BY SeqMonotonic
<1>3. StartsWith(t, s) <=> n <= Len(t) /\ b = s
  BY DEF StartsWith
<1>4. ASSUME n <= Len(t)
      PROVE  /\ b \in Seq(U) /\ Len(b) = n /\ \A i \in 1..n : b[i] = t[i]
  <2>1. \A i \in 1..n : t[i] \in U
    BY <1>1, <1>2, <1>4, ElementOfSeq
  <2> HIDE DEF U
  <2>2. /\ b \in Seq(U) /\ Len(b) = (IF 1 <= n THEN n - 1 + 1 ELSE 0)
        /\ \A i \in 1 .. n - 1 + 1 : b[i] = t[1 + i - 1]
    BY <1>1, <2>1, SubSeqProperties
  <2> HIDE DEF b, n
  <2> QED BY <1>1, <2>2
<1> HIDE DEF b, n, U
<1>5. ASSUME n <= Len(t), \A i \in 1..n : s[i] = t[i] PROVE b = s
  BY <1>2, <1>4, <1>5, SeqEqual DEF n
<1>6. ASSUME n <= Len(t), b = s PROVE \A i \in 1..n : s[i] = t[i]
  BY <1>4, <1>6
<1> QED BY <1>3, <1>5, <1>6 DEF n

(* Appended commits leave the covered commit in the tail, and more may be  *)
(* appended after them.                                                    *)
LEMMA AppendBaseKeepsTail ==
  ASSUME NEW h, NEW other, HeadInvariant(h), HeadInvariant(other),
         HasCheckpointAppendBase(h, other)
  PROVE  Range(h.tail) \subseteq Range(other.tail)
<1> DEFINE s == h.tail
           t == other.tail
<1>1. s \in Seq(Range(s)) /\ t \in Seq(Range(t)) /\ StartsWith(t, s)
  BY DEF HeadInvariant, IsHead, HasCheckpointAppendBase
<1> HIDE DEF s, t
<1>2. /\ Len(s) \in Nat /\ Len(t) \in Nat
      /\ DOMAIN s = 1..Len(s) /\ DOMAIN t = 1..Len(t)
  BY <1>1, LenProperties
<1>3. Len(s) <= Len(t) /\ \A i \in 1..Len(s) : s[i] = t[i]
  BY <1>1, PrefixElements
<1>4. Range(s) \subseteq Range(t)
  BY <1>2, <1>3 DEF Range
<1> QED BY <1>4 DEF s, t

(* What was appended to may be appended to again.                          *)
LEMMA AppendBaseComposes ==
  ASSUME NEW h, NEW other, NEW third,
         HeadInvariant(h), HeadInvariant(other), HeadInvariant(third),
         HasCheckpointAppendBase(h, other), HasCheckpointAppendBase(other, third)
  PROVE  HasCheckpointAppendBase(h, third)
<1> DEFINE s == h.tail
           t == other.tail
           u == third.tail
<1>1. /\ s \in Seq(Range(s)) /\ t \in Seq(Range(t)) /\ u \in Seq(Range(u))
      /\ StartsWith(t, s) /\ StartsWith(u, t)
      /\ h.next_sequence \in Nat
  BY DEF HeadInvariant, IsHead, HasCheckpointAppendBase
<1>2. /\ other.next_sequence = h.next_sequence + Len(t) - Len(s)
      /\ third.next_sequence = other.next_sequence + Len(u) - Len(t)
  BY DEF HasCheckpointAppendBase
<1> HIDE DEF s, t, u
<1>3. Len(s) \in Nat /\ Len(t) \in Nat /\ Len(u) \in Nat
  BY <1>1, LenProperties
<1>4. /\ Len(s) <= Len(t) /\ \A i \in 1..Len(s) : s[i] = t[i]
      /\ Len(t) <= Len(u) /\ \A i \in 1..Len(t) : t[i] = u[i]
  BY <1>1, PrefixElements
<1>5. Len(s) <= Len(u) /\ \A i \in 1..Len(s) : s[i] = u[i]
  BY <1>3, <1>4
<1>6. StartsWith(u, s)
  BY <1>1, <1>5, PrefixElements
<1>7. third.next_sequence = h.next_sequence + Len(u) - Len(s)
  BY <1>1, <1>2, <1>3
<1> QED BY <1>6, <1>7 DEF HasCheckpointAppendBase, s, u

(* A head has its own append base.                                         *)
LEMMA AppendBaseStarts ==
  ASSUME NEW h, HeadInvariant(h)
  PROVE  HasCheckpointAppendBase(h, h)
<1>1. h.tail \in Seq(Range(h.tail)) /\ h.next_sequence \in Nat
  BY DEF HeadInvariant, IsHead
<1>2. StartsWith(h.tail, h.tail) /\ Len(h.tail) \in Nat
  BY <1>1, LenProperties DEF StartsWith
<1> QED BY <1>1, <1>2 DEF HasCheckpointAppendBase

(* checkpoint_head over a commit of the tail is a legal transition.        *)
LEMMA CoveringIsLegal ==
  ASSUME NEW h, HeadInvariant(h), NEW through \in Range(h.tail), NEW object
  PROVE  LegalStep(h, CheckpointHead(h, through, object))
<1>0. PICK next : next = CheckpointHead(h, through, object)
  OBVIOUS
<1>1. next.checkpoint.object = object
  BY <1>0 DEF CheckpointHead, HeadInvariant, IsHead
<1>2. CoverTail(h, next)
  BY <1>0, <1>1 DEF CoverTail
<1> QED BY <1>0, <1>2 DEF LegalStep

-----------------------------------------------------------------------------
(* Nothing that only grows is greater in old than in h.                    *)
NotAhead(old, h) ==
  /\ old.next_sequence <= h.next_sequence
  /\ old.collection_epoch <= h.collection_epoch
  /\ old.collection_epoch = h.collection_epoch => h.active_plan \in {old.active_plan, None}
  /\ old.checkpoint.through_sequence <= h.checkpoint.through_sequence

(* v was read from a valid durable head, h at version n or an older one.   *)
ViewOf(v, h, n) ==
  /\ v = [head |-> v.head, version |-> v.version]
  /\ v.version \in Nat
  /\ v.version <= n
  /\ v.version = n => v.head = h
  /\ v.head.generation = v.version
  /\ HeadInvariant(v.head)
  /\ NotAhead(v.head, h)

StoreInv ==
  /\ version \in Nat
  /\ HeadInvariant(head)
  /\ head.generation = version
  /\ quota \in [Clients -> Nat]
  /\ ViewOf(NoView, head, version)
  /\ \A w \in late : w.version = version /\ LegalStep(head, w.head)

(* What a step of any client does to the head.                             *)
HeadStep ==
  \/ UNCHANGED <<head, version>>
  \/ version' = version + 1 /\ LegalStep(head, head')

(* A view stays a view: a later write moves the version past it.           *)
LEMMA ViewsStay ==
  ASSUME StoreInv, HeadStep, NEW v, ViewOf(v, head, version)
  PROVE  ViewOf(v, head', version')
<1>1. CASE UNCHANGED <<head, version>>
  BY <1>1
<1>2. CASE version' = version + 1 /\ LegalStep(head, head')
  <2>1. Advances(head, head')
    BY <1>2, LegalStepAdvances DEF StoreInv
  <2>2. HeadInvariant(head')
    BY <1>2, LegalStepKeepsHead DEF StoreInv
  <2>3. NotAhead(v.head, head)
    BY DEF ViewOf
  <2>4. /\ head'.next_sequence \in Nat /\ head.next_sequence \in Nat
        /\ v.head.next_sequence \in Nat /\ head'.collection_epoch \in Nat
        /\ head.collection_epoch \in Nat /\ v.head.collection_epoch \in Nat
        /\ head'.checkpoint.through_sequence \in Int
        /\ head.checkpoint.through_sequence \in Int
        /\ v.head.checkpoint.through_sequence \in Int
    BY <2>2, HeadNumbers DEF StoreInv, ViewOf
  <2>5. head.checkpoint.through_sequence <= head'.checkpoint.through_sequence
    BY <2>1, <2>4 DEF Advances
  <2>6. NotAhead(v.head, head')
    BY <2>1, <2>3, <2>4, <2>5 DEF Advances, NotAhead
  <2> QED BY <1>2, <2>6 DEF ViewOf, StoreInv
<1> QED BY <1>1, <1>2 DEF HeadStep

(* The view that a load returns.                                           *)
LEMMA ObservedIsView ==
  ASSUME StoreInv
  PROVE  ViewOf(Observed, head, version)
BY DEF StoreInv, ViewOf, Observed, NotAhead, HeadInvariant, IsHead

(* Apply(h) on the current version, for a legal h.                         *)
LEMMA ApplyKeepsStore ==
  ASSUME StoreInv, NEW h, LegalStep(head, h), Apply(h), UNCHANGED quota
  PROVE  StoreInv' /\ HeadStep
<1>1. head' = h /\ version' = version + 1 /\ version \in Nat
  BY DEF Apply, StoreInv
<1>2. HeadStep
  BY <1>1 DEF HeadStep
<1>3. ViewOf(NoView, head', version')
  BY <1>2, ViewsStay DEF StoreInv
<1>4. HeadInvariant(head')
  BY <1>1, LegalStepKeepsHead DEF StoreInv
<1>5. late' = {}
  BY <1>1 DEF Apply, StoreInv
<1>6. version' \in Nat /\ quota' \in [Clients -> Nat] /\ head'.generation = version'
  BY <1>1, LegalStepAdvances DEF StoreInv, Advances
<1>7. ViewOf(NoView, head, version)'
  BY <1>3 DEF NoView, Empty, NoCheckpoint, ViewOf
<1> QED BY <1>2, <1>4, <1>5, <1>6, <1>7 DEF StoreInv

(* ScopedStore::update from a view, whatever its answer.                   *)
LEMMA UpdateKeepsStore ==
  ASSUME StoreInv, NEW v, ViewOf(v, head, version), NEW h, LegalStep(v.head, h),
         UpdateApplied(v, h) \/ UpdateInFlight(v, h), UNCHANGED quota
  PROVE  /\ StoreInv' /\ HeadStep
         /\ UpdateApplied(v, h) =>
              head' = h /\ version' = v.version + 1 /\ v.head = head
<1>1. CASE UpdateApplied(v, h)
  <2>1. v.version = version /\ v.head = head /\ Apply(h)
    BY <1>1 DEF UpdateApplied, Matches, ViewOf
  <2>2. StoreInv' /\ HeadStep
    BY <2>1, ApplyKeepsStore
  <2> QED BY <2>1, <2>2 DEF Apply
<1>2. CASE UpdateInFlight(v, h) /\ ~UpdateApplied(v, h)
  <2>1. UNCHANGED <<head, version, quota>> /\ HeadStep
    BY <1>2 DEF UpdateInFlight, HeadStep
  <2>2. ASSUME NEW w \in late'
        PROVE  w.version = version /\ LegalStep(head, w.head)
    <3>1. CASE w \in late
      BY <3>1 DEF StoreInv
    <3>2. CASE w \notin late
      <4>1. w = [version |-> v.version, head |-> h] /\ v.version = version
        BY <1>2, <2>2, <3>2 DEF UpdateInFlight, Matches
      <4> QED BY <4>1 DEF ViewOf
    <3> QED BY <3>1, <3>2
  <2> QED BY <1>2, <2>1, <2>2 DEF StoreInv, ViewOf, NoView, Empty, NoCheckpoint
<1> QED BY <1>1, <1>2

(* A step that writes no head: a load, a local step, a fresh identity.     *)
LEMMA QuietKeepsStore ==
  ASSUME StoreInv, UNCHANGED <<head, version, late>>, quota' \in [Clients -> Nat]
  PROVE  StoreInv' /\ HeadStep
BY DEF StoreInv, HeadStep, ViewOf, NoView, Empty, NoCheckpoint

(* A publication loop starts at attempt 0 and goes on below the limit.     *)
LEMMA LoopAttempts ==
  /\ 0 \in Attempts
  /\ \A n \in Attempts : n + 1 # MaxAttempts => n + 1 \in Attempts
BY BoundsAssumption DEF Attempts

(* A fresh identity is a pair of a client and a number, never None.        *)
LEMMA DrawnIdentity ==
  ASSUME StoreInv, NEW c \in Clients
  PROVE  /\ Fresh(c) # None
         /\ Draw(c) => quota' \in [Clients -> Nat]
<1>1. quota[c] \in Nat /\ quota \in [Clients -> Nat]
  BY DEF StoreInv
<1>2. Fresh(c) \in Clients \X Nat
  BY <1>1 DEF Fresh
<1> QED BY <1>1, <1>2, IdentityAssumption DEF Draw, CanDraw

(* A write in flight takes effect.                                         *)
LEMMA LandKeepsStore ==
  ASSUME StoreInv, Land
  PROVE  StoreInv' /\ HeadStep
<1>1. PICK w \in late : w.version = version /\ Apply(w.head)
  BY DEF Land, Matches
<1>2. LegalStep(head, w.head)
  BY <1>1 DEF StoreInv
<1> QED BY <1>1, <1>2, ApplyKeepsStore DEF Land

-----------------------------------------------------------------------------
(* A step that does not touch the durable head, and one that writes h from *)
(* the current head: now, or by leaving a write in flight.                 *)
StoreStays == UNCHANGED <<head, version, late, history, bases>>

Submits(h) ==
  /\ late' = late \cup {[version |-> version, head |-> h]}
  /\ UNCHANGED <<head, version, history, bases>>

Proposes(h) == Apply(h) \/ Submits(h)

(* A conditional update from a view that is not current changes nothing.   *)
LEMMA UpdateProposes ==
  ASSUME NEW v, ViewOf(v, head, version), NEW h,
         UpdateApplied(v, h) \/ UpdateInFlight(v, h)
  PROVE  \/ StoreStays /\ ~UpdateApplied(v, h)
         \/ /\ v.version = version /\ v.head = head
            /\ IF UpdateApplied(v, h) THEN Apply(h) ELSE Submits(h)
<1>1. CASE v.version = version
  BY <1>1 DEF ViewOf, UpdateApplied, UpdateInFlight, Matches, Submits
<1>2. CASE v.version # version
  BY <1>2 DEF UpdateApplied, UpdateInFlight, Matches, StoreStays
<1> QED BY <1>1, <1>2

(* A view of another version than the current one has an older generation: *)
(* the loops' "no newer generation" is never the answer.                   *)
LEMMA OtherViewsAreOlder ==
  ASSUME StoreInv, NEW v, ViewOf(v, head, version)
  PROVE  /\ v = Observed <=> v.version = version
         /\ v # Observed => v.version < version /\ v.head.generation < head.generation
BY DEF StoreInv, ViewOf, Observed

(* id is an identity that client c has drawn, as the quotas q say.         *)
DrawnBy(c, id, q) == id \in {c} \X Nat /\ id[2] > q[c]
Drawn(clients, id, q) == \E c \in clients : DrawnBy(c, id, q)

(* Identities are drawn once: a drawn one stays, and a fresh one is new.   *)
QuotaFalls ==
  /\ quota' \in [Clients -> Nat]
  /\ \A c \in Clients : quota'[c] <= quota[c]

(* A drawn identity stays drawn by the same client.                        *)
LEMMA DrawnStaysDrawn ==
  ASSUME StoreInv, QuotaFalls, NEW c \in Clients, NEW id, DrawnBy(c, id, quota)
  PROVE  DrawnBy(c, id, quota')
<1>1. id \in {c} \X Nat /\ id[2] > quota[c] /\ id[2] \in Nat
  BY DEF DrawnBy
<1>2. quota[c] \in Nat /\ quota'[c] \in Nat /\ quota'[c] <= quota[c]
  BY DEF StoreInv, QuotaFalls
<1>3. id[2] > quota'[c]
  BY <1>1, <1>2
<1> QED BY <1>1, <1>3 DEF DrawnBy

(* A fresh identity is drawn now and was not before.                       *)
LEMMA FreshIsDrawn ==
  ASSUME StoreInv, NEW c \in Clients, Draw(c), NEW id, id = Fresh(c)
  PROVE  /\ QuotaFalls /\ DrawnBy(c, id, quota')
         /\ \A d \in Clients : ~DrawnBy(d, id, quota)
         /\ id # None
<1>1. quota \in [Clients -> Nat] /\ quota[c] \in Nat /\ quota[c] > 0
  BY DEF StoreInv, Draw, CanDraw
<1>2. \A d \in Clients : quota'[d] = IF d = c THEN quota[c] - 1 ELSE quota[d]
  BY <1>1 DEF Draw
<1>3. QuotaFalls
  <2>1. quota' \in [Clients -> Nat]
    BY <1>1 DEF Draw
  <2>2. \A d \in Clients : quota[d] \in Nat
    BY <1>1
  <2>3. \A d \in Clients : quota'[d] <= quota[d]
    BY <1>1, <1>2, <2>2
  <2> QED BY <2>1, <2>3 DEF QuotaFalls
<1>4. id = <<c, quota[c]>> /\ quota[c] > quota'[c]
  BY <1>1, <1>2 DEF Fresh
<1>5. DrawnBy(c, id, quota')
  BY <1>1, <1>4 DEF DrawnBy
<1>6. ASSUME NEW d \in Clients PROVE ~DrawnBy(d, id, quota)
  BY <1>1, <1>4 DEF DrawnBy
<1> QED BY <1>3, <1>5, <1>6, DrawnIdentity

(* A drawn identity has one owner, and is not None.                        *)
LEMMA DrawnOnce ==
  ASSUME NEW c \in Clients, NEW d \in Clients, NEW id,
         DrawnBy(c, id, quota), DrawnBy(d, id, quota)
  PROVE  c = d /\ id # None
BY IdentityAssumption DEF DrawnBy

-----------------------------------------------------------------------------
(* A step of the log as the store sees it.                                 *)
StoreStep == StoreStays \/ \E h : LegalStep(head, h) /\ Proposes(h)

(* A write in flight that takes effect is a legal transition of the head.  *)
LEMMA LandProposes ==
  ASSUME StoreInv, Land
  PROVE  \E w \in late : LegalStep(head, w.head) /\ Apply(w.head)
BY DEF Land, StoreInv

(* The head against the list of all commits: each commit it retains is in  *)
(* the list, at the position that its sequence number says, and so is the  *)
(* last commit of the checkpoint.                                          *)
RetainsHistory(h, all) ==
  /\ all \in Seq(Range(all))
  /\ Len(all) = h.next_sequence
  /\ \A i \in 1..Len(all) : all[i].sequence = i - 1
  /\ \A c \in Retained(h) : c.sequence + 1 \in 1..Len(all) /\ c = all[c.sequence + 1]
  /\ IF h.checkpoint.through_sequence = -1 THEN h.checkpoint.through_commit = None
     ELSE /\ h.checkpoint.through_sequence + 1 \in 1..Len(all)
          /\ h.checkpoint.through_commit = all[h.checkpoint.through_sequence + 1].digest

HistoryInv == RetainsHistory(head, history)

(* The observer follows the head.                                          *)
LEMMA ApplyRetainsHistory ==
  ASSUME HeadInvariant(head), HistoryInv, NEW h, LegalStep(head, h), Apply(h)
  PROVE  RetainsHistory(h, history')
<1>1. /\ head.next_sequence \in Nat /\ head.checkpoint.through_sequence \in Int
      /\ RetainsHistory(head, history)
  BY HeadNumbers DEF HistoryInv
<1>2. PICK n \in Nat : n = Len(history) /\ n = head.next_sequence
  BY <1>1 DEF RetainsHistory
<1> DEFINE q == head.checkpoint.through_sequence
<1>3. CASE /\ h.next_sequence = head.next_sequence
           /\ Retained(h) \subseteq Retained(head)
  <2>1. history' = history
    BY <1>1, <1>3 DEF Apply
  <2>2. CASE h.checkpoint = head.checkpoint
    BY <1>1, <1>3, <2>1, <2>2 DEF RetainsHistory
  <2>3. CASE h.checkpoint # head.checkpoint
    <3>1. PICK through \in Range(head.tail) :
            /\ h.checkpoint.through_sequence = through.sequence
            /\ h.checkpoint.through_commit = through.digest
      BY <2>3, LegalStepAdvances DEF Advances
    <3>2. through.sequence + 1 \in 1..n /\ through = history[through.sequence + 1]
      BY <1>1, <1>2 DEF RetainsHistory, Retained
    <3>3. h.checkpoint.through_sequence # -1
      BY <1>2, <3>1, <3>2
    <3> QED BY <1>1, <1>2, <1>3, <2>1, <3>1, <3>2, <3>3 DEF RetainsHistory
  <2> QED BY <2>2, <2>3
<1>4. CASE /\ h.next_sequence = head.next_sequence + 1
           /\ FollowsHead(head, Newest(h.tail))
           /\ Retained(h) \subseteq Retained(head) \cup {Newest(h.tail)}
           /\ h.checkpoint = head.checkpoint
  <2> DEFINE c == Newest(h.tail)
             S == Range(history) \cup {c}
  <2>1. history' = Append(history, c)
    BY <1>1, <1>4 DEF Apply
  <2>2. history \in Seq(S) /\ c \in S
    BY <1>1, SeqMonotonic DEF RetainsHistory
  <2>3. /\ history' \in Seq(S) /\ Len(history') = n + 1
        /\ \A i \in 1..n : history'[i] = history[i]
        /\ history'[n + 1] = c
    <3>1. /\ Append(history, c) \in Seq(S) /\ Len(Append(history, c)) = Len(history) + 1
          /\ \A i \in 1..Len(history) : Append(history, c)[i] = history[i]
          /\ Append(history, c)[Len(history) + 1] = c
      BY <2>2, AppendProperties
    <3> QED BY <1>2, <2>1, <3>1
  <2>4. history' \in Seq(Range(history'))
    BY <2>3, SeqOfRange
  <2>5. c.sequence = n
    BY <1>2, <1>4 DEF FollowsHead
  <2>6. ASSUME NEW d \in Retained(head)
        PROVE  d.sequence + 1 \in 1..n /\ d = history[d.sequence + 1]
    BY <1>1, <1>2 DEF RetainsHistory
  <2>7. \A i \in 1..n : history[i].sequence = i - 1
    BY <1>1, <1>2 DEF RetainsHistory
  <2> HIDE DEF c
  <2>8. ASSUME NEW d \in Retained(h)
        PROVE  d.sequence + 1 \in 1 .. n + 1 /\ d = history'[d.sequence + 1]
    <3>1. CASE d = c
      BY <1>2, <2>3, <2>5, <3>1
    <3>2. CASE d \in Retained(head)
      BY <1>2, <2>3, <2>6, <3>2
    <3> QED BY <1>4, <3>1, <3>2 DEF c
  <2>9. ASSUME NEW i \in 1 .. n + 1 PROVE history'[i].sequence = i - 1
    BY <1>2, <2>3, <2>5, <2>7
  <2>10. IF q = -1 THEN head.checkpoint.through_commit = None
         ELSE q + 1 \in 1..n /\ head.checkpoint.through_commit = history[q + 1].digest
    BY <1>1, <1>2 DEF RetainsHistory
  <2>11. q \in Int
    BY <1>1
  <2> HIDE DEF q
  <2>12. IF q = -1 THEN head.checkpoint.through_commit = None
         ELSE /\ q + 1 \in 1 .. n + 1
              /\ head.checkpoint.through_commit = history'[q + 1].digest
    BY <2>3, <2>10, <2>11
  <2>13. h.next_sequence = n + 1 /\ h.checkpoint = head.checkpoint
    BY <1>2, <1>4
  <2> QED BY <2>3, <2>4, <2>8, <2>9, <2>12, <2>13 DEF RetainsHistory, q
<1> QED BY <1>3, <1>4, LegalStepRetains

(* Every step of the log keeps the head in agreement with the list.        *)
LEMMA HistoryStays ==
  ASSUME StoreInv, HistoryInv, StoreStep
  PROVE  HistoryInv'
<1>1. CASE StoreStays
  BY <1>1 DEF StoreStays, HistoryInv
<1>2. ASSUME NEW h, LegalStep(head, h), Proposes(h) PROVE HistoryInv'
  <2>1. CASE Apply(h)
    <3>1. RetainsHistory(h, history')
      BY <1>2, <2>1, ApplyRetainsHistory DEF StoreInv
    <3> QED BY <2>1, <3>1 DEF Apply, HistoryInv
  <2>2. CASE UNCHANGED <<head, history>>
    BY <2>2 DEF HistoryInv
  <2> QED BY <1>2, <2>1, <2>2 DEF Proposes, Submits
<1> QED BY <1>1, <1>2 DEF StoreStep

(* A commit that follows the head was never published.                     *)
LEMMA NextIsNew ==
  ASSUME HistoryInv, NEW c, c.sequence = head.next_sequence
  PROVE  c \notin Range(history)
<1>1. /\ Len(history) = head.next_sequence /\ history \in Seq(Range(history))
      /\ \A i \in 1..Len(history) : history[i].sequence = i - 1
  BY DEF HistoryInv, RetainsHistory
<1>2. DOMAIN history = 1..Len(history) /\ Len(history) \in Nat
  BY <1>1, LenProperties
<1>3. ASSUME NEW i \in 1..Len(history), history[i] = c PROVE FALSE
  BY <1>1, <1>2, <1>3
<1> QED BY <1>2, <1>3 DEF Range

(* A commit that the head retains was published.                           *)
LEMMA RetainedIsPublished ==
  ASSUME HistoryInv, NEW c \in Retained(head)
  PROVE  c \in Range(history)
<1>1. /\ history \in Seq(Range(history))
      /\ c.sequence + 1 \in 1..Len(history) /\ c = history[c.sequence + 1]
  BY DEF HistoryInv, RetainsHistory
<1> QED BY <1>1, LenProperties DEF Range

(* What a head says of a commit that it does not retain: its place is not  *)
(* reached yet, or another commit has it.  Then it is not published.       *)
Refutes(h, c) ==
  \/ c.sequence >= h.next_sequence
  \/ c \notin Retained(h) /\ \E d \in Retained(h) : d.sequence = c.sequence

(* A commit that the head refutes was not published.                       *)
LEMMA RefutedIsUnpublished ==
  ASSUME StoreInv, HistoryInv, NEW c, Refutes(head, c)
  PROVE  c \notin Range(history)
<1>1. /\ Len(history) = head.next_sequence /\ history \in Seq(Range(history))
      /\ \A i \in 1..Len(history) : history[i].sequence = i - 1
      /\ \A d \in Retained(head) :
           d.sequence + 1 \in 1..Len(history) /\ d = history[d.sequence + 1]
  BY DEF HistoryInv, RetainsHistory
<1>2. DOMAIN history = 1..Len(history) /\ Len(history) \in Nat
  BY <1>1, LenProperties
<1>3. ASSUME NEW i \in 1..Len(history), history[i] = c PROVE FALSE
  <2>1. c.sequence = i - 1 /\ c.sequence < head.next_sequence
    BY <1>1, <1>2, <1>3
  <2>2. PICK d \in Retained(head) : d.sequence = c.sequence /\ c \notin Retained(head)
    BY <1>2, <1>1, <2>1 DEF Refutes
  <2>3. d = history[i]
    BY <1>1, <1>2, <2>1, <2>2
  <2> QED BY <1>3, <2>2, <2>3
<1> QED BY <1>2, <1>3 DEF Range

(* The tip of the head is the digest of the newest commit.                 *)
LEMMA TipIsNewest ==
  ASSUME StoreInv, HistoryInv
  PROVE  Tip(head) = IF history = <<>> THEN None ELSE Newest(history).digest
<1>1. /\ Len(history) = head.next_sequence /\ history \in Seq(Range(history))
      /\ \A d \in Retained(head) :
           d.sequence + 1 \in 1..Len(history) /\ d = history[d.sequence + 1]
  BY DEF HistoryInv, RetainsHistory
<1>2. PICK t, q : t = head.tail /\ q = head.checkpoint.through_sequence
  OBVIOUS
<1>3. /\ t \in Seq(Range(t)) /\ q \in Int /\ q >= -1
      /\ \A i \in DOMAIN t : t[i].sequence = q + 1 + i - 1
      /\ head.next_sequence = q + 1 + Len(t)
  BY <1>2, HeadNumbers
     DEF StoreInv, HeadInvariant, IsHead, ValidTail, Contiguous, ExpectedStart
<1>4. PICK m \in Nat, n \in Nat : m = Len(t) /\ n = Len(history)
  BY <1>1, <1>3, LenProperties
<1>5. /\ DOMAIN t = 1..m /\ n = q + 1 + m /\ n - 1 + 1 = n
  BY <1>1, <1>3, <1>4, LenProperties
<1>6. (history = <<>> <=> n = 0) /\ (t = <<>> <=> m = 0)
  BY <1>1, <1>3, <1>4, EmptySeq
<1>7. CASE m > 0
  <2>1. m \in DOMAIN t /\ t[m] \in Retained(head)
    BY <1>2, <1>5, <1>7 DEF Retained, Range
  <2>2. t[m].sequence = n - 1
    BY <1>3, <1>5, <2>1
  <2>3. t[m] = history[t[m].sequence + 1]
    BY <1>1, <2>1
  <2>4. Tip(head) = t[m].digest /\ Newest(history) = history[n]
    BY <1>2, <1>4, <1>6, <1>7 DEF Tip, Newest
  <2>5. n # 0
    BY <1>3, <1>5, <1>7
  <2> QED BY <1>5, <1>6, <2>2, <2>3, <2>4, <2>5
<1>8. CASE m = 0
  <2>1. n = q + 1 /\ Tip(head) = head.checkpoint.through_commit /\ Newest(history) = history[n]
    BY <1>2, <1>3, <1>4, <1>5, <1>6, <1>8 DEF Tip, Newest
  <2>2. IF q = -1 THEN head.checkpoint.through_commit = None
        ELSE head.checkpoint.through_commit = history[q + 1].digest
    BY <1>2 DEF HistoryInv, RetainsHistory
  <2> QED BY <1>3, <1>6, <2>1, <2>2
<1> QED BY <1>7, <1>8

(* A head that takes effect: nothing stays in flight, and at most its      *)
(* newest commit is added to the list.                                     *)
LEMMA ApplyPublishes ==
  ASSUME StoreInv, HistoryInv, NEW h, LegalStep(head, h), Apply(h)
  PROVE  /\ late' = {}
         /\ \/ /\ history' = history /\ h.next_sequence = head.next_sequence
               /\ Range(h.tail) \subseteq Range(head.tail)
            \/ /\ history' = Append(history, Newest(h.tail))
               /\ Range(history') = Range(history) \cup {Newest(h.tail)}
               /\ Newest(h.tail) \in Range(h.tail) /\ Newest(h.tail) \notin Range(history)
               /\ FollowsHead(head, Newest(h.tail))
               /\ Range(h.tail) \subseteq Range(head.tail) \cup {Newest(h.tail)}
<1>1. late' = {}
  BY DEF Apply, StoreInv
<1>2. head.next_sequence \in Nat /\ HeadInvariant(head)
  BY HeadNumbers DEF StoreInv
<1>3. CASE h.next_sequence = head.next_sequence /\ Range(h.tail) \subseteq Range(head.tail)
  BY <1>1, <1>2, <1>3 DEF Apply
<1>4. CASE /\ h.next_sequence = head.next_sequence + 1
           /\ FollowsHead(head, Newest(h.tail))
           /\ Newest(h.tail) \in Range(h.tail)
           /\ Range(h.tail) \subseteq Range(head.tail) \cup {Newest(h.tail)}
  <2> DEFINE c == Newest(h.tail)
             S == Range(history) \cup {c}
             all == Append(history, c)
  <2>1. history' = all
    BY <1>2, <1>4 DEF Apply
  <2>2. history \in Seq(S) /\ c \in S
    BY SeqMonotonic DEF HistoryInv, RetainsHistory
  <2>3. /\ all \in Seq(S) /\ Len(all) = Len(history) + 1
        /\ \A i \in 1..Len(history) : all[i] = history[i]
        /\ all[Len(history) + 1] = c
    BY <2>2, AppendProperties
  <2>4. DOMAIN history = 1..Len(history) /\ DOMAIN all = 1..Len(all) /\ Len(history) \in Nat
    BY <2>2, <2>3, LenProperties
  <2> HIDE DEF all, c
  <2>5. Range(all) \subseteq S
    BY <2>3, <2>4, ElementOfSeq DEF Range
  <2>6. ASSUME NEW e \in Range(history) PROVE e \in Range(all)
    <3>1. PICK i \in 1..Len(history) : history[i] = e
      BY <2>4 DEF Range
    <3>2. i \in 1..Len(all) /\ all[i] = e
      BY <2>3, <2>4, <3>1
    <3> QED BY <2>4, <3>2 DEF Range
  <2>7. c \in Range(all)
    <3>1. Len(history) + 1 \in DOMAIN all
      BY <2>3, <2>4
    <3> QED BY <2>3, <3>1 DEF Range
  <2>8. c \notin Range(history)
    BY <1>4, NextIsNew DEF FollowsHead, c
  <2> QED BY <1>1, <1>4, <2>1, <2>5, <2>6, <2>7, <2>8 DEF all, c
<1> QED BY <1>2, <1>3, <1>4, LegalStepRetains

(* An identity drawn by one of a set of clients stays so.                  *)
LEMMA DrawnStays ==
  ASSUME StoreInv, QuotaFalls, NEW clients, clients \subseteq Clients, NEW id,
         Drawn(clients, id, quota)
  PROVE  Drawn(clients, id, quota')
BY DrawnStaysDrawn DEF Drawn

(* A step that draws no identity.                                          *)
LEMMA QuotaStays == ASSUME StoreInv, UNCHANGED quota PROVE QuotaFalls
<1>1. \A c \in Clients : quota[c] \in Nat
  BY DEF StoreInv
<1> QED BY <1>1 DEF StoreInv, QuotaFalls

(* Positions and sequence numbers agree in a valid head, so what it keeps  *)
(* is a suffix of the list.                                                *)
LEMMA RetainedIsSuffix ==
  ASSUME NEW h, HeadInvariant(h), NEW all, RetainsHistory(h, all)
  PROVE  LET kept == h.recent_outcomes \o h.tail IN
           /\ Len(kept) <= Len(all)
           /\ kept = SubSeq(all, Len(all) - Len(kept) + 1, Len(all))
<1> DEFINE t == h.tail
           o == h.recent_outcomes
           u == o \o t
           S == Retained(h) \cup Range(all)
           start == ExpectedStart(h)
           l == Len(o)
           m == Len(t)
           n == Len(all)
<1>1. t \in Seq(S) /\ o \in Seq(S) /\ all \in Seq(S)
  BY SeqMonotonic DEF HeadInvariant, IsHead, Retained, RetainsHistory
<1>2. l \in Nat /\ m \in Nat /\ n \in Nat /\ start \in Nat /\ n = start + m
  BY <1>1, LenProperties DEF HeadInvariant, IsHead, ExpectedStart, ValidTail, RetainsHistory
<1>3. /\ u \in Seq(S) /\ Len(u) = l + m
      /\ \A i \in 1 .. l + m : u[i] = IF i <= l THEN o[i] ELSE t[i - l]
  BY <1>1, ConcatProperties
<1>4. /\ \A i \in 1..m : t[i] \in Retained(h) /\ t[i].sequence = start + i - 1
      /\ \A i \in 1..l : o[i] \in Retained(h) /\ o[i].sequence = start - l + i - 1
  BY <1>1, LenProperties DEF HeadInvariant, ValidTail, ValidOutcomes, Contiguous, Retained, Range
<1>5. l <= start
  BY <1>2, OptionsAssumption DEF HeadInvariant, ValidOutcomes, RequiredOutcomes
<1>6. \A c \in Retained(h) : c = all[c.sequence + 1]
  BY DEF RetainsHistory
<1> HIDE DEF t, o, u, S, start, l, m, n
<1>7. ASSUME NEW i \in 1 .. l + m PROVE u[i] = all[start - l + i]
  <2>1. CASE i <= l
    <3>1. i \in 1..l /\ u[i] = o[i]
      BY <1>2, <1>3, <2>1
    <3>2. u[i].sequence = start - l + i - 1 /\ u[i] \in Retained(h)
      BY <1>4, <3>1
    <3> QED BY <1>2, <1>6, <3>2
  <2>2. CASE i > l
    <3>1. i - l \in 1..m /\ u[i] = t[i - l]
      BY <1>2, <1>3, <2>2
    <3>2. u[i].sequence = start + (i - l) - 1 /\ u[i] \in Retained(h)
      BY <1>4, <3>1
    <3> QED BY <1>2, <1>6, <3>1, <3>2
  <2> QED BY <1>2, <2>1, <2>2
<1> DEFINE first == n - (l + m) + 1
           b == SubSeq(all, first, n)
<1>8. l + m \in Nat /\ l + m <= n /\ first = start - l + 1 /\ first \in Int /\ first >= 1
  BY <1>2, <1>5
<1>9. \A i \in first .. n : i \in 1..n /\ all[i] \in S
  BY <1>1, <1>2, <1>8, ElementOfSeq DEF n
<1>10. /\ b \in Seq(S)
       /\ Len(b) = IF first <= n THEN n - first + 1 ELSE 0
       /\ \A i \in 1 .. n - first + 1 : b[i] = all[first + i - 1]
  BY <1>2, <1>8, <1>9, SubSeqProperties
<1>11. n - first + 1 = l + m /\ Len(b) = l + m
  BY <1>2, <1>8, <1>10
<1>12. \A i \in 1 .. l + m : u[i] = b[i]
  BY <1>2, <1>7, <1>8, <1>10, <1>11
<1>13. u = b
  BY <1>3, <1>10, <1>11, <1>12, SeqEqual
<1> QED BY <1>3, <1>8, <1>13 DEF u, o, t, n

(* What the proposals of one kind of client leave alone.                   *)
LEMMA CandidateKeeps ==
  ASSUME NEW h, HeadInvariant(h), NEW commit, NEW next, next = CandidateHead(h, commit)
  PROVE  /\ next.checkpoint = h.checkpoint /\ next.retention_ids = h.retention_ids
         /\ next.active_plan = h.active_plan
BY DEF CandidateHead, HeadInvariant, IsHead

(* A checkpoint keeps the rest of the tail, the retentions and the fence.  *)
LEMMA CoverKeeps ==
  ASSUME NEW h, HeadInvariant(h), NEW next, CoverTail(h, next)
  PROVE  /\ next.retention_ids = h.retention_ids /\ next.active_plan = h.active_plan
         /\ next.next_sequence = h.next_sequence /\ Range(next.tail) \subseteq Range(h.tail)
<1>1. PICK through \in Range(h.tail) : next = CheckpointHead(h, through, next.checkpoint.object)
  BY DEF CoverTail
<1>2. /\ next.retention_ids = h.retention_ids /\ next.active_plan = h.active_plan
      /\ next.next_sequence = h.next_sequence
  BY <1>1 DEF CheckpointHead, HeadInvariant, IsHead
<1>3. next.next_sequence # h.next_sequence + 1
  BY <1>2, HeadNumbers
<1> QED BY <1>2, <1>3, LegalStepRetains DEF LegalStep

(* A retention change keeps the commits, the checkpoint and the fence.     *)
LEMMA RetentionKeeps ==
  ASSUME NEW h, HeadInvariant(h), NEW change, NEW next, next = RetentionHead(h, change)
  PROVE  /\ next.checkpoint = h.checkpoint /\ next.active_plan = h.active_plan
         /\ next.next_sequence = h.next_sequence /\ next.tail = h.tail
BY DEF RetentionHead, HeadInvariant, IsHead

(* A fence keeps the commits, the checkpoint and the retentions.           *)
LEMMA FenceKeeps ==
  ASSUME NEW h, HeadInvariant(h), NEW next, InstallFence(h, next) \/ ClearFence(h, next)
  PROVE  /\ next.checkpoint = h.checkpoint /\ next.retention_ids = h.retention_ids
         /\ next.next_sequence = h.next_sequence /\ next.tail = h.tail
<1>1. PICK plan : next = FenceHead(h, plan) \/ next = UnfencedHead(h)
  BY DEF InstallFence, ClearFence
<1> QED BY <1>1 DEF FenceHead, UnfencedHead, HeadInvariant, IsHead

=============================================================================

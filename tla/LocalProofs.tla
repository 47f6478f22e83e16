---------------------------- MODULE LocalProofs -----------------------------
(***************************************************************************)
(* Two parts that need no store.  The capacity search of a byte stream,    *)
(* for all options: it ends with the largest number of references that fit *)
(* a node, and no stream within that capacity can fail to finish for its   *)
(* size.  And the marks of verified tails, for any number of handles,      *)
(* commits and views: a mark is only ever carried by a View whose tail its *)
(* handle knows, and no checkpoint covers a commit that its publisher does *)
(* not know.                                                               *)
(***************************************************************************)
EXTENDS StreamCapacity, TailProofs, TLAPS

(* The loop's invariant: what the search has accepted fits, and nothing    *)
(* above what it still considers does.                                     *)
Bracketed ==
  /\ maxRefs \in Nat /\ maxBytes \in Nat
  /\ low \in Nat /\ high \in Nat /\ low <= high
  /\ Fits(low)
  /\ \A count \in Nat : high < count => ~Fits(count)

(* A longer value never has a shorter head (cbor_head_len).                *)
LEMMA HeadLenMonotone ==
  ASSUME NEW a \in Nat, NEW b \in Nat, a <= b
  PROVE  /\ CborHeadLen(a) \in Nat \ {0}
         /\ CborHeadLen(a) <= CborHeadLen(b)
  BY DEF CborHeadLen

(* Multiplication keeps order; the provers need it by name.                *)
LEMMA TimesMonotone ==
  ASSUME NEW a \in Nat, NEW b \in Nat, NEW c \in Nat, a <= b
  PROVE  a * c \in Nat /\ a * c <= b * c
  BY SMTT(30)

(* node_size is more than the length of the children.                      *)
LEMMA NodeLenType ==
  ASSUME NEW p \in Nat, NEW m \in Nat, NEW x \in Nat
  PROVE  /\ NodeLen(p, m, x) \in Nat
         /\ x < NodeLen(p, m, x)
<1>1. InnerLen(p, m, x) \in Nat /\ x < InnerLen(p, m, x)
  BY HeadLenMonotone DEF InnerLen
<1>2. QED
  BY <1>1, HeadLenMonotone DEF NodeLen

(* node_size grows with the number of children and their total length.     *)
LEMMA NodeLenMonotone ==
  ASSUME NEW p \in Nat, NEW m \in Nat, NEW n \in Nat, NEW x \in Nat, NEW y \in Nat,
         m <= n, x <= y
  PROVE  NodeLen(p, m, x) <= NodeLen(p, n, y)
<1>1. InnerLen(p, m, x) \in Nat /\ InnerLen(p, n, y) \in Nat
        /\ InnerLen(p, m, x) <= InnerLen(p, n, y)
  BY HeadLenMonotone DEF InnerLen
<1>2. QED
  BY <1>1, HeadLenMonotone DEF NodeLen

(* A reference takes at least its 32-byte digest.                          *)
LEMMA ReferenceLenType ==
  ASSUME NEW a \in Nat, NEW b \in Nat, a <= b
  PROVE  /\ ReferenceLen(a, 1) \in Nat
         /\ 32 <= ReferenceLen(a, 1)
         /\ ReferenceLen(a, 1) <= ReferenceLen(b, 1)
  BY HeadLenMonotone DEF ReferenceLen

(* A full chunk is the smaller of the object limit and the largest chunk.  *)
LEMMA ChunkBytesType ==
  ASSUME maxBytes \in Nat
  PROVE  ChunkBytes \in Nat
  BY CapacityAssumption DEF ChunkBytes, Least

(* If some number of chunks fits a node, every smaller number does.        *)
LEMMA FitsMonotone ==
  ASSUME maxRefs \in Nat, maxBytes \in Nat,
         NEW m \in Nat, NEW n \in Nat, m <= n, Fits(n)
  PROVE  Fits(m)
<1> DEFINE c == ReferenceLen(ChunkBytes, 1)
<1>1. c \in Nat
  BY ChunkBytesType, ReferenceLenType
<1>2. m * c \in Nat /\ n * c \in Nat /\ m * c <= n * c
  BY <1>1, TimesMonotone
<1> HIDE DEF c
<1>3. NodeLen(DescriptorBytes, m, m * c) \in Nat
        /\ NodeLen(DescriptorBytes, n, n * c) \in Nat
        /\ NodeLen(DescriptorBytes, m, m * c) <= NodeLen(DescriptorBytes, n, n * c)
  <2> DEFINE x == m * c
             y == n * c
  <2>1. DescriptorBytes \in Nat /\ x \in Nat /\ y \in Nat /\ x <= y
    BY <1>2 DEF DescriptorBytes
  <2> HIDE DEF x, y
  <2>2. NodeLen(DescriptorBytes, m, x) \in Nat
          /\ NodeLen(DescriptorBytes, m, x) <= NodeLen(DescriptorBytes, n, y)
    BY <2>1, NodeLenType, NodeLenMonotone
  <2>3. NodeLen(DescriptorBytes, n, y) \in Nat
    BY <2>1, NodeLenType
  <2>4. QED
    BY <2>2, <2>3 DEF x, y
<1>4. n <= maxRefs /\ NodeLen(DescriptorBytes, n, n * c) <= maxBytes
  BY DEF Fits, c
<1>5. m <= maxRefs /\ NodeLen(DescriptorBytes, m, m * c) <= maxBytes
  BY <1>3, <1>4
<1>6. QED
  BY <1>5 DEF Fits, c

(* The search starts above everything that fits.                           *)
LEMMA NothingAboveStart ==
  ASSUME maxRefs \in Nat, maxBytes \in Nat,
         NEW n \in Nat, Least(maxRefs, maxBytes \div 32) < n
  PROVE  ~Fits(n)
<1> DEFINE c == ReferenceLen(ChunkBytes, 1)
<1>1. c \in Nat /\ 32 <= c
  BY ChunkBytesType, ReferenceLenType
<1>2. n * 32 \in Nat /\ n * c \in Nat /\ n * 32 <= n * c
  <2>1. 32 * n <= c * n /\ c * n \in Nat
    BY <1>1, TimesMonotone
  <2>2. QED
    BY <1>1, <2>1
<1> HIDE DEF c
<1>3. n * c < NodeLen(DescriptorBytes, n, n * c)
        /\ NodeLen(DescriptorBytes, n, n * c) \in Nat
  <2> DEFINE x == n * c
  <2>1. DescriptorBytes \in Nat /\ x \in Nat
    BY <1>2 DEF DescriptorBytes
  <2> HIDE DEF x
  <2>2. x < NodeLen(DescriptorBytes, n, x) /\ NodeLen(DescriptorBytes, n, x) \in Nat
    BY <2>1, NodeLenType
  <2>3. QED
    BY <2>2 DEF x
<1>4. maxRefs < n \/ maxBytes \div 32 < n
  BY DEF Least
<1>5. maxRefs < n \/ maxBytes < n * 32
  BY <1>4
<1>6. ~(n <= maxRefs /\ NodeLen(DescriptorBytes, n, n * c) <= maxBytes)
  BY <1>2, <1>3, <1>5
<1>7. QED
  BY <1>6 DEF Fits, c

(* Each iteration keeps the bracket around the largest number that fits.   *)
THEOREM SearchBracketed == CapacitySpec => []Bracketed
<1>1. CapacityInit => Bracketed
  <2> SUFFICES ASSUME CapacityInit PROVE Bracketed
    OBVIOUS
  <2>1. maxRefs \in Nat /\ maxBytes \in Nat
    BY CapacityAssumption DEF CapacityInit
  <2>2. low = 0 /\ high = Least(maxRefs, maxBytes \div 32) /\ high \in Nat
    BY <2>1 DEF CapacityInit, Least
  <2>3. \A count \in Nat : high < count => ~Fits(count)
    BY <2>1, <2>2, NothingAboveStart
  <2>4. Fits(low)
    BY <2>2 DEF CapacityInit
  <2>5. QED
    BY <2>1, <2>2, <2>3, <2>4 DEF Bracketed
<1>2. Bracketed /\ [Search]_capacityVars => Bracketed'
  <2> SUFFICES ASSUME Bracketed, [Search]_capacityVars PROVE Bracketed'
    OBVIOUS
  <2>1. CASE Search
    <3> DEFINE mid == low + (high - low + 1) \div 2
    <3>1. mid \in Nat /\ low < mid /\ mid <= high
      BY <2>1 DEF Search, Bracketed
    <3>2. \A n \in Nat : Fits(n)' <=> Fits(n)
      BY <2>1 DEF Search, Fits, ChunkBytes
    <3>3. maxRefs' = maxRefs /\ maxBytes' = maxBytes
      BY <2>1 DEF Search
    <3>4. CASE Fits(mid)
      <4>1. low' = mid /\ high' = high
        BY <2>1, <3>4 DEF Search
      <4>2. Fits(low)' /\ \A count \in Nat : high' < count => ~Fits(count)'
        BY <3>1, <3>2, <3>4, <4>1 DEF Bracketed, Fits, ChunkBytes
      <4>3. QED
        BY <3>1, <3>3, <4>1, <4>2 DEF Bracketed
    <3>5. CASE ~Fits(mid)
      <4>1. low' = low /\ high' = mid - 1
        BY <2>1, <3>5 DEF Search
      <4>2. \A count \in Nat : mid <= count => ~Fits(count)
        BY <3>1, <3>5, FitsMonotone DEF Bracketed
      <4>3. \A count \in Nat : high' < count => ~Fits(count)'
        BY <3>1, <3>2, <4>1, <4>2
      <4>4. Fits(low)'
        BY <3>3, <4>1 DEF Bracketed, Fits, ChunkBytes
      <4>5. QED
        BY <3>1, <3>3, <4>1, <4>3, <4>4 DEF Bracketed
    <3>6. QED
      BY <3>4, <3>5
  <2>2. CASE UNCHANGED capacityVars
    BY <2>2 DEF capacityVars, Bracketed, Fits, ChunkBytes
  <2>3. QED
    BY <2>1, <2>2
<1>3. QED
  BY <1>1, <1>2, PTL DEF CapacitySpec

(* A byte stream may use every reference that fits its node and not one    *)
(* more, under all options (Log::byte_writer).                             *)
THEOREM CapacityMaximal == CapacitySpec => []CapacityIsMaximal
<1>1. Bracketed => CapacityIsMaximal
  <2> SUFFICES ASSUME Bracketed, low = high, NEW count \in 0 .. maxBytes
               PROVE  Fits(count) <=> count <= low
    BY DEF CapacityIsMaximal
  <2>1. count <= low => Fits(count)
    BY FitsMonotone DEF Bracketed
  <2>2. low < count => ~Fits(count)
    BY DEF Bracketed
  <2>3. QED
    BY <2>1, <2>2 DEF Bracketed
<1>2. QED
  BY <1>1, SearchBracketed, PTL

(* ByteWriter::finish never meets a limit once its writes were accepted,   *)
(* under all options.                                                      *)
THEOREM AcceptedFit == CapacitySpec => []AcceptedStreamsFit
<1>1. Bracketed => AcceptedStreamsFit
  <2> SUFFICES ASSUME Bracketed, low = high, NEW count \in 1 .. low,
                      NEW last \in 1 .. ChunkBytes
               PROVE  NodeLen(DescriptorBytes, count,
                        (count - 1) * ReferenceLen(ChunkBytes, 1) + ReferenceLen(last, 1))
                          <= maxBytes
    BY DEF AcceptedStreamsFit
  <2> DEFINE c == ReferenceLen(ChunkBytes, 1)
             r == ReferenceLen(last, 1)
             x == (count - 1) * c + r
             y == count * c
  <2>1. c \in Nat /\ r \in Nat /\ r <= c
    BY ChunkBytesType, ReferenceLenType DEF Bracketed
  <2>2. count \in Nat /\ count - 1 \in Nat /\ count <= low
    BY DEF Bracketed
  <2> HIDE DEF c, r
  <2>3. (count - 1) * c \in Nat /\ y = (count - 1) * c + c
    BY <2>1, <2>2, TimesMonotone
  <2>4. DescriptorBytes \in Nat /\ x \in Nat /\ y \in Nat /\ x <= y
    BY <2>1, <2>3 DEF DescriptorBytes
  <2> HIDE DEF x, y
  <2>5. NodeLen(DescriptorBytes, count, x) \in Nat
          /\ NodeLen(DescriptorBytes, count, x) <= NodeLen(DescriptorBytes, count, y)
    <3>1. count <= count
      BY <2>2
    <3>2. QED
      BY <2>2, <2>4, <3>1, NodeLenType, NodeLenMonotone
  <2>6. NodeLen(DescriptorBytes, count, y) \in Nat
    BY <2>2, <2>4, NodeLenType
  <2>7. Fits(count)
    BY <2>2, FitsMonotone DEF Bracketed
  <2>8. NodeLen(DescriptorBytes, count, y) <= maxBytes
    BY <2>7 DEF Fits, y, c
  <2>9. NodeLen(DescriptorBytes, count, x) <= maxBytes
    BY <2>5, <2>6, <2>8 DEF Bracketed
  <2>10. QED
    BY <2>9 DEF x, c, r
<1>2. QED
  BY <1>1, SearchBracketed, PTL

-----------------------------------------------------------------------------
Body == [author : Handles \cup {None}, sound : BOOLEAN]
View == [base : Nat, next : Nat, verified : Handles \cup {None}]

(* The shapes of the state: views and the head stay within the commits     *)
(* that exist, and a handle works with a View that was created.            *)
Shape ==
  /\ head \in [base : Nat, next : Nat] /\ head.next = Len(bodies)
  /\ bodies \in Seq(Body)
  /\ views \in Seq(View)
  /\ \A v \in 1 .. Len(views) : views[v].next <= Len(bodies)
  /\ held \in [Handles -> (1 .. Len(views)) \cup {None}]
  /\ read \in [Handles -> SUBSET Nat]
  /\ \A p \in covered : p[1] \in Handles /\ p[2] \in 1 .. Len(bodies)

TailInv == Shape /\ MarksAreEarned /\ CheckpointsCoverKnown

(* What handles know of the commits that exist is not lost by a step.      *)
Keeps ==
  /\ Len(bodies) <= Len(bodies')
  /\ \A i \in 1 .. Len(bodies) : bodies'[i] = bodies[i]
  /\ \A h \in Handles : read[h] \subseteq read'[h]

-----------------------------------------------------------------------------
(* The initial state has no view and no checkpoint, so nothing is claimed. *)
LEMMA TailInit == Init => TailInv
BY DEF Init, TailInv, Shape, MarksAreEarned, CheckpointsCoverKnown, Body, View

(* Authenticated reads and authorship are permanent: no step of Next       *)
(* rewrites a commit or takes a read back.                                 *)
LEMMA KnowledgeIsKept == Shape /\ Next => Keeps
<1> SUFFICES ASSUME Shape, Next PROVE Keeps
  OBVIOUS
<1>1. CASE CommitElsewhere
  BY <1>1 DEF CommitElsewhere, Shape, Keeps, Body
<1>2. ASSUME NEW h \in Handles, Load(h) PROVE Keeps
  BY <1>2 DEF Load, Shape, Keeps
<1>3. ASSUME NEW h \in Handles, NEW other \in Handles, Share(h, other) PROVE Keeps
  BY <1>3 DEF Share, Shape, Keeps
<1>4. ASSUME NEW h \in Handles, ReadTail(h) PROVE Keeps
  BY <1>4 DEF ReadTail, Shape, Keeps
<1>5. ASSUME NEW h \in Handles, Commit(h) PROVE Keeps
  BY <1>5 DEF Commit, Shape, Keeps, Body
<1>6. ASSUME NEW h \in Handles, NEW through, NEW answered,
             Checkpoint(h, through, answered)
      PROVE  Keeps
  BY <1>6 DEF Checkpoint, VerifyTail, Shape, Keeps
<1> QED
  BY <1>1, <1>2, <1>3, <1>4, <1>5, <1>6 DEF Next

(* A View is unmarked, or its tail is known from these commits and reads.  *)
Earned(view, b, r) ==
  view.verified # None =>
    \A i \in TailOf(view) :
      b[i].sound /\ (i \in r[view.verified] \/ b[i].author = view.verified)

(* MarksAreEarned, one View at a time.                                     *)
LEMMA MarksAreEarnedByView ==
  /\ MarksAreEarned <=> \A v \in 1 .. Len(views) : Earned(views[v], bodies, read)
  /\ MarksAreEarned' <=> \A v \in 1 .. Len(views') : Earned(views'[v], bodies', read')
BY DEF MarksAreEarned, Earned, Knows, TailOf

(* A View whose tail was known stays a View whose tail is known.           *)
LEMMA EarnedIsKept ==
  ASSUME Shape, Keeps, NEW view \in View, view.next <= Len(bodies),
         Earned(view, bodies, read)
  PROVE  Earned(view, bodies', read')
<1> SUFFICES ASSUME view.verified # None, NEW i \in TailOf(view)
             PROVE  /\ bodies'[i].sound
                    /\ i \in read'[view.verified] \/ bodies'[i].author = view.verified
  BY DEF Earned
<1>1. i \in 1 .. Len(bodies)
  BY DEF TailOf, View
<1>2. bodies[i].sound /\ (i \in read[view.verified] \/ bodies[i].author = view.verified)
  BY DEF Earned
<1>3. view.verified \in Handles
  BY DEF View
<1> QED
  BY <1>1, <1>2, <1>3 DEF Keeps

(* A checkpoint's coverage, like a mark, rests on knowledge that is kept.  *)
LEMMA CoverageIsKept ==
  ASSUME Shape, Keeps, CheckpointsCoverKnown, NEW p \in covered
  PROVE  (bodies[p[2]].sound /\ Knows(p[1], p[2]))'
<1>1. p[1] \in Handles /\ p[2] \in 1 .. Len(bodies)
  BY DEF Shape
<1> QED
  BY <1>1 DEF Keeps, Knows, CheckpointsCoverKnown

(* Creating a View marked by a handle that knows its tail keeps all marks  *)
(* earned; `known` is the sequence of Views it is appended to.             *)
LEMMA NewViewIsEarned ==
  ASSUME NEW h \in Handles, NEW state, NEW verified \in BOOLEAN,
         NEW known \in Seq(View), NewView(h, known, state, verified),
         \A v \in 1 .. Len(known) : Earned(known[v], bodies', read'),
         verified => \A i \in (state.base + 1) .. state.next :
                       bodies'[i].sound /\ (i \in read'[h] \/ bodies'[i].author = h)
  PROVE  MarksAreEarned'
<1> DEFINE new == [base |-> state.base, next |-> state.next,
                   verified |-> IF verified THEN h ELSE None]
<1>1. views' = Append(known, new)
  BY DEF NewView
<1>2. Earned(new, bodies', read')
  BY TailProofsAssumption DEF Earned, TailOf
<1> HIDE DEF new
<1>3. /\ Len(views') = Len(known) + 1 /\ Len(known) \in Nat
      /\ views'[Len(known) + 1] = new
      /\ \A v \in 1 .. Len(known) : views'[v] = known[v]
  BY <1>1
<1>4. ASSUME NEW v \in 1 .. Len(views') PROVE Earned(views'[v], bodies', read')
  BY <1>2, <1>3
<1> QED
  BY <1>4, MarksAreEarnedByView

(* Every View that exists is still earned after a step.                    *)
LEMMA KnownViewsAreEarned ==
  ASSUME Shape, Keeps, MarksAreEarned
  PROVE  \A v \in 1 .. Len(views) : Earned(views[v], bodies', read')
<1> SUFFICES ASSUME NEW v \in 1 .. Len(views) PROVE Earned(views[v], bodies', read')
  OBVIOUS
<1>1. views[v] \in View /\ views[v].next <= Len(bodies)
  BY DEF Shape
<1>2. Earned(views[v], bodies, read)
  BY MarksAreEarnedByView
<1> QED
  BY <1>1, <1>2, EarnedIsKept

-----------------------------------------------------------------------------
(* The tail of a View consists of commits that exist.                      *)
LEMMA ViewFacts ==
  ASSUME Shape, NEW v \in 1 .. Len(views)
  PROVE  /\ views[v] \in View /\ views[v].base \in Nat /\ views[v].next \in Nat
         /\ Len(bodies) \in Nat /\ views[v].next <= Len(bodies)
         /\ TailOf(views[v]) \subseteq 1 .. Len(bodies)
<1>1. views[v] \in View /\ views[v].next <= Len(bodies) /\ Len(bodies) \in Nat
  BY DEF Shape
<1>2. views[v].base \in Nat /\ views[v].next \in Nat
  BY <1>1 DEF View
<1> QED
  BY <1>1, <1>2 DEF TailOf

(* A new View after well-formed ones, of a head within the commits.        *)
LEMMA NewViewShape ==
  ASSUME NEW h \in Handles, NEW state \in [base : Nat, next : Nat],
         NEW verified \in BOOLEAN, NEW known \in Seq(View),
         NEW bound \in Nat, state.next <= bound,
         \A v \in 1 .. Len(known) : known[v].next <= bound,
         held \in [Handles -> (1 .. Len(known)) \cup {None}],
         NewView(h, known, state, verified)
  PROVE  /\ views' \in Seq(View)
         /\ \A v \in 1 .. Len(views') : views'[v].next <= bound
         /\ held' \in [Handles -> (1 .. Len(views')) \cup {None}]
<1> DEFINE new == [base |-> state.base, next |-> state.next,
                   verified |-> IF verified THEN h ELSE None]
<1>1. views' = Append(known, new) /\ held' = [held EXCEPT ![h] = Len(known) + 1]
  BY DEF NewView
<1>2. new \in View /\ new.next <= bound
  BY DEF View
<1> HIDE DEF new
<1>3. /\ Len(views') = Len(known) + 1 /\ Len(known) \in Nat
      /\ views'[Len(known) + 1] = new
      /\ \A v \in 1 .. Len(known) : views'[v] = known[v]
      /\ views' \in Seq(View)
  BY <1>1, <1>2
<1> QED
  BY <1>1, <1>2, <1>3

(* Marking a View changes neither its place nor its tail.                  *)
LEMMA MarkedShape ==
  ASSUME Shape, NEW h \in Handles, NEW v \in 1 .. Len(views)
  PROVE  LET marked == [views EXCEPT ![v] = Remembered(h, @)] IN
         /\ marked \in Seq(View) /\ Len(marked) = Len(views)
         /\ \A u \in 1 .. Len(views) : marked[u].next <= Len(bodies)
         /\ \A u \in 1 .. Len(views) : u # v => marked[u] = views[u]
         /\ marked[v] = Remembered(h, views[v])
<1> DEFINE marked == [views EXCEPT ![v] = Remembered(h, @)]
<1>1. views \in Seq(View) /\ \A u \in 1 .. Len(views) : views[u] \in View
  BY DEF Shape
<1>2. Remembered(h, views[v]) \in View
      /\ Remembered(h, views[v]).next = views[v].next
  BY <1>1 DEF Remembered, View
<1>3. marked \in Seq(View) /\ Len(marked) = Len(views)
      /\ \A u \in 1 .. Len(views) :
           marked[u] = IF u = v THEN Remembered(h, views[v]) ELSE views[u]
  BY <1>1, <1>2
<1> QED
  BY <1>2, <1>3 DEF Shape

(* One more commit after the existing ones.                                *)
LEMMA AppendedShape ==
  ASSUME Shape, NEW body \in Body, bodies' = Append(bodies, body),
         head' = [head EXCEPT !.next = @ + 1]
  PROVE  /\ head' \in [base : Nat, next : Nat] /\ head'.next = Len(bodies')
         /\ bodies' \in Seq(Body) /\ Len(bodies') = Len(bodies) + 1
         /\ Len(bodies) \in Nat
<1>1. bodies' \in Seq(Body) /\ Len(bodies') = Len(bodies) + 1 /\ Len(bodies) \in Nat
  BY DEF Shape
<1>2. head' = [base |-> head.base, next |-> head.next + 1]
  BY DEF Shape
<1> QED
  BY <1>1, <1>2 DEF Shape

(* The shapes are kept.                                                    *)
LEMMA ShapeIsKept == Shape /\ Next => Shape'
<1> SUFFICES ASSUME Shape, Next PROVE Shape'
  OBVIOUS
<1>1. CASE CommitElsewhere
  <2>1. PICK body \in Body : bodies' = Append(bodies, body)
    BY <1>1 DEF CommitElsewhere, Body
  <2>2. head' = [head EXCEPT !.next = @ + 1] /\ UNCHANGED <<views, held, read, covered>>
    BY <1>1 DEF CommitElsewhere
  <2>3. /\ head' \in [base : Nat, next : Nat] /\ head'.next = Len(bodies')
        /\ bodies' \in Seq(Body) /\ Len(bodies') = Len(bodies) + 1
        /\ Len(bodies) \in Nat
    BY <2>1, <2>2, AppendedShape
  <2>4. \A v \in 1 .. Len(views) : views[v].next \in Nat
    BY ViewFacts
  <2> QED
    BY <2>2, <2>3, <2>4 DEF Shape
<1>2. ASSUME NEW h \in Handles, Load(h) PROVE Shape'
  BY <1>2 DEF Load, NewView, Shape, View
<1>3. ASSUME NEW h \in Handles, NEW other \in Handles, Share(h, other) PROVE Shape'
  BY <1>3 DEF Share, Shape
<1>4. ASSUME NEW h \in Handles, ReadTail(h) PROVE Shape'
  <2> DEFINE v == held[h]
  <2>1. v \in 1 .. Len(views) /\ views' = [views EXCEPT ![v] = Remembered(h, @)]
        /\ UNCHANGED <<head, bodies, held, covered>>
    BY <1>4 DEF ReadTail, Shape
  <2>2. views' \in Seq(View) /\ Len(views') = Len(views)
        /\ \A u \in 1 .. Len(views') : views'[u].next <= Len(bodies)
    BY <2>1, MarkedShape
  <2>3. TailOf(views[v]) \subseteq Nat
    <3>1. TailOf(views[v]) \subseteq 1 .. Len(bodies) /\ Len(bodies) \in Nat
      BY <2>1, ViewFacts
    <3> QED
      BY <3>1
  <2>4. read' \in [Handles -> SUBSET Nat]
    BY <1>4, <2>3 DEF ReadTail, Shape
  <2> QED
    BY <2>1, <2>2, <2>4 DEF Shape
<1>5. ASSUME NEW h \in Handles, Commit(h) PROVE Shape'
  <2> DEFINE verified == views[held[h]].verified = h
             body == [author |-> h, sound |-> TRUE]
  <2>1. /\ bodies' = Append(bodies, body) /\ head' = [head EXCEPT !.next = @ + 1]
        /\ NewView(h, views, head', verified) /\ UNCHANGED <<read, covered>>
    BY <1>5 DEF Commit
  <2>2. body \in Body
    BY DEF Body
  <2>3. /\ head' \in [base : Nat, next : Nat] /\ head'.next = Len(bodies')
        /\ bodies' \in Seq(Body) /\ Len(bodies') = Len(bodies) + 1
        /\ Len(bodies) \in Nat
    BY <2>1, <2>2, AppendedShape
  <2>4. \A u \in 1 .. Len(views) : views[u].next <= Len(bodies')
    BY <2>3, ViewFacts
  <2>5. verified \in BOOLEAN /\ head'.next <= Len(bodies') /\ Len(bodies') \in Nat
    BY <2>3
  <2> HIDE DEF verified, body
  <2>6. /\ views' \in Seq(View)
        /\ \A u \in 1 .. Len(views') : views'[u].next <= Len(bodies')
        /\ held' \in [Handles -> (1 .. Len(views')) \cup {None}]
    BY <2>1, <2>3, <2>4, <2>5, NewViewShape DEF Shape
  <2> QED
    BY <2>1, <2>3, <2>6 DEF Shape
<1>6. ASSUME NEW h \in Handles, NEW through, NEW answered \in BOOLEAN,
             Checkpoint(h, through, answered)
      PROVE  Shape'
  <2> DEFINE v == held[h]
             marked == [views EXCEPT ![v] = Remembered(h, @)]
  <2>1. v \in 1 .. Len(views) /\ through \in TailOf(views[v])
        /\ head' = [head EXCEPT !.base = through] /\ UNCHANGED bodies
        /\ covered' = covered \cup {<<h, i>> : i \in (views[v].base + 1) .. through}
    BY <1>6 DEF Checkpoint, Shape
  <2>2. through \in Nat /\ views[v].base \in Nat /\ TailOf(views[v]) \subseteq 1 .. Len(bodies)
        /\ through <= Len(bodies)
    <3>1. views[v].base \in Nat /\ views[v].next \in Nat /\ Len(bodies) \in Nat
          /\ views[v].next <= Len(bodies) /\ TailOf(views[v]) \subseteq 1 .. Len(bodies)
      BY <2>1, ViewFacts
    <3> QED
      BY <2>1, <3>1 DEF TailOf
  <2>3. head' = [base |-> through, next |-> head.next]
    BY <2>1 DEF Shape
  <2>4. head' \in [base : Nat, next : Nat] /\ head'.next = Len(bodies) /\ Len(bodies) \in Nat
    BY <2>2, <2>3 DEF Shape
  <2>5. \A p \in covered' : p[1] \in Handles /\ p[2] \in 1 .. Len(bodies)
    BY <2>1, <2>2 DEF Shape
  <2>6. read' \in [Handles -> SUBSET Nat]
    <3>1. UNCHANGED read \/ read' = [read EXCEPT ![h] = @ \cup TailOf(views[v])]
      BY <1>6 DEF Checkpoint, VerifyTail
    <3>2. TailOf(views[v]) \subseteq Nat
      BY <2>2
    <3> QED
      BY <3>1, <3>2 DEF Shape
  <2>7. marked \in Seq(View) /\ Len(marked) = Len(views)
        /\ \A u \in 1 .. Len(marked) : marked[u].next <= Len(bodies)
    BY <2>1, MarkedShape
  <2>8. Inherits(views[v]) \in BOOLEAN
    BY DEF Inherits
  <2>9. /\ views' \in Seq(View)
        /\ \A u \in 1 .. Len(views') : views'[u].next <= Len(bodies)
        /\ held' \in [Handles -> (1 .. Len(views')) \cup {None}]
    <3>1. CASE answered
      <4>1. NewView(h, marked, head', Inherits(views[v]))
        BY <1>6, <3>1 DEF Checkpoint
      <4>2. held \in [Handles -> (1 .. Len(marked)) \cup {None}]
        BY <2>7 DEF Shape
      <4> HIDE DEF marked, v
      <4> QED
        BY <2>4, <2>7, <2>8, <4>1, <4>2, NewViewShape
    <3>2. CASE ~answered
      BY <1>6, <3>2, <2>7 DEF Checkpoint, Shape
    <3> QED
      BY <3>1, <3>2
  <2> QED
    BY <2>1, <2>4, <2>5, <2>6, <2>9 DEF Shape
<1> QED
  BY <1>1, <1>2, <1>3, <1>4, <1>5, <1>6 DEF Next

-----------------------------------------------------------------------------
(* The tail that a checkpoint is taken over is known to its publisher.     *)
LEMMA CheckpointedTailIsKnown ==
  ASSUME Shape, NEW h \in Handles, NEW through, NEW answered,
         Checkpoint(h, through, answered), held[h] \in 1 .. Len(views),
         \A u \in 1 .. Len(views) : Earned(views[u], bodies', read')
  PROVE  \A i \in TailOf(views[held[h]]) :
           bodies'[i].sound /\ (i \in read'[h] \/ bodies'[i].author = h)
<1> DEFINE view == views[held[h]]
<1>1. VerifyTail(h, view) /\ UNCHANGED bodies
  BY DEF Checkpoint
<1>2. CASE view.verified = h
  <2>1. Earned(view, bodies', read')
    OBVIOUS
  <2> QED
    BY <1>2, <2>1, TailProofsAssumption DEF Earned
<1>3. CASE view.verified # h
  BY <1>1, <1>3 DEF VerifyTail, Shape
<1> QED
  BY <1>2, <1>3

(* The marks stay earned: the one place where a mark is set without a      *)
(* read (a commit, a checkpoint) hands on the mark of the View before it.  *)
LEMMA MarksAreKept == TailInv /\ Next => MarksAreEarned'
<1> SUFFICES ASSUME TailInv, Next PROVE MarksAreEarned'
  OBVIOUS
<1>0. Shape /\ MarksAreEarned /\ Keeps
  BY KnowledgeIsKept DEF TailInv
<1>k. \A u \in 1 .. Len(views) : Earned(views[u], bodies', read')
  BY <1>0, KnownViewsAreEarned
<1>s. views \in Seq(View)
  BY <1>0 DEF Shape
<1>1. CASE UNCHANGED views
  BY <1>1, <1>k, MarksAreEarnedByView
<1>2. ASSUME NEW h \in Handles, Load(h) PROVE MarksAreEarned'
  <2>1. NewView(h, views, head, FALSE)
    BY <1>2 DEF Load
  <2> QED
    BY <2>1, <1>k, <1>s, NewViewIsEarned
<1>3. ASSUME NEW h \in Handles, NEW v \in 1 .. Len(views),
             NEW u \in 1 .. Len(views),
             \A i \in TailOf(views[v]) :
               bodies'[i].sound /\ (i \in read'[h] \/ bodies'[i].author = h)
      PROVE  Earned([views EXCEPT ![v] = Remembered(h, @)][u], bodies', read')
  <2>1. CASE u # v
    BY <2>1, <1>k, <1>0, MarkedShape
  <2>2. CASE u = v
    <3>1. [views EXCEPT ![v] = Remembered(h, @)][u] = Remembered(h, views[v])
      BY <2>2, <1>0, MarkedShape
    <3>2. views[v] \in View /\ Earned(views[v], bodies', read')
      BY <1>0, <1>k, ViewFacts
    <3>3. Earned(Remembered(h, views[v]), bodies', read')
      BY <1>3, <3>2 DEF Remembered, Earned, TailOf, View
    <3> QED
      BY <3>1, <3>3
  <2> QED
    BY <2>1, <2>2
<1>4. ASSUME NEW h \in Handles, ReadTail(h) PROVE MarksAreEarned'
  <2> DEFINE v == held[h]
  <2>1. v \in 1 .. Len(views) /\ views' = [views EXCEPT ![v] = Remembered(h, @)]
    BY <1>0, <1>4 DEF ReadTail, Shape
  <2>2. \A i \in TailOf(views[v]) : bodies'[i].sound /\ i \in read'[h]
    BY <1>0, <1>4 DEF ReadTail, Shape
  <2>3. Len(views') = Len(views)
    BY <1>0, <2>1, MarkedShape
  <2> HIDE DEF v
  <2>4. \A u \in 1 .. Len(views) : Earned(views'[u], bodies', read')
    BY <1>3, <2>1, <2>2
  <2> QED
    BY <2>3, <2>4, MarksAreEarnedByView
<1>5. ASSUME NEW h \in Handles, Commit(h) PROVE MarksAreEarned'
  <2> DEFINE view == views[held[h]]
             verified == view.verified = h
  <2>1. /\ held[h] \in 1 .. Len(views)
        /\ bodies' = Append(bodies, [author |-> h, sound |-> TRUE])
        /\ head = [base |-> view.base, next |-> view.next]
        /\ head' = [head EXCEPT !.next = @ + 1]
        /\ NewView(h, views, head', verified)
    BY <1>0, <1>5 DEF Commit, Shape
  <2>2. head' = [base |-> view.base, next |-> view.next + 1] /\ view.next = Len(bodies)
        /\ view.base \in Nat /\ Len(bodies) \in Nat
    BY <1>0, <2>1 DEF Shape
  <2>3. bodies'[Len(bodies) + 1] = [author |-> h, sound |-> TRUE]
    BY <1>0, <2>1 DEF Shape
  <2>4. Earned(view, bodies', read')
    BY <1>k, <2>1
  <2>5. ASSUME verified, NEW i \in (head'.base + 1) .. head'.next
        PROVE  bodies'[i].sound /\ (i \in read'[h] \/ bodies'[i].author = h)
    <3>1. CASE i = Len(bodies) + 1
      BY <2>3, <3>1
    <3>2. CASE i # Len(bodies) + 1
      <4>1. i \in TailOf(view)
        BY <2>2, <3>2 DEF TailOf
      <4> QED
        BY <4>1, <2>4, <2>5, TailProofsAssumption DEF Earned
    <3> QED
      BY <3>1, <3>2
  <2>6. verified \in BOOLEAN
    OBVIOUS
  <2> HIDE DEF verified, view
  <2> QED
    BY <2>1, <2>5, <2>6, <1>k, <1>s, NewViewIsEarned
<1>6. ASSUME NEW h \in Handles, NEW through, NEW answered \in BOOLEAN,
             Checkpoint(h, through, answered)
      PROVE  MarksAreEarned'
  <2> DEFINE v == held[h]
             marked == [views EXCEPT ![v] = Remembered(h, @)]
  <2>1. v \in 1 .. Len(views) /\ through \in TailOf(views[v])
        /\ head' = [head EXCEPT !.base = through] /\ UNCHANGED bodies
    BY <1>0, <1>6 DEF Checkpoint, Shape
  <2>2. \A i \in TailOf(views[v]) :
          bodies'[i].sound /\ (i \in read'[h] \/ bodies'[i].author = h)
    BY <1>0, <1>6, <1>k, <2>1, CheckpointedTailIsKnown DEF TailInv
  <2>3. marked \in Seq(View) /\ Len(marked) = Len(views)
    BY <1>0, <2>1, MarkedShape
  <2>4. \A u \in 1 .. Len(marked) : Earned(marked[u], bodies', read')
    BY <1>3, <2>1, <2>2, <2>3
  <2>5. CASE answered
    <3>1. NewView(h, marked, head', Inherits(views[v]))
      BY <1>6, <2>5 DEF Checkpoint
    <3>2. head'.base = through /\ head'.next = head.next
      BY <1>0, <2>1 DEF Shape
    <3>3. Inherits(views[v]) => (head'.base + 1) .. head'.next \subseteq TailOf(views[v])
      <4>1. views[v].base \in Nat /\ views[v].next \in Nat
        BY <1>0, <2>1, ViewFacts
      <4> QED
        BY <2>1, <3>2, <4>1 DEF Inherits, TailOf
    <3>4. Inherits(views[v]) \in BOOLEAN
      BY DEF Inherits
    <3> HIDE DEF marked, v
    <3> QED
      BY <2>2, <2>3, <2>4, <3>1, <3>3, <3>4, NewViewIsEarned
  <2>6. CASE ~answered
    <3>1. views' = marked
      BY <1>6, <2>6 DEF Checkpoint
    <3> QED
      BY <2>4, <3>1, MarksAreEarnedByView
  <2> QED
    BY <2>5, <2>6
<1>7. CASE CommitElsewhere
  BY <1>1, <1>7 DEF CommitElsewhere
<1>8. ASSUME NEW h \in Handles, NEW other \in Handles, Share(h, other)
      PROVE  MarksAreEarned'
  BY <1>1, <1>8 DEF Share
<1> QED
  BY <1>2, <1>4, <1>5, <1>6, <1>7, <1>8 DEF Next

(* Checkpoints cover what their publisher knows: verify_tail has read the  *)
(* tail, or the View carries the publisher's own mark.                     *)
LEMMA CoverageStaysKnown == TailInv /\ Next => CheckpointsCoverKnown'
<1> SUFFICES ASSUME TailInv, Next, NEW p \in covered'
             PROVE  (bodies[p[2]].sound /\ Knows(p[1], p[2]))'
  BY DEF CheckpointsCoverKnown
<1>1. Shape /\ MarksAreEarned /\ CheckpointsCoverKnown /\ Keeps
  BY KnowledgeIsKept DEF TailInv
<1>2. CASE p \in covered
  BY <1>1, <1>2, CoverageIsKept
<1>3. CASE p \notin covered
  <2>1. PICK h \in Handles, through \in 1 .. MaxCommits, answered \in BOOLEAN :
          Checkpoint(h, through, answered)
    BY <1>3 DEF Next, CommitElsewhere, Load, Share, ReadTail, Commit
  <2>2. held[h] \in 1 .. Len(views) /\ through \in TailOf(views[held[h]])
        /\ covered' = covered \cup
             {<<h, i>> : i \in (views[held[h]].base + 1) .. through}
    BY <1>1, <2>1 DEF Checkpoint, Shape
  <2>3. PICK i \in (views[held[h]].base + 1) .. through : p = <<h, i>>
    BY <1>3, <2>2
  <2>4. i \in TailOf(views[held[h]])
    <3>1. views[held[h]].base \in Nat /\ views[held[h]].next \in Nat
      BY <1>1, <2>2, ViewFacts
    <3> QED
      BY <2>2, <2>3, <3>1 DEF TailOf
  <2>5. bodies'[i].sound /\ (i \in read'[h] \/ bodies'[i].author = h)
    BY <1>1, <2>1, <2>2, <2>4, KnownViewsAreEarned, CheckpointedTailIsKnown
  <2>6. p[1] = h /\ p[2] = i
    BY <2>3
  <2> QED
    BY <2>5, <2>6 DEF Knows
<1> QED
  BY <1>2, <1>3

-----------------------------------------------------------------------------
(* The invariant is inductive.                                             *)
LEMMA TailInvIsInvariant == Spec => []TailInv
<1>1. TailInv /\ [Next]_vars => TailInv'
  <2>1. TailInv /\ Next => TailInv'
    BY ShapeIsKept, MarksAreKept, CoverageStaysKnown DEF TailInv
  <2>2. TailInv /\ UNCHANGED vars => TailInv'
    BY DEF vars, TailInv, Shape, MarksAreEarned, CheckpointsCoverKnown, Knows, TailOf
  <2> QED
    BY <2>1, <2>2
<1> QED
  BY <1>1, TailInit, PTL DEF Spec

(* remember_tail, commit and publish_checkpoint never leave a mark on a    *)
(* View whose tail the marking handle does not know, for any number of     *)
(* handles, commits and Views passed between them.                         *)
THEOREM TailMarksEarned == Spec => []MarksAreEarned
<1>1. TailInv => MarksAreEarned
  BY DEF TailInv
<1> QED
  BY <1>1, TailInvIsInvariant, PTL

(* publish_checkpoint never moves a commit behind the base that its        *)
(* publisher has neither authenticated nor written.                        *)
THEOREM CoveredIsKnown == Spec => []CheckpointsCoverKnown
<1>1. TailInv => CheckpointsCoverKnown
  BY DEF TailInv
<1> QED
  BY <1>1, TailInvIsInvariant, PTL

=============================================================================

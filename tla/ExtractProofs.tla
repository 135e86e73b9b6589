--------------------------- MODULE ExtractProofs ---------------------------
(***************************************************************************)
(* Proofs about Extract and the modules it is made of, for every artifact, *)
(* every window size and every workflow.                                   *)
(***************************************************************************)
EXTENDS Extract, FiniteSetTheorems, TLAPS

----------------------------------------------------------------------------
\* Natural numbers.

LEMMA NatHasLeast ==
  ASSUME NEW S \in SUBSET Nat, S # {}
  PROVE  \E m \in S : \A k \in S : m <= k
<1> DEFINE Less == OpToRel(<, Nat)
<1>1. IsWellFoundedOn(Less, Nat)
  BY NatLessThanWellFounded
<1>2. PICK m \in S : \A k \in S : <<k, m>> \notin Less
  <2> HIDE DEF Less
  <2> QED BY <1>1, WFMin
<1>3. \A k \in S : ~(k < m)
  BY <1>2 DEF OpToRel
<1> QED BY <1>3

LEMMA MinIsLeast ==
  ASSUME NEW S \in SUBSET Nat, S # {}
  PROVE  Min(S) \in S /\ \A k \in S : Min(S) <= k
<1>1. \E m \in S : \A k \in S : m =< k
  BY NatHasLeast
<1> QED BY <1>1 DEF Min

LEMMA MinOfTwo ==
  ASSUME NEW a \in Nat, NEW b \in Nat
  PROVE  /\ Min({a, b}) \in Nat /\ Min({a, b}) <= a /\ Min({a, b}) <= b
         /\ Min({a, b}) = IF a <= b THEN a ELSE b
BY MinIsLeast

----------------------------------------------------------------------------
\* Where the chunks of a file lie.

\* g is the table of the first n offsets of chunks c.
Laid(c, n, g) == g = [k \in 1 .. n |-> IF k = 1 THEN 0 ELSE g[k - 1] + c[k - 1].size]

LEMMA LayOut ==
  ASSUME NEW c, NEW n \in Nat
  PROVE  \E g : Laid(c, n, g)
<1> DEFINE Bad == {m \in Nat : ~ \E g : Laid(c, m, g)}
<1> SUFFICES ASSUME Bad # {} PROVE FALSE
  OBVIOUS
<1>1. PICK m \in Bad : \A k \in Bad : m <= k
  BY NatHasLeast
<1>2. m # 0
  <2>1. [k \in 1 .. 0 |-> 0] = [k \in 1 .. 0 |-> IF k = 1 THEN 0 ELSE [j \in 1 .. 0 |-> 0][k - 1] + c[k - 1].size]
    OBVIOUS
  <2>2. \E g : Laid(c, 0, g)
    BY <2>1 DEF Laid
  <2> QED BY <2>2
<1>3. m - 1 \in Nat /\ m - 1 \notin Bad
  <2>1. m \in Nat /\ m > 0
    BY <1>2
  <2> QED BY <1>1, <2>1
<1>4. PICK g : Laid(c, m - 1, g)
  BY <1>3
<1> DEFINE h == [k \in 1 .. m |-> IF k < m THEN g[k]
                                  ELSE IF k = 1 THEN 0 ELSE g[k - 1] + c[k - 1].size]
<1>5. ASSUME NEW k \in 1 .. m
      PROVE  h[k] = IF k = 1 THEN 0 ELSE h[k - 1] + c[k - 1].size
  <2>0. m \in Nat
    OBVIOUS
  <2>1. k # 1 => k - 1 \in 1 .. m /\ k - 1 < m
    BY <2>0
  <2>2. k # 1 => h[k - 1] = g[k - 1]
    BY <2>1
  <2>3. CASE k < m
    <3>1. k \in 1 .. m - 1
      BY <2>0, <2>3
    <3>2. g[k] = IF k = 1 THEN 0 ELSE g[k - 1] + c[k - 1].size
      BY <1>4, <3>1 DEF Laid
    <3> QED BY <2>2, <2>3, <3>2
  <2>4. CASE ~(k < m)
    BY <2>2, <2>4
  <2> QED BY <2>3, <2>4
<1>6. Laid(c, m, h)
  <2> DEFINE e == [k \in 1 .. m |-> IF k = 1 THEN 0 ELSE h[k - 1] + c[k - 1].size]
  <2>1. DOMAIN h = 1 .. m /\ h = [k \in DOMAIN h |-> h[k]]
    OBVIOUS
  <2>2. \A k \in 1 .. m : h[k] = e[k]
    BY <1>5
  <2> HIDE DEF h
  <2>3. h = e
    BY <2>1, <2>2
  <2> QED BY <2>3 DEF Laid
<1> QED BY <1>6

LEMMA OffsetsLaid ==
  ASSUME NEW f, f.chunks \in Seq(Chunk)
  PROVE  Laid(f.chunks, Len(f.chunks) + 1, Offsets(f))
<1> DEFINE c == f.chunks
           n == Len(c) + 1
<1>0. n \in Nat
  OBVIOUS
<1>1. PICK g : Laid(c, n, g)
  <2> HIDE DEF n
  <2> QED BY <1>0, LayOut
<1>2. Offsets(f) = CHOOSE at : Laid(c, n, at)
  BY DEF Offsets, Laid
<1> QED BY <1>1, <1>2

LEMMA OffsetNext ==
  ASSUME NEW f, f.chunks \in Seq(Chunk)
  PROVE  /\ Offset(f, 1) = 0
         /\ \A k \in 1 .. Len(f.chunks) : Offset(f, k + 1) = End(f, k)
<1>1. Len(f.chunks) \in Nat
  OBVIOUS
<1>2. \A k \in 1 .. Len(f.chunks) + 1 :
        Offsets(f)[k] = IF k = 1 THEN 0 ELSE Offsets(f)[k - 1] + f.chunks[k - 1].size
  BY OffsetsLaid DEF Laid
<1>3. Offset(f, 1) = 0
  BY <1>1, <1>2 DEF Offset
<1>4. ASSUME NEW k \in 1 .. Len(f.chunks) PROVE Offset(f, k + 1) = End(f, k)
  <2>1. k + 1 \in 1 .. Len(f.chunks) + 1 /\ k + 1 # 1 /\ (k + 1) - 1 = k
    BY <1>1
  <2> QED BY <1>2, <2>1 DEF Offset, End
<1> QED BY <1>3, <1>4

\* What a file of the CDN is.
AFile(f) == /\ f.fmt \in Formats /\ f.chunks \in Seq(Chunk)
            /\ \A k \in DOMAIN f.chunks : f.chunks[k].size > 0

LEMMA FileParts ==
  ASSUME NEW f, AFile(f)
  PROVE  /\ Len(f.chunks) \in Nat /\ DOMAIN f.chunks = 1 .. Len(f.chunks)
         /\ f.chunks \in Seq(Chunk)
         /\ \A k \in 1 .. Len(f.chunks) : /\ f.chunks[k] \in Chunk
                                          /\ f.chunks[k].size \in Nat /\ f.chunks[k].size > 0
<1>1. /\ f.chunks \in Seq(Chunk) /\ Len(f.chunks) \in Nat
      /\ DOMAIN f.chunks = 1 .. Len(f.chunks)
  BY DEF AFile
<1>2. \A k \in 1 .. Len(f.chunks) : f.chunks[k] \in Chunk
  BY <1>1
<1> QED BY <1>1, <1>2 DEF AFile, Chunk

LEMMA OffsetNat ==
  ASSUME NEW f, AFile(f), NEW k \in 1 .. Len(f.chunks) + 1
  PROVE  Offset(f, k) \in Nat
<1>0. Len(f.chunks) \in Nat
  BY FileParts
<1> DEFINE Bad == {m \in Nat : m \in 1 .. Len(f.chunks) + 1 /\ Offset(f, m) \notin Nat}
<1> SUFFICES ASSUME Bad # {} PROVE FALSE
  BY <1>0
<1>1. PICK m \in Bad : \A j \in Bad : m <= j
  BY NatHasLeast
<1>2. m # 1
  BY OffsetNext, FileParts
<1>3. m - 1 \in 1 .. Len(f.chunks) /\ m - 1 \in 1 .. Len(f.chunks) + 1 /\ (m - 1) + 1 = m
  BY <1>0, <1>2
<1>4. Offset(f, m - 1) \in Nat
  BY <1>1, <1>3
<1>5. Offset(f, m) = Offset(f, m - 1) + f.chunks[m - 1].size
  BY <1>3, OffsetNext, FileParts DEF End
<1>6. f.chunks[m - 1].size \in Nat
  BY <1>3, FileParts
<1>7. Offset(f, m) \in Nat
  BY <1>4, <1>5, <1>6
<1>8. Offset(f, m) \notin Nat
  BY <1>1
<1> QED BY <1>7, <1>8

\* Chunks follow one another, and none is empty.
LEMMA OffsetGrows ==
  ASSUME NEW f, AFile(f), NEW i \in 1 .. Len(f.chunks), NEW k \in 1 .. Len(f.chunks) + 1, i < k
  PROVE  /\ Offset(f, i) \in Nat /\ End(f, i) \in Nat /\ Offset(f, k) \in Nat
         /\ Offset(f, i) < End(f, i) /\ End(f, i) <= Offset(f, k)
<1>0. /\ Len(f.chunks) \in Nat /\ f.chunks[i].size \in Nat /\ f.chunks[i].size > 0
      /\ i \in 1 .. Len(f.chunks) + 1 /\ i + 1 \in 1 .. Len(f.chunks) + 1
  BY FileParts
<1>1. Offset(f, i) \in Nat /\ Offset(f, k) \in Nat /\ Offset(f, i + 1) = End(f, i)
  BY <1>0, OffsetNat, OffsetNext, FileParts
<1>2. End(f, i) \in Nat /\ Offset(f, i) < End(f, i)
  BY <1>0, <1>1 DEF End
<1> DEFINE Bad == {m \in Nat : m \in i + 1 .. Len(f.chunks) + 1 /\ ~(End(f, i) <= Offset(f, m))}
<1>3. Bad = {}
  <2> SUFFICES ASSUME Bad # {} PROVE FALSE
    OBVIOUS
  <2>1. PICK m \in Bad : \A j \in Bad : m <= j
    BY NatHasLeast
  <2>2. m # i + 1
    BY <1>1, <1>2
  <2>3. /\ m - 1 \in 1 .. Len(f.chunks) /\ m - 1 \in i + 1 .. Len(f.chunks) + 1
        /\ m - 1 \in Nat /\ (m - 1) + 1 = m /\ m - 1 \in 1 .. Len(f.chunks) + 1
    BY <1>0, <2>2
  <2>4. End(f, i) <= Offset(f, m - 1)
    BY <2>1, <2>3
  <2>5. Offset(f, m) = Offset(f, m - 1) + f.chunks[m - 1].size
    BY <2>3, OffsetNext, FileParts DEF End
  <2>6. /\ Offset(f, m - 1) \in Nat /\ f.chunks[m - 1].size \in Nat
        /\ ~(End(f, i) <= Offset(f, m))
    BY <2>3, OffsetNat, FileParts
  <2>7. \A x, y, z \in Nat : x <= y => x <= y + z
    OBVIOUS
  <2>8. End(f, i) <= Offset(f, m)
    BY ONLY <1>2, <2>4, <2>5, <2>6, <2>7
  <2> QED BY <2>6, <2>8
<1>4. k \in Nat /\ k \in i + 1 .. Len(f.chunks) + 1
  BY <1>0
<1>5. End(f, i) <= Offset(f, k)
  BY <1>3, <1>4
<1> QED BY <1>1, <1>2, <1>5

\* A chunk lies within the file.
LEMMA WithinSize ==
  ASSUME NEW f, AFile(f)
  PROVE  /\ Size(f) \in Nat
         /\ \A k \in 1 .. Len(f.chunks) : /\ Offset(f, k) \in Nat /\ End(f, k) \in Nat
                                          /\ Offset(f, k) < End(f, k) /\ End(f, k) <= Size(f)
<1>1. Len(f.chunks) + 1 \in 1 .. Len(f.chunks) + 1
  BY FileParts
<1>2. Size(f) \in Nat
  BY <1>1, OffsetNat DEF Size
<1>3. ASSUME NEW k \in 1 .. Len(f.chunks)
      PROVE  /\ Offset(f, k) \in Nat /\ End(f, k) \in Nat
             /\ Offset(f, k) < End(f, k) /\ End(f, k) <= Size(f)
  <2>1. k < Len(f.chunks) + 1
    BY FileParts
  <2> QED BY <1>1, <2>1, OffsetGrows DEF Size
<1> QED BY <1>2, <1>3

----------------------------------------------------------------------------
\* Where a walk stops.

Stops(f, b, n, past) ==
  {k \in 1 .. Len(f.chunks) + 1 :
     IF k > Len(f.chunks) THEN TRUE
     ELSE \/ Offset(f, k) >= b
          \/ Concludes(f, k, past)
          \/ End(f, k) > n /\ (f.chunks[k].role = "text" \/ f.fmt = "jpeg")}

LEMMA StopsAtFirst ==
  ASSUME NEW f, AFile(f), NEW b, NEW n, NEW past
  PROVE  /\ StopsAt(f, b, n, past) \in Stops(f, b, n, past)
         /\ StopsAt(f, b, n, past) \in 1 .. Len(f.chunks) + 1
         /\ \A k \in Stops(f, b, n, past) : StopsAt(f, b, n, past) <= k
<1>1. Len(f.chunks) \in Nat
  BY FileParts
<1>2. Stops(f, b, n, past) \in SUBSET Nat
  BY <1>1 DEF Stops
<1>3. Len(f.chunks) + 1 \in Stops(f, b, n, past)
  BY <1>1 DEF Stops
<1>4. StopsAt(f, b, n, past) = Min(Stops(f, b, n, past))
  BY DEF StopsAt, Stops
<1>5. Stops(f, b, n, past) \subseteq 1 .. Len(f.chunks) + 1
  BY DEF Stops
<1> QED BY <1>2, <1>3, <1>4, <1>5, MinIsLeast

LEMMA StopsThere ==
  ASSUME NEW f, AFile(f), NEW b, NEW n, NEW past, NEW k \in 1 .. Len(f.chunks),
         \/ Offset(f, k) >= b
         \/ Concludes(f, k, past)
         \/ End(f, k) > n /\ (f.chunks[k].role = "text" \/ f.fmt = "jpeg")
  PROVE  k \in Stops(f, b, n, past)
<1>1. k \in 1 .. Len(f.chunks) + 1 /\ ~(k > Len(f.chunks))
  BY FileParts
<1> QED BY <1>1 DEF Stops

\* A walk that goes on behind the pixels stops no earlier.
LEMMA PastStopsLater ==
  ASSUME NEW f, AFile(f), NEW b, NEW n
  PROVE  StopsAt(f, b, n, FALSE) <= StopsAt(f, b, n, TRUE)
<1>1. \A k : Concludes(f, k, TRUE) => Concludes(f, k, FALSE)
  BY DEF Concludes, AFile, Formats
<1>2. Stops(f, b, n, TRUE) \subseteq Stops(f, b, n, FALSE)
  BY <1>1 DEF Stops
<1> QED BY <1>2, StopsAtFirst

LEMMA PastFindsMore ==
  ASSUME NEW f, AFile(f), NEW b, NEW n
  PROVE  Found(f, b, n, FALSE) \subseteq Found(f, b, n, TRUE)
<1> DEFINE p == StopsAt(f, b, n, FALSE)
           q == StopsAt(f, b, n, TRUE)
<1>1. p <= q
  BY PastStopsLater
<1>2. p \in 1 .. Len(f.chunks) + 1 /\ q \in 1 .. Len(f.chunks) + 1
  BY StopsAtFirst
<1>3. Len(f.chunks) \in Nat /\ DOMAIN f.chunks = 1 .. Len(f.chunks)
  BY FileParts
<1> HIDE DEF p, q
<1>4. \A j \in DOMAIN f.chunks : j < p => j < q
  BY <1>1, <1>2, <1>3
<1> QED BY <1>4 DEF Found, Passed, p, q

\* The bytes of an MP4 are searched wherever they are: more bytes, more found.
LEMMA MoreBytesMore ==
  ASSUME NEW f, AFile(f), f.fmt = "isobmff", NEW a \in Nat, NEW b \in Nat, a <= b,
         NEW m, NEW n, NEW past, NEW on
  PROVE  Found(f, a, m, past) \subseteq Found(f, b, n, on)
<1>1. \A k \in DOMAIN f.chunks : End(f, k) \in Nat
  BY FileParts, WithinSize
<1>2. \A k \in DOMAIN f.chunks : End(f, k) <= a => End(f, k) <= b
  BY <1>1
<1> QED BY <1>2 DEF Found, Passed

\* Nothing is found in no bytes.
LEMMA NothingInNothing ==
  ASSUME NEW f, AFile(f), NEW n, NEW past
  PROVE  Found(f, 0, n, past) = {}
<1>1. \A k \in DOMAIN f.chunks : ~(End(f, k) <= 0)
  BY FileParts, WithinSize
<1> QED BY <1>1 DEF Found, Passed

\* The walk over n bytes of a file came to its conclusion at chunk k.
ConcludedAt(f, n, past, k) ==
  /\ k \in 1 .. Len(f.chunks) /\ k = StopsAt(f, n, n, past)
  /\ Concludes(f, k, past) /\ Offset(f, k) < n

\* Such a walk has found whatever a walk over more bytes finds.
LEMMA ConclusionStands ==
  ASSUME NEW f, AFile(f), f.fmt # "isobmff", NEW n \in Nat, NEW m \in Nat, n <= m,
         NEW past, NEW k, ConcludedAt(f, n, past, k)
  PROVE  Found(f, m, m, past) \subseteq Found(f, n, n, past)
<1>0. /\ Len(f.chunks) \in Nat /\ DOMAIN f.chunks = 1 .. Len(f.chunks)
      /\ k \in 1 .. Len(f.chunks)
  BY FileParts DEF ConcludedAt
<1>1. k \in Stops(f, m, m, past)
  BY <1>0, StopsThere, Zenon DEF ConcludedAt
<1>2. PICK l \in 1 .. Len(f.chunks) + 1 : l = StopsAt(f, m, m, past)
  BY StopsAtFirst
<1>3. l <= k
  BY <1>1, <1>2, StopsAtFirst
<1>4. ASSUME NEW j \in 1 .. Len(f.chunks), j < l
      PROVE  j < k /\ End(f, j) <= n
  <2>1. j < k /\ k \in 1 .. Len(f.chunks) + 1
    BY <1>0, <1>2, <1>3, <1>4
  <2>2. /\ End(f, j) <= Offset(f, k) /\ End(f, j) \in Nat /\ Offset(f, k) \in Nat
    BY <2>1, OffsetGrows
  <2>3. Offset(f, k) < n
    BY Zenon DEF ConcludedAt
  <2> QED BY <2>1, <2>2, <2>3
<1>5. {j \in 1 .. Len(f.chunks) : End(f, j) <= m /\ j < l}
        \subseteq {j \in 1 .. Len(f.chunks) : End(f, j) <= n /\ j < k}
  BY <1>4
<1>6. k = StopsAt(f, n, n, past)
  BY Zenon DEF ConcludedAt
<1> QED BY <1>0, <1>2, <1>5, <1>6 DEF Found, Passed

\* A walk over fewer bytes passes the chunks that lie within them.
LEMMA CutPasses ==
  ASSUME NEW f, AFile(f), f.fmt # "isobmff", NEW n \in Nat, NEW m \in Nat, n <= m,
         NEW past, NEW k \in Passed(f, m, m, past), End(f, k) <= n
  PROVE  k \in Passed(f, n, n, past)
<1>1. /\ Len(f.chunks) \in Nat /\ DOMAIN f.chunks = 1 .. Len(f.chunks)
      /\ k \in 1 .. Len(f.chunks) /\ k < StopsAt(f, m, m, past)
  BY FileParts DEF Passed
<1>2. PICK l \in 1 .. Len(f.chunks) + 1 :
        l = StopsAt(f, n, n, past) /\ l \in Stops(f, n, n, past)
  BY StopsAtFirst
<1>3. ASSUME l <= k PROVE FALSE
  <2>1. l \in 1 .. Len(f.chunks) /\ ~(l > Len(f.chunks))
    BY <1>1, <1>2, <1>3
  <2>2. ~ Concludes(f, l, past)
    <3>1. Concludes(f, l, past) => l \in Stops(f, m, m, past)
      BY <2>1, StopsThere
    <3>2. StopsAt(f, m, m, past) \in 1 .. Len(f.chunks) + 1
      BY StopsAtFirst
    <3> QED BY <1>1, <1>3, <2>1, <3>1, <3>2, StopsAtFirst
  <2>3. Offset(f, l) >= n \/ End(f, l) > n
    BY <1>2, <2>1, <2>2 DEF Stops
  <2>4. /\ Offset(f, l) \in Nat /\ End(f, l) \in Nat /\ Offset(f, l) < End(f, l)
        /\ Offset(f, k) \in Nat /\ End(f, k) \in Nat /\ Offset(f, k) < End(f, k)
    BY <1>1, <2>1, WithinSize
  <2>5. l < k => End(f, l) <= Offset(f, k)
    BY <1>1, <2>1, OffsetGrows
  <2>6. l = k \/ l < k
    BY <1>1, <1>3, <2>1
  <2>7. CASE l = k
    BY <2>3, <2>4, <2>7
  <2>8. CASE l < k
    BY <2>3, <2>4, <2>5, <2>8
  <2> QED BY <2>6, <2>7, <2>8
<1>4. k < l
  BY <1>1, <1>2, <1>3
<1> QED BY <1>1, <1>2, <1>4 DEF Passed

\* Only a PNG's walk goes on behind pixels.
LEMMA BeforePixels ==
  ASSUME NEW f, AFile(f), f.fmt # "isobmff", NEW m \in Nat, NEW on, NEW off, ~off, on,
         NEW k \in Passed(f, m, m, on),
         f.fmt = "png" => \A j \in 1 .. k : f.chunks[j].role # "image"
  PROVE  k \in Passed(f, m, m, off)
<1>1. /\ Len(f.chunks) \in Nat /\ DOMAIN f.chunks = 1 .. Len(f.chunks)
      /\ k \in 1 .. Len(f.chunks) /\ End(f, k) <= m /\ k < StopsAt(f, m, m, on)
  BY FileParts DEF Passed
<1>0. PICK q \in 1 .. Len(f.chunks) + 1 : /\ k < q
                                         /\ \A j \in Stops(f, m, m, on) : q <= j
  BY <1>1, StopsAtFirst
<1>2. PICK l \in 1 .. Len(f.chunks) + 1 :
        l = StopsAt(f, m, m, off) /\ l \in Stops(f, m, m, off)
  BY StopsAtFirst
<1>3. ASSUME l <= k PROVE FALSE
  <2>1. l \in 1 .. k /\ l \in 1 .. Len(f.chunks)
    BY <1>1, <1>2, <1>3
  <2>2. Concludes(f, l, off) => Concludes(f, l, on)
    BY <2>1, Zenon DEF Concludes
  <2>3. l \in Stops(f, m, m, on)
    BY <1>2, <2>2 DEF Stops
  <2>4. q <= l
    BY <1>0, <2>3
  <2> QED BY <1>0, <1>1, <1>3, <2>1, <2>4
<1>4. k < l
  BY <1>1, <1>2, <1>3
<1> QED BY <1>1, <1>2, <1>4 DEF Passed

\* A walk over a file's own bytes that does not report that it ran out came to
\* its conclusion, or takes the end of a WebP chunk for the end of the file.
LEMMA HonestStop ==
  ASSUME NEW f, AFile(f), f.fmt # "isobmff", NEW n \in Nat, FALSE \in Truncated(f, n, n)
  PROVE  \/ n = 0
         \/ \E k : ConcludedAt(f, n, FALSE, k)
         \/ f.fmt = "webp" /\ \E j \in DOMAIN f.chunks : End(f, j) = n
<1>1. PICK k \in 1 .. Len(f.chunks) + 1 : k = StopsAt(f, n, n, FALSE)
  BY StopsAtFirst
<1>2. /\ Len(f.chunks) \in Nat /\ DOMAIN f.chunks = 1 .. Len(f.chunks)
      /\ k \in 1 .. Len(f.chunks) + 1
  BY <1>1, FileParts
<1> DEFINE short == k <= Len(f.chunks)
           over  == Concludes(f, k, FALSE)
           in    == Offset(f, k) < n
           webp  == f.fmt = "webp" /\ Offset(f, k) = n
           more  == n < n
<1>3. \/ short /\ over /\ in
      \/ webp
  <2>1. ~ more
    OBVIOUS
  <2>2. Truncated(f, n, n) =
          IF f.fmt = "isobmff" THEN {FALSE}
          ELSE IF short /\ over /\ in THEN {FALSE}
          ELSE IF more /\ ~(short /\ in) THEN BOOLEAN
          ELSE IF webp THEN {FALSE}
          ELSE {TRUE}
    BY <1>1, Zenon DEF Truncated
  <2> HIDE DEF short, over, in, webp, more
  <2>3. ~(short /\ over /\ in) /\ ~webp => Truncated(f, n, n) = {TRUE}
    BY <2>1, <2>2
  <2> QED BY <2>3, Zenon
<1>4. CASE short /\ over /\ in
  <2>1. short
    BY <1>4, Zenon
  <2>2. k \in 1 .. Len(f.chunks)
    BY <1>2, <2>1
  <2> HIDE DEF short
  <2>3. ConcludedAt(f, n, FALSE, k)
    BY <1>1, <1>4, <2>2, Zenon DEF ConcludedAt
  <2> QED BY <2>3, Zenon
<1>5. CASE webp
  <2>1. CASE k = 1
    BY <1>5, <2>1, OffsetNext, FileParts
  <2>2. CASE k # 1
    <3>1. k - 1 \in 1 .. Len(f.chunks) /\ (k - 1) + 1 = k
      BY <1>2, <2>2
    <3>2. End(f, k - 1) = n
      BY <1>5, <3>1, OffsetNext, FileParts
    <3> QED BY <1>2, <1>5, <3>1, <3>2
  <2> QED BY <2>1, <2>2
<1> HIDE DEF short, over, in, webp
<1> QED BY <1>3, <1>4, <1>5, Zenon

\* The tail of a file is part of the file.
LEMMA TailIsPart ==
  ASSUME NEW f, AFile(f), NEW n, NEW past
  PROVE  FoundInTail(f) \subseteq Found(f, Size(f), n, past)
<1>1. \A k \in DOMAIN f.chunks : End(f, k) <= Size(f)
  BY WithinSize, FileParts
<1>2. CASE f.fmt # "isobmff"
  BY <1>2 DEF FoundInTail
<1>3. CASE f.fmt = "isobmff"
  BY <1>1, <1>3 DEF FoundInTail, Found, Passed
<1> QED BY <1>2, <1>3

LEMMA FoundType ==
  ASSUME NEW f, AFile(f), NEW b, NEW n, NEW past
  PROVE  Found(f, b, n, past) \subseteq Payloads /\ FoundInTail(f) \subseteq Payloads
<1>1. \A k \in DOMAIN f.chunks : f.chunks[k].holds \subseteq Payloads
  BY FileParts DEF Chunk
<1> QED BY <1>1 DEF Found, Passed, FoundInTail

LEMMA FilesAreFiles ==
  /\ \A f \in Files : AFile(f)
  /\ HeadWindow \in Nat /\ HeadWindow > 0 /\ MaxHead \in Nat /\ HeadWindow <= MaxHead
  /\ TailWindow \in Nat /\ TailWindow <= HeadWindow
BY WindowsAssumption DEF WindowsAssumption, AFile

----------------------------------------------------------------------------
\* fetch_bytes.

\* What two passes of the parser find in n bytes, the first b of which are the
\* file's.
Both(f, b, n) == Found(f, b, n, FALSE) \cup Found(f, b, n, TRUE)

\* The window asked for begins where the one before ended, four times as large
\* unless the limit cuts it; an honest server has filled what lies before.
Asking ==
  /\ 3 * held <= 4 * start
  /\ start > 0 => file.fmt # "isobmff"
  /\ IF start = 0 THEN end = HeadWindow ELSE end = 4 * start \/ end = MaxHead
  /\ honest => good = held /\ held = Min({start, Size(file)})

\* `found` is what the parser makes of the bytes held; a tail is only asked for
\* when they have no workflow.
Finds ==
  IF prefix = "tail"
  THEN /\ found = Both(file, good, held) \cup FoundInTail(file)
       /\ "workflow" \notin Both(file, good, held)
  ELSE found = Both(file, good, held)

\* When the head is through it has found what a single request would have.
Reaches ==
  LET n == Min({MaxHead, Size(file)})
      h == Min({HeadWindow, Size(file)})
  IN /\ file.fmt # "isobmff" /\ ~EndsOnWindow(file) =>
          \A k \in Passed(file, n, n, TRUE) :
            "workflow" \in file.chunks[k].holds =>
              "workflow" \in found \/ OutOfWindow(file, k)
     /\ file.fmt = "isobmff" => Found(file, h, h, TRUE) \subseteq found
     /\ file.fmt = "isobmff" /\ total /\ pc = "done" =>
          ("workflow" \in FoundInTail(file) => "workflow" \in found)

FetchInv ==
  /\ pc # "idle" => file \in Files
  /\ pc = "idle" => /\ start = 0 /\ end = HeadWindow /\ good = 0 /\ held = 0
                    /\ found = {} /\ honest
  /\ pc # "done" => prefix = "none"
  /\ pc = "window" => Asking
  /\ pc # "idle" => Finds
  /\ pc = "tail" => "workflow" \notin found
  /\ pc \in {"tail", "done"} /\ honest => Reaches

LEMMA BothType ==
  ASSUME NEW f, AFile(f), NEW b, NEW n
  PROVE  Both(f, b, n) \subseteq Payloads /\ Both(f, 0, n) = {}
BY FoundType, NothingInNothing DEF Both

\* An honest fetch that stops after a reply has found what one request would.
LEMMA StopReaches ==
  ASSUME TypeOK, FetchInv, pc = "window", NEW n \in Nat, n = Min({end, Size(file)}),
         NEW told, NEW truncated \in Truncated(file, n, n), NEW has, has = Both(file, n, n),
         ~ GoesOn(truncated, ~told \/ n < Size(file), has), file.fmt # "isobmff",
         ~ EndsOnWindow(file),
         NEW k \in Passed(file, Min({MaxHead, Size(file)}), Min({MaxHead, Size(file)}), TRUE),
         "workflow" \in file.chunks[k].holds,
         file.fmt = "png" /\ End(file, k) > n =>
           \A j \in 1 .. k : file.chunks[j].role # "image"
  PROVE  "workflow" \in has
<1> DEFINE N == Min({MaxHead, Size(file)})
<1>1. file \in Files /\ AFile(file)
  BY FilesAreFiles DEF FetchInv
<1>2. /\ Size(file) \in Nat /\ MaxHead \in Nat /\ end \in Nat /\ end <= MaxHead /\ end > 0
  BY <1>1, WithinSize, FilesAreFiles DEF TypeOK
<1>3. /\ N \in Nat /\ N = IF MaxHead <= Size(file) THEN MaxHead ELSE Size(file)
      /\ n = IF end <= Size(file) THEN end ELSE Size(file)
  BY <1>2, MinOfTwo
<1>4. Found(file, n, n, FALSE) \subseteq has /\ Found(file, n, n, TRUE) \subseteq has
  BY DEF Both
<1>0. k \in Passed(file, N, N, TRUE) /\ n <= N /\ End(file, k) \in Nat
  <2>1. n <= N
    BY <1>2, <1>3
  <2>2. k \in Passed(file, N, N, TRUE) /\ k \in 1 .. Len(file.chunks)
    BY <1>1, FileParts DEF Passed
  <2> QED BY <1>1, <2>1, <2>2, WithinSize
<1> HIDE DEF N
<1>7. CASE End(file, k) <= n
  <2>1. k \in Passed(file, n, n, TRUE)
    BY <1>0, <1>1, <1>3, <1>7, CutPasses
  <2> QED BY <1>4, <2>1 DEF Found
<1>8. CASE ~(End(file, k) <= n)
  <2>1. End(file, k) > n
    BY <1>0, <1>8
  <2>2. k \in Passed(file, N, N, FALSE)
    <3>1. file.fmt = "png" => \A j \in 1 .. k : file.chunks[j].role # "image"
      BY <2>1
    <3> DEFINE on == TRUE
               off == FALSE
    <3>2. k \in Passed(file, N, N, on) /\ on /\ ~off
      BY <1>0
    <3> HIDE DEF on, off
    <3>3. k \in Passed(file, N, N, off)
      BY <1>1, <1>3, <3>1, <3>2, BeforePixels
    <3> QED BY <3>3 DEF off
  <2>3. "workflow" \in Found(file, N, N, FALSE)
    BY <2>2 DEF Found
  <2>4. n = end /\ end < N /\ n < Size(file) /\ end < MaxHead /\ n # 0
    <3>1. n # N
      BY <1>0, <2>1 DEF Passed
    <3> QED BY <1>2, <1>3, <3>1
  <2>5. CASE "workflow" \in has
    BY <2>5
  <2>6. CASE ~ truncated
    <3>1. FALSE \in Truncated(file, n, n)
      <4>1. truncated \in BOOLEAN
        BY DEF Truncated
      <4> QED BY <2>6, <4>1
    <3>2. ~ (file.fmt = "webp" /\ \E j \in DOMAIN file.chunks : End(file, j) = n)
      BY <2>4 DEF EndsOnWindow, N
    <3>3. PICK c : ConcludedAt(file, n, FALSE, c)
      BY <1>1, <2>4, <3>1, <3>2, HonestStop, Zenon
    <3>4. Found(file, N, N, FALSE) \subseteq Found(file, n, n, FALSE)
      BY <1>0, <1>1, <1>3, <3>3, ConclusionStands, Zenon
    <3> QED BY <1>4, <2>3, <3>4
  <2> QED BY <2>4, <2>5, <2>6 DEF GoesOn
<1> QED BY <1>7, <1>8

LEMMA TakeStep ==
  ASSUME TypeOK, FetchInv, pc = "window", NEW bytes \in Nat, NEW asked \in BOOLEAN,
         Take(bytes, asked), UNCHANGED file, honest' \in BOOLEAN,
         bytes <= end,
         honest' => honest /\ asked /\ held + bytes = Min({end, Size(file)})
  PROVE  TypeOK' /\ FetchInv'
<1>1. PICK told \in {total, TRUE} :
        Parse(IF asked /\ good = held THEN held + bytes ELSE good, held + bytes, told)
  BY DEF Take
<1> DEFINE n   == held + bytes
           g   == IF asked /\ good = held THEN n ELSE good
           has == Found(file, g, n, FALSE) \cup Found(file, g, n, TRUE)
<1>2. /\ file \in Files /\ AFile(file) /\ told \in BOOLEAN
      /\ Asking /\ prefix = "none" /\ has = Both(file, g, n)
  BY <1>1, FilesAreFiles DEF FetchInv, Both, TypeOK
<1>3. /\ held \in Nat /\ n \in Nat /\ g \in 0 .. n /\ start \in Nat /\ end \in Nat
      /\ start < end /\ MaxHead \in Nat /\ end <= MaxHead /\ end > 0 /\ held <= n
      /\ Size(file) \in Nat
  BY <1>2, FilesAreFiles, WithinSize DEF TypeOK
<1>4. PICK truncated \in Truncated(file, g, n) :
        IF ~NeedsTail(file, g) /\ GoesOn(truncated, ~told \/ n < Size(file), has)
        THEN /\ start' = end /\ end' = Min({end * 4, MaxHead})
             /\ UNCHANGED <<pc, prefix>>
        ELSE /\ IF WantsTail(file, has, g, told)
                THEN pc' = "tail" /\ UNCHANGED prefix
                ELSE pc' = "done" /\ prefix' = "head"
             /\ UNCHANGED <<start, end>>
  BY <1>1 DEF Parse
<1>5. good' = g /\ held' = n /\ total' = told /\ found' = has
  BY <1>1 DEF Parse
<1>6. n <= 3 * MaxHead /\ (end < MaxHead => 3 * held <= end)
  <2>1. /\ held \in Nat /\ 3 * held <= 4 * start
        /\ IF start = 0 THEN end = HeadWindow ELSE end = 4 * start \/ end = MaxHead
    BY <1>2, <1>3 DEF Asking
  <2>2. end < MaxHead => 3 * held <= end
    BY <1>3, <2>1
  <2>3. 3 * (held + bytes) <= 7 * MaxHead
    BY <1>3, <2>1
  <2> QED BY <1>3, <2>2, <2>3
<1>7. honest' => honest /\ g = n /\ n = Min({end, Size(file)})
  BY <1>2 DEF Asking
<1>8. has \subseteq Payloads
  BY <1>2, BothType
<1> HIDE DEF g, n, has
<1>9. CASE ~NeedsTail(file, g) /\ GoesOn(truncated, ~told \/ n < Size(file), has)
  <2>1. /\ start' = end /\ end' = Min({end * 4, MaxHead}) /\ pc' = "window"
        /\ prefix' = "none"
    BY <1>2, <1>4, <1>9
  <2>2. truncated /\ end < MaxHead
    BY <1>9 DEF GoesOn
  <2>3. file.fmt # "isobmff"
    BY <2>2 DEF Truncated
  <2>4. end' = IF end * 4 <= MaxHead THEN end * 4 ELSE MaxHead
    BY <1>3, <2>1, MinOfTwo
  <2>5. end < end' /\ end' <= MaxHead /\ end' \in Nat /\ (end' = 4 * end \/ end' = MaxHead)
    BY <1>3, <2>2, <2>4
  <2>6. 3 * n <= 4 * end
    BY <1>3, <1>6, <2>2 DEF n
  <2>7. TypeOK'
    BY <1>2, <1>3, <1>5, <1>6, <1>8, <2>1, <2>5 DEF TypeOK
  <2>8. Asking'
    BY <1>3, <1>5, <1>7, <2>1, <2>3, <2>5, <2>6 DEF Asking
  <2>9. Finds'
    BY <1>2, <1>5, <2>1 DEF Finds
  <2> QED BY <1>2, <2>1, <2>7, <2>8, <2>9 DEF FetchInv
<1>10. CASE ~(~NeedsTail(file, g) /\ GoesOn(truncated, ~told \/ n < Size(file), has))
  <2>1. /\ start' = start /\ end' = end
        /\ IF WantsTail(file, has, g, told)
           THEN pc' = "tail" /\ prefix' = "none"
           ELSE pc' = "done" /\ prefix' = "head"
    BY <1>2, <1>4, <1>10
  <2>2. TypeOK'
    BY <1>2, <1>3, <1>5, <1>6, <1>8, <2>1 DEF TypeOK
  <2>3. Finds'
    BY <1>2, <1>5, <2>1 DEF Finds
  <2>4. pc' = "tail" => "workflow" \notin found'
    BY <1>5, <2>1 DEF WantsTail
  <2>5. ASSUME honest' PROVE Reaches'
    <3>1. g = n /\ n = Min({end, Size(file)})
      BY <1>7, <2>5
    <3>2. CASE file.fmt # "isobmff"
      <4>1. ~ NeedsTail(file, g)
        BY <3>2 DEF NeedsTail
      <4>2. EndsOnWindow(file)' = EndsOnWindow(file)
        BY <2>1 DEF EndsOnWindow
      <4> DEFINE N == Min({MaxHead, Size(file)})
      <4>3. ASSUME ~EndsOnWindow(file), NEW k \in Passed(file, N, N, TRUE),
                   "workflow" \in file.chunks[k].holds, ~OutOfWindow(file, k)'
            PROVE  "workflow" \in has
        <5>1. file.fmt = "png" /\ End(file, k) > n =>
                \A j \in 1 .. k : file.chunks[j].role # "image"
          BY <1>5, <4>3 DEF OutOfWindow, End, Offset, Offsets
        <5> QED BY <1>2, <1>3, <1>4, <1>10, <3>1, <3>2, <4>1, <4>3, <5>1, StopReaches
      <4>4. MaxHead' = MaxHead /\ Passed(file, N, N, TRUE)' = Passed(file, N, N, TRUE)
        BY DEF Passed, End, Offset, Offsets, Size, StopsAt, Concludes
      <4> HIDE DEF N
      <4> QED BY <1>5, <3>2, <4>2, <4>3, <4>4 DEF Reaches, N
    <3>3. CASE file.fmt = "isobmff"
      <4>1. start = 0 /\ end = HeadWindow
        BY <1>2, <1>3, <3>3 DEF Asking
      <4>2. Found(file, n, n, TRUE) \subseteq has
        BY <1>2, <3>1 DEF Both
      <4>3. ASSUME told, pc' = "done", "workflow" \in FoundInTail(file)
            PROVE  "workflow" \in has
        <5>1. "workflow" \in has \/ ~(Size(file) > TailWindow)
          BY <2>1, <3>3, <4>3 DEF WantsTail
        <5>2. ~(Size(file) > TailWindow) => n = Size(file)
          BY <1>3, <3>1, <4>1, MinOfTwo, FilesAreFiles
        <5> QED BY <1>2, <4>2, <4>3, <5>1, <5>2, TailIsPart
      <4> QED BY <1>5, <3>1, <3>3, <4>1, <4>2, <4>3 DEF Reaches
    <3> QED BY <3>2, <3>3
  <2> QED BY <1>2, <2>1, <2>2, <2>3, <2>4, <2>5 DEF FetchInv
<1> QED BY <1>9, <1>10

LEMMA StepFetches ==
  ASSUME TypeOK, FetchInv, Step
  PROVE  TypeOK' /\ FetchInv'
<1>0. pc \in {"window", "tail"} /\ file \in Files /\ AFile(file) /\ file' = file
  BY FilesAreFiles DEF Step, Partial, Whole, Error, TailPartial, TailRefused, FetchInv
<1>1. /\ start \in Nat /\ end \in Nat /\ start < end /\ end <= MaxHead /\ MaxHead \in Nat
      /\ held \in Nat /\ Size(file) \in Nat /\ HeadWindow \in Nat
  BY <1>0, FilesAreFiles, WithinSize DEF TypeOK
<1>2. Min({end, Size(file)}) = IF end <= Size(file) THEN end ELSE Size(file)
  BY <1>1, MinOfTwo
<1>3. CASE Partial
  <2> DEFINE bytes == Min({end, Size(file)}) - start
  <2>1. pc = "window" /\ start < Size(file) /\ honest' = honest
    BY <1>3 DEF Partial
  <2>2. bytes \in Nat /\ bytes <= end
    BY <1>1, <1>2, <2>1
  <2>3. honest => held = start
    BY <1>1, <2>1, MinOfTwo DEF FetchInv, Asking
  <2>4. honest' => held + bytes = Min({end, Size(file)})
    BY <1>1, <1>2, <2>1, <2>3
  <2>5. Take(bytes, TRUE) /\ honest' \in BOOLEAN
    BY <1>3, <2>1 DEF Partial, TypeOK
  <2> HIDE DEF bytes
  <2> QED BY <1>0, <2>1, <2>2, <2>4, <2>5, TakeStep
<1>4. CASE Whole
  <2> DEFINE bytes == Min({end, Size(file)})
             asked == start = 0
  <2>1. pc = "window" /\ honest' = (honest /\ asked) /\ Take(bytes, asked)
    BY <1>4 DEF Whole
  <2>2. bytes \in Nat /\ bytes <= end
    BY <1>1, <1>2
  <2>3. honest' => honest /\ asked /\ held + bytes = bytes
    <3>1. start = 0 => held = 0
      BY <1>1, <2>1 DEF FetchInv, Asking
    <3>2. honest' => honest /\ start = 0
      BY <1>4, Zenon DEF Whole, TypeOK
    <3> HIDE DEF bytes
    <3> QED BY <2>2, <3>1, <3>2
  <2>4. asked \in BOOLEAN /\ honest' \in BOOLEAN
    BY <2>1 DEF TypeOK
  <2>5. honest' => honest /\ asked /\ held + bytes = Min({end, Size(file)})
    BY <2>3
  <2> HIDE DEF bytes, asked
  <2> QED BY <1>0, <2>1, <2>2, <2>4, <2>5, TakeStep
<1>5. CASE Error
  <2>1. /\ pc = "window" /\ pc' = "done" /\ honest' = (honest /\ start >= Size(file))
        /\ UNCHANGED <<file, start, end, good, held, total, found, prefix>>
    BY <1>5 DEF Error
  <2>2. TypeOK'
    BY <2>1 DEF TypeOK
  <2>3. Finds' /\ prefix = "none" /\ Asking
    BY <2>1 DEF FetchInv, Finds
  <2>4. ASSUME honest' PROVE Reaches'
    <3>0. honest /\ start >= Size(file)
      BY <1>5, <2>4, Zenon DEF Error
    <3>1. good = held /\ held = Size(file) /\ start >= Size(file)
      BY <1>1, <2>3, <3>0, MinOfTwo DEF Asking
    <3>2. found = Both(file, held, held)
      BY <2>1, <2>3, <3>1 DEF FetchInv, Finds
    <3>3. Min({MaxHead, Size(file)}) = held
      BY <1>1, <3>1, MinOfTwo
    <3>4. Found(file, held, held, FALSE) \subseteq found /\ Found(file, held, held, TRUE) \subseteq found
      BY <3>2 DEF Both
    <3>5. FoundInTail(file) \subseteq found
      BY <1>0, <3>1, <3>4, TailIsPart
    <3>6. file.fmt = "isobmff" => Min({HeadWindow, Size(file)}) = held
      <4>1. file.fmt = "isobmff" => start = 0 /\ Size(file) = 0
        BY <1>1, <2>3, <3>1 DEF Asking
      <4>2. Min({HeadWindow, Size(file)}) = IF HeadWindow <= Size(file) THEN HeadWindow ELSE Size(file)
        BY <1>1, MinOfTwo
      <4> QED BY <1>1, <3>1, <4>1, <4>2
    <3>7. \A k \in Passed(file, held, held, TRUE) :
            "workflow" \in file.chunks[k].holds => "workflow" \in found
      BY <3>4 DEF Found
    <3> QED BY <2>1, <3>3, <3>4, <3>5, <3>6, <3>7 DEF Reaches
  <2> QED BY <1>0, <2>1, <2>2, <2>3, <2>4 DEF FetchInv
<1>6. CASE TailPartial
  <2>1. /\ pc = "tail" /\ pc' = "done" /\ prefix' = "tail" /\ prefix = "none"
        /\ found' = found \cup FoundInTail(file) /\ "workflow" \notin found
        /\ UNCHANGED <<file, start, end, good, held, total, honest>>
    BY <1>6 DEF TailPartial, FetchInv
  <2>2. TypeOK'
    BY <1>0, <2>1, FoundType DEF TypeOK
  <2>3. found = Both(file, good, held)
    BY <2>1 DEF FetchInv, Finds
  <2>4. Finds'
    BY <2>1, <2>3 DEF Finds
  <2>5. honest' => Reaches'
    <3>1. /\ EndsOnWindow(file)' = EndsOnWindow(file)
          /\ \A k : OutOfWindow(file, k)' = OutOfWindow(file, k)
      BY <2>1 DEF EndsOnWindow, OutOfWindow
    <3>2. honest => Reaches
      BY <2>1 DEF FetchInv
    <3> QED BY <2>1, <3>1, <3>2 DEF Reaches
  <2> QED BY <1>0, <2>1, <2>2, <2>4, <2>5 DEF FetchInv
<1>7. CASE TailRefused
  <2>1. /\ pc = "tail" /\ pc' = "done" /\ prefix' = "head" /\ prefix = "none" /\ ~honest'
        /\ honest' \in BOOLEAN
        /\ UNCHANGED <<file, start, end, good, held, total, found>>
    BY <1>7 DEF TailRefused, FetchInv
  <2>2. TypeOK'
    BY <2>1 DEF TypeOK
  <2>3. Finds'
    BY <2>1 DEF FetchInv, Finds
  <2> QED BY <1>0, <2>1, <2>2, <2>3 DEF FetchInv
<1> QED BY <1>3, <1>4, <1>5, <1>6, <1>7 DEF Step

LEMMA FetchBegins ==
  ASSUME TypeOK, FetchInv, NEW f \in Files, Fetch(f)
  PROVE  TypeOK' /\ FetchInv'
<1>1. /\ pc = "idle" /\ file' = f /\ pc' = "window" /\ AFile(f)
      /\ UNCHANGED <<start, end, good, held, total, found, prefix, honest>>
  BY FilesAreFiles DEF Fetch
<1>2. /\ start = 0 /\ end = HeadWindow /\ good = 0 /\ held = 0 /\ found = {} /\ prefix = "none"
  BY <1>1 DEF FetchInv
<1>3. Size(f) \in Nat /\ Min({0, Size(f)}) = 0
  <2>1. Size(f) \in Nat
    BY <1>1, WithinSize
  <2> QED BY <2>1, MinOfTwo
<1>4. TypeOK'
  BY <1>1 DEF TypeOK
<1>5. Asking'
  BY <1>1, <1>2, <1>3 DEF Asking
<1>6. Finds'
  BY <1>1, <1>2, BothType DEF Finds
<1> QED BY <1>1, <1>2, <1>4, <1>5, <1>6 DEF FetchInv

LEMMA InitFetch == Init => TypeOK /\ FetchInv
<1> SUFFICES ASSUME Init PROVE TypeOK /\ FetchInv
  OBVIOUS
<1>1. /\ HeadWindow \in 1 .. MaxHead /\ MaxHead \in Nat
  BY FilesAreFiles
<1>2. /\ start \in 0 .. MaxHead /\ end \in 1 .. MaxHead /\ start < end
      /\ good \in 0 .. held /\ held \in 0 .. 3 * MaxHead
  BY <1>1 DEF Init
<1>3. TypeOK
  BY <1>2 DEF Init, TypeOK
<1> QED BY <1>3 DEF Init, FetchInv

----------------------------------------------------------------------------
\* What is shared stays a workflow.

LEMMA GraphParts ==
  ASSUME NEW g \in Graph
  PROVE  /\ g \in [nodes : Seq(Node), links : SUBSET Link, listed : BOOLEAN]
         /\ g.nodes \in Seq(Node) /\ g.links \in SUBSET Link /\ g.listed \in BOOLEAN
         /\ Len(g.nodes) \in Nat /\ DOMAIN g.nodes = 1 .. Len(g.nodes)
         /\ \A i \in DOMAIN g.nodes : g.nodes[i] \in Node
         /\ \A i, j \in DOMAIN g.nodes : g.nodes[i].id = g.nodes[j].id => i = j
<1>1. g \in [nodes : Seq(Node), links : SUBSET Link, listed : BOOLEAN]
  BY DEF Graph
<1>2. \A i, j \in DOMAIN g.nodes : g.nodes[i].id = g.nodes[j].id => i = j
  BY Zenon DEF Graph
<1>3. g.nodes \in Seq(Node) /\ g.links \in SUBSET Link /\ g.listed \in BOOLEAN
  BY <1>1
<1>4. /\ Len(g.nodes) \in Nat /\ DOMAIN g.nodes = 1 .. Len(g.nodes)
      /\ \A i \in DOMAIN g.nodes : g.nodes[i] \in Node
  BY <1>3
<1> QED BY <1>1, <1>2, <1>3, <1>4

\* Parts of a workflow may be replaced as long as its nodes are numbered apart.
Apart(s) == \A i, j \in DOMAIN s : s[i].id = s[j].id => i = j

LEMMA GraphUpdate ==
  ASSUME NEW g \in Graph, NEW s \in Seq(Node), Apart(s), NEW ls \in SUBSET Link,
         NEW b \in BOOLEAN
  PROVE  /\ [g EXCEPT !.nodes = s] \in Graph
         /\ [g EXCEPT !.links = ls] \in Graph
         /\ [g EXCEPT !.listed = b] \in Graph
         /\ [g EXCEPT !.nodes = s, !.links = ls] \in Graph
<1>1. g \in [nodes : Seq(Node), links : SUBSET Link, listed : BOOLEAN] /\ Apart(g.nodes)
  BY GraphParts DEF Apart
<1>2. ASSUME NEW h \in [nodes : Seq(Node), links : SUBSET Link, listed : BOOLEAN],
             Apart(h.nodes)
      PROVE  h \in Graph
  BY <1>2, Zenon DEF Graph, Apart
<1>3. [g EXCEPT !.nodes = s] \in Graph
  <2>1. /\ [g EXCEPT !.nodes = s] \in [nodes : Seq(Node), links : SUBSET Link, listed : BOOLEAN]
        /\ [g EXCEPT !.nodes = s].nodes = s
    BY <1>1
  <2> QED BY <1>2, <2>1
<1>4. [g EXCEPT !.links = ls] \in Graph
  <2>1. /\ [g EXCEPT !.links = ls] \in [nodes : Seq(Node), links : SUBSET Link, listed : BOOLEAN]
        /\ [g EXCEPT !.links = ls].nodes = g.nodes
    BY <1>1
  <2> QED BY <1>1, <1>2, <2>1
<1>5. [g EXCEPT !.listed = b] \in Graph
  <2>1. /\ [g EXCEPT !.listed = b] \in [nodes : Seq(Node), links : SUBSET Link, listed : BOOLEAN]
        /\ [g EXCEPT !.listed = b].nodes = g.nodes
    BY <1>1
  <2> QED BY <1>1, <1>2, <2>1
<1>6. [g EXCEPT !.nodes = s, !.links = ls] \in Graph
  <2>1. /\ [g EXCEPT !.nodes = s, !.links = ls]
             \in [nodes : Seq(Node), links : SUBSET Link, listed : BOOLEAN]
        /\ [g EXCEPT !.nodes = s, !.links = ls].nodes = s
    BY <1>1
  <2> QED BY <1>2, <2>1
<1> QED BY <1>3, <1>4, <1>5, <1>6

LEMMA ResavedGraph ==
  ASSUME NEW g \in Graph, NEW h \in Resaved(g)
  PROVE  h \in Graph
<1>1. PICK at \in Perm(DOMAIN g.nodes), id \in Perm(Ids(g)) : h = Renumbered(g, at, id)
  BY DEF Resaved
<1> DEFINE N == g.nodes
           s == [i \in DOMAIN N |-> [N[at[i]] EXCEPT !.id = id[N[at[i]].id]]]
           ls == {Moved(l, id) : l \in g.links}
<1>2. /\ N \in Seq(Node) /\ g.links \in SUBSET Link
      /\ Len(N) \in Nat /\ DOMAIN N = 1 .. Len(N)
      /\ \A i \in DOMAIN N : N[i] \in Node
      /\ \A i, j \in DOMAIN N : N[i].id = N[j].id => i = j
  BY GraphParts
<1>3. h = [g EXCEPT !.nodes = s, !.links = ls]
  BY <1>1 DEF Renumbered
<1>4. /\ Ids(g) \subseteq Nat /\ \A i \in DOMAIN N : N[i].id \in Ids(g)
      /\ id \in [Ids(g) -> Ids(g)] /\ \A x, y \in Ids(g) : id[x] = id[y] => x = y
      /\ at \in [DOMAIN N -> DOMAIN N] /\ \A x, y \in DOMAIN N : at[x] = at[y] => x = y
  <2>1. Ids(g) \subseteq Nat /\ \A i \in DOMAIN N : N[i].id \in Ids(g)
    <3>1. \A i \in DOMAIN N : N[i].id \in Nat
      BY <1>2 DEF Node
    <3>2. Ids(g) = {n.id : n \in {N[i] : i \in DOMAIN N}}
      BY DEF Ids, Range
    <3> QED BY <3>1, <3>2
  <2>2. id \in [Ids(g) -> Ids(g)] /\ \A x, y \in Ids(g) : id[x] = id[y] => x = y
    BY <1>1 DEF Perm
  <2>3. at \in [DOMAIN N -> DOMAIN N] /\ \A x, y \in DOMAIN N : at[x] = at[y] => x = y
    BY <1>1 DEF Perm
  <2> QED BY <2>1, <2>2, <2>3
<1>5. ASSUME NEW i \in DOMAIN N
      PROVE  s[i] \in Node /\ s[i].id = id[N[at[i]].id] /\ at[i] \in DOMAIN N
  <2>1. at[i] \in DOMAIN N /\ N[at[i]] \in Node /\ id[N[at[i]].id] \in Nat
    BY <1>2, <1>4
  <2>2. s[i] = [N[at[i]] EXCEPT !.id = id[N[at[i]].id]]
    OBVIOUS
  <2> HIDE DEF s
  <2> QED BY <2>1, <2>2 DEF Node
<1>6. s \in Seq(Node)
  <2>1. DOMAIN s = 1 .. Len(N)
    BY <1>2
  <2> HIDE DEF s
  <2>2. s = [i \in 1 .. Len(N) |-> s[i]]
    <3>1. s = [i \in DOMAIN s |-> s[i]]
      BY DEF s
    <3> QED BY <2>1, <3>1
  <2>3. s \in [1 .. Len(N) -> Node]
    BY <1>2, <1>5, <2>2
  <2> QED BY <1>2, <2>3
<1>7. Apart(s)
  <2> SUFFICES ASSUME NEW i \in DOMAIN N, NEW j \in DOMAIN N, s[i].id = s[j].id PROVE i = j
    BY DEF Apart
  <2>1. id[N[at[i]].id] = id[N[at[j]].id] /\ at[i] \in DOMAIN N /\ at[j] \in DOMAIN N
    BY <1>5
  <2>2. N[at[i]].id = N[at[j]].id
    BY <1>4, <2>1
  <2>3. at[i] = at[j]
    BY <1>2, <2>1, <2>2
  <2> QED BY <1>4, <2>3
<1>8. ls \subseteq Link
  <2>1. ASSUME NEW l \in Link PROVE Moved(l, id) \in Link
    <3>1. \A x \in Nat : (IF x \in DOMAIN id THEN id[x] ELSE x) \in Nat
      BY <1>4
    <3> QED BY <3>1 DEF Link, Moved
  <2>2. \A l \in g.links : Moved(l, id) \in Link
    BY <1>2, <2>1
  <2> QED BY <2>2
<1> HIDE DEF s, ls, N
<1>9. ls \in SUBSET Link
  BY <1>8
<1> QED BY <1>3, <1>6, <1>7, <1>9, GraphUpdate

LEMMA EditedGraph ==
  ASSUME NEW g \in Graph, NEW h \in Edited(g)
  PROVE  h \in Graph
<1>1. /\ g.nodes \in Seq(Node) /\ g.links \in SUBSET Link /\ g.listed \in BOOLEAN
      /\ Len(g.nodes) \in Nat /\ DOMAIN g.nodes = 1 .. Len(g.nodes)
      /\ \A i \in DOMAIN g.nodes : g.nodes[i] \in Node
      /\ Apart(g.nodes)
  BY GraphParts DEF Apart
<1>2. Ids(g) \subseteq Nat
  BY <1>1 DEF Ids, Range, Node
<1>3. ASSUME NEW ls \in SUBSET Link, h = [g EXCEPT !.links = ls] PROVE h \in Graph
  BY <1>1, <1>3, GraphUpdate
<1>4. ASSUME NEW i \in DOMAIN g.nodes, NEW v \in Nat, h = [g EXCEPT !.nodes[i].value = v]
      PROVE  h \in Graph
  <2> DEFINE s == [g.nodes EXCEPT ![i].value = v]
  <2>1. h = [g EXCEPT !.nodes = s]
    BY <1>4
  <2>2. s \in Seq(Node) /\ DOMAIN s = DOMAIN g.nodes
    <3>1. [g.nodes[i] EXCEPT !.value = v] \in Node
      BY <1>1 DEF Node
    <3> QED BY <1>1, <3>1
  <2>3. \A j \in DOMAIN s : s[j].id = g.nodes[j].id
    BY <1>1 DEF Node
  <2> HIDE DEF s
  <2>4. Apart(s)
    BY <1>1, <2>2, <2>3 DEF Apart
  <2> QED BY <1>1, <2>1, <2>2, <2>4, GraphUpdate
<1>5. CASE h \in Revalued(g)
  <2>1. {n.value : n \in Range(g.nodes)} \subseteq Nat
    BY <1>1 DEF Range, Node
  <2>2. PICK i \in DOMAIN g.nodes, v \in {n.value : n \in Range(g.nodes)} :
          h = [g EXCEPT !.nodes[i].value = v]
    BY <1>5 DEF Revalued
  <2> QED BY <1>4, <2>1, <2>2
<1>6. CASE h \in Unlinked(g)
  <2>1. PICK l \in g.links : h = [g EXCEPT !.links = g.links \ {l}]
    BY <1>6 DEF Unlinked
  <2>2. g.links \ {l} \in SUBSET Link
    BY <1>1
  <2> QED BY <1>3, <2>1, <2>2
<1>7. CASE h \in Relinked(g)
  <2>1. PICK l \in g.links, src \in Ids(g), out \in {k.out : k \in g.links} :
          h = LinkedFrom(g, l, src, out)
    BY <1>7 DEF Relinked
  <2> DEFINE m == [l EXCEPT !.src = src, !.out = out]
  <2>2. m \in Link
    <3>1. l \in Link /\ src \in Nat /\ out \in Nat
      BY <1>1, <1>2 DEF Link
    <3> QED BY <3>1 DEF Link
  <2> HIDE DEF m
  <2>3. (g.links \ {l}) \cup {m} \in SUBSET Link
    BY <1>1, <2>2
  <2>4. h = [g EXCEPT !.links = (g.links \ {l}) \cup {m}]
    BY <2>1 DEF LinkedFrom, m
  <2> QED BY <1>3, <2>3, <2>4
<1>8. CASE h = [g EXCEPT !.nodes = SubSeq(g.nodes, 2, Len(g.nodes))]
  <2> DEFINE s == SubSeq(g.nodes, 2, Len(g.nodes))
  <2>1. h = [g EXCEPT !.nodes = s]
    BY <1>8
  <2>2. /\ s \in Seq(Node) /\ \A i \in DOMAIN s : /\ s[i] = g.nodes[i + 1] /\ i \in Nat
                                                  /\ i + 1 \in 1 .. Len(g.nodes)
    BY <1>1
  <2> HIDE DEF s
  <2>3. Apart(s)
    <3> SUFFICES ASSUME NEW i \in DOMAIN s, NEW j \in DOMAIN s, s[i].id = s[j].id PROVE i = j
      BY DEF Apart
    <3>1. i + 1 = j + 1 /\ i \in Nat /\ j \in Nat
      BY <1>1, <2>2 DEF Apart
    <3> QED BY <3>1
  <2> QED BY <1>1, <2>1, <2>2, <2>3, GraphUpdate
<1>9. CASE h \in Relisted(g)
  <2>1. PICK k \in {0, 1} :
          h = [g EXCEPT !.listed = ~g.listed, !.links = {[l EXCEPT !.slot = @ + k] : l \in g.links}]
    BY <1>9 DEF Relisted
  <2> DEFINE ls == {[l EXCEPT !.slot = @ + k] : l \in g.links}
             u  == [g EXCEPT !.listed = ~ g.listed]
  <2>2. ls \in SUBSET Link
    <3>1. ASSUME NEW l \in Link PROVE [l EXCEPT !.slot = @ + k] \in Link
      BY DEF Link
    <3> QED BY <1>1, <3>1
  <2> HIDE DEF ls
  <2>3. u \in Graph
    <3>1. (~ g.listed) \in BOOLEAN
      OBVIOUS
    <3> QED BY <1>1, <3>1, GraphUpdate
  <2>4. h = [u EXCEPT !.links = ls]
    BY <2>1, GraphParts DEF ls
  <2> HIDE DEF u
  <2>5. u.nodes \in Seq(Node) /\ Apart(u.nodes) /\ u.listed \in BOOLEAN
    BY <2>3, GraphParts DEF Apart
  <2> QED BY <2>2, <2>3, <2>4, <2>5, GraphUpdate
<1> QED BY <1>5, <1>6, <1>7, <1>8, <1>9, Zenon DEF Edited

----------------------------------------------------------------------------
\* canonical_form: the sort.

\* What nodes are sorted by: numbered apart, and the keys can be compared.
Keys(K) ==
  /\ DOMAIN K \in SUBSET (Nat \ {0}) /\ IsFiniteSet(DOMAIN K)
  /\ \A i \in DOMAIN K : K[i].class \in Nat /\ K[i].value \in Nat
  /\ \A i, j \in DOMAIN K : K[i].id = K[j].id => i = j

\* Node j comes before node i.
Ahead(K, j, i) == Before(K[j], K[i]) \/ (~Before(K[i], K[j]) /\ j < i)

LEMMA AheadIsOrder ==
  ASSUME NEW K, Keys(K), NEW i \in DOMAIN K, NEW j \in DOMAIN K
  PROVE  /\ ~Ahead(K, i, i)
         /\ i # j => Ahead(K, i, j) \/ Ahead(K, j, i)
         /\ Ahead(K, i, j) => \A k \in DOMAIN K : Ahead(K, k, i) => Ahead(K, k, j)
<1>1. \A k \in DOMAIN K : k \in Nat /\ K[k].class \in Nat /\ K[k].value \in Nat
  BY DEF Keys
<1>2. ASSUME NEW k \in DOMAIN K, Ahead(K, i, j), Ahead(K, k, i) PROVE Ahead(K, k, j)
  BY <1>1, <1>2 DEF Ahead, Before
<1>3. i # j => Ahead(K, i, j) \/ Ahead(K, j, i)
  BY <1>1 DEF Ahead, Before
<1>4. ~Ahead(K, i, i)
  BY <1>1 DEF Ahead, Before
<1> QED BY <1>2, <1>3, <1>4

Sorted(K)  == 0 .. Cardinality(DOMAIN K) - 1
Front(K, i) == {j \in DOMAIN K : Ahead(K, j, i)}

LEMMA RankIsFront ==
  ASSUME NEW K, Keys(K), NEW i \in DOMAIN K
  PROVE  /\ RankAt(K, i) = Cardinality(Front(K, i)) /\ IsFiniteSet(Front(K, i))
         /\ i \notin Front(K, i) /\ RankAt(K, i) \in Sorted(K)
         /\ Cardinality(DOMAIN K) \in Nat
<1> DEFINE D == DOMAIN K
           F == Front(K, i)
<1>1. RankAt(K, i) = Cardinality(F)
  BY DEF RankAt, Front, Ahead
<1>2. i \notin F
  BY AheadIsOrder DEF Front
<1>3. IsFiniteSet(D)
  BY DEF Keys
<1>4. IsFiniteSet(D \ {i}) /\ Cardinality(D \ {i}) = Cardinality(D) - 1
  BY <1>3, FS_RemoveElement
<1>5. F \in SUBSET (D \ {i})
  BY <1>2 DEF Front
<1>6. IsFiniteSet(F) /\ Cardinality(F) <= Cardinality(D \ {i})
  BY <1>4, <1>5, FS_Subset
<1>7. Cardinality(F) \in Nat /\ Cardinality(D) \in Nat
  BY <1>3, <1>6, FS_CardinalityType
<1> QED BY <1>1, <1>2, <1>4, <1>6, <1>7 DEF Sorted

LEMMA RankKeepsOrder ==
  ASSUME NEW K, Keys(K), NEW i \in DOMAIN K, NEW j \in DOMAIN K, Ahead(K, i, j)
  PROVE  RankAt(K, i) < RankAt(K, j)
<1> DEFINE F == Front(K, i)
           G == Front(K, j)
<1>1. /\ RankAt(K, i) = Cardinality(F) /\ IsFiniteSet(F) /\ i \notin F
      /\ RankAt(K, j) = Cardinality(G) /\ IsFiniteSet(G)
  BY RankIsFront
<1>2. F \cup {i} \in SUBSET G
  BY AheadIsOrder DEF Front
<1>3. Cardinality(F \cup {i}) = Cardinality(F) + 1
  BY <1>1, FS_AddElement
<1>4. Cardinality(F \cup {i}) <= Cardinality(G)
  BY <1>1, <1>2, FS_Subset
<1>5. Cardinality(F) \in Nat /\ Cardinality(G) \in Nat
  BY <1>1, FS_CardinalityType
<1> QED BY <1>1, <1>3, <1>4, <1>5

\* The sort puts every node at a place of its own, and leaves no place free.
LEMMA SortIsPermutation ==
  ASSUME NEW K, Keys(K)
  PROVE  /\ \A i, j \in DOMAIN K : RankAt(K, i) = RankAt(K, j) => i = j
         /\ \A i \in DOMAIN K : RankAt(K, i) \in Sorted(K) /\ AtRank(K, RankAt(K, i)) = i
         /\ \A r \in Sorted(K) : AtRank(K, r) \in DOMAIN K /\ RankAt(K, AtRank(K, r)) = r
<1> DEFINE D == DOMAIN K
           n == Cardinality(D)
           T == Sorted(K)
           R == [i \in D |-> RankAt(K, i)]
<1>1. \A i \in D : RankAt(K, i) \in T
  BY RankIsFront
<1>2. ASSUME NEW i \in D, NEW j \in D, RankAt(K, i) = RankAt(K, j) PROVE i = j
  <2>1. RankAt(K, i) \in Int /\ RankAt(K, j) \in Int
    BY <1>1 DEF Sorted
  <2> QED BY <1>2, <2>1, RankKeepsOrder, AheadIsOrder
<1>3. IsFiniteSet(D) /\ n \in Nat
  BY FS_CardinalityType DEF Keys
<1>4. IsFiniteSet(T) /\ Cardinality(T) = n
  <2>1. 0 \in Int /\ n - 1 \in Int
    BY <1>3
  <2>2. IsFiniteSet(T) /\ Cardinality(T) = IF 0 > n - 1 THEN 0 ELSE (n - 1) - 0 + 1
    BY <2>1, FS_Interval DEF Sorted
  <2> QED BY <1>3, <2>2
<1>5. R \in Injection(D, T)
  BY <1>1, <1>2 DEF Injection, IsInjective
<1>6. R \in Surjection(D, T)
  <2> HIDE DEF R, D, T, n
  <2> QED BY <1>3, <1>4, <1>5, FS_Injection DEF n
<1>7. \A r \in T : \E i \in D : RankAt(K, i) = r
  BY <1>6 DEF Surjection
<1>8. \A r \in T : AtRank(K, r) \in D /\ RankAt(K, AtRank(K, r)) = r
  BY <1>7 DEF AtRank
<1>9. \A i \in D : AtRank(K, RankAt(K, i)) = i
  BY <1>1, <1>2, <1>8
<1> QED BY <1>1, <1>2, <1>8, <1>9

LEMMA MaxAbove ==
  ASSUME NEW b \in Int, NEW x \in Int, b <= x
  PROVE  Max({b} \cup {x}) = x /\ Max({b} \cup {}) = b
<1>1. \A y \in {b} \cup {x} : x >= y
  OBVIOUS
<1>2. Max({b} \cup {x}) \in {b} \cup {x} /\ \A y \in {b} \cup {x} : Max({b} \cup {x}) >= y
  BY <1>1 DEF Max
<1>3. Max({b} \cup {}) \in {b} \cup {}
  <2>1. \E z \in {b} \cup {} : \A y \in {b} \cup {} : z >= y
    OBVIOUS
  <2> QED BY <2>1 DEF Max
<1> QED BY <1>2, <1>3

\* Where a link's end is, among the nodes and in the sorted list.
Has(K, id) == \E i \in DOMAIN K : K[i].id = id
LEMMA EndPlaced ==
  ASSUME NEW K, Keys(K), NEW id
  PROVE  /\ Has(K, id) => /\ PlaceOf(K, id) \in DOMAIN K /\ PlaceOf(K, id) # 0
                          /\ RankOf(K, id) = RankAt(K, PlaceOf(K, id))
         /\ ~Has(K, id) => PlaceOf(K, id) = 0 /\ RankOf(K, id) = -1
<1> DEFINE at == {i \in DOMAIN K : K[i].id = id}
<1>1. PlaceOf(K, id) = Max({0} \cup at)
  BY DEF PlaceOf
<1>2. RankOf(K, id) = Max({-1} \cup {RankAt(K, i) : i \in at})
  BY DEF RankOf
<1>3. CASE Has(K, id)
  <2>1. PICK i \in DOMAIN K : at = {i}
    <3>1. PICK i \in DOMAIN K : K[i].id = id
      BY <1>3 DEF Has
    <3>2. at = {i}
      BY <3>1 DEF Keys
    <3> QED BY <3>2
  <2>2. i \in Nat \ {0} /\ {RankAt(K, j) : j \in at} = {RankAt(K, i)}
    BY <2>1 DEF Keys
  <2>3. RankAt(K, i) \in Int /\ -1 <= RankAt(K, i)
    BY <2>1, RankIsFront DEF Sorted
  <2> HIDE DEF at
  <2>4. PlaceOf(K, id) = i
    <3>1. 0 \in Int /\ i \in Int /\ 0 <= i
      BY <2>2
    <3>2. Max({0} \cup {i}) = i
      BY <3>1, MaxAbove
    <3> QED BY <1>1, <2>1, <3>2
  <2>5. RankOf(K, id) = RankAt(K, i)
    <3> DEFINE r == RankAt(K, i)
    <3> HIDE DEF r
    <3>1. -1 \in Int /\ r \in Int /\ -1 <= r
      BY <2>3 DEF r
    <3>2. Max({-1} \cup {r}) = r
      BY <3>1, MaxAbove
    <3> QED BY <1>2, <2>2, <3>2 DEF r
  <2> QED BY <1>3, <2>1, <2>2, <2>4, <2>5
<1>4. CASE ~Has(K, id)
  <2>1. at = {} /\ {RankAt(K, i) : i \in at} = {}
    BY <1>4 DEF Has
  <2>2. Max({0} \cup {}) = 0 /\ Max({-1} \cup {}) = -1
    BY MaxAbove
  <2> HIDE DEF at
  <2> QED BY <1>1, <1>2, <1>4, <2>1, <2>2
<1> QED BY <1>3, <1>4

\* Two lists have the same elements as often when two others have, from which
\* they differ only in what the elements are called.
LEMMA BagsAlike ==
  ASSUME NEW f, NEW g, NEW p, NEW q, DOMAIN p = DOMAIN f, DOMAIN q = DOMAIN g,
         \A l \in DOMAIN f : \A m \in DOMAIN f : f[l] = f[m] <=> p[l] = p[m],
         \A l \in DOMAIN f : \A m \in DOMAIN g : f[l] = g[m] <=> p[l] = q[m],
         \A l \in DOMAIN g : \A m \in DOMAIN g : g[l] = g[m] <=> q[l] = q[m],
         Bag(f) = Bag(g)
  PROVE  Bag(p) = Bag(q)
<1>1. Range(f) = Range(g)
  BY DEF Bag
<1>2. ASSUME NEW l \in DOMAIN f, NEW m \in DOMAIN g, f[l] = g[m]
      PROVE  /\ p[l] = q[m]
             /\ Bag(p)[p[l]] = Bag(q)[p[l]]
  <2>1. p[l] = q[m]
    BY <1>2
  <2>2. f[l] \in Range(f) /\ p[l] \in Range(p) /\ q[m] \in Range(q)
    BY DEF Range
  <2>3. Cardinality({k \in DOMAIN f : f[k] = f[l]}) = Cardinality({k \in DOMAIN g : g[k] = g[m]})
    <3>1. Bag(f)[f[l]] = Cardinality({k \in DOMAIN f : f[k] = f[l]})
      BY <2>2 DEF Bag
    <3>2. Bag(g)[g[m]] = Cardinality({k \in DOMAIN g : g[k] = g[m]})
      BY <1>1, <1>2, <2>2 DEF Bag
    <3> QED BY <1>2, <3>1, <3>2
  <2>4. {k \in DOMAIN p : p[k] = p[l]} = {k \in DOMAIN f : f[k] = f[l]}
    OBVIOUS
  <2>5. {k \in DOMAIN q : q[k] = q[m]} = {k \in DOMAIN g : g[k] = g[m]}
    OBVIOUS
  <2>6. Bag(p)[p[l]] = Cardinality({k \in DOMAIN p : p[k] = p[l]})
    BY <2>2 DEF Bag
  <2>7. Bag(q)[q[m]] = Cardinality({k \in DOMAIN q : q[k] = q[m]})
    BY <2>2 DEF Bag
  <2> QED BY <2>1, <2>3, <2>4, <2>5, <2>6, <2>7
<1>3. \A l \in DOMAIN f : \E m \in DOMAIN g : f[l] = g[m]
  BY <1>1 DEF Range
<1>4. \A m \in DOMAIN g : \E l \in DOMAIN f : f[l] = g[m]
  BY <1>1 DEF Range
<1>5. Range(p) = Range(q)
  <2>1. Range(p) \subseteq Range(q)
    BY <1>2, <1>3 DEF Range
  <2>2. Range(q) \subseteq Range(p)
    BY <1>2, <1>4 DEF Range
  <2> QED BY <2>1, <2>2
<1>6. \A e \in Range(p) : Bag(p)[e] = Bag(q)[e]
  <2> SUFFICES ASSUME NEW l \in DOMAIN p PROVE Bag(p)[p[l]] = Bag(q)[p[l]]
    BY DEF Range
  <2> QED BY <1>2, <1>3
<1>7. /\ Bag(p) = [e \in Range(p) |-> Bag(p)[e]] /\ Bag(q) = [e \in Range(q) |-> Bag(q)[e]]
  BY DEF Bag
<1> QED BY <1>5, <1>6, <1>7

\* A link's end is at rank r and at place i of K, or not among its nodes.
Coded(K, r, i) == \/ r = -1 /\ i = 0
                  \/ i \in DOMAIN K /\ r = RankAt(K, i)

LEMMA CodesAgree ==
  ASSUME NEW K, Keys(K), NEW r, NEW i, Coded(K, r, i), NEW s, NEW j, Coded(K, s, j)
  PROVE  r = s <=> i = j
<1>1. \A k \in DOMAIN K : k # 0 /\ RankAt(K, k) \in Nat
  BY RankIsFront DEF Keys, Sorted
<1>2. \A k, l \in DOMAIN K : RankAt(K, k) = RankAt(K, l) => k = l
  BY SortIsPermutation
<1> QED BY <1>1, <1>2 DEF Coded

\* A matching of the nodes that follows the sort keeps the links when the forms
\* have the same.
LEMMA MatchedEnds ==
  ASSUME NEW a, Keys(a), NEW b, Keys(b), NEW p \in [DOMAIN a -> DOMAIN b],
         \A i \in DOMAIN a : RankAt(b, p[i]) = RankAt(a, i),
         NEW L, NEW M, NEW kind
  PROVE  CanonicalForm(a, L, kind).e = CanonicalForm(b, M, kind).e
           <=> Ends(a, L, kind, p) = Ends(b, M, kind, [i \in DOMAIN b |-> i])
<1> DEFINE q == [i \in DOMAIN b |-> i]
           IA(x) == IF PlaceOf(a, x) = 0 THEN 0 ELSE p[PlaceOf(a, x)]
           IB(x) == IF PlaceOf(b, x) = 0 THEN 0 ELSE q[PlaceOf(b, x)]
           fa == [l \in L |-> <<RankOf(a, l.src), RankOf(a, l.dst), Says(kind, l)>>]
           fb == [l \in M |-> <<RankOf(b, l.src), RankOf(b, l.dst), Says(kind, l)>>]
           ea == [l \in L |-> <<IA(l.src), IA(l.dst), Says(kind, l)>>]
           eb == [l \in M |-> <<IB(l.src), IB(l.dst), Says(kind, l)>>]
<1>1. \A x : Coded(b, RankOf(a, x), IA(x))
  BY EndPlaced DEF Coded
<1>2. \A x : Coded(b, RankOf(b, x), IB(x))
  BY EndPlaced DEF Coded
<1>3. /\ CanonicalForm(a, L, kind).e = Bag(fa) /\ CanonicalForm(b, M, kind).e = Bag(fb)
      /\ Ends(a, L, kind, p) = Bag(ea) /\ Ends(b, M, kind, q) = Bag(eb)
  BY DEF CanonicalForm, Ends
<1> HIDE DEF IA, IB
<1>4. /\ \A x, y : RankOf(a, x) = RankOf(a, y) <=> IA(x) = IA(y)
      /\ \A x, y : RankOf(a, x) = RankOf(b, y) <=> IA(x) = IB(y)
      /\ \A x, y : RankOf(b, x) = RankOf(b, y) <=> IB(x) = IB(y)
  BY <1>1, <1>2, CodesAgree
<1>5. \A l, m \in L : fa[l] = fa[m] <=> ea[l] = ea[m]
  BY <1>4
<1>6. \A l \in L : \A m \in M : fa[l] = fb[m] <=> ea[l] = eb[m]
  BY <1>4
<1>7. \A l, m \in M : fb[l] = fb[m] <=> eb[l] = eb[m]
  BY <1>4
<1>8. DOMAIN fa = L /\ DOMAIN ea = L /\ DOMAIN fb = M /\ DOMAIN eb = M
  OBVIOUS
<1> HIDE DEF fa, fb, ea, eb, q
<1>9. Bag(fa) = Bag(fb) => Bag(ea) = Bag(eb)
  BY <1>5, <1>6, <1>7, <1>8, BagsAlike
<1>10. Bag(ea) = Bag(eb) => Bag(fa) = Bag(fb)
  BY <1>5, <1>6, <1>7, <1>8, BagsAlike
<1> QED BY <1>3, <1>9, <1>10 DEF q

\* Some matching of the nodes keeps keys and links.
Matches(a, L, b, M, kind) ==
  \E p \in Bijection(DOMAIN a, DOMAIN b) :
    /\ \A i \in DOMAIN a : a[i].class = b[p[i]].class /\ a[i].value = b[p[i]].value
    /\ Ends(a, L, kind, p) = Ends(b, M, kind, [i \in DOMAIN b |-> i])

\* Equal forms match the nodes that are sorted to the same place.
LEMMA FormMatches ==
  ASSUME NEW a, Keys(a), NEW b, Keys(b), NEW L, NEW M, NEW kind,
         CanonicalForm(a, L, kind) = CanonicalForm(b, M, kind)
  PROVE  Matches(a, L, b, M, kind)
<1> DEFINE na == CanonicalForm(a, L, kind).n
           nb == CanonicalForm(b, M, kind).n
           p == [i \in DOMAIN a |-> AtRank(b, RankAt(a, i))]
<1>1. /\ na = [r \in Sorted(a) |-> LET i == AtRank(a, r) IN <<a[i].class, a[i].value>>]
      /\ nb = [r \in Sorted(b) |-> LET i == AtRank(b, r) IN <<b[i].class, b[i].value>>]
      /\ na = nb
  BY DEF CanonicalForm, Sorted
<1>2. Sorted(a) = Sorted(b)
  BY <1>1
<1>3. ASSUME NEW i \in DOMAIN a
      PROVE  /\ p[i] \in DOMAIN b /\ RankAt(b, p[i]) = RankAt(a, i)
             /\ a[i].class = b[p[i]].class /\ a[i].value = b[p[i]].value
  <2> DEFINE r == RankAt(a, i)
  <2>1. r \in Sorted(a) /\ AtRank(a, r) = i
    BY SortIsPermutation
  <2>2. AtRank(b, r) \in DOMAIN b /\ RankAt(b, AtRank(b, r)) = r
    BY <1>2, <2>1, SortIsPermutation
  <2>3. na[r] = <<a[i].class, a[i].value>> /\ nb[r] = <<b[p[i]].class, b[p[i]].value>>
    BY <1>1, <1>2, <2>1
  <2> QED BY <1>1, <2>2, <2>3
<1>4. p \in [DOMAIN a -> DOMAIN b]
  BY <1>3
<1>5. p \in Bijection(DOMAIN a, DOMAIN b)
  <2>1. \A i, j \in DOMAIN a : p[i] = p[j] => i = j
    <3> SUFFICES ASSUME NEW i \in DOMAIN a, NEW j \in DOMAIN a, p[i] = p[j] PROVE i = j
      OBVIOUS
    <3>1. RankAt(a, i) = RankAt(a, j)
      BY <1>3
    <3> QED BY <3>1, SortIsPermutation
  <2>2. \A k \in DOMAIN b : \E i \in DOMAIN a : p[i] = k
    <3> SUFFICES ASSUME NEW k \in DOMAIN b PROVE \E i \in DOMAIN a : p[i] = k
      OBVIOUS
    <3>1. RankAt(b, k) \in Sorted(a) /\ AtRank(b, RankAt(b, k)) = k
      BY <1>2, SortIsPermutation
    <3>2. /\ AtRank(a, RankAt(b, k)) \in DOMAIN a
          /\ RankAt(a, AtRank(a, RankAt(b, k))) = RankAt(b, k)
      BY <3>1, SortIsPermutation
    <3> QED BY <3>1, <3>2
  <2> HIDE DEF p
  <2> QED BY <1>4, <2>1, <2>2 DEF Bijection, Injection, Surjection, IsInjective
<1>6. Ends(a, L, kind, p) = Ends(b, M, kind, [i \in DOMAIN b |-> i])
  <2> HIDE DEF p
  <2> QED BY <1>3, <1>4, MatchedEnds
<1> HIDE DEF p
<1> QED BY <1>3, <1>5, <1>6 DEF Matches

\* No two nodes have equal keys.
Untied(K) ==
  \A i, j \in DOMAIN K : K[i].class = K[j].class /\ K[i].value = K[j].value => i = j

\* Without ties a matching that keeps the keys follows the sort.
LEMMA MatchFollowsSort ==
  ASSUME NEW a, Keys(a), Untied(a), NEW b, Keys(b), NEW p \in Bijection(DOMAIN a, DOMAIN b),
         \A i \in DOMAIN a : a[i].class = b[p[i]].class /\ a[i].value = b[p[i]].value,
         NEW i \in DOMAIN a
  PROVE  RankAt(b, p[i]) = RankAt(a, i)
<1>1. /\ p \in [DOMAIN a -> DOMAIN b]
      /\ \A j, k \in DOMAIN a : p[j] = p[k] => j = k
      /\ \A k \in DOMAIN b : \E j \in DOMAIN a : p[j] = k
  BY DEF Bijection, Injection, Surjection, IsInjective
<1>2. ASSUME NEW j \in DOMAIN a PROVE Ahead(a, j, i) <=> Ahead(b, p[j], p[i])
  <2>1. /\ a[i].class \in Nat /\ a[i].value \in Nat /\ a[j].class \in Nat /\ a[j].value \in Nat
        /\ p[i] \in DOMAIN b /\ p[j] \in DOMAIN b
    BY <1>1 DEF Keys
  <2>2. CASE j = i
    BY <2>1, <2>2, AheadIsOrder
  <2>3. CASE j # i
    <3>1. a[i].class # a[j].class \/ a[i].value # a[j].value
      BY <2>3 DEF Untied
    <3>2. Before(a[j], a[i]) \/ Before(a[i], a[j])
      BY <2>1, <3>1 DEF Before
    <3>3. /\ Before(a[j], a[i]) <=> Before(b[p[j]], b[p[i]])
          /\ Before(a[i], a[j]) <=> Before(b[p[i]], b[p[j]])
      BY DEF Before
    <3>4. ~(Before(a[j], a[i]) /\ Before(a[i], a[j]))
      BY <2>1 DEF Before
    <3> QED BY <3>2, <3>3, <3>4 DEF Ahead
  <2> QED BY <2>2, <2>3
<1> DEFINE F == Front(a, i)
           G == Front(b, p[i])
           q == [j \in F |-> p[j]]
<1>3. F \subseteq DOMAIN a /\ G \subseteq DOMAIN b
  BY DEF Front
<1>4. q \in [F -> G]
  BY <1>1, <1>2 DEF Front
<1>5. \A j, k \in F : q[j] = q[k] => j = k
  BY <1>1, <1>3
<1>6. \A k \in G : \E j \in F : q[j] = k
  <2> SUFFICES ASSUME NEW k \in G PROVE \E j \in F : q[j] = k
    OBVIOUS
  <2>1. PICK j \in DOMAIN a : p[j] = k
    BY <1>1, <1>3
  <2>2. j \in F
    BY <1>2, <2>1 DEF Front
  <2> QED BY <2>1, <2>2
<1>7. IsFiniteSet(F) /\ RankAt(a, i) = Cardinality(F)
  BY RankIsFront
<1>8. p[i] \in DOMAIN b /\ RankAt(b, p[i]) = Cardinality(G)
  BY <1>1, RankIsFront
<1> HIDE DEF F, G, q
<1>9. q \in Bijection(F, G)
  BY <1>4, <1>5, <1>6 DEF Bijection, Injection, Surjection, IsInjective
<1>10. Cardinality(G) = Cardinality(F)
  BY <1>7, <1>9, FS_Bijection DEF ExistsBijection
<1> QED BY <1>7, <1>8, <1>10

LEMMA MatchGivesForm ==
  ASSUME NEW a, Keys(a), Untied(a), NEW b, Keys(b), NEW L, NEW M, NEW kind, Matches(a, L, b, M, kind)
  PROVE  CanonicalForm(a, L, kind) = CanonicalForm(b, M, kind)
<1> PICK p \in Bijection(DOMAIN a, DOMAIN b) :
      /\ \A i \in DOMAIN a : a[i].class = b[p[i]].class /\ a[i].value = b[p[i]].value
      /\ Ends(a, L, kind, p) = Ends(b, M, kind, [i \in DOMAIN b |-> i])
  BY DEF Matches
<1>1. p \in [DOMAIN a -> DOMAIN b]
  BY DEF Bijection, Injection
<1>2. \A i \in DOMAIN a : RankAt(b, p[i]) = RankAt(a, i)
  BY MatchFollowsSort
<1>3. CanonicalForm(a, L, kind).e = CanonicalForm(b, M, kind).e
  BY <1>1, <1>2, MatchedEnds
<1>4. Sorted(a) = Sorted(b)
  <2>1. Cardinality(DOMAIN b) = Cardinality(DOMAIN a)
    BY FS_Bijection DEF Keys, ExistsBijection
  <2> QED BY <2>1 DEF Sorted
<1>5. ASSUME NEW r \in Sorted(a)
      PROVE  LET i == AtRank(a, r)
                 j == AtRank(b, r)
             IN <<a[i].class, a[i].value>> = <<b[j].class, b[j].value>>
  <2>1. AtRank(a, r) \in DOMAIN a /\ RankAt(a, AtRank(a, r)) = r
    BY SortIsPermutation
  <2>2. p[AtRank(a, r)] \in DOMAIN b /\ RankAt(b, p[AtRank(a, r)]) = r
    BY <1>1, <1>2, <2>1
  <2>3. AtRank(b, r) = p[AtRank(a, r)]
    BY <2>2, SortIsPermutation
  <2> QED BY <2>1, <2>3
<1>6. CanonicalForm(a, L, kind).n = CanonicalForm(b, M, kind).n
  <2>1. /\ CanonicalForm(a, L, kind).n
             = [r \in Sorted(a) |-> LET i == AtRank(a, r) IN <<a[i].class, a[i].value>>]
        /\ CanonicalForm(b, M, kind).n
             = [r \in Sorted(b) |-> LET j == AtRank(b, r) IN <<b[j].class, b[j].value>>]
    BY DEF CanonicalForm, Sorted
  <2> QED BY <1>4, <1>5, <2>1
<1>7. /\ CanonicalForm(a, L, kind) = [n |-> CanonicalForm(a, L, kind).n, e |-> CanonicalForm(a, L, kind).e]
      /\ CanonicalForm(b, M, kind) = [n |-> CanonicalForm(b, M, kind).n, e |-> CanonicalForm(b, M, kind).e]
  BY DEF CanonicalForm
<1> QED BY <1>3, <1>6, <1>7

----------------------------------------------------------------------------
\* canonical_form: what is sorted.

LEMMA WrittenOnce ==
  ASSUME NEW g \in Graph, NEW n \in Range(g.nodes)
  PROVE  Written(g, n) = {} \/ \E v \in Nat : Written(g, n) = {v}
<1> DEFINE from == {l \in Feeding(g, n) : l.input = Loader /\ l.src \in Ids(g)}
           v == IF from = {} THEN n.value ELSE NodeOf(g, (CHOOSE l \in from : TRUE).src).value
<1>1. \A m \in Range(g.nodes) : m.value \in Nat
  BY GraphParts DEF Range, Node
<1>2. \A id \in Ids(g) : NodeOf(g, id) \in Range(g.nodes)
  BY DEF Ids, NodeOf
<1>3. from # {} => (CHOOSE l \in from : TRUE).src \in Ids(g)
  OBVIOUS
<1>4. v \in Nat
  BY <1>1, <1>2, <1>3
<1>5. Written(g, n) = {} \/ Written(g, n) = {v}
  BY DEF Written
<1> HIDE DEF v
<1> QED BY <1>4, <1>5

LEMMA KeyedKeys ==
  ASSUME NEW g \in Graph, NEW kind, NEW keep
  PROVE  Keys(Keyed(g, kind, keep))
<1> DEFINE K == Keyed(g, kind, keep)
           P == {j \in DOMAIN g.nodes : kind = "save" \/ g.nodes[j] \in Executed(g)}
<1>1. P \in SUBSET (1 .. Len(g.nodes)) /\ Len(g.nodes) \in Nat
  BY GraphParts
<1>2. IsFiniteSet(P) /\ P \in SUBSET (Nat \ {0})
  <2>1. IsFiniteSet(1 .. Len(g.nodes))
    BY <1>1, FS_Interval
  <2>2. IsFiniteSet(P)
    BY <1>1, <2>1, FS_Subset
  <2> HIDE DEF P
  <2> QED BY <1>1, <2>2
<1>3. ASSUME NEW n \in Range(g.nodes) PROVE ValueOf(g, n, kind, keep) \in Nat
  <2>1. n.value \in Nat
    BY GraphParts DEF Range, Node
  <2>2. Cardinality(Written(g, n)) \in Nat
    <3>1. CASE Written(g, n) = {}
      BY <3>1, FS_EmptySet
    <3>2. ASSUME NEW v \in Nat, Written(g, n) = {v} PROVE Cardinality(Written(g, n)) \in Nat
      <4>1. Cardinality({v}) = 1
        BY FS_Singleton
      <4> QED BY <3>2, <4>1
    <3> QED BY <3>1, <3>2, WrittenOnce
  <2>3. Max({0} \cup Written(g, n)) \in Nat
    <3>1. CASE Written(g, n) = {}
      <4>1. Max({0} \cup {}) = 0
        BY MaxAbove
      <4> QED BY <3>1, <4>1
    <3>2. ASSUME NEW v \in Nat, Written(g, n) = {v} PROVE Max({0} \cup Written(g, n)) \in Nat
      <4>1. 0 \in Int /\ v \in Int /\ 0 <= v
        OBVIOUS
      <4>2. Max({0} \cup {v}) = v
        BY <4>1, MaxAbove
      <4> QED BY <3>2, <4>2
    <3> QED BY <3>1, <3>2, WrittenOnce
  <2> QED BY <2>1, <2>2, <2>3 DEF ValueOf
<1>4. /\ DOMAIN K = P
      /\ \A i \in P : K[i] = [id |-> g.nodes[i].id, class |-> g.nodes[i].class,
                              value |-> ValueOf(g, g.nodes[i], kind, keep)]
  BY DEF Keyed
<1>5. \A i \in P : /\ i \in DOMAIN g.nodes /\ g.nodes[i] \in Range(g.nodes)
                    /\ g.nodes[i].class \in Nat
  BY GraphParts DEF Range, Node
<1> HIDE DEF P, K
<1>6. \A i \in P : K[i].id = g.nodes[i].id /\ K[i].class \in Nat /\ K[i].value \in Nat
  BY <1>3, <1>4, <1>5
<1>7. \A i, j \in P : K[i].id = K[j].id => i = j
  BY <1>5, <1>6, GraphParts
<1>8. Keys(K)
  BY <1>2, <1>4, <1>6, <1>7 DEF Keys
<1> QED BY <1>8 DEF K

\* The two forms in a row.
FormIn(r, keep) == IF keep THEN r.canonical ELSE r.structural
LEMMA FormOfRow ==
  ASSUME NEW g, NEW kind, NEW keep \in BOOLEAN
  PROVE  FormIn(Derived(g, kind), keep) = Form(g, kind, keep)
<1> DEFINE c == Form(g, kind, TRUE)
           s == Form(g, kind, FALSE)
           B == Derived(g, kind).bindings
<1>1. Derived(g, kind) = [kind |-> kind, canonical |-> c, structural |-> s, bindings |-> B]
  BY DEF Derived
<1>2. keep = TRUE => c = Form(g, kind, keep)
  BY Zenon
<1>3. keep = FALSE => s = Form(g, kind, keep)
  BY Zenon
<1> HIDE DEF c, s, B
<1>4. Derived(g, kind).canonical = c /\ Derived(g, kind).structural = s
  BY <1>1
<1> QED BY <1>2, <1>3, <1>4 DEF FormIn

LEMMA FormsDecide ==
  ASSUME NEW g \in Graph, NEW h \in Graph, NEW kind, NEW keep
  PROVE  /\ Form(g, kind, keep) = Form(h, kind, keep) => SameWorkflow(g, h, kind, keep)
         /\ SameWorkflow(g, h, kind, keep) /\ ~Tied(g, kind, keep) =>
              Form(g, kind, keep) = Form(h, kind, keep)
<1> DEFINE a == Keyed(g, kind, keep)
           b == Keyed(h, kind, keep)
           L == LinksOf(g, kind)
           M == LinksOf(h, kind)
<1>1. Keys(a) /\ Keys(b)
  BY KeyedKeys
<1>2. Form(g, kind, keep) = CanonicalForm(a, L, kind) /\ Form(h, kind, keep) = CanonicalForm(b, M, kind)
  BY DEF Form
<1>3. SameWorkflow(g, h, kind, keep) <=> Matches(a, L, b, M, kind)
  BY Zenon DEF SameWorkflow, Matches
<1>4. ~Tied(g, kind, keep) => Untied(a)
  BY DEF Tied, Untied
<1> HIDE DEF a, b, L, M
<1>5. Form(g, kind, keep) = Form(h, kind, keep) => SameWorkflow(g, h, kind, keep)
  BY <1>1, <1>2, <1>3, FormMatches
<1>6. SameWorkflow(g, h, kind, keep) /\ ~Tied(g, kind, keep) =>
        Form(g, kind, keep) = Form(h, kind, keep)
  BY <1>1, <1>2, <1>3, <1>4, MatchGivesForm
<1> QED BY <1>5, <1>6

----------------------------------------------------------------------------
\* The rows of the lake.

\* Every row was derived from a workflow somebody shared.
LakeOK ==
  \A x \in lake : /\ x.of \in Graph /\ x.row.kind \in {"save", "api"}
                 /\ x.row = Derived(x.of, x.row.kind)

LEMMA RowIsDerived ==
  ASSUME NEW g \in Graph, NEW kind \in {"save", "api"}
  PROVE  /\ Row(g, kind).of \in Graph /\ Row(g, kind).row.kind = kind
         /\ Row(g, kind).row = Derived(Row(g, kind).of, Row(g, kind).row.kind)
BY DEF Row, Derived

\* What is said of a node is said of it alone.
LEMMA NodesApart ==
  ASSUME NEW g \in Graph, NEW m \in Range(g.nodes), NEW n \in Range(g.nodes), m.id = n.id
  PROVE  m = n
<1>1. PICK i \in DOMAIN g.nodes : m = g.nodes[i]
  BY DEF Range
<1>2. PICK j \in DOMAIN g.nodes : n = g.nodes[j]
  BY DEF Range
<1>3. g.nodes[i].id = g.nodes[j].id
  BY <1>1, <1>2
<1> QED BY <1>1, <1>2, <1>3, GraphParts

LEMMA BindingTells ==
  ASSUME NEW n, NEW name, NEW linked \in BOOLEAN
  PROVE  (Binding(n, name, linked).binding = "link") = linked
BY DEF Binding

LEMMA SaveOfNode ==
  ASSUME NEW g \in Graph, NEW n \in Executed(g)
  PROVE  {b \in Derived(g, "save").bindings : b.node = n.id} = SaveBindings(g, n)
<1>1. \A m : \A b \in SaveBindings(g, m) : b.node = m.id
  <2> SUFFICES ASSUME NEW m, NEW b \in SaveBindings(g, m) PROVE b.node = m.id
    OBVIOUS
  <2>1. b = Binding(m, Loader, Fed(g, m, Loader)) \/ b = Binding(m, Loader, FALSE)
    BY DEF SaveBindings
  <2> QED BY <2>1 DEF Binding
<1>2. Derived(g, "save").bindings = UNION {SaveBindings(g, m) : m \in Range(g.nodes)}
  BY DEF Derived
<1>3. n \in Range(g.nodes) /\ \A m \in Range(g.nodes) : m.id = n.id => m = n
  BY NodesApart DEF Executed
<1> QED BY <1>1, <1>2, <1>3

LEMMA ApiOfNode ==
  ASSUME NEW g \in Graph, NEW n \in Executed(g)
  PROVE  {b \in Derived(g, "api").bindings : b.node = n.id} = ApiBindings(g, n)
<1>1. \A m : \A b \in ApiBindings(g, m) : b.node = m.id
  <2> SUFFICES ASSUME NEW m, NEW b \in ApiBindings(g, m) PROVE b.node = m.id
    OBVIOUS
  <2>1. b = Binding(m, Loader, TRUE) \/ b = Binding(m, Loader, FALSE)
    BY DEF ApiBindings
  <2> QED BY <2>1 DEF Binding
<1>2. Derived(g, "api").bindings = UNION {ApiBindings(g, m) : m \in Executed(g)}
  BY DEF Derived
<1>3. n \in Executed(g) /\ \A m \in Executed(g) : m.id = n.id => m = n
  BY NodesApart DEF Executed
<1> QED BY <1>1, <1>2, <1>3

\* A prompt binds the loader input of every node it has, a canvas that of a node
\* whose input is fed, listed, or known to the reference table.
LEMMA BothShapes ==
  ASSUME NEW g \in Graph, NEW n \in Executed(g), \A l \in Feeding(g, n) : l \in Sent(g, n)
  PROVE  LET fed == Fed(g, n, Loader) IN
         /\ fed \in BOOLEAN
         /\ ApiBindings(g, n) = {Binding(n, Loader, fed)}
         /\ SaveBindings(g, n) \subseteq {Binding(n, Loader, fed)}
         /\ fed \/ (n.class \in DOMAIN CoreInputs /\ Loader \in CoreInputs[n.class]) =>
              SaveBindings(g, n) = {Binding(n, Loader, fed)}
<1> DEFINE fed == Fed(g, n, Loader)
<1>1. fed \in BOOLEAN
  BY Zenon DEF Fed
<1>2. Sent(g, n) \subseteq Feeding(g, n) /\ Feeding(g, n) \subseteq Sent(g, n)
  BY DEF Sent
<1>3. fed <=> \E l \in Sent(g, n) : l.input = Loader
  BY <1>2 DEF Fed, Feeding
<1>4. CASE fed
  <2>1. Written(g, n) = {}
    BY <1>3, <1>4 DEF Written
  <2>2. ApiBindings(g, n) = {Binding(n, Loader, TRUE)}
    BY <1>3, <1>4, <2>1 DEF ApiBindings
  <2>3. SaveBindings(g, n) = {Binding(n, Loader, fed)}
    BY <1>4, Zenon DEF SaveBindings
  <2>4. fed = TRUE
    BY <1>1, <1>4
  <2> QED BY <1>1, <2>2, <2>3, <2>4
<1>5. CASE ~ fed
  <2>0. fed = FALSE
    BY <1>1, <1>5
  <2>1. \E v : Written(g, n) = {v}
    BY <1>3, <1>5 DEF Written
  <2>2. ApiBindings(g, n) = {Binding(n, Loader, FALSE)}
    BY <1>3, <1>5, <2>1 DEF ApiBindings
  <2>3. /\ SaveBindings(g, n) \subseteq {Binding(n, Loader, FALSE)}
        /\ n.class \in DOMAIN CoreInputs /\ Loader \in CoreInputs[n.class] =>
             SaveBindings(g, n) = {Binding(n, Loader, FALSE)}
    <3>1. SaveBindings(g, n) =
            IF g.listed /\ n.class \notin Virtual THEN {Binding(n, Loader, FALSE)}
            ELSE IF n.class \in DOMAIN CoreInputs /\ Loader \in CoreInputs[n.class]
                 THEN {Binding(n, Loader, FALSE)} ELSE {}
      BY <1>5, <2>0 DEF SaveBindings
    <3> QED BY <3>1
  <2> QED BY <1>1, <1>5, <2>0, <2>2, <2>3
<1> QED BY <1>4, <1>5

LEMMA LakeAgrees == LakeOK => BindingsAgree
<1> SUFFICES ASSUME LakeOK, NEW x \in lake, NEW y \in lake,
                    x.of = y.of, x.row.kind = "save", y.row.kind = "api"
             PROVE  LET g == x.of
                        Plain(n) == \A l \in Feeding(g, n) : l \in Sent(g, n)
                        Of(z, n) == {b \in z.row.bindings : b.node = n.id}
                        links(z, n) == {b \in Of(z, n) : b.binding = "link"}
                    IN \A n \in Executed(g) : Plain(n) =>
                         /\ links(x, n) = links(y, n)
                         /\ Of(x, n) \subseteq Of(y, n)
                         /\ n.class \in DOMAIN CoreInputs /\ Loader \in CoreInputs[n.class] =>
                              Of(x, n) = Of(y, n)
  BY Zenon DEF BindingsAgree
<1> DEFINE g == x.of
           Of(z, n) == {b \in z.row.bindings : b.node = n.id}
           links(z, n) == {b \in Of(z, n) : b.binding = "link"}
<1>1. g \in Graph /\ x.row = Derived(g, "save") /\ y.row = Derived(g, "api")
  BY DEF LakeOK
<1>2. ASSUME NEW n \in Executed(g), \A l \in Feeding(g, n) : l \in Sent(g, n)
      PROVE  /\ links(x, n) = links(y, n)
             /\ Of(x, n) \subseteq Of(y, n)
             /\ n.class \in DOMAIN CoreInputs /\ Loader \in CoreInputs[n.class] =>
                  Of(x, n) = Of(y, n)
  <2> DEFINE fed == Fed(g, n, Loader)
             one == Binding(n, Loader, fed)
             known == n.class \in DOMAIN CoreInputs /\ Loader \in CoreInputs[n.class]
  <2>1. Of(x, n) = SaveBindings(g, n) /\ Of(y, n) = ApiBindings(g, n)
    BY <1>1, SaveOfNode, ApiOfNode
  <2>2. /\ fed \in BOOLEAN /\ ApiBindings(g, n) = {one} /\ SaveBindings(g, n) \subseteq {one}
        /\ fed \/ known => SaveBindings(g, n) = {one}
    BY <1>1, <1>2, BothShapes
  <2>3. (one.binding = "link") = fed
    BY <2>2, BindingTells
  <2> HIDE DEF g, fed, one, known, Of
  <2>4. links(x, n) = links(y, n)
    BY <2>1, <2>2, <2>3
  <2>5. Of(x, n) \subseteq Of(y, n) /\ (known => Of(x, n) = Of(y, n))
    BY <2>1, <2>2
  <2> QED BY <2>4, <2>5 DEF known
<1> QED BY <1>2

----------------------------------------------------------------------------
\* The pipeline.

ExtractInv ==
  /\ TypeOK /\ FetchInv
  /\ graph \in Graph /\ shared \in BOOLEAN
  /\ LakeOK

LEMMA InitExtract == ExtractInit => ExtractInv
<1> SUFFICES ASSUME ExtractInit PROVE ExtractInv
  OBVIOUS
<1>1. TypeOK /\ FetchInv
  BY InitFetch DEF ExtractInit
<1>2. graph \in Graph /\ shared \in BOOLEAN
  BY GraphsAssumption DEF ExtractInit, GraphsAssumption
<1>3. lake = {Row(graph, kind) : kind \in {"save", "api"}}
  BY DEF ExtractInit
<1>4. LakeOK
  BY <1>2, <1>3, RowIsDerived DEF LakeOK
<1> QED BY <1>1, <1>2, <1>4 DEF ExtractInv

\* What the fetch does not touch.
LEMMA FetchStands == TypeOK /\ FetchInv /\ UNCHANGED vars => TypeOK' /\ FetchInv'
<1> SUFFICES ASSUME TypeOK, FetchInv, UNCHANGED vars PROVE TypeOK' /\ FetchInv'
  OBVIOUS
<1>1. UNCHANGED <<file, pc, start, end, good, held, total, found, prefix, honest>>
  BY DEF vars
<1>2. TypeOK' = TypeOK
  BY <1>1 DEF TypeOK
<1>3. /\ Asking' = Asking /\ Finds' = Finds /\ EndsOnWindow(file)' = EndsOnWindow(file)
      /\ \A k : OutOfWindow(file, k)' = OutOfWindow(file, k)
  BY <1>1 DEF Asking, Finds, EndsOnWindow, OutOfWindow
<1>4. Reaches' = Reaches
  BY <1>1, <1>3 DEF Reaches
<1> QED BY <1>1, <1>2, <1>3, <1>4 DEF FetchInv

LEMMA NextExtract ==
  ASSUME ExtractInv, [ExtractNext]_allVars
  PROVE  ExtractInv'
<1>0. /\ TypeOK /\ FetchInv /\ graph \in Graph /\ shared \in BOOLEAN /\ LakeOK
  BY DEF ExtractInv
<1>1. CASE Share
  <2>1. PICK g \in {graph} \cup Edited(graph) : graph' \in Resaved(g)
    BY <1>1 DEF Share
  <2>2. g \in Graph
    BY <1>0, <2>1, EditedGraph
  <2>3. graph' \in Graph
    BY <2>1, <2>2, ResavedGraph
  <2>4. UNCHANGED vars /\ lake' = lake /\ shared' = TRUE
    BY <1>1 DEF Share, fetchVars
  <2>5. LakeOK'
    BY <1>0, <2>4 DEF LakeOK
  <2>6. TypeOK' /\ FetchInv'
    BY <1>0, <2>4, FetchStands
  <2> QED BY <2>3, <2>4, <2>5, <2>6 DEF ExtractInv
<1>2. CASE Ask
  <2>1. PICK f \in Files : Fetch(f)
    BY <1>2 DEF Ask
  <2>2. UNCHANGED <<graph, shared, lake>>
    BY <1>2 DEF Ask
  <2>3. TypeOK' /\ FetchInv'
    BY <1>0, <2>1, FetchBegins
  <2>4. LakeOK'
    BY <1>0, <2>2 DEF LakeOK
  <2> QED BY <1>0, <2>2, <2>3, <2>4 DEF ExtractInv
<1>3. CASE Answer
  <2>1. Step /\ UNCHANGED <<graph, shared, lake>>
    BY <1>3 DEF Answer
  <2>2. TypeOK' /\ FetchInv'
    BY <1>0, <2>1, StepFetches
  <2>3. LakeOK'
    BY <1>0, <2>1 DEF LakeOK
  <2> QED BY <1>0, <2>1, <2>2, <2>3 DEF ExtractInv
<1>4. CASE Load
  <2>1. /\ file' = NoFile /\ pc' = "idle" /\ start' = 0 /\ end' = HeadWindow
        /\ good' = 0 /\ held' = 0 /\ total' = FALSE /\ found' = {} /\ prefix' = "none"
        /\ honest' = TRUE
        /\ graph' = graph /\ shared' = shared
    BY <1>4 DEF Load
  <2>2. Init'
    BY <2>1 DEF Init
  <2>3. TypeOK' /\ FetchInv'
    BY <2>2, InitFetch, PTL
  <2>4. PICK K \in SUBSET {"save", "api"} : lake' = lake \cup {Row(graph, kind) : kind \in K}
    <3> DEFINE K == {k \in {"save", "api"} :
                       (IF k = "save" THEN "workflow" ELSE "prompt") \in found}
    <3>1. K \in SUBSET {"save", "api"}
      OBVIOUS
    <3>2. lake' = lake \cup {Row(graph, kind) : kind \in K}
      BY <1>4 DEF Load
    <3> QED BY <3>1, <3>2
  <2>5. LakeOK'
    BY <1>0, <2>4, RowIsDerived DEF LakeOK
  <2> QED BY <1>0, <2>1, <2>3, <2>5 DEF ExtractInv
<1>5. CASE UNCHANGED allVars
  <2>1. UNCHANGED vars /\ UNCHANGED <<graph, shared, lake>>
    BY <1>5 DEF allVars
  <2>2. TypeOK' /\ FetchInv'
    BY <1>0, <2>1, FetchStands
  <2>3. LakeOK'
    BY <1>0, <2>1 DEF LakeOK
  <2> QED BY <1>0, <2>1, <2>2, <2>3 DEF ExtractInv
<1> QED BY <1>1, <1>2, <1>3, <1>4, <1>5 DEF ExtractNext

\* The fetch loop keeps its bearings (what was asked for, what has been found in
\* it, what one request would have found), and every row is its workflow's.
THEOREM ExtractInvHolds == ExtractSpec => []ExtractInv
BY InitExtract, NextExtract, PTL DEF ExtractSpec

\* ExtractTypeOK for every artifact and workflow: fetch_bytes asks for windows
\* within MAX_HEAD, and what an author saves or edits stays a workflow.
THEOREM Typed == ExtractSpec => []ExtractTypeOK
<1>1. ExtractInv => ExtractTypeOK
  BY DEF ExtractInv, ExtractTypeOK, LakeOK
<1> QED BY <1>1, ExtractInvHolds, PTL

\* HeadReach, for every file and every window size: escalating from HEAD_WINDOW
\* to MAX_HEAD finds a workflow a single request for MAX_HEAD would find, unless
\* it lies behind a PNG's pixels and past the last window, or in a WebP cut
\* right between chunks.
THEOREM HeadReaches == ExtractSpec => []HeadReach
<1>1. ExtractInv => HeadReach
  <2> SUFFICES ASSUME ExtractInv, pc = "done", honest, file.fmt # "isobmff", ~EndsOnWindow(file)
               PROVE  LET n == Min({MaxHead, Size(file)}) IN
                      \A k \in Passed(file, n, n, TRUE) :
                        "workflow" \in file.chunks[k].holds =>
                          "workflow" \in found \/ OutOfWindow(file, k)
    BY DEF HeadReach
  <2>1. Reaches
    BY DEF ExtractInv, FetchInv
  <2> QED BY <2>1 DEF Reaches
<1> QED BY <1>1, ExtractInvHolds, PTL

\* VideoReach, for every file and every window size: a video's workflow is found
\* whether its metadata is before or behind the pixels.
THEOREM VideoReaches == ExtractSpec => []VideoReach
<1>1. ExtractInv => VideoReach
  <2> SUFFICES ASSUME ExtractInv, pc = "done", honest, total, file.fmt = "isobmff"
               PROVE  LET n == Min({HeadWindow, Size(file)}) IN
                      "workflow" \in Found(file, n, n, TRUE) \cup FoundInTail(file)
                        => "workflow" \in found
    BY DEF VideoReach
  <2>1. Reaches
    BY DEF ExtractInv, FetchInv
  <2> QED BY <2>1 DEF Reaches
<1> QED BY <1>1, ExtractInvHolds, PTL

\* PrefixReparses: the bytes kept hold the workflow that was found, whatever the
\* server answered.
THEOREM PrefixesReparse == ExtractSpec => []PrefixReparses
<1>1. ExtractInv => PrefixReparses
  <2> SUFFICES ASSUME ExtractInv, pc = "done", "workflow" \in found
               PROVE  "workflow" \in IF prefix = "tail" THEN FoundInTail(file)
                                                        ELSE Found(file, good, held, TRUE)
    BY DEF PrefixReparses
  <2>1. Finds /\ AFile(file)
    BY FilesAreFiles DEF ExtractInv, FetchInv
  <2>2. Both(file, good, held) = Found(file, good, held, TRUE)
    BY <2>1, PastFindsMore DEF Both
  <2> QED BY <2>1, <2>2 DEF Finds
<1> QED BY <1>1, ExtractInvHolds, PTL

\* BindingsAgree, for every workflow: _save_bindings and the bindings of
\* _derive_api say the same of a loader input wherever both can know.
THEOREM BindingsAgreed == ExtractSpec => []BindingsAgree
<1>1. ExtractInv => BindingsAgree
  BY LakeAgrees DEF ExtractInv
<1> QED BY <1>1, ExtractInvHolds, PTL

\* CanonicalDecides, for every workflow: canonical_form sorts every node to a
\* place of its own, so equal forms are of one workflow; and where no two nodes
\* have equal keys, saving a workflow again leaves its form as it was.
THEOREM CanonicalDecided == ExtractSpec => []CanonicalDecides
<1>1. ExtractInv => CanonicalDecides
  <2> SUFFICES ASSUME ExtractInv, NEW x \in lake, NEW y \in lake, x.row.kind = y.row.kind,
                      NEW keep \in BOOLEAN
               PROVE  LET kind == x.row.kind
                          same == IF keep THEN x.row.canonical = y.row.canonical
                                  ELSE x.row.structural = y.row.structural
                      IN /\ same => SameWorkflow(x.of, y.of, kind, keep)
                         /\ SameWorkflow(x.of, y.of, kind, keep) /\ ~Tied(x.of, kind, keep) => same
    BY DEF CanonicalDecides
  <2> DEFINE kind == x.row.kind
  <2>1. /\ x.of \in Graph /\ y.of \in Graph
        /\ x.row = Derived(x.of, kind) /\ y.row = Derived(y.of, kind)
    BY DEF ExtractInv, LakeOK
  <2>2. FormIn(x.row, keep) = Form(x.of, kind, keep) /\ FormIn(y.row, keep) = Form(y.of, kind, keep)
    BY <2>1, FormOfRow
  <2>3. (IF keep THEN x.row.canonical = y.row.canonical ELSE x.row.structural = y.row.structural)
          <=> FormIn(x.row, keep) = FormIn(y.row, keep)
    BY DEF FormIn
  <2>4. /\ Form(x.of, kind, keep) = Form(y.of, kind, keep) => SameWorkflow(x.of, y.of, kind, keep)
        /\ SameWorkflow(x.of, y.of, kind, keep) /\ ~Tied(x.of, kind, keep) =>
             Form(x.of, kind, keep) = Form(y.of, kind, keep)
    BY <2>1, FormsDecide
  <2> QED BY <2>2, <2>3, <2>4
<1> QED BY <1>1, ExtractInvHolds, PTL

=============================================================================

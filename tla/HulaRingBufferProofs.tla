------------------------ MODULE HulaRingBufferProofs ------------------------
(****************************************************************************)
(* Proofs about HulaRingBuffer, for a buffer of any size.                   *)
(*                                                                          *)
(* One fact carries both theorems: from readIndex on, the buffer holds the  *)
(* samples that are published and, behind them, those the producer has      *)
(* copied but not published, in their order.  Everything else is arithmetic *)
(* of indices that run modulo 2 * Size over a memory of Size.               *)
(****************************************************************************)
EXTENDS HulaRingBuffer, TLAPS

----------------------------------------------------------------------------
(* The inductive invariant.                                                 *)

Indices == 0 .. 2 * Size - 1
Places == 0 .. Size - 1

\* The samples a write() in progress has put behind the published ones.
Copied == IF wpc = "copy" THEN wdone ELSE 0

\* Every variable has the type of its field in the code.
TypeOK ==
  /\ readIndex \in Indices /\ writeIndex \in Indices
  /\ memory \in [Places -> Int]
  /\ accepted \in Nat
  /\ wpc \in {"idle", "copy"} /\ wcount \in Nat /\ wdone \in Nat /\ wstart \in Indices
  /\ rpc \in {"idle", "read", "direct"} /\ rcount \in Nat /\ rdone \in Nat
  /\ rstart \in Places /\ first \in Int /\ taken \in Seq(Int)
  /\ torn \in BOOLEAN

\* The published samples fit the buffer, and with them those of a write() that
\* has only begun: the consumer can make the free space larger, never smaller.
Fits ==
  /\ ReadAvailable <= Size
  /\ wpc = "copy" => /\ 0 < wcount /\ wdone <= wcount
                     /\ ReadAvailable + wcount <= Size

\* From place r on, the memory holds the n samples that follow the base-th.
Run(mem, r, n, base) == \A k \in 1 .. n : mem[(r + k - 1) % Size] = base + k

\* From readIndex on, the memory holds consecutive samples.
Held == Run(memory, readIndex, ReadAvailable + Copied, accepted - ReadAvailable)

\* The region a read() was given starts at the oldest sample still held, and
\* what it has got out of it is the beginning of it.
Region ==
  rpc = "read" =>
    /\ 0 < rcount /\ rcount <= ReadAvailable
    /\ rstart = readIndex % Size
    /\ first = accepted - ReadAvailable + 1
    /\ rdone <= rcount /\ Len(taken) = rdone
    /\ InOrder

\* A write() in progress began where the published samples end.
Ahead == wpc = "copy" => wstart = writeIndex

\* The buffer while no clear() has come in the middle of a write().
Sound == TypeOK /\ Fits /\ Held /\ Region /\ Ahead

IInv == TypeOK /\ (torn \/ Sound)
----------------------------------------------------------------------------
(* Indices.                                                                 *)

\* A place is found again after any number of turns of the memory.
LEMMA Place == ASSUME NEW q \in Int, NEW b \in Places PROVE (q * Size + b) % Size = b
BY SizeAssumption DEF Places

LEMMA Remainder ==
  \A a \in Int : /\ a % Size \in Places
                 /\ a \div Size \in Int
                 /\ a = (a \div Size) * Size + (a % Size)
BY SizeAssumption DEF Places

\* A turn of the indices, which is two of the memory, changes no place.
LEMMA Turn == \A a \in Int : (a - 2 * Size) % Size = a % Size
<1> SUFFICES ASSUME NEW a \in Int PROVE (a - 2 * Size) % Size = a % Size
  OBVIOUS
<1> DEFINE q == a \div Size
           b == a % Size
<1>1. q \in Int /\ b \in Places /\ a = q * Size + b
  BY Remainder
<1>2. Size \in Nat /\ b \in Int
  BY SizeAssumption, <1>1 DEF Places
<1> HIDE DEF q, b
<1>3. a - 2 * Size = (q - 2) * Size + b
  BY <1>1, <1>2
<1>4. ((q - 2) * Size + b) % Size = b
  BY <1>1, Place
<1> QED
  BY <1>3, <1>4 DEF b

\* Less than a turn of the memory apart, two samples have places of their own.
LEMMA Apart == \A a, b \in Int : a < b /\ b < a + Size => a % Size # b % Size
<1> SUFFICES ASSUME NEW a \in Int, NEW b \in Int, a < b, b < a + Size,
                    a % Size = b % Size
             PROVE  FALSE
  OBVIOUS
<1> DEFINE p == a \div Size
           q == b \div Size
           r == a % Size
<1>1. p \in Int /\ q \in Int /\ r \in Int /\ a = p * Size + r /\ b = q * Size + r
  <2>1. /\ a % Size \in Places /\ a \div Size \in Int
        /\ a = (a \div Size) * Size + (a % Size)
    BY Remainder
  <2>2. b \div Size \in Int /\ b = (b \div Size) * Size + (b % Size)
    BY Remainder
  <2>3. \A x \in Places : x \in Int
    BY SizeAssumption DEF Places
  <2> QED
    BY <2>1, <2>2, <2>3
<1>2. Size \in Nat \ {0}
  BY SizeAssumption
<1> HIDE DEF p, q, r
<1>3. b - a = (q - p) * Size
  BY <1>1, <1>2
<1> DEFINE d == q - p
<1>4. d \in Int /\ 0 < d * Size /\ d * Size < Size
  BY <1>1, <1>2, <1>3
<1> HIDE DEF d
<1>5. CASE d <= 0
  <2>1. d * Size <= 0
    BY <1>2, <1>4, <1>5
  <2> QED
    BY <2>1, <1>2, <1>4
<1>6. CASE d >= 1
  <2>1. d * Size >= Size
    BY <1>2, <1>4, <1>6
  <2> QED
    BY <2>1, <1>2, <1>4
<1> QED
  BY <1>4, <1>5, <1>6

\* What % does where the indices go: they advance by less than a turn.
Wrap(a) == a % (2 * Size)

LEMMA Wraps ==
  \A a \in Int : /\ -(2 * Size) <= a /\ a < 0 => Wrap(a) = a + 2 * Size
                 /\ 0 <= a /\ a < 2 * Size => Wrap(a) = a
                 /\ 2 * Size <= a /\ a < 4 * Size => Wrap(a) = a - 2 * Size
BY SizeAssumption DEF Wrap

LEMMA WrapType == \A a \in Int : Wrap(a) \in Indices
BY SizeAssumption DEF Wrap, Indices

LEMMA AdvanceWraps == \A i, n : Advance(i, n) = Wrap(i + n)
BY DEF Advance, Wrap

\* Advancing an index by at most the buffer keeps it an index, and moves the
\* places counted from it by as much.
LEMMA Advanced ==
  ASSUME NEW i \in Indices, NEW n \in 0 .. Size
  PROVE  /\ Advance(i, n) \in Indices
         /\ \A j \in Int : (Advance(i, n) + j) % Size = (i + n + j) % Size
<1>1. Size \in Nat \ {0} /\ i \in Int /\ n \in Int
  BY SizeAssumption DEF Indices
<1>2. i + n \in Int /\ 0 <= i + n /\ i + n < 4 * Size
  BY <1>1 DEF Indices
<1>3. Advance(i, n) = IF i + n < 2 * Size THEN i + n ELSE i + n - 2 * Size
  BY <1>1, <1>2, Wraps, AdvanceWraps
<1>4. Advance(i, n) \in Indices
  BY <1>1, <1>3 DEF Indices
<1>5. ASSUME NEW j \in Int
      PROVE  (Advance(i, n) + j) % Size = (i + n + j) % Size
  <2>1. CASE i + n < 2 * Size
    BY <2>1, <1>3
  <2>2. CASE ~(i + n < 2 * Size)
    <3>1. Advance(i, n) + j = (i + n + j) - 2 * Size
      BY <2>2, <1>1, <1>3
    <3>2. i + n + j \in Int
      BY <1>1
    <3>3. ((i + n + j) - 2 * Size) % Size = (i + n + j) % Size
      BY <3>2, Turn
    <3> QED
      BY <3>1, <3>3
  <2> QED
    BY <2>1, <2>2
<1> QED
  BY <1>4, <1>5

\* The distance between two indices, and how advancing either changes it.
Distance(r, w) == Wrap(w - r)

LEMMA Distances ==
  ASSUME NEW r \in Indices, NEW w \in Indices
  PROVE  /\ Distance(r, w) \in 0 .. 2 * Size - 1
         /\ w = Advance(r, Distance(r, w))
         /\ \A n \in 0 .. Size :
              Distance(r, w) + n < 2 * Size
                => Distance(r, Advance(w, n)) = Distance(r, w) + n
         /\ \A n \in 0 .. Size :
              n <= Distance(r, w)
                => Distance(Advance(r, n), w) = Distance(r, w) - n
<1>1. Size \in Nat \ {0} /\ r \in Int /\ w \in Int
      /\ 0 <= r /\ r < 2 * Size /\ 0 <= w /\ w < 2 * Size
  BY SizeAssumption DEF Indices
<1> DEFINE d == Distance(r, w)
<1>2. d = IF w >= r THEN w - r ELSE w - r + 2 * Size
  BY <1>1, Wraps DEF Distance
<1>3. d \in Int /\ 0 <= d /\ d < 2 * Size
  BY <1>1, <1>2
<1> HIDE DEF d
<1>4. w = Advance(r, d)
  BY <1>1, <1>2, <1>3, Wraps, AdvanceWraps
<1>5. ASSUME NEW n \in 0 .. Size, d + n < 2 * Size
      PROVE  Distance(r, Advance(w, n)) = d + n
  <2>1. Advance(w, n) = IF w + n < 2 * Size THEN w + n ELSE w + n - 2 * Size
    BY <1>1, Wraps, AdvanceWraps
  <2> QED
    BY <2>1, <1>1, <1>2, <1>5, Wraps DEF Distance
<1>6. ASSUME NEW n \in 0 .. Size, n <= d
      PROVE  Distance(Advance(r, n), w) = d - n
  <2>1. Advance(r, n) = IF r + n < 2 * Size THEN r + n ELSE r + n - 2 * Size
    BY <1>1, Wraps, AdvanceWraps
  <2> QED
    BY <2>1, <1>1, <1>2, <1>6, Wraps DEF Distance
<1>7. d \in 0 .. 2 * Size - 1
  BY <1>1, <1>3
<1> QED
  BY <1>4, <1>5, <1>6, <1>7 DEF d

LEMMA AvailableIsDistance == ReadAvailable = Distance(readIndex, writeIndex)
BY DEF ReadAvailable, Distance, Wrap

----------------------------------------------------------------------------
(* Runs of samples.                                                         *)

\* Counting from a place of the memory or from the index it belongs to is one.
LEMMA FromPlace == \A i, j \in Int : ((i % Size) + j) % Size = (i + j) % Size
<1> SUFFICES ASSUME NEW i \in Int, NEW j \in Int
             PROVE  ((i % Size) + j) % Size = (i + j) % Size
  OBVIOUS
<1> DEFINE q == i \div Size
           r == i % Size
           s == i + j
           p == s \div Size
           b == s % Size
<1>1. Size \in Int
  BY SizeAssumption
<1>2. r \in Places /\ q \in Int /\ i = q * Size + r
  BY Remainder
<1>3. s \in Int
  OBVIOUS
<1>4. b \in Places /\ p \in Int /\ s = p * Size + b
  BY <1>3, Remainder
<1>5. r \in Int /\ b \in Int /\ s = i + j
  BY <1>1, <1>2, <1>4 DEF Places
<1> HIDE DEF q, r, p, b, s
<1>6. r + j = (p - q) * Size + b
  BY <1>1, <1>2, <1>4, <1>5
<1>7. ((p - q) * Size + b) % Size = b
  BY <1>2, <1>4, Place
<1> QED
  BY <1>6, <1>7 DEF r, b, s

\* The next sample goes behind a run that leaves room for it, over none of it.
LEMMA RunGrows ==
  ASSUME NEW mem \in [Places -> Int], NEW r \in Indices, NEW base \in Int,
         NEW n \in Nat, n < Size, Run(mem, r, n, base)
  PROVE  Run([mem EXCEPT ![(r + n) % Size] = base + n + 1], r, n + 1, base)
<1> DEFINE new == [mem EXCEPT ![(r + n) % Size] = base + n + 1]
<1>1. Size \in Nat /\ r \in Int
  BY SizeAssumption DEF Indices
<1>2. (r + n) % Size \in Places
  <2>1. r + n \in Int
    BY <1>1
  <2> QED
    BY <2>1, Remainder
<1> SUFFICES ASSUME NEW k \in 1 .. n + 1
             PROVE  new[(r + k - 1) % Size] = base + k
  BY DEF Run
<1>3. CASE k = n + 1
  <2>1. r + k - 1 = r + n
    BY <1>1, <1>3
  <2>2. new[(r + n) % Size] = base + n + 1
    BY <1>2
  <2> QED
    BY <2>1, <2>2, <1>3
<1>4. CASE k # n + 1
  <2>1. k \in 1 .. n
    BY <1>4
  <2>2. mem[(r + k - 1) % Size] = base + k
    BY <2>1 DEF Run
  <2> DEFINE x == r + k - 1
             y == r + n
  <2>3. x \in Int /\ y \in Int /\ x < y /\ y < x + Size
    BY <1>1, <2>1
  <2> HIDE DEF x, y
  <2>4. x % Size # y % Size
    BY <2>3, Apart
  <2>5. x % Size \in Places
    BY <2>3, Remainder
  <2>6. new[x % Size] = mem[x % Size]
    BY <2>4, <2>5 DEF y
  <2> QED
    BY <2>2, <2>6 DEF x
<1> QED
  BY <1>3, <1>4

\* Taking the first samples of a run leaves the rest of it.
LEMMA RunAdvances ==
  ASSUME NEW mem, NEW r \in Indices, NEW base \in Int, NEW n \in 0 .. Size,
         NEW c \in 0 .. n, Run(mem, r, n, base)
  PROVE  Run(mem, Advance(r, c), n - c, base + c)
<1>1. Size \in Nat /\ r \in Int /\ c \in 0 .. Size
  BY SizeAssumption DEF Indices
<1> SUFFICES ASSUME NEW k \in 1 .. n - c
             PROVE  mem[(Advance(r, c) + k - 1) % Size] = base + c + k
  BY DEF Run
<1>2. Advance(r, c) \in Int
  BY <1>1, Advanced, SizeAssumption DEF Indices
<1>3. (Advance(r, c) + (k - 1)) % Size = (r + c + (k - 1)) % Size
  BY <1>1, Advanced
<1>4. /\ Advance(r, c) + (k - 1) = Advance(r, c) + k - 1
      /\ r + c + (k - 1) = r + (c + k) - 1
      /\ c + k \in 1 .. n
  BY <1>1, <1>2
<1>5. mem[(r + (c + k) - 1) % Size] = base + (c + k)
  BY <1>4 DEF Run
<1> QED
  BY <1>3, <1>4, <1>5

----------------------------------------------------------------------------
(* The invariant holds.                                                     *)

LEMMA AvailableType == TypeOK => ReadAvailable \in 0 .. 2 * Size - 1
BY AvailableIsDistance, Distances DEF TypeOK

\* Publishing n samples makes n more available; giving n back, n fewer.
LEMMA AvailableMoves ==
  ASSUME TypeOK, NEW n \in 0 .. Size
  PROVE  /\ (/\ ReadAvailable + n < 2 * Size
             /\ writeIndex' = Advance(writeIndex, n) /\ readIndex' = readIndex)
              => ReadAvailable' = ReadAvailable + n
         /\ (/\ n <= ReadAvailable
             /\ readIndex' = Advance(readIndex, n) /\ writeIndex' = writeIndex)
              => ReadAvailable' = ReadAvailable - n
<1>1. ReadAvailable' = Distance(readIndex', writeIndex')
  BY DEF ReadAvailable, Distance, Wrap
<1>2. ReadAvailable = Distance(readIndex, writeIndex)
  BY AvailableIsDistance
<1>3. readIndex \in Indices /\ writeIndex \in Indices
  BY DEF TypeOK
<1> DEFINE d == Distance(readIndex, writeIndex)
<1>4. /\ d + n < 2 * Size => Distance(readIndex, Advance(writeIndex, n)) = d + n
      /\ n <= d => Distance(Advance(readIndex, n), writeIndex) = d - n
  BY <1>3, Distances
<1> QED
  BY <1>1, <1>2, <1>4

LEMMA InitSound == Init => Sound
<1> SUFFICES ASSUME Init PROVE Sound
  OBVIOUS
<1>1. Size \in Nat \ {0} /\ 0 \in Indices /\ 0 \in Places
  BY SizeAssumption DEF Indices, Places
<1>2. ReadAvailable = 0
  BY <1>1, Wraps, AvailableIsDistance DEF Init, Distance
<1>3. TypeOK
  <2>1. memory \in [Places -> Int]
    BY DEF Init, Places
  <2>2. taken \in Seq(Int)
    BY DEF Init
  <2> QED
    BY <1>1, <2>1, <2>2 DEF Init, TypeOK
<1>4. Fits /\ Region
  BY <1>1, <1>2 DEF Init, Fits, Region
<1>6. Ahead
  BY DEF Init, Ahead
<1>5. Held
  BY <1>2 DEF Init, Held, Copied, Run
<1> QED
  BY <1>3, <1>4, <1>5, <1>6 DEF Sound

LEMMA SmallerType ==
  ASSUME NEW a \in Int, NEW b \in Int
  PROVE  /\ Smaller(a, b) \in Int /\ Smaller(a, b) <= a /\ Smaller(a, b) <= b
         /\ a > 0 /\ b > 0 => Smaller(a, b) > 0
BY DEF Smaller

\* The parts of the invariant that are about a variable nothing changed.
LEMMA SameIndices == UNCHANGED index => UNCHANGED ReadAvailable
BY DEF index, ReadAvailable

LEMMA WriteBeginKeeps ==
  ASSUME Sound, TypeOK', NEW n \in 1 .. MaxChunk, WriteBegin(n) PROVE Sound'
<1> USE DEF Sound
<1>0. Size \in Nat \ {0} /\ n \in Int
  BY SizeAssumption, ChunkAssumption
<1>1. ReadAvailable \in Int /\ 0 <= ReadAvailable
  BY AvailableType, <1>0
<1>2. UNCHANGED ReadAvailable
  BY SameIndices DEF WriteBegin
<1> DEFINE c == Smaller(WriteAvailable, n)
<1>3. c \in Int /\ c <= Size - ReadAvailable
  <2>1. WriteAvailable \in Int /\ WriteAvailable = Size - ReadAvailable
    BY <1>0, <1>1 DEF WriteAvailable
  <2> QED
    BY <1>0, <2>1, SmallerType
<1>4. c > 0 /\ wcount' = c /\ wdone' = 0 /\ wpc' = "copy" /\ wpc = "idle"
  BY DEF WriteBegin
<1> HIDE DEF c
<1>5. Ahead'
  BY DEF Ahead, WriteBegin, index
<1>6. Fits'
  BY <1>0, <1>1, <1>2, <1>3, <1>4 DEF Fits
<1>7. Copied' = Copied
  BY <1>4 DEF Copied
<1>8. Held'
  BY <1>2, <1>7 DEF Held, WriteBegin, index
<1>9. Region'
  BY <1>2 DEF Region, InOrder, WriteBegin, index, reader
<1> QED
  BY <1>5, <1>6, <1>8, <1>9

LEMMA WriteCopyKeeps == ASSUME Sound, TypeOK', WriteCopy PROVE Sound'
<1> USE DEF Sound
<1>0. Size \in Nat \ {0}
  BY SizeAssumption
<1>1. ReadAvailable \in Int /\ 0 <= ReadAvailable
  BY AvailableType, <1>0
<1>2. UNCHANGED ReadAvailable
  BY SameIndices DEF WriteCopy
<1> DEFINE a == ReadAvailable
           n == a + wdone
           place == (wstart + wdone) % Size
<1>3. wpc = "copy" /\ wpc' = "copy" /\ wdone < wcount /\ wdone' = wdone + 1
      /\ UNCHANGED <<readIndex, writeIndex, accepted, wcount, wstart>>
      /\ wstart = writeIndex
  BY DEF WriteCopy, index, Ahead
<1>4. wdone \in Nat /\ wcount \in Nat /\ accepted \in Nat /\ readIndex \in Indices
      /\ writeIndex \in Indices /\ memory \in [Places -> Int]
  BY DEF TypeOK
<1>5. a <= Size /\ a + wcount <= Size
  BY <1>3 DEF Fits
<1>6. place = (readIndex + n) % Size
  <2>1. wstart = Advance(readIndex, a)
    BY <1>3, <1>4, Distances, AvailableIsDistance
  <2>2. (Advance(readIndex, a) + wdone) % Size = (readIndex + a + wdone) % Size
    BY <1>0, <1>1, <1>4, <1>5, Advanced
  <2>3. readIndex + a + wdone = readIndex + n
    BY <1>0, <1>1, <1>4 DEF Indices
  <2> QED
    BY <2>1, <2>2, <2>3
<1>7. memory' = [memory EXCEPT ![place] = accepted + wdone + 1]
  BY DEF WriteCopy
<1>8. n \in Nat /\ n < Size /\ accepted - a \in Int
      /\ accepted + wdone + 1 = (accepted - a) + n + 1
  BY <1>0, <1>1, <1>3, <1>4, <1>5
<1>9. Run(memory, readIndex, n, accepted - a)
  BY <1>3 DEF Held, Copied
<1> HIDE DEF n, place, a
<1>10. Run([memory EXCEPT ![(readIndex + n) % Size] = (accepted - a) + n + 1],
           readIndex, n + 1, accepted - a)
  BY <1>4, <1>8, <1>9, RunGrows
<1>11. Run(memory', readIndex, n + 1, accepted - a)
  BY <1>6, <1>7, <1>8, <1>10
<1>12. Held'
  <2>1. ReadAvailable' + Copied' = n + 1
    BY <1>1, <1>2, <1>3, <1>4 DEF Copied, n, a
  <2>2. accepted' - ReadAvailable' = accepted - a
    BY <1>2, <1>3 DEF a
  <2> QED
    BY <1>3, <1>11, <2>1, <2>2 DEF Held
<1>13. Ahead'
  BY <1>3 DEF Ahead
<1>14. Fits'
  BY <1>2, <1>3, <1>4 DEF Fits
<1>15. Region'
  BY <1>2, <1>3 DEF Region, InOrder, WriteCopy, reader
<1> QED
  BY <1>12, <1>13, <1>14, <1>15

LEMMA WriteEndKeeps == ASSUME Sound, TypeOK', WriteEnd PROVE Sound'
<1> USE DEF Sound
<1>0. Size \in Nat \ {0}
  BY SizeAssumption
<1>1. ReadAvailable \in Int /\ 0 <= ReadAvailable
  BY AvailableType, <1>0
<1>2. wpc = "copy" /\ wpc' = "idle" /\ wdone = wcount /\ accepted' = accepted + wcount
      /\ writeIndex' = Advance(writeIndex, wcount)
      /\ UNCHANGED <<readIndex, memory, wcount, wdone, reader>>
  BY DEF WriteEnd, Ahead
<1>3. wcount \in Nat /\ accepted \in Nat /\ ReadAvailable + wcount <= Size
      /\ writeIndex \in Indices
  BY <1>2 DEF TypeOK, Fits
<1>4. wcount \in 0 .. Size
  BY <1>0, <1>1, <1>3
<1>5. ReadAvailable' = ReadAvailable + wcount
  BY <1>0, <1>1, <1>2, <1>3, <1>4, AvailableMoves
<1>6. Ahead'
  BY <1>2 DEF Ahead
<1>7. Fits'
  BY <1>2, <1>3, <1>5 DEF Fits
<1>8. Held'
  <2>1. ReadAvailable' + Copied' = ReadAvailable + Copied
    BY <1>1, <1>2, <1>3, <1>5 DEF Copied
  <2>2. accepted' - ReadAvailable' = accepted - ReadAvailable
    BY <1>1, <1>2, <1>3, <1>5
  <2> QED
    BY <1>2, <2>1, <2>2 DEF Held
<1>9. Region'
  <2>1. accepted' - ReadAvailable' = accepted - ReadAvailable
    BY <1>1, <1>2, <1>3, <1>5
  <2>2. UNCHANGED <<rpc, rcount, rdone, rstart, first, taken, readIndex>>
    BY <1>2 DEF reader
  <2>3. UNCHANGED InOrder
    BY <2>2 DEF InOrder
  <2>4. rcount \in Nat
    BY DEF TypeOK
  <2> QED
    BY <1>1, <1>3, <1>5, <2>1, <2>2, <2>3, <2>4 DEF Region
<1> QED
  BY <1>6, <1>7, <1>8, <1>9

LEMMA ReadBeginKeeps ==
  ASSUME Sound, TypeOK', NEW n \in 1 .. MaxChunk, ReadBegin(n) PROVE Sound'
<1> USE DEF Sound
<1>0. Size \in Nat \ {0} /\ n \in Int /\ n >= 1
  BY SizeAssumption, ChunkAssumption
<1>1. ReadAvailable \in Int /\ 0 <= ReadAvailable
  BY AvailableType, <1>0
<1>2. UNCHANGED ReadAvailable
  BY SameIndices DEF ReadBegin
<1>3. /\ ReadAvailable > 0 /\ rcount' = Smaller(ReadAvailable, n)
      /\ rstart' = readIndex % Size /\ first' = accepted - ReadAvailable + 1
      /\ rdone' = 0 /\ taken' = << >> /\ rpc' = "read"
      /\ UNCHANGED <<index, memory, accepted, writer>>
  BY DEF ReadBegin, RegionBegin
<1>4. rcount' \in Nat /\ 0 < rcount' /\ rcount' <= ReadAvailable
  <2> DEFINE c == Smaller(ReadAvailable, n)
  <2>1. c \in Int /\ c <= ReadAvailable /\ c > 0
    BY <1>0, <1>1, <1>3, SmallerType
  <2> QED
    BY <2>1, <1>3
<1>5. Ahead'
  BY <1>3 DEF Ahead, index, writer
<1>6. Fits'
  BY <1>2, <1>3 DEF Fits, writer
<1>7. Held'
  BY <1>2, <1>3 DEF Held, Copied, index, writer
<1>8. Region'
  BY <1>2, <1>3, <1>4 DEF Region, InOrder, index
<1> QED
  BY <1>5, <1>6, <1>7, <1>8

LEMMA DirectReadBeginKeeps ==
  ASSUME Sound, TypeOK', NEW n \in 1 .. MaxChunk, DirectReadBegin(n) PROVE Sound'
<1> USE DEF Sound
<1>0. Size \in Nat \ {0} /\ n \in Int /\ n >= 1
  BY SizeAssumption, ChunkAssumption
<1> DEFINE a == ReadAvailable
           c == Smaller(a, n)
<1>1. a \in Int /\ 0 <= a /\ a <= Size
  BY AvailableType, <1>0 DEF Fits
<1>2. /\ a > 0 /\ rcount' = c
      /\ rstart' = readIndex % Size /\ first' = accepted - a + 1
      /\ rdone' = 0 /\ taken' = << >> /\ rpc' = "direct"
      /\ readIndex' = Advance(readIndex, c)
      /\ UNCHANGED <<writeIndex, memory, accepted, writer>>
  BY DEF DirectReadBegin, RegionBegin
<1>3. c \in 0 .. Size /\ c <= a
  <2>1. c \in Int /\ c <= a /\ c > 0
    BY <1>0, <1>1, <1>2, SmallerType
  <2> QED
    BY <1>0, <1>1, <2>1
<1>4. ReadAvailable' = a - c
  BY <1>2, <1>3, AvailableMoves
<1>5. readIndex \in Indices /\ accepted \in Nat /\ wcount \in Nat /\ wdone \in Nat
  BY DEF TypeOK
<1>6. UNCHANGED <<wpc, wcount, wdone>>
  BY <1>2 DEF writer
<1> HIDE DEF c, a
<1>7. Ahead'
  BY <1>2 DEF Ahead, writer
<1>8. Fits'
  BY <1>0, <1>1, <1>3, <1>4, <1>5, <1>6 DEF Fits, a
<1>9. Held'
  <2> DEFINE m == a + Copied
  <2>1. Copied \in Nat /\ Copied' = Copied /\ m \in 0 .. Size
    BY <1>0, <1>1, <1>5, <1>6 DEF Copied, Fits, a
  <2>2. Run(memory, readIndex, m, accepted - a)
    BY DEF Held, a
  <2>3. c \in 0 .. m /\ accepted - a \in Int
    BY <1>1, <1>3, <1>5, <2>1
  <2> HIDE DEF m
  <2>4. Run(memory, Advance(readIndex, c), m - c, accepted - a + c)
    BY <1>5, <2>1, <2>2, <2>3, RunAdvances
  <2>5. /\ ReadAvailable' + Copied' = m - c
        /\ accepted' - ReadAvailable' = accepted - a + c
        /\ memory' = memory
    BY <1>1, <1>2, <1>3, <1>4, <1>5, <2>1 DEF m
  <2> QED
    BY <1>2, <2>4, <2>5 DEF Held
<1>10. Region'
  BY <1>2 DEF Region
<1> QED
  BY <1>7, <1>8, <1>9, <1>10

LEMMA FetchKeeps == ASSUME Sound, TypeOK', Fetch PROVE Sound'
<1> USE DEF Sound
<1>0. Size \in Nat \ {0}
  BY SizeAssumption
<1> DEFINE a == ReadAvailable
           sample == memory[(rstart + rdone) % Size]
<1>1. a \in Int /\ 0 <= a /\ a <= Size
  BY AvailableType, <1>0 DEF Fits
<1>2. ReadAvailable' = a
  BY SameIndices DEF Fetch
<1>3. /\ rdone < rcount /\ rdone' = rdone + 1
      /\ taken' = Append(taken, sample)
      /\ UNCHANGED <<index, memory, accepted, writer, rpc, rcount, rstart, first>>
  BY DEF Fetch
<1>4. /\ readIndex \in Indices /\ accepted \in Nat /\ rdone \in Nat /\ rcount \in Nat
      /\ rstart \in Places /\ memory \in [Places -> Int] /\ taken \in Seq(Int)
      /\ first \in Int
  BY DEF TypeOK
<1>5. sample \in Int
  <2>1. rstart + rdone \in Int
    BY <1>0, <1>4 DEF Places
  <2>2. (rstart + rdone) % Size \in Places
    BY <2>1, Remainder
  <2> QED
    BY <1>4, <2>2
<1>6. rpc = "read" => sample = first + rdone
  <2> SUFFICES ASSUME rpc = "read" PROVE sample = first + rdone
    OBVIOUS
  <2>1. /\ rcount <= a /\ rstart = readIndex % Size /\ first = accepted - a + 1
    BY DEF Region
  <2>2. readIndex \in Int /\ rdone \in Int
    BY <1>0, <1>4 DEF Indices
  <2>3. (rstart + rdone) % Size = (readIndex + rdone) % Size
    BY <2>1, <2>2, FromPlace
  <2>4. Copied \in Nat
    BY DEF TypeOK, Copied
  <2>5. rdone + 1 \in 1 .. a + Copied
    BY <1>1, <1>3, <1>4, <2>1, <2>4
  <2>6. memory[(readIndex + (rdone + 1) - 1) % Size] = (accepted - a) + (rdone + 1)
    BY <2>5 DEF Held, Run
  <2>7. readIndex + (rdone + 1) - 1 = readIndex + rdone
    BY <2>2
  <2> QED
    BY <1>1, <1>4, <2>1, <2>3, <2>6, <2>7
<1> HIDE DEF sample, a
<1>7. Ahead'
  BY <1>3 DEF Ahead, index, writer
<1>8. Fits'
  BY <1>2, <1>3 DEF Fits, a, writer
<1>9. Held'
  BY <1>2, <1>3 DEF Held, Copied, a, index, writer
<1>10. Region'
  <2> SUFFICES ASSUME rpc = "read" PROVE Region'
    BY <1>3 DEF Region
  <2>1. /\ 0 < rcount /\ rcount <= a /\ rstart = readIndex % Size
        /\ first = accepted - a + 1 /\ Len(taken) = rdone /\ InOrder
    BY DEF Region, a
  <2>2. Len(taken') = rdone + 1
    BY <1>3, <1>4, <1>5, <2>1
  <2>3. InOrder'
    <3> SUFFICES ASSUME NEW k \in 1 .. rdone + 1 PROVE taken'[k] = first + k - 1
      BY <1>3, <2>2 DEF InOrder
    <3>1. CASE k = rdone + 1
      BY <1>3, <1>4, <1>5, <1>6, <2>1, <3>1
    <3>2. CASE k # rdone + 1
      <4>1. k \in 1 .. Len(taken)
        BY <1>4, <2>1, <3>2
      <4>2. taken'[k] = taken[k]
        BY <1>3, <1>4, <1>5, <4>1
      <4> QED
        BY <2>1, <4>1, <4>2 DEF InOrder
    <3> QED
      BY <3>1, <3>2
  <2>4. rdone' <= rcount'
    BY <1>3, <1>4
  <2> QED
    BY <1>2, <1>3, <2>1, <2>2, <2>3, <2>4 DEF Region, index, a
<1> QED
  BY <1>7, <1>8, <1>9, <1>10

LEMMA ReadEndKeeps == ASSUME Sound, TypeOK', ReadEnd PROVE Sound'
<1> USE DEF Sound
<1>0. Size \in Nat \ {0}
  BY SizeAssumption
<1> DEFINE a == ReadAvailable
<1>1. a \in Int /\ 0 <= a /\ a <= Size
  BY AvailableType, <1>0 DEF Fits
<1>2. /\ rpc = "read" /\ rpc' = "idle"
      /\ readIndex' = Advance(readIndex, rcount)
      /\ UNCHANGED <<writeIndex, memory, accepted, writer, rcount, rdone, rstart, first,
                     taken>>
  BY DEF ReadEnd
<1>3. readIndex \in Indices /\ accepted \in Nat /\ wcount \in Nat /\ wdone \in Nat
  BY DEF TypeOK
<1>4. rcount \in 0 .. Size /\ rcount <= a
  BY <1>0, <1>1, <1>2 DEF TypeOK, Region
<1>5. ReadAvailable' = a - rcount
  BY <1>2, <1>4, AvailableMoves
<1>6. UNCHANGED <<wpc, wcount, wdone>>
  BY <1>2 DEF writer
<1> HIDE DEF a
<1>7. Ahead'
  BY <1>2 DEF Ahead, writer
<1>8. Fits'
  BY <1>0, <1>1, <1>3, <1>4, <1>5, <1>6 DEF Fits, a
<1>9. Held'
  <2> DEFINE m == a + Copied
  <2>1. Copied \in Nat /\ Copied' = Copied /\ m \in 0 .. Size
    BY <1>0, <1>1, <1>3, <1>6 DEF Copied, Fits, a
  <2>2. Run(memory, readIndex, m, accepted - a)
    BY DEF Held, a
  <2>3. rcount \in 0 .. m /\ accepted - a \in Int
    BY <1>1, <1>3, <1>4, <2>1
  <2> HIDE DEF m
  <2>4. Run(memory, Advance(readIndex, rcount), m - rcount, accepted - a + rcount)
    BY <1>3, <2>1, <2>2, <2>3, RunAdvances
  <2>5. /\ ReadAvailable' + Copied' = m - rcount
        /\ accepted' - ReadAvailable' = accepted - a + rcount
        /\ memory' = memory
    BY <1>1, <1>2, <1>3, <1>4, <1>5, <2>1 DEF m
  <2> QED
    BY <1>2, <2>4, <2>5 DEF Held
<1>10. Region'
  BY <1>2 DEF Region
<1> QED
  BY <1>7, <1>8, <1>9, <1>10

LEMMA DirectUseEndKeeps == ASSUME Sound, TypeOK', DirectUseEnd PROVE Sound'
<1> USE DEF Sound
<1>1. UNCHANGED ReadAvailable
  BY SameIndices DEF DirectUseEnd
<1>2. /\ rpc' = "idle"
      /\ UNCHANGED <<index, memory, accepted, writer, rcount, rdone, rstart, first, taken>>
  BY DEF DirectUseEnd
<1> QED
  BY <1>1, <1>2 DEF Fits, Held, Copied, Region, Ahead, index, writer

\* A clear() between two calls makes a sound buffer of any.
LEMMA ClearMends == ASSUME TypeOK, TypeOK', Clear, ~torn' PROVE Sound'
<1>0. Size \in Nat \ {0}
  BY SizeAssumption
<1>1. /\ wpc = "idle" /\ rpc = "idle" /\ readIndex' = 0 /\ writeIndex' = 0
      /\ UNCHANGED <<memory, accepted, writer, reader>>
  BY DEF Clear
<1>2. ReadAvailable' = 0
  <2>1. ReadAvailable' = Wrap(0)
    BY <1>1 DEF ReadAvailable, Wrap
  <2> QED
    BY <1>0, <2>1, Wraps
<1>3. Fits' /\ Region' /\ Ahead'
  BY <1>0, <1>1, <1>2 DEF Fits, Region, Ahead, writer, reader
<1>4. Held'
  BY <1>1, <1>2 DEF Held, Copied, Run, writer
<1> QED
  BY <1>3, <1>4 DEF Sound

LEMMA StutterKeeps == ASSUME Sound, UNCHANGED vars PROVE Sound'
<1>1. UNCHANGED ReadAvailable
  BY SameIndices DEF vars
<1> QED
  BY <1>1 DEF Sound, TypeOK, Fits, Held, Copied, Region, Ahead, InOrder, vars, index, writer,
              reader

----------------------------------------------------------------------------
(* The invariant with and without a clear() in the middle of a write().     *)

\* The types stay in a torn buffer too.
LEMMA TypesKept == ASSUME TypeOK, [Next]_vars PROVE TypeOK'
<1>0. Size \in Nat \ {0} /\ MaxChunk \in Nat
  BY SizeAssumption, ChunkAssumption
<1>2. ReadAvailable \in Int /\ WriteAvailable \in Int
  BY <1>0, AvailableType DEF WriteAvailable
<1> USE DEF TypeOK
<1>1. \A i \in Indices, n \in Int : Advance(i, n) \in Indices
  <2> TAKE i \in Indices, n \in Int
  <2>1. i + n \in Int
    BY <1>0 DEF Indices
  <2>2. Wrap(i + n) \in Indices
    BY <2>1, WrapType
  <2> QED
    BY <2>2, AdvanceWraps
<1>3. \A i \in Indices : i \in Int /\ i % Size \in Places
  <2> TAKE i \in Indices
  <2>1. i \in Int
    BY <1>0 DEF Indices
  <2> QED
    BY <2>1, Remainder
<1>4. ASSUME NEW n \in 1 .. MaxChunk, WriteBegin(n) PROVE TypeOK'
  <2> DEFINE c == Smaller(WriteAvailable, n)
  <2>1. c \in Int /\ c > 0
    BY <1>0, <1>2, <1>4, SmallerType DEF WriteBegin
  <2>2. /\ wcount' = c /\ wdone' = 0 /\ wstart' = writeIndex /\ wpc' = "copy"
        /\ UNCHANGED <<index, memory, accepted, reader, torn>>
    BY <1>4 DEF WriteBegin
  <2> HIDE DEF c
  <2> QED
    BY <2>1, <2>2 DEF index, reader
<1>5. CASE WriteCopy
  <2> DEFINE place == (wstart + wdone) % Size
             v == accepted + wdone + 1
  <2>1. place \in Places /\ v \in Int
    BY <1>3, Remainder
  <2>2. /\ memory' = [memory EXCEPT ![place] = v] /\ wdone' = wdone + 1
        /\ UNCHANGED <<index, accepted, wpc, wcount, wstart, reader, torn>>
    BY <1>5 DEF WriteCopy
  <2> HIDE DEF place, v
  <2>3. memory' \in [Places -> Int]
    BY <2>1, <2>2
  <2> QED
    BY <2>2, <2>3 DEF index, reader
<1>6. CASE WriteEnd
  <2>1. writeIndex' \in Indices
    BY <1>1, <1>6 DEF WriteEnd
  <2> QED
    BY <1>6, <2>1 DEF WriteEnd, reader
<1>7. ASSUME NEW n \in 1 .. MaxChunk, NEW l \in {"read", "direct"}, RegionBegin(n, l)
      PROVE  /\ rcount' \in Nat /\ rstart' \in Places /\ first' \in Int
             /\ rdone' = 0 /\ taken' = << >> /\ rpc' \in {"read", "direct"}
  <2> DEFINE c == Smaller(ReadAvailable, n)
  <2>1. c \in Int /\ c > 0
    BY <1>0, <1>2, <1>7, SmallerType DEF RegionBegin
  <2>2. rcount' = c /\ rstart' = readIndex % Size /\ first' = accepted - ReadAvailable + 1
    BY <1>7 DEF RegionBegin
  <2> HIDE DEF c
  <2>3. first' \in Int /\ rstart' \in Places /\ rcount' \in Nat
    BY <1>2, <1>3, <2>1, <2>2
  <2> QED
    BY <1>7, <2>3 DEF RegionBegin
<1>8. ASSUME NEW n \in 1 .. MaxChunk, ReadBegin(n) PROVE TypeOK'
  <2>1. RegionBegin(n, "read")
    BY <1>8 DEF ReadBegin
  <2>2. /\ rcount' \in Nat /\ rstart' \in Places /\ first' \in Int
        /\ rdone' = 0 /\ taken' = << >> /\ rpc' \in {"read", "direct"}
    BY <1>7, <2>1
  <2>3. UNCHANGED <<index, memory, accepted, writer, torn>>
    BY <1>8 DEF ReadBegin
  <2> QED
    BY <2>2, <2>3 DEF index, writer
<1>9. ASSUME NEW n \in 1 .. MaxChunk, DirectReadBegin(n) PROVE TypeOK'
  <2> DEFINE c == Smaller(ReadAvailable, n)
  <2>1. c \in Int
    BY <1>0, <1>2, SmallerType
  <2>2. readIndex' = Advance(readIndex, c)
    BY <1>9 DEF DirectReadBegin
  <2> HIDE DEF c
  <2>3. readIndex' \in Indices
    BY <1>1, <2>1, <2>2
  <2>4. RegionBegin(n, "direct") /\ UNCHANGED <<writeIndex, memory, accepted, writer, torn>>
    BY <1>9 DEF DirectReadBegin
  <2>5. /\ rcount' \in Nat /\ rstart' \in Places /\ first' \in Int
        /\ rdone' = 0 /\ taken' = << >> /\ rpc' \in {"read", "direct"}
    BY <1>7, <2>4
  <2> QED
    BY <2>3, <2>4, <2>5 DEF writer
<1>10. CASE Fetch
  <2> DEFINE sample == memory[(rstart + rdone) % Size]
  <2>1. sample \in Int
    <3>1. rstart + rdone \in Int
      BY <1>0 DEF Places
    <3> QED
      BY <3>1, Remainder
  <2>2. /\ taken' = Append(taken, sample) /\ rdone' = rdone + 1
        /\ UNCHANGED <<index, memory, accepted, writer, rpc, rcount, rstart, first, torn>>
    BY <1>10 DEF Fetch
  <2> HIDE DEF sample
  <2> QED
    BY <2>1, <2>2 DEF index, writer
<1>11. CASE ReadEnd
  <2>1. readIndex' \in Indices
    BY <1>1, <1>11 DEF ReadEnd
  <2> QED
    BY <1>11, <2>1 DEF ReadEnd, writer
<1>12. CASE DirectUseEnd
  BY <1>12 DEF DirectUseEnd, index, writer
<1>13. CASE Clear
  BY <1>0, <1>13 DEF Clear, Indices, writer, reader
<1>14. CASE UNCHANGED vars
  BY <1>14 DEF vars, index, writer, reader
<1> QED
  BY <1>4, <1>5, <1>6, <1>8, <1>9, <1>10, <1>11, <1>12, <1>13, <1>14 DEF Next

\* What a step leaves sound: whatever was, unless a clear() tears it, and what a
\* clear() mends.
LEMMA SoundKept ==
  ASSUME IInv, [Next]_vars, ~torn'
  PROVE  Sound'
<1> USE DEF IInv
<1>1. TypeOK'
  BY TypesKept
<1>2. CASE Clear
  BY <1>1, <1>2, ClearMends
<1>3. CASE ~Clear
  <2>1. UNCHANGED torn
    BY <1>3 DEF Next, WriteBegin, ReadBegin, DirectReadBegin, WriteCopy, WriteEnd, Fetch,
                ReadEnd, DirectUseEnd, vars
  <2>2. Sound
    BY <2>1
  <2>3. ASSUME NEW n \in 1 .. MaxChunk, WriteBegin(n) PROVE Sound'
    BY <1>1, <2>2, <2>3, WriteBeginKeeps
  <2>4. ASSUME NEW n \in 1 .. MaxChunk, ReadBegin(n) PROVE Sound'
    BY <1>1, <2>2, <2>4, ReadBeginKeeps
  <2>5. ASSUME NEW n \in 1 .. MaxChunk, DirectReadBegin(n) PROVE Sound'
    BY <1>1, <2>2, <2>5, DirectReadBeginKeeps
  <2>6. CASE WriteCopy \/ WriteEnd
    BY <1>1, <2>2, <2>6, WriteCopyKeeps, WriteEndKeeps
  <2>7. CASE Fetch \/ ReadEnd \/ DirectUseEnd
    BY <1>1, <2>2, <2>7, FetchKeeps, ReadEndKeeps, DirectUseEndKeeps
  <2>8. CASE UNCHANGED vars
    BY <2>2, <2>8, StutterKeeps
  <2> QED
    BY <1>3, <2>3, <2>4, <2>5, <2>6, <2>7, <2>8 DEF Next
<1> QED
  BY <1>2, <1>3

\* Every reachable state of a buffer of any size satisfies the invariant.
THEOREM Invariance == Spec => []IInv
<1>1. Init => IInv
  BY InitSound DEF IInv, Sound
<1>2. IInv /\ [Next]_vars => IInv'
  BY TypesKept, SoundKept DEF IInv
<1> QED
  BY <1>1, <1>2, PTL DEF Spec

\* read() returns the samples that were written, in their order, whatever the
\* producer writes meanwhile and wherever the indices wrap, unless the last
\* clear() came in the middle of a write().
THEOREM ReadAlwaysIntact == Spec => []ReadIntact
<1>1. IInv => ReadIntact
  BY DEF IInv, Sound, Region, ReadIntact
<1> QED
  BY <1>1, Invariance, PTL

----------------------------------------------------------------------------
(* The buffer implements the queue.                                         *)

\* What SampleQueue's queue is here, and the run of samples it must be.
Contents == [i \in 1 .. ReadAvailable |-> memory[(readIndex + i - 1) % Size]]
Samples(base, n) == [i \in 1 .. n |-> base + i]

LEMMA ContentsAreSamples ==
  Sound => Contents = Samples(accepted - ReadAvailable, ReadAvailable)
<1> SUFFICES ASSUME Sound
             PROVE  Contents = Samples(accepted - ReadAvailable, ReadAvailable)
  OBVIOUS
<1>1. ReadAvailable \in Nat /\ Copied \in Nat
  BY AvailableType DEF Sound, TypeOK, Copied
<1>2. ASSUME NEW i \in 1 .. ReadAvailable
      PROVE  memory[(readIndex + i - 1) % Size] = accepted - ReadAvailable + i
  <2>1. i \in 1 .. ReadAvailable + Copied
    BY <1>1
  <2> QED
    BY <2>1 DEF Sound, Held, Run
<1> QED
  BY <1>2 DEF Contents, Samples

\* Consecutive samples stay consecutive when more are put behind them, or the
\* first of them are taken.
LEMMA SamplesAppended ==
  ASSUME NEW base \in Int, NEW n \in Nat, NEW c \in Nat
  PROVE  Samples(base, n + c) = Samples(base, n) \o [i \in 1 .. c |-> base + n + i]
<1> DEFINE s == Samples(base, n)
           t == [i \in 1 .. c |-> base + n + i]
<1>1. s \in Seq(Int) /\ t \in Seq(Int) /\ Len(s) = n /\ Len(t) = c
  BY DEF Samples
<1>2. \A i \in 1 .. n + c : (s \o t)[i] = base + i
  BY <1>1 DEF Samples
<1>3. DOMAIN (s \o t) = 1 .. n + c /\ s \o t = [i \in DOMAIN (s \o t) |-> (s \o t)[i]]
  BY <1>1
<1> QED
  BY <1>2, <1>3 DEF Samples

LEMMA SamplesTaken ==
  ASSUME NEW base \in Int, NEW n \in Nat, NEW c \in 0 .. n
  PROVE  SubSeq(Samples(base, n), c + 1, n) = Samples(base + c, n - c)
BY DEF Samples

LEMMA SamplesLength == ASSUME NEW base \in Int, NEW n \in Nat PROVE Len(Samples(base, n)) = n
BY DEF Samples

\* What is available, and what the contents are, before and after a step.
LEMMA Before ==
  ASSUME Sound
  PROVE  /\ ReadAvailable \in Nat /\ ReadAvailable <= Size /\ accepted \in Nat
         /\ Contents = Samples(accepted - ReadAvailable, ReadAvailable)
         /\ Len(Contents) = ReadAvailable
<1>1. ReadAvailable \in Nat /\ ReadAvailable <= Size /\ accepted \in Nat
  BY AvailableType DEF Sound, TypeOK, Fits
<1>2. Contents = Samples(accepted - ReadAvailable, ReadAvailable)
  BY ContentsAreSamples
<1>3. accepted - ReadAvailable \in Int
  BY <1>1
<1> QED
  BY <1>1, <1>2, <1>3, SamplesLength

LEMMA After ==
  Sound' => /\ ReadAvailable' \in Nat /\ accepted' \in Nat
           /\ Contents' = Samples(accepted' - ReadAvailable', ReadAvailable')
<1>1. (Sound => /\ ReadAvailable \in Nat /\ accepted \in Nat
               /\ Contents = Samples(accepted - ReadAvailable, ReadAvailable))'
  BY Before, PTL
<1> QED
  BY <1>1

\* Publishing a write() puts its samples at the end of the queue.
LEMMA WriteEndPuts ==
  ASSUME Sound, Sound', WriteEnd
  PROVE  /\ wcount \in 1 .. Size
         /\ Len(Contents) + wcount <= Size
         /\ Contents' = Contents \o [i \in 1 .. wcount |-> accepted + i]
         /\ accepted' = accepted + wcount
<1> DEFINE a == ReadAvailable
           base == accepted - a
<1>1. a \in Nat /\ accepted \in Nat /\ Len(Contents) = a /\ Contents = Samples(base, a)
  BY Before
<1>2. wcount \in 1 .. Size /\ a + wcount <= Size
  BY <1>1, SizeAssumption DEF Sound, TypeOK, Fits, WriteEnd
<1>3. ReadAvailable' = a + wcount
  <2>1. a + wcount < 2 * Size /\ wcount \in 0 .. Size
    BY <1>1, <1>2, SizeAssumption
  <2> QED
    BY <2>1, AvailableMoves DEF WriteEnd, Sound, Ahead
<1>4. accepted' = accepted + wcount
  BY DEF WriteEnd
<1>5. base \in Int /\ accepted' - ReadAvailable' = base /\ wcount \in Nat
  BY <1>1, <1>2, <1>3, <1>4
<1>6. Contents' = Samples(base, a + wcount)
  BY <1>3, <1>5, After
<1>7. [i \in 1 .. wcount |-> base + a + i] = [i \in 1 .. wcount |-> accepted + i]
  BY <1>1
<1> HIDE DEF a, base
<1>8. Samples(base, a + wcount) = Samples(base, a) \o [i \in 1 .. wcount |-> base + a + i]
  BY <1>1, <1>5, SamplesAppended
<1> QED
  BY <1>1, <1>2, <1>4, <1>6, <1>7, <1>8

\* Giving c samples back takes them from the front of it.
LEMMA GivingBackTakes ==
  ASSUME Sound, Sound', NEW c \in 1 .. ReadAvailable,
         readIndex' = Advance(readIndex, c), UNCHANGED <<writeIndex, accepted>>
  PROVE  /\ c \in 1 .. Len(Contents)
         /\ Contents' = SubSeq(Contents, c + 1, Len(Contents))
<1> DEFINE a == ReadAvailable
           base == accepted - a
<1>1. /\ a \in Nat /\ a <= Size /\ accepted \in Nat
      /\ Len(Contents) = a /\ Contents = Samples(base, a)
  BY Before
<1>2. ReadAvailable' = a - c
  <2>1. c \in 0 .. Size /\ c <= a
    BY <1>1, SizeAssumption
  <2> QED
    BY <2>1, AvailableMoves DEF Sound
<1>3. base \in Int /\ accepted' - ReadAvailable' = base + c /\ c \in 0 .. a
  BY <1>1, <1>2
<1>4. Contents' = Samples(base + c, a - c)
  BY <1>2, <1>3, After
<1> HIDE DEF base
<1>5. SubSeq(Samples(base, a), c + 1, a) = Samples(base + c, a - c)
  BY <1>1, <1>3, SamplesTaken
<1> QED
  BY <1>1, <1>4, <1>5

\* A write() in progress, and taking samples out of a region, do not show.
LEMMA Unseen ==
  ASSUME Sound, Sound', UNCHANGED <<index, accepted>>
  PROVE  Contents' = Contents
<1>1. UNCHANGED ReadAvailable
  BY SameIndices
<1> QED
  BY <1>1, Before, After

\* The buffer is the queue it promises, whatever its size and its threads do: a
\* step puts samples, takes the oldest, empties it or leaves it alone, and one
\* that is torn stays so until the next clear().
THEOREM Implementation == Spec => ImplementsQueue
<1>1. Init => Queue!QueueInit
  <2> SUFFICES ASSUME Init PROVE Queue!QueueInit
    OBVIOUS
  <2>1. ReadAvailable = 0
    <3>1. Size \in Nat \ {0}
      BY SizeAssumption
    <3> QED
      BY <3>1, Wraps, AvailableIsDistance DEF Init, Distance
  <2> QED
    BY <2>1 DEF Init, Queue!QueueInit
<1>2. IInv /\ IInv' /\ [Next]_vars => [Queue!QueueNext]_Queue!qvars
  <2> SUFFICES ASSUME IInv, IInv', [Next]_vars
               PROVE  [Queue!QueueNext]_Queue!qvars
    OBVIOUS
  <2>1. CASE Clear
    <3>1. ReadAvailable' = 0
      <4>1. ReadAvailable' = Wrap(0)
        BY <2>1 DEF Clear, ReadAvailable, Wrap
      <4>2. Size \in Nat \ {0}
        BY SizeAssumption
      <4> QED
        BY <4>1, <4>2, Wraps
    <3>2. Queue!Clear
      BY <2>1, <3>1 DEF Clear, Queue!Clear
    <3> QED
      BY <3>2 DEF Queue!QueueNext
  <2> SUFFICES ASSUME ~Clear PROVE [Queue!QueueNext]_Queue!qvars
    BY <2>1
  <2>2. UNCHANGED torn
    BY DEF Next, WriteBegin, ReadBegin, DirectReadBegin, WriteCopy, WriteEnd, Fetch,
           ReadEnd, DirectUseEnd, vars
  <2>3. CASE torn
    BY <2>2, <2>3 DEF Queue!QueueNext, Queue!Torn
  <2> SUFFICES ASSUME ~torn PROVE [Queue!QueueNext]_Queue!qvars
    BY <2>3
  <2>4. Sound /\ Sound'
    BY <2>2 DEF IInv
  <2>5. ASSUME UNCHANGED <<index, accepted>> PROVE UNCHANGED Queue!qvars
    <3>1. UNCHANGED <<Contents, accepted>>
      BY <2>4, <2>5, Unseen
    <3> QED
      BY <2>2, <3>1 DEF Queue!qvars, Contents
  <2>6. ASSUME WriteEnd PROVE Queue!QueueNext
    <3>1. PICK n \in 1 .. Size : n = wcount
      BY <2>4, <2>6, WriteEndPuts
    <3>2. Queue!Put(n)
      BY <2>2, <2>4, <2>6, <3>1, WriteEndPuts DEF Queue!Put, Contents
    <3> QED
      BY <3>2 DEF Queue!QueueNext
  <2>7. ASSUME NEW c \in 1 .. ReadAvailable, readIndex' = Advance(readIndex, c),
               UNCHANGED <<writeIndex, accepted>>
        PROVE  Queue!QueueNext
    <3>1. Queue!Take(c)
      BY <2>2, <2>4, <2>7, GivingBackTakes DEF Queue!Take, Contents
    <3> QED
      BY <2>4, <2>7, <3>1, GivingBackTakes DEF Queue!QueueNext, Contents
  <2>8. ASSUME ReadEnd PROVE Queue!QueueNext
    <3>1. rcount \in 1 .. ReadAvailable
      BY <2>4, <2>8, Before DEF Sound, TypeOK, Region, ReadEnd
    <3> QED
      BY <2>7, <2>8, <3>1 DEF ReadEnd
  <2>9. ASSUME NEW n \in 1 .. MaxChunk, DirectReadBegin(n) PROVE Queue!QueueNext
    <3> DEFINE c == Smaller(ReadAvailable, n)
    <3>1. ReadAvailable \in Int /\ ReadAvailable > 0 /\ n \in Int /\ n > 0
      BY <2>4, <2>9, Before, ChunkAssumption DEF DirectReadBegin, RegionBegin
    <3>2. c \in Int /\ c <= ReadAvailable /\ c > 0
      BY <3>1, SmallerType
    <3>3. c \in 1 .. ReadAvailable
      BY <3>1, <3>2
    <3> QED
      BY <2>7, <2>9, <3>3 DEF DirectReadBegin
  <2>10. CASE \E n \in 1 .. MaxChunk : WriteBegin(n) \/ ReadBegin(n)
    BY <2>5, <2>10 DEF WriteBegin, ReadBegin
  <2>11. CASE WriteCopy \/ Fetch \/ DirectUseEnd \/ UNCHANGED vars
    BY <2>5, <2>11 DEF WriteCopy, Fetch, DirectUseEnd, vars
  <2> QED
    BY <2>6, <2>8, <2>9, <2>10, <2>11 DEF Next
<1> QED
  BY <1>1, <1>2, Invariance, PTL DEF Spec, ImplementsQueue, Queue!QueueSpec
=============================================================================

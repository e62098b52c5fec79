--------------------------- MODULE HulaRingBuffer ---------------------------
(****************************************************************************)
(* HulaRingBuffer (src/src/audio/HulaRingBuffer.cpp) over PortAudio's lock- *)
(* free ring buffer, with one producer and one consumer thread.  PortAudio  *)
(* is not in the repository: PaUtil_* is modelled from how HulaRingBuffer   *)
(* uses it, as its documented single-reader single-writer buffer, whose     *)
(* indices run modulo twice the size so that full and empty differ.         *)
(*                                                                          *)
(* A sample is its number in the order of acceptance; one sample is copied  *)
(* per step, which is where the two threads interleave.  clear() is called  *)
(* by a third party, which has stopped the consumer and not the producer.   *)
(****************************************************************************)
EXTENDS Integers, Sequences

CONSTANTS
  Size,        \* samples in the buffer, a power of two
  MaxChunk,    \* the largest maxSamples a call asks for
  MaxSamples   \* bound on the samples accepted in a behaviour

ASSUME SizeAssumption == Size \in Nat \ {0} /\ \E k \in 0 .. Size : Size = 2 ^ k
ASSUME ChunkAssumption == MaxChunk \in Nat \ {0} /\ MaxSamples \in Nat

VARIABLES
  readIndex, writeIndex,   \* PaUtilRingBuffer's indices, modulo 2 * Size
  memory,                  \* rbMemory
  accepted,                \* samples whose write has been published
  wpc, wcount, wdone,      \* write(): where it is, samples to write, samples copied
  wstart,                  \* the writeIndex it began at
  rpc, rcount, rdone,      \* read() or directRead(): likewise
  rstart,                  \* where the consumer's region begins in memory
  first,                   \* the number of the first sample it was given
  taken,                   \* the samples it has got out of its region so far
  torn                     \* the last clear() came in the middle of a write()

index == <<readIndex, writeIndex>>
writer == <<wpc, wcount, wdone, wstart>>
reader == <<rpc, rcount, rdone, rstart, first, taken>>
vars == <<index, memory, accepted, writer, reader, torn>>

Smaller(a, b) == IF a < b THEN a ELSE b

\* PaUtil_GetRingBufferReadAvailable, PaUtil_GetRingBufferWriteAvailable.
ReadAvailable == (writeIndex - readIndex) % (2 * Size)
WriteAvailable == Size - ReadAvailable

\* PaUtil_AdvanceRingBuffer*Index.
Advance(i, n) == (i + n) % (2 * Size)

Init ==
  /\ readIndex = 0 /\ writeIndex = 0
  /\ memory = [i \in 0 .. Size - 1 |-> 0]
  /\ accepted = 0
  /\ wpc = "idle" /\ wcount = 0 /\ wdone = 0 /\ wstart = 0
  /\ rpc = "idle" /\ rcount = 0 /\ rdone = 0
  /\ rstart = 0 /\ first = 0 /\ taken = << >>
  /\ torn = FALSE

----------------------------------------------------------------------------
(* The producer: write(data, maxSamples). *)

\* As a bug would have it: the producer writes everything, whether it fits or not.
WriteBeginAll(maxSamples) ==
  /\ wpc = "idle"
  /\ accepted + maxSamples <= MaxSamples
  /\ wcount' = maxSamples
  /\ wdone' = 0 /\ wstart' = writeIndex
  /\ wpc' = "copy"
  /\ UNCHANGED <<index, memory, accepted, reader, torn>>

\* How much fits is read once; what does not fit is dropped (an overrun).
WriteBegin(maxSamples) ==
  /\ wpc = "idle"
  /\ LET elementsToWrite == Smaller(WriteAvailable, maxSamples)
     IN  /\ elementsToWrite > 0
         /\ accepted + elementsToWrite <= MaxSamples
         /\ wcount' = elementsToWrite
  /\ wdone' = 0 /\ wstart' = writeIndex
  /\ wpc' = "copy"
  /\ UNCHANGED <<index, memory, accepted, reader, torn>>

WriteCopy ==
  /\ wpc = "copy" /\ wdone < wcount
  /\ memory' = [memory EXCEPT ![(wstart + wdone) % Size] = accepted + wdone + 1]
  /\ wdone' = wdone + 1
  /\ UNCHANGED <<index, accepted, wpc, wcount, wstart, reader, torn>>

\* As a bug would have it: the index moves on by a whole chunk, full or not.
WriteEndChunk ==
  /\ wpc = "copy" /\ wdone = wcount
  /\ writeIndex' = Advance(writeIndex, MaxChunk)
  /\ accepted' = accepted + wcount
  /\ wpc' = "idle"
  /\ UNCHANGED <<readIndex, memory, wcount, wdone, wstart, reader, torn>>

\* Publish the samples: the index is read and stored, and a clear() in between
\* is overwritten.
WriteEnd ==
  /\ wpc = "copy" /\ wdone = wcount
  /\ \E i \in {writeIndex, wstart} : writeIndex' = Advance(i, wcount)
  /\ accepted' = accepted + wcount
  /\ wpc' = "idle"
  /\ UNCHANGED <<readIndex, memory, wcount, wdone, wstart, reader, torn>>

----------------------------------------------------------------------------
(* The consumer: read(data, maxSamples) and directRead(maxSamples, ...). *)

RegionBegin(maxSamples, label) ==
  /\ rpc = "idle"
  /\ ReadAvailable > 0
  /\ rcount' = Smaller(ReadAvailable, maxSamples)
  /\ rstart' = readIndex % Size
  /\ first' = accepted - ReadAvailable + 1
  /\ rdone' = 0 /\ taken' = << >>
  /\ rpc' = label

\* read copies the region out, then gives it back.
ReadBegin(maxSamples) ==
  /\ RegionBegin(maxSamples, "read")
  /\ UNCHANGED <<index, memory, accepted, writer, torn>>

\* directRead gives the region back at once and returns pointers into it.
DirectReadBegin(maxSamples) ==
  /\ RegionBegin(maxSamples, "direct")
  /\ readIndex' = Advance(readIndex, Smaller(ReadAvailable, maxSamples))
  /\ UNCHANGED <<writeIndex, memory, accepted, writer, torn>>

\* One sample out of the region, by read itself or by the caller of directRead.
Fetch ==
  /\ rpc \in {"read", "direct"} /\ rdone < rcount
  /\ taken' = Append(taken, memory[(rstart + rdone) % Size])
  /\ rdone' = rdone + 1
  /\ UNCHANGED <<index, memory, accepted, writer, rpc, rcount, rstart, first, torn>>

ReadEnd ==
  /\ rpc = "read" /\ rdone = rcount
  /\ readIndex' = Advance(readIndex, rcount)
  /\ rpc' = "idle"
  /\ UNCHANGED <<writeIndex, memory, accepted, writer, rcount, rdone, rstart, first,
                 taken, torn>>

DirectUseEnd ==
  /\ rpc = "direct" /\ rdone = rcount
  /\ rpc' = "idle"
  /\ UNCHANGED <<index, memory, accepted, writer, rcount, rdone, rstart, first, taken,
                 torn>>

\* clear(): PaUtil_FlushRingBuffer resets both indices.  Record clears its
\* buffer once it is removed; endPlayback once the playback thread is joined.
\* Neither waits for a write() that a capture or the player is in.
Clear ==
  /\ rpc = "idle"
  /\ readIndex' = 0 /\ writeIndex' = 0
  /\ torn' = (wpc # "idle")
  /\ UNCHANGED <<memory, accepted, writer, reader>>

Next ==
  \/ \E n \in 1 .. MaxChunk : WriteBegin(n) \/ ReadBegin(n) \/ DirectReadBegin(n)
  \/ WriteCopy \/ WriteEnd \/ Fetch \/ ReadEnd \/ DirectUseEnd \/ Clear

Spec == Init /\ [][Next]_vars

----------------------------------------------------------------------------
(* Properties. *)

\* The k-th sample taken from a region is the k-th sample that was put there.
InOrder == \A k \in 1 .. Len(taken) : taken[k] = first + k - 1

\* read() returns what was written, in order, whatever the producer does
\* meanwhile and however the indices wrap, unless the last clear() came in the
\* middle of a write().
ReadIntact == rpc = "read" /\ ~torn => InOrder

\* The published samples are always a FIFO queue of consecutive samples, no
\* longer than the buffer, until a clear() comes in the middle of a write();
\* the next clear() that does not makes it one again.
Queue == INSTANCE SampleQueue WITH
  Capacity <- Size,
  queue <- [i \in 1 .. ReadAvailable |-> memory[(readIndex + i - 1) % Size]],
  sent <- accepted,
  torn <- torn

ImplementsQueue == Queue!QueueSpec
=============================================================================

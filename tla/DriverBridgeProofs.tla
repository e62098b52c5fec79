------------------------- MODULE DriverBridgeProofs -------------------------
(****************************************************************************)
(* Proofs about DriverBridge, for any ring that is a whole number of        *)
(* callbacks, for operations that fit it, for whatever times the audio      *)
(* server writes at, and however long the two processes run.                *)
(*                                                                          *)
(* Nothing locks the memory the two share.  What keeps the streams right is *)
(* arithmetic: two times less than a turn of the ring apart have places of  *)
(* their own, a callback silences the places it took and no others, and so  *)
(* whatever is written out of pace is gone a turn later.                    *)
(****************************************************************************)
EXTENDS DriverBridge, TLAPS

----------------------------------------------------------------------------
(* The inductive invariant.                                                 *)

Stamp == [number : Nat, host : Nat, seed : Nat, since : Nat]
Ring == [Offsets -> Int \cup {Silence}]
Statuses == {JB_DRV_STATUS_INIT, JB_DRV_STATUS_ACTIVE, JB_DRV_STATUS_STARTED}

\* Every register, ring and field has its type.
TypeOK ==
  /\ shm \in [exists : BOOLEAN, status : Statuses, syncMode : {0, 1},
              number : Nat, host : Nat, seed : Nat]
  /\ bufUp \in Ring /\ bufDown \in Ring
  /\ now \in Nat
  /\ daemon \in [life : {"down", "new", "up", "dying"}, isActive : BOOLEAN, frame : Nat,
                 pc : {"idle", "takeover", "reset", "seed", "stamp", "number",
                       "send", "receive"}]
  /\ driver \in [open : BOOLEAN, opens : Nat, status : Statuses, count : Nat,
                 pc : {"idle", "readNumber", "readHost", "readSeed",
                       "storeNumber", "storeHost"},
                 stamp : Stamp]
  /\ report \in Stamp
  /\ astray \in Nat
  /\ origin \in [stored : Nat, published : Nat]

\* Callbacks begin at whole multiples of their frames, so that what one of them
\* silences never crosses the ring's end.
Aligned == daemon.frame % NFrames = 0

\* A callback runs only in a daemon that lives or dies, a daemon only over the
\* driver's memory, and a clock is taken over before the first frame.
Life ==
  /\ daemon.pc # "idle" => daemon.life \in {"up", "dying"}
  /\ daemon.life # "down" => shm.exists
  /\ shm.exists => shm.seed >= 1
  /\ shm.syncMode = 1 => shm.seed >= 1
  /\ daemon.pc \in {"takeover", "reset", "seed"} => ~daemon.isActive /\ daemon.frame = 0

\* In the turn that begins with the frame the daemon takes next, a place holds
\* the frame of its time or silence, once the daemon has silenced it since the
\* server last wrote out of pace.
UpHolds ==
  \A s \in ReceiveTime .. ReceiveTime + FramesPerBuffer - 1 :
    s >= astray + FramesPerBuffer - NFrames => bufUp[s % FramesPerBuffer] \in {Silence, s}

\* The daemon has written the times before this one: up to the callback's end
\* while it is in the callback's second half.
Written == IF InCallback("receive") THEN daemon.frame + NFrames ELSE daemon.frame

\* What it wrote is in the other ring for the best part of a turn.
DownHolds ==
  daemon.isActive =>
    \A s \in 0 .. Written - 1 :
      s >= daemon.frame + NFrames - FramesPerBuffer => bufDown[s % FramesPerBuffer] = s

\* The time in the register is of the driver's free run, not of the daemon.
OverwrittenTime == origin.stored = 0

\* The registers of the daemon's stamps: a number is published after its time
\* is stored, and no stored time is younger than the register's.
Stamps ==
  /\ origin.stored <= now /\ origin.published <= now
  /\ origin.stored <= shm.host
  /\ OverwrittenTime \/ origin.published <= origin.stored
  /\ driver.pc = "readHost" =>
       /\ driver.stamp.since <= now
       /\ OverwrittenTime \/ driver.stamp.since <= origin.stored
  /\ driver.pc = "readSeed" => driver.stamp.since <= driver.stamp.host
  /\ report.since <= report.host

IInv ==
  /\ TypeOK /\ Aligned /\ Life
  /\ UpHolds /\ DownHolds /\ Stamps
----------------------------------------------------------------------------
(* Places.                                                                  *)

\* What the assumptions say of the three lengths.
LEMMA Lengths ==
  /\ FramesPerBuffer \in Nat \ {0} /\ NFrames \in Nat \ {0} /\ IOFrames \in Nat \ {0}
  /\ NFrames <= FramesPerBuffer /\ IOFrames <= FramesPerBuffer
BY CallbacksFillTheRing, OperationsFit

\* A place is found again after any number of turns of the ring.
LEMMA Place ==
  ASSUME NEW q \in Int, NEW b \in Offsets
  PROVE  (q * FramesPerBuffer + b) % FramesPerBuffer = b
BY Lengths DEF Offsets

LEMMA Remainder ==
  \A a \in Int : /\ a % FramesPerBuffer \in Offsets
                 /\ a \div FramesPerBuffer \in Int
                 /\ a = (a \div FramesPerBuffer) * FramesPerBuffer + (a % FramesPerBuffer)
BY Lengths DEF Offsets

\* The place of a time, counted from another's: up to the ring's end it is as
\* far on, and behind it a turn less.
LEMMA PlaceFrom ==
  ASSUME NEW t \in Int, NEW d \in 0 .. FramesPerBuffer - 1
  PROVE  /\ (t % FramesPerBuffer) + d < FramesPerBuffer
              => (t + d) % FramesPerBuffer = (t % FramesPerBuffer) + d
         /\ (t % FramesPerBuffer) + d >= FramesPerBuffer
              => (t + d) % FramesPerBuffer = (t % FramesPerBuffer) + d - FramesPerBuffer
<1> DEFINE q == t \div FramesPerBuffer
           b == t % FramesPerBuffer
<1>1. /\ q \in Int /\ b \in Offsets /\ b \in Int /\ d \in Int
      /\ t = q * FramesPerBuffer + b
  BY Remainder, Lengths DEF Offsets
<1>2. FramesPerBuffer \in Nat \ {0}
  BY Lengths
<1> HIDE DEF q, b
<1>3. ASSUME b + d < FramesPerBuffer
      PROVE  (t + d) % FramesPerBuffer = b + d
  <2>1. b + d \in Offsets /\ t + d = q * FramesPerBuffer + (b + d)
    BY <1>1, <1>2, <1>3 DEF Offsets
  <2>2. (q * FramesPerBuffer + (b + d)) % FramesPerBuffer = b + d
    BY <1>1, <2>1, Place
  <2> QED
    BY <2>1, <2>2
<1>4. ASSUME b + d >= FramesPerBuffer
      PROVE  (t + d) % FramesPerBuffer = b + d - FramesPerBuffer
  <2>1. /\ b + d - FramesPerBuffer \in Offsets /\ q + 1 \in Int
        /\ t + d = (q + 1) * FramesPerBuffer + (b + d - FramesPerBuffer)
    BY <1>1, <1>2, <1>4 DEF Offsets
  <2>2. ((q + 1) * FramesPerBuffer + (b + d - FramesPerBuffer)) % FramesPerBuffer
          = b + d - FramesPerBuffer
    BY <2>1, Place
  <2> QED
    BY <2>1, <2>2
<1> QED
  BY <1>3, <1>4 DEF b

\* Two times less than a turn apart have places of their own.
LEMMA Apart ==
  \A a, b \in Int : a < b /\ b < a + FramesPerBuffer
                     => a % FramesPerBuffer # b % FramesPerBuffer
<1> SUFFICES ASSUME NEW a \in Int, NEW b \in Int, a < b, b < a + FramesPerBuffer
             PROVE  a % FramesPerBuffer # b % FramesPerBuffer
  OBVIOUS
<1> DEFINE d == b - a
           p == a % FramesPerBuffer
<1>1. FramesPerBuffer \in Nat \ {0} /\ d \in 0 .. FramesPerBuffer - 1 /\ d > 0 /\ b = a + d
  BY Lengths
<1>2. p \in Int
  BY Remainder DEF Offsets
<1> HIDE DEF d, p
<1>3. /\ p + d < FramesPerBuffer => (a + d) % FramesPerBuffer = p + d
      /\ p + d >= FramesPerBuffer
           => (a + d) % FramesPerBuffer = p + d - FramesPerBuffer
  BY <1>1, PlaceFrom DEF p
<1>4. (a + d) % FramesPerBuffer # p
  BY <1>1, <1>2, <1>3
<1> QED
  BY <1>1, <1>4 DEF p

\* A turn later is the same place.
LEMMA NextTurn == \A a \in Int : (a + FramesPerBuffer) % FramesPerBuffer = a % FramesPerBuffer
<1> SUFFICES ASSUME NEW a \in Int
             PROVE  (a + FramesPerBuffer) % FramesPerBuffer = a % FramesPerBuffer
  OBVIOUS
<1> DEFINE q == a \div FramesPerBuffer
           b == a % FramesPerBuffer
<1>1. q \in Int /\ b \in Offsets /\ b \in Int /\ a = q * FramesPerBuffer + b
  BY Remainder DEF Offsets
<1>2. FramesPerBuffer \in Nat
  BY Lengths
<1> HIDE DEF q, b
<1>3. a + FramesPerBuffer = (q + 1) * FramesPerBuffer + b /\ q + 1 \in Int
  BY <1>1, <1>2
<1>4. ((q + 1) * FramesPerBuffer + b) % FramesPerBuffer = b
  BY <1>1, <1>3, Place
<1> QED
  BY <1>3, <1>4 DEF b

\* Less than a turn apart, equal places are equal times.
LEMMA SamePlace ==
  \A a, b \in Int : /\ a % FramesPerBuffer = b % FramesPerBuffer
                    /\ a < b + FramesPerBuffer /\ b < a + FramesPerBuffer
                    => a = b
BY Apart

\* A callback's frames never cross the ring's end: both its place and the ring
\* are whole multiples of them.
LEMMA CallbackFits ==
  ASSUME NEW f \in Nat, f % NFrames = 0
  PROVE  ((f - NFrames) % FramesPerBuffer) + NFrames <= FramesPerBuffer
<1> DEFINE k == FramesPerBuffer \div NFrames
           m == f \div NFrames
           q == (f - NFrames) \div FramesPerBuffer
           b == (f - NFrames) % FramesPerBuffer
           j == m - 1 - q * k
<1>1. FramesPerBuffer \in Nat \ {0} /\ NFrames \in Nat \ {0}
  BY Lengths
<1>2. k \in Int /\ FramesPerBuffer = k * NFrames
  BY CallbacksFillTheRing
<1>3. m \in Int /\ f = m * NFrames
  BY <1>1
<1>4. /\ q \in Int /\ b \in Int /\ b < FramesPerBuffer
      /\ f - NFrames = q * FramesPerBuffer + b
  <2>1. f - NFrames \in Int
    BY <1>1
  <2>2. b \in Offsets /\ q \in Int /\ f - NFrames = q * FramesPerBuffer + b
    BY <2>1, Remainder
  <2> HIDE DEF b, q
  <2> QED
    BY <1>1, <2>2 DEF Offsets
<1> HIDE DEF k, m, q, b
<1>5. j \in Int /\ q * k \in Int
  BY <1>2, <1>3, <1>4
<1>6. b = j * NFrames
  <2>1. b = m * NFrames - NFrames - q * (k * NFrames)
    BY <1>1, <1>2, <1>3, <1>4
  <2>2. q * (k * NFrames) = (q * k) * NFrames
    BY <1>1, <1>2, <1>4
  <2>3. (m - 1 - q * k) * NFrames = m * NFrames - NFrames - (q * k) * NFrames
    BY <1>1, <1>3, <1>5
  <2> QED
    BY <2>1, <2>2, <2>3, <1>1, <1>3, <1>5
<1> HIDE DEF j
<1>7. j < k
  <2> SUFFICES ASSUME k <= j PROVE FALSE
    BY <1>2, <1>5
  <2>1. k * NFrames <= j * NFrames
    BY <1>1, <1>2, <1>5
  <2> QED
    BY <2>1, <1>1, <1>2, <1>4, <1>6
<1>8. (j + 1) * NFrames <= k * NFrames
  BY <1>1, <1>2, <1>5, <1>7
<1>9. (j + 1) * NFrames = j * NFrames + NFrames
  BY <1>1, <1>5
<1> QED
  BY <1>1, <1>2, <1>4, <1>6, <1>8, <1>9 DEF b

----------------------------------------------------------------------------
(* What the operations do to a ring.                                        *)

\* Within a turn, a ring that n frames were copied into holds these at their
\* times and what it held at the others.
LEMMA CopiedInRing ==
  ASSUME NEW ring \in Ring, NEW t \in Int, NEW n \in 1 .. FramesPerBuffer
  PROVE  /\ CopiedIn(ring, t, n) \in Ring
         /\ \A s \in t + n - FramesPerBuffer .. t + FramesPerBuffer - 1 :
              CopiedIn(ring, t, n)[s % FramesPerBuffer]
                = IF s \in t .. t + n - 1 THEN s ELSE ring[s % FramesPerBuffer]
<1> DEFINE offset == t % FramesPerBuffer
           first == FirstPart(offset, n)
<1>1. FramesPerBuffer \in Nat \ {0} /\ n \in Int
  BY Lengths
<1>2. offset \in Int /\ 0 <= offset /\ offset < FramesPerBuffer
  BY Remainder, <1>1 DEF Offsets
<1>3. /\ first \in Int /\ first <= n /\ offset + first <= FramesPerBuffer
      /\ first < n => offset + first = FramesPerBuffer
  BY <1>1, <1>2 DEF FirstPart, Smaller
<1> DEFINE copied == CopiedIn(ring, t, n)
<1>4. copied = [o \in Offsets |->
                  IF offset <= o /\ o < offset + first THEN t + (o - offset)
                  ELSE IF o < n - first THEN t + first + o
                  ELSE ring[o]]
  BY DEF CopiedIn
<1> HIDE DEF first, copied
<1>5. copied \in Ring
  BY <1>1, <1>2, <1>3, <1>4 DEF Ring, Offsets
<1>6. ASSUME NEW s \in t + n - FramesPerBuffer .. t + FramesPerBuffer - 1
      PROVE  copied[s % FramesPerBuffer]
               = IF s \in t .. t + n - 1 THEN s ELSE ring[s % FramesPerBuffer]
  <2> DEFINE o == s % FramesPerBuffer
  <2>1. s \in Int /\ o \in Offsets
    BY Remainder, <1>1
  <2>2. o \in Int /\ 0 <= o /\ o < FramesPerBuffer
    BY <1>1, <2>1 DEF Offsets
  <2>3. ASSUME t <= s
        PROVE  o = IF offset + (s - t) < FramesPerBuffer THEN offset + (s - t)
                   ELSE offset + (s - t) - FramesPerBuffer
    <3>1. s - t \in 0 .. FramesPerBuffer - 1 /\ t + (s - t) = s
      BY <1>1, <2>1, <2>3
    <3>2. /\ offset + (s - t) < FramesPerBuffer
               => (t + (s - t)) % FramesPerBuffer = offset + (s - t)
          /\ offset + (s - t) >= FramesPerBuffer
               => (t + (s - t)) % FramesPerBuffer = offset + (s - t) - FramesPerBuffer
      BY <3>1, PlaceFrom
    <3> QED
      BY <1>1, <1>2, <2>1, <3>1, <3>2
  <2>4. ASSUME s < t
        PROVE  o = IF offset + (s - t) >= 0 THEN offset + (s - t)
                   ELSE offset + (s - t) + FramesPerBuffer
    <3> DEFINE r == s + FramesPerBuffer
    <3>1. r - t \in 0 .. FramesPerBuffer - 1 /\ t + (r - t) = r
      BY <1>1, <2>1, <2>4
    <3>2. /\ offset + (r - t) < FramesPerBuffer
               => (t + (r - t)) % FramesPerBuffer = offset + (r - t)
          /\ offset + (r - t) >= FramesPerBuffer
               => (t + (r - t)) % FramesPerBuffer = offset + (r - t) - FramesPerBuffer
      BY <3>1, PlaceFrom
    <3>3. o = r % FramesPerBuffer
      BY <2>1, NextTurn
    <3> QED
      BY <1>1, <1>2, <2>1, <3>1, <3>2, <3>3
  <2>5. copied[o] = IF offset <= o /\ o < offset + first THEN t + (o - offset)
                    ELSE IF o < n - first THEN t + first + o
                    ELSE ring[o]
    BY <1>4, <2>1
  <2> HIDE DEF o, offset
  <2>6. CASE s < t
    BY <2>6, <2>4, <2>5, <2>2, <2>1, <1>1, <1>2, <1>3 DEF o
  <2>7. CASE t <= s
    BY <2>7, <2>3, <2>5, <2>2, <2>1, <1>1, <1>2, <1>3 DEF o
  <2> QED
    BY <2>1, <2>6, <2>7
<1> QED
  BY <1>5, <1>6 DEF copied

\* What is copied out is what the ring holds at these times.
LEMMA CopiedOutRing ==
  ASSUME NEW ring \in Ring, NEW t \in Int, NEW n \in 1 .. FramesPerBuffer
  PROVE  CopiedOut(ring, t, n) = [i \in 1 .. n |-> ring[(t + i - 1) % FramesPerBuffer]]
<1> DEFINE offset == t % FramesPerBuffer
           first == FirstPart(offset, n)
<1>1. FramesPerBuffer \in Nat \ {0} /\ n \in Int
  BY Lengths
<1>2. offset \in Int /\ 0 <= offset /\ offset < FramesPerBuffer
  BY Remainder, <1>1 DEF Offsets
<1>3. /\ first \in Int /\ first <= n /\ offset + first <= FramesPerBuffer
      /\ first < n => offset + first = FramesPerBuffer
  BY <1>1, <1>2 DEF FirstPart, Smaller
<1>4. CopiedOut(ring, t, n)
        = [i \in 1 .. n |-> IF i <= first THEN ring[offset + i - 1] ELSE ring[i - first - 1]]
  BY DEF CopiedOut
<1> HIDE DEF first
<1>5. ASSUME NEW i \in 1 .. n
      PROVE  (t + i - 1) % FramesPerBuffer
               = IF i <= first THEN offset + i - 1 ELSE i - first - 1
  <2>1. i - 1 \in 0 .. FramesPerBuffer - 1 /\ i \in Int /\ t + i - 1 = t + (i - 1)
    BY <1>1
  <2>2. /\ offset + (i - 1) < FramesPerBuffer
             => (t + (i - 1)) % FramesPerBuffer = offset + (i - 1)
        /\ offset + (i - 1) >= FramesPerBuffer
             => (t + (i - 1)) % FramesPerBuffer = offset + (i - 1) - FramesPerBuffer
    BY <2>1, PlaceFrom
  <2> HIDE DEF offset
  <2>3. i <= first => offset + (i - 1) < FramesPerBuffer
    BY <1>1, <1>2, <1>3, <2>1
  <2>4. ~(i <= first) => offset + (i - 1) >= FramesPerBuffer
                         /\ offset + (i - 1) - FramesPerBuffer = i - first - 1
    BY <1>1, <1>2, <1>3, <2>1
  <2> QED
    BY <2>1, <2>2, <2>3, <2>4, <1>2, <1>3
<1> QED
  BY <1>4, <1>5

\* The ring after the daemon has silenced where the frames from t were.
Silenced(ring, t) ==
  LET offset == t % FramesPerBuffer IN
  [o \in Offsets |-> IF offset <= o /\ o < offset + NFrames THEN Silence ELSE ring[o]]

\* Within a turn, silencing a callback's frames touches no other time.
LEMMA SilencedRing ==
  ASSUME NEW ring \in Ring, NEW f \in Nat, f % NFrames = 0
  PROVE  /\ Silenced(ring, f - NFrames) \in Ring
         /\ \A s \in f - FramesPerBuffer .. f + FramesPerBuffer - NFrames - 1 :
              Silenced(ring, f - NFrames)[s % FramesPerBuffer]
                = IF s \in f - NFrames .. f - 1 THEN Silence ELSE ring[s % FramesPerBuffer]
<1> DEFINE t == f - NFrames
           offset == t % FramesPerBuffer
           silenced == Silenced(ring, t)
<1>1. /\ FramesPerBuffer \in Nat \ {0} /\ NFrames \in Nat \ {0}
      /\ NFrames \in 1 .. FramesPerBuffer /\ t \in Int /\ f \in Int
  BY Lengths
<1>2. offset \in Int /\ 0 <= offset /\ offset + NFrames <= FramesPerBuffer
  <2>1. offset \in Offsets
    BY <1>1, Remainder
  <2>2. offset + NFrames <= FramesPerBuffer
    BY CallbackFits
  <2> HIDE DEF offset
  <2> QED
    BY <2>1, <2>2, <1>1 DEF Offsets
<1>3. \A o \in Offsets :
        silenced[o] = IF offset <= o /\ o < offset + NFrames THEN Silence ELSE ring[o]
  BY DEF Silenced
<1>4. silenced \in Ring
  BY DEF Silenced, Ring
<1>5. ASSUME NEW s \in f - FramesPerBuffer .. f + FramesPerBuffer - NFrames - 1
      PROVE  silenced[s % FramesPerBuffer]
               = IF s \in t .. f - 1 THEN Silence ELSE ring[s % FramesPerBuffer]
  <2> DEFINE o == s % FramesPerBuffer
  <2>1. s \in Int /\ o \in Offsets
    BY Remainder, <1>1
  <2>2. s \in t + NFrames - FramesPerBuffer .. t + FramesPerBuffer - 1
    BY <1>1, <2>1
  <2> HIDE DEF silenced, o, offset
  <2>3. o \in Int
    BY <2>1, <1>1 DEF Offsets
  <2>4. (offset <= o /\ o < offset + NFrames) <=> s \in t .. t + NFrames - 1
    <3>1. ASSUME offset <= o, o < offset + NFrames
          PROVE  s \in t .. t + NFrames - 1
      <4> DEFINE d == o - offset
      <4>1. d \in 0 .. FramesPerBuffer - 1 /\ d < NFrames /\ offset + d = o
        BY <3>1, <1>1, <1>2, <2>3
      <4>2. (t + d) % FramesPerBuffer = o
        <5>1. offset + d < FramesPerBuffer => (t + d) % FramesPerBuffer = offset + d
          BY <4>1, <1>1, PlaceFrom DEF offset
        <5> QED
          BY <5>1, <4>1, <1>1, <1>2, <2>3
      <4>3. s = t + d
        <5>1. t + d \in Int /\ t + d < s + FramesPerBuffer /\ s < t + d + FramesPerBuffer
          BY <4>1, <1>1, <2>1, <2>2
        <5> QED
          BY <5>1, <4>2, <2>1, SamePlace DEF o
      <4> QED
        BY <4>1, <4>3, <1>1, <1>2, <2>3
    <3>2. ASSUME s \in t .. t + NFrames - 1
          PROVE  offset <= o /\ o < offset + NFrames
      <4> DEFINE d == s - t
      <4>1. d \in 0 .. FramesPerBuffer - 1 /\ d < NFrames /\ t + d = s
        BY <3>2, <1>1, <2>1
      <4>2. o = offset + d
        <5>1. offset + d < FramesPerBuffer => (t + d) % FramesPerBuffer = offset + d
          BY <4>1, <1>1, PlaceFrom DEF offset
        <5>2. offset + d < FramesPerBuffer
          BY <4>1, <1>1, <1>2
        <5> QED
          BY <5>1, <5>2, <4>1 DEF o
      <4> QED
        BY <4>1, <4>2, <1>1, <1>2
    <3> QED
      BY <3>1, <3>2
  <2>5. t + NFrames - 1 = f - 1
    BY <1>1
  <2> QED
    BY <1>3, <2>1, <2>4, <2>5 DEF o
<1> QED
  BY <1>4, <1>5
----------------------------------------------------------------------------
(* The steps.                                                               *)

LEMMA InitHolds == Init => IInv
<1> SUFFICES ASSUME Init PROVE IInv
  OBVIOUS
<1>1. TypeOK
  BY DEF Init, TypeOK, Ring, Statuses, Stamp, NoStamp, JB_DRV_STATUS_INIT
<1>2. Aligned
  BY Lengths DEF Init, Aligned
<1>3. Life /\ DownHolds /\ Stamps
  BY DEF Init, Life, DownHolds, Stamps, NoStamp, OverwrittenTime
<1>4. UpHolds
  <2> SUFFICES ASSUME NEW s \in ReceiveTime .. ReceiveTime + FramesPerBuffer - 1,
                      s >= astray + FramesPerBuffer - NFrames
               PROVE  FALSE
    BY DEF UpHolds
  <2> QED
    BY Lengths DEF Init, ReceiveTime
<1> QED
  BY <1>1, <1>2, <1>3, <1>4 DEF IInv

\* Every step keeps the types.
LEMMA TypeStep == TypeOK /\ [Next]_vars => TypeOK'
<1> SUFFICES ASSUME TypeOK, [Next]_vars PROVE TypeOK'
  OBVIOUS
<1> USE DEF TypeOK, Statuses, rings
<1>1. CASE Tick
  BY <1>1 DEF Tick
<1>2. CASE DaemonStart
  BY <1>2 DEF DaemonStart, OpenClient
<1>3. CASE activate
  BY <1>3 DEF activate
<1>4. CASE DaemonExit
  BY <1>4 DEF DaemonExit
<1>5. CASE DaemonGone
  BY <1>5 DEF DaemonGone
<1>6. CASE Callback
  BY <1>6, Lengths DEF Callback
<1>7. CASE TakeOver
  BY <1>7 DEF TakeOver, Goes
<1>8. CASE ResetNumber
  BY <1>8 DEF ResetNumber, Goes
<1>9. CASE NewSeed
  <2>1. shm.seed + 1 \in Nat
    OBVIOUS
  <2>2. shm' = [shm EXCEPT !.seed = shm.seed + 1]
    BY <1>9, <2>1 DEF NewSeed
  <2> QED
    BY <1>9, <2>1, <2>2 DEF NewSeed
<1>10. CASE NoStampDue
  BY <1>10 DEF NoStampDue, Goes
<1>11. CASE StampHost
  BY <1>11 DEF StampHost, Goes
<1>12. CASE StampNumber
  BY <1>12, Lengths DEF StampNumber, Goes
<1>13. CASE sendToCoreAudio
  <2>1. CopiedIn(bufDown, daemon.frame, NFrames) \in Ring
    BY Lengths, CopiedInRing
  <2> QED
    BY <1>13, <2>1 DEF sendToCoreAudio, Goes
<1>14. CASE receiveFromCoreAudio
  <2>1. daemon.frame + NFrames \in Nat
    BY Lengths
  <2>2. bufUp' \in Ring
    BY <1>14 DEF receiveFromCoreAudio, Ring
  <2> QED
    BY <1>14, <2>1, <2>2 DEF receiveFromCoreAudio
<1>15. CASE HW_Open
  <2>1. driver.opens + 1 \in Nat
    OBVIOUS
  <2>2. JB_DRV_STATUS_ACTIVE \in Statuses
    OBVIOUS
  <2> HIDE DEF Statuses
  <2>3. driver' \in [open : BOOLEAN, opens : Nat, status : Statuses, count : Nat,
                    pc : {"idle", "readNumber", "readHost", "readSeed",
                          "storeNumber", "storeHost"},
                    stamp : Stamp]
    BY <1>15, <2>1, <2>2 DEF HW_Open
  <2>4. shm' \in [exists : BOOLEAN, status : Statuses, syncMode : {0, 1},
                 number : Nat, host : Nat, seed : Nat]
    BY <1>15, <2>2 DEF HW_Open
  <2> QED
    BY <1>15, <2>3, <2>4 DEF HW_Open
<1>16. CASE ServerDies
  BY <1>16 DEF ServerDies, JB_DRV_STATUS_INIT, JB_DRV_STATUS_ACTIVE,
               JB_DRV_STATUS_STARTED, Stamp, NoStamp
<1>17. CASE StartIO
  BY <1>17 DEF StartIO, JB_DRV_STATUS_INIT, JB_DRV_STATUS_ACTIVE,
               JB_DRV_STATUS_STARTED, Stamp, NoStamp
<1>18. CASE StopIO
  BY <1>18 DEF StopIO, JB_DRV_STATUS_INIT, JB_DRV_STATUS_ACTIVE, JB_DRV_STATUS_STARTED
<1>19. CASE GetZeroTimeStamp
  <2>1. driver.count + 1 \in Nat
    OBVIOUS
  <2>2. \E c \in Nat, pc \in {"readNumber", "storeNumber"} :
         driver' = [driver EXCEPT !.count = c, !.pc = pc]
    BY <1>19, <2>1 DEF GetZeroTimeStamp
  <2> QED
    BY <1>19, <2>1, <2>2 DEF GetZeroTimeStamp
<1>20. CASE ReadNumber
  BY <1>20 DEF ReadNumber, Stamp, NoStamp
<1>21. CASE ReadHost
  BY <1>21 DEF ReadHost, Stamp, NoStamp
<1>22. CASE StoreNumber
  BY <1>22 DEF StoreNumber
<1>23. CASE StoreHost
  BY <1>23 DEF StoreHost, Stamp, NoStamp
<1>24. CASE ReadSeed
  BY <1>24 DEF ReadSeed, Stamp, NoStamp
<1>25. CASE WriteOutputData
  <2>1. PICK t \in OutputTimes : /\ bufUp' = CopiedIn(bufUp, t, IOFrames)
                                /\ astray' = IF Paced(t) THEN astray ELSE daemon.frame
    BY <1>25 DEF WriteOutputData
  <2>2. CopiedIn(bufUp, t, IOFrames) \in Ring
    BY TimesAreFrames, Lengths, CopiedInRing
  <2> QED
    BY <1>25, <2>1, <2>2 DEF WriteOutputData
<1>26. CASE UNCHANGED vars
  BY <1>26 DEF vars
<1> QED
  BY <1>1, <1>2, <1>3, <1>4, <1>5, <1>6, <1>7, <1>8, <1>9, <1>10, <1>11,
     <1>12, <1>13, <1>14, <1>15, <1>16, <1>17, <1>18, <1>19, <1>20, <1>21,
     <1>22, <1>23, <1>24, <1>25, <1>26 DEF Next, DaemonStep, DriverStep

\* What the three steps that count do to the fields the invariant speaks of.
LEMMA CountingSteps ==
  ASSUME TypeOK
  PROVE  /\ NewSeed => /\ daemon.pc = "seed" /\ shm.seed' = shm.seed + 1
                       /\ shm.exists' = shm.exists /\ shm.syncMode' = shm.syncMode
                       /\ shm.host' = shm.host
                       /\ daemon.life' = daemon.life /\ daemon.frame' = daemon.frame
                       /\ daemon.isActive' /\ daemon.pc' = "stamp"
                       /\ UNCHANGED <<bufUp, bufDown, now, driver, report, astray, origin>>
         /\ HW_Open => /\ ~driver.open /\ driver.open' /\ driver.pc' = "idle"
                       /\ shm.exists' /\ shm.seed' = 1 /\ shm.syncMode' = 0
                       /\ shm.host' = shm.host
                       /\ UNCHANGED <<bufUp, bufDown, now, daemon, report, astray, origin>>
         /\ GetZeroTimeStamp =>
              /\ driver.open' = driver.open /\ driver.status = JB_DRV_STATUS_STARTED
              /\ driver.pc' \in {"readNumber", "storeNumber"}
              /\ UNCHANGED <<shm, bufUp, bufDown, now, daemon, report, astray, origin>>
<1>1. shm.seed + 1 \in Nat /\ driver.opens + 1 \in Nat /\ driver.count + 1 \in Nat
  BY DEF TypeOK
<1>2. ASSUME NewSeed
      PROVE  /\ shm.seed' = shm.seed + 1
             /\ shm.exists' = shm.exists /\ shm.syncMode' = shm.syncMode
             /\ shm.host' = shm.host
  <2>1. shm' = [shm EXCEPT !.seed = shm.seed + 1]
    BY <1>2 DEF NewSeed
  <2> QED
    BY <1>1, <2>1 DEF TypeOK
<1>3. ASSUME HW_Open
      PROVE  /\ driver.open' /\ driver.pc' = "idle"
             /\ shm.exists' /\ shm.seed' = 1 /\ shm.syncMode' = 0
             /\ shm.host' = shm.host
  <2>1. driver' = [driver EXCEPT !.open = TRUE, !.opens = driver.opens + 1,
                     !.status = JB_DRV_STATUS_ACTIVE, !.count = 0, !.pc = "idle"]
    BY <1>3 DEF HW_Open
  <2>2. shm' = [shm EXCEPT !.exists = TRUE, !.seed = 1, !.syncMode = 0,
                           !.status = JB_DRV_STATUS_ACTIVE]
    BY <1>3 DEF HW_Open
  <2>3. JB_DRV_STATUS_ACTIVE \in Int
    BY DEF JB_DRV_STATUS_ACTIVE
  <2>4. driver.open' /\ driver.pc' = "idle"
    BY <1>1, <2>1, <2>3 DEF TypeOK
  <2>5. shm.exists' /\ shm.seed' = 1 /\ shm.syncMode' = 0 /\ shm.host' = shm.host
    BY <2>2, <2>3 DEF TypeOK
  <2> QED
    BY <2>4, <2>5
<1>4. ASSUME GetZeroTimeStamp
      PROVE  driver.open' = driver.open /\ driver.pc' \in {"readNumber", "storeNumber"}
  <2>1. \E c \in Nat, pc \in {"readNumber", "storeNumber"} :
          driver' = [driver EXCEPT !.count = c, !.pc = pc]
    BY <1>1, <1>4 DEF GetZeroTimeStamp, TypeOK
  <2> QED
    BY <2>1 DEF TypeOK
<1>5. NewSeed => /\ daemon.pc = "seed"
                 /\ daemon.life' = daemon.life /\ daemon.frame' = daemon.frame
                 /\ daemon.isActive' /\ daemon.pc' = "stamp"
                 /\ UNCHANGED <<bufUp, bufDown, now, driver, report, astray, origin>>
  BY DEF NewSeed, InCallback, rings, TypeOK
<1>6. HW_Open => /\ ~driver.open
                 /\ UNCHANGED <<bufUp, bufDown, now, daemon, report, astray, origin>>
  BY DEF HW_Open, rings
<1>7. GetZeroTimeStamp =>
        /\ driver.status = JB_DRV_STATUS_STARTED
        /\ UNCHANGED <<shm, bufUp, bufDown, now, daemon, report, astray, origin>>
  BY DEF GetZeroTimeStamp, rings
<1> QED
  BY <1>2, <1>3, <1>4, <1>5, <1>6, <1>7


\* Two steps change the ring to the daemon, one the ring back, and the daemon's
\* count moves at a callback's end unless it begins again with no clock taken.
LEMMA RingSteps ==
  TypeOK /\ [Next]_vars =>
    /\ receiveFromCoreAudio \/ WriteOutputData \/ bufUp' = bufUp
    /\ \/ WriteOutputData
       \/ astray' = astray
       \/ astray' = 0 /\ daemon.frame' = 0
    /\ sendToCoreAudio \/ bufDown' = bufDown
    /\ \/ receiveFromCoreAudio
       \/ daemon.frame' = daemon.frame
       \/ daemon.frame' = 0 /\ ~daemon.isActive' /\ daemon.pc' # "receive"
<1> SUFFICES ASSUME TypeOK, [Next]_vars
             PROVE  /\ receiveFromCoreAudio \/ WriteOutputData \/ bufUp' = bufUp
                    /\ \/ WriteOutputData
                       \/ astray' = astray
                       \/ astray' = 0 /\ daemon.frame' = 0
                    /\ sendToCoreAudio \/ bufDown' = bufDown
                    /\ \/ receiveFromCoreAudio
                       \/ daemon.frame' = daemon.frame
                       \/ daemon.frame' = 0 /\ ~daemon.isActive' /\ daemon.pc' # "receive"
  OBVIOUS
<1> USE DEF TypeOK, rings
<1>1. CASE Tick \/ UNCHANGED vars
  BY <1>1 DEF Tick, vars
<1>2. CASE DaemonStart \/ activate \/ DaemonExit \/ DaemonGone
  BY <1>2 DEF DaemonStart, OpenClient, activate, DaemonExit, DaemonGone
<1>9. CASE Callback
  BY <1>9 DEF Callback
<1>3. CASE TakeOver \/ ResetNumber \/ NewSeed \/ NoStampDue \/ StampHost \/ StampNumber
  BY <1>3 DEF TakeOver, ResetNumber, NewSeed, NoStampDue, StampHost, StampNumber, Goes
<1>4. CASE sendToCoreAudio
  BY <1>4 DEF sendToCoreAudio, Goes
<1>5. CASE receiveFromCoreAudio
  BY <1>5 DEF receiveFromCoreAudio
<1>6. CASE ServerDies \/ StartIO \/ StopIO
  BY <1>6 DEF ServerDies, StartIO, StopIO
<1>10. CASE HW_Open \/ GetZeroTimeStamp
  BY <1>10, CountingSteps
<1>7. CASE ReadNumber \/ ReadHost \/ StoreNumber \/ StoreHost \/ ReadSeed
  BY <1>7 DEF ReadNumber, ReadHost, StoreNumber, StoreHost, ReadSeed
<1>8. CASE WriteOutputData
  BY <1>8 DEF WriteOutputData
<1> QED
  BY <1>1, <1>2, <1>3, <1>4, <1>5, <1>6, <1>7, <1>8, <1>9, <1>10
     DEF Next, DaemonStep, DriverStep

LEMMA AlignedStep == TypeOK /\ Aligned /\ [Next]_vars => Aligned'
<1> SUFFICES ASSUME TypeOK, Aligned, [Next]_vars PROVE Aligned'
  OBVIOUS
<1>1. NFrames \in Nat \ {0} /\ 0 % NFrames = 0
  BY Lengths
<1>2. ASSUME NEW f \in Nat, f % NFrames = 0
      PROVE  (f + NFrames) % NFrames = 0
  <2> DEFINE m == f \div NFrames
  <2>1. m \in Int /\ f = m * NFrames
    BY <1>1, <1>2
  <2> HIDE DEF m
  <2>2. f + NFrames = (m + 1) * NFrames /\ m + 1 \in Int
    BY <1>1, <2>1
  <2>3. ((m + 1) * NFrames + 0) % NFrames = 0
    BY <1>1, <2>2
  <2> QED
    BY <1>1, <2>2, <2>3
<1>3. CASE receiveFromCoreAudio
  <2>1. daemon.frame \in Nat /\ daemon.frame % NFrames = 0
    BY DEF TypeOK, Aligned
  <2>2. (daemon.frame + NFrames) % NFrames = 0
    BY <1>2, <2>1
  <2>3. daemon.frame' = daemon.frame + NFrames
    BY <1>3 DEF receiveFromCoreAudio, TypeOK
  <2> QED
    BY <2>2, <2>3 DEF Aligned
<1> QED
  BY <1>1, <1>3, RingSteps DEF Aligned

LEMMA LifeStep == TypeOK /\ Life /\ [Next]_vars => Life'
<1> SUFFICES ASSUME TypeOK, Life, [Next]_vars PROVE Life'
  OBVIOUS
<1> USE DEF TypeOK, Life, rings
<1>1. CASE Tick \/ UNCHANGED vars
  BY <1>1 DEF Tick, vars
<1>2. CASE DaemonStart
  BY <1>2 DEF DaemonStart, OpenClient
<1>3. CASE activate \/ DaemonExit \/ DaemonGone \/ Callback
  BY <1>3 DEF activate, DaemonExit, DaemonGone, Callback, InCallback
<1>4. CASE TakeOver \/ ResetNumber
  BY <1>4 DEF TakeOver, ResetNumber, Goes, InCallback
<1>5. CASE NewSeed
  BY <1>5, CountingSteps DEF InCallback
<1>11. CASE HW_Open
  BY <1>11, CountingSteps
<1>12. CASE GetZeroTimeStamp
  BY <1>12, CountingSteps
<1>6. CASE NoStampDue \/ StampHost \/ StampNumber \/ sendToCoreAudio
  BY <1>6 DEF NoStampDue, StampHost, StampNumber, sendToCoreAudio, Goes, InCallback
<1>7. CASE receiveFromCoreAudio
  BY <1>7 DEF receiveFromCoreAudio, InCallback
<1>8. CASE ServerDies \/ StartIO \/ StopIO
  BY <1>8 DEF ServerDies, StartIO, StopIO
<1>9. CASE ReadNumber \/ ReadHost \/ StoreNumber \/ StoreHost \/ ReadSeed
  BY <1>9 DEF ReadNumber, ReadHost, StoreNumber, StoreHost, ReadSeed
<1>10. CASE WriteOutputData
  BY <1>10 DEF WriteOutputData
<1> QED
  BY <1>1, <1>2, <1>3, <1>4, <1>5, <1>6, <1>7, <1>8, <1>9, <1>10, <1>11, <1>12
     DEF Next, DaemonStep, DriverStep

\* What an operation of the audio server writes, at whatever time.
LEMMA WriteStep ==
  ASSUME TypeOK, WriteOutputData
  PROVE  /\ daemon' = daemon
         /\ \E t \in Nat :
              /\ astray' = IF Paced(t) THEN astray ELSE daemon.frame
              /\ \A s \in t + IOFrames - FramesPerBuffer .. t + FramesPerBuffer - 1 :
                   bufUp'[s % FramesPerBuffer]
                     = IF s \in t .. t + IOFrames - 1 THEN s
                       ELSE bufUp[s % FramesPerBuffer]
<1>1. PICK t \in OutputTimes : /\ bufUp' = CopiedIn(bufUp, t, IOFrames)
                              /\ astray' = IF Paced(t) THEN astray ELSE daemon.frame
  BY DEF WriteOutputData
<1>2. bufUp \in Ring /\ IOFrames \in 1 .. FramesPerBuffer /\ t \in Int /\ t \in Nat
  BY TimesAreFrames, Lengths DEF TypeOK
<1>3. \A s \in t + IOFrames - FramesPerBuffer .. t + FramesPerBuffer - 1 :
        CopiedIn(bufUp, t, IOFrames)[s % FramesPerBuffer]
          = IF s \in t .. t + IOFrames - 1 THEN s ELSE bufUp[s % FramesPerBuffer]
  BY <1>2, CopiedInRing
<1>4. daemon' = daemon
  BY DEF WriteOutputData
<1> QED
  BY <1>1, <1>2, <1>3, <1>4

\* The end of a callback silences the frames it took and no other of the turn.
LEMMA ReceiveStep ==
  ASSUME TypeOK, Aligned, receiveFromCoreAudio
  PROVE  /\ daemon.frame \in Nat /\ daemon.frame' = daemon.frame + NFrames
         /\ daemon.isActive' = daemon.isActive /\ daemon.pc' = "idle"
         /\ \A s \in daemon.frame - FramesPerBuffer
                       .. daemon.frame + FramesPerBuffer - NFrames - 1 :
              bufUp'[s % FramesPerBuffer]
                = IF s \in daemon.frame - NFrames .. daemon.frame - 1 THEN Silence
                  ELSE bufUp[s % FramesPerBuffer]
<1>1. bufUp' = Silenced(bufUp, daemon.frame - NFrames)
  BY DEF receiveFromCoreAudio, Silenced, ReceiveTime
<1>2. daemon.frame \in Nat /\ daemon.frame % NFrames = 0 /\ bufUp \in Ring
  BY DEF TypeOK, Aligned
<1>3. daemon.frame' = daemon.frame + NFrames
      /\ daemon.isActive' = daemon.isActive /\ daemon.pc' = "idle"
  BY DEF receiveFromCoreAudio, TypeOK
<1> QED
  BY <1>1, <1>2, <1>3, SilencedRing

LEMMA UpStep == TypeOK /\ Aligned /\ UpHolds /\ [Next]_vars => UpHolds'
<1> SUFFICES ASSUME TypeOK, Aligned, UpHolds, [Next]_vars PROVE UpHolds'
  OBVIOUS
<1> DEFINE f == daemon.frame
<1>1. /\ f \in Nat /\ NFrames \in Nat \ {0} /\ FramesPerBuffer \in Nat \ {0}
      /\ IOFrames \in Nat \ {0} /\ NFrames <= FramesPerBuffer
  BY Lengths DEF TypeOK
<1>2. /\ \A s \in f - NFrames .. f - NFrames + FramesPerBuffer - 1 :
           s >= astray + FramesPerBuffer - NFrames
             => bufUp[s % FramesPerBuffer] \in {Silence, s}
      /\ astray \in Nat
  BY DEF UpHolds, ReceiveTime, TypeOK
<1>3. CASE receiveFromCoreAudio
  <2>0. astray' = astray
    BY <1>3 DEF receiveFromCoreAudio
  <2>1. /\ f' = f + NFrames
        /\ \A s \in f - FramesPerBuffer .. f + FramesPerBuffer - NFrames - 1 :
             bufUp'[s % FramesPerBuffer] = IF s \in f - NFrames .. f - 1 THEN Silence
                                           ELSE bufUp[s % FramesPerBuffer]
    BY <1>3, ReceiveStep
  <2> SUFFICES ASSUME NEW s \in f .. f + FramesPerBuffer - 1,
                      s >= astray + FramesPerBuffer - NFrames
               PROVE  bufUp'[s % FramesPerBuffer] \in {Silence, s}
    BY <1>1, <2>0, <2>1 DEF UpHolds, ReceiveTime
  <2>2. CASE s <= f + FramesPerBuffer - NFrames - 1
    <3>1. /\ s \in f - FramesPerBuffer .. f + FramesPerBuffer - NFrames - 1
          /\ s \in f - NFrames .. f - NFrames + FramesPerBuffer - 1
          /\ ~(s \in f - NFrames .. f - 1)
      BY <1>1, <2>2
    <3>2. bufUp'[s % FramesPerBuffer] = bufUp[s % FramesPerBuffer]
      BY <3>1, <2>1
    <3> QED
      BY <3>1, <3>2, <1>2
  <2>3. CASE ~(s <= f + FramesPerBuffer - NFrames - 1)
    <3> DEFINE r == s - FramesPerBuffer
    <3>1. /\ r \in f - FramesPerBuffer .. f + FramesPerBuffer - NFrames - 1
          /\ r \in f - NFrames .. f - 1 /\ r \in Int /\ r + FramesPerBuffer = s
      BY <1>1, <2>3
    <3>2. bufUp'[r % FramesPerBuffer] = Silence
      BY <3>1, <2>1
    <3>3. r % FramesPerBuffer = s % FramesPerBuffer
      <4> HIDE DEF r
      <4> QED
        BY <3>1, NextTurn
    <3> QED
      BY <3>2, <3>3
  <2> QED
    BY <2>2, <2>3
<1>4. CASE WriteOutputData
  <2>1. f' = f
    BY <1>4, WriteStep
  <2>2. PICK t \in Nat :
          /\ astray' = IF Paced(t) THEN astray ELSE f
          /\ \A s \in t + IOFrames - FramesPerBuffer .. t + FramesPerBuffer - 1 :
               bufUp'[s % FramesPerBuffer] = IF s \in t .. t + IOFrames - 1 THEN s
                                             ELSE bufUp[s % FramesPerBuffer]
    BY <1>4, WriteStep
  <2> SUFFICES ASSUME NEW s \in f - NFrames .. f - NFrames + FramesPerBuffer - 1,
                      s >= astray' + FramesPerBuffer - NFrames
               PROVE  bufUp'[s % FramesPerBuffer] \in {Silence, s}
    BY <2>1 DEF UpHolds, ReceiveTime
  <2>3. CASE Paced(t)
    <3>1. f <= t /\ t + IOFrames <= f - NFrames + FramesPerBuffer /\ astray' = astray
      BY <2>2, <2>3 DEF Paced, ReceiveTime
    <3>2. s \in t + IOFrames - FramesPerBuffer .. t + FramesPerBuffer - 1
      BY <1>1, <3>1
    <3>3. bufUp'[s % FramesPerBuffer] = s
          \/ bufUp'[s % FramesPerBuffer] = bufUp[s % FramesPerBuffer]
      BY <2>2, <3>2
    <3> QED
      BY <1>2, <3>1, <3>3
  <2>4. CASE ~Paced(t)
    <3>1. astray' = f
      BY <2>2, <2>4
    <3> QED
      BY <1>1, <3>1
  <2> QED
    BY <2>3, <2>4
<1>5. CASE bufUp' = bufUp /\ f' = f /\ astray' = astray
  BY <1>5 DEF UpHolds, ReceiveTime
<1>6. CASE f' = 0 /\ astray' \in Nat
  <2>1. ReceiveTime' = 0 - NFrames
    BY <1>6 DEF ReceiveTime
  <2>2. \A s \in 0 - NFrames .. 0 - NFrames + FramesPerBuffer - 1 :
          ~(s >= astray' + FramesPerBuffer - NFrames)
    <3> DEFINE a == astray'
    <3>1. a \in Nat /\ NFrames \in Nat /\ FramesPerBuffer \in Nat
      BY <1>1, <1>6
    <3> HIDE DEF a
    <3>2. \A s \in 0 - NFrames .. 0 - NFrames + FramesPerBuffer - 1 :
            ~(s >= a + FramesPerBuffer - NFrames)
      BY <3>1
    <3> QED
      BY <3>2 DEF a
  <2> QED
    BY <2>1, <2>2 DEF UpHolds
<1>7. \/ receiveFromCoreAudio
      \/ WriteOutputData
      \/ bufUp' = bufUp /\ f' = f /\ astray' = astray
      \/ f' = 0 /\ astray' \in Nat
  BY <1>2, RingSteps
<1> QED
  BY <1>3, <1>4, <1>5, <1>6, <1>7

LEMMA DownStep == TypeOK /\ Life /\ DownHolds /\ [Next]_vars => DownHolds'
<1> SUFFICES ASSUME TypeOK, Life, DownHolds, [Next]_vars, daemon.isActive'
             PROVE  \A s \in 0 .. Written' - 1 :
                      s >= daemon.frame' + NFrames - FramesPerBuffer
                        => bufDown'[s % FramesPerBuffer] = s
  BY DEF DownHolds
<1> DEFINE f == daemon.frame
<1>1. /\ f \in Nat /\ NFrames \in Nat \ {0} /\ FramesPerBuffer \in Nat \ {0}
      /\ NFrames <= FramesPerBuffer /\ NFrames \in 1 .. FramesPerBuffer
      /\ bufDown \in Ring
  BY Lengths DEF TypeOK
<1>2. daemon.isActive =>
        \A s \in 0 .. Written - 1 :
          s >= f + NFrames - FramesPerBuffer => bufDown[s % FramesPerBuffer] = s
  BY DEF DownHolds
<1>3. CASE sendToCoreAudio
  <2>1. /\ InCallback("send") /\ daemon' = [daemon EXCEPT !.pc = "receive"]
        /\ bufDown' = CopiedIn(bufDown, f, NFrames)
    BY <1>3 DEF sendToCoreAudio, Goes
  <2>2. /\ Written = f /\ Written' = f + NFrames /\ f' = f /\ daemon.isActive
    BY <2>1 DEF Written, InCallback, TypeOK
  <2>3. \A s \in f + NFrames - FramesPerBuffer .. f + FramesPerBuffer - 1 :
          bufDown'[s % FramesPerBuffer] = IF s \in f .. f + NFrames - 1 THEN s
                                          ELSE bufDown[s % FramesPerBuffer]
    BY <1>1, <2>1, CopiedInRing
  <2> SUFFICES ASSUME NEW s \in 0 .. Written' - 1,
                      s >= f' + NFrames - FramesPerBuffer
               PROVE  bufDown'[s % FramesPerBuffer] = s
    OBVIOUS
  <2>4. s \in 0 .. f + NFrames - 1 /\ s >= f + NFrames - FramesPerBuffer
    BY <1>1, <2>2
  <2>5. s \in f + NFrames - FramesPerBuffer .. f + FramesPerBuffer - 1
    BY <1>1, <2>4
  <2>6. CASE s < f
    <3>1. s \in 0 .. Written - 1 /\ ~(s \in f .. f + NFrames - 1)
      BY <1>1, <2>2, <2>6, <2>4
    <3>2. bufDown[s % FramesPerBuffer] = s
      BY <1>2, <2>2, <2>4, <3>1
    <3> QED
      BY <2>3, <2>5, <3>1, <3>2
  <2>7. CASE ~(s < f)
    <3>1. s \in f .. f + NFrames - 1
      BY <1>1, <2>7, <2>4
    <3> QED
      BY <2>3, <2>5, <3>1
  <2> QED
    BY <2>6, <2>7
<1>4. CASE receiveFromCoreAudio
  <2>1. /\ InCallback("receive") /\ bufDown' = bufDown
        /\ daemon' = [daemon EXCEPT !.frame = f + NFrames, !.pc = "idle"]
    BY <1>4 DEF receiveFromCoreAudio
  <2>2. /\ Written = f + NFrames /\ Written' = f + NFrames /\ f' = f + NFrames
        /\ daemon.isActive
    BY <1>1, <2>1 DEF Written, InCallback, TypeOK
  <2> SUFFICES ASSUME NEW s \in 0 .. Written' - 1,
                      s >= f' + NFrames - FramesPerBuffer
               PROVE  bufDown'[s % FramesPerBuffer] = s
    OBVIOUS
  <2>3. s \in 0 .. Written - 1 /\ s >= f + NFrames - FramesPerBuffer
    BY <1>1, <2>2
  <2> QED
    BY <1>2, <2>1, <2>2, <2>3
<1>5. CASE NewSeed
  <2>1. f' = 0 /\ daemon.pc' = "stamp"
    BY <1>5, CountingSteps DEF Life
  <2>2. Written' = 0
    BY <2>1 DEF Written, InCallback
  <2> QED
    BY <2>2
<1>6. CASE ~sendToCoreAudio /\ ~receiveFromCoreAudio /\ ~NewSeed
  <2>1. bufDown' = bufDown /\ f' = f
    BY <1>6, RingSteps
  <2>2. daemon.isActive /\ Written' = Written
    <3> SUFFICES daemon.isActive /\ (daemon.pc = "receive") = (daemon.pc' = "receive")
      BY <2>1, <1>1 DEF Written, InCallback
    <3> USE DEF TypeOK
    <3>1. CASE UNCHANGED daemon
      BY <3>1
    <3>2. CASE DaemonStart \/ activate \/ DaemonExit \/ DaemonGone
      BY <3>2 DEF DaemonStart, OpenClient, activate, DaemonExit, DaemonGone
    <3>3. CASE Callback
      BY <3>3 DEF Callback, InCallback
    <3>4. CASE TakeOver \/ ResetNumber \/ NoStampDue \/ StampHost \/ StampNumber
      BY <3>4 DEF TakeOver, ResetNumber, NoStampDue, StampHost, StampNumber, Goes, InCallback
    <3> QED
      BY <1>6, <3>1, <3>2, <3>3, <3>4
         DEF Next, DaemonStep, DriverStep, vars, Tick, HW_Open, ServerDies, StartIO, StopIO,
             GetZeroTimeStamp, ReadNumber, ReadHost, StoreNumber, StoreHost, ReadSeed,
             WriteOutputData
  <2> QED
    BY <1>2, <2>1, <2>2
<1> QED
  BY <1>3, <1>4, <1>5, <1>6

\* The registers' stores in their order, and the reads in the opposite one.
LEMMA StampsStep == TypeOK /\ Stamps /\ [Next]_vars => Stamps'
<1> SUFFICES ASSUME TypeOK, Stamps, [Next]_vars PROVE Stamps'
  OBVIOUS
<1> USE DEF TypeOK, Stamps, OverwrittenTime, rings, Stamp
<1>1. CASE Tick
  BY <1>1 DEF Tick
<1>2. CASE UNCHANGED vars
  BY <1>2 DEF vars
<1>3. CASE DaemonStart \/ activate \/ DaemonExit \/ DaemonGone \/ Callback
  BY <1>3 DEF DaemonStart, activate, DaemonExit, DaemonGone, Callback
<1>4. CASE TakeOver \/ NoStampDue
  BY <1>4 DEF TakeOver, NoStampDue
<1>5. CASE ResetNumber
  BY <1>5 DEF ResetNumber
<1>6. CASE NewSeed
  BY <1>6, CountingSteps
<1>7. CASE StampHost
  BY <1>7 DEF StampHost
<1>8. CASE StampNumber
  BY <1>8 DEF StampNumber
<1>9. CASE sendToCoreAudio \/ receiveFromCoreAudio \/ WriteOutputData
  BY <1>9 DEF sendToCoreAudio, receiveFromCoreAudio, WriteOutputData
<1>10. CASE HW_Open
  BY <1>10, CountingSteps
<1>11. CASE ServerDies
  BY <1>11 DEF ServerDies, NoStamp
<1>12. CASE StartIO
  BY <1>12 DEF StartIO, NoStamp
<1>13. CASE StopIO
  BY <1>13 DEF StopIO
<1>14. CASE GetZeroTimeStamp
  BY <1>14, CountingSteps
<1>15. CASE ReadNumber
  BY <1>15 DEF ReadNumber, NoStamp
<1>16. CASE ReadHost
  <2> DEFINE st == [driver.stamp EXCEPT !.host = shm.host,
                      !.since = IF origin.stored = 0 THEN 0 ELSE driver.stamp.since]
  <2>1. st.host = shm.host /\ st.since <= st.host
    BY <1>16 DEF ReadHost
  <2>2. driver' = [driver EXCEPT !.pc = "readSeed", !.stamp = st]
        /\ UNCHANGED <<shm, now, report, origin>>
    BY <1>16 DEF ReadHost
  <2> HIDE DEF st
  <2>3. driver'.stamp = st /\ driver'.pc = "readSeed"
    BY <2>2
  <2> QED
    BY <2>1, <2>2, <2>3
<1>17. CASE StoreNumber
  BY <1>17 DEF StoreNumber
<1>18. CASE StoreHost
  <2> DEFINE st == [NoStamp EXCEPT !.number = driver.count, !.host = driver.count]
  <2>1. st.host = driver.count /\ st.since = 0 /\ driver.count \in Nat
    BY DEF NoStamp
  <2>2. /\ driver' = [driver EXCEPT !.pc = "readSeed", !.stamp = st]
        /\ shm' = [shm EXCEPT !.host = driver.count]
        /\ origin' = [origin EXCEPT !.stored = 0]
        /\ UNCHANGED <<now, report>>
    BY <1>18 DEF StoreHost
  <2> HIDE DEF st
  <2>3. /\ driver'.stamp = st /\ driver'.pc = "readSeed"
        /\ shm'.host = driver.count
        /\ origin'.stored = 0 /\ origin'.published = origin.published
    BY <2>2
  <2> QED
    BY <2>1, <2>2, <2>3
<1>19. CASE ReadSeed
  BY <1>19 DEF ReadSeed, NoStamp
<1> QED
  BY <1>1, <1>2, <1>3, <1>4, <1>5, <1>6, <1>7, <1>8, <1>9, <1>10, <1>11, <1>12, <1>13,
     <1>14, <1>15, <1>16, <1>17, <1>18, <1>19 DEF Next, DaemonStep, DriverStep

----------------------------------------------------------------------------
(* The theorems.                                                            *)

\* In every reachable state the registers and rings are typed and hold what the
\* two counts of frames say, whichever process starts, stops or dies when.
THEOREM Invariance == Spec => []IInv
<1>1. IInv /\ [Next]_vars => IInv'
  BY TypeStep, AlignedStep, LifeStep, UpStep, DownStep, StampsStep
     DEF IInv
<1> QED
  BY InitHolds, <1>1, PTL DEF Spec

\* What the daemon plays at a time was written for that time, once it has been
\* round the ring since the server last wrote out of pace: for any ring that is
\* a whole number of callbacks, and whichever process was restarted when.
THEOREM AlwaysPlaysItsTime == Spec => []PlaysItsTime
<1>1. IInv => PlaysItsTime
  <2> SUFFICES ASSUME IInv, daemon.frame >= astray + FramesPerBuffer, NEW i \in 1 .. NFrames
               PROVE  Received[i] \in {Silence, ReceiveTime + i - 1}
    BY DEF PlaysItsTime
  <2> DEFINE s == ReceiveTime + i - 1
  <2>1. /\ daemon.frame \in Nat /\ NFrames \in 1 .. FramesPerBuffer /\ bufUp \in Ring
        /\ FramesPerBuffer \in Nat /\ NFrames \in Nat /\ ReceiveTime \in Int
        /\ ReceiveTime = daemon.frame - NFrames /\ astray \in Nat
    BY Lengths DEF IInv, TypeOK, ReceiveTime
  <2>2. Received[i] = bufUp[s % FramesPerBuffer]
    <3>1. Received = [j \in 1 .. NFrames |-> bufUp[(ReceiveTime + j - 1) % FramesPerBuffer]]
      BY <2>1, CopiedOutRing DEF Received
    <3> QED
      BY <3>1
  <2>3. s \in ReceiveTime .. ReceiveTime + FramesPerBuffer - 1
        /\ s >= astray + FramesPerBuffer - NFrames
    BY <2>1
  <2>4. bufUp[s % FramesPerBuffer] \in {Silence, s}
    BY <2>3 DEF IInv, UpHolds
  <2> QED
    BY <2>2, <2>4
<1> QED
  BY Invariance, <1>1, PTL

\* The driver hands out the frames of the times it is asked for, wherever the
\* ring ends, for any sizes and with either side at any step of its own.
THEOREM AlwaysReadsItsTime == Spec => []ReadsItsTime
<1>1. IInv => ReadsItsTime
  <2> SUFFICES ASSUME IInv, daemon.isActive, NEW t \in InputTimes
               PROVE  CopiedOut(bufDown, t, IOFrames) = [i \in 1 .. IOFrames |-> t + i - 1]
    BY DEF ReadsItsTime
  <2>1. /\ daemon.frame \in Nat /\ IOFrames \in 1 .. FramesPerBuffer /\ bufDown \in Ring
        /\ FramesPerBuffer \in Nat /\ NFrames \in Nat /\ IOFrames \in Nat
        /\ t \in Nat /\ t <= daemon.frame - IOFrames
        /\ t >= daemon.frame + NFrames - FramesPerBuffer
    BY Lengths DEF IInv, TypeOK, InputTimes
  <2>2. CopiedOut(bufDown, t, IOFrames)
          = [i \in 1 .. IOFrames |-> bufDown[(t + i - 1) % FramesPerBuffer]]
    BY <2>1, CopiedOutRing
  <2>3. ASSUME NEW i \in 1 .. IOFrames
        PROVE  bufDown[(t + i - 1) % FramesPerBuffer] = t + i - 1
    <3> DEFINE s == t + i - 1
    <3>1. s \in 0 .. Written - 1 /\ s >= daemon.frame + NFrames - FramesPerBuffer
      BY <2>1 DEF Written
    <3> QED
      BY <3>1 DEF IInv, DownHolds
  <2> QED
    BY <2>2, <2>3
<1> QED
  BY Invariance, <1>1, PTL

\* With a number the daemon published never comes an older time, however the
\* stores of one process and the reads of the other interleave.
THEOREM StampsAlwaysOrdered == Spec => []StampOrder
<1>1. IInv => StampOrder
  BY DEF IInv, TypeOK, Stamp, Stamps, StampOrder
<1> QED
  BY Invariance, <1>1, PTL

\* No step of the daemon reaches a frame that lies ahead of it in the turn.
THEOREM FramesStayInPlace == Spec => FramesInPlace
<1> DEFINE Kept ==
      daemon' # daemon =>
        \A t \in daemon.frame .. ReceiveTime + FramesPerBuffer - 1 :
          bufUp[t % FramesPerBuffer] = t => bufUp'[t % FramesPerBuffer] = t
<1>1. IInv /\ [Next]_vars => Kept
  <2> SUFFICES ASSUME IInv, [Next]_vars, daemon' # daemon,
                      NEW t \in daemon.frame .. ReceiveTime + FramesPerBuffer - 1,
                      bufUp[t % FramesPerBuffer] = t
               PROVE  bufUp'[t % FramesPerBuffer] = t
    OBVIOUS
  <2>1. /\ daemon.frame \in Nat /\ NFrames \in Nat /\ FramesPerBuffer \in Nat
        /\ NFrames <= FramesPerBuffer /\ ReceiveTime = daemon.frame - NFrames
        /\ t \in Nat /\ daemon.frame <= t /\ t < ReceiveTime + FramesPerBuffer
    BY Lengths DEF IInv, TypeOK, ReceiveTime
  <2>2. CASE receiveFromCoreAudio
    <3>1. /\ t \in daemon.frame - FramesPerBuffer
                     .. daemon.frame + FramesPerBuffer - NFrames - 1
          /\ ~(t \in daemon.frame - NFrames .. daemon.frame - 1)
      BY <2>1
    <3> QED
      BY <2>2, <3>1, ReceiveStep DEF IInv
  <2>3. ~WriteOutputData
    BY DEF WriteOutputData
  <2>4. CASE bufUp' = bufUp
    BY <2>4
  <2> QED
    BY <2>2, <2>3, <2>4, RingSteps DEF IInv
<1> QED
  BY Invariance, <1>1, PTL DEF Spec, FramesInPlace
=============================================================================

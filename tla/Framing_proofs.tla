---------------------------- MODULE Framing_proofs -----------------------------
(***************************************************************************)
(* Framing implements FrameQueue, and the mutex keeps the frames of        *)
(* send(Channel) apart and is never left locked, for any threads, lengths  *)
(* of header and frames, and any window of the stream.                     *)
(***************************************************************************)
EXTENDS Framing, TLAPS, SequenceTheorems, FiniteSetTheorems

Byte == Nat \X Nat

\* The part of the types that does not count frames.
Typed ==
  /\ pc \in [Sender -> Pc]
  /\ frame \in [Sender -> Nat] /\ done \in [Sender -> Nat] /\ length \in [Sender -> Nat]
  /\ locked \in [Sender -> BOOLEAN]
  /\ mutex \in BOOLEAN /\ owner \in Sender \cup {None} /\ clash \in BOOLEAN
  /\ size \in Seq(Lengths) /\ channel \in Seq(BOOLEAN) /\ Len(channel) = Len(size)
  /\ wire \in Seq(Byte) /\ open \in BOOLEAN
  /\ taken \in Nat /\ start \in Nat /\ want \in Nat
  /\ delivered \in Seq(Nat) /\ gone \in BOOLEAN

\* What a sender knows of the frame that it writes.
Writing ==
  \A t \in Sender :
    /\ pc[t] # "idle" => length[t] \in Lengths
    /\ pc[t] # "write" => done[t] = 0
    /\ done[t] # 0 =>
         /\ frame[t] \in 1..Len(size)
         /\ size[frame[t]] = length[t] /\ channel[frame[t]] = locked[t]
         /\ done[t] < length[t]

\* Every byte belongs to a frame that was begun.
Bytes ==
  \A n \in 1..Len(wire) :
    wire[n][1] \in 1..Len(size) /\ wire[n][2] \in 1..size[wire[n][1]]

-----------------------------------------------------------------------------
(* What Write adds to the stream. *)

\* The frame that t goes on with, or begins.
Current(t) == IF done[t] = 0 THEN Len(size) + 1 ELSE frame[t]

Grown(t, k) ==
  /\ wire' \in Seq(Byte) /\ Len(wire') = Len(wire) + k
  /\ \A n \in 1..Len(wire) : wire'[n] = wire[n]
  /\ \A i \in 1..k : wire'[Len(wire) + i] = <<Current(t), done[t] + i>>
  /\ size' \in Seq(Lengths) /\ channel' \in Seq(BOOLEAN)
  /\ Len(channel') = Len(size') /\ Len(size) <= Len(size')
  /\ \A f \in 1..Len(size) : size'[f] = size[f] /\ channel'[f] = channel[f]
  /\ Current(t) \in 1..Len(size')
  /\ size'[Current(t)] = length[t] /\ channel'[Current(t)] = locked[t]
  /\ done[t] = 0 => Len(size') = Len(size) + 1
  /\ done[t] # 0 => Current(t) = frame[t] /\ size' = size
  /\ done[t] + k <= length[t] /\ length[t] \in Lengths

LEMMA Constants ==
  /\ Header \in Nat \ {0} /\ MaxLen \in Nat /\ None \notin Sender
  /\ Lengths \subseteq Nat \ {0} /\ \A n \in Lengths : n >= Header /\ n <= MaxLen
BY FramingAssumption

LEMMA PiecesAreBytes ==
  ASSUME NEW f \in Nat, NEW from \in Nat, NEW n \in Nat
  PROVE  /\ Pieces(f, from, n) \in Seq(Byte) /\ Len(Pieces(f, from, n)) = n
         /\ \A i \in 1..n : Pieces(f, from, n)[i] = <<f, from + i>>
<1>1. \A i \in 1..n : <<f, from + i>> \in Byte
  BY DEF Byte
<1> QED BY <1>1 DEF Pieces

LEMMA WriteGrows ==
  ASSUME Typed, Writing, NEW t \in Sender, NEW k \in 1..MaxLen, Write(t, k)
  PROVE  Grown(t, k)
<1> USE Constants
<1>1. /\ length[t] \in Lengths /\ length[t] \in Nat /\ done[t] \in Nat
      /\ done[t] + k <= length[t] /\ k \in Nat
  BY DEF Typed, Writing, Write
<1>2. Current(t) \in Nat /\ wire' = wire \o Pieces(Current(t), done[t], k)
  BY <1>1 DEF Typed, Writing, Write, Current
<1>3. DEFINE p == Pieces(Current(t), done[t], k)
<1>4. /\ p \in Seq(Byte) /\ Len(p) = k /\ \A i \in 1..k : p[i] = <<Current(t), done[t] + i>>
  BY <1>1, <1>2, PiecesAreBytes
<1>5. wire \in Seq(Byte) /\ Len(wire) \in Nat /\ wire' = wire \o p
  BY <1>2 DEF Typed
<1> HIDE DEF p
<1>6. /\ wire' \in Seq(Byte) /\ Len(wire') = Len(wire) + k
      /\ \A n \in 1..(Len(wire) + k) :
           wire'[n] = IF n <= Len(wire) THEN wire[n] ELSE p[n - Len(wire)]
  BY <1>4, <1>5, ConcatProperties
<1>7. \A n \in 1..Len(wire) : wire'[n] = wire[n]
  BY <1>1, <1>5, <1>6
<1>8. \A i \in 1..k : wire'[Len(wire) + i] = <<Current(t), done[t] + i>>
  <2> SUFFICES ASSUME NEW i \in 1..k PROVE wire'[Len(wire) + i] = p[i]
    BY <1>4
  <2>1. Len(wire) + i \in 1..(Len(wire) + k) /\ ~(Len(wire) + i <= Len(wire)) /\ Len(wire) + i - Len(wire) = i
    BY <1>1, <1>5
  <2> QED BY <2>1, <1>6
<1>9. CASE done[t] = 0
  <2>1. /\ size \in Seq(Lengths) /\ channel \in Seq(BOOLEAN) /\ Len(channel) = Len(size)
        /\ size' = Append(size, length[t]) /\ channel' = Append(channel, locked[t])
        /\ Current(t) = Len(size) + 1 /\ locked[t] \in BOOLEAN /\ Len(size) \in Nat
    BY <1>9 DEF Typed, Write, Current
  <2>2. /\ size' \in Seq(Lengths) /\ Len(size') = Len(size) + 1
        /\ size'[Len(size) + 1] = length[t]
        /\ \A f \in 1..Len(size) : size'[f] = size[f]
    BY <1>1, <2>1
  <2>3. /\ channel' \in Seq(BOOLEAN) /\ Len(channel') = Len(size) + 1
        /\ channel'[Len(size) + 1] = locked[t]
        /\ \A f \in 1..Len(size) : channel'[f] = channel[f]
    BY <2>1
  <2>4. /\ Current(t) = Len(size) + 1 /\ Len(size) \in Nat
        /\ \A f \in 1..Len(size) : size'[f] = size[f] /\ channel'[f] = channel[f]
        /\ size'[Current(t)] = length[t] /\ channel'[Current(t)] = locked[t]
    BY <2>1, <2>2, <2>3
  <2>5. Len(channel') = Len(size') /\ Len(size) <= Len(size') /\ Current(t) \in 1..Len(size')
    BY <2>2, <2>3, <2>4
  <2> QED BY <1>1, <1>6, <1>7, <1>8, <1>9, <2>2, <2>3, <2>4, <2>5 DEF Grown
<1>10. CASE done[t] # 0
  <2>1. /\ size \in Seq(Lengths) /\ channel \in Seq(BOOLEAN) /\ Len(channel) = Len(size)
        /\ size' = size /\ channel' = channel /\ Current(t) = frame[t]
        /\ frame[t] \in 1..Len(size) /\ size[frame[t]] = length[t]
        /\ channel[frame[t]] = locked[t] /\ Len(size) \in Nat
    BY <1>10 DEF Typed, Write, Writing, Current
  <2>2. /\ size' \in Seq(Lengths) /\ channel' \in Seq(BOOLEAN)
        /\ Len(channel') = Len(size') /\ Len(size) <= Len(size')
        /\ \A f \in 1..Len(size) : size'[f] = size[f] /\ channel'[f] = channel[f]
    BY <2>1
  <2>3. /\ Current(t) \in 1..Len(size')
        /\ size'[Current(t)] = length[t] /\ channel'[Current(t)] = locked[t]
    BY <2>1
  <2> QED BY <1>1, <1>6, <1>7, <1>8, <1>10, <2>1, <2>2, <2>3 DEF Grown
<1> QED BY <1>9, <1>10

-----------------------------------------------------------------------------
(* A stream that is not torn holds the frames one after the other. *)

Ordered ==
  /\ Len(wire) = 0 => Len(size) = 0
  /\ Len(wire) > 0 => wire[Len(wire)][1] = Len(size)
  /\ \A n \in 1..Len(wire) :
       wire[n][2] = 1 => wire[n][1] = IF n = 1 THEN 1 ELSE wire[n - 1][1] + 1
  /\ \A n \in 1..Len(wire), j \in Nat :
       n + j <= Len(wire) /\ wire[n][2] + j <= size[wire[n][1]] =>
         wire[n + j] = <<wire[n][1], wire[n][2] + j>>

LEMMA ByteParts ==
  ASSUME Typed, Bytes, NEW n \in 1..Len(wire)
  PROVE  /\ wire[n] = <<wire[n][1], wire[n][2]>>
         /\ wire[n][1] \in Nat /\ wire[n][2] \in Nat
         /\ wire[n][1] \in 1..Len(size) /\ wire[n][2] \in 1..size[wire[n][1]]
         /\ size[wire[n][1]] \in Lengths /\ size[wire[n][1]] \in Nat
<1>1. wire[n] \in Byte
  BY ElementOfSeq DEF Typed
<1>2. wire[n][1] \in 1..Len(size) /\ wire[n][2] \in 1..size[wire[n][1]]
  BY DEF Bytes
<1>3. size[wire[n][1]] \in Lengths
  BY <1>2, ElementOfSeq DEF Typed
<1>4. size[wire[n][1]] \in Nat
  BY <1>3, Constants
<1>5. Len(size) \in Nat
  BY LenProperties DEF Typed
<1>6. wire[n] = <<wire[n][1], wire[n][2]>> /\ wire[n][1] \in Nat /\ wire[n][2] \in Nat
  BY <1>1 DEF Byte
<1> QED BY <1>2, <1>3, <1>4, <1>5, <1>6

\* Grown, without the sets.
LEMMA GrownFacts ==
  ASSUME Typed, NEW t \in Sender, NEW k \in 1..MaxLen, Grown(t, k)
  PROVE  /\ Len(wire) \in Nat /\ Len(size) \in Nat /\ Len(size') \in Nat
         /\ done[t] \in Nat /\ length[t] \in Nat
         /\ k \in Nat /\ k >= 1 /\ Len(wire') = Len(wire) + k
         /\ Len(size) <= Len(size')
         /\ \A n \in 1..Len(wire) : wire'[n] = wire[n]
         /\ \A i \in 1..k : wire'[Len(wire) + i] = <<Current(t), done[t] + i>>
         /\ \A f \in 1..Len(size) : size'[f] = size[f] /\ channel'[f] = channel[f]
         /\ Current(t) \in 1..Len(size')
         /\ size'[Current(t)] = length[t] /\ channel'[Current(t)] = locked[t]
         /\ done[t] = 0 => Len(size') = Len(size) + 1 /\ Current(t) = Len(size) + 1
         /\ done[t] # 0 => Current(t) = frame[t] /\ size' = size
         /\ done[t] + k <= length[t]
<1>1. /\ Len(wire) \in Nat /\ Len(size) \in Nat /\ Len(size') \in Nat
      /\ done[t] \in Nat /\ length[t] \in Nat
  BY Constants DEF Typed, Grown
<1>2. k \in Nat /\ k >= 1
  BY Constants
<1> QED BY <1>1, <1>2 DEF Grown, Current

\* What was written stays as it is, so that a tear stays.
LEMMA FollowsStays ==
  ASSUME Typed, Bytes, NEW t \in Sender, NEW k \in 1..MaxLen, Grown(t, k),
         NEW n \in 1..Len(wire)
  PROVE  Follows(n)' <=> Follows(n)
<1>1. Len(wire) \in Nat /\ Len(wire') = Len(wire) + k /\ wire'[n] = wire[n]
  BY GrownFacts
<1>2. n > 1 => /\ n - 1 \in 1..Len(wire) /\ wire'[n - 1] = wire[n - 1]
  <2>1. n > 1 => n - 1 \in 1..Len(wire)
    BY <1>1
  <2> QED BY <2>1, GrownFacts
<1>3. n > 1 => size'[wire[n - 1][1]] = size[wire[n - 1][1]]
  BY <1>2, ByteParts, GrownFacts
<1> QED BY <1>1, <1>2, <1>3 DEF Follows

LEMMA TornStays ==
  ASSUME Typed, Bytes, NEW t \in Sender, NEW k \in 1..MaxLen, Grown(t, k), Torn
  PROVE  Torn'
<1>1. PICK n \in 1..Len(wire) : ~Follows(n)
  BY DEF Torn
<1>2. n \in 1..Len(wire')
  BY GrownFacts
<1> QED BY <1>1, <1>2, FollowsStays DEF Torn

LEMMA BytesStay ==
  ASSUME Typed, Bytes, NEW t \in Sender, NEW k \in 1..MaxLen, Grown(t, k)
  PROVE  Bytes'
<1> SUFFICES ASSUME NEW n \in 1..Len(wire')
             PROVE  wire'[n][1] \in 1..Len(size') /\ wire'[n][2] \in 1..size'[wire'[n][1]]
  BY DEF Bytes
<1>1. Len(wire) \in Nat /\ Len(wire') = Len(wire) + k /\ k \in Nat
  BY GrownFacts
<1>2. CASE n <= Len(wire)
  <2>1. n \in 1..Len(wire) /\ wire'[n] = wire[n]
    BY <1>1, <1>2, GrownFacts
  <2>2. wire[n][1] \in 1..Len(size) /\ wire[n][2] \in 1..size[wire[n][1]]
    BY <2>1 DEF Bytes
  <2>3. size'[wire[n][1]] = size[wire[n][1]] /\ wire[n][1] \in 1..Len(size')
    BY <2>2, GrownFacts
  <2> QED BY <2>1, <2>2, <2>3
<1>3. CASE n > Len(wire)
  <2>1. PICK i \in 1..k : n = Len(wire) + i
    <3>1. n - Len(wire) \in 1..k /\ n = Len(wire) + (n - Len(wire))
      BY <1>1, <1>3
    <3> QED BY <3>1
  <2>2. /\ wire'[n] = <<Current(t), done[t] + i>> /\ Current(t) \in 1..Len(size')
        /\ size'[Current(t)] = length[t] /\ done[t] + k <= length[t]
        /\ length[t] \in Nat /\ done[t] \in Nat
    BY <2>1, GrownFacts
  <2> QED BY <2>1, <2>2, <1>1
<1> QED BY <1>1, <1>2, <1>3

\* The first byte that is written, if it does not tear the stream.
LEMMA FirstByte ==
  ASSUME Typed, Bytes, NEW t \in Sender, NEW k \in 1..MaxLen, Grown(t, k), ~Torn'
  PROVE  IF done[t] = 0
         THEN Len(wire) > 0 => wire[Len(wire)][2] = size[wire[Len(wire)][1]]
         ELSE Len(wire) > 0 /\ wire[Len(wire)] = <<Current(t), done[t]>>
<1>1. /\ Len(wire) \in Nat /\ Len(wire') = Len(wire) + k /\ k \in Nat /\ k >= 1
      /\ wire'[Len(wire) + 1] = <<Current(t), done[t] + 1>> /\ done[t] \in Nat
      /\ Len(wire) > 0 => wire'[Len(wire)] = wire[Len(wire)]
  BY GrownFacts
<1>2. PICK m : m = Len(wire) + 1
  OBVIOUS
<1>3. /\ Len(wire) > 0 => size'[wire[Len(wire)][1]] = size[wire[Len(wire)][1]]
      /\ m - 1 = Len(wire) /\ m \in 1..Len(wire') /\ (m > 1 <=> Len(wire) > 0)
  BY <1>1, <1>2, ByteParts, GrownFacts
<1>4. Follows(m)'
  BY <1>3 DEF Torn
<1>6. IF wire'[m][2] > 1
      THEN m > 1 /\ wire'[m - 1] = <<wire'[m][1], wire'[m][2] - 1>>
      ELSE m > 1 => wire'[m - 1][2] = size'[wire'[m - 1][1]]
  BY <1>4 DEF Follows
<1>5. wire'[m] = <<Current(t), done[t] + 1>> /\ done[t] + 1 - 1 = done[t]
  BY <1>1, <1>2
<1>7. CASE done[t] = 0
  <2>1. ~(wire'[m][2] > 1)
    BY <1>1, <1>5, <1>7
  <2> QED BY <1>1, <1>3, <1>6, <1>7, <2>1
<1>8. CASE done[t] # 0
  <2>1. wire'[m][2] > 1 /\ wire'[m][2] - 1 = done[t] /\ wire'[m][1] = Current(t)
    BY <1>1, <1>5, <1>8
  <2>2. m > 1 /\ wire'[m - 1] = <<Current(t), done[t]>>
    BY <1>6, <2>1
  <2> QED BY <1>1, <1>3, <1>8, <2>2
<1> QED BY <1>7, <1>8

LEMMA OrderedStays ==
  ASSUME Typed, Bytes, Ordered, NEW t \in Sender, NEW k \in 1..MaxLen, Grown(t, k), ~Torn'
  PROVE  Ordered'
<1>1. /\ Len(wire) \in Nat /\ Len(wire') = Len(wire) + k /\ k \in Nat /\ k >= 1
      /\ Len(size) \in Nat /\ done[t] \in Nat
  BY GrownFacts
<1>2. wire'[Len(wire')] = <<Current(t), done[t] + k>>
  BY <1>1, GrownFacts
<1>3. Current(t) = Len(size')
  <2>1. CASE done[t] = 0
    BY <2>1, GrownFacts
  <2>2. CASE done[t] # 0
    BY <2>2, FirstByte, GrownFacts DEF Ordered
  <2> QED BY <2>1, <2>2
<1>4. ASSUME NEW n \in 1..Len(wire'), wire'[n][2] = 1
      PROVE  wire'[n][1] = IF n = 1 THEN 1 ELSE wire'[n - 1][1] + 1
  <2>1. CASE n <= Len(wire)
    <3>1. /\ n \in 1..Len(wire) /\ wire'[n] = wire[n]
          /\ n # 1 => wire'[n - 1] = wire[n - 1]
      <4>1. n \in 1..Len(wire) /\ (n # 1 => n - 1 \in 1..Len(wire))
        BY <1>1, <2>1
      <4> QED BY <4>1, GrownFacts
    <3> QED BY <1>4, <3>1 DEF Ordered
  <2>2. CASE n > Len(wire)
    <3>1. n - Len(wire) \in 1..k /\ n = Len(wire) + (n - Len(wire))
      BY <1>1, <2>2
    <3>2. wire'[n] = <<Current(t), done[t] + (n - Len(wire))>>
      BY <3>1, GrownFacts
    <3>3. done[t] = 0 /\ n = Len(wire) + 1
      BY <1>1, <1>4, <3>1, <3>2
    <3>4. wire'[n][1] = Len(size) + 1
      BY <3>2, <3>3 DEF Current
    <3>5. CASE n = 1
      BY <1>1, <3>3, <3>4, <3>5 DEF Ordered
    <3>6. CASE n # 1
      <4>1. Len(wire) > 0 /\ n - 1 = Len(wire) /\ wire'[n - 1] = wire[Len(wire)]
        BY <1>1, <3>3, <3>6, GrownFacts
      <4> QED BY <3>4, <3>6, <4>1 DEF Ordered
    <3> QED BY <3>5, <3>6
  <2> QED BY <1>1, <2>1, <2>2
<1>5. ASSUME NEW n \in 1..Len(wire'), NEW j \in Nat,
             n + j <= Len(wire'), wire'[n][2] + j <= size'[wire'[n][1]]
      PROVE  wire'[n + j] = <<wire'[n][1], wire'[n][2] + j>>
  <2>1. CASE n > Len(wire)
    <3>1. /\ n - Len(wire) \in 1..k /\ n = Len(wire) + (n - Len(wire))
          /\ n - Len(wire) + j \in 1..k /\ n + j = Len(wire) + (n - Len(wire) + j)
      BY <1>1, <1>5, <2>1
    <3>2. /\ wire'[n] = <<Current(t), done[t] + (n - Len(wire))>>
          /\ wire'[n + j] = <<Current(t), done[t] + (n - Len(wire) + j)>>
      <4>1. \A i \in 1..k : wire'[Len(wire) + i] = <<Current(t), done[t] + i>>
        BY GrownFacts
      <4> QED BY <3>1, <4>1
    <3>3. done[t] + (n - Len(wire) + j) = done[t] + (n - Len(wire)) + j
      BY <1>1
    <3> QED BY <3>2, <3>3
  <2>2. CASE n <= Len(wire)
    <3>1. n \in 1..Len(wire) /\ wire'[n] = wire[n]
      BY <1>1, <2>2, GrownFacts
    <3>2. size'[wire[n][1]] = size[wire[n][1]] /\ wire[n][2] + j <= size[wire[n][1]]
      <4>1. wire[n][1] \in 1..Len(size)
        BY <3>1, ByteParts
      <4>2. size'[wire[n][1]] = size[wire[n][1]]
        BY <4>1, GrownFacts
      <4> QED BY <3>1, <1>5, <4>2
    <3>3. CASE n + j <= Len(wire)
      <4>1. wire[n + j] = <<wire[n][1], wire[n][2] + j>>
        BY <3>1, <3>2, <3>3 DEF Ordered
      <4>2. wire'[n + j] = wire[n + j]
        BY <1>1, <3>1, <3>3, GrownFacts
      <4> QED BY <3>1, <4>1, <4>2
    <3>4. CASE n + j > Len(wire)
      <4>1. PICK i \in 1..k : n + j = Len(wire) + i
        <5>1. n + j - Len(wire) \in 1..k /\ n + j = Len(wire) + (n + j - Len(wire))
          BY <1>1, <1>5, <3>4
        <5> QED BY <5>1
      <4>2. /\ Len(wire) - n \in Nat /\ n + (Len(wire) - n) = Len(wire)
            /\ j = (Len(wire) - n) + i
        BY <1>1, <3>1, <4>1
      <4>3. wire[n][2] \in Nat /\ wire[n][1] \in Nat /\ size[wire[n][1]] \in Nat
        BY <3>1, ByteParts
      <4>4. wire[Len(wire)] = <<wire[n][1], wire[n][2] + (Len(wire) - n)>>
        <5>1. wire[n][2] + (Len(wire) - n) <= size[wire[n][1]]
          <6>1. Len(wire) - n <= j /\ Len(wire) - n \in Nat
            BY <4>2, <1>1
          <6>2. \A x \in Nat : x <= j => wire[n][2] + x <= wire[n][2] + j
            BY <4>3
          <6>3. wire[n][2] + (Len(wire) - n) <= wire[n][2] + j
            BY <6>1, <6>2
          <6> DEFINE a == wire[n][2] + (Len(wire) - n)
                     b == wire[n][2] + j
          <6>4. a \in Nat /\ b \in Nat
            BY <4>3, <6>1
          <6>5. a <= b /\ b <= size[wire[n][1]] /\ size[wire[n][1]] \in Nat
            BY <3>2, <4>3, <6>3
          <6> HIDE DEF a, b
          <6>6. a <= size[wire[n][1]]
            BY <6>4, <6>5
          <6> QED BY <6>6 DEF a
        <5>2. \A m \in Nat : n + m <= Len(wire) /\ wire[n][2] + m <= size[wire[n][1]] =>
                wire[n + m] = <<wire[n][1], wire[n][2] + m>>
          BY <3>1 DEF Ordered
        <5>3. n + (Len(wire) - n) <= Len(wire)
          BY <1>1, <4>2
        <5> QED BY <4>2, <5>1, <5>2, <5>3
      <4>5. wire[n][2] + (Len(wire) - n) < size[wire[n][1]]
        <5> DEFINE a == wire[n][2]
                   c == size[wire[n][1]]
                   d == Len(wire) - n
        <5>1. a \in Nat /\ c \in Nat /\ d \in Nat /\ i \in Nat /\ i >= 1 /\ j = d + i /\ a + j <= c
          BY <1>1, <3>2, <4>1, <4>2, <4>3
        <5> HIDE DEF a, c, d
        <5>2. a + d < c
          BY <5>1
        <5> QED BY <5>2 DEF a, c, d
      <4>6. done[t] # 0 /\ wire[Len(wire)] = <<Current(t), done[t]>>
        <5>1. Len(wire) > 0
          BY <1>1, <3>1
        <5>2. wire[Len(wire)][2] # size[wire[Len(wire)][1]]
          BY <4>3, <4>4, <4>5
        <5> QED BY <5>1, <5>2, FirstByte
      <4>7. wire[n][1] = Current(t) /\ wire[n][2] + (Len(wire) - n) = done[t]
        BY <4>4, <4>6
      <4>8. wire'[n + j] = <<Current(t), done[t] + i>>
        <5>1. wire'[Len(wire) + i] = <<Current(t), done[t] + i>>
          BY GrownFacts
        <5> QED BY <4>1, <5>1
      <4>9. wire[n][2] + j = done[t] + i
        BY <1>1, <4>1, <4>2, <4>3, <4>7
      <4> QED BY <3>1, <4>7, <4>8, <4>9
    <3> QED BY <1>1, <3>1, <3>3, <3>4
  <2> QED BY <1>1, <2>1, <2>2
<1>6. Len(wire') > 0 => wire'[Len(wire')][1] = Len(size')
  BY <1>2, <1>3
<1>7. Len(wire') # 0
  BY <1>1
<1> QED BY <1>4, <1>5, <1>6, <1>7 DEF Ordered

-----------------------------------------------------------------------------
(* Where the receiver is in a stream that is not torn. *)

Next1 == Len(delivered) + 1

Reading ==
  /\ start = 0 => Len(delivered) = 0
  /\ start > 0 =>
       /\ start <= Len(wire) /\ Len(delivered) \in 1..Len(size)
       /\ wire[start] = <<Len(delivered), size[Len(delivered)]>>
  /\ want > 0 => Next1 \in 1..Len(size) /\ want = size[Next1]

\* What comes at `start' is the frame behind the one delivered last.
LEMMA NextFrame ==
  ASSUME Typed, Bytes, Ordered, Reading, ~Torn, start < Len(wire)
  PROVE  /\ Next1 \in 1..Len(size) /\ size[Next1] \in Lengths
         /\ \A i \in 1..size[Next1] :
              start + i <= Len(wire) => wire[start + i] = <<Next1, i>>
<1>1. /\ start \in Nat /\ Len(wire) \in Nat /\ Len(delivered) \in Nat
      /\ Len(size) \in Nat /\ start + 1 \in 1..Len(wire) /\ start + 1 - 1 = start
  BY DEF Typed
<1>2. PICK m : m = start + 1
  OBVIOUS
<1>3. m \in 1..Len(wire) /\ m - 1 = start /\ (m > 1 <=> start > 0) /\ (m = 1 <=> start = 0)
  BY <1>1, <1>2
<1>4. /\ wire[m] = <<wire[m][1], wire[m][2]>>
      /\ wire[m][1] \in 1..Len(size) /\ wire[m][2] \in 1..size[wire[m][1]]
      /\ size[wire[m][1]] \in Lengths /\ size[wire[m][1]] \in Nat /\ wire[m][2] \in Nat
  BY <1>3, ByteParts
<1>5. IF wire[m][2] > 1 THEN m > 1 /\ wire[m - 1] = <<wire[m][1], wire[m][2] - 1>>
      ELSE m > 1 => wire[m - 1][2] = size[wire[m - 1][1]]
  BY <1>3 DEF Torn, Follows
<1>6. wire[m][2] = 1
  <2> SUFFICES ASSUME wire[m][2] > 1 PROVE FALSE
    BY <1>4
  <2>1. start > 0 /\ wire[start] = <<wire[m][1], wire[m][2] - 1>>
    BY <1>3, <1>5
  <2>2. wire[start] = <<Len(delivered), size[Len(delivered)]>>
    BY <2>1 DEF Reading
  <2>3. Len(delivered) = wire[m][1] /\ size[Len(delivered)] = wire[m][2] - 1
    BY <2>1, <2>2
  <2> QED BY <1>4, <2>3
<1>7. wire[m][1] = Next1
  <2>1. wire[m][1] = IF m = 1 THEN 1 ELSE wire[m - 1][1] + 1
    BY <1>3, <1>6 DEF Ordered
  <2>2. CASE start = 0
    BY <1>1, <1>3, <2>1, <2>2 DEF Reading, Next1
  <2>3. CASE start > 0
    <3>1. wire[start] = <<Len(delivered), size[Len(delivered)]>>
      BY <2>3 DEF Reading
    <3> QED BY <1>3, <2>1, <2>3, <3>1 DEF Next1
  <2> QED BY <1>1, <2>2, <2>3
<1>8. ASSUME NEW i \in 1..size[Next1], start + i <= Len(wire)
      PROVE  wire[start + i] = <<Next1, i>>
  <2>1. i - 1 \in Nat /\ i \in Nat /\ m + (i - 1) = start + i /\ 1 + (i - 1) = i
        /\ i <= size[Next1]
    BY <1>1, <1>2, <1>4, <1>7
  <2>2. \A j \in Nat : m + j <= Len(wire) /\ wire[m][2] + j <= size[wire[m][1]] =>
          wire[m + j] = <<wire[m][1], wire[m][2] + j>>
    BY <1>3 DEF Ordered
  <2>3. wire[m + (i - 1)] = <<wire[m][1], wire[m][2] + (i - 1)>>
    BY <1>6, <1>7, <1>8, <2>1, <2>2
  <2> QED BY <1>6, <1>7, <2>1, <2>3
<1> QED BY <1>4, <1>7, <1>8

\* The header at `start' says the length of that frame.
LEMMA HeaderRead ==
  ASSUME Typed, Bytes, Ordered, Reading, ~Torn, start + Header <= Len(wire),
         NEW l \in Nat, LengthRead(l)
  PROVE  Next1 \in 1..Len(size) /\ l = size[Next1] /\ l >= Header
<1>1. start \in Nat /\ Header \in Nat /\ Header >= 1 /\ start < Len(wire)
  BY Constants DEF Typed
<1>2. Next1 \in 1..Len(size) /\ size[Next1] \in Lengths
  BY <1>1, NextFrame
<1>3. size[Next1] >= Header /\ size[Next1] \in Nat
  BY <1>2, Constants
<1>4. ASSUME NEW i \in 1..Header PROVE wire[start + i] = <<Next1, i>>
  <2>1. i \in 1..size[Next1] /\ start + i <= Len(wire)
    BY <1>1, <1>3 DEF Typed
  <2> QED BY <1>1, <2>1, NextFrame
<1> QED BY <1>2, <1>3, <1>4 DEF LengthRead, Holds

\* When all of it has been read, it is delivered.
LEMMA Delivers ==
  ASSUME Typed, Bytes, Ordered, Reading, ~Torn, NEW n \in Nat,
         Next1 \in 1..Len(size), n = size[Next1], start + n <= Len(wire),
         Deliver(n), UNCHANGED <<size, wire>>
  PROVE  delivered' = Append(delivered, Next1) /\ Reading'
<1>1. n \in Lengths /\ n >= 1
  BY ElementOfSeq, Constants DEF Typed
<1>2. /\ start \in Nat /\ Len(wire) \in Nat /\ Len(delivered) \in Nat /\ Len(size) \in Nat
      /\ start < Len(wire)
  BY <1>1 DEF Typed
<1>3. \A i \in 1..n : wire[start + i] = <<Next1, i>>
  <2>1. \A i \in 1..n : start + i <= Len(wire)
    BY <1>2
  <2> QED BY <1>2, <2>1, NextFrame
<1>4. wire[start + 1] = <<Next1, 1>> /\ wire[start + n] = <<Next1, n>>
  BY <1>1, <1>3
<1>5. delivered' = Append(delivered, Next1)
  BY <1>3, <1>4 DEF Deliver, Holds
<1>6. Len(delivered') = Next1 /\ start' = start + n /\ want' = 0
  BY <1>5 DEF Typed, Next1, Deliver
<1> QED BY <1>1, <1>2, <1>4, <1>5, <1>6 DEF Reading

-----------------------------------------------------------------------------

Stream == ~Torn => Ordered /\ Reading

IInv == Typed /\ Writing /\ Bytes /\ Stream

\* Steps that write nothing.
LEMMA Quiet ==
  ASSUME UNCHANGED <<size, wire>>
  PROVE  (Torn' <=> Torn) /\ (Bytes' <=> Bytes) /\ (Ordered' <=> Ordered)
BY DEF Torn, Follows, Bytes, Ordered

LEMMA StreamUnread ==
  ASSUME Bytes, Stream, UNCHANGED <<size, wire, start, want, delivered>>
  PROVE  Bytes' /\ Stream'
<1>1. Reading => Reading'
  BY DEF Reading, Next1
<1> QED BY <1>1, Quiet DEF Stream

\* Senders that do not write.
LEMMA SenderKeeps ==
  ASSUME IInv, NEW t \in Sender, UNCHANGED <<wireVars, receiverVars>>,
         \/ \E n \in Lengths : CallChannel(t, n) \/ CallSend(t, n)
         \/ LockTest(t) \/ Create(t) \/ InitMutex(t) \/ Acquire(t) \/ Unlock(t)
         \/ SendShort(t) \/ ChannelShort(t) \/ ListenerReturns(t) \/ ListenerAnnounces(t)
  PROVE  IInv'
<1> USE Constants DEF IInv, wireVars, receiverVars, mutexVars
<1>1. Typed'
  <2>1. CASE \E n \in Lengths : CallChannel(t, n) \/ CallSend(t, n)
    BY <2>1 DEF Typed, Pc, MayCall, CallChannel, CallSend
  <2>2. CASE LockTest(t)
    BY <2>2 DEF Typed, Pc, LockTest
  <2>3. CASE Create(t)
    BY <2>3 DEF Typed, Pc, Create
  <2>8. CASE InitMutex(t)
    BY <2>8 DEF Typed, Pc, InitMutex
  <2>4. CASE Acquire(t)
    BY <2>4 DEF Typed, Pc, Acquire
  <2>5. CASE Unlock(t)
    BY <2>5 DEF Typed, Pc, Unlock
  <2>6. CASE SendShort(t) \/ ChannelShort(t)
    <3>1. \E l \in Pc : WriteEnds(t, l)
      BY <2>6 DEF Pc, SendShort, ChannelShort
    <3>2. /\ pc' \in [Sender -> Pc] /\ frame' \in [Sender -> Nat] /\ done' \in [Sender -> Nat]
          /\ UNCHANGED <<length, locked, mutexVars>>
      BY <3>1 DEF Typed, WriteEnds
    <3>3. open' \in BOOLEAN
      BY <2>6 DEF Typed, SendShort, ChannelShort
    <3> QED BY <3>2, <3>3 DEF Typed
  <2>7. CASE ListenerReturns(t) \/ ListenerAnnounces(t)
    BY <2>7 DEF Typed, Pc, ListenerReturns, ListenerAnnounces
  <2> QED BY <2>1, <2>2, <2>3, <2>4, <2>5, <2>6, <2>7, <2>8
<1>2. Writing'
  <2>1. CASE \E n \in Lengths : CallChannel(t, n) \/ CallSend(t, n)
    BY <2>1 DEF Typed, Writing, MayCall, CallChannel, CallSend
  <2>2. CASE LockTest(t) \/ Create(t) \/ InitMutex(t) \/ Acquire(t) \/ Unlock(t)
    BY <2>2 DEF Typed, Writing, LockTest, Create, InitMutex, Acquire, Unlock
  <2>3. CASE SendShort(t) \/ ChannelShort(t)
    BY <2>3 DEF Typed, Writing, SendShort, ChannelShort, WriteEnds
  <2>4. CASE ListenerReturns(t) \/ ListenerAnnounces(t)
    BY <2>4 DEF Typed, Writing, ListenerReturns, ListenerAnnounces
  <2> QED BY <2>1, <2>2, <2>3, <2>4
<1> QED BY <1>1, <1>2, StreamUnread

LEMMA WriteKeeps ==
  ASSUME IInv, NEW t \in Sender, NEW k \in 1..MaxLen, Write(t, k)
  PROVE  IInv'
<1> USE DEF IInv
<1>1. Grown(t, k)
  BY WriteGrows
<1>2. /\ UNCHANGED <<length, locked, mutexVars, open, receiverVars>>
      /\ Written(t, Current(t), done[t] + k)
  BY DEF Write, Current
<1>3. Typed'
  <2>1. /\ Current(t) \in Nat /\ done[t] + k \in Nat
    BY <1>1, GrownFacts
  <2>2. pc' \in [Sender -> Pc] /\ frame' \in [Sender -> Nat] /\ done' \in [Sender -> Nat]
    <3>1. CASE done[t] + k < length[t]
      BY <1>2, <2>1, <3>1 DEF Typed, Written
    <3>2. CASE ~(done[t] + k < length[t])
      <4>1. frame' = [frame EXCEPT ![t] = 0] /\ done' = [done EXCEPT ![t] = 0]
        BY <1>2, <3>2 DEF Written
      <4>2. \E l \in Pc : pc' = [pc EXCEPT ![t] = l]
        BY <1>2, <3>2 DEF Written, Pc
      <4> QED BY <4>1, <4>2 DEF Typed
    <3> QED BY <3>1, <3>2
  <2>3. /\ size' \in Seq(Lengths) /\ channel' \in Seq(BOOLEAN) /\ Len(channel') = Len(size')
        /\ wire' \in Seq(Byte)
    BY <1>1 DEF Grown
  <2> QED BY <1>2, <2>2, <2>3 DEF Typed, mutexVars, receiverVars
<1>4. Writing'
  <2> SUFFICES ASSUME NEW s \in Sender
               PROVE  /\ pc'[s] # "idle" => length'[s] \in Lengths
                      /\ pc'[s] # "write" => done'[s] = 0
                      /\ done'[s] # 0 =>
                           /\ frame'[s] \in 1..Len(size')
                           /\ size'[frame'[s]] = length'[s]
                           /\ channel'[frame'[s]] = locked'[s]
                           /\ done'[s] < length'[s]
    BY DEF Writing
  <2>1. CASE s # t
    <3>1. pc'[s] = pc[s] /\ done'[s] = done[s] /\ frame'[s] = frame[s]
      BY <1>2, <2>1 DEF Typed, Written
    <3>2. done[s] # 0 => /\ frame[s] \in 1..Len(size')
                         /\ size'[frame[s]] = size[frame[s]]
                         /\ channel'[frame[s]] = channel[frame[s]]
      BY <1>1, GrownFacts DEF Writing
    <3> QED BY <1>2, <3>1, <3>2 DEF Writing
  <2>2. CASE s = t
    <3>1. /\ Current(t) \in 1..Len(size')
          /\ size'[Current(t)] = length[t] /\ channel'[Current(t)] = locked[t]
      BY <1>1, GrownFacts
    <3>2. pc[t] = "write" /\ length[t] \in Lengths
      BY DEF Write, Writing
    <3>3. CASE done[t] + k < length[t]
      <4>1. frame'[t] = Current(t) /\ done'[t] = done[t] + k /\ pc'[t] = "write"
        BY <1>2, <3>2, <3>3 DEF Typed, Written
      <4> QED BY <1>2, <2>2, <3>1, <3>2, <3>3, <4>1
    <3>4. CASE ~(done[t] + k < length[t])
      <4>1. done'[t] = 0
        BY <1>2, <3>4 DEF Typed, Written
      <4> QED BY <1>2, <2>2, <3>2, <4>1
    <3> QED BY <3>3, <3>4
  <2> QED BY <2>1, <2>2
<1>5. Bytes'
  BY <1>1, BytesStay
<1>6. Stream'
  <2> SUFFICES ASSUME ~Torn' PROVE Ordered' /\ Reading'
    BY DEF Stream
  <2>1. Ordered /\ Reading
    BY <1>1, TornStays DEF Stream
  <2>2. Ordered'
    BY <1>1, <2>1, OrderedStays
  <2>3. UNCHANGED <<start, want, delivered>>
    BY <1>2 DEF receiverVars
  <2>4. Len(delivered) \in Nat /\ start \in Nat /\ want \in Nat /\ Len(size') \in Nat /\ Len(wire) \in Nat
    BY <1>1, GrownFacts DEF Typed
  <2>5. start > 0 =>
          /\ start <= Len(wire') /\ Len(delivered) \in 1..Len(size')
          /\ wire'[start] = <<Len(delivered), size'[Len(delivered)]>>
    <3> SUFFICES ASSUME start > 0
                 PROVE /\ start <= Len(wire') /\ Len(delivered) \in 1..Len(size')
                       /\ wire'[start] = <<Len(delivered), size'[Len(delivered)]>>
      OBVIOUS
    <3>1. /\ start \in 1..Len(wire) /\ Len(delivered) \in 1..Len(size)
          /\ wire[start] = <<Len(delivered), size[Len(delivered)]>>
      BY <2>1, <2>4 DEF Reading
    <3> QED BY <1>1, <3>1, GrownFacts
  <2>6. want > 0 => Next1 \in 1..Len(size') /\ want = size'[Next1]
    <3>1. want > 0 => Next1 \in 1..Len(size) /\ want = size[Next1]
      BY <2>1 DEF Reading
    <3> QED BY <1>1, <3>1, GrownFacts
  <2>7. start = 0 => Len(delivered) = 0
    BY <2>1 DEF Reading
  <2> QED BY <2>2, <2>3, <2>5, <2>6, <2>7 DEF Reading, Next1
<1> QED BY <1>3, <1>4, <1>5, <1>6

\* What receive() returns is a frame of the stream, or none at all.
LEMMA DeliveredTyped ==
  ASSUME Typed, Bytes, NEW n \in Nat \ {0}, start + n <= Len(wire), Deliver(n)
  PROVE  delivered' \in Seq(Nat) /\ start' \in Nat /\ want' = 0 /\ gone' = gone
<1>1. start + 1 \in 1..Len(wire)
  BY DEF Typed
<1>2. wire[start + 1][1] \in Nat
  BY <1>1, ByteParts
<1> QED BY <1>2 DEF Deliver, Typed

LEMMA ReceiverKeeps ==
  ASSUME IInv, ReceiverStep \/ ReceiveFails
  PROVE  /\ IInv'
         /\ ~Torn => \/ UNCHANGED delivered
                     \/ /\ Len(delivered) < Len(size)
                        /\ delivered' = Append(delivered, Next1)
<1> USE Constants DEF IInv
<1>1. UNCHANGED <<senderVars, mutexVars, wireVars, size, wire>> /\ open' \in BOOLEAN
  BY DEF ReceiverStep, ReceiveHeaderPart, ReceiveBody, ReceiveHeader, ReceiveFails,
         receiverOnly, wireVars, Typed
<1>2. Writing' /\ Bytes' /\ (Torn' <=> Torn) /\ (Ordered' <=> Ordered)
  <2>1. Writing'
    BY <1>1 DEF Writing, senderVars, wireVars
  <2> QED BY <1>1, <2>1, Quiet
<1>3. taken \in Nat /\ start \in Nat /\ want \in Nat /\ Len(wire) \in Nat /\ Len(size) \in Nat
  BY DEF Typed
<1>4. ASSUME taken' \in Nat, start' \in Nat, want' \in Nat, delivered' \in Seq(Nat), gone' \in BOOLEAN
      PROVE  Typed'
  BY <1>1, <1>4 DEF Typed, senderVars, mutexVars, wireVars
<1>5. ASSUME NEW n \in Nat \ {0}, start + n <= Len(wire), Deliver(n), taken' \in Nat,
             ~Torn => Next1 \in 1..Len(size) /\ n = size[Next1]
      PROVE  /\ IInv'
             /\ ~Torn => /\ Len(delivered) < Len(size)
                         /\ delivered' = Append(delivered, Next1)
  <2>1. Typed'
    <3>1. delivered' \in Seq(Nat) /\ start' \in Nat /\ want' = 0 /\ gone' = gone
      BY <1>5, DeliveredTyped
    <3>2. gone \in BOOLEAN
      BY DEF Typed
    <3> QED BY <1>4, <1>5, <3>1, <3>2
  <2>2. ~Torn => delivered' = Append(delivered, Next1) /\ Reading'
    BY <1>1, <1>5, Delivers DEF Stream
  <2>3. ~Torn => Len(delivered) < Len(size)
    BY <1>3, <1>5 DEF Next1, Typed
  <2> QED BY <1>2, <2>1, <2>2, <2>3 DEF Stream
<1>6. ASSUME UNCHANGED <<start, want, delivered>>, taken' \in Nat, gone' \in BOOLEAN
      PROVE  IInv'
  <2>1. Typed'
    BY <1>4, <1>6 DEF Typed
  <2> QED BY <1>1, <1>2, <1>6, <2>1, StreamUnread
<1>7. CASE \E k \in 1..MaxLen : ReceiveHeaderPart(k)
  BY <1>3, <1>6, <1>7 DEF ReceiveHeaderPart, Takes, Typed
<1>8. CASE ReceiveFails
  BY <1>3, <1>6, <1>8 DEF ReceiveFails, Gives, Typed
<1>9. CASE \E k \in 1..MaxLen : ReceiveBody(k)
  <2>1. PICK k \in 1..MaxLen : ReceiveBody(k)
    BY <1>9
  <2>2. taken' = taken + k /\ taken' <= Len(wire) /\ want > 0 /\ taken' \in Nat
    BY <1>3, <2>1 DEF ReceiveBody, Takes
  <2>3. CASE taken' = start + want
    <3>1. Deliver(want) /\ want \in Nat \ {0} /\ start + want <= Len(wire)
      BY <1>3, <2>1, <2>2, <2>3 DEF ReceiveBody, Deliver, Gives
    <3>2. ~Torn => Next1 \in 1..Len(size) /\ want = size[Next1]
      BY <2>2 DEF Stream, Reading
    <3> QED BY <1>5, <2>2, <3>1, <3>2
  <2>4. CASE taken' # start + want
    BY <1>6, <2>1, <2>2, <2>4 DEF ReceiveBody, Gives, Typed
  <2> QED BY <2>3, <2>4
<1>10. CASE \E k \in 1..MaxLen, l \in 0..MaxLen : ReceiveHeader(k, l)
  <2>1. PICK k \in 1..MaxLen, l \in 0..MaxLen : ReceiveHeader(k, l)
    BY <1>10
  <2>2. /\ taken' = start + Header /\ taken' <= Len(wire) /\ taken' \in Nat
        /\ LengthRead(l) /\ l \in Nat
    BY <1>3, <2>1 DEF ReceiveHeader, Takes
  <2>3. ~Torn => Next1 \in 1..Len(size) /\ l = size[Next1]
    BY <2>2, HeaderRead DEF Stream
  <2>4. CASE l < Header
    <3>1. ~(l = Header) /\ ~(l > Header)
      BY <2>2, <2>4
    <3>2. gone' = TRUE /\ UNCHANGED <<start, want, delivered>>
      BY <2>1, <3>1 DEF ReceiveHeader, Gives
    <3> QED BY <1>6, <2>2, <3>2
  <2>5. CASE l = Header
    <3>1. Deliver(l) /\ l \in Nat \ {0} /\ start + l <= Len(wire)
      BY <1>3, <2>1, <2>2, <2>5 DEF ReceiveHeader, Deliver, Gives
    <3> QED BY <1>5, <2>2, <2>3, <3>1
  <2>6. CASE l > Header
    <3>1. want' = l /\ UNCHANGED <<start, delivered, gone>>
      BY <2>1, <2>2, <2>6 DEF ReceiveHeader, Deliver, Gives
    <3>2. Typed'
      BY <1>4, <2>2, <3>1 DEF Typed
    <3>3. ~Torn => Reading'
      BY <1>1, <2>3, <3>1 DEF Stream, Reading, Next1
    <3> QED BY <1>2, <3>1, <3>2, <3>3 DEF Stream
  <2> QED BY <2>2, <2>4, <2>5, <2>6
<1> QED BY <1>7, <1>8, <1>9, <1>10 DEF ReceiverStep

LEMMA IInvPreserved ==
  ASSUME IInv, [Next]_vars
  PROVE  IInv'
<1>1. CASE ReceiverStep \/ ReceiveFails
  BY <1>1, ReceiverKeeps
<1>2. ASSUME NEW t \in Sender, NEW k \in 1..MaxLen, Write(t, k) PROVE IInv'
  BY <1>2, WriteKeeps
<1>3. ASSUME NEW t \in Sender,
             \/ \E n \in Lengths : CallChannel(t, n) \/ CallSend(t, n)
             \/ LockTest(t) \/ Create(t) \/ InitMutex(t) \/ Acquire(t) \/ Unlock(t)
             \/ SendShort(t) \/ ChannelShort(t) \/ ListenerReturns(t) \/ ListenerAnnounces(t)
      PROVE  IInv' /\ UNCHANGED <<wireVars, receiverVars>>
  <2>1. UNCHANGED <<wireVars, receiverVars>>
    BY <1>3 DEF MayCall, CallChannel, CallSend, LockTest, Create, InitMutex, Acquire, Unlock, SendShort,
                ChannelShort, WriteEnds, ListenerReturns, ListenerAnnounces
  <2> QED BY <1>3, <2>1, SenderKeeps
<1>4. CASE Breaks \/ UNCHANGED vars
  <2>1. UNCHANGED <<senderVars, mutexVars, wireVars, receiverVars>> /\ open' \in BOOLEAN
    BY <1>4 DEF IInv, Typed, Breaks, vars
  <2>2. Typed' /\ Writing'
    BY <2>1 DEF IInv, Typed, Writing, senderVars, mutexVars, wireVars, receiverVars
  <2> QED BY <2>1, <2>2, StreamUnread DEF IInv, wireVars, receiverVars
<1> QED BY <1>1, <1>2, <1>3, <1>4 DEF Next, SenderStep, Environment

LEMMA IInvInitially == Init => IInv
<1> SUFFICES ASSUME Init PROVE IInv
  OBVIOUS
<1>1. Typed
  <2>1. /\ <<>> \in Seq(Lengths) /\ <<>> \in Seq(BOOLEAN) /\ <<>> \in Seq(Byte)
        /\ <<>> \in Seq(Nat)
    OBVIOUS
  <2>2. /\ pc \in [Sender -> Pc] /\ frame \in [Sender -> Nat] /\ done \in [Sender -> Nat]
        /\ length \in [Sender -> Nat] /\ locked \in [Sender -> BOOLEAN]
    BY DEF Init, Pc
  <2> QED BY <2>1, <2>2 DEF Init, Typed
<1>2. Writing /\ Bytes /\ Stream
  BY DEF Init, Writing, Bytes, Stream, Ordered, Reading
<1> QED BY <1>1, <1>2 DEF IInv

\* The receiver sees the frames in order, and the channel grows by one frame at
\* a time.
LEMMA StepRefines ==
  ASSUME IInv, IInv', [Next]_vars
  PROVE  [Queue!Next]_(Queue!vars)
<1> USE DEF Queue!Next, Queue!vars
<1>1. ASSUME UNCHANGED <<size, wire, delivered>> PROVE UNCHANGED Queue!vars
  <2>1. Torn' = Torn
    BY <1>1 DEF Torn, Follows
  <2> QED BY <1>1, <2>1
<1>2. CASE ReceiverStep \/ ReceiveFails
  <2>1. UNCHANGED <<size, wire>>
    BY <1>2 DEF ReceiverStep, ReceiveHeaderPart, ReceiveBody, ReceiveHeader, ReceiveFails,
                receiverOnly, wireVars
  <2>2. CASE Torn
    BY <2>1, <2>2, Quiet DEF Queue!Anything
  <2>3. CASE ~Torn
    <3>1. Torn' = Torn
      BY <2>1 DEF Torn, Follows
    <3>2. CASE UNCHANGED delivered
      BY <1>1, <2>1, <3>2
    <3>3. CASE Len(delivered) < Len(size) /\ delivered' = Append(delivered, Next1)
      BY <2>1, <3>1, <3>3 DEF Queue!Deliver, Next1
    <3> QED BY <1>2, <2>3, <3>2, <3>3, ReceiverKeeps
  <2> QED BY <2>2, <2>3
<1>3. ASSUME NEW t \in Sender, NEW k \in 1..MaxLen, Write(t, k) PROVE [Queue!Next]_(Queue!vars)
  <2>1. Grown(t, k) /\ delivered' = delivered
    BY <1>3, WriteGrows DEF IInv, Write, receiverVars
  <2>2. CASE Torn
    BY <2>1, <2>2, TornStays DEF IInv, Queue!Anything
  <2>3. CASE ~Torn /\ Torn'
    BY <2>3 DEF Queue!Spoil
  <2>4. CASE ~Torn /\ ~Torn'
    <3>1. Torn' = Torn
      BY <2>4, Zenon DEF Torn
    <3>2. CASE done[t] = 0
      BY <2>1, <3>1, <3>2, GrownFacts DEF IInv, Queue!Send
    <3>3. CASE done[t] # 0
      BY <2>1, <3>1, <3>3, GrownFacts DEF IInv
    <3> QED BY <3>2, <3>3
  <2> QED BY <2>2, <2>3, <2>4
<1>4. CASE UNCHANGED <<wireVars, receiverVars>>
  BY <1>1, <1>4 DEF wireVars, receiverVars
<1>5. CASE UNCHANGED vars
  BY <1>1, <1>5 DEF vars, wireVars, receiverVars
<1>6. ASSUME NEW t \in Sender,
             \/ \E n \in Lengths : CallChannel(t, n) \/ CallSend(t, n)
             \/ LockTest(t) \/ Create(t) \/ InitMutex(t) \/ Acquire(t) \/ Unlock(t)
             \/ SendShort(t) \/ ChannelShort(t) \/ ListenerReturns(t) \/ ListenerAnnounces(t)
      PROVE  UNCHANGED <<wireVars, receiverVars>>
  BY <1>6 DEF MayCall, CallChannel, CallSend, LockTest, Create, InitMutex, Acquire, Unlock, SendShort,
              ChannelShort, WriteEnds, ListenerReturns, ListenerAnnounces
<1>7. CASE Breaks
  BY <1>4, <1>7 DEF Breaks
<1> QED BY <1>2, <1>3, <1>4, <1>5, <1>6, <1>7 DEF Next, SenderStep, Environment

LEMMA Invariance == Spec => []IInv
<1> QED BY IInvInitially, IInvPreserved, PTL DEF Spec

\* Frames arrive whole, each once and in the order in which they were begun,
\* for any threads, lengths and cuts of the stream, as long as no bytes of two
\* frames are mixed: Socket::receive never returns a part of a frame, two
\* frames at once or anything else (Socket.cpp:118-165).
THEOREM Implements == Spec => ImplementsQueue
<1>1. Init => Queue!Init
  BY DEF Init, Queue!Init, Torn
<1> QED BY <1>1, Invariance, StepRefines, PTL DEF Spec, ImplementsQueue, Queue!Spec

-----------------------------------------------------------------------------
(* The mutex. *)

\* t is between lock() and unlock() of send(Channel).
Critical(t) == pc[t] \in {"kill", "unlock"} \/ (pc[t] = "write" /\ locked[t])

Owned ==
  /\ owner # None => mutex
  /\ \A t \in Sender : pc[t] \in {"init", "acquire"} => mutex
  /\ \A t \in Sender : pc[t] = "init" => owner = None
  /\ \A t \in Sender : Critical(t) => owner = t

\* Byte n of the stream came through send(Channel).
Channelled(n) == channel[wire[n][1]]

\* Only the thread that is in the middle of it leaves a frame of send(Channel)
\* unfinished, unless the connection is closed.
Cut ==
  open /\ Len(wire) > 0 /\ Channelled(Len(wire)) =>
    /\ \/ wire[Len(wire)][2] = size[wire[Len(wire)][1]]
       \/ \E t \in Sender : Critical(t) /\ done[t] # 0
    /\ \A t \in Sender : locked[t] /\ done[t] # 0 => wire[Len(wire)] = <<frame[t], done[t]>>

Apart == \A n \in 2..Len(wire) : Follows(n) \/ ~Channelled(n) \/ ~Channelled(n - 1)

LInv == ~clash => Owned /\ Cut /\ Apart

\* What may become of a frame that s has begun, in a step that writes nothing.
Rests(s) ==
  \/ done[s] = 0 /\ done'[s] = 0
  \/ done'[s] = done[s] /\ frame'[s] = frame[s] /\ locked'[s] = locked[s] /\ pc'[s] = pc[s]
  \/ done'[s] = 0 /\ (Critical(s) => ~open')

LEMMA Unwritten ==
  ASSUME UNCHANGED wireVars, Cut, Apart, open' => open, \A s \in Sender : Rests(s)
  PROVE  Cut' /\ Apart'
<1>1. Apart'
  BY DEF Apart, Channelled, Follows, wireVars
<1>2. ASSUME open', Len(wire') > 0, Channelled(Len(wire))'
      PROVE  /\ \/ wire'[Len(wire')][2] = size'[wire'[Len(wire')][1]]
                \/ \E s \in Sender : Critical(s)' /\ done'[s] # 0
             /\ \A s \in Sender : locked'[s] /\ done'[s] # 0 =>
                                    wire'[Len(wire')] = <<frame'[s], done'[s]>>
  <2>1. wire' = wire /\ size' = size /\ channel' = channel
    BY DEF wireVars
  <2>2. open /\ Len(wire) > 0 /\ Channelled(Len(wire))
    BY <1>2, <2>1 DEF Channelled
  <2>3. \/ wire[Len(wire)][2] = size[wire[Len(wire)][1]]
        \/ \E s \in Sender : Critical(s) /\ done[s] # 0
    BY <2>2 DEF Cut
  <2>4. \A s \in Sender : locked[s] /\ done[s] # 0 => wire[Len(wire)] = <<frame[s], done[s]>>
    BY <2>2 DEF Cut
  <2>5. ASSUME NEW s \in Sender, Critical(s), done[s] # 0
        PROVE  Critical(s)' /\ done'[s] # 0
    BY <1>2, <2>5 DEF Rests, Critical
  <2>6. ASSUME NEW s \in Sender, locked'[s], done'[s] # 0
        PROVE  wire'[Len(wire')] = <<frame'[s], done'[s]>>
    BY <2>1, <2>4, <2>6 DEF Rests
  <2>7. \/ wire'[Len(wire')][2] = size'[wire'[Len(wire')][1]]
        \/ \E s \in Sender : Critical(s)' /\ done'[s] # 0
    BY <2>1, <2>3, <2>5
  <2> QED BY <2>6, <2>7
<1> QED BY <1>1, <1>2 DEF Cut

\* A step of t that writes nothing, and keeps the mutex unless it is t's.
LEMMA OneMoves ==
  ASSUME Typed, Owned, Cut, Apart, NEW t \in Sender, UNCHANGED wireVars, open' => open,
         \A s \in Sender \ {t} : /\ pc'[s] = pc[s] /\ done'[s] = done[s]
                                 /\ frame'[s] = frame[s] /\ locked'[s] = locked[s],
         Rests(t), mutex => mutex', pc'[t] \in {"init", "acquire"} => mutex',
         pc'[t] = "init" => owner' = None,
         \/ owner' = owner /\ mutex' = mutex /\ (Critical(t)' => Critical(t))
         \/ /\ owner = None /\ mutex' /\ owner' \in {None, t} /\ (Critical(t)' => owner' = t)
            /\ owner' = None \/ \A s \in Sender : pc[s] # "init"
         \/ owner' = None /\ Critical(t) /\ ~Critical(t)'
  PROVE  Owned' /\ Cut' /\ Apart'
<1>1. \A s \in Sender \ {t} : Critical(s)' <=> Critical(s)
  BY DEF Critical
<1>2. Owned'
  <2>1. CASE owner' = owner /\ mutex' = mutex /\ (Critical(t)' => Critical(t))
    BY <1>1, <2>1 DEF Owned
  <2>2. CASE /\ owner = None /\ mutex' /\ owner' \in {None, t} /\ (Critical(t)' => owner' = t)
             /\ owner' = None \/ \A s \in Sender : pc[s] # "init"
    BY <1>1, <2>2, Constants DEF Owned
  <2>3. CASE owner' = None /\ Critical(t) /\ ~Critical(t)'
    BY <1>1, <2>3, Constants DEF Owned
  <2> QED BY <2>1, <2>2, <2>3
<1>3. \A s \in Sender : Rests(s)
  BY DEF Rests
<1> QED BY <1>2, <1>3, Unwritten

\* The steps of a sender that is not in write.
LEMMA LockMoves ==
  ASSUME Typed, Writing, Owned, Cut, Apart, NEW t \in Sender, pc[t] # "write",
         UNCHANGED <<wireVars, open, frame, done>>,
         NEW l \in Pc, pc' = [pc EXCEPT ![t] = l],
         \A s \in Sender \ {t} : locked'[s] = locked[s],
         mutex => mutex', l \in {"init", "acquire"} => mutex',
         l = "init" => owner' = None,
         \/ owner' = owner /\ mutex' = mutex /\ (Critical(t)' => Critical(t))
         \/ /\ owner = None /\ mutex' /\ owner' \in {None, t} /\ (Critical(t)' => owner' = t)
            /\ owner' = None \/ \A s \in Sender : pc[s] # "init"
         \/ owner' = None /\ Critical(t) /\ ~Critical(t)'
  PROVE  Owned' /\ Cut' /\ Apart'
<1>1. \A s \in Sender \ {t} : pc'[s] = pc[s] /\ locked'[s] = locked[s]
  BY DEF Typed
<1>2. done[t] = 0 /\ done'[t] = 0
  BY DEF Writing
<1>3. pc'[t] = l
  BY DEF Typed
<1> QED BY <1>1, <1>2, <1>3, OneMoves DEF Rests

LEMMA LockKeeps ==
  ASSUME IInv, LInv, NEW t \in Sender,
         \/ \E n \in Lengths : CallChannel(t, n) \/ CallSend(t, n)
         \/ LockTest(t) \/ Create(t) \/ InitMutex(t) \/ Acquire(t) \/ Unlock(t)
         \/ SendShort(t) \/ ChannelShort(t) \/ ListenerReturns(t) \/ ListenerAnnounces(t)
  PROVE  LInv'
<1> SUFFICES ASSUME ~clash' PROVE Owned' /\ Cut' /\ Apart'
  BY DEF LInv
<1>1. UNCHANGED clash \/ Create(t) \/ Acquire(t)
  BY DEF MayCall, CallChannel, CallSend, LockTest, InitMutex, Unlock, SendShort,
         ChannelShort, WriteEnds, ListenerReturns, ListenerAnnounces, mutexVars
<1>2. Typed /\ Writing /\ Owned /\ Cut /\ Apart
  BY <1>1 DEF LInv, IInv, Create, Acquire
<1>3. ASSUME NEW n \in Lengths, CallChannel(t, n) \/ CallSend(t, n)
      PROVE  Owned' /\ Cut' /\ Apart'
  <2>1. /\ pc[t] = "idle" /\ UNCHANGED <<wireVars, open, frame, done, owner, mutex>>
        /\ \A s \in Sender \ {t} : locked'[s] = locked[s]
    BY <1>2, <1>3 DEF MayCall, CallChannel, CallSend, Typed, mutexVars
  <2>2. CASE CallChannel(t, n)
    <3>1. pc' = [pc EXCEPT ![t] = "lock"] /\ "lock" \in Pc /\ pc'[t] = "lock"
      BY <1>2, <2>2 DEF CallChannel, Typed, Pc
    <3>2. ~Critical(t)'
      BY <3>1 DEF Critical
    <3> QED BY <1>2, <2>1, <3>1, <3>2, LockMoves
  <2>3. CASE CallSend(t, n)
    <3>1. pc' = [pc EXCEPT ![t] = "write"] /\ "write" \in Pc /\ pc'[t] = "write"
          /\ locked'[t] = FALSE
      BY <1>2, <2>3 DEF CallSend, Typed, Pc
    <3>2. ~Critical(t)'
      BY <3>1 DEF Critical
    <3> QED BY <1>2, <2>1, <3>1, <3>2, LockMoves
  <2> QED BY <1>3, <2>2, <2>3
<1>4. CASE LockTest(t) \/ ListenerReturns(t) \/ ListenerAnnounces(t)
  <2>1. PICK l \in {"lock", "acquire", "create", "unlock"} :
          pc' = [pc EXCEPT ![t] = l] /\ (l = "unlock" => pc[t] = "kill")
    BY <1>4 DEF LockTest, ListenerReturns, ListenerAnnounces
  <2>2. /\ pc[t] # "write" /\ UNCHANGED <<wireVars, open, frame, done, owner, mutex, locked>>
        /\ l \in Pc /\ pc'[t] = l
    BY <1>2, <1>4, <2>1 DEF LockTest, ListenerReturns, ListenerAnnounces, mutexVars, Typed, Pc
  <2>3. Critical(t)' => Critical(t)
    BY <2>1, <2>2 DEF Critical
  <2>4. l = "acquire" => mutex
    BY <1>2, <1>4, <2>2 DEF LockTest, ListenerReturns, ListenerAnnounces, Typed
  <2> QED BY <1>2, <2>1, <2>2, <2>3, <2>4, LockMoves
<1>5. CASE Create(t)
  <2>1. /\ pc[t] = "create" /\ UNCHANGED <<wireVars, open, frame, done, locked>>
        /\ pc' = [pc EXCEPT ![t] = "init"] /\ "init" \in Pc /\ pc'[t] = "init"
        /\ ~mutex /\ mutex' /\ owner' = None
    BY <1>2, <1>5 DEF Create, Typed, Pc
  <2>2. owner = None /\ ~Critical(t)'
    BY <1>2, <2>1 DEF Owned, Critical
  <2> QED BY <1>2, <2>1, <2>2, LockMoves
<1>9. CASE InitMutex(t)
  <2>1. /\ pc[t] = "init" /\ owner' = None /\ UNCHANGED <<wireVars, open, frame, done, locked, mutex>>
        /\ pc' = [pc EXCEPT ![t] = "acquire"] /\ "acquire" \in Pc /\ pc'[t] = "acquire"
    BY <1>2, <1>9 DEF InitMutex, Typed, Pc
  <2>2. owner = None /\ mutex /\ ~Critical(t)'
    BY <1>2, <2>1 DEF Owned, Critical
  <2> QED BY <1>2, <2>1, <2>2, LockMoves
<1>6. CASE Acquire(t)
  <2>4. \A s \in Sender : pc[s] # "init"
    BY <1>6 DEF Acquire, Early
  <2>1. /\ pc[t] = "acquire" /\ owner = None /\ owner' = t
        /\ UNCHANGED <<wireVars, done, frame, locked, open, mutex>>
    BY <1>6 DEF Acquire
  <2>2. PICK l \in {"write", "unlock"} : pc' = [pc EXCEPT ![t] = l]
    BY <1>6 DEF Acquire
  <2>3. mutex /\ mutex' /\ l \in Pc /\ l \notin {"init", "acquire"}
    BY <1>2, <2>1 DEF Owned, Pc
  <2> QED BY <1>2, <2>1, <2>2, <2>3, <2>4, LockMoves
<1>7. CASE Unlock(t)
  <2>1. /\ pc[t] = "unlock" /\ owner' = None
        /\ UNCHANGED <<wireVars, done, frame, locked, open, mutex>>
        /\ pc' = [pc EXCEPT ![t] = "idle"] /\ "idle" \in Pc /\ pc'[t] = "idle"
    BY <1>2, <1>7 DEF Unlock, Typed, Pc
  <2>2. Critical(t) /\ ~Critical(t)'
    BY <2>1 DEF Critical
  <2> QED BY <1>2, <2>1, <2>2, LockMoves
<1>8. CASE SendShort(t) \/ ChannelShort(t)
  <2>1. PICK l \in {"idle", "kill"} : WriteEnds(t, l)
    BY <1>8 DEF SendShort, ChannelShort
  <2>2. /\ pc[t] = "write" /\ UNCHANGED <<wireVars, locked, owner, mutex>>
        /\ done'[t] = 0 /\ pc'[t] = l
        /\ \A s \in Sender \ {t} : /\ pc'[s] = pc[s] /\ done'[s] = done[s]
                                   /\ frame'[s] = frame[s] /\ locked'[s] = locked[s]
    BY <1>2, <2>1 DEF WriteEnds, Typed, mutexVars
  <2>3. CASE SendShort(t)
    <3>1. ~locked[t] /\ pc' = [pc EXCEPT ![t] = "idle"] /\ UNCHANGED open
      BY <2>3 DEF SendShort, WriteEnds
    <3>2. pc'[t] = "idle"
      BY <1>2, <3>1 DEF Typed
    <3>3. ~Critical(t) /\ ~Critical(t)'
      BY <2>2, <3>1, <3>2 DEF Critical
    <3> QED BY <1>2, <2>2, <3>1, <3>3, OneMoves DEF Rests
  <2>4. CASE ChannelShort(t)
    <3>1. locked[t] /\ open' = FALSE
      BY <2>4 DEF ChannelShort
    <3>2. Critical(t)
      BY <2>2, <3>1 DEF Critical
    <3> QED BY <1>2, <2>2, <3>1, <3>2, OneMoves DEF Rests
  <2> QED BY <1>8, <2>3, <2>4
<1> QED BY <1>3, <1>4, <1>5, <1>6, <1>7, <1>8, <1>9

LEMMA LockWrites ==
  ASSUME IInv, LInv, NEW t \in Sender, NEW k \in 1..MaxLen, Write(t, k)
  PROVE  LInv'
<1> SUFFICES ASSUME ~clash' PROVE Owned' /\ Cut' /\ Apart'
  BY DEF LInv
<1>1. /\ UNCHANGED <<length, locked, mutexVars, open>> /\ open /\ pc[t] = "write"
      /\ Written(t, Current(t), done[t] + k) /\ ~clash
  BY DEF Write, Current, mutexVars
<1>2. Grown(t, k) /\ Typed /\ Writing /\ Bytes /\ Owned /\ Cut /\ Apart
  BY <1>1, WriteGrows DEF IInv, LInv
<1>3. /\ Len(wire) \in Nat /\ k \in Nat /\ k >= 1 /\ Len(wire') = Len(wire) + k
      /\ done[t] \in Nat /\ length[t] \in Nat /\ done[t] + k <= length[t]
      /\ size'[Current(t)] = length[t] /\ channel'[Current(t)] = locked[t]
      /\ wire'[Len(wire')][1] = Current(t) /\ wire'[Len(wire')][2] = done[t] + k
      /\ wire'[Len(wire')] = <<Current(t), done[t] + k>>
  <2>1. k \in 1..k /\ \A i \in 1..k : wire'[Len(wire) + i] = <<Current(t), done[t] + i>>
    BY <1>2, GrownFacts
  <2>2. wire'[Len(wire')] = <<Current(t), done[t] + k>>
    BY <1>2, <2>1, GrownFacts
  <2> QED BY <1>2, <2>2, GrownFacts
<1>4. /\ \A s \in Sender \ {t} : pc'[s] = pc[s] /\ done'[s] = done[s] /\ frame'[s] = frame[s]
      /\ done[t] + k < length[t] =>
           pc'[t] = "write" /\ done'[t] = done[t] + k /\ frame'[t] = Current(t)
      /\ ~(done[t] + k < length[t]) =>
           pc'[t] = (IF locked[t] THEN "unlock" ELSE "idle") /\ done'[t] = 0
  <2>1. CASE done[t] + k < length[t]
    BY <1>1, <1>2, <2>1 DEF Written, Typed
  <2>2. CASE ~(done[t] + k < length[t])
    BY <1>1, <1>2, <2>2 DEF Written, Typed
  <2> QED BY <2>1, <2>2
<1>5. Owned'
  <2>1. \A s \in Sender : (Critical(s)' => Critical(s)) /\ (pc'[s] \in {"init", "acquire"} => pc'[s] = pc[s])
    BY <1>1, <1>4 DEF Critical
  <2> QED BY <1>1, <1>2, <2>1 DEF Owned, mutexVars
<1>6. Cut'
  <2> SUFFICES ASSUME locked[t]
               PROVE  /\ \/ wire'[Len(wire')][2] = size'[wire'[Len(wire')][1]]
                         \/ \E s \in Sender : Critical(s)' /\ done'[s] # 0
                      /\ \A s \in Sender : locked'[s] /\ done'[s] # 0 =>
                                             wire'[Len(wire')] = <<frame'[s], done'[s]>>
    BY <1>3 DEF Cut, Channelled
  <2>1. Critical(t)
    BY <1>1 DEF Critical
  <2>4. ASSUME NEW s \in Sender, locked'[s], done'[s] # 0
        PROVE  wire'[Len(wire')] = <<frame'[s], done'[s]>>
    <3>1. CASE s = t
      BY <1>3, <1>4, <2>4, <3>1
    <3>2. CASE s # t
      <4>1. pc[s] = "write" /\ locked[s]
        BY <1>1, <1>2, <1>4, <2>4, <3>2 DEF Writing
      <4> QED BY <1>2, <2>1, <3>2, <4>1 DEF Owned, Critical
    <3> QED BY <3>1, <3>2
  <2>5. \/ wire'[Len(wire')][2] = size'[wire'[Len(wire')][1]]
        \/ \E s \in Sender : Critical(s)' /\ done'[s] # 0
    <3>1. CASE done[t] + k < length[t]
      <4>1. Critical(t)' /\ done'[t] # 0
        BY <1>1, <1>3, <1>4, <2>1, <3>1 DEF Critical
      <4> QED BY <4>1
    <3>2. CASE ~(done[t] + k < length[t])
      <4>1. done[t] + k = length[t]
        BY <1>3, <3>2
      <4>2. /\ wire'[Len(wire')][2] = length[t] /\ wire'[Len(wire')][1] = Current(t)
            /\ size'[Current(t)] = length[t]
        BY <1>3, <4>1
      <4> QED BY <4>2
    <3> QED BY <3>1, <3>2
  <2> QED BY <2>4, <2>5
<1>7. Apart'
  <2> SUFFICES ASSUME NEW n \in 2..Len(wire'), Channelled(n)', Channelled(n - 1)'
               PROVE  Follows(n)'
    BY DEF Apart
  <2>1. CASE n <= Len(wire)
    <3>1. n \in 1..Len(wire) /\ n - 1 \in 1..Len(wire) /\ n \in 2..Len(wire)
      BY <1>3, <2>1
    <3>2. /\ wire'[n] = wire[n] /\ channel'[wire[n][1]] = channel[wire[n][1]]
          /\ wire'[n - 1] = wire[n - 1] /\ channel'[wire[n - 1][1]] = channel[wire[n - 1][1]]
      BY <1>2, <3>1, GrownFacts, ByteParts
    <3>3. Follows(n)
      BY <1>2, <3>1, <3>2 DEF Apart, Channelled
    <3> QED BY <1>2, <3>1, <3>3, FollowsStays
  <2>2. CASE n = Len(wire) + 1
    <3>1. /\ n - 1 = Len(wire) /\ n > 1 /\ Len(wire) > 0 /\ Len(wire) \in 1..Len(wire)
          /\ wire'[n - 1] = wire[Len(wire)] /\ wire'[n] = <<Current(t), done[t] + 1>>
      BY <1>2, <1>3, <2>2, GrownFacts
    <3>2. channel'[wire[Len(wire)][1]] = channel[wire[Len(wire)][1]]
          /\ size'[wire[Len(wire)][1]] = size[wire[Len(wire)][1]]
      BY <1>2, <3>1, GrownFacts, ByteParts
    <3>3. locked[t] /\ Channelled(Len(wire))
      BY <1>3, <3>1, <3>2 DEF Channelled
    <3>4. Critical(t)
      BY <1>1, <3>3 DEF Critical
    <3>5. CASE done[t] = 0
      <4>1. wire[Len(wire)][2] = size[wire[Len(wire)][1]]
        BY <1>1, <1>2, <3>1, <3>3, <3>4, <3>5 DEF Cut, Owned
      <4> QED BY <3>1, <3>2, <3>5, <4>1 DEF Follows
    <3>6. CASE done[t] # 0
      <4>1. wire[Len(wire)] = <<frame[t], done[t]>> /\ Current(t) = frame[t]
        BY <1>1, <1>2, <3>1, <3>3, <3>6, GrownFacts DEF Cut
      <4>2. wire'[n][2] > 1 /\ wire'[n][2] - 1 = done[t] /\ wire'[n][1] = Current(t)
        BY <1>3, <3>1, <3>6
      <4> QED BY <3>1, <4>1, <4>2 DEF Follows
    <3> QED BY <3>5, <3>6
  <2>3. CASE n > Len(wire) + 1
    <3>1. /\ n - Len(wire) \in 1..k /\ n = Len(wire) + (n - Len(wire))
          /\ n - 1 - Len(wire) \in 1..k /\ n - 1 = Len(wire) + (n - 1 - Len(wire))
          /\ n - Len(wire) > 1
      BY <1>3, <2>3
    <3>2. /\ wire'[n] = <<Current(t), done[t] + (n - Len(wire))>>
          /\ wire'[n - 1] = <<Current(t), done[t] + (n - 1 - Len(wire))>>
      <4>1. \A i \in 1..k : wire'[Len(wire) + i] = <<Current(t), done[t] + i>>
        BY <1>2, GrownFacts
      <4> QED BY <3>1, <4>1
    <3>3. wire'[n][2] > 1 /\ wire'[n][2] - 1 = done[t] + (n - 1 - Len(wire)) /\ n > 1
      BY <1>3, <3>1, <3>2
    <3> QED BY <3>2, <3>3 DEF Follows
  <2> QED BY <1>3, <2>1, <2>2, <2>3
<1> QED BY <1>5, <1>6, <1>7

LEMMA LInvPreserved ==
  ASSUME IInv, LInv, [Next]_vars
  PROVE  LInv'
<1>1. ASSUME NEW t \in Sender, NEW k \in 1..MaxLen, Write(t, k) PROVE LInv'
  BY <1>1, LockWrites
<1>2. CASE ReceiverStep \/ ReceiveFails \/ Breaks \/ UNCHANGED vars
  <2>1. UNCHANGED <<senderVars, mutexVars, wireVars>> /\ (open' = open \/ open' = FALSE)
    BY <1>2 DEF ReceiverStep, ReceiveHeaderPart, ReceiveBody, ReceiveHeader, ReceiveFails,
                receiverOnly, Breaks, vars
  <2>2. Owned' <=> Owned
    BY <2>1 DEF Owned, Critical, senderVars, mutexVars
  <2>4. \A t \in Sender : Rests(t)
    BY <2>1 DEF Rests, senderVars
  <2>5. Cut /\ Apart => Cut' /\ Apart'
    BY <2>1, <2>4, Unwritten
  <2> QED BY <2>1, <2>2, <2>5 DEF LInv, mutexVars
<1> QED BY <1>1, <1>2, LockKeeps DEF Next, SenderStep, Environment

\* For any threads and frames: two frames that both came through
\* Server::send(Channel) never mix, and one that was cut short is the last
\* (Server.cpp:455-484, Thread.cpp:152-174), as long as the mutex was made once.
THEOREM MutexApart == Spec => []LockedNeverTear
<1>1. Init => LInv
  BY DEF Init, LInv, Owned, Critical, Cut, Apart
<1>2. LInv => LockedNeverTear
  BY DEF LInv, Apart, Channelled, LockedNeverTear
<1> QED BY <1>1, <1>2, Invariance, LInvPreserved, PTL DEF Spec

-----------------------------------------------------------------------------
(* Who holds the mutex. *)

\* Where the thread is that has locked the mutex; "lock" and "acquire" are those of
\* its listener.
Inside == {"write", "kill", "unlock", "lock", "acquire"}

Held == owner # None => locked[owner] /\ pc[owner] \in Inside

\* A thread is at these only by send(Channel).
Locking == {"lock", "create", "init", "acquire", "kill", "unlock"}

HInv == ~clash => Held /\ \A t \in Sender : pc[t] \in Locking => locked[t]

\* A step of one thread after which the mutex is still where it was, the thread is
\* inside if it was, and came by send(Channel) if it is to unlock.
LEMMA HolderMoves ==
  ASSUME Typed, HInv, ~clash, NEW t \in Sender, owner' = owner,
         \A s \in Sender \ {t} : pc'[s] = pc[s] /\ locked'[s] = locked[s],
         owner = t => locked'[t] /\ pc'[t] \in Inside,
         pc'[t] \in Locking => locked'[t]
  PROVE  HInv'
<1>1. Held'
  BY DEF Held, HInv, Typed
<1> QED BY <1>1 DEF HInv

LEMMA HolderPreserved ==
  ASSUME IInv, LInv, HInv, [Next]_vars
  PROVE  HInv'
<1> SUFFICES ASSUME ~clash' PROVE HInv'
  BY DEF HInv
<1>0. Typed /\ pc \in [Sender -> Pc] /\ locked \in [Sender -> BOOLEAN]
  BY DEF IInv, Typed
<1>1. CASE ReceiverStep \/ ReceiveFails \/ Breaks \/ UNCHANGED vars
  <2>1. UNCHANGED <<pc, locked, owner, clash>>
    BY <1>1 DEF ReceiverStep, ReceiveHeaderPart, ReceiveBody, ReceiveHeader, ReceiveFails,
                receiverOnly, Breaks, vars, senderVars, mutexVars
  <2> QED BY <2>1 DEF HInv, Held
<1>2. ASSUME NEW t \in Sender, NEW n \in Lengths, CallChannel(t, n) \/ CallSend(t, n)
      PROVE  HInv'
  <2>1. /\ pc[t] = "idle" /\ ~clash /\ owner' = owner /\ (pc'[t] \in Locking => locked'[t])
        /\ \A s \in Sender \ {t} : pc'[s] = pc[s] /\ locked'[s] = locked[s]
    BY <1>0, <1>2 DEF MayCall, CallChannel, CallSend, mutexVars, Locking
  <2>2. owner # t
    BY <2>1, Constants DEF HInv, Held, Inside
  <2> QED BY <1>0, <2>1, <2>2, HolderMoves
<1>3. ASSUME NEW t \in Sender, LockTest(t)
      PROVE  HInv'
  <2>1. /\ pc[t] = "lock" /\ ~clash /\ owner' = owner /\ UNCHANGED locked
        /\ pc'[t] = (IF mutex THEN "acquire" ELSE "create")
        /\ \A s \in Sender \ {t} : pc'[s] = pc[s]
    BY <1>0, <1>3 DEF LockTest, mutexVars
  <2>2. locked[t] /\ (owner = t => mutex)
    BY <2>1, Constants DEF HInv, Locking, LInv, Owned
  <2> QED BY <1>0, <2>1, <2>2, HolderMoves DEF Inside
<1>4. ASSUME NEW t \in Sender, ListenerReturns(t) \/ ListenerAnnounces(t)
      PROVE  HInv'
  <2>1. /\ pc[t] = "kill" /\ ~clash /\ owner' = owner /\ UNCHANGED locked
        /\ pc'[t] \in {"unlock", "lock"}
        /\ \A s \in Sender \ {t} : pc'[s] = pc[s]
    BY <1>0, <1>4 DEF ListenerReturns, ListenerAnnounces, mutexVars
  <2>2. locked[t]
    BY <2>1 DEF HInv, Locking
  <2> QED BY <1>0, <2>1, <2>2, HolderMoves DEF Inside
<1>5. ASSUME NEW t \in Sender, SendShort(t) \/ ChannelShort(t)
      PROVE  HInv'
  <2>1. PICK l \in {"idle", "kill"} :
          WriteEnds(t, l) /\ (IF l = "idle" THEN ~locked[t] ELSE locked[t])
    BY <1>5 DEF SendShort, ChannelShort
  <2>2. /\ ~clash /\ owner' = owner /\ UNCHANGED locked /\ pc'[t] = l
        /\ \A s \in Sender \ {t} : pc'[s] = pc[s]
    BY <1>0, <2>1 DEF WriteEnds, mutexVars
  <2>3. owner = t => locked[t]
    BY <2>2, Constants DEF HInv, Held
  <2> QED BY <1>0, <2>1, <2>2, <2>3, HolderMoves DEF Inside, Locking
<1>6. ASSUME NEW t \in Sender, NEW k \in 1..MaxLen, Write(t, k)
      PROVE  HInv'
  <2>1. /\ pc[t] = "write" /\ ~clash /\ owner' = owner /\ UNCHANGED locked
        /\ \/ pc' = pc
           \/ pc' = [pc EXCEPT ![t] = IF locked[t] THEN "unlock" ELSE "idle"]
    BY <1>6 DEF Write, Written, mutexVars
  <2>2. /\ pc'[t] \in {"write", IF locked[t] THEN "unlock" ELSE "idle"}
        /\ \A s \in Sender \ {t} : pc'[s] = pc[s]
    BY <1>0, <2>1
  <2>3. owner = t => locked[t]
    BY <2>1, Constants DEF HInv, Held
  <2> QED BY <1>0, <2>1, <2>2, <2>3, HolderMoves DEF Inside, Locking
<1>7. ASSUME NEW t \in Sender, Create(t) \/ InitMutex(t) \/ Unlock(t)
      PROVE  HInv'
  <2>1. /\ ~clash /\ owner' = None /\ UNCHANGED locked /\ pc[t] \in Locking
        /\ \E l \in {"init", "acquire", "idle"} : pc' = [pc EXCEPT ![t] = l]
    <3>1. CASE Create(t)
      BY <3>1 DEF Create, Locking
    <3>3. CASE InitMutex(t)
      BY <3>3 DEF InitMutex, Locking
    <3>2. CASE Unlock(t)
      BY <3>2 DEF Unlock, Locking
    <3> QED BY <1>7, <3>1, <3>2, <3>3
  <2>2. \A s \in Sender : pc'[s] \in Locking => pc[s] \in Locking
    BY <1>0, <2>1
  <2> QED BY <2>1, <2>2 DEF HInv, Held
<1>8. ASSUME NEW t \in Sender, Acquire(t)
      PROVE  HInv'
  <2>1. /\ ~clash /\ owner' = t /\ UNCHANGED locked /\ pc[t] = "acquire"
        /\ \E l \in {"write", "unlock"} : pc' = [pc EXCEPT ![t] = l]
    BY <1>8 DEF Acquire
  <2>2. pc'[t] \in {"write", "unlock"} /\ \A s \in Sender \ {t} : pc'[s] = pc[s]
    BY <1>0, <2>1
  <2>3. locked[t] /\ \A s \in Sender : pc'[s] \in Locking => locked[s]
    BY <2>1, <2>2 DEF HInv, Locking
  <2> QED BY <2>1, <2>2, <2>3 DEF HInv, Held, Inside
<1> QED
  BY <1>1, <1>2, <1>3, <1>4, <1>5, <1>6, <1>7, <1>8 DEF Next, SenderStep, Environment

\* The mutex of send(Channel) is never left locked, and nobody is in between lock()
\* and unlock() without holding it (Server.cpp:455-484, Thread.cpp:152-174), as long
\* as it was made once.
THEOREM MutexHeldInside == Spec => []HeldInside
<1>1. Init => LInv /\ HInv
  BY DEF Init, LInv, Owned, Critical, Cut, Apart, HInv, Held, Locking
<1>2. IInv /\ LInv /\ HInv /\ [Next]_vars => (LInv /\ HInv)'
  BY LInvPreserved, HolderPreserved
<1>3. LInv /\ HInv => HeldInside
  BY DEF LInv, HInv, Held, Owned, Critical, Inside, HeldInside
<1> QED BY <1>1, <1>2, <1>3, Invariance, PTL DEF Spec

-----------------------------------------------------------------------------
(* The types that count frames. *)

\* The senders that may yet begin a frame.
Pending == {t \in Sender : pc[t] \notin {"idle", "unlock"} /\ done[t] = 0}

Narrow ==
  /\ length \in [Sender -> 0..MaxLen]
  /\ \A t \in Sender : done[t] = 0 => frame[t] = 0
  /\ delivered \in Seq(Frame \cup {0})
  /\ Len(size) <= MaxFrames
  /\ open => Len(size) + Cardinality(Pending) <= MaxFrames

LEMMA SomeSenders ==
  ASSUME NEW S \in SUBSET Sender, NEW T \in SUBSET S
  PROVE  /\ IsFiniteSet(S) /\ Cardinality(S) \in Nat /\ Cardinality(T) \in Nat
         /\ Cardinality(T) <= Cardinality(S)
<1>1. IsFiniteSet(S) /\ IsFiniteSet(T)
  BY FramingAssumption, FS_Subset
<1> QED BY <1>1, FS_CardinalityType, FS_Subset

\* Steps that begin no frame and let none be begun that could not be before.
LEMMA NarrowUnwritten ==
  ASSUME IInv, Narrow, UNCHANGED <<size, delivered>>, open' => open /\ Pending' \subseteq Pending,
         length' \in [Sender -> 0..MaxLen],
         \A t \in Sender : done'[t] = 0 => frame'[t] = 0
  PROVE  Narrow'
<1>1. open' => /\ Cardinality(Pending') <= Cardinality(Pending)
               /\ Cardinality(Pending') \in Nat /\ Cardinality(Pending) \in Nat
  BY SomeSenders DEF Pending
<1>2. Len(size) \in Nat /\ MaxFrames \in Nat
  BY FramingAssumption DEF IInv, Typed
<1> QED BY <1>1, <1>2 DEF Narrow

LEMMA NarrowCalls ==
  ASSUME IInv, Narrow, NEW t \in Sender, NEW n \in Lengths, MayCall(t, n),
         NEW l \in Pc, pc' = [pc EXCEPT ![t] = l]
  PROVE  Narrow'
<1> DEFINE busy == {s \in Sender : pc[s] # "idle"}
<1>1. /\ UNCHANGED <<size, delivered, done, frame, open>>
      /\ length' = [length EXCEPT ![t] = n] /\ n \in 0..MaxLen /\ t \notin busy
      /\ Len(size) + Cardinality(busy) < MaxFrames
  BY Constants DEF MayCall, wireVars, receiverVars
<1>2. length' \in [Sender -> 0..MaxLen]
  BY <1>1 DEF Narrow
<1>3. Pending' \subseteq busy \cup {t}
  BY <1>1 DEF Pending, IInv, Typed
<1>4. IsFiniteSet(busy) /\ Cardinality(busy) \in Nat
  BY SomeSenders
<1>5. busy \cup {t} \in SUBSET Sender /\ Cardinality(busy \cup {t}) = Cardinality(busy) + 1
  BY <1>1, <1>4, FS_AddElement
<1>6. Cardinality(Pending') <= Cardinality(busy) + 1 /\ Cardinality(Pending') \in Nat
  BY <1>3, <1>5, SomeSenders
<1>7. Len(size) + Cardinality(Pending') <= MaxFrames
  <2>1. Len(size) \in Nat /\ MaxFrames \in Nat
    BY FramingAssumption DEF IInv, Typed
  <2> HIDE DEF busy
  <2> QED BY <1>1, <1>4, <1>6, <2>1
<1> QED BY <1>1, <1>2, <1>7 DEF Narrow

LEMMA NarrowWrites ==
  ASSUME IInv, Narrow, NEW t \in Sender, NEW k \in 1..MaxLen, Write(t, k)
  PROVE  Narrow'
<1>1. /\ UNCHANGED <<length, locked, open, delivered>> /\ open /\ pc[t] = "write"
      /\ Written(t, Current(t), done[t] + k)
  BY DEF Write, Current, receiverVars
<1>2. Typed /\ Writing /\ Grown(t, k)
  BY WriteGrows DEF IInv
<1>3. /\ done[t] \in Nat /\ k \in Nat /\ k >= 1 /\ Len(size) \in Nat /\ Len(size') \in Nat
      /\ done[t] = 0 => Len(size') = Len(size) + 1
      /\ done[t] # 0 => Len(size') = Len(size)
  BY <1>2, GrownFacts
<1>4. /\ \A s \in Sender \ {t} : pc'[s] = pc[s] /\ done'[s] = done[s] /\ frame'[s] = frame[s]
      /\ \/ done'[t] = done[t] + k
         \/ done'[t] = 0 /\ frame'[t] = 0 /\ pc'[t] \in {"idle", "unlock"}
  <2>1. CASE done[t] + k < length[t]
    BY <1>1, <1>2, <2>1 DEF Written, Typed
  <2>2. CASE ~(done[t] + k < length[t])
    BY <1>1, <1>2, <2>2 DEF Written, Typed
  <2> QED BY <2>1, <2>2
<1>5. \A s \in Sender : done'[s] = 0 => frame'[s] = 0
  BY <1>3, <1>4 DEF Narrow
<1>6. Pending' \subseteq Pending \ {t}
  <2>1. t \notin Pending'
    BY <1>3, <1>4 DEF Pending
  <2> QED BY <1>4, <2>1 DEF Pending
<1>7. IsFiniteSet(Pending) /\ Cardinality(Pending) \in Nat /\ Pending \in SUBSET Sender
  BY SomeSenders DEF Pending
<1>8. Cardinality(Pending') <= Cardinality(Pending \ {t}) /\ Cardinality(Pending') \in Nat
  BY <1>6, <1>7, SomeSenders
<1>9. Len(size) + Cardinality(Pending) <= MaxFrames /\ MaxFrames \in Nat
  BY <1>1, FramingAssumption DEF Narrow
<1>10. Len(size') <= MaxFrames /\ Len(size') + Cardinality(Pending') <= MaxFrames
  <2>1. CASE done[t] = 0
    <3>1. t \in Pending
      BY <1>1, <2>1 DEF Pending
    <3>2. Cardinality(Pending \ {t}) = Cardinality(Pending) - 1
      BY <1>7, <3>1, FS_RemoveElement
    <3> QED BY <1>3, <1>7, <1>8, <1>9, <2>1, <3>2
  <2>2. CASE done[t] # 0
    <3>1. Cardinality(Pending \ {t}) <= Cardinality(Pending) /\ Cardinality(Pending \ {t}) \in Nat
      BY <1>7, SomeSenders
    <3> QED BY <1>3, <1>7, <1>8, <1>9, <2>2, <3>1
  <2> QED BY <2>1, <2>2
<1> QED BY <1>1, <1>5, <1>10 DEF Narrow

LEMMA NarrowSends ==
  ASSUME IInv, Narrow, NEW t \in Sender,
         \/ \E n \in Lengths : CallChannel(t, n) \/ CallSend(t, n)
         \/ LockTest(t) \/ Create(t) \/ InitMutex(t) \/ Acquire(t) \/ Unlock(t)
         \/ SendShort(t) \/ ChannelShort(t) \/ ListenerReturns(t) \/ ListenerAnnounces(t)
  PROVE  Narrow'
<1> USE DEF wireVars, receiverVars
<1>0. Typed /\ Writing
  BY DEF IInv
<1>1. CASE \E n \in Lengths : CallChannel(t, n) \/ CallSend(t, n)
  <2>1. PICK n \in Lengths, l \in {"lock", "write"} : MayCall(t, n) /\ pc' = [pc EXCEPT ![t] = l]
    BY <1>1 DEF CallChannel, CallSend
  <2>2. l \in Pc
    BY DEF Pc
  <2> QED BY <2>1, <2>2, NarrowCalls
<1>2. CASE LockTest(t) \/ Create(t) \/ InitMutex(t) \/ Acquire(t) \/ Unlock(t) \/ ListenerReturns(t) \/ ListenerAnnounces(t)
  <2>1. UNCHANGED <<size, delivered, length, done, frame, open>>
    BY <1>2 DEF LockTest, Create, InitMutex, Acquire, Unlock, ListenerReturns, ListenerAnnounces
  <2>2. pc[t] \notin {"idle", "unlock"} \/ pc'[t] = "idle"
    BY <1>0, <1>2 DEF LockTest, Create, InitMutex, Acquire, Unlock, ListenerReturns, ListenerAnnounces, Typed
  <2>3. \A s \in Sender \ {t} : pc'[s] = pc[s]
    BY <1>0, <1>2 DEF LockTest, Create, InitMutex, Acquire, Unlock, ListenerReturns, ListenerAnnounces, Typed
  <2>4. Pending' \subseteq Pending
    BY <2>1, <2>2, <2>3 DEF Pending
  <2> QED BY <2>1, <2>4, NarrowUnwritten DEF Narrow
<1>3. CASE SendShort(t) \/ ChannelShort(t)
  <2>1. PICK l \in {"idle", "kill"} : WriteEnds(t, l) /\ ((l = "idle" /\ open' = open) \/ open' = FALSE)
    BY <1>3 DEF SendShort, ChannelShort
  <2>2. /\ UNCHANGED <<size, delivered, length>>
        /\ \A s \in Sender \ {t} : pc'[s] = pc[s] /\ done'[s] = done[s] /\ frame'[s] = frame[s]
        /\ frame'[t] = 0 /\ pc'[t] = l
    BY <1>0, <2>1 DEF WriteEnds, Typed
  <2>3. open' => open /\ Pending' \subseteq Pending
    BY <2>1, <2>2 DEF Pending
  <2> QED BY <2>2, <2>3, NarrowUnwritten DEF Narrow
<1> QED BY <1>1, <1>2, <1>3

\* The frames that receive() returns are frames that were begun.
LEMMA NarrowReceives ==
  ASSUME IInv, Narrow, ReceiverStep \/ ReceiveFails
  PROVE  Narrow'
<1>1. UNCHANGED <<senderVars, size>> /\ (open' => open)
  BY DEF ReceiverStep, ReceiveHeaderPart, ReceiveBody, ReceiveHeader, ReceiveFails,
         receiverOnly, wireVars, Gives, Takes, IInv, Typed
<1>2. /\ taken \in Nat /\ start \in Nat /\ want \in Nat /\ Len(wire) \in Nat
      /\ Typed /\ Bytes /\ Header \in Nat \ {0} /\ MaxLen \in Nat
  BY Constants DEF IInv, Typed
<1>3. delivered' = delivered \/ \E n \in Nat \ {0} : Deliver(n) /\ start + n <= Len(wire)
  <2>1. CASE (\E k \in 1..MaxLen : ReceiveHeaderPart(k)) \/ ReceiveFails
    BY <2>1 DEF ReceiveHeaderPart, ReceiveFails, Gives
  <2>2. CASE \E k \in 1..MaxLen : ReceiveBody(k)
    <3>1. PICK k \in 1..MaxLen : ReceiveBody(k)
      BY <2>2
    <3>2. CASE taken' = start + want
      <4>1. want \in Nat \ {0} /\ start + want <= Len(wire) /\ Deliver(want)
        BY <1>2, <3>1, <3>2 DEF ReceiveBody, Takes, Deliver, Gives
      <4> QED BY <4>1
    <3>3. CASE taken' # start + want
      BY <3>1, <3>3 DEF ReceiveBody, Gives, Deliver
    <3> QED BY <3>2, <3>3
  <2>3. CASE \E k \in 1..MaxLen, l \in 0..MaxLen : ReceiveHeader(k, l)
    <3>1. PICK k \in 1..MaxLen, l \in 0..MaxLen : ReceiveHeader(k, l)
      BY <2>3
    <3>2. start + Header <= Len(wire)
      BY <1>2, <3>1 DEF ReceiveHeader, Takes
    <3>3. CASE l = Header
      <4>1. Deliver(l)
        BY <1>2, <3>1, <3>3 DEF ReceiveHeader, Gives, Deliver
      <4> QED BY <1>2, <3>2, <3>3, <4>1
    <3>4. CASE l # Header
      BY <1>2, <3>1, <3>4 DEF ReceiveHeader, Gives, Deliver
    <3> QED BY <3>3, <3>4
  <2> QED BY <2>1, <2>2, <2>3 DEF ReceiverStep
<1>4. delivered' \in Seq(Frame \cup {0})
  <2>1. CASE delivered' = delivered
    BY <2>1 DEF Narrow
  <2>2. ASSUME NEW n \in Nat \ {0}, Deliver(n), start + n <= Len(wire)
        PROVE  delivered' \in Seq(Frame \cup {0})
    <3>1. start + 1 \in 1..Len(wire)
      BY <1>2, <2>2
    <3>2. wire[start + 1][1] \in 1..Len(size) /\ Len(size) \in Nat
      BY <1>2, <3>1, ByteParts DEF Typed
    <3>3. wire[start + 1][1] \in Frame \cup {0} /\ delivered \in Seq(Frame \cup {0})
      BY <3>2, FramingAssumption DEF Narrow, Frame
    <3>4. \E f \in Frame \cup {0} : delivered' = Append(delivered, f)
      BY <2>2, <3>3 DEF Deliver
    <3> QED BY <3>3, <3>4
  <2> QED BY <1>3, <2>1, <2>2
<1>5. Pending' = Pending
  BY <1>1 DEF Pending, senderVars
<1> QED BY <1>1, <1>4, <1>5 DEF Narrow, senderVars

LEMMA NarrowPreserved ==
  ASSUME IInv, Narrow, [Next]_vars
  PROVE  Narrow'
<1>1. CASE Breaks \/ UNCHANGED vars
  <2>1. UNCHANGED <<senderVars, size, delivered>> /\ (open' => open)
    BY <1>1 DEF Breaks, vars, wireVars, receiverVars
  <2>2. Pending' = Pending
    BY <2>1 DEF Pending, senderVars
  <2> QED BY <2>1, <2>2, NarrowUnwritten DEF Narrow, senderVars
<1> QED BY <1>1, NarrowReceives, NarrowWrites, NarrowSends DEF Next, SenderStep, Environment

LEMMA Types == IInv /\ Narrow => TypeOK
<1> SUFFICES ASSUME IInv, Narrow PROVE TypeOK
  OBVIOUS
<1>1. Typed /\ Writing /\ Bytes /\ Len(size) \in Nat /\ MaxFrames \in Nat /\ MaxLen \in Nat
  BY FramingAssumption DEF IInv, Typed
<1>2. ASSUME NEW t \in Sender PROVE frame[t] \in Frame \cup {0} /\ done[t] \in 0..MaxLen
  <2>1. frame[t] \in Nat /\ done[t] \in Nat /\ length[t] \in 0..MaxLen
    BY <1>1 DEF Typed, Narrow
  <2>2. CASE done[t] = 0
    BY <1>1, <2>1, <2>2 DEF Narrow
  <2>3. CASE done[t] # 0
    BY <1>1, <2>1, <2>3 DEF Writing, Narrow, Frame
  <2> QED BY <2>2, <2>3
<1>3. frame \in [Sender -> Frame \cup {0}] /\ done \in [Sender -> 0..MaxLen]
  BY <1>1, <1>2 DEF Typed
<1>4. \A n \in 1..Len(wire) : wire[n] \in Frame \X (1..MaxLen)
  <2> SUFFICES ASSUME NEW n \in 1..Len(wire) PROVE wire[n] \in Frame \X (1..MaxLen)
    OBVIOUS
  <2>1. /\ wire[n] = <<wire[n][1], wire[n][2]>>
        /\ wire[n][1] \in 1..Len(size) /\ wire[n][2] \in 1..size[wire[n][1]]
        /\ size[wire[n][1]] \in Nat /\ size[wire[n][1]] <= MaxLen
    BY <1>1, ByteParts, Constants
  <2>2. wire[n][1] \in Frame /\ wire[n][2] \in 1..MaxLen
    BY <1>1, <2>1 DEF Narrow, Frame
  <2> QED BY <2>1, <2>2
<1>5. wire \in Seq(Frame \X (1..MaxLen))
  BY <1>1, <1>4 DEF Typed
<1> QED BY <1>1, <1>3, <1>5 DEF TypeOK, Typed, Narrow

\* The types, with the bounds on frames and lengths, for any finite set of
\* threads: a call counts the frames of those that are under way.
THEOREM Typing == Spec => []TypeOK
<1>1. Init => Narrow
  <2> SUFFICES ASSUME Init PROVE Narrow
    OBVIOUS
  <2>1. Pending = {} /\ <<>> \in Seq(Frame \cup {0}) /\ 0 \in 0..MaxLen /\ MaxFrames \in Nat
    BY FramingAssumption DEF Init, Pending
  <2>2. Cardinality(Pending) = 0
    BY <2>1, FS_EmptySet
  <2> QED BY <2>1, <2>2 DEF Init, Narrow
<1> QED BY <1>1, Invariance, NarrowPreserved, Types, PTL DEF Spec

===============================================================================

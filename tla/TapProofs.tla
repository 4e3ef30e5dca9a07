------------------------------- MODULE TapProofs -------------------------------
(***************************************************************************)
(* The framing and the roster of a tap, for any channels, sessions and     *)
(* players and any number of messages under way: what has been sent and    *)
(* not yet handled is a sequence of whole messages, and of each session    *)
(* the last thing said, in them or to the tap before, is what holds of it  *)
(* at the far end.                                                         *)
(***************************************************************************)
EXTENDS Tap, SequenceTheorems, TLAPS

(***************************************************************************)
(* The lengths and session ids those messages are written with: what is    *)
(* written with Varint is read back, for every number an i64 holds and in  *)
(* the middle of any buffer.                                               *)
(***************************************************************************)

\* The numbers write_varint is given.
Encodable == {v \in Nat : ((v \div 65536) \div 65536) \div 65536 < 32768}

\* The bytes w are in buf from position p on.
Holds(buf, p, w) ==
    /\ p + Len(w) - 1 <= Len(buf)
    /\ \A i \in 1..Len(w) : buf[p + i - 1] = w[i]

\* The number that four bytes are.
FourBytes(a, b, c, d) == 16777216 * a + 65536 * b + 256 * c + d

\* The bytes of a number below 2^32 make up that number.
LEMMA WordValue ==
    ASSUME NEW v \in Nat, v < 65536 * 65536
    PROVE  /\ \A i \in 1..4 : Word(v)[i] \in Int /\ Word(v)[i] \in Byte
           /\ FourBytes(Word(v)[1], Word(v)[2], Word(v)[3], Word(v)[4]) = v
  <1>1. /\ v \div 16777216 \in Byte /\ (v \div 65536) % 256 \in Byte
        /\ (v \div 256) % 256 \in Byte /\ v % 256 \in Byte
    BY SMT DEF Byte
  <1>2. 16777216 * (v \div 16777216) + 65536 * ((v \div 65536) % 256)
        + 256 * ((v \div 256) % 256) + (v % 256) = v
    BY SMT
  <1> QED BY <1>1, <1>2, SMT DEF Word, FourBytes

\* The halves of a number.
LEMMA Halves ==
    ASSUME NEW v \in Encodable
    PROVE  LET high == (v \div 65536) \div 65536
               low  == v % (65536 * 65536)
           IN  /\ high \in Nat /\ high < 32768 * 65536
               /\ low \in Nat /\ low < 65536 * 65536
               /\ high * (65536 * 65536) + low = v
  BY SMT DEF Encodable

\* From 2^28 on a marker says how many bytes follow.
LEMMA WideIs ==
    ASSUME NEW v \in Nat, 268435456 <= v
    PROVE  WriteVarint(v) = Wide(v)
<1>1. ~(v < 128) /\ ~(v < 16384) /\ ~(v < 2097152) /\ ~(v < 268435456)
    BY SMT
<1> QED BY <1>1, SMT DEF WriteVarint

\* What take gives for the four bytes after position p.
LEMMA TakeWordIs ==
    ASSUME NEW buf, NEW p \in Nat
    PROVE  TakeWord(buf, p + 1) = FourBytes(buf[p + 1], buf[p + 2], buf[p + 3], buf[p + 4])
<1>1. (p + 1) + 1 = p + 2 /\ (p + 1) + 2 = p + 3 /\ (p + 1) + 3 = p + 4
    BY SMT
<1> QED BY <1>1, SMT DEF TakeWord, FourBytes

\* What the markers of the two longest forms say.
LEMMA Markers ==
    ASSUME NEW buf, NEW p
    PROVE  /\ Following(240) = 4 /\ ~Negates(240) /\ Following(244) = 8 /\ ~Negates(244)
           /\ Value(buf, p, 240) = TakeWord(buf, p + 1)
           /\ Value(buf, p, 244) = AsI64(TakeWord(buf, p + 1), TakeWord(buf, p + 5))
<1>1. Following(240) = 4 /\ ~Negates(240) /\ Following(244) = 8 /\ ~Negates(244)
    BY SMT DEF Following, Negates
<1>2. Value(buf, p, 240) = TakeWord(buf, p + 1)
    BY SMT DEF Value
<1>3. Value(buf, p, 244) = AsI64(TakeWord(buf, p + 1), TakeWord(buf, p + 5))
    BY SMT DEF Value
<1> QED BY <1>1, <1>2, <1>3, SMT

\* What the reader makes of a marker and four bytes.
LEMMA FiveAreRead ==
    ASSUME NEW buf, Len(buf) \in Nat, NEW p \in Nat, NEW w, Len(w) = 5, Holds(buf, p, w),
           Following(w[1]) = 4, Value(buf, p, w[1]) = TakeWord(buf, p + 1)
    PROVE  /\ Plain(buf, p) = [value |-> FourBytes(w[2], w[3], w[4], w[5]), next |-> p + 5]
           /\ p <= Len(buf) /\ buf[p] = w[1]
<1>1. p + 4 <= Len(buf)
    BY SMT DEF Holds
<1>2. \A j \in 1..5 : buf[p + j - 1] = w[j]
    BY Zenon DEF Holds
<1>3. buf[p] = w[1] /\ buf[p + 1] = w[2]
  <2>1. 1 \in 1..5 /\ p + 1 - 1 = p /\ 2 \in 1..5 /\ p + 2 - 1 = p + 1
    BY SMT
  <2> QED BY <1>2, <2>1, Zenon
<1>4. buf[p + 2] = w[3] /\ buf[p + 3] = w[4] /\ buf[p + 4] = w[5]
    BY <1>2, SMT
<1>5. TakeWord(buf, p + 1) = FourBytes(w[2], w[3], w[4], w[5])
    BY <1>3, <1>4, TakeWordIs, Zenon
<1>6. p <= Len(buf) /\ ~(p > Len(buf)) /\ ~(p + 4 > Len(buf)) /\ p + 4 + 1 = p + 5
    BY <1>1, SMT
<1> QED BY <1>3, <1>5, <1>6, Zenon DEF Plain

\* And of one and eight bytes.
LEMMA NineAreRead ==
    ASSUME NEW buf, Len(buf) \in Nat, NEW p \in Nat, NEW w, Len(w) = 9, Holds(buf, p, w),
           Following(w[1]) = 8,
           Value(buf, p, w[1]) = AsI64(TakeWord(buf, p + 1), TakeWord(buf, p + 5))
    PROVE  /\ Plain(buf, p) = [value |-> AsI64(FourBytes(w[2], w[3], w[4], w[5]),
                                               FourBytes(w[6], w[7], w[8], w[9])),
                               next |-> p + 9]
           /\ p <= Len(buf) /\ buf[p] = w[1]
<1>1. p + 8 <= Len(buf)
    BY SMT DEF Holds
<1>2. \A j \in 1..9 : buf[p + j - 1] = w[j]
    BY Zenon DEF Holds
<1>3. buf[p] = w[1] /\ buf[p + 1] = w[2]
  <2>1. 1 \in 1..9 /\ p + 1 - 1 = p /\ 2 \in 1..9 /\ p + 2 - 1 = p + 1
    BY SMT
  <2> QED BY <1>2, <2>1, Zenon
<1>4. buf[p + 2] = w[3] /\ buf[p + 3] = w[4] /\ buf[p + 4] = w[5]
    BY <1>2, SMT
<1>5. buf[p + 5] = w[6] /\ buf[p + 6] = w[7]
    BY <1>2, SMT
<1>6. buf[p + 7] = w[8] /\ buf[p + 8] = w[9]
    BY <1>2, SMT
<1>7. TakeWord(buf, p + 1) = FourBytes(w[2], w[3], w[4], w[5])
    BY <1>3, <1>4, TakeWordIs, Zenon
<1>8. TakeWord(buf, p + 5) = FourBytes(w[6], w[7], w[8], w[9])
  <2>1. /\ p + 4 \in Nat /\ (p + 4) + 1 = p + 5
        /\ (p + 4) + 2 = p + 6 /\ (p + 4) + 3 = p + 7 /\ (p + 4) + 4 = p + 8
    BY SMT
  <2>2. TakeWord(buf, (p + 4) + 1) =
           FourBytes(buf[(p + 4) + 1], buf[(p + 4) + 2], buf[(p + 4) + 3], buf[(p + 4) + 4])
    BY <2>1, TakeWordIs, Zenon
  <2> QED BY <1>5, <1>6, <2>1, <2>2, Zenon
<1>9. p <= Len(buf) /\ ~(p > Len(buf)) /\ ~(p + 8 > Len(buf)) /\ p + 8 + 1 = p + 9
    BY <1>1, SMT
<1> QED BY <1>3, <1>7, <1>8, <1>9, Zenon DEF Plain

\* Plain reads back what WriteVarint wrote, and no number that is written says
\* that it is the negative of another.
LEMMA PlainReads ==
    ASSUME NEW v \in Encodable, NEW buf \in Seq(Byte), NEW p \in Nat \ {0},
           Holds(buf, p, WriteVarint(v))
    PROVE  /\ Plain(buf, p) = [value |-> v, next |-> p + Len(WriteVarint(v))]
           /\ p <= Len(buf) /\ ~Negates(buf[p])
  <1>0. v \in Nat
    BY SMT DEF Encodable
  <1>1. CASE v < 128
    <2>1. WriteVarint(v) = <<v>>
      BY <1>1, <1>0, SMT DEF WriteVarint
    <2>2. p <= Len(buf) /\ buf[p] = v
      BY <2>1, SMT DEF Holds
    <2> QED BY <1>0, <1>1, <2>1, <2>2, SMT DEF Plain, Following, Value, Negates
  <1>2. CASE 128 <= v /\ v < 16384
    <2>1. WriteVarint(v) = <<128 + (v \div 256), v % 256>>
      BY <1>2, <1>0, SMT DEF WriteVarint
    <2>2. p + 1 <= Len(buf) /\ buf[p] = 128 + (v \div 256) /\ buf[p + 1] = v % 256
      BY <2>1, SMT DEF Holds
    <2>3. v \div 256 \in 0..63 /\ 256 * (v \div 256) + (v % 256) = v
      BY <1>0, <1>2, SMT
    <2>4. Following(buf[p]) = 1 /\ Value(buf, p, buf[p]) = v /\ ~Negates(buf[p])
      BY <1>0, <2>2, <2>3, SMT DEF Following, Value, Negates
    <2> QED BY <2>1, <2>2, <2>4, SMT DEF Plain
  <1>3. CASE 16384 <= v /\ v < 2097152
    <2>1. WriteVarint(v) = <<192 + (v \div 65536), (v \div 256) % 256, v % 256>>
      BY <1>3, <1>0, SMT DEF WriteVarint
    <2>2. /\ p + 2 <= Len(buf) /\ buf[p] = 192 + (v \div 65536)
          /\ buf[p + 1] = (v \div 256) % 256 /\ buf[p + 2] = v % 256
      BY <2>1, SMT DEF Holds
    <2>3. /\ v \div 65536 \in 0..31
          /\ 65536 * (v \div 65536) + 256 * ((v \div 256) % 256) + (v % 256) = v
      BY <1>0, <1>3, SMT
    <2>4. Following(buf[p]) = 2 /\ Value(buf, p, buf[p]) = v /\ ~Negates(buf[p])
      BY <1>0, <2>2, <2>3, SMT DEF Following, Value, Negates
    <2> QED BY <2>1, <2>2, <2>4, SMT DEF Plain
  <1>4. CASE 2097152 <= v /\ v < 268435456
    <2>1. WriteVarint(v) = <<224 + (v \div 16777216), (v \div 65536) % 256,
                             (v \div 256) % 256, v % 256>>
      BY <1>4, <1>0, SMT DEF WriteVarint
    <2>2. /\ p + 3 <= Len(buf) /\ buf[p] = 224 + (v \div 16777216)
          /\ buf[p + 1] = (v \div 65536) % 256
          /\ buf[p + 2] = (v \div 256) % 256 /\ buf[p + 3] = v % 256
      BY <2>1, SMT DEF Holds
    <2>3. /\ v \div 16777216 \in 0..15
          /\ 16777216 * (v \div 16777216) + 65536 * ((v \div 65536) % 256)
             + 256 * ((v \div 256) % 256) + (v % 256) = v
      BY <1>0, <1>4, SMT
    <2>4. Following(buf[p]) = 3 /\ Value(buf, p, buf[p]) = v /\ ~Negates(buf[p])
      BY <1>0, <2>2, <2>3, SMT DEF Following, Value, Negates
    <2> QED BY <2>1, <2>2, <2>4, SMT DEF Plain
  <1>5. CASE 268435456 <= v
    <2> DEFINE high == (v \div 65536) \div 65536
               low  == v % (65536 * 65536)
    <2>2. /\ high \in Nat /\ high < 32768 * 65536 /\ high < 65536 * 65536
          /\ low \in Nat /\ low < 65536 * 65536 /\ high * (65536 * 65536) + low = v
      BY Halves, SMT
    <2>1. WriteVarint(v) = Wide(v)
      BY <1>0, <1>5, WideIs, SMT
    <2> DEFINE w == WriteVarint(v)
    <2>4. p \in Nat /\ Len(buf) \in Nat /\ Holds(buf, p, w)
      OBVIOUS
    <2>5. CASE high = 0
      <3> DEFINE u == Word(v)
      <3>0. v < 65536 * 65536
        BY <1>0, <2>2, <2>5, SMT
      <3>1. FourBytes(u[1], u[2], u[3], u[4]) = v
        BY <1>0, <3>0, WordValue, SMT
      <3>2. w = <<240, u[1], u[2], u[3], u[4]>>
        BY <2>1, <2>5, SMT DEF Wide
      <3> HIDE DEF u, w, high, low
      <3>3. Len(w) = 5 /\ w[1] = 240 /\ w[2] = u[1] /\ w[3] = u[2] /\ w[4] = u[3] /\ w[5] = u[4]
        BY <3>2, SMT
      <3>4. /\ Following(w[1]) = 4 /\ ~Negates(w[1])
            /\ Value(buf, p, w[1]) = TakeWord(buf, p + 1)
        BY <3>3, Markers, SMT
      <3>5. FourBytes(w[2], w[3], w[4], w[5]) = v
        BY <3>1, <3>3, SMT
      <3>6. /\ Plain(buf, p) = [value |-> FourBytes(w[2], w[3], w[4], w[5]), next |-> p + 5]
            /\ p <= Len(buf) /\ buf[p] = w[1]
        <4>1. Len(w) = 5
          BY <3>3, SMT
        <4> QED BY <2>4, <3>4, <4>1, FiveAreRead, Zenon
      <3> QED BY <3>3, <3>4, <3>5, <3>6, SMT DEF w
    <2>6. CASE high # 0
      <3> DEFINE h == Word(high)
                 l == Word(low)
      <3>1. FourBytes(h[1], h[2], h[3], h[4]) = high
        <4> HIDE DEF high, low
        <4> QED BY <2>2, WordValue, SMT
      <3>2. FourBytes(l[1], l[2], l[3], l[4]) = low
        <4> HIDE DEF high, low
        <4> QED BY <2>2, WordValue, SMT
      <3>3. w = <<244, h[1], h[2], h[3], h[4], l[1], l[2], l[3], l[4]>>
        BY <2>1, <2>6, SMT DEF Wide
      <3> HIDE DEF h, l, w, high, low
      <3>4. /\ Len(w) = 9 /\ w[1] = 244
            /\ w[2] = h[1] /\ w[3] = h[2] /\ w[4] = h[3] /\ w[5] = h[4]
            /\ w[6] = l[1] /\ w[7] = l[2] /\ w[8] = l[3] /\ w[9] = l[4]
        BY <3>3, SMT
      <3>5. /\ Following(w[1]) = 8 /\ ~Negates(w[1])
            /\ Value(buf, p, w[1]) = AsI64(TakeWord(buf, p + 1), TakeWord(buf, p + 5))
        BY <3>4, Markers, SMT
      <3>6. /\ FourBytes(w[2], w[3], w[4], w[5]) = high
            /\ FourBytes(w[6], w[7], w[8], w[9]) = low
        BY <3>1, <3>2, <3>4, SMT
      <3>7. AsI64(high, low) = v
        BY <2>2, SMT DEF AsI64
      <3>8. /\ Plain(buf, p) = [value |-> AsI64(FourBytes(w[2], w[3], w[4], w[5]),
                                                FourBytes(w[6], w[7], w[8], w[9])),
                                next |-> p + 9]
            /\ p <= Len(buf) /\ buf[p] = w[1]
        <4>1. Len(w) = 9
          BY <3>4, SMT
        <4> QED BY <2>4, <3>5, <4>1, NineAreRead, Zenon
      <3> QED BY <3>4, <3>5, <3>6, <3>7, <3>8, SMT DEF w
    <2> QED BY <2>5, <2>6, SMT
  <1> QED BY <1>0, <1>1, <1>2, <1>3, <1>4, <1>5, SMT

\* A byte that does not negate ends the search for one that does not.
LEMMA MagnitudeHere ==
    ASSUME NEW buf \in Seq(Byte), NEW p \in Nat \ {0}, p <= Len(buf), ~Negates(buf[p])
    PROVE  Magnitude(buf, p) = p
  <1> DEFINE Ends(q) == /\ q = Len(buf) + 1 \/ ~Negates(buf[q])
                        /\ \A i \in p..(q - 1) : Negates(buf[i])
  <1>1. p \in p..(Len(buf) + 1) /\ Ends(p)
    BY SMT
  <1>2. \A q \in p..(Len(buf) + 1) : Ends(q) => q = p
    <2> SUFFICES ASSUME NEW q \in p..(Len(buf) + 1), Ends(q), q # p PROVE FALSE
      OBVIOUS
    <2>1. p \in p..(q - 1)
      BY SMT
    <2> QED BY <2>1
  <1>3. Magnitude(buf, p) = CHOOSE q \in p..(Len(buf) + 1) : Ends(q)
    BY DEF Magnitude
  <1> HIDE DEF Ends
  <1> QED BY <1>1, <1>2, <1>3

LEMMA ReadBack ==
    ASSUME NEW v \in Encodable, NEW buf \in Seq(Byte), NEW p \in Nat \ {0},
           Holds(buf, p, WriteVarint(v))
    PROVE  ReadVarint(buf, p) = [value |-> v, next |-> p + Len(WriteVarint(v))]
  <1> DEFINE read == [value |-> v, next |-> p + Len(WriteVarint(v))]
  <1>1. Plain(buf, p) = read /\ Magnitude(buf, p) = p
    BY PlainReads, MagnitudeHere
  <1>2. (p - p) % 2 = 0 /\ 1 * v = v
    BY SMT DEF Encodable
  <1>3. [read EXCEPT !.value = 1 * @] = read
    BY <1>2
  <1> QED BY <1>1, <1>2, <1>3 DEF ReadVarint

\* The middle of a buffer.
LEMMA Embedded ==
    ASSUME NEW before \in Seq(Byte), NEW w \in Seq(Byte), NEW after \in Seq(Byte)
    PROVE  /\ before \o w \o after \in Seq(Byte)
           /\ Holds(before \o w \o after, Len(before) + 1, w)
  <1>1. /\ before \o w \in Seq(Byte) /\ Len(before \o w) = Len(before) + Len(w)
        /\ \A i \in 1..Len(w) : (before \o w)[Len(before) + i] = w[i]
    BY SMT
  <1> DEFINE front == before \o w
  <1> HIDE DEF front
  <1>2. /\ front \o after \in Seq(Byte)
        /\ Len(front \o after) = Len(front) + Len(after)
        /\ \A i \in 1..Len(front) : (front \o after)[i] = front[i]
    <2>1. front \in Seq(Byte)
      BY <1>1 DEF front
    <2> QED BY <2>1, SMT
  <1>3. Len(before) \in Nat /\ Len(w) \in Nat /\ Len(after) \in Nat
    OBVIOUS
  <1>4. Len(front) = Len(before) + Len(w)
    BY <1>1 DEF front
  <1>5. ASSUME NEW i \in 1..Len(w)
        PROVE  (front \o after)[Len(before) + 1 + i - 1] = w[i]
    <2>1. Len(before) + 1 + i - 1 = Len(before) + i /\ Len(before) + i \in 1..Len(front)
      BY <1>3, <1>4, SMT
    <2>2. front[Len(before) + i] = w[i]
      BY <1>1 DEF front
    <2> QED BY <1>2, <2>1, <2>2
  <1>6. Len(before) + 1 + Len(w) - 1 <= Len(front \o after)
    BY <1>2, <1>3, <1>4, SMT
  <1> QED BY <1>2, <1>5, <1>6 DEF Holds, front

\* What is written is a sequence of bytes.
LEMMA WrittenBytes ==
    ASSUME NEW v \in Encodable
    PROVE  WriteVarint(v) \in Seq(Byte)
  <1>0. v \in Nat
    BY SMT DEF Encodable
  <1>1. CASE v < 128
    <2>1. WriteVarint(v) = <<v>> /\ v \in Byte
      BY <1>0, <1>1, SMT DEF WriteVarint, Byte
    <2> QED BY <2>1, SMT
  <1>2. CASE 128 <= v /\ v < 16384
    <2>1. /\ WriteVarint(v) = <<128 + (v \div 256), v % 256>>
          /\ 128 + (v \div 256) \in Byte /\ v % 256 \in Byte
      BY <1>0, <1>2, SMT DEF WriteVarint, Byte
    <2> QED BY <2>1, SMT
  <1>3. CASE 16384 <= v /\ v < 2097152
    <2>1. /\ WriteVarint(v) = <<192 + (v \div 65536), (v \div 256) % 256, v % 256>>
          /\ 192 + (v \div 65536) \in Byte /\ (v \div 256) % 256 \in Byte /\ v % 256 \in Byte
      BY <1>0, <1>3, SMT DEF WriteVarint, Byte
    <2> QED BY <2>1, SMT
  <1>4. CASE 2097152 <= v /\ v < 268435456
    <2>1. /\ WriteVarint(v) = <<224 + (v \div 16777216), (v \div 65536) % 256,
                                (v \div 256) % 256, v % 256>>
          /\ 224 + (v \div 16777216) \in Byte /\ (v \div 65536) % 256 \in Byte
          /\ (v \div 256) % 256 \in Byte /\ v % 256 \in Byte
      BY <1>0, <1>4, SMT DEF WriteVarint, Byte
    <2> QED BY <2>1, SMT
  <1>5. CASE 268435456 <= v
    <2> DEFINE high == (v \div 65536) \div 65536
               low  == v % (65536 * 65536)
               w == Word(v)   h == Word(high)   l == Word(low)
    <2>1. WriteVarint(v) = IF high = 0 THEN <<240, w[1], w[2], w[3], w[4]>>
             ELSE <<244, h[1], h[2], h[3], h[4], l[1], l[2], l[3], l[4]>>
      <3>1. WriteVarint(v) = Wide(v)
        BY <1>0, <1>5, WideIs, SMT
      <3> QED BY <3>1, SMT DEF Wide
    <2>2. /\ high \in Nat /\ high < 65536 * 65536 /\ low \in Nat /\ low < 65536 * 65536
          /\ high = 0 => v < 65536 * 65536
      <3>1. high \in Nat /\ low \in Nat /\ high < 32768 * 65536 /\ low < 65536 * 65536
            /\ high * (65536 * 65536) + low = v
        BY Halves, SMT
      <3> HIDE DEF high, low
      <3> QED BY <3>1, <1>0, SMT
    <2>3. /\ \A i \in 1..4 : h[i] \in Byte /\ l[i] \in Byte
          /\ high = 0 => \A i \in 1..4 : w[i] \in Byte
      <3> HIDE DEF high, low
      <3> QED BY <1>0, <2>2, WordValue, SMTT(30)
    <2> HIDE DEF w, h, l, high, low
    <2>4. 240 \in Byte /\ 244 \in Byte
      BY SMT DEF Byte
    <2> QED BY <2>1, <2>3, <2>4, SMTT(30)
  <1> QED BY <1>0, <1>1, <1>2, <1>3, <1>4, <1>5, SMT

\* Every number an i64 holds is read back from the middle of any buffer, and the
\* next read starts where it ends (write_varint and Reader::varint).
THEOREM VarintIsReadBack == VarintRoundTrips
  <1> SUFFICES ASSUME NEW v \in Numbers, NEW before \in Around, NEW after \in Around
               PROVE  ReadVarint(before \o WriteVarint(v) \o after, Len(before) + 1)
                        = [value |-> v, next |-> Len(before) + Len(WriteVarint(v)) + 1]
    BY DEF VarintRoundTrips
  <1>1. v \in Encodable /\ before \in Seq(Byte) /\ after \in Seq(Byte)
    BY VarintAssumption, SMT DEF Encodable
  <1> DEFINE w == WriteVarint(v)
             buf == before \o w \o after
  <1>2. w \in Seq(Byte)
    BY <1>1, WrittenBytes
  <1>3. buf \in Seq(Byte) /\ Holds(buf, Len(before) + 1, w)
    BY <1>1, <1>2, Embedded
  <1>4. Len(before) \in Nat /\ Len(w) \in Nat /\ Len(before) + 1 \in Nat \ {0}
    BY <1>1, <1>2, SMT
  <1>5. ReadVarint(buf, Len(before) + 1) = [value |-> v, next |-> Len(before) + 1 + Len(w)]
    BY <1>1, <1>3, <1>4, ReadBack
  <1> HIDE DEF w, buf
  <1>6. Len(before) + 1 + Len(w) = Len(before) + Len(w) + 1
    BY <1>4, SMT
  <1> QED BY <1>5, <1>6 DEF w, buf

-------------------------------------------------------------------------------
\* What is appended is there, and what was there still is.
LEMMA HoldsAppended ==
    ASSUME NEW buf \in Seq(Byte), NEW w \in Seq(Byte)
    PROVE  /\ buf \o w \in Seq(Byte) /\ Len(buf \o w) = Len(buf) + Len(w)
           /\ Holds(buf \o w, Len(buf) + 1, w)
           /\ \A p \in Nat \ {0}, v \in Seq(Byte) : Holds(buf, p, v) => Holds(buf \o w, p, v)
  <1> DEFINE both == buf \o w
  <1>1. /\ both \in Seq(Byte) /\ Len(both) = Len(buf) + Len(w)
        /\ Len(buf) \in Nat /\ Len(w) \in Nat
        /\ \A i \in 1..Len(buf) + Len(w) :
              both[i] = IF i <= Len(buf) THEN buf[i] ELSE w[i - Len(buf)]
    BY ConcatProperties
  <1> HIDE DEF both
  <1>2. Holds(both, Len(buf) + 1, w)
    <2>1. \A i \in 1..Len(w) : /\ Len(buf) + 1 + i - 1 \in 1..Len(buf) + Len(w)
                               /\ ~(Len(buf) + 1 + i - 1 <= Len(buf))
                               /\ Len(buf) + 1 + i - 1 - Len(buf) = i
      BY <1>1, SMT
    <2>2. Len(buf) + 1 + Len(w) - 1 <= Len(both)
      BY <1>1, SMT
    <2> QED BY <1>1, <2>1, <2>2 DEF Holds
  <1>3. ASSUME NEW p \in Nat \ {0}, NEW v \in Seq(Byte), Holds(buf, p, v)
        PROVE  Holds(both, p, v)
    <2>1. Len(v) \in Nat /\ p + Len(v) - 1 <= Len(buf)
          /\ \A i \in 1..Len(v) : buf[p + i - 1] = v[i]
      BY <1>3 DEF Holds
    <2>2. /\ p + Len(v) - 1 <= Len(both)
          /\ \A i \in 1..Len(v) : /\ p + i - 1 \in 1..Len(buf) + Len(w)
                                  /\ p + i - 1 <= Len(buf)
      BY <1>1, <2>1, SMT
    <2> QED BY <1>1, <2>1, <2>2 DEF Holds
  <1> QED BY <1>1, <1>2, <1>3 DEF both

\* A number of 32 bits is one of an i64, and is what is left of it in a u32.
LEMMA Word32 ==
    ASSUME NEW v \in Nat, v \div 65536 < 65536
    PROVE  v \in Encodable /\ AsU32(v) = v
  <1>1. v < 65536 * 65536
    BY SMT
  <1>2. ((v \div 65536) \div 65536) \div 65536 < 32768
    BY <1>1, SMT
  <1>3. ((v \div 65536) % 65536) * 65536 + (v % 65536) = v
    BY <1>1, SMT
  <1> QED BY <1>2, <1>3 DEF Encodable, AsU32

\* The length of a frame has thirteen bits, and one above them.
LEMMA FrameLength ==
    ASSUME NEW n \in Nat, n < 8192, NEW coded \in {n, n + 8192}
    PROVE  coded \in Encodable /\ coded % 8192 = n
  <1>1. coded \in Nat /\ coded \div 65536 < 65536 /\ coded % 8192 = n
    BY SMT
  <1> QED BY <1>1, Word32

\* A voice packet is taken apart as it was put together (parse_voice).
LEMMA PacketParses ==
    ASSUME NEW session \in Nat, session \div 65536 < 65536, NEW sequence \in Encodable,
           NEW last \in BOOLEAN, NEW voice \in Seq(Byte), Len(voice) < 8192
    PROVE  ParseVoice(Packet(session, sequence, last, voice))
             = [session |-> session, size |-> Len(voice),
                start |-> Len(Packet(session, sequence, last, voice)) - Len(voice) + 1]
  <1> DEFINE n  == Len(voice) + (IF last THEN 8192 ELSE 0)
             w1 == WriteVarint(session)
             w2 == WriteVarint(sequence)
             w3 == WriteVarint(n)
             d0 == <<32 * OPUS>>
             d1 == d0 \o w1
             d2 == d1 \o w2
             d3 == d2 \o w3
             d4 == d3 \o voice
  <1>1. session \in Encodable /\ AsU32(session) = session
    BY Word32
  <1>2. n \in Encodable /\ n % 8192 = Len(voice) /\ Len(voice) \in Nat
    <2>1. Len(voice) \in Nat
      OBVIOUS
    <2>2. n \in {Len(voice), Len(voice) + 8192}
      BY <2>1
    <2> HIDE DEF n
    <2> QED BY <2>1, <2>2, FrameLength
  <1>3. w1 \in Seq(Byte) /\ w2 \in Seq(Byte) /\ w3 \in Seq(Byte)
    <2>1. w1 \in Seq(Byte)
      BY <1>1, WrittenBytes
    <2>2. w2 \in Seq(Byte)
      BY WrittenBytes
    <2>3. w3 \in Seq(Byte)
      <3> HIDE DEF n
      <3> QED BY <1>2, WrittenBytes
    <2> QED BY <2>1, <2>2, <2>3
  <1>4. d0 \in Seq(Byte) /\ Len(d0) = 1 /\ d0[1] \div 32 = OPUS /\ Holds(d0, 1, d0)
    <2>1. 128 \in Byte /\ 32 * OPUS = 128 /\ 128 \div 32 = OPUS
      BY SMT DEF Byte, OPUS
    <2>2. d0 \in Seq(Byte) /\ Len(d0) = 1 /\ d0[1] = 128
      BY <2>1
    <2>3. 1 + 1 - 1 <= 1 /\ \A i \in 1..1 : 1 + i - 1 = i
      BY SMT
    <2> QED BY <2>1, <2>2, <2>3 DEF Holds
  <1>5. Packet(session, sequence, last, voice) = d4
    BY DEF Packet
  <1> HIDE DEF n, w1, w2, w3, d0, d1, d2, d3, d4
  <1> DEFINE p2 == 2 + Len(w1)
             p3 == p2 + Len(w2)
             p4 == p3 + Len(w3)
  <1>6. /\ Len(w1) \in Nat /\ Len(w2) \in Nat /\ Len(w3) \in Nat
        /\ 2 \in Nat \ {0} /\ p2 \in Nat \ {0} /\ p3 \in Nat \ {0} /\ p4 \in Nat \ {0}
    BY <1>3, SMT
  <1>7. /\ d1 \in Seq(Byte) /\ Len(d1) = p2 - 1
        /\ Holds(d1, 1, d0) /\ Holds(d1, 2, w1)
    <2>1. 1 + 1 = 2 /\ 1 + Len(w1) = p2 - 1 /\ 1 \in Nat \ {0}
      BY <1>6, SMT
    <2>2. /\ d1 \in Seq(Byte) /\ Len(d1) = Len(d0) + Len(w1)
          /\ Holds(d1, Len(d0) + 1, w1)
          /\ \A p \in Nat \ {0}, v \in Seq(Byte) : Holds(d0, p, v) => Holds(d1, p, v)
      <3>1. d0 \in Seq(Byte) /\ w1 \in Seq(Byte)
        BY <1>3, <1>4
      <3> QED BY <3>1, HoldsAppended DEF d1
    <2> HIDE DEF p2
    <2> QED BY <1>4, <2>1, <2>2
  <1>8. /\ d2 \in Seq(Byte) /\ Len(d2) = p3 - 1
        /\ Holds(d2, 1, d0) /\ Holds(d2, 2, w1) /\ Holds(d2, p2, w2)
    <2>1. p2 - 1 + 1 = p2 /\ p2 - 1 + Len(w2) = p3 - 1 /\ 1 \in Nat \ {0}
      BY <1>6, SMT
    <2>2. /\ d2 \in Seq(Byte) /\ Len(d2) = Len(d1) + Len(w2)
          /\ Holds(d2, Len(d1) + 1, w2)
          /\ \A p \in Nat \ {0}, v \in Seq(Byte) : Holds(d1, p, v) => Holds(d2, p, v)
      <3>1. d1 \in Seq(Byte) /\ w2 \in Seq(Byte)
        BY <1>3, <1>7
      <3> QED BY <3>1, HoldsAppended DEF d2
    <2> HIDE DEF p2, p3
    <2> QED BY <1>3, <1>4, <1>6, <1>7, <2>1, <2>2
  <1>9. /\ d3 \in Seq(Byte) /\ Len(d3) = p4 - 1
        /\ Holds(d3, 1, d0) /\ Holds(d3, 2, w1) /\ Holds(d3, p2, w2) /\ Holds(d3, p3, w3)
    <2>1. p3 - 1 + 1 = p3 /\ p3 - 1 + Len(w3) = p4 - 1 /\ 1 \in Nat \ {0}
      BY <1>6, SMT
    <2>2. /\ d3 \in Seq(Byte) /\ Len(d3) = Len(d2) + Len(w3)
          /\ Holds(d3, Len(d2) + 1, w3)
          /\ \A p \in Nat \ {0}, v \in Seq(Byte) : Holds(d2, p, v) => Holds(d3, p, v)
      <3>1. d2 \in Seq(Byte) /\ w3 \in Seq(Byte)
        BY <1>3, <1>8
      <3> QED BY <3>1, HoldsAppended DEF d3
    <2> HIDE DEF p2, p3, p4
    <2> QED BY <1>3, <1>4, <1>6, <1>8, <2>1, <2>2
  <1>10. /\ d4 \in Seq(Byte) /\ Len(d4) = p4 - 1 + Len(voice)
         /\ Holds(d4, 1, d0) /\ Holds(d4, 2, w1) /\ Holds(d4, p2, w2) /\ Holds(d4, p3, w3)
    <2>1. 1 \in Nat \ {0}
      OBVIOUS
    <2>2. /\ d4 \in Seq(Byte) /\ Len(d4) = Len(d3) + Len(voice)
          /\ \A p \in Nat \ {0}, v \in Seq(Byte) : Holds(d3, p, v) => Holds(d4, p, v)
      <3>1. d3 \in Seq(Byte)
        BY <1>9
      <3> QED BY <3>1, HoldsAppended DEF d4
    <2> HIDE DEF p2, p3, p4
    <2> QED BY <1>3, <1>4, <1>6, <1>9, <2>1, <2>2
  <1>11. /\ ReadVarint(d4, 2) = [value |-> session, next |-> p2]
         /\ ReadVarint(d4, p2) = [value |-> sequence, next |-> p3]
         /\ ReadVarint(d4, p3) = [value |-> n, next |-> p4]
    <2> HIDE DEF p2, p3, p4
    <2>1. ReadVarint(d4, 2) = [value |-> session, next |-> 2 + Len(w1)]
      BY <1>1, <1>6, <1>10, ReadBack DEF w1
    <2>2. ReadVarint(d4, p2) = [value |-> sequence, next |-> p2 + Len(w2)]
      BY <1>6, <1>10, ReadBack DEF w2
    <2>3. ReadVarint(d4, p3) = [value |-> n, next |-> p3 + Len(w3)]
      BY <1>2, <1>6, <1>10, ReadBack DEF w3
    <2> QED BY <2>1, <2>2, <2>3 DEF p2, p3, p4
  <1>12. d4[1] \div 32 = OPUS
    <2>1. 1 \in 1..Len(d0) /\ 1 + 1 - 1 = 1
      BY <1>4
    <2>2. d4[1] = d0[1]
      BY <1>10, <2>1 DEF Holds
    <2> QED BY <1>4, <2>2
  <1>13. Len(d4) \in Nat /\ Len(d4) >= 1 /\ d4 # <<>>
    BY <1>2, <1>6, <1>10
  <1>14. Fits(d4, p4, Len(voice)) /\ Len(d4) - Len(voice) + 1 = p4
    BY <1>2, <1>6, <1>10, SMT DEF Fits
  <1>15. /\ [value |-> session, next |-> p2] # None /\ [value |-> sequence, next |-> p3] # None
         /\ [value |-> n, next |-> p4] # None
    <2>1. session \in Int /\ sequence \in Int /\ n \in Int
      BY <1>2 DEF Encodable
    <2>2. p2 \in Nat /\ p3 \in Nat /\ p4 \in Nat
      BY <1>6
    <2> HIDE DEF p2, p3, p4
    <2> QED BY <2>1, <2>2, VarintAssumption
  <1> HIDE DEF p2, p3, p4
  <1>16. ParseVoice(d4) = [session |-> session, start |-> p4, size |-> Len(voice)]
    BY <1>1, <1>2, <1>11, <1>12, <1>13, <1>14, <1>15 DEF ParseVoice
  <1> QED BY <1>5, <1>14, <1>16

-------------------------------------------------------------------------------
(***************************************************************************)
(* The tap itself.                                                         *)
(***************************************************************************)

Piece == Message \X {1, 2, "body"}

ConnectionTypes ==
    /\ link \in {"up", "ended", "away"} /\ aside \in {"none", "open", "closed"}
    /\ wire \in Seq(Piece) /\ header \in Seq(Piece) /\ Len(header) <= 2
    /\ body \in Message \cup {None}

ChannelTypes ==
    /\ me \in BOOLEAN /\ announced \subseteq Chan /\ hearing \subseteq Chan
    /\ known_channels \subseteq Chan /\ listening \subseteq Chan /\ owed \subseteq Chan
    /\ out \in Seq(SUBSET Chan) /\ Len(out) <= OUT

RosterTypes ==
    /\ users \in [Session -> Name \cup {None}] /\ present \in [Session -> Name \cup {None}]
    /\ talkers \in [Session -> Player \cup {None}]
    /\ session_to_client \in [Session -> Player \cup {None}]
    /\ client_to_session \in [Player -> Session \cup {None}]

TapTypes == ConnectionTypes /\ ChannelTypes /\ RosterTypes

\* A body is read after its header, and a connection that is over holds neither.
OneAtATime ==
    /\ body # None => header = <<>>
    /\ link # "up" => header = <<>> /\ body = None /\ owed = {} /\ out = <<>>

\* What is in hand of the message that comes next, and the i-th piece not yet
\* handled.
InHand == IF body = None THEN header ELSE <<<<body, 1>>, <<body, 2>>>>

Pending(i) == IF i <= Len(InHand) THEN InHand[i] ELSE wire[i - Len(InHand)]

\* The pieces not yet handled are those of the messages q.
Carries(q) ==
    /\ Len(InHand) + Len(wire) = 3 * Len(q)
    /\ \A j \in 1..Len(q) : /\ Pending(3 * j - 2) = <<q[j], 1>>
                            /\ Pending(3 * j - 1) = <<q[j], 2>>
                            /\ Pending(3 * j) = <<q[j], "body">>

OfUser(m, s) == m.type \in {"USER_STATE", "USER_REMOVE"} /\ m.session = s

\* What a message leaves of its user.
Says(m) == IF m.type = "USER_STATE" THEN m.name ELSE None

\* Before the j-th of the messages q the last thing said of a session is name.
LastSaid(q, s, j, name) ==
    \/ users[s] = name /\ \A i \in 1..(j - 1) : ~OfUser(q[i], s)
    \/ \E i \in 1..(j - 1) :
          /\ OfUser(q[i], s) /\ Says(q[i]) = name
          /\ \A k \in (i + 1)..(j - 1) : ~OfUser(q[k], s)

\* A user is announced on a session nobody is on, and is there once all is handled.
Told(q) ==
    \A s \in Session :
        /\ LastSaid(q, s, Len(q) + 1, present[s])
        /\ \A j \in 1..Len(q) :
              q[j].type = "USER_STATE" /\ q[j].session = s => LastSaid(q, s, j, None)

Stream == link = "up" => \E q \in Seq(Message) : Carries(q) /\ Told(q)

\* The router has the users of the connection, and places each on their session.
Roster ==
    /\ link = "up" => \A s \in Session :
          session_to_client[s] = IF users[s] \in Player THEN users[s] ELSE None
    /\ link = "away" => session_to_client = Nobody
    /\ link # "ended" => \A p \in Player :
          client_to_session[p] # None => session_to_client[client_to_session[p]] = p

TapInv == TapTypes /\ OneAtATime /\ Stream /\ Roster /\ ChainIsTheirs

-------------------------------------------------------------------------------
\* What a message of each type carries.
LEMMA MessageParts ==
    ASSUME NEW m \in Message
    PROVE  /\ m.type = "CHANNEL_STATE" => m.channel \in Chan
           /\ m.type = "USER_STATE" => m.session \in Session /\ m.name \in Name
           /\ m.type \in {"USER_REMOVE", "UDP_TUNNEL"} => m.session \in Session
           /\ m # None
BY TapAssumption DEF Message


\* The server sends a message, and what it has announced follows.
Sent(m) ==
    /\ link = "up" /\ wire' = wire \o Pieces(m)
    /\ announced' \subseteq Chan
    /\ present' = [s \in Session |-> IF OfUser(m, s) THEN Says(m) ELSE present[s]]
    /\ m.type = "USER_STATE" => present[m.session] = None
    /\ UNCHANGED <<hearing, aside, link, header, body, me, known_channels, listening,
                   users, talkers, owed, out, session_to_client, client_to_session>>

\* Whatever the far end says is a message of this kind.
LEMMA FarEndSends ==
    ASSUME TapTypes, FarEndActs, ~ConnectionLost, ~ServerCloses
    PROVE  \E m \in Message : Sent(m)
<1> USE DEF TapTypes, ChannelTypes, RosterTypes, OfUser, Says, Sent
<1> DEFINE quiet == UNCHANGED <<hearing, aside, link, header, body, me, known_channels,
              listening, users, talkers, owed, out, session_to_client, client_to_session>>
<1>1. ASSUME NEW m, Send(m) PROVE link = "up" /\ wire' = wire \o Pieces(m) /\ quiet
    BY <1>1 DEF Send, reader, locals, lists, asking, bound
<1> HIDE DEF quiet
<1>2. ASSUME NEW c \in Chan, Announces(c) PROVE \E m \in Message : Sent(m)
  <2> DEFINE m == [type |-> "CHANNEL_STATE", channel |-> c]
  <2>1. m \in Message /\ m.type = "CHANNEL_STATE"
      BY DEF Message
  <2>2. Send(m) /\ announced' \subseteq Chan /\ present' = present
      BY <1>2 DEF Announces
  <2> HIDE DEF m
  <2>3. Sent(m)
      BY <1>1, <2>1, <2>2 DEF quiet
  <2> QED BY <2>1, <2>3
<1>3. ASSUME NEW s \in Session, NEW name \in Name, Joins(s, name)
      PROVE  \E m \in Message : Sent(m)
  <2> DEFINE m == [type |-> "USER_STATE", session |-> s, name |-> name]
  <2>1. m \in Message /\ m.type = "USER_STATE" /\ m.session = s /\ m.name = name
      BY DEF Message
  <2>2. /\ Send(m) /\ announced' = announced /\ present[s] = None
        /\ present' = [present EXCEPT ![s] = name]
      BY <1>3 DEF Joins
  <2> HIDE DEF m
  <2>3. Sent(m)
      BY <1>1, <2>1, <2>2 DEF quiet
  <2> QED BY <2>1, <2>3
<1>4. ASSUME NEW s \in Session, Departs(s) PROVE \E m \in Message : Sent(m)
  <2> DEFINE m == [type |-> "USER_REMOVE", session |-> s]
  <2>1. m \in Message /\ m.type = "USER_REMOVE" /\ m.session = s
      BY DEF Message
  <2>2. /\ Send(m) /\ announced' = announced
        /\ present' = [present EXCEPT ![s] = None]
      BY <1>4 DEF Departs
  <2> HIDE DEF m
  <2>3. Sent(m)
      BY <1>1, <2>1, <2>2 DEF quiet
  <2> QED BY <2>1, <2>3
<1>5. ASSUME NEW s \in Session, Speaks(s) PROVE \E m \in Message : Sent(m)
  <2> DEFINE m == [type |-> "UDP_TUNNEL", session |-> s]
  <2>1. m \in Message /\ m.type = "UDP_TUNNEL"
      BY DEF Message
  <2>2. Send(m) /\ announced' = announced /\ present' = present
      BY <1>5 DEF Speaks
  <2> HIDE DEF m
  <2>3. Sent(m)
      BY <1>1, <2>1, <2>2 DEF quiet
  <2> QED BY <2>1, <2>3
<1>6. ASSUME NEW type \in {"SERVER_SYNC", "REJECT", "OVERSIZED"}, Send([type |-> type]),
             UNCHANGED <<announced, present>>
      PROVE  \E m \in Message : Sent(m)
  <2> DEFINE m == [type |-> type]
  <2>1. m \in Message /\ m.type = type /\ m.type \notin {"USER_STATE", "USER_REMOVE"}
      BY DEF Message
  <2>2. Send(m)
      BY <1>6
  <2> HIDE DEF m
  <2>3. Sent(m)
      BY <1>1, <1>6, <2>1, <2>2 DEF quiet
  <2> QED BY <2>1, <2>3
<1>7. Welcomes \/ Refuses("REJECT") \/ Refuses("OVERSIZED") => \E m \in Message : Sent(m)
    BY <1>6 DEF Welcomes, Refuses
<1> HIDE DEF Sent
<1> QED BY <1>2, <1>3, <1>4, <1>5, <1>7 DEF FarEndActs

-------------------------------------------------------------------------------
\* What a handler reads is the message whose header was taken before it.
LEMMA HandlerReads ==
    ASSUME ConnectionTypes, NEW type, Got(type)
    PROVE  /\ link = "up" /\ body \in Message /\ body.type = type
           /\ wire # <<>> /\ wire' = Tail(wire) /\ wire' \in Seq(Piece)
BY DEF ConnectionTypes, Got

\* The first piece of a message is with it.
LEMMA PieceParts ==
    ASSUME NEW x \in Piece
    PROVE  x[1] \in Message
BY DEF Piece

LEMMA PiecesOf ==
    ASSUME NEW m \in Message
    PROVE  /\ Pieces(m) \in Seq(Piece) /\ Len(Pieces(m)) = 3
           /\ Pieces(m)[1] = <<m, 1>> /\ Pieces(m)[2] = <<m, 2>>
           /\ Pieces(m)[3] = <<m, "body">>
<1> DEFINE head == [i \in 1..HEADER |-> <<m, i>>]
<1>1. head \in Seq(Piece) /\ Len(head) = 2 /\ head[1] = <<m, 1>> /\ head[2] = <<m, 2>>
    BY DEF HEADER, Piece
<1>2. <<m, "body">> \in Piece
    BY DEF Piece
<1> DEFINE last == <<<<m, "body">>>>
<1>3. last \in Seq(Piece) /\ Len(last) = 1 /\ last[1] = <<m, "body">>
    BY <1>2
<1>4. Pieces(m) = head \o last
    BY DEF Pieces
<1> HIDE DEF head, last
<1>5. /\ head \o last \in Seq(Piece) /\ Len(head \o last) = Len(head) + Len(last)
      /\ \A i \in 1..Len(head) + Len(last) :
            (head \o last)[i] = IF i <= Len(head) THEN head[i] ELSE last[i - Len(head)]
    BY <1>1, <1>3, ConcatProperties, Zenon
<1> QED BY <1>1, <1>3, <1>4, <1>5, SMT

\* A read takes what the header lacks, and leaves the rest.
LEMMA ReadTakes ==
    ASSUME ConnectionTypes, NEW n \in 1..HEADER, ReadHeader(n)
    PROVE  /\ body = None /\ link = "up" /\ body' = None
           /\ header' \in Seq(Piece) /\ wire' \in Seq(Piece)
           /\ Len(header') = Len(header) + n /\ Len(header') <= 2
           /\ Len(wire') = Len(wire) - n
           /\ \A i \in 1..Len(header') :
                 header'[i] = IF i <= Len(header) THEN header[i] ELSE wire[i - Len(header)]
           /\ \A i \in 1..Len(wire') : wire'[i] = wire[i + n]
<1> DEFINE first == SubSeq(wire, 1, n)
           rest  == SubSeq(wire, n + 1, Len(wire))
<1>1. /\ wire \in Seq(Piece) /\ header \in Seq(Piece) /\ n \in Nat /\ n >= 1
      /\ n <= Len(wire) /\ Len(header) + n <= 2
      /\ header' = header \o first /\ wire' = rest
    BY DEF ConnectionTypes, ReadHeader, HEADER
<1>2. first \in Seq(Piece) /\ Len(first) = n /\ \A i \in 1..n : first[i] = wire[i]
    BY <1>1
<1>3. rest \in Seq(Piece) /\ Len(rest) = Len(wire) - n
      /\ \A i \in 1..Len(rest) : rest[i] = wire[i + n]
    BY <1>1
<1>4. body = None /\ link = "up" /\ body' = None
    BY DEF ReadHeader, Selecting
<1> HIDE DEF first, rest
<1> QED BY <1>1, <1>2, <1>3, <1>4

LEMMA ConnectionTyped ==
    ASSUME TapTypes, [Next]_tapvars
    PROVE  ConnectionTypes'
<1> USE DEF TapTypes, ConnectionTypes
<1>1. ASSUME NEW m \in Message, Sent(m) PROVE ConnectionTypes'
    BY <1>1, PiecesOf DEF Sent
<1>2. ASSUME NEW n \in 1..HEADER, ReadHeader(n) PROVE ConnectionTypes'
    BY <1>2, ReadTakes DEF ReadHeader
<1>3. CASE Sweep
    BY <1>3 DEF Sweep, Kept, farEnd
<1>4. CASE TakeBody
  <2>1. Len(header) = 2 /\ header' = <<>> /\ body' = header[1][1]
        /\ UNCHANGED <<link, aside, wire>>
      BY <1>4 DEF TakeBody, HEADER, farEnd
  <2>2. header[1] \in Piece
    <3> HIDE DEF ConnectionTypes
    <3>1. header \in Seq(Piece)
        BY DEF ConnectionTypes
    <3> QED BY <2>1, <3>1, SMT
  <2> QED BY <2>1, <2>2, PieceParts
<1>5. CASE TooLong
    BY <1>5 DEF TooLong, GivenUp, Ended, farEnd
<1>6. CASE ServerSync
    BY <1>6, HandlerReads DEF ServerSync, Done, FarEndWaits
<1>7. CASE ChannelState
    BY <1>7, HandlerReads DEF ChannelState, Done, FarEndWaits
<1>8. CASE UserState
    BY <1>8, HandlerReads DEF UserState, Done, FarEndWaits
<1>9. CASE UserRemove
    BY <1>9, HandlerReads DEF UserRemove, Done, FarEndWaits
<1>10. CASE Voice
    BY <1>10, HandlerReads DEF Voice, Done, FarEndWaits
<1>11. CASE Reject
    BY <1>11, HandlerReads DEF Reject, GivenUp, Ended
<1>12. CASE Ask \/ Keepalive \/ Write
    BY <1>12 DEF Ask, Keepalive, Write, farEnd, reader
<1>13. CASE ConnectionLost
    BY <1>13 DEF ConnectionLost, Ended, farEnd
<1>14. CASE Drop
    BY <1>14 DEF Drop, farEnd
<1>15. CASE Redial
    BY <1>15 DEF Redial
<1>16. CASE ServerCloses \/ PingFails
    BY <1>16 DEF ServerCloses, PingFails, farEnd, reader
<1>17. CASE UNCHANGED tapvars
    BY <1>17 DEF tapvars, farEnd, reader
<1> HIDE DEF TapTypes, ConnectionTypes
<1> QED
    BY FarEndSends, <1>1, <1>2, <1>3, <1>4, <1>5, <1>6, <1>7, <1>8, <1>9, <1>10, <1>11,
       <1>12, <1>13, <1>14, <1>15, <1>16, <1>17 DEF Next, Read, FarEndActs

LEMMA ChannelsTyped ==
    ASSUME TapTypes, [Next]_tapvars
    PROVE  ChannelTypes'
<1> USE TapAssumption DEF ChannelTypes
<1>1. ASSUME NEW m \in Message, Sent(m) PROVE ChannelTypes'
    BY <1>1 DEF Sent, TapTypes
<1>2. CASE TakeBody \/ Sweep \/ \E n \in 1..HEADER : ReadHeader(n)
    BY <1>2 DEF TakeBody, Sweep, ReadHeader, farEnd, locals, lists, asking, TapTypes
<1>3. CASE TooLong \/ ConnectionLost
  <2>1. owed' = {} /\ out' = <<>>
        /\ UNCHANGED <<me, announced, hearing, known_channels, listening>>
      BY <1>3 DEF TooLong, ConnectionLost, GivenUp, Ended, farEnd, locals, lists
  <2> QED BY <2>1 DEF TapTypes
<1>4. CASE ServerSync
    BY <1>4 DEF ServerSync, PendingChannels, FarEndWaits, TapTypes
<1>5. CASE ChannelState
    BY <1>5, HandlerReads, MessageParts DEF ChannelState, FarEndWaits, TapTypes
<1>6. CASE UserState \/ UserRemove \/ Voice
    BY <1>6 DEF UserState, UserRemove, Voice, FarEndWaits, lists, asking, TapTypes
<1>7. CASE Reject
    BY <1>7 DEF Reject, GivenUp, Ended, locals, lists, TapTypes
<1>8. CASE Ask
    BY <1>8 DEF Ask, Room, farEnd, locals, lists, TapTypes
<1>9. CASE Keepalive
    BY <1>9 DEF Keepalive, Room, farEnd, locals, lists, TapTypes
<1>10. CASE Write
    BY <1>10 DEF Write, locals, lists, TapTypes
<1>11. CASE Drop
    BY <1>11 DEF Drop, farEnd, locals, lists, asking, TapTypes
<1>12. CASE Redial
  <2>1. /\ me' = FALSE /\ announced' = {} /\ hearing' = {}
        /\ known_channels' = {} /\ listening' = {} /\ owed' = owed /\ out' = out
      BY <1>12 DEF Redial, asking
  <2>2. me' \in BOOLEAN
    <3>1. me' = FALSE
        BY <1>12 DEF Redial
    <3> QED BY ONLY <3>1
  <2>3. owed \subseteq Chan /\ out \in Seq(SUBSET Chan) /\ Len(out) <= OUT
      BY DEF TapTypes
  <2> QED BY <2>1, <2>2, <2>3
<1>13. CASE ServerCloses \/ PingFails
    BY <1>13 DEF ServerCloses, PingFails, farEnd, locals, lists, asking, TapTypes
<1>14. CASE UNCHANGED tapvars
    BY <1>14 DEF tapvars, farEnd, locals, lists, asking, TapTypes
<1> HIDE DEF ChannelTypes
<1> QED
    BY FarEndSends, <1>1, <1>2, <1>3, <1>4, <1>5, <1>6, <1>7, <1>8, <1>9, <1>10, <1>11,
       <1>12, <1>13, <1>14 DEF Next, Read, FarEndActs

LEMMA RosterTyped ==
    ASSUME TapTypes, [Next]_tapvars
    PROVE  RosterTypes'
<1> USE DEF RosterTypes
<1>1. ASSUME NEW m \in Message, Sent(m) PROVE RosterTypes'
    BY <1>1, MessageParts DEF Sent, OfUser, Says, TapTypes
<1>2. CASE TakeBody \/ Sweep \/ \E n \in 1..HEADER : ReadHeader(n)
    BY <1>2 DEF TakeBody, Sweep, ReadHeader, farEnd, locals, bound, TapTypes
<1>3. CASE TooLong \/ ConnectionLost
    BY <1>3 DEF TooLong, ConnectionLost, GivenUp, farEnd, locals, bound, TapTypes
<1>4. CASE ServerSync \/ ChannelState
    BY <1>4 DEF ServerSync, ChannelState, FarEndWaits, bound, TapTypes
<1>5. CASE UserState
    BY <1>5, HandlerReads, MessageParts DEF UserState, FarEndWaits, bound, TapTypes
<1>6. CASE UserRemove
    BY <1>6, HandlerReads, MessageParts DEF UserRemove, ChainDropped, FarEndWaits, TapTypes
<1>7. CASE Voice
    BY <1>7, HandlerReads, MessageParts DEF Voice, FarEndWaits, bound, TapTypes
<1>8. CASE Reject
    BY <1>8 DEF Reject, locals, bound, TapTypes
<1>9. CASE Ask \/ Keepalive \/ Write
    BY <1>9 DEF Ask, Keepalive, Write, farEnd, locals, bound, TapTypes
<1>10. CASE Drop
    BY <1>10 DEF Drop, RoutesDropped, Nobody, farEnd, locals, TapTypes
<1>11. CASE Redial
    BY <1>11 DEF Redial, Nobody, bound, TapTypes
<1>12. CASE ServerCloses \/ PingFails
    BY <1>12 DEF ServerCloses, PingFails, farEnd, locals, bound, TapTypes
<1>13. CASE UNCHANGED tapvars
    BY <1>13 DEF tapvars, farEnd, locals, bound, TapTypes
<1> HIDE DEF RosterTypes
<1> QED
    BY FarEndSends, <1>1, <1>2, <1>3, <1>4, <1>5, <1>6, <1>7, <1>8, <1>9, <1>10, <1>11,
       <1>12, <1>13 DEF Next, Read, FarEndActs

-------------------------------------------------------------------------------
\* A message is read when its header is, and nothing when the connection is over.
LEMMA OneAtATimeKept ==
    ASSUME TapTypes, OneAtATime, [Next]_tapvars
    PROVE  OneAtATime'
<1> USE DEF OneAtATime
<1>1. ASSUME NEW m \in Message, Sent(m) PROVE OneAtATime'
    BY <1>1 DEF Sent
<1>2. CASE Sweep \/ \E n \in 1..HEADER : ReadHeader(n)
    BY <1>2 DEF Sweep, ReadHeader, Selecting, Kept, asking
<1>3. CASE TakeBody
    BY <1>3 DEF TakeBody, Selecting, asking
<1>4. CASE TooLong \/ ConnectionLost \/ Reject
    BY <1>4 DEF TooLong, ConnectionLost, Reject, GivenUp, Ended
<1>5. CASE ServerSync \/ ChannelState \/ UserState \/ UserRemove \/ Voice
    BY <1>5 DEF ServerSync, ChannelState, UserState, UserRemove, Voice, Got, Done
<1>6. CASE Ask \/ Keepalive \/ Write
    BY <1>6 DEF Ask, Keepalive, Write, reader
<1>7. CASE Drop \/ Redial
    BY <1>7 DEF Drop, Redial, asking
<1>8. CASE ServerCloses \/ PingFails
    BY <1>8 DEF ServerCloses, PingFails, reader, asking
<1>9. CASE UNCHANGED tapvars
    BY <1>9 DEF tapvars, reader, asking
<1> HIDE DEF OneAtATime
<1> QED
    BY FarEndSends, <1>1, <1>2, <1>3, <1>4, <1>5, <1>6, <1>7, <1>8, <1>9
       DEF Next, Read, FarEndActs

-------------------------------------------------------------------------------
\* What was the last thing said of a session still is when more is said later,
\* and when the first message is handled.
LEMMA LastSaidAppend ==
    ASSUME NEW q \in Seq(Message), NEW m \in Message, NEW s, NEW name,
           NEW j \in 1..Len(q) + 1, LastSaid(q, s, j, name)
    PROVE  LastSaid(Append(q, m), s, j, name)
<1>1. \A i \in 1..(j - 1) : Append(q, m)[i] = q[i]
    OBVIOUS
<1> QED BY <1>1 DEF LastSaid

LEMMA LastSaidTail ==
    ASSUME NEW q \in Seq(Message), q # <<>>, NEW s, NEW name,
           NEW j \in 2..Len(q) + 1, LastSaid(q, s, j, name),
           users'[s] = IF OfUser(q[1], s) THEN Says(q[1]) ELSE users[s]
    PROVE  LastSaid(Tail(q), s, j - 1, name)'
<1>1. /\ j \in Nat /\ j >= 2 /\ Len(q) \in Nat /\ Tail(q) \in Seq(Message)
      /\ \A i \in 1..(j - 2) : Tail(q)[i] = q[i + 1]
    OBVIOUS
<1> DEFINE rest == Tail(q)
<1> HIDE DEF rest
<1>2. SUFFICES \/ users'[s] = name /\ \A i \in 1..(j - 2) : ~OfUser(rest[i], s)
               \/ \E i \in 1..(j - 2) :
                     /\ OfUser(rest[i], s) /\ Says(rest[i]) = name
                     /\ \A k \in (i + 1)..(j - 2) : ~OfUser(rest[k], s)
  <2>1. (j - 1) - 1 = j - 2
      BY <1>1
  <2> QED BY <2>1 DEF LastSaid, rest
<1>3. \A i \in 1..(j - 2) : i + 1 \in 1..(j - 1) /\ rest[i] = q[i + 1]
    BY <1>1 DEF rest
<1>4. CASE users[s] = name /\ \A i \in 1..(j - 1) : ~OfUser(q[i], s)
  <2>1. 1 \in 1..(j - 1)
      BY <1>1
  <2> QED BY <1>3, <1>4, <2>1
<1>5. ASSUME NEW i \in 1..(j - 1), OfUser(q[i], s), Says(q[i]) = name,
             \A k \in (i + 1)..(j - 1) : ~OfUser(q[k], s)
      PROVE  \/ users'[s] = name /\ \A l \in 1..(j - 2) : ~OfUser(rest[l], s)
             \/ \E l \in 1..(j - 2) :
                     /\ OfUser(rest[l], s) /\ Says(rest[l]) = name
                     /\ \A k \in (l + 1)..(j - 2) : ~OfUser(rest[k], s)
  <2>1. CASE i = 1
    <3>1. \A l \in 1..(j - 2) : l + 1 \in (i + 1)..(j - 1)
        BY <1>1, <2>1
    <3> QED BY <1>3, <1>5, <2>1, <3>1
  <2>2. CASE i # 1
    <3>1. /\ i - 1 \in 1..(j - 2) /\ i - 1 + 1 = i
          /\ \A k \in (i - 1 + 1)..(j - 2) : k \in 1..(j - 2) /\ k + 1 \in (i + 1)..(j - 1)
        BY <1>1, <2>2
    <3>2. OfUser(rest[i - 1], s) /\ Says(rest[i - 1]) = name
        BY <1>3, <1>5, <3>1
    <3>3. \A k \in (i - 1 + 1)..(j - 2) : ~OfUser(rest[k], s)
        BY <1>3, <1>5, <3>1
    <3> QED BY <3>1, <3>2, <3>3
  <2> QED BY <2>1, <2>2
<1> QED BY <1>4, <1>5 DEF LastSaid

\* Handling the first message leaves the others told.
LEMMA ToldTail ==
    ASSUME TapTypes, NEW q \in Seq(Message), q # <<>>, Told(q), present' = present,
           \A s \in Session : users'[s] = IF OfUser(q[1], s) THEN Says(q[1]) ELSE users[s]
    PROVE  Told(Tail(q))'
<1>1. Len(Tail(q)) = Len(q) - 1 /\ \A j \in 1..Len(q) - 1 : Tail(q)[j] = q[j + 1]
    OBVIOUS
<1>2. Len(q) \in Nat /\ Len(q) >= 1
    OBVIOUS
<1>3. ASSUME NEW s \in Session
      PROVE  LastSaid(Tail(q), s, Len(Tail(q)) + 1, present[s])'
  <2>1. LastSaid(q, s, Len(q) + 1, present[s]) /\ Len(q) + 1 \in 2..Len(q) + 1
      BY <1>2 DEF Told
  <2>2. LastSaid(Tail(q), s, Len(q) + 1 - 1, present[s])'
      BY <2>1, LastSaidTail
  <2>3. Len(q) + 1 - 1 = Len(Tail(q)) + 1
      BY <1>1, <1>2
  <2> QED BY <2>2, <2>3
<1>4. ASSUME NEW s \in Session, NEW j \in 1..Len(Tail(q)),
             Tail(q)[j].type = "USER_STATE", Tail(q)[j].session = s
      PROVE  LastSaid(Tail(q), s, j, None)'
  <2>1. j + 1 \in 2..Len(q) + 1 /\ j + 1 \in 1..Len(q) /\ Tail(q)[j] = q[j + 1]
        /\ j + 1 - 1 = j
      BY <1>1, <1>2
  <2>2. LastSaid(q, s, j + 1, None)
      BY <1>4, <2>1 DEF Told
  <2>3. LastSaid(Tail(q), s, j + 1 - 1, None)'
      BY <2>1, <2>2, LastSaidTail
  <2> QED BY <2>1, <2>3
<1> QED BY <1>3, <1>4 DEF Told

\* A message that is sent is told of its user.
LEMMA ToldAppend ==
    ASSUME TapTypes, NEW q \in Seq(Message), Told(q), NEW m \in Message, Sent(m)
    PROVE  Told(Append(q, m))'
<1>1. users' = users
    BY DEF Sent
<1>2. /\ Len(q) \in Nat /\ Len(Append(q, m)) = Len(q) + 1
      /\ Append(q, m)[Len(q) + 1] = m /\ \A j \in 1..Len(q) : Append(q, m)[j] = q[j]
    OBVIOUS
<1>3. ASSUME NEW s \in Session
      PROVE  LastSaid(Append(q, m), s, Len(q) + 2, present'[s])
  <2>1. CASE OfUser(m, s)
    <3>1. present'[s] = Says(m)
        BY <2>1 DEF Sent
    <3>2. Len(q) + 1 \in 1..(Len(q) + 2 - 1)
          /\ \A k \in (Len(q) + 1 + 1)..(Len(q) + 2 - 1) : FALSE
        BY <1>2
    <3> QED BY <1>2, <2>1, <3>1, <3>2 DEF LastSaid
  <2>2. CASE ~OfUser(m, s)
    <3>1. present'[s] = present[s]
        BY <2>2 DEF Sent
    <3>2. LastSaid(Append(q, m), s, Len(q) + 1, present[s])
        BY <1>2, LastSaidAppend DEF Told
    <3>3. \A i \in 1..(Len(q) + 2 - 1) : i \in 1..(Len(q) + 1 - 1) \/ i = Len(q) + 1
        BY <1>2
    <3>4. CASE users[s] = present[s] /\ \A i \in 1..(Len(q) + 1 - 1) : ~OfUser(Append(q, m)[i], s)
        BY <1>2, <2>2, <3>1, <3>3, <3>4 DEF LastSaid
    <3>5. ASSUME NEW i \in 1..(Len(q) + 1 - 1), OfUser(Append(q, m)[i], s),
                 Says(Append(q, m)[i]) = present[s],
                 \A k \in (i + 1)..(Len(q) + 1 - 1) : ~OfUser(Append(q, m)[k], s)
          PROVE  LastSaid(Append(q, m), s, Len(q) + 2, present'[s])
      <4>1. /\ i \in 1..(Len(q) + 2 - 1)
            /\ \A k \in (i + 1)..(Len(q) + 2 - 1) :
                  k \in (i + 1)..(Len(q) + 1 - 1) \/ k = Len(q) + 1
          BY <1>2
      <4> QED BY <1>2, <2>2, <3>1, <3>5, <4>1 DEF LastSaid
    <3> QED BY <3>2, <3>4, <3>5 DEF LastSaid
  <2> QED BY <2>1, <2>2
<1>4. ASSUME NEW s \in Session, NEW j \in 1..Len(q) + 1,
             Append(q, m)[j].type = "USER_STATE", Append(q, m)[j].session = s
      PROVE  LastSaid(Append(q, m), s, j, None)
  <2>1. LastSaid(q, s, j, None)
    <3>1. CASE j = Len(q) + 1
      <4>1. present[s] = None
          BY <1>2, <1>4, <3>1 DEF Sent
      <4> QED BY <3>1, <4>1 DEF Told
    <3>2. CASE j # Len(q) + 1
      <4>1. j \in 1..Len(q)
          BY <1>2, <3>2
      <4> QED BY <1>2, <1>4, <4>1 DEF Told
    <3> QED BY <3>1, <3>2
  <2> QED BY <2>1, LastSaidAppend
<1>5. Len(q) + 1 + 1 = Len(q) + 2
    BY <1>2
<1>6. \A s, j, name : LastSaid(Append(q, m), s, j, name)' <=> LastSaid(Append(q, m), s, j, name)
    BY <1>1 DEF LastSaid
<1> QED BY <1>2, <1>3, <1>4, <1>5, <1>6 DEF Told

-------------------------------------------------------------------------------
\* What is left when the handler of the first message has run.
LEMMA HandledHolds ==
    ASSUME TapTypes, OneAtATime, NEW q \in Seq(Message), Carries(q), NEW type, Got(type), Done
    PROVE  q # <<>> /\ body = q[1] /\ Carries(Tail(q))'
<1>1. /\ link = "up" /\ body # None /\ header' = <<>> /\ body' = None
      /\ wire \in Seq(Piece) /\ wire # <<>> /\ wire' = Tail(wire)
    BY DEF Got, Done, OneAtATime, TapTypes, ConnectionTypes
<1>2. /\ InHand = <<<<body, 1>>, <<body, 2>>>> /\ Len(InHand) = 2 /\ InHand' = <<>>
      /\ Len(InHand') = 0
    BY <1>1 DEF InHand
<1>3. /\ Len(wire) \in Nat /\ Len(wire) >= 1 /\ Len(wire') = Len(wire) - 1
      /\ \A i \in 1..Len(wire) - 1 : wire'[i] = wire[i + 1]
    BY <1>1
<1>4. Len(q) \in Nat /\ 2 + Len(wire) = 3 * Len(q)
    BY <1>2 DEF Carries
<1>5. 1 \in 1..Len(q) /\ 3 * 1 - 2 = 1
    BY <1>3, <1>4
<1>6. body = q[1]
  <2>1. Pending(1) = <<q[1], 1>>
      BY <1>5 DEF Carries
  <2>2. Pending(1) = <<body, 1>>
      BY <1>2 DEF Pending
  <2> QED BY <2>1, <2>2
<1>7. /\ Len(Tail(q)) = Len(q) - 1 /\ \A j \in 1..Len(q) - 1 : Tail(q)[j] = q[j + 1]
    BY <1>5
<1>8. \A i \in 1..Len(wire) - 1 : Pending(i)' = Pending(i + 3)
  <2> SUFFICES ASSUME NEW i \in 1..Len(wire) - 1
               PROVE  Pending(i)' = Pending(i + 3)
      OBVIOUS
  <2>1. Pending(i)' = wire'[i]
      BY <1>2, <1>3 DEF Pending
  <2>2. ~(i + 3 <= 2) /\ i + 3 - 2 = i + 1
      BY <1>3
  <2>3. Pending(i + 3) = wire[i + 1]
      BY <1>2, <2>2 DEF Pending
  <2> QED BY <1>3, <2>1, <2>3
<1>9. Len(InHand') + Len(wire') = 3 * (Len(q) - 1)
  <2>1. Len(InHand') = 0 /\ Len(wire') = Len(wire) - 1 /\ Len(wire) \in Nat
      BY <1>2, <1>3, Zenon
  <2> QED BY <1>4, <2>1
<1>10. ASSUME NEW j \in 1..Len(q) - 1
       PROVE  /\ Pending(3 * j - 2)' = <<q[j + 1], 1>>
              /\ Pending(3 * j - 1)' = <<q[j + 1], 2>>
              /\ Pending(3 * j)' = <<q[j + 1], "body">>
  <2>1. /\ 3 * j - 2 \in 1..Len(wire) - 1 /\ 3 * j - 2 + 3 = 3 * (j + 1) - 2
        /\ 3 * j - 1 \in 1..Len(wire) - 1 /\ 3 * j - 1 + 3 = 3 * (j + 1) - 1
        /\ 3 * j \in 1..Len(wire) - 1 /\ 3 * j + 3 = 3 * (j + 1)
        /\ j + 1 \in 1..Len(q)
      BY <1>3, <1>4
  <2> QED BY <1>8, <2>1 DEF Carries
<1> QED BY <1>5, <1>6, <1>7, <1>9, <1>10 DEF Carries

\* Reading on moves pieces from the wire to the header and no further.
LEMMA SamePieces ==
    ASSUME NEW q \in Seq(Message), Carries(q),
           Len(InHand') + Len(wire') = Len(InHand) + Len(wire),
           \A i \in 1..Len(InHand) + Len(wire) : Pending(i)' = Pending(i)
    PROVE  Carries(q)'
<1>1. Len(q) \in Nat /\ Len(InHand) + Len(wire) = 3 * Len(q)
    BY DEF Carries
<1>2. \A j \in 1..Len(q) : /\ 3 * j - 2 \in 1..3 * Len(q) /\ 3 * j - 1 \in 1..3 * Len(q)
                           /\ 3 * j \in 1..3 * Len(q)
    BY <1>1
<1> QED BY <1>1, <1>2 DEF Carries

LEMMA ReadHolds ==
    ASSUME TapTypes, NEW q \in Seq(Message), Carries(q), NEW n \in 1..HEADER, ReadHeader(n)
    PROVE  Carries(q)'
<1>1. ConnectionTypes
    BY DEF TapTypes
<1>2. header \in Seq(Piece) /\ wire \in Seq(Piece) /\ InHand = header /\ InHand' = header'
    BY <1>1, ReadTakes DEF ConnectionTypes, InHand
<1>3. /\ Len(header) \in Nat /\ Len(wire) \in Nat /\ n \in 1..2 /\ n <= Len(wire)
    BY <1>2 DEF ReadHeader, HEADER
<1>4. /\ Len(header') = Len(header) + n /\ Len(wire') = Len(wire) - n
      /\ \A i \in 1..Len(header') :
            header'[i] = IF i <= Len(header) THEN header[i] ELSE wire[i - Len(header)]
      /\ \A i \in 1..Len(wire') : wire'[i] = wire[i + n]
    BY <1>1, ReadTakes
<1>5. ASSUME NEW i \in 1..Len(header) + Len(wire)
      PROVE  Pending(i)' = Pending(i)
  <2>1. CASE i <= Len(header')
    <3>1. i \in 1..Len(header')
        BY <1>3, <1>4, <2>1
    <3> QED BY <1>2, <1>4, <2>1, <3>1 DEF Pending
  <2>2. CASE ~(i <= Len(header'))
    <3>1. /\ i - Len(header') \in 1..Len(wire') /\ i - Len(header') + n = i - Len(header)
          /\ ~(i <= Len(header))
        BY <1>3, <1>4, <2>2
    <3> QED BY <1>2, <1>4, <2>2, <3>1 DEF Pending
  <2> QED BY <2>1, <2>2
<1> QED BY <1>2, <1>3, <1>4, <1>5, SamePieces

LEMMA SentHolds ==
    ASSUME TapTypes, NEW q \in Seq(Message), Carries(q), NEW m \in Message, Sent(m)
    PROVE  Carries(Append(q, m))'
<1>1. /\ InHand' = InHand /\ wire' = wire \o Pieces(m) /\ wire \in Seq(Piece)
    BY DEF Sent, InHand, TapTypes, ConnectionTypes
<1>2. /\ Len(wire') = Len(wire) + 3
      /\ \A i \in 1..Len(wire) + 3 :
            wire'[i] = IF i <= Len(wire) THEN wire[i] ELSE Pieces(m)[i - Len(wire)]
  <2>1. Pieces(m) \in Seq(Piece) /\ Len(Pieces(m)) = 3
      BY PiecesOf
  <2>2. /\ Len(wire \o Pieces(m)) = Len(wire) + Len(Pieces(m))
        /\ \A i \in 1..Len(wire) + Len(Pieces(m)) :
              (wire \o Pieces(m))[i] =
                 IF i <= Len(wire) THEN wire[i] ELSE Pieces(m)[i - Len(wire)]
      BY <1>1, <2>1, ConcatProperties, Zenon
  <2> QED BY <1>1, <2>1, <2>2, Zenon
<1>3. Len(InHand) \in Nat /\ Len(wire) \in Nat
    BY <1>1 DEF InHand, TapTypes, ConnectionTypes
<1>4. Len(q) \in Nat /\ Len(InHand) + Len(wire) = 3 * Len(q)
    BY DEF Carries
<1>5. \A i \in 1..3 * Len(q) : Pending(i)' = Pending(i)
  <2> SUFFICES ASSUME NEW i \in 1..3 * Len(q)
               PROVE  Pending(i)' = Pending(i)
      OBVIOUS
  <2>1. CASE i <= Len(InHand)
      BY <1>1, <2>1 DEF Pending
  <2>2. CASE ~(i <= Len(InHand))
    <3>1. i - Len(InHand) \in 1..Len(wire) + 3 /\ i - Len(InHand) <= Len(wire)
        BY <1>3, <1>4, <2>2
    <3> QED BY <1>1, <1>2, <2>2, <3>1 DEF Pending
  <2> QED BY <2>1, <2>2
<1>6. \A k \in 1..3 : Pending(3 * Len(q) + k)' = Pieces(m)[k]
  <2> SUFFICES ASSUME NEW k \in 1..3
               PROVE  Pending(3 * Len(q) + k)' = Pieces(m)[k]
      OBVIOUS
  <2>1. /\ ~(3 * Len(q) + k <= Len(InHand))
        /\ 3 * Len(q) + k - Len(InHand) = Len(wire) + k
        /\ Len(wire) + k \in 1..Len(wire) + 3 /\ ~(Len(wire) + k <= Len(wire))
        /\ Len(wire) + k - Len(wire) = k
      BY <1>3, <1>4
  <2> QED BY <1>1, <1>2, <2>1 DEF Pending
<1>7. /\ Len(Append(q, m)) = Len(q) + 1 /\ Append(q, m)[Len(q) + 1] = m
      /\ \A j \in 1..Len(q) : Append(q, m)[j] = q[j]
    OBVIOUS
<1>8. ASSUME NEW j \in 1..Len(q) + 1
      PROVE  /\ Pending(3 * j - 2)' = <<Append(q, m)[j], 1>>
             /\ Pending(3 * j - 1)' = <<Append(q, m)[j], 2>>
             /\ Pending(3 * j)' = <<Append(q, m)[j], "body">>
  <2>1. CASE j = Len(q) + 1
    <3>1. /\ 3 * j - 2 = 3 * Len(q) + 1 /\ 3 * j - 1 = 3 * Len(q) + 2 /\ 3 * j = 3 * Len(q) + 3
        BY <1>4, <2>1
    <3>2. 1 \in 1..3 /\ 2 \in 1..3 /\ 3 \in 1..3
        OBVIOUS
    <3>3. Append(q, m)[j] = m
        BY <1>7, <2>1, Zenon
    <3>4. /\ Pending(3 * Len(q) + 1)' = <<m, 1>> /\ Pending(3 * Len(q) + 2)' = <<m, 2>>
          /\ Pending(3 * Len(q) + 3)' = <<m, "body">>
        BY <1>6, <3>2, PiecesOf, Zenon
    <3> QED BY <3>1, <3>3, <3>4, Zenon
  <2>2. CASE j # Len(q) + 1
    <3>1. /\ j \in 1..Len(q) /\ 3 * j - 2 \in 1..3 * Len(q) /\ 3 * j - 1 \in 1..3 * Len(q)
          /\ 3 * j \in 1..3 * Len(q)
        BY <1>4, <2>2
    <3> QED BY <1>5, <1>7, <3>1 DEF Carries
  <2> QED BY <2>1, <2>2
<1>9. Len(InHand') + Len(wire') = 3 * (Len(q) + 1)
  <2>1. Len(InHand') = Len(InHand) /\ Len(wire') = Len(wire) + 3
      BY <1>1, <1>2
  <2> QED BY <1>3, <1>4, <2>1
<1> QED BY <1>7, <1>8, <1>9 DEF Carries

\* A header taken is the first message, in hand.
LEMMA TakenHolds ==
    ASSUME TapTypes, NEW q \in Seq(Message), Carries(q), TakeBody
    PROVE  Carries(q)'
<1>1. /\ body = None /\ header \in Seq(Piece) /\ Len(header) = 2 /\ wire' = wire
      /\ header' = <<>> /\ body' = header[1][1]
    BY DEF TakeBody, Selecting, HEADER, farEnd, TapTypes, ConnectionTypes
<1>2. InHand = header /\ Len(InHand) = 2 /\ Len(wire) \in Nat
    BY <1>1 DEF InHand, TapTypes, ConnectionTypes
<1>3. Len(q) \in Nat /\ 2 + Len(wire) = 3 * Len(q)
    BY <1>2 DEF Carries
<1>4. header[1] = <<q[1], 1>> /\ header[2] = <<q[1], 2>> /\ q[1] \in Message
  <2>1. 1 \in 1..Len(q) /\ 3 * 1 - 2 = 1 /\ 3 * 1 - 1 = 2
      BY <1>2, <1>3
  <2>2. Pending(1) = <<q[1], 1>> /\ Pending(2) = <<q[1], 2>> /\ q[1] \in Message
      BY <2>1 DEF Carries
  <2> QED BY <1>1, <1>2, <2>2 DEF Pending
<1>5. body' = q[1] /\ body' # None
    BY <1>1, <1>4, MessageParts
<1>6. /\ InHand' = <<<<q[1], 1>>, <<q[1], 2>>>> /\ Len(InHand') = 2
      /\ InHand'[1] = header[1] /\ InHand'[2] = header[2]
    BY <1>4, <1>5 DEF InHand
<1>7. \A i \in 1..Len(InHand) + Len(wire) : Pending(i)' = Pending(i)
  <2> SUFFICES ASSUME NEW i \in 1..Len(InHand) + Len(wire)
               PROVE  Pending(i)' = Pending(i)
      OBVIOUS
  <2>1. CASE i <= 2
    <3>1. i = 1 \/ i = 2
        BY <1>1, <1>2, <2>1
    <3> QED BY <1>1, <1>2, <1>6, <3>1 DEF Pending
  <2>2. CASE ~(i <= 2)
      BY <1>1, <1>2, <1>6, <2>2 DEF Pending
  <2> QED BY <2>1, <2>2
<1> QED BY <1>1, <1>2, <1>6, <1>7, SamePieces

\* A new connection has nothing under way, and nobody on it.
LEMMA NothingHolds ==
    ASSUME TapTypes, wire' = <<>>, header' = <<>>, body' = None, users' = Nobody,
           present' = Nobody
    PROVE  Stream'
<1> DEFINE q == <<>>
<1>1. q \in Seq(Message) /\ Len(q) = 0 /\ 3 * Len(q) = 0 /\ \A j \in 1..Len(q) : FALSE
    OBVIOUS
<1>2. InHand' = <<>> /\ Len(InHand') = 0 /\ Len(wire') = 0
    BY DEF InHand
<1>3. Carries(q)'
    BY <1>1, <1>2 DEF Carries
<1>4. \A i \in 1..(Len(q) + 1 - 1) : FALSE
    BY <1>1
<1>5. \A s \in Session : users'[s] = present'[s]
    BY DEF Nobody
<1>6. Told(q)'
  <2> HIDE DEF q
  <2> QED BY <1>1, <1>4, <1>5 DEF Told, LastSaid
<1> HIDE DEF q
<1> QED BY <1>1, <1>3, <1>6 DEF Stream

\* The stream is read and handled in whole messages.
LEMMA StreamKept ==
    ASSUME TapTypes, OneAtATime, Stream, [Next]_tapvars
    PROVE  Stream'
<1>1. ASSUME NEW m \in Message, Sent(m) PROVE Stream'
  <2>1. link = "up"
      BY <1>1 DEF Sent
  <2>2. PICK q \in Seq(Message) : Carries(q) /\ Told(q)
      BY <2>1 DEF Stream
  <2>3. Append(q, m) \in Seq(Message)
      OBVIOUS
  <2> QED BY <1>1, <2>2, <2>3, SentHolds, ToldAppend DEF Stream
<1>2. ASSUME NEW n \in 1..HEADER, ReadHeader(n) PROVE Stream'
  <2>1. link = "up" /\ users' = users /\ present' = present
      BY <1>2 DEF ReadHeader, Selecting, locals
  <2>2. PICK q \in Seq(Message) : Carries(q) /\ Told(q)
      BY <2>1 DEF Stream
  <2>3. Told(q)'
      BY <2>1, <2>2 DEF Told, LastSaid
  <2> QED BY <1>2, <2>2, <2>3, ReadHolds DEF Stream
<1>3. CASE TakeBody
  <2>1. link = "up" /\ users' = users /\ present' = present
      BY <1>3 DEF TakeBody, Selecting, locals, farEnd
  <2>2. PICK q \in Seq(Message) : Carries(q) /\ Told(q)
      BY <2>1 DEF Stream
  <2>3. Told(q)'
      BY <2>1, <2>2 DEF Told, LastSaid
  <2> QED BY <1>3, <2>2, <2>3, TakenHolds DEF Stream
<1>4. ASSUME NEW type, Got(type), Done, present' = present,
             \A s \in Session :
                users'[s] = IF OfUser(body, s) THEN Says(body) ELSE users[s]
      PROVE  Stream'
  <2>1. link = "up"
      BY <1>4 DEF Got
  <2>2. PICK q \in Seq(Message) : Carries(q) /\ Told(q)
      BY <2>1 DEF Stream
  <2>3. q # <<>> /\ body = q[1] /\ Carries(Tail(q))'
      BY <1>4, <2>2, HandledHolds
  <2>4. Told(Tail(q))' /\ Tail(q) \in Seq(Message)
      BY <1>4, <2>2, <2>3, ToldTail
  <2> QED BY <2>3, <2>4 DEF Stream
<1>5. CASE ServerSync \/ ChannelState \/ Voice
  <2>1. PICK type \in {"SERVER_SYNC", "CHANNEL_STATE", "UDP_TUNNEL"} :
            Got(type) /\ Done /\ users' = users /\ present' = present
      BY <1>5 DEF ServerSync, ChannelState, Voice, FarEndWaits
  <2>2. \A s : ~OfUser(body, s)
      BY <2>1 DEF Got, OfUser
  <2> QED BY <1>4, <2>1, <2>2
<1>6. CASE UserState
  <2>1. /\ Got("USER_STATE") /\ Done /\ present' = present
        /\ users' = [users EXCEPT ![body.session] = body.name]
      BY <1>6 DEF UserState, FarEndWaits
  <2>2. ASSUME NEW s \in Session
        PROVE  users'[s] = IF OfUser(body, s) THEN Says(body) ELSE users[s]
      BY <2>1 DEF Got, OfUser, Says, TapTypes, RosterTypes
  <2> QED BY <1>4, <2>1, <2>2
<1>7. CASE UserRemove
  <2>1. /\ Got("USER_REMOVE") /\ Done /\ present' = present
        /\ users' = [users EXCEPT ![body.session] = None]
      BY <1>7 DEF UserRemove, FarEndWaits
  <2>2. ASSUME NEW s \in Session
        PROVE  users'[s] = IF OfUser(body, s) THEN Says(body) ELSE users[s]
      BY <2>1 DEF Got, OfUser, Says, TapTypes, RosterTypes
  <2> QED BY <1>4, <2>1, <2>2
<1>8. CASE TooLong \/ ConnectionLost \/ Reject \/ Drop
    BY <1>8 DEF TooLong, ConnectionLost, Reject, GivenUp, Drop, Ended, Stream
<1>9. CASE Redial
  <2>1. header = <<>> /\ body = None
      BY <1>9 DEF Redial, OneAtATime
  <2> QED BY <1>9, <2>1, NothingHolds DEF Redial
<1>10. CASE Sweep \/ Ask \/ Keepalive \/ Write \/ ServerCloses \/ PingFails \/ UNCHANGED tapvars
  <2>1. UNCHANGED <<link, wire, header, body, users, present>>
      BY <1>10 DEF Sweep, Kept, Ask, Keepalive, Write, ServerCloses, PingFails, tapvars,
         farEnd, reader, locals
  <2>2. InHand' = InHand /\ \A i : Pending(i)' = Pending(i)
      BY <2>1 DEF Pending, InHand
  <2>3. \A q : Carries(q)' <=> Carries(q)
      BY <2>1, <2>2 DEF Carries
  <2>4. \A q : Told(q)' <=> Told(q)
      BY <2>1 DEF Told, LastSaid
  <2> QED BY <2>1, <2>3, <2>4 DEF Stream
<1> QED
    BY FarEndSends, <1>1, <1>2, <1>3, <1>5, <1>6, <1>7, <1>8, <1>9, <1>10
       DEF Next, Read, FarEndActs

-------------------------------------------------------------------------------
\* A user is announced on a session that is nobody's, as far as the tap knows.
LEMMA AnnouncedIsNew ==
    ASSUME TapTypes, OneAtATime, Stream, Got("USER_STATE"), Done
    PROVE  body.session \in Session /\ body.name \in Name /\ users[body.session] = None
<1>1. link = "up" /\ body \in Message /\ body.type = "USER_STATE"
    BY HandlerReads DEF TapTypes
<1>2. PICK q \in Seq(Message) : Carries(q) /\ Told(q)
    BY <1>1 DEF Stream
<1>3. q # <<>> /\ body = q[1] /\ 1 \in 1..Len(q) /\ \A i \in 1..(1 - 1) : FALSE
    BY <1>2, HandledHolds
<1>4. body.session \in Session /\ body.name \in Name
    BY <1>1, MessageParts
<1>5. LastSaid(q, body.session, 1, None)
    BY <1>1, <1>2, <1>3, <1>4 DEF Told
<1> QED BY <1>3, <1>4, <1>5 DEF LastSaid

\* The router follows the users, and so do the vocoder chains.
LEMMA RosterKept ==
    ASSUME TapTypes, OneAtATime, Stream, Roster, ChainIsTheirs, [Next]_tapvars
    PROVE  Roster' /\ ChainIsTheirs'
<1> USE DEF Roster, ChainIsTheirs
<1>1. ASSUME UNCHANGED <<link, users, talkers, session_to_client, client_to_session>>
      PROVE  Roster' /\ ChainIsTheirs'
    BY <1>1
<1>2. ASSUME NEW m \in Message, Sent(m) PROVE Roster' /\ ChainIsTheirs'
    BY <1>1, <1>2 DEF Sent
<1>3. CASE \/ \E n \in 1..HEADER : ReadHeader(n)
           \/ TakeBody \/ Sweep \/ Ask \/ Keepalive \/ Write \/ ServerCloses \/ PingFails
           \/ ServerSync \/ ChannelState \/ UNCHANGED tapvars
    BY <1>1, <1>3 DEF ReadHeader, TakeBody, Sweep, Ask, Keepalive, Write, ServerCloses,
       PingFails, ServerSync, ChannelState, Done, tapvars, reader, locals, bound
<1>4. CASE TooLong \/ ConnectionLost \/ Reject
    BY <1>4 DEF TooLong, ConnectionLost, Reject, GivenUp, Ended
<1>5. CASE Drop
    BY <1>5 DEF Drop, RoutesDropped, Nobody
<1>6. CASE Redial
  <2>1. /\ link = "away" /\ link' = "up" /\ users' = Nobody /\ talkers' = Nobody
        /\ session_to_client' = session_to_client /\ client_to_session' = client_to_session
      BY <1>6 DEF Redial, bound
  <2>2. session_to_client' = Nobody /\ None \notin Player
      BY <2>1, TapAssumption
  <2> QED BY <2>1, <2>2 DEF Nobody
<1>7. CASE UserState
  <2> DEFINE s == body.session
             n == body.name
  <2>1. /\ link = "up" /\ link' = "up" /\ s \in Session /\ n \in Name /\ users[s] = None
        /\ users' = [users EXCEPT ![s] = n] /\ talkers' = talkers
        /\ IF n \in Player
           THEN /\ session_to_client' = [session_to_client EXCEPT ![s] = n]
                /\ client_to_session' = [client_to_session EXCEPT ![n] = s]
           ELSE UNCHANGED <<session_to_client, client_to_session>>
      BY <1>7, AnnouncedIsNew DEF UserState, Got, Done, bound
  <2>2. None \notin Player /\ None # n
      BY <2>1, TapAssumption DEF Name
  <2>3. session_to_client[s] = None /\ talkers[s] = None
      BY <2>1, <2>2
  <2> HIDE DEF s, n
  <2>4. /\ \A u \in Session :
              session_to_client'[u] = IF users'[u] \in Player THEN users'[u] ELSE None
        /\ \A u \in Session : talkers'[u] \in {session_to_client'[u], None}
      BY <2>1, <2>2, <2>3 DEF TapTypes, RosterTypes
  <2>5. ASSUME NEW p \in Player, client_to_session'[p] # None
        PROVE  session_to_client'[client_to_session'[p]] = p
    <3>1. CASE n \in Player /\ p = n
        BY <2>1, <3>1 DEF TapTypes, RosterTypes
    <3>2. CASE ~(n \in Player /\ p = n)
      <4>1. client_to_session'[p] = client_to_session[p]
          BY <2>1, <3>2 DEF TapTypes, RosterTypes
      <4>2. session_to_client[client_to_session[p]] = p
          BY <2>1, <2>5, <4>1
      <4>3. client_to_session[p] # s
          BY <2>2, <2>3, <4>2
      <4>4. client_to_session[p] \in Session
          BY <2>5, <4>1 DEF TapTypes, RosterTypes
      <4> QED BY <2>1, <4>1, <4>2, <4>3, <4>4 DEF TapTypes, RosterTypes
    <3> QED BY <3>1, <3>2
  <2> QED BY <2>1, <2>4, <2>5
<1>8. CASE UserRemove
  <2> DEFINE s == body.session
  <2>1. /\ link = "up" /\ link' = "up" /\ s \in Session
        /\ users' = [users EXCEPT ![s] = None] /\ talkers' = [talkers EXCEPT ![s] = None]
        /\ session_to_client' = [session_to_client EXCEPT ![s] = None]
        /\ client_to_session' = [p \in Player |->
              IF session_to_client[s] = p THEN None ELSE client_to_session[p]]
      BY <1>8, HandlerReads, MessageParts DEF UserRemove, ChainDropped, Done, TapTypes
  <2>2. None \notin Player
      BY TapAssumption
  <2> HIDE DEF s
  <2>3. /\ \A u \in Session :
              session_to_client'[u] = IF users'[u] \in Player THEN users'[u] ELSE None
        /\ \A u \in Session : talkers'[u] \in {session_to_client'[u], None}
      BY <2>1, <2>2 DEF TapTypes, RosterTypes
  <2>4. ASSUME NEW p \in Player, client_to_session'[p] # None
        PROVE  session_to_client'[client_to_session'[p]] = p
    <3>1. /\ client_to_session'[p] = client_to_session[p] /\ session_to_client[s] # p
          /\ session_to_client[client_to_session[p]] = p
        BY <2>1, <2>4
    <3>2. client_to_session[p] # s /\ client_to_session[p] \in Session
        BY <2>4, <3>1 DEF TapTypes, RosterTypes
    <3> QED BY <2>1, <3>1, <3>2 DEF TapTypes, RosterTypes
  <2> QED BY <2>1, <2>3, <2>4
<1>9. CASE Voice
  <2>1. /\ UNCHANGED <<link, users, session_to_client, client_to_session>>
        /\ link = "up" /\ body.session \in Session
        /\ \/ talkers' = [talkers EXCEPT ![body.session] = session_to_client[body.session]]
           \/ talkers' = talkers
      BY <1>9, HandlerReads, MessageParts DEF Voice, Done, bound, TapTypes
  <2> QED BY <2>1 DEF TapTypes, RosterTypes
<1> HIDE DEF Roster, ChainIsTheirs
<1> QED
    BY FarEndSends, <1>2, <1>3, <1>4, <1>5, <1>6, <1>7, <1>8, <1>9
       DEF Next, Read, FarEndActs

\* The invariant holds at the start, and no action breaks it.
LEMMA TapInductive ==
    Spec => []TapInv
<1>1. Init => TapInv
  <2> SUFFICES ASSUME Init PROVE TapInv
      OBVIOUS
  <2>1. ConnectionTypes
      BY DEF Init, ConnectionTypes
  <2>2. ChannelTypes
    <3>1. me \in BOOLEAN
      <4>1. me = FALSE
          BY DEF Init
      <4> QED BY ONLY <4>1
    <3> QED BY <3>1, TapAssumption DEF Init, ChannelTypes
  <2>3. RosterTypes
      BY DEF Init, RosterTypes, Nobody
  <2>4. OneAtATime
      BY DEF Init, OneAtATime
  <2>5. Roster /\ ChainIsTheirs
      BY TapAssumption DEF Init, Roster, ChainIsTheirs, Nobody
  <2>6. Stream
    <3> DEFINE q == <<>>
    <3>1. q \in Seq(Message) /\ Len(q) = 0 /\ 3 * Len(q) = 0 /\ \A j \in 1..Len(q) : FALSE
        OBVIOUS
    <3>2. Carries(q)
        BY <3>1 DEF Init, Carries, InHand
    <3>3. \A i \in 1..(Len(q) + 1 - 1) : FALSE
        BY <3>1
    <3>4. \A s \in Session : users[s] = present[s]
        BY DEF Init, Nobody
    <3> HIDE DEF q
    <3>5. Told(q)
        BY <3>1, <3>3, <3>4 DEF Told, LastSaid
    <3> QED BY <3>1, <3>2, <3>5 DEF Stream
  <2> QED BY <2>1, <2>2, <2>3, <2>4, <2>5, <2>6 DEF TapInv, TapTypes
<1>2. TapInv /\ [Next]_tapvars => TapInv'
    BY ConnectionTyped, ChannelsTyped, RosterTyped, OneAtATimeKept, StreamKept, RosterKept
       DEF TapInv, TapTypes
<1> QED
    BY <1>1, <1>2, PTL DEF Spec

-------------------------------------------------------------------------------
\* What the tap keeps is of the channels and users its server announced, and the
\* queue to the writer never holds more than it has room for.
THEOREM TapKeepsItsBounds ==
    Spec => []TapTypeOK
<1>1. TapInv => TapTypeOK
    BY DEF TapInv, TapTypes, ConnectionTypes, ChannelTypes, RosterTypes, TapTypeOK
<1> QED
    BY <1>1, TapInductive, PTL

\* However the stream is cut into reads and however often a sweep cancels one,
\* a header is read from its first byte and a body is the one its header
\* announced (Header::fill, which a cancelled read leaves alone).
THEOREM FramingIsNeverLost ==
    Spec => []Framed
<1>1. TapInv => Framed
  <2> SUFFICES ASSUME TapInv PROVE Framed
      OBVIOUS
  <2> USE DEF TapInv, TapTypes, ConnectionTypes
  <2>1. CASE link # "up"
    <3>1. header = <<>> /\ Len(header) = 0
        BY <2>1 DEF OneAtATime
    <3> QED BY <2>1, <3>1 DEF Framed
  <2>2. CASE link = "up"
    <3>1. PICK q \in Seq(Message) : Carries(q) /\ Told(q)
        BY <2>2 DEF Stream
    <3>2. Len(q) \in Nat /\ Len(InHand) + Len(wire) = 3 * Len(q)
        BY <3>1 DEF Carries
    <3>3. CASE body = None
      <4>1. InHand = header /\ Len(InHand) = Len(header) /\ Len(header) \in 0..2
            /\ Len(wire) \in Nat
        <5>1. header \in Seq(Piece) /\ Len(header) <= 2 /\ wire \in Seq(Piece)
            OBVIOUS
        <5>2. InHand = header
            BY <3>3 DEF InHand
        <5> HIDE DEF TapInv, TapTypes, ConnectionTypes
        <5>3. Len(header) \in Nat /\ Len(wire) \in Nat
            BY <5>1
        <5>4. Len(header) \in 0..2
          <6> DEFINE n == Len(header)
          <6>1. n \in Nat /\ n <= 2
              BY <5>1, <5>3
          <6> HIDE DEF n
          <6>2. n \in 0..2
              BY <6>1, SMT
          <6> QED BY <6>2 DEF n
        <5>5. Len(InHand) = Len(header)
            BY <5>2, Zenon
        <5> QED BY <5>2, <5>3, <5>4, <5>5
      <4>2. ASSUME Len(header) >= 1 PROVE header[1] = <<q[1], 1>>
        <5>1. 1 \in 1..Len(q) /\ 3 * 1 - 2 = 1 /\ 1 <= Len(InHand)
            BY <3>2, <4>1, <4>2
        <5> QED BY <3>1, <4>1, <5>1 DEF Carries, Pending
      <4>3. ASSUME Len(header) = 2 PROVE header[2] = <<q[1], 2>>
        <5>1. 1 \in 1..Len(q) /\ 3 * 1 - 1 = 2 /\ 2 <= Len(InHand)
            BY <3>2, <4>1, <4>3
        <5> QED BY <3>1, <4>1, <5>1 DEF Carries, Pending
      <4>4. \A i \in 1..Len(header) : i = 1 \/ (i = 2 /\ Len(header) = 2)
        <5> HIDE DEF TapInv, TapTypes, ConnectionTypes
        <5> DEFINE n == Len(header)
        <5>1. n \in 0..2
            BY <4>1
        <5> HIDE DEF n
        <5>2. \A i \in 1..n : i = 1 \/ (i = 2 /\ n = 2)
            BY <5>1, SMT
        <5> QED BY <5>2 DEF n
      <4> QED BY <3>3, <4>1, <4>2, <4>3, <4>4 DEF Framed
    <3>4. CASE body # None
      <4>1. /\ InHand = <<<<body, 1>>, <<body, 2>>>> /\ Len(InHand) = 2 /\ Len(header) = 0
            /\ InHand[1] = <<body, 1>> /\ Len(wire) \in Nat
          BY <3>4 DEF InHand, OneAtATime
      <4>2. /\ 1 \in 1..Len(q) /\ 3 * 1 - 2 = 1 /\ 1 <= Len(InHand)
            /\ ~(3 * 1 <= Len(InHand)) /\ 3 * 1 - Len(InHand) = 1 /\ Len(wire) >= 1
          BY <3>2, <4>1
      <4>3. body = q[1]
        <5>1. <<body, 1>> = <<q[1], 1>>
            BY <3>1, <4>1, <4>2 DEF Carries, Pending
        <5> QED BY <5>1
      <4>4. wire[1] = <<q[1], "body">> /\ wire # <<>>
          BY <3>1, <4>2 DEF Carries, Pending
      <4> QED BY <4>1, <4>3, <4>4 DEF Framed
    <3> QED BY <3>3, <3>4
  <2> QED BY <2>1, <2>2
<1> QED
    BY <1>1, TapInductive, PTL

\* With nothing under way the router has exactly the users the server has on this
\* connection, each on a session of theirs, in spite of session ids that pass from
\* one player to another and of connections lost and redialled (the USER_STATE and
\* USER_REMOVE handlers, and drop_server before a redial).
THEOREM RouterKnowsTheUsers ==
    Spec => []RosterFollows
<1>1. TapInv => RosterFollows
  <2> SUFFICES ASSUME TapInv, link = "up", wire = <<>>, header = <<>>, body = None
               PROVE  users = present
      BY DEF RosterFollows, TapInv, Roster
  <2>1. PICK q \in Seq(Message) : Carries(q) /\ Told(q)
      BY DEF TapInv, Stream
  <2>2. InHand = <<>> /\ Len(InHand) = 0 /\ Len(wire) = 0
      BY DEF InHand
  <2>3. Len(q) = 0
      BY <2>1, <2>2 DEF Carries
  <2>4. \A i \in 1..(Len(q) + 1 - 1) : FALSE
      BY <2>3
  <2>5. \A s \in Session : users[s] = present[s]
      BY <2>1, <2>4 DEF Told, LastSaid
  <2> QED BY <2>5 DEF TapInv, TapTypes, RosterTypes
<1> QED
    BY <1>1, TapInductive, PTL

\* A session id that passes to another player never brings the vocoder state of
\* the one before along (the USER_REMOVE handler drops the chain with the user).
THEOREM NobodyInheritsAChain ==
    Spec => []ChainIsTheirs
<1>1. TapInv => ChainIsTheirs
    BY DEF TapInv
<1> QED
    BY <1>1, TapInductive, PTL

\* A voice packet is taken for what its sender made of it, whatever session,
\* sequence number and length its varints carry, and whether or not it is the last
\* of a transmission (parse_voice).
THEOREM VoiceIsAttributed ==
    Spec => []VoiceParses
<1>1. TapInv => VoiceParses
  <2> SUFFICES ASSUME TapInv, body # None, body.type = "UDP_TUNNEL",
                      NEW sequence \in Numbers, NEW last \in BOOLEAN, NEW voice \in Around
               PROVE  LET data == Packet(body.session, sequence, last, voice)
                      IN  ParseVoice(data) = [session |-> body.session, size |-> Len(voice),
                                              start |-> Len(data) - Len(voice) + 1]
      BY DEF VoiceParses
  <2>1. body.session \in Session
      BY MessageParts DEF TapInv, TapTypes, ConnectionTypes
  <2>2. body.session \in Nat /\ body.session \div 65536 < 65536
      BY <2>1, TapAssumption
  <2>3. sequence \in Encodable /\ voice \in Seq(Byte) /\ Len(voice) < 8192
      BY VarintAssumption DEF Encodable
  <2> DEFINE s == body.session
  <2> HIDE DEF s
  <2>4. s \in Nat /\ s \div 65536 < 65536
      BY <2>2 DEF s
  <2>5. ParseVoice(Packet(s, sequence, last, voice))
          = [session |-> s, size |-> Len(voice),
             start |-> Len(Packet(s, sequence, last, voice)) - Len(voice) + 1]
      BY <2>3, <2>4, PacketParses
  <2> QED BY <2>5 DEF s
<1> QED
    BY <1>1, TapInductive, PTL
===============================================================================

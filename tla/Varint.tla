--------------------------------- MODULE Varint ---------------------------------
(***************************************************************************)
(* Mumble's integers of variable length (src/src/varint.rs), and the voice *)
(* packet they frame (parse_voice in src/src/mumble.rs).  A buffer is a    *)
(* sequence of bytes, a shift is a division and an `or` of disjoint bits a *)
(* sum.                                                                    *)
(***************************************************************************)
EXTENDS Integers, Sequences

CONSTANTS
    Numbers, \* what is written: any number an i64 holds
    Around,  \* what a buffer may hold besides
    None     \* an empty Option

Byte == 0..255

ASSUME VarintAssumption ==
    /\ \A v \in Numbers : v \in Nat /\ ((v \div 65536) \div 65536) \div 65536 < 32768
    /\ \A bytes \in Around : bytes \in Seq(Byte) /\ Len(bytes) < 8192
    /\ None \notin [value : Int, next : Nat]

-------------------------------------------------------------------------------
\* Writing.

\* The four bytes of a number below 2^32, the highest first.
Word(v) ==
    <<v \div 16777216, (v \div 65536) % 256, (v \div 256) % 256, v % 256>>

\* Five bytes for a number below 2^32, nine for any other.
Wide(v) ==
    LET high == (v \div 65536) \div 65536
        w == Word(v)   h == Word(high)   l == Word(v % (65536 * 65536))
    IN  IF high = 0 THEN <<240, w[1], w[2], w[3], w[4]>>
        ELSE <<244, h[1], h[2], h[3], h[4], l[1], l[2], l[3], l[4]>>

\* write_varint, by the length of the number.
WriteVarint(v) ==
    IF v < 128 THEN <<v>>
    ELSE IF v < 16384 THEN <<128 + (v \div 256), v % 256>>
    ELSE IF v < 2097152 THEN <<192 + (v \div 65536), (v \div 256) % 256, v % 256>>
    ELSE IF v < 268435456
         THEN <<224 + (v \div 16777216), (v \div 65536) % 256, (v \div 256) % 256, v % 256>>
    ELSE Wide(v)

-------------------------------------------------------------------------------
\* Reading.

\* How many bytes follow the first one.
Following(b) ==
    IF b < 128 THEN 0 ELSE IF b < 192 THEN 1 ELSE IF b < 224 THEN 2
    ELSE IF b < 240 THEN 3 ELSE IF b < 244 THEN 4 ELSE IF b < 248 THEN 8 ELSE 0

\* take: the number in the four bytes from position p.
TakeWord(buf, p) ==
    16777216 * buf[p] + 65536 * buf[p + 1] + 256 * buf[p + 2] + buf[p + 3]

\* `as i64` of what eight bytes hold.
AsI64(high, low) ==
    (IF high < 32768 * 65536 THEN high ELSE high - 65536 * 65536) * (65536 * 65536) + low

Negates(b) == 248 <= b /\ b < 252

\* The number that starts with byte b at p, when it is not the negative of another.
Value(buf, p, b) ==
    IF b < 128 THEN b
    ELSE IF b < 192 THEN 256 * (b - 128) + buf[p + 1]
    ELSE IF b < 224 THEN 65536 * (b - 192) + 256 * buf[p + 1] + buf[p + 2]
    ELSE IF b < 240
         THEN 16777216 * (b - 224) + 65536 * buf[p + 1] + 256 * buf[p + 2] + buf[p + 3]
    ELSE IF b < 244 THEN TakeWord(buf, p + 1)
    ELSE IF b < 248 THEN AsI64(TakeWord(buf, p + 1), TakeWord(buf, p + 5))
    ELSE 252 - b

Plain(buf, p) ==
    IF p > Len(buf) THEN None
    ELSE IF p + Following(buf[p]) > Len(buf) THEN None
    ELSE [value |-> Value(buf, p, buf[p]), next |-> p + Following(buf[p]) + 1]

\* The first position from p on that does not say "the negative of what follows".
Magnitude(buf, p) ==
    CHOOSE q \in p..(Len(buf) + 1) :
        /\ q = Len(buf) + 1 \/ ~Negates(buf[q])
        /\ \A i \in p..(q - 1) : Negates(buf[i])

\* Reader::varint: what is read at p and where the next read starts.
ReadVarint(buf, p) ==
    LET q    == Magnitude(buf, p)
        read == Plain(buf, q)
        sign == IF (q - p) % 2 = 0 THEN 1 ELSE -1
    IN  IF read = None THEN None ELSE [read EXCEPT !.value = sign * @]

-------------------------------------------------------------------------------
\* A voice packet.

AsU32(v) == ((v \div 65536) % 65536) * 65536 + (v % 65536)

\* Mutation: a position taken for a count.
FitsShort(data, start, size) == start + size <= Len(data)

Fits(data, start, size) == start - 1 + size <= Len(data)

OPUS == 4

\* parse_voice: the session, and where its audio is.
ParseVoice(data) ==
    LET codec    == data[1] \div 32
        session  == ReadVarint(data, 2)
        sequence == ReadVarint(data, session.next)
        length   == ReadVarint(data, sequence.next)
        voice(start, size) ==
            IF ~Fits(data, start, size) THEN None
            ELSE [session |-> AsU32(session.value), start |-> start, size |-> size]
    IN  IF data = <<>> THEN None
        ELSE IF session = None THEN None
        ELSE IF sequence = None THEN None
        ELSE IF codec # OPUS THEN voice(sequence.next, Len(data) - sequence.next + 1)
        ELSE IF length = None THEN None
        ELSE voice(length.next, length.value % 8192)

\* A packet as the server sends it: 8192 in its length marks the last one.
Packet(session, sequence, last, voice) ==
    <<32 * OPUS>> \o WriteVarint(session) \o WriteVarint(sequence)
        \o WriteVarint(Len(voice) + (IF last THEN 8192 ELSE 0)) \o voice

-------------------------------------------------------------------------------
\* Whatever is written is read back, whatever is before and after it, and the
\* next read starts where it ends: every length class of the writer is the
\* reader's.
VarintRoundTrips ==
    \A v \in Numbers, before \in Around, after \in Around :
        ReadVarint(before \o WriteVarint(v) \o after, Len(before) + 1)
            = [value |-> v, next |-> Len(before) + Len(WriteVarint(v)) + 1]
===============================================================================

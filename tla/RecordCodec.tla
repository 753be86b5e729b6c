------------------------------ MODULE RecordCodec ------------------------------
(***************************************************************************)
(* storage/utils/record_utils.h: the variable-length integers and the values of a       *)
(* record of sqlite.  A word or a byte is the set of the bits that are one.           *)
(***************************************************************************)
EXTENDS Integers, FiniteSets, SequencesExt

Shl(word, n, width) == {b + n : b \in {c \in word : c + n < width}}

Shr(word, n) == {b - n : b \in {c \in word : c >= n}}

Low7 == 0 .. 6

SLOT_2_0 == Low7 \cup 14 .. 20

\* Mutant: three of the four bits at the top.
SLOT_4_2_0_short == SLOT_2_0 \cup 28 .. 30

SLOT_4_2_0 == SLOT_2_0 \cup 28 .. 31

\* a <<= n, of a u32.
u32(word, n) == Shl(word, n, 32)

More(word) == 7 \in word

Read(n, v) == [n |-> n, v |-> v]

\* v = (u64)s << 32 | a
Both(s, a) == Shl(s, 32, 64) \cup a

------------------------------------------------------------------------------
(* Reading *)

\* The last byte of the nine gives eight bits.
GetVarint9(p, a, b, s) ==
  Read(9, Both(u32(s, 4) \cup Shr(p[5] \cap Low7, 3), u32(a, 15) \cup p[9] \cup u32(b \cap SLOT_2_0, 8)))

\* Bytes six to eight: a has byte five in its low bits, b byte four, s the bytes before.
GetVarint6(p, a, b, s) ==
  LET b6 == u32(b, 14) \cup p[6]
      a7 == u32(a, 14) \cup p[7]
      a7m == a7 \cap SLOT_2_0
      b8 == u32(b6, 14) \cup p[8]
  IN  IF ~More(b6) THEN Read(6, Both(Shr(s, 18), u32(a \cap SLOT_2_0, 7) \cup b6))
      ELSE IF ~More(a7) THEN Read(7, Both(Shr(s, 11), (a7 \cap SLOT_4_2_0) \cup u32(b6 \cap SLOT_2_0, 7)))
      ELSE IF ~More(b8) THEN Read(8, Both(Shr(s, 4), u32(a7m, 7) \cup (b8 \cap SLOT_4_2_0)))
      ELSE GetVarint9(p, a7m, b8, s)

sqlite3GetVarint(p) ==
  LET a3 == u32(p[1], 14) \cup p[3]
      a3m == a3 \cap SLOT_2_0
      b4 == u32(p[2], 14) \cup p[4]
      b4m == b4 \cap SLOT_2_0
      a5 == u32(a3m, 14) \cup p[5]
  IN  IF ~More(p[1]) THEN Read(1, p[1])
      ELSE IF ~More(p[2]) THEN Read(2, u32(p[1] \cap Low7, 7) \cup p[2])
      ELSE IF ~More(a3) THEN Read(3, a3m \cup u32(p[2] \cap Low7, 7))
      ELSE IF ~More(b4) THEN Read(4, u32(a3m, 7) \cup b4m)
      ELSE IF ~More(a5) THEN Read(5, Both(Shr(a3m, 18), a5 \cup u32(b4m, 7)))
      ELSE GetVarint6(p, a5, b4m, u32(a3m, 7) \cup b4m)

\* What does not fit into 32 bits is read as the largest value.
sqlite3GetVarint32(p) ==
  LET a == u32(p[1], 14) \cup p[3]
      r == sqlite3GetVarint(p)
  IN  IF ~More(p[2]) THEN Read(2, u32(p[1] \cap Low7, 7) \cup p[2])
      ELSE IF ~More(a) THEN Read(3, (a \cap SLOT_2_0) \cup u32(p[2] \cap Low7, 7))
      ELSE [r EXCEPT !.v = IF @ \subseteq 0 .. 31 THEN @ ELSE 0 .. 31]

getVarint32(p) == IF ~More(p[1]) THEN Read(1, p[1]) ELSE sqlite3GetVarint32(p)

smallTypeSizes(t) == IF t < 12 THEN << 0, 1, 2, 3, 4, 6, 8, 8, 0, 0, 0, 0 >>[t + 1] ELSE (t - 12) \div 2

serialTypeLen(t) == IF t >= 128 THEN (t - 12) \div 2 ELSE smallTypeSizes(t)

Null == [flags |-> "null", v |-> {}]

\* Type 10 is not supported: nothing is stored.
Untouched == [flags |-> "none", v |-> {}]

IntVal(v) == [flags |-> "int", v |-> v]

\* The first n bytes, highest first, as an unsigned word.
Unsigned(buf, n) == UNION {Shl(buf[i], 8 * (n - i), 64) : i \in 1 .. n}

\* Multiplied out from an i8, the first byte extends its sign to the left.
Signed(buf, n) == Unsigned(buf, n) \cup (IF 7 \in buf[1] THEN 8 * n .. 63 ELSE {})

IsNaN(x) == 52 .. 62 \subseteq x /\ x \cap (0 .. 51) # {}

serialGetReal(buf, t) ==
  LET x == Both(Unsigned(buf, 4), Unsigned(Tail(Tail(Tail(Tail(buf)))), 4))
  IN  IF t = 6 THEN IntVal(x)
      ELSE IF IsNaN(x) THEN Null
      ELSE [flags |-> "real", v |-> x]

\* The bytes read and the value; of a string or blob the value is its length.
recordSerialGet(buf, t) ==
  CASE t \in {0, 11} -> << 0, Null >>
    [] t = 10 -> << 0, Untouched >>
    [] t \in 1 .. 4 -> << t, IntVal(Signed(buf, t)) >>
    [] t = 5 -> << 6, IntVal(Unsigned(Tail(Tail(buf)), 4) \cup Shl(Signed(buf, 2), 32, 64)) >>
    [] t \in {6, 7} -> << 8, serialGetReal(buf, t) >>
    [] t \in {8, 9} -> << 0, IntVal(IF t = 9 THEN {0} ELSE {}) >>
    [] OTHER -> << (t - 12) \div 2, [flags |-> IF t % 2 = 0 THEN "blob" ELSE "str", v |-> {}] >>

------------------------------------------------------------------------------
(* Writing, by sqlite *)

\* Seven bits a byte; beyond 56 bits nine bytes.
VarintLen(v) == CHOOSE n \in 1 .. 9 : /\ n = 9 \/ v \subseteq 0 .. 7 * n - 1
                                      /\ n = 1 \/ ~(v \subseteq 0 .. 7 * (n - 1) - 1)

\* Highest bits first, and what happens to follow.
sqlite3PutVarint(v) ==
  LET n == VarintLen(v)
      Byte(i) == IF n = 9 THEN (IF i = 9 THEN v \cap (0 .. 7) ELSE Shr(v, 8 + 7 * (8 - i)) \cap Low7)
                 ELSE Shr(v, 7 * (n - i)) \cap Low7
  IN  [i \in 1 .. 9 |-> IF i > n THEN 0 .. 7 ELSE Byte(i) \cup (IF i < n THEN {7} ELSE {})]

Width(t) == << 1, 2, 3, 4, 6, 8 >>[t]

\* sqlite3VdbeSerialType of an integer: the narrowest type it fits.
SerialType(v) ==
  LET Fits(t) == \/ v \cap (8 * Width(t) - 1 .. 63) = {}
                 \/ 8 * Width(t) - 1 .. 63 \subseteq v
  IN  IF v = {} THEN 8 ELSE IF v = {0} THEN 9
      ELSE CHOOSE t \in 1 .. 6 : Fits(t) /\ \A u \in 1 .. t - 1 : ~Fits(u)

\* sqlite3VdbeSerialPut
SerialPut(v, n) == [i \in 1 .. n |-> Shr(v, 8 * (n - i)) \cap (0 .. 7)]

==============================================================================

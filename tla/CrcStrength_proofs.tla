------------------------- MODULE CrcStrength_proofs -------------------------
(***************************************************************************)
(* Proofs about CrcStrength, for any bytes in a payload of any length and  *)
(* any damage to a raw value: one changed byte never passes the check, a   *)
(* message is read as it was sent or, with one byte damaged, not at all,   *)
(* and the table is the polynomial division.                               *)
(*                                                                         *)
(* What is proved of a byte is proved from its eight bits (BitsOfByte).    *)
(***************************************************************************)
EXTENDS CrcStrength, FiniteSetTheorems, TLAPS

-----------------------------------------------------------------------------
(* Bytes and bits.                                                         *)

Binary == {0, 1}

\* The byte with the bits a (lowest) to h.
Num(a, b, c, d, e, f, g, h) ==
  a + 2 * b + 4 * c + 8 * d + 16 * e + 32 * f + 64 * g + 128 * h

LEMMA BitsOfByte ==
  ASSUME NEW n \in Byte
  PROVE  /\ n = Num(Bit(n, 1), Bit(n, 2), Bit(n, 4), Bit(n, 8), Bit(n, 16), Bit(n, 32), Bit(n, 64), Bit(n, 128))
         /\ Bit(n, 1) \in Binary /\ Bit(n, 2) \in Binary /\ Bit(n, 4) \in Binary /\ Bit(n, 8) \in Binary
         /\ Bit(n, 16) \in Binary /\ Bit(n, 32) \in Binary /\ Bit(n, 64) \in Binary /\ Bit(n, 128) \in Binary
BY DEF Num, Byte, Bit, Binary

\* Xor bit by bit.
LEMMA XorIs ==
  ASSUME NEW m \in Byte, NEW n \in Byte
  PROVE  LET at(w) == (Bit(m, w) + Bit(n, w)) % 2
             x == Xor(m, n)
         IN /\ x = Num(at(1), at(2), at(4), at(8), at(16), at(32), at(64), at(128))
            /\ x \in Byte
            /\ Bit(x, 1) = at(1) /\ Bit(x, 2) = at(2) /\ Bit(x, 4) = at(4) /\ Bit(x, 8) = at(8)
            /\ Bit(x, 16) = at(16) /\ Bit(x, 32) = at(32) /\ Bit(x, 64) = at(64) /\ Bit(x, 128) = at(128)
<1> DEFINE at(w) == (Bit(m, w) + Bit(n, w)) % 2
<1>1. /\ at(1) \in Binary /\ at(2) \in Binary /\ at(4) \in Binary /\ at(8) \in Binary
      /\ at(16) \in Binary /\ at(32) \in Binary /\ at(64) \in Binary /\ at(128) \in Binary
  BY BitsOfByte DEF Binary
<1>2. Xor(m, n) = Num(at(1), at(2), at(4), at(8), at(16), at(32), at(64), at(128))
  BY <1>1 DEF Xor, Num, Binary
<1> HIDE DEF at
<1>3. LET x == Xor(m, n) IN
      /\ x \in Byte
      /\ Bit(x, 1) = at(1) /\ Bit(x, 2) = at(2) /\ Bit(x, 4) = at(4) /\ Bit(x, 8) = at(8)
      /\ Bit(x, 16) = at(16) /\ Bit(x, 32) = at(32) /\ Bit(x, 64) = at(64) /\ Bit(x, 128) = at(128)
  BY <1>1, <1>2 DEF Num, Bit, Byte, Binary
<1> QED BY <1>2, <1>3 DEF at

\* What is xored twice is gone.
LEMMA XorCancels ==
  ASSUME NEW m \in Byte, NEW n \in Byte
  PROVE  Xor(m, Xor(m, n)) = n /\ Xor(Xor(m, n), n) = m
<1>1. \A a, b \in Binary : (a + ((a + b) % 2)) % 2 = b /\ (((a + b) % 2) + b) % 2 = a
  BY DEF Binary
<1>2. Xor(m, n) \in Byte
  BY XorIs
<1> DEFINE x == Xor(m, n)  y == Xor(m, x)  z == Xor(x, n)
<1>3. /\ Bit(y, 1) = Bit(n, 1) /\ Bit(y, 2) = Bit(n, 2) /\ Bit(y, 4) = Bit(n, 4) /\ Bit(y, 8) = Bit(n, 8)
      /\ Bit(y, 16) = Bit(n, 16) /\ Bit(y, 32) = Bit(n, 32) /\ Bit(y, 64) = Bit(n, 64)
      /\ Bit(y, 128) = Bit(n, 128) /\ y \in Byte
  BY <1>1, <1>2, XorIs, BitsOfByte
<1>4. /\ Bit(z, 1) = Bit(m, 1) /\ Bit(z, 2) = Bit(m, 2) /\ Bit(z, 4) = Bit(m, 4) /\ Bit(z, 8) = Bit(m, 8)
      /\ Bit(z, 16) = Bit(m, 16) /\ Bit(z, 32) = Bit(m, 32) /\ Bit(z, 64) = Bit(m, 64)
      /\ Bit(z, 128) = Bit(m, 128) /\ z \in Byte
  BY <1>1, <1>2, XorIs, BitsOfByte
<1> QED
  <2> HIDE DEF y, z
  <2> SUFFICES y = n /\ z = m
    BY DEF y, z
  <2> QED BY <1>3, <1>4, BitsOfByte

LEMMA XorFacts ==
  /\ \A m, n \in Byte : Xor(m, n) \in Byte
  /\ \A m \in Byte : Xor(m, 0) = m /\ Xor(m, 255 - m) = 255 /\ 255 - m \in Byte
<1>1. \A m, n \in Byte : Xor(m, n) \in Byte
  BY XorIs
<1>2. ASSUME NEW m \in Byte
      PROVE  Xor(m, 0) = m
  BY BitsOfByte DEF Xor, Num, Byte, Bit, Binary
<1>3. ASSUME NEW m \in Byte
      PROVE  Xor(m, 255 - m) = 255 /\ 255 - m \in Byte
  <2> DEFINE n == 255 - m  not(w) == 1 - Bit(m, w)
  <2>3. /\ Bit(n, 1) = not(1) /\ Bit(n, 2) = not(2) /\ Bit(n, 4) = not(4) /\ Bit(n, 8) = not(8)
        /\ Bit(n, 16) = not(16) /\ Bit(n, 32) = not(32) /\ Bit(n, 64) = not(64) /\ Bit(n, 128) = not(128)
        /\ n \in Byte
    BY DEF Bit, Byte
  <2>4. \A b \in Binary : (b + (1 - b)) % 2 = 1
    BY DEF Binary
  <2>5. Xor(m, n) = Num(1, 1, 1, 1, 1, 1, 1, 1)
    <3> HIDE DEF n
    <3> QED BY <2>3, <2>4, XorIs, BitsOfByte
  <2>6. Num(1, 1, 1, 1, 1, 1, 1, 1) = 255
    BY DEF Num
  <2> QED BY <2>3, <2>5, <2>6
<1> QED BY <1>1, <1>2, <1>3

\* Xor with one byte takes different bytes to different bytes, from either side.
LEMMA XorInjective ==
  ASSUME NEW k \in Byte, NEW m \in Byte, NEW n \in Byte, m # n
  PROVE  Xor(k, m) # Xor(k, n) /\ Xor(m, k) # Xor(n, k)
<1>1. Xor(k, Xor(k, m)) = m /\ Xor(k, Xor(k, n)) = n
  BY XorCancels
<1>2. Xor(Xor(m, k), k) = m /\ Xor(Xor(n, k), k) = n
  BY XorCancels
<1> QED BY <1>1, <1>2

\* Undamaged, a byte is undamaged; damaged, it is another.
LEMMA XorDamages ==
  ASSUME NEW m \in Byte, NEW n \in Byte, n # 0
  PROVE  Xor(m, n) # m
<1>1. 0 \in Byte
  BY DEF Byte
<1>2. Xor(m, n) # Xor(m, 0)
  BY <1>1, XorInjective
<1> QED BY <1>2, XorFacts

-----------------------------------------------------------------------------
(* The table.                                                              *)

\* Where in crc8_table a byte stands.
IndexOf == <<
    0, 217, 181, 108, 109, 180, 216,   1, 218,   3, 111, 182, 183, 110,   2, 219,
  179, 106,   6, 223, 222,   7, 107, 178, 105, 176, 220,   5,   4, 221, 177, 104,
   97, 184, 212,  13,  12, 213, 185,  96, 187,  98,  14, 215, 214,  15,  99, 186,
  210,  11, 103, 190, 191, 102,  10, 211,   8, 209, 189, 100, 101, 188, 208,   9,
  194,  27, 119, 174, 175, 118,  26, 195,  24, 193, 173, 116, 117, 172, 192,  25,
  113, 168, 196,  29,  28, 197, 169, 112, 171, 114,  30, 199, 198,  31, 115, 170,
  163, 122,  22, 207, 206,  23, 123, 162, 121, 160, 204,  21,  20, 205, 161, 120,
   16, 201, 165, 124, 125, 164, 200,  17, 202,  19, 127, 166, 167, 126,  18, 203,
  131,  90,  54, 239, 238,  55,  91, 130,  89, 128, 236,  53,  52, 237, 129,  88,
   48, 233, 133,  92,  93, 132, 232,  49, 234,  51,  95, 134, 135,  94,  50, 235,
  226,  59,  87, 142, 143,  86,  58, 227,  56, 225, 141,  84,  85, 140, 224,  57,
   81, 136, 228,  61,  60, 229, 137,  80, 139,  82,  62, 231, 230,  63,  83, 138,
   65, 152, 244,  45,  44, 245, 153,  64, 155,  66,  46, 247, 246,  47,  67, 154,
  242,  43,  71, 158, 159,  70,  42, 243,  40, 241, 157,  68,  69, 156, 240,  41,
   32, 249, 149,  76,  77, 148, 248,  33, 250,  35,  79, 150, 151,  78,  34, 251,
  147,  74,  38, 255, 254,  39,  75, 146,  73, 144, 252,  37,  36, 253, 145,  72 >>

LEMMA TableInverse ==
  \A x \in Byte : crc8_table[x + 1] \in Byte /\ IndexOf[crc8_table[x + 1] + 1] = x
BY SMTT(60) DEF crc8_table, IndexOf, Byte

\* Different bytes give different CRCs, and so do different CRCs before one byte.
LEMMA TurnInjective ==
  /\ \A crc, b \in Byte : Turn(crc, b) \in Byte
  /\ \A crc, a, b \in Byte : a # b => Turn(crc, a) # Turn(crc, b)
  /\ \A crc, other, b \in Byte : crc # other => Turn(crc, b) # Turn(other, b)
<1>1. \A x, y \in Byte : x # y => crc8_table[x + 1] # crc8_table[y + 1]
  BY TableInverse
<1>2. \A m, n \in Byte : Xor(m, n) \in Byte
  BY XorFacts
<1>3. \A m, n \in Byte : Turn(m, n) = crc8_table[Xor(m, n) + 1]
  BY DEF Turn
<1>4. \A crc, b \in Byte : Turn(crc, b) \in Byte
  <2> TAKE crc, b \in Byte
  <2>1. Xor(crc, b) \in Byte /\ Turn(crc, b) = crc8_table[Xor(crc, b) + 1]
    BY <1>2, <1>3
  <2>2. \A x \in Byte : crc8_table[x + 1] \in Byte
    BY TableInverse
  <2> QED BY <2>1, <2>2
<1>5. \A crc, a, b \in Byte : a # b => Turn(crc, a) # Turn(crc, b)
  <2> TAKE crc, a, b \in Byte
  <2> HAVE a # b
  <2>1. Xor(crc, a) # Xor(crc, b)
    BY XorInjective
  <2>2. /\ Xor(crc, a) \in Byte /\ Turn(crc, a) = crc8_table[Xor(crc, a) + 1]
        /\ Xor(crc, b) \in Byte /\ Turn(crc, b) = crc8_table[Xor(crc, b) + 1]
    BY <1>2, <1>3
  <2> QED BY <1>1, <2>1, <2>2
<1>6. \A crc, other, b \in Byte : crc # other => Turn(crc, b) # Turn(other, b)
  <2> TAKE crc, other, b \in Byte
  <2> HAVE crc # other
  <2>1. Xor(crc, b) # Xor(other, b)
    BY XorInjective
  <2>2. /\ Xor(crc, b) \in Byte /\ Turn(crc, b) = crc8_table[Xor(crc, b) + 1]
        /\ Xor(other, b) \in Byte /\ Turn(other, b) = crc8_table[Xor(other, b) + 1]
    BY <1>2, <1>3
  <2> QED BY <1>1, <2>1, <2>2
<1> QED BY <1>4, <1>5, <1>6

\* Eight shifts of a byte by the polynomial are its entry in the table.
LEMMA ShiftIs ==
  \A r \in Byte : Shift(r) = IF r < 128 THEN 2 * r ELSE 2 * r - 249 - 2 * ((2 * r) % 8)
BY SMTT(60) DEF Shift, Xor, Bit, Byte

LEMMA TableIsRemainder == \A x \in Byte : crc8_table[x + 1] = Remainder[x]
BY ShiftIs, SMTT(60) DEF Remainder, FourShifts, crc8_table, Byte

-----------------------------------------------------------------------------
(* The bits from the other end.                                            *)

\* A byte has eight bits.
LEMMA BinaryDigits ==
  ASSUME NEW n \in Byte
  PROVE  \E a, b, c, d, e, f, g, h \in Binary : n = Num(a, b, c, d, e, f, g, h)
<1> /\ Bit(n, 1) \in Binary /\ Bit(n, 2) \in Binary /\ Bit(n, 4) \in Binary /\ Bit(n, 8) \in Binary
    /\ Bit(n, 16) \in Binary /\ Bit(n, 32) \in Binary /\ Bit(n, 64) \in Binary /\ Bit(n, 128) \in Binary
  BY BitsOfByte
<1> WITNESS Bit(n, 1) \in Binary, Bit(n, 2) \in Binary, Bit(n, 4) \in Binary, Bit(n, 8) \in Binary,
            Bit(n, 16) \in Binary, Bit(n, 32) \in Binary, Bit(n, 64) \in Binary, Bit(n, 128) \in Binary
<1> QED BY BitsOfByte

\* What each line of reverse_bits does to the bits of a byte.
LEMMA ExchangeNibbles ==
  ASSUME NEW n \in Byte
  PROVE  LET x == Exchange(n, 240, 15, 16) IN
         /\ x \in Byte
         /\ Bit(x, 1) = Bit(n, 16) /\ Bit(x, 2) = Bit(n, 32) /\ Bit(x, 4) = Bit(n, 64) /\ Bit(x, 8) = Bit(n, 128)
         /\ Bit(x, 16) = Bit(n, 1) /\ Bit(x, 32) = Bit(n, 2) /\ Bit(x, 64) = Bit(n, 4) /\ Bit(x, 128) = Bit(n, 8)
<1>1. PICK a, b, c, d, e, f, g, h \in Binary : n = Num(a, b, c, d, e, f, g, h)
  BY BinaryDigits
<1>2. /\ Bit(n, 1) = a /\ Bit(n, 2) = b /\ Bit(n, 4) = c /\ Bit(n, 8) = d
      /\ Bit(n, 16) = e /\ Bit(n, 32) = f /\ Bit(n, 64) = g /\ Bit(n, 128) = h
  BY <1>1 DEF Num, Bit, Binary
<1>3. Exchange(Num(a, b, c, d, e, f, g, h), 240, 15, 16) = Num(e, f, g, h, a, b, c, d)
  BY DEF Exchange, And, Num, Binary, Bit
<1>4. LET x == Num(e, f, g, h, a, b, c, d) IN
      /\ x \in Byte
      /\ Bit(x, 1) = e /\ Bit(x, 2) = f /\ Bit(x, 4) = g /\ Bit(x, 8) = h
      /\ Bit(x, 16) = a /\ Bit(x, 32) = b /\ Bit(x, 64) = c /\ Bit(x, 128) = d
  BY DEF Num, Bit, Binary, Byte
<1> QED BY <1>1, <1>2, <1>3, <1>4

LEMMA ExchangePairs ==
  ASSUME NEW n \in Byte
  PROVE  LET x == Exchange(n, 204, 51, 4) IN
         /\ x \in Byte
         /\ Bit(x, 1) = Bit(n, 4) /\ Bit(x, 2) = Bit(n, 8) /\ Bit(x, 4) = Bit(n, 1) /\ Bit(x, 8) = Bit(n, 2)
         /\ Bit(x, 16) = Bit(n, 64) /\ Bit(x, 32) = Bit(n, 128) /\ Bit(x, 64) = Bit(n, 16) /\ Bit(x, 128) = Bit(n, 32)
<1>1. PICK a, b, c, d, e, f, g, h \in Binary : n = Num(a, b, c, d, e, f, g, h)
  BY BinaryDigits
<1>2. /\ Bit(n, 1) = a /\ Bit(n, 2) = b /\ Bit(n, 4) = c /\ Bit(n, 8) = d
      /\ Bit(n, 16) = e /\ Bit(n, 32) = f /\ Bit(n, 64) = g /\ Bit(n, 128) = h
  BY <1>1 DEF Num, Bit, Binary
<1>3. Exchange(Num(a, b, c, d, e, f, g, h), 204, 51, 4) = Num(c, d, a, b, g, h, e, f)
  BY DEF Exchange, And, Num, Binary, Bit
<1>4. LET x == Num(c, d, a, b, g, h, e, f) IN
      /\ x \in Byte
      /\ Bit(x, 1) = c /\ Bit(x, 2) = d /\ Bit(x, 4) = a /\ Bit(x, 8) = b
      /\ Bit(x, 16) = g /\ Bit(x, 32) = h /\ Bit(x, 64) = e /\ Bit(x, 128) = f
  BY DEF Num, Bit, Binary, Byte
<1> QED BY <1>1, <1>2, <1>3, <1>4

LEMMA ExchangeNeighbours ==
  ASSUME NEW n \in Byte
  PROVE  LET x == Exchange(n, 170, 85, 2) IN
         /\ x \in Byte
         /\ Bit(x, 1) = Bit(n, 2) /\ Bit(x, 2) = Bit(n, 1) /\ Bit(x, 4) = Bit(n, 8) /\ Bit(x, 8) = Bit(n, 4)
         /\ Bit(x, 16) = Bit(n, 32) /\ Bit(x, 32) = Bit(n, 16) /\ Bit(x, 64) = Bit(n, 128) /\ Bit(x, 128) = Bit(n, 64)
<1>1. PICK a, b, c, d, e, f, g, h \in Binary : n = Num(a, b, c, d, e, f, g, h)
  BY BinaryDigits
<1>2. /\ Bit(n, 1) = a /\ Bit(n, 2) = b /\ Bit(n, 4) = c /\ Bit(n, 8) = d
      /\ Bit(n, 16) = e /\ Bit(n, 32) = f /\ Bit(n, 64) = g /\ Bit(n, 128) = h
  BY <1>1 DEF Num, Bit, Binary
<1>3. Exchange(Num(a, b, c, d, e, f, g, h), 170, 85, 2) = Num(b, a, d, c, f, e, h, g)
  BY DEF Exchange, And, Num, Binary, Bit
<1>4. LET x == Num(b, a, d, c, f, e, h, g) IN
      /\ x \in Byte
      /\ Bit(x, 1) = b /\ Bit(x, 2) = a /\ Bit(x, 4) = d /\ Bit(x, 8) = c
      /\ Bit(x, 16) = f /\ Bit(x, 32) = e /\ Bit(x, 64) = h /\ Bit(x, 128) = g
  BY DEF Num, Bit, Binary, Byte
<1> QED BY <1>1, <1>2, <1>3, <1>4

\* The driver turns a byte round, and so does reverse_bits.
LEMMA Mirrors ==
  ASSUME NEW n \in Byte
  PROVE  LET x == Mirror(n) IN
         /\ x \in Byte
         /\ Bit(x, 1) = Bit(n, 128) /\ Bit(x, 2) = Bit(n, 64) /\ Bit(x, 4) = Bit(n, 32) /\ Bit(x, 8) = Bit(n, 16)
         /\ Bit(x, 16) = Bit(n, 8) /\ Bit(x, 32) = Bit(n, 4) /\ Bit(x, 64) = Bit(n, 2) /\ Bit(x, 128) = Bit(n, 1)
<1>1. PICK a, b, c, d, e, f, g, h \in Binary : n = Num(a, b, c, d, e, f, g, h)
  BY BinaryDigits
<1>2. /\ Bit(n, 1) = a /\ Bit(n, 2) = b /\ Bit(n, 4) = c /\ Bit(n, 8) = d
      /\ Bit(n, 16) = e /\ Bit(n, 32) = f /\ Bit(n, 64) = g /\ Bit(n, 128) = h
  BY <1>1 DEF Num, Bit, Binary
<1>3. Mirror(Num(a, b, c, d, e, f, g, h)) = Num(h, g, f, e, d, c, b, a)
  BY DEF Mirror, Num, Binary, Bit
<1>4. LET x == Num(h, g, f, e, d, c, b, a) IN
      /\ x \in Byte
      /\ Bit(x, 1) = h /\ Bit(x, 2) = g /\ Bit(x, 4) = f /\ Bit(x, 8) = e
      /\ Bit(x, 16) = d /\ Bit(x, 32) = c /\ Bit(x, 64) = b /\ Bit(x, 128) = a
  BY DEF Num, Bit, Binary, Byte
<1> QED BY <1>1, <1>2, <1>3, <1>4

LEMMA Reverses ==
  ASSUME NEW n \in Byte
  PROVE  LET x == reverse_bits(n) IN
         /\ x \in Byte
         /\ Bit(x, 1) = Bit(n, 128) /\ Bit(x, 2) = Bit(n, 64) /\ Bit(x, 4) = Bit(n, 32) /\ Bit(x, 8) = Bit(n, 16)
         /\ Bit(x, 16) = Bit(n, 8) /\ Bit(x, 32) = Bit(n, 4) /\ Bit(x, 64) = Bit(n, 2) /\ Bit(x, 128) = Bit(n, 1)
BY ExchangeNibbles, ExchangePairs, ExchangeNeighbours DEF reverse_bits

\* Bytes with the same bits are the same.
LEMMA SameBits ==
  ASSUME NEW m \in Byte, NEW n \in Byte,
         Bit(m, 1) = Bit(n, 1), Bit(m, 2) = Bit(n, 2), Bit(m, 4) = Bit(n, 4), Bit(m, 8) = Bit(n, 8),
         Bit(m, 16) = Bit(n, 16), Bit(m, 32) = Bit(n, 32), Bit(m, 64) = Bit(n, 64), Bit(m, 128) = Bit(n, 128)
  PROVE  m = n
BY BitsOfByte

LEMMA ReverseUndoesMirror ==
  ASSUME NEW n \in Byte
  PROVE  Mirror(n) \in Byte /\ Reversed[Mirror(n)] = n
<1>1. Mirror(n) \in Byte /\ reverse_bits(Mirror(n)) \in Byte
  BY Mirrors, Reverses
<1>2. reverse_bits(Mirror(n)) = n
  BY <1>1, Mirrors, Reverses, SameBits
<1> QED BY <1>1, <1>2 DEF Reversed

\* reverse_bits keeps bytes apart.
LEMMA ReversedInjective ==
  /\ \A n \in Byte : Reversed[n] \in Byte
  /\ \A m, n \in Byte : m # n => Reversed[m] # Reversed[n]
<1>1. ASSUME NEW n \in Byte
      PROVE  reverse_bits(n) \in Byte /\ Mirror(reverse_bits(n)) = n
  <2>1. reverse_bits(n) \in Byte /\ Mirror(reverse_bits(n)) \in Byte
    BY Mirrors, Reverses
  <2> QED BY <2>1, Mirrors, Reverses, SameBits
<1> QED BY <1>1 DEF Reversed

-----------------------------------------------------------------------------
(* What is read of a raw value.                                            *)

LEMMA MasksType == Masks \subseteq [1 .. 4 -> Byte] /\ NoDamage \in Masks
<1>1. NoDamage \in [1 .. 4 -> Byte]
  BY DEF NoDamage, Byte
<1>2. \A m \in Byte : <<0, 0, m, m>> \in [1 .. 4 -> Byte]
  BY DEF Byte
<1> QED BY <1>1, <1>2, CrcAssumption DEF Masks

\* The value of a message, damaged or not, byte by byte.
LEMMA RawValue ==
  ASSUME NEW b \in Byte, NEW mask \in [1 .. 4 -> Byte]
  PROVE  LET sent == Report(DATA, b)  raw == Damaged(sent, mask) IN
         /\ \A i \in 1 .. 4 : sent[i] \in Byte /\ raw[i] \in Byte /\ raw[i] = Xor(sent[i], mask[i])
         /\ Reversed[sent[1]] = DATA /\ Reversed[sent[2]] = 255 - DATA
         /\ Reversed[sent[3]] = b /\ Reversed[sent[4]] = 255 - b
<1> DEFINE sent == Report(DATA, b)
<1>1. DATA \in Byte /\ 255 - DATA \in Byte /\ 255 - b \in Byte
  BY DEF DATA, Byte
<1>2. /\ sent[1] = Mirror(DATA) /\ sent[2] = Mirror(255 - DATA)
      /\ sent[3] = Mirror(b) /\ sent[4] = Mirror(255 - b)
  BY DEF Report
<1>3. /\ sent[1] \in Byte /\ sent[2] \in Byte /\ sent[3] \in Byte /\ sent[4] \in Byte
      /\ Reversed[sent[1]] = DATA /\ Reversed[sent[2]] = 255 - DATA
      /\ Reversed[sent[3]] = b /\ Reversed[sent[4]] = 255 - b
  BY <1>1, <1>2, ReverseUndoesMirror
<1> HIDE DEF sent
<1>4. \A i \in 1 .. 4 : sent[i] \in Byte /\ mask[i] \in Byte
  <2>1. \A i \in 1 .. 4 : i = 1 \/ i = 2 \/ i = 3 \/ i = 4
    OBVIOUS
  <2> QED BY <1>3, <2>1
<1>5. \A i \in 1 .. 4 : Damaged(sent, mask)[i] = Xor(sent[i], mask[i])
  BY DEF Damaged
<1>6. \A i \in 1 .. 4 : Damaged(sent, mask)[i] \in Byte
  BY <1>4, <1>5, XorFacts
<1> QED BY <1>3, <1>4, <1>5, <1>6 DEF sent

LEMMA ReceivedIs ==
  ASSUME NEW b \in Bytes, NEW mask \in Masks
  PROVE  LET raw == Damaged(Report(DATA, b), mask) IN
         Received[b][mask] = IF Valid(raw) THEN Scancode(raw) ELSE Unread
BY DEF Received

\* An address or a command that is 0 to 255 comes out of every raw value.
LEMMA ReceivedType ==
  ASSUME NEW b \in Bytes, NEW mask \in Masks
  PROVE  Received[b][mask].address \in Byte /\ Received[b][mask].command \in Byte
<1>1. b \in Byte /\ mask \in [1 .. 4 -> Byte]
  BY CrcAssumption, MasksType
<1> DEFINE raw == Damaged(Report(DATA, b), mask)
<1>2. raw[1] \in Byte /\ raw[3] \in Byte
  BY <1>1, RawValue
<1>3. Reversed[raw[1]] \in Byte /\ Reversed[raw[3]] \in Byte
  BY <1>2, ReversedInjective
<1>4. Received[b][mask] = IF Valid(raw) THEN Scancode(raw) ELSE Unread
  BY ReceivedIs
<1> HIDE DEF raw
<1>5. Unread.address \in Byte /\ Unread.command \in Byte
  BY DEF Unread, Byte
<1>6. Scancode(raw).address \in Byte /\ Scancode(raw).command \in Byte
  BY <1>3 DEF Scancode
<1> QED BY <1>4, <1>5, <1>6

\* Undamaged, a message is read as it was sent.
LEMMA UndamagedRead ==
  ASSUME NEW b \in Bytes
  PROVE  Received[b][NoDamage].address = DATA /\ Received[b][NoDamage].command = b
<1>1. b \in Byte /\ NoDamage \in Masks /\ NoDamage \in [1 .. 4 -> Byte]
  BY CrcAssumption, MasksType
<1> DEFINE sent == Report(DATA, b)  raw == Damaged(sent, NoDamage)
<1>2. /\ \A i \in 1 .. 4 : sent[i] \in Byte /\ raw[i] = Xor(sent[i], NoDamage[i])
      /\ Reversed[sent[1]] = DATA /\ Reversed[sent[2]] = 255 - DATA
      /\ Reversed[sent[3]] = b /\ Reversed[sent[4]] = 255 - b
  BY <1>1, RawValue
<1>3. Received[b][NoDamage] = IF Valid(raw) THEN Scancode(raw) ELSE Unread
  BY <1>1, ReceivedIs
<1> HIDE DEF sent, raw
<1>4. \A i \in 1 .. 4 : raw[i] = sent[i]
  <2>1. \A i \in 1 .. 4 : NoDamage[i] = 0
    BY DEF NoDamage
  <2> QED BY <1>2, <2>1, XorFacts
<1>5. Reversed[raw[1]] = DATA /\ Reversed[raw[2]] = 255 - DATA /\ Reversed[raw[3]] = b /\ Reversed[raw[4]] = 255 - b
  BY <1>2, <1>4
<1>6. Xor(DATA, 255 - DATA) = 255 /\ Xor(b, 255 - b) = 255
  <2>1. DATA \in Byte
    BY DEF DATA, Byte
  <2> QED BY <1>1, <2>1, XorFacts
<1>7. Valid(raw)
  BY <1>5, <1>6 DEF Valid
<1> QED BY <1>3, <1>5, <1>7 DEF Scancode

\* With one byte damaged, one of the two complements does not fit.
LEMMA OneByteSkipped ==
  ASSUME NEW b \in Bytes, NEW mask \in Masks, NEW k \in 1 .. 4,
         \A i \in 1 .. 4 : mask[i] # 0 <=> i = k
  PROVE  Received[b][mask] = Unread
<1>1. b \in Byte /\ mask \in [1 .. 4 -> Byte]
  BY CrcAssumption, MasksType
<1> DEFINE sent == Report(DATA, b)  raw == Damaged(sent, mask)
<1>2. /\ \A i \in 1 .. 4 : sent[i] \in Byte /\ raw[i] \in Byte /\ raw[i] = Xor(sent[i], mask[i])
      /\ Reversed[sent[1]] = DATA /\ Reversed[sent[2]] = 255 - DATA
      /\ Reversed[sent[3]] = b /\ Reversed[sent[4]] = 255 - b
  BY <1>1, RawValue
<1>3. Received[b][mask] = IF Valid(raw) THEN Scancode(raw) ELSE Unread
  BY ReceivedIs
<1> HIDE DEF sent, raw
<1>4. \A i \in 1 .. 4 : i # k => raw[i] = sent[i]
  <2> TAKE i \in 1 .. 4
  <2> HAVE i # k
  <2>1. mask[i] = 0
    BY <1>1
  <2> QED BY <1>2, <2>1, XorFacts
<1>5. Reversed[raw[k]] # Reversed[sent[k]]
  <2>1. mask[k] # 0 /\ mask[k] \in Byte
    BY <1>1
  <2>2. raw[k] # sent[k]
    BY <1>2, <2>1, XorDamages
  <2> QED BY <1>2, <2>2, ReversedInjective
<1>6. \A i \in 1 .. 4 : Reversed[raw[i]] \in Byte /\ Reversed[sent[i]] \in Byte
  BY <1>2, ReversedInjective
<1>7. /\ Xor(Reversed[sent[1]], Reversed[sent[2]]) = 255
      /\ Xor(Reversed[sent[3]], Reversed[sent[4]]) = 255
  <2>1. DATA \in Byte
    BY DEF DATA, Byte
  <2> QED BY <1>1, <1>2, <2>1, XorFacts
\* Of a byte and its complement, one is what it was and the other is not.
<1>8. ASSUME NEW i \in 1 .. 4, NEW j \in 1 .. 4, i # j, k = i \/ k = j,
             Xor(Reversed[sent[i]], Reversed[sent[j]]) = 255
      PROVE  Xor(Reversed[raw[i]], Reversed[raw[j]]) # 255
  <2>1. CASE k = i
    <3>1. Reversed[raw[j]] = Reversed[sent[j]] /\ Reversed[raw[i]] # Reversed[sent[i]]
      BY <1>4, <1>5, <1>8, <2>1
    <3>2. Xor(Reversed[raw[i]], Reversed[sent[j]]) # Xor(Reversed[sent[i]], Reversed[sent[j]])
      BY <1>6, <3>1, XorInjective
    <3> QED BY <1>8, <3>1, <3>2
  <2>2. CASE k = j
    <3>1. Reversed[raw[i]] = Reversed[sent[i]] /\ Reversed[raw[j]] # Reversed[sent[j]]
      BY <1>4, <1>5, <1>8, <2>2
    <3>2. Xor(Reversed[sent[i]], Reversed[raw[j]]) # Xor(Reversed[sent[i]], Reversed[sent[j]])
      BY <1>6, <3>1, XorInjective
    <3> QED BY <1>8, <3>1, <3>2
  <2> QED BY <1>8, <2>1, <2>2
<1>9. k = 1 \/ k = 2 \/ k = 3 \/ k = 4
  OBVIOUS
<1>10. ~Valid(raw)
  <2>1. CASE k = 1 \/ k = 2
    BY <1>7, <1>8, <2>1 DEF Valid
  <2>2. CASE k = 3 \/ k = 4
    BY <1>7, <1>8, <2>2 DEF Valid
  <2> QED BY <1>9, <2>1, <2>2
<1> QED BY <1>3, <1>10

\* The number of damaged bytes.
LEMMA DamagedBytesIs ==
  ASSUME NEW mask \in [1 .. 4 -> Byte]
  PROVE  /\ DamagedBytes(mask) = 0 => mask = NoDamage
         /\ DamagedBytes(mask) = 1 => \E k \in 1 .. 4 : \A i \in 1 .. 4 : mask[i] # 0 <=> i = k
<1> DEFINE S == { i \in 1 .. 4 : mask[i] # 0 }
<1>1. IsFiniteSet(S)
  <2>1. \A n \in Nat : IsFiniteSet(1 .. n)
    BY FS_Interval
  <2> QED BY <2>1, FS_Subset
<1>2. ASSUME DamagedBytes(mask) = 0
      PROVE  mask = NoDamage
  <2>1. S = {}
    <3>1. Cardinality(S) = 0
      BY <1>2 DEF DamagedBytes
    <3> HIDE DEF S
    <3> QED BY <1>1, <3>1, FS_EmptySet
  <2>2. \A i \in 1 .. 4 : mask[i] = 0
    BY <2>1
  <2>3. NoDamage \in [1 .. 4 -> Byte] /\ \A i \in 1 .. 4 : NoDamage[i] = 0
    BY DEF NoDamage, Byte
  <2> QED BY <2>2, <2>3
<1>3. ASSUME DamagedBytes(mask) = 1
      PROVE  \E k \in 1 .. 4 : \A i \in 1 .. 4 : mask[i] # 0 <=> i = k
  <2>1. \E k : S = {k}
    <3>1. Cardinality(S) = 1
      BY <1>3 DEF DamagedBytes
    <3> HIDE DEF S
    <3> QED BY <1>1, <3>1, FS_Singleton
  <2>2. PICK k : S = {k}
    BY <2>1
  <2>3. k \in 1 .. 4
    BY <2>2
  <2> QED BY <2>2, <2>3
<1> QED BY <1>2, <1>3

-----------------------------------------------------------------------------
(* The theorems.                                                           *)

\* The two CRCs are one until a byte differs, and two ever after.
IInv ==
  /\ good \in Byte /\ bad \in Byte /\ struck \in BOOLEAN
  /\ IF struck THEN good # bad ELSE good = bad
  /\ OnlyWholeMessages

LEMMA InitIInv == Init => IInv
<1> SUFFICES ASSUME Init PROVE IInv
  OBVIOUS
<1>1. good = 0 /\ bad = 0 /\ struck = FALSE /\ hits = 0 /\ got = "sent"
  BY DEF Init
<1>2. good \in Byte /\ bad \in Byte /\ good = bad /\ OnlyWholeMessages
  BY <1>1 DEF OnlyWholeMessages, Byte
<1> QED BY <1>1, <1>2 DEF IInv

LEMMA ReadIInv ==
  ASSUME IInv, NEW b \in Bytes, NEW mask \in (IF struck THEN {NoDamage} ELSE Masks), Read(b, mask)
  PROVE  IInv'
<1> DEFINE byte == Received[b][mask].command
<1>1. mask \in Masks /\ mask \in [1 .. 4 -> Byte] /\ b \in Byte
  BY MasksType, CrcAssumption
<1>2. byte \in Byte
  BY <1>1, ReceivedType
<1>3. /\ IsData(Received[b][mask].address)
      /\ good' = Turn(good, b) /\ bad' = Turn(bad, byte)
      /\ got' = (IF byte = b THEN "sent" ELSE "another")
      /\ struck' = (struck \/ byte # b)
      /\ hits' = DamagedBytes(mask)
  BY DEF Read
<1>4. mask = NoDamage => byte = b
  <2>1. Received[b][NoDamage].command = b
    BY UndamagedRead
  <2> QED BY <2>1
<1>5. hits' = 0 => got' = "sent"
  BY <1>1, <1>3, <1>4, DamagedBytesIs
<1>6. hits' # 1
  <2> SUFFICES ASSUME hits' = 1 PROVE FALSE
    OBVIOUS
  <2>1. PICK k \in 1 .. 4 : \A i \in 1 .. 4 : mask[i] # 0 <=> i = k
    BY <1>1, <1>3, DamagedBytesIs
  <2>2. Received[b][mask] = Unread
    BY <1>1, <2>1, OneByteSkipped
  <2>3. ~IsData(Unread.address)
    BY DEF Unread, IsData, DATA
  <2> QED BY <1>3, <2>2, <2>3
<1> HIDE DEF byte
<1>7. good \in Byte /\ bad \in Byte /\ struck \in BOOLEAN /\ IF struck THEN good # bad ELSE good = bad
  BY DEF IInv
<1>8. good' \in Byte /\ bad' \in Byte
  BY <1>1, <1>2, <1>3, <1>7, TurnInjective
<1>9. IF struck' THEN good' # bad' ELSE good' = bad'
  <2>1. CASE struck
    <3>1. byte = b
      BY <1>4, <2>1
    <3> QED BY <1>1, <1>3, <1>7, <2>1, <3>1, TurnInjective
  <2>2. CASE ~struck /\ byte # b
    BY <1>1, <1>2, <1>3, <1>7, <2>2, TurnInjective
  <2>3. CASE ~struck /\ byte = b
    BY <1>3, <1>7, <2>3
  <2> QED BY <1>7, <2>1, <2>2, <2>3
<1> QED BY <1>3, <1>5, <1>6, <1>7, <1>8, <1>9 DEF IInv, OnlyWholeMessages

LEMMA MissIInv ==
  ASSUME IInv, NEW b \in Bytes, NEW mask \in (IF struck THEN {NoDamage} ELSE Masks), Miss(b, mask)
  PROVE  IInv'
<1>1. mask \in Masks /\ mask \in [1 .. 4 -> Byte]
  BY MasksType
<1>2. /\ ~IsData(Received[b][mask].address)
      /\ good' = 0 /\ bad' = 0 /\ struck' = FALSE
      /\ got' = (IF Received[b][mask] = Unread THEN "skipped" ELSE "another")
      /\ hits' = DamagedBytes(mask)
  BY DEF Miss
<1>3. hits' # 0
  <2>1. IsData(Received[b][NoDamage].address)
    BY UndamagedRead DEF IsData
  <2>2. mask # NoDamage
    BY <1>2, <2>1
  <2> QED BY <1>1, <1>2, <2>2, DamagedBytesIs
<1>4. ASSUME hits' = 1
      PROVE  got' = "skipped"
  <2>1. PICK k \in 1 .. 4 : \A i \in 1 .. 4 : mask[i] # 0 <=> i = k
    BY <1>1, <1>2, <1>4, DamagedBytesIs
  <2>2. Received[b][mask] = Unread
    BY <1>1, <2>1, OneByteSkipped
  <2> QED BY <1>2, <2>2
<1>5. OnlyWholeMessages'
  BY <1>3, <1>4 DEF OnlyWholeMessages
<1>6. good' \in Byte /\ bad' \in Byte /\ good' = bad' /\ struck' = FALSE
  BY <1>2 DEF Byte
<1> QED BY <1>5, <1>6 DEF IInv

LEMMA NextIInv == IInv /\ [Next]_vars => IInv'
<1> SUFFICES ASSUME IInv, [Next]_vars PROVE IInv'
  OBVIOUS
<1>1. CASE Next
  <2>1. PICK b \in Bytes, mask \in (IF struck THEN {NoDamage} ELSE Masks) : Read(b, mask) \/ Miss(b, mask)
    BY <1>1 DEF Next
  <2> QED BY <2>1, ReadIInv, MissIInv
<1>2. CASE UNCHANGED vars
  BY <1>2 DEF IInv, OnlyWholeMessages, vars
<1> QED BY <1>1, <1>2

LEMMA CrcInvariant == Spec => []IInv
BY InitIInv, NextIInv, PTL DEF Spec

\* One changed byte, with anything before and after it, is found by the check in
\* END: crc8_table has no value twice, so that neither the changed byte nor any
\* later one brings the two CRCs of wfr_crc8 together.
THEOREM OneByteIsDetected == Spec => []OneByteDetected
<1>1. IInv => OneByteDetected
  BY DEF IInv, OneByteDetected
<1> QED BY <1>1, CrcInvariant, PTL

\* wfr_evdev_read_scancode takes an undamaged message for what it is, and never
\* one with a single damaged byte: reverse_bits undoes what the driver did and
\* keeps bytes apart, so that the byte and its complement no longer fit.
THEOREM OnlyWholeMessagesAreRead == Spec => []OnlyWholeMessages
<1>1. IInv => OnlyWholeMessages
  BY DEF IInv
<1> QED BY <1>1, CrcInvariant, PTL

\* The CRC after a byte is the remainder of a polynomial division, for every
\* byte and every CRC before it: the 256 entries of crc8_table are right.
THEOREM TableDivides == Spec => IsRemainder
<1>1. IInv => \A b \in Bytes : Read(b, NoDamage) => good' = Remainder[Xor(good, b)]
  <2> SUFFICES ASSUME IInv, NEW b \in Bytes, Read(b, NoDamage)
               PROVE  good' = Remainder[Xor(good, b)]
    OBVIOUS
  <2>1. good \in Byte /\ b \in Byte /\ good' = Turn(good, b)
    BY CrcAssumption DEF IInv, Read
  <2>2. Xor(good, b) \in Byte
    BY <2>1, XorFacts
  <2>3. Turn(good, b) = crc8_table[Xor(good, b) + 1]
    BY DEF Turn
  <2> QED BY <2>1, <2>2, <2>3, TableIsRemainder
<1> QED BY <1>1, CrcInvariant, PTL DEF IsRemainder
=============================================================================

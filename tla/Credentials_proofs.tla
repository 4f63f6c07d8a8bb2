------------------------- MODULE Credentials_proofs -------------------------
(***************************************************************************)
(* Proofs about Credentials: what is read from a tag, of any networks in   *)
(* any layout and of however many pages, is of one network on it; and the  *)
(* round trip of WifiString_proofs holds for it as for what was typed.     *)
(*                                                                         *)
(* The walks of NfcTag are recursive functions on sequences of bytes, each *)
(* defined by its values at shorter ones.  Such a function exists          *)
(* (WellFoundedRecursion), so that what is read is by induction on its     *)
(* length what the walk says: first of any bytes, to the theorems about    *)
(* any memory; then of what was written, from the attributes outwards to   *)
(* the pages of a tag; and last comes the invariant of ScanSpec.           *)
(***************************************************************************)
EXTENDS Credentials, WifiString_proofs

-----------------------------------------------------------------------------
(* Recursive functions.                                                    *)

\* A function that body defines at each stretch by its values at shorter ones exists.
LEMMA WellFoundedRecursion ==
  ASSUME NEW R, R # {}, NEW body \in [[Seq(Byte) -> R] -> [Seq(Byte) -> R]],
         \A f, g \in [Seq(Byte) -> R] : \A d \in Seq(Byte) :
           (\A e \in Seq(Byte) : Len(e) < Len(d) => f[e] = g[e]) => body[f][d] = body[g][d]
  PROVE  \E f \in [Seq(Byte) -> R] : f = body[f]
<1> DEFINE D == Seq(Byte)
<1>0. \A f, g \in [D -> R] : \A d \in D :
        (\A e \in D : Len(e) < Len(d) => f[e] = g[e]) => body[f][d] = body[g][d]
  OBVIOUS
<1> PICK r0 \in R : TRUE
  OBVIOUS
<1> DEFINE Upto(n, f) == \A d \in D : Len(d) < n => f[d] = body[f][d]
           S == { n \in Nat : \E f \in [D -> R] : Upto(n, f) }
           U == { n \in Nat : \A f, g \in [D -> R] : Upto(n, f) /\ Upto(n, g) =>
                                \A d \in D : Len(d) < n => f[d] = g[d] }
<1>1. \A d \in D : Len(d) \in Nat
  OBVIOUS
<1>2. \A f \in [D -> R] : body[f] \in [D -> R]
  OBVIOUS
<1> HIDE DEF D
<1>3. \A n \in Nat : n \in S
  <2>1. 0 \in S
    <3>1. [d \in D |-> r0] \in [D -> R]
      OBVIOUS
    <3>2. Upto(0, [d \in D |-> r0])
      BY <1>1
    <3> HIDE DEF Upto
    <3> QED BY <3>1, <3>2
  <2>2. ASSUME NEW n \in Nat, n \in S PROVE n + 1 \in S
    <3>1. PICK f \in [D -> R] : Upto(n, f)
      BY <2>2
    <3>2. body[f] \in [D -> R]
      BY <1>2
    <3>3. Upto(n + 1, body[f])
      <4> SUFFICES ASSUME NEW d \in D, Len(d) < n + 1
                   PROVE  body[f][d] = body[body[f]][d]
        OBVIOUS
      <4>1. \A e \in D : Len(e) < Len(d) => f[e] = body[f][e]
        BY <1>1, <3>1
      <4> QED BY <1>0, <3>2, <4>1
    <3> HIDE DEF Upto
    <3> QED BY <3>2, <3>3
  <2> HIDE DEF S
  <2> QED BY <2>1, <2>2, SetInduction
<1>4. \A n \in Nat : n \in U
  <2>1. 0 \in U
    BY <1>1
  <2>2. ASSUME NEW n \in Nat, n \in U PROVE n + 1 \in U
    <3> SUFFICES ASSUME NEW f \in [D -> R], NEW g \in [D -> R], Upto(n + 1, f), Upto(n + 1, g),
                        NEW d \in D, Len(d) < n + 1
                 PROVE  f[d] = g[d]
      <4> HIDE DEF Upto
      <4> QED OBVIOUS
    <3>1. Upto(n, f) /\ Upto(n, g)
      <4>1. \A e \in D : Len(e) < n => Len(e) < n + 1
        BY <1>1
      <4> QED BY <4>1
    <3>2. \A e \in D : Len(e) < n => f[e] = g[e]
      BY <2>2, <3>1
    <3>3. \A e \in D : Len(e) < Len(d) => f[e] = g[e]
      BY <1>1, <3>2
    <3>4. body[f][d] = body[g][d]
      BY <1>0, <3>3
    <3> QED BY <3>4
  <2> HIDE DEF U
  <2> QED BY <2>1, <2>2, SetInduction
<1> DEFINE best(d) == CHOOSE f \in [D -> R] : Upto(Len(d) + 1, f)
           F == [d \in D |-> best(d)[d]]
<1>5. \A d \in D : best(d) \in [D -> R] /\ Upto(Len(d) + 1, best(d))
  <2> TAKE d \in D
  <2>1. Len(d) + 1 \in S
    <3> HIDE DEF S
    <3> QED BY <1>1, <1>3
  <2> HIDE DEF Upto
  <2> QED BY <2>1
<1>6. F \in [D -> R]
  <2> HIDE DEF best
  <2> QED BY <1>5
<1>7. \A d \in D : F[d] = body[F][d]
  <2> TAKE d \in D
  <2>1. F[d] = best(d)[d] /\ best(d) \in [D -> R] /\ Upto(Len(d) + 1, best(d))
    BY <1>5
  <2>2. ASSUME NEW e \in D, Len(e) < Len(d) PROVE F[e] = best(d)[e]
    <3>1. F[e] = best(e)[e] /\ best(e) \in [D -> R] /\ Upto(Len(e) + 1, best(e))
      BY <1>5
    <3> HIDE DEF best
    <3>2. Upto(Len(e) + 1, best(d))
      BY <1>1, <2>1, <2>2
    <3>3. Len(e) + 1 \in U /\ Len(e) < Len(e) + 1
      <4> HIDE DEF U
      <4> QED BY <1>1, <1>4
    <3> QED BY <2>1, <3>1, <3>2, <3>3
  <2> HIDE DEF best, F
  <2>3. body[F][d] = body[best(d)][d]
    BY <1>0, <1>6, <2>1, <2>2
  <2>4. best(d)[d] = body[best(d)][d]
    BY <1>1, <2>1
  <2> QED BY <2>1, <2>3, <2>4
<1> HIDE DEF F
<1>8. F = body[F]
  BY <1>2, <1>6, <1>7
<1> QED BY <1>6, <1>8 DEF D

-----------------------------------------------------------------------------
(* Stretches of memory.                                                    *)

\* What SubSeq, From and \o return, byte by byte.
LEMMA StretchType ==
  ASSUME NEW s \in Seq(Byte), NEW m \in Nat \ {0}, NEW n \in Nat, n \leq Len(s)
  PROVE  /\ SubSeq(s, m, n) \in Seq(Byte)
         /\ Len(SubSeq(s, m, n)) = IF m \leq n THEN n - m + 1 ELSE 0
         /\ \A i \in 1 .. n - m + 1 : SubSeq(s, m, n)[i] = s[m + i - 1]
<1>1. \A i \in m .. n : s[i] \in Byte
  OBVIOUS
<1> QED BY <1>1, SubSeqProperties

LEMMA FromType ==
  ASSUME NEW s \in Seq(Byte), NEW m \in Nat \ {0}, m \leq Len(s) + 1
  PROVE  /\ From(s, m) \in Seq(Byte) /\ Len(From(s, m)) = Len(s) + 1 - m
         /\ \A i \in 1 .. Len(s) + 1 - m : From(s, m)[i] = s[m + i - 1]
<1>1. Len(s) \in Nat
  OBVIOUS
<1> QED BY <1>1, StretchType DEF From

LEMMA ConcatType ==
  ASSUME NEW a \in Seq(Byte), NEW b \in Seq(Byte)
  PROVE  /\ a \o b \in Seq(Byte) /\ Len(a \o b) = Len(a) + Len(b)
         /\ \A i \in 1 .. Len(a) : (a \o b)[i] = a[i]
         /\ \A i \in 1 .. Len(b) : (a \o b)[Len(a) + i] = b[i]
<1>1. Len(a) \in Nat /\ Len(b) \in Nat
  OBVIOUS
<1>2. /\ a \o b \in Seq(Byte) /\ Len(a \o b) = Len(a) + Len(b)
      /\ \A i \in 1 .. Len(a) + Len(b) : (a \o b)[i] = IF i <= Len(a) THEN a[i] ELSE b[i - Len(a)]
  BY ConcatProperties
<1>3. \A i \in 1 .. Len(a) : (a \o b)[i] = a[i]
  BY <1>1, <1>2
<1>4. \A i \in 1 .. Len(b) : (a \o b)[Len(a) + i] = b[i]
  <2> TAKE i \in 1 .. Len(b)
  <2>1. Len(a) + i \in 1 .. Len(a) + Len(b) /\ ~(Len(a) + i <= Len(a)) /\ (Len(a) + i) - Len(a) = i
    BY <1>1
  <2> QED BY <1>2, <2>1
<1> QED BY <1>2, <1>3, <1>4

\* What stands between two stretches, and what stands behind one.
LEMMA Behind ==
  ASSUME NEW a \in Seq(Byte), NEW b \in Seq(Byte)
  PROVE  From(a \o b, Len(a) + 1) = b
<1> DEFINE u == From(a \o b, Len(a) + 1)
<1>1. Len(a) \in Nat /\ Len(b) \in Nat
  OBVIOUS
<1>2. /\ u \in Seq(Byte) /\ Len(u) = Len(b)
      /\ \A i \in 1 .. Len(b) : u[i] = (a \o b)[Len(a) + i]
  <2>1. a \o b \in Seq(Byte) /\ Len(a \o b) = Len(a) + Len(b)
    BY ConcatType
  <2>2. Len(a) + 1 \in Nat \ {0} /\ Len(a) + 1 \leq Len(a \o b) + 1
        /\ Len(a \o b) + 1 - (Len(a) + 1) = Len(b)
    BY <1>1, <2>1
  <2>3. /\ u \in Seq(Byte) /\ Len(u) = Len(b)
        /\ \A i \in 1 .. Len(b) : u[i] = (a \o b)[Len(a) + 1 + i - 1]
    BY <2>1, <2>2, FromType
  <2>4. \A i \in 1 .. Len(b) : Len(a) + 1 + i - 1 = Len(a) + i
    BY <1>1
  <2> QED BY <2>3, <2>4
<1> HIDE DEF u
<1>3. \A i \in 1 .. Len(b) : u[i] = b[i]
  BY <1>2, ConcatType
<1>4. u = b
  BY <1>2, <1>3, SeqEqual
<1> QED BY <1>4 DEF u

LEMMA Window ==
  ASSUME NEW a \in Seq(Byte), NEW b \in Seq(Byte), NEW c \in Seq(Byte)
  PROVE  SubSeq(a \o (b \o c), Len(a) + 1, Len(a) + Len(b)) = b
<1> DEFINE w == a \o (b \o c)
           u == SubSeq(w, Len(a) + 1, Len(a) + Len(b))
<1>1. Len(a) \in Nat /\ Len(b) \in Nat /\ Len(c) \in Nat
  OBVIOUS
<1>2. /\ b \o c \in Seq(Byte) /\ Len(b \o c) = Len(b) + Len(c)
      /\ \A i \in 1 .. Len(b) : (b \o c)[i] = b[i]
  BY ConcatType
<1>3. /\ w \in Seq(Byte) /\ Len(w) = Len(a) + (Len(b) + Len(c))
      /\ \A i \in 1 .. Len(b) + Len(c) : w[Len(a) + i] = (b \o c)[i]
  BY <1>2, ConcatType
<1> HIDE DEF w
<1>4. /\ u \in Seq(Byte) /\ Len(u) = Len(b)
      /\ \A i \in 1 .. Len(b) : u[i] = w[Len(a) + i]
  <2>1. Len(a) + 1 \in Nat \ {0} /\ Len(a) + Len(b) \in Nat /\ Len(a) + Len(b) \leq Len(w)
    BY <1>1, <1>3
  <2>2. /\ u \in Seq(Byte)
        /\ Len(u) = IF Len(a) + 1 \leq Len(a) + Len(b) THEN Len(a) + Len(b) - (Len(a) + 1) + 1 ELSE 0
        /\ \A i \in 1 .. Len(a) + Len(b) - (Len(a) + 1) + 1 : u[i] = w[Len(a) + 1 + i - 1]
    BY <1>3, <2>1, StretchType
  <2>3. Len(a) + Len(b) - (Len(a) + 1) + 1 = Len(b)
    BY <1>1
  <2>4. \A i \in 1 .. Len(b) : Len(a) + 1 + i - 1 = Len(a) + i
    BY <1>1
  <2>5. Len(u) = Len(b)
    BY <1>1, <2>2
  <2> HIDE DEF u
  <2> QED BY <2>2, <2>3, <2>4, <2>5
<1> HIDE DEF u
<1>5. \A i \in 1 .. Len(b) : i \in 1 .. Len(b) + Len(c)
  BY <1>1
<1>6. \A i \in 1 .. Len(b) : u[i] = b[i]
  BY <1>2, <1>3, <1>4, <1>5
<1>7. u = b
  BY <1>4, <1>6, SeqEqual
<1> QED BY <1>7 DEF u, w

\* Byte stays folded where a sequence of bytes is about.
LEMMA ByteFacts == \A b \in Byte : b \in Nat /\ b \leq 255
BY DEF Byte

LEMMA NumberType ==
  ASSUME NEW high \in Byte, NEW low \in Byte
  PROVE  Number(high, low) \in Nat
BY DEF Number, Byte

-----------------------------------------------------------------------------
(* Attributes.                                                             *)

\* The place of the first NUL of a buffer.
LEMMA FirstNul ==
  ASSUME NEW bytes \in Seq(Byte)
  PROVE  LET ends == { i \in 1 .. Len(bytes) + 1 : i \leq Len(bytes) => bytes[i] = 0 }
         IN Min(ends) \in ends /\ \A i \in ends : Min(ends) \leq i
<1> DEFINE ends == { i \in 1 .. Len(bytes) + 1 : i \leq Len(bytes) => bytes[i] = 0 }
           R == OpToRel(<, Nat)
<1>1. Len(bytes) \in Nat
  OBVIOUS
<1>2. ends \subseteq Nat /\ Len(bytes) + 1 \in ends
  BY <1>1
<1>3. PICK n \in ends : \A y \in ends : ~(<<y, n>> \in R)
  <2>1. IsWellFoundedOn(R, Nat)
    BY NatLessThanWellFounded
  <2> HIDE DEF ends
  <2> QED BY <1>2, <2>1, WFMin
<1> HIDE DEF ends
<1>4. \A y \in ends : n \leq y
  <2> TAKE y \in ends
  <2>1. y \in Nat /\ n \in Nat /\ ~(y < n)
    BY <1>2, <1>3 DEF OpToRel
  <2> QED BY <2>1
<1>5. Min(ends) \in ends /\ \A y \in ends : Min(ends) \leq y
  BY <1>4 DEF Min
<1> QED BY <1>5 DEF ends

\* A C string is no longer than its buffer, and holds no NUL.
LEMMA CStringType ==
  ASSUME NEW bytes \in Seq(Byte)
  PROVE  CString(bytes) \in Seq(1 .. 255) /\ Len(CString(bytes)) \leq Len(bytes)
<1> DEFINE ends == { i \in 1 .. Len(bytes) + 1 : i \leq Len(bytes) => bytes[i] = 0 }
           n == Min(ends) - 1
           c == SubSeq(bytes, 1, n)
<1>1. n \in Nat /\ n + 1 \in ends /\ \A i \in ends : n + 1 \leq i
  <2>1. Min(ends) \in ends /\ \A i \in ends : Min(ends) \leq i
    BY FirstNul
  <2>2. Min(ends) \in Nat \ {0} /\ n + 1 = Min(ends) /\ n \in Nat
    BY <2>1
  <2> HIDE DEF n
  <2> QED BY <2>1, <2>2
<1> HIDE DEF n
<1>2. Len(bytes) \in Nat /\ n \in 0 .. Len(bytes)
  BY <1>1
<1>3. \A i \in 1 .. n : bytes[i] \in 1 .. 255
  <2> TAKE i \in 1 .. n
  <2>1. i \in 1 .. Len(bytes) /\ i \notin ends
    BY <1>1, <1>2
  <2>2. bytes[i] \in Byte /\ bytes[i] # 0
    BY <2>1
  <2> QED BY <2>2 DEF Byte
<1>4. c \in Seq(1 .. 255) /\ Len(c) \leq Len(bytes)
  BY <1>2, <1>3, SubSeqProperties
<1> QED BY <1>4 DEF CString, n

LEMMA NothingFoundType ==
  /\ NothingFound \in Found
  /\ NothingFound.ssid = <<>> /\ NothingFound.password = <<>> /\ NothingFound.found = FALSE
<1>1. <<>> \in CStrings(SsidMax) /\ <<>> \in CStrings(PassMax)
  BY WifiAssumption DEF CStrings
<1> QED BY <1>1 DEF NothingFound, Found

LEMMA FoundFields ==
  ASSUME NEW r \in Found
  PROVE  /\ r.ssid \in CStrings(SsidMax) /\ r.password \in CStrings(PassMax)
         /\ r.security \in {"OPEN", "WPA", "WEP"} /\ r.found \in BOOLEAN
BY DEF Found

\* No attribute writes beyond the buffers of WfrWifiCreds.
LEMMA SimpleAttributeType ==
  ASSUME NEW id, NEW value \in Seq(Byte), NEW r \in Found
  PROVE  SimpleAttribute(id, value, r) \in Found
<1>1. CString(value) \in Seq(1 .. 255) /\ Len(CString(value)) \in Nat /\ Len(CString(value)) \leq Len(value)
  BY CStringType
<1>2. CASE id = ATTR_SSID /\ Len(value) \in 1 .. SsidMax
  <2>1. CString(value) \in CStrings(SsidMax)
    BY <1>1, <1>2, WifiAssumption DEF CStrings
  <2>2. SimpleAttribute(id, value, r) = [r EXCEPT !.ssid = CString(value), !.found = TRUE]
    BY <1>2 DEF SimpleAttribute, ATTR_SSID, ATTR_AUTH_TYPE, ATTR_NET_KEY
  <2> QED BY <2>1, <2>2 DEF Found
<1>3. CASE id = ATTR_AUTH_TYPE /\ Len(value) = 2
  <2>1. AuthType(Number(value[1], value[2])) \in {"OPEN", "WPA", "WEP"}
    BY DEF AuthType
  <2>2. SimpleAttribute(id, value, r) = [r EXCEPT !.security = AuthType(Number(value[1], value[2]))]
    BY <1>3 DEF SimpleAttribute, ATTR_SSID, ATTR_AUTH_TYPE, ATTR_NET_KEY
  <2> QED BY <2>1, <2>2 DEF Found
<1>4. CASE id = ATTR_NET_KEY /\ Len(value) \in 1 .. PassMax
  <2>1. CString(value) \in CStrings(PassMax)
    BY <1>1, <1>4, WifiAssumption DEF CStrings
  <2>2. SimpleAttribute(id, value, r) = [r EXCEPT !.password = CString(value)]
    BY <1>4 DEF SimpleAttribute, ATTR_SSID, ATTR_AUTH_TYPE, ATTR_NET_KEY
  <2> QED BY <2>1, <2>2 DEF Found
<1>5. CASE ~(id = ATTR_SSID /\ Len(value) \in 1 .. SsidMax) /\ ~(id = ATTR_AUTH_TYPE /\ Len(value) = 2)
             /\ ~(id = ATTR_NET_KEY /\ Len(value) \in 1 .. PassMax)
  BY <1>5 DEF SimpleAttribute
<1> QED BY <1>2, <1>3, <1>4, <1>5

\* What Attributes is at d, by its values at shorter stretches.
AttributesStep(f, d) ==
  [r \in Found |->
     LET id == Number(d[1], d[2])
         n  == Number(d[3], d[4])
         value == SubSeq(d, 5, 4 + n)
     IN IF Len(d) < 4 \/ 4 + n > Len(d) THEN r
        ELSE f[From(d, 5 + n)]
               [IF id = ATTR_CREDENTIAL THEN f[value][r] ELSE SimpleAttribute(id, value, r)]]

\* The step looks only at shorter stretches.
LEMMA AttributesStepLocal ==
  ASSUME NEW d \in Seq(Byte), NEW f, NEW g,
         \A e \in Seq(Byte) : Len(e) < Len(d) => f[e] \in [Found -> Found] /\ g[e] = f[e]
  PROVE  AttributesStep(f, d) \in [Found -> Found] /\ AttributesStep(g, d) = AttributesStep(f, d)
<1> DEFINE id == Number(d[1], d[2])
           n  == Number(d[3], d[4])
           value == SubSeq(d, 5, 4 + n)
           rest == From(d, 5 + n)
           short == Len(d) < 4 \/ 4 + n > Len(d)
           to(h, r) == IF id = ATTR_CREDENTIAL THEN h[value][r] ELSE SimpleAttribute(id, value, r)
           at(h, r) == IF short THEN r ELSE h[rest][to(h, r)]
<1>1. \A r \in Found : at(f, r) \in Found /\ at(g, r) = at(f, r)
  <2> TAKE r \in Found
  <2>1. CASE short
    BY <2>1
  <2>2. CASE ~short
    <3>1. Len(d) \in Nat /\ d[3] \in Byte /\ d[4] \in Byte
      BY <2>2
    <3>0. n \in Nat
      BY <3>1, NumberType
    <3> HIDE DEF n
    <3>2. n \in Nat /\ 4 + n \leq Len(d)
      BY <2>2, <3>0, <3>1
    <3> HIDE DEF id
    <3>3. value \in Seq(Byte) /\ Len(value) < Len(d)
      <4>1. 5 \in Nat \ {0} /\ 4 + n \in Nat
        BY <3>2
      <4>2. value \in Seq(Byte) /\ Len(value) = IF 5 \leq 4 + n THEN 4 + n - 5 + 1 ELSE 0
        BY <3>2, <4>1, StretchType
      <4> HIDE DEF value
      <4> QED BY <3>1, <3>2, <4>2
    <3>4. rest \in Seq(Byte) /\ Len(rest) < Len(d)
      <4>1. 5 + n \in Nat \ {0} /\ 5 + n \leq Len(d) + 1
        BY <3>1, <3>2
      <4>2. rest \in Seq(Byte) /\ Len(rest) = Len(d) + 1 - (5 + n)
        BY <4>1, FromType
      <4> HIDE DEF rest
      <4> QED BY <3>1, <3>2, <4>2
    <3> HIDE DEF value, rest
    <3>5. to(f, r) \in Found /\ to(g, r) = to(f, r)
      BY <3>3, SimpleAttributeType
    <3> HIDE DEF to
    <3> QED BY <2>2, <3>4, <3>5
  <2> HIDE DEF at
  <2> QED BY <2>1, <2>2
<1>2. \A r \in Found : AttributesStep(f, d)[r] = at(f, r) /\ AttributesStep(g, d)[r] = at(g, r)
  BY DEF AttributesStep
<1>3. AttributesStep(f, d) = [r \in Found |-> at(f, r)] /\ AttributesStep(g, d) = [r \in Found |-> at(g, r)]
  BY DEF AttributesStep
<1> HIDE DEF at
<1> QED BY <1>1, <1>3

\* parse_wsc_attributes, as an equation, and that it keeps to Found.
LEMMA AttributesIs ==
  ASSUME NEW d \in Seq(Byte)
  PROVE  Attributes[d] = AttributesStep(Attributes, d) /\ Attributes[d] \in [Found -> Found]
<1> DEFINE D == Seq(Byte)
           R == [Found -> Found]
           body == [f \in [D -> R] |-> [e \in D |-> AttributesStep(f, e)]]
           it == CHOOSE f : f = [e \in D |-> AttributesStep(f, e)]
<1>1. \A f \in [D -> R] : \A e \in D : AttributesStep(f, e) \in R
  BY AttributesStepLocal
<1>2. body \in [[D -> R] -> [D -> R]]
  <2> HIDE DEF D, R
  <2> QED BY <1>1
<1>3. \A f, g \in [D -> R] : \A e \in D :
        (\A h \in D : Len(h) < Len(e) => f[h] = g[h]) => body[f][e] = body[g][e]
  <2> SUFFICES ASSUME NEW f \in [D -> R], NEW g \in [D -> R], NEW e \in D,
                      \A h \in D : Len(h) < Len(e) => f[h] = g[h]
               PROVE  AttributesStep(g, e) = AttributesStep(f, e)
    OBVIOUS
  <2>1. \A h \in D : Len(h) < Len(e) => f[h] \in R /\ g[h] = f[h]
    OBVIOUS
  <2> QED BY <2>1, AttributesStepLocal
<1>4. \E f : f = [e \in D |-> AttributesStep(f, e)]
  <2>1. [r \in Found |-> r] \in R
    OBVIOUS
  <2>2. \E f \in [D -> R] : f = body[f]
    <3> HIDE DEF body, R
    <3> QED BY <1>2, <1>3, <2>1, WellFoundedRecursion
  <2> HIDE DEF D, R
  <2> QED BY <2>2
<1>5. Attributes = it
  BY DEF Attributes, AttributesStep
<1>6. Attributes = [e \in D |-> AttributesStep(Attributes, e)]
  <2>1. it = [e \in D |-> AttributesStep(it, e)]
    BY <1>4
  <2> HIDE DEF it
  <2> QED BY <1>5, <2>1
<1>7. \A e \in D : Attributes[e] = AttributesStep(Attributes, e)
  <2> HIDE DEF D
  <2> QED BY <1>6
<1> DEFINE S == { n \in Nat : \A e \in D : Len(e) < n => Attributes[e] \in R }
<1>8. \A n \in Nat : n \in S
  <2>1. 0 \in S
    OBVIOUS
  <2>2. ASSUME NEW n \in Nat, n \in S PROVE n + 1 \in S
    <3> SUFFICES ASSUME NEW e \in D, Len(e) < n + 1 PROVE Attributes[e] \in R
      OBVIOUS
    <3>1. \A h \in D : Len(h) < Len(e) => Attributes[h] \in R /\ Attributes[h] = Attributes[h]
      BY <2>2
    <3>2. AttributesStep(Attributes, e) \in R
      BY <3>1, AttributesStepLocal
    <3> QED BY <1>7, <3>2
  <2> HIDE DEF S
  <2> QED BY <2>1, <2>2, SetInduction
<1>9. Attributes[d] \in R
  <2>1. Len(d) + 1 \in S /\ Len(d) < Len(d) + 1
    BY <1>8
  <2> QED BY <2>1
<1> QED BY <1>7, <1>9

-----------------------------------------------------------------------------
(* Records and messages.                                                   *)

LEMMA HeaderFields ==
  ASSUME NEW d
  PROVE  LET width == IF Flag(d[1], 16) THEN 1 ELSE 4 IN
         /\ Header(d).tnf = d[1] % 8 /\ Header(d).type = d[2]
         /\ Header(d).last = Flag(d[1], 64)
         /\ Header(d).size = 2 + width + (IF Flag(d[1], 8) THEN 1 ELSE 0)
         /\ Header(d).id = IF Flag(d[1], 8) THEN d[3 + width] ELSE 0
         /\ Header(d).payload = IF Flag(d[1], 16) THEN d[3] ELSE Number4(d, 3)
BY DEF Header

LEMMA Number4Is ==
  ASSUME NEW d, d[3] \in Byte, d[4] \in Byte, d[5] \in Byte, d[6] \in Byte
  PROVE  Number4(d, 3) = ((256 * d[3] + d[4]) * 256 + d[5]) * 256 + d[6] /\ Number4(d, 3) \in Nat
<1>1. 3 + 1 = 4 /\ 3 + 2 = 5 /\ 3 + 3 = 6
  OBVIOUS
<1>2. Number4(d, 3) = 256 * (256 * (256 * d[3] + d[4]) + d[5]) + d[6]
  BY <1>1 DEF Number4, Number
<1> QED BY <1>2, ByteFacts

LEMMA TotalType ==
  ASSUME NEW h, h.size \in Nat \ {0}, h.type \in Nat, h.id \in Nat, h.payload \in Nat
  PROVE  Total(h) = h.size + h.type + h.id + h.payload /\ Total(h) \in Nat \ {0}
BY DEF Total

\* The parts of a header that is whole are numbers.
LEMMA HeaderType ==
  ASSUME NEW d \in Seq(Byte), HeaderIsWhole(d)
  PROVE  /\ Header(d).size \in Nat \ {0} /\ Header(d).type \in Nat
         /\ Header(d).id \in Nat /\ Header(d).payload \in Nat
         /\ Total(Header(d)) \in Nat \ {0}
<1> DEFINE short == Flag(d[1], 16)
           has_id == Flag(d[1], 8)
           width == IF short THEN 1 ELSE 4
           h == Header(d)
<1>1. Len(d) \in Nat /\ Len(d) \geq 3 /\ Len(d) \geq 2 + width + (IF has_id THEN 1 ELSE 0)
  BY DEF HeaderIsWhole
<1>2. /\ h.type = d[2] /\ h.size = 2 + width + (IF has_id THEN 1 ELSE 0)
      /\ h.id = IF has_id THEN d[3 + width] ELSE 0
      /\ h.payload = IF short THEN d[3] ELSE Number4(d, 3)
  BY HeaderFields
<1> HIDE DEF h
<1>3. h.type \in Nat /\ h.size \in Nat \ {0}
  <2>1. d[2] \in Byte
    BY <1>1
  <2>2. 2 + width + (IF has_id THEN 1 ELSE 0) \in Nat \ {0}
    OBVIOUS
  <2> QED BY <1>2, <2>1, <2>2, ByteFacts
<1>4. h.id \in Nat
  <2>1. CASE has_id
    <3>1. 3 + width \in 1 .. Len(d)
      BY <1>1, <2>1
    <3>2. d[3 + width] \in Byte
      <4> HIDE DEF width
      <4> QED BY <3>1
    <3>3. h.id = d[3 + width]
      BY <1>2, <2>1
    <3> HIDE DEF width
    <3> QED BY <3>2, <3>3, ByteFacts
  <2>2. CASE ~has_id
    BY <1>2, <2>2
  <2> QED BY <2>1, <2>2
<1>5. h.payload \in Nat
  <2>1. CASE short
    <3>1. d[3] \in Byte
      BY <1>1
    <3>2. h.payload = d[3]
      BY <1>2, <2>1
    <3> QED BY <3>1, <3>2, ByteFacts
  <2>2. CASE ~short
    <3>1. d[3] \in Byte /\ d[4] \in Byte /\ d[5] \in Byte /\ d[6] \in Byte
      BY <1>1, <2>2
    <3>2. h.payload = Number4(d, 3)
      BY <1>2, <2>2
    <3> QED BY <3>1, <3>2, Number4Is
  <2> QED BY <2>1, <2>2
<1>6. Total(h) \in Nat \ {0}
  BY <1>3, <1>4, <1>5, TotalType
<1> QED BY <1>3, <1>4, <1>5, <1>6 DEF h

LEMMA RecordType ==
  ASSUME NEW d \in Seq(Byte), HeaderIsWhole(d), Total(Header(d)) \leq Len(d)
  PROVE  Record(d) \in Found
<1> DEFINE h == Header(d)
           payload == SubSeq(d, h.size + h.type + h.id + 1, Total(h))
<1>1. h.size + h.type + h.id + 1 \in Nat \ {0} /\ Total(h) \in Nat
  BY HeaderType
<1>2. payload \in Seq(Byte)
  <2> HIDE DEF h
  <2> QED BY <1>1, StretchType DEF h
<1>3. Attributes[payload][NothingFound] \in Found
  <2> HIDE DEF payload
  <2> QED BY <1>2, AttributesIs, NothingFoundType
<1> QED BY <1>3, NothingFoundType DEF Record

MessageStep(f, d) ==
  IF ~HeaderIsWhole(d) \/ Total(Header(d)) > Len(d) THEN NothingFound
  ELSE IF Record(d).found THEN Record(d)
  ELSE IF Header(d).last THEN NothingFound
  ELSE f[From(d, Total(Header(d)) + 1)]

LEMMA MessageStepLocal ==
  ASSUME NEW d \in Seq(Byte), NEW f, NEW g,
         \A e \in Seq(Byte) : Len(e) < Len(d) => f[e] \in Found /\ g[e] = f[e]
  PROVE  MessageStep(f, d) \in Found /\ MessageStep(g, d) = MessageStep(f, d)
<1> DEFINE rest == From(d, Total(Header(d)) + 1)
<1>1. CASE ~HeaderIsWhole(d) \/ Total(Header(d)) > Len(d)
  BY <1>1, NothingFoundType DEF MessageStep
<1>2. CASE ~(~HeaderIsWhole(d) \/ Total(Header(d)) > Len(d))
  <2>1. Total(Header(d)) \in Nat \ {0} /\ Total(Header(d)) \leq Len(d) /\ Len(d) \in Nat
    BY <1>2, HeaderType
  <2>2. Record(d) \in Found
    BY <1>2, <2>1, RecordType
  <2>3. rest \in Seq(Byte) /\ Len(rest) < Len(d)
    <3> DEFINE m == Total(Header(d)) + 1
    <3>1. m \in Nat \ {0} /\ m \leq Len(d) + 1 /\ m > 1
      BY <2>1
    <3> HIDE DEF m
    <3>2. From(d, m) \in Seq(Byte) /\ Len(From(d, m)) = Len(d) + 1 - m
      BY <3>1, FromType
    <3> QED BY <2>1, <3>1, <3>2 DEF m
  <2>4. f[rest] \in Found /\ g[rest] = f[rest]
    BY <2>3
  <2> QED BY <1>2, <2>2, <2>4, NothingFoundType DEF MessageStep
<1> QED BY <1>1, <1>2

\* parse_ndef_message, as an equation, and that it keeps to Found.
LEMMA MessageIs ==
  ASSUME NEW d \in Seq(Byte)
  PROVE  Message[d] = MessageStep(Message, d) /\ Message[d] \in Found
<1> DEFINE D == Seq(Byte)
           body == [f \in [D -> Found] |-> [e \in D |-> MessageStep(f, e)]]
           it == CHOOSE f : f = [e \in D |-> MessageStep(f, e)]
<1>1. \A f \in [D -> Found] : \A e \in D : MessageStep(f, e) \in Found
  BY MessageStepLocal
<1>2. body \in [[D -> Found] -> [D -> Found]]
  <2> HIDE DEF D
  <2> QED BY <1>1
<1>3. \A f, g \in [D -> Found] : \A e \in D :
        (\A h \in D : Len(h) < Len(e) => f[h] = g[h]) => body[f][e] = body[g][e]
  <2> SUFFICES ASSUME NEW f \in [D -> Found], NEW g \in [D -> Found], NEW e \in D,
                      \A h \in D : Len(h) < Len(e) => f[h] = g[h]
               PROVE  MessageStep(g, e) = MessageStep(f, e)
    OBVIOUS
  <2>1. \A h \in D : Len(h) < Len(e) => f[h] \in Found /\ g[h] = f[h]
    OBVIOUS
  <2> QED BY <2>1, MessageStepLocal
<1>4. \E f : f = [e \in D |-> MessageStep(f, e)]
  <2>1. Found # {}
    BY NothingFoundType
  <2>2. \E f \in [D -> Found] : f = body[f]
    <3> HIDE DEF body
    <3> QED BY <1>2, <1>3, <2>1, WellFoundedRecursion
  <2> HIDE DEF D
  <2> QED BY <2>2
<1>5. Message = it
  BY DEF Message, MessageStep
<1>6. Message = [e \in D |-> MessageStep(Message, e)]
  <2>1. it = [e \in D |-> MessageStep(it, e)]
    BY <1>4
  <2> HIDE DEF it
  <2> QED BY <1>5, <2>1
<1>7. \A e \in D : Message[e] = MessageStep(Message, e)
  <2> HIDE DEF D
  <2> QED BY <1>6
<1> DEFINE S == { n \in Nat : \A e \in D : Len(e) < n => Message[e] \in Found }
<1>8. \A n \in Nat : n \in S
  <2>1. 0 \in S
    OBVIOUS
  <2>2. ASSUME NEW n \in Nat, n \in S PROVE n + 1 \in S
    <3> SUFFICES ASSUME NEW e \in D, Len(e) < n + 1 PROVE Message[e] \in Found
      OBVIOUS
    <3>1. \A h \in D : Len(h) < Len(e) => Message[h] \in Found /\ Message[h] = Message[h]
      BY <2>2
    <3>2. MessageStep(Message, e) \in Found
      BY <3>1, MessageStepLocal
    <3> QED BY <1>7, <3>2
  <2> HIDE DEF S
  <2> QED BY <2>1, <2>2, SetInduction
<1>9. Message[d] \in Found
  <2>1. Len(d) + 1 \in S /\ Len(d) < Len(d) + 1
    BY <1>8
  <2> QED BY <2>1
<1> QED BY <1>7, <1>9

-----------------------------------------------------------------------------
(* The data area.                                                          *)

\* The parts of a TLV that is whole lie in the area.
LEMMA TlvFacts ==
  ASSUME NEW a \in Seq(Byte), TlvIsWhole(a)
  PROVE  /\ Len(a) \in Nat /\ Len(a) \geq 2 /\ (LongLength(a) => Len(a) \geq 4)
         /\ TlvLength(a) \in Nat /\ ValueAt(a) \in {3, 5}
         /\ ValueAt(a) + TlvLength(a) \leq Len(a) + 1
<1>1. Len(a) \in Nat /\ Len(a) \geq 2 /\ (LongLength(a) => Len(a) \geq 4)
  BY DEF TlvIsWhole, LengthIsWhole
<1>2. TlvLength(a) \in Nat
  <2>1. CASE LongLength(a)
    <3>1. a[3] \in Byte /\ a[4] \in Byte
      BY <1>1, <2>1
    <3> QED BY <2>1, <3>1, NumberType DEF TlvLength
  <2>2. CASE ~LongLength(a)
    <3>1. a[2] \in Byte
      BY <1>1
    <3> QED BY <2>2, <3>1, ByteFacts DEF TlvLength
  <2> QED BY <2>1, <2>2
<1>3. ValueAt(a) \in {3, 5}
  BY DEF ValueAt
<1>4. ValueAt(a) - 1 + TlvLength(a) \leq Len(a)
  BY DEF TlvIsWhole
<1> QED BY <1>1, <1>2, <1>3, <1>4

AreaStep(f, a) ==
  IF a = <<>> THEN NothingFound
  ELSE IF a[1] = TLV_NULL THEN f[From(a, 2)]
  ELSE IF a[1] = TLV_TERMINATOR \/ ~TlvIsWhole(a) THEN NothingFound
  ELSE LET value == SubSeq(a, ValueAt(a), ValueAt(a) - 1 + TlvLength(a))
       IN IF a[1] = TLV_NDEF_MSG /\ Message[value].found THEN Message[value]
          ELSE f[From(a, ValueAt(a) + TlvLength(a))]

LEMMA TlvParts ==
  ASSUME NEW a \in Seq(Byte), TlvIsWhole(a)
  PROVE  LET value == SubSeq(a, ValueAt(a), ValueAt(a) - 1 + TlvLength(a))
             rest == From(a, ValueAt(a) + TlvLength(a))
         IN /\ value \in Seq(Byte) /\ Message[value] \in Found
            /\ rest \in Seq(Byte) /\ Len(rest) = Len(a) + 1 - (ValueAt(a) + TlvLength(a))
            /\ Len(rest) < Len(a)
<1> DEFINE v == ValueAt(a)
           n == TlvLength(a)
<1>1. Len(a) \in Nat /\ n \in Nat /\ v \in {3, 5} /\ v + n \leq Len(a) + 1
  BY TlvFacts
<1> HIDE DEF v, n
<1>2. SubSeq(a, v, v - 1 + n) \in Seq(Byte)
  <2>1. v \in Nat \ {0} /\ v - 1 + n \in Nat /\ v - 1 + n \leq Len(a)
    BY <1>1
  <2> QED BY <2>1, StretchType
<1>3. Message[SubSeq(a, v, v - 1 + n)] \in Found
  BY <1>2, MessageIs
<1>4. From(a, v + n) \in Seq(Byte) /\ Len(From(a, v + n)) = Len(a) + 1 - (v + n)
  <2>1. v + n \in Nat \ {0} /\ v + n \leq Len(a) + 1
    BY <1>1
  <2> QED BY <2>1, FromType
<1>5. Len(From(a, v + n)) < Len(a)
  BY <1>1, <1>4
<1> QED BY <1>2, <1>3, <1>4, <1>5 DEF v, n

LEMMA TailType ==
  ASSUME NEW a \in Seq(Byte), a # <<>>
  PROVE  From(a, 2) \in Seq(Byte) /\ Len(From(a, 2)) = Len(a) - 1 /\ Len(a) \in Nat \ {0}
<1>1. Len(a) \in Nat \ {0}
  BY EmptySeq
<1>2. 2 \in Nat \ {0} /\ 2 \leq Len(a) + 1 /\ Len(a) + 1 - 2 = Len(a) - 1
  BY <1>1
<1> QED BY <1>1, <1>2, FromType

LEMMA AreaStepLocal ==
  ASSUME NEW a \in Seq(Byte), NEW f, NEW g,
         \A e \in Seq(Byte) : Len(e) < Len(a) => f[e] \in Found /\ g[e] = f[e]
  PROVE  AreaStep(f, a) \in Found /\ AreaStep(g, a) = AreaStep(f, a)
<1> DEFINE value == SubSeq(a, ValueAt(a), ValueAt(a) - 1 + TlvLength(a))
           rest == From(a, ValueAt(a) + TlvLength(a))
<1>1. CASE a = <<>>
  BY <1>1, NothingFoundType DEF AreaStep
<1>2. CASE a # <<>> /\ a[1] = TLV_NULL
  <2>1. From(a, 2) \in Seq(Byte) /\ Len(From(a, 2)) < Len(a)
    <3>1. From(a, 2) \in Seq(Byte) /\ Len(From(a, 2)) = Len(a) - 1 /\ Len(a) \in Nat \ {0}
      BY <1>2, TailType
    <3> QED BY <3>1
  <2>2. f[From(a, 2)] \in Found /\ g[From(a, 2)] = f[From(a, 2)]
    BY <2>1
  <2> QED BY <1>2, <2>2 DEF AreaStep
<1>3. CASE a # <<>> /\ a[1] # TLV_NULL /\ (a[1] = TLV_TERMINATOR \/ ~TlvIsWhole(a))
  BY <1>3, NothingFoundType DEF AreaStep
<1>4. CASE a # <<>> /\ a[1] # TLV_NULL /\ ~(a[1] = TLV_TERMINATOR \/ ~TlvIsWhole(a))
  <2>1. Message[value] \in Found /\ rest \in Seq(Byte) /\ Len(rest) < Len(a)
    BY <1>4, TlvParts
  <2>2. f[rest] \in Found /\ g[rest] = f[rest]
    BY <2>1
  <2> QED BY <1>4, <2>1, <2>2 DEF AreaStep
<1> QED BY <1>1, <1>2, <1>3, <1>4

\* The TLV loop, as an equation, and that it keeps to Found.
LEMMA AreaIs ==
  ASSUME NEW a \in Seq(Byte)
  PROVE  Area[a] = AreaStep(Area, a) /\ Area[a] \in Found
<1> DEFINE D == Seq(Byte)
           body == [f \in [D -> Found] |-> [e \in D |-> AreaStep(f, e)]]
           it == CHOOSE f : f = [e \in D |-> AreaStep(f, e)]
<1>1. \A f \in [D -> Found] : \A e \in D : AreaStep(f, e) \in Found
  BY AreaStepLocal
<1>2. body \in [[D -> Found] -> [D -> Found]]
  <2> HIDE DEF D
  <2> QED BY <1>1
<1>3. \A f, g \in [D -> Found] : \A e \in D :
        (\A h \in D : Len(h) < Len(e) => f[h] = g[h]) => body[f][e] = body[g][e]
  <2> SUFFICES ASSUME NEW f \in [D -> Found], NEW g \in [D -> Found], NEW e \in D,
                      \A h \in D : Len(h) < Len(e) => f[h] = g[h]
               PROVE  AreaStep(g, e) = AreaStep(f, e)
    OBVIOUS
  <2>1. \A h \in D : Len(h) < Len(e) => f[h] \in Found /\ g[h] = f[h]
    OBVIOUS
  <2> QED BY <2>1, AreaStepLocal
<1>4. \E f : f = [e \in D |-> AreaStep(f, e)]
  <2>1. Found # {}
    BY NothingFoundType
  <2>2. \E f \in [D -> Found] : f = body[f]
    <3> HIDE DEF body
    <3> QED BY <1>2, <1>3, <2>1, WellFoundedRecursion
  <2> HIDE DEF D
  <2> QED BY <2>2
<1>5. Area = it
  BY DEF Area, AreaStep
<1>6. Area = [e \in D |-> AreaStep(Area, e)]
  <2>1. it = [e \in D |-> AreaStep(it, e)]
    BY <1>4
  <2> HIDE DEF it
  <2> QED BY <1>5, <2>1
<1>7. \A e \in D : Area[e] = AreaStep(Area, e)
  <2> HIDE DEF D
  <2> QED BY <1>6
<1> DEFINE S == { n \in Nat : \A e \in D : Len(e) < n => Area[e] \in Found }
<1>8. \A n \in Nat : n \in S
  <2>1. 0 \in S
    OBVIOUS
  <2>2. ASSUME NEW n \in Nat, n \in S PROVE n + 1 \in S
    <3> SUFFICES ASSUME NEW e \in D, Len(e) < n + 1 PROVE Area[e] \in Found
      OBVIOUS
    <3>1. \A h \in D : Len(h) < Len(e) => Area[h] \in Found /\ Area[h] = Area[h]
      BY <2>2
    <3>2. AreaStep(Area, e) \in Found
      BY <3>1, AreaStepLocal
    <3> QED BY <1>7, <3>2
  <2> HIDE DEF S
  <2> QED BY <2>1, <2>2, SetInduction
<1>9. Area[a] \in Found
  <2>1. Len(a) + 1 \in S /\ Len(a) < Len(a) + 1
    BY <1>8
  <2> QED BY <2>1
<1> QED BY <1>7, <1>9

-----------------------------------------------------------------------------
(* A tag of which only the first pages were read.                          *)

\* What the first n bytes share with all of them.
LEMMA PrefixFacts ==
  ASSUME NEW a \in Seq(Byte), NEW n \in 0 .. Len(a)
  PROVE  LET b == SubSeq(a, 1, n) IN
         /\ b \in Seq(Byte) /\ Len(b) = n /\ \A i \in 1 .. n : b[i] = a[i]
         /\ \A m \in Nat \ {0}, k \in Nat : k \leq n => SubSeq(b, m, k) = SubSeq(a, m, k)
         /\ \A m \in Nat \ {0} : m \leq n + 1 =>
              From(b, m) = SubSeq(From(a, m), 1, n + 1 - m) /\ n + 1 - m \in 0 .. Len(From(a, m))
<1> DEFINE b == SubSeq(a, 1, n)
<1>1. Len(a) \in Nat /\ n \in Nat /\ n \leq Len(a)
  OBVIOUS
<1>2. b \in Seq(Byte) /\ Len(b) = n /\ \A i \in 1 .. n : b[i] = a[i]
  <2>1. /\ b \in Seq(Byte) /\ Len(b) = IF 1 \leq n THEN n - 1 + 1 ELSE 0
        /\ \A i \in 1 .. n - 1 + 1 : b[i] = a[1 + i - 1]
    BY <1>1, StretchType
  <2> HIDE DEF b
  <2>2. \A i \in 1 .. n : i \in 1 .. n - 1 + 1 /\ 1 + i - 1 = i
    BY <1>1
  <2> QED BY <1>1, <2>1, <2>2
<1> HIDE DEF b
<1>3. ASSUME NEW m \in Nat \ {0}, NEW k \in Nat, k \leq n
      PROVE  SubSeq(b, m, k) = SubSeq(a, m, k)
  <2> DEFINE x == SubSeq(b, m, k)  y == SubSeq(a, m, k)
  <2>1. /\ x \in Seq(Byte) /\ Len(x) = IF m \leq k THEN k - m + 1 ELSE 0
        /\ \A i \in 1 .. k - m + 1 : x[i] = b[m + i - 1]
    BY <1>2, <1>3, StretchType
  <2>2. /\ y \in Seq(Byte) /\ Len(y) = IF m \leq k THEN k - m + 1 ELSE 0
        /\ \A i \in 1 .. k - m + 1 : y[i] = a[m + i - 1]
    BY <1>1, <1>3, StretchType
  <2> HIDE DEF x, y
  <2>3. \A i \in 1 .. Len(x) : x[i] = y[i]
    <3> TAKE i \in 1 .. Len(x)
    <3>1. i \in 1 .. k - m + 1 /\ m + i - 1 \in 1 .. n
      BY <1>1, <1>3, <2>1
    <3> QED BY <1>2, <2>1, <2>2, <3>1
  <2>4. x = y
    BY <2>1, <2>2, <2>3, SeqEqual
  <2> QED BY <2>4 DEF x, y
<1>4. ASSUME NEW m \in Nat \ {0}, m \leq n + 1
      PROVE  From(b, m) = SubSeq(From(a, m), 1, n + 1 - m) /\ n + 1 - m \in 0 .. Len(From(a, m))
  <2> DEFINE x == From(b, m)  u == From(a, m)  k == n + 1 - m  y == SubSeq(u, 1, k)
  <2>1. x \in Seq(Byte) /\ Len(x) = k /\ \A i \in 1 .. k : x[i] = b[m + i - 1]
    BY <1>2, <1>4, FromType
  <2>2. u \in Seq(Byte) /\ Len(u) = Len(a) + 1 - m /\ \A i \in 1 .. Len(a) + 1 - m : u[i] = a[m + i - 1]
    <3>1. m \leq Len(a) + 1
      BY <1>1, <1>4
    <3> QED BY <3>1, FromType
  <2>3. k \in Nat /\ k \leq Len(u) /\ Len(u) \in Nat
    <3> HIDE DEF u
    <3> QED BY <1>1, <1>4, <2>2
  <2> HIDE DEF x, u
  <2>4. /\ y \in Seq(Byte) /\ Len(y) = k
        /\ \A i \in 1 .. k : y[i] = u[i]
    <3>1. /\ y \in Seq(Byte) /\ Len(y) = IF 1 \leq k THEN k - 1 + 1 ELSE 0
          /\ \A i \in 1 .. k - 1 + 1 : y[i] = u[1 + i - 1]
      BY <2>2, <2>3, StretchType
    <3> HIDE DEF y, k
    <3>2. \A i \in 1 .. k : i \in 1 .. k - 1 + 1 /\ 1 + i - 1 = i
      BY <2>3
    <3> QED BY <2>3, <3>1, <3>2
  <2> HIDE DEF y
  <2>5. \A i \in 1 .. k : x[i] = y[i]
    <3> TAKE i \in 1 .. k
    <3>1. i \in 1 .. Len(a) + 1 - m /\ m + i - 1 \in 1 .. n
      BY <1>1, <1>4
    <3> HIDE DEF k
    <3> QED BY <1>2, <2>1, <2>2, <2>4, <3>1
  <2> HIDE DEF k
  <2>6. x = y
    BY <2>1, <2>4, <2>5, SeqEqual
  <2> QED BY <2>3, <2>6 DEF x, y, u, k
<1> QED BY <1>2, <1>3, <1>4 DEF b

\* Of the first bytes of an area the reader makes what it makes of all, or nothing.
LEMMA Truncated ==
  ASSUME NEW a \in Seq(Byte), NEW n \in 0 .. Len(a)
  PROVE  Area[SubSeq(a, 1, n)] \in {NothingFound, Area[a]}
<1> DEFINE Ok(s) == \A k \in 0 .. Len(s) : Area[SubSeq(s, 1, k)] \in {NothingFound, Area[s]}
           S == { m \in Nat : \A s \in Seq(Byte) : Len(s) < m => Ok(s) }
<1>1. ASSUME NEW s \in Seq(Byte), \A t \in Seq(Byte) : Len(t) < Len(s) => Ok(t)
      PROVE  Ok(s)
  <2> SUFFICES ASSUME NEW k \in 0 .. Len(s)
               PROVE  Area[SubSeq(s, 1, k)] \in {NothingFound, Area[s]}
    OBVIOUS
  <2> HIDE DEF Ok
  <2> DEFINE b == SubSeq(s, 1, k)
  <2>1. /\ b \in Seq(Byte) /\ Len(b) = k /\ \A i \in 1 .. k : b[i] = s[i]
        /\ k \in Nat /\ Len(s) \in Nat /\ k \leq Len(s)
    BY PrefixFacts
  <2>2. Area[b] = AreaStep(Area, b) /\ Area[s] = AreaStep(Area, s)
    BY <2>1, AreaIs
  <2>3. ASSUME NEW m \in Nat, m > 1, m \leq k + 1
        PROVE  Area[From(b, m)] \in {NothingFound, Area[From(s, m)]}
    <3>1. From(b, m) = SubSeq(From(s, m), 1, k + 1 - m) /\ k + 1 - m \in 0 .. Len(From(s, m))
      <4>1. \A q \in Nat \ {0} : q \leq k + 1 =>
              From(b, q) = SubSeq(From(s, q), 1, k + 1 - q) /\ k + 1 - q \in 0 .. Len(From(s, q))
        BY PrefixFacts
      <4>2. m \in Nat \ {0}
        BY <2>3
      <4> HIDE DEF b
      <4> QED BY <2>3, <4>1, <4>2
    <3>2. From(s, m) \in Seq(Byte) /\ Len(From(s, m)) < Len(s)
      <4>1. m \in Nat \ {0} /\ m \leq Len(s) + 1
        BY <2>1, <2>3
      <4>2. From(s, m) \in Seq(Byte) /\ Len(From(s, m)) = Len(s) + 1 - m
        BY <4>1, FromType
      <4> QED BY <2>1, <2>3, <4>2
    <3>3. Ok(From(s, m))
      BY <1>1, <3>2
    <3> QED BY <3>1, <3>3 DEF Ok
  <2> SUFFICES Area[b] \in {NothingFound, Area[s]}
    OBVIOUS
  <2>4. CASE b = <<>>
    BY <2>2, <2>4 DEF AreaStep
  <2>5. CASE b # <<>>
    <3>1. k \geq 1 /\ s # <<>> /\ b[1] = s[1]
      <4>1. Len(b) \in Nat \ {0}
        BY <2>1, <2>5, EmptySeq
      <4>2. s # <<>>
        BY <2>1, <4>1, EmptySeq
      <4> HIDE DEF b
      <4> QED BY <2>1, <4>1, <4>2
    <3>2. CASE b[1] = TLV_NULL
      <4>1. Area[b] = Area[From(b, 2)] /\ Area[s] = Area[From(s, 2)]
        <5> HIDE DEF b
        <5> QED BY <2>2, <2>5, <3>1, <3>2 DEF AreaStep
      <4>2. 2 \in Nat /\ 2 > 1 /\ 2 \leq k + 1
        BY <2>1, <3>1
      <4>3. Area[From(b, 2)] \in {NothingFound, Area[From(s, 2)]}
        BY <2>3, <4>2
      <4> QED BY <4>1, <4>3
    <3>3. CASE b[1] # TLV_NULL /\ (b[1] = TLV_TERMINATOR \/ ~TlvIsWhole(b))
      <4>1. Area[b] = NothingFound
        <5> HIDE DEF b
        <5> QED BY <2>2, <2>5, <3>3 DEF AreaStep
      <4> QED BY <4>1
    <3>4. CASE b[1] # TLV_NULL /\ b[1] # TLV_TERMINATOR /\ TlvIsWhole(b)
      <4>1. /\ k \geq 2 /\ (LongLength(b) => k \geq 4) /\ TlvLength(b) \in Nat
            /\ ValueAt(b) \in {3, 5} /\ ValueAt(b) + TlvLength(b) \leq k + 1
        BY <2>1, <3>4, TlvFacts
      <4>2. LongLength(s) <=> LongLength(b)
        <5>1. b[2] = s[2] /\ Len(s) \geq 2 /\ Len(b) \geq 2
          <6> HIDE DEF b
          <6> QED BY <2>1, <4>1
        <5> QED BY <5>1 DEF LongLength
      <4>3. ValueAt(s) = ValueAt(b) /\ TlvLength(s) = TlvLength(b)
        <5>1. b[2] = s[2] /\ (LongLength(b) => b[3] = s[3] /\ b[4] = s[4])
          <6> HIDE DEF b
          <6> QED BY <2>1, <4>1
        <5> QED BY <4>2, <5>1 DEF ValueAt, TlvLength
      <4> DEFINE v == ValueAt(b)  l == TlvLength(b)
      <4>4. TlvIsWhole(s)
        <5>1. LengthIsWhole(s)
          BY <2>1, <4>1, <4>2 DEF LengthIsWhole
        <5>2. ValueAt(s) - 1 + TlvLength(s) \leq Len(s)
          BY <2>1, <4>1, <4>3
        <5> QED BY <5>1, <5>2 DEF TlvIsWhole
      <4>5. SubSeq(b, v, v - 1 + l) = SubSeq(s, v, v - 1 + l)
        <5>1. v \in Nat \ {0} /\ v - 1 + l \in Nat /\ v - 1 + l \leq k
          BY <2>1, <4>1
        <5> HIDE DEF v, l
        <5> QED BY <5>1, PrefixFacts
      <4>6. Area[From(b, v + l)] \in {NothingFound, Area[From(s, v + l)]}
        <5>1. v + l \in Nat /\ v + l > 1 /\ v + l \leq k + 1
          BY <2>1, <4>1
        <5> HIDE DEF v, l
        <5> QED BY <2>3, <5>1
      <4>7. Area[b] = IF b[1] = TLV_NDEF_MSG /\ Message[SubSeq(b, v, v - 1 + l)].found
                      THEN Message[SubSeq(b, v, v - 1 + l)] ELSE Area[From(b, v + l)]
        <5> HIDE DEF b
        <5> QED BY <2>2, <2>5, <3>4 DEF AreaStep
      <4>8. Area[s] = IF s[1] = TLV_NDEF_MSG /\ Message[SubSeq(s, v, v - 1 + l)].found
                      THEN Message[SubSeq(s, v, v - 1 + l)] ELSE Area[From(s, v + l)]
        <5>1. s[1] # TLV_NULL /\ s[1] # TLV_TERMINATOR
          BY <3>1, <3>4
        <5> HIDE DEF b
        <5> QED BY <2>2, <3>1, <4>3, <4>4, <5>1 DEF AreaStep
      <4> HIDE DEF b, v, l
      <4> QED BY <3>1, <4>5, <4>6, <4>7, <4>8
    <3> QED BY <3>2, <3>3, <3>4
  <2> QED BY <2>4, <2>5
<1>2. \A m \in Nat : m \in S
  <2> HIDE DEF Ok
  <2>1. 0 \in S
    OBVIOUS
  <2>2. ASSUME NEW m \in Nat, m \in S PROVE m + 1 \in S
    <3> SUFFICES ASSUME NEW s \in Seq(Byte), Len(s) < m + 1 PROVE Ok(s)
      OBVIOUS
    <3>1. \A t \in Seq(Byte) : Len(t) < Len(s) => Ok(t)
      BY <2>2
    <3> QED BY <1>1, <3>1
  <2> HIDE DEF S
  <2> QED BY <2>1, <2>2, SetInduction
<1>3. Ok(a)
  <2> HIDE DEF Ok
  <2>1. Len(a) + 1 \in S /\ Len(a) < Len(a) + 1
    BY <1>2
  <2> QED BY <2>1
<1> QED BY <1>3

\* wfr_nfc_parse_wifi_tag fills a WfrWifiCreds within its buffers, with one of three
\* security types, from any memory of any length in which no record claims 2^31 bytes
\* or more: every step of its walks leaves less to go through, and parse_wsc_attributes
\* looks at a length before it copies.  A record that claims more may wrap the sum in
\* wfr_nfc.c:173 to 0, and the code then stays at it for ever.
THEOREM ShortRecordsFit ==
  ASSUME NEW memory \in Seq(Byte), LengthsFit(memory)
  PROVE  parse_wifi_tag(memory) \in Found
<1>1. ASSUME Len(memory) \geq 20 PROVE From(memory, 17) \in Seq(Byte)
  <2>1. 17 \in Nat \ {0} /\ 17 \leq Len(memory) + 1
    BY <1>1
  <2> QED BY <2>1, FromType
<1>2. ASSUME Len(memory) \geq 20 PROVE Area[From(memory, 17)] \in Found
  BY <1>1, <1>2, AreaIs
<1>3. 5 * 4 = 20 /\ 3 * 4 + 1 = 13 /\ 4 * 4 + 1 = 17
  OBVIOUS
<1>4. Len(memory) < 20 \/ Len(memory) \geq 20
  <2>1. Len(memory) \in Nat
    OBVIOUS
  <2> QED BY <2>1
<1> QED BY <1>2, <1>3, <1>4, NothingFoundType DEF parse_wifi_tag

\* The walk over a prefix of a memory comes to what the walk over the whole comes to, or
\* to nothing.
LEMMA PrefixRead ==
  ASSUME NEW memory \in Seq(Byte), NEW n \in 0 .. Len(memory)
  PROVE  parse_wifi_tag(SubSeq(memory, 1, n)) \in {NothingFound, parse_wifi_tag(memory)}
<1> DEFINE b == SubSeq(memory, 1, n)  a == From(memory, 17)
<1>1. n \in Nat /\ n \leq Len(memory) /\ Len(memory) \in Nat
  OBVIOUS
<1>2. /\ b \in Seq(Byte) /\ Len(b) = n /\ \A i \in 1 .. n : b[i] = memory[i]
      /\ \A j \in Nat \ {0} : j \leq n + 1 =>
           From(b, j) = SubSeq(From(memory, j), 1, n + 1 - j) /\ n + 1 - j \in 0 .. Len(From(memory, j))
  BY PrefixFacts
<1>3. 5 * 4 = 20 /\ 3 * 4 + 1 = 13 /\ 4 * 4 + 1 = 17
  OBVIOUS
<1> HIDE DEF b
<1>4. parse_wifi_tag(b) = IF Len(b) < 20 \/ b[13] # CC_MAGIC THEN NothingFound ELSE Area[From(b, 17)]
  BY <1>3 DEF parse_wifi_tag
<1>5. CASE Len(b) < 20 \/ b[13] # CC_MAGIC
  BY <1>4, <1>5 DEF b
<1>6. CASE ~(Len(b) < 20 \/ b[13] # CC_MAGIC)
  <2>1. 20 \leq n /\ memory[13] = CC_MAGIC /\ ~(Len(memory) < 20)
    <3>1. 20 \leq n
      BY <1>1, <1>2, <1>6
    <3>2. 13 \in 1 .. n
      BY <1>1, <3>1
    <3>3. memory[13] = b[13]
      BY <1>2, <3>2
    <3>4. ~(Len(memory) < 20)
      BY <1>1, <3>1
    <3> QED BY <1>6, <3>1, <3>3, <3>4
  <2>2. a \in Seq(Byte)
    <3>1. 17 \in Nat \ {0} /\ 17 \leq Len(memory) + 1
      BY <1>1, <2>1
    <3> QED BY <3>1, FromType
  <2>3. From(b, 17) = SubSeq(a, 1, n - 16) /\ n - 16 \in 0 .. Len(a)
    <3>1. 17 \in Nat \ {0} /\ 17 \leq n + 1 /\ n + 1 - 17 = n - 16
      BY <1>1, <2>1
    <3>2. /\ From(b, 17) = SubSeq(From(memory, 17), 1, n + 1 - 17)
          /\ n + 1 - 17 \in 0 .. Len(From(memory, 17))
      BY <1>2, <3>1
    <3> QED BY <3>1, <3>2
  <2>4. parse_wifi_tag(memory) = Area[a]
    BY <1>3, <2>1 DEF parse_wifi_tag
  <2> HIDE DEF a
  <2>5. Area[SubSeq(a, 1, n - 16)] \in {NothingFound, Area[a]}
    BY <2>2, <2>3, Truncated
  <2> QED BY <1>4, <1>6, <2>3, <2>4, <2>5 DEF b
<1> QED BY <1>5, <1>6

\* Of a memory in which no record claims 2^31 bytes or more, a read that ended early
\* gives all that the whole would have given, or nothing, never a part:
\* wfr_nfc_parse_wifi_tag stops at a TLV that is not whole, and looks for records and
\* attributes only in one that is.
THEOREM CutShort ==
  ASSUME NEW memory \in Seq(Byte), LengthsFit(memory), NEW n \in 0 .. Len(memory)
  PROVE  parse_wifi_tag(SubSeq(memory, 1, n)) \in {NothingFound, parse_wifi_tag(memory)}
BY PrefixRead

-----------------------------------------------------------------------------
(* What is written is read: attributes.                                    *)

LEMMA Regroup ==
  ASSUME NEW a \in Seq(Byte), NEW b \in Seq(Byte), NEW c \in Seq(Byte)
  PROVE  (a \o b) \o c = a \o (b \o c)
BY ConcatAssociative

LEMMA WordFacts ==
  /\ \A n \in Word : /\ n \in Nat /\ n \div 256 \in Byte /\ n % 256 \in Byte
                     /\ n = 256 * (n \div 256) + (n % 256)
  /\ \A n \in Word, m \in Nat : m \leq n => m \in Word
  /\ \A n \in Byte : n \in Word
<1>1. ASSUME NEW n \in Word
      PROVE  /\ n \in Nat /\ n \div 256 \in Byte /\ n % 256 \in Byte
             /\ n = 256 * (n \div 256) + (n % 256)
  <2>1. n \in Nat /\ n < 65536
    BY DEF Word
  <2>2. n \div 256 \in 0 .. 255
    BY <2>1
  <2>3. n % 256 \in 0 .. 255 /\ n = 256 * (n \div 256) + (n % 256)
    BY <2>1
  <2> QED BY <2>1, <2>2, <2>3 DEF Byte
<1>2. \A n \in Word, m \in Nat : m \leq n => m \in Word
  BY DEF Word
<1>3. \A n \in Byte : n \in Word
  BY DEF Word, Byte
<1> QED BY <1>1, <1>2, <1>3

\* Two bytes, written and read.
LEMMA U16Is ==
  ASSUME NEW n \in Nat
  PROVE  /\ U16(n) \in Seq(Byte) /\ Len(U16(n)) = 2
         /\ n \in Word => Number(U16(n)[1], U16(n)[2]) = n
<1>1. (n \div 256) % 256 \in Byte /\ n % 256 \in Byte
  BY DEF Byte
<1>2. /\ U16(n) \in Seq(Byte) /\ Len(U16(n)) = 2
      /\ U16(n)[1] = (n \div 256) % 256 /\ U16(n)[2] = n % 256
  <2>1. \A b, c \in Byte : <<b, c>> \in Seq(Byte) /\ Len(<<b, c>>) = 2
    OBVIOUS
  <2> QED BY <1>1, <2>1 DEF U16
<1>3. ASSUME n \in Word PROVE Number(U16(n)[1], U16(n)[2]) = n
  <2>1. n \div 256 \in Byte /\ n = 256 * (n \div 256) + (n % 256)
    BY <1>3, WordFacts
  <2>2. \A b \in Byte : b % 256 = b
    BY DEF Byte
  <2>3. (n \div 256) % 256 = n \div 256
    BY <2>1, <2>2
  <2> QED BY <1>2, <2>1, <2>3 DEF Number
<1> QED BY <1>2, <1>3

\* Id and length of an attribute, written and read.
LEMMA AttributeHead ==
  ASSUME NEW id \in Word, NEW n \in Word
  PROVE  LET h == U16(id) \o U16(n) IN
         /\ h \in Seq(Byte) /\ Len(h) = 4
         /\ Number(h[1], h[2]) = id /\ Number(h[3], h[4]) = n
<1> DEFINE a == U16(id)  b == U16(n)  h == a \o b
<1>1. /\ a \in Seq(Byte) /\ Len(a) = 2 /\ Number(a[1], a[2]) = id
      /\ b \in Seq(Byte) /\ Len(b) = 2 /\ Number(b[1], b[2]) = n
  <2>1. id \in Nat /\ n \in Nat
    BY WordFacts
  <2>2. a \in Seq(Byte) /\ Len(a) = 2 /\ Number(a[1], a[2]) = id
    BY <2>1, U16Is
  <2>3. b \in Seq(Byte) /\ Len(b) = 2 /\ Number(b[1], b[2]) = n
    BY <2>1, U16Is
  <2> QED BY <2>2, <2>3
<1> HIDE DEF a, b
<1>2. /\ h \in Seq(Byte) /\ Len(h) = 2 + 2
      /\ \A i \in 1 .. 2 : h[i] = a[i]
      /\ \A i \in 1 .. 2 : h[2 + i] = b[i]
  <2>1. /\ h \in Seq(Byte) /\ Len(h) = Len(a) + Len(b)
        /\ \A i \in 1 .. Len(a) : h[i] = a[i]
        /\ \A i \in 1 .. Len(b) : h[Len(a) + i] = b[i]
    BY <1>1, ConcatType
  <2> HIDE DEF h
  <2> QED BY <1>1, <2>1
<1>3. h[1] = a[1] /\ h[2] = a[2] /\ h[3] = b[1] /\ h[4] = b[2]
  <2>1. 2 + 1 = 3 /\ 2 + 2 = 4 /\ 1 \in 1 .. 2 /\ 2 \in 1 .. 2
    OBVIOUS
  <2> HIDE DEF h
  <2> QED BY <1>2, <2>1
<1> HIDE DEF h
<1>4. /\ h \in Seq(Byte) /\ Len(h) = 4
      /\ Number(h[1], h[2]) = id /\ Number(h[3], h[4]) = n
  BY <1>1, <1>2, <1>3
<1> QED BY <1>4 DEF h, a, b

\* An attribute as it is written is taken whole, and the walk goes on behind it.
LEMMA AttributeRead ==
  ASSUME NEW id \in Word, NEW value \in Seq(Byte), Len(value) \in Word,
         NEW rest \in Seq(Byte), NEW r \in Found
  PROVE  /\ WscAttribute(id, value) \in Seq(Byte)
         /\ Attributes[WscAttribute(id, value) \o rest][r] =
              Attributes[rest][IF id = ATTR_CREDENTIAL THEN Attributes[value][r]
                                                       ELSE SimpleAttribute(id, value, r)]
<1> DEFINE n == Len(value)
           h == U16(id) \o U16(n)
           w == h \o value
           d == w \o rest
<1>1. n \in Word /\ n \in Nat
  BY WordFacts
<1> HIDE DEF n
<1>2. /\ h \in Seq(Byte) /\ Len(h) = 4
      /\ Number(h[1], h[2]) = id /\ Number(h[3], h[4]) = n
  BY <1>1, AttributeHead
<1> HIDE DEF h
<1>3. w \in Seq(Byte) /\ Len(w) = 4 + n /\ \A i \in 1 .. 4 : w[i] = h[i]
  <2>1. /\ w \in Seq(Byte) /\ Len(w) = Len(h) + Len(value)
        /\ \A i \in 1 .. Len(h) : w[i] = h[i]
    BY <1>2, ConcatType
  <2> HIDE DEF w
  <2> QED BY <1>2, <2>1 DEF n
<1>4. d \in Seq(Byte) /\ Len(d) = (4 + n) + Len(rest) /\ \A i \in 1 .. 4 + n : d[i] = w[i]
  <2> HIDE DEF w
  <2>1. /\ d \in Seq(Byte) /\ Len(d) = Len(w) + Len(rest)
        /\ \A i \in 1 .. Len(w) : d[i] = w[i]
    BY <1>3, ConcatType
  <2> HIDE DEF d
  <2> QED BY <1>3, <2>1
<1>5. Number(d[1], d[2]) = id /\ Number(d[3], d[4]) = n
  <2>1. d[1] = h[1] /\ d[2] = h[2] /\ d[3] = h[3] /\ d[4] = h[4]
    <3>1. \A i \in 1 .. 4 : i \in 1 .. 4 + n
      BY <1>1
    <3> HIDE DEF d, w
    <3> QED BY <1>3, <1>4, <3>1
  <2> HIDE DEF d
  <2> QED BY <1>2, <2>1
<1>6. SubSeq(d, 5, 4 + n) = value
  <2>1. d = h \o (value \o rest)
    BY <1>2, Regroup
  <2>2. SubSeq(h \o (value \o rest), Len(h) + 1, Len(h) + Len(value)) = value
    BY <1>2, Window
  <2>3. Len(h) + 1 = 5 /\ Len(h) + Len(value) = 4 + n
    BY <1>2 DEF n
  <2> HIDE DEF d
  <2> QED BY <2>1, <2>2, <2>3
<1>7. From(d, 5 + n) = rest
  <2>1. From(w \o rest, Len(w) + 1) = rest
    <3> HIDE DEF w
    <3> QED BY <1>3, Behind
  <2>2. Len(w) + 1 = 5 + n
    BY <1>1, <1>3
  <2> QED BY <2>1, <2>2
<1>8. ~(Len(d) < 4 \/ 4 + n > Len(d))
  <2>1. Len(rest) \in Nat
    OBVIOUS
  <2> QED BY <1>1, <1>4, <2>1
<1> HIDE DEF d
<1>9. Attributes[d][r] = AttributesStep(Attributes, d)[r]
  BY <1>4, AttributesIs
<1>10. AttributesStep(Attributes, d)[r] =
         Attributes[rest][IF id = ATTR_CREDENTIAL THEN Attributes[value][r]
                                                  ELSE SimpleAttribute(id, value, r)]
  BY <1>5, <1>6, <1>7, <1>8 DEF AttributesStep
<1>11. WscAttribute(id, value) = w
  BY DEF WscAttribute, w, h, n
<1> HIDE DEF w
<1> QED BY <1>3, <1>9, <1>10, <1>11 DEF d

\* Less than four bytes are no attribute.
LEMMA NoAttributes ==
  ASSUME NEW d \in Seq(Byte), Len(d) < 4, NEW r \in Found
  PROVE  Attributes[d][r] = r
<1>1. Attributes[d][r] = AttributesStep(Attributes, d)[r]
  BY AttributesIs
<1>2. AttributesStep(Attributes, d)[r] = r
  BY DEF AttributesStep
<1> QED BY <1>1, <1>2

-----------------------------------------------------------------------------
(* Stretches one behind the other.                                         *)

\* FlattenSeq, one part at a time.
Joins(p, s, T) ==
  /\ p \in [0 .. Len(s) -> Seq(T)]
  /\ p[0] = <<>>
  /\ \A i \in 1 .. Len(s) : p[i] = p[i - 1] \o s[i]
  /\ FlattenSeq(s) = p[Len(s)]

\* FlattenSeq is such a joining from the end.
LEMMA FlattenJoins ==
  ASSUME NEW T, NEW s \in Seq(Seq(T))
  PROVE  \E p : Joins(p, s, T)
<1> DEFINE N == Len(s)
           X == Seq(T)
           round == [i \in 1 .. N |-> [x \in X |-> x \o s[i]]]
<1>1. N \in Nat /\ (\A i \in 1 .. N : s[i] \in X) /\ <<>> \in X
  BY EmptySeq
<1> HIDE DEF N
<1>2. round \in [1 .. N -> [X -> X]]
  <2>1. \A i \in 1 .. N : \A x \in X : x \o s[i] \in X
    BY <1>1, ConcatProperties
  <2> HIDE DEF X
  <2> QED BY <2>1
<1>3. PICK p \in Runs(N, X, <<>>, round) : TRUE
  <2> HIDE DEF round, X
  <2> QED BY <1>1, <1>2, LoopRuns
<1>4. p \in [0 .. N -> X] /\ p[0] = <<>> /\ \A i \in 1 .. N : p[i] = round[i][p[i - 1]]
  BY <1>3 DEF Runs
<1>5. \A i \in 1 .. N : p[i - 1] \in X /\ p[i] \in X /\ p[i] = p[i - 1] \o s[i]
  <2> TAKE i \in 1 .. N
  <2>1. i - 1 \in 0 .. N /\ i \in 0 .. N
    BY <1>1
  <2>2. p[i - 1] \in X /\ p[i] \in X
    BY <1>4, <2>1
  <2> HIDE DEF X
  <2> QED BY <1>4, <2>2
<1>6. FlattenSeq(s) = p[N]
  <2>1. CASE N = 0
    <3>1. s = <<>>
      BY <2>1, EmptySeq DEF N
    <3> QED BY <1>4, <2>1, <3>1 DEF FlattenSeq, N
  <2>2. CASE N # 0
    <3> DEFINE loop(f) == [i \in 1 .. N |-> IF i = 1 THEN s[i] ELSE f[i - 1] \o s[i]]
               run == CHOOSE f : f = loop(f)
               g == [i \in 1 .. N |-> p[i]]
    <3>1. g = loop(g)
      <4>1. \A i \in 1 .. N : p[i] = IF i = 1 THEN s[i] ELSE g[i - 1] \o s[i]
        <5> TAKE i \in 1 .. N
        <5>1. CASE i = 1
          <6>1. p[1] = p[0] \o s[1]
            <7>1. i - 1 = 0
              BY <5>1
            <7> QED BY <1>5, <5>1, <7>1
          <6>2. <<>> \o s[1] = s[1]
            <7>1. s[1] \in Seq(T)
              BY <1>1, <5>1
            <7> QED BY <7>1, ConcatEmptySeq
          <6> QED BY <1>4, <5>1, <6>1, <6>2
        <5>2. CASE i # 1
          <6>1. i - 1 \in 1 .. N
            BY <1>1, <5>2
          <6>2. g[i - 1] = p[i - 1]
            BY <6>1
          <6> HIDE DEF g
          <6> QED BY <1>5, <5>2, <6>2
        <5> QED BY <5>1, <5>2
      <4> QED BY <4>1
    <3>2. run = loop(run)
      <4>1. \E f : f = loop(f)
        <5> HIDE DEF g, loop
        <5> QED BY <3>1
      <4> HIDE DEF loop
      <4> QED BY <4>1
    <3>3. FlattenSeq(s) = run[N]
      BY <2>2 DEF FlattenSeq, N
    <3> HIDE DEF run
    <3>4. \A i \in 1 .. N : run[i] = IF i = 1 THEN s[i] ELSE run[i - 1] \o s[i]
      BY <3>2
    <3> DEFINE S == { n \in Nat : n + 1 \in 1 .. N => run[n + 1] = p[n + 1] }
    <3>5. \A i \in 1 .. N : p[i] = IF i = 1 THEN s[i] ELSE p[i - 1] \o s[i]
      <4> TAKE i \in 1 .. N
      <4>1. CASE i = 1
        <5>1. p[i] = loop(g)[i]
          BY <3>1
        <5> QED BY <4>1, <5>1
      <4>2. CASE i # 1
        BY <1>5, <4>2
      <4> QED BY <4>1, <4>2
    <3> HIDE DEF g, loop
    <3>6. \A n \in Nat : n \in S
      <4>1. 0 \in S
        <5>1. 0 + 1 = 1
          OBVIOUS
        <5> QED BY <3>4, <3>5, <5>1
      <4>2. ASSUME NEW n \in Nat, n \in S PROVE n + 1 \in S
        <5> SUFFICES ASSUME (n + 1) + 1 \in 1 .. N
                     PROVE  run[(n + 1) + 1] = p[(n + 1) + 1]
          OBVIOUS
        <5> DEFINE i == (n + 1) + 1
        <5>1. i \in 1 .. N /\ i # 1 /\ i - 1 = n + 1 /\ n + 1 \in 1 .. N
          BY <1>1
        <5>2. run[n + 1] = p[n + 1]
          BY <4>2, <5>1
        <5> HIDE DEF i
        <5>3. run[i] = run[i - 1] \o s[i] /\ p[i] = p[i - 1] \o s[i]
          BY <3>4, <3>5, <5>1
        <5>4. run[i] = p[i]
          BY <5>1, <5>2, <5>3
        <5> QED BY <5>4 DEF i
      <4> HIDE DEF S
      <4> QED BY <4>1, <4>2, SetInduction
    <3>7. N - 1 \in Nat /\ (N - 1) + 1 = N /\ N \in 1 .. N
      BY <1>1, <2>2
    <3>8. N - 1 \in S
      <4> HIDE DEF S
      <4> QED BY <3>6, <3>7
    <3>9. run[N] = p[N]
      BY <3>7, <3>8
    <3> QED BY <3>3, <3>9
  <2> QED BY <2>1, <2>2
<1>7. Joins(p, s, T)
  BY <1>4, <1>5, <1>6 DEF Joins, N
<1> QED BY <1>7

\* The walk f takes each stretch of s for itself, which makes h[i] of h[i - 1].
Walks(f, s, h) ==
  \A i \in 1 .. Len(s) : \A rest \in Seq(Byte) : f[s[i] \o rest][h[i - 1]] = f[rest][h[i]]

\* A walk over all stretches is one that takes them in turn.
LEMMA FlattenWalk ==
  ASSUME NEW s \in Seq(Seq(Byte)), NEW f, NEW h, Walks(f, s, h), NEW tail \in Seq(Byte)
  PROVE  f[FlattenSeq(s) \o tail][h[0]] = f[tail][h[Len(s)]]
<1> DEFINE N == Len(s)
<1>1. PICK p : Joins(p, s, Byte)
  BY FlattenJoins
<1>2. /\ p \in [0 .. N -> Seq(Byte)] /\ p[0] = <<>> /\ FlattenSeq(s) = p[N]
      /\ \A i \in 1 .. N : p[i] = p[i - 1] \o s[i]
  BY <1>1 DEF Joins
<1>3. N \in Nat /\ \A i \in 1 .. N : s[i] \in Seq(Byte)
  OBVIOUS
<1>4. \A i \in 1 .. N : \A rest \in Seq(Byte) : f[s[i] \o rest][h[i - 1]] = f[rest][h[i]]
  BY DEF Walks
<1> HIDE DEF N
<1> DEFINE S == { n \in Nat : n \leq N =>
                    \A rest \in Seq(Byte) : f[p[n] \o rest][h[0]] = f[rest][h[n]] }
<1>5. \A n \in Nat : n \in S
  <2>1. 0 \in S
    BY <1>2, ConcatEmptySeq
  <2>2. ASSUME NEW n \in Nat, n \in S PROVE n + 1 \in S
    <3> SUFFICES ASSUME n + 1 \leq N, NEW rest \in Seq(Byte)
                 PROVE  f[p[n + 1] \o rest][h[0]] = f[rest][h[n + 1]]
      OBVIOUS
    <3>1. n + 1 \in 1 .. N /\ (n + 1) - 1 = n /\ n \in 0 .. N /\ n \leq N
      BY <1>3
    <3>2. p[n] \in Seq(Byte) /\ s[n + 1] \in Seq(Byte)
      BY <1>2, <1>3, <3>1
    <3>3. s[n + 1] \o rest \in Seq(Byte)
      BY <3>2, ConcatType
    <3>4. p[n + 1] \o rest = p[n] \o (s[n + 1] \o rest)
      <4>1. p[n + 1] = p[n] \o s[n + 1]
        BY <1>2, <3>1
      <4>2. (p[n] \o s[n + 1]) \o rest = p[n] \o (s[n + 1] \o rest)
        BY <3>2, Regroup
      <4> QED BY <4>1, <4>2
    <3>5. f[p[n] \o (s[n + 1] \o rest)][h[0]] = f[s[n + 1] \o rest][h[n]]
      BY <2>2, <3>1, <3>3
    <3>6. f[s[n + 1] \o rest][h[n]] = f[rest][h[n + 1]]
      BY <1>4, <3>1
    <3> QED BY <3>4, <3>5, <3>6
  <2> HIDE DEF S
  <2> QED BY <2>1, <2>2, SetInduction
<1>6. N \in S
  BY <1>3, <1>5
<1> QED BY <1>2, <1>3, <1>6 DEF N

\* Stretches one behind the other are a stretch, as long as each of them.
LEMMA FlattenType ==
  ASSUME NEW s \in Seq(Seq(Byte))
  PROVE  /\ FlattenSeq(s) \in Seq(Byte) /\ Len(FlattenSeq(s)) \in Nat
         /\ \A i \in 1 .. Len(s) : Len(s[i]) \in Nat /\ Len(s[i]) \leq Len(FlattenSeq(s))
<1> DEFINE N == Len(s)
<1>1. PICK p : Joins(p, s, Byte)
  BY FlattenJoins
<1>2. /\ p \in [0 .. N -> Seq(Byte)] /\ p[0] = <<>> /\ FlattenSeq(s) = p[N]
      /\ \A i \in 1 .. N : p[i] = p[i - 1] \o s[i]
  BY <1>1 DEF Joins
<1>3. N \in Nat /\ \A i \in 1 .. N : s[i] \in Seq(Byte) /\ Len(s[i]) \in Nat
  OBVIOUS
<1> HIDE DEF N
<1>4. \A i \in 0 .. N : p[i] \in Seq(Byte) /\ Len(p[i]) \in Nat
  BY <1>2
<1>5. \A i \in 1 .. N : Len(p[i]) = Len(p[i - 1]) + Len(s[i])
  <2> TAKE i \in 1 .. N
  <2>1. i - 1 \in 0 .. N
    BY <1>3
  <2>2. p[i - 1] \in Seq(Byte) /\ s[i] \in Seq(Byte) /\ p[i] = p[i - 1] \o s[i]
    BY <1>2, <1>3, <1>4, <2>1
  <2> QED BY <2>2, ConcatType
<1> DEFINE S == { n \in Nat : n \leq N => \A i \in 1 .. n : Len(s[i]) \leq Len(p[n]) }
<1>6. \A n \in Nat : n \in S
  <2>1. 0 \in S
    OBVIOUS
  <2>2. ASSUME NEW n \in Nat, n \in S PROVE n + 1 \in S
    <3> SUFFICES ASSUME n + 1 \leq N, NEW i \in 1 .. n + 1
                 PROVE  Len(s[i]) \leq Len(p[n + 1])
      OBVIOUS
    <3>1. n + 1 \in 1 .. N /\ (n + 1) - 1 = n /\ n \in 0 .. N /\ n \leq N /\ n + 1 \in 0 .. N
      BY <1>3
    <3>2. Len(p[n + 1]) = Len(p[n]) + Len(s[n + 1])
      BY <1>5, <3>1
    <3>3. Len(p[n]) \in Nat /\ Len(s[n + 1]) \in Nat
      BY <1>3, <1>4, <3>1
    <3>6. Len(s[n + 1]) \leq Len(p[n + 1]) /\ Len(p[n]) \leq Len(p[n + 1]) /\ Len(p[n + 1]) \in Nat
      <4>1. \A k, l \in Nat : k \leq k + l /\ l \leq k + l /\ k + l \in Nat
        OBVIOUS
      <4> QED BY <3>2, <3>3, <4>1
    <3>4. CASE i = n + 1
      BY <3>6, <3>4
    <3>5. CASE i # n + 1
      <4>1. i \in 1 .. n /\ i \in 1 .. N
        BY <1>3, <3>1, <3>5
      <4>2. Len(s[i]) \in Nat /\ Len(s[i]) \leq Len(p[n])
        BY <1>3, <2>2, <3>1, <4>1
      <4>3. \A k, l, m \in Nat : k \leq l /\ l \leq m => k \leq m
        OBVIOUS
      <4> QED BY <3>3, <3>6, <4>2, <4>3
    <3> QED BY <3>4, <3>5
  <2> HIDE DEF S
  <2> QED BY <2>1, <2>2, SetInduction
<1>7. N \in S /\ N \in 0 .. N
  BY <1>3, <1>6
<1> QED BY <1>2, <1>3, <1>4, <1>7 DEF N

-----------------------------------------------------------------------------
(* What is written is read: the networks of a payload.                     *)

LEMMA AttributeLength ==
  ASSUME NEW id \in Nat, NEW value \in Seq(Byte)
  PROVE  WscAttribute(id, value) \in Seq(Byte) /\ Len(WscAttribute(id, value)) = 4 + Len(value)
<1> DEFINE a == U16(id)  b == U16(Len(value))
<1>1. a \in Seq(Byte) /\ b \in Seq(Byte) /\ Len(a) = 2 /\ Len(b) = 2 /\ Len(value) \in Nat
  BY U16Is
<1> HIDE DEF a, b
<1>2. a \o b \in Seq(Byte) /\ Len(a \o b) = 4
  <2>1. a \o b \in Seq(Byte) /\ Len(a \o b) = Len(a) + Len(b)
    BY <1>1, ConcatType
  <2> QED BY <1>1, <2>1
<1>3. (a \o b) \o value \in Seq(Byte) /\ Len((a \o b) \o value) = Len(a \o b) + Len(value)
  BY <1>2, ConcatType
<1> QED BY <1>1, <1>2, <1>3 DEF WscAttribute, a, b

WithSsid(r, value) == [r EXCEPT !.ssid = CString(value), !.found = TRUE]
WithAuth(r, auth) == [r EXCEPT !.security = AuthType(auth)]
WithKey(r, value) == [r EXCEPT !.password = CString(value)]

\* One field is written, the others stay.
LEMMA WithFields ==
  ASSUME NEW r \in Found, NEW value, NEW auth
  PROVE  /\ WithSsid(r, value).ssid = CString(value) /\ WithSsid(r, value).found = TRUE
         /\ WithSsid(r, value).security = r.security /\ WithSsid(r, value).password = r.password
         /\ WithAuth(r, auth).security = AuthType(auth) /\ WithAuth(r, auth).found = r.found
         /\ WithAuth(r, auth).ssid = r.ssid /\ WithAuth(r, auth).password = r.password
         /\ WithKey(r, value).password = CString(value) /\ WithKey(r, value).found = r.found
         /\ WithKey(r, value).ssid = r.ssid /\ WithKey(r, value).security = r.security
BY DEF Found, WithSsid, WithAuth, WithKey

LEMMA SimpleAttributeIs ==
  ASSUME NEW value, NEW r
  PROVE  /\ SimpleAttribute(ATTR_SSID, value, r) =
              IF Len(value) \in 1 .. SsidMax THEN WithSsid(r, value) ELSE r
         /\ SimpleAttribute(ATTR_AUTH_TYPE, value, r) =
              IF Len(value) = 2 THEN WithAuth(r, Number(value[1], value[2])) ELSE r
         /\ SimpleAttribute(ATTR_NET_KEY, value, r) =
              IF Len(value) \in 1 .. PassMax THEN WithKey(r, value) ELSE r
         /\ SimpleAttribute(4170, value, r) = r /\ SimpleAttribute(4128, value, r) = r
BY DEF SimpleAttribute, ATTR_SSID, ATTR_AUTH_TYPE, ATTR_NET_KEY, WithSsid, WithAuth, WithKey

\* What the reader makes of an attribute of a network.
Take(net, name, r) ==
  CASE name = "ssid" -> SimpleAttribute(ATTR_SSID, net.ssid, r)
    [] name = "auth" -> SimpleAttribute(ATTR_AUTH_TYPE, U16(net.auth), r)
    [] name = "key"  -> IF net.key = <<>> THEN r ELSE SimpleAttribute(ATTR_NET_KEY, net.key, r)
    [] name = "mac"  -> r

SsidFits(net) == Len(net.ssid) \in 1 .. SsidMax
KeyFits(net) == Len(net.key) \in 1 .. PassMax

LEMMA TakeIs ==
  ASSUME NEW net \in Networks, NEW name \in AttributeNames, NEW r \in Found
  PROVE  LET t == Take(net, name, r) IN
         /\ t \in Found
         /\ t.ssid = IF name = "ssid" /\ SsidFits(net) THEN CString(net.ssid) ELSE r.ssid
         /\ t.found = ((name = "ssid" /\ SsidFits(net)) \/ r.found)
         /\ t.security = IF name = "auth" THEN AuthType(net.auth) ELSE r.security
         /\ t.password = IF name = "key" /\ KeyFits(net) THEN CString(net.key) ELSE r.password
<1> DEFINE t == Take(net, name, r)
<1>1. /\ net.ssid \in Seq(Byte) /\ net.key \in Seq(Byte) /\ net.auth \in Word
      /\ U16(net.auth) \in Seq(Byte) /\ Len(U16(net.auth)) = 2
      /\ Number(U16(net.auth)[1], U16(net.auth)[2]) = net.auth
  BY U16Is, WordFacts DEF Networks
<1>2. t \in Found
  BY <1>1, SimpleAttributeType DEF Take, AttributeNames
<1>3. r.found \in BOOLEAN
  BY DEF Found
<1>4. CASE name = "ssid"
  <2>1. t = IF SsidFits(net) THEN WithSsid(r, net.ssid) ELSE r
    <3>1. t = SimpleAttribute(ATTR_SSID, net.ssid, r)
      BY <1>4 DEF Take
    <3> HIDE DEF t
    <3> QED BY <3>1, SimpleAttributeIs DEF SsidFits
  <2> HIDE DEF t
  <2>2. CASE SsidFits(net)
    <3>1. t = WithSsid(r, net.ssid)
      BY <2>1, <2>2
    <3>2. /\ t.ssid = CString(net.ssid) /\ t.found = TRUE
          /\ t.security = r.security /\ t.password = r.password
      BY <3>1, WithFields
    <3> QED BY <1>2, <1>4, <2>2, <3>2 DEF t
  <2>3. CASE ~SsidFits(net)
    <3>1. t = r
      BY <2>1, <2>3
    <3> QED BY <1>2, <1>3, <1>4, <2>3, <3>1 DEF t
  <2> QED BY <2>2, <2>3
<1>5. CASE name = "auth"
  <2>1. t = WithAuth(r, net.auth)
    <3>1. t = SimpleAttribute(ATTR_AUTH_TYPE, U16(net.auth), r)
      BY <1>5 DEF Take
    <3> HIDE DEF t
    <3> QED BY <1>1, <3>1, SimpleAttributeIs
  <2> HIDE DEF t
  <2>2. /\ t.security = AuthType(net.auth) /\ t.found = r.found
        /\ t.ssid = r.ssid /\ t.password = r.password
    BY <2>1, WithFields
  <2> QED BY <1>2, <1>3, <1>5, <2>2 DEF t
<1>6. CASE name = "key"
  <2>0. KeyFits(net) => net.key # <<>>
    BY <1>1, EmptySeq DEF KeyFits
  <2>1. t = IF KeyFits(net) THEN WithKey(r, net.key) ELSE r
    <3>1. CASE net.key = <<>>
      BY <1>6, <2>0, <3>1 DEF Take
    <3>2. CASE net.key # <<>>
      <4>1. t = SimpleAttribute(ATTR_NET_KEY, net.key, r)
        BY <1>6, <3>2 DEF Take
      <4> HIDE DEF t
      <4> QED BY <4>1, SimpleAttributeIs DEF KeyFits
    <3> QED BY <3>1, <3>2
  <2> HIDE DEF t
  <2>2. CASE KeyFits(net)
    <3>1. t = WithKey(r, net.key)
      BY <2>1, <2>2
    <3>2. /\ t.password = CString(net.key) /\ t.found = r.found
          /\ t.ssid = r.ssid /\ t.security = r.security
      BY <3>1, WithFields
    <3> QED BY <1>2, <1>3, <1>6, <2>2, <3>2 DEF t
  <2>3. CASE ~KeyFits(net)
    <3>1. t = r
      BY <2>1, <2>3
    <3> QED BY <1>2, <1>3, <1>6, <2>3, <3>1 DEF t
  <2> QED BY <2>2, <2>3
<1>7. CASE name = "mac"
  <2>1. t = r
    BY <1>7 DEF Take
  <2> HIDE DEF t
  <2> QED BY <1>2, <1>3, <1>7, <2>1 DEF t
<1> QED BY <1>4, <1>5, <1>6, <1>7 DEF AttributeNames

LEMMA AttributePartType ==
  ASSUME NEW net \in Networks, NEW name \in AttributeNames
  PROVE  Attribute(net, name) \in Seq(Byte) /\ Len(Attribute(net, name)) \in Nat
<1>1. /\ net.ssid \in Seq(Byte) /\ net.key \in Seq(Byte) /\ U16(net.auth) \in Seq(Byte)
  BY U16Is, WordFacts DEF Networks
<1>2. <<1, 2, 3, 4, 5, 6>> \in Seq(Byte)
  <2>1. {1, 2, 3, 4, 5, 6} \subseteq Byte
    BY DEF Byte
  <2> QED BY <2>1
<1>3. ATTR_SSID \in Nat /\ ATTR_AUTH_TYPE \in Nat /\ ATTR_NET_KEY \in Nat
  BY DEF ATTR_SSID, ATTR_AUTH_TYPE, ATTR_NET_KEY
<1>4. Attribute(net, name) \in Seq(Byte)
  <2>1. CASE name = "ssid"
    <3>1. WscAttribute(ATTR_SSID, net.ssid) \in Seq(Byte)
      BY <1>1, <1>3, AttributeLength
    <3> QED BY <2>1, <3>1 DEF Attribute
  <2>2. CASE name = "auth"
    <3>1. WscAttribute(ATTR_AUTH_TYPE, U16(net.auth)) \in Seq(Byte)
      BY <1>1, <1>3, AttributeLength
    <3> QED BY <2>2, <3>1 DEF Attribute
  <2>3. CASE name = "key"
    <3>1. WscAttribute(ATTR_NET_KEY, net.key) \in Seq(Byte) /\ <<>> \in Seq(Byte)
      BY <1>1, <1>3, AttributeLength, EmptySeq
    <3> QED BY <2>3, <3>1 DEF Attribute
  <2>4. CASE name = "mac"
    <3>1. WscAttribute(4128, <<1, 2, 3, 4, 5, 6>>) \in Seq(Byte)
      <4> DEFINE value == <<1, 2, 3, 4, 5, 6>>  id == 4128
      <4>1. id \in Nat /\ value \in Seq(Byte)
        BY <1>2
      <4> HIDE DEF value, id
      <4>2. WscAttribute(id, value) \in Seq(Byte)
        BY <4>1, AttributeLength
      <4> QED BY <4>2 DEF id, value
    <3> QED BY <2>4, <3>1 DEF Attribute
  <2> QED BY <2>1, <2>2, <2>3, <2>4 DEF AttributeNames
<1> QED BY <1>4

\* Each attribute of a network is read as Take says.
LEMMA AttributePartRead ==
  ASSUME NEW net \in Networks, NEW name \in AttributeNames, Len(Attribute(net, name)) \in Word,
         NEW rest \in Seq(Byte), NEW r \in Found
  PROVE  Attributes[Attribute(net, name) \o rest][r] = Attributes[rest][Take(net, name, r)]
<1>1. /\ net.ssid \in Seq(Byte) /\ net.key \in Seq(Byte)
      /\ U16(net.auth) \in Seq(Byte) /\ Len(U16(net.auth)) = 2
  BY U16Is, WordFacts DEF Networks
<1>2. ASSUME NEW id \in Word, NEW value \in Seq(Byte), Attribute(net, name) = WscAttribute(id, value)
      PROVE  Attributes[Attribute(net, name) \o rest][r] =
               Attributes[rest][IF id = ATTR_CREDENTIAL THEN Attributes[value][r]
                                                        ELSE SimpleAttribute(id, value, r)]
  <2>1. Len(value) \in Word
    <3>1. id \in Nat
      BY WordFacts
    <3>2. Len(Attribute(net, name)) = 4 + Len(value) /\ Len(value) \in Nat
      BY <1>2, <3>1, AttributeLength
    <3>3. Len(value) \leq 4 + Len(value)
      BY <3>2
    <3> QED BY <3>2, <3>3, WordFacts
  <2> QED BY <1>2, <2>1, AttributeRead
<1>3. CASE name = "ssid"
  <2>1. ATTR_SSID \in Word /\ ATTR_SSID # ATTR_CREDENTIAL
    BY DEF ATTR_SSID, ATTR_CREDENTIAL, Word
  <2>2. Attribute(net, name) = WscAttribute(ATTR_SSID, net.ssid)
    BY <1>3 DEF Attribute
  <2>3. Take(net, name, r) = SimpleAttribute(ATTR_SSID, net.ssid, r)
    BY <1>3 DEF Take
  <2> QED BY <1>1, <1>2, <2>1, <2>2, <2>3
<1>4. CASE name = "auth"
  <2>1. ATTR_AUTH_TYPE \in Word /\ ATTR_AUTH_TYPE # ATTR_CREDENTIAL
    BY DEF ATTR_AUTH_TYPE, ATTR_CREDENTIAL, Word
  <2>2. Attribute(net, name) = WscAttribute(ATTR_AUTH_TYPE, U16(net.auth))
    BY <1>4 DEF Attribute
  <2>3. Take(net, name, r) = SimpleAttribute(ATTR_AUTH_TYPE, U16(net.auth), r)
    BY <1>4 DEF Take
  <2> QED BY <1>1, <1>2, <2>1, <2>2, <2>3
<1>5. CASE name = "key" /\ net.key = <<>>
  <2>1. Attribute(net, name) = <<>> /\ Take(net, name, r) = r
    BY <1>5 DEF Attribute, Take
  <2>2. <<>> \o rest = rest
    BY ConcatEmptySeq
  <2> QED BY <2>1, <2>2
<1>6. CASE name = "key" /\ net.key # <<>>
  <2>1. ATTR_NET_KEY \in Word /\ ATTR_NET_KEY # ATTR_CREDENTIAL
    BY DEF ATTR_NET_KEY, ATTR_CREDENTIAL, Word
  <2>2. Attribute(net, name) = WscAttribute(ATTR_NET_KEY, net.key)
    BY <1>6 DEF Attribute
  <2>3. Take(net, name, r) = SimpleAttribute(ATTR_NET_KEY, net.key, r)
    BY <1>6 DEF Take
  <2> QED BY <1>1, <1>2, <2>1, <2>2, <2>3
<1>7. CASE name = "mac"
  <2> DEFINE id == 4128  value == <<1, 2, 3, 4, 5, 6>>
  <2>1. id \in Word /\ id # ATTR_CREDENTIAL
    BY DEF ATTR_CREDENTIAL, Word
  <2>2. Attribute(net, name) = WscAttribute(id, value) /\ Take(net, name, r) = r
    BY <1>7 DEF Attribute, Take
  <2>3. value \in Seq(Byte)
    <3>1. {1, 2, 3, 4, 5, 6} \subseteq Byte
      BY DEF Byte
    <3> QED BY <3>1
  <2>4. SimpleAttribute(id, value, r) = r
    BY SimpleAttributeIs
  <2> HIDE DEF id, value
  <2> QED BY <1>2, <2>1, <2>2, <2>3, <2>4
<1> QED BY <1>3, <1>4, <1>5, <1>6, <1>7 DEF AttributeNames

\* The attributes in a Credential, one behind the other.
Parts(net, order) == [i \in DOMAIN order |-> Attribute(net, order[i])]

\* An order in which every attribute of the network occurs.
Orders == { order \in Seq(AttributeNames) :
              \A name \in {"ssid", "auth", "key"} : \E i \in DOMAIN order : order[i] = name }

\* t is what r becomes once a Credential of the network has been read.
Applied(net, r, t) ==
  /\ t \in Found
  /\ t.ssid = IF SsidFits(net) THEN CString(net.ssid) ELSE r.ssid
  /\ t.found = (SsidFits(net) \/ r.found)
  /\ t.security = AuthType(net.auth)
  /\ t.password = IF KeyFits(net) THEN CString(net.key) ELSE r.password

LEMMA PartsType ==
  ASSUME NEW net \in Networks, NEW order \in Orders
  PROVE  /\ Parts(net, order) \in Seq(Seq(Byte)) /\ Len(Parts(net, order)) = Len(order)
         /\ Len(order) \in Nat /\ DOMAIN order = 1 .. Len(order)
         /\ \A i \in 1 .. Len(order) :
              order[i] \in AttributeNames /\ Parts(net, order)[i] = Attribute(net, order[i])
<1>1. order \in Seq(AttributeNames)
  BY DEF Orders
<1>2. Len(order) \in Nat /\ DOMAIN order = 1 .. Len(order) /\ \A i \in 1 .. Len(order) : order[i] \in AttributeNames
  BY <1>1
<1>3. \A i \in 1 .. Len(order) : Attribute(net, order[i]) \in Seq(Byte)
  BY <1>2, AttributePartType
<1>4. Parts(net, order) = [i \in 1 .. Len(order) |-> Attribute(net, order[i])]
  BY <1>2 DEF Parts
<1>5. Parts(net, order) \in Seq(Seq(Byte)) /\ Len(Parts(net, order)) = Len(order)
  <2> DEFINE X == Seq(Byte)  N == Len(order)  p == [i \in 1 .. N |-> Attribute(net, order[i])]
  <2>1. \A i \in 1 .. N : Attribute(net, order[i]) \in X
    BY <1>3
  <2>2. N \in Nat
    BY <1>2
  <2> HIDE DEF X, N
  <2>3. p \in [1 .. N -> X]
    BY <2>1
  <2>4. p \in Seq(X) /\ Len(p) = N
    BY <2>2, <2>3
  <2> QED BY <1>4, <2>4 DEF X, N
<1> QED BY <1>2, <1>4, <1>5

\* In whatever order they stand, attributes are read as the network they are of.
LEMMA ContentRead ==
  ASSUME NEW net \in Networks, NEW order \in Orders,
         Len(FlattenSeq(Parts(net, order))) \in Word, NEW r \in Found
  PROVE  /\ FlattenSeq(Parts(net, order)) \in Seq(Byte)
         /\ Applied(net, r, Attributes[FlattenSeq(Parts(net, order))][r])
<1> DEFINE s == Parts(net, order)
           N == Len(order)
           round == [i \in 1 .. N |-> [x \in Found |-> Take(net, order[i], x)]]
<1>1. /\ s \in Seq(Seq(Byte)) /\ Len(s) = N /\ N \in Nat /\ DOMAIN order = 1 .. N
      /\ \A i \in 1 .. N : order[i] \in AttributeNames /\ s[i] = Attribute(net, order[i])
  BY PartsType
<1> HIDE DEF N
<1>2. round \in [1 .. N -> [Found -> Found]]
  <2>1. \A i \in 1 .. N : \A x \in Found : Take(net, order[i], x) \in Found
    BY <1>1, TakeIs
  <2> QED BY <2>1
<1>3. PICK h \in Runs(N, Found, r, round) : TRUE
  <2> HIDE DEF round
  <2> QED BY <1>1, <1>2, LoopRuns
<1>4. h \in [0 .. N -> Found] /\ h[0] = r /\ \A i \in 1 .. N : h[i] = round[i][h[i - 1]]
  BY <1>3 DEF Runs
<1>5. \A i \in 1 .. N : i - 1 \in 0 .. N /\ h[i - 1] \in Found /\ h[i] = Take(net, order[i], h[i - 1])
  <2> TAKE i \in 1 .. N
  <2>1. i - 1 \in 0 .. N
    BY <1>1
  <2>2. h[i - 1] \in Found
    BY <1>4, <2>1
  <2> QED BY <1>4, <2>1, <2>2
<1> HIDE DEF round, s
<1>6. /\ FlattenSeq(s) \in Seq(Byte) /\ Len(FlattenSeq(s)) \in Word
      /\ \A i \in 1 .. N : Len(s[i]) \in Nat /\ Len(s[i]) \leq Len(FlattenSeq(s))
  BY <1>1, FlattenType DEF s
<1>7. \A i \in 1 .. N : \A rest \in Seq(Byte) :
        Attributes[s[i] \o rest][h[i - 1]] = Attributes[rest][h[i]]
  <2> TAKE i \in 1 .. N
  <2> TAKE rest \in Seq(Byte)
  <2>1. /\ order[i] \in AttributeNames /\ s[i] = Attribute(net, order[i]) /\ h[i - 1] \in Found
        /\ h[i] = Take(net, order[i], h[i - 1])
    BY <1>1, <1>5
  <2>2. Len(Attribute(net, order[i])) \in Word
    BY <1>6, <2>1, WordFacts
  <2>3. Attributes[Attribute(net, order[i]) \o rest][h[i - 1]] =
          Attributes[rest][Take(net, order[i], h[i - 1])]
    BY <2>1, <2>2, AttributePartRead
  <2> QED BY <2>1, <2>3
<1>8. Attributes[FlattenSeq(s)][r] = h[N]
  <2> DEFINE none == <<>>
  <2>1. none \in Seq(Byte) /\ Len(none) < 4
    BY EmptySeq
  <2>2. FlattenSeq(s) \o none = FlattenSeq(s)
    BY <1>6, ConcatEmptySeq
  <2> HIDE DEF none
  <2>3. Walks(Attributes, s, h)
    BY <1>1, <1>7 DEF Walks
  <2>4. Attributes[FlattenSeq(s) \o none][h[0]] = Attributes[none][h[Len(s)]]
    BY <1>1, <2>1, <2>3, FlattenWalk
  <2>5. h[N] \in Found
    BY <1>1, <1>4
  <2>6. Attributes[none][h[N]] = h[N]
    BY <2>1, <2>5, NoAttributes
  <2> QED BY <1>1, <1>4, <2>2, <2>4, <2>6
<1> DEFINE seen(n, name) == \E i \in 1 .. n : order[i] = name
           Now(n) ==
             /\ h[n].ssid = IF SsidFits(net) /\ seen(n, "ssid") THEN CString(net.ssid) ELSE r.ssid
             /\ h[n].found = ((SsidFits(net) /\ seen(n, "ssid")) \/ r.found)
             /\ h[n].security = IF seen(n, "auth") THEN AuthType(net.auth) ELSE r.security
             /\ h[n].password = IF KeyFits(net) /\ seen(n, "key") THEN CString(net.key) ELSE r.password
           S == { n \in Nat : n \leq N => Now(n) }
<1>9. \A n \in Nat : n \in S
  <2>1. 0 \in S
    <3>1. r.found \in BOOLEAN
      BY FoundFields
    <3>2. \A name : ~seen(0, name)
      OBVIOUS
    <3> HIDE DEF seen
    <3>3. Now(0)
      BY <1>4, <3>1, <3>2
    <3> QED BY <3>3
  <2>2. ASSUME NEW n \in Nat, n \in S PROVE n + 1 \in S
    <3> SUFFICES ASSUME n + 1 \leq N PROVE Now(n + 1)
      OBVIOUS
    <3>1. n + 1 \in 1 .. N /\ (n + 1) - 1 = n /\ n \leq N
      BY <1>1
    <3>2. \A name : seen(n + 1, name) <=> (seen(n, name) \/ order[n + 1] = name)
      <4> TAKE name
      <4>1. \A i \in 1 .. n + 1 : i \in 1 .. n \/ i = n + 1
        OBVIOUS
      <4>2. \A i \in 1 .. n : i \in 1 .. n + 1
        OBVIOUS
      <4>3. n + 1 \in 1 .. n + 1
        OBVIOUS
      <4> QED BY <4>1, <4>2, <4>3
    <3> HIDE DEF seen
    <3>3. Now(n)
      BY <2>2, <3>1
    <3> DEFINE t == h[n + 1]  u == h[n]  name == order[n + 1]
    <3>4. /\ t.ssid = IF name = "ssid" /\ SsidFits(net) THEN CString(net.ssid) ELSE u.ssid
          /\ t.found = ((name = "ssid" /\ SsidFits(net)) \/ u.found)
          /\ t.security = IF name = "auth" THEN AuthType(net.auth) ELSE u.security
          /\ t.password = IF name = "key" /\ KeyFits(net) THEN CString(net.key) ELSE u.password
      <4>1. name \in AttributeNames /\ u \in Found /\ t = Take(net, name, u)
        BY <1>1, <1>5, <3>1
      <4> HIDE DEF t, u, name
      <4> QED BY <4>1, TakeIs
    <3>5. Now(n + 1)
      <4>1. /\ seen(n + 1, "ssid") <=> (seen(n, "ssid") \/ name = "ssid")
            /\ seen(n + 1, "auth") <=> (seen(n, "auth") \/ name = "auth")
            /\ seen(n + 1, "key") <=> (seen(n, "key") \/ name = "key")
        BY <3>2
      <4>2. /\ u.ssid = IF SsidFits(net) /\ seen(n, "ssid") THEN CString(net.ssid) ELSE r.ssid
            /\ u.found = ((SsidFits(net) /\ seen(n, "ssid")) \/ r.found)
            /\ u.security = IF seen(n, "auth") THEN AuthType(net.auth) ELSE r.security
            /\ u.password = IF KeyFits(net) /\ seen(n, "key") THEN CString(net.key) ELSE r.password
        BY <3>3
      <4> HIDE DEF u, name
      <4>3. /\ t.ssid = IF SsidFits(net) /\ seen(n + 1, "ssid") THEN CString(net.ssid) ELSE r.ssid
            /\ t.security = IF seen(n + 1, "auth") THEN AuthType(net.auth) ELSE r.security
            /\ t.password = IF KeyFits(net) /\ seen(n + 1, "key") THEN CString(net.key) ELSE r.password
        BY <3>4, <4>1, <4>2
      <4>4. t.found = ((SsidFits(net) /\ seen(n + 1, "ssid")) \/ r.found)
        BY <3>4, <4>1, <4>2
      <4> QED BY <4>3, <4>4
    <3> QED BY <3>5
  <2> HIDE DEF S
  <2> QED BY <2>1, <2>2, SetInduction
<1>10. seen(N, "ssid") /\ seen(N, "auth") /\ seen(N, "key")
  BY <1>1 DEF Orders
<1>11. N \in S /\ h[N] \in Found
  <2>1. h[N] \in Found
    BY <1>1, <1>4
  <2> HIDE DEF S
  <2> QED BY <1>1, <1>9, <2>1
<1>12. Applied(net, r, h[N])
  <2>1. Now(N)
    BY <1>1, <1>11
  <2> HIDE DEF seen
  <2> QED BY <1>10, <1>11, <2>1 DEF Applied
<1> QED BY <1>6, <1>8, <1>12 DEF s

\* What is found after a Credential of net, when r was before it.
After(net, order, r) == Attributes[FlattenSeq(Parts(net, order))][r]

LEMMA CredentialType ==
  ASSUME NEW net \in Networks, NEW order \in Orders
  PROVE  /\ Credential(net, order) = WscAttribute(ATTR_CREDENTIAL, FlattenSeq(Parts(net, order)))
         /\ Credential(net, order) \in Seq(Byte) /\ FlattenSeq(Parts(net, order)) \in Seq(Byte)
         /\ Len(Credential(net, order)) = 4 + Len(FlattenSeq(Parts(net, order)))
<1>1. Credential(net, order) = WscAttribute(ATTR_CREDENTIAL, FlattenSeq(Parts(net, order)))
  BY DEF Credential, Parts
<1>2. FlattenSeq(Parts(net, order)) \in Seq(Byte)
  BY PartsType, FlattenType
<1>3. ATTR_CREDENTIAL \in Nat
  BY DEF ATTR_CREDENTIAL
<1> QED BY <1>1, <1>2, <1>3, AttributeLength

\* A Credential is read as its network, and the walk goes on behind it.
LEMMA CredentialRead ==
  ASSUME NEW net \in Networks, NEW order \in Orders, Len(Credential(net, order)) \in Word,
         NEW r \in Found
  PROVE  /\ Applied(net, r, After(net, order, r))
         /\ \A rest \in Seq(Byte) :
              Attributes[Credential(net, order) \o rest][r] = Attributes[rest][After(net, order, r)]
<1> DEFINE value == FlattenSeq(Parts(net, order))
<1>1. /\ Credential(net, order) = WscAttribute(ATTR_CREDENTIAL, value)
      /\ value \in Seq(Byte) /\ Len(Credential(net, order)) = 4 + Len(value)
  BY CredentialType
<1>2. Len(value) \in Word
  <2>1. Len(value) \in Nat /\ Len(value) \leq 4 + Len(value)
    BY <1>1
  <2> QED BY <1>1, <2>1, WordFacts
<1>3. Applied(net, r, After(net, order, r))
  BY <1>2, ContentRead DEF After
<1>4. ATTR_CREDENTIAL \in Word
  BY DEF ATTR_CREDENTIAL, Word
<1>5. ASSUME NEW rest \in Seq(Byte)
      PROVE  Attributes[Credential(net, order) \o rest][r] = Attributes[rest][After(net, order, r)]
  <2> HIDE DEF value
  <2> QED BY <1>1, <1>2, <1>4, AttributeRead DEF After, value
<1> QED BY <1>3, <1>5

\* The Credentials behind the version.
CredentialsOf(nets, order) == [i \in DOMAIN nets |-> Credential(nets[i], order)]

LEMMA CredentialsOfType ==
  ASSUME NEW nets \in Seq(Networks), NEW order \in Orders
  PROVE  /\ CredentialsOf(nets, order) \in Seq(Seq(Byte))
         /\ Len(CredentialsOf(nets, order)) = Len(nets) /\ Len(nets) \in Nat
         /\ \A i \in 1 .. Len(nets) :
              nets[i] \in Networks /\ CredentialsOf(nets, order)[i] = Credential(nets[i], order)
<1> DEFINE X == Seq(Byte)  N == Len(nets)  p == [i \in 1 .. N |-> Credential(nets[i], order)]
<1>1. N \in Nat /\ DOMAIN nets = 1 .. N /\ \A i \in 1 .. N : nets[i] \in Networks
  OBVIOUS
<1>2. \A i \in 1 .. N : Credential(nets[i], order) \in X
  BY <1>1, CredentialType
<1>3. CredentialsOf(nets, order) = p
  BY <1>1 DEF CredentialsOf
<1> HIDE DEF X, N
<1>4. p \in [1 .. N -> X]
  BY <1>2
<1>5. p \in Seq(X) /\ Len(p) = N
  BY <1>1, <1>4
<1>6. \A i \in 1 .. N : p[i] = Credential(nets[i], order)
  OBVIOUS
<1> HIDE DEF p
<1> QED BY <1>1, <1>3, <1>5, <1>6 DEF X, N

LEMMA VersionType ==
  /\ WscAttribute(4170, <<16>>) \in Seq(Byte)
  /\ \A rest \in Seq(Byte), r \in Found :
       Attributes[WscAttribute(4170, <<16>>) \o rest][r] = Attributes[rest][r]
<1> DEFINE id == 4170  value == <<16>>
<1>1. id \in Word /\ id \in Nat /\ id # ATTR_CREDENTIAL
  BY DEF Word, ATTR_CREDENTIAL
<1>2. value \in Seq(Byte) /\ Len(value) \in Word
  <2>1. 16 \in Byte /\ 1 \in Word
    BY DEF Byte, Word
  <2> QED BY <2>1
<1>3. \A r : SimpleAttribute(id, value, r) = r
  BY SimpleAttributeIs
<1> HIDE DEF id, value
<1>4. WscAttribute(id, value) \in Seq(Byte)
  BY <1>1, <1>2, AttributeLength
<1>5. \A rest \in Seq(Byte), r \in Found :
        Attributes[WscAttribute(id, value) \o rest][r] = Attributes[rest][r]
  BY <1>1, <1>2, <1>3, AttributeRead
<1> QED BY <1>4, <1>5 DEF id, value

LEMMA PayloadType ==
  ASSUME NEW nets \in Seq(Networks), NEW order \in Orders
  PROVE  /\ WscPayload(nets, order) = WscAttribute(4170, <<16>>) \o FlattenSeq(CredentialsOf(nets, order))
         /\ WscPayload(nets, order) \in Seq(Byte) /\ FlattenSeq(CredentialsOf(nets, order)) \in Seq(Byte)
         /\ Len(FlattenSeq(CredentialsOf(nets, order))) \leq Len(WscPayload(nets, order))
<1> DEFINE a == WscAttribute(4170, <<16>>)  b == FlattenSeq(CredentialsOf(nets, order))
<1>1. WscPayload(nets, order) = a \o b
  BY DEF WscPayload, CredentialsOf
<1>2. b \in Seq(Byte)
  BY CredentialsOfType, FlattenType
<1>3. a \in Seq(Byte)
  BY VersionType
<1> HIDE DEF a, b
<1>4. a \o b \in Seq(Byte) /\ Len(a \o b) = Len(a) + Len(b) /\ Len(a) \in Nat /\ Len(b) \in Nat
  BY <1>2, <1>3, ConcatType
<1>5. Len(b) \leq Len(a \o b)
  BY <1>4
<1> QED BY <1>1, <1>2, <1>4, <1>5 DEF a, b

\* r is what is found once the Credentials of nets have been read, one after the other.
ReadInTurn(nets, g, r) ==
  /\ g \in [0 .. Len(nets) -> Found] /\ g[0] = NothingFound /\ r = g[Len(nets)]
  /\ \A i \in 1 .. Len(nets) : Applied(nets[i], g[i - 1], g[i])

\* The Credentials of a payload are read in turn.
LEMMA PayloadRead ==
  ASSUME NEW nets \in Seq(Networks), NEW order \in Orders, Len(WscPayload(nets, order)) \in Word
  PROVE  \E g : ReadInTurn(nets, g, Attributes[WscPayload(nets, order)][NothingFound])
<1> DEFINE s == CredentialsOf(nets, order)
           N == Len(nets)
           round == [i \in 1 .. N |-> [x \in Found |-> After(nets[i], order, x)]]
<1>1. /\ s \in Seq(Seq(Byte)) /\ Len(s) = N /\ N \in Nat
      /\ \A i \in 1 .. N : nets[i] \in Networks /\ s[i] = Credential(nets[i], order)
  BY CredentialsOfType
<1>2. /\ WscPayload(nets, order) = WscAttribute(4170, <<16>>) \o FlattenSeq(s)
      /\ FlattenSeq(s) \in Seq(Byte) /\ Len(FlattenSeq(s)) \in Word
  <2>1. /\ WscPayload(nets, order) = WscAttribute(4170, <<16>>) \o FlattenSeq(s)
        /\ FlattenSeq(s) \in Seq(Byte) /\ Len(FlattenSeq(s)) \leq Len(WscPayload(nets, order))
    BY PayloadType
  <2>2. Len(FlattenSeq(s)) \in Nat
    BY <1>1, FlattenType
  <2> QED BY <2>1, <2>2, WordFacts
<1> HIDE DEF N, s
<1>3. \A i \in 1 .. N : Len(s[i]) \in Word
  <2>1. \A i \in 1 .. N : Len(s[i]) \in Nat /\ Len(s[i]) \leq Len(FlattenSeq(s))
    BY <1>1, FlattenType
  <2>2. \A n \in Nat : n \leq Len(FlattenSeq(s)) => n \in Word
    BY <1>2, WordFacts
  <2> QED BY <2>1, <2>2
<1>4. \A i \in 1 .. N : \A x \in Found :
        /\ Applied(nets[i], x, After(nets[i], order, x)) /\ After(nets[i], order, x) \in Found
        /\ \A rest \in Seq(Byte) : Attributes[s[i] \o rest][x] = Attributes[rest][After(nets[i], order, x)]
  <2> TAKE i \in 1 .. N
  <2> TAKE x \in Found
  <2>1. nets[i] \in Networks /\ s[i] = Credential(nets[i], order) /\ Len(Credential(nets[i], order)) \in Word
    BY <1>1, <1>3
  <2>2. /\ Applied(nets[i], x, After(nets[i], order, x))
        /\ \A rest \in Seq(Byte) :
             Attributes[Credential(nets[i], order) \o rest][x] = Attributes[rest][After(nets[i], order, x)]
    BY <2>1, CredentialRead
  <2>3. After(nets[i], order, x) \in Found
    BY <2>2 DEF Applied
  <2> QED BY <2>1, <2>2, <2>3
<1>5. round \in [1 .. N -> [Found -> Found]] /\ NothingFound \in Found
  BY <1>4, NothingFoundType
<1>6. PICK g \in Runs(N, Found, NothingFound, round) : TRUE
  <2> HIDE DEF round
  <2> QED BY <1>1, <1>5, LoopRuns
<1>7. g \in [0 .. N -> Found] /\ g[0] = NothingFound /\ \A i \in 1 .. N : g[i] = round[i][g[i - 1]]
  BY <1>6 DEF Runs
<1>8. \A i \in 1 .. N : g[i - 1] \in Found /\ g[i] = After(nets[i], order, g[i - 1])
  <2> TAKE i \in 1 .. N
  <2>1. i - 1 \in 0 .. N
    BY <1>1
  <2>2. g[i - 1] \in Found
    BY <1>7, <2>1
  <2> QED BY <1>7, <2>1, <2>2
<1> HIDE DEF round
<1>9. Walks(Attributes, s, g)
  BY <1>1, <1>4, <1>8 DEF Walks
<1>10. Attributes[FlattenSeq(s)][NothingFound] = g[N]
  <2> DEFINE none == <<>>
  <2>1. none \in Seq(Byte) /\ Len(none) < 4
    BY EmptySeq
  <2>2. FlattenSeq(s) \o none = FlattenSeq(s)
    BY <1>2, ConcatEmptySeq
  <2> HIDE DEF none
  <2>3. Attributes[FlattenSeq(s) \o none][g[0]] = Attributes[none][g[Len(s)]]
    BY <1>1, <1>9, <2>1, FlattenWalk
  <2>4. g[N] \in Found
    BY <1>1, <1>7
  <2>5. Attributes[none][g[N]] = g[N]
    BY <2>1, <2>4, NoAttributes
  <2> QED BY <1>1, <1>7, <2>2, <2>3, <2>5
<1>11. Attributes[WscPayload(nets, order)][NothingFound] = g[N]
  BY <1>2, <1>5, <1>10, VersionType
<1>12. \A i \in 1 .. N : Applied(nets[i], g[i - 1], g[i])
  BY <1>4, <1>8
<1>13. ReadInTurn(nets, g, Attributes[WscPayload(nets, order)][NothingFound])
  BY <1>7, <1>11, <1>12 DEF ReadInTurn, N
<1> QED BY <1>13

\* What is found in a payload is of its networks: of the only one, or of the last
\* on top of what was before; and if a name fits, then one is found.
NetworksRead(nets, r) ==
  /\ r \in Found
  /\ Len(nets) = 1 => Applied(nets[1], NothingFound, r)
  /\ \E u \in Found : Applied(nets[Len(nets)], u, r)
  /\ \A i \in 1 .. Len(nets) : SsidFits(nets[i]) => r.found

LEMMA ReadInTurnIs ==
  ASSUME NEW nets \in Seq(Networks), nets # <<>>, NEW g, NEW r, ReadInTurn(nets, g, r)
  PROVE  NetworksRead(nets, r)
<1> DEFINE N == Len(nets)
<1>1. N \in Nat \ {0}
  BY EmptySeq
<1>2. /\ g \in [0 .. N -> Found] /\ g[0] = NothingFound /\ r = g[N]
      /\ \A i \in 1 .. N : Applied(nets[i], g[i - 1], g[i])
  BY DEF ReadInTurn
<1> HIDE DEF N
<1>3. r \in Found
  <2>1. N \in 0 .. N
    BY <1>1
  <2> QED BY <1>2, <2>1
<1>4. Applied(nets[N], g[N - 1], r) /\ g[N - 1] \in Found
  <2>1. N \in 1 .. N /\ N - 1 \in 0 .. N
    BY <1>1
  <2> QED BY <1>2, <2>1
<1>5. ASSUME N = 1 PROVE Applied(nets[1], NothingFound, r)
  <2>1. N - 1 = 0
    BY <1>5
  <2> QED BY <1>2, <1>4, <1>5, <2>1
<1> DEFINE S == { n \in Nat : n \leq N => \A i \in 1 .. n : SsidFits(nets[i]) => g[n].found }
<1>6. \A n \in Nat : n \in S
  <2>1. 0 \in S
    OBVIOUS
  <2>2. ASSUME NEW n \in Nat, n \in S PROVE n + 1 \in S
    <3> SUFFICES ASSUME n + 1 \leq N, NEW i \in 1 .. n + 1, SsidFits(nets[i])
                 PROVE  g[n + 1].found
      OBVIOUS
    <3>1. n + 1 \in 1 .. N /\ (n + 1) - 1 = n /\ n \leq N /\ (i \in 1 .. n \/ i = n + 1)
      BY <1>1
    <3>2. Applied(nets[n + 1], g[n], g[n + 1])
      BY <1>2, <3>1
    <3>3. g[n + 1].found = (SsidFits(nets[n + 1]) \/ g[n].found)
      BY <3>2 DEF Applied
    <3>4. i \in 1 .. n => g[n].found
      BY <2>2, <3>1
    <3> QED BY <3>1, <3>3, <3>4
  <2> HIDE DEF S
  <2> QED BY <2>1, <2>2, SetInduction
<1>7. N \in S
  BY <1>1, <1>6
<1>8. \A i \in 1 .. N : SsidFits(nets[i]) => r.found
  BY <1>1, <1>2, <1>7
<1> QED BY <1>3, <1>4, <1>5, <1>8 DEF NetworksRead, N

-----------------------------------------------------------------------------
(* What is written is read: records.                                       *)

FlagsOf(last, short, has_id) ==
  TNF_MEDIA_TYPE + (IF has_id THEN 8 ELSE 0) + (IF short THEN 16 ELSE 0) + (IF last THEN 64 ELSE 0)

\* The bits of the flags, written and read.
LEMMA FlagsAre ==
  ASSUME NEW last \in BOOLEAN, NEW short \in BOOLEAN, NEW has_id \in BOOLEAN
  PROVE  LET b == FlagsOf(last, short, has_id) IN
         /\ b \in Byte /\ b % 8 = TNF_MEDIA_TYPE
         /\ (Flag(b, 8) <=> has_id) /\ (Flag(b, 16) <=> short) /\ (Flag(b, 64) <=> last)
<1> DEFINE b == FlagsOf(last, short, has_id)
<1>1. CASE last /\ short /\ has_id
  BY <1>1 DEF FlagsOf, TNF_MEDIA_TYPE, Byte, Flag, Bit
<1>2. CASE last /\ short /\ ~has_id
  BY <1>2 DEF FlagsOf, TNF_MEDIA_TYPE, Byte, Flag, Bit
<1>3. CASE last /\ ~short /\ has_id
  BY <1>3 DEF FlagsOf, TNF_MEDIA_TYPE, Byte, Flag, Bit
<1>4. CASE last /\ ~short /\ ~has_id
  BY <1>4 DEF FlagsOf, TNF_MEDIA_TYPE, Byte, Flag, Bit
<1>5. CASE ~last /\ short /\ has_id
  BY <1>5 DEF FlagsOf, TNF_MEDIA_TYPE, Byte, Flag, Bit
<1>6. CASE ~last /\ short /\ ~has_id
  BY <1>6 DEF FlagsOf, TNF_MEDIA_TYPE, Byte, Flag, Bit
<1>7. CASE ~last /\ ~short /\ has_id
  BY <1>7 DEF FlagsOf, TNF_MEDIA_TYPE, Byte, Flag, Bit
<1>8. CASE ~last /\ ~short /\ ~has_id
  BY <1>8 DEF FlagsOf, TNF_MEDIA_TYPE, Byte, Flag, Bit
<1> QED BY <1>1, <1>2, <1>3, <1>4, <1>5, <1>6, <1>7, <1>8

\* A record that can be written.
Writable(short, id, type, payload) ==
  /\ id \in Seq(Byte) /\ type \in Seq(Byte) /\ payload \in Seq(Byte)
  /\ Len(id) \in Byte /\ Len(type) \in Byte
  /\ short \in BOOLEAN /\ (short => Len(payload) \in Byte)

\* The bytes of a header as it is written.
LEMMA HeaderBytes ==
  ASSUME NEW last \in BOOLEAN, NEW short, NEW id, NEW type, NEW payload,
         Writable(short, id, type, payload)
  PROVE  LET h == NdefHeader(last, short, id, type, payload)
             width == IF short THEN 1 ELSE 4
         IN /\ h \in Seq(Byte) /\ Len(h) = 2 + width + (IF id # <<>> THEN 1 ELSE 0)
            /\ h[1] = FlagsOf(last, short, id # <<>>) /\ h[2] = Len(type)
            /\ short => h[3] = Len(payload)
            /\ ~short => /\ h[3] = 0 /\ h[4] = 0
                         /\ h[5] \in Byte /\ h[6] \in Byte
                         /\ Len(payload) \in Word => Number(h[5], h[6]) = Len(payload)
            /\ id # <<>> => h[3 + width] = Len(id)
<1> DEFINE flags == FlagsOf(last, short, id # <<>>)
           a == <<flags, Len(type)>>
           u == U16(Len(payload))
           b == IF short THEN <<Len(payload)>> ELSE <<0, 0>> \o u
           c == IF id # <<>> THEN <<Len(id)>> ELSE <<>>
           h == NdefHeader(last, short, id, type, payload)
           width == IF short THEN 1 ELSE 4
<1>1. h = (a \o b) \o c
  BY DEF NdefHeader, FlagsOf
<1>2. /\ Len(id) \in Byte /\ Len(type) \in Byte /\ Len(payload) \in Nat
      /\ short \in BOOLEAN /\ (short => Len(payload) \in Byte)
  BY DEF Writable
<1>3. \A x, y \in Byte : /\ <<x>> \in Seq(Byte) /\ Len(<<x>>) = 1 /\ <<x>>[1] = x
                         /\ <<x, y>> \in Seq(Byte) /\ Len(<<x, y>>) = 2
                         /\ <<x, y>>[1] = x /\ <<x, y>>[2] = y
  OBVIOUS
<1>4. a \in Seq(Byte) /\ Len(a) = 2 /\ a[1] = flags /\ a[2] = Len(type)
  <2>1. flags \in Byte
    BY <1>2, FlagsAre
  <2> HIDE DEF flags
  <2> QED BY <1>2, <1>3, <2>1
<1>5. /\ b \in Seq(Byte) /\ Len(b) = width
      /\ short => b[1] = Len(payload)
      /\ ~short => /\ b[1] = 0 /\ b[2] = 0 /\ b[3] \in Byte /\ b[4] \in Byte
                   /\ Len(payload) \in Word => Number(b[3], b[4]) = Len(payload)
  <2>1. CASE short
    BY <1>2, <1>3, <2>1
  <2>2. CASE ~short
    <3> DEFINE z == <<0, 0>>
    <3>1. z \in Seq(Byte) /\ Len(z) = 2 /\ z[1] = 0 /\ z[2] = 0
      <4>1. 0 \in Byte
        BY DEF Byte
      <4> QED BY <1>3, <4>1
    <3>2. u \in Seq(Byte) /\ Len(u) = 2 /\ (Len(payload) \in Word => Number(u[1], u[2]) = Len(payload))
      BY <1>2, U16Is
    <3>3. b = z \o u
      BY <2>2
    <3> HIDE DEF z, u, b
    <3>4. /\ b \in Seq(Byte) /\ Len(b) = Len(z) + Len(u)
          /\ \A i \in 1 .. Len(z) : b[i] = z[i]
          /\ \A i \in 1 .. Len(u) : b[Len(z) + i] = u[i]
      BY <3>1, <3>2, <3>3, ConcatType
    <3>5. Len(b) = 4 /\ b[1] = 0 /\ b[2] = 0 /\ b[3] = u[1] /\ b[4] = u[2]
      <4>1. Len(b) = 4
        BY <3>1, <3>2, <3>4
      <4>2. b[1] = z[1] /\ b[2] = z[2]
        BY <3>1, <3>4
      <4>3. \A i \in 1 .. 2 : b[2 + i] = u[i]
        BY <3>1, <3>2, <3>4
      <4>4. b[2 + 1] = u[1] /\ b[2 + 2] = u[2]
        BY <4>3
      <4> QED BY <3>1, <4>1, <4>2, <4>4
    <3>6. u[1] \in Byte /\ u[2] \in Byte
      <4>1. 1 \in 1 .. Len(u) /\ 2 \in 1 .. Len(u)
        BY <3>2
      <4> QED BY <3>2, <4>1, ElementOfSeq
    <3> QED BY <2>2, <3>2, <3>4, <3>5, <3>6
  <2> QED BY <2>1, <2>2
<1>6. c \in Seq(Byte) /\ Len(c) = (IF id # <<>> THEN 1 ELSE 0) /\ (id # <<>> => c[1] = Len(id))
  BY <1>2, <1>3, EmptySeq
<1>7. width \in {1, 4} /\ (short => width = 1) /\ (~short => width = 4)
  OBVIOUS
<1> HIDE DEF a, b, c, h, width, flags
<1> DEFINE ab == a \o b
<1>8. /\ ab \in Seq(Byte) /\ Len(ab) = Len(a) + Len(b)
      /\ \A i \in 1 .. Len(a) : ab[i] = a[i]
      /\ \A i \in 1 .. Len(b) : ab[Len(a) + i] = b[i]
  BY <1>4, <1>5, ConcatType
<1>9. h = ab \o c
  BY <1>1
<1> HIDE DEF ab
<1>10. /\ h \in Seq(Byte) /\ Len(h) = Len(ab) + Len(c)
       /\ \A i \in 1 .. Len(ab) : h[i] = ab[i]
       /\ \A i \in 1 .. Len(c) : h[Len(ab) + i] = c[i]
  BY <1>6, <1>8, <1>9, ConcatType
<1>11. Len(ab) = 2 + width /\ \A i \in 1 .. width : ab[2 + i] = b[i]
  BY <1>4, <1>5, <1>8
<1>12. Len(h) = 2 + width + (IF id # <<>> THEN 1 ELSE 0)
  BY <1>6, <1>10, <1>11
<1>13. h[1] = flags /\ h[2] = Len(type)
  <2>1. 1 \in 1 .. Len(ab) /\ 2 \in 1 .. Len(ab) /\ 1 \in 1 .. Len(a) /\ 2 \in 1 .. Len(a)
    BY <1>4, <1>7, <1>11
  <2> QED BY <1>4, <1>8, <1>10, <2>1
<1>14. \A i \in 1 .. width : h[2 + i] = b[i]
  <2> TAKE i \in 1 .. width
  <2>1. 2 + i \in 1 .. Len(ab)
    BY <1>7, <1>11
  <2> QED BY <1>10, <1>11, <2>1
<1>15. short => h[3] = Len(payload)
  <2> SUFFICES ASSUME short PROVE h[3] = Len(payload)
    OBVIOUS
  <2>1. 1 \in 1 .. width /\ 2 + 1 = 3
    BY <1>7
  <2> QED BY <1>5, <1>14, <2>1
<1>16. ~short => /\ h[3] = 0 /\ h[4] = 0
                 /\ h[5] \in Byte /\ h[6] \in Byte
                 /\ Len(payload) \in Word => Number(h[5], h[6]) = Len(payload)
  <2> SUFFICES ASSUME ~short
               PROVE  /\ h[3] = 0 /\ h[4] = 0
                      /\ h[5] \in Byte /\ h[6] \in Byte
                      /\ Len(payload) \in Word => Number(h[5], h[6]) = Len(payload)
    OBVIOUS
  <2>1. /\ 1 \in 1 .. width /\ 2 \in 1 .. width /\ 3 \in 1 .. width /\ 4 \in 1 .. width
        /\ 2 + 1 = 3 /\ 2 + 2 = 4 /\ 2 + 3 = 5 /\ 2 + 4 = 6
    BY <1>7
  <2>2. h[3] = b[1] /\ h[4] = b[2] /\ h[5] = b[3] /\ h[6] = b[4]
    BY <1>14, <2>1
  <2> QED BY <1>5, <2>2
<1>17. id # <<>> => h[3 + width] = Len(id)
  <2> SUFFICES ASSUME id # <<>> PROVE h[3 + width] = Len(id)
    OBVIOUS
  <2>1. 1 \in 1 .. Len(c) /\ Len(ab) + 1 = 3 + width
    BY <1>6, <1>7, <1>11
  <2> QED BY <1>6, <1>10, <2>1
<1> QED BY <1>10, <1>12, <1>13, <1>15, <1>16, <1>17 DEF h, width, flags

\* A record is a stretch, longer than its payload.
LEMMA RecordLength ==
  ASSUME NEW last \in BOOLEAN, NEW short, NEW id, NEW type, NEW payload,
         Writable(short, id, type, payload)
  PROVE  LET rec == NdefRecord(last, short, id, type, payload) IN
         rec \in Seq(Byte) /\ Len(payload) \in Nat /\ Len(rec) \in Nat /\ Len(payload) \leq Len(rec)
<1> DEFINE h == NdefHeader(last, short, id, type, payload)
           hti == (h \o type) \o id
           rec == NdefRecord(last, short, id, type, payload)
<1>1. h \in Seq(Byte)
  BY HeaderBytes
<1>2. id \in Seq(Byte) /\ type \in Seq(Byte) /\ payload \in Seq(Byte)
  BY DEF Writable
<1>3. rec = hti \o payload
  BY DEF NdefRecord
<1> HIDE DEF h, rec
<1>4. h \o type \in Seq(Byte)
  BY <1>1, <1>2, ConcatType
<1>5. hti \in Seq(Byte)
  BY <1>2, <1>4, ConcatType
<1> HIDE DEF hti
<1>6. rec \in Seq(Byte) /\ Len(rec) = Len(hti) + Len(payload)
  BY <1>2, <1>3, <1>5, ConcatType
<1>7. Len(hti) \in Nat /\ Len(payload) \in Nat
  BY <1>2, <1>5
<1> QED BY <1>6, <1>7 DEF rec

\* d begins with a record that the reader finds found in, and goes on with rest.
ReadAs(d, last, found, rest) ==
  /\ d \in Seq(Byte) /\ HeaderIsWhole(d) /\ Total(Header(d)) \leq Len(d)
  /\ Header(d).last = last /\ Record(d) = found
  /\ From(d, Total(Header(d)) + 1) = rest

\* A record as it is written is read with the parts it was written with.
LEMMA RecordRead ==
  ASSUME NEW last \in BOOLEAN, NEW short, NEW id, NEW type, NEW payload,
         Writable(short, id, type, payload), Len(payload) \in Word,
         NEW rest \in Seq(Byte)
  PROVE  ReadAs(NdefRecord(last, short, id, type, payload) \o rest, last,
                IF type = WifiType THEN Attributes[payload][NothingFound] ELSE NothingFound, rest)
<1> DEFINE h == NdefHeader(last, short, id, type, payload)
           has_id == id # <<>>
           rec == NdefRecord(last, short, id, type, payload)
           width == IF short THEN 1 ELSE 4
           d == rec \o rest
           hd == Header(d)
<1>1. /\ h \in Seq(Byte) /\ Len(h) = 2 + width + (IF has_id THEN 1 ELSE 0)
      /\ h[1] = FlagsOf(last, short, has_id) /\ h[2] = Len(type)
      /\ short => h[3] = Len(payload)
      /\ ~short => /\ h[3] = 0 /\ h[4] = 0
                   /\ h[5] \in Byte /\ h[6] \in Byte /\ Number(h[5], h[6]) = Len(payload)
      /\ has_id => h[3 + width] = Len(id)
  BY HeaderBytes
<1>2. /\ id \in Seq(Byte) /\ type \in Seq(Byte) /\ payload \in Seq(Byte)
      /\ Len(id) \in Nat /\ Len(type) \in Nat /\ Len(payload) \in Nat
      /\ short \in BOOLEAN /\ has_id \in BOOLEAN /\ (~has_id => Len(id) = 0)
  BY EmptySeq DEF Writable
<1>3. rec = ((h \o type) \o id) \o payload
  BY DEF NdefRecord
<1>4. width \in {1, 4} /\ (short => width = 1) /\ (~short => width = 4)
  OBVIOUS
<1> HIDE DEF h, width, rec, has_id
<1> DEFINE ht == h \o type  hti == ht \o id
<1>5. /\ ht \in Seq(Byte) /\ Len(ht) = Len(h) + Len(type)
      /\ hti \in Seq(Byte) /\ Len(hti) = Len(h) + Len(type) + Len(id)
      /\ rec \in Seq(Byte) /\ Len(rec) = Len(h) + Len(type) + Len(id) + Len(payload)
  <2>1. ht \in Seq(Byte) /\ Len(ht) = Len(h) + Len(type)
    BY <1>1, <1>2, ConcatType
  <2>2. rec = hti \o payload
    BY <1>3
  <2> HIDE DEF ht
  <2>3. hti \in Seq(Byte) /\ Len(hti) = Len(ht) + Len(id)
    BY <1>2, <2>1, ConcatType
  <2> HIDE DEF hti
  <2>4. rec \in Seq(Byte) /\ Len(rec) = Len(hti) + Len(payload)
    BY <1>2, <2>2, <2>3, ConcatType
  <2> QED BY <2>1, <2>3, <2>4
<1>6. Len(h) \in Nat /\ Len(h) \geq 3
  <2>1. Len(h) = 2 + width \/ Len(h) = 2 + width + 1
    <3>1. CASE has_id
      BY <1>1, <3>1
    <3>2. CASE ~has_id
      BY <1>1, <1>4, <3>2
    <3> QED BY <3>1, <3>2
  <2> QED BY <1>4, <2>1
<1>7. /\ d \in Seq(Byte) /\ Len(d) = Len(rec) + Len(rest) /\ Len(rest) \in Nat
      /\ From(d, Len(rec) + 1) = rest
  <2>1. d \in Seq(Byte) /\ Len(d) = Len(rec) + Len(rest) /\ Len(rest) \in Nat
    <3>1. rec \in Seq(Byte)
      BY <1>5
    <3>2. d \in Seq(Byte) /\ Len(d) = Len(rec) + Len(rest)
      BY <3>1, ConcatType
    <3> QED BY <3>2
  <2>2. From(rec \o rest, Len(rec) + 1) = rest
    BY <1>5, Behind
  <2> QED BY <2>1, <2>2

\* The parts, each behind those before it.
<1>8. /\ d = h \o (type \o (id \o (payload \o rest)))
      /\ d = hti \o (payload \o rest)
  <2> DEFINE w == payload \o rest  iw == id \o w
  <2>1. d = (hti \o payload) \o rest /\ hti = ht \o id /\ ht = h \o type
    BY <1>3
  <2> HIDE DEF hti, ht, d
  <2>2. (hti \o payload) \o rest = hti \o w
    <3>1. hti \in Seq(Byte) /\ payload \in Seq(Byte)
      BY <1>2, <1>5
    <3> QED BY <3>1, Regroup
  <2>3. w \in Seq(Byte)
    BY <1>2, ConcatType
  <2> HIDE DEF w
  <2>4. (ht \o id) \o w = ht \o iw
    <3>1. ht \in Seq(Byte) /\ id \in Seq(Byte)
      BY <1>2, <1>5
    <3> QED BY <2>3, <3>1, Regroup
  <2>5. iw \in Seq(Byte)
    BY <1>2, <2>3, ConcatType
  <2> HIDE DEF iw
  <2>6. (h \o type) \o iw = h \o (type \o iw)
    <3>1. h \in Seq(Byte) /\ type \in Seq(Byte)
      BY <1>1, <1>2
    <3> QED BY <2>5, <3>1, Regroup
  <2> QED BY <2>1, <2>2, <2>4, <2>6 DEF w, iw
<1> HIDE DEF d
<1>9. \A i \in 1 .. Len(h) : d[i] = h[i]
  <2>1. payload \o rest \in Seq(Byte)
    BY <1>2, ConcatType
  <2>2. id \o (payload \o rest) \in Seq(Byte)
    BY <1>2, <2>1, ConcatType
  <2>3. type \o (id \o (payload \o rest)) \in Seq(Byte)
    BY <1>2, <2>2, ConcatType
  <2> QED BY <1>1, <1>8, <2>3, ConcatType
<1>10. SubSeq(d, Len(h) + 1, Len(h) + Len(type)) = type
  <2>1. payload \o rest \in Seq(Byte)
    BY <1>2, ConcatType
  <2>2. id \o (payload \o rest) \in Seq(Byte)
    BY <1>2, <2>1, ConcatType
  <2> DEFINE iw == id \o (payload \o rest)
  <2>3. d = h \o (type \o iw) /\ iw \in Seq(Byte)
    BY <1>8, <2>2
  <2> HIDE DEF iw
  <2>4. SubSeq(h \o (type \o iw), Len(h) + 1, Len(h) + Len(type)) = type
    BY <1>1, <1>2, <2>3, Window
  <2> QED BY <2>3, <2>4
<1>11. SubSeq(d, Len(h) + Len(type) + Len(id) + 1, Len(h) + Len(type) + Len(id) + Len(payload)) = payload
  <2>1. SubSeq(hti \o (payload \o rest), Len(hti) + 1, Len(hti) + Len(payload)) = payload
    BY <1>2, <1>5, Window
  <2> HIDE DEF hti
  <2> QED BY <1>5, <1>8, <2>1
<1> HIDE DEF hti, ht

\* Its header.
<1>12. d[1] = FlagsOf(last, short, has_id) /\ d[2] = Len(type) /\ d[3] = h[3]
  <2>1. 1 \in 1 .. Len(h) /\ 2 \in 1 .. Len(h) /\ 3 \in 1 .. Len(h)
    BY <1>6
  <2> QED BY <1>1, <1>9, <2>1
<1>13. /\ d[1] % 8 = TNF_MEDIA_TYPE
       /\ (Flag(d[1], 8) <=> has_id) /\ (Flag(d[1], 16) <=> short) /\ (Flag(d[1], 64) <=> last)
  BY <1>2, <1>12, FlagsAre
<1>14. (IF Flag(d[1], 16) THEN 1 ELSE 4) = width
  BY <1>13 DEF width
<1>15. /\ hd.tnf = TNF_MEDIA_TYPE /\ hd.last = last /\ hd.type = Len(type)
       /\ hd.size = Len(h) /\ hd.id = Len(id) /\ hd.payload = Len(payload)
  <2>1. /\ hd.tnf = d[1] % 8 /\ hd.type = d[2] /\ hd.last = Flag(d[1], 64)
        /\ hd.size = 2 + width + (IF Flag(d[1], 8) THEN 1 ELSE 0)
        /\ hd.id = IF Flag(d[1], 8) THEN d[3 + width] ELSE 0
        /\ hd.payload = IF Flag(d[1], 16) THEN d[3] ELSE Number4(d, 3)
    BY <1>14, HeaderFields
  <2> HIDE DEF hd
  <2>2. hd.tnf = TNF_MEDIA_TYPE /\ hd.last = last /\ hd.type = Len(type)
    <3>1. Flag(d[1], 64) \in BOOLEAN
      BY DEF Flag
    <3> QED BY <1>12, <1>13, <2>1, <3>1
  <2>3. hd.size = Len(h)
    BY <1>1, <1>13, <2>1
  <2>4. hd.id = Len(id)
    <3>1. CASE has_id
      <4>1. 3 + width \in 1 .. Len(h)
        BY <1>1, <1>4, <3>1
      <4> QED BY <1>1, <1>9, <1>13, <2>1, <3>1, <4>1
    <3>2. CASE ~has_id
      BY <1>2, <1>13, <2>1, <3>2
    <3> QED BY <3>1, <3>2
  <2>5. hd.payload = Len(payload)
    <3>1. CASE short
      BY <1>1, <1>12, <1>13, <2>1, <3>1
    <3>2. CASE ~short
      <4>1. 4 \in 1 .. Len(h) /\ 5 \in 1 .. Len(h) /\ 6 \in 1 .. Len(h)
        <5>1. CASE has_id
          <6>1. Len(h) = 7
            BY <1>1, <1>4, <3>2, <5>1
          <6> QED BY <6>1
        <5>2. CASE ~has_id
          <6>1. Len(h) = 6
            BY <1>1, <1>4, <3>2, <5>2
          <6> QED BY <6>1
        <5> QED BY <5>1, <5>2
      <4>2. /\ d[3] = 0 /\ d[4] = 0 /\ d[5] = h[5] /\ d[6] = h[6]
            /\ h[5] \in Byte /\ h[6] \in Byte /\ Number(h[5], h[6]) = Len(payload)
        BY <1>1, <1>9, <1>12, <3>2, <4>1
      <4>3. Number4(d, 3) = ((256 * d[3] + d[4]) * 256 + d[5]) * 256 + d[6]
        <5>1. 0 \in Byte
          BY DEF Byte
        <5>2. d[3] \in Byte /\ d[4] \in Byte /\ d[5] \in Byte /\ d[6] \in Byte
          BY <4>2, <5>1
        <5> QED BY <5>2, Number4Is
      <4>4. Number4(d, 3) = 256 * h[5] + h[6]
        BY <4>2, <4>3, ByteFacts
      <4> QED BY <1>13, <2>1, <3>2, <4>2, <4>4 DEF Number
    <3> QED BY <1>2, <3>1, <3>2
  <2> QED BY <2>2, <2>3, <2>4, <2>5 DEF hd
<1> HIDE DEF hd
<1>16. Total(hd) = Len(rec)
  BY <1>5, <1>15 DEF Total
<1>17. Total(hd) \leq Len(d) /\ Len(payload) \leq Len(rec)
  BY <1>2, <1>5, <1>6, <1>7, <1>16
<1>18. HeaderIsWhole(d)
  <2>1. Len(d) \geq Len(h) /\ Len(d) \geq 3
    BY <1>2, <1>5, <1>6, <1>7
  <2>2. 2 + width + (IF Flag(d[1], 8) THEN 1 ELSE 0) = Len(h)
    BY <1>1, <1>13
  <2> QED BY <1>14, <2>1, <2>2 DEF HeaderIsWhole
<1>19. Record(d) = IF type = WifiType THEN Attributes[payload][NothingFound] ELSE NothingFound
  <2>1. Record(d) = IF hd.tnf # TNF_MEDIA_TYPE \/ SubSeq(d, hd.size + 1, hd.size + hd.type) # WifiType
                    THEN NothingFound
                    ELSE Attributes[SubSeq(d, hd.size + hd.type + hd.id + 1, Total(hd))][NothingFound]
    BY DEF Record, hd
  <2> QED BY <1>5, <1>10, <1>11, <1>15, <1>16, <2>1
<1> QED BY <1>7, <1>15, <1>16, <1>17, <1>18, <1>19 DEF ReadAs, hd, d, rec

-----------------------------------------------------------------------------
(* What is written is read: the message of a tag.                          *)

LEMMA TagFacts ==
  ASSUME NEW t \in Tags
  PROVE  LET l == t.layout IN
         /\ t.nets \in Seq(Networks) /\ t.nets # <<>>
         /\ l.order \in Orders /\ l.id \in Seq(Byte) /\ Len(l.id) \in Byte
         /\ l.first \in Seq(Byte) /\ Len(l.first) \in Byte
         /\ l.long \in BOOLEAN /\ l.short \in BOOLEAN
         /\ Len(WscMessage(t)) \in Word
         /\ l.short => Len(WscPayload(t.nets, l.order)) \in Byte
<1>1. /\ t.nets \in Seq(Networks) /\ t.nets # <<>> /\ Layout(t.layout)
      /\ Len(WscMessage(t)) \in Word
      /\ t.layout.short => Len(WscPayload(t.nets, t.layout.order)) \in Byte
  BY TagAssumption
<1> QED BY <1>1 DEF Layout, Orders

LEMMA LeadFacts ==
  ASSUME NEW t \in Tags
  PROVE  LET lead == t.layout.lead IN
         /\ lead \in Seq([type : Byte \ {TLV_TERMINATOR}, value : Seq(Byte)])
         /\ \A i \in DOMAIN lead : /\ Len(lead[i].value) \in Word
                                   /\ lead[i].type = TLV_NDEF_MSG => lead[i].value = <<>>
<1>1. Layout(t.layout)
  BY TagAssumption
<1> QED BY <1>1 DEF Layout

LEMMA WifiTypeIs == WifiType \in Seq(Byte) /\ Len(WifiType) \in Byte
<1>1. {97, 112, 108, 105, 99, 116, 111, 110, 47, 118, 100, 46, 119, 102, 115} \subseteq Byte
  BY DEF Byte
<1>2. Len(WifiType) = 23
  BY DEF WifiType
<1>3. 23 \in Byte
  BY DEF Byte
<1> QED BY <1>1, <1>2, <1>3 DEF WifiType

\* What the payload of a tag gives, and what is left of it when no name was found.
PayloadOf(t) == WscPayload(t.nets, t.layout.order)
InPayload(t) == Attributes[PayloadOf(t)][NothingFound]
InMessage(t) == IF InPayload(t).found THEN InPayload(t) ELSE NothingFound

FirstRecord(t) == NdefRecord(FALSE, TRUE, <<>>, t.layout.first, <<7>>)
WifiRecord(t) == NdefRecord(TRUE, t.layout.short, t.layout.id, WifiType, PayloadOf(t))

\* The message is that of the networks alone, or behind another record.
LEMMA MessageParts ==
  ASSUME NEW t \in Tags
  PROVE  /\ Writable(TRUE, <<>>, t.layout.first, <<7>>) /\ Len(<<7>>) \in Word
         /\ Writable(t.layout.short, t.layout.id, WifiType, PayloadOf(t)) /\ Len(PayloadOf(t)) \in Word
         /\ FirstRecord(t) \in Seq(Byte) /\ WifiRecord(t) \in Seq(Byte)
         /\ WscMessage(t) \in Seq(Byte) /\ Len(WscMessage(t)) \in Word
         /\ WscMessage(t) = IF t.layout.first = <<>> THEN WifiRecord(t)
                            ELSE FirstRecord(t) \o WifiRecord(t)
<1> DEFINE l == t.layout  payload == PayloadOf(t)  first == FirstRecord(t)  wifi == WifiRecord(t)
<1>1. /\ t.nets \in Seq(Networks) /\ t.nets # <<>>
      /\ l.order \in Orders /\ l.id \in Seq(Byte) /\ Len(l.id) \in Byte
      /\ l.first \in Seq(Byte) /\ Len(l.first) \in Byte
      /\ l.long \in BOOLEAN /\ l.short \in BOOLEAN
      /\ Len(WscMessage(t)) \in Word
      /\ l.short => Len(payload) \in Byte
  BY TagFacts DEF PayloadOf
<1>2. payload \in Seq(Byte)
  BY <1>1, PayloadType DEF PayloadOf
<1>3. Writable(l.short, l.id, WifiType, payload)
  BY <1>1, <1>2, WifiTypeIs DEF Writable
<1>4. Writable(TRUE, <<>>, l.first, <<7>>) /\ Len(<<7>>) \in Word
  <2>1. /\ 7 \in Byte /\ 1 \in Byte /\ 0 \in Byte /\ 1 \in Word
    BY DEF Byte, Word
  <2>2. /\ <<7>> \in Seq(Byte) /\ Len(<<7>>) = 1 /\ <<>> \in Seq(Byte) /\ Len(<<>>) = 0
    BY <2>1
  <2> QED BY <1>1, <2>1, <2>2 DEF Writable
<1>5. /\ wifi \in Seq(Byte) /\ Len(payload) \in Nat /\ Len(wifi) \in Nat /\ Len(payload) \leq Len(wifi)
  BY <1>3, RecordLength DEF WifiRecord
<1>6. first \in Seq(Byte)
  BY <1>4, RecordLength DEF FirstRecord
<1>7. WscMessage(t) = (IF l.first = <<>> THEN <<>> ELSE first) \o wifi
  BY DEF WscMessage, FirstRecord, WifiRecord, PayloadOf
<1> HIDE DEF payload, first, wifi
<1>8. WscMessage(t) = IF l.first = <<>> THEN wifi ELSE first \o wifi
  BY <1>5, <1>7, ConcatEmptySeq
<1>9. /\ WscMessage(t) \in Seq(Byte) /\ Len(wifi) \leq Len(WscMessage(t))
  <2>1. first \o wifi \in Seq(Byte) /\ Len(first \o wifi) = Len(first) + Len(wifi) /\ Len(first) \in Nat
    BY <1>5, <1>6, ConcatType
  <2>2. Len(wifi) \leq Len(first \o wifi)
    BY <1>5, <2>1
  <2> QED BY <1>5, <1>8, <2>1, <2>2
<1>10. Len(payload) \in Word
  <2>1. Len(wifi) \in Word
    BY <1>1, <1>5, <1>9, WordFacts
  <2> QED BY <1>5, <2>1, WordFacts
<1> QED BY <1>1, <1>3, <1>4, <1>5, <1>6, <1>8, <1>9, <1>10 DEF payload, first, wifi

\* parse_ndef_message at a record that is written.
LEMMA MessageAt ==
  ASSUME NEW d, NEW last \in BOOLEAN, NEW found, NEW rest, ReadAs(d, last, found, rest)
  PROVE  Message[d] = IF found.found THEN found ELSE IF last THEN NothingFound ELSE Message[rest]
<1>1. /\ d \in Seq(Byte) /\ HeaderIsWhole(d) /\ Total(Header(d)) \leq Len(d)
      /\ Header(d).last = last /\ Record(d) = found /\ From(d, Total(Header(d)) + 1) = rest
  BY DEF ReadAs
<1>2. Message[d] = MessageStep(Message, d)
  BY <1>1, MessageIs
<1>3. ~(~HeaderIsWhole(d) \/ Total(Header(d)) > Len(d))
  <2>1. Total(Header(d)) \in Nat /\ Len(d) \in Nat
    BY <1>1, HeaderType
  <2> QED BY <1>1, <2>1
<1> QED BY <1>1, <1>2, <1>3 DEF MessageStep

\* The first record gives nothing; what the networks give is found.
LEMMA MessageRead ==
  ASSUME NEW t \in Tags
  PROVE  Message[WscMessage(t)] = InMessage(t) /\ InPayload(t) \in Found
<1> DEFINE l == t.layout  payload == PayloadOf(t)  first == FirstRecord(t)  wifi == WifiRecord(t)
<1>1. /\ Writable(TRUE, <<>>, l.first, <<7>>) /\ Len(<<7>>) \in Word
      /\ Writable(l.short, l.id, WifiType, payload) /\ Len(payload) \in Word
      /\ first \in Seq(Byte) /\ wifi \in Seq(Byte)
      /\ WscMessage(t) = IF l.first = <<>> THEN wifi ELSE first \o wifi
  BY MessageParts
<1>2. InPayload(t) \in Found
  <2>1. payload \in Seq(Byte)
    BY <1>1 DEF Writable
  <2> HIDE DEF payload
  <2>2. Attributes[payload][NothingFound] \in Found
    BY <2>1, AttributesIs, NothingFoundType
  <2> QED BY <2>2 DEF InPayload, payload
<1>3. Message[wifi] = InMessage(t)
  <2> DEFINE none == <<>>
  <2>1. none \in Seq(Byte) /\ wifi \o none = wifi
    BY <1>1, EmptySeq, ConcatEmptySeq
  <2> HIDE DEF none
  <2>2. ReadAs(wifi \o none, TRUE, InPayload(t), none)
    <3> HIDE DEF payload
    <3>1. ReadAs(NdefRecord(TRUE, l.short, l.id, WifiType, payload) \o none, TRUE,
                 IF WifiType = WifiType THEN Attributes[payload][NothingFound] ELSE NothingFound, none)
      BY <1>1, <2>1, RecordRead
    <3> QED BY <3>1 DEF WifiRecord, InPayload, payload
  <2>3. Message[wifi \o none] = IF InPayload(t).found THEN InPayload(t)
                                ELSE IF TRUE THEN NothingFound ELSE Message[none]
    <3> HIDE DEF wifi
    <3> QED BY <2>2, MessageAt
  <2> QED BY <2>1, <2>3 DEF InMessage
<1>4. Message[first \o wifi] = Message[wifi]
  <2> DEFINE seven == <<7>>
             none == <<>>
             found == IF l.first = WifiType THEN Attributes[seven][NothingFound] ELSE NothingFound
  <2>1. found = NothingFound
    <3>1. seven \in Seq(Byte) /\ Len(seven) < 4
      <4>1. 7 \in Byte
        BY DEF Byte
      <4> QED BY <4>1
    <3> HIDE DEF seven
    <3>2. Attributes[seven][NothingFound] = NothingFound
      BY <3>1, NoAttributes, NothingFoundType
    <3> QED BY <3>2
  <2>2. Writable(TRUE, none, l.first, seven) /\ Len(seven) \in Word
        /\ first = NdefRecord(FALSE, TRUE, none, l.first, seven)
    BY <1>1 DEF FirstRecord
  <2> HIDE DEF seven, none, wifi
  <2>3. ReadAs(NdefRecord(FALSE, TRUE, none, l.first, seven) \o wifi, FALSE, found, wifi)
    BY <1>1, <2>2, RecordRead
  <2> HIDE DEF first, found
  <2>4. ReadAs(first \o wifi, FALSE, NothingFound, wifi)
    BY <2>1, <2>2, <2>3
  <2>5. Message[first \o wifi] = IF NothingFound.found THEN NothingFound
                                ELSE IF FALSE THEN NothingFound ELSE Message[wifi]
    BY <2>4, MessageAt
  <2> QED BY <2>5, NothingFoundType
<1> QED BY <1>1, <1>2, <1>3, <1>4

-----------------------------------------------------------------------------
(* What is written is read: the TLVs of the area.                          *)

TlvHead(type, long, n) ==
  <<type>> \o (IF long \/ n > 254 THEN <<255>> \o U16(n) ELSE <<n>>)

\* Type and length of a TLV, written and read.
LEMMA TlvHeadIs ==
  ASSUME NEW type \in Byte, NEW long \in BOOLEAN, NEW n \in Word
  PROVE  LET h == TlvHead(type, long, n) IN
         /\ h \in Seq(Byte) /\ h[1] = type /\ h[2] \in Byte
         /\ \/ Len(h) = 4 /\ h[2] = 255 /\ Number(h[3], h[4]) = n
            \/ Len(h) = 2 /\ h[2] = n /\ n # 255
<1> DEFINE h == TlvHead(type, long, n)  a == <<type>>
<1>0. n \in Nat
  BY WordFacts
<1>1. \A x \in Byte : <<x>> \in Seq(Byte) /\ Len(<<x>>) = 1 /\ <<x>>[1] = x
  OBVIOUS
<1>2. a \in Seq(Byte) /\ Len(a) = 1 /\ a[1] = type
  BY <1>1
<1> HIDE DEF a
<1>3. ASSUME long \/ n > 254
      PROVE  h \in Seq(Byte) /\ h[1] = type /\ h[2] = 255 /\ Len(h) = 4 /\ Number(h[3], h[4]) = n /\ 255 \in Byte
  <2> DEFINE b == <<255>>  u == U16(n)  bu == b \o u
  <2>1. u \in Seq(Byte) /\ Len(u) = 2 /\ Number(u[1], u[2]) = n
    BY <1>0, U16Is
  <2>2. b \in Seq(Byte) /\ Len(b) = 1 /\ b[1] = 255 /\ 255 \in Byte
    <3>1. 255 \in Byte
      BY DEF Byte
    <3> QED BY <1>1, <3>1
  <2>3. h = a \o bu
    BY <1>3 DEF TlvHead, a
  <2> HIDE DEF u, b, h
  <2>4. /\ bu \in Seq(Byte) /\ Len(bu) = Len(b) + Len(u)
        /\ \A i \in 1 .. Len(b) : bu[i] = b[i]
        /\ \A i \in 1 .. Len(u) : bu[Len(b) + i] = u[i]
    <3>1. b \in Seq(Byte) /\ u \in Seq(Byte)
      BY <2>1, <2>2
    <3> QED BY <3>1, ConcatType
  <2> HIDE DEF bu
  <2>5. Len(bu) = 3 /\ bu[1] = 255 /\ bu[2] = u[1] /\ bu[3] = u[2]
    <3>1. Len(bu) = 3 /\ bu[1] = b[1]
      BY <2>1, <2>2, <2>4
    <3>2. \A i \in 1 .. 2 : bu[1 + i] = u[i]
      BY <2>1, <2>2, <2>4
    <3>3. bu[1 + 1] = u[1] /\ bu[1 + 2] = u[2]
      BY <3>2
    <3> QED BY <2>2, <3>1, <3>3
  <2>6. /\ h \in Seq(Byte) /\ Len(h) = Len(a) + Len(bu)
        /\ \A i \in 1 .. Len(a) : h[i] = a[i]
        /\ \A i \in 1 .. Len(bu) : h[Len(a) + i] = bu[i]
    BY <1>2, <2>3, <2>4, ConcatType
  <2>7. Len(h) = 4 /\ h[1] = type /\ h[2] = 255 /\ h[3] = u[1] /\ h[4] = u[2]
    <3>1. Len(h) = 4 /\ h[1] = a[1]
      BY <1>2, <2>5, <2>6
    <3>2. \A i \in 1 .. 3 : h[1 + i] = bu[i]
      BY <1>2, <2>5, <2>6
    <3>3. h[1 + 1] = bu[1] /\ h[1 + 2] = bu[2] /\ h[1 + 3] = bu[3]
      BY <3>2
    <3> QED BY <1>2, <2>5, <3>1, <3>3
  <2> QED BY <2>1, <2>2, <2>6, <2>7
<1>4. ASSUME ~(long \/ n > 254)
      PROVE  h \in Seq(Byte) /\ h[1] = type /\ h[2] = n /\ Len(h) = 2 /\ n \in Byte /\ n # 255
  <2> DEFINE b == <<n>>
  <2>1. n \in Byte /\ n # 255
    BY <1>0, <1>4 DEF Byte
  <2>2. b \in Seq(Byte) /\ Len(b) = 1 /\ b[1] = n
    BY <1>1, <2>1
  <2>3. h = a \o b
    BY <1>4 DEF TlvHead, a
  <2> HIDE DEF b, h
  <2>4. /\ h \in Seq(Byte) /\ Len(h) = Len(a) + Len(b)
        /\ \A i \in 1 .. Len(a) : h[i] = a[i]
        /\ \A i \in 1 .. Len(b) : h[Len(a) + i] = b[i]
    BY <1>2, <2>2, <2>3, ConcatType
  <2>5. Len(h) = 2 /\ h[1] = type /\ h[2] = n
    <3>1. Len(h) = 2 /\ h[1] = a[1]
      BY <1>2, <2>2, <2>4
    <3>2. \A i \in 1 .. 1 : h[1 + i] = b[i]
      BY <1>2, <2>2, <2>4
    <3>3. h[1 + 1] = b[1]
      BY <3>2
    <3> QED BY <1>2, <2>2, <3>1, <3>3
  <2> QED BY <2>1, <2>4, <2>5
<1> HIDE DEF h
<1>5. /\ h \in Seq(Byte) /\ h[1] = type /\ h[2] \in Byte
      /\ \/ Len(h) = 4 /\ h[2] = 255 /\ Number(h[3], h[4]) = n
         \/ Len(h) = 2 /\ h[2] = n /\ n # 255
  BY <1>3, <1>4
<1> QED BY <1>5 DEF h

\* A TLV as it is written is taken whole: its message counts, or the loop goes on.
LEMMA TlvRead ==
  ASSUME NEW type \in Byte, type # TLV_NULL, type # TLV_TERMINATOR, NEW long \in BOOLEAN,
         NEW value \in Seq(Byte), Len(value) \in Word, NEW rest \in Seq(Byte)
  PROVE  /\ Tlv(type, long, value) \in Seq(Byte)
         /\ Area[Tlv(type, long, value) \o rest] =
              IF type = TLV_NDEF_MSG /\ Message[value].found THEN Message[value] ELSE Area[rest]
<1> DEFINE n == Len(value)
           h == TlvHead(type, long, n)
           w == h \o value
           a == w \o rest
<1>1. n \in Word /\ n \in Nat
  BY WordFacts
<1>2. w = Tlv(type, long, value)
  BY DEF Tlv, TlvHead
<1> HIDE DEF n
<1>3. /\ h \in Seq(Byte) /\ h[1] = type /\ h[2] \in Byte
      /\ \/ Len(h) = 4 /\ h[2] = 255 /\ Number(h[3], h[4]) = n
         \/ Len(h) = 2 /\ h[2] = n /\ n # 255
  BY <1>1, TlvHeadIs
<1> HIDE DEF h
<1>4. w \in Seq(Byte) /\ Len(w) = Len(h) + n
  BY <1>3, ConcatType DEF n
<1>5. a = h \o (value \o rest) /\ value \o rest \in Seq(Byte)
  <2>1. h \in Seq(Byte)
    BY <1>3
  <2>2. (h \o value) \o rest = h \o (value \o rest)
    BY <2>1, Regroup
  <2>3. value \o rest \in Seq(Byte)
    BY ConcatType
  <2> QED BY <2>2, <2>3
<1> HIDE DEF w
<1>6. a \in Seq(Byte) /\ Len(a) = Len(h) + n + Len(rest) /\ Len(rest) \in Nat
  <2>1. a \in Seq(Byte) /\ Len(a) = Len(w) + Len(rest)
    BY <1>4, ConcatType
  <2> QED BY <1>4, <2>1
<1>7. From(a, Len(w) + 1) = rest
  BY <1>4, Behind
<1> HIDE DEF a
<1>8. SubSeq(a, Len(h) + 1, Len(h) + n) = value
  <2>1. SubSeq(h \o (value \o rest), Len(h) + 1, Len(h) + Len(value)) = value
    BY <1>3, Window
  <2> QED BY <1>5, <2>1 DEF n
<1>9. \A i \in 1 .. Len(h) : a[i] = h[i]
  <2> DEFINE vr == value \o rest
  <2>1. vr \in Seq(Byte) /\ a = h \o vr
    BY <1>5
  <2> HIDE DEF vr
  <2> QED BY <1>3, <2>1, ConcatType
<1>10. a[1] = type /\ a[2] = h[2] /\ (Len(h) = 4 => a[3] = h[3] /\ a[4] = h[4])
  <2>1. 1 \in 1 .. Len(h) /\ 2 \in 1 .. Len(h) /\ (Len(h) = 4 => 3 \in 1 .. Len(h) /\ 4 \in 1 .. Len(h))
    BY <1>3
  <2> QED BY <1>3, <1>9, <2>1
<1>11. /\ ValueAt(a) = Len(h) + 1 /\ TlvLength(a) = n /\ LengthIsWhole(a)
  <2>1. CASE Len(h) = 4 /\ h[2] = 255 /\ Number(h[3], h[4]) = n
    <3>1. Len(a) \geq 4
      BY <1>1, <1>6, <2>1
    <3>2. LongLength(a)
      BY <1>10, <2>1, <3>1 DEF LongLength
    <3> QED BY <1>10, <2>1, <3>1, <3>2 DEF ValueAt, TlvLength, LengthIsWhole
  <2>2. CASE Len(h) = 2 /\ h[2] = n /\ n # 255
    <3>1. Len(a) \geq 2
      BY <1>1, <1>6, <2>2
    <3>2. ~LongLength(a)
      BY <1>10, <2>2 DEF LongLength
    <3> QED BY <1>10, <2>2, <3>1, <3>2 DEF ValueAt, TlvLength, LengthIsWhole
  <2> QED BY <1>3, <2>1, <2>2
<1>12. /\ Len(h) \in Nat /\ ValueAt(a) - 1 + TlvLength(a) = Len(h) + n
       /\ ValueAt(a) + TlvLength(a) = Len(w) + 1
  BY <1>1, <1>3, <1>4, <1>11
<1>13. TlvIsWhole(a) /\ a # <<>>
  <2>1. ValueAt(a) - 1 + TlvLength(a) \leq Len(a)
    BY <1>1, <1>6, <1>12
  <2>2. Len(a) # 0
    BY <1>1, <1>3, <1>6
  <2> QED BY <1>6, <1>11, <2>1, <2>2, EmptySeq DEF TlvIsWhole
<1>14. Area[a] = AreaStep(Area, a)
  BY <1>6, AreaIs
<1>15. SubSeq(a, ValueAt(a), ValueAt(a) - 1 + TlvLength(a)) = value
       /\ From(a, ValueAt(a) + TlvLength(a)) = rest
  BY <1>7, <1>8, <1>11, <1>12
<1>16. Area[a] = IF type = TLV_NDEF_MSG /\ Message[value].found THEN Message[value] ELSE Area[rest]
  BY <1>10, <1>13, <1>14, <1>15 DEF AreaStep
<1> QED BY <1>2, <1>4, <1>16 DEF a

LeadParts(t) == [i \in DOMAIN t.layout.lead |-> Leading(t.layout.lead[i])]

\* A TLV before that of the message is skipped.
LEMMA LeadingRead ==
  ASSUME NEW tlv \in [type : Byte \ {TLV_TERMINATOR}, value : Seq(Byte)],
         Len(tlv.value) \in Word, tlv.type = TLV_NDEF_MSG => tlv.value = <<>>
  PROVE  /\ Leading(tlv) \in Seq(Byte)
         /\ \A rest \in Seq(Byte) : Area[Leading(tlv) \o rest] = Area[rest]
<1>1. tlv.type \in Byte /\ tlv.type # TLV_TERMINATOR /\ tlv.value \in Seq(Byte)
  OBVIOUS
<1>2. CASE tlv.type = TLV_NULL
  <2> DEFINE a == <<TLV_NULL>>
  <2>1. Leading(tlv) = a
    BY <1>2 DEF Leading
  <2>2. a \in Seq(Byte) /\ Len(a) = 1 /\ a[1] = TLV_NULL
    <3>1. TLV_NULL \in Byte
      BY DEF TLV_NULL, Byte
    <3> QED BY <3>1
  <2> HIDE DEF a
  <2>3. ASSUME NEW rest \in Seq(Byte) PROVE Area[a \o rest] = Area[rest]
    <3> DEFINE d == a \o rest
    <3>1. d \in Seq(Byte) /\ Len(d) = Len(a) + Len(rest) /\ \A i \in 1 .. Len(a) : d[i] = a[i]
      BY <2>2, ConcatType
    <3>2. From(d, Len(a) + 1) = rest
      BY <2>2, Behind
    <3> HIDE DEF d
    <3>3. d[1] = TLV_NULL /\ From(d, 2) = rest /\ Len(d) # 0
      <4>1. Len(rest) \in Nat
        OBVIOUS
      <4> QED BY <2>2, <3>1, <3>2, <4>1
    <3>4. Area[d] = AreaStep(Area, d) /\ d # <<>>
      BY <3>1, <3>3, AreaIs, EmptySeq
    <3>5. Area[d] = Area[rest]
      BY <3>3, <3>4 DEF AreaStep
    <3> QED BY <3>5 DEF d
  <2> QED BY <2>1, <2>2, <2>3
<1>3. CASE tlv.type # TLV_NULL
  <2>1. Leading(tlv) = Tlv(tlv.type, FALSE, tlv.value)
    BY <1>3 DEF Leading
  <2>2. ~(tlv.type = TLV_NDEF_MSG /\ Message[tlv.value].found)
    <3> SUFFICES ASSUME tlv.type = TLV_NDEF_MSG PROVE Message[tlv.value].found = FALSE
      OBVIOUS
    <3> DEFINE d == tlv.value
    <3>1. d \in Seq(Byte) /\ Len(d) = 0
      BY <1>1, EmptySeq
    <3> HIDE DEF d
    <3>2. ~HeaderIsWhole(d)
      BY <3>1 DEF HeaderIsWhole
    <3>3. Message[d] = NothingFound
      BY <3>1, <3>2, MessageIs DEF MessageStep
    <3> QED BY <3>3, NothingFoundType DEF d
  <2>3. /\ Tlv(tlv.type, FALSE, tlv.value) \in Seq(Byte)
        /\ \A rest \in Seq(Byte) : Area[Tlv(tlv.type, FALSE, tlv.value) \o rest] = Area[rest]
    <3> DEFINE type == tlv.type  value == tlv.value  long == FALSE
    <3>1. /\ type \in Byte /\ type # TLV_NULL /\ type # TLV_TERMINATOR
          /\ value \in Seq(Byte) /\ Len(value) \in Word
          /\ ~(type = TLV_NDEF_MSG /\ Message[value].found)
      BY <1>1, <1>3, <2>2
    <3>0. long \in BOOLEAN
      OBVIOUS
    <3> HIDE DEF type, value, long
    <3>2. ASSUME NEW rest \in Seq(Byte)
          PROVE  Tlv(type, long, value) \in Seq(Byte) /\ Area[Tlv(type, long, value) \o rest] = Area[rest]
      <4>1. /\ type \in Byte /\ type # TLV_NULL /\ type # TLV_TERMINATOR /\ long \in BOOLEAN
            /\ value \in Seq(Byte) /\ Len(value) \in Word
        BY <3>0, <3>1
      <4>2. /\ Tlv(type, long, value) \in Seq(Byte)
            /\ Area[Tlv(type, long, value) \o rest] =
                 IF type = TLV_NDEF_MSG /\ Message[value].found THEN Message[value] ELSE Area[rest]
        BY <4>1, TlvRead
      <4> QED BY <3>1, <4>2
    <3>3. <<>> \in Seq(Byte)
      BY EmptySeq
    <3> QED BY <3>2, <3>3 DEF type, value, long
  <2> QED BY <2>1, <2>3
<1> QED BY <1>2, <1>3

\* All that stands before the message is skipped.
LEMMA LeadRead ==
  ASSUME NEW t \in Tags
  PROVE  /\ FlattenSeq(LeadParts(t)) \in Seq(Byte)
         /\ \A rest \in Seq(Byte) : Area[FlattenSeq(LeadParts(t)) \o rest] = Area[rest]
<1> DEFINE lead == t.layout.lead
           L == [type : Byte \ {TLV_TERMINATOR}, value : Seq(Byte)]
           N == Len(lead)
           X == Seq(Byte)
           s == [i \in 1 .. N |-> Leading(lead[i])]
           f == [d \in X |-> [r \in {0} |-> Area[d]]]
           h == [i \in 0 .. N |-> 0]
<1>1. /\ lead \in Seq(L)
      /\ \A i \in DOMAIN lead : /\ Len(lead[i].value) \in Word
                                /\ lead[i].type = TLV_NDEF_MSG => lead[i].value = <<>>
  BY LeadFacts
<1> HIDE DEF L
<1>2. N \in Nat /\ DOMAIN lead = 1 .. N /\ \A i \in 1 .. N : lead[i] \in L
  BY <1>1
<1>3. LeadParts(t) = s
  BY <1>2 DEF LeadParts
<1> HIDE DEF N
<1>4. \A i \in 1 .. N : /\ Leading(lead[i]) \in Seq(Byte)
                        /\ \A rest \in Seq(Byte) : Area[Leading(lead[i]) \o rest] = Area[rest]
  <2> TAKE i \in 1 .. N
  <2>1. lead[i] \in L /\ Len(lead[i].value) \in Word /\ (lead[i].type = TLV_NDEF_MSG => lead[i].value = <<>>)
    BY <1>1, <1>2
  <2> QED BY <2>1, LeadingRead DEF L
<1>5. s \in Seq(X) /\ Len(s) = N
  <2>1. \A i \in 1 .. N : Leading(lead[i]) \in X
    BY <1>4
  <2> HIDE DEF X
  <2>2. s \in [1 .. N -> X]
    BY <2>1
  <2> QED BY <1>2, <2>2
<1>6. \A i \in 1 .. N : s[i] = Leading(lead[i])
  OBVIOUS
<1>7. Walks(f, s, h)
  <2> SUFFICES ASSUME NEW i \in 1 .. Len(s), NEW rest \in Seq(Byte)
               PROVE  f[s[i] \o rest][h[i - 1]] = f[rest][h[i]]
    BY DEF Walks
  <2>1. i \in 1 .. N /\ i - 1 \in 0 .. N /\ i \in 0 .. N
    BY <1>2, <1>5
  <2>2. h[i - 1] = 0 /\ h[i] = 0
    BY <2>1
  <2>3. s[i] = Leading(lead[i]) /\ s[i] \in Seq(Byte) /\ Area[s[i] \o rest] = Area[rest]
    BY <1>4, <1>6, <2>1
  <2> HIDE DEF s, h
  <2>4. s[i] \o rest \in X /\ rest \in X
    BY <2>3, ConcatType
  <2> HIDE DEF X
  <2>5. f[s[i] \o rest][0] = Area[s[i] \o rest] /\ f[rest][0] = Area[rest]
    BY <2>4
  <2> QED BY <2>2, <2>3, <2>5
<1>8. h[0] = 0 /\ h[Len(s)] = 0
  <2>1. 0 \in 0 .. N /\ N \in 0 .. N
    BY <1>2
  <2> QED BY <1>5, <2>1
<1> HIDE DEF s, h
<1>9. s \in Seq(Seq(Byte)) /\ FlattenSeq(s) \in Seq(Byte)
  BY <1>5, FlattenType
<1>10. ASSUME NEW rest \in Seq(Byte) PROVE Area[FlattenSeq(s) \o rest] = Area[rest]
  <2>1. FlattenSeq(s) \o rest \in X /\ rest \in X
    BY <1>9, ConcatType
  <2>2. f[FlattenSeq(s) \o rest][0] = Area[FlattenSeq(s) \o rest] /\ f[rest][0] = Area[rest]
    <3> HIDE DEF X
    <3> QED BY <2>1
  <2> HIDE DEF f
  <2>3. f[FlattenSeq(s) \o rest][h[0]] = f[rest][h[Len(s)]]
    BY <1>7, <1>9, FlattenWalk
  <2> QED BY <1>8, <2>2, <2>3
<1> QED BY <1>3, <1>9, <1>10

\* A tag that is written is read: its message is found in the area, whatever
\* stands before it and whatever fills the last page behind it.
LEMMA AreaRead ==
  ASSUME NEW t \in Tags
  PROVE  /\ WrittenArea(t) \in Seq(Byte) /\ WrittenArea(t) # <<>>
         /\ InPayload(t) \in Found
         /\ \A fill \in Seq(Byte) : Area[WrittenArea(t) \o fill] = InMessage(t)
<1> DEFINE long == t.layout.long
           lead == FlattenSeq(LeadParts(t))
           msg == WscMessage(t)
           tlv == Tlv(TLV_NDEF_MSG, long, msg)
           end == <<TLV_TERMINATOR>>
<1>1. lead \in Seq(Byte) /\ \A rest \in Seq(Byte) : Area[lead \o rest] = Area[rest]
  BY LeadRead
<1>2. msg \in Seq(Byte) /\ Len(msg) \in Word /\ long \in BOOLEAN
  BY MessageParts, TagFacts
<1>3. Message[msg] = InMessage(t) /\ InPayload(t) \in Found
  BY MessageRead
<1>4. TLV_NDEF_MSG \in Byte /\ TLV_NDEF_MSG # TLV_NULL /\ TLV_NDEF_MSG # TLV_TERMINATOR
  BY DEF TLV_NDEF_MSG, TLV_NULL, TLV_TERMINATOR, Byte
<1>5. end \in Seq(Byte) /\ Len(end) = 1 /\ end[1] = TLV_TERMINATOR
  <2>1. TLV_TERMINATOR \in Byte
    BY DEF TLV_TERMINATOR, Byte
  <2> QED BY <2>1
<1>6. WrittenArea(t) = (lead \o tlv) \o end
  BY DEF WrittenArea, LeadParts
<1> HIDE DEF lead, msg, long, end
<1>7. /\ tlv \in Seq(Byte)
      /\ \A rest \in Seq(Byte) : Area[tlv \o rest] =
           IF InMessage(t).found THEN InMessage(t) ELSE Area[rest]
  <2>1. <<>> \in Seq(Byte)
    BY EmptySeq
  <2>2. \A rest \in Seq(Byte) :
          /\ tlv \in Seq(Byte)
          /\ Area[tlv \o rest] =
               IF TLV_NDEF_MSG = TLV_NDEF_MSG /\ Message[msg].found THEN Message[msg] ELSE Area[rest]
    <3> TAKE rest \in Seq(Byte)
    <3> QED BY <1>2, <1>4, TlvRead
  <2> HIDE DEF tlv
  <2> QED BY <1>3, <2>1, <2>2
<1> HIDE DEF tlv
<1>8. lead \o tlv \in Seq(Byte) /\ WrittenArea(t) \in Seq(Byte) /\ WrittenArea(t) # <<>>
  <2>1. lead \o tlv \in Seq(Byte)
    BY <1>1, <1>7, ConcatType
  <2>2. (lead \o tlv) \o end \in Seq(Byte) /\ Len((lead \o tlv) \o end) = Len(lead \o tlv) + Len(end)
    BY <1>5, <2>1, ConcatType
  <2>3. Len(lead \o tlv) \in Nat
    BY <2>1
  <2>4. Len(WrittenArea(t)) # 0
    BY <1>5, <1>6, <2>2, <2>3
  <2> QED BY <1>6, <2>1, <2>2, <2>4, EmptySeq
<1>9. ASSUME NEW fill \in Seq(Byte)
      PROVE  Area[WrittenArea(t) \o fill] = InMessage(t)
  <2> DEFINE rest == end \o fill
  <2>1. rest \in Seq(Byte) /\ rest # <<>> /\ rest[1] = TLV_TERMINATOR
    <3>1. rest \in Seq(Byte) /\ Len(rest) = Len(end) + Len(fill) /\ \A i \in 1 .. Len(end) : rest[i] = end[i]
      BY <1>5, ConcatType
    <3>2. Len(fill) \in Nat
      OBVIOUS
    <3> HIDE DEF rest
    <3>3. Len(rest) # 0 /\ rest[1] = end[1]
      BY <1>5, <3>1, <3>2
    <3> QED BY <1>5, <3>1, <3>3, EmptySeq
  <2>2. WrittenArea(t) \o fill = lead \o (tlv \o rest)
    <3>1. ((lead \o tlv) \o end) \o fill = (lead \o tlv) \o rest
      BY <1>5, <1>8, Regroup
    <3> HIDE DEF rest
    <3>2. (lead \o tlv) \o rest = lead \o (tlv \o rest)
      BY <1>1, <1>7, <2>1, Regroup
    <3> QED BY <1>6, <3>1, <3>2 DEF rest
  <2> HIDE DEF rest
  <2>3. tlv \o rest \in Seq(Byte)
    BY <1>7, <2>1, ConcatType
  <2>4. Area[WrittenArea(t) \o fill] = IF InMessage(t).found THEN InMessage(t) ELSE Area[rest]
    BY <1>1, <1>7, <2>1, <2>2, <2>3
  <2>5. Area[rest] = NothingFound
    <3>1. Area[rest] = AreaStep(Area, rest)
      BY <2>1, AreaIs
    <3>2. TLV_TERMINATOR # TLV_NULL
      BY DEF TLV_TERMINATOR, TLV_NULL
    <3> QED BY <2>1, <3>1, <3>2 DEF AreaStep
  <2> QED BY <2>4, <2>5, NothingFoundType DEF InMessage
<1> QED BY <1>3, <1>8, <1>9

-----------------------------------------------------------------------------
(* What is written is read: the tag.                                       *)

\* The sixteen bytes in front of the area, and those behind it.
Preamble == <<0, 0, 0, 0, 0, 0, 0, 0, 0, 0, 0, 0, CC_MAGIC, 16, 18, 0>>
Fill(t) == [i \in 1 .. ((4 - (Len(WrittenArea(t)) % 4)) % 4) |-> 0]

\* Magic, whole pages, and the area behind the first four of them.
LEMMA MemoryIs ==
  ASSUME NEW t \in Tags
  PROVE  /\ Memory[t] \in Seq(Byte) /\ Len(Memory[t]) \geq 20 /\ Memory[t][13] = CC_MAGIC
         /\ Len(Memory[t]) % 4 = 0
         /\ From(Memory[t], 17) = WrittenArea(t) \o Fill(t) /\ Fill(t) \in Seq(Byte)
<1> DEFINE w == WrittenArea(t)  fill == Fill(t)  m == Memory[t]
<1>1. w \in Seq(Byte) /\ w # <<>> /\ Len(w) \in Nat \ {0}
  BY AreaRead, EmptySeq
<1>2. Preamble \in Seq(Byte) /\ Len(Preamble) = 16 /\ Preamble[13] = CC_MAGIC
  <2>1. {0, 16, 18, CC_MAGIC} \subseteq Byte
    BY DEF Byte, CC_MAGIC
  <2> QED BY <2>1 DEF Preamble
<1>3. fill \in Seq(Byte) /\ Len(fill) = (4 - (Len(w) % 4)) % 4 /\ Len(fill) \in Nat
  <2> DEFINE n == (4 - (Len(w) % 4)) % 4
  <2>1. n \in Nat /\ 0 \in Byte
    BY <1>1 DEF Byte
  <2>2. fill = [i \in 1 .. n |-> 0]
    BY DEF Fill
  <2> HIDE DEF n, fill
  <2>3. fill \in Seq(Byte) /\ Len(fill) = n
    BY <2>1, <2>2
  <2> QED BY <2>1, <2>3 DEF n
<1>4. m = (Preamble \o w) \o fill
  BY DEF Memory, Written, Preamble, Fill
<1> HIDE DEF w, fill, m
<1>5. m = Preamble \o (w \o fill)
  BY <1>1, <1>2, <1>3, <1>4, Regroup
<1>6. w \o fill \in Seq(Byte) /\ Len(w \o fill) = Len(w) + Len(fill)
  BY <1>1, <1>3, ConcatType
<1> DEFINE wf == w \o fill
<1> HIDE DEF wf
<1>7. /\ m \in Seq(Byte) /\ Len(m) = 16 + Len(wf) /\ \A i \in 1 .. 16 : m[i] = Preamble[i]
      /\ From(m, 17) = wf
  <2>1. wf \in Seq(Byte) /\ m = Preamble \o wf
    BY <1>5, <1>6 DEF wf
  <2>2. /\ Preamble \o wf \in Seq(Byte) /\ Len(Preamble \o wf) = Len(Preamble) + Len(wf)
        /\ \A i \in 1 .. Len(Preamble) : (Preamble \o wf)[i] = Preamble[i]
    BY <1>2, <2>1, ConcatType
  <2>3. From(Preamble \o wf, Len(Preamble) + 1) = wf
    BY <1>2, <2>1, Behind
  <2>4. Len(Preamble) = 16 /\ Len(Preamble) + 1 = 17
    BY <1>2
  <2> HIDE DEF wf
  <2> QED BY <2>1, <2>2, <2>3, <2>4
<1>8. m[13] = CC_MAGIC
  BY <1>2, <1>7
<1>9. Len(m) = 16 + (Len(w) + Len(fill))
  BY <1>6, <1>7 DEF wf
<1>10. Len(m) % 4 = 0 /\ Len(m) \geq 20
  <2> DEFINE k == Len(w)  j == Len(fill)
  <2>1. k \in Nat \ {0} /\ j = (4 - (k % 4)) % 4 /\ Len(m) = 16 + (k + j)
    BY <1>1, <1>3, <1>9
  <2> HIDE DEF k, j
  <2> QED BY <2>1
<1> QED BY <1>3, <1>7, <1>8, <1>10 DEF wf, w, fill, m

\* Of however many pages of a tag, its message is found or nothing is.
LEMMA TagRead ==
  ASSUME NEW t \in Tags, NEW n \in 4 .. PagesOf(t)
  PROVE  LET r == parse_wifi_tag(SubSeq(Memory[t], 1, 4 * n)) IN
         /\ r \in {NothingFound, InMessage(t)}
         /\ n = PagesOf(t) => r = InMessage(t)
<1> DEFINE m == Memory[t]  k == 4 * n
<1>1. /\ m \in Seq(Byte) /\ Len(m) \geq 20 /\ m[13] = CC_MAGIC /\ Len(m) % 4 = 0
      /\ From(m, 17) = WrittenArea(t) \o Fill(t) /\ Fill(t) \in Seq(Byte)
  BY MemoryIs
<1>0. Len(m) \in Nat
  <2>1. m \in Seq(Byte)
    BY <1>1
  <2> HIDE DEF m
  <2> QED BY <2>1
<1>2. PagesOf(t) = Len(m) \div 4
  BY DEF PagesOf
<1> HIDE DEF m
<1>3. k \in 0 .. Len(m) /\ (n = PagesOf(t) => k = Len(m))
  BY <1>0, <1>1, <1>2
<1> HIDE DEF k
<1>4. parse_wifi_tag(m) = InMessage(t)
  <2>1. 5 * 4 = 20 /\ 3 * 4 + 1 = 13 /\ 4 * 4 + 1 = 17
    OBVIOUS
  <2>2. parse_wifi_tag(m) = IF Len(m) < 20 \/ m[13] # CC_MAGIC THEN NothingFound ELSE Area[From(m, 17)]
    BY <2>1 DEF parse_wifi_tag
  <2>3. Area[From(m, 17)] = InMessage(t)
    BY <1>1, AreaRead
  <2>4. ~(Len(m) < 20)
    BY <1>0, <1>1
  <2> QED BY <1>1, <2>2, <2>3, <2>4
<1>5. parse_wifi_tag(SubSeq(m, 1, k)) \in {NothingFound, parse_wifi_tag(m)}
  BY <1>1, <1>3, PrefixRead
<1>6. SubSeq(m, 1, Len(m)) = m
  <2>1. Len(m) \in 0 .. Len(m)
    BY <1>0
  <2>2. /\ SubSeq(m, 1, Len(m)) \in Seq(Byte) /\ Len(SubSeq(m, 1, Len(m))) = Len(m)
        /\ \A i \in 1 .. Len(m) : SubSeq(m, 1, Len(m))[i] = m[i]
    BY <1>1, <2>1, PrefixFacts
  <2> QED BY <1>1, <2>2, SeqEqual
<1> QED BY <1>3, <1>4, <1>5, <1>6 DEF m, k

-----------------------------------------------------------------------------
(* The credentials that a tag gives.                                       *)

\* What the app makes of what the reader found.
CredsOf(r) == [ssid |-> Text(r.ssid), password |-> Text(r.password),
               security |-> r.security, hidden |-> FALSE]

\* The characters of a name or key on a tag are characters of WifiString.
LEMMA TextType ==
  ASSUME NEW max \in Nat, NEW s \in CStrings(max)
  PROVE  Text(s) \in BoundedSeq(Alphabet, max)
<1> DEFINE C == 1 .. 255
<1>1. s \in Seq(C) /\ Len(s) \in 0 .. max /\ DOMAIN s = 1 .. Len(s)
  BY DEF CStrings
<1>0. CharOf \in [C -> Alphabet]
  BY CharAssumption
<1> HIDE DEF C
<1>2. \A i \in 1 .. Len(s) : CharOf[s[i]] \in Alphabet
  <2> TAKE i \in 1 .. Len(s)
  <2>1. s[i] \in C
    BY <1>1
  <2> QED BY <1>0, <2>1
<1>3. Text(s) = [i \in 1 .. Len(s) |-> CharOf[s[i]]]
  BY <1>1 DEF Text
<1>4. Text(s) \in [1 .. Len(s) -> Alphabet]
  BY <1>2, <1>3
<1> QED BY <1>1, <1>4 DEF BoundedSeq, SeqOf

\* No name, key or type of a tag is more than the app has room for.
LEMMA CredsOfType ==
  /\ \A r \in Found : CredsOf(r) \in Creds
  /\ NoCreds \in Creds
<1>1. SsidMax \in Nat /\ PassMax \in Nat
  BY WifiAssumption
<1>2. ASSUME NEW r \in Found PROVE CredsOf(r) \in Creds
  <2>1. /\ r.ssid \in CStrings(SsidMax) /\ r.password \in CStrings(PassMax)
        /\ r.security \in {"OPEN", "WPA", "WEP"}
    BY FoundFields
  <2>2. /\ Text(r.ssid) \in BoundedSeq(Alphabet, SsidMax)
        /\ Text(r.password) \in BoundedSeq(Alphabet, PassMax)
    BY <1>1, <2>1, TextType
  <2> QED BY <2>1, <2>2 DEF CredsOf, Creds, Securities
<1>3. ASSUME NEW n \in Nat PROVE <<>> \in BoundedSeq(Alphabet, n)
  <2>1. <<>> \in [1 .. 0 -> Alphabet]
    OBVIOUS
  <2> QED BY <2>1 DEF BoundedSeq, SeqOf
<1> QED BY <1>1, <1>2, <1>3 DEF NoCreds, Creds, Securities

\* What a tag gives is read from its networks.
LEMMA TagNetworksRead ==
  ASSUME NEW t \in Tags
  PROVE  /\ t # NoTag /\ t.nets \in Seq(Networks) /\ Len(t.nets) \in Nat \ {0}
         /\ NetworksRead(t.nets, InPayload(t))
<1>1. t.nets \in Seq(Networks) /\ t.nets # <<>> /\ t.layout.order \in Orders
  BY TagFacts
<1>2. Len(PayloadOf(t)) \in Word
  BY MessageParts
<1>3. PICK g : ReadInTurn(t.nets, g, InPayload(t))
  <2> DEFINE nets == t.nets  order == t.layout.order
  <2>1. nets \in Seq(Networks) /\ order \in Orders /\ Len(WscPayload(nets, order)) \in Word
    BY <1>1, <1>2 DEF PayloadOf
  <2> HIDE DEF nets, order
  <2>2. \E g : ReadInTurn(nets, g, Attributes[WscPayload(nets, order)][NothingFound])
    BY <2>1, PayloadRead
  <2> QED BY <2>2 DEF InPayload, PayloadOf, nets, order
<1>4. NetworksRead(t.nets, InPayload(t))
  BY <1>1, <1>3, ReadInTurnIs
<1>5. t # NoTag
  BY <1>1 DEF NoTag
<1> QED BY <1>1, <1>4, <1>5, EmptySeq

\* What is found in a tag is of one of its networks, if it has but one or its
\* last one replaces all that was found before it.
LEMMA FoundIsOfOne ==
  ASSUME NEW t \in Tags, InPayload(t).found,
         Len(t.nets) = 1 \/ Complete(t.nets[Len(t.nets)])
  PROVE  \E i \in DOMAIN t.nets : Names(CredsOf(InPayload(t)), t.nets[i])
<1> DEFINE N == Len(t.nets)  net == t.nets[N]  r == InPayload(t)
<1>1. /\ t.nets \in Seq(Networks) /\ N \in Nat \ {0} /\ r \in Found
      /\ N = 1 => Applied(t.nets[1], NothingFound, r)
      /\ \E u \in Found : Applied(net, u, r)
  BY TagNetworksRead DEF NetworksRead
<1>2. N \in DOMAIN t.nets /\ net \in Networks
  BY <1>1
<1>3. net.ssid \in Seq(Byte) /\ net.key \in Seq(Byte) /\ Len(net.ssid) \in Nat /\ Len(net.key) \in Nat
  BY <1>2 DEF Networks
<1>4. SsidMax \in Nat /\ PassMax \in Nat
  BY WifiAssumption
<1>5. N = 1 \/ Complete(net)
  OBVIOUS
<1>6. r.found
  OBVIOUS
<1> HIDE DEF N, net, r
<1>7. /\ SsidFits(net) => Fits(net.ssid, SsidMax) = CString(net.ssid)
      /\ KeyFits(net) => Fits(net.key, PassMax) = CString(net.key)
      /\ ~KeyFits(net) => Fits(net.key, PassMax) = <<>>
  <2>1. SsidFits(net) => Fits(net.ssid, SsidMax) = CString(net.ssid)
    BY <1>3, <1>4 DEF SsidFits, Fits
  <2>2. KeyFits(net) => Fits(net.key, PassMax) = CString(net.key)
    BY <1>3, <1>4 DEF KeyFits, Fits
  <2>3. ASSUME ~KeyFits(net) PROVE Fits(net.key, PassMax) = <<>>
    <3>1. CASE Len(net.key) = 0
      <4>1. CString(net.key) \in Seq(1 .. 255) /\ Len(CString(net.key)) \leq Len(net.key)
        BY <1>3, CStringType
      <4>2. Len(CString(net.key)) = 0
        BY <3>1, <4>1
      <4>3. CString(net.key) = <<>>
        BY <4>1, <4>2, EmptySeq
      <4> QED BY <4>3 DEF Fits
    <3>2. CASE Len(net.key) # 0
      <4>1. ~(Len(net.key) \leq PassMax)
        BY <1>3, <1>4, <2>3, <3>2 DEF KeyFits
      <4> QED BY <4>1 DEF Fits
    <3> QED BY <3>1, <3>2
  <2> QED BY <2>1, <2>2, <2>3
<1>8. /\ r.ssid = Fits(net.ssid, SsidMax) /\ r.security = AuthType(net.auth)
      /\ r.security # "OPEN" => r.password = Fits(net.key, PassMax)
  <2>1. CASE N = 1
    <3>1. /\ r.ssid = IF SsidFits(net) THEN CString(net.ssid) ELSE NothingFound.ssid
          /\ r.found = (SsidFits(net) \/ NothingFound.found)
          /\ r.security = AuthType(net.auth)
          /\ r.password = IF KeyFits(net) THEN CString(net.key) ELSE NothingFound.password
      BY <1>1, <2>1 DEF Applied, net
    <3>2. NothingFound.password = <<>> /\ NothingFound.found = FALSE
      BY NothingFoundType
    <3>3. SsidFits(net)
      BY <1>6, <3>1, <3>2
    <3> QED BY <1>7, <3>1, <3>2, <3>3
  <2>2. CASE Complete(net)
    <3>1. PICK u \in Found : Applied(net, u, r)
      BY <1>1
    <3>2. SsidFits(net) /\ (KeyFits(net) \/ net.auth = AUTH_OPEN)
      BY <2>2 DEF Complete, SsidFits, KeyFits
    <3>3. net.auth = AUTH_OPEN => AuthType(net.auth) = "OPEN"
      BY DEF AuthType, AUTH_OPEN, AUTH_SHARED
    <3> QED BY <1>7, <3>1, <3>2, <3>3 DEF Applied
  <2> QED BY <1>5, <2>1, <2>2
<1>9. Names(CredsOf(r), net)
  BY <1>8 DEF Names, CredsOf, NetCreds
<1> QED BY <1>2, <1>9 DEF net, r

-----------------------------------------------------------------------------
(* The theorems.                                                           *)

\* What was entered from a tag is what its message gives, and it is given up
\* only if that is nothing or some of the tag is missing; from there on the wire
\* holds what was built from it and the daemon what it parsed from the wire.
ScanInv ==
  /\ tag \in Tags \cup {NoTag} /\ creds \in Creds /\ size \in Nat
  /\ phase \in {"scanning", "no_wifi", "entered", "send_failed", "built", "parsed"}
  /\ tag # NoTag => pages \in 4 .. PagesOf(tag)
  /\ phase \in {"scanning", "no_wifi"} => tag # NoTag
  /\ phase = "no_wifi" /\ pages = PagesOf(tag) => ~InPayload(tag).found
  /\ tag # NoTag /\ phase \notin {"scanning", "no_wifi"} =>
       InPayload(tag).found /\ creds = CredsOf(InPayload(tag))
  /\ phase \in {"built", "parsed"} => creds.ssid # <<>> /\ wire = Build(creds, size)
  /\ phase = "parsed" => wire # Failed /\ parsed = Parse(wire)

LEMMA ScanInitInv == ScanInit => ScanInv
<1>1. CASE TypedInit
  <2>1. OutSizes \subseteq Nat
    BY WifiAssumption
  <2> QED BY <1>1, <2>1 DEF TypedInit, Init, ScanInv
<1>2. CASE TagInit
  <2>1. tag # NoTag
    BY <1>2, TagNetworksRead DEF TagInit
  <2>2. creds \in Creds
    BY <1>2, CredsOfType DEF TagInit
  <2> QED BY <1>2, <2>1, <2>2 DEF TagInit, ScanInv
<1> QED BY <1>1, <1>2 DEF ScanInit

LEMMA ScanKeepsInv ==
  ASSUME ScanInv, Scan
  PROVE  ScanInv'
<1> DEFINE read == parse_wifi_tag(SubSeq(Memory[tag], 1, 4 * pages))
           r == InPayload(tag)
<1>1. /\ phase = "scanning" /\ tag # NoTag /\ tag \in Tags /\ pages \in 4 .. PagesOf(tag)
      /\ creds \in Creds /\ size \in Nat
  BY DEF ScanInv, Scan
<1>2. /\ read \in {NothingFound, InMessage(tag)}
      /\ pages = PagesOf(tag) => read = InMessage(tag)
  BY <1>1, TagRead
<1>3. /\ IF read.found
         THEN /\ creds' = CredsOf(read) /\ phase' = "entered"
         ELSE phase' = "no_wifi" /\ creds' = creds
      /\ size' = size /\ wire' = wire /\ parsed' = parsed /\ tag' = tag /\ pages' = pages
  BY DEF Scan, CredsOf, tagVars
<1> HIDE DEF read
<1>4. r \in Found
  BY <1>1, TagNetworksRead DEF NetworksRead
<1> HIDE DEF r
<1>5. NothingFound.found = FALSE
  BY NothingFoundType
<1>6. InMessage(tag) = IF r.found THEN r ELSE NothingFound
  BY DEF InMessage, r
<1>7. CASE read.found
  <2>1. read = r /\ r.found
    BY <1>2, <1>5, <1>6, <1>7
  <2>2. phase' = "entered" /\ creds' = CredsOf(r) /\ creds' \in Creds
    BY <1>3, <1>4, <1>7, <2>1, CredsOfType
  <2>3. InPayload(tag)' = r
    BY <1>3 DEF r, InPayload, PayloadOf
  <2> QED BY <1>1, <1>3, <2>1, <2>2, <2>3 DEF ScanInv
<1>8. CASE ~read.found
  <2>1. phase' = "no_wifi" /\ creds' = creds
    BY <1>3, <1>8
  <2>2. pages = PagesOf(tag) => ~r.found
    BY <1>2, <1>6, <1>8
  <2>3. InPayload(tag)' = r
    BY <1>3 DEF r, InPayload, PayloadOf
  <2> QED BY <1>1, <1>3, <2>1, <2>2, <2>3 DEF ScanInv
<1> QED BY <1>7, <1>8

LEMMA ScanNextInv == ScanInv /\ [ScanNext]_<<vars, tagVars>> => ScanInv'
<1> SUFFICES ASSUME ScanInv, [ScanNext]_<<vars, tagVars>> PROVE ScanInv'
  OBVIOUS
<1>1. CASE Scan
  BY <1>1, ScanKeepsInv
<1>2. CASE Send
  <2>1. tag' = tag /\ pages' = pages /\ phase = "entered" /\ creds' = creds /\ size' = size
    BY <1>2 DEF Send, Transmit, tagVars
  <2>2. \/ creds.ssid # <<>> /\ phase' = "built" /\ wire' = Build(creds, size)
        \/ phase' = "send_failed"
    BY <1>2 DEF Send, Transmit
  <2>3. InPayload(tag)' = InPayload(tag)
    BY <2>1
  <2> QED BY <2>1, <2>2, <2>3 DEF ScanInv
<1>3. CASE Receive /\ UNCHANGED tagVars
  <2>1. /\ tag' = tag /\ pages' = pages /\ phase = "built" /\ creds' = creds /\ size' = size
        /\ wire' = wire /\ wire # Failed /\ phase' = "parsed" /\ parsed' = Parse(wire)
    BY <1>3 DEF Receive, tagVars
  <2> QED BY <2>1 DEF ScanInv
<1>4. CASE UNCHANGED <<vars, tagVars>>
  BY <1>4 DEF ScanInv, vars, tagVars
<1> QED BY <1>1, <1>2, <1>3, <1>4 DEF ScanNext

LEMMA ScanInvariant == ScanSpec => []ScanInv
BY ScanInitInv, ScanNextInv, PTL DEF ScanSpec

\* Credentials that are accepted from a tag are of one network on it, for any
\* networks, layout and number of pages read: parse_wsc_attributes, in containers
\* within containers, parse_ndef_message and the TLV loop lose nothing of what they
\* step over, and a tag cut short gives all of it or nothing.
THEOREM OneNetworkIsNamed == ScanSpec => []FromOneNetwork
<1>1. ScanInv => FromOneNetwork
  <2> SUFFICES ASSUME ScanInv, tag # NoTag, phase \in {"entered", "built", "parsed"},
                      Len(tag.nets) = 1 \/ Complete(tag.nets[Len(tag.nets)])
               PROVE  \E i \in DOMAIN tag.nets : Names(creds, tag.nets[i])
    BY DEF FromOneNetwork
  <2>1. tag \in Tags /\ InPayload(tag).found /\ creds = CredsOf(InPayload(tag))
    BY DEF ScanInv
  <2>2. \E i \in DOMAIN tag.nets : Names(CredsOf(InPayload(tag)), tag.nets[i])
    BY <2>1, FoundIsOfOne
  <2> QED BY <2>1, <2>2
<1> QED BY <1>1, ScanInvariant, PTL

\* wfr_nfc_parse_wifi_tag refuses no tag that it was given to its end and that
\* names a network the app has room for.
THEOREM WholeTagIsAccepted == ScanSpec => []WholeTagAccepted
<1>1. ScanInv => WholeTagAccepted
  <2> SUFFICES ASSUME ScanInv, phase = "no_wifi", pages = PagesOf(tag),
                      NEW i \in DOMAIN tag.nets, Len(tag.nets[i].ssid) \in 1 .. SsidMax
               PROVE  FALSE
    BY DEF WholeTagAccepted
  <2>1. tag \in Tags /\ ~InPayload(tag).found
    BY DEF ScanInv
  <2>2. i \in 1 .. Len(tag.nets) /\ NetworksRead(tag.nets, InPayload(tag))
    BY <2>1, TagNetworksRead
  <2>3. InPayload(tag).found
    BY <2>2 DEF NetworksRead, SsidFits
  <2> QED BY <2>1, <2>3
<1> QED BY <1>1, ScanInvariant, PTL

\* The daemon parses exactly the credentials that were read from a tag, as it does
\* those that were typed: no byte of a tag is lost between wfr_build_wifi_string
\* and wfr_parse_wifi_string.
THEOREM ScanRoundTrip == ScanSpec => []RoundTrip
<1>1. ScanInv => RoundTrip
  <2> SUFFICES ASSUME ScanInv, phase = "parsed" PROVE parsed = creds
    BY DEF RoundTrip
  <2>1. /\ creds \in Creds /\ creds.ssid # <<>> /\ size \in Nat
        /\ wire = Build(creds, size) /\ wire # Failed /\ parsed = Parse(wire)
    BY DEF ScanInv
  <2>2. Build(creds, size) # Failed
    BY <2>1
  <2>3. Parse(Build(creds, size)) = creds
    BY <2>1, <2>2, ParseInvertsBuild
  <2> QED BY <2>1, <2>3
<1> QED BY <1>1, ScanInvariant, PTL

\* The string for what a tag holds is built whenever it fits, and only then.
THEOREM ScanBuiltWhenItFits == ScanSpec => []BuiltIffFits
<1>1. ScanInv => BuiltIffFits
  <2> SUFFICES ASSUME ScanInv, phase \in {"built", "parsed"}
               PROVE  wire # Failed <=> FullLength(creds) < size
    BY DEF BuiltIffFits, FullLength
  <2>1. creds \in Creds /\ size \in Nat /\ wire = Build(creds, size)
    BY DEF ScanInv
  <2>2. (Build(creds, size) # Failed) <=> FullLength(creds) < size
    BY <2>1, BuildIs
  <2> QED BY <2>1, <2>2
<1> QED BY <1>1, ScanInvariant, PTL
=============================================================================

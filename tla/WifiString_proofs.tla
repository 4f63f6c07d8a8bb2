------------------------- MODULE WifiString_proofs -------------------------
(***************************************************************************)
(* Proofs about WifiString, for any characters in names and passwords, any *)
(* lengths of them and any buffer: what is parsed is what was built, and a *)
(* string is built whenever it fits.                                       *)
(*                                                                         *)
(* Both loops are recursive functions.  That such a function exists, and   *)
(* what it computes, takes induction, which is had from the least element  *)
(* of a set of natural numbers (SetInduction).                             *)
(***************************************************************************)
EXTENDS WifiString, TLAPS, SequenceTheorems, FiniteSetTheorems, WellFoundedInduction

-----------------------------------------------------------------------------
(* Induction.                                                              *)

\* A set that has 0, and with n also n + 1, has every natural number: the least
\* one missing would have a predecessor.
LEMMA SetInduction ==
  ASSUME NEW S, 0 \in S, \A n \in Nat : n \in S => n + 1 \in S
  PROVE  \A n \in Nat : n \in S
<1>1. SUFFICES ASSUME Nat \ S # {} PROVE FALSE
  OBVIOUS
<1> DEFINE R == OpToRel(<, Nat)
<1>2. PICK n \in Nat \ S : \A y \in Nat \ S : ~(<<y, n>> \in R)
  <2>1. IsWellFoundedOn(R, Nat)
    BY NatLessThanWellFounded
  <2>2. Nat \ S \subseteq Nat
    OBVIOUS
  <2> QED BY <2>1, <2>2, <1>1, WFMin
<1>3. n # 0 /\ n - 1 \in Nat /\ (n - 1) + 1 = n
  OBVIOUS
<1>4. n - 1 \notin S
  BY <1>3
<1>5. <<n - 1, n>> \in R
  BY <1>3 DEF OpToRel
<1> QED BY <1>2, <1>3, <1>4, <1>5

\* The runs of a loop of N rounds over states X, the i-th of which does round[i].
Runs(N, X, start, round) ==
  { f \in [0 .. N -> X] : f[0] = start /\ \A i \in 1 .. N : f[i] = round[i][f[i - 1]] }

\* Every such loop has a run.
LEMMA LoopRuns ==
  ASSUME NEW N \in Nat, NEW X, NEW start \in X, NEW round \in [1 .. N -> [X -> X]]
  PROVE  Runs(N, X, start, round) # {}
<1> DEFINE Run(n, f) == f[0] = start /\ \A i \in 1 .. n : f[i] = round[i][f[i - 1]]
           S == { n \in Nat : n \leq N => \E f \in [0 .. n -> X] : Run(n, f) }
<1>1. 0 \in S
  <2>1. [i \in 0 .. 0 |-> start] \in [0 .. 0 -> X] /\ Run(0, [i \in 0 .. 0 |-> start])
    OBVIOUS
  <2> QED BY <2>1
<1>2. \A n \in Nat : n \in S => n + 1 \in S
  <2> SUFFICES ASSUME NEW n \in Nat, n \leq N => \E f \in [0 .. n -> X] : Run(n, f), n + 1 \leq N
               PROVE  \E f \in [0 .. n + 1 -> X] : Run(n + 1, f)
    <3> HIDE DEF Run
    <3> QED OBVIOUS
  <2>1. PICK f \in [0 .. n -> X] : Run(n, f)
    <3> HIDE DEF Run
    <3> QED OBVIOUS
  <2> DEFINE g == [i \in 0 .. n + 1 |-> IF i = n + 1 THEN round[n + 1][f[n]] ELSE f[i]]
  <2>2. f[n] \in X /\ round[n + 1] \in [X -> X]
    OBVIOUS
  <2>3. g \in [0 .. n + 1 -> X]
    BY <2>2
  <2>4. \A i \in 1 .. n : g[i] = round[i][g[i - 1]]
    BY <2>1
  <2>5. g[0] = start /\ g[n + 1] = round[n + 1][g[n]]
    BY <2>1
  <2>6. Run(n + 1, g)
    <3> HIDE DEF g
    <3>1. \A i \in 1 .. n + 1 : i \in 1 .. n \/ i = n + 1
      OBVIOUS
    <3> QED BY <2>4, <2>5, <3>1
  <2> QED BY <2>3, <2>6
<1>3. N \in S
  <2> HIDE DEF S
  <2> QED BY <1>1, <1>2, SetInduction
<1> QED BY <1>3 DEF Runs

-----------------------------------------------------------------------------
(* What wfr_escape_append writes.                                          *)

\* Every character of a WiFi string.
Char == Alphabet \cup {"W", "I", "F", ":", "T", ";", "S", "P", "H", "A", "E", "n", "o", "p", "a", "s",
                       "t", "r", "u", "e", "f", "l", "\\"}

\* Where the loop of wfr_escape_append stands: written, and whether it has stopped.
Writing == [out : Seq(Char), stopped : BOOLEAN]

WriteNext(w, c, max) ==
  IF ~w.stopped /\ Len(w.out) + Len(Escape(c)) \leq max - 1
  THEN [w EXCEPT !.out = @ \o Escape(c)]
  ELSE [w EXCEPT !.stopped = TRUE]

\* p is the text after each character of s, when all of s is written after base.
Escapes(p, base, s) ==
  /\ p \in [0 .. Len(s) -> Seq(Char)]
  /\ p[0] = base
  /\ \A i \in 1 .. Len(s) : p[i] = p[i - 1] \o Escape(s[i])

LEMMA EscapeType ==
  ASSUME NEW c \in Char
  PROVE  /\ Escape(c) \in Seq(Char)
         /\ Len(Escape(c)) = IF NeedsEscape(c) THEN 2 ELSE 1
         /\ \A q \in 1 .. Len(Escape(c)) : Escape(c)[q] = ":" => q = 2 /\ Escape(c)[1] = "\\"
<1>0. "\\" \in Char
  BY DEF Char
<1>1. <<c>> \in Seq(Char) /\ <<"\\", c>> \in Seq(Char)
  BY <1>0
<1>2. CASE NeedsEscape(c)
  <2>1. Escape(c) = <<"\\", c>>
    BY <1>2 DEF Escape
  <2>2. Len(<<"\\", c>>) = 2 /\ <<"\\", c>>[1] = "\\" /\ \A q \in 1 .. 2 : q = 1 \/ q = 2
    OBVIOUS
  <2> QED BY <1>1, <1>2, <2>1, <2>2
<1>3. CASE ~NeedsEscape(c)
  <2>1. Escape(c) = <<c>> /\ c # ":"
    BY <1>3 DEF Escape, NeedsEscape
  <2>2. Len(<<c>>) = 1 /\ <<c>>[1] = c /\ \A q \in 1 .. 1 : q = 1
    OBVIOUS
  <2> QED BY <1>1, <1>3, <2>1, <2>2
<1> QED BY <1>2, <1>3

LEMMA WriteNextType ==
  ASSUME NEW w \in Writing, NEW c \in Char, NEW max
  PROVE  WriteNext(w, c, max) \in Writing
<1>1. w.out \in Seq(Char) /\ Escape(c) \in Seq(Char)
  BY EscapeType DEF Writing
<1>2. w.out \o Escape(c) \in Seq(Char)
  BY <1>1, ConcatProperties
<1> QED BY <1>2 DEF WriteNext, Writing

\* The runs of that loop, and that EscapeAppend is what one of them wrote.
WriteRuns(base, max, s) ==
  { w \in [0 .. Len(s) -> Writing] :
      /\ w[0] = [out |-> base, stopped |-> FALSE]
      /\ \A i \in 1 .. Len(s) : w[i] = WriteNext(w[i - 1], s[i], max)
      /\ EscapeAppend(base, max, s) = w[Len(s)].out }

LEMMA EscapeAppendRuns ==
  ASSUME NEW base \in Seq(Char), NEW max, NEW s \in Seq(Char)
  PROVE  WriteRuns(base, max, s) # {}
<1> DEFINE start == [out |-> base, stopped |-> FALSE]
           round == [i \in 1 .. Len(s) |-> [w \in Writing |-> WriteNext(w, s[i], max)]]
           loop(f) == [i \in 0 .. Len(s) |-> IF i = 0 THEN start ELSE WriteNext(f[i - 1], s[i], max)]
           run == CHOOSE f : f = loop(f)
<1>1. Len(s) \in Nat /\ \A i \in 1 .. Len(s) : s[i] \in Char
  OBVIOUS
<1>2. start \in Writing
  BY DEF Writing
<1>3. round \in [1 .. Len(s) -> [Writing -> Writing]]
  BY <1>1, WriteNextType
<1>4. PICK f \in Runs(Len(s), Writing, start, round) : TRUE
  <2>1. Len(s) \in Nat
    BY <1>1
  <2> HIDE DEF start, round
  <2> QED BY <2>1, <1>2, <1>3, LoopRuns
<1>5. \A i \in 1 .. Len(s) : f[i] = WriteNext(f[i - 1], s[i], max)
  <2> TAKE i \in 1 .. Len(s)
  <2>1. f[i - 1] \in Writing
    <3> HIDE DEF start, round
    <3>1. f \in [0 .. Len(s) -> Writing]
      BY DEF Runs
    <3>2. i - 1 \in 0 .. Len(s)
      BY <1>1
    <3> QED BY <3>1, <3>2
  <2>2. f[i] = round[i][f[i - 1]]
    BY DEF Runs
  <2> QED BY <2>1, <2>2
<1>6. f = loop(f)
  <2> HIDE DEF start
  <2>1. \A i \in 0 .. Len(s) : f[i] = loop(f)[i]
    BY <1>1, <1>5 DEF Runs
  <2>2. f \in [0 .. Len(s) -> Writing]
    BY DEF Runs
  <2> QED BY <2>1, <2>2
<1>7. run = loop(run)
  <2> HIDE DEF loop
  <2> QED BY <1>6
<1>8. run[0] = start /\ \A i \in 1 .. Len(s) : run[i] = WriteNext(run[i - 1], s[i], max)
  <2> HIDE DEF run, start
  <2> QED BY <1>1, <1>7
<1>9. \A n \in Nat : n \leq Len(s) => run[n] \in Writing
  <2> DEFINE S == { n \in Nat : n \leq Len(s) => run[n] \in Writing }
  <2> HIDE DEF run, start
  <2>1. \A n \in Nat : n + 1 \leq Len(s) => n + 1 \in 1 .. Len(s) /\ (n + 1) - 1 = n
    BY <1>1
  <2>2. \A n \in Nat : n + 1 \leq Len(s) /\ run[n] \in Writing => run[n + 1] \in Writing
    <3> TAKE n \in Nat
    <3> HAVE n + 1 \leq Len(s) /\ run[n] \in Writing
    <3>1. n + 1 \in 1 .. Len(s) /\ (n + 1) - 1 = n
      BY <2>1
    <3>2. run[n + 1] = WriteNext(run[n], s[n + 1], max) /\ s[n + 1] \in Char
      BY <1>1, <1>8, <3>1
    <3> QED BY <3>2, WriteNextType
  <2>3. run[0] \in Writing
    BY <1>2, <1>8
  <2>4. 0 \in S /\ \A n \in Nat : n \in S => n + 1 \in S
    BY <1>1, <2>2, <2>3
  <2>5. \A n \in Nat : n \in S
    <3> HIDE DEF S
    <3> QED BY <2>4, SetInduction
  <2> QED BY <2>5
<1>10. run \in [0 .. Len(s) -> Writing]
  <2>1. \A i \in 0 .. Len(s) : run[i] \in Writing
    <3> HIDE DEF run
    <3> QED BY <1>1, <1>9
  <2> HIDE DEF run
  <2> QED BY <1>7, <2>1
<1>11. EscapeAppend(base, max, s) = run[Len(s)].out
  BY DEF EscapeAppend, WriteNext
<1> QED
  <2> HIDE DEF run
  <2> QED BY <1>8, <1>10, <1>11 DEF WriteRuns

\* What the first n characters of s take when they are escaped.
EscapedUpTo(s, n) == n + Cardinality({ i \in 1 .. n : NeedsEscape(s[i]) })

LEMMA EscapedSteps ==
  ASSUME NEW s \in Seq(Char)
  PROVE  /\ \A n \in Nat : EscapedUpTo(s, n) \in Nat
         /\ EscapedUpTo(s, 0) = 0
         /\ \A n \in 1 .. Len(s) : EscapedUpTo(s, n) = EscapedUpTo(s, n - 1) + Len(Escape(s[n]))
         /\ Escaped(s) = EscapedUpTo(s, Len(s))
<1> DEFINE E(n) == { i \in 1 .. n : NeedsEscape(s[i]) }
<1>1. \A n \in Nat : IsFiniteSet(E(n)) /\ Cardinality(E(n)) \in Nat
  <2> TAKE n \in Nat
  <2>1. IsFiniteSet(1 .. n)
    BY FS_Interval
  <2>2. IsFiniteSet(E(n))
    BY <2>1, FS_Subset
  <2> QED BY <2>2, FS_CardinalityType
<1>2. Cardinality(E(0)) = 0
  <2>1. E(0) = {}
    OBVIOUS
  <2> QED BY <2>1, FS_EmptySet
<1>3. \A n \in 1 .. Len(s) :
        Cardinality(E(n)) = Cardinality(E(n - 1)) + (IF NeedsEscape(s[n]) THEN 1 ELSE 0)
  <2> TAKE n \in 1 .. Len(s)
  <2>1. n - 1 \in Nat /\ n \notin E(n - 1)
    OBVIOUS
  <2>2. CASE NeedsEscape(s[n])
    <3>1. E(n) = E(n - 1) \cup {n}
      BY <2>2
    <3> HIDE DEF E
    <3> QED BY <1>1, <2>1, <2>2, <3>1, FS_AddElement
  <2>3. CASE ~NeedsEscape(s[n])
    <3>1. E(n) = E(n - 1)
      BY <2>3
    <3> HIDE DEF E
    <3> QED BY <1>1, <2>1, <2>3, <3>1
  <2> QED BY <2>2, <2>3
<1>4. \A n \in 1 .. Len(s) : Len(Escape(s[n])) = IF NeedsEscape(s[n]) THEN 2 ELSE 1
  <2> TAKE n \in 1 .. Len(s)
  <2>1. s[n] \in Char
    OBVIOUS
  <2> QED BY <2>1, EscapeType
<1>5. E(Len(s)) = { i \in DOMAIN s : NeedsEscape(s[i]) }
  OBVIOUS
<1>6. \A n : EscapedUpTo(s, n) = n + Cardinality(E(n))
  BY DEF EscapedUpTo
<1>7. Escaped(s) = EscapedUpTo(s, Len(s))
  BY <1>5, <1>6 DEF Escaped
<1> HIDE DEF E
<1>8. \A n \in 1 .. Len(s) : EscapedUpTo(s, n) = EscapedUpTo(s, n - 1) + Len(Escape(s[n]))
  <2> TAKE n \in 1 .. Len(s)
  <2>1. n \in Nat /\ n - 1 \in Nat
    OBVIOUS
  <2>2. Cardinality(E(n)) \in Nat /\ Cardinality(E(n - 1)) \in Nat
    BY <1>1, <2>1
  <2>3. EscapedUpTo(s, n) = n + Cardinality(E(n)) /\ EscapedUpTo(s, n - 1) = (n - 1) + Cardinality(E(n - 1))
    BY <1>6
  <2> DEFINE d == Cardinality(E(n - 1))
  <2>4. CASE NeedsEscape(s[n])
    <3>1. EscapedUpTo(s, n) = n + (d + 1) /\ EscapedUpTo(s, n - 1) = (n - 1) + d
      BY <1>3, <2>3, <2>4
    <3>2. Len(Escape(s[n])) = 2 /\ d \in Nat
      BY <1>4, <2>2, <2>4
    <3> HIDE DEF d
    <3> QED BY <2>1, <3>1, <3>2
  <2>5. CASE ~NeedsEscape(s[n])
    <3>1. EscapedUpTo(s, n) = n + (d + 0) /\ EscapedUpTo(s, n - 1) = (n - 1) + d
      BY <1>3, <2>3, <2>5
    <3>2. Len(Escape(s[n])) = 1 /\ d \in Nat
      BY <1>4, <2>2, <2>5
    <3> HIDE DEF d
    <3> QED BY <2>1, <3>1, <3>2
  <2> QED BY <2>4, <2>5
<1>9. EscapedUpTo(s, 0) = 0
  BY <1>2, <1>6
<1>10. \A n \in Nat : EscapedUpTo(s, n) \in Nat
  <2> TAKE n \in Nat
  <2>1. Cardinality(E(n)) \in Nat /\ EscapedUpTo(s, n) = n + Cardinality(E(n))
    BY <1>1, <1>6
  <2> QED BY <2>1
<1> QED BY <1>7, <1>8, <1>9, <1>10

\* Either every character is written, or the end is within two of the last byte
\* and there was no room for all.
LEMMA EscapeAppendIs ==
  ASSUME NEW base \in Seq(Char), NEW max \in Nat, NEW s \in Seq(Char)
  PROVE  LET e == EscapeAppend(base, max, s) IN
         /\ e \in Seq(Char)
         /\ \/ /\ \E p : Escapes(p, base, s) /\ e = p[Len(s)]
               /\ Len(e) = Len(base) + Escaped(s)
            \/ Len(e) + 3 > max /\ Len(base) + Escaped(s) + 1 > max
<1>0. PICK w \in WriteRuns(base, max, s) : TRUE
  BY EscapeAppendRuns
<1>1. /\ w \in [0 .. Len(s) -> Writing]
      /\ w[0] = [out |-> base, stopped |-> FALSE]
      /\ \A i \in 1 .. Len(s) : w[i] = WriteNext(w[i - 1], s[i], max)
      /\ EscapeAppend(base, max, s) = w[Len(s)].out
  BY DEF WriteRuns
<1> DEFINE
     Going(n) == /\ Len(w[n].out) = Len(base) + EscapedUpTo(s, n)
                 /\ \A i \in 1 .. n : w[i].out = w[i - 1].out \o Escape(s[i])
     Stuck(n) == Len(w[n].out) + 3 > max /\ Len(base) + EscapedUpTo(s, n) + 1 > max
     Inv(n) == IF w[n].stopped THEN Stuck(n) ELSE Going(n)
     S == { n \in Nat : n \leq Len(s) => Inv(n) }
<1>2. Len(s) \in Nat /\ Len(base) \in Nat /\ \A i \in 0 .. Len(s) : w[i] \in Writing
  <2>1. Len(s) \in Nat /\ Len(base) \in Nat
    OBVIOUS
  <2>2. w \in [0 .. Len(s) -> Writing]
    BY <1>1
  <2> QED BY <2>1, <2>2
<1>3. Inv(0)
  <2>1. ~w[0].stopped /\ w[0].out = base
    BY <1>1
  <2>2. Len(w[0].out) = Len(base) + EscapedUpTo(s, 0)
    <3>1. EscapedUpTo(s, 0) = 0
      BY EscapedSteps
    <3> QED BY <1>2, <2>1, <3>1
  <2>3. \A i \in 1 .. 0 : w[i].out = w[i - 1].out \o Escape(s[i])
    OBVIOUS
  <2> QED BY <2>1, <2>2, <2>3
<1>4. ASSUME NEW n \in Nat, n + 1 \leq Len(s), Inv(n)
      PROVE  Inv(n + 1)
  <2>1. n + 1 \in 1 .. Len(s) /\ (n + 1) - 1 = n /\ n \in 0 .. Len(s)
    BY <1>2, <1>4
  <2>2. w[n] \in Writing /\ w[n + 1] = WriteNext(w[n], s[n + 1], max) /\ s[n + 1] \in Char
    BY <1>1, <1>2, <2>1
  <2>3. /\ EscapedUpTo(s, n + 1) = EscapedUpTo(s, n) + Len(Escape(s[n + 1]))
        /\ EscapedUpTo(s, n) \in Nat
    BY <2>1, EscapedSteps
  <2>4. /\ Escape(s[n + 1]) \in Seq(Char) /\ (Len(Escape(s[n + 1])) = 1 \/ Len(Escape(s[n + 1])) = 2)
        /\ w[n].out \in Seq(Char) /\ Len(w[n].out) \in Nat /\ w[n].stopped \in BOOLEAN
    BY <2>2, EscapeType DEF Writing
  <2>5. CASE w[n].stopped
    <3>1. w[n + 1].out = w[n].out /\ w[n + 1].stopped
      BY <2>2, <2>5 DEF WriteNext, Writing
    <3> QED BY <1>2, <1>4, <2>3, <2>4, <2>5, <3>1
  <2>6. CASE ~w[n].stopped /\ Len(w[n].out) + Len(Escape(s[n + 1])) \leq max - 1
    <3>1. w[n + 1].out = w[n].out \o Escape(s[n + 1]) /\ ~w[n + 1].stopped
      BY <2>2, <2>6 DEF WriteNext, Writing
    <3>2. Len(w[n + 1].out) = Len(w[n].out) + Len(Escape(s[n + 1]))
      BY <2>4, <3>1, ConcatProperties
    <3>3. Len(w[n + 1].out) = Len(base) + EscapedUpTo(s, n + 1)
      <4>1. Len(w[n].out) = Len(base) + EscapedUpTo(s, n)
        BY <1>4, <2>6
      <4>2. Len(Escape(s[n + 1])) \in Nat
        BY <2>4
      <4> QED BY <1>2, <2>3, <3>2, <4>1, <4>2
    <3>4. \A i \in 1 .. n + 1 : i \in 1 .. n \/ i = n + 1
      OBVIOUS
    <3>5. \A i \in 1 .. n + 1 : w[i].out = w[i - 1].out \o Escape(s[i])
      BY <1>4, <2>1, <2>6, <3>1, <3>4
    <3> QED BY <3>1, <3>3, <3>5
  <2>7. CASE ~w[n].stopped /\ ~(Len(w[n].out) + Len(Escape(s[n + 1])) \leq max - 1)
    <3>1. w[n + 1].out = w[n].out /\ w[n + 1].stopped
      BY <2>2, <2>7 DEF WriteNext, Writing
    <3>2. Len(w[n].out) = Len(base) + EscapedUpTo(s, n)
      BY <1>4, <2>7
    <3> DEFINE m == EscapedUpTo(s, n)  l == Len(Escape(s[n + 1]))  o == Len(w[n].out)  b == Len(base)
    <3>3. /\ b \in Nat /\ m \in Nat /\ l \in Nat /\ o \in Nat /\ l \leq 2
          /\ o = b + m /\ ~(o + l \leq max - 1)
          /\ EscapedUpTo(s, n + 1) = m + l
      <4>1. l \in Nat /\ l \leq 2
        <5>1. l = 1 \/ l = 2
          BY <2>4
        <5> HIDE DEF l
        <5> QED BY <5>1
      <4>2. b \in Nat /\ m \in Nat /\ o \in Nat /\ o = b + m
        BY <1>2, <2>3, <2>4, <3>2
      <4> QED BY <2>3, <2>7, <4>1, <4>2
    <3>4. Len(w[n].out) + 3 > max /\ Len(base) + EscapedUpTo(s, n + 1) + 1 > max
      <4> HIDE DEF m, l
      <4>1. o + 3 > max /\ b + (m + l) + 1 > max
        <5> HIDE DEF o, b
        <5> QED BY <3>3
      <4> QED BY <3>3, <4>1
    <3> QED BY <3>1, <3>4
  <2> QED BY <2>5, <2>6, <2>7
<1>5. Inv(Len(s))
  <2>1. 0 \in S /\ \A n \in Nat : n \in S => n + 1 \in S
    <3> HIDE DEF Inv
    <3>1. \A n \in Nat : n + 1 \leq Len(s) => n \leq Len(s)
      BY <1>2
    <3> QED BY <1>2, <1>3, <1>4, <3>1
  <2>2. \A n \in Nat : n \in S
    <3> HIDE DEF S
    <3> QED BY <2>1, SetInduction
  <2>3. \A n \in Nat : n \leq Len(s) => Inv(n)
    <3> HIDE DEF Inv
    <3> QED BY <2>2
  <2> HIDE DEF Inv
  <2> QED BY <1>2, <2>3
<1>6. w[Len(s)] \in Writing /\ w[Len(s)].out \in Seq(Char)
  BY <1>2 DEF Writing
<1>7. Escaped(s) = EscapedUpTo(s, Len(s))
  BY EscapedSteps
<1>8. CASE w[Len(s)].stopped
  BY <1>1, <1>5, <1>6, <1>7, <1>8
<1>9. CASE ~w[Len(s)].stopped
  <2> DEFINE p == [i \in 0 .. Len(s) |-> w[i].out]
  <2>1. p \in [0 .. Len(s) -> Seq(Char)] /\ p[0] = base
    BY <1>1, <1>2 DEF Writing
  <2>2. Escapes(p, base, s)
    <3>1. \A i \in 1 .. Len(s) : w[i].out = w[i - 1].out \o Escape(s[i])
      BY <1>5, <1>9
    <3>2. \A i \in 1 .. Len(s) : i \in 0 .. Len(s) /\ i - 1 \in 0 .. Len(s)
      BY <1>2
    <3>3. \A i \in 1 .. Len(s) : p[i] = p[i - 1] \o Escape(s[i])
      BY <3>1, <3>2
    <3> HIDE DEF p
    <3> QED BY <2>1, <3>3 DEF Escapes
  <2>3. p[Len(s)] = EscapeAppend(base, max, s)
    BY <1>1, <1>2
  <2> HIDE DEF p
  <2>4. Len(w[Len(s)].out) = Len(base) + Escaped(s)
    BY <1>5, <1>7, <1>9
  <2> QED BY <1>1, <1>6, <2>2, <2>3, <2>4
<1> QED BY <1>8, <1>9

-----------------------------------------------------------------------------
(* A text of escaped characters: it grows, and its colons are escaped.     *)

\* w starts with a.
Starts(a, w) ==
  Len(a) \leq Len(w) /\ \A q \in 1 .. Len(a) : w[q] = a[q]

LEMMA StartsWithConcat ==
  ASSUME NEW a \in Seq(Char), NEW b \in Seq(Char)
  PROVE  /\ a \o b \in Seq(Char) /\ Len(a \o b) = Len(a) + Len(b)
         /\ Starts(a, a \o b)
         /\ \A q \in 1 .. Len(b) : (a \o b)[Len(a) + q] = b[q]
<1>1. /\ a \o b \in Seq(Char) /\ Len(a \o b) = Len(a) + Len(b)
      /\ \A i \in 1 .. Len(a) + Len(b) : (a \o b)[i] = IF i <= Len(a) THEN a[i] ELSE b[i - Len(a)]
  BY ConcatProperties
<1>2. Len(a) \in Nat /\ Len(b) \in Nat
  OBVIOUS
<1>3. \A q \in 1 .. Len(b) : (a \o b)[Len(a) + q] = b[q]
  <2> TAKE q \in 1 .. Len(b)
  <2>1. Len(a) + q \in 1 .. Len(a) + Len(b) /\ ~(Len(a) + q <= Len(a)) /\ (Len(a) + q) - Len(a) = q
    BY <1>2
  <2> QED BY <1>1, <2>1
<1>4. \A q \in 1 .. Len(a) : q \in 1 .. Len(a) + Len(b) /\ q <= Len(a)
  BY <1>2
<1>5. Starts(a, a \o b)
  BY <1>1, <1>2, <1>4 DEF Starts
<1> QED BY <1>1, <1>3, <1>5

LEMMA StartsTransitive ==
  ASSUME NEW a \in Seq(Char), NEW b \in Seq(Char), NEW c \in Seq(Char), Starts(a, b), Starts(b, c)
  PROVE  Starts(a, c)
<1>1. \A q \in 1 .. Len(a) : q \in 1 .. Len(b)
  BY DEF Starts
<1>2. Len(a) \in Nat /\ Len(b) \in Nat /\ Len(c) \in Nat
  OBVIOUS
<1> QED BY <1>1, <1>2 DEF Starts

\* What was written stays, and a colon stands behind a backslash of its own.
LEMMA EscapesGrow ==
  ASSUME NEW base \in Seq(Char), NEW s \in Seq(Char), NEW p, Escapes(p, base, s)
  PROVE  \A n \in 0 .. Len(s) :
           /\ \A i \in 0 .. n : Starts(p[i], p[n])
           /\ \A q \in Len(base) + 1 .. Len(p[n]) :
                p[n][q] = ":" => q - 1 \in Len(base) + 1 .. Len(p[n]) /\ p[n][q - 1] = "\\"
<1> DEFINE
     Grown(n) == \A i \in 0 .. n : Starts(p[i], p[n])
     Colons(n) == \A q \in Len(base) + 1 .. Len(p[n]) :
                    p[n][q] = ":" => q - 1 \in Len(base) + 1 .. Len(p[n]) /\ p[n][q - 1] = "\\"
     S == { n \in Nat : n \leq Len(s) => Grown(n) /\ Colons(n) }
<1>1. Len(s) \in Nat /\ Len(base) \in Nat /\ \A i \in 0 .. Len(s) : p[i] \in Seq(Char) /\ Len(p[i]) \in Nat
  BY DEF Escapes
<1>2. Grown(0) /\ Colons(0)
  <2>1. p[0] = base
    BY DEF Escapes
  <2>2. \A i \in 0 .. 0 : i = 0
    OBVIOUS
  <2>3. Starts(base, base)
    BY <1>1 DEF Starts
  <2> QED BY <1>1, <2>1, <2>2, <2>3
<1>3. ASSUME NEW n \in Nat, n + 1 \leq Len(s), Grown(n), Colons(n)
      PROVE  Grown(n + 1) /\ Colons(n + 1)
  <2> DEFINE more == Escape(s[n + 1])
  <2>1. n + 1 \in 1 .. Len(s) /\ (n + 1) - 1 = n /\ n \in 0 .. Len(s) /\ n + 1 \in 0 .. Len(s)
    BY <1>1, <1>3
  <2>2. p[n + 1] = p[n] \o more /\ s[n + 1] \in Char /\ p[n] \in Seq(Char) /\ p[n + 1] \in Seq(Char)
    <3>1. \A i \in 1 .. Len(s) : p[i] = p[i - 1] \o Escape(s[i])
      BY DEF Escapes
    <3>2. p[n + 1] = p[(n + 1) - 1] \o more
      BY <2>1, <3>1
    <3>3. s[n + 1] \in Char
      BY <2>1
    <3> QED BY <1>1, <2>1, <3>2, <3>3
  <2>3. /\ more \in Seq(Char) /\ Len(more) \in Nat
        /\ \A q \in 1 .. Len(more) : more[q] = ":" => q = 2 /\ more[1] = "\\"
    BY <2>2, EscapeType
  <2> HIDE DEF more
  <2>4. /\ Len(p[n + 1]) = Len(p[n]) + Len(more) /\ Starts(p[n], p[n + 1])
        /\ \A q \in 1 .. Len(more) : p[n + 1][Len(p[n]) + q] = more[q]
    BY <2>2, <2>3, StartsWithConcat
  <2>5. Starts(p[n + 1], p[n + 1])
    BY <2>2 DEF Starts
  <2>6. Grown(n + 1)
    <3> TAKE i \in 0 .. n + 1
    <3>1. CASE i = n + 1
      BY <2>5, <3>1
    <3>2. CASE i \in 0 .. n
      <4>1. i \in 0 .. Len(s) /\ Starts(p[i], p[n])
        BY <1>1, <1>3, <2>1, <3>2
      <4>2. p[i] \in Seq(Char)
        BY <1>1, <4>1
      <4> QED BY <2>2, <2>4, <4>1, <4>2, StartsTransitive
    <3> QED BY <3>1, <3>2
  <2>7. Len(base) \leq Len(p[n])
    <3>1. Starts(p[0], p[n]) /\ p[0] = base
      BY <1>3 DEF Escapes
    <3> QED BY <3>1 DEF Starts
  <2>8. Colons(n + 1)
    <3> TAKE q \in Len(base) + 1 .. Len(p[n + 1])
    <3> HAVE p[n + 1][q] = ":"
    <3>1. Len(p[n]) \in Nat /\ q \in Nat /\ q \in 1 .. Len(p[n + 1])
      BY <1>1, <2>1, <2>4
    <3>2. CASE q \leq Len(p[n])
      <4>1. q \in 1 .. Len(p[n]) /\ q \in Len(base) + 1 .. Len(p[n])
        BY <1>1, <3>1, <3>2
      <4>2. p[n][q] = ":"
        BY <2>4, <4>1 DEF Starts
      <4>3. q - 1 \in Len(base) + 1 .. Len(p[n]) /\ p[n][q - 1] = "\\"
        BY <1>3, <4>1, <4>2
      <4>4. q - 1 \in 1 .. Len(p[n]) /\ q - 1 \in Len(base) + 1 .. Len(p[n + 1])
        BY <1>1, <2>3, <2>4, <3>1, <4>3
      <4> QED BY <2>4, <4>3, <4>4 DEF Starts
    <3>3. CASE q > Len(p[n])
      <4> DEFINE k == q - Len(p[n])
      <4>1. k \in 1 .. Len(more) /\ Len(p[n]) + k = q
        <5> DEFINE l == Len(more)  o == Len(p[n])
        <5>1. l \in Nat /\ o \in Nat /\ q \in Nat /\ q > o /\ q \leq o + l
          BY <2>3, <2>4, <3>1, <3>3
        <5>2. q - o \in 1 .. l /\ o + (q - o) = q
          <6> HIDE DEF l, o
          <6> QED BY <5>1
        <5> QED BY <5>2
      <4>2. k = 2 /\ more[1] = "\\"
        BY <2>3, <2>4, <4>1
      <4>3. q - 1 = Len(p[n]) + 1 /\ 1 \in 1 .. Len(more)
        BY <2>3, <3>1, <4>1, <4>2
      <4>4. p[n + 1][q - 1] = "\\"
        BY <2>4, <4>2, <4>3
      <4>5. q - 1 \in Len(base) + 1 .. Len(p[n + 1])
        BY <1>1, <2>7, <3>1, <4>3
      <4> QED BY <4>4, <4>5
    <3> QED BY <3>1, <3>2, <3>3
  <2> QED BY <2>6, <2>8
<1>4. \A n \in Nat : n \leq Len(s) => Grown(n) /\ Colons(n)
  <2> HIDE DEF Grown, Colons
  <2>1. \A n \in Nat : n + 1 \leq Len(s) => n \leq Len(s)
    BY <1>1
  <2>2. 0 \in S /\ \A n \in Nat : n \in S => n + 1 \in S
    BY <1>1, <1>2, <1>3, <2>1
  <2>3. \A n \in Nat : n \in S
    <3> HIDE DEF S
    <3> QED BY <2>2, SetInduction
  <2> QED BY <2>3
<1> QED BY <1>1, <1>4

-----------------------------------------------------------------------------
(* What wfr_extract_field reads back.                                      *)

\* Where the loop of wfr_extract_field stands: p, from 1, and out.
Reading == [at : Nat \ {0}, out : Seq(Char)]

ReadNext(r, s) ==
  IF r.at > Len(s) \/ s[r.at] = ";" THEN r
  ELSE IF s[r.at] = "\\" /\ r.at < Len(s)
       THEN [at |-> r.at + 2, out |-> Append(r.out, s[r.at + 1])]
       ELSE [at |-> r.at + 1, out |-> Append(r.out, s[r.at])]

\* The runs of that loop, and that Value is what one of them read.
ReadRuns(s, from, room) ==
  { r \in [0 .. room -> Reading] :
      /\ r[0] = [at |-> from, out |-> <<>>]
      /\ \A k \in 1 .. room : r[k] = ReadNext(r[k - 1], s)
      /\ Value(s, from, room) = r[room].out }

LEMMA ReadNextType ==
  ASSUME NEW s \in Seq(Char), NEW r \in Reading
  PROVE  ReadNext(r, s) \in Reading
<1>1. Len(s) \in Nat /\ r.at \in Nat \ {0} /\ r.out \in Seq(Char)
  BY DEF Reading
<1>2. CASE r.at > Len(s) \/ s[r.at] = ";"
  BY <1>2 DEF ReadNext
<1>3. CASE ~(r.at > Len(s) \/ s[r.at] = ";") /\ s[r.at] = "\\" /\ r.at < Len(s)
  <2>1. r.at + 1 \in 1 .. Len(s)
    BY <1>1, <1>3
  <2>2. s[r.at + 1] \in Char
    BY <2>1
  <2>3. Append(r.out, s[r.at + 1]) \in Seq(Char) /\ r.at + 2 \in Nat \ {0}
    BY <1>1, <2>2
  <2> QED BY <1>3, <2>3 DEF ReadNext, Reading
<1>4. CASE ~(r.at > Len(s) \/ s[r.at] = ";") /\ ~(s[r.at] = "\\" /\ r.at < Len(s))
  <2>0. ~(r.at > Len(s))
    BY <1>4
  <2>1. r.at \in 1 .. Len(s)
    BY <1>1, <2>0
  <2>2. s[r.at] \in Char
    BY <2>1
  <2>3. Append(r.out, s[r.at]) \in Seq(Char) /\ r.at + 1 \in Nat \ {0}
    BY <1>1, <2>2
  <2> QED BY <1>4, <2>3 DEF ReadNext, Reading
<1> QED BY <1>2, <1>3, <1>4

LEMMA ValueRuns ==
  ASSUME NEW s \in Seq(Char), NEW from \in Nat \ {0}, NEW room \in Nat
  PROVE  ReadRuns(s, from, room) # {}
<1> DEFINE start == [at |-> from, out |-> <<>>]
           round == [k \in 1 .. room |-> [r \in Reading |-> ReadNext(r, s)]]
           loop(f) == [k \in 0 .. room |-> IF k = 0 THEN start ELSE ReadNext(f[k - 1], s)]
           run == CHOOSE f : f = loop(f)
<1>1. start \in Reading
  BY DEF Reading
<1>2. round \in [1 .. room -> [Reading -> Reading]]
  BY ReadNextType
<1>3. PICK f \in Runs(room, Reading, start, round) : TRUE
  <2> HIDE DEF start, round
  <2> QED BY <1>1, <1>2, LoopRuns
<1>4. \A k \in 1 .. room : f[k] = ReadNext(f[k - 1], s)
  <2> TAKE k \in 1 .. room
  <2>1. f[k - 1] \in Reading
    <3> HIDE DEF start, round
    <3>1. f \in [0 .. room -> Reading]
      BY DEF Runs
    <3>2. k - 1 \in 0 .. room
      OBVIOUS
    <3> QED BY <3>1, <3>2
  <2>2. f[k] = round[k][f[k - 1]]
    BY DEF Runs
  <2> QED BY <2>1, <2>2
<1>5. f = loop(f)
  <2> HIDE DEF start
  <2>1. \A k \in 0 .. room : f[k] = loop(f)[k]
    BY <1>4 DEF Runs
  <2>2. f \in [0 .. room -> Reading]
    BY DEF Runs
  <2> QED BY <2>1, <2>2
<1>6. run = loop(run)
  <2> HIDE DEF loop
  <2> QED BY <1>5
<1>7. run[0] = start /\ \A k \in 1 .. room : run[k] = ReadNext(run[k - 1], s)
  <2> HIDE DEF run, start
  <2> QED BY <1>6
<1>8. \A n \in Nat : n \leq room => run[n] \in Reading
  <2> DEFINE S == { n \in Nat : n \leq room => run[n] \in Reading }
  <2> HIDE DEF run, start
  <2>1. \A n \in Nat : n + 1 \leq room => n + 1 \in 1 .. room /\ (n + 1) - 1 = n
    OBVIOUS
  <2>2. \A n \in Nat : n + 1 \leq room /\ run[n] \in Reading => run[n + 1] \in Reading
    BY <1>7, <2>1, ReadNextType
  <2>3. run[0] \in Reading
    BY <1>1, <1>7
  <2>4. 0 \in S /\ \A n \in Nat : n \in S => n + 1 \in S
    BY <2>2, <2>3
  <2>5. \A n \in Nat : n \in S
    <3> HIDE DEF S
    <3> QED BY <2>4, SetInduction
  <2> QED BY <2>5
<1>9. run \in [0 .. room -> Reading]
  <2>1. \A n \in 0 .. room : run[n] \in Reading
    <3> HIDE DEF run
    <3> QED BY <1>8
  <2> HIDE DEF run
  <2> QED BY <1>6, <2>1
<1>10. Value(s, from, room) = run[room].out
  BY DEF Value, ReadNext
<1> QED
  <2> HIDE DEF run
  <2> QED BY <1>7, <1>9, <1>10 DEF ReadRuns

\* w is t, a ';' and more.
Closed(t, w) == Starts(t, w) /\ Len(t) < Len(w) /\ w[Len(t) + 1] = ";"

\* Escaped text with an unescaped ';' behind it is read back as it was, if there
\* is room for it.
LEMMA ValueIs ==
  ASSUME NEW base \in Seq(Char), NEW s \in Seq(Char), NEW p, Escapes(p, base, s),
         NEW w \in Seq(Char), Closed(p[Len(s)], w), NEW room \in Nat, Len(s) \leq room
  PROVE  Value(w, Len(base) + 1, room) = s
<1>1. /\ Len(s) \in Nat /\ Len(base) \in Nat /\ Len(w) \in Nat
      /\ \A i \in 0 .. Len(s) : p[i] \in Seq(Char) /\ Len(p[i]) \in Nat
  BY DEF Escapes
<1>2. PICK r \in ReadRuns(w, Len(base) + 1, room) : TRUE
  <2>1. Len(base) + 1 \in Nat \ {0}
    BY <1>1
  <2> QED BY <2>1, ValueRuns
<1>3. /\ r \in [0 .. room -> Reading]
      /\ r[0] = [at |-> Len(base) + 1, out |-> <<>>]
      /\ \A k \in 1 .. room : r[k] = ReadNext(r[k - 1], w)
      /\ Value(w, Len(base) + 1, room) = r[room].out
  BY DEF ReadRuns
<1> DEFINE
     Read(k, n) == /\ r[k].at = Len(p[n]) + 1
                   /\ r[k].out \in Seq(Char) /\ Len(r[k].out) = n
                   /\ \A i \in 1 .. n : r[k].out[i] = s[i]
     S == { k \in Nat : k \leq Len(s) => Read(k, k) }
     T == { k \in Nat : Len(s) + k \leq room => Read(Len(s) + k, Len(s)) }
<1>4. Read(0, 0)
  BY <1>1, <1>3 DEF Escapes
<1>5. ASSUME NEW k \in Nat, k + 1 \leq Len(s), Read(k, k)
      PROVE  Read(k + 1, k + 1)
  <2> DEFINE c == s[k + 1]  at == r[k].at
  <2>1. /\ k + 1 \in 1 .. Len(s) /\ k + 1 \in 1 .. room /\ (k + 1) - 1 = k
        /\ k \in 0 .. Len(s) /\ k + 1 \in 0 .. Len(s)
    BY <1>1, <1>5
  <2>2. /\ r[k + 1] = ReadNext(r[k], w) /\ c \in Char
        /\ at = Len(p[k]) + 1 /\ Len(p[k]) \in Nat
    BY <1>1, <1>3, <1>5, <2>1
  <2>3. p[k + 1] = p[k] \o Escape(c)
    <3>1. \A i \in 1 .. Len(s) : p[i] = p[i - 1] \o Escape(s[i])
      BY DEF Escapes
    <3>2. p[k + 1] = p[(k + 1) - 1] \o Escape(c)
      BY <2>1, <3>1
    <3> QED BY <2>1, <3>2
  <2>4. /\ Len(p[k + 1]) = Len(p[k]) + Len(Escape(c))
        /\ \A q \in 1 .. Len(Escape(c)) : p[k + 1][Len(p[k]) + q] = Escape(c)[q]
    <3>1. p[k] \in Seq(Char) /\ Escape(c) \in Seq(Char)
      BY <1>1, <2>1, <2>2, EscapeType
    <3>2. /\ Len(p[k] \o Escape(c)) = Len(p[k]) + Len(Escape(c))
          /\ \A q \in 1 .. Len(Escape(c)) : (p[k] \o Escape(c))[Len(p[k]) + q] = Escape(c)[q]
      <4> HIDE DEF c
      <4> QED BY <3>1, StartsWithConcat
    <3> QED BY <2>3, <3>2
  <2>5. Len(p[k + 1]) < Len(w) /\ \A q \in 1 .. Len(p[k + 1]) : w[q] = p[k + 1][q]
    <3>1. Starts(p[k + 1], p[Len(s)])
      BY <1>1, <2>1, EscapesGrow
    <3>2. Starts(p[k + 1], w)
      <4>1. p[k + 1] \in Seq(Char) /\ p[Len(s)] \in Seq(Char)
        BY <1>1, <2>1
      <4>2. Starts(p[Len(s)], w)
        BY DEF Closed
      <4> QED BY <3>1, <4>1, <4>2, StartsTransitive
    <3>3. Len(p[k + 1]) \in Nat /\ Len(p[Len(s)]) \in Nat
      BY <1>1, <2>1
    <3>4. Len(p[k + 1]) \leq Len(p[Len(s)]) /\ Len(p[Len(s)]) < Len(w)
      BY <3>1 DEF Starts, Closed
    <3>5. \A q \in 1 .. Len(p[k + 1]) : w[q] = p[k + 1][q]
      BY <3>2 DEF Starts
    <3>6. Len(p[k + 1]) < Len(w)
      BY <1>1, <3>3, <3>4
    <3> QED BY <3>5, <3>6
  <2>6. r[k + 1] = [at |-> Len(p[k + 1]) + 1, out |-> Append(r[k].out, c)]
    <3>1. CASE NeedsEscape(c)
      <4>1. Escape(c) = <<"\\", c>> /\ Len(Escape(c)) = 2
        BY <3>1 DEF Escape
      <4>2. Escape(c)[1] = "\\" /\ Escape(c)[2] = c
        BY <4>1
      <4>3. Len(p[k + 1]) = at + 1 /\ at \in 1 .. Len(p[k + 1]) /\ at + 1 \in 1 .. Len(p[k + 1])
        BY <2>2, <2>4, <4>1
      <4>4. at = Len(p[k]) + 1 /\ at + 1 = Len(p[k]) + 2 /\ 1 \in 1 .. Len(Escape(c)) /\ 2 \in 1 .. Len(Escape(c))
        BY <2>2, <4>1
      <4>5. w[at] = "\\" /\ w[at + 1] = c
        BY <2>4, <2>5, <4>2, <4>3, <4>4
      <4>6. at < Len(w) /\ ~(at > Len(w))
        BY <1>1, <2>2, <2>5, <4>3
      <4>7. "\\" # ";" /\ at + 2 = Len(p[k + 1]) + 1
        BY <2>2, <4>3
      <4> HIDE DEF c
      <4> QED BY <2>2, <4>5, <4>6, <4>7 DEF ReadNext
    <3>2. CASE ~NeedsEscape(c)
      <4>1. Escape(c) = <<c>> /\ Len(Escape(c)) = 1 /\ c # ";" /\ c # "\\"
        BY <3>2 DEF Escape, NeedsEscape
      <4>2. Escape(c)[1] = c
        <5>1. <<c>>[1] = c
          OBVIOUS
        <5> QED BY <4>1, <5>1
      <4>3. Len(p[k + 1]) = at /\ at \in 1 .. Len(p[k + 1]) /\ 1 \in 1 .. Len(Escape(c))
        <5>1. Len(p[k + 1]) = Len(p[k]) + 1
          BY <2>4, <4>1
        <5>2. Len(p[k + 1]) = at
          BY <2>2, <5>1
        <5>3. at \in Nat /\ at \geq 1
          BY <2>2
        <5>4. at \in 1 .. Len(p[k + 1])
          BY <5>2, <5>3
        <5>5. 1 \in 1 .. Len(Escape(c))
          <6>1. Len(Escape(c)) = 1
            BY <4>1
          <6> QED BY <6>1
        <5> QED BY <5>2, <5>4, <5>5
      <4>4. w[at] = c
        BY <2>2, <2>4, <2>5, <4>2, <4>3
      <4>5. ~(at > Len(w))
        BY <1>1, <2>2, <2>5, <4>3
      <4> HIDE DEF c
      <4> QED BY <2>2, <4>1, <4>3, <4>4, <4>5 DEF ReadNext
    <3> QED BY <3>1, <3>2
  <2>7. r[k + 1].out = Append(r[k].out, c) /\ r[k + 1].at = Len(p[k + 1]) + 1
    BY <2>6
  <2>8. r[k].out \in Seq(Char) /\ Len(r[k].out) = k /\ \A i \in 1 .. k : r[k].out[i] = s[i]
    BY <1>5
  <2>9. \A i \in 1 .. k + 1 : i \in 1 .. k \/ i = k + 1
    OBVIOUS
  <2>10. Append(r[k].out, c) \in Seq(Char) /\ Len(Append(r[k].out, c)) = k + 1
    BY <2>2, <2>8
  <2>11. \A i \in 1 .. k + 1 : Append(r[k].out, c)[i] = s[i]
    BY <2>2, <2>8, <2>9
  <2> QED BY <2>7, <2>10, <2>11
<1>6. \A k \in Nat : k \leq Len(s) => Read(k, k)
  <2> HIDE DEF Read
  <2>1. \A k \in Nat : k + 1 \leq Len(s) => k \leq Len(s)
    BY <1>1
  <2>2. 0 \in S /\ \A k \in Nat : k \in S => k + 1 \in S
    BY <1>4, <1>5, <2>1
  <2>3. \A k \in Nat : k \in S
    <3> HIDE DEF S
    <3> QED BY <2>2, SetInduction
  <2> QED BY <2>3
<1>7. ASSUME NEW k \in Nat, Len(s) + (k + 1) \leq room, Read(Len(s) + k, Len(s))
      PROVE  Read(Len(s) + (k + 1), Len(s))
  <2> DEFINE m == Len(s) + k
  <2>1. m \in Nat /\ m + 1 \in 1 .. room /\ (m + 1) - 1 = m /\ Len(s) + (k + 1) = m + 1
    BY <1>1, <1>7
  <2>2. r[m + 1] = ReadNext(r[m], w)
    BY <1>3, <2>1
  <2>3. w[r[m].at] = ";"
    BY <1>7 DEF Closed
  <2>4. r[m + 1] = r[m]
    BY <2>2, <2>3 DEF ReadNext
  <2> QED BY <1>7, <2>1, <2>4
<1>8. \A k \in Nat : Len(s) + k \leq room => Read(Len(s) + k, Len(s))
  <2> HIDE DEF Read
  <2>1. \A k \in Nat : Len(s) + (k + 1) \leq room => Len(s) + k \leq room
    BY <1>1
  <2>2. Read(Len(s) + 0, Len(s))
    <3>1. Len(s) + 0 = Len(s) /\ Read(Len(s), Len(s))
      BY <1>1, <1>6
    <3> QED BY <3>1
  <2>3. 0 \in T /\ \A k \in Nat : k \in T => k + 1 \in T
    BY <1>7, <2>1, <2>2
  <2>4. \A k \in Nat : k \in T
    <3> HIDE DEF T
    <3> QED BY <2>3, SetInduction
  <2> QED BY <2>4
<1>9. Read(room, Len(s))
  <2> HIDE DEF Read
  <2>1. PICK d \in Nat : Len(s) + d = room
    <3>1. room - Len(s) \in Nat /\ Len(s) + (room - Len(s)) = room
      BY <1>1
    <3> QED BY <3>1
  <2>2. Read(Len(s) + d, Len(s))
    <3>1. Len(s) + d \leq room
      BY <2>1
    <3> QED BY <1>8, <3>1
  <2> QED BY <2>1, <2>2
<1>10. r[room].out = s
  BY <1>9, SeqEqual
<1> QED BY <1>3, <1>10

-----------------------------------------------------------------------------
(* The fixed parts of a WiFi string.                                       *)

LEMMA CredsType ==
  ASSUME NEW c \in Creds
  PROVE  /\ c.ssid \in Seq(Char) /\ Len(c.ssid) \leq SsidMax
         /\ c.password \in Seq(Char) /\ Len(c.password) \leq PassMax
         /\ c.security \in Securities /\ c.hidden \in BOOLEAN
         /\ c = [ssid |-> c.ssid, password |-> c.password, security |-> c.security, hidden |-> c.hidden]
<1>1. ASSUME NEW n \in Nat, NEW s \in BoundedSeq(Alphabet, n)
      PROVE  s \in Seq(Char) /\ Len(s) \leq n
  <2>1. PICK m \in 0 .. n : s \in [1 .. m -> Alphabet]
    BY DEF BoundedSeq, SeqOf
  <2>2. s \in Seq(Alphabet) /\ Len(s) = m
    BY <2>1
  <2>3. Alphabet \subseteq Char
    BY DEF Char
  <2>4. s \in Seq(Char)
    BY <2>2, <2>3, SeqMonotonic
  <2> QED BY <2>2, <2>4
<1>2. c.ssid \in BoundedSeq(Alphabet, SsidMax) /\ c.password \in BoundedSeq(Alphabet, PassMax)
  BY DEF Creds
<1>3. SsidMax \in Nat /\ PassMax \in Nat
  BY WifiAssumption
<1>4. /\ c.ssid \in Seq(Char) /\ Len(c.ssid) \leq SsidMax
      /\ c.password \in Seq(Char) /\ Len(c.password) \leq PassMax
  BY <1>1, <1>2, <1>3
<1>5. /\ c.security \in Securities /\ c.hidden \in BOOLEAN
      /\ c = [ssid |-> c.ssid, password |-> c.password, security |-> c.security, hidden |-> c.hidden]
  BY DEF Creds
<1> QED BY <1>4, <1>5

\* A text in which nothing has to be escaped.
Plain(s) == s \in Seq(Char) /\ \A i \in 1 .. Len(s) : ~NeedsEscape(s[i])

\* The letters of type and hidden names.
Letter == {"W", "P", "A", "E", "S", "n", "o", "p", "a", "s", "t", "r", "u", "e", "f", "l"}

LEMMA LettersArePlain ==
  ASSUME NEW s \in Seq(Letter)
  PROVE  Plain(s)
<1>1. Letter \subseteq Char /\ \A c \in Letter : ~NeedsEscape(c)
  BY DEF Letter, Char, NeedsEscape
<1>2. s \in Seq(Char)
  BY <1>1, SeqMonotonic
<1>3. \A i \in 1 .. Len(s) : s[i] \in Letter
  BY ElementOfSeq
<1> QED BY <1>1, <1>2, <1>3 DEF Plain

LEMMA TypeNameIs ==
  ASSUME NEW security \in Securities
  PROVE  /\ Plain(TypeName(security)) /\ Len(TypeName(security)) \in 3 .. 6
         /\ Security(TypeName(security)) = security
<1>1. /\ TypeName("WPA") = <<"W", "P", "A">> /\ TypeName("WEP") = <<"W", "E", "P">>
      /\ TypeName("SAE") = <<"S", "A", "E">> /\ TypeName("OPEN") = <<"n", "o", "p", "a", "s", "s">>
  BY DEF TypeName
<1>6. Plain(TypeName("WPA")) /\ Len(TypeName("WPA")) = 3
  <2>1. "W" \in Letter /\ "P" \in Letter /\ "A" \in Letter
    BY DEF Letter
  <2>2. <<"W", "P", "A">> \in Seq(Letter) /\ Len(<<"W", "P", "A">>) = 3
    BY <2>1
  <2> QED BY <1>1, <2>2, LettersArePlain
<1>7. Plain(TypeName("WEP")) /\ Len(TypeName("WEP")) = 3
  <2>1. "W" \in Letter /\ "E" \in Letter /\ "P" \in Letter
    BY DEF Letter
  <2>2. <<"W", "E", "P">> \in Seq(Letter) /\ Len(<<"W", "E", "P">>) = 3
    BY <2>1
  <2> QED BY <1>1, <2>2, LettersArePlain
<1>8. Plain(TypeName("SAE")) /\ Len(TypeName("SAE")) = 3
  <2>1. "S" \in Letter /\ "A" \in Letter /\ "E" \in Letter
    BY DEF Letter
  <2>2. <<"S", "A", "E">> \in Seq(Letter) /\ Len(<<"S", "A", "E">>) = 3
    BY <2>1
  <2> QED BY <1>1, <2>2, LettersArePlain
<1>9. Plain(TypeName("OPEN")) /\ Len(TypeName("OPEN")) = 6
  <2>1. "n" \in Letter /\ "o" \in Letter /\ "p" \in Letter /\ "a" \in Letter /\ "s" \in Letter
    BY DEF Letter
  <2>2. <<"n", "o", "p", "a", "s", "s">> \in Seq(Letter) /\ Len(<<"n", "o", "p", "a", "s", "s">>) = 6
    BY <2>1
  <2> QED BY <1>1, <2>2, LettersArePlain
<1>10. \A a, b \in Securities : TypeName(a) = TypeName(b) => a = b
  <2>1. TypeName("WPA")[1] = "W" /\ TypeName("WEP")[1] = "W" /\ TypeName("SAE")[1] = "S" /\ TypeName("OPEN")[1] = "n"
    BY <1>1
  <2>2. TypeName("WPA")[2] = "P" /\ TypeName("WEP")[2] = "E"
    BY <1>1
  <2> QED BY <2>1, <2>2 DEF Securities
<1>11. Security(TypeName(security)) = security
  BY <1>10 DEF Security, Securities
<1> QED BY <1>6, <1>7, <1>8, <1>9, <1>11 DEF Securities

LEMMA HiddenNameIs ==
  ASSUME NEW hidden \in BOOLEAN
  PROVE  /\ Plain(HiddenName(hidden)) /\ Len(HiddenName(hidden)) \in 4 .. 5
         /\ HiddenName(hidden) = HiddenName(TRUE) <=> hidden = TRUE
<1>1. HiddenName(TRUE) = <<"t", "r", "u", "e">> /\ HiddenName(FALSE) = <<"f", "a", "l", "s", "e">>
  BY DEF HiddenName
<1>6. Plain(HiddenName(TRUE)) /\ Len(HiddenName(TRUE)) = 4
  <2>1. "t" \in Letter /\ "r" \in Letter /\ "u" \in Letter /\ "e" \in Letter
    BY DEF Letter
  <2>2. <<"t", "r", "u", "e">> \in Seq(Letter) /\ Len(<<"t", "r", "u", "e">>) = 4
    BY <2>1
  <2> QED BY <1>1, <2>2, LettersArePlain
<1>7. Plain(HiddenName(FALSE)) /\ Len(HiddenName(FALSE)) = 5
  <2>1. "f" \in Letter /\ "a" \in Letter /\ "l" \in Letter /\ "s" \in Letter /\ "e" \in Letter
    BY DEF Letter
  <2>2. <<"f", "a", "l", "s", "e">> \in Seq(Letter) /\ Len(<<"f", "a", "l", "s", "e">>) = 5
    BY <2>1
  <2> QED BY <1>1, <2>2, LettersArePlain
<1>8. HiddenName(FALSE) # HiddenName(TRUE)
  <2>1. 4 # 5
    OBVIOUS
  <2> QED BY <1>6, <1>7, <2>1, Zenon
<1>9. Len(HiddenName(TRUE)) \in 4 .. 5 /\ Len(HiddenName(FALSE)) \in 4 .. 5
  <2>1. 4 \in 4 .. 5 /\ 5 \in 4 .. 5
    OBVIOUS
  <2> QED BY <1>6, <1>7, <2>1, Zenon
<1>10. hidden = TRUE \/ hidden = FALSE
  OBVIOUS
<1> QED BY <1>6, <1>7, <1>8, <1>9, <1>10, Zenon

\* A plain text is its own escaped form.
LEMMA PlainEscapes ==
  ASSUME NEW base \in Seq(Char), NEW s, Plain(s)
  PROVE  \E p : Escapes(p, base, s) /\ p[Len(s)] = base \o s
<1> DEFINE part(i) == SubSeq(s, 1, i)
           p == [i \in 0 .. Len(s) |-> base \o part(i)]
<1>1. s \in Seq(Char) /\ Len(s) \in Nat
  BY DEF Plain
<1>2. \A i \in 0 .. Len(s) : part(i) \in Seq(Char)
  BY <1>1
<1>3. p \in [0 .. Len(s) -> Seq(Char)]
  <2>1. \A i \in 0 .. Len(s) : base \o part(i) \in Seq(Char)
    <3> HIDE DEF part
    <3> QED BY <1>2, ConcatProperties
  <2> QED BY <2>1
<1>4. part(0) = <<>> /\ part(Len(s)) = s
  BY <1>1, SubSeqEmpty, SubSeqFull
<1>5. p[0] = base /\ p[Len(s)] = base \o s
  <2> HIDE DEF part
  <2> QED BY <1>1, <1>4, ConcatEmptySeq
<1>6. \A i \in 1 .. Len(s) : p[i] = p[i - 1] \o Escape(s[i])
  <2> TAKE i \in 1 .. Len(s)
  <2>1. part(i) = part(i - 1) \o <<s[i]>>
    <3>1. 1 \in 1 .. Len(s) /\ i \in 1 .. Len(s)
      BY <1>1
    <3> QED BY <1>1, <3>1, SubSeqRecursiveSecond
  <2>2. Escape(s[i]) = <<s[i]>> /\ <<s[i]>> \in Seq(Char)
    BY DEF Plain, Escape
  <2>3. i \in 0 .. Len(s) /\ i - 1 \in 0 .. Len(s)
    BY <1>1
  <2>4. part(i - 1) \in Seq(Char)
    BY <1>2, <2>3
  <2> HIDE DEF part
  <2>5. base \o part(i) = (base \o part(i - 1)) \o <<s[i]>>
    BY <2>1, <2>2, <2>4, ConcatAssociative
  <2> QED BY <2>2, <2>3, <2>5
<1>7. Escapes(p, base, s)
  <2> HIDE DEF p
  <2> QED BY <1>3, <1>5, <1>6 DEF Escapes
<1> QED
  <2> HIDE DEF p
  <2> QED BY <1>5, <1>7

-----------------------------------------------------------------------------
(* What wfr_build_wifi_string builds, and when.                            *)

SsidKey == <<";", "S", ":">>
PassKey == <<";", "P", ":">>
HiddenKey == <<";", "H", ":">>
Close == <<";", ";">>

HeadOf(c) == Prefix \o TypeName(c.security) \o SsidKey

\* What all of it takes, without the NUL.
FullLength(c) ==
  13 + Len(TypeName(c.security)) + Escaped(c.ssid) + Escaped(c.password) + Len(HiddenName(c.hidden)) + 5

LEMMA FixedParts ==
  /\ Prefix \in Seq(Char) /\ Len(Prefix) = 7
  /\ SsidKey \in Seq(Char) /\ Len(SsidKey) = 3
  /\ PassKey \in Seq(Char) /\ Len(PassKey) = 3
  /\ HiddenKey \in Seq(Char) /\ Len(HiddenKey) = 3
  /\ Close \in Seq(Char) /\ Len(Close) = 2
<1>1. {"W", "I", "F", ":", "T", ";", "S", "P", "H"} \subseteq Char
  BY DEF Char
<1>2. \A a, b, d, e, f, g, h \in Char :
        <<a, b, d, e, f, g, h>> \in Seq(Char) /\ Len(<<a, b, d, e, f, g, h>>) = 7
  OBVIOUS
<1>3. \A a, b, d \in Char : <<a, b, d>> \in Seq(Char) /\ Len(<<a, b, d>>) = 3
  OBVIOUS
<1>4. \A a, b \in Char : <<a, b>> \in Seq(Char) /\ Len(<<a, b>>) = 2
  OBVIOUS
<1>5. /\ "W" \in Char /\ "I" \in Char /\ "F" \in Char /\ ":" \in Char /\ "T" \in Char
      /\ ";" \in Char /\ "S" \in Char /\ "P" \in Char /\ "H" \in Char
  BY <1>1
<1>6. Prefix \in Seq(Char) /\ Len(Prefix) = 7
  BY <1>2, <1>5, Zenon DEF Prefix
<1>7. SsidKey \in Seq(Char) /\ Len(SsidKey) = 3
  BY <1>3, <1>5, Zenon DEF SsidKey
<1>8. PassKey \in Seq(Char) /\ Len(PassKey) = 3
  BY <1>3, <1>5, Zenon DEF PassKey
<1>9. HiddenKey \in Seq(Char) /\ Len(HiddenKey) = 3
  BY <1>3, <1>5, Zenon DEF HiddenKey
<1>10. Close \in Seq(Char) /\ Len(Close) = 2
  BY <1>4, <1>5, Zenon DEF Close
<1> QED BY <1>6, <1>7, <1>8, <1>9, <1>10

LEMMA HeadType ==
  ASSUME NEW c \in Creds
  PROVE  /\ HeadOf(c) \in Seq(Char) /\ Len(HeadOf(c)) = 10 + Len(TypeName(c.security))
         /\ Ending(c.hidden) \in Seq(Char) /\ Len(Ending(c.hidden)) = 5 + Len(HiddenName(c.hidden))
<1> DEFINE tn == TypeName(c.security)  hn == HiddenName(c.hidden)
<1>1. tn \in Seq(Char) /\ hn \in Seq(Char) /\ Len(tn) \in Nat /\ Len(hn) \in Nat
  <2>1. c.security \in Securities /\ c.hidden \in BOOLEAN
    BY CredsType
  <2>2. tn \in Seq(Char) /\ hn \in Seq(Char)
    BY <2>1, TypeNameIs, HiddenNameIs DEF Plain
  <2> HIDE DEF tn, hn
  <2> QED BY <2>2
<1> HIDE DEF tn, hn
<1>2. Prefix \o tn \in Seq(Char) /\ Len(Prefix \o tn) = 7 + Len(tn)
  <2>1. Prefix \in Seq(Char) /\ tn \in Seq(Char)
    BY <1>1, FixedParts
  <2>2. Prefix \o tn \in Seq(Char) /\ Len(Prefix \o tn) = Len(Prefix) + Len(tn)
    BY <2>1, StartsWithConcat
  <2>3. Len(Prefix) = 7
    BY <1>1, FixedParts
  <2> QED BY <2>2, <2>3
<1>3. (Prefix \o tn) \o SsidKey \in Seq(Char) /\ Len((Prefix \o tn) \o SsidKey) = (7 + Len(tn)) + 3
  <2>1. (Prefix \o tn) \in Seq(Char) /\ SsidKey \in Seq(Char)
    BY <1>2, FixedParts
  <2>2. (Prefix \o tn) \o SsidKey \in Seq(Char) /\ Len((Prefix \o tn) \o SsidKey) = Len((Prefix \o tn)) + Len(SsidKey)
    BY <2>1, StartsWithConcat
  <2>3. Len(Prefix \o tn) = 7 + Len(tn) /\ Len(SsidKey) = 3
    BY <1>2, FixedParts
  <2> QED BY <2>2, <2>3
<1>4. HiddenKey \o hn \in Seq(Char) /\ Len(HiddenKey \o hn) = 3 + Len(hn)
  <2>1. HiddenKey \in Seq(Char) /\ hn \in Seq(Char)
    BY <1>1, FixedParts
  <2>2. HiddenKey \o hn \in Seq(Char) /\ Len(HiddenKey \o hn) = Len(HiddenKey) + Len(hn)
    BY <2>1, StartsWithConcat
  <2>3. Len(HiddenKey) = 3
    BY <1>1, FixedParts
  <2> QED BY <2>2, <2>3
<1>5. (HiddenKey \o hn) \o Close \in Seq(Char) /\ Len((HiddenKey \o hn) \o Close) = (3 + Len(hn)) + 2
  <2>1. (HiddenKey \o hn) \in Seq(Char) /\ Close \in Seq(Char)
    BY <1>4, FixedParts
  <2>2. (HiddenKey \o hn) \o Close \in Seq(Char) /\ Len((HiddenKey \o hn) \o Close) = Len((HiddenKey \o hn)) + Len(Close)
    BY <2>1, StartsWithConcat
  <2>3. Len(HiddenKey \o hn) = 3 + Len(hn) /\ Len(Close) = 2
    BY <1>4, FixedParts
  <2> QED BY <2>2, <2>3
<1>6. HeadOf(c) = (Prefix \o tn) \o SsidKey /\ Ending(c.hidden) = (HiddenKey \o hn) \o Close
  BY DEF HeadOf, Ending, HiddenKey, Close, tn, hn
<1>7. (7 + Len(tn)) + 3 = 10 + Len(tn) /\ (3 + Len(hn)) + 2 = 5 + Len(hn)
  BY <1>1
<1>8. /\ HeadOf(c) \in Seq(Char) /\ Len(HeadOf(c)) = 10 + Len(tn)
      /\ Ending(c.hidden) \in Seq(Char) /\ Len(Ending(c.hidden)) = 5 + Len(hn)
  BY <1>3, <1>5, <1>6, <1>7
<1> QED BY <1>8 DEF tn, hn

\* A string is built if all of it fits, and then holds all of it.
LEMMA BuildIs ==
  ASSUME NEW c \in Creds, NEW max \in Nat
  PROVE  /\ (Build(c, max) # Failed) <=> FullLength(c) < max
         /\ Build(c, max) # Failed =>
              \E p, q : /\ Escapes(p, HeadOf(c), c.ssid)
                        /\ Escapes(q, p[Len(c.ssid)] \o PassKey, c.password)
                        /\ Build(c, max) = q[Len(c.password)] \o Ending(c.hidden)
<1> DEFINE head == HeadOf(c)
           name == EscapeAppend(head, max, c.ssid)
           base == name \o PassKey
           pass == EscapeAppend(base, max, c.password)
           end == Ending(c.hidden)
           es == Escaped(c.ssid)  ep == Escaped(c.password)
           tn == Len(TypeName(c.security))  hn == Len(HiddenName(c.hidden))
           NameWhole == /\ \E p : Escapes(p, head, c.ssid) /\ name = p[Len(c.ssid)]
                        /\ Len(name) = Len(head) + es
           NameCut == Len(name) + 3 > max /\ Len(head) + es + 1 > max
           PassWhole == /\ \E q : Escapes(q, base, c.password) /\ pass = q[Len(c.password)]
                        /\ Len(pass) = Len(base) + ep
           PassCut == Len(pass) + 3 > max /\ Len(base) + ep + 1 > max
           TooLong == \/ max < 16 \/ Len(head) \geq max \/ Len(name) + 3 \geq max
                      \/ Len(pass) + Len(end) \geq max
<1>1. /\ c.ssid \in Seq(Char) /\ c.password \in Seq(Char)
      /\ head \in Seq(Char) /\ Len(head) = 10 + tn
      /\ end \in Seq(Char) /\ Len(end) = 5 + hn
      /\ tn \in 3 .. 6 /\ hn \in 4 .. 5
  BY CredsType, HeadType, TypeNameIs, HiddenNameIs
<1>2. es \in Nat /\ ep \in Nat
  <2>1. Len(c.ssid) \in Nat /\ Len(c.password) \in Nat
    BY <1>1
  <2> QED BY <1>1, <2>1, EscapedSteps
<1>3. name \in Seq(Char) /\ (NameWhole \/ NameCut)
  <2> HIDE DEF head, es
  <2> QED BY <1>1, EscapeAppendIs DEF es
<1>4. base \in Seq(Char) /\ Len(base) = Len(name) + 3
  <2>1. name \in Seq(Char)
    BY <1>3
  <2> HIDE DEF name
  <2>2. PassKey \in Seq(Char) /\ Len(PassKey) = 3
    BY FixedParts
  <2>3. name \o PassKey \in Seq(Char) /\ Len(name \o PassKey) = Len(name) + Len(PassKey)
    BY <2>1, <2>2, StartsWithConcat
  <2> QED BY <2>2, <2>3
<1>5. pass \in Seq(Char) /\ (PassWhole \/ PassCut)
  <2> HIDE DEF base, ep
  <2> QED BY <1>1, <1>4, EscapeAppendIs DEF ep
<1>6. Len(name) \in Nat /\ Len(pass) \in Nat
  <2> HIDE DEF name, pass
  <2> QED BY <1>3, <1>5
<1>7. Build(c, max) = IF TooLong THEN Failed ELSE pass \o end
  BY DEF Build, HeadOf, SsidKey, PassKey
<1>8. pass \o end # Failed
  <2> HIDE DEF pass, end
  <2>1. Len(pass \o end) = Len(pass) + Len(end)
    BY <1>1, <1>5, ConcatProperties
  <2>2. Len(pass \o end) # 0
    BY <1>1, <1>6, <2>1
  <2> QED BY <2>2 DEF Failed
<1>9. FullLength(c) = 13 + tn + es + ep + hn + 5
  BY DEF FullLength
<1>10. TooLong => ~(FullLength(c) < max)
  <2> DEFINE n == Len(name)  a == Len(pass)  h == Len(head)  e == Len(end)  b == Len(base)
  <2>1. NameWhole => n = h + es
    OBVIOUS
  <2>2. PassWhole => a = b + ep
    OBVIOUS
  <2>3. /\ n \in Nat /\ a \in Nat /\ h = 10 + tn /\ e = 5 + hn /\ b = n + 3
        /\ tn \in 3 .. 6 /\ hn \in 4 .. 5 /\ es \in Nat /\ ep \in Nat
    BY <1>1, <1>2, <1>4, <1>6
  <2>4. n = h + es \/ NameCut
    <3> HIDE DEF NameWhole, NameCut
    <3> QED BY <1>3, <2>1
  <2>5. a = b + ep \/ PassCut
    <3> HIDE DEF PassWhole, PassCut
    <3> QED BY <1>5, <2>2
  <2> HIDE DEF n, a, h, e, b, tn, hn, es, ep
  <2>6. /\ n = h + es \/ (n + 3 > max /\ h + es + 1 > max)
        /\ a = b + ep \/ (a + 3 > max /\ b + ep + 1 > max)
    BY <2>4, <2>5 DEF n, a, h, e, b
  <2>7. max < 16 \/ h \geq max \/ n + 3 \geq max \/ a + e \geq max => ~(13 + tn + es + ep + hn + 5 < max)
    BY <2>3, <2>6
  <2> QED BY <1>9, <2>7 DEF n, a, h, e
<1>11. ~TooLong => FullLength(c) < max /\ NameWhole /\ PassWhole
  <2> SUFFICES ASSUME ~TooLong PROVE FullLength(c) < max /\ NameWhole /\ PassWhole
    OBVIOUS
  <2> DEFINE n == Len(name)  a == Len(pass)  h == Len(head)  e == Len(end)  b == Len(base)
  <2>3. /\ n \in Nat /\ a \in Nat /\ h = 10 + tn /\ e = 5 + hn /\ b = n + 3
        /\ tn \in 3 .. 6 /\ hn \in 4 .. 5 /\ es \in Nat /\ ep \in Nat
    BY <1>1, <1>2, <1>4, <1>6
  <2>4. ~(n + 3 \geq max) /\ ~(a + e \geq max)
    OBVIOUS
  <2>5. ~(n + 3 > max) /\ ~(a + 3 > max)
    <3> HIDE DEF n, a, h, e, b, tn, hn, es, ep
    <3> QED BY <2>3, <2>4
  <2>6. ~NameCut /\ ~PassCut
    BY <2>5
  <2>7. NameWhole /\ PassWhole
    <3> HIDE DEF NameWhole, NameCut, PassWhole, PassCut
    <3> QED BY <1>3, <1>5, <2>6
  <2>8. n = h + es /\ a = b + ep
    BY <2>7
  <2>9. 13 + tn + es + ep + hn + 5 < max
    <3> HIDE DEF n, a, h, e, b, tn, hn, es, ep
    <3> QED BY <2>3, <2>4, <2>8
  <2> QED BY <1>9, <2>7, <2>9
<1>12. (Build(c, max) # Failed) <=> FullLength(c) < max
  <2> HIDE DEF TooLong, pass, end
  <2> QED BY <1>7, <1>8, <1>10, <1>11
<1>13. ASSUME Build(c, max) # Failed
       PROVE  \E p, q : /\ Escapes(p, HeadOf(c), c.ssid)
                        /\ Escapes(q, p[Len(c.ssid)] \o PassKey, c.password)
                        /\ Build(c, max) = q[Len(c.password)] \o Ending(c.hidden)
  <2>1. ~TooLong /\ Build(c, max) = pass \o end
    <3> HIDE DEF TooLong, pass, end
    <3> QED BY <1>7, <1>13
  <2>2. NameWhole /\ PassWhole
    <3> HIDE DEF TooLong, NameWhole, PassWhole
    <3> QED BY <1>11, <2>1
  <2>3. PICK p : Escapes(p, head, c.ssid) /\ name = p[Len(c.ssid)]
    BY <2>2
  <2>4. PICK q : Escapes(q, base, c.password) /\ pass = q[Len(c.password)]
    BY <2>2
  <2>5. Escapes(q, p[Len(c.ssid)] \o PassKey, c.password)
    BY <2>3, <2>4
  <2>6. Build(c, max) = q[Len(c.password)] \o Ending(c.hidden)
    BY <2>1, <2>4
  <2> QED BY <2>3, <2>5, <2>6
<1> QED BY <1>12, <1>13

-----------------------------------------------------------------------------
(* Where the keys stand in it.                                             *)

\* The letter of a key, with its colon behind it, is at this place only.
OnlyAt(w, letter, at) ==
  /\ at \in 1 .. Len(w) - 1 /\ w[at] = letter /\ w[at + 1] = ":"
  /\ \A i \in 1 .. Len(w) - 1 : w[i] = letter /\ w[i + 1] = ":" => i = at

LEMMA FieldIs ==
  ASSUME NEW w \in Seq(Char), NEW letter \in Char, NEW at, OnlyAt(w, letter, at), NEW room
  PROVE  /\ Places(w, <<letter, ":">>) # {}
         /\ Field(w, <<letter, ":">>, room) = Value(w, at + 2, room)
<1> DEFINE key == <<letter, ":">>
<1>1. Len(key) = 2 /\ key[1] = letter /\ key[2] = ":" /\ key \in Seq(Char)
  <2>1. ":" \in Char
    BY DEF Char
  <2> QED BY <2>1
<1> HIDE DEF key
<1>2. Len(w) \in Nat /\ \A i \in 1 .. Len(w) : w[i] \in Char
  OBVIOUS
<1>3. ASSUME NEW i \in 1 .. Len(w) - 1
      PROVE  SubSeq(w, i, i + 1) = key <=> w[i] = letter /\ w[i + 1] = ":"
  <2> DEFINE u == SubSeq(w, i, i + 1)
  <2>1. i \in Int /\ i + 1 \in Int /\ i <= i + 1 /\ (i + 1) - i + 1 = 2 /\ \A j \in i .. i + 1 : w[j] \in Char
    BY <1>2
  <2>2. /\ u \in Seq(Char) /\ Len(u) = 2
        /\ \A j \in 1 .. 2 : u[j] = w[i + j - 1]
    BY <2>1, SubSeqProperties
  <2>3. i + 1 - 1 = i /\ i + 2 - 1 = i + 1 /\ 1 \in 1 .. 2 /\ 2 \in 1 .. 2
    BY <1>2
  <2>4. u[1] = w[i] /\ u[2] = w[i + 1]
    BY <2>2, <2>3
  <2> HIDE DEF u
  <2>5. u = key => w[i] = letter /\ w[i + 1] = ":"
    BY <1>1, <2>4
  <2>6. ASSUME w[i] = letter, w[i + 1] = ":" PROVE u = key
    <3>1. \A j \in 1 .. 2 : j = 1 \/ j = 2
      OBVIOUS
    <3>2. \A j \in 1 .. Len(u) : u[j] = key[j]
      BY <1>1, <2>2, <2>4, <2>6, <3>1
    <3> QED BY <1>1, <2>2, <3>2, SeqEqual
  <2>7. u = key <=> w[i] = letter /\ w[i + 1] = ":"
    BY <2>5, <2>6
  <2> QED BY <2>7 DEF u
<1>4. Places(w, key) = { i \in 1 .. Len(w) - 1 : SubSeq(w, i, i + 1) = key }
  <2>1. Len(w) + 1 - Len(key) = Len(w) - 1 /\ \A i \in Nat : i + Len(key) - 1 = i + 1
    BY <1>1, <1>2
  <2>2. \A i \in 1 .. Len(w) - 1 : i + Len(key) - 1 = i + 1
    BY <1>2, <2>1
  <2> QED BY <2>1, <2>2 DEF Places
<1>5. at \in 1 .. Len(w) - 1 /\ \A i \in 1 .. Len(w) - 1 : SubSeq(w, i, i + 1) = key <=> i = at
  BY <1>3 DEF OnlyAt
<1>6. Places(w, key) = {at}
  BY <1>4, <1>5
<1>7. (CHOOSE i \in Places(w, key) : \A j \in Places(w, key) : i \leq j) = at
  <2>1. at \in Nat
    BY <1>2, <1>5
  <2>2. \E i \in Places(w, key) : \A j \in Places(w, key) : i \leq j
    BY <1>6, <2>1
  <2> QED BY <1>6, <2>2
<1>8. Field(w, key, room) = Value(w, at + 2, room)
  BY <1>1, <1>7 DEF Field
<1>9. Places(w, key) # {}
  BY <1>6
<1> QED BY <1>8, <1>9 DEF key

\* Every colon is at one of the places K, or behind a backslash.
ColonsAt(w, K) ==
  \A q \in 1 .. Len(w) : w[q] = ":" => q \in K \/ (q - 1 \in 1 .. Len(w) /\ w[q - 1] = "\\")

LEMMA ColonsOfEscaped ==
  ASSUME NEW base \in Seq(Char), NEW s \in Seq(Char), NEW p, Escapes(p, base, s), NEW K, ColonsAt(base, K)
  PROVE  ColonsAt(p[Len(s)], K)
<1> DEFINE t == p[Len(s)]
<1>1. /\ t \in Seq(Char) /\ Len(t) \in Nat /\ Len(base) \in Nat /\ Len(s) \in Nat /\ p[0] = base
  BY DEF Escapes
<1>2. /\ Starts(base, t)
      /\ \A q \in Len(base) + 1 .. Len(t) :
           t[q] = ":" => q - 1 \in Len(base) + 1 .. Len(t) /\ t[q - 1] = "\\"
  <2>1. Len(s) \in 0 .. Len(s) /\ 0 \in 0 .. Len(s)
    BY <1>1
  <2> QED BY <1>1, <2>1, EscapesGrow
<1> HIDE DEF t
<1>3. ASSUME NEW q \in 1 .. Len(t), t[q] = ":"
      PROVE  q \in K \/ (q - 1 \in 1 .. Len(t) /\ t[q - 1] = "\\")
  <2>1. CASE q \leq Len(base)
    <3>1. q \in 1 .. Len(base)
      BY <1>1, <2>1
    <3>2. base[q] = ":"
      BY <1>2, <1>3, <3>1 DEF Starts
    <3>3. q \in K \/ (q - 1 \in 1 .. Len(base) /\ base[q - 1] = "\\")
      BY <3>1, <3>2 DEF ColonsAt
    <3>4. ASSUME q - 1 \in 1 .. Len(base) PROVE q - 1 \in 1 .. Len(t) /\ t[q - 1] = base[q - 1]
      BY <1>1, <1>2, <3>4 DEF Starts
    <3> QED BY <3>3, <3>4
  <2>2. CASE q > Len(base)
    <3>1. q \in Len(base) + 1 .. Len(t)
      BY <1>1, <2>2
    <3>2. q - 1 \in Len(base) + 1 .. Len(t) /\ t[q - 1] = "\\"
      BY <1>2, <1>3, <3>1
    <3>3. q - 1 \in 1 .. Len(t)
      BY <1>1, <3>2
    <3> QED BY <3>2, <3>3
  <2> QED BY <1>1, <2>1, <2>2
<1>4. ColonsAt(t, K)
  BY <1>3 DEF ColonsAt
<1> QED BY <1>4 DEF t

LEMMA ColonsOfConcat ==
  ASSUME NEW a \in Seq(Char), NEW b \in Seq(Char), NEW K, ColonsAt(a, K),
         \A q \in 1 .. Len(b) : b[q] = ":" => Len(a) + q \in K
  PROVE  ColonsAt(a \o b, K)
<1> DEFINE t == a \o b
<1>1. /\ Len(a) \in Nat /\ Len(b) \in Nat /\ t \in Seq(Char) /\ Len(t) = Len(a) + Len(b)
      /\ Starts(a, t) /\ \A q \in 1 .. Len(b) : t[Len(a) + q] = b[q]
  BY StartsWithConcat
<1> HIDE DEF t
<1>2. ASSUME NEW q \in 1 .. Len(t), t[q] = ":"
      PROVE  q \in K \/ (q - 1 \in 1 .. Len(t) /\ t[q - 1] = "\\")
  <2>1. CASE q \leq Len(a)
    <3>1. q \in 1 .. Len(a)
      BY <1>1, <2>1
    <3>2. a[q] = ":"
      BY <1>1, <1>2, <3>1 DEF Starts
    <3>3. q \in K \/ (q - 1 \in 1 .. Len(a) /\ a[q - 1] = "\\")
      BY <3>1, <3>2 DEF ColonsAt
    <3>4. ASSUME q - 1 \in 1 .. Len(a) PROVE q - 1 \in 1 .. Len(t) /\ t[q - 1] = a[q - 1]
      BY <1>1, <3>4 DEF Starts
    <3> QED BY <3>3, <3>4
  <2>2. CASE q > Len(a)
    <3>1. PICK k \in 1 .. Len(b) : Len(a) + k = q
      <4> DEFINE l == Len(a)  m == Len(b)
      <4>1. l \in Nat /\ m \in Nat /\ q \in Nat /\ q > l /\ q \leq l + m
        BY <1>1, <2>2
      <4>2. q - l \in 1 .. m /\ l + (q - l) = q
        <5> HIDE DEF l, m
        <5> QED BY <4>1
      <4> QED BY <4>2
    <3>2. b[k] = ":"
      BY <1>1, <1>2, <3>1
    <3>3. Len(a) + k \in K
      BY <3>2
    <3> QED BY <3>1, <3>3
  <2> QED BY <1>1, <2>1, <2>2
<1>3. ColonsAt(t, K)
  BY <1>2 DEF ColonsAt
<1> QED BY <1>3 DEF t

\* A ';', the letter of a key and a colon.
IsKey(key, letter) ==
  /\ key \in Seq(Char) /\ Len(key) = 3
  /\ key[1] = ";" /\ key[2] = letter /\ key[3] = ":"

LEMMA Keys ==
  IsKey(SsidKey, "S") /\ IsKey(PassKey, "P") /\ IsKey(HiddenKey, "H")
<1>1. SsidKey[1] = ";" /\ SsidKey[2] = "S" /\ SsidKey[3] = ":"
  BY DEF SsidKey
<1>2. PassKey[1] = ";" /\ PassKey[2] = "P" /\ PassKey[3] = ":"
  BY DEF PassKey
<1>3. HiddenKey[1] = ";" /\ HiddenKey[2] = "H" /\ HiddenKey[3] = ":"
  BY DEF HiddenKey
<1> QED BY <1>1, <1>2, <1>3, FixedParts DEF IsKey

\* A text with a key behind it, in w: where the key stands, and that the text ends there.
LEMMA KeyBehind ==
  ASSUME NEW a \in Seq(Char), NEW key, NEW letter, IsKey(key, letter), letter # ":",
         NEW w \in Seq(Char), Starts(a \o key, w)
  PROVE  /\ a \o key \in Seq(Char) /\ Len(a \o key) = Len(a) + 3 /\ Len(a) + 3 \leq Len(w)
         /\ Closed(a, w)
         /\ w[Len(a) + 2] = letter /\ w[Len(a) + 3] = ":"
         /\ \A K : ColonsAt(a, K) /\ Len(a) + 3 \in K => ColonsAt(a \o key, K)
<1> DEFINE t == a \o key
<1>0. key \in Seq(Char) /\ Len(key) = 3
  BY DEF IsKey
<1>1. key[1] = ";" /\ key[2] = letter /\ key[3] = ":"
  BY DEF IsKey
<1>2. /\ Len(a) \in Nat /\ Len(w) \in Nat /\ t \in Seq(Char) /\ Len(t) = Len(a) + Len(key)
      /\ Starts(a, t) /\ \A q \in 1 .. Len(key) : t[Len(a) + q] = key[q]
  <2>1. Len(a) \in Nat /\ Len(w) \in Nat
    OBVIOUS
  <2>2. /\ t \in Seq(Char) /\ Len(t) = Len(a) + Len(key) /\ Starts(a, t)
        /\ \A q \in 1 .. Len(key) : t[Len(a) + q] = key[q]
    BY <1>0, StartsWithConcat
  <2> QED BY <2>1, <2>2
<1>3. 1 \in 1 .. Len(key) /\ 2 \in 1 .. Len(key) /\ 3 \in 1 .. Len(key)
  BY <1>0
<1>4. t[Len(a) + 1] = ";" /\ t[Len(a) + 2] = letter /\ t[Len(a) + 3] = ":" /\ Len(t) = Len(a) + 3
  BY <1>0, <1>1, <1>2, <1>3
<1>5. \A K : ColonsAt(a, K) /\ Len(a) + 3 \in K => ColonsAt(a \o key, K)
  <2> SUFFICES ASSUME NEW K, ColonsAt(a, K), Len(a) + 3 \in K
               PROVE  ColonsAt(a \o key, K)
    OBVIOUS
  <2>1. \A q \in 1 .. Len(key) : q = 1 \/ q = 2 \/ q = 3
    BY <1>0
  <2>2. ";" # ":"
    OBVIOUS
  <2>3. \A q \in 1 .. Len(key) : key[q] = ":" => q = 3
    BY <1>1, <2>1, <2>2
  <2>4. \A q \in 1 .. Len(key) : key[q] = ":" => Len(a) + q \in K
    BY <2>3
  <2> QED BY <1>0, <2>4, ColonsOfConcat
<1> HIDE DEF t
<1>6. Starts(t, w)
  BY DEF t
<1>7. Len(t) \leq Len(w) /\ \A q \in 1 .. Len(t) : w[q] = t[q]
  BY <1>6 DEF Starts
<1>8. Len(a) + 1 \in 1 .. Len(t) /\ Len(a) + 2 \in 1 .. Len(t) /\ Len(a) + 3 \in 1 .. Len(t)
  <2>1. Len(a) \in Nat /\ Len(t) = Len(a) + 3
    BY <1>2, <1>4
  <2> QED BY <2>1
<1>9. w[Len(a) + 1] = ";" /\ w[Len(a) + 2] = letter /\ w[Len(a) + 3] = ":"
  BY <1>4, <1>7, <1>8
<1>10. Len(a) + 3 \leq Len(w) /\ Len(a) < Len(w)
  <2>1. Len(a) \in Nat /\ Len(w) \in Nat /\ Len(t) = Len(a) + 3 /\ Len(t) \leq Len(w)
    BY <1>2, <1>4, <1>7
  <2> QED BY <2>1
<1>11. Starts(a, w)
  BY <1>2, <1>6, StartsTransitive
<1>12. Closed(a, w)
  BY <1>9, <1>10, <1>11 DEF Closed
<1>13. a \o key \in Seq(Char) /\ Len(a \o key) = Len(a) + 3
  BY <1>2, <1>4 DEF t
<1> QED BY <1>5, <1>9, <1>10, <1>12, <1>13

\* The prefix, and the colons of it and of the type.
LEMMA PrefixIs ==
  /\ Prefix[1] = "W" /\ Prefix[2] = "I" /\ Prefix[3] = "F" /\ Prefix[4] = "I"
  /\ Prefix[5] = ":" /\ Prefix[6] = "T" /\ Prefix[7] = ":"
  /\ \A K : 5 \in K /\ 7 \in K => ColonsAt(Prefix, K)
<1>1. /\ Prefix[1] = "W" /\ Prefix[2] = "I" /\ Prefix[3] = "F" /\ Prefix[4] = "I"
      /\ Prefix[5] = ":" /\ Prefix[6] = "T" /\ Prefix[7] = ":"
  BY DEF Prefix
<1>2. Len(Prefix) = 7
  BY FixedParts
<1>3. \A q \in 1 .. 7 : q = 1 \/ q = 2 \/ q = 3 \/ q = 4 \/ q = 5 \/ q = 6 \/ q = 7
  OBVIOUS
<1>4. "W" # ":" /\ "I" # ":" /\ "F" # ":" /\ "T" # ":"
  OBVIOUS
<1>5. \A q \in 1 .. 7 : Prefix[q] = ":" => q = 5 \/ q = 7
  BY <1>1, <1>3, <1>4
<1>6. \A K : 5 \in K /\ 7 \in K => ColonsAt(Prefix, K)
  BY <1>2, <1>5 DEF ColonsAt
<1> QED BY <1>1, <1>6

LEMMA PlainHasNoColon ==
  ASSUME NEW a \in Seq(Char), NEW s, Plain(s), NEW K, ColonsAt(a, K)
  PROVE  ColonsAt(a \o s, K)
<1>1. s \in Seq(Char) /\ \A q \in 1 .. Len(s) : s[q] # ":"
  BY DEF Plain, NeedsEscape
<1> QED BY <1>1, ColonsOfConcat

-----------------------------------------------------------------------------
(* What wfr_parse_wifi_string makes of it.                                 *)

LEMMA Associative ==
  ASSUME NEW a \in Seq(Char), NEW b \in Seq(Char), NEW d \in Seq(Char)
  PROVE  a \o (b \o d) = (a \o b) \o d
BY ConcatAssociative

\* Every field of a built string is read back as it was.
LEMMA ParseBuilt ==
  ASSUME NEW c \in Creds, c.ssid # <<>>,
         NEW p, Escapes(p, HeadOf(c), c.ssid),
         NEW q, Escapes(q, p[Len(c.ssid)] \o PassKey, c.password)
  PROVE  Parse(q[Len(c.password)] \o Ending(c.hidden)) = c
<1> DEFINE tn == TypeName(c.security)
           hn == HiddenName(c.hidden)
           type == Prefix \o tn
           head == type \o SsidKey
           name == p[Len(c.ssid)]
           base == name \o PassKey
           pass == q[Len(c.password)]
           tail == pass \o HiddenKey
           last == tail \o hn
           w == last \o Close
           K == {5, 7, Len(type) + 3, Len(name) + 3, Len(pass) + 3}
<1>1. /\ c.ssid \in Seq(Char) /\ Len(c.ssid) \leq SsidMax
      /\ c.password \in Seq(Char) /\ Len(c.password) \leq PassMax
      /\ Plain(tn) /\ Len(tn) \in 3 .. 6 /\ Security(tn) = c.security
      /\ Plain(hn) /\ Len(hn) \in 4 .. 5 /\ (hn = HiddenName(TRUE) <=> c.hidden = TRUE)
  BY CredsType, TypeNameIs, HiddenNameIs
<1>2. tn \in Seq(Char) /\ hn \in Seq(Char)
  BY <1>1 DEF Plain
<1>3. HeadOf(c) = head
  BY DEF HeadOf
<1> HIDE DEF tn, hn
<1>4. Prefix \in Seq(Char) /\ SsidKey \in Seq(Char) /\ PassKey \in Seq(Char)
      /\ HiddenKey \in Seq(Char) /\ Close \in Seq(Char)
  BY FixedParts
<1>5. type \in Seq(Char) /\ Starts(Prefix, type)
  BY <1>2, <1>4, StartsWithConcat
<1> HIDE DEF type
<1>6. head \in Seq(Char) /\ Starts(type, head)
  BY <1>4, <1>5, StartsWithConcat
<1>7. Escapes(p, head, c.ssid)
  BY <1>3
<1> HIDE DEF head
<1>8. name \in Seq(Char) /\ Starts(head, name)
  <2>1. Len(c.ssid) \in 0 .. Len(c.ssid) /\ 0 \in 0 .. Len(c.ssid)
    BY <1>1
  <2> QED BY <1>1, <1>6, <1>7, <2>1, EscapesGrow DEF Escapes
<1>9. Escapes(q, base, c.password)
  OBVIOUS
<1> HIDE DEF name
<1>10. base \in Seq(Char) /\ Starts(name, base)
  BY <1>4, <1>8, StartsWithConcat
<1> HIDE DEF base
<1>11. pass \in Seq(Char) /\ Starts(base, pass)
  <2>1. Len(c.password) \in 0 .. Len(c.password) /\ 0 \in 0 .. Len(c.password)
    BY <1>1
  <2> QED BY <1>1, <1>9, <1>10, <2>1, EscapesGrow DEF Escapes
<1>12. pass \o Ending(c.hidden) = w
  <2>1. Ending(c.hidden) = (HiddenKey \o hn) \o Close
    BY DEF Ending, HiddenKey, Close, hn
  <2> HIDE DEF pass
  <2>2. HiddenKey \o hn \in Seq(Char)
    BY <1>2, <1>4, StartsWithConcat
  <2>3. pass \o ((HiddenKey \o hn) \o Close) = (pass \o (HiddenKey \o hn)) \o Close
    <3>1. pass \in Seq(Char) /\ HiddenKey \o hn \in Seq(Char) /\ Close \in Seq(Char)
      BY <1>4, <1>11, <2>2
    <3> QED BY <3>1, Associative, Zenon
  <2>4. pass \o (HiddenKey \o hn) = (pass \o HiddenKey) \o hn
    <3>1. pass \in Seq(Char) /\ HiddenKey \in Seq(Char) /\ hn \in Seq(Char)
      BY <1>2, <1>4, <1>11
    <3> QED BY <3>1, Associative, Zenon
  <2> QED BY <2>1, <2>3, <2>4
<1> HIDE DEF pass
<1>13. tail \in Seq(Char) /\ Starts(pass, tail)
  BY <1>4, <1>11, StartsWithConcat
<1> HIDE DEF tail
<1>14. last \in Seq(Char) /\ Starts(tail, last)
  BY <1>2, <1>13, StartsWithConcat
<1> HIDE DEF last
<1>15. w \in Seq(Char) /\ Starts(last, w)
  BY <1>4, <1>14, StartsWithConcat
<1>40. Len(w) = Len(last) + 2 /\ w[Len(last) + 1] = ";"
  <2>1. Len(Close) = 2
    BY FixedParts
  <2>2. Close[1] = ";"
    BY DEF Close
  <2>3. 1 \in 1 .. Len(Close)
    BY <2>1
  <2>4. /\ Len(w) = Len(last) + Len(Close)
        /\ \A i \in 1 .. Len(Close) : w[Len(last) + i] = Close[i]
    BY <1>4, <1>14, StartsWithConcat
  <2> HIDE DEF w
  <2> QED BY <2>1, <2>2, <2>3, <2>4
<1>16. ColonsAt(last, K) => ColonsAt(w, K)
  <2>1. Close[1] # ":" /\ Close[2] # ":" /\ Len(Close) = 2
    BY FixedParts DEF Close
  <2>2. \A i \in 1 .. Len(Close) : i = 1 \/ i = 2
    BY <2>1
  <2>3. \A i \in 1 .. Len(Close) : Close[i] # ":"
    BY <2>1, <2>2
  <2> HIDE DEF K
  <2> QED BY <1>4, <1>14, <2>3, ColonsOfConcat
<1> HIDE DEF w
\* All of them are the start of w.
<1>17. Starts(tail, w)
  BY <1>13, <1>14, <1>15, StartsTransitive
<1>18. Starts(base, w)
  <2>1. Starts(pass, w)
    BY <1>11, <1>13, <1>15, <1>17, StartsTransitive
  <2> QED BY <1>10, <1>11, <1>15, <2>1, StartsTransitive
<1>19. Starts(head, w)
  <2>1. Starts(name, w)
    BY <1>8, <1>10, <1>15, <1>18, StartsTransitive
  <2> QED BY <1>6, <1>8, <1>15, <2>1, StartsTransitive
<1>20. Starts(Prefix, w)
  <2>1. Starts(type, w)
    BY <1>5, <1>6, <1>15, <1>19, StartsTransitive
  <2> QED BY <1>4, <1>5, <1>15, <2>1, StartsTransitive
<1>21. /\ Len(type) \in Nat /\ Len(head) \in Nat /\ Len(name) \in Nat /\ Len(base) \in Nat
       /\ Len(pass) \in Nat /\ Len(tail) \in Nat /\ Len(last) \in Nat /\ Len(w) \in Nat
  <2>1. \A x \in Seq(Char) : Len(x) \in Nat
    OBVIOUS
  <2> QED BY <1>5, <1>6, <1>8, <1>10, <1>11, <1>13, <1>14, <1>15, <2>1, Zenon
\* The keys, and that what is before them ends there.
<1>22. "S" \in Char /\ "P" \in Char /\ "H" \in Char /\ "T" \in Char
  BY DEF Char
<1>23. /\ Len(head) = Len(type) + 3 /\ Len(type) + 3 \leq Len(w) /\ Closed(type, w)
       /\ w[Len(type) + 2] = "S" /\ w[Len(type) + 3] = ":"
       /\ ColonsAt(type, K) => ColonsAt(head, K)
  <2>1. "S" # ":" /\ Len(type) + 3 \in K
    OBVIOUS
  <2>2. Starts(type \o SsidKey, w) /\ head = type \o SsidKey
    BY <1>19 DEF head
  <2>3. IsKey(SsidKey, "S")
    BY Keys
  <2> HIDE DEF K
  <2>4. /\ Len(type \o SsidKey) = Len(type) + 3 /\ Len(type) + 3 \leq Len(w) /\ Closed(type, w)
        /\ w[Len(type) + 2] = "S" /\ w[Len(type) + 3] = ":"
        /\ ColonsAt(type, K) => ColonsAt(type \o SsidKey, K)
    <3>1. type \in Seq(Char) /\ w \in Seq(Char)
      BY <1>5, <1>15
    <3> QED BY <2>1, <2>2, <2>3, <3>1, KeyBehind
  <2> QED BY <2>2, <2>4
<1>24. /\ Len(base) = Len(name) + 3 /\ Len(name) + 3 \leq Len(w) /\ Closed(name, w)
       /\ w[Len(name) + 2] = "P" /\ w[Len(name) + 3] = ":"
       /\ ColonsAt(name, K) => ColonsAt(base, K)
  <2>1. "P" # ":" /\ Len(name) + 3 \in K
    OBVIOUS
  <2>2. Starts(name \o PassKey, w) /\ base = name \o PassKey
    BY <1>18 DEF base
  <2>3. IsKey(PassKey, "P")
    BY Keys
  <2> HIDE DEF K
  <2>4. /\ Len(name \o PassKey) = Len(name) + 3 /\ Len(name) + 3 \leq Len(w) /\ Closed(name, w)
        /\ w[Len(name) + 2] = "P" /\ w[Len(name) + 3] = ":"
        /\ ColonsAt(name, K) => ColonsAt(name \o PassKey, K)
    <3>1. name \in Seq(Char) /\ w \in Seq(Char)
      BY <1>8, <1>15
    <3> QED BY <2>1, <2>2, <2>3, <3>1, KeyBehind
  <2> QED BY <2>2, <2>4
<1>25. /\ Len(tail) = Len(pass) + 3 /\ Len(pass) + 3 \leq Len(w) /\ Closed(pass, w)
       /\ w[Len(pass) + 2] = "H" /\ w[Len(pass) + 3] = ":"
       /\ ColonsAt(pass, K) => ColonsAt(tail, K)
  <2>1. "H" # ":" /\ Len(pass) + 3 \in K
    OBVIOUS
  <2>2. Starts(pass \o HiddenKey, w) /\ tail = pass \o HiddenKey
    BY <1>17 DEF tail
  <2>3. IsKey(HiddenKey, "H")
    BY Keys
  <2> HIDE DEF K
  <2>4. /\ Len(pass \o HiddenKey) = Len(pass) + 3 /\ Len(pass) + 3 \leq Len(w) /\ Closed(pass, w)
        /\ w[Len(pass) + 2] = "H" /\ w[Len(pass) + 3] = ":"
        /\ ColonsAt(pass, K) => ColonsAt(pass \o HiddenKey, K)
    <3>1. pass \in Seq(Char) /\ w \in Seq(Char)
      BY <1>11, <1>15
    <3> QED BY <2>1, <2>2, <2>3, <3>1, KeyBehind
  <2> QED BY <2>2, <2>4
<1>26. Closed(last, w)
  <2>1. Len(w) = Len(last) + 2
    BY <1>40
  <2>2. Len(last) < Len(w)
    BY <1>21, <2>1
  <2> QED BY <1>15, <1>40, <2>2 DEF Closed
\* The colons of w.
<1>27. ColonsAt(w, K)
  <2>1. ColonsAt(Prefix, K)
    BY PrefixIs
  <2> HIDE DEF K
  <2>2. ColonsAt(type, K)
    BY <1>1, <1>4, <2>1, PlainHasNoColon DEF type
  <2>3. ColonsAt(name, K)
    BY <1>1, <1>6, <1>7, <1>23, <2>2, ColonsOfEscaped DEF name
  <2>4. ColonsAt(pass, K)
    BY <1>1, <1>9, <1>10, <1>24, <2>3, ColonsOfEscaped DEF pass
  <2>5. ColonsAt(last, K)
    BY <1>1, <1>13, <1>25, <2>4, PlainHasNoColon DEF last
  <2> QED BY <1>16, <2>5
<1>28. Len(Prefix) = 7 /\ 7 \leq Len(w) /\ w[4] = "I" /\ w[5] = ":" /\ w[6] = "T" /\ w[7] = ":"
       /\ \A i \in 1 .. 5 : w[i] = Prefix[i]
  <2>1. Len(Prefix) = 7
    BY FixedParts
  <2>2. 7 \leq Len(w) /\ \A i \in 1 .. 7 : w[i] = Prefix[i]
    BY <1>20, <2>1 DEF Starts
  <2>3. w[4] = Prefix[4] /\ w[5] = Prefix[5] /\ w[6] = Prefix[6] /\ w[7] = Prefix[7]
    BY <2>2
  <2> QED BY <2>1, <2>2, <2>3, PrefixIs
\* A letter before a colon: which colon it is.
<1>29. ASSUME NEW i \in 1 .. Len(w) - 1, w[i + 1] = ":", w[i] # "\\"
       PROVE  \/ i = 4 /\ w[i] = "I"
              \/ i = 6 /\ w[i] = "T"
              \/ i = Len(type) + 2 /\ w[i] = "S"
              \/ i = Len(name) + 2 /\ w[i] = "P"
              \/ i = Len(pass) + 2 /\ w[i] = "H"
  <2>1. i + 1 \in 1 .. Len(w) /\ (i + 1) - 1 = i /\ i \in Nat
    BY <1>21
  <2>2. i + 1 \in K
    <3> HIDE DEF K
    <3> QED BY <1>27, <1>29, <2>1 DEF ColonsAt
  <2>3. i = 4 \/ i = 6 \/ i = Len(type) + 2 \/ i = Len(name) + 2 \/ i = Len(pass) + 2
    <3>1. i + 1 = 5 \/ i + 1 = 7 \/ i + 1 = Len(type) + 3 \/ i + 1 = Len(name) + 3 \/ i + 1 = Len(pass) + 3
      BY <2>2
    <3>2. \A k, m \in Nat : k + 1 = m + 3 => k = m + 2
      OBVIOUS
    <3>3. i + 1 = 5 => i = 4
      BY <2>1
    <3>4. i + 1 = 7 => i = 6
      BY <2>1
    <3> QED BY <1>21, <2>1, <3>1, <3>2, <3>3, <3>4, Zenon
  <2> QED BY <1>23, <1>24, <1>25, <1>28, <2>3
<1>30. /\ OnlyAt(w, "T", 6) /\ OnlyAt(w, "S", Len(type) + 2)
       /\ OnlyAt(w, "P", Len(name) + 2) /\ OnlyAt(w, "H", Len(pass) + 2)
  <2>1. /\ 6 \in 1 .. Len(w) - 1 /\ Len(type) + 2 \in 1 .. Len(w) - 1
        /\ Len(name) + 2 \in 1 .. Len(w) - 1 /\ Len(pass) + 2 \in 1 .. Len(w) - 1
    <3>1. \A m, n \in Nat : m + 3 \leq n => m + 2 \in 1 .. n - 1
      OBVIOUS
    <3>2. /\ Len(type) + 3 \leq Len(w) /\ Len(name) + 3 \leq Len(w) /\ Len(pass) + 3 \leq Len(w)
          /\ 7 \leq Len(w)
      BY <1>23, <1>24, <1>25, <1>28, Zenon
    <3>3. 6 \in 1 .. Len(w) - 1
      BY <1>21, <3>2
    <3> QED BY <1>21, <3>1, <3>2, <3>3, Zenon
  <2>2. 6 + 1 = 7 /\ (Len(type) + 2) + 1 = Len(type) + 3 /\ (Len(name) + 2) + 1 = Len(name) + 3
        /\ (Len(pass) + 2) + 1 = Len(pass) + 3
    BY <1>21
  <2>3. /\ w[6 + 1] = ":" /\ w[(Len(type) + 2) + 1] = ":"
        /\ w[(Len(name) + 2) + 1] = ":" /\ w[(Len(pass) + 2) + 1] = ":"
    BY <1>23, <1>24, <1>25, <1>28, <2>2
  <2>4. \A l \in {"T", "S", "P", "H"} : l # "\\" /\ l # "I"
    OBVIOUS
  <2>5. \A i \in 1 .. Len(w) - 1 : w[i] = "T" /\ w[i + 1] = ":" => i = 6
    BY <1>29, <2>4
  <2>6. \A i \in 1 .. Len(w) - 1 : w[i] = "S" /\ w[i + 1] = ":" => i = Len(type) + 2
    BY <1>29, <2>4
  <2>7. \A i \in 1 .. Len(w) - 1 : w[i] = "P" /\ w[i + 1] = ":" => i = Len(name) + 2
    BY <1>29, <2>4
  <2>8. \A i \in 1 .. Len(w) - 1 : w[i] = "H" /\ w[i + 1] = ":" => i = Len(pass) + 2
    BY <1>29, <2>4
  <2> QED BY <1>23, <1>24, <1>25, <1>28, <2>1, <2>3, <2>5, <2>6, <2>7, <2>8 DEF OnlyAt
\* The fields.
<1>39. Len(tn) \leq 15 /\ Len(hn) \leq 7
  <2>1. \A n \in 3 .. 6 : n \leq 15
    OBVIOUS
  <2>2. \A n \in 4 .. 5 : n \leq 7
    OBVIOUS
  <2> QED BY <1>1, <2>1, <2>2, Zenon
<1>31. Places(w, <<"T", ":">>) # {} /\ Field(w, <<"T", ":">>, 15) = tn
  <2>1. Places(w, <<"T", ":">>) # {} /\ Field(w, <<"T", ":">>, 15) = Value(w, 6 + 2, 15)
    <3>1. OnlyAt(w, "T", 6)
      BY <1>30
    <3>2. w \in Seq(Char) /\ "T" \in Char
      BY <1>15, <1>22
    <3> QED BY <3>1, <3>2, FieldIs
  <2>2. PICK r : Escapes(r, Prefix, tn) /\ r[Len(tn)] = type
    BY <1>1, <1>4, PlainEscapes DEF type
  <2>3. Value(w, Len(Prefix) + 1, 15) = tn
    <3>1. Len(tn) \leq 15 /\ 15 \in Nat
      BY <1>39
    <3>2. Closed(r[Len(tn)], w)
      BY <1>23, <2>2
    <3>3. Prefix \in Seq(Char) /\ tn \in Seq(Char) /\ w \in Seq(Char)
      BY <1>2, <1>4, <1>15
    <3> QED BY <2>2, <3>1, <3>2, <3>3, ValueIs
  <2>4. 6 + 2 = Len(Prefix) + 1
    BY <1>28
  <2> QED BY <2>1, <2>3, <2>4
<1>32. Places(w, <<"S", ":">>) # {} /\ Field(w, <<"S", ":">>, SsidMax) = c.ssid
  <2>1. Places(w, <<"S", ":">>) # {} /\ Field(w, <<"S", ":">>, SsidMax) = Value(w, (Len(type) + 2) + 2, SsidMax)
    <3>1. OnlyAt(w, "S", Len(type) + 2)
      BY <1>30
    <3>2. w \in Seq(Char) /\ "S" \in Char
      BY <1>15, <1>22
    <3> QED BY <3>1, <3>2, FieldIs
  <2>2. Value(w, Len(head) + 1, SsidMax) = c.ssid
    <3>1. Closed(p[Len(c.ssid)], w)
      BY <1>24 DEF name
    <3>2. SsidMax \in Nat /\ Len(c.ssid) \leq SsidMax /\ c.ssid \in Seq(Char)
      BY <1>1, WifiAssumption
    <3>3. head \in Seq(Char) /\ w \in Seq(Char)
      BY <1>6, <1>15
    <3> QED BY <1>7, <3>1, <3>2, <3>3, ValueIs
  <2>3. (Len(type) + 2) + 2 = Len(head) + 1
    BY <1>21, <1>23
  <2> QED BY <2>1, <2>2, <2>3
<1>33. Places(w, <<"P", ":">>) # {} /\ Field(w, <<"P", ":">>, PassMax) = c.password
  <2>1. Places(w, <<"P", ":">>) # {} /\ Field(w, <<"P", ":">>, PassMax) = Value(w, (Len(name) + 2) + 2, PassMax)
    <3>1. OnlyAt(w, "P", Len(name) + 2)
      BY <1>30
    <3>2. w \in Seq(Char) /\ "P" \in Char
      BY <1>15, <1>22
    <3> QED BY <3>1, <3>2, FieldIs
  <2>2. Value(w, Len(base) + 1, PassMax) = c.password
    <3>1. Closed(q[Len(c.password)], w)
      BY <1>25 DEF pass
    <3>2. PassMax \in Nat /\ Len(c.password) \leq PassMax /\ c.password \in Seq(Char)
      BY <1>1, WifiAssumption
    <3>3. base \in Seq(Char) /\ w \in Seq(Char)
      BY <1>10, <1>15
    <3> QED BY <1>9, <3>1, <3>2, <3>3, ValueIs
  <2>3. (Len(name) + 2) + 2 = Len(base) + 1
    BY <1>21, <1>24
  <2> QED BY <2>1, <2>2, <2>3
<1>34. Places(w, <<"H", ":">>) # {} /\ Field(w, <<"H", ":">>, 7) = hn
  <2>1. Places(w, <<"H", ":">>) # {} /\ Field(w, <<"H", ":">>, 7) = Value(w, (Len(pass) + 2) + 2, 7)
    <3>1. OnlyAt(w, "H", Len(pass) + 2)
      BY <1>30
    <3>2. w \in Seq(Char) /\ "H" \in Char
      BY <1>15, <1>22
    <3> QED BY <3>1, <3>2, FieldIs
  <2>2. PICK r : Escapes(r, tail, hn) /\ r[Len(hn)] = last
    BY <1>1, <1>13, PlainEscapes DEF last
  <2>3. Value(w, Len(tail) + 1, 7) = hn
    <3>1. Len(hn) \leq 7 /\ 7 \in Nat
      BY <1>39
    <3>2. Closed(r[Len(hn)], w)
      BY <1>26, <2>2
    <3>3. tail \in Seq(Char) /\ hn \in Seq(Char) /\ w \in Seq(Char)
      BY <1>2, <1>13, <1>15
    <3> QED BY <2>2, <3>1, <3>2, <3>3, ValueIs
  <2>4. (Len(pass) + 2) + 2 = Len(tail) + 1
    BY <1>21, <1>25
  <2> QED BY <2>1, <2>3, <2>4
<1>35. SubSeq(w, 1, 5) = SubSeq(Prefix, 1, 5)
  <2>1. \A i \in 1 .. 5 : w[i] \in Char /\ Prefix[i] \in Char
    <3>1. \A i \in 1 .. 5 : i \in 1 .. 7 /\ i \in 1 .. Len(w)
      BY <1>21, <1>28
    <3>2. \A i \in 1 .. Len(w) : w[i] \in Char
      BY <1>15
    <3>3. \A i \in 1 .. 5 : w[i] = Prefix[i]
      BY <1>28
    <3> QED BY <3>1, <3>2, <3>3
  <2>2. /\ SubSeq(w, 1, 5) \in Seq(Char) /\ Len(SubSeq(w, 1, 5)) = 5
        /\ \A i \in 1 .. 5 : SubSeq(w, 1, 5)[i] = w[i]
    BY <2>1, SubSeqProperties
  <2>3. /\ SubSeq(Prefix, 1, 5) \in Seq(Char) /\ Len(SubSeq(Prefix, 1, 5)) = 5
        /\ \A i \in 1 .. 5 : SubSeq(Prefix, 1, 5)[i] = Prefix[i]
    BY <2>1, SubSeqProperties
  <2> QED BY <1>28, <2>2, <2>3, SeqEqual
<1>36. Parse(w) = [ssid |-> c.ssid, password |-> c.password, security |-> Security(tn),
                   hidden |-> hn = HiddenName(TRUE)]
  BY <1>31, <1>32, <1>33, <1>34, <1>35, Zenon DEF Parse
<1>37. (hn = HiddenName(TRUE)) = c.hidden
  <2>1. c.hidden \in BOOLEAN
    BY CredsType
  <2> QED BY <1>1, <2>1, Zenon
<1>38. Parse(w) = c
  BY <1>1, <1>36, <1>37, CredsType, Zenon
<1> QED BY <1>12, <1>38 DEF pass

-----------------------------------------------------------------------------
(* The theorems.                                                           *)

\* What is built is parsed as the credentials it was built from.
LEMMA ParseInvertsBuild ==
  ASSUME NEW c \in Creds, c.ssid # <<>>, NEW max \in Nat, Build(c, max) # Failed
  PROVE  Parse(Build(c, max)) = c
<1>1. PICK p, q : /\ Escapes(p, HeadOf(c), c.ssid)
                  /\ Escapes(q, p[Len(c.ssid)] \o PassKey, c.password)
                  /\ Build(c, max) = q[Len(c.password)] \o Ending(c.hidden)
  BY BuildIs
<1> QED BY <1>1, ParseBuilt

\* The credentials stay, the wire holds what was built from them and the daemon
\* what it parsed from the wire.
IInv ==
  /\ creds \in Creds /\ creds.ssid # <<>> /\ size \in Nat
  /\ phase \in {"entered", "built", "parsed"}
  /\ phase \in {"built", "parsed"} => wire = Build(creds, size)
  /\ phase = "parsed" => wire # Failed /\ parsed = Parse(wire)

LEMMA InitIInv == Init => IInv
<1>1. OutSizes \subseteq Nat
  BY WifiAssumption
<1> QED BY <1>1 DEF Init, IInv

LEMMA NextIInv == IInv /\ [Next]_vars => IInv'
<1> SUFFICES ASSUME IInv, [Next]_vars PROVE IInv'
  OBVIOUS
<1>1. CASE Transmit
  BY <1>1 DEF IInv, Transmit
<1>2. CASE Receive
  BY <1>2 DEF IInv, Receive
<1>3. CASE UNCHANGED vars
  BY <1>3 DEF IInv, vars
<1> QED BY <1>1, <1>2, <1>3 DEF Next

LEMMA StringInvariant == Spec => []IInv
BY InitIInv, NextIInv, PTL DEF Spec

\* The daemon parses exactly the credentials that the Flipper was given, for any
\* characters in them, lengths and buffers: wfr_escape_append leaves no ';' that
\* ends a field and no colon that makes a key, wfr_extract_field undoes it, and
\* wfr_build_wifi_string hands over no string that was cut short.
THEOREM RoundTripHolds == Spec => []RoundTrip
<1>1. IInv => RoundTrip
  <2> SUFFICES ASSUME IInv, phase = "parsed" PROVE parsed = creds
    BY DEF RoundTrip
  <2>1. /\ creds \in Creds /\ creds.ssid # <<>> /\ size \in Nat
        /\ wire = Build(creds, size) /\ wire # Failed /\ parsed = Parse(wire)
    BY DEF IInv
  <2>2. Build(creds, size) # Failed
    BY <2>1
  <2>3. Parse(Build(creds, size)) = creds
    BY <2>1, <2>2, ParseInvertsBuild
  <2> QED BY <2>1, <2>3
<1> QED BY <1>1, StringInvariant, PTL

\* A string is built whenever all of it fits, and only then: the checks of room
\* in wfr_build_wifi_string, each of them before its part is copied, come to the
\* one comparison of the whole length with the buffer.
THEOREM BuiltWhenItFits == Spec => []BuiltIffFits
<1>1. IInv => BuiltIffFits
  <2> SUFFICES ASSUME IInv, phase \in {"built", "parsed"}
               PROVE  wire # Failed <=> FullLength(creds) < size
    BY DEF BuiltIffFits, FullLength
  <2>1. creds \in Creds /\ size \in Nat /\ wire = Build(creds, size)
    BY DEF IInv
  <2>2. (Build(creds, size) # Failed) <=> FullLength(creds) < size
    BY <2>1, BuildIs
  <2> QED BY <2>1, <2>2
<1> QED BY <1>1, StringInvariant, PTL
=============================================================================

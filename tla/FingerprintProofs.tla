--------------------------- MODULE FingerprintProofs ---------------------------
(***************************************************************************)
(* The bytes fingerprintOf hashes tell any two drafts apart: what one     *)
(* text, number or list contributes can be cut off again, whatever        *)
(* follows it.                                                             *)
(***************************************************************************)
EXTENDS Fingerprints, FoldProofs, SequenceTheorems

\* Numbers are written in a base of at least two,
LEMMA BaseFacts == Base \in Nat \ {0, 1} /\ Base \in Nat /\ Base > 1
  <1>1. Base \in Nat \ {0, 1}
    BY FingerprintConstants, Zenon
  <1> QED
    BY <1>1

\* by digits that are none of the marks that end a run of them.
LEMMA DigitFacts ==
    /\ \A i \in 0..Base - 1 : Digit[i] \in Character /\ Digit[i] \notin {"m", ":", ";"}
    /\ \A i, j \in 0..Base - 1 : Digit[i] = Digit[j] => i = j
  <1>1. Digit \in [0..Base - 1 -> Character] /\ \A i \in 0..Base - 1 : Digit[i] \notin {"m", ":", ";"}
    BY FingerprintConstants, Zenon
  <1>2. \A i, j \in 0..Base - 1 : Digit[i] = Digit[j] => i = j
    BY FingerprintConstants, Zenon
  <1>3. \A i \in 0..Base - 1 : Digit[i] \in Character
    BY <1>1
  <1> QED
    BY <1>1, <1>2, <1>3, Zenon

\* The marks and the words of the format are characters, and make texts.
LEMMA MarkFacts ==
    \A c \in {"n", "d", "m", "p", ":", "=", ";"} : c \in Character /\ <<c>> \in Text
  <1>1. {"n", "d", "m", "p", ":", "=", ";"} \subseteq Character
    BY FingerprintConstants, Zenon
  <1>2. \A c \in Character : <<c>> \in Text
    BY DEF Text
  <1> QED
    BY <1>1, <1>2, Zenon

\* Whatever follows them, x and y tell themselves apart.
Cancels(x, y) ==
    \A u, v \in Text : x \o u = y \o v => x = y /\ u = v

\* Texts of one length, each with something after it, tell themselves apart.
LEMMA CancelSameLength ==
    \A x, y, u, v \in Text : Len(x) = Len(y) /\ x \o u = y \o v => x = y /\ u = v
  <1> SUFFICES ASSUME NEW x \in Text, NEW y \in Text, Len(x) = Len(y),
                      NEW u \in Text, NEW v \in Text, x \o u = y \o v
               PROVE  x = y /\ u = v
    OBVIOUS
  <1>1. /\ Len(x) \in Nat /\ Len(y) \in Nat /\ Len(u) \in Nat
        /\ \A i \in 1..Len(x) + Len(u) : (x \o u)[i] = IF i <= Len(x) THEN x[i] ELSE u[i - Len(x)]
        /\ \A i \in 1..Len(y) + Len(v) : (y \o v)[i] = IF i <= Len(y) THEN y[i] ELSE v[i - Len(y)]
        /\ Len(x \o u) = Len(x) + Len(u) /\ Len(y \o v) = Len(y) + Len(v)
        /\ Len(v) \in Nat
    BY ConcatProperties, LenProperties DEF Text
  <1>2. Len(u) = Len(v)
    BY <1>1
  <1>3. \A i \in 1..Len(x) : x[i] = y[i]
    <2> SUFFICES ASSUME NEW i \in 1..Len(x) PROVE x[i] = y[i]
      OBVIOUS
    <2>1. i \in 1..Len(x) + Len(u) /\ i <= Len(x)
      BY <1>1
    <2>2. (x \o u)[i] = x[i] /\ (y \o v)[i] = y[i]
      BY <1>1, <1>2, <2>1
    <2> QED
      BY <2>2
  <1>4. x = y
    BY <1>3, SeqEqual DEF Text
  <1>5. \A i \in 1..Len(u) : u[i] = v[i]
    <2> SUFFICES ASSUME NEW i \in 1..Len(u) PROVE u[i] = v[i]
      OBVIOUS
    <2> DEFINE j == Len(x) + i
    <2>1. j \in 1..Len(x) + Len(u) /\ ~ j <= Len(x) /\ j - Len(x) = i
      BY <1>1
    <2> HIDE DEF j
    <2>2. (x \o u)[j] = u[i] /\ (y \o v)[j] = v[i]
      BY <1>1, <1>2, <2>1
    <2> QED
      BY <2>2
  <1>6. u = v
    BY <1>2, <1>5, SeqEqual DEF Text
  <1> QED
    BY <1>4, <1>6

\* A text without a mark in it.
Lacks(x, mark) == \A i \in 1..Len(x) : x[i] # mark

\* A run of characters ends where a mark it lacks follows it.
LEMMA CancelDelimited ==
    \A x, y, u, v \in Text, mark \in Character :
        Lacks(x, mark) /\ Lacks(y, mark) /\ x \o (<<mark>> \o u) = y \o (<<mark>> \o v) =>
            x = y /\ u = v
  <1> SUFFICES ASSUME NEW x \in Text, NEW y \in Text, NEW u \in Text, NEW v \in Text,
                      NEW mark \in Character, Lacks(x, mark), Lacks(y, mark),
                      x \o (<<mark>> \o u) = y \o (<<mark>> \o v)
               PROVE  x = y /\ u = v
    BY Zenon
  <1>0. (\A i \in 1..Len(x) : x[i] # mark) /\ (\A i \in 1..Len(y) : y[i] # mark)
    BY DEF Lacks
  <1> DEFINE us == <<mark>> \o u
             vs == <<mark>> \o v
  <1>1. <<mark>> \in Text /\ us \in Text /\ vs \in Text
    BY ConcatProperties DEF Text
  <1>2. us[1] = mark /\ vs[1] = mark /\ Len(us) > 0 /\ Len(vs) > 0
    BY ConcatProperties, LenProperties DEF Text
  <1> HIDE DEF us, vs
  <1>3. \A a, b \in Text : Len(b) > 0 =>
           /\ Len(a) \in Nat /\ Len(b) \in Nat
           /\ \A i \in 1..Len(a) : (a \o b)[i] = a[i]
           /\ (a \o b)[Len(a) + 1] = b[1]
    <2> SUFFICES ASSUME NEW a \in Text, NEW b \in Text, Len(b) > 0
                 PROVE  /\ Len(a) \in Nat /\ Len(b) \in Nat
                        /\ \A i \in 1..Len(a) : (a \o b)[i] = a[i]
                        /\ (a \o b)[Len(a) + 1] = b[1]
      OBVIOUS
    <2>1. Len(a) \in Nat /\ Len(b) \in Nat
      BY LenProperties DEF Text
    <2>2. \A i \in 1..Len(a) + Len(b) : (a \o b)[i] = IF i <= Len(a) THEN a[i] ELSE b[i - Len(a)]
      BY ConcatProperties DEF Text
    <2> QED
      BY <2>1, <2>2
  <1>4. x \o us = y \o vs
    BY DEF us, vs
  <1>5. Len(x) \in Nat /\ Len(y) \in Nat
    BY LenProperties DEF Text
  <1>6. ~ Len(x) < Len(y)
    <2> SUFFICES ASSUME Len(x) < Len(y) PROVE FALSE
      OBVIOUS
    <2>1. Len(x) + 1 \in 1..Len(y)
      BY <1>5
    <2>2. (x \o us)[Len(x) + 1] = mark
      BY <1>1, <1>2, <1>3
    <2>3. (y \o vs)[Len(x) + 1] = y[Len(x) + 1]
      BY <1>1, <1>2, <1>3, <2>1
    <2> QED
      BY <1>0, <1>4, <2>1, <2>2, <2>3
  <1>7. ~ Len(y) < Len(x)
    <2> SUFFICES ASSUME Len(y) < Len(x) PROVE FALSE
      OBVIOUS
    <2>1. Len(y) + 1 \in 1..Len(x)
      BY <1>5
    <2>2. (y \o vs)[Len(y) + 1] = mark
      BY <1>1, <1>2, <1>3
    <2>3. (x \o us)[Len(y) + 1] = x[Len(y) + 1]
      BY <1>1, <1>2, <1>3, <2>1
    <2> QED
      BY <1>0, <1>4, <2>1, <2>2, <2>3
  <1>8. Len(x) = Len(y)
    BY <1>5, <1>6, <1>7
  <1>9. x = y /\ us = vs
    <2>1. us \in Text /\ vs \in Text
      BY <1>1
    <2>2. \A a, b \in Text : x \o a = y \o b => x = y /\ a = b
      BY <1>8, CancelSameLength, Zenon
    <2> QED
      BY <2>1, <2>2, <1>4, Zenon
  <1>10. <<mark>> \o u = <<mark>> \o v
    BY <1>9 DEF us, vs
  <1>11. Len(<<mark>>) = Len(<<mark>>)
    OBVIOUS
  <1>12. u = v
    BY <1>1, <1>10, <1>11, CancelSameLength, Zenon
  <1> QED
    BY <1>9, <1>12, Zenon

----------------------------------------------------------------------------
\* Numbers, written out.
Figures == {Digit[i] : i \in 0..Base - 1}

\* A number past the digits has one digit less before its last.
LEMMA DivisionFacts ==
    ASSUME NEW n \in Nat, NEW b \in Nat \ {0, 1}
    PROVE  /\ n \div b \in Nat /\ n % b \in 0..b - 1
           /\ n = b * (n \div b) + (n % b)
           /\ b <= n => n \div b < n
  <1>1. n \div b \in Int /\ n % b \in 0..b - 1 /\ n = b * (n \div b) + (n % b)
    OBVIOUS
  <1>2. n \div b >= 0
    OBVIOUS
  <1>3. \A q, r \in Nat : n = b * q + r /\ n > 0 => q < n
    <2> SUFFICES ASSUME NEW q \in Nat, NEW r \in Nat, n = b * q + r, n > 0
                 PROVE  q < n
      OBVIOUS
    <2> QED
      OBVIOUS
  <1>4. n \div b \in Nat /\ n % b \in Nat
    BY <1>1, <1>2
  <1>5. b <= n => n > 0
    OBVIOUS
  <1>6. b <= n => n \div b < n
    BY <1>1, <1>3, <1>4, <1>5, Zenon
  <1> QED
    BY <1>1, <1>4, <1>6, Zenon

\* Every number has a numeral, of digits and never empty.
LEMMA DigitsFacts ==
    /\ Digits \in [Nat -> Seq(Figures) \ {<<>>}]
    /\ \A n \in Nat : Digits[n] = IF n < Base THEN <<Digit[n]>>
                                  ELSE Append(Digits[n \div Base], Digit[n % Base])
  <1> DEFINE V == Seq(Figures) \ {<<>>}
             past == {n \in Nat : Base <= n}
             first == [n \in Nat |-> IF n < Base THEN <<Digit[n]>> ELSE <<Digit[0]>>]
             before == [n \in Nat |-> n \div Base]
             step == [q \in Nat \X V |-> Append(q[2], Digit[q[1] % Base])]
  <1>1. Base \in Nat /\ Base > 1 /\ \A n \in 0..Base - 1 : Digit[n] \in Figures
    BY BaseFacts, DigitFacts DEF Figures
  <1>2. \A n \in Nat : n \div Base \in Nat /\ n % Base \in 0..Base - 1 /\ (Base <= n => n \div Base < n)
    <2>1. Base \in Nat \ {0, 1}
      BY <1>1
    <2> QED
      BY <2>1, DivisionFacts, Zenon
  <1>3. first \in [Nat -> V]
    <2>1. \A n \in Nat : n < Base => n \in 0..Base - 1
      BY <1>1
    <2>2. 0 \in 0..Base - 1
      BY <1>1
    <2>3. \A d \in Figures : <<d>> \in V
      OBVIOUS
    <2> QED
      BY <1>1, <2>1, <2>2, <2>3
  <1>4. before \in [Nat -> Nat] /\ GoesDown(before, past)
    BY <1>2 DEF GoesDown
  <1>5. \A v \in V, d \in Figures : Append(v, d) \in V
    <2> SUFFICES ASSUME NEW v \in Seq(Figures), NEW d \in Figures
                 PROVE  Append(v, d) \in Seq(Figures) /\ Append(v, d) # <<>>
      BY Zenon
    <2> QED
      BY AppendProperties
  <1>6. step \in [Nat \X V -> V] /\ \A n \in Nat, v \in V : step[<<n, v>>] = Append(v, Digit[n % Base])
    <2>2. \A n \in Nat : Digit[n % Base] \in Figures
      BY <1>1, <1>2
    <2> HIDE DEF V
    <2> QED
      BY <1>5, <2>2
  <1>7. past \in SUBSET Nat
    OBVIOUS
  <1> DEFINE D(f) == f = [n \in Nat |-> IF n < Base THEN <<Digit[n]>>
                                         ELSE Append(f[n \div Base], Digit[n % Base])]
  <1>8. PICK f \in [Nat -> V] : RunsDown(f, first, past, before, step)
    <2> HIDE DEF V, first, past, before, step
    <2> QED
      BY <1>3, <1>4, <1>6, <1>7, RecursionDown
  <1>9. \A n \in Nat : f[n] = IF n < Base THEN <<Digit[n]>>
                              ELSE Append(f[n \div Base], Digit[n % Base])
    <2> SUFFICES ASSUME NEW n \in Nat
                 PROVE  f[n] = IF n < Base THEN <<Digit[n]>>
                               ELSE Append(f[n \div Base], Digit[n % Base])
      OBVIOUS
    <2>1. n \in past <=> ~ n < Base
      BY <1>1
    <2>2. n < Base => first[n] = <<Digit[n]>>
      OBVIOUS
    <2>3. before[n] = n \div Base /\ n \div Base \in Nat
      BY <1>2
    <2>4. f[n \div Base] \in V
      BY <1>8, <2>3
    <2>5. step[<<n, f[n \div Base]>>] = Append(f[n \div Base], Digit[n % Base])
      BY <1>6, <2>4
    <2> HIDE DEF V, first, past, before, step
    <2> QED
      BY <1>8, <2>1, <2>2, <2>3, <2>5 DEF RunsDown
  <1>10. D(f)
    <2>1. f = [n \in Nat |-> f[n]]
      BY <1>8
    <2> QED
      BY <1>9, <2>1
  <1>11. D(Digits)
    <2>1. Digits = CHOOSE g : D(g)
      BY DEF Digits
    <2> HIDE DEF D
    <2> QED
      BY <1>10, <2>1
  <1>12. /\ Digits = [n \in Nat |-> Digits[n]]
         /\ \A n \in Nat : Digits[n] = IF n < Base THEN <<Digit[n]>>
                                       ELSE Append(Digits[n \div Base], Digit[n % Base])
    BY <1>11
  <1>13. \A n \in Nat : Digits[n] \in V
    <2> DEFINE Bad == {n \in Nat : Digits[n] \notin V}
    <2> SUFFICES ASSUME Bad # {} PROVE FALSE
      OBVIOUS
    <2>1. PICK n \in Bad : \A m \in Bad : n <= m
      <3>1. Bad \in SUBSET Nat
        OBVIOUS
      <3> HIDE DEF Bad
      <3> QED
        BY <3>1, LeastNat
    <2>0. n \in Nat /\ Digits[n] \notin V
      BY <2>1, Zenon
    <2>5. \A m \in Nat : m < n => Digits[m] \in V
      <3> HIDE DEF V
      <3>1. \A m \in Nat : m < n => m \notin Bad
        BY <2>0, <2>1
      <3> QED
        BY <3>1
    <2> HIDE DEF Bad
    <2>2. CASE n < Base
      <3>1. n \in 0..Base - 1
        BY <1>1, <2>0, <2>2
      <3>3. Digits[n] = <<Digit[n]>>
        BY <1>12, <2>0, <2>2
      <3>2. Digit[n] \in Figures
        BY <1>1, <3>1
      <3>4. \A d \in Figures : <<d>> \in V
        OBVIOUS
      <3> HIDE DEF V
      <3> QED
        BY <2>0, <3>2, <3>3, <3>4
    <2>3. CASE Base <= n
      <3>1. n \div Base \in Nat /\ n \div Base < n /\ n \in Nat /\ ~ n < Base
        BY <1>1, <1>2, <2>0, <2>3
      <3>3. Digits[n \div Base] \in V
        BY <2>5, <3>1
      <3>4. Digits[n] = Append(Digits[n \div Base], Digit[n % Base])
        BY <1>12, <3>1
      <3>5. Digit[n % Base] \in Figures
        BY <1>1, <1>2, <3>1
      <3> HIDE DEF V
      <3> QED
        BY <1>5, <2>0, <3>3, <3>4, <3>5
    <2> QED
      BY <1>1, <2>0, <2>2, <2>3
  <1> QED
    BY <1>12, <1>13

\* A numeral is a text of figures, none of which ends it.
LEMMA NumeralFacts ==
    ASSUME NEW n \in Nat
    PROVE  /\ Digits[n] \in Text /\ Len(Digits[n]) > 0
           /\ Lacks(Digits[n], "m") /\ Lacks(Digits[n], ":") /\ Lacks(Digits[n], ";")
  <1>1. Digits[n] \in Seq(Figures) /\ Digits[n] # <<>>
    BY DigitsFacts
  <1>2. \A c \in Figures : c \in Character /\ c # "m" /\ c # ":" /\ c # ";"
    BY DigitFacts, Zenon DEF Figures
  <1>3. \A s \in Seq(Figures) : s # <<>> =>
           s \in Text /\ Len(s) > 0 /\ \A i \in 1..Len(s) : s[i] \in Figures
    <2> SUFFICES ASSUME NEW s \in Seq(Figures), s # <<>>
                 PROVE  s \in Text /\ Len(s) > 0 /\ \A i \in 1..Len(s) : s[i] \in Figures
      OBVIOUS
    <2>1. Figures \subseteq Character
      BY <1>2
    <2>2. s \in Text
      BY <2>1, SeqMonotonic DEF Text
    <2>3. Len(s) > 0
      BY EmptySeq
    <2> QED
      BY <2>2, <2>3, ElementOfSeq
  <1> QED
    BY <1>1, <1>2, <1>3, Zenon DEF Lacks

\* Different numbers have different numerals.
LEMMA NumeralsTell ==
    ASSUME NEW n \in Nat, NEW m \in Nat, Digits[n] = Digits[m]
    PROVE  n = m
  <1> DEFINE Bad == {k \in Nat : \E l \in Nat : Digits[k] = Digits[l] /\ k # l}
  <1> SUFFICES ASSUME n # m PROVE FALSE
    OBVIOUS
  <1>1. n \in Bad
    OBVIOUS
  <1>2. PICK k \in Bad : \A l \in Bad : k <= l
    <2>1. Bad \in SUBSET Nat /\ Bad # {}
      BY <1>1, Zenon
    <2> HIDE DEF Bad
    <2> QED
      BY <2>1, LeastNat
  <1>3. PICK l \in Nat : k \in Nat /\ Digits[k] = Digits[l] /\ k # l
    BY <1>2, Zenon
  <1>4. \A a, b \in Nat : a < k /\ Digits[a] = Digits[b] => a = b
    <2> SUFFICES ASSUME NEW a \in Nat, NEW b \in Nat, a < k, Digits[a] = Digits[b], a # b
                 PROVE  FALSE
      OBVIOUS
    <2>1. a \in Bad
      BY Zenon
    <2>2. k <= a
      BY <1>2, <2>1, Zenon
    <2> QED
      BY <1>3, <2>2
  <1> HIDE DEF Bad
  <1>5. /\ Base \in Nat /\ Base > 1
        /\ \A a \in Nat : /\ a \div Base \in Nat /\ a % Base \in 0..Base - 1
                          /\ a = Base * (a \div Base) + (a % Base)
                          /\ Base <= a => a \div Base < a
    <2>1. Base \in Nat \ {0, 1} /\ Base \in Nat /\ Base > 1
      BY BaseFacts
    <2> QED
      BY <2>1, DivisionFacts, Zenon
  <1>6. \A a \in Nat : a < Base => Len(Digits[a]) = 1 /\ Digits[a][1] = Digit[a] /\ a \in 0..Base - 1
    <2> SUFFICES ASSUME NEW a \in Nat, a < Base
                 PROVE  Len(Digits[a]) = 1 /\ Digits[a][1] = Digit[a] /\ a \in 0..Base - 1
      OBVIOUS
    <2>1. Digits[a] = <<Digit[a]>>
      BY DigitsFacts
    <2> QED
      BY <1>5, <2>1
  <1>7. \A a \in Nat : Base <= a =>
           /\ Digits[a \div Base] \in Seq(Figures)
           /\ Digits[a] = Append(Digits[a \div Base], Digit[a % Base])
           /\ Len(Digits[a]) > 1 /\ Digit[a % Base] \in Figures
    <2> SUFFICES ASSUME NEW a \in Nat, Base <= a
                 PROVE  /\ Digits[a \div Base] \in Seq(Figures)
                        /\ Digits[a] = Append(Digits[a \div Base], Digit[a % Base])
                        /\ Len(Digits[a]) > 1 /\ Digit[a % Base] \in Figures
      OBVIOUS
    <2> DEFINE front == Digits[a \div Base]
               last == Digit[a % Base]
    <2>1. front \in Seq(Figures) /\ front # <<>>
      BY <1>5, DigitsFacts
    <2>2. last \in Figures
      BY <1>5 DEF Figures
    <2>3. Digits[a] = Append(front, last)
      <3>1. ~ a < Base
        BY <1>5
      <3> QED
        BY <3>1, DigitsFacts
    <2> HIDE DEF front, last
    <2>4. Len(front) \in Nat \ {0} /\ Len(Append(front, last)) = Len(front) + 1
      BY <2>1, <2>2, EmptySeq, AppendProperties
    <2>5. Len(Digits[a]) > 1
      BY <2>3, <2>4
    <2> QED
      BY <2>1, <2>2, <2>3, <2>5 DEF front, last
  <1>8. CASE k < Base /\ l < Base
    <2>1. \A i, j \in 0..Base - 1 : Digit[i] = Digit[j] => i = j
      BY DigitFacts, Zenon
    <2>2. Digits[k][1] = Digit[k] /\ Digits[l][1] = Digit[l] /\ k \in 0..Base - 1 /\ l \in 0..Base - 1
      BY <1>3, <1>6, <1>8, Zenon
    <2> QED
      BY <1>3, <2>1, <2>2, Zenon
  <1>9. CASE Base <= k /\ Base <= l
    <2> DEFINE fk == Digits[k \div Base]
               fl == Digits[l \div Base]
               dk == Digit[k % Base]
               dl == Digit[l % Base]
    <2>1. /\ fk \in Seq(Figures) /\ fl \in Seq(Figures) /\ dk \in Figures /\ dl \in Figures
          /\ Append(fk, dk) = Append(fl, dl)
      BY <1>3, <1>7, <1>9
    <2> HIDE DEF fk, fl, dk, dl
    <2>2. fk = fl /\ dk = dl
      BY <2>1, AppendInjective
    <2> USE DEF fk, fl, dk, dl
    <2>3. k \div Base = l \div Base
      BY <1>3, <1>4, <1>5, <1>9, <2>2
    <2>4. k % Base = l % Base
      <3>1. k % Base \in 0..Base - 1 /\ l % Base \in 0..Base - 1
        BY <1>3, <1>5
      <3> QED
        BY <2>2, <3>1, DigitFacts, Zenon
    <2>5. k = Base * (k \div Base) + (k % Base) /\ l = Base * (l \div Base) + (l % Base)
      BY <1>3, <1>5, Zenon
    <2> QED
      BY <1>3, <2>3, <2>4, <2>5, Zenon
  <1>10. CASE k < Base /\ Base <= l
    BY <1>3, <1>6, <1>7, <1>10
  <1>11. CASE Base <= k /\ l < Base
    BY <1>3, <1>6, <1>7, <1>11
  <1> QED
    BY <1>3, <1>5, <1>8, <1>9, <1>10, <1>11

----------------------------------------------------------------------------
\* A field is a text, opened by a figure.
LEMMA FieldFacts ==
    ASSUME NEW text \in Text
    PROVE  /\ Len(text) \in Nat
           /\ Field(text) \in Text /\ Len(Field(text)) > 0 /\ Field(text)[1] # "m"
           /\ \A u \in Text : Field(text) \o u = Digits[Len(text)] \o (<<":">> \o (text \o u))
  <1> DEFINE d == Digits[Len(text)]
  <1>1. Len(text) \in Nat
    BY LenProperties DEF Text
  <1>2. d \in Text /\ Len(d) > 0 /\ d[1] # "m" /\ Len(d) \in Nat
    <2>1. d \in Text /\ Len(d) > 0
      BY <1>1, NumeralFacts, Zenon
    <2>4. \A i \in 1..Len(d) : d[i] # "m"
      BY <1>1, NumeralFacts, Zenon DEF Lacks
    <2> HIDE DEF d
    <2>2. Len(d) \in Nat
      BY <2>1, LenProperties DEF Text
    <2>3. 1 \in 1..Len(d)
      BY <2>1, <2>2
    <2> QED
      BY <2>1, <2>2, <2>3, <2>4, Zenon
  <1> HIDE DEF d
  <1>3. Field(text) = (d \o <<":">>) \o text
    BY DEF Field, d
  <1>4. <<":">> \in Text
    BY MarkFacts, Zenon
  <1>5. \A a, b \in Text : a \o b \in Text
    BY ConcatProperties DEF Text
  <1>6. \A a, b, c \in Text : (a \o b) \o c = a \o (b \o c)
    BY ConcatAssociative DEF Text
  <1>7. Field(text) = d \o (<<":">> \o text) /\ <<":">> \o text \in Text
    BY <1>2, <1>3, <1>4, <1>5, <1>6
  <1>8. \A a, b \in Text : Len(a) > 0 => Len(a \o b) > 0 /\ (a \o b)[1] = a[1]
    <2> SUFFICES ASSUME NEW a \in Text, NEW b \in Text, Len(a) > 0
                 PROVE  Len(a \o b) > 0 /\ (a \o b)[1] = a[1]
      OBVIOUS
    <2>1. Len(a) \in Nat /\ Len(b) \in Nat
      BY LenProperties DEF Text
    <2>2. /\ Len(a \o b) = Len(a) + Len(b)
          /\ \A i \in 1..Len(a) + Len(b) : (a \o b)[i] = IF i <= Len(a) THEN a[i] ELSE b[i - Len(a)]
      BY ConcatProperties DEF Text
    <2>3. 1 \in 1..Len(a) + Len(b) /\ 1 <= Len(a)
      BY <2>1
    <2> QED
      BY <2>1, <2>2, <2>3
  <1>9. Field(text) \in Text /\ Len(Field(text)) > 0 /\ Field(text)[1] # "m"
    BY <1>2, <1>5, <1>7, <1>8
  <1>10. ASSUME NEW u \in Text
         PROVE  Field(text) \o u = d \o (<<":">> \o (text \o u))
    BY <1>2, <1>4, <1>5, <1>6, <1>7
  <1> QED
    BY <1>1, <1>9, <1>10 DEF d

\* A field ends where its length says.
LEMMA FieldCancels ==
    \A text, other, u, v \in Text : Field(text) \o u = Field(other) \o v => text = other /\ u = v
  <1> SUFFICES ASSUME NEW text \in Text, NEW other \in Text, NEW u \in Text, NEW v \in Text,
                      Field(text) \o u = Field(other) \o v
               PROVE  text = other /\ u = v
    BY Zenon
  <1> DEFINE a == text \o u
             b == other \o v
  <1>1. a \in Text /\ b \in Text
    BY ConcatProperties DEF Text
  <1>2. Len(text) \in Nat /\ Len(other) \in Nat
    BY FieldFacts
  <1>3. Digits[Len(text)] \o (<<":">> \o a) = Digits[Len(other)] \o (<<":">> \o b)
    BY FieldFacts
  <1>4. ":" \in Character
    BY MarkFacts, Zenon
  <1>5. /\ Digits[Len(text)] \in Text /\ Lacks(Digits[Len(text)], ":")
        /\ Digits[Len(other)] \in Text /\ Lacks(Digits[Len(other)], ":")
    BY <1>2, NumeralFacts
  <1> HIDE DEF a, b
  <1>6. Digits[Len(text)] = Digits[Len(other)] /\ a = b
    BY <1>1, <1>3, <1>4, <1>5, CancelDelimited, Zenon
  <1>7. Len(text) = Len(other)
    BY <1>2, <1>6, NumeralsTell
  <1>8. text \o u = other \o v
    BY <1>6, Zenon DEF a, b
  <1> QED
    BY <1>7, <1>8, CancelSameLength, Zenon

----------------------------------------------------------------------------
\* The first texts of a list, joined, are a text.
LEMMA TextsFlat ==
    ASSUME NEW N \in Nat, NEW f \in [1..N -> Text]
    PROVE  /\ Flat(f, 0) = <<>>
           /\ \A n \in 1..N : Flat(f, n) = Flat(f, n - 1) \o f[n]
           /\ \A n \in 0..N : Flat(f, n) \in Text
           /\ FlattenSeq(f) = Flat(f, N)
  BY FlatFacts DEF Text

\* A list of texts is a text.
LEMMA FlattenType ==
    \A N \in Nat : \A f \in [1..N -> Text] : FlattenSeq(f) \in Text
  <1> SUFFICES ASSUME NEW N \in Nat, NEW f \in [1..N -> Text] PROVE FlattenSeq(f) \in Text
    OBVIOUS
  <1>1. N \in 0..N
    OBVIOUS
  <1> QED
    BY <1>1, TextsFlat

\* Two lists whose first N texts do.
AllCancel(f, g, N) == \A i \in 1..N : Cancels(f[i], g[i])

\* Lists of one length tell themselves apart where their texts do, one by one.
LEMMA ListCancels ==
    \A N \in Nat : \A f, g \in [1..N -> Text] : AllCancel(f, g, N) =>
        \A u, v \in Text : FlattenSeq(f) \o u = FlattenSeq(g) \o v => f = g /\ u = v
  <1> TAKE N \in Nat
  <1> TAKE f, g \in [1..N -> Text]
  <1> HAVE AllCancel(f, g, N)
  <1> DEFINE Holds(n) == \A u, v \in Text :
                Flat(f, n) \o u = Flat(g, n) \o v => (\A i \in 1..n : f[i] = g[i]) /\ u = v
             T == {n \in 0..N : Holds(n)}
  <1>1. \A x, y \in Text : x \o y \in Text /\ <<>> \o x = x
    BY ConcatProperties, ConcatEmptySeq DEF Text
  <1>2. \A x, y, z \in Text : (x \o y) \o z = x \o (y \o z)
    BY ConcatAssociative DEF Text
  <1>3. Holds(0)
    <2>1. Flat(f, 0) = <<>> /\ Flat(g, 0) = <<>>
      BY TextsFlat
    <2>2. \A i \in 1..0 : f[i] = g[i]
      OBVIOUS
    <2> QED
      BY <1>1, <2>1, <2>2
  <1>4. ASSUME NEW n \in 0..N, Holds(n), n < N PROVE Holds(n + 1)
    <2> DEFINE m == n + 1
    <2>1. m \in 1..N /\ m - 1 = n /\ m \in 0..N /\ \A i \in 1..m : i \in 1..n \/ i = m
      BY <1>4
    <2> SUFFICES ASSUME NEW u \in Text, NEW v \in Text, Flat(f, m) \o u = Flat(g, m) \o v
                 PROVE  (\A i \in 1..m : f[i] = g[i]) /\ u = v
      BY Zenon
    <2> HIDE DEF m
    <2>2. /\ Flat(f, m) = Flat(f, n) \o f[m] /\ Flat(f, n) \in Text /\ f[m] \in Text
          /\ Flat(g, m) = Flat(g, n) \o g[m] /\ Flat(g, n) \in Text /\ g[m] \in Text
      BY <2>1, TextsFlat
    <2>3. /\ Flat(f, n) \o (f[m] \o u) = Flat(g, n) \o (g[m] \o v)
          /\ f[m] \o u \in Text /\ g[m] \o v \in Text
      <3>1. f[m] \o u \in Text /\ g[m] \o v \in Text
        BY <1>1, <2>2, Zenon
      <3>2. (Flat(f, n) \o f[m]) \o u = Flat(f, n) \o (f[m] \o u)
        BY <1>2, <2>2, Zenon
      <3>3. (Flat(g, n) \o g[m]) \o v = Flat(g, n) \o (g[m] \o v)
        BY <1>2, <2>2, Zenon
      <3>4. (Flat(f, n) \o f[m]) \o u = (Flat(g, n) \o g[m]) \o v
        BY <2>2, Zenon
      <3> QED
        BY <3>1, <3>2, <3>3, <3>4, Zenon
    <2>4. (\A i \in 1..n : f[i] = g[i]) /\ f[m] \o u = g[m] \o v
      BY <1>4, <2>3, Zenon
    <2>5. f[m] = g[m] /\ u = v
      BY <2>1, <2>4, Zenon DEF AllCancel, Cancels
    <2> QED
      BY <2>1, <2>4, <2>5, Zenon
  <1>5. Holds(N)
    <2>1. 0 \in T
      <3> HIDE DEF Holds
      <3>1. 0 \in 0..N
        OBVIOUS
      <3> QED
        BY <1>3, <3>1
    <2>2. ASSUME NEW n \in 0..N, n \in T, n < N PROVE n + 1 \in T
      <3> HIDE DEF Holds
      <3>1. n + 1 \in 0..N
        BY <2>2
      <3> QED
        BY <1>4, <2>2, <3>1
    <2> HIDE DEF T
    <2>3. \A n \in 0..N : n \in T
      BY <2>1, <2>2, InductionTo
    <2> HIDE DEF Holds
    <2>4. N \in T
      BY <2>3
    <2> QED
      BY <2>4, Zenon DEF T
  <1>6. FlattenSeq(f) = Flat(f, N) /\ FlattenSeq(g) = Flat(g, N)
    BY TextsFlat
  <1>7. (\A i \in 1..N : f[i] = g[i]) => f = g
    OBVIOUS
  <1> QED
    BY <1>5, <1>6, <1>7, Zenon

----------------------------------------------------------------------------
\* The fields of a list of texts are a text, and where two such lists are as long, they
\* tell themselves apart.
LEMMA FieldsFacts ==
    ASSUME NEW n \in Nat
    PROVE  /\ \A texts \in [1..n -> Text] : Fields(texts) \in Text
           /\ \A texts, others \in [1..n -> Text] : \A u, v \in Text :
                 Fields(texts) \o u = Fields(others) \o v => texts = others /\ u = v
  <1> DEFINE fields(texts) == [i \in 1..n |-> Field(texts[i])]
  <1>1. ASSUME NEW texts \in [1..n -> Text]
        PROVE  fields(texts) \in [1..n -> Text] /\ Fields(texts) = FlattenSeq(fields(texts))
    <2>1. \A i \in 1..n : Field(texts[i]) \in Text
      BY FieldFacts
    <2>2. DOMAIN texts = 1..n
      OBVIOUS
    <2> QED
      BY <2>1, <2>2 DEF Fields
  <1>2. ASSUME NEW texts \in [1..n -> Text]
        PROVE  Fields(texts) \in Text
    <2> HIDE DEF fields
    <2>1. \A f \in [1..n -> Text] : FlattenSeq(f) \in Text
      BY FlattenType, Zenon
    <2> QED
      BY <1>1, <2>1, Zenon
  <1>3. ASSUME NEW texts \in [1..n -> Text], NEW others \in [1..n -> Text],
               NEW u \in Text, NEW v \in Text, Fields(texts) \o u = Fields(others) \o v
        PROVE  texts = others /\ u = v
    <2>1. \A i \in 1..n : fields(texts)[i] = Field(texts[i]) /\ fields(others)[i] = Field(others[i])
      OBVIOUS
    <2> HIDE DEF fields
    <2>2. AllCancel(fields(texts), fields(others), n)
      <3> SUFFICES ASSUME NEW i \in 1..n
                   PROVE  Cancels(fields(texts)[i], fields(others)[i])
        BY Zenon DEF AllCancel
      <3> DEFINE text == texts[i]
                 other == others[i]
      <3>1. text \in Text /\ other \in Text
        OBVIOUS
      <3>2. fields(texts)[i] = Field(text) /\ fields(others)[i] = Field(other)
        BY <2>1, Zenon
      <3> HIDE DEF text, other
      <3>3. Cancels(Field(text), Field(other))
        BY <3>1, FieldCancels, Zenon DEF Cancels
      <3> QED
        BY <3>2, <3>3, Zenon
    <2>3. FlattenSeq(fields(texts)) \o u = FlattenSeq(fields(others)) \o v
      BY <1>1, <1>3, Zenon
    <2>4. fields(texts) = fields(others) /\ u = v
      <3> DEFINE h == fields(texts)
                 k == fields(others)
      <3>1. /\ h \in [1..n -> Text] /\ k \in [1..n -> Text] /\ AllCancel(h, k, n)
            /\ FlattenSeq(h) \o u = FlattenSeq(k) \o v
        BY <1>1, <2>2, <2>3, Zenon
      <3> HIDE DEF h, k
      <3>2. \A f, g \in [1..n -> Text] : AllCancel(f, g, n) =>
               \A x, y \in Text : FlattenSeq(f) \o x = FlattenSeq(g) \o y => f = g /\ x = y
        BY ListCancels, Zenon
      <3>3. h = k /\ u = v
        <4> DEFINE Lists == [1..n -> Text]
        <4>1. h \in Lists /\ k \in Lists
          BY <3>1
        <4>2. \A f, g \in Lists : AllCancel(f, g, n) =>
                 \A x, y \in Text : FlattenSeq(f) \o x = FlattenSeq(g) \o y => f = g /\ x = y
          BY <3>2
        <4> HIDE DEF Lists
        <4>3. AllCancel(h, k, n)
          BY <3>1
        <4>4. FlattenSeq(h) \o u = FlattenSeq(k) \o v
          BY <3>1
        <4>5. \A x, y \in Text : FlattenSeq(h) \o x = FlattenSeq(k) \o y => h = k /\ x = y
          BY <4>1, <4>2, <4>3
        <4> QED
          BY <4>4, <4>5
      <3> QED
        BY <3>3 DEF h, k
    <2>5. \A i \in 1..n : texts[i] = others[i]
      <3> SUFFICES ASSUME NEW i \in 1..n PROVE texts[i] = others[i]
        OBVIOUS
      <3>1. texts[i] \in Text /\ others[i] \in Text
        OBVIOUS
      <3>2. Field(texts[i]) = Field(others[i])
        BY <2>1, <2>4, Zenon
      <3>3. Field(texts[i]) \o u = Field(others[i]) \o u
        BY <3>2, Zenon
      <3> QED
        BY <3>1, <3>3, FieldCancels, Zenon
    <2>6. texts = others
      BY <2>5
    <2> QED
      BY <2>4, <2>6, Zenon
  <1> QED
    BY <1>2, <1>3, Zenon

\* Three texts are one text, however they are grouped.
Regroups(x, y, z) == (x \o y) \o z = x \o (y \o z)

\* Texts put together are a text, and how they are grouped does not matter.
LEMMA TextsTogether ==
    /\ \A x, y \in Text : x \o y \in Text
    /\ \A x, y, z \in Text : Regroups(x, y, z)
  <1>1. \A x, y \in Text : x \o y \in Text
    BY ConcatProperties DEF Text
  <1>2. \A x, y, z \in Text : (x \o y) \o z = x \o (y \o z)
    BY ConcatAssociative DEF Text
  <1> QED
    BY <1>1, <1>2, Zenon DEF Regroups

\* A count is a text, opened by its word, and ends at its semicolon.
LEMMA CountFacts ==
    ASSUME NEW word \in Character
    PROVE  /\ \A n \in Nat : Count(word, n) \in Text
           /\ \A n \in Nat, u \in Text : (Count(word, n) \o u)[1] = word
           /\ \A n, k \in Nat : \A u, v \in Text :
                 Count(word, n) \o u = Count(word, k) \o v => n = k /\ u = v
  <1> DEFINE head == <<word, "=">>
             end == <<";">>
  <1>1. word \in Character /\ "=" \in Character /\ ";" \in Character
    BY MarkFacts, Zenon
  <1>2. head \in Text /\ end \in Text /\ Len(head) = 2 /\ head[1] = word
    <2>1. \A a, b \in Character : <<a, b>> \in Text /\ Len(<<a, b>>) = 2 /\ <<a, b>>[1] = a
      BY DEF Text
    <2> QED
      BY <1>1, <2>1, MarkFacts, Zenon
  <1>3. \A n \in Nat : Count(word, n) = (head \o Digits[n]) \o end
    BY DEF Count
  <1> HIDE DEF head
  <1>4. \A x, y \in Text : x \o y \in Text
    BY TextsTogether, Zenon
  <1>5. \A x, y, z \in Text : Regroups(x, y, z)
    BY TextsTogether, Zenon
  <1>6. \A n \in Nat : Digits[n] \in Text /\ Lacks(Digits[n], ";")
    BY NumeralFacts, Zenon
  <1>7. ASSUME NEW n \in Nat
        PROVE  Count(word, n) \in Text
    <2> HIDE DEF end
    <2>1. Digits[n] \in Text
      BY <1>6, Zenon
    <2>2. head \o Digits[n] \in Text
      BY <1>2, <1>4, <2>1, Zenon
    <2>3. (head \o Digits[n]) \o end \in Text
      BY <1>2, <1>4, <2>2, Zenon
    <2> QED
      BY <1>3, <2>3, Zenon
  <1>8. ASSUME NEW n \in Nat, NEW u \in Text
        PROVE  /\ Count(word, n) \o u = head \o (Digits[n] \o (end \o u))
               /\ Digits[n] \o (end \o u) \in Text
    <2> DEFINE digits == Digits[n]
               before == head \o digits
               after == end \o u
    <2>1. digits \in Text /\ Count(word, n) = before \o end
      BY <1>3, <1>6, Zenon
    <2> HIDE DEF digits
    <2>2. before \in Text /\ after \in Text
      BY <1>2, <1>4, <2>1, Zenon
    <2> HIDE DEF before, after
    <2>3. digits \o after \in Text
      BY <1>4, <2>1, <2>2, Zenon
    <2> HIDE DEF end
    <2>4. Regroups(before, end, u) /\ Regroups(head, digits, after)
      BY <1>2, <1>5, <2>1, <2>2
    <2>5. (before \o end) \o u = before \o after
      BY <2>4, Zenon DEF Regroups, after
    <2>6. before \o after = head \o (digits \o after)
      BY <2>4, Zenon DEF Regroups, before
    <2>7. Count(word, n) \o u = head \o (digits \o after)
      BY <2>1, <2>5, <2>6, Zenon
    <2> QED
      BY <2>3, <2>7, Zenon DEF digits, after
  <1>9. ASSUME NEW n \in Nat, NEW u \in Text
        PROVE  (Count(word, n) \o u)[1] = word
    <2> DEFINE rest == Digits[n] \o (end \o u)
    <2>1. rest \in Text /\ Count(word, n) \o u = head \o rest
      BY <1>8
    <2> HIDE DEF rest
    <2>2. (head \o rest)[1] = head[1]
      <3>1. Len(rest) \in Nat
        BY <2>1, LenProperties DEF Text
      <3>2. \A i \in 1..Len(head) + Len(rest) :
               (head \o rest)[i] = IF i <= Len(head) THEN head[i] ELSE rest[i - Len(head)]
        BY <1>2, <2>1, ConcatProperties DEF Text
      <3>3. 1 \in 1..Len(head) + Len(rest) /\ 1 <= Len(head)
        <4>1. Len(head) = 2
          BY <1>2, Zenon
        <4> QED
          BY <3>1, <4>1
      <3> QED
        BY <3>2, <3>3
    <2> QED
      BY <1>2, <2>1, <2>2
  <1>10. ASSUME NEW n \in Nat, NEW k \in Nat, NEW u \in Text, NEW v \in Text,
                Count(word, n) \o u = Count(word, k) \o v
         PROVE  n = k /\ u = v
    <2>1. head \o (Digits[n] \o (end \o u)) = head \o (Digits[k] \o (end \o v))
      BY <1>8, <1>10, Zenon
    <2>2. Digits[n] \o (end \o u) = Digits[k] \o (end \o v)
      <3> DEFINE a == Digits[n] \o (end \o u)
                 b == Digits[k] \o (end \o v)
      <3>1. a \in Text /\ b \in Text /\ head \o a = head \o b /\ head \in Text
        BY <1>2, <1>8, <2>1, Zenon
      <3> HIDE DEF a, b
      <3>2. \A x, y \in Text : head \o x = head \o y => x = y
        BY <1>2, CancelSameLength, Zenon
      <3>3. a = b
        BY <3>1, <3>2, Zenon
      <3> QED
        BY <3>3 DEF a, b
    <2>3. Digits[n] = Digits[k] /\ u = v
      <3>1. /\ Digits[n] \in Text /\ Lacks(Digits[n], ";")
            /\ Digits[k] \in Text /\ Lacks(Digits[k], ";")
        BY <1>6, Zenon
      <3>2. Digits[n] \o (<<";">> \o u) = Digits[k] \o (<<";">> \o v)
        BY <2>2
      <3> QED
        BY <1>1, <3>1, <3>2, CancelDelimited, Zenon
    <2> QED
      BY <2>3, NumeralsTell
  <1> QED
    BY <1>7, <1>9, <1>10, Zenon

\* Whatever follows them, the counts of n and of k tell themselves apart.
CountTell(word, n, k) == \A u, v \in Text :
    Count(word, n) \o u = Count(word, k) \o v => n = k /\ u = v

\* CountFacts in those words.
LEMMA CountsTell == \A word \in Character : \A n, k \in Nat : CountTell(word, n, k)
  <1> TAKE word \in Character
  <1>1. \A n, k \in Nat : \A u, v \in Text :
           Count(word, n) \o u = Count(word, k) \o v => n = k /\ u = v
    BY CountFacts, Zenon
  <1> QED
    BY <1>1, Zenon DEF CountTell

----------------------------------------------------------------------------
\* The keys of a finite map, in one order: each of them once, and nothing else.
LEMMA KeysFacts ==
    ASSUME NEW S, IsFiniteSet(S)
    PROVE  /\ Cardinality(S) \in Nat
           /\ SetToSeq(S) \in [1..Cardinality(S) -> S]
           /\ \A x \in S : \E i \in 1..Cardinality(S) : SetToSeq(S)[i] = x
  <1> DEFINE N == Cardinality(S)
             P(f) == f \in [1..N -> S] /\ IsInjective(f)
             keys == SetToSeq(S)
  <1>1. N \in Nat /\ ExistsBijection(1..N, S)
    BY FS_CardinalityType
  <1>2. \E f : P(f)
    BY <1>1 DEF ExistsBijection, Bijection, Injection
  <1>3. keys = CHOOSE f \in [1..N -> S] : IsInjective(f)
    BY DEF SetToSeq
  <1>4. P(keys)
    <2> HIDE DEF N, keys
    <2> QED
      BY <1>2, <1>3
  <1> HIDE DEF keys
  <1>5. IsFiniteSet(1..N) /\ Cardinality(1..N) = N
    BY <1>1, FS_Interval
  <1>6. ASSUME NEW x \in S, \A i \in 1..N : keys[i] # x
        PROVE  FALSE
    <2>1. keys \in Injection(1..N, S \ {x})
      <3>1. keys \in [1..N -> S \ {x}]
        BY <1>4, <1>6
      <3> QED
        BY <1>4, <3>1 DEF Injection
    <2>2. IsFiniteSet(S \ {x}) /\ Cardinality(S \ {x}) = N - 1
      BY FS_RemoveElement
    <2>3. N <= N - 1
      BY <1>5, <2>1, <2>2, FS_Injection
    <2> QED
      BY <1>1, <2>3
  <1> QED
    BY <1>1, <1>4, <1>6 DEF keys

\* The parts of the bytes hashed.
Noted(draft) == Fields(<<<<"n">>, draft.note>>)
Dated(draft) == IF draft.date = NoText THEN <<>> ELSE Fields(<<<<"d">>, draft.date>>)
KeyOrder(draft) == SetToSeq(DOMAIN draft.metadata)
Pair(draft, i) == Fields(<<KeyOrder(draft)[i], draft.metadata[KeyOrder(draft)[i]]>>)
Pairs(draft) == FlattenSeq([i \in 1..Cardinality(DOMAIN draft.metadata) |-> Pair(draft, i)])
Legs(draft) == FlattenSeq([i \in 1..Len(draft.postings) |-> Fields(draft.postings[i])])

\* Six texts, put together from the left and from the right.
FromLeft(a, b, c, d, e, f) == ((((a \o b) \o c) \o d) \o e) \o f
FromRight(a, b, c, d, e, f) == a \o (b \o (c \o (d \o (e \o f))))

\* It is the same text.
LEMMA Regrouped ==
    ASSUME NEW a \in Text, NEW b \in Text, NEW c \in Text,
           NEW d \in Text, NEW e \in Text, NEW f \in Text
    PROVE  FromLeft(a, b, c, d, e, f) = FromRight(a, b, c, d, e, f)
  <1> DEFINE ef == e \o f
             def == d \o ef
             cdef == c \o def
             ab == a \o b
             abc == ab \o c
             abcd == abc \o d
  <1>1. ef \in Text /\ ab \in Text
    BY TextsTogether, Zenon
  <1>2. def \in Text /\ abc \in Text
    <2> HIDE DEF ef, ab
    <2> QED
      BY <1>1, TextsTogether, Zenon
  <1>3. cdef \in Text /\ abcd \in Text
    <2> HIDE DEF def, abc
    <2> QED
      BY <1>2, TextsTogether, Zenon
  <1> HIDE DEF ef, def, cdef, ab, abc, abcd
  <1>4. /\ Regroups(abcd, e, f) /\ Regroups(abc, d, ef)
        /\ Regroups(ab, c, def) /\ Regroups(a, b, cdef)
    BY <1>1, <1>2, <1>3, TextsTogether
  <1>5. (abcd \o e) \o f = abcd \o ef
    BY <1>4, Zenon DEF Regroups, ef
  <1>6. abcd \o ef = abc \o def
    BY <1>4, Zenon DEF Regroups, abcd, def
  <1>7. abc \o def = ab \o cdef
    BY <1>4, Zenon DEF Regroups, abc, cdef
  <1>8. ab \o cdef = a \o (b \o cdef)
    BY <1>4, Zenon DEF Regroups, ab
  <1>9. (abcd \o e) \o f = a \o (b \o cdef)
    BY <1>5, <1>6, <1>7, <1>8, Zenon
  <1> QED
    BY <1>9, Zenon DEF FromLeft, FromRight, ef, def, cdef, ab, abc, abcd

\* They are texts, one after another.
LEMMA PreimageParts ==
    ASSUME NEW draft, IsContent(draft)
    PROVE  /\ Noted(draft) \in Text /\ Dated(draft) \in Text
           /\ Pairs(draft) \in Text /\ Legs(draft) \in Text
           /\ Cardinality(DOMAIN draft.metadata) \in Nat /\ Len(draft.postings) \in Nat
           /\ Preimage(draft) =
                Noted(draft) \o (Dated(draft) \o
                  (Count("m", Cardinality(DOMAIN draft.metadata)) \o (Pairs(draft) \o
                    (Count("p", Len(draft.postings)) \o Legs(draft)))))
  <1> DEFINE S == DOMAIN draft.metadata
             N == Cardinality(S)
             L == Len(draft.postings)
             keys == KeyOrder(draft)
  <1>1. /\ draft.note \in Text /\ draft.date \in Text \cup {NoText}
        /\ IsFiniteSet(S) /\ S \subseteq Text /\ draft.metadata \in [S -> Text]
        /\ draft.postings \in Seq([1..5 -> Text])
    BY DEF IsContent
  <1>2. N \in Nat /\ keys \in [1..N -> S] /\ L \in Nat /\ DOMAIN draft.postings = 1..L
        /\ Len(keys) = N /\ DOMAIN keys = 1..N
    <2>1. N \in Nat /\ keys \in [1..N -> S]
      BY <1>1, KeysFacts DEF KeyOrder
    <2>2. L \in Nat /\ DOMAIN draft.postings = 1..L
      BY <1>1, LenProperties
    <2> HIDE DEF N, S, keys
    <2>3. Len(keys) = N /\ DOMAIN keys = 1..N
      BY <2>1
    <2> QED
      BY <2>1, <2>2, <2>3 DEF S
  <1>3. \A x, y \in Text : Fields(<<x, y>>) \in Text
    <2>1. \A x, y \in Text : <<x, y>> \in [1..2 -> Text]
      OBVIOUS
    <2> QED
      BY <2>1, FieldsFacts
  <1>4. Noted(draft) \in Text /\ Dated(draft) \in Text
    <2>1. <<"n">> \in Text /\ <<"d">> \in Text /\ <<>> \in Text
      BY MarkFacts, EmptySeq DEF Text
    <2>2. Noted(draft) \in Text
      BY <1>1, <1>3, <2>1, Zenon DEF Noted
    <2>3. draft.date # NoText => Fields(<<<<"d">>, draft.date>>) \in Text
      BY <1>1, <1>3, <2>1
    <2> QED
      BY <2>1, <2>2, <2>3, Zenon DEF Dated
  <1>5. [i \in 1..N |-> Pair(draft, i)] \in [1..N -> Text] /\ Pairs(draft) \in Text
    <2>1. ASSUME NEW i \in 1..N
          PROVE  Pair(draft, i) \in Text
      <3>1. keys[i] \in S
        BY <1>2
      <3>2. keys[i] \in Text /\ draft.metadata[keys[i]] \in Text
        BY <1>1, <3>1
      <3> QED
        BY <1>3, <3>2, Zenon DEF Pair
    <2>2. [i \in 1..N |-> Pair(draft, i)] \in [1..N -> Text]
      BY <2>1
    <2> QED
      BY <1>2, <2>2, FlattenType, Zenon DEF Pairs
  <1>6. [i \in 1..L |-> Fields(draft.postings[i])] \in [1..L -> Text] /\ Legs(draft) \in Text
    <2>1. ASSUME NEW i \in 1..L
          PROVE  Fields(draft.postings[i]) \in Text
      <3>1. draft.postings[i] \in [1..5 -> Text]
        BY <1>1
      <3> QED
        BY <3>1, FieldsFacts
    <2>2. [i \in 1..L |-> Fields(draft.postings[i])] \in [1..L -> Text]
      BY <2>1
    <2> QED
      BY <1>2, <2>2, FlattenType, Zenon DEF Legs
  <1>7. Preimage(draft) =
          ((((Noted(draft) \o Dated(draft)) \o Count("m", N)) \o Pairs(draft)) \o Count("p", L)) \o Legs(draft)
    <2>1. Preimage(draft) =
             ((((Fields(<<<<"n">>, draft.note>>)
             \o (IF draft.date = NoText THEN <<>> ELSE Fields(<<<<"d">>, draft.date>>)))
             \o Count("m", Len(keys)))
             \o FlattenSeq([i \in DOMAIN keys |-> Fields(<<keys[i], draft.metadata[keys[i]]>>)]))
             \o Count("p", L))
             \o FlattenSeq([i \in DOMAIN draft.postings |-> Fields(draft.postings[i])])
      BY Zenon DEF Preimage, KeyOrder
    <2>2. FlattenSeq([i \in DOMAIN keys |-> Fields(<<keys[i], draft.metadata[keys[i]]>>)]) = Pairs(draft)
      BY <1>2, Zenon DEF Pairs, Pair
    <2>3. FlattenSeq([i \in DOMAIN draft.postings |-> Fields(draft.postings[i])]) = Legs(draft)
      BY <1>2, Zenon DEF Legs
    <2> QED
      BY <1>2, <2>1, <2>2, <2>3, Zenon DEF Noted, Dated
  <1>8. Count("m", N) \in Text /\ Count("p", L) \in Text
    BY <1>2, MarkFacts, CountFacts, Zenon
  <1>9. Preimage(draft) =
          Noted(draft) \o (Dated(draft) \o
            (Count("m", N) \o (Pairs(draft) \o (Count("p", L) \o Legs(draft)))))
    <2> DEFINE a == Noted(draft)
               b == Dated(draft)
               c == Count("m", N)
               d == Pairs(draft)
               e == Count("p", L)
               f == Legs(draft)
    <2>1. a \in Text /\ b \in Text /\ c \in Text /\ d \in Text /\ e \in Text /\ f \in Text
      BY <1>4, <1>5, <1>6, <1>8, Zenon
    <2>2. Preimage(draft) = FromLeft(a, b, c, d, e, f)
      BY <1>7, Zenon DEF FromLeft
    <2> HIDE DEF a, b, c, d, e, f
    <2>3. Preimage(draft) = FromRight(a, b, c, d, e, f)
      BY <2>1, <2>2, Regrouped
    <2> QED
      BY <2>3, Zenon DEF a, b, c, d, e, f, FromRight
  <1> QED
    BY <1>2, <1>4, <1>5, <1>6, <1>9, Zenon

----------------------------------------------------------------------------
\* Two fields, one after the other.
Two(x, y) == Fields(<<x, y>>)

\* Whatever follows them, x and y tell themselves apart from z and w.
TwoTell(x, y, z, w) == \A u, v \in Text :
    Two(x, y) \o u = Two(z, w) \o v => x = z /\ y = w /\ u = v

\* They are a text opened by a figure, and tell themselves apart from any other two.
LEMMA TwoFields ==
    /\ \A x, y \in Text : Two(x, y) \in Text
    /\ \A x, y, u \in Text : (Two(x, y) \o u)[1] # "m"
    /\ \A x, y, z, w \in Text : TwoTell(x, y, z, w)
  <1>1. ASSUME NEW x \in Text, NEW y \in Text
        PROVE  /\ <<x, y>> \in [1..2 -> Text] /\ Two(x, y) \in Text
               /\ Two(x, y) = Field(x) \o Field(y)
    <2> DEFINE f == [i \in 1..2 |-> Field(<<x, y>>[i])]
    <2>1. <<x, y>> \in [1..2 -> Text] /\ DOMAIN <<x, y>> = 1..2
      OBVIOUS
    <2>2. f[1] = Field(x) /\ f[2] = Field(y) /\ f = [i \in 1..2 |-> f[i]]
      OBVIOUS
    <2>3. Field(x) \in Text /\ Field(y) \in Text
      BY FieldFacts
    <2>4. Two(x, y) = FlattenSeq(f)
      BY <2>1, Zenon DEF Two, Fields
    <2> HIDE DEF f
    <2>5. \A i \in 1..2 : i = 1 \/ i = 2
      OBVIOUS
    <2>6. f \in [1..2 -> Text]
      <3>1. \A i \in 1..2 : f[i] \in Text
        BY <2>2, <2>3, <2>5, Zenon
      <3> QED
        BY <2>2, <3>1
    <2>7. /\ Flat(f, 0) = <<>> /\ FlattenSeq(f) = Flat(f, 2)
          /\ \A n \in 1..2 : Flat(f, n) = Flat(f, n - 1) \o f[n]
      BY <2>6, TextsFlat
    <2>8. Flat(f, 2) = Flat(f, 1) \o f[2] /\ Flat(f, 1) = Flat(f, 0) \o f[1]
      <3>1. 1 \in 1..2 /\ 2 \in 1..2 /\ 1 - 1 = 0 /\ 2 - 1 = 1
        OBVIOUS
      <3> QED
        BY <2>7, <3>1
    <2>9. <<>> \o Field(x) = Field(x)
      BY <2>3, ConcatEmptySeq DEF Text
    <2>10. Two(x, y) = Field(x) \o Field(y)
      BY <2>2, <2>4, <2>7, <2>8, <2>9, Zenon
    <2>11. Two(x, y) \in Text
      BY <2>3, <2>10, TextsTogether, Zenon
    <2> QED
      BY <2>1, <2>10, <2>11, Zenon
  <1>2. ASSUME NEW x \in Text, NEW y \in Text, NEW u \in Text
        PROVE  (Two(x, y) \o u)[1] # "m"
    <2> DEFINE head == Field(x)
               rest == Field(y) \o u
    <2>1. head \in Text /\ Len(head) > 0 /\ head[1] # "m"
      BY FieldFacts
    <2>2. Field(y) \in Text
      BY FieldFacts
    <2>3. rest \in Text
      BY <2>2, TextsTogether, Zenon
    <2>4. Two(x, y) \o u = head \o rest
      <3> DEFINE field == Field(y)
      <3>1. Two(x, y) = head \o field
        BY <1>1, Zenon
      <3>2. field \in Text
        BY <2>2, Zenon
      <3> HIDE DEF head, field
      <3>3. Regroups(head, field, u)
        BY <2>1, <3>2, TextsTogether
      <3>4. Two(x, y) \o u = head \o (field \o u)
        BY <3>1, <3>3, Zenon DEF Regroups
      <3> QED
        BY <3>4, Zenon DEF field
    <2> HIDE DEF head, rest
    <2>5. (head \o rest)[1] = head[1]
      <3>1. Len(head) \in Nat /\ Len(rest) \in Nat
        BY <2>1, <2>3, LenProperties DEF Text
      <3>2. \A i \in 1..Len(head) + Len(rest) :
               (head \o rest)[i] = IF i <= Len(head) THEN head[i] ELSE rest[i - Len(head)]
        BY <2>1, <2>3, ConcatProperties DEF Text
      <3>3. 1 \in 1..Len(head) + Len(rest) /\ 1 <= Len(head)
        BY <2>1, <3>1
      <3> QED
        BY <3>2, <3>3
    <2> QED
      BY <2>1, <2>4, <2>5, Zenon
  <1>3. ASSUME NEW x \in Text, NEW y \in Text, NEW z \in Text, NEW w \in Text,
               NEW u \in Text, NEW v \in Text, Two(x, y) \o u = Two(z, w) \o v
        PROVE  x = z /\ y = w /\ u = v
    <2> DEFINE a == <<x, y>>
               b == <<z, w>>
    <2>1. a \in [1..2 -> Text] /\ b \in [1..2 -> Text]
      BY <1>1, Zenon
    <2>2. Fields(a) \o u = Fields(b) \o v
      BY <1>3, Zenon DEF Two
    <2> HIDE DEF a, b
    <2>3. \A texts, others \in [1..2 -> Text] : \A r, s \in Text :
             Fields(texts) \o r = Fields(others) \o s => texts = others /\ r = s
      BY FieldsFacts
    <2>4. a = b /\ u = v
      <3> DEFINE Twos == [1..2 -> Text]
      <3>1. a \in Twos /\ b \in Twos
        BY <2>1
      <3>2. \A texts, others \in Twos : \A r, s \in Text :
               Fields(texts) \o r = Fields(others) \o s => texts = others /\ r = s
        BY <2>3
      <3> HIDE DEF Twos
      <3>3. \A r, s \in Text : Fields(a) \o r = Fields(b) \o s => a = b /\ r = s
        BY <3>1, <3>2
      <3> QED
        BY <2>2, <3>3
    <2>5. <<x, y>> = <<z, w>>
      BY <2>4 DEF a, b
    <2> QED
      BY <2>4, <2>5
  <1>4. \A x, y, z, w \in Text : TwoTell(x, y, z, w)
    BY <1>3, Zenon DEF TwoTell
  <1> QED
    BY <1>1, <1>2, <1>4, Zenon

\* Lists of texts, and two that tell themselves apart whatever follows them.
Listed(f, N) == f \in [1..N -> Text]
Told(f, g, N) == \A u, v \in Text :
    FlattenSeq(f) \o u = FlattenSeq(g) \o v => u = v /\ \A i \in 1..N : f[i] = g[i]

\* ListCancels in those words.
LEMMA ListsTell ==
    \A N \in Nat : \A f, g : Listed(f, N) /\ Listed(g, N) /\ AllCancel(f, g, N) => Told(f, g, N)
  <1> TAKE N \in Nat
  <1> TAKE f, g
  <1> HAVE Listed(f, N) /\ Listed(g, N) /\ AllCancel(f, g, N)
  <1> DEFINE Lists == [1..N -> Text]
  <1>1. \A h, k \in Lists : AllCancel(h, k, N) =>
           \A x, y \in Text : FlattenSeq(h) \o x = FlattenSeq(k) \o y => h = k /\ x = y
    BY ListCancels, Zenon
  <1>2. f \in Lists /\ g \in Lists
    BY DEF Listed
  <1> HIDE DEF Lists
  <1>3. \A x, y \in Text : FlattenSeq(f) \o x = FlattenSeq(g) \o y => f = g /\ x = y
    BY <1>1, <1>2, Zenon
  <1>4. ASSUME NEW u \in Text, NEW v \in Text, FlattenSeq(f) \o u = FlattenSeq(g) \o v
        PROVE  u = v /\ \A i \in 1..N : f[i] = g[i]
    <2>1. f = g /\ u = v
      BY <1>3, <1>4, Zenon
    <2> QED
      BY <2>1, Zenon
  <1> QED
    BY <1>4, Zenon DEF Told

\* What two drafts say, part by part.
NotesTold(a, b) == \A u, v \in Text : Noted(a) \o u = Noted(b) \o v => a.note = b.note /\ u = v
DatesTold(a, b) == \A u, v \in Text :
    u[1] = "m" /\ v[1] = "m" /\ Dated(a) \o u = Dated(b) \o v => a.date = b.date /\ u = v
MetadataTold(a, b) == \A u, v \in Text :
    Pairs(a) \o u = Pairs(b) \o v => a.metadata = b.metadata /\ u = v

\* Their bytes say the note,
LEMMA NotesTell ==
    ASSUME NEW a, NEW b, IsContent(a), IsContent(b)
    PROVE  NotesTold(a, b)
  <1> SUFFICES ASSUME NEW u \in Text, NEW v \in Text, Noted(a) \o u = Noted(b) \o v
               PROVE  a.note = b.note /\ u = v
    BY Zenon DEF NotesTold
  <1>1. <<"n">> \in Text
    BY MarkFacts, Zenon
  <1>2. a.note \in Text /\ b.note \in Text
    BY DEF IsContent
  <1>3. Two(<<"n">>, a.note) \o u = Two(<<"n">>, b.note) \o v
    BY Zenon DEF Noted, Two
  <1> DEFINE word == <<"n">>
  <1>4. word \in Text
    BY <1>1
  <1> HIDE DEF word
  <1>5. Two(word, a.note) \o u = Two(word, b.note) \o v
    BY <1>3, Zenon DEF word
  <1>6. TwoTell(word, a.note, word, b.note)
    BY <1>2, <1>4, TwoFields, Zenon
  <1> QED
    BY <1>5, <1>6, Zenon DEF TwoTell

\* whether there is a date and which, since the count that follows opens with an m,
LEMMA DatesTell ==
    ASSUME NEW a, NEW b, IsContent(a), IsContent(b)
    PROVE  DatesTold(a, b)
  <1> SUFFICES ASSUME NEW u \in Text, NEW v \in Text,
                      u[1] = "m", v[1] = "m", Dated(a) \o u = Dated(b) \o v
               PROVE  a.date = b.date /\ u = v
    BY Zenon DEF DatesTold
  <1> DEFINE word == <<"d">>
             letter == "m"
  <1>1. word \in Text
    BY MarkFacts, Zenon
  <1>2. a.date \in Text \cup {NoText} /\ b.date \in Text \cup {NoText}
    BY DEF IsContent
  <1>3. /\ a.date = NoText => Dated(a) = <<>>
        /\ a.date # NoText => Dated(a) = Two(word, a.date)
        /\ b.date = NoText => Dated(b) = <<>>
        /\ b.date # NoText => Dated(b) = Two(word, b.date)
    BY Zenon DEF Dated, Two
  <1>4. <<>> \o u = u /\ <<>> \o v = v
    BY ConcatEmptySeq DEF Text
  <1>5. u[1] = letter /\ v[1] = letter
    OBVIOUS
  <1>6. \A x, y, w \in Text : (Two(x, y) \o w)[1] # letter
    BY TwoFields, Zenon
  <1> HIDE DEF word, letter
  <1>7. CASE a.date = NoText /\ b.date = NoText
    BY <1>3, <1>4, <1>7, Zenon
  <1>8. CASE a.date # NoText /\ b.date = NoText
    <2>1. a.date \in Text /\ Two(word, a.date) \o u = v
      BY <1>2, <1>3, <1>4, <1>8
    <2>2. (Two(word, a.date) \o u)[1] # letter
      BY <1>1, <1>6, <2>1, Zenon
    <2> QED
      BY <1>5, <2>1, <2>2, Zenon
  <1>9. CASE a.date = NoText /\ b.date # NoText
    <2>1. b.date \in Text /\ Two(word, b.date) \o v = u
      BY <1>2, <1>3, <1>4, <1>9
    <2>2. (Two(word, b.date) \o v)[1] # letter
      BY <1>1, <1>6, <2>1, Zenon
    <2> QED
      BY <1>5, <2>1, <2>2, Zenon
  <1>10. CASE a.date # NoText /\ b.date # NoText
    <2>1. a.date \in Text /\ b.date \in Text
      BY <1>2, <1>10
    <2>2. Two(word, a.date) \o u = Two(word, b.date) \o v
      BY <1>3, <1>10, Zenon
    <2>3. TwoTell(word, a.date, word, b.date)
      BY <1>1, <2>1, TwoFields, Zenon
    <2> QED
      BY <2>2, <2>3, Zenon DEF TwoTell
  <1> QED
    BY <1>7, <1>8, <1>9, <1>10, Zenon

\* The keys of a draft's metadata, in their order, and each with its value as texts.
LEMMA OrderFacts ==
    ASSUME NEW draft, IsContent(draft), NEW N, N = Cardinality(DOMAIN draft.metadata)
    PROVE  /\ N \in Nat /\ draft.metadata \in [DOMAIN draft.metadata -> Text]
           /\ \A i \in 1..N : /\ KeyOrder(draft)[i] \in DOMAIN draft.metadata
                              /\ KeyOrder(draft)[i] \in Text
                              /\ draft.metadata[KeyOrder(draft)[i]] \in Text
           /\ \A x \in DOMAIN draft.metadata : \E i \in 1..N : KeyOrder(draft)[i] = x
  <1> DEFINE S == DOMAIN draft.metadata
             keys == KeyOrder(draft)
  <1>1. IsFiniteSet(S) /\ S \subseteq Text /\ draft.metadata \in [S -> Text]
    BY DEF IsContent
  <1>2. N \in Nat /\ keys \in [1..N -> S] /\ \A x \in S : \E i \in 1..N : keys[i] = x
    BY <1>1, KeysFacts DEF KeyOrder
  <1>3. \A i \in 1..N : keys[i] \in S
    BY <1>2
  <1>4. \A x \in S : x \in Text /\ draft.metadata[x] \in Text
    BY <1>1
  <1> HIDE DEF keys
  <1> QED
    BY <1>1, <1>2, <1>3, <1>4, Zenon DEF keys

\* the metadata, where they have equally many keys,
LEMMA MetadataTell ==
    ASSUME NEW a, NEW b, IsContent(a), IsContent(b),
           Cardinality(DOMAIN a.metadata) = Cardinality(DOMAIN b.metadata)
    PROVE  MetadataTold(a, b)
  <1> SUFFICES ASSUME NEW u \in Text, NEW v \in Text, Pairs(a) \o u = Pairs(b) \o v
               PROVE  a.metadata = b.metadata /\ u = v
    BY Zenon DEF MetadataTold
  <1> DEFINE N == Cardinality(DOMAIN a.metadata)
             f == [i \in 1..N |-> Pair(a, i)]
             g == [i \in 1..N |-> Pair(b, i)]
  <1>1. N = Cardinality(DOMAIN a.metadata) /\ N = Cardinality(DOMAIN b.metadata)
    OBVIOUS
  <1>2. FlattenSeq(f) \o u = FlattenSeq(g) \o v
    BY <1>1, Zenon DEF Pairs
  <1>3. DOMAIN f = 1..N /\ DOMAIN g = 1..N /\ \A i \in 1..N : f[i] = Pair(a, i) /\ g[i] = Pair(b, i)
    OBVIOUS
  <1>4. f = [i \in 1..N |-> f[i]] /\ g = [i \in 1..N |-> g[i]]
    OBVIOUS
  <1> HIDE DEF N, f, g
  <1> DEFINE ka(i) == KeyOrder(a)[i]
             va(i) == a.metadata[ka(i)]
             kb(i) == KeyOrder(b)[i]
             vb(i) == b.metadata[kb(i)]
  <1>5. /\ N \in Nat
        /\ a.metadata \in [DOMAIN a.metadata -> Text] /\ b.metadata \in [DOMAIN b.metadata -> Text]
        /\ \A i \in 1..N : ka(i) \in DOMAIN a.metadata /\ ka(i) \in Text /\ va(i) \in Text
        /\ \A i \in 1..N : kb(i) \in DOMAIN b.metadata /\ kb(i) \in Text /\ vb(i) \in Text
        /\ \A x \in DOMAIN a.metadata : \E i \in 1..N : ka(i) = x
        /\ \A x \in DOMAIN b.metadata : \E i \in 1..N : kb(i) = x
    BY <1>1, OrderFacts, Zenon
  <1>6. \A i \in 1..N : f[i] = Two(ka(i), va(i)) /\ g[i] = Two(kb(i), vb(i))
    BY <1>3, Zenon DEF Pair, Two
  <1> HIDE DEF ka, va, kb, vb
  <1>7. ASSUME NEW i \in 1..N
        PROVE  f[i] \in Text /\ g[i] \in Text
    <2>1. \A x, y \in Text : Two(x, y) \in Text
      BY TwoFields, Zenon
    <2>2. ka(i) \in Text /\ va(i) \in Text /\ kb(i) \in Text /\ vb(i) \in Text
      BY <1>5, Zenon
    <2>3. Two(ka(i), va(i)) \in Text /\ Two(kb(i), vb(i)) \in Text
      BY <2>1, <2>2, Zenon
    <2> QED
      BY <1>6, <2>3, Zenon
  <1>8. f \in [1..N -> Text] /\ g \in [1..N -> Text]
    BY <1>4, <1>7
  <1>9. ASSUME NEW i \in 1..N, NEW x \in Text, NEW y \in Text, f[i] \o x = g[i] \o y
        PROVE  ka(i) = kb(i) /\ va(i) = vb(i) /\ x = y
    <2> DEFINE p == ka(i)
               q == va(i)
               r == kb(i)
               s == vb(i)
    <2>1. p \in Text /\ q \in Text /\ r \in Text /\ s \in Text
      BY <1>5, Zenon
    <2>2. Two(p, q) \o x = Two(r, s) \o y
      BY <1>6, <1>9, Zenon
    <2> HIDE DEF p, q, r, s
    <2>3. TwoTell(p, q, r, s)
      BY <2>1, TwoFields, Zenon
    <2>4. p = r /\ q = s /\ x = y
      BY <2>2, <2>3, Zenon DEF TwoTell
    <2> QED
      BY <2>4, Zenon DEF p, q, r, s
  <1>10. AllCancel(f, g, N)
    <2> SUFFICES ASSUME NEW i \in 1..N, NEW x \in Text, NEW y \in Text, f[i] \o x = g[i] \o y
                 PROVE  f[i] = g[i] /\ x = y
      BY Zenon DEF AllCancel, Cancels
    <2>1. ka(i) = kb(i) /\ va(i) = vb(i) /\ x = y
      BY <1>9, Zenon
    <2> QED
      BY <1>6, <2>1, Zenon
  <1>11. u = v /\ \A i \in 1..N : f[i] = g[i]
    <2>1. Told(f, g, N)
      <3>1. Listed(f, N) /\ Listed(g, N)
        BY <1>8 DEF Listed
      <3> QED
        BY <1>5, <1>10, <3>1, ListsTell, Zenon
    <2> QED
      BY <1>2, <2>1, Zenon DEF Told
  <1>12. \A i \in 1..N : ka(i) = kb(i) /\ va(i) = vb(i)
    BY <1>9, <1>11, Zenon
  <1>13. DOMAIN a.metadata = DOMAIN b.metadata
    <2>1. ASSUME NEW x \in DOMAIN a.metadata PROVE x \in DOMAIN b.metadata
      BY <1>5, <1>12, Zenon
    <2>2. ASSUME NEW x \in DOMAIN b.metadata PROVE x \in DOMAIN a.metadata
      BY <1>5, <1>12, Zenon
    <2> QED
      BY <2>1, <2>2
  <1>14. \A x \in DOMAIN a.metadata : a.metadata[x] = b.metadata[x]
    <2>1. \A i \in 1..N : va(i) = a.metadata[ka(i)] /\ vb(i) = b.metadata[kb(i)]
      BY Zenon DEF va, vb
    <2> QED
      BY <1>5, <1>12, <2>1, Zenon
  <1>15. a.metadata = b.metadata
    <2> DEFINE h == a.metadata
               k == b.metadata
               S == DOMAIN h
    <2>1. h \in [S -> Text] /\ k \in [S -> Text] /\ \A x \in S : h[x] = k[x]
      BY <1>5, <1>13, <1>14, Zenon
    <2> HIDE DEF h, k, S
    <2>2. h = k
      BY <2>1
    <2> QED
      BY <2>2 DEF h, k
  <1> QED
    BY <1>11, <1>15, Zenon

\* and the postings, where they are equally many.
LEMMA PostingsTell ==
    ASSUME NEW a, NEW b, IsContent(a), IsContent(b),
           Len(a.postings) = Len(b.postings), Legs(a) = Legs(b)
    PROVE  a.postings = b.postings
  <1> DEFINE N == Len(a.postings)
             p == a.postings
             q == b.postings
             f == [i \in 1..N |-> Fields(p[i])]
             g == [i \in 1..N |-> Fields(q[i])]
             Fives == [1..5 -> Text]
  <1>1. N \in Nat /\ p \in Seq(Fives) /\ q \in Seq(Fives) /\ N = Len(p) /\ N = Len(q)
    BY LenProperties DEF IsContent
  <1>2. FlattenSeq(f) = FlattenSeq(g)
    <2>1. N = Len(b.postings)
      OBVIOUS
    <2> QED
      BY <2>1, Zenon DEF Legs
  <1>3. \A i \in 1..N : f[i] = Fields(p[i]) /\ g[i] = Fields(q[i])
    OBVIOUS
  <1>4. f = [i \in 1..N |-> f[i]] /\ g = [i \in 1..N |-> g[i]]
    OBVIOUS
  <1>5. \A texts \in Fives : Fields(texts) \in Text
    BY FieldsFacts
  <1>6. \A texts, others \in Fives : \A x, y \in Text :
           Fields(texts) \o x = Fields(others) \o y => texts = others /\ x = y
    <2>1. 5 \in Nat
      OBVIOUS
    <2> QED
      BY <2>1, FieldsFacts, Zenon
  <1> HIDE DEF N, p, q, f, g, Fives
  <1>7. \A i \in 1..N : p[i] \in Fives /\ q[i] \in Fives
    BY <1>1, ElementOfSeq
  <1>8. \A i \in 1..N : f[i] \in Text /\ g[i] \in Text
    BY <1>3, <1>5, <1>7, Zenon
  <1>9. Listed(f, N) /\ Listed(g, N)
    BY <1>4, <1>8 DEF Listed
  <1>10. ASSUME NEW i \in 1..N, NEW x \in Text, NEW y \in Text, f[i] \o x = g[i] \o y
         PROVE  p[i] = q[i] /\ x = y
    <2>1. \A u, v \in Text : Fields(p[i]) \o u = Fields(q[i]) \o v => p[i] = q[i] /\ u = v
      BY <1>6, <1>7, Zenon
    <2> QED
      BY <1>3, <1>10, <2>1, Zenon
  <1>11. AllCancel(f, g, N)
    <2> SUFFICES ASSUME NEW i \in 1..N, NEW x \in Text, NEW y \in Text, f[i] \o x = g[i] \o y
                 PROVE  f[i] = g[i] /\ x = y
      BY Zenon DEF AllCancel, Cancels
    <2>1. p[i] = q[i] /\ x = y
      BY <1>10, Zenon
    <2> QED
      BY <1>3, <2>1, Zenon
  <1>12. <<>> \in Text
    BY EmptySeq DEF Text
  <1>13. Told(f, g, N)
    BY <1>1, <1>9, <1>11, ListsTell, Zenon
  <1>14. \A i \in 1..N : f[i] = g[i]
    BY <1>2, <1>12, <1>13, Zenon DEF Told
  <1>15. \A i \in 1..N : p[i] = q[i]
    BY <1>10, <1>12, <1>14, Zenon
  <1>16. p = q
    BY <1>1, <1>15, SeqEqual
  <1> QED
    BY <1>16 DEF p, q

\* No two drafts are hashed from the same bytes.
THEOREM FingerprintsDiffer ==
    ASSUME NEW a, NEW b, IsContent(a), IsContent(b), Preimage(a) = Preimage(b)
    PROVE  a = b
  <1> DEFINE keysA == Cardinality(DOMAIN a.metadata)
             keysB == Cardinality(DOMAIN b.metadata)
             legsA == Len(a.postings)
             legsB == Len(b.postings)
             countA == Count("m", keysA)
             countB == Count("m", keysB)
             endA == Count("p", legsA)
             endB == Count("p", legsB)
             fourA == endA \o Legs(a)
             fourB == endB \o Legs(b)
             threeA == Pairs(a) \o fourA
             threeB == Pairs(b) \o fourB
             twoA == countA \o threeA
             twoB == countB \o threeB
             oneA == Dated(a) \o twoA
             oneB == Dated(b) \o twoB
  <1>1. /\ Noted(a) \in Text /\ Dated(a) \in Text /\ Pairs(a) \in Text /\ Legs(a) \in Text
        /\ keysA \in Nat /\ legsA \in Nat /\ Preimage(a) = Noted(a) \o oneA
    BY PreimageParts, Zenon
  <1>2. /\ Noted(b) \in Text /\ Dated(b) \in Text /\ Pairs(b) \in Text /\ Legs(b) \in Text
        /\ keysB \in Nat /\ legsB \in Nat /\ Preimage(b) = Noted(b) \o oneB
    BY PreimageParts, Zenon
  <1> HIDE DEF keysA, keysB, legsA, legsB
  <1>3. "m" \in Character /\ "p" \in Character
    BY MarkFacts, Zenon
  <1>4. countA \in Text /\ countB \in Text /\ endA \in Text /\ endB \in Text
    BY <1>1, <1>2, <1>3, CountFacts, Zenon
  <1> HIDE DEF countA, countB, endA, endB
  <1>5. fourA \in Text /\ fourB \in Text
    BY <1>1, <1>2, <1>4, TextsTogether, Zenon
  <1> HIDE DEF fourA, fourB
  <1>6. threeA \in Text /\ threeB \in Text
    BY <1>1, <1>2, <1>5, TextsTogether, Zenon
  <1>7. twoA[1] = "m" /\ twoB[1] = "m"
    BY <1>1, <1>2, <1>3, <1>6, CountFacts, Zenon DEF countA, countB
  <1> HIDE DEF threeA, threeB
  <1>8. twoA \in Text /\ twoB \in Text
    BY <1>4, <1>6, TextsTogether, Zenon
  <1> HIDE DEF twoA, twoB
  <1>9. oneA \in Text /\ oneB \in Text
    BY <1>1, <1>2, <1>8, TextsTogether, Zenon
  <1> HIDE DEF oneA, oneB
  <1>10. a.note = b.note /\ oneA = oneB
    <2>1. NotesTold(a, b)
      BY NotesTell, Zenon
    <2>2. Noted(a) \o oneA = Noted(b) \o oneB
      BY <1>1, <1>2, Zenon
    <2>3. Noted(a) \o oneA = Noted(b) \o oneB => a.note = b.note /\ oneA = oneB
      BY <1>9, <2>1, Zenon DEF NotesTold
    <2> QED
      BY <2>2, <2>3, Zenon
  <1>11. a.date = b.date /\ twoA = twoB
    <2>1. Dated(a) \o twoA = Dated(b) \o twoB
      BY <1>10, Zenon DEF oneA, oneB
    <2>2. DatesTold(a, b)
      BY DatesTell, Zenon
    <2> QED
      BY <1>7, <1>8, <2>1, <2>2, Zenon DEF DatesTold
  <1>12. keysA = keysB /\ threeA = threeB
    <2>1. CountTell("m", keysA, keysB)
      BY <1>1, <1>2, <1>3, CountsTell, Zenon
    <2>2. Count("m", keysA) \o threeA = Count("m", keysB) \o threeB
      BY <1>11, Zenon DEF twoA, twoB, countA, countB
    <2> QED
      BY <1>6, <2>1, <2>2, Zenon DEF CountTell
  <1>13. a.metadata = b.metadata /\ fourA = fourB
    <2>1. Cardinality(DOMAIN a.metadata) = Cardinality(DOMAIN b.metadata)
      BY <1>12, Zenon DEF keysA, keysB
    <2>2. MetadataTold(a, b)
      BY <2>1, MetadataTell
    <2>3. Pairs(a) \o fourA = Pairs(b) \o fourB
      BY <1>12, Zenon DEF threeA, threeB
    <2> QED
      BY <1>5, <2>2, <2>3, Zenon DEF MetadataTold
  <1>14. legsA = legsB /\ Legs(a) = Legs(b)
    <2>1. CountTell("p", legsA, legsB)
      BY <1>1, <1>2, <1>3, CountsTell, Zenon
    <2>2. Count("p", legsA) \o Legs(a) = Count("p", legsB) \o Legs(b)
      BY <1>13, Zenon DEF fourA, fourB, endA, endB
    <2> QED
      BY <1>1, <1>2, <2>1, <2>2, Zenon DEF CountTell
  <1>15. a.postings = b.postings
    BY <1>14, PostingsTell, Zenon DEF legsA, legsB
  <1> QED
    BY <1>10, <1>11, <1>13, <1>15, Zenon DEF IsContent

\* However many drafts there are, they are hashed from as many different texts.
THEOREM DraftsAreToldApart == TellsApart(Drafts)
  <1> DEFINE images == {Preimage(draft) : draft \in Drafts}
             hashed == [draft \in Drafts |-> Preimage(draft)]
  <1>1. IsFiniteSet(Drafts) /\ \A draft \in Drafts : IsContent(draft)
    BY FingerprintConstants, Zenon
  <1>2. \A a, b \in Drafts : Preimage(a) = Preimage(b) => a = b
    BY <1>1, FingerprintsDiffer, Zenon
  <1>3. hashed \in Bijection(Drafts, images)
    BY <1>2 DEF Bijection, Injection, Surjection, IsInjective
  <1>4. Cardinality(images) = Cardinality(Drafts)
    <2>1. ExistsBijection(Drafts, images)
      BY <1>3 DEF ExistsBijection
    <2> QED
      BY <1>1, <2>1, FS_Bijection, Zenon
  <1> QED
    BY <1>4 DEF TellsApart
================================================================================

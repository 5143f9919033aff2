----------------------------- MODULE RespProofs -----------------------------
(***************************************************************************)
(* Theorems about RespStream, for any commands, any bytes and any way of   *)
(* cutting them.  What a recursive function computes is shown by induction *)
(* over a set of numbers.                                                  *)
(***************************************************************************)
EXTENDS RespStream, SequenceTheorems, WellFoundedInduction, TLAPS

-----------------------------------------------------------------------------
(* Induction, and functions defined by recursion *)

LEMMA Least ==
  ASSUME NEW T \in SUBSET Nat, T # {}
  PROVE  \E n \in T : \A m \in T : n <= m
  <1>1. PICK n \in T : \A m \in T : <<m, n>> \notin OpToRel(<, Nat)
    BY NatLessThanWellFounded, WFMin
  <1>2. \A m \in T : ~(m < n)
    BY <1>1 DEF OpToRel
  <1> QED BY <1>2

LEMMA Induction ==
  ASSUME NEW N \in Nat, NEW T, 0 \in T,
         \A n \in 0 .. N - 1 : n \in T => n + 1 \in T
  PROVE  \A n \in 0 .. N : n \in T
  <1> SUFFICES ASSUME NEW n \in 0 .. N, n \notin T PROVE FALSE
    OBVIOUS
  <1>1. PICK m \in (0 .. N) \ T : \A i \in (0 .. N) \ T : m <= i
    <2>1. (0 .. N) \ T \in SUBSET Nat /\ (0 .. N) \ T # {}
      OBVIOUS
    <2> QED BY <2>1, Least
  <1>2. m - 1 \in 0 .. N - 1 /\ m # 0
    BY <1>1
  <1>3. m - 1 \in T
    BY <1>1, <1>2
  <1> QED BY <1>1, <1>2, <1>3

LEMMA StrongInduction ==
  ASSUME NEW T, \A n \in Nat : (\A m \in 0 .. n - 1 : m \in T) => n \in T
  PROVE  \A n \in Nat : n \in T
  <1> SUFFICES ASSUME NEW n \in Nat, n \notin T PROVE FALSE
    OBVIOUS
  <1>1. PICK m \in Nat \ T : \A i \in Nat \ T : m <= i
    <2>1. Nat \ T \in SUBSET Nat /\ Nat \ T # {}
      OBVIOUS
    <2> QED BY <2>1, Least
  <1>2. \A i \in 0 .. m - 1 : i \in T
    BY <1>1
  <1> QED BY <1>1, <1>2

\* f begins with base and takes a step from each number up to n to the next.
Steps(f, n, S, base, step) ==
  /\ f \in [0 .. n -> S] /\ f[0] = base
  /\ \A i \in 1 .. n : f[i] = step[i][f[i - 1]]

LEMMA Recursion ==
  ASSUME NEW N \in Nat, NEW S, NEW base \in S, NEW step \in [1 .. N -> [S -> S]]
  PROVE  \E f : Steps(f, N, S, base, step)
  <1> DEFINE Begun(f, n) == Steps(f, n, S, base, step)
             T == {n \in 0 .. N : \E f : Begun(f, n)}
  <1>1. 0 \in T
    <2>1. Begun([i \in 0 .. 0 |-> base], 0)
      BY DEF Steps
    <2>2. 0 \in 0 .. N
      OBVIOUS
    <2> HIDE DEF Begun
    <2> QED BY <2>1, <2>2
  <1>2. ASSUME NEW n \in 0 .. N - 1, n \in T PROVE n + 1 \in T
    <2>1. PICK f : Begun(f, n)
      BY <1>2
    <2> DEFINE g == [i \in 0 .. n + 1 |-> IF i = n + 1 THEN step[n + 1][f[n]] ELSE f[i]]
    <2>2. step[n + 1][f[n]] \in S
      BY <2>1 DEF Steps
    <2>3. g \in [0 .. n + 1 -> S] /\ g[0] = base
      BY <2>1, <2>2 DEF Steps
    <2>4. ASSUME NEW i \in 1 .. n + 1 PROVE g[i] = step[i][g[i - 1]]
      BY <2>1 DEF Steps
    <2>5. Begun(g, n + 1)
      BY <2>3, <2>4 DEF Steps
    <2>6. n + 1 \in 0 .. N
      OBVIOUS
    <2> HIDE DEF Begun, g
    <2> QED BY <2>5, <2>6
  <1>3. N \in T
    <2>1. \A n \in 0 .. N - 1 : n \in T => n + 1 \in T
      BY <1>2
    <2> HIDE DEF T
    <2>2. \A n \in 0 .. N : n \in T
      BY <1>1, <2>1, Induction
    <2> QED BY <2>2
  <1> QED BY <1>3

-----------------------------------------------------------------------------
(* Decimal *)

Numeral(n, rest) ==
  IF n < 10 THEN <<DigitSymbols[n + 1]>> ELSE Append(rest, DigitSymbols[(n % 10) + 1])

LEMMA DigitTypes ==
  /\ \A n \in 0 .. 9 : DigitSymbols[n + 1] \in Digits
  /\ \A d \in Digits : \E n \in 0 .. 9 : DigitSymbols[n + 1] = d
  <1>1. DOMAIN DigitSymbols = 1 .. 10
    BY DEF DigitSymbols
  <1>2. \A n \in 0 .. 9 : n + 1 \in 1 .. 10 /\ (n + 1) - 1 = n
    OBVIOUS
  <1>3. \A i \in 1 .. 10 : i - 1 \in 0 .. 9 /\ (i - 1) + 1 = i
    OBVIOUS
  <1>4. Digits = {DigitSymbols[i] : i \in 1 .. 10}
    BY <1>1 DEF Digits, ToSet
  <1> QED BY <1>2, <1>3, <1>4

LEMMA NumeralType ==
  ASSUME NEW n \in Nat, NEW rest \in Seq(Digits)
  PROVE  Numeral(n, rest) \in Seq(Digits) \ {<<>>}
  <1>1. CASE n < 10
    <2>1. DigitSymbols[n + 1] \in Digits
      BY <1>1, DigitTypes
    <2> QED BY <1>1, <2>1 DEF Numeral
  <1>2. CASE ~(n < 10)
    <2>1. n % 10 \in 0 .. 9
      OBVIOUS
    <2>2. DigitSymbols[(n % 10) + 1] \in Digits
      BY <2>1, DigitTypes
    <2> QED BY <1>2, <2>2 DEF Numeral
  <1> QED BY <1>1, <1>2

Numerals(f, n) ==
  /\ f \in [0 .. n -> Seq(Digits)]
  /\ \A i \in 0 .. n : f[i] = Numeral(i, f[i \div 10])

LEMMA NumeralsExist ==
  ASSUME NEW n \in Nat
  PROVE  \E f : Numerals(f, n)
  <1> DEFINE T == {m \in Nat : \E f : Numerals(f, m)}
  <1>1. 0 \in T
    <2> DEFINE f == [i \in 0 .. 0 |-> <<DigitSymbols[1]>>]
    <2>1. DigitSymbols[1] \in Digits
      BY DigitTypes
    <2>2. Numerals(f, 0)
      BY <2>1 DEF Numerals, Numeral
    <2> HIDE DEF f
    <2> QED BY <2>2
  <1>2. ASSUME NEW m \in 0 .. n - 1, m \in T PROVE m + 1 \in T
    <2>1. PICK f : Numerals(f, m)
      BY <1>2
    <2> DEFINE x == Numeral(m + 1, f[(m + 1) \div 10])
               g == [i \in 0 .. m + 1 |-> IF i = m + 1 THEN x ELSE f[i]]
    <2>2. \A i \in 1 .. m + 1 : i \div 10 \in 0 .. i - 1
      OBVIOUS
    <2>3. x \in Seq(Digits)
      BY <2>1, <2>2, NumeralType DEF Numerals
    <2> HIDE DEF x
    <2>4. g \in [0 .. m + 1 -> Seq(Digits)]
      BY <2>1, <2>3 DEF Numerals
    <2>5. \A i \in 0 .. m : g[i] = f[i]
      OBVIOUS
    <2>6. g[m + 1] = x
      OBVIOUS
    <2>7. ASSUME NEW i \in 0 .. m + 1 PROVE g[i] = Numeral(i, g[i \div 10])
      <3>1. CASE i = m + 1
        <4>1. g[i \div 10] = f[(m + 1) \div 10]
          BY <3>1, <2>2, <2>5
        <4> QED BY <3>1, <4>1, <2>6 DEF x
      <3>2. CASE i \in 0 .. m
        <4>1. i \div 10 \in 0 .. m
          OBVIOUS
        <4> QED BY <3>2, <4>1, <2>1, <2>5 DEF Numerals
      <3> QED BY <3>1, <3>2
    <2>8. Numerals(g, m + 1)
      BY <2>4, <2>7 DEF Numerals
    <2>9. m + 1 \in Nat
      OBVIOUS
    <2> HIDE DEF g
    <2> QED BY <2>8, <2>9
  <1>3. \A m \in 0 .. n - 1 : m \in T => m + 1 \in T
    BY <1>2
  <1> HIDE DEF T
  <1>4. \A m \in 0 .. n : m \in T
    BY <1>1, <1>3, Induction
  <1>5. n \in T
    BY <1>4
  <1> QED BY <1>5 DEF T

LEMMA NumeralsAgree ==
  ASSUME NEW f, NEW g, NEW m \in Nat, NEW n \in Nat, Numerals(f, m), Numerals(g, n),
         NEW i \in 0 .. m, i \in 0 .. n
  PROVE  f[i] = g[i]
  <1> DEFINE T == {k \in Nat : k \in 0 .. m /\ k \in 0 .. n => f[k] = g[k]}
  <1>1. ASSUME NEW k \in Nat, \A j \in 0 .. k - 1 : j \in T PROVE k \in T
    <2> SUFFICES ASSUME k \in 0 .. m, k \in 0 .. n PROVE f[k] = g[k]
      OBVIOUS
    <2>1. f[k] = Numeral(k, f[k \div 10]) /\ g[k] = Numeral(k, g[k \div 10])
      BY DEF Numerals
    <2>2. CASE k < 10
      BY <2>1, <2>2 DEF Numeral
    <2>3. CASE ~(k < 10)
      <3>1. k \div 10 \in 0 .. k - 1 /\ k \div 10 \in 0 .. m /\ k \div 10 \in 0 .. n
        BY <2>3
      <3>2. f[k \div 10] = g[k \div 10]
        BY <3>1, <1>1
      <3> QED BY <2>1, <3>2
    <2> QED BY <2>2, <2>3
  <1>2. \A k \in Nat : (\A j \in 0 .. k - 1 : j \in T) => k \in T
    BY <1>1
  <1> HIDE DEF T
  <1>3. \A k \in Nat : k \in T
    BY <1>2, StrongInduction
  <1>4. i \in T
    BY <1>3
  <1> QED BY <1>4 DEF T

\* The defining equation of Decimal.
LEMMA DecimalDef ==
  /\ Decimal \in [Nat -> Seq(Digits)]
  /\ \A n \in Nat : Decimal[n] = Numeral(n, Decimal[n \div 10])
  <1> DEFINE upTo(n) == CHOOSE f : Numerals(f, n)
             F == [n \in Nat |-> upTo(n)[n]]
  <1>1. \A n \in Nat : Numerals(upTo(n), n)
    BY NumeralsExist
  <1> HIDE DEF upTo
  <1>2. ASSUME NEW n \in Nat
        PROVE  F[n] \in Seq(Digits) /\ F[n] = Numeral(n, F[n \div 10])
    <2> DEFINE f == upTo(n)
    <2>1. Numerals(f, n) /\ n \in 0 .. n /\ n \div 10 \in 0 .. n /\ n \div 10 \in Nat
      BY <1>1
    <2>2. f[n] \in Seq(Digits) /\ f[n] = Numeral(n, f[n \div 10])
      BY <2>1 DEF Numerals
    <2>3. Numerals(upTo(n \div 10), n \div 10) /\ n \div 10 \in 0 .. n \div 10
      BY <2>1, <1>1
    <2>4. upTo(n \div 10)[n \div 10] = f[n \div 10]
      BY <2>1, <2>3, NumeralsAgree
    <2>5. F[n \div 10] = f[n \div 10] /\ F[n] = f[n]
      BY <2>1, <2>4
    <2> QED BY <2>2, <2>5
  <1>3. F = [n \in Nat |-> IF n < 10 THEN <<DigitSymbols[n + 1]>>
                          ELSE Append(F[n \div 10], DigitSymbols[(n % 10) + 1])]
    <2>1. \A n \in Nat : F[n] = IF n < 10 THEN <<DigitSymbols[n + 1]>>
                          ELSE Append(F[n \div 10], DigitSymbols[(n % 10) + 1])
      BY <1>2 DEF Numeral
    <2>2. F = [n \in Nat |-> F[n]]
      OBVIOUS
    <2> HIDE DEF F
    <2> QED BY <2>1, <2>2
  <1> HIDE DEF F
  <1>4. Decimal = [n \in Nat |-> IF n < 10 THEN <<DigitSymbols[n + 1]>>
                          ELSE Append(Decimal[n \div 10], DigitSymbols[(n % 10) + 1])]
    BY <1>3, Zenon DEF Decimal
  <1>5. \A n \in Nat : Decimal[n] = Numeral(n, Decimal[n \div 10])
    BY <1>4 DEF Numeral
  <1> DEFINE T == {n \in Nat : Decimal[n] \in Seq(Digits)}
  <1>6. ASSUME NEW n \in Nat, \A m \in 0 .. n - 1 : m \in T PROVE n \in T
    <2>1. CASE n < 10
      <3>1. Decimal[n] = Numeral(n, <<>>)
        BY <2>1, <1>4 DEF Numeral
      <3>2. <<>> \in Seq(Digits)
        OBVIOUS
      <3> QED BY <3>1, <3>2, NumeralType
    <2>2. CASE ~(n < 10)
      <3>1. n \div 10 \in 0 .. n - 1
        BY <2>2
      <3>2. Decimal[n \div 10] \in Seq(Digits)
        BY <3>1, <1>6
      <3> QED BY <1>5, <3>2, NumeralType
    <2> QED BY <2>1, <2>2
  <1>7. \A n \in Nat : (\A m \in 0 .. n - 1 : m \in T) => n \in T
    BY <1>6
  <1> HIDE DEF T
  <1>8. \A n \in Nat : n \in T
    BY <1>7, StrongInduction
  <1>9. \A n \in Nat : Decimal[n] \in Seq(Digits)
    BY <1>8 DEF T
  <1> QED BY <1>4, <1>5, <1>9

-----------------------------------------------------------------------------
(* Number *)

LEMMA DigitValueType == \A d \in Digits : DigitValue(d) \in 0 .. 9
  BY DigitTypes DEF DigitValue

LEMMA ValueOfDigit == \A n \in 0 .. 9 : DigitValue(DigitSymbols[n + 1]) = n
  <1> SUFFICES ASSUME NEW n \in 0 .. 9, NEW m \in 0 .. 9,
                      DigitSymbols[m + 1] = DigitSymbols[n + 1]
               PROVE  m = n
    <2>1. \A n \in 0 .. 9 : DigitValue(DigitSymbols[n + 1]) \in 0 .. 9
            /\ DigitSymbols[DigitValue(DigitSymbols[n + 1]) + 1] = DigitSymbols[n + 1]
      BY DEF DigitValue
    <2> QED BY <2>1
  <1> QED BY DEF DigitSymbols

\* f has the numbers that the first digits of t spell.
Spelt(f, t) ==
  /\ f \in [0 .. Len(t) -> Nat]
  /\ f[0] = 0
  /\ \A i \in 1 .. Len(t) : f[i] = 10 * f[i - 1] + DigitValue(t[i])

LEMMA MagnitudeDef ==
  ASSUME NEW t \in Seq(Digits)
  PROVE  \E f : Spelt(f, t) /\ Magnitude(t) = f[Len(t)]
  <1> DEFINE first[i \in 0 .. Len(t)] ==
               IF i = 0 THEN 0 ELSE 10 * first[i - 1] + DigitValue(t[i])
             step == [i \in 1 .. Len(t) |-> [x \in Nat |-> 10 * x + DigitValue(t[i])]]
  <1>1. Len(t) \in Nat /\ \A i \in 1 .. Len(t) : DigitValue(t[i]) \in Nat
    BY DigitValueType
  <1>2. step \in [1 .. Len(t) -> [Nat -> Nat]]
    BY <1>1
  <1>3. PICK f : Steps(f, Len(t), Nat, 0, step)
    <2>1. 0 \in Nat
      OBVIOUS
    <2> HIDE DEF step
    <2> QED BY <1>1, <1>2, <2>1, Recursion
  <1>4. ASSUME NEW i \in 1 .. Len(t)
        PROVE  f[i] = 10 * f[i - 1] + DigitValue(t[i])
    <2>1. i - 1 \in 0 .. Len(t)
      BY <1>1
    <2>2. f[i - 1] \in Nat
      BY <1>3, <2>1 DEF Steps
    <2> QED BY <1>3, <2>2 DEF Steps
  <1>5. f = [i \in 0 .. Len(t) |-> IF i = 0 THEN 0 ELSE 10 * f[i - 1] + DigitValue(t[i])]
    <2>1. \A i \in 0 .. Len(t) : f[i] = IF i = 0 THEN 0 ELSE 10 * f[i - 1] + DigitValue(t[i])
      BY <1>1, <1>3, <1>4 DEF Steps
    <2>2. f = [i \in 0 .. Len(t) |-> f[i]]
      BY <1>3 DEF Steps
    <2> QED BY <2>1, <2>2
  <1>6. first = [i \in 0 .. Len(t) |-> IF i = 0 THEN 0 ELSE 10 * first[i - 1] + DigitValue(t[i])]
    BY <1>5, Zenon
  <1>7. Magnitude(t) = first[Len(t)]
    BY DEF Magnitude
  <1> HIDE DEF step, first
  <1> DEFINE T == {i \in 0 .. Len(t) : first[i] \in Nat}
  <1>8. 0 \in T /\ first[0] = 0
    BY <1>1, <1>6
  <1>9. ASSUME NEW i \in 1 .. Len(t) PROVE first[i] = 10 * first[i - 1] + DigitValue(t[i])
    BY <1>1, <1>6
  <1>10. \A i \in 0 .. Len(t) - 1 : i \in T => i + 1 \in T
    <2> SUFFICES ASSUME NEW i \in 0 .. Len(t) - 1, first[i] \in Nat PROVE first[i + 1] \in Nat
      BY <1>1
    <2>1. i + 1 \in 1 .. Len(t) /\ (i + 1) - 1 = i
      BY <1>1
    <2>2. first[i + 1] = 10 * first[i] + DigitValue(t[i + 1])
      BY <1>9, <2>1
    <2> QED BY <1>1, <2>1, <2>2
  <1>11. \A i \in 0 .. Len(t) : first[i] \in Nat
    <2> HIDE DEF T
    <2>1. \A i \in 0 .. Len(t) : i \in T
      BY <1>1, <1>8, <1>10, Induction
    <2> QED BY <2>1 DEF T
  <1>12. first \in [0 .. Len(t) -> Nat]
    BY <1>6, <1>11
  <1>13. Spelt(first, t)
    BY <1>8, <1>9, <1>12 DEF Spelt
  <1> QED BY <1>7, <1>13

LEMMA MagnitudeOfAppend ==
  /\ Magnitude(<<>>) = 0
  /\ \A t \in Seq(Digits), d \in Digits :
        /\ Magnitude(t) \in Nat
        /\ Magnitude(Append(t, d)) = 10 * Magnitude(t) + DigitValue(d)
  <1>1. Magnitude(<<>>) = 0
    <2>1. <<>> \in Seq(Digits) /\ Len(<<>>) = 0
      OBVIOUS
    <2>2. PICK f : Spelt(f, <<>>) /\ Magnitude(<<>>) = f[Len(<<>>)]
      BY <2>1, MagnitudeDef
    <2> QED BY <2>1, <2>2 DEF Spelt
  <1>2. ASSUME NEW t \in Seq(Digits), NEW d \in Digits
        PROVE  /\ Magnitude(t) \in Nat
               /\ Magnitude(Append(t, d)) = 10 * Magnitude(t) + DigitValue(d)
    <2> DEFINE u == Append(t, d)
               n == Len(t)
    <2>1. n \in Nat /\ u \in Seq(Digits) /\ Len(u) = n + 1 /\ u[n + 1] = d
          /\ \A i \in 1 .. n : u[i] = t[i]
      OBVIOUS
    <2>2. PICK f : Spelt(f, t) /\ Magnitude(t) = f[n]
      BY MagnitudeDef
    <2>3. PICK g : Spelt(g, u) /\ Magnitude(u) = g[Len(u)]
      BY <2>1, MagnitudeDef
    <2> DEFINE T == {i \in 0 .. n : f[i] = g[i]}
    <2> HIDE DEF u, n
    <2>4. f \in [0 .. n -> Nat] /\ f[0] = 0
          /\ \A i \in 1 .. n : f[i] = 10 * f[i - 1] + DigitValue(t[i])
      BY <2>2 DEF Spelt, n
    <2>5. g \in [0 .. n + 1 -> Nat] /\ g[0] = 0
          /\ \A i \in 1 .. n + 1 : g[i] = 10 * g[i - 1] + DigitValue(u[i])
      BY <2>1, <2>3 DEF Spelt
    <2>6. 0 \in T
      BY <2>1, <2>4, <2>5
    <2>7. ASSUME NEW i \in 0 .. n - 1, i \in T PROVE i + 1 \in T
      <3>1. i + 1 \in 1 .. n /\ i + 1 \in 1 .. n + 1 /\ (i + 1) - 1 = i
        BY <2>1
      <3>2. f[i + 1] = 10 * f[i] + DigitValue(t[i + 1])
        BY <2>4, <3>1
      <3>3. g[i + 1] = 10 * g[i] + DigitValue(u[i + 1])
        BY <2>5, <3>1
      <3>4. u[i + 1] = t[i + 1] /\ f[i] = g[i]
        BY <2>1, <2>7, <3>1
      <3> QED BY <2>1, <3>1, <3>2, <3>3, <3>4
    <2>8. \A i \in 0 .. n - 1 : i \in T => i + 1 \in T
      BY <2>7
    <2>9. f[n] = g[n]
      <3> HIDE DEF T
      <3>1. \A i \in 0 .. n : i \in T
        BY <2>1, <2>6, <2>8, Induction
      <3>2. n \in T
        BY <2>1, <3>1
      <3> QED BY <3>2 DEF T
    <2>10. n + 1 \in 1 .. n + 1 /\ (n + 1) - 1 = n /\ n \in 0 .. n
      BY <2>1
    <2>11. g[n + 1] = 10 * g[n] + DigitValue(d)
      BY <2>1, <2>5, <2>10
    <2>12. f[n] \in Nat
      BY <2>4, <2>10
    <2> QED BY <2>1, <2>2, <2>3, <2>9, <2>11, <2>12 DEF u
  <1> QED BY <1>1, <1>2

LEMMA NumeralOfDigit ==
  ASSUME NEW n \in Nat, n < 10
  PROVE  Decimal[n] = Append(<<>>, DigitSymbols[n + 1])
  <1>1. Decimal[n] = <<DigitSymbols[n + 1]>>
    BY DecimalDef DEF Numeral
  <1> QED BY <1>1

LEMMA LastDigit ==
  ASSUME NEW n \in Nat
  PROVE  n \div 10 \in Nat /\ n % 10 \in 0 .. 9 /\ n = 10 * (n \div 10) + (n % 10)
  OBVIOUS

\* Decimal spells the number.
LEMMA DecimalSpells ==
  ASSUME NEW n \in Nat
  PROVE  /\ Decimal[n] \in Seq(Digits) /\ Decimal[n] # <<>>
         /\ Magnitude(Decimal[n]) = n
  <1> DEFINE T == {m \in Nat : Magnitude(Decimal[m]) = m}
  <1>1. ASSUME NEW m \in Nat, \A j \in 0 .. m - 1 : j \in T PROVE m \in T
    <2>1. CASE m < 10
      <3>1. Decimal[m] = Append(<<>>, DigitSymbols[m + 1])
        BY <2>1, NumeralOfDigit
      <3>2. m \in 0 .. 9
        BY <2>1
      <3>3. DigitSymbols[m + 1] \in Digits /\ DigitValue(DigitSymbols[m + 1]) = m
        BY <3>2, DigitTypes, ValueOfDigit
      <3>4. <<>> \in Seq(Digits)
        OBVIOUS
      <3>5. Magnitude(Decimal[m]) = 10 * 0 + m
        BY <3>1, <3>3, <3>4, MagnitudeOfAppend
      <3> QED BY <3>5
    <2>2. CASE ~(m < 10)
      <3>1. Decimal[m] = Append(Decimal[m \div 10], DigitSymbols[(m % 10) + 1])
        BY <2>2, DecimalDef DEF Numeral
      <3>2. m \div 10 \in 0 .. m - 1 /\ m % 10 \in 0 .. 9 /\ m = 10 * (m \div 10) + (m % 10)
        BY <2>2, LastDigit
      <3>3. DigitSymbols[(m % 10) + 1] \in Digits /\ DigitValue(DigitSymbols[(m % 10) + 1]) = m % 10
        BY <3>2, DigitTypes, ValueOfDigit
      <3>4. Decimal[m \div 10] \in Seq(Digits) /\ Magnitude(Decimal[m \div 10]) = m \div 10
        BY <3>2, <1>1, DecimalDef
      <3>5. Magnitude(Decimal[m]) = 10 * (m \div 10) + (m % 10)
        BY <3>1, <3>3, <3>4, MagnitudeOfAppend, Zenon
      <3> QED BY <3>2, <3>5
    <2> QED BY <2>1, <2>2
  <1>2. \A m \in Nat : (\A j \in 0 .. m - 1 : j \in T) => m \in T
    BY <1>1
  <1>3. n \in T
    <2> HIDE DEF T
    <2>1. \A m \in Nat : m \in T
      BY <1>2, StrongInduction
    <2> QED BY <2>1
  <1>4. Decimal[n] \in Seq(Digits) \ {<<>>}
    <2>1. CASE n < 10
      <3>1. <<>> \in Seq(Digits) /\ DigitSymbols[n + 1] \in Digits
        BY <2>1, DigitTypes
      <3>2. Decimal[n] = Append(<<>>, DigitSymbols[n + 1])
        BY <2>1, NumeralOfDigit
      <3> QED BY <3>1, <3>2, AppendProperties
    <2>2. CASE ~(n < 10)
      <3>1. n \div 10 \in Nat
        OBVIOUS
      <3> QED BY <3>1, DecimalDef, NumeralType
    <2> QED BY <2>1, <2>2
  <1> QED BY <1>3, <1>4

LEMMA DigitsArePlain == Digits \cap {"cr", "lf", "-", "+", "ff", "$", "*", ":"} = {}
  <1> SUFFICES ASSUME NEW n \in 0 .. 9
               PROVE  DigitSymbols[n + 1] \notin {"cr", "lf", "-", "+", "ff", "$", "*", ":"}
    BY DigitTypes
  <1> QED BY DEF DigitSymbols

LEMMA PlainNumber ==
  ASSUME NEW t \in Seq(Digits), t # <<>>
  PROVE  /\ Stripped(t) = t /\ Unsigned(t) = t /\ IsNumber(t)
         /\ Number(t) = Magnitude(t)
  <1>1. Len(t) \in Nat /\ Len(t) >= 1 /\ \A i \in 1 .. Len(t) : t[i] \in Digits
    OBVIOUS
  <1>2. \A i \in 1 .. Len(t) : t[i] \notin {"cr", "lf", "-", "+"}
    BY <1>1, DigitsArePlain
  <1>3. Stripped(t) = t
    <2> DEFINE ink == {i \in 1 .. Len(t) : t[i] \notin {"cr", "lf"}}
    <2>1. ink = 1 .. Len(t)
      BY <1>2
    <2>2. Min(ink) = 1 /\ Max(ink) = Len(t) /\ ink # {}
      <3>1. 1 \in ink /\ Len(t) \in ink /\ \A i \in ink : 1 =< i /\ Len(t) >= i
        BY <1>1, <2>1
      <3>2. \A i \in ink : i \in Nat
        BY <2>1
      <3> HIDE DEF ink
      <3> QED BY <3>1, <3>2, <1>1 DEF Min, Max
    <2>3. Stripped(t) = SubSeq(t, 1, Len(t))
      <3> QED BY <2>2 DEF Stripped
    <2> QED BY <2>3, SubSeqFull
  <1>4. t[1] \notin {"-", "+"}
    BY <1>1, <1>2
  <1>5. Unsigned(t) = t
    BY <1>4 DEF Unsigned
  <1>6. ToSet(t) \subseteq Digits
    BY <1>1 DEF ToSet
  <1> QED BY <1>3, <1>4, <1>5, <1>6 DEF IsNumber, Number

-----------------------------------------------------------------------------
(* Bytes that are all there, or in part *)

\* raw goes on with s after its first a bytes, as far as it goes.
Fits(raw, a, s) == \A j \in 1 .. Len(s) : a + j <= Len(raw) => raw[a + j] = s[j]

LEMMA FitsConcat ==
  ASSUME NEW raw \in Seq(Bytes), NEW a \in Nat, NEW s \in Seq(Bytes), NEW t \in Seq(Bytes),
         Fits(raw, a, s \o t)
  PROVE  Fits(raw, a, s) /\ Fits(raw, a + Len(s), t)
  <1>1. /\ Len(s) \in Nat /\ Len(t) \in Nat /\ Len(s \o t) = Len(s) + Len(t)
        /\ \A i \in 1 .. Len(s) + Len(t) :
              (s \o t)[i] = IF i <= Len(s) THEN s[i] ELSE t[i - Len(s)]
    BY ConcatProperties
  <1>2. \A j \in 1 .. Len(s) + Len(t) : a + j <= Len(raw) => raw[a + j] = (s \o t)[j]
    BY <1>1 DEF Fits
  <1>3. ASSUME NEW j \in 1 .. Len(s), a + j <= Len(raw) PROVE raw[a + j] = s[j]
    BY <1>1, <1>2, <1>3
  <1>4. ASSUME NEW j \in 1 .. Len(t), a + Len(s) + j <= Len(raw)
        PROVE  raw[a + Len(s) + j] = t[j]
    <2>1. Len(s) + j \in 1 .. Len(s) + Len(t) /\ ~(Len(s) + j <= Len(s))
          /\ (Len(s) + j) - Len(s) = j /\ a + (Len(s) + j) = a + Len(s) + j
      BY <1>1
    <2>2. (s \o t)[Len(s) + j] = t[j]
      BY <1>1, <2>1
    <2> QED BY <1>2, <1>4, <2>1, <2>2
  <1> QED BY <1>3, <1>4 DEF Fits

LEMMA LineEnd == CRLF \in Seq(Bytes) /\ Len(CRLF) = 2 /\ CRLF[1] = "cr" /\ CRLF[2] = "lf"
  BY StreamAssumption DEF CRLF

\* The line end after t is found as soon as it is there.
LEMMA FindLine ==
  ASSUME NEW raw \in Seq(Bytes), NEW a \in Nat, NEW t \in Seq(Bytes \ {"cr"}),
         Fits(raw, a, t \o CRLF)
  PROVE  Find(raw, a + 1) = IF Len(raw) >= a + Len(t) + 2 THEN a + Len(t) + 1 ELSE 0
  <1> DEFINE e == a + Len(t) + 1
             from == a + 1 .. Len(raw) - 1
  <1>1. t \in Seq(Bytes) /\ Len(t) \in Nat /\ Len(raw) \in Nat /\ \A j \in 1 .. Len(t) : t[j] # "cr"
    <2>1. t \in Seq(Bytes)
      BY SeqMonotonic
    <2> QED BY <2>1
  <1>2. Fits(raw, a, t) /\ Fits(raw, a + Len(t), CRLF)
    BY <1>1, LineEnd, FitsConcat
  <1>3. ASSUME NEW i \in from, i < e PROVE ~LineEndsAt(raw, i)
    <2>1. i - a \in 1 .. Len(t) /\ a + (i - a) = i /\ i <= Len(raw)
      BY <1>1, <1>3
    <2>2. raw[i] = t[i - a]
      BY <1>2, <2>1 DEF Fits
    <2> QED BY <1>1, <2>1, <2>2 DEF LineEndsAt
  <1>4. CASE Len(raw) >= a + Len(t) + 2
    <2>1. e \in from
      BY <1>1, <1>4
    <2>2. LineEndsAt(raw, e)
      <3>1. raw[a + Len(t) + 1] = CRLF[1] /\ raw[a + Len(t) + 2] = CRLF[2]
        BY <1>1, <1>2, <1>4, LineEnd DEF Fits
      <3>2. e + 1 = a + Len(t) + 2
        BY <1>1
      <3> QED BY <3>1, <3>2, LineEnd DEF LineEndsAt
    <2>3. ASSUME NEW i \in from, LineEndsAt(raw, i), \A j \in a + 1 .. i - 1 : ~LineEndsAt(raw, j)
          PROVE  i = e
      <3>1. ~(i < e)
        BY <1>3, <2>3
      <3>2. e < i => e \in a + 1 .. i - 1
        BY <2>1
      <3> QED BY <1>1, <2>2, <2>3, <3>1, <3>2
    <2>4. \A j \in a + 1 .. e - 1 : ~LineEndsAt(raw, j)
      BY <1>1, <1>3, <2>1
    <2>5. Find(raw, a + 1) = CHOOSE i \in from : LineEndsAt(raw, i)
                                /\ \A j \in a + 1 .. i - 1 : ~LineEndsAt(raw, j)
      BY <2>1, <2>2 DEF Find
    <2> HIDE DEF e, from
    <2>6. Find(raw, a + 1) = e
      BY <2>1, <2>2, <2>3, <2>4, <2>5
    <2> QED BY <1>4, <2>6 DEF e
  <1>5. CASE ~(Len(raw) >= a + Len(t) + 2)
    <2>1. \A i \in from : i < e
      BY <1>1, <1>5
    <2>2. ~\E i \in from : LineEndsAt(raw, i)
      BY <1>3, <2>1
    <2> QED BY <1>5, <2>2 DEF Find
  <1> QED BY <1>4, <1>5

LEMMA FitsBoth ==
  ASSUME NEW raw \in Seq(Bytes), NEW a \in Nat, NEW s \in Seq(Bytes), NEW t \in Seq(Bytes),
         Fits(raw, a, s), Fits(raw, a + Len(s), t)
  PROVE  Fits(raw, a, s \o t)
  <1>1. /\ Len(s) \in Nat /\ Len(t) \in Nat /\ Len(s \o t) = Len(s) + Len(t)
        /\ \A i \in 1 .. Len(s) + Len(t) :
              (s \o t)[i] = IF i <= Len(s) THEN s[i] ELSE t[i - Len(s)]
    BY ConcatProperties
  <1>2. ASSUME NEW j \in 1 .. Len(s) + Len(t), a + j <= Len(raw)
        PROVE  raw[a + j] = (s \o t)[j]
    <2>1. CASE j <= Len(s)
      BY <1>1, <1>2, <2>1 DEF Fits
    <2>2. CASE ~(j <= Len(s))
      <3>1. j - Len(s) \in 1 .. Len(t) /\ a + Len(s) + (j - Len(s)) = a + j
        BY <1>1, <2>2
      <3>2. raw[a + j] = t[j - Len(s)]
        BY <1>2, <3>1 DEF Fits
      <3> QED BY <1>1, <2>2, <3>2
    <2> QED BY <2>1, <2>2
  <1> QED BY <1>1, <1>2 DEF Fits

LEMMA FitsText ==
  ASSUME NEW raw \in Seq(Bytes), NEW a \in Nat, NEW t \in Seq(Bytes),
         Fits(raw, a, t), Len(raw) >= a + Len(t)
  PROVE  SubSeq(raw, a + 1, a + Len(t)) = t
  <1> DEFINE s == SubSeq(raw, a + 1, a + Len(t))
  <1>1. Len(t) \in Nat /\ Len(raw) \in Nat /\ a + 1 \in Int /\ a + Len(t) \in Int
        /\ \A i \in a + 1 .. a + Len(t) : raw[i] \in Bytes
    OBVIOUS
  <1>2. /\ s \in Seq(Bytes)
        /\ Len(s) = IF a + 1 <= a + Len(t) THEN a + Len(t) - (a + 1) + 1 ELSE 0
        /\ \A i \in 1 .. a + Len(t) - (a + 1) + 1 : s[i] = raw[a + 1 + i - 1]
    BY <1>1, SubSeqProperties
  <1>3. Len(s) = Len(t)
    BY <1>1, <1>2
  <1>4. ASSUME NEW i \in 1 .. Len(t) PROVE s[i] = t[i]
    <2>1. i \in 1 .. a + Len(t) - (a + 1) + 1 /\ a + 1 + i - 1 = a + i /\ a + i <= Len(raw)
      BY <1>1
    <2>2. s[i] = raw[a + i]
      BY <1>2, <2>1
    <2> QED BY <2>1, <2>2 DEF Fits
  <1> HIDE DEF s
  <1>5. s = t
    BY <1>2, <1>3, <1>4, SeqEqual
  <1> QED BY <1>5 DEF s

\* A line that spells n is read as n once its end is there.
LEMMA NumberLineOf ==
  ASSUME NEW raw \in Seq(Bytes), NEW a \in Nat, NEW n \in Nat,
         Fits(raw, a, Decimal[n] \o CRLF)
  PROVE  NumberLine(raw, a + 1) =
            IF Len(raw) >= a + Len(Decimal[n]) + 2
            THEN [status |-> "ok", n |-> n, idx |-> a + Len(Decimal[n]) + 3] ELSE NoLine
  <1> DEFINE d == Decimal[n]
  <1>1. d \in Seq(Digits) /\ d # <<>> /\ Magnitude(d) = n
    BY DecimalSpells
  <1>2. d \in Seq(Bytes \ {"cr"}) /\ d \in Seq(Bytes) /\ Len(d) \in Nat
    <2>1. Digits \subseteq Bytes \ {"cr"} /\ Digits \subseteq Bytes
      BY StreamAssumption, DigitsArePlain
    <2> HIDE DEF d
    <2> QED BY <1>1, <2>1, SeqMonotonic
  <1> HIDE DEF d
  <1>3. Fits(raw, a, d \o CRLF)
    BY DEF d
  <1>4. Find(raw, a + 1) = IF Len(raw) >= a + Len(d) + 2 THEN a + Len(d) + 1 ELSE 0
    BY <1>2, <1>3, FindLine
  <1>5. CASE Len(raw) >= a + Len(d) + 2
    <2>1. Fits(raw, a, d)
      BY <1>2, <1>3, LineEnd, FitsConcat
    <2>2. SubSeq(raw, a + 1, a + Len(d)) = d
      BY <1>2, <1>5, <2>1, FitsText
    <2>3. Find(raw, a + 1) = a + Len(d) + 1 /\ a + Len(d) + 1 # 0
          /\ (a + Len(d) + 1) - 1 = a + Len(d) /\ a + Len(d) + 1 + 2 = a + Len(d) + 3
      BY <1>2, <1>4, <1>5
    <2>4. IsNumber(d) /\ Number(d) = n
      BY <1>1, PlainNumber
    <2>5. NumberLine(raw, a + 1) = [status |-> "ok", n |-> n, idx |-> a + Len(d) + 3]
      BY <2>2, <2>3, <2>4 DEF NumberLine
    <2> QED BY <1>5, <2>5 DEF d
  <1>6. CASE ~(Len(raw) >= a + Len(d) + 2)
    <2>1. NumberLine(raw, a + 1) = NoLine
      BY <1>4, <1>6 DEF NumberLine
    <2> QED BY <1>6, <2>1 DEF d
  <1> QED BY <1>5, <1>6

-----------------------------------------------------------------------------
(* One bulk string *)

LEMMA ConcatLen ==
  ASSUME NEW s \in Seq(Bytes), NEW t \in Seq(Bytes)
  PROVE  s \o t \in Seq(Bytes) /\ Len(s \o t) = Len(s) + Len(t)
  BY ConcatProperties

\* The bytes of a bulk string, in its parts.
LEMMA BulkBytes ==
  ASSUME NEW part \in Seq(Bytes)
  PROVE  /\ EncodeBulk(part) \in Seq(Bytes)
         /\ Decimal[Len(part)] \in Seq(Bytes) /\ Len(Decimal[Len(part)]) \in Nat
         /\ Len(EncodeBulk(part)) = Len(Decimal[Len(part)]) + Len(part) + 5
         /\ \A raw \in Seq(Bytes), a \in Nat :
               Fits(raw, a, EncodeBulk(part)) =>
                  /\ Fits(raw, a, <<"$">>)
                  /\ Fits(raw, a + 1, Decimal[Len(part)] \o CRLF)
                  /\ Fits(raw, a + Len(Decimal[Len(part)]) + 3, part)
                  /\ Fits(raw, a + Len(Decimal[Len(part)]) + Len(part) + 3, CRLF)
  <1> DEFINE d == Decimal[Len(part)]
             n == Len(part)
             m == Len(d)
             s1 == <<"$">>
             s2 == s1 \o d
             s3 == s2 \o CRLF
             s4 == s3 \o part
             s5 == s4 \o CRLF
  <1>1. n \in Nat /\ d \in Seq(Bytes) /\ m \in Nat
    <2>1. d \in Seq(Digits) /\ Digits \subseteq Bytes /\ n \in Nat
      BY DecimalSpells, StreamAssumption
    <2>2. d \in Seq(Bytes)
      BY <2>1, SeqMonotonic
    <2> HIDE DEF d
    <2> QED BY <2>1, <2>2
  <1>2. s1 \in Seq(Bytes) /\ Len(s1) = 1
    BY StreamAssumption
  <1>3. EncodeBulk(part) = s5
    BY DEF EncodeBulk
  <1> HIDE DEF d, n, m, s1
  <1>4. s2 \in Seq(Bytes) /\ Len(s2) = m + 1
    <2>1. s2 \in Seq(Bytes) /\ Len(s2) = Len(s1) + Len(d)
      BY <1>1, <1>2, ConcatLen, Zenon DEF s2
    <2> QED BY <1>1, <1>2, <2>1 DEF m
  <1> HIDE DEF s2
  <1>5. s3 \in Seq(Bytes) /\ Len(s3) = m + 3
    <2>1. s3 \in Seq(Bytes) /\ Len(s3) = Len(s2) + Len(CRLF)
      BY <1>4, LineEnd, ConcatLen, Zenon DEF s3
    <2> QED BY <1>1, <1>4, <2>1, LineEnd
  <1> HIDE DEF s3
  <1>6. s4 \in Seq(Bytes) /\ Len(s4) = m + 3 + n
    <2>1. s4 \in Seq(Bytes) /\ Len(s4) = Len(s3) + Len(part)
      BY <1>5, ConcatLen, Zenon DEF s4
    <2> QED BY <1>1, <1>5, <2>1 DEF n
  <1> HIDE DEF s4
  <1>7. s5 \in Seq(Bytes) /\ Len(s5) = m + n + 5
    <2>1. s5 \in Seq(Bytes) /\ Len(s5) = Len(s4) + Len(CRLF)
      BY <1>6, LineEnd, ConcatLen, Zenon DEF s5
    <2> QED BY <1>1, <1>6, <2>1, LineEnd
  <1> HIDE DEF s5
  <1>8. ASSUME NEW raw \in Seq(Bytes), NEW a \in Nat, Fits(raw, a, s5)
        PROVE  /\ Fits(raw, a, s1) /\ Fits(raw, a + 1, d \o CRLF)
               /\ Fits(raw, a + m + 3, part) /\ Fits(raw, a + m + n + 3, CRLF)
    <2>1. Fits(raw, a, s4) /\ Fits(raw, a + (m + 3 + n), CRLF)
      BY <1>6, <1>8, LineEnd, FitsConcat DEF s5
    <2>2. Fits(raw, a, s3) /\ Fits(raw, a + (m + 3), part)
      BY <1>5, <2>1, FitsConcat DEF s4
    <2>3. Fits(raw, a, s2) /\ Fits(raw, a + (m + 1), CRLF)
      BY <1>4, <2>2, LineEnd, FitsConcat DEF s3
    <2>4. Fits(raw, a, s1) /\ Fits(raw, a + 1, d)
      BY <1>1, <1>2, <2>3, FitsConcat DEF s2
    <2>5. a + (m + 3 + n) = a + m + n + 3 /\ a + (m + 3) = a + m + 3 /\ a + (m + 1) = a + 1 + Len(d)
      BY <1>1 DEF m
    <2>6. Fits(raw, a + 1, d \o CRLF)
      <3>1. a + 1 \in Nat /\ Fits(raw, a + 1 + Len(d), CRLF)
        BY <2>3, <2>5
      <3> QED BY <1>1, <2>4, <3>1, LineEnd, FitsBoth
    <2> QED BY <2>1, <2>2, <2>4, <2>5, <2>6
  <1> QED BY <1>1, <1>3, <1>7, <1>8 DEF d, n, m, s1

LEMMA MinOfTwo ==
  ASSUME NEW m \in Int, NEW n \in Int
  PROVE  Min({m, n}) = IF m <= n THEN m ELSE n
  <1> DEFINE x == IF m <= n THEN m ELSE n
  <1>1. x \in {m, n} /\ \A y \in {m, n} : x =< y
    OBVIOUS
  <1>2. \A z \in {m, n} : (\A y \in {m, n} : z =< y) => z = x
    OBVIOUS
  <1> HIDE DEF x
  <1>3. Min({m, n}) = x
    BY <1>1, <1>2 DEF Min
  <1> QED BY <1>3 DEF x

\* An encoded bulk string is read once it is all there, and waited for before.
LEMMA PartOf ==
  ASSUME NEW raw \in Seq(Bytes), NEW a \in Nat, NEW part \in Seq(Bytes \ {"ff"}), NEW ps,
         Fits(raw, a, EncodeBulk(part))
  PROVE  Part(raw, At("ok", a + 1, ps)) =
            IF Len(raw) >= a + Len(EncodeBulk(part))
            THEN At("ok", a + Len(EncodeBulk(part)) + 1, Append(ps, part))
            ELSE At("short", a + 1, <<>>)
  <1> DEFINE m == Len(Decimal[Len(part)])
             n == Len(part)
             p == At("ok", a + 1, ps)
             b == a + m + 3
             line == [status |-> "ok", n |-> n, idx |-> b + 1]
  <1>1. part \in Seq(Bytes) /\ n \in Nat /\ Len(raw) \in Nat
        /\ \A i \in 1 .. n : part[i] # "ff"
    <2>1. part \in Seq(Bytes)
      BY SeqMonotonic
    <2> QED BY <2>1
  <1>2. m \in Nat /\ Len(EncodeBulk(part)) = m + n + 5
    BY <1>1, BulkBytes
  <1>3. /\ Fits(raw, a, <<"$">>) /\ Fits(raw, a + 1, Decimal[n] \o CRLF)
        /\ Fits(raw, b, part) /\ Fits(raw, b + n, CRLF)
    <2>1. a + m + n + 3 = b + n
      BY <1>1, <1>2
    <2> QED BY <1>1, <2>1, BulkBytes
  <1>4. NumberLine(raw, a + 2) = IF Len(raw) >= b THEN line ELSE NoLine
    <2>1. a + 1 \in Nat /\ (a + 1) + 1 = a + 2 /\ (a + 1) + m + 2 = b /\ (a + 1) + m + 3 = b + 1
      <3> HIDE DEF m
      <3> QED BY <1>2
    <2>2. NumberLine(raw, (a + 1) + 1) =
            IF Len(raw) >= (a + 1) + m + 2
            THEN [status |-> "ok", n |-> n, idx |-> (a + 1) + m + 3] ELSE NoLine
      BY <1>1, <1>3, <2>1, NumberLineOf
    <2> QED BY <2>1, <2>2
  <1>5. p.status = "ok" /\ p.idx = a + 1 /\ p.parts = ps /\ (a + 1) + 1 = a + 2
    BY DEF At
  <1>6. line.status = "ok" /\ line.n = n /\ line.idx = b + 1
    OBVIOUS
  <1>7. CASE a + 1 > Len(raw)
    BY <1>1, <1>2, <1>5, <1>7 DEF Part
  <1>8. a + 1 <= Len(raw) => raw[a + 1] = "$"
    BY <1>3 DEF Fits
  <1> HIDE DEF m, n, p, b, line
  <1>9. CASE a + 1 <= Len(raw) /\ ~(Len(raw) >= b)
    <2>1. Part(raw, p) = At("short", a + 1, <<>>)
      BY <1>1, <1>4, <1>5, <1>8, <1>9 DEF Part, NoLine
    <2>2. ~(Len(raw) >= a + (m + n + 5))
      BY <1>1, <1>2, <1>9 DEF b
    <2> QED BY <1>2, <2>1, <2>2 DEF p
  <1>10. CASE a + 1 <= Len(raw) /\ Len(raw) >= b
    <2>1. Part(raw, p) = Bulk(raw, p, line)
      BY <1>1, <1>4, <1>5, <1>6, <1>8, <1>10 DEF Part
    <2>2. BodyEnd(raw, line) = b + n + 1 /\ b \in Nat
      BY <1>1, <1>2, <1>6 DEF BodyEnd, b
    <2>3. CASE ~(Len(raw) >= b + n + 2)
      <3>1. Bulk(raw, p, line) = At("short", a + 1, <<>>)
        BY <1>1, <1>5, <2>2, <2>3 DEF Bulk, Arrived
      <3>2. ~(Len(raw) >= a + (m + n + 5))
        BY <1>1, <1>2, <2>3 DEF b
      <3> QED BY <1>2, <2>1, <3>1, <3>2 DEF p
    <2>4. CASE Len(raw) >= b + n + 2
      <3>1. SubSeq(raw, b + 1, b + n) = part
        <4>1. Len(raw) >= b + Len(part)
          BY <1>1, <2>2, <2>4 DEF n
        <4> QED BY <1>1, <1>3, <2>2, <4>1, FitsText DEF n
      <3>2. SubSeq(raw, (b + n) + 1, (b + n) + 2) = CRLF
        <4>1. Len(raw) >= (b + n) + Len(CRLF) /\ b + n \in Nat
          BY <1>1, <2>2, <2>4, LineEnd
        <4>2. SubSeq(raw, (b + n) + 1, (b + n) + Len(CRLF)) = CRLF
          BY <1>3, <4>1, LineEnd, FitsText
        <4> QED BY <4>2, LineEnd
      <3>3. Slice(raw, line.idx, BodyEnd(raw, line) - 1) = part
        <4>1. Min({b + n, Len(raw)}) = b + n /\ (b + n + 1) - 1 = b + n
          BY <1>1, <2>2, <2>4, MinOfTwo
        <4> QED BY <1>6, <2>2, <3>1, <4>1 DEF Slice
      <3>4. Slice(raw, BodyEnd(raw, line), BodyEnd(raw, line) + 1) = CRLF
        <4>1. Min({b + n + 2, Len(raw)}) = b + n + 2 /\ (b + n + 1) + 1 = b + n + 2
              /\ (b + n) + 1 = b + n + 1
          BY <1>1, <2>2, <2>4, MinOfTwo
        <4> QED BY <2>2, <3>2, <4>1 DEF Slice
      <3>5. "ff" \notin ToSet(part) /\ Arrived(raw, BodyEnd(raw, line))
        BY <1>1, <2>2, <2>4 DEF ToSet, Arrived, n
      <3>6. Bulk(raw, p, line) = At("ok", (b + n + 1) + 2, Append(ps, part))
        BY <1>5, <2>2, <3>3, <3>4, <3>5 DEF Bulk
      <3>7. (b + n + 1) + 2 = a + (m + n + 5) + 1 /\ Len(raw) >= a + (m + n + 5)
        BY <1>1, <1>2, <2>4 DEF b
      <3> QED BY <1>2, <2>1, <3>6, <3>7 DEF p
    <2> QED BY <2>3, <2>4
  <1>11. a + 1 > Len(raw) \/ a + 1 <= Len(raw)
    BY <1>1
  <1> QED BY <1>7, <1>9, <1>10, <1>11

-----------------------------------------------------------------------------
(* A whole command *)

\* f has the bytes of the header and of the first bulk strings.
Encoded(f, parts) ==
  /\ f \in [0 .. Len(parts) -> Seq(Bytes)]
  /\ f[0] = <<"*">> \o Decimal[Len(parts)] \o CRLF
  /\ \A i \in 1 .. Len(parts) : f[i] = f[i - 1] \o EncodeBulk(parts[i])

LEMMA HeaderBytes ==
  ASSUME NEW n \in Nat
  PROVE  /\ <<"*">> \o Decimal[n] \o CRLF \in Seq(Bytes)
         /\ Decimal[n] \in Seq(Bytes) /\ Len(Decimal[n]) \in Nat
         /\ Len(<<"*">> \o Decimal[n] \o CRLF) = Len(Decimal[n]) + 3
         /\ \A raw \in Seq(Bytes) :
               Fits(raw, 0, <<"*">> \o Decimal[n] \o CRLF) =>
                  Fits(raw, 0, <<"*">>) /\ Fits(raw, 1, Decimal[n] \o CRLF)
  <1> DEFINE d == Decimal[n]
             m == Len(d)
             s1 == <<"*">>
             s2 == s1 \o d
             s3 == s2 \o CRLF
  <1>1. d \in Seq(Bytes) /\ m \in Nat
    <2>1. d \in Seq(Digits) /\ Digits \subseteq Bytes
      BY DecimalSpells, StreamAssumption
    <2>2. d \in Seq(Bytes)
      BY <2>1, SeqMonotonic
    <2> HIDE DEF d
    <2> QED BY <2>2
  <1>2. s1 \in Seq(Bytes) /\ Len(s1) = 1
    BY StreamAssumption
  <1> HIDE DEF d, m, s1
  <1>3. s2 \in Seq(Bytes) /\ Len(s2) = m + 1
    <2>1. s2 \in Seq(Bytes) /\ Len(s2) = Len(s1) + Len(d)
      BY <1>1, <1>2, ConcatLen, Zenon DEF s2
    <2> QED BY <1>1, <1>2, <2>1 DEF m
  <1> HIDE DEF s2
  <1>4. s3 \in Seq(Bytes) /\ Len(s3) = m + 3
    <2>1. s3 \in Seq(Bytes) /\ Len(s3) = Len(s2) + Len(CRLF)
      BY <1>3, LineEnd, ConcatLen, Zenon DEF s3
    <2> QED BY <1>1, <1>3, <2>1, LineEnd
  <1> HIDE DEF s3
  <1>5. ASSUME NEW raw \in Seq(Bytes), Fits(raw, 0, s3)
        PROVE  Fits(raw, 0, s1) /\ Fits(raw, 1, d \o CRLF)
    <2>1. Fits(raw, 0, s2) /\ Fits(raw, 0 + (m + 1), CRLF)
      BY <1>3, <1>5, LineEnd, FitsConcat DEF s3
    <2>2. Fits(raw, 0, s1) /\ Fits(raw, 0 + 1, d)
      BY <1>1, <1>2, <2>1, FitsConcat DEF s2
    <2>3. 0 + (m + 1) = 1 + Len(d) /\ 0 + 1 = 1
      BY <1>1 DEF m
    <2> QED BY <1>1, <2>1, <2>2, <2>3, LineEnd, FitsBoth
  <1> QED BY <1>1, <1>4, <1>5 DEF d, m, s1, s2, s3

LEMMA EncodeDef ==
  ASSUME NEW parts \in Seq(Seq(Bytes))
  PROVE  \E f : Encoded(f, parts) /\ Encode(parts) = f[Len(parts)]
  <1> DEFINE N == Len(parts)
             base == <<"*">> \o Decimal[N] \o CRLF
             first[i \in 0 .. N] ==
               IF i = 0 THEN base ELSE first[i - 1] \o EncodeBulk(parts[i])
             step == [i \in 1 .. N |-> [x \in Seq(Bytes) |-> x \o EncodeBulk(parts[i])]]
  <1>1. N \in Nat /\ \A i \in 1 .. N : EncodeBulk(parts[i]) \in Seq(Bytes)
    <2>1. N \in Nat /\ \A i \in 1 .. N : parts[i] \in Seq(Bytes)
      OBVIOUS
    <2> QED BY <2>1, BulkBytes
  <1>2. base \in Seq(Bytes)
    BY <1>1, HeaderBytes
  <1>3. Encode(parts) = first[N]
    BY DEF Encode
  <1> HIDE DEF N, base
  <1>4. step \in [1 .. N -> [Seq(Bytes) -> Seq(Bytes)]]
    <2>1. \A i \in 1 .. N : \A x \in Seq(Bytes) : x \o EncodeBulk(parts[i]) \in Seq(Bytes)
      BY <1>1, ConcatLen
    <2> QED BY <2>1
  <1>5. PICK f : Steps(f, N, Seq(Bytes), base, step)
    <2> HIDE DEF step
    <2> QED BY <1>1, <1>2, <1>4, Recursion
  <1>6. ASSUME NEW i \in 1 .. N PROVE f[i] = f[i - 1] \o EncodeBulk(parts[i])
    <2>1. i - 1 \in 0 .. N
      BY <1>1
    <2>2. f[i - 1] \in Seq(Bytes)
      BY <1>5, <2>1 DEF Steps
    <2> QED BY <1>5, <2>2 DEF Steps
  <1>7. f = [i \in 0 .. N |-> IF i = 0 THEN base ELSE f[i - 1] \o EncodeBulk(parts[i])]
    <2>1. \A i \in 0 .. N : f[i] = IF i = 0 THEN base ELSE f[i - 1] \o EncodeBulk(parts[i])
      <3>1. \A i \in 0 .. N : i = 0 \/ (i # 0 /\ i \in 1 .. N)
        BY <1>1
      <3>2. f[0] = base
        BY <1>5 DEF Steps
      <3> QED BY <1>6, <3>1, <3>2, Zenon
    <2>2. f = [i \in 0 .. N |-> f[i]]
      BY <1>5 DEF Steps
    <2> QED BY <2>1, <2>2
  <1>8. first = [i \in 0 .. N |-> IF i = 0 THEN base ELSE first[i - 1] \o EncodeBulk(parts[i])]
    BY <1>7, Zenon
  <1> HIDE DEF step, first
  <1> DEFINE T == {i \in 0 .. N : first[i] \in Seq(Bytes)}
  <1>9. 0 \in T /\ first[0] = base
    BY <1>1, <1>2, <1>8
  <1>10. ASSUME NEW i \in 1 .. N PROVE first[i] = first[i - 1] \o EncodeBulk(parts[i])
    <2>1. i \in 0 .. N /\ i # 0
      BY <1>1
    <2> QED BY <1>8, <2>1, Zenon
  <1>11. \A i \in 0 .. N - 1 : i \in T => i + 1 \in T
    <2> SUFFICES ASSUME NEW i \in 0 .. N - 1, first[i] \in Seq(Bytes)
                 PROVE  first[i + 1] \in Seq(Bytes)
      BY <1>1
    <2>1. i + 1 \in 1 .. N /\ (i + 1) - 1 = i
      BY <1>1
    <2>2. first[i + 1] = first[i] \o EncodeBulk(parts[i + 1])
      BY <1>10, <2>1
    <2> QED BY <1>1, <2>1, <2>2, ConcatLen
  <1>12. \A i \in 0 .. N : first[i] \in Seq(Bytes)
    <2> HIDE DEF T
    <2>1. \A i \in 0 .. N : i \in T
      BY <1>1, <1>9, <1>11, Induction
    <2> QED BY <2>1 DEF T
  <1>13. first \in [0 .. N -> Seq(Bytes)]
    BY <1>8, <1>12
  <1>14. Encoded(first, parts)
    BY <1>9, <1>10, <1>13 DEF Encoded, N, base
  <1> QED BY <1>3, <1>14 DEF N

\* g has what a parse comes to, bulk string by bulk string.
Followed(g, raw, idx, n) ==
  /\ g[0] = At("ok", idx, <<>>)
  /\ \A i \in 1 .. n : g[i] = Part(raw, g[i - 1])

LEMMA PartsDef ==
  ASSUME NEW raw, NEW idx, NEW n \in Nat
  PROVE  \E g : Followed(g, raw, idx, n) /\ Parts(raw, idx, n) = g[n]
  <1> DEFINE after[i \in 0 .. n] ==
               IF i = 0 THEN At("ok", idx, <<>>) ELSE Part(raw, after[i - 1])
             Is(g, m) == g = [i \in 0 .. m |-> IF i = 0 THEN At("ok", idx, <<>>)
                                               ELSE Part(raw, g[i - 1])]
             T == {m \in 0 .. n : \E g : Is(g, m)}
  <1>1. 0 \in T
    <2> DEFINE g == [i \in 0 .. 0 |-> At("ok", idx, <<>>)]
    <2>1. Is(g, 0)
      OBVIOUS
    <2>2. 0 \in 0 .. n
      OBVIOUS
    <2> HIDE DEF Is, g
    <2> QED BY <2>1, <2>2
  <1>2. ASSUME NEW m \in 0 .. n - 1, m \in T PROVE m + 1 \in T
    <2>1. PICK g : Is(g, m)
      BY <1>2
    <2> DEFINE h == [i \in 0 .. m + 1 |-> IF i = m + 1 THEN Part(raw, g[m]) ELSE g[i]]
    <2>2. ASSUME NEW i \in 0 .. m + 1
          PROVE  h[i] = IF i = 0 THEN At("ok", idx, <<>>) ELSE Part(raw, h[i - 1])
      <3>1. CASE i = m + 1
        <4>1. h[i] = Part(raw, g[m]) /\ h[i - 1] = g[m] /\ i # 0
          BY <3>1
        <4> QED BY <4>1
      <3>2. CASE i \in 1 .. m
        <4>1. h[i] = g[i] /\ h[i - 1] = g[i - 1]
          BY <3>2
        <4>2. g[i] = Part(raw, g[i - 1])
          BY <2>1, <3>2
        <4> QED BY <3>2, <4>1, <4>2
      <3>3. CASE i = 0
        BY <2>1, <3>3
      <3> QED BY <3>1, <3>2, <3>3
    <2>3. Is(h, m + 1)
      <3>1. h = [i \in 0 .. m + 1 |-> h[i]]
        OBVIOUS
      <3> HIDE DEF h
      <3> QED BY <2>2, <3>1
    <2>4. m + 1 \in 0 .. n
      OBVIOUS
    <2> HIDE DEF Is, h
    <2> QED BY <2>3, <2>4
  <1>3. \A m \in 0 .. n - 1 : m \in T => m + 1 \in T
    BY <1>2
  <1>4. n \in T
    <2> HIDE DEF T
    <2>1. \A m \in 0 .. n : m \in T
      BY <1>1, <1>3, Induction
    <2> QED BY <2>1
  <1>5. Is(after, n)
    <2>1. \E g : Is(g, n)
      BY <1>4
    <2> QED BY <2>1, Zenon
  <1>6. Parts(raw, idx, n) = after[n]
    BY DEF Parts
  <1> HIDE DEF after
  <1>7. Followed(after, raw, idx, n)
    BY <1>5 DEF Followed
  <1> QED BY <1>6, <1>7

LEMMA AppendNext ==
  ASSUME NEW S, NEW s \in Seq(S), NEW i \in 0 .. Len(s) - 1
  PROVE  Append(SubSeq(s, 1, i), s[i + 1]) = SubSeq(s, 1, i + 1)
  <1>1. /\ Len(s) \in Nat /\ i \in Nat /\ i + 1 \in 1 .. Len(s) /\ 1 \in Int /\ i \in Int /\ i + 1 \in Int
        /\ (i + 1) - 1 + 1 = i + 1 /\ i - 1 + 1 = i
        /\ \A j \in 1 .. i + 1 : s[j] \in S
    OBVIOUS
  <1> DEFINE a == SubSeq(s, 1, i)
             b == SubSeq(s, 1, i + 1)
  <1>2. a \in Seq(S) /\ Len(a) = i /\ \A j \in 1 .. i : a[j] = s[j]
    <2>1. /\ a \in Seq(S) /\ Len(a) = IF 1 <= i THEN i - 1 + 1 ELSE 0
          /\ \A j \in 1 .. i - 1 + 1 : a[j] = s[1 + j - 1]
      BY <1>1, SubSeqProperties
    <2> HIDE DEF a
    <2>2. \A j \in 1 .. i : a[j] = s[j]
      BY <1>1, <2>1
    <2> QED BY <1>1, <2>1, <2>2
  <1>3. b \in Seq(S) /\ Len(b) = i + 1 /\ \A j \in 1 .. i + 1 : b[j] = s[j]
    <2>1. /\ b \in Seq(S) /\ Len(b) = IF 1 <= i + 1 THEN (i + 1) - 1 + 1 ELSE 0
          /\ \A j \in 1 .. (i + 1) - 1 + 1 : b[j] = s[1 + j - 1]
      BY <1>1, SubSeqProperties
    <2> HIDE DEF b
    <2>2. \A j \in 1 .. i + 1 : b[j] = s[j]
      BY <1>1, <2>1
    <2> QED BY <1>1, <2>1, <2>2
  <1> HIDE DEF a, b
  <1> DEFINE c == Append(a, s[i + 1])
  <1>4. c \in Seq(S) /\ Len(c) = i + 1 /\ c[i + 1] = s[i + 1] /\ \A j \in 1 .. i : c[j] = a[j]
    BY <1>1, <1>2
  <1> HIDE DEF c
  <1>5. \A j \in 1 .. i + 1 : c[j] = b[j]
    BY <1>1, <1>2, <1>3, <1>4
  <1>6. c = b
    BY <1>3, <1>4, <1>5, SeqEqual
  <1> QED BY <1>6 DEF a, b, c

\* parse_one on bytes that agree with an encoded command: the command, once it is
\* all there, and NeedMoreData before.
LEMMA ParseEncoded ==
  ASSUME NEW cmd \in Seq(Seq(Bytes \ {"ff"})), cmd # <<>>,
         NEW raw \in Seq(Bytes), Fits(raw, 0, Encode(cmd))
  PROVE  /\ Encode(cmd) \in Seq(Bytes) /\ Len(Encode(cmd)) > 0
         /\ Parse(raw) = IF Len(raw) >= Len(Encode(cmd))
                         THEN At("ok", Len(Encode(cmd)) + 1, cmd) ELSE Short
  <1> DEFINE N == Len(cmd)
             d == Decimal[N]
             bulk(i) == EncodeBulk(cmd[i])
  <1>1. /\ cmd \in Seq(Seq(Bytes)) /\ N \in Nat /\ N >= 1
        /\ \A i \in 1 .. N : cmd[i] \in Seq(Bytes \ {"ff"}) /\ cmd[i] \in Seq(Bytes)
    <2>1. \A s \in Seq(Bytes \ {"ff"}) : s \in Seq(Bytes)
      BY SeqMonotonic
    <2>2. Seq(Bytes \ {"ff"}) \subseteq Seq(Bytes)
      BY <2>1
    <2>3. cmd \in Seq(Seq(Bytes))
      BY <2>2, SeqMonotonic
    <2>4. N \in Nat /\ N >= 1 /\ \A i \in 1 .. N : cmd[i] \in Seq(Bytes \ {"ff"})
      OBVIOUS
    <2> QED BY <2>1, <2>3, <2>4
  <1>2. PICK f : Encoded(f, cmd) /\ Encode(cmd) = f[N]
    BY <1>1, EncodeDef
  <1> HIDE DEF N
  <1>3. /\ \A i \in 0 .. N : f[i] \in Seq(Bytes) /\ Len(f[i]) \in Nat
        /\ \A i \in 1 .. N : i - 1 \in 0 .. N /\ i \in 0 .. N /\ f[i] = f[i - 1] \o bulk(i)
        /\ f[0] = <<"*">> \o d \o CRLF
    <2>1. f \in [0 .. N -> Seq(Bytes)] /\ f[0] = <<"*">> \o d \o CRLF
          /\ \A i \in 1 .. N : f[i] = f[i - 1] \o bulk(i)
      BY <1>2 DEF Encoded, N
    <2>2. \A i \in 0 .. N : f[i] \in Seq(Bytes) /\ Len(f[i]) \in Nat
      <3>1. \A i \in 0 .. N : f[i] \in Seq(Bytes)
        BY <2>1
      <3>2. \A x \in Seq(Bytes) : Len(x) \in Nat
        OBVIOUS
      <3> QED BY <3>1, <3>2
    <2>3. \A i \in 1 .. N : i - 1 \in 0 .. N /\ i \in 0 .. N
      BY <1>1
    <2> QED BY <2>1, <2>2, <2>3
  <1>4. \A i \in 1 .. N : /\ bulk(i) \in Seq(Bytes) /\ Len(bulk(i)) \in Nat /\ Len(bulk(i)) > 0
                          /\ Len(f[i]) = Len(f[i - 1]) + Len(bulk(i))
    <2> SUFFICES ASSUME NEW i \in 1 .. N
                 PROVE  /\ bulk(i) \in Seq(Bytes) /\ Len(bulk(i)) \in Nat /\ Len(bulk(i)) > 0
                        /\ Len(f[i]) = Len(f[i - 1]) + Len(bulk(i))
      OBVIOUS
    <2>1. cmd[i] \in Seq(Bytes) /\ Len(cmd[i]) \in Nat
      BY <1>1
    <2>2. bulk(i) \in Seq(Bytes) /\ Len(bulk(i)) \in Nat /\ Len(bulk(i)) > 0
      <3>1. \E m \in Nat : Len(bulk(i)) = m + Len(cmd[i]) + 5
        BY <2>1, BulkBytes
      <3>2. bulk(i) \in Seq(Bytes)
        BY <2>1, BulkBytes
      <3> HIDE DEF bulk
      <3> QED BY <2>1, <3>1, <3>2
    <2> HIDE DEF bulk
    <2>3. Len(f[i]) = Len(f[i - 1]) + Len(bulk(i))
      BY <1>3, <2>2, ConcatLen
    <2> QED BY <2>1, <2>2, <2>3
  \* the bytes fit piece by piece
  <1> DEFINE Fitting == {j \in 0 .. N : Fits(raw, 0, f[N - j])}
  <1>5. 0 \in Fitting
    <2>1. N - 0 = N /\ 0 \in 0 .. N
      BY <1>1
    <2> QED BY <1>2, <2>1
  <1>6. \A j \in 0 .. N - 1 : j \in Fitting => j + 1 \in Fitting
    <2> SUFFICES ASSUME NEW j \in 0 .. N - 1, Fits(raw, 0, f[N - j])
                 PROVE  j + 1 \in 0 .. N /\ Fits(raw, 0, f[N - (j + 1)])
      OBVIOUS
    <2>1. N - j \in 1 .. N /\ (N - j) - 1 = N - (j + 1) /\ j + 1 \in 0 .. N
      BY <1>1
    <2> DEFINE i == N - j
    <2>2. i \in 1 .. N /\ i - 1 = N - (j + 1) /\ Fits(raw, 0, f[i])
      BY <2>1
    <2> HIDE DEF i
    <2>3. Fits(raw, 0, f[i - 1] \o bulk(i)) /\ f[i - 1] \in Seq(Bytes) /\ bulk(i) \in Seq(Bytes)
      BY <1>3, <1>4, <2>2
    <2>4. Fits(raw, 0, f[i - 1])
      <3> HIDE DEF bulk
      <3> QED BY <2>3, FitsConcat
    <2> QED BY <2>1, <2>2, <2>4
  <1>7. \A i \in 0 .. N : Fits(raw, 0, f[i])
    <2> HIDE DEF Fitting
    <2>1. \A j \in 0 .. N : j \in Fitting
      BY <1>1, <1>5, <1>6, Induction
    <2> SUFFICES ASSUME NEW i \in 0 .. N PROVE Fits(raw, 0, f[i])
      OBVIOUS
    <2>2. N - i \in 0 .. N /\ N - (N - i) = i
      BY <1>1
    <2> QED BY <2>1, <2>2 DEF Fitting
  <1>8. \A i \in 1 .. N : Fits(raw, Len(f[i - 1]), bulk(i))
    <2> SUFFICES ASSUME NEW i \in 1 .. N PROVE Fits(raw, Len(f[i - 1]), bulk(i))
      OBVIOUS
    <2>1. Fits(raw, 0, f[i - 1] \o bulk(i))
      BY <1>3, <1>7
    <2>2. Fits(raw, 0 + Len(f[i - 1]), bulk(i))
      BY <1>3, <1>4, <2>1, FitsConcat
    <2>3. 0 + Len(f[i - 1]) = Len(f[i - 1])
      BY <1>3
    <2> QED BY <2>2, <2>3
  <1>9. Len(raw) \in Nat /\ Len(d) \in Nat /\ Len(f[0]) = Len(d) + 3
        /\ Fits(raw, 0, <<"*">>) /\ Fits(raw, 1, d \o CRLF)
    <2>1. 0 \in 0 .. N
      BY <1>1
    <2>2. Fits(raw, 0, <<"*">> \o d \o CRLF)
      BY <1>3, <1>7, <2>1
    <2> QED BY <1>1, <1>3, <2>2, HeaderBytes
  \* the length grows
  <1> DEFINE Longer == {i \in 0 .. N : Len(f[i]) >= Len(f[0])}
  <1>10. \A i \in 0 .. N : Len(f[i]) >= Len(f[0])
    <2>1. 0 \in Longer
      BY <1>1, <1>3
    <2>2. \A i \in 0 .. N - 1 : i \in Longer => i + 1 \in Longer
      <3> SUFFICES ASSUME NEW i \in 0 .. N - 1, Len(f[i]) >= Len(f[0])
                   PROVE  i + 1 \in 0 .. N /\ Len(f[i + 1]) >= Len(f[0])
        OBVIOUS
      <3>1. i + 1 \in 1 .. N /\ (i + 1) - 1 = i /\ i \in 0 .. N /\ i + 1 \in 0 .. N /\ 0 \in 0 .. N
        BY <1>1
      <3>2. \E m \in Nat : Len(f[i + 1]) = Len(f[i]) + m
        BY <1>4, <3>1
      <3>3. Len(f[i]) \in Nat /\ Len(f[0]) \in Nat
        BY <1>3, <3>1
      <3> HIDE DEF bulk
      <3>4. Len(f[i + 1]) >= Len(f[i])
        BY <3>2, <3>3
      <3>5. Len(f[i + 1]) \in Nat
        BY <1>3, <3>1
      <3> QED BY <3>1, <3>3, <3>4, <3>5
    <2> HIDE DEF Longer
    <2>3. \A i \in 0 .. N : i \in Longer
      BY <1>1, <2>1, <2>2, Induction
    <2> QED BY <2>3 DEF Longer
  <1>11. Encode(cmd) \in Seq(Bytes) /\ Len(Encode(cmd)) >= Len(d) + 3
    <2>1. N \in 0 .. N
      BY <1>1
    <2> QED BY <1>2, <1>3, <1>9, <1>10, <2>1
  <1> DEFINE line == NumberLine(raw, 2)
             idx == Len(d) + 4
  <1>12. line = IF Len(raw) >= Len(d) + 3 THEN [status |-> "ok", n |-> N, idx |-> idx] ELSE NoLine
    <2>1. 1 + 1 = 2 /\ 1 + Len(d) + 2 = Len(d) + 3 /\ 1 + Len(d) + 3 = Len(d) + 4
      BY <1>9
    <2>2. NumberLine(raw, 1 + 1) = IF Len(raw) >= 1 + Len(d) + 2
             THEN [status |-> "ok", n |-> N, idx |-> 1 + Len(d) + 3] ELSE NoLine
      BY <1>1, <1>9, NumberLineOf
    <2> QED BY <2>1, <2>2
  <1>13. raw # <<>> => raw[1] = "*"
    <2>1. raw # <<>> => 0 + 1 <= Len(raw)
      OBVIOUS
    <2> QED BY <1>9, <2>1 DEF Fits
  <1>14. CASE ~(Len(raw) >= Len(d) + 3)
    <2>1. Parse(raw) = Short
      <3> HIDE DEF line, d
      <3> QED BY <1>12, <1>13, <1>14 DEF Parse, NoLine, Short, line
    <2>2. ~(Len(raw) >= Len(Encode(cmd))) /\ Len(Encode(cmd)) > 0
      <3> HIDE DEF d
      <3> QED BY <1>9, <1>11, <1>14
    <2> QED BY <1>11, <2>1, <2>2
  <1>15. CASE Len(raw) >= Len(d) + 3
    <2>1. Parse(raw) = Verdict(Parts(raw, idx, N))
      <3>1. raw # <<>> /\ line.status = "ok" /\ line.n = N /\ line.idx = idx /\ ~(N <= 0)
        <4> HIDE DEF d, idx, line
        <4> QED BY <1>1, <1>9, <1>12, <1>15
      <3> HIDE DEF line, d, idx
      <3> QED BY <1>13, <3>1 DEF Parse, line
    <2>2. PICK g : Followed(g, raw, idx, N) /\ Parts(raw, idx, N) = g[N]
      BY <1>1, PartsDef
    <2> DEFINE there(i) == Len(raw) >= Len(f[i])
               Right(i) == IF there(i) THEN g[i] = At("ok", Len(f[i]) + 1, SubSeq(cmd, 1, i))
                                       ELSE g[i].status = "short"
               T == {i \in 0 .. N : Right(i)}
    <2>3. 0 \in T
      <3>1. there(0) /\ idx = Len(f[0]) + 1 /\ 0 \in 0 .. N
        <4> HIDE DEF d
        <4> QED BY <1>1, <1>9, <1>15
      <3>2. SubSeq(cmd, 1, 0) = <<>>
        BY SubSeqEmpty
      <3> QED BY <2>2, <3>1, <3>2 DEF Followed
    <2>4. \A i \in 0 .. N - 1 : i \in T => i + 1 \in T
      <3> SUFFICES ASSUME NEW i \in 0 .. N - 1, Right(i) PROVE Right(i + 1) /\ i + 1 \in 0 .. N
        OBVIOUS
      <3> DEFINE k == i + 1
      <3>1. k \in 1 .. N /\ k - 1 = i /\ i \in 0 .. N /\ k \in 0 .. N
        BY <1>1
      <3>2. g[k] = Part(raw, g[i])
        BY <2>2, <3>1 DEF Followed
      <3>3. Len(f[i]) \in Nat /\ Len(f[k]) = Len(f[i]) + Len(bulk(k)) /\ Len(bulk(k)) \in Nat
        BY <1>3, <1>4, <3>1
      <3>4. cmd[k] \in Seq(Bytes \ {"ff"}) /\ Fits(raw, Len(f[i]), bulk(k))
        BY <1>1, <1>8, <3>1
      <3> HIDE DEF k
      <3>5. CASE ~there(i)
        <4>1. g[k] = g[i]
          BY <3>2, <3>5 DEF Part
        <4>2. ~there(k)
          <5> HIDE DEF bulk
          <5> QED BY <1>9, <3>3, <3>5
        <4> QED BY <3>1, <3>5, <4>1, <4>2 DEF k
      <3>6. CASE there(i)
        <4>1. g[k] = Part(raw, At("ok", Len(f[i]) + 1, SubSeq(cmd, 1, i)))
          BY <3>2, <3>6
        <4>2. g[k] = IF Len(raw) >= Len(f[i]) + Len(bulk(k))
                     THEN At("ok", Len(f[i]) + Len(bulk(k)) + 1, Append(SubSeq(cmd, 1, i), cmd[k]))
                     ELSE At("short", Len(f[i]) + 1, <<>>)
          BY <3>3, <3>4, <4>1, PartOf
        <4>3. Append(SubSeq(cmd, 1, i), cmd[k]) = SubSeq(cmd, 1, k)
          BY <1>1, <3>1, AppendNext DEF k, N
        <4>4. IF there(k) THEN g[k] = At("ok", Len(f[k]) + 1, SubSeq(cmd, 1, k))
                          ELSE g[k].status = "short"
          <5> HIDE DEF bulk
          <5>1. CASE there(k)
            <6>1. Len(raw) >= Len(f[i]) + Len(bulk(k))
              BY <3>3, <5>1
            <6> QED BY <3>3, <4>2, <4>3, <5>1, <6>1
          <5>2. CASE ~there(k)
            <6>1. ~(Len(raw) >= Len(f[i]) + Len(bulk(k)))
              BY <3>3, <5>2
            <6> QED BY <4>2, <5>2, <6>1 DEF At
          <5> QED BY <5>1, <5>2
        <4> QED BY <3>1, <4>4 DEF k
      <3> QED BY <3>5, <3>6
    <2>5. Right(N)
      <3> HIDE DEF T
      <3>1. \A i \in 0 .. N : i \in T
        BY <1>1, <2>3, <2>4, Induction
      <3>2. N \in T
        BY <1>1, <3>1
      <3> QED BY <3>2 DEF T
    <2>6. SubSeq(cmd, 1, N) = cmd
      BY <1>1, SubSeqFull DEF N
    <2>7. Parse(raw) = IF Len(raw) >= Len(Encode(cmd))
                       THEN At("ok", Len(Encode(cmd)) + 1, cmd) ELSE Short
      <3> HIDE DEF d, idx
      <3>1. CASE Len(raw) >= Len(f[N])
        <4>1. g[N] = At("ok", Len(f[N]) + 1, cmd)
          BY <2>5, <2>6, <3>1
        <4> QED BY <1>2, <2>1, <2>2, <3>1, <4>1 DEF Verdict, At
      <3>2. CASE ~(Len(raw) >= Len(f[N]))
        <4>1. g[N].status = "short"
          BY <2>5, <3>2
        <4> QED BY <1>2, <2>1, <2>2, <3>2, <4>1 DEF Verdict, Short
      <3> QED BY <3>1, <3>2
    <2> QED BY <1>9, <1>11, <2>7
  <1> QED BY <1>14, <1>15

-----------------------------------------------------------------------------
(* Words one after the other *)

\* bytes are the words of ws, and cut says where each ends.
CutInto(bytes, ws, cut) ==
  /\ cut \in [0 .. Len(ws) -> 0 .. Len(bytes)]
  /\ cut[0] = 0 /\ cut[Len(ws)] = Len(bytes)
  /\ \A i \in 1 .. Len(ws) :
        cut[i] = cut[i - 1] + Len(ws[i]) /\ Fits(bytes, cut[i - 1], ws[i])

Spells(bytes, ws) == \E cut : CutInto(bytes, ws, cut)

LEMMA SpellsNothing ==
  /\ Spells(<<>>, <<>>)
  /\ \A bytes \in Seq(Bytes) : Spells(bytes, <<>>) => bytes = <<>>
  <1>1. Spells(<<>>, <<>>)
    <2> DEFINE cut == [i \in 0 .. 0 |-> 0]
    <2>1. CutInto(<<>>, <<>>, cut)
      BY DEF CutInto
    <2> HIDE DEF cut
    <2> QED BY <2>1 DEF Spells
  <1>2. ASSUME NEW bytes \in Seq(Bytes), Spells(bytes, <<>>) PROVE bytes = <<>>
    <2>1. PICK cut : CutInto(bytes, <<>>, cut)
      BY <1>2 DEF Spells
    <2>2. Len(bytes) = 0
      BY <2>1 DEF CutInto
    <2> QED BY <2>2
  <1> QED BY <1>1, <1>2

LEMMA SpellsAppend ==
  ASSUME NEW bytes \in Seq(Bytes), NEW ws \in Seq(Seq(Bytes)), NEW w \in Seq(Bytes),
         Spells(bytes, ws)
  PROVE  Spells(bytes \o w, Append(ws, w))
  <1> DEFINE n == Len(ws)
             b == bytes \o w
             v == Append(ws, w)
  <1>1. n \in Nat /\ Len(bytes) \in Nat /\ Len(w) \in Nat
    OBVIOUS
  <1>2. /\ b \in Seq(Bytes) /\ Len(b) = Len(bytes) + Len(w)
        /\ \A i \in 1 .. Len(bytes) + Len(w) :
              b[i] = IF i <= Len(bytes) THEN bytes[i] ELSE w[i - Len(bytes)]
    BY ConcatProperties
  <1>3. /\ Len(v) = n + 1 /\ v[n + 1] = w
        /\ \A i \in 1 .. n : v[i] = ws[i] /\ Len(ws[i]) \in Nat
    <2>1. Len(v) = n + 1 /\ v[n + 1] = w /\ \A i \in 1 .. n : v[i] = ws[i]
      BY AppendProperties
    <2>2. \A i \in 1 .. n : ws[i] \in Seq(Bytes)
      OBVIOUS
    <2>3. \A x \in Seq(Bytes) : Len(x) \in Nat
      OBVIOUS
    <2> QED BY <2>1, <2>2, <2>3
  <1>4. PICK cut : CutInto(bytes, ws, cut)
    BY DEF Spells
  <1> HIDE DEF n, b, v
  <1>5. /\ cut \in [0 .. n -> 0 .. Len(bytes)] /\ cut[0] = 0 /\ cut[n] = Len(bytes)
        /\ \A i \in 1 .. n : cut[i] = cut[i - 1] + Len(ws[i]) /\ Fits(bytes, cut[i - 1], ws[i])
    BY <1>4 DEF CutInto, n
  <1> DEFINE c == [i \in 0 .. n + 1 |-> IF i = n + 1 THEN Len(b) ELSE cut[i]]
  <1>6. c \in [0 .. n + 1 -> 0 .. Len(b)] /\ c[0] = 0 /\ c[n + 1] = Len(b)
        /\ \A i \in 0 .. n : c[i] = cut[i] /\ cut[i] \in 0 .. Len(bytes)
    <2>1. \A i \in 0 .. n : cut[i] \in 0 .. Len(bytes) /\ cut[i] \in 0 .. Len(b)
      <3>1. \A i \in 0 .. n : cut[i] \in 0 .. Len(bytes)
        BY <1>5
      <3>2. \A x \in 0 .. Len(bytes) : x \in 0 .. Len(b)
        BY <1>1, <1>2
      <3> QED BY <3>1, <3>2
    <2>2. Len(b) \in 0 .. Len(b)
      BY <1>1, <1>2
    <2>3. c \in [0 .. n + 1 -> 0 .. Len(b)]
      BY <1>1, <2>1, <2>2
    <2>4. \A i \in 0 .. n : c[i] = cut[i]
      BY <1>1
    <2> QED BY <1>1, <1>5, <2>1, <2>3, <2>4
  <1> HIDE DEF c
  <1>7. ASSUME NEW i \in 1 .. n PROVE c[i] = c[i - 1] + Len(v[i]) /\ Fits(b, c[i - 1], v[i])
    <2>1. i \in 0 .. n /\ i - 1 \in 0 .. n /\ c[i] = cut[i] /\ c[i - 1] = cut[i - 1] /\ v[i] = ws[i]
      BY <1>1, <1>3, <1>6
    <2>2. cut[i] = cut[i - 1] + Len(ws[i]) /\ Fits(bytes, cut[i - 1], ws[i])
      BY <1>5
    <2>3. ASSUME NEW j \in 1 .. Len(ws[i]), cut[i - 1] + j <= Len(b)
          PROVE  b[cut[i - 1] + j] = ws[i][j]
      <3>1. cut[i - 1] \in Nat /\ cut[i] <= Len(bytes) /\ Len(ws[i]) \in Nat /\ cut[i] \in Nat
        BY <1>1, <1>3, <1>6, <2>1
      <3>2. cut[i - 1] + j <= Len(bytes) /\ cut[i - 1] + j \in 1 .. Len(bytes) + Len(w)
        BY <1>1, <2>2, <3>1, SMTT(30)
      <3>3. b[cut[i - 1] + j] = bytes[cut[i - 1] + j]
        BY <1>2, <3>2
      <3> QED BY <2>2, <3>2, <3>3 DEF Fits
    <2> QED BY <2>1, <2>2, <2>3 DEF Fits
  <1>8. c[n + 1] = c[(n + 1) - 1] + Len(v[n + 1]) /\ Fits(b, c[(n + 1) - 1], v[n + 1])
    <2>1. (n + 1) - 1 = n /\ c[n] = Len(bytes) /\ v[n + 1] = w
      BY <1>1, <1>3, <1>5, <1>6
    <2>2. ASSUME NEW j \in 1 .. Len(w) PROVE b[Len(bytes) + j] = w[j]
      <3>1. Len(bytes) + j \in 1 .. Len(bytes) + Len(w) /\ ~(Len(bytes) + j <= Len(bytes))
            /\ (Len(bytes) + j) - Len(bytes) = j
        BY <1>1
      <3> QED BY <1>2, <3>1
    <2> QED BY <1>2, <1>6, <2>1, <2>2 DEF Fits
  <1>9. \A i \in 1 .. n + 1 : c[i] = c[i - 1] + Len(v[i]) /\ Fits(b, c[i - 1], v[i])
    <2>1. \A i \in 1 .. n + 1 : i \in 1 .. n \/ i = n + 1
      BY <1>1
    <2> QED BY <1>7, <1>8, <2>1
  <1>10. CutInto(b, v, c)
    BY <1>3, <1>6, <1>9 DEF CutInto
  <1> QED BY <1>10 DEF Spells, b, v

\* The bytes of s after the first n.
LEMMA Dropped ==
  ASSUME NEW S, NEW s \in Seq(S), NEW n \in 0 .. Len(s)
  PROVE  /\ SubSeq(s, n + 1, Len(s)) \in Seq(S)
         /\ Len(SubSeq(s, n + 1, Len(s))) = Len(s) - n
         /\ \A j \in 1 .. Len(s) - n : SubSeq(s, n + 1, Len(s))[j] = s[n + j]
  <1> DEFINE d == SubSeq(s, n + 1, Len(s))
  <1>1. /\ Len(s) \in Nat /\ n + 1 \in Int /\ Len(s) \in Int
        /\ \A j \in n + 1 .. Len(s) : s[j] \in S
    OBVIOUS
  <1>2. /\ d \in Seq(S) /\ Len(d) = IF n + 1 <= Len(s) THEN Len(s) - (n + 1) + 1 ELSE 0
        /\ \A j \in 1 .. Len(s) - (n + 1) + 1 : d[j] = s[n + 1 + j - 1]
    BY <1>1, SubSeqProperties
  <1> HIDE DEF d
  <1>3. \A j \in 1 .. Len(s) - n : d[j] = s[n + j]
    <2> SUFFICES ASSUME NEW j \in 1 .. Len(s) - n PROVE d[j] = s[n + j]
      OBVIOUS
    <2>1. j \in 1 .. Len(s) - (n + 1) + 1 /\ n + 1 + j - 1 = n + j
      BY <1>1
    <2> QED BY <1>2, <2>1
  <1>4. Len(d) = Len(s) - n
    BY <1>1, <1>2
  <1> QED BY <1>2, <1>3, <1>4 DEF d

LEMMA SpellsFirst ==
  ASSUME NEW bytes \in Seq(Bytes), NEW ws \in Seq(Seq(Bytes)), ws # <<>>, Spells(bytes, ws)
  PROVE  /\ Len(ws[1]) \in 0 .. Len(bytes) /\ Fits(bytes, 0, ws[1])
         /\ Spells(SubSeq(bytes, Len(ws[1]) + 1, Len(bytes)), Tail(ws))
  <1> DEFINE n == Len(ws)
             m == Len(ws[1])
             d == SubSeq(bytes, m + 1, Len(bytes))
             v == Tail(ws)
  <1>1. n \in Nat /\ n >= 1 /\ Len(bytes) \in Nat /\ m \in Nat
        /\ \A i \in 1 .. n : Len(ws[i]) \in Nat
    <2>1. n \in Nat /\ n >= 1 /\ Len(bytes) \in Nat /\ \A i \in 1 .. n : ws[i] \in Seq(Bytes)
      OBVIOUS
    <2>2. \A x \in Seq(Bytes) : Len(x) \in Nat
      OBVIOUS
    <2> QED BY <2>1, <2>2
  <1>2. Len(v) = n - 1 /\ \A i \in 1 .. n - 1 : v[i] = ws[i + 1]
    BY HeadTailProperties
  <1>3. PICK cut : CutInto(bytes, ws, cut)
    BY DEF Spells
  <1> HIDE DEF n
  <1>4. /\ cut \in [0 .. n -> 0 .. Len(bytes)] /\ cut[0] = 0 /\ cut[n] = Len(bytes)
        /\ \A i \in 1 .. n : cut[i] = cut[i - 1] + Len(ws[i]) /\ Fits(bytes, cut[i - 1], ws[i])
    BY <1>3 DEF CutInto, n
  <1>5. cut[1] = m /\ Fits(bytes, 0, ws[1]) /\ m \in 0 .. Len(bytes)
    <2>1. 1 \in 1 .. n /\ 1 \in 0 .. n /\ 1 - 1 = 0
      BY <1>1
    <2>2. cut[1] = cut[0] + Len(ws[1]) /\ Fits(bytes, cut[0], ws[1]) /\ cut[1] \in 0 .. Len(bytes)
      BY <1>4, <2>1
    <2> QED BY <1>1, <1>4, <2>2
  <1> HIDE DEF m
  <1>6. Len(d) = Len(bytes) - m /\ \A j \in 1 .. Len(bytes) - m : d[j] = bytes[m + j]
    BY <1>5, Dropped
  <1> HIDE DEF d, v
  <1> DEFINE Growing == {i \in 0 .. n - 1 : cut[i + 1] >= m}
  <1>7. \A i \in 1 .. n : cut[i] >= m /\ cut[i] \in 0 .. Len(bytes)
    <2>1. 0 \in Growing
      BY <1>1, <1>5
    <2>2. \A i \in 0 .. (n - 1) - 1 : i \in Growing => i + 1 \in Growing
      <3> SUFFICES ASSUME NEW i \in 0 .. (n - 1) - 1, cut[i + 1] >= m
                   PROVE  i + 1 \in 0 .. n - 1 /\ cut[(i + 1) + 1] >= m
        OBVIOUS
      <3>1. i + 2 \in 1 .. n /\ (i + 2) - 1 = i + 1 /\ (i + 1) + 1 = i + 2 /\ i + 1 \in 0 .. n - 1
            /\ i + 1 \in 0 .. n
        BY <1>1
      <3>2. cut[i + 2] = cut[i + 1] + Len(ws[i + 2]) /\ Len(ws[i + 2]) \in Nat /\ cut[i + 1] \in Nat
        BY <1>1, <1>4, <3>1
      <3>3. cut[i + 2] >= m
        BY <1>1, <3>2
      <3> QED BY <3>1, <3>3
    <2> HIDE DEF Growing
    <2>3. \A i \in 0 .. n - 1 : i \in Growing
      <3>1. n - 1 \in Nat
        BY <1>1
      <3> QED BY <2>1, <2>2, <3>1, Induction
    <2> SUFFICES ASSUME NEW i \in 1 .. n PROVE cut[i] >= m /\ cut[i] \in 0 .. Len(bytes)
      OBVIOUS
    <2>4. i - 1 \in 0 .. n - 1 /\ (i - 1) + 1 = i /\ i \in 0 .. n
      BY <1>1
    <2> QED BY <1>4, <2>3, <2>4 DEF Growing
  <1> DEFINE c == [i \in 0 .. n - 1 |-> cut[i + 1] - m]
  <1>8. c \in [0 .. n - 1 -> 0 .. Len(d)] /\ c[0] = 0 /\ c[n - 1] = Len(d)
        /\ \A i \in 0 .. n - 1 : c[i] = cut[i + 1] - m
    <2>1. \A i \in 0 .. n - 1 : i + 1 \in 1 .. n
      BY <1>1
    <2>2. \A i \in 0 .. n - 1 : cut[i + 1] - m \in 0 .. Len(d)
      BY <1>1, <1>5, <1>6, <1>7, <2>1
    <2>3. 0 \in 0 .. n - 1 /\ n - 1 \in 0 .. n - 1 /\ 0 + 1 = 1 /\ (n - 1) + 1 = n
      BY <1>1
    <2>4. \A i \in 0 .. n - 1 : c[i] = cut[i + 1] - m
      OBVIOUS
    <2>5. c \in [0 .. n - 1 -> 0 .. Len(d)]
      BY <2>2
    <2> HIDE DEF c
    <2>6. c[0] = cut[1] - m /\ c[n - 1] = cut[n] - m
      BY <2>3, <2>4
    <2>7. c[0] = 0
      BY <1>1, <1>5, <2>6
    <2>8. c[n - 1] = Len(d)
      BY <1>4, <1>6, <2>6
    <2> QED BY <2>4, <2>5, <2>7, <2>8
  <1> HIDE DEF c
  <1>9. ASSUME NEW i \in 1 .. n - 1 PROVE c[i] = c[i - 1] + Len(v[i]) /\ Fits(d, c[i - 1], v[i])
    <2>1. i + 1 \in 1 .. n /\ (i + 1) - 1 = i /\ i \in 1 .. n /\ i \in 0 .. n - 1 /\ i - 1 \in 0 .. n - 1
          /\ (i - 1) + 1 = i
      BY <1>1
    <2>2. cut[i + 1] = cut[i] + Len(ws[i + 1]) /\ Fits(bytes, cut[i], ws[i + 1])
      BY <1>4, <2>1
    <2>3. c[i] = cut[i + 1] - m /\ c[i - 1] = cut[i] - m /\ v[i] = ws[i + 1]
      BY <1>2, <1>8, <2>1
    <2>4. cut[i] \in Nat /\ cut[i] >= m /\ Len(ws[i + 1]) \in Nat
      BY <1>1, <1>7, <2>1
    <2>5. c[i] = c[i - 1] + Len(v[i])
      BY <1>1, <2>2, <2>3, <2>4
    <2>6. ASSUME NEW j \in 1 .. Len(v[i]), c[i - 1] + j <= Len(d)
          PROVE  d[c[i - 1] + j] = v[i][j]
      <3>1. c[i - 1] + j \in 1 .. Len(bytes) - m /\ m + (c[i - 1] + j) = cut[i] + j
            /\ cut[i] + j <= Len(bytes)
        <4>1. j \in Nat /\ j >= 1 /\ c[i - 1] = cut[i] - m
          BY <2>3, <2>4
        <4>2. (cut[i] - m) + j <= Len(bytes) - m
          BY <1>6, <2>6, <4>1
        <4>3. (cut[i] - m) + j \in 1 .. Len(bytes) - m /\ m + ((cut[i] - m) + j) = cut[i] + j
              /\ cut[i] + j <= Len(bytes)
          <5>1. \A x, y, z, k \in Nat :
                   x >= y /\ k >= 1 /\ (x - y) + k <= z - y =>
                      (x - y) + k \in 1 .. z - y /\ y + ((x - y) + k) = x + k /\ x + k <= z
            OBVIOUS
          <5> QED BY <1>1, <2>4, <4>1, <4>2, <5>1, Zenon
        <4> QED BY <4>1, <4>3
      <3>2. d[c[i - 1] + j] = bytes[cut[i] + j]
        BY <1>6, <3>1
      <3> QED BY <2>2, <2>3, <3>1, <3>2 DEF Fits
    <2> QED BY <2>5, <2>6 DEF Fits
  <1>10. CutInto(d, v, c)
    BY <1>2, <1>8, <1>9 DEF CutInto
  <1>11. Spells(d, v)
    BY <1>10 DEF Spells
  <1> QED BY <1>5, <1>11 DEF d, v, m

-----------------------------------------------------------------------------
(* What a parse returns, on any bytes *)

LEMMA Greatest ==
  ASSUME NEW N \in Nat, NEW T \in SUBSET (1 .. N), T # {}
  PROVE  \E n \in T : \A m \in T : n >= m
  <1> DEFINE R == {N - i : i \in T}
  <1>1. R \in SUBSET Nat /\ R # {}
    <2>1. \A i \in 1 .. N : N - i \in Nat
      OBVIOUS
    <2>2. \A i \in T : N - i \in Nat
      BY <2>1
    <2> QED BY <2>2
  <1>2. PICK r \in R : \A x \in R : r <= x
    <2> HIDE DEF R
    <2> QED BY <1>1, Least
  <1>3. PICK n \in T : r = N - n
    BY <1>2
  <1>4. \A m \in T : N - n <= N - m
    BY <1>2, <1>3
  <1> QED BY <1>4

LEMMA StrippedType ==
  ASSUME NEW text \in Seq(Bytes)
  PROVE  Stripped(text) \in Seq(Bytes)
  <1> DEFINE ink == {i \in 1 .. Len(text) : text[i] \notin {"cr", "lf"}}
  <1>1. CASE ink = {}
    BY <1>1 DEF Stripped
  <1>2. CASE ink # {}
    <2>1. Len(text) \in Nat /\ ink \in SUBSET (1 .. Len(text)) /\ ink \in SUBSET Nat
      OBVIOUS
    <2> HIDE DEF ink
    <2>2. Min(ink) \in ink /\ Max(ink) \in ink
      <3>1. \E n \in ink : \A m \in ink : n =< m
        BY <1>2, <2>1, Least
      <3>2. \E n \in ink : \A m \in ink : n >= m
        BY <1>2, <2>1, Greatest
      <3> QED BY <3>1, <3>2 DEF Min, Max
    <2>3. Min(ink) \in 1 .. Len(text) /\ Max(ink) \in 1 .. Len(text)
      BY <2>1, <2>2
    <2>4. \A i \in Min(ink) .. Max(ink) : text[i] \in Bytes
      BY <2>1, <2>3
    <2>5. SubSeq(text, Min(ink), Max(ink)) \in Seq(Bytes)
      BY <2>3, <2>4, SubSeqProperties
    <2> QED BY <1>2, <2>5 DEF Stripped, ink
  <1> QED BY <1>1, <1>2

LEMMA NumberType ==
  ASSUME NEW text \in Seq(Bytes), IsNumber(text)
  PROVE  Number(text) \in Int
  <1> DEFINE s == Stripped(text)
             u == Unsigned(s)
  <1>1. s \in Seq(Bytes)
    BY StrippedType
  <1>2. u # <<>> /\ ToSet(u) \subseteq Digits
    BY DEF IsNumber
  <1>3. Number(text) = IF s[1] = "-" THEN -Magnitude(u) ELSE Magnitude(u)
    BY DEF Number
  <1> HIDE DEF s
  <1>4. u \in Seq(Bytes)
    BY <1>1 DEF Unsigned
  <1> HIDE DEF u
  <1>5. u \in Seq(Digits)
    <2>1. \A i \in 1 .. Len(u) : u[i] \in Digits
      BY <1>2, <1>4 DEF ToSet
    <2> QED BY <1>4, <2>1
  <1>6. Magnitude(u) \in Nat
    <2>1. DigitSymbols[0 + 1] \in Digits
      BY DigitTypes
    <2> QED BY <1>5, <2>1, MagnitudeOfAppend
  <1> QED BY <1>3, <1>6

LEMMA FindType ==
  ASSUME NEW raw, NEW start \in Nat, Find(raw, start) # 0
  PROVE  /\ Find(raw, start) \in start .. Len(raw) - 1
         /\ LineEndsAt(raw, Find(raw, start))
         /\ \A j \in start .. Find(raw, start) - 1 : ~LineEndsAt(raw, j)
  <1> DEFINE from == start .. Len(raw) - 1
             First(i) == LineEndsAt(raw, i) /\ \A j \in start .. i - 1 : ~LineEndsAt(raw, j)
  <1>1. \E i \in from : LineEndsAt(raw, i)
    BY DEF Find
  <1>2. \E i \in from : First(i)
    <2> DEFINE T == {i \in from : LineEndsAt(raw, i)}
    <2>1. T \in SUBSET Nat /\ T # {}
      BY <1>1
    <2>2. PICK i \in T : \A j \in T : i <= j
      <3> HIDE DEF T
      <3> QED BY <2>1, Least
    <2>3. \A j \in start .. i - 1 : j \in from /\ ~(i <= j)
      BY <2>2
    <2> QED BY <2>2, <2>3
  <1>3. Find(raw, start) = CHOOSE i \in from : First(i)
    BY <1>1 DEF Find
  <1> QED BY <1>2, <1>3

LEMMA NumberLineType ==
  ASSUME NEW raw \in Seq(Bytes), NEW start \in Nat \ {0}, NEW line, line = NumberLine(raw, start)
  PROVE  /\ line.status \in {"ok", "short", "bad"}
         /\ line.status = "ok" => line.n \in Int /\ line.idx \in start + 2 .. Len(raw) + 1
  <1> DEFINE end == Find(raw, start)
             text == SubSeq(raw, start, end - 1)
  <1>1. CASE end = 0
    BY <1>1 DEF NumberLine, NoLine
  <1>2. CASE end # 0
    <2>1. end \in start .. Len(raw) - 1 /\ Len(raw) \in Nat
      BY <1>2, FindType
    <2> HIDE DEF end
    <2>2. text \in Seq(Bytes)
      <3>1. \A i \in start .. end - 1 : raw[i] \in Bytes
        BY <2>1
      <3> QED BY <2>1, <3>1, SubSeqProperties
    <2>3. IsNumber(text) => Number(text) \in Int
      BY <2>2, NumberType
    <2>4. line = IF IsNumber(text) THEN [status |-> "ok", n |-> Number(text), idx |-> end + 2]
                 ELSE [NoLine EXCEPT !.status = "bad"]
      BY <1>2 DEF NumberLine, end
    <2> HIDE DEF text
    <2>5. end + 2 \in start + 2 .. Len(raw) + 1
      BY <2>1
    <2> QED BY <2>3, <2>4, <2>5 DEF NoLine
  <1> QED BY <1>1, <1>2

\* What a parse of raw may have come to.
Progress(raw, p) ==
  /\ p.status \in {"ok", "short", "bad"}
  /\ p.status = "ok" => p.idx \in 1 .. Len(raw) + 1

LEMMA PartType ==
  ASSUME NEW raw \in Seq(Bytes), NEW p, Progress(raw, p)
  PROVE  Progress(raw, Part(raw, p))
  <1> DEFINE line == NumberLine(raw, p.idx + 1)
             end == BodyEnd(raw, line)
  <1>1. CASE p.status # "ok" \/ p.idx > Len(raw) \/ raw[p.idx] # "$" \/ line.status # "ok" \/ line.n < 0
    <2>1. line.status \in {"ok", "short", "bad"} \/ p.status # "ok"
      <3>1. p.status = "ok" => p.idx + 1 \in Nat \ {0}
        BY DEF Progress
      <3> QED BY <3>1, NumberLineType
    <2> HIDE DEF line
    <2> QED BY <1>1, <2>1 DEF Part, Progress, At, line
  <1>2. CASE ~(p.status # "ok" \/ p.idx > Len(raw) \/ raw[p.idx] # "$" \/ line.status # "ok" \/ line.n < 0)
    <2>1. Len(raw) \in Nat /\ p.idx + 1 \in Nat \ {0}
      BY <1>2 DEF Progress
    <2>2. line.n \in Nat /\ line.idx \in 1 .. Len(raw) + 1
      <3>1. line.n \in Int /\ line.idx \in (p.idx + 1) + 2 .. Len(raw) + 1
        BY <1>2, <2>1, NumberLineType
      <3> HIDE DEF line
      <3> QED BY <1>2, <2>1, <3>1
    <2>3. Part(raw, p) = Bulk(raw, p, line)
      BY <1>2 DEF Part
    <2> HIDE DEF line
    <2>4. Arrived(raw, end) => end + 2 \in 1 .. Len(raw) + 1
      BY <2>1, <2>2 DEF Arrived, BodyEnd
    <2> HIDE DEF end
    <2> QED BY <2>3, <2>4 DEF Bulk, Progress, At, end
  <1> QED BY <1>1, <1>2

LEMMA ParseType ==
  ASSUME NEW raw \in Seq(Bytes)
  PROVE  Progress(raw, Parse(raw))
  <1> DEFINE count == NumberLine(raw, 2)
  <1>1. CASE raw = <<>> \/ raw[1] # "*" \/ count.status # "ok" \/ count.n <= 0
    <2>1. count.status \in {"ok", "short", "bad"}
      BY NumberLineType
    <2> HIDE DEF count
    <2> QED BY <1>1, <2>1 DEF Parse, Short, Bad, At, Progress, count
  <1>2. CASE ~(raw = <<>> \/ raw[1] # "*" \/ count.status # "ok" \/ count.n <= 0)
    <2>1. count.n \in Nat /\ count.idx \in 1 .. Len(raw) + 1
      <3>1. count.n \in Int /\ count.idx \in 2 + 2 .. Len(raw) + 1
        BY <1>2, NumberLineType
      <3> HIDE DEF count
      <3> QED BY <1>2, <3>1
    <2>2. Parse(raw) = Verdict(Parts(raw, count.idx, count.n))
      BY <1>2 DEF Parse
    <2> HIDE DEF count
    <2>3. PICK g : Followed(g, raw, count.idx, count.n) /\ Parts(raw, count.idx, count.n) = g[count.n]
      BY <2>1, PartsDef
    <2> DEFINE T == {i \in 0 .. count.n : Progress(raw, g[i])}
    <2>4. 0 \in T
      BY <2>1, <2>3 DEF Followed, Progress, At
    <2>5. \A i \in 0 .. count.n - 1 : i \in T => i + 1 \in T
      <3> SUFFICES ASSUME NEW i \in 0 .. count.n - 1, Progress(raw, g[i])
                   PROVE  i + 1 \in 0 .. count.n /\ Progress(raw, g[i + 1])
        OBVIOUS
      <3>1. i + 1 \in 1 .. count.n /\ (i + 1) - 1 = i /\ i + 1 \in 0 .. count.n
        BY <2>1
      <3>2. g[i + 1] = Part(raw, g[i])
        BY <2>3, <3>1 DEF Followed
      <3> QED BY <3>1, <3>2, PartType
    <2>6. Progress(raw, g[count.n])
      <3> HIDE DEF T
      <3>1. \A i \in 0 .. count.n : i \in T
        BY <2>1, <2>4, <2>5, Induction
      <3> QED BY <2>1, <3>1 DEF T
    <2> QED BY <2>2, <2>3, <2>6 DEF Verdict, Progress, At
  <1> QED BY <1>1, <1>2

-----------------------------------------------------------------------------
(* What was sent is dispatched *)

\* The encoded commands.
Codes(cmds) == [i \in 1 .. Len(cmds) |-> Encode(cmds[i])]

\* The bytes that are not parsed yet are those of the commands not dispatched.
Carried(b, n, s, r) ==
  \E rest \in Seq(Commands) : s = r \o rest /\ Spells(b \o n, Codes(rest))

StreamInv ==
  /\ buffer \in Seq(Bytes) /\ network \in Seq(Bytes)
  /\ parsed = Parse(buffer)
  /\ peer # "anybody" =>
        /\ sent \in Seq(Commands) /\ received \in Seq(Commands)
        /\ Carried(buffer, network, sent, received)

LEMMA CommandTypes ==
  ASSUME NEW cmd \in Commands
  PROVE  /\ cmd \in Seq(Seq(Bytes \ {"ff"})) /\ cmd # <<>>
         /\ Encode(cmd) \in Seq(Bytes) /\ Len(Encode(cmd)) \in Nat /\ Len(Encode(cmd)) > 0
  <1>1. cmd \in Seq(Seq(Bytes \ {"ff"})) /\ cmd # <<>>
    BY StreamAssumption
  <1>2. <<>> \in Seq(Bytes) /\ Fits(<<>>, 0, Encode(cmd))
    BY DEF Fits
  <1>3. Encode(cmd) \in Seq(Bytes) /\ Len(Encode(cmd)) > 0
    BY <1>1, <1>2, ParseEncoded
  <1> QED BY <1>1, <1>3

LEMMA CodesType ==
  ASSUME NEW cmds \in Seq(Commands)
  PROVE  Codes(cmds) \in Seq(Seq(Bytes)) /\ Len(Codes(cmds)) = Len(cmds)
  <1>1. Len(cmds) \in Nat /\ \A i \in 1 .. Len(cmds) : cmds[i] \in Commands
    OBVIOUS
  <1>2. \A i \in 1 .. Len(cmds) : Encode(cmds[i]) \in Seq(Bytes)
    BY <1>1, CommandTypes
  <1>3. Codes(cmds) \in [1 .. Len(cmds) -> Seq(Bytes)]
    BY <1>2 DEF Codes
  <1> QED BY <1>1, <1>3

LEMMA CodesAppend ==
  ASSUME NEW cmds \in Seq(Commands), NEW cmd \in Commands
  PROVE  Codes(Append(cmds, cmd)) = Append(Codes(cmds), Encode(cmd))
  <1> DEFINE a == Append(cmds, cmd)
             n == Len(cmds)
             l == Codes(a)
             r == Append(Codes(cmds), Encode(cmd))
  <1>1. n \in Nat /\ a \in Seq(Commands) /\ Len(a) = n + 1 /\ a[n + 1] = cmd
        /\ \A i \in 1 .. n : a[i] = cmds[i]
    BY AppendProperties
  <1>2. Codes(cmds) \in Seq(Seq(Bytes)) /\ Len(Codes(cmds)) = n /\ Encode(cmd) \in Seq(Bytes)
    BY CodesType, CommandTypes
  <1> HIDE DEF a
  <1>3. l \in Seq(Seq(Bytes)) /\ Len(l) = n + 1 /\ \A i \in 1 .. n + 1 : l[i] = Encode(a[i])
    BY <1>1, CodesType DEF Codes
  <1>4. \A i \in 1 .. n : Codes(cmds)[i] = Encode(cmds[i])
    BY DEF Codes
  <1> HIDE DEF l, n
  <1>5. r \in Seq(Seq(Bytes)) /\ Len(r) = n + 1 /\ r[n + 1] = Encode(cmd)
        /\ \A i \in 1 .. n : r[i] = Codes(cmds)[i]
    BY <1>2, AppendProperties
  <1> HIDE DEF r
  <1>6. \A i \in 1 .. n + 1 : l[i] = r[i]
    BY <1>1, <1>3, <1>4, <1>5
  <1>7. l = r
    BY <1>3, <1>5, <1>6, SeqEqual
  <1> QED BY <1>7 DEF l, r, a

LEMMA CodesTail ==
  ASSUME NEW cmds \in Seq(Commands), cmds # <<>>
  PROVE  /\ Codes(cmds) # <<>> /\ Codes(cmds)[1] = Encode(cmds[1])
         /\ cmds[1] \in Commands /\ Tail(cmds) \in Seq(Commands)
         /\ Tail(Codes(cmds)) = Codes(Tail(cmds))
  <1> DEFINE t == Tail(cmds)
             n == Len(cmds)
             c == Codes(cmds)
             l == Tail(c)
             r == Codes(t)
  <1>1. n \in Nat /\ n >= 1 /\ cmds[1] \in Commands
    OBVIOUS
  <1>2. t \in Seq(Commands) /\ Len(t) = n - 1 /\ \A i \in 1 .. n - 1 : t[i] = cmds[i + 1]
    BY HeadTailProperties
  <1>3. c \in Seq(Seq(Bytes)) /\ Len(c) = n /\ \A i \in 1 .. n : c[i] = Encode(cmds[i])
    BY CodesType DEF Codes
  <1> HIDE DEF t, n, c
  <1>4. c # <<>>
    BY <1>1, <1>3
  <1>5. l \in Seq(Seq(Bytes)) /\ Len(l) = n - 1 /\ \A i \in 1 .. n - 1 : l[i] = c[i + 1]
    BY <1>3, <1>4, HeadTailProperties
  <1>6. r \in Seq(Seq(Bytes)) /\ Len(r) = n - 1 /\ \A i \in 1 .. n - 1 : r[i] = Encode(t[i])
    BY <1>2, CodesType DEF Codes
  <1> HIDE DEF l, r
  <1>7. \A i \in 1 .. n - 1 : l[i] = r[i]
    <2>1. \A i \in 1 .. n - 1 : i + 1 \in 1 .. n
      BY <1>1
    <2> QED BY <1>2, <1>3, <1>5, <1>6, <2>1
  <1>8. l = r
    BY <1>5, <1>6, <1>7, SeqEqual
  <1> QED BY <1>1, <1>2, <1>3, <1>4, <1>8 DEF t, c, l, r

\* What is in the buffer is parsed into the first command not dispatched, as soon
\* as it is there.
LEMMA BufferedParse ==
  ASSUME NEW b \in Seq(Bytes), NEW n \in Seq(Bytes), NEW rest \in Seq(Commands),
         Spells(b \o n, Codes(rest))
  PROVE  \/ rest = <<>> /\ b = <<>> /\ n = <<>> /\ Parse(b) = Short
         \/ /\ rest # <<>>
            /\ IF Len(b) >= Len(Encode(rest[1]))
               THEN /\ Parse(b) = At("ok", Len(Encode(rest[1])) + 1, rest[1])
                    /\ Spells(SubSeq(b \o n, Len(Encode(rest[1])) + 1, Len(b \o n)), Codes(Tail(rest)))
               ELSE Parse(b) = Short /\ n # <<>>
  <1> DEFINE whole == b \o n
  <1>1. /\ whole \in Seq(Bytes) /\ Len(whole) = Len(b) + Len(n) /\ Len(b) \in Nat /\ Len(n) \in Nat
        /\ \A i \in 1 .. Len(b) : whole[i] = b[i]
    <2>1. /\ whole \in Seq(Bytes) /\ Len(whole) = Len(b) + Len(n)
          /\ \A i \in 1 .. Len(b) + Len(n) : whole[i] = IF i <= Len(b) THEN b[i] ELSE n[i - Len(b)]
      BY ConcatProperties
    <2>2. Len(b) \in Nat /\ Len(n) \in Nat
      OBVIOUS
    <2> HIDE DEF whole
    <2> QED BY <2>1, <2>2
  <1> HIDE DEF whole
  <1>2. Spells(whole, Codes(rest))
    BY DEF whole
  <1>3. CASE rest = <<>>
    <2>1. Codes(rest) = <<>>
      <3>1. Len(rest) = 0
        BY <1>3
      <3>2. Codes(rest) \in Seq(Seq(Bytes)) /\ Len(Codes(rest)) = 0
        BY <3>1, CodesType
      <3> QED BY <3>2, EmptySeq
    <2>2. whole = <<>>
      BY <1>1, <1>2, <2>1, SpellsNothing
    <2>3. b = <<>> /\ n = <<>>
      BY <1>1, <2>2
    <2> QED BY <1>3, <2>3 DEF Parse
  <1>4. CASE rest # <<>>
    <2> DEFINE cmd == rest[1]
               m == Len(Encode(cmd))
    <2>1. /\ Codes(rest) \in Seq(Seq(Bytes)) /\ Codes(rest) # <<>> /\ Codes(rest)[1] = Encode(cmd)
          /\ cmd \in Commands /\ Tail(Codes(rest)) = Codes(Tail(rest))
      BY <1>4, CodesType, CodesTail
    <2>2. m \in 0 .. Len(whole) /\ Fits(whole, 0, Encode(cmd))
          /\ Spells(SubSeq(whole, m + 1, Len(whole)), Codes(Tail(rest)))
      BY <1>1, <1>2, <2>1, SpellsFirst
    <2>3. cmd \in Seq(Seq(Bytes \ {"ff"})) /\ cmd # <<>> /\ m \in Nat
      BY <2>1, CommandTypes
    <2>4. Fits(b, 0, Encode(cmd))
      <3> SUFFICES ASSUME NEW j \in 1 .. m, 0 + j <= Len(b) PROVE b[0 + j] = Encode(cmd)[j]
        BY DEF Fits
      <3>1. 0 + j <= Len(whole) /\ 0 + j \in 1 .. Len(b)
        BY <1>1, <2>3
      <3> QED BY <1>1, <2>2, <3>1 DEF Fits
    <2>5. Parse(b) = IF Len(b) >= m THEN At("ok", m + 1, cmd) ELSE Short
      BY <2>3, <2>4, ParseEncoded
    <2>6. ~(Len(b) >= m) => n # <<>>
      <3> SUFFICES ASSUME n = <<>> PROVE Len(b) >= m
        OBVIOUS
      <3>1. Len(n) = 0
        OBVIOUS
      <3> HIDE DEF m
      <3> QED BY <1>1, <2>2, <3>1
    <2> QED BY <1>4, <2>2, <2>5, <2>6 DEF whole
  <1> QED BY <1>3, <1>4

LEMMA FirstAndRest ==
  ASSUME NEW S, NEW s \in Seq(S), s # <<>>
  PROVE  s = <<s[1]>> \o Tail(s)
  <1> DEFINE t == Tail(s)
             r == <<s[1]>> \o t
  <1>1. Len(s) \in Nat /\ Len(s) >= 1 /\ <<s[1]>> \in Seq(S) /\ Len(<<s[1]>>) = 1
    OBVIOUS
  <1>2. t \in Seq(S) /\ Len(t) = Len(s) - 1 /\ \A i \in 1 .. Len(s) - 1 : t[i] = s[i + 1]
    BY HeadTailProperties
  <1> HIDE DEF t
  <1>3. /\ r \in Seq(S) /\ Len(r) = 1 + Len(t)
        /\ \A i \in 1 .. 1 + Len(t) : r[i] = IF i <= 1 THEN <<s[1]>>[i] ELSE t[i - 1]
    <2>1. /\ r \in Seq(S) /\ Len(r) = Len(<<s[1]>>) + Len(t)
          /\ \A i \in 1 .. Len(<<s[1]>>) + Len(t) :
                r[i] = IF i <= Len(<<s[1]>>) THEN <<s[1]>>[i] ELSE t[i - Len(<<s[1]>>)]
      BY <1>1, <1>2, ConcatProperties
    <2> QED BY <1>1, <2>1
  <1> HIDE DEF r
  <1>4. ASSUME NEW i \in 1 .. Len(s) PROVE s[i] = r[i]
    <2>1. CASE i = 1
      BY <1>1, <1>2, <1>3, <2>1
    <2>2. CASE i # 1
      <3>1. i - 1 \in 1 .. Len(s) - 1 /\ (i - 1) + 1 = i /\ ~(i <= 1) /\ i \in 1 .. 1 + Len(t)
        BY <1>1, <1>2, <2>2
      <3> QED BY <1>2, <1>3, <3>1
    <2> QED BY <2>1, <2>2
  <1>5. s = r
    BY <1>1, <1>2, <1>3, <1>4, SeqEqual
  <1> QED BY <1>5 DEF r, t

LEMMA PrefixOfConcat ==
  ASSUME NEW S, NEW s \in Seq(S), NEW t \in Seq(S)
  PROVE  IsPrefix(s, s \o t)
  <1> DEFINE w == s \o t
             p == SubSeq(w, 1, Len(s))
  <1>1. /\ w \in Seq(S) /\ Len(w) = Len(s) + Len(t) /\ Len(s) \in Nat /\ Len(t) \in Nat
        /\ \A i \in 1 .. Len(s) + Len(t) : w[i] = IF i <= Len(s) THEN s[i] ELSE t[i - Len(s)]
    <2>1. Len(s) \in Nat /\ Len(t) \in Nat
      OBVIOUS
    <2> QED BY <2>1, ConcatProperties
  <1> HIDE DEF w
  <1>2. \A i \in 1 .. Len(s) : i \in 1 .. Len(s) + Len(t) /\ w[i] = s[i] /\ w[i] \in S
    <2>1. \A i \in 1 .. Len(s) : i \in 1 .. Len(s) + Len(t) /\ i <= Len(s) /\ s[i] \in S
      BY <1>1
    <2> QED BY <1>1, <2>1
  <1>3. /\ p \in Seq(S) /\ Len(p) = IF 1 <= Len(s) THEN Len(s) - 1 + 1 ELSE 0
        /\ \A i \in 1 .. Len(s) - 1 + 1 : p[i] = w[1 + i - 1]
    BY <1>1, <1>2, SubSeqProperties
  <1> HIDE DEF p
  <1>4. Len(p) = Len(s) /\ \A i \in 1 .. Len(s) : p[i] = w[i]
    BY <1>1, <1>3
  <1>5. p = s
    BY <1>2, <1>3, <1>4, SeqEqual
  <1>6. SubSeq(s, 1, Len(s)) = s
    BY SubSeqFull
  <1> QED BY <1>1, <1>5, <1>6 DEF IsPrefix, p, w

LEMMA SendCarries ==
  ASSUME NEW b \in Seq(Bytes), NEW n \in Seq(Bytes), NEW s \in Seq(Commands),
         NEW r \in Seq(Commands), NEW cmd \in Commands, Carried(b, n, s, r)
  PROVE  /\ n \o Encode(cmd) \in Seq(Bytes) /\ Append(s, cmd) \in Seq(Commands)
         /\ Carried(b, n \o Encode(cmd), Append(s, cmd), r)
  <1>1. PICK rest \in Seq(Commands) : s = r \o rest /\ Spells(b \o n, Codes(rest))
    BY DEF Carried
  <1>2. Encode(cmd) \in Seq(Bytes)
    BY CommandTypes
  <1>3. n \o Encode(cmd) \in Seq(Bytes) /\ b \o n \in Seq(Bytes)
    BY <1>2, ConcatLen
  <1>4. (b \o n) \o Encode(cmd) = b \o (n \o Encode(cmd))
    BY <1>2, ConcatAssociative, SMTT(30)
  <1>5. Append(rest, cmd) \in Seq(Commands) /\ Append(s, cmd) \in Seq(Commands)
    BY AppendProperties
  <1>6. Append(s, cmd) = r \o Append(rest, cmd)
    <2>1. <<cmd>> \in Seq(Commands) /\ r \o rest \in Seq(Commands)
      BY <1>1
    <2>2. Append(rest, cmd) = rest \o <<cmd>> /\ Append(s, cmd) = s \o <<cmd>>
      BY AppendIsConcat
    <2>3. (r \o rest) \o <<cmd>> = r \o (rest \o <<cmd>>)
      BY <2>1, ConcatAssociative, SMTT(30)
    <2> QED BY <1>1, <2>2, <2>3
  <1>7. Codes(rest) \in Seq(Seq(Bytes))
    BY CodesType
  <1>8. Spells((b \o n) \o Encode(cmd), Append(Codes(rest), Encode(cmd)))
    BY <1>1, <1>2, <1>3, <1>7, SpellsAppend
  <1>9. Spells(b \o (n \o Encode(cmd)), Codes(Append(rest, cmd)))
    BY <1>4, <1>8, CodesAppend
  <1> QED BY <1>3, <1>5, <1>6, <1>9 DEF Carried

LEMMA Taken ==
  ASSUME NEW n \in Seq(Bytes), NEW k \in 1 .. Len(n)
  PROVE  /\ SubSeq(n, 1, k) \in Seq(Bytes) /\ SubSeq(n, k + 1, Len(n)) \in Seq(Bytes)
         /\ SubSeq(n, 1, k) \o SubSeq(n, k + 1, Len(n)) = n
  <1>1. Len(n) \in Nat /\ 1 \in 1 .. Len(n) + 1 /\ k \in 1 - 1 .. Len(n) /\ Len(n) \in k .. Len(n)
        /\ k \in 0 .. Len(n) /\ 1 \in Int /\ k \in Int
    OBVIOUS
  <1>2. SubSeq(n, 1, k) \o SubSeq(n, k + 1, Len(n)) = SubSeq(n, 1, Len(n))
    BY <1>1, ConcatAdjacentSubSeq
  <1>3. SubSeq(n, 1, k) \in Seq(Bytes)
    <2>1. \A i \in 1 .. k : n[i] \in Bytes
      BY <1>1
    <2> QED BY <1>1, <2>1, SubSeqProperties
  <1>4. SubSeq(n, k + 1, Len(n)) \in Seq(Bytes)
    BY <1>1, Dropped
  <1> QED BY <1>2, <1>3, <1>4, SubSeqFull

LEMMA ReadCarries ==
  ASSUME NEW b \in Seq(Bytes), NEW n \in Seq(Bytes), NEW s, NEW r,
         NEW k \in 1 .. Len(n), Carried(b, n, s, r)
  PROVE  Carried(b \o SubSeq(n, 1, k), SubSeq(n, k + 1, Len(n)), s, r)
  <1> DEFINE x == SubSeq(n, 1, k)
             y == SubSeq(n, k + 1, Len(n))
  <1>1. x \in Seq(Bytes) /\ y \in Seq(Bytes) /\ x \o y = n
    BY Taken
  <1> HIDE DEF x, y
  <1>2. (b \o x) \o y = b \o (x \o y)
    <2>1. \A u, v \in Seq(Bytes) : (b \o u) \o v = b \o (u \o v)
      BY ConcatAssociative, SMTT(30)
    <2> QED BY <1>1, <2>1, Zenon
  <1>3. Carried(b \o x, y, s, r)
    BY <1>1, <1>2 DEF Carried
  <1> QED BY <1>3 DEF x, y

LEMMA DropOfConcat ==
  ASSUME NEW b \in Seq(Bytes), NEW n \in Seq(Bytes), NEW m \in 0 .. Len(b)
  PROVE  SubSeq(b \o n, m + 1, Len(b \o n)) = SubSeq(b, m + 1, Len(b)) \o n
  <1> DEFINE w == b \o n
             d == SubSeq(b, m + 1, Len(b))
             l == SubSeq(w, m + 1, Len(w))
             r == d \o n
  <1>1. /\ w \in Seq(Bytes) /\ Len(w) = Len(b) + Len(n) /\ Len(b) \in Nat /\ Len(n) \in Nat
        /\ \A i \in 1 .. Len(b) + Len(n) : w[i] = IF i <= Len(b) THEN b[i] ELSE n[i - Len(b)]
    <2>1. Len(b) \in Nat /\ Len(n) \in Nat
      OBVIOUS
    <2> QED BY <2>1, ConcatProperties
  <1>2. d \in Seq(Bytes) /\ Len(d) = Len(b) - m /\ \A j \in 1 .. Len(b) - m : d[j] = b[m + j]
    BY Dropped
  <1> HIDE DEF w, d
  <1>3. l \in Seq(Bytes) /\ Len(l) = Len(w) - m /\ \A j \in 1 .. Len(w) - m : l[j] = w[m + j]
    <2>1. m \in 0 .. Len(w)
      BY <1>1
    <2> QED BY <1>1, <2>1, Dropped
  <1>4. /\ r \in Seq(Bytes) /\ Len(r) = Len(d) + Len(n)
        /\ \A i \in 1 .. Len(d) + Len(n) : r[i] = IF i <= Len(d) THEN d[i] ELSE n[i - Len(d)]
    BY <1>2, ConcatProperties
  <1> HIDE DEF l, r
  <1>5. Len(l) = Len(r)
    BY <1>1, <1>2, <1>3, <1>4
  <1>6. ASSUME NEW j \in 1 .. Len(l) PROVE l[j] = r[j]
    <2>1. j \in 1 .. Len(w) - m /\ j \in 1 .. Len(d) + Len(n) /\ m + j \in 1 .. Len(b) + Len(n)
      BY <1>1, <1>2, <1>3
    <2>2. l[j] = IF m + j <= Len(b) THEN b[m + j] ELSE n[(m + j) - Len(b)]
      BY <1>1, <1>3, <2>1
    <2>3. r[j] = IF j <= Len(d) THEN d[j] ELSE n[j - Len(d)]
      BY <1>4, <2>1
    <2>4. CASE j <= Len(d)
      <3>1. j \in 1 .. Len(b) - m /\ m + j <= Len(b)
        BY <1>1, <1>2, <2>1, <2>4
      <3> QED BY <1>2, <2>2, <2>3, <2>4, <3>1
    <2>5. CASE ~(j <= Len(d))
      <3>1. ~(m + j <= Len(b)) /\ (m + j) - Len(b) = j - Len(d)
        BY <1>1, <1>2, <2>1, <2>5
      <3> QED BY <2>2, <2>3, <2>5, <3>1
    <2> QED BY <2>4, <2>5
  <1>7. l = r
    BY <1>3, <1>4, <1>5, <1>6, SeqEqual
  <1> QED BY <1>7 DEF l, r, w, d

LEMMA ExecutesCarries ==
  ASSUME NEW b \in Seq(Bytes), NEW n \in Seq(Bytes), NEW s, NEW r \in Seq(Commands),
         NEW p, p = Parse(b), p.status = "ok", Carried(b, n, s, r)
  PROVE  /\ p.parts \in Commands /\ Append(r, p.parts) \in Seq(Commands)
         /\ IsPrefix(Append(r, p.parts), s)
         /\ SubSeq(b, p.idx, Len(b)) \in Seq(Bytes)
         /\ Carried(SubSeq(b, p.idx, Len(b)), n, s, Append(r, p.parts))
  <1>1. PICK rest \in Seq(Commands) : s = r \o rest /\ Spells(b \o n, Codes(rest))
    BY DEF Carried
  <1> DEFINE cmd == rest[1]
             m == Len(Encode(cmd))
             t == Tail(rest)
  <1>2. /\ rest # <<>> /\ Len(b) >= m /\ p = At("ok", m + 1, cmd)
        /\ Spells(SubSeq(b \o n, m + 1, Len(b \o n)), Codes(t))
    <2>1. Short.status # "ok"
      BY DEF Short, At
    <2> QED BY <1>1, <2>1, BufferedParse
  <1>3. cmd \in Commands /\ t \in Seq(Commands) /\ m \in Nat
    BY <1>2, CodesTail, CommandTypes
  <1>4. p.status = "ok" /\ p.idx = m + 1 /\ p.parts = cmd
    BY <1>2 DEF At
  <1>5. m \in 0 .. Len(b)
    <2>1. Len(b) \in Nat
      OBVIOUS
    <2> HIDE DEF m
    <2> QED BY <1>2, <1>3, <2>1
  <1>6. SubSeq(b, m + 1, Len(b)) \in Seq(Bytes)
    BY <1>5, Dropped
  <1>7. Spells(SubSeq(b, m + 1, Len(b)) \o n, Codes(t))
    BY <1>2, <1>5, DropOfConcat
  <1>8. Append(r, cmd) \in Seq(Commands)
    BY <1>3, AppendProperties
  <1>9. s = Append(r, cmd) \o t
    <2>1. <<cmd>> \in Seq(Commands) /\ Append(r, cmd) = r \o <<cmd>>
      BY <1>3, AppendIsConcat
    <2>2. (r \o <<cmd>>) \o t = r \o (<<cmd>> \o t)
      BY <1>3, <2>1, ConcatAssociative, SMTT(30)
    <2>3. rest = <<cmd>> \o t
      BY <1>2, FirstAndRest
    <2> QED BY <1>1, <2>1, <2>2, <2>3
  <1>10. IsPrefix(Append(r, cmd), s)
    BY <1>3, <1>8, <1>9, PrefixOfConcat
  <1> HIDE DEF cmd, m, t
  <1>11. Carried(SubSeq(b, m + 1, Len(b)), n, s, Append(r, cmd))
    BY <1>3, <1>7, <1>9 DEF Carried
  <1> QED BY <1>3, <1>4, <1>6, <1>8, <1>10, <1>11

LEMMA InitStream == Init => StreamInv
  <1> SUFFICES ASSUME Init PROVE StreamInv
    OBVIOUS
  <1>1. <<>> \in Seq(Bytes) /\ <<>> \in Seq(Commands)
    OBVIOUS
  <1>2. buffer = <<>> /\ network = <<>> /\ sent = <<>> /\ received = <<>> /\ parsed = Parse(<<>>)
    BY DEF Init
  <1>3. Carried(<<>>, <<>>, <<>>, <<>>)
    <2>1. Codes(<<>>) = <<>>
      <3>1. Codes(<<>>) \in Seq(Seq(Bytes)) /\ Len(Codes(<<>>)) = 0
        BY <1>1, CodesType
      <3> QED BY <3>1, EmptySeq
    <2>2. <<>> \o <<>> = <<>>
      BY <1>1, ConcatEmptySeq
    <2>3. Spells(<<>> \o <<>>, Codes(<<>>))
      BY <2>1, <2>2, SpellsNothing
    <2> QED BY <1>1, <2>2, <2>3 DEF Carried
  <1> QED BY <1>1, <1>2, <1>3 DEF StreamInv

LEMMA RestIsTyped ==
  ASSUME NEW b \in Seq(Bytes), Parse(b).status = "ok"
  PROVE  SubSeq(b, Parse(b).idx, Len(b)) \in Seq(Bytes)
  <1> DEFINE m == Parse(b).idx
  <1>1. Len(b) \in Nat /\ m \in 1 .. Len(b) + 1
    BY ParseType DEF Progress
  <1> HIDE DEF m
  <1>2. \A i \in m .. Len(b) : b[i] \in Bytes
    BY <1>1
  <1>3. m \in Int /\ Len(b) \in Int
    BY <1>1
  <1>4. SubSeq(b, m, Len(b)) \in Seq(Bytes)
    BY <1>2, <1>3, SubSeqProperties
  <1> QED BY <1>4 DEF m

\* What Dispatch and EncodeFails have in common.
LEMMA ExecutesStream ==
  ASSUME StreamInv, Executes
  PROVE  StreamInv'
  <1> DEFINE b == SubSeq(buffer, parsed.idx, Len(buffer))
  <1>1. /\ buffer \in Seq(Bytes) /\ network \in Seq(Bytes) /\ parsed = Parse(buffer)
        /\ parsed.status = "ok" /\ network' = network /\ peer' = peer /\ sent' = sent
        /\ buffer' = b /\ parsed' = Parse(b) /\ received' = Append(received, parsed.parts)
    BY DEF StreamInv, Executes, Buffered, reader
  <1>2. b \in Seq(Bytes)
    BY <1>1, RestIsTyped
  <1> HIDE DEF b
  <1>3. ASSUME peer # "anybody"
        PROVE  /\ sent \in Seq(Commands) /\ received' \in Seq(Commands)
               /\ Carried(b, network, sent, received')
    <2>1. sent \in Seq(Commands) /\ received \in Seq(Commands)
          /\ Carried(buffer, network, sent, received)
      BY <1>3 DEF StreamInv
    <2> QED BY <1>1, <2>1, ExecutesCarries DEF b
  <1>4. StreamInv' = (/\ buffer' \in Seq(Bytes) /\ network' \in Seq(Bytes)
                      /\ parsed' = Parse(buffer')
                      /\ peer' # "anybody" =>
                            /\ sent' \in Seq(Commands) /\ received' \in Seq(Commands)
                            /\ Carried(buffer', network', sent', received'))
    BY DEF StreamInv
  <1> QED BY <1>1, <1>2, <1>3, <1>4

\* No byte of a command is refused.
LEMMA NoneRefused ==
  ASSUME StreamInv, peer # "anybody"
  PROVE  parsed.status # "bad"
  <1>1. /\ buffer \in Seq(Bytes) /\ network \in Seq(Bytes) /\ parsed = Parse(buffer)
        /\ Carried(buffer, network, sent, received)
    BY DEF StreamInv
  <1>2. PICK rest \in Seq(Commands) : Spells(buffer \o network, Codes(rest))
    BY <1>1 DEF Carried
  <1>3. parsed = Short \/ \E i, c : parsed = At("ok", i, c)
    BY <1>1, <1>2, BufferedParse
  <1> QED BY <1>3 DEF Short, At

LEMMA NextStream == StreamInv /\ [Next]_vars => StreamInv'
  <1> SUFFICES ASSUME StreamInv, [Next]_vars PROVE StreamInv'
    OBVIOUS
  <1> USE DEF handler, reader
  <1>1. /\ buffer \in Seq(Bytes) /\ network \in Seq(Bytes) /\ parsed = Parse(buffer)
        /\ peer # "anybody" => /\ sent \in Seq(Commands) /\ received \in Seq(Commands)
                               /\ Carried(buffer, network, sent, received)
    BY DEF StreamInv
  <1>2. ASSUME UNCHANGED <<peer, sent, network, handler>> PROVE StreamInv'
    BY <1>2, <1>1 DEF StreamInv
  <1>3. ASSUME NEW cmd \in Commands, SendCommand(cmd) PROVE StreamInv'
    <2>1. /\ peer # "anybody" /\ sent' = Append(sent, cmd) /\ network' = network \o Encode(cmd)
          /\ peer' = peer /\ buffer' = buffer /\ parsed' = parsed /\ received' = received
      BY <1>3 DEF SendCommand
    <2>2. /\ network' \in Seq(Bytes) /\ sent' \in Seq(Commands)
          /\ Carried(buffer, network', sent', received)
      BY <1>1, <2>1, SendCarries
    <2> QED BY <1>1, <2>1, <2>2 DEF StreamInv
  <1>4. ASSUME Recv PROVE StreamInv'
    BY <1>2, <1>4 DEF Recv
  <1>5. ASSUME GiveUp PROVE StreamInv'
    BY <1>2, <1>5 DEF GiveUp
  <1>6. ASSUME NEW b \in Alphabet, ReadByte(b) PROVE StreamInv'
    <2>1. /\ peer = "anybody" /\ peer' = peer /\ network' = network
          /\ buffer' = buffer \o <<b>> /\ parsed' = Parse(buffer')
      BY <1>6 DEF ReadByte, Reads, Buffered
    <2>2. <<b>> \in Seq(Bytes)
      <3>1. b \in Bytes
        BY StreamAssumption
      <3> QED BY <3>1
    <2>3. buffer' \in Seq(Bytes)
      BY <1>1, <2>1, <2>2, ConcatLen
    <2> QED BY <1>1, <2>1, <2>3 DEF StreamInv
  <1>7. ASSUME Read PROVE StreamInv'
    <2>1. PICK k \in 1 .. Len(network) :
             /\ Reads(SubSeq(network, 1, k)) /\ network' = SubSeq(network, k + 1, Len(network))
      BY <1>7 DEF Read
    <2>2. /\ peer' = peer /\ sent' = sent /\ received' = received
          /\ buffer' = buffer \o SubSeq(network, 1, k) /\ parsed' = Parse(buffer')
      BY <2>1 DEF Reads, Buffered
    <2>3. SubSeq(network, 1, k) \in Seq(Bytes) /\ network' \in Seq(Bytes)
      BY <1>1, <2>1, Taken
    <2>4. buffer' \in Seq(Bytes)
      BY <1>1, <2>2, <2>3, ConcatLen
    <2>5. peer # "anybody" => Carried(buffer', network', sent, received)
      BY <1>1, <2>1, <2>2, ReadCarries
    <2> QED BY <1>1, <2>2, <2>3, <2>4, <2>5 DEF StreamInv
  <1>8. ASSUME ReadEnd PROVE StreamInv'
    BY <1>2, <1>8 DEF ReadEnd
  <1>9. ASSUME Dispatch PROVE StreamInv'
    BY <1>9, ExecutesStream DEF Dispatch
  <1>10. ASSUME EncodeFails PROVE StreamInv'
    BY <1>10, ExecutesStream DEF EncodeFails
  <1>11. ASSUME Refuse PROVE StreamInv'
    <2>1. /\ parsed.status = "bad" /\ peer' = peer /\ network' = network
          /\ buffer' = <<>> /\ parsed' = Parse(<<>>)
      BY <1>11 DEF Refuse, Buffered
    <2>2. <<>> \in Seq(Bytes)
      OBVIOUS
    <2>3. peer = "anybody"
      BY <2>1, NoneRefused
    <2> QED BY <1>1, <2>1, <2>2, <2>3 DEF StreamInv
  <1>12. ASSUME DrainFails PROVE StreamInv'
    BY <1>2, <1>12 DEF DrainFails
  <1>13. CASE UNCHANGED vars
    BY <1>2, <1>13 DEF vars
  <1> QED BY <1>3, <1>4, <1>5, <1>6, <1>7, <1>8, <1>9, <1>10, <1>11, <1>12, <1>13 DEF Next, Handle

LEMMA AlwaysStream == Spec => []StreamInv
  <1> QED BY InitStream, NextStream, PTL DEF Spec

\* However the bytes of a client are cut, handle_client dispatches the commands it
\* has sent, in order, refuses none of them and leaves nothing in the buffer.
THEOREM SentIsDispatched == Spec => []DecodesWhatWasSent
  <1>1. StreamInv => DecodesWhatWasSent
    <2> SUFFICES ASSUME StreamInv, peer # "anybody"
                 PROVE  /\ parsed.status # "bad"
                        /\ IsPrefix(received, sent)
                        /\ conn # "closed" /\ network = <<>> /\ parsed.status = "short" =>
                               buffer = <<>> /\ received = sent
      BY DEF DecodesWhatWasSent
    <2>1. /\ buffer \in Seq(Bytes) /\ network \in Seq(Bytes) /\ parsed = Parse(buffer)
          /\ sent \in Seq(Commands) /\ received \in Seq(Commands)
          /\ Carried(buffer, network, sent, received)
      BY DEF StreamInv
    <2>2. PICK rest \in Seq(Commands) :
             sent = received \o rest /\ Spells(buffer \o network, Codes(rest))
      BY <2>1 DEF Carried
    <2>3. \/ rest = <<>> /\ buffer = <<>> /\ parsed = Short
          \/ \E i, c : parsed = At("ok", i, c)
          \/ parsed = Short /\ network # <<>>
      BY <2>1, <2>2, BufferedParse
    <2>4. rest = <<>> => received = sent
      BY <2>1, <2>2, ConcatEmptySeq
    <2>5. IsPrefix(received, sent)
      BY <2>1, <2>2, PrefixOfConcat
    <2> QED BY <2>3, <2>4, <2>5 DEF Short, At
  <1> QED BY <1>1, AlwaysStream, PTL

-----------------------------------------------------------------------------
(* parse_one on a buffer that has grown *)

\* more begins with raw.
Grown(raw, more) ==
  Len(more) >= Len(raw) /\ \A i \in 1 .. Len(raw) : more[i] = raw[i]

LEMMA Piece ==
  ASSUME NEW raw \in Seq(Bytes), NEW i \in Nat \ {0}, NEW j \in Int, j <= Len(raw)
  PROVE  /\ SubSeq(raw, i, j) \in Seq(Bytes)
         /\ Len(SubSeq(raw, i, j)) = IF i <= j THEN j - i + 1 ELSE 0
         /\ \A k \in 1 .. j - i + 1 : SubSeq(raw, i, j)[k] = raw[i + k - 1]
  <1>1. i \in Int /\ j \in Int /\ \A k \in i .. j : raw[k] \in Bytes
    OBVIOUS
  <1> QED BY <1>1, SubSeqProperties

LEMMA RestOf ==
  ASSUME NEW s \in Seq(Bytes), NEW i \in 1 .. Len(s) + 1
  PROVE  /\ SubSeq(s, i, Len(s)) \in Seq(Bytes)
         /\ Len(SubSeq(s, i, Len(s))) = Len(s) - i + 1
         /\ \A k \in 1 .. Len(s) - i + 1 : SubSeq(s, i, Len(s))[k] = s[i + k - 1]
  <1>1. Len(s) \in Nat
    OBVIOUS
  <1>2. i \in Nat \ {0} /\ Len(s) \in Int /\ Len(s) <= Len(s)
    BY <1>1
  <1>3. /\ SubSeq(s, i, Len(s)) \in Seq(Bytes)
        /\ Len(SubSeq(s, i, Len(s))) = IF i <= Len(s) THEN Len(s) - i + 1 ELSE 0
        /\ \A k \in 1 .. Len(s) - i + 1 : SubSeq(s, i, Len(s))[k] = s[i + k - 1]
    BY <1>2, Piece
  <1>4. ~(i <= Len(s)) => Len(s) - i + 1 = 0
    BY <1>1
  <1> QED BY <1>3, <1>4

LEMMA SamePiece ==
  ASSUME NEW raw \in Seq(Bytes), NEW more \in Seq(Bytes), Grown(raw, more),
         NEW i \in Nat \ {0}, NEW j \in Int, j <= Len(raw)
  PROVE  SubSeq(more, i, j) = SubSeq(raw, i, j)
  <1> DEFINE a == SubSeq(more, i, j)
             b == SubSeq(raw, i, j)
  <1>1. Len(raw) \in Nat /\ Len(more) \in Nat /\ Len(raw) <= Len(more)
    BY DEF Grown
  <1>2. /\ b \in Seq(Bytes) /\ Len(b) = IF i <= j THEN j - i + 1 ELSE 0
        /\ \A k \in 1 .. j - i + 1 : b[k] = raw[i + k - 1]
    BY Piece
  <1>3. /\ a \in Seq(Bytes) /\ Len(a) = IF i <= j THEN j - i + 1 ELSE 0
        /\ \A k \in 1 .. j - i + 1 : a[k] = more[i + k - 1]
    <2>1. j <= Len(more)
      BY <1>1
    <2> QED BY <2>1, Piece
  <1> HIDE DEF a, b
  <1>4. ASSUME NEW k \in 1 .. Len(a) PROVE a[k] = b[k]
    <2>1. k \in 1 .. j - i + 1 /\ i + k - 1 \in 1 .. Len(raw)
      BY <1>1, <1>3
    <2> QED BY <1>2, <1>3, <2>1 DEF Grown
  <1>5. a = b
    BY <1>2, <1>3, <1>4, SeqEqual
  <1> QED BY <1>5 DEF a, b

LEMMA FindIs ==
  ASSUME NEW raw, NEW start \in Nat, NEW e \in start .. Len(raw) - 1, LineEndsAt(raw, e),
         \A j \in start .. e - 1 : ~LineEndsAt(raw, j)
  PROVE  Find(raw, start) = e
  <1> DEFINE from == start .. Len(raw) - 1
             First(i) == LineEndsAt(raw, i) /\ \A j \in start .. i - 1 : ~LineEndsAt(raw, j)
  <1>1. Find(raw, start) = CHOOSE i \in from : First(i)
    BY DEF Find
  <1>2. ASSUME NEW i \in from, First(i) PROVE i = e
    <2>1. i < e => i \in start .. e - 1
      BY <1>2
    <2>2. e < i => e \in start .. i - 1
      BY <1>2
    <2> QED BY <1>2, <2>1, <2>2
  <1>3. e \in from /\ First(e)
    OBVIOUS
  <1> HIDE DEF from, First
  <1> QED BY <1>1, <1>2, <1>3

LEMMA NoLineEnd ==
  ASSUME NEW raw, NEW start \in Nat \ {0}
  PROVE  Find(raw, start) = 0 <=> \A j \in start .. Len(raw) - 1 : ~LineEndsAt(raw, j)
  <1>1. ASSUME \A j \in start .. Len(raw) - 1 : ~LineEndsAt(raw, j) PROVE Find(raw, start) = 0
    BY <1>1 DEF Find
  <1>2. ASSUME Find(raw, start) = 0, NEW e \in start .. Len(raw) - 1, LineEndsAt(raw, e) PROVE FALSE
    <2> DEFINE T == {i \in start .. Len(raw) - 1 : LineEndsAt(raw, i)}
    <2>1. T \in SUBSET Nat /\ T # {}
      BY <1>2
    <2>2. PICK i \in T : \A j \in T : i <= j
      <3> HIDE DEF T
      <3> QED BY <2>1, Least
    <2>3. \A j \in start .. i - 1 : ~LineEndsAt(raw, j)
      <3>1. \A j \in start .. i - 1 : j \in start .. Len(raw) - 1 /\ ~(i <= j)
        BY <2>2
      <3> QED BY <2>2, <3>1
    <2>4. Find(raw, start) = i
      BY <2>2, <2>3, FindIs
    <2> QED BY <1>2, <2>2, <2>4
  <1> QED BY <1>1, <1>2

LEMMA FindGrown ==
  ASSUME NEW raw \in Seq(Bytes), NEW more \in Seq(Bytes), Grown(raw, more),
         NEW start \in Nat \ {0}, Find(raw, start) # 0
  PROVE  Find(more, start) = Find(raw, start)
  <1> DEFINE e == Find(raw, start)
  <1>1. e \in start .. Len(raw) - 1 /\ LineEndsAt(raw, e)
        /\ \A j \in start .. e - 1 : ~LineEndsAt(raw, j)
    BY FindType
  <1>2. Len(raw) \in Nat /\ Len(more) \in Nat /\ Len(raw) <= Len(more)
    BY DEF Grown
  <1> HIDE DEF e
  <1>3. ASSUME NEW j \in start .. e PROVE LineEndsAt(more, j) <=> LineEndsAt(raw, j)
    <2>1. j \in 1 .. Len(raw) /\ j + 1 \in 1 .. Len(raw)
      BY <1>1, <1>2
    <2> QED BY <2>1 DEF LineEndsAt, Grown
  <1>4. e \in start .. Len(more) - 1 /\ e \in start .. e /\ \A j \in start .. e - 1 : j \in start .. e
    BY <1>1, <1>2
  <1>5. Find(more, start) = e
    BY <1>1, <1>3, <1>4, FindIs
  <1> QED BY <1>5 DEF e

LEMMA NumberLineGrown ==
  ASSUME NEW raw \in Seq(Bytes), NEW more \in Seq(Bytes), Grown(raw, more),
         NEW start \in Nat \ {0}, NumberLine(raw, start).status # "short"
  PROVE  NumberLine(more, start) = NumberLine(raw, start)
  <1> DEFINE e == Find(raw, start)
  <1>1. e # 0
    BY DEF NumberLine, NoLine
  <1>2. Find(more, start) = e
    BY <1>1, FindGrown
  <1>3. e - 1 \in Int /\ e - 1 <= Len(raw)
    BY <1>1, FindType
  <1>4. SubSeq(more, start, e - 1) = SubSeq(raw, start, e - 1)
    <2> HIDE DEF e
    <2> QED BY <1>3, SamePiece
  <1> QED BY <1>2, <1>4 DEF NumberLine

LEMMA PartGrown ==
  ASSUME NEW raw \in Seq(Bytes), NEW more \in Seq(Bytes), Grown(raw, more),
         NEW p, Progress(raw, p), Part(raw, p).status # "short"
  PROVE  Part(more, p) = Part(raw, p)
  <1> DEFINE line == NumberLine(raw, p.idx + 1)
             end == BodyEnd(raw, line)
  <1>1. CASE p.status # "ok"
    BY <1>1 DEF Part
  <1>2. CASE p.status = "ok"
    <2>1. p.idx \in 1 .. Len(raw) + 1 /\ Len(raw) \in Nat /\ Len(more) \in Nat /\ Len(raw) <= Len(more)
      BY <1>2 DEF Progress, Grown
    <2>2. p.idx \in 1 .. Len(raw) /\ p.idx + 1 \in Nat \ {0}
      <3>1. p.idx > Len(raw) => Part(raw, p).status = "short"
        BY <1>2 DEF Part, At
      <3> QED BY <2>1, <3>1
    <2>3. more[p.idx] = raw[p.idx] /\ ~(p.idx > Len(raw)) /\ ~(p.idx > Len(more))
      BY <2>1, <2>2 DEF Grown
    <2>4. CASE raw[p.idx] # "$"
      BY <1>2, <2>3, <2>4 DEF Part
    <2>5. CASE raw[p.idx] = "$"
      <3>1. line.status # "short"
        <4>1. line.status = "short" => Part(raw, p).status = "short"
          BY <1>2, <2>3, <2>5 DEF Part, At
        <4> QED BY <4>1
      <3>2. NumberLine(more, p.idx + 1) = line
        BY <2>2, <3>1, NumberLineGrown
      <3>3. CASE line.status # "ok" \/ line.n < 0
        <4> HIDE DEF line
        <4> QED BY <1>2, <2>3, <2>5, <3>2, <3>3 DEF Part, line
      <3>4. CASE ~(line.status # "ok" \/ line.n < 0)
        <4>1. line.n \in Nat /\ line.idx \in 1 .. Len(raw) + 1
          <5>1. line.n \in Int /\ line.idx \in (p.idx + 1) + 2 .. Len(raw) + 1
            BY <2>2, <3>4, NumberLineType
          <5> HIDE DEF line
          <5> QED BY <2>2, <3>4, <5>1, SMTT(30)
        <4>2. Part(raw, p) = Bulk(raw, p, line) /\ Part(more, p) = Bulk(more, p, line)
          <5> HIDE DEF line
          <5> QED BY <1>2, <2>3, <2>5, <3>2, <3>4 DEF Part, line
        <4> HIDE DEF line
        <4>3. end = line.idx + line.n /\ BodyEnd(more, line) = end /\ end \in Nat \ {0}
          BY <4>1 DEF BodyEnd
        <4> HIDE DEF end
        <4>4. Arrived(raw, end) /\ Arrived(more, end) /\ end + 1 <= Len(raw) /\ end + 1 <= Len(more)
          <5>1. ~Arrived(raw, end) => Bulk(raw, p, line).status = "short"
            BY DEF Bulk, At, end
          <5>2. Arrived(raw, end)
            BY <4>2, <5>1
          <5>3. end + 1 <= Len(raw)
            BY <2>1, <4>3, <5>2 DEF Arrived
          <5>4. end + 1 <= Len(more)
            BY <2>1, <4>3, <5>3
          <5> QED BY <2>1, <4>3, <5>2, <5>3, <5>4 DEF Arrived
        <4>5. Slice(more, line.idx, end - 1) = Slice(raw, line.idx, end - 1)
          <5>1. Min({end - 1, Len(raw)}) = end - 1 /\ Min({end - 1, Len(more)}) = end - 1
            BY <2>1, <4>3, <4>4, MinOfTwo
          <5>2. end - 1 \in Int /\ end - 1 <= Len(raw) /\ line.idx \in Nat \ {0}
            BY <2>1, <4>1, <4>3, <4>4
          <5>3. SubSeq(more, line.idx, end - 1) = SubSeq(raw, line.idx, end - 1)
            BY <5>2, SamePiece
          <5> QED BY <5>1, <5>3, Zenon DEF Slice
        <4>6. Slice(more, end, end + 1) = Slice(raw, end, end + 1)
          <5>1. Min({end + 1, Len(raw)}) = end + 1 /\ Min({end + 1, Len(more)}) = end + 1
            BY <2>1, <4>3, <4>4, MinOfTwo, SMTT(30)
          <5>2. end + 1 \in Int
            BY <4>3
          <5>3. SubSeq(more, end, end + 1) = SubSeq(raw, end, end + 1)
            BY <4>3, <4>4, <5>2, SamePiece
          <5> QED BY <5>1, <5>3, Zenon DEF Slice
        <4> QED BY <4>2, <4>3, <4>4, <4>5, <4>6 DEF Bulk, end
      <3> QED BY <3>3, <3>4
    <2> QED BY <2>4, <2>5
  <1> QED BY <1>1, <1>2

LEMMA PartsAre ==
  ASSUME NEW raw, NEW idx, NEW n \in Nat, NEW g, Followed(g, raw, idx, n), NEW m \in 0 .. n
  PROVE  Parts(raw, idx, m) = g[m]
  <1>1. PICK h : Followed(h, raw, idx, m) /\ Parts(raw, idx, m) = h[m]
    BY PartsDef
  <1> DEFINE T == {i \in 0 .. m : g[i] = h[i]}
  <1>2. 0 \in T
    BY <1>1 DEF Followed
  <1>3. \A i \in 0 .. m - 1 : i \in T => i + 1 \in T
    <2> SUFFICES ASSUME NEW i \in 0 .. m - 1, g[i] = h[i] PROVE i + 1 \in 0 .. m /\ g[i + 1] = h[i + 1]
      OBVIOUS
    <2>1. i + 1 \in 1 .. m /\ i + 1 \in 1 .. n /\ (i + 1) - 1 = i
      OBVIOUS
    <2> QED BY <1>1, <2>1 DEF Followed
  <1>4. m \in T
    <2> HIDE DEF T
    <2> QED BY <1>2, <1>3, Induction
  <1> QED BY <1>1, <1>4

\* One bulk string after the other.
LEMMA PartsNext ==
  ASSUME NEW raw, NEW idx, NEW n \in Nat
  PROVE  /\ Parts(raw, idx, 0) = At("ok", idx, <<>>)
         /\ Parts(raw, idx, n + 1) = Part(raw, Parts(raw, idx, n))
  <1>1. PICK g : Followed(g, raw, idx, n + 1)
    BY PartsDef
  <1>2. n + 1 \in 1 .. n + 1 /\ (n + 1) - 1 = n /\ 0 \in 0 .. n + 1 /\ n \in 0 .. n + 1 /\ n + 1 \in 0 .. n + 1
    OBVIOUS
  <1>3. g[0] = At("ok", idx, <<>>) /\ g[n + 1] = Part(raw, g[n])
    BY <1>1, <1>2 DEF Followed
  <1>4. Parts(raw, idx, 0) = g[0] /\ Parts(raw, idx, n) = g[n] /\ Parts(raw, idx, n + 1) = g[n + 1]
    BY <1>1, <1>2, PartsAre
  <1> QED BY <1>3, <1>4

LEMMA PartsType ==
  ASSUME NEW raw \in Seq(Bytes), NEW idx \in 1 .. Len(raw) + 1, NEW n \in Nat
  PROVE  Progress(raw, Parts(raw, idx, n))
  <1> DEFINE T == {i \in 0 .. n : Progress(raw, Parts(raw, idx, i))}
  <1>1. 0 \in T
    BY PartsNext DEF Progress, At
  <1>2. \A i \in 0 .. n - 1 : i \in T => i + 1 \in T
    <2> SUFFICES ASSUME NEW i \in 0 .. n - 1, Progress(raw, Parts(raw, idx, i))
                 PROVE  i + 1 \in 0 .. n /\ Progress(raw, Parts(raw, idx, i + 1))
      OBVIOUS
    <2>1. i \in Nat /\ i + 1 \in 0 .. n
      OBVIOUS
    <2> QED BY <2>1, PartsNext, PartType
  <1>3. n \in T
    <2> HIDE DEF T
    <2>1. n \in 0 .. n
      OBVIOUS
    <2>2. \A i \in 0 .. n : i \in T
      BY <1>1, <1>2, Induction
    <2> QED BY <2>1, <2>2
  <1> QED BY <1>3

\* A parse that has stopped has stopped for good.
LEMMA PartsStuck ==
  ASSUME NEW raw, NEW idx, NEW k \in Nat, NEW n \in Nat, k <= n, Parts(raw, idx, k).status # "ok"
  PROVE  Parts(raw, idx, n) = Parts(raw, idx, k)
  <1> DEFINE T == {i \in 0 .. n - k : Parts(raw, idx, k + i) = Parts(raw, idx, k)}
  <1>1. 0 \in T
    OBVIOUS
  <1>2. \A i \in 0 .. n - k - 1 : i \in T => i + 1 \in T
    <2> SUFFICES ASSUME NEW i \in 0 .. n - k - 1, Parts(raw, idx, k + i) = Parts(raw, idx, k)
                 PROVE  i + 1 \in 0 .. n - k /\ Parts(raw, idx, k + (i + 1)) = Parts(raw, idx, k)
      OBVIOUS
    <2>1. k + i \in Nat /\ k + (i + 1) = (k + i) + 1 /\ i + 1 \in 0 .. n - k
      OBVIOUS
    <2>2. Parts(raw, idx, (k + i) + 1) = Part(raw, Parts(raw, idx, k + i))
      BY <2>1, PartsNext
    <2> QED BY <2>1, <2>2 DEF Part
  <1>3. n - k \in Nat /\ n - k \in 0 .. n - k /\ k + (n - k) = n
    OBVIOUS
  <1>4. n - k \in T
    <2> HIDE DEF T
    <2> QED BY <1>1, <1>2, <1>3, Induction
  <1> QED BY <1>3, <1>4

LEMMA PartsGrown ==
  ASSUME NEW raw \in Seq(Bytes), NEW more \in Seq(Bytes), Grown(raw, more),
         NEW idx \in 1 .. Len(raw) + 1, NEW n \in Nat, Parts(raw, idx, n).status # "short"
  PROVE  Parts(more, idx, n) = Parts(raw, idx, n)
  <1> DEFINE T == {i \in 0 .. n : Parts(raw, idx, i).status # "short"
                                  => Parts(more, idx, i) = Parts(raw, idx, i)}
  <1>1. 0 \in T
    <2>1. Parts(raw, idx, 0) = At("ok", idx, <<>>) /\ Parts(more, idx, 0) = At("ok", idx, <<>>)
      BY PartsNext
    <2> QED BY <2>1
  <1>2. \A i \in 0 .. n - 1 : i \in T => i + 1 \in T
    <2> SUFFICES ASSUME NEW i \in 0 .. n - 1,
                        Parts(raw, idx, i).status # "short" => Parts(more, idx, i) = Parts(raw, idx, i),
                        Parts(raw, idx, i + 1).status # "short"
                 PROVE  i + 1 \in 0 .. n /\ Parts(more, idx, i + 1) = Parts(raw, idx, i + 1)
      OBVIOUS
    <2>1. i \in Nat /\ i + 1 \in 0 .. n
      OBVIOUS
    <2> DEFINE p == Parts(raw, idx, i)
    <2>2. Parts(raw, idx, i + 1) = Part(raw, p) /\ Parts(more, idx, i + 1) = Part(more, Parts(more, idx, i))
      BY <2>1, PartsNext
    <2>3. p.status # "short"
      <3>1. p.status = "short" => Part(raw, p) = p
        BY DEF Part
      <3> QED BY <2>2, <3>1
    <2>4. Progress(raw, p)
      BY <2>1, PartsType
    <2> QED BY <2>1, <2>2, <2>3, <2>4, PartGrown
  <1>3. n \in T
    <2> HIDE DEF T
    <2>1. n \in 0 .. n
      OBVIOUS
    <2>2. \A i \in 0 .. n : i \in T
      BY <1>1, <1>2, Induction
    <2> QED BY <2>1, <2>2
  <1> QED BY <1>3

\* A request that is refused is refused whatever follows.
LEMMA ParseGrown ==
  ASSUME NEW raw \in Seq(Bytes), NEW more \in Seq(Bytes), Grown(raw, more),
         Parse(raw).status = "bad"
  PROVE  Parse(more).status = "bad"
  <1> DEFINE count == NumberLine(raw, 2)
  <1>1. raw # <<>> /\ more # <<>> /\ more[1] = raw[1]
    <2>1. raw # <<>>
      BY DEF Parse, Short, At
    <2>2. Len(raw) \in Nat /\ Len(raw) # 0 /\ Len(more) \in Nat
      BY <2>1
    <2> QED BY <2>1, <2>2 DEF Grown
  <1>2. CASE raw[1] # "*"
    BY <1>1, <1>2 DEF Parse, Bad, At
  <1>3. CASE raw[1] = "*"
    <2>1. count.status # "short"
      <3>1. count.status = "short" => Parse(raw).status = "short"
        BY <1>1, <1>3 DEF Parse, At
      <3> QED BY <3>1
    <2>2. NumberLine(more, 2) = count
      BY <2>1, NumberLineGrown
    <2>3. CASE count.status # "ok" \/ count.n <= 0
      <3>1. count.status \in {"ok", "short", "bad"}
        BY NumberLineType
      <3> HIDE DEF count
      <3> QED BY <1>1, <1>3, <2>1, <2>2, <2>3, <3>1 DEF Parse, Bad, At, count
    <2>4. CASE ~(count.status # "ok" \/ count.n <= 0)
      <3>1. count.n \in Nat /\ count.idx \in 1 .. Len(raw) + 1
        <4>1. count.n \in Int /\ count.idx \in 2 + 2 .. Len(raw) + 1
          BY <2>4, NumberLineType
        <4> HIDE DEF count
        <4> QED BY <2>4, <4>1
      <3>2. Parse(raw) = Verdict(Parts(raw, count.idx, count.n))
            /\ Parse(more) = Verdict(Parts(more, count.idx, count.n))
        <4> HIDE DEF count
        <4> QED BY <1>1, <1>3, <2>2, <2>4 DEF Parse, count
      <3> HIDE DEF count
      <3>3. Parts(raw, count.idx, count.n).status # "short"
        <4>1. Parts(raw, count.idx, count.n).status = "short" => Parse(raw).status = "short"
          BY <3>2 DEF Verdict, At
        <4> QED BY <4>1
      <3>4. Parts(more, count.idx, count.n) = Parts(raw, count.idx, count.n)
        BY <3>1, <3>3, PartsGrown
      <3> QED BY <3>2, <3>4
    <2> QED BY <2>3, <2>4
  <1> QED BY <1>2, <1>3


-----------------------------------------------------------------------------
(* What scan has read *)

\* g has the states of scan, byte by byte.
Scans(g, raw) == g[0] = Start /\ \A i \in 1 .. Len(raw) : g[i] = Scan(g[i - 1], raw[i])

LEMMA ScannedDef ==
  ASSUME NEW raw \in Seq(Bytes)
  PROVE  \E g : Scans(g, raw) /\ Scanned(raw) = g[Len(raw)]
  <1> DEFINE n == Len(raw)
             after[i \in 0 .. n] == IF i = 0 THEN Start ELSE Scan(after[i - 1], raw[i])
             Is(g, m) == g = [i \in 0 .. m |-> IF i = 0 THEN Start ELSE Scan(g[i - 1], raw[i])]
             T == {m \in 0 .. n : \E g : Is(g, m)}
  <1>0. n \in Nat
    OBVIOUS
  <1>5. Scanned(raw) = after[n]
    BY DEF Scanned
  <1> HIDE DEF n
  <1>1. 0 \in T
    <2> DEFINE g == [i \in 0 .. 0 |-> Start]
    <2>1. Is(g, 0)
      OBVIOUS
    <2>2. 0 \in 0 .. n
      BY <1>0
    <2> HIDE DEF Is, g
    <2> QED BY <2>1, <2>2
  <1>2. ASSUME NEW m \in 0 .. n - 1, m \in T PROVE m + 1 \in T
    <2>1. PICK g : Is(g, m)
      BY <1>2
    <2>0. m \in Nat
      BY <1>0
    <2> DEFINE h == [i \in 0 .. m + 1 |-> IF i = m + 1 THEN Scan(g[m], raw[m + 1]) ELSE g[i]]
    <2>2. ASSUME NEW i \in 0 .. m + 1
          PROVE  h[i] = IF i = 0 THEN Start ELSE Scan(h[i - 1], raw[i])
      <3>1. CASE i = m + 1
        <4>1. h[i] = Scan(g[m], raw[m + 1]) /\ h[i - 1] = g[m] /\ i # 0
          BY <2>0, <3>1
        <4> QED BY <3>1, <4>1
      <3>2. CASE i \in 1 .. m
        <4>1. h[i] = g[i] /\ h[i - 1] = g[i - 1]
          BY <2>0, <3>2
        <4>2. g[i] = Scan(g[i - 1], raw[i])
          BY <2>0, <2>1, <3>2
        <4> QED BY <3>2, <4>1, <4>2
      <3>3. CASE i = 0
        BY <2>0, <2>1, <3>3
      <3> QED BY <2>0, <3>1, <3>2, <3>3
    <2>3. Is(h, m + 1)
      <3>1. h = [i \in 0 .. m + 1 |-> h[i]]
        OBVIOUS
      <3> HIDE DEF h
      <3> QED BY <2>2, <3>1
    <2>4. m + 1 \in 0 .. n
      BY <1>0
    <2> HIDE DEF Is, h
    <2> QED BY <2>3, <2>4
  <1>3. \A m \in 0 .. n - 1 : m \in T => m + 1 \in T
    BY <1>2
  <1>4. n \in T
    <2> HIDE DEF T
    <2>1. \A m \in 0 .. n : m \in T
      BY <1>0, <1>1, <1>3, Induction
    <2> QED BY <1>0, <2>1
  <1>6. Is(after, n)
    <2>1. \E g : Is(g, n)
      BY <1>4
    <2> QED BY <2>1, Zenon
  <1> HIDE DEF after
  <1>7. Scans(after, raw)
    BY <1>0, <1>6 DEF Scans, n
  <1> QED BY <1>5, <1>7 DEF n

IsState(s) == DOMAIN s = {"at", "text", "left", "want", "parts"}

\* Of n bulk strings announced, the first k have been found; they end before idx.
Found(raw, s, n, first, k, idx) ==
  /\ n \in Nat \ {0} /\ k \in 0 .. n /\ s.left = n - k
  /\ raw # <<>> /\ raw[1] = "*"
  /\ NumberLine(raw, 2) = [status |-> "ok", n |-> n, idx |-> first]
  /\ Parts(raw, first, k) = At("ok", idx, s.parts)

\* Where scan is between two bulk strings, or in one that begins at idx.
AtDollar(raw, s, idx) == s.at = "dollar" /\ idx = Len(raw) + 1 /\ s.text = <<>>

AtLength(raw, s, idx) ==
  /\ s.at = "length" /\ idx <= Len(raw) /\ raw[idx] = "$"
  /\ Find(raw, idx + 1) = 0 /\ s.text = SubSeq(raw, idx + 1, Len(raw))

AtBody(raw, s, idx) ==
  /\ s.at = "body" /\ idx <= Len(raw) /\ raw[idx] = "$" /\ s.want \in Nat
  /\ \E from \in 1 .. Len(raw) + 1 :
        /\ NumberLine(raw, idx + 1) = [status |-> "ok", n |-> s.want, idx |-> from]
        /\ s.text = SubSeq(raw, from, Len(raw)) /\ Len(raw) - from + 1 < s.want + 2

AtType(raw, s) == s.at = "type" /\ raw = <<>> /\ s = Start

AtCount(raw, s) ==
  /\ s.at = "count" /\ s.parts = <<>> /\ raw # <<>> /\ raw[1] = "*"
  /\ Find(raw, 2) = 0 /\ s.text = SubSeq(raw, 2, Len(raw))

AtBulk(raw, s) ==
  \E n, first, k, idx :
     /\ Found(raw, s, n, first, k, idx) /\ k < n
     /\ AtDollar(raw, s, idx) \/ AtLength(raw, s, idx) \/ AtBody(raw, s, idx)

AtDone(raw, s) == s.at = "done" /\ \E n, first, idx : Found(raw, s, n, first, n, idx)

AtBad(raw, s) == s.at = "bad" /\ Parse(raw).status = "bad"

\* What scan is in the middle of after raw is what parse_one waits for.
Placed(raw, s) ==
  /\ IsState(s)
  /\ AtType(raw, s) \/ AtCount(raw, s) \/ AtBulk(raw, s) \/ AtDone(raw, s) \/ AtBad(raw, s)

LEMMA FoundType ==
  ASSUME NEW raw \in Seq(Bytes), NEW s, NEW n, NEW first, NEW k, NEW idx,
         Found(raw, s, n, first, k, idx)
  PROVE  /\ first \in 1 .. Len(raw) + 1 /\ idx \in 1 .. Len(raw) + 1
         /\ Parse(raw) = Verdict(Parts(raw, first, n))
  <1> DEFINE line == [status |-> "ok", n |-> n, idx |-> first]
  <1>1. line = NumberLine(raw, 2) /\ line.status = "ok" /\ line.n = n /\ line.idx = first
    BY DEF Found
  <1>2. first \in 2 + 2 .. Len(raw) + 1 /\ Len(raw) \in Nat
    <2>1. line.idx \in 2 + 2 .. Len(raw) + 1
      BY <1>1, NumberLineType
    <2> QED BY <1>1, <2>1
  <1>3. first \in 1 .. Len(raw) + 1 /\ k \in Nat /\ ~(n <= 0)
    BY <1>2 DEF Found
  <1>4. Progress(raw, At("ok", idx, s.parts))
    BY <1>3, PartsType DEF Found
  <1> HIDE DEF line
  <1>5. raw # <<>> /\ ~(raw[1] # "*")
    BY DEF Found
  <1>6. Parse(raw) = Verdict(Parts(raw, first, n))
    BY <1>1, <1>3, <1>5 DEF Parse
  <1> QED BY <1>3, <1>4, <1>6 DEF Progress, At

\* Then parse_one comes to the verdict of scan.
LEMMA PlacedAgrees ==
  ASSUME NEW raw \in Seq(Bytes), NEW s, Placed(raw, s)
  PROVE  /\ s.at \in {"type", "count", "dollar", "length", "body"} => Parse(raw).status = "short"
         /\ s.at = "bad" => Parse(raw).status = "bad"
         /\ s.at = "done" => Parse(raw).status = "ok" /\ Parse(raw).parts = s.parts
         /\ s.at \in {"type", "count", "dollar", "length", "body", "bad", "done"}
  <1>1. CASE AtType(raw, s)
    BY <1>1 DEF AtType, Parse, Short, At
  <1>2. CASE AtCount(raw, s)
    <2>1. NumberLine(raw, 2) = NoLine
      BY <1>2 DEF AtCount, NumberLine
    <2>2. Parse(raw).status = "short"
      BY <1>2, <2>1 DEF AtCount, Parse, NoLine, At
    <2> QED BY <1>2, <2>2 DEF AtCount
  <1>3. CASE AtBulk(raw, s)
    <2>1. PICK n, first, k, idx :
             /\ Found(raw, s, n, first, k, idx) /\ k < n
             /\ AtDollar(raw, s, idx) \/ AtLength(raw, s, idx) \/ AtBody(raw, s, idx)
      BY <1>3 DEF AtBulk
    <2> DEFINE p == At("ok", idx, s.parts)
    <2>2. /\ first \in 1 .. Len(raw) + 1 /\ idx \in 1 .. Len(raw) + 1
          /\ Parse(raw) = Verdict(Parts(raw, first, n))
          /\ n \in Nat /\ k \in Nat /\ k + 1 \in Nat /\ k + 1 <= n /\ Len(raw) \in Nat
      <3>1. n \in Nat /\ k \in 0 .. n /\ k < n /\ Len(raw) \in Nat
        BY <2>1 DEF Found
      <3>2. /\ first \in 1 .. Len(raw) + 1 /\ idx \in 1 .. Len(raw) + 1
            /\ Parse(raw) = Verdict(Parts(raw, first, n))
        BY <2>1, FoundType
      <3> QED BY <3>1, <3>2
    <2>3. p.status = "ok" /\ p.idx = idx
      BY DEF At
    <2>4. Parts(raw, first, k + 1) = Part(raw, p)
      BY <2>1, <2>2, PartsNext DEF Found
    <2>5. Part(raw, p).status = "short"
      <3> HIDE DEF p
      <3>1. CASE AtDollar(raw, s, idx)
        BY <2>2, <2>3, <3>1 DEF AtDollar, Part, At
      <3>2. CASE AtLength(raw, s, idx)
        <4>1. NumberLine(raw, idx + 1) = NoLine
          BY <3>2 DEF AtLength, NumberLine
        <4> QED BY <2>2, <2>3, <3>2, <4>1 DEF AtLength, Part, At, NoLine
      <3>3. CASE AtBody(raw, s, idx)
        <4>1. PICK from \in 1 .. Len(raw) + 1 :
                 /\ NumberLine(raw, idx + 1) = [status |-> "ok", n |-> s.want, idx |-> from]
                 /\ Len(raw) - from + 1 < s.want + 2
          BY <3>3 DEF AtBody
        <4> DEFINE line == [status |-> "ok", n |-> s.want, idx |-> from]
        <4>2. line.status = "ok" /\ line.n = s.want /\ line.idx = from
          OBVIOUS
        <4>3. s.want \in Nat /\ ~(s.want < 0) /\ idx <= Len(raw) /\ raw[idx] = "$"
          BY <3>3 DEF AtBody
        <4>4. NumberLine(raw, idx + 1) = line
          BY <4>1
        <4> HIDE DEF line
        <4>5. Part(raw, p) = Bulk(raw, p, line)
          BY <2>2, <2>3, <4>2, <4>3, <4>4 DEF Part
        <4>6. ~Arrived(raw, BodyEnd(raw, line))
          BY <2>2, <4>1, <4>2, <4>3 DEF Arrived, BodyEnd
        <4> QED BY <4>5, <4>6 DEF Bulk, At
      <3> QED BY <2>1, <3>1, <3>2, <3>3
    <2>6. Parts(raw, first, n) = Part(raw, p)
      <3>1. Parts(raw, first, k + 1).status # "ok"
        BY <2>4, <2>5
      <3> HIDE DEF p
      <3> QED BY <2>2, <2>4, <3>1, PartsStuck
    <2>7. Parse(raw).status = "short"
      BY <2>2, <2>5, <2>6 DEF Verdict, At
    <2> QED BY <2>1, <2>7 DEF AtDollar, AtLength, AtBody
  <1>4. CASE AtDone(raw, s)
    <2>1. PICK n, first, idx : Found(raw, s, n, first, n, idx)
      BY <1>4 DEF AtDone
    <2>2. Parse(raw) = Verdict(At("ok", idx, s.parts))
      <3>1. Parse(raw) = Verdict(Parts(raw, first, n))
        BY <2>1, FoundType
      <3>2. Parts(raw, first, n) = At("ok", idx, s.parts)
        BY <2>1 DEF Found
      <3> QED BY <3>1, <3>2
    <2> QED BY <1>4, <2>2 DEF AtDone, Verdict, At
  <1>5. CASE AtBad(raw, s)
    BY <1>5 DEF AtBad
  <1> QED BY <1>1, <1>2, <1>3, <1>4, <1>5 DEF Placed


-----------------------------------------------------------------------------
(* One byte more *)

LEMMA ByteMore ==
  ASSUME NEW raw \in Seq(Bytes), NEW b \in Bytes, NEW more, more = Append(raw, b)
  PROVE  /\ more \in Seq(Bytes) /\ Len(raw) \in Nat /\ Len(more) = Len(raw) + 1
         /\ more[Len(raw) + 1] = b /\ more[Len(more)] = b /\ more # <<>> /\ Grown(raw, more)
  <1>1. /\ more \in Seq(Bytes) /\ Len(raw) \in Nat /\ Len(more) = Len(raw) + 1
        /\ \A i \in 1 .. Len(raw) : more[i] = raw[i]
    BY AppendProperties
  <1>2. more[Len(raw) + 1] = b
    BY AppendProperties
  <1>3. more # <<>>
    BY <1>1
  <1> QED BY <1>1, <1>2, <1>3 DEF Grown

LEMMA PieceOfPiece ==
  ASSUME NEW s \in Seq(Bytes), NEW i \in 1 .. Len(s) + 1, NEW m \in Nat \ {0},
         NEW n \in Int, i + n - 1 <= Len(s)
  PROVE  SubSeq(SubSeq(s, i, Len(s)), m, n) = SubSeq(s, i + m - 1, i + n - 1)
  <1> DEFINE t == SubSeq(s, i, Len(s))
             a == SubSeq(t, m, n)
             c == SubSeq(s, i + m - 1, i + n - 1)
  <1>1. Len(s) \in Nat /\ i \in Nat \ {0} /\ Len(s) \in Int /\ i + m - 1 \in Nat \ {0} /\ i + n - 1 \in Int
    OBVIOUS
  <1>2. /\ t \in Seq(Bytes) /\ Len(t) = Len(s) - i + 1
        /\ \A k \in 1 .. Len(s) - i + 1 : t[k] = s[i + k - 1]
    BY RestOf
  <1> HIDE DEF t
  <1>3. /\ a \in Seq(Bytes) /\ Len(a) = IF m <= n THEN n - m + 1 ELSE 0
        /\ \A k \in 1 .. n - m + 1 : a[k] = t[m + k - 1]
    <2>1. n <= Len(t)
      BY <1>1, <1>2
    <2> QED BY <1>2, <2>1, Piece, SMTT(30)
  <1>4. /\ c \in Seq(Bytes) /\ Len(c) = IF m <= n THEN n - m + 1 ELSE 0
        /\ \A k \in 1 .. n - m + 1 : c[k] = s[(i + m - 1) + k - 1]
    <2>1. /\ c \in Seq(Bytes)
          /\ Len(c) = IF i + m - 1 <= i + n - 1 THEN (i + n - 1) - (i + m - 1) + 1 ELSE 0
          /\ \A k \in 1 .. (i + n - 1) - (i + m - 1) + 1 : c[k] = s[(i + m - 1) + k - 1]
      BY <1>1, Piece
    <2>2. (i + n - 1) - (i + m - 1) + 1 = n - m + 1 /\ (i + m - 1 <= i + n - 1 <=> m <= n)
      BY <1>1
    <2> QED BY <2>1, <2>2
  <1> HIDE DEF a, c
  <1>5. ASSUME NEW k \in 1 .. Len(a) PROVE a[k] = c[k]
    <2>1. k \in 1 .. n - m + 1 /\ m + k - 1 \in 1 .. Len(s) - i + 1
          /\ i + (m + k - 1) - 1 = (i + m - 1) + k - 1
      BY <1>1, <1>3
    <2> QED BY <1>2, <1>3, <1>4, <2>1
  <1>6. a = c
    BY <1>3, <1>4, <1>5, SeqEqual
  <1> QED BY <1>6 DEF a, c, t

\* What scan has of a line or a string, and the byte that comes.
LEMMA TextMore ==
  ASSUME NEW raw \in Seq(Bytes), NEW b \in Bytes, NEW more, more = Append(raw, b),
         NEW start \in 1 .. Len(raw) + 1
  PROVE  /\ Append(SubSeq(raw, start, Len(raw)), b) = SubSeq(more, start, Len(more))
         /\ SubSeq(more, start, Len(more)) \in Seq(Bytes)
         /\ Len(SubSeq(more, start, Len(more))) = Len(raw) - start + 2
  <1> DEFINE t == SubSeq(raw, start, Len(raw))
             a == Append(t, b)
             c == SubSeq(more, start, Len(more))
  <1>1. /\ more \in Seq(Bytes) /\ Len(raw) \in Nat /\ Len(more) = Len(raw) + 1
        /\ more[Len(raw) + 1] = b /\ \A i \in 1 .. Len(raw) : more[i] = raw[i]
    BY ByteMore DEF Grown
  <1>2. /\ t \in Seq(Bytes) /\ Len(t) = Len(raw) - start + 1
        /\ \A k \in 1 .. Len(raw) - start + 1 : t[k] = raw[start + k - 1]
    BY RestOf
  <1>3. /\ c \in Seq(Bytes) /\ Len(c) = Len(raw) - start + 2
        /\ \A k \in 1 .. Len(raw) - start + 2 : c[k] = more[start + k - 1]
    <2>1. Len(more) - start + 1 = Len(raw) - start + 2 /\ start \in 1 .. Len(more) + 1
      BY <1>1
    <2>2. /\ c \in Seq(Bytes) /\ Len(c) = Len(more) - start + 1
          /\ \A k \in 1 .. Len(more) - start + 1 : c[k] = more[start + k - 1]
      BY <1>1, <2>1, RestOf
    <2> QED BY <2>1, <2>2
  <1> HIDE DEF t, c
  <1>4. /\ a \in Seq(Bytes) /\ Len(a) = Len(raw) - start + 2 /\ a[Len(raw) - start + 2] = b
        /\ \A k \in 1 .. Len(raw) - start + 1 : a[k] = t[k]
    <2>1. /\ a \in Seq(Bytes) /\ Len(a) = Len(t) + 1 /\ a[Len(t) + 1] = b
          /\ \A k \in 1 .. Len(t) : a[k] = t[k]
      <3>1. t \in Seq(Bytes)
        BY <1>2
      <3> QED BY <3>1, AppendProperties
    <2>2. Len(t) + 1 = Len(raw) - start + 2
      BY <1>1, <1>2
    <2> HIDE DEF a
    <2> QED BY <1>2, <2>1, <2>2
  <1> HIDE DEF a
  <1>5. ASSUME NEW k \in 1 .. Len(a) PROVE a[k] = c[k]
    <2>1. CASE k = Len(raw) - start + 2
      <3>1. start + k - 1 = Len(raw) + 1 /\ k \in 1 .. Len(raw) - start + 2
        BY <1>1, <2>1
      <3> QED BY <1>1, <1>3, <1>4, <2>1, <3>1
    <2>2. CASE k # Len(raw) - start + 2
      <3>1. /\ k \in 1 .. Len(raw) - start + 1 /\ k \in 1 .. Len(raw) - start + 2
            /\ start + k - 1 \in 1 .. Len(raw)
        BY <1>1, <1>4, <2>2
      <3> QED BY <1>1, <1>2, <1>3, <1>4, <3>1
    <2> QED BY <2>1, <2>2
  <1>6. a = c
    BY <1>3, <1>4, <1>5, SeqEqual
  <1> QED BY <1>3, <1>6 DEF a, c, t

LEMMA LineOverIs ==
  ASSUME NEW t \in Seq(Bytes)
  PROVE  LineOver(t) <=> Len(t) > 1 /\ t[Len(t) - 1] = "cr" /\ t[Len(t)] = "lf"
  <1> DEFINE c == SubSeq(t, Len(t) - 1, Len(t))
  <1>1. CASE Len(t) > 1
    <2>0. Len(t) \in Nat
      OBVIOUS
    <2>1. Len(t) \in Int /\ Len(t) - 1 \in Nat \ {0} /\ Len(t) <= Len(t)
      <3> HIDE DEF c
      <3>1. \A n \in Nat : n > 1 => n \in Int /\ n - 1 \in Nat \ {0} /\ n <= n
        OBVIOUS
      <3> QED BY <1>1, <2>0, <3>1
    <2>2. c \in Seq(Bytes) /\ Len(c) = 2 /\ c[1] = t[Len(t) - 1] /\ c[2] = t[Len(t)]
      <3>1. /\ c \in Seq(Bytes)
            /\ Len(c) = IF Len(t) - 1 <= Len(t) THEN Len(t) - (Len(t) - 1) + 1 ELSE 0
            /\ \A k \in 1 .. Len(t) - (Len(t) - 1) + 1 : c[k] = t[Len(t) - 1 + k - 1]
        BY <2>1, Piece
      <3>2. Len(t) - (Len(t) - 1) + 1 = 2 /\ Len(t) - 1 <= Len(t) /\ 1 \in 1 .. 2 /\ 2 \in 1 .. 2
            /\ Len(t) - 1 + 1 - 1 = Len(t) - 1 /\ Len(t) - 1 + 2 - 1 = Len(t)
        BY <2>1
      <3> HIDE DEF c
      <3> QED BY <3>1, <3>2
    <2> HIDE DEF c
    <2>3. c = CRLF <=> c[1] = "cr" /\ c[2] = "lf"
      <3>1. ASSUME c[1] = "cr", c[2] = "lf" PROVE c = CRLF
        <4>1. \A k \in 1 .. 2 : c[k] = CRLF[k]
          BY <3>1, LineEnd
        <4> QED BY <2>2, <4>1, LineEnd, SeqEqual
      <3> QED BY <3>1, LineEnd
    <2> QED BY <1>1, <2>2, <2>3 DEF LineOver, c
  <1>2. CASE ~(Len(t) > 1)
    BY <1>2 DEF LineOver
  <1> QED BY <1>1, <1>2

\* A line that had no end has one now, or still none.
LEMMA LineMore ==
  ASSUME NEW raw \in Seq(Bytes), NEW b \in Bytes, NEW more, more = Append(raw, b),
         NEW start \in 1 .. Len(raw) + 1, Find(raw, start) = 0,
         NEW text, text = SubSeq(more, start, Len(more))
  PROVE  /\ ~LineOver(text) => Find(more, start) = 0
         /\ LineOver(text) =>
               NumberLine(more, start) =
                  IF IsNumber(Line(text))
                  THEN [status |-> "ok", n |-> Number(Line(text)), idx |-> Len(more) + 1]
                  ELSE [NoLine EXCEPT !.status = "bad"]
  <1>1. /\ more \in Seq(Bytes) /\ Len(raw) \in Nat /\ Len(more) = Len(raw) + 1
        /\ \A i \in 1 .. Len(raw) : more[i] = raw[i]
    BY ByteMore DEF Grown
  <1>2. text \in Seq(Bytes) /\ Len(text) = Len(raw) - start + 2
    BY TextMore
  <1>3. \A k \in 1 .. Len(raw) - start + 2 : text[k] = more[start + k - 1]
    <2>1. Len(more) - start + 1 = Len(raw) - start + 2 /\ start \in 1 .. Len(more) + 1
      BY <1>1
    <2>2. \A k \in 1 .. Len(more) - start + 1 :
             SubSeq(more, start, Len(more))[k] = more[start + k - 1]
      BY <1>1, <2>1, RestOf
    <2> QED BY <2>1, <2>2
  <1>0. start \in Nat \ {0} /\ start \in Nat
    BY <1>1
  <1>4. \A j \in start .. Len(raw) - 1 : ~LineEndsAt(more, j)
    <2>1. \A j \in start .. Len(raw) - 1 : ~LineEndsAt(raw, j)
      BY NoLineEnd
    <2>2. \A j \in start .. Len(raw) - 1 : j \in 1 .. Len(raw) /\ j + 1 \in 1 .. Len(raw)
      BY <1>1
    <2> QED BY <1>1, <2>1, <2>2 DEF LineEndsAt
  <1>5. LineOver(text) <=> start <= Len(raw) /\ LineEndsAt(more, Len(raw))
    <2>1. Len(text) > 1 <=> start <= Len(raw)
      BY <1>1, <1>2
    <2>2. ASSUME start <= Len(raw)
          PROVE  text[Len(text) - 1] = more[Len(raw)] /\ text[Len(text)] = more[Len(raw) + 1]
      <3>1. /\ Len(text) - 1 \in 1 .. Len(raw) - start + 2 /\ Len(text) \in 1 .. Len(raw) - start + 2
            /\ start + (Len(text) - 1) - 1 = Len(raw) /\ start + Len(text) - 1 = Len(raw) + 1
        BY <1>1, <1>2, <2>2
      <3> QED BY <1>3, <3>1
    <2> QED BY <1>2, <2>1, <2>2, LineOverIs DEF LineEndsAt
  <1>6. ASSUME ~LineOver(text) PROVE Find(more, start) = 0
    <2>1. \A j \in start .. Len(more) - 1 : ~LineEndsAt(more, j)
      <3>1. \A j \in start .. Len(more) - 1 : j = Len(raw) \/ j \in start .. Len(raw) - 1
        BY <1>1
      <3>2. Len(raw) \in start .. Len(more) - 1 => start <= Len(raw)
        BY <1>1
      <3> QED BY <1>4, <1>5, <1>6, <3>1, <3>2
    <2> QED BY <1>0, <2>1, NoLineEnd
  <1>7. ASSUME LineOver(text)
        PROVE  Find(more, start) = Len(raw) /\ Len(raw) # 0 /\ Line(text) = SubSeq(more, start, Len(raw) - 1)
    <2>1. Len(raw) \in start .. Len(more) - 1 /\ Len(raw) # 0
      BY <1>1, <1>5, <1>7
    <2>2. Find(more, start) = Len(raw)
      BY <1>0, <1>4, <1>5, <1>7, <2>1, FindIs
    <2>3. Line(text) = SubSeq(more, start, Len(raw) - 1)
      <3>1. /\ Len(text) - 2 \in Int /\ start + (Len(text) - 2) - 1 <= Len(more)
            /\ start \in 1 .. Len(more) + 1
            /\ start + (Len(text) - 2) - 1 = Len(raw) - 1 /\ start + 1 - 1 = start
        BY <1>1, <1>2
      <3>2. SubSeq(text, 1, Len(text) - 2) = SubSeq(more, start + 1 - 1, start + (Len(text) - 2) - 1)
        BY <1>1, <3>1, PieceOfPiece
      <3> QED BY <3>1, <3>2 DEF Line
    <2> QED BY <2>1, <2>2, <2>3
  <1>8. ASSUME LineOver(text)
        PROVE  NumberLine(more, start) =
                  IF IsNumber(Line(text))
                  THEN [status |-> "ok", n |-> Number(Line(text)), idx |-> Len(more) + 1]
                  ELSE [NoLine EXCEPT !.status = "bad"]
    <2>1. Len(raw) + 2 = Len(more) + 1
      BY <1>1
    <2> QED BY <1>7, <1>8, <2>1 DEF NumberLine
  <1> QED BY <1>6, <1>8


LEMMA FailIs == IsState(Fail) /\ Fail.at = "bad"
  BY DEF Fail, Start, IsState

LEMMA FailPlaced ==
  ASSUME NEW more, Parse(more).status = "bad"
  PROVE  Placed(more, Fail)
  BY FailIs DEF Placed, AtBad

\* What was found stays where it is.
LEMMA FoundGrown ==
  ASSUME NEW raw \in Seq(Bytes), NEW more \in Seq(Bytes), Grown(raw, more), more # <<>>,
         NEW s, NEW t, t.left = s.left, t.parts = s.parts,
         NEW n, NEW first, NEW k, NEW idx, Found(raw, s, n, first, k, idx)
  PROVE  Found(more, t, n, first, k, idx)
  <1>1. first \in 1 .. Len(raw) + 1
    BY FoundType
  <1>2. /\ n \in Nat \ {0} /\ k \in 0 .. n /\ k \in Nat /\ t.left = n - k
        /\ raw # <<>> /\ raw[1] = "*"
        /\ NumberLine(raw, 2) = [status |-> "ok", n |-> n, idx |-> first]
        /\ Parts(raw, first, k) = At("ok", idx, t.parts)
    BY DEF Found
  <1>3. more[1] = "*"
    <2>1. 1 \in 1 .. Len(raw)
      BY <1>2
    <2> QED BY <1>2, <2>1 DEF Grown
  <1>4. NumberLine(more, 2) = NumberLine(raw, 2)
    <2>1. NumberLine(raw, 2).status # "short"
      BY <1>2
    <2> QED BY <2>1, NumberLineGrown
  <1>5. Parts(more, first, k) = Parts(raw, first, k)
    <2>1. Parts(raw, first, k).status # "short"
      BY <1>2 DEF At
    <2> QED BY <1>1, <1>2, <2>1, PartsGrown
  <1> QED BY <1>2, <1>3, <1>4, <1>5 DEF Found

LEMMA ScanType ==
  ASSUME NEW raw \in Seq(Bytes), NEW b \in Bytes, NEW more, more = Append(raw, b),
         NEW s, AtType(raw, s)
  PROVE  Placed(more, Scan(s, b))
  <1>1. /\ more \in Seq(Bytes) /\ Len(more) = 1 /\ more[1] = b /\ more # <<>>
        /\ s = Start
    BY ByteMore DEF AtType
  <1>2. CASE b = "*"
    <2> DEFINE t == [Start EXCEPT !.at = "count"]
    <2>1. Scan(s, b) = t
      BY <1>1, <1>2 DEF Scan, Start
    <2>2. IsState(t) /\ t.at = "count" /\ t.parts = <<>> /\ t.text = <<>>
      BY DEF IsState, Start
    <2>3. Find(more, 2) = 0
      <3>1. 2 \in Nat \ {0} /\ \A j \in 2 .. Len(more) - 1 : ~LineEndsAt(more, j)
        BY <1>1
      <3> QED BY <3>1, NoLineEnd
    <2>4. SubSeq(more, 2, Len(more)) = <<>>
      BY <1>1, SubSeqEmpty
    <2> HIDE DEF t
    <2> QED BY <1>1, <1>2, <2>1, <2>2, <2>3, <2>4 DEF Placed, AtCount
  <1>3. CASE b # "*"
    <2>1. Scan(s, b) = Fail
      BY <1>1, <1>3 DEF Scan, Start
    <2>2. Parse(more).status = "bad"
      BY <1>1, <1>3 DEF Parse, Bad, At
    <2> QED BY <2>1, <2>2, FailPlaced
  <1> QED BY <1>2, <1>3

LEMMA ScanCount ==
  ASSUME NEW raw \in Seq(Bytes), NEW b \in Bytes, NEW more, more = Append(raw, b),
         NEW s, IsState(s), AtCount(raw, s)
  PROVE  Placed(more, Scan(s, b))
  <1> DEFINE text == Append(s.text, b)
             line == NumberLine(more, 2)
  <1>1. /\ s.at = "count" /\ s.parts = <<>> /\ raw # <<>> /\ raw[1] = "*"
        /\ Find(raw, 2) = 0 /\ s.text = SubSeq(raw, 2, Len(raw))
    BY DEF AtCount
  <1>2. /\ more \in Seq(Bytes) /\ Len(raw) \in Nat /\ Len(more) = Len(raw) + 1
        /\ more # <<>> /\ more[1] = "*"
    BY <1>1, ByteMore DEF Grown
  <1>3. 2 \in 1 .. Len(raw) + 1
    BY <1>1, <1>2
  <1>4. text = SubSeq(more, 2, Len(more)) /\ text \in Seq(Bytes)
    <2>1. text = Append(SubSeq(raw, 2, Len(raw)), b)
      BY <1>1
    <2> HIDE DEF text
    <2> QED BY <1>3, <2>1, TextMore
  <1> HIDE DEF text
  <1>5. /\ ~LineOver(text) => Find(more, 2) = 0
        /\ LineOver(text) =>
              NumberLine(more, 2) =
                 IF IsNumber(Line(text))
                 THEN [status |-> "ok", n |-> Number(Line(text)), idx |-> Len(more) + 1]
                 ELSE [NoLine EXCEPT !.status = "bad"]
    <2>1. Find(raw, 2) = 0 /\ text = SubSeq(more, 2, Len(more))
      BY <1>1, <1>4
    <2> HIDE DEF line
    <2> QED BY <1>3, <2>1, LineMore, Zenon
  <1>6. CASE ~LineOver(text)
    <2> DEFINE t == [s EXCEPT !.text = text]
    <2>1. Scan(s, b) = t
      BY <1>1, <1>6 DEF Scan, text
    <2>2. IsState(t) /\ t.at = "count" /\ t.parts = <<>> /\ t.text = text
      BY <1>1 DEF IsState
    <2> HIDE DEF t
    <2> QED BY <1>2, <1>4, <1>5, <1>6, <2>1, <2>2 DEF Placed, AtCount
  <1>7. CASE LineOver(text) /\ ~IsNumber(Line(text))
    <2>1. Scan(s, b) = Fail
      BY <1>1, <1>7 DEF Scan, text
    <2>2. line.status = "bad"
      BY <1>5, <1>7 DEF NoLine
    <2>3. Parse(more).status = "bad"
      BY <1>2, <2>2 DEF Parse, At
    <2> QED BY <2>1, <2>3, FailPlaced
  <1>8. CASE LineOver(text) /\ IsNumber(Line(text))
    <2> DEFINE n == Number(Line(text))
    <2>1. line = [status |-> "ok", n |-> n, idx |-> Len(more) + 1]
      BY <1>5, <1>8
    <2>2. n \in Int
      <3>1. line.status = "ok" /\ line.n = n
        BY <2>1
      <3>2. line.n \in Int
        <4>1. 2 \in Nat \ {0} /\ line = NumberLine(more, 2)
          OBVIOUS
        <4> HIDE DEF line, n
        <4> QED BY <1>2, <3>1, <4>1, NumberLineType
      <3> QED BY <3>1, <3>2
    <2> HIDE DEF n
    <2>3. CASE n <= 0
      <3>1. Scan(s, b) = Fail
        BY <1>1, <1>8, <2>3 DEF Scan, text, n
      <3>2. Parse(more).status = "bad"
        BY <1>2, <2>1, <2>3 DEF Parse, Bad, At
      <3> QED BY <3>1, <3>2, FailPlaced
    <2>4. CASE ~(n <= 0)
      <3> DEFINE t == [s EXCEPT !.at = "dollar", !.text = <<>>, !.left = n]
      <3>1. Scan(s, b) = t
        BY <1>1, <1>8, <2>4 DEF Scan, text, n
      <3>2. IsState(t) /\ t.at = "dollar" /\ t.parts = <<>> /\ t.text = <<>> /\ t.left = n
        BY <1>1 DEF IsState
      <3> HIDE DEF t
      <3>3. n \in Nat \ {0} /\ 0 \in 0 .. n /\ 0 < n /\ n = n - 0
        BY <2>2, <2>4
      <3>4. Parts(more, Len(more) + 1, 0) = At("ok", Len(more) + 1, <<>>)
        BY PartsNext
      <3>5. Found(more, t, n, Len(more) + 1, 0, Len(more) + 1)
        BY <1>2, <2>1, <3>2, <3>3, <3>4 DEF Found
      <3>6. AtBulk(more, t)
        BY <3>2, <3>3, <3>5 DEF AtBulk, AtDollar
      <3> QED BY <3>1, <3>2, <3>6 DEF Placed
    <2> QED BY <2>3, <2>4
  <1> QED BY <1>6, <1>7, <1>8


\* Past the count, the bulk string that begins at idx decides.
LEMMA RefusedAt ==
  ASSUME NEW raw \in Seq(Bytes), NEW s, NEW n, NEW first, NEW k, NEW idx,
         Found(raw, s, n, first, k, idx), k < n, Part(raw, At("ok", idx, s.parts)).status = "bad"
  PROVE  Parse(raw).status = "bad"
  <1>1. /\ n \in Nat /\ k \in Nat /\ k + 1 \in Nat /\ k + 1 <= n
        /\ Parts(raw, first, k) = At("ok", idx, s.parts)
    BY DEF Found
  <1>2. Parts(raw, first, k + 1) = Part(raw, At("ok", idx, s.parts))
    BY <1>1, PartsNext
  <1>3. Parts(raw, first, n) = Parts(raw, first, k + 1)
    <2>1. Parts(raw, first, k + 1).status # "ok"
      BY <1>2
    <2> QED BY <1>1, <2>1, PartsStuck
  <1>4. Parse(raw) = Verdict(Parts(raw, first, n))
    BY FoundType
  <1> QED BY <1>2, <1>3, <1>4 DEF Verdict, At

LEMMA ScanDollar ==
  ASSUME NEW raw \in Seq(Bytes), NEW b \in Bytes, NEW more, more = Append(raw, b),
         NEW s, IsState(s), NEW n, NEW first, NEW k, NEW idx,
         Found(raw, s, n, first, k, idx), k < n, AtDollar(raw, s, idx)
  PROVE  Placed(more, Scan(s, b))
  <1>1. s.at = "dollar" /\ idx = Len(raw) + 1 /\ s.text = <<>>
    BY DEF AtDollar
  <1>2. /\ more \in Seq(Bytes) /\ Len(raw) \in Nat /\ Len(more) = idx /\ more[idx] = b
        /\ more # <<>> /\ Grown(raw, more) /\ idx \in Nat \ {0} /\ idx + 1 \in Nat \ {0}
    <2>1. Len(more) = idx /\ more[idx] = b /\ more \in Seq(Bytes) /\ Len(raw) \in Nat
          /\ more # <<>> /\ Grown(raw, more)
      BY <1>1, ByteMore
    <2> QED BY <1>1, <2>1
  <1>3. CASE b = "$"
    <2> DEFINE t == [s EXCEPT !.at = "length"]
    <2>1. Scan(s, b) = t
      BY <1>1, <1>3 DEF Scan
    <2>2. IsState(t) /\ t.at = "length" /\ t.parts = s.parts /\ t.text = <<>> /\ t.left = s.left
      BY <1>1 DEF IsState
    <2> HIDE DEF t
    <2>3. Found(more, t, n, first, k, idx)
      BY <1>2, <2>2, FoundGrown
    <2>4. Find(more, idx + 1) = 0
      <3>1. \A j \in idx + 1 .. Len(more) - 1 : ~LineEndsAt(more, j)
        BY <1>2
      <3> QED BY <1>2, <3>1, NoLineEnd
    <2>5. SubSeq(more, idx + 1, Len(more)) = <<>>
      BY <1>2, SubSeqEmpty
    <2>6. AtLength(more, t, idx)
      BY <1>2, <1>3, <2>2, <2>4, <2>5 DEF AtLength
    <2> QED BY <2>1, <2>2, <2>3, <2>6 DEF Placed, AtBulk
  <1>4. CASE b # "$"
    <2>1. Scan(s, b) = Fail
      BY <1>1, <1>4 DEF Scan
    <2>2. Found(more, s, n, first, k, idx)
      BY <1>2, FoundGrown
    <2>3. Part(more, At("ok", idx, s.parts)).status = "bad"
      BY <1>2, <1>4 DEF Part, At
    <2>4. Parse(more).status = "bad"
      BY <1>2, <2>2, <2>3, RefusedAt
    <2> QED BY <2>1, <2>4, FailPlaced
  <1> QED BY <1>3, <1>4

LEMMA ScanLength ==
  ASSUME NEW raw \in Seq(Bytes), NEW b \in Bytes, NEW more, more = Append(raw, b),
         NEW s, IsState(s), NEW n, NEW first, NEW k, NEW idx,
         Found(raw, s, n, first, k, idx), k < n, AtLength(raw, s, idx)
  PROVE  Placed(more, Scan(s, b))
  <1> DEFINE text == Append(s.text, b)
             p == At("ok", idx, s.parts)
             line == NumberLine(more, idx + 1)
             m == Number(Line(text))
  <1>1. /\ s.at = "length" /\ idx <= Len(raw) /\ raw[idx] = "$"
        /\ Find(raw, idx + 1) = 0 /\ s.text = SubSeq(raw, idx + 1, Len(raw))
    BY DEF AtLength
  <1>2. /\ more \in Seq(Bytes) /\ Len(raw) \in Nat /\ Len(more) = Len(raw) + 1
        /\ more # <<>> /\ Grown(raw, more)
    BY ByteMore
  <1>3. idx \in 1 .. Len(raw) /\ idx + 1 \in 1 .. Len(raw) + 1 /\ more[idx] = "$" /\ idx <= Len(more)
    <2>1. idx \in 1 .. Len(raw) + 1
      BY FoundType
    <2>2. idx \in 1 .. Len(raw)
      BY <1>1, <1>2, <2>1
    <2> QED BY <1>1, <1>2, <2>2 DEF Grown
  <1>4. text = SubSeq(more, idx + 1, Len(more)) /\ text \in Seq(Bytes)
    <2>1. text = Append(SubSeq(raw, idx + 1, Len(raw)), b)
      BY <1>1
    <2> HIDE DEF text
    <2> QED BY <1>3, <2>1, TextMore, ZenonT(30)
  <1>5. p.status = "ok" /\ p.idx = idx /\ ~(p.idx > Len(more))
    BY <1>2, <1>3 DEF At
  <1> HIDE DEF text, p, line, m
  <1>6. /\ ~LineOver(text) => Find(more, idx + 1) = 0
        /\ LineOver(text) =>
              line = IF IsNumber(Line(text)) THEN [status |-> "ok", n |-> m, idx |-> Len(more) + 1]
                     ELSE [NoLine EXCEPT !.status = "bad"]
    <2>1. Find(raw, idx + 1) = 0 /\ text = SubSeq(more, idx + 1, Len(more))
      BY <1>1, <1>4
    <2> QED BY <1>3, <2>1, LineMore, ZenonT(30) DEF line, m
  <1>7. Part(more, p).status = "bad" => Placed(more, Fail)
    <2>1. Found(more, s, n, first, k, idx)
      BY <1>2, FoundGrown
    <2> QED BY <1>2, <2>1, RefusedAt, FailPlaced DEF p
  <1>8. CASE ~LineOver(text)
    <2> DEFINE t == [s EXCEPT !.text = text]
    <2>1. Scan(s, b) = t
      BY <1>1, <1>8 DEF Scan, text
    <2>2. IsState(t) /\ t.at = "length" /\ t.parts = s.parts /\ t.text = text /\ t.left = s.left
      BY <1>1 DEF IsState
    <2> HIDE DEF t
    <2>3. Found(more, t, n, first, k, idx)
      BY <1>2, <2>2, FoundGrown
    <2>4. AtLength(more, t, idx)
      BY <1>3, <1>4, <1>6, <1>8, <2>2 DEF AtLength
    <2> QED BY <2>1, <2>2, <2>3, <2>4 DEF Placed, AtBulk
  <1>9. CASE LineOver(text) /\ ~IsNumber(Line(text))
    <2>1. Scan(s, b) = Fail
      BY <1>1, <1>9 DEF Scan, text
    <2>2. line.status = "bad"
      BY <1>6, <1>9 DEF NoLine
    <2>3. Part(more, p).status = "bad"
      BY <1>3, <1>5, <2>2 DEF Part, At, line
    <2> QED BY <1>7, <2>1, <2>3
  <1>10. CASE LineOver(text) /\ IsNumber(Line(text))
    <2>1. line = [status |-> "ok", n |-> m, idx |-> Len(more) + 1]
      BY <1>6, <1>10
    <2>2. m \in Int
      <3>1. line.status = "ok" /\ line.n = m
        BY <2>1
      <3>2. idx + 1 \in Nat \ {0} /\ line = NumberLine(more, idx + 1)
        BY <1>3 DEF line
      <3>3. line.n \in Int
        BY <1>2, <3>1, <3>2, NumberLineType
      <3> QED BY <3>1, <3>3
    <2>3. CASE m < 0
      <3>1. Scan(s, b) = Fail
        BY <1>1, <1>10, <2>3 DEF Scan, text, m
      <3>2. line.status = "ok" /\ line.n < 0
        BY <2>1, <2>3
      <3>3. Part(more, p).status = "bad"
        BY <1>3, <1>5, <3>2 DEF Part, At, line
      <3> QED BY <1>7, <3>1, <3>3
    <2>4. CASE ~(m < 0)
      <3> DEFINE t == [s EXCEPT !.at = "body", !.text = <<>>, !.want = m]
      <3>1. Scan(s, b) = t
        BY <1>1, <1>10, <2>4 DEF Scan, text, m
      <3>2. /\ IsState(t) /\ t.at = "body" /\ t.parts = s.parts /\ t.text = <<>>
            /\ t.left = s.left /\ t.want = m
        BY <1>1 DEF IsState
      <3> HIDE DEF t
      <3>3. Found(more, t, n, first, k, idx)
        BY <1>2, <3>2, FoundGrown
      <3>4. AtBody(more, t, idx)
        <4> DEFINE from == Len(more) + 1
        <4>1. from \in 1 .. Len(more) + 1 /\ Len(more) - from + 1 < m + 2 /\ m \in Nat
          BY <1>2, <2>2, <2>4
        <4>2. SubSeq(more, from, Len(more)) = <<>>
          BY <1>2, SubSeqEmpty
        <4>3. NumberLine(more, idx + 1) = [status |-> "ok", n |-> m, idx |-> from]
          BY <2>1 DEF line
        <4> HIDE DEF from
        <4> QED BY <1>3, <3>2, <4>1, <4>2, <4>3 DEF AtBody
      <3> QED BY <3>1, <3>2, <3>3, <3>4 DEF Placed, AtBulk
    <2> QED BY <2>3, <2>4
  <1> QED BY <1>8, <1>9, <1>10


\* A string of w bytes from f on, and the line end from e on, end with byte m.
EndsAt(m, f, w, e) ==
  /\ e \in Nat \ {0} /\ e + 1 = m /\ e + 2 = m + 1 /\ e - 1 <= m /\ e + 1 <= m
  /\ e - 1 \in Int /\ e + 1 \in Int
  /\ w \in Int /\ w + 1 \in Nat \ {0} /\ w + 2 \in Int
  /\ f + w - 1 <= m /\ f + (w + 2) - 1 <= m
  /\ f + 1 - 1 = f /\ f + w - 1 = e - 1
  /\ f + (w + 1) - 1 = e /\ f + (w + 2) - 1 = e + 1

LEMMA WholeBody ==
  ASSUME NEW m \in Nat, NEW f \in 1 .. m, NEW w \in Nat, m - f < w + 2, ~(m - f + 1 < w + 2)
  PROVE  EndsAt(m, f, w, f + w)
  BY DEF EndsAt

LEMMA ScanBody ==
  ASSUME NEW raw \in Seq(Bytes), NEW b \in Bytes, NEW more, more = Append(raw, b),
         NEW s, IsState(s), NEW n, NEW first, NEW k, NEW idx,
         Found(raw, s, n, first, k, idx), k < n, AtBody(raw, s, idx)
  PROVE  Placed(more, Scan(s, b))
  <1>1. s.at = "body" /\ idx <= Len(raw) /\ raw[idx] = "$" /\ s.want \in Nat
    BY DEF AtBody
  <1>2. PICK from \in 1 .. Len(raw) + 1 :
           /\ NumberLine(raw, idx + 1) = [status |-> "ok", n |-> s.want, idx |-> from]
           /\ s.text = SubSeq(raw, from, Len(raw)) /\ Len(raw) - from + 1 < s.want + 2
    BY DEF AtBody
  <1> DEFINE text == Append(s.text, b)
             p == At("ok", idx, s.parts)
             line == [status |-> "ok", n |-> s.want, idx |-> from]
             end == from + s.want
  <1>3. /\ more \in Seq(Bytes) /\ Len(raw) \in Nat /\ Len(more) = Len(raw) + 1
        /\ more # <<>> /\ Grown(raw, more) /\ from \in 1 .. Len(more) + 1
    <2>1. /\ more \in Seq(Bytes) /\ Len(raw) \in Nat /\ Len(more) = Len(raw) + 1
          /\ more # <<>> /\ Grown(raw, more)
      BY ByteMore
    <2> QED BY <1>2, <2>1
  <1>4. idx \in 1 .. Len(raw) /\ idx + 1 \in Nat \ {0} /\ more[idx] = "$" /\ idx <= Len(more)
    <2>1. idx \in 1 .. Len(raw) + 1
      BY FoundType
    <2>2. idx \in 1 .. Len(raw)
      BY <1>1, <1>3, <2>1
    <2> QED BY <1>1, <1>3, <2>2 DEF Grown
  <1>5. text = SubSeq(more, from, Len(more)) /\ text \in Seq(Bytes) /\ Len(text) = Len(raw) - from + 2
    <2>1. text = Append(SubSeq(raw, from, Len(raw)), b)
      BY <1>2
    <2> HIDE DEF text
    <2> QED BY <2>1, TextMore
  <1>6. p.status = "ok" /\ p.idx = idx /\ p.parts = s.parts /\ ~(p.idx > Len(more))
    BY <1>3, <1>4 DEF At
  <1>7. NumberLine(more, idx + 1) = line
    <2>1. NumberLine(raw, idx + 1).status # "short"
      BY <1>2
    <2> QED BY <1>2, <1>3, <1>4, <2>1, NumberLineGrown
  <1>8. line.status = "ok" /\ line.n = s.want /\ line.idx = from
    OBVIOUS
  <1> HIDE DEF text, p, line
  <1>9. Found(more, s, n, first, k, idx)
    BY <1>3, FoundGrown
  <1>10. CASE Len(text) < s.want + 2
    <2> DEFINE t == [s EXCEPT !.text = text]
    <2>1. Scan(s, b) = t
      BY <1>1, <1>10 DEF Scan, text
    <2>2. /\ IsState(t) /\ t.at = "body" /\ t.parts = s.parts /\ t.text = text
          /\ t.left = s.left /\ t.want = s.want
      BY <1>1 DEF IsState
    <2> HIDE DEF t
    <2>3. Found(more, t, n, first, k, idx)
      BY <1>3, <2>2, FoundGrown
    <2>4. AtBody(more, t, idx)
      <3>1. Len(more) - from + 1 < s.want + 2
        BY <1>3, <1>5, <1>10
      <3>2. NumberLine(more, idx + 1) = [status |-> "ok", n |-> t.want, idx |-> from]
        BY <1>7, <2>2 DEF line
      <3>3. t.text = SubSeq(more, from, Len(more))
        BY <1>5, <2>2
      <3> QED BY <1>1, <1>3, <1>4, <2>2, <3>1, <3>2, <3>3 DEF AtBody
    <2> QED BY <2>1, <2>2, <2>3, <2>4 DEF Placed, AtBulk
  <1>11. CASE ~(Len(text) < s.want + 2)
    <2> DEFINE body == SubSeq(text, 1, s.want)
               tail == SubSeq(text, s.want + 1, s.want + 2)
    <2>0. EndsAt(Len(more), from, s.want, end)
      <3>1. /\ Len(more) \in Nat /\ from \in 1 .. Len(more)
            /\ Len(more) - from < s.want + 2 /\ ~(Len(more) - from + 1 < s.want + 2)
        BY <1>1, <1>2, <1>3, <1>5, <1>11
      <3>2. s.want \in Nat
        BY <1>1
      <3> QED BY <3>1, <3>2, WholeBody
    <2>1. /\ end \in Nat \ {0} /\ end + 1 = Len(more) /\ end - 1 <= Len(more)
          /\ end - 1 \in Int /\ end + 1 \in Int
          /\ s.want \in Int /\ s.want + 1 \in Nat \ {0} /\ s.want + 2 \in Int
          /\ from + s.want - 1 <= Len(more) /\ from + (s.want + 2) - 1 <= Len(more)
          /\ from + 1 - 1 = from /\ from + s.want - 1 = end - 1
          /\ from + (s.want + 1) - 1 = end /\ from + (s.want + 2) - 1 = end + 1
          /\ end + 2 = Len(more) + 1 /\ end + 1 <= Len(more)
      <3> HIDE DEF end, body, tail
      <3> QED BY <2>0, Zenon DEF EndsAt
    <2>2. Scan(s, b) = BulkOver(s, text)
      BY <1>1, <1>11 DEF Scan, text
    <2>3. body = Slice(more, from, end - 1)
      <3>1. SubSeq(SubSeq(more, from, Len(more)), 1, s.want)
              = SubSeq(more, from + 1 - 1, from + s.want - 1)
        <4>1. 1 \in Nat \ {0}
          OBVIOUS
        <4> HIDE DEF end
        <4> QED BY <1>3, <2>1, <4>1, PieceOfPiece, ZenonT(30)
      <3>2. Min({end - 1, Len(more)}) = end - 1
        <4> HIDE DEF end, body, tail
        <4>1. Len(more) \in Int
          BY <1>3
        <4> QED BY <2>1, <4>1, MinOfTwo
      <3>3. body = SubSeq(more, from, end - 1)
        BY <1>5, <2>1, <3>1, Zenon
      <3> HIDE DEF body
      <3> QED BY <3>2, <3>3, Zenon DEF Slice
    <2>4. tail = Slice(more, end, end + 1)
      <3>1. SubSeq(SubSeq(more, from, Len(more)), s.want + 1, s.want + 2)
              = SubSeq(more, from + (s.want + 1) - 1, from + (s.want + 2) - 1)
        <4> HIDE DEF end
        <4> QED BY <1>3, <2>1, PieceOfPiece
      <3>2. Min({end + 1, Len(more)}) = end + 1
        BY <1>3, <2>1, MinOfTwo
      <3>3. tail = SubSeq(more, end, end + 1)
        BY <1>5, <2>1, <3>1, Zenon
      <3> HIDE DEF tail
      <3> QED BY <3>2, <3>3, Zenon DEF Slice
    <2>5. Part(more, p) = Bulk(more, p, line)
      <3>1. ~(s.want < 0)
        BY <1>1
      <3> QED BY <1>4, <1>6, <1>7, <1>8, <3>1 DEF Part
    <2>6. BodyEnd(more, line) = end /\ Arrived(more, end)
      BY <1>3, <1>8, <2>1 DEF BodyEnd, Arrived
    <2>7. Part(more, p) = IF tail # CRLF \/ "ff" \in ToSet(body) THEN At("bad", idx, <<>>)
                          ELSE At("ok", end + 2, Append(s.parts, body))
      <3> HIDE DEF body, tail, end
      <3> QED BY <1>6, <1>8, <2>3, <2>4, <2>5, <2>6 DEF Bulk
    <2>8. BulkOver(s, text) =
             IF tail # CRLF \/ "ff" \in ToSet(body) THEN Fail
             ELSE [s EXCEPT !.at = IF s.left = 1 THEN "done" ELSE "dollar", !.text = <<>>,
                            !.left = s.left - 1, !.parts = Append(s.parts, body)]
      BY DEF BulkOver
    <2> HIDE DEF body, tail, end
    <2>9. CASE tail # CRLF \/ "ff" \in ToSet(body)
      <3>1. Part(more, p).status = "bad"
        BY <2>7, <2>9 DEF At
      <3>2. Parse(more).status = "bad"
        BY <1>3, <1>9, <3>1, RefusedAt DEF p
      <3> QED BY <2>2, <2>8, <2>9, <3>2, FailPlaced
    <2>10. CASE ~(tail # CRLF \/ "ff" \in ToSet(body))
      <3> DEFINE t == [s EXCEPT !.at = IF s.left = 1 THEN "done" ELSE "dollar", !.text = <<>>,
                                !.left = s.left - 1, !.parts = Append(s.parts, body)]
      <3>1. Scan(s, b) = t
        BY <2>2, <2>8, <2>10
      <3>2. /\ IsState(t) /\ t.at = IF s.left = 1 THEN "done" ELSE "dollar"
            /\ t.text = <<>> /\ t.left = s.left - 1 /\ t.parts = Append(s.parts, body)
        BY DEF IsState
      <3> HIDE DEF t
      <3>3. /\ n \in Nat \ {0} /\ k \in Nat /\ k + 1 \in 0 .. n /\ s.left = n - k
            /\ n - (k + 1) = s.left - 1 /\ (s.left = 1 <=> k + 1 = n) /\ (s.left # 1 => k + 1 < n)
        BY <1>9 DEF Found
      <3>4. Parts(more, first, k + 1) = At("ok", end + 2, t.parts)
        <4>1. Parts(more, first, k) = p
          BY <1>9 DEF Found, p
        <4> QED BY <2>7, <2>10, <3>2, <3>3, <4>1, PartsNext
      <3>5. Found(more, t, n, first, k + 1, end + 2)
        BY <1>9, <3>2, <3>3, <3>4 DEF Found
      <3>6. CASE s.left = 1
        <4>1. Found(more, t, n, first, n, end + 2)
          BY <3>3, <3>5, <3>6
        <4> QED BY <3>1, <3>2, <3>6, <4>1 DEF Placed, AtDone
      <3>7. CASE s.left # 1
        <4>1. end + 2 = Len(more) + 1
          BY <2>1
        <4>2. AtDollar(more, t, end + 2)
          BY <3>2, <3>7, <4>1 DEF AtDollar
        <4> QED BY <3>1, <3>2, <3>3, <3>5, <3>7, <4>2 DEF Placed, AtBulk
      <3> QED BY <3>6, <3>7
    <2> QED BY <2>9, <2>10
  <1> QED BY <1>10, <1>11


LEMMA ScanStep ==
  ASSUME NEW raw \in Seq(Bytes), NEW b \in Bytes, NEW more, more = Append(raw, b),
         NEW s, Placed(raw, s)
  PROVE  Placed(more, Scan(s, b))
  <1>1. IsState(s)
    BY DEF Placed
  <1>2. more \in Seq(Bytes) /\ more # <<>> /\ Grown(raw, more)
    BY ByteMore
  <1>3. CASE AtType(raw, s)
    BY <1>3, ScanType
  <1>4. CASE AtCount(raw, s)
    BY <1>1, <1>4, ScanCount
  <1>5. CASE AtBulk(raw, s)
    <2>1. PICK n, first, k, idx :
             /\ Found(raw, s, n, first, k, idx) /\ k < n
             /\ AtDollar(raw, s, idx) \/ AtLength(raw, s, idx) \/ AtBody(raw, s, idx)
      BY <1>5 DEF AtBulk
    <2>2. CASE AtDollar(raw, s, idx)
      BY <1>1, <2>1, <2>2, ScanDollar
    <2>3. CASE AtLength(raw, s, idx)
      BY <1>1, <2>1, <2>3, ScanLength
    <2>4. CASE AtBody(raw, s, idx)
      BY <1>1, <2>1, <2>4, ScanBody
    <2> QED BY <2>1, <2>2, <2>3, <2>4
  <1>6. CASE AtDone(raw, s)
    <2>1. PICK n, first, idx : Found(raw, s, n, first, n, idx)
      BY <1>6 DEF AtDone
    <2>2. Found(more, s, n, first, n, idx)
      BY <1>2, <2>1, FoundGrown
    <2>3. s.at = "done" /\ Scan(s, b) = s
      BY <1>6 DEF AtDone, Scan
    <2>4. AtDone(more, s)
      BY <2>2, <2>3 DEF AtDone
    <2> QED BY <1>1, <2>3, <2>4 DEF Placed
  <1>7. CASE AtBad(raw, s)
    <2>1. Parse(more).status = "bad"
      BY <1>2, <1>7, ParseGrown DEF AtBad
    <2>2. s.at = "bad" /\ Scan(s, b) = s
      BY <1>7 DEF AtBad, Scan
    <2> QED BY <1>1, <2>1, <2>2 DEF Placed, AtBad
  <1> QED BY <1>3, <1>4, <1>5, <1>6, <1>7 DEF Placed

LEMMA ScanPlaced ==
  ASSUME NEW raw \in Seq(Bytes)
  PROVE  Placed(raw, Scanned(raw))
  <1> DEFINE upTo(i) == SubSeq(raw, 1, i)
             N == Len(raw)
  <1>1. PICK g : Scans(g, raw) /\ Scanned(raw) = g[N]
    BY ScannedDef
  <1> DEFINE T == {i \in 0 .. N : Placed(upTo(i), g[i])}
  <1>2. N \in Nat
    OBVIOUS
  <1>3. 0 \in T
    <2>1. upTo(0) = <<>> /\ 0 \in 0 .. N
      BY <1>2, SubSeqEmpty
    <2>2. g[0] = Start
      BY <1>1 DEF Scans
    <2>3. IsState(Start) /\ Start.at = "type"
      BY DEF IsState, Start
    <2> HIDE DEF upTo
    <2> QED BY <2>1, <2>2, <2>3 DEF Placed, AtType
  <1>4. \A i \in 0 .. N - 1 : i \in T => i + 1 \in T
    <2> SUFFICES ASSUME NEW i \in 0 .. N - 1, Placed(upTo(i), g[i])
                 PROVE  i + 1 \in 0 .. N /\ Placed(upTo(i + 1), g[i + 1])
      OBVIOUS
    <2>1. i + 1 \in 1 .. N /\ i + 1 \in 0 .. N /\ (i + 1) - 1 = i /\ i \in Int /\ i <= N
      BY <1>2
    <2>2. g[i + 1] = Scan(g[i], raw[i + 1]) /\ raw[i + 1] \in Bytes
      BY <1>1, <2>1 DEF Scans
    <2>3. upTo(i + 1) = Append(upTo(i), raw[i + 1])
      BY AppendNext
    <2>4. upTo(i) \in Seq(Bytes)
      BY <1>2, <2>1, Piece
    <2> HIDE DEF upTo, N
    <2>5. Placed(upTo(i + 1), Scan(g[i], raw[i + 1]))
      BY <2>2, <2>3, <2>4, ScanStep
    <2> QED BY <2>1, <2>2, <2>5
  <1>5. Placed(upTo(N), g[N])
    <2> HIDE DEF T, N
    <2>1. N \in 0 .. N
      BY <1>2
    <2>2. \A i \in 0 .. N : i \in T
      BY <1>2, <1>3, <1>4, Induction
    <2>3. N \in T
      BY <2>1, <2>2
    <2> QED BY <2>3 DEF T
  <1>6. upTo(N) = raw
    BY SubSeqFull
  <1> HIDE DEF upTo
  <1> QED BY <1>1, <1>5, <1>6

\* Whatever bytes are in the buffer, parse_one on the whole of it waits, refuses or
\* finds a command exactly as a parser does that reads them once.
THEOREM ParsedAsScanned == Spec => []ParsesLikeAScan
  <1>1. StreamInv => ParsesLikeAScan
    <2> SUFFICES ASSUME StreamInv PROVE ParsesLikeAScan
      OBVIOUS
    <2> DEFINE s == Scanned(buffer)
    <2>1. buffer \in Seq(Bytes) /\ parsed = Parse(buffer)
      BY DEF StreamInv
    <2>2. Placed(buffer, s)
      BY <2>1, ScanPlaced
    <2> HIDE DEF s
    <2>3. /\ s.at \in {"type", "count", "dollar", "length", "body"} => parsed.status = "short"
          /\ s.at = "bad" => parsed.status = "bad"
          /\ s.at = "done" => parsed.status = "ok" /\ parsed.parts = s.parts
          /\ s.at \in {"type", "count", "dollar", "length", "body", "bad", "done"}
      BY <2>1, <2>2, PlacedAgrees
    <2> QED BY <2>3 DEF ParsesLikeAScan, s
  <1> QED BY <1>1, AlwaysStream, PTL

-----------------------------------------------------------------------------
(* Prefixes, and sequences laid end to end *)

LEMMA Associative == \A s, t, u \in Seq(Bytes) : (s \o t) \o u = s \o (t \o u)
  BY ConcatAssociative

LEMMA PrefixIs ==
  ASSUME NEW S, NEW s \in Seq(S), NEW t \in Seq(S)
  PROVE  IsPrefix(s, t) <=> Len(s) <= Len(t) /\ \A i \in 1 .. Len(s) : s[i] = t[i]
  <1> DEFINE p == SubSeq(t, 1, Len(s))
  <1>1. Len(s) \in Nat /\ Len(t) \in Nat /\ SubSeq(s, 1, Len(s)) = s
    BY SubSeqFull
  <1>2. CASE Len(s) <= Len(t)
    <2>1. \A i \in 1 .. Len(s) : i \in 1 .. Len(t) /\ t[i] \in S
      BY <1>1, <1>2
    <2>2. /\ p \in Seq(S) /\ Len(p) = IF 1 <= Len(s) THEN Len(s) - 1 + 1 ELSE 0
          /\ \A i \in 1 .. Len(s) - 1 + 1 : p[i] = t[1 + i - 1]
      <3>1. 1 \in Int /\ Len(s) \in Int
        BY <1>1
      <3> QED BY <2>1, <3>1, SubSeqProperties
    <2> HIDE DEF p
    <2>3. Len(p) = Len(s) /\ \A i \in 1 .. Len(s) : p[i] = t[i]
      BY <1>1, <2>2
    <2>4. (\A i \in 1 .. Len(s) : s[i] = t[i]) => s = p
      BY <2>2, <2>3, SeqEqual
    <2>5. IsPrefix(s, t) <=> s = p
      BY <1>1, <1>2 DEF IsPrefix, p
    <2> QED BY <1>2, <2>3, <2>4, <2>5
  <1>3. CASE ~(Len(s) <= Len(t))
    BY <1>3 DEF IsPrefix
  <1> QED BY <1>2, <1>3

LEMMA PrefixOfItself ==
  ASSUME NEW S, NEW s \in Seq(S)
  PROVE  IsPrefix(s, s)
  <1>1. Len(s) <= Len(s)
    OBVIOUS
  <1> QED BY <1>1, PrefixIs

LEMMA PrefixOfPrefix ==
  ASSUME NEW S, NEW s \in Seq(S), NEW t \in Seq(S), NEW u \in Seq(S), IsPrefix(s, t), IsPrefix(t, u)
  PROVE  IsPrefix(s, u)
  <1>1. /\ Len(s) <= Len(t) /\ \A i \in 1 .. Len(s) : s[i] = t[i]
        /\ Len(t) <= Len(u) /\ \A i \in 1 .. Len(t) : t[i] = u[i]
    BY PrefixIs
  <1>2. Len(s) \in Nat /\ Len(t) \in Nat /\ Len(u) \in Nat
    OBVIOUS
  <1>3. Len(s) <= Len(u) /\ \A i \in 1 .. Len(s) : i \in 1 .. Len(t)
    BY <1>1, <1>2
  <1> QED BY <1>1, <1>3, PrefixIs

\* g has the first words of ws end to end.
Joined(g, ws) ==
  /\ g \in [1 .. Len(ws) -> Seq(Bytes)] /\ g[1] = ws[1]
  /\ \A i \in 2 .. Len(ws) : g[i] = g[i - 1] \o ws[i]

LEMMA FlattenDef ==
  ASSUME NEW ws \in Seq(Seq(Bytes)), ws # <<>>
  PROVE  \E g : Joined(g, ws) /\ FlattenSeq(ws) = g[Len(ws)]
  <1> DEFINE n == Len(ws)
             flatten[i \in 1 .. n] == IF i = 1 THEN ws[i] ELSE flatten[i - 1] \o ws[i]
             step == [i \in 1 .. n - 1 |-> [x \in Seq(Bytes) |-> x \o ws[i + 1]]]
  <1>1. n \in Nat /\ n # 0 /\ n - 1 \in Nat /\ ws[1] \in Seq(Bytes)
        /\ \A i \in 1 .. n : ws[i] \in Seq(Bytes)
    OBVIOUS
  <1>2. FlattenSeq(ws) = flatten[n]
    BY <1>1 DEF FlattenSeq
  <1> HIDE DEF n
  <1>3. step \in [1 .. n - 1 -> [Seq(Bytes) -> Seq(Bytes)]]
    <2> SUFFICES ASSUME NEW i \in 1 .. n - 1, NEW x \in Seq(Bytes) PROVE x \o ws[i + 1] \in Seq(Bytes)
      OBVIOUS
    <2>1. ws[i + 1] \in Seq(Bytes)
      <3>1. i + 1 \in 1 .. n
        BY <1>1
      <3> QED BY <1>1, <3>1
    <2> QED BY <2>1, ConcatLen
  <1>4. PICK f : Steps(f, n - 1, Seq(Bytes), ws[1], step)
    <2> HIDE DEF step
    <2> QED BY <1>1, <1>3, Recursion
  <1> DEFINE g == [i \in 1 .. n |-> f[i - 1]]
  <1>5. g \in [1 .. n -> Seq(Bytes)]
    <2>1. \A i \in 1 .. n : i - 1 \in 0 .. n - 1
      BY <1>1
    <2> QED BY <1>4, <2>1 DEF Steps
  <1>6. g[1] = ws[1]
    BY <1>1, <1>4 DEF Steps
  <1>7. ASSUME NEW i \in 2 .. n PROVE g[i] = g[i - 1] \o ws[i]
    <2>1. i - 1 \in 1 .. n - 1 /\ i - 1 \in 1 .. n /\ i \in 1 .. n /\ (i - 1) + 1 = i
          /\ (i - 1) - 1 \in 0 .. n - 1
      BY <1>1
    <2>2. f[i - 1] = step[i - 1][f[(i - 1) - 1]] /\ f[(i - 1) - 1] \in Seq(Bytes)
      BY <1>4, <2>1 DEF Steps
    <2>3. f[i - 1] = f[(i - 1) - 1] \o ws[i]
      BY <2>1, <2>2
    <2> QED BY <2>1, <2>3
  <1> HIDE DEF g, step
  <1>8. g = [i \in 1 .. n |-> IF i = 1 THEN ws[i] ELSE g[i - 1] \o ws[i]]
    <2>1. \A i \in 1 .. n : i = 1 \/ i \in 2 .. n
      BY <1>1
    <2>2. \A i \in 1 .. n : g[i] = IF i = 1 THEN ws[i] ELSE g[i - 1] \o ws[i]
      BY <1>6, <1>7, <2>1
    <2>3. g = [i \in 1 .. n |-> g[i]]
      BY <1>5
    <2> QED BY <2>2, <2>3
  <1>9. flatten = [i \in 1 .. n |-> IF i = 1 THEN ws[i] ELSE flatten[i - 1] \o ws[i]]
    BY <1>8, Zenon
  <1> HIDE DEF flatten
  <1>10. flatten[1] = ws[1] /\ \A i \in 2 .. n : flatten[i] = flatten[i - 1] \o ws[i]
    <2>1. 1 \in 1 .. n /\ \A i \in 2 .. n : i \in 1 .. n /\ i # 1
      BY <1>1
    <2> QED BY <1>9, <2>1
  <1> DEFINE T == {i \in 0 .. n - 1 : flatten[i + 1] \in Seq(Bytes)}
  <1>11. 0 \in T
    BY <1>1, <1>10
  <1>12. \A i \in 0 .. (n - 1) - 1 : i \in T => i + 1 \in T
    <2> SUFFICES ASSUME NEW i \in 0 .. (n - 1) - 1, flatten[i + 1] \in Seq(Bytes)
                 PROVE  i + 1 \in 0 .. n - 1 /\ flatten[(i + 1) + 1] \in Seq(Bytes)
      OBVIOUS
    <2>1. (i + 1) + 1 \in 2 .. n /\ ((i + 1) + 1) - 1 = i + 1 /\ i + 1 \in 0 .. n - 1
          /\ (i + 1) + 1 \in 1 .. n
      BY <1>1
    <2>2. flatten[(i + 1) + 1] = flatten[i + 1] \o ws[(i + 1) + 1]
      BY <1>10, <2>1
    <2>3. ws[(i + 1) + 1] \in Seq(Bytes)
      BY <1>1, <2>1
    <2> QED BY <2>1, <2>2, <2>3, ConcatLen
  <1>13. \A i \in 1 .. n : flatten[i] \in Seq(Bytes)
    <2> SUFFICES ASSUME NEW i \in 1 .. n PROVE flatten[i] \in Seq(Bytes)
      OBVIOUS
    <2>1. i - 1 \in 0 .. n - 1 /\ (i - 1) + 1 = i
      BY <1>1
    <2> HIDE DEF T
    <2>2. \A j \in 0 .. n - 1 : j \in T
      BY <1>1, <1>11, <1>12, Induction
    <2>3. i - 1 \in T
      BY <2>1, <2>2
    <2> QED BY <2>1, <2>3 DEF T
  <1>14. flatten \in [1 .. n -> Seq(Bytes)]
    BY <1>9, <1>13
  <1>15. Joined(flatten, ws)
    BY <1>10, <1>14 DEF Joined, n
  <1> QED BY <1>2, <1>15 DEF n

LEMMA FlattenAppend ==
  ASSUME NEW ws \in Seq(Seq(Bytes)), NEW w \in Seq(Bytes)
  PROVE  FlattenSeq(Append(ws, w)) = FlattenSeq(ws) \o w
  <1> DEFINE n == Len(ws)
             us == Append(ws, w)
  <1>1. n \in Nat /\ us \in Seq(Seq(Bytes)) /\ us # <<>> /\ Len(us) = n + 1 /\ us[n + 1] = w
        /\ \A i \in 1 .. n : us[i] = ws[i]
    BY AppendProperties
  <1> HIDE DEF us
  <1>2. PICK h : Joined(h, us) /\ FlattenSeq(us) = h[n + 1]
    BY <1>1, FlattenDef
  <1>3. CASE ws = <<>>
    <2>1. n = 0 /\ FlattenSeq(ws) = <<>>
      BY <1>3 DEF FlattenSeq
    <2>2. h[n + 1] = w
      BY <1>1, <1>2, <2>1 DEF Joined
    <2>3. <<>> \o w = w
      BY ConcatEmptySeq
    <2> QED BY <1>2, <2>1, <2>2, <2>3 DEF us
  <1>4. CASE ws # <<>>
    <2>1. PICK g : Joined(g, ws) /\ FlattenSeq(ws) = g[n]
      BY <1>4, FlattenDef
    <2>2. n # 0
      BY <1>4
    <2> HIDE DEF n
    <2>3. /\ g[1] = ws[1] /\ \A i \in 2 .. n : g[i] = g[i - 1] \o ws[i]
          /\ h[1] = us[1] /\ \A i \in 2 .. n + 1 : h[i] = h[i - 1] \o us[i]
      BY <1>1, <1>2, <2>1 DEF Joined, n
    <2> DEFINE T == {i \in 0 .. n - 1 : g[i + 1] = h[i + 1]}
    <2>4. 0 \in T
      <3>1. 1 \in 1 .. n /\ 0 \in 0 .. n - 1 /\ 0 + 1 = 1
        BY <1>1, <2>2
      <3> QED BY <1>1, <2>3, <3>1
    <2>5. \A i \in 0 .. (n - 1) - 1 : i \in T => i + 1 \in T
      <3> SUFFICES ASSUME NEW i \in 0 .. (n - 1) - 1, g[i + 1] = h[i + 1]
                   PROVE  i + 1 \in 0 .. n - 1 /\ g[(i + 1) + 1] = h[(i + 1) + 1]
        OBVIOUS
      <3>1. /\ i + 1 \in 0 .. n - 1 /\ (i + 1) + 1 \in 2 .. n /\ (i + 1) + 1 \in 2 .. n + 1
            /\ (i + 1) + 1 \in 1 .. n /\ ((i + 1) + 1) - 1 = i + 1
        BY <1>1, <2>2
      <3>2. us[(i + 1) + 1] = ws[(i + 1) + 1]
        BY <1>1, <3>1
      <3> QED BY <2>3, <3>1, <3>2
    <2>6. g[n] = h[n]
      <3>1. n - 1 \in Nat /\ n - 1 \in 0 .. n - 1 /\ (n - 1) + 1 = n
        BY <1>1, <2>2
      <3> HIDE DEF T
      <3>2. \A j \in 0 .. n - 1 : j \in T
        BY <2>4, <2>5, <3>1, Induction
      <3>3. n - 1 \in T
        BY <3>1, <3>2
      <3> QED BY <3>1, <3>3 DEF T
    <2>7. h[n + 1] = h[n] \o us[n + 1]
      <3>1. n + 1 \in 2 .. n + 1 /\ (n + 1) - 1 = n
        BY <1>1, <2>2
      <3> QED BY <2>3, <3>1
    <2> QED BY <1>1, <1>2, <2>1, <2>6, <2>7 DEF us
  <1> QED BY <1>3, <1>4

LEMMA FlattenType ==
  ASSUME NEW ws \in Seq(Seq(Bytes))
  PROVE  FlattenSeq(ws) \in Seq(Bytes) /\ FlattenSeq(<<>>) = <<>>
  <1>1. FlattenSeq(<<>>) = <<>>
    BY DEF FlattenSeq
  <1>2. <<>> \in Seq(Bytes)
    OBVIOUS
  <1>3. CASE ws # <<>>
    <2>1. PICK g : Joined(g, ws) /\ FlattenSeq(ws) = g[Len(ws)]
      BY <1>3, FlattenDef
    <2>2. Len(ws) \in 1 .. Len(ws)
      BY <1>3
    <2> QED BY <1>1, <2>1, <2>2 DEF Joined
  <1> QED BY <1>1, <1>2, <1>3

-----------------------------------------------------------------------------
(* dispatch: the map and the replies *)

IsMap(d) == d \in [DOMAIN d -> Seq(Bytes)]

LEMMA ArityIs ==
  /\ DOMAIN Arity = {PING, SET, GET, DEL, EXISTS}
  /\ Arity[PING] = 0 /\ Arity[SET] = 2 /\ Arity[GET] = 1 /\ Arity[DEL] = 1 /\ Arity[EXISTS] = 1
  <1>1. /\ PING # SET /\ PING # GET /\ PING # DEL /\ PING # EXISTS /\ SET # GET /\ SET # DEL
        /\ SET # EXISTS /\ GET # DEL /\ GET # EXISTS /\ DEL # EXISTS
    BY DEF PING, SET, GET, DEL, EXISTS
  <1> QED BY <1>1 DEF Arity

LEMMA AfterType ==
  ASSUME NEW d, IsMap(d), NEW cmd \in Commands
  PROVE  IsMap(After(d, cmd))
  <1>1. cmd \in Seq(Seq(Bytes \ {"ff"}))
    BY CommandTypes
  <1>2. CASE Accepted(cmd) /\ NormalizedName(cmd) = SET
    <2>1. Len(cmd) = 3
      <3>1. Len(cmd) = Arity[SET] + 1
        BY <1>2 DEF Accepted
      <3> QED BY <3>1, ArityIs
    <2>2. cmd[3] \in Seq(Bytes)
      <3>1. 3 \in 1 .. Len(cmd)
        BY <2>1
      <3>2. cmd[3] \in Seq(Bytes \ {"ff"})
        BY <1>1, <3>1
      <3> QED BY <3>2, SeqMonotonic
    <2>3. After(d, cmd) = Stored(d, cmd[2], cmd[3])
      BY <1>2 DEF After, SET, DEL
    <2> QED BY <2>2, <2>3 DEF IsMap, Stored
  <1>3. CASE Accepted(cmd) /\ NormalizedName(cmd) = DEL
    <2>1. SET # DEL
      BY DEF SET, DEL
    <2>2. After(d, cmd) = [x \in DOMAIN d \ {cmd[2]} |-> d[x]]
      BY <1>3, <2>1 DEF After, Restrict
    <2> QED BY <2>2 DEF IsMap
  <1>4. CASE ~(Accepted(cmd) /\ NormalizedName(cmd) \in {SET, DEL})
    <2>1. After(d, cmd) = d
      BY <1>4 DEF After
    <2> QED BY <2>1
  <1> QED BY <1>2, <1>3, <1>4

\* The map after the first n of the commands s.
Made(s, n) ==
  LET after[i \in 0 .. n] == IF i = 0 THEN Before ELSE After(after[i - 1], s[i])
  IN  after[n]

\* g has the maps, command by command.
Making(g, s, n) ==
  /\ g[0] = Before
  /\ \A i \in 1 .. n : g[i] = After(g[i - 1], s[i])

LEMMA MadeDef ==
  ASSUME NEW s, NEW n \in Nat
  PROVE  \E g : Making(g, s, n) /\ Made(s, n) = g[n]
  <1> DEFINE after[i \in 0 .. n] == IF i = 0 THEN Before ELSE After(after[i - 1], s[i])
             Is(g, m) == g = [i \in 0 .. m |-> IF i = 0 THEN Before ELSE After(g[i - 1], s[i])]
             T == {m \in 0 .. n : \E g : Is(g, m)}
  <1>1. 0 \in T
    <2> DEFINE g == [i \in 0 .. 0 |-> Before]
    <2>1. Is(g, 0)
      OBVIOUS
    <2>2. 0 \in 0 .. n
      OBVIOUS
    <2> HIDE DEF Is, g
    <2> QED BY <2>1, <2>2
  <1>2. ASSUME NEW m \in 0 .. n - 1, m \in T PROVE m + 1 \in T
    <2>1. PICK g : Is(g, m)
      BY <1>2
    <2> DEFINE h == [i \in 0 .. m + 1 |-> IF i = m + 1 THEN After(g[m], s[m + 1]) ELSE g[i]]
    <2>2. ASSUME NEW i \in 0 .. m + 1
          PROVE  h[i] = IF i = 0 THEN Before ELSE After(h[i - 1], s[i])
      <3>1. CASE i = m + 1
        <4>1. h[i] = After(g[m], s[i]) /\ h[i - 1] = g[m] /\ i # 0
          BY <3>1
        <4> QED BY <4>1
      <3>2. CASE i \in 1 .. m
        <4>1. h[i] = g[i] /\ h[i - 1] = g[i - 1]
          BY <3>2
        <4>2. g[i] = After(g[i - 1], s[i])
          BY <2>1, <3>2
        <4> QED BY <3>2, <4>1, <4>2
      <3>3. CASE i = 0
        BY <2>1, <3>3
      <3> QED BY <3>1, <3>2, <3>3
    <2>3. Is(h, m + 1)
      <3>1. h = [i \in 0 .. m + 1 |-> h[i]]
        OBVIOUS
      <3> HIDE DEF h
      <3> QED BY <2>2, <3>1
    <2>4. m + 1 \in 0 .. n
      OBVIOUS
    <2> HIDE DEF Is, h
    <2> QED BY <2>3, <2>4
  <1>3. \A m \in 0 .. n - 1 : m \in T => m + 1 \in T
    BY <1>2
  <1>4. n \in T
    <2> HIDE DEF T
    <2>1. \A m \in 0 .. n : m \in T
      BY <1>1, <1>3, Induction
    <2> QED BY <2>1
  <1>5. Is(after, n)
    <2>1. \E g : Is(g, n)
      BY <1>4
    <2> QED BY <2>1, Zenon
  <1>6. Made(s, n) = after[n]
    BY DEF Made
  <1> HIDE DEF after
  <1>7. Making(after, s, n)
    BY <1>5 DEF Making
  <1> QED BY <1>6, <1>7

\* The map depends on the first commands only.
LEMMA MadeAre ==
  ASSUME NEW s, NEW t, NEW n \in Nat, NEW g, Making(g, s, n), NEW m \in 0 .. n,
         \A i \in 1 .. m : t[i] = s[i]
  PROVE  Made(t, m) = g[m]
  <1>1. PICK h : Making(h, t, m) /\ Made(t, m) = h[m]
    BY MadeDef
  <1> DEFINE T == {i \in 0 .. m : g[i] = h[i]}
  <1>2. 0 \in T
    BY <1>1 DEF Making
  <1>3. \A i \in 0 .. m - 1 : i \in T => i + 1 \in T
    <2> SUFFICES ASSUME NEW i \in 0 .. m - 1, g[i] = h[i] PROVE i + 1 \in 0 .. m /\ g[i + 1] = h[i + 1]
      OBVIOUS
    <2>1. i + 1 \in 1 .. m /\ i + 1 \in 1 .. n /\ (i + 1) - 1 = i
      OBVIOUS
    <2> QED BY <1>1, <2>1 DEF Making
  <1>4. m \in T
    <2> HIDE DEF T
    <2> QED BY <1>2, <1>3, Induction
  <1> QED BY <1>1, <1>4

LEMMA MadeNext ==
  ASSUME NEW s, NEW n \in Nat
  PROVE  Made(s, 0) = Before /\ Made(s, n + 1) = After(Made(s, n), s[n + 1])
  <1>1. PICK g : Making(g, s, n + 1)
    BY MadeDef
  <1>2. n + 1 \in 1 .. n + 1 /\ (n + 1) - 1 = n /\ 0 \in 0 .. n + 1 /\ n \in 0 .. n + 1 /\ n + 1 \in 0 .. n + 1
    OBVIOUS
  <1>3. g[0] = Before /\ g[n + 1] = After(g[n], s[n + 1])
    BY <1>1, <1>2 DEF Making
  <1>4. Made(s, 0) = g[0] /\ Made(s, n) = g[n] /\ Made(s, n + 1) = g[n + 1]
    BY <1>1, <1>2, MadeAre
  <1> QED BY <1>3, <1>4

LEMMA MadeSame ==
  ASSUME NEW s, NEW t, NEW n \in Nat, \A i \in 1 .. n : t[i] = s[i]
  PROVE  Made(t, n) = Made(s, n)
  <1>1. PICK g : Making(g, s, n) /\ Made(s, n) = g[n]
    BY MadeDef
  <1>2. ASSUME NEW m \in 0 .. n, \A i \in 1 .. m : t[i] = s[i] PROVE Made(t, m) = g[m]
    BY <1>1, <1>2, MadeAre
  <1>3. Made(t, n) = g[n]
    BY <1>2
  <1> QED BY <1>1, <1>3

LEMMA MadeType ==
  ASSUME NEW s \in Seq(Commands), NEW n \in 0 .. Len(s)
  PROVE  IsMap(Made(s, n))
  <1> DEFINE T == {i \in 0 .. n : IsMap(Made(s, i))}
  <1>1. 0 \in T
    <2>1. Made(s, 0) = Before
      BY MadeNext
    <2> QED BY <2>1, StreamAssumption DEF IsMap
  <1>2. \A i \in 0 .. n - 1 : i \in T => i + 1 \in T
    <2> SUFFICES ASSUME NEW i \in 0 .. n - 1, IsMap(Made(s, i))
                 PROVE  i + 1 \in 0 .. n /\ IsMap(Made(s, i + 1))
      OBVIOUS
    <2>1. i \in Nat /\ i + 1 \in 0 .. n /\ i + 1 \in 1 .. Len(s)
      OBVIOUS
    <2>2. s[i + 1] \in Commands
      BY <2>1
    <2> QED BY <2>1, <2>2, MadeNext, AfterType
  <1>3. n \in T
    <2> HIDE DEF T
    <2>1. n \in 0 .. n /\ n \in Nat
      OBVIOUS
    <2>2. \A i \in 0 .. n : i \in T
      BY <1>1, <1>2, <2>1, Induction
    <2> QED BY <2>1, <2>2
  <1> QED BY <1>3

IsReply(r) ==
  /\ r \in [type : {"simple", "error", "integer", "bulk", "null"}, value : Seq(Bytes)]
  /\ r.type = "integer" => r.value \in Seq(Digits)

LEMMA AnswerType ==
  ASSUME NEW d, IsMap(d), NEW cmd \in Commands
  PROVE  IsReply(Answer(d, cmd))
  <1> DEFINE r == Answer(d, cmd)
             name == NormalizedName(cmd)
  <1>1. ASSUME NEW text \in Seq(Bytes) PROVE IsReply(ErrorResponse(text))
    <2>1. <<"ERR">> \in Seq(Bytes)
      BY StreamAssumption
    <2>2. <<"ERR">> \o text \in Seq(Bytes)
      BY <2>1, ConcatLen
    <2> QED BY <2>2 DEF ErrorResponse, Response, IsReply
  <1>2. <<"arity">> \in Seq(Bytes) /\ cmd[1] \in Seq(Bytes)
    <2>1. cmd \in Seq(Seq(Bytes \ {"ff"})) /\ cmd # <<>>
      BY CommandTypes
    <2>2. cmd[1] \in Seq(Bytes \ {"ff"})
      BY <2>1
    <2>3. cmd[1] \in Seq(Bytes)
      BY <2>2, SeqMonotonic
    <2> QED BY <2>3, StreamAssumption
  <1>3. CASE name \notin DOMAIN Arity
    <2>1. r = ErrorResponse(cmd[1])
      BY <1>3 DEF Answer
    <2> QED BY <1>1, <1>2, <2>1
  <1>4. CASE name \in DOMAIN Arity /\ ~Accepted(cmd)
    <2>1. r = ErrorResponse(<<"arity">>)
      BY <1>4 DEF Answer
    <2> QED BY <1>1, <1>2, <2>1
  <1>5. CASE name \in DOMAIN Arity /\ Accepted(cmd)
    <2> HIDE DEF name
    <2>1. r = CASE name = PING   -> Response("simple", <<"PONG">>)
                [] name = SET    -> Response("simple", <<"OK">>)
                [] name = GET    -> BulkResponse(d, cmd[2])
                [] name \in {DEL, EXISTS} -> IntegerResponse(cmd[2] \in DOMAIN d)
      BY <1>5 DEF Answer, name
    <2>2. name \in {PING, SET, GET, DEL, EXISTS}
      BY <1>5, ArityIs
    <2>3. IsReply(Response("simple", <<"PONG">>)) /\ IsReply(Response("simple", <<"OK">>))
      BY StreamAssumption DEF Response, IsReply
    <2>4. IsReply(BulkResponse(d, cmd[2]))
      <3>1. cmd[2] \in DOMAIN d => d[cmd[2]] \in Seq(Bytes)
        BY DEF IsMap
      <3> QED BY <3>1 DEF BulkResponse, Response, IsReply
    <2>5. IsReply(IntegerResponse(cmd[2] \in DOMAIN d))
      <3>1. {"0", "1"} \subseteq Digits
        <4>1. DigitSymbols[0 + 1] \in Digits /\ DigitSymbols[1 + 1] \in Digits
          BY DigitTypes
        <4> QED BY <4>1 DEF DigitSymbols
      <3>2. {"0", "1"} \subseteq Bytes
        BY <3>1, StreamAssumption
      <3>3. <<"0">> \in Seq(Bytes) /\ <<"1">> \in Seq(Bytes) /\ <<"0">> \in Seq(Digits) /\ <<"1">> \in Seq(Digits)
        BY <3>1, <3>2
      <3> QED BY <3>3 DEF IntegerResponse, Response, IsReply
    <2>6. \/ r = Response("simple", <<"PONG">>) \/ r = Response("simple", <<"OK">>)
          \/ r = BulkResponse(d, cmd[2]) \/ r = IntegerResponse(cmd[2] \in DOMAIN d)
      <3>1. /\ PING # SET /\ PING # GET /\ PING # DEL /\ PING # EXISTS /\ SET # GET /\ SET # DEL
            /\ SET # EXISTS /\ GET # DEL /\ GET # EXISTS /\ DEL # EXISTS
        BY DEF PING, SET, GET, DEL, EXISTS
      <3> HIDE DEF r
      <3> QED BY <2>1, <2>2, <3>1
    <2> HIDE DEF r
    <2>7. IsReply(r)
      BY <2>3, <2>4, <2>5, <2>6
    <2> QED BY <2>7 DEF r
  <1> QED BY <1>3, <1>4, <1>5

-----------------------------------------------------------------------------
(* recv_resp on the bytes of a reply *)

\* A reply's first line, in its parts.
LEMMA LineBytes ==
  ASSUME NEW c \in Bytes, NEW t \in Seq(Bytes), NEW e, e = (<<c>> \o t) \o CRLF
  PROVE  /\ e \in Seq(Bytes) /\ Len(e) = Len(t) + 3
         /\ \A raw \in Seq(Bytes) :
               Fits(raw, 0, e) => (Len(raw) >= 1 => raw[1] = c) /\ Fits(raw, 1, t \o CRLF)
  <1>1. <<c>> \in Seq(Bytes) /\ Len(<<c>>) = 1 /\ Len(t) \in Nat
    OBVIOUS
  <1>2. <<c>> \o t \in Seq(Bytes) /\ Len(<<c>> \o t) = Len(t) + 1 /\ t \o CRLF \in Seq(Bytes)
    <2>1. Len(<<c>> \o t) = 1 + Len(t) /\ <<c>> \o t \in Seq(Bytes)
      BY <1>1, ConcatLen
    <2> QED BY <1>1, <2>1, ConcatLen, LineEnd
  <1>3. e \in Seq(Bytes) /\ Len(e) = Len(t) + 3
    <2> DEFINE u == <<c>> \o t
    <2>1. u \in Seq(Bytes) /\ Len(u) = Len(t) + 1 /\ e = u \o CRLF
      BY <1>2
    <2> HIDE DEF u
    <2>2. e \in Seq(Bytes) /\ Len(e) = Len(u) + Len(CRLF)
      BY <2>1, ConcatLen, LineEnd
    <2> QED BY <1>1, <2>1, <2>2, LineEnd
  <1>4. e = <<c>> \o (t \o CRLF)
    <2>1. (<<c>> \o t) \o CRLF = <<c>> \o (t \o CRLF)
      BY <1>1, LineEnd, Associative, Zenon
    <2> QED BY <2>1
  <1>5. ASSUME NEW raw \in Seq(Bytes), Fits(raw, 0, e)
        PROVE  (Len(raw) >= 1 => raw[1] = c) /\ Fits(raw, 1, t \o CRLF)
    <2>1. 0 \in Nat
      OBVIOUS
    <2>2. Fits(raw, 0, <<c>>) /\ Fits(raw, 0 + Len(<<c>>), t \o CRLF)
      BY <1>1, <1>2, <1>4, <1>5, <2>1, FitsConcat
    <2>3. 0 + Len(<<c>>) = 1
      BY <1>1
    <2>4. Fits(raw, 1, t \o CRLF)
      BY <2>2, <2>3
    <2>5. Len(raw) >= 1 => raw[1] = c
      <3>1. 1 \in 1 .. Len(<<c>>) /\ 0 + 1 = 1 /\ <<c>>[1] = c
        BY <1>1
      <3> QED BY <2>2, <3>1 DEF Fits
    <2> QED BY <2>4, <2>5
  <1> QED BY <1>3, <1>5

LEMMA NullText ==
  /\ <<"-", "1">> \in Seq(Bytes) /\ "$" \in Bytes
  /\ <<"$", "-", "1">> = <<"$">> \o <<"-", "1">>
  <1> DEFINE s == <<"$">>
             t == <<"-", "1">>
             u == <<"$", "-", "1">>
             w == s \o t
  <1>1. {"-", "$", "1"} \subseteq Bytes
    <2>1. DigitSymbols[1 + 1] \in Digits
      BY DigitTypes
    <2> QED BY <2>1, StreamAssumption DEF DigitSymbols
  <1>2. /\ s \in Seq(Bytes) /\ Len(s) = 1 /\ s[1] = "$"
        /\ t \in Seq(Bytes) /\ Len(t) = 2 /\ t[1] = "-" /\ t[2] = "1"
        /\ u \in Seq(Bytes) /\ Len(u) = 3 /\ u[1] = "$" /\ u[2] = "-" /\ u[3] = "1"
    BY <1>1
  <1> HIDE DEF s, t, u
  <1>3. /\ w \in Seq(Bytes) /\ Len(w) = Len(s) + Len(t)
        /\ \A i \in 1 .. Len(s) + Len(t) : w[i] = IF i <= Len(s) THEN s[i] ELSE t[i - Len(s)]
    BY <1>2, ConcatProperties
  <1> HIDE DEF w
  <1>4. Len(w) = 3 /\ w[1] = "$" /\ w[2] = "-" /\ w[3] = "1"
    BY <1>2, <1>3
  <1>5. \A i \in 1 .. 3 : i = 1 \/ i = 2 \/ i = 3
    OBVIOUS
  <1>6. \A i \in 1 .. 3 : u[i] = w[i]
    BY <1>2, <1>4, <1>5
  <1>7. u = w
    BY <1>2, <1>3, <1>4, <1>6, SeqEqual
  <1> QED BY <1>1, <1>2, <1>7 DEF s, t, u, w

\* What a reply is, as bytes.
LEMMA ReplyForms ==
  ASSUME NEW r, IsReply(r)
  PROVE  \/ /\ r.type \in {"simple", "error", "integer"} /\ r.value \in Seq(Bytes)
            /\ \E c \in {"+", "-", ":"} : c \in Bytes /\ EncodeResponse(r) = (<<c>> \o r.value) \o CRLF
         \/ r.type = "bulk" /\ r.value \in Seq(Bytes) /\ EncodeResponse(r) = EncodeBulk(r.value)
         \/ r.type = "null" /\ EncodeResponse(r) = (<<"$">> \o <<"-", "1">>) \o CRLF
  <1>1. r.type \in {"simple", "error", "integer", "bulk", "null"} /\ r.value \in Seq(Bytes)
    BY DEF IsReply
  <1>2. {"+", "-", ":"} \subseteq Bytes
    BY StreamAssumption
  <1>3. CASE r.type = "bulk"
    BY <1>1, <1>3 DEF EncodeResponse
  <1>4. CASE r.type = "null"
    <2>1. EncodeResponse(r) = <<"$", "-", "1">> \o CRLF
      BY <1>4 DEF EncodeResponse
    <2> QED BY <1>4, <2>1, NullText
  <1>5. CASE r.type = "simple"
    <2>1. EncodeResponse(r) = (<<"+">> \o r.value) \o CRLF
      BY <1>5 DEF EncodeResponse
    <2> QED BY <1>1, <1>2, <1>5, <2>1
  <1>6. CASE r.type = "error"
    <2>1. EncodeResponse(r) = (<<"-">> \o r.value) \o CRLF
      BY <1>6 DEF EncodeResponse
    <2> QED BY <1>1, <1>2, <1>6, <2>1
  <1>7. CASE r.type = "integer"
    <2>1. EncodeResponse(r) = (<<":">> \o r.value) \o CRLF
      BY <1>7 DEF EncodeResponse
    <2> QED BY <1>1, <1>2, <1>7, <2>1
  <1> QED BY <1>1, <1>3, <1>4, <1>5, <1>6, <1>7

LEMMA ReplyBytes ==
  ASSUME NEW r, IsReply(r)
  PROVE  EncodeResponse(r) \in Seq(Bytes) /\ Len(EncodeResponse(r)) \in Nat /\ Len(EncodeResponse(r)) > 0
  <1> DEFINE e == EncodeResponse(r)
  <1> HIDE DEF e
  <1>1. ASSUME NEW c \in Bytes, NEW t \in Seq(Bytes), e = (<<c>> \o t) \o CRLF
        PROVE  e \in Seq(Bytes) /\ Len(e) \in Nat /\ Len(e) > 0
    <2>1. e \in Seq(Bytes) /\ Len(e) = Len(t) + 3 /\ Len(t) \in Nat
      <3>1. c \in Bytes /\ t \in Seq(Bytes) /\ e = (<<c>> \o t) \o CRLF
        BY <1>1
      <3>2. e \in Seq(Bytes) /\ Len(e) = Len(t) + 3
        BY <3>1, LineBytes, Zenon
      <3> QED BY <3>2
    <2> QED BY <2>1
  <1>2. ASSUME NEW part \in Seq(Bytes), e = EncodeBulk(part)
        PROVE  e \in Seq(Bytes) /\ Len(e) \in Nat /\ Len(e) > 0
    <2>1. /\ e \in Seq(Bytes) /\ Len(Decimal[Len(part)]) \in Nat
          /\ Len(e) = Len(Decimal[Len(part)]) + Len(part) + 5
      BY <1>2, BulkBytes
    <2>2. Len(part) \in Nat
      OBVIOUS
    <2> QED BY <2>1, <2>2
  <1>3. \/ \E c \in Bytes : r.value \in Seq(Bytes) /\ e = (<<c>> \o r.value) \o CRLF
        \/ r.value \in Seq(Bytes) /\ e = EncodeBulk(r.value)
        \/ e = (<<"$">> \o <<"-", "1">>) \o CRLF
    BY ReplyForms DEF e
  <1>4. e \in Seq(Bytes) /\ Len(e) \in Nat /\ Len(e) > 0
    BY <1>1, <1>2, <1>3, NullText
  <1> QED BY <1>4 DEF e

\* What the reader makes of the first line of a reply.
LEMMA FirstLine ==
  ASSUME NEW c \in {"+", "-", ":", "$"}, NEW t \in Seq(Bytes \ {"cr"}),
         NEW raw \in Seq(Bytes), raw # <<>>, raw[1] = c, Fits(raw, 1, t \o CRLF)
  PROVE  Wanted(raw) = IF ~(Len(raw) >= Len(t) + 3) THEN 1
                       ELSE IF c # "$" THEN 0
                       ELSE Len(t) + 3 + BodyWanted(Number(t)) - Len(raw)
  <1>1. t \in Seq(Bytes) /\ Len(t) \in Nat /\ Len(raw) \in Nat
    <2>1. t \in Seq(Bytes)
      BY SeqMonotonic
    <2> QED BY <2>1
  <1>2. Find(raw, 2) = IF Len(raw) >= Len(t) + 3 THEN Len(t) + 2 ELSE 0
    <2>1. 1 \in Nat /\ 1 + 1 = 2 /\ 1 + Len(t) + 2 = Len(t) + 3 /\ 1 + Len(t) + 1 = Len(t) + 2
      BY <1>1
    <2>2. Find(raw, 1 + 1) = IF Len(raw) >= 1 + Len(t) + 2 THEN 1 + Len(t) + 1 ELSE 0
      BY FindLine
    <2> QED BY <2>1, <2>2
  <1>3. CASE Len(raw) >= Len(t) + 3
    <2>1. Fits(raw, 1, t)
      BY <1>1, LineEnd, FitsConcat
    <2>2. SubSeq(raw, 1 + 1, 1 + Len(t)) = t
      <3>1. 1 \in Nat /\ Len(raw) >= 1 + Len(t)
        BY <1>1, <1>3
      <3> QED BY <1>1, <2>1, <3>1, FitsText
    <2>3. Find(raw, 2) = Len(t) + 2 /\ Len(t) + 2 # 0 /\ (Len(t) + 2) - 1 = 1 + Len(t)
          /\ (Len(t) + 2) + 1 = Len(t) + 3 /\ 1 + 1 = 2
      BY <1>1, <1>2, <1>3
    <2>4. SubSeq(raw, 2, Find(raw, 2) - 1) = t
      BY <2>2, <2>3
    <2>5. Wanted(raw) = IF raw[1] # "$" THEN 0
                        ELSE Find(raw, 2) + 1 + BodyWanted(Number(SubSeq(raw, 2, Find(raw, 2) - 1))) - Len(raw)
      BY <2>3 DEF Wanted
    <2>6. Wanted(raw) = IF c # "$" THEN 0 ELSE Len(t) + 3 + BodyWanted(Number(t)) - Len(raw)
      BY <2>3, <2>4, <2>5
    <2> QED BY <1>3, <2>6
  <1>4. CASE ~(Len(raw) >= Len(t) + 3)
    BY <1>2, <1>4 DEF Wanted
  <1> QED BY <1>3, <1>4

LEMMA MinusOne == Number(<<"-", "1">>) = -1 /\ <<"-", "1">> \in Seq(Bytes \ {"cr"})
  <1> DEFINE t == <<"-", "1">>
  <1>1. t \in Seq(Bytes \ {"cr"}) /\ t \in Seq(Bytes) /\ Len(t) = 2 /\ t[1] = "-" /\ t[2] = "1"
    <2>1. DigitSymbols[1 + 1] \in Digits
      BY DigitTypes
    <2>2. {"-", "1"} \subseteq Bytes \ {"cr"}
      BY <2>1, StreamAssumption DEF DigitSymbols
    <2> QED BY <2>2
  <1>2. Stripped(t) = t
    <2> DEFINE ink == {i \in 1 .. Len(t) : t[i] \notin {"cr", "lf"}}
    <2>1. 1 \in ink /\ 2 \in ink /\ \A i \in ink : i \in Nat /\ 1 =< i /\ 2 >= i
      BY <1>1
    <2>2. Stripped(t) = IF ink = {} THEN <<>> ELSE SubSeq(t, Min(ink), Max(ink))
      BY DEF Stripped
    <2> HIDE DEF ink, t
    <2>3. Min(ink) = 1 /\ Max(ink) = 2 /\ ink # {}
      BY <2>1 DEF Min, Max
    <2>4. SubSeq(t, 1, Len(t)) = t
      BY <1>1, SubSeqFull
    <2> QED BY <1>1, <2>2, <2>3, <2>4
  <1>3. Unsigned(t) = <<"1">>
    <2>1. Tail(t) = <<"1">>
      OBVIOUS
    <2> QED BY <2>1 DEF Unsigned
  <1>4. Magnitude(<<"1">>) = 1
    <2>1. Decimal[1] = <<"1">>
      BY DecimalDef, SMTT(30) DEF Numeral, DigitSymbols
    <2> QED BY <2>1, DecimalSpells
  <1> HIDE DEF t
  <1>5. Number(t) = -1
    BY <1>1, <1>2, <1>3, <1>4 DEF Number
  <1> QED BY <1>1, <1>5 DEF t

\* While a reply e is being read, no more is asked for than is left of it, and
\* nothing is asked for once it is all there.
AsksFor(raw, e) ==
  Wanted(raw) \in 0 .. Len(e) - Len(raw) /\ (Wanted(raw) = 0 <=> Len(raw) = Len(e))

LEMMA AsksForLine ==
  ASSUME NEW c \in {"+", "-", ":"}, c \in Bytes, NEW t \in Seq(Bytes \ {"cr"}),
         NEW e, e = (<<c>> \o t) \o CRLF,
         NEW raw \in Seq(Bytes), raw # <<>>, Fits(raw, 0, e), Len(raw) <= Len(e)
  PROVE  AsksFor(raw, e)
  <1>1. t \in Seq(Bytes) /\ Len(t) \in Nat /\ Len(raw) \in Nat /\ Len(raw) >= 1
    <2>1. t \in Seq(Bytes)
      BY SeqMonotonic
    <2> QED BY <2>1
  <1>2. Len(e) = Len(t) + 3 /\ raw[1] = c /\ Fits(raw, 1, t \o CRLF)
    <2>1. c \in Bytes /\ t \in Seq(Bytes) /\ e = (<<c>> \o t) \o CRLF /\ Fits(raw, 0, e) /\ raw \in Seq(Bytes)
      BY <1>1
    <2>2. Len(e) = Len(t) + 3 /\ (Len(raw) >= 1 => raw[1] = c) /\ Fits(raw, 1, t \o CRLF)
      BY <2>1, LineBytes, Zenon
    <2> QED BY <1>1, <2>2
  <1>3. Wanted(raw) = IF ~(Len(raw) >= Len(t) + 3) THEN 1 ELSE 0
    <2>1. c \in {"+", "-", ":", "$"} /\ c # "$"
      OBVIOUS
    <2>2. Wanted(raw) = IF ~(Len(raw) >= Len(t) + 3) THEN 1
                        ELSE IF c # "$" THEN 0
                        ELSE Len(t) + 3 + BodyWanted(Number(t)) - Len(raw)
      BY <1>2, <2>1, FirstLine
    <2> QED BY <2>1, <2>2
  <1> QED BY <1>1, <1>2, <1>3 DEF AsksFor

LEMMA AsksForNull ==
  ASSUME NEW e, e = (<<"$">> \o <<"-", "1">>) \o CRLF,
         NEW raw \in Seq(Bytes), raw # <<>>, Fits(raw, 0, e), Len(raw) <= Len(e)
  PROVE  AsksFor(raw, e)
  <1> DEFINE t == <<"-", "1">>
             c == "$"
  <1>1. t \in Seq(Bytes) /\ c \in Bytes /\ Len(t) = 2 /\ Len(raw) \in Nat /\ Len(raw) >= 1
        /\ t \in Seq(Bytes \ {"cr"}) /\ Number(t) = -1 /\ e = (<<c>> \o t) \o CRLF
        /\ c \in {"+", "-", ":", "$"} /\ ~(c # "$")
    BY NullText, MinusOne
  <1> HIDE DEF t, c
  <1>2. Len(e) = Len(t) + 3 /\ raw[1] = c /\ Fits(raw, 1, t \o CRLF)
    <2>1. c \in Bytes /\ t \in Seq(Bytes) /\ e = (<<c>> \o t) \o CRLF /\ Fits(raw, 0, e) /\ raw \in Seq(Bytes)
      BY <1>1
    <2>2. Len(e) = Len(t) + 3 /\ (Len(raw) >= 1 => raw[1] = c) /\ Fits(raw, 1, t \o CRLF)
      BY <2>1, LineBytes, Zenon
    <2> QED BY <1>1, <2>2
  <1>3. Wanted(raw) = IF ~(Len(raw) >= Len(t) + 3) THEN 1
                      ELSE IF c # "$" THEN 0
                      ELSE Len(t) + 3 + BodyWanted(Number(t)) - Len(raw)
    BY <1>1, <1>2, FirstLine
  <1>4. BodyWanted(Number(t)) = 0
    BY <1>1 DEF BodyWanted
  <1> QED BY <1>1, <1>2, <1>3, <1>4 DEF AsksFor

LEMMA AsksForBulk ==
  ASSUME NEW part \in Seq(Bytes), NEW raw \in Seq(Bytes), raw # <<>>,
         Fits(raw, 0, EncodeBulk(part)), Len(raw) <= Len(EncodeBulk(part))
  PROVE  AsksFor(raw, EncodeBulk(part))
  <1> DEFINE t == Decimal[Len(part)]
             e == EncodeBulk(part)
  <1>1. t \in Seq(Digits) /\ t # <<>> /\ Magnitude(t) = Len(part) /\ Len(part) \in Nat
    BY DecimalSpells
  <1>2. t \in Seq(Bytes \ {"cr"}) /\ Number(t) = Len(part)
    <2>1. Digits \subseteq Bytes \ {"cr"}
      BY StreamAssumption, DigitsArePlain
    <2> HIDE DEF t
    <2>2. t \in Seq(Bytes \ {"cr"})
      BY <1>1, <2>1, SeqMonotonic
    <2> QED BY <1>1, <2>2, PlainNumber
  <1>3. /\ Len(e) = Len(t) + Len(part) + 5 /\ Len(t) \in Nat
        /\ Fits(raw, 0, <<"$">>) /\ Fits(raw, 0 + 1, t \o CRLF)
    <2>1. 0 \in Nat /\ Fits(raw, 0, EncodeBulk(part))
      OBVIOUS
    <2> QED BY <2>1, BulkBytes
  <1> HIDE DEF t, e
  <1>4. Len(raw) \in Nat /\ Len(raw) >= 1 /\ raw[1] = "$" /\ Fits(raw, 1, t \o CRLF)
    <2>1. Len(raw) \in Nat /\ Len(raw) >= 1 /\ 0 + 1 = 1 /\ 1 \in 1 .. Len(<<"$">>) /\ <<"$">>[1] = "$"
      OBVIOUS
    <2>2. raw[0 + 1] = <<"$">>[1]
      BY <1>3, <2>1 DEF Fits
    <2> QED BY <1>3, <2>1, <2>2
  <1>5. Wanted(raw) = IF ~(Len(raw) >= Len(t) + 3) THEN 1
                      ELSE Len(t) + 3 + BodyWanted(Number(t)) - Len(raw)
    <2>1. "$" \in {"+", "-", ":", "$"}
      OBVIOUS
    <2>2. Wanted(raw) = IF ~(Len(raw) >= Len(t) + 3) THEN 1
                        ELSE IF "$" # "$" THEN 0
                        ELSE Len(t) + 3 + BodyWanted(Number(t)) - Len(raw)
      BY <1>2, <1>4, <2>1, FirstLine
    <2> QED BY <2>2
  <1>6. BodyWanted(Number(t)) = Len(part) + 2
    BY <1>1, <1>2 DEF BodyWanted
  <1>7. Len(raw) <= Len(e)
    BY DEF e
  <1>8. AsksFor(raw, e)
    BY <1>1, <1>3, <1>4, <1>5, <1>6, <1>7 DEF AsksFor
  <1> QED BY <1>8 DEF e

LEMMA AsksForReply ==
  ASSUME NEW r, IsReply(r), Encodable(r), NEW raw \in Seq(Bytes),
         Fits(raw, 0, EncodeResponse(r)), Len(raw) <= Len(EncodeResponse(r))
  PROVE  /\ raw # <<>> => AsksFor(raw, EncodeResponse(r))
         /\ raw = <<>> => Wanted(raw) = 1
  <1> DEFINE e == EncodeResponse(r)
  <1>1. raw = <<>> => Wanted(raw) = 1
    BY DEF Wanted
  <1>2. ASSUME raw # <<>> PROVE AsksFor(raw, e)
    <2>1. CASE r.type = "bulk"
      <3>1. r.value \in Seq(Bytes) /\ e = EncodeBulk(r.value)
        BY <2>1, ReplyForms
      <3> QED BY <1>2, <3>1, AsksForBulk
    <2>2. CASE r.type = "null"
      <3>1. e = (<<"$">> \o <<"-", "1">>) \o CRLF
        BY <2>2, ReplyForms
      <3>2. Fits(raw, 0, e) /\ Len(raw) <= Len(e)
        OBVIOUS
      <3> HIDE DEF e
      <3> QED BY <1>2, <3>1, <3>2, AsksForNull, Zenon
    <2>3. CASE r.type \in {"simple", "error", "integer"}
      <3>1. r.value \in Seq(Bytes) /\ \E c \in {"+", "-", ":"} : c \in Bytes /\ e = (<<c>> \o r.value) \o CRLF
        BY <2>3, ReplyForms
      <3>2. PICK c \in {"+", "-", ":"} : c \in Bytes /\ e = (<<c>> \o r.value) \o CRLF
        BY <3>1
      <3>3. r.value \in Seq(Bytes \ {"cr"})
        <4>1. Len(r.value) \in Nat /\ \A i \in 1 .. Len(r.value) : r.value[i] \in Bytes
          BY <3>1
        <4>2. \A i \in 1 .. Len(r.value) : r.value[i] # "cr"
          <5>1. CASE r.type = "integer"
            <6>1. r.value \in Seq(Digits)
              BY <5>1 DEF IsReply
            <6>2. \A i \in 1 .. Len(r.value) : r.value[i] \in Digits
              BY <6>1
            <6> QED BY <6>2, DigitsArePlain
          <5>2. CASE r.type \in {"simple", "error"}
            BY <5>2 DEF Encodable, ToSet
          <5> QED BY <2>3, <5>1, <5>2
        <4>3. r.value \in [1 .. Len(r.value) -> Bytes \ {"cr"}]
          <5>1. r.value = [i \in 1 .. Len(r.value) |-> r.value[i]]
            BY <3>1
          <5> QED BY <4>1, <4>2, <5>1
        <4> DEFINE n == Len(r.value)
        <4> HIDE DEF n
        <4>4. n \in Nat /\ r.value \in [1 .. n -> Bytes \ {"cr"}]
          BY <4>1, <4>3 DEF n
        <4> QED BY <4>4
      <3>4. Fits(raw, 0, e) /\ Len(raw) <= Len(e)
        OBVIOUS
      <3> HIDE DEF e
      <3> QED BY <1>2, <3>2, <3>3, <3>4, AsksForLine, Zenon
    <2> QED BY <2>1, <2>2, <2>3 DEF IsReply
  <1> QED BY <1>1, <1>2

-----------------------------------------------------------------------------
(* The replies that are due *)

Reply(s, i) == Answer(Made(s, i - 1), s[i])

\* The replies to the first m of the commands s, and their bytes.
Due(s, m) == [i \in 1 .. m |-> EncodeResponse(Reply(s, i))]
Owed(s, m) == FlattenSeq(Due(s, m))

LEMMA ReplyType ==
  ASSUME NEW s \in Seq(Commands), NEW i \in 1 .. Len(s)
  PROVE  /\ IsReply(Reply(s, i)) /\ EncodeResponse(Reply(s, i)) \in Seq(Bytes)
         /\ Len(EncodeResponse(Reply(s, i))) \in Nat /\ Len(EncodeResponse(Reply(s, i))) > 0
  <1>1. s[i] \in Commands /\ i - 1 \in 0 .. Len(s)
    OBVIOUS
  <1>2. IsMap(Made(s, i - 1))
    BY <1>1, MadeType
  <1>3. IsReply(Reply(s, i))
    BY <1>1, <1>2, AnswerType DEF Reply
  <1> QED BY <1>3, ReplyBytes

LEMMA DueType ==
  ASSUME NEW s \in Seq(Commands), NEW m \in 0 .. Len(s)
  PROVE  /\ Due(s, m) \in Seq(Seq(Bytes)) /\ Len(Due(s, m)) = m
         /\ \A i \in 1 .. m : Due(s, m)[i] = EncodeResponse(Reply(s, i))
         /\ Owed(s, m) \in Seq(Bytes)
  <1>1. m \in Nat /\ \A i \in 1 .. m : i \in 1 .. Len(s)
    OBVIOUS
  <1>2. \A i \in 1 .. m : EncodeResponse(Reply(s, i)) \in Seq(Bytes)
    BY <1>1, ReplyType
  <1>3. Due(s, m) \in [1 .. m -> Seq(Bytes)] /\ \A i \in 1 .. m : Due(s, m)[i] = EncodeResponse(Reply(s, i))
    BY <1>2 DEF Due
  <1>4. Due(s, m) \in Seq(Seq(Bytes)) /\ Len(Due(s, m)) = m
    BY <1>1, <1>3
  <1> QED BY <1>3, <1>4, FlattenType DEF Owed

LEMMA DueNext ==
  ASSUME NEW s \in Seq(Commands), NEW m \in 0 .. Len(s) - 1
  PROVE  /\ Due(s, m + 1) = Append(Due(s, m), EncodeResponse(Reply(s, m + 1)))
         /\ Owed(s, m + 1) = Owed(s, m) \o EncodeResponse(Reply(s, m + 1))
         /\ EncodeResponse(Reply(s, m + 1)) \in Seq(Bytes)
  <1> DEFINE a == Due(s, m)
             b == Due(s, m + 1)
             e == EncodeResponse(Reply(s, m + 1))
             c == Append(a, e)
  <1>1. m \in 0 .. Len(s) /\ m + 1 \in 0 .. Len(s) /\ m + 1 \in 1 .. Len(s) /\ m \in Nat
    OBVIOUS
  <1>2. a \in Seq(Seq(Bytes)) /\ Len(a) = m /\ \A i \in 1 .. m : a[i] = EncodeResponse(Reply(s, i))
    BY <1>1, DueType
  <1>3. b \in Seq(Seq(Bytes)) /\ Len(b) = m + 1 /\ \A i \in 1 .. m + 1 : b[i] = EncodeResponse(Reply(s, i))
    BY <1>1, DueType
  <1>4. e \in Seq(Bytes)
    BY <1>1, ReplyType
  <1>5. b[m + 1] = e /\ \A i \in 1 .. m : b[i] = a[i]
    BY <1>1, <1>2, <1>3
  <1> HIDE DEF a, b, e
  <1>6. c \in Seq(Seq(Bytes)) /\ Len(c) = m + 1 /\ c[m + 1] = e /\ \A i \in 1 .. m : c[i] = a[i]
    BY <1>1, <1>2, <1>4, AppendProperties
  <1> HIDE DEF c
  <1>7. \A i \in 1 .. m + 1 : b[i] = c[i]
    BY <1>1, <1>5, <1>6
  <1>8. b = c
    BY <1>3, <1>6, <1>7, SeqEqual
  <1>9. FlattenSeq(b) = FlattenSeq(a) \o e
    BY <1>2, <1>4, <1>8, FlattenAppend DEF c
  <1> QED BY <1>4, <1>8, <1>9 DEF a, b, c, e, Owed

LEMMA OwedNothing ==
  ASSUME NEW s
  PROVE  Due(s, 0) = <<>> /\ Owed(s, 0) = <<>>
  <1>1. Due(s, 0) = <<>>
    BY DEF Due
  <1>2. <<>> \in Seq(Seq(Bytes))
    OBVIOUS
  <1> QED BY <1>1, <1>2, FlattenType DEF Owed

\* More is owed for more commands.
LEMMA OwedGrows ==
  ASSUME NEW s \in Seq(Commands), NEW k \in 0 .. Len(s), NEW m \in k .. Len(s)
  PROVE  IsPrefix(Owed(s, k), Owed(s, m))
  <1> DEFINE T == {i \in 0 .. m - k : IsPrefix(Owed(s, k), Owed(s, k + i))}
  <1>1. 0 \in T
    <2>1. Owed(s, k) \in Seq(Bytes) /\ k + 0 = k /\ 0 \in 0 .. m - k
      BY DueType
    <2> QED BY <2>1, PrefixOfItself
  <1>2. \A i \in 0 .. m - k - 1 : i \in T => i + 1 \in T
    <2> SUFFICES ASSUME NEW i \in 0 .. m - k - 1, IsPrefix(Owed(s, k), Owed(s, k + i))
                 PROVE  i + 1 \in 0 .. m - k /\ IsPrefix(Owed(s, k), Owed(s, k + (i + 1)))
      OBVIOUS
    <2>1. /\ k + i \in 0 .. Len(s) - 1 /\ k + (i + 1) = (k + i) + 1 /\ i + 1 \in 0 .. m - k
          /\ k + i \in 0 .. Len(s) /\ (k + i) + 1 \in 0 .. Len(s)
      OBVIOUS
    <2>2. /\ Owed(s, k) \in Seq(Bytes) /\ Owed(s, k + i) \in Seq(Bytes) /\ Owed(s, (k + i) + 1) \in Seq(Bytes)
          /\ EncodeResponse(Reply(s, (k + i) + 1)) \in Seq(Bytes)
          /\ Owed(s, (k + i) + 1) = Owed(s, k + i) \o EncodeResponse(Reply(s, (k + i) + 1))
      BY <2>1, DueType, DueNext
    <2>3. IsPrefix(Owed(s, k + i), Owed(s, (k + i) + 1))
      BY <2>2, PrefixOfConcat
    <2>4. IsPrefix(Owed(s, k), Owed(s, (k + i) + 1))
      BY <2>2, <2>3, PrefixOfPrefix
    <2> QED BY <2>1, <2>4
  <1>3. m - k \in T
    <2> HIDE DEF T
    <2>1. m - k \in Nat /\ m - k \in 0 .. m - k
      OBVIOUS
    <2>2. \A i \in 0 .. m - k : i \in T
      BY <1>1, <1>2, <2>1, Induction
    <2> QED BY <2>1, <2>2
  <1>4. k + (m - k) = m
    OBVIOUS
  <1> QED BY <1>3, <1>4

\* A command sent later changes no reply to the ones before it.
LEMMA DueSame ==
  ASSUME NEW s \in Seq(Commands), NEW cmd \in Commands, NEW m \in 0 .. Len(s)
  PROVE  /\ Made(Append(s, cmd), m) = Made(s, m)
         /\ \A i \in 1 .. m : Reply(Append(s, cmd), i) = Reply(s, i)
         /\ Due(Append(s, cmd), m) = Due(s, m) /\ Owed(Append(s, cmd), m) = Owed(s, m)
  <1> DEFINE t == Append(s, cmd)
  <1>1. \A i \in 1 .. Len(s) : t[i] = s[i]
    BY AppendProperties
  <1> HIDE DEF t
  <1>2. ASSUME NEW i \in 0 .. Len(s) PROVE Made(t, i) = Made(s, i)
    <2>1. i \in Nat /\ \A j \in 1 .. i : t[j] = s[j]
      BY <1>1
    <2> QED BY <2>1, MadeSame
  <1>3. ASSUME NEW i \in 1 .. m PROVE Reply(t, i) = Reply(s, i)
    <2>1. i - 1 \in 0 .. Len(s) /\ i \in 1 .. Len(s)
      OBVIOUS
    <2> QED BY <1>1, <1>2, <2>1 DEF Reply
  <1>4. Due(t, m) = Due(s, m)
    BY <1>3 DEF Due
  <1> QED BY <1>2, <1>3, <1>4 DEF Owed, t

-----------------------------------------------------------------------------
(* A stream that begins as another does *)

LEMMA FitsIsPrefix ==
  ASSUME NEW s \in Seq(Bytes), NEW t \in Seq(Bytes)
  PROVE  /\ IsPrefix(s, t) <=> Fits(s, 0, t) /\ Len(s) <= Len(t)
         /\ Fits(s, 0, t) /\ Len(s) = Len(t) => s = t
  <1>1. Len(s) \in Nat /\ Len(t) \in Nat
    OBVIOUS
  <1>2. IsPrefix(s, t) <=> Len(s) <= Len(t) /\ \A i \in 1 .. Len(s) : s[i] = t[i]
    BY PrefixIs
  <1>3. Fits(s, 0, t) <=> \A i \in 1 .. Len(t) : i <= Len(s) => s[i] = t[i]
    <2>1. \A i \in 1 .. Len(t) : 0 + i = i
      OBVIOUS
    <2> QED BY <2>1 DEF Fits
  <1>4. Len(s) <= Len(t) => (Fits(s, 0, t) <=> \A i \in 1 .. Len(s) : s[i] = t[i])
    BY <1>1, <1>3
  <1>5. Fits(s, 0, t) /\ Len(s) = Len(t) => s = t
    <2> SUFFICES ASSUME Fits(s, 0, t), Len(s) = Len(t) PROVE s = t
      OBVIOUS
    <2>1. \A i \in 1 .. Len(s) : s[i] = t[i]
      BY <1>1, <1>4
    <2> QED BY <2>1, SeqEqual
  <1> QED BY <1>2, <1>4, <1>5

LEMMA PrefixAfter ==
  ASSUME NEW p \in Seq(Bytes), NEW s \in Seq(Bytes), NEW t \in Seq(Bytes), IsPrefix(s, t)
  PROVE  IsPrefix(p \o s, p \o t)
  <1> DEFINE u == p \o s
             v == p \o t
  <1>1. /\ Len(p) \in Nat /\ Len(s) \in Nat /\ Len(t) \in Nat
        /\ Len(s) <= Len(t) /\ \A i \in 1 .. Len(s) : s[i] = t[i]
    BY PrefixIs
  <1>2. /\ u \in Seq(Bytes) /\ Len(u) = Len(p) + Len(s)
        /\ \A i \in 1 .. Len(p) + Len(s) : u[i] = IF i <= Len(p) THEN p[i] ELSE s[i - Len(p)]
    BY ConcatProperties
  <1>3. /\ v \in Seq(Bytes) /\ Len(v) = Len(p) + Len(t)
        /\ \A i \in 1 .. Len(p) + Len(t) : v[i] = IF i <= Len(p) THEN p[i] ELSE t[i - Len(p)]
    BY ConcatProperties
  <1> HIDE DEF u, v
  <1>4. ASSUME NEW i \in 1 .. Len(u) PROVE u[i] = v[i]
    <2>1. i \in 1 .. Len(p) + Len(s) /\ i \in 1 .. Len(p) + Len(t)
      BY <1>1, <1>2
    <2>2. CASE i <= Len(p)
      BY <1>2, <1>3, <2>1, <2>2
    <2>3. CASE ~(i <= Len(p))
      <3>1. i - Len(p) \in 1 .. Len(s)
        BY <1>1, <2>1, <2>3
      <3> QED BY <1>1, <1>2, <1>3, <2>1, <2>3, <3>1
    <2> QED BY <2>2, <2>3
  <1>5. Len(u) <= Len(v)
    BY <1>1, <1>2, <1>3
  <1>6. IsPrefix(u, v)
    BY <1>2, <1>3, <1>4, <1>5, PrefixIs
  <1> QED BY <1>6 DEF u, v

\* After p, what follows in a stream owed agrees with the reply that follows.
LEMMA Follows ==
  ASSUME NEW p \in Seq(Bytes), NEW s \in Seq(Bytes), NEW w \in Seq(Bytes), NEW e \in Seq(Bytes),
         NEW o \in Seq(Bytes), IsPrefix((p \o s) \o w, o), IsPrefix(p \o e, o)
  PROVE  Fits(s, 0, e)
  <1> DEFINE u == p \o s
             v == p \o e
             x == u \o w
  <1>1. Len(p) \in Nat /\ Len(s) \in Nat /\ Len(e) \in Nat /\ Len(w) \in Nat
    OBVIOUS
  <1>2. /\ u \in Seq(Bytes) /\ Len(u) = Len(p) + Len(s)
        /\ \A i \in 1 .. Len(p) + Len(s) : u[i] = IF i <= Len(p) THEN p[i] ELSE s[i - Len(p)]
    BY ConcatProperties
  <1>3. /\ v \in Seq(Bytes) /\ Len(v) = Len(p) + Len(e)
        /\ \A i \in 1 .. Len(p) + Len(e) : v[i] = IF i <= Len(p) THEN p[i] ELSE e[i - Len(p)]
    BY ConcatProperties
  <1>4. IsPrefix(x, o) /\ IsPrefix(v, o)
    OBVIOUS
  <1> HIDE DEF u, v
  <1>5. x \in Seq(Bytes) /\ IsPrefix(u, x)
    BY <1>2, ConcatLen, PrefixOfConcat
  <1> HIDE DEF x
  <1>6. IsPrefix(u, o)
    BY <1>2, <1>4, <1>5, PrefixOfPrefix
  <1>7. /\ \A i \in 1 .. Len(u) : u[i] = o[i]
        /\ \A i \in 1 .. Len(v) : v[i] = o[i]
    <2>1. \A i \in 1 .. Len(u) : u[i] = o[i]
      BY <1>2, <1>6, PrefixIs
    <2>2. \A i \in 1 .. Len(v) : v[i] = o[i]
      BY <1>3, <1>4, PrefixIs
    <2> QED BY <2>1, <2>2
  <1>8. ASSUME NEW j \in 1 .. Len(e), j <= Len(s) PROVE s[j] = e[j]
    <2> DEFINE i == Len(p) + j
    <2>1. /\ i \in 1 .. Len(p) + Len(s) /\ i \in 1 .. Len(p) + Len(e) /\ ~(i <= Len(p))
          /\ i - Len(p) = j
      BY <1>1, <1>8
    <2> HIDE DEF i
    <2>2. u[i] = s[j] /\ v[i] = e[j]
      BY <1>2, <1>3, <2>1
    <2>3. u[i] = o[i] /\ v[i] = o[i]
      BY <1>2, <1>3, <1>7, <2>1
    <2> QED BY <2>2, <2>3
  <1>9. \A j \in 1 .. Len(e) : 0 + j = j
    BY <1>1
  <1> QED BY <1>8, <1>9 DEF Fits

LEMMA NothingFollows ==
  ASSUME NEW p \in Seq(Bytes), NEW s \in Seq(Bytes), NEW w \in Seq(Bytes), IsPrefix((p \o s) \o w, p)
  PROVE  s = <<>> /\ w = <<>>
  <1> DEFINE u == p \o s
             x == u \o w
  <1>1. Len(p) \in Nat /\ Len(s) \in Nat /\ Len(w) \in Nat
    OBVIOUS
  <1>2. u \in Seq(Bytes) /\ Len(u) = Len(p) + Len(s)
    BY ConcatLen
  <1>3. IsPrefix(x, p)
    OBVIOUS
  <1> HIDE DEF u
  <1>4. x \in Seq(Bytes) /\ Len(x) = Len(u) + Len(w)
    BY <1>2, ConcatLen
  <1> HIDE DEF x
  <1>5. Len(x) <= Len(p)
    BY <1>3, <1>4, PrefixIs
  <1>6. Len(s) = 0 /\ Len(w) = 0
    BY <1>1, <1>2, <1>4, <1>5
  <1> QED BY <1>6, EmptySeq

\* s has grown to a by k bytes that w no longer has in b, and the stream is the same.
Shifted(p, s, w, k, a, b) ==
  /\ a \in Seq(Bytes) /\ b \in Seq(Bytes) /\ Len(a) = Len(s) + k
  /\ (p \o a) \o b = (p \o s) \o w

LEMMA ReadOn ==
  ASSUME NEW p \in Seq(Bytes), NEW s \in Seq(Bytes), NEW w \in Seq(Bytes), NEW k \in 1 .. Len(w)
  PROVE  Shifted(p, s, w, k, s \o SubSeq(w, 1, k), SubSeq(w, k + 1, Len(w)))
  <1> DEFINE x == SubSeq(w, 1, k)
             a == s \o x
             b == SubSeq(w, k + 1, Len(w))
  <1>1. x \in Seq(Bytes) /\ b \in Seq(Bytes) /\ x \o b = w
    BY Taken
  <1>2. Len(x) = k
    <2>1. 1 \in Nat \ {0} /\ k \in Int /\ k <= Len(w) /\ 1 <= k /\ k - 1 + 1 = k
      OBVIOUS
    <2>2. Len(x) = IF 1 <= k THEN k - 1 + 1 ELSE 0
      BY <2>1, Piece
    <2> QED BY <2>1, <2>2
  <1>3. a = s \o x
    OBVIOUS
  <1> HIDE DEF x, a, b
  <1>4. p \o s \in Seq(Bytes) /\ a \in Seq(Bytes) /\ Len(a) = Len(s) + k
    BY <1>1, <1>2, <1>3, ConcatLen
  <1>5. p \o (s \o x) = (p \o s) \o x
    BY <1>1, Associative, ZenonT(30)
  <1>6. ((p \o s) \o x) \o b = (p \o s) \o (x \o b)
    <2> DEFINE q == p \o s
    <2>1. q \in Seq(Bytes)
      BY <1>4
    <2> HIDE DEF q
    <2>2. (q \o x) \o b = q \o (x \o b)
      BY <1>1, <2>1, Associative, Zenon
    <2> QED BY <2>2 DEF q
  <1>7. (p \o a) \o b = (p \o s) \o w
    BY <1>1, <1>3, <1>5, <1>6
  <1>8. Shifted(p, s, w, k, a, b)
    BY <1>1, <1>4, <1>7 DEF Shifted
  <1> QED BY <1>8 DEF a, b, x

-----------------------------------------------------------------------------
(* The replies a client has read, and those on their way *)

\* What the handler has written, in the client's hands or on its way.
Stream == (FlattenSeq(responses) \o reading) \o wire

\* A client has read replies, whole, and a part of the next.
Collected(m) ==
  /\ Len(responses) <= m /\ responses = Due(sent, Len(responses))
  /\ Len(responses) < m => Len(reading) < Len(EncodeResponse(Reply(sent, Len(responses) + 1)))

\* Replies to m commands have been written, and all of it is in the stream unless
\* the connection has ended.
Handed(m) ==
  /\ \A i \in 1 .. m : Encodable(Reply(sent, i))
  /\ IsPrefix(Stream, Owed(sent, m))
  /\ conn = "open" => m = Len(received) /\ Stream = Owed(sent, m)
  /\ peer = "client" => Collected(m)

\* The console holds no part of a reply back, and asks for one reply at a time.
Shown ==
  /\ reading = <<>> /\ Len(sent) <= Len(responses) + 1
  /\ IsPrefix(FlattenSeq(responses), Owed(sent, Len(responses)))

RepliesTyped == wire \in Seq(Bytes) /\ reading \in Seq(Bytes) /\ responses \in Seq(Seq(Bytes))

ReplyInv ==
  peer # "anybody" =>
    /\ RepliesTyped /\ peer \in {"client", "console"}
    /\ Len(responses) <= Len(sent) /\ (reading # <<>> => Len(responses) < Len(sent))
    /\ data = Made(sent, Len(received))
    /\ \E m \in 0 .. Len(received) : Handed(m)
    /\ peer = "console" => Shown

LEMMA StreamType ==
  ASSUME RepliesTyped
  PROVE  /\ FlattenSeq(responses) \in Seq(Bytes) /\ FlattenSeq(responses) \o reading \in Seq(Bytes)
         /\ Stream \in Seq(Bytes) /\ Len(responses) \in Nat /\ Len(reading) \in Nat
  <1>1. FlattenSeq(responses) \in Seq(Bytes) /\ Len(responses) \in Nat /\ Len(reading) \in Nat
    BY FlattenType DEF RepliesTyped
  <1>2. FlattenSeq(responses) \o reading \in Seq(Bytes)
    BY <1>1, ConcatLen DEF RepliesTyped
  <1>3. Stream \in Seq(Bytes)
    BY <1>2, ConcatLen DEF RepliesTyped, Stream
  <1> QED BY <1>1, <1>2, <1>3

\* The commands dispatched are the first of those sent.
LEMMA ReceivedSent ==
  ASSUME StreamInv, peer # "anybody"
  PROVE  /\ sent \in Seq(Commands) /\ received \in Seq(Commands) /\ Len(sent) \in Nat
         /\ Len(received) \in 0 .. Len(sent)
  <1>1. sent \in Seq(Commands) /\ received \in Seq(Commands) /\ Carried(buffer, network, sent, received)
    BY DEF StreamInv
  <1>2. PICK rest \in Seq(Commands) : sent = received \o rest
    BY <1>1 DEF Carried
  <1>3. IsPrefix(received, sent)
    BY <1>1, <1>2, PrefixOfConcat
  <1>4. Len(received) <= Len(sent)
    BY <1>1, <1>3, PrefixIs
  <1> QED BY <1>1, <1>4

LEMMA ExecutesNext ==
  ASSUME StreamInv, peer # "anybody", Executes
  PROVE  /\ Len(received) \in 0 .. Len(sent) - 1 /\ Len(received') = Len(received) + 1
         /\ parsed.parts = sent[Len(received) + 1] /\ sent' = sent
         /\ data' = After(data, sent[Len(received) + 1])
  <1>1. /\ parsed = Parse(buffer) /\ parsed.status = "ok" /\ received' = Append(received, parsed.parts)
        /\ buffer \in Seq(Bytes) /\ network \in Seq(Bytes) /\ Carried(buffer, network, sent, received)
        /\ data' = After(data, parsed.parts) /\ sent' = sent
    BY DEF Executes, StreamInv
  <1>2. sent \in Seq(Commands) /\ received \in Seq(Commands) /\ Len(sent) \in Nat /\ Len(received) \in Nat
    BY ReceivedSent
  <1>3. /\ parsed.parts \in Commands /\ received' \in Seq(Commands) /\ IsPrefix(received', sent)
    BY <1>1, <1>2, ExecutesCarries
  <1>4. Len(received') = Len(received) + 1 /\ received'[Len(received) + 1] = parsed.parts
    BY <1>1, <1>2, <1>3, AppendProperties
  <1>5. Len(received') <= Len(sent) /\ \A i \in 1 .. Len(received') : received'[i] = sent[i]
    BY <1>2, <1>3, PrefixIs
  <1>6. Len(received) + 1 \in 1 .. Len(received') /\ Len(received) \in 0 .. Len(sent) - 1
    BY <1>2, <1>4, <1>5
  <1> QED BY <1>1, <1>4, <1>5, <1>6

\* A step after which the connection is not open, and no more is on its way.
LEMMA LessOnTheWay ==
  ASSUME StreamInv, ReplyInv, peer # "anybody",
         peer' = peer, sent' = sent, reading' = reading, responses' = responses, conn' # "open",
         wire' \in Seq(Bytes), IsPrefix(wire', wire),
         Len(received') \in Nat, Len(received) <= Len(received'), data' = Made(sent, Len(received'))
  PROVE  ReplyInv'
  <1>1. /\ RepliesTyped /\ peer \in {"client", "console"}
        /\ Len(responses) <= Len(sent) /\ (reading # <<>> => Len(responses) < Len(sent))
        /\ peer = "console" => Shown
    BY DEF ReplyInv
  <1>2. PICK m \in 0 .. Len(received) : Handed(m)
    BY DEF ReplyInv
  <1>3. m \in 0 .. Len(received') /\ m \in 0 .. Len(sent) /\ sent \in Seq(Commands)
    BY ReceivedSent
  <1>4. RepliesTyped' /\ wire \in Seq(Bytes)
    BY <1>1 DEF RepliesTyped
  <1>5. IsPrefix(Stream', Owed(sent, m)')
    <2>1. /\ FlattenSeq(responses) \o reading \in Seq(Bytes) /\ Stream \in Seq(Bytes)
          /\ Owed(sent, m) \in Seq(Bytes)
      BY <1>1, <1>3, StreamType, DueType
    <2>2. Stream' = (FlattenSeq(responses) \o reading) \o wire'
      BY DEF Stream
    <2>3. Stream' \in Seq(Bytes)
      BY <2>1, <2>2, ConcatLen
    <2>4. IsPrefix(Stream', Stream)
      BY <1>4, <2>1, <2>2, PrefixAfter DEF Stream
    <2>5. IsPrefix(Stream, Owed(sent, m))
      BY <1>2 DEF Handed
    <2>6. IsPrefix(Stream', Owed(sent, m))
      BY <2>1, <2>3, <2>4, <2>5, PrefixOfPrefix
    <2> QED BY <2>6
  <1>6. Handed(m)'
    <2>1. (\A i \in 1 .. m : Encodable(Reply(sent, i))) /\ (peer = "client" => Collected(m))
      BY <1>2 DEF Handed
    <2>2. Collected(m)' = Collected(m)
      BY DEF Collected
    <2> QED BY <1>5, <2>1, <2>2 DEF Handed
  <1>7. Shown' = Shown
    BY DEF Shown
  <1> QED BY <1>1, <1>3, <1>4, <1>6, <1>7 DEF ReplyInv

\* A step that changes no reply.
LEMMA RepliesStay ==
  ASSUME ReplyInv, UNCHANGED <<peer, conn, sent, received, data, wire, reader>>
  PROVE  ReplyInv'
  <1>1. /\ RepliesTyped' = RepliesTyped /\ Shown' = Shown
        /\ \A m : Handed(m)' = Handed(m)
    BY DEF RepliesTyped, Shown, Handed, Collected, Stream, reader
  <1>2. (\E m \in 0 .. Len(received) : Handed(m)) => \E m \in 0 .. Len(received') : Handed(m)'
    BY <1>1
  <1> QED BY <1>1, <1>2 DEF ReplyInv, reader

LEMMA InitReplies == Init => ReplyInv
  <1> SUFFICES ASSUME Init PROVE ReplyInv
    OBVIOUS
  <1>1. /\ peer \in {"client", "console", "anybody"} /\ sent = <<>> /\ received = <<>> /\ data = Before
        /\ wire = <<>> /\ reading = <<>> /\ responses = <<>>
    BY DEF Init
  <1>2. RepliesTyped
    BY <1>1 DEF RepliesTyped
  <1>3. Stream = <<>> /\ FlattenSeq(responses) = <<>>
    <2>1. <<>> \in Seq(Bytes) /\ FlattenSeq(<<>>) = <<>>
      <3>1. <<>> \in Seq(Seq(Bytes)) /\ <<>> \in Seq(Bytes)
        OBVIOUS
      <3> QED BY <3>1, FlattenType
    <2>2. <<>> \o <<>> = <<>>
      BY <2>1, ConcatEmptySeq
    <2> QED BY <1>1, <2>1, <2>2 DEF Stream
  <1>4. IsPrefix(<<>>, Owed(sent, 0)) /\ Owed(sent, 0) = <<>> /\ Due(sent, 0) = <<>>
    <2>1. Owed(sent, 0) = <<>> /\ Due(sent, 0) = <<>>
      BY OwedNothing
    <2>2. <<>> \in Seq(Bytes)
      OBVIOUS
    <2> QED BY <2>1, <2>2, PrefixOfItself
  <1>5. Len(<<>>) = 0
    OBVIOUS
  <1>6. Handed(0)
    BY <1>1, <1>3, <1>4, <1>5 DEF Handed, Collected
  <1>7. Shown
    BY <1>1, <1>3, <1>4, <1>5 DEF Shown
  <1>8. data = Made(sent, Len(received))
    BY <1>1, <1>5, MadeNext
  <1>9. 0 \in 0 .. Len(received)
    BY <1>1, <1>5
  <1> QED BY <1>1, <1>2, <1>5, <1>6, <1>7, <1>8, <1>9 DEF ReplyInv

LEMMA SendReplies ==
  ASSUME StreamInv, ReplyInv, NEW cmd \in Commands, SendCommand(cmd)
  PROVE  ReplyInv'
  <1>1. /\ peer # "anybody" /\ conn = "open" /\ (peer = "console" => Len(responses) = Len(sent))
        /\ sent' = Append(sent, cmd)
        /\ peer' = peer /\ conn' = conn /\ received' = received /\ data' = data
        /\ wire' = wire /\ reading' = reading /\ responses' = responses
    BY DEF SendCommand, handler, reader
  <1>2. /\ RepliesTyped /\ peer \in {"client", "console"}
        /\ Len(responses) <= Len(sent) /\ (reading # <<>> => Len(responses) < Len(sent))
        /\ data = Made(sent, Len(received))
        /\ peer = "console" => Shown
    BY <1>1 DEF ReplyInv
  <1>3. PICK m \in 0 .. Len(received) : Handed(m)
    BY <1>1 DEF ReplyInv
  <1>4. /\ sent \in Seq(Commands) /\ Len(sent) \in Nat /\ Len(received) \in 0 .. Len(sent)
        /\ m \in 0 .. Len(sent) /\ Len(responses) \in Nat
    BY <1>1, <1>2, ReceivedSent, StreamType
  <1>5. sent' \in Seq(Commands) /\ Len(sent') = Len(sent) + 1
    BY <1>1, <1>4, AppendProperties
  <1>6. ASSUME NEW n \in 0 .. Len(sent)
        PROVE  /\ Made(sent', n) = Made(sent, n) /\ Due(sent', n) = Due(sent, n)
               /\ Owed(sent', n) = Owed(sent, n) /\ \A i \in 1 .. n : Reply(sent', i) = Reply(sent, i)
    BY <1>1, <1>4, DueSame
  <1>7. RepliesTyped' /\ Stream' = Stream
    BY <1>1, <1>2 DEF RepliesTyped, Stream
  <1>8. Collected(m) => Collected(m)'
    <2> SUFFICES ASSUME Collected(m) PROVE Collected(m)'
      OBVIOUS
    <2>1. /\ Len(responses) <= m /\ responses = Due(sent, Len(responses))
          /\ Len(responses) < m => Len(reading) < Len(EncodeResponse(Reply(sent, Len(responses) + 1)))
      BY DEF Collected
    <2>2. Due(sent', Len(responses)) = Due(sent, Len(responses))
      BY <1>2, <1>4, <1>6
    <2>3. Len(responses) < m => Reply(sent', Len(responses) + 1) = Reply(sent, Len(responses) + 1)
      <3> SUFFICES ASSUME Len(responses) < m
                   PROVE  Reply(sent', Len(responses) + 1) = Reply(sent, Len(responses) + 1)
        OBVIOUS
      <3>1. Len(responses) + 1 \in 1 .. m
        BY <1>4
      <3> QED BY <1>4, <1>6, <3>1
    <2> QED BY <1>1, <2>1, <2>2, <2>3 DEF Collected
  <1>9. Handed(m)'
    <2>1. /\ \A i \in 1 .. m : Encodable(Reply(sent, i))
          /\ IsPrefix(Stream, Owed(sent, m)) /\ m = Len(received) /\ Stream = Owed(sent, m)
          /\ peer = "client" => Collected(m)
      BY <1>1, <1>3 DEF Handed
    <2>2. \A i \in 1 .. m : Encodable(Reply(sent', i))
      BY <1>4, <1>6, <2>1
    <2>3. IsPrefix(Stream', Owed(sent', m)) /\ Stream' = Owed(sent', m)
      BY <1>4, <1>6, <1>7, <2>1
    <2> QED BY <1>1, <1>8, <2>1, <2>2, <2>3 DEF Handed
  <1>10. peer = "console" => Shown'
    <2> SUFFICES ASSUME peer = "console" PROVE Shown'
      OBVIOUS
    <2>1. /\ reading = <<>> /\ Len(responses) = Len(sent)
          /\ IsPrefix(FlattenSeq(responses), Owed(sent, Len(responses)))
      BY <1>1, <1>2 DEF Shown
    <2>2. Owed(sent', Len(responses)) = Owed(sent, Len(responses))
      BY <1>2, <1>4, <1>6
    <2>3. Len(sent') <= Len(responses) + 1
      BY <1>4, <1>5, <2>1
    <2> QED BY <1>1, <2>1, <2>2, <2>3 DEF Shown
  <1>11. data' = Made(sent', Len(received'))
    BY <1>1, <1>2, <1>4, <1>6
  <1>12. Len(responses) <= Len(sent') /\ (reading # <<>> => Len(responses) < Len(sent'))
    BY <1>2, <1>4, <1>5
  <1> QED BY <1>1, <1>2, <1>7, <1>9, <1>10, <1>11, <1>12 DEF ReplyInv

\* The reply to the next command is what a map answers.
LEMMA ExecutesReplies ==
  ASSUME StreamInv, ReplyInv, peer # "anybody", Executes
  PROVE  /\ data' = Made(sent, Len(received')) /\ Len(received') = Len(received) + 1
         /\ Len(received) \in 0 .. Len(sent) - 1
         /\ Answer(data, parsed.parts) = Reply(sent, Len(received) + 1)
  <1>1. /\ Len(received) \in 0 .. Len(sent) - 1 /\ Len(received') = Len(received) + 1
        /\ parsed.parts = sent[Len(received) + 1]
        /\ data' = After(data, sent[Len(received) + 1])
    BY ExecutesNext
  <1>2. data = Made(sent, Len(received))
    BY DEF ReplyInv
  <1>3. Len(received) \in Nat /\ (Len(received) + 1) - 1 = Len(received)
    BY <1>1
  <1>4. Made(sent, Len(received) + 1) = After(Made(sent, Len(received)), sent[Len(received) + 1])
    BY <1>3, MadeNext
  <1> QED BY <1>1, <1>2, <1>3, <1>4 DEF Reply

LEMMA DispatchReplies ==
  ASSUME StreamInv, ReplyInv, Dispatch, peer # "anybody"
  PROVE  ReplyInv'
  <1>1. PICK r \in Nat : r = Len(received)
    BY ReceivedSent
  <1> DEFINE e == EncodeResponse(Reply(sent, r + 1))
  <1>2. /\ Executes /\ peer' = peer /\ conn' = conn /\ sent' = sent /\ reading' = reading
        /\ responses' = responses
        /\ Encodable(Answer(data, parsed.parts)) /\ Writes(EncodeResponse(Answer(data, parsed.parts)))
    BY DEF Dispatch, Executes, reader
  <1>3. /\ data' = Made(sent, Len(received')) /\ Len(received') = r + 1 /\ r \in 0 .. Len(sent) - 1
        /\ Answer(data, parsed.parts) = Reply(sent, r + 1)
    BY <1>1, <1>2, ExecutesReplies
  <1>4. Encodable(Reply(sent, r + 1)) /\ wire' = IF conn = "open" THEN wire \o e ELSE wire
    BY <1>2, <1>3 DEF Writes
  <1>5. /\ RepliesTyped /\ peer \in {"client", "console"}
        /\ Len(responses) <= Len(sent) /\ (reading # <<>> => Len(responses) < Len(sent))
        /\ peer = "console" => Shown
    BY DEF ReplyInv
  <1>6. /\ sent \in Seq(Commands) /\ Len(sent) \in Nat /\ r \in Nat /\ Len(responses) \in Nat
        /\ wire \in Seq(Bytes) /\ reading \in Seq(Bytes)
    BY <1>1, <1>5, ReceivedSent, StreamType DEF RepliesTyped
  <1>7. CASE conn # "open"
    <2>1. IsPrefix(wire', wire) /\ wire' \in Seq(Bytes)
      BY <1>4, <1>6, <1>7, PrefixOfItself
    <2>2. Len(received') \in Nat /\ Len(received) <= Len(received')
      BY <1>1, <1>3, <1>6
    <2> QED BY <1>2, <1>3, <1>7, <2>1, <2>2, LessOnTheWay
  <1>8. CASE conn = "open"
    <2>1. Handed(r)
      <3>1. PICK m \in 0 .. Len(received) : Handed(m)
        BY DEF ReplyInv
      <3> QED BY <1>1, <1>8, <3>1 DEF Handed
    <2>2. /\ \A i \in 1 .. r : Encodable(Reply(sent, i))
          /\ Stream = Owed(sent, r) /\ (peer = "client" => Collected(r))
      BY <1>8, <2>1 DEF Handed
    <2>3. /\ Owed(sent, r + 1) = Owed(sent, r) \o e /\ e \in Seq(Bytes)
          /\ Owed(sent, r + 1) \in Seq(Bytes) /\ Owed(sent, r) \in Seq(Bytes)
      <3>1. r \in 0 .. Len(sent) /\ r + 1 \in 0 .. Len(sent)
        BY <1>3
      <3> QED BY <1>3, <1>6, <3>1, DueNext, DueType
    <2>4. Len(e) > 0 /\ Len(e) \in Nat
      <3>1. r + 1 \in 1 .. Len(sent)
        BY <1>3
      <3> QED BY <1>6, <3>1, ReplyType
    <2> HIDE DEF e
    <2>5. Stream' = Owed(sent, r + 1)
      <3> DEFINE f == FlattenSeq(responses) \o reading
      <3>1. f \in Seq(Bytes)
        BY <1>5, StreamType
      <3>2. Stream = f \o wire /\ Stream' = f \o wire'
        BY <1>2 DEF Stream
      <3> HIDE DEF f
      <3>3. wire' = wire \o e
        BY <1>4, <1>8
      <3>4. f \o (wire \o e) = (f \o wire) \o e
        BY <1>6, <2>3, <3>1, Associative, Zenon
      <3> QED BY <2>2, <2>3, <3>2, <3>3, <3>4
    <2>6. RepliesTyped'
      <3>1. wire \o e \in Seq(Bytes)
        BY <1>6, <2>3, ConcatLen
      <3> QED BY <1>2, <1>4, <1>5, <1>8, <3>1 DEF RepliesTyped, e
    <2>7. peer = "client" => Collected(r + 1)'
      <3> SUFFICES ASSUME peer = "client" PROVE Collected(r + 1)'
        OBVIOUS
      <3> DEFINE k == Len(responses)
      <3>1. /\ k <= r /\ responses = Due(sent, k)
            /\ k < r => Len(reading) < Len(EncodeResponse(Reply(sent, k + 1)))
        BY <2>2 DEF Collected
      <3>2. k = r => reading = <<>>
        <4> SUFFICES ASSUME k = r PROVE reading = <<>>
          OBVIOUS
        <4> DEFINE p == Owed(sent, r)
        <4>1. FlattenSeq(responses) = p
          BY <3>1 DEF Owed
        <4>2. Stream = (p \o reading) \o wire /\ Stream = p
          BY <2>2, <4>1 DEF Stream
        <4> HIDE DEF p
        <4>3. p \in Seq(Bytes) /\ IsPrefix(p, p)
          BY <2>3, PrefixOfItself DEF p
        <4> QED BY <1>6, <4>2, <4>3, NothingFollows
      <3>3. k < r + 1 => Len(reading) < Len(EncodeResponse(Reply(sent, k + 1)))
        <4>1. CASE k = r
          <5>1. Len(reading) = 0
            BY <3>2, <4>1
          <5>2. EncodeResponse(Reply(sent, k + 1)) = e
            BY <4>1 DEF e
          <5> QED BY <2>4, <5>1, <5>2
        <4>2. CASE k # r
          <5>1. k < r
            BY <1>6, <3>1, <4>2
          <5> QED BY <3>1, <5>1
        <4> QED BY <4>1, <4>2
      <3>4. k <= r + 1
        BY <1>6, <3>1
      <3> QED BY <1>2, <3>1, <3>3, <3>4 DEF Collected
    <2>8. Handed(r + 1)'
      <3>1. \A i \in 1 .. r + 1 : Encodable(Reply(sent, i))
        <4>1. \A i \in 1 .. r + 1 : i \in 1 .. r \/ i = r + 1
          BY <1>6
        <4> QED BY <1>4, <2>2, <4>1
      <3>2. IsPrefix(Owed(sent, r + 1), Owed(sent, r + 1))
        BY <2>3, PrefixOfItself
      <3> QED BY <1>2, <1>3, <2>5, <2>7, <3>1, <3>2 DEF Handed
    <2>9. r + 1 \in 0 .. Len(received')
      BY <1>3, <1>6
    <2>10. Shown' = Shown
      BY <1>2 DEF Shown
    <2> QED BY <1>2, <1>3, <1>5, <2>6, <2>8, <2>9, <2>10 DEF ReplyInv
  <1> QED BY <1>7, <1>8

LEMMA EncodeFailsReplies ==
  ASSUME StreamInv, ReplyInv, EncodeFails, peer # "anybody"
  PROVE  ReplyInv'
  <1>1. /\ Executes /\ peer' = peer /\ conn' # "open" /\ sent' = sent /\ reading' = reading
        /\ responses' = responses
        /\ wire' = wire \/ \E n \in 0 .. Len(wire) : wire' = SubSeq(wire, 1, n)
    BY DEF EncodeFails, Executes, reader
  <1>2. data' = Made(sent, Len(received')) /\ Len(received') = Len(received) + 1 /\ Len(received) \in Nat
    <2>1. /\ data' = Made(sent, Len(received')) /\ Len(received') = Len(received) + 1
          /\ Len(received) \in 0 .. Len(sent) - 1
      BY <1>1, ExecutesReplies
    <2> QED BY <2>1
  <1>3. wire \in Seq(Bytes)
    BY DEF ReplyInv, RepliesTyped
  <1>4. IsPrefix(wire', wire) /\ wire' \in Seq(Bytes)
    <2>1. CASE wire' = wire
      BY <1>3, <2>1, PrefixOfItself
    <2>2. CASE \E n \in 0 .. Len(wire) : wire' = SubSeq(wire, 1, n)
      <3>1. PICK n \in 0 .. Len(wire) : wire' = SubSeq(wire, 1, n)
        BY <2>2
      <3> DEFINE x == SubSeq(wire, 1, n)
      <3>2. 1 \in Nat \ {0} /\ n \in Int /\ n <= Len(wire) /\ n - 1 + 1 = n /\ (1 <= n \/ n = 0)
            /\ Len(wire) \in Nat /\ \A k \in 1 .. n : 1 + k - 1 = k
        BY <1>3
      <3>3. /\ x \in Seq(Bytes) /\ Len(x) = IF 1 <= n THEN n - 1 + 1 ELSE 0
            /\ \A k \in 1 .. n - 1 + 1 : x[k] = wire[1 + k - 1]
        BY <1>3, <3>2, Piece
      <3> HIDE DEF x
      <3>4. Len(x) = n /\ \A k \in 1 .. n : x[k] = wire[k]
        BY <3>2, <3>3
      <3>5. IsPrefix(x, wire)
        BY <1>3, <3>2, <3>3, <3>4, PrefixIs
      <3> QED BY <3>1, <3>3, <3>5 DEF x
    <2> QED BY <1>1, <2>1, <2>2
  <1>5. Len(received') \in Nat /\ Len(received) <= Len(received')
    BY <1>2
  <1> QED BY <1>1, <1>2, <1>4, <1>5, LessOnTheWay

\* While there are bytes to read, a client is in the reply that is next.
InReply(m, p, e) ==
  /\ p \in Seq(Bytes) /\ e \in Seq(Bytes) /\ Owed(sent, m) \in Seq(Bytes)
  /\ IsPrefix(p \o e, Owed(sent, m)) /\ Stream = (p \o reading) \o wire
  /\ IsPrefix(Stream, Owed(sent, m))
  /\ Len(responses) < m /\ Fits(reading, 0, e) /\ Len(reading) < Len(e)
  /\ Encodable(Reply(sent, Len(responses) + 1)) /\ IsReply(Reply(sent, Len(responses) + 1))
  /\ Due(sent, Len(responses) + 1) = Append(responses, e)
  /\ Owed(sent, Len(responses) + 1) = p \o e

LEMMA NextReply ==
  ASSUME StreamInv, ReplyInv, peer = "client", reading # <<>> \/ wire # <<>>,
         NEW m \in 0 .. Len(received), Handed(m)
  PROVE  InReply(m, FlattenSeq(responses), EncodeResponse(Reply(sent, Len(responses) + 1)))
  <1> DEFINE p == FlattenSeq(responses)
             k == Len(responses)
             e == EncodeResponse(Reply(sent, k + 1))
  <1>1. RepliesTyped
    BY DEF ReplyInv
  <1>2. /\ wire \in Seq(Bytes) /\ reading \in Seq(Bytes) /\ k \in Nat /\ Len(reading) \in Nat
        /\ p \in Seq(Bytes) /\ Stream \in Seq(Bytes) /\ responses \in Seq(Seq(Bytes))
    BY <1>1, StreamType DEF RepliesTyped
  <1>3. sent \in Seq(Commands) /\ Len(sent) \in Nat /\ m \in 0 .. Len(sent)
    BY ReceivedSent
  <1>4. /\ k <= m /\ responses = Due(sent, k) /\ (k < m => Len(reading) < Len(e))
        /\ IsPrefix(Stream, Owed(sent, m)) /\ \A i \in 1 .. m : Encodable(Reply(sent, i))
    BY DEF Handed, Collected
  <1>5. p = Owed(sent, k) /\ Stream = (p \o reading) \o wire /\ Owed(sent, m) \in Seq(Bytes)
    BY <1>3, <1>4, DueType DEF Owed, Stream
  <1>6. k < m
    <2> SUFFICES ASSUME ~(k < m) PROVE FALSE
      OBVIOUS
    <2>1. k = m
      BY <1>2, <1>3, <1>4
    <2>2. IsPrefix((p \o reading) \o wire, p)
      BY <1>4, <1>5, <2>1
    <2> HIDE DEF p
    <2> QED BY <1>2, <2>2, NothingFollows
  <1>7. k \in 0 .. Len(sent) - 1 /\ k + 1 \in 0 .. Len(sent) /\ k + 1 \in 1 .. Len(sent)
        /\ m \in k + 1 .. Len(sent) /\ k + 1 \in 1 .. m
    BY <1>2, <1>3, <1>6
  <1>8. e \in Seq(Bytes) /\ IsReply(Reply(sent, k + 1)) /\ Encodable(Reply(sent, k + 1))
    BY <1>3, <1>4, <1>7, ReplyType
  <1>9. Due(sent, k + 1) = Append(responses, e) /\ Owed(sent, k + 1) = p \o e
    BY <1>3, <1>4, <1>5, <1>7, DueNext
  <1> HIDE DEF p, e, k
  <1>10. IsPrefix(p \o e, Owed(sent, m))
    BY <1>3, <1>7, <1>9, OwedGrows
  <1>11. Fits(reading, 0, e)
    BY <1>2, <1>4, <1>5, <1>8, <1>10, Follows
  <1>12. Len(reading) < Len(e)
    BY <1>4, <1>6
  <1> QED BY <1>2, <1>4, <1>5, <1>6, <1>8, <1>9, <1>10, <1>11, <1>12 DEF InReply, p, e, k

\* One recv takes no byte beyond the reply it is in.
LEMMA RecvReplies ==
  ASSUME StreamInv, ReplyInv, Recv
  PROVE  ReplyInv'
  <1>1. /\ peer # "anybody" /\ Len(responses) < Len(sent) /\ wire # <<>> /\ Size > 0
        /\ peer' = peer /\ conn' = conn /\ sent' = sent /\ received' = received /\ data' = data
    BY DEF Recv, CanRecv, handler
  <1>2. /\ RepliesTyped /\ peer \in {"client", "console"} /\ data = Made(sent, Len(received))
        /\ peer = "console" => Shown
    BY <1>1 DEF ReplyInv
  <1>3. /\ wire \in Seq(Bytes) /\ reading \in Seq(Bytes) /\ responses \in Seq(Seq(Bytes))
        /\ Len(wire) \in Nat /\ Len(reading) \in Nat /\ Len(responses) \in Nat
        /\ FlattenSeq(responses) \in Seq(Bytes)
    BY <1>2, StreamType DEF RepliesTyped
  <1>4. PICK n \in 1 .. Min({Size, Len(wire)}) :
           LET reply == reading \o SubSeq(wire, 1, n)
           IN  /\ wire' = SubSeq(wire, n + 1, Len(wire))
               /\ reading' = IF Whole(reply) THEN <<>> ELSE reply
               /\ responses' = IF Whole(reply) THEN Append(responses, reply) ELSE responses
    BY DEF Recv
  <1> DEFINE reply == reading \o SubSeq(wire, 1, n)
  <1>5. /\ wire' = SubSeq(wire, n + 1, Len(wire))
        /\ reading' = IF Whole(reply) THEN <<>> ELSE reply
        /\ responses' = IF Whole(reply) THEN Append(responses, reply) ELSE responses
    BY <1>4
  <1>6. PICK m \in 0 .. Len(received) : Handed(m)
    BY <1>1 DEF ReplyInv
  <1>7. sent \in Seq(Commands) /\ Len(sent) \in Nat /\ m \in 0 .. Len(sent) /\ Len(received) \in Nat
    BY <1>1, <1>6, ReceivedSent
  <1>8. PICK k \in Nat : k = Len(responses)
    BY <1>3
  <1>9. k \in 0 .. Len(sent) - 1 /\ k \in 0 .. Len(sent)
    BY <1>1, <1>7, <1>8
  <1> DEFINE e == EncodeResponse(Reply(sent, k + 1))
  <1>10. /\ e \in Seq(Bytes) /\ Len(e) > 0 /\ Len(e) \in Nat /\ IsReply(Reply(sent, k + 1))
    <2>1. k + 1 \in 1 .. Len(sent)
      BY <1>9
    <2> QED BY <1>7, <2>1, ReplyType
  <1>11. ASSUME Size \in Int
         PROVE  /\ n \in 1 .. Len(wire) /\ n <= Size
                /\ reply \in Seq(Bytes) /\ Len(reply) = Len(reading) + n /\ wire' \in Seq(Bytes)
                /\ (FlattenSeq(responses) \o reply) \o wire' = Stream
    <2>1. Min({Size, Len(wire)}) = IF Size <= Len(wire) THEN Size ELSE Len(wire)
      <3>1. Size \in Int /\ Len(wire) \in Int
        BY <1>3, <1>11
      <3> QED BY <3>1, MinOfTwo, Zenon
    <2>2. n \in 1 .. Len(wire) /\ n <= Size
      <3> HIDE DEF reply
      <3>1. n \in Int /\ 1 <= n /\ n <= Min({Size, Len(wire)})
        BY <1>4
      <3> QED BY <1>3, <1>11, <2>1, <3>1
    <2> DEFINE f == FlattenSeq(responses)
    <2>3. f \in Seq(Bytes) /\ reading \in Seq(Bytes) /\ wire \in Seq(Bytes) /\ n \in 1 .. Len(wire)
      BY <1>3, <2>2
    <2>4. Stream = (f \o reading) \o wire
      BY DEF Stream
    <2> HIDE DEF f
    <2>5. Shifted(f, reading, wire, n, reply, SubSeq(wire, n + 1, Len(wire)))
      BY <2>3, ReadOn
    <2> HIDE DEF reply
    <2>6. Shifted(f, reading, wire, n, reply, wire')
      BY <1>5, <2>5
    <2> QED BY <2>2, <2>4, <2>6 DEF f, Shifted
  <1>12. ASSUME Size \in Int
         PROVE  /\ Stream' = Stream /\ RepliesTyped'
                /\ Len(responses') = IF Whole(reply) THEN k + 1 ELSE k
                /\ Whole(reply) => FlattenSeq(responses') = FlattenSeq(responses) \o reply
    <2>1. /\ reply \in Seq(Bytes) /\ wire' \in Seq(Bytes)
          /\ (FlattenSeq(responses) \o reply) \o wire' = Stream
      BY <1>11, <1>12
    <2>2. Stream' = (FlattenSeq(responses') \o reading') \o wire'
      BY DEF Stream
    <2> HIDE DEF reply
    <2>3. CASE Whole(reply)
      <3>1. responses' = Append(responses, reply) /\ reading' = <<>>
        BY <1>5, <2>3 DEF reply
      <3>2. FlattenSeq(responses') = FlattenSeq(responses) \o reply
        BY <1>3, <2>1, <3>1, FlattenAppend
      <3>3. FlattenSeq(responses) \o reply \in Seq(Bytes)
        BY <1>3, <2>1, ConcatLen
      <3>4. FlattenSeq(responses') \o <<>> = FlattenSeq(responses')
        BY <3>2, <3>3, ConcatEmptySeq
      <3>5. Stream' = Stream
        BY <2>1, <2>2, <3>1, <3>2, <3>4
      <3>6. responses' \in Seq(Seq(Bytes)) /\ Len(responses') = k + 1
        BY <1>3, <1>8, <2>1, <3>1, AppendProperties
      <3>7. <<>> \in Seq(Bytes)
        OBVIOUS
      <3> QED BY <2>1, <2>3, <3>1, <3>2, <3>5, <3>6, <3>7 DEF RepliesTyped
    <2>4. CASE ~Whole(reply)
      <3>1. responses' = responses /\ reading' = reply
        BY <1>5, <2>4 DEF reply
      <3>2. Stream' = Stream
        BY <2>1, <2>2, <3>1
      <3> QED BY <1>3, <1>8, <2>1, <2>4, <3>1, <3>2 DEF RepliesTyped
    <2> QED BY <2>3, <2>4
  <1>13. ASSUME peer = "client" PROVE Size \in Int /\ Collected(m)'
    <2> DEFINE p == FlattenSeq(responses)
    <2>1. InReply(m, p, e)
      BY <1>1, <1>6, <1>8, <1>13, NextReply
    <2> HIDE DEF p, e
    <2>2. /\ p \in Seq(Bytes) /\ Owed(sent, m) \in Seq(Bytes)
          /\ IsPrefix(Stream, Owed(sent, m)) /\ IsPrefix(p \o e, Owed(sent, m))
      BY <2>1 DEF InReply
    <2>3. /\ k < m /\ Fits(reading, 0, e) /\ Len(reading) < Len(e)
          /\ Encodable(Reply(sent, k + 1)) /\ IsReply(Reply(sent, k + 1))
      BY <1>8, <2>1 DEF InReply
    <2>4. Due(sent, k + 1) = Append(responses, e)
      BY <1>8, <2>1 DEF InReply
    <2>5. Wanted(reading) \in 1 .. Len(e) - Len(reading)
      <3>1. /\ reading # <<>> => AsksFor(reading, e)
            /\ reading = <<>> => Wanted(reading) = 1
        <4>1. Len(reading) <= Len(e)
          BY <1>3, <1>10, <2>3
        <4> QED BY <1>3, <2>3, <4>1, AsksForReply DEF e
      <3>2. Wanted(reading) > 0
        BY <1>1, <1>13 DEF Size
      <3> QED BY <1>3, <1>10, <2>3, <3>1, <3>2 DEF AsksFor
    <2>6. Size \in Int /\ Size = Wanted(reading)
      BY <1>13, <2>5 DEF Size
    <2>7. /\ n \in 1 .. Len(wire) /\ n <= Wanted(reading)
           /\ reply \in Seq(Bytes) /\ Len(reply) = Len(reading) + n /\ wire' \in Seq(Bytes)
           /\ (p \o reply) \o wire' = Stream
      BY <1>11, <2>2, <2>6 DEF p
    <2>8. Len(reply) <= Len(e) /\ Len(reply) > 0 /\ Len(reply) \in Nat
      <3> HIDE DEF reply
      <3> QED BY <1>3, <1>10, <2>5, <2>7
    <2>9. Whole(reply) <=> Wanted(reply) = 0
      BY <1>13 DEF Whole
    <2> HIDE DEF reply
    <2>10. Fits(reply, 0, e)
      BY <1>10, <2>2, <2>7, Follows
    <2>11. Whole(reply) <=> Len(reply) = Len(e)
      <3>1. reply # <<>>
        BY <2>8
      <3>2. AsksFor(reply, e)
        BY <2>3, <2>7, <2>8, <2>10, <3>1, AsksForReply DEF e
      <3> QED BY <2>9, <3>2 DEF AsksFor
    <2>12. CASE Whole(reply)
      <3>1. reply = e
        BY <1>10, <2>7, <2>10, <2>11, <2>12, FitsIsPrefix
      <3>2. responses' = Due(sent, k + 1) /\ reading' = <<>> /\ Len(responses') = k + 1
        BY <1>5, <1>12, <2>4, <2>6, <2>12, <3>1 DEF reply
      <3>3. k + 1 < m => 0 < Len(EncodeResponse(Reply(sent, (k + 1) + 1)))
        <4> SUFFICES ASSUME k + 1 < m PROVE 0 < Len(EncodeResponse(Reply(sent, (k + 1) + 1)))
          OBVIOUS
        <4>1. (k + 1) + 1 \in 1 .. Len(sent)
          BY <1>7
        <4>2. /\ Len(EncodeResponse(Reply(sent, (k + 1) + 1))) > 0
              /\ Len(EncodeResponse(Reply(sent, (k + 1) + 1))) \in Nat
          BY <1>7, <4>1, ReplyType
        <4> QED BY <4>2
      <3>4. k + 1 <= m /\ Len(<<>>) = 0
        BY <1>7, <2>3
      <3> QED BY <1>1, <3>2, <3>3, <3>4, <2>6 DEF Collected
    <2>13. CASE ~Whole(reply)
      <3>1. responses' = responses /\ reading' = reply /\ responses = Due(sent, k) /\ k <= m
        BY <1>5, <1>6, <1>8, <1>13, <2>13 DEF reply, Handed, Collected
      <3>2. Len(reply) < Len(e)
        BY <1>10, <2>8, <2>11, <2>13
      <3> QED BY <1>1, <1>8, <2>6, <3>1, <3>2 DEF Collected, e
    <2> QED BY <2>6, <2>12, <2>13
  <1>14. ASSUME peer = "console" PROVE Size \in Int /\ Shown'
    <2>1. Size \in Int /\ Whole(reply)
      BY <1>3, <1>14 DEF Size, Whole
    <2>2. /\ reply \in Seq(Bytes) /\ wire' \in Seq(Bytes)
          /\ (FlattenSeq(responses) \o reply) \o wire' = Stream
      BY <1>11, <2>1
    <2>3. reading' = <<>> /\ Len(responses') = k + 1 /\ FlattenSeq(responses') = FlattenSeq(responses) \o reply
      BY <1>5, <1>12, <2>1
    <2> HIDE DEF reply
    <2>4. IsPrefix(Stream, Owed(sent, m)) /\ Len(sent) <= k + 1
      BY <1>2, <1>6, <1>8, <1>14 DEF Handed, Shown
    <2>5. m \in 0 .. Len(sent) /\ k + 1 = Len(sent) /\ Len(sent) \in m .. Len(sent)
      BY <1>7, <1>9, <2>4
    <2>6. /\ Owed(sent, m) \in Seq(Bytes) /\ Owed(sent, k + 1) \in Seq(Bytes)
          /\ IsPrefix(Owed(sent, m), Owed(sent, k + 1))
      <3>1. Len(sent) \in 0 .. Len(sent)
        BY <1>7
      <3> QED BY <1>7, <2>5, <3>1, DueType, OwedGrows
    <2>7. /\ FlattenSeq(responses') \in Seq(Bytes) /\ Stream \in Seq(Bytes)
          /\ IsPrefix(FlattenSeq(responses'), Stream)
      <3> DEFINE f == FlattenSeq(responses) \o reply
      <3>1. f \in Seq(Bytes) /\ f \o wire' = Stream /\ FlattenSeq(responses') = f
        BY <1>3, <2>2, <2>3, ConcatLen
      <3> HIDE DEF f
      <3>2. f \o wire' \in Seq(Bytes) /\ IsPrefix(f, f \o wire')
        BY <2>2, <3>1, ConcatLen, PrefixOfConcat, Zenon
      <3> QED BY <3>1, <3>2
    <2>8. IsPrefix(FlattenSeq(responses'), Owed(sent, k + 1))
      <3>1. IsPrefix(FlattenSeq(responses'), Owed(sent, m))
        BY <2>4, <2>6, <2>7, PrefixOfPrefix
      <3> QED BY <2>6, <2>7, <3>1, PrefixOfPrefix
    <2>9. Len(sent) <= (k + 1) + 1
      BY <1>7, <2>5
    <2> QED BY <1>1, <2>1, <2>3, <2>8, <2>9 DEF Shown
  <1>15. Size \in Int
    BY <1>2, <1>13, <1>14
  <1>16. /\ Stream' = Stream /\ RepliesTyped'
         /\ Len(responses') = IF Whole(reply) THEN k + 1 ELSE k
    BY <1>12, <1>15
  <1>17. Handed(m)'
    BY <1>1, <1>6, <1>13, <1>16 DEF Handed
  <1>18. Len(responses') <= Len(sent) /\ (reading' # <<>> => Len(responses') < Len(sent))
    <2> HIDE DEF reply
    <2>1. Whole(reply) => reading' = <<>>
      BY <1>5 DEF reply
    <2> QED BY <1>7, <1>9, <1>16, <2>1
  <1> QED BY <1>1, <1>2, <1>14, <1>16, <1>17, <1>18 DEF ReplyInv

LEMMA NextReplies == StreamInv /\ ReplyInv /\ [Next]_vars => ReplyInv'
  <1> SUFFICES ASSUME StreamInv, ReplyInv, [Next]_vars PROVE ReplyInv'
    OBVIOUS
  <1>1. ASSUME UNCHANGED <<peer, conn, sent, received, data, wire, reader>> PROVE ReplyInv'
    BY <1>1, RepliesStay
  <1>2. ASSUME peer = "anybody", peer' = peer PROVE ReplyInv'
    BY <1>2 DEF ReplyInv
  <1>3. ASSUME NEW cmd \in Commands, SendCommand(cmd) PROVE ReplyInv'
    BY <1>3, SendReplies
  <1>4. ASSUME Recv PROVE ReplyInv'
    BY <1>4, RecvReplies
  <1>5. ASSUME peer # "anybody", UNCHANGED <<peer, sent, received, data, reader>>, conn' # "open",
               wire' \in {wire, <<>>}
        PROVE  ReplyInv'
    <2>1. wire \in Seq(Bytes) /\ data = Made(sent, Len(received)) /\ Len(received) \in Nat
      BY <1>5, ReceivedSent DEF ReplyInv, RepliesTyped
    <2>2. IsPrefix(wire', wire) /\ wire' \in Seq(Bytes)
      <3>1. wire' \in Seq(Bytes) /\ (wire' = <<>> => Len(wire') = 0)
        <4>1. wire' = wire \/ wire' = <<>>
          BY <1>5
        <4>2. <<>> \in Seq(Bytes) /\ Len(<<>>) = 0
          OBVIOUS
        <4> QED BY <2>1, <4>1, <4>2
      <3>2. CASE wire' = wire
        BY <2>1, <3>2, PrefixOfItself
      <3>3. CASE wire' = <<>>
        <4>1. Len(wire') <= Len(wire) /\ \A i \in 1 .. Len(wire') : wire'[i] = wire[i]
          BY <2>1, <3>1, <3>3
        <4> QED BY <2>1, <3>1, <4>1, PrefixIs
      <3> QED BY <1>5, <3>1, <3>2, <3>3
    <2>3. Len(received') \in Nat /\ Len(received) <= Len(received') /\ data' = Made(sent, Len(received'))
      BY <1>5, <2>1
    <2> QED BY <1>5, <2>2, <2>3, LessOnTheWay DEF reader
  <1>6. ASSUME GiveUp PROVE ReplyInv'
    BY <1>5, <1>6 DEF GiveUp, handler
  <1>7. ASSUME NEW b \in Alphabet, ReadByte(b) PROVE ReplyInv'
    BY <1>2, <1>7 DEF ReadByte, Reads
  <1>8. ASSUME Read PROVE ReplyInv'
    BY <1>1, <1>8 DEF Read, Reads
  <1>9. ASSUME ReadEnd PROVE ReplyInv'
    BY <1>2, <1>5, <1>9 DEF ReadEnd, handler
  <1>10. ASSUME Dispatch PROVE ReplyInv'
    BY <1>2, <1>10, DispatchReplies DEF Dispatch, Executes
  <1>11. ASSUME EncodeFails PROVE ReplyInv'
    BY <1>2, <1>11, EncodeFailsReplies DEF EncodeFails, Executes
  <1>12. ASSUME Refuse PROVE ReplyInv'
    BY <1>2, <1>12, NoneRefused DEF Refuse
  <1>13. ASSUME DrainFails PROVE ReplyInv'
    BY <1>2, <1>5, <1>13 DEF DrainFails, handler
  <1>14. CASE UNCHANGED vars
    BY <1>1, <1>14 DEF vars, reader
  <1> QED BY <1>3, <1>4, <1>6, <1>7, <1>8, <1>9, <1>10, <1>11, <1>12, <1>13, <1>14 DEF Next, Handle

\* Whatever the client sends and however bytes are cut, what it has read is the
\* answers of a map to its commands, in order, and a part of the next.
THEOREM AnswersOfAMap == Spec => []ClientSeesAMap
  <1>1. StreamInv /\ ReplyInv => ClientSeesAMap
    <2> DEFINE k == Len(responses)
               n == Len(responses) + IF reading = <<>> THEN 0 ELSE 1
    <2> SUFFICES ASSUME StreamInv, ReplyInv, peer # "anybody"
                 PROVE  /\ n <= Len(sent)
                        /\ IsPrefix(FlattenSeq(responses) \o reading,
                                    FlattenSeq([i \in 1 .. n |-> Expected(i)]))
                        /\ peer = "client" => \A i \in 1 .. Len(responses) : responses[i] = Expected(i)
      BY DEF ClientSeesAMap
    <2>1. /\ RepliesTyped /\ peer \in {"client", "console"}
          /\ k <= Len(sent) /\ (reading # <<>> => k < Len(sent))
          /\ peer = "console" => Shown
      BY DEF ReplyInv
    <2>2. /\ sent \in Seq(Commands) /\ Len(sent) \in Nat /\ k \in Nat /\ reading \in Seq(Bytes)
          /\ FlattenSeq(responses) \in Seq(Bytes) /\ k \in 0 .. Len(sent)
      BY <2>1, ReceivedSent, StreamType DEF RepliesTyped
    <2>3. n <= Len(sent)
      BY <2>1, <2>2
    <2>4. \A i : Expected(i) = EncodeResponse(Reply(sent, i))
      BY DEF Expected, MapAfter, Reply, Made
    <2>5. FlattenSeq([i \in 1 .. n |-> Expected(i)]) = Owed(sent, n)
      BY <2>4 DEF Owed, Due
    <2>6. PICK m \in 0 .. Len(received) : Handed(m)
      BY DEF ReplyInv
    <2>7. peer = "client" => responses = Due(sent, k)
      BY <2>6 DEF Handed, Collected
    <2>8. ASSUME peer = "client", NEW i \in 1 .. k PROVE responses[i] = Expected(i)
      BY <2>2, <2>4, <2>7, <2>8, DueType
    <2>9. CASE reading = <<>>
      <3>1. n = k /\ FlattenSeq(responses) \o reading = FlattenSeq(responses)
        BY <2>2, <2>9, ConcatEmptySeq
      <3>2. IsPrefix(FlattenSeq(responses), Owed(sent, k))
        <4>1. CASE peer = "client"
          BY <2>2, <2>7, <4>1, PrefixOfItself DEF Owed
        <4>2. CASE peer = "console"
          BY <2>1, <4>2 DEF Shown
        <4> QED BY <2>1, <4>1, <4>2
      <3> QED BY <2>3, <2>5, <2>8, <3>1, <3>2
    <2>10. CASE reading # <<>>
      <3> DEFINE p == FlattenSeq(responses)
                 e == EncodeResponse(Reply(sent, k + 1))
      <3>1. peer = "client"
        BY <2>1, <2>10 DEF Shown
      <3>2. InReply(m, p, e)
        BY <2>6, <2>10, <3>1, NextReply
      <3> HIDE DEF p, e
      <3>3. /\ e \in Seq(Bytes) /\ p \in Seq(Bytes) /\ Fits(reading, 0, e) /\ Len(reading) < Len(e)
            /\ Owed(sent, k + 1) = p \o e
        BY <3>2 DEF InReply
      <3>4. IsPrefix(reading, e)
        <4>1. Len(reading) <= Len(e)
          BY <2>2, <3>3
        <4> QED BY <2>2, <3>3, <4>1, FitsIsPrefix
      <3>5. IsPrefix(p \o reading, Owed(sent, k + 1))
        BY <2>2, <3>3, <3>4, PrefixAfter
      <3>6. n = k + 1
        BY <2>10
      <3> QED BY <2>3, <2>5, <2>8, <3>5, <3>6 DEF p
    <2> QED BY <2>9, <2>10
  <1>2. Spec => []ReplyInv
    <2>1. Init => StreamInv /\ ReplyInv
      BY InitStream, InitReplies
    <2>2. StreamInv /\ ReplyInv /\ [Next]_vars => (StreamInv /\ ReplyInv)'
      BY NextStream, NextReplies
    <2> QED BY <2>1, <2>2, PTL DEF Spec
  <1> QED BY <1>1, <1>2, AlwaysStream, PTL

=============================================================================

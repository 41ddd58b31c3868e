---------------------------- MODULE StorageProofs ----------------------------
(***************************************************************************)
(* Proofs about what is stored: the values of a row, the page that keeps   *)
(* its rows, and the log of what is done to them.                          *)
(*                                                                         *)
(* IntegerTypes: the arithmetic of the integer types is exact or reports   *)
(* its overflow, for all widths and all values.                            *)
(*                                                                         *)
(* TablePage: the page keeps its tuples, for every page size and every set *)
(* of tuples.  Layout is inductive with TypeOK: that the tuples do not     *)
(* overlap is what makes the moves of UpdateTuple and ApplyDelete leave    *)
(* the other tuples intact, and the guard on resizing keeps marked tuples  *)
(* out of the bytes that move.                                             *)
(*                                                                         *)
(* LogManager: what the clients and the flush thread leave in the file,    *)
(* for every size of the buffers and the records and on every schedule, as *)
(* long as swaps and writes alternate: the properties fail after that.     *)
(***************************************************************************)
EXTENDS IntegerTypes, TablePage, LogManager, SequenceTheorems, TLAPS

USE SMTT(20), ZenonT(20), SMTT(40)

-----------------------------------------------------------------------------
(* Wrapping around, and division.                                          *)

\* What \div and % are.
LEMMA DivMod ==
    ASSUME NEW a \in Int, NEW m \in Nat \ {0}
    PROVE  /\ a \div m \in Int
           /\ a % m \in 0..(m - 1)
           /\ a = m * (a \div m) + (a % m)
<1>1. m > 0
  OBVIOUS
<1>2. a \div m \in Int
  BY <1>1
<1>3. a % m \in 0..(m - 1)
  BY <1>1
<1>4. a = m * (a \div m) + (a % m)
  BY <1>1
<1> QED BY <1>2, <1>3, <1>4

\* A cast changes a number by a multiple of 2^w.
LEMMA WrapShifts ==
    ASSUME NEW n \in Int, NEW h \in Nat \ {0}
    PROVE  /\ Wrap(n, h) \in -h..(h - 1)
           /\ \E k \in Int : Wrap(n, h) = n - (2 * h) * k
<1> DEFINE m == 2 * h
           a == n + h
           k == a \div m
           q == a % m
<1>1. m \in Nat \ {0} /\ a \in Int
  OBVIOUS
<1>2. Wrap(n, h) = q - h
  BY DEF Wrap
<1> HIDE DEF m, a
<1>3. k \in Int /\ q \in 0..(m - 1) /\ a = m * k + q
  BY <1>1, DivMod
<1> DEFINE d == m * k
<1>4. d \in Int
  BY <1>1, <1>3
<1> HIDE DEF k, q, d
<1>5. a = d + q
  BY <1>3 DEF d
<1>6. q = n + h - d
  BY <1>1, <1>3, <1>4, <1>5 DEF a
<1>7. Wrap(n, h) = n - d
  BY <1>2, <1>4, <1>6
<1>8. Wrap(n, h) \in -h..(h - 1)
  BY <1>2, <1>3 DEF m
<1> QED BY <1>3, <1>7, <1>8 DEF d, m

\* A cast keeps a number that fits, and finds the one a step away.
LEMMA WrapNear ==
    ASSUME NEW n \in Int, NEW h \in Nat \ {0}
    PROVE  /\ n \in -h..(h - 1) => Wrap(n, h) = n
           /\ n \in h..(3 * h - 1) => Wrap(n, h) = n - 2 * h
           /\ n \in (-3 * h)..(-h - 1) => Wrap(n, h) = n + 2 * h
<1>1. PICK k \in Int : Wrap(n, h) = n - (2 * h) * k
  BY ZenonT(60), WrapShifts
<1>2. Wrap(n, h) \in -h..(h - 1)
  BY WrapShifts
<1>3. k <= -2 => (2 * h) * k <= -(4 * h)
  OBVIOUS
<1>4. k >= 2 => (2 * h) * k >= 4 * h
  OBVIOUS
<1>5. k \in {-1, 0, 1} => (2 * h) * k \in {-(2 * h), 0, 2 * h}
  OBVIOUS
<1>6. (2 * h) * k \in Int
  OBVIOUS
<1> DEFINE d == (2 * h) * k
<1> HIDE DEF d
<1>7. /\ Wrap(n, h) = n - d /\ d \in Int
      /\ k <= -2 => d <= -(4 * h)
      /\ k >= 2 => d >= 4 * h
      /\ k = -1 => d = -(2 * h)
      /\ k = 0 => d = 0
      /\ k = 1 => d = 2 * h
  BY <1>1, <1>3, <1>4, <1>5, <1>6 DEF d
<1>8. k <= -2 \/ k = -1 \/ k = 0 \/ k = 1 \/ k >= 2
  OBVIOUS
<1> QED BY <1>2, <1>7, <1>8

\* A multiple of y, if it is not 0, is at least as far from 0 as y.
LEMMA MultipleFar ==
    ASSUME NEW y \in Int, NEW d \in Int, d # 0
    PROVE  y * d \in Int /\ (y * d >= Magnitude(y) \/ y * d <= -Magnitude(y))
<1>1. CASE y >= 0 /\ d >= 1
  <2>1. y * d >= y
    BY <1>1
  <2> QED BY <1>1, <2>1 DEF Magnitude
<1>2. CASE y >= 0 /\ d <= -1
  <2>1. y * d <= -y
    BY <1>2
  <2> QED BY <1>2, <2>1 DEF Magnitude
<1>3. CASE y < 0 /\ d >= 1
  <2>1. y * d <= y
    BY <1>3
  <2> QED BY <1>3, <2>1 DEF Magnitude
<1>4. CASE y < 0 /\ d <= -1
  <2>1. y * d >= -y
    BY <1>4
  <2> QED BY <1>4, <2>1 DEF Magnitude
<1> QED BY <1>1, <1>2, <1>3, <1>4

\* The quotient rounds towards 0, and the remainder is smaller than b.
LEMMA QuotNear ==
    ASSUME NEW a \in Int, NEW b \in Int, b # 0
    PROVE  /\ Quot(a, b) \in Int /\ b * Quot(a, b) \in Int
           /\ a - b * Quot(a, b) < Magnitude(b)
           /\ a - b * Quot(a, b) > -Magnitude(b)
           /\ Magnitude(Quot(a, b)) <= Magnitude(a)
<1> DEFINE u == Magnitude(a)
           m == Magnitude(b)
           q == u \div m
           e == u % m
<1>1. u \in Nat /\ m \in Nat \ {0}
  BY DEF Magnitude
<1>2. (a = u \/ a = -u) /\ (b = m \/ b = -m)
  BY DEF Magnitude
<1>3. Quot(a, b) = q \/ Quot(a, b) = -q
  BY DEF Quot
<1>4. /\ a < 0 /\ b < 0 => Quot(a, b) = q
      /\ a < 0 /\ b > 0 => Quot(a, b) = -q
      /\ a >= 0 /\ b < 0 => Quot(a, b) = -q
      /\ a >= 0 /\ b > 0 => Quot(a, b) = q
  BY DEF Quot
<1>5. /\ a < 0 => a = -u
      /\ a >= 0 => a = u
      /\ b < 0 => b = -m
      /\ b > 0 => b = m
  BY DEF Magnitude
<1> HIDE DEF u, m
<1>6. q \in Int /\ e \in 0..(m - 1) /\ u = m * q + e
  BY <1>1, DivMod
<1> HIDE DEF q, e
<1>7. q \in Nat /\ q <= u
  <2>1. CASE q < 0
    <3>1. m * q <= -m
      BY <1>1, <1>6, <2>1
    <3> QED BY <1>1, <1>6, <3>1
  <2>2. CASE q >= 0
    <3>1. m * q >= q
      BY <1>1, <1>6, <2>2
    <3> QED BY <1>1, <1>6, <2>2, <3>1
  <2> QED BY <1>6, <2>1, <2>2
<1>8. b * Quot(a, b) = IF a < 0 THEN -(m * q) ELSE m * q
  BY <1>1, <1>4, <1>5, <1>6
<1>9. Magnitude(Quot(a, b)) = q
  BY <1>3, <1>7 DEF Magnitude
<1>10. m * q \in Int
  BY <1>1, <1>6
<1>11. a - b * Quot(a, b) = IF a < 0 THEN -e ELSE e
  BY <1>1, <1>5, <1>6, <1>8, <1>10
<1>12. Quot(a, b) \in Int /\ b * Quot(a, b) \in Int
  BY <1>3, <1>6
<1>13. e \in Int /\ e < m /\ e >= 0
  BY <1>1, <1>6
<1>14. a - b * Quot(a, b) < m /\ a - b * Quot(a, b) > -m
  BY <1>1, <1>11, <1>13
<1> QED BY <1>7, <1>9, <1>12, <1>14 DEF u, m

\* The quotient of a product by a factor is the other factor.
LEMMA QuotOfProduct ==
    ASSUME NEW x \in Int, NEW y \in Int, y # 0
    PROVE  Quot(x * y, y) = x
<1> DEFINE q == Quot(x * y, y)
<1>1. x * y \in Int
  OBVIOUS
<1>2. q \in Int /\ y * q \in Int /\ x * y - y * q < Magnitude(y) /\ x * y - y * q > -Magnitude(y)
  BY <1>1, QuotNear
<1> HIDE DEF q
<1>3. x * y - y * q = y * (x - q)
  BY <1>2
<1>4. Magnitude(y) \in Int
  BY DEF Magnitude
<1>5. x - q # 0 => y * (x - q) >= Magnitude(y) \/ y * (x - q) <= -Magnitude(y)
  BY <1>2, MultipleFar
<1>6. x - q = 0
  BY <1>1, <1>2, <1>3, <1>4, <1>5
<1> QED BY <1>2, <1>6 DEF q

-----------------------------------------------------------------------------
(* Types.                                                                  *)

\* The type of the result is that of an operand and holds both of them; the
\* computation is in this type, or in one so wide that nothing overflows.
LEMMA ResultType ==
    ASSUME Widths, NEW l \in NotNull, NEW r \in NotNull,
           NEW t, t = Wider(l.type, r.type), NEW p, p = Promoted(l.type, r.type)
    PROVE  /\ l.num \in Int /\ r.num \in Int
           /\ l.type \in TypeId /\ r.type \in TypeId /\ p \in TypeId
           /\ t \in {l.type, r.type}
           /\ \A u \in TypeId : Half[u] \in Nat \ {0}
           /\ Half[l.type] <= Half[t] /\ Half[r.type] <= Half[t] /\ Half[t] <= Half[p]
           /\ -Half[t] < l.num /\ l.num < Half[t]
           /\ -Half[t] < r.num /\ r.num < Half[t]
           /\ Half[p] = Half[t] \/ 2 * Half[t] * Half[t] <= Half[p]
<1>1. /\ l.type \in TypeId /\ l.num \in Int /\ l.num \in -Half[l.type]..(Half[l.type] - 1)
      /\ l.num # -Half[l.type]
  BY DEF NotNull, Values, IsNull
<1>2. /\ r.type \in TypeId /\ r.num \in Int /\ r.num \in -Half[r.type]..(Half[r.type] - 1)
      /\ r.num # -Half[r.type]
  BY DEF NotNull, Values, IsNull
<1>3. \A u \in TypeId : Half[u] \in Nat \ {0}
  BY DEF Widths
<1>4. t \in {l.type, r.type} /\ Half[l.type] <= Half[t] /\ Half[r.type] <= Half[t]
  BY <1>1, <1>2, <1>3 DEF Wider
<1>5. p \in TypeId
  BY DEF Promoted, TypeId
<1>6. t \in {"INTEGER", "BIGINT"} => p = t
  BY <1>1, <1>2, <1>4 DEF Promoted, TypeId, Widths, Wider
<1>7. ASSUME t \in {"TINYINT", "SMALLINT"}
      PROVE  2 * Half[t] * Half[t] <= Half[p] /\ Half[t] <= Half[p]
  <2> DEFINE h == Half[t]
             s == Half["SMALLINT"]
  <2>1. h \in Nat \ {0} /\ s \in Nat \ {0} /\ h <= s
    BY <1>3, <1>7 DEF Widths, TypeId
  <2>2. 2 * s * s <= Half[p]
    BY DEF Widths, Promoted, TypeId
  <2>3. Half[p] \in Nat
    BY <1>3, <1>5
  <2> HIDE DEF h, s
  <2>4. 2 * h * h <= 2 * s * s /\ h <= 2 * h * h
    BY <2>1
  <2>5. 2 * h * h \in Nat /\ 2 * s * s \in Nat
    BY <2>1
  <2>6. 2 * h * h <= Half[p] /\ h <= Half[p]
    BY <2>1, <2>2, <2>3, <2>4, <2>5
  <2> QED BY <2>6 DEF h
<1>8. t \in {"TINYINT", "SMALLINT", "INTEGER", "BIGINT"}
  BY <1>1, <1>2, <1>4 DEF TypeId
<1>9. Half[p] = Half[t] \/ 2 * Half[t] * Half[t] <= Half[p]
  BY <1>6, <1>7, <1>8
<1>10. Half[t] <= Half[p]
  BY <1>3, <1>5, <1>6, <1>7, <1>8
<1>11. Half[t] \in Nat \ {0} /\ Half[l.type] \in Nat /\ Half[r.type] \in Nat
  BY <1>1, <1>2, <1>3, <1>4
<1>12. -Half[t] < l.num /\ l.num < Half[t] /\ -Half[t] < r.num /\ r.num < Half[t]
  BY <1>1, <1>2, <1>4, <1>11
<1> QED BY <1>1, <1>2, <1>3, <1>4, <1>5, <1>9, <1>10, <1>12

\* A computed number n is checked well if it is the exact number z when the
\* type of the result holds z, and if it does not fit or the overflow is
\* found when it does not.
LEMMA CheckedExact ==
    ASSUME Widths, NEW l \in NotNull, NEW r \in NotNull, NEW n \in Int, NEW z \in Int,
           NEW overflow \in BOOLEAN,
           LET h == Half[Wider(l.type, r.type)]
           IN  /\ z \in -h..(h - 1) => n = z /\ ~overflow
               /\ z \notin -h..(h - 1) => overflow \/ n \notin -h..(h - 1)
    PROVE  Checked(l, r, n, overflow) = Exact(l, r, z)
<1> DEFINE t == Wider(l.type, r.type)
           h == Half[t]
<1>1. /\ l.type \in TypeId /\ r.type \in TypeId /\ t \in {l.type, r.type}
      /\ \A u \in TypeId : Half[u] \in Nat \ {0}
      /\ Half[l.type] <= h /\ Half[r.type] <= h
  BY ResultType
<1>2. /\ z \in -h..(h - 1) => n = z /\ ~overflow
      /\ z \notin -h..(h - 1) => overflow \/ n \notin -h..(h - 1)
  OBVIOUS
<1>3. h \in Nat \ {0} /\ Half[l.type] \in Nat \ {0} /\ Half[r.type] \in Nat \ {0}
  BY <1>1
<1>4. CASE z \in -h..(h - 1)
  <2>1. n = z /\ ~overflow /\ Convert(n, t) = n
    BY <1>2, <1>3, <1>4, WrapNear DEF Convert
  <2>2. Exact(l, r, z) = Value(t, z)
    BY <1>4 DEF Exact
  <2>3. Checked(l, r, n, overflow) = Value(t, Convert(n, t))
    BY <1>1, <2>1 DEF Checked, Result
  <2> QED BY <2>1, <2>2, <2>3
<1>5. CASE z \notin -h..(h - 1)
  <2>1. Exact(l, r, z) = OUT_OF_RANGE
    BY <1>5 DEF Exact
  <2>2. CASE overflow
    BY <2>1, <2>2 DEF Checked
  <2>3. CASE n \notin -h..(h - 1)
    <3>1. /\ Convert(n, l.type) \in -Half[l.type]..(Half[l.type] - 1)
          /\ Convert(n, r.type) \in -Half[r.type]..(Half[r.type] - 1)
      BY ZenonT(60), <1>3, WrapShifts DEF Convert
    <3>2. n # Convert(n, l.type) /\ n # Convert(n, r.type)
      BY <1>1, <1>3, <2>3, <3>1
    <3> QED BY <2>1, <3>2 DEF Checked
  <2> QED BY <1>2, <1>5, <2>2, <2>3
<1> QED BY <1>4, <1>5

-----------------------------------------------------------------------------
\* AddValue returns the sum of any two numbers, of the same or of different
\* types, if the wider type holds it, and throws if not: its tests, made
\* after int or int64_t may have wrapped around, find every overflow and
\* nothing else.
THEOREM AddExact ==
    ASSUME Widths, NEW l \in NotNull, NEW r \in NotNull
    PROVE  Add(l, r) = Exact(l, r, l.num + r.num)
<1> DEFINE x == l.num
           y == r.num
           t == Wider(l.type, r.type)
           p == Promoted(l.type, r.type)
           h == Half[t]
           g == Half[p]
           z == x + y
           n == Convert(z, p)
           sum == Result(l, r, n)
           overflow == (x > 0 /\ y > 0 /\ sum < 0) \/ (x < 0 /\ y < 0 /\ sum > 0)
<1>1. /\ x \in Int /\ y \in Int /\ h \in Nat \ {0} /\ g \in Nat \ {0} /\ h <= g
      /\ -h < x /\ x < h /\ -h < y /\ y < h
      /\ g = h \/ 2 * h * h <= g
  BY ResultType
<1>2. Add(l, r) = Checked(l, r, n, overflow)
  BY ZenonT(60) DEF Add, AddValue, NotNull
<1>3. n = Wrap(z, g) /\ sum = Wrap(n, h)
  BY DEF Convert, Result
<1> HIDE DEF h, g, x, y
<1>4. z \in Int /\ -(2 * h) < z - 1 /\ z + 1 < 2 * h
  BY <1>1
<1> HIDE DEF n, sum
<1>5. n \in Int
  BY <1>1, <1>3, <1>4, WrapShifts
<1>6. ASSUME z \in -h..(h - 1) PROVE n = z /\ ~overflow
  <2>1. n = z /\ sum = z
    BY <1>1, <1>3, <1>4, <1>6, WrapNear
  <2> QED BY <1>1, <1>6, <2>1
<1>7. ASSUME z \notin -h..(h - 1) PROVE overflow \/ n \notin -h..(h - 1)
  <2>1. CASE g = h
    <3>1. n = IF z >= h THEN z - 2 * h ELSE z + 2 * h
      BY <1>1, <1>3, <1>4, <1>7, <2>1, WrapNear
    <3>2. n \in -h..(h - 1)
      BY <1>1, <1>4, <1>7, <3>1
    <3>3. sum = n
      BY <1>1, <1>3, <1>5, <3>2, WrapNear
    <3> QED BY <1>1, <1>4, <1>7, <3>1, <3>3
  <2>2. CASE 2 * h * h <= g
    <3>1. 2 * h <= 2 * h * h /\ 2 * h * h \in Nat
      BY <1>1
    <3>2. z \in -g..(g - 1)
      BY <1>1, <1>4, <2>2, <3>1
    <3> QED BY <1>1, <1>3, <1>4, <1>7, <3>2, WrapNear
  <2> QED BY <1>1, <2>1, <2>2
<1> HIDE DEF z
<1>8. Checked(l, r, n, overflow) = Exact(l, r, z)
  <2>1. overflow \in BOOLEAN
    OBVIOUS
  <2> HIDE DEF overflow
  <2> QED BY <1>4, <1>5, <1>6, <1>7, <2>1, CheckedExact DEF h
<1> QED BY <1>2, <1>8 DEF z, x, y

-----------------------------------------------------------------------------
\* The same of SubtractValue, whose tests differ in the sign of y.
THEOREM SubtractExact ==
    ASSUME Widths, NEW l \in NotNull, NEW r \in NotNull
    PROVE  Subtract(l, r) = Exact(l, r, l.num - r.num)
<1> DEFINE x == l.num
           y == r.num
           t == Wider(l.type, r.type)
           p == Promoted(l.type, r.type)
           h == Half[t]
           g == Half[p]
           z == x - y
           n == Convert(z, p)
           diff == Result(l, r, n)
           overflow == (x > 0 /\ y < 0 /\ diff < 0) \/ (x < 0 /\ y > 0 /\ diff > 0)
<1>1. /\ x \in Int /\ y \in Int /\ h \in Nat \ {0} /\ g \in Nat \ {0} /\ h <= g
      /\ -h < x /\ x < h /\ -h < y /\ y < h
      /\ g = h \/ 2 * h * h <= g
  BY ResultType
<1>2. Subtract(l, r) = Checked(l, r, n, overflow)
  BY ZenonT(60) DEF Subtract, SubtractValue, NotNull
<1>3. n = Wrap(z, g) /\ diff = Wrap(n, h)
  BY DEF Convert, Result
<1> HIDE DEF h, g, x, y
<1>4. z \in Int /\ -(2 * h) < z - 1 /\ z + 1 < 2 * h
  BY <1>1
<1> HIDE DEF n, diff
<1>5. n \in Int
  BY <1>1, <1>3, <1>4, WrapShifts
<1>6. ASSUME z \in -h..(h - 1) PROVE n = z /\ ~overflow
  <2>1. n = z /\ diff = z
    BY <1>1, <1>3, <1>4, <1>6, WrapNear
  <2> QED BY <1>1, <1>6, <2>1
<1>7. ASSUME z \notin -h..(h - 1) PROVE overflow \/ n \notin -h..(h - 1)
  <2>1. CASE g = h
    <3>1. n = IF z >= h THEN z - 2 * h ELSE z + 2 * h
      BY <1>1, <1>3, <1>4, <1>7, <2>1, WrapNear
    <3>2. n \in -h..(h - 1)
      BY <1>1, <1>4, <1>7, <3>1
    <3>3. diff = n
      BY <1>1, <1>3, <1>5, <3>2, WrapNear
    <3> QED BY <1>1, <1>4, <1>7, <3>1, <3>3
  <2>2. CASE 2 * h * h <= g
    <3>1. 2 * h <= 2 * h * h /\ 2 * h * h \in Nat
      BY <1>1
    <3>2. z \in -g..(g - 1)
      BY <1>1, <1>4, <2>2, <3>1
    <3> QED BY <1>1, <1>3, <1>4, <1>7, <3>2, WrapNear
  <2> QED BY <1>1, <2>1, <2>2
<1> HIDE DEF z
<1>8. Checked(l, r, n, overflow) = Exact(l, r, z)
  <2>1. overflow \in BOOLEAN
    OBVIOUS
  <2> HIDE DEF overflow
  <2> QED BY <1>4, <1>5, <1>6, <1>7, <2>1, CheckedExact DEF h
<1> QED BY <1>2, <1>8 DEF z, x, y

-----------------------------------------------------------------------------
\* MultiplyValue's test, a division of the wrapped product, finds every
\* overflow and nothing else: a wrapped product is so far from the product
\* that the quotient cannot be the left factor.
THEOREM MultiplyExact ==
    ASSUME Widths, NEW l \in NotNull, NEW r \in NotNull
    PROVE  Multiply(l, r) = Exact(l, r, l.num * r.num)
<1> DEFINE x == l.num
           y == r.num
           t == Wider(l.type, r.type)
           p == Promoted(l.type, r.type)
           h == Half[t]
           g == Half[p]
           z == x * y
           n == Convert(z, p)
           prod == Result(l, r, n)
           overflow == y # 0 /\ Quot(prod, y) # x
<1>1. /\ x \in Int /\ y \in Int /\ h \in Nat \ {0} /\ g \in Nat \ {0} /\ h <= g
      /\ -h < x /\ x < h /\ -h < y /\ y < h
      /\ g = h \/ 2 * h * h <= g
  BY ResultType
<1>2. Multiply(l, r) = Checked(l, r, n, overflow)
  BY DEF Multiply, MultiplyValue, NotNull
<1>3. n = Wrap(z, g) /\ prod = Wrap(n, h)
  BY DEF Convert, Result
<1> HIDE DEF h, g, x, y
<1>4. z \in Int /\ z <= h * h /\ z >= -(h * h) /\ h * h \in Nat
  BY <1>1
<1> HIDE DEF n, prod
<1>5. n \in Int
  BY <1>1, <1>3, <1>4, WrapShifts
<1>6. ASSUME z \in -h..(h - 1) PROVE n = z /\ ~overflow
  <2> HIDE DEF z
  <2>1. n = z /\ prod = z
    BY <1>1, <1>3, <1>4, <1>6, WrapNear
  <2>2. y # 0 => Quot(prod, y) = x
    BY <1>1, <2>1, QuotOfProduct DEF z
  <2> QED BY <2>1, <2>2
<1>7. ASSUME z \notin -h..(h - 1) PROVE overflow \/ n \notin -h..(h - 1)
  <2>1. CASE g = h
    <3>1. y # 0
      BY <1>1, <1>7
    <3> HIDE DEF z
    <3>2. PICK k \in Int : n = z - (2 * h) * k
      BY ZenonT(60), <1>1, <1>3, <1>4, <2>1, WrapShifts
    <3>3. n \in -h..(h - 1) /\ prod = n
      BY <1>1, <1>3, <1>4, <1>5, <2>1, WrapShifts, WrapNear
    <3>4. k # 0
      BY <1>1, <1>4, <1>7, <3>2, <3>3
    <3>5. /\ (2 * h) * k \in Int
          /\ (2 * h) * k >= 2 * h \/ (2 * h) * k <= -(2 * h)
      BY <1>1, <3>4, MultipleFar DEF Magnitude
    <3>6. n - y * Quot(n, y) < Magnitude(y) /\ n - y * Quot(n, y) > -Magnitude(y)
      BY <1>1, <1>5, <3>1, QuotNear
    <3>7. Magnitude(y) \in Int /\ Magnitude(y) < h
      BY <1>1 DEF Magnitude
    <3>8. Quot(n, y) = x => n - y * Quot(n, y) = n - z
      BY <1>1, <1>5 DEF z
    <3>9. Quot(n, y) # x
      BY <1>1, <1>4, <1>5, <3>2, <3>5, <3>6, <3>7, <3>8
    <3> QED BY <3>1, <3>3, <3>9
  <2>2. CASE 2 * h * h <= g
    <3> HIDE DEF z
    <3>1. h * h >= 1 /\ 2 * h * h = 2 * (h * h)
      BY <1>1
    <3>2. z \in -g..(g - 1)
      BY <1>1, <1>4, <2>2, <3>1
    <3> QED BY <1>1, <1>3, <1>4, <1>7, <3>2, WrapNear
  <2> QED BY <1>1, <2>1, <2>2
<1> HIDE DEF z
<1>8. Checked(l, r, n, overflow) = Exact(l, r, z)
  <2>1. overflow \in BOOLEAN
    OBVIOUS
  <2> HIDE DEF overflow
  <2> QED BY <1>4, <1>5, <1>6, <1>7, <2>1, CheckedExact DEF h
<1> QED BY <1>2, <1>8 DEF z, x, y

-----------------------------------------------------------------------------
\* Division has no test for an overflow, and needs none: NULL takes the one
\* number whose quotient by -1 does not fit.  Quotient and remainder are
\* exact and not NULL.
THEOREM DivideModuloExact ==
    ASSUME Widths, NEW l \in NotNull, NEW r \in NotNull, r.num # 0
    PROVE  LET t == Wider(l.type, r.type)
           IN  /\ Divide(l, r) = Value(t, Quot(l.num, r.num))
               /\ Modulo(l, r) = Value(t, Rem(l.num, r.num))
               /\ Quot(l.num, r.num) \in (-Half[t] + 1)..(Half[t] - 1)
               /\ Rem(l.num, r.num) \in (-Half[t] + 1)..(Half[t] - 1)
<1> DEFINE x == l.num
           y == r.num
           t == Wider(l.type, r.type)
           p == Promoted(l.type, r.type)
           h == Half[t]
           g == Half[p]
           q == Quot(x, y)
           e == Rem(x, y)
<1>1. /\ x \in Int /\ y \in Int /\ h \in Nat \ {0} /\ g \in Nat \ {0} /\ h <= g
      /\ -h < x /\ x < h /\ -h < y /\ y < h
  BY ResultType
<1>2. /\ Divide(l, r) = Value(t, Wrap(Wrap(q, g), h))
      /\ Modulo(l, r) = Value(t, Wrap(Wrap(e, g), h))
  BY DEF Divide, Modulo, DivideValue, ModuloValue, Convert, NotNull
<1>3. /\ q \in Int /\ y * q \in Int /\ e = x - y * q
      /\ e < Magnitude(y) /\ e > -Magnitude(y) /\ Magnitude(q) <= Magnitude(x)
  <2>1. /\ q \in Int /\ y * q \in Int
        /\ x - y * q < Magnitude(y) /\ x - y * q > -Magnitude(y)
        /\ Magnitude(q) <= Magnitude(x)
    BY ZenonT(60), <1>1, QuotNear
  <2>2. e = x - y * q
    BY ZenonT(60) DEF Rem
  <2> QED BY ZenonT(60), <2>1, <2>2
<1> HIDE DEF x, y, h, g, q, e
<1>4. e \in Int /\ q \in (-h + 1)..(h - 1) /\ e \in (-h + 1)..(h - 1)
  BY <1>1, <1>3 DEF Magnitude
<1>5. Wrap(q, g) = q /\ Wrap(q, h) = q /\ Wrap(e, g) = e /\ Wrap(e, h) = e
  BY <1>1, <1>4, WrapNear
<1> QED BY <1>2, <1>4, <1>5 DEF q, e, h, x, y

-----------------------------------------------------------------------------
\* A cast keeps the number and NULL, and casting back gives the value again;
\* it throws if and only if the number is out of the range of the type.  No
\* number becomes NULL.
THEOREM CastExact ==
    ASSUME Widths, NEW v \in NotNull, NEW t \in TypeId
    PROVE  /\ CastAs(v, t) = IF v.num \in (-Half[t] + 1)..(Half[t] - 1)
                            THEN Value(t, v.num) ELSE OUT_OF_RANGE
           /\ CastAs(v, t) # OUT_OF_RANGE => CastAs(CastAs(v, t), v.type) = v
           /\ CastAs(Null(v.type), t) = Null(t)
<1>1. /\ v.type \in TypeId /\ v.num \in Int /\ v = Value(v.type, v.num)
      /\ v.num \in (-Half[v.type] + 1)..(Half[v.type] - 1)
  <2>1. /\ v \in [type : TypeId, num : Int] /\ v.num # -Half[v.type]
        /\ v.num \in -Half[v.type]..(Half[v.type] - 1)
    BY DEF NotNull, Values, IsNull
  <2>2. Half[v.type] \in Nat
    BY <2>1 DEF Widths
  <2> QED BY <2>1, <2>2 DEF Value
<1>2. \A u \in TypeId : Half[u] \in Nat \ {0}
  BY DEF Widths
<1>3. ASSUME NEW u \in TypeId, NEW w \in TypeId, NEW n \in Int,
             n \in (-Half[u] + 1)..(Half[u] - 1)
      PROVE  CastAs(Value(u, n), w) = IF n \in (-Half[w] + 1)..(Half[w] - 1)
                                      THEN Value(w, n) ELSE OUT_OF_RANGE
  <2> DEFINE a == Value(u, n)
  <2>1. a.type = u /\ a.num = n
    BY DEF Value
  <2> HIDE DEF a
  <2>2. ~IsNull(a)
    BY <1>2, <1>3, <2>1 DEF IsNull
  <2>3. n \in -Half[w]..(Half[w] - 1) => Convert(n, w) = n
    BY <1>2, WrapNear DEF Convert
  <2>4. CastAs(a, w) = IF n \in (-Half[w] + 1)..(Half[w] - 1) THEN Value(w, n) ELSE OUT_OF_RANGE
    BY <1>2, <1>3, <2>1, <2>2, <2>3 DEF CastAs
  <2> QED BY <2>4 DEF a
<1>4. CastAs(v, t) = IF v.num \in (-Half[t] + 1)..(Half[t] - 1) THEN Value(t, v.num) ELSE OUT_OF_RANGE
  BY <1>1, <1>3
<1>5. CastAs(v, t) # OUT_OF_RANGE => CastAs(CastAs(v, t), v.type) = v
  BY <1>1, <1>3, <1>4
<1>6. CastAs(Null(v.type), t) = Null(t)
  BY DEF CastAs, Null, IsNull, Value
<1> QED BY <1>4, <1>5, <1>6

-----------------------------------------------------------------------------
(* The table page.                                                         *)

IInv == TypeOK /\ Layout

LEMMA AbsFacts ==
    ASSUME NEW n \in Int
    PROVE  Abs(n) \in Nat /\ (Abs(n) = 0 <=> n = 0) /\ (n > 0 => Abs(n) = n) /\ Abs(-n) = Abs(n)
BY DEF Abs

LEMMA TupleFacts ==
    ASSUME NEW t \in Tuple
    PROVE  t \in Seq(Byte) /\ Len(t) \in Nat /\ Len(t) > 0 /\ \A k \in 1..Len(t) : t[k] \in Byte
<1>1. t \in Seq(Byte) /\ t # <<>>
  BY TupleAssumption
<1> QED BY <1>1, LenProperties, EmptySeq, ElementOfSeq

LEMMA SlotFacts ==
    ASSUME TypeOK
    PROVE  /\ Len(slots) \in Nat /\ free_space_pointer \in Nat
           /\ \A j \in 1..Len(slots) :
                /\ slots[j] = [offset |-> slots[j].offset, size |-> slots[j].size]
                /\ slots[j].offset \in Int /\ slots[j].size \in Int
                /\ Abs(slots[j].size) \in Nat
                /\ slots[j].size # 0 => Abs(slots[j].size) > 0
<1>1. Len(slots) \in Nat /\ free_space_pointer \in Nat
  BY LenProperties, SizesAssumption DEF TypeOK
<1>2. \A j \in 1..Len(slots) : slots[j] \in Slot
  BY ElementOfSeq DEF TypeOK
<1>3. \A j \in 1..Len(slots) :
        /\ slots[j] = [offset |-> slots[j].offset, size |-> slots[j].size]
        /\ slots[j].offset \in Int /\ slots[j].size \in Int
  BY <1>2 DEF Slot
<1>4. \A n \in Int : Abs(n) \in Nat /\ (n # 0 => Abs(n) > 0)
  BY DEF Abs
<1> QED BY ZenonT(60), <1>1, <1>3, <1>4

\* Layout spelled out over the numbers it is about.
LEMMA LayoutFacts ==
    ASSUME IInv
    PROVE  /\ HeaderSize + SlotSize * Len(slots) <= free_space_pointer
           /\ \A j \in 1..Len(slots) : slots[j].size # 0 =>
                /\ free_space_pointer <= slots[j].offset
                /\ slots[j].offset + Abs(slots[j].size) <= PageSize
           /\ \A j, k \in 1..Len(slots) : slots[j].size # 0 /\ slots[k].size # 0 /\ j # k =>
                \/ slots[j].offset + Abs(slots[j].size) <= slots[k].offset
                \/ slots[k].offset + Abs(slots[k].size) <= slots[j].offset
BY DEF IInv, Layout, Used, End

\* The bytes of two slots agree if each byte does.
LEMMA SameTuple ==
    ASSUME NEW j \in 1..Len(slots), Abs(slots'[j].size) = Abs(slots[j].size),
           \A k \in 1..Abs(slots[j].size) :
                mem'[slots'[j].offset + k - 1] = mem[slots[j].offset + k - 1]
    PROVE  TupleAt(j)' = TupleAt(j)
BY DEF TupleAt

-----------------------------------------------------------------------------

LEMMA InitInv == Init => IInv
<1> SUFFICES ASSUME Init PROVE IInv
  OBVIOUS
<1>1. slots = <<>> /\ free_space_pointer = PageSize /\ slots \in Seq(Slot) /\ Len(slots) = 0
  BY DEF Init
<1>2. mem \in [Address -> Byte]
  BY DEF Init
<1>3. TypeOK
  BY <1>1, <1>2, SizesAssumption DEF TypeOK
<1>4. SlotSize * 0 = 0
  BY SizesAssumption
<1>5. Layout
  BY <1>1, <1>4, SizesAssumption DEF Layout, Used
<1> QED BY <1>3, <1>5 DEF IInv

\* Flipping the sign of a size changes neither the layout nor the bytes.
LEMMA FlipInv ==
    ASSUME IInv, NEW i \in 1..Len(slots), slots[i].size # 0,
           slots' = [slots EXCEPT ![i] = [offset |-> @.offset, size |-> -@.size]],
           UNCHANGED <<free_space_pointer, mem>>
    PROVE  /\ IInv' /\ Len(slots') = Len(slots)
           /\ slots'[i].size = -slots[i].size
           /\ \A j \in 1..Len(slots) : j # i => slots'[j] = slots[j]
           /\ \A j \in 1..Len(slots) : TupleAt(j)' = TupleAt(j)
<1>0. TypeOK /\ Layout
  BY DEF IInv
<1>1. PICK o, s : o = slots[i].offset /\ s = slots[i].size
  BY ZenonT(60)
<1>2. o \in Int /\ s \in Int /\ slots[i] = [offset |-> o, size |-> s] /\ Abs(-s) = Abs(s)
  BY <1>0, <1>1, SlotFacts, AbsFacts
<1>3. slots' = [slots EXCEPT ![i] = [offset |-> o, size |-> -s]]
  BY <1>1
<1>4. /\ slots' \in Seq(Slot) /\ Len(slots') = Len(slots)
      /\ slots'[i] = [offset |-> o, size |-> -s]
      /\ \A j \in 1..Len(slots) : j # i => slots'[j] = slots[j]
  <2>1. [offset |-> o, size |-> -s] \in Slot
    BY <1>2 DEF Slot
  <2> QED BY <2>1, <1>0, <1>3, ExceptSeq DEF TypeOK
<1>5. \A j \in 1..Len(slots) : /\ slots'[j].offset = slots[j].offset
                               /\ Abs(slots'[j].size) = Abs(slots[j].size)
                               /\ slots'[j].size # 0 <=> slots[j].size # 0
  <2>1. -s # 0
    BY <1>1, <1>2
  <2> QED BY <2>1, <1>1, <1>2, <1>4
<1>6. TypeOK'
  BY <1>0, <1>4 DEF TypeOK
<1>7. Layout'
  BY <1>0, <1>4, <1>5 DEF Layout, Used, End
<1>8. \A j \in 1..Len(slots) : TupleAt(j)' = TupleAt(j)
  BY <1>5 DEF TupleAt
<1> QED BY <1>1, <1>4, <1>6, <1>7, <1>8 DEF IInv

LEMMA InsertTupleInv ==
    ASSUME IInv, NEW t \in Tuple, NEW i \in 1..(Len(slots) + 1), InsertTuple(i, t)
    PROVE  /\ IInv'
           /\ Len(slots') = IF i <= Len(slots) THEN Len(slots) ELSE Len(slots) + 1
           /\ i <= Len(slots) => slots[i].size = 0
           /\ slots'[i].size > 0 /\ TupleAt(i)' = t
           /\ \A j \in 1..Len(slots) : j # i => slots'[j] = slots[j] /\ TupleAt(j)' = TupleAt(j)
<1>0. TypeOK /\ Layout
  BY DEF IInv
<1>1. PICK n, f, L, s : n = Len(t) /\ f = free_space_pointer /\ L = Len(slots)
                        /\ s = [offset |-> f - n, size |-> n]
  BY ZenonT(60)
<1>2. /\ n \in Nat /\ n > 0 /\ f \in Nat /\ L \in Nat /\ f <= PageSize
      /\ \A k \in 1..n : t[k] \in Byte
      /\ s \in Slot /\ s.offset = f - n /\ s.size = n /\ Abs(n) = n
  <2>1. n \in Nat /\ n > 0 /\ \A k \in 1..n : t[k] \in Byte
    BY <1>1, TupleFacts
  <2>2. f \in Nat /\ L \in Nat
    BY <1>0, <1>1, SlotFacts
  <2>3. f <= PageSize
    BY <1>0, <1>1, SizesAssumption DEF TypeOK
  <2>4. s \in Slot /\ s.offset = f - n /\ s.size = n
    BY <2>1, <2>2, <1>1 DEF Slot
  <2>5. Abs(n) = n
    BY <2>1 DEF Abs
  <2> QED BY <2>1, <2>2, <2>3, <2>4, <2>5
<1>3. /\ f - HeaderSize - SlotSize * L >= n
      /\ Target(i, t)
      /\ free_space_pointer' = f - n
      /\ mem' = Copy(mem, f - n, t)
      /\ slots' = IF i <= L THEN [slots EXCEPT ![i] = s] ELSE Append(slots, s)
  BY <1>1 DEF InsertTuple, FreeSpaceSize
<1>4. /\ SlotSize * L \in Nat /\ SlotSize * (L + 1) = SlotSize * L + SlotSize
      /\ HeaderSize \in Nat /\ SlotSize \in Nat /\ PageSize \in Nat
  BY <1>2, SizesAssumption
<1>5. /\ i <= L => slots[i].size = 0
      /\ i > L => i = L + 1 /\ f - HeaderSize - SlotSize * L >= n + SlotSize
  <2>1. CASE i <= L
    BY <2>1, <1>1, <1>2, <1>3 DEF Target
  <2>2. CASE i > L
    BY <2>2, <1>1, <1>2, <1>3 DEF Target, FreeSpaceSize
  <2> QED BY <2>1, <2>2, <1>2
<1>6. /\ slots' \in Seq(Slot)
      /\ Len(slots') = IF i <= L THEN L ELSE L + 1
      /\ slots'[i] = s
      /\ \A j \in 1..L : j # i => slots'[j] = slots[j]
  <2>1. CASE i <= L
    <3>1. i \in 1..Len(slots)
      BY <2>1, <1>1, <1>2
    <3> QED BY <2>1, <3>1, <1>0, <1>1, <1>2, <1>3, ExceptSeq DEF TypeOK
  <2>2. CASE i > L
    <3>1. slots' = Append(slots, s) /\ i = L + 1
      BY <2>2, <1>2, <1>3, <1>5
    <3> QED BY <2>2, <3>1, <1>0, <1>1, <1>2, AppendProperties DEF TypeOK
  <2>3. i <= L \/ i > L
    BY <1>1, <1>2
  <2> QED BY ZenonT(60), <2>1, <2>2, <2>3
<1>7. f - n >= 0 /\ f - n <= PageSize
  BY <1>2, <1>3, <1>4
<1>8. /\ mem' \in [Address -> Byte]
      /\ \A k \in 1..n : mem'[f - n + k - 1] = t[k]
      /\ \A a \in Address : a >= f => mem'[a] = mem[a]
  <2>1. mem' = [k \in Address |->
                  IF k \in (f - n)..(f - n + n - 1) THEN t[k - (f - n) + 1] ELSE mem[k]]
    BY <1>1, <1>3 DEF Copy
  <2>2. \A k \in Address : k \in (f - n)..(f - n + n - 1) => k - (f - n) + 1 \in 1..n
    BY <1>2 DEF Address
  <2>3. mem' \in [Address -> Byte]
    BY <2>1, <2>2, <1>0, <1>2 DEF TypeOK
  <2>4. ASSUME NEW k \in 1..n PROVE mem'[f - n + k - 1] = t[k]
    <3>1. /\ f - n + k - 1 \in Address /\ f - n + k - 1 \in (f - n)..(f - n + n - 1)
          /\ (f - n + k - 1) - (f - n) + 1 = k
      BY <1>2, <1>4, <1>7 DEF Address
    <3> QED BY <3>1, <2>1
  <2>5. \A a \in Address : a >= f => mem'[a] = mem[a]
    BY <2>1, <1>2 DEF Address
  <2> QED BY <2>3, <2>4, <2>5
<1>9. TypeOK'
  BY <1>3, <1>4, <1>6, <1>7, <1>8 DEF TypeOK
<1>10. \A j \in 1..L : slots[j].size # 0 =>
            /\ f <= slots[j].offset /\ slots[j].offset \in Int
            /\ slots[j].offset + Abs(slots[j].size) <= PageSize /\ Abs(slots[j].size) \in Nat
  BY ZenonT(60), <1>0, <1>1, LayoutFacts, SlotFacts
<1>11. Layout'
  <2>1. HeaderSize + SlotSize * Len(slots') <= free_space_pointer'
    <3>1. CASE i <= L
      BY <3>1, <1>2, <1>3, <1>4, <1>6
    <3>2. CASE i > L
      BY <3>2, <1>2, <1>3, <1>4, <1>5, <1>6
    <3> QED BY <3>1, <3>2, <1>2
  <2>2. ASSUME NEW j \in 1..Len(slots'), slots'[j].size # 0
        PROVE  \/ j = i /\ slots'[j] = s
               \/ j \in 1..L /\ j # i /\ slots'[j] = slots[j] /\ slots[j].size # 0
    BY <2>2, <1>2, <1>5, <1>6
  <2>3. ASSUME NEW j \in 1..Len(slots'), slots'[j].size # 0
        PROVE  /\ f - n <= slots'[j].offset
               /\ slots'[j].offset + Abs(slots'[j].size) <= PageSize
    <3>1. CASE j = i /\ slots'[j] = s
      BY <3>1, <1>2
    <3>2. CASE j \in 1..L /\ slots'[j] = slots[j] /\ slots[j].size # 0
      BY <3>2, <1>2, <1>10
    <3> QED BY <2>2, <2>3, <3>1, <3>2
  <2>4. ASSUME NEW j \in 1..Len(slots'), NEW k \in 1..Len(slots'), j # k,
               slots'[j].size # 0, slots'[k].size # 0
        PROVE  \/ slots'[j].offset + Abs(slots'[j].size) <= slots'[k].offset
               \/ slots'[k].offset + Abs(slots'[k].size) <= slots'[j].offset
    <3>1. CASE j = i
      <4>1. slots'[j] = s /\ k \in 1..L /\ slots'[k] = slots[k] /\ slots[k].size # 0
        BY <2>2, <2>4, <3>1, <1>6
      <4> QED BY <4>1, <1>2, <1>10
    <3>2. CASE k = i
      <4>1. slots'[k] = s /\ j \in 1..L /\ slots'[j] = slots[j] /\ slots[j].size # 0
        BY <2>2, <2>4, <3>2, <1>6
      <4> QED BY <4>1, <1>2, <1>10
    <3>3. CASE j # i /\ k # i
      <4>1. /\ k \in 1..L /\ slots'[k] = slots[k] /\ slots[k].size # 0
            /\ j \in 1..L /\ slots'[j] = slots[j] /\ slots[j].size # 0
        BY <2>2, <2>4, <3>3
      <4> QED BY <4>1, <2>4, <1>0, <1>1, LayoutFacts
    <3> QED BY <3>1, <3>2, <3>3
  <2> QED BY <2>1, <2>3, <2>4, <1>3 DEF Layout, Used, End
<1>12. TupleAt(i)' = t
  <2>1. TupleAt(i)' = [k \in 1..n |-> mem'[f - n + k - 1]]
    BY <1>2, <1>6 DEF TupleAt
  <2>2. [k \in 1..n |-> mem'[f - n + k - 1]] = [k \in 1..n |-> t[k]]
    BY <1>8
  <2>3. t = [k \in 1..n |-> t[k]]
    BY <1>1, TupleFacts
  <2> QED BY <2>1, <2>2, <2>3
<1>13. ASSUME NEW j \in 1..L, j # i PROVE TupleAt(j)' = TupleAt(j)
  <2>1. slots'[j] = slots[j]
    BY <1>6, <1>13
  <2>2. ASSUME NEW k \in 1..Abs(slots[j].size)
        PROVE  mem'[slots[j].offset + k - 1] = mem[slots[j].offset + k - 1]
    <3>1. slots[j].size # 0
      BY <1>0, <1>1, SlotFacts DEF Abs
    <3>2. slots[j].offset + k - 1 \in Address /\ slots[j].offset + k - 1 >= f
      BY <3>1, <1>2, <1>4, <1>10 DEF Address
    <3> QED BY <3>2, <1>8
  <2> QED BY <2>1, <2>2, <1>1, SameTuple
<1> QED BY <1>1, <1>2, <1>5, <1>6, <1>9, <1>11, <1>12, <1>13 DEF IInv

-----------------------------------------------------------------------------
(* UpdateTuple and ApplyDelete: slot i shrinks by d (grows if d < 0) to n   *)
(* bytes, and the tuples below it move up by d.                            *)

Bottom == HeaderSize + SlotSize * Len(slots)

SlotsShifted(i, o, d) ==
    \A j \in 1..Len(slots) : j # i =>
        /\ slots'[j].size = slots[j].size
        /\ slots[j].size # 0 =>
            slots'[j].offset = IF slots[j].offset < o THEN slots[j].offset + d
                               ELSE slots[j].offset

BytesShifted(f, o, z, d) ==
    /\ \A a \in Address : a \in (f + d)..(o + d - 1) => mem'[a] = mem[a - d]
    /\ \A a \in Address : a >= o + z => mem'[a] = mem[a]

Shifted(i, n, f, o, z, d) ==
    /\ f = free_space_pointer /\ o = slots[i].offset /\ z = Abs(slots[i].size)
    /\ z > 0 /\ d = z - n /\ f + d >= Bottom
    /\ slots' \in Seq(Slot) /\ Len(slots') = Len(slots)
    /\ SlotsShifted(i, o, d)
    /\ slots'[i].size = n /\ (n > 0 => slots'[i].offset = o + d)
    /\ free_space_pointer' = f + d
    /\ mem' \in [Address -> Byte]
    /\ BytesShifted(f, o, z, d)

LEMMA ShiftInv ==
    ASSUME IInv, NEW i \in 1..Len(slots), NEW n \in Nat,
           NEW f, NEW o, NEW z, NEW d, Shifted(i, n, f, o, z, d)
    PROVE  /\ IInv'
           /\ \A j \in 1..Len(slots) : j # i => TupleAt(j)' = TupleAt(j)
<1>0. TypeOK /\ Layout
  BY DEF IInv
<1>a. f = free_space_pointer /\ o = slots[i].offset /\ z = Abs(slots[i].size) /\ z > 0
  BY DEF Shifted
<1>1. /\ f \in Nat /\ o \in Int /\ z \in Nat /\ slots[i].size # 0 /\ z > 0
      /\ f <= o /\ o + z <= PageSize
      /\ PageSize \in Nat /\ Bottom \in Nat /\ Len(slots) \in Nat
  <2>1. f \in Nat /\ o \in Int /\ z \in Nat /\ slots[i].size \in Int /\ Len(slots) \in Nat
    BY ZenonT(60), <1>0, <1>a, SlotFacts
  <2>2. slots[i].size # 0
    BY <2>1, <1>a DEF Abs
  <2>3. f <= o /\ o + z <= PageSize
    BY <2>2, <1>0, <1>a, LayoutFacts
  <2>4. PageSize \in Nat /\ Bottom \in Nat
    BY <2>1, SizesAssumption DEF Bottom
  <2> QED BY <2>1, <2>2, <2>3, <2>4, <1>a
<1>2. d \in Int /\ d = z - n /\ 0 <= f + d /\ f + d <= PageSize /\ f + d >= Bottom
  <2>1. d = z - n /\ f + d >= Bottom
    BY DEF Shifted
  <2> QED BY <2>1, <1>1
<1>3. /\ slots' \in Seq(Slot) /\ Len(slots') = Len(slots)
      /\ free_space_pointer' = f + d /\ mem' \in [Address -> Byte]
  BY DEF Shifted
<1>4. TypeOK'
  <2>1. free_space_pointer' \in 0..PageSize
    BY <1>1, <1>2, <1>3
  <2> QED BY <2>1, <1>3 DEF TypeOK
<1>5. \A j \in 1..Len(slots) : j # i => slots'[j].size = slots[j].size
  BY DEF Shifted, SlotsShifted
<1>6. slots'[i].size = n /\ Abs(n) = n /\ (n > 0 => slots'[i].offset = o + d)
  BY DEF Shifted, Abs
\* Every other tuple lies below slot i and moves, or above it and stays.
<1>7. ASSUME NEW j \in 1..Len(slots), j # i, slots[j].size # 0,
             NEW x, NEW y, x = slots[j].offset, y = Abs(slots[j].size)
      PROVE  /\ x \in Int /\ y \in Nat /\ y > 0 /\ f <= x /\ x + y <= PageSize
             /\ (x + y <= o /\ slots'[j].offset = x + d) \/ (o + z <= x /\ slots'[j].offset = x)
  <2>1. x \in Int /\ y \in Nat /\ y > 0
    BY ZenonT(60), <1>0, <1>7, SlotFacts
  <2>2. f <= x /\ x + y <= PageSize /\ (x + y <= o \/ o + z <= x)
    BY <1>0, <1>a, <1>1, <1>7, LayoutFacts
  <2>3. slots'[j].offset = IF x < o THEN x + d ELSE x
    BY <1>7 DEF Shifted, SlotsShifted
  <2>4. CASE x + y <= o
    <3>1. x < o
      BY <2>1, <2>4, <1>1
    <3> QED BY <2>1, <2>2, <2>3, <2>4, <3>1
  <2>5. CASE o + z <= x
    <3>1. ~(x < o)
      BY <2>1, <2>5, <1>1
    <3> QED BY <2>1, <2>2, <2>3, <2>5, <3>1
  <2> QED BY <2>2, <2>4, <2>5
<1>8. Layout'
  <2>1. HeaderSize + SlotSize * Len(slots') <= free_space_pointer'
    <3>1. HeaderSize + SlotSize * Len(slots') = Bottom
      BY <1>3 DEF Bottom
    <3> QED BY <3>1, <1>1, <1>2, <1>3
  <2>2. ASSUME NEW j \in 1..Len(slots), slots'[j].size # 0
        PROVE  /\ f + d <= slots'[j].offset
               /\ slots'[j].offset + Abs(slots'[j].size) <= PageSize
    <3>1. CASE j = i
      <4>1. slots'[j].offset = o + d /\ Abs(slots'[j].size) = n
        BY <2>2, <3>1, <1>6
      <4> QED BY <4>1, <1>1, <1>2
    <3>2. CASE j # i
      <4>1. PICK x, y : x = slots[j].offset /\ y = Abs(slots[j].size)
        OBVIOUS
      <4>2. slots[j].size # 0 /\ Abs(slots'[j].size) = y
        BY <2>2, <3>2, <4>1, <1>5
      <4>3. /\ x \in Int /\ y \in Nat /\ y > 0 /\ f <= x /\ x + y <= PageSize
            /\ (x + y <= o /\ slots'[j].offset = x + d) \/ (o + z <= x /\ slots'[j].offset = x)
        BY <3>2, <4>1, <4>2, <1>7
      <4> QED BY <4>2, <4>3, <1>1, <1>2
    <3> QED BY <3>1, <3>2
  <2>3. ASSUME NEW j \in 1..Len(slots), j # i, slots'[j].size # 0, slots'[i].size # 0
        PROVE  \/ slots'[j].offset + Abs(slots'[j].size) <= slots'[i].offset
               \/ slots'[i].offset + Abs(slots'[i].size) <= slots'[j].offset
    <3>1. PICK x, y : x = slots[j].offset /\ y = Abs(slots[j].size)
      OBVIOUS
    <3>2. slots[j].size # 0 /\ Abs(slots'[j].size) = y
      BY <2>3, <3>1, <1>5
    <3>3. /\ x \in Int /\ y \in Nat /\ y > 0
          /\ (x + y <= o /\ slots'[j].offset = x + d) \/ (o + z <= x /\ slots'[j].offset = x)
      BY <2>3, <3>1, <3>2, <1>7
    <3>4. slots'[i].offset = o + d /\ Abs(slots'[i].size) = n
      BY <2>3, <1>6
    <3> QED BY <3>2, <3>3, <3>4, <1>1, <1>2
  <2>4. ASSUME NEW j \in 1..Len(slots), NEW k \in 1..Len(slots), j # k, j # i, k # i,
               slots'[j].size # 0, slots'[k].size # 0
        PROVE  \/ slots'[j].offset + Abs(slots'[j].size) <= slots'[k].offset
               \/ slots'[k].offset + Abs(slots'[k].size) <= slots'[j].offset
    <3>1. PICK x, y, v, w : /\ x = slots[j].offset /\ y = Abs(slots[j].size)
                            /\ v = slots[k].offset /\ w = Abs(slots[k].size)
      OBVIOUS
    <3>2. /\ slots[j].size # 0 /\ Abs(slots'[j].size) = y
          /\ slots[k].size # 0 /\ Abs(slots'[k].size) = w
      BY <2>4, <3>1, <1>5
    <3>3. /\ x \in Int /\ y \in Nat /\ y > 0
          /\ (x + y <= o /\ slots'[j].offset = x + d) \/ (o + z <= x /\ slots'[j].offset = x)
      BY <2>4, <3>1, <3>2, <1>7
    <3>4. /\ v \in Int /\ w \in Nat /\ w > 0
          /\ (v + w <= o /\ slots'[k].offset = v + d) \/ (o + z <= v /\ slots'[k].offset = v)
      BY <2>4, <3>1, <3>2, <1>7
    <3>5. x + y <= v \/ v + w <= x
      BY <2>4, <3>1, <3>2, <1>0, LayoutFacts
    <3>6. slots'[j].offset + y <= slots'[k].offset \/ slots'[k].offset + w <= slots'[j].offset
      <4>0. /\ x \in Int /\ y \in Nat /\ v \in Int /\ w \in Nat /\ o \in Int /\ z \in Nat
            /\ d \in Int /\ d = z - n
        BY <3>3, <3>4, <1>1, <1>2
      <4>1. CASE x + y <= o /\ slots'[j].offset = x + d /\ v + w <= o /\ slots'[k].offset = v + d
        <5>1. x + d + y <= v + d \/ v + d + w <= x + d
          BY <4>0, <3>5
        <5> QED BY <5>1, <4>1
      <4>2. CASE x + y <= o /\ slots'[j].offset = x + d /\ o + z <= v /\ slots'[k].offset = v
        <5>1. x + d + y <= v
          BY <4>0, <4>2
        <5> QED BY <5>1, <4>2
      <4>3. CASE o + z <= x /\ slots'[j].offset = x /\ v + w <= o /\ slots'[k].offset = v + d
        <5>1. v + d + w <= x
          BY <4>0, <4>3
        <5> QED BY <5>1, <4>3
      <4>4. CASE slots'[j].offset = x /\ slots'[k].offset = v
        BY <4>4, <3>5
      <4> QED BY <3>3, <3>4, <4>1, <4>2, <4>3, <4>4
    <3> QED BY <3>2, <3>6
  <2>5. ASSUME NEW j \in 1..Len(slots), NEW k \in 1..Len(slots), j # k,
               slots'[j].size # 0, slots'[k].size # 0
        PROVE  \/ slots'[j].offset + Abs(slots'[j].size) <= slots'[k].offset
               \/ slots'[k].offset + Abs(slots'[k].size) <= slots'[j].offset
    BY <2>3, <2>4, <2>5
  <2> QED BY <2>1, <2>2, <2>5, <1>3 DEF Layout, Used, End
<1>9. ASSUME NEW j \in 1..Len(slots), j # i PROVE TupleAt(j)' = TupleAt(j)
  <2>1. slots'[j].size = slots[j].size
    BY <1>5, <1>9
  <2>2. ASSUME NEW k \in 1..Abs(slots[j].size)
        PROVE  mem'[slots'[j].offset + k - 1] = mem[slots[j].offset + k - 1]
    <3>1. slots[j].size # 0
      BY <1>0, SlotFacts DEF Abs
    <3>2. PICK x, y : x = slots[j].offset /\ y = Abs(slots[j].size)
      OBVIOUS
    <3>3. /\ x \in Int /\ y \in Nat /\ k \in 1..y /\ f <= x /\ x + y <= PageSize
          /\ (x + y <= o /\ slots'[j].offset = x + d) \/ (o + z <= x /\ slots'[j].offset = x)
      BY <3>1, <3>2, <1>7, <1>9
    <3>4. CASE x + y <= o /\ slots'[j].offset = x + d
      <4>1. /\ x + d + k - 1 \in Address /\ x + d + k - 1 \in (f + d)..(o + d - 1)
            /\ (x + d + k - 1) - d = x + k - 1
        BY <3>3, <3>4, <1>1, <1>2 DEF Address
      <4>2. \A a \in Address : a \in (f + d)..(o + d - 1) => mem'[a] = mem[a - d]
        BY DEF Shifted, BytesShifted
      <4> QED BY <3>2, <3>4, <4>1, <4>2
    <3>5. CASE o + z <= x /\ slots'[j].offset = x
      <4>1. x + k - 1 \in Address /\ x + k - 1 >= o + z
        BY <3>3, <3>5, <1>1, <1>2 DEF Address
      <4>2. \A a \in Address : a >= o + z => mem'[a] = mem[a]
        BY DEF Shifted, BytesShifted
      <4> QED BY <3>2, <3>5, <4>1, <4>2
    <3> QED BY <3>3, <3>4, <3>5
  <2> QED BY <2>1, <2>2, <1>0, SameTuple
<1> QED BY <1>4, <1>8, <1>9 DEF IInv

LEMMA ApplyDeleteInv ==
    ASSUME IInv, NEW i \in 1..Len(slots), ApplyDelete(i)
    PROVE  /\ IInv' /\ Len(slots') = Len(slots)
           /\ slots[i].size # 0 /\ slots'[i].size = 0
           /\ \A j \in 1..Len(slots) : j # i =>
                slots'[j].size = slots[j].size /\ TupleAt(j)' = TupleAt(j)
<1>0. TypeOK /\ Layout
  BY DEF IInv
<1>1. PICK f, o, z : f = free_space_pointer /\ o = slots[i].offset /\ z = Abs(slots[i].size)
  OBVIOUS
<1>2. /\ z # 0 /\ o >= f
      /\ mem' = Move(mem, f, o, z)
      /\ free_space_pointer' = f + z
      /\ slots' = [j \in 1..Len(slots) |->
                IF j = i THEN [offset |-> 0, size |-> 0]
                ELSE [offset |-> IF slots[j].size # 0 /\ slots[j].offset < o
                                 THEN slots[j].offset + z ELSE slots[j].offset,
                      size |-> slots[j].size]]
  BY <1>1 DEF ApplyDelete
<1>3. /\ f \in Nat /\ o \in Int /\ z \in Nat /\ z > 0 /\ Len(slots) \in Nat
      /\ slots[i].size \in Int /\ slots[i].size # 0 /\ o + z <= PageSize /\ PageSize \in Nat
  <2>1. /\ f \in Nat /\ o \in Int /\ z \in Nat /\ Len(slots) \in Nat /\ slots[i].size \in Int
    BY ZenonT(60), <1>0, <1>1, SlotFacts
  <2>2. slots[i].size # 0
    BY <2>1, <1>1, <1>2 DEF Abs
  <2>3. o + z <= PageSize
    BY <2>2, <1>1, LayoutFacts
  <2> QED BY <2>1, <2>2, <2>3, <1>2, SizesAssumption
<1>4. \A j \in 1..Len(slots) : slots[j].offset \in Int /\ slots[j].size \in Int
  BY ZenonT(60), <1>0, SlotFacts
<1>5. slots' \in Seq(Slot) /\ Len(slots') = Len(slots)
  <2>1. \A j \in 1..Len(slots) :
            (IF j = i THEN [offset |-> 0, size |-> 0]
             ELSE [offset |-> IF slots[j].size # 0 /\ slots[j].offset < o
                              THEN slots[j].offset + z ELSE slots[j].offset,
                   size |-> slots[j].size]) \in Slot
    BY <1>3, <1>4 DEF Slot
  <2> QED BY <2>1, <1>2, <1>3
<1>6. \A j \in 1..Len(slots) : j # i =>
        /\ slots'[j].size = slots[j].size
        /\ slots[j].size # 0 =>
            slots'[j].offset = IF slots[j].offset < o THEN slots[j].offset + z ELSE slots[j].offset
  BY <1>2
<1>7. slots'[i].size = 0
  BY <1>2
<1>8. /\ mem' \in [Address -> Byte]
      /\ \A a \in Address : a \in (f + z)..(o + z - 1) => mem'[a] = mem[a - z]
      /\ \A a \in Address : a >= o + z => mem'[a] = mem[a]
  <2>1. \A a \in Address : a \in (f + z)..(o + z - 1) => a - z \in Address
    BY <1>3 DEF Address
  <2>2. mem' = [a \in Address |-> IF a \in (f + z)..(o + z - 1) THEN mem[a - z] ELSE mem[a]]
    BY <1>2 DEF Move
  <2>3. mem' \in [Address -> Byte]
    BY <2>1, <2>2, <1>0 DEF TypeOK
  <2> QED BY <2>2, <2>3, <1>3 DEF Address
<1>9. z = z - 0 /\ f + z >= HeaderSize + SlotSize * Len(slots)
  <2>1. HeaderSize + SlotSize * Len(slots) <= f
    BY <1>1, LayoutFacts
  <2>2. HeaderSize + SlotSize * Len(slots) \in Nat
    BY <1>3, SizesAssumption
  <2> QED BY <2>1, <2>2, <1>3
<1>10. IInv' /\ \A j \in 1..Len(slots) : j # i => TupleAt(j)' = TupleAt(j)
  <2>1. SlotsShifted(i, o, z) /\ BytesShifted(f, o, z, z)
    BY <1>6, <1>8 DEF SlotsShifted, BytesShifted
  <2>2. /\ f + z >= Bottom /\ z = z - 0 /\ ~(0 > 0)
    BY <1>9 DEF Bottom
  <2>3. Shifted(i, 0, f, o, z, z)
    BY <2>1, <2>2, <1>1, <1>2, <1>3, <1>5, <1>7, <1>8 DEF Shifted
  <2> QED BY <2>3, ShiftInv
<1> QED BY <1>3, <1>5, <1>6, <1>7, <1>10

LEMMA UpdateTupleInv ==
    ASSUME ~ResizeWhileMarked, IInv,
           NEW i \in 1..Len(slots), NEW t \in Tuple, UpdateTuple(i, t)
    PROVE  /\ IInv' /\ Len(slots') = Len(slots)
           /\ slots[i].size > 0 /\ slots'[i].size > 0 /\ TupleAt(i)' = t
           /\ \A j \in 1..Len(slots) : j # i =>
                slots'[j].size = slots[j].size /\ TupleAt(j)' = TupleAt(j)
<1>0. TypeOK /\ Layout
  BY DEF IInv
<1>1. PICK f, o, z, n, d : /\ f = free_space_pointer /\ o = slots[i].offset
                           /\ z = slots[i].size /\ n = Len(t) /\ d = z - n
  BY ZenonT(60)
<1>2. /\ z > 0 /\ o >= f
      /\ f - HeaderSize - SlotSize * Len(slots) >= -d
      /\ mem' = Copy(Move(mem, f, o, d), o + d, t)
      /\ free_space_pointer' = f + d
  BY <1>1 DEF UpdateTuple, FreeSpaceSize
<1>a. d # 0 => \A j \in 1..Len(slots) : slots[j].size < 0 => slots[j].offset > o
  BY <1>1 DEF UpdateTuple
<1>b. slots' = [j \in 1..Len(slots) |->
                [offset |-> IF slots[j].size > 0 /\ slots[j].offset < o + z
                            THEN slots[j].offset + d ELSE slots[j].offset,
                 size |-> IF j = i THEN n ELSE slots[j].size]]
  BY <1>1 DEF UpdateTuple
<1>3. /\ f \in Nat /\ o \in Int /\ z \in Nat /\ n \in Nat /\ n > 0 /\ d \in Int
      /\ z > 0 /\ o >= f /\ d = z - n
      /\ Len(slots) \in Nat /\ Abs(z) = z /\ o + z <= PageSize /\ PageSize \in Nat
  <2>1. f \in Nat /\ o \in Int /\ z \in Int /\ Len(slots) \in Nat
    BY ZenonT(60), <1>0, <1>1, SlotFacts
  <2>2. n \in Nat /\ n > 0
    BY <1>1, TupleFacts
  <2>3. z > 0 /\ o >= f /\ d = z - n
    BY <1>1, <1>2
  <2>4. Abs(z) = z /\ z # 0
    BY <2>1, <2>3 DEF Abs
  <2>5. o + z <= PageSize
    BY <2>4, <1>1, LayoutFacts
  <2> QED BY <2>1, <2>2, <2>3, <2>4, <2>5, SizesAssumption
<1>c. \A k \in 1..n : t[k] \in Byte
  BY <1>1, TupleFacts
<1>4. \A j \in 1..Len(slots) : slots[j].offset \in Int /\ slots[j].size \in Int
                               /\ Abs(slots[j].size) \in Nat
                               /\ (slots[j].size # 0 => Abs(slots[j].size) > 0)
  BY ZenonT(60), <1>0, SlotFacts
<1>5. slots' \in Seq(Slot) /\ Len(slots') = Len(slots)
  <2>1. \A j \in 1..Len(slots) :
            [offset |-> IF slots[j].size > 0 /\ slots[j].offset < o + z
                        THEN slots[j].offset + d ELSE slots[j].offset,
             size |-> IF j = i THEN n ELSE slots[j].size] \in Slot
    BY <1>3, <1>4 DEF Slot
  <2> QED BY <2>1, <1>b, <1>3
<1>6. ASSUME NEW j \in 1..Len(slots), j # i
      PROVE  /\ slots'[j].size = slots[j].size
             /\ slots[j].size # 0 =>
                slots'[j].offset = IF slots[j].offset < o THEN slots[j].offset + d
                                   ELSE slots[j].offset
  <2>1. /\ slots'[j].size = slots[j].size
        /\ slots'[j].offset = IF slots[j].size > 0 /\ slots[j].offset < o + z
                              THEN slots[j].offset + d ELSE slots[j].offset
    BY <1>b, <1>6
  <2>2. ASSUME slots[j].size # 0
        PROVE  slots[j].offset + Abs(slots[j].size) <= o \/ o + z <= slots[j].offset
    <3>1. slots[i].size # 0 /\ Abs(slots[i].size) = z /\ slots[i].offset = o
      BY <1>1, <1>3
    <3> QED BY <2>2, <3>1, <1>6, LayoutFacts
  <2>3. PICK oj, zj, aj : oj = slots[j].offset /\ zj = slots[j].size /\ aj = Abs(slots[j].size)
    BY ZenonT(60)
  <2>4. oj \in Int /\ zj \in Int /\ aj \in Nat /\ (zj # 0 => aj > 0)
    BY <2>3, <1>4
  <2>5. CASE zj > 0
    <3>1. oj + aj <= o \/ o + z <= oj
      BY <2>2, <2>3, <2>4, <2>5
    <3>2. (oj < o + z) <=> (oj < o)
      BY <3>1, <2>4, <2>5, <1>3
    <3> QED BY <3>2, <2>1, <2>3, <2>5
  <2>6. CASE zj < 0
    <3>1. slots'[j].offset = oj
      BY <2>1, <2>3, <2>4, <2>6
    <3>2. d # 0 => ~(oj < o)
      BY <2>3, <2>4, <2>6, <1>a, <1>3
    <3>3. oj = IF oj < o THEN oj + d ELSE oj
      BY <3>2, <2>4, <1>3
    <3> QED BY ZenonT(60), <3>1, <3>3, <2>1, <2>3
  <2>7. CASE zj = 0
    BY <2>1, <2>3, <2>7
  <2> QED BY <2>4, <2>5, <2>6, <2>7
<1>7. slots'[i].size = n /\ slots'[i].offset = o + d
  <2>1. slots[i].size > 0 /\ slots[i].offset < o + z
    BY <1>1, <1>3
  <2> QED BY <2>1, <1>1, <1>b
<1>8. f + d >= Bottom /\ 0 <= f + d
  <2>1. PICK b : b = SlotSize * Len(slots)
    OBVIOUS
  <2>2. b \in Nat /\ HeaderSize \in Nat
    BY <2>1, <1>3, SizesAssumption
  <2>3. f - HeaderSize - b >= -d
    BY <2>1, <1>2
  <2>4. f + d >= HeaderSize + b /\ HeaderSize + b >= 0
    BY <2>2, <2>3, <1>3
  <2>5. HeaderSize + b = Bottom
    BY <2>1 DEF Bottom
  <2> QED BY <2>2, <2>4, <2>5, <1>3
<1>9. /\ mem' \in [Address -> Byte]
      /\ \A a \in Address : a \in (f + d)..(o + d - 1) => mem'[a] = mem[a - d]
      /\ \A a \in Address : a >= o + z => mem'[a] = mem[a]
      /\ \A k \in 1..n : mem'[o + d + k - 1] = t[k]
  <2>1. PICK m : m = Move(mem, f, o, d)
    OBVIOUS
  <2>2. m = [a \in Address |-> IF a \in (f + d)..(o + d - 1) THEN mem[a - d] ELSE mem[a]]
    BY <2>1 DEF Move
  <2>3. \A a \in Address : a \in (f + d)..(o + d - 1) => a - d \in Address
    BY <1>3, <1>8 DEF Address
  <2>4. m \in [Address -> Byte]
    BY <2>2, <2>3, <1>0 DEF TypeOK
  <2>5. mem' = [a \in Address |->
            IF a \in (o + d)..(o + d + n - 1) THEN t[a - (o + d) + 1] ELSE m[a]]
    BY <2>1, <1>1, <1>2 DEF Copy
  <2>6. \A a \in Address : a \in (o + d)..(o + d + n - 1) => a - (o + d) + 1 \in 1..n
    BY <1>3 DEF Address
  <2>7. mem' \in [Address -> Byte]
    BY <2>4, <2>5, <2>6, <1>c
  <2>8. \A a \in Address : a \in (f + d)..(o + d - 1) => mem'[a] = mem[a - d]
    <3>1. \A a \in Address : a \in (f + d)..(o + d - 1) => ~(a \in (o + d)..(o + d + n - 1))
      BY <1>3 DEF Address
    <3> QED BY <3>1, <2>2, <2>5
  <2>9. \A a \in Address : a >= o + z => mem'[a] = mem[a]
    <3>1. \A a \in Address : a >= o + z =>
            ~(a \in (o + d)..(o + d + n - 1)) /\ ~(a \in (f + d)..(o + d - 1))
      BY <1>3, <1>8 DEF Address
    <3> QED BY <3>1, <2>2, <2>5
  <2>10. ASSUME NEW k \in 1..n PROVE mem'[o + d + k - 1] = t[k]
    <3>1. /\ o + d + k - 1 \in Address /\ o + d + k - 1 \in (o + d)..(o + d + n - 1)
          /\ (o + d + k - 1) - (o + d) + 1 = k
      BY <1>3, <1>8 DEF Address
    <3> QED BY <3>1, <2>5
  <2> QED BY <2>7, <2>8, <2>9, <2>10
<1>10. IInv' /\ \A j \in 1..Len(slots) : j # i => TupleAt(j)' = TupleAt(j)
  <2>1. SlotsShifted(i, o, d) /\ BytesShifted(f, o, z, d)
    BY <1>6, <1>9 DEF SlotsShifted, BytesShifted
  <2>2. z = Abs(slots[i].size) /\ d = z - n
    BY <1>1, <1>3
  <2>3. Shifted(i, n, f, o, z, d)
    BY <2>1, <2>2, <1>1, <1>2, <1>5, <1>7, <1>8, <1>9 DEF Shifted
  <2> QED BY <2>3, <1>3, ShiftInv
<1>11. TupleAt(i)' = t
  <2>1. Abs(n) = n
    BY <1>3 DEF Abs
  <2>2. TupleAt(i)' = [k \in 1..n |-> mem'[o + d + k - 1]]
    BY <2>1, <1>7 DEF TupleAt
  <2>3. [k \in 1..n |-> mem'[o + d + k - 1]] = [k \in 1..n |-> t[k]]
    BY <1>9
  <2>4. t = [k \in 1..n |-> t[k]]
    BY <1>1, TupleFacts
  <2> QED BY <2>2, <2>3, <2>4
<1> QED BY <1>1, <1>2, <1>3, <1>5, <1>6, <1>7, <1>10, <1>11

-----------------------------------------------------------------------------

LEMMA NextInv == ~ResizeWhileMarked => (IInv /\ [Next]_vars => IInv')
<1> SUFFICES ASSUME ~ResizeWhileMarked, IInv, [Next]_vars PROVE IInv'
  OBVIOUS
<1>1. ASSUME NEW t \in Tuple, NEW i \in 1..(Len(slots) + 1), InsertTuple(i, t) PROVE IInv'
  BY <1>1, InsertTupleInv
<1>2. ASSUME NEW i \in 1..Len(slots), MarkDelete(i) PROVE IInv'
  <2>1. slots[i].size # 0
    BY <1>2, SlotFacts DEF MarkDelete, IInv
  <2> QED BY ZenonT(60), <2>1, <1>2, FlipInv DEF MarkDelete
<1>3. ASSUME NEW i \in 1..Len(slots), RollbackDelete(i) PROVE IInv'
  <2>1. slots[i].size # 0
    BY <1>3, SlotFacts DEF RollbackDelete, IInv
  <2> QED BY ZenonT(60), <2>1, <1>3, FlipInv DEF RollbackDelete
<1>4. ASSUME NEW i \in 1..Len(slots), ApplyDelete(i) PROVE IInv'
  BY <1>4, ApplyDeleteInv
<1>5. ASSUME NEW i \in 1..Len(slots), NEW t \in Tuple, UpdateTuple(i, t) PROVE IInv'
  BY <1>5, UpdateTupleInv
<1>6. CASE UNCHANGED vars
  BY <1>6 DEF vars, IInv, TypeOK, Layout, Used, End
<1> QED BY <1>1, <1>2, <1>3, <1>4, <1>5, <1>6 DEF Next

LEMMA Inductive == ~ResizeWhileMarked => (Spec => []IInv)
<1> SUFFICES ASSUME ~ResizeWhileMarked PROVE Spec => []IInv
  OBVIOUS
<1>1. Init => IInv
  BY InitInv
<1>2. IInv /\ [Next]_vars => IInv'
  BY NextInv
<1> QED BY <1>1, <1>2, PTL DEF Spec

-----------------------------------------------------------------------------
(* The refinement: each operation is one of TupleMap's, seen through       *)
(* Entry, or leaves every entry as it is.                                  *)

Map == [j \in 1..Len(slots) |-> Entry(j)]

LEMMA StateFacts ==
    /\ \A n \in Int : n > 0 => State(n) = "visible"
    /\ \A n \in Int : n < 0 => State(n) = "marked"
    /\ State(0) = "empty"
<1>1. ASSUME NEW n \in Int, n > 0 PROVE State(n) = "visible"
  BY <1>1 DEF State
<1>2. ASSUME NEW n \in Int, n < 0 PROVE State(n) = "marked"
  <2>1. ~(n > 0)
    BY <1>2
  <2> QED BY <2>1, <1>2 DEF State
<1>3. State(0) = "empty"
  BY DEF State
<1> QED BY <1>1, <1>2, <1>3

LEMMA EntryFacts ==
    ASSUME IInv, NEW j \in 1..Len(slots)
    PROVE  /\ Entry(j).tuple = TupleAt(j)
           /\ slots[j].size > 0 => Entry(j).state = "visible"
           /\ slots[j].size < 0 => Entry(j).state = "marked"
           /\ slots[j].size # 0 => Entry(j).state # "empty"
           /\ slots[j].size = 0 => Entry(j) = [tuple |-> <<>>, state |-> "empty"]
<1>1. slots[j].size \in Int
  BY ZenonT(60), SlotFacts DEF IInv
<1>2. ASSUME slots[j].size = 0 PROVE TupleAt(j) = <<>>
  BY <1>2 DEF TupleAt, Abs
<1>3. slots[j].size # 0 => slots[j].size > 0 \/ slots[j].size < 0
  BY <1>1
<1> QED BY <1>1, <1>2, <1>3, StateFacts DEF Entry

\* The entry of slot j after a step that gives it size n and the tuple t.
LEMMA NewEntry ==
    ASSUME NEW j, NEW n \in Int, NEW t, slots'[j].size = n, TupleAt(j)' = t
    PROVE  /\ n > 0 => Entry(j)' = [tuple |-> t, state |-> "visible"]
           /\ n < 0 => Entry(j)' = [tuple |-> t, state |-> "marked"]
           /\ n = 0 => Entry(j)' = [tuple |-> <<>>, state |-> "empty"]
<1>1. Entry(j)' = [tuple |-> t, state |-> State(n)]
  BY DEF Entry
<1>2. ASSUME n = 0 PROVE t = <<>>
  BY <1>2 DEF TupleAt, Abs
<1> QED BY <1>1, <1>2, StateFacts

LEMMA MapFacts ==
    ASSUME IInv
    PROVE  /\ Len(Map) = Len(slots) /\ DOMAIN Map = 1..Len(slots)
           /\ \A j \in 1..Len(slots) : Map[j] = Entry(j)
BY SlotFacts DEF Map, IInv

\* A step that changes one slot changes one entry.
LEMMA MapExcept ==
    ASSUME IInv, NEW i \in 1..Len(slots), NEW e, Len(slots') = Len(slots), Entry(i)' = e,
           \A j \in 1..Len(slots) : j # i => Entry(j)' = Entry(j)
    PROVE  Map' = [Map EXCEPT ![i] = e]
BY ZenonT(60) DEF Map

LEMMA MapAppend ==
    ASSUME IInv, NEW i, NEW n \in Nat, NEW e, n = Len(slots), i = n + 1, Len(slots') = n + 1,
           Entry(i)' = e,
           \A j \in 1..n : Entry(j)' = Entry(j)
    PROVE  Map' = Append(Map, e)
<1>1. Map = [j \in 1..n |-> Entry(j)] /\ Map' = [j \in 1..(n + 1) |-> Entry(j)']
  BY DEF Map
<1>2. Append(Map, e) = [j \in 1..(n + 1) |-> IF j <= n THEN Map[j] ELSE e]
  <2>1. Len(Map) = n
    BY <1>1
  <2> QED BY <2>1, <1>1
<1>3. \A j \in 1..(n + 1) : Entry(j)' = IF j <= n THEN Map[j] ELSE e
  BY <1>1
<1> QED BY <1>1, <1>2, <1>3

LEMMA TupleStep ==
    ASSUME ~ResizeWhileMarked, IInv, [Next]_vars
    PROVE  [Tuples!Next]_Map
<1>0. /\ Len(slots) \in Nat
      /\ \A j \in 1..Len(slots) : slots[j].size \in Int
  BY ZenonT(60), SlotFacts DEF IInv
<1>1. ASSUME NEW t \in Tuple, NEW i \in 1..(Len(slots) + 1), InsertTuple(i, t)
      PROVE  Tuples!Next
  <2>1. PICK e, n : e = [tuple |-> t, state |-> "visible"] /\ n = Len(slots)
    BY ZenonT(60)
  <2>2. Entry(i)' = e
    <3>1. PICK s : s = slots'[i].size
      OBVIOUS
    <3>2. i \in 1..Len(slots') /\ TypeOK'
      BY <1>0, <1>1, InsertTupleInv DEF IInv
    <3>3. s \in Int
      <4>1. slots' \in Seq(Slot)
        BY <3>2 DEF TypeOK
      <4>2. slots'[i] \in Slot
        BY <4>1, <3>2, ElementOfSeq
      <4> QED BY <4>2, <3>1 DEF Slot
    <3> QED BY <2>1, <3>1, <3>3, <1>1, InsertTupleInv, NewEntry
  <2>3. \A j \in 1..Len(slots) : j # i => Entry(j)' = Entry(j)
    BY <1>1, InsertTupleInv DEF Entry
  <2>4. CASE i <= n
    <3>1. i \in 1..Len(slots) /\ Len(slots') = Len(slots) /\ slots[i].size = 0
      BY <2>1, <2>4, <1>0, <1>1, InsertTupleInv
    <3>2. Map' = [Map EXCEPT ![i] = e]
      BY <2>2, <2>3, <3>1, MapExcept
    <3>3. i \in DOMAIN Map /\ Map[i] = [tuple |-> <<>>, state |-> "empty"]
      BY <3>1, MapFacts, EntryFacts
    <3> QED BY ZenonT(60), <2>1, <3>2, <3>3, MapFacts
            DEF Tuples!Next, Tuples!Insert, Tuples!Slot, Tuples!Empty, Map
  <2>5. CASE i > n
    <3>1. i = n + 1 /\ Len(slots') = n + 1 /\ n \in Nat
      BY <2>1, <2>5, <1>0, <1>1, InsertTupleInv
    <3>2. \A j \in 1..n : Entry(j)' = Entry(j)
      BY <2>1, <2>3, <3>1
    <3>3. Map' = Append(Map, e)
      BY <2>1, <2>2, <3>1, <3>2, MapAppend
    <3>4. i = Len(Map) + 1 /\ i \in 1..(Len(Map) + 1)
      BY <2>1, <3>1, MapFacts
    <3> QED BY ZenonT(60), <2>1, <3>3, <3>4 DEF Tuples!Next, Tuples!Insert, Tuples!Slot, Map
  <2> QED BY <2>1, <2>4, <2>5, <1>0
<1>2. ASSUME NEW i \in 1..Len(slots), MarkDelete(i) PROVE Tuples!Next
  <2>1. PICK n, t : n = slots[i].size /\ t = TupleAt(i)
    OBVIOUS
  <2>2. n \in Int /\ n > 0 /\ n # 0 /\ -n < 0 /\ -n \in Int
    BY <2>1, <1>0, <1>2 DEF MarkDelete
  <2>3. /\ Len(slots') = Len(slots) /\ slots'[i].size = -n /\ TupleAt(i)' = t
        /\ \A j \in 1..Len(slots) : j # i => slots'[j] = slots[j] /\ TupleAt(j)' = TupleAt(j)
    BY ZenonT(60), <2>1, <2>2, <1>2, FlipInv DEF MarkDelete
  <2>4. PICK e : e = [tuple |-> t, state |-> "marked"]
    BY ZenonT(60)
  <2>5. Entry(i)' = e
    BY <2>2, <2>3, <2>4, NewEntry
  <2>6. Map' = [Map EXCEPT ![i] = e]
    BY <2>3, <2>5, MapExcept DEF Entry
  <2>7. i \in DOMAIN Map /\ Map[i].state = "visible" /\ Map[i].tuple = t
    BY <2>1, <2>2, MapFacts, EntryFacts
  <2> QED BY ZenonT(60), <2>4, <2>6, <2>7 DEF Tuples!Next, Tuples!Mark, Tuples!Slot, Map
<1>3. ASSUME NEW i \in 1..Len(slots), RollbackDelete(i) PROVE Tuples!Next
  <2>1. PICK n, t : n = slots[i].size /\ t = TupleAt(i)
    OBVIOUS
  <2>2. n \in Int /\ n < 0 /\ n # 0 /\ -n > 0 /\ -n \in Int
    BY <2>1, <1>0, <1>3 DEF RollbackDelete
  <2>3. /\ Len(slots') = Len(slots) /\ slots'[i].size = -n /\ TupleAt(i)' = t
        /\ \A j \in 1..Len(slots) : j # i => slots'[j] = slots[j] /\ TupleAt(j)' = TupleAt(j)
    BY ZenonT(60), <2>1, <2>2, <1>3, FlipInv DEF RollbackDelete
  <2>4. PICK e : e = [tuple |-> t, state |-> "visible"]
    BY ZenonT(60)
  <2>5. Entry(i)' = e
    BY <2>2, <2>3, <2>4, NewEntry
  <2>6. Map' = [Map EXCEPT ![i] = e]
    BY <2>3, <2>5, MapExcept DEF Entry
  <2>7. i \in DOMAIN Map /\ Map[i].state = "marked" /\ Map[i].tuple = t
    BY <2>1, <2>2, MapFacts, EntryFacts
  <2> QED BY ZenonT(60), <2>4, <2>6, <2>7 DEF Tuples!Next, Tuples!Unmark, Tuples!Slot, Map
<1>4. ASSUME NEW i \in 1..Len(slots), ApplyDelete(i) PROVE Tuples!Next
  <2>1. /\ Len(slots') = Len(slots) /\ slots[i].size # 0 /\ slots'[i].size = 0
        /\ \A j \in 1..Len(slots) : j # i =>
                slots'[j].size = slots[j].size /\ TupleAt(j)' = TupleAt(j)
    BY <1>4, ApplyDeleteInv
  <2>2. PICK e : e = [tuple |-> <<>>, state |-> "empty"]
    BY ZenonT(60)
  <2>3. Entry(i)' = e
    <3>1. PICK t : t = TupleAt(i)'
      OBVIOUS
    <3> QED BY <2>1, <2>2, <3>1, NewEntry
  <2>4. Map' = [Map EXCEPT ![i] = e]
    BY <2>1, <2>3, MapExcept DEF Entry
  <2>5. i \in DOMAIN Map /\ Map[i].state # "empty"
    BY <2>1, MapFacts, EntryFacts
  <2> QED BY ZenonT(60), <2>2, <2>4, <2>5 DEF Tuples!Next, Tuples!Remove, Tuples!Slot, Tuples!Empty, Map
<1>5. ASSUME NEW i \in 1..Len(slots), NEW t \in Tuple, UpdateTuple(i, t) PROVE Tuples!Next
  <2>1. /\ IInv' /\ Len(slots') = Len(slots) /\ slots[i].size > 0 /\ slots'[i].size > 0
        /\ TupleAt(i)' = t
        /\ \A j \in 1..Len(slots) : j # i =>
                slots'[j].size = slots[j].size /\ TupleAt(j)' = TupleAt(j)
    BY <1>5, UpdateTupleInv
  <2>2. PICK e, n : e = [tuple |-> t, state |-> "visible"] /\ n = slots'[i].size
    BY ZenonT(60)
  <2>3. Entry(i)' = e
    <3>1. i \in 1..Len(slots') /\ TypeOK'
      BY <2>1 DEF IInv
    <3>2. n \in Int
      <4>1. slots' \in Seq(Slot)
        BY <3>1 DEF TypeOK
      <4>2. slots'[i] \in Slot
        BY <4>1, <3>1, ElementOfSeq
      <4> QED BY <4>2, <2>2 DEF Slot
    <3> QED BY <2>1, <2>2, <3>2, NewEntry
  <2>4. Map' = [Map EXCEPT ![i] = e]
    BY <2>1, <2>3, MapExcept DEF Entry
  <2>5. i \in DOMAIN Map /\ Map[i].state = "visible"
    BY <2>1, MapFacts, EntryFacts
  <2> QED BY ZenonT(60), <2>2, <2>4, <2>5 DEF Tuples!Next, Tuples!Update, Tuples!Slot, Map
<1>6. CASE UNCHANGED vars
  BY <1>6 DEF vars, Map, Entry, TupleAt
<1> QED BY <1>1, <1>2, <1>3, <1>4, <1>5, <1>6 DEF Next

-----------------------------------------------------------------------------

\* If no tuple is resized while one below it is marked, the free space
\* pointer, the slots and the bytes of a page have their types.
THEOREM TypeCorrect == ~ResizeWhileMarked => (Spec => []TypeOK)
<1>1. IInv => TypeOK
  BY DEF IInv
<1> QED BY <1>1, Inductive, PTL

\* Under the same condition the tuples of a page never overlap one another,
\* the slots, or the end of the page, for every page size and set of tuples.
THEOREM TuplesNeverOverlap == ~ResizeWhileMarked => (Spec => []Layout)
<1>1. IInv => Layout
  BY DEF IInv
<1> QED BY <1>1, Inductive, PTL

\* Under the same condition, however InsertTuple, UpdateTuple and ApplyDelete
\* move the bytes of a page, GetTuple returns from each slot the tuple last
\* stored there, and a deletion that is rolled back restores it.
THEOREM PageIsTupleMap == ~ResizeWhileMarked => (Spec => TuplesSpec)
<1> SUFFICES ASSUME ~ResizeWhileMarked PROVE Spec => TuplesSpec
  OBVIOUS
<1>1. Init => Tuples!Init
  BY DEF Init, Tuples!Init
<1>2. IInv /\ [Next]_vars => [Tuples!Next]_Map
  BY TupleStep
<1>3. Spec => []IInv
  BY Inductive
<1> QED BY <1>1, <1>2, <1>3, PTL DEF Spec, TuplesSpec, Tuples!Spec, Map

-----------------------------------------------------------------------------
(* The log manager.                                                        *)

\* Record l, of size s, is whole and in one place in the first n bytes of m.
Placed(m, l, s, n) == \E o \in 0..(n - s) : \A k \in (o + 1)..(o + s) : m[k] = l

\* The counters, and the thread: it writes flush_buffer_, and the LSN that it
\* makes persistent is one that is written.
Counters ==
    /\ persistent_lsn <= filed /\ filed <= handed /\ handed < next_lsn
    /\ thread = "writing" => buffer_used = flush_buffer /\ delta <= handed
    /\ thread = "written" => delta <= filed

\* The records that are not in the file are in the buffers: up to handed in
\* flush_buffer_, the others below the offset of log_buffer_.
Buffered ==
    \A l \in 0..(next_lsn - 1) :
        /\ l > handed => Placed(buffer[log_buffer], l, sizes[l + 1], offset)
        /\ filed < l /\ l <= handed => Placed(buffer[flush_buffer], l, sizes[l + 1], BufferSize)

\* No image has a record from behind its time.
Images ==
    \A k \in 1..BufferSize :
        /\ buffer[log_buffer][k] < next_lsn
        /\ buffer[flush_buffer][k] <= handed
        /\ \A n \in 1..Len(log_file) : log_file[n][k] <= filed

\* What is written is in the file.
Filed == \A l \in 0..(next_lsn - 1) : l <= filed => OnDisk(l)

LogInv == Counters /\ Buffered /\ Images /\ Filed

-----------------------------------------------------------------------------
(* Types.                                                                  *)

\* The thread writes one of the two buffers.
WritesBuffer == thread = "writing" => buffer_used \in 1..2

LEMMA TypeInit == LogInit => LogTypeOK /\ WritesBuffer
BY BufferAssumption DEF LogInit, LogTypeOK, WritesBuffer, Image, next_lsn, Lsn

\* The image of a buffer with one more record.
LEMMA SerializeType ==
    ASSUME NEW m \in Image, NEW o \in Nat, NEW s \in Nat, NEW l \in Lsn
    PROVE  Serialize(m, o, l, s) \in Image
BY BufferAssumption DEF Serialize, Image, Lsn

\* The steps, without their IFs and with the ghost taken apart.
LEMMA SwapFacts ==
    ASSUME swapBuffer
    PROVE  /\ log_buffer' = flush_buffer /\ flush_lsn' = next_lsn - 1 /\ handed' = next_lsn - 1
           /\ ordered' \in BOOLEAN
           /\ ordered' => ordered /\ handed = filed /\ thread # "writing"
BY ZenonT(60) DEF swapBuffer

LEMMA AppendFacts ==
    ASSUME NEW s, AppendLogRecord(s)
    PROVE  /\ next_lsn < MaxRecords
           /\ IsFull(s) => swapBuffer /\ thread' = Notified
           /\ ~IsFull(s) => NoSwap /\ thread' = thread
           /\ UNCHANGED <<persistent_lsn, promise, pool, delta, buffer_used, log_file, filed>>
BY ZenonT(60) DEF AppendLogRecord

LEMMA ResumeFacts ==
    ASSUME Resume
    PROVE  /\ delta' = flush_lsn' /\ thread' = "unlocked"
           /\ UNCHANGED <<buffer, sizes, persistent_lsn, promise, pool, buffer_used, log_file, filed>>
           /\ \/ thread = "timed_out" /\ swapBuffer /\ offset' = 0
              \/ NoSwap /\ offset' = offset
BY ZenonT(60) DEF Resume

LEMMA StartFacts ==
    ASSUME StartWrite
    PROVE  /\ UNCHANGED <<clientVars, persistent_lsn, promise, pool, delta, log_file, filed>>
           /\ \/ /\ thread' = "writing" /\ buffer_used' = flush_buffer /\ ordered' \in BOOLEAN
                 /\ ordered' => ordered /\ delta <= handed
              \/ thread' = "dead" /\ UNCHANGED <<buffer_used, ordered>>
BY ZenonT(60) DEF StartWrite

LEMMA TypeStep == LogTypeOK /\ WritesBuffer /\ [LogNext]_logVars => LogTypeOK' /\ WritesBuffer'
<1> SUFFICES ASSUME LogTypeOK, WritesBuffer, [LogNext]_logVars PROVE LogTypeOK' /\ WritesBuffer'
  OBVIOUS
<1> USE BufferAssumption
<1>1. ASSUME NEW s \in RecordSize, AppendLogRecord(s) PROVE LogTypeOK' /\ WritesBuffer'
  <2> DEFINE b == IF IsFull(s) THEN flush_buffer ELSE log_buffer
             o == IF IsFull(s) THEN 0 ELSE offset
  <2>1. s \in 1..BufferSize /\ b \in 1..2 /\ o \in 0..BufferSize /\ o + s \in 0..BufferSize
    BY DEF LogTypeOK, flush_buffer, IsFull
  <2>a. /\ next_lsn < MaxRecords
        /\ IsFull(s) => swapBuffer /\ thread' = Notified
        /\ ~IsFull(s) => NoSwap /\ thread' = thread
        /\ UNCHANGED <<persistent_lsn, promise, pool, delta, buffer_used, log_file, filed>>
    BY ZenonT(60), <1>1, AppendFacts
  <2>2. next_lsn \in Lsn /\ next_lsn \in Nat
    BY <2>a DEF LogTypeOK, next_lsn, Lsn
  <2>3. Serialize(buffer[b], o, next_lsn, s) \in Image
    <3>1. buffer[b] \in Image
      BY <2>1 DEF LogTypeOK
    <3> HIDE DEF b, o
    <3> QED BY <2>1, <2>2, <3>1, SerializeType
  <2>4. buffer' = [buffer EXCEPT ![b] = Serialize(buffer[b], o, next_lsn, s)]
        /\ log_buffer' = b /\ offset' = o + s
    BY ZenonT(60), <1>1, <2>a, SwapFacts DEF AppendLogRecord, NoSwap
  <2>5. buffer' \in [1..2 -> Image] /\ log_buffer' \in 1..2 /\ offset' \in 0..BufferSize
    <3> HIDE DEF b, o
    <3> QED BY <2>1, <2>3, <2>4 DEF LogTypeOK
  <2>6. sizes' \in Seq(RecordSize) /\ next_lsn' <= MaxRecords
    BY <1>1 DEF AppendLogRecord, LogTypeOK, next_lsn
  <2>7. /\ flush_lsn' \in Lsn \cup {-1, 0} /\ handed' \in Lsn \cup {-1} /\ ordered' \in BOOLEAN
        /\ thread' \in {thread, "notified"}
    <3>1. CASE IsFull(s)
      BY <2>2, <2>a, <3>1, SwapFacts DEF Notified, Lsn
    <3>2. CASE ~IsFull(s)
      BY <2>a, <3>2 DEF NoSwap, LogTypeOK
    <3> QED BY <3>1, <3>2
  <2>8. WritesBuffer'
    BY <2>7, <2>a DEF WritesBuffer
  <2> QED BY <2>5, <2>6, <2>7, <2>8, <2>a DEF LogTypeOK
<1>2. CASE WakeupFlushThread
  BY <1>2, SwapFacts DEF WakeupFlushThread, LogTypeOK, WritesBuffer, Notified, flush_buffer, next_lsn, Lsn
<1>3. CASE FlushDone
  BY <1>3 DEF FlushDone, clientVars, LogTypeOK, WritesBuffer, next_lsn
<1>4. CASE TimeOut \/ SpuriousWakeup
  BY <1>4 DEF TimeOut, SpuriousWakeup, clientVars, LogTypeOK, WritesBuffer, next_lsn
<1>5. CASE Resume
  <2>1. CASE swapBuffer /\ offset' = 0
    BY <1>5, <2>1, SwapFacts, ResumeFacts DEF LogTypeOK, WritesBuffer, flush_buffer, next_lsn, Lsn
  <2>2. CASE NoSwap /\ offset' = offset
    BY <1>5, <2>2, ResumeFacts DEF NoSwap, LogTypeOK, WritesBuffer, next_lsn
  <2> QED BY <1>5, <2>1, <2>2, ResumeFacts
<1>6. CASE StartWrite
  <2>1. LogTypeOK'
    BY <1>6, StartFacts DEF clientVars, LogTypeOK, flush_buffer, next_lsn
  <2>2. WritesBuffer'
    BY <1>6, StartFacts DEF LogTypeOK, WritesBuffer, flush_buffer
  <2> QED BY <2>1, <2>2
<1>7. CASE TestPersistent
  BY <1>7 DEF TestPersistent, clientVars, LogTypeOK, WritesBuffer, next_lsn
<1>8. CASE WriteLog
  <2>1. buffer[buffer_used] \in Image
    BY <1>8 DEF WriteLog, LogTypeOK, WritesBuffer
  <2>2. log_file' \in Seq(Image)
    BY <1>8, <2>1 DEF WriteLog, LogTypeOK
  <2> QED BY <1>8, <2>2 DEF WriteLog, clientVars, LogTypeOK, WritesBuffer, next_lsn
<1>9. CASE SetPersistentLSN
  BY <1>9 DEF SetPersistentLSN, clientVars, LogTypeOK, WritesBuffer, next_lsn
<1>10. CASE SetValue
  BY <1>10 DEF SetValue, clientVars, LogTypeOK, WritesBuffer, next_lsn
<1>11. CASE UNCHANGED logVars
  BY <1>11 DEF logVars, LogTypeOK, WritesBuffer, next_lsn
<1>12. ASSUME NEW l \in 0..(next_lsn - 1) \cup NameLsn, Evict(l) PROVE LogTypeOK' /\ WritesBuffer'
  BY <1>12 DEF Evict, clientVars, LogTypeOK, WritesBuffer, next_lsn
<1> QED BY <1>12, <1>1, <1>2, <1>3, <1>4, <1>5, <1>6, <1>7, <1>8, <1>9, <1>10, <1>11 DEF LogNext, FlushThread

\* The counters, buffers and images keep their types on every schedule.
THEOREM LogTypeCorrect == LogSpec => []LogTypeOK
BY TypeInit, TypeStep, PTL DEF LogSpec

-----------------------------------------------------------------------------
(* The invariant.                                                          *)

LEMMA InvInit == LogInit => LogInv
<1> SUFFICES ASSUME LogInit PROVE LogInv
  OBVIOUS
<1>1. Counters /\ Buffered /\ Filed
  BY DEF LogInit, Counters, Buffered, Filed, next_lsn
<1>2. Images
  BY BufferAssumption DEF LogInit, Images, next_lsn, flush_buffer
<1> QED BY <1>1, <1>2 DEF LogInv

\* The step after which swaps and writes have still alternated, and the
\* counters after it.
LEMMA CountersStep ==
    ASSUME LogTypeOK, Counters, [LogNext]_logVars, ordered'
    PROVE  ordered /\ Counters'
<1> USE BufferAssumption DEF LogTypeOK, Counters, next_lsn, Lsn, flush_buffer
<1>1. ASSUME NEW s \in RecordSize, AppendLogRecord(s) PROVE ordered /\ Counters'
  <2>1. sizes' = Append(sizes, s) /\ sizes \in Seq(RecordSize)
    BY ZenonT(60), <1>1 DEF AppendLogRecord
  <2>2. Len(sizes') = Len(sizes) + 1
    BY <2>1
  <2>3. CASE IsFull(s)
    BY <1>1, <2>2, <2>3, AppendFacts, SwapFacts DEF Notified
  <2>4. CASE ~IsFull(s)
    <3>1. /\ UNCHANGED <<log_buffer, handed, ordered, thread>>
          /\ UNCHANGED <<persistent_lsn, delta, buffer_used, filed>>
      BY ZenonT(60), <1>1, <2>4, AppendFacts DEF NoSwap
    <3>2. ordered
      BY ZenonT(60), <3>1
    <3> QED BY <2>2, <3>1, <3>2
  <2> QED BY <2>3, <2>4
<1>2. CASE WakeupFlushThread
  BY <1>2, SwapFacts DEF WakeupFlushThread, Notified
<1>3. CASE FlushDone
  BY <1>3 DEF FlushDone, clientVars
<1>4. CASE TimeOut \/ SpuriousWakeup
  BY ZenonT(20), <1>4 DEF TimeOut, SpuriousWakeup, clientVars
<1>5. CASE Resume
  <2>1. CASE swapBuffer /\ offset' = 0
    BY <1>5, <2>1, SwapFacts, ResumeFacts
  <2>2. CASE NoSwap /\ offset' = offset
    BY <1>5, <2>2, ResumeFacts DEF NoSwap
  <2> QED BY <1>5, <2>1, <2>2, ResumeFacts
<1>6. CASE StartWrite
  BY ZenonT(20), <1>6, StartFacts DEF clientVars
<1>7. CASE TestPersistent
  BY <1>7 DEF TestPersistent, clientVars
<1>8. CASE WriteLog
  BY <1>8 DEF WriteLog, clientVars
<1>9. CASE SetPersistentLSN
  BY <1>9 DEF SetPersistentLSN, clientVars
<1>10. CASE SetValue
  BY <1>10 DEF SetValue, clientVars
<1>11. CASE UNCHANGED logVars
  BY <1>11 DEF logVars
<1>12. ASSUME NEW l \in 0..(next_lsn - 1) \cup NameLsn, Evict(l) PROVE ordered /\ Counters'
  BY <1>12 DEF Evict, clientVars
<1> QED BY ZenonT(60), <1>1, <1>2, <1>3, <1>4, <1>5, <1>6, <1>7, <1>8, <1>9, <1>10, <1>11, <1>12 DEF LogNext, FlushThread

\* Facts about places in images.
LEMMA PlacedMore ==
    ASSUME NEW m, NEW l, NEW s \in Nat, NEW n \in Nat, NEW n2 \in Nat, n <= n2, Placed(m, l, s, n)
    PROVE  Placed(m, l, s, n2)
BY DEF Placed

LEMMA PlacedKept ==
    ASSUME NEW m, NEW m2, NEW l, NEW s \in Nat, NEW n \in Nat, Placed(m, l, s, n),
           \A k \in 1..n : m2[k] = m[k]
    PROVE  Placed(m2, l, s, n)
<1>1. PICK o \in 0..(n - s) : \A k \in (o + 1)..(o + s) : m[k] = l
  BY DEF Placed
<1>2. \A k \in (o + 1)..(o + s) : m2[k] = l
  BY <1>1
<1> QED BY <1>2 DEF Placed

LEMMA PlacedByte ==
    ASSUME NEW m, NEW l, NEW s \in Nat, s # 0, NEW n \in Nat, Placed(m, l, s, n)
    PROVE  \E k \in 1..n : m[k] = l
<1>1. PICK o \in 0..(n - s) : \A k \in (o + 1)..(o + s) : m[k] = l
  BY ZenonT(60) DEF Placed
<1>2. o + 1 \in 1..n /\ o + 1 \in (o + 1)..(o + s)
  OBVIOUS
<1> QED BY <1>1, <1>2

LEMMA OnDiskPlaced ==
    ASSUME NEW l
    PROVE  OnDisk(l) <=> \E n \in 1..Len(log_file) : Placed(log_file[n], l, sizes[l + 1], BufferSize)
BY DEF OnDisk, Whole, Placed

LEMMA OnDiskPlacedNext ==
    ASSUME NEW l
    PROVE  OnDisk(l)' <=> \E n \in 1..Len(log_file') : Placed(log_file'[n], l, sizes'[l + 1], BufferSize)
BY DEF OnDisk, Whole, Placed

LEMMA SizeOf ==
    ASSUME LogTypeOK, NEW l \in 0..(next_lsn - 1) PROVE sizes[l + 1] \in 1..BufferSize
<1>1. sizes \in Seq(RecordSize) /\ Len(sizes) \in Nat
  BY DEF LogTypeOK
<1>2. l + 1 \in 1..Len(sizes)
  BY <1>1 DEF next_lsn
<1>3. sizes[l + 1] \in RecordSize
  BY <1>1, <1>2
<1> QED BY ZenonT(60), <1>3, BufferAssumption

LEMMA ImageInt ==
    ASSUME NEW m \in Image, NEW k \in 1..BufferSize PROVE m[k] \in Int
<1>1. m[k] \in Lsn \cup {-1}
  BY DEF Image
<1>2. Lsn \cup {-1} \subseteq Int
  BY BufferAssumption DEF Lsn
<1> QED BY <1>1, <1>2

LEMMA BytesInt ==
    ASSUME LogTypeOK PROVE \A i \in 1..2, k \in 1..BufferSize : buffer[i][k] \in Int
<1>1. \A i \in 1..2 : buffer[i] \in Image
  BY DEF LogTypeOK
<1> QED BY <1>1, ImageInt

\* AppendLogRecord: the record is in the new log_buffer_, the others stay.
LEMMA AppendInv ==
    ASSUME LogTypeOK, LogInv, NEW s \in RecordSize, AppendLogRecord(s), ordered'
    PROVE  Buffered' /\ Images' /\ Filed'
<1> DEFINE b == IF IsFull(s) THEN flush_buffer ELSE log_buffer
           o == IF IsFull(s) THEN 0 ELSE offset
<1>1. /\ s \in 1..BufferSize /\ b \in 1..2 /\ o \in 0..BufferSize /\ o + s \in 0..BufferSize
      /\ next_lsn \in Nat /\ log_buffer \in 1..2 /\ flush_buffer = 3 - log_buffer
      /\ BufferSize \in Nat /\ offset \in 0..BufferSize
      /\ handed \in Int /\ filed \in Int /\ filed <= handed /\ handed < next_lsn
  BY BufferAssumption DEF LogInv, LogTypeOK, Counters, flush_buffer, IsFull, next_lsn, Lsn
<1>2. /\ next_lsn' = next_lsn + 1 /\ sizes'[next_lsn + 1] = s
      /\ \A l \in 0..(next_lsn - 1) : sizes'[l + 1] = sizes[l + 1] /\ sizes[l + 1] \in 1..BufferSize
  <2>1. sizes \in Seq(RecordSize) /\ sizes' = Append(sizes, s) /\ RecordSize \subseteq 1..BufferSize
    BY BufferAssumption DEF AppendLogRecord, LogTypeOK
  <2>2. \A i \in 1..Len(sizes) : sizes[i] \in RecordSize /\ sizes'[i] = sizes[i]
    BY <2>1
  <2>3. Len(sizes') = Len(sizes) + 1 /\ sizes'[Len(sizes) + 1] = s /\ Len(sizes) \in Nat
    BY <2>1
  <2>4. ASSUME NEW l \in 0..(Len(sizes) - 1)
        PROVE  sizes'[l + 1] = sizes[l + 1] /\ sizes[l + 1] \in 1..BufferSize
    <3>1. l + 1 \in 1..Len(sizes)
      BY <2>3
    <3> QED BY ZenonT(60), <2>1, <2>2, <3>1
  <2> QED BY <2>3, <2>4 DEF next_lsn
<1>3. /\ log_buffer' = b /\ offset' = o + s /\ flush_buffer' = 3 - b
      /\ buffer'[b] = Serialize(buffer[b], o, next_lsn, s)
      /\ buffer'[3 - b] = buffer[3 - b]
      /\ log_file' = log_file /\ filed' = filed
  <2>1. buffer' = [buffer EXCEPT ![b] = Serialize(buffer[b], o, next_lsn, s)] /\ offset' = o + s
    BY ZenonT(60) DEF AppendLogRecord
  <2>2. log_buffer' = b /\ log_file' = log_file /\ filed' = filed
    BY ZenonT(60), AppendFacts, SwapFacts DEF NoSwap
  <2>3. b \in 1..2 /\ 3 - b \in 1..2 /\ 3 - b # b /\ buffer \in [1..2 -> Image]
    BY <1>1 DEF LogTypeOK
  <2> HIDE DEF b, o
  <2> QED BY <2>1, <2>2, <2>3 DEF flush_buffer
<1>4. \A k \in 1..BufferSize :
        buffer'[b][k] = IF k \in (o + 1)..(o + s) THEN next_lsn ELSE buffer[b][k]
  BY ZenonT(60), <1>3 DEF Serialize
<1>5. Placed(buffer'[b], next_lsn, s, o + s)
  <2> HIDE DEF b, o
  <2>1. o \in 0..((o + s) - s)
    BY <1>1
  <2>2. \A k \in (o + 1)..(o + s) : buffer'[b][k] = next_lsn
    BY <1>1, <1>4
  <2> QED BY <2>1, <2>2 DEF Placed
<1>6. \A i \in 1..2, k \in 1..BufferSize : buffer[i][k] \in Int
  BY BytesInt
<1>7. \A n \in 1..Len(log_file), k \in 1..BufferSize : log_file[n][k] <= filed
  BY DEF LogInv, Images
<1>8. Filed'
  <2> SUFFICES ASSUME NEW l \in 0..next_lsn, l <= filed PROVE OnDisk(l)'
    BY <1>1, <1>2, <1>3 DEF Filed
  <2>1. l \in 0..(next_lsn - 1)
    BY <1>1
  <2>2. OnDisk(l)
    BY <2>1 DEF LogInv, Filed
  <2> QED BY ZenonT(60), <2>1, <2>2, <1>2, <1>3, OnDiskPlaced, OnDiskPlacedNext
<1>9. CASE IsFull(s)
  <2>1. b = 3 - log_buffer /\ o = 0 /\ handed = filed /\ handed' = next_lsn - 1
    BY <1>1, <1>9, AppendFacts, SwapFacts
  <2>2. buffer'[flush_buffer'] = buffer[log_buffer] /\ buffer'[3 - b] = buffer[log_buffer]
    BY <1>1, <1>3, <2>1
  <2>3. Buffered'
    <3>1. \A l \in 0..(next_lsn - 1) : filed < l =>
            Placed(buffer[log_buffer], l, sizes[l + 1], BufferSize)
      BY <1>1, <1>2, <2>1, PlacedMore DEF LogInv, Buffered
    <3> SUFFICES ASSUME NEW l \in 0..next_lsn
                 PROVE  /\ l > next_lsn - 1 => Placed(buffer'[b], l, sizes'[l + 1], o + s)
                        /\ filed < l /\ l <= next_lsn - 1 =>
                            Placed(buffer'[flush_buffer'], l, sizes'[l + 1], BufferSize)
      <4> HIDE DEF b, o
      <4> QED BY <1>1, <1>2, <1>3, <2>1 DEF Buffered
    <3>2. l > next_lsn - 1 => l = next_lsn
      BY <1>1
    <3> HIDE DEF b, o
    <3> QED BY <1>1, <1>2, <1>5, <2>2, <3>1, <3>2
  <2>4. Images'
    <3> SUFFICES ASSUME NEW k \in 1..BufferSize
                 PROVE  buffer'[b][k] < next_lsn + 1 /\ buffer[log_buffer][k] <= next_lsn - 1
      <4> HIDE DEF b, o
      <4> QED BY <1>2, <1>3, <1>7, <2>1, <2>2 DEF Images
    <3>1. buffer[flush_buffer][k] <= handed /\ buffer[log_buffer][k] < next_lsn
      BY DEF LogInv, Images
    <3>2. buffer[b][k] \in Int /\ buffer[log_buffer][k] \in Int /\ buffer[b][k] <= handed
      BY <1>1, <1>6, <2>1, <3>1
    <3> HIDE DEF b, o
    <3> QED BY <1>1, <1>4, <3>1, <3>2
  <2> QED BY <1>8, <2>3, <2>4
<1>10. CASE ~IsFull(s)
  <2>1. b = log_buffer /\ o = offset /\ handed' = handed
    BY ZenonT(20), <1>1, <1>10, AppendFacts DEF NoSwap
  <2>2. buffer'[flush_buffer'] = buffer[flush_buffer] /\ buffer'[3 - b] = buffer[flush_buffer]
    BY <1>1, <1>3, <2>1
  <2>3. Buffered'
    <3>1. \A l \in 0..(next_lsn - 1) : l > handed => Placed(buffer'[b], l, sizes[l + 1], o + s)
      <4> SUFFICES ASSUME NEW l \in 0..(next_lsn - 1), l > handed
                   PROVE  Placed(buffer'[b], l, sizes[l + 1], o + s)
        OBVIOUS
      <4>1. Placed(buffer[b], l, sizes[l + 1], o)
        BY <2>1 DEF LogInv, Buffered
      <4>2. \A k \in 1..o : buffer'[b][k] = buffer[b][k]
        BY <1>1, <1>4
      <4>3. sizes[l + 1] \in Nat /\ o \in Nat /\ o + s \in Nat /\ o <= o + s
        BY <1>1, <1>2
      <4> HIDE DEF b, o
      <4>4. Placed(buffer'[b], l, sizes[l + 1], o)
        BY <4>1, <4>2, <4>3, PlacedKept
      <4> QED BY <4>3, <4>4, PlacedMore
    <3> SUFFICES ASSUME NEW l \in 0..next_lsn
                 PROVE  /\ l > handed => Placed(buffer'[b], l, sizes'[l + 1], o + s)
                        /\ filed < l /\ l <= handed =>
                            Placed(buffer'[flush_buffer'], l, sizes'[l + 1], BufferSize)
      <4> HIDE DEF b, o
      <4> QED BY <1>1, <1>2, <1>3, <2>1 DEF Buffered
    <3>2. CASE l = next_lsn
      <4> HIDE DEF b, o
      <4> QED BY <1>1, <1>2, <1>5, <3>2
    <3>3. CASE l \in 0..(next_lsn - 1)
      <4>1. filed < l /\ l <= handed => Placed(buffer[flush_buffer], l, sizes[l + 1], BufferSize)
        BY <3>3 DEF LogInv, Buffered
      <4> HIDE DEF b, o
      <4> QED BY <1>2, <2>2, <3>1, <3>3, <4>1
    <3> QED BY <1>1, <3>2, <3>3
  <2>4. Images'
    <3> SUFFICES ASSUME NEW k \in 1..BufferSize
                 PROVE  buffer'[b][k] < next_lsn + 1 /\ buffer[flush_buffer][k] <= handed
      <4> HIDE DEF b, o
      <4> QED BY <1>2, <1>3, <1>7, <2>1, <2>2 DEF Images
    <3>1. buffer[flush_buffer][k] <= handed /\ buffer[b][k] < next_lsn
      BY <2>1 DEF LogInv, Images
    <3>2. buffer[b][k] \in Int
      BY <1>1, <1>6
    <3> HIDE DEF b, o
    <3> QED BY <1>1, <1>4, <3>1, <3>2
  <2> QED BY <1>8, <2>3, <2>4
<1> QED BY <1>9, <1>10

\* A swap of the buffers by WakeupFlushThread, or by the flush thread after a
\* timeout: all records that are not in the file are in flush_buffer_ then.
LEMMA SwapInv ==
    ASSUME LogTypeOK, LogInv, swapBuffer, offset' = 0, ordered',
           UNCHANGED <<buffer, sizes, log_file, filed>>
    PROVE  Buffered' /\ Images' /\ Filed'
<1>1. /\ log_buffer \in 1..2 /\ next_lsn \in Nat /\ next_lsn' = next_lsn
      /\ offset \in Nat /\ BufferSize \in Nat /\ offset <= BufferSize
      /\ log_buffer' = flush_buffer /\ flush_buffer' = log_buffer
      /\ handed = filed /\ handed' = next_lsn - 1 /\ handed \in Int /\ handed < next_lsn
  BY BufferAssumption, SwapFacts DEF LogInv, Counters, LogTypeOK, next_lsn, flush_buffer, Lsn
<1>2. \A l \in 0..(next_lsn - 1) : sizes[l + 1] \in Nat
  BY SizeOf
<1>3. \A l \in 0..(next_lsn - 1) : filed < l => Placed(buffer[log_buffer], l, sizes[l + 1], BufferSize)
  BY <1>1, <1>2, PlacedMore DEF LogInv, Buffered
<1>4. Buffered'
  BY <1>1, <1>3 DEF Buffered
<1>5. Images'
  <2>1. \A k \in 1..BufferSize : buffer[log_buffer][k] \in Int /\ buffer[flush_buffer][k] \in Int
    BY <1>1, BytesInt DEF flush_buffer
  <2> QED BY <1>1, <2>1 DEF LogInv, Images
<1>6. Filed'
  BY <1>1, OnDiskPlaced, OnDiskPlacedNext DEF LogInv, Filed
<1> QED BY <1>4, <1>5, <1>6

LEMMA InvStep ==
    ASSUME LogTypeOK, LogInv, [LogNext]_logVars, ordered'
    PROVE  LogInv'
<1>a. Counters'
  BY CountersStep DEF LogInv
<1> SUFFICES Buffered' /\ Images' /\ Filed'
  BY <1>a DEF LogInv
\* A step that leaves the buffers and the file alone.
<1>b. ASSUME UNCHANGED <<clientVars, log_file, filed>> PROVE Buffered' /\ Images' /\ Filed'
  <2>1. next_lsn' = next_lsn /\ flush_buffer' = flush_buffer
    BY <1>b DEF clientVars, next_lsn, flush_buffer
  <2>2. Filed'
    BY <1>b, <2>1, OnDiskPlaced, OnDiskPlacedNext DEF LogInv, Filed, clientVars
  <2>3. Buffered' /\ Images'
    BY <1>b, <2>1 DEF LogInv, Buffered, Images, clientVars
  <2> QED BY <2>2, <2>3
<1>1. ASSUME NEW s \in RecordSize, AppendLogRecord(s) PROVE Buffered' /\ Images' /\ Filed'
  BY <1>1, AppendInv
<1>2. CASE WakeupFlushThread
  BY <1>2, SwapInv DEF WakeupFlushThread
<1>3. CASE FlushDone
  BY <1>3, <1>b DEF FlushDone
<1>4. CASE TimeOut \/ SpuriousWakeup
  BY ZenonT(20), <1>4, <1>b DEF TimeOut, SpuriousWakeup
<1>5. CASE Resume
  <2>1. CASE thread = "timed_out" /\ offset # 0
    BY <1>5, <2>1, SwapInv DEF Resume
  <2>2. CASE ~(thread = "timed_out" /\ offset # 0)
    BY ZenonT(20), <1>5, <2>2, <1>b DEF Resume, NoSwap, clientVars
  <2> QED BY <2>1, <2>2
<1>6. CASE StartWrite
  BY <1>6, <1>b DEF StartWrite
<1>7. CASE TestPersistent
  BY <1>7, <1>b DEF TestPersistent
<1>8. CASE WriteLog
  <2> DEFINE m == buffer[flush_buffer]
  <2>0. log_buffer \in 1..2 /\ flush_buffer \in 1..2 /\ next_lsn \in Nat /\ handed \in Int /\ filed \in Int
        /\ filed <= handed
    BY BufferAssumption DEF LogTypeOK, flush_buffer, next_lsn, Lsn, LogInv, Counters
  <2>1. /\ log_file' = Append(log_file, m) /\ log_file \in Seq(Image) /\ m \in Image
        /\ UNCHANGED clientVars /\ filed' = handed
    BY <1>8, <2>0 DEF WriteLog, LogInv, Counters, LogTypeOK
  <2>2. next_lsn' = next_lsn /\ flush_buffer' = flush_buffer
    BY <2>1 DEF clientVars, next_lsn, flush_buffer
  <2>3. /\ Len(log_file') = Len(log_file) + 1 /\ Len(log_file) \in Nat
        /\ log_file'[Len(log_file) + 1] = m
        /\ \A n \in 1..Len(log_file) : log_file'[n] = log_file[n] /\ log_file[n] \in Image
    <3> HIDE DEF m
    <3> QED BY <2>1
  <2>4. Buffered'
    BY <2>0, <2>1, <2>2 DEF LogInv, Buffered, clientVars
  <2>5. Filed'
    <3> SUFFICES ASSUME NEW l \in 0..(next_lsn - 1), l <= handed
                 PROVE  \E n \in 1..Len(log_file') : Placed(log_file'[n], l, sizes[l + 1], BufferSize)
      BY <2>1, <2>2, OnDiskPlacedNext DEF Filed, clientVars
    <3>1. CASE l <= filed
      <4>1. PICK n \in 1..Len(log_file) : Placed(log_file[n], l, sizes[l + 1], BufferSize)
        BY <3>1, OnDiskPlaced DEF LogInv, Filed
      <4> QED BY <2>3, <4>1
    <3>2. CASE filed < l
      <4>1. Placed(m, l, sizes[l + 1], BufferSize)
        BY <3>2 DEF LogInv, Buffered
      <4> QED BY <2>3, <4>1
    <3> QED BY <2>0, <3>1, <3>2
  <2>6. Images'
    <3> SUFFICES ASSUME NEW k \in 1..BufferSize, NEW n \in 1..Len(log_file')
                 PROVE  log_file'[n][k] <= handed
      BY <2>1, <2>2 DEF LogInv, Images, clientVars
    <3>1. CASE n \in 1..Len(log_file)
      <4>1. log_file[n][k] \in Int /\ log_file[n][k] <= filed
        BY <2>3, <3>1, ImageInt DEF LogInv, Images
      <4> QED BY <2>0, <2>3, <3>1, <4>1
    <3>2. CASE n = Len(log_file) + 1
      BY <2>1, <2>3, <3>2 DEF LogInv, Images
    <3> QED BY <2>3, <3>1, <3>2
  <2> QED BY <2>4, <2>5, <2>6
<1>9. CASE SetPersistentLSN
  BY <1>9, <1>b DEF SetPersistentLSN
<1>10. CASE SetValue
  BY <1>10, <1>b DEF SetValue
<1>11. CASE UNCHANGED logVars
  BY <1>11, <1>b DEF logVars, clientVars
<1>12. ASSUME NEW l \in 0..(next_lsn - 1) \cup NameLsn, Evict(l) PROVE Buffered' /\ Images' /\ Filed'
  BY <1>12, <1>b DEF Evict
<1> QED BY <1>1, <1>2, <1>3, <1>4, <1>5, <1>6, <1>7, <1>8, <1>9, <1>10, <1>11, <1>12 DEF LogNext, FlushThread

\* Once swaps and writes have not alternated, ordered stays false.
LEMMA OrderLost == [LogNext]_logVars /\ ordered' => ordered
<1> SUFFICES ASSUME [LogNext]_logVars, ordered' PROVE ordered
  OBVIOUS
<1>1. ASSUME NEW s \in RecordSize, AppendLogRecord(s) PROVE ordered
  BY ZenonT(20), <1>1 DEF AppendLogRecord, swapBuffer, NoSwap
<1>2. ASSUME NEW l \in 0..(next_lsn - 1) \cup NameLsn, Evict(l) PROVE ordered
  BY <1>2 DEF Evict
<1>3. CASE WakeupFlushThread
  BY ZenonT(20), <1>3 DEF WakeupFlushThread, swapBuffer
<1>4. CASE FlushDone \/ TimeOut \/ SpuriousWakeup
  BY ZenonT(20), <1>4 DEF FlushDone, TimeOut, SpuriousWakeup
<1>5. CASE FlushThread
  BY ZenonT(20), <1>5 DEF FlushThread, Resume, swapBuffer, NoSwap, TestPersistent, StartWrite, WriteLog,
              SetPersistentLSN, SetValue
<1>6. CASE UNCHANGED logVars
  BY <1>6 DEF logVars
<1> QED BY <1>1, <1>2, <1>3, <1>4, <1>5, <1>6 DEF LogNext

LEMMA Invariance == LogSpec => [](LogTypeOK /\ (ordered => LogInv))
<1>1. LogInit => LogTypeOK /\ WritesBuffer /\ (ordered => LogInv)
  BY InvInit, TypeInit
<1>2. LogTypeOK /\ WritesBuffer /\ (ordered => LogInv) /\ [LogNext]_logVars
        => LogTypeOK' /\ WritesBuffer' /\ (ordered' => LogInv')
  BY InvStep, TypeStep, OrderLost
<1> QED BY <1>1, <1>2, PTL DEF LogSpec

-----------------------------------------------------------------------------
(* The theorems.                                                           *)

\* What persistent_lsn_ promises to the pool's evictions and to Commit is in
\* the file, for buffers and records of any size and on every schedule, until
\* a swap overtakes a write.
THEOREM PersistentIsOnDisk == LogSpec => []PersistentInOrder
<1>1. LogTypeOK /\ (ordered => LogInv) => PersistentInOrder
  BY BufferAssumption DEF LogInv, Filed, PersistentInOrder, PersistentOnDisk, Counters, LogTypeOK, Lsn, next_lsn
<1> QED BY <1>1, Invariance, PTL

\* A crash at any time leaves a prefix of the log in the file, under the same
\* condition: the bytes left in a buffer from earlier rounds are of records
\* that are in the file already.
THEOREM LogIsPrefix == LogSpec => []PrefixInOrder
<1>1. ASSUME LogTypeOK, ordered => LogInv PROVE PrefixInOrder
  <2> SUFFICES ASSUME LogInv, NEW l \in 0..(next_lsn - 1), OnDisk(l), NEW i \in 0..l PROVE OnDisk(i)
    BY <1>1 DEF PrefixInOrder
  <2>1. next_lsn \in Nat /\ filed \in Int /\ BufferSize \in Nat
    BY <1>1, BufferAssumption DEF LogTypeOK, Lsn, next_lsn
  <2>2. PICK n \in 1..Len(log_file) : Placed(log_file[n], l, sizes[l + 1], BufferSize)
    BY OnDiskPlaced
  <2>3. sizes[l + 1] \in Nat /\ sizes[l + 1] # 0
    BY <1>1, SizeOf
  <2>4. PICK k \in 1..BufferSize : log_file[n][k] = l
    BY <2>1, <2>2, <2>3, PlacedByte
  <2>5. l <= filed
    BY <2>4 DEF LogInv, Images
  <2> QED BY <2>1, <2>5 DEF LogInv, Filed
<1> QED BY <1>1, Invariance, PTL
=============================================================================

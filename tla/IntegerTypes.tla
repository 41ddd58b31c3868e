---------------------------- MODULE IntegerTypes -----------------------------
(***************************************************************************)
(* The integer values of SQL: type/{tinyint,smallint,integer,bigint}_type  *)
(* and include/type/integer_parent_type.h.  The four files differ in the   *)
(* type only.  A value is a type and a number; the lowest number of a type *)
(* is its NULL.  Operands of type DECIMAL and VARCHAR are left out.        *)
(*                                                                         *)
(* C++ computes x + y in int, or in int64_t if an operand is one, and      *)
(* wraps around, as the build (-O0) does; a cast wraps around, too.        *)
(***************************************************************************)
EXTENDS Integers

CONSTANT Half   \* type -> 2^(w - 1), for a width of w bits

TypeId == {"TINYINT", "SMALLINT", "INTEGER", "BIGINT"}

\* The widths increase, and int holds the products of two smaller numbers.
Widths ==
    /\ Half \in [TypeId -> Nat \ {0}]
    /\ Half["TINYINT"] < Half["SMALLINT"]
    /\ Half["SMALLINT"] < Half["INTEGER"]
    /\ Half["INTEGER"] < Half["BIGINT"]
    /\ 2 * Half["SMALLINT"] * Half["SMALLINT"] <= Half["INTEGER"]

Value(t, n) == [type |-> t, num |-> n]
Null(t) == Value(t, -Half[t])
IsNull(v) == v.num = -Half[v.type]

\* The values of SQL: what can be stored in a column.
Values == {v \in [type : TypeId, num : Int] : v.num \in -Half[v.type]..(Half[v.type] - 1)}

\* The exceptions.
OUT_OF_RANGE == Value("OUT_OF_RANGE", 0)
DIVIDE_BY_ZERO == Value("DIVIDE_BY_ZERO", 0)

-----------------------------------------------------------------------------
(* Integers in C++.                                                        *)

Wrap(n, h) == ((n + h) % (2 * h)) - h
Convert(n, t) == Wrap(n, Half[t])

\* The type an expression of two operands is computed in.
Promoted(t, u) == IF "BIGINT" \in {t, u} THEN "BIGINT" ELSE "INTEGER"

\* The one of the larger size, which is the type of the result.
Wider(t, u) == IF Half[t] >= Half[u] THEN t ELSE u

Magnitude(n) == IF n < 0 THEN -n ELSE n

\* a / b and a % b, which round towards 0.
Quot(a, b) ==
    IF (a < 0) <=> (b < 0) THEN Magnitude(a) \div Magnitude(b)
    ELSE -(Magnitude(a) \div Magnitude(b))
Rem(a, b) == a - b * Quot(a, b)

-----------------------------------------------------------------------------
(* Arithmetic on values that are not NULL.                                 *)

\* n, as computed, in the type of the result.
Result(l, r, n) == Convert(n, Wider(l.type, r.type))

\* It is returned unless no type of an operand holds n, or it shows that the
\* computation has overflowed.
Checked(l, r, n, overflow) ==
    IF (n # Convert(n, l.type) /\ n # Convert(n, r.type)) \/ overflow THEN OUT_OF_RANGE
    ELSE Value(Wider(l.type, r.type), Result(l, r, n))

AddValue(l, r) ==
    LET n == Convert(l.num + r.num, Promoted(l.type, r.type))
        sum == Result(l, r, n)
    IN  Checked(l, r, n, \/ l.num > 0 /\ r.num > 0 /\ sum < 0
                         \/ l.num < 0 /\ r.num < 0 /\ sum > 0)

SubtractValue(l, r) ==
    LET n == Convert(l.num - r.num, Promoted(l.type, r.type))
        diff == Result(l, r, n)
    IN  Checked(l, r, n, \/ l.num > 0 /\ r.num < 0 /\ diff < 0
                         \/ l.num < 0 /\ r.num > 0 /\ diff > 0)

MultiplyValue(l, r) ==
    LET n == Convert(l.num * r.num, Promoted(l.type, r.type))
        prod == Result(l, r, n)
    IN  Checked(l, r, n, r.num # 0 /\ Quot(prod, r.num) # l.num)

DivideValue(l, r) ==
    LET t == Wider(l.type, r.type)
    IN  Value(t, Convert(Convert(Quot(l.num, r.num), Promoted(l.type, r.type)), t))

ModuloValue(l, r) ==
    LET t == Wider(l.type, r.type)
    IN  Value(t, Convert(Convert(Rem(l.num, r.num), Promoted(l.type, r.type)), t))

-----------------------------------------------------------------------------
(* The operations of a type.                                               *)

OperateNull(l, r) == Null(Wider(l.type, r.type))

Add(l, r) == IF IsNull(l) \/ IsNull(r) THEN OperateNull(l, r) ELSE AddValue(l, r)

Subtract(l, r) == IF IsNull(l) \/ IsNull(r) THEN OperateNull(l, r) ELSE SubtractValue(l, r)

Multiply(l, r) == IF IsNull(l) \/ IsNull(r) THEN OperateNull(l, r) ELSE MultiplyValue(l, r)

Divide(l, r) ==
    IF IsNull(l) \/ IsNull(r) THEN OperateNull(l, r)
    ELSE IF r.num = 0 THEN DIVIDE_BY_ZERO ELSE DivideValue(l, r)

Modulo(l, r) ==
    IF IsNull(l) \/ IsNull(r) THEN OperateNull(l, r)
    ELSE IF r.num = 0 THEN DIVIDE_BY_ZERO ELSE ModuloValue(l, r)

\* A type that is as wide holds the number; another one is checked for it,
\* with its NULL left out.
CastAs(v, t) ==
    IF IsNull(v) THEN Null(t)
    ELSE IF Half[t] >= Half[v.type] THEN Value(t, Convert(v.num, t))
    ELSE IF v.num > Half[t] - 1 \/ v.num < -Half[t] + 1 THEN OUT_OF_RANGE
    ELSE Value(t, Convert(v.num, t))

-----------------------------------------------------------------------------
(* What the operations are to return.                                      *)

\* The number n in the wider type of two values, if it holds n.  If n is the
\* lowest number of the type, that is NULL.
Exact(l, r, n) ==
    LET t == Wider(l.type, r.type)
    IN  IF n \in -Half[t]..(Half[t] - 1) THEN Value(t, n) ELSE OUT_OF_RANGE

NotNull == {v \in Values : ~IsNull(v)}
=============================================================================

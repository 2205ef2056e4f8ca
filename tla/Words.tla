---------------------------------- MODULE Words ----------------------------------
(***************************************************************************)
(* number_t, an int, of Width bits in place of 32, and what the operators  *)
(* of C++ and the instructions of LLVM both compute on it.  Overflow is    *)
(* undefined in C++ and wraps in LLVM; no build traps on it, so it wraps.  *)
(***************************************************************************)
EXTENDS Ast

CONSTANTS
  Width,       \* bound: the bits of number_t
  Arbitrary    \* bound: the numbers that an undefined operation may give

number_t == -(2 ^ (Width - 1)) .. 2 ^ (Width - 1) - 1

ASSUME WordsAssumption == Width \in Nat \ {0} /\ Arbitrary \subseteq number_t

Signed(n)   == LET u == n % 2 ^ Width IN IF u \in number_t THEN u ELSE u - 2 ^ Width

\* The bits that are set, and the number with these bits.
Bits(n)     == {i \in 0 .. Width - 1 : (n \div 2 ^ i) % 2 = 1}
OfBits(set) == Signed(MapThenSumSet(LAMBDA i : 2 ^ i, set))

Bool(b) == IF b THEN 1 ELSE 0

\* Division cuts off towards zero.
Magnitude(n)   == IF n < 0 THEN -n ELSE n
Quotient(l, r) == LET q == Magnitude(l) \div Magnitude(r)
                  IN  IF (l < 0) = (r < 0) THEN q ELSE -q

\* The operands a division is undefined for.
DivisionFails(op, l, r) ==
  op \in {"Div", "RemDiv"} /\ (r = 0 \/ (r = -1 /\ l - 1 \notin number_t))

Apply(op, l, r) ==
  CASE op = "Eq"      -> Bool(l = r)
    [] op = "Neq"     -> Bool(l # r)
    [] op = "Less"    -> Bool(l < r)
    [] op = "LessEq"  -> Bool(l <= r)
    [] op = "Greater" -> Bool(l > r)
    [] op = "GreaterEq" -> Bool(l >= r)
    [] op = "Add"     -> Signed(l + r)
    [] op = "Sub"     -> Signed(l - r)
    [] op = "Mul"     -> Signed(l * r)
    [] op = "Div"     -> Quotient(l, r)
    [] op = "RemDiv"  -> l - r * Quotient(l, r)
    [] op = "And"     -> OfBits(Bits(l) \cap Bits(r))
    [] op = "Xor"     -> OfBits((Bits(l) \cup Bits(r)) \ (Bits(l) \cap Bits(r)))
    [] op = "Or"      -> OfBits(Bits(l) \cup Bits(r))
    [] op = "LogOr"   -> Bool(l # 0 \/ r # 0)
    [] op = "LogAnd"  -> Bool(l # 0 /\ r # 0)

ApplyUnary(op, n) ==
  CASE op = "Neg" -> Signed(-n) [] op = "Plus" -> n [] op = "Not" -> Bool(n = 0)
==================================================================================

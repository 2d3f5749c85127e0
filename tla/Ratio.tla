------------------------------- MODULE Ratio -------------------------------
(***************************************************************************)
(* The numbers of the data frames: factors, capacities, energies.  The     *)
(* code computes with floating-point numbers; here they are fractions in   *)
(* lowest terms, so that rounding is left out and everything else is kept: *)
(* a division by zero gives an infinity, or NaN for zero by zero, and      *)
(* every comparison with NaN is false.                                     *)
(***************************************************************************)
EXTENDS Integers, FiniteSetsExt

NaN == <<0, 0>>
Infinity == <<1, 0>>

gcd[p \in Nat \X Nat] == IF p[2] = 0 THEN p[1] ELSE gcd[<<p[2], p[1] % p[2]>>]

Abs(n) == IF n < 0 THEN -n ELSE n

\* The fraction n / d, for d >= 0.
Frac(n, d) ==
    LET g == gcd[<<Abs(n), d>>]
    IN  IF g = 0 THEN NaN ELSE <<(IF n < 0 THEN -1 ELSE 1) * (Abs(n) \div g), d \div g>>

\* An integer, and the number 0.
Whole(n) == <<n, 1>>
Zero == Whole(0)
One == Whole(1)

IsFinite(x) == x[2] # 0

\* Common factors are taken out first, to keep the numbers small.
Times(x, y) ==
    LET a == Frac(x[1], y[2])
        b == Frac(y[1], x[2])
    IN  <<a[1] * b[1], a[2] * b[2]>>

Over(x, y) == Times(x, IF y[1] < 0 THEN <<-y[2], -y[1]>> ELSE <<y[2], y[1]>>)

\* Infinities are only added to finite numbers or to themselves.
Plus(x, y) ==
    IF IsFinite(x) /\ IsFinite(y)
    THEN LET g == gcd[<<x[2], y[2]>>]
         IN  Frac(x[1] * (y[2] \div g) + y[1] * (x[2] \div g), (x[2] \div g) * y[2])
    ELSE IF x = y THEN x ELSE <<x[1] * y[2] + y[1] * x[2], 0>>

Minus(x, y) == Plus(x, <<-y[1], y[2]>>)

Less(x, y) == x[1] * y[2] < y[1] * x[2]
AtMost(x, y) == Less(x, y) \/ (x = y /\ x # NaN)

MinOf(x, y) == IF Less(y, x) THEN y ELSE x
MaxOf(x, y) == IF Less(x, y) THEN y ELSE x

\* The sum of f over the set S, and the product.
SumOver(f(_), S) == FoldSet(LAMBDA x, sum : Plus(f(x), sum), Zero, S)
ProductOver(f(_), S) == FoldSet(LAMBDA x, product : Times(f(x), product), One, S)
=============================================================================

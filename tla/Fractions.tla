----------------------------- MODULE Fractions -----------------------------
(* Exact arithmetic for the floating-point numbers of the reports: a       *)
(* number is a pair of numerator and positive denominator, in lowest terms. *)
EXTENDS Integers

Gcd[a \in Nat, b \in Nat] == IF b = 0 THEN a ELSE Gcd[b, a % b]

Magnitude(n) == IF n < 0 THEN -n ELSE n

Frac(n, d) ==
    LET g == Gcd[Magnitude(n), d] IN <<n \div g, d \div g>>

Whole(n) == <<n, 1>>

Plus(a, b) ==
    LET g == Gcd[a[2], b[2]]
    IN  Frac(a[1] * (b[2] \div g) + b[1] * (a[2] \div g), a[2] * (b[2] \div g))

Minus(a, b) == Plus(a, <<-b[1], b[2]>>)

Times(a, b) ==
    LET x == Frac(a[1], b[2])
        y == Frac(b[1], a[2])
    IN  <<x[1] * y[1], x[2] * y[2]>>

Less(a, b) == Minus(a, b)[1] < 0

Positive(a) == a[1] > 0

Least(a, b) == IF Less(a, b) THEN a ELSE b

=============================================================================

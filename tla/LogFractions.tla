---------------------------- MODULE LogFractions ----------------------------
(***************************************************************************)
(* Exact arithmetic for softmax statistics. A number is a fraction <<a, b>> *)
(* of naturals in lowest terms; <<1, 0>> is +inf and <<0, 0>> is NaN, which *)
(* the rules for products and sums then propagate as IEEE arithmetic does. *)
(* A quantity that the code keeps as a logarithm (a score, a maximum, a    *)
(* log-sum-exp) is represented by its exponential: -inf is Zero, max is    *)
(* Larger, exp(x - y) is Over(x, y), x + log(s) is Times(x, s). In this    *)
(* form -inf - -inf is 0/0, a NaN, as it is on the device.                 *)
(***************************************************************************)
EXTENDS Naturals, FiniteSetsExt, FiniteSets

Zero == <<0, 1>>
One == <<1, 1>>
Inf == <<1, 0>>
NaN == <<0, 0>>

Divides(d, n) == n % d = 0

\* a / b in lowest terms.
Lowest(a, b) ==
  CASE b = 0 /\ a > 0 -> Inf
    [] b = 0 /\ a = 0 -> NaN
    [] a = 0 /\ b > 0 -> Zero
    [] a > 0 /\ b > 0 ->
         LET least == IF a < b THEN a ELSE b
             g == CHOOSE d \in 1 .. least :
                    /\ Divides(d, a) /\ Divides(d, b)
                    /\ \A e \in d + 1 .. least : ~ (Divides(e, a) /\ Divides(e, b))
         IN  <<a \div g, b \div g>>

IsFinite(x) == x[2] # 0
Less(x, y) == x[1] * y[2] < y[1] * x[2]

Times(x, y) == Lowest(x[1] * y[1], x[2] * y[2])
Over(x, y) == Lowest(x[1] * y[2], x[2] * y[1])
Plus(x, y) == IF x = Inf /\ y = Inf THEN Inf ELSE Lowest(x[1] * y[2] + y[1] * x[2], x[2] * y[2])
Larger(x, y) == IF Less(x, y) THEN y ELSE x

\* The sum of f over S, and the largest of the numbers in S (-inf if there is none).
Total(f, S) == FoldSet(LAMBDA k, sum : Plus(f[k], sum), Zero, S)
Largest(f, S) == FoldSet(LAMBDA k, max : Larger(f[k], max), Zero, S)

=============================================================================

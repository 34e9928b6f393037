------------------------- MODULE ThresholdArithmetic -------------------------
(***************************************************************************)
(* The arithmetic of threshold signing: Shamir evaluation and Lagrange     *)
(* coefficients over a prime field (Decaf448, BLS48-581, BLS12-381, FROST) *)
(* and Shoup's combination of RSA partials, with its integer coefficients. *)
(***************************************************************************)
EXTENDS Integers, Sequences, FiniteSetsExt

(* <<g, x, y>> with a x + b y = g, the greatest common divisor.            *)
Bezout(a, b) ==
  LET step[old_r, r \in Nat, old_s, s, old_t, t \in Int] ==
        IF r = 0 THEN <<old_r, old_s, old_t>>
        ELSE LET q == old_r \div r
             IN  step[r, old_r - q * r, s, old_s - q * s, t, old_t - q * t]
  IN  step[a, b, 1, 0, 0, 1]

Invertible(a, m) == Bezout(a % m, m)[1] = 1
ModInverse(a, m) == Bezout(a % m, m)[2] % m

PowMod(b, e, m) ==
  LET pow[x, k \in Nat] ==
        IF k = 0 THEN 1
        ELSE (IF k % 2 = 1 THEN x ELSE 1) * pow[x * x % m, k \div 2] % m
  IN  pow[b % m, e]

-------------------------------------------------------------------------------
(* The sum modulo m of first and of the terms at these indices.            *)
SumMod(terms, first, indices, m) ==
  FoldFunctionOnSet(LAMBDA term, sum : (sum + term) % m, first, terms, indices)

(* f(x) modulo m, where f has these coefficients, the constant one first.  *)
EvaluatePolynomial(coefficients, x, m) ==
  SumMod([i \in DOMAIN coefficients |-> coefficients[i] * PowMod(x, i - 1, m)],
         0, DOMAIN coefficients, m)

(* L_i(0) modulo m for party i among the cosigners.                        *)
ComputeLagrangeCoeff(i, cosigners, m) ==
  LET others == cosigners \ {i}
      num == FoldSet(LAMBDA j, acc : acc * (-j) % m, 1, others)
      den == FoldSet(LAMBDA j, acc : acc * (i - j) % m, 1, others)
  IN  num * ModInverse(den, m) % m

-------------------------------------------------------------------------------
(* Delta is n!, which makes Delta L_i(0) an integer.                       *)
Delta(n) == FoldSet(LAMBDA i, acc : i * acc, 1, 1 .. n)
ComputeScaledLagrangeCoeff(i, ids, delta) ==
  LET others == ids \ {i}
      num == FoldSet(LAMBDA j, acc : acc * j, delta, others)
      den == FoldSet(LAMBDA j, acc : acc * (j - i), 1, others)
  IN  IF den > 0 THEN num \div den ELSE -(num \div (-den))

ShoupPartial(input, dShare, delta, n) == PowMod(input, 2 * delta * dShare, n)

(* An exponent may be negative; a base without inverse is kept as it is.   *)
PowModZ(b, e, n) ==
  IF e >= 0 THEN PowMod(b, e, n)
  ELSE PowMod(IF Invertible(b, n) THEN ModInverse(b, n) ELSE b, -e, n)

CombineShoup(partials, n, e, delta, m) ==
  LET ids == DOMAIN partials
      w == FoldSet(LAMBDA i, acc :
             acc * PowModZ(partials[i], 2 * ComputeScaledLagrangeCoeff(i, ids, delta), n) % n,
             1, ids)
      bezout == Bezout(e, 4 * delta * delta)
      a == bezout[2]
      b == bezout[3]
      stuck == \/ bezout[1] # 1
               \/ b < 0 /\ ~Invertible(w, n)
               \/ a < 0 /\ ~Invertible(m, n)
  IN  IF stuck THEN w ELSE PowModZ(w, b, n) * PowModZ(m, a, n) % n

===============================================================================

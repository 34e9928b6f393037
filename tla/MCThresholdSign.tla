-------------------------- MODULE MCThresholdSign --------------------------
(* Two of three parties sign.  17 + 5 x over the field of 101 elements; an *)
(* RSA modulus of 5 * 11 with e = 7 and d = 3.                             *)
EXTENDS ThresholdSign

(* The signers' numbers in the task: those of the key, or 1 and 2.         *)
Numberings == {[p \in Party |-> p], [p \in Party |-> IF p = 1 THEN 1 ELSE 2]}
KeyPolynomial == <<17, 5>>
DPolynomial == <<3, 5>>
DrawnNonce(p, draw) == (20 * p + 5 * draw) % Q
HashOf(R) == (R * R + 2) % Q

===============================================================================

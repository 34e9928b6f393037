------------------------- MODULE ThresholdSignProofs -------------------------
(***************************************************************************)
(* Proofs about Sign, for every set of signers, every key, field and RSA   *)
(* modulus, and any number of failures and restarts.                       *)
(*                                                                         *)
(* A drawn nonce answers one challenge, in every protocol: nothing is      *)
(* assumed of the values the sessions compute.  Every variable keeps its   *)
(* type.                                                                   *)
(*                                                                         *)
(* The signatures of the six protocols verify and agree: assumed of the    *)
(* dealt key is that its shares add up to the secret and that RSA partials *)
(* combine, of hash and draws that no FROST partial serves two group       *)
(* commitments (the assumptions of ThresholdSign).                         *)
(***************************************************************************)
EXTENDS ThresholdSign, FiniteSetTheorems, WellFoundedInduction, TLAPS

-------------------------------------------------------------------------------
(* Division with remainder.                                                *)
LEMMA ModDivides ==
  ASSUME NEW m \in Nat \ {0}, NEW a \in Int
  PROVE  a % m \in 0 .. m - 1 /\ a \div m \in Int /\ a = m * (a \div m) + (a % m)
<1>1. a = m * (a \div m) + (a % m)
  BY Z3
<1> QED
  BY <1>1

LEMMA Multiple ==
  ASSUME NEW m \in Nat \ {0}, NEW k \in Int, m * k < m, -m < m * k
  PROVE  k = 0
<1>1. CASE k >= 1
  <2>1. m * k = m + m * (k - 1) /\ k - 1 \in Nat
    BY <1>1
  <2>2. m * (k - 1) >= 0
    BY <2>1
  <2> QED
    BY <2>1, <2>2
<1>2. CASE k <= -1
  <2>1. m * k = -m - m * (-1 - k) /\ -1 - k \in Nat
    BY <1>2
  <2>2. m * (-1 - k) >= 0
    BY <2>1
  <2> QED
    BY <2>1, <2>2
<1> QED
  BY <1>1, <1>2

LEMMA ModUnique ==
  ASSUME NEW m \in Nat \ {0}, NEW d \in Int, NEW e \in Int,
         NEW r \in 0 .. m - 1, NEW s \in 0 .. m - 1,
         m * d + r = m * e + s
  PROVE  r = s
<1>1. m * (d - e) = s - r
  OBVIOUS
<1>2. m * (d - e) < m /\ -m < m * (d - e)
  BY <1>1
<1>3. d - e = 0
  BY <1>2, Multiple
<1> QED
  BY <1>1, <1>3

LEMMA ModShift ==
  ASSUME NEW m \in Nat \ {0}, NEW a \in Int, NEW k \in Int
  PROVE  (a + m * k) % m = a % m
<1>1. a = m * (a \div m) + (a % m) /\ a % m \in 0 .. m - 1 /\ a \div m \in Int
  BY ModDivides
<1> DEFINE b == a + m * k
<1>2. b \in Int
  OBVIOUS
<1>3. b = m * (b \div m) + (b % m) /\ b % m \in 0 .. m - 1 /\ b \div m \in Int
  BY ONLY <1>2, ModDivides, m \in Nat \ {0}
<1>4. b = m * ((a \div m) + k) + (a % m)
  <2> DEFINE d == a \div m
             r == a % m
  <2> HIDE DEF d, r
  <2>1. a = m * d + r /\ d \in Int /\ r \in Int
    BY <1>1 DEF d, r
  <2>2. m * (d + k) = m * d + m * k
    BY <2>1
  <2>3. a + m * k = m * (d + k) + r
    BY <2>1, <2>2
  <2> QED
    BY <2>3 DEF d, r
<1> HIDE DEF b
<1>5. m * (b \div m) + (b % m) = m * ((a \div m) + k) + (a % m)
  BY <1>3, <1>4
<1>6. (a \div m) + k \in Int
  BY <1>1
<1> QED
  BY ONLY <1>1, <1>3, <1>5, <1>6, ModUnique, m \in Nat \ {0} DEF b

LEMMA ModTimes ==
  ASSUME NEW m \in Nat \ {0}, NEW a \in Int, NEW b \in Int, NEW c \in Int
  PROVE  ((a % m) * c + b) % m = (a * c + b) % m
<1> DEFINE d == a \div m
           r == a % m
<1>1. a = m * d + r /\ d \in Int /\ r \in Int
  BY ModDivides
<1> HIDE DEF d, r
<1>2. a * c + b = (r * c + b) + m * (d * c)
  <2>1. a * c = (m * d) * c + r * c
    BY <1>1
  <2>2. (m * d) * c = m * (d * c)
    BY <1>1
  <2>3. r * c \in Int /\ m * (d * c) \in Int /\ a * c \in Int
    BY <1>1
  <2> QED
    BY <2>1, <2>2, <2>3
<1>3. r * c + b \in Int /\ d * c \in Int
  BY <1>1
<1>4. (r * c + b + m * (d * c)) % m = (r * c + b) % m
  BY ONLY <1>3, ModShift, m \in Nat \ {0}
<1> QED
  BY <1>2, <1>4 DEF r
-------------------------------------------------------------------------------
(* Sums modulo m, which are the same in whatever order they are taken.     *)
(* Induction over the subsets of a finite set, in the form of a least      *)
(* counterexample: B is the set of those that a statement is false of.     *)
LEMMA LeastSubset ==
  ASSUME NEW S, IsFiniteSet(S), NEW B, B \subseteq SUBSET S, B # {}
  PROVE  \E T \in B : \A U \in B : ~(U \subseteq T /\ U # T)
<1>1. FiniteSubsetsOf(S) = SUBSET S
  BY FS_FiniteSubsetsOfFinite
<1>2. IsWellFoundedOn(StrictSubsetOrdering(S), SUBSET S)
  BY <1>1, FS_StrictSubsetOrderingWellFounded
<1>3. PICK T \in B : \A U \in B : ~(<<U, T>> \in StrictSubsetOrdering(S))
  BY <1>2, WFMin
<1>4. QED
  BY <1>3 DEF StrictSubsetOrdering

Some(T) == CHOOSE x \in T : TRUE
SumTable(f, first, m, S, it) ==
  it = [T \in SUBSET S |->
          IF T = {} THEN first ELSE (it[T \ {Some(T)}] + f[Some(T)]) % m]

LEMMA SumIsTable ==
  ASSUME NEW f, NEW first, NEW m, NEW S
  PROVE  SumMod(f, first, S, m) = (CHOOSE it : SumTable(f, first, m, S, it))[S]
BY DEF SumMod, FoldFunctionOnSet, MapThenFoldSet, SumTable, Some

LEMMA SomeIn == ASSUME NEW T, T # {} PROVE Some(T) \in T
BY DEF Some

LEMMA SumTablesAgree ==
  ASSUME NEW f, NEW first, NEW m, NEW S, IsFiniteSet(S), NEW R \in SUBSET S, NEW g, NEW h,
         SumTable(f, first, m, S, g), SumTable(f, first, m, R, h)
  PROVE  \A T \in SUBSET R : g[T] = h[T]
<1> DEFINE B == {T \in SUBSET R : g[T] # h[T]}
<1>1. SUFFICES ASSUME B # {} PROVE FALSE
  OBVIOUS
<1>2. IsFiniteSet(R)
  BY FS_Subset
<1> HIDE DEF B
<1>3. PICK T \in B : \A U \in B : ~(U \subseteq T /\ U # T)
  <2>1. B \subseteq SUBSET R
    BY DEF B
  <2> QED
    BY <1>1, <1>2, <2>1, LeastSubset
<1> USE DEF B
<1>4. T \in SUBSET R /\ T \in SUBSET S /\ g[T] # h[T]
  BY <1>3
<1>5. T # {}
  BY <1>4 DEF SumTable
<1>6. Some(T) \in T
  BY <1>5, SomeIn
<1>7. T \ {Some(T)} \in SUBSET R /\ T \ {Some(T)} # T /\ T \ {Some(T)} \subseteq T
  BY <1>4, <1>6
<1>8. g[T \ {Some(T)}] = h[T \ {Some(T)}]
  BY <1>3, <1>7
<1>9. g[T] = (g[T \ {Some(T)}] + f[Some(T)]) % m /\ h[T] = (h[T \ {Some(T)}] + f[Some(T)]) % m
  BY <1>4, <1>5 DEF SumTable
<1> QED
  BY <1>4, <1>8, <1>9

LEMMA SumTableExists ==
  ASSUME NEW f, NEW first, NEW m, NEW S, IsFiniteSet(S)
  PROVE  \E it : SumTable(f, first, m, S, it)
<1> DEFINE B == {R \in SUBSET S : ~ \E it : SumTable(f, first, m, R, it)}
<1>1. SUFFICES ASSUME B # {} PROVE FALSE
  OBVIOUS
<1> HIDE DEF B
<1>2. PICK R \in B : \A U \in B : ~(U \subseteq R /\ U # R)
  <2>1. B \subseteq SUBSET S
    BY DEF B
  <2> QED
    BY <1>1, <2>1, LeastSubset
<1> USE DEF B
<1>3. R \in SUBSET S /\ ~ \E it : SumTable(f, first, m, R, it)
  BY <1>2
<1>4. \A U \in SUBSET R : U # R => \E it : SumTable(f, first, m, U, it)
  BY <1>2, <1>3
<1> DEFINE tab(U) == CHOOSE it : SumTable(f, first, m, U, it)
           val(U) == IF U = {} THEN first
                     ELSE (tab(U \ {Some(U)})[U \ {Some(U)}] + f[Some(U)]) % m
           all == [U \in SUBSET R |-> val(U)]
<1>5. \A U \in SUBSET R : U # R => SumTable(f, first, m, U, tab(U))
  BY <1>4
<1>6. ASSUME NEW U \in SUBSET R, U # R PROVE all[U] = tab(U)[U]
  <2>1. SumTable(f, first, m, U, tab(U))
    BY <1>5, <1>6
  <2>2. CASE U = {}
    BY <2>1, <2>2 DEF SumTable
  <2>3. CASE U # {}
    <3>1. Some(U) \in U
      BY <2>3, SomeIn
    <3> DEFINE V == U \ {Some(U)}
    <3>2. V \in SUBSET U /\ V \in SUBSET R /\ V # R
      BY <1>6, <3>1
    <3>3. SumTable(f, first, m, V, tab(V))
      BY <1>5, <3>2
    <3>4. IsFiniteSet(U)
      BY <1>3, FS_Subset
    <3> HIDE DEF tab
    <3>5. tab(U)[V] = tab(V)[V]
      BY <2>1, <3>2, <3>3, <3>4, SumTablesAgree
    <3>6. tab(U)[U] = (tab(U)[V] + f[Some(U)]) % m
      BY <2>1, <2>3 DEF SumTable
    <3> QED
      BY <2>3, <3>5, <3>6
  <2> QED
    BY <2>2, <2>3
<1>7. ASSUME NEW U \in SUBSET R, U # {}
      PROVE  U \ {Some(U)} \in SUBSET R /\ U \ {Some(U)} # R
  BY <1>7, SomeIn
<1> HIDE DEF tab
<1>8. SumTable(f, first, m, R, all)
  <2>1. ASSUME NEW U \in SUBSET R
        PROVE  all[U] = IF U = {} THEN first ELSE (all[U \ {Some(U)}] + f[Some(U)]) % m
    BY <1>6, <1>7, <2>1
  <2> HIDE DEF val
  <2>2. all = [U \in SUBSET R |-> all[U]]
    OBVIOUS
  <2> HIDE DEF all
  <2> QED
    BY <2>1, <2>2 DEF SumTable
<1> QED
  BY <1>3, <1>8

LEMMA SumEmpty == ASSUME NEW f, NEW first, NEW m PROVE SumMod(f, first, {}, m) = first
<1>1. \E it : SumTable(f, first, m, {}, it)
  BY SumTableExists, FS_EmptySet
<1>2. SumTable(f, first, m, {}, CHOOSE it : SumTable(f, first, m, {}, it))
  BY <1>1
<1> QED
  BY <1>2, SumIsTable DEF SumTable

LEMMA SumUnfold ==
  ASSUME NEW f, NEW first, NEW m, NEW S, IsFiniteSet(S), S # {}
  PROVE  SumMod(f, first, S, m) = (SumMod(f, first, S \ {Some(S)}, m) + f[Some(S)]) % m
<1> DEFINE R == S \ {Some(S)}
           g == CHOOSE it : SumTable(f, first, m, S, it)
           h == CHOOSE it : SumTable(f, first, m, R, it)
<1>1. R \in SUBSET S /\ IsFiniteSet(R)
  BY FS_Subset
<1>2. SumTable(f, first, m, S, g) /\ SumTable(f, first, m, R, h)
  BY <1>1, SumTableExists
<1>3. SumMod(f, first, S, m) = g[S] /\ SumMod(f, first, R, m) = h[R]
  BY SumIsTable
<1> HIDE DEF g, h, R
<1>4. g[R] = h[R]
  BY <1>1, <1>2, SumTablesAgree
<1>5. g[S] = (g[R] + f[Some(S)]) % m
  BY <1>2 DEF SumTable, R
<1> QED
  BY <1>3, <1>4, <1>5 DEF R

LEMMA ModSmall ==
  ASSUME NEW m \in Nat \ {0}, NEW a \in 0 .. m - 1 PROVE a % m = a
<1>1. a % m \in 0 .. m - 1 /\ a \div m \in Int /\ a = m * (a \div m) + (a % m)
  BY ModDivides
<1>2. m * (a \div m) + (a % m) = m * 0 + a
  BY <1>1
<1> QED
  BY ONLY <1>1, <1>2, ModUnique, m \in Nat \ {0}, a \in 0 .. m - 1, 0 \in Int

LEMMA ModPlus ==
  ASSUME NEW m \in Nat \ {0}, NEW a \in Int, NEW b \in Int
  PROVE  ((a % m) + b) % m = (a + b) % m
<1>1. ((a % m) * 1 + b) % m = (a * 1 + b) % m
  <2>1. 1 \in Int
    OBVIOUS
  <2> QED
    BY <2>1, ModTimes, Zenon
<1>2. a % m \in Int
  OBVIOUS
<1>3. (a % m) * 1 = a % m /\ a * 1 = a
  BY <1>2
<1> QED
  BY <1>1, <1>3

(* Terms may be added in any order.                                        *)
LEMMA ModSwap ==
  ASSUME NEW m \in Nat \ {0}, NEW a \in Int, NEW b \in Int, NEW c \in Int
  PROVE  (((a + b) % m) + c) % m = (((a + c) % m) + b) % m
<1>1. (((a + b) % m) + c) % m = (a + b + c) % m /\ (((a + c) % m) + b) % m = (a + c + b) % m
  <2>1. a + b \in Int /\ a + c \in Int
    OBVIOUS
  <2> QED
    BY <2>1, ModPlus, Zenon
<1>2. a + b + c = a + c + b
  OBVIOUS
<1> QED
  BY <1>1, <1>2

Terms(f, S) == \A x \in S : f[x] \in Int

LEMMA SumRange ==
  ASSUME NEW m \in Nat \ {0}, NEW S, IsFiniteSet(S), NEW f, Terms(f, S), NEW first \in 0 .. m - 1
  PROVE  SumMod(f, first, S, m) \in 0 .. m - 1
<1> DEFINE B == {T \in SUBSET S : SumMod(f, first, T, m) \notin 0 .. m - 1}
<1>1. SUFFICES ASSUME B # {} PROVE FALSE
  OBVIOUS
<1>2. B \subseteq SUBSET S
  OBVIOUS
<1> HIDE DEF B
<1>3. PICK T \in B : \A U \in B : ~(U \subseteq T /\ U # T)
  BY <1>1, <1>2, LeastSubset
<1>4. T \in SUBSET S /\ IsFiniteSet(T) /\ SumMod(f, first, T, m) \notin 0 .. m - 1
  BY <1>3, FS_Subset DEF B
<1>5. T # {}
  BY <1>4, SumEmpty
<1>6. Some(T) \in T /\ f[Some(T)] \in Int
  BY <1>4, <1>5, SomeIn DEF Terms
<1>7. T \ {Some(T)} \in SUBSET S /\ T \ {Some(T)} \notin B
  BY <1>3, <1>4, <1>6
<1> DEFINE rest == SumMod(f, first, T \ {Some(T)}, m)
<1>8. rest \in 0 .. m - 1
  BY <1>7 DEF B
<1>9. SumMod(f, first, T, m) = (rest + f[Some(T)]) % m
  BY <1>4, <1>5, SumUnfold
<1> HIDE DEF rest
<1>10. rest + f[Some(T)] \in Int
  BY <1>6, <1>8
<1> QED
  BY <1>4, <1>9, <1>10, ModDivides

(* Any term may be the last.                                               *)
LEMMA SumLast ==
  ASSUME NEW m \in Nat \ {0}, NEW S, IsFiniteSet(S), NEW f, Terms(f, S), NEW first \in 0 .. m - 1,
         NEW x \in S
  PROVE  SumMod(f, first, S, m) = (SumMod(f, first, S \ {x}, m) + f[x]) % m
<1> DEFINE Last(T, y) == SumMod(f, first, T, m) = (SumMod(f, first, T \ {y}, m) + f[y]) % m
           B == {T \in SUBSET S : \E y \in T : ~Last(T, y)}
<1>1. SUFFICES ASSUME B # {} PROVE FALSE
  OBVIOUS
<1>2. B \subseteq SUBSET S
  OBVIOUS
<1> HIDE DEF B
<1>3. PICK T \in B : \A U \in B : ~(U \subseteq T /\ U # T)
  BY <1>1, <1>2, LeastSubset
<1>4. T \in SUBSET S /\ IsFiniteSet(T)
  BY <1>3, FS_Subset DEF B
<1>5. PICK y \in T : ~Last(T, y)
  BY <1>3 DEF B
<1> DEFINE z == Some(T)
           U == T \ {z}
           V == T \ {y}
           W == U \ {y}
<1>6. z \in T /\ Last(T, z)
  BY <1>4, <1>5, SomeIn, SumUnfold
<1>7. y # z
  BY <1>5, <1>6
<1> HIDE DEF z
<1>8. U \in SUBSET S /\ V \in SUBSET S /\ W \in SUBSET S /\ U \notin B /\ V \notin B
  BY <1>3, <1>4, <1>5, <1>6
<1>9. Last(U, y) /\ Last(V, z) /\ V \ {z} = W
  BY <1>5, <1>6, <1>7, <1>8 DEF B
<1> DEFINE w == SumMod(f, first, W, m)
<1>10. w \in Int
  <2>1. IsFiniteSet(W) /\ Terms(f, W)
    BY <1>4, <1>8, FS_Subset DEF Terms
  <2>2. w \in 0 .. m - 1
    BY <2>1, SumRange
  <2> QED
    BY <2>2
<1>11. f[y] \in Int /\ f[z] \in Int
  BY <1>4, <1>5, <1>6 DEF Terms
<1>12. /\ SumMod(f, first, T, m) = (SumMod(f, first, U, m) + f[z]) % m
       /\ SumMod(f, first, U, m) = (w + f[y]) % m
       /\ SumMod(f, first, V, m) = (w + f[z]) % m
  BY <1>6, <1>9
<1> HIDE DEF w
<1>13. (((w + f[y]) % m) + f[z]) % m = (((w + f[z]) % m) + f[y]) % m
  BY <1>10, <1>11, ModSwap
<1> QED
  BY <1>5, <1>12, <1>13

(* The sum over all is that which begins with one of the terms.            *)
LEMMA SumFirst ==
  ASSUME NEW m \in Nat \ {0}, NEW S, IsFiniteSet(S), NEW f, Terms(f, S), NEW x \in S,
         f[x] \in 0 .. m - 1
  PROVE  SumMod(f, f[x], S \ {x}, m) = SumMod(f, 0, S, m)
<1> DEFINE With(T) == T \cup {x}
           B == {T \in SUBSET (S \ {x}) : SumMod(f, f[x], T, m) # SumMod(f, 0, With(T), m)}
<1>1. SUFFICES ASSUME B # {} PROVE FALSE
  <2>1. With(S \ {x}) = S
    OBVIOUS
  <2> HIDE DEF With
  <2> QED
    BY <2>1
<1>2. B \subseteq SUBSET (S \ {x}) /\ IsFiniteSet(S \ {x})
  BY FS_Subset
<1> HIDE DEF B
<1>3. PICK T \in B : \A U \in B : ~(U \subseteq T /\ U # T)
  BY <1>1, <1>2, LeastSubset
<1>4. /\ T \in SUBSET (S \ {x}) /\ IsFiniteSet(T) /\ IsFiniteSet(With(T))
      /\ SumMod(f, f[x], T, m) # SumMod(f, 0, With(T), m)
  <2>1. T \in SUBSET (S \ {x}) /\ SumMod(f, f[x], T, m) # SumMod(f, 0, With(T), m)
    BY <1>3 DEF B
  <2>2. T \in SUBSET S /\ With(T) \in SUBSET S
    BY <2>1
  <2> QED
    BY <2>1, <2>2, FS_Subset
<1>5. 0 \in 0 .. m - 1
  OBVIOUS
<1>6. CASE T = {}
  <2>1. With(T) \ {x} = {} /\ x \in With(T) /\ Terms(f, With(T))
    BY <1>6 DEF Terms
  <2> HIDE DEF With
  <2>2. SumMod(f, 0, With(T), m) = (SumMod(f, 0, {}, m) + f[x]) % m
    BY <1>4, <1>5, <2>1, SumLast
  <2>3. SumMod(f, 0, {}, m) + f[x] = f[x]
    BY SumEmpty
  <2>4. f[x] % m = f[x]
    BY ModSmall
  <2>5. SumMod(f, f[x], T, m) = f[x]
    BY <1>6, SumEmpty
  <2> QED
    BY <1>4, <2>2, <2>3, <2>4, <2>5
<1>7. CASE T # {}
  <2> DEFINE y == Some(T)
             U == T \ {y}
  <2>1. y \in T /\ SumMod(f, f[x], T, m) = (SumMod(f, f[x], U, m) + f[y]) % m
    BY <1>4, <1>7, SomeIn, SumUnfold
  <2> HIDE DEF y
  <2>2. U \in SUBSET (S \ {x}) /\ U \notin B
    BY <1>3, <1>4, <2>1
  <2>3. SumMod(f, f[x], U, m) = SumMod(f, 0, With(U), m)
    BY <2>2 DEF B
  <2>4. With(T) \ {y} = With(U) /\ y \in With(T) /\ Terms(f, With(T))
    BY <1>4, <2>1 DEF Terms
  <2> HIDE DEF With
  <2>5. SumMod(f, 0, With(T), m) = (SumMod(f, 0, With(U), m) + f[y]) % m
    <3>1. IsFiniteSet(With(T)) /\ y \in With(T) /\ Terms(f, With(T))
      BY <1>4, <2>4
    <3>2. SumMod(f, 0, With(T), m) = (SumMod(f, 0, With(T) \ {y}, m) + f[y]) % m
      BY ONLY <1>5, <3>1, SumLast, m \in Nat \ {0}
    <3> QED
      BY <2>4, <3>2
  <2> QED
    BY <1>4, <2>1, <2>3, <2>5
<1> QED
  BY <1>6, <1>7

LEMMA SumSame ==
  ASSUME NEW m, NEW S, IsFiniteSet(S), NEW f, NEW g, NEW first, \A x \in S : f[x] = g[x]
  PROVE  SumMod(f, first, S, m) = SumMod(g, first, S, m)
<1> DEFINE B == {T \in SUBSET S : SumMod(f, first, T, m) # SumMod(g, first, T, m)}
<1>1. SUFFICES ASSUME B # {} PROVE FALSE
  OBVIOUS
<1>2. B \subseteq SUBSET S
  OBVIOUS
<1> HIDE DEF B
<1>3. PICK T \in B : \A U \in B : ~(U \subseteq T /\ U # T)
  BY <1>1, <1>2, LeastSubset
<1>4. T \in SUBSET S /\ IsFiniteSet(T) /\ SumMod(f, first, T, m) # SumMod(g, first, T, m)
  BY <1>3, FS_Subset DEF B
<1>5. T # {}
  BY <1>4, SumEmpty
<1>6. Some(T) \in T /\ f[Some(T)] = g[Some(T)]
  BY <1>4, <1>5, SomeIn
<1>7. T \ {Some(T)} \in SUBSET S /\ T \ {Some(T)} \notin B
  BY <1>3, <1>4, <1>6
<1>8. SumMod(f, first, T \ {Some(T)}, m) = SumMod(g, first, T \ {Some(T)}, m)
  BY <1>7 DEF B
<1>9. /\ SumMod(f, first, T, m) = (SumMod(f, first, T \ {Some(T)}, m) + f[Some(T)]) % m
      /\ SumMod(g, first, T, m) = (SumMod(g, first, T \ {Some(T)}, m) + g[Some(T)]) % m
  BY <1>4, <1>5, SumUnfold
<1> QED
  BY <1>4, <1>6, <1>8, <1>9

(* One step of a sum of k + c l, beside those of the sums of k and of l.   *)
StepAddsUp(m, c, k, l, K, L) ==
  (((K + c * L) % m) + ((k + c * l) % m)) % m = (((K + k) % m) + c * ((L + l) % m)) % m

LEMMA LinearStep ==
  ASSUME NEW m \in Nat \ {0}, NEW c \in Int, NEW k \in Int, NEW l \in Int, NEW K \in Int, NEW L \in Int
  PROVE  StepAddsUp(m, c, k, l, K, L)
<1> DEFINE a == K + c * L
           b == k + c * l
           d == L + l
<1>1. a \in Int /\ b \in Int /\ d \in Int /\ b % m \in Int /\ d % m \in Int /\ c * (d % m) \in Int
  <2>1. c * L \in Int /\ c * l \in Int
    OBVIOUS
  <2>2. a \in Int /\ b \in Int /\ d \in Int
    BY <2>1
  <2> HIDE DEF a, b, d
  <2>3. b % m \in Int /\ d % m \in Int
    BY <2>2
  <2> QED
    BY <2>2, <2>3
<1>2. a + b = c * d + (K + k)
  <2>1. c * d = c * L + c * l
    OBVIOUS
  <2>2. c * L \in Int /\ c * l \in Int
    OBVIOUS
  <2> QED
    BY <2>1, <2>2
<1> HIDE DEF a, b, d
<1>3. ((a % m) + (b % m)) % m = (a + b) % m
  <2>1. ((a % m) + (b % m)) % m = (a + (b % m)) % m
    BY <1>1, ModPlus
  <2>2. ((b % m) + a) % m = (b + a) % m
    BY <1>1, ModPlus
  <2>3. a + (b % m) = (b % m) + a /\ a + b = b + a
    BY <1>1
  <2> QED
    BY <2>1, <2>2, <2>3
<1>4. (((K + k) % m) + c * (d % m)) % m = ((d % m) * c + (K + k)) % m
  <2>1. (((K + k) % m) + c * (d % m)) % m = ((K + k) + c * (d % m)) % m
    <3>1. K + k \in Int
      OBVIOUS
    <3> QED
      BY <1>1, <3>1, ModPlus, Zenon
  <2>2. (K + k) + c * (d % m) = (d % m) * c + (K + k)
    BY <1>1
  <2> QED
    BY <2>1, <2>2
<1>5. ((d % m) * c + (K + k)) % m = (d * c + (K + k)) % m
  <2>1. K + k \in Int /\ d \in Int
    BY <1>1
  <2>2. \A x, y, z \in Int : ((x % m) * z + y) % m = (x * z + y) % m
    BY ModTimes, Zenon
  <2> QED
    BY ONLY <2>1, <2>2, c \in Int, Zenon
<1>6. d * c = c * d
  BY <1>1
<1> QED
  BY <1>2, <1>3, <1>4, <1>5, <1>6 DEF a, b, d, StepAddsUp

TermsAddUp(h, k, c, l, S, m) == \A x \in S : h[x] = (k[x] + c * l[x]) % m
SumsAddUp(h, k, c, l, S, m) ==
  SumMod(h, 0, S, m) = (SumMod(k, 0, S, m) + c * SumMod(l, 0, S, m)) % m

LEMMA SumLinear ==
  ASSUME NEW m \in Nat \ {0}, NEW S, IsFiniteSet(S), NEW c \in Int,
         NEW k, Terms(k, S), NEW l, Terms(l, S), NEW h, TermsAddUp(h, k, c, l, S, m)
  PROVE  SumsAddUp(h, k, c, l, S, m)
<1> USE DEF TermsAddUp, SumsAddUp
<1> DEFINE Linear(T) == SumMod(h, 0, T, m) = (SumMod(k, 0, T, m) + c * SumMod(l, 0, T, m)) % m
           B == {T \in SUBSET S : ~Linear(T)}
<1>1. SUFFICES ASSUME B # {} PROVE FALSE
  OBVIOUS
<1>2. B \subseteq SUBSET S
  OBVIOUS
<1> HIDE DEF B
<1>3. PICK T \in B : \A U \in B : ~(U \subseteq T /\ U # T)
  BY <1>1, <1>2, LeastSubset
<1>4. T \in SUBSET S /\ IsFiniteSet(T) /\ ~Linear(T)
  BY <1>3, FS_Subset DEF B
<1>5. T # {}
  <2>1. SumMod(h, 0, {}, m) = 0 /\ SumMod(k, 0, {}, m) = 0 /\ SumMod(l, 0, {}, m) = 0
    BY SumEmpty
  <2>2. 0 \in 0 .. m - 1 /\ 0 + c * 0 = 0
    OBVIOUS
  <2>3. 0 % m = 0
    BY <2>2, ModSmall
  <2> QED
    BY <1>4, <2>1, <2>2, <2>3
<1> DEFINE x == Some(T)
           U == T \ {x}
           K == SumMod(k, 0, U, m)
           L == SumMod(l, 0, U, m)
           H == SumMod(h, 0, U, m)
<1>6. x \in T /\ k[x] \in Int /\ l[x] \in Int /\ h[x] = (k[x] + c * l[x]) % m
  BY <1>4, <1>5, SomeIn DEF Terms
<1>7. /\ SumMod(h, 0, T, m) = (H + h[x]) % m
      /\ SumMod(k, 0, T, m) = (K + k[x]) % m
      /\ SumMod(l, 0, T, m) = (L + l[x]) % m
  BY <1>4, <1>5, SumUnfold
<1> HIDE DEF x
<1>8. U \in SUBSET S /\ U \notin B
  BY <1>3, <1>4, <1>6
<1>9. H = (K + c * L) % m
  BY <1>8 DEF B
<1>10. K \in Int /\ L \in Int
  <2>1. IsFiniteSet(U) /\ Terms(k, U) /\ Terms(l, U) /\ 0 \in 0 .. m - 1
    BY <1>4, <1>8, FS_Subset DEF Terms
  <2>2. K \in 0 .. m - 1 /\ L \in 0 .. m - 1
    BY <2>1, SumRange
  <2> QED
    BY <2>2
<1> HIDE DEF U, K, L, H
<1>11. (((K + c * L) % m) + ((k[x] + c * l[x]) % m)) % m
         = (((K + k[x]) % m) + c * ((L + l[x]) % m)) % m
  <2>1. StepAddsUp(m, c, k[x], l[x], K, L)
    BY <1>6, <1>10, LinearStep
  <2> QED
    BY ONLY <2>1 DEF StepAddsUp
<1> QED
  BY <1>4, <1>6, <1>7, <1>9, <1>11

-------------------------------------------------------------------------------
(* The inductive invariant.  A session that has yet to answer holds a draw *)
(* that no partial has left under, and a new session holds a new draw.     *)
Shape ==
  /\ sess = [p \in Party |-> sess[p]]
  /\ draws \in [Party -> Nat]
Drawn(p) == sess[p].step = 1 => sess[p].draw \in 0 .. draws[p]
Unused(p) ==
  sess[p].step = 1 => \A a \in answered : a.party = p => a.draw # sess[p].draw
AnswersDrawn ==
  \A a \in answered : a.party \in Party /\ a.draw \in 0 .. draws[a.party]
NonceInv ==
  /\ Shape
  /\ \A p \in Party : Drawn(p) /\ Unused(p)
  /\ AnswersDrawn
  /\ NonceUsedOnce

LEMMA StateFields ==
  ASSUME NEW k, NEW d, NEW R, NEW h
  PROVE  SignState(k, d, R, h).step = k /\ SignState(k, d, R, h).draw = d
BY DEF SignState

LEMMA NonceInit == ASSUME Init PROVE NonceInv
<1>1. /\ sess = [p \in Party |-> NoSession] /\ draws = [p \in Party |-> 0] /\ answered = {}
  BY DEF Init
<1>2. NoSession.step = 0
  BY StateFields DEF NoSession
<1>3. QED
  BY <1>1, <1>2 DEF NonceInv, Shape, Drawn, Unused, AnswersDrawn, NonceUsedOnce

-------------------------------------------------------------------------------
(* What an action does to the sessions is one of four things.              *)

(* Nothing, ...                                                            *)
LEMMA SameNonces ==
  ASSUME NonceInv, UNCHANGED <<sess, draws, answered>>
  PROVE  NonceInv'
BY DEF NonceInv, Shape, Drawn, Unused, AnswersDrawn, NonceUsedOnce

(* ... a session that has answered, or ends, is replaced, ...              *)
LEMMA MoveOn ==
  ASSUME NonceInv, NEW p \in Party, NEW state, state.step # 1,
         sess' = [sess EXCEPT ![p] = state], UNCHANGED <<draws, answered>>
  PROVE  NonceInv'
<1>1. Shape'
  BY DEF NonceInv, Shape
<1>2. \A q \in Party : sess'[q] = sess[q] \/ sess'[q].step # 1
  BY DEF NonceInv, Shape
<1>3. \A q \in Party : (Drawn(q) /\ Unused(q))'
  BY <1>2 DEF NonceInv, Drawn, Unused
<1>4. QED
  BY <1>1, <1>3 DEF NonceInv, AnswersDrawn, NonceUsedOnce

(* ... a nonce is drawn, ...                                               *)
LEMMA DrawNonce ==
  ASSUME NonceInv, NEW p \in Party, NewSession(p)
  PROVE  NonceInv'
<1>1. /\ draws' = [draws EXCEPT ![p] = draws[p] + 1]
      /\ sess' = [sess EXCEPT ![p] = SignState(1, draws[p] + 1, 0, NobodyHeard)]
      /\ answered' = answered
  BY DEF NewSession
<1>2. draws[p] \in Nat
  BY DEF NonceInv, Shape
<1>3. sess'[p].step = 1 /\ sess'[p].draw = draws[p] + 1 /\ draws'[p] = draws[p] + 1
  BY <1>1, StateFields DEF NonceInv, Shape
<1>4. \A q \in Party \ {p} : sess'[q] = sess[q] /\ draws'[q] = draws[q]
  BY <1>1 DEF NonceInv, Shape
<1>5. Shape'
  BY <1>1, <1>2 DEF NonceInv, Shape
<1>6. AnswersDrawn'
  BY <1>1, <1>2, <1>3, <1>4 DEF NonceInv, AnswersDrawn
<1>7. ASSUME NEW q \in Party PROVE (Drawn(q) /\ Unused(q))'
  <2>1. CASE q = p
    BY <1>1, <1>2, <1>3, <2>1 DEF NonceInv, AnswersDrawn, Drawn, Unused
  <2>2. CASE q # p
    BY <1>1, <1>4, <2>2 DEF NonceInv, Drawn, Unused
  <2>3. QED
    BY <2>1, <2>2
<1>8. QED
  BY <1>1, <1>5, <1>6, <1>7 DEF NonceInv, NonceUsedOnce

(* ... or a partial leaves, and its session with it.                       *)
LEMMA AnswerOnce ==
  ASSUME NonceInv, NEW p \in Party, NEW R, NEW state, sess[p].step = 1, state.step # 1,
         Answer(p, R), sess' = [sess EXCEPT ![p] = state]
  PROVE  NonceInv'
<1> DEFINE own == [party |-> p, draw |-> sess[p].draw, R |-> R]
<1>1. answered' = answered \cup {own} /\ draws' = draws
  BY DEF Answer
<1>2. own.party = p /\ own.draw = sess[p].draw /\ own.draw \in 0 .. draws[p]
  BY DEF NonceInv, Drawn
<1>3. \A a \in answered : a.party = p => a.draw # own.draw
  BY <1>2 DEF NonceInv, Unused
<1> HIDE DEF own
<1>4. Shape'
  BY <1>1 DEF NonceInv, Shape
<1>5. sess'[p].step # 1 /\ \A q \in Party \ {p} : sess'[q] = sess[q]
  BY DEF NonceInv, Shape
<1>6. ASSUME NEW q \in Party PROVE (Drawn(q) /\ Unused(q))'
  BY <1>1, <1>2, <1>5 DEF NonceInv, Drawn, Unused
<1>7. AnswersDrawn'
  BY <1>1, <1>2 DEF NonceInv, AnswersDrawn
<1>8. NonceUsedOnce'
  BY <1>1, <1>2, <1>3 DEF NonceInv, NonceUsedOnce
<1>9. QED
  BY <1>4, <1>6, <1>7, <1>8 DEF NonceInv

LEMMA DropNonce ==
  ASSUME NonceInv, NEW p \in Party, Drop(p)
  PROVE  NonceInv'
<1>1. NoSession.step # 1
  BY StateFields DEF NoSession
<1>2. QED
  BY <1>1, MoveOn DEF Drop

-------------------------------------------------------------------------------
(* The actions.                                                            *)
LEMMA DecafNonces ==
  ASSUME NonceInv, NEW p \in Party, DecafInit(p) \/ DecafRound(p) \/ DecafAggregate(p)
  PROVE  NonceInv'
<1>1. CASE DecafInit(p)
  BY <1>1, DrawNonce DEF DecafInit, SendCommitment
<1>2. CASE DecafRound(p)
  <2> DEFINE R == SumOf(p, "commit", MyNonce(p))
             state == SignState(2, sess[p].draw, R, sess[p].heard)
  <2>1. /\ sess[p].step = 1 /\ Answer(p, R) /\ sess' = [sess EXCEPT ![p] = state]
    BY <1>2 DEF DecafRound
  <2>2. state.step # 1
    BY StateFields
  <2> HIDE DEF R, state
  <2>3. QED
    BY <2>1, <2>2, AnswerOnce
<1>3. CASE DecafAggregate(p)
  BY <1>3, DropNonce DEF DecafAggregate
<1>4. QED
  BY <1>1, <1>2, <1>3

LEMMA FrostNonces ==
  ASSUME NonceInv, NEW p \in Party, FrostInit(p) \/ FrostRound1to2(p) \/ FrostRound2to3(p)
  PROVE  NonceInv'
<1>1. CASE FrostInit(p)
  BY <1>1, DrawNonce DEF FrostInit, SendCommitment
<1>2. CASE FrostRound1to2(p)
  <2> DEFINE R == SumOf(p, "commit", MyNonce(p))
             heard == [q \in Party |-> IF q = p THEN MyNonce(p) ELSE Contrib(p, q).value]
             state == SignState(2, sess[p].draw, R, heard)
  <2>1. /\ sess[p].step = 1 /\ Answer(p, R) /\ sess' = [sess EXCEPT ![p] = state]
    BY <1>2 DEF FrostRound1to2
  <2>2. state.step # 1
    BY StateFields
  <2> HIDE DEF R, heard, state
  <2>3. QED
    BY <2>1, <2>2, AnswerOnce
<1>3. CASE FrostRound2to3(p)
  BY <1>3, DropNonce DEF FrostRound2to3
<1>4. QED
  BY <1>1, <1>2, <1>3

LEMMA BlsNonces ==
  ASSUME NonceInv, NEW p \in Party,
         BlsInit(p) \/ BlsAggregate(p) \/ Bls12381Init(p) \/ Bls12381Aggregate(p)
  PROVE  NonceInv'
<1>1. CASE BlsInit(p) \/ Bls12381Init(p)
  BY <1>1, DrawNonce DEF BlsInit, Bls12381Init, SendPartial
<1>2. CASE BlsAggregate(p) \/ Bls12381Aggregate(p)
  BY <1>2, DropNonce DEF BlsAggregate, Bls12381Aggregate, Aggregate
<1>3. QED
  BY <1>1, <1>2

LEMMA DklsNonces ==
  ASSUME NonceInv, NEW p \in Party, DklsInit(p) \/ DklsAdvance(p) \/ DklsFinalize(p)
  PROVE  NonceInv'
<1>1. CASE DklsInit(p)
  BY <1>1, DrawNonce DEF DklsInit
<1>2. CASE DklsAdvance(p)
  <2> DEFINE heard == IF sess[p].step = 1 THEN Heard(p) ELSE sess[p].heard
             state == SignState(sess[p].step + 1, sess[p].draw, sess[p].R, heard)
  <2>1. /\ sess[p].step \in {1, 2} /\ sess' = [sess EXCEPT ![p] = state]
        /\ UNCHANGED <<draws, answered>>
    BY <1>2 DEF DklsAdvance
  <2>2. state.step # 1
    BY <2>1, StateFields
  <2> HIDE DEF heard, state
  <2>3. QED
    BY <2>1, <2>2, MoveOn
<1>3. CASE DklsFinalize(p)
  BY <1>3, DropNonce DEF DklsFinalize
<1>4. QED
  BY <1>1, <1>2, <1>3

(* The actions that have nothing to do with the session.                   *)
LEMMA OtherNonces ==
  ASSUME NonceInv, NEW p \in Party,
         \/ LoadKeyShare(p) \/ Again(p) \/ NoSessionRefuses(p) \/ FrostRefuses(p)
         \/ Bls12381Refuses(p) \/ RsaPartial(p) \/ RsaCombine(p) \/ DklsRefuses(p) \/ PeersTold(p)
  PROVE  NonceInv'
<1>1. UNCHANGED signVars
  BY DEF LoadKeyShare, Again, NoSessionRefuses, FrostRefuses, Bls12381Refuses, RsaPartial,
         RsaCombine, DklsRefuses, PeersTold, Refuse, signVars
<1>2. QED
  BY <1>1, SameNonces DEF signVars

LEMMA NonceStep == ASSUME NonceInv, [Next]_vars PROVE NonceInv'
<1>1. ASSUME NEW p \in Party, Session(p)
      PROVE  NonceInv'
  BY <1>1, DecafNonces, FrostNonces, BlsNonces, DklsNonces, OtherNonces DEF Session
<1>2. ASSUME NEW p \in Party, Tick(p), ~Session(p)
      PROVE  NonceInv'
  BY <1>2, SameNonces DEF Tick, signVars
<1>3. ASSUME NEW p \in Party, Fault(p)
      PROVE  NonceInv'
  <2>1. CASE Restart(p)
    BY <2>1, DropNonce DEF Restart
  <2>2. CASE ~Restart(p)
    BY <1>3, <2>2, SameNonces DEF Fault, LoadFails, signVars
  <2>3. QED
    BY <2>1, <2>2
<1>4. CASE Serve \/ UNCHANGED vars
  BY <1>4, SameNonces DEF Serve, vars, signVars
<1>5. QED
  BY <1>1, <1>2, <1>3, <1>4 DEF Next

-------------------------------------------------------------------------------
(* No two partials that answer different challenges leave a sidecar under  *)
(* one drawn nonce: a session answers once and is then of step 2, and      *)
(* every other way to an answer begins with a draw.  So it is through lost *)
(* calls, repeated rounds and restarts, of which none brings a session     *)
(* back to step 1.                                                         *)
THEOREM OneChallengePerNonce == Spec => []NonceUsedOnce
<1>1. Init => NonceInv
  BY NonceInit
<1>2. NonceInv /\ [Next]_vars => NonceInv'
  BY NonceStep
<1>3. NonceInv => NonceUsedOnce
  BY DEF NonceInv
<1>4. QED
  BY <1>1, <1>2, <1>3, PTL DEF Spec

-------------------------------------------------------------------------------
(* The sums of signing.                                                    *)
LEMMA Keys ==
  /\ Q \in Nat \ {0} /\ Secret \in Int /\ IsFiniteSet(Party) /\ Party \subseteq Nat
  /\ \A p \in Party : WeightedShare(p, Party) \in 0 .. Q - 1
BY KeyAssumption, Interpolation, RoundsAssumption DEF Field

LEMMA ChallengeIsInt == ASSUME NEW R \in 0 .. Q - 1 PROVE Challenge(R) \in Int
BY Keys, InTheField DEF Field

LEMMA NonceInField ==
  ASSUME NEW p \in Party, NEW d \in Draws PROVE Nonce(p, d) \in 0 .. Q - 1
BY InTheField DEF Field

(* The field elements of a key share and a nonce, multiplied and added.    *)
LEMMA InField ==
  ASSUME NEW k \in Int, NEW c \in Int, NEW l \in Int
  PROVE  (k + c * l) % Q \in 0 .. Q - 1
<1> DEFINE n == k + c * l
<1>1. n \in Int
  <2>1. c * l \in Int
    OBVIOUS
  <2> QED
    BY <2>1
<1> HIDE DEF n
<1>2. n % Q \in 0 .. Q - 1
  BY <1>1, Keys, ModDivides
<1> QED
  BY <1>2 DEF n

(* Partials under nonces k add up as their nonces and the secret do.       *)
LEMMA PartialsAddUp ==
  ASSUME NEW c \in Int, NEW k, Terms(k, Party),
         NEW h, \A p \in Party : h[p] = (k[p] + c * WeightedShare(p, Party)) % Q
  PROVE  SumMod(h, 0, Party, Q) = (SumMod(k, 0, Party, Q) + c * Secret) % Q
<1> DEFINE l == [p \in Party |-> WeightedShare(p, Party)]
<1>1. SumMod(l, 0, Party, Q) = Secret
  BY Interpolation
<1>2. Terms(l, Party)
  BY Keys DEF Terms
<1>3. TermsAddUp(h, k, c, l, Party, Q)
  BY DEF TermsAddUp
<1> HIDE DEF l
<1>4. SumsAddUp(h, k, c, l, Party, Q)
  BY <1>2, <1>3, Keys, SumLinear
<1> QED
  BY <1>1, <1>4 DEF SumsAddUp

(* What a party adds to its own term is everybody's.                       *)
LEMMA OthersSum ==
  ASSUME NEW p \in Party, NEW kind, NEW f, Terms(f, Party), f[p] \in 0 .. Q - 1,
         Senders(p, kind) = Others(p), \A q \in Others(p) : Contrib(p, q).value = f[q]
  PROVE  SumOf(p, kind, f[p]) = SumMod(f, 0, Party, Q)
<1> DEFINE g == [q \in Others(p) |-> Contrib(p, q).value]
<1>1. SumOf(p, kind, f[p]) = SumMod(g, f[p], Others(p), Q)
  BY DEF SumOf
<1>2. \A q \in Others(p) : g[q] = f[q]
  OBVIOUS
<1>3. IsFiniteSet(Others(p))
  BY Keys, FS_Subset DEF Others
<1> HIDE DEF g
<1>4. SumMod(g, f[p], Others(p), Q) = SumMod(f, f[p], Others(p), Q)
  BY <1>2, <1>3, SumSame
<1>5. SumMod(f, f[p], Party \ {p}, Q) = SumMod(f, 0, Party, Q)
  BY Keys, SumFirst
<1> QED
  BY <1>1, <1>4, <1>5 DEF Others

LEMMA AllOthersSent ==
  ASSUME NEW p \in Party, NEW kind, AllSent(p, kind)
  PROVE  /\ Senders(p, kind) = Others(p) /\ CosignerIds = Party
         /\ \A q \in Others(p) : Contrib(p, q).kind = kind
<1>1. CosignerIds \ {p} = Senders(p, kind) /\ Senders(p, kind) \subseteq Party
  BY DEF AllSent, Senders, Others
<1>2. Party \subseteq CosignerIds
  BY KeyAssumption DEF CosignerIds
<1>3. CosignerIds = Party
  BY <1>1, <1>2
<1>4. \A q \in Senders(p, kind) : Contrib(p, q).kind = kind
  BY DEF Senders
<1> QED
  BY <1>1, <1>3, <1>4 DEF Others

Nonces(draw) == [p \in Party |-> Nonce(p, draw[p])]
GroupOf(draw) == SumMod(Nonces(draw), 0, Party, Q)
Schnorr(R) == Signature(R, (R + Challenge(R) * Secret) % Q)

LEMMA NoncesAreTerms ==
  ASSUME NEW draw, \A p \in Party : draw[p] \in Draws
  PROVE  Terms(Nonces(draw), Party) /\ GroupOf(draw) \in 0 .. Q - 1
<1>1. Terms(Nonces(draw), Party)
  BY NonceInField DEF Terms, Nonces
<1>2. 0 \in 0 .. Q - 1
  BY Keys
<1> QED
  BY <1>1, <1>2, Keys, SumRange DEF GroupOf

-------------------------------------------------------------------------------
(* The inductive invariant of the signatures, over failures and restarts.  *)
(* A party is settled when it can start no session of this task any more.  *)
Settled(p) ==
  /\ round > 0 /\ pc[p] # "loading"
  /\ pc[p] = "polled" => snap[p].round > 0

Layout ==
  /\ round \in Nat /\ faults \in Nat /\ restarts \in 0 .. MaxRestarts
  /\ pc = [p \in Party |-> pc[p]] /\ snap = [p \in Party |-> snap[p]]
  /\ out = [p \in Party |-> out[p]] /\ submitted = [p \in Party |-> submitted[p]]
  /\ inbox = [p \in Party |-> inbox[p]] /\ contribs = [p \in Party |-> contribs[p]]
  /\ \A p \in Party : snap[p].round \in 0 .. round

(* A FROST session that has answered: everybody's nonces and their sum.    *)
FrostSession(p) ==
  /\ CosignerIds = Party
  /\ \E d \in [Party -> Draws] :
       d[p] = draws[p] /\ sess[p].heard = Nonces(d) /\ sess[p].R = GroupOf(d)
  /\ [party |-> p, draw |-> draws[p], R |-> sess[p].R] \in answered

(* A session holds the latest draw, and every draw but the first follows a *)
(* restart.                                                                *)
Local(p) ==
  /\ pc[p] = "loading" => sess[p].step = 0 /\ snap[p].round = 0
  /\ sess[p].step # 0 => sess[p].draw = draws[p] /\ draws[p] > 0
  /\ draws[p] <= restarts + 1
  /\ sess[p].step = 0 /\ ~Settled(p) => draws[p] <= restarts
  /\ protocol = "dkls23" /\ sess[p].step \in {2, 3} => sess[p].heard[p] = draws[p]
  /\ protocol = "frost" /\ sess[p].step = 2 => FrostSession(p)

(* What q may have contributed, c: it fits what its session did.           *)
FrostFits(q, c) ==
  /\ c.kind = "commit" => \E d \in Draws : c.value = Nonce(q, d)
  /\ c.kind = "partial" =>
       /\ CosignerIds = Party
       /\ \E a \in answered :
            /\ a.party = q /\ a.draw \in Draws /\ a.R \in GroupCommitments
            /\ c.value = FrostPartial(q, Nonce(q, a.draw), a.R)
  /\ c.kind = "complete" =>
       c = Schnorr(c.R) /\ \A r \in Party : \E a \in answered : a.party = r /\ a.R = c.R
DklsFits(q, c) ==
  /\ c.kind = "message" /\ c.step \in {2, 3} => Settled(q) /\ c.draw = draws[q]
  /\ c.kind = "complete" => c = Schnorr(GroupOf(draws)) /\ \A r \in Party : Settled(r)
RsaSignature ==
  CHOOSE s \in 0 .. N - 1 :
             /\ PowMod(s, E, N) = Input
             /\ \A S \in SUBSET Party :
                  (\E p, q \in S : p # q) => Combined([p \in S |-> RsaPartialOf(p)]) = s
RsaFits(q, c) ==
  /\ c.kind = "partial" => c.value = RsaPartialOf(q)
  /\ c.kind = "complete" => c = Signature(0, RsaSignature)
Fits(q, c) ==
  /\ protocol = "frost" => FrostFits(q, c)
  /\ protocol = "dkls23" => DklsFits(q, c)
  /\ protocol = "rsa" => RsaFits(q, c)
Held(q) ==
  {inbox[q], contribs[q], out[q]} \cup {snap[p].contribs[q] : p \in Party}
AllFit == \A q \in Party : \A c \in Held(q) : Fits(q, c)

(* A FROST partial left under the latest draw, which is the last.          *)
AnswersLast ==
  protocol = "frost" =>
    \A a \in answered : a.party \in Party /\ Settled(a.party) /\ a.draw = draws[a.party]

SignInv ==
  /\ Layout
  /\ protocol # "rsa" => \A p \in Party : Local(p)
  /\ AllFit
  /\ AnswersLast

(* Without failures Decaf448 and BLS go through their rounds together.     *)
LastOf(kind) == IF kind = "decaf448" THEN 2 ELSE 1
FirstR == GroupOf([p \in Party |-> 1])
Expected(kind, p, r) ==
  IF kind = "decaf448"
  THEN IF r = 0 THEN Commitment(Nonce(p, 1))
       ELSE IF r = 1 THEN Partial((Nonce(p, 1) - Challenge(FirstR) * WeightedShare(p, Party)) % Q)
       ELSE Signature(FirstR, (FirstR - Challenge(FirstR) * Secret) % Q)
  ELSE IF r = 0 THEN Partial(WeightedShare(p, Party)) ELSE Signature(0, Secret)
SessionAt(p, r) ==
  /\ r = 0 => sess[p].step = 0 /\ draws[p] = 0
  /\ r = 1 => sess[p].step = 1 /\ sess[p].draw = 1
  /\ r = 2 => sess[p].step = 2 /\ sess[p].draw = 1 /\ sess[p].R = FirstR
Ahead(p) ==
  /\ inbox[p].kind = "none" /\ round \notin submitted[p]
  /\ pc[p] \in {"idle", "polled", "loading"} /\ SessionAt(p, round)
Doing(p) ==
  /\ inbox[p].kind = "none" /\ round \notin submitted[p]
  /\ pc[p] = "submitting" /\ snap[p].round = round /\ out[p] = Expected(protocol, p, round)
  /\ round < LastOf(protocol) => SessionAt(p, round + 1)
Past(p) ==
  /\ inbox[p] = Expected(protocol, p, round) /\ round \in submitted[p]
  /\ pc[p] \in {"idle", "polled"}
  /\ round < LastOf(protocol) => SessionAt(p, round + 1)
Listed(p) ==
  /\ pc[p] = "polled" =>
       snap[p].round \in submitted[p] \/ snap[p] = [round |-> round, contribs |-> contribs]
  /\ pc[p] = "loading" => round = 0
  /\ pc[p] # "submitting" => out[p].kind = "none"
  /\ submitted[p] \subseteq 0 .. round
Lockstep ==
  /\ round <= LastOf(protocol)
  /\ \A p \in Party : (Ahead(p) \/ Doing(p) \/ Past(p)) /\ Listed(p)
  /\ round > 0 => \A p \in Party : contribs[p] = Expected(protocol, p, round - 1)
  /\ done => \A p \in Party : inbox[p].kind # "none"
Undisturbed ==
  faults = 0 /\ CosignerIds = Party /\ protocol \in {"decaf448", "bls48581", "bls12381"}
InLockstep == Undisturbed => Lockstep

-------------------------------------------------------------------------------
(* What the invariants say of the signatures.                              *)
LEMMA Fields ==
  /\ NoContribution.kind = "none" /\ Empty.kind = "empty"
  /\ \A v : Commitment(v).kind = "commit" /\ Commitment(v).value = v
  /\ \A v : Partial(v).kind = "partial" /\ Partial(v).value = v
  /\ \A s, d : Message(s, d).kind = "message" /\ Message(s, d).step = s /\ Message(s, d).draw = d
  /\ \A R, s : Signature(R, s).kind = "complete" /\ Signature(R, s).R = R /\ Signature(R, s).s = s
BY DEF NoContribution, Empty, Commitment, Partial, Message, Signature

LEMMA SchnorrFields ==
  ASSUME NEW R
  PROVE  Schnorr(R).kind = "complete" /\ Schnorr(R).R = R
         /\ Schnorr(R).s = (R + Challenge(R) * Secret) % Q
BY DEF Schnorr, Signature

LEMMA RsaSigns ==
  /\ RsaSignature \in 0 .. N - 1 /\ PowMod(RsaSignature, E, N) = Input
  /\ \A S \in SUBSET Party :
       (\E p, q \in S : p # q) => Combined([p \in S |-> RsaPartialOf(p)]) = RsaSignature
<1> DEFINE Signs(s) ==
             /\ PowMod(s, E, N) = Input
             /\ \A S \in SUBSET Party :
                  (\E p, q \in S : p # q) => Combined([p \in S |-> RsaPartialOf(p)]) = s
<1>1. \E s \in 0 .. N - 1 : Signs(s)
  BY ShoupCombines
<1>2. RsaSignature = CHOOSE s \in 0 .. N - 1 : Signs(s)
  BY DEF RsaSignature
<1> HIDE DEF Signs
<1>3. RsaSignature \in 0 .. N - 1 /\ Signs(RsaSignature)
  BY <1>1, <1>2
<1> QED
  BY <1>3 DEF Signs

LEMMA FrostSigned ==
  ASSUME SignInv, NonceUsedOnce, protocol = "frost",
         NEW p \in Party, NEW c \in Sent(p), NEW q \in Party, NEW e \in Sent(q)
  PROVE  Verifies(c) /\ c = e
<1>1. FrostFits(p, c) /\ FrostFits(q, e) /\ c.kind = "complete" /\ e.kind = "complete"
  BY DEF SignInv, AllFit, Held, Fits, Sent
<1>2. c = Schnorr(c.R) /\ e = Schnorr(e.R)
  BY <1>1 DEF FrostFits
<1>3. PICK r \in Party : TRUE
  OBVIOUS
<1>4. PICK a \in answered : a.party = r /\ a.R = c.R
  BY <1>1, <1>3 DEF FrostFits
<1>5. PICK b \in answered : b.party = r /\ b.R = e.R
  BY <1>1, <1>3 DEF FrostFits
<1>6. a.draw = b.draw
  BY <1>4, <1>5 DEF SignInv, AnswersLast
<1>7. c.R = e.R
  BY <1>4, <1>5, <1>6 DEF NonceUsedOnce
<1>8. Verifies(c)
  <2>1. c.s = (c.R + Challenge(c.R) * Secret) % Q
    BY <1>2, SchnorrFields
  <2> QED
    BY <2>1 DEF Verifies
<1> QED
  BY <1>2, <1>7, <1>8

LEMMA DklsSigned ==
  ASSUME SignInv, protocol = "dkls23",
         NEW p \in Party, NEW c \in Sent(p), NEW q \in Party, NEW e \in Sent(q)
  PROVE  Verifies(c) /\ c = e
<1>1. DklsFits(p, c) /\ DklsFits(q, e) /\ c.kind = "complete" /\ e.kind = "complete"
  BY DEF SignInv, AllFit, Held, Fits, Sent
<1>2. c = Schnorr(GroupOf(draws)) /\ e = c
  BY <1>1 DEF DklsFits
<1>3. c.s = (c.R + Challenge(c.R) * Secret) % Q
  BY <1>2, SchnorrFields
<1> QED
  BY <1>2, <1>3 DEF Verifies

LEMMA RsaSigned ==
  ASSUME SignInv, protocol = "rsa",
         NEW p \in Party, NEW c \in Sent(p), NEW q \in Party, NEW e \in Sent(q)
  PROVE  Verifies(c) /\ c = e
<1>1. RsaFits(p, c) /\ RsaFits(q, e) /\ c.kind = "complete" /\ e.kind = "complete"
  BY DEF SignInv, AllFit, Held, Fits, Sent
<1>2. c = Signature(0, RsaSignature) /\ e = c
  BY <1>1 DEF RsaFits
<1>3. c.s = RsaSignature
  BY <1>2, Fields
<1> QED
  BY <1>2, <1>3, RsaSigns DEF Verifies

(* In lockstep: a signature is what is expected of the last round.         *)
LEMMA ExpectedKinds ==
  ASSUME NEW p, Undisturbed
  PROVE  /\ \A r \in 0 .. LastOf(protocol) : Expected(protocol, p, r).kind # "none"
                                  /\ (Expected(protocol, p, r).kind = "complete" <=> r = LastOf(protocol))
BY Fields DEF Expected, LastOf, Undisturbed

LEMMA LockstepSigned ==
  ASSUME Layout, InLockstep, Undisturbed,
         NEW p \in Party, NEW c \in Sent(p), NEW q \in Party, NEW e \in Sent(q)
  PROVE  Verifies(c) /\ c = e
<1>1. Lockstep /\ round \in 0 .. LastOf(protocol)
  BY DEF InLockstep, Lockstep, Layout, LastOf
<1>2. ASSUME NEW r \in Party, NEW d \in Sent(r) PROVE d = Expected(protocol, r, LastOf(protocol))
  <2>1. d.kind = "complete" /\ d \in {out[r], inbox[r]}
    BY DEF Sent
  <2>2. d = Expected(protocol, r, round)
    <3>1. pc[r] # "submitting" => out[r].kind = "none"
      BY <1>1 DEF Lockstep, Listed
    <3>2. Ahead(r) \/ Doing(r) \/ Past(r)
      BY <1>1 DEF Lockstep
    <3>3. \/ inbox[r].kind = "none" /\ (pc[r] = "submitting" => out[r] = Expected(protocol, r, round))
          \/ inbox[r] = Expected(protocol, r, round) /\ pc[r] # "submitting"
      BY <3>2 DEF Ahead, Doing, Past
    <3> QED
      BY <2>1, <3>1, <3>3
  <2> QED
    BY <1>1, <2>1, <2>2, ExpectedKinds
<1>3. c = Expected(protocol, p, LastOf(protocol)) /\ e = Expected(protocol, q, LastOf(protocol))
  BY <1>2
<1>4. CASE protocol = "decaf448"
  <2>1. c = Signature(FirstR, (FirstR - Challenge(FirstR) * Secret) % Q) /\ e = c
    BY <1>3, <1>4 DEF Expected, LastOf
  <2>2. c.s = (c.R - Challenge(c.R) * Secret) % Q
    BY <2>1, Fields
  <2> QED
    BY <1>4, <2>1, <2>2 DEF Verifies
<1>5. CASE protocol \in {"bls48581", "bls12381"}
  <2>1. c = Signature(0, Secret) /\ e = c
    BY <1>3, <1>5 DEF Expected, LastOf
  <2> QED
    BY <1>5, <2>1, Fields DEF Verifies
<1> QED
  BY <1>4, <1>5 DEF Undisturbed

LEMMA Signed ==
  ASSUME SignInv, NonceUsedOnce, InLockstep, protocol \in Protocols
  PROVE  SignaturesVerify
<1> SUFFICES ASSUME Trustworthy PROVE SignaturesVerify
  BY DEF SignaturesVerify
<1> DEFINE Fine == \A p, q \in Party : \A c \in Sent(p), e \in Sent(q) : Verifies(c) /\ c = e
<1>1. CASE protocol = "frost"
  <2>1. Fine
    BY <1>1, FrostSigned
  <2> QED
    BY <2>1 DEF SignaturesVerify
<1>2. CASE protocol = "dkls23"
  <2>1. Fine
    BY <1>2, DklsSigned
  <2> QED
    BY <2>1 DEF SignaturesVerify
<1>3. CASE protocol = "rsa"
  <2>1. Fine
    BY <1>3, RsaSigned
  <2> QED
    BY <2>1 DEF SignaturesVerify
<1>4. CASE protocol \notin {"frost", "dkls23", "rsa"}
  <2>1. Undisturbed
    BY <1>4, KeyAssumption DEF Undisturbed, Trustworthy, CosignerIds
  <2>2. Fine
    BY <2>1, LockstepSigned DEF SignInv
  <2> QED
    BY <2>2 DEF SignaturesVerify
<1> QED
  BY <1>1, <1>2, <1>3, <1>4

LEMMA SignInit == ASSUME Init PROVE SignInv /\ InLockstep
<1> USE Fields
<1>1. /\ round = 0 /\ faults = 0 /\ restarts = 0 /\ done = FALSE /\ answered = {}
      /\ inbox = [p \in Party |-> NoContribution] /\ contribs = [p \in Party |-> NoContribution]
      /\ pc = [p \in Party |-> "idle"] /\ snap = [p \in Party |-> NoTask]
      /\ out = [p \in Party |-> NoContribution] /\ submitted = [p \in Party |-> {}]
      /\ sess = [p \in Party |-> NoSession] /\ draws = [p \in Party |-> 0]
  BY DEF Init, InitRounds
<1>2. NoSession.step = 0
  BY StateFields DEF NoSession
<1>3. NoTask.round = 0 /\ NoTask.contribs = [p \in Party |-> NoContribution]
  BY DEF NoTask
<1>4. Layout
  BY <1>1, <1>3, RoundsAssumption DEF Layout
<1>5. \A p \in Party : Local(p)
  BY <1>1, <1>2 DEF Local
<1>6. \A p : Fits(p, NoContribution)
  BY DEF Fits, FrostFits, DklsFits, RsaFits
<1>7. AllFit
  BY <1>1, <1>3, <1>6 DEF AllFit, Held
<1>8. AnswersLast
  BY <1>1 DEF AnswersLast
<1>9. Lockstep
  BY <1>1, <1>2, <1>3 DEF Lockstep, Ahead, Listed, SessionAt, LastOf
<1> QED
  BY <1>4, <1>5, <1>7, <1>8, <1>9 DEF SignInv, InLockstep

-------------------------------------------------------------------------------
(* What an action does to the task and to the tick.                        *)
Told(p) ==
  /\ pc[p] = "telling"
  /\ pc' = [pc EXCEPT ![p] = "submitting"]
  /\ UNCHANGED <<serverVars, snap, out, submitted, faults, restarts>>
Ends(p) ==
  \/ SkipSubmitted(p) \/ Throw(p) \/ UpdateTask(p) \/ UpdateTaskFails(p)
  \/ AwaitFails(p, "loading") \/ LoseTick(p)
Sends(p) == \E c : Submit(p, c) \/ Tell(p, c)
Does(p) == ListTasks(p) \/ Await(p, "loading") \/ Told(p) \/ Ends(p) \/ Sends(p)

Kept(p) ==
  /\ round' = round /\ contribs' = contribs /\ done' = done
  /\ restarts' \in {restarts, restarts + 1} /\ faults' \in {faults, faults + 1}
  /\ \A q \in Party \ {p} :
       /\ pc'[q] = pc[q] /\ snap'[q] = snap[q] /\ out'[q] = out[q]
       /\ submitted'[q] = submitted[q] /\ inbox'[q] = inbox[q]
  /\ inbox'[p] \in {inbox[p], out[p]}
  /\ snap'[p] \in {snap[p], NoTask, [round |-> round, contribs |-> contribs]}

LEMMA SendsKeep ==
  ASSUME Layout, NEW p \in Party, NEW c, Submit(p, c) \/ Tell(p, c)
  PROVE  /\ Layout' /\ Kept(p)
         /\ snap' = snap /\ restarts' = restarts /\ faults' = faults /\ submitted' = submitted
         /\ inbox' = inbox /\ out'[p] = c /\ pc'[p] \in {"submitting", "telling"}
BY DEF Layout, Kept, Submit, Tell, serverVars

LEMMA EndsKeep ==
  ASSUME Layout, NEW p \in Party, Ends(p)
  PROVE  Layout' /\ Kept(p) /\ pc'[p] = "idle" /\ out'[p] = NoContribution
<1>1. EndTick(p)
  BY DEF Ends, SkipSubmitted, Throw, UpdateTask, UpdateTaskFails, AwaitFails, LoseTick
<1>2. /\ round' = round /\ contribs' = contribs /\ done' = done
      /\ submitted' = [q \in Party |-> submitted'[q]]
      /\ \A q \in Party \ {p} : submitted'[q] = submitted[q]
  BY DEF Ends, SkipSubmitted, Throw, UpdateTask, UpdateTaskFails, AwaitFails, LoseTick, Layout,
         serverVars
<1>3. /\ faults' \in {faults, faults + 1}
      /\ restarts' = restarts \/ (restarts' = restarts + 1 /\ restarts < MaxRestarts)
  BY DEF Ends, SkipSubmitted, Throw, UpdateTask, UpdateTaskFails, AwaitFails, LoseTick, serverVars
<1>4. inbox' = inbox \/ inbox' = Recorded(p)
  BY DEF Ends, SkipSubmitted, Throw, UpdateTask, UpdateTaskFails, AwaitFails, LoseTick, Layout,
         serverVars
<1>5. /\ inbox' = [q \in Party |-> inbox'[q]] /\ inbox'[p] \in {inbox[p], out[p]}
      /\ \A q \in Party \ {p} : inbox'[q] = inbox[q]
  BY <1>4 DEF Recorded, Layout
<1>6. /\ pc' = [q \in Party |-> pc'[q]] /\ pc'[p] = "idle"
      /\ snap' = [q \in Party |-> snap'[q]] /\ snap'[p] = NoTask
      /\ out' = [q \in Party |-> out'[q]] /\ out'[p] = NoContribution
      /\ \A q \in Party \ {p} : pc'[q] = pc[q] /\ snap'[q] = snap[q] /\ out'[q] = out[q]
  BY <1>1 DEF EndTick, Layout
<1>7. \A q \in Party : snap'[q].round \in 0 .. round'
  <2>1. NoTask.round = 0
    BY DEF NoTask
  <2> QED
    BY <1>2, <1>6, <2>1 DEF Layout
<1>8. contribs' = [q \in Party |-> contribs'[q]] /\ round' \in Nat /\ faults' \in Nat
      /\ restarts' \in 0 .. MaxRestarts /\ restarts' \in {restarts, restarts + 1}
  BY <1>2, <1>3, RoundsAssumption DEF Layout
<1>9. Layout'
  BY <1>2, <1>5, <1>6, <1>7, <1>8 DEF Layout
<1> QED
  BY <1>2, <1>3, <1>5, <1>6, <1>8, <1>9 DEF Kept

LEMMA DoesKeep == ASSUME Layout, NEW p \in Party, Does(p) PROVE Layout' /\ Kept(p)
<1>1. CASE ListTasks(p)
  <2> DEFINE listed == [round |-> round, contribs |-> contribs]
  <2>1. /\ UNCHANGED <<round, inbox, contribs, done, out, submitted, faults, restarts>>
        /\ pc' = [pc EXCEPT ![p] = "polled"] /\ snap' = [snap EXCEPT ![p] = listed]
    BY <1>1 DEF ListTasks, serverVars
  <2>2. listed.round = round
    OBVIOUS
  <2>3. /\ pc' = [q \in Party |-> pc'[q]] /\ snap' = [q \in Party |-> snap'[q]]
        /\ snap'[p] = listed /\ \A q \in Party \ {p} : pc'[q] = pc[q] /\ snap'[q] = snap[q]
    BY <2>1 DEF Layout
  <2> HIDE DEF listed
  <2>4. \A q \in Party : snap'[q].round \in 0 .. round
    BY <2>2, <2>3 DEF Layout
  <2>5. Layout'
    BY <2>1, <2>3, <2>4 DEF Layout
  <2> QED
    BY <2>1, <2>3, <2>5 DEF Kept, listed
<1>2. CASE Await(p, "loading") \/ Told(p)
  BY <1>2 DEF Layout, Kept, Await, Told, serverVars
<1>3. CASE Ends(p)
  BY <1>3, EndsKeep
<1>4. CASE Sends(p)
  BY <1>4, SendsKeep DEF Sends
<1> QED
  BY <1>1, <1>2, <1>3, <1>4 DEF Does

(* Nothing that is held appears but what a sidecar sends.                  *)
LEMMA HeldStays ==
  ASSUME Layout, NEW p \in Party, Does(p), NEW q \in Party, NEW c, c \in Held(q)'
  PROVE  c \in Held(q) \/ c = NoContribution \/ (q = p /\ Sends(p) /\ c = out'[p])
<1>1. Kept(p) /\ Layout'
  BY DoesKeep
<1>2. CASE c = inbox'[q]
  BY <1>1, <1>2 DEF Kept, Held
<1>3. CASE c = contribs'[q]
  BY <1>1, <1>3 DEF Kept, Held
<1>4. CASE c = out'[q]
  <2>1. CASE q # p
    BY <1>1, <1>4, <2>1 DEF Kept, Held
  <2>2. CASE q = p /\ ~Sends(p)
    <3>1. out'[p] = out[p] \/ out'[p] = NoContribution
      BY <2>2, EndsKeep DEF Does, ListTasks, Await, Told
    <3> QED
      BY <1>4, <2>2, <3>1 DEF Held
  <2> QED
    BY <1>4, <2>1, <2>2
<1>5. ASSUME NEW r \in Party, c = snap'[r].contribs[q]
      PROVE  c \in Held(q) \/ c = NoContribution
  <2>1. snap'[r] \in {snap[r], NoTask, [round |-> round, contribs |-> contribs]}
    BY <1>1 DEF Kept
  <2>2. NoTask.contribs[q] = NoContribution
    BY DEF NoTask
  <2> QED
    BY <1>5, <2>1, <2>2 DEF Held
<1> QED
  BY <1>2, <1>3, <1>4, <1>5 DEF Held

(* A settled party stays so.                                               *)
LEMMA SettledStays ==
  ASSUME Layout, NEW p \in Party, Does(p), Await(p, "loading") => ~Settled(p),
         NEW q \in Party, Settled(q)
  PROVE  Settled(q)'
<1>1. Kept(p)
  BY DoesKeep
<1>2. CASE q # p
  BY <1>1, <1>2 DEF Kept, Settled
<1>3. CASE q = p
  <2>1. CASE ListTasks(p)
    BY <1>3, <2>1 DEF ListTasks, Settled, Layout, serverVars
  <2>2. CASE Told(p)
    BY <1>3, <2>2 DEF Told, Settled, Layout, serverVars
  <2>3. CASE Ends(p)
    <3>1. pc'[p] = "idle"
      BY <2>3, EndsKeep
    <3> QED
      BY <1>1, <1>3, <3>1 DEF Settled, Kept
  <2>4. CASE Sends(p)
    <3>1. pc'[p] \in {"submitting", "telling"}
      BY <2>4, SendsKeep DEF Sends
    <3> QED
      BY <1>1, <1>3, <3>1 DEF Settled, Kept
  <2> QED
    BY <1>3, <2>1, <2>2, <2>3, <2>4 DEF Does
<1> QED
  BY <1>2, <1>3

-------------------------------------------------------------------------------
(* What settled parties have sent stays true of them.                      *)
Forward ==
  /\ protocol' = protocol /\ named' = named
  /\ answered \subseteq answered'
  /\ protocol # "rsa" =>
       \A r \in Party : Settled(r) => Settled(r)' /\ draws'[r] = draws[r]

LEMMA FitsStay ==
  ASSUME Forward, NEW q \in Party, NEW c, Fits(q, c)
  PROVE  Fits(q, c)'
<1>1. CosignerIds' = CosignerIds
  BY DEF Forward, CosignerIds
<1>2. ASSUME protocol = "frost", FrostFits(q, c) PROVE FrostFits(q, c)'
  BY <1>1, <1>2 DEF Forward, FrostFits
<1>3. ASSUME protocol = "dkls23", DklsFits(q, c) PROVE DklsFits(q, c)'
  <2>1. \A r \in Party : Settled(r) => Settled(r)' /\ draws'[r] = draws[r]
    BY <1>3 DEF Forward
  <2>2. (\A r \in Party : Settled(r)) => Nonces(draws') = Nonces(draws)
    BY <2>1 DEF Nonces
  <2>3. c.kind = "message" /\ c.step \in {2, 3} => Settled(q)' /\ c.draw = draws'[q]
    BY <1>3, <2>1 DEF DklsFits
  <2>4. c.kind = "complete" => c = Schnorr(GroupOf(draws')) /\ \A r \in Party : Settled(r)'
    BY <1>3, <2>1, <2>2 DEF DklsFits, GroupOf
  <2> QED
    BY <2>3, <2>4 DEF DklsFits
<1>4. RsaFits(q, c) => RsaFits(q, c)'
  BY DEF RsaFits
<1> QED
  BY <1>2, <1>3, <1>4 DEF Fits, Forward

LEMMA NothingFits ==
  ASSUME NEW q, NEW c, c.kind \in {"none", "empty"}
  PROVE  Fits(q, c) /\ Fits(q, c)'
BY DEF Fits, FrostFits, DklsFits, RsaFits

(* What a party does of its own leaves the others' invariants alone.       *)
LEMMA OthersLocal ==
  ASSUME Forward, NEW p \in Party, Kept(p), NEW q \in Party \ {p}, Local(q), Layout,
         sess'[q] = sess[q], draws'[q] = draws[q], draws[q] \in Nat
  PROVE  Local(q)'
<1>1. CosignerIds' = CosignerIds
  BY DEF Forward, CosignerIds
<1>2. Settled(q)' = Settled(q)
  BY DEF Kept, Settled
<1>3. restarts \in Nat /\ restarts' \in Nat /\ restarts <= restarts'
  BY DEF Layout, Kept
<1>4. FrostSession(q) => FrostSession(q)'
  BY <1>1 DEF FrostSession, Forward
<1>5. pc'[q] = pc[q] /\ snap'[q] = snap[q] /\ protocol' = protocol
  BY DEF Kept, Forward
<1> HIDE DEF Settled
<1>6. draws'[q] <= restarts' + 1 /\ (draws[q] <= restarts => draws'[q] <= restarts')
  BY <1>3 DEF Local
<1> QED
  BY <1>2, <1>4, <1>5, <1>6 DEF Local

LEMMA PartyStep ==
  ASSUME NonceInv, SignInv, NEW p \in Party, Does(p), Forward,
         \A q \in Party \ {p} : sess'[q] = sess[q] /\ draws'[q] = draws[q],
         protocol # "rsa" => Local(p)',
         \A c : Sends(p) /\ c = out'[p] => Fits(p, c)',
         protocol = "frost" =>
           \A a \in answered' \ answered : a.party = p /\ Settled(p)' /\ a.draw = draws'[p]
  PROVE  SignInv'
<1>1. Layout' /\ Kept(p)
  BY DoesKeep DEF SignInv
<1>2. ASSUME protocol' # "rsa" PROVE \A q \in Party : Local(q)'
  <2>1. protocol # "rsa"
    BY <1>2 DEF Forward
  <2>2. \A q \in Party \ {p} : Local(q)'
    BY <1>1, <2>1, OthersLocal DEF SignInv, NonceInv, Shape
  <2> QED
    BY <2>1, <2>2
<1>3. AllFit'
  <2>1. SUFFICES ASSUME NEW q \in Party, NEW c, c \in Held(q)' PROVE Fits(q, c)'
    BY DEF AllFit
  <2>2. CASE c \in Held(q)
    BY <2>2, FitsStay DEF SignInv, AllFit
  <2>3. CASE c = NoContribution
    BY <2>3, NothingFits, Fields
  <2>4. CASE q = p /\ Sends(p) /\ c = out'[p]
    BY <2>4
  <2> QED
    BY <2>1, <2>2, <2>3, <2>4, HeldStays DEF SignInv
<1>4. AnswersLast'
  <2>1. SUFFICES ASSUME protocol = "frost", NEW a \in answered'
                 PROVE  a.party \in Party /\ Settled(a.party)' /\ a.draw = draws'[a.party]
    BY DEF AnswersLast, Forward
  <2>2. CASE a \in answered
    BY <2>1, <2>2 DEF SignInv, AnswersLast, Forward
  <2>3. CASE a \notin answered
    BY <2>1, <2>3
  <2> QED
    BY <2>2, <2>3
<1> QED
  BY <1>1, <1>2, <1>3, <1>4 DEF SignInv

(* The server, and nothing.                                                *)
LEMMA ServerStep ==
  ASSUME SignInv, NonceInv, Serve \/ UNCHANGED vars
  PROVE  SignInv'
<1>1. /\ UNCHANGED <<pc, snap, out, submitted, faults, restarts>>
      /\ UNCHANGED <<protocol, named, sess, draws, answered>>
      /\ round' = round \/ (round' = round + 1 /\ contribs' = inbox
                             /\ inbox' = [p \in Party |-> NoContribution])
      /\ round' = round => UNCHANGED <<contribs, inbox>>
  BY DEF SignInv, Layout, Serve, Server, AdvanceRound, FinishTask, vars, roundsVars, serverVars,
         tickVars, signVars
<1>2. round \in Nat /\ round' \in Nat /\ round <= round'
  BY <1>1 DEF SignInv, Layout
<1>3. Layout'
  BY <1>1, <1>2 DEF SignInv, Layout
<1>4. \A q \in Party : Settled(q) => Settled(q)'
  BY <1>1, <1>2 DEF Settled
<1>5. Forward
  BY <1>1, <1>4 DEF Forward
<1>6. \A q \in Party : Local(q) => Local(q)'
  <2>1. CosignerIds' = CosignerIds
    BY <1>1 DEF CosignerIds
  <2>2. \A q \in Party : FrostSession(q) => FrostSession(q)'
    BY <1>1, <2>1 DEF FrostSession
  <2> QED
    BY <1>1, <1>4, <2>2 DEF Local
<1>7. AllFit'
  <2>1. SUFFICES ASSUME NEW q \in Party, NEW c, c \in Held(q)' PROVE Fits(q, c)'
    BY DEF AllFit
  <2>2. c \in Held(q) \/ c = NoContribution
    BY <1>1, <2>1 DEF Held
  <2> QED
    BY <1>5, <2>2, FitsStay, NothingFits, Fields DEF SignInv, AllFit
<1>8. AnswersLast'
  BY <1>1, <1>4 DEF SignInv, AnswersLast
<1> QED
  BY <1>1, <1>3, <1>6, <1>7, <1>8 DEF SignInv

-------------------------------------------------------------------------------
(* The steps of a party, by what they do to its session.                   *)
LEMMA ForwardStep ==
  ASSUME Layout, NEW p \in Party, Does(p),
         protocol' = protocol, named' = named, answered \subseteq answered',
         \A q \in Party \ {p} : draws'[q] = draws[q],
         protocol # "rsa" =>
           (Await(p, "loading") => ~Settled(p)) /\ (Settled(p) => draws'[p] = draws[p])
  PROVE  Forward
BY SettledStays DEF Forward

LEMMA SendSettles ==
  ASSUME Layout, NEW p \in Party, Sends(p), snap[p].round > 0
  PROVE  Settled(p)'
<1>1. round' = round /\ pc'[p] \in {"submitting", "telling"}
  BY SendsKeep DEF Sends, Kept
<1>2. round > 0
  BY DEF Layout
<1> QED
  BY <1>1, <1>2 DEF Settled

(* Nothing happens to the session, and nothing new is sent, ...            *)
LEMMA QuietStep ==
  ASSUME NonceInv, SignInv, NEW p \in Party, Does(p), UNCHANGED signVars,
         out'[p] \in {out[p], NoContribution},
         pc'[p] = "loading" /\ protocol # "rsa" =>
           pc[p] = "polled" /\ sess[p].step = 0 /\ snap[p].round = 0 /\ snap'[p] = snap[p]
  PROVE  SignInv'
<1>1. /\ protocol' = protocol /\ named' = named /\ sess' = sess /\ draws' = draws
      /\ answered' = answered
  BY DEF signVars
<1>2. Await(p, "loading") => pc'[p] = "loading"
  BY DEF Await, SignInv, Layout
<1>3. Forward
  <2>1. protocol # "rsa" => (Await(p, "loading") => ~Settled(p))
    BY <1>2 DEF Settled
  <2> QED
    BY <1>1, <2>1, ForwardStep DEF SignInv
<1>4. ASSUME protocol # "rsa" PROVE Local(p)'
  <2>1. restarts \in Nat /\ restarts' \in {restarts, restarts + 1} /\ draws[p] \in Nat
    BY DoesKeep DEF Kept, SignInv, Layout, NonceInv, Shape
  <2>2. Settled(p) => Settled(p)'
    BY <1>3, <1>4 DEF Forward
  <2>3. FrostSession(p) => FrostSession(p)'
    BY <1>1 DEF FrostSession, CosignerIds
  <2>4. Local(p)
    BY <1>4 DEF SignInv
  <2>5. draws'[p] <= restarts' + 1 /\ (draws[p] <= restarts => draws'[p] <= restarts')
    BY <1>1, <2>1, <2>4 DEF Local
  <2>6. pc'[p] = "loading" => sess'[p].step = 0 /\ snap'[p].round = 0
    BY <1>1, <1>4
  <2> QED
    BY <1>1, <2>2, <2>3, <2>4, <2>5, <2>6 DEF Local
<1>5. ASSUME NEW c, c = out'[p] PROVE Fits(p, c)'
  <2>1. CASE c = out[p]
    <3>1. Fits(p, c)
      BY <2>1 DEF SignInv, AllFit, Held
    <3> QED
      BY <1>3, <3>1, FitsStay
  <2>2. CASE c = NoContribution
    BY <2>2, NothingFits, Fields
  <2> QED
    BY <1>5, <2>1, <2>2
<1> QED
  BY <1>1, <1>3, <1>4, <1>5, PartyStep

(* ... a session begins, ...                                               *)
LEMMA StartStep ==
  ASSUME NonceInv, SignInv, NEW p \in Party, NEW c, Submit(p, c) \/ Tell(p, c),
         pc[p] = "loading", protocol # "rsa", NewSession(p),
         protocol = "frost" => c = Commitment(Nonce(p, draws[p] + 1)),
         protocol = "dkls23" => c = Message(1, draws[p] + 1)
  PROVE  SignInv'
<1> DEFINE d == draws[p] + 1
<1>1. /\ draws' = [draws EXCEPT ![p] = d]
      /\ sess' = [sess EXCEPT ![p] = SignState(1, d, 0, NobodyHeard)]
      /\ protocol' = protocol /\ named' = named /\ answered' = answered
  BY DEF NewSession
<1>2. Sends(p) /\ Does(p)
  BY DEF Sends, Does
<1>3. /\ draws'[p] = d /\ sess'[p].step = 1 /\ sess'[p].draw = d /\ d \in Draws
      /\ restarts' = restarts /\ restarts \in Nat
      /\ pc'[p] # "loading" /\ out'[p] = c
  <2>1. Local(p) /\ sess[p].step = 0 /\ ~Settled(p)
    BY DEF SignInv, Local, Settled
  <2>2. draws[p] \in Nat /\ draws[p] <= restarts
    BY <2>1 DEF Local, NonceInv, Shape
  <2>3. restarts \in 0 .. MaxRestarts /\ MaxRestarts \in Nat
    BY RoundsAssumption DEF SignInv, Layout
  <2>4. restarts' = restarts /\ pc'[p] # "loading" /\ out'[p] = c
    BY SendsKeep DEF SignInv
  <2>5. sess'[p] = SignState(1, d, 0, NobodyHeard) /\ draws'[p] = d
    BY <1>1 DEF NonceInv, Shape
  <2> QED
    BY <2>2, <2>3, <2>4, <2>5, StateFields DEF Draws
<1>4. \A q \in Party \ {p} : sess'[q] = sess[q] /\ draws'[q] = draws[q]
  BY <1>1 DEF NonceInv, Shape
<1> HIDE DEF d
<1>5. Forward
  <2>1. ~Settled(p) /\ ~Await(p, "loading")
    BY <1>3 DEF Settled, Await, SignInv, Layout
  <2> QED
    BY <1>1, <1>2, <1>4, <2>1, ForwardStep DEF SignInv
<1>6. Local(p)'
  <2>1. d <= restarts + 1
    BY DEF d, SignInv, Local, Settled, NonceInv, Shape, Layout
  <2>2. d > 0
    BY <1>3, RoundsAssumption DEF Draws
  <2> QED
    BY <1>3, <2>1, <2>2 DEF Local
<1>7. ASSUME NEW e, e = out'[p] PROVE Fits(p, e)'
  <2>1. e = c
    BY <1>3, <1>7
  <2>2. FrostFits(p, c)' \/ protocol # "frost"
    <3>1. CASE protocol = "frost"
      <4>1. c.kind = "commit" /\ c.value = Nonce(p, d)
        BY <3>1, Fields DEF d
      <4> QED
        BY <1>3, <4>1 DEF FrostFits
    <3> QED
      BY <3>1
  <2>3. DklsFits(p, c)' \/ protocol # "dkls23"
    BY Fields DEF DklsFits
  <2> QED
    BY <1>1, <2>1, <2>2, <2>3 DEF Fits
<1> QED
  BY <1>1, <1>2, <1>4, <1>5, <1>6, <1>7, PartyStep

(* ... something is sent and the session stays, ...                        *)
LEMMA SameStep ==
  ASSUME NonceInv, SignInv, NEW p \in Party, NEW c, Submit(p, c) \/ Tell(p, c),
         UNCHANGED signVars, Fits(p, c)
  PROVE  SignInv'
<1>1. /\ protocol' = protocol /\ named' = named /\ sess' = sess /\ draws' = draws
      /\ answered' = answered
  BY DEF signVars
<1>2. Sends(p) /\ Does(p)
  BY DEF Sends, Does
<1>3. /\ restarts' = restarts /\ pc'[p] # "loading" /\ out'[p] = c
  BY SendsKeep DEF SignInv
<1>4. Forward
  <2>1. ~Await(p, "loading")
    BY <1>3 DEF Await, SignInv, Layout
  <2> QED
    BY <1>1, <1>2, <2>1, ForwardStep DEF SignInv
<1>5. ASSUME protocol # "rsa" PROVE Local(p)'
  <2>1. Settled(p) => Settled(p)'
    BY <1>4, <1>5 DEF Forward
  <2>2. FrostSession(p) => FrostSession(p)'
    BY <1>1 DEF FrostSession, CosignerIds
  <2>3. Local(p)
    BY <1>5 DEF SignInv
  <2> QED
    BY <1>1, <1>3, <2>1, <2>2, <2>3 DEF Local
<1>6. Fits(p, c)'
  BY <1>4, FitsStay
<1> QED
  BY <1>1, <1>2, <1>3, <1>4, <1>5, <1>6, PartyStep

(* ... or the session goes on, or ends, after the first round.             *)
LEMMA NextStep ==
  ASSUME NonceInv, SignInv, NEW p \in Party, NEW c, Submit(p, c) \/ Tell(p, c),
         NEW state, sess' = [sess EXCEPT ![p] = state], draws' = draws,
         protocol' = protocol, named' = named, protocol # "rsa",
         snap[p].round > 0,
         state.step # 0 => sess[p].step # 0 /\ state.draw = sess[p].draw,
         protocol = "dkls23" /\ state.step \in {2, 3} => state.heard[p] = draws[p],
         protocol = "frost" /\ state.step = 2 => FrostSession(p)',
         protocol = "frost" => \A a \in answered' \ answered : a.party = p /\ a.draw = draws[p],
         answered \subseteq answered',
         Settled(p)' /\ Forward => Fits(p, c)'
  PROVE  SignInv'
<1>1. Sends(p) /\ Does(p)
  BY DEF Sends, Does
<1>2. /\ restarts' = restarts /\ pc'[p] # "loading" /\ out'[p] = c
  BY SendsKeep DEF SignInv
<1>3. Settled(p)'
  BY <1>1, SendSettles DEF SignInv
<1>4. sess'[p] = state /\ \A q \in Party \ {p} : sess'[q] = sess[q]
  BY DEF NonceInv, Shape
<1>5. Forward
  <2>1. ~Await(p, "loading")
    BY <1>2 DEF Await, SignInv, Layout
  <2> QED
    BY <1>1, <2>1, ForwardStep DEF SignInv
<1>6. Local(p)'
  <2>1. Local(p)
    BY DEF SignInv
  <2> QED
    BY <1>2, <1>3, <1>4, <2>1 DEF Local
<1> QED
  BY <1>1, <1>2, <1>3, <1>4, <1>5, <1>6, PartyStep

LEMMA SignStateFields ==
  ASSUME NEW k, NEW d, NEW R, NEW h
  PROVE  /\ SignState(k, d, R, h).step = k /\ SignState(k, d, R, h).draw = d
         /\ SignState(k, d, R, h).R = R /\ SignState(k, d, R, h).heard = h
BY DEF SignState

LEMMA ContribFits ==
  ASSUME SignInv, NEW p \in Party, NEW q \in Others(p)
  PROVE  q \in Party /\ Fits(q, Contrib(p, q))
<1>1. q \in Party /\ Contrib(p, q) \in Held(q)
  BY DEF Others, Contrib, Held
<1> QED
  BY <1>1 DEF SignInv, AllFit

LEMMA FrostPartials ==
  ASSUME protocol = "frost", CosignerIds = Party, NEW p \in Party, NEW n, NEW R
  PROVE  PartialSchnorr(p, n, R) = FrostPartial(p, n, R)
BY DEF PartialSchnorr, FrostPartial, LagrangeKeyShare

LEMMA DrawnNonces ==
  ASSUME NEW d \in [Party -> Draws], NEW q \in Party
  PROVE  /\ d[q] \in Draws /\ Terms(Nonces(d), Party)
         /\ GroupOf(d) \in GroupCommitments /\ GroupOf(d) \in 0 .. Q - 1
         /\ Nonces(d)[q] = Nonce(q, d[q]) /\ Nonces(d)[q] \in 0 .. Q - 1
<1>1. \A r \in Party : d[r] \in Draws
  OBVIOUS
<1>2. Terms(Nonces(d), Party) /\ GroupOf(d) \in 0 .. Q - 1
  BY <1>1, NoncesAreTerms
<1>3. GroupOf(d) \in GroupCommitments
  BY DEF GroupOf, Nonces, GroupCommitments
<1>4. Nonces(d)[q] = Nonce(q, d[q])
  BY DEF Nonces
<1>5. Nonces(d)[q] \in 0 .. Q - 1
  BY <1>1, <1>4, NonceInField
<1> QED
  BY <1>1, <1>2, <1>3, <1>4, <1>5

(* FROST: what a session takes for the nonces of the others are theirs.    *)
LEMMA FrostAnswers ==
  ASSUME NonceInv, SignInv, NEW p \in Party, FrostRound1to2(p)
  PROVE  SignInv'
<1> DEFINE R == SumOf(p, "commit", MyNonce(p))
           heard == [q \in Party |-> IF q = p THEN MyNonce(p) ELSE Contrib(p, q).value]
           state == SignState(2, sess[p].draw, R, heard)
           own == [party |-> p, draw |-> sess[p].draw, R |-> R]
           sent == Partial(PartialSchnorr(p, MyNonce(p), R))
           d == [q \in Party |-> IF q = p THEN draws[p]
                                 ELSE CHOOSE e \in Draws : Contrib(p, q).value = Nonce(q, e)]
<1> SUFFICES ASSUME NEW c, c = sent PROVE SignInv'
  OBVIOUS
<1>1. /\ protocol = "frost" /\ snap[p].round > 0 /\ sess[p].step = 1 /\ AllSent(p, "commit")
      /\ sess' = [sess EXCEPT ![p] = state] /\ answered' = answered \cup {own} /\ Submit(p, c)
      /\ protocol' = protocol /\ named' = named /\ draws' = draws
  BY DEF FrostRound1to2, Asked, Answer
<1>2. /\ Senders(p, "commit") = Others(p) /\ CosignerIds = Party
      /\ \A q \in Others(p) : Contrib(p, q).kind = "commit"
  BY <1>1, AllOthersSent
<1>3. sess[p].draw = draws[p] /\ draws[p] \in Draws
  <2>1. Local(p)
    BY <1>1 DEF SignInv
  <2>2. draws[p] \in Nat /\ restarts \in 0 .. MaxRestarts /\ MaxRestarts \in Nat
    BY RoundsAssumption DEF NonceInv, Shape, SignInv, Layout
  <2> QED
    BY <1>1, <2>1, <2>2 DEF Local, Draws
<1>4. \A q \in Others(p) : d[q] \in Draws /\ Contrib(p, q).value = Nonce(q, d[q])
  <2>1. SUFFICES ASSUME NEW q \in Others(p)
                 PROVE  \E e \in Draws : Contrib(p, q).value = Nonce(q, e)
    BY DEF Others
  <2>2. FrostFits(q, Contrib(p, q))
    BY <1>1, ContribFits DEF Fits
  <2> QED
    BY <1>2, <2>2 DEF FrostFits
<1>5. d \in [Party -> Draws] /\ d[p] = draws[p]
  BY <1>3, <1>4 DEF Others
<1>6. heard = Nonces(d)
  BY <1>3, <1>4 DEF Nonces, MyNonce, Others
<1> HIDE DEF d
<1>7. R = GroupOf(d)
  <2>1. Nonces(d)[p] = MyNonce(p)
    BY <1>3, <1>5, DrawnNonces DEF MyNonce
  <2>2. \A q \in Others(p) : Contrib(p, q).value = Nonces(d)[q]
    BY <1>4 DEF Nonces, Others
  <2>3. SumOf(p, "commit", Nonces(d)[p]) = SumMod(Nonces(d), 0, Party, Q)
    BY <1>2, <1>5, <2>2, DrawnNonces, OthersSum
  <2> QED
    BY <2>1, <2>3 DEF GroupOf
<1>8. state.step = 2 /\ state.draw = sess[p].draw /\ state.R = R /\ state.heard = heard
  BY SignStateFields
<1>9. own.party = p /\ own.draw = draws[p] /\ own.R = R
  BY <1>3
<1>10. own = [party |-> p, draw |-> draws[p], R |-> R]
  BY <1>3
<1>11. c.kind = "partial" /\ c.value = FrostPartial(p, Nonce(p, own.draw), own.R)
  BY <1>1, <1>2, <1>3, <1>9, FrostPartials, Fields DEF MyNonce
<1> HIDE DEF R, heard, state, own, sent
<1>12. FrostSession(p)'
  <2>1. CosignerIds' = Party
    BY <1>1, <1>2 DEF CosignerIds
  <2>2. sess'[p] = state
    BY <1>1 DEF NonceInv, Shape
  <2> QED
    BY <1>1, <1>5, <1>6, <1>7, <1>8, <1>10, <2>1, <2>2 DEF FrostSession
<1>13. Fits(p, c)'
  <2>1. CosignerIds' = Party
    BY <1>1, <1>2 DEF CosignerIds
  <2>2. own.R \in GroupCommitments
    BY <1>5, <1>7, <1>9, DrawnNonces
  <2>3. FrostFits(p, c)'
    BY <1>1, <1>3, <1>9, <1>11, <2>1, <2>2 DEF FrostFits
  <2> QED
    BY <1>1, <2>3 DEF Fits
<1>14. /\ state.step # 0 => sess[p].step # 0 /\ state.draw = sess[p].draw
       /\ protocol = "dkls23" /\ state.step \in {2, 3} => state.heard[p] = draws[p]
       /\ protocol = "frost" /\ state.step = 2 => FrostSession(p)'
  BY <1>1, <1>3, <1>8, <1>9, <1>12
<1>15. /\ protocol = "frost" => \A a \in answered' \ answered : a.party = p /\ a.draw = draws[p]
       /\ answered \subseteq answered' /\ protocol # "rsa"
  BY <1>1, <1>3, <1>8, <1>9
<1>16. /\ Submit(p, c) \/ Tell(p, c)
       /\ sess' = [sess EXCEPT ![p] = state] /\ draws' = draws
       /\ protocol' = protocol /\ named' = named /\ snap[p].round > 0
  BY <1>1
<1>17. Settled(p)' /\ Forward => Fits(p, c)'
  BY <1>13
<1> QED
  BY <1>14, <1>15, <1>16, <1>17, NextStep

(* FROST: who aggregates has heard from all that they answered to the same *)
(* group commitment, for no partial is one to another.                     *)
LEMMA FrostAggregates ==
  ASSUME NonceInv, SignInv, NEW p \in Party, FrostRound2to3(p)
  PROVE  SignInv'
<1> DEFINE R == sess[p].R
           s == SumOf(p, "partial", PartialSchnorr(p, MyNonce(p), R))
           sent == Signature(R, s)
<1> SUFFICES ASSUME NEW c, c = sent PROVE SignInv'
  OBVIOUS
<1>1. /\ protocol = "frost" /\ snap[p].round > 0 /\ sess[p].step = 2 /\ AllSent(p, "partial")
      /\ FrostVerified(p) /\ Submit(p, c)
      /\ sess' = [sess EXCEPT ![p] = NoSession]
      /\ protocol' = protocol /\ named' = named /\ draws' = draws /\ answered' = answered
  BY DEF FrostRound2to3, Asked, Drop, Layout, SignInv
<1>2. /\ Senders(p, "partial") = Others(p) /\ CosignerIds = Party
      /\ \A q \in Others(p) : Contrib(p, q).kind = "partial"
  BY <1>1, AllOthersSent
<1>3. FrostSession(p) /\ sess[p].draw = draws[p]
  BY <1>1 DEF SignInv, Local
<1>4. PICK d \in [Party -> Draws] :
        d[p] = draws[p] /\ sess[p].heard = Nonces(d) /\ R = GroupOf(d)
  BY <1>3 DEF FrostSession
<1> DEFINE f == [q \in Party |-> FrostPartial(q, Nonce(q, d[q]), R)]
<1>5. R \in GroupCommitments /\ R \in 0 .. Q - 1
  BY <1>4, DrawnNonces
<1>6. ASSUME NEW q \in Others(p)
      PROVE  /\ q \in Party /\ Contrib(p, q).value = f[q]
             /\ \E a \in answered : a.party = q /\ a.R = R
  <2>1. q \in Party /\ FrostFits(q, Contrib(p, q))
    BY <1>1, ContribFits DEF Fits
  <2>2. Contrib(p, q).value = FrostPartial(q, Nonce(q, d[q]), R)
    BY <1>1, <1>2, <1>4, <2>1, FrostPartials, DrawnNonces DEF FrostVerified
  <2>3. PICK a \in answered :
          /\ a.party = q /\ a.draw \in Draws /\ a.R \in GroupCommitments
          /\ Contrib(p, q).value = FrostPartial(q, Nonce(q, a.draw), a.R)
    BY <1>2, <2>1 DEF FrostFits
  <2>4. a.R = R
    BY <1>5, <2>1, <2>2, <2>3, NoCollisions
  <2> QED
    BY <2>1, <2>2, <2>3, <2>4
<1>7. \A r \in Party : \E a \in answered : a.party = r /\ a.R = R
  <2>1. [party |-> p, draw |-> draws[p], R |-> R] \in answered
    BY <1>3 DEF FrostSession
  <2> QED
    BY <1>6, <2>1 DEF Others
<1>8. s = (R + Challenge(R) * Secret) % Q
  <2>1. f[p] = PartialSchnorr(p, MyNonce(p), R)
    BY <1>1, <1>2, <1>3, <1>4, FrostPartials DEF MyNonce
  <2>2. Challenge(R) \in Int
    BY <1>5, ChallengeIsInt
  <2> DEFINE cR == Challenge(R)
  <2>3. \A q \in Party : f[q] = (Nonces(d)[q] + cR * WeightedShare(q, Party)) % Q
    BY DrawnNonces DEF FrostPartial
  <2> HIDE DEF f, cR
  <2>4. \A q \in Party : f[q] \in 0 .. Q - 1
    <3>1. SUFFICES ASSUME NEW q \in Party PROVE f[q] \in 0 .. Q - 1
      OBVIOUS
    <3>2. Nonces(d)[q] \in Int /\ WeightedShare(q, Party) \in Int /\ cR \in Int
      BY <2>2, DrawnNonces, Keys DEF cR
    <3>3. f[q] = (Nonces(d)[q] + cR * WeightedShare(q, Party)) % Q
      BY <2>3
    <3> QED
      BY <3>2, <3>3, InField
  <2>5. Terms(f, Party) /\ \A q \in Others(p) : Contrib(p, q).value = f[q]
    BY <1>6, <2>4 DEF Terms
  <2>6. SumOf(p, "partial", f[p]) = SumMod(f, 0, Party, Q)
    BY <1>2, <2>4, <2>5, OthersSum
  <2>7. SumMod(f, 0, Party, Q) = (SumMod(Nonces(d), 0, Party, Q) + cR * Secret) % Q
    <3>1. Terms(Nonces(d), Party) /\ cR \in Int
      BY <2>2, DrawnNonces DEF cR
    <3> QED
      BY ONLY <2>3, <3>1, PartialsAddUp
  <2> QED
    BY <1>4, <2>1, <2>6, <2>7 DEF GroupOf, cR
<1>9. c = Schnorr(R)
  BY <1>8 DEF Schnorr
<1> HIDE DEF sent, R
<1>10. FrostFits(p, c)
  BY <1>7, <1>9, SchnorrFields DEF FrostFits
<1>11. Forward => Fits(p, c)'
  BY <1>1, <1>10, FitsStay DEF Fits
<1>12. NoSession.step = 0
  BY StateFields DEF NoSession
<1>13. /\ NoSession.step # 0 => sess[p].step # 0 /\ NoSession.draw = sess[p].draw
       /\ protocol = "dkls23" /\ NoSession.step \in {2, 3} => NoSession.heard[p] = draws[p]
       /\ protocol = "frost" /\ NoSession.step = 2 => FrostSession(p)'
  BY <1>1, <1>12
<1>14. /\ protocol = "frost" => \A a \in answered' \ answered : a.party = p /\ a.draw = draws[p]
       /\ answered \subseteq answered' /\ protocol # "rsa"
  BY <1>1, <1>12
<1>15. /\ Submit(p, c) \/ Tell(p, c)
       /\ sess' = [sess EXCEPT ![p] = NoSession] /\ draws' = draws
       /\ protocol' = protocol /\ named' = named /\ snap[p].round > 0
  BY <1>1
<1>16. Settled(p)' /\ Forward => Fits(p, c)'
  BY <1>11
<1> QED
  BY <1>13, <1>14, <1>15, <1>16, NextStep

LEMMA DklsAdvances ==
  ASSUME NonceInv, SignInv, NEW p \in Party, DklsAdvance(p)
  PROVE  SignInv'
<1> DEFINE heard == IF sess[p].step = 1 THEN Heard(p) ELSE sess[p].heard
           state == SignState(sess[p].step + 1, sess[p].draw, sess[p].R, heard)
           sent == Message(sess[p].step + 1, sess[p].draw)
<1> SUFFICES ASSUME NEW c, c = sent PROVE SignInv'
  OBVIOUS
<1>1. /\ protocol = "dkls23" /\ snap[p].round > 0 /\ sess[p].step \in {1, 2}
      /\ sess' = [sess EXCEPT ![p] = state] /\ Tell(p, c)
      /\ protocol' = protocol /\ named' = named /\ draws' = draws /\ answered' = answered
  BY DEF DklsAdvance, Asked
<1>2. sess[p].draw = draws[p] /\ (sess[p].step = 2 => sess[p].heard[p] = draws[p])
  BY <1>1 DEF SignInv, Local
<1>3. heard[p] = draws[p]
  BY <1>1, <1>2 DEF Heard
<1>4. state.step # 0 /\ state.draw = sess[p].draw /\ state.heard = heard
  BY <1>1, SignStateFields
<1>5. c.kind = "message" /\ c.draw = draws[p]
  BY <1>2, Fields
<1> HIDE DEF heard, state, sent
<1>6. Settled(p)' => Fits(p, c)'
  BY <1>1, <1>5 DEF Fits, DklsFits
<1>7. /\ state.step # 0 => sess[p].step # 0 /\ state.draw = sess[p].draw
      /\ protocol = "dkls23" /\ state.step \in {2, 3} => state.heard[p] = draws[p]
      /\ protocol = "frost" /\ state.step = 2 => FrostSession(p)'
  BY <1>1, <1>3, <1>4
<1>8. /\ protocol = "frost" => \A a \in answered' \ answered : a.party = p /\ a.draw = draws[p]
      /\ answered \subseteq answered' /\ protocol # "rsa"
  BY <1>1, <1>3, <1>4
<1>9. /\ Submit(p, c) \/ Tell(p, c)
      /\ sess' = [sess EXCEPT ![p] = state] /\ draws' = draws
      /\ protocol' = protocol /\ named' = named /\ snap[p].round > 0
  BY <1>1
<1>10. Settled(p)' /\ Forward => Fits(p, c)'
  BY <1>6
<1> QED
  BY <1>7, <1>8, <1>9, <1>10, NextStep

(* DKLs23: who finalizes has heard, in messages of the last round, from    *)
(* parties that draw no more.                                              *)
LEMMA DklsFinalizes ==
  ASSUME NonceInv, SignInv, NEW p \in Party, DklsFinalize(p)
  PROVE  SignInv'
<1> DEFINE R == SumMod([q \in Party |-> Nonce(q, sess[p].heard[q])], 0, Party, Q)
           sent == Signature(R, (R + Challenge(R) * Secret) % Q)
<1> SUFFICES ASSUME NEW c, c = sent PROVE SignInv'
  OBVIOUS
<1>1. /\ protocol = "dkls23" /\ snap[p].round > 0 /\ sess[p].step = 3 /\ DklsReady(p)
      /\ Submit(p, c) /\ sess' = [sess EXCEPT ![p] = NoSession]
      /\ protocol' = protocol /\ named' = named /\ draws' = draws /\ answered' = answered
  BY DEF DklsFinalize, Asked, Drop
<1>2. \A q \in Others(p) : Contrib(p, q).kind = "message"
  BY <1>1, AllOthersSent DEF DklsReady
<1>3. ASSUME NEW q \in Others(p)
      PROVE  q \in Party /\ Settled(q) /\ sess[p].heard[q] = draws[q]
  <2>1. q \in Party /\ DklsFits(q, Contrib(p, q))
    BY <1>1, ContribFits DEF Fits
  <2>2. Contrib(p, q).step = 3 /\ Contrib(p, q).draw = sess[p].heard[q]
    BY <1>1 DEF DklsReady
  <2> QED
    BY <1>2, <2>1, <2>2 DEF DklsFits
<1>4. sess[p].heard[p] = draws[p]
  BY <1>1 DEF SignInv, Local
<1>5. [q \in Party |-> Nonce(q, sess[p].heard[q])] = Nonces(draws)
  BY <1>3, <1>4 DEF Nonces, Others
<1>6. c = Schnorr(GroupOf(draws))
  BY <1>5 DEF Schnorr, GroupOf
<1> HIDE DEF sent
<1>7. ASSUME Settled(p)', Forward PROVE Fits(p, c)'
  <2>1. \A q \in Party : Settled(q)'
    BY <1>1, <1>3, <1>7 DEF Forward, Others
  <2>2. c.kind = "complete"
    BY <1>6, SchnorrFields
  <2>3. DklsFits(p, c)'
    BY <1>1, <1>6, <2>1, <2>2 DEF DklsFits
  <2> QED
    BY <1>1, <2>3 DEF Fits
<1>8. NoSession.step = 0
  BY StateFields DEF NoSession
<1>9. /\ NoSession.step # 0 => sess[p].step # 0 /\ NoSession.draw = sess[p].draw
      /\ protocol = "dkls23" /\ NoSession.step \in {2, 3} => NoSession.heard[p] = draws[p]
      /\ protocol = "frost" /\ NoSession.step = 2 => FrostSession(p)'
  BY <1>1, <1>8
<1>10. /\ protocol = "frost" => \A a \in answered' \ answered : a.party = p /\ a.draw = draws[p]
       /\ answered \subseteq answered' /\ protocol # "rsa"
  BY <1>1, <1>8
<1>11. /\ Submit(p, c) \/ Tell(p, c)
       /\ sess' = [sess EXCEPT ![p] = NoSession] /\ draws' = draws
       /\ protocol' = protocol /\ named' = named /\ snap[p].round > 0
  BY <1>1
<1>12. Settled(p)' /\ Forward => Fits(p, c)'
  BY <1>7
<1> QED
  BY <1>9, <1>10, <1>11, <1>12, NextStep

(* RSA: whatever set of partials is combined, the signature is the same.   *)
LEMMA RsaCombines ==
  ASSUME SignInv, protocol = "rsa", NEW p \in Party, Senders(p, "partial") # {}
  PROVE  Combined([q \in Senders(p, "partial") \cup {p} |->
                     IF q = p THEN RsaPartialOf(p) ELSE Contrib(p, q).value]) = RsaSignature
<1> DEFINE S == Senders(p, "partial") \cup {p}
           partials == [q \in S |-> IF q = p THEN RsaPartialOf(p) ELSE Contrib(p, q).value]
<1>1. ASSUME NEW q \in Senders(p, "partial")
      PROVE  q \in Others(p) /\ Contrib(p, q).value = RsaPartialOf(q)
  <2>1. q \in Others(p) /\ Contrib(p, q).kind = "partial"
    BY DEF Senders
  <2>2. RsaFits(q, Contrib(p, q))
    BY <2>1, ContribFits DEF Fits
  <2> QED
    BY <2>1, <2>2 DEF RsaFits
<1>2. partials = [q \in S |-> RsaPartialOf(q)]
  BY <1>1 DEF Others
<1>3. S \in SUBSET Party /\ \E q, r \in S : q # r
  BY <1>1 DEF Others
<1> QED
  BY <1>2, <1>3, RsaSigns

LEMMA RsaSteps ==
  ASSUME NonceInv, SignInv, NEW p \in Party, RsaPartial(p) \/ RsaCombine(p)
  PROVE  SignInv'
<1>1. CASE RsaPartial(p)
  <2> DEFINE c == Partial(RsaPartialOf(p))
  <2>1. protocol = "rsa" /\ Submit(p, c) /\ UNCHANGED signVars
    BY <1>1 DEF RsaPartial
  <2>2. Fits(p, c)
    BY <2>1, Fields DEF Fits, RsaFits
  <2> QED
    BY <2>1, <2>2, SameStep
<1>2. CASE RsaCombine(p)
  <2> DEFINE c == Signature(0, RsaSignature)
  <2>1. protocol = "rsa" /\ Submit(p, c) /\ UNCHANGED signVars
    BY <1>2, RsaCombines DEF RsaCombine
  <2>2. Fits(p, c)
    BY <2>1, Fields DEF Fits, RsaFits
  <2> QED
    BY <2>1, <2>2, SameStep
<1> QED
  BY <1>1, <1>2

LEMMA OtherProtocolsFit ==
  ASSUME protocol \notin {"frost", "dkls23", "rsa"}, protocol' = protocol
  PROVE  \A q, c : Fits(q, c) /\ Fits(q, c)'
BY DEF Fits

(* A session of Decaf448 or BLS goes on or ends.                           *)
LEMMA OtherNextStep ==
  ASSUME NonceInv, SignInv, NEW p \in Party, NEW c, Submit(p, c),
         NEW state, sess' = [sess EXCEPT ![p] = state], draws' = draws,
         protocol' = protocol, named' = named, protocol \notin {"frost", "dkls23", "rsa"},
         snap[p].round > 0, answered \subseteq answered',
         state.step # 0 => sess[p].step # 0 /\ state.draw = sess[p].draw
  PROVE  SignInv'
<1>1. Fits(p, c)'
  BY OtherProtocolsFit
<1>2. /\ protocol = "dkls23" /\ state.step \in {2, 3} => state.heard[p] = draws[p]
      /\ protocol = "frost" /\ state.step = 2 => FrostSession(p)'
      /\ protocol = "frost" => \A a \in answered' \ answered : a.party = p /\ a.draw = draws[p]
      /\ protocol # "rsa"
  OBVIOUS
<1> QED
  BY <1>1, <1>2, NextStep

LEMMA DecafSteps ==
  ASSUME NonceInv, SignInv, NEW p \in Party, DecafRound(p) \/ DecafAggregate(p)
  PROVE  SignInv'
<1>1. CASE DecafRound(p)
  <2> DEFINE R == SumOf(p, "commit", MyNonce(p))
             state == SignState(2, sess[p].draw, R, sess[p].heard)
             sent == Partial(PartialSchnorr(p, MyNonce(p), R))
  <2> SUFFICES ASSUME NEW c, c = sent PROVE SignInv'
    OBVIOUS
  <2>1. /\ protocol = "decaf448" /\ snap[p].round > 0 /\ sess[p].step = 1
        /\ sess' = [sess EXCEPT ![p] = state] /\ Submit(p, c) /\ answered \subseteq answered'
        /\ protocol' = protocol /\ named' = named /\ draws' = draws
    BY <1>1 DEF DecafRound, Asked, Answer
  <2>2. state.draw = sess[p].draw
    BY SignStateFields
  <2>3. protocol \notin {"frost", "dkls23", "rsa"}
    BY <2>1
  <2>4. state.step # 0 => sess[p].step # 0 /\ state.draw = sess[p].draw
    BY <2>1, <2>2
  <2> HIDE DEF R, state, sent
  <2> QED
    BY <2>1, <2>3, <2>4, OtherNextStep
<1>2. CASE DecafAggregate(p)
  <2> DEFINE sent == Signature(sess[p].R,
                       SumOf(p, "partial", PartialSchnorr(p, MyNonce(p), sess[p].R)))
  <2> SUFFICES ASSUME NEW c, c = sent PROVE SignInv'
    OBVIOUS
  <2>1. /\ protocol = "decaf448" /\ snap[p].round > 0
        /\ sess' = [sess EXCEPT ![p] = NoSession] /\ Submit(p, c) /\ answered' = answered
        /\ protocol' = protocol /\ named' = named /\ draws' = draws
    BY <1>2 DEF DecafAggregate, Asked, Drop
  <2>2. protocol \notin {"frost", "dkls23", "rsa"} /\ answered \subseteq answered'
    BY <2>1
  <2>3. NoSession.step # 0 => sess[p].step # 0 /\ NoSession.draw = sess[p].draw
    BY StateFields DEF NoSession
  <2> HIDE DEF sent
  <2> QED
    BY <2>1, <2>2, <2>3, OtherNextStep
<1> QED
  BY <1>1, <1>2

LEMMA BlsSteps ==
  ASSUME NonceInv, SignInv, NEW p \in Party, BlsAggregate(p) \/ Bls12381Aggregate(p)
  PROVE  SignInv'
<1> DEFINE sent == Signature(0, SumOf(p, "partial", OwnPartial(p)))
<1> SUFFICES ASSUME NEW c, c = sent PROVE SignInv'
  OBVIOUS
<1>1. /\ protocol \in {"bls48581", "bls12381"} /\ snap[p].round > 0
      /\ sess' = [sess EXCEPT ![p] = NoSession] /\ Submit(p, c) /\ answered' = answered
      /\ protocol' = protocol /\ named' = named /\ draws' = draws
  BY DEF BlsAggregate, Bls12381Aggregate, Aggregate, Asked, Drop
<1>2. NoSession.step = 0
  BY StateFields DEF NoSession
<1> HIDE DEF sent
<1> QED
  BY <1>1, <1>2, OtherNextStep

LEMMA StartSteps ==
  ASSUME NonceInv, SignInv, NEW p \in Party,
         DecafInit(p) \/ FrostInit(p) \/ BlsInit(p) \/ Bls12381Init(p) \/ DklsInit(p)
  PROVE  SignInv'
<1>1. CASE DecafInit(p) \/ FrostInit(p)
  <2> DEFINE sent == Commitment(Nonce(p, draws[p] + 1))
  <2> SUFFICES ASSUME NEW c, c = sent PROVE SignInv'
    OBVIOUS
  <2>1. protocol \in {"decaf448", "frost"} /\ pc[p] = "loading" /\ NewSession(p) /\ Submit(p, c)
    BY <1>1 DEF DecafInit, FrostInit, SendCommitment
  <2> QED
    BY <2>1, StartStep
<1>2. CASE BlsInit(p) \/ Bls12381Init(p)
  <2> DEFINE sent == Partial(LagrangeKeyShare(p))
  <2> SUFFICES ASSUME NEW c, c = sent PROVE SignInv'
    OBVIOUS
  <2>1. protocol \in {"bls48581", "bls12381"} /\ pc[p] = "loading" /\ NewSession(p) /\ Submit(p, c)
    BY <1>2 DEF BlsInit, Bls12381Init, SendPartial
  <2> QED
    BY <2>1, StartStep
<1>3. CASE DklsInit(p)
  <2> DEFINE sent == Message(1, draws[p] + 1)
  <2> SUFFICES ASSUME NEW c, c = sent PROVE SignInv'
    OBVIOUS
  <2>1. protocol = "dkls23" /\ pc[p] = "loading" /\ NewSession(p) /\ Tell(p, c)
    BY <1>3 DEF DklsInit
  <2> QED
    BY <2>1, StartStep
<1> QED
  BY <1>1, <1>2, <1>3

LEMMA AgainStep ==
  ASSUME NonceInv, SignInv, NEW p \in Party, Again(p)
  PROVE  SignInv'
<1> DEFINE sent == IF protocol = "bls12381" THEN Partial(LagrangeKeyShare(p)) ELSE Empty
<1> SUFFICES ASSUME NEW c, c = sent PROVE SignInv'
  OBVIOUS
<1>1. Submit(p, c) /\ UNCHANGED signVars
  BY DEF Again
<1>2. Fits(p, c)
  <2>1. CASE protocol = "bls12381"
    BY <2>1 DEF Fits
  <2>2. CASE protocol # "bls12381"
    BY <2>2, NothingFits, Fields
  <2> QED
    BY <2>1, <2>2
<1> HIDE DEF sent
<1> QED
  BY <1>1, <1>2, SameStep

(* Everything that leaves the session alone and sends nothing new.         *)
LEMMA QuietSteps ==
  ASSUME NonceInv, SignInv, NEW p \in Party,
         \/ LoadKeyShare(p) \/ PeersTold(p) \/ LoadFails(p)
         \/ NoSessionRefuses(p) \/ FrostRefuses(p) \/ Bls12381Refuses(p) \/ DklsRefuses(p)
         \/ /\ ListTasks(p) \/ SkipSubmitted(p) \/ UpdateTask(p) \/ UpdateTaskFails(p)
            /\ UNCHANGED signVars
  PROVE  SignInv'
<1>1. CASE LoadKeyShare(p)
  <2>1. Await(p, "loading") /\ UNCHANGED signVars /\ Does(p) /\ out' = out /\ snap' = snap
    BY <1>1 DEF LoadKeyShare, Await, Does
  <2>2. protocol # "rsa" => pc[p] = "polled" /\ sess[p].step = 0 /\ snap[p].round = 0
    BY <1>1 DEF LoadKeyShare, Asked, Processing
  <2> QED
    BY <2>1, <2>2, QuietStep
<1>2. CASE PeersTold(p)
  <2>1. Told(p) /\ UNCHANGED signVars /\ Does(p) /\ out' = out /\ pc'[p] # "loading"
    BY <1>2 DEF PeersTold, Told, Does, SignInv, Layout
  <2> QED
    BY <2>1, QuietStep
<1>3. CASE ListTasks(p) /\ UNCHANGED signVars
  <2>1. Does(p) /\ out' = out /\ pc'[p] # "loading"
    BY <1>3 DEF ListTasks, Does, SignInv, Layout
  <2> QED
    BY <1>3, <2>1, QuietStep
<1>4. CASE \/ LoadFails(p)
           \/ NoSessionRefuses(p) \/ FrostRefuses(p) \/ Bls12381Refuses(p) \/ DklsRefuses(p)
           \/ (SkipSubmitted(p) \/ UpdateTask(p) \/ UpdateTaskFails(p)) /\ UNCHANGED signVars
  <2>1. Ends(p) /\ UNCHANGED signVars
    BY <1>4 DEF LoadFails, NoSessionRefuses, FrostRefuses, Bls12381Refuses, DklsRefuses, Refuse, Ends
  <2>2. Does(p) /\ out'[p] = NoContribution /\ pc'[p] # "loading"
    BY <2>1, EndsKeep DEF Does, SignInv
  <2> QED
    BY <2>1, <2>2, QuietStep
<1> QED
  BY <1>1, <1>2, <1>3, <1>4

LEMMA RestartStep ==
  ASSUME NonceInv, SignInv, NEW p \in Party, Restart(p)
  PROVE  SignInv'
<1>1. /\ LoseTick(p) /\ Ends(p) /\ Does(p) /\ restarts' = restarts + 1
      /\ protocol' = protocol /\ named' = named /\ draws' = draws /\ answered' = answered
      /\ sess' = [sess EXCEPT ![p] = NoSession]
  BY DEF Restart, Ends, Does, LoseTick, Drop
<1>2. pc'[p] = "idle" /\ out'[p] = NoContribution
  BY <1>1, EndsKeep DEF SignInv
<1>3. ~Await(p, "loading")
  BY <1>2 DEF Await, SignInv, Layout
<1>4. Forward
  BY <1>1, <1>3, ForwardStep DEF SignInv
<1>5. sess'[p].step = 0 /\ \A q \in Party \ {p} : sess'[q] = sess[q]
  BY <1>1, StateFields DEF NoSession, NonceInv, Shape
<1>6. ASSUME protocol # "rsa" PROVE Local(p)'
  <2>1. draws[p] \in Nat /\ restarts \in Nat /\ draws[p] <= restarts + 1
    BY <1>6 DEF SignInv, Local, Layout, NonceInv, Shape
  <2>2. draws'[p] <= restarts' + 1 /\ draws'[p] <= restarts'
    BY <1>1, <2>1
  <2> QED
    BY <1>2, <1>5, <2>2 DEF Local
<1>7. \A c : c = out'[p] => Fits(p, c)'
  BY <1>2, NothingFits, Fields
<1> QED
  BY <1>1, <1>4, <1>5, <1>6, <1>7, PartyStep

LEMMA SignStep == ASSUME NonceInv, SignInv, [Next]_vars PROVE SignInv'
<1>1. ASSUME NEW p \in Party, Session(p) PROVE SignInv'
  BY <1>1, DecafSteps, BlsSteps, StartSteps, AgainStep, QuietSteps, RsaSteps, FrostAnswers,
     FrostAggregates, DklsAdvances, DklsFinalizes DEF Session
<1>2. ASSUME NEW p \in Party, Tick(p), ~Session(p) PROVE SignInv'
  BY <1>2, QuietSteps DEF Tick
<1>3. ASSUME NEW p \in Party, Fault(p) PROVE SignInv'
  BY <1>3, QuietSteps, RestartStep DEF Fault
<1>4. CASE Serve \/ UNCHANGED vars
  BY <1>4, ServerStep
<1> QED
  BY <1>1, <1>2, <1>3, <1>4 DEF Next

-------------------------------------------------------------------------------
(* Lockstep.  A step of one party leaves the others where they are.        *)
Stage(p) == (Ahead(p) \/ Doing(p) \/ Past(p)) /\ Listed(p)

LEMMA OthersStage ==
  ASSUME NEW p \in Party, Kept(p), protocol' = protocol,
         NEW q \in Party \ {p}, sess'[q] = sess[q], draws'[q] = draws[q], Stage(q)
  PROVE  Stage(q)'
<1>1. /\ pc'[q] = pc[q] /\ snap'[q] = snap[q] /\ out'[q] = out[q] /\ round' = round
      /\ submitted'[q] = submitted[q] /\ inbox'[q] = inbox[q] /\ contribs' = contribs
  BY DEF Kept
<1>2. \A r : SessionAt(q, r) => SessionAt(q, r)'
  BY DEF SessionAt
<1>3. SessionAt(q, round)' <=> SessionAt(q, round)
  BY <1>1 DEF SessionAt
<1>4. SessionAt(q, round + 1)' <=> SessionAt(q, round + 1)
  BY <1>1 DEF SessionAt
<1>5. Listed(q)'
  BY <1>1 DEF Stage, Listed
<1>6. (Ahead(q) => Ahead(q)') /\ (Doing(q) => Doing(q)') /\ (Past(q) => Past(q)')
  BY <1>1, <1>3, <1>4 DEF Ahead, Doing, Past
<1> QED
  BY <1>5, <1>6 DEF Stage

LEMMA StageStep ==
  ASSUME Layout, NEW p \in Party, Does(p), protocol' = protocol,
         \A q \in Party \ {p} : sess'[q] = sess[q] /\ draws'[q] = draws[q],
         Lockstep, Stage(p)', inbox[p].kind # "none" => inbox'[p].kind # "none"
  PROVE  Lockstep'
<1>1. Kept(p)
  BY DoesKeep
<1>2. /\ round' = round /\ contribs' = contribs /\ done' = done
      /\ \A q \in Party \ {p} : inbox'[q] = inbox[q]
  BY <1>1 DEF Kept
<1>3. \A q \in Party : Stage(q)
  BY DEF Lockstep, Stage
<1>4. \A q \in Party : Stage(q)'
  BY <1>1, <1>3, OthersStage
<1>5. \A q \in Party : ((Ahead(q) \/ Doing(q) \/ Past(q)) /\ Listed(q))'
  BY <1>4 DEF Stage
<1> QED
  BY <1>2, <1>5 DEF Lockstep

LEMMA StageOf ==
  ASSUME Lockstep, NEW p \in Party
  PROVE  Stage(p) /\ (Ahead(p) \/ Doing(p) \/ Past(p)) /\ Listed(p)
BY DEF Lockstep, Stage

(* A tick that goes on has the task as it is, of a round to contribute to. *)
LEMMA ProcessingIsAhead ==
  ASSUME Lockstep, NEW p \in Party, Processing(p)
  PROVE  /\ Ahead(p) /\ snap[p].round = round /\ snap[p].contribs = contribs
         /\ SessionAt(p, round) /\ round <= LastOf(protocol)
<1>1. /\ pc[p] = "polled" /\ snap[p] = [round |-> round, contribs |-> contribs]
      /\ round \notin submitted[p]
  BY StageOf DEF Processing, Listed
<1>2. Ahead(p)
  BY <1>1, StageOf DEF Doing, Past
<1> QED
  BY <1>1, <1>2 DEF Ahead, Lockstep

LEMMA LoadingIsAhead ==
  ASSUME Lockstep, NEW p \in Party, pc[p] = "loading"
  PROVE  Ahead(p) /\ round = 0 /\ SessionAt(p, 0)
BY StageOf DEF Ahead, Doing, Past, Listed

(* The ticks that come to nothing, ...                                     *)
LEMMA IdleStage ==
  ASSUME Layout, NEW p \in Party, Does(p), UNCHANGED signVars, Lockstep,
         inbox' = inbox, submitted' = submitted, pc[p] \in {"idle", "polled"},
         \/ pc'[p] = "idle" /\ out'[p].kind = "none"
         \/ pc'[p] = "polled" /\ snap'[p] = [round |-> round, contribs |-> contribs] /\ out' = out
         \/ pc'[p] = "loading" /\ round = 0 /\ inbox[p].kind = "none" /\ out' = out
  PROVE  Lockstep'
<1>1. /\ protocol' = protocol /\ sess' = sess /\ draws' = draws
      /\ round' = round /\ contribs' = contribs
  BY DoesKeep DEF signVars, Kept
<1>2. Stage(p)
  BY StageOf
<1>3. SessionAt(p, round)' <=> SessionAt(p, round)
  BY <1>1 DEF SessionAt
<1>4. SessionAt(p, round + 1)' <=> SessionAt(p, round + 1)
  BY <1>1 DEF SessionAt
<1>5. Listed(p)'
  BY <1>1, <1>2 DEF Stage, Listed
<1>6. Ahead(p) => Ahead(p)'
  BY <1>1, <1>3 DEF Ahead
<1>7. Past(p) => Past(p)' \/ inbox[p].kind = "none"
  BY <1>1, <1>4 DEF Past
<1>8. ~Doing(p)
  BY DEF Doing
<1>9. Past(p) /\ inbox[p].kind = "none" => FALSE
  BY Fields DEF Past, Expected
<1> QED
  BY <1>1, <1>2, <1>5, <1>6, <1>7, <1>8, <1>9, StageStep DEF Stage

(* ... the contribution of the round, ...                                  *)
LEMMA SendStage ==
  ASSUME Layout, NEW p \in Party, NEW c, Submit(p, c), Lockstep, Ahead(p),
         snap[p].round = round, c = Expected(protocol, p, round),
         protocol' = protocol,
         \A q \in Party \ {p} : sess'[q] = sess[q] /\ draws'[q] = draws[q],
         round < LastOf(protocol) => SessionAt(p, round + 1)'
  PROVE  Lockstep'
<1>1. Sends(p) /\ Does(p)
  BY DEF Sends, Does
<1>2. /\ snap' = snap /\ inbox' = inbox /\ submitted' = submitted /\ out'[p] = c
      /\ round' = round /\ contribs' = contribs
  BY SendsKeep DEF Kept
<1>3. pc'[p] = "submitting"
  BY DEF Submit, Layout
<1>4. Listed(p)'
  BY <1>2, <1>3, StageOf DEF Listed
<1>5. /\ inbox'[p].kind = "none" /\ round' \notin submitted'[p] /\ snap'[p].round = round'
      /\ out'[p] = Expected(protocol', p, round')
  BY <1>2 DEF Ahead
<1>6. Doing(p)'
  BY <1>2, <1>3, <1>5 DEF Doing
<1> QED
  BY <1>1, <1>2, <1>4, <1>6, StageStep DEF Stage

(* ... and its arrival.                                                    *)
LEMMA ArriveStage ==
  ASSUME Layout, NEW p \in Party, UpdateTask(p), UNCHANGED signVars, Lockstep
  PROVE  Lockstep'
<1>1. Does(p) /\ Ends(p)
  BY DEF Does, Ends
<1>2. /\ protocol' = protocol /\ sess' = sess /\ draws' = draws
      /\ round' = round /\ contribs' = contribs /\ pc'[p] = "idle" /\ out'[p] = NoContribution
  BY <1>1, DoesKeep, EndsKeep DEF signVars, Kept
<1>3. pc[p] = "submitting" /\ Doing(p) /\ Listed(p)
  BY StageOf DEF UpdateTask, Ahead, Past
<1>4. ~MayIgnore(p)
  BY <1>3 DEF MayIgnore, Doing, Lockstep
<1>5. inbox'[p] = Expected(protocol, p, round)
  BY <1>3, <1>4 DEF UpdateTask, Recorded, Doing, Layout
<1>6. submitted'[p] = submitted[p] \cup {round}
  BY <1>3 DEF UpdateTask, Doing, Layout
<1>7. Listed(p)'
  BY <1>2, <1>3, <1>6, Fields DEF Listed, Layout
<1>8. SessionAt(p, round + 1)' <=> SessionAt(p, round + 1)
  BY <1>2 DEF SessionAt
<1>9. Past(p)'
  BY <1>2, <1>3, <1>5, <1>6, <1>8 DEF Past, Doing
<1>10. inbox[p].kind = "none"
  BY <1>3 DEF Doing
<1> QED
  BY <1>1, <1>2, <1>7, <1>9, <1>10, StageStep DEF Stage

(* The server opens a round when all are past the one before it, and none  *)
(* after the signatures.                                                   *)
LEMMA ServerStage ==
  ASSUME Layout, Lockstep, Undisturbed, Serve \/ UNCHANGED vars
  PROVE  Lockstep'
<1>1. UNCHANGED <<pc, snap, out, submitted, protocol, sess, draws>>
  BY DEF Serve, Server, AdvanceRound, FinishTask, vars, roundsVars, serverVars, tickVars, signVars
<1>2. CASE UNCHANGED <<round, inbox, contribs>> /\ (done' = done \/ AllReported)
  <2>1. \A p \in Party : Stage(p)'
    <3>1. SUFFICES ASSUME NEW p \in Party PROVE Stage(p)'
      OBVIOUS
    <3>2. \A r : SessionAt(p, r)' <=> SessionAt(p, r)
      BY <1>1 DEF SessionAt
    <3>3. /\ SessionAt(p, round)' <=> SessionAt(p, round)
          /\ SessionAt(p, round + 1)' <=> SessionAt(p, round + 1)
      BY <1>1, <1>2 DEF SessionAt
    <3>4. (Ahead(p) => Ahead(p)') /\ (Doing(p) => Doing(p)') /\ (Past(p) => Past(p)')
      BY <1>1, <1>2, <3>3 DEF Ahead, Doing, Past
    <3>5. Listed(p)'
      BY <1>1, <1>2, StageOf DEF Listed
    <3> QED
      BY <3>4, <3>5, StageOf DEF Stage
  <2>2. AllReported => \A p \in Party : inbox[p].kind # "none"
    BY DEF AllReported
  <2> QED
    BY <1>1, <1>2, <2>1, <2>2 DEF Lockstep, Stage
<1>3. CASE AdvanceRound
  <2>1. /\ ~done /\ done' = done /\ \A p \in Party : inbox[p].kind # "none"
        /\ ~AllReported /\ round' = round + 1 /\ contribs' = inbox
        /\ inbox' = [p \in Party |-> NoContribution]
    BY <1>3 DEF AdvanceRound
  <2>2. \A p \in Party : Past(p) /\ Listed(p)
    BY <2>1, StageOf DEF Ahead, Doing
  <2>3. round \in Nat /\ round <= LastOf(protocol) /\ LastOf(protocol) \in Nat
    BY DEF Layout, Lockstep, LastOf
  <2>4. round < LastOf(protocol)
    <3>1. SUFFICES ASSUME round = LastOf(protocol) PROVE FALSE
      BY <2>3
    <3>2. \A p \in Party : inbox[p].kind = "complete"
      BY <2>2, <2>3, <3>1, ExpectedKinds DEF Past
    <3> QED
      BY <2>1, <3>2 DEF AllReported
  <2>5. ASSUME NEW p \in Party PROVE Stage(p)'
    <3>1. SessionAt(p, round + 1) /\ submitted[p] \subseteq 0 .. round
      BY <2>2, <2>4 DEF Past, Listed
    <3>2. SessionAt(p, round)'
      BY <1>1, <2>1, <3>1 DEF SessionAt
    <3>3. inbox'[p].kind = "none" /\ round' \notin submitted'[p]
      BY <1>1, <2>1, <2>3, <3>1, Fields
    <3>4. Ahead(p)'
      BY <1>1, <2>2, <3>2, <3>3 DEF Ahead, Past
    <3>5. Listed(p)'
      <4>1. pc[p] = "polled" => snap[p].round \in submitted[p]
        BY <2>2 DEF Past, Listed
      <4>2. pc[p] # "loading" /\ (pc[p] # "submitting" => out[p].kind = "none")
        BY <2>2 DEF Past, Listed
      <4>3. submitted'[p] \subseteq 0 .. round'
        BY <1>1, <2>1, <2>3, <3>1
      <4> QED
        BY <1>1, <4>1, <4>2, <4>3 DEF Listed
    <3> QED
      BY <3>4, <3>5 DEF Stage
  <2>6. \A p \in Party : contribs'[p] = Expected(protocol', p, round' - 1)
    <3>1. round' - 1 = round
      BY <2>1, <2>3
    <3> QED
      BY <1>1, <2>1, <2>2, <3>1 DEF Past
  <2>7. round' <= LastOf(protocol')
    BY <1>1, <2>1, <2>3, <2>4
  <2> QED
    BY <2>1, <2>5, <2>6, <2>7 DEF Lockstep, Stage
<1> QED
  BY <1>2, <1>3 DEF Serve, Server, FinishTask, vars, roundsVars, serverVars, tickVars

(* The sessions' actions in lockstep.                                      *)
LEMMA StartStage ==
  ASSUME NonceInv, SignInv, Undisturbed, Lockstep, NEW p \in Party,
         DecafInit(p) \/ BlsInit(p) \/ Bls12381Init(p)
  PROVE  Lockstep'
<1> DEFINE sent == IF protocol = "decaf448" THEN Commitment(Nonce(p, draws[p] + 1))
                   ELSE Partial(LagrangeKeyShare(p))
<1> SUFFICES ASSUME NEW c, c = sent PROVE Lockstep'
  OBVIOUS
<1>1. pc[p] = "loading" /\ NewSession(p) /\ Submit(p, c)
  BY DEF DecafInit, BlsInit, Bls12381Init, SendCommitment, SendPartial
<1>2. Ahead(p) /\ round = 0 /\ draws[p] = 0
  BY <1>1, LoadingIsAhead DEF SessionAt
<1>3. c = Expected(protocol, p, round)
  BY <1>2 DEF Expected, LagrangeKeyShare, Undisturbed
<1>4. snap[p].round = round
  BY <1>2 DEF SignInv, Layout
<1>5. /\ protocol' = protocol /\ sess'[p] = SignState(1, 1, 0, NobodyHeard)
      /\ \A q \in Party \ {p} : sess'[q] = sess[q] /\ draws'[q] = draws[q]
  BY <1>1, <1>2 DEF NewSession, NonceInv, Shape
<1>6. round' = round
  BY <1>1, SendsKeep DEF Kept, SignInv
<1>7. SessionAt(p, round + 1)'
  BY <1>2, <1>5, <1>6, SignStateFields DEF SessionAt
<1> HIDE DEF sent
<1> QED
  BY <1>1, <1>2, <1>3, <1>4, <1>5, <1>7, SendStage DEF SignInv

LEMMA FirstNonces ==
  /\ Terms(Nonces([q \in Party |-> 1]), Party) /\ FirstR \in Int /\ Challenge(FirstR) \in Int
  /\ \A q \in Party : /\ Nonces([r \in Party |-> 1])[q] = Nonce(q, 1)
                      /\ Nonce(q, 1) \in 0 .. Q - 1
<1> DEFINE ones == [q \in Party |-> 1]
<1>1. \A q \in Party : ones[q] = 1 /\ ones[q] \in Draws
  BY RoundsAssumption DEF Draws
<1>2. \A q \in Party : Nonces(ones)[q] = Nonce(q, 1)
  BY DEF Nonces
<1> HIDE DEF ones
<1>3. Terms(Nonces(ones), Party) /\ GroupOf(ones) \in 0 .. Q - 1
  BY <1>1, NoncesAreTerms
<1>4. FirstR = GroupOf(ones)
  BY DEF FirstR, ones
<1>5. FirstR \in 0 .. Q - 1
  BY <1>3, <1>4
<1>6. \A q \in Party : Nonce(q, 1) \in 0 .. Q - 1
  BY <1>1, NonceInField
<1> QED
  BY <1>2, <1>3, <1>5, <1>6, ChallengeIsInt DEF ones

LEMMA HeardOfAll ==
  ASSUME Lockstep, NEW p \in Party, Processing(p), round > 0, NEW kind,
         \A q \in Party : Expected(protocol, q, round - 1).kind = kind
  PROVE  /\ Senders(p, kind) = Others(p)
         /\ \A q \in Others(p) : Contrib(p, q) = Expected(protocol, q, round - 1)
<1>1. \A q \in Others(p) : Contrib(p, q) = Expected(protocol, q, round - 1)
  BY ProcessingIsAhead DEF Contrib, Others, Lockstep
<1>2. \A q \in Others(p) : Contrib(p, q).kind = kind
  BY <1>1 DEF Others
<1> QED
  BY <1>1, <1>2 DEF Senders

DecafPartial(p) == (Nonce(p, 1) - Challenge(FirstR) * WeightedShare(p, Party)) % Q

(* Decaf448's partials as those with the challenge negated, and their sum. *)
LEMMA DecafSum ==
  ASSUME NEW f, \A p \in Party : f[p] = DecafPartial(p)
  PROVE  /\ \A p \in Party : f[p] \in 0 .. Q - 1
         /\ SumMod(f, 0, Party, Q) = (FirstR - Challenge(FirstR) * Secret) % Q
<1> DEFINE c == Challenge(FirstR)
           k == Nonces([q \in Party |-> 1])
           w(p) == WeightedShare(p, Party)
<1>1. c \in Int /\ -c \in Int /\ FirstR \in Int /\ Terms(k, Party)
  BY FirstNonces
<1>2. \A p \in Party : k[p] \in Int /\ w(p) \in Int /\ f[p] = (k[p] - c * w(p)) % Q
  <2>1. SUFFICES ASSUME NEW p \in Party
                 PROVE  k[p] \in Int /\ w(p) \in Int /\ f[p] = (k[p] - c * w(p)) % Q
    OBVIOUS
  <2>2. k[p] = Nonce(p, 1) /\ Nonce(p, 1) \in Int
    BY FirstNonces
  <2>3. f[p] = (Nonce(p, 1) - c * w(p)) % Q
    BY DEF DecafPartial
  <2>4. w(p) \in Int
    BY Keys
  <2> HIDE DEF c, k, w
  <2> QED
    BY <2>2, <2>3, <2>4
<1>3. SumMod(k, 0, Party, Q) = FirstR
  BY DEF FirstR, GroupOf
<1> HIDE DEF c, k, w
<1>4. ASSUME NEW x \in Int, NEW y \in Int PROVE x - c * y = x + (-c) * y
  <2>1. (-c) * y = -(c * y) /\ c * y \in Int
    BY <1>1
  <2> QED
    BY <2>1
<1>5. \A p \in Party : f[p] = (k[p] + (-c) * w(p)) % Q
  BY <1>2, <1>4
<1>6. \A p \in Party : f[p] \in 0 .. Q - 1
  <2>1. SUFFICES ASSUME NEW p \in Party PROVE f[p] \in 0 .. Q - 1
    OBVIOUS
  <2>2. (k[p] + (-c) * w(p)) % Q \in 0 .. Q - 1
    BY <1>1, <1>2, InField
  <2> QED
    BY <1>5, <2>2
<1> DEFINE minus == -c
<1>7. \A p \in Party : f[p] = (k[p] + minus * WeightedShare(p, Party)) % Q
  BY <1>5 DEF w
<1>8. minus \in Int
  BY <1>1
<1> HIDE DEF minus
<1>9. SumMod(f, 0, Party, Q) = (SumMod(k, 0, Party, Q) + minus * Secret) % Q
  BY ONLY <1>1, <1>7, <1>8, PartialsAddUp
<1>10. FirstR - c * Secret = FirstR + minus * Secret
  BY <1>1, <1>4, Keys DEF minus
<1> QED
  BY <1>3, <1>6, <1>9, <1>10 DEF c

LEMMA DecafStage ==
  ASSUME NonceInv, SignInv, Undisturbed, Lockstep, NEW p \in Party, DecafRound(p)
  PROVE  Lockstep'
<1> DEFINE R == SumOf(p, "commit", MyNonce(p))
           state == SignState(2, sess[p].draw, R, sess[p].heard)
           sent == Partial(PartialSchnorr(p, MyNonce(p), R))
<1> SUFFICES ASSUME NEW c, c = sent PROVE Lockstep'
  OBVIOUS
<1>1. /\ protocol = "decaf448" /\ snap[p].round > 0 /\ sess[p].step = 1 /\ Processing(p)
      /\ sess' = [sess EXCEPT ![p] = state] /\ Submit(p, c)
      /\ protocol' = protocol /\ named' = named /\ draws' = draws
  BY DEF DecafRound, Asked, Answer
<1>2. Ahead(p) /\ snap[p].round = round /\ round = 1 /\ sess[p].draw = 1
  <2>1. Ahead(p) /\ snap[p].round = round /\ round <= 2 /\ SessionAt(p, round) /\ round \in Nat
    BY <1>1, ProcessingIsAhead DEF LastOf, SignInv, Layout
  <2>2. round \in {1, 2}
    BY <1>1, <2>1
  <2> QED
    BY <1>1, <2>1, <2>2 DEF SessionAt
<1>3. \A q \in Party : Expected(protocol, q, 0) = Commitment(Nonce(q, 1))
  BY <1>1 DEF Expected
<1>4. /\ Senders(p, "commit") = Others(p)
      /\ \A q \in Others(p) : Contrib(p, q).value = Nonce(q, 1)
  <2>1. round - 1 = 0 /\ round > 0
    BY <1>2
  <2>2. \A q \in Party : Expected(protocol, q, round - 1).kind = "commit"
    BY <1>3, <2>1, Fields
  <2>3. /\ Senders(p, "commit") = Others(p)
        /\ \A q \in Others(p) : Contrib(p, q) = Expected(protocol, q, round - 1)
    BY <1>1, <2>1, <2>2, HeardOfAll
  <2> QED
    BY <1>3, <2>1, <2>3, Fields DEF Others
<1>5. R = FirstR
  <2> DEFINE f == Nonces([q \in Party |-> 1])
  <2>1. f[p] = MyNonce(p) /\ f[p] \in 0 .. Q - 1 /\ Terms(f, Party)
    BY <1>2, FirstNonces DEF MyNonce
  <2>2. \A q \in Others(p) : Contrib(p, q).value = f[q]
    BY <1>4, FirstNonces DEF Others
  <2> HIDE DEF f
  <2>3. SumOf(p, "commit", f[p]) = SumMod(f, 0, Party, Q)
    BY <1>4, <2>1, <2>2, OthersSum
  <2> QED
    BY <2>1, <2>3 DEF f, FirstR, GroupOf
<1>6. c = Expected(protocol, p, round)
  BY <1>1, <1>2, <1>5 DEF Expected, PartialSchnorr, LagrangeKeyShare, MyNonce, Undisturbed
<1>7. state.step = 2 /\ state.draw = 1 /\ state.R = FirstR
  BY <1>2, <1>5, SignStateFields
<1> HIDE DEF R, state, sent
<1>8. sess'[p] = state /\ \A q \in Party \ {p} : sess'[q] = sess[q] /\ draws'[q] = draws[q]
  BY <1>1 DEF NonceInv, Shape
<1>9. round' = round
  BY <1>1, SendsKeep DEF Kept, SignInv
<1>10. SessionAt(p, round + 1)'
  BY <1>2, <1>7, <1>8, <1>9 DEF SessionAt
<1> QED
  BY <1>1, <1>2, <1>6, <1>8, <1>10, SendStage DEF SignInv

LEMMA DecafSignatureStage ==
  ASSUME NonceInv, SignInv, Undisturbed, Lockstep, NEW p \in Party, DecafAggregate(p)
  PROVE  Lockstep'
<1> DEFINE s == SumOf(p, "partial", PartialSchnorr(p, MyNonce(p), sess[p].R))
           sent == Signature(sess[p].R, s)
<1> SUFFICES ASSUME NEW c, c = sent PROVE Lockstep'
  OBVIOUS
<1>1. /\ protocol = "decaf448" /\ snap[p].round > 0 /\ sess[p].step = 2 /\ Processing(p)
      /\ sess' = [sess EXCEPT ![p] = NoSession] /\ Submit(p, c)
      /\ protocol' = protocol /\ named' = named /\ draws' = draws
  BY DEF DecafAggregate, Asked, Drop
<1>2. /\ Ahead(p) /\ snap[p].round = round /\ round = 2 /\ sess[p].draw = 1
      /\ sess[p].R = FirstR
  <2>1. Ahead(p) /\ snap[p].round = round /\ round <= 2 /\ SessionAt(p, round) /\ round \in Nat
    BY <1>1, ProcessingIsAhead DEF LastOf, SignInv, Layout
  <2>2. round \in {1, 2}
    BY <1>1, <2>1
  <2> QED
    BY <1>1, <2>1, <2>2 DEF SessionAt
<1>3. \A q \in Party : Expected(protocol, q, 1) = Partial(DecafPartial(q))
  BY <1>1 DEF Expected, DecafPartial
<1>4. /\ Senders(p, "partial") = Others(p)
      /\ \A q \in Others(p) : Contrib(p, q).value = DecafPartial(q)
  <2>1. round - 1 = 1 /\ round > 0
    BY <1>2
  <2>2. \A q \in Party : Expected(protocol, q, round - 1).kind = "partial"
    BY <1>3, <2>1, Fields
  <2>3. /\ Senders(p, "partial") = Others(p)
        /\ \A q \in Others(p) : Contrib(p, q) = Expected(protocol, q, round - 1)
    BY <1>1, <2>1, <2>2, HeardOfAll
  <2> QED
    BY <1>3, <2>1, <2>3, Fields DEF Others
<1>5. s = (FirstR - Challenge(FirstR) * Secret) % Q
  <2> DEFINE f == [q \in Party |-> DecafPartial(q)]
  <2>1. \A q \in Party : f[q] = DecafPartial(q)
    OBVIOUS
  <2>2. f[p] = PartialSchnorr(p, MyNonce(p), sess[p].R)
    BY <1>1, <1>2 DEF DecafPartial, PartialSchnorr, LagrangeKeyShare, MyNonce, Undisturbed
  <2> HIDE DEF f
  <2>3. /\ \A q \in Party : f[q] \in 0 .. Q - 1
        /\ SumMod(f, 0, Party, Q) = (FirstR - Challenge(FirstR) * Secret) % Q
    BY <2>1, DecafSum
  <2>4. Terms(f, Party) /\ \A q \in Others(p) : Contrib(p, q).value = f[q]
    BY <1>4, <2>1, <2>3 DEF Terms, Others
  <2>5. SumOf(p, "partial", f[p]) = SumMod(f, 0, Party, Q)
    BY <1>4, <2>3, <2>4, OthersSum
  <2> QED
    BY <2>2, <2>3, <2>5
<1>6. c = Expected(protocol, p, round)
  BY <1>1, <1>2, <1>5 DEF Expected
<1> HIDE DEF s, sent
<1>7. \A q \in Party \ {p} : sess'[q] = sess[q] /\ draws'[q] = draws[q]
  BY <1>1 DEF NonceInv, Shape
<1>8. ~(round < LastOf(protocol))
  BY <1>1, <1>2 DEF LastOf
<1> QED
  BY <1>1, <1>2, <1>6, <1>7, <1>8, SendStage DEF SignInv

LEMMA BlsStage ==
  ASSUME NonceInv, SignInv, Undisturbed, Lockstep, NEW p \in Party,
         BlsAggregate(p) \/ Bls12381Aggregate(p)
  PROVE  Lockstep'
<1> DEFINE s == SumOf(p, "partial", OwnPartial(p))
           sent == Signature(0, s)
<1> SUFFICES ASSUME NEW c, c = sent PROVE Lockstep'
  OBVIOUS
<1>1. /\ protocol \in {"bls48581", "bls12381"} /\ snap[p].round > 0 /\ Processing(p)
      /\ sess' = [sess EXCEPT ![p] = NoSession] /\ Submit(p, c)
      /\ protocol' = protocol /\ named' = named /\ draws' = draws
  BY DEF BlsAggregate, Bls12381Aggregate, Aggregate, Asked, Drop
<1>2. Ahead(p) /\ snap[p].round = round /\ round = 1 /\ sess[p].step = 1
  <2>1. Ahead(p) /\ snap[p].round = round /\ round <= 1 /\ SessionAt(p, round) /\ round \in Nat
    BY <1>1, ProcessingIsAhead DEF LastOf, SignInv, Layout
  <2>2. round = 1
    BY <1>1, <2>1
  <2> QED
    BY <1>1, <2>1, <2>2 DEF SessionAt
<1>3. \A q \in Party : Expected(protocol, q, 0) = Partial(WeightedShare(q, Party))
  BY <1>1 DEF Expected
<1>4. /\ Senders(p, "partial") = Others(p)
      /\ \A q \in Others(p) : Contrib(p, q).value = WeightedShare(q, Party)
  <2>1. round - 1 = 0 /\ round > 0
    BY <1>2
  <2>2. \A q \in Party : Expected(protocol, q, round - 1).kind = "partial"
    BY <1>3, <2>1, Fields
  <2>3. /\ Senders(p, "partial") = Others(p)
        /\ \A q \in Others(p) : Contrib(p, q) = Expected(protocol, q, round - 1)
    BY <1>1, <2>1, <2>2, HeardOfAll
  <2> QED
    BY <1>3, <2>1, <2>3, Fields DEF Others
<1>5. s = Secret
  <2> DEFINE f == [q \in Party |-> WeightedShare(q, Party)]
  <2>1. \A q \in Party : f[q] = WeightedShare(q, Party)
    OBVIOUS
  <2>2. SumMod(f, 0, Party, Q) = Secret
    BY Interpolation
  <2> HIDE DEF f
  <2>3. f[p] = OwnPartial(p)
    BY <1>2, <2>1 DEF OwnPartial, LagrangeKeyShare, Undisturbed
  <2>4. Terms(f, Party) /\ f[p] \in 0 .. Q - 1 /\ \A q \in Others(p) : Contrib(p, q).value = f[q]
    BY <1>4, <2>1, Keys DEF Terms, Others
  <2>5. SumOf(p, "partial", f[p]) = SumMod(f, 0, Party, Q)
    BY <1>4, <2>4, OthersSum
  <2> QED
    BY <2>2, <2>3, <2>5
<1>6. c = Expected(protocol, p, round)
  BY <1>1, <1>2, <1>5 DEF Expected
<1> HIDE DEF s, sent
<1>7. \A q \in Party \ {p} : sess'[q] = sess[q] /\ draws'[q] = draws[q]
  BY <1>1 DEF NonceInv, Shape
<1>8. ~(round < LastOf(protocol))
  BY <1>1, <1>2 DEF LastOf
<1> QED
  BY <1>1, <1>2, <1>6, <1>7, <1>8, SendStage DEF SignInv

LEMMA LoadStage ==
  ASSUME NonceInv, SignInv, Undisturbed, Lockstep, NEW p \in Party,
         LoadKeyShare(p)
  PROVE  Lockstep'
<1>1. /\ Processing(p) /\ Await(p, "loading") /\ UNCHANGED signVars /\ snap[p].round = 0
  BY DEF LoadKeyShare, Asked, Undisturbed
<1>2. Ahead(p) /\ round = 0
  BY <1>1, ProcessingIsAhead
<1>3. /\ inbox' = inbox /\ submitted' = submitted /\ pc'[p] = "loading" /\ out' = out
      /\ Does(p) /\ pc[p] = "polled"
  BY <1>1 DEF Await, serverVars, Does, Processing, SignInv, Layout
<1>4. inbox[p].kind = "none"
  BY <1>2 DEF Ahead
<1> QED
  BY <1>1, <1>2, <1>3, <1>4, IdleStage DEF SignInv

LEMMA QuietStage ==
  ASSUME NonceInv, SignInv, Undisturbed, Lockstep, NEW p \in Party,
         \/ /\ ListTasks(p) \/ SkipSubmitted(p)
            /\ UNCHANGED signVars
         \/ NoSessionRefuses(p) \/ FrostRefuses(p) \/ Bls12381Refuses(p) \/ DklsRefuses(p)
  PROVE  Lockstep'
<1>1. CASE ListTasks(p) /\ UNCHANGED signVars
  <2>1. /\ Does(p) /\ inbox' = inbox /\ submitted' = submitted /\ pc[p] = "idle"
        /\ pc'[p] = "polled" /\ snap'[p] = [round |-> round, contribs |-> contribs] /\ out' = out
    BY <1>1 DEF ListTasks, serverVars, Does, SignInv, Layout
  <2> QED
    BY <1>1, <2>1, IdleStage DEF SignInv
<1>2. CASE \/ SkipSubmitted(p) /\ UNCHANGED signVars
           \/ NoSessionRefuses(p) \/ FrostRefuses(p) \/ Bls12381Refuses(p) \/ DklsRefuses(p)
  <2>1. (SkipSubmitted(p) \/ (Throw(p) /\ pc[p] = "polled")) /\ UNCHANGED signVars
    BY <1>2 DEF NoSessionRefuses, FrostRefuses, Bls12381Refuses, DklsRefuses, Refuse, Asked,
                Processing
  <2>2. Ends(p) /\ Does(p) /\ inbox' = inbox /\ submitted' = submitted /\ pc[p] = "polled"
    BY <2>1 DEF SkipSubmitted, Throw, serverVars, Ends, Does
  <2>3. pc'[p] = "idle" /\ out'[p].kind = "none"
    BY <2>2, EndsKeep, Fields DEF SignInv
  <2> QED
    BY <2>1, <2>2, <2>3, IdleStage DEF SignInv
<1> QED
  BY <1>1, <1>2

(* What lockstep, or the protocol, rules out.                              *)
LEMMA NeverInLockstep ==
  ASSUME NonceInv, SignInv, Undisturbed, Lockstep, NEW p \in Party
  PROVE  /\ ~Again(p) /\ ~PeersTold(p)
         /\ ~FrostInit(p) /\ ~FrostRound1to2(p) /\ ~FrostRound2to3(p)
         /\ ~RsaPartial(p) /\ ~RsaCombine(p)
         /\ ~DklsInit(p) /\ ~DklsAdvance(p) /\ ~DklsFinalize(p)
<1>1. ~Again(p)
  <2>1. SUFFICES ASSUME Again(p) PROVE FALSE
    OBVIOUS
  <2>2. Processing(p) /\ snap[p].round = 0 /\ sess[p].step # 0
    BY <2>1 DEF Again, Asked
  <2>3. SessionAt(p, round) /\ round = 0
    BY <2>2, ProcessingIsAhead
  <2> QED
    BY <2>2, <2>3 DEF SessionAt
<1>2. ~PeersTold(p)
  BY StageOf DEF PeersTold, Ahead, Doing, Past
<1>3. /\ ~FrostInit(p) /\ ~FrostRound1to2(p) /\ ~FrostRound2to3(p)
      /\ ~RsaPartial(p) /\ ~RsaCombine(p)
      /\ ~DklsInit(p) /\ ~DklsAdvance(p) /\ ~DklsFinalize(p)
  BY DEF Undisturbed, FrostInit, FrostRound1to2, FrostRound2to3, RsaPartial, RsaCombine, DklsInit,
         DklsAdvance, DklsFinalize, Asked
<1> QED
  BY <1>1, <1>2, <1>3

LEMMA Disturbed ==
  ASSUME SignInv, NEW p \in Party, Fault(p)
  PROVE  ~Undisturbed'
<1>1. faults' = faults + 1
  BY DEF Fault, LoadFails, Restart, UpdateTaskFails, AwaitFails, LoseTick
<1> QED
  BY <1>1 DEF Undisturbed, SignInv, Layout

LEMMA ProtocolStays ==
  ASSUME [Next]_vars
  PROVE  protocol' = protocol /\ named' = named
BY DEF Next, Serve, Tick, Fault, LoadFails, Restart, vars, signVars, Session, LoadKeyShare, Again,
   NoSessionRefuses, DecafInit, DecafRound, DecafAggregate, FrostInit, FrostRound1to2,
   FrostRound2to3, FrostRefuses, BlsInit, BlsAggregate, Bls12381Init, Bls12381Aggregate,
   Bls12381Refuses, RsaPartial, RsaCombine, DklsInit, DklsAdvance, DklsFinalize, DklsRefuses,
   PeersTold, Refuse, SendCommitment, SendPartial, NewSession, Drop, Answer, Aggregate

LEMMA FaultsStay ==
  ASSUME NEW p \in Party, Tick(p)
  PROVE  faults' = faults
BY DEF Tick, ListTasks, SkipSubmitted, UpdateTask, Session, LoadKeyShare, Again,
   NoSessionRefuses, DecafInit, DecafRound, DecafAggregate, FrostInit, FrostRound1to2,
   FrostRound2to3, FrostRefuses, BlsInit, BlsAggregate, Bls12381Init, Bls12381Aggregate,
   Bls12381Refuses, RsaPartial, RsaCombine, DklsInit, DklsAdvance, DklsFinalize, DklsRefuses,
   PeersTold, Refuse, SendCommitment, SendPartial, Answer, Aggregate, Throw, Await, Submit, Tell

LEMMA LockstepStep ==
  ASSUME NonceInv, SignInv, InLockstep, [Next]_vars
  PROVE  InLockstep'
<1>1. SUFFICES ASSUME Undisturbed' PROVE Lockstep'
  BY DEF InLockstep
<1>2. \/ Serve \/ UNCHANGED vars
      \/ \E p \in Party : Tick(p)
  BY <1>1, Disturbed DEF Next
<1>3. protocol' = protocol /\ named' = named /\ faults' = faults
  <2>1. Serve \/ UNCHANGED vars => faults' = faults
    BY DEF Serve, Server, AdvanceRound, FinishTask, vars, roundsVars
  <2> QED
    BY <1>2, <2>1, ProtocolStays, FaultsStay
<1>4. Undisturbed
  BY <1>1, <1>3 DEF Undisturbed, CosignerIds
<1>5. Lockstep
  BY <1>4 DEF InLockstep
<1>6. ASSUME NEW p \in Party, Tick(p) PROVE Lockstep'
  <2>1. CASE Session(p)
    BY <1>4, <1>5, <2>1, NeverInLockstep, LoadStage, QuietStage, StartStage, DecafStage,
       DecafSignatureStage, BlsStage DEF Session
  <2>2. CASE UpdateTask(p) /\ UNCHANGED signVars
    BY <1>5, <2>2, ArriveStage DEF SignInv
  <2>3. CASE (ListTasks(p) \/ SkipSubmitted(p)) /\ UNCHANGED signVars
    BY <1>4, <1>5, <2>3, QuietStage
  <2> QED
    BY <1>6, <2>1, <2>2, <2>3 DEF Tick
<1>7. CASE Serve \/ UNCHANGED vars
  BY <1>4, <1>5, <1>7, ServerStage DEF SignInv
<1> QED
  BY <1>2, <1>6, <1>7

-------------------------------------------------------------------------------
(* Every signature the parties of a task hand in verifies under the wallet *)
(* key (for RSA under the public exponent), and all of them are the same   *)
(* signature: of Decaf448 and the two BLS sessions when no load, update or *)
(* process failed and all parties sign, of FROST, DKLs23 and RSA whatever  *)
(* failed, was retried or restarted.                                       *)
THEOREM SignaturesAreValid == Spec => []SignaturesVerify
<1> DEFINE Inv == NonceInv /\ SignInv /\ InLockstep /\ protocol \in Protocols
<1>1. Init => Inv
  BY NonceInit, SignInit DEF Init
<1>2. Inv /\ [Next]_vars => Inv'
  BY NonceStep, SignStep, LockstepStep, ProtocolStays
<1>3. Inv => SignaturesVerify
  BY Signed DEF NonceInv
<1> QED
  BY <1>1, <1>2, <1>3, PTL DEF Spec

-------------------------------------------------------------------------------
(* Types.  What an action does to the task and tick keeps theirs, ...       *)
Places == {"loading", "telling"}
SessionTypes ==
  /\ sess \in [Party -> [step : 0 .. 3, draw : Nat, R : Field, heard : [Party -> Nat]]]
  /\ draws \in [Party -> 0 .. MaxRestarts + 1]
  /\ answered \subseteq [party : Party, draw : Nat, R : Field]

LEMMA EndsTypes ==
  ASSUME NEW C, NoContribution \in C, RoundsTypeOK(C, Places), NEW p \in Party, Ends(p)
  PROVE  RoundsTypeOK(C, Places)'
<1>1. /\ EndTick(p) /\ UNCHANGED <<round, contribs, done>>
      /\ inbox' = inbox \/ inbox' = Recorded(p)
  BY DEF Ends, SkipSubmitted, Throw, UpdateTask, UpdateTaskFails, AwaitFails, LoseTick, serverVars
<1>2. inbox' \in [Party -> C]
  BY <1>1 DEF RoundsTypeOK, Recorded
<1>3. /\ pc' \in [Party -> {"idle", "polled", "submitting"} \cup Places]
      /\ snap' \in [Party -> [round : 0 .. LastRound, contribs : [Party -> C]]]
      /\ out' \in [Party -> C]
  <2>1. NoTask \in [round : 0 .. LastRound, contribs : [Party -> C]]
    BY RoundsAssumption DEF NoTask
  <2> QED
    BY <1>1, <2>1 DEF RoundsTypeOK, EndTick
<1>4. submitted' \in [Party -> SUBSET (0 .. LastRound)]
  BY DEF RoundsTypeOK, Ends, SkipSubmitted, Throw, UpdateTask, UpdateTaskFails, AwaitFails, LoseTick
<1>5. /\ faults' = faults \/ (faults < MaxFaults /\ faults' = faults + 1)
      /\ restarts' = restarts \/ (restarts < MaxRestarts /\ restarts' = restarts + 1)
  BY DEF Ends, SkipSubmitted, Throw, UpdateTask, UpdateTaskFails, AwaitFails, LoseTick
<1>6. faults' \in 0 .. MaxFaults /\ restarts' \in 0 .. MaxRestarts
  BY <1>5, RoundsAssumption DEF RoundsTypeOK
<1> QED
  BY <1>1, <1>2, <1>3, <1>4, <1>6 DEF RoundsTypeOK

LEMMA DoesTypes ==
  ASSUME NEW C, NoContribution \in C, RoundsTypeOK(C, Places), NEW p \in Party, Does(p),
         \A c : Submit(p, c) \/ Tell(p, c) => c \in C
  PROVE  RoundsTypeOK(C, Places)'
<1>1. CASE ListTasks(p)
  BY <1>1 DEF RoundsTypeOK, ListTasks, serverVars
<1>2. CASE Await(p, "loading") \/ Told(p)
  BY <1>2 DEF RoundsTypeOK, Places, Await, Told, serverVars
<1>3. CASE Ends(p)
  BY <1>3, EndsTypes
<1>4. CASE Sends(p)
  <2>1. PICK c \in C : Submit(p, c) \/ Tell(p, c)
    BY <1>4 DEF Sends
  <2>2. /\ UNCHANGED <<round, inbox, contribs, done, snap, submitted, faults, restarts>>
        /\ out' = [out EXCEPT ![p] = c]
        /\ \E at \in {"submitting", "telling"} : pc' = [pc EXCEPT ![p] = at]
    BY <2>1 DEF Submit, Tell, serverVars
  <2> QED
    BY <2>2 DEF RoundsTypeOK, Places
<1> QED
  BY <1>1, <1>2, <1>3, <1>4 DEF Does

LEMMA ServeTypes ==
  ASSUME NEW C, NoContribution \in C, RoundsTypeOK(C, Places), Server
  PROVE  RoundsTypeOK(C, Places)'
<1>1. CASE AdvanceRound
  BY <1>1, RoundsAssumption DEF AdvanceRound, RoundsTypeOK, tickVars
<1>2. CASE FinishTask
  BY <1>2 DEF FinishTask, RoundsTypeOK, tickVars
<1> QED
  BY <1>1, <1>2 DEF Server

LEMMA NoTypes ==
  /\ NoContribution \in Contributions /\ Empty \in Contributions
  /\ NoSession \in [step : 0 .. 3, draw : Nat, R : Field, heard : [Party -> Nat]]
  /\ NobodyHeard \in [Party -> Nat]
BY Keys DEF Contributions, NoSession, SignState, NobodyHeard, Field

(* ... contributions are of field elements, ...                            *)
LEMMA SentTypes ==
  /\ \A v \in Values : Commitment(v) \in Contributions /\ Partial(v) \in Contributions
  /\ \A k \in 1 .. 3, d \in Draws : Message(k, d) \in Contributions
  /\ \A R \in Field, v \in Values : Signature(R, v) \in Contributions
BY DEF Contributions, Commitment, Partial, Message, Signature

LEMMA ContribTypes ==
  ASSUME TypeOK, NEW p \in Party, NEW q \in Others(p)
  PROVE  /\ Contrib(p, q).kind \in {"commit", "partial"} => Contrib(p, q).value \in Values
         /\ Contrib(p, q).kind = "message" => Contrib(p, q).draw \in Draws
<1>1. Contrib(p, q) \in Contributions
  BY DEF TypeOK, RoundsTypeOK, Contrib, Others
<1> QED
  BY <1>1 DEF Contributions, NoContribution, Empty

LEMMA FieldTypes ==
  /\ 0 \in Field
  /\ \A p \in Party : LagrangeKeyShare(p) \in Field
  /\ \A p \in Party, d \in Draws : Nonce(p, d) \in Field
  /\ \A p \in Party, n \in Field, R \in Field : PartialSchnorr(p, n, R) \in Field
  /\ \A R \in Field : (R + Challenge(R) * Secret) % Q \in Field
<1>1. \A p \in Party : LagrangeKeyShare(p) \in Field
  BY Interpolation DEF LagrangeKeyShare, CosignerIds
<1>2. ASSUME NEW k \in Field, NEW c \in Field, NEW l \in Field
      PROVE  (k + c * l) % Q \in Field /\ (k - c * l) % Q \in Field
  <2>1. k \in Int /\ c \in Int /\ l \in Int /\ -c \in Int
    BY DEF Field
  <2>2. (k + c * l) % Q \in Field /\ (k + (-c) * l) % Q \in Field
    BY <2>1, InField DEF Field
  <2>3. k - c * l = k + (-c) * l
    BY <2>1
  <2> QED
    BY <2>2, <2>3
<1>3. \A p \in Party, n \in Field, R \in Field : PartialSchnorr(p, n, R) \in Field
  BY <1>1, <1>2, InTheField DEF PartialSchnorr
<1>4. \A R \in Field : (R + Challenge(R) * Secret) % Q \in Field
  BY <1>2, InTheField, KeyAssumption
<1> QED
  BY <1>1, <1>3, <1>4, InTheField, Keys DEF Field

LEMMA SumTypes ==
  ASSUME TypeOK, protocol # "rsa", NEW p \in Party, NEW own \in Field,
         NEW kind \in {"commit", "partial"}
  PROVE  SumOf(p, kind, own) \in Field
<1> DEFINE f == [q \in Senders(p, kind) |-> Contrib(p, q).value]
<1>1. Terms(f, Senders(p, kind))
  <2>1. \A q \in Senders(p, kind) : Contrib(p, q).value \in Values
    BY ContribTypes DEF Senders
  <2> QED
    BY <2>1 DEF Terms, Values, Field
<1>2. IsFiniteSet(Senders(p, kind))
  BY Keys, FS_Subset DEF Senders, Others
<1> HIDE DEF f
<1>3. SumMod(f, own, Senders(p, kind), Q) \in 0 .. Q - 1
  BY <1>1, <1>2, Keys, SumRange DEF Field
<1> QED
  BY <1>3 DEF SumOf, f, Field

LEMMA OwnDraw ==
  ASSUME TypeOK, SignInv, protocol # "rsa", NEW p \in Party, sess[p].step # 0
  PROVE  sess[p].draw = draws[p] /\ draws[p] \in Draws
<1>1. Local(p) /\ draws[p] \in 0 .. MaxRestarts + 1
  BY DEF SignInv, TypeOK
<1> QED
  BY <1>1, RoundsAssumption DEF Local, Draws

(* ... and sessions hold draws and field elements.                         *)
LEMMA StepTypes ==
  ASSUME TypeOK, NEW p \in Party, Does(p),
         protocol' = protocol, named' = named, partyIDMap' = partyIDMap,
         SessionTypes', \A c : Submit(p, c) \/ Tell(p, c) => c \in Contributions
  PROVE  TypeOK'
<1>1. SUFFICES ASSUME NEW C, C = Contributions PROVE TypeOK'
  OBVIOUS
<1>2. RoundsTypeOK(C, Places) /\ NoContribution \in C
  BY <1>1, NoTypes DEF TypeOK, Places
<1>3. RoundsTypeOK(C, Places)'
  BY <1>1, <1>2, DoesTypes
<1>4. Contributions' = C
  BY <1>1 DEF Contributions, Values
<1> QED
  BY <1>3, <1>4 DEF TypeOK, SessionTypes, RoundsTypeOK, Places

LEMMA OneSent ==
  ASSUME Layout, NEW p \in Party, NEW c, Submit(p, c) \/ Tell(p, c)
  PROVE  Does(p) /\ \A d : Submit(p, d) \/ Tell(p, d) => d = c
<1>1. out'[p] = c /\ \A d : Submit(p, d) \/ Tell(p, d) => out'[p] = d
  BY SendsKeep
<1> QED
  BY <1>1 DEF Does, Sends

LEMMA SendTypes ==
  ASSUME TypeOK, Layout, NEW p \in Party, NEW c \in Contributions, Submit(p, c) \/ Tell(p, c),
         protocol' = protocol, named' = named, partyIDMap' = partyIDMap, SessionTypes'
  PROVE  TypeOK'
BY OneSent, StepTypes

LEMMA NobodySends ==
  ASSUME Layout, NEW p \in Party,
         ListTasks(p) \/ Await(p, "loading") \/ Told(p) \/ Ends(p)
  PROVE  Does(p) /\ \A c : Submit(p, c) \/ Tell(p, c) => c = out[p]
<1>1. CASE ListTasks(p) \/ Await(p, "loading")
  <2>1. pc'[p] \in {"polled", "loading"}
    BY <1>1 DEF ListTasks, Await, Layout
  <2> QED
    BY <1>1, <2>1, SendsKeep DEF Does
<1>2. CASE Ends(p)
  <2>1. pc'[p] = "idle"
    BY <1>2, EndsKeep
  <2> QED
    BY <1>2, <2>1, SendsKeep DEF Does
<1>3. CASE Told(p)
  <2>1. out' = out
    BY <1>3 DEF Told
  <2> QED
    BY <1>3, <2>1, SendsKeep DEF Does
<1> QED
  BY <1>1, <1>2, <1>3

LEMMA NewSessionTypes ==
  ASSUME TypeOK, SignInv, protocol # "rsa", NEW p \in Party, pc[p] = "loading", NewSession(p)
  PROVE  SessionTypes' /\ draws[p] + 1 \in Draws
<1>1. draws[p] \in 0 .. MaxRestarts
  <2>1. Local(p) /\ ~Settled(p) /\ restarts \in 0 .. MaxRestarts /\ draws[p] \in Nat
    BY DEF SignInv, Layout, Settled, TypeOK
  <2> QED
    BY <2>1, RoundsAssumption DEF Local
<1>2. draws[p] + 1 \in Draws
  BY <1>1, RoundsAssumption DEF Draws
<1>3. SignState(1, draws[p] + 1, 0, NobodyHeard) \in
        [step : 0 .. 3, draw : Nat, R : Field, heard : [Party -> Nat]]
  BY <1>1, NoTypes, FieldTypes DEF SignState
<1> QED
  BY <1>1, <1>2, <1>3 DEF NewSession, SessionTypes, TypeOK, Draws

LEMMA MovedTypes ==
  ASSUME TypeOK, NEW p \in Party, NEW state,
         state \in [step : 0 .. 3, draw : Nat, R : Field, heard : [Party -> Nat]],
         sess' = [sess EXCEPT ![p] = state], draws' = draws,
         answered' \subseteq [party : Party, draw : Nat, R : Field]
  PROVE  SessionTypes'
BY DEF SessionTypes, TypeOK

LEMMA SentNewTypes ==
  ASSUME TypeOK, SignInv, NEW p \in Party,
         \/ DecafInit(p) \/ FrostInit(p) \/ BlsInit(p) \/ Bls12381Init(p) \/ DklsInit(p)
  PROVE  TypeOK'
<1>1. /\ protocol # "rsa" /\ pc[p] = "loading" /\ NewSession(p)
      /\ protocol' = protocol /\ named' = named /\ partyIDMap' = partyIDMap
  BY DEF DecafInit, FrostInit, BlsInit, Bls12381Init, DklsInit, SendCommitment, SendPartial,
         NewSession
<1>2. SessionTypes' /\ draws[p] + 1 \in Draws
  BY <1>1, NewSessionTypes
<1>3. \E c \in Contributions : Submit(p, c) \/ Tell(p, c)
  <2>1. /\ Nonce(p, draws[p] + 1) \in Values /\ LagrangeKeyShare(p) \in Values
    BY <1>1, <1>2, FieldTypes DEF Values
  <2> QED
    BY <1>2, <2>1, SentTypes DEF DecafInit, FrostInit, BlsInit, Bls12381Init, DklsInit,
       SendCommitment, SendPartial
<1> QED
  BY <1>1, <1>2, <1>3, SendTypes DEF SignInv

LEMMA AnswerTypes ==
  ASSUME TypeOK, SignInv, NEW p \in Party, DecafRound(p) \/ FrostRound1to2(p)
  PROVE  TypeOK'
<1> DEFINE R == SumOf(p, "commit", MyNonce(p))
           c == Partial(PartialSchnorr(p, MyNonce(p), R))
           all == [q \in Party |-> IF q = p THEN MyNonce(p) ELSE Contrib(p, q).value]
<1>1. /\ protocol # "rsa" /\ sess[p].step = 1 /\ Answer(p, R)
      /\ protocol' = protocol /\ named' = named /\ partyIDMap' = partyIDMap
      /\ draws' = draws /\ Submit(p, c)
      /\ \/ sess' = [sess EXCEPT ![p] = SignState(2, sess[p].draw, R, sess[p].heard)]
         \/ /\ sess' = [sess EXCEPT ![p] = SignState(2, sess[p].draw, R, all)]
            /\ protocol = "frost" /\ AllSent(p, "commit")
  BY DEF DecafRound, FrostRound1to2, Asked, Answer
<1>2. MyNonce(p) \in Field /\ R \in Field
  <2>1. MyNonce(p) \in Field
    BY <1>1, OwnDraw, FieldTypes DEF MyNonce
  <2> QED
    BY <1>1, <2>1, SumTypes
<1>3. c \in Contributions
  <2>1. PartialSchnorr(p, MyNonce(p), R) \in Values
    BY <1>1, <1>2, FieldTypes DEF Values
  <2> QED
    BY <2>1, SentTypes
<1>4. AllSent(p, "commit") => all \in [Party -> Nat]
  <2>1. SUFFICES ASSUME AllSent(p, "commit"), NEW q \in Party PROVE all[q] \in Nat
    OBVIOUS
  <2>2. CASE q = p
    BY <1>2, <2>2, Keys DEF Field
  <2>3. CASE q # p
    <3>1. q \in Others(p) /\ Contrib(p, q).kind = "commit"
      BY <2>1, <2>3, AllOthersSent DEF Others
    <3>2. Contrib(p, q).value \in Field
      BY <1>1, <3>1, ContribTypes DEF Values
    <3> QED
      BY <2>3, <3>2, Keys DEF Field
  <2> QED
    BY <2>2, <2>3
<1>5. answered' \subseteq [party : Party, draw : Nat, R : Field]
  <2>1. answered' = answered \cup {[party |-> p, draw |-> sess[p].draw, R |-> R]}
    BY <1>1 DEF Answer
  <2>2. sess[p].draw \in Nat
    BY DEF TypeOK
  <2> HIDE DEF R
  <2> QED
    BY <1>2, <2>1, <2>2 DEF TypeOK
<1> HIDE DEF R, c, all
<1>6. PICK h \in [Party -> Nat] : sess' = [sess EXCEPT ![p] = SignState(2, sess[p].draw, R, h)]
  BY <1>1, <1>4 DEF TypeOK
<1>7. SignState(2, sess[p].draw, R, h) \in
        [step : 0 .. 3, draw : Nat, R : Field, heard : [Party -> Nat]]
  BY <1>2 DEF SignState, TypeOK
<1>8. SessionTypes'
  BY <1>1, <1>5, <1>6, <1>7, MovedTypes
<1> QED
  BY <1>1, <1>3, <1>8, SendTypes DEF SignInv

LEMMA SignatureTypes ==
  ASSUME TypeOK, NEW p \in Party, Drop(p)
  PROVE  SessionTypes' /\ protocol' = protocol /\ named' = named /\ partyIDMap' = partyIDMap
<1>1. SessionTypes'
  BY NoTypes, MovedTypes DEF Drop, TypeOK
<1> QED
  BY <1>1 DEF Drop

LEMMA SumSentTypes ==
  ASSUME TypeOK, SignInv, NEW p \in Party,
         \/ DecafAggregate(p) \/ FrostRound2to3(p) \/ BlsAggregate(p) \/ Bls12381Aggregate(p)
  PROVE  TypeOK'
<1>1. protocol # "rsa" /\ Drop(p)
  BY DEF DecafAggregate, FrostRound2to3, BlsAggregate, Bls12381Aggregate, Aggregate, Asked
<1>2. \E c \in Contributions : Submit(p, c)
  <2>1. CASE DecafAggregate(p) \/ FrostRound2to3(p)
    <3>1. sess[p].step # 0 /\ sess[p].R \in Field
      BY <2>1 DEF DecafAggregate, FrostRound2to3, TypeOK
    <3>2. PartialSchnorr(p, MyNonce(p), sess[p].R) \in Field
      BY <1>1, <3>1, OwnDraw, FieldTypes DEF MyNonce
    <3>3. SumOf(p, "partial", PartialSchnorr(p, MyNonce(p), sess[p].R)) \in Values
      BY <1>1, <3>2, SumTypes DEF Values
    <3> QED
      BY <2>1, <3>1, <3>3, SentTypes DEF DecafAggregate, FrostRound2to3
  <2>2. CASE Aggregate(p)
    <3>1. OwnPartial(p) \in Field
      BY FieldTypes DEF OwnPartial
    <3>2. SumOf(p, "partial", OwnPartial(p)) \in Values
      BY <1>1, <3>1, SumTypes DEF Values
    <3> QED
      BY <2>2, <3>2, SentTypes, FieldTypes DEF Aggregate
  <2> QED
    BY <2>1, <2>2 DEF BlsAggregate, Bls12381Aggregate
<1> QED
  BY <1>1, <1>2, SignatureTypes, SendTypes DEF SignInv

LEMMA DklsTypes ==
  ASSUME TypeOK, SignInv, NEW p \in Party, DklsAdvance(p) \/ DklsFinalize(p)
  PROVE  TypeOK'
<1>1. /\ protocol = "dkls23" /\ sess[p].step \in 1 .. 3 /\ DklsReady(p)
      /\ protocol' = protocol /\ named' = named /\ partyIDMap' = partyIDMap
  BY DEF DklsAdvance, DklsFinalize, Asked, Drop
<1>2. sess[p].draw = draws[p] /\ draws[p] \in Draws /\ Draws \subseteq Nat
  BY <1>1, OwnDraw DEF Draws
<1>3. \A q \in Others(p) : Contrib(p, q).draw \in Draws
  <2>1. \A q \in Others(p) : Contrib(p, q).kind = "message"
    BY <1>1, AllOthersSent DEF DklsReady
  <2> QED
    BY <2>1, ContribTypes
<1>4. CASE DklsAdvance(p)
  <2> DEFINE heard == IF sess[p].step = 1 THEN Heard(p) ELSE sess[p].heard
             state == SignState(sess[p].step + 1, sess[p].draw, sess[p].R, heard)
             c == Message(sess[p].step + 1, sess[p].draw)
  <2>1. /\ sess[p].step + 1 \in 1 .. 3 /\ sess' = [sess EXCEPT ![p] = state]
        /\ draws' = draws /\ answered' = answered /\ Tell(p, c)
    BY <1>4 DEF DklsAdvance
  <2>2. heard \in [Party -> Nat]
    BY <1>2, <1>3 DEF Heard, Others, TypeOK
  <2>3. state \in [step : 0 .. 3, draw : Nat, R : Field, heard : [Party -> Nat]]
    BY <1>2, <2>1, <2>2 DEF SignState, TypeOK
  <2>4. c \in Contributions
    BY <1>2, <2>1, SentTypes
  <2> HIDE DEF heard, state, c
  <2>5. SessionTypes'
    BY <2>1, <2>3, MovedTypes DEF TypeOK
  <2> QED
    BY <1>1, <2>1, <2>4, <2>5, SendTypes DEF SignInv
<1>5. CASE DklsFinalize(p)
  <2> DEFINE d == [q \in Party |-> Nonce(q, sess[p].heard[q])]
             R == SumMod(d, 0, Party, Q)
             c == Signature(R, (R + Challenge(R) * Secret) % Q)
  <2>1. sess[p].step = 3 /\ Submit(p, c) /\ Drop(p)
    BY <1>5 DEF DklsFinalize
  <2>2. \A q \in Party : sess[p].heard[q] \in Draws
    <3>1. sess[p].heard[p] \in Draws
      BY <1>1, <1>2, <2>1 DEF SignInv, Local
    <3> QED
      BY <1>1, <1>3, <2>1, <3>1 DEF DklsReady, Others
  <2>3. Terms(d, Party)
    <3>1. \A q \in Party : d[q] \in Field
      BY <2>2, FieldTypes
    <3> HIDE DEF d
    <3> QED
      BY <3>1 DEF Terms, Field
  <2>4. R \in Field
    <3> HIDE DEF d
    <3> QED
      BY <2>3, Keys, SumRange DEF Field
  <2> HIDE DEF R
  <2>5. c \in Contributions
    BY <1>1, <2>4, FieldTypes, SentTypes DEF Values
  <2> HIDE DEF c
  <2> QED
    BY <2>1, <2>5, SignatureTypes, SendTypes DEF SignInv
<1> QED
  BY <1>4, <1>5

LEMMA RsaTypes ==
  ASSUME TypeOK, SignInv, NEW p \in Party, RsaPartial(p) \/ RsaCombine(p)
  PROVE  TypeOK'
<1>1. protocol = "rsa" /\ UNCHANGED signVars
  BY DEF RsaPartial, RsaCombine
<1>2. \E c \in Contributions : Submit(p, c)
  <2>1. CASE RsaPartial(p)
    BY <1>1, <2>1, ShoupCombines, SentTypes DEF RsaPartial, Values
  <2>2. CASE RsaCombine(p)
    <3> DEFINE S == Senders(p, "partial") \cup {p}
               partials == [q \in S |-> IF q = p THEN RsaPartialOf(p) ELSE Contrib(p, q).value]
    <3>1. Submit(p, Signature(0, Combined(partials)))
      BY <2>2 DEF RsaCombine
    <3>2. Combined(partials) = RsaSignature
      BY <1>1, <2>2, RsaCombines DEF RsaCombine
    <3>3. RsaSignature \in Values
      BY <1>1, RsaSigns DEF Values
    <3> HIDE DEF partials
    <3> QED
      BY <3>1, <3>2, <3>3, SentTypes, FieldTypes
  <2> QED
    BY <2>1, <2>2
<1>3. SessionTypes' /\ protocol' = protocol /\ named' = named /\ partyIDMap' = partyIDMap
  BY <1>1 DEF TypeOK, SessionTypes, signVars
<1> QED
  BY <1>2, <1>3, SendTypes DEF SignInv

LEMMA QuietTypes ==
  ASSUME TypeOK, SignInv, NEW p \in Party,
         \/ LoadKeyShare(p) \/ PeersTold(p) \/ LoadFails(p)
         \/ NoSessionRefuses(p) \/ FrostRefuses(p) \/ Bls12381Refuses(p) \/ DklsRefuses(p)
         \/ /\ ListTasks(p) \/ SkipSubmitted(p) \/ UpdateTask(p) \/ UpdateTaskFails(p)
            /\ UNCHANGED signVars
  PROVE  TypeOK'
<1>1. /\ ListTasks(p) \/ Await(p, "loading") \/ Told(p) \/ Ends(p)
      /\ UNCHANGED signVars
  BY DEF LoadKeyShare, PeersTold, LoadFails, NoSessionRefuses, FrostRefuses, Bls12381Refuses,
     DklsRefuses, Refuse, Told, Ends
<1>2. SessionTypes' /\ protocol' = protocol /\ named' = named /\ partyIDMap' = partyIDMap
  BY <1>1 DEF TypeOK, SessionTypes, signVars
<1>3. out[p] \in Contributions
  BY DEF TypeOK, RoundsTypeOK
<1> QED
  BY <1>1, <1>2, <1>3, NobodySends, StepTypes DEF SignInv

LEMMA AgainTypes ==
  ASSUME TypeOK, SignInv, NEW p \in Party, Again(p)
  PROVE  TypeOK'
<1>1. protocol # "rsa" /\ UNCHANGED signVars
  BY DEF Again, Asked
<1>2. \E c \in Contributions : Submit(p, c)
  <2>1. LagrangeKeyShare(p) \in Values
    BY <1>1, FieldTypes DEF Values
  <2> QED
    BY <2>1, SentTypes, NoTypes DEF Again
<1>3. SessionTypes' /\ protocol' = protocol /\ named' = named /\ partyIDMap' = partyIDMap
  BY <1>1 DEF TypeOK, SessionTypes, signVars
<1> QED
  BY <1>2, <1>3, SendTypes DEF SignInv

LEMMA RestartTypes ==
  ASSUME TypeOK, SignInv, NEW p \in Party, Restart(p)
  PROVE  TypeOK'
<1>1. Ends(p) /\ Drop(p)
  BY DEF Restart, Ends
<1>2. out[p] \in Contributions
  BY DEF TypeOK, RoundsTypeOK
<1> QED
  BY <1>1, <1>2, SignatureTypes, NobodySends, StepTypes DEF SignInv

LEMMA ServerTypes ==
  ASSUME TypeOK, Serve \/ UNCHANGED vars
  PROVE  TypeOK'
<1>1. SUFFICES ASSUME NEW C, C = Contributions PROVE TypeOK'
  OBVIOUS
<1>2. RoundsTypeOK(C, Places) /\ NoContribution \in C
  BY <1>1, NoTypes DEF TypeOK, Places
<1>3. UNCHANGED signVars /\ (Server \/ UNCHANGED roundsVars)
  BY DEF Serve, vars
<1>4. RoundsTypeOK(C, Places)'
  <2>1. CASE UNCHANGED roundsVars
    BY <1>2, <2>1 DEF RoundsTypeOK, roundsVars, serverVars, tickVars
  <2> QED
    BY <1>2, <1>3, <2>1, ServeTypes
<1>5. Contributions' = C
  BY <1>1, <1>3 DEF Contributions, Values, signVars
<1> QED
  BY <1>3, <1>4, <1>5 DEF TypeOK, RoundsTypeOK, Places, signVars

LEMMA StepKeepsTypes == ASSUME TypeOK, SignInv, [Next]_vars PROVE TypeOK'
<1>1. ASSUME NEW p \in Party, Session(p) PROVE TypeOK'
  BY <1>1, QuietTypes, AgainTypes, SentNewTypes, AnswerTypes, SumSentTypes, RsaTypes, DklsTypes
     DEF Session
<1>2. ASSUME NEW p \in Party, Tick(p), ~Session(p) PROVE TypeOK'
  BY <1>2, QuietTypes DEF Tick
<1>3. ASSUME NEW p \in Party, Fault(p) PROVE TypeOK'
  BY <1>3, QuietTypes, RestartTypes DEF Fault
<1>4. CASE Serve \/ UNCHANGED vars
  BY <1>4, ServerTypes
<1> QED
  BY <1>1, <1>2, <1>3, <1>4 DEF Next

LEMMA InitTypes == ASSUME Init PROVE TypeOK
<1>1. SUFFICES ASSUME NEW C, C = Contributions PROVE TypeOK
  OBVIOUS
<1>2. NoContribution \in C
  BY <1>1, NoTypes
<1>3. NoTask \in [round : 0 .. LastRound, contribs : [Party -> C]]
  BY <1>2, RoundsAssumption DEF NoTask
<1>4. RoundsTypeOK(C, {"loading", "telling"})
  <2>1. round \in 0 .. LastRound /\ faults \in 0 .. MaxFaults /\ restarts \in 0 .. MaxRestarts
    BY RoundsAssumption DEF Init, InitRounds
  <2>2. /\ inbox \in [Party -> C] /\ contribs \in [Party -> C] /\ out \in [Party -> C]
        /\ done \in BOOLEAN /\ submitted \in [Party -> SUBSET (0 .. LastRound)]
    BY <1>2 DEF Init, InitRounds
  <2>3. /\ pc \in [Party -> {"idle", "polled", "submitting"} \cup {"loading", "telling"}]
        /\ snap \in [Party -> [round : 0 .. LastRound, contribs : [Party -> C]]]
    BY <1>3 DEF Init, InitRounds
  <2> QED
    BY <2>1, <2>2, <2>3 DEF RoundsTypeOK
<1>5. /\ sess \in [Party -> [step : 0 .. 3, draw : Nat, R : Field, heard : [Party -> Nat]]]
      /\ draws \in [Party -> 0 .. MaxRestarts + 1] /\ answered = {}
      /\ protocol \in Protocols /\ named \in BOOLEAN /\ partyIDMap \in [Party -> Nat]
  BY NoTypes, RoundsAssumption, KeyAssumption DEF Init
<1> QED
  BY <1>1, <1>4, <1>5 DEF TypeOK

(* A Sign task's variables keep their types: in particular every value     *)
(* that leaves a sidecar is a field element (of RSA: less than the         *)
(* modulus), and a sidecar draws no more nonces than it has restarts and   *)
(* one.                                                                    *)
THEOREM TypeCorrect == Spec => []TypeOK
<1> DEFINE Inv == TypeOK /\ NonceInv /\ SignInv
<1>1. Init => Inv
  BY InitTypes, NonceInit, SignInit
<1>2. Inv /\ [Next]_vars => Inv'
  BY StepKeepsTypes, NonceStep, SignStep
<1> QED
  BY <1>1, <1>2, PTL DEF Spec

===============================================================================

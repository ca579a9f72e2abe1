------------------------- MODULE CreditLedgerProofs -------------------------
(***************************************************************************)
(* The credits of CreditLedger, for any number of users, requests, windows *)
(* and tasks: holds stay covered, balances are the sums of their ledgers,  *)
(* nothing is charged twice.                                               *)
(*                                                                         *)
(* None of this is inductive alone. A task adds up the holds of a user and *)
(* settles a step later, while requests go on changing those holds, so Inv *)
(* adds what its sum is still good for: it covers what the other holds may *)
(* cost at most, because only a new hold makes that grow and a new hold    *)
(* needs the lock. It also ties a usage to the state of its hold, a lock   *)
(* to the task that works, and the balance the task has read to the one in *)
(* the row.                                                                *)
(*                                                                         *)
(* The sums are folds over finite sets. What is needed of them is proved   *)
(* first, by taking a smallest set a claim fails for.                      *)
(***************************************************************************)
EXTENDS CreditLedger, TLAPS, FiniteSetTheorems, WellFoundedInduction

-----------------------------------------------------------------------------
(* Sums over finite sets.                                                  *)

Sum(f, S) == SumFunctionOnSet(f, S)

\* The element a sum takes next, and what is left then.
Pick(S) == CHOOSE x \in S : TRUE
Rest(S) == S \ {Pick(S)}

\* g gives the sums of f over the subsets of S.
Sums(f, S, g) == g = [T \in SUBSET S |-> IF T = {} THEN 0 ELSE f[Pick(T)] + g[Rest(T)]]

LEMMA RestLess == ASSUME NEW S, S # {} PROVE Pick(S) \in S /\ Rest(S) \subseteq S /\ Rest(S) # S
BY DEF Pick, Rest

\* A set of finite sets that is not empty has a smallest member: what the proofs by
\* induction over sets below rest on.
LEMMA Smallest ==
  ASSUME NEW S, IsFiniteSet(S), NEW Bad \in SUBSET (SUBSET S), Bad # {}
  PROVE  \E T \in Bad : \A U \in Bad : U \subseteq T => U = T
<1>1. \A T \in SUBSET S : IsFiniteSet(T)
  BY FS_Subset
<1>2. Bad \subseteq FiniteSubsetsOf(S)
  BY <1>1 DEF FiniteSubsetsOf
<1>3. PICK T \in Bad : \A U \in Bad : ~(<<U, T>> \in StrictSubsetOrdering(S))
  BY <1>2, WFMin, FS_StrictSubsetOrderingWellFounded
<1>4. \A U \in Bad : U \subseteq T /\ U # T => <<U, T>> \in StrictSubsetOrdering(S)
  BY DEF StrictSubsetOrdering
<1>5. T \in Bad
  BY <1>3
<1>6. ASSUME NEW U \in Bad, U \subseteq T PROVE U = T
  BY <1>3, <1>4, <1>6
<1> QED BY <1>5, <1>6

LEMMA SumsAgree ==
  ASSUME NEW f, NEW S, IsFiniteSet(S), NEW T, NEW g, NEW h, Sums(f, S, g), Sums(f, T, h),
         NEW U, U \subseteq S, U \subseteq T
  PROVE  g[U] = h[U]
<1> DEFINE Bad == {V \in SUBSET S : V \subseteq T /\ g[V] # h[V]}
<1>1. SUFFICES ASSUME Bad # {} PROVE FALSE
  OBVIOUS
<1>2. PICK V \in Bad : \A W \in Bad : W \subseteq V => W = V
  <2>1. Bad \in SUBSET (SUBSET S)
    OBVIOUS
  <2> HIDE DEF Bad
  <2> QED BY <1>1, <2>1, Smallest
<1>3. V # {}
  BY DEF Sums
<1>4. Rest(V) \subseteq V /\ Rest(V) # V
  BY <1>3, RestLess
<1>5. g[Rest(V)] = h[Rest(V)]
  BY <1>2, <1>4
<1>6. g[V] = h[V]
  BY <1>3, <1>5 DEF Sums
<1> QED BY <1>6

LEMMA SumsExist ==
  ASSUME NEW f, NEW S, IsFiniteSet(S)
  PROVE  \E g : Sums(f, S, g)
<1> DEFINE Bad == {T \in SUBSET S : ~\E g : Sums(f, T, g)}
<1>1. SUFFICES ASSUME Bad # {} PROVE FALSE
  OBVIOUS
<1>2. PICK T \in Bad : \A U \in Bad : U \subseteq T => U = T
  <2>1. Bad \in SUBSET (SUBSET S)
    OBVIOUS
  <2> HIDE DEF Bad
  <2> QED BY <1>1, <2>1, Smallest
<1> DEFINE G(U) == CHOOSE g : Sums(f, U, g)
           g == [U \in SUBSET T |-> IF U = {} THEN 0 ELSE f[Pick(U)] + G(Rest(U))[Rest(U)]]
<1>3. \A U \in SUBSET T : U # T => Sums(f, U, G(U))
  BY <1>2
<1> HIDE DEF G
<1>4. ASSUME NEW U \in SUBSET T, U # T PROVE g[U] = G(U)[U]
  <2>1. CASE U = {}
    <3>1. Sums(f, U, G(U))
      BY <1>3, <1>4
    <3>2. G(U)[U] = 0
      BY <2>1, <3>1 DEF Sums
    <3> QED BY <2>1, <3>2
  <2>2. CASE U # {}
    <3>1. Rest(U) \subseteq U /\ Rest(U) # U
      BY <2>2, RestLess
    <3>2. Sums(f, U, G(U)) /\ Sums(f, Rest(U), G(Rest(U)))
      BY <1>3, <1>4, <3>1
    <3>3. IsFiniteSet(U)
      BY FS_Subset
    <3>4. G(U)[Rest(U)] = G(Rest(U))[Rest(U)]
      BY <3>1, <3>2, <3>3, SumsAgree
    <3>5. G(U)[U] = f[Pick(U)] + G(U)[Rest(U)]
      BY <2>2, <3>2 DEF Sums
    <3> QED BY <2>2, <3>4, <3>5
  <2> QED BY <2>1, <2>2
<1>5. \A U \in SUBSET T : U # {} => g[Rest(U)] = G(Rest(U))[Rest(U)]
  <2> SUFFICES ASSUME NEW U \in SUBSET T, U # {} PROVE g[Rest(U)] = G(Rest(U))[Rest(U)]
    OBVIOUS
  <2>1. Rest(U) \in SUBSET T /\ Rest(U) # T
    BY RestLess
  <2> HIDE DEF g
  <2> QED BY <1>4, <2>1
<1>6. g = [U \in SUBSET T |-> IF U = {} THEN 0 ELSE f[Pick(U)] + g[Rest(U)]]
  BY <1>5
<1> HIDE DEF g
<1>7. Sums(f, T, g)
  BY <1>6 DEF Sums
<1> QED BY <1>7

LEMMA SumIs ==
  ASSUME NEW f, NEW S
  PROVE  Sum(f, S) = (CHOOSE g : Sums(f, S, g))[S]
BY DEF Sum, SumFunctionOnSet, FoldFunctionOnSet, MapThenFoldSet, Sums, Pick, Rest

LEMMA SumEmpty == ASSUME NEW f PROVE Sum(f, {}) = 0
<1>1. \E g : Sums(f, {}, g)
  BY SumsExist, FS_EmptySet
<1> QED BY <1>1, SumIs DEF Sums

LEMMA SumPick ==
  ASSUME NEW f, NEW S, IsFiniteSet(S), S # {}
  PROVE  Sum(f, S) = f[Pick(S)] + Sum(f, Rest(S))
<1> DEFINE g == CHOOSE g : Sums(f, S, g)
           h == CHOOSE h : Sums(f, Rest(S), h)
<1>1. Rest(S) \subseteq S /\ IsFiniteSet(Rest(S))
  BY RestLess, FS_Subset
<1>2. Sums(f, S, g) /\ Sums(f, Rest(S), h)
  BY <1>1, SumsExist
<1>3. Sum(f, S) = g[S] /\ Sum(f, Rest(S)) = h[Rest(S)]
  BY SumIs
<1> HIDE DEF g, h
<1>4. g[Rest(S)] = h[Rest(S)]
  BY <1>1, <1>2, SumsAgree
<1>5. g[S] = f[Pick(S)] + g[Rest(S)]
  BY <1>2 DEF Sums
<1> QED BY <1>3, <1>4, <1>5

\* Sums of integers are integers, and of numbers that are not negative are not negative.
LEMMA SumInt ==
  ASSUME NEW f, NEW S, IsFiniteSet(S), \A x \in S : f[x] \in Int
  PROVE  Sum(f, S) \in Int
<1> DEFINE Bad == {T \in SUBSET S : Sum(f, T) \notin Int}
<1>1. SUFFICES ASSUME Bad # {} PROVE FALSE
  OBVIOUS
<1>2. PICK T \in Bad : \A U \in Bad : U \subseteq T => U = T
  <2>1. Bad \in SUBSET (SUBSET S)
    OBVIOUS
  <2> HIDE DEF Bad
  <2> QED BY <1>1, <2>1, Smallest
<1>3. T # {}
  BY SumEmpty
<1>4. Rest(T) \subseteq T /\ Rest(T) # T /\ Pick(T) \in T /\ IsFiniteSet(T)
  BY <1>3, RestLess, FS_Subset
<1>5. Sum(f, Rest(T)) \in Int
  BY <1>2, <1>4
<1>6. Sum(f, T) = f[Pick(T)] + Sum(f, Rest(T))
  BY <1>3, <1>4, SumPick
<1> QED BY <1>4, <1>5, <1>6

LEMMA SumMonotone ==
  ASSUME NEW f, NEW g, NEW S, IsFiniteSet(S),
         \A x \in S : f[x] \in Int /\ g[x] \in Int /\ f[x] <= g[x]
  PROVE  Sum(f, S) <= Sum(g, S)
<1> DEFINE Bad == {T \in SUBSET S : ~(Sum(f, T) <= Sum(g, T))}
<1>1. SUFFICES ASSUME Bad # {} PROVE FALSE
  OBVIOUS
<1>2. PICK T \in Bad : \A U \in Bad : U \subseteq T => U = T
  <2>1. Bad \in SUBSET (SUBSET S)
    OBVIOUS
  <2> HIDE DEF Bad
  <2> QED BY <1>1, <2>1, Smallest
<1>3. T # {}
  BY SumEmpty
<1>4. Rest(T) \subseteq T /\ Rest(T) # T /\ Pick(T) \in T /\ IsFiniteSet(T) /\ IsFiniteSet(Rest(T))
  BY <1>3, RestLess, FS_Subset
<1>5. Sum(f, Rest(T)) <= Sum(g, Rest(T))
  BY <1>2, <1>4
<1>6. /\ Sum(f, T) = f[Pick(T)] + Sum(f, Rest(T))
      /\ Sum(g, T) = g[Pick(T)] + Sum(g, Rest(T))
  BY <1>3, <1>4, SumPick
<1>7. Sum(f, Rest(T)) \in Int /\ Sum(g, Rest(T)) \in Int
  BY <1>4, SumInt
<1>8. f[Pick(T)] \in Int /\ g[Pick(T)] \in Int /\ f[Pick(T)] <= g[Pick(T)]
  BY <1>4
<1> DEFINE a == f[Pick(T)]  b == g[Pick(T)]  m == Sum(f, Rest(T))  n == Sum(g, Rest(T))
<1> HIDE DEF a, b, m, n
<1>9. a + m <= b + n
  BY <1>5, <1>7, <1>8 DEF a, b, m, n
<1> QED BY <1>2, <1>6, <1>9 DEF a, b, m, n

LEMMA SumSame ==
  ASSUME NEW f, NEW g, NEW S, IsFiniteSet(S), \A x \in S : f[x] = g[x]
  PROVE  Sum(f, S) = Sum(g, S)
<1> DEFINE Bad == {T \in SUBSET S : Sum(f, T) # Sum(g, T)}
<1>1. SUFFICES ASSUME Bad # {} PROVE FALSE
  OBVIOUS
<1>2. PICK T \in Bad : \A U \in Bad : U \subseteq T => U = T
  <2>1. Bad \in SUBSET (SUBSET S)
    OBVIOUS
  <2> HIDE DEF Bad
  <2> QED BY <1>1, <2>1, Smallest
<1>3. T # {}
  BY SumEmpty
<1>4. Rest(T) \subseteq T /\ Rest(T) # T /\ Pick(T) \in T /\ IsFiniteSet(T)
  BY <1>3, RestLess, FS_Subset
<1>5. Sum(f, Rest(T)) = Sum(g, Rest(T))
  BY <1>2, <1>4
<1>6. /\ Sum(f, T) = f[Pick(T)] + Sum(f, Rest(T))
      /\ Sum(g, T) = g[Pick(T)] + Sum(g, Rest(T))
  BY <1>3, <1>4, SumPick
<1> QED BY <1>2, <1>4, <1>5, <1>6

\* Any element may be taken first.
LEMMA SumTake ==
  ASSUME NEW f, NEW S, IsFiniteSet(S), \A x \in S : f[x] \in Int, NEW x \in S
  PROVE  Sum(f, S) = f[x] + Sum(f, S \ {x})
<1> DEFINE Bad == {T \in SUBSET S : \E z \in T : Sum(f, T) # f[z] + Sum(f, T \ {z})}
<1>1. SUFFICES ASSUME Bad # {} PROVE FALSE
  OBVIOUS
<1>2. PICK T \in Bad : \A U \in Bad : U \subseteq T => U = T
  <2>1. Bad \in SUBSET (SUBSET S)
    OBVIOUS
  <2> HIDE DEF Bad
  <2> QED BY <1>1, <2>1, Smallest
<1>3. PICK z \in T : Sum(f, T) # f[z] + Sum(f, T \ {z})
  BY <1>2
<1>4. PICK y \in T : Sum(f, T) = f[y] + Sum(f, T \ {y})
  BY <1>3, RestLess, FS_Subset, SumPick DEF Rest
<1>5. y # z
  BY <1>3, <1>4
<1> DEFINE V == T \ {z}  W == T \ {y}  X == (T \ {z}) \ {y}
<1>6. T \in SUBSET S /\ V \in SUBSET S /\ V # T /\ V \subseteq T /\ W \in SUBSET S /\ W # T /\ W \subseteq T
  BY <1>3, <1>4
<1>7. V \notin Bad /\ W \notin Bad
  BY <1>2, <1>6
<1>8. Sum(f, V) = f[y] + Sum(f, X)
  BY <1>5, <1>6, <1>7
<1>9. Sum(f, W) = f[z] + Sum(f, X)
  <2>1. X = W \ {z} /\ z \in W
    BY <1>5
  <2> QED BY <1>6, <1>7, <2>1
<1>10. f[y] \in Int /\ f[z] \in Int /\ Sum(f, X) \in Int
  BY <1>6, FS_Subset, SumInt
<1> DEFINE a == f[y]  b == f[z]  m == Sum(f, X)
<1> HIDE DEF a, b, m, V, W, X
<1>11. a + (b + m) = b + (a + m)
  BY <1>10 DEF a, b, m
<1> QED BY <1>3, <1>4, <1>8, <1>9, <1>11 DEF a, b, m, V, W

\* A function that differs in one place has a sum that differs as much.
LEMMA SumUpdate ==
  ASSUME NEW f, NEW g, NEW S, IsFiniteSet(S), NEW x \in S,
         \A y \in S : f[y] \in Int /\ g[y] \in Int,
         \A y \in S \ {x} : g[y] = f[y]
  PROVE  Sum(g, S) = Sum(f, S) - f[x] + g[x]
<1>1. Sum(f, S) = f[x] + Sum(f, S \ {x}) /\ Sum(g, S) = g[x] + Sum(g, S \ {x})
  BY SumTake
<1>2. IsFiniteSet(S \ {x})
  BY FS_Subset
<1>3. Sum(f, S \ {x}) = Sum(g, S \ {x})
  BY <1>2, SumSame
<1>4. Sum(f, S \ {x}) \in Int /\ f[x] \in Int /\ g[x] \in Int
  BY <1>2, SumInt
<1> DEFINE a == f[x]  b == g[x]  m == Sum(f, S \ {x})  p == Sum(f, S)  q == Sum(g, S)
<1>5. a \in Int /\ b \in Int /\ m \in Int /\ p = a + m /\ q = b + m
  BY <1>1, <1>3, <1>4
<1> HIDE DEF a, b, m, p, q
<1>6. q = p - a + b
  BY <1>5
<1> QED BY <1>6 DEF a, b, p, q

\* The sum over a part is the sum over the whole of what counts only in the part.
LEMMA SumPart ==
  ASSUME NEW f, NEW S, IsFiniteSet(S), NEW T \in SUBSET S, \A x \in S : f[x] \in Int,
         NEW h, \A x \in S : h[x] = IF x \in T THEN f[x] ELSE 0
  PROVE  Sum(f, T) = Sum(h, S)
<1> DEFINE Bad == {V \in SUBSET S : Sum(f, T \cap V) # Sum(h, V)}
<1>1. SUFFICES ASSUME Bad # {} PROVE FALSE
  <2>1. S \in SUBSET S /\ T \cap S = T
    OBVIOUS
  <2> QED BY <2>1
<1>2. PICK V \in Bad : \A U \in Bad : U \subseteq V => U = V
  <2>1. Bad \in SUBSET (SUBSET S)
    OBVIOUS
  <2> HIDE DEF Bad
  <2> QED BY <1>1, <2>1, Smallest
<1>3. V # {}
  <2>1. T \cap {} = {}
    OBVIOUS
  <2> QED BY <1>2, <2>1, SumEmpty
<1>4. PICK y \in V : Sum(h, V) = h[y] + Sum(h, V \ {y})
  BY <1>3, RestLess, FS_Subset, SumPick DEF Rest
<1>5. V \in SUBSET S /\ V \ {y} \in SUBSET S /\ V \ {y} # V /\ V \ {y} \subseteq V
  BY <1>4
<1>6. Sum(f, T \cap (V \ {y})) = Sum(h, V \ {y})
  BY <1>2, <1>5
<1>7. CASE y \in T
  <2>1. IsFiniteSet(T \cap V) /\ y \in T \cap V /\ T \cap V \in SUBSET S
    BY <1>5, <1>7, FS_Subset
  <2>2. Sum(f, T \cap V) = f[y] + Sum(f, (T \cap V) \ {y})
    BY <2>1, SumTake
  <2>3. (T \cap V) \ {y} = T \cap (V \ {y}) /\ h[y] = f[y]
    BY <1>5, <1>7
  <2> QED BY <1>2, <1>4, <1>6, <2>2, <2>3
<1>8. CASE y \notin T
  <2>1. T \cap V = T \cap (V \ {y}) /\ h[y] = 0
    BY <1>5, <1>8
  <2>2. Sum(h, V \ {y}) \in Int
    <3>1. \A x \in S : h[x] \in Int
      OBVIOUS
    <3> QED BY <1>5, <3>1, FS_Subset, SumInt
  <2>3. 0 + Sum(h, V \ {y}) = Sum(h, V \ {y})
    BY <2>2
  <2> QED BY <1>2, <1>4, <1>6, <2>1, <2>3
<1> QED BY <1>7, <1>8

\* A sum of nothing but zeros.
LEMMA SumZero ==
  ASSUME NEW f, NEW S, IsFiniteSet(S), \A x \in S : f[x] = 0
  PROVE  Sum(f, S) = 0
<1>2. Sum(f, {}) = Sum(f, S)
  BY SumPart
<1> QED BY <1>2, SumEmpty

LEMMA SumNat ==
  ASSUME NEW f, NEW S, IsFiniteSet(S), \A x \in S : f[x] \in Nat
  PROVE  Sum(f, S) \in Nat
<1> DEFINE z == [x \in S |-> 0]
<1>1. \A x \in S : z[x] \in Int /\ f[x] \in Int /\ z[x] <= f[x] /\ z[x] = 0
  OBVIOUS
<1> HIDE DEF z
<1> QED BY <1>1, SumInt, SumMonotone, SumZero

-----------------------------------------------------------------------------
(* What the holds of a user may cost.                                      *)

Hold == [state : HoldStates, user : Users \cup {NoUser}, cost : Nat]
Open(H, u) == {c \in Calls : H[c].user = u /\ H[c].state \in Reserving}

RiskOf(H, u) == Sum([c \in Calls |-> AtMost(H[c])], Open(H, u))
ClaimOf(H, own, u) == Sum([c \in Calls |-> Claimed(H[c])], Open(H, u) \ own)

\* The share of one hold, and the sum of the shares.
Part(h, u) == IF h.user = u /\ h.state \in Reserving THEN AtMost(h) ELSE 0
Staked(H, u) == Sum([c \in Calls |-> Part(H[c], u)], Calls)

LEMMA HoldNumbers ==
  ASSUME NEW h \in Hold
  PROVE  /\ Claimed(h) \in Nat /\ AtMost(h) \in Nat
         /\ AtMost(h) <= Claimed(h) /\ AtMost(h) <= Risk
         /\ \A u : Part(h, u) \in Nat
<1>1. Claimed(h) \in Nat
  BY CreditAssumption DEF Hold, Claimed
<1> QED BY <1>1, CreditAssumption DEF AtMost, Part

LEMMA RiskIs ==
  ASSUME NEW H \in [Calls -> Hold], NEW u
  PROVE  RiskOf(H, u) = Staked(H, u) /\ RiskOf(H, u) \in Nat
<1> DEFINE f == [c \in Calls |-> AtMost(H[c])]
           p == [c \in Calls |-> Part(H[c], u)]
<1>1. \A c \in Calls : f[c] \in Int /\ p[c] \in Nat
  BY HoldNumbers
<1>2. \A c \in Calls : p[c] = IF c \in Open(H, u) THEN f[c] ELSE 0
  BY DEF Part, Open
<1>3. IsFiniteSet(Calls) /\ Open(H, u) \in SUBSET Calls
  BY CreditAssumption DEF Open
<1> HIDE DEF f, p
<1>4. Sum(f, Open(H, u)) = Sum(p, Calls)
  BY <1>1, <1>2, <1>3, SumPart
<1>5. Sum(p, Calls) \in Nat
  BY <1>1, <1>3, SumNat
<1> QED BY <1>4, <1>5 DEF RiskOf, Staked, f, p

\* What the code adds up is no less, with the hold that is settled or without it.
LEMMA ClaimIsMore ==
  ASSUME NEW H \in [Calls -> Hold], NEW u
  PROVE  /\ ClaimOf(H, {}, u) \in Nat
         /\ RiskOf(H, u) <= ClaimOf(H, {}, u)
         /\ \A c \in Open(H, u) :
              /\ ClaimOf(H, {c}, u) \in Nat
              /\ RiskOf(H, u) - AtMost(H[c]) <= ClaimOf(H, {c}, u)
<1> DEFINE f == [c \in Calls |-> AtMost(H[c])]
           g == [c \in Calls |-> Claimed(H[c])]
           T == Open(H, u)
<1>1. \A c \in Calls : f[c] \in Int /\ g[c] \in Int /\ g[c] \in Nat /\ f[c] <= g[c]
  BY HoldNumbers
<1>2. T \subseteq Calls /\ T \ {} = T
  BY DEF Open
<1>3. IsFiniteSet(T) /\ \A c \in T : IsFiniteSet(T \ {c})
  BY <1>2, CreditAssumption, FS_Subset
<1> HIDE DEF f, g, T
<1>4. Sum(g, T) \in Nat /\ Sum(f, T) <= Sum(g, T)
  BY <1>1, <1>2, <1>3, SumNat, SumMonotone
<1>5. ASSUME NEW c \in T
      PROVE  Sum(g, T \ {c}) \in Nat /\ Sum(f, T) - f[c] <= Sum(g, T \ {c})
  <2>1. Sum(g, T \ {c}) \in Nat /\ Sum(f, T \ {c}) <= Sum(g, T \ {c})
    BY <1>1, <1>2, <1>3, SumNat, SumMonotone
  <2>2. Sum(f, T) = f[c] + Sum(f, T \ {c})
    BY <1>1, <1>2, <1>3, SumTake
  <2>3. f[c] \in Int /\ Sum(f, T \ {c}) \in Int
    BY <1>1, <1>2, <1>3, SumInt
  <2> DEFINE a == f[c]  m == Sum(f, T \ {c})  n == Sum(g, T \ {c})  t == Sum(f, T)
  <2>4. a \in Int /\ m \in Int /\ n \in Nat /\ m <= n /\ t = a + m
    BY <2>1, <2>2, <2>3
  <2> HIDE DEF a, m, n, t
  <2>5. t - a <= n
    BY <2>4
  <2> QED BY <2>1, <2>5 DEF a, n, t
<1>6. \A c \in T : f[c] = AtMost(H[c])
  BY <1>2 DEF f
<1> QED BY <1>2, <1>4, <1>5, <1>6 DEF RiskOf, ClaimOf, f, g, T

\* It is the same as long as no hold has cost more than its risk.
LEMMA ClaimIsExact ==
  ASSUME NEW H \in [Calls -> Hold], NEW u, NEW c \in Open(H, u),
         \A d \in Open(H, u) : Claimed(H[d]) <= Risk
  PROVE  RiskOf(H, u) = ClaimOf(H, {c}, u) + Claimed(H[c])
<1> DEFINE f == [d \in Calls |-> AtMost(H[d])]
           g == [d \in Calls |-> Claimed(H[d])]
           T == Open(H, u)
<1>1. \A d \in Calls : f[d] \in Int
  BY HoldNumbers
<1>2. T \subseteq Calls /\ IsFiniteSet(T) /\ c \in T
  BY CreditAssumption, FS_Subset DEF Open
<1>3. IsFiniteSet(T \ {c})
  BY <1>2, FS_Subset
<1>4. \A d \in T : f[d] = g[d]
  <2> SUFFICES ASSUME NEW d \in T PROVE AtMost(H[d]) = Claimed(H[d])
    BY <1>2
  <2>1. Claimed(H[d]) \in Nat /\ Claimed(H[d]) <= Risk
    BY <1>2, HoldNumbers
  <2> QED BY <2>1, CreditAssumption DEF AtMost
<1> HIDE DEF f, g, T
<1>5. Sum(f, T) = f[c] + Sum(f, T \ {c})
  BY <1>1, <1>2, SumTake
<1>6. Sum(f, T \ {c}) = Sum(g, T \ {c}) /\ Sum(f, T \ {c}) \in Int /\ f[c] \in Int /\ f[c] = g[c]
  BY <1>1, <1>2, <1>3, <1>4, SumSame, SumInt
<1> DEFINE a == f[c]  m == Sum(g, T \ {c})  t == Sum(f, T)
<1>7. a \in Int /\ m \in Int /\ t = a + m /\ a = g[c]
  BY <1>5, <1>6
<1> HIDE DEF a, m, t
<1>8. t = m + a
  BY <1>7
<1>9. Sum(f, T) = Sum(g, T \ {c}) + g[c]
  BY <1>7, <1>8 DEF m, t
<1>10. g[c] = Claimed(H[c])
  BY <1>2 DEF g
<1> QED BY <1>9, <1>10 DEF RiskOf, ClaimOf, f, g, T

\* Holds that grow no larger, one by one, are not larger together.
LEMMA RiskShrinks ==
  ASSUME NEW H \in [Calls -> Hold], NEW G \in [Calls -> Hold], NEW u,
         \A c \in Calls : Part(G[c], u) <= Part(H[c], u)
  PROVE  RiskOf(G, u) <= RiskOf(H, u)
<1> DEFINE p == [c \in Calls |-> Part(H[c], u)]
           q == [c \in Calls |-> Part(G[c], u)]
<1>1. \A c \in Calls : p[c] \in Int /\ q[c] \in Int /\ q[c] <= p[c]
  BY HoldNumbers
<1> HIDE DEF p, q
<1>2. Sum(q, Calls) <= Sum(p, Calls)
  BY <1>1, CreditAssumption, SumMonotone
<1> QED BY <1>2, RiskIs DEF Staked, p, q

\* One hold that changes.
LEMMA RiskMoves ==
  ASSUME NEW H \in [Calls -> Hold], NEW G \in [Calls -> Hold], NEW u, NEW c \in Calls,
         \A d \in Calls \ {c} : Part(G[d], u) = Part(H[d], u)
  PROVE  RiskOf(G, u) = RiskOf(H, u) - Part(H[c], u) + Part(G[c], u)
<1> DEFINE p == [d \in Calls |-> Part(H[d], u)]
           q == [d \in Calls |-> Part(G[d], u)]
<1>1. \A d \in Calls : p[d] \in Int /\ q[d] \in Int
  BY HoldNumbers
<1>2. \A d \in Calls \ {c} : q[d] = p[d]
  OBVIOUS
<1>3. p[c] = Part(H[c], u) /\ q[c] = Part(G[c], u)
  OBVIOUS
<1> HIDE DEF p, q
<1>4. Sum(q, Calls) = Sum(p, Calls) - p[c] + q[c]
  BY <1>1, <1>2, CreditAssumption, SumUpdate
<1>5. RiskOf(H, u) = Sum(p, Calls) /\ RiskOf(G, u) = Sum(q, Calls)
  BY RiskIs DEF Staked, p, q
<1> QED BY <1>3, <1>4, <1>5

-----------------------------------------------------------------------------
(* What a user has paid.                                                   *)

Items == Calls \cup Windows

\* The entries of one request or window: none, or one.
Entries == {<<>>} \cup {<<u>> : u \in Users}

CostOf(H, x) == IF x \in Calls THEN H[x].cost ELSE Fee
PaidOf(H, D, u) ==
  Sum([x \in Items |-> CostOf(H, x) * Cardinality({i \in DOMAIN D[x] : D[x][i] = u})], Items)

\* The share of one item.
Due(H, D, x, u) == IF D[x] = <<u>> THEN CostOf(H, x) ELSE 0

LEMMA ItemsFinite == IsFiniteSet(Items)
BY CreditAssumption, FS_Union DEF Items

LEMMA CostIsNat ==
  ASSUME NEW H \in [Calls -> Hold], NEW x \in Items
  PROVE  CostOf(H, x) \in Nat
<1>1. CASE x \in Calls
  BY <1>1 DEF CostOf, Hold
<1>2. CASE x \notin Calls
  BY <1>2, CreditAssumption DEF CostOf
<1> QED BY <1>1, <1>2

LEMMA OnceOrNever ==
  ASSUME NEW d \in Entries, NEW u
  PROVE  Cardinality({i \in DOMAIN d : d[i] = u}) = IF d = <<u>> THEN 1 ELSE 0
<1> DEFINE I == {i \in DOMAIN d : d[i] = u}
<1>1. CASE d = <<u>>
  <2>1. I = {1}
    BY <1>1
  <2> QED BY <1>1, <2>1, FS_Singleton
<1>2. CASE d # <<u>>
  <2>1. d = <<>> \/ \E v \in Users : d = <<v>>
    BY DEF Entries
  <2>2. I = {}
    BY <1>2, <2>1
  <2> QED BY <1>2, <2>2, FS_EmptySet
<1> QED BY <1>1, <1>2

LEMMA PaidIs ==
  ASSUME NEW H \in [Calls -> Hold], NEW D \in [Items -> Entries], NEW u
  PROVE  /\ PaidOf(H, D, u) = Sum([x \in Items |-> Due(H, D, x, u)], Items)
         /\ PaidOf(H, D, u) \in Nat
<1> DEFINE p == [x \in Items |-> CostOf(H, x) * Cardinality({i \in DOMAIN D[x] : D[x][i] = u})]
           q == [x \in Items |-> Due(H, D, x, u)]
<1>1. ASSUME NEW x \in Items PROVE p[x] = q[x] /\ q[x] \in Nat
  <2> DEFINE n == Cardinality({i \in DOMAIN D[x] : D[x][i] = u})
  <2>1. n = IF D[x] = <<u>> THEN 1 ELSE 0
    <3> DEFINE e == D[x]
    <3>1. e \in Entries
      OBVIOUS
    <3> HIDE DEF e
    <3>2. Cardinality({i \in DOMAIN e : e[i] = u}) = IF e = <<u>> THEN 1 ELSE 0
      BY <3>1, OnceOrNever
    <3> QED BY <3>2 DEF e
  <2>2. CostOf(H, x) \in Nat
    BY CostIsNat
  <2> HIDE DEF n
  <2>3. CostOf(H, x) * n = Due(H, D, x, u) /\ Due(H, D, x, u) \in Nat
    BY <2>1, <2>2 DEF Due
  <2> QED BY <2>3 DEF n
<1> HIDE DEF p, q
<1>2. Sum(p, Items) = Sum(q, Items)
  BY <1>1, ItemsFinite, SumSame
<1>3. Sum(q, Items) \in Nat
  BY <1>1, ItemsFinite, SumNat
<1> QED BY <1>2, <1>3 DEF PaidOf, p, q

\* What is not in the books may change its price.
LEMMA PaidStays ==
  ASSUME NEW H \in [Calls -> Hold], NEW G \in [Calls -> Hold],
         NEW D \in [Items -> Entries], NEW u,
         \A c \in Calls : D[c] = <<>> \/ G[c].cost = H[c].cost
  PROVE  PaidOf(G, D, u) = PaidOf(H, D, u)
<1> DEFINE p == [x \in Items |-> Due(H, D, x, u)]
           q == [x \in Items |-> Due(G, D, x, u)]
<1>1. \A x \in Items : q[x] = p[x]
  BY SMTT(30) DEF Due, CostOf
<1> HIDE DEF p, q
<1>2. Sum(q, Items) = Sum(p, Items)
  BY <1>1, ItemsFinite, SumSame
<1>3. PaidOf(H, D, u) = Sum(p, Items)
  BY PaidIs DEF p
<1>4. PaidOf(G, D, u) = Sum(q, Items)
  BY PaidIs DEF q
<1> QED BY <1>2, <1>3, <1>4

\* A new entry, and no other price.
Entered(D, E, x, v) ==
  D[x] = <<>> /\ E[x] = <<v>> /\ \A y \in Items \ {x} : E[y] = D[y]

SameCosts(H, G) == \A c \in Calls : G[c].cost = H[c].cost

LEMMA PaidGrows ==
  ASSUME NEW H \in [Calls -> Hold], NEW G \in [Calls -> Hold], SameCosts(H, G),
         NEW D \in [Items -> Entries], NEW E \in [Items -> Entries],
         NEW x \in Items, NEW v \in Users, Entered(D, E, x, v), NEW u
  PROVE  /\ u = v => PaidOf(G, E, u) = PaidOf(H, D, u) + CostOf(H, x)
         /\ u # v => PaidOf(G, E, u) = PaidOf(H, D, u)
<1> DEFINE p == [y \in Items |-> Due(H, D, y, u)]
           q == [y \in Items |-> Due(G, E, y, u)]
<1>2. \A y \in Items : CostOf(G, y) = CostOf(H, y) /\ CostOf(H, y) \in Nat
  BY CostIsNat DEF CostOf, SameCosts
<1>3. \A y \in Items : p[y] \in Int /\ q[y] \in Int
  BY <1>2 DEF Due
<1>4. \A y \in Items \ {x} : q[y] = p[y]
  BY <1>2 DEF Due, Entered
<1>5. p[x] = 0 /\ q[x] = IF u = v THEN CostOf(H, x) ELSE 0
  BY <1>2 DEF Due, Entered
<1>6. PaidOf(H, D, u) = Sum(p, Items) /\ PaidOf(G, E, u) = Sum(q, Items)
  <2>1. PaidOf(H, D, u) = Sum(p, Items)
    BY PaidIs
  <2>2. PaidOf(G, E, u) = Sum(q, Items)
    BY PaidIs
  <2> QED BY <2>1, <2>2
<1>7. PaidOf(H, D, u) \in Nat
  BY PaidIs
<1> HIDE DEF p, q
<1>8. Sum(q, Items) = Sum(p, Items) - p[x] + q[x]
  BY <1>3, <1>4, ItemsFinite, SumUpdate
<1> DEFINE a == CostOf(H, x)
<1>9. a \in Nat
  BY <1>2
<1> HIDE DEF a
<1>10. /\ u = v => PaidOf(G, E, u) = PaidOf(H, D, u) + a
       /\ u # v => PaidOf(G, E, u) = PaidOf(H, D, u)
  BY <1>5, <1>6, <1>7, <1>8, <1>9 DEF a
<1> QED BY <1>10 DEF a

-----------------------------------------------------------------------------
(* The inductive invariant.                                                *)

\* What the status of the usage of a request is, by the state of its hold.
UsageOf(state) ==
  IF state = "usage_recorded" THEN "pending"
  ELSE IF state = "hold_deficit" THEN "reconciliation_required"
  ELSE IF state = "settled" THEN "settled" ELSE "absent"

\* A hold belongs to a user as soon as there is one, and its cost to the state.
CallOK(c) ==
  /\ call[c].pc = "idle" => hold[c] = NoHold
  /\ hold[c].state # "absent" => hold[c].user \in Callers
  /\ hold[c].state = "usage_recorded" => hold[c].cost <= Risk
  /\ usage[c] = UsageOf(hold[c].state)

CallsOK == \A c \in Calls : CallOK(c)

\* A task between its two steps has the row of the wallet and what it has read there
\* is what there still is.
HasWallet(k) ==
  task[k].pc \in {"usage", "window"} =>
    /\ task[k].user \in Users
    /\ wallet[task[k].user].lock = k
    /\ task[k].seen = wallet[task[k].user].balance

\* What it has added up covers all other holds of the user, although it knows some
\* of them only as they were.
SettlesUsage(k) ==
  task[k].pc = "usage" =>
    /\ task[k].item \in Recorded
    /\ hold[task[k].item].user = task[k].user
    /\ AtRisk(task[k].user) - AtMost(hold[task[k].item]) <= task[k].reserved
    /\ TooLittle(k, hold[task[k].item].cost) =>
         \E d \in Calls : hold[d].state = "hold_deficit" /\ hold[d].user = task[k].user

SettlesWindow(k) ==
  task[k].pc \in {"owner", "window"} =>
    /\ task[k].item \in Windows
    /\ task[k].user \in Users
    /\ task[k].pc = "window" => AtRisk(task[k].user) <= task[k].reserved

TaskOK(k) == HasWallet(k) /\ SettlesUsage(k) /\ SettlesWindow(k)

TasksOK == \A k \in Workers : TaskOK(k)

Inv ==
  /\ TypeOK /\ CallsOK /\ TasksOK
  /\ PaidOnce /\ BalanceIsLedger /\ HoldsAreCovered

\* The operators of the model, now and after a step, as sums of constants.
LEMMA AsSums ==
  ASSUME NEW u
  PROVE  /\ AtRisk(u) = RiskOf(hold, u) /\ AtRisk(u)' = RiskOf(hold', u)
         /\ \A own : Reserved(u, own) = ClaimOf(hold, own, u)
         /\ Paid(u) = PaidOf(hold, debits, u) /\ Paid(u)' = PaidOf(hold', debits', u)
<1>1. AtRisk(u) = RiskOf(hold, u) /\ AtRisk(u)' = RiskOf(hold', u)
  BY DEF AtRisk, RiskOf, Sum, Open
<1>2. ASSUME NEW own PROVE Reserved(u, own) = ClaimOf(hold, own, u)
  <2>1. Open(hold, u) \ own = {c \in Calls \ own : hold[c].user = u /\ hold[c].state \in Reserving}
    BY DEF Open
  <2> QED BY <2>1 DEF Reserved, ClaimOf, Sum
<1>3. Paid(u) = PaidOf(hold, debits, u) /\ Paid(u)' = PaidOf(hold', debits', u)
  BY DEF Paid, PaidOf, Sum, Items, CostOf, Price, Times
<1> QED BY <1>1, <1>2, <1>3

WalletRow == [balance : Int, lock : Workers \cup {Nobody}]
CallRow == [pc : {"idle", "reserved", "sent", "report", "unknown", "release", "over"},
            cost : Costs \cup {0}]
TaskRow == [pc : {"idle", "usages", "usage", "owner", "window"},
            todo : SUBSET Calls, item : Calls \cup Windows \cup {NoUser},
            user : Users \cup {NoUser}, seen : Int, reserved : Nat]

LEMMA Types ==
  TypeOK <=>
    /\ wallet \in [Users -> WalletRow]
    /\ hold \in [Calls -> Hold]
    /\ usage \in [Calls -> {"absent", "pending", "reconciliation_required", "settled"}]
    /\ call \in [Calls -> CallRow]
    /\ served \in [Calls -> BOOLEAN]
    /\ owner \in Users /\ offer \in Users \cup {NoUser}
    /\ task \in [Workers -> TaskRow]
    /\ debits \in [Items -> Seq(Users)]
    /\ deposits \in [Users -> Int]
    /\ moves \in 0..MaxMoves /\ faults \in 0..MaxFaults
BY DEF TypeOK, WalletRow, Hold, CallRow, TaskRow, Items

LEMMA Start == Init => Inv
<1> SUFFICES ASSUME Init PROVE Inv
  OBVIOUS
<1>1. hold \in [Calls -> Hold] /\ debits \in [Items -> Entries]
  BY DEF Init, Hold, NoHold, HoldStates, Items, Entries
<1>2. TypeOK
  <2>1. wallet \in [Users -> WalletRow]
    BY CreditAssumption DEF Init, WalletRow
  <2>2. task \in [Workers -> TaskRow]
    BY DEF Init, Idle, TaskRow
  <2>3. call \in [Calls -> CallRow]
    BY DEF Init, CallRow
  <2>4. debits \in [Items -> Seq(Users)]
    BY DEF Init, Items
  <2> QED BY <1>1, <2>1, <2>2, <2>3, <2>4, CreditAssumption, Types DEF Init
<1>3. CallsOK /\ TasksOK /\ PaidOnce
  <2>1. CallsOK
    BY DEF Init, CallsOK, CallOK, NoHold, UsageOf
  <2>2. TasksOK
    BY DEF Init, TasksOK, TaskOK, HasWallet, SettlesUsage, SettlesWindow, Idle
  <2>3. PaidOnce
    BY DEF Init, PaidOnce, NoHold
  <2> QED BY <2>1, <2>2, <2>3
<1>4. ASSUME NEW u \in Users PROVE Paid(u) = 0 /\ AtRisk(u) = 0
  <2>1. PaidOf(hold, debits, u) = 0
    <3> DEFINE p == [x \in Items |-> Due(hold, debits, x, u)]
    <3>1. \A x \in Items : p[x] = 0
      BY DEF Init, Due, Items
    <3> HIDE DEF p
    <3>2. Sum(p, Items) = 0
      BY <3>1, ItemsFinite, SumZero
    <3> QED BY <1>1, <3>2, PaidIs DEF p
  <2>2. RiskOf(hold, u) = 0
    <3>1. Open(hold, u) = {}
      BY DEF Init, NoHold, Open, Reserving
    <3> QED BY <3>1, SumEmpty DEF RiskOf
  <2> QED BY <2>1, <2>2, AsSums
<1>5. BalanceIsLedger
  BY <1>4, CreditAssumption DEF Init, BalanceIsLedger
<1>6. HoldsAreCovered
  BY <1>4 DEF HoldsAreCovered
<1> QED BY <1>2, <1>3, <1>5, <1>6 DEF Inv

-----------------------------------------------------------------------------
(* What the steps have in common.                                          *)

LEMMA OneEntry == ASSUME NEW d \in Seq(Users), Len(d) <= 1 PROVE d \in Entries
<1>1. CASE Len(d) = 0
  BY <1>1 DEF Entries
<1>2. CASE Len(d) = 1
  <2>1. d = <<d[1]>> /\ d[1] \in Users
    BY <1>2
  <2> QED BY <2>1 DEF Entries
<1> DEFINE n == Len(d)
<1>3. n \in Nat /\ n <= 1
  OBVIOUS
<1> HIDE DEF n
<1>4. n = 0 \/ n = 1
  BY <1>3
<1> QED BY <1>1, <1>2, <1>4 DEF n

\* The types of what is added up.
LEMMA Summed ==
  ASSUME Inv
  PROVE  /\ hold \in [Calls -> Hold] /\ debits \in [Items -> Entries]
         /\ \A u : AtRisk(u) \in Nat /\ Paid(u) \in Nat
<1>1. hold \in [Calls -> Hold] /\ debits \in [Items -> Seq(Users)]
  BY Types DEF Inv
<1>2. ASSUME NEW x \in Items PROVE debits[x] \in Entries
  <2>1. CASE x \in Windows
    BY <1>1, <2>1, OneEntry DEF Inv, PaidOnce
  <2>2. CASE x \in Calls
    <3>1. debits[x] = IF usage[x] = "settled" THEN <<hold[x].user>> ELSE <<>>
      BY <2>2 DEF Inv, PaidOnce
    <3>2. usage[x] = "settled" => hold[x].user \in Users
      BY <2>2, CreditAssumption DEF Inv, PaidOnce, CallsOK, CallOK
    <3> QED BY <3>1, <3>2 DEF Entries
  <2> QED BY <2>1, <2>2 DEF Items
<1>3. debits \in [Items -> Entries]
  BY <1>1, <1>2
<1>4. \A u : AtRisk(u) = RiskOf(hold, u) /\ Paid(u) = PaidOf(hold, debits, u)
  BY AsSums
<1>5. \A u : RiskOf(hold, u) \in Nat
  BY <1>1, RiskIs
<1>6. \A u : PaidOf(hold, debits, u) \in Nat
  BY <1>1, <1>3, PaidIs
<1> QED BY <1>1, <1>3, <1>4, <1>5, <1>6

\* A task that a step of someone else leaves as it is: its wallet has its lock, the
\* hold it settles is nobody else's, and the others grow no larger.
LEMMA TaskKept ==
  ASSUME TypeOK, TypeOK', NEW j \in Workers, TaskOK(j), task'[j] = task[j],
         task[j].pc \in {"usage", "window"} =>
           /\ wallet'[task[j].user] = wallet[task[j].user]
           /\ RiskOf(hold', task[j].user) <= RiskOf(hold, task[j].user),
         task[j].pc = "usage" =>
           /\ hold'[task[j].item] = hold[task[j].item]
           /\ usage'[task[j].item] = usage[task[j].item],
         \A d \in Calls : hold[d].state = "hold_deficit" => hold'[d] = hold[d]
  PROVE  TaskOK(j)'
<1> DEFINE t == task[j]
<1>1. t \in TaskRow /\ task'[j] = t
  BY Types
<1>2. hold \in [Calls -> Hold] /\ hold' \in [Calls -> Hold]
  BY Types DEF TypeOK, Hold
<1>3. AtRisk(t.user) = RiskOf(hold, t.user) /\ AtRisk(t.user)' = RiskOf(hold', t.user)
  BY <1>1, AsSums
<1>4. RiskOf(hold, t.user) \in Nat /\ RiskOf(hold', t.user) \in Nat
  BY <1>2, RiskIs
<1>5. HasWallet(j)'
  BY <1>1 DEF TaskOK, HasWallet
<1>6. SettlesWindow(j)'
  <2>1. t.reserved \in Nat
    BY <1>1 DEF TaskRow
  <2> QED BY <1>1, <1>3, <1>4, <2>1 DEF TaskOK, SettlesWindow
<1>7. SettlesUsage(j)'
  <2> SUFFICES ASSUME t.pc = "usage" PROVE SettlesUsage(j)'
    BY <1>1 DEF SettlesUsage
  <2> DEFINE h == hold[t.item]
  <2>1. /\ t.item \in Recorded /\ h.user = t.user /\ hold'[t.item] = h
        /\ AtRisk(t.user) - AtMost(h) <= t.reserved
        /\ TooLittle(j, h.cost) =>
             \E d \in Calls : hold[d].state = "hold_deficit" /\ hold[d].user = t.user
    BY DEF TaskOK, SettlesUsage
  <2>2. t.item \in Recorded'
    BY <2>1 DEF Recorded
  <2>3. AtMost(h) \in Nat /\ t.reserved \in Nat
    BY <1>1, <1>2, <2>1, HoldNumbers DEF Recorded, TaskRow
  <2>4. AtRisk(t.user)' - AtMost(h) <= t.reserved
    BY <1>3, <1>4, <2>1, <2>3
  <2>5. TooLittle(j, h.cost)' <=> TooLittle(j, h.cost)
    BY <1>1, <2>1 DEF TooLittle
  <2>6. TooLittle(j, hold[task[j].item].cost)' => TooLittle(j, h.cost)
    BY <1>1, <2>1 DEF TooLittle
  <2>7. TooLittle(j, h.cost) =>
          \E d \in Calls : hold'[d].state = "hold_deficit" /\ hold'[d].user = t.user
    BY <2>1
  <2> HIDE DEF h
  <2>8. AtMost(hold[task[j].item])' = AtMost(h)
    BY <1>1, <2>1 DEF AtMost, Claimed
  <2> QED BY <1>1, <2>1, <2>2, <2>4, <2>6, <2>7, <2>8 DEF SettlesUsage
<1> QED BY <1>5, <1>6, <1>7 DEF TaskOK

-----------------------------------------------------------------------------
(* Requests.                                                               *)

\* The books and the tasks are none of a request's business.
CallMove == UNCHANGED <<books, task, world>>

\* A step that leaves the holds alone.
LEMMA CallTurns ==
  ASSUME Inv, CallMove, UNCHANGED <<hold, usage>>,
         call' \in [Calls -> CallRow], served' \in [Calls -> BOOLEAN],
         \A c \in Calls : call'[c].pc = "idle" => call[c].pc = "idle"
  PROVE  Inv'
<1>1. UNCHANGED <<wallet, debits, deposits, task, owner, offer, moves, faults>>
  BY DEF CallMove, books, world
<1>2. TypeOK'
  <2>1. TypeOK /\ UNCHANGED <<wallet, hold, usage, task, debits, deposits, owner, offer, moves, faults>>
    BY <1>1 DEF Inv
  <2> QED BY <2>1, Types DEF TypeOK, CallRow
<1>3. CallsOK'
  BY DEF Inv, CallsOK, CallOK
<1>4. TasksOK'
  <2> SUFFICES ASSUME NEW j \in Workers PROVE TaskOK(j)'
    BY DEF TasksOK
  <2>1. TypeOK /\ TaskOK(j)
    BY DEF Inv, TasksOK
  <2>2. RiskOf(hold', task[j].user) <= RiskOf(hold, task[j].user)
    <3>1. RiskOf(hold, task[j].user) \in Nat
      BY Summed, RiskIs
    <3> QED BY <3>1
  <2> QED BY <1>1, <1>2, <2>1, <2>2, TaskKept
<1>5. \A u : AtRisk(u)' = AtRisk(u) /\ Paid(u)' = Paid(u)
  BY <1>1, AsSums
<1>6. PaidOnce' /\ BalanceIsLedger' /\ HoldsAreCovered'
  BY <1>1, <1>5 DEF Inv, PaidOnce, BalanceIsLedger, HoldsAreCovered
<1> QED BY <1>2, <1>3, <1>4, <1>6 DEF Inv

\* What a request can be once its hold is no longer "held".
Ended == {"released", "reconciliation_required", "usage_recorded", "hold_deficit"}

\* A hold that is held takes another state.
LEMMA HoldEnds ==
  ASSUME Inv, CallMove, UNCHANGED served, NEW c \in Calls, hold[c].state = "held",
         NEW h \in Hold, h.user = hold[c].user, h.state \in Ended,
         h.state = "usage_recorded" => h.cost <= Risk,
         hold' = [hold EXCEPT ![c] = h],
         usage' = [usage EXCEPT ![c] = UsageOf(h.state)],
         call' \in [Calls -> CallRow],
         \A d \in Calls : call'[d].pc = "idle" => call[d].pc = "idle"
  PROVE  Inv'
<1>1. UNCHANGED <<wallet, debits, deposits, task, owner, offer, moves, faults>>
  BY DEF CallMove, books, world
<1>2. TypeOK /\ CallsOK /\ PaidOnce /\ hold \in [Calls -> Hold] /\ hold' \in [Calls -> Hold]
  BY Types DEF Inv
<1>3. UsageOf(h.state) \in {"absent", "pending", "reconciliation_required"}
  BY DEF UsageOf, Ended
<1>4. usage' \in [Calls -> {"absent", "pending", "reconciliation_required", "settled"}]
  BY <1>2, <1>3, Types
<1>5. TypeOK'
  <2>1. UNCHANGED <<wallet, served, task, debits, deposits, owner, offer, moves, faults>>
    BY <1>1
  <2> QED BY SMTT(30), <1>2, <1>4, <2>1, Types DEF TypeOK, CallRow, Hold
<1>6. CallsOK'
  <2> SUFFICES ASSUME NEW d \in Calls PROVE CallOK(d)'
    BY DEF CallsOK
  <2>1. CallOK(d) /\ CallOK(c)
    BY <1>2 DEF CallsOK
  <2>2. CASE d = c
    <3>1. call'[c].pc # "idle"
      BY <2>1 DEF CallOK, NoHold
    <3>2. hold'[c] = h /\ usage'[c] = UsageOf(h.state) /\ hold[c].user \in Callers
      BY <1>2, <2>1, Types DEF CallOK
    <3> QED BY <2>2, <3>1, <3>2 DEF CallOK
  <2>3. CASE d # c
    <3>1. hold'[d] = hold[d] /\ usage'[d] = usage[d]
      BY <1>2, <2>3, Types
    <3> QED BY <2>1, <3>1 DEF CallOK
  <2> QED BY <2>2, <2>3
<1>7. ASSUME NEW u PROVE RiskOf(hold', u) <= RiskOf(hold, u)
  <2>1. ASSUME NEW d \in Calls PROVE Part(hold'[d], u) <= Part(hold[d], u)
    <3>1. CASE d = c
      <4>1. hold'[d] = h /\ hold[d] = hold[c] /\ hold[c] \in Hold
        BY <1>2, <3>1
      <4>2. Part(h, u) \in Nat /\ AtMost(h) <= Risk
        BY HoldNumbers
      <4>3. AtMost(hold[c]) = Risk
        BY CreditAssumption DEF AtMost, Claimed
      <4>4. Part(h, u) <= Part(hold[c], u)
        BY <4>2, <4>3, CreditAssumption DEF Part, Reserving
      <4> QED BY <4>1, <4>4
    <3>2. CASE d # c
      <4>1. Part(hold[d], u) \in Nat
        BY <1>2, HoldNumbers
      <4> QED BY <1>2, <3>2, <4>1
    <3> QED BY <3>1, <3>2
  <2> QED BY <1>2, <2>1, RiskShrinks
<1>8. TasksOK'
  <2> SUFFICES ASSUME NEW j \in Workers PROVE TaskOK(j)'
    BY DEF TasksOK
  <2>1. TaskOK(j)
    BY DEF Inv, TasksOK
  <2>2. ASSUME task[j].pc = "usage"
        PROVE  hold'[task[j].item] = hold[task[j].item] /\ usage'[task[j].item] = usage[task[j].item]
    <3>1. task[j].item \in Calls /\ task[j].item # c
      BY <2>1, <2>2 DEF TaskOK, SettlesUsage, Recorded
    <3> QED BY <1>2, <3>1, Types
  <2>3. \A d \in Calls : hold[d].state = "hold_deficit" => hold'[d] = hold[d]
    BY <1>2
  <2> QED BY <1>1, <1>2, <1>5, <1>7, <2>1, <2>2, <2>3, TaskKept
<1>9. ASSUME NEW u PROVE Paid(u)' = Paid(u)
  <2>1. debits \in [Items -> Entries]
    BY Summed
  <2>2. \A d \in Calls : debits[d] = <<>> \/ hold'[d].cost = hold[d].cost
    <3>1. debits[c] = <<>>
      BY <1>2 DEF PaidOnce
    <3> QED BY <1>2, <3>1
  <2> DEFINE H == hold  G == hold'  D == debits
  <2>3. H \in [Calls -> Hold] /\ G \in [Calls -> Hold] /\ D \in [Items -> Entries]
    BY <1>2, <2>1
  <2>4. \A d \in Calls : D[d] = <<>> \/ G[d].cost = H[d].cost
    BY <2>2
  <2> HIDE DEF H, G, D
  <2>5. PaidOf(G, D, u) = PaidOf(H, D, u)
    BY <2>3, <2>4, PaidStays
  <2> QED BY <1>1, <2>5, AsSums DEF H, G, D
<1>10. PaidOnce'
  <2>1. usage[c] # "settled" /\ usage'[c] # "settled" /\ hold'[c].state # "settled"
    BY <1>2, <1>3, <1>4, Types DEF PaidOnce, Ended
  <2>2. \A d \in Calls : d # c => hold'[d] = hold[d] /\ usage'[d] = usage[d]
    BY <1>2, Types
  <2> QED BY <1>1, <1>2, <2>1, <2>2 DEF PaidOnce
<1>11. BalanceIsLedger'
  BY <1>1, <1>9 DEF Inv, BalanceIsLedger
<1>12. HoldsAreCovered'
  <2> SUFFICES ASSUME NEW u \in Users, AtRisk(u)' > 0 PROVE AtRisk(u)' <= wallet[u].balance
    BY <1>1 DEF HoldsAreCovered
  <2>1. AtRisk(u)' <= AtRisk(u) /\ AtRisk(u) \in Nat /\ AtRisk(u)' \in Nat
    <3>1. RiskOf(hold, u) \in Nat /\ RiskOf(hold', u) \in Nat
      BY <1>2, RiskIs
    <3>2. AtRisk(u) = RiskOf(hold, u) /\ AtRisk(u)' = RiskOf(hold', u)
      BY AsSums
    <3> QED BY <1>7, <3>1, <3>2
  <2>2. AtRisk(u) <= wallet[u].balance
    BY <2>1 DEF Inv, HoldsAreCovered
  <2>3. wallet[u].balance \in Int
    BY <1>2, Types DEF WalletRow
  <2> QED BY <2>1, <2>2, <2>3
<1> QED BY <1>5, <1>6, <1>8, <1>10, <1>11, <1>12 DEF Inv

LEMMA CallGoes ==
  ASSUME Inv, NEW c \in Calls,
         NEW pc \in {"idle", "reserved", "sent", "report", "unknown", "release", "over"},
         Go(c, pc)
  PROVE  /\ call' \in [Calls -> CallRow]
         /\ \A d \in Calls : call'[d].pc = IF d = c THEN pc ELSE call[d].pc
<1>1. call \in [Calls -> CallRow]
  BY Types DEF Inv
<1> QED BY <1>1 DEF Go, CallRow

LEMMA ReserveGood ==
  ASSUME Inv, NEW c \in Calls, NEW u \in Callers, Reserve(c, u)
  PROVE  Inv'
<1> DEFINE new == [state |-> "held", user |-> u, cost |-> 0]
<1>1. /\ call[c].pc = "idle" /\ wallet[u].lock = Nobody
      /\ Risk <= wallet[u].balance - Reserved(u, {})
      /\ Go(c, "reserved")
      /\ UNCHANGED <<wallet, debits, deposits, usage, served, task, owner, offer, moves, faults>>
  BY DEF Reserve, Free, books, world
<1>2. PICK lapsed \in SUBSET {d \in Calls : /\ call[d].pc = "over" /\ hold[d].user = u
                                            /\ hold[d].state = "held"} :
        hold' = [d \in Calls |->
          IF d = c THEN new
          ELSE IF d \in lapsed THEN [hold[d] EXCEPT !.state = "reconciliation_required"]
          ELSE hold[d]]
  BY DEF Reserve
<1>3. TypeOK /\ CallsOK /\ PaidOnce /\ hold \in [Calls -> Hold] /\ u \in Users
  BY Types, CreditAssumption DEF Inv
<1>4. hold[c] = NoHold /\ usage[c] = "absent" /\ hold'[c] = new
  BY <1>1, <1>2, <1>3 DEF CallsOK, CallOK, NoHold, UsageOf
<1>5. ASSUME NEW d \in Calls, d # c
      PROVE  /\ hold'[d] \in Hold /\ hold'[d].user = hold[d].user /\ hold'[d].cost = hold[d].cost
             /\ \/ hold'[d] = hold[d]
                \/ /\ hold[d].state = "held" /\ hold'[d].state = "reconciliation_required"
                   /\ hold[d].user = u
  <2>1. hold[d] \in Hold
    BY <1>3
  <2>2. CASE d \in lapsed
    <3>1. hold'[d] = [hold[d] EXCEPT !.state = "reconciliation_required"]
      BY <1>2, <1>5, <2>2
    <3>2. hold[d].state = "held" /\ hold[d].user = u
      BY <1>2, <2>2
    <3> QED BY <2>1, <3>1, <3>2 DEF Hold, HoldStates, Reserving
  <2>3. CASE d \notin lapsed
    BY <1>2, <1>5, <2>1, <2>3
  <2> QED BY <2>2, <2>3
<1>6. hold' \in [Calls -> Hold]
  <2>1. new \in Hold
    BY <1>3 DEF Hold, HoldStates, Reserving
  <2>2. \A d \in Calls : hold'[d] \in Hold
    BY <1>4, <1>5, <2>1
  <2> HIDE DEF new
  <2> QED BY <1>2, <2>2
<1>7. ASSUME NEW v
      PROVE  RiskOf(hold', v) = RiskOf(hold, v) + (IF v = u THEN Risk ELSE 0)
  <2> DEFINE H == hold  G == hold'
  <2>1. H \in [Calls -> Hold] /\ G \in [Calls -> Hold]
    BY <1>3, <1>6
  <2>2. ASSUME NEW d \in Calls \ {c} PROVE Part(G[d], v) = Part(H[d], v)
    BY <1>5 DEF Part, AtMost, Claimed, Reserving
  <2>3. Part(H[c], v) = 0
    BY <1>4 DEF Part, NoHold, Reserving
  <2>4. Part(G[c], v) = IF v = u THEN Risk ELSE 0
    BY <1>4, CreditAssumption DEF Part, AtMost, Claimed, Reserving
  <2> HIDE DEF H, G
  <2>5. RiskOf(G, v) = RiskOf(H, v) - Part(H[c], v) + Part(G[c], v)
    BY <2>1, <2>2, RiskMoves
  <2>6. RiskOf(H, v) \in Nat
    BY <2>1, RiskIs
  <2>7. RiskOf(G, v) = RiskOf(H, v) + (IF v = u THEN Risk ELSE 0)
    BY <2>3, <2>4, <2>5, <2>6, CreditAssumption
  <2> QED BY <2>7 DEF H, G
<1>8. /\ call' \in [Calls -> CallRow]
      /\ \A d \in Calls : call'[d].pc = IF d = c THEN "reserved" ELSE call[d].pc
  BY <1>1, CallGoes
<1>9. TypeOK'
  <2>1. UNCHANGED <<wallet, usage, served, task, debits, deposits, owner, offer, moves, faults>>
    BY <1>1
  <2> QED BY <1>3, <1>6, <1>8, <2>1, Types DEF TypeOK, CallRow, Hold
<1>10. CallsOK'
  <2> SUFFICES ASSUME NEW d \in Calls PROVE CallOK(d)'
    BY DEF CallsOK
  <2>1. CallOK(d) /\ usage' = usage
    BY <1>1, <1>3 DEF CallsOK
  <2>2. CASE d = c
    <3>1. hold'[d].state = "held" /\ hold'[d].user \in Callers /\ usage'[d] = "absent"
      BY <1>4, <2>1, <2>2
    <3>2. call'[d].pc # "idle"
      BY <1>8, <2>2
    <3> QED BY <3>1, <3>2 DEF CallOK, UsageOf
  <2>3. CASE d # c
    <3>1. call'[d].pc = call[d].pc
      BY <1>8, <2>3
    <3>2. CASE hold'[d] = hold[d]
      BY <2>1, <3>1, <3>2 DEF CallOK
    <3>3. CASE hold'[d] # hold[d]
      <4>1. hold[d].state = "held" /\ hold'[d].state = "reconciliation_required" /\ hold'[d].user = u
        BY <1>5, <2>3, <3>3
      <4>2. call[d].pc # "idle" /\ usage[d] = "absent"
        BY <2>1, <4>1 DEF CallOK, NoHold, UsageOf
      <4> QED BY <2>1, <3>1, <4>1, <4>2 DEF CallOK, UsageOf
    <3> QED BY <3>2, <3>3
  <2> QED BY <2>2, <2>3
<1>11. TasksOK'
  <2> SUFFICES ASSUME NEW j \in Workers PROVE TaskOK(j)'
    BY DEF TasksOK
  <2>1. TaskOK(j)
    BY DEF Inv, TasksOK
  <2>2. ASSUME task[j].pc = "usage"
        PROVE  hold'[task[j].item] = hold[task[j].item] /\ usage'[task[j].item] = usage[task[j].item]
    <3>1. task[j].item \in Calls /\ hold[task[j].item].state = "usage_recorded"
      BY <2>1, <2>2 DEF TaskOK, SettlesUsage, Recorded
    <3>2. task[j].item # c
      BY <1>4, <3>1 DEF NoHold
    <3> QED BY <1>1, <1>5, <3>1, <3>2
  <2>3. \A d \in Calls : hold[d].state = "hold_deficit" => hold'[d] = hold[d]
    BY <1>4, <1>5 DEF NoHold
  <2>4. ASSUME task[j].pc \in {"usage", "window"}
        PROVE  RiskOf(hold', task[j].user) <= RiskOf(hold, task[j].user)
    <3>1. task[j].user # u
      BY <1>1, <2>1, <2>4, CreditAssumption DEF TaskOK, HasWallet
    <3>2. RiskOf(hold, task[j].user) \in Nat
      BY <1>3, RiskIs
    <3> QED BY <1>7, <3>1, <3>2
  <2> QED BY <1>1, <1>3, <1>9, <2>1, <2>2, <2>3, <2>4, TaskKept
<1>12. ASSUME NEW v PROVE Paid(v)' = Paid(v)
  <2> DEFINE H == hold  G == hold'  D == debits
  <2>1. H \in [Calls -> Hold] /\ G \in [Calls -> Hold] /\ D \in [Items -> Entries]
    BY <1>3, <1>6, Summed
  <2>2. ASSUME NEW d \in Calls PROVE D[d] = <<>> \/ G[d].cost = H[d].cost
    <3>1. CASE d = c
      BY <1>3, <1>4, <3>1 DEF PaidOnce
    <3>2. CASE d # c
      BY <1>5, <3>2
    <3> QED BY <3>1, <3>2
  <2> HIDE DEF H, G, D
  <2>3. PaidOf(G, D, v) = PaidOf(H, D, v)
    BY <2>1, <2>2, PaidStays
  <2> QED BY <1>1, <2>3, AsSums DEF H, G, D
<1>13. PaidOnce'
  <2>1. ASSUME NEW d \in Calls
        PROVE  /\ hold'[d].state = "settled" <=> usage'[d] = "settled"
               /\ debits'[d] = IF usage'[d] = "settled" THEN <<hold'[d].user>> ELSE <<>>
    <3>1. /\ hold[d].state = "settled" <=> usage[d] = "settled"
          /\ debits[d] = IF usage[d] = "settled" THEN <<hold[d].user>> ELSE <<>>
      BY <1>3 DEF PaidOnce
    <3>2. CASE d = c
      BY <1>1, <1>4, <3>1, <3>2
    <3>3. CASE d # c
      BY <1>1, <1>5, <3>1, <3>3
    <3> QED BY <3>2, <3>3
  <2>2. \A w \in Windows : Len(debits'[w]) <= 1
    BY <1>1, <1>3 DEF PaidOnce
  <2> QED BY <2>1, <2>2 DEF PaidOnce
<1>14. BalanceIsLedger'
  BY <1>1, <1>12 DEF Inv, BalanceIsLedger
<1>15. HoldsAreCovered'
  <2> SUFFICES ASSUME NEW v \in Users, AtRisk(v)' > 0 PROVE AtRisk(v)' <= wallet[v].balance
    BY <1>1 DEF HoldsAreCovered
  <2>1. AtRisk(v) = RiskOf(hold, v) /\ AtRisk(v)' = RiskOf(hold', v)
    BY AsSums
  <2>2. AtRisk(v) \in Nat /\ wallet[v].balance \in Int
    BY <1>3, Summed, Types DEF WalletRow
  <2>3. CASE v = u
    <3>1. AtRisk(u) <= Reserved(u, {}) /\ Reserved(u, {}) \in Nat
      BY <1>3, ClaimIsMore, AsSums
    <3>2. AtRisk(v)' = AtRisk(u) + Risk
      BY <1>7, <2>1, <2>3
    <3> QED BY <1>1, <2>2, <2>3, <3>1, <3>2, CreditAssumption
  <2>4. CASE v # u
    <3>1. AtRisk(v)' = AtRisk(v)
      BY <1>7, <2>1, <2>2, <2>4
    <3> QED BY <3>1 DEF Inv, HoldsAreCovered
  <2> QED BY <2>3, <2>4
<1> QED BY <1>9, <1>10, <1>11, <1>13, <1>14, <1>15 DEF Inv

\* Record, MarkUnavailable and Release end a hold that is held, or leave it.
LEMMA RecordGood ==
  ASSUME Inv, NEW c \in Calls, Record(c)
  PROVE  Inv'
<1>1. call[c].pc = "report" /\ CallMove /\ UNCHANGED served
  BY DEF Record, CallMove, books, world
<1>2. PICK pc \in {"over", "unknown"} : Go(c, pc)
  BY DEF Record
<1>3. /\ call' \in [Calls -> CallRow]
      /\ \A d \in Calls : call'[d].pc = IF d = c THEN pc ELSE call[d].pc
  BY <1>2, CallGoes
<1>4. \A d \in Calls : call'[d].pc = "idle" => call[d].pc = "idle"
  BY <1>3
<1>5. CASE UNCHANGED <<hold, usage>>
  <2>1. served' \in [Calls -> BOOLEAN]
    BY <1>1, Types DEF Inv
  <2> QED BY <1>1, <1>3, <1>4, <1>5, <2>1, CallTurns
<1>6. CASE ~ UNCHANGED <<hold, usage>>
  <2> DEFINE deficit == call[c].cost > Risk
             h == [hold[c] EXCEPT !.cost = call[c].cost,
                                  !.state = IF deficit THEN "hold_deficit" ELSE "usage_recorded"]
  <2>1. hold[c].state = "held"
    BY <1>6 DEF Record
  <2>2. /\ hold' = [hold EXCEPT ![c].cost = call[c].cost,
                     ![c].state = IF deficit THEN "hold_deficit" ELSE "usage_recorded"]
        /\ usage' = [usage EXCEPT ![c] = IF deficit THEN "reconciliation_required" ELSE "pending"]
    BY <1>6 DEF Record
  <2>3. hold \in [Calls -> Hold] /\ call[c].cost \in Nat
    <3>1. hold \in [Calls -> Hold] /\ call \in [Calls -> CallRow]
      BY Types DEF Inv
    <3>2. call[c].cost \in Costs \cup {0}
      BY <3>1 DEF CallRow
    <3>3. Costs \cup {0} \subseteq Nat
      BY CreditAssumption
    <3>4. call[c].cost \in Nat
      BY <3>2, <3>3
    <3> QED BY <3>1, <3>4
  <2>4. /\ h \in Hold /\ h.user = hold[c].user /\ h.cost = call[c].cost
        /\ h.state = IF deficit THEN "hold_deficit" ELSE "usage_recorded"
    BY <2>3 DEF Hold, HoldStates, Reserving
  <2>5. hold' = [hold EXCEPT ![c] = h]
    BY <2>2, <2>3
  <2>6. usage' = [usage EXCEPT ![c] = UsageOf(h.state)]
    <3> HIDE DEF h, deficit
    <3>1. UsageOf(h.state) = IF deficit THEN "reconciliation_required" ELSE "pending"
      BY <2>4 DEF UsageOf
    <3> QED BY <2>2, <3>1
  <2>7. h.state \in Ended /\ (h.state = "usage_recorded" => h.cost <= Risk)
    BY <2>3, <2>4, CreditAssumption DEF Ended
  <2> HIDE DEF h, deficit
  <2> QED BY <1>1, <1>3, <1>4, <2>1, <2>4, <2>5, <2>6, <2>7, HoldEnds
<1> QED BY <1>5, <1>6

LEMMA EndGood ==
  ASSUME Inv, NEW c \in Calls, NEW state \in {"released", "reconciliation_required"},
         call[c].pc # "idle",
         IF hold[c].state = "held" THEN SetHold(c, state) ELSE UNCHANGED hold,
         Go(c, "over"), CallMove, UNCHANGED <<usage, served>>
  PROVE  Inv'
<1>1. /\ call' \in [Calls -> CallRow]
      /\ \A d \in Calls : call'[d].pc = IF d = c THEN "over" ELSE call[d].pc
  BY CallGoes
<1>2. \A d \in Calls : call'[d].pc = "idle" => call[d].pc = "idle"
  BY <1>1
<1>3. CASE hold[c].state # "held"
  <2>1. served' \in [Calls -> BOOLEAN] /\ UNCHANGED <<hold, usage>>
    BY <1>3, Types DEF Inv
  <2> QED BY <1>1, <1>2, <2>1, CallTurns
<1>4. CASE hold[c].state = "held"
  <2> DEFINE h == [hold[c] EXCEPT !.state = state]
  <2>1. hold \in [Calls -> Hold]
    BY Types DEF Inv
  <2>2. h \in Hold /\ h.user = hold[c].user /\ h.state = state
    BY <2>1 DEF Hold, HoldStates, Reserving
  <2>3. hold' = [hold EXCEPT ![c] = h]
    BY <1>4, <2>1 DEF SetHold
  <2>4. usage' = [usage EXCEPT ![c] = UsageOf(h.state)]
    <3>1. usage[c] = "absent"
      BY <1>4 DEF Inv, CallsOK, CallOK, UsageOf
    <3>2. usage \in [Calls -> {"absent", "pending", "reconciliation_required", "settled"}]
      BY Types DEF Inv
    <3>3. UsageOf(h.state) = "absent"
      BY <2>2 DEF UsageOf
    <3> HIDE DEF h
    <3> QED BY <3>1, <3>2, <3>3
  <2>5. h.state \in Ended /\ h.state # "usage_recorded"
    BY <2>2 DEF Ended
  <2> HIDE DEF h
  <2> QED BY <1>1, <1>2, <1>4, <2>2, <2>3, <2>4, <2>5, HoldEnds
<1> QED BY <1>3, <1>4

LEMMA CallGood ==
  ASSUME Inv, NEW c \in Calls, CallStep(c)
  PROVE  Inv'
<1>1. ASSUME NEW u \in Callers, Reserve(c, u) PROVE Inv'
  BY <1>1, ReserveGood
<1>2. CASE Record(c)
  BY <1>2, RecordGood
<1>3. CASE MarkUnavailable(c)
  <2>1. /\ call[c].pc # "idle" /\ Go(c, "over") /\ CallMove /\ UNCHANGED <<usage, served>>
        /\ IF hold[c].state = "held" THEN SetHold(c, "reconciliation_required") ELSE UNCHANGED hold
    BY <1>3 DEF MarkUnavailable, CallMove, books, world
  <2> QED BY <2>1, EndGood
<1>4. CASE Release(c)
  <2>1. /\ call[c].pc # "idle" /\ Go(c, "over") /\ CallMove /\ UNCHANGED <<usage, served>>
        /\ IF hold[c].state = "held" THEN SetHold(c, "released") ELSE UNCHANGED hold
    BY <1>4 DEF Release, CallMove, books, world
  <2> QED BY <2>1, EndGood
<1>5. ASSUME NEW pc \in {"reserved", "sent", "report", "unknown", "release", "over"},
             call[c].pc # "idle", Go(c, pc), CallMove, UNCHANGED <<hold, usage, served>>
      PROVE  Inv'
  <2>1. /\ call' \in [Calls -> CallRow]
        /\ \A d \in Calls : call'[d].pc = IF d = c THEN pc ELSE call[d].pc
    BY <1>5, CallGoes
  <2>2. \A d \in Calls : call'[d].pc = "idle" => call[d].pc = "idle"
    BY <1>5, <2>1
  <2>3. served' \in [Calls -> BOOLEAN]
    BY <1>5, Types DEF Inv
  <2> QED BY <1>5, <2>1, <2>2, <2>3, CallTurns
<1>6. CASE Dispatch(c)
  <2>1. call[c].pc # "idle" /\ Go(c, "sent") /\ CallMove /\ UNCHANGED <<hold, usage, served>>
    BY <1>6 DEF Dispatch, CallMove
  <2> QED BY <1>5, <2>1
<1>7. CASE CallOff(c) \/ Refuse(c) \/ CancelSent(c)
  <2>1. call[c].pc # "idle" /\ Go(c, "release") /\ CallMove /\ UNCHANGED <<hold, usage, served>>
    BY <1>7 DEF CallOff, Refuse, CancelSent, CallMove
  <2> QED BY <1>5, <2>1
<1>8. CASE LoseAnswer(c)
  <2>1. call[c].pc # "idle" /\ Go(c, "unknown") /\ CallMove /\ UNCHANGED <<hold, usage, served>>
    BY <1>8 DEF LoseAnswer, CallMove
  <2> QED BY <1>5, <2>1
<1>9. CASE Abandon(c)
  <2>1. call[c].pc # "idle" /\ Go(c, "over") /\ CallMove /\ UNCHANGED <<hold, usage, served>>
    BY <1>9 DEF Abandon, CallMove
  <2> QED BY <1>5, <2>1
<1>10. CASE Serve(c)
  <2>1. CallMove /\ UNCHANGED <<hold, usage, call>>
    BY <1>10 DEF Serve, CallMove
  <2>2. call \in [Calls -> CallRow] /\ served' \in [Calls -> BOOLEAN]
    BY <1>10, Types DEF Inv, Serve
  <2> QED BY <2>1, <2>2, CallTurns
<1>11. ASSUME NEW cost \in Costs, Answer(c, cost) PROVE Inv'
  <2>1. CallMove /\ UNCHANGED <<hold, usage, served>> /\ call' = [call EXCEPT ![c] = [pc |-> "report", cost |-> cost]]
    BY <1>11 DEF Answer, CallMove
  <2>2. call \in [Calls -> CallRow] /\ served' \in [Calls -> BOOLEAN]
    BY <2>1, Types DEF Inv
  <2>3. [pc |-> "report", cost |-> cost] \in CallRow
    BY DEF CallRow
  <2>4. call' \in [Calls -> CallRow] /\ \A d \in Calls : call'[d].pc = "idle" => call[d].pc = "idle"
    BY <2>1, <2>2, <2>3
  <2> QED BY <2>1, <2>2, <2>4, CallTurns
<1> QED BY <1>1, <1>2, <1>3, <1>4, <1>6, <1>7, <1>8, <1>9, <1>10, <1>11 DEF CallStep

-----------------------------------------------------------------------------
(* Settlement.                                                             *)

\* What a task does concerns its own wallet only.
LEMMA OthersKept ==
  ASSUME Inv, TypeOK', NEW k \in Workers, TaskOK(k)',
         \A j \in Workers \ {k} : task'[j] = task[j],
         \A v \in Users : wallet[v].lock \notin {Nobody, k} =>
           wallet'[v] = wallet[v] /\ RiskOf(hold', v) <= RiskOf(hold, v),
         \A d \in Calls : hold[d].state = "hold_deficit" => hold'[d] = hold[d],
         \A d \in Recorded : wallet[hold[d].user].lock \notin {Nobody, k} =>
           hold'[d] = hold[d] /\ usage'[d] = usage[d]
  PROVE  TasksOK'
<1> SUFFICES ASSUME NEW j \in Workers, j # k PROVE TaskOK(j)'
  BY DEF TasksOK
<1>1. TypeOK /\ TaskOK(j) /\ task'[j] = task[j]
  BY DEF Inv, TasksOK
<1>2. ASSUME task[j].pc \in {"usage", "window"}
      PROVE  task[j].user \in Users /\ wallet[task[j].user].lock \notin {Nobody, k}
  BY <1>1, <1>2, CreditAssumption DEF TaskOK, HasWallet
<1>3. ASSUME task[j].pc = "usage"
      PROVE  hold'[task[j].item] = hold[task[j].item] /\ usage'[task[j].item] = usage[task[j].item]
  <2>1. task[j].item \in Recorded /\ hold[task[j].item].user = task[j].user
    BY <1>1, <1>3 DEF TaskOK, SettlesUsage
  <2> QED BY <1>2, <1>3, <2>1
<1> QED BY <1>1, <1>2, <1>3, TaskKept

\* A step that only takes or gives back a lock.
LEMMA BooksKept ==
  ASSUME Inv, UNCHANGED <<hold, usage, call, debits, deposits>>,
         \A v \in Users : wallet'[v].balance = wallet[v].balance
  PROVE  CallsOK' /\ PaidOnce' /\ BalanceIsLedger' /\ HoldsAreCovered'
<1>1. \A u : AtRisk(u)' = AtRisk(u) /\ Paid(u)' = Paid(u)
  BY AsSums
<1>2. CallsOK'
  BY DEF Inv, CallsOK, CallOK
<1>3. PaidOnce'
  BY DEF Inv, PaidOnce
<1>4. BalanceIsLedger' /\ HoldsAreCovered'
  BY <1>1 DEF Inv, BalanceIsLedger, HoldsAreCovered
<1> QED BY <1>2, <1>3, <1>4

LEMMA LocksTurn ==
  ASSUME Inv, UNCHANGED <<hold, usage, call, served, debits, deposits>>, NEW k \in Workers,
         wallet' \in [Users -> WalletRow], task' \in [Workers -> TaskRow],
         UNCHANGED <<owner, offer, moves>>, faults' \in 0..MaxFaults,
         \A v \in Users : wallet'[v].balance = wallet[v].balance,
         \A v \in Users : wallet[v].lock \notin {Nobody, k} => wallet'[v] = wallet[v],
         \A j \in Workers \ {k} : task'[j] = task[j],
         TaskOK(k)'
  PROVE  Inv'
<1>1. TypeOK'
  <2>1. TypeOK
    BY DEF Inv
  <2> QED BY <2>1, Types DEF TypeOK, WalletRow, TaskRow
<1>2. \A v : RiskOf(hold', v) <= RiskOf(hold, v)
  <2>1. \A v : RiskOf(hold, v) \in Nat
    BY Summed, RiskIs
  <2> QED BY <2>1
<1>3. TasksOK'
  BY <1>1, <1>2, OthersKept
<1> QED BY <1>1, <1>3, BooksKept DEF Inv

\* A task that goes back to idle, or that has no wallet.
LEMMA Resting ==
  ASSUME NEW k \in Workers, task'[k].pc \in {"idle", "usages"}
  PROVE  TaskOK(k)'
BY DEF TaskOK, HasWallet, SettlesUsage, SettlesWindow

\* A task gives back the lock it has, if it has one.
LEMMA GivesBack ==
  ASSUME Inv, NEW k \in Workers,
         \/ wallet' = wallet
         \/ task[k].pc \in {"usage", "window"} /\ wallet' = [wallet EXCEPT ![task[k].user].lock = Nobody]
  PROVE  /\ wallet' \in [Users -> WalletRow]
         /\ \A v \in Users : wallet'[v].balance = wallet[v].balance
         /\ \A v \in Users : wallet[v].lock \notin {Nobody, k} => wallet'[v] = wallet[v]
<1>1. wallet \in [Users -> WalletRow]
  BY Types DEF Inv
<1>2. CASE wallet' = wallet
  BY <1>1, <1>2
<1>3. CASE /\ task[k].pc \in {"usage", "window"}
           /\ wallet' = [wallet EXCEPT ![task[k].user].lock = Nobody]
  <2> DEFINE u == task[k].user
  <2>1. u \in Users /\ wallet[u].lock = k
    BY <1>3 DEF Inv, TasksOK, TaskOK, HasWallet
  <2>2. wallet' = [wallet EXCEPT ![u].lock = Nobody]
    BY <1>3
  <2> HIDE DEF u
  <2> QED BY <1>1, <2>1, <2>2 DEF WalletRow
<1> QED BY <1>2, <1>3

LEMMA RestsGood ==
  ASSUME Inv, NEW k \in Workers, UNCHANGED <<hold, usage, call, served, debits, deposits>>,
         UNCHANGED <<owner, offer, moves>>, faults' \in 0..MaxFaults,
         \/ wallet' = wallet
         \/ task[k].pc \in {"usage", "window"} /\ wallet' = [wallet EXCEPT ![task[k].user].lock = Nobody],
         NEW t \in TaskRow, t.pc \in {"idle", "usages"}, task' = [task EXCEPT ![k] = t]
  PROVE  Inv'
<1>1. task \in [Workers -> TaskRow]
  BY Types DEF Inv
<1>2. task' \in [Workers -> TaskRow] /\ task'[k] = t /\ \A j \in Workers \ {k} : task'[j] = task[j]
  BY <1>1
<1>3. TaskOK(k)'
  BY <1>2, Resting
<1>4. /\ wallet' \in [Users -> WalletRow]
      /\ \A v \in Users : wallet'[v].balance = wallet[v].balance
      /\ \A v \in Users : wallet[v].lock \notin {Nobody, k} => wallet'[v] = wallet[v]
  BY GivesBack
<1> QED BY <1>2, <1>3, <1>4, LocksTurn

LEMMA IdleRow == Idle \in TaskRow /\ Idle.pc = "idle"
BY DEF Idle, TaskRow

LEMMA ListUsagesGood ==
  ASSUME Inv, NEW k \in Workers, ListUsages(k)
  PROVE  Inv'
<1> DEFINE t == [Idle EXCEPT !.pc = "usages", !.todo = Recorded]
<1>1. /\ task' = [task EXCEPT ![k] = t]
      /\ UNCHANGED <<wallet, debits, deposits, hold, usage, call, served, owner, offer, moves, faults>>
  BY DEF ListUsages, books, world
<1>2. t \in TaskRow /\ t.pc = "usages"
  <2> DEFINE r == Idle  l == Recorded
  <2>1. r \in TaskRow /\ l \in SUBSET Calls
    BY IdleRow DEF Recorded
  <2> HIDE DEF r, l
  <2>2. [r EXCEPT !.pc = "usages", !.todo = l] \in TaskRow
    BY <2>1 DEF TaskRow
  <2>3. [r EXCEPT !.pc = "usages", !.todo = l].pc = "usages"
    BY <2>1 DEF TaskRow
  <2> QED BY <2>2, <2>3 DEF r, l
<1>3. faults \in 0..MaxFaults
  BY Types DEF Inv
<1> HIDE DEF t
<1> QED BY <1>1, <1>2, <1>3, RestsGood

LEMMA EndUsagesGood ==
  ASSUME Inv, NEW k \in Workers, EndUsages(k)
  PROVE  Inv'
<1>1. /\ task' = [task EXCEPT ![k] = Idle]
      /\ UNCHANGED <<wallet, debits, deposits, hold, usage, call, served, owner, offer, moves, faults>>
  BY DEF EndUsages, books, world
<1>2. faults \in 0..MaxFaults
  BY Types DEF Inv
<1> QED BY <1>1, <1>2, IdleRow, RestsGood

LEMMA WorkerStopsGood ==
  ASSUME Inv, NEW k \in Workers, WorkerStops(k)
  PROVE  Inv'
<1>1. /\ task' = [task EXCEPT ![k] = Idle] /\ faults < MaxFaults /\ faults' = faults + 1
      /\ UNCHANGED <<hold, usage, call, served, debits, deposits, owner, offer, moves>>
      /\ \/ wallet' = wallet
         \/ task[k].pc \in {"usage", "window"} /\ wallet' = [wallet EXCEPT ![task[k].user].lock = Nobody]
  BY DEF WorkerStops, Unlock, books
<1>2. faults' \in 0..MaxFaults
  <2>1. faults \in 0..MaxFaults
    BY Types DEF Inv
  <2> QED BY <1>1, <2>1, CreditAssumption
<1> QED BY <1>1, <1>2, IdleRow, RestsGood

LEMMA ReadOwnerGood ==
  ASSUME Inv, NEW k \in Workers, NEW w \in Windows, ReadOwner(k, w)
  PROVE  Inv'
<1> DEFINE t == [Idle EXCEPT !.pc = "owner", !.item = w, !.user = owner]
<1>1. /\ task' = [task EXCEPT ![k] = t]
      /\ UNCHANGED <<wallet, debits, deposits, hold, usage, call, served, owner, offer, moves, faults>>
  BY DEF ReadOwner, books, world
<1>2. /\ task \in [Workers -> TaskRow] /\ owner \in Users /\ faults \in 0..MaxFaults
      /\ wallet \in [Users -> WalletRow]
  BY Types DEF Inv
<1>3. t \in TaskRow /\ t.pc = "owner" /\ t.item = w /\ t.user = owner
  <2> DEFINE r == Idle  u == owner
  <2>1. r \in TaskRow /\ u \in Users
    BY <1>2, IdleRow
  <2>2. t = [r EXCEPT !.pc = "owner", !.item = w, !.user = u]
    OBVIOUS
  <2> HIDE DEF r, u, t
  <2>3. t \in TaskRow
    BY <2>1, <2>2 DEF TaskRow
  <2>4. t.pc = "owner" /\ t.item = w /\ t.user = u
    BY <2>1, <2>2 DEF TaskRow
  <2> QED BY <2>3, <2>4 DEF u
<1> HIDE DEF t
<1>4. task' \in [Workers -> TaskRow] /\ task'[k] = t /\ \A j \in Workers \ {k} : task'[j] = task[j]
  BY <1>1, <1>2, <1>3
<1>5. TaskOK(k)'
  BY <1>1, <1>2, <1>3, <1>4 DEF TaskOK, HasWallet, SettlesUsage, SettlesWindow
<1> QED BY <1>1, <1>2, <1>4, <1>5, LocksTurn

\* Taking the lock of a wallet that is free.
LEMMA TakesLock ==
  ASSUME Inv, NEW k \in Workers, NEW u \in Users, Free(u),
         wallet' = [wallet EXCEPT ![u].lock = k]
  PROVE  /\ wallet' \in [Users -> WalletRow]
         /\ \A v \in Users : wallet'[v].balance = wallet[v].balance
         /\ \A v \in Users : wallet[v].lock \notin {Nobody, k} => wallet'[v] = wallet[v]
         /\ wallet'[u].lock = k
<1>1. wallet \in [Users -> WalletRow]
  BY Types DEF Inv
<1> QED BY <1>1 DEF Free, WalletRow

\* What is added up before a usage is settled leaves its cost, unless some hold of
\* the user has cost more than its risk.
LEMMA EnoughIsLeft ==
  ASSUME Inv, NEW c \in Recorded, NEW u \in Users, hold[c].user = u,
         Reserved(u, {c}) > 0,
         \A d \in Calls : ~(hold[d].state = "hold_deficit" /\ hold[d].user = u)
  PROVE  Reserved(u, {c}) <= wallet[u].balance - hold[c].cost
<1>1. hold \in [Calls -> Hold] /\ wallet[u].balance \in Int
  BY Types DEF Inv, WalletRow
<1>2. c \in Calls /\ hold[c].state = "usage_recorded" /\ c \in Open(hold, u)
  BY DEF Recorded, Open, Reserving
<1>3. ASSUME NEW d \in Open(hold, u) PROVE Claimed(hold[d]) <= Risk
  <2>1. d \in Calls /\ hold[d].user = u /\ hold[d].state \in Reserving
    BY DEF Open
  <2>2. hold[d].state # "hold_deficit" /\ (hold[d].state = "usage_recorded" => hold[d].cost <= Risk)
    BY <2>1 DEF Inv, CallsOK, CallOK
  <2> QED BY <2>1, <2>2, CreditAssumption DEF Claimed
<1>4. RiskOf(hold, u) = ClaimOf(hold, {c}, u) + Claimed(hold[c])
  BY <1>1, <1>2, <1>3, ClaimIsExact
<1>5. Claimed(hold[c]) = hold[c].cost /\ hold[c].cost \in Nat
  BY <1>1, <1>2 DEF Claimed, Hold
<1>6. ClaimOf(hold, {c}, u) \in Nat /\ ClaimOf(hold, {c}, u) = Reserved(u, {c})
  BY <1>1, <1>2, ClaimIsMore, AsSums
<1>7. AtRisk(u) = RiskOf(hold, u)
  BY AsSums
<1>8. AtRisk(u) = Reserved(u, {c}) + hold[c].cost
  BY <1>4, <1>5, <1>6, <1>7
<1>9. AtRisk(u) > 0 => AtRisk(u) <= wallet[u].balance
  BY DEF Inv, HoldsAreCovered
<1> DEFINE a == AtRisk(u)  m == Reserved(u, {c})  n == hold[c].cost  b == wallet[u].balance
<1>10. a = m + n /\ m \in Nat /\ n \in Nat /\ b \in Int /\ m > 0 /\ (a > 0 => a <= b)
  BY <1>1, <1>5, <1>6, <1>8, <1>9
<1> HIDE DEF a, m, n, b
<1>11. m <= b - n
  BY <1>10
<1> QED BY <1>11 DEF m, n, b

LEMMA LockForUsageGood ==
  ASSUME Inv, NEW k \in Workers, NEW c \in Calls, LockForUsage(k, c)
  PROVE  Inv'
<1>0. PICK u : u = hold[c].user
  OBVIOUS
<1>1. /\ task[k].pc = "usages" /\ Free(u)
      /\ UNCHANGED <<debits, deposits, hold, usage, call, served, owner, offer, moves, faults>>
  BY <1>0 DEF LockForUsage, world
<1>2. task \in [Workers -> TaskRow] /\ faults \in 0..MaxFaults /\ hold \in [Calls -> Hold]
      /\ wallet \in [Users -> WalletRow]
  BY Types DEF Inv
<1>3. CASE c \notin Recorded
  <2> DEFINE t == [task[k] EXCEPT !.todo = @ \ {c}]
  <2>1. wallet' = wallet /\ task' = [task EXCEPT ![k] = t]
    BY <1>2, <1>3 DEF LockForUsage
  <2>2. t \in TaskRow /\ t.pc = "usages"
    <3> DEFINE r == task[k]
    <3>1. r \in TaskRow /\ r.pc = "usages"
      BY <1>1, <1>2
    <3> HIDE DEF r
    <3>2. [r EXCEPT !.todo = @ \ {c}] \in TaskRow /\ [r EXCEPT !.todo = @ \ {c}].pc = "usages"
      BY <3>1 DEF TaskRow
    <3> QED BY <3>2 DEF r
  <2> HIDE DEF t
  <2> QED BY <1>1, <1>2, <2>1, <2>2, RestsGood
<1>4. CASE c \in Recorded
  <2> DEFINE b == wallet[u].balance
             m == Reserved(u, {c})
             t == [task[k] EXCEPT !.pc = "usage", !.item = c, !.user = u, !.todo = @ \ {c},
                                  !.seen = b, !.reserved = m]
  <2>1. wallet' = [wallet EXCEPT ![u].lock = k] /\ task' = [task EXCEPT ![k] = t]
    BY <1>0, <1>2, <1>4 DEF LockForUsage
  <2>2. u \in Users /\ b \in Int /\ c \in Open(hold, u)
    <3>1. u \in Users
      BY <1>0, <1>4, CreditAssumption DEF Inv, CallsOK, CallOK, Recorded
    <3> QED BY <1>0, <1>2, <1>4, <3>1 DEF WalletRow, Recorded, Open, Reserving
  <2>3. m \in Nat /\ AtRisk(u) - AtMost(hold[c]) <= m
    BY <1>2, <2>2, ClaimIsMore, AsSums
  <2>4. t \in TaskRow /\ t.pc = "usage" /\ t.item = c /\ t.user = u /\ t.seen = b /\ t.reserved = m
    <3> DEFINE r == task[k]  v == u  n == m  a == b
    <3>1. r \in TaskRow /\ v \in Users /\ n \in Nat /\ a \in Int
      BY <1>2, <2>2, <2>3
    <3> DEFINE q == [r EXCEPT !.pc = "usage", !.item = c, !.user = v, !.todo = @ \ {c},
                              !.seen = a, !.reserved = n]
    <3>2. t = q
      OBVIOUS
    <3> HIDE DEF r, v, n, a, t, b, m
    <3>3. q \in TaskRow
      BY <3>1 DEF TaskRow
    <3>4. q.pc = "usage" /\ q.item = c /\ q.user = v /\ q.seen = a /\ q.reserved = n
      BY <3>1 DEF TaskRow
    <3> HIDE DEF q
    <3> QED BY <3>2, <3>3, <3>4 DEF v, n, a
  <2> HIDE DEF t
  <2>5. task' \in [Workers -> TaskRow] /\ task'[k] = t /\ \A j \in Workers \ {k} : task'[j] = task[j]
    BY <1>2, <2>1, <2>4
  <2>6. /\ wallet' \in [Users -> WalletRow]
        /\ \A v \in Users : wallet'[v].balance = wallet[v].balance
        /\ \A v \in Users : wallet[v].lock \notin {Nobody, k} => wallet'[v] = wallet[v]
        /\ wallet'[u].lock = k
    BY <1>1, <2>1, <2>2, TakesLock
  <2>7. HasWallet(k)'
    BY <2>2, <2>4, <2>5, <2>6 DEF HasWallet
  <2>8. SettlesWindow(k)'
    BY <2>4, <2>5 DEF SettlesWindow
  <2>9. SettlesUsage(k)'
    <3>1. Recorded' = Recorded /\ AtRisk(u)' = AtRisk(u)
      BY <1>1, AsSums DEF Recorded
    <3>2. ASSUME TooLittle(k, hold[c].cost)'
          PROVE  \E d \in Calls : hold[d].state = "hold_deficit" /\ hold[d].user = u
      <4>1. m > 0 /\ b - hold[c].cost < m
        BY <1>1, <2>4, <2>5, <3>2 DEF TooLittle
      <4>2. hold[c].cost \in Nat
        BY <1>2 DEF Hold
      <4>3. ~(m <= b - hold[c].cost)
        <5> DEFINE n == hold[c].cost
        <5>1. n \in Nat /\ m \in Nat /\ b \in Int /\ b - n < m
          BY <2>2, <2>3, <4>1, <4>2
        <5> HIDE DEF n, m, b
        <5>2. ~(m <= b - n)
          BY <5>1
        <5> QED BY <5>2 DEF n
      <4> QED BY <1>0, <1>4, <2>2, <4>1, <4>3, EnoughIsLeft
    <3>3. /\ task'[k].item = c /\ task'[k].user = u /\ task'[k].reserved = m
          /\ hold' = hold
      BY <1>1, <2>4, <2>5
    <3>4. AtMost(hold[c])' = AtMost(hold[c])
      BY <1>1 DEF AtMost, Claimed
    <3> HIDE DEF m, b
    <3>5. c \in Recorded' /\ AtRisk(u)' - AtMost(hold[c])' <= m
      BY <1>4, <2>3, <3>1, <3>4
    <3> QED BY <1>0, <3>2, <3>3, <3>5 DEF SettlesUsage
  <2> HIDE DEF m, b
  <2> QED BY <1>1, <1>2, <2>5, <2>6, <2>7, <2>8, <2>9, LocksTurn DEF TaskOK
<1> QED BY <1>3, <1>4

LEMMA LockForWindowGood ==
  ASSUME Inv, NEW k \in Workers, LockForWindow(k)
  PROVE  Inv'
<1>0. PICK u : u = task[k].user
  OBVIOUS
<1>1. /\ task[k].pc = "owner" /\ Free(u)
      /\ UNCHANGED <<debits, deposits, hold, usage, call, served, owner, offer, moves, faults>>
  BY <1>0 DEF LockForWindow, world
<1>2. task \in [Workers -> TaskRow] /\ faults \in 0..MaxFaults /\ hold \in [Calls -> Hold]
      /\ wallet \in [Users -> WalletRow]
  BY Types DEF Inv
<1>3. u \in Users /\ task[k].item \in Windows
  BY <1>0, <1>1 DEF Inv, TasksOK, TaskOK, SettlesWindow
<1>4. CASE debits[task[k].item] # <<>>
  <2>1. wallet' = wallet /\ task' = [task EXCEPT ![k] = Idle]
    BY <1>4 DEF LockForWindow
  <2> QED BY <1>1, <1>2, <2>1, IdleRow, RestsGood
<1>5. CASE debits[task[k].item] = <<>>
  <2> DEFINE b == wallet[u].balance
             m == Reserved(u, {})
             t == [task[k] EXCEPT !.pc = "window", !.seen = b, !.reserved = m]
  <2>1. wallet' = [wallet EXCEPT ![u].lock = k] /\ task' = [task EXCEPT ![k] = t]
    BY <1>0, <1>2, <1>5 DEF LockForWindow
  <2>2. b \in Int
    BY <1>2, <1>3 DEF WalletRow
  <2>3. m \in Nat /\ AtRisk(u) <= m
    BY <1>2, ClaimIsMore, AsSums
  <2>4. /\ t \in TaskRow /\ t.pc = "window" /\ t.user = u /\ t.seen = b /\ t.reserved = m
        /\ t.item \in Windows
    <3> DEFINE r == task[k]  n == m  a == b
    <3>1. r \in TaskRow /\ n \in Nat /\ a \in Int
      BY <1>2, <2>2, <2>3
    <3>5. r.item \in Windows /\ r.user = u
      BY <1>0, <1>3
    <3> DEFINE q == [r EXCEPT !.pc = "window", !.seen = a, !.reserved = n]
    <3>2. t = q
      OBVIOUS
    <3> HIDE DEF r, n, a, t, b, m
    <3>3. q \in TaskRow
      BY <3>1 DEF TaskRow
    <3>4. q.pc = "window" /\ q.item = r.item /\ q.user = r.user /\ q.seen = a /\ q.reserved = n
      BY <3>1 DEF TaskRow
    <3> HIDE DEF q
    <3>6. n = m /\ a = b
      BY DEF n, a
    <3> QED BY <3>2, <3>3, <3>4, <3>5, <3>6
  <2> HIDE DEF t
  <2>5. task' \in [Workers -> TaskRow] /\ task'[k] = t /\ \A j \in Workers \ {k} : task'[j] = task[j]
    BY <1>2, <2>1, <2>4
  <2>6. /\ wallet' \in [Users -> WalletRow]
        /\ \A v \in Users : wallet'[v].balance = wallet[v].balance
        /\ \A v \in Users : wallet[v].lock \notin {Nobody, k} => wallet'[v] = wallet[v]
        /\ wallet'[u].lock = k
    BY <1>1, <1>3, <2>1, TakesLock
  <2>7. HasWallet(k)'
    BY <1>3, <2>4, <2>5, <2>6 DEF HasWallet
  <2>8. SettlesUsage(k)'
    BY <2>4, <2>5 DEF SettlesUsage
  <2>9. SettlesWindow(k)'
    <3>1. AtRisk(u)' = AtRisk(u)
      BY <1>1, AsSums
    <3>2. task'[k].user = u /\ task'[k].reserved = m /\ task'[k].item \in Windows
      BY <2>4, <2>5
    <3> HIDE DEF m
    <3> QED BY <1>3, <2>3, <3>1, <3>2 DEF SettlesWindow
  <2> HIDE DEF m, b
  <2> QED BY <1>1, <1>2, <2>5, <2>6, <2>7, <2>8, <2>9, LocksTurn DEF TaskOK
<1> QED BY <1>4, <1>5

\* A payment: the task has added up no less than what the other holds may cost, and
\* what it writes is the balance there is.
LEMMA PaysGood ==
  ASSUME Inv, NEW k \in Workers, task[k].pc \in {"usage", "window"},
         NEW u \in Users, u = task[k].user, NEW x \in Items, debits[x] = <<>>,
         Pay(u, x, task[k].seen - CostOf(hold, x)),
         ~TooLittle(k, CostOf(hold, x)),
         hold' \in [Calls -> Hold], \A c \in Calls : hold'[c].cost = hold[c].cost,
         \A v : RiskOf(hold', v) <= RiskOf(hold, v),
         RiskOf(hold', u) <= task[k].reserved
  PROVE  /\ wallet' \in [Users -> WalletRow]
         /\ \A v \in Users : wallet[v].lock \notin {Nobody, k} => wallet'[v] = wallet[v]
         /\ debits' = [debits EXCEPT ![x] = <<u>>] /\ debits' \in [Items -> Seq(Users)]
         /\ BalanceIsLedger' /\ HoldsAreCovered'
<1> DEFINE seen == task[k].seen  reserved == task[k].reserved  cost == CostOf(hold, x)
<1>1. /\ wallet \in [Users -> WalletRow] /\ hold \in [Calls -> Hold]
      /\ debits \in [Items -> Entries] /\ debits \in [Items -> Seq(Users)]
      /\ deposits \in [Users -> Int] /\ reserved \in Nat
  <2>1. task[k] \in TaskRow /\ wallet \in [Users -> WalletRow] /\ deposits \in [Users -> Int]
        /\ debits \in [Items -> Seq(Users)]
    BY Types DEF Inv
  <2>2. reserved \in Nat
    BY <2>1 DEF TaskRow
  <2> QED BY <2>1, <2>2, Summed
<1>2. wallet[u].lock = k /\ seen = wallet[u].balance /\ wallet[u].balance \in Int /\ cost \in Nat
  <2>1. wallet[u].lock = k /\ seen = wallet[u].balance
    BY DEF Inv, TasksOK, TaskOK, HasWallet
  <2> QED BY <1>1, <2>1, CostIsNat DEF WalletRow
<1>3. ~(reserved > 0 /\ seen - cost < reserved)
  BY DEF TooLittle
<1>4. /\ wallet' = [wallet EXCEPT ![u] = [balance |-> seen - cost, lock |-> Nobody]]
      /\ debits' = [debits EXCEPT ![x] = Append(@, u)] /\ deposits' = deposits
  BY DEF Pay
<1>5. debits' = [debits EXCEPT ![x] = <<u>>]
  <2>1. Append(debits[x], u) = <<u>>
    OBVIOUS
  <2> QED BY <1>1, <1>4, <2>1
<1>6. debits' \in [Items -> Seq(Users)]
  BY <1>1, <1>5
<1> HIDE DEF seen, reserved, cost
<1>7. wallet' \in [Users -> WalletRow]
  <2>1. [balance |-> seen - cost, lock |-> Nobody] \in WalletRow
    BY <1>2 DEF WalletRow
  <2> QED BY <1>1, <1>4, <2>1
<1>8. \A v \in Users : wallet[v].lock \notin {Nobody, k} => wallet'[v] = wallet[v]
  BY <1>1, <1>2, <1>4
<1>9. ASSUME NEW v \in Users
      PROVE  wallet'[v].balance = wallet[v].balance - (IF v = u THEN cost ELSE 0)
  <2>1. CASE v = u
    BY <1>1, <1>2, <1>4, <2>1
  <2>2. CASE v # u
    <3>1. wallet'[v].balance = wallet[v].balance /\ wallet[v].balance \in Int
      BY <1>1, <1>4, <2>2 DEF WalletRow
    <3> QED BY <2>2, <3>1
  <2> QED BY <2>1, <2>2
<1>10. BalanceIsLedger'
  <2> SUFFICES ASSUME NEW v \in Users
               PROVE  wallet'[v].balance = Credits + deposits'[v] - Paid(v)'
    BY DEF BalanceIsLedger
  <2>1. Paid(v)' = Paid(v) + (IF v = u THEN cost ELSE 0)
    <3> DEFINE H == hold  G == hold'  D == debits  E == debits'
    <3>1. /\ H \in [Calls -> Hold] /\ G \in [Calls -> Hold] /\ D \in [Items -> Entries]
          /\ SameCosts(H, G)
      BY <1>1 DEF SameCosts
    <3>3. E \in [Items -> Entries] /\ Entered(D, E, x, u)
      BY <1>1, <1>5 DEF Entries, Entered
    <3> HIDE DEF H, G, D, E
    <3>2. /\ v = u => PaidOf(G, E, v) = PaidOf(H, D, v) + CostOf(H, x)
          /\ v # u => PaidOf(G, E, v) = PaidOf(H, D, v)
      BY <3>1, <3>3, PaidGrows
    <3>4. PaidOf(H, D, v) \in Nat
      BY <3>1, PaidIs
    <3>5. Paid(v) = PaidOf(H, D, v) /\ Paid(v)' = PaidOf(G, E, v) /\ CostOf(H, x) = cost
      <4>1. Paid(v) = PaidOf(hold, debits, v) /\ Paid(v)' = PaidOf(hold', debits', v)
        BY AsSums
      <4> QED BY <4>1 DEF H, G, D, E, cost
    <3>6. CASE v = u
      BY <3>2, <3>5, <3>6
    <3>7. CASE v # u
      <4>1. Paid(v)' = Paid(v) /\ Paid(v) \in Nat
        BY <3>2, <3>4, <3>5, <3>7
      <4> QED BY <3>7, <4>1
    <3> QED BY <3>6, <3>7
  <2>2. wallet[v].balance = Credits + deposits[v] - Paid(v)
    BY DEF Inv, BalanceIsLedger
  <2> DEFINE a == wallet[v].balance  d == deposits[v]  p == Paid(v)
             n == IF v = u THEN cost ELSE 0
  <2>3. a \in Int /\ d \in Int /\ p \in Nat /\ n \in Nat /\ a = Credits + d - p
    BY <1>1, <1>2, <2>2, Summed DEF WalletRow
  <2>4. wallet'[v].balance = a - n /\ deposits'[v] = d /\ Paid(v)' = p + n
    BY <1>4, <1>9, <2>1
  <2> HIDE DEF a, d, p, n
  <2>5. a - n = Credits + d - (p + n)
    BY <2>3, CreditAssumption
  <2> QED BY <2>4, <2>5
<1>11. HoldsAreCovered'
  <2> SUFFICES ASSUME NEW v \in Users, AtRisk(v)' > 0 PROVE AtRisk(v)' <= wallet'[v].balance
    BY DEF HoldsAreCovered
  <2>1. /\ AtRisk(v) = RiskOf(hold, v) /\ AtRisk(v)' = RiskOf(hold', v)
        /\ RiskOf(hold, v) \in Nat /\ RiskOf(hold', v) \in Nat
    BY <1>1, AsSums, RiskIs
  <2>2. CASE v = u
    <3> DEFINE m == RiskOf(hold', u)
    <3>1. m \in Nat /\ m > 0 /\ m <= reserved
      BY <2>1, <2>2 DEF reserved
    <3>2. wallet'[u].balance = seen - cost
      BY <1>1, <1>4
    <3> HIDE DEF m
    <3>3. m <= seen - cost
      BY <1>1, <1>2, <1>3, <3>1
    <3> QED BY <2>1, <2>2, <3>2, <3>3 DEF m
  <2>3. CASE v # u
    <3>1. wallet'[v].balance = wallet[v].balance /\ wallet[v].balance \in Int
      BY <1>1, <1>4, <2>3 DEF WalletRow
    <3>2. AtRisk(v)' <= AtRisk(v)
      BY <2>1
    <3>3. AtRisk(v) > 0 => AtRisk(v) <= wallet[v].balance
      BY DEF Inv, HoldsAreCovered
    <3> QED BY <2>1, <3>1, <3>2, <3>3
  <2> QED BY <2>2, <2>3
<1> QED BY <1>5, <1>6, <1>7, <1>8, <1>10, <1>11

LEMMA PostWindowGood ==
  ASSUME Inv, NEW k \in Workers, PostWindow(k)
  PROVE  Inv'
<1>0. PICK u : u = task[k].user
  OBVIOUS
<1>1. PICK w : w = task[k].item
  OBVIOUS
<1>2. /\ task[k].pc = "window" /\ task' = [task EXCEPT ![k] = Idle]
      /\ UNCHANGED <<hold, usage, call, served, owner, offer, moves, faults>>
  BY DEF PostWindow, world
<1>3. /\ TypeOK /\ task \in [Workers -> TaskRow] /\ hold \in [Calls -> Hold] /\ faults \in 0..MaxFaults
  BY Types DEF Inv
<1>4. /\ w \in Windows /\ w \in Items /\ w \notin Calls /\ u \in Users
      /\ RiskOf(hold, u) <= task[k].reserved
  <2>1. w \in Windows /\ u \in Users /\ AtRisk(u) <= task[k].reserved
    BY <1>0, <1>1, <1>2 DEF Inv, TasksOK, TaskOK, SettlesWindow
  <2> QED BY <2>1, CreditAssumption, AsSums DEF Items
<1>5. CASE TooLittle(k, Fee) \/ debits[w] # <<>>
  <2>1. Unlock(u)
    BY <1>0, <1>1, <1>5 DEF PostWindow
  <2>2. wallet' = [wallet EXCEPT ![task[k].user].lock = Nobody] /\ UNCHANGED <<debits, deposits>>
    BY <1>0, <2>1 DEF Unlock
  <2> QED BY <1>2, <1>3, <2>2, IdleRow, RestsGood
<1>6. CASE ~(TooLittle(k, Fee) \/ debits[w] # <<>>)
  <2>1. Pay(u, w, task[k].seen - CostOf(hold, w)) /\ ~TooLittle(k, CostOf(hold, w)) /\ debits[w] = <<>>
    <3>1. CostOf(hold, w) = Fee
      BY <1>4 DEF CostOf
    <3> QED BY <1>0, <1>1, <1>6, <3>1 DEF PostWindow
  <2>2. \A v : RiskOf(hold', v) <= RiskOf(hold, v)
    <3>1. \A v : RiskOf(hold, v) \in Nat
      BY <1>3, RiskIs
    <3> QED BY <1>2, <3>1
  <2>3. /\ hold' \in [Calls -> Hold] /\ \A c \in Calls : hold'[c].cost = hold[c].cost
        /\ RiskOf(hold', u) <= task[k].reserved
    BY <1>2, <1>3, <1>4
  <2>4. /\ wallet' \in [Users -> WalletRow]
        /\ \A v \in Users : wallet[v].lock \notin {Nobody, k} => wallet'[v] = wallet[v]
        /\ debits' = [debits EXCEPT ![w] = <<u>>] /\ debits' \in [Items -> Seq(Users)]
        /\ BalanceIsLedger' /\ HoldsAreCovered'
    BY <1>0, <1>2, <1>4, <2>1, <2>2, <2>3, PaysGood
  <2>5. task' \in [Workers -> TaskRow] /\ task'[k] = Idle /\ \A j \in Workers \ {k} : task'[j] = task[j]
    BY <1>2, <1>3, IdleRow
  <2>6. TypeOK'
    <3>1. deposits' = deposits
      BY <2>1 DEF Pay
    <3> QED BY <1>2, <1>3, <2>4, <2>5, <3>1, Types DEF TypeOK, WalletRow, TaskRow, Items
  <2>7. TasksOK'
    <3>1. TaskOK(k)'
      BY <2>5, IdleRow, Resting
    <3>2. \A d \in Calls : hold'[d] = hold[d] /\ usage'[d] = usage[d]
      BY <1>2
    <3>3. Recorded \subseteq Calls
      BY DEF Recorded
    <3> QED BY <2>2, <2>4, <2>5, <2>6, <3>1, <3>2, <3>3, OthersKept
  <2>8. CallsOK'
    BY <1>2 DEF Inv, CallsOK, CallOK
  <2>9. PaidOnce'
    <3>1. PaidOnce /\ debits \in [Items -> Seq(Users)]
      BY <1>3, Types DEF Inv
    <3>2. ASSUME NEW c \in Calls PROVE debits'[c] = debits[c]
      BY <1>4, <2>4, <3>1 DEF Items
    <3>3. ASSUME NEW y \in Windows PROVE Len(debits'[y]) <= 1
      <4>1. CASE y = w
        BY <1>4, <2>4, <3>1, <4>1
      <4>2. CASE y # w
        BY <2>4, <3>1, <4>2 DEF PaidOnce, Items
      <4> QED BY <4>1, <4>2
    <3> QED BY <1>2, <3>1, <3>2, <3>3 DEF PaidOnce
  <2> QED BY <2>4, <2>6, <2>7, <2>8, <2>9 DEF Inv
<1> QED BY <1>5, <1>6

LEMMA PostUsageGood ==
  ASSUME Inv, NEW k \in Workers, PostUsage(k)
  PROVE  Inv'
<1>0. PICK u : u = task[k].user
  OBVIOUS
<1>1. PICK c : c = task[k].item
  OBVIOUS
<1> DEFINE t == [Idle EXCEPT !.pc = "usages", !.todo = task[k].todo]
<1>2. /\ task[k].pc = "usage" /\ task' = [task EXCEPT ![k] = t]
      /\ UNCHANGED <<call, served, owner, offer, moves, faults>>
  BY DEF PostUsage, world
<1>3. /\ TypeOK /\ task \in [Workers -> TaskRow] /\ hold \in [Calls -> Hold] /\ faults \in 0..MaxFaults
      /\ usage \in [Calls -> {"absent", "pending", "reconciliation_required", "settled"}]
      /\ CallsOK /\ PaidOnce /\ debits \in [Items -> Seq(Users)]
  BY Types DEF Inv
<1>4. t \in TaskRow /\ t.pc = "usages"
  <2> DEFINE r == Idle  l == task[k].todo
  <2>1. l \in SUBSET Calls
    BY <1>3 DEF TaskRow
  <2>2. r \in TaskRow
    BY IdleRow
  <2> HIDE DEF r, l
  <2>3. [r EXCEPT !.pc = "usages", !.todo = l] \in TaskRow
    BY <2>1, <2>2 DEF TaskRow
  <2>4. [r EXCEPT !.pc = "usages", !.todo = l].pc = "usages"
    BY <2>2 DEF TaskRow
  <2> QED BY <2>3, <2>4 DEF r, l
<1> HIDE DEF t
<1>5. /\ c \in Recorded /\ c \in Calls /\ c \in Items /\ u \in Users /\ hold[c].user = u
      /\ usage[c] = "pending" /\ hold[c].state = "usage_recorded" /\ wallet[u].lock = k
      /\ RiskOf(hold, u) - AtMost(hold[c]) <= task[k].reserved
  <2>1. /\ c \in Recorded /\ u \in Users /\ hold[c].user = u /\ wallet[u].lock = k
        /\ AtRisk(u) - AtMost(hold[c]) <= task[k].reserved
    BY <1>0, <1>1, <1>2 DEF Inv, TasksOK, TaskOK, HasWallet, SettlesUsage
  <2> QED BY <2>1, AsSums DEF Items, Recorded
<1>6. CASE TooLittle(k, hold[c].cost)
  <2>1. /\ wallet' = [wallet EXCEPT ![task[k].user].lock = Nobody]
        /\ UNCHANGED <<hold, usage, debits, deposits>>
    BY <1>1, <1>6 DEF PostUsage, Unlock
  <2> QED BY <1>2, <1>3, <1>4, <2>1, RestsGood
<1>7. CASE ~TooLittle(k, hold[c].cost)
  <2>1. debits[c] = <<>>
    BY <1>3, <1>5 DEF PaidOnce
  <2>2. /\ Pay(u, c, task[k].seen - CostOf(hold, c)) /\ ~TooLittle(k, CostOf(hold, c))
        /\ hold' = [hold EXCEPT ![c].state = "settled"]
        /\ usage' = [usage EXCEPT ![c] = "settled"]
    <3>1. CostOf(hold, c) = hold[c].cost
      BY <1>5 DEF CostOf
    <3> QED BY <1>0, <1>1, <1>7, <2>1, <3>1 DEF PostUsage, SetHold
  <2>3. /\ hold' \in [Calls -> Hold] /\ \A d \in Calls : hold'[d].cost = hold[d].cost
        /\ \A d \in Calls : hold'[d].user = hold[d].user
        /\ \A d \in Calls \ {c} : hold'[d] = hold[d]
        /\ hold'[c].state = "settled"
    BY <1>3, <1>5, <2>2 DEF Hold, HoldStates
  <2>4. ASSUME NEW v
        PROVE  RiskOf(hold', v) = RiskOf(hold, v) - (IF v = u THEN AtMost(hold[c]) ELSE 0)
    <3> DEFINE H == hold  G == hold'
    <3>1. H \in [Calls -> Hold] /\ G \in [Calls -> Hold] /\ \A d \in Calls \ {c} : G[d] = H[d]
      BY <1>3, <2>3
    <3>2. Part(H[c], v) = (IF v = u THEN AtMost(hold[c]) ELSE 0) /\ Part(G[c], v) = 0
      BY <1>5, <2>3 DEF Part, Reserving
    <3>3. AtMost(hold[c]) \in Nat
      BY <1>3, <1>5, HoldNumbers
    <3> HIDE DEF H, G
    <3>4. RiskOf(G, v) = RiskOf(H, v) - Part(H[c], v) + Part(G[c], v)
      BY <1>5, <3>1, RiskMoves
    <3>5. RiskOf(H, v) \in Nat
      BY <3>1, RiskIs
    <3> DEFINE n == IF v = u THEN AtMost(hold[c]) ELSE 0
    <3>6. n \in Nat /\ Part(H[c], v) = n
      BY <3>2, <3>3
    <3> HIDE DEF n
    <3>7. RiskOf(G, v) = RiskOf(H, v) - n
      BY <3>2, <3>4, <3>5, <3>6
    <3> QED BY <3>7 DEF H, G, n
  <2>5. /\ \A v : RiskOf(hold', v) <= RiskOf(hold, v)
        /\ RiskOf(hold', u) <= task[k].reserved
    <3>1. \A v : RiskOf(hold, v) \in Nat
      BY <1>3, RiskIs
    <3>2. AtMost(hold[c]) \in Nat
      BY <1>3, <1>5, HoldNumbers
    <3> QED BY <1>5, <2>4, <3>1, <3>2
  <2>6. /\ wallet' \in [Users -> WalletRow]
        /\ \A v \in Users : wallet[v].lock \notin {Nobody, k} => wallet'[v] = wallet[v]
        /\ debits' = [debits EXCEPT ![c] = <<u>>] /\ debits' \in [Items -> Seq(Users)]
        /\ BalanceIsLedger' /\ HoldsAreCovered'
    BY <1>0, <1>2, <1>5, <2>1, <2>2, <2>3, <2>5, PaysGood
  <2>7. task' \in [Workers -> TaskRow] /\ task'[k] = t /\ \A j \in Workers \ {k} : task'[j] = task[j]
    BY <1>2, <1>3, <1>4
  <2>8. /\ usage' \in [Calls -> {"absent", "pending", "reconciliation_required", "settled"}]
        /\ usage'[c] = "settled" /\ \A d \in Calls \ {c} : usage'[d] = usage[d]
    BY <1>3, <1>5, <2>2
  <2>9. TypeOK'
    <3>1. deposits' = deposits
      BY <2>2 DEF Pay
    <3>2. hold' \in [Calls -> [state : HoldStates, user : Users \cup {NoUser}, cost : Nat]]
      BY <2>3 DEF Hold
    <3> QED BY <1>2, <1>3, <2>6, <2>7, <2>8, <3>1, <3>2 DEF TypeOK, WalletRow, TaskRow, Items
  <2>10. TasksOK'
    <3>1. TaskOK(k)'
      BY <1>4, <2>7, Resting
    <3>2. \A d \in Calls : hold[d].state = "hold_deficit" => hold'[d] = hold[d]
      BY <1>5, <2>3
    <3>3. \A d \in Recorded : wallet[hold[d].user].lock \notin {Nobody, k} =>
            hold'[d] = hold[d] /\ usage'[d] = usage[d]
      BY <1>5, <2>3, <2>8 DEF Recorded
    <3> QED BY <2>5, <2>6, <2>7, <2>9, <3>1, <3>2, <3>3, OthersKept
  <2>11. CallsOK'
    <3> SUFFICES ASSUME NEW d \in Calls PROVE CallOK(d)'
      BY DEF CallsOK
    <3>1. CallOK(d) /\ call' = call
      BY <1>2, <1>3 DEF CallsOK
    <3>2. CASE d = c
      <4>1. call[c].pc # "idle" /\ hold[c].user \in Callers
        BY <1>5, <3>1, <3>2 DEF CallOK, NoHold
      <4> QED BY <2>3, <2>8, <3>1, <3>2, <4>1 DEF CallOK, UsageOf
    <3>3. CASE d # c
      <4>1. hold'[d] = hold[d] /\ usage'[d] = usage[d]
        BY <2>3, <2>8, <3>3
      <4> QED BY <3>1, <4>1 DEF CallOK
    <3> QED BY <3>2, <3>3
  <2>12. PaidOnce'
    <3>1. ASSUME NEW d \in Calls
          PROVE  /\ hold'[d].state = "settled" <=> usage'[d] = "settled"
                 /\ debits'[d] = IF usage'[d] = "settled" THEN <<hold'[d].user>> ELSE <<>>
      <4>1. CASE d = c
        BY <1>3, <1>5, <2>3, <2>6, <2>8, <4>1
      <4>2. CASE d # c
        <5>1. hold'[d] = hold[d] /\ usage'[d] = usage[d] /\ debits'[d] = debits[d]
          BY <1>3, <2>3, <2>6, <2>8, <4>2 DEF Items
        <5> QED BY <1>3, <5>1 DEF PaidOnce
      <4> QED BY <4>1, <4>2
    <3>2. ASSUME NEW w \in Windows PROVE Len(debits'[w]) <= 1
      <4>1. w # c /\ w \in Items
        BY <1>5, CreditAssumption DEF Items
      <4>2. debits'[w] = debits[w]
        BY <1>3, <2>6, <4>1
      <4> QED BY <1>3, <4>2 DEF PaidOnce
    <3> QED BY <3>1, <3>2 DEF PaidOnce
  <2> QED BY <2>6, <2>9, <2>10, <2>11, <2>12 DEF Inv
<1> QED BY <1>6, <1>7

-----------------------------------------------------------------------------
(* Administrators and owners.                                              *)

\* A recharge or an adjustment: the balance and the ledger move alike.
LEMMA MovesGood ==
  ASSUME Inv, NEW u \in Users, Free(u), NEW n \in {-1, 1},
         wallet' = [wallet EXCEPT ![u].balance = @ + n],
         deposits' = [deposits EXCEPT ![u] = @ + n],
         n = -1 => (Reserved(u, {}) > 0 => wallet[u].balance - 1 >= Reserved(u, {})),
         UNCHANGED <<hold, usage, call, served, owner, offer, task, debits, faults>>,
         moves < MaxMoves, moves' = moves + 1
  PROVE  Inv'
<1>1. /\ TypeOK /\ wallet \in [Users -> WalletRow] /\ deposits \in [Users -> Int]
      /\ hold \in [Calls -> Hold] /\ moves \in 0..MaxMoves
  BY Types DEF Inv
<1>2. wallet[u].lock = Nobody /\ wallet[u].balance \in Int
  BY <1>1 DEF Free, WalletRow
<1>3. /\ wallet' \in [Users -> WalletRow]
      /\ \A v \in Users \ {u} : wallet'[v] = wallet[v]
      /\ wallet'[u].balance = wallet[u].balance + n
  BY <1>1, <1>2 DEF WalletRow
<1>4. /\ deposits' \in [Users -> Int] /\ deposits'[u] = deposits[u] + n
      /\ \A v \in Users \ {u} : deposits'[v] = deposits[v]
  BY <1>1
<1>5. \A v : /\ AtRisk(v) \in Nat /\ AtRisk(v)' = AtRisk(v) /\ Paid(v) \in Nat /\ Paid(v)' = Paid(v)
             /\ AtRisk(v) = RiskOf(hold, v)
  BY Summed, AsSums
<1>6. TypeOK'
  <2>1. moves' \in 0..MaxMoves
    BY <1>1, CreditAssumption
  <2> QED BY <1>1, <1>3, <1>4, <2>1 DEF TypeOK, WalletRow
<1>7. TasksOK'
  <2> SUFFICES ASSUME NEW j \in Workers PROVE TaskOK(j)'
    BY DEF TasksOK
  <2>1. TaskOK(j)
    BY DEF Inv, TasksOK
  <2>2. ASSUME task[j].pc \in {"usage", "window"}
        PROVE  wallet'[task[j].user] = wallet[task[j].user]
    BY <1>2, <1>3, <2>1, <2>2, CreditAssumption DEF TaskOK, HasWallet
  <2>3. RiskOf(hold', task[j].user) <= RiskOf(hold, task[j].user)
    <3>1. RiskOf(hold, task[j].user) \in Nat
      BY <1>1, RiskIs
    <3> QED BY <3>1
  <2> QED BY <1>1, <1>6, <2>1, <2>2, <2>3, TaskKept
<1>8. CallsOK' /\ PaidOnce'
  BY DEF Inv, CallsOK, CallOK, PaidOnce
<1>9. BalanceIsLedger'
  <2> SUFFICES ASSUME NEW v \in Users
               PROVE  wallet'[v].balance = Credits + deposits'[v] - Paid(v)'
    BY DEF BalanceIsLedger
  <2>1. wallet[v].balance = Credits + deposits[v] - Paid(v)
    BY DEF Inv, BalanceIsLedger
  <2>2. CASE v # u
    BY <1>3, <1>4, <1>5, <2>1, <2>2
  <2>3. CASE v = u
    <3> DEFINE b == wallet[u].balance  d == deposits[u]  p == Paid(u)
    <3>1. b \in Int /\ d \in Int /\ p \in Nat /\ b = Credits + d - p
      BY <1>1, <1>2, <1>5, <2>1, <2>3
    <3>2. wallet'[u].balance = b + n /\ deposits'[u] = d + n /\ Paid(u)' = p
      BY <1>3, <1>4, <1>5
    <3> HIDE DEF b, d, p
    <3>3. b + n = Credits + (d + n) - p
      BY <3>1, CreditAssumption
    <3> QED BY <2>3, <3>2, <3>3
  <2> QED BY <2>2, <2>3
<1>10. HoldsAreCovered'
  <2> SUFFICES ASSUME NEW v \in Users, AtRisk(v) > 0 PROVE AtRisk(v) <= wallet'[v].balance
    BY <1>5 DEF HoldsAreCovered
  <2>1. AtRisk(v) <= wallet[v].balance
    BY DEF Inv, HoldsAreCovered
  <2>2. CASE v # u
    BY <1>3, <2>1, <2>2
  <2>3. CASE v = u /\ n = 1
    BY <1>2, <1>3, <1>5, <2>1, <2>3
  <2>4. CASE v = u /\ n = -1
    <3>1. AtRisk(u) <= Reserved(u, {}) /\ Reserved(u, {}) \in Nat
      BY <1>1, ClaimIsMore, AsSums
    <3>2. wallet'[u].balance = wallet[u].balance - 1
      BY <1>2, <1>3, <2>4
    <3> DEFINE a == AtRisk(u)  m == Reserved(u, {})  b == wallet[u].balance
    <3>3. a \in Nat /\ m \in Nat /\ b \in Int /\ a > 0 /\ a <= m /\ (m > 0 => b - 1 >= m)
      BY <1>2, <1>5, <2>4, <3>1
    <3> HIDE DEF a, m, b
    <3>4. a <= b - 1
      BY <3>3
    <3> QED BY <2>4, <3>2, <3>4 DEF a, b
  <2> QED BY <2>2, <2>3, <2>4
<1> QED BY <1>6, <1>7, <1>8, <1>9, <1>10 DEF Inv

\* Ownership moves no credits.
LEMMA OwnersGood ==
  ASSUME Inv, UNCHANGED <<books, hold, usage, call, served, task, moves, faults>>,
         owner' \in Users, offer' \in Users \cup {NoUser}
  PROVE  Inv'
<1>1. UNCHANGED <<wallet, debits, deposits>>
  BY DEF books
<1>2. TypeOK'
  BY <1>1 DEF Inv, TypeOK
<1>3. TasksOK'
  <2> SUFFICES ASSUME NEW j \in Workers PROVE TaskOK(j)'
    BY DEF TasksOK
  <2>1. TaskOK(j) /\ TypeOK
    BY DEF Inv, TasksOK
  <2>2. RiskOf(hold, task[j].user) \in Nat
    BY Summed, RiskIs
  <2>3. RiskOf(hold', task[j].user) <= RiskOf(hold, task[j].user)
    BY <2>2
  <2> QED BY <1>1, <1>2, <2>1, <2>3, TaskKept
<1> QED BY <1>1, <1>2, <1>3, BooksKept DEF Inv

LEMMA PeopleGood ==
  ASSUME Inv, PeopleStep
  PROVE  Inv'
<1>0. owner \in Users /\ offer \in Users \cup {NoUser}
      /\ wallet \in [Users -> WalletRow] /\ deposits \in [Users -> Int]
  BY Types DEF Inv
<1>1. ASSUME NEW u \in Users, Recharge(u) PROVE Inv'
  <2>1. /\ 1 \in {-1, 1} /\ ~(1 = -1) /\ Free(u) /\ moves < MaxMoves /\ moves' = moves + 1
        /\ wallet' = [wallet EXCEPT ![u].balance = @ + 1]
        /\ deposits' = [deposits EXCEPT ![u] = @ + 1]
        /\ UNCHANGED <<hold, usage, call, served, owner, offer, task, debits, faults>>
    BY <1>1 DEF Recharge
  <2> QED BY <2>1, MovesGood
<1>2. ASSUME NEW u \in Users, Adjust(u) PROVE Inv'
  <2>1. /\ wallet' = [wallet EXCEPT ![u].balance = @ - 1]
        /\ deposits' = [deposits EXCEPT ![u] = @ - 1]
    BY <1>2 DEF Adjust
  <2>2. wallet[u].balance \in Int /\ deposits[u] \in Int
    BY <1>0 DEF WalletRow
  <2>3. wallet[u].balance - 1 = wallet[u].balance + (-1) /\ deposits[u] - 1 = deposits[u] + (-1)
    BY <2>2
  <2>4. /\ wallet' = [wallet EXCEPT ![u].balance = @ + (-1)]
        /\ deposits' = [deposits EXCEPT ![u] = @ + (-1)]
    BY <1>0, <2>1, <2>3
  <2> QED BY <1>2, <2>4, MovesGood DEF Adjust
<1>3. ASSUME NEW u \in Users, OfferOwnership(u) PROVE Inv'
  BY <1>0, <1>3, OwnersGood DEF OfferOwnership
<1>4. CASE DecideOffer
  BY <1>0, <1>4, OwnersGood DEF DecideOffer
<1> QED BY <1>1, <1>2, <1>3, <1>4 DEF PeopleStep

-----------------------------------------------------------------------------
(* The theorems.                                                           *)

LEMMA Step == Inv /\ [Next]_vars => Inv'
<1> SUFFICES ASSUME Inv, [Next]_vars PROVE Inv'
  OBVIOUS
<1>1. ASSUME NEW c \in Calls, CallStep(c) PROVE Inv'
  BY <1>1, CallGood
<1>2. ASSUME NEW k \in Workers, UsageStep(k) PROVE Inv'
  <2>1. ASSUME NEW c \in Calls, LockForUsage(k, c) PROVE Inv'
    BY <2>1, LockForUsageGood
  <2> QED BY <1>2, <2>1, ListUsagesGood, EndUsagesGood, PostUsageGood DEF UsageStep
<1>3. ASSUME NEW k \in Workers, WindowStep(k) PROVE Inv'
  <2>1. ASSUME NEW w \in Windows, ReadOwner(k, w) PROVE Inv'
    BY <2>1, ReadOwnerGood
  <2> QED BY <1>3, <2>1, LockForWindowGood, PostWindowGood DEF WindowStep
<1>4. ASSUME NEW k \in Workers, WorkerStops(k) PROVE Inv'
  BY <1>4, WorkerStopsGood
<1>5. CASE PeopleStep
  BY <1>5, PeopleGood
<1>6. CASE UNCHANGED vars
  BY <1>6, OwnersGood, Types DEF vars, books, Inv
<1> QED BY <1>1, <1>2, <1>3, <1>4, <1>5, <1>6 DEF Next

\* The invariant above holds in every state.
THEOREM Invariance == Spec => []Inv
BY Start, Step, PTL DEF Spec

\* Every variable keeps its type.
THEOREM TypeCorrect == Spec => []TypeOK
<1>1. Inv => TypeOK
  BY DEF Inv
<1> QED BY <1>1, Invariance, PTL

\* createModelCreditHold, the debits of the worker and the adjustments leave what the
\* open holds of a user may cost in the wallet, however many requests and tasks there
\* are and in whatever order they take its lock.
THEOREM HoldsStayCovered == Spec => []HoldsAreCovered
<1>1. Inv => HoldsAreCovered
  BY DEF Inv
<1> QED BY <1>1, Invariance, PTL

\* Tasks write whole balances they have computed from an earlier read; the balance is
\* the sum of the ledger nevertheless.
THEOREM LedgerAddsUp == Spec => []BalanceIsLedger
<1>1. Inv => BalanceIsLedger
  BY DEF Inv
<1> QED BY <1>1, Invariance, PTL

\* Passes that overlap charge a request once, to its user, and a window once, also
\* when the owner changes between two of them.
THEOREM ChargedOnce == Spec => []PaidOnce
<1>1. Inv => PaidOnce
  BY DEF Inv
<1> QED BY <1>1, Invariance, PTL

\* settleReportedAIUsage turns no usage away while no hold of its user has cost more
\* than its risk.
THEOREM UsageStaysCovered == Spec => []UsageIsCovered
<1>1. Inv => UsageIsCovered
  BY DEF Inv, TasksOK, TaskOK, SettlesUsage, UsageIsCovered
<1> QED BY <1>1, Invariance, PTL
====

----------------------------- MODULE SumTheorems -----------------------------
(***************************************************************************)
(* Facts about SumFunctionOnSet, by which the properties count bytes,      *)
(* tokens and flows: what a sum is after a summand changed, what it is     *)
(* over one index less, and that it does not depend on the order.          *)
(***************************************************************************)
EXTENDS Integers, Sequences, Functions, FiniteSetTheorems, SequenceTheorems,
        NaturalsInduction, WellFoundedInduction, TLAPS

\* Induction on the naturals, as the library's theorems about operators do not
\* apply: a set of naturals has a least element.
LEMMA LeastNatural ==
    ASSUME NEW T \in SUBSET Nat, T # {}
    PROVE  \E n \in T : \A m \in T : n <= m
<1>1. IsWellFoundedOn(OpToRel(<, Nat), Nat)
  BY NatLessThanWellFounded
<1>2. PICK n \in T : \A m \in T : ~(<<m, n>> \in OpToRel(<, Nat))
  BY <1>1, WFMin
<1>3. \A m \in T : ~(m < n)
  BY <1>2 DEF OpToRel
<1>4. QED
  BY <1>3

Some(s) == CHOOSE x \in s : TRUE

\* `g` adds up the values of f over the sets of a collection D.
Adds(g, f, D) ==
    g = [s \in D |-> IF s = {} THEN 0 ELSE f[Some(s)] + g[s \ {Some(s)}]]

LEMMA SomeIsMember == ASSUME NEW s, s # {} PROVE Some(s) \in s
BY DEF Some

LEMMA SumUnfolds ==
    ASSUME NEW f, NEW S
    PROVE  SumFunctionOnSet(f, S) = (CHOOSE g : Adds(g, f, SUBSET S))[S]
BY DEF SumFunctionOnSet, FoldFunctionOnSet, MapThenFoldSet, Adds, Some

\* The sets of a finite set that have at most `n` members.
UpTo(S, n) == {s \in SUBSET S : Cardinality(s) <= n}

LEMMA SmallerSet ==
    ASSUME NEW S, IsFiniteSet(S), NEW s \in SUBSET S, NEW x \in s
    PROVE  /\ Cardinality(s) \in Nat \ {0} /\ s \ {x} \in SUBSET S
           /\ Cardinality(s \ {x}) = Cardinality(s) - 1
<1>1. IsFiniteSet(s) /\ Cardinality(s) \in Nat
  BY FS_Subset, FS_CardinalityType
<1>2. Cardinality(s) # 0
  BY <1>1, FS_EmptySet
<1>3. QED
  BY <1>1, <1>2, FS_RemoveElement

\* There is a function that adds up the values over the subsets of a finite set.
LEMMA AdderExists ==
    ASSUME NEW f, NEW S, IsFiniteSet(S)
    PROVE  \E g : Adds(g, f, SUBSET S)
<1> DEFINE Bad == {n \in Nat : ~\E g : Adds(g, f, UpTo(S, n))}
<1>1. \A s \in SUBSET S : Cardinality(s) \in Nat /\ (Cardinality(s) = 0 <=> s = {})
  BY FS_Subset, FS_CardinalityType, FS_EmptySet
<1>2. 0 \notin Bad
  <2>1. \A s \in UpTo(S, 0) : s = {}
    BY <1>1 DEF UpTo
  <2>2. Adds([s \in UpTo(S, 0) |-> 0], f, UpTo(S, 0))
    BY <2>1 DEF Adds
  <2>3. QED
    BY <2>2
<1>3. ASSUME NEW n \in Nat \ {0}, n - 1 \notin Bad PROVE n \notin Bad
  <2>1. PICK g : Adds(g, f, UpTo(S, n - 1))
    BY <1>3
  <2> DEFINE h == [s \in UpTo(S, n) |->
                      IF s = {} THEN 0 ELSE f[Some(s)] + g[s \ {Some(s)}]]
  <2>2. ASSUME NEW s \in UpTo(S, n), s # {}
        PROVE  s \ {Some(s)} \in UpTo(S, n - 1) /\ s \ {Some(s)} \in UpTo(S, n)
    <3>1. Some(s) \in s /\ s \in SUBSET S /\ Cardinality(s) <= n
      BY <2>2, SomeIsMember DEF UpTo
    <3>2. /\ Cardinality(s) \in Nat /\ s \ {Some(s)} \in SUBSET S
          /\ Cardinality(s \ {Some(s)}) = Cardinality(s) - 1
      BY <3>1, SmallerSet
    <3>3. QED
      BY <3>1, <3>2 DEF UpTo
  <2>3. ASSUME NEW s \in UpTo(S, n - 1) PROVE s \in UpTo(S, n) /\ h[s] = g[s]
    <3>1. s \in UpTo(S, n)
      BY <1>1 DEF UpTo
    <3>2. QED
      BY <2>1, <3>1 DEF Adds
  <2>4. ASSUME NEW s \in UpTo(S, n)
        PROVE  h[s] = IF s = {} THEN 0 ELSE f[Some(s)] + h[s \ {Some(s)}]
    BY <2>2, <2>3
  <2>5. h = [s \in UpTo(S, n) |-> IF s = {} THEN 0 ELSE f[Some(s)] + h[s \ {Some(s)}]]
    BY <2>4
  <2> HIDE DEF h
  <2>6. Adds(h, f, UpTo(S, n))
    BY <2>5 DEF Adds
  <2>7. QED
    BY <2>6
<1>4. Bad = {}
  <2>1. SUFFICES ASSUME Bad # {} PROVE FALSE
    OBVIOUS
  <2>2. Bad \in SUBSET Nat
    OBVIOUS
  <2> HIDE DEF Bad
  <2>3. PICK n \in Bad : \A m \in Bad : n <= m
    BY <2>1, <2>2, LeastNatural
  <2>4. n \in Nat \ {0} /\ n - 1 \notin Bad
    BY <1>2, <2>2, <2>3
  <2>5. QED
    BY <1>3, <2>3, <2>4
<1>5. Cardinality(S) \in Nat /\ UpTo(S, Cardinality(S)) = SUBSET S
  BY FS_CardinalityType, FS_Subset DEF UpTo
<1>6. Cardinality(S) \notin Bad
  BY <1>4
<1>7. QED
  BY <1>5, <1>6

\* Two functions that add up the same values agree where both are defined.
LEMMA AdderUnique ==
    ASSUME NEW f, NEW S, IsFiniteSet(S), NEW T \in SUBSET S,
           NEW g, NEW h, Adds(g, f, SUBSET S), Adds(h, f, SUBSET T)
    PROVE  g[T] = h[T]
<1> DEFINE Bad == {Cardinality(s) : s \in {u \in SUBSET T : g[u] # h[u]}}
<1>1. \A s \in SUBSET T : Cardinality(s) \in Nat
  BY FS_Subset, FS_CardinalityType
<1>2. SUFFICES ASSUME g[T] # h[T] PROVE FALSE
  OBVIOUS
<1>3. Bad \in SUBSET Nat
  BY <1>1
<1>4. PICK n \in Bad : \A m \in Bad : n <= m
  <2>1. Cardinality(T) \in Bad
    BY <1>2
  <2> HIDE DEF Bad
  <2>2. QED
    BY <1>3, <2>1, LeastNatural
<1>5. PICK s \in SUBSET T : g[s] # h[s] /\ Cardinality(s) = n
  OBVIOUS
<1>6. s # {}
  BY <1>5 DEF Adds
<1> DEFINE u == s \ {Some(s)}
<1>7. u \in SUBSET T /\ Cardinality(u) < n
  BY <1>5, <1>6, SomeIsMember, SmallerSet
<1>8. g[u] = h[u]
  <2>1. Cardinality(u) \notin Bad
    BY <1>1, <1>3, <1>4, <1>7
  <2>2. QED
    BY <1>7, <2>1
<1>9. g[s] = f[Some(s)] + g[u] /\ h[s] = f[Some(s)] + h[u]
  BY <1>6 DEF Adds
<1>10. QED
  BY <1>5, <1>8, <1>9

\* A sum over a set takes any of its members, Some, apart.
LEMMA SumRecursion ==
    ASSUME NEW f, NEW S, IsFiniteSet(S)
    PROVE  SumFunctionOnSet(f, S) =
               IF S = {} THEN 0 ELSE f[Some(S)] + SumFunctionOnSet(f, S \ {Some(S)})
<1> DEFINE G(T) == CHOOSE g : Adds(g, f, SUBSET T)
           T    == S \ {Some(S)}
<1>1. Adds(G(S), f, SUBSET S)
  BY AdderExists
<1>2. SumFunctionOnSet(f, S) = G(S)[S]
  BY SumUnfolds
<1>3. CASE S = {}
  BY <1>1, <1>2, <1>3 DEF Adds
<1>4. CASE S # {}
  <2>1. T \in SUBSET S /\ IsFiniteSet(T)
    BY FS_Subset
  <2>2. Adds(G(T), f, SUBSET T)
    BY <2>1, AdderExists
  <2>3. SumFunctionOnSet(f, T) = G(T)[T]
    BY SumUnfolds
  <2>4. G(S)[T] = G(T)[T]
    <3> HIDE DEF G, T
    <3>1. QED
      BY <1>1, <2>1, <2>2, AdderUnique
  <2>5. G(S)[S] = f[Some(S)] + G(S)[T]
    <3>1. S \in SUBSET S
      OBVIOUS
    <3> HIDE DEF G
    <3>2. QED
      BY <1>1, <1>4, <3>1 DEF Adds
  <2>6. QED
    BY <1>2, <1>4, <2>3, <2>4, <2>5
<1>5. QED
  BY <1>3, <1>4

LEMMA SumEmpty == ASSUME NEW f PROVE SumFunctionOnSet(f, {}) = 0
BY FS_EmptySet, SumRecursion

\* Induction on the subsets of a finite set, for a set of good ones: a subset is
\* good if it is whenever taking any member off it leaves a good one.
LEMMA SubsetInduction ==
    ASSUME NEW S, IsFiniteSet(S), NEW Good,
           \A U \in SUBSET S : (\A x \in U : U \ {x} \in Good) => U \in Good
    PROVE  S \in Good
<1> DEFINE Bad == {Cardinality(U) : U \in (SUBSET S) \ Good}
<1>1. \A U \in SUBSET S : IsFiniteSet(U) /\ Cardinality(U) \in Nat
  BY FS_Subset, FS_CardinalityType
<1>2. SUFFICES ASSUME S \notin Good PROVE FALSE
  OBVIOUS
<1>3. PICK n \in Bad : \A m \in Bad : n <= m
  <2>1. Bad \in SUBSET Nat /\ Bad # {}
    BY <1>1, <1>2
  <2> HIDE DEF Bad
  <2>2. QED
    BY <2>1, LeastNatural
<1>4. PICK U \in (SUBSET S) \ Good : Cardinality(U) = n
  OBVIOUS
<1>5. PICK x \in U : U \ {x} \notin Good
  BY <1>4
<1> DEFINE V == U \ {x}
<1>6. /\ V \in (SUBSET S) \ Good
      /\ Cardinality(V) \in Nat /\ n \in Nat /\ Cardinality(V) < n
  BY <1>1, <1>4, <1>5, SmallerSet
<1>7. Cardinality(V) \in Bad
  BY <1>6
<1> HIDE DEF Bad
<1>8. QED
  BY <1>3, <1>6, <1>7

LEMMA SumType ==
    ASSUME NEW f, NEW S, IsFiniteSet(S), \A x \in S : f[x] \in Int
    PROVE  SumFunctionOnSet(f, S) \in Int
<1> DEFINE Good == {U \in SUBSET S : SumFunctionOnSet(f, U) \in Int}
<1>1. ASSUME NEW U \in SUBSET S, \A x \in U : U \ {x} \in Good
      PROVE  U \in Good
  <2>1. CASE U = {}
    BY <2>1, SumEmpty
  <2>2. CASE U # {}
    <3>1. SumFunctionOnSet(f, U) = f[Some(U)] + SumFunctionOnSet(f, U \ {Some(U)})
      BY <2>2, FS_Subset, SumRecursion
    <3>2. Some(U) \in U
      BY <2>2, SomeIsMember
    <3>3. QED
      BY <1>1, <3>1, <3>2
  <2>3. QED
    BY <2>1, <2>2
<1>2. S \in Good
  <2> HIDE DEF Good
  <2>1. QED
    BY <1>1, SubsetInduction
<1>3. QED
  BY <1>2

\* Any member may be taken apart: the order does not matter.
THEOREM SumRemove ==
    ASSUME NEW f, NEW S, IsFiniteSet(S), \A x \in S : f[x] \in Int, NEW x \in S
    PROVE  SumFunctionOnSet(f, S) = f[x] + SumFunctionOnSet(f, S \ {x})
<1> DEFINE Splits(s) == \A y \in s :
               SumFunctionOnSet(f, s) = f[y] + SumFunctionOnSet(f, s \ {y})
           Good == {U \in SUBSET S : Splits(U)}
<1>1. ASSUME NEW s \in SUBSET S, \A y \in s : s \ {y} \in Good, NEW y \in s
      PROVE  SumFunctionOnSet(f, s) = f[y] + SumFunctionOnSet(f, s \ {y})
  <2> DEFINE z == Some(s)
             rest == (s \ {y}) \ {z}
  <2>1. /\ z \in s /\ IsFiniteSet(s)
        /\ SumFunctionOnSet(f, s) = f[z] + SumFunctionOnSet(f, s \ {z})
    BY FS_Subset, SomeIsMember, SumRecursion
  <2> HIDE DEF z
  <2>2. CASE y = z
    BY <2>1, <2>2
  <2>3. CASE y # z
    <3>1. rest = (s \ {z}) \ {y} /\ rest \in SUBSET S /\ IsFiniteSet(rest)
      BY FS_Subset
    <3>2. /\ SumFunctionOnSet(f, s \ {z}) = f[y] + SumFunctionOnSet(f, rest)
          /\ SumFunctionOnSet(f, s \ {y}) = f[z] + SumFunctionOnSet(f, rest)
      BY <1>1, <2>1, <2>3, <3>1
    <3>3. f[y] \in Int /\ f[z] \in Int /\ SumFunctionOnSet(f, rest) \in Int
      BY <2>1, <3>1, SumType
    <3>4. QED
      BY <2>1, <3>2, <3>3
  <2>4. QED
    BY <2>2, <2>3
<1>2. \A s \in SUBSET S : (\A y \in s : s \ {y} \in Good) => s \in Good
  BY <1>1
<1>3. S \in Good
  <2> HIDE DEF Good
  <2>1. QED
    BY <1>2, SubsetInduction
<1>4. QED
  BY <1>3

\* The step of an induction: some member is taken off a set that is not empty.
LEMMA SumInStep ==
    ASSUME NEW f, NEW U, IsFiniteSet(U), \A x \in U : f[x] \in Int, U # {}
    PROVE  \E x \in U : /\ SumFunctionOnSet(f, U) = f[x] + SumFunctionOnSet(f, U \ {x})
                        /\ SumFunctionOnSet(f, U \ {x}) \in Int
<1>1. PICK x \in U : TRUE
  OBVIOUS
<1>2. IsFiniteSet(U \ {x})
  BY FS_Subset
<1>3. SumFunctionOnSet(f, U \ {x}) \in Int
  BY <1>2, SumType
<1>4. QED
  BY <1>3, SumRemove

\* A sum depends only on the values it adds up.
THEOREM SumSame ==
    ASSUME NEW f, NEW g, NEW S, IsFiniteSet(S), \A x \in S : f[x] = g[x]
    PROVE  SumFunctionOnSet(f, S) = SumFunctionOnSet(g, S)
<1> DEFINE Good == {U \in SUBSET S : SumFunctionOnSet(f, U) = SumFunctionOnSet(g, U)}
<1>1. ASSUME NEW U \in SUBSET S, \A x \in U : U \ {x} \in Good
      PROVE  U \in Good
  <2>1. CASE U = {}
    BY <2>1, SumEmpty
  <2>2. CASE U # {}
    <3> DEFINE z == Some(U)
               V == U \ {z}
    <3>1. z \in U /\ V \in Good
      BY <1>1, <2>2, SomeIsMember
    <3>2. /\ SumFunctionOnSet(f, U) = f[z] + SumFunctionOnSet(f, V)
          /\ SumFunctionOnSet(g, U) = g[z] + SumFunctionOnSet(g, V)
      BY <2>2, FS_Subset, SumRecursion
    <3> HIDE DEF z
    <3>3. QED
      BY <3>1, <3>2
  <2>3. QED
    BY <2>1, <2>2
<1>2. S \in Good
  <2> HIDE DEF Good
  <2>1. QED
    BY <1>1, SubsetInduction
<1>3. QED
  BY <1>2

\* Nothing is added up.
THEOREM SumZero ==
    ASSUME NEW f, NEW S, IsFiniteSet(S), \A x \in S : f[x] = 0
    PROVE  SumFunctionOnSet(f, S) = 0
<1> DEFINE Good == {U \in SUBSET S : SumFunctionOnSet(f, U) = 0}
<1>1. ASSUME NEW U \in SUBSET S, \A x \in U : U \ {x} \in Good
      PROVE  U \in Good
  <2>1. CASE U = {}
    BY <2>1, SumEmpty
  <2>2. CASE U # {}
    <3>1. PICK x \in U : SumFunctionOnSet(f, U) = f[x] + SumFunctionOnSet(f, U \ {x})
      BY <2>2, FS_Subset, SumInStep
    <3>2. QED
      BY <1>1, <3>1
  <2>3. QED
    BY <2>1, <2>2
<1>2. S \in Good
  <2> HIDE DEF Good
  <2>1. QED
    BY <1>1, SubsetInduction
<1>3. QED
  BY <1>2

\* One summand has changed.
THEOREM SumUpdate ==
    ASSUME NEW f, NEW g, NEW S, IsFiniteSet(S), NEW x \in S,
           \A y \in S : f[y] \in Int /\ g[y] \in Int,
           \A y \in S \ {x} : g[y] = f[y]
    PROVE  SumFunctionOnSet(g, S) = SumFunctionOnSet(f, S) - f[x] + g[x]
<1>1. IsFiniteSet(S \ {x})
  BY FS_Subset
<1>2. /\ SumFunctionOnSet(f, S) = f[x] + SumFunctionOnSet(f, S \ {x})
      /\ SumFunctionOnSet(g, S) = g[x] + SumFunctionOnSet(g, S \ {x})
  BY SumRemove
<1>3. SumFunctionOnSet(g, S \ {x}) = SumFunctionOnSet(f, S \ {x})
  BY <1>1, SumSame
<1>4. SumFunctionOnSet(f, S \ {x}) \in Int
  BY <1>1, SumType
<1>5. QED
  BY <1>2, <1>3, <1>4

\* The sum of sums is the sum of both.
THEOREM SumAdd ==
    ASSUME NEW f, NEW g, NEW h, NEW S, IsFiniteSet(S),
           \A x \in S : f[x] \in Int /\ g[x] \in Int /\ h[x] = f[x] + g[x]
    PROVE  SumFunctionOnSet(h, S) = SumFunctionOnSet(f, S) + SumFunctionOnSet(g, S)
<1> DEFINE F(U) == SumFunctionOnSet(f, U)
           G(U) == SumFunctionOnSet(g, U)
           H(U) == SumFunctionOnSet(h, U)
           Good == {U \in SUBSET S : H(U) = F(U) + G(U)}
<1>1. ASSUME NEW U \in SUBSET S, \A x \in U : U \ {x} \in Good
      PROVE  U \in Good
  <2>1. CASE U = {}
    BY <2>1, SumEmpty
  <2>2. CASE U # {}
    <3>1. PICK x \in U : TRUE
      BY <2>2
    <3>2. IsFiniteSet(U) /\ IsFiniteSet(U \ {x})
      BY FS_Subset
    <3>3. /\ F(U) = f[x] + F(U \ {x}) /\ F(U \ {x}) \in Int
          /\ G(U) = g[x] + G(U \ {x}) /\ G(U \ {x}) \in Int
          /\ H(U) = h[x] + H(U \ {x})
      BY <3>2, SumRemove, SumType
    <3>4. H(U \ {x}) = F(U \ {x}) + G(U \ {x})
      BY <1>1
    <3> HIDE DEF F, G, H
    <3>5. QED
      BY <3>3, <3>4
  <2>3. QED
    BY <2>1, <2>2
<1>2. S \in Good
  <2> HIDE DEF Good
  <2>1. QED
    BY <1>1, SubsetInduction
<1>3. QED
  BY <1>2

\* No summand is negative.
THEOREM SumNatural ==
    ASSUME NEW f, NEW S, IsFiniteSet(S), \A x \in S : f[x] \in Nat
    PROVE  /\ SumFunctionOnSet(f, S) \in Nat
           /\ \A x \in S : f[x] <= SumFunctionOnSet(f, S)
<1> DEFINE Good == {U \in SUBSET S : SumFunctionOnSet(f, U) \in Nat}
<1>1. ASSUME NEW U \in SUBSET S, \A x \in U : U \ {x} \in Good
      PROVE  U \in Good
  <2>1. CASE U = {}
    BY <2>1, SumEmpty
  <2>2. CASE U # {}
    <3>1. PICK x \in U : SumFunctionOnSet(f, U) = f[x] + SumFunctionOnSet(f, U \ {x})
      BY <2>2, FS_Subset, SumInStep
    <3>2. QED
      BY <1>1, <3>1
  <2>3. QED
    BY <2>1, <2>2
<1>2. S \in Good
  <2> HIDE DEF Good
  <2>1. QED
    BY <1>1, SubsetInduction
<1>3. ASSUME NEW x \in S PROVE f[x] <= SumFunctionOnSet(f, S)
  <2>1. SumFunctionOnSet(f, S) = f[x] + SumFunctionOnSet(f, S \ {x})
    BY SumRemove
  <2>2. S \ {x} \in Good
    <3>1. IsFiniteSet(S \ {x})
      BY FS_Subset
    <3>2. \A U \in SUBSET (S \ {x}) : (\A y \in U : U \ {y} \in Good) => U \in Good
      BY <1>1
    <3> HIDE DEF Good
    <3>3. QED
      BY <3>1, <3>2, SubsetInduction
  <2>3. QED
    BY <2>1, <2>2
<1>4. QED
  BY <1>2, <1>3

\* Larger summands, larger sum.
THEOREM SumMonotone ==
    ASSUME NEW f, NEW g, NEW S, IsFiniteSet(S),
           \A x \in S : f[x] \in Int /\ g[x] \in Int /\ f[x] <= g[x]
    PROVE  SumFunctionOnSet(f, S) <= SumFunctionOnSet(g, S)
<1> DEFINE d == [x \in S |-> g[x] - f[x]]
<1>1. \A x \in S : f[x] \in Int /\ d[x] \in Nat /\ g[x] = f[x] + d[x]
  OBVIOUS
<1> HIDE DEF d
<1>2. SumFunctionOnSet(g, S) = SumFunctionOnSet(f, S) + SumFunctionOnSet(d, S)
  BY <1>1, SumAdd
<1>3. SumFunctionOnSet(d, S) \in Nat
  BY <1>1, SumNatural
<1>4. SumFunctionOnSet(f, S) \in Int
  BY SumType
<1>5. QED
  BY <1>2, <1>3, <1>4

\* Some summands are raised by the same amount.
THEOREM SumRaise ==
    ASSUME NEW f, NEW g, NEW S, NEW T \in SUBSET S, NEW c \in Int, IsFiniteSet(S),
           \A x \in S : f[x] \in Int,
           \A x \in S : g[x] = f[x] + (IF x \in T THEN c ELSE 0)
    PROVE  SumFunctionOnSet(g, S) = SumFunctionOnSet(f, S) + c * Cardinality(T)
<1> DEFINE part == [x \in S |-> IF x \in T THEN c ELSE 0]
           Rise(U) == [x \in S |-> IF x \in U THEN c ELSE 0]
           Good == {U \in SUBSET T : SumFunctionOnSet(Rise(U), S) = c * Cardinality(U)}
<1>1. ASSUME NEW U \in SUBSET T, \A x \in U : U \ {x} \in Good
      PROVE  U \in Good
  <2>1. CASE U = {}
    <3> DEFINE r == Rise(U)
    <3>1. \A x \in S : r[x] = 0
      BY <2>1
    <3> HIDE DEF r
    <3>2. SumFunctionOnSet(r, S) = 0
      BY <3>1, SumZero
    <3>3. c * Cardinality(U) = 0
      BY <2>1, FS_EmptySet
    <3>4. QED
      BY <3>2, <3>3 DEF r
  <2>2. CASE U # {}
    <3>1. PICK x \in U : TRUE
      BY <2>2
    <3> DEFINE V == U \ {x}
               old == Rise(V)
               new == Rise(U)
    <3>2. /\ x \in S
          /\ \A y \in S : old[y] \in Int /\ new[y] \in Int
          /\ \A y \in S \ {x} : new[y] = old[y]
          /\ new[x] = c /\ old[x] = 0
      BY <3>1
    <3>3. SumFunctionOnSet(old, S) = c * Cardinality(V)
      BY <1>1
    <3>4. Cardinality(V) \in Nat /\ Cardinality(U) = Cardinality(V) + 1
      BY FS_Subset, FS_RemoveElement, FS_CardinalityType
    <3> HIDE DEF old, new, V
    <3>5. SumFunctionOnSet(new, S) = SumFunctionOnSet(old, S) - old[x] + new[x]
      BY <3>2, SumUpdate
    <3>6. /\ c * (Cardinality(V) + 1) = c * Cardinality(V) + c
          /\ c * Cardinality(V) \in Int
      BY <3>4
    <3>7. SumFunctionOnSet(new, S) = c * Cardinality(U)
      BY <3>2, <3>3, <3>4, <3>5, <3>6
    <3>8. QED
      BY <3>7 DEF new
  <2>3. QED
    BY <2>1, <2>2
<1>2. T \in Good
  <2>1. IsFiniteSet(T)
    BY FS_Subset
  <2> HIDE DEF Good
  <2>2. QED
    BY <1>1, <2>1, SubsetInduction
<1>3. /\ SumFunctionOnSet(part, S) = c * Cardinality(T)
      /\ \A x \in S : f[x] \in Int /\ part[x] \in Int /\ g[x] = f[x] + part[x]
  BY <1>2
<1> HIDE DEF part
<1>4. QED
  BY <1>3, SumAdd

\* A sum of equal summands.
THEOREM SumConstant ==
    ASSUME NEW f, NEW S, NEW c \in Int, IsFiniteSet(S), \A x \in S : f[x] = c
    PROVE  SumFunctionOnSet(f, S) = c * Cardinality(S)
<1> DEFINE zero == [x \in S |-> 0]
           n == Cardinality(S)
<1>1. \A x \in S : zero[x] = 0
  OBVIOUS
<1> HIDE DEF zero
<1>2. SumFunctionOnSet(zero, S) = 0
  BY <1>1, SumZero
<1>3. PICK T \in SUBSET S : T = S
  OBVIOUS
<1>4. /\ \A x \in S : zero[x] \in Int
      /\ \A x \in S : f[x] = zero[x] + (IF x \in T THEN c ELSE 0)
  BY <1>1, <1>3
<1>5. SumFunctionOnSet(f, S) = SumFunctionOnSet(zero, S) + c * Cardinality(T)
  BY <1>4, SumRaise
<1>6. n \in Nat /\ c * n \in Int
  BY FS_CardinalityType
<1>7. SumFunctionOnSet(f, S) = 0 + c * n
  BY <1>2, <1>3, <1>5
<1> HIDE DEF n
<1>8. 0 + c * n = c * n
  BY <1>6
<1>9. QED
  BY <1>7, <1>8 DEF n

\* g gives a pair with second part q what f gives its first part.
OfFirst(g, f, S, q) == \A x \in S : f[x] \in Int /\ g[<<x, q>>] = f[x]

\* A sum over pairs whose second part is fixed is one over their first parts.
THEOREM SumPairs ==
    ASSUME NEW f, NEW g, NEW S, NEW q, IsFiniteSet(S), OfFirst(g, f, S, q)
    PROVE  SumFunctionOnSet(g, S \X {q}) = SumFunctionOnSet(f, S)
<1> USE DEF OfFirst
<1> DEFINE Good == {U \in SUBSET S :
                      SumFunctionOnSet(g, U \X {q}) = SumFunctionOnSet(f, U)}
<1>1. ASSUME NEW U \in SUBSET S, \A x \in U : U \ {x} \in Good
      PROVE  U \in Good
  <2>1. CASE U = {}
    <3>1. U \X {q} = {}
      BY <2>1
    <3>2. QED
      BY <2>1, <3>1, SumEmpty
  <2>2. CASE U # {}
    <3>1. PICK x \in U : SumFunctionOnSet(f, U) = f[x] + SumFunctionOnSet(f, U \ {x})
      BY <2>2, FS_Subset, SumInStep
    <3> DEFINE P == U \X {q}
    <3>2. /\ <<x, q>> \in P /\ P \ {<<x, q>>} = (U \ {x}) \X {q}
          /\ \A y \in P : g[y] \in Int
      OBVIOUS
    <3>3. IsFiniteSet(P)
      BY FS_Subset, FS_Singleton, FS_Product
    <3> HIDE DEF P
    <3>4. SumFunctionOnSet(g, P) = g[<<x, q>>] + SumFunctionOnSet(g, P \ {<<x, q>>})
      BY <3>2, <3>3, SumRemove
    <3>5. QED
      BY <1>1, <3>1, <3>2, <3>4 DEF P
  <2>3. QED
    BY <2>1, <2>2
<1>2. S \in Good
  <2> HIDE DEF Good
  <2>1. QED
    BY <1>1, SubsetInduction
<1>3. QED
  BY <1>2

-----------------------------------------------------------------------------
(* Sums over the positions of a sequence.                                  *)

LEMMA SeqSum ==
    ASSUME NEW w \in Seq(Int)
    PROVE  /\ IsFiniteSet(DOMAIN w) /\ \A i \in DOMAIN w : w[i] \in Int
           /\ SumFunction(w) = SumFunctionOnSet(w, DOMAIN w)
           /\ SumFunction(w) \in Int
<1>1. /\ DOMAIN w = 1 .. Len(w) /\ Len(w) \in Nat
      /\ \A i \in DOMAIN w : w[i] \in Int
  OBVIOUS
<1>2. IsFiniteSet(DOMAIN w)
  BY <1>1, FS_Interval
<1>3. SumFunction(w) = SumFunctionOnSet(w, DOMAIN w)
  BY DEF SumFunction
<1>4. QED
  BY <1>1, <1>2, <1>3, SumType

\* A sequence without elements sums up to nothing.
THEOREM SeqSumEmpty == SumFunction(<< >>) = 0
<1>1. DOMAIN << >> = {}
  OBVIOUS
<1>2. QED
  BY <1>1, SumEmpty DEF SumFunction

\* An appended element is added to the sum.
THEOREM SeqSumAppend ==
    ASSUME NEW w \in Seq(Int), NEW e \in Int
    PROVE  SumFunction(Append(w, e)) = SumFunction(w) + e
<1> DEFINE v == Append(w, e)
           n == Len(w) + 1
<1>1. /\ v \in Seq(Int) /\ DOMAIN v = 1 .. n /\ n \in 1 .. n
      /\ v[n] = e /\ \A i \in DOMAIN w : v[i] = w[i]
      /\ DOMAIN w = (1 .. n) \ {n}
  <2>1. Len(w) \in Nat /\ DOMAIN w = 1 .. Len(w)
    OBVIOUS
  <2>2. v \in Seq(Int) /\ Len(v) = n /\ v[n] = e /\ \A i \in DOMAIN w : v[i] = w[i]
    BY <2>1
  <2>3. DOMAIN v = 1 .. n
    BY <2>2
  <2>4. n \in 1 .. n /\ 1 .. Len(w) = (1 .. n) \ {n}
    BY <2>1
  <2>5. QED
    BY <2>1, <2>2, <2>3, <2>4
<1> HIDE DEF v, n
<1>2. SumFunction(v) = v[n] + SumFunctionOnSet(v, (1 .. n) \ {n})
  <2>1. /\ IsFiniteSet(1 .. n) /\ \A i \in 1 .. n : v[i] \in Int
        /\ SumFunction(v) = SumFunctionOnSet(v, 1 .. n)
    <3>1. v \in Seq(Int) /\ DOMAIN v = 1 .. n
      BY <1>1
    <3>2. /\ IsFiniteSet(DOMAIN v) /\ \A i \in DOMAIN v : v[i] \in Int
          /\ SumFunction(v) = SumFunctionOnSet(v, DOMAIN v)
      BY <3>1, SeqSum
    <3>3. QED
      BY <3>1, <3>2
  <2>2. n \in 1 .. n
    BY <1>1
  <2>3. ASSUME NEW S, S = 1 .. n
        PROVE  SumFunctionOnSet(v, S) = v[n] + SumFunctionOnSet(v, S \ {n})
    <3>1. IsFiniteSet(S) /\ n \in S /\ \A i \in S : v[i] \in Int
      BY <2>1, <2>2, <2>3
    <3>2. QED
      BY <3>1, SumRemove
  <2>4. QED
    BY <2>1, <2>3
<1>3. SumFunctionOnSet(v, DOMAIN w) = SumFunctionOnSet(w, DOMAIN w)
  BY <1>1, SeqSum, SumSame
<1>4. SumFunction(w) \in Int /\ SumFunction(w) = SumFunctionOnSet(w, DOMAIN w)
  BY SeqSum
<1>5. QED
  BY <1>1, <1>2, <1>3, <1>4 DEF v

LEMMA TailOfAppend ==
    ASSUME NEW u \in Seq(Int), NEW e \in Int, u # << >>
    PROVE  /\ Head(Append(u, e)) = Head(u) /\ Tail(u) \in Seq(Int)
           /\ Tail(Append(u, e)) = Append(Tail(u), e)
<1> DEFINE v == Append(u, e)
           n == Len(u)
<1>1. /\ n \in Nat \ {0} /\ DOMAIN u = 1 .. n
      /\ v \in Seq(Int) /\ Len(v) = n + 1 /\ v # << >>
      /\ v[n + 1] = e /\ \A i \in 1 .. n : v[i] = u[i]
  OBVIOUS
<1> HIDE DEF v, n
<1>2. Head(v) = Head(u)
  BY <1>1
<1>3. /\ Tail(u) \in Seq(Int) /\ Len(Tail(u)) = n - 1
      /\ \A i \in 1 .. n - 1 : Tail(u)[i] = u[i + 1]
  BY <1>1 DEF n
<1>4. /\ Tail(v) \in Seq(Int) /\ Len(Tail(v)) = n
      /\ \A i \in 1 .. n : Tail(v)[i] = v[i + 1]
  BY <1>1
<1> DEFINE t == Append(Tail(u), e)
<1>5. /\ t \in Seq(Int) /\ Len(t) = n
      /\ t[n] = e /\ \A i \in 1 .. n - 1 : t[i] = Tail(u)[i]
  BY <1>1, <1>3
<1> HIDE DEF t
<1>6. \A i \in 1 .. n : Tail(v)[i] = t[i]
  <2> TAKE i \in 1 .. n
  <2>1. CASE i = n
    BY <1>1, <1>4, <1>5, <2>1
  <2>2. CASE i # n
    <3>1. i \in 1 .. n - 1 /\ i + 1 \in 1 .. n
      BY <1>1, <2>2
    <3>2. QED
      BY <1>1, <1>3, <1>4, <1>5, <3>1
  <2>3. QED
    BY <2>1, <2>2
<1>7. Tail(v) = t
  BY <1>1, <1>4, <1>5, <1>6, SeqEqual
<1>8. QED
  BY <1>2, <1>3, <1>7 DEF v, t

\* The first summand is taken off as well as the last: by induction on the length.
THEOREM SeqSumTail ==
    ASSUME NEW w \in Seq(Int), w # << >>
    PROVE  SumFunction(w) = Head(w) + SumFunction(Tail(w))
<1> DEFINE Good(v) == SumFunction(v) = Head(v) + SumFunction(Tail(v))
           Bad == {Len(v) : v \in {u \in Seq(Int) : u # << >> /\ ~Good(u)}}
<1>1. SUFFICES ASSUME Bad # {} PROVE FALSE
  OBVIOUS
<1>2. PICK n \in Bad : \A m \in Bad : n <= m
  <2>1. Bad \in SUBSET Nat
    OBVIOUS
  <2> HIDE DEF Bad
  <2>2. QED
    BY <1>1, <2>1, LeastNatural
<1>3. PICK v \in Seq(Int) : v # << >> /\ ~Good(v) /\ Len(v) = n
  OBVIOUS
<1>4. n \in Nat \ {0}
  BY <1>3
<1> DEFINE u == SubSeq(v, 1, n - 1)
           e == v[n]
<1>5. u \in Seq(Int) /\ e \in Int /\ v = Append(u, e) /\ Len(u) = n - 1
  BY <1>3, <1>4
<1> HIDE DEF u, e
<1>6. SumFunction(v) = SumFunction(u) + e
  BY <1>5, SeqSumAppend
<1>7. CASE u = << >>
  <2>1. Head(v) = e /\ Tail(v) = << >>
    BY <1>5, <1>7
  <2>2. QED
    BY <1>3, <1>5, <1>6, <1>7, <2>1, SeqSumEmpty
<1>8. CASE u # << >>
  <2>1. Good(u)
    <3>1. Len(u) \notin Bad
      <4>1. Len(u) < n /\ Len(u) \in Nat
        BY <1>4, <1>5
      <4> HIDE DEF Bad
      <4>2. QED
        BY <1>2, <1>4, <4>1
    <3>2. QED
      BY <1>5, <1>8, <3>1
  <2>2. Head(v) = Head(u) /\ Tail(v) = Append(Tail(u), e) /\ Tail(u) \in Seq(Int)
    BY <1>5, <1>8, TailOfAppend
  <2>3. SumFunction(Tail(v)) = SumFunction(Tail(u)) + e
    BY <1>5, <2>2, SeqSumAppend
  <2>4. Head(u) \in Int /\ SumFunction(Tail(u)) \in Int
    <3>1. Head(u) \in Int
      BY <1>5, <1>8
    <3>2. QED
      BY <2>2, <3>1, SeqSum
  <2>5. QED
    BY <1>3, <1>5, <1>6, <2>1, <2>2, <2>3, <2>4
<1>9. QED
  BY <1>7, <1>8
=============================================================================

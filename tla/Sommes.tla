-------------------------------- MODULE Sommes --------------------------------
(* The sums of the models: what SumFunctionOnSet returns for a finite set, for   *)
(* every function and every set.  The module that defines it has no lemma on it, *)
(* and the induction theorems of the library take an operator, that no prover    *)
(* here instantiates: the induction is stated on a set of sets (Retraits) or of  *)
(* numbers (Naturels) instead, and each lemma names the set it is applied to.    *)
EXTENDS Integers, Functions, FiniteSetTheorems, WellFoundedInduction, TLAPS

-----------------------------------------------------------------------------
(* Induction, on a set *)

\* A set of naturals that has 0, and the successor of what it has, has all of them.
LEMMA Naturels ==
  ASSUME NEW W, 0 \in W, \A n \in Nat : n \in W => n + 1 \in W
  PROVE  \A n \in Nat : n \in W
<1> SUFFICES ASSUME Nat \ W # {} PROVE FALSE
  OBVIOUS
<1>1. \E n \in Nat \ W : \A m \in Nat \ W : ~(<<m, n>> \in OpToRel(<, Nat))
  BY NatLessThanWellFounded, WFMin
<1>2. PICK n \in Nat \ W : \A m \in Nat \ W : ~(<<m, n>> \in OpToRel(<, Nat))
  BY <1>1
<1>3. n - 1 \in Nat /\ n - 1 < n /\ (n - 1) + 1 = n
  OBVIOUS
<1>4. <<n - 1, n>> \in OpToRel(<, Nat)
  BY <1>3 DEF OpToRel
<1>5. n - 1 \in W
  BY <1>2, <1>3, <1>4
<1>6. (n - 1) + 1 \in W
  BY <1>3, <1>5
<1>. QED BY <1>3, <1>6

\* A set of parts of a finite set that has {}, and a part as soon as it has what is left of
\* it without each of its elements, has the whole set.
LEMMA Retraits ==
  ASSUME NEW S, IsFiniteSet(S), NEW W, {} \in W,
         \A T \in SUBSET S : T # {} /\ (\A x \in T : T \ {x} \in W) => T \in W
  PROVE  S \in W
<1> DEFINE N == {n \in Nat : \A T \in SUBSET S : Cardinality(T) = n => T \in W}
<1>1. \A T \in SUBSET S : IsFiniteSet(T) /\ Cardinality(T) \in Nat
  BY FS_Subset, FS_CardinalityType
<1>2. 0 \in N
  BY <1>1, FS_EmptySet
<1>3. ASSUME NEW n \in Nat, n \in N PROVE n + 1 \in N
  <2> SUFFICES ASSUME NEW T \in SUBSET S, Cardinality(T) = n + 1 PROVE T \in W
    BY <1>3
  <2>1. T # {}
    <3>1. Cardinality({}) = 0 /\ n + 1 # 0
      BY FS_EmptySet
    <3>. QED BY <3>1
  <2>2. \A x \in T : Cardinality(T \ {x}) = n
    BY <1>1, FS_RemoveElement
  <2>. QED BY <1>3, <2>1, <2>2
<1> HIDE DEF N
<1>4. \A n \in Nat : n \in N
  BY <1>2, <1>3, Naturels
<1>. QED BY <1>1, <1>4 DEF N

-----------------------------------------------------------------------------
(* The recursive definition of a sum *)

Premier(s) == CHOOSE x \in s : TRUE
Pas(f, h, s) == IF s = {} THEN 0 ELSE f[Premier(s)] + h[s \ {Premier(s)}]
Calcul(f, D) == CHOOSE h : h = [s \in D |-> Pas(f, h, s)]

\* A non-empty set has its first element.
LEMMA PremierElement ==
  ASSUME NEW s, s # {} PROVE Premier(s) \in s
BY DEF Premier

\* The function that computes a sum exists.
LEMMA Calculable ==
  ASSUME NEW f, NEW S, IsFiniteSet(S)
  PROVE  \A T \in SUBSET S : Calcul(f, SUBSET S)[T] = Pas(f, Calcul(f, SUBSET S), T)
<1> DEFINE D(n) == {T \in SUBSET S : Cardinality(T) <= n}
           N == {n \in Nat : \E h : h = [s \in D(n) |-> Pas(f, h, s)]}
<1>1. \A T \in SUBSET S : IsFiniteSet(T) /\ Cardinality(T) \in Nat
                          /\ Cardinality(T) <= Cardinality(S)
  BY FS_Subset, FS_CardinalityType
<1>2. 0 \in N
  <2>1. \A T \in D(0) : T = {}
    BY <1>1, FS_EmptySet
  <2> DEFINE h == [s \in D(0) |-> 0]
  <2>2. h = [s \in D(0) |-> Pas(f, h, s)]
    BY <2>1 DEF Pas
  <2>. QED BY <2>2
<1>3. ASSUME NEW n \in Nat, n \in N PROVE n + 1 \in N
  <2>1. PICK h : h = [s \in D(n) |-> Pas(f, h, s)]
    BY <1>3
  <2> DEFINE g == [s \in D(n + 1) |-> Pas(f, h, s)]
  <2>2. ASSUME NEW s \in D(n + 1), s # {}
        PROVE  s \ {Premier(s)} \in D(n) /\ s \ {Premier(s)} \in D(n + 1)
    BY <1>1, <2>2, PremierElement, FS_RemoveElement
  <2>3. ASSUME NEW s \in D(n), s \in D(n + 1) PROVE g[s] = h[s]
    <3>1. h[s] = Pas(f, h, s)
      BY <2>1, <2>3
    <3>2. g[s] = Pas(f, h, s)
      BY <2>3
    <3>. QED BY <3>1, <3>2
  <2> HIDE DEF D
  <2>4. \A s \in D(n + 1) : Pas(f, h, s) = Pas(f, g, s)
    <3> HIDE DEF g
    <3>. QED BY <2>2, <2>3 DEF Pas
  <2>5. g = [s \in D(n + 1) |-> Pas(f, g, s)]
    BY <2>4
  <2> HIDE DEF g
  <2>6. \E k : k = [s \in D(n + 1) |-> Pas(f, k, s)]
    BY <2>5
  <2>. QED BY <1>3, <2>6
<1> HIDE DEF N
<1>4. \A n \in Nat : n \in N
  BY <1>2, <1>3, Naturels
<1>5. Cardinality(S) \in N
  BY <1>1, <1>4
<1>6. D(Cardinality(S)) = SUBSET S
  BY <1>1
<1>7. \E h : h = [s \in SUBSET S |-> Pas(f, h, s)]
  BY <1>5, <1>6 DEF N
<1> DEFINE C == Calcul(f, SUBSET S)
<1>8. C = [s \in SUBSET S |-> Pas(f, C, s)]
  BY <1>7 DEF Calcul
<1> HIDE DEF C
<1>9. \A T \in SUBSET S : C[T] = Pas(f, C, T)
  BY <1>8
<1>. QED BY <1>9 DEF C

\* It gives a part the same value, whatever the set it is a part of.
LEMMA Unique ==
  ASSUME NEW f, NEW S, IsFiniteSet(S), NEW T \in SUBSET S
  PROVE  Calcul(f, SUBSET S)[T] = Calcul(f, SUBSET T)[T]
<1> DEFINE h == Calcul(f, SUBSET S)
           k == Calcul(f, SUBSET T)
           W == {U \in SUBSET T : h[U] = k[U]}
<1>1. IsFiniteSet(T)
  BY FS_Subset
<1>2. \A U \in SUBSET T : h[U] = Pas(f, h, U) /\ k[U] = Pas(f, k, U)
  <2>1. \A U \in SUBSET T : U \in SUBSET S
    OBVIOUS
  <2>. QED BY <1>1, <2>1, Calculable
<1> HIDE DEF h, k
<1>3. {} \in W
  BY <1>2 DEF Pas
<1>4. ASSUME NEW U \in SUBSET T, U # {}, \A x \in U : U \ {x} \in W PROVE U \in W
  BY <1>2, <1>4, PremierElement DEF Pas
<1> HIDE DEF W
<1>5. T \in W
  BY <1>1, <1>3, <1>4, Retraits
<1>. QED BY <1>5 DEF W, h, k

\* The sum of a set is what this function computes.
LEMMA SommeCalcul ==
  ASSUME NEW f, NEW S
  PROVE  SumFunctionOnSet(f, S) = Calcul(f, SUBSET S)[S]
BY Zenon DEF SumFunctionOnSet, FoldFunctionOnSet, MapThenFoldSet, Calcul, Pas, Premier

-----------------------------------------------------------------------------
(* What a sum is worth *)

\* The sum of nothing is 0.
LEMMA SommeVide ==
  ASSUME NEW f
  PROVE  SumFunctionOnSet(f, {}) = 0
<1>1. {} \in SUBSET {}
  OBVIOUS
<1>2. Calcul(f, SUBSET {})[{}] = Pas(f, Calcul(f, SUBSET {}), {})
  BY <1>1, FS_EmptySet, Calculable
<1>. QED BY <1>2, SommeCalcul DEF Pas

\* The sum of a set is the term of its first element, and the sum of the rest.
LEMMA SommePas ==
  ASSUME NEW f, NEW S, IsFiniteSet(S), S # {}
  PROVE  SumFunctionOnSet(f, S)
           = f[Premier(S)] + SumFunctionOnSet(f, S \ {Premier(S)})
<1> DEFINE h == Calcul(f, SUBSET S)
           T == S \ {Premier(S)}
<1>1. S \in SUBSET S
  OBVIOUS
<1>2. h[T] = Calcul(f, SUBSET T)[T]
  BY Unique
<1> HIDE DEF h
<1>3. h[S] = Pas(f, h, S)
  BY <1>1, Calculable DEF h
<1>. QED BY <1>2, <1>3, SommeCalcul DEF Pas, h

\* The sum of integers is one.
LEMMA SommeEntiere ==
  ASSUME NEW S, IsFiniteSet(S), NEW f, \A x \in S : f[x] \in Int
  PROVE  SumFunctionOnSet(f, S) \in Int
<1> DEFINE W == {T \in SUBSET S : SumFunctionOnSet(f, T) \in Int}
<1>1. {} \in W
  BY SommeVide
<1>2. ASSUME NEW T \in SUBSET S, T # {}, \A x \in T : T \ {x} \in W PROVE T \in W
  <2>1. IsFiniteSet(T)
    BY FS_Subset
  <2>2. Premier(T) \in T /\ T \ {Premier(T)} \in W
    BY <1>2, PremierElement
  <2>. QED BY <1>2, <2>1, <2>2, SommePas
<1> HIDE DEF W
<1>3. S \in W
  BY <1>1, <1>2, Retraits
<1>. QED BY <1>3 DEF W

\* The sum of naturals is one.
LEMMA SommeNaturelle ==
  ASSUME NEW S, IsFiniteSet(S), NEW f, \A x \in S : f[x] \in Nat
  PROVE  SumFunctionOnSet(f, S) \in Nat
<1> DEFINE W == {T \in SUBSET S : SumFunctionOnSet(f, T) \in Nat}
<1>1. {} \in W
  BY SommeVide
<1>2. ASSUME NEW T \in SUBSET S, T # {}, \A x \in T : T \ {x} \in W PROVE T \in W
  <2>1. IsFiniteSet(T)
    BY FS_Subset
  <2>2. Premier(T) \in T /\ T \ {Premier(T)} \in W
    BY <1>2, PremierElement
  <2>. QED BY <1>2, <2>1, <2>2, SommePas
<1> HIDE DEF W
<1>3. S \in W
  BY <1>1, <1>2, Retraits
<1>. QED BY <1>3 DEF W

\* The order does not matter: any element can be taken out first.
LEMMA SommeRetrait ==
  ASSUME NEW S, IsFiniteSet(S), NEW f, \A x \in S : f[x] \in Int, NEW y \in S
  PROVE  SumFunctionOnSet(f, S) = f[y] + SumFunctionOnSet(f, S \ {y})
<1> DEFINE W == {T \in SUBSET S : \A x \in T :
                   SumFunctionOnSet(f, T) = f[x] + SumFunctionOnSet(f, T \ {x})}
<1>1. {} \in W
  OBVIOUS
<1>2. ASSUME NEW T \in SUBSET S, T # {}, \A x \in T : T \ {x} \in W PROVE T \in W
  <2> SUFFICES ASSUME NEW x \in T
               PROVE  SumFunctionOnSet(f, T) = f[x] + SumFunctionOnSet(f, T \ {x})
    OBVIOUS
  <2> DEFINE p == Premier(T)
             R == (T \ {x}) \ {p}
  <2>1. IsFiniteSet(T) /\ IsFiniteSet(R)
    BY FS_Subset
  <2>2. SumFunctionOnSet(f, T) = f[p] + SumFunctionOnSet(f, T \ {p})
    BY <1>2, <2>1, SommePas
  <2>3. CASE x = p
    BY <2>2, <2>3
  <2>4. CASE x # p
    <3>1. p \in T
      BY <1>2, PremierElement
    <3>2. T \ {p} \in W /\ x \in T \ {p} /\ (T \ {p}) \ {x} = R
      BY <1>2, <2>4, <3>1
    <3>3. SumFunctionOnSet(f, T \ {p}) = f[x] + SumFunctionOnSet(f, R)
      BY <3>2
    <3>4. T \ {x} \in W /\ p \in T \ {x}
      BY <1>2, <2>4, <3>1
    <3>5. SumFunctionOnSet(f, T \ {x}) = f[p] + SumFunctionOnSet(f, R)
      BY <3>4
    <3>6. SumFunctionOnSet(f, R) \in Int
      <4>1. \A z \in R : f[z] \in Int
        OBVIOUS
      <4>. QED BY <2>1, <4>1, SommeEntiere
    <3>7. f[x] \in Int /\ f[p] \in Int
      BY <3>1
    <3> HIDE DEF R, p
    <3>. QED BY <2>2, <3>3, <3>5, <3>6, <3>7
  <2>. QED BY <2>3, <2>4
<1> HIDE DEF W
<1>3. S \in W
  BY <1>1, <1>2, Retraits
<1>. QED BY <1>3 DEF W

\* An element more.
LEMMA SommeAjout ==
  ASSUME NEW S, IsFiniteSet(S), NEW y, y \notin S,
         NEW f, \A x \in S \cup {y} : f[x] \in Int
  PROVE  SumFunctionOnSet(f, S \cup {y}) = SumFunctionOnSet(f, S) + f[y]
<1>1. IsFiniteSet(S \cup {y})
  BY FS_AddElement
<1>2. (S \cup {y}) \ {y} = S
  OBVIOUS
<1>3. SumFunctionOnSet(f, S \cup {y}) = f[y] + SumFunctionOnSet(f, S)
  BY <1>1, <1>2, SommeRetrait
<1>4. SumFunctionOnSet(f, S) \in Int /\ f[y] \in Int
  BY SommeEntiere
<1>. QED BY <1>3, <1>4

\* Only the values on the set count.
LEMMA SommeEgale ==
  ASSUME NEW S, IsFiniteSet(S), NEW f, NEW g, \A x \in S : f[x] = g[x]
  PROVE  SumFunctionOnSet(f, S) = SumFunctionOnSet(g, S)
<1> DEFINE W == {T \in SUBSET S : SumFunctionOnSet(f, T) = SumFunctionOnSet(g, T)}
<1>1. {} \in W
  BY SommeVide
<1>2. ASSUME NEW T \in SUBSET S, T # {}, \A x \in T : T \ {x} \in W PROVE T \in W
  <2>1. IsFiniteSet(T)
    BY FS_Subset
  <2>2. Premier(T) \in T /\ T \ {Premier(T)} \in W
    BY <1>2, PremierElement
  <2>. QED BY <1>2, <2>1, <2>2, SommePas
<1> HIDE DEF W
<1>3. S \in W
  BY <1>1, <1>2, Retraits
<1>. QED BY <1>3 DEF W

\* A sum of zeros is 0.
LEMMA SommeNulle ==
  ASSUME NEW S, IsFiniteSet(S), NEW f, \A x \in S : f[x] = 0
  PROVE  SumFunctionOnSet(f, S) = 0
<1> DEFINE W == {T \in SUBSET S : SumFunctionOnSet(f, T) = 0}
<1>1. {} \in W
  BY SommeVide
<1>2. ASSUME NEW T \in SUBSET S, T # {}, \A x \in T : T \ {x} \in W PROVE T \in W
  <2>1. IsFiniteSet(T)
    BY FS_Subset
  <2>2. Premier(T) \in T /\ T \ {Premier(T)} \in W
    BY <1>2, PremierElement
  <2>. QED BY <1>2, <2>1, <2>2, SommePas
<1> HIDE DEF W
<1>3. S \in W
  BY <1>1, <1>2, Retraits
<1>. QED BY <1>3 DEF W

\* The sum of two functions is the sum of their sums.
LEMMA SommeDeDeux ==
  ASSUME NEW S, IsFiniteSet(S), NEW f, NEW g, NEW h,
         \A x \in S : f[x] \in Int /\ g[x] \in Int /\ h[x] = f[x] + g[x]
  PROVE  SumFunctionOnSet(h, S) = SumFunctionOnSet(f, S) + SumFunctionOnSet(g, S)
<1> DEFINE W == {T \in SUBSET S :
                   SumFunctionOnSet(h, T) = SumFunctionOnSet(f, T) + SumFunctionOnSet(g, T)}
<1>1. {} \in W
  BY SommeVide
<1>2. ASSUME NEW T \in SUBSET S, T # {}, \A x \in T : T \ {x} \in W PROVE T \in W
  <2>1. IsFiniteSet(T) /\ IsFiniteSet(T \ {Premier(T)})
    BY FS_Subset
  <2>2. Premier(T) \in T /\ T \ {Premier(T)} \in W
    BY <1>2, PremierElement
  <2>3. /\ SumFunctionOnSet(f, T \ {Premier(T)}) \in Int
        /\ SumFunctionOnSet(g, T \ {Premier(T)}) \in Int
    BY <2>1, SommeEntiere
  <2>4. /\ SumFunctionOnSet(f, T) = f[Premier(T)] + SumFunctionOnSet(f, T \ {Premier(T)})
        /\ SumFunctionOnSet(g, T) = g[Premier(T)] + SumFunctionOnSet(g, T \ {Premier(T)})
        /\ SumFunctionOnSet(h, T) = h[Premier(T)] + SumFunctionOnSet(h, T \ {Premier(T)})
    BY <1>2, <2>1, SommePas
  <2>5. SumFunctionOnSet(h, T) = SumFunctionOnSet(f, T) + SumFunctionOnSet(g, T)
    BY <2>2, <2>3, <2>4
  <2>. QED BY <2>5
<1> HIDE DEF W
<1>3. S \in W
  BY <1>1, <1>2, Retraits
<1>. QED BY <1>3 DEF W

\* What is greater everywhere has a greater sum.
LEMMA SommeCroissante ==
  ASSUME NEW S, IsFiniteSet(S), NEW f, NEW g,
         \A x \in S : f[x] \in Int /\ g[x] \in Int /\ f[x] <= g[x]
  PROVE  SumFunctionOnSet(f, S) <= SumFunctionOnSet(g, S)
<1> DEFINE d == [x \in S |-> g[x] - f[x]]
<1>1. \A x \in S : d[x] \in Nat /\ g[x] = f[x] + d[x]
  OBVIOUS
<1> HIDE DEF d
<1>2. SumFunctionOnSet(g, S) = SumFunctionOnSet(f, S) + SumFunctionOnSet(d, S)
  BY <1>1, SommeDeDeux
<1>3. SumFunctionOnSet(d, S) \in Nat
  BY <1>1, SommeNaturelle
<1>4. SumFunctionOnSet(f, S) \in Int
  BY SommeEntiere
<1>. QED BY <1>2, <1>3, <1>4

\* A sum of naturals is 0 only when each of them is.
LEMMA SommeNulleTermes ==
  ASSUME NEW S, IsFiniteSet(S), NEW f, \A x \in S : f[x] \in Nat,
         SumFunctionOnSet(f, S) = 0, NEW y \in S
  PROVE  f[y] = 0
<1>1. IsFiniteSet(S \ {y})
  BY FS_Subset
<1>2. SumFunctionOnSet(f, S) = f[y] + SumFunctionOnSet(f, S \ {y})
  <2>1. \A x \in S : f[x] \in Int
    OBVIOUS
  <2>. QED BY <2>1, SommeRetrait
<1>3. SumFunctionOnSet(f, S \ {y}) \in Nat
  BY <1>1, SommeNaturelle
<1>. QED BY <1>2, <1>3

\* One term alone changes.
LEMMA SommeUnTerme ==
  ASSUME NEW S, IsFiniteSet(S), NEW y \in S, NEW f, NEW g,
         \A x \in S : f[x] \in Int /\ g[x] \in Int,
         \A x \in S \ {y} : f[x] = g[x]
  PROVE  SumFunctionOnSet(g, S) = SumFunctionOnSet(f, S) + (g[y] - f[y])
<1>1. IsFiniteSet(S \ {y})
  BY FS_Subset
<1>2. /\ SumFunctionOnSet(f, S) = f[y] + SumFunctionOnSet(f, S \ {y})
      /\ SumFunctionOnSet(g, S) = g[y] + SumFunctionOnSet(g, S \ {y})
  BY SommeRetrait
<1>3. SumFunctionOnSet(f, S \ {y}) = SumFunctionOnSet(g, S \ {y})
  BY <1>1, SommeEgale
<1>4. SumFunctionOnSet(f, S \ {y}) \in Int
  BY <1>1, SommeEntiere
<1>. QED BY <1>2, <1>3, <1>4

\* Two sets that share nothing.
LEMMA SommeReunion ==
  ASSUME NEW S, IsFiniteSet(S), NEW P, IsFiniteSet(P), S \cap P = {},
         NEW f, \A x \in S \cup P : f[x] \in Int
  PROVE  SumFunctionOnSet(f, S \cup P) = SumFunctionOnSet(f, S) + SumFunctionOnSet(f, P)
<1> DEFINE W == {T \in SUBSET S :
                   SumFunctionOnSet(f, T \cup P) = SumFunctionOnSet(f, T) + SumFunctionOnSet(f, P)}
<1>1. SumFunctionOnSet(f, P) \in Int
  BY SommeEntiere
<1>2. {} \in W
  <2>1. {} \cup P = P
    OBVIOUS
  <2>. QED BY <1>1, <2>1, SommeVide
<1>3. ASSUME NEW T \in SUBSET S, T # {}, \A x \in T : T \ {x} \in W PROVE T \in W
  <2>1. PICK x \in T : TRUE
    BY <1>3
  <2> DEFINE R == T \ {x}
  <2>2. IsFiniteSet(T) /\ IsFiniteSet(R) /\ IsFiniteSet(T \cup P)
    BY FS_Subset, FS_Union
  <2>3. R \in W
    BY <1>3
  <2>4. SumFunctionOnSet(f, T) = f[x] + SumFunctionOnSet(f, R)
    BY <2>2, SommeRetrait
  <2>5. (T \cup P) \ {x} = R \cup P
    OBVIOUS
  <2>6. SumFunctionOnSet(f, T \cup P) = f[x] + SumFunctionOnSet(f, R \cup P)
    <3>1. \A y \in T \cup P : f[y] \in Int
      OBVIOUS
    <3>. QED BY <2>1, <2>2, <2>5, <3>1, SommeRetrait
  <2>7. SumFunctionOnSet(f, R) \in Int /\ f[x] \in Int
    BY <2>2, SommeEntiere
  <2> HIDE DEF R
  <2>8. SumFunctionOnSet(f, T \cup P) = SumFunctionOnSet(f, T) + SumFunctionOnSet(f, P)
    BY <1>1, <2>3, <2>4, <2>6, <2>7
  <2>. QED BY <2>8
<1> HIDE DEF W
<1>4. S \in W
  BY <1>2, <1>3, Retraits
<1>. QED BY <1>4 DEF W
=============================================================================

--------------------------- MODULE Records_proofs ---------------------------
(***************************************************************************)
(* The services of MCServices that keep counts and records: the acceptance *)
(* counters and the reports to the explorer, the uptime of the pool, the   *)
(* charts of the wallets.  Their properties speak of sums, whose recursion *)
(* is shown to be well defined first.                                      *)
(***************************************************************************)
EXTENDS Services_proofs, Sequences, FiniteSets, FiniteSetsExt, FiniteSetTheorems

(* Sums over finite sets *)

(* Induction over numbers, with a set for the hypothesis.                  *)
LEMMA Numbers ==
  ASSUME NEW P, 0 \in P, \A n \in Nat : n \in P => n + 1 \in P
  PROVE  Nat \subseteq P
<1> SUFFICES ASSUME Nat \ P # {} PROVE FALSE
    OBVIOUS
<1>1. PICK x \in Nat \ P : \A y \in Nat \ P : x <= y
    BY LeastNat
<1>2. x \in Nat /\ x # 0 /\ x - 1 \in Nat
    OBVIOUS
<1>3. x - 1 \in P
    BY <1>1, <1>2
<1>4. (x - 1) + 1 \in P
    BY <1>2, <1>3
<1> QED BY <1>2, <1>4

(* Induction over the subsets of a finite set.                             *)
LEMMA Subsets ==
  ASSUME NEW S, IsFiniteSet(S), NEW P,
         \A T \in SUBSET S : (\A x \in T : T \ {x} \in P) => T \in P
  PROVE  SUBSET S \subseteq P
<1> DEFINE B == (SUBSET S) \ P
           C == {Cardinality(T) : T \in B}
<1> SUFFICES ASSUME B # {} PROVE FALSE
    OBVIOUS
<1>1. \A T \in SUBSET S : Cardinality(T) \in Nat /\ IsFiniteSet(T)
    BY FS_Subset, FS_CardinalityType
<1>2. C \in SUBSET Nat /\ C # {}
    BY <1>1
<1>3. PICK n \in C : \A m \in C : n <= m
  <2> HIDE DEF C
  <2> QED BY <1>2, LeastNat
<1>4. PICK T \in B : n = Cardinality(T)
    OBVIOUS
<1>5. PICK x \in T : T \ {x} \notin P
    BY <1>4
<1>6. T \ {x} \in B
    BY <1>4, <1>5
<1>8. Cardinality(T \ {x}) \in C
  <2> HIDE DEF B
  <2> QED BY <1>6
<1>7. Cardinality(T \ {x}) = n - 1 /\ n \in Nat
    BY <1>1, <1>4, FS_RemoveElement
<1> HIDE DEF C
<1> QED BY <1>3, <1>7, <1>8

Chosen(T) == CHOOSE x \in T : TRUE
Added(g, f, T) == IF T = {} THEN 0 ELSE f[Chosen(T)] + g[T \ {Chosen(T)}]
Adds(g, f, S) == g = [T \in SUBSET S |-> Added(g, f, T)]
Total(f, S) == MapThenSumSet(LAMBDA x : f[x], S)

(* The recursion of a sum over a finite set is well defined.               *)
LEMMA AddsExists ==
  ASSUME NEW S, IsFiniteSet(S), NEW f
  PROVE  \E g : Adds(g, f, S)
<1> DEFINE Upto(g, n) == \A T \in SUBSET S : Cardinality(T) <= n => g[T] = Added(g, f, T)
           P == {n \in Nat : \E g : Upto(g, n)}
<1>1. \A T \in SUBSET S : Cardinality(T) \in Nat /\ IsFiniteSet(T)
    BY FS_Subset, FS_CardinalityType
<1>2. 0 \in P
  <2> DEFINE g == [T \in SUBSET S |-> 0]
  <2>1. ASSUME NEW T \in SUBSET S, Cardinality(T) <= 0 PROVE g[T] = Added(g, f, T)
    <3>1. T = {}
        BY <1>1, <2>1, FS_EmptySet
    <3> QED BY <3>1 DEF Added
  <2> QED BY <2>1
<1>3. ASSUME NEW n \in Nat, n \in P PROVE n + 1 \in P
  <2>1. PICK g : Upto(g, n)
      BY <1>3
  <2> DEFINE h == [T \in SUBSET S |-> Added(g, f, T)]
  <2>2. ASSUME NEW T \in SUBSET S, Cardinality(T) <= n + 1 PROVE h[T] = Added(h, f, T)
    <3>1. CASE T = {}
        BY <3>1 DEF Added
    <3>2. CASE T # {}
      <4> DEFINE x == Chosen(T)
      <4>1. x \in T
          BY <3>2 DEF Chosen
      <4> HIDE DEF x
      <4>2. T \ {x} \in SUBSET S /\ Cardinality(T \ {x}) = Cardinality(T) - 1
          BY <1>1, <4>1, FS_RemoveElement
      <4>3. Cardinality(T \ {x}) <= n
          BY <1>1, <2>2, <4>2
      <4>4. g[T \ {x}] = h[T \ {x}]
          BY <2>1, <4>2, <4>3
      <4>5. h[T] = f[x] + g[T \ {x}] /\ Added(h, f, T) = f[x] + h[T \ {x}]
          BY <3>2 DEF Added, x
      <4> QED BY <4>4, <4>5
    <3> QED BY <3>1, <3>2
  <2>3. Upto(h, n + 1)
      BY <2>2
  <2> HIDE DEF h, Upto
  <2> QED BY <2>3
<1>4. Nat \subseteq P
  <2> HIDE DEF P
  <2> QED BY <1>2, <1>3, Numbers
<1>5. PICK g : Upto(g, Cardinality(S))
    BY <1>1, <1>4
<1> DEFINE h == [T \in SUBSET S |-> g[T]]
<1>6. \A T \in SUBSET S : g[T] = Added(g, f, T)
    BY <1>1, <1>5, FS_Subset
<1>7. \A T \in SUBSET S : Added(g, f, T) = Added(h, f, T)
  <2> SUFFICES ASSUME NEW T \in SUBSET S PROVE Added(g, f, T) = Added(h, f, T)
      OBVIOUS
  <2>1. T \ {Chosen(T)} \in SUBSET S
      OBVIOUS
  <2> QED BY <2>1 DEF Added
<1>8. Adds(h, f, S)
    BY <1>6, <1>7 DEF Adds
<1> QED BY <1>8

AddsUp(g, f, S) ==
  /\ g[{}] = 0
  /\ \A T \in SUBSET S : g[T] \in Int
  /\ \A T \in SUBSET S : \A x \in T : g[T] = f[x] + g[T \ {x}]

(* What such a recursion computes does not depend on the elements chosen.  *)
LEMMA AddsAny ==
  ASSUME NEW S, IsFiniteSet(S), NEW f, \A x \in S : f[x] \in Int, NEW g, Adds(g, f, S)
  PROVE  AddsUp(g, f, S)
<1>1. \A T \in SUBSET S : g[T] = Added(g, f, T)
    BY DEF Adds
<1>2. \A T \in SUBSET S : T # {} => Chosen(T) \in T
    BY DEF Chosen
<1>3. g[{}] = 0
    BY <1>1 DEF Added
<1> DEFINE P == {T \in SUBSET S : g[T] \in Int}
           Q == {T \in SUBSET S : \A x \in T : g[T] = f[x] + g[T \ {x}]}
<1>4. ASSUME NEW T \in SUBSET S, \A x \in T : T \ {x} \in P PROVE T \in P
  <2>1. CASE T = {}
      BY <1>3, <2>1
  <2>2. CASE T # {}
    <3>1. g[T] = f[Chosen(T)] + g[T \ {Chosen(T)}] /\ Chosen(T) \in T
        BY <1>1, <1>2, <2>2 DEF Added
    <3>2. f[Chosen(T)] \in Int /\ g[T \ {Chosen(T)}] \in Int
        BY <1>4, <3>1
    <3> QED BY <3>1, <3>2
  <2> QED BY <2>1, <2>2
<1>5. SUBSET S \subseteq P
  <2> HIDE DEF P
  <2> QED BY <1>4, Subsets
<1>6. \A T \in SUBSET S : g[T] \in Int
    BY <1>5
<1>7. ASSUME NEW T \in SUBSET S, \A x \in T : T \ {x} \in Q PROVE T \in Q
  <2> SUFFICES ASSUME NEW x \in T PROVE g[T] = f[x] + g[T \ {x}]
      OBVIOUS
  <2> DEFINE y == Chosen(T)
  <2>1. g[T] = f[y] + g[T \ {y}] /\ y \in T
      BY <1>1, <1>2 DEF Added
  <2> HIDE DEF y
  <2>2. CASE x = y
      BY <2>1, <2>2
  <2>3. CASE x # y
    <3>1. x \in T \ {y} /\ y \in T \ {x} /\ T \ {y} \in Q /\ T \ {x} \in Q
        BY <1>7, <2>1, <2>3
    <3>2. (T \ {y}) \ {x} = (T \ {x}) \ {y}
        OBVIOUS
    <3>3. g[T \ {y}] = f[x] + g[(T \ {y}) \ {x}] /\ g[T \ {x}] = f[y] + g[(T \ {x}) \ {y}]
        BY <3>1
    <3> DEFINE z == g[(T \ {y}) \ {x}]
    <3>4. f[x] \in Int /\ f[y] \in Int /\ z \in Int
        BY <1>6, <2>1
    <3>5. g[T \ {y}] = f[x] + z /\ g[T \ {x}] = f[y] + z
        BY <3>2, <3>3
    <3> HIDE DEF z
    <3> QED BY <2>1, <3>4, <3>5
  <2> QED BY <2>2, <2>3
<1>8. SUBSET S \subseteq Q
  <2> HIDE DEF Q
  <2> QED BY <1>7, Subsets
<1> QED BY <1>3, <1>6, <1>8 DEF AddsUp

LEMMA AddsAlike ==
  ASSUME NEW S, IsFiniteSet(S), NEW f, \A x \in S : f[x] \in Int, NEW g, Adds(g, f, S),
         NEW R, NEW k, IsFiniteSet(R), \A x \in R : k[x] \in Int, NEW h, Adds(h, k, R)
  PROVE  \A T \in SUBSET (S \cap R) : (\A x \in T : f[x] = k[x]) => g[T] = h[T]
<1> DEFINE P == {T \in SUBSET (S \cap R) : (\A x \in T : f[x] = k[x]) => g[T] = h[T]}
<1>1. IsFiniteSet(S \cap R)
    BY FS_Subset
<1>4. AddsUp(g, f, S) /\ AddsUp(h, k, R)
    BY AddsAny
<1>2. ASSUME NEW T \in SUBSET (S \cap R), \A x \in T : T \ {x} \in P PROVE T \in P
  <2> SUFFICES ASSUME \A x \in T : f[x] = k[x] PROVE g[T] = h[T]
      OBVIOUS
  <2>1. CASE T = {}
      BY <1>4, <2>1 DEF AddsUp
  <2>2. CASE T # {}
    <3>1. PICK x \in T : TRUE
        BY <2>2
    <3>2. T \in SUBSET S /\ T \in SUBSET R
        OBVIOUS
    <3>3. g[T] = f[x] + g[T \ {x}]
        BY <1>4, <3>2 DEF AddsUp
    <3>4. h[T] = k[x] + h[T \ {x}]
        BY <1>4, <3>2 DEF AddsUp
    <3>5. f[x] = k[x] /\ g[T \ {x}] = h[T \ {x}]
        BY <1>2
    <3> QED BY <3>3, <3>4, <3>5
  <2> QED BY <2>1, <2>2
<1>3. SUBSET (S \cap R) \subseteq P
  <2> HIDE DEF P
  <2> QED BY <1>1, <1>2, Subsets
<1> QED BY <1>3

(* What the lemmas above say of Total, which is the sum the models take.   *)
LEMMA TotalAdds ==
  ASSUME NEW S, IsFiniteSet(S), NEW f
  PROVE  \E g : Adds(g, f, S) /\ Total(f, S) = g[S]
<1> DEFINE g == CHOOSE g : Adds(g, f, S)
<1>1. Adds(g, f, S)
    BY AddsExists
<1>2. Total(f, S) = g[S]
    BY DEF Total, MapThenSumSet, MapThenFoldSet, Adds, Added, Chosen
<1> QED BY <1>1, <1>2

(* Any such recursion is the sum.                                          *)
LEMMA AddsTotal ==
  ASSUME NEW S, IsFiniteSet(S), NEW f, \A x \in S : f[x] \in Int, NEW h, Adds(h, f, S)
  PROVE  Total(f, S) = h[S]
<1>1. PICK g : Adds(g, f, S) /\ Total(f, S) = g[S]
    BY TotalAdds
<1>2. \A T \in SUBSET (S \cap S) : (\A x \in T : f[x] = f[x]) => g[T] = h[T]
    BY <1>1, AddsAlike
<1> QED BY <1>1, <1>2

LEMMA TotalEmpty ==
  ASSUME NEW f
  PROVE  Total(f, {}) = 0
<1>1. IsFiniteSet({})
    BY FS_EmptySet
<1>2. PICK g : Adds(g, f, {}) /\ Total(f, {}) = g[{}]
    BY <1>1, TotalAdds
<1>4. AddsUp(g, f, {})
    BY <1>1, <1>2, AddsAny
<1>3. g[{}] = 0
    BY <1>4 DEF AddsUp
<1> QED BY <1>2, <1>3

LEMMA TotalInt ==
  ASSUME NEW S, IsFiniteSet(S), NEW f, \A x \in S : f[x] \in Int
  PROVE  Total(f, S) \in Int
<1>1. PICK g : Adds(g, f, S) /\ Total(f, S) = g[S]
    BY TotalAdds
<1>2. AddsUp(g, f, S)
    BY <1>1, AddsAny
<1> QED BY <1>1, <1>2 DEF AddsUp

(* Sums of functions that agree.                                           *)
LEMMA TotalAlike ==
  ASSUME NEW S, IsFiniteSet(S), NEW f, NEW k, \A x \in S : f[x] \in Int /\ f[x] = k[x]
  PROVE  Total(f, S) = Total(k, S)
<1>1. PICK g : Adds(g, f, S) /\ Total(f, S) = g[S]
    BY TotalAdds
<1>2. PICK h : Adds(h, k, S) /\ Total(k, S) = h[S]
    BY TotalAdds
<1>3. \A T \in SUBSET (S \cap S) : (\A x \in T : f[x] = k[x]) => g[T] = h[T]
    BY <1>1, <1>2, AddsAlike
<1> QED BY <1>1, <1>2, <1>3

(* One element more.                                                       *)
LEMMA TotalMore ==
  ASSUME NEW S, IsFiniteSet(S), NEW x, x \notin S, NEW f, \A y \in S \cup {x} : f[y] \in Int
  PROVE  Total(f, S \cup {x}) = f[x] + Total(f, S)
<1> DEFINE R == S \cup {x}
<1>1. IsFiniteSet(R) /\ R \ {x} = S /\ S \in SUBSET R /\ x \in R /\ R \in SUBSET R
    BY FS_AddElement
<1> HIDE DEF R
<1>2. PICK g : Adds(g, f, R) /\ Total(f, R) = g[R]
    BY <1>1, TotalAdds
<1>3. PICK h : Adds(h, f, S) /\ Total(f, S) = h[S]
    BY TotalAdds
<1>4. \A y \in R : f[y] \in Int
    BY DEF R
<1>9. AddsUp(g, f, R)
    BY <1>1, <1>2, <1>4, AddsAny
<1>5. g[R] = f[x] + g[R \ {x}]
    BY <1>1, <1>9 DEF AddsUp
<1>6. \A y \in S : f[y] \in Int
    OBVIOUS
<1>7. \A T \in SUBSET (R \cap S) : (\A y \in T : f[y] = f[y]) => g[T] = h[T]
    BY <1>1, <1>2, <1>3, <1>4, <1>6, AddsAlike
<1>8. g[S] = h[S]
    BY <1>1, <1>7
<1> QED BY <1>1, <1>2, <1>3, <1>5, <1>8 DEF R

(* A sum over two sets that have nothing in common.                        *)
LEMMA TotalUnion ==
  ASSUME NEW S, IsFiniteSet(S), NEW R, IsFiniteSet(R), S \cap R = {},
         NEW f, \A x \in S \cup R : f[x] \in Int
  PROVE  Total(f, S \cup R) = Total(f, S) + Total(f, R)
<1> DEFINE P == {T \in SUBSET R : Total(f, S \cup T) = Total(f, S) + Total(f, T)}
<1>0. Total(f, S) \in Int
    BY TotalInt
<1>1. ASSUME NEW T \in SUBSET R, \A x \in T : T \ {x} \in P PROVE T \in P
  <2>1. CASE T = {}
    <3>1. S \cup T = S /\ Total(f, T) = 0
        BY <2>1, TotalEmpty
    <3> QED BY <1>0, <2>1, <3>1
  <2>2. CASE T # {}
    <3>1. PICK x \in T : TRUE
        BY <2>2
    <3> DEFINE U == T \ {x}
               V == S \cup U
    <3>2. IsFiniteSet(T)
        BY FS_Subset
    <3>3. IsFiniteSet(U)
        BY <3>2, FS_RemoveElement
    <3>4. IsFiniteSet(V)
        BY <3>3, FS_Union
    <3>5. U \cup {x} = T /\ V \cup {x} = S \cup T /\ x \notin U /\ x \notin V
          /\ (\A y \in U \cup {x} : f[y] \in Int) /\ (\A y \in V \cup {x} : f[y] \in Int)
          /\ f[x] \in Int
        OBVIOUS
    <3>6. Total(f, V) = Total(f, S) + Total(f, U)
        BY <1>1
    <3> HIDE DEF U, V
    <3>7. Total(f, T) = f[x] + Total(f, U)
        BY <3>3, <3>5, TotalMore
    <3>8. Total(f, S \cup T) = f[x] + Total(f, V)
        BY <3>4, <3>5, TotalMore
    <3>9. Total(f, U) \in Int
        BY <3>3, <3>5, TotalInt
    <3>10. Total(f, S \cup T) = Total(f, S) + Total(f, T)
        BY <1>0, <3>5, <3>6, <3>7, <3>8, <3>9
    <3> QED BY <3>10
  <2> QED BY <2>1, <2>2
<1>2. SUBSET R \subseteq P
  <2> HIDE DEF P
  <2> QED BY <1>1, Subsets
<1> QED BY <1>2

(* One value of the function changes.                                      *)
LEMMA TotalChanged ==
  ASSUME NEW S, IsFiniteSet(S), NEW x \in S, NEW f, NEW k, \A y \in S : f[y] \in Int,
         k[x] \in Int, \A y \in S \ {x} : k[y] = f[y]
  PROVE  Total(k, S) = Total(f, S) - f[x] + k[x]
<1> DEFINE T == S \ {x}
<1>1. IsFiniteSet(T) /\ T \cup {x} = S /\ x \notin T
    BY FS_RemoveElement
<1>2. /\ \A y \in T \cup {x} : f[y] \in Int
      /\ \A y \in T \cup {x} : k[y] \in Int
      /\ \A y \in T : f[y] \in Int /\ f[y] = k[y]
      /\ f[x] \in Int
    OBVIOUS
<1> HIDE DEF T
<1>3. Total(f, S) = f[x] + Total(f, T)
    BY <1>1, <1>2, TotalMore
<1>4. Total(k, S) = k[x] + Total(k, T)
    BY <1>1, <1>2, TotalMore
<1>5. Total(f, T) = Total(k, T)
    BY <1>1, <1>2, TotalAlike
<1>6. Total(f, T) \in Int
    BY <1>1, <1>2, TotalInt
<1> QED BY <1>2, <1>3, <1>4, <1>5, <1>6

LEMMA TotalZero ==
  ASSUME NEW S, IsFiniteSet(S), NEW f, \A x \in S : f[x] = 0
  PROVE  Total(f, S) = 0
<1>1. PICK g : Adds(g, f, S) /\ Total(f, S) = g[S]
    BY TotalAdds
<1> DEFINE P == {T \in SUBSET S : g[T] = 0}
<1>2. AddsUp(g, f, S)
    BY <1>1, AddsAny
<1>3. ASSUME NEW T \in SUBSET S, \A x \in T : T \ {x} \in P PROVE T \in P
  <2>1. CASE T = {}
      BY <1>2, <2>1 DEF AddsUp
  <2>2. CASE T # {}
    <3>1. PICK x \in T : TRUE
        BY <2>2
    <3>2. g[T] = f[x] + g[T \ {x}] /\ g[T \ {x}] = 0 /\ f[x] = 0
        BY <1>2, <1>3 DEF AddsUp
    <3> QED BY <3>2
  <2> QED BY <2>1, <2>2
<1>4. SUBSET S \subseteq P
  <2> HIDE DEF P
  <2> QED BY <1>3, Subsets
<1> QED BY <1>1, <1>4

(* A sum of counts is none of them less.                                   *)
LEMMA TotalAtLeast ==
  ASSUME NEW S, IsFiniteSet(S), NEW f, \A x \in S : f[x] \in Nat
  PROVE  Total(f, S) \in Nat /\ \A x \in S : f[x] <= Total(f, S)
<1> DEFINE P == {T \in SUBSET S : Total(f, T) \in Nat}
<1>1. ASSUME NEW T \in SUBSET S, \A x \in T : T \ {x} \in P PROVE T \in P
  <2>1. CASE T = {}
      BY <2>1, TotalEmpty
  <2>2. CASE T # {}
    <3>1. PICK x \in T : TRUE
        BY <2>2
    <3> DEFINE U == T \ {x}
    <3>2. IsFiniteSet(T)
        BY FS_Subset
    <3>3. IsFiniteSet(U) /\ x \notin U /\ U \cup {x} = T /\ (\A y \in U \cup {x} : f[y] \in Int)
        BY <3>2, FS_RemoveElement
    <3>4. Total(f, U) \in Nat /\ f[x] \in Nat
        BY <1>1
    <3> HIDE DEF U
    <3>5. Total(f, T) = f[x] + Total(f, U)
        BY <3>3, TotalMore
    <3> QED BY <3>4, <3>5
  <2> QED BY <2>1, <2>2
<1>2. SUBSET S \subseteq P
  <2> HIDE DEF P
  <2> QED BY <1>1, Subsets
<1>3. ASSUME NEW x \in S PROVE f[x] <= Total(f, S)
  <2> DEFINE U == S \ {x}
  <2>1. IsFiniteSet(U) /\ x \notin U /\ U \cup {x} = S /\ (\A y \in U \cup {x} : f[y] \in Int)
      BY FS_RemoveElement
  <2>2. Total(f, U) \in Nat /\ f[x] \in Nat
      BY <1>2
  <2> HIDE DEF U
  <2>3. Total(f, S) = f[x] + Total(f, U)
      BY <2>1, TotalMore
  <2> QED BY <2>2, <2>3
<1> QED BY <1>2, <1>3

(* More elements, and none of them with less.                              *)
LEMMA TotalGrows ==
  ASSUME NEW R, IsFiniteSet(R), NEW S \in SUBSET R, NEW f, NEW k,
         \A x \in S : f[x] \in Nat /\ f[x] <= k[x], \A x \in R : k[x] \in Nat
  PROVE  Total(f, S) <= Total(k, R)
<1> DEFINE P == {T \in SUBSET R : Total(f, T \cap S) <= Total(k, T)}
<1>1. \A T \in SUBSET R : /\ IsFiniteSet(T) /\ IsFiniteSet(T \cap S)
                          /\ Total(k, T) \in Nat /\ Total(f, T \cap S) \in Nat
  <2> SUFFICES ASSUME NEW T \in SUBSET R
               PROVE /\ IsFiniteSet(T) /\ IsFiniteSet(T \cap S)
                     /\ Total(k, T) \in Nat /\ Total(f, T \cap S) \in Nat
      OBVIOUS
  <2>1. IsFiniteSet(T) /\ IsFiniteSet(T \cap S)
      BY FS_Subset
  <2>2. Total(k, T) \in Nat
      BY <2>1, TotalAtLeast
  <2>3. \A x \in T \cap S : f[x] \in Nat
      OBVIOUS
  <2>4. Total(f, T \cap S) \in Nat
      BY <2>1, <2>3, TotalAtLeast
  <2> QED BY <2>1, <2>2, <2>4
<1>2. ASSUME NEW T \in SUBSET R, \A x \in T : T \ {x} \in P PROVE T \in P
  <2>1. CASE T = {}
    <3>1. T \cap S = {}
        BY <2>1
    <3> QED BY <2>1, <3>1, TotalEmpty
  <2>2. CASE T # {}
    <3>1. PICK x \in T : TRUE
        BY <2>2
    <3> DEFINE U == T \ {x}
               V == U \cap S
    <3>2. Total(f, V) <= Total(k, U)
        BY <1>2
    <3>3. /\ IsFiniteSet(U) /\ x \notin U /\ U \cup {x} = T
          /\ (\A y \in U \cup {x} : k[y] \in Int)
          /\ Total(k, U) \in Nat /\ k[x] \in Nat
          /\ IsFiniteSet(V) /\ Total(f, V) \in Nat /\ x \notin V
        BY <1>1
    <3>4. /\ x \in S => T \cap S = V \cup {x} /\ (\A y \in V \cup {x} : f[y] \in Int)
                        /\ f[x] \in Nat /\ f[x] <= k[x]
          /\ x \notin S => T \cap S = V
        OBVIOUS
    <3> HIDE DEF U, V
    <3>5. Total(k, T) = k[x] + Total(k, U)
        BY <3>3, TotalMore
    <3>6. CASE x \in S
      <4>1. Total(f, T \cap S) = f[x] + Total(f, V)
          BY <3>3, <3>4, <3>6, TotalMore
      <4>2. Total(f, T \cap S) <= Total(k, T)
          BY <3>2, <3>3, <3>4, <3>5, <3>6, <4>1
      <4> QED BY <4>2
    <3>7. CASE x \notin S
      <4>1. Total(f, T \cap S) = Total(f, V)
          BY <3>4, <3>7
      <4>2. Total(f, V) <= Total(k, T)
          BY <3>2, <3>3, <3>5
      <4> QED BY <4>1, <4>2
    <3> QED BY <3>6, <3>7
  <2> QED BY <2>1, <2>2
<1>3. SUBSET R \subseteq P
  <2> HIDE DEF P
  <2> QED BY <1>2, Subsets
<1>4. R \in P /\ R \cap S = S
    BY <1>3
<1> QED BY <1>4

(* Sums of a sum of functions.                                             *)
LEMMA TotalPlus ==
  ASSUME NEW S, IsFiniteSet(S), NEW f, NEW g, NEW k,
         \A x \in S : f[x] \in Int /\ g[x] \in Int /\ k[x] = f[x] + g[x]
  PROVE  Total(k, S) = Total(f, S) + Total(g, S)
<1> DEFINE P == {T \in SUBSET S : Total(k, T) = Total(f, T) + Total(g, T)}
<1>1. ASSUME NEW T \in SUBSET S, \A x \in T : T \ {x} \in P PROVE T \in P
  <2>1. CASE T = {}
    <3>1. Total(k, {}) = Total(f, {}) + Total(g, {})
        BY TotalEmpty
    <3> QED BY <2>1, <3>1
  <2>2. CASE T # {}
    <3>1. PICK x \in T : TRUE
        BY <2>2
    <3> DEFINE U == T \ {x}
    <3>2. Total(k, U) = Total(f, U) + Total(g, U)
        BY <1>1
    <3>3. IsFiniteSet(T)
        BY FS_Subset
    <3>4. IsFiniteSet(U) /\ x \notin U /\ U \cup {x} = T /\ U \subseteq S /\ x \in S
        BY <3>3, FS_RemoveElement
    <3> HIDE DEF U
    <3>5. /\ \A y \in U \cup {x} : f[y] \in Int
          /\ \A y \in U \cup {x} : g[y] \in Int
          /\ \A y \in U \cup {x} : k[y] \in Int
          /\ f[x] \in Int /\ g[x] \in Int /\ k[x] = f[x] + g[x]
        BY <3>4
    <3>6. Total(f, T) = f[x] + Total(f, U) /\ Total(f, U) \in Int
        BY <3>4, <3>5, TotalMore, TotalInt
    <3>7. Total(g, T) = g[x] + Total(g, U) /\ Total(g, U) \in Int
        BY <3>4, <3>5, TotalMore, TotalInt
    <3>8. Total(k, T) = k[x] + Total(k, U)
        BY <3>4, <3>5, TotalMore
    <3>9. Total(k, T) = Total(f, T) + Total(g, T)
        BY <3>2, <3>5, <3>6, <3>7, <3>8
    <3> QED BY <3>9
  <2> QED BY <2>1, <2>2
<1>2. SUBSET S \subseteq P
  <2> HIDE DEF P
  <2> QED BY <1>1, Subsets
<1> QED BY <1>2

Transposed(row, col, H, O) ==
  \A h \in H : \A o \in O : row[h][o] \in Int /\ col[o][h] = row[h][o]
SumsOf(f, row, H, O) == \A h \in H : f[h] = Total(row[h], O)

(* The sum of a table by its rows is the one by its columns.               *)
LEMMA TotalSwapped ==
  ASSUME NEW H, NEW O, NEW row, NEW col, NEW f, NEW g,
         IsFiniteSet(H), IsFiniteSet(O), Transposed(row, col, H, O),
         SumsOf(f, row, H, O), SumsOf(g, col, O, H)
  PROVE  Total(f, H) = Total(g, O)
<1> DEFINE F(T) == [h \in H |-> Total(row[h], T)]
           P == {T \in SUBSET O : Total(F(T), H) = Total(g, T)}
<1>9. /\ \A h \in H : \A o \in O : row[h][o] \in Int /\ col[o][h] = row[h][o]
      /\ \A h \in H : f[h] = Total(row[h], O)
      /\ \A o \in O : g[o] = Total(col[o], H)
    BY DEF Transposed, SumsOf
<1>0. \A T \in SUBSET O : \A h \in H : IsFiniteSet(T) /\ F(T)[h] = Total(row[h], T) /\ F(T)[h] \in Int
  <2> SUFFICES ASSUME NEW T \in SUBSET O, NEW h \in H
               PROVE IsFiniteSet(T) /\ F(T)[h] = Total(row[h], T) /\ F(T)[h] \in Int
      OBVIOUS
  <2>1. IsFiniteSet(T)
      BY FS_Subset
  <2>2. \A o \in T : row[h][o] \in Int
      BY <1>9
  <2>3. Total(row[h], T) \in Int
      BY <2>1, <2>2, TotalInt
  <2> QED BY <2>1, <2>3
<1>1. ASSUME NEW T \in SUBSET O, \A x \in T : T \ {x} \in P PROVE T \in P
  <2>1. CASE T = {}
    <3>1. \A h \in H : F({})[h] = 0
        BY TotalEmpty
    <3>2. Total(F({}), H) = 0 /\ Total(g, {}) = 0
      <4> HIDE DEF F
      <4> QED BY <3>1, TotalZero, TotalEmpty
    <3> QED BY <2>1, <3>2
  <2>2. CASE T # {}
    <3>1. PICK x \in T : TRUE
        BY <2>2
    <3> DEFINE U == T \ {x}
               c == col[x]
               a == F(U)
               b == F(T)
    <3>2. Total(a, H) = Total(g, U)
        BY <1>1
    <3>3. U \in SUBSET O /\ x \in O /\ x \notin U /\ U \cup {x} = T
        OBVIOUS
    <3>4. IsFiniteSet(U) /\ IsFiniteSet(T)
        BY <3>3, FS_Subset
    <3> HIDE DEF U
    <3>5. ASSUME NEW h \in H PROVE a[h] \in Int /\ c[h] \in Int /\ b[h] = a[h] + c[h]
      <4>1. a[h] = Total(row[h], U) /\ a[h] \in Int /\ b[h] = Total(row[h], T)
          BY <1>0, <3>3
      <4>2. \A o \in U \cup {x} : row[h][o] \in Int
          BY <1>9, <3>3
      <4>3. Total(row[h], T) = row[h][x] + Total(row[h], U)
          BY <3>3, <3>4, <4>2, TotalMore
      <4>4. c[h] = row[h][x] /\ c[h] \in Int
          BY <1>9, <3>3
      <4> HIDE DEF a, b, c
      <4> QED BY <4>1, <4>3, <4>4
    <3> HIDE DEF a, b, c, F
    <3>6. Total(b, H) = Total(a, H) + Total(c, H)
        BY <3>5, TotalPlus
    <3>7. \A o \in O : g[o] \in Int
      <4> SUFFICES ASSUME NEW o \in O PROVE Total(col[o], H) \in Int
          BY <1>9
      <4>1. \A h \in H : col[o][h] \in Int
          BY <1>9
      <4> QED BY <4>1, TotalInt
    <3>8. \A o \in U \cup {x} : g[o] \in Int
        BY <3>3, <3>7
    <3>9. Total(g, T) = g[x] + Total(g, U) /\ Total(g, U) \in Int /\ g[x] \in Int
        BY <3>3, <3>4, <3>8, TotalMore, TotalInt
    <3>10. g[x] = Total(c, H)
        BY <1>9, <3>3 DEF c
    <3>11. Total(b, H) = Total(g, T)
        BY <3>2, <3>6, <3>9, <3>10
    <3> QED BY <3>11 DEF b
  <2> QED BY <2>1, <2>2
<1>2. SUBSET O \subseteq P
  <2> HIDE DEF P
  <2> QED BY <1>1, Subsets
<1>3. Total(F(O), H) = Total(g, O)
    BY <1>2
<1>4. \A h \in H : f[h] = F(O)[h] /\ f[h] \in Int
    BY <1>0, <1>9
<1>5. Total(f, H) = Total(F(O), H)
  <2> HIDE DEF F
  <2> QED BY <1>4, TotalAlike
<1> QED BY <1>3, <1>5

-----------------------------------------------------------------------------
(* Reporting *)

LEMMA ReportFrame ==
  [ServicesNext]_all /\ service = "reporting" =>
      service' = "reporting" /\ [Report!Next]_Report!vars
<1> QED
    BY DEF all, ServicesNext, LockRuns, HeatRuns, CpuRuns, PowerRuns, UptimeRuns, IniRuns,
       ReportRuns, BalancesRuns, UpgradeRuns, VramRuns, SnapsRuns, reporting, Report!vars

LEMMA ReportRests ==
  [ServicesNext]_all /\ service # "reporting" => UNCHANGED Report!vars
<1> QED
    BY DEF all, ServicesNext, LockRuns, HeatRuns, CpuRuns, PowerRuns, UptimeRuns, IniRuns,
       ReportRuns, BalancesRuns, UpgradeRuns, VramRuns, SnapsRuns, reporting, Report!vars

JobType == [kind : {"event", "holdings", "heartbeat", "history"}, n : Nat]

(* The jobs of a producer in a sequence have n or more.                    *)
AtLeast(p, n, s) == \A i \in 1..Len(s) : Report!Source(s[i]) = p => n <= s[i].n

(* The jobs of a producer in a sequence do not fall.                       *)
Rising(p, s) ==
  \A i, j \in 1..Len(s) :
      i < j /\ Report!Source(s[i]) = p /\ Report!Source(s[j]) = p => s[i].n <= s[j].n

(* No job of a sequence is a producer's with more than n.                  *)
AtMost(p, n, s) == \A i \in 1..Len(s) : Report!Source(s[i]) = p => s[i].n <= n

Of(p, s) == \A i \in 1..Len(s) : Report!Source(s[i]) = p

MainType == [at : {"loop", "count", "store", "report", "reporting", "down"}, session : Nat,
             count : Nat, due : Nat, live : BOOLEAN, beats : Nat, history : Nat]

ReportTypes ==
  /\ main \in MainType
  /\ rows \in Nat
  /\ putter \in [Report!Producer -> [at : {"idle", "put", "again", "evict"}, todo : Seq(JobType)]]
  /\ \A p \in Report!Producer :
        /\ putter[p].at # "idle" => putter[p].todo # <<>>
        /\ Of(p, putter[p].todo)
  /\ jobs \in Seq(JobType)
  /\ post \in JobType \cup {Report!NoJob}
  /\ heard \in [Report!Producer -> Nat]

(* What is heard, posted, queued and about to be queued comes in order.    *)
InOrder(p) ==
  /\ AtLeast(p, heard[p], jobs) /\ AtLeast(p, heard[p], putter[p].todo)
  /\ Rising(p, jobs) /\ Rising(p, putter[p].todo)
  /\ \A i \in 1..Len(jobs) :
        Report!Source(jobs[i]) = p => AtLeast(p, jobs[i].n, putter[p].todo)
  /\ post # Report!NoJob /\ Report!Source(post) = p =>
        /\ heard[p] <= post.n
        /\ AtLeast(p, post.n, jobs) /\ AtLeast(p, post.n, putter[p].todo)

(* No more is reported of a producer than n.                               *)
UpTo(p, n) ==
  /\ heard[p] <= n
  /\ AtMost(p, n, jobs) /\ AtMost(p, n, putter[p].todo)
  /\ post # Report!NoJob /\ Report!Source(post) = p => post.n <= n

(* The backfill of a session is still to come, or has been the only one.   *)
ReportInv ==
  /\ ReportTypes
  /\ \A p \in Report!Producer : main.at # "down" => InOrder(p)
  /\ main.at # "down" => UpTo("miner", main.count)
  /\ main.at # "down" /\ main.history > 0 =>
        UpTo("backfill", 0) /\ putter["backfill"].todo = <<>>
  /\ main.at = "down" => putter = Report!NoPutter /\ jobs = <<>> /\ post = Report!NoJob

LEMMA Sources ==
  ASSUME NEW job \in JobType
  PROVE  Report!Source(job) \in Report!Producer
<1> QED BY DEF Report!Source, Report!Producer

LEMMA TailRises ==
  ASSUME NEW s \in Seq(JobType), s # <<>>, NEW p \in Report!Producer
  PROVE  /\ Tail(s) \in Seq(JobType) /\ Head(s) \in JobType
         /\ Head(s) = s[1] /\ 1 \in 1..Len(s)
         /\ Len(Tail(s)) = Len(s) - 1
         /\ \A i \in 1..Len(Tail(s)) : Tail(s)[i] = s[i + 1] /\ i + 1 \in 1..Len(s)
         /\ Rising(p, s) => Rising(p, Tail(s))
         /\ Rising(p, s) /\ Report!Source(Head(s)) = p => AtLeast(p, Head(s).n, Tail(s))
         /\ \A n \in Int : AtLeast(p, n, s) => AtLeast(p, n, Tail(s))
         /\ \A n \in Int : AtMost(p, n, s) => AtMost(p, n, Tail(s))
         /\ Of(p, s) => Of(p, Tail(s)) /\ Report!Source(Head(s)) = p
<1>1. /\ Tail(s) \in Seq(JobType) /\ Head(s) \in JobType
      /\ Head(s) = s[1] /\ 1 \in 1..Len(s) /\ Len(Tail(s)) = Len(s) - 1
      /\ \A i \in 1..Len(Tail(s)) : Tail(s)[i] = s[i + 1] /\ i + 1 \in 1..Len(s)
    OBVIOUS
<1>3. Len(s) \in Nat
    OBVIOUS
<1>4. Rising(p, s) => Rising(p, Tail(s))
  <2> SUFFICES ASSUME Rising(p, s), NEW i \in 1..Len(Tail(s)), NEW j \in 1..Len(Tail(s)), i < j,
                      Report!Source(Tail(s)[i]) = p, Report!Source(Tail(s)[j]) = p
               PROVE  Tail(s)[i].n <= Tail(s)[j].n
      BY DEF Rising
  <2>1. /\ Tail(s)[i] = s[i + 1] /\ Tail(s)[j] = s[j + 1] /\ i + 1 < j + 1
        /\ i + 1 \in 1..Len(s) /\ j + 1 \in 1..Len(s)
      BY <1>1, <1>3
  <2> QED BY <2>1 DEF Rising
<1>5. Rising(p, s) /\ Report!Source(Head(s)) = p => AtLeast(p, Head(s).n, Tail(s))
  <2> SUFFICES ASSUME Rising(p, s), Report!Source(Head(s)) = p, NEW i \in 1..Len(Tail(s)),
                      Report!Source(Tail(s)[i]) = p
               PROVE  Head(s).n <= Tail(s)[i].n
      BY DEF AtLeast
  <2>1. Tail(s)[i] = s[i + 1] /\ 1 < i + 1 /\ i + 1 \in 1..Len(s)
      BY <1>1, <1>3
  <2> QED BY <1>1, <2>1 DEF Rising
<1>6. /\ \A n \in Int : AtLeast(p, n, s) => AtLeast(p, n, Tail(s))
      /\ \A n \in Int : AtMost(p, n, s) => AtMost(p, n, Tail(s))
      /\ Of(p, s) => Of(p, Tail(s)) /\ Report!Source(Head(s)) = p
    BY <1>1 DEF AtLeast, AtMost, Of
<1> QED BY <1>1, <1>4, <1>5, <1>6

LEMMA AppendRises ==
  ASSUME NEW s \in Seq(JobType), NEW job \in JobType, NEW p \in Report!Producer
  PROVE  /\ Append(s, job) \in Seq(JobType)
         /\ Rising(p, s) /\ (Report!Source(job) = p => AtMost(p, job.n, s)) =>
                Rising(p, Append(s, job))
         /\ \A n \in Int : AtLeast(p, n, s) /\ (Report!Source(job) = p => n <= job.n) =>
                AtLeast(p, n, Append(s, job))
         /\ \A n \in Int : AtMost(p, n, s) /\ (Report!Source(job) = p => job.n <= n) =>
                AtMost(p, n, Append(s, job))
         /\ Len(Append(s, job)) = Len(s) + 1 /\ Append(s, job)[Len(s) + 1] = job
         /\ \A i \in 1..Len(s) : Append(s, job)[i] = s[i]
<1> DEFINE t == Append(s, job)
<1>1. /\ t \in Seq(JobType) /\ Len(t) = Len(s) + 1 /\ t[Len(s) + 1] = job
      /\ \A i \in 1..Len(s) : t[i] = s[i]
    OBVIOUS
<1>2. Len(s) \in Nat /\ \A i \in 1..Len(t) : i \in 1..Len(s) \/ i = Len(s) + 1
    BY <1>1
<1> HIDE DEF t
<1>3. Rising(p, s) /\ (Report!Source(job) = p => AtMost(p, job.n, s)) => Rising(p, t)
  <2> SUFFICES ASSUME Rising(p, s), Report!Source(job) = p => AtMost(p, job.n, s),
                      NEW i \in 1..Len(t), NEW j \in 1..Len(t), i < j,
                      Report!Source(t[i]) = p, Report!Source(t[j]) = p
               PROVE  t[i].n <= t[j].n
      BY DEF Rising
  <2>1. i \in 1..Len(s)
      BY <1>1, <1>2
  <2>2. CASE j \in 1..Len(s)
      BY <1>1, <2>1, <2>2 DEF Rising
  <2>3. CASE j = Len(s) + 1
      BY <1>1, <2>1, <2>3 DEF AtMost
  <2> QED BY <1>2, <2>2, <2>3
<1>4. \A n \in Int : AtLeast(p, n, s) /\ (Report!Source(job) = p => n <= job.n) => AtLeast(p, n, t)
    BY <1>1, <1>2 DEF AtLeast
<1>5. \A n \in Int : AtMost(p, n, s) /\ (Report!Source(job) = p => job.n <= n) => AtMost(p, n, t)
    BY <1>1, <1>2 DEF AtMost
<1> QED BY <1>1, <1>3, <1>4, <1>5 DEF t

LEMMA Positions ==
  ASSUME NEW s \in Seq(JobType)
  PROVE  \A i \in 1..Len(s) : s[i] \in JobType /\ s[i].n \in Nat
<1>1. \A i \in 1..Len(s) : s[i] \in JobType
    OBVIOUS
<1>2. \A job \in JobType : job.n \in Nat
    BY DEF JobType
<1> QED BY <1>1, <1>2

(* Nothing reported changes, and the count only grows.                     *)
LEMMA MainMoves ==
  ASSUME ReportInv, UNCHANGED <<putter, jobs, post, heard>>, ReportTypes',
         main'.at = "down" <=> main.at = "down", main'.count >= main.count,
         main'.history \in {main.history, 0}
  PROVE  ReportInv'
<1>1. /\ main.count \in Nat /\ main'.count \in Nat /\ jobs \in Seq(JobType)
      /\ putter["miner"].todo \in Seq(JobType) /\ heard["miner"] \in Nat
      /\ post # Report!NoJob => post.n \in Nat
    BY DEF ReportInv, ReportTypes, MainType, Report!Producer, JobType
<1>2. main'.at # "down" => UpTo("miner", main.count)'
  <2> SUFFICES ASSUME main'.at # "down" PROVE UpTo("miner", main.count)'
      OBVIOUS
  <2>1. UpTo("miner", main.count)
      BY DEF ReportInv
  <2>2. \A s \in Seq(JobType) : AtMost("miner", main.count, s) => AtMost("miner", main'.count, s)
      BY <1>1, Positions DEF AtMost
  <2>3. /\ heard["miner"] <= main'.count
        /\ AtMost("miner", main'.count, jobs) /\ AtMost("miner", main'.count, putter["miner"].todo)
        /\ post # Report!NoJob /\ Report!Source(post) = "miner" => post.n <= main'.count
      BY <1>1, <2>1, <2>2 DEF UpTo
  <2> QED BY <2>3 DEF UpTo
<1>3. \A p \in Report!Producer : main'.at # "down" => InOrder(p)'
    BY DEF ReportInv, InOrder, AtLeast, Rising
<1>4. main'.at # "down" /\ main'.history > 0 => UpTo("backfill", 0)' /\ putter'["backfill"].todo = <<>>
    BY <1>1 DEF ReportInv, ReportTypes, MainType, UpTo
<1> QED BY <1>2, <1>3, <1>4 DEF ReportInv

(* A producer begins to put jobs that come after all it has put.           *)
LEMMA CallsBegin ==
  ASSUME ReportInv, NEW p \in Report!Producer, NEW todo \in Seq(JobType), todo # <<>>,
         Of(p, todo), Rising(p, todo), NEW k \in Nat, UpTo(p, k), AtLeast(p, k, todo),
         Report!Calls(p, todo), UNCHANGED <<rows, jobs, post, heard>>,
         main.at # "down", main'.at # "down",
         p = "miner" => AtMost(p, main.count, todo) /\ main'.history = main.history,
         p = "backfill" => main'.history = 0,
         main'.count = main.count,
         main' \in MainType
  PROVE  ReportInv'
<1>1. /\ putter' = [putter EXCEPT ![p] = [at |-> "put", todo |-> todo]]
      /\ putter'[p] = [at |-> "put", todo |-> todo]
      /\ \A q \in Report!Producer : q # p => putter'[q] = putter[q]
    BY DEF ReportInv, ReportTypes, Report!Calls
<1>2. ReportTypes'
    BY <1>1 DEF ReportInv, ReportTypes
<1>3. InOrder(p)'
  <2>1. AtLeast(p, heard[p], todo)
    <3>1. heard[p] \in Nat /\ heard[p] <= k
        BY DEF UpTo, ReportInv, ReportTypes
    <3> QED BY <3>1, Positions DEF AtLeast
  <2>2. \A i \in 1..Len(jobs) : Report!Source(jobs[i]) = p => AtLeast(p, jobs[i].n, todo)
    <3>1. jobs \in Seq(JobType) /\ AtMost(p, k, jobs)
        BY DEF UpTo, ReportInv, ReportTypes
    <3>2. \A i \in 1..Len(jobs) : jobs[i].n \in Nat
        BY <3>1, Positions
    <3> QED BY <3>1, <3>2, Positions DEF AtLeast, AtMost
  <2>3. post # Report!NoJob /\ Report!Source(post) = p => AtLeast(p, post.n, todo)
    <3>1. post # Report!NoJob => post.n \in Nat
        BY DEF ReportInv, ReportTypes, JobType
    <3> QED BY <3>1, Positions DEF UpTo, AtLeast
  <2>4. InOrder(p)
      BY DEF ReportInv
  <2>5. putter'[p].todo = todo
      BY <1>1
  <2> QED BY <2>1, <2>2, <2>3, <2>4, <2>5 DEF InOrder, AtLeast, Rising
<1>4. ASSUME NEW q \in Report!Producer, q # p PROVE InOrder(q)'
  <2>1. putter'[q] = putter[q] /\ InOrder(q)
      BY <1>1, <1>4 DEF ReportInv
  <2> QED BY <2>1 DEF InOrder, AtLeast, Rising
<1>5. UpTo("miner", main.count)'
  <2>1. UpTo("miner", main.count)
      BY DEF ReportInv
  <2>2. AtMost("miner", main.count, putter'["miner"].todo)
      BY <1>1, <2>1 DEF UpTo, Report!Producer
  <2> QED BY <2>1, <2>2 DEF UpTo
<1>6. main'.history > 0 => UpTo("backfill", 0)' /\ putter'["backfill"].todo = <<>>
  <2> SUFFICES ASSUME main'.history > 0
               PROVE  UpTo("backfill", 0)' /\ putter'["backfill"].todo = <<>>
      OBVIOUS
  <2>1. p = "miner" /\ main.history > 0
      BY DEF Report!Producer
  <2>2. UpTo("backfill", 0) /\ putter["backfill"].todo = <<>> /\ putter'["backfill"] = putter["backfill"]
      BY <1>1, <2>1 DEF ReportInv, Report!Producer
  <2> QED BY <2>2 DEF UpTo
<1> QED BY <1>2, <1>3, <1>4, <1>5, <1>6 DEF ReportInv

LEMMA ReportCalls ==
  ASSUME ReportInv
  PROVE  Report!ReportAccept \/ Report!ReportHoldings \/ Report!Backfill => ReportInv'
<1>0. /\ main.count \in Nat /\ main.history \in Nat
      /\ "miner" \in Report!Producer /\ "backfill" \in Report!Producer
    BY DEF ReportInv, ReportTypes, MainType, Report!Producer
<1>1. ASSUME Report!ReportAccept PROVE ReportInv'
  <2> DEFINE todo == <<Report!Job("event", main.count)>>
  <2>1. /\ todo \in Seq(JobType) /\ todo # <<>>
        /\ Len(todo) = 1 /\ todo[1].n = main.count /\ Report!Source(todo[1]) = "miner"
      BY <1>0 DEF JobType, Report!Job, Report!Source
  <2>2. Report!Calls("miner", todo)
      BY <1>1 DEF Report!ReportAccept
  <2> HIDE DEF todo
  <2>3. /\ Of("miner", todo) /\ Rising("miner", todo)
        /\ AtLeast("miner", main.count, todo) /\ AtMost("miner", main.count, todo)
      BY <1>0, <2>1 DEF Of, Rising, AtLeast, AtMost
  <2>4. /\ main.at = "report" /\ main' = [main EXCEPT !.at = "reporting"]
        /\ UNCHANGED <<rows, jobs, post, heard>>
      BY <1>1 DEF Report!ReportAccept, Report!Goes
  <2>5. /\ main'.at = "reporting" /\ main'.count = main.count /\ main'.history = main.history
        /\ main' \in MainType
      BY <2>4 DEF ReportInv, ReportTypes, MainType
  <2>6. UpTo("miner", main.count)
      BY <2>4 DEF ReportInv
  <2> QED BY <1>0, <2>1, <2>2, <2>3, <2>4, <2>5, <2>6, CallsBegin
<1>2. ASSUME Report!ReportHoldings PROVE ReportInv'
  <2> DEFINE todo == <<Report!Job("holdings", main.count), Report!Job("heartbeat", main.count)>>
  <2>1. /\ todo \in Seq(JobType) /\ todo # <<>>
        /\ Len(todo) = 2
        /\ \A i \in 1..2 : todo[i].n = main.count /\ Report!Source(todo[i]) = "miner"
      BY <1>0 DEF JobType, Report!Job, Report!Source
  <2>2. Report!Calls("miner", todo)
      BY <1>2 DEF Report!ReportHoldings
  <2> HIDE DEF todo
  <2>3. /\ Of("miner", todo) /\ Rising("miner", todo)
        /\ AtLeast("miner", main.count, todo) /\ AtMost("miner", main.count, todo)
      BY <1>0, <2>1 DEF Of, Rising, AtLeast, AtMost
  <2>4. /\ main.at = "loop" /\ main' = [main EXCEPT !.at = "reporting", !.beats = @ + 1]
        /\ UNCHANGED <<rows, jobs, post, heard>>
      BY <1>2 DEF Report!ReportHoldings
  <2>5. /\ main'.at = "reporting" /\ main'.count = main.count /\ main'.history = main.history
        /\ main' \in MainType
    <3>1. main \in MainType /\ main.beats + 1 \in Nat
        BY DEF ReportInv, ReportTypes, MainType
    <3>2. \A x \in Nat : LET m == [main EXCEPT !.at = "reporting", !.beats = x]
                         IN  /\ m \in MainType /\ m.at = "reporting" /\ m.count = main.count
                             /\ m.history = main.history
        BY <3>1 DEF MainType
    <3> QED BY <2>4, <3>1, <3>2
  <2>6. UpTo("miner", main.count)
      BY <2>4 DEF ReportInv
  <2> QED BY <1>0, <2>1, <2>2, <2>3, <2>4, <2>5, <2>6, CallsBegin
<1>3. ASSUME Report!Backfill PROVE ReportInv'
  <2> DEFINE todo == [i \in 1..main.history |-> Report!Job("history", i)]
  <2>0. main.history > 0
      BY <1>3 DEF Report!Backfill
  <2>1. /\ todo \in Seq(JobType) /\ todo # <<>>
        /\ Len(todo) = main.history
        /\ \A i \in 1..Len(todo) : todo[i].n = i /\ Report!Source(todo[i]) = "backfill"
    <3>1. \A i \in 1..main.history : Report!Job("history", i) \in JobType
        BY <1>0 DEF JobType, Report!Job
    <3>2. todo \in Seq(JobType) /\ Len(todo) = main.history
        BY <1>0, <3>1
    <3>3. \A i \in 1..main.history : Report!Job("history", i).n = i
              /\ Report!Source(Report!Job("history", i)) = "backfill"
        BY DEF Report!Job, Report!Source
    <3>4. \A i \in 1..Len(todo) : todo[i].n = i /\ Report!Source(todo[i]) = "backfill"
        BY <3>2, <3>3
    <3> HIDE DEF todo
    <3> QED BY <1>0, <2>0, <3>2, <3>4
  <2>2. Report!Calls("backfill", todo)
      BY <1>3 DEF Report!Backfill
  <2> HIDE DEF todo
  <2>3. /\ Of("backfill", todo) /\ Rising("backfill", todo) /\ AtLeast("backfill", 0, todo)
      BY <1>0, <2>1 DEF Of, Rising, AtLeast
  <2>4. /\ main.at # "down" /\ main' = [main EXCEPT !.history = 0]
        /\ UNCHANGED <<rows, jobs, post, heard>>
      BY <1>3 DEF Report!Backfill
  <2>5. /\ main'.at # "down" /\ main'.count = main.count /\ main'.history = 0
        /\ main' \in MainType
      BY <2>4 DEF ReportInv, ReportTypes, MainType
  <2>6. UpTo("backfill", 0)
      BY <2>0, <2>4 DEF ReportInv
  <2> QED BY <1>0, <2>1, <2>2, <2>3, <2>4, <2>5, <2>6, CallsBegin
<1> QED BY <1>1, <1>2, <1>3

LEMMA ReportMain ==
  ASSUME ReportInv
  PROVE  \/ Report!AcceptLive \/ Report!RecordAccept \/ Report!RecordDirectSubmit
         \/ Report!Reported \/ Report!Rollover \/ (\E n \in 1..2 : Report!AcceptFlush(n))
         => ReportInv'
<1>0. main \in MainType /\ main.count \in Nat /\ main.due \in Nat /\ rows \in Nat
    BY DEF ReportInv, ReportTypes, MainType
<1>1. ASSUME Report!AcceptLive PROVE ReportInv'
  <2>1. UNCHANGED <<rows, putter, jobs, post, heard>> /\ main.at = "loop"
        /\ main' = [main EXCEPT !.at = "count", !.due = 1, !.live = TRUE]
      BY <1>1 DEF Report!AcceptLive
  <2>2. main' \in MainType /\ main'.at = "count" /\ main'.count = main.count
        /\ main'.history = main.history
      BY <1>0, <2>1 DEF MainType
  <2>3. ReportTypes'
      BY <2>1, <2>2 DEF ReportInv, ReportTypes
  <2> QED BY <1>0, <2>1, <2>2, <2>3, MainMoves
<1>2. ASSUME Report!RecordAccept PROVE ReportInv'
  <2>1. /\ UNCHANGED <<rows, putter, jobs, post, heard>> /\ main.at = "count" /\ main.due > 0
        /\ main' = [main EXCEPT !.at = IF main.live THEN "store" ELSE "report",
                                !.count = @ + 1, !.due = @ - 1]
      BY <1>2 DEF Report!RecordAccept
  <2>2. main' \in MainType /\ main'.at \in {"store", "report"} /\ main'.count >= main.count
        /\ main'.history = main.history
    <3> DEFINE place == IF main.live THEN "store" ELSE "report"
    <3>1. place \in {"store", "report"} /\ main.count + 1 \in Nat /\ main.due - 1 \in Nat
        BY <1>0, <2>1
    <3>2. main' = [main EXCEPT !.at = place, !.count = main.count + 1, !.due = main.due - 1]
        BY <1>0, <2>1 DEF MainType
    <3> HIDE DEF place
    <3> DEFINE c1 == main.count + 1
               d1 == main.due - 1
    <3>4. c1 \in Nat /\ c1 >= main.count /\ d1 \in Nat
        BY <1>0, <3>1
    <3>5. main' = [main EXCEPT !.at = place, !.count = c1, !.due = d1]
        BY <3>2
    <3> HIDE DEF c1, d1
    <3>6. main' \in MainType /\ main'.at = place /\ main'.count = c1
          /\ main'.history = main.history
        BY <1>0, <3>1, <3>4, <3>5 DEF MainType
    <3> QED BY <3>1, <3>4, <3>6
  <2>3. ReportTypes'
      BY <2>1, <2>2 DEF ReportInv, ReportTypes
  <2> QED BY <1>0, <2>1, <2>2, <2>3, MainMoves
<1>3. ASSUME Report!RecordDirectSubmit PROVE ReportInv'
  <2>1. UNCHANGED <<putter, jobs, post, heard>> /\ main.at = "store" /\ rows' = rows + 1
        /\ main' = [main EXCEPT !.at = "report"]
      BY <1>3 DEF Report!RecordDirectSubmit, Report!Goes
  <2>2. main' \in MainType /\ main'.at = "report" /\ main'.count = main.count
        /\ main'.history = main.history /\ rows' \in Nat
      BY <1>0, <2>1 DEF MainType
  <2>3. ReportTypes'
      BY <2>1, <2>2 DEF ReportInv, ReportTypes
  <2> QED BY <1>0, <2>1, <2>2, <2>3, MainMoves
<1>4. ASSUME Report!Reported PROVE ReportInv'
  <2> DEFINE place == IF main.due > 0 THEN "count" ELSE "loop"
  <2>1. UNCHANGED <<rows, putter, jobs, post, heard>> /\ main.at = "reporting"
        /\ main' = [main EXCEPT !.at = place]
      BY <1>4 DEF Report!Reported, Report!Goes
  <2>2. place \in {"count", "loop"}
      OBVIOUS
  <2> HIDE DEF place
  <2>3. main' \in MainType /\ main'.at \in {"count", "loop"} /\ main'.count = main.count
        /\ main'.history = main.history
      BY <1>0, <2>1, <2>2 DEF MainType
  <2>4. ReportTypes'
      BY <2>1, <2>3 DEF ReportInv, ReportTypes
  <2> QED BY <1>0, <2>1, <2>3, <2>4, MainMoves
<1>5. ASSUME Report!Rollover PROVE ReportInv'
  <2>1. UNCHANGED <<main, rows, putter, jobs, post, heard>>
      BY <1>5 DEF Report!Rollover
  <2>2. ReportTypes'
      BY <2>1 DEF ReportInv, ReportTypes
  <2> QED BY <1>0, <2>1, <2>2, MainMoves
<1>6. ASSUME NEW n \in 1..2, Report!AcceptFlush(n) PROVE ReportInv'
  <2>1. UNCHANGED <<putter, jobs, post, heard>> /\ main.at = "loop" /\ rows' = rows + n
        /\ main' = [main EXCEPT !.at = "count", !.due = n, !.live = FALSE]
      BY <1>6 DEF Report!AcceptFlush
  <2>2. main' \in MainType /\ main'.at = "count" /\ main'.count = main.count
        /\ main'.history = main.history /\ rows' \in Nat
    <3>1. n \in Nat /\ rows + n \in Nat
        BY <1>0
    <3> QED BY <1>0, <2>1, <3>1 DEF MainType
  <2>3. ReportTypes'
      BY <2>1, <2>2 DEF ReportInv, ReportTypes
  <2> QED BY <1>0, <2>1, <2>2, <2>3, MainMoves
<1> QED BY <1>1, <1>2, <1>3, <1>4, <1>5, <1>6

(* Nobody puts or posts while the miner is down.                           *)
LEMMA DownRests ==
  ASSUME ReportInv
  PROVE  /\ \A p \in Report!Producer : putter[p].at # "idle" => main.at # "down"
         /\ post # Report!NoJob => main.at # "down"
         /\ jobs # <<>> => main.at # "down"
<1> QED BY DEF ReportInv, Report!NoPutter

LEMMA ReportTakes ==
  ASSUME ReportInv, Report!Take
  PROVE  ReportInv'
<1>1. /\ jobs \in Seq(JobType) /\ jobs # <<>> /\ post = Report!NoJob
      /\ post' = Head(jobs) /\ jobs' = Tail(jobs) /\ UNCHANGED <<rows, main, putter, heard>>
    BY DEF ReportInv, ReportTypes, Report!Take
<1>2. main.at # "down"
    BY <1>1, DownRests
<1>3. post' \in JobType /\ jobs' \in Seq(JobType) /\ post' # Report!NoJob
    BY <1>1, TailRises, Sources DEF JobType, Report!NoJob, Report!Job, Report!Producer
<1>4. ReportTypes'
    BY <1>1, <1>3 DEF ReportInv, ReportTypes
<1>5. ASSUME NEW p \in Report!Producer PROVE InOrder(p)'
  <2>1. InOrder(p) /\ heard[p] \in Int /\ heard[p] \in Nat
      BY <1>2 DEF ReportInv, ReportTypes
  <2>2. /\ Head(jobs) = jobs[1] /\ 1 \in 1..Len(jobs)
        /\ \A i \in 1..Len(Tail(jobs)) : Tail(jobs)[i] = jobs[i + 1] /\ i + 1 \in 1..Len(jobs)
        /\ Rising(p, jobs) => Rising(p, Tail(jobs))
        /\ Rising(p, jobs) /\ Report!Source(Head(jobs)) = p => AtLeast(p, Head(jobs).n, Tail(jobs))
        /\ AtLeast(p, heard[p], jobs) => AtLeast(p, heard[p], Tail(jobs))
      BY <1>1, <2>1, TailRises
  <2>3. /\ AtLeast(p, heard[p], jobs') /\ Rising(p, jobs')
        /\ Report!Source(post') = p => heard[p] <= post'.n /\ AtLeast(p, post'.n, jobs')
      BY <1>1, <2>1, <2>2 DEF InOrder, AtLeast
  <2>4. \A i \in 1..Len(jobs') : Report!Source(jobs'[i]) = p => AtLeast(p, jobs'[i].n, putter[p].todo)
      BY <1>1, <2>1, <2>2 DEF InOrder
  <2>5. Report!Source(post') = p => AtLeast(p, post'.n, putter[p].todo)
      BY <1>1, <2>1, <2>2 DEF InOrder
  <2>6. AtLeast(p, heard[p], putter[p].todo) /\ Rising(p, putter[p].todo)
      BY <2>1 DEF InOrder
  <2> QED BY <1>1, <2>3, <2>4, <2>5, <2>6 DEF InOrder
<1>6. ASSUME NEW p \in Report!Producer, NEW n \in Nat, UpTo(p, n)
      PROVE  heard[p] <= n /\ AtMost(p, n, jobs') /\ AtMost(p, n, putter[p].todo)
             /\ (Report!Source(post') = p => post'.n <= n)
  <2>1. /\ Head(jobs) = jobs[1] /\ 1 \in 1..Len(jobs)
        /\ AtMost(p, n, jobs) => AtMost(p, n, Tail(jobs))
      BY <1>1, TailRises
  <2> QED BY <1>1, <1>6, <2>1 DEF UpTo, AtMost
<1>7. UpTo("miner", main.count)'
  <2>1. main.count \in Nat /\ UpTo("miner", main.count) /\ "miner" \in Report!Producer
      BY <1>2 DEF ReportInv, ReportTypes, MainType, Report!Producer
  <2> QED BY <1>1, <1>6, <2>1 DEF UpTo
<1>8. main'.history > 0 => UpTo("backfill", 0)' /\ putter'["backfill"].todo = <<>>
  <2>1. main.history > 0 => UpTo("backfill", 0) /\ putter["backfill"].todo = <<>>
      BY <1>2 DEF ReportInv
  <2>2. "backfill" \in Report!Producer /\ 0 \in Nat
      BY DEF Report!Producer
  <2> QED BY <1>1, <1>6, <2>1, <2>2 DEF UpTo
<1> QED BY <1>1, <1>2, <1>4, <1>5, <1>7, <1>8 DEF ReportInv

(* Of a queue or of a call the first job may go.                           *)
LEMMA JobsPass ==
  ASSUME ReportInv, ReportTypes', UNCHANGED <<main, post, heard>>,
         NEW p \in Report!Producer,
         \A q \in Report!Producer \ {p} : putter'[q] = putter[q],
         jobs' = jobs \/ (jobs # <<>> /\ jobs' = Tail(jobs)),
         \/ putter'[p].todo = putter[p].todo
         \/ putter[p].todo # <<>> /\ putter'[p].todo = Tail(putter[p].todo),
         main.at # "down"
  PROVE  ReportInv'
<1>1. /\ jobs \in Seq(JobType) /\ \A q \in Report!Producer : putter[q].todo \in Seq(JobType)
      /\ heard \in [Report!Producer -> Nat] /\ main.count \in Nat
      /\ "miner" \in Report!Producer /\ "backfill" \in Report!Producer
    BY DEF ReportInv, ReportTypes, MainType, Report!Producer
<1>2. ASSUME NEW q \in Report!Producer
      PROVE  /\ Rising(q, jobs) => Rising(q, jobs')
             /\ \A n \in Int : AtLeast(q, n, jobs) => AtLeast(q, n, jobs')
             /\ \A n \in Int : AtMost(q, n, jobs) => AtMost(q, n, jobs')
             /\ \A j \in 1..Len(jobs') : \E i \in 1..Len(jobs) : jobs'[j] = jobs[i]
  <2>1. CASE jobs' = jobs
      BY <2>1
  <2>2. CASE jobs # <<>> /\ jobs' = Tail(jobs)
      BY <1>1, <2>2, TailRises
  <2> QED BY <2>1, <2>2
<1>3. ASSUME NEW q \in Report!Producer
      PROVE  /\ Rising(q, putter[q].todo) => Rising(q, putter'[q].todo)
             /\ \A n \in Int : AtLeast(q, n, putter[q].todo) => AtLeast(q, n, putter'[q].todo)
             /\ \A n \in Int : AtMost(q, n, putter[q].todo) => AtMost(q, n, putter'[q].todo)
             /\ putter[q].todo = <<>> => putter'[q].todo = <<>>
  <2> DEFINE s == putter[q].todo
             t == putter'[q].todo
  <2>1. s \in Seq(JobType) /\ (t = s \/ (s # <<>> /\ t = Tail(s)))
    <3>1. CASE q = p
        BY <1>1, <3>1
    <3>2. CASE q # p
        BY <1>1, <3>2
    <3> QED BY <3>1, <3>2
  <2> HIDE DEF s, t
  <2>2. /\ Rising(q, s) => Rising(q, t)
        /\ \A n \in Int : AtLeast(q, n, s) => AtLeast(q, n, t)
        /\ \A n \in Int : AtMost(q, n, s) => AtMost(q, n, t)
        /\ s = <<>> => t = <<>>
    <3>1. CASE t = s
        BY <3>1
    <3>2. CASE s # <<>> /\ t = Tail(s)
        BY <2>1, <3>2, TailRises
    <3> QED BY <2>1, <3>1, <3>2
  <2> QED BY <2>2 DEF s, t
<1>4. \A i \in 1..Len(jobs) : jobs[i].n \in Int
    BY <1>1, Positions
<1>5. post # Report!NoJob => post.n \in Int
    BY DEF ReportInv, ReportTypes, JobType
<1>6. ASSUME NEW q \in Report!Producer PROVE InOrder(q)'
  <2>1. InOrder(q) /\ heard[q] \in Int
      BY <1>1 DEF ReportInv
  <2>2. \A j \in 1..Len(jobs') :
            Report!Source(jobs'[j]) = q => AtLeast(q, jobs'[j].n, putter'[q].todo)
    <3> SUFFICES ASSUME NEW j \in 1..Len(jobs'), Report!Source(jobs'[j]) = q
                 PROVE  AtLeast(q, jobs'[j].n, putter'[q].todo)
        OBVIOUS
    <3>1. PICK i \in 1..Len(jobs) : jobs'[j] = jobs[i]
        BY <1>2
    <3>2. AtLeast(q, jobs[i].n, putter[q].todo) /\ jobs[i].n \in Int
        BY <1>4, <2>1, <3>1 DEF InOrder
    <3> QED BY <1>3, <3>1, <3>2
  <2>3. /\ AtLeast(q, heard[q], jobs') /\ AtLeast(q, heard[q], putter'[q].todo)
        /\ Rising(q, jobs') /\ Rising(q, putter'[q].todo)
      BY <1>2, <1>3, <2>1 DEF InOrder
  <2>4. post # Report!NoJob /\ Report!Source(post) = q =>
            /\ heard[q] <= post.n
            /\ AtLeast(q, post.n, jobs') /\ AtLeast(q, post.n, putter'[q].todo)
      BY <1>2, <1>3, <1>5, <2>1 DEF InOrder
  <2> QED BY <2>2, <2>3, <2>4 DEF InOrder
<1>7. ASSUME NEW q \in Report!Producer, NEW n \in Nat, UpTo(q, n)
      PROVE  heard'[q] <= n /\ AtMost(q, n, jobs') /\ AtMost(q, n, putter'[q].todo)
             /\ (post' # Report!NoJob /\ Report!Source(post') = q => post'.n <= n)
    BY <1>2, <1>3, <1>7 DEF UpTo
<1>8. UpTo("miner", main.count)'
  <2>1. UpTo("miner", main.count)
      BY DEF ReportInv
  <2> QED BY <1>1, <1>7, <2>1 DEF UpTo
<1>9. main'.history > 0 => UpTo("backfill", 0)' /\ putter'["backfill"].todo = <<>>
  <2>1. main'.history > 0 => UpTo("backfill", 0) /\ putter["backfill"].todo = <<>>
      BY DEF ReportInv
  <2> QED BY <1>1, <1>3, <1>7, <2>1 DEF UpTo
<1> QED BY <1>6, <1>8, <1>9 DEF ReportInv

(* The first job of a call joins the queue.                                *)
LEMMA JobJoins ==
  ASSUME ReportInv, ReportTypes', UNCHANGED <<main, post, heard>>, main.at # "down",
         NEW p \in Report!Producer, putter[p].todo # <<>>,
         \A q \in Report!Producer \ {p} : putter'[q] = putter[q],
         jobs' = Append(jobs, Head(putter[p].todo)),
         putter'[p].todo = Tail(putter[p].todo)
  PROVE  ReportInv'
<1> DEFINE todo == putter[p].todo
           job == Head(todo)
<1>1. /\ jobs \in Seq(JobType) /\ todo \in Seq(JobType) /\ todo # <<>> /\ Of(p, todo)
      /\ heard \in [Report!Producer -> Nat] /\ main.count \in Nat
      /\ "miner" \in Report!Producer /\ "backfill" \in Report!Producer
    BY DEF ReportInv, ReportTypes, MainType, Report!Producer
<1>2. jobs' = Append(jobs, job) /\ putter'[p].todo = Tail(todo)
    OBVIOUS
<1>3. putter[p].todo = todo
    OBVIOUS
<1> HIDE DEF todo
<1>4. /\ job = todo[1] /\ 1 \in 1..Len(todo) /\ job \in JobType /\ Report!Source(job) = p
      /\ Tail(todo) \in Seq(JobType)
      /\ Rising(p, todo) => Rising(p, Tail(todo))
      /\ Rising(p, todo) => AtLeast(p, job.n, Tail(todo))
      /\ \A n \in Int : AtLeast(p, n, todo) => AtLeast(p, n, Tail(todo))
      /\ \A n \in Int : AtMost(p, n, todo) => AtMost(p, n, Tail(todo))
  <2>1. Of(p, todo) => Of(p, Tail(todo)) /\ Report!Source(Head(todo)) = p
      BY <1>1, TailRises
  <2> QED BY <1>1, <2>1, TailRises
<1> HIDE DEF job
<1>5. job.n \in Nat /\ (\A i \in 1..Len(jobs) : jobs[i].n \in Int)
      /\ (post # Report!NoJob => post.n \in Int)
  <2>1. job.n \in Nat /\ (post # Report!NoJob => post.n \in Int)
      BY <1>4 DEF ReportInv, ReportTypes, JobType
  <2> QED BY <1>1, <2>1, Positions
<1>6. ASSUME NEW q \in Report!Producer
      PROVE  /\ Rising(q, jobs) /\ (p = q => AtMost(q, job.n, jobs)) => Rising(q, jobs')
             /\ \A n \in Int : AtLeast(q, n, jobs) /\ (p = q => n <= job.n) => AtLeast(q, n, jobs')
             /\ \A n \in Int : AtMost(q, n, jobs) /\ (p = q => job.n <= n) => AtMost(q, n, jobs')
             /\ \A j \in 1..Len(jobs') : jobs'[j] = job \/ \E i \in 1..Len(jobs) : jobs'[j] = jobs[i]
  <2>1. /\ Rising(q, jobs) /\ (Report!Source(job) = q => AtMost(q, job.n, jobs)) => Rising(q, jobs')
        /\ \A n \in Int : AtLeast(q, n, jobs) /\ (Report!Source(job) = q => n <= job.n) =>
               AtLeast(q, n, jobs')
        /\ \A n \in Int : AtMost(q, n, jobs) /\ (Report!Source(job) = q => job.n <= n) =>
               AtMost(q, n, jobs')
      BY <1>1, <1>2, <1>4, AppendRises
  <2>2. /\ Len(jobs') = Len(jobs) + 1 /\ jobs'[Len(jobs) + 1] = job
        /\ \A i \in 1..Len(jobs) : jobs'[i] = jobs[i]
      BY <1>1, <1>2, <1>4, AppendRises
  <2>3. Len(jobs) \in Nat
      BY <1>1
  <2>4. \A j \in 1..Len(jobs') : j \in 1..Len(jobs) \/ j = Len(jobs) + 1
      BY <2>2, <2>3
  <2> QED BY <1>4, <2>1, <2>2, <2>4
<1>7. InOrder(p)'
  <2>1. InOrder(p) /\ heard[p] \in Int
      BY <1>1 DEF ReportInv
  <2>2. /\ AtLeast(p, heard[p], jobs) /\ AtLeast(p, heard[p], todo)
        /\ Rising(p, jobs) /\ Rising(p, todo)
        /\ \A i \in 1..Len(jobs) : Report!Source(jobs[i]) = p => AtLeast(p, jobs[i].n, todo)
        /\ post # Report!NoJob /\ Report!Source(post) = p =>
              heard[p] <= post.n /\ AtLeast(p, post.n, jobs) /\ AtLeast(p, post.n, todo)
      BY <1>3, <2>1 DEF InOrder
  <2>3. /\ AtMost(p, job.n, jobs) /\ heard[p] <= job.n
        /\ post # Report!NoJob /\ Report!Source(post) = p => post.n <= job.n
      BY <1>4, <2>2 DEF AtMost, AtLeast
  <2>4. /\ AtLeast(p, heard[p], jobs') /\ Rising(p, jobs')
        /\ AtLeast(p, heard[p], Tail(todo)) /\ Rising(p, Tail(todo))
        /\ post # Report!NoJob /\ Report!Source(post) = p =>
              heard[p] <= post.n /\ AtLeast(p, post.n, jobs') /\ AtLeast(p, post.n, Tail(todo))
      BY <1>4, <1>5, <1>6, <2>1, <2>2, <2>3
  <2>5. \A j \in 1..Len(jobs') :
            Report!Source(jobs'[j]) = p => AtLeast(p, jobs'[j].n, Tail(todo))
      BY <1>4, <1>5, <1>6, <2>2
  <2> QED BY <1>2, <2>4, <2>5 DEF InOrder
<1>8. ASSUME NEW q \in Report!Producer, q # p PROVE InOrder(q)'
  <2>1. InOrder(q) /\ heard[q] \in Int /\ putter'[q] = putter[q]
      BY <1>1, <1>8 DEF ReportInv
  <2>2. /\ AtLeast(q, heard[q], jobs') /\ Rising(q, jobs')
        /\ post # Report!NoJob /\ Report!Source(post) = q => AtLeast(q, post.n, jobs')
      BY <1>5, <1>6, <1>8, <2>1 DEF InOrder
  <2>3. \A j \in 1..Len(jobs') :
            Report!Source(jobs'[j]) = q => AtLeast(q, jobs'[j].n, putter[q].todo)
      BY <1>4, <1>6, <1>8, <2>1 DEF InOrder
  <2> QED BY <2>1, <2>2, <2>3 DEF InOrder
<1>9. ASSUME NEW q \in Report!Producer, NEW n \in Nat, UpTo(q, n)
      PROVE  heard'[q] <= n /\ AtMost(q, n, jobs') /\ AtMost(q, n, putter'[q].todo)
             /\ (post' # Report!NoJob /\ Report!Source(post') = q => post'.n <= n)
  <2>1. CASE q = p
    <3>1. AtMost(p, n, todo) /\ job.n <= n /\ AtMost(p, n, jobs)
        BY <1>3, <1>4, <1>9, <2>1 DEF UpTo, AtMost
    <3>2. n \in Int /\ AtMost(p, n, Tail(todo))
        BY <1>4, <3>1
    <3>3. AtMost(p, n, jobs')
        BY <1>6, <3>1, <3>2
    <3> QED BY <1>2, <1>9, <2>1, <3>2, <3>3 DEF UpTo
  <2>2. CASE q # p
      BY <1>6, <1>9, <2>2 DEF UpTo
  <2> QED BY <2>1, <2>2
<1>10. UpTo("miner", main.count)'
  <2>1. UpTo("miner", main.count)
      BY DEF ReportInv
  <2> QED BY <1>1, <1>9, <2>1 DEF UpTo
<1>11. main'.history > 0 => UpTo("backfill", 0)' /\ putter'["backfill"].todo = <<>>
  <2>1. main'.history > 0 => UpTo("backfill", 0) /\ putter["backfill"].todo = <<>>
      BY DEF ReportInv
  <2>2. main'.history > 0 => putter'["backfill"] = putter["backfill"]
      BY <1>1, <2>1
  <2> QED BY <1>1, <1>9, <2>1, <2>2 DEF UpTo
<1> QED BY <1>7, <1>8, <1>10, <1>11 DEF ReportInv

LEMMA ReportPuts ==
  ASSUME ReportInv, NEW p \in Report!Producer, Report!Put(p) \/ Report!Evict(p)
  PROVE  ReportInv'
<1> DEFINE todo == putter[p].todo
<1>1. /\ UNCHANGED <<rows, main, post, heard>>
      /\ putter[p].at # "idle" /\ main.at # "down"
  <2>1. UNCHANGED <<rows, main, post, heard>> /\ putter[p].at # "idle"
      BY DEF Report!Put, Report!Evict
  <2> QED BY <2>1, DownRests
<1>2. /\ putter \in [Report!Producer -> [at : {"idle", "put", "again", "evict"}, todo : Seq(JobType)]]
      /\ todo \in Seq(JobType) /\ todo # <<>> /\ Of(p, todo) /\ jobs \in Seq(JobType)
    BY <1>1 DEF ReportInv, ReportTypes
<1>3. /\ Tail(todo) \in Seq(JobType) /\ Head(todo) \in JobType /\ Of(p, Tail(todo))
    BY <1>2, TailRises
<1>4. ASSUME putter' = [putter EXCEPT ![p] = [at |-> IF Tail(todo) = <<>> THEN "idle" ELSE "put",
                                              todo |-> Tail(todo)]],
             jobs' = jobs \/ jobs' = Append(jobs, Head(todo))
      PROVE  ReportInv'
  <2>1. /\ \A q \in Report!Producer \ {p} : putter'[q] = putter[q]
        /\ putter'[p] = [at |-> IF Tail(todo) = <<>> THEN "idle" ELSE "put", todo |-> Tail(todo)]
        /\ putter'[p].todo = Tail(todo)
      BY <1>2, <1>4
  <2>2. jobs' \in Seq(JobType)
    <3>1. \A s \in Seq(JobType), job \in JobType : Append(s, job) \in Seq(JobType)
        OBVIOUS
    <3> QED BY <1>2, <1>3, <1>4, <3>1
  <2>3. ReportTypes'
    <3>1. putter' \in [Report!Producer ->
                          [at : {"idle", "put", "again", "evict"}, todo : Seq(JobType)]]
        BY <1>2, <1>3, <1>4
    <3>2. /\ putter'[p].at # "idle" => putter'[p].todo # <<>>
          /\ Of(p, putter'[p].todo)
        BY <1>3, <2>1
    <3> QED BY <1>1, <2>1, <2>2, <3>1, <3>2 DEF ReportInv, ReportTypes
  <2>4. CASE jobs' = jobs
      BY <1>1, <1>2, <2>1, <2>3, <2>4, JobsPass
  <2>5. CASE jobs' = Append(jobs, Head(todo))
      BY <1>1, <1>2, <2>1, <2>3, <2>5, JobJoins
  <2> QED BY <1>4, <2>4, <2>5
<1>5. ASSUME NEW label \in {"evict", "again"}, putter' = [putter EXCEPT ![p].at = label],
             jobs' = jobs \/ (jobs # <<>> /\ jobs' = Tail(jobs))
      PROVE  ReportInv'
  <2>1. /\ \A q \in Report!Producer \ {p} : putter'[q] = putter[q]
        /\ putter'[p].todo = todo
        /\ putter' \in [Report!Producer ->
                          [at : {"idle", "put", "again", "evict"}, todo : Seq(JobType)]]
      BY <1>2, <1>5
  <2>2. jobs' \in Seq(JobType)
      BY <1>2, <1>5, TailRises
  <2>3. ReportTypes'
      BY <1>1, <1>2, <2>1, <2>2 DEF ReportInv, ReportTypes
  <2> QED BY <1>1, <1>5, <2>1, <2>3, JobsPass
<1>6. CASE Report!Put(p)
  <2>1. \/ /\ jobs' = Append(jobs, Head(todo)) \/ jobs' = jobs
           /\ Report!Continue(p, Report!Rest(p))
        \/ putter' = [putter EXCEPT ![p].at = "evict"] /\ jobs' = jobs
      BY <1>6 DEF Report!Put
  <2> QED BY <1>4, <1>5, <2>1 DEF Report!Continue, Report!Rest
<1>7. CASE Report!Evict(p)
    BY <1>5, <1>7 DEF Report!Evict
<1> QED BY <1>6, <1>7

LEMMA ReportPosts ==
  ASSUME ReportInv, NEW received \in BOOLEAN, Report!Post(received)
  PROVE  ReportInv' /\ \A p \in Report!Producer : heard'[p] >= heard[p]
<1> DEFINE s == Report!Source(post)
<1>1. /\ UNCHANGED <<rows, main, putter, jobs>> /\ post # Report!NoJob
      /\ post' = Report!NoJob /\ main.at # "down"
      /\ heard' = [heard EXCEPT ![s] = post.n] \/ heard' = heard
  <2>1. post # Report!NoJob
      BY DEF Report!Post
  <2> QED BY <2>1, DownRests DEF Report!Post
<1>2. post \in JobType /\ s \in Report!Producer /\ post.n \in Nat
      /\ heard \in [Report!Producer -> Nat] /\ main.count \in Nat
      /\ "miner" \in Report!Producer /\ "backfill" \in Report!Producer
  <2>1. post \in JobType
      BY <1>1 DEF ReportInv, ReportTypes
  <2> QED BY <2>1, Sources DEF ReportInv, ReportTypes, MainType, JobType, Report!Producer
<1>3. \A q \in Report!Producer :
          /\ heard'[q] \in {heard[q]} \cup (IF q = s THEN {post.n} ELSE {})
          /\ InOrder(q)
    BY <1>1, <1>2 DEF ReportInv
<1> HIDE DEF s
<1>4. heard[s] <= post.n /\ InOrder(s) /\ AtLeast(s, post.n, jobs) /\ AtLeast(s, post.n, putter[s].todo)
    BY <1>1, <1>2, <1>3 DEF InOrder, s
<1>5. ReportTypes'
    BY <1>1, <1>2 DEF ReportInv, ReportTypes
<1>6. ASSUME NEW q \in Report!Producer PROVE InOrder(q)'
  <2>1. AtLeast(q, heard'[q], jobs) /\ AtLeast(q, heard'[q], putter[q].todo)
    <3>1. CASE heard'[q] = heard[q]
        BY <1>3, <3>1 DEF InOrder
    <3>2. CASE q = s /\ heard'[q] = post.n
        BY <1>4, <3>2
    <3> QED BY <1>3, <3>1, <3>2
  <2> QED BY <1>1, <1>3, <2>1 DEF InOrder, AtLeast, Rising
<1>7. ASSUME NEW q \in Report!Producer, NEW n \in Nat, UpTo(q, n)
      PROVE  heard'[q] <= n /\ AtMost(q, n, jobs) /\ AtMost(q, n, putter[q].todo)
    BY <1>1, <1>2, <1>3, <1>7 DEF UpTo, s
<1>8. UpTo("miner", main.count)'
  <2>1. UpTo("miner", main.count)
      BY <1>1 DEF ReportInv
  <2> QED BY <1>1, <1>2, <1>7, <2>1 DEF UpTo, AtMost
<1>9. main'.history > 0 => UpTo("backfill", 0)' /\ putter'["backfill"].todo = <<>>
  <2>1. main.history > 0 => UpTo("backfill", 0) /\ putter["backfill"].todo = <<>>
      BY <1>1 DEF ReportInv
  <2> QED BY <1>1, <1>2, <1>7, <2>1 DEF UpTo, AtMost
<1>10. \A p \in Report!Producer : heard'[p] >= heard[p]
    BY <1>2, <1>3, <1>4
<1> QED BY <1>1, <1>5, <1>6, <1>8, <1>9, <1>10 DEF ReportInv

LEMMA ReportEnds ==
  ASSUME ReportInv, Report!End
  PROVE  ReportInv'
<1>1. /\ UNCHANGED <<rows, heard>> /\ main' = [main EXCEPT !.at = "down"]
      /\ putter' = Report!NoPutter /\ jobs' = <<>> /\ post' = Report!NoJob
    BY DEF Report!End, Report!Goes
<1>2. main' \in MainType /\ main'.at = "down"
    BY <1>1 DEF ReportInv, ReportTypes, MainType
<1>3. ReportTypes'
    BY <1>1, <1>2 DEF ReportInv, ReportTypes, Report!NoPutter, Of
<1> QED BY <1>1, <1>2, <1>3 DEF ReportInv

(* What a process has not begun to report is in order.                     *)
LEMMA NothingReported ==
  ASSUME rows \in Nat, NEW n \in Nat \ {0}
  PROVE  /\ Report!History \in Nat
         /\ Report!NewMain(n) \in MainType
         /\ Report!NewMain(n).at = "loop" /\ Report!NewMain(n).count = 0
<1>1. \A a, b \in Nat : \E x \in {a, b} : \A y \in {a, b} : x <= y
    OBVIOUS
<1>2. Report!History \in Nat
    BY <1>1, ReportAssumption DEF Report!History, Report!Min
<1> QED BY <1>2 DEF Report!NewMain, MainType

Unreported ==
  /\ putter = Report!NoPutter /\ jobs = <<>> /\ post = Report!NoJob
  /\ heard = Report!NothingHeard /\ rows \in Nat /\ main \in MainType /\ main.at # "down"

LEMMA ReportFresh == Unreported => ReportInv
<1> SUFFICES ASSUME Unreported PROVE ReportInv
    OBVIOUS
<1> USE DEF Unreported
<1>1. /\ \A p \in Report!Producer : putter[p].at = "idle" /\ putter[p].todo = <<>> /\ heard[p] = 0
      /\ "miner" \in Report!Producer /\ "backfill" \in Report!Producer
      /\ main.count \in Nat
    BY DEF Report!NoPutter, Report!NothingHeard, Report!Producer, MainType
<1>2. ReportTypes
    BY <1>1 DEF ReportTypes, Report!NoPutter, Report!NothingHeard, Of
<1>3. \A p \in Report!Producer : InOrder(p) /\ \A n \in Nat : UpTo(p, n)
    BY <1>1 DEF InOrder, UpTo, AtLeast, AtMost, Rising
<1> QED BY <1>1, <1>2, <1>3 DEF ReportInv

LEMMA ReportInit == Report!Init => ReportInv
<1> SUFFICES ASSUME Report!Init PROVE ReportInv
    OBVIOUS
<1>1. /\ putter = Report!NoPutter /\ jobs = <<>> /\ post = Report!NoJob
      /\ heard = Report!NothingHeard /\ rows \in Nat /\ main = Report!NewMain(1)
    BY DEF Report!Init
<1>2. main \in MainType /\ main.at # "down"
    BY <1>1, NothingReported
<1> QED BY <1>1, <1>2, ReportFresh DEF Unreported

LEMMA ReportStarts ==
  ASSUME ReportInv, Report!Start
  PROVE  ReportInv' /\ main'.session # main.session
<1>1. /\ putter' = Report!NoPutter /\ jobs' = <<>> /\ post' = Report!NoJob
      /\ heard' = Report!NothingHeard /\ rows' = rows /\ rows \in Nat
      /\ main.session \in Nat /\ main' = Report!NewMain(main.session + 1)
    BY DEF ReportInv, ReportTypes, MainType, Report!Start
<1>2. main.session + 1 \in Nat \ {0}
    BY <1>1
<1>3. main' \in MainType /\ main'.at # "down" /\ main'.session = main.session + 1
  <2>1. main' \in MainType /\ main'.at # "down"
      BY <1>1, <1>2, NothingReported
  <2>2. main'.session = main.session + 1
      BY <1>1 DEF Report!NewMain
  <2> QED BY <2>1, <2>2
<1>4. ReportInv'
  <2>1. (Unreported => ReportInv)'
      BY ReportFresh, PTL
  <2>2. Unreported'
      BY <1>1, <1>3 DEF Unreported
  <2> QED BY <2>1, <2>2
<1> QED BY <1>1, <1>3, <1>4

LEMMA ReportStep == ReportInv /\ [Report!Next]_Report!vars => ReportInv'
<1> SUFFICES ASSUME ReportInv, [Report!Next]_Report!vars PROVE ReportInv'
    OBVIOUS
<1>1. CASE \/ Report!AcceptLive \/ Report!RecordAccept \/ Report!RecordDirectSubmit
           \/ Report!Reported \/ Report!Rollover \/ \E n \in 1..2 : Report!AcceptFlush(n)
    BY <1>1, ReportMain
<1>2. CASE Report!ReportAccept \/ Report!ReportHoldings \/ Report!Backfill
    BY <1>2, ReportCalls
<1>3. CASE Report!Take
    BY <1>3, ReportTakes
<1>4. CASE \E p \in Report!Producer : Report!Put(p) \/ Report!Evict(p)
    BY <1>4, ReportPuts
<1>5. CASE \E received \in BOOLEAN : Report!Post(received)
    BY <1>5, ReportPosts
<1>6. CASE Report!End
    BY <1>6, ReportEnds
<1>7. CASE Report!Start
    BY <1>7, ReportStarts
<1>8. CASE UNCHANGED Report!vars
    BY <1>8 DEF Report!vars, ReportInv, ReportTypes, InOrder, UpTo, AtLeast, AtMost, Rising
<1> QED BY <1>1, <1>2, <1>3, <1>4, <1>5, <1>6, <1>7, <1>8 DEF Report!Next

LEMMA HeardRises ==
  ASSUME ReportInv, [Report!Next]_Report!vars, main'.session = main.session
  PROVE  \A p \in Report!Producer : heard'[p] >= heard[p]
<1>1. ~ Report!Start
    BY ReportStarts
<1>2. CASE \E received \in BOOLEAN : Report!Post(received)
    BY <1>2, ReportPosts
<1>3. CASE ~ \E received \in BOOLEAN : Report!Post(received)
  <2>1. heard' = heard
      BY <1>1, <1>3
         DEF Report!Next, Report!vars, Report!AcceptLive, Report!RecordAccept,
             Report!RecordDirectSubmit, Report!ReportAccept, Report!ReportHoldings,
             Report!Reported, Report!Backfill, Report!Take, Report!End, Report!Rollover,
             Report!AcceptFlush, Report!Put, Report!Evict
  <2>2. \A p \in Report!Producer : heard[p] \in Nat
      BY DEF ReportInv, ReportTypes
  <2> QED BY <2>1, <2>2
<1> QED BY <1>2, <1>3

(* xenblockscan_reporter.py:310-346: whatever is evicted, lost or crossed  *)
(* by the backfill, the explorer hears of a session's acceptances in order.*)
THEOREM HeardInOrder == ServicesSpec => NeverGoesBack
<1> DEFINE Inv == service = "reporting" => ReportInv
<1>1. ServicesInit => Inv
    BY ReportInit DEF ServicesInit
<1>2. Inv /\ [ServicesNext]_all => Inv'
    BY ReportFrame, ReportStep, ServiceStays
<1>3. Inv /\ [ServicesNext]_all =>
        [main'.session = main.session =>
            \A p \in Report!Producer : heard'[p] >= heard[p]]_Report!vars
    BY HeardRises, ReportFrame, ReportRests
<1> QED BY <1>1, <1>2, <1>3, PTL DEF ServicesSpec, NeverGoesBack, Report!NeverGoesBack

(* The acceptances counted in a table of days.                             *)
LEMMA CountedTotal ==
  ASSUME NEW c
  PROVE  Report!Counted(c) = Total(c, Report!Day)
<1> QED
    BY DEF Report!Counted, Report!MapThenSumSet, Report!MapThenFoldSet,
           Total, MapThenSumSet, MapThenFoldSet

CountTypes ==
  /\ day \in Report!Day /\ accepted \in Nat
  /\ days \in [Report!Day -> Nat]
  /\ statsFile \in [counts : [Report!Day -> Nat], torn : BOOLEAN]
  /\ statsMishap \in BOOLEAN
  /\ main \in MainType

(* Nothing is counted on a day to come.  While a session runs, what it has *)
(* counted and what it has to count are acceptances, and all of them until *)
(* a session ended too early; the file has what the memory has.            *)
CountInv ==
  /\ CountTypes
  /\ \A d \in Report!Day : d > day => days[d] = 0 /\ statsFile.counts[d] = 0
  /\ main.at = "loop" => main.due = 0
  /\ main.at = "count" => main.due > 0
  /\ main.at # "down" => Report!Counted(days) + main.due <= accepted
  /\ Report!Counted(statsFile.counts) <= accepted
  /\ ~statsMishap =>
        /\ ~statsFile.torn /\ statsFile.counts = days
        /\ Report!Counted(days) = accepted - main.due
        /\ main.at = "down" => main.due = 0

LEMMA DaysFinite == IsFiniteSet(Report!Day) /\ \A a, b \in Int : IsFiniteSet((a..b) \cap Report!Day)
<1>1. IsFiniteSet(Report!Day)
  <2>1. 0 \in Int /\ LastDay \in Int
      BY ReportAssumption
  <2> QED BY <2>1, FS_Interval DEF Report!Day
<1> QED BY <1>1, FS_Intersection

LEMMA CountedInt ==
  ASSUME NEW c \in [Report!Day -> Nat]
  PROVE  Report!Counted(c) \in Int
<1>1. \A d \in Report!Day : c[d] \in Int
    OBVIOUS
<1> QED BY <1>1, CountedTotal, DaysFinite, TotalInt

LEMMA NoneCounted ==
  /\ Report!NoCounts \in [Report!Day -> Nat]
  /\ Report!Counted(Report!NoCounts) = 0
  /\ \A d \in Report!Day : Report!NoCounts[d] = 0
<1>1. \A d \in Report!Day : Report!NoCounts[d] = 0
    BY DEF Report!NoCounts
<1>2. Total(Report!NoCounts, Report!Day) = 0
    BY <1>1, DaysFinite, TotalZero
<1> QED BY <1>1, <1>2, CountedTotal DEF Report!NoCounts

LEMMA OneCounted ==
  ASSUME NEW c \in [Report!Day -> Nat], NEW d \in Report!Day
  PROVE  LET k == [c EXCEPT ![d] = @ + 1]
         IN  /\ k \in [Report!Day -> Nat] /\ Report!Counted(k) = Report!Counted(c) + 1
             /\ \A e \in Report!Day : e # d => k[e] = c[e]
<1> DEFINE k == [c EXCEPT ![d] = @ + 1]
<1>1. /\ k \in [Report!Day -> Nat] /\ k[d] = c[d] + 1 /\ c[d] \in Int /\ k[d] \in Int
      /\ \A e \in Report!Day \ {d} : k[e] = c[e]
      /\ \A e \in Report!Day : c[e] \in Int
    OBVIOUS
<1> HIDE DEF k
<1>2. Total(k, Report!Day) = Total(c, Report!Day) - c[d] + k[d]
    BY <1>1, DaysFinite, TotalChanged
<1>3. Total(c, Report!Day) \in Int
    BY <1>1, DaysFinite, TotalInt
<1>4. Total(k, Report!Day) = Total(c, Report!Day) + 1
    BY <1>1, <1>2, <1>3
<1>5. Report!Counted(k) = Report!Counted(c) + 1
    BY <1>4, CountedTotal
<1>6. \A e \in Report!Day : e # d => k[e] = c[e]
    BY <1>1
<1> QED BY <1>1, <1>5, <1>6 DEF k

(* The main thread goes on and counts nothing; a day may have ended.       *)
LEMMA CountsRest ==
  ASSUME CountInv, UNCHANGED <<accepted, days, statsFile, statsMishap>>,
         day' \in Report!Day, day' >= day, main' \in MainType,
         main'.due = main.due, main'.at = "down" <=> main.at = "down",
         main'.at = "loop" => main'.due = 0, main'.at = "count" => main'.due > 0
  PROVE  CountInv'
<1>1. CountTypes'
    BY DEF CountInv, CountTypes
<1>2. \A d \in Report!Day : d > day' => d > day
    BY DEF CountInv, CountTypes, Report!Day
<1> QED BY <1>1, <1>2 DEF CountInv

LEMMA CountAccepts ==
  ASSUME CountInv, Report!AcceptLive \/ \E n \in 1..2 : Report!AcceptFlush(n)
  PROVE  CountInv'
<1> DEFINE Takes(n, live) ==
             /\ main.at = "loop" /\ accepted' = accepted + n
             /\ main' = [main EXCEPT !.at = "count", !.due = n, !.live = live]
             /\ UNCHANGED <<day, days, statsFile, statsMishap>>
<1>1. \E n \in 1..2, live \in BOOLEAN : Takes(n, live)
  <2>1. Report!AcceptLive => Takes(1, TRUE)
      BY DEF Report!AcceptLive
  <2>2. \A n \in 1..2 : Report!AcceptFlush(n) => Takes(n, FALSE)
      BY DEF Report!AcceptFlush
  <2> HIDE DEF Takes
  <2>3. 1 \in 1..2
      OBVIOUS
  <2> QED BY <2>1, <2>2, <2>3
<1> HIDE DEF Takes
<1>6. PICK n \in 1..2, live \in BOOLEAN : Takes(n, live)
    BY <1>1
<1>5. /\ main.at = "loop" /\ accepted' = accepted + n
      /\ main' = [main EXCEPT !.at = "count", !.due = n, !.live = live]
      /\ UNCHANGED <<day, days, statsFile, statsMishap>>
    BY <1>6 DEF Takes
<1>2. main' \in MainType /\ main'.at = "count" /\ main'.due = n
      /\ n > 0 /\ n \in Nat /\ main.due = 0 /\ main.at # "down"
  <2>1. main \in MainType /\ main.due = 0
      BY <1>5 DEF CountInv, CountTypes
  <2>2. n > 0 /\ n \in Nat
      OBVIOUS
  <2> QED BY <1>5, <2>1, <2>2 DEF MainType
<1>3. CountTypes'
    BY <1>2, <1>5 DEF CountInv, CountTypes
<1>4. Report!Counted(days) \in Int /\ Report!Counted(statsFile.counts) \in Int
      /\ accepted \in Nat
    BY CountedInt DEF CountInv, CountTypes
<1> QED BY <1>2, <1>3, <1>4, <1>5 DEF CountInv

LEMMA CountRecords ==
  ASSUME CountInv, Report!RecordAccept
  PROVE  CountInv'
<1> DEFINE place == IF main.live THEN "store" ELSE "report"
           c1 == main.count + 1
           d1 == main.due - 1
           k == [days EXCEPT ![day] = @ + 1]
<1>0. days \in [Report!Day -> Nat] /\ day \in Report!Day /\ main \in MainType
      /\ accepted \in Nat /\ main.due \in Nat /\ main.count \in Nat
    BY DEF CountInv, CountTypes, MainType
<1>1. /\ main.at = "count" /\ main.due > 0 /\ days' = k
      /\ statsFile' = [counts |-> k, torn |-> FALSE]
      /\ main' = [main EXCEPT !.at = place, !.count = @ + 1, !.due = @ - 1]
      /\ UNCHANGED <<day, accepted, statsMishap>>
    BY DEF Report!RecordAccept
<1>2. main' = [main EXCEPT !.at = place, !.count = c1, !.due = d1]
    BY <1>0, <1>1 DEF MainType
<1>3. place \in {"store", "report"} /\ c1 \in Nat /\ d1 \in Nat /\ d1 + 1 = main.due
    BY <1>0, <1>1
<1> HIDE DEF place, c1, d1
<1>4. main' \in MainType /\ main'.at \in {"store", "report"} /\ main'.due = d1
    BY <1>0, <1>2, <1>3 DEF MainType
<1>5. /\ k \in [Report!Day -> Nat] /\ Report!Counted(k) = Report!Counted(days) + 1
      /\ \A e \in Report!Day : e # day => k[e] = days[e]
    BY <1>0, OneCounted
<1> HIDE DEF k
<1>6. CountTypes'
    BY <1>1, <1>4, <1>5 DEF CountInv, CountTypes
<1>7. Report!Counted(days) \in Int
    BY <1>0, CountedInt
<1>8. \A d \in Report!Day : d > day => k[d] = 0
  <2>1. \A d \in Report!Day : d > day => d # day
      BY <1>0 DEF Report!Day
  <2> QED BY <1>5, <2>1 DEF CountInv
<1>9. Report!Counted(days) + main.due <= accepted
      /\ (~statsMishap => Report!Counted(days) = accepted - main.due)
    BY <1>1 DEF CountInv
<1>10. /\ Report!Counted(k) + d1 <= accepted /\ Report!Counted(k) <= accepted
       /\ ~statsMishap => Report!Counted(k) = accepted - d1
    BY <1>0, <1>3, <1>5, <1>7, <1>9
<1> QED BY <1>1, <1>4, <1>6, <1>8, <1>10 DEF CountInv

LEMMA CountEnds ==
  ASSUME CountInv, Report!End
  PROVE  CountInv'
<1>1. /\ main.at # "down" /\ main' = [main EXCEPT !.at = "down"]
      /\ \/ main.at = "count" /\ statsFile' = [statsFile EXCEPT !.torn = TRUE]
         \/ UNCHANGED statsFile
      /\ (statsMishap' <=> (statsMishap \/ main.due > 0))
      /\ UNCHANGED <<day, accepted, days>>
    BY DEF Report!End, Report!Goes
<1>2. main' \in MainType /\ main'.at = "down" /\ main'.due = main.due /\ main.due \in Nat
      /\ statsFile \in [counts : [Report!Day -> Nat], torn : BOOLEAN]
    BY <1>1 DEF CountInv, CountTypes, MainType
<1>3. statsFile' \in [counts : [Report!Day -> Nat], torn : BOOLEAN]
      /\ statsFile'.counts = statsFile.counts
      /\ (statsFile' = statsFile \/ main.at = "count")
    BY <1>1, <1>2
<1>5. statsMishap' \in BOOLEAN
    BY DEF Report!End
<1>4. CountTypes'
    BY <1>1, <1>2, <1>3, <1>5 DEF CountInv, CountTypes
<1>6. ~statsMishap' => ~statsMishap /\ main.due = 0 /\ statsFile' = statsFile
    BY <1>1, <1>2, <1>3 DEF CountInv
<1> QED BY <1>1, <1>2, <1>3, <1>4, <1>6 DEF CountInv

LEMMA CountStarts ==
  ASSUME ReportInv, CountInv, Report!Start
  PROVE  CountInv'
<1>1. /\ main.at = "down" /\ main' = Report!NewMain(main.session + 1)
      /\ days' = IF statsFile.torn THEN Report!NoCounts ELSE statsFile.counts
      /\ UNCHANGED <<day, accepted, statsFile, statsMishap>>
    BY DEF Report!Start
<1>2. rows \in Nat /\ main.session + 1 \in Nat \ {0}
    BY DEF ReportInv, ReportTypes, MainType
<1>3. main' \in MainType /\ main'.at = "loop" /\ main'.due = 0
  <2>1. main' \in MainType /\ main'.at = "loop"
      BY <1>1, <1>2, NothingReported
  <2> QED BY <1>1, <2>1 DEF Report!NewMain
<1>4. statsFile.counts \in [Report!Day -> Nat] /\ statsFile.torn \in BOOLEAN /\ accepted \in Nat
    BY DEF CountInv, CountTypes
<1>5. days' \in {Report!NoCounts, statsFile.counts}
    BY <1>1, <1>4
<1>6. CountTypes'
    BY <1>1, <1>3, <1>4, <1>5, NoneCounted DEF CountInv, CountTypes
<1>7. Report!Counted(days') <= accepted /\ Report!Counted(days') \in Int
    BY <1>4, <1>5, NoneCounted, CountedInt DEF CountInv
<1>8. ~statsMishap => days' = days /\ main.due = 0
    BY <1>1 DEF CountInv
<1>9. \A d \in Report!Day : d > day => days'[d] = 0
    BY <1>5, NoneCounted DEF CountInv
<1> QED BY <1>1, <1>3, <1>4, <1>6, <1>7, <1>8, <1>9 DEF CountInv

LEMMA CountInit == Report!Init => CountInv
<1> SUFFICES ASSUME Report!Init PROVE CountInv
    OBVIOUS
<1>1. /\ day = 0 /\ accepted = 0 /\ rows = 0 /\ main = Report!NewMain(1)
      /\ days = Report!NoCounts /\ statsFile = [counts |-> Report!NoCounts, torn |-> FALSE]
      /\ statsMishap = FALSE
    BY DEF Report!Init
<1>2. main \in MainType /\ main.at = "loop"
    BY <1>1, NothingReported
<1>3. main.due = 0
    BY <1>1 DEF Report!NewMain
<1>4. day \in Report!Day
    BY <1>1, ReportAssumption DEF Report!Day
<1>5. CountTypes
    BY <1>1, <1>2, <1>4, NoneCounted DEF CountTypes
<1> QED BY <1>1, <1>2, <1>3, <1>5, NoneCounted DEF CountInv

LEMMA CountStep == ReportInv /\ CountInv /\ [Report!Next]_Report!vars => CountInv'
<1> SUFFICES ASSUME ReportInv, CountInv, [Report!Next]_Report!vars PROVE CountInv'
    OBVIOUS
<1>0. main \in MainType /\ main.due \in Nat /\ day \in Report!Day /\ day \in Int
    BY DEF CountInv, CountTypes, MainType, Report!Day
<1>1. CASE Report!AcceptLive \/ \E n \in 1..2 : Report!AcceptFlush(n)
    BY <1>1, CountAccepts
<1>2. CASE Report!RecordAccept
    BY <1>2, CountRecords
<1>3. CASE Report!End
    BY <1>3, CountEnds
<1>4. CASE Report!Start
    BY <1>4, CountStarts
<1>5. CASE Report!Rollover
  <2>1. day' \in Report!Day /\ day' = day + 1 /\ main' = main
        /\ UNCHANGED <<accepted, days, statsFile, statsMishap>>
      BY <1>5 DEF Report!Rollover
  <2>2. day' >= day /\ main' \in MainType
        /\ (main'.at = "loop" => main'.due = 0) /\ (main'.at = "count" => main'.due > 0)
      BY <1>0, <2>1 DEF CountInv
  <2> QED BY <2>1, <2>2, CountsRest
<1>6. CASE Report!RecordDirectSubmit \/ Report!ReportAccept \/ Report!Reported
  <2>1. PICK place \in {"report", "reporting", "count", "loop"} :
            /\ main' = [main EXCEPT !.at = place]
            /\ place = "count" => main.due > 0
            /\ place = "loop" => ~(main.due > 0)
      BY <1>6 DEF Report!RecordDirectSubmit, Report!ReportAccept, Report!Reported, Report!Goes
  <2>2. main.at # "down" /\ UNCHANGED <<day, accepted, days, statsFile, statsMishap>>
      BY <1>6 DEF Report!RecordDirectSubmit, Report!ReportAccept, Report!Reported
  <2>3. main' \in MainType /\ main'.at = place /\ main'.due = main.due /\ place # "down"
      BY <1>0, <2>1 DEF MainType
  <2>4. day' \in Report!Day /\ day' >= day
        /\ (place = "count" => main'.due > 0) /\ (place = "loop" => main'.due = 0)
      BY <1>0, <2>1, <2>2, <2>3
  <2> QED BY <2>2, <2>3, <2>4, CountsRest
<1>7. CASE Report!ReportHoldings \/ Report!Backfill
  <2>1. /\ main' = [main EXCEPT !.at = "reporting", !.beats = @ + 1]
           \/ main' = [main EXCEPT !.history = 0]
        /\ main.at # "down" /\ UNCHANGED <<day, accepted, days, statsFile, statsMishap>>
      BY <1>7 DEF Report!ReportHoldings, Report!Backfill
  <2>2. main' \in MainType /\ main'.due = main.due
        /\ main'.at \in {main.at, "reporting"}
    <3> DEFINE b1 == main.beats + 1
    <3>1. b1 \in Nat
        BY <1>0 DEF MainType
    <3>2. \/ main' = [main EXCEPT !.at = "reporting", !.beats = b1]
          \/ main' = [main EXCEPT !.history = 0]
        BY <2>1
    <3> HIDE DEF b1
    <3>3. main' = [main EXCEPT !.at = "reporting", !.beats = b1] =>
              main' \in MainType /\ main'.due = main.due /\ main'.at = "reporting"
        BY <1>0, <3>1 DEF MainType
    <3>4. main' = [main EXCEPT !.history = 0] =>
              main' \in MainType /\ main'.due = main.due /\ main'.at = main.at
        BY <1>0 DEF MainType
    <3> QED BY <3>2, <3>3, <3>4
  <2>3. day' \in Report!Day /\ day' >= day
        /\ (main'.at = "loop" => main'.due = 0) /\ (main'.at = "count" => main'.due > 0)
        /\ (main'.at = "down" <=> main.at = "down")
      BY <1>0, <2>1, <2>2 DEF CountInv
  <2> QED BY <2>1, <2>2, <2>3, CountsRest
<1>8. CASE \/ Report!Take \/ (\E p \in Report!Producer : Report!Put(p) \/ Report!Evict(p))
           \/ (\E received \in BOOLEAN : Report!Post(received)) \/ UNCHANGED Report!vars
  <2>1. UNCHANGED <<day, accepted, main, days, statsFile, statsMishap>>
      BY <1>8 DEF Report!Take, Report!Put, Report!Evict, Report!Post, Report!vars
  <2>2. day' \in Report!Day /\ day' >= day /\ main' \in MainType
        /\ (main'.at = "loop" => main'.due = 0) /\ (main'.at = "count" => main'.due > 0)
      BY <1>0, <2>1 DEF CountInv
  <2> QED BY <2>1, <2>2, CountsRest
<1> QED BY <1>1, <1>2, <1>3, <1>4, <1>5, <1>6, <1>7, <1>8 DEF Report!Next

(* What the display adds up.                                               *)
Over(first, last) == Total(days, (first..last) \cap Report!Day)

LEMMA ViewTotals ==
  LET monday == Report!WeekStart(day)
  IN  /\ Report!View.today = days[day]
      /\ Report!View.week = Over(monday, day)
      /\ Report!View.previous = Over(monday - WeekLen, monday - 1)
<1> QED
    BY DEF Report!View, Report!MapThenSumSet, Report!MapThenFoldSet,
           Over, Total, MapThenSumSet, MapThenFoldSet

LEMMA WeekBounds ==
  ASSUME NEW d \in Nat
  PROVE  Report!WeekStart(d) \in Int /\ Report!WeekStart(d) <= d
<1>1. WeekLen \in Nat /\ WeekLen > 0 /\ d + WeekLen - 1 \in Int
    BY BalancesAssumption
<1>2. (d + WeekLen - 1) % WeekLen \in Int /\ 0 <= (d + WeekLen - 1) % WeekLen
    BY <1>1
<1> QED BY <1>2 DEF Report!WeekStart, Report!Weekday

LEMMA WeeksAddUp ==
  ASSUME CountInv, Report!WeekStart(day) <= WeekLen
  PROVE  /\ Report!View.week + Report!View.previous = Report!Counted(days)
         /\ Report!View.today <= Report!View.week
<1> DEFINE monday == Report!WeekStart(day)
           Week == (monday..day) \cap Report!Day
           Before == ((monday - WeekLen)..(monday - 1)) \cap Report!Day
           After == {d \in Report!Day : d > day}
<1>0. day \in Nat /\ day \in Report!Day /\ days \in [Report!Day -> Nat] /\ WeekLen \in Nat
      /\ LastDay \in Nat
    BY ReportAssumption, BalancesAssumption DEF CountInv, CountTypes, Report!Day
<1>1. monday \in Int /\ monday <= day /\ monday - WeekLen <= 0
    BY <1>0, WeekBounds
<1>2. /\ Report!View.today = days[day] /\ Report!View.week = Total(days, Week)
      /\ Report!View.previous = Total(days, Before)
    BY ViewTotals DEF Over
<1> HIDE DEF monday
<1>3. /\ Week \cap Before = {} /\ (Week \cup Before) \cap After = {} /\ day \in Week
      /\ (Week \cup Before) \cup After = Report!Day
    BY <1>0, <1>1 DEF Report!Day
<1>4. IsFiniteSet(Week) /\ IsFiniteSet(Before) /\ IsFiniteSet(After)
    BY <1>0, <1>1, DaysFinite, FS_Subset
<1>5. \A d \in Report!Day : days[d] \in Int /\ days[d] \in Nat
    BY <1>0
<1>6. \A d \in After : days[d] = 0
    BY DEF CountInv
<1>7. Week \subseteq Report!Day /\ Before \subseteq Report!Day /\ After \subseteq Report!Day
    OBVIOUS
<1> HIDE DEF Week, Before, After
<1>8. IsFiniteSet(Week \cup Before)
    BY <1>4, FS_Union
<1>9. Total(days, Week \cup Before) = Total(days, Week) + Total(days, Before)
  <2>1. \A d \in Week \cup Before : days[d] \in Int
      BY <1>5, <1>7
  <2> QED BY <1>3, <1>4, <2>1, TotalUnion
<1>10. Total(days, (Week \cup Before) \cup After) = Total(days, Week \cup Before) + Total(days, After)
  <2>1. \A d \in (Week \cup Before) \cup After : days[d] \in Int
      BY <1>5, <1>7
  <2> QED BY <1>3, <1>4, <1>8, <2>1, TotalUnion
<1>11. Total(days, After) = 0
    BY <1>4, <1>6, TotalZero
<1>12. Total(days, Week) \in Nat /\ days[day] <= Total(days, Week)
  <2>1. \A d \in Week : days[d] \in Nat
      BY <1>5, <1>7
  <2> QED BY <1>3, <1>4, <2>1, TotalAtLeast
<1>13. Total(days, Before) \in Nat
  <2>1. \A d \in Before : days[d] \in Nat
      BY <1>5, <1>7
  <2> QED BY <1>4, <2>1, TotalAtLeast
<1>14. Report!Counted(days) = Total(days, Week) + Total(days, Before)
  <2>1. Report!Counted(days) = Total(days, (Week \cup Before) \cup After)
      BY <1>3, CountedTotal
  <2> QED BY <1>9, <1>10, <1>11, <1>12, <1>13, <2>1
<1> QED BY <1>2, <1>12, <1>14

LEMMA CountsAgree == CountInv => Report!AcceptsCountedOnce
<1> SUFFICES ASSUME CountInv, main.at \in {"loop", "reporting"} PROVE
        /\ Report!Counted(days) <= accepted
        /\ ~statsMishap => Report!Counted(days) = accepted - main.due /\ statsFile.counts = days
        /\ ~statsMishap /\ Report!WeekStart(day) <= WeekLen =>
               /\ Report!View.week + Report!View.previous = accepted - main.due
               /\ Report!View.today <= Report!View.week
    BY DEF Report!AcceptsCountedOnce
<1>1. Report!Counted(days) \in Int /\ main.due \in Nat /\ accepted \in Nat
    BY CountedInt DEF CountInv, CountTypes, MainType
<1>2. Report!Counted(days) + main.due <= accepted
    BY DEF CountInv
<1> QED BY <1>1, <1>2, WeeksAddUp DEF CountInv

(* local_stats.py:81-125 and 160-175: over days and sessions an acceptance *)
(* is counted once, unless the miner is killed before it has counted it,   *)
(* and of two weeks the display shows it in one.                           *)
THEOREM AcceptsStayCounted == ServicesSpec => []AcceptsCountedOnce
<1> DEFINE Inv == service = "reporting" => ReportInv /\ CountInv
<1>1. ServicesInit => Inv
    BY ReportInit, CountInit DEF ServicesInit
<1>2. Inv /\ [ServicesNext]_all => Inv'
    BY ReportFrame, ReportStep, CountStep, ServiceStays
<1>3. Inv => AcceptsCountedOnce
    BY CountsAgree DEF AcceptsCountedOnce
<1> QED BY <1>1, <1>2, <1>3, PTL DEF ServicesSpec

-----------------------------------------------------------------------------
(* WalletSnapshots *)

LEMMA SnapsFrame ==
  [ServicesNext]_all /\ service = "snapshots" =>
      service' = "snapshots" /\ [Snaps!Next]_Snaps!vars
<1> QED
    BY DEF all, ServicesNext, LockRuns, HeatRuns, CpuRuns, PowerRuns, UptimeRuns, IniRuns,
       ReportRuns, BalancesRuns, UpgradeRuns, VramRuns, SnapsRuns, snapshots, Snaps!vars

(* The blocks of rows of the chart, and of the workers of a wallet.        *)
Summed(S) == Snaps!MapThenSumSet(LAMBDA t : t.blocks, S)
BlocksOf(S) == [t \in S |-> t.blocks]
BlocksAdd(h, S) ==
  h = [T \in SUBSET S |-> IF T = {} THEN 0 ELSE Chosen(T).blocks + h[T \ {Chosen(T)}]]

LEMMA SummedTotal ==
  ASSUME NEW S, IsFiniteSet(S), \A t \in S : t.blocks \in Int
  PROVE  Summed(S) = Total(BlocksOf(S), S)
<1> DEFINE f == BlocksOf(S)
           h == CHOOSE h : BlocksAdd(h, S)
<1>1. \A x \in S : f[x] \in Int
    BY DEF BlocksOf
<1>2. \A T \in SUBSET S : T # {} => f[Chosen(T)] = Chosen(T).blocks
    BY DEF BlocksOf, Chosen
<1> HIDE DEF f
<1>3. ASSUME NEW k PROVE Adds(k, f, S) <=> BlocksAdd(k, S)
  <2>1. \A T \in SUBSET S :
            Added(k, f, T) = IF T = {} THEN 0 ELSE Chosen(T).blocks + k[T \ {Chosen(T)}]
      BY <1>2 DEF Added
  <2> QED BY <2>1 DEF Adds, BlocksAdd
<1>4. BlocksAdd(h, S)
    BY <1>3, AddsExists
<1>5. Summed(S) = h[S]
    BY DEF Summed, Snaps!MapThenSumSet, Snaps!MapThenFoldSet, BlocksAdd, Chosen
<1> HIDE DEF h
<1> QED BY <1>1, <1>3, <1>4, <1>5, AddsTotal DEF f

WorkersOf(table, a) == {w \in DOMAIN table : table[w].wallet = a}
FoundOf(table) == [w \in DOMAIN table |-> table[w].blocks]
FoundAdd(h, table, S) ==
  h = [T \in SUBSET S |-> IF T = {} THEN 0 ELSE table[Chosen(T)].blocks + h[T \ {Chosen(T)}]]

RowType == [wallet : Wallet \cup {NoWallet}, online : BOOLEAN, blocks : Nat]
Table(table) == IsFiniteSet(DOMAIN table) /\ table \in [DOMAIN table -> RowType]

LEMMA FoundTotal ==
  ASSUME NEW table, Table(table), NEW a
  PROVE  /\ Snaps!Found(table, a) = Total(FoundOf(table), WorkersOf(table, a))
         /\ IsFiniteSet(WorkersOf(table, a))
         /\ \A w \in WorkersOf(table, a) : FoundOf(table)[w] \in Nat
<1> DEFINE S == WorkersOf(table, a)
           f == FoundOf(table)
           h == CHOOSE h : FoundAdd(h, table, S)
<1>0. IsFiniteSet(S) /\ (\A w \in S : f[w] \in Nat /\ f[w] \in Int /\ f[w] = table[w].blocks)
  <2>1. S \in SUBSET DOMAIN table
      BY DEF WorkersOf
  <2>2. \A w \in DOMAIN table : table[w].blocks \in Nat
      BY DEF Table, RowType
  <2>3. \A w \in DOMAIN table : f[w] = table[w].blocks
      BY DEF FoundOf
  <2> HIDE DEF S, f
  <2>4. IsFiniteSet(S)
      BY <2>1, FS_Subset DEF Table
  <2> QED BY <2>1, <2>2, <2>3, <2>4
<1>2. \A T \in SUBSET S : T # {} => f[Chosen(T)] = table[Chosen(T)].blocks
    BY <1>0 DEF Chosen
<1>5. Snaps!Found(table, a) = h[S]
    BY DEF Snaps!Found, Snaps!MapThenSumSet, Snaps!MapThenFoldSet, FoundAdd, Chosen, WorkersOf
<1> HIDE DEF f, S
<1>3. ASSUME NEW k PROVE Adds(k, f, S) <=> FoundAdd(k, table, S)
  <2>1. \A T \in SUBSET S :
            Added(k, f, T) = IF T = {} THEN 0 ELSE table[Chosen(T)].blocks + k[T \ {Chosen(T)}]
      BY <1>2 DEF Added
  <2> QED BY <2>1 DEF Adds, FoundAdd
<1>4. FoundAdd(h, table, S)
    BY <1>0, <1>3, AddsExists
<1> HIDE DEF h
<1>7. Snaps!Found(table, a) = Total(f, S)
    BY <1>0, <1>3, <1>4, <1>5, AddsTotal
<1> QED BY <1>0, <1>7 DEF f, S

LEMMA FoundNat ==
  ASSUME NEW table, Table(table), NEW a
  PROVE  Snaps!Found(table, a) \in Nat
<1> QED BY FoundTotal, TotalAtLeast

(* Workers that stay with a wallet never have found less for it.           *)
LEMMA FoundGrows ==
  ASSUME NEW table, Table(table), NEW more, Table(more), NEW a,
         \A w \in WorkersOf(table, a) :
            w \in WorkersOf(more, a) /\ table[w].blocks <= more[w].blocks
  PROVE  Snaps!Found(table, a) <= Snaps!Found(more, a)
<1> DEFINE S == WorkersOf(table, a)
           R == WorkersOf(more, a)
           f == FoundOf(table)
           k == FoundOf(more)
<1>1. /\ Snaps!Found(table, a) = Total(f, S)
      /\ \A w \in S : f[w] \in Nat
    BY FoundTotal
<1>2. /\ Snaps!Found(more, a) = Total(k, R)
      /\ IsFiniteSet(R)
      /\ \A w \in R : k[w] \in Nat
    BY FoundTotal
<1>3. S \in SUBSET R /\ \A w \in S : f[w] <= k[w]
  <2>1. S \in SUBSET R
      OBVIOUS
  <2>2. ASSUME NEW w \in S PROVE f[w] <= k[w]
    <3>1. w \in DOMAIN table /\ w \in DOMAIN more /\ table[w].blocks <= more[w].blocks
        BY DEF WorkersOf
    <3>2. f[w] = table[w].blocks /\ k[w] = more[w].blocks
        BY <3>1 DEF FoundOf
    <3> QED BY <3>1, <3>2
  <2> QED BY <2>1, <2>2
<1> HIDE DEF S, R, f, k
<1>4. Total(f, S) <= Total(k, R)
    BY <1>1, <1>2, <1>3, TotalGrows
<1> QED BY <1>1, <1>2, <1>4

ChartType == [wallet : Wallet, nth : Nat, session : Nat, found : Nat, blocks : Nat, online : Nat]

SnapTypes ==
  /\ \A table \in {workerRow, committed.row, round.seen} : Table(table)
  /\ round = [nth |-> round.nth, open |-> round.open, seen |-> round.seen, left |-> round.left]
  /\ round.nth \in Nat /\ round.left \in SUBSET Wallet
  /\ lastBlocks \in [Wallet -> Nat]
  /\ chartSession \in [nth : Nat, jumps : SUBSET (Wallet \cup {NoWallet})]
  /\ committed = [row |-> committed.row, chart |-> committed.chart]
  /\ chart \in SUBSET ChartType /\ IsFiniteSet(chart)
  /\ committed.chart \in SUBSET ChartType /\ IsFiniteSet(committed.chart)

(* The rows of a wallet that came after one of its rows, and what a        *)
(* wallet's rows of this session add up to.                                *)
Newer(S, r) == {t \in S : t.wallet = r.wallet /\ t.nth > r.nth}
SumsUp(S, except) ==
  \A r \in S : r.session = chartSession.nth /\ r.wallet \notin except =>
                 Summed(Newer(S, r)) = lastBlocks[r.wallet] - r.found

(* The wallets with a record that waits for its commit.                    *)
Waiting == {t.wallet : t \in chart \ committed.chart}

(* What is remembered of a wallet no worker left is what its workers had   *)
(* found then, and what its rows since any of them in this session add to; *)
(* of the rows that are committed, where none waits for its commit.        *)
SnapInv ==
  /\ SnapTypes
  /\ \A t \in chart \cup committed.chart :
        /\ t.nth <= round.nth /\ t.session <= chartSession.nth
        /\ t.wallet \in round.left => t.nth < round.nth
  /\ \A a \in Wallet \ chartSession.jumps :
        /\ lastBlocks[a] <= Snaps!Found(workerRow, a)
        /\ a \in round.left => /\ lastBlocks[a] <= Snaps!Found(round.seen, a)
                               /\ Snaps!Found(round.seen, a) <= Snaps!Found(workerRow, a)
  /\ SumsUp(chart, chartSession.jumps)
  /\ SumsUp(committed.chart, chartSession.jumps \cup Waiting)

LEMMA SnapTables ==
  ASSUME SnapTypes
  PROVE  Table(workerRow) /\ Table(committed.row) /\ Table(round.seen)
<1> QED BY DEF SnapTypes

LEMMA SnapTablesPrimed ==
  ASSUME Table(workerRow'), Table(committed'.row), Table(round'.seen)
  PROVE  \A table \in {workerRow', committed'.row, round'.seen} : Table(table)
<1> QED OBVIOUS

(* Workers register, are heard of or not, or find blocks: the rows alone   *)
(* change.                                                                 *)
LEMMA RowsChange ==
  ASSUME SnapInv, Table(workerRow'), UNCHANGED <<lastBlocks, round, chart>>,
         Table(committed'.row),
         committed' = [row |-> committed'.row, chart |-> committed.chart],
         chartSession' \in [nth : Nat, jumps : SUBSET (Wallet \cup {NoWallet})],
         chartSession'.nth = chartSession.nth,
         chartSession.jumps \subseteq chartSession'.jumps,
         \A a \in Wallet \ chartSession'.jumps : \A w \in WorkersOf(workerRow, a) :
            w \in WorkersOf(workerRow', a) /\ workerRow[w].blocks <= workerRow'[w].blocks
  PROVE  SnapInv'
<1>0. SnapTypes /\ committed'.chart = committed.chart
    BY DEF SnapInv
<1>1. SnapTypes'
  <2>1. \A table \in {workerRow', committed'.row, round'.seen} : Table(table)
      BY <1>0, SnapTables, SnapTablesPrimed
  <2> QED BY <1>0, <2>1 DEF SnapTypes
<1>2. ASSUME NEW a \in Wallet \ chartSession'.jumps
      PROVE  /\ lastBlocks[a] <= Snaps!Found(workerRow', a)
             /\ a \in round.left => Snaps!Found(round.seen, a) <= Snaps!Found(workerRow', a)
  <2>1. Table(workerRow) /\ Table(round.seen) /\ lastBlocks[a] \in Nat
      BY <1>0, SnapTables DEF SnapTypes
  <2>2. Snaps!Found(workerRow, a) <= Snaps!Found(workerRow', a)
      BY <2>1, FoundGrows
  <2>3. /\ Snaps!Found(workerRow, a) \in Nat /\ Snaps!Found(workerRow', a) \in Nat
        /\ Snaps!Found(round.seen, a) \in Nat
      BY <2>1, FoundNat
  <2>4. /\ lastBlocks[a] <= Snaps!Found(workerRow, a)
        /\ a \in round.left => Snaps!Found(round.seen, a) <= Snaps!Found(workerRow, a)
      BY DEF SnapInv
  <2> QED BY <2>1, <2>2, <2>3, <2>4
<1>3. Waiting' = Waiting
    BY <1>0 DEF Waiting
<1>4. SumsUp(chart, chartSession.jumps)'
    BY DEF SnapInv, SumsUp, Newer
<1>5. SumsUp(committed.chart, chartSession.jumps \cup Waiting)'
    BY <1>0, <1>3 DEF SnapInv, SumsUp, Newer
<1>6. \A t \in chart' \cup committed'.chart :
        /\ t.nth <= round'.nth /\ t.session <= chartSession'.nth
        /\ t.wallet \in round'.left => t.nth < round'.nth
    BY <1>0 DEF SnapInv
<1>7. \A a \in Wallet \ chartSession'.jumps :
        /\ lastBlocks'[a] <= Snaps!Found(workerRow', a)
        /\ a \in round'.left => /\ lastBlocks'[a] <= Snaps!Found(round'.seen, a)
                                /\ Snaps!Found(round'.seen, a) <= Snaps!Found(workerRow', a)
    BY <1>2 DEF SnapInv
<1> QED BY <1>1, <1>4, <1>5, <1>6, <1>7 DEF SnapInv

LEMMA SnapRows ==
  ASSUME SnapInv, NEW w, NEW a \in Wallet \cup {NoWallet},
         Snaps!Register(w, a) \/ Snaps!Hear(w) \/ Snaps!FindBlock(w)
  PROVE  SnapInv'
<1>0. /\ Table(workerRow)
      /\ chartSession \in [nth : Nat, jumps : SUBSET (Wallet \cup {NoWallet})]
      /\ Table(committed.row)
      /\ committed = [row |-> committed.row, chart |-> committed.chart]
    BY DEF SnapInv, SnapTypes
<1>1. ASSUME Snaps!Register(w, a) PROVE SnapInv'
  <2> DEFINE new == [wallet |-> a, online |-> TRUE,
                     blocks |-> IF w \in DOMAIN workerRow THEN workerRow[w].blocks ELSE 0]
             D == (DOMAIN workerRow) \cup {w}
             moves == w \in DOMAIN workerRow /\ workerRow[w].wallet # a
  <2>1. /\ workerRow' = [v \in D |-> IF v # w THEN workerRow[v] ELSE new]
        /\ chartSession' = IF moves
                           THEN [chartSession EXCEPT !.jumps = @ \cup {workerRow[w].wallet}]
                           ELSE chartSession
        /\ UNCHANGED <<lastBlocks, round, chart, committed>>
      BY <1>1 DEF Snaps!Register, Snaps!Known
  <2>2. new \in RowType
      BY <1>0 DEF Table, RowType
  <2>3. IsFiniteSet(D)
      BY <1>0, FS_AddElement DEF Table
  <2>4. \A v \in DOMAIN workerRow : workerRow[v] \in RowType
      BY <1>0 DEF Table
  <2>5. Table(workerRow')
    <3> HIDE DEF new
    <3>1. DOMAIN workerRow' = D /\ \A v \in D : workerRow'[v] \in RowType
        BY <2>1, <2>2, <2>4
    <3>2. workerRow' \in [D -> RowType]
        BY <2>1, <3>1
    <3> QED BY <2>3, <3>1, <3>2 DEF Table
  <2>6. moves => workerRow[w].wallet \in Wallet \cup {NoWallet}
      BY <2>4 DEF RowType
  <2>7. /\ chartSession' \in [nth : Nat, jumps : SUBSET (Wallet \cup {NoWallet})]
        /\ chartSession'.nth = chartSession.nth
        /\ chartSession.jumps \subseteq chartSession'.jumps
        /\ moves => workerRow[w].wallet \in chartSession'.jumps
    <3> HIDE DEF moves
    <3> QED BY <1>0, <2>1, <2>6
  <2>8. ASSUME NEW b \in Wallet \ chartSession'.jumps, NEW v \in WorkersOf(workerRow, b)
        PROVE  v \in WorkersOf(workerRow', b) /\ workerRow[v].blocks <= workerRow'[v].blocks
    <3>1. v \in DOMAIN workerRow /\ workerRow[v].wallet = b /\ workerRow[v].blocks \in Nat
        BY <2>4 DEF WorkersOf, RowType
    <3>2. v \in DOMAIN workerRow' /\ workerRow'[v].wallet = b
          /\ workerRow'[v].blocks = workerRow[v].blocks
      <4>1. CASE v # w
          BY <2>1, <3>1, <4>1
      <4>2. CASE v = w
        <5>1. a = b
            BY <2>7, <3>1, <4>2
        <5> QED BY <2>1, <3>1, <4>2, <5>1
      <4> QED BY <4>1, <4>2
    <3> QED BY <3>1, <3>2 DEF WorkersOf
  <2>9. Table(committed'.row) /\ committed' = [row |-> committed'.row, chart |-> committed.chart]
      BY <1>0, <2>1
  <2> QED BY <2>1, <2>5, <2>7, <2>8, <2>9, RowsChange
<1>2. ASSUME Snaps!Hear(w) \/ Snaps!FindBlock(w) PROVE SnapInv'
  <2>1. /\ w \in DOMAIN workerRow /\ UNCHANGED <<lastBlocks, round, chart, committed, chartSession>>
        /\ \/ workerRow' = [workerRow EXCEPT ![w].online = TRUE]
           \/ workerRow' = [workerRow EXCEPT ![w].blocks = @ + 1]
      BY <1>2 DEF Snaps!Hear, Snaps!FindBlock, Snaps!Known
  <2>2. workerRow[w] \in RowType /\ workerRow \in [DOMAIN workerRow -> RowType]
      BY <1>0, <2>1 DEF Table
  <2>3. PICK new \in RowType :
            /\ workerRow' = [workerRow EXCEPT ![w] = new]
            /\ new.wallet = workerRow[w].wallet /\ workerRow[w].blocks <= new.blocks
    <3>1. CASE workerRow' = [workerRow EXCEPT ![w].online = TRUE]
      <4> DEFINE o == TRUE
                 n == [workerRow[w] EXCEPT !.online = o]
      <4>0. o \in BOOLEAN
          OBVIOUS
      <4> HIDE DEF o
      <4>1. n \in RowType /\ n.wallet = workerRow[w].wallet /\ workerRow[w].blocks <= n.blocks
          BY <2>2, <4>0 DEF RowType
      <4>2. workerRow' = [workerRow EXCEPT ![w] = n]
          BY <2>2, <3>1 DEF o
      <4> HIDE DEF n
      <4> QED BY <4>1, <4>2
    <3>2. CASE workerRow' = [workerRow EXCEPT ![w].blocks = @ + 1]
      <4> DEFINE n == [workerRow[w] EXCEPT !.blocks = @ + 1]
      <4>1. n \in RowType /\ n.wallet = workerRow[w].wallet /\ workerRow[w].blocks <= n.blocks
          BY <2>2 DEF RowType
      <4>2. workerRow' = [workerRow EXCEPT ![w] = n]
          BY <2>2, <3>2
      <4> HIDE DEF n
      <4> QED BY <4>1, <4>2
    <3> QED BY <2>1, <3>1, <3>2
  <2>4. DOMAIN workerRow' = DOMAIN workerRow /\ workerRow' \in [DOMAIN workerRow -> RowType]
      BY <2>2, <2>3
  <2>5. Table(workerRow')
      BY <1>0, <2>4 DEF Table
  <2>6. ASSUME NEW b \in Wallet, NEW v \in WorkersOf(workerRow, b)
        PROVE  v \in WorkersOf(workerRow', b) /\ workerRow[v].blocks <= workerRow'[v].blocks
    <3>1. v \in DOMAIN workerRow /\ workerRow[v].wallet = b /\ workerRow[v].blocks \in Nat
        BY <2>2 DEF WorkersOf, RowType
    <3>2. v \in DOMAIN workerRow' /\ workerRow'[v].wallet = b
          /\ workerRow[v].blocks <= workerRow'[v].blocks
        BY <2>1, <2>2, <2>3, <3>1
    <3> QED BY <3>2 DEF WorkersOf
  <2>7. Table(committed'.row) /\ committed' = [row |-> committed'.row, chart |-> committed.chart]
      BY <1>0, <2>1
  <2> QED BY <1>0, <2>1, <2>5, <2>6, <2>7, RowsChange
<1> QED BY <1>1, <1>2

LEMMA SilencedIs ==
  ASSUME NEW table, Table(table), NEW w
  PROVE  /\ Table(Snaps!Silenced(table, w))
         /\ DOMAIN Snaps!Silenced(table, w) = DOMAIN table
         /\ \A v \in DOMAIN table : /\ Snaps!Silenced(table, w)[v].wallet = table[v].wallet
                                    /\ Snaps!Silenced(table, w)[v].blocks = table[v].blocks
<1> DEFINE quiet(v) == IF v = w THEN [table[v] EXCEPT !.online = FALSE] ELSE table[v]
           new == [v \in DOMAIN table |-> quiet(v)]
<1>1. ASSUME NEW v \in DOMAIN table
      PROVE  /\ quiet(v) \in RowType /\ quiet(v).wallet = table[v].wallet
             /\ quiet(v).blocks = table[v].blocks
  <2>1. table[v] \in RowType
      BY DEF Table
  <2> QED BY <2>1 DEF RowType
<1>2. Snaps!Silenced(table, w) = new
    BY DEF Snaps!Silenced
<1> HIDE DEF quiet
<1>3. /\ DOMAIN new = DOMAIN table /\ new \in [DOMAIN table -> RowType]
      /\ \A v \in DOMAIN table : new[v] = quiet(v)
    BY <1>1
<1> HIDE DEF new
<1> QED BY <1>1, <1>2, <1>3 DEF Table

LEMMA SnapSilence ==
  ASSUME SnapInv, NEW w, Snaps!FallSilent(w)
  PROVE  SnapInv'
<1>0. /\ Table(workerRow) /\ Table(committed.row)
      /\ committed = [row |-> committed.row, chart |-> committed.chart]
      /\ chartSession \in [nth : Nat, jumps : SUBSET (Wallet \cup {NoWallet})]
      /\ \A v \in DOMAIN workerRow : workerRow[v].blocks \in Nat
    BY DEF SnapInv, SnapTypes, Table, RowType
<1>1. /\ workerRow' = Snaps!Silenced(workerRow, w)
      /\ committed' = [committed EXCEPT !.row = Snaps!Silenced(committed.row, w)]
      /\ UNCHANGED <<lastBlocks, round, chart, chartSession>>
    BY DEF Snaps!FallSilent
<1>2. /\ committed'.row = Snaps!Silenced(committed.row, w)
      /\ committed' = [row |-> committed'.row, chart |-> committed.chart]
    BY <1>0, <1>1
<1>3. Table(workerRow') /\ Table(committed'.row)
    BY <1>0, <1>1, <1>2, SilencedIs
<1>4. ASSUME NEW b \in Wallet, NEW v \in WorkersOf(workerRow, b)
      PROVE  v \in WorkersOf(workerRow', b) /\ workerRow[v].blocks <= workerRow'[v].blocks
  <2>1. v \in DOMAIN workerRow /\ workerRow[v].wallet = b
      BY DEF WorkersOf
  <2>2. v \in DOMAIN workerRow' /\ workerRow'[v].wallet = b
        /\ workerRow'[v].blocks = workerRow[v].blocks
      BY <1>0, <1>1, <2>1, SilencedIs
  <2> QED BY <1>0, <2>1, <2>2 DEF WorkersOf
<1> QED BY <1>0, <1>1, <1>2, <1>3, <1>4, RowsChange

LEMMA OverIs ==
  ASSUME SnapTypes
  PROVE  Snaps!Over = [nth |-> round.nth, open |-> FALSE, seen |-> <<>>, left |-> {}]
<1> DEFINE R == [nth : {round.nth}, open : {round.open, FALSE}, seen : {round.seen, <<>>},
                 left : {round.left, {}}]
           over == [round EXCEPT !.open = FALSE, !.left = {}, !.seen = <<>>]
<1>1. round \in R
    BY DEF SnapTypes
<1>2. /\ over \in R /\ over.nth = round.nth /\ over.open = FALSE
      /\ over.seen = <<>> /\ over.left = {}
    BY <1>1
<1>3. over = [nth |-> round.nth, open |-> FALSE, seen |-> <<>>, left |-> {}]
  <2> HIDE DEF over
  <2> QED BY <1>2
<1> QED BY <1>3 DEF Snaps!Over

LEMMA NoTable == Table(<<>>)
<1>1. DOMAIN <<>> = {} /\ <<>> \in [{} -> RowType]
    OBVIOUS
<1> QED BY <1>1, FS_EmptySet DEF Table

(* A step that writes no row and changes nothing that is remembered.       *)
LEMMA SumsStay ==
  ASSUME UNCHANGED <<chart, committed, lastBlocks>>, SnapInv,
         chartSession'.nth = chartSession.nth, chartSession.jumps \subseteq chartSession'.jumps
  PROVE  /\ SumsUp(chart, chartSession.jumps)'
         /\ SumsUp(committed.chart, chartSession.jumps \cup Waiting)'
<1>1. Waiting' = Waiting
    BY DEF Waiting
<1> QED BY <1>1 DEF SnapInv, SumsUp, Newer

LEMMA SnapBegins ==
  ASSUME SnapInv, Snaps!Begin
  PROVE  SnapInv'
<1> DEFINE wallets == {workerRow[w].wallet : w \in DOMAIN workerRow} \ {NoWallet}
<1>0. SnapTypes
    BY DEF SnapInv
<1>1. /\ UNCHANGED <<workerRow, lastBlocks, chart, committed, chartSession>>
      /\ round' = [nth |-> round.nth + 1, open |-> TRUE, seen |-> workerRow, left |-> wallets]
    BY DEF Snaps!Begin, Snaps!Known
<1>2. wallets \in SUBSET Wallet
  <2>1. \A w \in DOMAIN workerRow : workerRow[w].wallet \in Wallet \cup {NoWallet}
      BY <1>0, SnapTables DEF Table, RowType
  <2> QED BY <2>1
<1> HIDE DEF wallets
<1>4. /\ round'.nth = round.nth + 1 /\ round'.left = wallets /\ round'.seen = workerRow
      /\ round' = [nth |-> round'.nth, open |-> round'.open, seen |-> round'.seen,
                   left |-> round'.left]
      /\ round.nth \in Nat
    BY <1>0, <1>1 DEF SnapTypes
<1>5. SnapTypes'
  <2>1. \A table \in {workerRow', committed'.row, round'.seen} : Table(table)
      BY <1>0, <1>1, <1>4, SnapTables, SnapTablesPrimed
  <2> QED BY <1>0, <1>1, <1>2, <1>4, <2>1 DEF SnapTypes
<1>6. \A t \in chart \cup committed.chart : t.nth <= round'.nth /\ t.nth < round'.nth
  <2>1. \A t \in chart \cup committed.chart : t.nth \in Nat /\ t.nth <= round.nth
      BY <1>0 DEF SnapInv, SnapTypes, ChartType
  <2> QED BY <1>4, <2>1
<1>7. ASSUME NEW a \in Wallet \ chartSession.jumps
      PROVE  /\ lastBlocks[a] <= Snaps!Found(workerRow, a)
             /\ Snaps!Found(workerRow, a) <= Snaps!Found(workerRow, a)
  <2>1. Snaps!Found(workerRow, a) \in Nat
      BY <1>0, SnapTables, FoundNat
  <2>2. lastBlocks[a] <= Snaps!Found(workerRow, a)
      BY DEF SnapInv
  <2> QED BY <2>1, <2>2
<1>8. /\ SumsUp(chart, chartSession.jumps)'
      /\ SumsUp(committed.chart, chartSession.jumps \cup Waiting)'
    BY <1>1, SumsStay
<1>9. \A t \in chart' \cup committed'.chart :
        /\ t.nth <= round'.nth /\ t.session <= chartSession'.nth
        /\ t.wallet \in round'.left => t.nth < round'.nth
    BY <1>1, <1>6 DEF SnapInv
<1>10. \A a \in Wallet \ chartSession'.jumps :
        /\ lastBlocks'[a] <= Snaps!Found(workerRow', a)
        /\ a \in round'.left => /\ lastBlocks'[a] <= Snaps!Found(round'.seen, a)
                                /\ Snaps!Found(round'.seen, a) <= Snaps!Found(workerRow', a)
    BY <1>1, <1>4, <1>7
<1> QED BY <1>5, <1>8, <1>9, <1>10 DEF SnapInv

LEMMA SnapRestarts ==
  ASSUME SnapInv, Snaps!Restart
  PROVE  SnapInv'
<1>0. SnapTypes
    BY DEF SnapInv
<1>1. /\ workerRow' = committed.row /\ chart' = committed.chart /\ UNCHANGED committed
      /\ lastBlocks' = [a \in Wallet |-> 0]
      /\ round' = [nth |-> round.nth, open |-> FALSE, seen |-> <<>>, left |-> {}]
      /\ chartSession' = [nth |-> chartSession.nth + 1, jumps |-> {}]
    BY <1>0, OverIs DEF Snaps!Restart
<1>2. /\ round'.nth = round.nth /\ round'.left = {} /\ round'.seen = <<>>
      /\ round' = [nth |-> round'.nth, open |-> round'.open, seen |-> round'.seen,
                   left |-> round'.left]
      /\ chartSession'.nth = chartSession.nth + 1 /\ chartSession.nth \in Nat
      /\ chartSession'.jumps = {}
    BY <1>0, <1>1 DEF SnapTypes
<1>3. SnapTypes'
  <2>1. \A table \in {workerRow', committed'.row, round'.seen} : Table(table)
      BY <1>0, <1>1, <1>2, NoTable, SnapTables, SnapTablesPrimed
  <2> QED BY <1>0, <1>1, <1>2, <2>1 DEF SnapTypes
<1>4. \A t \in committed.chart : t.session < chartSession'.nth /\ t.session \in Nat
                                 /\ t.nth <= round.nth
    BY <1>0, <1>2 DEF SnapInv, SnapTypes, ChartType
<1>5. \A a \in Wallet : lastBlocks'[a] <= Snaps!Found(workerRow', a)
  <2>1. \A a \in Wallet : Snaps!Found(workerRow', a) \in Nat
      BY <1>0, <1>1, SnapTables, FoundNat
  <2> QED BY <1>1, <2>1
<1>6. \A t \in chart' \cup committed'.chart :
        /\ t.nth <= round'.nth /\ t.session <= chartSession'.nth
        /\ t.session # chartSession'.nth
    BY <1>1, <1>2, <1>4
<1>7. /\ SumsUp(chart, chartSession.jumps)'
      /\ SumsUp(committed.chart, chartSession.jumps \cup Waiting)'
    BY <1>6 DEF SumsUp
<1> QED BY <1>2, <1>3, <1>5, <1>6, <1>7 DEF SnapInv

LEMMA SnapFails ==
  ASSUME SnapInv, NEW a \in Wallet, Snaps!InsertFails(a)
  PROVE  SnapInv'
<1>0. SnapTypes
    BY DEF SnapInv
<1>1. /\ UNCHANGED <<workerRow, chart, committed>> /\ chart = committed.chart
      /\ lastBlocks' = [lastBlocks EXCEPT ![a] = Snaps!Found(round.seen, a)]
      /\ round' = [nth |-> round.nth, open |-> FALSE, seen |-> <<>>, left |-> {}]
      /\ chartSession' = [chartSession EXCEPT !.jumps = @ \cup {a}]
    BY <1>0, OverIs DEF Snaps!InsertFails, Snaps!Remember, Snaps!ChartCommitted
<1>2. /\ round'.nth = round.nth /\ round'.left = {} /\ round'.seen = <<>>
      /\ round' = [nth |-> round'.nth, open |-> round'.open, seen |-> round'.seen,
                   left |-> round'.left]
      /\ chartSession'.nth = chartSession.nth
      /\ chartSession'.jumps = chartSession.jumps \cup {a}
      /\ chartSession' \in [nth : Nat, jumps : SUBSET (Wallet \cup {NoWallet})]
    BY <1>0, <1>1 DEF SnapTypes
<1>3. Snaps!Found(round.seen, a) \in Nat
    BY <1>0, SnapTables, FoundNat
<1>4. lastBlocks' \in [Wallet -> Nat] /\ \A b \in Wallet : b # a => lastBlocks'[b] = lastBlocks[b]
    BY <1>0, <1>1, <1>3 DEF SnapTypes
<1>5. SnapTypes'
  <2>1. \A table \in {workerRow', committed'.row, round'.seen} : Table(table)
      BY <1>0, <1>1, <1>2, NoTable, SnapTables, SnapTablesPrimed
  <2> QED BY <1>0, <1>1, <1>2, <1>4, <2>1 DEF SnapTypes
<1>6. \A r \in chart : r.wallet \in Wallet
    BY <1>0 DEF SnapTypes, ChartType
<1>7. SumsUp(chart, chartSession.jumps)'
    BY <1>1, <1>2, <1>4, <1>6 DEF SnapInv, SumsUp, Newer
<1>8. SumsUp(committed.chart, chartSession.jumps \cup Waiting)'
    BY <1>1, <1>7 DEF SumsUp
<1> QED BY <1>1, <1>2, <1>4, <1>5, <1>7, <1>8 DEF SnapInv

(* What is committed now is all the connection shows, and the other way.   *)
LEMMA SnapCommits ==
  ASSUME SnapInv, Snaps!Commit
  PROVE  SnapInv'
<1>0. SnapTypes
    BY DEF SnapInv
<1>1. /\ UNCHANGED <<workerRow, chart, lastBlocks, round, chartSession>>
      /\ committed' = [row |-> workerRow, chart |-> chart]
    BY DEF Snaps!Commit
<1>2. /\ committed'.row = workerRow /\ committed'.chart = chart
      /\ committed' = [row |-> committed'.row, chart |-> committed'.chart]
    BY <1>1
<1>3. SnapTypes'
  <2>1. \A table \in {workerRow', committed'.row, round'.seen} : Table(table)
      BY <1>0, <1>1, <1>2, SnapTables, SnapTablesPrimed
  <2> QED BY <1>0, <1>1, <1>2, <2>1 DEF SnapTypes
<1>4. SumsUp(chart, chartSession.jumps)'
    BY <1>1 DEF SnapInv, SumsUp, Newer
<1>5. SumsUp(committed.chart, chartSession.jumps \cup Waiting)'
    BY <1>1, <1>2, <1>4 DEF SumsUp
<1> QED BY <1>1, <1>2, <1>3, <1>4, <1>5 DEF SnapInv

LEMMA SnapRollsBack ==
  ASSUME SnapInv, Snaps!Rollback
  PROVE  SnapInv'
<1> DEFINE fallen == {a \in Wallet : Snaps!Found(committed.row, a) < Snaps!Counted(a)}
<1>0. SnapTypes
    BY DEF SnapInv
<1>1. /\ workerRow' = committed.row /\ chart' = committed.chart
      /\ UNCHANGED <<committed, lastBlocks, round>>
      /\ chartSession' = [chartSession EXCEPT !.jumps = (@ \cup Waiting) \cup fallen]
    BY DEF Snaps!Rollback, Waiting
<1>2. Waiting \subseteq Wallet /\ fallen \subseteq Wallet
    BY <1>0 DEF SnapTypes, ChartType, Waiting
<1>3. \A a \in Wallet \ fallen : ~(Snaps!Found(committed.row, a) < Snaps!Counted(a))
    OBVIOUS
<1> HIDE DEF fallen
<1>4. /\ chartSession'.nth = chartSession.nth
      /\ chartSession'.jumps = (chartSession.jumps \cup Waiting) \cup fallen
      /\ chartSession' \in [nth : Nat, jumps : SUBSET (Wallet \cup {NoWallet})]
    BY <1>0, <1>1, <1>2 DEF SnapTypes
<1>5. SnapTypes'
  <2>1. \A table \in {workerRow', committed'.row, round'.seen} : Table(table)
      BY <1>0, <1>1, SnapTables, SnapTablesPrimed
  <2> QED BY <1>0, <1>1, <1>4, <2>1 DEF SnapTypes
<1>6. ASSUME NEW a \in Wallet \ chartSession'.jumps
      PROVE  /\ lastBlocks[a] <= Snaps!Found(workerRow', a)
             /\ a \in round.left => /\ lastBlocks[a] <= Snaps!Found(round.seen, a)
                                    /\ Snaps!Found(round.seen, a) <= Snaps!Found(workerRow', a)
  <2>1. /\ Snaps!Found(committed.row, a) \in Nat /\ Snaps!Found(round.seen, a) \in Nat
        /\ lastBlocks[a] \in Nat
      BY <1>0, SnapTables, FoundNat DEF SnapTypes
  <2>2. a \in round.left => lastBlocks[a] <= Snaps!Found(round.seen, a)
      BY <1>4 DEF SnapInv
  <2>3. ~(Snaps!Found(committed.row, a) < Snaps!Counted(a))
      BY <1>3, <1>4
  <2>4. Snaps!Counted(a) = IF a \in round.left THEN Snaps!Found(round.seen, a) ELSE lastBlocks[a]
      BY DEF Snaps!Counted
  <2> QED BY <1>1, <2>1, <2>2, <2>3, <2>4
<1>7. SumsUp(chart, chartSession.jumps)'
    BY <1>1, <1>4 DEF SnapInv, SumsUp, Newer
<1>8. SumsUp(committed.chart, chartSession.jumps \cup Waiting)'
    BY <1>1, <1>7 DEF SumsUp
<1>9. \A t \in chart' \cup committed'.chart :
        /\ t.nth <= round'.nth /\ t.session <= chartSession'.nth
        /\ t.wallet \in round'.left => t.nth < round'.nth
    BY <1>1, <1>4 DEF SnapInv
<1> QED BY <1>1, <1>5, <1>6, <1>7, <1>8, <1>9 DEF SnapInv

(* Old rows go: of those that stay, the later ones do too.                 *)
LEMMA SnapCleans ==
  ASSUME SnapInv, Snaps!Clean
  PROVE  SnapInv'
<1> DEFINE c == round.nth - Keep
<1>0. SnapTypes /\ c \in Int
    BY SnapshotAssumption DEF SnapInv, SnapTypes
<1>1. /\ UNCHANGED <<workerRow, committed, lastBlocks, chartSession>> /\ chart = committed.chart
      /\ chart' = {t \in chart : t.nth >= c}
      /\ round' = [nth |-> round.nth, open |-> FALSE, seen |-> <<>>, left |-> {}]
    BY <1>0, OverIs DEF Snaps!Clean, Snaps!ChartCommitted
<1> HIDE DEF c
<1>2. /\ round'.nth = round.nth /\ round'.left = {} /\ round'.seen = <<>>
      /\ round' = [nth |-> round'.nth, open |-> round'.open, seen |-> round'.seen,
                   left |-> round'.left]
    BY <1>1
<1>3. SnapTypes'
  <2>1. \A table \in {workerRow', committed'.row, round'.seen} : Table(table)
      BY <1>0, <1>1, <1>2, NoTable, SnapTables, SnapTablesPrimed
  <2>2. chart' \in SUBSET chart
      BY <1>1
  <2>3. IsFiniteSet(chart')
      BY <1>0, <2>2, FS_Subset DEF SnapTypes
  <2> QED BY <1>0, <1>1, <1>2, <2>1, <2>2, <2>3 DEF SnapTypes
<1>4. ASSUME NEW r \in chart' PROVE r \in chart /\ Newer(chart', r) = Newer(chart, r)
  <2>1. \A t \in chart : t.nth \in Nat
      BY <1>0 DEF SnapTypes, ChartType
  <2> QED BY <1>0, <1>1, <2>1 DEF Newer
<1>5. SumsUp(chart, chartSession.jumps)'
    BY <1>1, <1>4 DEF SnapInv, SumsUp
<1>6. Waiting' = {}
    BY <1>1 DEF Waiting
<1>7. SumsUp(committed.chart, chartSession.jumps \cup Waiting)'
    BY <1>1, <1>6 DEF SnapInv, SumsUp, Newer
<1> QED BY <1>1, <1>2, <1>3, <1>5, <1>7 DEF SnapInv

(* One row more, of a set of rows of the chart.                            *)
LEMMA SummedMore ==
  ASSUME NEW S, IsFiniteSet(S), S \subseteq ChartType, NEW n \in ChartType, n \notin S
  PROVE  /\ Summed(S \cup {n}) = n.blocks + Summed(S)
         /\ Summed(S) \in Int
<1> DEFINE R == S \cup {n}
           f == BlocksOf(S)
           k == BlocksOf(R)
<1>1. IsFiniteSet(R)
    BY FS_AddElement
<1>2. \A t \in R : t.blocks \in Int
    BY DEF ChartType
<1>3. Summed(R) = Total(k, R)
    BY <1>1, <1>2, SummedTotal
<1>4. Summed(S) = Total(f, S)
    BY <1>2, SummedTotal
<1>5. (\A t \in R : k[t] = t.blocks) /\ (\A t \in S : f[t] = t.blocks)
    BY DEF BlocksOf
<1>6. (\A t \in S : f[t] \in Int /\ f[t] = k[t]) /\ (\A t \in S \cup {n} : k[t] \in Int)
    BY <1>2, <1>5
<1>7. k[n] = n.blocks
    BY <1>5
<1> HIDE DEF f, k
<1>8. Total(k, S \cup {n}) = k[n] + Total(k, S)
    BY <1>6, TotalMore
<1>9. Total(f, S) = Total(k, S)
    BY <1>6, TotalAlike
<1>10. Total(f, S) \in Int
    BY <1>6, TotalInt
<1> QED BY <1>3, <1>4, <1>7, <1>8, <1>9, <1>10

LEMMA SummedSplit ==
  ASSUME NEW S, IsFiniteSet(S), S \subseteq ChartType,
         NEW R, IsFiniteSet(R), R \subseteq ChartType, S \cap R = {}
  PROVE  Summed(S \cup R) = Summed(S) + Summed(R) /\ Summed(S) \in Int /\ Summed(R) \in Int
<1> DEFINE f == BlocksOf(S)
           k == BlocksOf(R)
           g == BlocksOf(S \cup R)
<1>1. IsFiniteSet(S \cup R)
    BY FS_Union
<1>2. \A t \in S \cup R : t.blocks \in Int
    BY DEF ChartType
<1>3. Summed(S \cup R) = Total(g, S \cup R)
    BY <1>1, <1>2, SummedTotal
<1>4. Summed(S) = Total(f, S)
    BY <1>2, SummedTotal
<1>5. Summed(R) = Total(k, R)
    BY <1>2, SummedTotal
<1>6. /\ \A t \in S : f[t] = t.blocks
      /\ \A t \in R : k[t] = t.blocks
      /\ \A t \in S \cup R : g[t] = t.blocks
    BY DEF BlocksOf
<1>7. /\ \A t \in S : f[t] \in Int /\ f[t] = g[t]
      /\ \A t \in R : k[t] \in Int /\ k[t] = g[t]
      /\ \A t \in S \cup R : g[t] \in Int
    BY <1>2, <1>6
<1> HIDE DEF f, k, g
<1>8. Total(g, S \cup R) = Total(g, S) + Total(g, R)
    BY <1>7, TotalUnion
<1>9. Total(f, S) = Total(g, S) /\ Total(f, S) \in Int
    BY <1>7, TotalAlike, TotalInt
<1>10. Total(k, R) = Total(g, R) /\ Total(k, R) \in Int
    BY <1>7, TotalAlike, TotalInt
<1> QED BY <1>3, <1>4, <1>5, <1>8, <1>9, <1>10

LEMMA NoneSummed == Summed({}) = 0
<1>1. IsFiniteSet({})
    BY FS_EmptySet
<1>2. Summed({}) = Total(BlocksOf({}), {})
    BY <1>1, SummedTotal
<1> QED BY <1>2, TotalEmpty

LEMMA SnapRecord ==
  ASSUME SnapInv, NEW a \in Wallet
  PROVE  LET n == Snaps!Record(a)
             found == Snaps!Found(round.seen, a)
         IN  /\ n \in ChartType /\ found \in Nat
             /\ n.wallet = a /\ n.nth = round.nth /\ n.session = chartSession.nth
             /\ n.found = found
             /\ lastBlocks[a] <= found => n.blocks = found - lastBlocks[a]
<1> DEFINE found == Snaps!Found(round.seen, a)
           blocks == IF found < lastBlocks[a] THEN 0 ELSE found - lastBlocks[a]
           On == {w \in DOMAIN round.seen : round.seen[w].wallet = a /\ round.seen[w].online}
           n == [wallet |-> a, nth |-> round.nth, session |-> chartSession.nth, found |-> found,
                 blocks |-> blocks, online |-> Cardinality(On)]
<1>0. SnapTypes
    BY DEF SnapInv
<1>1. found \in Nat
    BY <1>0, FoundNat DEF SnapTypes
<1>2. IsFiniteSet(On)
  <2>1. On \in SUBSET DOMAIN round.seen
      OBVIOUS
  <2> HIDE DEF On
  <2> QED BY <1>0, <2>1, FS_Subset DEF SnapTypes, Table
<1>3. Cardinality(On) \in Nat
    BY <1>2, FS_CardinalityType
<1>4. Snaps!Record(a) = n
    BY DEF Snaps!Record, Snaps!Cardinality, Cardinality
<1> HIDE DEF On, found
<1>5. lastBlocks[a] \in Nat /\ round.nth \in Nat /\ chartSession.nth \in Nat
    BY <1>0 DEF SnapTypes
<1>6. blocks \in Nat /\ (lastBlocks[a] <= found => blocks = found - lastBlocks[a])
    BY <1>1, <1>5
<1> HIDE DEF blocks
<1>7. n \in ChartType
    BY <1>1, <1>3, <1>5, <1>6 DEF ChartType
<1> QED BY <1>1, <1>4, <1>6, <1>7 DEF found

LEMMA SnapInserts ==
  ASSUME SnapInv, NEW a \in Wallet, Snaps!Insert(a)
  PROVE  SnapInv'
<1> DEFINE n == Snaps!Record(a)
           found == Snaps!Found(round.seen, a)
<1>0. SnapTypes
    BY DEF SnapInv
<1>1. /\ n \in ChartType /\ found \in Nat
      /\ n.wallet = a /\ n.nth = round.nth /\ n.session = chartSession.nth
      /\ n.found = found
      /\ lastBlocks[a] <= found => n.blocks = found - lastBlocks[a]
    BY SnapRecord
<1>2. /\ a \in round.left /\ UNCHANGED <<workerRow, committed, chartSession>>
      /\ chart = committed.chart
      /\ lastBlocks' = [lastBlocks EXCEPT ![a] = found]
      /\ chart' = chart \cup {n}
      /\ round' = [round EXCEPT !.left = @ \ {a}]
    BY DEF Snaps!Insert, Snaps!Remember, Snaps!ChartCommitted
<1> HIDE DEF n, found
<1>3. /\ round' = [nth |-> round'.nth, open |-> round'.open, seen |-> round'.seen,
                   left |-> round'.left]
      /\ round'.nth = round.nth /\ round'.left = round.left \ {a}
      /\ round'.seen = round.seen
  <2> DEFINE rest == round.left \ {a}
  <2>1. round' = [nth |-> round.nth, open |-> round.open, seen |-> round.seen, left |-> rest]
      BY <1>0, <1>2 DEF SnapTypes
  <2> QED BY <2>1
<1>5. /\ lastBlocks' \in [Wallet -> Nat] /\ lastBlocks'[a] = found
      /\ \A b \in Wallet : b # a => lastBlocks'[b] = lastBlocks[b]
    BY <1>0, <1>1, <1>2 DEF SnapTypes
<1>6. chart' \in SUBSET ChartType /\ IsFiniteSet(chart')
    BY <1>0, <1>1, <1>2, FS_AddElement DEF SnapTypes
<1>7. SnapTypes'
  <2>1. round'.nth \in Nat /\ round'.left \in SUBSET Wallet
      BY <1>0, <1>3 DEF SnapTypes
  <2>2. \A table \in {workerRow', committed'.row, round'.seen} : Table(table)
      BY <1>0, <1>2, <1>3, SnapTables, SnapTablesPrimed
  <2> QED BY <1>0, <1>2, <1>3, <1>5, <1>6, <2>1, <2>2 DEF SnapTypes
<1>8. \A t \in chart : /\ t.nth <= round.nth /\ t.session <= chartSession.nth
                       /\ t.wallet \in round.left => t.nth < round.nth
                       /\ t.nth \in Nat /\ t.session \in Nat /\ t.wallet \in Wallet
                       /\ t.found \in Nat
    BY <1>0 DEF SnapInv, SnapTypes, ChartType
<1>9. \A t \in chart' \cup committed'.chart :
        /\ t.nth <= round'.nth /\ t.session <= chartSession'.nth
        /\ t.wallet \in round'.left => t.nth < round'.nth
  <2>1. chartSession.nth \in Nat /\ round.nth \in Nat
      BY <1>0 DEF SnapTypes
  <2>2. \A t \in chart \cup {n} : /\ t.nth <= round.nth /\ t.session <= chartSession.nth
                                  /\ t.wallet \in round.left \ {a} => t.nth < round.nth
      BY <1>1, <1>8, <2>1
  <2> QED BY <1>2, <1>3, <2>2
<1>10. ASSUME NEW b \in Wallet \ chartSession.jumps
       PROVE  /\ lastBlocks'[b] <= Snaps!Found(workerRow, b)
              /\ b \in round'.left => /\ lastBlocks'[b] <= Snaps!Found(round'.seen, b)
                                      /\ Snaps!Found(round'.seen, b) <= Snaps!Found(workerRow, b)
  <2>1. /\ lastBlocks[b] <= Snaps!Found(workerRow, b)
        /\ b \in round.left => /\ lastBlocks[b] <= Snaps!Found(round.seen, b)
                               /\ Snaps!Found(round.seen, b) <= Snaps!Found(workerRow, b)
      BY DEF SnapInv
  <2>2. CASE b = a
      BY <1>2, <1>3, <1>5, <2>1, <2>2 DEF found
  <2>3. CASE b # a
      BY <1>3, <1>5, <2>1, <2>3
  <2> QED BY <2>2, <2>3
<1>11. n \notin chart
  <2>1. round.nth \in Nat
      BY <1>0 DEF SnapTypes
  <2> QED BY <1>1, <1>2, <1>8, <2>1
<1>12. ASSUME NEW r \in chart, r.session = chartSession.nth, r.wallet \notin chartSession.jumps
       PROVE  Summed(Newer(chart', r)) = lastBlocks'[r.wallet] - r.found
  <2>1. r.nth \in Nat /\ r.found \in Nat /\ r.wallet \in Wallet
      BY <1>8
  <2>2. Summed(Newer(chart, r)) = lastBlocks[r.wallet] - r.found
      BY <1>12 DEF SnapInv, SumsUp
  <2>3. Newer(chart, r) \subseteq chart /\ IsFiniteSet(Newer(chart, r))
        /\ Newer(chart, r) \subseteq ChartType
    <3>1. Newer(chart, r) \in SUBSET chart
        BY DEF Newer
    <3> QED BY <1>0, <3>1, FS_Subset DEF SnapTypes
  <2>4. CASE r.wallet # a
    <3>1. Newer(chart', r) = Newer(chart, r)
        BY <1>1, <1>2, <2>4 DEF Newer
    <3> QED BY <1>5, <2>1, <2>2, <2>4, <3>1
  <2>5. CASE r.wallet = a
    <3>1. r.nth < round.nth /\ round.nth \in Nat
        BY <1>0, <1>2, <1>8, <2>5 DEF SnapTypes
    <3>2. Newer(chart', r) = Newer(chart, r) \cup {n}
        BY <1>1, <1>2, <2>1, <2>5, <3>1 DEF Newer
    <3>3. n \notin Newer(chart, r)
        BY <1>11, <2>3
    <3>4. /\ Summed(Newer(chart', r)) = n.blocks + Summed(Newer(chart, r))
          /\ Summed(Newer(chart, r)) \in Int
        BY <1>1, <2>3, <3>2, <3>3, SummedMore
    <3>5. lastBlocks[a] <= found /\ lastBlocks[a] \in Nat
      <4>1. lastBlocks[a] <= found
          BY <1>2, <1>12, <2>5 DEF SnapInv, found
      <4> QED BY <1>0, <4>1 DEF SnapTypes
    <3>6. n.blocks = found - lastBlocks[a]
        BY <1>1, <3>5
    <3>7. Summed(Newer(chart', r)) = found - r.found
        BY <1>1, <2>1, <2>2, <2>5, <3>4, <3>5, <3>6
    <3> QED BY <1>5, <2>5, <3>7
  <2> QED BY <2>4, <2>5
<1>13. Summed(Newer(chart', n)) = lastBlocks'[n.wallet] - n.found
  <2>1. Newer(chart', n) = {}
    <3>1. round.nth \in Nat
        BY <1>0 DEF SnapTypes
    <3> QED BY <1>1, <1>2, <1>8, <3>1 DEF Newer
  <2> QED BY <1>1, <1>5, <2>1, NoneSummed
<1>14. SumsUp(chart, chartSession.jumps)'
    BY <1>2, <1>12, <1>13 DEF SumsUp
<1>15. Waiting' = {a}
    BY <1>1, <1>2, <1>11 DEF Waiting
<1>16. SumsUp(committed.chart, chartSession.jumps \cup Waiting)'
    BY <1>2, <1>5, <1>8, <1>15 DEF SnapInv, SumsUp
<1> QED BY <1>2, <1>7, <1>9, <1>10, <1>14, <1>16 DEF SnapInv

LEMMA SnapInit == Snaps!Init => SnapInv
<1> SUFFICES ASSUME Snaps!Init PROVE SnapInv
    OBVIOUS
<1>1. /\ workerRow = <<>> /\ lastBlocks = [a \in Wallet |-> 0]
      /\ round = [nth |-> 0, open |-> FALSE, seen |-> <<>>, left |-> {}]
      /\ chart = {} /\ chartSession = [nth |-> 0, jumps |-> {}]
      /\ committed = [row |-> <<>>, chart |-> {}]
    BY DEF Snaps!Init
<1>2. /\ round.nth = 0 /\ round.left = {} /\ round.seen = <<>>
      /\ committed.row = <<>> /\ committed.chart = {}
      /\ round = [nth |-> round.nth, open |-> round.open, seen |-> round.seen, left |-> round.left]
      /\ committed = [row |-> committed.row, chart |-> committed.chart]
    BY <1>1
<1>3. SnapTypes
  <2>1. \A table \in {workerRow, committed.row, round.seen} : Table(table)
      BY <1>1, <1>2, NoTable
  <2> QED BY <1>1, <1>2, <2>1, FS_EmptySet DEF SnapTypes
<1>4. \A a \in Wallet : lastBlocks[a] <= Snaps!Found(workerRow, a)
  <2>1. \A a \in Wallet : Snaps!Found(workerRow, a) \in Nat
      BY <1>3, SnapTables, FoundNat
  <2> QED BY <1>1, <2>1
<1>5. SumsUp(chart, chartSession.jumps) /\ SumsUp(committed.chart, chartSession.jumps \cup Waiting)
    BY <1>1, <1>2 DEF SumsUp
<1> QED BY <1>1, <1>2, <1>3, <1>4, <1>5 DEF SnapInv

LEMMA SnapStep == SnapInv /\ [Snaps!Next]_Snaps!vars => SnapInv'
<1> SUFFICES ASSUME SnapInv, [Snaps!Next]_Snaps!vars PROVE SnapInv'
    OBVIOUS
<1>1. CASE Snaps!Begin
    BY <1>1, SnapBegins
<1>2. CASE Snaps!Restart
    BY <1>2, SnapRestarts
<1>3. ASSUME NEW w \in Worker, NEW a \in Wallet \cup {NoWallet},
             Snaps!Register(w, a) \/ Snaps!Hear(w) \/ Snaps!FindBlock(w)
      PROVE  SnapInv'
    BY <1>3, SnapRows
<1>4. ASSUME NEW w \in Worker, Snaps!Hear(w) \/ Snaps!FindBlock(w)
      PROVE  SnapInv'
  <2>1. NoWallet \in Wallet \cup {NoWallet}
      OBVIOUS
  <2> QED BY <1>3, <1>4, <2>1
<1>5. ASSUME NEW a \in Wallet, Snaps!Insert(a) \/ Snaps!InsertFails(a)
      PROVE  SnapInv'
    BY <1>5, SnapInserts, SnapFails
<1>6. CASE UNCHANGED Snaps!vars
  <2>1. UNCHANGED <<workerRow, chart, committed, lastBlocks, round, chartSession>>
      BY <1>6 DEF Snaps!vars
  <2> QED BY <2>1 DEF SnapInv, SnapTypes, SumsUp, Newer, Waiting
<1>7. CASE Snaps!Clean \/ Snaps!Commit \/ Snaps!Rollback
    BY <1>7, SnapCleans, SnapCommits, SnapRollsBack
<1>8. ASSUME NEW w \in Worker, Snaps!FallSilent(w)
      PROVE  SnapInv'
    BY <1>8, SnapSilence
<1> QED BY <1>1, <1>2, <1>3, <1>4, <1>5, <1>6, <1>7, <1>8 DEF Snaps!Next

LEMMA ChartsAgree == SnapInv => Snaps!ChartAddsUp
<1> SUFFICES ASSUME SnapInv,
                    NEW r \in chart, r.session = chartSession.nth, r.wallet \notin chartSession.jumps,
                    NEW s \in chart, s.session = chartSession.nth, s.wallet \notin chartSession.jumps,
                    r.wallet = s.wallet, r.nth < s.nth
             PROVE  Summed({t \in chart : t.wallet = r.wallet /\ t.nth \in (r.nth + 1)..s.nth})
                      = s.found - r.found
    BY DEF Snaps!ChartAddsUp, Summed
<1> DEFINE Between == {t \in chart : t.wallet = r.wallet /\ t.nth \in (r.nth + 1)..s.nth}
<1>1. /\ r.nth \in Nat /\ s.nth \in Nat /\ r.found \in Nat /\ s.found \in Nat
      /\ \A t \in chart : t.nth \in Nat
      /\ lastBlocks[r.wallet] \in Nat
    BY DEF SnapInv, SnapTypes, ChartType
<1>2. /\ Summed(Newer(chart, r)) = lastBlocks[r.wallet] - r.found
      /\ Summed(Newer(chart, s)) = lastBlocks[r.wallet] - s.found
    BY DEF SnapInv, SumsUp
<1>3. Between \cup Newer(chart, s) = Newer(chart, r) /\ Between \cap Newer(chart, s) = {}
    BY <1>1 DEF Newer
<1>4. Between \in SUBSET chart /\ Newer(chart, s) \in SUBSET chart
    BY DEF Newer
<1> HIDE DEF Between
<1>5. /\ IsFiniteSet(Between) /\ IsFiniteSet(Newer(chart, s))
      /\ Between \subseteq ChartType /\ Newer(chart, s) \subseteq ChartType
    BY <1>4, FS_Subset DEF SnapInv, SnapTypes
<1>6. /\ Summed(Between \cup Newer(chart, s)) = Summed(Between) + Summed(Newer(chart, s))
      /\ Summed(Between) \in Int /\ Summed(Newer(chart, s)) \in Int
    BY <1>3, <1>5, SummedSplit
<1>7. Summed(Between) = s.found - r.found
  <2>1. Summed(Newer(chart, r)) = Summed(Between) + Summed(Newer(chart, s))
      BY <1>3, <1>6
  <2> QED BY <1>1, <1>2, <1>6, <2>1
<1> QED BY <1>7 DEF Between

(* wallet_snapshot.py:97: as long as the server runs, the records of a     *)
(* wallet add up to the blocks found between any two, whatever settlements *)
(* on the same connection commit or roll back; except for a wallet that a  *)
(* worker left, a record of which failed, or of which a rollback took back *)
(* a record or blocks that were counted.                                   *)
THEOREM ChartsAddUp == ServicesSpec => []ChartAddsUp
<1> DEFINE Inv == service = "snapshots" => SnapInv
<1>1. ServicesInit => Inv
    BY SnapInit DEF ServicesInit
<1>2. Inv /\ [ServicesNext]_all => Inv'
    BY SnapsFrame, SnapStep, ServiceStays
<1>3. Inv => ChartAddsUp
    BY ChartsAgree DEF ChartAddsUp
<1> QED BY <1>1, <1>2, <1>3, PTL DEF ServicesSpec

-----------------------------------------------------------------------------
(* ServerUptime *)

LEMMA UptimeFrame ==
  [ServicesNext]_all /\ service = "uptime" =>
      service' = "uptime" /\ [Uptime!Next]_Uptime!vars
<1> QED
    BY DEF all, ServicesNext, LockRuns, HeatRuns, CpuRuns, PowerRuns, UptimeRuns, IniRuns,
       ReportRuns, BalancesRuns, UpgradeRuns, VramRuns, SnapsRuns, uptime, Uptime!vars

LEMMA HoursFinite == Uptime!Hour \subseteq Nat /\ IsFiniteSet(Uptime!Hour)
<1>1. LastProbe \div HourLen \in Int
    BY UptimeAssumption, Division
<1> QED BY <1>1, FS_Interval DEF Uptime!Hour

(* What of a..b lies in s..e.                                              *)
Within(a, b, s, e) ==
  LET c == IF a > s THEN a ELSE s
      d == IF b < e THEN b ELSE e
  IN  IF d > c THEN d - c ELSE 0

LEMMA WithinAdds ==
  ASSUME NEW a \in Int, NEW b \in Int, NEW c \in Int, NEW s \in Int, NEW e \in Int, s <= e
  PROVE  /\ Within(a, b, s, e) \in Nat
         /\ a >= b => Within(a, b, s, e) = 0
         /\ b <= s => Within(a, b, s, e) = 0
         /\ a <= b /\ b <= c => Within(a, c, s, e) = Within(a, b, s, e) + Within(b, c, s, e)
<1> QED BY DEF Within

(* The parts of two intervals that meet add up.                            *)
LEMMA PartsAdd ==
  ASSUME NEW a \in Int, NEW b \in Int, NEW c \in Int, NEW h \in Nat
  PROVE  /\ Uptime!Part(a, b, h) \in Nat
         /\ a >= b => Uptime!Part(a, b, h) = 0
         /\ b <= h * HourLen => Uptime!Part(a, b, h) = 0
         /\ a <= b /\ b <= c =>
              Uptime!Part(a, c, h) = Uptime!Part(a, b, h) + Uptime!Part(b, c, h)
<1> DEFINE s == h * HourLen
           e == (h + 1) * HourLen
<1>1. s \in Int /\ e \in Int /\ s <= e
  <2>1. HourLen \in Nat
      BY UptimeAssumption
  <2>2. HourLen * h <= HourLen * (h + 1) /\ HourLen * h \in Int /\ HourLen * (h + 1) \in Int
      BY <2>1, Products
  <2>3. HourLen * h = h * HourLen /\ HourLen * (h + 1) = (h + 1) * HourLen
      BY <2>1
  <2> QED BY <2>2, <2>3
<1>2. \A x, y \in Int : Uptime!Part(x, y, h) = Within(x, y, s, e)
    BY DEF Uptime!Part, Within
<1> HIDE DEF s, e
<1>3. /\ Within(a, b, s, e) \in Nat
      /\ a >= b => Within(a, b, s, e) = 0
      /\ b <= s => Within(a, b, s, e) = 0
      /\ a <= b /\ b <= c => Within(a, c, s, e) = Within(a, b, s, e) + Within(b, c, s, e)
    BY <1>1, WithinAdds
<1>4. /\ Uptime!Part(a, b, h) = Within(a, b, s, e)
      /\ Uptime!Part(a, c, h) = Within(a, c, s, e)
      /\ Uptime!Part(b, c, h) = Within(b, c, s, e)
    BY <1>2
<1> QED BY <1>3, <1>4 DEF s

(* An hour that is still kept ends no sooner than outages are forgotten.   *)
LEMMA KeptHours ==
  ASSUME NEW t \in Nat, NEW h \in Nat, h >= Uptime!HourOf(t) - KeepHours
  PROVE  t - KeepOutages <= h * HourLen
<1> DEFINE p == Uptime!HourOf(t)
<1>1. HourLen \in Nat /\ KeepHours \in Nat /\ KeepOutages \in Nat
      /\ KeepOutages >= (KeepHours + 1) * HourLen
    BY UptimeAssumption
<1>2. p \in Int /\ t < HourLen * p + HourLen
    BY UptimeAssumption, Division DEF Uptime!HourOf
<1> HIDE DEF p
<1>3. HourLen * (p - KeepHours) <= HourLen * h /\ HourLen * (p - KeepHours) \in Int
      /\ HourLen * h \in Int
    BY <1>1, <1>2, Products DEF p
<1>4. HourLen * (p - KeepHours) = HourLen * p - HourLen * KeepHours
    BY <1>1, <1>2
<1>5. (KeepHours + 1) * HourLen = HourLen * KeepHours + HourLen
    BY <1>1
<1>6. h * HourLen = HourLen * h /\ HourLen * p \in Int /\ HourLen * KeepHours \in Int
    BY <1>1, <1>2
<1> QED BY <1>1, <1>2, <1>3, <1>4, <1>5, <1>6

LEMMA HoursPass ==
  ASSUME NEW m \in Nat, NEW n \in Nat, m <= n
  PROVE  /\ Uptime!HourOf(m) \in Int /\ Uptime!HourOf(n) \in Int
         /\ Uptime!HourOf(m) <= Uptime!HourOf(n)
<1> QED BY UptimeAssumption, QuotientGrows, Division DEF Uptime!HourOf

(* The outages of a set, what of them lies in an hour.                     *)
Outage == Nat \X Nat
CutOf(h) == [o \in Outage |-> Uptime!Part(o[1], o[2], h)]
Listed(S, h) == Uptime!MapThenSumSet(LAMBDA o : Uptime!Part(o[1], o[2], h), S)
CutAdd(k, S, h) ==
  k = [T \in SUBSET S |->
         IF T = {} THEN 0
         ELSE Uptime!Part(Chosen(T)[1], Chosen(T)[2], h) + k[T \ {Chosen(T)}]]

LEMMA CutInt ==
  ASSUME NEW h \in Nat
  PROVE  \A o \in Outage : CutOf(h)[o] = Uptime!Part(o[1], o[2], h) /\ CutOf(h)[o] \in Int
<1> SUFFICES ASSUME NEW o \in Outage
             PROVE  CutOf(h)[o] = Uptime!Part(o[1], o[2], h) /\ CutOf(h)[o] \in Int
    OBVIOUS
<1>1. o[1] \in Int /\ o[2] \in Int
    BY DEF Outage
<1>2. Uptime!Part(o[1], o[2], h) \in Nat
    BY <1>1, PartsAdd
<1>3. CutOf(h)[o] = Uptime!Part(o[1], o[2], h)
    BY DEF CutOf
<1> QED BY <1>2, <1>3

LEMMA ListedTotal ==
  ASSUME NEW S \in SUBSET Outage, IsFiniteSet(S), NEW h \in Nat
  PROVE  Listed(S, h) = Total(CutOf(h), S) /\ Listed(S, h) \in Int
<1> DEFINE f == CutOf(h)
           g == CHOOSE g : CutAdd(g, S, h)
<1>1. \A x \in Outage : f[x] = Uptime!Part(x[1], x[2], h) /\ f[x] \in Int
    BY CutInt
<1>2. Listed(S, h) = g[S]
    BY DEF Listed, Uptime!MapThenSumSet, Uptime!MapThenFoldSet, CutAdd, Chosen
<1> HIDE DEF f
<1>3. \A T \in SUBSET S : T # {} => Chosen(T) \in Outage
    BY DEF Chosen
<1>4. ASSUME NEW k PROVE Adds(k, f, S) <=> CutAdd(k, S, h)
  <2>1. \A T \in SUBSET S :
            Added(k, f, T) =
               IF T = {} THEN 0
               ELSE Uptime!Part(Chosen(T)[1], Chosen(T)[2], h) + k[T \ {Chosen(T)}]
      BY <1>1, <1>3 DEF Added
  <2> QED BY <2>1 DEF Adds, CutAdd
<1>5. CutAdd(g, S, h)
    BY <1>4, AddsExists
<1>6. \A x \in S : f[x] \in Int
    BY <1>1
<1> HIDE DEF g
<1>7. Listed(S, h) = Total(f, S)
    BY <1>2, <1>4, <1>5, <1>6, AddsTotal
<1>8. Total(f, S) \in Int
    BY <1>6, TotalInt
<1> QED BY <1>7, <1>8 DEF f

LEMMA ListedMore ==
  ASSUME NEW S \in SUBSET Outage, IsFiniteSet(S), NEW h \in Nat, NEW x \in Outage, x \notin S
  PROVE  Listed(S \cup {x}, h) = Uptime!Part(x[1], x[2], h) + Listed(S, h)
<1> DEFINE f == CutOf(h)
           R == S \cup {x}
<1>1. R \in SUBSET Outage /\ IsFiniteSet(R)
    BY FS_AddElement
<1>2. \A y \in R : f[y] \in Int
    BY CutInt
<1>3. f[x] = Uptime!Part(x[1], x[2], h)
    BY CutInt
<1>4. Listed(R, h) = Total(f, R) /\ Listed(S, h) = Total(f, S)
  <2> HIDE DEF R
  <2> QED BY <1>1, ListedTotal
<1> HIDE DEF f
<1>5. Total(f, R) = f[x] + Total(f, S)
    BY <1>2, TotalMore
<1> QED BY <1>3, <1>4, <1>5

(* Outages that touch nothing of an hour can go.                           *)
LEMMA ListedSame ==
  ASSUME NEW S \in SUBSET Outage, IsFiniteSet(S), NEW h \in Nat, NEW R \in SUBSET S,
         \A o \in S \ R : Uptime!Part(o[1], o[2], h) = 0
  PROVE  Listed(R, h) = Listed(S, h)
<1> DEFINE f == CutOf(h)
           Q == S \ R
<1>1. IsFiniteSet(R) /\ IsFiniteSet(Q) /\ R \in SUBSET Outage
    BY FS_Subset
<1>2. \A y \in R \cup Q : f[y] \in Int
    BY CutInt
<1>3. \A y \in Q : f[y] = 0
    BY CutInt
<1>4. R \cap Q = {} /\ R \cup Q = S
    OBVIOUS
<1>5. Listed(R, h) = Total(f, R) /\ Listed(S, h) = Total(f, S) /\ Listed(R, h) \in Int
    BY <1>1, ListedTotal
<1> HIDE DEF f, Q
<1>6. Total(f, R \cup Q) = Total(f, R) + Total(f, Q)
    BY <1>1, <1>2, <1>4, TotalUnion
<1>7. Total(f, Q) = 0
    BY <1>1, <1>3, TotalZero
<1>8. Total(f, S) = Total(f, R) + Total(f, Q)
    BY <1>4, <1>6
<1> QED BY <1>5, <1>7, <1>8

(* Of the outages at most the latest are listed: with one too many, the    *)
(* earliest goes.                                                          *)
Listable(R) ==
  {o \in R : Uptime!Cardinality({q \in R : q[2] > o[2]}) < MaxOutages}

LEMMA LatestKept ==
  ASSUME NEW R \in SUBSET Outage, IsFiniteSet(R), \A o, q \in R : o[2] = q[2] => o = q,
         Cardinality(R) <= MaxOutages + 1
  PROVE  \/ Listable(R) = R /\ Cardinality(R) <= MaxOutages
         \/ /\ Cardinality(Listable(R)) = MaxOutages
            /\ \E e \in R : Listable(R) = R \ {e} /\ \A o \in Listable(R) : e[2] <= o[2]
<1> DEFINE After(o) == {q \in R : q[2] > o[2]}
<1>0. MaxOutages \in Nat /\ MaxOutages # 0 /\ Cardinality(R) \in Nat
    BY UptimeAssumption, FS_CardinalityType
<1>1. \A o : o \in Listable(R) <=> o \in R /\ Cardinality(After(o)) < MaxOutages
    BY DEF Listable, Uptime!Cardinality, Cardinality
<1>2. \A o \in R : o[2] \in Nat /\ o \notin After(o) /\ After(o) \in SUBSET R
    BY DEF Outage
<1>3. ASSUME NEW o \in R, NEW Q \in SUBSET R, After(o) \subseteq Q
      PROVE  Cardinality(After(o)) <= Cardinality(Q) /\ Cardinality(Q) \in Nat
                /\ Cardinality(After(o)) \in Nat
  <2>1. IsFiniteSet(Q)
      BY FS_Subset
  <2> HIDE DEF After
  <2> QED BY <1>3, <2>1, FS_Subset, FS_CardinalityType
<1>4. CASE Cardinality(R) <= MaxOutages
  <2>1. ASSUME NEW o \in R PROVE o \in Listable(R)
    <3>1. Cardinality(R \ {o}) = Cardinality(R) - 1
        BY FS_RemoveElement
    <3>2. After(o) \subseteq R \ {o} /\ R \ {o} \in SUBSET R
        BY <1>2
    <3>3. Cardinality(After(o)) <= Cardinality(R \ {o}) /\ Cardinality(After(o)) \in Nat
        BY <1>3, <3>2
    <3> HIDE DEF After
    <3> QED BY <1>0, <1>1, <1>4, <3>1, <3>3
  <2> QED BY <1>1, <1>4, <2>1
<1>5. CASE Cardinality(R) = MaxOutages + 1
  <2> DEFINE Ends == {o[2] : o \in R}
  <2>1. R # {}
      BY <1>0, <1>5, FS_EmptySet
  <2>2. Ends \in SUBSET Nat /\ Ends # {}
      BY <1>2, <2>1
  <2>3. PICK n \in Ends : \A m \in Ends : n <= m
    <3> HIDE DEF Ends
    <3> QED BY <2>2, LeastNat
  <2>4. PICK e \in R : n = e[2]
      OBVIOUS
  <2>5. \A o \in R : e[2] <= o[2]
      BY <2>3, <2>4
  <2>6. \A o \in R : o # e => e[2] < o[2]
      BY <1>2, <2>5
  <2>7. Cardinality(R \ {e}) = MaxOutages
    <3>1. Cardinality(R \ {e}) = Cardinality(R) - 1
        BY FS_RemoveElement
    <3> QED BY <1>0, <1>5, <3>1
  <2>8. e \notin Listable(R)
    <3>1. After(e) = R \ {e}
        BY <1>2, <2>6
    <3>2. Cardinality(After(e)) = MaxOutages
        BY <2>7, <3>1
    <3> HIDE DEF After
    <3> QED BY <1>0, <1>1, <3>2
  <2>9. ASSUME NEW o \in R, o # e PROVE o \in Listable(R)
    <3> DEFINE Q == (R \ {e}) \ {o}
    <3>1. IsFiniteSet(R \ {e}) /\ o \in R \ {e}
        BY <2>9, FS_RemoveElement
    <3>2. Cardinality(Q) = MaxOutages - 1
        BY <2>7, <3>1, FS_RemoveElement
    <3>3. After(o) \subseteq Q /\ Q \in SUBSET R
        BY <1>2, <2>6
    <3>4. Cardinality(After(o)) <= Cardinality(Q) /\ Cardinality(After(o)) \in Nat
        BY <1>3, <3>3
    <3> HIDE DEF After, Q
    <3> QED BY <1>0, <1>1, <3>2, <3>4
  <2>10. Listable(R) = R \ {e}
      BY <1>1, <2>8, <2>9
  <2> QED BY <2>5, <2>7, <2>10
<1> QED BY <1>0, <1>4, <1>5

-----------------------------------------------------------------------------

RecordType ==
  [online : [Uptime!Hour -> Int], offline : [Uptime!Hour -> Int], outages : SUBSET Outage,
   ok : {"unknown", "yes", "no"}, at : Nat \cup {Uptime!None}, open : Nat \cup {Uptime!None}]

OpenPart(r, h) ==
  IF r.open = Uptime!None THEN 0 ELSE Uptime!Part(r.open, r.at, h)

(* An hour has the time the record has seen of it.  Its offline time is    *)
(* that of the outages, unless the list is full and begins in that hour or *)
(* after it.                                                               *)
Counts(r, b, h) ==
  /\ r.online[h] + r.offline[h] = Uptime!Part(b, r.at, h)
  /\ \/ /\ Cardinality(r.outages) >= MaxOutages
        /\ \A o \in r.outages : h * HourLen < o[2]
     \/ r.offline[h] = Listed(r.outages, h) + OpenPart(r, h)

SoundRecord(r, b) ==
  /\ r \in RecordType /\ IsFiniteSet(r.outages)
  /\ r.at \in Nat /\ b \in Nat /\ b <= r.at /\ r.ok # "unknown"
  /\ (r.ok = "no" <=> r.open # Uptime!None)
  /\ r.open # Uptime!None => r.open <= r.at /\ \A o \in r.outages : o[2] <= r.open
  /\ \A o \in r.outages : o[1] <= o[2] /\ o[2] <= r.at
  /\ \A o, q \in r.outages : o[2] = q[2] => o = q
  /\ \A h \in Uptime!Retained(r) : Counts(r, b, h)

(* A record just begun, or one that has been probed.                       *)
KeptRecord(r, b) ==
  \/ r = Uptime!Empty /\ b = Uptime!None
  \/ SoundRecord(r, b) /\ Cardinality(r.outages) <= MaxOutages /\ r.at <= uptimeTick

UptimeInv ==
  /\ uptimeTick \in Nat /\ up \in BOOLEAN /\ uptimeTorn \in BOOLEAN
  /\ up => KeptRecord(record, born)
  /\ ~uptimeTorn => KeptRecord(uptimeKept, born)

LEMMA EmptyRecord == Uptime!Empty \in RecordType
<1> QED BY DEF Uptime!Empty, RecordType, Uptime!None

(* _prune(): what it forgets was in no hour that is kept.                  *)
LEMMA PruneKeeps ==
  ASSUME NEW r, NEW b, SoundRecord(r, b), r.at = uptimeTick, Cardinality(r.outages) <= MaxOutages + 1
  PROVE  /\ SoundRecord(Uptime!Pruned(r), b) /\ Uptime!Pruned(r).at = uptimeTick
         /\ Cardinality(Uptime!Pruned(r).outages) <= MaxOutages
<1> DEFINE R == {o \in r.outages : o[2] >= uptimeTick - KeepOutages}
           L == Listable(R)
           p == Uptime!Pruned(r)
           past(h) == h < Uptime!HourOf(uptimeTick) - KeepHours
           on == [h \in Uptime!Hour |-> IF past(h) THEN 0 ELSE r.online[h]]
           off == [h \in Uptime!Hour |-> IF past(h) THEN 0 ELSE r.offline[h]]
<1>1. /\ r \in RecordType /\ IsFiniteSet(r.outages) /\ r.outages \in SUBSET Outage
      /\ r.at \in Nat /\ b \in Nat /\ uptimeTick \in Nat
      /\ r.online \in [Uptime!Hour -> Int] /\ r.offline \in [Uptime!Hour -> Int]
    BY DEF SoundRecord, RecordType
<1>2. R \in SUBSET Outage /\ IsFiniteSet(R) /\ R \in SUBSET r.outages /\ L \in SUBSET R
      /\ IsFiniteSet(L)
    BY <1>1, FS_Subset DEF Listable
<1>3. \/ L = R /\ Cardinality(R) <= MaxOutages
      \/ /\ Cardinality(L) = MaxOutages
         /\ \E e \in R : L = R \ {e} /\ \A o \in L : e[2] <= o[2]
  <2>1. \A o, q \in R : o[2] = q[2] => o = q
      BY DEF SoundRecord
  <2>2. Cardinality(R) <= MaxOutages + 1
    <3>1. Cardinality(R) <= Cardinality(r.outages) /\ Cardinality(R) \in Nat
             /\ Cardinality(r.outages) \in Nat
      <4> HIDE DEF R
      <4> QED BY <1>1, <1>2, FS_Subset, FS_CardinalityType
    <3> QED BY <3>1, UptimeAssumption
  <2> HIDE DEF R
  <2> QED BY <1>2, <2>1, <2>2, LatestKept
<1>4. on \in [Uptime!Hour -> Int] /\ off \in [Uptime!Hour -> Int]
    BY <1>1
<1>5. L \in SUBSET Outage
    BY <1>2
<1>6. p = [r EXCEPT !.online = on, !.offline = off, !.outages = L]
    BY DEF Uptime!Pruned, Listable, Uptime!Cardinality, Cardinality
<1>7. \A h \in Uptime!Retained(r) :
          h \in Uptime!Hour /\ on[h] = r.online[h] /\ off[h] = r.offline[h]
             /\ h \in Nat /\ uptimeTick - KeepOutages <= h * HourLen
  <2> SUFFICES ASSUME NEW h \in Uptime!Retained(r)
               PROVE  h \in Uptime!Hour /\ on[h] = r.online[h] /\ off[h] = r.offline[h]
                         /\ h \in Nat /\ uptimeTick - KeepOutages <= h * HourLen
      OBVIOUS
  <2>1. h \in Uptime!Hour /\ h >= Uptime!HourOf(uptimeTick) - KeepHours
      BY DEF Uptime!Retained
  <2>2. h \in Nat
      BY <2>1, HoursFinite
  <2>3. Uptime!HourOf(uptimeTick) \in Int /\ KeepHours \in Int
      BY <1>1, HoursPass, UptimeAssumption
  <2>4. ~past(h)
      BY <2>1, <2>2, <2>3
  <2>5. uptimeTick - KeepOutages <= h * HourLen
      BY <1>1, <2>1, <2>2, KeptHours
  <2> QED BY <2>1, <2>2, <2>4, <2>5
<1> HIDE DEF on, off, L, p
<1>8. p = [online |-> on, offline |-> off, outages |-> L, ok |-> r.ok, at |-> r.at,
           open |-> r.open]
    BY <1>1, <1>6 DEF RecordType
<1>9. p \in RecordType
    BY <1>1, <1>4, <1>5, <1>8 DEF RecordType
<1>10. Uptime!Retained(p) = Uptime!Retained(r)
    BY <1>8 DEF Uptime!Retained
<1>11. ASSUME NEW h \in Uptime!Retained(r) PROVE Counts(p, b, h)
  <2>1. /\ h \in Nat /\ HourLen \in Nat /\ h * HourLen \in Int
        /\ uptimeTick - KeepOutages <= h * HourLen
        /\ on[h] = r.online[h] /\ off[h] = r.offline[h]
      BY <1>7, UptimeAssumption
  <2>2. /\ Counts(r, b, h)
        /\ \A o \in r.outages : o[1] \in Int /\ o[2] \in Int
        /\ KeepOutages \in Nat /\ MaxOutages \in Nat
      BY <1>1, UptimeAssumption DEF SoundRecord, Outage
  <2>3. OpenPart(p, h) = OpenPart(r, h)
      BY <1>8 DEF OpenPart
  <2>4. ASSUME NEW o \in r.outages, o[2] <= h * HourLen PROVE Uptime!Part(o[1], o[2], h) = 0
      BY <2>1, <2>2, <2>4, PartsAdd
  <2>5. ASSUME NEW o \in r.outages, o \notin R PROVE o[2] <= h * HourLen
      BY <1>1, <2>1, <2>2, <2>5
  <2>6. Listed(R, h) = Listed(r.outages, h)
      BY <1>1, <1>2, <2>1, <2>4, <2>5, ListedSame
  <2>7. CASE L = R
    <3>1. CASE r.offline[h] = Listed(r.outages, h) + OpenPart(r, h)
        BY <1>8, <2>1, <2>2, <2>3, <2>6, <2>7, <3>1 DEF Counts
    <3>2. CASE /\ Cardinality(r.outages) >= MaxOutages
               /\ \A o \in r.outages : h * HourLen < o[2]
      <4>1. R = r.outages
        <5>1. \A o \in r.outages : o \in R
            BY <2>1, <2>2, <2>5, <3>2
        <5> QED BY <1>2, <5>1
      <4> QED BY <1>8, <2>1, <2>2, <2>7, <3>2, <4>1 DEF Counts
    <3> QED BY <2>2, <3>1, <3>2 DEF Counts
  <2>8. CASE /\ Cardinality(L) = MaxOutages
             /\ \E e \in R : L = R \ {e} /\ \A o \in L : e[2] <= o[2]
    <3>1. PICK e \in R : L = R \ {e} /\ \A o \in L : e[2] <= o[2]
        BY <2>8
    <3>2. e \in r.outages /\ e[2] \in Int /\ \A o \in L : o[2] \in Int
        BY <1>2, <2>2
    <3>3. CASE h * HourLen < e[2]
      <4>1. \A o \in L : h * HourLen < o[2]
          BY <2>1, <3>1, <3>2, <3>3
      <4> QED BY <1>8, <2>1, <2>2, <2>8, <4>1 DEF Counts
    <3>4. CASE e[2] <= h * HourLen
      <4>1. r.offline[h] = Listed(r.outages, h) + OpenPart(r, h)
          BY <2>1, <2>2, <3>2, <3>4 DEF Counts
      <4>2. \A o \in R \ L : Uptime!Part(o[1], o[2], h) = 0
          BY <2>4, <3>1, <3>2, <3>4
      <4>3. Listed(L, h) = Listed(R, h)
          BY <1>2, <2>1, <4>2, ListedSame
      <4> QED BY <1>8, <2>1, <2>2, <2>3, <2>6, <4>1, <4>3 DEF Counts
    <3> QED BY <2>1, <3>2, <3>3, <3>4
  <2> QED BY <1>3, <2>7, <2>8
<1>12. Cardinality(p.outages) <= MaxOutages
  <2>1. MaxOutages \in Nat
      BY UptimeAssumption
  <2>2. Cardinality(L) <= MaxOutages
    <3> HIDE DEF R
    <3>1. CASE L = R /\ Cardinality(R) <= MaxOutages
        BY <3>1
    <3>2. CASE Cardinality(L) = MaxOutages
        BY <2>1, <3>2
    <3> QED BY <1>3, <3>1, <3>2
  <2> QED BY <1>8, <2>2
<1>13. SoundRecord(p, b)
  <2>1. /\ p.ok = r.ok /\ p.at = r.at /\ p.open = r.open /\ p.outages = L
        /\ L \in SUBSET r.outages
      BY <1>2, <1>8
  <2>2. \A h \in Uptime!Retained(p) : Counts(p, b, h)
      BY <1>10, <1>11
  <2> QED BY <1>2, <1>9, <2>1, <2>2 DEF SoundRecord
<1> QED BY <1>8, <1>12, <1>13 DEF p

(* What record_probe() makes of the record before it is pruned.            *)
Unpruned(r, ok) ==
  [Uptime!Turned(Uptime!Booked(r, ok), ok) EXCEPT
      !.ok = IF ok THEN "yes" ELSE "no", !.at = uptimeTick]
ClosedOutage(r) == <<r.open, uptimeTick>>

LEMMA PartsMeet ==
  ASSUME NEW a \in Int, NEW b \in Int, NEW c \in Int, NEW h \in Nat, a <= b, b <= c
  PROVE  /\ Uptime!Part(a, c, h) = Uptime!Part(a, b, h) + Uptime!Part(b, c, h)
         /\ Uptime!Part(a, b, h) \in Nat /\ Uptime!Part(b, c, h) \in Nat
<1>1. Uptime!Part(a, c, h) = Uptime!Part(a, b, h) + Uptime!Part(b, c, h)
    BY PartsAdd
<1>2. Uptime!Part(a, b, h) \in Nat
    BY PartsAdd
<1>3. Uptime!Part(b, c, h) \in Nat
    BY PartsAdd
<1> QED BY <1>1, <1>2, <1>3

LEMMA NoPart ==
  ASSUME NEW a \in Int, NEW b \in Int, NEW h \in Nat, a >= b
  PROVE  Uptime!Part(a, b, h) = 0
<1> QED BY PartsAdd

LEMMA DurationAdded ==
  ASSUME NEW f \in [Uptime!Hour -> Int], NEW s \in Int, NEW e \in Int
  PROVE  /\ Uptime!AddDuration(f, s, e) \in [Uptime!Hour -> Int]
         /\ \A h \in Uptime!Hour : Uptime!AddDuration(f, s, e)[h] = f[h] + Uptime!Part(s, e, h)
<1>1. \A h \in Uptime!Hour : Uptime!Part(s, e, h) \in Nat
    BY HoursFinite, PartsAdd
<1> QED BY <1>1 DEF Uptime!AddDuration

(* The first probe of a record.                                            *)
LEMMA FirstProbe ==
  ASSUME uptimeTick \in Nat, NEW ok \in BOOLEAN
  PROVE  LET q == Unpruned(Uptime!Empty, ok)
         IN  /\ SoundRecord(q, uptimeTick) /\ q.at = uptimeTick
             /\ Cardinality(q.outages) <= MaxOutages + 1
<1> DEFINE q == Unpruned(Uptime!Empty, ok)
           zero == [h \in Uptime!Hour |-> 0]
<1>1. q = [online |-> zero, offline |-> zero, outages |-> {},
           ok |-> IF ok THEN "yes" ELSE "no", at |-> uptimeTick,
           open |-> IF ok THEN Uptime!None ELSE uptimeTick]
  <2> DEFINE m == Uptime!Booked(Uptime!Empty, ok)
             t == Uptime!Turned(m, ok)
  <2>1. q = [t EXCEPT !.ok = IF ok THEN "yes" ELSE "no", !.at = uptimeTick]
      BY DEF Unpruned
  <2>2. Uptime!Empty = [online |-> zero, offline |-> zero, outages |-> {}, ok |-> "unknown",
                        at |-> Uptime!None, open |-> Uptime!None]
      BY DEF Uptime!Empty
  <2> HIDE DEF zero, q
  <2>3. m = Uptime!Empty
      BY <2>2 DEF Uptime!Booked
  <2> HIDE DEF m
  <2>4. CASE ok
    <3>1. t = m
        BY <2>2, <2>3, <2>4 DEF Uptime!Turned
    <3> HIDE DEF t
    <3> QED BY <2>1, <2>2, <2>3, <2>4, <3>1
  <2>5. CASE ~ok
    <3>1. t = [m EXCEPT !.open = uptimeTick]
        BY <2>2, <2>3, <2>5 DEF Uptime!Turned
    <3> HIDE DEF t
    <3> QED BY <2>1, <2>2, <2>3, <2>5, <3>1
  <2> QED BY <2>4, <2>5
<1>2. zero \in [Uptime!Hour -> Int] /\ \A h \in Uptime!Hour : zero[h] = 0
    OBVIOUS
<1> HIDE DEF q, zero
<1>3. q \in RecordType
    BY <1>1, <1>2 DEF RecordType
<1>4. IsFiniteSet({}) /\ Cardinality({}) = 0 /\ MaxOutages \in Nat
    BY FS_EmptySet, UptimeAssumption
<1>5. ASSUME NEW h \in Uptime!Hour PROVE Counts(q, uptimeTick, h)
  <2>1. h \in Nat
      BY HoursFinite
  <2>2. Uptime!Part(uptimeTick, uptimeTick, h) = 0
      BY <2>1, PartsAdd
  <2>3. Listed({}, h) = Total(CutOf(h), {})
      BY <1>4, <2>1, ListedTotal
  <2>4. Listed({}, h) = 0
      BY <2>3, TotalEmpty
  <2>5. OpenPart(q, h) = 0
      BY <1>1, <2>2 DEF OpenPart
  <2>6. q.online[h] = 0 /\ q.offline[h] = 0 /\ q.at = uptimeTick /\ q.outages = {}
      BY <1>1, <1>2
  <2> QED BY <2>2, <2>4, <2>5, <2>6 DEF Counts
<1>6. q.at = uptimeTick /\ q.outages = {} /\ q.ok = (IF ok THEN "yes" ELSE "no")
      /\ q.open = (IF ok THEN Uptime!None ELSE uptimeTick)
    BY <1>1
<1>7. SoundRecord(q, uptimeTick)
    BY <1>3, <1>4, <1>5, <1>6 DEF SoundRecord, Uptime!Retained, Uptime!None
<1> QED BY <1>4, <1>6, <1>7 DEF q

(* A probe books the time since the last one as that one found the server, *)
(* and opens or closes an outage.                                          *)
LEMMA ProbeBooks ==
  ASSUME NEW r, NEW b, SoundRecord(r, b), Cardinality(r.outages) <= MaxOutages,
         uptimeTick \in Nat, r.at <= uptimeTick, NEW ok \in BOOLEAN
  PROVE  LET q == Unpruned(r, ok)
         IN  /\ SoundRecord(q, b) /\ q.at = uptimeTick
             /\ Cardinality(q.outages) <= MaxOutages + 1
<1> DEFINE q == Unpruned(r, ok)
           more == IF r.ok = "no" /\ ok /\ uptimeTick > r.open THEN {ClosedOutage(r)} ELSE {}
           on == IF r.ok = "yes" THEN Uptime!AddDuration(r.online, r.at, uptimeTick)
                                 ELSE r.online
           off == IF r.ok = "yes" THEN r.offline
                                  ELSE Uptime!AddDuration(r.offline, r.at, uptimeTick)
           open2 == IF ok THEN Uptime!None ELSE IF r.ok = "no" THEN r.open ELSE uptimeTick
<1>1. /\ r \in RecordType /\ IsFiniteSet(r.outages) /\ r.outages \in SUBSET Outage
      /\ r.at \in Nat /\ b \in Nat /\ b <= r.at /\ r.ok \in {"yes", "no"}
      /\ (r.ok = "no" <=> r.open # Uptime!None)
      /\ r.online \in [Uptime!Hour -> Int] /\ r.offline \in [Uptime!Hour -> Int]
      /\ r.open \in Nat \cup {Uptime!None}
      /\ r.open # Uptime!None => r.open \in Nat /\ r.open <= r.at
      /\ Uptime!None = -1
    BY DEF SoundRecord, RecordType, Uptime!None
<1>2. /\ Uptime!AddDuration(r.online, r.at, uptimeTick) \in [Uptime!Hour -> Int]
      /\ Uptime!AddDuration(r.offline, r.at, uptimeTick) \in [Uptime!Hour -> Int]
      /\ \A h \in Uptime!Hour :
            /\ Uptime!AddDuration(r.online, r.at, uptimeTick)[h] =
                   r.online[h] + Uptime!Part(r.at, uptimeTick, h)
            /\ Uptime!AddDuration(r.offline, r.at, uptimeTick)[h] =
                   r.offline[h] + Uptime!Part(r.at, uptimeTick, h)
  <2>1. r.at \in Int /\ uptimeTick \in Int
      BY <1>1
  <2> QED BY <1>1, <2>1, DurationAdded
<1>3. /\ on \in [Uptime!Hour -> Int] /\ off \in [Uptime!Hour -> Int]
      /\ \A h \in Uptime!Hour :
           /\ r.ok = "yes" => /\ on[h] = r.online[h] + Uptime!Part(r.at, uptimeTick, h)
                              /\ off[h] = r.offline[h]
           /\ r.ok = "no" => /\ off[h] = r.offline[h] + Uptime!Part(r.at, uptimeTick, h)
                             /\ on[h] = r.online[h]
    BY <1>1, <1>2
<1>4. q = [online |-> on, offline |-> off, outages |-> r.outages \cup more,
           ok |-> IF ok THEN "yes" ELSE "no", at |-> uptimeTick, open |-> open2]
  <2> DEFINE m == Uptime!Booked(r, ok)
  <2>1. m = [online |-> on, offline |-> off, outages |-> r.outages, ok |-> r.ok,
             at |-> r.at, open |-> r.open]
    <3>1. CASE r.ok = "yes"
        BY <1>1, <3>1 DEF Uptime!Booked, RecordType
    <3>2. CASE r.ok = "no"
        BY <1>1, <3>2 DEF Uptime!Booked, RecordType
    <3> QED BY <1>1, <3>1, <3>2
  <2> HIDE DEF m, on, off
  <2> DEFINE t == Uptime!Turned(m, ok)
  <2>2. t = [online |-> on, offline |-> off, outages |-> r.outages \cup more, ok |-> r.ok,
             at |-> r.at, open |-> open2]
    <3>0. m.ok = r.ok /\ m.open = r.open /\ m.outages = r.outages
        BY <2>1
    <3>1. CASE r.ok = "yes" /\ ok
        BY <1>1, <2>1, <3>1 DEF Uptime!Turned
    <3>2. CASE r.ok = "yes" /\ ~ok
        BY <1>1, <2>1, <3>2 DEF Uptime!Turned
    <3>3. CASE r.ok = "no" /\ ~ok
        BY <1>1, <2>1, <3>3 DEF Uptime!Turned
    <3>4. CASE r.ok = "no" /\ ok
      <4>1. t = Uptime!CloseOutage(m)
          BY <3>0, <3>4 DEF Uptime!Turned
      <4> DEFINE all2 == r.outages \cup more
      <4>2. (IF uptimeTick > m.open THEN m.outages \cup {<<m.open, uptimeTick>>} ELSE m.outages)
              = all2
          BY <3>0, <3>4 DEF ClosedOutage
      <4> HIDE DEF all2
      <4>3. t = [m EXCEPT !.open = Uptime!None, !.outages = all2]
          BY <1>1, <3>0, <3>4, <4>1, <4>2 DEF Uptime!CloseOutage
      <4>4. open2 = Uptime!None
          BY <3>4
      <4> HIDE DEF open2
      <4>5. t = [online |-> on, offline |-> off, outages |-> all2, ok |-> r.ok,
                 at |-> r.at, open |-> open2]
          BY <2>1, <4>3, <4>4
      <4> QED BY <4>5 DEF all2
    <3> QED BY <1>1, <3>1, <3>2, <3>3, <3>4
  <2>3. q = [t EXCEPT !.ok = IF ok THEN "yes" ELSE "no", !.at = uptimeTick]
      BY DEF Unpruned, m
  <2> DEFINE all3 == r.outages \cup more
  <2> HIDE DEF t, all3, open2, q
  <2>4. t = [online |-> on, offline |-> off, outages |-> all3, ok |-> r.ok,
             at |-> r.at, open |-> open2]
      BY <2>2 DEF all3
  <2>5. q = [online |-> on, offline |-> off, outages |-> all3,
             ok |-> IF ok THEN "yes" ELSE "no", at |-> uptimeTick, open |-> open2]
      BY <2>3, <2>4
  <2> QED BY <2>5 DEF all3
<1> HIDE DEF q, on, off
<1>5. /\ q.online = on /\ q.offline = off /\ q.outages = r.outages \cup more
      /\ q.ok = (IF ok THEN "yes" ELSE "no") /\ q.at = uptimeTick /\ q.open = open2
    BY <1>4
<1>6. /\ more \in SUBSET Outage /\ (more = {} \/ more = {ClosedOutage(r)})
      /\ open2 \in Nat \cup {Uptime!None} /\ (open2 = Uptime!None <=> ok)
    BY <1>1 DEF Outage, ClosedOutage
<1>7. q \in RecordType
  <2> HIDE DEF more, open2
  <2>1. q.outages \in SUBSET Outage
      BY <1>1, <1>5, <1>6
  <2> DEFINE all2 == r.outages \cup more
  <2>2. all2 \in SUBSET Outage
      BY <1>5, <2>1
  <2> HIDE DEF all2
  <2>3. q = [online |-> on, offline |-> off, outages |-> all2,
             ok |-> IF ok THEN "yes" ELSE "no", at |-> uptimeTick, open |-> open2]
      BY <1>4 DEF all2
  <2> QED BY <1>3, <1>6, <2>2, <2>3 DEF RecordType
<1>8. \A o \in r.outages : /\ o[1] <= o[2] /\ o[2] <= r.at /\ o[1] \in Nat /\ o[2] \in Nat
                           /\ r.ok = "no" => o[2] <= r.open
    BY <1>1 DEF SoundRecord, Outage
<1>9. \A o \in more : /\ o = ClosedOutage(r) /\ o[1] = r.open /\ o[2] = uptimeTick
                      /\ r.open \in Nat /\ r.open < uptimeTick /\ r.open <= r.at /\ r.ok = "no"
                      /\ ok
    BY <1>1 DEF ClosedOutage
<1>10. \A o \in more : o \notin r.outages /\ \A p \in r.outages : p[2] < o[2]
    BY <1>1, <1>8, <1>9
<1>11. IsFiniteSet(q.outages) /\ Cardinality(q.outages) <= MaxOutages + 1
  <2>1. CASE more = {}
    <3>1. q.outages = r.outages
        BY <1>5, <2>1
    <3>2. Cardinality(r.outages) \in Nat /\ MaxOutages \in Nat
        BY <1>1, FS_CardinalityType, UptimeAssumption
    <3> QED BY <1>1, <3>1, <3>2
  <2>2. CASE more = {ClosedOutage(r)}
    <3>1. q.outages = r.outages \cup {ClosedOutage(r)} /\ ClosedOutage(r) \notin r.outages
        BY <1>5, <1>10, <2>2
    <3>2. Cardinality(r.outages) \in Nat /\ MaxOutages \in Nat
        BY <1>1, FS_CardinalityType, UptimeAssumption
    <3>3. IsFiniteSet(q.outages) /\ Cardinality(q.outages) = Cardinality(r.outages) + 1
        BY <1>1, <3>1, FS_AddElement
    <3> QED BY <3>2, <3>3
  <2> QED BY <1>6, <2>1, <2>2
<1>12. ASSUME NEW h \in Uptime!Retained(q) PROVE Counts(q, b, h)
  <2> DEFINE d == Uptime!Part(r.at, uptimeTick, h)
  <2>1. h \in Uptime!Hour /\ h \in Nat /\ h \in Uptime!Retained(r)
    <3>1. h \in Uptime!Hour /\ h \in Nat /\ h >= Uptime!HourOf(uptimeTick) - KeepHours
        BY <1>5, HoursFinite DEF Uptime!Retained
    <3>2. Uptime!HourOf(r.at) \in Int /\ Uptime!HourOf(uptimeTick) \in Int
          /\ Uptime!HourOf(r.at) <= Uptime!HourOf(uptimeTick)
        BY <1>1, HoursPass
    <3>3. KeepHours \in Nat
        BY UptimeAssumption
    <3> QED BY <3>1, <3>2, <3>3 DEF Uptime!Retained
  <2>2. Counts(r, b, h)
      BY <2>1 DEF SoundRecord
  <2>3. r.at \in Int /\ b \in Int /\ uptimeTick \in Int /\ r.online[h] \in Int
        /\ r.offline[h] \in Int /\ HourLen \in Int /\ h * HourLen \in Int /\ MaxOutages \in Nat
      BY <1>1, <2>1, UptimeAssumption
  <2>0. \A x, y, z \in Int : x <= y /\ y <= z =>
            Uptime!Part(x, z, h) = Uptime!Part(x, y, h) + Uptime!Part(y, z, h)
    <3> SUFFICES ASSUME NEW x \in Int, NEW y \in Int, NEW z \in Int, x <= y, y <= z
                 PROVE  Uptime!Part(x, z, h) = Uptime!Part(x, y, h) + Uptime!Part(y, z, h)
        OBVIOUS
    <3> QED BY <2>1, PartsMeet
  <2>4. /\ Uptime!Part(b, uptimeTick, h) = Uptime!Part(b, r.at, h) + d
        /\ Uptime!Part(b, r.at, h) \in Nat /\ d \in Nat
        /\ Uptime!Part(uptimeTick, uptimeTick, h) = 0
    <3>1. /\ uptimeTick >= uptimeTick /\ b <= r.at /\ r.at <= uptimeTick
          /\ b \in Int /\ r.at \in Int /\ uptimeTick \in Int /\ h \in Nat
        BY <1>1, <2>1, <2>3
    <3>2. Uptime!Part(b, uptimeTick, h) =
              Uptime!Part(b, r.at, h) + Uptime!Part(r.at, uptimeTick, h)
        BY <3>1, <2>0
    <3>5. Uptime!Part(b, r.at, h) \in Nat
        BY <3>1, PartsAdd
    <3>3. d \in Nat
        BY <2>1, <2>3, PartsAdd
    <3>4. Uptime!Part(uptimeTick, uptimeTick, h) = 0
        BY <2>1, <2>3, <3>1, PartsAdd
    <3> QED BY <3>2, <3>3, <3>4, <3>5
  <2>5. r.ok = "no" =>
            /\ Uptime!Part(r.open, uptimeTick, h) = Uptime!Part(r.open, r.at, h) + d
            /\ Uptime!Part(r.open, r.at, h) \in Nat
            /\ r.open >= uptimeTick => Uptime!Part(r.open, uptimeTick, h) = 0
    <3> SUFFICES ASSUME r.ok = "no"
                 PROVE  /\ Uptime!Part(r.open, uptimeTick, h) = Uptime!Part(r.open, r.at, h) + d
                        /\ Uptime!Part(r.open, r.at, h) \in Nat
                        /\ r.open >= uptimeTick => Uptime!Part(r.open, uptimeTick, h) = 0
        OBVIOUS
    <3>1. /\ r.open \in Int /\ r.open <= r.at /\ r.at <= uptimeTick
          /\ r.at \in Int /\ uptimeTick \in Int /\ h \in Nat
        BY <1>1, <2>1, <2>3
    <3>2. Uptime!Part(r.open, uptimeTick, h) =
              Uptime!Part(r.open, r.at, h) + Uptime!Part(r.at, uptimeTick, h)
        BY <3>1, <2>0
    <3>4. Uptime!Part(r.open, r.at, h) \in Nat
        BY <3>1, PartsAdd
    <3>3. r.open >= uptimeTick => Uptime!Part(r.open, uptimeTick, h) = 0
        BY <2>1, <2>3, <3>1, NoPart
    <3> QED BY <3>2, <3>3, <3>4
  <2>6. /\ r.ok = "yes" => OpenPart(r, h) = 0
        /\ r.ok = "no" => OpenPart(r, h) = Uptime!Part(r.open, r.at, h)
      BY <1>1 DEF OpenPart
  <2>7. OpenPart(q, h) = IF ok THEN 0 ELSE IF r.ok = "no" THEN Uptime!Part(r.open, uptimeTick, h)
                                           ELSE 0
      BY <1>1, <1>5, <2>4 DEF OpenPart
  <2>8. q.online[h] + q.offline[h] = Uptime!Part(b, q.at, h)
    <3>1. r.online[h] + r.offline[h] = Uptime!Part(b, r.at, h)
        BY <2>2 DEF Counts
    <3>2. on[h] + off[h] = r.online[h] + r.offline[h] + d
        BY <1>1, <1>3, <2>1, <2>3, <2>4
    <3> QED BY <1>5, <2>3, <2>4, <3>1, <3>2
  <2>9. Listed(r.outages, h) \in Int
      BY <1>1, <2>1, ListedTotal
  <2>10. CASE more = {}
    <3>1. q.outages = r.outages
        BY <1>5, <2>10
    <3>2. CASE r.offline[h] = Listed(r.outages, h) + OpenPart(r, h)
      <4>1. off[h] = Listed(r.outages, h) + OpenPart(q, h)
        <5>1. CASE r.ok = "yes"
            BY <1>3, <2>1, <2>6, <2>7, <2>9, <3>2, <5>1
        <5>2. CASE r.ok = "no" /\ ~ok
            BY <1>3, <2>1, <2>4, <2>5, <2>6, <2>7, <2>9, <3>2, <5>2
        <5>3. CASE r.ok = "no" /\ ok
          <6>1. r.open >= uptimeTick
              BY <1>1, <2>10, <5>3
          <6> QED BY <1>3, <2>1, <2>4, <2>5, <2>6, <2>7, <2>9, <3>2, <5>3, <6>1
        <5> QED BY <1>1, <5>1, <5>2, <5>3
      <4> QED BY <1>5, <2>8, <3>1, <4>1 DEF Counts
    <3>3. CASE /\ Cardinality(r.outages) >= MaxOutages
               /\ \A o \in r.outages : h * HourLen < o[2]
        BY <2>8, <3>1, <3>3 DEF Counts
    <3> QED BY <2>2, <3>2, <3>3 DEF Counts
  <2>11. CASE more = {ClosedOutage(r)}
    <3> DEFINE x == ClosedOutage(r)
    <3>1. q.outages = r.outages \cup {x} /\ x \notin r.outages /\ x \in Outage
          /\ x[1] = r.open /\ x[2] = uptimeTick /\ r.ok = "no" /\ ok
      <4>1. x \in more
          BY <2>11
      <4>2. q.outages = r.outages \cup {x}
          BY <1>5, <2>11
      <4> HIDE DEF x, more
      <4>3. x \notin r.outages /\ x \in Outage
          BY <1>6, <1>10, <4>1
      <4>4. x[1] = r.open /\ x[2] = uptimeTick /\ r.ok = "no" /\ ok
          BY <1>9, <4>1
      <4> QED BY <4>2, <4>3, <4>4
    <3> HIDE DEF x
    <3>2. CASE r.offline[h] = Listed(r.outages, h) + OpenPart(r, h)
      <4>1. Listed(r.outages \cup {x}, h) =
                Uptime!Part(r.open, uptimeTick, h) + Listed(r.outages, h)
          BY <1>1, <2>1, <3>1, ListedMore
      <4>2. off[h] = Listed(q.outages, h) + OpenPart(q, h)
        <5>1. Listed(q.outages, h) = Listed(r.outages \cup {x}, h)
            BY <3>1
        <5> QED BY <1>3, <2>1, <2>4, <2>5, <2>6, <2>7, <2>9, <3>1, <3>2, <4>1, <5>1
      <4> QED BY <1>5, <2>8, <4>2 DEF Counts
    <3>3. CASE /\ Cardinality(r.outages) >= MaxOutages
               /\ \A o \in r.outages : h * HourLen < o[2]
      <4>1. Cardinality(q.outages) >= MaxOutages
        <5>1. Cardinality(r.outages) \in Nat
              /\ Cardinality(r.outages \cup {x}) = Cardinality(r.outages) + 1
            BY <1>1, <3>1, FS_AddElement, FS_CardinalityType
        <5>2. Cardinality(q.outages) = Cardinality(r.outages \cup {x})
            BY <3>1
        <5> QED BY <2>3, <3>3, <5>1, <5>2
      <4>2. r.outages # {}
        <5>1. Cardinality(r.outages) # 0
            BY <3>3, UptimeAssumption
        <5> QED BY <5>1, FS_EmptySet
      <4>3. \A o \in q.outages : h * HourLen < o[2]
        <5>1. PICK o \in r.outages : TRUE
            BY <4>2
        <5>2. h * HourLen < o[2] /\ o[2] \in Nat /\ o[2] < x[2]
            BY <1>8, <1>10, <2>11, <3>3 DEF x
        <5> QED BY <2>3, <3>1, <3>3, <5>2
      <4> QED BY <2>8, <4>1, <4>3 DEF Counts
    <3> QED BY <2>2, <3>2, <3>3 DEF Counts
  <2> QED BY <1>6, <2>10, <2>11
<1>13. SoundRecord(q, b)
  <2>1. \A o \in q.outages : o[1] <= o[2] /\ o[2] <= q.at
      BY <1>1, <1>5, <1>8, <1>9
  <2>2. \A o, p \in q.outages : o[2] = p[2] => o = p
    <3>1. \A o, p \in r.outages : o[2] = p[2] => o = p
        BY DEF SoundRecord
    <3>2. \A o, p \in more : o = p
        BY <1>9
    <3>3. \A o \in more : \A p \in r.outages : p[2] # o[2]
        BY <1>8, <1>9, <1>10
    <3> QED BY <1>5, <3>1, <3>2, <3>3
  <2>3. q.open # Uptime!None => q.open <= q.at /\ \A o \in q.outages : o[2] <= q.open
      BY <1>1, <1>5, <1>8, <1>9
  <2>4. q.ok = "no" <=> q.open # Uptime!None
      BY <1>5, <1>6
  <2>5. q.ok # "unknown" /\ b <= q.at /\ q.at \in Nat /\ b \in Nat
      BY <1>1, <1>5
  <2> QED BY <1>7, <1>11, <1>12, <2>1, <2>2, <2>3, <2>4, <2>5 DEF SoundRecord
<1> QED BY <1>5, <1>11, <1>13 DEF q

LEMMA UptimeInit == Uptime!Init => UptimeInv
<1> SUFFICES ASSUME Uptime!Init PROVE UptimeInv
    OBVIOUS
<1>1. KeptRecord(record, born) /\ KeptRecord(uptimeKept, born)
    BY DEF Uptime!Init, KeptRecord
<1>2. uptimeTick \in Nat /\ up \in BOOLEAN /\ uptimeTorn \in BOOLEAN
    BY DEF Uptime!Init
<1> QED BY <1>1, <1>2 DEF UptimeInv

LEMMA UptimeProbes ==
  ASSUME UptimeInv, NEW ok \in BOOLEAN, Uptime!RecordProbe(ok)
  PROVE  UptimeInv'
<1> DEFINE q == Unpruned(record, ok)
<1>1. /\ up /\ UNCHANGED <<uptimeTick, up>> /\ uptimeTick \in Nat
      /\ record' = Uptime!Pruned(q)
      /\ uptimeKept' = record' /\ uptimeTorn' = FALSE
      /\ born' = IF born = Uptime!None THEN uptimeTick ELSE born
      /\ KeptRecord(record, born)
    BY DEF UptimeInv, Uptime!RecordProbe, Unpruned
<1>2. SoundRecord(q, born') /\ q.at = uptimeTick /\ Cardinality(q.outages) <= MaxOutages + 1
  <2>1. CASE record = Uptime!Empty /\ born = Uptime!None
    <3>1. born' = uptimeTick
        BY <1>1, <2>1
    <3> QED BY <1>1, <2>1, <3>1, FirstProbe
  <2>2. CASE /\ SoundRecord(record, born)
             /\ Cardinality(record.outages) <= MaxOutages /\ record.at <= uptimeTick
    <3>1. born' = born
        BY <1>1, <2>2 DEF SoundRecord, Uptime!None
    <3> QED BY <1>1, <2>2, <3>1, ProbeBooks
  <2> QED BY <1>1, <2>1, <2>2 DEF KeptRecord
<1> HIDE DEF q
<1>3. SoundRecord(record', born') /\ record'.at = uptimeTick
      /\ Cardinality(record'.outages) <= MaxOutages
    BY <1>1, <1>2, PruneKeeps
<1>4. KeptRecord(record, born)'
    BY <1>1, <1>3 DEF KeptRecord
<1>5. KeptRecord(uptimeKept, born)'
    BY <1>1, <1>3 DEF KeptRecord
<1> QED BY <1>1, <1>4, <1>5 DEF UptimeInv

LEMMA UptimeStep == UptimeInv /\ [Uptime!Next]_Uptime!vars => UptimeInv'
<1> SUFFICES ASSUME UptimeInv, [Uptime!Next]_Uptime!vars PROVE UptimeInv'
    OBVIOUS
<1>1. ASSUME NEW ok \in BOOLEAN, Uptime!RecordProbe(ok) PROVE UptimeInv'
    BY <1>1, UptimeProbes
<1>2. CASE Uptime!Load
  <2>1. CASE uptimeTorn
      BY <1>2, <2>1 DEF Uptime!Load, UptimeInv, KeptRecord
  <2>2. CASE ~uptimeTorn
      BY <1>2, <2>2 DEF Uptime!Load, UptimeInv, KeptRecord
  <2> QED BY <2>1, <2>2
<1>3. CASE Uptime!Leave
  <2>1. /\ up' = FALSE /\ uptimeTorn' \in BOOLEAN /\ (uptimeTorn => uptimeTorn')
        /\ UNCHANGED <<uptimeTick, uptimeKept, born>> /\ uptimeTick \in Nat
    <3>1. uptimeTorn' = uptimeTorn \/ uptimeTorn' = TRUE
        BY <1>3 DEF Uptime!Leave
    <3>2. uptimeTorn' \in BOOLEAN /\ (uptimeTorn => uptimeTorn')
        BY <3>1 DEF UptimeInv
    <3> QED BY <1>3, <3>2 DEF Uptime!Leave, UptimeInv
  <2>2. ~uptimeTorn => KeptRecord(uptimeKept, born)'
      BY <2>1 DEF UptimeInv, KeptRecord
  <2> QED BY <2>1, <2>2 DEF UptimeInv
<1>4. CASE Uptime!Pass
  <2>1. /\ uptimeTick \in Nat /\ uptimeTick' = uptimeTick + 1
        /\ UNCHANGED <<up, record, uptimeKept, uptimeTorn, born>>
      BY <1>4 DEF Uptime!Pass, UptimeInv
  <2>2. ASSUME NEW r, KeptRecord(r, born) PROVE KeptRecord(r, born)'
    <3>1. r.at \in Nat /\ r.at <= uptimeTick => r.at <= uptimeTick'
        BY <2>1
    <3> QED BY <2>1, <2>2, <3>1 DEF KeptRecord, SoundRecord
  <2>3. up => KeptRecord(record, born)'
      BY <2>1, <2>2 DEF UptimeInv, KeptRecord
  <2>4. ~uptimeTorn => KeptRecord(uptimeKept, born)'
      BY <2>1, <2>2 DEF UptimeInv, KeptRecord
  <2> QED BY <2>1, <2>3, <2>4 DEF UptimeInv
<1>5. CASE UNCHANGED Uptime!vars
    BY <1>5 DEF Uptime!vars, UptimeInv, KeptRecord
<1> QED BY <1>1, <1>2, <1>3, <1>4, <1>5 DEF Uptime!Next

(* The time of an outage in the hours of a set.                            *)
InHours(a, b, H) == Uptime!MapThenSumSet(LAMBDA h : Uptime!Part(a, b, h), H)
PartsOf(a, b) == [h \in Nat |-> Uptime!Part(a, b, h)]
PartAdd(k, a, b, H) ==
  k = [T \in SUBSET H |->
         IF T = {} THEN 0 ELSE Uptime!Part(a, b, Chosen(T)) + k[T \ {Chosen(T)}]]

LEMMA InHoursTotal ==
  ASSUME NEW a \in Int, NEW b \in Int, NEW H \in SUBSET Nat, IsFiniteSet(H)
  PROVE  InHours(a, b, H) = Total(PartsOf(a, b), H) /\ InHours(a, b, H) \in Int
<1> DEFINE f == PartsOf(a, b)
           g == CHOOSE g : PartAdd(g, a, b, H)
<1>1. \A x \in Nat : f[x] = Uptime!Part(a, b, x) /\ f[x] \in Int
    BY PartsAdd DEF PartsOf
<1>2. InHours(a, b, H) = g[H]
    BY DEF InHours, Uptime!MapThenSumSet, Uptime!MapThenFoldSet, PartAdd, Chosen
<1> HIDE DEF f
<1>3. \A T \in SUBSET H : T # {} => Chosen(T) \in Nat
    BY DEF Chosen
<1>4. ASSUME NEW k PROVE Adds(k, f, H) <=> PartAdd(k, a, b, H)
  <2>1. \A T \in SUBSET H :
            Added(k, f, T) =
               IF T = {} THEN 0 ELSE Uptime!Part(a, b, Chosen(T)) + k[T \ {Chosen(T)}]
      BY <1>1, <1>3 DEF Added
  <2> QED BY <2>1 DEF Adds, PartAdd
<1>5. PartAdd(g, a, b, H)
    BY <1>4, AddsExists
<1>6. \A x \in H : f[x] \in Int
    BY <1>1
<1> HIDE DEF g
<1>7. InHours(a, b, H) = Total(f, H)
    BY <1>2, <1>4, <1>5, <1>6, AddsTotal
<1>8. Total(f, H) \in Int
    BY <1>6, TotalInt
<1> QED BY <1>7, <1>8 DEF f

(* All the outages of a set in the hours of another.                       *)
AllInHours(S, H) == Uptime!MapThenSumSet(LAMBDA o : InHours(o[1], o[2], H), S)
HoursOf(S, H) == [o \in S |-> InHours(o[1], o[2], H)]
AllAdd(k, S, H) ==
  k = [T \in SUBSET S |->
         IF T = {} THEN 0
         ELSE InHours(Chosen(T)[1], Chosen(T)[2], H) + k[T \ {Chosen(T)}]]

LEMMA AllTotal ==
  ASSUME NEW S \in SUBSET Outage, IsFiniteSet(S), NEW H \in SUBSET Nat, IsFiniteSet(H)
  PROVE  AllInHours(S, H) = Total(HoursOf(S, H), S)
<1> DEFINE f == HoursOf(S, H)
           g == CHOOSE g : AllAdd(g, S, H)
<1>1. \A x \in S : f[x] = InHours(x[1], x[2], H) /\ f[x] \in Int
  <2> SUFFICES ASSUME NEW x \in S PROVE f[x] = InHours(x[1], x[2], H) /\ f[x] \in Int
      OBVIOUS
  <2>1. x[1] \in Int /\ x[2] \in Int
      BY DEF Outage
  <2>2. InHours(x[1], x[2], H) \in Int
      BY <2>1, InHoursTotal
  <2>3. f[x] = InHours(x[1], x[2], H)
      BY DEF HoursOf
  <2> QED BY <2>2, <2>3
<1>2. AllInHours(S, H) = g[S]
    BY DEF AllInHours, Uptime!MapThenSumSet, Uptime!MapThenFoldSet, AllAdd, Chosen
<1> HIDE DEF f
<1>3. \A T \in SUBSET S : T # {} => Chosen(T) \in S
    BY DEF Chosen
<1>4. ASSUME NEW k PROVE Adds(k, f, S) <=> AllAdd(k, S, H)
  <2>1. \A T \in SUBSET S :
            Added(k, f, T) =
               IF T = {} THEN 0
               ELSE InHours(Chosen(T)[1], Chosen(T)[2], H) + k[T \ {Chosen(T)}]
      BY <1>1, <1>3 DEF Added
  <2> QED BY <2>1 DEF Adds, AllAdd
<1>5. AllAdd(g, S, H)
    BY <1>4, AddsExists
<1> HIDE DEF g
<1>6. AllInHours(S, H) = Total(f, S)
    BY <1>1, <1>2, <1>4, <1>5, AddsTotal
<1> QED BY <1>6 DEF f

(* The time of the outages by hours, added up, is that by outages.         *)
LEMMA ListedSwapped ==
  ASSUME NEW S \in SUBSET Outage, IsFiniteSet(S), NEW H \in SUBSET Nat, IsFiniteSet(H),
         NEW f, \A h \in H : f[h] = Listed(S, h)
  PROVE  Total(f, H) = AllInHours(S, H)
<1> DEFINE row2 == [h \in H |-> CutOf(h)]
           col == [o \in S |-> PartsOf(o[1], o[2])]
           g == HoursOf(S, H)
<1>1. Transposed(row2, col, H, S)
  <2> SUFFICES ASSUME NEW h \in H, NEW o \in S
               PROVE  row2[h][o] \in Int /\ col[o][h] = row2[h][o]
      BY DEF Transposed
  <2>1. CutOf(h)[o] = Uptime!Part(o[1], o[2], h) /\ CutOf(h)[o] \in Int
      BY CutInt
  <2>2. PartsOf(o[1], o[2])[h] = Uptime!Part(o[1], o[2], h)
      BY DEF PartsOf
  <2> QED BY <2>1, <2>2
<1>2. SumsOf(f, row2, H, S)
  <2> SUFFICES ASSUME NEW h \in H PROVE f[h] = Total(row2[h], S)
      BY DEF SumsOf
  <2>1. Listed(S, h) = Total(CutOf(h), S)
      BY ListedTotal
  <2>2. row2[h] = CutOf(h)
      OBVIOUS
  <2> HIDE DEF row2
  <2> QED BY <2>1, <2>2
<1>3. SumsOf(g, col, S, H)
  <2> SUFFICES ASSUME NEW o \in S PROVE g[o] = Total(col[o], H)
      BY DEF SumsOf
  <2>1. o[1] \in Int /\ o[2] \in Int
      BY DEF Outage
  <2>2. InHours(o[1], o[2], H) = Total(PartsOf(o[1], o[2]), H)
      BY <2>1, InHoursTotal
  <2>3. col[o] = PartsOf(o[1], o[2])
      OBVIOUS
  <2>4. g[o] = InHours(o[1], o[2], H)
      BY DEF HoursOf
  <2> HIDE DEF col, g
  <2> QED BY <2>2, <2>3, <2>4
<1> HIDE DEF row2, col, g
<1>4. Total(f, H) = Total(g, S)
    BY <1>1, <1>2, <1>3, TotalSwapped
<1>5. AllInHours(S, H) = Total(g, S)
    BY AllTotal DEF g
<1> QED BY <1>4, <1>5

LEMMA SameCardinality == \A S : Uptime!Cardinality(S) = Cardinality(S)
<1> QED BY DEF Uptime!Cardinality, Cardinality

LEMMA UptimeSound ==
  UptimeInv /\ up /\ record.at # Uptime!None =>
      /\ SoundRecord(record, born) /\ record.at <= uptimeTick
      /\ uptimeTick \in Nat
<1> QED BY DEF UptimeInv, KeptRecord, Uptime!Empty

LEMMA HoursAgree == UptimeInv => Uptime!HoursAddUp
<1> QED BY UptimeSound DEF Uptime!HoursAddUp, SoundRecord, Counts

LEMMA OutagesAgree == UptimeInv => Uptime!OfflineIsOutages
<1> SUFFICES ASSUME UptimeInv, up, record.at # Uptime!None,
                    Cardinality(record.outages) < MaxOutages,
                    NEW h \in Uptime!Retained(record)
             PROVE  record.offline[h] = Listed(record.outages, h) + OpenPart(record, h)
    BY SameCardinality DEF Uptime!OfflineIsOutages, Listed, OpenPart
<1>1. SoundRecord(record, born)
    BY UptimeSound
<1>2. Cardinality(record.outages) \in Nat /\ MaxOutages \in Nat
    BY <1>1, FS_CardinalityType, UptimeAssumption DEF SoundRecord
<1> QED BY <1>1, <1>2 DEF SoundRecord, Counts

LEMMA LastAreKept ==
  ASSUME SoundRecord(record, born), record.at <= uptimeTick, uptimeTick \in Nat,
         NEW n \in 0..KeepHours
  PROVE  /\ Uptime!LastHours(n) \in SUBSET Uptime!Retained(record)
         /\ Uptime!LastHours(n) \in SUBSET Uptime!Hour
         /\ Uptime!LastHours(n) \in SUBSET Nat
         /\ IsFiniteSet(Uptime!LastHours(n))
<1>1. /\ Uptime!HourOf(record.at) \in Int /\ Uptime!HourOf(uptimeTick) \in Int
      /\ Uptime!HourOf(record.at) <= Uptime!HourOf(uptimeTick)
      /\ KeepHours \in Nat
    BY HoursPass, UptimeAssumption DEF SoundRecord
<1>2. Uptime!LastHours(n) \in SUBSET Uptime!Hour
    BY DEF Uptime!LastHours
<1>3. Uptime!LastHours(n) \in SUBSET Nat /\ IsFiniteSet(Uptime!LastHours(n))
    BY <1>2, HoursFinite, FS_Subset
<1>4. \A h \in Uptime!LastHours(n) : h > Uptime!HourOf(uptimeTick) - n
    BY <1>1, <1>3 DEF Uptime!LastHours
<1>5. \A h \in Uptime!LastHours(n) : h \in Uptime!Retained(record)
    BY <1>1, <1>2, <1>3, <1>4 DEF Uptime!Retained
<1> QED BY <1>2, <1>3, <1>5

(* Between two probes the time since the last one is shown as that found.  *)
LEMMA ViewProjects ==
  ASSUME SoundRecord(record, born), record.at <= uptimeTick, uptimeTick \in Nat,
         NEW h \in Uptime!Retained(record)
  PROVE  LET p == Uptime!Projected(record)
         IN  /\ p.online[h] + p.offline[h] = Uptime!Part(born, uptimeTick, h)
             /\ p.offline[h] \in Int
             /\ Cardinality(record.outages) < MaxOutages =>
                  p.offline[h] =
                    Listed(record.outages, h)
                    + IF record.ok = "yes" THEN 0 ELSE Uptime!Part(record.open, uptimeTick, h)
<1> DEFINE p == Uptime!Projected(record)
           d == Uptime!Part(record.at, uptimeTick, h)
<1>1. /\ record \in RecordType /\ IsFiniteSet(record.outages)
      /\ record.outages \in SUBSET Outage
      /\ record.at \in Nat /\ born \in Nat /\ born <= record.at /\ record.ok \in {"yes", "no"}
      /\ (record.ok = "no" <=> record.open # Uptime!None)
      /\ record.online \in [Uptime!Hour -> Int] /\ record.offline \in [Uptime!Hour -> Int]
      /\ record.open # Uptime!None => record.open \in Nat /\ record.open <= record.at
      /\ Uptime!None = -1 /\ Counts(record, born, h)
    BY DEF SoundRecord, RecordType, Uptime!None
<1>2. h \in Uptime!Hour /\ h \in Nat
    BY HoursFinite DEF Uptime!Retained
<1>3. /\ Uptime!AddDuration(record.online, record.at, uptimeTick)[h] = record.online[h] + d
      /\ Uptime!AddDuration(record.offline, record.at, uptimeTick)[h] = record.offline[h] + d
      /\ record.online[h] \in Int /\ record.offline[h] \in Int
  <2>1. record.at \in Int /\ uptimeTick \in Int
      BY <1>1
  <2> QED BY <1>1, <1>2, <2>1, DurationAdded
<1>4. \A x, y, z \in Int : x <= y /\ y <= z =>
          Uptime!Part(x, z, h) = Uptime!Part(x, y, h) + Uptime!Part(y, z, h)
  <2> SUFFICES ASSUME NEW x \in Int, NEW y \in Int, NEW z \in Int, x <= y, y <= z
               PROVE  Uptime!Part(x, z, h) = Uptime!Part(x, y, h) + Uptime!Part(y, z, h)
      OBVIOUS
  <2> QED BY <1>2, PartsMeet
<1>10. \A x, y \in Int : Uptime!Part(x, y, h) \in Nat
    BY <1>2, PartsAdd
<1>5. /\ Uptime!Part(born, uptimeTick, h) = Uptime!Part(born, record.at, h) + d
      /\ Uptime!Part(born, record.at, h) \in Nat /\ d \in Nat
  <2>1. born \in Int /\ record.at \in Int /\ uptimeTick \in Int
      BY <1>1
  <2> QED BY <1>1, <1>4, <1>10, <2>1
<1>6. /\ record.online[h] + record.offline[h] = Uptime!Part(born, record.at, h)
      /\ Cardinality(record.outages) < MaxOutages =>
            record.offline[h] = Listed(record.outages, h) + OpenPart(record, h)
  <2>1. Cardinality(record.outages) \in Nat /\ MaxOutages \in Nat
      BY <1>1, FS_CardinalityType, UptimeAssumption
  <2> QED BY <1>1, <2>1 DEF Counts
<1>7. Listed(record.outages, h) \in Int
    BY <1>1, <1>2, ListedTotal
<1>8. CASE record.ok = "yes"
  <2>1. p = [record EXCEPT !.online = Uptime!AddDuration(record.online, record.at, uptimeTick)]
      BY <1>1, <1>8 DEF Uptime!Projected, Uptime!Booked
  <2>2. p.online = Uptime!AddDuration(record.online, record.at, uptimeTick)
        /\ p.offline = record.offline
      BY <1>1, <2>1 DEF RecordType
  <2>3. OpenPart(record, h) = 0
      BY <1>1, <1>8 DEF OpenPart
  <2> HIDE DEF p, d
  <2>4. p.online[h] = record.online[h] + d /\ p.offline[h] = record.offline[h]
      BY <1>3, <2>2
  <2> QED BY <1>3, <1>5, <1>6, <1>7, <1>8, <2>3, <2>4 DEF p
<1>9. CASE record.ok = "no"
  <2>1. p = [record EXCEPT !.offline = Uptime!AddDuration(record.offline, record.at, uptimeTick)]
      BY <1>1, <1>9 DEF Uptime!Projected, Uptime!Booked
  <2>2. p.offline = Uptime!AddDuration(record.offline, record.at, uptimeTick)
        /\ p.online = record.online
      BY <1>1, <2>1 DEF RecordType
  <2>3. OpenPart(record, h) = Uptime!Part(record.open, record.at, h)
      BY <1>1, <1>9 DEF OpenPart
  <2>4. /\ Uptime!Part(record.open, uptimeTick, h) = Uptime!Part(record.open, record.at, h) + d
        /\ Uptime!Part(record.open, record.at, h) \in Nat
    <3>1. record.open \in Int /\ record.at \in Int /\ uptimeTick \in Int
          /\ record.open <= record.at
        BY <1>1, <1>9
    <3> QED BY <1>4, <1>10, <3>1
  <2> HIDE DEF p, d
  <2>5. p.offline[h] = record.offline[h] + d /\ p.online[h] = record.online[h]
      BY <1>3, <2>2
  <2> QED BY <1>3, <1>5, <1>6, <1>7, <1>9, <2>3, <2>4, <2>5 DEF p
<1> QED BY <1>1, <1>8, <1>9

LEMMA ViewAgrees == UptimeInv => Uptime!ViewAddsUp
<1> SUFFICES ASSUME UptimeInv, up, record.at # Uptime!None PROVE Uptime!ViewAddsUp
    BY DEF Uptime!ViewAddsUp
<1> DEFINE H == Uptime!LastHours(DayHours)
           D == Uptime!LastHours(DisplayHours)
           p == Uptime!Projected(record)
           panel == Uptime!View(record)
           S == record.outages
<1>1. /\ SoundRecord(record, born) /\ record.at <= uptimeTick /\ uptimeTick \in Nat
      /\ DayHours \in 0..KeepHours /\ DisplayHours \in 0..KeepHours
    BY UptimeSound, UptimeAssumption
<1>2. /\ H \in SUBSET Uptime!Retained(record) /\ H \in SUBSET Nat /\ IsFiniteSet(H)
      /\ D \in SUBSET Uptime!Retained(record)
  <2>1. H \in SUBSET Uptime!Retained(record) /\ H \in SUBSET Nat /\ IsFiniteSet(H)
      BY <1>1, LastAreKept
  <2>2. D \in SUBSET Uptime!Retained(record)
      BY <1>1, LastAreKept
  <2> QED BY <2>1, <2>2
<1>3. /\ IsFiniteSet(S) /\ S \in SUBSET Outage
      /\ record.ok \in {"yes", "no"} /\ (record.ok = "no" <=> record.open # Uptime!None)
      /\ record.open # Uptime!None => record.open \in Nat /\ record.open <= record.at
      /\ record.at \in Nat /\ Uptime!None = -1
    BY <1>1 DEF SoundRecord, RecordType, Uptime!None
<1>4. /\ DOMAIN panel.hours = D
      /\ \A h \in D : panel.hours[h].online = p.online[h] /\ panel.hours[h].offline = p.offline[h]
      /\ panel.offline = Total(p.offline, H)
      /\ panel.current = Uptime!CurrentOutage(record)
    BY DEF Uptime!View, Total, MapThenSumSet, MapThenFoldSet,
           Uptime!MapThenSumSet, Uptime!MapThenFoldSet
<1>5. Uptime!CurrentOutage(record) =
          IF record.ok = "yes" THEN Uptime!None ELSE uptimeTick - record.open
    BY <1>3 DEF Uptime!CurrentOutage
<1> HIDE DEF panel
<1>6. ASSUME NEW h \in DOMAIN panel.hours
      PROVE  panel.hours[h].online + panel.hours[h].offline = Uptime!Part(born, uptimeTick, h)
    BY <1>1, <1>2, <1>4, ViewProjects
<1>7. ASSUME Cardinality(S) < MaxOutages
      PROVE  panel.offline = AllInHours(S, H)
                + IF panel.current = Uptime!None THEN 0
                  ELSE InHours(uptimeTick - panel.current, uptimeTick, H)
  <2> DEFINE listed == [h \in H |-> Listed(S, h)]
             running == IF record.ok = "yes" THEN [h \in Nat |-> 0]
                        ELSE PartsOf(record.open, uptimeTick)
  <2>1. \A h \in H : listed[h] = Listed(S, h) /\ listed[h] \in Int
      BY <1>2, <1>3, ListedTotal
  <2>2. \A h \in H : running[h] \in Int
    <3>1. CASE record.ok = "yes"
        BY <1>2, <3>1
    <3>2. CASE record.ok = "no"
      <4>2. record.open \in Int /\ uptimeTick \in Int
          BY <1>1, <1>3, <3>2
      <4>1. \A h \in Nat : Uptime!Part(record.open, uptimeTick, h) \in Nat
          BY <4>2, PartsAdd
      <4> QED BY <1>2, <3>2, <4>1 DEF PartsOf
    <3> QED BY <1>3, <3>1, <3>2
  <2>3. ASSUME NEW h \in H PROVE p.offline[h] = listed[h] + running[h]
    <3>1. p.offline[h] = Listed(S, h)
              + IF record.ok = "yes" THEN 0 ELSE Uptime!Part(record.open, uptimeTick, h)
        BY <1>1, <1>2, <1>7, ViewProjects
    <3>2. running[h] = IF record.ok = "yes" THEN 0 ELSE Uptime!Part(record.open, uptimeTick, h)
        BY <1>2 DEF PartsOf
    <3> QED BY <2>1, <3>1, <3>2
  <2> HIDE DEF listed, running, p, H, S
  <2>4. Total(p.offline, H) = Total(listed, H) + Total(running, H)
      BY <1>2, <2>1, <2>2, <2>3, TotalPlus
  <2>5. Total(listed, H) = AllInHours(S, H)
      BY <1>2, <1>3, <2>1, ListedSwapped
  <2>6. CASE record.ok = "yes"
    <3>1. \A h \in H : running[h] = 0
        BY <1>2, <2>6 DEF running
    <3>2. Total(running, H) = 0
        BY <1>2, <3>1, TotalZero
    <3>3. Total(listed, H) \in Int
        BY <1>2, <2>1, TotalInt
    <3> QED BY <1>4, <1>5, <2>4, <2>5, <2>6, <3>2, <3>3
  <2>7. CASE record.ok = "no"
    <3>1. running = PartsOf(record.open, uptimeTick)
        BY <2>7 DEF running
    <3>2. record.open \in Int /\ uptimeTick \in Int /\ record.open <= uptimeTick
        BY <1>1, <1>3, <2>7
    <3>3. InHours(record.open, uptimeTick, H) = Total(PartsOf(record.open, uptimeTick), H)
        BY <1>2, <3>2, InHoursTotal
    <3>4. Total(running, H) = InHours(record.open, uptimeTick, H)
        BY <3>1, <3>3
    <3>5. panel.current # Uptime!None /\ uptimeTick - panel.current = record.open
        BY <1>3, <1>4, <1>5, <2>7, <3>2
    <3>6. InHours(uptimeTick - panel.current, uptimeTick, H) = InHours(record.open, uptimeTick, H)
        BY <3>5
    <3> QED BY <1>4, <2>4, <2>5, <3>4, <3>5, <3>6
  <2> QED BY <1>3, <2>6, <2>7
<1>8. Cardinality(S) < MaxOutages <=> Uptime!Cardinality(S) < MaxOutages
    BY SameCardinality
<1> QED BY <1>6, <1>7, <1>8 DEF Uptime!ViewAddsUp, panel, AllInHours, InHours

(* server_uptime.py:147-204: over sessions, crashes and restarts the hours *)
(* of the record have the time it has seen, their offline time is that of  *)
(* the outages, and what the panel shows agrees.                           *)
THEOREM UptimeAddsUp == ServicesSpec => []RecordAddsUp
<1> DEFINE Inv == service = "uptime" => UptimeInv
<1>1. ServicesInit => Inv
    BY UptimeInit DEF ServicesInit
<1>2. Inv /\ [ServicesNext]_all => Inv'
    BY UptimeFrame, UptimeStep, ServiceStays
<1>3. Inv => RecordAddsUp
    BY HoursAgree, OutagesAgree, ViewAgrees DEF RecordAddsUp, Uptime!RecordAddsUp
<1> QED BY <1>1, <1>2, <1>3, PTL DEF ServicesSpec

----------------------------------------------------------------------------
(* The types of what these services keep.  They hold because the counts are *)
(* bounded, by the clock, by the acceptances and by the blocks there are.  *)

(* No probe is later than the clock, and a server that is down has no      *)
(* record.                                                                 *)
UptimeBounds ==
  /\ uptimeTick \in 0..LastProbe
  /\ born \in Uptime!None..uptimeTick
  /\ ~up => record = Uptime!Empty

LEMMA UptimeBoundsStep == UptimeBounds /\ UptimeInv /\ [Uptime!Next]_Uptime!vars => UptimeBounds'
<1> SUFFICES ASSUME UptimeBounds, UptimeInv, [Uptime!Next]_Uptime!vars PROVE UptimeBounds'
    OBVIOUS
<1>0. uptimeTick \in Nat /\ LastProbe \in Nat /\ Uptime!None = -1
    BY UptimeAssumption DEF UptimeInv, Uptime!None
<1> USE DEF UptimeBounds
<1>1. ASSUME NEW ok \in BOOLEAN, Uptime!RecordProbe(ok) PROVE UptimeBounds'
    BY <1>0, <1>1 DEF Uptime!RecordProbe
<1>2. CASE Uptime!Load
    BY <1>0, <1>2 DEF Uptime!Load
<1>3. CASE Uptime!Leave
    BY <1>0, <1>3 DEF Uptime!Leave
<1>4. CASE Uptime!Pass
    BY <1>0, <1>4 DEF Uptime!Pass
<1>5. CASE UNCHANGED Uptime!vars
    BY <1>5 DEF Uptime!vars
<1> QED BY <1>1, <1>2, <1>3, <1>4, <1>5 DEF Uptime!Next

LEMMA UptimeTypes == UptimeInv /\ UptimeBounds => Uptime!TypeOK
<1> SUFFICES ASSUME UptimeInv, UptimeBounds PROVE Uptime!TypeOK
    OBVIOUS
<1>0. /\ uptimeTick \in Nat /\ LastProbe \in Nat /\ Uptime!None = -1 /\ uptimeTick <= LastProbe
      /\ MaxOutages \in Nat
    BY UptimeAssumption DEF UptimeInv, UptimeBounds, Uptime!None
<1>1. uptimeTick \in 0..LastProbe /\ born \in Uptime!None..LastProbe /\ {up, uptimeTorn} \subseteq BOOLEAN
    BY <1>0 DEF UptimeInv, UptimeBounds
<1>2. /\ record.ok \in {"unknown", "yes", "no"} /\ Cardinality(record.outages) <= MaxOutages
      /\ {record.at, record.open} \subseteq Uptime!None..LastProbe
  <2>1. CASE record = Uptime!Empty
    <3>1. /\ record.ok = "unknown" /\ record.outages = {}
          /\ record.at = Uptime!None /\ record.open = Uptime!None
        BY <2>1 DEF Uptime!Empty
    <3>2. Cardinality({}) = 0
        BY FS_EmptySet
    <3> QED BY <1>0, <3>1, <3>2
  <2>2. CASE SoundRecord(record, born) /\ Cardinality(record.outages) <= MaxOutages /\ record.at <= uptimeTick
    <3>1. /\ record.at \in Nat /\ record.ok \in {"unknown", "yes", "no"}
          /\ record.open \in Nat \cup {Uptime!None}
          /\ record.open # Uptime!None => record.open <= record.at
        BY <2>2 DEF SoundRecord, RecordType
    <3> QED BY <1>0, <2>2, <3>1
  <2> QED BY <2>1, <2>2 DEF UptimeInv, UptimeBounds, KeptRecord
<1> QED BY <1>1, <1>2, SameCardinality DEF Uptime!TypeOK

LEMMA UptimeTyped == ServicesSpec => [](service = "uptime" => Uptime!TypeOK)
<1> DEFINE Inv == service = "uptime" => UptimeInv /\ UptimeBounds
<1>1. ServicesInit => Inv
  <2>1. Uptime!Init => UptimeBounds
      BY UptimeAssumption DEF Uptime!Init, UptimeBounds, Uptime!None
  <2> QED BY <2>1, UptimeInit DEF ServicesInit
<1>2. Inv /\ [ServicesNext]_all => Inv'
    BY UptimeFrame, UptimeStep, UptimeBoundsStep, ServiceStays
<1>3. Inv => (service = "uptime" => Uptime!TypeOK)
    BY UptimeTypes
<1> QED BY <1>1, <1>2, <1>3, PTL DEF ServicesSpec

(* The store has a row of an acceptance at most: of one of the live path   *)
(* only when the main thread has recorded it.                              *)
RowsBound ==
  /\ accepted <= MaxAccepts
  /\ main.at = "store" => main.live
  /\ main.at # "down" /\ main.live => main.due = IF main.at = "count" THEN 1 ELSE 0
  /\ rows + (IF main.live /\ main.at \in {"count", "store"} THEN 1 ELSE 0) <= accepted

LEMMA RowsBoundStep ==
  ReportInv /\ CountInv /\ RowsBound /\ [Report!Next]_Report!vars => RowsBound'
<1> SUFFICES ASSUME ReportInv, CountInv, RowsBound, [Report!Next]_Report!vars PROVE RowsBound'
    OBVIOUS
<1>0. /\ main \in MainType /\ rows \in Nat /\ accepted \in Nat /\ MaxAccepts \in Nat
      /\ main.at = "loop" => main.due = 0
      /\ main.due \in Nat /\ main.live \in BOOLEAN
    BY BoundsAssumption DEF ReportInv, ReportTypes, CountInv, CountTypes, MainType
<1> USE DEF RowsBound, MainType
<1>1. CASE Report!AcceptLive
    BY <1>0, <1>1 DEF Report!AcceptLive
<1>2. ASSUME NEW n \in 1..2, Report!AcceptFlush(n) PROVE RowsBound'
    BY <1>0, <1>2 DEF Report!AcceptFlush
<1>3. CASE Report!RecordAccept
    BY <1>0, <1>3 DEF Report!RecordAccept
<1>4. CASE Report!RecordDirectSubmit
    BY <1>0, <1>4 DEF Report!RecordDirectSubmit, Report!Goes
<1>5. CASE Report!ReportAccept
    BY <1>0, <1>5 DEF Report!ReportAccept, Report!Goes
<1>6. CASE Report!ReportHoldings
    BY <1>0, <1>6 DEF Report!ReportHoldings
<1>7. CASE Report!Reported
    BY <1>0, <1>7 DEF Report!Reported, Report!Goes
<1>8. CASE Report!Backfill
    BY <1>0, <1>8 DEF Report!Backfill
<1>9. CASE Report!End
    BY <1>0, <1>9 DEF Report!End, Report!Goes
<1>10. CASE Report!Start
    BY <1>0, <1>10 DEF Report!Start, Report!NewMain
<1>11. CASE UNCHANGED <<accepted, rows, main>>
    BY <1>11
<1>12. ASSUME Report!Take \/ Report!Rollover \/ (\E p \in Report!Producer : Report!Put(p) \/ Report!Evict(p))
              \/ (\E received \in BOOLEAN : Report!Post(received)) \/ UNCHANGED Report!vars
       PROVE  UNCHANGED <<accepted, rows, main>>
    BY <1>12 DEF Report!Take, Report!Rollover, Report!Put, Report!Evict, Report!Post, Report!vars
<1> QED BY <1>1, <1>2, <1>3, <1>4, <1>5, <1>6, <1>7, <1>8, <1>9, <1>10, <1>11, <1>12 DEF Report!Next

LEMMA QueueBounded ==
  ReportInv /\ Len(jobs) <= QueueMax /\ [Report!Next]_Report!vars => Len(jobs)' <= QueueMax
<1> SUFFICES ASSUME ReportInv, Len(jobs) <= QueueMax, [Report!Next]_Report!vars
             PROVE  Len(jobs)' <= QueueMax
    OBVIOUS
<1>0. jobs \in Seq(JobType) /\ Len(jobs) \in Nat /\ QueueMax \in Nat
    BY BoundsAssumption DEF ReportInv, ReportTypes
<1>1. \/ jobs' = jobs
      \/ jobs # <<>> /\ jobs' = Tail(jobs)
      \/ jobs' = <<>>
      \/ \E job : Len(jobs) < QueueMax /\ jobs' = Append(jobs, job)
  <2>1. ASSUME NEW p \in Report!Producer, Report!Put(p)
        PROVE jobs' = jobs \/ \E job : Len(jobs) < QueueMax /\ jobs' = Append(jobs, job)
      BY <2>1 DEF Report!Put
  <2>2. ASSUME NEW p \in Report!Producer, Report!Evict(p)
        PROVE jobs' = jobs \/ (jobs # <<>> /\ jobs' = Tail(jobs))
      BY <2>2 DEF Report!Evict
  <2>3. CASE Report!Take
      BY <2>3 DEF Report!Take
  <2>4. CASE Report!End
      BY <2>4 DEF Report!End
  <2>5. ASSUME \/ Report!AcceptLive \/ Report!RecordAccept \/ Report!RecordDirectSubmit
               \/ Report!ReportAccept \/ Report!ReportHoldings \/ Report!Reported \/ Report!Backfill
               \/ Report!Start \/ Report!Rollover \/ (\E n \in 1..2 : Report!AcceptFlush(n))
               \/ (\E received \in BOOLEAN : Report!Post(received)) \/ UNCHANGED Report!vars
        PROVE  jobs' = jobs
      BY <2>5 DEF Report!AcceptLive, Report!RecordAccept, Report!RecordDirectSubmit,
                  Report!ReportAccept, Report!ReportHoldings, Report!Reported, Report!Backfill,
                  Report!Start, Report!Rollover, Report!AcceptFlush, Report!Post, Report!vars
  <2> QED BY <2>1, <2>2, <2>3, <2>4, <2>5 DEF Report!Next
<1>2. CASE jobs' = jobs
    BY <1>2
<1>3. CASE jobs # <<>> /\ jobs' = Tail(jobs)
    BY <1>0, <1>3
<1>4. CASE jobs' = <<>>
    BY <1>0, <1>4
<1>5. ASSUME NEW job, Len(jobs) < QueueMax, jobs' = Append(jobs, job) PROVE Len(jobs)' <= QueueMax
    BY <1>0, <1>5
<1> QED BY <1>1, <1>2, <1>3, <1>4, <1>5

(* What is counted, in the hands of a session or not, has been accepted.   *)
CountedBound == Report!Counted(days) <= accepted

LEMMA CountedBoundStep ==
  ReportInv /\ CountInv /\ CountedBound /\ [Report!Next]_Report!vars => CountedBound'
<1> SUFFICES ASSUME ReportInv, CountInv, CountedBound, [Report!Next]_Report!vars PROVE CountedBound'
    OBVIOUS
<1>1. CASE main'.at # "down"
  <2>1. CountInv'
      BY CountStep
  <2>2. /\ Report!Counted(days)' + main'.due <= accepted'
        /\ main'.due \in Nat /\ accepted' \in Nat /\ days' \in [Report!Day -> Nat]
      BY <1>1, <2>1 DEF CountInv, CountTypes, MainType
  <2>3. Report!Counted(days') \in Int /\ Report!Counted(days') = Report!Counted(days)'
    <3>1. Report!Counted(days') \in Int
        BY <2>2, CountedInt
    <3>2. Report!Counted(days') = Report!Counted(days)'
        OBVIOUS
    <3> QED BY <3>1, <3>2
  <2> QED BY <2>2, <2>3 DEF CountedBound
<1>2. CASE main'.at = "down"
  <2>0. main \in MainType
      BY DEF CountInv, CountTypes
  <2>1. UNCHANGED <<days, accepted>>
    <3>1. /\ ~ Report!AcceptLive /\ ~ \E n \in 1..2 : Report!AcceptFlush(n)
          /\ ~ Report!RecordAccept /\ ~ Report!Start
      <4>1. ~ Report!AcceptLive
          BY <1>2, <2>0 DEF MainType, Report!AcceptLive
      <4>2. ASSUME NEW n \in 1..2 PROVE ~ Report!AcceptFlush(n)
          BY <1>2, <2>0 DEF MainType, Report!AcceptFlush
      <4>3. ~ Report!RecordAccept
          BY <1>2, <2>0 DEF MainType, Report!RecordAccept
      <4>4. ~ Report!Start
          BY <1>2, <2>0 DEF MainType, Report!Start, Report!NewMain
      <4> QED BY <4>1, <4>2, <4>3, <4>4
    <3>2. ASSUME \/ Report!RecordDirectSubmit
                 \/ Report!ReportAccept \/ Report!ReportHoldings \/ Report!Reported
                 \/ Report!Backfill \/ Report!Rollover \/ Report!Take \/ Report!End
                 \/ (\E p \in Report!Producer : Report!Put(p) \/ Report!Evict(p))
                 \/ (\E received \in BOOLEAN : Report!Post(received)) \/ UNCHANGED Report!vars
          PROVE  UNCHANGED <<days, accepted>>
        BY <3>2 DEF Report!RecordDirectSubmit, Report!End, Report!Take, Report!Put, Report!Evict,
                    Report!ReportAccept, Report!ReportHoldings, Report!Reported, Report!Backfill,
                    Report!Rollover, Report!Post, Report!vars
    <3> QED BY <3>1, <3>2 DEF Report!Next
  <2> QED BY <2>1 DEF CountedBound
<1> QED BY <1>1, <1>2

LEMMA ReportTyped == ServicesSpec => [](service = "reporting" => Report!TypeOK)
<1> DEFINE Bounds == RowsBound /\ Len(jobs) <= QueueMax /\ CountedBound
           Inv == service = "reporting" => ReportInv /\ CountInv /\ Bounds
<1>1. Report!Init => Bounds
  <2> SUFFICES ASSUME Report!Init PROVE Bounds
      OBVIOUS
  <2>1. RowsBound
      BY BoundsAssumption DEF Report!Init, Report!NewMain, RowsBound
  <2>2. Len(jobs) <= QueueMax
    <3>1. jobs = <<>>
        BY DEF Report!Init
    <3>2. Len(jobs) = 0 /\ QueueMax \in Nat
        BY <3>1, BoundsAssumption
    <3> QED BY <3>2
  <2>3. CountedBound
    <3>1. Report!Counted(days) = 0 /\ accepted = 0
        BY NoneCounted DEF Report!Init
    <3> QED BY <3>1 DEF CountedBound
  <2> QED BY <2>1, <2>2, <2>3
<1>2. ReportInv /\ CountInv /\ Bounds /\ [Report!Next]_Report!vars => Bounds'
  <2> SUFFICES ASSUME ReportInv, CountInv, Bounds, [Report!Next]_Report!vars PROVE Bounds'
      OBVIOUS
  <2>1. RowsBound'
      BY RowsBoundStep
  <2>2. (Len(jobs) <= QueueMax)'
      BY QueueBounded
  <2>3. CountedBound'
      BY CountedBoundStep
  <2> QED BY <2>1, <2>2, <2>3
<1>3. ReportInv /\ CountInv /\ Bounds => Report!TypeOK
  <2> SUFFICES ASSUME ReportInv, CountInv, Bounds PROVE Report!TypeOK
      OBVIOUS
  <2>1. /\ day \in Report!Day /\ accepted \in Nat /\ rows \in Nat /\ MaxAccepts \in Nat
        /\ main.at \in {"loop", "count", "store", "report", "reporting", "down"}
      BY BoundsAssumption DEF ReportInv, ReportTypes, CountInv, CountTypes, MainType
  <2>2. accepted \in 0..MaxAccepts /\ rows \in 0..accepted
      BY <2>1 DEF RowsBound
  <2> QED BY <2>1, <2>2 DEF Report!TypeOK, CountedBound
<1> HIDE DEF Bounds
<1>4. ServicesInit => Inv
    BY <1>1, ReportInit, CountInit DEF ServicesInit
<1>5. Inv /\ [ServicesNext]_all => Inv'
    BY <1>2, ReportFrame, ReportStep, CountStep, ServiceStays
<1>6. Inv => (service = "reporting" => Report!TypeOK)
    BY <1>3
<1> QED BY <1>4, <1>5, <1>6, PTL DEF ServicesSpec

(* What the workers of a table found, whosever they are.                   *)
AllFound(table) == Total(FoundOf(table), DOMAIN table)

LEMMA FoundAll ==
  ASSUME NEW table, Table(table)
  PROVE  /\ IsFiniteSet(DOMAIN table) /\ AllFound(table) \in Nat
         /\ \A w \in DOMAIN table : FoundOf(table)[w] \in Nat
         /\ \A a : Snaps!Found(table, a) \in Nat /\ Snaps!Found(table, a) <= AllFound(table)
<1> DEFINE D == DOMAIN table
           f == FoundOf(table)
<1>1. IsFiniteSet(D)
    BY DEF Table
<1>2. \A w \in D : f[w] \in Nat
    BY DEF Table, RowType, FoundOf
<1>3. AllFound(table) = Total(f, D)
    BY DEF AllFound
<1>4. ASSUME NEW a PROVE Snaps!Found(table, a) \in Nat /\ Snaps!Found(table, a) <= AllFound(table)
  <2> DEFINE S == WorkersOf(table, a)
  <2>1. S \in SUBSET D
      BY DEF WorkersOf
  <2>2. Snaps!Found(table, a) = Total(f, S) /\ Snaps!Found(table, a) \in Nat
      BY FoundTotal, FoundNat
  <2> HIDE DEF S, D, f
  <2>3. \A w \in S : f[w] \in Nat /\ f[w] <= f[w]
      BY <1>2, <2>1
  <2>4. Total(f, S) <= Total(f, D)
      BY <1>1, <1>2, <2>1, <2>3, TotalGrows
  <2> QED BY <1>3, <2>2, <2>4
<1> HIDE DEF D, f
<1>5. Total(f, D) \in Nat
    BY <1>1, <1>2, TotalAtLeast
<1> QED BY <1>1, <1>2, <1>3, <1>4, <1>5 DEF D, f

(* A table that found in all what another did, and one block more perhaps. *)
LEMMA AllFoundSame ==
  ASSUME NEW table, Table(table), NEW more, DOMAIN more = DOMAIN table,
         \A v \in DOMAIN table : more[v].blocks = table[v].blocks
  PROVE  AllFound(more) = AllFound(table)
<1>1. IsFiniteSet(DOMAIN table) /\ \A v \in DOMAIN table : FoundOf(table)[v] \in Int
    BY FoundAll
<1>2. \A v \in DOMAIN table : FoundOf(table)[v] = FoundOf(more)[v]
    BY DEF FoundOf
<1> QED BY <1>1, <1>2, TotalAlike DEF AllFound

LEMMA AllFoundJoined ==
  ASSUME NEW table, Table(table), NEW w, w \notin DOMAIN table, NEW more,
         DOMAIN more = (DOMAIN table) \cup {w}, more[w].blocks = 0,
         \A v \in DOMAIN table : more[v].blocks = table[v].blocks
  PROVE  AllFound(more) = AllFound(table)
<1> DEFINE D == DOMAIN table
           f == FoundOf(table)
           k == FoundOf(more)
<1>1. IsFiniteSet(D) /\ \A v \in D : f[v] \in Int
    BY FoundAll
<1>2. w \notin D /\ k[w] = 0 /\ \A v \in D : f[v] = k[v]
    BY DEF FoundOf
<1>3. AllFound(table) = Total(f, D) /\ AllFound(more) = Total(k, D \cup {w})
    BY DEF AllFound
<1> HIDE DEF D, f, k
<1>4. \A v \in D \cup {w} : k[v] \in Int
    BY <1>1, <1>2
<1>5. Total(k, D \cup {w}) = k[w] + Total(k, D)
    BY <1>1, <1>2, <1>4, TotalMore
<1>6. Total(f, D) = Total(k, D) /\ Total(f, D) \in Int
    BY <1>1, <1>2, TotalAlike, TotalInt
<1> QED BY <1>2, <1>3, <1>5, <1>6

LEMMA AllFoundMore ==
  ASSUME NEW table, Table(table), NEW w \in DOMAIN table, NEW more, DOMAIN more = DOMAIN table,
         more[w].blocks = table[w].blocks + 1,
         \A v \in DOMAIN table : v # w => more[v].blocks = table[v].blocks
  PROVE  AllFound(more) = AllFound(table) + 1
<1> DEFINE D == DOMAIN table
           f == FoundOf(table)
           k == FoundOf(more)
<1>1. IsFiniteSet(D) /\ (\A v \in D : f[v] \in Int) /\ f[w] \in Nat
    BY FoundAll
<1>2. w \in D /\ k[w] = f[w] + 1 /\ \A v \in D \ {w} : k[v] = f[v]
    BY DEF FoundOf
<1>3. AllFound(table) = Total(f, D) /\ AllFound(more) = Total(k, D)
    BY DEF AllFound
<1> HIDE DEF D, f, k
<1>4. Total(k, D) = Total(f, D) - f[w] + k[w]
    BY <1>1, <1>2, TotalChanged
<1>5. Total(f, D) \in Int
    BY <1>1, TotalInt
<1> QED BY <1>1, <1>2, <1>3, <1>4, <1>5

(* No more blocks are known of anyone than events happened.                *)
SnapBounds ==
  /\ events \in 0..MaxEvents
  /\ round.nth <= Snapshots
  /\ DOMAIN workerRow \subseteq Worker /\ DOMAIN committed.row \subseteq Worker
  /\ AllFound(workerRow) <= events /\ AllFound(committed.row) <= events
  /\ AllFound(round.seen) <= events
  /\ \A a \in Wallet : lastBlocks[a] <= events

LEMMA RowsBounded ==
  ASSUME SnapInv, SnapBounds, NEW w \in Worker,
         Snaps!Hear(w) \/ Snaps!FindBlock(w) \/ \E a \in Wallet \cup {NoWallet} : Snaps!Register(w, a)
  PROVE  SnapBounds'
<1> USE DEF SnapBounds
<1>0. /\ Table(workerRow) /\ workerRow \in [DOMAIN workerRow -> RowType]
      /\ Table(round.seen) /\ Table(committed.row)
      /\ round.nth \in Nat /\ events \in Nat
      /\ \A a \in Wallet : lastBlocks[a] \in Nat
    BY DEF SnapInv, SnapTypes, Table
<1>1. AllFound(workerRow) \in Nat /\ AllFound(round.seen) \in Nat
      /\ AllFound(committed.row) \in Nat
    BY <1>0, FoundAll
<1>2. /\ events < MaxEvents /\ events' = events + 1 /\ UNCHANGED <<lastBlocks, round, committed>>
    BY DEF Snaps!Hear, Snaps!FindBlock, Snaps!Register, Snaps!Event
<1>3. /\ DOMAIN workerRow' \subseteq Worker
      /\ AllFound(workerRow') = AllFound(workerRow) \/ AllFound(workerRow') = AllFound(workerRow) + 1
  <2>1. CASE Snaps!Hear(w)
    <3>1. /\ w \in DOMAIN workerRow /\ workerRow' = [workerRow EXCEPT ![w].online = TRUE]
        BY <2>1 DEF Snaps!Hear, Snaps!Known
    <3>2. /\ DOMAIN workerRow' = DOMAIN workerRow
          /\ \A v \in DOMAIN workerRow : workerRow'[v].blocks = workerRow[v].blocks
        BY <1>0, <3>1 DEF RowType
    <3> QED BY <1>0, <3>2, AllFoundSame
  <2>2. CASE Snaps!FindBlock(w)
    <3>1. /\ w \in DOMAIN workerRow /\ workerRow' = [workerRow EXCEPT ![w].blocks = @ + 1]
        BY <2>2 DEF Snaps!FindBlock, Snaps!Known
    <3>2. /\ DOMAIN workerRow' = DOMAIN workerRow
          /\ workerRow'[w].blocks = workerRow[w].blocks + 1
          /\ \A v \in DOMAIN workerRow : v # w => workerRow'[v].blocks = workerRow[v].blocks
        BY <1>0, <3>1 DEF RowType
    <3> QED BY <1>0, <3>1, <3>2, AllFoundMore
  <2>3. ASSUME NEW a \in Wallet \cup {NoWallet}, Snaps!Register(w, a)
        PROVE  DOMAIN workerRow' \subseteq Worker /\ AllFound(workerRow') = AllFound(workerRow)
    <3> DEFINE new == [wallet |-> a, online |-> TRUE,
                       blocks |-> IF w \in DOMAIN workerRow THEN workerRow[w].blocks ELSE 0]
               D == (DOMAIN workerRow) \cup {w}
    <3>1. workerRow' = [v \in D |-> IF v # w THEN workerRow[v] ELSE new]
        BY <2>3 DEF Snaps!Register, Snaps!Known
    <3>2. new.blocks = IF w \in DOMAIN workerRow THEN workerRow[w].blocks ELSE 0
        OBVIOUS
    <3> HIDE DEF new
    <3>3. /\ DOMAIN workerRow' = D /\ workerRow'[w] = new
          /\ \A v \in DOMAIN workerRow : workerRow'[v].blocks = workerRow[v].blocks
        BY <3>1, <3>2
    <3>4. CASE w \in DOMAIN workerRow
      <4>1. DOMAIN workerRow' = DOMAIN workerRow
          BY <3>3, <3>4
      <4> QED BY <1>0, <3>3, <4>1, AllFoundSame
    <3>5. CASE w \notin DOMAIN workerRow
      <4>1. workerRow'[w].blocks = 0
          BY <3>2, <3>3, <3>5
      <4>2. AllFound(workerRow') = AllFound(workerRow)
          BY <1>0, <3>3, <3>5, <4>1, AllFoundJoined
      <4> QED BY <3>3, <4>2
    <3> QED BY <3>4, <3>5
  <2> QED BY <2>1, <2>2, <2>3
<1>4. AllFound(workerRow)' = AllFound(workerRow')
    BY DEF AllFound, FoundOf
<1>5. /\ AllFound(round.seen)' = AllFound(round.seen) /\ round'.nth = round.nth
      /\ AllFound(committed.row)' = AllFound(committed.row) /\ committed'.row = committed.row
    BY <1>2 DEF AllFound, FoundOf
<1> QED BY <1>0, <1>1, <1>2, <1>3, <1>4, <1>5, BoundsAssumption

LEMMA SilenceBounded ==
  ASSUME SnapInv, SnapBounds, NEW w \in Worker, Snaps!FallSilent(w)
  PROVE  SnapBounds'
<1> USE DEF SnapBounds
<1>0. /\ Table(workerRow) /\ Table(committed.row) /\ Table(round.seen)
      /\ committed = [row |-> committed.row, chart |-> committed.chart]
      /\ events \in Nat /\ MaxEvents \in Nat /\ round.nth \in Nat
      /\ \A a \in Wallet : lastBlocks[a] \in Nat
    BY BoundsAssumption DEF SnapInv, SnapTypes
<1>1. /\ workerRow' = Snaps!Silenced(workerRow, w)
      /\ committed'.row = Snaps!Silenced(committed.row, w)
      /\ events < MaxEvents /\ events' = events + 1 /\ UNCHANGED <<lastBlocks, round>>
    BY <1>0 DEF Snaps!FallSilent, Snaps!Event
<1>2. /\ DOMAIN workerRow' = DOMAIN workerRow /\ Table(workerRow')
      /\ \A v \in DOMAIN workerRow : workerRow'[v].blocks = workerRow[v].blocks
      /\ DOMAIN committed'.row = DOMAIN committed.row /\ Table(committed'.row)
      /\ \A v \in DOMAIN committed.row : committed'.row[v].blocks = committed.row[v].blocks
    BY <1>0, <1>1, SilencedIs
<1>3. /\ AllFound(workerRow') = AllFound(workerRow)
      /\ AllFound(committed'.row) = AllFound(committed.row)
    BY <1>0, <1>2, AllFoundSame
<1>4. /\ AllFound(workerRow)' = AllFound(workerRow')
      /\ AllFound(committed.row)' = AllFound(committed'.row)
      /\ AllFound(round.seen)' = AllFound(round.seen)
    BY <1>1 DEF AllFound, FoundOf
<1>5. /\ AllFound(workerRow) \in Nat /\ AllFound(committed.row) \in Nat
      /\ AllFound(round.seen) \in Nat
    BY <1>0, FoundAll
<1> QED BY <1>0, <1>1, <1>2, <1>3, <1>4, <1>5

(* A round reads the table, or is over and has read none; what is shown    *)
(* gets kept, or what is kept gets shown.                                  *)
LEMMA RoundBounded ==
  ASSUME SnapInv, SnapBounds, events' \in {events, events + 1},
         workerRow' = workerRow \/ workerRow' = committed.row,
         committed'.row = committed.row \/ committed'.row = workerRow,
         events' <= MaxEvents, round'.nth <= Snapshots,
         round'.seen = round.seen \/ round'.seen = <<>> \/ round'.seen = workerRow,
         \A a \in Wallet : lastBlocks'[a] \in {0, lastBlocks[a], Snaps!Found(round.seen, a)}
  PROVE  SnapBounds'
<1> USE DEF SnapBounds
<1>0. /\ Table(workerRow) /\ Table(committed.row) /\ Table(round.seen) /\ events \in Nat
      /\ \A a \in Wallet : lastBlocks[a] \in Nat
    BY DEF SnapInv, SnapTypes
<1>1. /\ AllFound(workerRow) \in Nat /\ AllFound(round.seen) \in Nat
      /\ AllFound(committed.row) \in Nat
      /\ \A a \in Wallet : Snaps!Found(round.seen, a) \in Nat
                           /\ Snaps!Found(round.seen, a) <= AllFound(round.seen)
    BY <1>0, FoundAll
<1>2. AllFound(<<>>) = 0
  <2>1. DOMAIN <<>> = {}
      OBVIOUS
  <2> QED BY <2>1, TotalEmpty DEF AllFound
<1>3. /\ AllFound(round.seen)' = AllFound(round'.seen)
      /\ AllFound(workerRow)' = AllFound(workerRow')
      /\ AllFound(committed.row)' = AllFound(committed'.row)
    BY DEF AllFound, FoundOf
<1>4. /\ AllFound(round'.seen) \in {0, AllFound(round.seen), AllFound(workerRow)}
      /\ AllFound(workerRow') \in {AllFound(workerRow), AllFound(committed.row)}
      /\ AllFound(committed'.row) \in {AllFound(workerRow), AllFound(committed.row)}
    BY <1>2
<1>5. /\ AllFound(round'.seen) <= events' /\ AllFound(workerRow') <= events'
      /\ AllFound(committed'.row) <= events'
    BY <1>0, <1>1, <1>4
<1>6. \A a \in Wallet : lastBlocks'[a] <= events'
    BY <1>0, <1>1
<1>7. events' \in 0..MaxEvents
    BY <1>0, BoundsAssumption
<1> QED BY <1>3, <1>5, <1>6, <1>7

LEMMA SnapBoundsStep == SnapInv /\ SnapBounds /\ [Snaps!Next]_Snaps!vars => SnapBounds'
<1> SUFFICES ASSUME SnapInv, SnapBounds, [Snaps!Next]_Snaps!vars PROVE SnapBounds'
    OBVIOUS
<1>0. /\ SnapTypes /\ round.nth \in Nat /\ round.nth <= Snapshots /\ Snapshots \in Nat
      /\ round = [nth |-> round.nth, open |-> round.open, seen |-> round.seen,
                  left |-> round.left]
      /\ events \in 0..MaxEvents /\ events \in Nat /\ MaxEvents \in Nat
      /\ lastBlocks \in [Wallet -> Nat]
    BY BoundsAssumption DEF SnapInv, SnapTypes, SnapBounds
<1>1. Snaps!Over.nth = round.nth /\ Snaps!Over.seen = <<>>
    BY <1>0, OverIs
<1>2. CASE Snaps!Begin
  <2>1. /\ UNCHANGED <<workerRow, committed, lastBlocks, events>> /\ round.nth < Snapshots
        /\ round'.nth = round.nth + 1 /\ round'.seen = workerRow
      BY <1>2 DEF Snaps!Begin
  <2> QED BY <1>0, <2>1, RoundBounded
<1>3. CASE Snaps!Restart
  <2>1. /\ workerRow' = committed.row /\ UNCHANGED committed
        /\ round' = Snaps!Over /\ events' = events + 1 /\ events < MaxEvents
        /\ \A a \in Wallet : lastBlocks'[a] = 0
      BY <1>3 DEF Snaps!Restart, Snaps!Event
  <2> QED BY <1>0, <1>1, <2>1, RoundBounded
<1>4. ASSUME NEW a \in Wallet, Snaps!Insert(a) \/ Snaps!InsertFails(a) PROVE SnapBounds'
  <2>1. /\ UNCHANGED <<workerRow, committed>>
        /\ events' \in {events, events + 1} /\ events' <= MaxEvents
        /\ lastBlocks' = [lastBlocks EXCEPT ![a] = Snaps!Found(round.seen, a)]
        /\ round' = Snaps!Over \/ round' = [round EXCEPT !.left = @ \ {a}]
      BY <1>0, <1>4 DEF Snaps!Insert, Snaps!InsertFails, Snaps!Remember, Snaps!Event
  <2>2. round'.nth = round.nth /\ (round'.seen = <<>> \/ round'.seen = round.seen)
      BY <1>0, <1>1, <2>1
  <2>3. \A b \in Wallet : lastBlocks'[b] \in {0, lastBlocks[b], Snaps!Found(round.seen, b)}
      BY <1>0, <2>1
  <2> QED BY <1>0, <2>1, <2>2, <2>3, RoundBounded
<1>5. ASSUME NEW w \in Worker, Snaps!Hear(w) \/ Snaps!FindBlock(w) PROVE SnapBounds'
    BY <1>5, RowsBounded
<1>6. ASSUME NEW w \in Worker, NEW a \in Wallet \cup {NoWallet}, Snaps!Register(w, a) PROVE SnapBounds'
    BY <1>6, RowsBounded
<1>7. CASE UNCHANGED Snaps!vars
  <2>1. UNCHANGED <<workerRow, committed, lastBlocks, round, events>>
      BY <1>7 DEF Snaps!vars
  <2> QED BY <1>0, <2>1, RoundBounded
<1>8. ASSUME NEW w \in Worker, Snaps!FallSilent(w) PROVE SnapBounds'
    BY <1>8, SilenceBounded
<1>9. CASE Snaps!Clean
  <2>1. /\ UNCHANGED <<workerRow, committed, lastBlocks, events>> /\ round' = Snaps!Over
      BY <1>9 DEF Snaps!Clean
  <2> QED BY <1>0, <1>1, <2>1, RoundBounded
<1>10. CASE Snaps!Commit
  <2>1. UNCHANGED <<workerRow, lastBlocks, round, events>> /\ committed'.row = workerRow
      BY <1>10 DEF Snaps!Commit
  <2> QED BY <1>0, <2>1, RoundBounded
<1>11. CASE Snaps!Rollback
  <2>1. /\ workerRow' = committed.row /\ UNCHANGED <<committed, lastBlocks, round>>
        /\ events < MaxEvents /\ events' = events + 1
      BY <1>11 DEF Snaps!Rollback, Snaps!Event
  <2> QED BY <1>0, <2>1, RoundBounded
<1> QED BY <1>2, <1>3, <1>4, <1>5, <1>6, <1>7, <1>8, <1>9, <1>10, <1>11 DEF Snaps!Next

LEMMA SnapsTyped == ServicesSpec => [](service = "snapshots" => Snaps!TypeOK)
<1> DEFINE Inv == service = "snapshots" => SnapInv /\ SnapBounds
<1>1. Snaps!Init => SnapBounds
  <2> SUFFICES ASSUME Snaps!Init PROVE SnapBounds
      OBVIOUS
  <2>1. /\ workerRow = <<>> /\ committed.row = <<>>
        /\ round.seen = <<>> /\ round.nth = 0 /\ events = 0
        /\ \A a \in Wallet : lastBlocks[a] = 0
      BY DEF Snaps!Init
  <2>2. DOMAIN <<>> = {} /\ AllFound(<<>>) = 0
      BY TotalEmpty DEF AllFound
  <2> QED BY <2>1, <2>2, BoundsAssumption DEF SnapBounds
<1>2. SnapInv /\ SnapBounds => Snaps!TypeOK
  <2> SUFFICES ASSUME SnapInv, SnapBounds PROVE Snaps!TypeOK
      OBVIOUS
  <2>1. /\ events \in Nat /\ MaxEvents \in Nat /\ Snapshots \in Nat
        /\ events \in 0..MaxEvents /\ round.nth \in Nat /\ round.nth <= Snapshots
        /\ round.left \subseteq Wallet /\ lastBlocks \in [Wallet -> Nat]
      BY BoundsAssumption DEF SnapInv, SnapTypes, SnapBounds
  <2>2. \A table \in {workerRow, committed.row} :
            /\ DOMAIN table \subseteq Worker
            /\ \A w \in DOMAIN table : table[w].wallet \in Wallet \cup {NoWallet}
      BY DEF SnapInv, SnapTypes, SnapBounds, Table, RowType
  <2>3. \A a \in Wallet : lastBlocks[a] \in 0..MaxEvents
      BY <2>1 DEF SnapBounds
  <2> QED BY <2>1, <2>2, <2>3 DEF Snaps!TypeOK, SnapBounds
<1>3. ServicesInit => Inv
    BY <1>1, SnapInit DEF ServicesInit
<1>4. Inv /\ [ServicesNext]_all => Inv'
    BY SnapsFrame, SnapStep, SnapBoundsStep, ServiceStays
<1>5. Inv => (service = "snapshots" => Snaps!TypeOK)
    BY <1>2
<1> QED BY <1>3, <1>4, <1>5, PTL DEF ServicesSpec

----------------------------------------------------------------------------
(* The hit queue of the CPU backend *)

(* The workers that may still put a hit into the queue: those past the     *)
(* test of the stop event, and all while it is not set.                    *)
Able(w, s) ==
  {i \in Cpu!Id : w[i] \in {"hashing", "counting", "found"} \/ (~s /\ w[i] # "none")}

(* Between two stops the constructor and start() each add a worker to a    *)
(* lane; those added over a hit find the event set and put nothing.        *)
QueueInv ==
  /\ cpuPhase = "built" => ~stop /\ cpuQueue + Cardinality(Able(worker, stop)) <= cpuLanes
  /\ cpuPhase \in {"hit_count", "hit", "stopping"} => stop
  /\ cpuQueue + Cardinality(Able(worker, stop)) <= 2 * MaxLanes
  /\ cpuLock \in {"free", "held", "lost"}

CpuQueueInv == CpuInv /\ QueueInv

LEMMA SameCardinal == \A S : Cpu!Cardinality(S) = Cardinality(S)
<1> QED BY DEF Cpu!Cardinality, Cardinality

LEMMA WorkersFinite ==
  /\ IsFiniteSet(Cpu!Id) /\ Cardinality(Cpu!Id) = MaxLanes * MaxRounds
  /\ \A S \in SUBSET Cpu!Id : IsFiniteSet(S) /\ Cardinality(S) \in Nat
<1>1. IsFiniteSet(1..MaxLanes) /\ Cardinality(1..MaxLanes) = MaxLanes
    BY FS_Interval, CpuAssumption
<1>2. IsFiniteSet(1..MaxRounds) /\ Cardinality(1..MaxRounds) = MaxRounds
    BY FS_Interval, CpuAssumption
<1>3. IsFiniteSet(Cpu!Id) /\ Cardinality(Cpu!Id) = MaxLanes * MaxRounds
  <2> DEFINE L == 1..MaxLanes
             R == 1..MaxRounds
  <2>1. Cpu!Id = L \X R
      BY DEF Cpu!Id
  <2>2. IsFiniteSet(L) /\ Cardinality(L) = MaxLanes /\ IsFiniteSet(R) /\ Cardinality(R) = MaxRounds
      BY <1>1, <1>2
  <2> HIDE DEF L, R
  <2> QED BY <2>1, <2>2, FS_Product
<1>4. ASSUME NEW S \in SUBSET Cpu!Id PROVE IsFiniteSet(S)
    BY <1>3, FS_Subset
<1>5. ASSUME NEW S \in SUBSET Cpu!Id PROVE Cardinality(S) \in Nat
    BY <1>4, FS_CardinalityType
<1> QED BY <1>3, <1>4, <1>5

LEMMA QueueHolds == 2 * MaxLanes <= Cardinality(Cpu!Id)
<1>1. Cardinality(Cpu!Id) = MaxLanes * MaxRounds
    BY WorkersFinite
<1>2. MaxLanes \in Nat /\ MaxRounds \in Nat /\ 2 <= MaxRounds
    BY CpuAssumption
<1>3. MaxLanes * 2 <= MaxLanes * MaxRounds
    BY ONLY <1>2, Scaling
<1> QED BY <1>1, <1>2, <1>3

(* Fewer workers are able after a step that makes none.                    *)
LEMMA FewerAble ==
  ASSUME NEW S \in SUBSET Cpu!Id, NEW T \in SUBSET S
  PROVE  Cardinality(T) <= Cardinality(S)
<1> QED BY WorkersFinite, FS_Subset

(* At most a worker of each of n lanes is new.                             *)
LEMMA SpawnedAble ==
  ASSUME NEW w \in [Cpu!Id -> Stage], NEW n \in 1..MaxLanes, NEW s \in BOOLEAN
  PROVE  Cardinality(Able(Cpu!Spawned(w, n), s)) <= Cardinality(Able(w, s)) + n
<1> DEFINE first(l) == CHOOSE r \in 1..MaxRounds :
                     w[<<l, r>>] = "none" /\ \A q \in 1..(r - 1) : w[<<l, q>>] # "none"
           fresh_(l) == <<l, first(l)>>
           New == {fresh_(l) : l \in 1..n}
<1>1. Able(Cpu!Spawned(w, n), s) \subseteq Able(w, s) \cup New
  <2> SUFFICES ASSUME NEW i \in Able(Cpu!Spawned(w, n), s), i \notin Able(w, s)
               PROVE  i \in New
      OBVIOUS
  <2>1. i \in Cpu!Id /\ Cpu!Spawned(w, n)[i] # w[i]
      BY DEF Able
  <2>2. i[1] \in 1..MaxLanes /\ i = <<i[1], i[2]>>
      BY <2>1 DEF Cpu!Id
  <2>3. i[1] <= n /\ i[2] = first(i[1])
      BY <2>1 DEF Cpu!Spawned
  <2>4. i[1] \in 1..n
      BY <2>2, <2>3, CpuAssumption
  <2> QED BY <2>2, <2>3, <2>4
<1>2. IsFiniteSet(1..n) /\ Cardinality(1..n) = n
    BY FS_Interval, CpuAssumption
<1>3. IsFiniteSet(New) /\ Cardinality(New) <= n
  <2> DEFINE give == [l \in 1..n |-> fresh_(l)]
  <2>1. give \in Surjection(1..n, New)
      BY DEF Surjection
  <2> HIDE DEF give, New, fresh_
  <2> QED BY <2>1, <1>2, FS_Surjection
<1>4. IsFiniteSet(Able(w, s)) /\ Cardinality(Able(w, s)) \in Nat /\ Cardinality(New) \in Nat
    BY <1>3, WorkersFinite, FS_CardinalityType DEF Able
<1> HIDE DEF New
<1> DEFINE Both == Able(w, s) \cup New
           Common == Able(w, s) \cap New
<1>5. /\ IsFiniteSet(Both)
      /\ Cardinality(Both) = Cardinality(Able(w, s)) + Cardinality(New) - Cardinality(Common)
    BY <1>3, <1>4, FS_Union
<1>6. Cardinality(Common) \in Nat
    BY <1>4, FS_Intersection, FS_CardinalityType
<1> DEFINE Now == Able(Cpu!Spawned(w, n), s)
<1>7. Now \subseteq Both
    BY <1>1
<1>9. Cardinality(Now) \in Nat
    BY WorkersFinite DEF Able
<1> HIDE DEF Both, Now, Common
<1>8. Cardinality(Now) <= Cardinality(Both)
    BY <1>5, <1>7, FS_Subset
<1> QED BY <1>3, <1>4, <1>5, <1>6, <1>8, <1>9, CpuAssumption DEF Now

(* Added over a set event they are not able.                               *)
LEMMA SpawnedIdle ==
  ASSUME NEW w \in [Cpu!Id -> Stage], NEW n \in 1..MaxLanes, Cpu!Room(w, n)
  PROVE  Able(Cpu!Spawned(w, n), TRUE) \subseteq Able(w, TRUE)
<1> QED BY DEF Able, Cpu!Spawned

LEMMA NoneAble == ASSUME NEW s \in BOOLEAN PROVE Cardinality(Able(Cpu!None, s)) = 0
<1>1. Able(Cpu!None, s) = {}
    BY DEF Able, Cpu!None
<1> QED BY <1>1, FS_EmptySet

LEMMA QueueInit == Cpu!Init => CpuQueueInv
<1> SUFFICES ASSUME Cpu!Init PROVE CpuQueueInv
    OBVIOUS
<1>1. CpuInv
    BY CpuInit
<1>2. CpuLanes \in 1..MaxLanes /\ MaxLanes \in Nat /\ Cpu!None \in [Cpu!Id -> Stage]
    BY NoWorkers, CpuAssumption
<1>3. Cardinality(Able(Cpu!Spawned(Cpu!None, CpuLanes), FALSE)) <= 0 + CpuLanes
    BY <1>2, SpawnedAble, NoneAble
<1>4. Cardinality(Able(worker, stop)) \in Nat
    BY WorkersFinite DEF Able
<1>5. worker = Cpu!Spawned(Cpu!None, CpuLanes) /\ stop = FALSE /\ cpuQueue = 0
      /\ cpuPhase = "built" /\ cpuLanes = CpuLanes /\ cpuLock = "free"
    BY DEF Cpu!Init
<1>6. cpuQueue + Cardinality(Able(worker, stop)) <= CpuLanes
  <2>1. Able(worker, stop) = Able(Cpu!Spawned(Cpu!None, CpuLanes), FALSE)
      BY <1>5 DEF Able
  <2>2. Cardinality(Able(worker, stop)) <= 0 + CpuLanes
      BY <2>1, <1>3
  <2> QED BY <1>2, <1>4, <1>5, <2>2
<1> QED BY <1>1, <1>2, <1>4, <1>5, <1>6 DEF CpuQueueInv, QueueInv

LEMMA QueueStep == CpuQueueInv /\ [Cpu!Next]_Cpu!vars => CpuQueueInv'
<1> SUFFICES ASSUME CpuQueueInv, [Cpu!Next]_Cpu!vars PROVE CpuQueueInv'
    OBVIOUS
<1>a. CpuInv'
    BY CpuStep DEF CpuQueueInv
<1> DEFINE A == Able(worker, stop)
           B == Able(worker', stop')
<1>b. A \in SUBSET Cpu!Id /\ B \in SUBSET Cpu!Id
    BY DEF Able
<1>c. Cardinality(A) \in Nat /\ Cardinality(B) \in Nat
    BY <1>b, WorkersFinite
<1>d. /\ cpuPhase = "built" => ~stop /\ cpuQueue + Cardinality(A) <= cpuLanes
      /\ cpuPhase \in {"hit_count", "hit", "stopping"} => stop
      /\ cpuQueue + Cardinality(A) <= 2 * MaxLanes
      /\ cpuLock \in {"free", "held", "lost"}
    BY DEF CpuQueueInv, QueueInv
<1>e. cpuQueue \in Nat /\ cpuLanes \in 1..MaxLanes /\ MaxLanes \in Nat /\ cpuLanes \in Nat
      /\ stop \in BOOLEAN /\ worker \in [Cpu!Id -> Stage] /\ cpuPhase \in Cpu!Phase
    BY CpuAssumption DEF CpuQueueInv, CpuInv, CpuTypes
<1> DEFINE Goal == /\ cpuPhase' = "built" => ~stop' /\ cpuQueue' + Cardinality(B) <= cpuLanes'
                   /\ cpuPhase' \in {"hit_count", "hit", "stopping"} => stop'
                   /\ cpuQueue' + Cardinality(B) <= 2 * MaxLanes
                   /\ cpuLock' \in {"free", "held", "lost"}
<1> SUFFICES Goal
    BY <1>a DEF CpuQueueInv, QueueInv
<1>1. ASSUME B \subseteq A PROVE Cardinality(B) <= Cardinality(A)
    BY <1>1, <1>b, FewerAble
<1>2. ASSUME NEW i \in Cpu!Id, Cpu!Begin(i) \/ Cpu!Test(i) \/ Cpu!EnterCount(i) \/ Cpu!LeaveCount(i)
      PROVE  /\ UNCHANGED <<cpuPhase, cpuQueue, stop, cpuLanes>> /\ B \subseteq A
             /\ cpuLock' \in {"free", "held", "lost"}
    BY <1>2, <1>d, <1>e DEF Cpu!Begin, Cpu!Test, Cpu!EnterCount, Cpu!LeaveCount, Cpu!Moves, Able, Stage
<1>3. ASSUME NEW i \in Cpu!Id, Cpu!Put(i)
      PROVE  /\ UNCHANGED <<cpuPhase, stop, cpuLanes, cpuLock>> /\ cpuQueue' = cpuQueue + 1
             /\ Cardinality(B) <= Cardinality(A) - 1
  <2>1. i \in A /\ B = A \ {i}
      BY <1>3, <1>e DEF Cpu!Put, Cpu!Moves, Able, Stage
  <2>2. IsFiniteSet(A)
      BY <1>b, WorkersFinite
  <2> HIDE DEF A, B
  <2>3. Cardinality(A \ {i}) = Cardinality(A) - 1
      BY <2>1, <2>2, FS_RemoveElement
  <2> QED BY <1>3, <1>c, <2>1, <2>3 DEF Cpu!Put
<1>4. ASSUME NEW i \in Cpu!Id, Cpu!Work(i)
      PROVE  /\ UNCHANGED <<cpuPhase, stop, cpuLanes>> /\ cpuLock' \in {"free", "held", "lost"}
             /\ cpuQueue' \in Nat /\ cpuQueue' + Cardinality(B) <= cpuQueue + Cardinality(A)
  <2>1. CASE Cpu!Put(i)
    <3> HIDE DEF A, B
    <3> QED BY <2>1, <1>3, <1>c, <1>d, <1>e
  <2>2. CASE Cpu!Begin(i) \/ Cpu!Test(i) \/ Cpu!EnterCount(i) \/ Cpu!LeaveCount(i)
    <3>1. B \subseteq A /\ UNCHANGED <<cpuPhase, cpuQueue, stop, cpuLanes>>
          /\ cpuLock' \in {"free", "held", "lost"}
        BY <2>2, <1>2
    <3> HIDE DEF A, B
    <3> QED BY <3>1, <1>1, <1>c, <1>e
  <2> QED BY <1>4, <2>1, <2>2 DEF Cpu!Work
<1>5. ASSUME NEW i \in Cpu!Id, Cpu!Work(i) PROVE Goal
  <2> HIDE DEF A, B
  <2> QED BY <1>5, <1>4, <1>c, <1>d, <1>e
<1>6. CASE Cpu!Start
  <2>1. /\ cpuPhase = "built" /\ cpuPhase' = "loop" /\ worker' = Cpu!Spawned(worker, cpuLanes)
        /\ UNCHANGED <<cpuLanes, stop, cpuQueue, cpuLock>>
      BY <1>6 DEF Cpu!Start
  <2>2. Cardinality(Able(Cpu!Spawned(worker, cpuLanes), stop)) <= Cardinality(A) + cpuLanes
      BY <1>e, SpawnedAble
  <2>3. B = Able(Cpu!Spawned(worker, cpuLanes), stop)
      BY <2>1
  <2>4. Cardinality(B) <= Cardinality(A) + cpuLanes /\ cpuLanes <= MaxLanes
      BY <2>2, <2>3, <1>e
  <2> HIDE DEF A, B
  <2> QED BY <2>1, <2>4, <1>c, <1>d, <1>e
<1>7. CASE Cpu!Restart
  <2>1. /\ cpuPhase = "hit" /\ cpuPhase' = "loop" /\ worker' = Cpu!Spawned(worker, cpuLanes)
        /\ UNCHANGED <<cpuLanes, stop, cpuQueue, cpuLock>> /\ Cpu!Room(worker, cpuLanes)
      BY <1>7 DEF Cpu!Restart
  <2>2. stop = TRUE /\ stop' = TRUE
      BY <2>1, <1>d, <1>e
  <2>3. Able(Cpu!Spawned(worker, cpuLanes), TRUE) \subseteq Able(worker, TRUE)
      BY <2>1, <1>e, SpawnedIdle
  <2>4. A = Able(worker, TRUE) /\ B = Able(Cpu!Spawned(worker, cpuLanes), TRUE)
      BY <2>1, <2>2 DEF Able
  <2>5. B \subseteq A
      BY <2>3, <2>4
  <2> HIDE DEF A, B
  <2> QED BY <2>1, <2>5, <1>1, <1>c, <1>d, <1>e
<1>8. CASE Cpu!Replace
  <2>1. /\ cpuPhase' = "loop" /\ worker' = Cpu!Spawned(Cpu!None, cpuLanes)
        /\ cpuQueue' = 0 /\ stop' = FALSE /\ cpuLock' = Cpu!LostLock
      BY <1>8 DEF Cpu!Replace
  <2>2. Cardinality(Able(Cpu!Spawned(Cpu!None, cpuLanes), FALSE)) <= 0 + cpuLanes
      BY <1>e, NoWorkers, SpawnedAble, NoneAble
  <2>3. B = Able(Cpu!Spawned(Cpu!None, cpuLanes), FALSE)
      BY <2>1 DEF Able
  <2>4. Cardinality(B) <= 0 + cpuLanes
    <3> HIDE DEF B
    <3> QED BY <2>2, <2>3
  <2>6. cpuLanes <= MaxLanes
      BY <1>e
  <2>5. cpuLock' \in {"free", "held", "lost"}
      BY <2>1, <1>d DEF Cpu!LostLock
  <2> HIDE DEF A, B
  <2> QED BY <2>1, <2>4, <2>5, <2>6, <1>c, <1>e
<1>9. CASE Cpu!Retune \/ Cpu!Collect \/ Cpu!TimeOut \/ Cpu!Count \/ Cpu!Halt
  <2>1. /\ UNCHANGED <<worker, cpuLock>>
        /\ cpuPhase' # "built"
        /\ cpuPhase' \in {"hit_count", "hit", "stopping"} => stop'
        /\ cpuQueue' \in Nat /\ cpuQueue' <= cpuQueue /\ (stop => stop')
      BY <1>9, <1>d, <1>e DEF Cpu!Retune, Cpu!Collect, Cpu!TimeOut, Cpu!Count, Cpu!Halt
  <2>2. B \subseteq A
      BY <2>1 DEF Able
  <2>3. Cardinality(B) <= Cardinality(A)
      BY <2>2, <1>1
  <2> HIDE DEF A, B
  <2>4. cpuQueue' + Cardinality(B) <= 2 * MaxLanes
      BY <2>1, <2>3, <1>c, <1>d, <1>e
  <2> QED BY <2>1, <2>4, <1>d
<1>10. CASE Cpu!End
  <2>1. /\ cpuPhase' = "ended" /\ worker' = Cpu!None /\ UNCHANGED <<stop, cpuQueue>>
        /\ cpuLock' \in {"free", "held", "lost"}
      BY <1>10, <1>d DEF Cpu!End, Cpu!LostLock
  <2>2. B \subseteq A
      BY <2>1 DEF Able, Cpu!None
  <2> HIDE DEF A, B
  <2> QED BY <2>1, <2>2, <1>1, <1>c, <1>d, <1>e
<1>11. CASE UNCHANGED Cpu!vars
    BY <1>11, <1>d DEF Cpu!vars, Able
<1> HIDE DEF A, B
<1> QED BY <1>5, <1>6, <1>7, <1>8, <1>9, <1>10, <1>11 DEF Cpu!Next, Cpu!Loop

LEMMA QueueTyped == CpuQueueInv => Cpu!TypeOK
<1> SUFFICES ASSUME CpuQueueInv PROVE Cpu!TypeOK
    OBVIOUS
<1>1. Cardinality(Able(worker, stop)) \in Nat /\ Cardinality(Cpu!Id) \in Nat
    BY WorkersFinite DEF Able
<1>2. cpuQueue \in Nat /\ cpuQueue + Cardinality(Able(worker, stop)) <= 2 * MaxLanes
      /\ MaxLanes \in Nat
    BY CpuAssumption DEF CpuQueueInv, CpuInv, CpuTypes, QueueInv
<1>3. cpuQueue \in 0..Cardinality(Cpu!Id)
    BY <1>1, <1>2, QueueHolds
<1> QED BY <1>3, SameCardinal DEF Cpu!TypeOK, CpuQueueInv, QueueInv, CpuInv, CpuTypes, Stage

LEMMA CpuTyped == ServicesSpec => [](service = "cpu" => Cpu!TypeOK)
<1> DEFINE Inv == service = "cpu" => CpuQueueInv
<1>1. ServicesInit => Inv
    BY QueueInit DEF ServicesInit
<1>2. Inv /\ [ServicesNext]_all => Inv'
    BY CpuFrame, QueueStep, ServiceStays
<1>3. Inv => (service = "cpu" => Cpu!TypeOK)
    BY QueueTyped
<1> QED BY <1>1, <1>2, <1>3, PTL DEF ServicesSpec
=============================================================================

------------------------- MODULE FiniteInduction --------------------------
(***************************************************************************)
(* Induction as the proofs use it: if some member of a family of finite    *)
(* sets is a counterexample, there is a smallest one. From it, what sums   *)
(* over a finite set (MapThenSumSet of FiniteSetsExt) amount to.           *)
(***************************************************************************)
EXTENDS Integers, FiniteSetTheorems, TLAPS

LEMMA SmallestMember ==
    ASSUME NEW F, \A T \in F : IsFiniteSet(T), F # {}
    PROVE  \E T \in F : \A V \in F : V \subseteq T => V = T
<1> DEFINE S == UNION F
<1>1. IsWellFoundedOn(StrictSubsetOrdering(S), FiniteSubsetsOf(S))
    BY FS_StrictSubsetOrderingWellFounded
<1>2. F \subseteq FiniteSubsetsOf(S)
    BY DEF FiniteSubsetsOf
<1>3. PICK T \in F : \A V \in F : ~(<<V, T>> \in StrictSubsetOrdering(S))
    BY <1>1, <1>2, WFMin
<1>4. \A V \in F : V \subseteq S
    OBVIOUS
<1> QED BY <1>3, <1>4 DEF StrictSubsetOrdering

(* The same for an interval of numbers.                                    *)
LEMMA NoBadNumber ==
    ASSUME NEW n \in Nat, NEW Bad \in SUBSET (0..n), 0 \notin Bad,
           \A k \in 0..(n - 1) : k \notin Bad => k + 1 \notin Bad
    PROVE  Bad = {}
<1> DEFINE F == {0..k : k \in Bad}
<1> SUFFICES ASSUME Bad # {} PROVE FALSE
    OBVIOUS
<1>1. F # {} /\ \A T \in F : IsFiniteSet(T)
  <2>1. \A k \in Bad : IsFiniteSet(0..k)
      BY FS_Interval
  <2> QED BY <2>1
<1> HIDE DEF F
<1>2. PICK T \in F : \A V \in F : V \subseteq T => V = T
    BY <1>1, SmallestMember
<1>3. PICK k \in Bad : T = 0..k
    BY DEF F
<1>4. k \in 0..n /\ k # 0 /\ k - 1 \in 0..(n - 1) /\ (k - 1) + 1 = k
    BY <1>3
<1>5. k - 1 \in Bad
    BY <1>3, <1>4
<1>6. 0..(k - 1) = 0..k
  <2>1. 0..(k - 1) \in F /\ 0..(k - 1) \subseteq 0..k
      BY <1>4, <1>5 DEF F
  <2> QED BY <1>2, <1>3, <2>1
<1> QED BY <1>4, <1>6

-----------------------------------------------------------------------------
(* The element that a sum takes next. *)
NextElement(s) == CHOOSE x \in s : TRUE

(* g is the function that MapThenSumSet recurses with, for the values U.   *)
Sums(g, U, S) ==
    g = [s \in SUBSET S |-> IF s = {} THEN 0 ELSE U[NextElement(s)] + g[s \ {NextElement(s)}]]

SumsOver(U, S) == CHOOSE g : Sums(g, U, S)
Total(U, S) == SumsOver(U, S)[S]

LEMMA NextElementIn == \A s : s # {} => NextElement(s) \in s
BY DEF NextElement

LEMMA SumsAgree ==
    ASSUME NEW S, IsFiniteSet(S), NEW T \in SUBSET S, NEW U, NEW g, NEW h,
           Sums(g, U, S), Sums(h, U, T)
    PROVE  g[T] = h[T]
<1> DEFINE F == {s \in SUBSET T : g[s] # h[s]}
<1> SUFFICES ASSUME F # {} PROVE FALSE
    OBVIOUS
<1>1. \A s \in F : IsFiniteSet(s)
    BY FS_Subset
<1> HIDE DEF F
<1>2. PICK s \in F : \A v \in F : v \subseteq s => v = s
    BY <1>1, SmallestMember
<1>3. s \in SUBSET T /\ s \in SUBSET S /\ g[s] # h[s]
    BY DEF F
<1>4. s # {}
    BY <1>3 DEF Sums
<1>5. NextElement(s) \in s
    BY <1>4, NextElementIn
<1>6. g[s \ {NextElement(s)}] = h[s \ {NextElement(s)}]
    BY <1>2, <1>3, <1>5 DEF F
<1>7. g[s] = h[s]
    BY <1>3, <1>4, <1>6 DEF Sums
<1> QED BY <1>3, <1>7

LEMMA SumsExist ==
    ASSUME NEW S, IsFiniteSet(S), NEW U
    PROVE  Sums(SumsOver(U, S), U, S)
<1> DEFINE F == {T \in SUBSET S : ~Sums(SumsOver(U, T), U, T)}
<1> SUFFICES ASSUME F # {} PROVE FALSE
    OBVIOUS
<1>1. \A T \in F : IsFiniteSet(T)
    BY FS_Subset
<1> HIDE DEF F
<1>2. PICK T \in F : \A V \in F : V \subseteq T => V = T
    BY <1>1, SmallestMember
<1>3. T \in SUBSET S /\ IsFiniteSet(T) /\ ~Sums(SumsOver(U, T), U, T)
    BY <1>1 DEF F
<1>4. \A V \in SUBSET T : V # T => Sums(SumsOver(U, V), U, V)
    BY <1>2, <1>3 DEF F
<1> DEFINE R(s) == s \ {NextElement(s)}
           g == [s \in SUBSET T |-> IF s = {} THEN 0 ELSE U[NextElement(s)] + Total(U, R(s))]
<1>5. ASSUME NEW s \in SUBSET T, s # T
      PROVE  g[s] = Total(U, s)
  <2>1. Sums(SumsOver(U, s), U, s)
      BY <1>4, <1>5
  <2>2. CASE s = {}
      BY <2>1, <2>2 DEF Total, Sums
  <2>3. CASE s # {}
    <3>1. NextElement(s) \in s
        BY <2>3, NextElementIn
    <3>2. R(s) \in SUBSET s /\ R(s) # s /\ R(s) \in SUBSET T /\ R(s) # T
        BY <1>5, <3>1
    <3>3. Sums(SumsOver(U, R(s)), U, R(s)) /\ IsFiniteSet(s)
        BY <1>3, <1>4, <3>2, FS_Subset
    <3>4. SumsOver(U, s)[R(s)] = Total(U, R(s))
        BY <2>1, <3>2, <3>3, SumsAgree DEF Total
    <3> QED BY <2>1, <2>3, <3>4 DEF Total, Sums
  <2> QED BY <2>2, <2>3
<1>6. ASSUME NEW s \in SUBSET T, s # {}
      PROVE  Total(U, R(s)) = g[R(s)]
    BY <1>5, <1>6, NextElementIn
<1>7. Sums(g, U, T)
    BY <1>6 DEF Sums
<1>8. Sums(SumsOver(U, T), U, T)
    BY <1>7 DEF SumsOver
<1> QED BY <1>3, <1>8

LEMMA TotalSteps ==
    ASSUME NEW S, IsFiniteSet(S), NEW U
    PROVE  /\ S = {} => Total(U, S) = 0
           /\ S # {} => /\ NextElement(S) \in S /\ IsFiniteSet(S \ {NextElement(S)})
                        /\ Total(U, S) = U[NextElement(S)] + Total(U, S \ {NextElement(S)})
<1> DEFINE R == S \ {NextElement(S)}
<1>1. Sums(SumsOver(U, S), U, S) /\ R \in SUBSET S /\ IsFiniteSet(R)
    BY SumsExist, FS_Subset
<1>2. SumsOver(U, S)[R] = Total(U, R)
    BY <1>1, SumsExist, SumsAgree DEF Total
<1> QED BY <1>1, <1>2, NextElementIn DEF Total, Sums

LEMMA TotalType ==
    ASSUME NEW S, IsFiniteSet(S), NEW U, \A i \in S : U[i] \in Int
    PROVE  Total(U, S) \in Int
<1> DEFINE F == {T \in SUBSET S : Total(U, T) \notin Int}
<1> SUFFICES ASSUME F # {} PROVE FALSE
    OBVIOUS
<1>1. \A T \in F : IsFiniteSet(T)
    BY FS_Subset
<1> HIDE DEF F
<1>2. PICK T \in F : \A V \in F : V \subseteq T => V = T
    BY <1>1, SmallestMember
<1>3. /\ IsFiniteSet(T) /\ T \in SUBSET S /\ Total(U, T) \notin Int
      /\ \A V \in SUBSET T : V # T => Total(U, V) \in Int
    BY <1>1, <1>2 DEF F
<1>4. CASE T = {}
    BY <1>3, <1>4, TotalSteps
<1>5. CASE T # {}
  <2> DEFINE x == NextElement(T)
             W == T \ {x}
  <2>1. x \in T /\ Total(U, T) = U[x] + Total(U, W)
      BY <1>3, <1>5, TotalSteps
  <2>2. U[x] \in Int /\ Total(U, W) \in Int
      BY <1>3, <2>1
  <2> HIDE DEF W
  <2> QED BY <1>3, <2>1, <2>2
<1> QED BY <1>4, <1>5

(* A sum does not depend on the order in which it is taken.                *)
LEMMA TotalWithout ==
    ASSUME NEW S, IsFiniteSet(S), NEW U, \A i \in S : U[i] \in Int, NEW y \in S
    PROVE  Total(U, S) = U[y] + Total(U, S \ {y})
<1> DEFINE F == {T \in SUBSET S : \E z \in T : Total(U, T) # U[z] + Total(U, T \ {z})}
<1> SUFFICES ASSUME F # {} PROVE FALSE
    OBVIOUS
<1>1. \A T \in F : IsFiniteSet(T)
    BY FS_Subset
<1> HIDE DEF F
<1>2. PICK T \in F : \A V \in F : V \subseteq T => V = T
    BY <1>1, SmallestMember
<1>3. IsFiniteSet(T) /\ T \in SUBSET S
    BY <1>1 DEF F
<1>4. PICK z \in T : Total(U, T) # U[z] + Total(U, T \ {z})
    BY DEF F
<1> DEFINE x == NextElement(T)
<1>5. x \in T /\ Total(U, T) = U[x] + Total(U, T \ {x})
    BY <1>3, <1>4, TotalSteps
<1> HIDE DEF x
<1>6. x # z
    BY <1>4, <1>5
<1>7. \A V \in SUBSET T : V # T => \A v \in V : Total(U, V) = U[v] + Total(U, V \ {v})
    BY <1>2, <1>3 DEF F
<1>8. Total(U, T \ {x}) = U[z] + Total(U, (T \ {x}) \ {z})
    BY <1>3, <1>4, <1>5, <1>6, <1>7
<1>9. Total(U, T \ {z}) = U[x] + Total(U, (T \ {z}) \ {x})
    BY <1>3, <1>4, <1>5, <1>6, <1>7
<1>10. (T \ {x}) \ {z} = (T \ {z}) \ {x}
    OBVIOUS
<1>11. U[x] \in Int /\ U[z] \in Int /\ Total(U, (T \ {x}) \ {z}) \in Int
  <2> DEFINE W == (T \ {x}) \ {z}
  <2>1. IsFiniteSet(W) /\ \A i \in W : U[i] \in Int
      BY <1>3, FS_Subset
  <2>2. U[x] \in Int /\ U[z] \in Int
      BY <1>3, <1>4, <1>5
  <2> HIDE DEF W
  <2>3. Total(U, W) \in Int
      BY <2>1, TotalType
  <2> QED BY <2>2, <2>3 DEF W
<1> DEFINE t == Total(U, T)
           p == Total(U, T \ {x})
           q == Total(U, T \ {z})
           w == Total(U, (T \ {x}) \ {z})
           a == U[x]
           b == U[z]
<1>12. t # b + q /\ t = a + p /\ p = b + w /\ q = a + w /\ {a, b, w} \subseteq Int
    BY <1>4, <1>5, <1>8, <1>9, <1>10, <1>11
<1> HIDE DEF t, p, q, w, a, b
<1> QED BY <1>12

LEMMA TotalWith ==
    ASSUME NEW S, IsFiniteSet(S), NEW U, NEW y, y \notin S, \A i \in S \cup {y} : U[i] \in Int
    PROVE  Total(U, S \cup {y}) = Total(U, S) + U[y]
<1>1. IsFiniteSet(S \cup {y}) /\ (S \cup {y}) \ {y} = S
    BY FS_AddElement
<1>2. Total(U, S \cup {y}) = U[y] + Total(U, (S \cup {y}) \ {y})
    BY <1>1, TotalWithout
<1>3. U[y] \in Int /\ \A i \in S : U[i] \in Int
    OBVIOUS
<1>4. Total(U, S) \in Int
    BY <1>3, TotalType, Zenon
<1>5. Total(U, S \cup {y}) = U[y] + Total(U, S)
    BY <1>1, <1>2
<1> QED BY <1>3, <1>4, <1>5

LEMMA TotalSame ==
    ASSUME NEW S, IsFiniteSet(S), NEW U, NEW V, \A i \in S : U[i] = V[i]
    PROVE  Total(U, S) = Total(V, S)
<1> DEFINE F == {T \in SUBSET S : Total(U, T) # Total(V, T)}
<1> SUFFICES ASSUME F # {} PROVE FALSE
    OBVIOUS
<1>1. \A T \in F : IsFiniteSet(T)
    BY FS_Subset
<1> HIDE DEF F
<1>2. PICK T \in F : \A W \in F : W \subseteq T => W = T
    BY <1>1, SmallestMember
<1>3. /\ IsFiniteSet(T) /\ T \in SUBSET S /\ Total(U, T) # Total(V, T)
      /\ \A W \in SUBSET T : W # T => Total(U, W) = Total(V, W)
    BY <1>1, <1>2 DEF F
<1> QED BY <1>3, TotalSteps

(* A sum of natural numbers bounds each of them.                           *)
LEMMA TotalNatural ==
    ASSUME NEW S, IsFiniteSet(S), NEW U, \A i \in S : U[i] \in Nat
    PROVE  Total(U, S) \in Nat /\ \A x \in S : U[x] <= Total(U, S)
<1> DEFINE F == {T \in SUBSET S : Total(U, T) \notin Nat}
<1>1. \A T \in SUBSET S : IsFiniteSet(T)
    BY FS_Subset
<1>2. F = {}
  <2> SUFFICES ASSUME F # {} PROVE FALSE
      OBVIOUS
  <2>1. \A T \in F : IsFiniteSet(T)
      BY <1>1
  <2> HIDE DEF F
  <2>2. PICK T \in F : \A V \in F : V \subseteq T => V = T
      BY <2>1, SmallestMember
  <2>3. /\ IsFiniteSet(T) /\ T \in SUBSET S /\ Total(U, T) \notin Nat
        /\ \A V \in SUBSET T : V # T => Total(U, V) \in Nat
      BY <2>1, <2>2 DEF F
  <2> DEFINE x == NextElement(T)
             W == T \ {x}
  <2>4. T # {}
      BY <2>3, TotalSteps
  <2>5. x \in T /\ Total(U, T) = U[x] + Total(U, W)
      BY <2>3, <2>4, TotalSteps
  <2>6. U[x] \in Nat /\ Total(U, W) \in Nat
      BY <2>3, <2>5
  <2> HIDE DEF W, x
  <2> QED BY <2>3, <2>5, <2>6
<1>3. \A T \in SUBSET S : Total(U, T) \in Nat
    BY <1>2
<1>4. ASSUME NEW x \in S PROVE U[x] <= Total(U, S)
  <2> DEFINE W == S \ {x}
  <2>1. Total(U, S) = U[x] + Total(U, W)
      BY TotalWithout
  <2>2. Total(U, W) \in Nat /\ U[x] \in Nat
      BY <1>3
  <2> HIDE DEF W
  <2> QED BY <2>1, <2>2
<1> QED BY <1>3, <1>4
=============================================================================

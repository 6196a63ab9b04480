---------------------------- MODULE FoldInduction ----------------------------
(***************************************************************************)
(* What recursive functions of a number and folds over a sequence          *)
(* (FoldLeft of SequencesExt) come to, step by step.                       *)
(*                                                                         *)
(* The induction is a hypothesis, which NoBadNumber of FiniteInduction     *)
(* discharges: this module is instantiated once for every kind of step,    *)
(* and each instance carries along everything the module extends.          *)
(***************************************************************************)
EXTENDS Integers

(* A step of a recursion or of a fold over a sequence: the new value for   *)
(* the old one and the number, or the element, at hand. The first argument *)
(* is what stays the same from step to step.                               *)
CONSTANT Op(_, _, _)

(* Induction up to n: a property of 0 that is passed on is one of all.     *)
Inducts(n) ==
    \A Bad \in SUBSET (0..n) :
        0 \notin Bad /\ (\A k \in 0..(n - 1) : k \notin Bad => k + 1 \notin Bad) => Bad = {}

-----------------------------------------------------------------------------
(* The function that is v at 0 and is found step by step from there.       *)
Recurs(g, c, v, n) == g = [k \in 0..n |-> IF k = 0 THEN v ELSE Op(c, g[k - 1], k)]

LEMMA RecursionExists ==
    ASSUME NEW c, NEW v, NEW n \in Nat, Inducts(n)
    PROVE  \E g : Recurs(g, c, v, n)
<1> DEFINE Bad == {k \in 0..n : ~\E g : Recurs(g, c, v, k)}
<1>1. 0 \notin Bad
  <2> DEFINE g == [k \in 0..0 |-> v]
  <2>1. Recurs(g, c, v, 0)
      BY DEF Recurs
  <2> QED BY <2>1
<1>2. ASSUME NEW k \in 0..(n - 1), k \notin Bad PROVE k + 1 \notin Bad
  <2>1. k \in 0..n /\ k \in Nat
      OBVIOUS
  <2>2. PICK g : Recurs(g, c, v, k)
      BY <1>2, <2>1
  <2> DEFINE h == [j \in 0..(k + 1) |-> IF j = k + 1 THEN Op(c, g[k], k + 1) ELSE g[j]]
  <2>3. \A j \in 0..k : g[j] = IF j = 0 THEN v ELSE Op(c, g[j - 1], j)
      BY <2>2 DEF Recurs
  <2>4. \A j \in 0..(k + 1) : h[j] = IF j = 0 THEN v ELSE Op(c, h[j - 1], j)
    <3> TAKE j \in 0..(k + 1)
    <3>1. CASE j = k + 1
        BY <2>1, <3>1
    <3>2. CASE j # k + 1
      <4>1. j \in 0..k /\ (j # 0 => j - 1 \in 0..(k + 1) /\ j - 1 # k + 1)
          BY <2>1, <3>2
      <4> QED BY <2>3, <3>2, <4>1
    <3> QED BY <3>1, <3>2
  <2>5. Recurs(h, c, v, k + 1)
      BY <2>4 DEF Recurs
  <2> QED BY <2>5
<1>3. Bad \in SUBSET (0..n)
    OBVIOUS
<1> HIDE DEF Bad
<1>4. Bad = {}
    BY <1>1, <1>2, <1>3 DEF Inducts
<1> QED BY <1>4 DEF Bad

(* Max of FiniteSetsExt. *)
Largest(s) == CHOOSE x \in s : \A y \in s : x >= y

(* g is the function that FoldLeft recurses with, over the positions it    *)
(* has still to take.                                                      *)
Unfolds(g, c, v, seq) ==
    g = [s \in SUBSET DOMAIN seq |->
            IF s = {} THEN v ELSE Op(c, g[s \ {Largest(s)}], seq[Largest(s)])]

LEMMA MaxOfInterval ==
    ASSUME NEW n \in Nat, NEW s \in SUBSET (1..(n + 1)), n + 1 \in s
    PROVE  Largest(s) = n + 1
<1>1. \A y \in s : y <= n + 1
    OBVIOUS
<1>2. \A x \in s : (\A y \in s : y <= x) => x = n + 1
    OBVIOUS
<1> QED BY <1>1, <1>2 DEF Largest

LEMMA UnfoldingExists ==
    ASSUME NEW c, NEW v, NEW seq, NEW n \in Nat, DOMAIN seq = 1..n, Inducts(n)
    PROVE  \E g : Unfolds(g, c, v, seq)
<1> DEFINE U(g, k) == g = [s \in SUBSET (1..k) |->
                              IF s = {} THEN v ELSE Op(c, g[s \ {Largest(s)}], seq[Largest(s)])]
           Bad == {k \in 0..n : ~\E g : U(g, k)}
<1>1. 0 \notin Bad
  <2> DEFINE g == [s \in SUBSET (1..0) |-> v]
  <2>1. U(g, 0)
      OBVIOUS
  <2> QED BY <2>1
<1>2. ASSUME NEW k \in 0..(n - 1), k \notin Bad PROVE k + 1 \notin Bad
  <2>1. k \in 0..n /\ k \in Nat
      OBVIOUS
  <2>2. PICK g : U(g, k)
      BY <1>2, <2>1
  <2> DEFINE h == [s \in SUBSET (1..(k + 1)) |->
                      IF k + 1 \in s THEN Op(c, g[s \ {k + 1}], seq[k + 1]) ELSE g[s]]
  <2>3. \A s \in SUBSET (1..k) : g[s] = IF s = {} THEN v ELSE Op(c, g[s \ {Largest(s)}], seq[Largest(s)])
      BY <2>2
  <2>4. ASSUME NEW s \in SUBSET (1..(k + 1))
        PROVE  h[s] = IF s = {} THEN v ELSE Op(c, h[s \ {Largest(s)}], seq[Largest(s)])
    <3>1. CASE k + 1 \in s
      <4>1. Largest(s) = k + 1
          BY <2>1, <3>1, MaxOfInterval
      <4>2. s \ {k + 1} \in SUBSET (1..(k + 1)) /\ k + 1 \notin s \ {k + 1}
          OBVIOUS
      <4>3. h[s \ {k + 1}] = g[s \ {k + 1}]
          BY <4>2
      <4>4. h[s] = Op(c, g[s \ {k + 1}], seq[k + 1])
          BY <3>1
      <4> HIDE DEF h
      <4> QED BY <3>1, <4>1, <4>3, <4>4
    <3>2. CASE k + 1 \notin s
      <4>1. s \in SUBSET (1..k)
          BY <2>1, <3>2
      <4>2. h[s] = g[s] /\ k + 1 \notin s \ {Largest(s)} /\ s \ {Largest(s)} \in SUBSET (1..(k + 1))
          BY <3>2
      <4>3. h[s \ {Largest(s)}] = g[s \ {Largest(s)}]
          BY <4>2
      <4> HIDE DEF h
      <4> QED BY <2>3, <4>1, <4>2, <4>3
    <3> QED BY <3>1, <3>2
  <2>5. U(h, k + 1)
      BY <2>4
  <2> QED BY <2>5
<1>3. Bad \in SUBSET (0..n)
    OBVIOUS
<1> HIDE DEF Bad
<1>4. Bad = {}
    BY <1>1, <1>2, <1>3 DEF Inducts
<1>5. n \in 0..n
    OBVIOUS
<1>6. \E g : U(g, n)
    BY <1>4, <1>5 DEF Bad
<1> QED BY <1>6 DEF Unfolds

(* The values that a fold takes on its way.                                *)
Passes(st, c, v, seq, n) ==
    /\ DOMAIN st = 0..n
    /\ st[0] = v
    /\ \A k \in 1..n : st[k] = Op(c, st[k - 1], seq[k])

(* FoldLeft, with its definition expanded. *)
Folded(c, v, seq) == (CHOOSE g : Unfolds(g, c, v, seq))[DOMAIN seq]

LEMMA FoldPasses ==
    ASSUME NEW c, NEW v, NEW seq, NEW n \in Nat, DOMAIN seq = 1..n, Inducts(n)
    PROVE  \E st : /\ Passes(st, c, v, seq, n)
                   /\ Folded(c, v, seq) = st[n]
<1> DEFINE g == CHOOSE h : Unfolds(h, c, v, seq)
           st == [k \in 0..n |-> g[1..k]]
<1>1. Unfolds(g, c, v, seq)
    BY UnfoldingExists
<1>2. Folded(c, v, seq) = g[1..n]
    BY DEF Folded
<1> HIDE DEF g
<1>3. g[1..0] = v
    BY <1>1 DEF Unfolds
<1>4. ASSUME NEW k \in 1..n PROVE g[1..k] = Op(c, g[1..(k - 1)], seq[k])
  <2>1. k - 1 \in Nat /\ (k - 1) + 1 = k /\ k \in 1..k /\ 1..k \in SUBSET (1..n)
      OBVIOUS
  <2>2. Largest(1..k) = k
      BY <2>1, MaxOfInterval
  <2>3. (1..k) \ {k} = 1..(k - 1) /\ 1..k # {}
      OBVIOUS
  <2> QED BY <1>1, <2>1, <2>2, <2>3 DEF Unfolds
<1>5. st[n] = g[1..n] /\ st[0] = g[1..0] /\ \A k \in 1..n : st[k] = g[1..k] /\ st[k - 1] = g[1..(k - 1)]
    OBVIOUS
<1> HIDE DEF st
<1>6. Passes(st, c, v, seq, n)
  <2>1. DOMAIN st = 0..n
      BY DEF st
  <2> QED BY <1>3, <1>4, <1>5, <2>1 DEF Passes
<1> QED BY <1>2, <1>5, <1>6

(* Two passes over sequences that agree on a prefix agree on it.           *)
LEMMA PassesAgree ==
    ASSUME NEW c, NEW v, NEW seq, NEW sec, NEW n \in Nat, NEW m \in 0..n, Inducts(m),
           NEW st, NEW su, Passes(st, c, v, seq, n), Passes(su, c, v, sec, m),
           \A k \in 1..m : seq[k] = sec[k]
    PROVE  \A k \in 0..m : st[k] = su[k]
<1> DEFINE Bad == {k \in 0..m : st[k] # su[k]}
<1>1. 0 \notin Bad
    BY DEF Passes
<1>2. ASSUME NEW k \in 0..(m - 1), k \notin Bad PROVE k + 1 \notin Bad
  <2>1. k \in 0..m /\ k + 1 \in 1..m /\ k + 1 \in 1..n /\ (k + 1) - 1 = k
      OBVIOUS
  <2>2. st[k + 1] = Op(c, st[k], seq[k + 1]) /\ su[k + 1] = Op(c, su[k], sec[k + 1])
      BY <2>1 DEF Passes
  <2> QED BY <1>2, <2>1, <2>2
<1>3. Bad \in SUBSET (0..m) /\ m \in Nat
    OBVIOUS
<1> HIDE DEF Bad
<1>4. Bad = {}
    BY <1>1, <1>2, <1>3 DEF Inducts
<1> QED BY <1>4 DEF Bad
=============================================================================

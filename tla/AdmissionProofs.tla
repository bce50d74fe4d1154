----------------------------- MODULE AdmissionProofs -----------------------------
(***************************************************************************)
(* Theorems about what stands between a step and its effect, for any       *)
(* number of processes, any environment, expressions of any size and paths *)
(* of any length.                                                          *)
(*                                                                         *)
(* What tools make of paths and expressions needs inductions over data: a  *)
(* path that passes the policy stays in the workspace, and an expression   *)
(* the policy refuses never has a value.  Each is carried out on the least *)
(* counterexample, whose existence is that of minimal elements under a     *)
(* well-founded relation (WFMin).                                          *)
(***************************************************************************)
EXTENDS Admission, TLAPS, WellFoundedInduction, FiniteSetTheorems

(* A set of naturals that is not empty has a least element.                *)
Below == {p \in Nat \X Nat : p[1] < p[2]}

LEMMA LeastNatural ==
  ASSUME NEW T, T \subseteq Nat, T # {}
  PROVE  \E x \in T : \A y \in T : x <= y
<1>1. IsWellFoundedOn(Below, Nat)
  BY NatLessThanWellFounded DEF OpToRel, Below
<1>2. PICK x \in T : \A y \in T : <<y, x>> \notin Below
  BY <1>1, WFMin
<1>3. ASSUME NEW y \in T PROVE x <= y
  <2>1. x \in Nat /\ y \in Nat /\ <<y, x>> \in Nat \X Nat
    OBVIOUS
  <2>2. <<y, x>>[1] = y /\ <<y, x>>[2] = x
    OBVIOUS
  <2>3. ~(y < x)
    BY <1>2, <2>1, <2>2 DEF Below
  <2> QED
    BY <2>1, <2>3
<1> QED
  BY <1>3

(* A finite one has an upper bound: the least cardinality of one that has  *)
(* none is not that of a set from which one element can be taken.          *)
LEMMA FiniteIsBounded ==
  ASSUME NEW S, S \subseteq Nat, IsFiniteSet(S)
  PROVE  \E b \in Nat : \A s \in S : s <= b
<1> DEFINE Bounded(U) == \E b \in Nat : \A s \in U : s <= b
           Sizes == {Cardinality(U) : U \in {V \in SUBSET S : ~Bounded(V)}}
<1>1. \A U \in SUBSET S : IsFiniteSet(U) /\ Cardinality(U) \in Nat
  BY FS_Subset, FS_CardinalityType
<1>2. Sizes \subseteq Nat
  BY <1>1
<1>3. ASSUME Sizes # {} PROVE FALSE
  <2>1. PICK n \in Sizes : \A m \in Sizes : n <= m
    BY <1>2, <1>3, LeastNatural
  <2>2. PICK U \in SUBSET S : ~Bounded(U) /\ n = Cardinality(U)
    BY <2>1
  <2>3. U # {}
    <3>1. Bounded({})
      OBVIOUS
    <3> QED
      BY <2>2, <3>1
  <2>4. PICK x \in U : TRUE
    BY <2>3
  <2>5. Cardinality(U \ {x}) = n - 1
    BY <1>1, <2>2, <2>4, FS_RemoveElement
  <2>6. Bounded(U \ {x})
    <3>1. Cardinality(U \ {x}) \notin Sizes
      BY <1>1, <1>2, <2>1, <2>5
    <3> QED
      BY <3>1
  <2>7. PICK b \in Nat : \A s \in U \ {x} : s <= b
    BY <2>6
  <2>8. \A s \in U : s <= b + x
    BY <2>4, <2>7
  <2>9. b + x \in Nat
    BY <2>4
  <2> QED
    BY <2>2, <2>8, <2>9
<1>4. Bounded(S)
  BY <1>3
<1> QED
  BY <1>4

-----------------------------------------------------------------------------
(* Paths. *)

(* The place that the first n parts of a path lead to, given the place the *)
(* parts before the last of them do.                                       *)
Onward(root, path, before, n) ==
  IF n = 0 THEN IF path.absolute THEN << >> ELSE root
  ELSE IF path.parts[n] # ".." THEN Append(before[n - 1], path.parts[n])
  ELSE IF before[n - 1] = << >> THEN << >> ELSE Parent(before[n - 1])

Walk(root, path) ==
  CHOOSE upto : upto = [n \in 0..Len(path.parts) |-> Onward(root, path, upto, n)]

LEMMA ResolvedIsWalk ==
  ASSUME NEW root, NEW path
  PROVE  Resolved(root, path) = Walk(root, path)[Len(path.parts)]
  BY DEF Resolved, Walk, Onward

(* A walk exists: one of n parts is one of n - 1 and a part more.          *)
LEMMA WalkExists ==
  ASSUME NEW root, NEW path, Len(path.parts) \in Nat
  PROVE  Walk(root, path) =
           [n \in 0..Len(path.parts) |-> Onward(root, path, Walk(root, path), n)]
<1> DEFINE N == Len(path.parts)
           IsWalk(f, n) == f = [k \in 0..n |-> Onward(root, path, f, k)]
           None == {n \in 0..N : ~\E f : IsWalk(f, n)}
<1>1. ASSUME None # {} PROVE FALSE
  <2>1. PICK n \in None : \A m \in None : n <= m
    <3>1. None \subseteq Nat
      OBVIOUS
    <3> QED
      BY <1>1, <3>1, LeastNatural
  <2>2. CASE n = 0
    <3> DEFINE f == [k \in 0..0 |-> IF path.absolute THEN << >> ELSE root]
    <3>1. IsWalk(f, 0)
      BY DEF Onward
    <3> QED
      BY <2>1, <2>2, <3>1
  <2>3. CASE n # 0
    <3>1. n - 1 \in 0..N /\ n - 1 \notin None
      BY <2>1, <2>3
    <3>2. PICK f : IsWalk(f, n - 1)
      BY <3>1
    <3> DEFINE g == [k \in 0..n |-> IF k = n THEN Onward(root, path, f, n) ELSE f[k]]
    <3>3. \A k \in 0..n : g[k] = Onward(root, path, g, k)
      <4> SUFFICES ASSUME NEW k \in 0..n PROVE g[k] = Onward(root, path, g, k)
        OBVIOUS
      <4>1. k # 0 => g[k - 1] = f[k - 1]
        BY <2>1
      <4>2. Onward(root, path, g, k) = Onward(root, path, f, k)
        BY <4>1 DEF Onward
      <4>3. g[k] = Onward(root, path, f, k)
        <5>1. CASE k = n
          BY <5>1
        <5>2. CASE k # n
          <6>1. k \in 0..(n - 1) /\ g[k] = f[k]
            BY <2>1, <5>2
          <6>2. f[k] = [j \in 0..(n - 1) |-> Onward(root, path, f, j)][k]
            BY <3>2
          <6> QED
            BY <6>1, <6>2
        <5> QED
          BY <5>1, <5>2
      <4> QED
        BY <4>2, <4>3
    <3>4. IsWalk(g, n)
      <4>1. g = [k \in 0..n |-> g[k]]
        OBVIOUS
      <4> HIDE DEF g
      <4> QED
        BY <3>3, <4>1
    <3> QED
      BY <2>1, <3>4
  <2> QED
    BY <2>2, <2>3
<1>2. \E f : IsWalk(f, N)
  BY <1>1
<1>3. \E f : f = [n \in 0..Len(path.parts) |-> Onward(root, path, f, n)]
  BY <1>2
<1> QED
  BY <1>3, Zenon DEF Walk

LEMMA AppendStaysWithin ==
  ASSUME NEW S, NEW root \in Seq(S), NEW place \in Seq(S), NEW part \in S, Within(root, place)
  PROVE  Within(root, Append(place, part))
<1>1. Len(Append(place, part)) = Len(place) + 1 /\ Len(place) >= Len(root)
  BY DEF Within
<1>2. SubSeq(Append(place, part), 1, Len(root)) = SubSeq(place, 1, Len(root))
  <2>1. \A i \in 1..Len(root) : Append(place, part)[i] = place[i]
    BY <1>1
  <2> QED
    BY <1>1, <2>1
<1> QED
  BY <1>1, <1>2 DEF Within

(* Wherever it leads, a path leads to a place.                             *)
LEMMA ResolvedType ==
  ASSUME NEW S, NEW root \in Seq(S), NEW path, path.parts \in Seq(S)
  PROVE  Resolved(root, path) \in Seq(S)
<1> DEFINE N == Len(path.parts)
           w == Walk(root, path)
           Bad == {n \in 0..N : w[n] \notin Seq(S)}
<1>1. N \in Nat /\ << >> \in Seq(S)
  OBVIOUS
<1>2. \A n \in 0..N : w[n] = Onward(root, path, w, n)
  <2>1. w = [n \in 0..N |-> Onward(root, path, w, n)]
    BY <1>1, WalkExists
  <2> HIDE DEF w
  <2> QED
    BY <2>1
<1> HIDE DEF w
<1>3. ASSUME Bad # {} PROVE FALSE
  <2>1. PICK n \in Bad : \A m \in Bad : n <= m
    <3>1. Bad \subseteq Nat
      OBVIOUS
    <3> QED
      BY <1>3, <3>1, LeastNatural
  <2>2. CASE n = 0
    <3>1. w[0] = IF path.absolute THEN << >> ELSE root
      BY <1>1, <1>2 DEF Onward
    <3>2. w[0] \in Seq(S)
      BY <1>1, <3>1
    <3> QED
      BY <2>1, <2>2, <3>2
  <2>3. CASE n # 0
    <3>1. w[n - 1] \in Seq(S) /\ n \in 1..N
      BY <1>1, <2>1, <2>3
    <3>2. path.parts[n] \in S
      BY <3>1
    <3>3. Append(w[n - 1], path.parts[n]) \in Seq(S)
      BY <3>1, <3>2
    <3>4. w[n - 1] # << >> => Parent(w[n - 1]) \in Seq(S)
      BY <3>1 DEF Parent
    <3>5. w[n] = Onward(root, path, w, n)
      BY <1>2, <2>1
    <3>6. w[n] = IF path.parts[n] # ".." THEN Append(w[n - 1], path.parts[n])
                 ELSE IF w[n - 1] = << >> THEN << >> ELSE Parent(w[n - 1])
      BY <2>3, <3>5, Zenon DEF Onward
    <3>7. w[n] \in Seq(S)
      BY <1>1, <3>3, <3>4, <3>6, Zenon
    <3> QED
      BY <2>1, <3>7
  <2> QED
    BY <2>2, <2>3
<1>4. w[N] \in Seq(S)
  BY <1>1, <1>3
<1> QED
  BY <1>4, ResolvedIsWalk DEF w

(* A path the policy lets pass only leads further into the workspace:      *)
(* file_write_tool's own guard never meets it.                             *)
LEMMA AllowedStaysInside ==
  ASSUME NEW S, NEW root \in Seq(S), NEW path, path.parts \in Seq(S), PathAllowed(path)
  PROVE  ~Escapes(root, path)
<1> DEFINE N == Len(path.parts)
           w == Walk(root, path)
           Bad == {n \in 0..N : ~(w[n] \in Seq(S) /\ Within(root, w[n]))}
<1>1. N \in Nat
  OBVIOUS
<1>2. \A n \in 0..N : w[n] = Onward(root, path, w, n)
  <2>1. w = [n \in 0..N |-> Onward(root, path, w, n)]
    BY <1>1, WalkExists
  <2> HIDE DEF w
  <2> QED
    BY <2>1
<1> HIDE DEF w
<1>3. ASSUME Bad # {} PROVE FALSE
  <2>1. PICK n \in Bad : \A m \in Bad : n <= m
    <3>1. Bad \subseteq Nat
      OBVIOUS
    <3> QED
      BY <1>3, <3>1, LeastNatural
  <2>2. CASE n = 0
    <3>1. w[0] = root
      BY <1>1, <1>2 DEF Onward, PathAllowed
    <3>2. Within(root, root)
      BY DEF Within
    <3> QED
      BY <2>1, <2>2, <3>1, <3>2
  <2>3. CASE n # 0
    <3>1. w[n - 1] \in Seq(S) /\ Within(root, w[n - 1]) /\ n \in 1..N
      BY <1>1, <2>1, <2>3
    <3>2. path.parts[n] \in S /\ path.parts[n] # ".."
      BY <3>1 DEF PathAllowed
    <3>3. w[n] = Append(w[n - 1], path.parts[n])
      BY <1>2, <2>1, <2>3, <3>2 DEF Onward
    <3>4. w[n] \in Seq(S)
      BY <3>1, <3>2, <3>3
    <3>5. Within(root, w[n])
      BY <3>1, <3>2, <3>3, AppendStaysWithin
    <3> QED
      BY <2>1, <3>4, <3>5
  <2> QED
    BY <2>2, <2>3
<1>4. Within(root, w[N])
  BY <1>1, <1>3
<1> QED
  BY <1>4, ResolvedIsWalk DEF w, Escapes

-----------------------------------------------------------------------------
(* Expressions. *)

Values(tree) == CHOOSE value : value = [p \in DOMAIN tree |-> Evaluated(tree, value, p)]

LEMMA ValuesOfIsValues ==
  ASSUME NEW tree
  PROVE  ValuesOf(tree) = Values(tree)[1]
  BY DEF ValuesOf, Values

(* What a node evaluates to depends on its own operands only. *)
LEMMA OperandsDecide ==
  ASSUME NEW tree, IsTree(tree), NEW p \in DOMAIN tree, NEW f, NEW g,
         \A q \in DOMAIN tree : q > p => f[q] = g[q]
  PROVE  Evaluated(tree, f, p) = Evaluated(tree, g, p)
<1>1. p \in Nat \ {0}
  BY DEF IsTree
<1>2. /\ tree[p] = "neg" => f[2 * p] = g[2 * p]
      /\ tree[p] \in {"+", "/", "**"} => f[2 * p] = g[2 * p] /\ f[2 * p + 1] = g[2 * p + 1]
  <2>1. /\ tree[p] = "neg" => 2 * p \in DOMAIN tree
        /\ tree[p] \in {"+", "/", "**"} => 2 * p \in DOMAIN tree /\ 2 * p + 1 \in DOMAIN tree
    BY DEF IsTree
  <2>2. 2 * p > p /\ 2 * p + 1 > p
    BY <1>1
  <2> QED
    BY <2>1, <2>2
<1>3. CASE tree[p] \in {"+", "/", "**"}
  BY <1>2, <1>3 DEF Evaluated
<1>4. CASE tree[p] = "neg"
  BY <1>2, <1>4 DEF Evaluated
<1>5. CASE tree[p] \notin {"+", "/", "**", "neg"}
  BY <1>5 DEF Evaluated
<1> QED
  BY <1>3, <1>4, <1>5

(* Values exist: those of the nodes from some place on are made from those *)
(* of the nodes after it.                                                  *)
LEMMA ValuesExist ==
  ASSUME NEW tree, IsTree(tree)
  PROVE  Values(tree) = [p \in DOMAIN tree |-> Evaluated(tree, Values(tree), p)]
<1> DEFINE D == DOMAIN tree
<1>1. D \subseteq Nat \ {0} /\ IsFiniteSet(D)
  BY DEF IsTree
<1>2. PICK b \in Nat : \A p \in D : p <= b
  BY <1>1, FiniteIsBounded
<1> DEFINE From(n) == {p \in D : p + n > b}
           AreValues(f, n) == f = [p \in From(n) |-> Evaluated(tree, f, p)]
           None == {n \in 0..b : ~\E f : AreValues(f, n)}
<1>3. ASSUME None # {} PROVE FALSE
  <2>1. PICK n \in None : \A m \in None : n <= m
    <3>1. None \subseteq Nat
      OBVIOUS
    <3> QED
      BY <1>3, <3>1, LeastNatural
  <2>2. CASE n = 0
    <3> DEFINE f == [p \in {} |-> {}]
    <3>1. From(0) = {}
      BY <1>1, <1>2
    <3>2. AreValues(f, 0)
      BY <3>1
    <3> QED
      BY <2>1, <2>2, <3>2
  <2>3. CASE n # 0
    <3>1. n - 1 \in 0..b /\ n - 1 \notin None
      <4> HIDE DEF AreValues
      <4> QED
        BY <1>2, <2>1, <2>3
    <3>2. PICK f : AreValues(f, n - 1)
      BY <3>1
    <3> DEFINE g == [p \in From(n) |-> IF p + n = b + 1 THEN Evaluated(tree, f, p) ELSE f[p]]
    <3>3. \A p \in From(n - 1) : p \in From(n) /\ p + n # b + 1
      BY <1>1, <2>1, <3>1
    <3>4. \A p \in From(n) : p \in From(n - 1) \/ p + n = b + 1
      BY <1>1, <2>1, <3>1
    <3>5. \A p \in From(n) : \A q \in D : q > p => q \in From(n - 1) /\ g[q] = f[q]
      <4>1. \A p \in From(n) : \A q \in D : q > p => q \in From(n - 1)
        BY <1>1, <2>1, <3>1
      <4> QED
        BY <3>3, <4>1
    <3>6. \A p \in From(n) : Evaluated(tree, g, p) = Evaluated(tree, f, p)
      <4> SUFFICES ASSUME NEW p \in From(n)
                   PROVE  Evaluated(tree, g, p) = Evaluated(tree, f, p)
        OBVIOUS
      <4> HIDE DEF g
      <4>1. p \in DOMAIN tree /\ \A q \in DOMAIN tree : q > p => g[q] = f[q]
        BY <3>5
      <4> QED
        BY <4>1, OperandsDecide
    <3>7. \A p \in From(n - 1) : f[p] = Evaluated(tree, f, p)
      <4>1. \A p \in From(n - 1) : f[p] = [q \in From(n - 1) |-> Evaluated(tree, f, q)][p]
        BY <3>2
      <4> HIDE DEF From
      <4> QED
        BY <4>1
    <3>8. \A p \in From(n) : g[p] = Evaluated(tree, g, p)
      <4> SUFFICES ASSUME NEW p \in From(n) PROVE g[p] = Evaluated(tree, f, p)
        BY <3>6
      <4>1. CASE p + n = b + 1
        BY <4>1
      <4>2. CASE p + n # b + 1
        <5>1. p \in From(n - 1) /\ g[p] = f[p]
          BY <3>4, <4>2
        <5> QED
          BY <3>7, <5>1
      <4> QED
        BY <4>1, <4>2
    <3>9. AreValues(g, n)
      <4>1. g = [p \in From(n) |-> g[p]]
        OBVIOUS
      <4> HIDE DEF g, From
      <4> QED
        BY <3>8, <4>1
    <3> QED
      BY <2>1, <3>9
  <2> QED
    BY <2>2, <2>3
<1>4. PICK f : AreValues(f, b)
  <2> HIDE DEF AreValues
  <2>1. b \in 0..b /\ b \notin None
    BY <1>2, <1>3
  <2> QED
    BY <2>1
<1>5. From(b) = D
  BY <1>1, <1>2
<1>6. f = [p \in DOMAIN tree |-> Evaluated(tree, f, p)]
  BY <1>4, <1>5, Zenon
<1> QED
  BY <1>6, Zenon DEF Values

(* Combining numbers or complex ones blocks nothing. *)
LEMMA CombineBlocksNothing ==
  ASSUME NEW op, NEW l, NEW r
  PROVE  "blocked" \notin Combine(op, l, r)
  BY DEF Combine, Numbers

(* A failing operand makes its operator fail, and what is no number and no *)
(* operator of arithmetic fails by itself; blocked is only who is one such *)
(* or has a blocked operand.                                               *)
LEMMA HowNodesFail ==
  ASSUME NEW tree, IsTree(tree), NEW p \in DOMAIN tree, NEW value,
         value = [q \in DOMAIN tree |-> Evaluated(tree, value, q)]
  PROVE  /\ tree[p] \notin Numbers \cup Arithmetic => value[p] = {"blocked"}
         /\ tree[p] = "neg" => value[p] = value[2 * p]
         /\ tree[p] \in {"+", "/", "**"} =>
              /\ value[2 * p] \subseteq Failures \/ value[2 * p + 1] \subseteq Failures =>
                   value[p] \subseteq Failures
              /\ "blocked" \in value[p] =>
                   "blocked" \in value[2 * p] \/ "blocked" \in value[2 * p + 1]
         /\ tree[p] \in Numbers => value[p] = {tree[p]}
<1>1. value[p] = Evaluated(tree, value, p)
  <2>1. value[p] = [q \in DOMAIN tree |-> Evaluated(tree, value, q)][p]
    BY Zenon
  <2> QED
    BY <2>1
<1>2. tree[p] \notin Numbers \cup Arithmetic => value[p] = {"blocked"}
  BY <1>1 DEF Evaluated, Arithmetic
<1>3. tree[p] = "neg" => value[p] = value[2 * p]
  BY <1>1 DEF Evaluated, Numbers
<1>4. tree[p] \in Numbers => value[p] = {tree[p]}
  BY <1>1 DEF Evaluated, Numbers
<1>5. ASSUME tree[p] \in {"+", "/", "**"}
      PROVE  /\ value[2 * p] \subseteq Failures \/ value[2 * p + 1] \subseteq Failures =>
                  value[p] \subseteq Failures
             /\ "blocked" \in value[p] =>
                  "blocked" \in value[2 * p] \/ "blocked" \in value[2 * p + 1]
  <2> DEFINE L == value[2 * p]
             R == value[2 * p + 1]
             Both == Results(tree[p], L, R)
  <2>1. value[p] = (L \cap Failures) \cup (IF L \subseteq Failures THEN {} ELSE R \cap Failures)
                     \cup Both
    <3>1. tree[p] \notin Numbers /\ tree[p] # "neg"
      BY <1>5 DEF Numbers
    <3> QED
      BY <1>1, <1>5, <3>1 DEF Evaluated
  <2>2. "blocked" \notin Both
    BY CombineBlocksNothing DEF Results
  <2>3. L \subseteq Failures \/ R \subseteq Failures => Both = {}
    BY DEF Results
  <2> HIDE DEF L, R, Both
  <2>4. L \subseteq Failures \/ R \subseteq Failures => value[p] \subseteq Failures
    BY <2>1, <2>3
  <2>5. "blocked" \in value[p] => "blocked" \in L \/ "blocked" \in R
    BY <2>1, <2>2
  <2> QED
    BY <2>4, <2>5 DEF L, R
<1> QED
  BY <1>2, <1>3, <1>4, <1>5

(* An expression the policy refuses has no value: the first node in the    *)
(* tree that fails in any case is the root, or its parent fails too.       *)
LEMMA RefusedNeverEvaluates ==
  ASSUME NEW tree, IsTree(tree), ~CalcAllowed(tree)
  PROVE  "success" \notin CalcStatuses(tree)
<1> DEFINE value == Values(tree)
           Fails == {p \in DOMAIN tree : value[p] \subseteq Failures}
<1>1. value = [p \in DOMAIN tree |-> Evaluated(tree, value, p)]
  BY ValuesExist
<1>2. tree # NoTree
  BY DEF IsTree, NoTree
<1> HIDE DEF value
<1>3. Fails # {}
  <2>1. PICK p \in DOMAIN tree : tree[p] \notin Constants \cup Arithmetic
    BY <1>2 DEF CalcAllowed
  <2>2. value[p] = {"blocked"}
    BY <1>1, <2>1, HowNodesFail DEF Constants
  <2> QED
    BY <2>2 DEF Failures
<1>4. PICK p \in Fails : \A q \in Fails : p <= q
  BY <1>3, LeastNatural DEF IsTree
<1>5. ASSUME p # 1 PROVE FALSE
  <2>1. PICK q \in DOMAIN tree : p \in {2 * q, 2 * q + 1}
    BY <1>4, <1>5 DEF IsTree
  <2>2. /\ q \in Nat \ {0} /\ p \in Nat \ {0} /\ p \in DOMAIN tree /\ q < p
        /\ value[p] \subseteq Failures
    BY <1>4, <2>1 DEF IsTree
  <2>3. q \notin Fails
    BY <1>4, <2>2
  <2>4. ~(value[q] \subseteq Failures)
    BY <2>3
  <2>5. CASE tree[q] \in {"+", "/", "**"}
    BY <1>1, <2>1, <2>2, <2>4, <2>5, HowNodesFail
  <2>6. CASE tree[q] = "neg"
    <3>1. p = 2 * q
      BY <2>1, <2>2, <2>6 DEF IsTree
    <3> QED
      BY <1>1, <2>2, <2>4, <2>6, <3>1, HowNodesFail
  <2>7. CASE tree[q] \in Constants
    BY <2>1, <2>2, <2>7 DEF IsTree
  <2>8. CASE tree[q] \notin Constants \cup Arithmetic
    <3>1. value[q] = {"blocked"}
      BY <1>1, <2>8, HowNodesFail DEF Constants
    <3> QED
      BY <2>4, <3>1 DEF Failures
  <2> QED
    BY <2>5, <2>6, <2>7, <2>8 DEF Arithmetic
<1>6. value[1] \subseteq Failures
  BY <1>4, <1>5
<1>7. ValuesOf(tree) \subseteq Failures
  BY <1>6, ValuesOfIsValues DEF value
<1> QED
  BY <1>2, <1>7 DEF CalcStatuses, Failures, Numbers

(* An expression the policy lets pass is only blocked for a constant that  *)
(* is no number: the last blocked node of the tree is one.                 *)
LEMMA BlockedForConstant ==
  ASSUME NEW tree, IsTree(tree), CalcAllowed(tree), "policy_blocked" \in CalcStatuses(tree)
  PROVE  \E p \in DOMAIN tree : tree[p] = "text"
<1> DEFINE value == Values(tree)
           Blocked == {p \in DOMAIN tree : "blocked" \in value[p]}
<1>1. value = [p \in DOMAIN tree |-> Evaluated(tree, value, p)]
  BY ValuesExist
<1>2. tree # NoTree
  BY DEF IsTree, NoTree
<1>3. "blocked" \in ValuesOf(tree)
  BY <1>2 DEF CalcStatuses, Numbers
<1>4. "blocked" \in value[1]
  BY <1>3, ValuesOfIsValues
<1> HIDE DEF value
<1>5. 1 \in Blocked /\ DOMAIN tree \subseteq Nat \ {0} /\ IsFiniteSet(DOMAIN tree)
  BY <1>4 DEF IsTree
<1>6. PICK b \in Nat : \A p \in DOMAIN tree : p <= b
  BY <1>5, FiniteIsBounded
<1> DEFINE Depths == {b - p : p \in Blocked}
<1>7. PICK p \in Blocked : \A q \in Blocked : q <= p
  <2>1. Depths \subseteq Nat /\ Depths # {}
    BY <1>5, <1>6
  <2>2. PICK d \in Depths : \A e \in Depths : d <= e
    BY <2>1, LeastNatural
  <2>3. PICK p \in Blocked : d = b - p
    BY <2>2
  <2>4. \A q \in Blocked : b - p <= b - q
    BY <2>2, <2>3
  <2>5. \A q \in Blocked : q \in Nat
    BY <1>5
  <2> QED
    BY <2>3, <2>4, <2>5
<1>8. p \in DOMAIN tree /\ p \in Nat \ {0} /\ "blocked" \in value[p]
  BY <1>5, <1>7
<1>9. tree[p] \in Constants \cup Arithmetic
  BY <1>8 DEF CalcAllowed
<1>10. CASE tree[p] \in Numbers
  BY <1>1, <1>8, <1>10, HowNodesFail DEF Numbers
<1>11. CASE tree[p] \in Arithmetic
  <2>1. PICK q \in {2 * p, 2 * p + 1} : q \in DOMAIN tree /\ "blocked" \in value[q]
    <3>1. CASE tree[p] = "neg"
      <4>1. 2 * p \in DOMAIN tree
        BY <1>8, <3>1 DEF IsTree
      <4> QED
        BY <1>1, <1>8, <3>1, <4>1, HowNodesFail
    <3>2. CASE tree[p] \in {"+", "/", "**"}
      <4>1. {2 * p, 2 * p + 1} \subseteq DOMAIN tree
        BY <1>8, <3>2 DEF IsTree
      <4> QED
        BY <1>1, <1>8, <3>2, <4>1, HowNodesFail
    <3> QED
      BY <1>11, <3>1, <3>2 DEF Arithmetic
  <2>2. q \in Blocked /\ q > p
    BY <1>8, <2>1
  <2> QED
    BY <1>7, <1>8, <2>2
<1>12. CASE tree[p] = "text"
  BY <1>8, <1>12
<1> QED
  BY <1>9, <1>10, <1>11, <1>12 DEF Constants

-----------------------------------------------------------------------------
(* A step between its validation and its effect. *)

Places   == {"new", "started", "admitted", "made", "looked", "open", "over"}
Statuses == {"none", "no_run", "rejected", "killed",
             "success", "error", "timeout", "schema_error", "policy_blocked"}
Effects  == {"none", "request", "foreign request", "query", "pragma", "statement", "model",
             "write"}

Types ==
  /\ jobs \in Batches
  /\ phase \in [Running -> Places]
  /\ status \in [Running -> Statuses] /\ effect \in [Running -> Effects]
  /\ after \in [Running -> SUBSET Running]

(* What a caller's own history says: it is through with what it passed,    *)
(* and its status and effect come from the tool it was admitted to.        *)
History(c) ==
  LET tool   == jobs[c].tool
      passes == PolicyLetsPass(tool, Asked(c), Config(c))
  IN  /\ phase[c] # "over" => status[c] = "none" /\ effect[c] = "none"
      /\ jobs[c].planned /\ phase[c] = "admitted" => passes
      /\ phase[c] \in {"made", "looked", "open"} => tool = "file_write"
      /\ status[c] = "policy_blocked" =>
           \/ tool = "calc" /\ "policy_blocked" \in CalcStatuses(Asked(c).expression)
           \/ tool = "file_write" /\ Escapes(Root, Asked(c).path)
      /\ status[c] = "success" /\ tool = "calc" =>
           "success" \in CalcStatuses(Asked(c).expression)
      /\ jobs[c].planned /\ effect[c] = "foreign request" =>
           tool \in {"http_get", "http_post"} /\ passes /\ Asked(c).url.host \notin DefaultHosts
      /\ jobs[c].planned /\ effect[c] \in {"statement", "pragma"} =>
           /\ tool = "db_query" /\ passes
           /\ Asked(c).sql.verb # "select"
           /\ effect[c] = "statement" => Asked(c).sql.verb # "pragma"
      /\ effect[c] = "model" => Provider(Config(c)) = "remote"

Inv == Types /\ \A c \in Running : History(c)

LEMMA JobTypes ==
  ASSUME Types, NEW c \in Running
  PROVE  IsJob(jobs[c])
  BY AdmissionAssumption DEF Types, Running

LEMMA InitInv == Init => Inv
<1> SUFFICES ASSUME Init PROVE Inv
  OBVIOUS
<1>1. Types
  <2>1. effect \in [Running -> Effects] /\ status \in [Running -> Statuses]
    BY DEF Init, Statuses, Effects
  <2>2. after \in [Running -> SUBSET Running] /\ phase \in [Running -> Places]
    BY DEF Init, Places
  <2> QED
    BY <2>1, <2>2 DEF Init, Types
<1>2. ASSUME NEW c \in Running PROVE History(c)
  <2>1. phase[c] = "new" /\ status[c] = "none" /\ effect[c] = "none"
    BY DEF Init
  <2> QED
    BY <2>1 DEF History
<1> QED
  BY <1>1, <1>2 DEF Inv

(* A function of the callers that changes for one of them at most.         *)
Moved(c, f, g, S) == g \in [Running -> S] /\ \A d \in Running \ {c} : g[d] = f[d]

LEMMA MovedTo ==
  ASSUME NEW S, NEW f \in [Running -> S], NEW c \in Running, NEW v \in S
  PROVE  Moved(c, f, [f EXCEPT ![c] = v], S) /\ Moved(c, f, f, S)
  BY DEF Moved

LEMMA GoesMoves ==
  ASSUME Types, NEW c \in Running, NEW from, NEW to \in Places, Goes(c, from, to)
  PROVE  Moved(c, phase, phase', Places)
  BY MovedTo DEF Types, Goes

LEMMA EndsMoves ==
  ASSUME Types, NEW c \in Running, NEW from, NEW st \in Statuses, Ends(c, from, st)
  PROVE  Moved(c, phase, phase', Places) /\ Moved(c, status, status', Statuses)
  BY GoesMoves, MovedTo DEF Types, Ends, Places

(* One caller's step concerns itself. *)
LEMMA OneMoves ==
  ASSUME Types, NEW c \in Running, Step(c) \/ Kill(c)
  PROVE  /\ Types' /\ jobs' = jobs /\ Running' = Running
         /\ \A d \in Running \ {c} : /\ phase'[d] = phase[d] /\ status'[d] = status[d]
                                     /\ effect'[d] = effect[d] /\ after'[d] = after[d]
<1>0. /\ phase \in [Running -> Places] /\ status \in [Running -> Statuses]
      /\ effect \in [Running -> Effects] /\ after \in [Running -> SUBSET Running]
      /\ jobs \in Batches
      /\ {"over", "started", "admitted", "made", "looked", "open"} \subseteq Places
      /\ {"no_run", "rejected", "killed", "success", "error", "policy_blocked"} \subseteq Statuses
  BY DEF Types, Places, Statuses
<1>a. ASSUME jobs' = jobs,
             Moved(c, phase, phase', Places), Moved(c, status, status', Statuses),
             Moved(c, effect, effect', Effects), Moved(c, after, after', SUBSET Running)
      PROVE  /\ Types' /\ jobs' = jobs /\ Running' = Running
             /\ \A d \in Running \ {c} : /\ phase'[d] = phase[d] /\ status'[d] = status[d]
                                         /\ effect'[d] = effect[d] /\ after'[d] = after[d]
  BY <1>0, <1>a DEF Types, Moved, Running
<1>b. /\ status' = status => Moved(c, status, status', Statuses)
      /\ effect' = effect => Moved(c, effect, effect', Effects)
      /\ after' = after => Moved(c, after, after', SUBSET Running)
  BY <1>0 DEF Moved
<1>c. ASSUME NEW e \in Effects, effect' = [effect EXCEPT ![c] = e]
      PROVE  Moved(c, effect, effect', Effects)
  BY <1>0, <1>c, MovedTo
<1>1. CASE StartRun(c)
  <2>1. Moved(c, phase, phase', Places) /\ Moved(c, status, status', Statuses)
    BY <1>0, <1>1, <1>b, GoesMoves, EndsMoves DEF StartRun
  <2> QED
    BY <1>1, <1>a, <1>b, <2>1 DEF StartRun, fileVars
<1>2. CASE Admit(c)
  <2>1. Moved(c, phase, phase', Places) /\ Moved(c, status, status', Statuses)
    BY <1>0, <1>2, <1>b, GoesMoves, EndsMoves DEF Admit
  <2> QED
    BY <1>2, <1>a, <1>b, <2>1 DEF Admit, fileVars
<1>3. CASE CallCalc(c)
  <2>1. \A st \in CalcStatuses(Asked(c).expression) : st \in Statuses
    BY DEF CalcStatuses, Statuses
  <2>2. Moved(c, phase, phase', Places) /\ Moved(c, status, status', Statuses)
    BY <1>3, <2>1, EndsMoves DEF CallCalc
  <2> QED
    BY <1>3, <1>a, <1>b, <2>2 DEF CallCalc, fileVars
<1>4. CASE CallHttp(c)
  <2>1. PICK st \in Statuses : Ends(c, "admitted", st)
    BY <1>4 DEF CallHttp, Statuses
  <2>2. Moved(c, phase, phase', Places) /\ Moved(c, status, status', Statuses)
    BY <2>1, EndsMoves
  <2>3. Moved(c, effect, effect', Effects)
    BY <1>4, <1>b, <1>c DEF CallHttp, Effects
  <2> QED
    BY <1>4, <1>a, <1>b, <2>2, <2>3 DEF CallHttp, fileVars
<1>5. CASE CallDb(c)
  <2>1. Moved(c, phase, phase', Places) /\ Moved(c, status, status', Statuses)
    BY <1>0, <1>5, EndsMoves DEF CallDb
  <2>2. PICK e \in DbEffects(Asked(c).sql.verb) : effect' = [effect EXCEPT ![c] = e]
    BY <1>5 DEF CallDb
  <2>3. e \in Effects
    BY DEF DbEffects, Effects
  <2>4. Moved(c, effect, effect', Effects)
    BY <2>2, <2>3, <1>c
  <2> QED
    BY <1>5, <1>a, <1>b, <2>1, <2>4 DEF CallDb, fileVars
<1>6. CASE CallSummarize(c)
  <2>1. PICK st \in Statuses : Ends(c, "admitted", st)
    BY <1>6 DEF CallSummarize, SummarizeStatuses, Statuses
  <2>2. Moved(c, phase, phase', Places) /\ Moved(c, status, status', Statuses)
    BY <2>1, EndsMoves
  <2>3. Moved(c, effect, effect', Effects)
    BY <1>6, <1>c DEF CallSummarize, Effects
  <2> QED
    BY <1>6, <1>a, <1>b, <2>2, <2>3 DEF CallSummarize, fileVars
<1>7. CASE MakeDirs(c)
  <2>1. Moved(c, after, after', SUBSET Running)
    <3> DEFINE through == {d \in Running : phase[d] = "over"}
    <3>1. through \in SUBSET Running /\ after' = [after EXCEPT ![c] = through]
      BY <1>7 DEF MakeDirs
    <3> HIDE DEF through
    <3> QED
      BY <1>0, <3>1, MovedTo
  <2>2. Moved(c, phase, phase', Places) /\ Moved(c, status, status', Statuses)
    <3>1. CASE Escapes(Root, Asked(c).path)
      BY <1>0, <1>7, <3>1, EndsMoves DEF MakeDirs
    <3>2. CASE ~Escapes(Root, Asked(c).path)
               /\ (Asked(c).createDirs /\ Above(Place(c)) \cap DOMAIN files # {})
      BY <1>0, <1>7, <3>2, EndsMoves DEF MakeDirs
    <3>3. CASE ~Escapes(Root, Asked(c).path)
               /\ ~(Asked(c).createDirs /\ Above(Place(c)) \cap DOMAIN files # {})
      BY <1>0, <1>7, <1>b, <3>3, GoesMoves DEF MakeDirs
    <3> QED
      BY <3>1, <3>2, <3>3
  <2> QED
    BY <1>7, <1>a, <1>b, <2>1, <2>2 DEF MakeDirs
<1>8. CASE Look(c)
  <2>1. Moved(c, phase, phase', Places) /\ Moved(c, status, status', Statuses)
    BY <1>0, <1>8, <1>b, GoesMoves, EndsMoves DEF Look
  <2> QED
    BY <1>8, <1>a, <1>b, <2>1 DEF Look, fileVars
<1>9. CASE OpenFile(c)
  <2>1. Moved(c, phase, phase', Places) /\ Moved(c, status, status', Statuses)
    BY <1>0, <1>9, <1>b, GoesMoves, EndsMoves DEF OpenFile
  <2> QED
    BY <1>9, <1>a, <1>b, <2>1 DEF OpenFile
<1>10. CASE WriteContent(c)
  <2>1. Moved(c, phase, phase', Places) /\ Moved(c, status, status', Statuses)
    BY <1>0, <1>10, EndsMoves DEF WriteContent
  <2>2. Moved(c, effect, effect', Effects)
    BY <1>10, <1>c DEF WriteContent, Effects
  <2> QED
    BY <1>10, <1>a, <1>b, <2>1, <2>2 DEF WriteContent
<1>11. CASE Kill(c)
  <2>1. Moved(c, phase, phase', Places) /\ Moved(c, status, status', Statuses)
    BY <1>0, <1>11, EndsMoves DEF Kill
  <2> QED
    BY <1>11, <1>a, <1>b, <2>1 DEF Kill, fileVars
<1> QED
  BY <1>1, <1>2, <1>3, <1>4, <1>5, <1>6, <1>7, <1>8, <1>9, <1>10, <1>11 DEF Step

LEMMA HistoryStays ==
  ASSUME jobs' = jobs, NEW d, History(d), phase'[d] = phase[d], status'[d] = status[d],
         effect'[d] = effect[d]
  PROVE  History(d)'
  BY DEF History, Asked, Config

LEMMA HistoryNext ==
  ASSUME Types, NEW c \in Running, History(c), Step(c) \/ Kill(c)
  PROVE  History(c)'
<1>0. phase[c] \in Places /\ jobs' = jobs /\ Asked(c)' = Asked(c) /\ Config(c)' = Config(c)
  BY OneMoves DEF Types, Asked, Config
<1> DEFINE tool   == jobs[c].tool
           passes == PolicyLetsPass(tool, Asked(c), Config(c))
           Told   ==
             /\ phase'[c] # "over" => status'[c] = "none" /\ effect'[c] = "none"
             /\ jobs[c].planned /\ phase'[c] = "admitted" => passes
             /\ phase'[c] \in {"made", "looked", "open"} => tool = "file_write"
             /\ status'[c] = "policy_blocked" =>
                  \/ tool = "calc" /\ "policy_blocked" \in CalcStatuses(Asked(c).expression)
                  \/ tool = "file_write" /\ Escapes(Root, Asked(c).path)
             /\ status'[c] = "success" /\ tool = "calc" =>
                  "success" \in CalcStatuses(Asked(c).expression)
             /\ jobs[c].planned /\ effect'[c] = "foreign request" =>
                  /\ tool \in {"http_get", "http_post"} /\ passes
                  /\ Asked(c).url.host \notin DefaultHosts
             /\ jobs[c].planned /\ effect'[c] \in {"statement", "pragma"} =>
                  /\ tool = "db_query" /\ passes
                  /\ Asked(c).sql.verb # "select"
                  /\ effect'[c] = "statement" => Asked(c).sql.verb # "pragma"
             /\ effect'[c] = "model" => Provider(Config(c)) = "remote"
<1>a. Told => History(c)'
  BY <1>0 DEF History
<1>b. /\ phase \in [Running -> Places] /\ status \in [Running -> Statuses]
      /\ effect \in [Running -> Effects]
  BY DEF Types
<1>c. /\ phase[c] # "over" => status[c] = "none" /\ effect[c] = "none"
      /\ jobs[c].planned /\ phase[c] = "admitted" => passes
      /\ phase[c] \in {"made", "looked", "open"} => tool = "file_write"
  BY DEF History
<1>1. CASE StartRun(c)
  BY <1>1, <1>a, <1>b, <1>c DEF StartRun, Ends, Goes
<1>2. CASE Admit(c)
  BY <1>2, <1>a, <1>b, <1>c DEF Admit, Ends, Goes
<1>3. CASE CallCalc(c)
  BY <1>3, <1>a, <1>b, <1>c DEF CallCalc, Ends, Goes
<1>4. CASE CallHttp(c)
  BY <1>4, <1>a, <1>b, <1>c DEF CallHttp, Ends, Goes
<1>5. CASE CallDb(c)
  <2>1. PICK e \in DbEffects(Asked(c).sql.verb) : effect' = [effect EXCEPT ![c] = e]
    BY <1>5 DEF CallDb
  <2>2. /\ e \in {"query", "pragma", "statement"}
        /\ e \in {"statement", "pragma"} => Asked(c).sql.verb # "select"
        /\ e = "statement" => Asked(c).sql.verb # "pragma"
    BY DEF DbEffects
  <2> QED
    BY <1>5, <1>a, <1>b, <1>c, <2>1, <2>2 DEF CallDb, Ends, Goes
<1>6. CASE CallSummarize(c)
  BY <1>6, <1>a, <1>b, <1>c DEF CallSummarize, Ends, Goes, SummarizeStatuses
<1>7. CASE MakeDirs(c)
  BY <1>7, <1>a, <1>b, <1>c DEF MakeDirs, Ends, Goes
<1>8. CASE Look(c)
  BY <1>8, <1>a, <1>b, <1>c DEF Look, Ends, Goes
<1>9. CASE OpenFile(c)
  BY <1>9, <1>a, <1>b, <1>c DEF OpenFile, Ends, Goes
<1>10. CASE WriteContent(c)
  BY <1>10, <1>a, <1>b, <1>c DEF WriteContent, Ends, Goes
<1>11. CASE Kill(c)
  BY <1>11, <1>a, <1>b, <1>c DEF Kill, Ends, Goes
<1> QED
  BY <1>1, <1>2, <1>3, <1>4, <1>5, <1>6, <1>7, <1>8, <1>9, <1>10, <1>11 DEF Step

LEMMA InvNext == Inv /\ [Next]_admissionVars => Inv'
<1> SUFFICES ASSUME Inv, [Next]_admissionVars PROVE Inv'
  OBVIOUS
<1>0. Types /\ \A c \in Running : History(c)
  BY DEF Inv
<1>1. ASSUME NEW c \in Running, Step(c) \/ Kill(c) PROVE Inv'
  <2>1. /\ Types' /\ jobs' = jobs /\ Running' = Running
        /\ \A d \in Running \ {c} : /\ phase'[d] = phase[d] /\ status'[d] = status[d]
                                    /\ effect'[d] = effect[d]
    BY <1>0, <1>1, OneMoves
  <2>2. History(c)'
    BY <1>0, <1>1, HistoryNext
  <2>3. \A d \in Running \ {c} : History(d)'
    BY <1>0, <2>1, HistoryStays
  <2> QED
    BY <2>1, <2>2, <2>3 DEF Inv
<1>2. ASSUME UNCHANGED admissionVars PROVE Inv'
  BY <1>0, <1>2 DEF admissionVars, Inv, Types, Running, History, Asked, Config
<1> QED
  BY <1>1, <1>2 DEF Next, AllOver

LEMMA Invariant == Spec => []Inv
  BY InitInv, InvNext, PTL DEF Spec

-----------------------------------------------------------------------------
(* What follows from everybody's history. *)

LEMMA GuardsFollow == Inv => GuardsAgree
<1> SUFFICES ASSUME Inv, NEW c \in Running
             PROVE  LET passes == PolicyLetsPass(jobs[c].tool, Asked(c), Config(c))
                    IN  /\ status[c] = "policy_blocked" /\ passes =>
                             jobs[c].tool = "calc" /\ HasOddConstant(Asked(c).expression)
                        /\ status[c] = "success" /\ jobs[c].tool = "calc" => passes
  BY DEF GuardsAgree
<1> DEFINE passes == PolicyLetsPass(jobs[c].tool, Asked(c), Config(c))
           tree   == Asked(c).expression
<1>0. History(c) /\ IsJob(jobs[c])
  BY JobTypes DEF Inv
<1>1. jobs[c].tool = "calc" => (tree = NoTree \/ IsTree(tree)) /\ (passes <=> CalcAllowed(tree))
  BY <1>0 DEF IsJob, Asked, PolicyLetsPass
<1>2. ASSUME jobs[c].tool = "calc", "success" \in CalcStatuses(tree) PROVE passes
  <2>1. tree # NoTree
    BY <1>2 DEF CalcStatuses
  <2> QED
    BY <1>1, <1>2, <2>1, RefusedNeverEvaluates
<1>3. ASSUME jobs[c].tool = "calc", "policy_blocked" \in CalcStatuses(tree), passes
      PROVE  HasOddConstant(tree)
  <2>1. CalcAllowed(tree) /\ IsTree(tree)
    BY <1>1, <1>3 DEF CalcAllowed
  <2> QED
    BY <1>3, <2>1, BlockedForConstant DEF HasOddConstant
<1>4. ASSUME jobs[c].tool = "file_write", Escapes(Root, Asked(c).path) PROVE ~passes
  <2>1. Asked(c).path.parts \in Seq(STRING)
    BY <1>0, <1>4 DEF IsJob, Asked
  <2>2. ~PathAllowed(Asked(c).path)
    BY <1>4, <2>1, AllowedStaysInside, AdmissionAssumption
  <2> QED
    BY <1>4, <2>2 DEF PolicyLetsPass
<1> QED
  BY <1>0, <1>2, <1>3, <1>4 DEF History

LEMMA DefaultsFollow == Inv => SafeByDefault
<1> SUFFICES ASSUME Inv, NEW c \in Running
             PROVE  LET env == jobs[c].env
                    IN  /\ jobs[c].planned /\ effect[c] = "foreign request" =>
                             \/ env.realHttp = "true"
                             \/ env.hosts.given /\ Asked(c).url.host \in env.hosts.names
                        /\ jobs[c].planned /\ effect[c] \in {"statement", "pragma"} =>
                             \/ env.dbWrites = "true" /\ ~Asked(c).sql.readonly
                             \/ Asked(c).sql.readonly /\ Asked(c).sql.verb = "pragma"
                        /\ effect[c] = "model" =>
                             env.noLlm \in {"blank", "false"} /\ env.key /\ env.baseUrl
  BY DEF SafeByDefault
<1> DEFINE env == jobs[c].env
<1>0. History(c) /\ env \in Environments
  BY JobTypes DEF Inv, IsJob
<1>1. /\ Config(c).realHttp <=> env.realHttp = "true"
      /\ Config(c).dbWrites <=> env.dbWrites = "true"
      /\ ~Config(c).noLlm => env.noLlm \in {"blank", "false"}
      /\ Config(c).key = env.key /\ Config(c).baseUrl = env.baseUrl
      /\ Config(c).hosts = IF env.hosts.given THEN env.hosts.names ELSE DefaultHosts
  BY <1>0 DEF Config, LoadConfig, ParseBool, ParseHosts, Environments, Flags, DefaultHosts
<1>2. ASSUME jobs[c].planned, effect[c] = "foreign request"
      PROVE  \/ env.realHttp = "true"
             \/ env.hosts.given /\ Asked(c).url.host \in env.hosts.names
  <2>1. UrlAllowed(Asked(c).url, Config(c)) /\ Asked(c).url.host \notin DefaultHosts
    BY <1>0, <1>2 DEF History, PolicyLetsPass
  <2> QED
    BY <1>1, <2>1 DEF UrlAllowed
<1>3. ASSUME jobs[c].planned, effect[c] \in {"statement", "pragma"}
      PROVE  \/ env.dbWrites = "true" /\ ~Asked(c).sql.readonly
             \/ Asked(c).sql.readonly /\ Asked(c).sql.verb = "pragma"
  <2>1. SqlAllowed(Asked(c).sql, Config(c)) /\ Asked(c).sql.verb # "select"
    BY <1>0, <1>3 DEF History, PolicyLetsPass
  <2> QED
    BY <1>1, <2>1 DEF SqlAllowed
<1>4. ASSUME effect[c] = "model"
      PROVE  env.noLlm \in {"blank", "false"} /\ env.key /\ env.baseUrl
  <2>1. Provider(Config(c)) = "remote"
    BY <1>0, <1>4 DEF History
  <2> QED
    BY <1>1, <2>1 DEF Provider
<1> QED
  BY <1>2, <1>3, <1>4

(* The policy and the tools walk expressions and paths each in their own   *)
(* way, and agree on all of them, however deep: calc_tool only blocks      *)
(* what was validated for a constant, file_write_tool never does, and what *)
(* the policy refuses does not evaluate.                                   *)
THEOREM GuardsOfBothAgree == Spec => []GuardsAgree
  BY GuardsFollow, Invariant, PTL

(* No validated step of any number of processes reaches out further than   *)
(* the environment it was started in allows: another server only with real *)
(* requests on or its name in the allowlist, the database only with writes *)
(* on or by a PRAGMA, a model only where three settings make one.          *)
THEOREM DefaultsAreSafe == Spec => []SafeByDefault
  BY DefaultsFollow, Invariant, PTL

-----------------------------------------------------------------------------
(* Files. *)

(* Every other call for that file was through before this one began. *)
Undisturbed(c) == \A d \in Running \ {c} : WritesTo(d, Place(c)) => d \in after[c]

Wrote(c) == IsWriter(c) /\ status[c] = "success"

(* Where a writer stands.  While it has the file open and nobody disturbs  *)
(* it, the file is empty; one that may not overwrite goes on past its look *)
(* only if nothing was there, or written by one it waited for.             *)
Writing(c) ==
  /\ after[c] \subseteq {d \in Running : phase[d] = "over"}
  /\ phase[c] \in {"made", "looked", "open"} => ~Escapes(Root, Asked(c).path)
  /\ phase[c] = "open" \/ Wrote(c) => Place(c) \in DOMAIN files
  /\ Undisturbed(c) =>
       /\ phase[c] = "open" => files[Place(c)] = << >>
       /\ Wrote(c) => files[Place(c)] = Whole(c)
  /\ ~Asked(c).overwrite /\ (phase[c] \in {"looked", "open"} \/ Wrote(c)) =>
       /\ Place(c) \notin DOMAIN FilesBefore
       /\ \A d \in after[c] : ~(WritesTo(d, Place(c)) /\ status[d] = "success")

(* What is outside is as it was, and no file disappears.                   *)
Outside ==
  /\ DOMAIN FilesBefore \subseteq DOMAIN files
  /\ \A p \in DOMAIN files : ~Within(Root, p) =>
       p \in DOMAIN FilesBefore /\ files[p] = FilesBefore[p]
  /\ \A d \in dirs : ~Within(Root, d) => d \in DirsBefore

Kept == Outside /\ \A c \in Running : Writing(c)

LEMMA InitKept == Init => Kept
<1> SUFFICES ASSUME Init PROVE Kept
  OBVIOUS
<1>1. Outside
  BY DEF Init, Outside
<1>2. ASSUME NEW c \in Running PROVE Writing(c)
  <2>1. phase[c] = "new" /\ status[c] = "none" /\ after[c] = {}
    BY DEF Init
  <2> QED
    BY <2>1 DEF Writing, Wrote
<1> QED
  BY <1>1, <1>2 DEF Kept

(* A place above one in the workspace is in it or above the workspace.     *)
LEMMA AboveInside ==
  ASSUME NEW S, NEW root \in Seq(S), NEW place \in Seq(S), Within(root, place),
         NEW d \in Above(place), ~Within(root, d)
  PROVE  d \in Above(root)
<1>1. PICK n \in 0..(Len(place) - 1) : d = SubSeq(place, 1, n)
  BY DEF Above
<1>2. Len(root) \in Nat /\ Len(place) \in Nat /\ Len(root) <= Len(place)
  BY DEF Within
<1>3. d \in Seq(S) /\ Len(d) = n /\ \A i \in 1..n : d[i] = place[i]
  BY <1>1, <1>2
<1>4. \A i \in 1..Len(root) : root[i] = place[i]
  <2>1. SubSeq(place, 1, Len(root)) = root
    BY DEF Within
  <2>2. \A i \in 1..Len(root) : SubSeq(place, 1, Len(root))[i] = place[i]
    BY <1>2
  <2> QED
    BY <2>1, <2>2
<1>5. CASE n < Len(root)
  <2>1. SubSeq(root, 1, n) \in Seq(S) /\ Len(SubSeq(root, 1, n)) = n
        /\ \A i \in 1..n : SubSeq(root, 1, n)[i] = root[i]
    BY <1>2, <1>5
  <2>2. SubSeq(root, 1, n) = d
    BY <1>2, <1>3, <1>4, <1>5, <2>1
  <2> QED
    BY <1>2, <1>5, <2>2 DEF Above
<1>6. CASE n >= Len(root)
  <2>1. SubSeq(d, 1, Len(root)) \in Seq(S) /\ Len(SubSeq(d, 1, Len(root))) = Len(root)
        /\ \A i \in 1..Len(root) : SubSeq(d, 1, Len(root))[i] = d[i]
    BY <1>2, <1>3, <1>6
  <2>2. SubSeq(d, 1, Len(root)) = root
    BY <1>2, <1>3, <1>4, <1>6, <2>1
  <2> QED
    BY <1>2, <1>3, <1>6, <2>2 DEF Within
<1> QED
  BY <1>2, <1>5, <1>6

(* What is written over nothing is what was written. *)
LEMMA OverlaidNothing ==
  ASSUME NEW c, Asked(c).size \in Nat
  PROVE  Overlaid(c, << >>) = Whole(c)
<1>1. Len(<< >>) = 0 /\ ~(Len(<< >>) > Asked(c).size)
  OBVIOUS
<1>2. \A i \in 1..Asked(c).size : i <= Asked(c).size
  OBVIOUS
<1> QED
  BY <1>1, <1>2 DEF Overlaid, Whole

(* A step changes at most its caller's file, when that is being written.   *)
LEMMA FilesMove ==
  ASSUME Inv, Kept, NEW c \in Running, Step(c) \/ Kill(c)
  PROVE  /\ phase[c] # "over"
         /\ phase[c] \in {"looked", "open"} => phase'[c] \in {"looked", "open", "over"}
         /\ \/ files' = files
            \/ /\ IsWriter(c) /\ phase[c] \in {"looked", "open"}
               /\ DOMAIN files' = DOMAIN files \cup {Place(c)}
               /\ \A p \in DOMAIN files \ {Place(c)} : files'[p] = files[p]
         /\ \/ dirs' = dirs
            \/ ~Escapes(Root, Asked(c).path) /\ dirs' = dirs \cup Above(Place(c)) /\ IsWriter(c)
<1>0. History(c) /\ Writing(c) /\ phase \in [Running -> Places]
  BY DEF Inv, Types, Kept
<1>1. CASE StartRun(c)
  BY <1>0, <1>1 DEF StartRun, Ends, Goes, fileVars
<1>2. CASE Admit(c)
  BY <1>0, <1>2 DEF Admit, Ends, Goes, fileVars
<1>3. CASE CallCalc(c)
  BY <1>0, <1>3 DEF CallCalc, Ends, Goes, fileVars
<1>4. CASE CallHttp(c)
  BY <1>0, <1>4 DEF CallHttp, Ends, Goes, fileVars
<1>5. CASE CallDb(c)
  BY <1>0, <1>5 DEF CallDb, Ends, Goes, fileVars
<1>6. CASE CallSummarize(c)
  BY <1>0, <1>6 DEF CallSummarize, Ends, Goes, fileVars
<1>7. CASE MakeDirs(c)
  BY <1>0, <1>7 DEF MakeDirs, Ends, Goes, IsWriter
<1>8. CASE Look(c)
  BY <1>0, <1>8 DEF Look, Ends, Goes, fileVars
<1>9. CASE OpenFile(c)
  <2>1. IsWriter(c) /\ phase[c] = "looked" /\ dirs' = dirs
    BY <1>0, <1>9 DEF OpenFile, History, IsWriter
  <2>2. phase'[c] \in {"open", "over"}
    BY <1>0, <1>9 DEF OpenFile, Ends, Goes
  <2>3. \/ files' = files
        \/ files' = [p \in DOMAIN files \cup {Place(c)} |->
                       IF p = Place(c) THEN << >> ELSE files[p]]
    BY <1>9 DEF OpenFile
  <2> QED
    BY <2>1, <2>2, <2>3
<1>10. CASE WriteContent(c)
  <2>1. IsWriter(c) /\ phase[c] = "open" /\ phase'[c] = "over" /\ dirs' = dirs
    BY <1>0, <1>10 DEF WriteContent, Ends, Goes, History, IsWriter
  <2>2. Place(c) \in DOMAIN files
    BY <1>0, <2>1 DEF Writing
  <2>3. files' = [files EXCEPT ![Place(c)] = Overlaid(c, files[Place(c)])]
    BY <1>10 DEF WriteContent
  <2> HIDE DEF Place
  <2>4. DOMAIN files' = DOMAIN files /\ \A p \in DOMAIN files \ {Place(c)} : files'[p] = files[p]
    BY <2>3
  <2> QED
    BY <2>1, <2>2, <2>4
<1>11. CASE Kill(c)
  BY <1>0, <1>11 DEF Kill, Ends, Goes, fileVars
<1> QED
  BY <1>1, <1>2, <1>3, <1>4, <1>5, <1>6, <1>7, <1>8, <1>9, <1>10, <1>11 DEF Step

LEMMA PlaceType ==
  ASSUME Inv, NEW c \in Running, IsWriter(c)
  PROVE  Place(c) \in Seq(STRING) /\ Asked(c).size \in Nat
<1>1. Asked(c).path.parts \in Seq(STRING) /\ Asked(c).size \in Nat
  BY JobTypes DEF Inv, IsJob, Asked, IsWriter
<1> QED
  BY <1>1, ResolvedType, AdmissionAssumption DEF Place

LEMMA OutsideNext ==
  ASSUME Inv, Kept, NEW c \in Running, Step(c) \/ Kill(c)
  PROVE  Outside'
<1>0. Outside /\ Writing(c) /\ Root \in Seq(STRING) /\ Above(Root) \subseteq DirsBefore
  BY AdmissionAssumption DEF Kept
<1>1. phase[c] \in {"looked", "open"} => Within(Root, Place(c))
  BY <1>0 DEF Writing, Escapes, Place
<1>2. /\ DOMAIN files \subseteq DOMAIN files'
      /\ \A p \in DOMAIN files' : ~Within(Root, p) => p \in DOMAIN files /\ files'[p] = files[p]
  BY <1>1, FilesMove
<1>3. \A d \in dirs' : ~Within(Root, d) => d \in dirs \/ d \in DirsBefore
  <2>1. CASE dirs' = dirs
    BY <2>1
  <2>2. CASE ~Escapes(Root, Asked(c).path) /\ dirs' = dirs \cup Above(Place(c)) /\ IsWriter(c)
    <3>1. Within(Root, Place(c)) /\ Place(c) \in Seq(STRING)
      BY <2>2, PlaceType DEF Escapes, Place
    <3>2. \A d \in Above(Place(c)) : ~Within(Root, d) => d \in Above(Root)
      BY <1>0, <3>1, AboveInside
    <3> QED
      BY <1>0, <2>2, <3>2
  <2> QED
    BY <2>1, <2>2, FilesMove
<1> QED
  BY <1>0, <1>2, <1>3 DEF Outside

(* For a caller that a step leaves alone. *)
LEMMA OthersWriting ==
  ASSUME Inv, Kept, NEW c \in Running, Step(c) \/ Kill(c), NEW d \in Running \ {c}
  PROVE  Writing(d)'
<1>0. /\ Writing(d) /\ jobs' = jobs /\ Running' = Running /\ phase[c] # "over"
      /\ \A e \in Running \ {c} : /\ phase'[e] = phase[e] /\ status'[e] = status[e]
                                  /\ after'[e] = after[e]
  BY OneMoves, FilesMove DEF Inv, Kept
<1>1. /\ \A e : Asked(e)' = Asked(e) /\ IsWriter(e)' = IsWriter(e) /\ Place(e)' = Place(e)
      /\ Whole(d)' = Whole(d)
  BY <1>0 DEF Asked, IsWriter, Place, Whole
<1>2. c \notin after[d] /\ after[d] \subseteq Running
  BY <1>0 DEF Writing
<1>3. Undisturbed(d)' => Undisturbed(d)
  <2>1. ASSUME NEW e \in Running \ {d}, WritesTo(e, Place(d)) PROVE WritesTo(e, Place(d))'
    BY <1>0, <1>1, <2>1, FilesMove DEF WritesTo
  <2> QED
    BY <1>0, <1>1, <2>1 DEF Undisturbed
<1>4. Wrote(d)' = Wrote(d)
  BY <1>0, <1>1 DEF Wrote
<1>5. \A e \in after[d] : WritesTo(e, Place(d))' = WritesTo(e, Place(d)) /\ status'[e] = status[e]
  BY <1>0, <1>1, <1>2 DEF WritesTo
<1>6. Place(d) \in DOMAIN files => Place(d) \in DOMAIN files'
  BY FilesMove
<1>7. Undisturbed(d) /\ Place(d) \in DOMAIN files => files'[Place(d)] = files[Place(d)]
  <2>1. CASE files' = files
    BY <2>1
  <2>2. CASE IsWriter(c) /\ phase[c] \in {"looked", "open"} /\ Place(c) = Place(d)
    <3>1. WritesTo(c, Place(d))
      BY <2>2 DEF WritesTo
    <3> QED
      BY <1>2, <3>1 DEF Undisturbed
  <2>3. CASE Place(c) # Place(d) /\ \A p \in DOMAIN files \ {Place(c)} : files'[p] = files[p]
    BY <2>3
  <2> QED
    BY <2>1, <2>2, <2>3, FilesMove
<1>8. after[d] \subseteq {e \in Running : phase'[e] = "over"}
  BY <1>0, <1>2 DEF Writing
<1> QED
  BY <1>0, <1>1, <1>3, <1>4, <1>5, <1>6, <1>7, <1>8 DEF Writing

(* For the caller that takes it. *)
LEMMA OwnWriting ==
  ASSUME Inv, Kept, NEW c \in Running, Step(c) \/ Kill(c)
  PROVE  Writing(c)'
<1>0. /\ Writing(c) /\ jobs' = jobs /\ Running' = Running /\ phase[c] # "over"
      /\ \A e \in Running \ {c} : phase'[e] = phase[e] /\ status'[e] = status[e]
      /\ History(c) /\ DOMAIN FilesBefore \subseteq DOMAIN files
      /\ phase \in [Running -> Places] /\ status \in [Running -> Statuses]
      /\ after \in [Running -> SUBSET Running]
  BY OneMoves, FilesMove DEF Inv, Kept, Types, Outside
<1>1. /\ \A e : Asked(e)' = Asked(e) /\ IsWriter(e)' = IsWriter(e) /\ Place(e)' = Place(e)
      /\ Whole(c)' = Whole(c)
  BY <1>0 DEF Asked, IsWriter, Place, Whole
<1>2. after[c] \subseteq Running \ {c} /\ \A e \in after[c] : phase[e] = "over"
  BY <1>0 DEF Writing
<1>3. status[c] = "none"
  BY <1>0 DEF History
(* A step that leaves the file alone and does not get past the look. *)
<1>a. ASSUME after' = after, phase'[c] \in {"started", "admitted", "over"},
             ~IsWriter(c) \/ status'[c] # "success"
      PROVE  Writing(c)'
  <2>1. ~Wrote(c)'
    BY <1>1, <1>a DEF Wrote
  <2> QED
    BY <1>0, <1>a, <1>2, <2>1 DEF Writing
<1>4. CASE StartRun(c)
  BY <1>0, <1>3, <1>4, <1>a DEF StartRun, Ends, Goes, fileVars
<1>5. CASE Admit(c)
  BY <1>0, <1>3, <1>5, <1>a DEF Admit, Ends, Goes, fileVars
<1>6. CASE CallCalc(c) \/ CallHttp(c) \/ CallDb(c) \/ CallSummarize(c)
  <2>1. after' = after /\ phase'[c] = "over" /\ ~IsWriter(c)
    BY <1>0, <1>6 DEF CallCalc, CallHttp, CallDb, CallSummarize, Ends, Goes, fileVars, IsWriter
  <2> QED
    BY <1>a, <2>1
<1>7. CASE MakeDirs(c)
  <2>1. /\ phase'[c] \in {"made", "over"} /\ status'[c] # "success"
        /\ phase'[c] = "made" => ~Escapes(Root, Asked(c).path)
    BY <1>0, <1>3, <1>7 DEF MakeDirs, Ends, Goes
  <2>2. after'[c] \subseteq {e \in Running : phase'[e] = "over"}
    <3>1. after'[c] = {e \in Running : phase[e] = "over"}
      BY <1>0, <1>7 DEF MakeDirs
    <3> QED
      BY <1>0, <3>1
  <2>3. ~Wrote(c)'
    BY <2>1 DEF Wrote
  <2> QED
    BY <1>0, <1>1, <2>1, <2>2, <2>3 DEF Writing
<1>8. CASE Look(c)
  <2>0. /\ phase[c] = "made" /\ after' = after /\ files' = files /\ status'[c] # "success"
        /\ phase'[c] \in {"looked", "over"}
        /\ phase'[c] = "looked" /\ ~Asked(c).overwrite => Place(c) \notin DOMAIN files
    BY <1>0, <1>3, <1>8 DEF Look, Ends, Goes, fileVars
  <2>1. CASE phase'[c] = "over"
    BY <1>a, <2>0, <2>1
  <2>2. CASE phase'[c] = "looked"
    <3>1. ~Wrote(c)' /\ ~Escapes(Root, Asked(c).path)
      BY <1>0, <2>0 DEF Wrote, Writing
    <3>2. after[c] \subseteq {e \in Running : phase'[e] = "over"}
      BY <1>0, <1>2
    <3>3. ASSUME ~Asked(c).overwrite, NEW e \in after[c]
          PROVE  ~(WritesTo(e, Place(c)) /\ status[e] = "success")
      <4>1. Writing(e)
        BY <1>2 DEF Kept
      <4>2. Wrote(e) => Place(e) \in DOMAIN files
        BY <4>1 DEF Writing
      <4> QED
        BY <2>0, <2>2, <3>3, <4>2 DEF WritesTo, Wrote
    <3>4. \A e \in after[c] :
            WritesTo(e, Place(c))' = WritesTo(e, Place(c)) /\ status'[e] = status[e]
      BY <1>0, <1>1, <1>2 DEF WritesTo
    <3> QED
      BY <1>0, <1>1, <2>0, <2>2, <3>1, <3>2, <3>3, <3>4 DEF Writing
  <2> QED
    BY <2>0, <2>1, <2>2
<1>9. CASE OpenFile(c)
  <2>0. /\ phase[c] = "looked" /\ after' = after /\ status'[c] # "success"
        /\ phase'[c] \in {"open", "over"}
        /\ phase'[c] = "open" =>
             files' = [p \in DOMAIN files \cup {Place(c)} |->
                         IF p = Place(c) THEN << >> ELSE files[p]]
    BY <1>0, <1>3, <1>9 DEF OpenFile, Ends, Goes
  <2>1. CASE phase'[c] = "over"
    BY <1>a, <2>0, <2>1
  <2>2. CASE phase'[c] = "open"
    <3>1. ~Wrote(c)' /\ ~Escapes(Root, Asked(c).path)
      BY <1>0, <2>0 DEF Wrote, Writing
    <3>2. after[c] \subseteq {e \in Running : phase'[e] = "over"}
      BY <1>0, <1>2
    <3>3. Place(c) \in DOMAIN files' /\ files'[Place(c)] = << >>
      BY <2>0, <2>2
    <3>4. \A e \in after[c] :
            WritesTo(e, Place(c))' = WritesTo(e, Place(c)) /\ status'[e] = status[e]
      BY <1>0, <1>1, <1>2 DEF WritesTo
    <3>5. ~Asked(c).overwrite =>
            /\ Place(c) \notin DOMAIN FilesBefore
            /\ \A e \in after[c] : ~(WritesTo(e, Place(c)) /\ status[e] = "success")
      BY <1>0, <2>0 DEF Writing
    <3> QED
      BY <1>0, <1>1, <2>0, <2>2, <3>1, <3>2, <3>3, <3>4, <3>5 DEF Writing
  <2> QED
    BY <2>0, <2>1, <2>2
<1>10. CASE WriteContent(c)
  <2>0. /\ phase[c] = "open" /\ phase'[c] = "over" /\ after' = after /\ IsWriter(c)
        /\ files' = [files EXCEPT ![Place(c)] = Overlaid(c, files[Place(c)])]
    BY <1>0, <1>10 DEF WriteContent, Ends, Goes, History, IsWriter
  <2>1. Place(c) \in DOMAIN files
    BY <1>0, <2>0 DEF Writing
  <2>2. Place(c) \in DOMAIN files' /\ files'[Place(c)] = Overlaid(c, files[Place(c)])
    <3> HIDE DEF Place
    <3> QED
      BY <2>0, <2>1
  <2>3. Undisturbed(c)' => Undisturbed(c)
    <3>1. \A e \in Running \ {c} : WritesTo(e, Place(c))' = WritesTo(e, Place(c))
      BY <1>0, <1>1 DEF WritesTo
    <3> QED
      BY <1>0, <1>1, <2>0, <3>1 DEF Undisturbed
  <2>4. Undisturbed(c) => files'[Place(c)] = Whole(c)
    <3>1. Undisturbed(c) => files[Place(c)] = << >>
      BY <1>0, <2>0 DEF Writing
    <3>2. Overlaid(c, << >>) = Whole(c)
      BY <2>0, PlaceType, OverlaidNothing
    <3> QED
      BY <2>2, <3>1, <3>2
  <2>5. after[c] \subseteq {e \in Running : phase'[e] = "over"}
    BY <1>0, <1>2
  <2>6. \A e \in after[c] : WritesTo(e, Place(c))' = WritesTo(e, Place(c)) /\ status'[e] = status[e]
    BY <1>0, <1>1, <1>2 DEF WritesTo
  <2>7. ~Asked(c).overwrite =>
          /\ Place(c) \notin DOMAIN FilesBefore
          /\ \A e \in after[c] : ~(WritesTo(e, Place(c)) /\ status[e] = "success")
    BY <1>0, <2>0 DEF Writing
  <2> QED
    BY <1>0, <1>1, <2>0, <2>2, <2>3, <2>4, <2>5, <2>6, <2>7 DEF Writing
<1>11. CASE Kill(c)
  BY <1>0, <1>11, <1>a DEF Kill, Ends, Goes, fileVars
<1> QED
  BY <1>4, <1>5, <1>6, <1>7, <1>8, <1>9, <1>10, <1>11 DEF Step

LEMMA KeptNext == Inv /\ Kept /\ [Next]_admissionVars => Kept'
<1> SUFFICES ASSUME Inv, Kept, [Next]_admissionVars PROVE Kept'
  OBVIOUS
<1>1. ASSUME NEW c \in Running, Step(c) \/ Kill(c) PROVE Kept'
  <2>1. Running' = Running
    BY <1>1, OneMoves DEF Inv
  <2> QED
    BY <1>1, <2>1, OutsideNext, OthersWriting, OwnWriting DEF Kept
<1>2. ASSUME UNCHANGED admissionVars PROVE Kept'
  <2>1. /\ Running' = Running /\ Outside'
        /\ \A c : Place(c)' = Place(c) /\ Asked(c)' = Asked(c) /\ IsWriter(c)' = IsWriter(c)
        /\ \A c : Whole(c)' = Whole(c)
    BY <1>2 DEF admissionVars, fileVars, Running, Place, Asked, IsWriter, Whole, Kept, Outside
  <2>2. \A c, d : WritesTo(c, Place(d))' = WritesTo(c, Place(d)) /\ Wrote(c)' = Wrote(c)
    BY <1>2, <2>1 DEF admissionVars, WritesTo, Wrote
  <2>3. \A c : Undisturbed(c)' = Undisturbed(c)
    BY <1>2, <2>1, <2>2 DEF admissionVars, fileVars, Undisturbed
  <2>4. \A c : Writing(c)' = Writing(c)
    BY <1>2, <2>1, <2>2, <2>3 DEF admissionVars, fileVars, Writing
  <2> QED
    BY <2>1, <2>4 DEF Kept
<1> QED
  BY <1>1, <1>2 DEF Next, AllOver

LEMMA KeptFollow == Kept => WritesKept
<1> SUFFICES ASSUME Kept PROVE WritesKept
  OBVIOUS
<1>1. ASSUME NEW c \in Running, IsWriter(c), status[c] = "success"
      PROVE  /\ Undisturbed(c) => files[Place(c)] = Whole(c)
             /\ ~Asked(c).overwrite =>
                  /\ Place(c) \notin DOMAIN FilesBefore
                  /\ \A d \in after[c] : ~(WritesTo(d, Place(c)) /\ status[d] = "success")
  BY <1>1 DEF Kept, Writing, Wrote
<1> QED
  BY <1>1 DEF Kept, Outside, WritesKept, Undisturbed

(* However the calls of file_write_tool interleave, and wherever one is    *)
(* killed, nothing outside the workspace changes, what was written by a    *)
(* call that had the file to itself is there, and what existed before a    *)
(* call that may not overwrite began is not replaced by it.                *)
THEOREM WritesAreKept == Spec => []WritesKept
<1>1. Spec => []Kept
  BY InitKept, KeptNext, Invariant, PTL DEF Spec
<1> QED
  BY <1>1, KeptFollow, PTL
=============================================================================

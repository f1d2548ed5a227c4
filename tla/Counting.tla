------------------------------ MODULE Counting -------------------------------
(***************************************************************************)
(* Induction over the natural numbers in a form that needs no operator as  *)
(* a parameter, from the library's theorem that strict inclusion of finite *)
(* sets is well-founded, and what it gives for the sum of a function over  *)
(* a finite set.  What a walk along a list reaches and what the parts of   *)
(* memory add up to are proved with them in the other modules.             *)
(***************************************************************************)
EXTENDS Integers, FiniteSets, Functions, FiniteSetTheorems, TLAPS

(* A set of numbers that is not empty has a least member.                  *)
LEMMA LeastNumber ==
  ASSUME NEW T \in SUBSET Nat, T # {}
  PROVE  \E m \in T : \A k \in T : m <= k
<1> DEFINE F == {0 .. m : m \in T}
           R == StrictSubsetOrdering(Nat)
<1>1. F \subseteq FiniteSubsetsOf(Nat) /\ F # {}
  <2>1. \A m \in Nat : IsFiniteSet(0 .. m) /\ 0 .. m \subseteq Nat
    BY FS_Interval
  <2> QED
    BY <2>1 DEF FiniteSubsetsOf
<1>2. IsWellFoundedOn(R, FiniteSubsetsOf(Nat))
  BY FS_StrictSubsetOrderingWellFounded
<1>3. \E x \in F : \A y \in F : <<y, x>> \notin R
  <2> HIDE DEF F, R
  <2> QED
    BY <1>1, <1>2, WFMin
<1>4. PICK m \in T : \A k \in T : <<0 .. k, 0 .. m>> \notin R
  BY <1>3
<1>5. ASSUME NEW k \in T, k < m PROVE FALSE
  <2>1. 0 .. k \subseteq 0 .. m /\ m \in 0 .. m /\ m \notin 0 .. k
    BY <1>5
  <2>2. (0 .. k) # (0 .. m) /\ 0 .. k \in SUBSET Nat /\ 0 .. m \in SUBSET Nat
    BY <2>1
  <2> DEFINE ss == <<0 .. k, 0 .. m>>
  <2>3. ss \in (SUBSET Nat) \X (SUBSET Nat) /\ ss[1] = 0 .. k /\ ss[2] = 0 .. m
    BY <2>2
  <2>4. ss[1] \subseteq ss[2] /\ ss[1] # ss[2]
    BY <2>1, <2>2, <2>3
  <2> HIDE DEF ss
  <2>5. ss \in R
    BY <2>3, <2>4 DEF StrictSubsetOrdering
  <2> QED
    BY <1>4, <2>5 DEF ss
<1> QED
  BY <1>5

(* A set with 0 that is closed under successor has all numbers.            *)
LEMMA SetInduction ==
  ASSUME NEW S, 0 \in S, \A n \in Nat : n \in S => n + 1 \in S
  PROVE  Nat \subseteq S
<1> SUFFICES ASSUME Nat \ S # {} PROVE FALSE
  OBVIOUS
<1>1. PICK m \in Nat \ S : \A k \in Nat \ S : m <= k
  BY LeastNumber, Nat \ S \in SUBSET Nat
<1>2. m # 0 /\ m - 1 \in Nat /\ m - 1 < m
  BY <1>1
<1>3. m - 1 \in S
  BY <1>1, <1>2
<1> QED
  BY <1>1, <1>2, <1>3

-----------------------------------------------------------------------------
(* What the sum of f over the subsets of S is made of.                     *)
Chosen(s) == CHOOSE x \in s : TRUE
SumRun(f, D, A) ==
  A = [s \in D |-> IF s = {} THEN 0 ELSE f[Chosen(s)] + A[s \ {Chosen(s)}]]
UpTo(S, n) == {t \in SUBSET S : Cardinality(t) <= n}

LEMMA SumRunSteps ==
  ASSUME NEW f, NEW D, NEW A, SumRun(f, D, A)
  PROVE  /\ DOMAIN A = D
         /\ \A s \in D : A[s] = IF s = {} THEN 0 ELSE f[Chosen(s)] + A[s \ {Chosen(s)}]
<1>1. A = [s \in D |-> IF s = {} THEN 0 ELSE f[Chosen(s)] + A[s \ {Chosen(s)}]]
  BY DEF SumRun
<1> QED
  BY <1>1

LEMMA PickedLess ==
  ASSUME NEW s, IsFiniteSet(s), s # {}
  PROVE  /\ Chosen(s) \in s
         /\ IsFiniteSet(s \ {Chosen(s)})
         /\ Cardinality(s \ {Chosen(s)}) = Cardinality(s) - 1
<1>1. Chosen(s) \in s
  BY DEF Chosen
<1> QED
  BY <1>1, FS_RemoveElement

LEMMA SumRunThere ==
  ASSUME NEW f, NEW S, IsFiniteSet(S)
  PROVE  \E A : SumRun(f, SUBSET S, A)
<1> DEFINE N == {n \in Nat : \E A : SumRun(f, UpTo(S, n), A)}
<1>0. \A t \in SUBSET S : IsFiniteSet(t) /\ Cardinality(t) \in Nat
  BY FS_Subset, FS_CardinalityType
<1>1. 0 \in N
  <2> DEFINE g == [s \in UpTo(S, 0) |-> 0]
  <2>1. \A s \in UpTo(S, 0) : s = {}
    BY <1>0, FS_EmptySet DEF UpTo
  <2>2. g = [s \in UpTo(S, 0) |-> IF s = {} THEN 0 ELSE f[Chosen(s)] + g[s \ {Chosen(s)}]]
    BY <2>1
  <2> HIDE DEF g
  <2>3. SumRun(f, UpTo(S, 0), g)
    BY <2>2 DEF SumRun
  <2> QED
    BY <2>3
<1>2. ASSUME NEW n \in Nat, n \in N PROVE n + 1 \in N
  <2>1. PICK A : SumRun(f, UpTo(S, n), A)
    BY <1>2
  <2>2. \A s \in UpTo(S, n) : A[s] = IF s = {} THEN 0 ELSE f[Chosen(s)] + A[s \ {Chosen(s)}]
    BY <2>1, SumRunSteps
  <2> DEFINE g == [s \in UpTo(S, n + 1) |-> IF s = {} THEN 0 ELSE f[Chosen(s)] + A[s \ {Chosen(s)}]]
  <2>3. \A s \in UpTo(S, n) : s \in UpTo(S, n + 1) /\ g[s] = A[s]
    <3>1. \A s \in UpTo(S, n) : s \in UpTo(S, n + 1)
      BY <1>0 DEF UpTo
    <3> QED
      BY <2>2, <3>1
  <2>4. \A s \in UpTo(S, n + 1) : s # {} => s \ {Chosen(s)} \in UpTo(S, n)
    <3> SUFFICES ASSUME NEW s \in UpTo(S, n + 1), s # {} PROVE s \ {Chosen(s)} \in UpTo(S, n)
      OBVIOUS
    <3>1. s \in SUBSET S /\ IsFiniteSet(s) /\ Cardinality(s) <= n + 1 /\ Cardinality(s) \in Nat
      BY <1>0 DEF UpTo
    <3>2. Cardinality(s \ {Chosen(s)}) = Cardinality(s) - 1
      BY <3>1, PickedLess
    <3> QED
      BY <3>1, <3>2 DEF UpTo
  <2>5. g = [s \in UpTo(S, n + 1) |-> IF s = {} THEN 0 ELSE f[Chosen(s)] + g[s \ {Chosen(s)}]]
    <3>1. \A s \in UpTo(S, n + 1) : g[s] = IF s = {} THEN 0 ELSE f[Chosen(s)] + g[s \ {Chosen(s)}]
      BY <2>3, <2>4
    <3>2. g = [s \in UpTo(S, n + 1) |-> g[s]]
      OBVIOUS
    <3> HIDE DEF g
    <3> QED
      BY <3>1, <3>2
  <2> HIDE DEF g
  <2>6. SumRun(f, UpTo(S, n + 1), g)
    BY <2>5 DEF SumRun
  <2> QED
    BY <2>6
<1>3. Nat \subseteq N
  <2> HIDE DEF N
  <2> QED
    BY <1>1, <1>2, SetInduction
<1>4. UpTo(S, Cardinality(S)) = SUBSET S
  BY FS_Subset DEF UpTo
<1>5. Cardinality(S) \in Nat
  BY FS_CardinalityType
<1> QED
  BY <1>3, <1>4, <1>5

Agreeing(T, A, B) == \A s \in SUBSET T : A[s] = B[s]

LEMMA SumRunsAgree ==
  ASSUME NEW f, NEW S, IsFiniteSet(S), NEW T, T \subseteq S, NEW A, NEW B,
         SumRun(f, SUBSET S, A), SumRun(f, SUBSET T, B)
  PROVE  Agreeing(T, A, B)
<1> DEFINE N == {n \in Nat : \A s \in SUBSET T : Cardinality(s) <= n => A[s] = B[s]}
<1>1. \A s \in SUBSET T : s \in SUBSET S /\ IsFiniteSet(s) /\ Cardinality(s) \in Nat
  BY FS_Subset, FS_CardinalityType
<1>2. \A s \in SUBSET T : /\ A[s] = IF s = {} THEN 0 ELSE f[Chosen(s)] + A[s \ {Chosen(s)}]
                          /\ B[s] = IF s = {} THEN 0 ELSE f[Chosen(s)] + B[s \ {Chosen(s)}]
  BY <1>1, SumRunSteps
<1>3. 0 \in N
  <2>1. \A s \in SUBSET T : Cardinality(s) <= 0 => s = {}
    BY <1>1, FS_EmptySet
  <2> QED
    BY <1>2, <2>1
<1>4. ASSUME NEW n \in Nat, n \in N PROVE n + 1 \in N
  <2> SUFFICES ASSUME NEW s \in SUBSET T, Cardinality(s) <= n + 1 PROVE A[s] = B[s]
    OBVIOUS
  <2>1. CASE s = {}
    BY <1>2, <2>1
  <2>2. CASE s # {}
    <3>1. s \ {Chosen(s)} \in SUBSET T /\ Cardinality(s \ {Chosen(s)}) = Cardinality(s) - 1
      BY <1>1, <2>2, PickedLess
    <3>2. A[s \ {Chosen(s)}] = B[s \ {Chosen(s)}]
      BY <1>1, <1>4, <3>1
    <3> QED
      BY <1>2, <2>2, <3>2
  <2> QED
    BY <2>1, <2>2
<1>5. Nat \subseteq N
  <2> HIDE DEF N
  <2> QED
    BY <1>3, <1>4, SetInduction
<1> QED
  BY <1>1, <1>5 DEF Agreeing

LEMMA SumIsRun ==
  ASSUME NEW f, NEW S, IsFiniteSet(S)
  PROVE  \E A : SumRun(f, SUBSET S, A) /\ SumFunctionOnSet(f, S) = A[S]
<1> DEFINE A == CHOOSE B : SumRun(f, SUBSET S, B)
<1>1. SumRun(f, SUBSET S, A)
  <2> HIDE DEF SumRun
  <2> QED
    BY SumRunThere
<1>2. SumFunctionOnSet(f, S) = A[S]
  BY DEF SumFunctionOnSet, FoldFunctionOnSet, MapThenFoldSet, SumRun, Chosen
<1> QED
  BY <1>1, <1>2

(* The sum of f over S is what any member adds to the sum over the others. *)
LEMMA SumPicks ==
  ASSUME NEW f, NEW S, IsFiniteSet(S), S # {}
  PROVE  Chosen(S) \in S /\ SumFunctionOnSet(f, S) = f[Chosen(S)] + SumFunctionOnSet(f, S \ {Chosen(S)})
<1>1. PICK p : p = Chosen(S)
  OBVIOUS
<1>2. p \in S /\ IsFiniteSet(S \ {p})
  BY <1>1, PickedLess
<1>3. PICK A : SumRun(f, SUBSET S, A) /\ SumFunctionOnSet(f, S) = A[S]
  BY SumIsRun
<1>4. PICK B : SumRun(f, SUBSET (S \ {p}), B) /\ SumFunctionOnSet(f, S \ {p}) = B[S \ {p}]
  BY <1>2, SumIsRun
<1>5. A[S] = f[p] + A[S \ {p}]
  BY <1>1, <1>3, SumRunSteps
<1>6. A[S \ {p}] = B[S \ {p}]
  <2>1. PICK T : T = S \ {p}
    OBVIOUS
  <2>2. T \subseteq S /\ SumRun(f, SUBSET T, B) /\ SumRun(f, SUBSET S, A)
    BY <1>3, <1>4, <2>1
  <2>3. Agreeing(T, A, B)
    BY ONLY IsFiniteSet(S), <2>2, SumRunsAgree
  <2> QED
    BY <2>1, <2>3 DEF Agreeing
<1> QED
  BY <1>1, <1>2, <1>3, <1>4, <1>5, <1>6

LEMMA SumEmpty ==
  ASSUME NEW f
  PROVE  SumFunctionOnSet(f, {}) = 0
<1>1. PICK A : SumRun(f, SUBSET {}, A) /\ SumFunctionOnSet(f, {}) = A[{}]
  BY SumIsRun, FS_EmptySet
<1> QED
  BY <1>1, SumRunSteps

LEMMA SumSplits ==
  ASSUME NEW f, NEW S, IsFiniteSet(S), \A x \in S : f[x] \in Int
  PROVE  /\ SumFunctionOnSet(f, S) \in Int
         /\ \A x \in S : SumFunctionOnSet(f, S) = f[x] + SumFunctionOnSet(f, S \ {x})
<1> DEFINE Good(s) == /\ SumFunctionOnSet(f, s) \in Int
                      /\ \A x \in s : SumFunctionOnSet(f, s) = f[x] + SumFunctionOnSet(f, s \ {x})
           N == {n \in Nat : \A s \in SUBSET S : Cardinality(s) <= n => Good(s)}
<1>1. \A s \in SUBSET S : IsFiniteSet(s) /\ Cardinality(s) \in Nat
  BY FS_Subset, FS_CardinalityType
<1>2. 0 \in N
  <2>1. Good({})
    BY SumEmpty
  <2> HIDE DEF Good
  <2> QED
    BY <1>1, <2>1, FS_EmptySet
<1>3. ASSUME NEW n \in Nat, n \in N PROVE n + 1 \in N
  <2>1. \A s \in SUBSET S : Cardinality(s) <= n => Good(s)
    BY <1>3
  <2> HIDE DEF N
  <2>2. ASSUME NEW s \in SUBSET S, Cardinality(s) <= n + 1 PROVE Good(s)
    <3>1. CASE s = {}
      BY <3>1, SumEmpty
    <3>2. CASE s # {}
      <4>1. PICK p \in s : SumFunctionOnSet(f, s) = f[p] + SumFunctionOnSet(f, s \ {p})
        BY ONLY <1>1, <2>2, <3>2, SumPicks
      <4>2. ASSUME NEW x \in s PROVE s \ {x} \in SUBSET S /\ Cardinality(s \ {x}) <= n
        BY <1>1, <2>2, FS_RemoveElement
      <4>3. Good(s \ {p})
        BY <2>1, <4>2
      <4>4. f[p] \in Int /\ SumFunctionOnSet(f, s \ {p}) \in Int
        BY <4>3
      <4>5. ASSUME NEW x \in s PROVE SumFunctionOnSet(f, s) = f[x] + SumFunctionOnSet(f, s \ {x})
        <5>1. CASE x = p
          BY <4>1, <5>1
        <5>2. CASE x # p
          <6>1. SumFunctionOnSet(f, s \ {p}) = f[x] + SumFunctionOnSet(f, (s \ {p}) \ {x})
            BY <4>3, <5>2
          <6>2. Good(s \ {x})
            BY <2>1, <4>2
          <6>3. SumFunctionOnSet(f, s \ {x}) = f[p] + SumFunctionOnSet(f, (s \ {x}) \ {p})
            BY <5>2, <6>2
          <6>4. (s \ {x}) \ {p} = (s \ {p}) \ {x}
            OBVIOUS
          <6>5. SumFunctionOnSet(f, (s \ {p}) \ {x}) \in Int
            <7>1. (s \ {p}) \ {x} \in SUBSET S /\ Cardinality((s \ {p}) \ {x}) <= n
              <8>1. s \ {p} \in SUBSET S /\ Cardinality(s \ {p}) <= n /\ IsFiniteSet(s \ {p})
                BY <1>1, <4>2
              <8>2. Cardinality((s \ {p}) \ {x}) = Cardinality(s \ {p}) - 1
                BY <5>2, <8>1, FS_RemoveElement
              <8> QED
                BY <1>1, <8>1, <8>2
            <7>2. Good((s \ {p}) \ {x})
              BY <2>1, <7>1
            <7> QED
              BY <7>2
          <6>6. f[x] \in Int
            OBVIOUS
          <6>7. \A a, b, c \in Int : a + (b + c) = b + (a + c)
            OBVIOUS
          <6> HIDE DEF Good
          <6>8. f[p] + (f[x] + SumFunctionOnSet(f, (s \ {p}) \ {x})) = f[x] + (f[p] + SumFunctionOnSet(f, (s \ {p}) \ {x}))
            BY <4>4, <6>5, <6>6, <6>7
          <6> QED
            BY <4>1, <6>1, <6>3, <6>4, <6>8
        <5> QED
          BY <5>1, <5>2
      <4> QED
        BY <4>1, <4>4, <4>5
    <3> QED
      BY <3>1, <3>2
  <2> HIDE DEF Good
  <2> QED
    BY <2>2 DEF N
<1>4. Nat \subseteq N
  <2> HIDE DEF N
  <2> QED
    BY <1>2, <1>3, SetInduction
<1>5. S \in SUBSET S /\ Cardinality(S) \in Nat
  BY <1>1
<1> QED
  BY <1>4, <1>5

(* It depends on nothing but the values of f in S.                        *)
LEMMA SumAlike ==
  ASSUME NEW f, NEW g, NEW S, IsFiniteSet(S), \A x \in S : f[x] = g[x] /\ f[x] \in Int
  PROVE  SumFunctionOnSet(f, S) = SumFunctionOnSet(g, S)
<1> DEFINE Same(s) == SumFunctionOnSet(f, s) = SumFunctionOnSet(g, s)
           N == {n \in Nat : \A s \in SUBSET S : Cardinality(s) <= n => Same(s)}
<1>1. \A s \in SUBSET S : IsFiniteSet(s) /\ Cardinality(s) \in Nat
  BY FS_Subset, FS_CardinalityType
<1>2. 0 \in N
  <2>1. Same({})
    BY SumEmpty
  <2> HIDE DEF Same
  <2> QED
    BY <1>1, <2>1, FS_EmptySet
<1>3. ASSUME NEW n \in Nat, n \in N PROVE n + 1 \in N
  <2>1. \A s \in SUBSET S : Cardinality(s) <= n => Same(s)
    BY <1>3
  <2> HIDE DEF N
  <2>2. ASSUME NEW s \in SUBSET S, Cardinality(s) <= n + 1 PROVE Same(s)
    <3>1. CASE s = {}
      BY <3>1, SumEmpty
    <3>2. CASE s # {}
      <4>1. PICK p \in s : TRUE
        BY <3>2
      <4>2. s \ {p} \in SUBSET S /\ Cardinality(s \ {p}) <= n
        BY <1>1, <2>2, FS_RemoveElement
      <4>3. Same(s \ {p})
        BY <2>1, <4>2
      <4>4. SumFunctionOnSet(f, s) = f[p] + SumFunctionOnSet(f, s \ {p})
        BY <1>1, SumSplits
      <4>5. SumFunctionOnSet(g, s) = g[p] + SumFunctionOnSet(g, s \ {p})
        BY <1>1, SumSplits
      <4> QED
        BY <4>3, <4>4, <4>5
    <3> QED
      BY <3>1, <3>2
  <2> HIDE DEF Same
  <2> QED
    BY <2>2 DEF N
<1>4. Nat \subseteq N
  <2> HIDE DEF N
  <2> QED
    BY <1>2, <1>3, SetInduction
<1> QED
  BY <1>1, <1>4

(* Sums over sets that do not meet add up.                                 *)
LEMMA SumJoins ==
  ASSUME NEW f, NEW S, IsFiniteSet(S), NEW T, IsFiniteSet(T), S \cap T = {}, \A x \in S \cup T : f[x] \in Int
  PROVE  SumFunctionOnSet(f, S \cup T) = SumFunctionOnSet(f, S) + SumFunctionOnSet(f, T)
<1> DEFINE Good(t) == SumFunctionOnSet(f, S \cup t) = SumFunctionOnSet(f, S) + SumFunctionOnSet(f, t)
           N == {n \in Nat : \A t \in SUBSET T : Cardinality(t) <= n => Good(t)}
<1>1. \A t \in SUBSET T : IsFiniteSet(t) /\ Cardinality(t) \in Nat
  BY FS_Subset, FS_CardinalityType
<1>2. SumFunctionOnSet(f, S) \in Int
  BY SumSplits
<1>3. 0 \in N
  <2>1. Good({})
    <3>1. S \cup {} = S
      OBVIOUS
    <3> QED
      BY <1>2, <3>1, SumEmpty
  <2> HIDE DEF Good
  <2> QED
    BY <1>1, <2>1, FS_EmptySet
<1>4. ASSUME NEW n \in Nat, n \in N PROVE n + 1 \in N
  <2>1. \A t \in SUBSET T : Cardinality(t) <= n => Good(t)
    BY <1>4
  <2> HIDE DEF N
  <2>2. ASSUME NEW t \in SUBSET T, Cardinality(t) <= n + 1 PROVE Good(t)
    <3>1. CASE t = {}
      <4>1. S \cup {} = S
        OBVIOUS
      <4> QED
        BY <1>2, <3>1, <4>1, SumEmpty
    <3>2. CASE t # {}
      <4>1. PICK x : x \in t
        BY <3>2
      <4>2. PICK r : r = t \ {x}
        OBVIOUS
      <4>3. r \in SUBSET T /\ Cardinality(r) <= n /\ IsFiniteSet(r) /\ IsFiniteSet(t)
        BY <1>1, <2>2, <4>1, <4>2, FS_RemoveElement
      <4>4. SumFunctionOnSet(f, S \cup r) = SumFunctionOnSet(f, S) + SumFunctionOnSet(f, r)
        BY <2>1, <4>3
      <4>5. IsFiniteSet(S \cup t)
        BY <4>3, FS_Union
      <4>6. x \in S \cup t /\ (S \cup t) \ {x} = S \cup r
        BY <4>1, <4>2
      <4>7. \A y \in S \cup t : f[y] \in Int
        OBVIOUS
      <4>8. SumFunctionOnSet(f, S \cup t) = f[x] + SumFunctionOnSet(f, S \cup r)
        BY ONLY <4>5, <4>6, <4>7, SumSplits
      <4>9. SumFunctionOnSet(f, t) = f[x] + SumFunctionOnSet(f, r) /\ SumFunctionOnSet(f, r) \in Int
        <5>1. \A y \in t : f[y] \in Int
          OBVIOUS
        <5>2. \A y \in r : f[y] \in Int
          BY <4>2
        <5> QED
          BY ONLY <4>1, <4>2, <4>3, <5>1, <5>2, SumSplits
      <4>10. f[x] \in Int
        BY <4>1
      <4> HIDE DEF Good
      <4>11. f[x] + (SumFunctionOnSet(f, S) + SumFunctionOnSet(f, r)) = SumFunctionOnSet(f, S) + (f[x] + SumFunctionOnSet(f, r))
        BY <1>2, <4>9, <4>10
      <4> QED
        BY <4>4, <4>8, <4>9, <4>11 DEF Good
    <3> QED
      BY <3>1, <3>2
  <2> HIDE DEF Good
  <2> QED
    BY <2>2 DEF N
<1>5. Nat \subseteq N
  <2> HIDE DEF N
  <2> QED
    BY <1>3, <1>4, SetInduction
<1>6. T \in SUBSET T /\ Cardinality(T) \in Nat
  BY <1>1
<1> QED
  BY <1>5, <1>6

(* The sum over a set is that of the sums g over its parts F[i].           *)
Joint(F, I) == UNION {F[i] : i \in I}
PartsApart(F, I) == \A i, j \in I : i # j => F[i] \cap F[j] = {}
SumsOf(f, F, I, g) ==
  \A i \in I : /\ IsFiniteSet(F[i]) /\ \A x \in F[i] : f[x] \in Int
              /\ g[i] = SumFunctionOnSet(f, F[i])

LEMMA SumParts ==
  ASSUME NEW f, NEW I, IsFiniteSet(I), NEW F, PartsApart(F, I), NEW g, SumsOf(f, F, I, g)
  PROVE  /\ SumFunctionOnSet(f, Joint(F, I)) = SumFunctionOnSet(g, I)
         /\ IsFiniteSet(Joint(F, I))
<1>0. /\ \A i \in I : IsFiniteSet(F[i])
      /\ \A i, j \in I : i # j => F[i] \cap F[j] = {}
      /\ \A i \in I : \A x \in F[i] : f[x] \in Int
      /\ \A i \in I : g[i] = SumFunctionOnSet(f, F[i])
  BY DEF PartsApart, SumsOf
<1> DEFINE All(P) == UNION {F[i] : i \in P}
           Good(P) == SumFunctionOnSet(f, All(P)) = SumFunctionOnSet(g, P) /\ IsFiniteSet(All(P))
           N == {n \in Nat : \A P \in SUBSET I : Cardinality(P) <= n => Good(P)}
<1>1. \A P \in SUBSET I : IsFiniteSet(P) /\ Cardinality(P) \in Nat
  BY FS_Subset, FS_CardinalityType
<1>2. \A i \in I : g[i] \in Int
  BY <1>0, SumSplits
<1>3. Good({})
  BY SumEmpty, FS_EmptySet
<1>4. 0 \in N
  <2> HIDE DEF Good
  <2> QED
    BY <1>1, <1>3, FS_EmptySet
<1>5. ASSUME NEW n \in Nat, n \in N PROVE n + 1 \in N
  <2>1. \A P \in SUBSET I : Cardinality(P) <= n => Good(P)
    BY <1>5
  <2> HIDE DEF N
  <2>2. ASSUME NEW P \in SUBSET I, Cardinality(P) <= n + 1 PROVE Good(P)
    <3>1. CASE P = {}
      BY <1>3, <3>1
    <3>2. CASE P # {}
      <4>1. PICK i : i \in P
        BY <3>2
      <4>2. PICK R : R = P \ {i}
        OBVIOUS
      <4> HIDE DEF All, Good
      <4>3. R \in SUBSET I /\ Cardinality(R) <= n /\ IsFiniteSet(P)
        <5>1. IsFiniteSet(P) /\ Cardinality(P) \in Nat /\ Cardinality(P) <= n + 1
          BY <1>1, <2>2
        <5>2. Cardinality(P \ {i}) = Cardinality(P) - 1
          BY <4>1, <5>1, FS_RemoveElement
        <5>3. Cardinality(R) = Cardinality(P) - 1
          BY <4>2, <5>2
        <5>4. R \in SUBSET I
          BY <4>2
        <5> QED
          BY ONLY <5>1, <5>3, <5>4, n \in Nat
      <4>4. SumFunctionOnSet(f, All(R)) = SumFunctionOnSet(g, R) /\ IsFiniteSet(All(R))
        BY <2>1, <4>3 DEF Good
      <4>5. All(P) = All(R) \cup F[i] /\ All(R) \cap F[i] = {}
        BY <1>0, <4>1, <4>2 DEF All
      <4>6. IsFiniteSet(F[i]) /\ \A x \in All(R) \cup F[i] : f[x] \in Int
        BY <1>0, <4>1, <4>3 DEF All
      <4>7. SumFunctionOnSet(f, All(R) \cup F[i]) = SumFunctionOnSet(f, All(R)) + SumFunctionOnSet(f, F[i])
        BY <4>4, <4>5, <4>6, SumJoins
      <4>8. \A j \in P : g[j] \in Int
        BY <1>2
      <4>9. SumFunctionOnSet(g, P) = g[i] + SumFunctionOnSet(g, R) /\ SumFunctionOnSet(g, R) \in Int
        <5>1. IsFiniteSet(R) /\ \A j \in R : g[j] \in Int
          BY <1>1, <1>2, <4>3
        <5> QED
          BY ONLY <4>1, <4>2, <4>3, <4>8, <5>1, SumSplits
      <4>10. g[i] = SumFunctionOnSet(f, F[i]) /\ g[i] \in Int
        BY <1>0, <1>2, <4>1
      <4>11. IsFiniteSet(All(P))
        <5>1. PICK a : a = All(R)
          OBVIOUS
        <5>2. PICK b : b = F[i]
          OBVIOUS
        <5>3. IsFiniteSet(a) /\ IsFiniteSet(b)
          BY <4>4, <4>6, <5>1, <5>2
        <5>4. IsFiniteSet(a \cup b)
          BY ONLY <5>3, FS_Union
        <5> QED
          BY <4>5, <5>1, <5>2, <5>4
      <4>12. SumFunctionOnSet(g, R) + g[i] = g[i] + SumFunctionOnSet(g, R)
        BY <4>9, <4>10
      <4> QED
        BY <4>4, <4>5, <4>7, <4>9, <4>10, <4>11, <4>12 DEF Good
    <3> QED
      BY <3>1, <3>2
  <2> HIDE DEF Good
  <2> QED
    BY <2>2 DEF N
<1>6. Nat \subseteq N
  <2> HIDE DEF N
  <2> QED
    BY <1>4, <1>5, SetInduction
<1>7. I \in SUBSET I /\ Cardinality(I) \in Nat
  BY <1>1
<1>8. Good(I)
  <2> HIDE DEF Good
  <2> QED
    BY <1>6, <1>7
<1> QED
  BY <1>8 DEF Joint

(* The sum of ones counts.                                                 *)
LEMMA SumCounts ==
  ASSUME NEW f, NEW S, IsFiniteSet(S), \A x \in S : f[x] = 1
  PROVE  SumFunctionOnSet(f, S) = Cardinality(S)
<1> DEFINE N == {n \in Nat : \A s \in SUBSET S : Cardinality(s) <= n => SumFunctionOnSet(f, s) = Cardinality(s)}
<1>1. \A s \in SUBSET S : IsFiniteSet(s) /\ Cardinality(s) \in Nat
  BY FS_Subset, FS_CardinalityType
<1>2. 0 \in N
  BY <1>1, SumEmpty, FS_EmptySet
<1>3. ASSUME NEW n \in Nat, n \in N PROVE n + 1 \in N
  <2>1. \A s \in SUBSET S : Cardinality(s) <= n => SumFunctionOnSet(f, s) = Cardinality(s)
    BY <1>3
  <2> HIDE DEF N
  <2>2. ASSUME NEW s \in SUBSET S, Cardinality(s) <= n + 1 PROVE SumFunctionOnSet(f, s) = Cardinality(s)
    <3>1. CASE s = {}
      BY <3>1, SumEmpty, FS_EmptySet
    <3>2. CASE s # {}
      <4>1. PICK x : x \in s
        BY <3>2
      <4>2. PICK r : r = s \ {x}
        OBVIOUS
      <4>3. r \in SUBSET S /\ Cardinality(r) = Cardinality(s) - 1 /\ IsFiniteSet(s) /\ Cardinality(s) \in Nat
        BY <1>1, <4>1, <4>2, FS_RemoveElement
      <4>4. SumFunctionOnSet(f, r) = Cardinality(r)
        BY <2>1, <2>2, <4>3
      <4>5. \A y \in s : f[y] \in Int
        OBVIOUS
      <4>6. SumFunctionOnSet(f, s) = f[x] + SumFunctionOnSet(f, r)
        BY ONLY <4>1, <4>2, <4>3, <4>5, SumSplits
      <4>7. f[x] = 1
        BY <4>1
      <4> QED
        BY <4>3, <4>4, <4>6, <4>7
    <3> QED
      BY <3>1, <3>2
  <2> QED
    BY <2>2 DEF N
<1>4. Nat \subseteq N
  <2> HIDE DEF N
  <2> QED
    BY <1>2, <1>3, SetInduction
<1>5. S \in SUBSET S /\ Cardinality(S) \in Nat
  BY <1>1
<1> QED
  BY <1>4, <1>5
=============================================================================

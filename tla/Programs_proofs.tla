--------------------------- MODULE Programs_proofs ---------------------------
(***************************************************************************)
(* Proofs about programs, for any number of control blocks and any depth:  *)
(* in PDOS/86 and in PDOS/386 the chain, the parents and the statuses tell *)
(* the same tree, and memory is accounted for.  Then about the streams the *)
(* C library gives them: the buffer keeps in step with the file, and a     *)
(* binary file is the one C promises.                                      *)
(***************************************************************************)
EXTENDS Programs86, Programs386, Stream, Counting, SequenceTheorems

-----------------------------------------------------------------------------
(* The list l is linked from h on in both directions.                      *)
Members(l) == {l[k] : k \in 1 .. Len(l)}

Linked(l, h, nx, pv) ==
  /\ l \in Seq(Procs)
  /\ h = IF Len(l) = 0 THEN NULL ELSE l[1]
  /\ \A k \in 1 .. Len(l) : /\ nx[l[k]] = IF k = Len(l) THEN NULL ELSE l[k + 1]
                            /\ pv[l[k]] = IF k = 1 THEN NULL ELSE l[k - 1]
  /\ \A i, j \in 1 .. Len(l) : l[i] = l[j] => i = j

LEMMA MembersOf ==
  ASSUME NEW l \in Seq(Procs)
  PROVE  /\ Len(l) \in Nat /\ DOMAIN l = 1 .. Len(l)
         /\ \A k \in 1 .. Len(l) : l[k] \in Members(l) /\ l[k] \in Procs /\ l[k] # NULL
         /\ \A x \in Members(l) : x \in Procs /\ x # NULL /\ \E k \in 1 .. Len(l) : x = l[k]
<1>1. Len(l) \in Nat /\ DOMAIN l = 1 .. Len(l) /\ \A k \in 1 .. Len(l) : l[k] \in Procs
  OBVIOUS
<1> QED
  BY <1>1, ProcsAssumption DEF Members

LEMMA MembersCounted ==
  ASSUME NEW l, NEW h, NEW nx, NEW pv, Linked(l, h, nx, pv)
  PROVE  Cardinality(Members(l)) = Len(l) /\ Len(l) <= Cardinality(Procs)
<1>1. l \in Seq(Procs) /\ Len(l) \in Nat /\ l \in [1 .. Len(l) -> Procs]
  BY DEF Linked
<1>2. l \in Bijection(1 .. Len(l), Members(l))
  <2>1. l \in [1 .. Len(l) -> Members(l)]
    BY <1>1, MembersOf
  <2>2. \A y \in Members(l) : \E k \in 1 .. Len(l) : l[k] = y
    BY <1>1, MembersOf
  <2> QED
    BY <2>1, <2>2 DEF Linked, Bijection, Injection, Surjection, IsInjective
<1>3. IsFiniteSet(1 .. Len(l)) /\ Cardinality(1 .. Len(l)) = Len(l)
  BY <1>1, FS_Interval
<1>4. Cardinality(Members(l)) = Len(l)
  BY <1>2, <1>3, FS_Bijection DEF ExistsBijection
<1>5. Members(l) \subseteq Procs
  BY <1>1, MembersOf
<1> QED
  BY <1>4, <1>5, FS_Subset, ProcsAssumption

(* Chain walks through it.                                                 *)
Walk(h, nx) ==
  LET at[k \in 0 .. Cardinality(Procs)] ==
        IF k = 0 THEN h ELSE IF at[k-1] = NULL THEN NULL ELSE nx[at[k-1]]
      n == Cardinality({k \in DOMAIN at : at[k] # NULL})
  IN [k \in 1 .. n |-> at[k-1]]

LEMMA WalkIs ==
  ASSUME NEW l, NEW h, NEW nx, NEW pv, Linked(l, h, nx, pv)
  PROVE  Walk(h, nx) = l
<1> DEFINE N == Cardinality(Procs)
           n == Len(l)
           At1(f, k) == IF k = 0 THEN h ELSE IF f[k-1] = NULL THEN NULL ELSE nx[f[k-1]]
           G == [k \in 0 .. N |-> IF k < n THEN l[k + 1] ELSE NULL]
           A == CHOOSE at : at = [k \in 0 .. N |->
                  IF k = 0 THEN h ELSE IF at[k-1] = NULL THEN NULL ELSE nx[at[k-1]]]
<1>1. /\ N \in Nat /\ n \in Nat /\ n <= N /\ l \in Seq(Procs) /\ DOMAIN l = 1 .. n
      /\ \A k \in 1 .. n : l[k] # NULL
  <2>1. N \in Nat
    BY ProcsAssumption, FS_CardinalityType
  <2>2. n <= N
    BY MembersCounted
  <2> QED
    BY <2>1, <2>2, MembersOf DEF Linked
<1>2. ASSUME NEW k \in 0 .. N PROVE G[k] = At1(G, k)
  <2>1. CASE k = 0
    <3>1. h = IF n = 0 THEN NULL ELSE l[1]
      BY DEF Linked
    <3>2. G[0] = IF 0 < n THEN l[0 + 1] ELSE NULL
      BY <1>1
    <3> QED
      BY <2>1, <3>1, <3>2, <1>1
  <2>2. CASE k # 0 /\ k - 1 < n
    <3>1. k - 1 \in 0 .. N /\ k \in 1 .. n /\ G[k - 1] = l[k] /\ l[k] # NULL
      BY <2>2, <1>1
    <3>2. nx[l[k]] = IF k = n THEN NULL ELSE l[k + 1]
      BY <3>1 DEF Linked
    <3>3. G[k] = IF k < n THEN l[k + 1] ELSE NULL
      OBVIOUS
    <3> HIDE DEF G, A
    <3>4. At1(G, k) = nx[l[k]]
      BY ONLY <2>2, <3>1
    <3>5. G[k] = nx[l[k]]
      <4>1. k < n <=> k # n
        <5>1. k \in 1 .. n /\ n \in Nat
          BY <3>1, <1>1
        <5> QED
          BY ONLY <5>1
      <4> QED
        BY ONLY <3>2, <3>3, <4>1
    <3> QED
      BY ONLY <3>4, <3>5
  <2>3. CASE k # 0 /\ ~(k - 1 < n)
    <3>1. k - 1 \in 0 .. N /\ G[k - 1] = NULL /\ ~(k < n)
      BY <2>3, <1>1
    <3> QED
      BY <2>3, <3>1
  <2> QED
    BY <2>1, <2>2, <2>3
<1>3. G = [k \in 0 .. N |->
             IF k = 0 THEN h ELSE IF G[k-1] = NULL THEN NULL ELSE nx[G[k-1]]]
  BY <1>2
<1>4. A = [k \in 0 .. N |->
             IF k = 0 THEN h ELSE IF A[k-1] = NULL THEN NULL ELSE nx[A[k-1]]]
  <2> HIDE DEF G
  <2> QED
    BY <1>3
<1>5. Walk(h, nx) = [k \in 1 .. Cardinality({k \in DOMAIN A : A[k] # NULL}) |-> A[k-1]]
  BY DEF Walk
<1> HIDE DEF A
<1>6. \A k \in 0 .. N : A[k] = G[k]
  <2> DEFINE S == {k \in Nat : k <= N => A[k] = G[k]}
  <2> HIDE DEF G
  <2>1. 0 \in S
    <3>1. 0 \in 0 .. N
      BY <1>1
    <3>2. A[0] = h
      BY <3>1, <1>4
    <3>3. G[0] = h
      BY <3>1, <1>3
    <3> QED
      BY <3>2, <3>3
  <2>2. ASSUME NEW k \in Nat, k \in S PROVE k + 1 \in S
    <3> SUFFICES ASSUME k + 1 <= N PROVE A[k + 1] = G[k + 1]
      OBVIOUS
    <3>1. k + 1 \in 0 .. N /\ (k + 1) - 1 = k /\ k + 1 # 0 /\ A[k] = G[k]
      BY <2>2, <1>1
    <3>2. A[k + 1] = IF A[k] = NULL THEN NULL ELSE nx[A[k]]
      BY <3>1, <1>4
    <3>3. G[k + 1] = IF G[k] = NULL THEN NULL ELSE nx[G[k]]
      BY <3>1, <1>3
    <3> QED
      BY <3>1, <3>2, <3>3
  <2>3. Nat \subseteq S
    <3> HIDE DEF S
    <3> QED
      BY <2>1, <2>2, SetInduction
  <2> SUFFICES ASSUME NEW k \in 0 .. N PROVE A[k] = G[k]
    OBVIOUS
  <2>4. k \in S /\ k <= N
    BY <2>3, <1>1
  <2> QED
    BY <2>4
<1>7. {k \in DOMAIN A : A[k] # NULL} = 0 .. n - 1
  <2>1. DOMAIN A = 0 .. N
    BY <1>4
  <2>2. \A k \in 0 .. N : A[k] # NULL <=> k < n
    BY <1>1, <1>6
  <2> QED
    BY <2>1, <2>2, <1>1
<1>8. Cardinality(0 .. n - 1) = n
  <2>1. 0 \in Int /\ n - 1 \in Int /\ (n - 1) - 0 + 1 = n /\ (0 > n - 1 <=> n = 0)
    BY <1>1
  <2>2. Cardinality(0 .. n - 1) = IF 0 > n - 1 THEN 0 ELSE (n - 1) - 0 + 1
    BY <2>1, FS_Interval
  <2> QED
    BY <2>1, <2>2
<1>9. \A k \in 1 .. n : A[k - 1] = l[k]
  BY <1>1, <1>6
<1> HIDE DEF G
<1>10. Walk(h, nx) = [k \in 1 .. n |-> l[k]]
  BY <1>5, <1>7, <1>8, <1>9
<1>11. Walk(h, nx) = l
  BY <1>10, <1>1
<1> QED
  BY <1>11

LEMMA ChainIs ==
  ASSUME NEW l, Linked(l, initProc, next, prev)
  PROVE  Chain = l /\ Chained = Members(l)
<1>1. Chain = Walk(initProc, next)
  BY DEF Chain, Walk
<1>2. Chain = l
  BY <1>1, WalkIs
<1>3. DOMAIN l = 1 .. Len(l)
  BY DEF Linked
<1> QED
  BY <1>2, <1>3 DEF Chained, Members

LEMMA ChainThen ==
  ASSUME NEW l, Linked(l, initProc', next', prev')
  PROVE  Chained' = Members(l)
<1>1. Chain' = Walk(initProc', next')
  BY DEF Chain, Walk
<1>2. Chain' = l
  BY <1>1, WalkIs
<1>3. DOMAIN l = 1 .. Len(l)
  BY DEF Linked
<1> QED
  BY <1>2, <1>3 DEF Chained, Members

(* What it becomes when p is added at its end, and when it is taken out.   *)
LEMMA LinkedAppend ==
  ASSUME NEW l, NEW h, NEW nx \in [Procs -> Ref], NEW pv \in [Procs -> Ref], Linked(l, h, nx, pv), Len(l) # 0,
         NEW p \in Procs \ Members(l)
  PROVE  /\ Linked(Append(l, p), h, [nx EXCEPT ![l[Len(l)]] = p, ![p] = NULL], [pv EXCEPT ![p] = l[Len(l)]])
         /\ Members(Append(l, p)) = Members(l) \cup {p}
<1> DEFINE n == Len(l)
           last == l[n]
           m == Append(l, p)
           ny == [nx EXCEPT ![last] = p, ![p] = NULL]
           pw == [pv EXCEPT ![p] = last]
<1>1. /\ l \in Seq(Procs) /\ n \in Nat \ {0} /\ last \in Procs /\ last # p
      /\ \A k \in 1 .. n : l[k] \in Procs /\ l[k] # p
  BY MembersOf DEF Linked
<1>2. /\ m \in Seq(Procs) /\ Len(m) = n + 1 /\ m[n + 1] = p
      /\ \A k \in 1 .. n : m[k] = l[k]
  BY <1>1
<1>3. /\ ny[last] = p /\ ny[p] = NULL /\ \A x \in Procs \ {last, p} : ny[x] = nx[x]
      /\ pw[p] = last /\ \A x \in Procs \ {p} : pw[x] = pv[x]
  BY <1>1
<1> HIDE DEF m, ny, pw
<1>4. ASSUME NEW k \in 1 .. Len(m)
      PROVE  /\ ny[m[k]] = IF k = Len(m) THEN NULL ELSE m[k + 1]
             /\ pw[m[k]] = IF k = 1 THEN NULL ELSE m[k - 1]
  <2>1. CASE k = n + 1
    <3>1. k - 1 = n /\ k # 1 /\ m[k - 1] = last /\ m[k] = p
      BY <2>1, <1>1, <1>2
    <3> QED
      BY <2>1, <3>1, <1>2, <1>3
  <2>2. CASE k = n
    <3>1. m[k] = last /\ m[k + 1] = p /\ k # Len(m) /\ ny[last] = p
      BY <2>2, <1>1, <1>2, <1>3
    <3>2. pv[l[k]] = IF k = 1 THEN NULL ELSE l[k - 1]
      BY <2>2, <1>1 DEF Linked
    <3>3. k # 1 => m[k - 1] = l[k - 1]
      BY <2>2, <1>1, <1>2
    <3> QED
      BY <2>2, <3>1, <3>2, <3>3, <1>1, <1>3
  <2>3. CASE k \in 1 .. n /\ k # n
    <3>1. k \in 1 .. n /\ n \in 1 .. n /\ l[k] \in Procs \ {last, p} /\ k # Len(m) /\ k # Len(l)
      BY <2>3, <1>1, <1>2 DEF Linked
    <3>2. /\ nx[l[k]] = IF k = Len(l) THEN NULL ELSE l[k + 1]
          /\ pv[l[k]] = IF k = 1 THEN NULL ELSE l[k - 1]
      BY <3>1 DEF Linked
    <3>3. m[k] = l[k] /\ m[k + 1] = l[k + 1] /\ (k # 1 => m[k - 1] = l[k - 1])
      BY <2>3, <1>1, <1>2
    <3> QED
      BY <3>1, <3>2, <3>3, <1>3
  <2> QED
    BY <2>1, <2>2, <2>3, <1>1, <1>2
<1>5. \A i, j \in 1 .. Len(m) : m[i] = m[j] => i = j
  <2> SUFFICES ASSUME NEW i \in 1 .. Len(m), NEW j \in 1 .. Len(m), m[i] = m[j] PROVE i = j
    OBVIOUS
  <2>1. CASE i \in 1 .. n /\ j \in 1 .. n
    <3>1. l[i] = l[j]
      BY <2>1, <1>2
    <3> QED
      BY <2>1, <3>1 DEF Linked
  <2>2. CASE i = n + 1 \/ j = n + 1
    BY <2>2, <1>1, <1>2
  <2> QED
    BY <2>1, <2>2, <1>1, <1>2
<1>6. h = IF Len(m) = 0 THEN NULL ELSE m[1]
  BY <1>1, <1>2 DEF Linked
<1>7. Members(m) = Members(l) \cup {p}
  <2>1. ASSUME NEW x \in Members(m) PROVE x \in Members(l) \cup {p}
    <3>1. PICK k \in 1 .. Len(m) : x = m[k]
      BY <1>2, MembersOf
    <3> QED
      BY <3>1, <1>1, <1>2, MembersOf
  <2>2. p \in Members(m)
    <3>1. n + 1 \in 1 .. Len(m)
      BY <1>1, <1>2
    <3> QED
      BY <3>1, <1>2, MembersOf
  <2>3. ASSUME NEW x \in Members(l) PROVE x \in Members(m)
    <3>1. PICK k \in 1 .. n : x = l[k]
      BY <1>1, MembersOf
    <3>2. k \in 1 .. Len(m) /\ m[k] = x
      BY <3>1, <1>1, <1>2
    <3> QED
      BY <3>2, <1>2, MembersOf
  <2> QED
    BY <2>1, <2>2, <2>3
<1>8. Linked(m, h, ny, pw)
  BY <1>2, <1>4, <1>5, <1>6 DEF Linked
<1> QED
  BY <1>7, <1>8 DEF m, ny, pw

Forth(nx, pv, p) == [nx EXCEPT ![pv[p]] = nx[p], ![p] = NULL]
Back(nx, pv, p) == [q \in Procs |-> CASE q = p -> NULL [] q = nx[p] -> pv[p] [] OTHER -> pv[q]]

LEMMA LinkedOut ==
  ASSUME NEW l, NEW h, NEW nx \in [Procs -> Ref], NEW pv \in [Procs -> Ref], Linked(l, h, nx, pv),
         NEW p \in Members(l), p # h
  PROVE  /\ pv[p] \in Procs
         /\ \E m : Linked(m, h, Forth(nx, pv, p), Back(nx, pv, p)) /\ Members(m) = Members(l) \ {p}
<1> DEFINE n == Len(l)
           ny == Forth(nx, pv, p)
           pw == Back(nx, pv, p)
<1>1. /\ l \in Seq(Procs) /\ n \in Nat /\ \A k \in 1 .. n : l[k] \in Procs /\ l[k] # NULL
      /\ \A i, k \in 1 .. n : l[i] = l[k] => i = k
      /\ \A k \in 1 .. n : /\ nx[l[k]] = IF k = n THEN NULL ELSE l[k + 1]
                           /\ pv[l[k]] = IF k = 1 THEN NULL ELSE l[k - 1]
      /\ h = IF n = 0 THEN NULL ELSE l[1]
  BY MembersOf DEF Linked
<1>2. PICK j \in 1 .. n : p = l[j]
  BY <1>1, MembersOf
<1>3. j # 1 /\ j - 1 \in 1 .. n /\ n # 0
  BY <1>1, <1>2
<1>4. pv[p] = l[j - 1] /\ nx[p] = (IF j = n THEN NULL ELSE l[j + 1]) /\ p # pv[p] /\ p \in Procs /\ pv[p] \in Procs
  <2>1. pv[l[j]] = l[j - 1] /\ nx[l[j]] = IF j = n THEN NULL ELSE l[j + 1]
    BY <1>1, <1>3
  <2>2. l[j - 1] # l[j] /\ l[j] \in Procs /\ l[j - 1] \in Procs
    BY <1>1, <1>3
  <2> QED
    BY <1>2, <2>1, <2>2
<1>5. /\ ny[pv[p]] = nx[p] /\ \A x \in Procs \ {p, pv[p]} : ny[x] = nx[x]
      /\ \A x \in Procs \ {p, nx[p]} : pw[x] = pv[x]
      /\ nx[p] \in Procs \ {p} => pw[nx[p]] = pv[p]
  BY <1>4 DEF Forth, Back
<1> DEFINE m == [k \in 1 .. n - 1 |-> IF k < j THEN l[k] ELSE l[k + 1]]
<1>6. /\ m \in Seq(Procs) /\ Len(m) = n - 1
      /\ \A k \in 1 .. n - 1 : m[k] = IF k < j THEN l[k] ELSE l[k + 1]
  <2>1. n - 1 \in Nat /\ \A k \in 1 .. n - 1 : k \in 1 .. n /\ k + 1 \in 1 .. n
    BY <1>1, <1>3
  <2> QED
    BY <1>1, <2>1
<1> HIDE DEF m, ny, pw
<1>7. ASSUME NEW k \in 1 .. n - 1
      PROVE  /\ ny[m[k]] = IF k = n - 1 THEN NULL ELSE m[k + 1]
             /\ pw[m[k]] = IF k = 1 THEN NULL ELSE m[k - 1]
  <2>1. CASE k < j - 1
    <3>1. k \in 1 .. n /\ k + 1 \in 1 .. n - 1 /\ k # n /\ k # n - 1 /\ k # j /\ k # j - 1 /\ k # j + 1
      BY <2>1, <1>1, <1>3
    <3>2. m[k] = l[k] /\ m[k + 1] = l[k + 1] /\ (k # 1 => m[k - 1] = l[k - 1])
      BY <2>1, <3>1, <1>1, <1>6
    <3>3. l[k] \in Procs \ {p, pv[p]} /\ l[k] # nx[p]
      BY <1>1, <1>2, <1>3, <1>4, <3>1
    <3> QED
      BY <3>1, <3>2, <3>3, <1>1, <1>5
  <2>2. CASE k = j - 1
    <3>1. k \in 1 .. n /\ m[k] = l[k] /\ l[k] = pv[p] /\ k # n
      BY <2>2, <1>1, <1>3, <1>4, <1>6
    <3>6. l[k] # nx[p]
      <4>1. j + 1 # k /\ (j # n => j + 1 \in 1 .. n)
        BY <2>2, <1>1
      <4> QED
        BY <3>1, <4>1, <1>1, <1>4
    <3>2. ny[m[k]] = nx[p]
      BY <3>1, <1>5
    <3>3. nx[p] = IF k = n - 1 THEN NULL ELSE m[k + 1]
      BY <2>2, <1>1, <1>3, <1>4, <1>6
    <3>4. pw[m[k]] = pv[l[k]]
      BY <3>1, <3>6, <1>4, <1>5
    <3>5. k # 1 => m[k - 1] = l[k - 1]
      BY <2>2, <3>1, <1>1, <1>6
    <3> QED
      BY <3>1, <3>2, <3>3, <3>4, <3>5, <1>1
  <2>3. CASE k = j
    <3>1. k + 1 \in 1 .. n /\ k # n /\ m[k] = l[k + 1] /\ l[k + 1] = nx[p] /\ l[k + 1] # p /\ l[k + 1] # pv[p]
          /\ l[k + 1] \in Procs
      BY <2>3, <1>1, <1>2, <1>3, <1>4, <1>6
    <3>2. ny[m[k]] = nx[l[k + 1]] /\ pw[m[k]] = pv[p]
      BY <3>1, <1>5
    <3>3. nx[l[k + 1]] = IF k + 1 = n THEN NULL ELSE l[k + 2]
      <4>1. (k + 1) + 1 = k + 2
        BY <3>1
      <4> QED
        BY <1>1, <3>1, <4>1
    <3>4. k # n - 1 => m[k + 1] = l[k + 2]
      BY <2>3, <3>1, <1>1, <1>6
    <3>5. pv[p] = m[k - 1] /\ k # 1
      BY <2>3, <1>1, <1>3, <1>4, <1>6
    <3>6. k = n - 1 <=> k + 1 = n
      BY <1>1
    <3> QED
      BY <3>2, <3>3, <3>4, <3>5, <3>6
  <2>4. CASE k > j
    <3>1. k + 1 \in 1 .. n /\ m[k] = l[k + 1] /\ k - 1 \in 1 .. n - 1 /\ k # 1 /\ k + 1 # 1
      BY <2>4, <1>1, <1>3, <1>6
    <3>2. l[k + 1] # p /\ l[k + 1] # pv[p] /\ l[k + 1] # nx[p] /\ l[k + 1] \in Procs
      BY <2>4, <3>1, <1>1, <1>2, <1>3, <1>4
    <3>3. ny[m[k]] = nx[l[k + 1]] /\ pw[m[k]] = pv[l[k + 1]]
      BY <3>1, <3>2, <1>5
    <3>4. /\ nx[l[k + 1]] = IF k + 1 = n THEN NULL ELSE l[k + 2]
          /\ pv[l[k + 1]] = l[k]
      <4>1. (k + 1) + 1 = k + 2 /\ (k + 1) - 1 = k
        BY <3>1
      <4> QED
        BY <1>1, <3>1, <4>1
    <3>5. k # n - 1 => m[k + 1] = l[k + 2]
      BY <2>4, <3>1, <1>1, <1>6
    <3>6. m[k - 1] = l[k]
      <4>1. ~(k - 1 < j) /\ (k - 1) + 1 = k
        BY <2>4, <3>1
      <4> QED
        BY <3>1, <4>1, <1>6
    <3>7. k = n - 1 <=> k + 1 = n
      BY <1>1
    <3> QED
      BY <3>1, <3>3, <3>4, <3>5, <3>6, <3>7
  <2> QED
    BY <2>1, <2>2, <2>3, <2>4, <1>1, <1>3
<1>8. \A i, k \in 1 .. Len(m) : m[i] = m[k] => i = k
  <2> SUFFICES ASSUME NEW i \in 1 .. n - 1, NEW k \in 1 .. n - 1, m[i] = m[k] PROVE i = k
    BY <1>6
  <2> DEFINE a == IF i < j THEN i ELSE i + 1
             b == IF k < j THEN k ELSE k + 1
  <2>1. a \in 1 .. n /\ b \in 1 .. n /\ m[i] = l[a] /\ m[k] = l[b]
    BY <1>1, <1>6
  <2>2. a = b
    <3>1. \A x, y \in 1 .. n : l[x] = l[y] => x = y
      BY <1>1
    <3> HIDE DEF a, b
    <3>2. l[a] = l[b]
      BY <2>1
    <3> QED
      BY ONLY <2>1, <3>1, <3>2
  <2> QED
    BY <2>2
<1>9. h = IF Len(m) = 0 THEN NULL ELSE m[1]
  <2>1. n - 1 # 0 /\ 1 \in 1 .. n - 1 /\ 1 < j
    BY <1>1, <1>3
  <2> QED
    BY <2>1, <1>1, <1>6
<1>10. Linked(m, h, ny, pw)
  BY <1>6, <1>7, <1>8, <1>9 DEF Linked
<1>11. Members(m) = Members(l) \ {p}
  <2>1. ASSUME NEW x \in Members(m) PROVE x \in Members(l) \ {p}
    <3>1. PICK k \in 1 .. n - 1 : x = m[k]
      BY <1>6, MembersOf
    <3> DEFINE a == IF k < j THEN k ELSE k + 1
    <3>2. a \in 1 .. n /\ a # j /\ x = l[a]
      BY <3>1, <1>1, <1>6
    <3> QED
      BY <3>2, <1>1, <1>2, MembersOf
  <2>2. ASSUME NEW x \in Members(l) \ {p} PROVE x \in Members(m)
    <3>1. PICK k \in 1 .. n : x = l[k]
      BY <1>1, MembersOf
    <3>2. k # j
      BY <3>1, <1>2
    <3> DEFINE a == IF k < j THEN k ELSE k - 1
    <3>3. a \in 1 .. Len(m) /\ m[a] = l[k]
      <4>1. CASE k < j
        BY <4>1, <1>1, <1>6
      <4>2. CASE ~(k < j)
        <5>1. a = k - 1 /\ a \in 1 .. n - 1 /\ ~(a < j) /\ a + 1 = k
          BY <3>2, <4>2, <1>1
        <5> QED
          BY <5>1, <1>6
      <4> QED
        BY <4>1, <4>2
    <3> QED
      BY <3>1, <3>3, <1>6, MembersOf
  <2> QED
    BY <2>1, <2>2
<1> QED
  BY <1>4, <1>10, <1>11 DEF ny, pw

-----------------------------------------------------------------------------
(* The inductive invariant of the chain.                                   *)
ChainTypes ==
  /\ initProc \in Ref /\ curPCB \in Ref
  /\ next \in [Procs -> Ref] /\ prev \in [Procs -> Ref] /\ parent \in [Procs -> Ref]
  /\ status \in [Procs -> Status]

Stacked ==
  /\ Len(frames) \in Nat /\ DOMAIN frames = 1 .. Len(frames) /\ (Up <=> Len(frames) # 0)
  /\ \A k \in 1 .. Len(frames) : frames[k].pcb \in Procs

(* The list l is the chain, and parents and statuses fit to it and to the  *)
(* programs that run.                                                      *)
Fits(l) ==
  /\ Members(l) = Running \cup {p \in Procs : status[p] = "TSR"}
  /\ \A p \in Members(l) \ {initProc} : parent[p] \in Members(l)
  /\ \A p \in Members(l) :
       status[p] = IF p = curPCB THEN "ACTIVE" ELSE IF p \in Running THEN "CHILDWAIT" ELSE "TSR"
Nested ==
  /\ \A i, j \in 1 .. Len(frames) : frames[i].pcb = frames[j].pcb => i = j
  /\ \A k \in 1 .. Len(frames) : parent[frames[k].pcb] = IF k = 1 THEN NULL ELSE frames[k - 1].pcb
  /\ IF Up THEN curPCB = Top.pcb /\ initProc = frames[1].pcb
     ELSE curPCB = NULL /\ initProc = NULL /\ \A p \in Procs : next[p] = NULL /\ prev[p] = NULL
Tree(l) == Linked(l, initProc, next, prev) /\ Fits(l) /\ Nested

(* The last program to end leaves initProc as it is; none starts after it. *)
Alive == Up \/ initProc = NULL
TreeInv == ChainTypes /\ Stacked /\ (Alive => \E l : Tree(l))

(* What a start and an end do to the programs that run.                    *)
Pushed(p) ==
  /\ Stacked' /\ Len(frames') = Len(frames) + 1
  /\ \A k \in 1 .. Len(frames) : frames'[k] = frames[k]
  /\ frames'[Len(frames) + 1].pcb = p
Popped ==
  /\ Stacked' /\ Len(frames') = Len(frames) - 1
  /\ \A k \in 1 .. Len(frames') : frames'[k] = frames[k]

LEMMA RunningIs ==
  ASSUME Stacked
  PROVE  /\ \A k \in 1 .. Len(frames) : frames[k].pcb \in Running
         /\ \A p \in Running : p \in Procs /\ \E k \in 1 .. Len(frames) : p = frames[k].pcb
BY DEF Stacked, Running

LEMMA RunningThen ==
  ASSUME Stacked'
  PROVE  /\ \A k \in 1 .. Len(frames') : frames'[k].pcb \in Running'
         /\ \A p \in Running' : p \in Procs /\ \E k \in 1 .. Len(frames') : p = frames'[k].pcb
BY DEF Stacked, Running

LEMMA RunningPushed ==
  ASSUME Stacked, NEW p, Pushed(p)
  PROVE  Running' = Running \cup {p}
<1>1. Stacked' /\ Len(frames) \in Nat
  BY DEF Pushed, Stacked
<1>2. ASSUME NEW q \in Running' PROVE q \in Running \cup {p}
  <2>1. PICK k \in 1 .. Len(frames') : q = frames'[k].pcb
    BY <1>1, RunningThen
  <2>2. k \in 1 .. Len(frames) \/ k = Len(frames) + 1
    BY <1>1 DEF Pushed
  <2> QED
    BY <2>1, <2>2, RunningIs DEF Pushed
<1>3. ASSUME NEW q \in Running PROVE q \in Running'
  <2>1. PICK k \in 1 .. Len(frames) : q = frames[k].pcb
    BY RunningIs
  <2>2. k \in 1 .. Len(frames') /\ frames'[k].pcb = q
    BY <1>1, <2>1 DEF Pushed
  <2> QED
    BY <1>1, <2>2, RunningThen
<1>4. p \in Running'
  <2>1. Len(frames) + 1 \in 1 .. Len(frames')
    BY <1>1 DEF Pushed
  <2> QED
    BY <1>1, <2>1, RunningThen DEF Pushed
<1> QED
  BY <1>2, <1>3, <1>4

LEMMA RunningPopped ==
  ASSUME Stacked, Nested, Up, Popped
  PROVE  Running' = Running \ {curPCB} /\ curPCB \in Running /\ curPCB = frames[Len(frames)].pcb
<1> DEFINE n == Len(frames)
<1>1. Stacked' /\ n \in Nat \ {0} /\ curPCB = frames[n].pcb /\ Len(frames') = n - 1
  BY DEF Popped, Stacked, Nested, Top
<1>2. ASSUME NEW q \in Running' PROVE q \in Running \ {curPCB}
  <2>1. PICK k \in 1 .. Len(frames') : q = frames'[k].pcb
    BY <1>1, RunningThen
  <2>2. k \in 1 .. n /\ n \in 1 .. n /\ k # n /\ q = frames[k].pcb
    BY <1>1, <2>1 DEF Popped
  <2>3. q # frames[n].pcb
    BY <2>2 DEF Nested
  <2> QED
    BY <1>1, <2>2, <2>3, RunningIs
<1>3. ASSUME NEW q \in Running \ {curPCB} PROVE q \in Running'
  <2>1. PICK k \in 1 .. n : q = frames[k].pcb
    BY RunningIs
  <2>2. k \in 1 .. Len(frames') /\ frames'[k].pcb = q
    BY <1>1, <2>1 DEF Popped
  <2> QED
    BY <1>1, <2>2, RunningThen
<1>4. curPCB \in Running
  <2>1. n \in 1 .. n
    BY <1>1
  <2> QED
    BY <1>1, <2>1, RunningIs
<1> QED
  BY <1>1, <1>2, <1>3, <1>4

(* A program starts: the control block p joins the chain.                  *)
LEMMA StartTyped ==
  ASSUME ChainTypes, NEW p \in Procs, AddToProcessChain(p), curPCB' = p, status' = StatusAtStart(p),
         initProc # NULL => Chain[Len(Chain)] \in Procs
  PROVE  ChainTypes'
<1>1. parent' \in [Procs -> Ref] /\ initProc' \in Ref /\ curPCB' \in Ref
  BY DEF AddToProcessChain, ChainTypes, Ref
<1>2. next' \in [Procs -> Ref] /\ prev' \in [Procs -> Ref]
  <2>1. CASE initProc = NULL
    BY <2>1 DEF AddToProcessChain, ChainTypes
  <2>2. CASE initProc # NULL
    BY <2>2 DEF AddToProcessChain, ChainTypes, Ref
  <2> QED
    BY <2>1, <2>2
<1>3. status' \in [Procs -> Status]
  BY DEF StatusAtStart, ChainTypes, Status
<1> QED
  BY <1>1, <1>2, <1>3 DEF ChainTypes

LEMMA StartTree ==
  ASSUME ChainTypes, Stacked, Alive, NEW l, Tree(l), NEW p \in Procs \ Members(l),
         AddToProcessChain(p), curPCB' = p, status' = StatusAtStart(p), Pushed(p)
  PROVE  ChainTypes' /\ Stacked' /\ (\E m : Tree(m)') /\ Chained' = Chained \cup {p}
<1> DEFINE n == Len(frames)
           m == Append(l, p)
<1>1. /\ l \in Seq(Procs) /\ Linked(l, initProc, next, prev) /\ Fits(l) /\ Nested /\ n \in Nat
      /\ p # NULL /\ Stacked' /\ (Up <=> n # 0)
  BY ProcsAssumption DEF Tree, Linked, Stacked, Pushed
<1>2. Chain = l /\ Chained = Members(l)
  BY <1>1, ChainIs
<1>3. Running' = Running \cup {p} /\ Running \subseteq Members(l) /\ p \notin Running
  BY <1>1, RunningPushed DEF Fits
<1>4. Up => /\ initProc = frames[1].pcb /\ curPCB = frames[n].pcb /\ 1 \in 1 .. n /\ n \in 1 .. n
            /\ curPCB \in Running /\ initProc \in Running /\ initProc # NULL
  BY <1>1, RunningIs, ProcsAssumption DEF Nested, Top
<1>5. Up <=> initProc # NULL
  BY <1>4 DEF Alive
<1>6. initProc # NULL => Len(l) # 0 /\ Chain[Len(Chain)] = l[Len(l)] /\ l[Len(l)] \in Procs
  BY <1>1, <1>2, MembersOf DEF Linked
<1>7. ChainTypes'
  BY <1>6, StartTyped
<1>8. Linked(m, initProc', next', prev') /\ Members(m) = Members(l) \cup {p}
  <2>1. CASE initProc = NULL
    <3>1. Len(l) = 0
      BY <1>1, <2>1, MembersOf DEF Linked
    <3>2. m = <<p>> /\ l = <<>>
      BY <1>1, <3>1
    <3>3. initProc' = p /\ next'[p] = NULL /\ prev'[p] = NULL
      BY <1>1, <1>5, <2>1 DEF AddToProcessChain, Nested
    <3>4. Len(m) = 1 /\ m[1] = p /\ m \in Seq(Procs) /\ \A k \in 1 .. Len(m) : k = 1
      BY <3>2
    <3>5. Linked(m, initProc', next', prev')
      BY <3>3, <3>4 DEF Linked
    <3>6. Members(m) = {p} /\ Members(l) = {}
      BY <3>1, <3>4 DEF Members
    <3> QED
      BY <3>5, <3>6
  <2>2. CASE initProc # NULL
    <3>1. /\ initProc' = initProc
          /\ next' = [next EXCEPT ![l[Len(l)]] = p, ![p] = NULL] /\ prev' = [prev EXCEPT ![p] = l[Len(l)]]
      BY <1>6, <2>2 DEF AddToProcessChain
    <3> HIDE DEF m
    <3>2. next \in [Procs -> Ref] /\ prev \in [Procs -> Ref]
      BY DEF ChainTypes
    <3> QED
      BY <1>1, <1>6, <2>2, <3>1, <3>2, LinkedAppend DEF m
  <2> QED
    BY <2>1, <2>2
<1> HIDE DEF m
<1>9. parent' = [parent EXCEPT ![p] = curPCB] /\ parent \in [Procs -> Ref] /\ initProc' = IF Up THEN initProc ELSE p
  BY <1>5 DEF AddToProcessChain, ChainTypes
<1>10. Members(l) \subseteq Procs
  BY <1>1, MembersOf
<1>11. Fits(m)'
  <2>1. \A q \in Procs : status'[q] = IF q = p THEN "ACTIVE" ELSE IF q = curPCB THEN "CHILDWAIT" ELSE status[q]
    <3>1. status' = [q \in Procs |-> CASE q = p -> "ACTIVE" [] q = curPCB -> "CHILDWAIT" [] OTHER -> status[q]]
      BY Zenon DEF StatusAtStart
    <3>2. p # curPCB
      BY <1>1, <1>3, <1>4 DEF Nested
    <3> QED
      BY ONLY <3>1, <3>2
  <2>2. \A q \in Members(l) :
          status[q] = IF q = curPCB THEN "ACTIVE" ELSE IF q \in Running THEN "CHILDWAIT" ELSE "TSR"
    BY <1>1 DEF Fits
  <2>3. curPCB \in Procs => curPCB \in Running
    BY <1>1, <1>4, ProcsAssumption DEF Nested
  <2>4. \A q \in Procs : status'[q] = "TSR" <=> status[q] = "TSR"
    <3>1. status[p] # "TSR"
      BY <1>1 DEF Fits
    <3>2. curPCB \in Procs => status[curPCB] = "ACTIVE"
      BY <1>3, <2>2, <2>3
    <3> QED
      BY <2>1, <3>1, <3>2
  <2>5. Members(m) = Running' \cup {q \in Procs : status'[q] = "TSR"}
    <3>1. Members(l) = Running \cup {q \in Procs : status[q] = "TSR"}
      BY <1>1 DEF Fits
    <3> QED
      BY <1>3, <1>8, <2>4, <3>1
  <2>6. \A q \in Members(m) \ {initProc'} : parent'[q] \in Members(m)
    <3>1. CASE Up
      <4>1. \A q \in Members(l) \ {initProc} : parent[q] \in Members(l)
        BY <1>1 DEF Fits
      <4>2. parent'[p] = curPCB /\ \A q \in Members(l) : parent'[q] = parent[q]
        BY <1>9, <1>10
      <4> QED
        BY <1>3, <1>4, <1>8, <1>9, <3>1, <4>1, <4>2
    <3>2. CASE ~Up
      <4>1. Members(l) = {}
        BY <1>1, <1>5, <3>2, MembersOf DEF Linked
      <4> QED
        BY <1>8, <1>9, <3>2, <4>1
    <3> QED
      BY <3>1, <3>2
  <2>7. \A q \in Members(m) :
          status'[q] = IF q = p THEN "ACTIVE" ELSE IF q \in Running' THEN "CHILDWAIT" ELSE "TSR"
    BY <1>3, <1>8, <1>10, <2>1, <2>2, <2>3
  <2> QED
    BY <2>5, <2>6, <2>7 DEF Fits
<1>12. Nested'
  <2>1. Len(frames') = n + 1 /\ frames'[n + 1].pcb = p /\ \A k \in 1 .. n : frames'[k] = frames[k]
    BY DEF Pushed
  <2>2. \A k \in 1 .. n : frames[k].pcb \in Running /\ frames[k].pcb # p /\ frames[k].pcb \in Procs
    BY <1>3, RunningIs
  <2>3. \A i, j \in 1 .. n + 1 : frames'[i].pcb = frames'[j].pcb => i = j
    <3> SUFFICES ASSUME NEW i \in 1 .. n + 1, NEW j \in 1 .. n + 1, frames'[i].pcb = frames'[j].pcb PROVE i = j
      OBVIOUS
    <3>1. CASE i \in 1 .. n /\ j \in 1 .. n
      BY <1>1, <2>1, <3>1 DEF Nested
    <3>2. CASE i = n + 1 \/ j = n + 1
      BY <1>1, <2>1, <2>2, <3>2
    <3> QED
      BY <1>1, <3>1, <3>2
  <2>4. ASSUME NEW k \in 1 .. n + 1
        PROVE  parent'[frames'[k].pcb] = IF k = 1 THEN NULL ELSE frames'[k - 1].pcb
    <3>1. CASE k \in 1 .. n
      <4>1. parent'[frames'[k].pcb] = parent[frames[k].pcb]
        BY <1>9, <2>1, <2>2, <3>1
      <4>2. parent[frames[k].pcb] = IF k = 1 THEN NULL ELSE frames[k - 1].pcb
        BY <1>1, <3>1 DEF Nested
      <4>3. k # 1 => frames'[k - 1] = frames[k - 1]
        BY <1>1, <2>1, <3>1
      <4> QED
        BY <4>1, <4>2, <4>3
    <3>2. CASE k = n + 1
      <4>1. parent'[frames'[k].pcb] = curPCB
        BY <1>9, <2>1, <3>2
      <4>2. n = 0 => curPCB = NULL
        BY <1>1 DEF Nested
      <4>3. n # 0 => curPCB = frames[n].pcb /\ frames'[n] = frames[n] /\ k - 1 = n /\ k # 1
        BY <1>1, <1>4, <2>1, <3>2
      <4> QED
        BY <1>1, <3>2, <4>1, <4>2, <4>3
    <3> QED
      BY <1>1, <3>1, <3>2
  <2>5. Up' /\ Top'.pcb = p /\ frames'[1].pcb = initProc'
    <3>1. Up' /\ Top' = frames'[n + 1]
      BY <1>1, <2>1 DEF Stacked, Top
    <3>2. n = 0 => frames'[1].pcb = p
      BY <2>1
    <3>3. n # 0 => frames'[1] = frames[1]
      BY <1>1, <2>1
    <3> QED
      BY <1>1, <1>4, <1>9, <2>1, <3>1, <3>2, <3>3
  <2> QED
    BY <2>1, <2>3, <2>4, <2>5 DEF Nested
<1>13. Tree(m)'
  BY <1>8, <1>11, <1>12 DEF Tree, Linked
<1> QED
  BY <1>1, <1>2, <1>7, <1>8, <1>13, ChainThen

(* A program ends, and stays on the chain m or not; others go on below it. *)
LEMMA EndNested ==
  ASSUME Stacked, Nested, Up, Popped, Len(frames) # 1, curPCB' = parent[curPCB], initProc' = initProc,
         \A k \in 1 .. Len(frames) - 1 : parent'[frames[k].pcb] = parent[frames[k].pcb]
  PROVE  /\ Nested' /\ Up' /\ curPCB # initProc /\ parent[curPCB] \in Running \ {curPCB}
         /\ initProc \in Running
<1> DEFINE n == Len(frames)
<1>1. /\ n \in Nat /\ n # 0 /\ n # 1 /\ curPCB = frames[n].pcb /\ Len(frames') = n - 1 /\ Stacked'
      /\ \A k \in 1 .. n - 1 : frames'[k] = frames[k]
      /\ n \in 1 .. n /\ n - 1 \in 1 .. n /\ 1 \in 1 .. n - 1 /\ 1 \in 1 .. n
      /\ \A k \in 1 .. n - 1 : k \in 1 .. n
  <2>1. n \in Nat /\ n # 0 /\ n # 1 /\ curPCB = frames[n].pcb
    BY DEF Stacked, Nested, Top
  <2>2. Len(frames') = n - 1 /\ Stacked' /\ \A k \in 1 .. n - 1 : frames'[k] = frames[k]
    BY DEF Popped
  <2> QED
    BY <2>1, <2>2
<1>2. parent[curPCB] = frames[n - 1].pcb /\ frames[n - 1].pcb # curPCB /\ curPCB # initProc
      /\ initProc = frames[1].pcb
  BY <1>1 DEF Nested
<1>3. \A i, j \in 1 .. Len(frames') : frames'[i].pcb = frames'[j].pcb => i = j
  <2>1. \A i, j \in 1 .. n : frames[i].pcb = frames[j].pcb => i = j
    BY DEF Nested
  <2> QED
    BY <1>1, <2>1
<1>4. ASSUME NEW k \in 1 .. Len(frames')
      PROVE  parent'[frames'[k].pcb] = IF k = 1 THEN NULL ELSE frames'[k - 1].pcb
  <2>1. k \in 1 .. n - 1 /\ k \in 1 .. n
    BY <1>1
  <2>2. parent[frames[k].pcb] = IF k = 1 THEN NULL ELSE frames[k - 1].pcb
    BY <2>1 DEF Nested
  <2>3. parent'[frames'[k].pcb] = parent[frames[k].pcb]
    BY <1>1, <2>1
  <2>4. k # 1 => frames'[k - 1] = frames[k - 1]
    BY <1>1, <2>1
  <2> QED
    BY <2>2, <2>3, <2>4
<1>5. Up' /\ Top' = frames'[n - 1]
  BY <1>1 DEF Stacked, Top
<1>6. curPCB' = Top'.pcb /\ initProc' = frames'[1].pcb
  BY <1>1, <1>2, <1>5
<1>7. Nested'
  BY <1>3, <1>4, <1>5, <1>6 DEF Nested
<1> QED
  BY <1>1, <1>2, <1>5, <1>7, RunningIs

LEMMA EndFits ==
  ASSUME ChainTypes, Stacked, Nested, Up, Popped, NEW l \in Seq(Procs), Fits(l),
         curPCB' = parent[curPCB], parent[curPCB] \in Running \ {curPCB}, initProc' = initProc,
         NEW how \in {"TERMINATED", "TSR"}, status' = StatusAtEnd(how),
         NEW m, Members(m) = IF how = "TSR" THEN Members(l) ELSE Members(l) \ {curPCB},
         \A q \in Members(m) \ {initProc} : parent'[q] \in Members(m)
  PROVE  Fits(m)' /\ status' \in [Procs -> Status]
<1>1. Running' = Running \ {curPCB} /\ curPCB \in Running
  BY RunningPopped
<1>2. curPCB \in Procs /\ Members(l) \subseteq Procs /\ status \in [Procs -> Status]
  BY <1>1, RunningIs, MembersOf DEF ChainTypes
<1>3. /\ Members(l) = Running \cup {q \in Procs : status[q] = "TSR"}
      /\ \A q \in Members(l) :
           status[q] = IF q = curPCB THEN "ACTIVE" ELSE IF q \in Running THEN "CHILDWAIT" ELSE "TSR"
  BY DEF Fits
<1>4. /\ status'[curPCB] = how
      /\ status'[parent[curPCB]] = "ACTIVE"
      /\ \A q \in Procs \ {curPCB, parent[curPCB]} : status'[q] = status[q]
  <2>1. status' = [q \in Procs |-> CASE q = curPCB -> how
                                     [] q = parent[curPCB] /\ status[q] = "CHILDWAIT" -> "ACTIVE"
                                     [] OTHER -> status[q]]
    BY Zenon DEF StatusAtEnd
  <2>2. parent[curPCB] \in Procs /\ parent[curPCB] # curPCB /\ status[parent[curPCB]] = "CHILDWAIT"
    BY <1>2, <1>3
  <2> QED
    BY ONLY <1>2, <2>1, <2>2
<1>5. status' \in [Procs -> Status]
  <2>1. DOMAIN status' = Procs /\ status' = [q \in Procs |-> status'[q]]
    BY DEF StatusAtEnd
  <2>2. \A q \in Procs : status'[q] \in Status
    BY <1>2, <1>4 DEF Status
  <2> QED
    BY ONLY <2>1, <2>2
<1>6. \A q \in Procs : status'[q] = "TSR" <=> q \in (IF how = "TSR" THEN {curPCB} ELSE {}) \/ status[q] = "TSR"
  <2>1. status[parent[curPCB]] # "TSR" /\ status[curPCB] # "TSR"
    BY <1>1, <1>2, <1>3
  <2> QED
    BY <1>4, <2>1
<1>7. Members(m) = Running' \cup {q \in Procs : status'[q] = "TSR"}
  <2>1. status[curPCB] # "TSR"
    BY <1>1, <1>2, <1>3
  <2>2. CASE how = "TSR"
    BY <1>1, <1>2, <1>3, <1>6, <2>1, <2>2
  <2>3. CASE how # "TSR"
    BY <1>1, <1>2, <1>3, <1>6, <2>1, <2>3
  <2> QED
    BY <2>2, <2>3
<1>8. ASSUME NEW q \in Members(m)
      PROVE  status'[q] = IF q = curPCB' THEN "ACTIVE" ELSE IF q \in Running' THEN "CHILDWAIT" ELSE "TSR"
  <2>1. q \in Members(l) /\ q \in Procs
    BY <1>2
  <2>2. CASE q = curPCB
    BY <1>1, <1>4, <2>2
  <2>3. CASE q = curPCB'
    BY <1>4, <2>3
  <2>4. CASE q # curPCB /\ q # curPCB'
    BY <1>1, <1>3, <1>4, <2>1, <2>4
  <2> QED
    BY <2>2, <2>3, <2>4
<1> QED
  BY <1>5, <1>7, <1>8 DEF Fits

(* It ends and is taken off the chain.                                     *)
LEMMA EndTree ==
  ASSUME ChainTypes, Stacked, Up, NEW l, Tree(l), Popped,
         RemoveFromProcessChain(curPCB), curPCB' = parent[curPCB], status' = StatusAtEnd("TERMINATED")
  PROVE  ChainTypes' /\ Stacked' /\ (Alive' => (\E m : Tree(m)') /\ Chained' = Chained \ {curPCB})
<1> DEFINE n == Len(frames)
<1>1. /\ l \in Seq(Procs) /\ Linked(l, initProc, next, prev) /\ Fits(l) /\ Nested /\ n \in Nat \ {0}
      /\ Stacked' /\ initProc' = initProc
  BY DEF Tree, Linked, Stacked, Popped, RemoveFromProcessChain
<1>2. Chained = Members(l)
  BY <1>1, ChainIs
<1>3. curPCB \in Running /\ Running \subseteq Members(l) /\ Running' = Running \ {curPCB}
  BY <1>1, RunningPopped DEF Fits
<1>4. /\ curPCB \in Procs /\ Members(l) \subseteq Procs /\ curPCB \in Members(l)
      /\ next \in [Procs -> Ref] /\ prev \in [Procs -> Ref] /\ parent \in [Procs -> Ref]
  BY <1>1, <1>3, MembersOf DEF ChainTypes
<1>5. initProc' \in Ref /\ curPCB' \in Ref
  BY <1>1, <1>4 DEF ChainTypes
<1>6. status' \in [Procs -> Status]
  BY <1>4 DEF StatusAtEnd, ChainTypes, Status
<1>7. CASE n = 1
  <2>1. curPCB = initProc /\ 1 \in 1 .. n
    BY <1>1, <1>7 DEF Nested, Top
  <2>2. prev[curPCB] = NULL
    <3>1. initProc = l[1] /\ 1 \in 1 .. Len(l)
      BY <1>1, <1>4, <2>1, MembersOf, ProcsAssumption DEF Linked
    <3> QED
      BY <1>1, <2>1, <3>1 DEF Linked
  <2>3. UNCHANGED <<next, prev, parent>>
    BY <2>2 DEF RemoveFromProcessChain
  <2>4. ~Alive'
    <3>1. ~Up'
      BY <1>1, <1>7 DEF Popped, Stacked
    <3>2. initProc' # NULL
      BY <1>1, <1>4, <2>1, ProcsAssumption
    <3> QED
      BY <3>1, <3>2 DEF Alive
  <2> QED
    BY <1>1, <1>4, <1>5, <1>6, <2>3, <2>4 DEF ChainTypes
<1>8. CASE n # 1
  <2>1. curPCB # initProc
    <3>1. n \in 1 .. n /\ 1 \in 1 .. n /\ curPCB = frames[n].pcb /\ initProc = frames[1].pcb
      BY <1>1 DEF Nested, Top
    <3> QED
      BY <1>1, <1>8, <3>1 DEF Nested
  <2>2. /\ prev[curPCB] \in Procs
        /\ \E m : /\ Linked(m, initProc, Forth(next, prev, curPCB), Back(next, prev, curPCB))
                  /\ Members(m) = Members(l) \ {curPCB}
    <3>1. /\ Linked(l, initProc, next, prev) /\ next \in [Procs -> Ref] /\ prev \in [Procs -> Ref]
          /\ curPCB \in Members(l) /\ curPCB # initProc
      BY <1>1, <1>4, <2>1
    <3> QED
      BY ONLY <3>1, LinkedOut
  <2>3. prev[curPCB] # NULL
    BY <2>2, ProcsAssumption
  <2>4. /\ next' = Forth(next, prev, curPCB) /\ prev' = Back(next, prev, curPCB)
        /\ parent' = Reparented(curPCB)
    BY <2>3, Zenon DEF RemoveFromProcessChain, Forth, Back
  <2>5. PICK m : Linked(m, initProc', next', prev') /\ Members(m) = Members(l) \ {curPCB}
    BY <1>1, <2>2, <2>4
  <2>6. \A q \in Procs : parent'[q] = IF q \in Members(l) \ {curPCB} /\ parent[q] = curPCB THEN initProc ELSE parent[q]
    BY <1>2, <2>4 DEF Reparented
  <2>7. \A k \in 1 .. n - 1 : parent'[frames[k].pcb] = parent[frames[k].pcb]
    <3> SUFFICES ASSUME NEW k \in 1 .. n - 1 PROVE parent[frames[k].pcb] # curPCB /\ frames[k].pcb \in Procs
      BY <2>6
    <3>1. k \in 1 .. n /\ n \in 1 .. n /\ k - 1 # n /\ (k # 1 => k - 1 \in 1 .. n) /\ curPCB = frames[n].pcb
      BY <1>1 DEF Nested, Top
    <3>2. parent[frames[k].pcb] = IF k = 1 THEN NULL ELSE frames[k - 1].pcb
      BY <1>1, <3>1 DEF Nested
    <3>3. k # 1 => frames[k - 1].pcb # frames[n].pcb
      BY <1>1, <3>1 DEF Nested
    <3> QED
      BY <1>4, <3>1, <3>2, <3>3, ProcsAssumption DEF Stacked
  <2>8. Nested' /\ Up' /\ parent[curPCB] \in Running \ {curPCB} /\ initProc \in Running
    BY <1>1, <1>8, <2>7, EndNested
  <2>9. \A q \in Members(m) \ {initProc} : parent'[q] \in Members(m)
    <3> SUFFICES ASSUME NEW q \in Members(m) \ {initProc} PROVE parent'[q] \in Members(m)
      OBVIOUS
    <3>1. q \in Members(l) \ {curPCB} /\ q \in Procs /\ parent[q] \in Members(l) /\ initProc \in Members(m)
      BY <1>1, <1>3, <1>4, <2>1, <2>5, <2>8 DEF Fits
    <3>2. parent'[q] = IF parent[q] = curPCB THEN initProc ELSE parent[q]
      BY <2>6, <3>1
    <3> QED
      BY <2>5, <3>1, <3>2
  <2>10. Fits(m)'
    BY <1>1, <2>5, <2>8, <2>9, EndFits
  <2>11. Tree(m)'
    BY <2>5, <2>8, <2>10 DEF Tree, Linked
  <2>12. next' \in [Procs -> Ref] /\ prev' \in [Procs -> Ref] /\ parent' \in [Procs -> Ref]
    <3>1. next' \in [Procs -> Ref]
      BY <1>4, <2>4 DEF Ref, Forth
    <3>2. prev' \in [Procs -> Ref]
      <4>1. \A q \in Procs : (CASE q = curPCB -> NULL [] q = next[curPCB] -> prev[curPCB]
                                [] OTHER -> prev[q]) \in Ref
        BY <1>4, <2>1, <2>2 DEF Ref
      <4> QED
        BY <2>4, <4>1 DEF Back
    <3>3. parent' \in [Procs -> Ref]
      BY <1>2, <1>4, <2>4 DEF Reparented, ChainTypes
    <3> QED
      BY <3>1, <3>2, <3>3
  <2>13. Chained' = Chained \ {curPCB}
    BY <1>2, <2>5, ChainThen
  <2> QED
    BY <1>1, <1>5, <1>6, <2>11, <2>12, <2>13 DEF ChainTypes
<1> QED
  BY <1>7, <1>8

(* It ends and stays.                                                      *)
LEMMA StayTree ==
  ASSUME ChainTypes, Stacked, Up, NEW l, Tree(l), Popped, UNCHANGED chain,
         curPCB' = parent[curPCB], status' = StatusAtEnd("TSR")
  PROVE  ChainTypes' /\ Stacked' /\ (Alive' => \E m : Tree(m)')
<1> DEFINE n == Len(frames)
<1>1. /\ l \in Seq(Procs) /\ Linked(l, initProc, next, prev) /\ Fits(l) /\ Nested /\ n \in Nat \ {0}
      /\ Stacked' /\ UNCHANGED <<initProc, next, prev, parent>>
  BY DEF Tree, Linked, Stacked, Popped, chain
<1>2. curPCB \in Procs /\ curPCB = frames[n].pcb
  BY <1>1, RunningPopped, RunningIs
<1>3. ChainTypes'
  <2>1. status' \in [Procs -> Status]
    BY <1>2 DEF StatusAtEnd, ChainTypes, Status
  <2> QED
    BY <1>1, <1>2, <2>1 DEF ChainTypes
<1>4. CASE n = 1
  <2>1. ~Up' /\ initProc' # NULL
    BY <1>1, <1>2, <1>4, ProcsAssumption DEF Popped, Stacked, Nested
  <2> QED
    BY <1>1, <1>3, <2>1 DEF Alive
<1>5. CASE n # 1
  <2>1. Nested' /\ Up' /\ parent[curPCB] \in Running \ {curPCB}
    BY <1>1, <1>5, EndNested
  <2>2. Fits(l)'
    BY <1>1, <2>1, EndFits DEF Fits
  <2>3. Tree(l)'
    BY <1>1, <2>1, <2>2 DEF Tree, Linked
  <2> QED
    BY <1>1, <1>3, <2>3
<1> QED
  BY <1>4, <1>5

LEMMA SameTree ==
  ASSUME TreeInv, UNCHANGED <<chain, curPCB, status, frames>>
  PROVE  TreeInv'
<1>1. UNCHANGED <<initProc, next, prev, parent>>
  BY DEF chain
<1>2. ChainTypes' /\ Stacked' /\ Alive' = Alive
  BY <1>1 DEF TreeInv, ChainTypes, Stacked, Alive, Up
<1>3. \A l : Fits(l)' <=> Fits(l)
  BY <1>1 DEF Fits, Running
<1>4. Nested' <=> Nested
  BY <1>1 DEF Nested, Up, Top
<1>5. \A l : Linked(l, initProc, next, prev)' <=> Linked(l, initProc, next, prev)
  BY <1>1 DEF Linked
<1>6. \A l : Tree(l)' <=> Tree(l)
  BY <1>3, <1>4, <1>5 DEF Tree
<1> QED
  BY <1>2, <1>6 DEF TreeInv

LEMMA TreeShows ==
  ASSUME TreeInv
  PROVE  FamilyTree
<1> SUFFICES ASSUME Up PROVE ChainSound /\ ParentsKnown /\ StatusTells
  BY DEF FamilyTree
<1>1. PICK l : Tree(l)
  BY DEF TreeInv, Alive
<1>2. /\ Linked(l, initProc, next, prev) /\ Fits(l) /\ Nested /\ Stacked
      /\ l \in Seq(Procs) /\ Len(l) \in Nat
  BY <1>1 DEF Tree, Linked, TreeInv
<1>3. Chain = l /\ Chained = Members(l) /\ Len(l) = Cardinality(Members(l))
  BY <1>2, ChainIs, MembersCounted
<1>4. \A p \in Members(l) : IF p = initProc THEN prev[p] = NULL
                            ELSE prev[p] \in Members(l) /\ next[prev[p]] = p
  <2> SUFFICES ASSUME NEW p \in Members(l)
               PROVE  IF p = initProc THEN prev[p] = NULL
                      ELSE prev[p] \in Members(l) /\ next[prev[p]] = p
    OBVIOUS
  <2>1. PICK k \in 1 .. Len(l) : p = l[k]
    BY <1>2, MembersOf
  <2>2. 1 \in 1 .. Len(l) /\ initProc = l[1]
    BY <1>2, <2>1 DEF Linked
  <2>3. prev[p] = IF k = 1 THEN NULL ELSE l[k - 1]
    BY <1>2, <2>1 DEF Linked
  <2>4. p = initProc <=> k = 1
    BY <1>2, <2>1, <2>2 DEF Linked
  <2>5. CASE k # 1
    <3>1. k - 1 \in 1 .. Len(l) /\ k - 1 # Len(l) /\ (k - 1) + 1 = k
      BY <1>2, <2>1, <2>5
    <3>2. next[l[k - 1]] = l[(k - 1) + 1]
      BY <1>2, <3>1 DEF Linked
    <3>3. l[k - 1] \in Members(l)
      BY <1>2, <3>1, MembersOf
    <3> QED
      BY <2>1, <2>3, <2>4, <2>5, <3>1, <3>2, <3>3
  <2> QED
    BY <2>3, <2>4, <2>5
<1>5. ChainSound
  BY <1>2, <1>3, <1>4 DEF ChainSound, Fits
<1>6. ParentsKnown
  BY <1>2, <1>3 DEF ParentsKnown, Nested, Fits, Stacked
<1>7. StatusTells
  BY <1>2, <1>3 DEF StatusTells, Nested, Fits
<1> QED
  BY <1>5, <1>6, <1>7

LEMMA FramesPushed ==
  ASSUME NEW R, \A r \in R : r.pcb \in Procs, frames \in Seq(R), NEW x \in R, frames' = Append(frames, x)
  PROVE  Pushed(x.pcb) /\ frames' \in Seq(R)
<1>1. /\ frames' \in Seq(R) /\ Len(frames') = Len(frames) + 1 /\ Len(frames) \in Nat
      /\ \A k \in 1 .. Len(frames) : frames'[k] = frames[k]
      /\ frames'[Len(frames) + 1] = x
  OBVIOUS
<1>2. DOMAIN frames' = 1 .. Len(frames') /\ \A k \in 1 .. Len(frames') : frames'[k].pcb \in Procs
  BY <1>1
<1>3. Up' <=> Len(frames') # 0
  BY <1>1 DEF Up
<1> QED
  BY <1>1, <1>2, <1>3 DEF Pushed, Stacked

LEMMA FramesPopped ==
  ASSUME NEW R, \A r \in R : r.pcb \in Procs, frames \in Seq(R), frames # <<>>,
         frames' = SubSeq(frames, 1, Len(frames) - 1)
  PROVE  Popped /\ frames' \in Seq(R)
<1>1. Len(frames) \in Nat \ {0}
  OBVIOUS
<1>2. /\ frames' \in Seq(R) /\ Len(frames') = Len(frames) - 1
      /\ \A k \in 1 .. Len(frames') : frames'[k] = frames[k]
  <2> DEFINE n == Len(frames) - 1
  <2>1. n \in Int /\ 1 \in Int /\ \A k \in 1 .. n : frames[k] \in R
    BY <1>1
  <2>2. /\ SubSeq(frames, 1, n) \in Seq(R)
        /\ Len(SubSeq(frames, 1, n)) = IF 1 <= n THEN n - 1 + 1 ELSE 0
        /\ \A k \in 1 .. n - 1 + 1 : SubSeq(frames, 1, n)[k] = frames[1 + k - 1]
    BY ONLY <2>1, SubSeqProperties
  <2>3. n - 1 + 1 = n /\ \A k \in 1 .. n : 1 + k - 1 = k
    BY <1>1
  <2>4. Len(frames') = n /\ \A k \in 1 .. n : frames'[k] = frames[k]
    BY <1>1, <2>2, <2>3
  <2> QED
    BY <2>2, <2>4
<1>3. DOMAIN frames' = 1 .. Len(frames') /\ \A k \in 1 .. Len(frames') : frames'[k].pcb \in Procs
  BY <1>2
<1>4. Up' <=> Len(frames') # 0
  BY ONLY <1>2, frames' \in Seq(R) DEF Up
<1> QED
  BY <1>1, <1>2, <1>3, <1>4 DEF Popped, Stacked

LEMMA FramesStacked ==
  ASSUME NEW R, \A r \in R : r.pcb \in Procs, frames \in Seq(R)
  PROVE  Stacked
<1>1. Len(frames) \in Nat /\ DOMAIN frames = 1 .. Len(frames) /\ \A k \in 1 .. Len(frames) : frames[k] \in R
  OBVIOUS
<1>2. Up <=> Len(frames) # 0
  BY <1>1 DEF Up
<1> QED
  BY <1>1, <1>2 DEF Stacked

(* Before the first program.                                               *)
LEMMA FirstTree ==
  ASSUME InitProcesses
  PROVE  TreeInv /\ Chained = {}
<1>1. /\ frames = <<>> /\ Len(frames) = 0 /\ ~Up /\ Running = {} /\ initProc = NULL /\ curPCB = NULL
      /\ \A p \in Procs : next[p] = NULL /\ prev[p] = NULL /\ status[p] # "TSR"
  BY DEF InitProcesses, Up, Running
<1>2. ChainTypes
  BY DEF InitProcesses, ChainTypes, Ref, Status
<1>3. Stacked
  BY <1>1 DEF Stacked
<1>4. Members(<<>>) = {} /\ Linked(<<>>, initProc, next, prev)
  BY <1>1 DEF Members, Linked
<1>5. Fits(<<>>) /\ Nested
  BY <1>1, <1>4 DEF Fits, Nested
<1>6. Tree(<<>>)
  BY <1>4, <1>5 DEF Tree
<1> QED
  BY <1>2, <1>3, <1>4, <1>6, ChainIs DEF TreeInv

LEMMA TreeNested ==
  ASSUME TreeInv, Alive
  PROVE  /\ ChainTypes /\ Stacked /\ Nested /\ Chained \subseteq Procs
         /\ Chained = Running \cup {p \in Procs : status[p] = "TSR"}
         /\ ~Up => Running = {} /\ Chained = {}
<1>1. PICK l : Tree(l)
  BY DEF TreeInv
<1>2. Linked(l, initProc, next, prev) /\ Fits(l) /\ Nested /\ Stacked /\ ChainTypes /\ l \in Seq(Procs)
  BY <1>1 DEF Tree, TreeInv, Linked
<1>3. Chained = Members(l)
  BY <1>2, ChainIs
<1>4. ASSUME ~Up PROVE Running = {} /\ Members(l) = {}
  <2>1. Len(frames) = 0 /\ DOMAIN frames = 1 .. 0 /\ initProc = NULL
    BY <1>2, <1>4 DEF Stacked, Nested
  <2>2. Len(l) = 0
    BY <1>2, <2>1, MembersOf DEF Linked
  <2> QED
    BY <2>1, <2>2 DEF Running, Members
<1> QED
  BY <1>2, <1>3, <1>4, MembersOf DEF Fits

-----------------------------------------------------------------------------
(* PDOS/86: what is allocated, and under which id.  A block that a program *)
(* asks for has the number of its level; what loadExe makes has 0.         *)
Program86 == [pcb : Procs, header : BOOLEAN]

Types86 ==
  /\ held \subseteq Blocks /\ id \in [Blocks -> Nat] /\ memId = Len(frames)
  /\ room \in [Procs -> 0 .. PcbUnits + ProgUnits]
  /\ frames \in Seq(Program86) /\ crashed \in BOOLEAN

OwnerKnown == \A b \in held : IF id[b] = 0 THEN b[2] \in Chained ELSE id[b] <= Len(frames) /\ b[2] = frames[id[b]].pcb
IdTells == \A b \in held : /\ b[1] \in {"pcb", "env", "header", "mem"}
                           /\ b[1] = "mem" => id[b] # 0
                           /\ b[1] \in {"pcb", "header"} => id[b] = 0
HeaderKnown == \A b \in held : b[1] = "header" => \E k \in 1 .. Len(frames) : b[2] = frames[k].pcb /\ frames[k].header
BlockKept == /\ Chained = {p \in Procs : <<"pcb", p>> \in held}
             /\ \A p \in Running : <<"env", p>> \in held
Owned86 == OwnerKnown /\ IdTells /\ HeaderKnown /\ BlockKept

Inv86 == TreeInv /\ Types86 /\ (~crashed /\ Alive => Owned86)


LEMMA Show86 ==
  ASSUME Inv86
  PROVE  FamilyTree /\ MemoryAccounted
<1>1. FamilyTree
  BY TreeShows DEF Inv86
<1>2. ChainTypes /\ Types86 /\ Stacked
  BY DEF Inv86, TreeInv
<1>3. TypeOK
  BY <1>2 DEF TypeOK, TypeOKProcesses, ChainTypes, Types86, Program86, Stacked
<1>4. ASSUME Up, ~crashed
      PROVE  /\ memId = Len(frames)
             /\ \A b \in held : IF id[b] = 0 THEN b[2] \in Chained ELSE id[b] <= memId /\ b[2] = frames[id[b]].pcb
             /\ Chained = {p \in Procs : <<"pcb", p>> \in held}
             /\ \A p \in Running : <<"env", p>> \in held
  BY <1>2, <1>4 DEF Inv86, Alive, Owned86, OwnerKnown, BlockKept, Types86
<1> QED
  BY <1>1, <1>3, <1>4 DEF MemoryAccounted, Ready

LEMMA Init86 ==
  ASSUME Init
  PROVE  Inv86
<1>1. InitProcesses
  BY DEF Init, InitProcesses
<1>2. TreeInv /\ Chained = {} /\ held = {} /\ frames = <<>>
  BY <1>1, FirstTree DEF InitProcesses
<1>3. Types86
  <2>1. 0 \in 0 .. PcbUnits + ProgUnits
    BY Programs86Assumption
  <2>2. room \in [Procs -> 0 .. PcbUnits + ProgUnits] /\ crashed \in BOOLEAN
    BY <2>1 DEF Init
  <2>3. held \subseteq Blocks /\ id \in [Blocks -> Nat] /\ memId = 0 /\ frames \in Seq(Program86) /\ Len(frames) = 0
    BY <1>1 DEF InitProcesses
  <2> QED
    BY <2>2, <2>3 DEF Types86
<1>4. Running = {}
  BY <1>2 DEF Running
<1>5. Owned86
  BY <1>2, <1>4 DEF Owned86, OwnerKnown, IdTells, HeaderKnown, BlockKept
<1> QED
  BY <1>2, <1>3, <1>5 DEF Inv86

(* What a start, a call and an end do to what is allocated.                *)
LEMMA Exec86 ==
  ASSUME Inv86, NEW p \in Procs, NEW h \in BOOLEAN, Exec(p, h)
  PROVE  Inv86'
<1> DEFINE n == Len(frames)
           own == ({"pcb", "env"} \cup (IF h THEN {"header"} ELSE {})) \X {p}
           x == [pcb |-> p, header |-> h]
<1>1. /\ ~crashed /\ (Up \/ initProc = NULL) /\ p \notin Chained /\ held \cap (Kinds \X {p}) = {}
      /\ held' = held \cup own /\ id' = [b \in Blocks |-> IF b \in own THEN 0 ELSE id[b]]
      /\ room' = [room EXCEPT ![p] = PcbUnits + ProgUnits]
      /\ AddToProcessChain(p) /\ curPCB' = p /\ status' = StatusAtStart(p)
      /\ memId' = memId + 1 /\ frames' = Append(frames, x) /\ crashed' = crashed
  BY DEF Exec
<1>2. TreeInv /\ Types86 /\ Owned86 /\ Alive /\ Stacked /\ ChainTypes /\ n \in Nat
  BY <1>1 DEF Inv86, Alive, TreeInv, Stacked
<1>3. x \in Program86 /\ x.pcb = p /\ \A r \in Program86 : r.pcb \in Procs
  BY DEF Program86
<1> HIDE DEF x
<1>4. Pushed(p) /\ frames' \in Seq(Program86)
  <2>1. frames \in Seq(Program86)
    BY <1>2 DEF Types86
  <2> QED
    BY <1>1, <1>3, <2>1, FramesPushed
<1>5. PICK l : Tree(l)
  BY <1>2 DEF TreeInv
<1>6. Chained = Members(l)
  BY <1>5, ChainIs DEF Tree
<1>7. ChainTypes' /\ Stacked' /\ (\E m : Tree(m)') /\ Chained' = Chained \cup {p}
  BY <1>1, <1>2, <1>4, <1>5, <1>6, StartTree
<1>8. TreeInv' /\ Running' = Running \cup {p}
  BY <1>2, <1>4, <1>7, RunningPushed DEF TreeInv
<1>9. own \subseteq Blocks /\ \A b \in own : b[1] \in {"pcb", "env", "header"} /\ b[2] = p
  BY Programs86Assumption DEF Blocks
<1>10. <<"pcb", p>> \in own /\ <<"env", p>> \in own /\ \A b \in own : b[1] = "header" => h
  OBVIOUS
<1> HIDE DEF own
<1>11. /\ id' \in [Blocks -> Nat] /\ held' \subseteq Blocks
       /\ \A b \in own : id'[b] = 0
       /\ \A b \in held \ own : id'[b] = id[b]
  BY <1>1, <1>2, <1>9 DEF Types86
<1>12. Types86'
  <2>1. room' \in [Procs -> 0 .. PcbUnits + ProgUnits]
    <3>1. PcbUnits + ProgUnits \in 0 .. PcbUnits + ProgUnits
      BY Programs86Assumption
    <3> QED
      BY <1>1, <1>2, <3>1 DEF Types86
  <2>2. memId' = Len(frames') /\ crashed' \in BOOLEAN
    BY <1>1, <1>2, <1>4 DEF Types86, Pushed
  <2> QED
    BY <1>4, <1>11, <2>1, <2>2 DEF Types86
<1>13. /\ Len(frames') = n + 1 /\ frames'[n + 1] = x
       /\ \A k \in 1 .. n : frames'[k] = frames[k]
  BY <1>1, <1>2 DEF Types86
<1>14. OwnerKnown'
  <2> SUFFICES ASSUME NEW b \in held'
               PROVE  IF id'[b] = 0 THEN b[2] \in Chained' ELSE id'[b] <= Len(frames') /\ b[2] = frames'[id'[b]].pcb
    BY DEF OwnerKnown
  <2>1. CASE b \in own
    BY <2>1, <1>7, <1>9, <1>11
  <2>2. CASE b \in held \ own
    <3>1. id'[b] = id[b] /\ id[b] \in Nat
      BY <2>2, <1>2, <1>11 DEF Types86
    <3>2. IF id[b] = 0 THEN b[2] \in Chained ELSE id[b] <= n /\ b[2] = frames[id[b]].pcb
      BY <2>2, <1>2 DEF Owned86, OwnerKnown
    <3> QED
      BY <3>1, <3>2, <1>2, <1>7, <1>13
  <2> QED
    BY <2>1, <2>2, <1>1
<1>15. IdTells'
  BY <1>1, <1>2, <1>9, <1>11 DEF Owned86, IdTells
<1>16. HeaderKnown'
  <2> SUFFICES ASSUME NEW b \in held', b[1] = "header"
               PROVE  \E k \in 1 .. Len(frames') : b[2] = frames'[k].pcb /\ frames'[k].header
    BY DEF HeaderKnown
  <2>1. CASE b \in own
    <3>1. n + 1 \in 1 .. Len(frames') /\ b[2] = frames'[n + 1].pcb /\ h
      BY <2>1, <1>2, <1>3, <1>9, <1>10, <1>13
    <3>2. x.header = h
      BY DEF x
    <3>3. frames'[n + 1].header
      BY ONLY <1>13, <3>1, <3>2
    <3> QED
      BY ONLY <3>1, <3>3
  <2>2. CASE b \in held \ own
    <3>1. PICK k \in 1 .. n : b[2] = frames[k].pcb /\ frames[k].header
      BY <2>2, <1>2 DEF Owned86, HeaderKnown
    <3>2. k \in 1 .. Len(frames') /\ frames'[k] = frames[k]
      BY <1>2, <1>13
    <3> QED
      BY ONLY <3>1, <3>2
  <2> QED
    BY <2>1, <2>2, <1>1
<1>17. BlockKept'
  <2>1. \A q \in Procs : <<"pcb", q>> \in own => q = p
    BY <1>9
  <2>2. Chained = {q \in Procs : <<"pcb", q>> \in held} /\ \A q \in Running : <<"env", q>> \in held
    BY <1>2 DEF Owned86, BlockKept
  <2> QED
    BY <2>1, <2>2, <1>1, <1>7, <1>8, <1>10 DEF BlockKept
<1> QED
  BY <1>8, <1>12, <1>14, <1>15, <1>16, <1>17 DEF Inv86, Owned86

LEMMA SameChain ==
  ASSUME UNCHANGED <<chain, curPCB, status, frames>>
  PROVE  Chained' = Chained /\ Running' = Running /\ (Up' <=> Up) /\ (Alive' <=> Alive) /\ frames' = frames
<1>1. initProc' = initProc /\ next' = next
  BY DEF chain
<1>2. Chain' = Chain
  BY <1>1 DEF Chain
<1> QED
  BY <1>1, <1>2 DEF Chained, Running, Up, Alive

(* The block b of the current program comes under the number of its level, *)
(* or blocks that need not be there go.                                    *)
LEMMA Call86 ==
  ASSUME Inv86, Up, ~crashed, UNCHANGED <<chain, curPCB, status, room, memId, frames>>, crashed' = FALSE,
         NEW b \in {<<"mem", curPCB>>, <<"env", curPCB>>},
         \/ held' = held \cup {b} /\ id' = [id EXCEPT ![b] = memId]
         \/ b[1] = "mem" /\ held' = held \ {b} /\ id' = [c \in Blocks |-> IF c \in held \ {b} THEN id[c] ELSE 0]
  PROVE  Inv86'
<1> DEFINE n == Len(frames)
<1>1. /\ TreeInv /\ Types86 /\ Owned86 /\ Alive /\ Stacked /\ Nested /\ n \in Nat \ {0}
      /\ curPCB = frames[n].pcb /\ curPCB \in Procs /\ memId = n
  <2>1. TreeInv /\ Types86 /\ Owned86 /\ Alive
    BY DEF Inv86, Alive
  <2>2. Stacked /\ Nested
    BY <2>1, TreeNested
  <2>3. n \in Nat \ {0}
    BY <2>2 DEF Stacked
  <2> QED
    BY <2>1, <2>2, <2>3 DEF Nested, Top, Stacked, Types86
<1>2. TreeInv' /\ Chained' = Chained /\ Running' = Running /\ frames' = frames
  BY <1>1, SameTree, SameChain
<1>3. b \in Blocks /\ b[2] = curPCB /\ b[1] \in {"mem", "env"} /\ b = <<b[1], curPCB>>
  BY <1>1, Programs86Assumption DEF Blocks
<1>4. /\ held' \subseteq held \cup {b} /\ held' \subseteq Blocks /\ id' \in [Blocks -> Nat]
      /\ \A c \in held' : id'[c] = IF c = b THEN n ELSE id[c]
  <2>1. held \subseteq Blocks /\ id \in [Blocks -> Nat] /\ n \in Nat
    BY <1>1 DEF Types86
  <2>2. CASE held' = held \cup {b} /\ id' = [id EXCEPT ![b] = memId]
    BY <2>1, <2>2, <1>1, <1>3
  <2>3. CASE held' = held \ {b} /\ id' = [c \in Blocks |-> IF c \in held \ {b} THEN id[c] ELSE 0]
    <3>1. id' \in [Blocks -> Nat] /\ \A c \in held \ {b} : c \in Blocks /\ id'[c] = id[c]
      BY <2>1, <2>3
    <3> QED
      BY <2>1, <2>3, <3>1
  <2> QED
    BY <2>2, <2>3
<1>5. \A c \in held : c # b \/ b[1] = "env" => c \in held'
  BY <1>3
<1>6. Types86'
  BY <1>1, <1>2, <1>4 DEF Types86
<1>7. OwnerKnown'
  BY <1>1, <1>2, <1>3, <1>4 DEF Owned86, OwnerKnown
<1>8. IdTells'
  BY <1>1, <1>3, <1>4 DEF Owned86, IdTells
<1>9. HeaderKnown'
  <2> SUFFICES ASSUME NEW c \in held', c[1] = "header"
               PROVE  \E k \in 1 .. Len(frames') : c[2] = frames'[k].pcb /\ frames'[k].header
    BY DEF HeaderKnown
  <2>1. PICK k \in 1 .. n : c[2] = frames[k].pcb /\ frames[k].header
    BY <1>1, <1>3, <1>4 DEF Owned86, HeaderKnown
  <2> QED
    BY ONLY <1>2, <2>1
<1>10. BlockKept'
  <2>1. \A q \in Procs : <<"pcb", q>> # b /\ (<<"env", q>> = b => b[1] = "env")
    BY <1>3
  <2>2. Chained = {q \in Procs : <<"pcb", q>> \in held} /\ \A q \in Running : <<"env", q>> \in held
    BY <1>1 DEF Owned86, BlockKept
  <2>3. \A q \in Procs : <<"pcb", q>> \in held' <=> <<"pcb", q>> \in held
    BY <1>4, <1>5, <2>1
  <2>4. \A q \in Running : q \in Procs
    BY <1>1, RunningIs
  <2>5. \A q \in Running : <<"env", q>> \in held'
    BY <1>5, <2>1, <2>2, <2>4
  <2> QED
    BY <1>2, <2>2, <2>3, <2>5 DEF BlockKept
<1> QED
  BY <1>2, <1>6, <1>7, <1>8, <1>9, <1>10 DEF Inv86, Owned86

LEMMA Calls86 ==
  ASSUME Inv86, AllocMem \/ FreeMem \/ SetEnv
  PROVE  Inv86'
<1>1. Up /\ ~crashed /\ UNCHANGED <<chain, curPCB, status, room, memId, frames>>
  BY DEF AllocMem, FreeMem, SetEnv, Ready, chain
<1>2. Types86 /\ curPCB \in Running /\ \A q \in Running : <<"env", q>> \in held
  <2>1. TreeInv /\ Types86 /\ Owned86 /\ Alive
    BY <1>1 DEF Inv86, Alive
  <2>2. Stacked /\ Nested /\ Len(frames) \in Nat /\ Len(frames) # 0
    BY <1>1, <2>1, TreeNested DEF Stacked
  <2>3. curPCB \in Running
    BY <1>1, <2>2, RunningIs DEF Nested, Top
  <2> QED
    BY <2>1, <2>3 DEF Owned86, BlockKept
<1>3. CASE AllocMem
  <2>1. /\ held' = held \cup {<<"mem", curPCB>>} /\ id' = [id EXCEPT ![<<"mem", curPCB>>] = memId]
        /\ crashed' = FALSE
    BY <1>1, <1>2, <1>3 DEF AllocMem, Types86
  <2> QED
    BY <1>1, <2>1, Call86
<1>4. CASE FreeMem
  <2>1. /\ held' = held \ {<<"mem", curPCB>>} /\ crashed' = FALSE
        /\ id' = [c \in Blocks |-> IF c \in held \ {<<"mem", curPCB>>} THEN id[c] ELSE 0]
    BY <1>1, <1>2, <1>4 DEF FreeMem, Holding, Types86
  <2>2. <<"mem", curPCB>>[1] = "mem"
    OBVIOUS
  <2> QED
    BY <1>1, <2>1, <2>2, Call86
<1>5. CASE SetEnv
  <2>1. /\ held' = held \cup {<<"env", curPCB>>} /\ id' = [id EXCEPT ![<<"env", curPCB>>] = memId]
        /\ crashed' = FALSE
    BY <1>2, <1>5 DEF SetEnv
  <2> QED
    BY <1>1, <2>1, Call86
<1> QED
  BY <1>3, <1>4, <1>5

(* The current program ends: the blocks that have its number go, those of  *)
(* other programs that do not have it stay, and of its own there are left  *)
(* all that memory is kept for, or none.                                   *)
LEMMA EndOwned86 ==
  ASSUME Stacked, Nested, Up, Chained \subseteq Procs, Running \subseteq Chained, Types86, Owned86, Popped,
         held' \subseteq held, \A b \in held' : id'[b] = id[b] /\ id[b] # memId,
         \A b \in held : id[b] # memId /\ b[2] # curPCB => b \in held',
         <<"header", curPCB>> \notin held',
         \/ Chained' = Chained \ {curPCB} /\ \A b \in held' : b[2] # curPCB
         \/ Chained' = Chained /\ <<"pcb", curPCB>> \in held'
  PROVE  Owned86'
<1> DEFINE n == Len(frames)
<1>1. /\ n \in Nat \ {0} /\ memId = n /\ Len(frames') = n - 1 /\ \A k \in 1 .. n - 1 : frames'[k] = frames[k]
      /\ curPCB = frames[n].pcb /\ curPCB \in Procs /\ Running' = Running \ {curPCB} /\ curPCB \in Running
      /\ held \subseteq Blocks /\ \A b \in held : id[b] \in Nat
  <2>1. Running' = Running \ {curPCB} /\ curPCB \in Running /\ curPCB = frames[n].pcb
    BY RunningPopped
  <2>2. n \in Nat \ {0} /\ curPCB \in Procs
    BY <2>1, RunningIs DEF Stacked
  <2>3. memId = n /\ held \subseteq Blocks /\ \A b \in held : id[b] \in Nat
    BY DEF Types86
  <2> QED
    BY <2>1, <2>2, <2>3 DEF Popped
<1>2. OwnerKnown'
  <2> SUFFICES ASSUME NEW b \in held'
               PROVE  IF id'[b] = 0 THEN b[2] \in Chained' ELSE id'[b] <= Len(frames') /\ b[2] = frames'[id'[b]].pcb
    BY DEF OwnerKnown
  <2>1. b \in held /\ id'[b] = id[b] /\ id[b] # n /\ id[b] \in Nat
    BY <1>1
  <2>2. IF id[b] = 0 THEN b[2] \in Chained ELSE id[b] <= n /\ b[2] = frames[id[b]].pcb
    BY <2>1 DEF Owned86, OwnerKnown
  <2>3. CASE id[b] = 0
    BY <2>1, <2>2, <2>3
  <2>4. CASE id[b] # 0
    BY <2>1, <2>2, <2>4, <1>1
  <2> QED
    BY <2>3, <2>4
<1>3. IdTells'
  BY DEF Owned86, IdTells
<1>4. HeaderKnown'
  <2> SUFFICES ASSUME NEW b \in held', b[1] = "header"
               PROVE  \E k \in 1 .. Len(frames') : b[2] = frames'[k].pcb /\ frames'[k].header
    BY DEF HeaderKnown
  <2>1. PICK k \in 1 .. n : b[2] = frames[k].pcb /\ frames[k].header
    BY DEF Owned86, HeaderKnown
  <2>2. b = <<"header", b[2]>>
    BY <1>1 DEF Blocks
  <2>3. k # n
    BY <1>1, <2>1, <2>2
  <2>4. k \in 1 .. Len(frames') /\ frames'[k] = frames[k]
    BY <1>1, <2>3
  <2> QED
    BY ONLY <2>1, <2>4
<1>5. BlockKept'
  <2>1. Chained = {q \in Procs : <<"pcb", q>> \in held} /\ \A q \in Running : <<"env", q>> \in held
    BY DEF Owned86, BlockKept
  <2>2. \A b \in held : b[1] = "pcb" => id[b] = 0
    BY DEF Owned86, IdTells
  <2>3. \A q \in Procs \ {curPCB} : <<"pcb", q>> \in held' <=> <<"pcb", q>> \in held
    <3> SUFFICES ASSUME NEW q \in Procs \ {curPCB}, <<"pcb", q>> \in held PROVE <<"pcb", q>> \in held'
      OBVIOUS
    <3>1. id[<<"pcb", q>>] = 0
      BY <2>2
    <3> QED
      BY <3>1, <1>1
  <2>4. <<"pcb", curPCB>> \in held' <=> curPCB \in Chained'
    BY <1>1
  <2>5. ASSUME NEW q \in Running' PROVE <<"env", q>> \in held'
    <3>1. q \in Running /\ q # curPCB /\ <<"env", q>> \in held
      BY <1>1, <2>1, <2>5
    <3>2. id[<<"env", q>>] # memId
      <4>1. id[<<"env", q>>] # 0 => <<"env", q>>[2] = frames[id[<<"env", q>>]].pcb
        BY <3>1 DEF Owned86, OwnerKnown
      <4> QED
        BY <3>1, <4>1, <1>1
    <3> QED
      BY <3>1, <3>2
  <2> QED
    BY <1>1, <2>1, <2>3, <2>4, <2>5 DEF BlockKept
<1> QED
  BY <1>2, <1>3, <1>4, <1>5 DEF Owned86

LEMMA Ending86 ==
  ASSUME Inv86, Up, ~crashed, Return
  PROVE  /\ TreeInv /\ Types86 /\ Owned86 /\ Alive /\ ChainTypes /\ Stacked /\ Nested
         /\ Chained \subseteq Procs /\ Running \subseteq Chained
         /\ Popped /\ frames' \in Seq(Program86) /\ curPCB' = parent[curPCB] /\ memId' = Len(frames')
         /\ Len(frames) \in Nat \ {0} /\ Top = frames[Len(frames)] /\ curPCB = Top.pcb /\ curPCB \in Running
<1>1. TreeInv /\ Types86 /\ Owned86 /\ Alive
  BY DEF Inv86, Alive
<1>2. ChainTypes /\ Stacked /\ Nested /\ Chained \subseteq Procs /\ Running \subseteq Chained
  BY <1>1, TreeNested
<1>3. frames' = SubSeq(frames, 1, Len(frames) - 1) /\ memId' = memId - 1 /\ curPCB' = parent[curPCB]
  BY DEF Return
<1>4. \A r \in Program86 : r.pcb \in Procs
  BY DEF Program86
<1>5. Popped /\ frames' \in Seq(Program86)
  <2>1. frames \in Seq(Program86) /\ frames # <<>>
    BY <1>1 DEF Types86, Up
  <2> QED
    BY <1>3, <1>4, <2>1, FramesPopped
<1>6. memId' = Len(frames')
  BY <1>1, <1>3, <1>5 DEF Types86, Popped
<1>7. Len(frames) \in Nat \ {0} /\ Top = frames[Len(frames)] /\ curPCB = Top.pcb /\ curPCB \in Running
  BY <1>2, RunningIs DEF Stacked, Nested, Top
<1> QED
  BY <1>1, <1>2, <1>3, <1>5, <1>6, <1>7

(* Of what is held as the program ends, h is left.                         *)
LEMMA Left86 ==
  ASSUME Types86, NEW h \in SUBSET held, Holding(h)
  PROVE  held' = h /\ held' \subseteq Blocks /\ id' \in [Blocks -> Nat] /\ \A b \in held' : id'[b] = id[b]
<1>1. held' = h /\ id' = [b \in Blocks |-> IF b \in h THEN id[b] ELSE 0]
  BY DEF Holding
<1>2. held \subseteq Blocks /\ id \in [Blocks -> Nat]
  BY DEF Types86
<1> QED
  BY <1>1, <1>2

LEMMA HeaderGoes ==
  ASSUME Stacked, Nested, Up, Owned86, <<"header", curPCB>> \in held
  PROVE  <<"header", curPCB>> \in Header
<1> DEFINE n == Len(frames)
<1>1. n \in 1 .. n /\ curPCB = frames[n].pcb /\ Top = frames[n]
  BY DEF Stacked, Nested, Top
<1>2. <<"header", curPCB>>[1] = "header" /\ <<"header", curPCB>>[2] = curPCB
  OBVIOUS
<1>3. PICK k \in 1 .. n : curPCB = frames[k].pcb /\ frames[k].header
  BY <1>2 DEF Owned86, HeaderKnown
<1>4. k = n
  BY <1>1, <1>3 DEF Nested
<1>5. Top.header
  BY ONLY <1>1, <1>3, <1>4
<1> QED
  BY <1>5 DEF Header

LEMMA Exit86 ==
  ASSUME Inv86, Exit
  PROVE  Inv86'
<1>1. /\ Up /\ ~crashed /\ Return /\ crashed' = ~(Own \subseteq held \ OfId(memId))
      /\ Holding(Freed) /\ room' = [room EXCEPT ![curPCB] = 0]
      /\ status' = StatusAtEnd("TERMINATED") /\ RemoveFromProcessChain(curPCB)
  BY DEF Exit, Ready, AfterFreeId
<1>2. /\ TreeInv /\ Types86 /\ Owned86 /\ Alive /\ ChainTypes /\ Stacked /\ Nested
      /\ Chained \subseteq Procs /\ Running \subseteq Chained
      /\ Popped /\ frames' \in Seq(Program86) /\ curPCB' = parent[curPCB] /\ memId' = Len(frames')
      /\ Len(frames) \in Nat \ {0} /\ Top = frames[Len(frames)] /\ curPCB = Top.pcb /\ curPCB \in Running
  BY <1>1, Ending86
<1>3. PICK l : Tree(l)
  BY <1>2 DEF TreeInv
<1>4. ChainTypes' /\ Stacked' /\ (Alive' => (\E m : Tree(m)') /\ Chained' = Chained \ {curPCB})
  BY <1>1, <1>2, <1>3, EndTree
<1>5. TreeInv'
  BY <1>4 DEF TreeInv
<1>6. Freed = (held \ OfId(memId)) \ (Header \cup {<<"env", curPCB>>, <<"pcb", curPCB>>})
  BY DEF Freed, AfterFreeId, Own
<1>7. held' = Freed /\ held' \subseteq Blocks /\ id' \in [Blocks -> Nat] /\ \A b \in held' : id'[b] = id[b]
  <2>1. Freed \in SUBSET held
    BY <1>6
  <2> QED
    BY <1>1, <1>2, <2>1, Left86
<1>8. Types86'
  <2>1. room' \in [Procs -> 0 .. PcbUnits + ProgUnits]
    <3>1. 0 \in 0 .. PcbUnits + ProgUnits
      BY Programs86Assumption
    <3> QED
      BY <1>1, <1>2, <3>1 DEF Types86
  <2>2. crashed' \in BOOLEAN
    BY <1>1
  <2> QED
    BY <1>2, <1>7, <2>1, <2>2 DEF Types86
<1>9. ASSUME ~crashed', Alive' PROVE Owned86'
  <2>1. Chained' = Chained \ {curPCB}
    BY <1>4, <1>9
  <2>2. Header \subseteq {<<"header", curPCB>>}
    BY DEF Header
  <2>3. \A b \in held' : b \in held /\ id[b] # memId /\ b # <<"env", curPCB>> /\ b # <<"pcb", curPCB>>
    BY <1>6, <1>7 DEF OfId
  <2>4. \A b \in held : id[b] # memId /\ b[2] # curPCB => b \in held'
    BY <1>6, <1>7, <2>2 DEF OfId
  <2>5. <<"header", curPCB>> \notin held'
    BY <1>1, <1>2, <1>6, <1>7, <2>3, HeaderGoes
  <2>6. ASSUME NEW b \in held', b[2] = curPCB PROVE FALSE
    <3>1. b = <<b[1], curPCB>> /\ b \in held
      BY <1>2, <2>3, <2>6 DEF Types86, Blocks
    <3>2. b[1] = "mem"
      BY <1>2, <2>3, <2>5, <3>1 DEF Owned86, IdTells
    <3>3. id[b] # 0 /\ id[b] \in Nat
      BY <1>2, <3>1, <3>2 DEF Owned86, IdTells, Types86
    <3>4. id[b] <= Len(frames) /\ b[2] = frames[id[b]].pcb
      BY <1>2, <3>1, <3>3 DEF Owned86, OwnerKnown
    <3>5. id[b] \in 1 .. Len(frames) /\ Len(frames) \in 1 .. Len(frames) /\ frames[id[b]].pcb = frames[Len(frames)].pcb
      BY <1>2, <2>6, <3>3, <3>4
    <3>6. id[b] = Len(frames)
      BY <1>2, <3>5 DEF Nested
    <3> QED
      BY <1>2, <2>3, <3>6 DEF Types86
  <2>7. \A b \in held' : id'[b] = id[b] /\ id[b] # memId
    BY <1>7, <2>3
  <2> QED
    BY <1>1, <1>2, <2>1, <2>3, <2>4, <2>5, <2>6, <2>7, EndOwned86
<1> QED
  BY <1>5, <1>8, <1>9 DEF Inv86

LEMMA Resident86 ==
  ASSUME Inv86, NEW left \in 0 .. PcbUnits + ProgUnits, Resident(left)
  PROVE  Inv86'
<1>1. /\ Up /\ ~crashed /\ Return /\ crashed' = crashed
      /\ Holding((held \ OfId(memId)) \ Header) /\ room' = [room EXCEPT ![curPCB] = left]
      /\ status' = StatusAtEnd("TSR") /\ UNCHANGED chain
  BY DEF Resident, Ready, AfterFreeId, chain
<1>2. /\ TreeInv /\ Types86 /\ Owned86 /\ Alive /\ ChainTypes /\ Stacked /\ Nested
      /\ Chained \subseteq Procs /\ Running \subseteq Chained
      /\ Popped /\ frames' \in Seq(Program86) /\ curPCB' = parent[curPCB] /\ memId' = Len(frames')
      /\ Len(frames) \in Nat \ {0} /\ Top = frames[Len(frames)] /\ curPCB = Top.pcb /\ curPCB \in Running
  BY <1>1, Ending86
<1>3. PICK l : Tree(l)
  BY <1>2 DEF TreeInv
<1>4. TreeInv'
  <2>1. ChainTypes' /\ Stacked' /\ (Alive' => \E m : Tree(m)')
    BY <1>1, <1>2, <1>3, StayTree
  <2> QED
    BY <2>1 DEF TreeInv
<1>5. Chained' = Chained
  BY <1>1 DEF chain, Chained, Chain
<1> DEFINE h == (held \ OfId(memId)) \ Header
<1>6. held' = h /\ held' \subseteq Blocks /\ id' \in [Blocks -> Nat] /\ \A b \in held' : id'[b] = id[b]
  <2>1. h \in SUBSET held /\ Holding(h)
    BY <1>1
  <2> QED
    BY ONLY <1>2, <2>1, Left86
<1>7. Types86'
  BY <1>1, <1>2, <1>6 DEF Types86
<1>8. Owned86'
  <2>1. Header \subseteq {<<"header", curPCB>>}
    BY DEF Header
  <2>2. \A b \in held' : b \in held /\ id[b] # memId
    BY <1>6 DEF OfId
  <2>3. \A b \in held : id[b] # memId /\ b[2] # curPCB => b \in held'
    BY <1>6, <2>1 DEF OfId
  <2>4. <<"header", curPCB>> \notin held'
    BY <1>1, <1>2, <1>6, <2>2, HeaderGoes
  <2>5. <<"pcb", curPCB>> \in held'
    <3>1. <<"pcb", curPCB>> \in held
      BY <1>2 DEF Owned86, BlockKept
    <3>2. id[<<"pcb", curPCB>>] = 0
      BY <1>2, <3>1 DEF Owned86, IdTells
    <3> QED
      BY <1>2, <1>6, <2>1, <3>1, <3>2 DEF OfId, Types86
  <2>6. \A b \in held' : id'[b] = id[b] /\ id[b] # memId
    BY <1>6, <2>2
  <2> QED
    BY <1>1, <1>2, <1>5, <2>2, <2>3, <2>4, <2>5, <2>6, EndOwned86
<1> QED
  BY <1>4, <1>7, <1>8 DEF Inv86

LEMMA Next86 ==
  ASSUME Inv86, [Next]_vars
  PROVE  Inv86'
<1>1. ASSUME NEW p \in Procs, NEW h \in BOOLEAN, Exec(p, h) PROVE Inv86'
  BY <1>1, Exec86
<1>2. CASE AllocMem \/ FreeMem \/ SetEnv
  BY <1>2, Calls86
<1>3. CASE Exit
  BY <1>3, Exit86
<1>4. ASSUME NEW n \in 1 .. ProgUnits, StayResident(n) PROVE Inv86'
  <2>1. n \in 0 .. PcbUnits + ProgUnits
    BY Programs86Assumption
  <2>2. Resident(n)
    BY <1>4 DEF StayResident, Kept
  <2> QED
    BY <2>1, <2>2, Resident86
<1>5. CASE StayWhole
  <2>1. Resident(room[curPCB]) /\ Up /\ ~crashed /\ Return
    BY <1>5 DEF StayWhole, Resident, Ready
  <2>2. Types86 /\ curPCB \in Procs
    BY <2>1, Ending86, RunningIs
  <2>3. room[curPCB] \in 0 .. PcbUnits + ProgUnits
    BY <2>2 DEF Types86
  <2> QED
    BY <2>1, <2>3, Resident86
<1>6. CASE UNCHANGED vars
  <2>1. UNCHANGED <<chain, curPCB, status, frames>> /\ UNCHANGED <<held, id, room, memId, frames, crashed>>
    BY <1>6 DEF vars, chain, mem, chain
  <2>2. TreeInv' /\ Chained' = Chained /\ Running' = Running /\ (Alive' <=> Alive)
    BY <2>1, SameTree, SameChain DEF Inv86
  <2>3. Types86'
    BY <2>1 DEF Types86, Inv86
  <2>4. ASSUME Owned86 PROVE Owned86'
    <3>1. OwnerKnown' /\ IdTells' /\ BlockKept'
      BY <2>1, <2>2, <2>4 DEF Owned86, OwnerKnown, IdTells, BlockKept
    <3>2. HeaderKnown'
      BY <2>1, <2>4, Zenon DEF Owned86, HeaderKnown
    <3> QED
      BY <3>1, <3>2 DEF Owned86
  <2> QED
    BY <2>1, <2>2, <2>3, <2>4 DEF Inv86
<1> QED
  BY <1>1, <1>2, <1>3, <1>4, <1>5, <1>6 DEF Next

(* In PDOS/86 programs start, end and stay resident in any order, any      *)
(* number of them and to any depth: the chain that process.c links in both *)
(* directions, the parents it hands on and the statuses describe one tree. *)
THEOREM Family86 ==
  Spec => []FamilyTree
<1>1. Init => Inv86
  BY Init86
<1>2. Inv86 /\ [Next]_vars => Inv86'
  BY Next86
<1>3. Inv86 => FamilyTree
  BY Show86
<1> QED
  BY <1>1, <1>2, <1>3, PTL DEF Spec

(* And as long as loadExe does not free twice, every block that is         *)
(* allocated belongs to a program that runs or stays, under the id of its  *)
(* level if the program asked for it, and none of these lacks its control  *)
(* block or, while it runs, its environment.                               *)
THEOREM Memory86 ==
  Spec => []MemoryAccounted
<1>1. Init => Inv86
  BY Init86
<1>2. Inv86 /\ [Next]_vars => Inv86'
  BY Next86
<1>3. Inv86 => MemoryAccounted
  BY Show86
<1> QED
  BY <1>1, <1>2, <1>3, PTL DEF Spec

-----------------------------------------------------------------------------
(* PDOS/386: the same as long as no program has failed to start, after     *)
(* which memId lags behind and Levels may not hold.                        *)
Program386 == [pcb : Procs]

Made(p) == {"cmdline", "env", "pcb", "vmm", "prog"} \X {p}

Types386 ==
  /\ held \subseteq Blocks /\ id \in [Blocks -> Int] /\ frames \in Seq(Program386)
  /\ memId \in Int /\ LeastId - MaxDepth32 + Len(frames) <= memId
  /\ memId <= Len(frames) /\ Len(frames) <= MaxDepth32

NoneStays   == \A p \in Procs : status[p] # "TSR"
NothingYet  == initProc = NULL => held = {} /\ memId = 0
Whole       == \A p \in Running : Made(p) \subseteq held
Level(b, k) == \/ id[b] = k /\ b[1] \in {"mem", "env"}
               \/ id[b] = k - 1 /\ b[1] \in {"cmdline", "env", "pcb", "vmm", "prog"}
Levels      == \A b \in held : \E k \in 1 .. Len(frames) : b[2] = frames[k].pcb /\ Level(b, k)

Inv386 ==
  /\ TreeInv /\ Types386 /\ NoneStays /\ NothingYet
  /\ Up /\ memId = Len(frames) => Whole /\ Levels

(* What loadExe32 and startExe32 make for a program.                       *)
LEMMA MadeIs386 ==
  /\ Intact <=> Whole
  /\ \A p : Loaded(p) \cup {Path(p)} = Made(p)
<1>1. \A p : Loaded(p) \cup {Path(p)} = Made(p)
  BY DEF Loaded, Path, Made
<1> QED
  BY <1>1 DEF Intact, Whole

LEMMA Show386 ==
  ASSUME Inv386
  PROVE  FamilyTree /\ MemoryAccounted32
<1>1. FamilyTree
  BY TreeShows DEF Inv386
<1>2. ChainTypes /\ Types386 /\ Stacked
  BY DEF Inv386, TreeInv
<1>3. TypeOK32
  <2>1. Len(frames) \in Nat
    BY <1>2 DEF Stacked
  <2>2. memId \in LeastId - MaxDepth32 .. MaxDepth32
    BY <1>2, <2>1, Programs386Assumption DEF Types386
  <2> QED
    BY <1>2, <2>2 DEF TypeOK32, ChainTypes, Types386, Program386
<1>4. ASSUME Up, memId = Len(frames)
      PROVE  /\ \A b \in held : \E k \in DOMAIN frames :
                  /\ b[2] = frames[k].pcb
                  /\ id[b] \in (CASE b[1] = "mem" -> {k} [] b[1] = "env" -> {k-1, k} [] OTHER -> {k-1})
             /\ Whole
  <2>1. Whole /\ Levels
    BY <1>4 DEF Inv386
  <2>2. ASSUME NEW b \in held
        PROVE  \E k \in DOMAIN frames :
                  /\ b[2] = frames[k].pcb
                  /\ id[b] \in (CASE b[1] = "mem" -> {k} [] b[1] = "env" -> {k-1, k} [] OTHER -> {k-1})
    <3>1. PICK k \in 1 .. Len(frames) : b[2] = frames[k].pcb /\ Level(b, k)
      BY <2>1 DEF Levels
    <3>2. id[b] \in (CASE b[1] = "mem" -> {k} [] b[1] = "env" -> {k-1, k} [] OTHER -> {k-1})
      <4>1. CASE b[1] = "mem"
        BY <3>1, <4>1 DEF Level
      <4>2. CASE b[1] = "env"
        BY <3>1, <4>2 DEF Level
      <4>3. CASE b[1] # "mem" /\ b[1] # "env"
        BY <3>1, <4>3 DEF Level
      <4> QED
        BY <4>1, <4>2, <4>3
    <3>3. k \in DOMAIN frames
      BY <1>2, <3>1 DEF Stacked
    <3> QED
      BY ONLY <3>1, <3>2, <3>3
  <2> QED
    BY <2>1, <2>2
<1>5. Intact <=> Whole
  BY MadeIs386
<1> QED
  BY <1>1, <1>3, <1>4, <1>5 DEF MemoryAccounted32

LEMMA Init386 ==
  ASSUME Init32
  PROVE  Inv386
<1>1. InitProcesses
  BY DEF Init32, InitProcesses
<1>2. TreeInv /\ held = {} /\ memId = 0 /\ frames = <<>> /\ ~Up
  BY <1>1, FirstTree DEF InitProcesses, Up
<1>3. Types386
  BY <1>1, Programs386Assumption DEF Types386, InitProcesses
<1>4. NoneStays
  BY <1>1 DEF NoneStays, InitProcesses
<1> QED
  BY <1>2, <1>3, <1>4 DEF Inv386, NothingYet

LEMMA Tree386 ==
  ASSUME Inv386, Alive
  PROVE  /\ ChainTypes /\ Stacked /\ Nested /\ Chained = Running /\ Running \subseteq Procs
         /\ Len(frames) \in Nat /\ (Up <=> Len(frames) # 0) /\ (Up <=> initProc # NULL)
         /\ Up => curPCB = frames[Len(frames)].pcb /\ curPCB \in Running
<1>1. /\ ChainTypes /\ Stacked /\ Nested /\ Chained \subseteq Procs
      /\ Chained = Running \cup {p \in Procs : status[p] = "TSR"}
  BY TreeNested DEF Inv386
<1>2. {p \in Procs : status[p] = "TSR"} = {}
  BY DEF Inv386, NoneStays
<1>3. Len(frames) \in Nat /\ (Up <=> Len(frames) # 0) /\ (Up => 1 \in 1 .. Len(frames) /\ Len(frames) \in 1 .. Len(frames))
  BY <1>1 DEF Stacked
<1>4. Up => curPCB = frames[Len(frames)].pcb /\ initProc = frames[1].pcb
  BY <1>1 DEF Nested, Top
<1>5. Up => initProc # NULL
  BY <1>1, <1>3, <1>4, ProcsAssumption DEF Stacked
<1> QED
  BY <1>1, <1>2, <1>3, <1>4, <1>5, RunningIs DEF Alive

LEMMA CanStart386 ==
  ASSUME Inv386, NEW p \in Procs, CanStart(p)
  PROVE  /\ Alive /\ Len(frames) < MaxDepth32 /\ held \cap (Kinds \X {p}) = {} /\ p \notin Chained
<1>1. /\ (Up /\ Whole) \/ initProc = NULL
      /\ Len(frames) < MaxDepth32 /\ held \cap (Kinds \X {p}) = {}
  BY MadeIs386 DEF CanStart, Ready32
<1>2. Alive
  BY <1>1 DEF Alive
<1>3. ASSUME p \in Chained PROVE FALSE
  <2>1. p \in Running /\ Up
    BY <1>2, <1>3, Tree386, TreeNested DEF Inv386
  <2>2. Whole
    BY <1>1, <1>2, <2>1, Tree386
  <2>3. <<"pcb", p>> \in held
    BY <2>1, <2>2 DEF Whole, Made
  <2>4. <<"pcb", p>> \in Kinds \X {p}
    BY Programs386Assumption
  <2> QED
    BY <1>1, <2>3, <2>4
<1> QED
  BY <1>1, <1>2, <1>3

LEMMA Exec386 ==
  ASSUME Inv386, NEW p \in Procs, LoadExe32(p)
  PROVE  Inv386'
<1> DEFINE n == Len(frames)
           x == [pcb |-> p]
<1>1. /\ CanStart(p)
      /\ held' = held \cup Made(p) /\ id' = [b \in Blocks |-> IF b \in Made(p) THEN memId ELSE id[b]]
      /\ AddToProcessChain(p) /\ curPCB' = p /\ status' = StatusAtStart(p)
      /\ memId' = memId + 1 /\ frames' = Append(frames, x)
  BY MadeIs386 DEF LoadExe32, Allocated, Entered
<1>2. Alive /\ n < MaxDepth32 /\ held \cap (Kinds \X {p}) = {} /\ p \notin Chained
  BY <1>1, CanStart386
<1>3. /\ TreeInv /\ ChainTypes /\ Stacked /\ Nested /\ Types386 /\ n \in Nat /\ (Up <=> n # 0)
      /\ (Up <=> initProc # NULL) /\ NoneStays /\ NothingYet /\ Running \subseteq Procs
  BY <1>2, Tree386 DEF Inv386
<1>4. x \in Program386 /\ x.pcb = p /\ \A r \in Program386 : r.pcb \in Procs
  BY DEF Program386
<1> HIDE DEF x
<1>5. Pushed(p) /\ frames' \in Seq(Program386)
  <2>1. frames \in Seq(Program386)
    BY <1>3 DEF Types386
  <2> QED
    BY <1>1, <1>4, <2>1, FramesPushed
<1>6. PICK l : Tree(l)
  BY <1>2, <1>3 DEF TreeInv
<1>7. Chained = Members(l)
  BY <1>6, ChainIs DEF Tree
<1>8. ChainTypes' /\ Stacked' /\ (\E m : Tree(m)')
  BY <1>1, <1>2, <1>3, <1>5, <1>6, <1>7, StartTree
<1>9. TreeInv' /\ Running' = Running \cup {p}
  BY <1>3, <1>5, <1>8, RunningPushed DEF TreeInv
<1>10. /\ Made(p) \subseteq Blocks /\ Made(p) \cap held = {}
       /\ \A b \in Made(p) : b[1] \in {"cmdline", "env", "pcb", "vmm", "prog"} /\ b[2] = p
  BY <1>2, Programs386Assumption DEF Made, Blocks
<1>11. /\ id' \in [Blocks -> Int] /\ held' \subseteq Blocks
       /\ \A b \in Made(p) : id'[b] = memId
       /\ \A b \in held : id'[b] = id[b]
  BY <1>1, <1>3, <1>10 DEF Types386
<1>12. /\ Len(frames') = n + 1 /\ frames'[n + 1].pcb = p
       /\ \A k \in 1 .. n : frames'[k] = frames[k]
  BY <1>5 DEF Pushed
<1>13. Types386'
  BY <1>1, <1>2, <1>3, <1>5, <1>11, <1>12, Programs386Assumption DEF Types386
<1>14. NoneStays'
  BY <1>1, <1>3 DEF NoneStays, StatusAtStart
<1>15. NothingYet'
  <2>1. initProc' # NULL
    BY <1>1, ProcsAssumption DEF AddToProcessChain
  <2> QED
    BY <2>1 DEF NothingYet
<1>16. ASSUME memId' = Len(frames') PROVE Whole' /\ Levels'
  <2>1. memId = n
    BY <1>1, <1>3, <1>12, <1>16 DEF Types386
  <2>2. Whole /\ Levels
    <3>1. CASE Up
      BY <2>1, <3>1 DEF Inv386
    <3>2. CASE ~Up
      <4>1. held = {} /\ Running = {}
        BY <1>2, <1>3, <3>2, TreeNested DEF NothingYet
      <4> QED
        BY <4>1 DEF Whole, Levels
    <3> QED
      BY <3>1, <3>2
  <2>3. Whole'
    BY <1>1, <1>9, <2>2 DEF Whole
  <2>4. ASSUME NEW b \in held'
        PROVE  \E k \in 1 .. Len(frames') : b[2] = frames'[k].pcb /\ Level(b, k)'
    <3>1. CASE b \in Made(p)
      <4>1. PICK k \in Nat : k = n + 1
        BY <1>3
      <4>2. k \in 1 .. Len(frames') /\ b[2] = frames'[k].pcb
        BY <1>3, <1>10, <1>12, <3>1, <4>1
      <4>3. id'[b] = k - 1 /\ b[1] \in {"cmdline", "env", "pcb", "vmm", "prog"}
        BY <1>3, <1>10, <1>11, <2>1, <3>1, <4>1
      <4>4. Level(b, k)'
        BY <4>3 DEF Level
      <4> QED
        BY ONLY <4>2, <4>4
    <3>2. CASE b \in held
      <4>1. PICK k \in 1 .. n : b[2] = frames[k].pcb /\ Level(b, k)
        BY <2>2, <3>2 DEF Levels
      <4>2. k \in 1 .. Len(frames') /\ b[2] = frames'[k].pcb
        BY <1>3, <1>12, <4>1
      <4>3. Level(b, k)'
        BY <1>11, <3>2, <4>1 DEF Level
      <4> QED
        BY ONLY <4>2, <4>3
    <3> QED
      BY <1>1, <3>1, <3>2
  <2> QED
    BY <2>3, <2>4 DEF Levels
<1> QED
  BY <1>9, <1>13, <1>14, <1>15, <1>16 DEF Inv386

(* The current program's block b comes, or comes anew, under memId, or its *)
(* own memory goes.                                                        *)
LEMMA Call386 ==
  ASSUME Inv386, Up, UNCHANGED <<chain, curPCB, status, memId, frames>>,
         NEW b \in {<<"mem", curPCB>>, <<"env", curPCB>>},
         \/ held' = held \cup {b} /\ id' = [c \in Blocks |-> IF c \in {b} THEN memId ELSE id[c]]
         \/ b[1] = "mem" /\ held' = held \ {b} /\ id' = [c \in Blocks |-> IF c \in held \ {b} THEN id[c] ELSE 0]
  PROVE  Inv386'
<1> DEFINE n == Len(frames)
<1>1. /\ TreeInv /\ Types386 /\ NoneStays /\ NothingYet /\ Alive /\ Stacked /\ n \in Nat \ {0}
      /\ curPCB = frames[n].pcb /\ curPCB \in Procs /\ initProc # NULL /\ Running \subseteq Procs
  <2>1. Alive
    BY DEF Alive
  <2> QED
    BY <2>1, Tree386 DEF Inv386
<1>2. /\ TreeInv' /\ Running' = Running /\ frames' = frames /\ status' = status /\ initProc' = initProc
      /\ memId' = memId /\ Up'
  BY <1>1, SameTree, SameChain DEF chain
<1>3. b \in Blocks /\ b[2] = curPCB /\ b[1] \in {"mem", "env"} /\ b = <<b[1], curPCB>>
  BY <1>1, Programs386Assumption DEF Blocks
<1>4. /\ held' \subseteq held \cup {b} /\ held' \subseteq Blocks /\ id' \in [Blocks -> Int]
      /\ \A c \in held' : id'[c] = IF c = b THEN memId ELSE id[c]
  <2>1. held \subseteq Blocks /\ id \in [Blocks -> Int] /\ memId \in Int
    BY <1>1 DEF Types386
  <2>2. CASE held' = held \cup {b} /\ id' = [c \in Blocks |-> IF c \in {b} THEN memId ELSE id[c]]
    <3>1. id' \in [Blocks -> Int] /\ \A c \in Blocks : id'[c] = IF c = b THEN memId ELSE id[c]
      BY <2>1, <2>2
    <3> QED
      BY <2>1, <2>2, <3>1, <1>3
  <2>3. CASE held' = held \ {b} /\ id' = [c \in Blocks |-> IF c \in held \ {b} THEN id[c] ELSE 0]
    <3>1. id' \in [Blocks -> Int] /\ \A c \in held \ {b} : c \in Blocks /\ id'[c] = id[c]
      BY <2>1, <2>3
    <3> QED
      BY <2>1, <2>3, <3>1
  <2> QED
    BY <2>2, <2>3
<1>5. \A c \in held : c[1] # "mem" => c \in held'
  BY <1>3
<1>6. Types386'
  BY <1>1, <1>2, <1>4 DEF Types386
<1>7. NoneStays' /\ NothingYet'
  BY <1>1, <1>2 DEF NoneStays, NothingYet
<1>8. ASSUME memId = n PROVE Whole' /\ Levels'
  <2>1. Whole /\ Levels
    BY <1>8 DEF Inv386
  <2>2. Whole'
    <3>1. \A q \in Running : \A c \in Made(q) : c \in held /\ c[1] # "mem"
      BY <2>1 DEF Whole, Made
    <3> QED
      BY <1>2, <1>5, <3>1 DEF Whole
  <2>3. ASSUME NEW c \in held' PROVE \E k \in 1 .. Len(frames') : c[2] = frames'[k].pcb /\ Level(c, k)'
    <3>1. CASE c = b
      <4>1. PICK k \in Nat : k = n
        BY <1>1
      <4>2. k \in 1 .. Len(frames') /\ c[2] = frames'[k].pcb
        BY <1>1, <1>2, <1>3, <3>1, <4>1
      <4>3. Level(c, k)'
        <5>1. id'[c] = k /\ c[1] \in {"mem", "env"}
          BY <1>3, <1>4, <1>8, <3>1, <4>1
        <5> QED
          BY ONLY <5>1 DEF Level
      <4> QED
        BY ONLY <4>2, <4>3
    <3>2. CASE c # b
      <4>1. PICK k \in 1 .. n : c[2] = frames[k].pcb /\ Level(c, k)
        BY <1>4, <2>1, <3>2 DEF Levels
      <4>2. Level(c, k)'
        BY <1>4, <3>2, <4>1 DEF Level
      <4> QED
        BY <1>2, <4>1, <4>2
    <3> QED
      BY <3>1, <3>2
  <2> QED
    BY <2>2, <2>3 DEF Levels
<1> QED
  BY <1>2, <1>6, <1>7, <1>8 DEF Inv386

LEMMA Calls386 ==
  ASSUME Inv386, AllocMem32 \/ FreeMem32 \/ SetEnv32
  PROVE  Inv386'
<1>1. Up /\ UNCHANGED <<chain, curPCB, status, memId, frames>>
  BY DEF AllocMem32, FreeMem32, SetEnv32, Ready32, chain
<1>2. CASE AllocMem32
  <2>1. /\ held' = held \cup {<<"mem", curPCB>>}
        /\ id' = [c \in Blocks |-> IF c \in {<<"mem", curPCB>>} THEN memId ELSE id[c]]
    BY <1>2 DEF AllocMem32, Allocated
  <2> QED
    BY <1>1, <2>1, Call386
<1>3. CASE FreeMem32
  <2>1. /\ held' = held \ {<<"mem", curPCB>>}
        /\ id' = [c \in Blocks |-> IF c \in held \ {<<"mem", curPCB>>} THEN id[c] ELSE 0]
    BY <1>3 DEF FreeMem32, Holding32
  <2>2. <<"mem", curPCB>>[1] = "mem"
    OBVIOUS
  <2> QED
    BY <1>1, <2>1, <2>2, Call386
<1>4. CASE SetEnv32
  <2>1. /\ held' = held \cup {<<"env", curPCB>>}
        /\ id' = [c \in Blocks |-> IF c \in {<<"env", curPCB>>} THEN memId ELSE id[c]]
    BY <1>4 DEF SetEnv32, Allocated
  <2> QED
    BY <1>1, <2>1, Call386
<1> QED
  BY <1>2, <1>3, <1>4

LEMMA Exit386 ==
  ASSUME Inv386, Exit32
  PROVE  Inv386'
<1> DEFINE n == Len(frames)
<1>1. /\ Up /\ Whole
      /\ held' = (held \ Made(curPCB)) \ OfId(memId)
      /\ id' = [b \in Blocks |-> IF b \in held' THEN id[b] ELSE 0]
      /\ curPCB' = parent[curPCB] /\ status' = StatusAtEnd("TERMINATED") /\ RemoveFromProcessChain(curPCB)
      /\ memId' = memId - 1 /\ frames' = SubSeq(frames, 1, Len(frames) - 1)
  <2>1. Up /\ Whole
    BY MadeIs386 DEF Exit32, Ready32
  <2>2. /\ curPCB' = parent[curPCB] /\ status' = StatusAtEnd("TERMINATED") /\ RemoveFromProcessChain(curPCB)
        /\ memId' = memId - 1 /\ frames' = SubSeq(frames, 1, Len(frames) - 1)
    BY DEF Exit32, TerminateExe32
  <2>3. Freed32(held \ {Path(curPCB)}, curPCB) \ OfTheId = (held \ Made(curPCB)) \ OfId(memId)
    <3>1. Loaded(curPCB) \cup {Path(curPCB)} = Made(curPCB) /\ OfTheId = OfId(memId)
      BY MadeIs386 DEF OfTheId
    <3> QED
      BY <3>1 DEF Freed32
  <2>4. Holding32((held \ Made(curPCB)) \ OfId(memId))
    BY <2>3 DEF Exit32
  <2> QED
    BY <2>1, <2>2, <2>4 DEF Holding32
<1>2. /\ TreeInv /\ Alive /\ ChainTypes /\ Stacked /\ Nested /\ Types386 /\ n \in Nat \ {0} /\ initProc # NULL
      /\ NoneStays /\ curPCB = frames[n].pcb /\ curPCB \in Running /\ Running \subseteq Procs
  <2>1. Alive
    BY <1>1 DEF Alive
  <2> QED
    BY <1>1, <2>1, Tree386 DEF Inv386
<1>3. Popped /\ frames' \in Seq(Program386)
  <2>1. frames \in Seq(Program386) /\ frames # <<>> /\ \A r \in Program386 : r.pcb \in Procs
    BY <1>1, <1>2 DEF Types386, Up, Program386
  <2> QED
    BY <1>1, <2>1, FramesPopped
<1>4. PICK l : Tree(l)
  BY <1>2 DEF TreeInv
<1>5. TreeInv'
  <2>1. ChainTypes' /\ Stacked' /\ (Alive' => \E m : Tree(m)')
    BY <1>1, <1>2, <1>3, <1>4, EndTree
  <2> QED
    BY <2>1 DEF TreeInv
<1>6. Running' = Running \ {curPCB} /\ Len(frames') = n - 1 /\ \A k \in 1 .. n - 1 : frames'[k] = frames[k]
  BY <1>1, <1>2, <1>3, RunningPopped DEF Popped
<1>7. held' \subseteq held /\ id' \in [Blocks -> Int] /\ \A b \in held' : id'[b] = id[b]
  BY <1>1, <1>2 DEF Types386
<1>8. Types386'
  <2>1. held' \subseteq Blocks
    BY <1>2, <1>7 DEF Types386
  <2>2. /\ memId' \in Int /\ LeastId - MaxDepth32 + Len(frames') <= memId'
        /\ memId' <= Len(frames') /\ Len(frames') <= MaxDepth32
    BY <1>1, <1>2, <1>6, Programs386Assumption DEF Types386
  <2> QED
    BY <1>3, <1>7, <2>1, <2>2 DEF Types386
<1>9. NoneStays'
  <2>1. status' = [q \in Procs |-> CASE q = curPCB -> "TERMINATED"
                                     [] q = parent[curPCB] /\ status[q] = "CHILDWAIT" -> "ACTIVE"
                                     [] OTHER -> status[q]]
    BY <1>1, Zenon DEF StatusAtEnd
  <2>2. \A q \in Procs : (CASE q = curPCB -> "TERMINATED"
                            [] q = parent[curPCB] /\ status[q] = "CHILDWAIT" -> "ACTIVE"
                            [] OTHER -> status[q]) # "TSR"
    BY <1>2 DEF NoneStays
  <2> QED
    BY <2>1, <2>2 DEF NoneStays
<1>10. NothingYet'
  <2>1. initProc' # NULL
    BY <1>1, <1>2 DEF RemoveFromProcessChain
  <2> QED
    BY <2>1 DEF NothingYet
<1>11. ASSUME memId' = Len(frames') PROVE Whole' /\ Levels'
  <2>1. memId = n
    BY <1>1, <1>2, <1>6, <1>11 DEF Types386
  <2>2. Levels
    BY <1>1, <2>1 DEF Inv386
  <2>3. \A i, j \in 1 .. n : frames[i].pcb = frames[j].pcb => i = j
    BY <1>2 DEF Nested
  <2>4. \A b \in held : b \in Blocks /\ b = <<b[1], b[2]>> /\ b[1] \in Kinds
    BY <1>2 DEF Types386, Blocks
  <2>5. ASSUME NEW q \in Running', NEW b \in Made(q) PROVE b \in held'
    <3>1. PICK j \in 1 .. n - 1 : q = frames[j].pcb
      BY <1>5, <1>6, RunningThen DEF TreeInv
    <3>2. b \in held /\ b[2] = q /\ q # curPCB
      BY <1>1, <1>6 DEF Whole, Made
    <3>3. PICK k \in 1 .. n : b[2] = frames[k].pcb /\ Level(b, k)
      BY <2>2, <3>2 DEF Levels
    <3>4. k = j
      <4>1. j \in 1 .. n /\ frames[k].pcb = frames[j].pcb
        BY <1>2, <3>1, <3>2, <3>3
      <4> QED
        BY ONLY <2>3, <3>3, <4>1
    <3>5. id[b] # memId
      BY <1>2, <2>1, <3>1, <3>3, <3>4 DEF Level
    <3>6. b \notin Made(curPCB)
      BY <3>2 DEF Made
    <3> QED
      BY <1>1, <3>2, <3>5, <3>6 DEF OfId
  <2>6. ASSUME NEW b \in held' PROVE \E k \in 1 .. Len(frames') : b[2] = frames'[k].pcb /\ Level(b, k)'
    <3>1. b \in held /\ id'[b] = id[b] /\ id[b] # memId /\ b \notin Made(curPCB)
      BY <1>1, <1>7 DEF OfId
    <3>2. PICK k \in 1 .. n : b[2] = frames[k].pcb /\ Level(b, k)
      BY <2>2, <3>1 DEF Levels
    <3>3. k # n
      <4> SUFFICES ASSUME k = n PROVE FALSE
        OBVIOUS
      <4>1. b[2] = curPCB /\ b = <<b[1], curPCB>>
        BY <1>2, <2>4, <3>1, <3>2
      <4>2. b[1] \notin {"cmdline", "env", "pcb", "vmm", "prog"}
        BY ONLY <3>1, <4>1 DEF Made
      <4> QED
        BY <2>1, <3>1, <3>2, <4>2 DEF Level
    <3>4. k \in 1 .. Len(frames') /\ frames'[k] = frames[k]
      BY <1>2, <1>6, <3>3
    <3>5. Level(b, k)'
      BY <3>1, <3>2 DEF Level
    <3> QED
      BY <3>2, <3>4, <3>5
  <2> QED
    BY <2>5, <2>6 DEF Whole, Levels
<1> QED
  BY <1>5, <1>8, <1>9, <1>10, <1>11 DEF Inv386

LEMMA StartFails386 ==
  ASSUME Inv386, NEW p \in Procs, StartFails(p)
  PROVE  Inv386'
<1>1. /\ Up /\ memId > LeastId /\ memId' = memId - 1 /\ UNCHANGED <<chain, curPCB, status, frames>>
      /\ held' = held \ OfId(memId) /\ id' = [b \in Blocks |-> IF b \in held' THEN id[b] ELSE 0]
  BY DEF StartFails, OfTheId, Holding32, chain
<1>2. /\ TreeInv /\ Types386 /\ NoneStays /\ Len(frames) \in Nat /\ initProc # NULL
  <2>1. Alive
    BY <1>1 DEF Alive
  <2> QED
    BY <1>1, <2>1, Tree386 DEF Inv386
<1>3. TreeInv' /\ frames' = frames /\ status' = status /\ initProc' = initProc
  BY <1>1, <1>2, SameTree DEF chain
<1>4. held' \subseteq Blocks /\ id' \in [Blocks -> Int]
  BY <1>1, <1>2 DEF Types386
<1>5. /\ memId' \in Int /\ LeastId - MaxDepth32 + Len(frames') <= memId'
      /\ memId' <= Len(frames') /\ Len(frames') <= MaxDepth32 /\ memId' # Len(frames')
  BY <1>1, <1>2, <1>3, Programs386Assumption DEF Types386
<1>6. Types386'
  BY <1>2, <1>3, <1>4, <1>5 DEF Types386
<1> QED
  BY <1>2, <1>3, <1>5, <1>6 DEF Inv386, NoneStays, NothingYet

LEMMA Next386 ==
  ASSUME Inv386, [Next32]_vars32
  PROVE  Inv386'
<1>1. ASSUME NEW p \in Procs, LoadExe32(p) PROVE Inv386'
  BY <1>1, Exec386
<1>2. CASE AllocMem32 \/ FreeMem32 \/ SetEnv32
  BY <1>2, Calls386
<1>3. CASE Exit32
  BY <1>3, Exit386
<1>4. ASSUME NEW p \in Procs, StartFails(p) PROVE Inv386'
  BY <1>4, StartFails386
<1>5. CASE UNCHANGED vars32
  <2>1. UNCHANGED <<chain, curPCB, status, frames>> /\ UNCHANGED <<held, id, memId, frames, status, initProc>>
    BY <1>5 DEF vars32, chain
  <2>2. TreeInv' /\ Running' = Running /\ Up' = Up
    BY <2>1, SameTree, SameChain DEF Inv386, Up
  <2>3. Types386' /\ NoneStays' /\ NothingYet'
    BY <2>1 DEF Types386, NoneStays, NothingYet, Inv386
  <2>4. ASSUME Whole, Levels PROVE Whole' /\ Levels'
    BY <2>1, <2>2, <2>4 DEF Whole, Levels, Level
  <2> QED
    BY <2>1, <2>2, <2>3, <2>4 DEF Inv386
<1> QED
  BY <1>1, <1>2, <1>3, <1>4, <1>5 DEF Next32

(* In PDOS/386, as the makefiles build it, the chain, the parents and the  *)
(* statuses describe one tree, even when programs fail to start.           *)
THEOREM Family386 == Spec32 => []FamilyTree
<1>1. Init32 => Inv386
  BY Init386
<1>2. Inv386 /\ [Next32]_vars32 => Inv386'
  BY Next386
<1>3. Inv386 => FamilyTree
  BY TreeShows DEF Inv386
<1> QED
  BY <1>1, <1>2, <1>3, PTL DEF Spec32

(* As long as none has failed to start, terminateExe32 frees exactly what  *)
(* the program that ends left behind: no other program loses a block.      *)
THEOREM Memory386 == Spec32 => []MemoryAccounted32
<1>1. Init32 => Inv386
  BY Init386
<1>2. Inv386 /\ [Next32]_vars32 => Inv386'
  BY Next386
<1>3. Inv386 => MemoryAccounted32
  BY Show386
<1> QED
  BY <1>1, <1>2, <1>3, PTL DEF Spec32

-----------------------------------------------------------------------------
(***************************************************************************)
(* Streams: the buffer of a FILE and the place in its file stay in step,   *)
(* whatever the calls; and what a program sees of a binary file through it *)
(* is the file.                                                            *)
(***************************************************************************)
(* A FILE and its file, of the kinds of values they hold.                  *)
IsStream(x) ==
  x \in [bytes : Seq(Nat), pos : Nat, may : SUBSET {"read", "write"}, text : BOOLEAN, update : BOOLEAN,
   mode : {"read", "write"}, quickBin : BOOLEAN, quickText : BOOLEAN, justseeked : BOOLEAN, eofInd : BOOLEAN,
   ungetCh : Nat \cup {NoChar}, buf : [0 .. BUFSIZ -> Nat], start : Int, upto : Int, endbuf : Nat]

(* What stands at i in the buffer is what the file has there.              *)
Right(x, i) == x.buf[i] = x.bytes[x.start + i]

(* A stream that reads: the system's place is the end of the buffer, and   *)
(* what is held is the file's.                                             *)
InStep(x) ==
  /\ x.mode = "read" /\ x.pos = x.start + x.endbuf /\ x.pos <= Len(x.bytes) /\ x.endbuf <= BUFSIZ
  /\ x.upto <= x.endbuf /\ x.start + x.upto >= 0
  /\ \A i \in x.upto + 1 .. x.endbuf : Right(x, i)
  /\ x.quickBin => x.upto = x.endbuf

(* Between two calls.  A place in the buffer that fseek may go back to     *)
(* needs all of the buffer to be right; a character pushed back is the one *)
(* read last.                                                              *)
InRead(x) ==
  /\ InStep(x) /\ x.upto >= 0 /\ ~x.eofInd
  /\ x.upto # x.endbuf => \A i \in 1 .. x.endbuf : Right(x, i)
  /\ x.ungetCh # NoChar => x.start + x.upto >= 1 /\ x.ungetCh = x.bytes[x.start + x.upto] /\ ~x.quickBin

(* After TakeBack: the character pushed back is in the buffer again.       *)
TakenBack(x) ==
  /\ InStep(x) /\ x.upto >= -1 /\ ~x.eofInd /\ x.ungetCh = NoChar
  /\ x.upto < x.endbuf - 1 => \A i \in 1 .. x.endbuf : Right(x, i)

LEMMA BUFSIZIs == BUFSIZ \in Nat /\ BUFSIZ > 2 /\ Junk = 0 /\ NoChar = -1
BY StreamAssumption DEF Junk, NoChar

(* The character goes to the place it was read from.                       *)
LEMMA TakeBackOk ==
  ASSUME NEW x, IsStream(x), InRead(x)
  PROVE  IsStream(TakeBack(x)) /\ TakenBack(TakeBack(x))
<1>1. CASE x.ungetCh = NoChar
  BY <1>1 DEF TakeBack, InRead, TakenBack, InStep, IsStream
<1>2. CASE x.ungetCh # NoChar
  <2>1. PICK y : y = TakeBack(x)
    OBVIOUS
  <2>2. y = [x EXCEPT !.upto = @ - 1, !.buf[x.upto] = x.ungetCh, !.ungetCh = NoChar]
    BY <1>2, <2>1 DEF TakeBack
  <2> DEFINE b == [x.buf EXCEPT ![x.upto] = x.ungetCh]
             u == x.upto - 1
  <2>3. IsStream(y)
    <3>1. x.buf \in [0 .. BUFSIZ -> Nat] /\ x.ungetCh \in Nat /\ x.upto \in Int /\ NoChar \in Nat \cup {NoChar}
      BY <1>2 DEF IsStream
    <3>2. u \in Int
      BY <3>1
    <3>4. b \in [0 .. BUFSIZ -> Nat]
      BY <3>1
    <3>3. y = [x EXCEPT !.upto = u, !.buf = b, !.ungetCh = NoChar]
      BY <2>2
    <3> HIDE DEF b, u
    <3> QED
      BY <3>1, <3>2, <3>3, <3>4 DEF IsStream
  <2>4. /\ y.upto = x.upto - 1 /\ y.buf = [x.buf EXCEPT ![x.upto] = x.ungetCh] /\ y.ungetCh = NoChar
        /\ y.bytes = x.bytes /\ y.start = x.start /\ y.mode = x.mode /\ y.pos = x.pos /\ y.endbuf = x.endbuf
        /\ y.quickBin = x.quickBin /\ y.eofInd = x.eofInd
    BY <2>2 DEF IsStream
  <2>5. x.upto \in 0 .. BUFSIZ /\ x.buf \in [0 .. BUFSIZ -> Nat] /\ x.start \in Int /\ x.endbuf \in Nat /\ x.pos \in Nat
    BY BUFSIZIs DEF InRead, InStep, IsStream
  <2>6. y.buf[x.upto] = x.ungetCh /\ \A i \in 0 .. BUFSIZ : i # x.upto => y.buf[i] = x.buf[i]
    BY <2>4, <2>5
  <2>a. \A i \in 0 .. BUFSIZ : Right(x, i) \/ i = x.upto => Right(y, i)
    BY <2>4, <2>5, <2>6, <1>2 DEF InRead, Right
  <2>b. BUFSIZ \in Nat /\ x.endbuf <= BUFSIZ /\ x.upto <= x.endbuf
    BY BUFSIZIs DEF InRead, InStep
  <2>7. \A i \in y.upto + 1 .. y.endbuf : Right(y, i)
    <3>1. \A i \in x.upto + 1 .. x.endbuf : Right(x, i)
      BY DEF InRead, InStep
    <3>2. \A i \in y.upto + 1 .. y.endbuf : i \in 0 .. BUFSIZ /\ (i = x.upto \/ i \in x.upto + 1 .. x.endbuf)
      BY <2>4, <2>5, <2>b
    <3> QED
      BY <3>1, <3>2, <2>a
  <2>8. y.upto < y.endbuf - 1 => \A i \in 1 .. y.endbuf : Right(y, i)
    <3>1. x.upto # x.endbuf => \A i \in 1 .. x.endbuf : Right(x, i)
      BY DEF InRead
    <3>2. y.upto < y.endbuf - 1 => x.upto # x.endbuf
      BY <2>4, <2>5
    <3>3. \A i \in 1 .. y.endbuf : i \in 0 .. BUFSIZ /\ i \in 1 .. x.endbuf
      BY <2>4, <2>5, <2>b
    <3> QED
      BY <3>1, <3>2, <3>3, <2>a
  <2> QED
    BY <2>1, <2>3, <2>4, <2>5, <2>7, <2>8, <1>2 DEF InRead, InStep, TakenBack
<1> QED
  BY <1>1, <1>2


LEMMA MinTwo ==
  ASSUME NEW a \in Int, NEW b \in Int
  PROVE  Min({a, b}) = (IF a <= b THEN a ELSE b) /\ Max({a, b}) = (IF a <= b THEN b ELSE a)
<1>1. Min({a, b}) = (IF a <= b THEN a ELSE b)
  BY DEF Min
<1>2. Max({a, b}) = (IF a <= b THEN b ELSE a)
  BY DEF Max
<1> QED
  BY <1>1, <1>2

(* What the system reads is what the file has from its place on, up to its *)
(* end.                                                                    *)
LEMMA GotIs ==
  ASSUME NEW x, IsStream(x), x.pos <= Len(x.bytes), NEW n \in Nat
  PROVE  /\ Got(x, n) \in Seq(Nat) /\ Len(Got(x, n)) \in Nat
         /\ Len(Got(x, n)) = IF x.pos + n <= Len(x.bytes) THEN n ELSE Len(x.bytes) - x.pos
         /\ \A k \in 1 .. Len(Got(x, n)) : Got(x, n)[k] = x.bytes[x.pos + k]
<1>1. x.bytes \in Seq(Nat) /\ x.pos \in Nat /\ Len(x.bytes) \in Nat
  BY DEF IsStream
<1>2. PICK m \in Nat : m = IF x.pos + n <= Len(x.bytes) THEN x.pos + n ELSE Len(x.bytes)
  BY <1>1
<1>3. Min({x.pos + n, Len(x.bytes)}) = m
  BY <1>1, <1>2, MinTwo
<1>4. Got(x, n) = SubSeq(x.bytes, x.pos + 1, m)
  BY <1>3 DEF Got, Beyond
<1>5. m <= Len(x.bytes) /\ x.pos <= m
  BY <1>1, <1>2
<1>6. /\ SubSeq(x.bytes, x.pos + 1, m) \in Seq(Nat)
      /\ Len(SubSeq(x.bytes, x.pos + 1, m)) = m - x.pos
      /\ \A k \in 1 .. m - x.pos : SubSeq(x.bytes, x.pos + 1, m)[k] = x.bytes[x.pos + k]
  <2>1. \A i \in x.pos + 1 .. m : x.bytes[i] \in Nat
    <3>1. \A i \in 1 .. Len(x.bytes) : x.bytes[i] \in Nat
      BY <1>1
    <3> QED
      BY <1>1, <1>2, <1>5, <3>1
  <2>2. x.pos + 1 \in Int /\ m \in Int
    BY <1>1
  <2>3. /\ SubSeq(x.bytes, x.pos + 1, m) \in Seq(Nat)
        /\ Len(SubSeq(x.bytes, x.pos + 1, m)) = IF x.pos + 1 <= m THEN m - (x.pos + 1) + 1 ELSE 0
        /\ \A i \in 1 .. m - (x.pos + 1) + 1 : SubSeq(x.bytes, x.pos + 1, m)[i] = x.bytes[(x.pos + 1) + i - 1]
    BY <2>1, <2>2, SubSeqProperties
  <2>4. (IF x.pos + 1 <= m THEN m - (x.pos + 1) + 1 ELSE 0) = m - x.pos /\ m - (x.pos + 1) + 1 = m - x.pos
    <3>1. x.pos \in Nat /\ x.pos <= m
      BY <1>1, <1>5
    <3> QED
      BY <3>1
  <2>5. \A i \in 1 .. m - x.pos : (x.pos + 1) + i - 1 = x.pos + i
    BY <1>1
  <2> QED
    BY <2>3, <2>4, <2>5
<1>7. m - x.pos = (IF x.pos + n <= Len(x.bytes) THEN n ELSE Len(x.bytes) - x.pos) /\ m - x.pos \in Nat
  BY <1>1, <1>2, <1>5
<1> QED
  BY <1>4, <1>6, <1>7

LEMMA GotLen ==
  ASSUME NEW x, IsStream(x), x.pos <= Len(x.bytes), NEW n \in Nat
  PROVE  /\ Got(x, n) \in Seq(Nat) /\ Len(Got(x, n)) \in Nat /\ Len(Got(x, n)) <= n
         /\ x.pos + Len(Got(x, n)) <= Len(x.bytes)
         /\ Len(Got(x, n)) < n => x.pos + Len(Got(x, n)) = Len(x.bytes)
<1>1. x.pos \in Nat /\ Len(x.bytes) \in Nat
  BY DEF IsStream
<1>2. /\ Got(x, n) \in Seq(Nat) /\ Len(Got(x, n)) \in Nat
      /\ Len(Got(x, n)) = IF x.pos + n <= Len(x.bytes) THEN n ELSE Len(x.bytes) - x.pos
  BY GotIs
<1> QED
  BY <1>1, <1>2

LEMMA BufferedIs ==
  ASSUME NEW data \in Seq(Nat)
  PROVE  /\ Buffered(data) \in [0 .. BUFSIZ -> Nat]
         /\ \A i \in 1 .. BUFSIZ : i <= Len(data) => Buffered(data)[i] = data[i]
BY BUFSIZIs DEF Buffered

LEMMA EmptyIs == Empty \in [0 .. BUFSIZ -> Nat]
BY BUFSIZIs DEF Empty

(* A part of the buffer.                                                   *)
LEMMA PartIs ==
  ASSUME NEW x, IsStream(x), NEW i \in Int, NEW j \in Int, i >= -1, j <= BUFSIZ
  PROVE  /\ Part(x, i, j) \in Seq(Nat) /\ Len(Part(x, i, j)) \in Nat
         /\ Len(Part(x, i, j)) = IF i <= j THEN j - i ELSE 0
         /\ \A k \in 1 .. j - i : Part(x, i, j)[k] = x.buf[i + k]
<1>1. x.buf \in [0 .. BUFSIZ -> Nat]
  BY DEF IsStream
<1>2. \A k \in 1 .. j - i : x.buf[i + k] \in Nat
  BY <1>1, BUFSIZIs
<1>0. (IF i <= j THEN j - i ELSE 0) \in Nat
  OBVIOUS
<1>3. PICK m \in Nat : m = IF i <= j THEN j - i ELSE 0
  BY <1>0
<1>4. 1 .. j - i = 1 .. m
  BY <1>3
<1>5. Part(x, i, j) = [k \in 1 .. m |-> x.buf[i + k]]
  BY <1>4 DEF Part
<1>6. Part(x, i, j) \in [1 .. m -> Nat]
  BY <1>2, <1>4, <1>5
<1>7. Part(x, i, j) \in Seq(Nat) /\ Len(Part(x, i, j)) = m
  BY <1>6, <1>5
<1> QED
  BY <1>3, <1>4, <1>5, <1>7

(* Reading changes neither the file nor what the stream is for.            *)
Alike(y, x) ==
  y.bytes = x.bytes /\ y.may = x.may /\ y.text = x.text /\ y.update = x.update

(* After a read of the buffer came short: all of the file is read.         *)
Short(x) ==
  /\ x.mode = "read" /\ x.pos = Len(x.bytes) /\ x.pos = x.start + x.endbuf /\ x.endbuf <= BUFSIZ
  /\ x.upto = x.endbuf /\ x.ungetCh = NoChar /\ x.eofInd

(* A read of n bytes was answered in full, or came short.                  *)
Answered(x, n, r) ==
  /\ IsStream(r.x) /\ Alike(r.x, x) /\ (x.text /\ ~x.quickBin => ~r.x.quickBin)
  /\ Len(r.out) \in Nat /\ Len(r.out) <= n
  /\ Len(r.out) = n => InRead(r.x) /\ r.x.ungetCh = NoChar /\ r.x.start + r.x.upto >= x.start + x.upto + 1
  /\ Len(r.out) < n => Short(r.x)

(* A buffer that is filled holds what the file has.                        *)
LEMMA FilledRight ==
  ASSUME NEW x, IsStream(x), x.pos <= Len(x.bytes), NEW y,
         y.bytes = x.bytes, y.start = x.pos, y.buf = Buffered(Got(x, BUFSIZ)), y.endbuf = Len(Got(x, BUFSIZ))
  PROVE  \A i \in 1 .. y.endbuf : Right(y, i)
<1>1. Got(x, BUFSIZ) \in Seq(Nat) /\ Len(Got(x, BUFSIZ)) \in 0 .. BUFSIZ
      /\ \A k \in 1 .. Len(Got(x, BUFSIZ)) : Got(x, BUFSIZ)[k] = x.bytes[x.pos + k]
  <2>1. x.pos \in Nat /\ Len(x.bytes) \in Nat
    BY DEF IsStream
  <2>2. Got(x, BUFSIZ) \in Seq(Nat) /\ Len(Got(x, BUFSIZ)) \in Nat /\ Len(Got(x, BUFSIZ)) <= BUFSIZ
    BY GotLen, BUFSIZIs
  <2>3. \A k \in 1 .. Len(Got(x, BUFSIZ)) : Got(x, BUFSIZ)[k] = x.bytes[x.pos + k]
    BY GotIs, BUFSIZIs
  <2> QED
    BY <2>2, <2>3, BUFSIZIs
<1> SUFFICES ASSUME NEW i \in 1 .. y.endbuf PROVE Right(y, i)
  OBVIOUS
<1>2. i \in 1 .. BUFSIZ /\ i <= Len(Got(x, BUFSIZ)) /\ i \in 1 .. Len(Got(x, BUFSIZ))
  BY <1>1, BUFSIZIs
<1>3. y.buf[i] = Got(x, BUFSIZ)[i]
  BY <1>1, <1>2, BufferedIs
<1> QED
  BY <1>1, <1>2, <1>3 DEF Right

LEMMA ToReadOk ==
  ASSUME NEW x, IsStream(x), TakenBack(x)
  PROVE  IsStream(ToRead(x)) /\ TakenBack(ToRead(x)) /\ Alike(ToRead(x), x)
         /\ ToRead(x).quickBin = x.quickBin /\ ToRead(x).start = x.start /\ ToRead(x).upto = x.upto
<1>1. ToRead(x) = [x EXCEPT !.justseeked = FALSE]
  BY DEF ToRead, TakenBack, InStep
<1>2. PICK y : y = [x EXCEPT !.justseeked = FALSE]
  OBVIOUS
<1>3. IsStream(y)
  BY <1>2 DEF IsStream
<1>4. /\ y.bytes = x.bytes /\ y.pos = x.pos /\ y.may = x.may /\ y.text = x.text /\ y.update = x.update /\ y.mode = x.mode
      /\ y.quickBin = x.quickBin /\ y.eofInd = x.eofInd /\ y.ungetCh = x.ungetCh /\ y.buf = x.buf
      /\ y.start = x.start /\ y.upto = x.upto /\ y.endbuf = x.endbuf
  BY <1>2 DEF IsStream
<1> QED
  BY <1>1, <1>2, <1>3, <1>4 DEF TakenBack, InStep, Alike, Right

(* A binary read takes what is held, and the rest from the file.           *)
LEMMA FreadSlowB ==
  ASSUME NEW x, IsStream(x), TakenBack(x), NEW n \in Nat, n > Len(Held(x)), ~x.text, ~x.quickBin
  PROVE  Answered(x, n, freadSlowB(x, n))
<1> DEFINE left == n - Len(Held(x))
           y == [x EXCEPT !.start = @ + x.endbuf]
           big == Got(y, left)
           small == Got(y, BUFSIZ)
           used == Min({left, Len(small)})
<1>1. /\ x.pos \in Nat /\ Len(x.bytes) \in Nat /\ x.start \in Int /\ x.upto \in Int /\ x.endbuf \in Nat
      /\ x.pos = x.start + x.endbuf /\ x.pos <= Len(x.bytes) /\ x.endbuf <= BUFSIZ /\ x.upto <= x.endbuf /\ x.upto >= -1
      /\ x.start + x.upto >= 0 /\ x.mode = "read" /\ x.ungetCh = NoChar /\ ~x.eofInd
  BY DEF TakenBack, InStep, IsStream
<1>2. /\ IsStream(y) /\ y.start = x.pos /\ y.bytes = x.bytes /\ y.pos = x.pos /\ y.endbuf = x.endbuf /\ y.upto = x.upto
      /\ y.buf = x.buf /\ Alike(y, x) /\ y.mode = "read" /\ y.ungetCh = NoChar /\ ~y.eofInd /\ y.quickBin = x.quickBin
  <2>1. PICK a \in Int : a = x.start + x.endbuf
    BY <1>1
  <2>2. y = [x EXCEPT !.start = a]
    BY <2>1
  <2> HIDE DEF y
  <2>3. IsStream(y)
    BY <2>1, <2>2 DEF IsStream
  <2>4. /\ y.start = a /\ y.bytes = x.bytes /\ y.pos = x.pos /\ y.endbuf = x.endbuf /\ y.upto = x.upto /\ y.buf = x.buf
        /\ y.may = x.may /\ y.text = x.text /\ y.update = x.update /\ y.mode = x.mode /\ y.ungetCh = x.ungetCh
        /\ y.eofInd = x.eofInd /\ y.quickBin = x.quickBin
    BY <2>2 DEF IsStream
  <2> QED
    BY <1>1, <2>1, <2>3, <2>4 DEF Alike
<1>0. IsStream(y)
  BY <1>2
<1>3. Held(x) \in Seq(Nat) /\ Len(Held(x)) = x.endbuf - x.upto
  <2>1. /\ Part(x, x.upto, x.endbuf) \in Seq(Nat)
        /\ Len(Part(x, x.upto, x.endbuf)) = IF x.upto <= x.endbuf THEN x.endbuf - x.upto ELSE 0
    BY <1>1, PartIs
  <2> QED
    BY <1>1, <2>1 DEF Held
<1>4. left \in Nat /\ left >= 1
  BY <1>1, <1>3
<1>5. big \in Seq(Nat) /\ Len(big) \in Nat /\ Len(big) <= left /\ (Len(big) < left => x.pos + Len(big) = Len(x.bytes))
      /\ x.pos + Len(big) <= Len(x.bytes)
  <2> HIDE DEF left, y
  <2>1. y.pos <= Len(y.bytes) /\ y.pos \in Nat /\ Len(y.bytes) \in Nat
    BY <1>1, <1>2
  <2> QED
    BY <1>2, <1>4, <2>1, GotLen
<1>6. small \in Seq(Nat) /\ Len(small) \in Nat /\ Len(small) <= BUFSIZ /\ (Len(small) < BUFSIZ => x.pos + Len(small) = Len(x.bytes))
      /\ x.pos + Len(small) <= Len(x.bytes)
  <2> HIDE DEF left, y
  <2>1. y.pos <= Len(y.bytes) /\ y.pos \in Nat /\ Len(y.bytes) \in Nat
    BY <1>1, <1>2
  <2> QED
    BY <1>2, <2>1, GotLen, BUFSIZIs
<1>7. CASE left >= BUFSIZ
  <2>1. PICK r : r = freadSlowB(x, n)
    OBVIOUS
  <2>2. PICK e : e = IF Len(big) <= BUFSIZ THEN Len(big) ELSE BUFSIZ
    OBVIOUS
  <2>3. Min({Len(big), BUFSIZ}) = e /\ Max({0, Len(big) - BUFSIZ}) = Len(big) - e /\ e \in Nat /\ e <= BUFSIZ
        /\ (left = Len(big) => e >= 1)
    <3> HIDE DEF big, left
    <3>1. Len(big) \in Int /\ BUFSIZ \in Int /\ Len(big) - BUFSIZ \in Int /\ 0 \in Int
      BY <1>5, BUFSIZIs
    <3>2. Min({Len(big), BUFSIZ}) = e
      BY <2>2, <3>1, MinTwo
    <3>3. Max({0, Len(big) - BUFSIZ}) = IF 0 <= Len(big) - BUFSIZ THEN Len(big) - BUFSIZ ELSE 0
      BY <3>1, MinTwo
    <3> QED
      BY <1>4, <1>5, <1>7, <2>2, <3>2, <3>3, BUFSIZIs
  <2>4. r.out = Held(x) \o big
        /\ r.x = [iread(y, left) EXCEPT
                    !.eofInd = Len(big) < left, !.quickBin = TRUE, !.buf = Empty,
                    !.start = @ + (Len(big) - e), !.endbuf = e, !.upto = e]
    BY <1>1, <1>7, <2>1, <2>3 DEF freadSlowB
  <2>5. r.x = [y EXCEPT !.pos = @ + Len(big), !.eofInd = (Len(big) < left), !.quickBin = TRUE, !.buf = Empty,
                    !.start = @ + (Len(big) - e), !.endbuf = e, !.upto = e]
    <3> HIDE DEF left, y
    <3> QED
      BY <1>2, <2>4 DEF iread, IsStream
  <2>6. /\ IsStream(r.x) /\ r.x.pos = x.pos + Len(big) /\ r.x.eofInd = (Len(big) < left) /\ r.x.quickBin = TRUE
        /\ r.x.start = x.pos + Len(big) - e /\ r.x.endbuf = e /\ r.x.upto = e /\ Alike(r.x, x) /\ r.x.mode = "read"
        /\ r.x.ungetCh = NoChar
    <3> HIDE DEF left, y, big
    <3>1. PICK p \in Nat, a \in Int : p = x.pos + Len(big) /\ a = x.pos + Len(big) - e
      BY <1>1, <1>5, <2>3
    <3> DEFINE f == Len(big) < left
    <3>2. f \in BOOLEAN
      OBVIOUS
    <3> HIDE DEF f
    <3>3. r.x = [y EXCEPT !.pos = p, !.eofInd = f, !.quickBin = TRUE, !.buf = Empty, !.start = a, !.endbuf = e, !.upto = e]
      <4>1. y.pos + Len(big) = p /\ y.start + (Len(big) - e) = a
        BY <1>1, <1>2, <1>5, <2>3, <3>1
      <4> QED
        BY <2>5, <4>1 DEF f
    <3>4. e \in Nat /\ e \in Int
      BY <2>3
    <3> DEFINE b == Empty
    <3>b. b \in [0 .. BUFSIZ -> Nat]
      BY EmptyIs
    <3>c. p \in Nat /\ a \in Int
      BY <3>1
    <3> HIDE DEF b
    <3>d. PICK z : z = r.x
      OBVIOUS
    <3>e. z = [y EXCEPT !.pos = p, !.eofInd = f, !.quickBin = TRUE, !.buf = b, !.start = a, !.endbuf = e, !.upto = e]
      BY <3>3, <3>d DEF b
    <3>5. IsStream(z)
      BY <1>0, <3>b, <3>c, <3>e, <3>2, <3>4 DEF IsStream
    <3>6. /\ z.pos = p /\ z.eofInd = f /\ z.quickBin = TRUE /\ z.start = a /\ z.endbuf = e /\ z.upto = e
          /\ z.bytes = y.bytes /\ z.may = y.may /\ z.text = y.text /\ z.update = y.update /\ z.mode = y.mode
          /\ z.ungetCh = y.ungetCh
      BY <1>0, <3>e DEF IsStream
    <3> QED
      BY <1>2, <3>1, <3>d, <3>5, <3>6 DEF Alike, f
  <2>7. Len(r.out) = Len(Held(x)) + Len(big)
    <3> HIDE DEF left, y, big
    <3> QED
      <4>1. Len(Held(x) \o big) = Len(Held(x)) + Len(big)
        BY <1>3, <1>5, ConcatProperties
      <4> QED
        BY <2>4, <4>1
  <2>8. r.x.bytes = x.bytes
    BY <2>6 DEF Alike
  <2> HIDE DEF y, big, used, small
  <2>9. Len(r.out) \in Nat /\ Len(r.out) <= n /\ (Len(r.out) = n <=> Len(big) = left) /\ Len(big) <= left
    <3> HIDE DEF Held
    <3>1. n = left + Len(Held(x)) /\ Len(Held(x)) \in Nat
      BY <1>1, <1>3 DEF left
    <3> HIDE DEF left
    <3> QED
      BY <1>4, <1>5, <2>7, <3>1
  <2> HIDE DEF left
  <2>10. ASSUME Len(r.out) = n
         PROVE  InRead(r.x) /\ r.x.start + r.x.upto >= x.start + x.upto + 1
    <3>1. Len(big) = left
      BY <2>9, <2>10
    <3>2. InStep(r.x)
      <4>1. /\ r.x.pos = r.x.start + r.x.endbuf /\ r.x.pos <= Len(r.x.bytes) /\ r.x.endbuf <= BUFSIZ
            /\ r.x.upto <= r.x.endbuf /\ r.x.start + r.x.upto >= 0 /\ r.x.upto = r.x.endbuf /\ r.x.mode = "read"
        BY <1>1, <1>5, <2>3, <2>6, <2>8
      <4>2. r.x.upto + 1 .. r.x.endbuf = {}
        BY <2>3, <2>6
      <4> QED
        BY <4>1, <4>2 DEF InStep
    <3>3. r.x.start + r.x.upto >= x.start + x.upto + 1
      <4>1. r.x.start + r.x.upto = x.pos + Len(big)
        BY <1>1, <1>5, <2>3, <2>6
      <4>2. x.start + x.upto <= x.pos /\ x.start + x.upto \in Int /\ x.pos \in Nat
        BY <1>1
      <4>3. Len(big) \in Nat /\ Len(big) >= 1
        BY <1>4, <1>5, <3>1
      <4> QED
        BY <4>1, <4>2, <4>3
    <3>4. ~r.x.eofInd /\ r.x.upto >= 0 /\ r.x.upto = r.x.endbuf /\ r.x.ungetCh = NoChar
      <4>1. ~(Len(big) < left)
        BY <1>4, <3>1
      <4>2. e >= 0
        BY <2>3
      <4> QED
        BY <2>6, <4>1, <4>2
    <3> QED
      BY <3>2, <3>3, <3>4 DEF InRead
  <2>11. ASSUME Len(r.out) < n
         PROVE  Short(r.x)
    <3>1. Len(big) < left
      BY <2>9, <2>11, <1>4, <1>5
    <3> QED
      <4>1. x.pos + Len(big) = Len(x.bytes) /\ r.x.pos = Len(r.x.bytes) /\ r.x.pos = r.x.start + r.x.endbuf
        BY <1>1, <1>5, <2>3, <2>6, <2>8, <3>1
      <4> QED
        BY <2>3, <2>6, <3>1, <4>1 DEF Short
  <2>12. r.x.ungetCh = NoChar
    BY <2>6
  <2> QED
    BY <2>1, <2>6, <2>9, <2>10, <2>11, <2>12 DEF Answered
<1>8. CASE left < BUFSIZ
  <2>1. PICK r : r = freadSlowB(x, n)
    OBVIOUS
  <2>3. used = (IF left <= Len(small) THEN left ELSE Len(small))
    <3> HIDE DEF small, left
    <3> QED
      BY <1>4, <1>6, MinTwo
  <2>4. r.out = Held(x) \o SubSeq(small, 1, used)
        /\ r.x = [iread(y, BUFSIZ) EXCEPT
                    !.eofInd = Len(small) < left, !.buf = Buffered(small),
                    !.endbuf = Len(small), !.upto = used]
    <3>1. ~(left >= BUFSIZ)
      BY <1>1, <1>3, <1>8, BUFSIZIs
    <3> QED
      BY <1>1, <3>1, <2>1 DEF freadSlowB
  <2>5. r.x = [y EXCEPT !.pos = @ + Len(small), !.eofInd = (Len(small) < left), !.buf = Buffered(small),
                    !.endbuf = Len(small), !.upto = used]
    <3> HIDE DEF left, y, used
    <3> QED
      BY <1>2, <2>4 DEF iread, IsStream
  <2>9. Buffered(small) \in [0 .. BUFSIZ -> Nat]
    <3> HIDE DEF small
    <3> QED
      BY <1>6, BufferedIs
  <2>6. /\ IsStream(r.x) /\ r.x.pos = x.pos + Len(small) /\ r.x.eofInd = (Len(small) < left) /\ r.x.quickBin = x.quickBin
        /\ r.x.start = x.pos /\ r.x.endbuf = Len(small) /\ r.x.upto = used /\ Alike(r.x, x) /\ r.x.mode = "read"
        /\ r.x.ungetCh = NoChar /\ r.x.buf = Buffered(small)
    <3> HIDE DEF left, y, small, used
    <3>1. PICK p \in Nat, a \in Nat, b \in [0 .. BUFSIZ -> Nat] : p = x.pos + Len(small) /\ a = Len(small) /\ b = Buffered(small)
      BY <1>1, <1>6, <2>9
    <3> DEFINE f == Len(small) < left
    <3>2. f \in BOOLEAN
      OBVIOUS
    <3> HIDE DEF f
    <3>3. used \in Int
      BY <1>4, <1>6, <2>3
    <3>4. r.x = [y EXCEPT !.pos = p, !.eofInd = f, !.buf = b, !.endbuf = a, !.upto = used]
      <4>1. y.pos + Len(small) = p
        BY <1>2, <3>1
      <4> QED
        BY <2>5, <3>1, <4>1 DEF f
    <3>c. p \in Nat /\ a \in Nat /\ b \in [0 .. BUFSIZ -> Nat]
      BY <3>1
    <3>d. PICK z : z = r.x
      OBVIOUS
    <3>e. z = [y EXCEPT !.pos = p, !.eofInd = f, !.buf = b, !.endbuf = a, !.upto = used]
      BY <3>4, <3>d
    <3>5. IsStream(z)
      BY <1>0, <3>c, <3>e, <3>2, <3>3 DEF IsStream
    <3>6. /\ z.pos = p /\ z.eofInd = f /\ z.quickBin = y.quickBin /\ z.start = y.start /\ z.endbuf = a /\ z.upto = used
          /\ z.bytes = y.bytes /\ z.may = y.may /\ z.text = y.text /\ z.update = y.update /\ z.mode = y.mode
          /\ z.ungetCh = y.ungetCh /\ z.buf = b
      BY <1>0, <3>e DEF IsStream
    <3> QED
      BY <1>2, <3>1, <3>d, <3>5, <3>6 DEF Alike, f
  <2>7. Len(r.out) = Len(Held(x)) + used
    <3> HIDE DEF left, y, small, used
    <3>1. SubSeq(small, 1, used) \in Seq(Nat) /\ Len(SubSeq(small, 1, used)) = used
      BY <1>4, <1>6, <2>3
    <3> QED
      BY <1>3, <3>1, <2>4
  <2>8. r.x.bytes = x.bytes /\ \A i \in 1 .. r.x.endbuf : Right(r.x, i)
    <3> HIDE DEF left, y, used
    <3>1. r.x.bytes = x.bytes
      BY <2>6 DEF Alike
    <3> QED
      BY <1>1, <1>2, <2>6, <3>1, FilledRight
  <2> HIDE DEF y, big, used, small
  <2>10. Len(r.out) \in Nat /\ Len(r.out) <= n /\ (Len(r.out) = n <=> used = left) /\ used <= left /\ used \in Nat
        /\ used <= Len(small)
    <3>1. n = left + Len(Held(x)) /\ Len(Held(x)) \in Nat
      BY <1>1, <1>3 DEF left
    <3> HIDE DEF left, Held
    <3> QED
      BY <1>4, <1>6, <2>3, <2>7, <3>1
  <2> HIDE DEF left
  <2>11. ASSUME Len(r.out) = n
         PROVE  InRead(r.x) /\ r.x.start + r.x.upto >= x.start + x.upto + 1
    <3>1. used = left
      BY <2>10, <2>11
    <3>2. InStep(r.x)
      <4>1. /\ r.x.pos = r.x.start + r.x.endbuf /\ r.x.pos <= Len(r.x.bytes) /\ r.x.endbuf <= BUFSIZ
            /\ r.x.upto <= r.x.endbuf /\ r.x.start + r.x.upto >= 0 /\ ~r.x.quickBin /\ r.x.mode = "read"
        BY <1>1, <1>4, <1>6, <2>6, <2>8, <2>10
      <4>2. \A i \in r.x.upto + 1 .. r.x.endbuf : i \in 1 .. r.x.endbuf
        BY <1>6, <2>6, <2>10
      <4> QED
        BY <2>8, <4>1, <4>2 DEF InStep
    <3>3. r.x.start + r.x.upto >= x.start + x.upto + 1
      <4>1. PICK base \in Int, u \in Int, full \in Nat : base = x.start /\ u = x.upto /\ full = x.endbuf
        BY <1>1
      <4>2. left >= 1 /\ left \in Nat
        BY <1>4
      <4>3. r.x.start + r.x.upto = base + full + left /\ u <= full
        BY <1>1, <2>6, <3>1, <4>1
      <4> QED
        BY <4>1, <4>2, <4>3
    <3> QED
      <4>2. left <= Len(small)
        BY <2>10, <3>1
      <4>3. ~(Len(small) < left)
        BY <1>4, <1>6, <4>2
      <4>1. ~r.x.eofInd /\ r.x.upto >= 0 /\ r.x.ungetCh = NoChar
        <5>1. r.x.upto \in Nat
          BY <2>6, <2>10
        <5>2. ~r.x.eofInd
          BY <2>6, <4>3
        <5> QED
          BY <2>6, <5>1, <5>2
      <4> QED
        BY <2>8, <3>2, <3>3, <4>1 DEF InRead
  <2>13. ASSUME Len(r.out) < n
         PROVE  Short(r.x)
    <3>1. used < left
      BY <2>10, <2>13, <1>4
    <3>2. used = Len(small) /\ Len(small) < left /\ Len(small) < BUFSIZ
      BY <1>4, <1>6, <1>8, <2>3, <3>1, BUFSIZIs
    <3> QED
      BY <1>1, <1>4, <1>6, <2>6, <2>8, <3>2 DEF Short
  <2>14. r.x.ungetCh = NoChar
    BY <2>6
  <2> QED
    BY <2>1, <2>6, <2>10, <2>11, <2>13, <2>14 DEF Answered
<1> QED
  BY <1>3, <1>4, <1>7, <1>8, BUFSIZIs


(* Min, of a set with a bound below.                                       *)
LEMMA LeastOf ==
  ASSUME NEW a \in Int, NEW T, T # {}, \A t \in T : t \in Int /\ t >= a
  PROVE  Min(T) \in T /\ \A t \in T : Min(T) <= t
<1> DEFINE D == {t - a : t \in T}
<1>1. D \in SUBSET Nat /\ D # {}
  OBVIOUS
<1>2. PICK m \in D : \A k \in D : m <= k
  <2> HIDE DEF D
  <2> QED
    BY <1>1, LeastNumber
<1>3. PICK t \in T : m = t - a
  BY <1>2
<1>4. \A u \in T : t <= u
  <2> SUFFICES ASSUME NEW u \in T PROVE t <= u
    OBVIOUS
  <2>1. u - a \in D /\ u \in Int /\ t \in Int
    OBVIOUS
  <2> HIDE DEF D
  <2> QED
    BY <1>2, <1>3, <2>1
<1> QED
  BY <1>4 DEF Min

LEMMA NewlineIs ==
  ASSUME NEW x, x.endbuf \in Nat, NEW i \in Int
  PROVE  Newline(x, i) \in Int /\ i <= Newline(x, i)
         /\ (IF i <= x.endbuf THEN Newline(x, i) <= x.endbuf ELSE Newline(x, i) = i)
<1> DEFINE N == {j \in i .. x.endbuf - 1 : x.buf[j + 1] = LF}
<1>1. PICK m \in Int : m = IF i <= x.endbuf THEN x.endbuf ELSE i
  <2>1. (IF i <= x.endbuf THEN x.endbuf ELSE i) \in Int
    OBVIOUS
  <2> QED
    BY <2>1
<1>2. Max({i, x.endbuf}) = m
  BY <1>1, MinTwo
<1>3. Newline(x, i) = Min(N \cup {m})
  BY <1>2 DEF Newline
<1>4. \A t \in N \cup {m} : t \in Int /\ t >= i /\ t <= m
  BY <1>1
<1>5. N \cup {m} # {}
  OBVIOUS
<1> HIDE DEF N
<1>6. Min(N \cup {m}) \in N \cup {m}
  BY <1>4, <1>5, LeastOf
<1> QED
  BY <1>1, <1>3, <1>4, <1>6

LEMMA FrontIs ==
  ASSUME NEW q \in Seq(Nat)
  PROVE  Front(q) \in Seq(Nat) /\ Len(Front(q)) = IF Len(q) >= 1 THEN Len(q) - 1 ELSE 0
<1>1. Len(q) \in Nat /\ Len(q) - 1 \in Int
  OBVIOUS
<1>2. \A i \in 1 .. Len(q) - 1 : q[i] \in Nat
  OBVIOUS
<1>3. /\ SubSeq(q, 1, Len(q) - 1) \in Seq(Nat)
      /\ Len(SubSeq(q, 1, Len(q) - 1)) = IF 1 <= Len(q) - 1 THEN (Len(q) - 1) - 1 + 1 ELSE 0
  BY <1>1, <1>2, SubSeqProperties
<1> QED
  BY <1>1, <1>3 DEF Front

LEMMA MovedOn ==
  ASSUME NEW x, IsStream(x), TakenBack(x), NEW u \in Int, x.upto < u, u <= x.endbuf
  PROVE  LET y == [x EXCEPT !.upto = u]
         IN  /\ IsStream(y) /\ InRead(y) /\ TakenBack(y) /\ Alike(y, x) /\ y.ungetCh = NoChar /\ y.quickBin = x.quickBin
             /\ y.start = x.start /\ y.upto = u
<1> DEFINE y == [x EXCEPT !.upto = u]
<1>1. IsStream(y)
  BY DEF IsStream
<1>2. /\ y.bytes = x.bytes /\ y.pos = x.pos /\ y.may = x.may /\ y.text = x.text /\ y.update = x.update /\ y.mode = x.mode
      /\ y.quickBin = x.quickBin /\ y.eofInd = x.eofInd /\ y.ungetCh = x.ungetCh /\ y.buf = x.buf
      /\ y.start = x.start /\ y.upto = u /\ y.endbuf = x.endbuf
  BY DEF IsStream
<1>3. /\ x.pos \in Nat /\ x.start \in Int /\ x.upto \in Int /\ x.endbuf \in Nat
      /\ x.pos = x.start + x.endbuf /\ x.pos <= Len(x.bytes) /\ x.endbuf <= BUFSIZ /\ x.upto <= x.endbuf /\ x.upto >= -1
      /\ x.start + x.upto >= 0 /\ x.mode = "read" /\ x.ungetCh = NoChar /\ ~x.eofInd /\ (x.quickBin => x.upto = x.endbuf)
      /\ \A i \in x.upto + 1 .. x.endbuf : Right(x, i)
      /\ (x.upto < x.endbuf - 1 => \A i \in 1 .. x.endbuf : Right(x, i))
  BY DEF TakenBack, InStep, IsStream
<1> HIDE DEF y
<1>4. \A i \in u + 1 .. y.endbuf : Right(y, i)
  <2>1. \A i \in u + 1 .. y.endbuf : i \in x.upto + 1 .. x.endbuf
    BY <1>2, <1>3
  <2> QED
    BY <1>2, <1>3, <2>1 DEF Right
<1>5. u # y.endbuf => \A i \in 1 .. y.endbuf : Right(y, i)
  <2>1. u # y.endbuf => x.upto < x.endbuf - 1
    BY <1>2, <1>3
  <2>2. \A i : Right(y, i) <=> Right(x, i)
    BY <1>2 DEF Right
  <2> QED
    BY <1>2, <1>3, <2>1, <2>2
<1>6. /\ y.mode = "read" /\ y.pos = y.start + y.endbuf /\ y.pos <= Len(y.bytes) /\ y.endbuf <= BUFSIZ
      /\ y.upto <= y.endbuf /\ y.start + y.upto >= 0 /\ ~y.quickBin /\ ~y.eofInd /\ y.ungetCh = NoChar /\ y.upto >= 0
  BY <1>2, <1>3
<1>7. InStep(y)
  BY <1>2, <1>4, <1>6 DEF InStep
<1>8. InRead(y)
  BY <1>2, <1>5, <1>6, <1>7 DEF InRead
<1>9. TakenBack(y)
  <2>1. y.upto < y.endbuf - 1 => u # y.endbuf
    BY <1>2, <1>3
  <2>2. y.upto >= -1
    BY <1>2, <1>6
  <2> QED
    BY <1>5, <1>6, <1>7, <2>1, <2>2 DEF TakenBack
<1> QED
  BY <1>1, <1>2, <1>6, <1>8, <1>9 DEF Alike, y

(* A turn of the loop moves on in the buffer.                              *)
Scanned(x, n, r) ==
  /\ r = [x |-> r.x, out |-> r.out] /\ r.out \in Seq(Nat) /\ Len(r.out) <= n
  /\ \E u \in Int : x.upto < u /\ u <= x.endbuf /\ r.x = [x EXCEPT !.upto = u]

LEMMA ScanOk ==
  ASSUME NEW x, IsStream(x), TakenBack(x), x.upto < x.endbuf, NEW n \in Nat, NEW out \in Seq(Nat), Len(out) < n
  PROVE  Scanned(x, n, Scan(x, n, out))
<1> DEFINE j == Newline(x, x.upto)
           run == out \o Part(x, x.upto, j)
           y == [x EXCEPT !.upto = j]
           r == Scan(x, n, out)
<1>1. /\ x.upto \in Int /\ x.endbuf \in Nat /\ x.endbuf <= BUFSIZ /\ x.upto >= -1 /\ BUFSIZ \in Nat /\ Len(out) \in Nat
  BY BUFSIZIs DEF TakenBack, InStep, IsStream
<1>0. x.upto <= x.endbuf
  BY DEF TakenBack, InStep
<1>2. j \in Int /\ x.upto <= j /\ j <= x.endbuf
  <2>1. j \in Int /\ x.upto <= j /\ (IF x.upto <= x.endbuf THEN j <= x.endbuf ELSE j = x.upto)
    <3>1. x.upto \in Int /\ x.endbuf \in Nat
      BY <1>1
    <3> QED
      BY <3>1, NewlineIs
  <2> HIDE DEF j
  <2> QED
    BY <1>0, <2>1
<1>3. \A k \in Int : k <= x.endbuf => /\ Part(x, x.upto, k) \in Seq(Nat)
                                     /\ Len(Part(x, x.upto, k)) = IF x.upto <= k THEN k - x.upto ELSE 0
  <2> SUFFICES ASSUME NEW k \in Int, k <= x.endbuf
               PROVE  /\ Part(x, x.upto, k) \in Seq(Nat)
                      /\ Len(Part(x, x.upto, k)) = IF x.upto <= k THEN k - x.upto ELSE 0
    OBVIOUS
  <2>1. k <= BUFSIZ /\ x.upto \in Int /\ x.upto >= -1
    BY <1>1
  <2> QED
    BY <2>1, PartIs
<1>4. run \in Seq(Nat) /\ Len(run) = Len(out) + (j - x.upto)
  <2> HIDE DEF j
  <2>1. Part(x, x.upto, j) \in Seq(Nat) /\ Len(Part(x, x.upto, j)) = j - x.upto
    BY <1>1, <1>2, <1>3
  <2> QED
    BY <2>1, ConcatProperties
<1>5. Front(run) \in Seq(Nat) /\ Len(Front(run)) = IF Len(run) >= 1 THEN Len(run) - 1 ELSE 0
  <2> HIDE DEF run
  <2> QED
    BY <1>4, FrontIs
<1>6. LF \in Nat /\ <<LF>> \in Seq(Nat) /\ Len(<<LF>>) = 1
  BY StreamAssumption
<1>7. \A k : [y EXCEPT !.upto = k] = [x EXCEPT !.upto = k]
  BY DEF IsStream
<1>9a. j = x.endbuf => x.upto < j
  OBVIOUS
<1>8. CASE n - Len(out) < j - x.upto
  <2>1. r = [x |-> [x EXCEPT !.upto = @ + n - Len(out)], out |-> out \o Part(x, x.upto, x.upto + n - Len(out))]
    BY <1>8 DEF Scan
  <2>2. PICK u \in Int : u = x.upto + n - Len(out)
    BY <1>1
  <2>3. x.upto < u /\ u <= x.endbuf /\ u - x.upto = n - Len(out)
    <3> HIDE DEF j
    <3> QED
      BY <1>1, <1>2, <1>8, <2>2
  <2>4. Part(x, x.upto, u) \in Seq(Nat) /\ Len(Part(x, x.upto, u)) = n - Len(out)
    <3>1. Part(x, x.upto, u) \in Seq(Nat) /\ Len(Part(x, x.upto, u)) = IF x.upto <= u THEN u - x.upto ELSE 0
      BY <1>3, <2>3
    <3>2. x.upto <= u
      BY <1>1, <2>3
    <3> QED
      BY <2>3, <3>1, <3>2
  <2>5. out \o Part(x, x.upto, u) \in Seq(Nat) /\ Len(out \o Part(x, x.upto, u)) = n
    BY <1>1, <2>4, ConcatProperties
  <2>6. r = [x |-> [x EXCEPT !.upto = u], out |-> out \o Part(x, x.upto, u)]
    BY <2>1, <2>2
  <2> HIDE DEF r
  <2>7. r.x = [x EXCEPT !.upto = u] /\ r.out = out \o Part(x, x.upto, u) /\ r = [x |-> r.x, out |-> r.out]
    BY <2>6
  <2> QED
    BY <2>3, <2>5, <2>7 DEF r, Scanned
<1>9. CASE ~(n - Len(out) < j - x.upto)
  <2>1. Len(run) <= n
    <3> HIDE DEF j, run
    <3> QED
      BY <1>1, <1>2, <1>4, <1>9
  <2>2. CASE j = x.endbuf
    <3>1. PICK o \in Seq(Nat) : o = (IF x.buf[j] = CR THEN Front(run) ELSE run) /\ Len(o) <= n
      <4> HIDE DEF run, j
      <4> QED
        BY <1>1, <1>4, <1>5, <2>1
    <3>2. r = [x |-> [x EXCEPT !.upto = j], out |-> o]
      <4>1. ~(n - Len(out) < j - x.upto)
        BY <1>9
      <4> QED
        BY <4>1, <2>2, <3>1 DEF Scan
    <3> HIDE DEF r, j
    <3>3. r.x = [x EXCEPT !.upto = j] /\ r.out = o /\ r = [x |-> r.x, out |-> r.out]
      BY <3>2
    <3> QED
      BY <1>2, <2>2, <3>1, <3>3, <1>9a DEF r, Scanned
  <2>3. CASE j # x.endbuf
    <3>1. PICK o \in Seq(Nat), u \in Int :
            r = [x |-> [x EXCEPT !.upto = u], out |-> o] /\ Len(o) <= n /\ x.upto < u /\ u <= x.endbuf
      <4>1. CASE x.buf[j] = CR
        <5>1. r = [x |-> [y EXCEPT !.upto = j + 1], out |-> Front(run) \o <<LF>>]
          BY <1>9, <2>3, <4>1 DEF Scan
        <5>2. r = [x |-> [x EXCEPT !.upto = j + 1], out |-> Front(run) \o <<LF>>]
          BY <5>1, <1>7
        <5> HIDE DEF r, j, run
        <5>3. Front(run) \o <<LF>> \in Seq(Nat) /\ Len(Front(run) \o <<LF>>) = Len(Front(run)) + 1
          BY <1>5, <1>6, ConcatProperties
        <5>4. Len(Front(run)) + 1 <= n
          BY <1>1, <1>4, <1>5, <1>2, <2>1
        <5>5. j + 1 \in Int /\ x.upto < j + 1 /\ j + 1 <= x.endbuf
          BY <1>1, <1>2, <2>3
        <5> QED
          BY <5>2, <5>3, <5>4, <5>5
      <4>2. CASE x.buf[j] # CR /\ Len(run) = n
        <5>1. r = [x |-> y, out |-> run]
          BY <1>9, <2>3, <4>2 DEF Scan
        <5>2. x.upto < j
          <6> HIDE DEF j, run
          <6> QED
            BY <1>1, <1>2, <1>4, <4>2
        <5> HIDE DEF r, j, run
        <5> QED
          BY <1>2, <1>4, <2>1, <5>1, <5>2
      <4>3. CASE x.buf[j] # CR /\ Len(run) # n
        <5>1. r = [x |-> [y EXCEPT !.upto = j + 1], out |-> run \o <<LF>>]
          BY <1>9, <2>3, <4>3 DEF Scan
        <5>2. r = [x |-> [x EXCEPT !.upto = j + 1], out |-> run \o <<LF>>]
          BY <5>1, <1>7
        <5> HIDE DEF r, j, run
        <5>3. run \o <<LF>> \in Seq(Nat) /\ Len(run \o <<LF>>) = Len(run) + 1
          BY <1>4, <1>6, ConcatProperties
        <5>4. Len(run) + 1 <= n
          BY <1>1, <1>2, <1>4, <2>1, <4>3
        <5>5. j + 1 \in Int /\ x.upto < j + 1 /\ j + 1 <= x.endbuf
          BY <1>1, <1>2, <2>3
        <5> QED
          BY <5>2, <5>3, <5>4, <5>5
      <4> QED
        BY <4>1, <4>2, <4>3
    <3> HIDE DEF r
    <3>2. r.x = [x EXCEPT !.upto = u] /\ r.out = o /\ r = [x |-> r.x, out |-> r.out]
      BY <3>1
    <3> QED
      BY <3>1, <3>2 DEF r, Scanned
  <2> QED
    BY <2>2, <2>3
<1> QED
  BY <1>8, <1>9


(* The buffer, filled anew when it is used up.                             *)
Full(x) ==
  IF x.upto # x.endbuf THEN x
  ELSE [iread(x, BUFSIZ) EXCEPT !.start = @ + x.upto, !.endbuf = Len(Got(x, BUFSIZ)), !.upto = 0,
                                !.buf = Buffered(Got(x, BUFSIZ))]

LEMMA FilledIs ==
  ASSUME NEW x, IsStream(x), NEW p \in Nat, NEW a \in Int, NEW e \in Nat, NEW u \in Int, NEW b \in [0 .. BUFSIZ -> Nat]
  PROVE  IsStream([x EXCEPT !.pos = p, !.start = a, !.endbuf = e, !.upto = u, !.buf = b])
BY DEF IsStream

LEMMA FullOk ==
  ASSUME NEW x, IsStream(x), TakenBack(x), ~x.quickBin, x.upto # x.endbuf \/ Got(x, BUFSIZ) # << >>
  PROVE  /\ IsStream(Full(x)) /\ TakenBack(Full(x)) /\ Full(x).upto < Full(x).endbuf /\ Alike(Full(x), x)
         /\ ~Full(x).quickBin /\ Full(x).start + Full(x).upto = x.start + x.upto
<1>0. /\ x.pos \in Nat /\ Len(x.bytes) \in Nat /\ x.start \in Int /\ x.upto \in Int /\ x.endbuf \in Nat
      /\ x.pos = x.start + x.endbuf /\ x.pos <= Len(x.bytes) /\ x.endbuf <= BUFSIZ /\ x.upto <= x.endbuf
      /\ x.mode = "read" /\ x.ungetCh = NoChar /\ ~x.eofInd
  BY DEF TakenBack, InStep, IsStream
<1>1. CASE x.upto # x.endbuf
  <2>1. Full(x) = x
    BY <1>1 DEF Full
  <2>2. x.upto < x.endbuf
    BY <1>0, <1>1
  <2> QED
    BY <2>1, <2>2 DEF Alike
<1>2. CASE x.upto = x.endbuf
  <2> DEFINE in == Got(x, BUFSIZ)
  <2>1. /\ in \in Seq(Nat) /\ Len(in) \in Nat /\ Len(in) <= BUFSIZ /\ x.pos + Len(in) <= Len(x.bytes)
    BY <1>0, GotLen, BUFSIZIs
  <2>2. Len(in) >= 1
    <3>1. in # << >>
      BY <1>2
    <3> HIDE DEF in
    <3> QED
      BY <2>1, <3>1, EmptySeq
  <2>3. Buffered(in) \in [0 .. BUFSIZ -> Nat]
    <3> HIDE DEF in
    <3> QED
      BY <2>1, BufferedIs
  <2>4. PICK y : y = Full(x)
    OBVIOUS
  <2>5. PICK p \in Nat, a \in Int, e \in Nat, b \in [0 .. BUFSIZ -> Nat] :
          p = x.pos + Len(in) /\ a = x.start + x.upto /\ e = Len(in) /\ b = Buffered(in)
    <3> HIDE DEF in
    <3> QED
      BY <1>0, <2>1, <2>3
  <2>6. y = [x EXCEPT !.pos = p, !.start = a, !.endbuf = e, !.upto = 0, !.buf = b]
    <3>1. y = [iread(x, BUFSIZ) EXCEPT !.start = @ + x.upto, !.endbuf = e, !.upto = 0, !.buf = b]
      BY <1>2, <2>4, <2>5 DEF Full
    <3>2. iread(x, BUFSIZ) = [x EXCEPT !.pos = p]
      BY <2>5 DEF iread
    <3>3. [[x EXCEPT !.pos = p] EXCEPT !.start = @ + x.upto, !.endbuf = e, !.upto = 0, !.buf = b]
          = [x EXCEPT !.pos = p, !.start = x.start + x.upto, !.endbuf = e, !.upto = 0, !.buf = b]
      BY DEF IsStream
    <3> QED
      BY <2>5, <3>1, <3>2, <3>3
  <2>7. IsStream(y)
    <3>1. p \in Nat /\ a \in Int /\ e \in Nat /\ b \in [0 .. BUFSIZ -> Nat]
      BY <2>5
    <3> QED
      BY <2>6, <3>1, 0 \in Int, FilledIs
  <2>8. /\ y.bytes = x.bytes /\ y.pos = p /\ y.may = x.may /\ y.text = x.text /\ y.update = x.update /\ y.mode = x.mode
        /\ y.quickBin = x.quickBin /\ y.eofInd = x.eofInd /\ y.ungetCh = x.ungetCh /\ y.buf = b
        /\ y.start = a /\ y.upto = 0 /\ y.endbuf = e
    BY <2>6 DEF IsStream
  <2>9. \A i \in 1 .. y.endbuf : Right(y, i)
    <3>1. y.start = x.pos /\ y.buf = Buffered(Got(x, BUFSIZ)) /\ y.endbuf = Len(Got(x, BUFSIZ))
      BY <1>0, <1>2, <2>5, <2>8
    <3> QED
      BY <1>0, <2>8, <3>1, FilledRight
  <2>10. InStep(y)
    <3>1. y.pos = y.start + y.endbuf /\ y.pos <= Len(y.bytes) /\ y.endbuf <= BUFSIZ /\ y.upto <= y.endbuf
          /\ y.start + y.upto >= 0 /\ y.mode = "read" /\ ~y.quickBin
      <4> HIDE DEF in
      <4> QED
        BY <1>0, <1>2, <2>1, <2>5, <2>8
    <3>2. y.upto + 1 = 1
      BY <2>8
    <3> QED
      BY <2>9, <3>1, <3>2 DEF InStep
  <2>11. TakenBack(y)
    BY <1>0, <2>8, <2>9, <2>10 DEF TakenBack
  <2> HIDE DEF in
  <2>12. y.upto < y.endbuf /\ y.start + y.upto = x.start + x.upto
    BY <1>0, <2>1, <2>2, <2>5, <2>8
  <2> QED
    BY <2>4, <2>7, <2>8, <2>11, <2>12 DEF Alike
<1> QED
  BY <1>1, <1>2

(* A text read after k turns: it goes on and is k bytes further, it is     *)
(* answered, or it came short.                                             *)
Underway(x, n, r, k) ==
  /\ r = [x |-> r.x, out |-> r.out] /\ IsStream(r.x) /\ Alike(r.x, x) /\ ~r.x.quickBin
  /\ r.out \in Seq(Nat) /\ Len(r.out) <= n /\ (x.eofInd => r.x.eofInd)
  /\ \/ Len(r.out) < n /\ TakenBack(r.x) /\ r.x.start + r.x.upto >= x.start + x.upto + k
     \/ Len(r.out) = n /\ InRead(r.x) /\ r.x.ungetCh = NoChar /\ r.x.start + r.x.upto >= x.start + x.upto + 1
     \/ Len(r.out) < n /\ Short(r.x)

LEMMA TurnedOk ==
  ASSUME NEW x, IsStream(x), NEW n \in Nat, NEW k \in Nat, NEW r, Underway(x, n, r, k)
  PROVE  Underway(x, n, Turned(r, n), k + 1)
<1>0. x.start \in Int /\ x.upto \in Int /\ IsStream(r.x) /\ Len(r.out) \in Nat /\ r.x.start \in Int /\ r.x.upto \in Int
      /\ r.x.pos \in Nat /\ Len(r.x.bytes) \in Nat /\ r.x.endbuf \in Nat
  BY DEF Underway, IsStream
<1>1. CASE Len(r.out) = n
  <2>1. Turned(r, n) = r
    BY <1>1 DEF Turned
  <2> QED
    BY <1>0, <1>1, <2>1 DEF Underway
<1>2. CASE Len(r.out) < n /\ r.x.upto = r.x.endbuf /\ Got(r.x, BUFSIZ) = << >>
  <2>1. PICK y : y = [r.x EXCEPT !.eofInd = TRUE]
    OBVIOUS
  <2>2. Turned(r, n) = [r EXCEPT !.x = y]
    <3>1. Len(r.out) # n
      BY <1>0, <1>2
    <3> QED
      BY <1>2, <2>1, <3>1 DEF Turned
  <2>3. Turned(r, n) = [x |-> y, out |-> r.out]
    BY <2>2 DEF Underway
  <2>4. IsStream(y)
    BY <1>0, <2>1 DEF IsStream
  <2>5. /\ y.bytes = r.x.bytes /\ y.pos = r.x.pos /\ y.may = r.x.may /\ y.text = r.x.text /\ y.update = r.x.update
        /\ y.mode = r.x.mode /\ y.quickBin = r.x.quickBin /\ y.eofInd = TRUE /\ y.ungetCh = r.x.ungetCh
        /\ y.start = r.x.start /\ y.upto = r.x.upto /\ y.endbuf = r.x.endbuf
    BY <1>0, <2>1 DEF IsStream
  <2>6. r.x.mode = "read" /\ r.x.pos = r.x.start + r.x.endbuf /\ r.x.endbuf <= BUFSIZ /\ r.x.ungetCh = NoChar
        /\ r.x.pos <= Len(r.x.bytes)
    BY <1>0, <1>2 DEF Underway, TakenBack, InStep, Short
  <2>7. r.x.pos = Len(r.x.bytes)
    <3>1. Len(Got(r.x, BUFSIZ)) = 0
      BY <1>2
    <3>2. Len(Got(r.x, BUFSIZ)) < BUFSIZ
      BY <3>1, BUFSIZIs
    <3>3. r.x.pos + Len(Got(r.x, BUFSIZ)) = Len(r.x.bytes)
      BY <1>0, <2>6, <3>2, GotLen, BUFSIZIs
    <3> QED
      BY <1>0, <3>1, <3>3
  <2>8. Short(y)
    BY <1>2, <2>5, <2>6, <2>7 DEF Short
  <2>9. r.out \in Seq(Nat) /\ Alike(r.x, x) /\ ~r.x.quickBin
    BY DEF Underway
  <2>10. Alike(y, x) /\ ~y.quickBin
    BY <2>5, <2>9 DEF Alike
  <2>11. PICK q : q = [x |-> y, out |-> r.out]
    OBVIOUS
  <2>12. q.x = y /\ q.out = r.out /\ q = [x |-> q.x, out |-> q.out]
    BY <2>11
  <2>13. Underway(x, n, q, k + 1)
    BY <1>2, <2>4, <2>5, <2>8, <2>9, <2>10, <2>12 DEF Underway
  <2> QED
    BY <2>3, <2>11, <2>13
<1>3. CASE Len(r.out) < n /\ ~(r.x.upto = r.x.endbuf /\ Got(r.x, BUFSIZ) = << >>)
  <2>1. r.out \in Seq(Nat) /\ Alike(r.x, x) /\ ~r.x.quickBin
    BY DEF Underway
  <2>2. TakenBack(r.x) /\ r.x.start + r.x.upto >= x.start + x.upto + k
    <3>1. ASSUME Short(r.x) PROVE FALSE
      <4>1. r.x.pos = Len(r.x.bytes) /\ r.x.upto = r.x.endbuf
        BY <3>1 DEF Short
      <4>2. Len(Got(r.x, BUFSIZ)) = 0 /\ Got(r.x, BUFSIZ) \in Seq(Nat)
        BY <1>0, <4>1, GotLen, BUFSIZIs
      <4> QED
        BY <1>3, <4>1, <4>2, EmptySeq
    <3> QED
      BY <1>0, <1>3, <3>1 DEF Underway
  <2>3. PICK f : f = Full(r.x)
    OBVIOUS
  <2>4. IsStream(f) /\ TakenBack(f) /\ f.upto < f.endbuf /\ Alike(f, r.x) /\ ~f.quickBin /\ f.start + f.upto = r.x.start + r.x.upto
    BY <1>0, <1>3, <2>1, <2>2, <2>3, FullOk
  <2>5. PICK q : q = Scan(f, n, r.out)
    OBVIOUS
  <2>6. Turned(r, n) = q
    <3>1. Len(r.out) # n
      BY <1>0, <1>3
    <3> QED
      BY <1>3, <2>3, <2>5, <3>1 DEF Turned, Full
  <2>7. /\ q = [x |-> q.x, out |-> q.out] /\ q.out \in Seq(Nat) /\ Len(q.out) <= n
        /\ \E u \in Int : f.upto < u /\ u <= f.endbuf /\ q.x = [f EXCEPT !.upto = u]
    <3>1. Scanned(f, n, q)
      BY <1>3, <2>1, <2>4, <2>5, ScanOk
    <3> QED
      BY <3>1 DEF Scanned
  <2>8. PICK u \in Int : f.upto < u /\ u <= f.endbuf /\ q.x = [f EXCEPT !.upto = u]
    BY <2>7
  <2>9. /\ IsStream(q.x) /\ InRead(q.x) /\ TakenBack(q.x) /\ Alike(q.x, f) /\ q.x.ungetCh = NoChar /\ q.x.quickBin = f.quickBin
        /\ q.x.start = f.start /\ q.x.upto = u
    BY <2>4, <2>8, MovedOn
  <2>10. Alike(q.x, x) /\ ~q.x.quickBin
    BY <2>1, <2>4, <2>9 DEF Alike
  <2>11. f.start \in Int /\ f.upto \in Int /\ Len(q.out) \in Nat
    BY <2>4, <2>7 DEF IsStream
  <2>12. q.x.start + q.x.upto >= x.start + x.upto + (k + 1) /\ q.x.start + q.x.upto >= x.start + x.upto + 1
    <3>1. q.x.start + q.x.upto = f.start + u /\ u \in Int /\ u >= f.upto + 1
      BY <2>8, <2>9, <2>11
    <3>2. f.start + f.upto >= x.start + x.upto + k
      BY <2>2, <2>4
    <3>3. q.x.start + q.x.upto >= f.start + f.upto + 1
      BY <2>11, <3>1
    <3>4. PICK v \in Int, w \in Int, z \in Int : v = f.start + f.upto /\ w = x.start + x.upto /\ z = q.x.start + q.x.upto
      <4>0. x.start \in Int /\ x.upto \in Int
        BY <1>0
      <4>2. q.x.start + q.x.upto = f.start + u /\ u \in Int /\ f.start \in Int /\ f.upto \in Int
        BY <2>11, <3>1
      <4>1. f.start + f.upto \in Int /\ x.start + x.upto \in Int /\ q.x.start + q.x.upto \in Int
        BY <4>0, <4>2
      <4> QED
        BY <4>1
    <3>5. z >= v + 1 /\ v >= w + k
      BY <3>2, <3>3, <3>4
    <3>6. z >= w + (k + 1) /\ z >= w + 1
      BY <3>4, <3>5
    <3> QED
      BY <3>4, <3>6
  <2>13. ~x.eofInd
    BY <2>2 DEF Underway, TakenBack
  <2> QED
    BY <2>6, <2>7, <2>9, <2>10, <2>11, <2>12, <2>13 DEF Underway
<1> QED
  BY <1>0, <1>1, <1>2, <1>3 DEF Underway

(* The turns of a text read.                                               *)
TurnRun(x, n, m, A) ==
  A = [k \in 0 .. m |-> IF k = 0 THEN [x |-> x, out |-> << >>] ELSE Turned(A[k - 1], n)]

TurnSteps(x, n, m, A) ==
  A[0] = [x |-> x, out |-> << >>] /\ \A k \in 1 .. m : A[k] = Turned(A[k - 1], n)

LEMMA TurnRunIs ==
  ASSUME NEW x, NEW n, NEW m \in Nat, NEW A, TurnRun(x, n, m, A)
  PROVE  TurnSteps(x, n, m, A)
<1>1. A = [k \in 0 .. m |-> IF k = 0 THEN [x |-> x, out |-> << >>] ELSE Turned(A[k - 1], n)]
  BY DEF TurnRun
<1> QED
  BY <1>1 DEF TurnSteps

LEMMA TurnRunThere ==
  ASSUME NEW x, NEW n, NEW m \in Nat
  PROVE  \E A : TurnRun(x, n, m, A)
<1> DEFINE o == [x |-> x, out |-> << >>]
           N == {i \in Nat : \E A : TurnRun(x, n, i, A)}
<1>1. 0 \in N
  <2> DEFINE A == [k \in 0 .. 0 |-> o]
  <2>1. A = [k \in 0 .. 0 |-> IF k = 0 THEN o ELSE Turned(A[k - 1], n)]
    <3> HIDE DEF o
    <3> QED
      OBVIOUS
  <2>2. TurnRun(x, n, 0, A)
    BY <2>1 DEF TurnRun
  <2> QED
    BY <2>2
<1>2. ASSUME NEW i \in Nat, i \in N PROVE i + 1 \in N
  <2>1. PICK A : TurnRun(x, n, i, A)
    BY <1>2
  <2> DEFINE B == [k \in 0 .. i + 1 |-> IF k = i + 1 THEN Turned(A[i], n) ELSE A[k]]
  <2>2. ASSUME NEW k \in 0 .. i + 1
        PROVE  B[k] = IF k = 0 THEN o ELSE Turned(B[k - 1], n)
    <3>1. A[0] = o /\ \A j \in 1 .. i : A[j] = Turned(A[j - 1], n)
      BY <2>1, TurnRunIs DEF TurnSteps
    <3> HIDE DEF o
    <3>2. CASE k = 0
      BY <3>1, <3>2
    <3>3. CASE k = i + 1
      <4>1. k # 0 /\ k - 1 = i /\ i \in 0 .. i + 1 /\ i # i + 1
        BY <3>3
      <4> QED
        BY <3>3, <4>1
    <3>4. CASE k \in 1 .. i
      <4>1. k - 1 \in 0 .. i + 1 /\ k - 1 # i + 1 /\ k # i + 1 /\ k # 0
        BY <3>4
      <4> QED
        BY <3>1, <3>4, <4>1
    <3> QED
      BY <3>2, <3>3, <3>4
  <2>3. B = [k \in 0 .. i + 1 |-> IF k = 0 THEN o ELSE Turned(B[k - 1], n)]
    <3>1. B = [k \in 0 .. i + 1 |-> B[k]]
      OBVIOUS
    <3> HIDE DEF B, o
    <3> QED
      BY <2>2, <3>1
  <2>4. TurnRun(x, n, i + 1, B)
    <3> HIDE DEF B
    <3> QED
      BY <2>3 DEF TurnRun
  <2> QED
    BY <2>4
<1> QED
  <2> HIDE DEF N
  <2>1. m \in N
    BY <1>1, <1>2, SetInduction
  <2> QED
    BY <2>1 DEF N

LEMMA FreadSlowTIs ==
  ASSUME NEW x, NEW m \in Nat, m = Len(x.bytes) + 1, NEW n
  PROVE  \E A : TurnSteps(x, n, m, A) /\ freadSlowT(x, n) = A[m]
<1> DEFINE round == CHOOSE A : TurnRun(x, n, m, A)
<1>1. TurnRun(x, n, m, round)
  <2> HIDE DEF TurnRun
  <2> QED
    BY TurnRunThere
<1>2. freadSlowT(x, n) = round[m]
  BY DEF freadSlowT, TurnRun
<1> HIDE DEF round
<1>3. TurnSteps(x, n, m, round)
  BY <1>1, TurnRunIs
<1> QED
  BY <1>2, <1>3

(* Every turn gets on, so that as many turns as the file has bytes, and    *)
(* one, are enough.                                                        *)
LEMMA FreadSlowT ==
  ASSUME NEW x, IsStream(x), NEW n \in Nat, n >= 1, TakenBack(x) \/ Short(x), ~x.quickBin
  PROVE  Answered(x, n, freadSlowT(x, n)) /\ (x.eofInd => Len(freadSlowT(x, n).out) < n)
<1>0. Len(x.bytes) \in Nat /\ x.start \in Int /\ x.upto \in Int
  BY DEF IsStream
<1>1. PICK m \in Nat : m = Len(x.bytes) + 1
  BY <1>0
<1>2. PICK round : TurnSteps(x, n, m, round) /\ freadSlowT(x, n) = round[m]
  BY <1>1, FreadSlowTIs
<1>a. PICK r : r = round[m]
  OBVIOUS
<1>3. round[0] = [x |-> x, out |-> << >>] /\ \A k \in 1 .. m : round[k] = Turned(round[k - 1], n)
  BY <1>2 DEF TurnSteps
<1> DEFINE N == {k \in Nat : k <= m => Underway(x, n, round[k], k)}
<1>4. 0 \in N
  <2>1. PICK q : q = [x |-> x, out |-> << >>]
    OBVIOUS
  <2>2. q.x = x /\ q.out = << >> /\ q = [x |-> q.x, out |-> q.out]
    BY <2>1
  <2>3. Len(q.out) = 0 /\ q.out \in Seq(Nat)
    BY <2>2
  <2>4. Underway(x, n, q, 0)
    BY <1>0, <2>2, <2>3 DEF Underway, Alike
  <2> QED
    BY <1>3, <2>1, <2>4
<1>5. ASSUME NEW k \in Nat, k \in N PROVE k + 1 \in N
  <2> SUFFICES ASSUME k + 1 <= m PROVE Underway(x, n, round[k + 1], k + 1)
    OBVIOUS
  <2>1. k <= m /\ k + 1 \in 1 .. m /\ (k + 1) - 1 = k
    BY <1>1
  <2>2. Underway(x, n, round[k], k)
    BY <1>5, <2>1
  <2>3. round[k + 1] = Turned(round[k], n)
    BY <1>3, <2>1
  <2> QED
    BY <2>2, <2>3, TurnedOk
<1>6. Underway(x, n, r, m)
  <2> HIDE DEF N
  <2>1. m \in N
    BY <1>1, <1>4, <1>5, SetInduction
  <2> QED
    BY <1>1, <1>a, <2>1 DEF N
<1>7. ~(Len(r.out) < n /\ TakenBack(r.x) /\ r.x.start + r.x.upto >= x.start + x.upto + m)
  <2> SUFFICES ASSUME TakenBack(r.x), r.x.start + r.x.upto >= x.start + x.upto + m PROVE FALSE
    OBVIOUS
  <2>1. r.x.start \in Int /\ r.x.upto \in Int /\ r.x.endbuf \in Nat /\ r.x.pos \in Nat
    BY <1>6 DEF Underway, IsStream
  <2>2. r.x.bytes = x.bytes
    BY <1>6 DEF Underway, Alike
  <2>3. r.x.start + r.x.upto <= Len(x.bytes)
    BY <1>0, <2>1, <2>2 DEF TakenBack, InStep
  <2>4. x.start + x.upto >= 0
    BY <1>0 DEF TakenBack, InStep, Short, IsStream
  <2> QED
    BY <1>0, <1>1, <2>1, <2>3, <2>4
<1>8. Len(r.out) \in Nat
  BY <1>6 DEF Underway
<1>9. Answered(x, n, r)
  BY <1>6, <1>7, <1>8 DEF Underway, Answered
<1>10. x.eofInd => Len(r.out) < n
  BY <1>6, <1>8 DEF Underway, InRead
<1> QED
  BY <1>2, <1>a, <1>9, <1>10


(* A stream that writes: the system's place is the start of the buffer,    *)
(* and up to upto it holds what was put.                                   *)
InWrite(x) ==
  /\ x.mode = "write" /\ x.pos = x.start /\ x.pos <= Len(x.bytes) /\ x.endbuf = BUFSIZ /\ x.upto \in 0 .. BUFSIZ
  /\ \A i \in 1 .. x.upto : x.buf[i] # Junk
  /\ x.quickBin => x.upto = 0
  /\ x.ungetCh = NoChar /\ ~x.eofInd

(* After a read came short, whichever it was.                              *)
PastRead(x) ==
  /\ x.mode = "read" /\ x.pos = Len(x.bytes) /\ x.ungetCh = NoChar /\ x.endbuf <= BUFSIZ
  /\ x.start + x.endbuf >= x.pos /\ x.upto = x.endbuf /\ x.eofInd /\ (x.text => x.start + x.endbuf = x.pos)

(* What fread leaves.                                                      *)
ReadOk(x, n, r) ==
  /\ IsStream(r.x) /\ Alike(r.x, x) /\ (x.text => ~r.x.quickBin)
  /\ Len(r.out) \in Nat /\ Len(r.out) <= n
  /\ Len(r.out) = n => /\ InRead(r.x) /\ r.x.ungetCh = NoChar /\ r.x.start + r.x.upto >= 1
                       /\ x.mode = "read" /\ x.ungetCh = NoChar => r.x.start + r.x.upto >= x.start + x.upto + 1
  /\ Len(r.out) < n => Short(r.x)

LEMMA QuickOk ==
  ASSUME NEW x, IsStream(x), NEW q \in BOOLEAN, q => x.quickBin, InRead(x) \/ InWrite(x)
  PROVE  LET y == [x EXCEPT !.quickBin = q]
         IN  /\ IsStream(y) /\ Alike(y, x) /\ (InRead(x) => InRead(y)) /\ (InWrite(x) => InWrite(y)) /\ y.quickBin = q
             /\ y.ungetCh = x.ungetCh /\ y.start = x.start /\ y.upto = x.upto /\ y.justseeked = x.justseeked
             /\ y.mode = x.mode /\ y.endbuf = x.endbuf
<1> DEFINE y == [x EXCEPT !.quickBin = q]
<1>1. IsStream(y)
  BY DEF IsStream
<1>2. /\ y.bytes = x.bytes /\ y.pos = x.pos /\ y.may = x.may /\ y.text = x.text /\ y.update = x.update /\ y.mode = x.mode
      /\ y.quickBin = q /\ y.eofInd = x.eofInd /\ y.ungetCh = x.ungetCh /\ y.buf = x.buf
      /\ y.start = x.start /\ y.upto = x.upto /\ y.endbuf = x.endbuf /\ y.justseeked = x.justseeked
  BY DEF IsStream
<1> HIDE DEF y
<1>3. InRead(x) => InRead(y)
  BY <1>2 DEF InRead, InStep, Right
<1>4. InWrite(x) => InWrite(y)
  BY <1>2 DEF InWrite
<1> QED
  BY <1>1, <1>2, <1>3, <1>4 DEF Alike, y

(* fseek lies between writing and reading: nothing waits.                  *)
LEMMA SeekedToRead ==
  ASSUME NEW x, IsStream(x), InWrite(x), x.justseeked
  PROVE  /\ IsStream(ToRead(x)) /\ TakenBack(ToRead(x)) /\ Alike(ToRead(x), x) /\ ToRead(x).start + ToRead(x).upto >= 0
         /\ ToRead(x).quickBin = x.quickBin
<1>1. /\ x.pos \in Nat /\ x.start \in Int /\ x.endbuf \in Nat /\ x.endbuf = BUFSIZ /\ x.pos = x.start /\ x.pos <= Len(x.bytes)
      /\ x.ungetCh = NoChar /\ ~x.eofInd /\ x.mode = "write"
  BY DEF InWrite, IsStream
<1>2. PICK a \in Int, u \in Int : a = x.start - x.endbuf /\ u = x.endbuf
  BY <1>1
<1>3. PICK y : y = ToRead(x)
  OBVIOUS
<1>4. y = [x EXCEPT !.justseeked = FALSE, !.mode = "read", !.start = a, !.upto = u]
  BY <1>1, <1>2, <1>3 DEF ToRead
<1>5. IsStream(y)
  BY <1>2, <1>4 DEF IsStream
<1>6. /\ y.bytes = x.bytes /\ y.pos = x.pos /\ y.may = x.may /\ y.text = x.text /\ y.update = x.update /\ y.mode = "read"
      /\ y.quickBin = x.quickBin /\ y.eofInd = x.eofInd /\ y.ungetCh = x.ungetCh
      /\ y.start = a /\ y.upto = u /\ y.endbuf = x.endbuf
  BY <1>4 DEF IsStream
<1>7. /\ y.pos = y.start + y.endbuf /\ y.pos <= Len(y.bytes) /\ y.endbuf <= BUFSIZ /\ y.upto = y.endbuf /\ y.start + y.upto >= 0
      /\ y.upto >= -1 /\ ~y.eofInd /\ y.ungetCh = NoChar /\ y.upto \in Int
  BY <1>1, <1>2, <1>6, BUFSIZIs
<1>8. y.upto + 1 .. y.endbuf = {} /\ ~(y.upto < y.endbuf - 1) /\ y.upto <= y.endbuf
  BY <1>7
<1>9. InStep(y)
  BY <1>6, <1>7, <1>8 DEF InStep
<1>10. TakenBack(y)
  BY <1>7, <1>8, <1>9 DEF TakenBack
<1> QED
  BY <1>3, <1>5, <1>6, <1>7, <1>10 DEF Alike

(* A read around the buffer.                                               *)
Around(x, n) ==
  [x |-> [iread(x, n) EXCEPT !.eofInd = @ \/ Len(Got(x, n)) < n, !.start = @ + Len(Got(x, n))], out |-> Got(x, n)]

LEMMA QuickRead ==
  ASSUME NEW x, IsStream(x), NEW n \in Nat, n >= 1, x.quickBin, x.upto = x.endbuf, x.ungetCh = NoChar, x.mode = "read",
         x.pos <= Len(x.bytes), x.endbuf <= BUFSIZ, NEW r, r = Around(x, n)
  PROVE  /\ IsStream(r.x) /\ Alike(r.x, x) /\ Len(r.out) \in Nat /\ Len(r.out) <= n
         /\ Len(r.out) = n /\ ~x.eofInd /\ x.pos = x.start + x.endbuf =>
              InRead(r.x) /\ r.x.ungetCh = NoChar /\ r.x.start + r.x.upto >= x.start + x.upto + 1
         /\ Len(r.out) < n /\ x.pos = x.start + x.endbuf => Short(r.x)
         /\ PastRead(x) /\ ~x.text => PastRead(r.x) /\ Len(r.out) < n
<1> DEFINE in == Got(x, n)
<1>0. /\ x.pos \in Nat /\ Len(x.bytes) \in Nat /\ x.start \in Int /\ x.endbuf \in Nat
  BY DEF IsStream
<1>1. in \in Seq(Nat) /\ Len(in) \in Nat /\ Len(in) <= n /\ x.pos + Len(in) <= Len(x.bytes)
      /\ (Len(in) < n => x.pos + Len(in) = Len(x.bytes))
  BY GotLen
<1>2. PICK p \in Nat, a \in Int : p = x.pos + Len(in) /\ a = x.start + Len(in)
  <2> HIDE DEF in
  <2> QED
    BY <1>0, <1>1
<1> DEFINE f == x.eofInd \/ Len(in) < n
<1>3. f \in BOOLEAN
  OBVIOUS
<1>4. PICK z : z = r.x
  OBVIOUS
<1>5. z = [x EXCEPT !.pos = p, !.eofInd = f, !.start = a]
  <2>1. iread(x, n) = [x EXCEPT !.pos = p]
    BY <1>2 DEF iread
  <2>2. z = [iread(x, n) EXCEPT !.eofInd = @ \/ Len(in) < n, !.start = @ + Len(in)]
    BY <1>4 DEF Around
  <2>3. [[x EXCEPT !.pos = p] EXCEPT !.eofInd = @ \/ Len(in) < n, !.start = @ + Len(in)]
        = [x EXCEPT !.pos = p, !.eofInd = f, !.start = x.start + Len(in)]
    <3> HIDE DEF in
    <3> QED
      BY DEF IsStream
  <2> QED
    BY <1>2, <2>1, <2>2, <2>3
<1>6. r.out = in
  BY DEF Around
<1> HIDE DEF f, in
<1>7. IsStream(z)
  BY <1>2, <1>3, <1>5 DEF IsStream
<1>8. /\ z.bytes = x.bytes /\ z.pos = p /\ z.may = x.may /\ z.text = x.text /\ z.update = x.update /\ z.mode = x.mode
      /\ z.quickBin = x.quickBin /\ z.eofInd = f /\ z.ungetCh = x.ungetCh /\ z.upto = x.upto /\ z.endbuf = x.endbuf /\ z.start = a
  BY <1>5 DEF IsStream
<1>9. Alike(z, x)
  BY <1>8 DEF Alike
<1>10. z.upto + 1 .. z.endbuf = {} /\ z.upto >= 0 /\ z.upto <= z.endbuf /\ z.upto = z.endbuf /\ z.endbuf <= BUFSIZ
       /\ z.ungetCh = NoChar /\ z.mode = "read"
  BY <1>0, <1>8
<1>11. ASSUME Len(in) = n, ~x.eofInd, x.pos = x.start + x.endbuf
       PROVE  InRead(z) /\ z.start + z.upto >= x.start + x.upto + 1
  <2>1. z.pos = z.start + z.endbuf /\ z.pos <= Len(z.bytes) /\ z.start + z.upto >= 0 /\ z.start + z.upto >= x.start + x.upto + 1
    BY <1>0, <1>1, <1>2, <1>8, <1>11
  <2>2. ~z.eofInd
    <3>1. ~(Len(in) < n)
      BY <1>1, <1>11
    <3>2. ~f
      BY <1>11, <3>1 DEF f
    <3> QED
      BY <1>8, <3>2
  <2>3. InStep(z)
    BY <1>10, <2>1 DEF InStep
  <2> QED
    BY <1>10, <2>1, <2>2, <2>3 DEF InRead
<1>12. ASSUME Len(in) < n, x.pos = x.start + x.endbuf
       PROVE  Short(z)
  <2>1. z.pos = z.start + z.endbuf /\ z.pos = Len(z.bytes)
    BY <1>0, <1>1, <1>2, <1>8, <1>12
  <2>2. z.eofInd
    BY <1>8, <1>12 DEF f
  <2> QED
    BY <1>10, <2>1, <2>2 DEF Short
<1>13. ASSUME PastRead(x), ~x.text PROVE PastRead(z) /\ Len(in) < n
  <2>1. x.pos = Len(x.bytes) /\ x.start + x.endbuf >= x.pos /\ x.eofInd
    BY <1>13 DEF PastRead
  <2>2. Len(in) = 0
    BY <1>0, <1>1, <2>1
  <2>3. z.pos = Len(z.bytes) /\ z.start + z.endbuf >= z.pos
    BY <1>0, <1>2, <1>8, <2>1, <2>2
  <2>4. z.eofInd
    BY <1>8, <2>1 DEF f
  <2>5. ~z.text
    BY <1>8, <1>13
  <2> QED
    BY <1>10, <2>2, <2>3, <2>4, <2>5 DEF PastRead
<1> QED
  BY <1>1, <1>4, <1>6, <1>7, <1>9, <1>10, <1>11, <1>12, <1>13

LEMMA FreadOk ==
  ASSUME NEW x, IsStream(x), NEW n \in Nat, n >= 1, x.text => ~x.quickBin,
         InRead(x) \/ (InWrite(x) /\ x.justseeked /\ ~x.quickBin)
  PROVE  ReadOk(x, n, fread(x, n))
<1> DEFINE q == x.quickBin /\ n >= BUFSIZ
           w == [x EXCEPT !.quickBin = q]
           y == TakeBack(w)
           z == ToRead(y)
<1>0. q \in BOOLEAN /\ (q => x.quickBin)
  BY DEF IsStream
<1>1. /\ IsStream(w) /\ Alike(w, x) /\ (InRead(x) => InRead(w)) /\ (InWrite(x) => InWrite(w)) /\ w.quickBin = q
      /\ w.ungetCh = x.ungetCh /\ w.start = x.start /\ w.upto = x.upto /\ w.justseeked = x.justseeked /\ w.mode = x.mode
  <2> HIDE DEF q
  <2>1. InRead(x) \/ InWrite(x)
    OBVIOUS
  <2>2. LET v == [x EXCEPT !.quickBin = q]
        IN  /\ IsStream(v) /\ Alike(v, x) /\ (InRead(x) => InRead(v)) /\ (InWrite(x) => InWrite(v)) /\ v.quickBin = q
             /\ v.ungetCh = x.ungetCh /\ v.start = x.start /\ v.upto = x.upto /\ v.justseeked = x.justseeked
             /\ v.mode = x.mode /\ v.endbuf = x.endbuf
    BY <1>0, <2>1, QuickOk
  <2> QED
    BY <2>2
<1>2. fread(x, n) =
        LET in == Got(y, n)
        IN IF y.quickBin
           THEN [x |-> [iread(y, n) EXCEPT !.eofInd = @ \/ Len(in) < n, !.start = @ + Len(in)], out |-> in]
           ELSE IF z.text THEN freadSlowT(z, n)
           ELSE IF n <= Len(Held(z)) THEN [x |-> [z EXCEPT !.upto = @ + n], out |-> Part(z, z.upto, z.upto + n)]
           ELSE freadSlowB(z, n)
  <2>1. w = [x EXCEPT !.quickBin = @ /\ n >= BUFSIZ]
    BY DEF IsStream
  <2> HIDE DEF w
  <2> QED
    BY <2>1 DEF fread
<1> HIDE DEF w, q
<1>3. /\ IsStream(z) /\ Alike(z, x) /\ TakenBack(z) /\ z.start + z.upto >= 0 /\ y.quickBin = z.quickBin /\ (x.text => ~z.quickBin)
      /\ (x.mode = "read" /\ x.ungetCh = NoChar => z.start + z.upto = x.start + x.upto)
  <2>1. CASE InRead(x)
    <3>1. IsStream(y) /\ TakenBack(y)
      BY <1>1, <2>1, TakeBackOk
    <3>2. Alike(y, w) /\ y.quickBin = w.quickBin /\ (w.ungetCh = NoChar => y = w)
      <4>1. CASE w.ungetCh = NoChar
        BY <4>1 DEF TakeBack, Alike
      <4>2. CASE w.ungetCh # NoChar
        BY <1>1, <4>2 DEF TakeBack, Alike, IsStream
      <4> QED
        BY <4>1, <4>2
    <3> HIDE DEF y
    <3>3. /\ IsStream(z) /\ TakenBack(z) /\ Alike(z, y) /\ z.quickBin = y.quickBin /\ z.start = y.start /\ z.upto = y.upto
      BY <3>1, ToReadOk
    <3>4. z.start + z.upto >= 0
      BY <3>3 DEF TakenBack, InStep
    <3> HIDE DEF z
    <3> QED
      BY <1>0, <1>1, <3>2, <3>3, <3>4 DEF Alike
  <2>2. CASE InWrite(x) /\ x.justseeked /\ ~x.quickBin
    <3>1. y = w
      BY <1>1, <2>2 DEF TakeBack, InWrite
    <3> HIDE DEF y
    <3>2. /\ IsStream(z) /\ TakenBack(z) /\ Alike(z, w) /\ z.start + z.upto >= 0 /\ z.quickBin = w.quickBin
      BY <1>1, <2>2, <3>1, SeekedToRead
    <3>3. x.mode # "read"
      BY <2>2 DEF InWrite
    <3> HIDE DEF z
    <3> QED
      BY <1>0, <1>1, <2>2, <3>1, <3>2, <3>3 DEF Alike
  <2> QED
    BY <2>1, <2>2
<1>4. CASE y.quickBin
  <2>1. InRead(x) /\ x.quickBin /\ ~x.text
    BY <1>0, <1>1, <1>3, <1>4 DEF TakeBack, InWrite
  <2>2. w.ungetCh = NoChar
    BY <1>0, <1>1, <1>3, <1>4, <2>1 DEF InRead
  <2>3. y = w
    BY <2>2 DEF TakeBack
  <2>4. PICK r : r = fread(x, n)
    OBVIOUS
  <2>5. r = Around(w, n)
    BY <1>2, <1>4, <2>3, <2>4 DEF Around
  <2>6. /\ w.quickBin /\ w.upto = w.endbuf /\ w.mode = "read" /\ w.pos <= Len(w.bytes) /\ w.endbuf <= BUFSIZ
        /\ ~w.eofInd /\ w.pos = w.start + w.endbuf /\ w.start + w.upto >= 0 /\ w.start \in Int /\ w.upto \in Int
    BY <1>1, <1>4, <2>1, <2>3 DEF InRead, InStep, IsStream
  <2>7. /\ IsStream(r.x) /\ Alike(r.x, w) /\ Len(r.out) \in Nat /\ Len(r.out) <= n
        /\ (Len(r.out) = n => InRead(r.x) /\ r.x.ungetCh = NoChar /\ r.x.start + r.x.upto >= w.start + w.upto + 1)
        /\ (Len(r.out) < n => Short(r.x))
    <3>1. IsStream(w) /\ w.ungetCh = NoChar
      BY <1>1, <2>2
    <3>2. /\ IsStream(r.x) /\ Alike(r.x, w) /\ Len(r.out) \in Nat /\ Len(r.out) <= n
          /\ Len(r.out) = n /\ ~w.eofInd /\ w.pos = w.start + w.endbuf =>
               InRead(r.x) /\ r.x.ungetCh = NoChar /\ r.x.start + r.x.upto >= w.start + w.upto + 1
          /\ Len(r.out) < n /\ w.pos = w.start + w.endbuf => Short(r.x)
      BY <2>5, <2>6, <3>1, QuickRead
    <3> QED
      BY <2>6, <3>2
  <2>8. r.x.start \in Int /\ r.x.upto \in Int
    BY <2>7 DEF IsStream
  <2>9. Len(r.out) = n => r.x.start + r.x.upto >= 1 /\ r.x.start + r.x.upto >= x.start + x.upto + 1
    BY <1>1, <2>6, <2>7, <2>8
  <2>10. Alike(r.x, x)
    BY <1>1, <2>7 DEF Alike
  <2> QED
    BY <2>1, <2>4, <2>7, <2>9, <2>10 DEF ReadOk
<1>5. CASE ~y.quickBin
  <2>1. ~z.quickBin /\ z.upto \in Int /\ z.start \in Int /\ z.endbuf \in Nat /\ z.upto <= z.endbuf /\ z.upto >= -1 /\ z.endbuf <= BUFSIZ
    BY <1>3, <1>5 DEF TakenBack, InStep, IsStream
  <2>2. PICK r : r = fread(x, n)
    OBVIOUS
  <2>3. Answered(z, n, r)
    <3>1. CASE z.text
      <4>1. r = freadSlowT(z, n)
        BY <1>2, <1>5, <2>2, <3>1
      <4> QED
        BY <1>3, <2>1, <4>1, FreadSlowT
    <3>2. CASE ~z.text /\ n <= Len(Held(z))
      <4>1. r = [x |-> [z EXCEPT !.upto = @ + n], out |-> Part(z, z.upto, z.upto + n)]
        BY <1>2, <1>5, <2>2, <3>2
      <4> HIDE DEF z
      <4>2. Len(Held(z)) = IF z.upto <= z.endbuf THEN z.endbuf - z.upto ELSE 0
        BY <1>3, <2>1, PartIs DEF Held
      <4>3. PICK u \in Int : u = z.upto + n /\ z.upto < u /\ u <= z.endbuf
        BY <2>1, <3>2, <4>2
      <4>4. LET v == [z EXCEPT !.upto = u]
            IN  /\ IsStream(v) /\ InRead(v) /\ TakenBack(v) /\ Alike(v, z) /\ v.ungetCh = NoChar /\ v.quickBin = z.quickBin
                /\ v.start = z.start /\ v.upto = u
        BY <1>3, <4>3, MovedOn
      <4>5. r.x = [z EXCEPT !.upto = u] /\ r.out = Part(z, z.upto, u)
        BY <4>1, <4>3
      <4>6. Len(Part(z, z.upto, u)) = IF z.upto <= u THEN u - z.upto ELSE 0
        <5>1. u <= BUFSIZ
          BY <2>1, <4>3, BUFSIZIs
        <5>2. IsStream(z) /\ z.upto \in Int /\ z.upto >= -1
          BY <1>3, <2>1
        <5> QED
          BY <5>1, <5>2, PartIs
      <4>7. Len(r.out) = n
        BY <2>1, <4>3, <4>5, <4>6
      <4>8. r.x.start + r.x.upto >= z.start + z.upto + 1
        BY <2>1, <4>3, <4>4, <4>5
      <4> QED
        BY <2>1, <4>4, <4>5, <4>7, <4>8 DEF Answered
    <3>3. CASE ~z.text /\ ~(n <= Len(Held(z)))
      <4>1. r = freadSlowB(z, n)
        BY <1>2, <1>5, <2>2, <3>3
      <4> HIDE DEF z
      <4>2. Len(Held(z)) \in Nat
        BY <1>3, <2>1, PartIs DEF Held
      <4>3. n > Len(Held(z))
        BY <3>3, <4>2
      <4> QED
        BY <1>3, <2>1, <3>3, <4>1, <4>3, FreadSlowB
    <3> QED
      BY <3>1, <3>2, <3>3
  <2> HIDE DEF z
  <2>4. IsStream(r.x) /\ r.x.start \in Int /\ r.x.upto \in Int
    BY <2>3 DEF Answered, IsStream
  <2>5. Len(r.out) = n => r.x.start + r.x.upto >= 1 /\ (x.mode = "read" /\ x.ungetCh = NoChar => r.x.start + r.x.upto >= x.start + x.upto + 1)
    <3>1. Len(r.out) = n => r.x.start + r.x.upto >= z.start + z.upto + 1
      BY <2>3 DEF Answered
    <3>2. z.start + z.upto >= 0
      BY <1>3
    <3>3. Len(r.out) = n => r.x.start + r.x.upto >= 1
      BY <2>1, <2>4, <3>1, <3>2
    <3> QED
      BY <1>3, <3>1, <3>3
  <2>6. Alike(r.x, x) /\ (x.text => ~r.x.quickBin)
    BY <1>3, <2>1, <2>3 DEF Answered, Alike
  <2> QED
    BY <2>2, <2>3, <2>5, <2>6 DEF Answered, ReadOk
<1> QED
  BY <1>4, <1>5


LEMMA ShortIsPast ==
  ASSUME NEW x, Short(x), IsStream(x)
  PROVE  PastRead(x)
BY DEF Short, PastRead, IsStream

LEMMA FreadPast ==
  ASSUME NEW x, IsStream(x), NEW n \in Nat, n >= 1, x.text => ~x.quickBin, PastRead(x), NEW r, r = fread(x, n)
  PROVE  /\ IsStream(r.x) /\ Alike(r.x, x) /\ (r.x.text => ~r.x.quickBin) /\ PastRead(r.x)
         /\ Len(r.out) \in Nat /\ Len(r.out) < n
<1> DEFINE q == x.quickBin /\ n >= BUFSIZ
           w == [x EXCEPT !.quickBin = q]
           z == [w EXCEPT !.justseeked = FALSE]
<1>0. q \in BOOLEAN /\ (q => x.quickBin)
  BY DEF IsStream
<1>1. w = [x EXCEPT !.quickBin = @ /\ n >= BUFSIZ]
  BY DEF IsStream
<1> HIDE DEF q
<1>2. IsStream(w)
  BY <1>0 DEF IsStream
<1>3. /\ w.bytes = x.bytes /\ w.pos = x.pos /\ w.may = x.may /\ w.text = x.text /\ w.update = x.update /\ w.mode = x.mode
      /\ w.quickBin = q /\ w.eofInd = x.eofInd /\ w.ungetCh = x.ungetCh
      /\ w.start = x.start /\ w.upto = x.upto /\ w.endbuf = x.endbuf
  BY DEF IsStream
<1> HIDE DEF w
<1>4. IsStream(z)
  BY <1>2 DEF IsStream
<1>5. /\ z.bytes = x.bytes /\ z.pos = x.pos /\ z.may = x.may /\ z.text = x.text /\ z.update = x.update /\ z.mode = x.mode
      /\ z.quickBin = q /\ z.eofInd = x.eofInd /\ z.ungetCh = x.ungetCh
      /\ z.start = x.start /\ z.upto = x.upto /\ z.endbuf = x.endbuf
  BY <1>2, <1>3 DEF IsStream
<1>6. PastRead(w) /\ PastRead(z)
  BY <1>3, <1>5 DEF PastRead
<1>7. TakeBack(w) = w
  BY <1>6 DEF TakeBack, PastRead
<1>8. ToRead(w) = z
  BY <1>6 DEF ToRead, PastRead
<1> HIDE DEF z
<1>9. r = LET in == Got(w, n)
        IN IF w.quickBin
           THEN [x |-> [iread(w, n) EXCEPT !.eofInd = @ \/ Len(in) < n, !.start = @ + Len(in)], out |-> in]
           ELSE IF z.text THEN freadSlowT(z, n)
           ELSE IF n <= Len(Held(z)) THEN [x |-> [z EXCEPT !.upto = @ + n], out |-> Part(z, z.upto, z.upto + n)]
           ELSE freadSlowB(z, n)
  BY <1>1, <1>7, <1>8 DEF fread
<1>10. CASE w.quickBin
  <2>1. r = Around(w, n)
    BY <1>9, <1>10 DEF Around
  <2>2. w.upto = w.endbuf /\ w.ungetCh = NoChar /\ w.mode = "read" /\ w.pos <= Len(w.bytes) /\ w.endbuf <= BUFSIZ
    BY <1>2, <1>6 DEF PastRead, IsStream
  <2>3. ~w.text
    BY <1>0, <1>3, <1>10
  <2>4. IsStream(r.x) /\ Alike(r.x, w) /\ Len(r.out) \in Nat /\ (PastRead(w) /\ ~w.text => PastRead(r.x) /\ Len(r.out) < n)
    BY <1>2, <1>10, <2>1, <2>2, QuickRead
  <2>5. ~r.x.text /\ Alike(r.x, x)
    BY <1>3, <2>3, <2>4 DEF Alike
  <2> QED
    BY <1>6, <2>3, <2>4, <2>5
<1>11. CASE ~w.quickBin /\ z.text
  <2>1. r = freadSlowT(z, n)
    BY <1>9, <1>11
  <2>2. Short(z)
    BY <1>6, <1>11 DEF Short, PastRead
  <2>3. ~z.quickBin /\ z.eofInd
    BY <1>3, <1>5, <1>6, <1>11 DEF PastRead
  <2>4. Answered(z, n, r) /\ (z.eofInd => Len(r.out) < n)
    BY <1>4, <2>1, <2>2, <2>3, FreadSlowT
  <2>5. IsStream(r.x) /\ Short(r.x) /\ Len(r.out) \in Nat /\ Len(r.out) < n
    BY <2>3, <2>4 DEF Answered
  <2>6. Alike(r.x, z) /\ ~r.x.quickBin
    BY <1>11, <2>3, <2>4 DEF Answered
  <2>7. Alike(r.x, x)
    BY <1>5, <2>6 DEF Alike
  <2> QED
    BY <2>5, <2>6, <2>7, ShortIsPast
<1>12. CASE ~w.quickBin /\ ~z.text
  <2>1. /\ z.upto \in Int /\ z.endbuf \in Nat /\ z.start \in Int /\ z.upto = z.endbuf /\ z.endbuf <= BUFSIZ /\ z.eofInd
        /\ z.pos \in Nat /\ z.start + z.endbuf >= z.pos
    BY <1>4, <1>6 DEF PastRead, IsStream
  <2>2. Len(Held(z)) = 0
    <3>0. z.upto \in Int /\ z.upto >= -1 /\ z.endbuf \in Int /\ z.endbuf <= BUFSIZ
      BY <2>1
    <3>1. Len(Part(z, z.upto, z.endbuf)) = IF z.upto <= z.endbuf THEN z.endbuf - z.upto ELSE 0
      BY <1>4, <3>0, PartIs
    <3> QED
      BY <2>1, <3>1 DEF Held
  <2>3. r = freadSlowB(z, n)
    <3>1. ~(n <= Len(Held(z)))
      BY <2>2
    <3> QED
      BY <1>9, <1>12, <3>1
  <2>4. PICK y : y = [z EXCEPT !.start = @ + z.endbuf]
    OBVIOUS
  <2>5. r = [x |-> y, out |-> Held(z)]
    BY <2>1, <2>3, <2>4 DEF freadSlowB
  <2>6. PICK a \in Int : a = z.start + z.endbuf
    BY <2>1
  <2>7. y = [z EXCEPT !.start = a]
    BY <2>4, <2>6
  <2>8. IsStream(y)
    BY <1>4, <2>6, <2>7 DEF IsStream
  <2>9. /\ y.bytes = z.bytes /\ y.pos = z.pos /\ y.may = z.may /\ y.text = z.text /\ y.update = z.update /\ y.mode = z.mode
        /\ y.eofInd = z.eofInd /\ y.ungetCh = z.ungetCh /\ y.start = a /\ y.upto = z.upto /\ y.endbuf = z.endbuf
    BY <1>4, <2>7 DEF IsStream
  <2>10. y.start + y.endbuf >= y.pos
    BY <2>1, <2>6, <2>9
  <2>11. PastRead(y) /\ ~y.text
    BY <1>6, <1>12, <2>9, <2>10 DEF PastRead
  <2>12. Alike(y, x)
    BY <1>5, <2>9 DEF Alike
  <2> QED
    BY <2>2, <2>5, <2>8, <2>11, <2>12
<1> QED
  BY <1>10, <1>11, <1>12

(***************************************************************************)
(* Writing to the file.                                                    *)
(***************************************************************************)
(* Writing changes the file and the place, not what the stream is for.     *)
SameFile(y, x) == y.may = x.may /\ y.text = x.text /\ y.update = x.update

(* A file that is written over is not cut.                                 *)
LEMMA OverIs ==
  ASSUME NEW b \in Seq(Nat), NEW i \in 0 .. Len(b), NEW data \in Seq(Nat)
  PROVE  /\ Over(b, i, data) \in Seq(Nat)
         /\ Len(Over(b, i, data)) = IF i + Len(data) <= Len(b) THEN Len(b) ELSE i + Len(data)
<1>0. Len(b) \in Nat /\ Len(data) \in Nat /\ i \in Nat /\ i <= Len(b)
  OBVIOUS
<1> DEFINE f == SubSeq(b, 1, i)
           t == SubSeq(b, i + Len(data) + 1, Len(b))
<1>1. f \in Seq(Nat) /\ Len(f) = i
  <2>1. \A k \in 1 .. i : b[k] \in Nat
    BY <1>0
  <2>2. f \in Seq(Nat) /\ Len(f) = IF 1 <= i THEN i - 1 + 1 ELSE 0
    BY <1>0, <2>1, SubSeqProperties
  <2> QED
    BY <1>0, <2>2
<1>2. t \in Seq(Nat) /\ Len(t) = IF i + Len(data) + 1 <= Len(b) THEN Len(b) - (i + Len(data) + 1) + 1 ELSE 0
  <2>1. \A k \in i + Len(data) + 1 .. Len(b) : b[k] \in Nat
    BY <1>0
  <2>2. i + Len(data) + 1 \in Int /\ Len(b) \in Int
    BY <1>0
  <2> QED
    BY <2>1, <2>2, SubSeqProperties
<1> HIDE DEF f, t
<1>3. f \o data \in Seq(Nat) /\ Len(f \o data) = i + Len(data)
  BY <1>1, ConcatProperties
<1>4. (f \o data) \o t \in Seq(Nat) /\ Len((f \o data) \o t) = i + Len(data) + Len(t)
  BY <1>2, <1>3, ConcatProperties
<1>5. Over(b, i, data) = (f \o data) \o t
  BY DEF Over, f, t
<1>6. PICK m \in Nat, d \in Nat, l \in Nat : m = Len(t) /\ d = Len(data) /\ l = Len(b)
  <2>1. t \in Seq(Nat)
    BY <1>2
  <2>2. Len(t) \in Nat
    BY <2>1
  <2> QED
    BY <1>0, <2>2
<1>7. i + d + m = IF i + d <= l THEN l ELSE i + d
  <2>1. m = IF i + d + 1 <= l THEN l - (i + d + 1) + 1 ELSE 0
    BY <1>2, <1>6
  <2>2. i \in Nat
    BY <1>0
  <2>3. CASE i + d + 1 <= l
    BY <1>6, <2>1, <2>2, <2>3
  <2>4. CASE ~(i + d + 1 <= l)
    BY <1>6, <2>1, <2>2, <2>4
  <2> QED
    BY <2>3, <2>4
<1> QED
  BY <1>4, <1>5, <1>6, <1>7

(* What goes to the file moves both the file's place and bufStartR.        *)
LEMMA IwriteOk ==
  ASSUME NEW x, IsStream(x), x.pos = x.start, x.pos <= Len(x.bytes), NEW data \in Seq(Nat), NEW y, y = iwrite(x, data)
  PROVE  /\ IsStream(y) /\ SameFile(y, x) /\ y.pos = y.start /\ y.pos <= Len(y.bytes) /\ y.pos >= x.pos
         /\ y.bytes = Over(x.bytes, x.pos, data)
         /\ y.mode = x.mode /\ y.quickBin = x.quickBin /\ y.justseeked = x.justseeked /\ y.eofInd = x.eofInd
         /\ y.ungetCh = x.ungetCh /\ y.buf = x.buf /\ y.upto = x.upto /\ y.endbuf = x.endbuf
<1>1. x.bytes \in Seq(Nat) /\ x.pos \in Nat /\ Len(x.bytes) \in Nat /\ Len(data) \in Nat /\ x.pos \in 0 .. Len(x.bytes)
  BY DEF IsStream
<1>2. PICK b \in Seq(Nat), p \in Nat : b = Over(x.bytes, x.pos, data) /\ p = x.pos + Len(data) /\ p <= Len(b)
  <2>1. Over(x.bytes, x.pos, data) \in Seq(Nat)
        /\ Len(Over(x.bytes, x.pos, data)) = IF x.pos + Len(data) <= Len(x.bytes) THEN Len(x.bytes) ELSE x.pos + Len(data)
    BY <1>1, OverIs
  <2>2. x.pos + Len(data) \in Nat /\ x.pos + Len(data) <= Len(Over(x.bytes, x.pos, data))
    BY <1>1, <2>1
  <2> QED
    BY <2>1, <2>2
<1>3. y = [x EXCEPT !.bytes = b, !.pos = p, !.start = p]
  <2>1. x.start + Len(data) = p
    BY <1>2
  <2> QED
    BY <1>2, <2>1 DEF iwrite
<1>4. p \in Int /\ p >= x.pos
  BY <1>1, <1>2
<1>5. b \in Seq(Nat) /\ p \in Nat
  BY <1>2
<1>6. IsStream(y)
  BY <1>3, <1>4, <1>5 DEF IsStream
<1>7. /\ y.bytes = b /\ y.pos = p /\ y.start = p /\ y.may = x.may /\ y.text = x.text /\ y.update = x.update /\ y.mode = x.mode
      /\ y.quickBin = x.quickBin /\ y.justseeked = x.justseeked /\ y.eofInd = x.eofInd
      /\ y.ungetCh = x.ungetCh /\ y.buf = x.buf /\ y.upto = x.upto /\ y.endbuf = x.endbuf
  BY <1>3 DEF IsStream
<1> QED
  BY <1>2, <1>4, <1>6, <1>7 DEF SameFile

LEMMA WriteOutOk ==
  ASSUME NEW x, IsStream(x), x.mode = "write", x.pos = x.start, x.pos <= Len(x.bytes), x.endbuf = BUFSIZ, x.ungetCh = NoChar,
         ~x.eofInd, NEW n \in 0 .. BUFSIZ, NEW y, y = WriteOut(x, n)
  PROVE  /\ IsStream(y) /\ SameFile(y, x) /\ InWrite(y) /\ y.upto = 0 /\ y.quickBin = x.quickBin /\ y.justseeked = x.justseeked
         /\ y.bytes = Over(x.bytes, x.pos, Part(x, 0, n))
<1>1. Part(x, 0, n) \in Seq(Nat)
  <2>1. 0 \in Int /\ n \in Int /\ 0 >= -1 /\ n <= BUFSIZ
    BY BUFSIZIs
  <2> QED
    BY <2>1, PartIs
<1>2. PICK w : w = iwrite(x, Part(x, 0, n))
  OBVIOUS
<1>3. /\ IsStream(w) /\ SameFile(w, x) /\ w.pos = w.start /\ w.pos <= Len(w.bytes)
      /\ w.bytes = Over(x.bytes, x.pos, Part(x, 0, n))
      /\ w.mode = x.mode /\ w.quickBin = x.quickBin /\ w.justseeked = x.justseeked /\ w.eofInd = x.eofInd
      /\ w.ungetCh = x.ungetCh /\ w.endbuf = x.endbuf
  BY <1>1, <1>2, IwriteOk
<1>4. PICK e \in [0 .. BUFSIZ -> Nat] : e = Empty
  BY EmptyIs
<1>5. y = [w EXCEPT !.upto = 0, !.buf = e]
  BY <1>2, <1>4 DEF WriteOut
<1>6. IsStream(w) /\ e \in [0 .. BUFSIZ -> Nat] /\ 0 \in Int
  BY <1>3, <1>4
<1>7. IsStream(y)
  BY <1>5, <1>6 DEF IsStream
<1>8. /\ y.bytes = w.bytes /\ y.pos = w.pos /\ y.start = w.start /\ y.may = w.may /\ y.text = w.text /\ y.update = w.update
      /\ y.mode = w.mode /\ y.quickBin = w.quickBin /\ y.justseeked = w.justseeked /\ y.eofInd = w.eofInd
      /\ y.ungetCh = w.ungetCh /\ y.upto = 0 /\ y.endbuf = w.endbuf
  BY <1>5, <1>6 DEF IsStream
<1>9. InWrite(y)
  <2>1. y.upto \in 0 .. BUFSIZ /\ 1 .. y.upto = {}
    BY <1>8, BUFSIZIs
  <2> QED
    BY <1>3, <1>8, <2>1 DEF InWrite
<1> QED
  BY <1>3, <1>7, <1>8, <1>9 DEF SameFile

LEMMA FlushOutOk ==
  ASSUME NEW x, IsStream(x), InWrite(x), NEW y, y = FlushOut(x)
  PROVE  /\ IsStream(y) /\ SameFile(y, x) /\ InWrite(y) /\ y.upto = 0 /\ y.quickBin = x.quickBin /\ y.justseeked = x.justseeked
         /\ Len(y.bytes) = Len(Over(x.bytes, x.pos, Part(x, 0, x.upto)))
<1>1. CASE x.upto = 0
  <2>1. y = x
    BY <1>1 DEF FlushOut
  <2>2. Part(x, 0, x.upto) \in Seq(Nat) /\ Len(Part(x, 0, x.upto)) = 0
    <3>1. Len(Part(x, 0, 0)) = (IF 0 <= 0 THEN 0 - 0 ELSE 0) /\ Part(x, 0, 0) \in Seq(Nat)
      BY PartIs, BUFSIZIs
    <3> QED
      BY <1>1, <3>1
  <2>3. x.bytes \in Seq(Nat) /\ x.pos \in Nat /\ Len(x.bytes) \in Nat /\ x.pos \in 0 .. Len(x.bytes)
    BY DEF IsStream, InWrite
  <2>4. Len(Over(x.bytes, x.pos, Part(x, 0, x.upto))) = IF x.pos + 0 <= Len(x.bytes) THEN Len(x.bytes) ELSE x.pos + 0
    BY <2>2, <2>3, OverIs
  <2>5. Len(y.bytes) = Len(Over(x.bytes, x.pos, Part(x, 0, x.upto)))
    BY <2>1, <2>3, <2>4
  <2> QED
    BY <1>1, <2>1, <2>5 DEF SameFile
<1>2. CASE x.upto # 0
  <2>1. y = WriteOut(x, x.upto)
    BY <1>2 DEF FlushOut, InWrite
  <2>2. /\ x.mode = "write" /\ x.pos = x.start /\ x.pos <= Len(x.bytes) /\ x.endbuf = BUFSIZ /\ x.ungetCh = NoChar
        /\ ~x.eofInd /\ x.upto \in 0 .. BUFSIZ
    BY DEF InWrite
  <2> QED
    BY <2>1, <2>2, WriteOutOk
<1> QED
  BY <1>1, <1>2

(***************************************************************************)
(* Going to a place.                                                       *)
(***************************************************************************)
(* What fseek to the place new leaves.                                     *)
Seeked(v, x, new) ==
  /\ IsStream(v) /\ SameFile(v, x) /\ v.mode = x.mode /\ v.justseeked /\ ~v.quickBin /\ v.ungetCh = NoChar
  /\ x.mode = "read" => /\ v.bytes = x.bytes /\ InRead(v) /\ v.start + v.upto = new
                        /\ x.update => v.upto = BUFSIZ /\ v.endbuf = BUFSIZ
  /\ x.mode = "write" => InWrite(v) /\ v.upto = 0 /\ v.bytes = FlushOut(x).bytes

(* Where fseek only moves in the buffer, what is there is the file's.      *)
Known(x, new) ==
  InBuffer(x, new, ftell(x)) =>
    /\ x.pos = x.start + x.endbuf /\ x.pos <= Len(x.bytes) /\ x.endbuf <= BUFSIZ
    /\ new # x.start + x.endbuf => \A i \in 1 .. x.endbuf : Right(x, i)

(* What fseek resets.                                                      *)
Sent(z) == [z EXCEPT !.justseeked = TRUE, !.quickBin = FALSE, !.quickText = FALSE, !.ungetCh = NoChar, !.eofInd = FALSE]

LEMMA SentIs ==
  ASSUME NEW z, IsStream(z), NEW v, v = Sent(z)
  PROVE  /\ IsStream(v) /\ v.bytes = z.bytes /\ v.pos = z.pos /\ v.may = z.may /\ v.text = z.text /\ v.update = z.update
         /\ v.mode = z.mode /\ v.buf = z.buf /\ v.start = z.start /\ v.upto = z.upto /\ v.endbuf = z.endbuf
         /\ v.justseeked /\ ~v.quickBin /\ v.ungetCh = NoChar /\ ~v.eofInd
<1>1. NoChar \in Nat \cup {NoChar}
  OBVIOUS
<1>2. v = [z EXCEPT !.justseeked = TRUE, !.quickBin = FALSE, !.quickText = FALSE, !.ungetCh = NoChar, !.eofInd = FALSE]
  BY DEF Sent
<1>3. IsStream(v)
  BY <1>1, <1>2 DEF IsStream
<1>4. /\ v.bytes = z.bytes /\ v.pos = z.pos /\ v.may = z.may /\ v.text = z.text /\ v.update = z.update
      /\ v.mode = z.mode /\ v.buf = z.buf /\ v.start = z.start /\ v.upto = z.upto /\ v.endbuf = z.endbuf
      /\ v.justseeked /\ ~v.quickBin /\ v.ungetCh = NoChar /\ ~v.eofInd
  BY <1>2 DEF IsStream
<1> QED
  BY <1>3, <1>4

LEMMA SystemSeekOk ==
  ASSUME NEW x, IsStream(x), NEW new \in Nat, new <= Len(x.bytes), NEW v, v = Sent(SystemSeek(x, new))
  PROVE  /\ IsStream(v) /\ SameFile(v, x) /\ v.mode = x.mode /\ v.justseeked /\ ~v.quickBin /\ v.ungetCh = NoChar
         /\ v.bytes = x.bytes
         /\ x.mode = "read" => InRead(v) /\ v.start + v.upto = new /\ v.upto = BUFSIZ /\ v.endbuf = BUFSIZ
         /\ x.mode = "write" => InWrite(v) /\ v.upto = 0
<1>1. PICK e \in [0 .. BUFSIZ -> Nat] : e = Empty
  BY EmptyIs
<1>2. PICK u \in Int, a \in Int : /\ x.mode = "read" => u = BUFSIZ /\ a = new - BUFSIZ
                                  /\ x.mode # "read" => u = 0 /\ a = new
  <2>1. BUFSIZ \in Int /\ new - BUFSIZ \in Int /\ 0 \in Int /\ new \in Int
    BY BUFSIZIs
  <2>2. CASE x.mode = "read"
    BY <2>1, <2>2
  <2>3. CASE x.mode # "read"
    BY <2>1, <2>3
  <2> QED
    BY <2>2, <2>3
<1>3. PICK z : z = SystemSeek(x, new)
  OBVIOUS
<1>4. z = [x EXCEPT !.pos = new, !.endbuf = BUFSIZ, !.buf = e, !.upto = u, !.start = a]
  <2>1. CASE x.mode = "read"
    BY <1>1, <1>2, <1>3, <2>1 DEF SystemSeek
  <2>2. CASE x.mode # "read"
    BY <1>1, <1>2, <1>3, <2>2 DEF SystemSeek
  <2> QED
    BY <2>1, <2>2
<1>5. BUFSIZ \in Nat
  BY BUFSIZIs
<1>6. IsStream(z)
  BY <1>1, <1>2, <1>4, <1>5 DEF IsStream
<1>7. /\ z.bytes = x.bytes /\ z.pos = new /\ z.may = x.may /\ z.text = x.text /\ z.update = x.update /\ z.mode = x.mode
      /\ z.start = a /\ z.upto = u /\ z.endbuf = BUFSIZ
  BY <1>4 DEF IsStream
<1>8. /\ IsStream(v) /\ v.bytes = z.bytes /\ v.pos = z.pos /\ v.may = z.may /\ v.text = z.text /\ v.update = z.update
      /\ v.mode = z.mode /\ v.start = z.start /\ v.upto = z.upto /\ v.endbuf = z.endbuf
      /\ v.justseeked /\ ~v.quickBin /\ v.ungetCh = NoChar /\ ~v.eofInd
  BY <1>3, <1>6, SentIs
<1>9. /\ v.bytes = x.bytes /\ v.pos = new /\ v.mode = x.mode /\ v.start = a /\ v.upto = u /\ v.endbuf = BUFSIZ /\ SameFile(v, x)
  BY <1>7, <1>8 DEF SameFile
<1>10. ASSUME x.mode = "read" PROVE InRead(v) /\ v.start + v.upto = new /\ v.upto = BUFSIZ
  <2>1. /\ v.pos = v.start + v.endbuf /\ v.pos <= Len(v.bytes) /\ v.upto = v.endbuf /\ v.upto <= v.endbuf
        /\ v.start + v.upto >= 0 /\ v.start + v.upto = new /\ v.upto >= 0 /\ v.endbuf <= BUFSIZ /\ v.upto = BUFSIZ
    BY <1>2, <1>5, <1>9, <1>10
  <2>2. v.upto + 1 .. v.endbuf = {}
    BY <1>5, <2>1
  <2>3. InStep(v)
    BY <1>8, <1>9, <1>10, <2>1, <2>2 DEF InStep
  <2> QED
    BY <1>8, <2>1, <2>3 DEF InRead
<1>11. ASSUME x.mode = "write" PROVE InWrite(v) /\ v.upto = 0
  <2>1. u = 0 /\ a = new
    BY <1>2, <1>11
  <2>2. v.upto \in 0 .. BUFSIZ /\ 1 .. v.upto = {} /\ v.upto = 0
    BY <1>5, <1>9, <2>1
  <2> QED
    BY <1>8, <1>9, <1>11, <2>1, <2>2 DEF InWrite
<1> QED
  BY <1>8, <1>9, <1>10, <1>11

(* A place in the file is gone to; a stream that writes puts what waits    *)
(* out first.                                                              *)
LEMMA SeekToOk ==
  ASSUME NEW x, IsStream(x), NEW new \in Nat,
         \/ x.mode = "read" /\ new <= Len(x.bytes) /\ Known(x, new)
         \/ InWrite(x) /\ new <= Len(FlushOut(x).bytes)
  PROVE  Seeked(SeekTo(x, new), x, new)
<1> DEFINE y == FlushOut(x)
           in == InBuffer(y, new, ftell(x))
<1>1. PICK v : v = SeekTo(x, new)
  OBVIOUS
<1>2. v = Sent(IF in THEN [y EXCEPT !.upto = new - y.start] ELSE SystemSeek(y, new))
  BY <1>1 DEF SeekTo, Sent
<1>3. x.mode \in {"read", "write"}
  BY DEF IsStream
<1>4. CASE x.mode = "read"
  <2>1. y = x
    BY <1>4 DEF FlushOut
  <2>2. new <= Len(x.bytes) /\ Known(x, new)
    BY <1>4 DEF InWrite
  <2>3. CASE InBuffer(x, new, ftell(x))
    <3>1. /\ x.pos = x.start + x.endbuf /\ x.pos <= Len(x.bytes) /\ x.endbuf <= BUFSIZ
          /\ (new # x.start + x.endbuf => \A i \in 1 .. x.endbuf : Right(x, i))
      BY <2>2, <2>3 DEF Known
    <3>2. x.start \in Int /\ x.endbuf \in Nat /\ new \in x.start .. x.start + x.endbuf /\ ~x.update
      BY <2>3 DEF InBuffer, IsStream
    <3>3. PICK u \in Int : u = new - x.start
      BY <3>2
    <3>4. PICK z : z = [x EXCEPT !.upto = u]
      OBVIOUS
    <3>5. IsStream(z)
      BY <3>4 DEF IsStream
    <3>6. /\ z.bytes = x.bytes /\ z.pos = x.pos /\ z.may = x.may /\ z.text = x.text /\ z.update = x.update /\ z.mode = x.mode
          /\ z.buf = x.buf /\ z.start = x.start /\ z.upto = u /\ z.endbuf = x.endbuf
      BY <3>4 DEF IsStream
    <3>7. v = Sent(z)
      BY <1>2, <2>1, <2>3, <3>3, <3>4
    <3>8. /\ IsStream(v) /\ v.bytes = z.bytes /\ v.pos = z.pos /\ v.may = z.may /\ v.text = z.text /\ v.update = z.update
          /\ v.mode = z.mode /\ v.buf = z.buf /\ v.start = z.start /\ v.upto = z.upto /\ v.endbuf = z.endbuf
          /\ v.justseeked /\ ~v.quickBin /\ v.ungetCh = NoChar /\ ~v.eofInd
      BY <3>5, <3>7, SentIs
    <3>9. /\ v.bytes = x.bytes /\ v.pos = x.pos /\ v.mode = x.mode /\ v.start = x.start /\ v.upto = u
          /\ v.endbuf = x.endbuf /\ v.buf = x.buf /\ SameFile(v, x)
      BY <3>6, <3>8 DEF SameFile
    <3>10. \A i : Right(x, i) => Right(v, i)
      BY <3>9 DEF Right
    <3>11. /\ v.pos = v.start + v.endbuf /\ v.pos <= Len(v.bytes) /\ v.upto <= v.endbuf /\ v.endbuf <= BUFSIZ
           /\ v.start + v.upto >= 0 /\ v.start + v.upto = new /\ v.upto >= 0
      BY <3>1, <3>2, <3>3, <3>9
    <3>12. v.upto # v.endbuf => new # x.start + x.endbuf
      BY <3>2, <3>3, <3>9
    <3>13. v.upto # v.endbuf => \A i \in 1 .. v.endbuf : Right(v, i)
      BY <3>1, <3>9, <3>10, <3>12
    <3>14. \A i \in v.upto + 1 .. v.endbuf : i \in 1 .. v.endbuf /\ v.upto # v.endbuf
      BY <3>2, <3>3, <3>9, <3>11
    <3>15. InStep(v)
      BY <1>4, <3>8, <3>9, <3>11, <3>13, <3>14 DEF InStep
    <3>16. InRead(v)
      BY <3>8, <3>11, <3>13, <3>15 DEF InRead
    <3> QED
      BY <1>1, <1>4, <3>2, <3>8, <3>9, <3>11, <3>16 DEF Seeked
  <2>4. CASE ~InBuffer(x, new, ftell(x))
    <3>1. v = Sent(SystemSeek(x, new))
      BY <1>2, <2>1, <2>4
    <3>2. /\ IsStream(v) /\ SameFile(v, x) /\ v.mode = x.mode /\ v.justseeked /\ ~v.quickBin /\ v.ungetCh = NoChar
          /\ v.bytes = x.bytes /\ InRead(v) /\ v.start + v.upto = new /\ v.upto = BUFSIZ /\ v.endbuf = BUFSIZ
      BY <1>4, <2>2, <3>1, SystemSeekOk
    <3> QED
      BY <1>1, <1>4, <3>2 DEF Seeked
  <2> QED
    BY <2>3, <2>4
<1>5. CASE x.mode = "write"
  <2>1. InWrite(x) /\ new <= Len(FlushOut(x).bytes)
    BY <1>5
  <2>2. PICK w : w = FlushOut(x)
    OBVIOUS
  <2>3. IsStream(w) /\ SameFile(w, x) /\ InWrite(w)
    BY <2>1, <2>2, FlushOutOk
  <2>4. w.mode = "write"
    BY <2>3 DEF InWrite
  <2>5. v = Sent(SystemSeek(w, new))
    BY <1>2, <2>2, <2>4 DEF InBuffer
  <2>6. new <= Len(w.bytes)
    BY <2>1, <2>2
  <2> HIDE DEF y, in
  <2>7. /\ IsStream(v) /\ SameFile(v, w) /\ v.mode = w.mode /\ v.justseeked /\ ~v.quickBin /\ v.ungetCh = NoChar
        /\ v.bytes = w.bytes /\ InWrite(v) /\ v.upto = 0
    BY <2>3, <2>4, <2>5, <2>6, SystemSeekOk
  <2>8. SameFile(v, x)
    BY <2>3, <2>7 DEF SameFile
  <2> QED
    BY <1>1, <1>5, <2>2, <2>4, <2>7, <2>8 DEF Seeked
<1> QED
  BY <1>3, <1>4, <1>5

LEMMA ReadKnown ==
  ASSUME NEW x, IsStream(x), InRead(x), NEW new \in Int
  PROVE  Known(x, new)
<1>1. SUFFICES ASSUME InBuffer(x, new, ftell(x))
               PROVE  /\ x.pos = x.start + x.endbuf /\ x.pos <= Len(x.bytes) /\ x.endbuf <= BUFSIZ
                      /\ new # x.start + x.endbuf => \A i \in 1 .. x.endbuf : Right(x, i)
  BY DEF Known
<1>2. x.pos = x.start + x.endbuf /\ x.pos <= Len(x.bytes) /\ x.endbuf <= BUFSIZ
      /\ (x.upto # x.endbuf => \A i \in 1 .. x.endbuf : Right(x, i))
  BY DEF InRead, InStep
<1>3. x.upto # x.endbuf \/ x.start + x.upto = new
  BY <1>1 DEF InBuffer, ftell
<1> QED
  BY <1>2, <1>3

LEMMA PastKnown ==
  ASSUME NEW x, IsStream(x), PastRead(x), NEW new \in Int, new <= Len(x.bytes)
  PROVE  Known(x, new)
<1>1. SUFFICES ASSUME InBuffer(x, new, ftell(x))
               PROVE  /\ x.pos = x.start + x.endbuf /\ x.pos <= Len(x.bytes) /\ x.endbuf <= BUFSIZ
                      /\ new # x.start + x.endbuf => \A i \in 1 .. x.endbuf : Right(x, i)
  BY DEF Known
<1>2. x.pos = Len(x.bytes) /\ x.endbuf <= BUFSIZ /\ x.start + x.endbuf >= x.pos /\ x.upto = x.endbuf
  BY DEF PastRead
<1>3. x.upto # x.endbuf \/ x.start + x.upto = new
  BY <1>1 DEF InBuffer, ftell
<1>4. x.start \in Int /\ x.endbuf \in Nat /\ x.pos \in Nat
  BY DEF IsStream
<1> QED
  BY <1>2, <1>3, <1>4

(* The reads that look for the end.                                        *)
ReadRun(x, m, A) ==
  A = [k \in 0 .. m |-> IF k = 0 THEN fread(x, Chunk) ELSE ReadNext(A[k - 1])]

ReadSteps(x, m, A) ==
  A[0] = fread(x, Chunk) /\ \A k \in 1 .. m : A[k] = ReadNext(A[k - 1])

LEMMA ReadRunIs ==
  ASSUME NEW x, NEW m \in Nat, NEW A, ReadRun(x, m, A)
  PROVE  ReadSteps(x, m, A)
<1>1. A = [k \in 0 .. m |-> IF k = 0 THEN fread(x, Chunk) ELSE ReadNext(A[k - 1])]
  BY DEF ReadRun
<1> QED
  BY <1>1 DEF ReadSteps

LEMMA ReadRunThere ==
  ASSUME NEW x, NEW m \in Nat
  PROVE  \E A : ReadRun(x, m, A)
<1> DEFINE o == fread(x, Chunk)
           N == {i \in Nat : \E A : ReadRun(x, i, A)}
<1>1. 0 \in N
  <2> DEFINE A == [k \in 0 .. 0 |-> o]
  <2>1. A = [k \in 0 .. 0 |-> IF k = 0 THEN o ELSE ReadNext(A[k - 1])]
    <3> HIDE DEF o
    <3> QED
      OBVIOUS
  <2>2. ReadRun(x, 0, A)
    BY <2>1 DEF ReadRun
  <2> QED
    BY <2>2
<1>2. ASSUME NEW i \in Nat, i \in N PROVE i + 1 \in N
  <2>1. PICK A : ReadRun(x, i, A)
    BY <1>2
  <2> DEFINE B == [k \in 0 .. i + 1 |-> IF k = i + 1 THEN ReadNext(A[i]) ELSE A[k]]
  <2>2. ASSUME NEW k \in 0 .. i + 1
        PROVE  B[k] = IF k = 0 THEN o ELSE ReadNext(B[k - 1])
    <3>1. A[0] = o /\ \A j \in 1 .. i : A[j] = ReadNext(A[j - 1])
      BY <2>1, ReadRunIs DEF ReadSteps
    <3> HIDE DEF o
    <3>2. CASE k = 0
      BY <3>1, <3>2
    <3>3. CASE k = i + 1
      <4>1. k # 0 /\ k - 1 = i /\ i \in 0 .. i + 1 /\ i # i + 1
        BY <3>3
      <4> QED
        BY <3>3, <4>1
    <3>4. CASE k \in 1 .. i
      <4>1. k - 1 \in 0 .. i + 1 /\ k - 1 # i + 1 /\ k # i + 1 /\ k # 0
        BY <3>4
      <4> QED
        BY <3>1, <3>4, <4>1
    <3> QED
      BY <3>2, <3>3, <3>4
  <2>3. B = [k \in 0 .. i + 1 |-> IF k = 0 THEN o ELSE ReadNext(B[k - 1])]
    <3>1. B = [k \in 0 .. i + 1 |-> B[k]]
      OBVIOUS
    <3> HIDE DEF B, o
    <3> QED
      BY <2>2, <3>1
  <2>4. ReadRun(x, i + 1, B)
    <3> HIDE DEF B
    <3> QED
      BY <2>3 DEF ReadRun
  <2> QED
    BY <2>4
<1> QED
  <2> HIDE DEF N
  <2>1. m \in N
    BY <1>1, <1>2, SetInduction
  <2> QED
    BY <2>1 DEF N

LEMMA ReadOnIs ==
  ASSUME NEW x, NEW m \in Nat, m = Len(x.bytes)
  PROVE  \E A : ReadSteps(x, m, A) /\ ReadOn(x) = A[m].x
<1> DEFINE round == CHOOSE A : ReadRun(x, m, A)
<1>1. ReadRun(x, m, round)
  <2> HIDE DEF ReadRun
  <2> QED
    BY ReadRunThere
<1>2. ReadOn(x) = round[m].x
  BY DEF ReadOn, ReadRun
<1> HIDE DEF round
<1>3. ReadSteps(x, m, round)
  BY <1>1, ReadRunIs
<1> QED
  BY <1>2, <1>3

(* After k more of them.                                                   *)
ReadSoFar(x, r, k) ==
  /\ IsStream(r.x) /\ Alike(r.x, x) /\ (x.text => ~r.x.quickBin)
  /\ \/ Len(r.out) = Chunk /\ InRead(r.x) /\ r.x.ungetCh = NoChar /\ r.x.start + r.x.upto >= k + 1
     \/ Len(r.out) # Chunk /\ Short(r.x)

LEMMA ReadNextOk ==
  ASSUME NEW x, IsStream(x), NEW r, NEW k \in Nat, ReadSoFar(x, r, k)
  PROVE  ReadSoFar(x, ReadNext(r), k + 1)
<1>0. Chunk \in Nat /\ Chunk >= 1
  BY StreamAssumption
<1>1. CASE Len(r.out) = Chunk
  <2>1. IsStream(r.x) /\ Alike(r.x, x) /\ (x.text => ~r.x.quickBin) /\ InRead(r.x) /\ r.x.ungetCh = NoChar
        /\ r.x.start + r.x.upto >= k + 1
    BY <1>1 DEF ReadSoFar
  <2>2. PICK q : q = fread(r.x, Chunk)
    OBVIOUS
  <2>3. r.x.text => ~r.x.quickBin
    BY <2>1 DEF Alike
  <2>4. ReadOk(r.x, Chunk, q)
    BY <1>0, <2>1, <2>2, <2>3, FreadOk
  <2>5. r.x.mode = "read"
    BY <2>1 DEF InRead, InStep
  <2>6. /\ IsStream(q.x) /\ Alike(q.x, r.x) /\ (r.x.text => ~q.x.quickBin)
        /\ Len(q.out) \in Nat /\ Len(q.out) <= Chunk
        /\ (Len(q.out) = Chunk => /\ InRead(q.x) /\ q.x.ungetCh = NoChar
                                  /\ q.x.start + q.x.upto >= r.x.start + r.x.upto + 1)
        /\ (Len(q.out) < Chunk => Short(q.x))
    BY <2>1, <2>4, <2>5 DEF ReadOk
  <2>7. Alike(q.x, x) /\ (x.text => ~q.x.quickBin)
    BY <2>1, <2>6 DEF Alike
  <2>8. r.x.start \in Int /\ r.x.upto \in Int /\ q.x.start \in Int /\ q.x.upto \in Int
    BY <2>1, <2>6 DEF IsStream
  <2>9. Len(q.out) = Chunk => q.x.start + q.x.upto >= (k + 1) + 1
    BY <2>1, <2>6, <2>8
  <2>10. Len(q.out) # Chunk => Short(q.x)
    BY <1>0, <2>6
  <2>11. ReadNext(r) = q
    BY <1>1, <2>2 DEF ReadNext
  <2> QED
    BY <2>6, <2>7, <2>9, <2>10, <2>11 DEF ReadSoFar
<1>2. CASE Len(r.out) # Chunk
  <2>1. ReadNext(r) = r
    BY <1>2 DEF ReadNext
  <2> QED
    BY <1>2, <2>1 DEF ReadSoFar
<1> QED
  BY <1>1, <1>2

(* They come to the end: each that does not is a byte further.             *)
LEMMA ReadOnOk ==
  ASSUME NEW x, IsStream(x), x.text => ~x.quickBin,
         InRead(x) \/ (InWrite(x) /\ x.justseeked /\ ~x.quickBin)
  PROVE  /\ IsStream(ReadOn(x)) /\ Alike(ReadOn(x), x) /\ Short(ReadOn(x))
         /\ x.text => ~ReadOn(x).quickBin
<1>0. Chunk \in Nat /\ Chunk >= 1 /\ Len(x.bytes) \in Nat
  BY StreamAssumption DEF IsStream
<1>1. PICK m \in Nat : m = Len(x.bytes)
  BY <1>0
<1>2. PICK round : ReadSteps(x, m, round) /\ ReadOn(x) = round[m].x
  BY <1>1, ReadOnIs
<1>3. PICK r : r = round[m]
  OBVIOUS
<1>4. round[0] = fread(x, Chunk) /\ \A k \in 1 .. m : round[k] = ReadNext(round[k - 1])
  BY <1>2 DEF ReadSteps
<1> DEFINE N == {k \in Nat : k <= m => ReadSoFar(x, round[k], k)}
<1>5. 0 \in N
  <2>1. PICK q : q = fread(x, Chunk)
    OBVIOUS
  <2>2. ReadOk(x, Chunk, q)
    BY <1>0, <2>1, FreadOk
  <2>3. /\ IsStream(q.x) /\ Alike(q.x, x) /\ (x.text => ~q.x.quickBin)
        /\ Len(q.out) \in Nat /\ Len(q.out) <= Chunk
        /\ (Len(q.out) = Chunk => InRead(q.x) /\ q.x.ungetCh = NoChar /\ q.x.start + q.x.upto >= 1)
        /\ (Len(q.out) < Chunk => Short(q.x))
    BY <2>2 DEF ReadOk
  <2>4. Len(q.out) # Chunk => Short(q.x)
    BY <1>0, <2>3
  <2>5. ReadSoFar(x, q, 0)
    BY <2>3, <2>4 DEF ReadSoFar
  <2> QED
    BY <1>4, <2>1, <2>5
<1>6. ASSUME NEW k \in Nat, k \in N PROVE k + 1 \in N
  <2> SUFFICES ASSUME k + 1 <= m PROVE ReadSoFar(x, round[k + 1], k + 1)
    OBVIOUS
  <2>1. k <= m /\ k + 1 \in 1 .. m /\ (k + 1) - 1 = k
    BY <1>1
  <2>2. ReadSoFar(x, round[k], k)
    BY <1>6, <2>1
  <2>3. round[k + 1] = ReadNext(round[k])
    BY <1>4, <2>1
  <2> QED
    BY <2>2, <2>3, ReadNextOk
<1>7. ReadSoFar(x, r, m)
  <2> HIDE DEF N
  <2>1. m \in N
    BY <1>1, <1>5, <1>6, SetInduction
  <2> QED
    BY <1>1, <1>3, <2>1 DEF N
<1>8. ~(InRead(r.x) /\ r.x.start + r.x.upto >= m + 1)
  <2> SUFFICES ASSUME InRead(r.x), r.x.start + r.x.upto >= m + 1 PROVE FALSE
    OBVIOUS
  <2>1. r.x.start \in Int /\ r.x.upto \in Int /\ r.x.endbuf \in Nat /\ r.x.pos \in Nat
    BY <1>7 DEF ReadSoFar, IsStream
  <2>2. r.x.bytes = x.bytes
    BY <1>7 DEF ReadSoFar, Alike
  <2>3. r.x.pos = r.x.start + r.x.endbuf /\ r.x.pos <= Len(x.bytes) /\ r.x.upto <= r.x.endbuf
    BY <2>2 DEF InRead, InStep
  <2> QED
    BY <1>1, <2>1, <2>3
<1> QED
  BY <1>2, <1>3, <1>7, <1>8 DEF ReadSoFar

(* The place of a stream that writes is in the file as it is with what     *)
(* waits.                                                                  *)
LEMMA FlushLen ==
  ASSUME NEW x, IsStream(x), InWrite(x)
  PROVE  ftell(x) \in Nat /\ ftell(x) <= Len(FlushOut(x).bytes)
<1>1. /\ x.bytes \in Seq(Nat) /\ x.pos \in Nat /\ Len(x.bytes) \in Nat /\ x.pos \in 0 .. Len(x.bytes)
      /\ x.upto \in Nat /\ x.start = x.pos /\ x.upto <= BUFSIZ
  BY BUFSIZIs DEF IsStream, InWrite
<1>2. Part(x, 0, x.upto) \in Seq(Nat) /\ Len(Part(x, 0, x.upto)) = x.upto
  <2>1. PICK z \in Int : z = 0
    OBVIOUS
  <2>2. x.upto \in Int /\ z >= -1 /\ x.upto <= BUFSIZ
    BY <1>1, <2>1
  <2>3. Part(x, z, x.upto) \in Seq(Nat) /\ Len(Part(x, z, x.upto)) = IF z <= x.upto THEN x.upto - z ELSE 0
    BY <2>2, PartIs
  <2>4. (IF z <= x.upto THEN x.upto - z ELSE 0) = x.upto
    BY <1>1, <2>1
  <2> QED
    BY <2>1, <2>3, <2>4
<1>3. PICK w \in Seq(Nat) : w = Part(x, 0, x.upto) /\ Len(w) = x.upto
  BY <1>2
<1>4. Len(Over(x.bytes, x.pos, w)) = IF x.pos + Len(w) <= Len(x.bytes) THEN Len(x.bytes) ELSE x.pos + Len(w)
  BY <1>1, OverIs
<1>5. Len(FlushOut(x).bytes) = Len(Over(x.bytes, x.pos, w))
  BY <1>3, FlushOutOk
<1> QED
  BY <1>1, <1>3, <1>4, <1>5 DEF ftell

(* fseek to the end leaves a stream that reads.                            *)
LEMMA SeekEndOk ==
  ASSUME NEW x, IsStream(x), x.text => ~x.quickBin, InRead(x) \/ InWrite(x), NEW v, v = SeekEnd(x)
  PROVE  /\ IsStream(v) /\ SameFile(v, x) /\ v.mode = "read" /\ v.justseeked /\ ~v.quickBin /\ v.ungetCh = NoChar /\ InRead(v)
         /\ x.update => v.upto = BUFSIZ /\ v.endbuf = BUFSIZ
<1>1. PICK w : w = IF x.mode = "write" THEN SeekTo(x, ftell(x)) ELSE x
  OBVIOUS
<1>2. IsStream(w) /\ SameFile(w, x) /\ (w.text => ~w.quickBin) /\ (InRead(w) \/ (InWrite(w) /\ w.justseeked /\ ~w.quickBin))
  <2>1. CASE InRead(x)
    <3>1. w = x
      BY <1>1, <2>1 DEF InRead, InStep
    <3> QED
      BY <2>1, <3>1 DEF SameFile
  <2>2. CASE InWrite(x)
    <3>1. x.mode = "write"
      BY <2>2 DEF InWrite
    <3>2. PICK new \in Nat : new = ftell(x) /\ new <= Len(FlushOut(x).bytes)
      BY <2>2, FlushLen
    <3>3. Seeked(w, x, new)
      BY <1>1, <2>2, <3>1, <3>2, SeekToOk
    <3> QED
      BY <3>1, <3>3 DEF Seeked
  <2> QED
    BY <2>1, <2>2
<1>3. PICK y : y = ReadOn(w)
  OBVIOUS
<1>4. IsStream(y) /\ Alike(y, w) /\ Short(y)
  BY <1>2, <1>3, ReadOnOk
<1>5. y.mode = "read" /\ y.pos = Len(y.bytes) /\ y.pos = y.start + y.endbuf /\ y.upto = y.endbuf /\ y.pos \in Nat
  BY <1>4 DEF Short, IsStream
<1>6. PICK new \in Nat : new = ftell(y) /\ new = Len(y.bytes)
  BY <1>5 DEF ftell
<1>7. Known(y, new)
  <2>1. PastRead(y)
    BY <1>4, ShortIsPast
  <2>2. new \in Int /\ new <= Len(y.bytes)
    BY <1>6
  <2> QED
    BY <1>4, <2>1, <2>2, PastKnown
<1>8. new <= Len(y.bytes)
  BY <1>6
<1>9. Seeked(SeekTo(y, new), y, new)
  BY <1>4, <1>5, <1>7, <1>8, SeekToOk
<1>10. v = SeekTo(y, new)
  BY <1>1, <1>3, <1>6 DEF SeekEnd
<1>11. /\ IsStream(v) /\ SameFile(v, y) /\ v.mode = "read" /\ v.justseeked /\ ~v.quickBin /\ v.ungetCh = NoChar /\ InRead(v)
       /\ (y.update => v.upto = BUFSIZ /\ v.endbuf = BUFSIZ)
  BY <1>5, <1>9, <1>10 DEF Seeked
<1> QED
  BY <1>2, <1>4, <1>11 DEF SameFile, Alike

(***************************************************************************)
(* Writing.                                                                *)
(***************************************************************************)
(* What a write through the buffer leaves.                                 *)
Wrote(y, x) == IsStream(y) /\ SameFile(y, x) /\ InWrite(y) /\ ~y.quickBin

LEMMA PutOk ==
  ASSUME NEW x, IsStream(x), InWrite(x), ~x.quickBin, NEW data \in Seq(Nat \ {Junk}), x.upto + Len(data) <= BUFSIZ,
         NEW y, y = Put(x, data)
  PROVE  Wrote(y, x) /\ y.upto = x.upto + Len(data)
<1>1. /\ x.upto \in 0 .. BUFSIZ /\ x.buf \in [0 .. BUFSIZ -> Nat] /\ BUFSIZ \in Nat /\ Len(data) \in Nat
      /\ \A i \in 1 .. x.upto : x.buf[i] # Junk
  BY BUFSIZIs DEF IsStream, InWrite
<1>2. PICK u \in Nat : u = x.upto + Len(data) /\ u <= BUFSIZ
  BY <1>1
<1> DEFINE c == [i \in 0 .. BUFSIZ |-> IF i - x.upto \in DOMAIN data THEN data[i - x.upto] ELSE x.buf[i]]
<1>3. DOMAIN data = 1 .. Len(data) /\ \A k \in 1 .. Len(data) : data[k] \in Nat \ {Junk}
  OBVIOUS
<1>4. c \in [0 .. BUFSIZ -> Nat]
  <2>1. \A i \in 0 .. BUFSIZ : (IF i - x.upto \in DOMAIN data THEN data[i - x.upto] ELSE x.buf[i]) \in Nat
    BY <1>1, <1>3
  <2> QED
    BY <2>1
<1>5. \A i \in 1 .. u : c[i] # Junk
  <2> TAKE i \in 1 .. u
  <2>1. i \in 0 .. BUFSIZ
    BY <1>1, <1>2
  <2>2. CASE i <= x.upto
    <3>1. i \in 1 .. x.upto /\ ~(i - x.upto \in 1 .. Len(data))
      BY <1>1, <2>1, <2>2
    <3>2. c[i] = x.buf[i]
      BY <1>3, <2>1, <3>1
    <3> QED
      BY <1>1, <3>1, <3>2
  <2>3. CASE i > x.upto
    <3>1. i - x.upto \in 1 .. Len(data)
      BY <1>1, <1>2, <2>1, <2>3
    <3>2. c[i] = data[i - x.upto]
      BY <1>3, <2>1, <3>1
    <3> QED
      BY <1>3, <3>1, <3>2
  <2> QED
    BY <1>1, <2>1, <2>2, <2>3
<1>6. PICK b \in [0 .. BUFSIZ -> Nat] : b = c
  BY <1>4
<1>7. y = [x EXCEPT !.buf = b, !.upto = u]
  <2>1. y = [x EXCEPT !.buf = [i \in 0 .. BUFSIZ |-> IF i - x.upto \in DOMAIN data THEN data[i - x.upto] ELSE @[i]], !.upto = @ + Len(data)]
    BY DEF Put
  <2>2. [x EXCEPT !.buf = [i \in 0 .. BUFSIZ |-> IF i - x.upto \in DOMAIN data THEN data[i - x.upto] ELSE @[i]], !.upto = @ + Len(data)]
        = [x EXCEPT !.buf = c, !.upto = u]
    BY <1>2 DEF IsStream
  <2> QED
    BY <1>6, <2>1, <2>2
<1> HIDE DEF c
<1>8. u \in Int
  BY <1>2
<1>9. IsStream(y)
  BY <1>6, <1>7, <1>8 DEF IsStream
<1>10. /\ y.bytes = x.bytes /\ y.pos = x.pos /\ y.may = x.may /\ y.text = x.text /\ y.update = x.update /\ y.mode = x.mode
       /\ y.quickBin = x.quickBin /\ y.eofInd = x.eofInd /\ y.ungetCh = x.ungetCh /\ y.buf = b
       /\ y.start = x.start /\ y.upto = u /\ y.endbuf = x.endbuf
  BY <1>7 DEF IsStream
<1>11. y.upto \in 0 .. BUFSIZ /\ \A i \in 1 .. y.upto : y.buf[i] # Junk
  BY <1>1, <1>2, <1>5, <1>6, <1>10
<1>12. InWrite(y)
  BY <1>10, <1>11 DEF InWrite
<1> QED
  BY <1>2, <1>9, <1>10, <1>12 DEF Wrote, SameFile

(* What waits goes out.                                                    *)
LEMMA OutOk ==
  ASSUME NEW x, IsStream(x), InWrite(x), ~x.quickBin, NEW n \in 0 .. BUFSIZ, NEW y, y = WriteOut(x, n)
  PROVE  Wrote(y, x) /\ y.upto = 0
<1>1. /\ x.mode = "write" /\ x.pos = x.start /\ x.pos <= Len(x.bytes) /\ x.endbuf = BUFSIZ /\ x.ungetCh = NoChar /\ ~x.eofInd
  BY DEF InWrite
<1>2. IsStream(y) /\ SameFile(y, x) /\ InWrite(y) /\ y.upto = 0 /\ y.quickBin = x.quickBin
  BY <1>1, WriteOutOk
<1> QED
  BY <1>2 DEF Wrote

LEMMA OneByte ==
  ASSUME NEW c \in Nat \ {Junk}
  PROVE  /\ <<c>> \in Seq(Nat \ {Junk}) /\ Len(<<c>>) = 1
         /\ <<CR, LF>> \in Seq(Nat \ {Junk}) /\ Len(<<CR, LF>>) = 2
<1>1. CR \in Nat \ {Junk} /\ LF \in Nat \ {Junk}
  BY StreamAssumption
<1> QED
  BY <1>1

LEMMA WroteOn ==
  ASSUME NEW x, NEW y, NEW z, Wrote(y, x), Wrote(z, y)
  PROVE  Wrote(z, x)
BY DEF Wrote, SameFile

LEMMA PutChOk ==
  ASSUME NEW x, IsStream(x), InWrite(x), ~x.quickBin, NEW c \in Nat \ {Junk}, NEW y, y = PutCh(x, c)
  PROVE  Wrote(y, x)
<1>1. PICK w : w = IF x.upto = x.endbuf THEN WriteOut(x, BUFSIZ) ELSE x
  OBVIOUS
<1>2. x.endbuf = BUFSIZ /\ x.upto \in 0 .. BUFSIZ /\ BUFSIZ \in Nat /\ BUFSIZ > 2 /\ BUFSIZ \in 0 .. BUFSIZ
  BY BUFSIZIs DEF InWrite
<1>3. Wrote(w, x) /\ w.upto \in Nat /\ w.upto + 1 <= BUFSIZ
  <2>1. CASE x.upto = x.endbuf
    <3>1. w = WriteOut(x, BUFSIZ)
      BY <1>1, <2>1
    <3>2. Wrote(w, x) /\ w.upto = 0
      BY <1>2, <3>1, OutOk
    <3> QED
      BY <1>2, <3>2
  <2>2. CASE x.upto # x.endbuf
    <3>1. w = x
      BY <1>1, <2>2
    <3>2. Wrote(x, x)
      BY DEF Wrote, SameFile
    <3> QED
      BY <1>2, <2>2, <3>1, <3>2
  <2> QED
    BY <2>1, <2>2
<1>4. IsStream(w) /\ InWrite(w) /\ ~w.quickBin
  BY <1>3 DEF Wrote
<1>5. PICK d \in Seq(Nat \ {Junk}) : d = <<c>> /\ Len(d) = 1
  BY OneByte
<1>6. PICK v : v = Put(w, d)
  OBVIOUS
<1>7. w.upto + Len(d) <= BUFSIZ
  BY <1>3, <1>5
<1>8. Wrote(v, w)
  BY <1>4, <1>6, <1>7, PutOk
<1>9. y = IF v.upto = v.endbuf THEN WriteOut(v, BUFSIZ) ELSE v
  BY <1>1, <1>5, <1>6 DEF PutCh
<1>10. IsStream(v) /\ InWrite(v) /\ ~v.quickBin
  BY <1>8 DEF Wrote
<1>11. Wrote(y, v)
  <2>1. CASE v.upto = v.endbuf
    <3>1. y = WriteOut(v, BUFSIZ)
      BY <1>9, <2>1
    <3> QED
      BY <1>2, <1>10, <3>1, OutOk
  <2>2. CASE v.upto # v.endbuf
    BY <1>9, <1>10, <2>2 DEF Wrote, SameFile
  <2> QED
    BY <2>1, <2>2
<1> QED
  BY <1>3, <1>8, <1>11, WroteOn

LEMMA PutNextOk ==
  ASSUME NEW x, IsStream(x), InWrite(x), ~x.quickBin, NEW c \in Nat \ {Junk}, NEW y, y = PutNext(x, c)
  PROVE  Wrote(y, x)
<1>1. CASE c = LF
  <2>1. PICK w : w = IF x.endbuf - x.upto < 3 THEN WriteOut(x, x.upto) ELSE x
    OBVIOUS
  <2>2. x.endbuf = BUFSIZ /\ x.upto \in 0 .. BUFSIZ /\ BUFSIZ \in Nat /\ BUFSIZ > 2
    BY BUFSIZIs DEF InWrite
  <2>3. Wrote(w, x) /\ w.upto \in Nat /\ w.upto + 2 <= BUFSIZ
    <3>1. CASE x.endbuf - x.upto < 3
      <4>1. w = WriteOut(x, x.upto)
        BY <2>1, <3>1
      <4>2. Wrote(w, x) /\ w.upto = 0
        BY <2>2, <4>1, OutOk
      <4> QED
        BY <2>2, <4>2
    <3>2. CASE ~(x.endbuf - x.upto < 3)
      <4>1. w = x
        BY <2>1, <3>2
      <4>2. Wrote(x, x)
        BY DEF Wrote, SameFile
      <4> QED
        BY <2>2, <3>2, <4>1, <4>2
    <3> QED
      BY <3>1, <3>2
  <2>4. IsStream(w) /\ InWrite(w) /\ ~w.quickBin
    BY <2>3 DEF Wrote
  <2>5. PICK d \in Seq(Nat \ {Junk}) : d = <<CR, LF>> /\ Len(d) = 2
    BY OneByte
  <2>6. y = Put(w, d)
    BY <1>1, <2>1, <2>5 DEF PutNext, PutNewline
  <2>7. w.upto + Len(d) <= BUFSIZ
    BY <2>3, <2>5
  <2>8. Wrote(y, w)
    BY <2>4, <2>6, <2>7, PutOk
  <2> QED
    BY <2>3, <2>8, WroteOn
<1>2. CASE c # LF
  BY <1>2, PutChOk DEF PutNext
<1> QED
  BY <1>1, <1>2

(* A text is put character by character.                                   *)
PutRun(x, data, m, A) ==
  A = [k \in 0 .. m |-> IF k = 0 THEN x ELSE PutNext(A[k - 1], data[k])]

PutSteps(x, data, m, A) ==
  A[0] = x /\ \A k \in 1 .. m : A[k] = PutNext(A[k - 1], data[k])

LEMMA PutRunIs ==
  ASSUME NEW x, NEW data, NEW m \in Nat, NEW A, PutRun(x, data, m, A)
  PROVE  PutSteps(x, data, m, A)
<1>1. A = [k \in 0 .. m |-> IF k = 0 THEN x ELSE PutNext(A[k - 1], data[k])]
  BY DEF PutRun
<1> QED
  BY <1>1 DEF PutSteps

LEMMA PutRunThere ==
  ASSUME NEW x, NEW data, NEW m \in Nat
  PROVE  \E A : PutRun(x, data, m, A)
<1> DEFINE o == x
           N == {i \in Nat : \E A : PutRun(x, data, i, A)}
<1>1. 0 \in N
  <2> DEFINE A == [k \in 0 .. 0 |-> o]
  <2>1. A = [k \in 0 .. 0 |-> IF k = 0 THEN o ELSE PutNext(A[k - 1], data[k])]
    <3> HIDE DEF o
    <3> QED
      OBVIOUS
  <2>2. PutRun(x, data, 0, A)
    BY <2>1 DEF PutRun
  <2> QED
    BY <2>2
<1>2. ASSUME NEW i \in Nat, i \in N PROVE i + 1 \in N
  <2>1. PICK A : PutRun(x, data, i, A)
    BY <1>2
  <2> DEFINE B == [k \in 0 .. i + 1 |-> IF k = i + 1 THEN PutNext(A[i], data[i + 1]) ELSE A[k]]
  <2>2. ASSUME NEW k \in 0 .. i + 1
        PROVE  B[k] = IF k = 0 THEN o ELSE PutNext(B[k - 1], data[k])
    <3>1. A[0] = o /\ \A j \in 1 .. i : A[j] = PutNext(A[j - 1], data[j])
      BY <2>1, PutRunIs DEF PutSteps
    <3> HIDE DEF o
    <3>2. CASE k = 0
      BY <3>1, <3>2
    <3>3. CASE k = i + 1
      <4>1. k # 0 /\ k - 1 = i /\ i \in 0 .. i + 1 /\ i # i + 1
        BY <3>3
      <4> QED
        BY <3>3, <4>1
    <3>4. CASE k \in 1 .. i
      <4>1. k - 1 \in 0 .. i + 1 /\ k - 1 # i + 1 /\ k # i + 1 /\ k # 0
        BY <3>4
      <4> QED
        BY <3>1, <3>4, <4>1
    <3> QED
      BY <3>2, <3>3, <3>4
  <2>3. B = [k \in 0 .. i + 1 |-> IF k = 0 THEN o ELSE PutNext(B[k - 1], data[k])]
    <3>1. B = [k \in 0 .. i + 1 |-> B[k]]
      OBVIOUS
    <3> HIDE DEF B, o
    <3> QED
      BY <2>2, <3>1
  <2>4. PutRun(x, data, i + 1, B)
    <3> HIDE DEF B
    <3> QED
      BY <2>3 DEF PutRun
  <2> QED
    BY <2>4
<1> QED
  <2> HIDE DEF N
  <2>1. m \in N
    BY <1>1, <1>2, SetInduction
  <2> QED
    BY <2>1 DEF N

LEMMA FwriteSlowTIs ==
  ASSUME NEW x, NEW data, NEW m \in Nat, m = Len(data)
  PROVE  \E A : PutSteps(x, data, m, A) /\ fwriteSlowT(x, data) = A[m]
<1> DEFINE round == CHOOSE A : PutRun(x, data, m, A)
<1>1. PutRun(x, data, m, round)
  <2> HIDE DEF PutRun
  <2> QED
    BY PutRunThere
<1>2. fwriteSlowT(x, data) = round[m]
  BY DEF fwriteSlowT, PutRun
<1> HIDE DEF round
<1>3. PutSteps(x, data, m, round)
  BY <1>1, PutRunIs
<1> QED
  BY <1>2, <1>3

LEMMA FwriteSlowT ==
  ASSUME NEW x, IsStream(x), InWrite(x), ~x.quickBin, NEW data \in Seq(Nat \ {Junk}), NEW y, y = fwriteSlowT(x, data)
  PROVE  Wrote(y, x)
<1>1. PICK m \in Nat : m = Len(data)
  OBVIOUS
<1>2. PICK round : PutSteps(x, data, m, round) /\ fwriteSlowT(x, data) = round[m]
  BY <1>1, FwriteSlowTIs
<1>3. round[0] = x /\ \A k \in 1 .. m : round[k] = PutNext(round[k - 1], data[k])
  BY <1>2 DEF PutSteps
<1> DEFINE N == {k \in Nat : k <= m => Wrote(round[k], x)}
<1>4. 0 \in N
  BY <1>3 DEF Wrote, SameFile
<1>5. ASSUME NEW k \in Nat, k \in N PROVE k + 1 \in N
  <2> SUFFICES ASSUME k + 1 <= m PROVE Wrote(round[k + 1], x)
    OBVIOUS
  <2>1. k <= m /\ k + 1 \in 1 .. m /\ (k + 1) - 1 = k
    BY <1>1
  <2>2. Wrote(round[k], x)
    BY <1>5, <2>1
  <2>3. round[k + 1] = PutNext(round[k], data[k + 1])
    BY <1>3, <2>1
  <2>4. data[k + 1] \in Nat \ {Junk}
    BY <1>1, <2>1
  <2>5. IsStream(round[k]) /\ InWrite(round[k]) /\ ~round[k].quickBin
    BY <2>2 DEF Wrote
  <2>6. Wrote(round[k + 1], round[k])
    BY <2>3, <2>4, <2>5, PutNextOk
  <2> QED
    BY <2>2, <2>6, WroteOn
<1> HIDE DEF N
<1>6. m \in N
  BY <1>1, <1>4, <1>5, SetInduction
<1> QED
  BY <1>1, <1>2, <1>6 DEF N

LEMMA PieceOf ==
  ASSUME NEW data \in Seq(Nat \ {Junk}), NEW i \in Nat, i >= 1, NEW j \in Nat, j <= Len(data)
  PROVE  SubSeq(data, i, j) \in Seq(Nat \ {Junk}) /\ Len(SubSeq(data, i, j)) = IF i <= j THEN j - i + 1 ELSE 0
<1>1. \A k \in i .. j : data[k] \in Nat \ {Junk}
  OBVIOUS
<1> QED
  BY <1>1, SubSeqProperties

LEMMA FwriteSlowB ==
  ASSUME NEW x, IsStream(x), InWrite(x), ~x.quickBin, NEW data \in Seq(Nat \ {Junk}), NEW y, y = fwriteSlowB(x, data)
  PROVE  IsStream(y) /\ SameFile(y, x) /\ InWrite(y)
<1>1. x.endbuf = BUFSIZ /\ x.upto \in 0 .. BUFSIZ /\ BUFSIZ \in Nat /\ BUFSIZ > 2 /\ BUFSIZ \in 0 .. BUFSIZ /\ Len(data) \in Nat
  BY BUFSIZIs DEF InWrite
<1>2. PICK spare \in Nat : spare = x.endbuf - x.upto /\ x.upto + spare = BUFSIZ
  BY <1>1
<1>3. CASE Len(data) < spare
  <2>1. y = Put(x, data)
    BY <1>2, <1>3 DEF fwriteSlowB
  <2>2. x.upto + Len(data) <= BUFSIZ
    BY <1>1, <1>2, <1>3
  <2>3. Wrote(y, x)
    BY <2>1, <2>2, PutOk
  <2> QED
    BY <2>3 DEF Wrote
<1>4. CASE ~(Len(data) < spare)
  <2>1. SubSeq(data, 1, spare) \in Seq(Nat \ {Junk}) /\ Len(SubSeq(data, 1, spare)) = IF 1 <= spare THEN spare - 1 + 1 ELSE 0
    <3>1. 1 \in Nat /\ spare <= Len(data) /\ 1 >= 1
      BY <1>1, <1>2, <1>4
    <3> QED
      BY <3>1, PieceOf
  <2>2. PICK d \in Seq(Nat \ {Junk}) : d = SubSeq(data, 1, spare) /\ x.upto + Len(d) <= BUFSIZ
    <3>1. (IF 1 <= spare THEN spare - 1 + 1 ELSE 0) = spare
      BY <1>2
    <3>2. Len(SubSeq(data, 1, spare)) = spare
      BY <2>1, <3>1
    <3>3. x.upto + Len(SubSeq(data, 1, spare)) <= BUFSIZ
      BY <1>1, <1>2, <3>2
    <3> QED
      BY <2>1, <3>3
  <2>3. PICK w : w = Put(x, d)
    OBVIOUS
  <2>4. Wrote(w, x)
    BY <2>2, <2>3, PutOk
  <2>5. PICK v : v = WriteOut(w, BUFSIZ)
    OBVIOUS
  <2>6. Wrote(v, w) /\ v.upto = 0
    <3>1. IsStream(w) /\ InWrite(w) /\ ~w.quickBin
      BY <2>4 DEF Wrote
    <3> QED
      BY <1>1, <2>5, <3>1, OutOk
  <2>7. Wrote(v, x)
    BY <2>4, <2>6, WroteOn
  <2>8. PICK left \in Seq(Nat \ {Junk}) : left = SubSeq(data, spare + 1, Len(data))
    <3>1. spare + 1 \in Nat /\ spare + 1 >= 1 /\ Len(data) \in Nat /\ Len(data) <= Len(data)
      BY <1>1, <1>2
    <3>2. SubSeq(data, spare + 1, Len(data)) \in Seq(Nat \ {Junk})
      BY <3>1, PieceOf
    <3> QED
      BY <3>2
  <2>9. y = IF Len(left) > BUFSIZ THEN iwrite([v EXCEPT !.quickBin = TRUE], left) ELSE Put(v, left)
    BY <1>2, <1>4, <2>2, <2>3, <2>5, <2>8 DEF fwriteSlowB
  <2>10. IsStream(v) /\ InWrite(v) /\ ~v.quickBin /\ SameFile(v, x)
    BY <2>7 DEF Wrote
  <2>11. CASE Len(left) > BUFSIZ
    <3>1. PICK u : u = [v EXCEPT !.quickBin = TRUE]
      OBVIOUS
    <3>2. IsStream(u)
      BY <2>10, <3>1 DEF IsStream
    <3>3. /\ u.bytes = v.bytes /\ u.pos = v.pos /\ u.may = v.may /\ u.text = v.text /\ u.update = v.update /\ u.mode = v.mode
          /\ u.eofInd = v.eofInd /\ u.ungetCh = v.ungetCh /\ u.buf = v.buf
          /\ u.start = v.start /\ u.upto = v.upto /\ u.endbuf = v.endbuf
      BY <2>10, <3>1 DEF IsStream
    <3>4. InWrite(u) /\ SameFile(u, x) /\ u.upto = 0
      BY <2>6, <2>10, <3>3 DEF InWrite, SameFile
    <3>5. y = iwrite(u, left)
      BY <2>9, <2>11, <3>1
    <3>6. u.pos = u.start /\ u.pos <= Len(u.bytes)
      BY <3>4 DEF InWrite
    <3>7. left \in Seq(Nat)
      OBVIOUS
    <3>8. /\ IsStream(y) /\ SameFile(y, u) /\ y.pos = y.start /\ y.pos <= Len(y.bytes)
          /\ y.mode = u.mode /\ y.eofInd = u.eofInd /\ y.ungetCh = u.ungetCh /\ y.upto = u.upto /\ y.endbuf = u.endbuf
      BY <3>2, <3>5, <3>6, <3>7, IwriteOk
    <3>9. 1 .. y.upto = {} /\ y.upto = 0 /\ y.upto \in 0 .. BUFSIZ
      BY <1>1, <3>4, <3>8
    <3>10. InWrite(y)
      BY <3>4, <3>8, <3>9 DEF InWrite
    <3> QED
      BY <3>4, <3>8, <3>10 DEF SameFile
  <2>12. CASE ~(Len(left) > BUFSIZ)
    <3>1. y = Put(v, left)
      BY <2>9, <2>12
    <3>2. v.upto + Len(left) <= BUFSIZ
      BY <1>1, <2>6, <2>12
    <3>3. Wrote(y, v)
      BY <2>10, <3>1, <3>2, PutOk
    <3> QED
      BY <2>10, <3>3 DEF Wrote, SameFile
  <2> QED
    BY <2>11, <2>12
<1> QED
  BY <1>3, <1>4

(* A stream that a program may write to.                                   *)
ToBeWritten(x) ==
  /\ IsStream(x) /\ (x.text => ~x.quickBin)
  /\ \/ InWrite(x)
     \/ InRead(x) /\ x.justseeked /\ x.upto = BUFSIZ /\ x.endbuf = BUFSIZ /\ x.ungetCh = NoChar /\ ~x.quickBin

LEMMA ToWriteOk ==
  ASSUME NEW x, ToBeWritten(x), ~x.quickBin, NEW y, y = ToWrite(x)
  PROVE  Wrote(y, x)
<1>1. CASE InWrite(x)
  <2>1. y = [x EXCEPT !.justseeked = FALSE]
    BY <1>1 DEF ToWrite, InWrite
  <2>2. IsStream(y)
    BY <2>1 DEF IsStream, ToBeWritten
  <2>3. /\ y.bytes = x.bytes /\ y.pos = x.pos /\ y.may = x.may /\ y.text = x.text /\ y.update = x.update /\ y.mode = x.mode
        /\ y.quickBin = x.quickBin /\ y.eofInd = x.eofInd /\ y.ungetCh = x.ungetCh /\ y.buf = x.buf
        /\ y.start = x.start /\ y.upto = x.upto /\ y.endbuf = x.endbuf
    BY <2>1 DEF IsStream, ToBeWritten
  <2>4. InWrite(y)
    BY <1>1, <2>3 DEF InWrite
  <2> QED
    BY <2>2, <2>3, <2>4 DEF Wrote, SameFile
<1>2. CASE InRead(x) /\ x.justseeked /\ x.upto = BUFSIZ /\ x.endbuf = BUFSIZ /\ x.ungetCh = NoChar
  <2>1. x.mode = "read" /\ x.pos = x.start + x.endbuf /\ x.pos <= Len(x.bytes) /\ ~x.eofInd /\ IsStream(x)
    BY <1>2 DEF InRead, InStep, ToBeWritten
  <2>2. PICK a \in Int, u \in Int : a = x.start + x.endbuf /\ u = 0 /\ a = x.pos
    BY <2>1 DEF IsStream
  <2>3. y = [x EXCEPT !.justseeked = FALSE, !.mode = "write", !.start = a, !.upto = u]
    BY <1>2, <2>1, <2>2 DEF ToWrite
  <2>4. IsStream(y)
    BY <2>1, <2>2, <2>3 DEF IsStream
  <2>5. /\ y.bytes = x.bytes /\ y.pos = x.pos /\ y.may = x.may /\ y.text = x.text /\ y.update = x.update /\ y.mode = "write"
        /\ y.quickBin = x.quickBin /\ y.eofInd = x.eofInd /\ y.ungetCh = x.ungetCh
        /\ y.start = a /\ y.upto = u /\ y.endbuf = x.endbuf
    BY <2>1, <2>3 DEF IsStream
  <2>6. y.upto \in 0 .. BUFSIZ /\ 1 .. y.upto = {}
    BY <2>2, <2>5, BUFSIZIs
  <2>7. InWrite(y)
    BY <1>2, <2>1, <2>2, <2>5, <2>6 DEF InWrite
  <2> QED
    BY <2>4, <2>5, <2>7 DEF Wrote, SameFile
<1> QED
  BY <1>1, <1>2 DEF ToBeWritten

LEMMA QuickWrite ==
  ASSUME NEW x, ToBeWritten(x), NEW q \in BOOLEAN, q => x.quickBin, NEW y, y = [x EXCEPT !.quickBin = q]
  PROVE  ToBeWritten(y) /\ SameFile(y, x) /\ y.quickBin = q /\ y.text = x.text /\ (q => InWrite(y))
         /\ y.upto = x.upto /\ y.endbuf = x.endbuf
<1>1. IsStream(x) /\ (InRead(x) \/ InWrite(x))
  BY DEF ToBeWritten
<1>2. LET z == [x EXCEPT !.quickBin = q]
      IN  /\ IsStream(z) /\ Alike(z, x) /\ (InRead(x) => InRead(z)) /\ (InWrite(x) => InWrite(z)) /\ z.quickBin = q
          /\ z.ungetCh = x.ungetCh /\ z.start = x.start /\ z.upto = x.upto /\ z.justseeked = x.justseeked
          /\ z.mode = x.mode /\ z.endbuf = x.endbuf
  BY <1>1, QuickOk
<1> QED
  BY <1>2 DEF ToBeWritten, SameFile, Alike

LEMMA FwriteOk ==
  ASSUME NEW x, ToBeWritten(x), NEW data \in Seq(Nat \ {Junk}), NEW y, y = fwrite(x, data)
  PROVE  IsStream(y) /\ SameFile(y, x) /\ InWrite(y) /\ (x.text => ~y.quickBin)
<1>1. PICK q \in BOOLEAN : q = (x.quickBin /\ Len(data) >= BUFSIZ) /\ (q => x.quickBin)
  <2>1. (x.quickBin /\ Len(data) >= BUFSIZ) \in BOOLEAN
    OBVIOUS
  <2> QED
    BY <2>1
<1>2. PICK w : w = [x EXCEPT !.quickBin = q]
  OBVIOUS
<1>3. ToBeWritten(w) /\ SameFile(w, x) /\ w.quickBin = q /\ w.text = x.text /\ (q => InWrite(w))
  <2>1. q => x.quickBin
    BY <1>1
  <2> QED
    BY <1>2, <2>1, QuickWrite
<1>4. w = [x EXCEPT !.quickBin = @ /\ Len(data) >= BUFSIZ]
  BY <1>1, <1>2 DEF IsStream, ToBeWritten
<1>5. y = IF w.quickBin THEN iwrite(w, data)
          ELSE IF w.text THEN fwriteSlowT(ToWrite(w), data) ELSE fwriteSlowB(ToWrite(w), data)
  BY <1>4 DEF fwrite
<1>6. CASE w.quickBin
  <2>1. InWrite(w) /\ IsStream(w) /\ ~w.text
    BY <1>3, <1>6 DEF ToBeWritten
  <2>2. w.pos = w.start /\ w.pos <= Len(w.bytes) /\ w.upto = 0
    BY <1>6, <2>1 DEF InWrite
  <2>3. data \in Seq(Nat)
    OBVIOUS
  <2>4. y = iwrite(w, data)
    BY <1>5, <1>6
  <2>5. /\ IsStream(y) /\ SameFile(y, w) /\ y.pos = y.start /\ y.pos <= Len(y.bytes)
        /\ y.mode = w.mode /\ y.eofInd = w.eofInd /\ y.ungetCh = w.ungetCh /\ y.upto = w.upto /\ y.endbuf = w.endbuf
    BY <2>1, <2>2, <2>3, <2>4, IwriteOk
  <2>6. 1 .. y.upto = {} /\ y.upto = 0 /\ y.upto \in 0 .. BUFSIZ
    BY <2>2, <2>5, BUFSIZIs
  <2>7. InWrite(y)
    BY <2>1, <2>5, <2>6 DEF InWrite
  <2> QED
    BY <1>3, <2>1, <2>5, <2>7 DEF SameFile
<1>7. CASE ~w.quickBin
  <2>1. PICK v : v = ToWrite(w)
    OBVIOUS
  <2>2. Wrote(v, w)
    BY <1>3, <1>7, <2>1, ToWriteOk
  <2>3. IsStream(v) /\ InWrite(v) /\ ~v.quickBin /\ SameFile(v, x)
    BY <1>3, <2>2 DEF Wrote, SameFile
  <2>4. CASE w.text
    <3>1. y = fwriteSlowT(v, data)
      BY <1>5, <1>7, <2>1, <2>4
    <3>2. Wrote(y, v)
      BY <2>3, <3>1, FwriteSlowT
    <3> QED
      BY <2>3, <3>2 DEF Wrote, SameFile
  <2>5. CASE ~w.text
    <3>1. y = fwriteSlowB(v, data)
      BY <1>5, <1>7, <2>1, <2>5
    <3>2. IsStream(y) /\ SameFile(y, v) /\ InWrite(y)
      BY <2>3, <3>1, FwriteSlowB
    <3> QED
      BY <1>3, <2>3, <2>5, <3>2 DEF SameFile
  <2> QED
    BY <2>4, <2>5
<1> QED
  BY <1>6, <1>7

LEMMA FputcOk ==
  ASSUME NEW x, ToBeWritten(x), NEW c \in Nat \ {Junk}, NEW y, y = fputc(x, c)
  PROVE  IsStream(y) /\ SameFile(y, x) /\ InWrite(y) /\ (x.text => ~y.quickBin)
<1>1. PICK q \in BOOLEAN : q = FALSE
  OBVIOUS
<1>2. PICK w : w = [x EXCEPT !.quickBin = q]
  OBVIOUS
<1>3. ToBeWritten(w) /\ SameFile(w, x) /\ ~w.quickBin /\ w.text = x.text
  BY <1>1, <1>2, QuickWrite
<1>4. y = IF w.upto >= w.endbuf - 2 THEN fwrite(w, <<c>>)
          ELSE Put(w, IF w.text /\ c = LF THEN <<CR, LF>> ELSE <<c>>)
  BY <1>1, <1>2 DEF fputc
<1>5. CASE w.upto >= w.endbuf - 2
  <2>1. PICK d \in Seq(Nat \ {Junk}) : d = <<c>>
    BY OneByte
  <2>2. y = fwrite(w, d)
    BY <1>4, <1>5, <2>1
  <2>3. IsStream(y) /\ SameFile(y, w) /\ InWrite(y) /\ (w.text => ~y.quickBin)
    BY <1>3, <2>2, FwriteOk
  <2> QED
    BY <1>3, <2>3 DEF SameFile
<1>6. CASE ~(w.upto >= w.endbuf - 2)
  <2>1. BUFSIZ \in Nat /\ IsStream(w)
    BY <1>3, BUFSIZIs DEF ToBeWritten
  <2>2. InWrite(w)
    <3>1. ~(w.upto = BUFSIZ /\ w.endbuf = BUFSIZ)
      BY <1>6, <2>1
    <3> QED
      BY <1>3, <3>1 DEF ToBeWritten
  <2>3. w.endbuf = BUFSIZ /\ w.upto \in 0 .. BUFSIZ /\ w.upto + 2 <= BUFSIZ /\ w.upto + 1 <= BUFSIZ
    BY <1>6, <2>1, <2>2 DEF InWrite
  <2>4. PICK d \in Seq(Nat \ {Junk}) : d = (IF w.text /\ c = LF THEN <<CR, LF>> ELSE <<c>>) /\ w.upto + Len(d) <= BUFSIZ
    <3>1. CASE w.text /\ c = LF
      BY <2>3, <3>1, OneByte
    <3>2. CASE ~(w.text /\ c = LF)
      BY <2>3, <3>2, OneByte
    <3> QED
      BY <3>1, <3>2
  <2>5. y = Put(w, d)
    BY <1>4, <1>6, <2>4
  <2>6. Wrote(y, w)
    BY <1>3, <2>1, <2>2, <2>4, <2>5, PutOk
  <2> QED
    BY <1>3, <2>6 DEF Wrote, SameFile
<1> QED
  BY <1>5, <1>6

(***************************************************************************)
(* Lines.                                                                  *)
(***************************************************************************)
(* After a line that the end of the file cut short.                        *)
(* After a line that the end of the file cut short.                        *)
PastLine(x) ==
  /\ x.mode = "read" /\ x.pos = Len(x.bytes) /\ x.ungetCh = NoChar /\ x.text
  /\ x.endbuf = 0 /\ x.start = x.pos /\ x.upto >= 0

(* A stream that a program may read lines from.                            *)
ForLines(x) == IsStream(x) /\ x.text /\ ~x.quickBin /\ (InRead(x) \/ PastRead(x) \/ PastLine(x))

LEMMA ForLinesIs ==
  ASSUME NEW x, ForLines(x)
  PROVE  /\ x.pos \in Nat /\ x.start \in Int /\ x.upto \in Int /\ x.endbuf \in Nat /\ Len(x.bytes) \in Nat
         /\ x.pos = x.start + x.endbuf /\ x.pos <= Len(x.bytes) /\ x.endbuf <= BUFSIZ /\ x.upto >= 0
         /\ x.start + x.upto >= 0 /\ x.mode = "read"
         /\ ~InRead(x) => x.pos = Len(x.bytes) /\ x.upto >= x.endbuf /\ x.ungetCh = NoChar
         /\ InRead(x) => x.upto <= x.endbuf
<1>1. x.pos \in Nat /\ x.start \in Int /\ x.upto \in Int /\ x.endbuf \in Nat /\ Len(x.bytes) \in Nat /\ BUFSIZ \in Nat
  BY BUFSIZIs DEF ForLines, IsStream
<1>2. CASE InRead(x)
  BY <1>1, <1>2 DEF InRead, InStep
<1>3. CASE ~InRead(x) /\ PastRead(x)
  <2>1. x.text
    BY DEF ForLines
  <2> QED
    BY <1>1, <1>3, <2>1 DEF PastRead
<1>4. CASE ~InRead(x) /\ PastLine(x)
  BY <1>1, <1>4 DEF PastLine
<1> QED
  BY <1>2, <1>3, <1>4 DEF ForLines

(* Where fgets stops lies between its place and the end of the room.       *)
LEMMA StopIs ==
  ASSUME NEW x, x.endbuf \in Nat, x.upto \in Int, NEW last \in Int, x.upto <= last
  PROVE  /\ Stop(x, last) \in Int /\ x.upto <= Stop(x, last) /\ Stop(x, last) <= last
         /\ x.upto <= x.endbuf => Stop(x, last) <= x.endbuf
         /\ x.upto >= x.endbuf => Stop(x, last) = x.upto
         /\ WholeLine(x, last) => Stop(x, last) < x.endbuf /\ Stop(x, last) < last
         /\ ~WholeLine(x, last) /\ x.endbuf <= last => Stop(x, last) >= x.endbuf
<1>1. PICK j \in Int : j = Newline(x, x.upto) /\ x.upto <= j /\ (IF x.upto <= x.endbuf THEN j <= x.endbuf ELSE j = x.upto)
  BY NewlineIs
<1>2. Min({j, last}) = IF j <= last THEN j ELSE last
  BY MinTwo
<1>3. PICK k : k = Stop(x, last)
  OBVIOUS
<1>4. k = IF last < x.endbuf THEN Min({j, last}) ELSE j
  BY <1>1, <1>3 DEF Stop
<1>5. /\ k \in Int /\ x.upto <= k /\ k <= last
      /\ (x.upto <= x.endbuf => k <= x.endbuf)
      /\ (x.upto >= x.endbuf => k = x.upto)
  <2>1. CASE last < x.endbuf
    <3>1. k = IF j <= last THEN j ELSE last
      BY <1>2, <1>4, <2>1
    <3> QED
      BY <1>1, <2>1, <3>1
  <2>2. CASE ~(last < x.endbuf)
    <3>1. k = j
      BY <1>4, <2>2
    <3> QED
      BY <1>1, <2>2, <3>1
  <2> QED
    BY <2>1, <2>2
<1>6. Min({last, x.endbuf}) = IF last <= x.endbuf THEN last ELSE x.endbuf
  <2>1. x.endbuf \in Int
    OBVIOUS
  <2> QED
    BY <2>1, MinTwo
<1>7. WholeLine(x, last) <=> k < Min({last, x.endbuf})
  BY <1>3 DEF WholeLine
<1>8. WholeLine(x, last) => k < x.endbuf /\ k < last
  BY <1>5, <1>6, <1>7
<1>9. ~WholeLine(x, last) /\ x.endbuf <= last => k >= x.endbuf
  BY <1>5, <1>6, <1>7
<1> QED
  BY <1>3, <1>5, <1>8, <1>9

(* A line so far: there is room left, and what is used up of it was read.  *)
LineSoFar(x0, q, n) ==
  /\ ForLines(q.x) /\ Alike(q.x, x0) /\ q.x.ungetCh = NoChar
  /\ q.processed \in Nat /\ n - q.processed >= 1
  /\ q.processed >= 1 => q.x.start + q.x.upto >= 1

(* The line needs no more of the file, or there is none.                   *)
Finished(q, n) == WholeLine(q.x, RoomEnd(q, n)) \/ RoomEnd(q, n) < q.x.endbuf \/ Got(q.x, BUFSIZ) = << >>

LEMMA RoomIs ==
  ASSUME NEW x0, NEW q, NEW n \in Nat, LineSoFar(x0, q, n)
  PROVE  RoomEnd(q, n) \in Int /\ RoomEnd(q, n) = q.x.upto + n - q.processed - 1 /\ q.x.upto <= RoomEnd(q, n)
<1>1. q.x.upto \in Int
  BY ForLinesIs DEF LineSoFar
<1> QED
  BY <1>1 DEF RoomEnd, LineSoFar

(* The buffer is filled anew.                                              *)
LEMMA RefilledIs ==
  ASSUME NEW x, ForLines(x), NEW in, in = Got(x, BUFSIZ), NEW y, y = Refilled(x)
  PROVE  /\ IsStream(y) /\ Alike(y, x) /\ y.text /\ ~y.quickBin /\ y.mode = "read" /\ y.ungetCh = x.ungetCh /\ y.eofInd = x.eofInd
         /\ y.upto = x.upto /\ y.start = x.pos /\ y.endbuf = Len(in) /\ y.pos = x.pos + Len(in) /\ y.pos <= Len(y.bytes)
         /\ Len(in) \in 0 .. BUFSIZ /\ y.buf = Buffered(in)
<1>1. /\ x.pos \in Nat /\ x.start \in Int /\ x.upto \in Int /\ x.endbuf \in Nat /\ Len(x.bytes) \in Nat
      /\ x.pos = x.start + x.endbuf /\ x.pos <= Len(x.bytes) /\ x.mode = "read" /\ IsStream(x) /\ x.text /\ ~x.quickBin
  BY ForLinesIs DEF ForLines
<1>2. in \in Seq(Nat) /\ Len(in) \in 0 .. BUFSIZ /\ x.pos + Len(in) <= Len(x.bytes)
  BY <1>1, BUFSIZIs, GotLen
<1>3. PICK p \in Nat, a \in Int, e \in Nat, u \in Int, b \in [0 .. BUFSIZ -> Nat] :
        p = x.pos + Len(in) /\ a = x.pos /\ e = Len(in) /\ u = x.upto /\ b = Buffered(in)
  <2>1. Buffered(in) \in [0 .. BUFSIZ -> Nat]
    BY <1>2, BufferedIs
  <2>2. x.pos + Len(in) \in Nat /\ x.pos \in Int /\ Len(in) \in Nat /\ x.upto \in Int
    BY <1>1, <1>2
  <2> QED
    BY <2>1, <2>2
<1>4. y = [x EXCEPT !.pos = p, !.start = a, !.endbuf = e, !.upto = u, !.buf = b]
  <2>1. iread(x, BUFSIZ) = [x EXCEPT !.pos = p]
    BY <1>3 DEF iread
  <2>2. y = [iread(x, BUFSIZ) EXCEPT !.start = @ + x.endbuf, !.endbuf = Len(in), !.buf = Buffered(in)]
    BY DEF Refilled
  <2>3. y = [[x EXCEPT !.pos = p] EXCEPT !.start = a, !.endbuf = e, !.buf = b]
    BY <1>1, <1>3, <2>1, <2>2 DEF IsStream
  <2> QED
    BY <1>1, <1>3, <2>3 DEF IsStream
<1>5. IsStream(y)
  <2>1. IsStream(x)
    BY <1>1
  <2>2. IsStream([x EXCEPT !.pos = p, !.start = a, !.endbuf = e, !.upto = u, !.buf = b])
    BY <2>1, FilledIs
  <2> QED
    BY <1>4, <2>2
<1>6. /\ y.bytes = x.bytes /\ y.pos = p /\ y.may = x.may /\ y.text = x.text /\ y.update = x.update /\ y.mode = x.mode
      /\ y.quickBin = x.quickBin /\ y.eofInd = x.eofInd /\ y.ungetCh = x.ungetCh /\ y.buf = b
      /\ y.start = a /\ y.upto = u /\ y.endbuf = e
  BY <1>1, <1>4 DEF IsStream
<1> QED
  BY <1>1, <1>2, <1>3, <1>5, <1>6 DEF Alike

(* A filling keeps room, and gets on.                                      *)
LEMMA ContinuedOk ==
  ASSUME NEW x0, NEW q, NEW n \in Nat, LineSoFar(x0, q, n), ~Finished(q, n), NEW q2, q2 = Continued(q, n)
  PROVE  LineSoFar(x0, q2, n) /\ q2.x.pos >= q.x.pos + 1
<1> DEFINE x == q.x
<1>1. /\ x.pos \in Nat /\ x.start \in Int /\ x.upto \in Int /\ x.endbuf \in Nat /\ Len(x.bytes) \in Nat
      /\ x.pos = x.start + x.endbuf /\ x.pos <= Len(x.bytes) /\ x.endbuf <= BUFSIZ /\ x.upto >= 0
      /\ x.start + x.upto >= 0 /\ x.mode = "read" /\ IsStream(x) /\ ForLines(x) /\ Alike(x, x0) /\ x.ungetCh = NoChar
      /\ (~InRead(x) => x.pos = Len(x.bytes))
      /\ (InRead(x) => x.upto <= x.endbuf)
  BY ForLinesIs DEF LineSoFar, ForLines
<1>2. q.processed \in Nat /\ n - q.processed >= 1 /\ (q.processed >= 1 => x.start + x.upto >= 1)
  BY DEF LineSoFar
<1>3. PICK last \in Int : last = RoomEnd(q, n) /\ last = x.upto + n - q.processed - 1 /\ x.upto <= last
  BY RoomIs
<1>4. ~WholeLine(x, last) /\ ~(last < x.endbuf) /\ Got(x, BUFSIZ) # << >>
  BY <1>3 DEF Finished
<1>5. PICK in : in = Got(x, BUFSIZ)
  OBVIOUS
<1>6. in \in Seq(Nat) /\ Len(in) \in Nat /\ (Len(in) < BUFSIZ => x.pos + Len(in) = Len(x.bytes)) /\ x.pos + Len(in) <= Len(x.bytes)
  BY <1>1, <1>5, BUFSIZIs, GotLen
<1>7. Len(in) >= 1
  <2>1. in # << >>
    BY <1>4, <1>5
  <2> QED
    BY <1>6, <2>1
<1>8. InRead(x)
  BY <1>1, <1>6, <1>7
<1>9. PICK j \in Int : j = Stop(x, last) /\ j = x.endbuf /\ x.upto <= j
  <2>1. x.endbuf <= last
    BY <1>1, <1>3, <1>4
  <2>2. Stop(x, last) \in Int /\ x.upto <= Stop(x, last) /\ Stop(x, last) <= x.endbuf /\ Stop(x, last) >= x.endbuf
    BY <1>1, <1>3, <1>4, <1>8, <2>1, StopIs
  <2> QED
    BY <1>1, <2>2
<1>10. PICK dropped \in {0, 1} : dropped = (IF j > x.upto /\ x.buf[j] = CR THEN 1 ELSE 0)
  OBVIOUS
<1>11. PICK y : y = Refilled(x)
  OBVIOUS
<1>12. /\ IsStream(y) /\ Alike(y, x) /\ y.text /\ ~y.quickBin /\ y.mode = "read" /\ y.ungetCh = NoChar /\ y.eofInd = x.eofInd
       /\ y.start = x.pos /\ y.endbuf = Len(in) /\ y.pos = x.pos + Len(in) /\ y.pos <= Len(y.bytes)
       /\ Len(in) \in 0 .. BUFSIZ /\ y.buf = Buffered(in)
  <2>1. /\ IsStream(y) /\ Alike(y, x) /\ y.text /\ ~y.quickBin /\ y.mode = "read" /\ y.ungetCh = x.ungetCh /\ y.eofInd = x.eofInd
        /\ y.start = x.pos /\ y.endbuf = Len(in) /\ y.pos = x.pos + Len(in) /\ y.pos <= Len(y.bytes)
        /\ Len(in) \in 0 .. BUFSIZ /\ y.buf = Buffered(in)
    BY <1>1, <1>5, <1>11, RefilledIs
  <2> QED
    BY <1>1, <2>1
<1>13. PICK low \in Int : low = 0
  OBVIOUS
<1>14. PICK z : z = [y EXCEPT !.upto = low]
  OBVIOUS
<1>15. IsStream(z)
  BY <1>12, <1>14 DEF IsStream
<1>16. /\ z.bytes = y.bytes /\ z.pos = y.pos /\ z.may = y.may /\ z.text = y.text /\ z.update = y.update /\ z.mode = y.mode
       /\ z.quickBin = y.quickBin /\ z.eofInd = y.eofInd /\ z.ungetCh = y.ungetCh /\ z.buf = y.buf
       /\ z.start = y.start /\ z.upto = low /\ z.endbuf = y.endbuf
  BY <1>12, <1>14 DEF IsStream
<1>17. q2 = [x |-> z, processed |-> q.processed + j - x.upto - dropped, got |-> GotOn(q, n)]
  <2>1. q2 = [x |-> [Refilled(x) EXCEPT !.upto = 0],
              processed |-> q.processed + j - x.upto - (IF j > x.upto /\ x.buf[j] = CR THEN 1 ELSE 0), got |-> GotOn(q, n)]
    BY <1>3, <1>4, <1>9 DEF Continued
  <2> QED
    BY <1>10, <1>11, <1>13, <1>14, <2>1
<1>18. PICK p \in Nat : p = q.processed + j - x.upto - dropped
  <2>1. dropped = 1 => j > x.upto
    BY <1>10
  <2>2. PICK o \in Nat, u \in Int : o = q.processed /\ u = x.upto
    BY <1>1, <1>2
  <2>3. u <= j /\ (dropped = 1 => j > u)
    BY <1>9, <2>1, <2>2
  <2>4. o + j - u - dropped \in Nat
    BY <2>3
  <2> QED
    BY <2>2, <2>4
<1>19. q2.x = z /\ q2.processed = p
  BY <1>17, <1>18
<1>20. InRead(z)
  <2>1. \A i \in 1 .. z.endbuf : Right(z, i)
    <3>1. z.bytes = x.bytes /\ z.start = x.pos /\ z.buf = Buffered(Got(x, BUFSIZ)) /\ z.endbuf = Len(Got(x, BUFSIZ))
      BY <1>5, <1>12, <1>16 DEF Alike
    <3> QED
      BY <1>1, <3>1, FilledRight
  <2>2. z.endbuf \in Nat /\ z.upto = 0 /\ z.upto <= z.endbuf /\ z.upto >= 0 /\ z.endbuf <= BUFSIZ
        /\ z.pos = z.start + z.endbuf /\ z.pos <= Len(z.bytes) /\ z.start + z.upto >= 0
    BY <1>1, <1>6, <1>12, <1>13, <1>16, BUFSIZIs
  <2>3. z.upto + 1 .. z.endbuf = 1 .. z.endbuf
    BY <2>2
  <2>4. ~z.eofInd
    BY <1>8, <1>12, <1>16 DEF InRead
  <2>5. InStep(z)
    BY <1>12, <1>16, <2>1, <2>2, <2>3 DEF InStep
  <2> QED
    BY <1>12, <1>16, <2>1, <2>2, <2>4, <2>5 DEF InRead
<1>21. ForLines(z) /\ Alike(z, x0) /\ z.ungetCh = NoChar
  BY <1>1, <1>12, <1>15, <1>16, <1>20 DEF ForLines, Alike
<1>22. n - p >= 1
  <2>1. PICK o \in Nat, u \in Int : o = q.processed /\ u = x.upto
    BY <1>1, <1>2
  <2>2. ~(last < j)
    BY <1>4, <1>9
  <2>3. last = u + n - o - 1 /\ p = o + j - u - dropped
    BY <1>3, <1>18, <2>1
  <2> QED
    BY <2>2, <2>3
<1>23. p >= 1 => z.start + z.upto >= 1
  <2>1. z.start + z.upto = x.start + x.endbuf
    BY <1>1, <1>12, <1>13, <1>16
  <2>2. CASE q.processed >= 1
    BY <1>1, <1>2, <1>9, <2>1, <2>2
  <2>3. CASE ~(q.processed >= 1)
    <3>1. PICK o \in Nat, u \in Int : o = q.processed /\ u = x.upto
      BY <1>1, <1>2
    <3>2. p = o + j - u - dropped /\ o = 0
      BY <1>18, <2>3, <3>1
    <3>3. p >= 1 => j - u >= 1
      BY <3>2
    <3>4. PICK base \in Int, full \in Nat : base = x.start /\ full = x.endbuf
      BY <1>1
    <3>5. j = full /\ z.start + z.upto = base + full /\ base + u >= 0
      BY <1>1, <1>9, <2>1, <3>1, <3>4
    <3> QED
      BY <3>3, <3>4, <3>5
  <2> QED
    BY <2>2, <2>3
<1>24. z.pos >= x.pos + 1
  BY <1>1, <1>6, <1>7, <1>12, <1>16
<1> QED
  BY <1>19, <1>21, <1>22, <1>23, <1>24 DEF LineSoFar

(* What fgets leaves: a stream at a place it read up to, or an empty       *)
(* buffer at the end of the file.                                          *)
LineRead(x0, r) ==
  /\ IsStream(r.x) /\ Alike(r.x, x0) /\ r.x.text /\ ~r.x.quickBin /\ r.x.ungetCh = NoChar
  /\ IF r.x.endbuf = 0 THEN PastLine(r.x) ELSE InRead(r.x) /\ r.x.start + r.x.upto >= 1

(* The place moves on in the buffer.                                       *)
LEMMA GoneOn ==
  ASSUME NEW x, ForLines(x), InRead(x), x.ungetCh = NoChar, NEW u \in Int, x.upto <= u, u <= x.endbuf, x.upto # x.endbuf,
         x.start + u >= 1, NEW t \in BOOLEAN, NEW y, y = [x EXCEPT !.upto = u, !.quickText = t]
  PROVE  /\ IsStream(y) /\ Alike(y, x) /\ y.text /\ ~y.quickBin /\ y.ungetCh = NoChar
         /\ y.endbuf # 0 /\ InRead(y) /\ y.start + y.upto >= 1
<1>1. /\ x.start \in Int /\ x.upto \in Int /\ x.endbuf \in Nat /\ x.upto >= 0 /\ x.upto <= x.endbuf
      /\ IsStream(x) /\ x.text /\ ~x.quickBin
  BY ForLinesIs DEF ForLines
<1>2. IsStream(y)
  BY <1>1 DEF IsStream
<1>3. /\ y.bytes = x.bytes /\ y.pos = x.pos /\ y.may = x.may /\ y.text = x.text /\ y.update = x.update /\ y.mode = x.mode
      /\ y.quickBin = x.quickBin /\ y.eofInd = x.eofInd /\ y.ungetCh = x.ungetCh /\ y.buf = x.buf
      /\ y.start = x.start /\ y.upto = u /\ y.endbuf = x.endbuf
  BY <1>1 DEF IsStream
<1>4. \A i : Right(x, i) => Right(y, i)
  BY <1>3 DEF Right
<1>5. /\ x.mode = "read" /\ x.pos = x.start + x.endbuf /\ x.pos <= Len(x.bytes) /\ x.endbuf <= BUFSIZ /\ ~x.eofInd
      /\ \A i \in 1 .. x.endbuf : Right(x, i)
  BY DEF InRead, InStep
<1>6. y.upto <= y.endbuf /\ y.upto >= 0 /\ y.start + y.upto >= 0 /\ y.start + y.upto >= 1 /\ y.endbuf # 0
  BY <1>1, <1>3
<1>7. \A i \in 1 .. y.endbuf : Right(y, i)
  BY <1>3, <1>4, <1>5
<1>8. \A i \in y.upto + 1 .. y.endbuf : i \in 1 .. y.endbuf
  BY <1>1, <1>3, <1>6
<1>9. InStep(y)
  BY <1>1, <1>3, <1>5, <1>6, <1>7, <1>8 DEF InStep
<1>10. InRead(y)
  BY <1>3, <1>5, <1>6, <1>7, <1>9 DEF InRead
<1> QED
  BY <1>1, <1>2, <1>3, <1>6, <1>10 DEF Alike

(* However the line ends.                                                  *)
LEMMA EndLineOk ==
  ASSUME NEW x0, NEW q, NEW n \in Nat, n >= 2, LineSoFar(x0, q, n), Finished(q, n), NEW r, r = EndLine(q, n)
  PROVE  LineRead(x0, r)
<1> DEFINE x == q.x
<1>1. /\ x.pos \in Nat /\ x.start \in Int /\ x.upto \in Int /\ x.endbuf \in Nat /\ Len(x.bytes) \in Nat
      /\ x.pos = x.start + x.endbuf /\ x.pos <= Len(x.bytes) /\ x.endbuf <= BUFSIZ /\ x.upto >= 0
      /\ x.start + x.upto >= 0 /\ x.mode = "read" /\ IsStream(x) /\ ForLines(x) /\ Alike(x, x0) /\ x.ungetCh = NoChar
      /\ (~InRead(x) => x.pos = Len(x.bytes) /\ x.upto >= x.endbuf)
      /\ (InRead(x) => x.upto <= x.endbuf)
  BY ForLinesIs DEF LineSoFar, ForLines
<1>2. q.processed \in Nat /\ n - q.processed >= 1 /\ (q.processed >= 1 => x.start + x.upto >= 1)
  BY DEF LineSoFar
<1>3. PICK last \in Int : last = RoomEnd(q, n) /\ last = x.upto + n - q.processed - 1 /\ x.upto <= last
  BY RoomIs
<1>4. x.start + last >= 1
  <2>0. PICK p \in Nat, a \in Int, u \in Int : p = q.processed /\ a = x.start /\ u = x.upto
    BY <1>1, <1>2
  <2>3. n - p >= 1 /\ (p >= 1 => a + u >= 1) /\ last = u + n - p - 1 /\ a + u >= 0
    BY <1>1, <1>2, <1>3, <2>0
  <2>1. CASE n - p >= 2
    <3>1. a + last >= 1
      BY <2>1, <2>3
    <3> QED
      BY <2>0, <3>1
  <2>2. CASE ~(n - p >= 2)
    <3>1. p >= 1
      BY <2>2
    <3>2. a + last >= 1
      BY <2>3, <3>1
    <3> QED
      BY <2>0, <3>2
  <2> QED
    BY <2>1, <2>2
<1>5. PICK j \in Int : /\ j = Stop(x, last) /\ x.upto <= j
                       /\ x.upto >= x.endbuf => j = x.upto
                       /\ WholeLine(x, last) => j < x.endbuf /\ j < last
  <2>1. /\ Stop(x, last) \in Int /\ x.upto <= Stop(x, last)
        /\ (x.upto >= x.endbuf => Stop(x, last) = x.upto)
        /\ (WholeLine(x, last) => Stop(x, last) < x.endbuf /\ Stop(x, last) < last)
    BY <1>1, <1>3, StopIs
  <2> QED
    BY <2>1
<1>6. CASE WholeLine(x, last)
  <2>1. j < x.endbuf
    BY <1>5, <1>6
  <2>2. InRead(x)
    BY <1>1, <1>5, <2>1
  <2>3. PICK u \in Int : u = j + 1 /\ x.upto <= u /\ u <= x.endbuf /\ x.upto # x.endbuf /\ x.start + u >= 1
    <3>1. x.upto <= j /\ j + 1 \in Int
      BY <1>5
    <3>2. x.upto <= j + 1 /\ j + 1 <= x.endbuf /\ x.upto # x.endbuf /\ x.start + (j + 1) >= 1
      BY <1>1, <2>1, <3>1
    <3> QED
      BY <3>1, <3>2
  <2>4. PICK y : y = [x EXCEPT !.upto = u, !.quickText = TRUE]
    OBVIOUS
  <2>5. /\ IsStream(y) /\ Alike(y, x) /\ y.text /\ ~y.quickBin /\ y.ungetCh = NoChar
        /\ y.endbuf # 0 /\ InRead(y) /\ y.start + y.upto >= 1
    BY <1>1, <2>2, <2>3, <2>4, GoneOn
  <2>6. r.x = y
    BY <1>3, <1>5, <1>6, <2>3, <2>4 DEF EndLine
  <2>7. Alike(y, x0)
    BY <1>1, <2>5 DEF Alike
  <2> QED
    BY <2>5, <2>6, <2>7 DEF LineRead
<1>7. CASE ~WholeLine(x, last) /\ last < x.endbuf
  <2>1. InRead(x) /\ x.upto # x.endbuf
    BY <1>1, <1>3, <1>7
  <2>2. PICK u \in Int : r.x = [x EXCEPT !.upto = u, !.quickText = TRUE] /\ (u = last \/ u = last + 1)
    <3>1. r = Cut(x, last, GotOn(q, n))
      BY <1>3, <1>7 DEF EndLine
    <3>2. CASE x.buf[last] = CR /\ x.buf[last + 1] = LF
      <4>1. r.x = [x EXCEPT !.upto = last + 1, !.quickText = TRUE]
        BY <3>1, <3>2 DEF Cut
      <4>2. last + 1 \in Int
        BY <1>3
      <4> QED
        BY <4>1, <4>2
    <3>3. CASE ~(x.buf[last] = CR /\ x.buf[last + 1] = LF)
      <4>1. r.x = [x EXCEPT !.upto = last, !.quickText = TRUE]
        BY <3>1, <3>3 DEF Cut
      <4>2. last \in Int
        BY <1>3
      <4> QED
        BY <4>1, <4>2
    <3> QED
      BY <3>2, <3>3
  <2>3. x.upto <= u /\ u <= x.endbuf /\ x.start + u >= 1
    BY <1>1, <1>3, <1>4, <1>7, <2>2
  <2>4. PICK y : y = [x EXCEPT !.upto = u, !.quickText = TRUE]
    OBVIOUS
  <2>5. /\ IsStream(y) /\ Alike(y, x) /\ y.text /\ ~y.quickBin /\ y.ungetCh = NoChar
        /\ y.endbuf # 0 /\ InRead(y) /\ y.start + y.upto >= 1
    BY <1>1, <2>1, <2>3, <2>4, GoneOn
  <2>6. r.x = y /\ Alike(y, x0)
    BY <1>1, <2>2, <2>4, <2>5 DEF Alike
  <2> QED
    BY <2>5, <2>6 DEF LineRead
<1>8. CASE ~WholeLine(x, last) /\ ~(last < x.endbuf)
  <2>1. PICK in : in = Got(x, BUFSIZ)
    OBVIOUS
  <2>2. in = << >>
    BY <1>3, <1>8, <2>1 DEF Finished
  <2>3. Len(in) = 0
    BY <2>2
  <2>4. x.pos = Len(x.bytes)
    <3>1. Len(in) \in Nat /\ (Len(in) < BUFSIZ => x.pos + Len(in) = Len(x.bytes))
      BY <1>1, <2>1, BUFSIZIs, GotLen
    <3> QED
      BY <1>1, <2>3, <3>1, BUFSIZIs
  <2>5. PICK y : y = Refilled(x)
    OBVIOUS
  <2>6. /\ IsStream(y) /\ Alike(y, x) /\ y.text /\ ~y.quickBin /\ y.mode = "read" /\ y.ungetCh = x.ungetCh
        /\ y.upto = x.upto /\ y.start = x.pos /\ y.endbuf = Len(in) /\ y.pos = x.pos + Len(in)
    BY <1>1, <2>1, <2>5, RefilledIs
  <2>7. y.upto >= 0 /\ y.start = y.pos /\ y.endbuf = 0 /\ y.pos = Len(y.bytes) /\ y.ungetCh = NoChar
    BY <1>1, <2>3, <2>4, <2>6 DEF Alike
  <2>8. r.x = y \/ r.x = [y EXCEPT !.eofInd = TRUE]
    BY <1>3, <1>8, <2>5 DEF EndLine
  <2>9. Alike(y, x0)
    BY <1>1, <2>6 DEF Alike
  <2>10. CASE r.x = y
    BY <2>6, <2>7, <2>9, <2>10 DEF LineRead, PastLine
  <2>11. CASE r.x = [y EXCEPT !.eofInd = TRUE]
    <3>1. PICK z : z = r.x
      OBVIOUS
    <3>2. IsStream(z)
      BY <2>6, <2>11, <3>1 DEF IsStream
    <3>3. /\ z.bytes = y.bytes /\ z.pos = y.pos /\ z.may = y.may /\ z.text = y.text /\ z.update = y.update /\ z.mode = y.mode
          /\ z.quickBin = y.quickBin /\ z.ungetCh = y.ungetCh /\ z.start = y.start /\ z.upto = y.upto /\ z.endbuf = y.endbuf
      BY <2>6, <2>11, <3>1 DEF IsStream
    <3>4. PastLine(z) /\ Alike(z, x0)
      BY <2>6, <2>7, <2>9, <3>3 DEF PastLine, Alike
    <3> QED
      BY <2>6, <2>7, <3>1, <3>2, <3>3, <3>4 DEF LineRead
  <2> QED
    BY <2>8, <2>10, <2>11
<1> QED
  BY <1>6, <1>7, <1>8

(* The fillings of the buffer for one line.                                *)
LineRun(q, n, m, A) ==
  A = [k \in 0 .. m |-> IF k = 0 THEN q ELSE Continued(A[k - 1], n)]

LineSteps(q, n, m, A) ==
  A[0] = q /\ \A k \in 1 .. m : A[k] = Continued(A[k - 1], n)

LEMMA LineRunIs ==
  ASSUME NEW q, NEW n, NEW m \in Nat, NEW A, LineRun(q, n, m, A)
  PROVE  LineSteps(q, n, m, A)
<1>1. A = [k \in 0 .. m |-> IF k = 0 THEN q ELSE Continued(A[k - 1], n)]
  BY DEF LineRun
<1> QED
  BY <1>1 DEF LineSteps

LEMMA LineRunThere ==
  ASSUME NEW q, NEW n, NEW m \in Nat
  PROVE  \E A : LineRun(q, n, m, A)
<1> DEFINE o == q
           N == {i \in Nat : \E A : LineRun(q, n, i, A)}
<1>1. 0 \in N
  <2> DEFINE A == [k \in 0 .. 0 |-> o]
  <2>1. A = [k \in 0 .. 0 |-> IF k = 0 THEN o ELSE Continued(A[k - 1], n)]
    <3> HIDE DEF o
    <3> QED
      OBVIOUS
  <2>2. LineRun(q, n, 0, A)
    BY <2>1 DEF LineRun
  <2> QED
    BY <2>2
<1>2. ASSUME NEW i \in Nat, i \in N PROVE i + 1 \in N
  <2>1. PICK A : LineRun(q, n, i, A)
    BY <1>2
  <2> DEFINE B == [k \in 0 .. i + 1 |-> IF k = i + 1 THEN Continued(A[i], n) ELSE A[k]]
  <2>2. ASSUME NEW k \in 0 .. i + 1
        PROVE  B[k] = IF k = 0 THEN o ELSE Continued(B[k - 1], n)
    <3>1. A[0] = o /\ \A j \in 1 .. i : A[j] = Continued(A[j - 1], n)
      BY <2>1, LineRunIs DEF LineSteps
    <3> HIDE DEF o
    <3>2. CASE k = 0
      BY <3>1, <3>2
    <3>3. CASE k = i + 1
      <4>1. k # 0 /\ k - 1 = i /\ i \in 0 .. i + 1 /\ i # i + 1
        BY <3>3
      <4> QED
        BY <3>3, <4>1
    <3>4. CASE k \in 1 .. i
      <4>1. k - 1 \in 0 .. i + 1 /\ k - 1 # i + 1 /\ k # i + 1 /\ k # 0
        BY <3>4
      <4> QED
        BY <3>1, <3>4, <4>1
    <3> QED
      BY <3>2, <3>3, <3>4
  <2>3. B = [k \in 0 .. i + 1 |-> IF k = 0 THEN o ELSE Continued(B[k - 1], n)]
    <3>1. B = [k \in 0 .. i + 1 |-> B[k]]
      OBVIOUS
    <3> HIDE DEF B, o
    <3> QED
      BY <2>2, <3>1
  <2>4. LineRun(q, n, i + 1, B)
    <3> HIDE DEF B
    <3> QED
      BY <2>3 DEF LineRun
  <2> QED
    BY <2>4
<1> QED
  <2> HIDE DEF N
  <2>1. m \in N
    BY <1>1, <1>2, SetInduction
  <2> QED
    BY <2>1 DEF N

LEMMA LineIs ==
  ASSUME NEW q, NEW n, NEW m \in Nat, m = Len(q.x.bytes)
  PROVE  \E A : LineSteps(q, n, m, A) /\ Line(q, n) = EndLine(A[m], n)
<1> DEFINE round == CHOOSE A : LineRun(q, n, m, A)
<1>1. LineRun(q, n, m, round)
  <2> HIDE DEF LineRun
  <2> QED
    BY LineRunThere
<1>2. Line(q, n) = EndLine(round[m], n)
  BY DEF Line, LineRun
<1> HIDE DEF round
<1>3. LineSteps(q, n, m, round)
  BY <1>1, LineRunIs
<1> QED
  BY <1>2, <1>3

LEMMA LineOk ==
  ASSUME NEW x0, NEW q, NEW n \in Nat, n >= 2, LineSoFar(x0, q, n), NEW r, r = Line(q, n)
  PROVE  LineRead(x0, r)
<1>0. IsStream(q.x) /\ Len(q.x.bytes) \in Nat /\ q.x.pos \in Nat
  BY DEF LineSoFar, ForLines, IsStream
<1>1. PICK m \in Nat : m = Len(q.x.bytes)
  BY <1>0
<1>2. PICK round : LineSteps(q, n, m, round) /\ Line(q, n) = EndLine(round[m], n)
  BY <1>1, LineIs
<1>3. round[0] = q /\ \A k \in 1 .. m : round[k] = Continued(round[k - 1], n)
  BY <1>2 DEF LineSteps
<1> DEFINE N == {k \in Nat : k <= m => LineSoFar(x0, round[k], n) /\ (Finished(round[k], n) \/ round[k].x.pos >= k)}
<1>4. 0 \in N
  BY <1>0, <1>3
<1>5. ASSUME NEW k \in Nat, k \in N PROVE k + 1 \in N
  <2> SUFFICES ASSUME k + 1 <= m
               PROVE  LineSoFar(x0, round[k + 1], n) /\ (Finished(round[k + 1], n) \/ round[k + 1].x.pos >= k + 1)
    OBVIOUS
  <2>1. k <= m /\ k + 1 \in 1 .. m /\ (k + 1) - 1 = k
    BY <1>1
  <2>2. LineSoFar(x0, round[k], n) /\ (Finished(round[k], n) \/ round[k].x.pos >= k)
    BY <1>5, <2>1
  <2>3. round[k + 1] = Continued(round[k], n)
    BY <1>3, <2>1
  <2>4. CASE Finished(round[k], n)
    <3>1. round[k + 1] = round[k]
      BY <2>3, <2>4 DEF Continued, Finished
    <3> QED
      BY <2>2, <2>4, <3>1
  <2>5. CASE ~Finished(round[k], n)
    <3>1. LineSoFar(x0, round[k + 1], n) /\ round[k + 1].x.pos >= round[k].x.pos + 1
      BY <2>2, <2>3, <2>5, ContinuedOk
    <3>2. round[k].x.pos \in Nat /\ round[k + 1].x.pos \in Nat
      BY <2>2, <3>1 DEF LineSoFar, ForLines, IsStream
    <3> QED
      BY <2>2, <2>5, <3>1, <3>2
  <2> QED
    BY <2>4, <2>5
<1> HIDE DEF N
<1>6. m \in N
  BY <1>1, <1>4, <1>5, SetInduction
<1>7. PICK last : last = round[m]
  OBVIOUS
<1>8. LineSoFar(x0, last, n) /\ (Finished(last, n) \/ last.x.pos >= m)
  BY <1>1, <1>6, <1>7 DEF N
<1>9. Finished(last, n)
  <2> SUFFICES ASSUME last.x.pos >= m PROVE Finished(last, n)
    BY <1>8
  <2>1. last.x.bytes = q.x.bytes
    BY <1>8 DEF LineSoFar, Alike
  <2>2. IsStream(last.x) /\ last.x.pos \in Nat /\ last.x.pos <= Len(last.x.bytes)
    BY <1>8, ForLinesIs DEF LineSoFar, ForLines
  <2>3. last.x.pos = Len(last.x.bytes)
    BY <1>1, <2>1, <2>2
  <2>4. /\ Got(last.x, BUFSIZ) \in Seq(Nat) /\ Len(Got(last.x, BUFSIZ)) \in Nat
        /\ last.x.pos + Len(Got(last.x, BUFSIZ)) <= Len(last.x.bytes)
    BY <2>2, BUFSIZIs, GotLen
  <2>5. Len(Got(last.x, BUFSIZ)) = 0
    <3>1. PICK l \in Nat, p \in Nat : l = Len(Got(last.x, BUFSIZ)) /\ p = last.x.pos
      BY <2>2, <2>4
    <3>2. p + l <= p
      BY <2>3, <2>4, <3>1
    <3>3. l = 0
      BY <3>2
    <3> QED
      BY <3>1, <3>3
  <2> QED
    BY <2>4, <2>5 DEF Finished
<1> QED
  BY <1>2, <1>7, <1>8, <1>9, EndLineOk

LEMMA FgetsOk ==
  ASSUME NEW x, ForLines(x), NEW n \in Nat, n >= 2, x.quickText => x.ungetCh = NoChar, NEW r, r = fgets(x, n)
  PROVE  LineRead(x, r)
<1>1. /\ x.pos \in Nat /\ x.start \in Int /\ x.upto \in Int /\ x.endbuf \in Nat /\ Len(x.bytes) \in Nat
      /\ x.pos = x.start + x.endbuf /\ x.pos <= Len(x.bytes) /\ x.endbuf <= BUFSIZ /\ x.upto >= 0
      /\ x.start + x.upto >= 0 /\ x.mode = "read" /\ IsStream(x)
      /\ (~InRead(x) => x.pos = Len(x.bytes) /\ x.upto >= x.endbuf /\ x.ungetCh = NoChar)
      /\ (InRead(x) => x.upto <= x.endbuf)
      /\ x.text /\ ~x.quickBin
  BY ForLinesIs DEF ForLines
<1>2. PICK last \in Int : last = x.upto + n - 1 /\ x.upto <= last
  BY <1>1
<1>3. PICK j \in Int : /\ j = Stop(x, last) /\ x.upto <= j /\ j <= last
                       /\ x.upto <= x.endbuf => j <= x.endbuf
                       /\ x.upto >= x.endbuf => j = x.upto
                       /\ WholeLine(x, last) => j < x.endbuf
  <2>1. /\ Stop(x, last) \in Int /\ x.upto <= Stop(x, last) /\ Stop(x, last) <= last
        /\ (x.upto <= x.endbuf => Stop(x, last) <= x.endbuf)
        /\ (x.upto >= x.endbuf => Stop(x, last) = x.upto)
        /\ (WholeLine(x, last) => Stop(x, last) < x.endbuf)
    BY <1>1, <1>2, StopIs
  <2> QED
    BY <2>1
<1>4. CASE x.quickText /\ WholeLine(x, last)
  <2>1. x.ungetCh = NoChar /\ InRead(x)
    BY <1>1, <1>3, <1>4
  <2>2. PICK u \in Int : u = j + 1 /\ x.upto <= u /\ u <= x.endbuf /\ x.upto # x.endbuf /\ x.start + u >= 1
    BY <1>1, <1>3, <1>4
  <2>3. PICK y : y = [x EXCEPT !.upto = u, !.quickText = TRUE]
    OBVIOUS
  <2>4. /\ IsStream(y) /\ Alike(y, x) /\ y.text /\ ~y.quickBin /\ y.ungetCh = NoChar
        /\ y.endbuf # 0 /\ InRead(y) /\ y.start + y.upto >= 1
    BY <2>1, <2>2, <2>3, GoneOn
  <2>5. r.x = [x EXCEPT !.upto = u]
    BY <1>2, <1>3, <1>4, <2>2 DEF fgets
  <2>6. y = [x EXCEPT !.upto = u]
    BY <1>1, <1>4, <2>3 DEF IsStream
  <2> QED
    BY <2>4, <2>5, <2>6 DEF LineRead
<1>5. CASE ~(x.quickText /\ WholeLine(x, last))
  <2>1. PICK u \in Int : u = IF x.quickText THEN j ELSE x.upto
    BY <1>1, <1>3
  <2>2. NoChar \in Nat \cup {NoChar}
    OBVIOUS
  <2>3. PICK y : y = [x EXCEPT !.upto = u, !.ungetCh = NoChar]
    OBVIOUS
  <2>4. IsStream(y)
    BY <1>1, <2>2, <2>3 DEF IsStream
  <2>5. /\ y.bytes = x.bytes /\ y.pos = x.pos /\ y.may = x.may /\ y.text = x.text /\ y.update = x.update /\ y.mode = x.mode
        /\ y.quickBin = x.quickBin /\ y.eofInd = x.eofInd /\ y.ungetCh = NoChar /\ y.buf = x.buf
        /\ y.start = x.start /\ y.upto = u /\ y.endbuf = x.endbuf
    BY <1>1, <2>3 DEF IsStream
  <2>6. ForLines(y)
    <3>1. CASE InRead(x)
      <4>1. x.upto <= u /\ u <= x.endbuf
        BY <1>1, <1>3, <2>1, <3>1
      <4>2. \A i : Right(x, i) => Right(y, i)
        BY <2>5 DEF Right
      <4>3. /\ \A i \in x.upto + 1 .. x.endbuf : Right(x, i)
            /\ x.upto # x.endbuf => \A i \in 1 .. x.endbuf : Right(x, i)
            /\ ~x.eofInd
        BY <3>1 DEF InRead, InStep
      <4>4. y.upto # y.endbuf => \A i \in 1 .. y.endbuf : Right(y, i)
        <5>1. u # x.endbuf => x.upto # x.endbuf
          BY <1>1, <4>1
        <5> QED
          BY <2>5, <4>2, <4>3, <5>1
      <4>5. \A i \in y.upto + 1 .. y.endbuf : Right(y, i)
        <5>1. \A i \in u + 1 .. x.endbuf : i \in x.upto + 1 .. x.endbuf
          BY <1>1, <4>1
        <5> QED
          BY <2>5, <4>2, <4>3, <5>1
      <4>6. y.upto <= y.endbuf /\ y.upto >= 0 /\ y.start + y.upto >= 0
        BY <1>1, <2>5, <4>1
      <4>7. InStep(y)
        BY <1>1, <2>5, <4>5, <4>6 DEF InStep
      <4>8. InRead(y)
        BY <2>5, <4>3, <4>4, <4>6, <4>7 DEF InRead
      <4> QED
        BY <1>1, <2>4, <2>5, <4>8 DEF ForLines
    <3>2. CASE ~InRead(x)
      <4>1. u = x.upto
        BY <1>1, <1>3, <2>1, <3>2
      <4>2. PastRead(x) => PastRead(y)
        BY <2>5, <4>1 DEF PastRead
      <4>3. PastLine(x) => PastLine(y)
        BY <2>5, <4>1 DEF PastLine
      <4> QED
        BY <1>1, <2>4, <2>5, <3>2, <4>2, <4>3 DEF ForLines
    <3> QED
      BY <3>1, <3>2
  <2> DEFINE quick == Part(x, x.upto, j)
             back == IF x.ungetCh = NoChar THEN << >> ELSE <<x.ungetCh>>
             got == (IF x.quickText THEN quick ELSE << >>) \o back
  <2>7. PICK p \in Nat : /\ p = Len(got) /\ n - p >= 1
                         /\ p >= 1 => x.start + u >= 1
    <3>1. CASE x.quickText
      <4>1. back = << >>
        BY <3>1
      <4>2. quick \in Seq(Nat) /\ Len(quick) = j - x.upto
        <5>0. Part(x, x.upto, j) = Part(x, x.upto, j)
          OBVIOUS
        <5>1. CASE j <= BUFSIZ
          <6>1. x.upto >= -1 /\ Part(x, x.upto, j) = Part(x, x.upto, j)
            BY <1>1
          <6>2. Part(x, x.upto, j) \in Seq(Nat) /\ Len(Part(x, x.upto, j)) = IF x.upto <= j THEN j - x.upto ELSE 0
            BY <1>1, <5>1, <6>1, PartIs
          <6> QED
            BY <1>3, <6>2
        <5>2. CASE ~(j <= BUFSIZ)
          <6>1. ~(x.upto <= x.endbuf)
            BY <1>1, <1>3, <5>2, BUFSIZIs
          <6>2. j = x.upto
            BY <1>1, <1>3, <6>1
          <6>3. 1 .. j - x.upto = {}
            BY <6>2
          <6>4. Part(x, x.upto, j) = << >>
            BY <6>3 DEF Part
          <6> QED
            BY <6>2, <6>4
        <5> QED
          BY <5>1, <5>2
      <4> HIDE DEF quick, back
      <4>3. got = quick \o << >>
        BY <3>1, <4>1
      <4>4. Len(got) = j - x.upto
        <5>1. << >> \in Seq(Nat) /\ Len(<< >>) = 0
          OBVIOUS
        <5>2. Len(quick \o << >>) = Len(quick) + 0
          BY <4>2, <5>1, ConcatProperties
        <5>3. Len(quick) \in Nat
          BY <4>2
        <5> HIDE DEF got
        <5> QED
          BY <4>2, <4>3, <5>2, <5>3
      <4>5. u = j
        BY <2>1, <3>1
      <4> HIDE DEF got
      <4> QED
        BY <1>1, <1>2, <1>3, <4>4, <4>5
    <3>2. CASE ~x.quickText
      <4>1. got = << >> \o back
        BY <3>2
      <4>2. u = x.upto
        BY <2>1, <3>2
      <4>3. CASE x.ungetCh = NoChar
        <5>1. Len(got) = 0
          BY <4>1, <4>3
        <5> HIDE DEF got
        <5> QED
          BY <5>1
      <4>4. CASE x.ungetCh # NoChar
        <5>1. Len(got) = 1
          <6>1. x.ungetCh \in Nat
            BY <1>1, <4>4 DEF IsStream
          <6>2. PICK b \in Seq(Nat) : b = back /\ Len(b) = 1
            <7>0. PICK c \in Nat : c = x.ungetCh
              BY <6>1
            <7>1. back = <<c>>
              BY <4>4, <7>0
            <7>2. <<c>> \in Seq(Nat) /\ Len(<<c>>) = 1
              OBVIOUS
            <7> HIDE DEF back
            <7> QED
              BY <7>1, <7>2
          <6>3. got = << >> \o b
            BY <4>1, <6>2
          <6>4. << >> \in Seq(Nat) /\ Len(<< >>) = 0
            OBVIOUS
          <6>5. Len(<< >> \o b) = 0 + 1
            BY <6>2, <6>4, ConcatProperties
          <6> HIDE DEF got
          <6> QED
            BY <6>3, <6>5
        <5>2. x.start + x.upto >= 1
          BY <1>1, <4>4 DEF InRead
        <5> HIDE DEF got
        <5> QED
          BY <4>2, <5>1, <5>2
      <4> QED
        BY <4>3, <4>4
    <3> QED
      BY <3>1, <3>2
  <2>8. PICK q : q = [x |-> y, processed |-> p, got |-> got]
    OBVIOUS
  <2>9. q.x = y /\ q.processed = p
    BY <2>8
  <2>10. LineSoFar(x, q, n)
    <3>1. Alike(y, x)
      BY <2>5 DEF Alike
    <3> HIDE DEF got
    <3> QED
      BY <2>5, <2>6, <2>7, <2>9, <3>1 DEF LineSoFar
  <2>11. r = Line(q, n)
    <3>1. y = [x EXCEPT !.upto = IF x.quickText THEN j ELSE @, !.ungetCh = NoChar]
      BY <1>1, <2>1, <2>3 DEF IsStream
    <3> QED
      BY <1>2, <1>3, <1>5, <2>7, <2>8, <3>1 DEF fgets
  <2> QED
    BY <2>10, <2>11, LineOk
<1> QED
  BY <1>4, <1>5

(***************************************************************************)
(* The stream whatever the calls before.                                   *)
(***************************************************************************)
(* What a stream is open for, and what it does.                            *)
Modes(x) ==
  /\ "read" \in x.may /\ ~x.update => x.mode = "read"
  /\ "write" \in x.may /\ x.mode = "read" => x.update
  /\ "read" \in x.may /\ "write" \in x.may => x.update
  /\ x.text => ~x.quickBin

(* C lets any call follow.                                                 *)
Anything(x) ==
  /\ InRead(x) \/ InWrite(x)
  /\ x.ungetCh = NoChar
  /\ x.quickBin => ~x.update
  /\ "write" \in x.may /\ x.mode = "read" => x.justseeked /\ x.upto = BUFSIZ /\ x.endbuf = BUFSIZ
  /\ "read" \in x.may /\ x.mode = "write" => x.justseeked

(* What the last call leaves, by what C lets follow.                       *)
Turns(x, t) ==
  /\ t \in {"any", "read", "write", "ended", "ended line"}
  /\ t = "any" => Anything(x)
  /\ t = "read" => "read" \in x.may /\ InRead(x) /\ x.start + x.upto >= 1 /\ (x.quickText => x.ungetCh = NoChar)
  /\ t = "write" => "write" \in x.may /\ InWrite(x)
  /\ t = "ended" => "read" \in x.may /\ PastRead(x)
  /\ t = "ended line" => "read" \in x.may /\ PastLine(x)

(* A stream that is open.                                                  *)
Standing(x, t) == IsStream(x) /\ x.may # {} /\ Modes(x) /\ Turns(x, t)
(* A file that is closed.                                                  *)
Resting(x, t) == IsStream(x) /\ x = NoFile(x.bytes, x.text) /\ t = "any"

StreamIInv == Standing(s, turn) \/ Resting(s, turn)

(* None of the slips happens that leave the buffer elsewhere.              *)
NoSlips == Slips \cap {"past end", "end of w", "pushed back"} = {}

LEMMA DataIs ==
  /\ Disks \subseteq [text : BOOLEAN, bytes : Seq(Nat)] /\ Writings \subseteq Seq({LF, Other})
  /\ Offsets \subseteq Int /\ Requests \subseteq Nat \ {0} /\ Rooms \subseteq Nat \ {0, 1}
  /\ LF \in Nat \ {Junk} /\ Other \in Nat \ {Junk}
BY StreamAssumption

LEMMA FreadStays ==
  ASSUME Standing(s, turn), NoSlips, NEW n \in Requests, Fread(n)
  PROVE  Standing(s', turn')
<1>0. n \in Nat /\ n >= 1
  BY DataIs
<1>1. PICK r : r = fread(s, n)
  OBVIOUS
<1>2. /\ IsStream(s) /\ Modes(s) /\ Turns(s, turn) /\ "read" \in s.may /\ (s.text => ~s.quickBin)
  BY DEF Standing, Modes, Fread, CanRead
<1>3. s' = r.x /\ turn' = IF Len(r.out) < n THEN "ended" ELSE "read"
  BY <1>1 DEF Fread
<1>4. turn \in {"any", "read", "ended"}
  BY DEF Fread, NoSlips, Slip
<1>5. CASE turn \in {"any", "read"}
  <2>1. InRead(s) \/ (InWrite(s) /\ s.justseeked /\ ~s.quickBin)
    <3>1. CASE turn = "read"
      BY <1>2, <3>1 DEF Turns
    <3>2. CASE turn = "any"
      <4>1. Anything(s)
        BY <1>2, <3>2 DEF Turns
      <4>2. InWrite(s) => s.mode = "write"
        BY DEF InWrite
      <4>3. s.mode = "write" => s.mode # "read"
        OBVIOUS
      <4>4. s.mode = "write" => s.update
        BY <1>2, <4>3 DEF Modes, IsStream
      <4> QED
        BY <1>2, <4>1, <4>2, <4>4 DEF Anything
    <3> QED
      BY <1>5, <3>1, <3>2
  <2>2. ReadOk(s, n, r)
    BY <1>0, <1>1, <1>2, <2>1, FreadOk
  <2>3. /\ IsStream(r.x) /\ Alike(r.x, s) /\ (s.text => ~r.x.quickBin) /\ Len(r.out) \in Nat /\ Len(r.out) <= n
        /\ (Len(r.out) = n => InRead(r.x) /\ r.x.ungetCh = NoChar /\ r.x.start + r.x.upto >= 1)
        /\ (Len(r.out) < n => Short(r.x))
    BY <2>2 DEF ReadOk
  <2>4. CASE Len(r.out) < n
    <3>1. PastRead(r.x)
      BY <2>3, <2>4, ShortIsPast
    <3>2. r.x.mode = "read"
      BY <3>1 DEF PastRead
    <3>3. turn' = "ended"
      BY <1>3, <2>4
    <3>4. Modes(r.x) /\ r.x.may # {} /\ "read" \in r.x.may
      BY <1>2, <2>3, <3>2 DEF Modes, Alike
    <3> QED
      BY <1>3, <2>3, <3>1, <3>3, <3>4 DEF Standing, Turns
  <2>5. CASE ~(Len(r.out) < n)
    <3>1. InRead(r.x) /\ r.x.ungetCh = NoChar /\ r.x.start + r.x.upto >= 1
      BY <1>0, <2>3, <2>5
    <3>2. r.x.mode = "read"
      BY <3>1 DEF InRead, InStep
    <3>3. turn' = "read"
      BY <1>3, <2>5
    <3>4. Modes(r.x) /\ r.x.may # {} /\ "read" \in r.x.may
      BY <1>2, <2>3, <3>2 DEF Modes, Alike
    <3> QED
      BY <1>3, <2>3, <3>1, <3>3, <3>4 DEF Standing, Turns
  <2> QED
    BY <2>4, <2>5
<1>6. CASE turn = "ended"
  <2>1. PastRead(s)
    BY <1>2, <1>6 DEF Turns
  <2>2. /\ IsStream(r.x) /\ Alike(r.x, s) /\ (r.x.text => ~r.x.quickBin) /\ PastRead(r.x) /\ Len(r.out) < n
    BY <1>0, <1>1, <1>2, <2>1, FreadPast
  <2>3. r.x.mode = "read"
    BY <2>2 DEF PastRead
  <2>4. turn' = "ended"
    BY <1>3, <2>2
  <2>5. Modes(r.x) /\ r.x.may # {} /\ "read" \in r.x.may
    BY <1>2, <2>2, <2>3 DEF Modes, Alike
  <2> QED
    BY <1>3, <2>2, <2>4, <2>5 DEF Standing, Turns
<1> QED
  BY <1>4, <1>5, <1>6

LEMMA FgetsStays ==
  ASSUME Standing(s, turn), NoSlips, NEW n \in Rooms, Fgets(n)
  PROVE  Standing(s', turn')
<1>0. n \in Nat /\ n >= 2
  BY DataIs
<1>1. PICK r : r = fgets(s, n)
  OBVIOUS
<1>2. /\ IsStream(s) /\ Modes(s) /\ Turns(s, turn) /\ "read" \in s.may /\ s.text /\ ~s.update /\ ~s.quickBin /\ turn # "write"
  BY DEF Standing, Modes, Fgets, CanRead
<1>3. s' = r.x /\ turn' = IF r.x.endbuf = 0 THEN "ended line" ELSE "read"
  BY <1>1 DEF Fgets
<1>4. s.mode = "read" /\ ~InWrite(s)
  BY <1>2 DEF Modes, InWrite
<1>5. ForLines(s) /\ (s.quickText => s.ungetCh = NoChar)
  <2>1. CASE turn = "any"
    BY <1>2, <1>4, <2>1 DEF Turns, Anything, ForLines
  <2>2. CASE turn = "read"
    BY <1>2, <2>2 DEF Turns, ForLines
  <2>3. CASE turn = "ended"
    BY <1>2, <2>3 DEF Turns, ForLines, PastRead
  <2>4. CASE turn = "ended line"
    BY <1>2, <2>4 DEF Turns, ForLines, PastLine
  <2> QED
    BY <1>2, <2>1, <2>2, <2>3, <2>4 DEF Turns
<1>6. LineRead(s, r)
  BY <1>0, <1>1, <1>5, FgetsOk
<1>7. /\ IsStream(r.x) /\ Alike(r.x, s) /\ r.x.text /\ ~r.x.quickBin /\ r.x.ungetCh = NoChar
      /\ (r.x.endbuf = 0 => PastLine(r.x)) /\ (r.x.endbuf # 0 => InRead(r.x) /\ r.x.start + r.x.upto >= 1)
  BY <1>6 DEF LineRead
<1>8. Modes(r.x) /\ r.x.may # {} /\ "read" \in r.x.may
  <2>1. r.x.mode = "read"
    BY <1>7 DEF PastLine, InRead, InStep
  <2> QED
    BY <1>2, <1>7, <2>1 DEF Modes, Alike
<1>9. CASE r.x.endbuf = 0
  <2>1. turn' = "ended line"
    BY <1>3, <1>9
  <2> QED
    BY <1>3, <1>7, <1>8, <1>9, <2>1 DEF Standing, Turns
<1>10. CASE r.x.endbuf # 0
  <2>1. turn' = "read"
    BY <1>3, <1>10
  <2> QED
    BY <1>3, <1>7, <1>8, <1>10, <2>1 DEF Standing, Turns
<1> QED
  BY <1>9, <1>10

LEMMA UngetcStays ==
  ASSUME Standing(s, turn), Ungetc
  PROVE  Standing(s', turn')
<1>1. /\ IsStream(s) /\ Modes(s) /\ turn = "read" /\ turn' = turn /\ s.ungetCh = NoChar /\ "read" \in s.may
      /\ InRead(s) /\ s.start + s.upto >= 1 /\ s.may # {}
  BY DEF Standing, Turns, Ungetc
<1>2. At = s.start + s.upto
  <2>1. s.start \in Int /\ s.upto \in Int
    BY <1>1 DEF IsStream
  <2>2. At = (s.start + s.upto) - 0
    <3>1. ~Ended
      BY <1>1 DEF Ended
    <3>2. At = ftell(s) - 0
      BY <1>1, <3>1 DEF At
    <3> QED
      BY <3>2 DEF ftell
  <2> QED
    BY <2>1, <2>2
<1>3. PICK c \in Nat : c = s.bytes[At]
  <2>1. /\ s.bytes \in Seq(Nat) /\ s.start \in Int /\ s.upto \in Int /\ s.endbuf \in Nat /\ s.pos = s.start + s.endbuf
        /\ s.pos <= Len(s.bytes) /\ s.upto <= s.endbuf /\ Len(s.bytes) \in Nat
    BY <1>1 DEF IsStream, InRead, InStep
  <2>2. At \in 1 .. Len(s.bytes)
    BY <1>1, <1>2, <2>1
  <2> QED
    BY <2>1, <2>2
<1>4. PICK y : y = s'
  OBVIOUS
<1>5. y = [s EXCEPT !.ungetCh = c, !.quickBin = FALSE, !.quickText = FALSE]
  BY <1>3, <1>4 DEF Ungetc
<1>6. IsStream(y)
  <2>1. c \in Nat \cup {NoChar}
    BY <1>3
  <2> QED
    BY <1>1, <1>5, <2>1 DEF IsStream
<1>7. /\ y.bytes = s.bytes /\ y.pos = s.pos /\ y.may = s.may /\ y.text = s.text /\ y.update = s.update /\ y.mode = s.mode
      /\ ~y.quickBin /\ ~y.quickText /\ y.eofInd = s.eofInd /\ y.ungetCh = c /\ y.buf = s.buf
      /\ y.start = s.start /\ y.upto = s.upto /\ y.endbuf = s.endbuf
  BY <1>1, <1>5 DEF IsStream
<1>8. InRead(y)
  BY <1>1, <1>2, <1>3, <1>7 DEF InRead, InStep, Right
<1>9. Modes(y)
  BY <1>1, <1>7 DEF Modes
<1> QED
  BY <1>1, <1>4, <1>6, <1>7, <1>8, <1>9 DEF Standing, Turns

(* Where C lets a write follow, the stream is ready for it.                *)
LEMMA WriteReady ==
  ASSUME Standing(s, turn), NoSlips, NEW data \in Seq({LF, Other}), CanPut(data)
  PROVE  ToBeWritten(s) /\ Fresh(data) \in Seq(Nat \ {Junk}) /\ Len(Fresh(data)) = Len(data) /\ "write" \in s.may
<1>1. /\ IsStream(s) /\ Modes(s) /\ Turns(s, turn) /\ "write" \in s.may /\ (s.text => ~s.quickBin)
  BY DEF Standing, Modes, CanPut, CanWrite
<1>2. turn \in {"any", "write"}
  BY DEF CanPut, NoSlips, Slip
<1>3. ToBeWritten(s)
  <2>1. CASE turn = "write"
    BY <1>1, <2>1 DEF Turns, ToBeWritten
  <2>2. CASE turn = "any"
    <3>1. Anything(s)
      BY <1>1, <2>2 DEF Turns
    <3>2. CASE InWrite(s)
      BY <1>1, <3>2 DEF ToBeWritten
    <3>3. CASE InRead(s)
      <4>1. s.mode = "read"
        BY <3>3 DEF InRead, InStep
      <4>2. s.update
        BY <1>1, <4>1 DEF Modes
      <4> QED
        BY <1>1, <3>1, <3>3, <4>1, <4>2 DEF Anything, ToBeWritten
    <3> QED
      BY <3>1, <3>2, <3>3 DEF Anything
  <2> QED
    BY <1>2, <2>1, <2>2
<1>4. PICK a \in Nat : a = At
  <2>1. s.ungetCh = NoChar /\ s.start + s.upto >= 0 /\ s.start \in Int /\ s.upto \in Int
    BY <1>3, BUFSIZIs DEF ToBeWritten, InWrite, InRead, InStep, IsStream
  <2>2. At = (s.start + s.upto) - 0
    <3>1. ~Ended
      BY <1>2 DEF Ended
    <3>2. At = ftell(s) - 0
      BY <2>1, <3>1 DEF At
    <3> QED
      BY <3>2 DEF ftell
  <2> QED
    BY <2>1, <2>2
<1>5. \A k \in 1 .. Len(data) : (IF data[k] = LF THEN LF ELSE Other + At + k) \in Nat \ {Junk}
  <2> TAKE k \in 1 .. Len(data)
  <2>1. Other + a + k \in Nat /\ Other + a + k # 0
    BY <1>4, DataIs
  <2> QED
    BY <1>4, <2>1, DataIs, BUFSIZIs
<1>6. Fresh(data) = [k \in 1 .. Len(data) |-> IF data[k] = LF THEN LF ELSE Other + At + k]
  BY DEF Fresh
<1>7. PICK m \in Nat : m = Len(data)
  OBVIOUS
<1>8. Fresh(data) \in [1 .. m -> Nat \ {Junk}]
  BY <1>5, <1>6, <1>7
<1> QED
  BY <1>1, <1>3, <1>7, <1>8

LEMMA WrittenStays ==
  ASSUME Standing(s, turn), "write" \in s.may, NEW y, IsStream(y), SameFile(y, s), InWrite(y), s.text => ~y.quickBin
  PROVE  Standing(y, "write")
<1>1. y.may = s.may /\ y.text = s.text /\ y.update = s.update /\ y.mode = "write"
  BY DEF SameFile, InWrite
<1>2. Modes(y)
  <2>1. y.mode # "read"
    BY <1>1
  <2>2. "read" \in y.may => y.update
    BY <1>1 DEF Standing, Modes
  <2> QED
    BY <1>1, <2>1, <2>2 DEF Modes
<1> QED
  BY <1>1, <1>2 DEF Standing, Turns

LEMMA FwriteStays ==
  ASSUME Standing(s, turn), NoSlips, NEW data \in Writings, Fwrite(data)
  PROVE  Standing(s', turn')
<1>1. PICK d : d = Fresh(data)
  OBVIOUS
<1>2. ToBeWritten(s) /\ d \in Seq(Nat \ {Junk}) /\ "write" \in s.may
  <2>1. data \in Seq({LF, Other}) /\ CanPut(data)
    BY DataIs DEF Fwrite
  <2> QED
    BY <1>1, <2>1, WriteReady
<1>3. PICK y : y = fwrite(s, d)
  OBVIOUS
<1>4. IsStream(y) /\ SameFile(y, s) /\ InWrite(y) /\ (s.text => ~y.quickBin)
  BY <1>2, <1>3, FwriteOk
<1>5. s' = y /\ turn' = "write"
  BY <1>1, <1>3 DEF Fwrite
<1> QED
  BY <1>2, <1>4, <1>5, WrittenStays

LEMMA FputcStays ==
  ASSUME Standing(s, turn), NoSlips, NEW c \in {LF, Other}, Fputc(c)
  PROVE  Standing(s', turn')
<1>1. PICK d : d = Fresh(<<c>>)
  OBVIOUS
<1>2. ToBeWritten(s) /\ d \in Seq(Nat \ {Junk}) /\ Len(d) = 1 /\ "write" \in s.may
  <2>1. <<c>> \in Seq({LF, Other}) /\ CanPut(<<c>>) /\ Len(<<c>>) = 1
    BY DEF Fputc
  <2> QED
    BY <1>1, <2>1, WriteReady
<1>3. d[1] \in Nat \ {Junk}
  <2>1. 1 \in 1 .. Len(d)
    BY <1>2
  <2> QED
    BY <1>2, <2>1, ElementOfSeq
<1>4. PICK y : y = fputc(s, d[1])
  OBVIOUS
<1>5. IsStream(y) /\ SameFile(y, s) /\ InWrite(y) /\ (s.text => ~y.quickBin)
  BY <1>2, <1>3, <1>4, FputcOk
<1>6. s' = y /\ turn' = "write"
  BY <1>1, <1>4 DEF Fputc
<1> QED
  BY <1>2, <1>5, <1>6, WrittenStays

(* Where the stream is.                                                    *)
LEMMA StandsIn ==
  ASSUME NEW x, NEW t, Standing(x, t)
  PROVE  /\ IsStream(x) /\ Modes(x) /\ x.may # {} /\ (x.text => ~x.quickBin)
         /\ InRead(x) \/ InWrite(x) \/ PastRead(x) \/ PastLine(x)
         /\ t \in {"any", "read", "write"} => InRead(x) \/ InWrite(x)
         /\ InWrite(x) \/ x.mode = "read"
<1>1. IsStream(x) /\ Modes(x) /\ x.may # {} /\ (x.text => ~x.quickBin)
  BY DEF Standing, Modes
<1>2. InRead(x) \/ InWrite(x) \/ PastRead(x) \/ PastLine(x)
  BY DEF Standing, Turns, Anything
<1>3. t \in {"any", "read", "write"} => InRead(x) \/ InWrite(x)
  BY DEF Standing, Turns, Anything
<1>4. (InRead(x) \/ PastRead(x) \/ PastLine(x)) => x.mode = "read"
  BY DEF InRead, InStep, PastRead, PastLine
<1> QED
  BY <1>1, <1>2, <1>3, <1>4

(* After fseek, C lets any call follow.                                    *)
LEMMA AnythingAfter ==
  ASSUME NEW x, IsStream(x), Modes(x), x.may # {}, NEW new, NEW v, Seeked(v, x, new)
  PROVE  Standing(v, "any")
<1>1. /\ IsStream(v) /\ v.mode = x.mode /\ v.justseeked /\ ~v.quickBin /\ v.ungetCh = NoChar
      /\ v.may = x.may /\ v.text = x.text /\ v.update = x.update
      /\ (x.mode = "read" => InRead(v) /\ (x.update => v.upto = BUFSIZ /\ v.endbuf = BUFSIZ))
      /\ (x.mode = "write" => InWrite(v))
  BY DEF Seeked, SameFile
<1>2. Modes(v)
  BY <1>1 DEF Modes
<1>3. x.mode \in {"read", "write"}
  BY DEF IsStream
<1>4. Anything(v)
  BY <1>1, <1>2, <1>3 DEF Anything, Modes
<1> QED
  BY <1>1, <1>2, <1>4 DEF Standing, Turns

LEMMA ContentLen ==
  ASSUME Standing(s, turn)
  PROVE  /\ s.mode = "read" => Content = s.bytes
         /\ InWrite(s) => Len(Content) = Len(FlushOut(s).bytes)
<1>1. isopen
  BY DEF isopen, Standing
<1>2. ASSUME s.mode = "read" PROVE Content = s.bytes
  BY <1>2 DEF Content
<1>3. ASSUME InWrite(s) PROVE Len(Content) = Len(FlushOut(s).bytes)
  <2>1. Content = Over(s.bytes, s.pos, Part(s, 0, s.upto))
    BY <1>1, <1>3 DEF Content, InWrite
  <2>2. IsStream(s)
    BY DEF Standing
  <2> QED
    BY <1>3, <2>1, <2>2, FlushOutOk
<1> QED
  BY <1>2, <1>3

(* What fseek to a place that is told leaves.                              *)
LEMMA PlaceSought ==
  ASSUME Standing(s, turn), NEW new \in Nat, new <= Len(Content)
  PROVE  Seeked(SeekTo(s, new), s, new)
<1>1. IsStream(s) /\ Modes(s) /\ s.may # {} /\ (InRead(s) \/ InWrite(s) \/ PastRead(s) \/ PastLine(s))
      /\ (InWrite(s) \/ s.mode = "read")
  BY StandsIn
<1>2. \/ s.mode = "read" /\ new <= Len(s.bytes) /\ Known(s, new)
      \/ InWrite(s) /\ new <= Len(FlushOut(s).bytes)
  <2>1. CASE InWrite(s)
    BY <2>1, ContentLen
  <2>2. CASE ~InWrite(s)
    <3>1. s.mode = "read" /\ new <= Len(s.bytes) /\ new \in Int
      BY <1>1, <2>2, ContentLen
    <3>2. CASE InRead(s)
      BY <1>1, <3>1, <3>2, ReadKnown
    <3>3. CASE PastRead(s)
      BY <1>1, <3>1, <3>3, PastKnown
    <3>4. CASE PastLine(s)
      <4>1. s.pos = s.start + s.endbuf /\ s.pos = Len(s.bytes) /\ s.endbuf = 0 /\ s.endbuf <= BUFSIZ /\ 1 .. s.endbuf = {}
            /\ s.pos <= Len(s.bytes)
        BY <1>1, <3>4, BUFSIZIs DEF PastLine, IsStream
      <4> QED
        BY <3>1, <4>1 DEF Known
    <3> QED
      BY <1>1, <2>2, <3>2, <3>3, <3>4
  <2> QED
    BY <2>1, <2>2
<1> QED
  BY <1>1, <1>2, SeekToOk

(* A place in the file can be gone to from everywhere, after a read that   *)
(* came short as well.                                                     *)
LEMMA PlaceStays ==
  ASSUME Standing(s, turn), NEW new \in Nat, new <= Len(Content)
  PROVE  Standing(SeekTo(s, new), "any")
<1>1. IsStream(s) /\ Modes(s) /\ s.may # {}
  BY StandsIn
<1>2. Seeked(SeekTo(s, new), s, new)
  BY PlaceSought
<1> QED
  BY <1>1, <1>2, AnythingAfter

LEMMA FseekSetStays ==
  ASSUME Standing(s, turn), NEW i \in Places, FseekSet(i)
  PROVE  Standing(s', turn')
<1>1. i \in Nat /\ i <= Len(Content)
  BY DEF Places
<1>2. Standing(SeekTo(s, i), "any")
  BY <1>1, PlaceStays
<1> QED
  BY <1>2 DEF FseekSet, Sought

LEMMA FseekCurStays ==
  ASSUME Standing(s, turn), NoSlips, NEW offset \in Offsets, FseekCur(offset)
  PROVE  Standing(s', turn')
<1>1. ~Ended /\ s.ungetCh = NoChar /\ At + offset \in Places
  BY DEF FseekCur, NoSlips, Slip
<1>2. PICK new \in Nat : new = At + offset /\ new <= Len(Content)
  BY <1>1 DEF Places
<1>3. ftell(s) + offset = new
  <2>1. s.start \in Int /\ s.upto \in Int /\ offset \in Int
    BY DataIs DEF Standing, IsStream
  <2>2. At = (s.start + s.upto) - 0
    <3>1. At = ftell(s) - 0
      BY <1>1 DEF At
    <3> QED
      BY <3>1 DEF ftell
  <2> QED
    BY <1>2, <2>1, <2>2 DEF ftell
<1>4. Standing(SeekTo(s, new), "any")
  BY <1>2, PlaceStays
<1>5. s' = SeekTo(s, ftell(s) + offset) /\ turn' = "any"
  BY DEF FseekCur, Sought
<1> QED
  BY <1>3, <1>4, <1>5

LEMMA EndStays ==
  ASSUME NEW x, IsStream(x), x.may # {}, x.text => ~x.quickBin, InRead(x) \/ InWrite(x),
         "read" \in x.may \/ x.update, "read" \in x.may /\ "write" \in x.may => x.update
  PROVE  Standing(SeekEnd(x), "any")
<1>1. PICK v : v = SeekEnd(x)
  OBVIOUS
<1>2. /\ IsStream(v) /\ SameFile(v, x) /\ v.mode = "read" /\ v.justseeked /\ ~v.quickBin /\ v.ungetCh = NoChar /\ InRead(v)
      /\ (x.update => v.upto = BUFSIZ /\ v.endbuf = BUFSIZ)
  BY <1>1, SeekEndOk
<1>3. v.may = x.may /\ v.text = x.text /\ v.update = x.update
  BY <1>2 DEF SameFile
<1>4. "write" \in v.may => v.update
  BY <1>3
<1>5. Modes(v) /\ Anything(v)
  BY <1>2, <1>3, <1>4 DEF Modes, Anything
<1> QED
  BY <1>1, <1>2, <1>3, <1>5 DEF Standing, Turns

LEMMA FseekEndStays ==
  ASSUME Standing(s, turn), NoSlips, FseekEnd
  PROVE  Standing(s', turn')
<1>1. ~Ended /\ ("read" \in s.may \/ s.update)
  BY DEF FseekEnd, NoSlips, Slip, CanRead
<1>2. turn \in {"any", "read", "write"}
  BY <1>1 DEF Ended, Standing, Turns
<1>3. IsStream(s) /\ Modes(s) /\ s.may # {} /\ (s.text => ~s.quickBin) /\ (InRead(s) \/ InWrite(s))
  BY <1>2, StandsIn
<1>4. "read" \in s.may /\ "write" \in s.may => s.update
  BY <1>3 DEF Modes
<1>5. Standing(SeekEnd(s), "any")
  BY <1>1, <1>3, <1>4, EndStays
<1> QED
  BY <1>5 DEF FseekEnd, Sought

LEMMA FflushStays ==
  ASSUME Standing(s, turn), Fflush
  PROVE  Standing(s', turn')
<1>1. IsStream(s) /\ Modes(s) /\ s.may # {} /\ (InWrite(s) \/ s.mode = "read")
  BY StandsIn
<1>2. s' = FlushOut(s) /\ turn' = turn /\ turn \in {"any", "write"} /\ "write" \in s.may
  BY DEF Fflush, CanWrite
<1>3. CASE s.mode = "read"
  <2>1. FlushOut(s) = s
    BY <1>3 DEF FlushOut
  <2> QED
    BY <1>2, <2>1
<1>4. CASE InWrite(s)
  <2>1. PICK y : y = FlushOut(s)
    OBVIOUS
  <2>2. IsStream(y) /\ SameFile(y, s) /\ InWrite(y) /\ y.quickBin = s.quickBin /\ y.justseeked = s.justseeked
    BY <1>1, <1>4, <2>1, FlushOutOk
  <2>3. y.may = s.may /\ y.text = s.text /\ y.update = s.update /\ y.mode = "write" /\ s.mode = "write" /\ y.ungetCh = NoChar
    BY <1>4, <2>2 DEF SameFile, InWrite
  <2>4. Modes(y)
    BY <1>1, <2>2, <2>3 DEF Modes
  <2>5. turn = "any" => Anything(y)
    <3>1. turn = "any" => Anything(s)
      BY DEF Standing, Turns
    <3> QED
      BY <2>2, <2>3, <3>1 DEF Anything
  <2> QED
    BY <1>1, <1>2, <2>1, <2>2, <2>3, <2>4, <2>5 DEF Standing, Turns
<1> QED
  BY <1>1, <1>3, <1>4

(* A file that is closed.                                                  *)
LEMMA NoFileIs ==
  ASSUME NEW b \in Seq(Nat), NEW t \in BOOLEAN
  PROVE  Resting(NoFile(b, t), "any")
<1>1. PICK e \in [0 .. BUFSIZ -> Nat] : e = Empty
  BY EmptyIs
<1>2. PICK y : y = NoFile(b, t)
  OBVIOUS
<1>3. y = [bytes |-> b, pos |-> 0, may |-> {}, text |-> t, update |-> FALSE, mode |-> "read",
           quickBin |-> FALSE, quickText |-> FALSE, justseeked |-> FALSE, eofInd |-> FALSE, ungetCh |-> NoChar,
           buf |-> e, start |-> 0, upto |-> 0, endbuf |-> 0]
  BY <1>1, <1>2 DEF NoFile
<1>4. IsStream(y)
  <2>1. {} \in SUBSET {"read", "write"} /\ NoChar \in Nat \cup {NoChar}
    OBVIOUS
  <2> QED
    BY <1>3, <2>1 DEF IsStream
<1>5. y.bytes = b /\ y.text = t
  BY <1>3
<1> QED
  BY <1>2, <1>4, <1>5 DEF Resting

LEMMA FcloseStays ==
  ASSUME Standing(s, turn), Fclose
  PROVE  Resting(s', turn')
<1>1. IsStream(s) /\ (InWrite(s) \/ s.mode = "read")
  BY StandsIn
<1>2. FlushOut(s).bytes \in Seq(Nat) /\ s.text \in BOOLEAN
  <2>1. CASE s.mode = "read"
    BY <1>1, <2>1 DEF FlushOut, IsStream
  <2>2. CASE InWrite(s)
    <3>1. PICK y : y = FlushOut(s)
      OBVIOUS
    <3>2. IsStream(y)
      BY <1>1, <2>2, <3>1, FlushOutOk
    <3> QED
      BY <1>1, <3>1, <3>2 DEF IsStream
  <2> QED
    BY <1>1, <2>1, <2>2
<1>3. s' = NoFile(FlushOut(s).bytes, s.text) /\ turn' = "any"
  BY DEF Fclose
<1> QED
  BY <1>2, <1>3, NoFileIs

(* The stream before the end is sought to append.                          *)
NewStream(y, base, plus) ==
  /\ IsStream(y) /\ Modes(y) /\ y.text = s.text /\ y.update = (plus \/ base = "a")
  /\ y.may = {x \in {"read", "write"} : plus \/ (x = "read" <=> base = "r")} /\ y.may # {}
  /\ y.ungetCh = NoChar /\ y.justseeked = y.update /\ (y.quickBin => ~y.update)
  /\ base = "w" => InWrite(y) /\ y.bytes = << >> /\ y.start = 0 /\ y.upto = 0
  /\ base # "w" => /\ InRead(y) /\ y.bytes = s.bytes /\ y.start + y.upto = 0 /\ y.upto = BUFSIZ /\ y.endbuf = BUFSIZ

LEMMA OpenedIs ==
  ASSUME Resting(s, turn), NEW base \in {"r", "w", "a"}, NEW plus \in BOOLEAN
  PROVE  \E y : NewStream(y, base, plus) /\ Opened(base, plus) = IF base = "a" THEN SeekEnd(y) ELSE y
<1>1. s.bytes \in Seq(Nat) /\ s.text \in BOOLEAN
  BY DEF Resting, IsStream
<1> DEFINE u == plus \/ base = "a"
           w == base = "w"
           m == {x \in {"read", "write"} : plus \/ (x = "read" <=> base = "r")}
           k == ~s.text /\ ~u
           x == [NoFile(IF w THEN << >> ELSE s.bytes, s.text) EXCEPT
                   !.may = m, !.update = u, !.justseeked = u, !.quickBin = k,
                   !.mode = IF w THEN "write" ELSE "read", !.endbuf = BUFSIZ,
                   !.start = IF w THEN 0 ELSE -BUFSIZ, !.upto = IF w THEN 0 ELSE BUFSIZ]
<1>2. PICK e \in [0 .. BUFSIZ -> Nat] : e = Empty
  BY EmptyIs
<1>3. PICK b \in Seq(Nat), z \in Nat, a \in Int, i \in Int, d \in {"read", "write"} :
        /\ z = 0
        /\ w => b = << >> /\ a = 0 /\ i = 0 /\ d = "write"
        /\ ~w => b = s.bytes /\ a = -BUFSIZ /\ i = BUFSIZ /\ d = "read"
  <2>1. << >> \in Seq(Nat) /\ 0 \in Nat /\ 0 \in Int /\ -BUFSIZ \in Int /\ BUFSIZ \in Int
    BY BUFSIZIs
  <2>2. CASE w
    BY <2>1, <2>2
  <2>3. CASE ~w
    BY <1>1, <2>1, <2>3
  <2> QED
    BY <2>2, <2>3
<1>4. u \in BOOLEAN /\ w \in BOOLEAN /\ m \in SUBSET {"read", "write"}
  OBVIOUS
<1>5. k \in BOOLEAN /\ (s.text => ~k) /\ (k => ~u)
  OBVIOUS
<1>6. x = [bytes |-> b, pos |-> z, may |-> m, text |-> s.text, update |-> u, mode |-> d,
           quickBin |-> k, quickText |-> FALSE, justseeked |-> u, eofInd |-> FALSE, ungetCh |-> NoChar,
           buf |-> e, start |-> a, upto |-> i, endbuf |-> BUFSIZ]
  <2> HIDE DEF u, m, k
  <2>1. CASE w
    <3>1. b = << >> /\ a = 0 /\ i = 0 /\ d = "write" /\ z = 0
      BY <1>3, <2>1
    <3>2. PICK f : f = NoFile(b, s.text)
      OBVIOUS
    <3>3. f = [bytes |-> b, pos |-> z, may |-> {}, text |-> s.text, update |-> FALSE, mode |-> "read",
               quickBin |-> FALSE, quickText |-> FALSE, justseeked |-> FALSE, eofInd |-> FALSE, ungetCh |-> NoChar,
               buf |-> e, start |-> 0, upto |-> 0, endbuf |-> 0]
      BY <1>2, <3>1, <3>2 DEF NoFile
    <3>4. x = [f EXCEPT !.may = m, !.update = u, !.justseeked = u, !.quickBin = k,
                        !.mode = d, !.endbuf = BUFSIZ, !.start = a, !.upto = i]
      BY <2>1, <3>1, <3>2
    <3> HIDE DEF x
    <3> QED
      BY <3>3, <3>4
  <2>2. CASE ~w
    <3>1. b = s.bytes /\ a = -BUFSIZ /\ i = BUFSIZ /\ d = "read" /\ z = 0
      BY <1>3, <2>2
    <3>2. PICK f : f = NoFile(b, s.text)
      OBVIOUS
    <3>3. f = [bytes |-> b, pos |-> z, may |-> {}, text |-> s.text, update |-> FALSE, mode |-> "read",
               quickBin |-> FALSE, quickText |-> FALSE, justseeked |-> FALSE, eofInd |-> FALSE, ungetCh |-> NoChar,
               buf |-> e, start |-> 0, upto |-> 0, endbuf |-> 0]
      BY <1>2, <3>1, <3>2 DEF NoFile
    <3>4. x = [f EXCEPT !.may = m, !.update = u, !.justseeked = u, !.quickBin = k,
                        !.mode = d, !.endbuf = BUFSIZ, !.start = a, !.upto = i]
      BY <2>2, <3>1, <3>2
    <3> HIDE DEF x
    <3> QED
      BY <3>3, <3>4
  <2> QED
    BY <2>1, <2>2
<1>7. Opened(base, plus) = IF base = "a" THEN SeekEnd(x) ELSE x
  BY DEF Opened
<1>8. PICK y : y = x
  OBVIOUS
<1>9. /\ "read" \in m => plus \/ base = "r"
      /\ "write" \in m => u \/ base = "w"
      /\ "read" \in m /\ "write" \in m => plus
      /\ m # {}
  <2>1. base = "r" => "read" \in m
    OBVIOUS
  <2>2. base # "r" => "write" \in m
    OBVIOUS
  <2> QED
    BY <2>1, <2>2
<1>10. u <=> (plus \/ base = "a")
  OBVIOUS
<1>11. w <=> base = "w"
  OBVIOUS
<1> HIDE DEF x, u, m, w, k
<1>12. /\ y.bytes = b /\ y.pos = z /\ y.may = m /\ y.text = s.text /\ y.update = u /\ y.mode = d
       /\ y.quickBin = k /\ y.justseeked = u /\ ~y.eofInd /\ y.ungetCh = NoChar
       /\ y.start = a /\ y.upto = i /\ y.endbuf = BUFSIZ
  BY <1>6, <1>8
<1>13. IsStream(y)
  <2>1. NoChar \in Nat \cup {NoChar} /\ BUFSIZ \in Nat
    BY BUFSIZIs
  <2> QED
    BY <1>1, <1>2, <1>3, <1>4, <1>5, <1>6, <1>8, <2>1 DEF IsStream
<1>14. w => InWrite(y)
  <2> SUFFICES ASSUME w PROVE InWrite(y)
    OBVIOUS
  <2>1. b = << >> /\ a = 0 /\ i = 0 /\ d = "write" /\ z = 0
    BY <1>3
  <2>2. y.pos <= Len(y.bytes) /\ y.upto \in 0 .. BUFSIZ /\ 1 .. y.upto = {}
    BY <1>12, <2>1, BUFSIZIs
  <2> QED
    BY <1>12, <2>1, <2>2 DEF InWrite
<1>15. ~w => InRead(y)
  <2> SUFFICES ASSUME ~w PROVE InRead(y)
    OBVIOUS
  <2>1. b = s.bytes /\ a = -BUFSIZ /\ i = BUFSIZ /\ d = "read" /\ z = 0
    BY <1>3
  <2>2. Len(b) \in Nat /\ BUFSIZ \in Nat
    BY BUFSIZIs
  <2>3. /\ y.pos = y.start + y.endbuf /\ y.pos <= Len(y.bytes) /\ y.endbuf <= BUFSIZ /\ y.upto <= y.endbuf /\ y.upto = y.endbuf
        /\ y.start + y.upto >= 0 /\ y.upto >= 0 /\ y.upto + 1 .. y.endbuf = {}
    BY <1>12, <2>1, <2>2
  <2>4. InStep(y)
    BY <1>12, <2>1, <2>3 DEF InStep
  <2> QED
    BY <1>12, <2>3, <2>4 DEF InRead
<1>16. Modes(y)
  <2>1. d = "read" <=> ~w
    BY <1>3
  <2> QED
    BY <1>5, <1>9, <1>10, <1>11, <1>12, <2>1 DEF Modes
<1>17. m = {c \in {"read", "write"} : plus \/ (c = "read" <=> base = "r")}
  BY DEF m
<1>18. base # "w" => y.start + y.upto = 0 /\ y.upto = BUFSIZ /\ y.bytes = s.bytes
  BY <1>3, <1>11, <1>12, BUFSIZIs
<1>19. base = "w" => y.start = 0 /\ y.upto = 0 /\ y.bytes = << >>
  BY <1>3, <1>11, <1>12
<1>20. y.update = (plus \/ base = "a") /\ y.justseeked = y.update /\ (y.quickBin => ~y.update)
  BY <1>4, <1>5, <1>10, <1>12
<1>21. y.may # {}
  BY <1>9, <1>12
<1>22. NewStream(y, base, plus)
  BY <1>11, <1>12, <1>13, <1>14, <1>15, <1>16, <1>17, <1>18, <1>19, <1>20, <1>21 DEF NewStream
<1> QED
  BY <1>7, <1>8, <1>22

LEMMA FopenStays ==
  ASSUME Resting(s, turn), NEW base \in {"r", "w", "a"}, NEW plus \in BOOLEAN, Fopen(base, plus)
  PROVE  Standing(s', turn')
<1>1. PICK y : NewStream(y, base, plus) /\ Opened(base, plus) = IF base = "a" THEN SeekEnd(y) ELSE y
  BY OpenedIs
<1>2. s' = (IF base = "a" THEN SeekEnd(y) ELSE y) /\ turn' = "any"
  BY <1>1 DEF Fopen
<1>3. /\ IsStream(y) /\ Modes(y) /\ y.update = (plus \/ base = "a") /\ y.may # {} /\ y.ungetCh = NoChar
      /\ y.justseeked = y.update /\ (y.quickBin => ~y.update)
      /\ (base = "w" => InWrite(y)) /\ (base # "w" => InRead(y) /\ y.upto = BUFSIZ /\ y.endbuf = BUFSIZ)
      /\ y.may = {x \in {"read", "write"} : plus \/ (x = "read" <=> base = "r")}
  BY <1>1 DEF NewStream
<1>4. CASE base = "a"
  <2>1. "read" \in y.may \/ y.update
    BY <1>3, <1>4
  <2>2. "read" \in y.may /\ "write" \in y.may => y.update
    BY <1>3 DEF Modes
  <2>3. (y.text => ~y.quickBin) /\ InRead(y)
    BY <1>3, <1>4 DEF Modes
  <2>4. Standing(SeekEnd(y), "any")
    BY <1>3, <2>1, <2>2, <2>3, EndStays
  <2> QED
    BY <1>2, <1>4, <2>4
<1>5. CASE base # "a"
  <2>1. InRead(y) => y.mode = "read"
    BY DEF InRead, InStep
  <2>2. InWrite(y) => y.mode = "write"
    BY DEF InWrite
  <2>3. y.mode = "write" => base = "w"
    BY <1>3, <2>1
  <2>4. y.mode = "read" => base = "r"
    BY <1>3, <1>5, <2>2
  <2>5. base = "r" => ("write" \in y.may => y.update)
    BY <1>3
  <2>6. base = "w" => ("read" \in y.may => y.update)
    BY <1>3
  <2>7. Anything(y)
    BY <1>3, <2>3, <2>4, <2>5, <2>6 DEF Anything
  <2>8. Standing(y, "any")
    BY <1>3, <2>7 DEF Standing, Turns
  <2> QED
    BY <1>2, <1>5, <2>8
<1> QED
  BY <1>4, <1>5

(* StreamIInv holds at the start, is kept by every call, and implies       *)
(* BufferInStep.                                                           *)
LEMMA StreamBegins ==
  ASSUME StreamInit
  PROVE  StreamIInv
<1>1. PICK d \in Disks : s = NoFile(d.bytes, d.text)
  BY DEF StreamInit
<1>2. d.bytes \in Seq(Nat) /\ d.text \in BOOLEAN
  BY <1>1, DataIs
<1>3. Resting(s, "any")
  BY <1>1, <1>2, NoFileIs
<1> QED
  BY <1>3 DEF StreamInit, StreamIInv

LEMMA StreamStays ==
  ASSUME StreamIInv, [StreamNext]_streamVars, NoSlips
  PROVE  StreamIInv'
<1>1. CASE UNCHANGED streamVars
  BY <1>1 DEF streamVars, StreamIInv
<1>2. CASE Standing(s, turn) /\ StreamNext
  <2>0. isopen
    BY <1>2 DEF Standing, isopen
  <2>1. CASE \E base \in {"r", "w", "a"}, plus \in BOOLEAN : Fopen(base, plus)
    BY <2>0, <2>1 DEF Fopen
  <2>2. CASE \E n \in Requests : Fread(n)
    BY <1>2, <2>2, FreadStays DEF StreamIInv
  <2>3. CASE \E n \in Rooms : Fgets(n)
    BY <1>2, <2>3, FgetsStays DEF StreamIInv
  <2>4. CASE Ungetc
    BY <1>2, <2>4, UngetcStays DEF StreamIInv
  <2>5. CASE \E data \in Writings : Fwrite(data)
    BY <1>2, <2>5, FwriteStays DEF StreamIInv
  <2>6. CASE \E c \in {LF, Other} : Fputc(c)
    BY <1>2, <2>6, FputcStays DEF StreamIInv
  <2>7. CASE \E i \in Places : FseekSet(i)
    BY <1>2, <2>7, FseekSetStays DEF StreamIInv
  <2>8. CASE \E offset \in Offsets : FseekCur(offset)
    BY <1>2, <2>8, FseekCurStays DEF StreamIInv
  <2>9. CASE FseekEnd
    BY <1>2, <2>9, FseekEndStays DEF StreamIInv
  <2>10. CASE Ftell
    BY <1>2, <2>10 DEF StreamIInv, Ftell
  <2>11. CASE Fflush
    BY <1>2, <2>11, FflushStays DEF StreamIInv
  <2>12. CASE Fclose
    BY <1>2, <2>12, FcloseStays DEF StreamIInv
  <2> QED
    BY <1>2, <2>1, <2>2, <2>3, <2>4, <2>5, <2>6, <2>7, <2>8, <2>9, <2>10, <2>11, <2>12 DEF StreamNext
<1>3. CASE Resting(s, turn) /\ StreamNext
  <2>1. s.may = {}
    BY <1>3 DEF Resting, NoFile
  <2>2. ~isopen /\ ~CanRead /\ ~CanWrite
    BY <2>1 DEF isopen, CanRead, CanWrite
  <2>3. PICK base \in {"r", "w", "a"}, plus \in BOOLEAN : Fopen(base, plus)
    BY <1>3, <2>2 DEF StreamNext, Fread, Fgets, Ungetc, Fwrite, Fputc, CanPut, FseekSet, FseekCur, FseekEnd, Ftell, Fflush, Fclose
  <2>4. Standing(s', turn')
    BY <1>3, <2>3, FopenStays
  <2> QED
    BY <2>4 DEF StreamIInv
<1> QED
  BY <1>1, <1>2, <1>3 DEF StreamIInv

LEMMA StreamInStep ==
  ASSUME StreamIInv
  PROVE  BufferInStep
<1> SUFFICES ASSUME isopen, ~Ended
             PROVE  IF s.mode = "read"
                    THEN /\ s.pos = s.start + s.endbuf
                         /\ \A i \in s.upto + 1 .. s.endbuf : s.buf[i] = s.bytes[s.start + i]
                    ELSE /\ s.pos = s.start /\ s.endbuf = BUFSIZ
                         /\ \A i \in 1 .. s.upto : s.buf[i] # Junk
  BY DEF BufferInStep
<1>1. Standing(s, turn)
  BY DEF StreamIInv, Resting, NoFile, isopen
<1>2. turn \in {"any", "read", "write"}
  BY <1>1 DEF Standing, Turns, Ended
<1>3. InRead(s) \/ InWrite(s)
  BY <1>1, <1>2, StandsIn
<1>4. CASE InRead(s)
  BY <1>4 DEF InRead, InStep, Right
<1>5. CASE InWrite(s)
  BY <1>5 DEF InWrite
<1> QED
  BY <1>3, <1>4, <1>5

(* "bufStartR represents the position in the file that the first character *)
(* in the buffer is at" (stdio.c): as long as the program asks for no      *)
(* place after a read that came short and none while a character is pushed *)
(* back, and does not go to the end of a stream it only writes, what the   *)
(* buffer holds is what the file has there, for a buffer, files and        *)
(* requests of any size.                                                   *)
THEOREM BufferStays ==
  ASSUME Slips \cap {"past end", "end of w", "pushed back"} = {}
  PROVE  StreamSpec => []BufferInStep
<1>1. NoSlips
  BY DEF NoSlips
<1>2. StreamInit => StreamIInv
  BY StreamBegins
<1>3. StreamIInv /\ [StreamNext]_streamVars => StreamIInv'
  BY <1>1, StreamStays
<1>4. StreamIInv => BufferInStep
  BY StreamInStep
<1> QED
  BY <1>2, <1>3, <1>4, PTL DEF StreamSpec

(***************************************************************************)
(* What a program reads and writes in a binary file.                       *)
(***************************************************************************)
LEMMA SliceIs ==
  ASSUME NEW b \in Seq(Nat), NEW i \in Nat, NEW j \in Nat, i <= j, j <= Len(b)
  PROVE  /\ SubSeq(b, i + 1, j) \in Seq(Nat) /\ Len(SubSeq(b, i + 1, j)) = j - i
         /\ \A k \in 1 .. j - i : SubSeq(b, i + 1, j)[k] = b[i + k]
<1>1. \A k \in i + 1 .. j : b[k] \in Nat
  OBVIOUS
<1>2. i + 1 \in Int /\ j \in Int
  OBVIOUS
<1>3. /\ SubSeq(b, i + 1, j) \in Seq(Nat)
      /\ Len(SubSeq(b, i + 1, j)) = IF i + 1 <= j THEN j - (i + 1) + 1 ELSE 0
      /\ \A k \in 1 .. j - (i + 1) + 1 : SubSeq(b, i + 1, j)[k] = b[i + 1 + k - 1]
  BY <1>1, <1>2, SubSeqProperties
<1>4. \A k \in 1 .. j - i : SubSeq(b, i + 1, j)[k] = b[i + k]
  <2> SUFFICES ASSUME NEW k \in 1 .. j - i PROVE SubSeq(b, i + 1, j)[k] = b[i + k]
    OBVIOUS
  <2>1. k \in 1 .. j - (i + 1) + 1 /\ i + 1 + k - 1 = i + k
    OBVIOUS
  <2> QED
    BY <1>3, <2>1
<1>5. (IF i + 1 <= j THEN j - (i + 1) + 1 ELSE 0) = j - i
  OBVIOUS
<1> QED
  BY <1>3, <1>4, <1>5

(* Two rows of bytes with the same length and bytes.                       *)
LEMMA SameRow ==
  ASSUME NEW a \in Seq(Nat), NEW b \in Seq(Nat), Len(a) = Len(b), \A k \in 1 .. Len(a) : a[k] = b[k]
  PROVE  a = b
BY SeqEqual

LEMMA RowsJoin ==
  ASSUME NEW a \in Seq(Nat), NEW b \in Seq(Nat)
  PROVE  /\ a \o b \in Seq(Nat) /\ Len(a \o b) = Len(a) + Len(b) /\ Len(a) \in Nat /\ Len(b) \in Nat
         /\ \A k \in 1 .. Len(a) + Len(b) : (a \o b)[k] = IF k <= Len(a) THEN a[k] ELSE b[k - Len(a)]
BY ConcatProperties

(* Two parts that meet are one.                                            *)
LEMMA SlicesJoin ==
  ASSUME NEW b \in Seq(Nat), NEW i \in Nat, NEW j \in Nat, NEW k \in Nat, i <= j, j <= k, k <= Len(b)
  PROVE  SubSeq(b, i + 1, j) \o SubSeq(b, j + 1, k) = SubSeq(b, i + 1, k)
<1>1. PICK f : f = SubSeq(b, i + 1, j)
  OBVIOUS
<1>2. PICK t : t = SubSeq(b, j + 1, k)
  OBVIOUS
<1>3. PICK w : w = SubSeq(b, i + 1, k)
  OBVIOUS
<1>4. f \in Seq(Nat) /\ Len(f) = j - i /\ \A l \in 1 .. j - i : f[l] = b[i + l]
  <2>1. j <= Len(b)
    OBVIOUS
  <2> QED
    BY <1>1, <2>1, SliceIs
<1>5. t \in Seq(Nat) /\ Len(t) = k - j /\ \A l \in 1 .. k - j : t[l] = b[j + l]
  BY <1>2, SliceIs
<1>6. w \in Seq(Nat) /\ Len(w) = k - i /\ \A l \in 1 .. k - i : w[l] = b[i + l]
  <2>1. i <= k
    OBVIOUS
  <2> QED
    BY <1>3, <2>1, SliceIs
<1>7. /\ f \o t \in Seq(Nat) /\ Len(f \o t) = Len(f) + Len(t)
      /\ \A l \in 1 .. Len(f) + Len(t) : (f \o t)[l] = IF l <= Len(f) THEN f[l] ELSE t[l - Len(f)]
  BY <1>4, <1>5, RowsJoin
<1>8. Len(f) + Len(t) = k - i
  BY <1>4, <1>5
<1>9. \A l \in 1 .. k - i : (f \o t)[l] = w[l]
  <2> SUFFICES ASSUME NEW l \in 1 .. k - i PROVE (f \o t)[l] = w[l]
    OBVIOUS
  <2>1. (f \o t)[l] = IF l <= j - i THEN f[l] ELSE t[l - (j - i)]
    BY <1>4, <1>7, <1>8
  <2>2. CASE l <= j - i
    <3>1. l \in 1 .. j - i
      BY <2>2
    <3>2. f[l] = b[i + l]
      BY <1>4, <3>1
    <3> QED
      BY <1>6, <2>1, <2>2, <3>2
  <2>3. CASE ~(l <= j - i)
    <3>1. l - (j - i) \in 1 .. k - j /\ j + (l - (j - i)) = i + l
      BY <2>3
    <3>2. t[l - (j - i)] = b[i + l]
      BY <1>5, <3>1
    <3> QED
      BY <1>6, <2>1, <2>3, <3>2
  <2> QED
    BY <2>2, <2>3
<1>10. f \o t = w
  BY <1>6, <1>7, <1>8, <1>9, SameRow
<1> QED
  BY <1>1, <1>2, <1>3, <1>10

LEMMA SliceOfSlice ==
  ASSUME NEW b \in Seq(Nat), NEW i \in Nat, NEW j \in Nat, i <= j, j <= Len(b), NEW u \in Nat, u <= j - i
  PROVE  SubSeq(SubSeq(b, i + 1, j), 1, u) = SubSeq(b, i + 1, i + u)
<1>1. PICK f : f = SubSeq(b, i + 1, j)
  OBVIOUS
<1>2. f \in Seq(Nat) /\ Len(f) = j - i /\ \A k \in 1 .. j - i : f[k] = b[i + k]
  BY <1>1, SliceIs
<1>3. PICK w : w = SubSeq(b, i + 1, i + u)
  OBVIOUS
<1>4. w \in Seq(Nat) /\ Len(w) = u /\ \A k \in 1 .. u : w[k] = b[i + k]
  <2>1. i + u \in Nat /\ i <= i + u /\ i + u <= Len(b) /\ i + u - i = u
    OBVIOUS
  <2> QED
    BY <1>3, <2>1, SliceIs
<1>5. PICK g : g = SubSeq(f, 1, u)
  OBVIOUS
<1>6. g \in Seq(Nat) /\ Len(g) = u /\ \A k \in 1 .. u : g[k] = f[k]
  <2>1. 0 \in Nat /\ 0 <= u /\ u <= Len(f) /\ 0 + 1 = 1 /\ u - 0 = u
    BY <1>2
  <2>2. /\ SubSeq(f, 0 + 1, u) \in Seq(Nat) /\ Len(SubSeq(f, 0 + 1, u)) = u - 0
        /\ \A k \in 1 .. u - 0 : SubSeq(f, 0 + 1, u)[k] = f[0 + k]
    BY <1>2, <2>1, SliceIs
  <2>3. \A k \in 1 .. u : 0 + k = k
    OBVIOUS
  <2> QED
    BY <1>5, <2>1, <2>2, <2>3
<1>7. \A k \in 1 .. u : g[k] = w[k]
  <2> SUFFICES ASSUME NEW k \in 1 .. u PROVE g[k] = w[k]
    OBVIOUS
  <2>1. k \in 1 .. j - i
    OBVIOUS
  <2>2. f[k] = b[i + k]
    BY <1>2, <2>1
  <2> QED
    BY <1>4, <1>6, <2>2
<1> QED
  BY <1>1, <1>3, <1>4, <1>5, <1>6, <1>7, SameRow

LEMMA BeyondIs ==
  ASSUME NEW b \in Seq(Nat), NEW i \in Nat, i <= Len(b), NEW n \in Nat
  PROVE  LET j == IF i + n <= Len(b) THEN i + n ELSE Len(b)
         IN  /\ Beyond(b, i, n) = SubSeq(b, i + 1, j) /\ j \in Nat /\ i <= j /\ j <= Len(b) /\ j - i <= n
             /\ Beyond(b, i, n) \in Seq(Nat) /\ Len(Beyond(b, i, n)) = j - i
<1>1. PICK j : j = IF i + n <= Len(b) THEN i + n ELSE Len(b)
  OBVIOUS
<1>2. j \in Nat /\ i <= j /\ j <= Len(b) /\ j - i <= n
  BY <1>1
<1>3. Min({i + n, Len(b)}) = j
  BY <1>1, MinTwo
<1>4. Beyond(b, i, n) = SubSeq(b, i + 1, j)
  BY <1>3 DEF Beyond
<1> QED
  BY <1>1, <1>2, <1>4, SliceIs

(* What a file is after d is written at i.                                 *)
Written(b, i, d, w) ==
  /\ w \in Seq(Nat)
  /\ i + Len(d) <= Len(b) => Len(w) = Len(b)
  /\ ~(i + Len(d) <= Len(b)) => Len(w) = i + Len(d)
  /\ \A k \in 1 .. Len(w) : w[k] = IF k <= i THEN b[k] ELSE IF k <= i + Len(d) THEN d[k - i] ELSE b[k]

LEMMA OverAt ==
  ASSUME NEW b \in Seq(Nat), NEW i \in Nat, i <= Len(b), NEW d \in Seq(Nat)
  PROVE  Written(b, i, d, Over(b, i, d))
<1>a. PICK w : w = Over(b, i, d)
  OBVIOUS
<1>b. PICK l \in Nat, m \in Nat : l = Len(b) /\ m = Len(d)
  OBVIOUS
<1>c. PICK c \in Nat : (i + m <= l => c = l) /\ (~(i + m <= l) => c = i + m)
  <2>1. CASE i + m <= l
    BY <2>1
  <2>2. CASE ~(i + m <= l)
    BY <2>2
  <2> QED
    BY <2>1, <2>2
<1>2. PICK f : f = SubSeq(b, 1, i)
  OBVIOUS
<1>3. f \in Seq(Nat) /\ Len(f) = i /\ \A k \in 1 .. i : f[k] = b[k]
  <2>1. 0 \in Nat /\ 0 <= i /\ i <= Len(b) /\ 0 + 1 = 1 /\ i - 0 = i
    OBVIOUS
  <2>2. /\ SubSeq(b, 0 + 1, i) \in Seq(Nat) /\ Len(SubSeq(b, 0 + 1, i)) = i - 0
        /\ \A k \in 1 .. i - 0 : SubSeq(b, 0 + 1, i)[k] = b[0 + k]
    BY <2>1, SliceIs
  <2>3. \A k \in 1 .. i : 0 + k = k
    OBVIOUS
  <2> QED
    BY <1>2, <2>1, <2>2, <2>3
<1>4. PICK t : t = SubSeq(b, i + Len(d) + 1, Len(b))
  OBVIOUS
<1>5. PICK r \in Nat : (i + m <= l => r = l - (i + m)) /\ (~(i + m <= l) => r = 0)
  <2>1. CASE i + m <= l
    <3>1. l - (i + m) \in Nat
      BY <2>1
    <3> QED
      BY <2>1, <3>1
  <2>2. CASE ~(i + m <= l)
    BY <2>2
  <2> QED
    BY <2>1, <2>2
<1>6. t \in Seq(Nat) /\ Len(t) = r /\ \A k \in 1 .. r : t[k] = b[i + m + k]
  <2>1. CASE i + m <= l
    <3>a. l - (i + m) = r
      BY <1>5, <2>1
    <3>b. l <= Len(b)
      BY <1>b
    <3>c. i + m \in Nat
      OBVIOUS
    <3>1. i + m \in Nat /\ l <= Len(b) /\ i + m <= l /\ l - (i + m) = r
      BY <3>a, <3>b, <3>c, <2>1
    <3>2. t = SubSeq(b, (i + m) + 1, l)
      BY <1>b, <1>4
    <3>3. PICK j \in Nat : j = i + m
      BY <3>1
    <3>4. /\ SubSeq(b, j + 1, l) \in Seq(Nat) /\ Len(SubSeq(b, j + 1, l)) = l - j
          /\ \A k \in 1 .. l - j : SubSeq(b, j + 1, l)[k] = b[j + k]
      <4>1. j <= l /\ l <= Len(b) /\ l \in Nat
        BY <3>1, <3>3
      <4> QED
        BY <4>1, SliceIs
    <3> QED
      BY <3>1, <3>2, <3>3, <3>4
  <2>2. CASE ~(i + m <= l)
    <3>1. i + Len(d) + 1 \in Int /\ Len(b) \in Int /\ Len(b) < i + Len(d) + 1 /\ r = 0
      BY <1>b, <1>5, <2>2
    <3>2. t = << >>
      BY <1>4, <3>1, SubSeqEmpty
    <3> QED
      BY <3>1, <3>2
  <2> QED
    BY <2>1, <2>2
<1>7. /\ f \o d \in Seq(Nat) /\ Len(f \o d) = i + m
      /\ \A k \in 1 .. i + m : (f \o d)[k] = IF k <= i THEN b[k] ELSE d[k - i]
  <2>1. /\ f \o d \in Seq(Nat) /\ Len(f \o d) = Len(f) + Len(d)
        /\ \A k \in 1 .. Len(f) + Len(d) : (f \o d)[k] = IF k <= Len(f) THEN f[k] ELSE d[k - Len(f)]
    BY <1>3, <1>b, RowsJoin
  <2>2. Len(f) + Len(d) = i + m
    BY <1>3, <1>b
  <2>3. ASSUME NEW k \in 1 .. i + m
        PROVE  (f \o d)[k] = IF k <= i THEN b[k] ELSE d[k - i]
    <3>1. (f \o d)[k] = IF k <= i THEN f[k] ELSE d[k - i]
      BY <1>3, <2>1, <2>2
    <3>2. k <= i => k \in 1 .. i
      OBVIOUS
    <3> QED
      BY <1>3, <3>1, <3>2
  <2> QED
    BY <2>1, <2>2, <2>3
<1>9. /\ w \in Seq(Nat) /\ Len(w) = i + m + r
      /\ \A k \in 1 .. i + m + r : w[k] = IF k <= i + m THEN (f \o d)[k] ELSE t[k - (i + m)]
  <2>1. w = (f \o d) \o t
    BY <1>a, <1>2, <1>4 DEF Over
  <2>2. PICK g : g = f \o d
    OBVIOUS
  <2>3. /\ g \o t \in Seq(Nat) /\ Len(g \o t) = Len(g) + Len(t)
        /\ \A k \in 1 .. Len(g) + Len(t) : (g \o t)[k] = IF k <= Len(g) THEN g[k] ELSE t[k - Len(g)]
    <3>1. g \in Seq(Nat)
      BY <1>7, <2>2
    <3> QED
      BY <1>6, <3>1, RowsJoin
  <2>4. Len(g) = i + m /\ Len(t) = r
    BY <1>6, <1>7, <2>2
  <2> QED
    BY <2>1, <2>2, <2>3, <2>4
<1>10. i + m + r = c
  <2>1. CASE i + m <= l
    BY <1>c, <1>5, <2>1
  <2>2. CASE ~(i + m <= l)
    BY <1>c, <1>5, <2>2
  <2> QED
    BY <2>1, <2>2
<1>11. ASSUME NEW k \in 1 .. i + m + r
       PROVE  w[k] = IF k <= i THEN b[k] ELSE IF k <= i + m THEN d[k - i] ELSE b[k]
  <2>1. CASE k <= i + m
    <3>1. k \in 1 .. i + m
      BY <2>1
    <3>2. w[k] = (f \o d)[k]
      BY <1>9, <2>1
    <3> QED
      BY <1>7, <2>1, <3>1, <3>2
  <2>2. CASE ~(k <= i + m)
    <3>1. k - (i + m) \in 1 .. r /\ i + m + (k - (i + m)) = k /\ ~(k <= i)
      BY <2>2
    <3>2. t[k - (i + m)] = b[k]
      BY <1>6, <3>1
    <3>3. w[k] = t[k - (i + m)]
      BY <1>9, <2>2
    <3> QED
      BY <2>2, <3>1, <3>2, <3>3
  <2> QED
    BY <2>1, <2>2
<1>12. \A k \in 1 .. Len(w) : w[k] = IF k <= i THEN b[k] ELSE IF k <= i + Len(d) THEN d[k - i] ELSE b[k]
  <2> SUFFICES ASSUME NEW k \in 1 .. Len(w)
               PROVE  w[k] = IF k <= i THEN b[k] ELSE IF k <= i + Len(d) THEN d[k - i] ELSE b[k]
    OBVIOUS
  <2>1. k \in 1 .. i + m + r
    BY <1>9
  <2> QED
    BY <1>b, <1>11, <2>1
<1>13. /\ w \in Seq(Nat) /\ Len(w) \in Nat
       /\ i + Len(d) <= Len(b) => Len(w) = Len(b)
       /\ ~(i + Len(d) <= Len(b)) => Len(w) = i + Len(d)
  BY <1>b, <1>c, <1>9, <1>10
<1> QED
  BY <1>a, <1>12, <1>13 DEF Written

LEMMA OverNothing ==
  ASSUME NEW b \in Seq(Nat), NEW i \in Nat, i <= Len(b), NEW d \in Seq(Nat), Len(d) = 0
  PROVE  Over(b, i, d) = b
<1>1. PICK w : w = Over(b, i, d)
  OBVIOUS
<1>2. /\ w \in Seq(Nat) /\ Len(w) \in Nat
      /\ i + Len(d) <= Len(b) => Len(w) = Len(b)
      /\ \A k \in 1 .. Len(w) : w[k] = IF k <= i THEN b[k] ELSE IF k <= i + Len(d) THEN d[k - i] ELSE b[k]
  <2>1. Written(b, i, d, w)
    BY <1>1, OverAt
  <2> QED
    BY <2>1 DEF Written
<1>3. i + 0 <= Len(b) /\ i + 0 = i
  OBVIOUS
<1>4. Len(w) = Len(b) /\ \A k \in 1 .. Len(w) : w[k] = b[k]
  BY <1>2, <1>3
<1> QED
  BY <1>1, <1>2, <1>4, SameRow

(* How long a file of l bytes is after m bytes are written at i.           *)
EndAt(i, m, l, c) == (i + m <= l => c = l) /\ (~(i + m <= l) => c = i + m)

LEMMA EndIn ==
  ASSUME NEW i \in Nat, NEW m \in Nat, NEW l \in Nat, NEW c \in Nat, EndAt(i, m, l, c)
  PROVE  i + m <= c
BY DEF EndAt

LEMMA EndsMeet ==
  ASSUME NEW i \in Nat, NEW m \in Nat, NEW n \in Nat, NEW l \in Nat, NEW c \in Nat, NEW a \in Nat, NEW f \in Nat,
         EndAt(i, m, l, c), EndAt(i + m, n, c, a), EndAt(i, m + n, l, f)
  PROVE  a = f
BY DEF EndAt

(* To write on where a write ended is to write both at once.               *)
LEMMA OverOver ==
  ASSUME NEW b \in Seq(Nat), NEW i \in Nat, i <= Len(b), NEW d \in Seq(Nat), NEW e \in Seq(Nat),
         NEW p, p = i + Len(d)
  PROVE  Over(Over(b, i, d), p, e) = Over(b, i, d \o e)
<1>1. PICK l \in Nat, m \in Nat, n \in Nat : l = Len(b) /\ m = Len(d) /\ n = Len(e)
  OBVIOUS
<1>2. PICK w : w = Over(b, i, d)
  OBVIOUS
<1>w. Written(b, i, d, w)
  BY <1>2, OverAt
<1>4. PICK c \in Nat : c = Len(w) /\ w \in Seq(Nat)
  BY <1>w DEF Written
<1>3. /\ (i + m <= l => c = l) /\ (~(i + m <= l) => c = i + m)
      /\ \A k \in 1 .. c : w[k] = IF k <= i THEN b[k] ELSE IF k <= i + m THEN d[k - i] ELSE b[k]
  BY <1>1, <1>4, <1>w DEF Written
<1>i. EndAt(i, m, l, c)
  BY <1>3 DEF EndAt
<1>j. p \in Nat /\ p = i + m
  BY <1>1
<1>k. p <= c
  BY <1>i, <1>j, EndIn
<1>5. p \in Nat /\ p = i + m /\ p <= Len(w)
  BY <1>4, <1>j, <1>k
<1>6. PICK v : v = Over(w, p, e)
  OBVIOUS
<1>v. Written(w, p, e, v)
  BY <1>4, <1>5, <1>6, OverAt
<1>d. PICK a \in Nat : a = Len(v) /\ v \in Seq(Nat)
  BY <1>v DEF Written
<1>7. /\ (p + n <= c => a = c) /\ (~(p + n <= c) => a = p + n)
      /\ \A k \in 1 .. a : v[k] = IF k <= p THEN w[k] ELSE IF k <= p + n THEN e[k - p] ELSE w[k]
  BY <1>1, <1>4, <1>d, <1>v DEF Written
<1>8. PICK u : u = d \o e
  OBVIOUS
<1>9. /\ u \in Seq(Nat) /\ Len(u) = m + n /\ \A k \in 1 .. m + n : u[k] = IF k <= m THEN d[k] ELSE e[k - m]
  BY <1>1, <1>8, RowsJoin
<1>10. PICK z : z = Over(b, i, u)
  OBVIOUS
<1>g. PICK y \in Nat : y = m + n
  BY <1>1
<1>z. Written(b, i, u, z)
  BY <1>9, <1>10, OverAt
<1>e. PICK f \in Nat : f = Len(z) /\ z \in Seq(Nat)
  BY <1>z DEF Written
<1>h. y = Len(u)
  BY <1>9, <1>g
<1>11. /\ (i + y <= l => f = l) /\ (~(i + y <= l) => f = i + y)
       /\ \A k \in 1 .. f : z[k] = IF k <= i THEN b[k] ELSE IF k <= i + y THEN u[k - i] ELSE b[k]
  BY <1>1, <1>e, <1>h, <1>z DEF Written
<1>12. a = f
  <2>1. EndAt(i + m, n, c, a)
    BY <1>7, <1>j DEF EndAt
  <2>2. EndAt(i, m + n, l, f)
    BY <1>11, <1>g DEF EndAt
  <2> QED
    BY <1>i, <2>1, <2>2, EndsMeet
<1>13. ASSUME NEW k \in 1 .. a
       PROVE  v[k] = z[k]
  <2>0. k \in Nat /\ k >= 1 /\ k <= a /\ c \in Nat /\ i + m <= c
    BY <1>3, <1>d
  <2>1. v[k] = IF k <= p THEN w[k] ELSE IF k <= p + n THEN e[k - p] ELSE w[k]
    BY <1>7
  <2>2. z[k] = IF k <= i THEN b[k] ELSE IF k <= i + (m + n) THEN u[k - i] ELSE b[k]
    BY <1>11, <1>12, <1>g
  <2>3. k <= c => w[k] = IF k <= i THEN b[k] ELSE IF k <= i + m THEN d[k - i] ELSE b[k]
    BY <1>3, <2>0
  <2>4. CASE k <= i
    BY <1>5, <2>0, <2>1, <2>2, <2>3, <2>4
  <2>5. CASE ~(k <= i) /\ k <= p
    <3>1. k - i \in 1 .. m + n /\ k - i <= m /\ k <= c /\ k <= i + (m + n)
      BY <1>5, <2>0, <2>5
    <3>2. u[k - i] = d[k - i]
      BY <1>9, <3>1
    <3> QED
      BY <1>5, <2>0, <2>1, <2>2, <2>3, <2>5, <3>1, <3>2
  <2>6. CASE ~(k <= p) /\ k <= p + n
    <3>1. ~(k <= i + m) /\ k <= i + m + n
      BY <1>5, <2>0, <2>6
    <3>3. k - i \in 1 .. m + n /\ ~(k - i <= m) /\ (k - i) - m = k - (i + m) /\ ~(k <= i) /\ k <= i + (m + n)
      BY <2>0, <3>1
    <3>2. u[k - i] = e[k - p]
      BY <1>5, <1>9, <3>3
    <3> QED
      BY <2>1, <2>2, <2>6, <3>2, <3>3
  <2>7. CASE ~(k <= p + n)
    <3>1. ~(k <= i + (m + n)) /\ ~(k <= i) /\ ~(k <= i + m) /\ ~(k <= p)
      BY <1>5, <2>0, <2>7
    <3>2. k <= c
      BY <1>5, <1>7, <2>0, <2>7
    <3> QED
      BY <2>1, <2>2, <2>3, <2>7, <3>1, <3>2
  <2> QED
    BY <1>5, <2>0, <2>4, <2>5, <2>6, <2>7
<1>14. v = z
  BY <1>d, <1>e, <1>12, <1>13, SameRow
<1> QED
  BY <1>2, <1>6, <1>8, <1>10, <1>14

LEMMA PartRight ==
  ASSUME NEW x, IsStream(x), NEW i \in Int, NEW j \in Int, i >= -1, i <= j, j <= BUFSIZ,
         x.start + i >= 0, x.start + j <= Len(x.bytes), \A k \in i + 1 .. j : Right(x, k)
  PROVE  Part(x, i, j) = SubSeq(x.bytes, x.start + i + 1, x.start + j)
<1>0. x.bytes \in Seq(Nat)
  BY DEF IsStream
<1>1. x.start \in Int /\ Len(x.bytes) \in Nat
  BY DEF IsStream
<1>2. PICK p \in Nat, e \in Nat : p = x.start + i /\ e = x.start + j /\ p <= e /\ e <= Len(x.bytes) /\ e - p = j - i
  BY <1>1
<1>a. e - p = j - i
  BY <1>2
<1>b. p <= e /\ e <= Len(x.bytes)
  BY <1>2
<1>3. PICK f : f = Part(x, i, j)
  OBVIOUS
<1>4. f \in Seq(Nat) /\ Len(f) = j - i /\ \A k \in 1 .. j - i : f[k] = x.buf[i + k]
  BY <1>3, PartIs
<1>5. PICK w : w = SubSeq(x.bytes, p + 1, e)
  OBVIOUS
<1>6. w \in Seq(Nat) /\ Len(w) = e - p /\ \A k \in 1 .. e - p : w[k] = x.bytes[p + k]
  BY <1>0, <1>5, <1>b, SliceIs
<1>7. ASSUME NEW k \in 1 .. Len(f)
      PROVE  f[k] = w[k]
  <2>1. k \in 1 .. j - i /\ k \in 1 .. e - p
    BY <1>4, <1>7, <1>a
  <2>2. f[k] = x.buf[i + k] /\ w[k] = x.bytes[p + k]
    BY <1>4, <1>6, <2>1
  <2>3. i + k \in i + 1 .. j /\ x.start + (i + k) = p + k
    <3>1. i + k \in i + 1 .. j
      BY <2>1
    <3>2. p = x.start + i
      BY <1>2
    <3> QED
      BY <1>1, <2>1, <3>1, <3>2
  <2>4. Right(x, i + k)
    BY <2>3
  <2> QED
    BY <2>2, <2>3, <2>4 DEF Right
<1>8. Len(f) = Len(w)
  BY <1>2, <1>4, <1>6
<1>9. f = w
  BY <1>4, <1>6, <1>7, <1>8, SameRow
<1> QED
  BY <1>2, <1>3, <1>5, <1>9

(* How far a read of n gets.                                               *)
ReadsTo(b, p, n, e) ==
  /\ e \in Nat /\ p <= e /\ e <= Len(b)
  /\ p + n <= Len(b) => e = p + n
  /\ ~(p + n <= Len(b)) => e = Len(b)

LEMMA ReadsSome ==
  ASSUME NEW b \in Seq(Nat), NEW p \in Nat, p <= Len(b), NEW n \in Nat
  PROVE  \E e : ReadsTo(b, p, n, e)
<1> DEFINE e == IF p + n <= Len(b) THEN p + n ELSE Len(b)
<1>1. ReadsTo(b, p, n, e)
  BY DEF ReadsTo
<1> QED
  BY <1>1

(* A piece of the file.                                                    *)
Piece(b, p, e, g) == g = SubSeq(b, p + 1, e) /\ Len(g) = e - p /\ g \in Seq(Nat)

LEMMA BeyondFrom ==
  ASSUME NEW b \in Seq(Nat), NEW p \in Nat, p <= Len(b), NEW n \in Nat, NEW e, ReadsTo(b, p, n, e)
  PROVE  Piece(b, p, e, Beyond(b, p, n))
<1>1. LET j == IF p + n <= Len(b) THEN p + n ELSE Len(b)
      IN  /\ Beyond(b, p, n) = SubSeq(b, p + 1, j) /\ j \in Nat /\ p <= j /\ j <= Len(b) /\ j - p <= n
          /\ Beyond(b, p, n) \in Seq(Nat) /\ Len(Beyond(b, p, n)) = j - p
  BY BeyondIs
<1> QED
  BY <1>1 DEF ReadsTo, Piece

LEMMA GotSlice ==
  ASSUME NEW x, IsStream(x), x.pos <= Len(x.bytes), NEW n \in Nat
  PROVE  \E e : ReadsTo(x.bytes, x.pos, n, e) /\ Piece(x.bytes, x.pos, e, Got(x, n))
<1>1. x.bytes \in Seq(Nat) /\ x.pos \in Nat
  BY DEF IsStream
<1>3. PICK e : ReadsTo(x.bytes, x.pos, n, e)
  BY <1>1, ReadsSome
<1>4. Piece(x.bytes, x.pos, e, Beyond(x.bytes, x.pos, n))
  BY <1>1, <1>3, BeyondFrom
<1> QED
  BY <1>3, <1>4 DEF Got

(* What is held, and what the file has after it, is one piece of the file. *)
LEMMA HeldOn ==
  ASSUME NEW x, IsStream(x), TakenBack(x), NEW e \in Nat, NEW g, Piece(x.bytes, x.pos, e, g), NEW n \in Nat, x.pos <= e,
         ReadsTo(x.bytes, x.start + x.upto, n, e)
  PROVE  Held(x) \o g = Beyond(x.bytes, x.start + x.upto, n) /\ Len(Held(x) \o g) = e - (x.start + x.upto)
<1>1. /\ x.pos \in Nat /\ x.start \in Int /\ x.upto \in Int /\ x.endbuf \in Nat
      /\ x.pos = x.start + x.endbuf /\ x.pos <= Len(x.bytes) /\ x.endbuf <= BUFSIZ /\ x.upto <= x.endbuf /\ x.upto >= -1
      /\ x.start + x.upto >= 0
  BY DEF TakenBack, InStep, IsStream
<1>e. x.bytes \in Seq(Nat)
  BY DEF IsStream
<1>0. \A k \in x.upto + 1 .. x.endbuf : Right(x, k)
  BY DEF TakenBack, InStep
<1>2. Held(x) = SubSeq(x.bytes, x.start + x.upto + 1, x.start + x.endbuf)
  <2>1. /\ x.upto \in Int /\ x.endbuf \in Int /\ x.upto >= -1 /\ x.upto <= x.endbuf /\ x.endbuf <= BUFSIZ
        /\ x.start + x.upto >= 0 /\ x.start + x.endbuf <= Len(x.bytes)
    BY <1>1
  <2> QED
    BY <1>0, <2>1, PartRight DEF Held
<1>3. PICK p \in Nat, q \in Nat : p = x.start + x.upto /\ q = x.pos /\ p <= q /\ q = x.start + x.endbuf
  BY <1>1
<1>4. q <= e /\ ReadsTo(x.bytes, p, n, e) /\ Piece(x.bytes, q, e, g)
  BY <1>3
<1>5. e <= Len(x.bytes) /\ p <= Len(x.bytes)
  BY <1>1, <1>3, <1>4 DEF ReadsTo
<1>6. Held(x) = SubSeq(x.bytes, p + 1, q) /\ g = SubSeq(x.bytes, q + 1, e)
  BY <1>2, <1>3, <1>4 DEF Piece
<1>7. SubSeq(x.bytes, p + 1, q) \o SubSeq(x.bytes, q + 1, e) = SubSeq(x.bytes, p + 1, e)
  <2>1. p <= q /\ q <= e
    BY <1>3, <1>4
  <2>2. e <= Len(x.bytes)
    BY <1>5
  <2> QED
    BY <1>e, <2>1, <2>2, SlicesJoin
<1>8. Piece(x.bytes, p, e, Beyond(x.bytes, p, n))
  BY <1>e, <1>4, <1>5, BeyondFrom
<1>9. Held(x) \o g = Beyond(x.bytes, p, n)
  BY <1>6, <1>7, <1>8 DEF Piece
<1>10. Len(Held(x) \o g) = e - p
  BY <1>8, <1>9 DEF Piece
<1> QED
  BY <1>3, <1>9, <1>10

(* A binary read gives what the file has.                                  *)
LEMMA FreadSlowBGives ==
  ASSUME NEW x, IsStream(x), TakenBack(x), NEW n \in Nat, n > Len(Held(x)), ~x.text, ~x.quickBin, NEW r, r = freadSlowB(x, n)
  PROVE  r.out = Beyond(x.bytes, x.start + x.upto, n) /\ r.x.start + r.x.upto = x.start + x.upto + Len(r.out)
<1> DEFINE left == n - Len(Held(x))
           y == [x EXCEPT !.start = @ + x.endbuf]
           big == Got(y, left)
           small == Got(y, BUFSIZ)
           used == Min({left, Len(small)})
<1>1. /\ x.pos \in Nat /\ Len(x.bytes) \in Nat /\ x.start \in Int /\ x.upto \in Int /\ x.endbuf \in Nat
      /\ x.pos = x.start + x.endbuf /\ x.pos <= Len(x.bytes) /\ x.endbuf <= BUFSIZ /\ x.upto <= x.endbuf /\ x.upto >= -1
      /\ x.start + x.upto >= 0 /\ x.mode = "read" /\ x.ungetCh = NoChar /\ ~x.eofInd
  BY DEF TakenBack, InStep, IsStream
<1>0. x.bytes \in Seq(Nat)
  BY DEF IsStream
<1>2. IsStream(y) /\ y.start = x.pos /\ y.bytes = x.bytes /\ y.pos = x.pos /\ y.upto = x.upto
  <2>1. PICK a \in Int : a = x.start + x.endbuf
    BY <1>1
  <2>2. y = [x EXCEPT !.start = a]
    BY <2>1
  <2> HIDE DEF y
  <2>3. IsStream(y)
    BY <2>1, <2>2 DEF IsStream
  <2>4. y.start = a /\ y.bytes = x.bytes /\ y.pos = x.pos /\ y.upto = x.upto
    BY <2>2 DEF IsStream
  <2> QED
    BY <1>1, <2>1, <2>3, <2>4
<1>3. PICK h \in Nat : h = Len(Held(x)) /\ h = x.endbuf - x.upto
  <2>1. Len(Part(x, x.upto, x.endbuf)) = IF x.upto <= x.endbuf THEN x.endbuf - x.upto ELSE 0
    BY <1>1, PartIs
  <2> QED
    BY <1>1, <2>1 DEF Held
<1>a. PICK p \in Nat : p = x.start + x.upto
  BY <1>1
<1>b. PICK q \in Nat, l \in Nat : q = x.pos /\ l = Len(x.bytes)
  BY <1>1
<1>m. p <= q /\ q <= l /\ q = p + h
  <2>1. PICK a \in Int, u \in Int, c \in Nat : a = x.start /\ u = x.upto /\ c = x.endbuf
    BY <1>1
  <2>2. q = a + c /\ u <= c /\ p = a + u /\ h = c - u /\ q <= l
    BY <1>1, <1>3, <1>a, <1>b, <2>1
  <2> QED
    BY <2>2
<1>n. p = x.start + x.upto /\ q = x.pos /\ l = Len(x.bytes)
  BY <1>a, <1>b
<1>4. left \in Nat /\ left >= 1 /\ q + left = p + n
  BY <1>3, <1>m
<1>5. PICK e : ReadsTo(x.bytes, x.pos, left, e) /\ Piece(x.bytes, x.pos, e, big)
  <2> HIDE DEF left, y
  <2>1. y.pos <= Len(y.bytes) /\ IsStream(y) /\ left \in Nat
    BY <1>1, <1>2, <1>4
  <2> QED
    BY <1>2, <2>1, GotSlice
<1>6. PICK f : ReadsTo(x.bytes, x.pos, BUFSIZ, f) /\ Piece(x.bytes, x.pos, f, small)
  <2> HIDE DEF left, y
  <2>1. y.pos <= Len(y.bytes) /\ IsStream(y) /\ BUFSIZ \in Nat
    BY <1>1, <1>2, BUFSIZIs
  <2> QED
    BY <1>2, <2>1, GotSlice
<1>7. CASE left >= BUFSIZ
  <2> HIDE DEF big, left
  <2>1. /\ e \in Nat /\ q <= e /\ e <= l /\ (q + left <= l => e = q + left) /\ (~(q + left <= l) => e = l)
    BY <1>n, <1>5 DEF ReadsTo
  <2>a. PICK m \in Nat : m = e - q
    BY <2>1
  <2>b. m = Len(big)
    BY <1>n, <1>5, <2>a DEF Piece
  <2>2. PICK d \in Nat : d = IF m <= BUFSIZ THEN m ELSE BUFSIZ
    BY BUFSIZIs
  <2>3. Min({Len(big), BUFSIZ}) = d /\ Max({0, Len(big) - BUFSIZ}) = m - d
    <3>1. m \in Int /\ BUFSIZ \in Int /\ m - BUFSIZ \in Int /\ 0 \in Int
      BY BUFSIZIs
    <3>2. Min({m, BUFSIZ}) = d
      BY <2>2, <3>1, MinTwo
    <3>3. Max({0, m - BUFSIZ}) = IF 0 <= m - BUFSIZ THEN m - BUFSIZ ELSE 0
      BY <3>1, MinTwo
    <3>4. (IF 0 <= m - BUFSIZ THEN m - BUFSIZ ELSE 0) = m - d
      BY <2>2, BUFSIZIs
    <3> QED
      BY <2>b, <3>2, <3>3, <3>4
  <2>4. r.out = Held(x) \o big
        /\ r.x = [iread(y, left) EXCEPT
                    !.eofInd = Len(big) < left, !.quickBin = TRUE, !.buf = Empty,
                    !.start = @ + (m - d), !.endbuf = d, !.upto = d]
    BY <1>1, <1>7, <2>3 DEF freadSlowB, big, left
  <2>5. r.x.start = x.pos + (m - d) /\ r.x.upto = d
    <3> HIDE DEF y
    <3>1. iread(y, left).start = y.start /\ DOMAIN iread(y, left) = DOMAIN y /\ "start" \in DOMAIN y /\ "upto" \in DOMAIN y
      BY <1>2 DEF iread, IsStream
    <3> QED
      BY <1>2, <2>4, <3>1
  <2> HIDE DEF y
  <2>6. ReadsTo(x.bytes, p, n, e)
    <3>1. p <= e /\ (p + n <= l => e = p + n) /\ (~(p + n <= l) => e = l)
      BY <1>m, <1>4, <2>1
    <3> QED
      BY <1>n, <2>1, <3>1 DEF ReadsTo
  <2>7. Held(x) \o big = Beyond(x.bytes, x.start + x.upto, n) /\ Len(Held(x) \o big) = e - (x.start + x.upto)
    <3>1. ReadsTo(x.bytes, x.start + x.upto, n, e) /\ e \in Nat /\ x.pos <= e
      BY <1>n, <2>1, <2>6
    <3> QED
      BY <1>5, <3>1, HeldOn
  <2>8. r.x.start + r.x.upto = x.start + x.upto + Len(r.out)
    <3>1. Len(r.out) = e - p /\ r.x.start = q + (m - d) /\ r.x.upto = d
      BY <1>n, <2>4, <2>5, <2>7
    <3>2. q + (m - d) + d = p + (e - p)
      <4>1. q + (m - d) + d = q + m
        OBVIOUS
      <4>2. q + m = e /\ p + (e - p) = e
        BY <2>1, <2>a
      <4> QED
        BY <4>1, <4>2
    <3> QED
      BY <1>n, <3>1, <3>2
  <2> QED
    BY <2>4, <2>7, <2>8
<1>8. CASE left < BUFSIZ
  <2> HIDE DEF small, left
  <2>1. /\ f \in Nat /\ q <= f /\ f <= l /\ (q + BUFSIZ <= l => f = q + BUFSIZ) /\ (~(q + BUFSIZ <= l) => f = l)
    BY <1>n, <1>6 DEF ReadsTo
  <2>a. PICK m \in Nat : m = f - q
    BY <2>1
  <2>2. m = Len(small) /\ small = SubSeq(x.bytes, q + 1, f)
    BY <1>n, <1>6, <2>a DEF Piece
  <2>3. used = (IF left <= m THEN left ELSE m)
    <3>1. left \in Int /\ m \in Int
      BY <1>4
    <3> QED
      BY <2>2, <3>1, MinTwo
  <2>4. r.out = Held(x) \o SubSeq(small, 1, used)
        /\ r.x = [iread(y, BUFSIZ) EXCEPT
                    !.eofInd = Len(small) < left, !.buf = Buffered(small),
                    !.endbuf = Len(small), !.upto = used]
    <3>1. ~(left >= BUFSIZ)
      BY <1>4, <1>8, BUFSIZIs
    <3> QED
      BY <1>1, <3>1 DEF freadSlowB, small, left
  <2>5. r.x.start = x.pos /\ r.x.upto = used
    <3> HIDE DEF y, used
    <3>1. iread(y, BUFSIZ).start = y.start /\ DOMAIN iread(y, BUFSIZ) = DOMAIN y /\ "start" \in DOMAIN y /\ "upto" \in DOMAIN y
      BY <1>2 DEF iread, IsStream
    <3> QED
      BY <1>2, <2>4, <3>1
  <2> HIDE DEF y, used
  <2>6. PICK u \in Nat : u = used /\ u <= m /\ u <= f - q /\ u = IF left <= m THEN left ELSE m
    <3>1. PICK u \in Nat : u = IF left <= m THEN left ELSE m
      BY <1>4
    <3>2. u <= m /\ u <= f - q
      BY <1>4, <2>1, <2>a, <3>1
    <3> QED
      BY <2>3, <3>1, <3>2
  <2>7. SubSeq(small, 1, u) = SubSeq(x.bytes, q + 1, q + u)
    <3>1. f <= Len(x.bytes) /\ f \in Nat /\ q <= f /\ u <= f - q
      BY <1>n, <2>1, <2>6
    <3>2. SubSeq(SubSeq(x.bytes, q + 1, f), 1, u) = SubSeq(x.bytes, q + 1, q + u)
      BY <1>0, <3>1, SliceOfSlice
    <3> QED
      BY <2>2, <3>2
  <2>8. ReadsTo(x.bytes, p, n, q + u)
    <3>1. q + u \in Nat /\ p <= q + u /\ q + u <= l /\ (p + n <= l => q + u = p + n) /\ (~(p + n <= l) => q + u = l)
      BY <1>m, <1>4, <1>8, <2>1, <2>a, <2>6, BUFSIZIs
    <3> QED
      BY <1>n, <3>1 DEF ReadsTo
  <2>9. PICK k \in Nat : k = q + u
    OBVIOUS
  <2>10. Piece(x.bytes, q, k, SubSeq(small, 1, u))
    <3>1. q <= k /\ k <= Len(x.bytes)
      <4>1. q <= k /\ k <= l
        BY <1>m, <2>1, <2>6, <2>9
      <4> QED
        BY <1>n, <4>1
    <3>2. SubSeq(x.bytes, q + 1, k) \in Seq(Nat) /\ Len(SubSeq(x.bytes, q + 1, k)) = k - q
      BY <1>0, <3>1, SliceIs
    <3> QED
      BY <2>7, <2>9, <3>2 DEF Piece
  <2>11. /\ Held(x) \o SubSeq(small, 1, u) = Beyond(x.bytes, x.start + x.upto, n)
         /\ Len(Held(x) \o SubSeq(small, 1, u)) = k - (x.start + x.upto)
    <3>1. ReadsTo(x.bytes, x.start + x.upto, n, k) /\ x.pos <= k /\ Piece(x.bytes, x.pos, k, SubSeq(small, 1, u))
      BY <1>n, <2>8, <2>9, <2>10
    <3> QED
      BY <3>1, HeldOn
  <2>12. r.x.start + r.x.upto = x.start + x.upto + Len(r.out)
    <3>1. Len(r.out) = k - p /\ r.x.start = q /\ r.x.upto = u
      BY <1>n, <2>4, <2>5, <2>6, <2>11
    <3>2. q + u = p + (k - p)
      BY <2>9
    <3> QED
      BY <1>n, <3>1, <3>2
  <2> QED
    BY <2>4, <2>6, <2>11, <2>12
<1> QED
  BY <1>4, <1>7, <1>8, BUFSIZIs

(* Where the program is, as fseek and ftell tell it.                       *)
PlaceOf(x) == ftell(x) - IF x.ungetCh = NoChar THEN 0 ELSE 1

(* A read gives what the file has from the place on, and moves over it.    *)
Gives(x, n, r) == r.out = Beyond(x.bytes, PlaceOf(x), n) /\ r.x.start + r.x.upto = PlaceOf(x) + Len(r.out)

LEMMA TakenBackAt ==
  ASSUME NEW x, IsStream(x), InRead(x)
  PROVE  TakeBack(x).start + TakeBack(x).upto = PlaceOf(x) /\ TakeBack(x).bytes = x.bytes
<1>1. x.start \in Int /\ x.upto \in Int
  BY DEF IsStream
<1>2. CASE x.ungetCh = NoChar
  BY <1>1, <1>2 DEF TakeBack, PlaceOf, ftell
<1>3. CASE x.ungetCh # NoChar
  <2>1. TakeBack(x) = [x EXCEPT !.upto = @ - 1, !.buf[x.upto] = x.ungetCh, !.ungetCh = NoChar]
    BY <1>3 DEF TakeBack
  <2>2. TakeBack(x).start = x.start /\ TakeBack(x).upto = x.upto - 1 /\ TakeBack(x).bytes = x.bytes
    BY <2>1 DEF IsStream
  <2> QED
    BY <1>1, <1>3, <2>2 DEF PlaceOf, ftell
<1> QED
  BY <1>2, <1>3

LEMMA SeekedAt ==
  ASSUME NEW x, IsStream(x), InWrite(x), x.justseeked, x.upto = 0
  PROVE  ToRead(x).start + ToRead(x).upto = PlaceOf(x) /\ ToRead(x).bytes = x.bytes
<1>1. x.start \in Int /\ x.endbuf \in Nat /\ x.ungetCh = NoChar /\ x.mode = "write"
  BY DEF IsStream, InWrite
<1>2. ToRead(x) = [x EXCEPT !.justseeked = FALSE, !.mode = "read", !.start = @ - x.endbuf, !.upto = x.endbuf]
  BY <1>1 DEF ToRead
<1>3. ToRead(x).start = x.start - x.endbuf /\ ToRead(x).upto = x.endbuf /\ ToRead(x).bytes = x.bytes
  BY <1>2 DEF IsStream
<1> QED
  BY <1>1, <1>3 DEF PlaceOf, ftell

(* Whether it goes around the buffer, is answered from it or fills it.     *)
LEMMA FreadGives ==
  ASSUME NEW x, IsStream(x), NEW n \in Nat, n >= 1, ~x.text,
         InRead(x) \/ (InWrite(x) /\ x.justseeked /\ ~x.quickBin /\ x.upto = 0), NEW r, r = fread(x, n)
  PROVE  Gives(x, n, r)
<1> DEFINE q == x.quickBin /\ n >= BUFSIZ
           w == [x EXCEPT !.quickBin = q]
           y == TakeBack(w)
           z == ToRead(y)
<1>0. q \in BOOLEAN /\ (q => x.quickBin)
  BY DEF IsStream
<1>1. /\ IsStream(w) /\ (InRead(x) => InRead(w)) /\ (InWrite(x) => InWrite(w)) /\ w.quickBin = q
      /\ w.ungetCh = x.ungetCh /\ w.start = x.start /\ w.upto = x.upto /\ w.justseeked = x.justseeked /\ Alike(w, x)
  <2> HIDE DEF q
  <2>1. InRead(x) \/ InWrite(x)
    OBVIOUS
  <2>2. LET v == [x EXCEPT !.quickBin = q]
        IN  /\ IsStream(v) /\ Alike(v, x) /\ (InRead(x) => InRead(v)) /\ (InWrite(x) => InWrite(v)) /\ v.quickBin = q
             /\ v.ungetCh = x.ungetCh /\ v.start = x.start /\ v.upto = x.upto /\ v.justseeked = x.justseeked
             /\ v.mode = x.mode /\ v.endbuf = x.endbuf
    BY <1>0, <2>1, QuickOk
  <2> QED
    BY <2>2
<1>2. fread(x, n) =
        LET in == Got(y, n)
        IN IF y.quickBin
           THEN [x |-> [iread(y, n) EXCEPT !.eofInd = @ \/ Len(in) < n, !.start = @ + Len(in)], out |-> in]
           ELSE IF z.text THEN freadSlowT(z, n)
           ELSE IF n <= Len(Held(z)) THEN [x |-> [z EXCEPT !.upto = @ + n], out |-> Part(z, z.upto, z.upto + n)]
           ELSE freadSlowB(z, n)
  <2>1. w = [x EXCEPT !.quickBin = @ /\ n >= BUFSIZ]
    BY DEF IsStream
  <2> HIDE DEF w
  <2> QED
    BY <2>1 DEF fread
<1> HIDE DEF w, q
<1>a. PlaceOf(w) = PlaceOf(x)
  BY <1>1 DEF PlaceOf, ftell
<1>3. /\ IsStream(z) /\ TakenBack(z) /\ ~z.text /\ y.quickBin = z.quickBin
      /\ z.start + z.upto = PlaceOf(x) /\ z.bytes = x.bytes
  <2>1. CASE InRead(x)
    <3>1. IsStream(y) /\ TakenBack(y) /\ y.start + y.upto = PlaceOf(x) /\ y.bytes = x.bytes
      BY <1>1, <1>a, <2>1, TakeBackOk, TakenBackAt DEF Alike
    <3>2. y.text = w.text
      BY <1>1 DEF TakeBack, IsStream
    <3> HIDE DEF y
    <3>3. /\ IsStream(z) /\ TakenBack(z) /\ Alike(z, y) /\ z.quickBin = y.quickBin /\ z.start = y.start /\ z.upto = y.upto
      BY <3>1, ToReadOk
    <3> HIDE DEF z
    <3> QED
      BY <1>1, <3>1, <3>2, <3>3 DEF Alike
  <2>2. CASE InWrite(x) /\ x.justseeked /\ ~x.quickBin /\ x.upto = 0
    <3>1. y = w
      BY <1>1, <2>2 DEF TakeBack, InWrite
    <3> HIDE DEF y
    <3>2. IsStream(z) /\ TakenBack(z) /\ Alike(z, w) /\ z.quickBin = w.quickBin
      BY <1>1, <2>2, <3>1, SeekedToRead
    <3>3. z.start + z.upto = PlaceOf(x)
      BY <1>1, <1>a, <2>2, <3>1, SeekedAt
    <3> HIDE DEF z
    <3> QED
      BY <1>1, <3>1, <3>2, <3>3 DEF Alike
  <2> QED
    BY <2>1, <2>2
<1>4. CASE y.quickBin
  <2>1. InRead(x) /\ x.quickBin
    BY <1>0, <1>1, <1>3, <1>4 DEF TakeBack, InWrite
  <2>2. w.ungetCh = NoChar
    BY <1>0, <1>1, <1>3, <1>4, <2>1 DEF InRead
  <2>3. y = w
    BY <2>2 DEF TakeBack
  <2>5. r = Around(w, n)
    BY <1>2, <1>4, <2>3 DEF Around
  <2>6. w.upto = w.endbuf /\ w.pos = w.start + w.endbuf /\ w.start \in Int /\ w.endbuf \in Nat /\ w.pos \in Nat
        /\ w.pos <= Len(w.bytes)
    BY <1>1, <1>4, <2>1, <2>3 DEF InRead, InStep, IsStream
  <2>7. PlaceOf(x) = w.pos
    BY <1>a, <2>2, <2>6 DEF PlaceOf, ftell
  <2>8. r.out = Beyond(x.bytes, PlaceOf(x), n)
    BY <1>1, <2>5, <2>7 DEF Around, Got, Alike
  <2>9. r.x = [iread(w, n) EXCEPT !.eofInd = @ \/ Len(Got(w, n)) < n, !.start = @ + Len(Got(w, n))] /\ r.out = Got(w, n)
    BY <2>5 DEF Around
  <2>10. r.x.start = w.start + Len(r.out) /\ r.x.upto = w.upto
    <3>1. iread(w, n).start = w.start /\ iread(w, n).upto = w.upto /\ DOMAIN iread(w, n) = DOMAIN w
          /\ "start" \in DOMAIN w /\ "upto" \in DOMAIN w
      BY <1>1 DEF iread, IsStream
    <3> QED
      BY <2>9, <3>1
  <2>11. Len(r.out) \in Nat
    BY <1>1, <2>6, <2>9, GotLen
  <2> QED
    BY <2>6, <2>7, <2>8, <2>10, <2>11 DEF Gives
<1>5. CASE ~y.quickBin /\ n <= Len(Held(z))
  <2>1. r = [x |-> [z EXCEPT !.upto = @ + n], out |-> Part(z, z.upto, z.upto + n)]
    BY <1>2, <1>3, <1>5
  <2> HIDE DEF z
  <2>2. /\ z.upto \in Int /\ z.start \in Int /\ z.endbuf \in Nat /\ z.upto <= z.endbuf /\ z.upto >= -1 /\ z.endbuf <= BUFSIZ
        /\ z.pos = z.start + z.endbuf /\ z.pos <= Len(z.bytes) /\ z.start + z.upto >= 0
    BY <1>3 DEF TakenBack, InStep, IsStream
  <2>3. Len(Held(z)) = IF z.upto <= z.endbuf THEN z.endbuf - z.upto ELSE 0
    BY <1>3, <2>2, PartIs DEF Held
  <2>a. PICK i \in Int, j \in Nat : i = z.upto /\ j = z.endbuf /\ i <= j
    BY <2>2
  <2>b. n <= j - i
    BY <1>5, <2>3, <2>a
  <2>c. i + n \in Int /\ i <= i + n /\ i + n <= j
    BY <2>a, <2>b
  <2>4. PICK u \in Int : u = z.upto + n /\ z.upto <= u /\ u <= z.endbuf
    BY <2>a, <2>c
  <2>5. r.x.start = z.start /\ r.x.upto = u /\ r.out = Part(z, z.upto, u)
    <3>1. r.x = [z EXCEPT !.upto = u] /\ r.out = Part(z, z.upto, u)
      BY <2>1, <2>4
    <3>2. [z EXCEPT !.upto = u].start = z.start /\ [z EXCEPT !.upto = u].upto = u
      BY <1>3 DEF IsStream
    <3> QED
      BY <3>1, <3>2
  <2>6. u <= BUFSIZ /\ z.start + u <= Len(z.bytes)
    <3>1. z.start + u <= z.pos /\ z.pos \in Int
      BY <2>2, <2>4
    <3>2. Len(z.bytes) \in Nat
      BY <1>3 DEF IsStream
    <3>3. z.start + u \in Int /\ z.pos <= Len(z.bytes)
      BY <2>2, <2>4
    <3>4. z.start + u <= Len(z.bytes)
      BY <3>1, <3>2, <3>3
    <3>5. u <= BUFSIZ
      BY <2>2, <2>4, BUFSIZIs
    <3> QED
      BY <3>4, <3>5
  <2>7. \A k \in z.upto + 1 .. u : Right(z, k)
    <3>1. \A k \in z.upto + 1 .. z.endbuf : Right(z, k)
      BY <1>3 DEF TakenBack, InStep
    <3>2. \A k \in z.upto + 1 .. u : k \in z.upto + 1 .. z.endbuf
      BY <2>2, <2>4
    <3> QED
      BY <3>1, <3>2
  <2>8. Part(z, z.upto, u) = SubSeq(z.bytes, z.start + z.upto + 1, z.start + u)
    BY <1>3, <2>2, <2>4, <2>6, <2>7, PartRight
  <2>9. PICK p \in Nat, e \in Nat : p = z.start + z.upto /\ e = p + n
    BY <2>2
  <2>10. e = z.start + u
    BY <2>2, <2>4, <2>9
  <2>11. ReadsTo(x.bytes, p, n, e)
    <3>1. e <= Len(x.bytes) /\ p <= e
      BY <1>3, <2>6, <2>9, <2>10
    <3> QED
      BY <2>9, <3>1 DEF ReadsTo
  <2>12. Piece(x.bytes, p, e, Beyond(x.bytes, p, n))
    <3>1. p <= Len(x.bytes)
      BY <2>11 DEF ReadsTo
    <3>2. x.bytes \in Seq(Nat)
      BY DEF IsStream
    <3> QED
      BY <2>11, <3>1, <3>2, BeyondFrom
  <2>13. p = PlaceOf(x)
    BY <1>3, <2>9
  <2>14. r.out = Beyond(x.bytes, PlaceOf(x), n)
    BY <1>3, <2>5, <2>8, <2>9, <2>10, <2>12, <2>13 DEF Piece
  <2>15. Len(r.out) = e - p
    BY <2>12, <2>13, <2>14 DEF Piece
  <2>16. r.x.start + r.x.upto = e /\ p + (e - p) = e
    BY <2>5, <2>9, <2>10
  <2> QED
    BY <2>13, <2>14, <2>15, <2>16 DEF Gives
<1>6. CASE ~y.quickBin /\ ~(n <= Len(Held(z)))
  <2>1. r = freadSlowB(z, n)
    BY <1>2, <1>3, <1>6
  <2> HIDE DEF z
  <2>2. z.upto \in Int /\ z.endbuf \in Nat /\ z.upto >= -1 /\ z.endbuf <= BUFSIZ
    BY <1>3 DEF TakenBack, InStep, IsStream
  <2>3. Len(Held(z)) \in Nat
    BY <1>3, <2>2, PartIs DEF Held
  <2>4. n > Len(Held(z)) /\ ~z.quickBin
    BY <1>3, <1>6, <2>3
  <2>5. r.out = Beyond(z.bytes, z.start + z.upto, n) /\ r.x.start + r.x.upto = z.start + z.upto + Len(r.out)
    BY <1>3, <2>1, <2>4, FreadSlowBGives
  <2> QED
    BY <1>3, <2>5 DEF Gives
<1> QED
  BY <1>4, <1>5, <1>6

(* After a read that came short there is nothing.                          *)
LEMMA FreadNothing ==
  ASSUME NEW x, IsStream(x), NEW n \in Nat, n >= 1, ~x.text, PastRead(x), NEW r, r = fread(x, n)
  PROVE  Len(r.out) = 0 /\ r.out \in Seq(Nat)
<1> DEFINE q == x.quickBin /\ n >= BUFSIZ
           w == [x EXCEPT !.quickBin = q]
           z == [w EXCEPT !.justseeked = FALSE]
<1>0. q \in BOOLEAN
  BY DEF IsStream
<1>1. w = [x EXCEPT !.quickBin = @ /\ n >= BUFSIZ]
  BY DEF IsStream
<1> HIDE DEF q
<1>2. IsStream(w)
  BY <1>0 DEF IsStream
<1>3. /\ w.bytes = x.bytes /\ w.pos = x.pos /\ w.text = x.text /\ w.mode = x.mode /\ w.eofInd = x.eofInd
      /\ w.ungetCh = x.ungetCh /\ w.start = x.start /\ w.upto = x.upto /\ w.endbuf = x.endbuf
  BY DEF IsStream
<1> HIDE DEF w
<1>4. IsStream(z)
  BY <1>2 DEF IsStream
<1>5. z.text = x.text /\ z.eofInd = x.eofInd /\ z.upto = x.upto /\ z.endbuf = x.endbuf
  BY <1>2, <1>3 DEF IsStream
<1>6. PastRead(w)
  BY <1>3 DEF PastRead
<1>7. TakeBack(w) = w
  BY <1>6 DEF TakeBack, PastRead
<1>8. ToRead(w) = z
  BY <1>6 DEF ToRead, PastRead
<1> HIDE DEF z
<1>9. r = LET in == Got(w, n)
        IN IF w.quickBin
           THEN [x |-> [iread(w, n) EXCEPT !.eofInd = @ \/ Len(in) < n, !.start = @ + Len(in)], out |-> in]
           ELSE IF z.text THEN freadSlowT(z, n)
           ELSE IF n <= Len(Held(z)) THEN [x |-> [z EXCEPT !.upto = @ + n], out |-> Part(z, z.upto, z.upto + n)]
           ELSE freadSlowB(z, n)
  BY <1>1, <1>7, <1>8 DEF fread
<1>10. CASE w.quickBin
  <2>1. r.out = Got(w, n)
    BY <1>9, <1>10
  <2>2. w.pos = Len(w.bytes) /\ w.pos \in Nat
    BY <1>2, <1>6 DEF PastRead, IsStream
  <2>3. w.pos <= Len(w.bytes)
    BY <2>2
  <2>4. Got(w, n) \in Seq(Nat) /\ Len(Got(w, n)) \in Nat /\ w.pos + Len(Got(w, n)) <= Len(w.bytes)
    BY <1>2, <2>3, GotLen
  <2> QED
    BY <2>1, <2>2, <2>4
<1>12. CASE ~w.quickBin
  <2>1. /\ z.upto \in Int /\ z.endbuf \in Nat /\ z.upto = z.endbuf /\ z.endbuf <= BUFSIZ /\ z.eofInd /\ ~z.text
    BY <1>4, <1>5 DEF PastRead, IsStream
  <2>2. Len(Held(z)) = 0 /\ Held(z) \in Seq(Nat)
    <3>0. z.upto \in Int /\ z.upto >= -1 /\ z.endbuf \in Int /\ z.endbuf <= BUFSIZ
      BY <2>1
    <3>1. /\ Len(Part(z, z.upto, z.endbuf)) = IF z.upto <= z.endbuf THEN z.endbuf - z.upto ELSE 0
          /\ Part(z, z.upto, z.endbuf) \in Seq(Nat)
      BY <1>4, <3>0, PartIs
    <3> QED
      BY <2>1, <3>1 DEF Held
  <2>3. r = freadSlowB(z, n)
    <3>1. ~(n <= Len(Held(z)))
      BY <2>2
    <3> QED
      BY <1>9, <1>12, <2>1, <3>1
  <2>4. r.out = Held(z)
    BY <2>1, <2>3 DEF freadSlowB
  <2> QED
    BY <2>2, <2>4
<1> QED
  BY <1>10, <1>12

(* The file, with what waits in the buffer.                                *)
WholeFile(x) == IF x.mode = "write" THEN Over(x.bytes, x.pos, Part(x, 0, x.upto)) ELSE x.bytes

(* What the program sees: the same, or written on.                         *)
SameContent(y, x) == WholeFile(y) = WholeFile(x) /\ ftell(y) = ftell(x)
Puts(y, x, data) == WholeFile(y) = Over(WholeFile(x), ftell(x), data) /\ ftell(y) = ftell(x) + Len(data)

LEMMA WaitingIs ==
  ASSUME NEW x, IsStream(x), InWrite(x)
  PROVE  /\ Part(x, 0, x.upto) \in Seq(Nat) /\ Len(Part(x, 0, x.upto)) = x.upto
         /\ x.bytes \in Seq(Nat) /\ x.pos \in Nat /\ x.pos <= Len(x.bytes) /\ x.start = x.pos /\ x.upto \in Nat
         /\ x.upto <= BUFSIZ /\ x.endbuf = BUFSIZ /\ x.mode = "write"
<1>1. x.upto \in Nat /\ x.upto <= BUFSIZ /\ 0 \in Int /\ x.upto \in Int /\ 0 <= x.upto /\ 0 >= -1
  BY BUFSIZIs DEF InWrite
<1>2. Part(x, 0, x.upto) \in Seq(Nat) /\ Len(Part(x, 0, x.upto)) = IF 0 <= x.upto THEN x.upto - 0 ELSE 0
  BY <1>1, PartIs
<1>3. x.bytes \in Seq(Nat) /\ x.pos \in Nat
  BY DEF IsStream
<1> QED
  BY <1>1, <1>2, <1>3 DEF InWrite

(* The place is in the file.                                               *)
LEMMA WholeIs ==
  ASSUME NEW x, ToBeWritten(x)
  PROVE  WholeFile(x) \in Seq(Nat) /\ ftell(x) \in Nat /\ ftell(x) <= Len(WholeFile(x))
<1>1. IsStream(x)
  BY DEF ToBeWritten
<1>2. CASE InWrite(x)
  <2>1. /\ Part(x, 0, x.upto) \in Seq(Nat) /\ Len(Part(x, 0, x.upto)) = x.upto
        /\ x.bytes \in Seq(Nat) /\ x.pos \in Nat /\ x.pos <= Len(x.bytes) /\ x.start = x.pos /\ x.upto \in Nat
        /\ x.mode = "write"
    BY <1>1, <1>2, WaitingIs
  <2>2. PICK w : w = WholeFile(x)
    OBVIOUS
  <2>3. Written(x.bytes, x.pos, Part(x, 0, x.upto), w)
    BY <2>1, <2>2, OverAt DEF WholeFile
  <2>4. w \in Seq(Nat)
    BY <2>3 DEF Written
  <2>5. PICK l \in Nat, m \in Nat, p \in Nat, u \in Nat : l = Len(x.bytes) /\ m = Len(w) /\ p = x.pos /\ u = x.upto
    BY <2>1, <2>4
  <2>6. (p + u <= l => m = l) /\ (~(p + u <= l) => m = p + u)
    BY <2>1, <2>3, <2>5 DEF Written
  <2>7. p + u <= m /\ ftell(x) = p + u
    BY <2>1, <2>5, <2>6 DEF ftell
  <2> QED
    BY <2>2, <2>4, <2>5, <2>7
<1>3. CASE InRead(x) /\ x.upto = BUFSIZ /\ x.endbuf = BUFSIZ
  <2>1. x.mode = "read" /\ x.pos = x.start + x.endbuf /\ x.pos <= Len(x.bytes) /\ x.upto = x.endbuf
    BY <1>3 DEF InRead, InStep
  <2>2. x.bytes \in Seq(Nat) /\ x.pos \in Nat
    BY <1>1 DEF IsStream
  <2>3. WholeFile(x) = x.bytes /\ ftell(x) = x.pos
    BY <2>1 DEF WholeFile, ftell
  <2> QED
    BY <2>1, <2>2, <2>3
<1> QED
  BY <1>2, <1>3 DEF ToBeWritten

LEMMA PutsOn ==
  ASSUME NEW x, ToBeWritten(x), NEW w, NEW y, NEW d \in Seq(Nat), NEW e \in Seq(Nat), Puts(w, x, d), Puts(y, w, e)
  PROVE  Puts(y, x, d \o e)
<1>1. WholeFile(x) \in Seq(Nat) /\ ftell(x) \in Nat /\ ftell(x) <= Len(WholeFile(x))
  BY WholeIs
<1>2. ftell(w) = ftell(x) + Len(d) /\ WholeFile(w) = Over(WholeFile(x), ftell(x), d)
  BY DEF Puts
<1>3. WholeFile(y) = Over(WholeFile(w), ftell(w), e) /\ ftell(y) = ftell(w) + Len(e)
  BY DEF Puts
<1>4. Over(Over(WholeFile(x), ftell(x), d), ftell(w), e) = Over(WholeFile(x), ftell(x), d \o e)
  BY <1>1, <1>2, OverOver
<1>5. ftell(y) = ftell(x) + Len(d \o e)
  <2>1. Len(d \o e) = Len(d) + Len(e) /\ Len(d) \in Nat /\ Len(e) \in Nat
    BY RowsJoin
  <2> QED
    BY <1>1, <1>2, <1>3, <2>1
<1> QED
  BY <1>2, <1>3, <1>4, <1>5 DEF Puts

(* What is put goes behind what waits.                                     *)
LEMMA PutGives ==
  ASSUME NEW x, IsStream(x), InWrite(x), NEW data \in Seq(Nat \ {Junk}), x.upto + Len(data) <= BUFSIZ,
         NEW y, y = Put(x, data), IsStream(y), InWrite(y)
  PROVE  Puts(y, x, data)
<1>1. /\ Part(x, 0, x.upto) \in Seq(Nat) /\ Len(Part(x, 0, x.upto)) = x.upto
      /\ x.bytes \in Seq(Nat) /\ x.pos \in Nat /\ x.pos <= Len(x.bytes) /\ x.start = x.pos /\ x.upto \in Nat
      /\ x.mode = "write"
  BY WaitingIs
<1>2. y = [x EXCEPT !.buf = [i \in 0 .. BUFSIZ |-> IF i - x.upto \in DOMAIN data THEN data[i - x.upto] ELSE x.buf[i]],
                    !.upto = x.upto + Len(data)]
  BY DEF Put, IsStream
<1>3. /\ y.bytes = x.bytes /\ y.pos = x.pos /\ y.mode = x.mode /\ y.start = x.start /\ y.upto = x.upto + Len(data)
      /\ y.buf = [i \in 0 .. BUFSIZ |-> IF i - x.upto \in DOMAIN data THEN data[i - x.upto] ELSE x.buf[i]]
  BY <1>2 DEF IsStream
<1>4. PICK u \in Nat, m \in Nat, v \in Nat : u = x.upto /\ m = Len(data) /\ v = u + m /\ v <= BUFSIZ
  BY <1>1
<1>5. PICK f : f = Part(x, 0, x.upto)
  OBVIOUS
<1>6. f \in Seq(Nat) /\ Len(f) = u /\ \A k \in 1 .. u : f[k] = x.buf[k]
  <2>1. 0 \in Int /\ u \in Int /\ 0 >= -1 /\ u <= BUFSIZ
    BY <1>4, BUFSIZIs
  <2>2. \A k \in 1 .. u - 0 : Part(x, 0, u)[k] = x.buf[0 + k]
    BY <2>1, PartIs
  <2>3. \A k \in 1 .. u : k \in 1 .. u - 0 /\ 0 + k = k
    OBVIOUS
  <2>4. \A k \in 1 .. u : Part(x, 0, u)[k] = x.buf[k]
    BY <2>2, <2>3
  <2> QED
    BY <1>1, <1>4, <1>5, <2>4
<1>7. PICK g : g = Part(y, 0, y.upto)
  OBVIOUS
<1>8. g \in Seq(Nat) /\ Len(g) = v /\ \A k \in 1 .. v : g[k] = y.buf[k]
  <2>1. 0 \in Int /\ v \in Int /\ 0 >= -1 /\ v <= BUFSIZ
    BY <1>4, BUFSIZIs
  <2>2. Part(y, 0, v) \in Seq(Nat) /\ Len(Part(y, 0, v)) = IF 0 <= v THEN v - 0 ELSE 0
    BY <2>1, PartIs
  <2>a. \A k \in 1 .. v - 0 : Part(y, 0, v)[k] = y.buf[0 + k]
    BY <2>1, PartIs
  <2>3. \A k \in 1 .. v : k \in 1 .. v - 0 /\ 0 + k = k
    OBVIOUS
  <2>4. \A k \in 1 .. v : Part(y, 0, v)[k] = y.buf[k]
    BY <2>a, <2>3
  <2>5. y.upto = v /\ (IF 0 <= v THEN v - 0 ELSE 0) = v
    BY <1>3, <1>4
  <2> QED
    BY <1>7, <2>2, <2>4, <2>5
<1>9. PICK d \in Seq(Nat) : d = data
  OBVIOUS
<1>10. /\ f \o d \in Seq(Nat) /\ Len(f \o d) = Len(f) + Len(d)
       /\ \A k \in 1 .. Len(f) + Len(d) : (f \o d)[k] = IF k <= Len(f) THEN f[k] ELSE d[k - Len(f)]
  BY <1>6, RowsJoin
<1>11. Len(f) + Len(d) = v
  BY <1>4, <1>6, <1>9
<1>12. ASSUME NEW k \in 1 .. Len(g)
       PROVE  g[k] = (f \o d)[k]
  <2>1. k \in 1 .. v /\ k \in 0 .. BUFSIZ
    <3>1. k \in 1 .. v
      BY <1>8
    <3> QED
      <4>1. v <= BUFSIZ /\ BUFSIZ \in Nat
        BY <1>4, BUFSIZIs
      <4> QED
        BY <3>1, <4>1
  <2>2. g[k] = IF k - u \in DOMAIN data THEN data[k - u] ELSE x.buf[k]
    BY <1>3, <1>4, <1>8, <2>1
  <2>3. (f \o d)[k] = IF k <= u THEN f[k] ELSE d[k - u]
    BY <1>6, <1>10, <1>11, <2>1
  <2>4. DOMAIN data = 1 .. m
    BY <1>4
  <2>5. CASE k <= u
    <3>1. k \in 1 .. u /\ ~(k - u \in 1 .. m)
      BY <2>1, <2>5
    <3> QED
      BY <1>6, <2>2, <2>3, <2>4, <2>5, <3>1
  <2>6. CASE ~(k <= u)
    <3>1. k - u \in 1 .. m
      BY <1>4, <2>1, <2>6
    <3> QED
      BY <1>9, <2>2, <2>3, <2>4, <2>6, <3>1
  <2> QED
    BY <2>5, <2>6
<1>13. g = f \o d
  <2>1. Len(g) = Len(f \o d)
    BY <1>8, <1>10, <1>11
  <2> QED
    BY <1>8, <1>10, <1>12, <2>1, SameRow
<1>14. WholeFile(y) = Over(x.bytes, x.pos, f \o d)
  BY <1>1, <1>3, <1>7, <1>13 DEF WholeFile
<1>15. WholeFile(x) = Over(x.bytes, x.pos, f)
  BY <1>1, <1>5 DEF WholeFile
<1>16. ftell(x) = x.pos + Len(f)
  BY <1>1, <1>4, <1>6 DEF ftell
<1>17. Over(Over(x.bytes, x.pos, f), ftell(x), d) = Over(x.bytes, x.pos, f \o d)
  <2>1. x.bytes \in Seq(Nat) /\ x.pos \in Nat /\ x.pos <= Len(x.bytes) /\ f \in Seq(Nat) /\ d \in Seq(Nat)
    BY <1>1, <1>6
  <2> QED
    BY <1>16, <2>1, OverOver
<1>18. ftell(y) = ftell(x) + Len(data)
  <2>1. x.start \in Int
    BY DEF IsStream
  <2> QED
    BY <1>1, <1>3, <1>4, <2>1 DEF ftell
<1> QED
  BY <1>9, <1>14, <1>15, <1>17, <1>18 DEF Puts

LEMMA NothingWaits ==
  ASSUME NEW x, IsStream(x), InWrite(x), x.upto = 0
  PROVE  WholeFile(x) = x.bytes /\ ftell(x) = x.start
<1>1. /\ Part(x, 0, x.upto) \in Seq(Nat) /\ Len(Part(x, 0, x.upto)) = x.upto
      /\ x.bytes \in Seq(Nat) /\ x.pos \in Nat /\ x.pos <= Len(x.bytes) /\ x.start = x.pos /\ x.mode = "write"
  BY WaitingIs
<1>2. Over(x.bytes, x.pos, Part(x, 0, x.upto)) = x.bytes
  BY <1>1, OverNothing
<1> QED
  BY <1>1, <1>2 DEF WholeFile, ftell

(* What waits goes out to where it stands.                                 *)
LEMMA OutGives ==
  ASSUME NEW x, IsStream(x), InWrite(x), NEW y, y = WriteOut(x, x.upto)
  PROVE  SameContent(y, x) /\ y.bytes = WholeFile(x) /\ IsStream(y) /\ InWrite(y) /\ y.upto = 0
<1>1. /\ Len(Part(x, 0, x.upto)) = x.upto
      /\ x.pos \in Nat /\ x.pos <= Len(x.bytes) /\ x.start = x.pos /\ x.upto \in Nat /\ x.upto <= BUFSIZ
  BY WaitingIs
<1>2. /\ x.mode = "write" /\ x.pos = x.start /\ x.endbuf = BUFSIZ /\ x.ungetCh = NoChar
      /\ ~x.eofInd /\ x.upto \in 0 .. BUFSIZ
  BY DEF InWrite
<1>3. /\ IsStream(y) /\ InWrite(y) /\ y.upto = 0 /\ y.bytes = Over(x.bytes, x.pos, Part(x, 0, x.upto))
  BY <1>1, <1>2, WriteOutOk
<1>4. y.start = x.start + x.upto
  <2>1. y = [iwrite(x, Part(x, 0, x.upto)) EXCEPT !.upto = 0, !.buf = Empty]
    BY DEF WriteOut
  <2>2. iwrite(x, Part(x, 0, x.upto)).start = x.start + x.upto /\ DOMAIN iwrite(x, Part(x, 0, x.upto)) = DOMAIN x
        /\ "start" \in DOMAIN x
    BY <1>1 DEF iwrite, IsStream
  <2> QED
    BY <2>1, <2>2
<1>5. WholeFile(y) = y.bytes /\ ftell(y) = y.start
  BY <1>3, NothingWaits
<1>6. y.bytes = WholeFile(x)
  BY <1>2, <1>3 DEF WholeFile
<1> QED
  BY <1>3, <1>4, <1>5, <1>6 DEF SameContent, ftell

(* A write around the buffer.                                              *)
LEMMA IwriteGives ==
  ASSUME NEW x, IsStream(x), InWrite(x), x.upto = 0, NEW data \in Seq(Nat), NEW y, y = iwrite(x, data)
  PROVE  Puts(y, x, data)
<1>1. x.pos = x.start /\ x.pos <= Len(x.bytes)
  BY DEF InWrite
<1>2. /\ IsStream(y) /\ y.pos = y.start /\ y.pos <= Len(y.bytes) /\ y.bytes = Over(x.bytes, x.pos, data)
      /\ y.mode = x.mode /\ y.eofInd = x.eofInd /\ y.ungetCh = x.ungetCh /\ y.upto = x.upto /\ y.endbuf = x.endbuf
  BY <1>1, IwriteOk
<1>3. y.start = x.start + Len(data)
  BY DEF iwrite, IsStream
<1>4. InWrite(y)
  <2>1. 1 .. y.upto = {} /\ y.upto = 0 /\ y.upto \in 0 .. BUFSIZ
    BY <1>2, BUFSIZIs
  <2> QED
    BY <1>2, <2>1 DEF InWrite
<1>5. WholeFile(y) = y.bytes /\ ftell(y) = y.start
  BY <1>2, <1>4, NothingWaits
<1>6. WholeFile(x) = x.bytes /\ ftell(x) = x.start
  BY NothingWaits
<1> QED
  BY <1>1, <1>2, <1>3, <1>5, <1>6 DEF Puts

LEMMA WholeSlice ==
  ASSUME NEW b \in Seq(Nat)
  PROVE  SubSeq(b, 1, Len(b)) = b
<1>1. PICK l \in Nat : l = Len(b)
  OBVIOUS
<1>2. PICK w : w = SubSeq(b, 0 + 1, l)
  OBVIOUS
<1>3. w \in Seq(Nat) /\ Len(w) = l - 0 /\ \A k \in 1 .. l - 0 : w[k] = b[0 + k]
  <2>1. 0 \in Nat /\ 0 <= l /\ l <= Len(b)
    BY <1>1
  <2> QED
    BY <1>2, <2>1, SliceIs
<1>4. l - 0 = l /\ 0 + 1 = 1 /\ \A k \in 1 .. l : 0 + k = k
  OBVIOUS
<1>5. Len(w) = Len(b) /\ \A k \in 1 .. Len(w) : w[k] = b[k]
  BY <1>1, <1>3, <1>4
<1>6. w = b
  BY <1>3, <1>5, SameRow
<1> QED
  BY <1>1, <1>2, <1>4, <1>6

LEMMA CutInTwo ==
  ASSUME NEW b \in Seq(Nat), NEW j \in Nat, j <= Len(b)
  PROVE  SubSeq(b, 1, j) \o SubSeq(b, j + 1, Len(b)) = b
<1>1. PICK l \in Nat, i \in Nat : l = Len(b) /\ i = 0
  OBVIOUS
<1>2. i <= j /\ j <= l /\ l <= Len(b) /\ i + 1 = 1
  BY <1>1
<1>3. SubSeq(b, i + 1, j) \o SubSeq(b, j + 1, l) = SubSeq(b, i + 1, l)
  BY <1>2, SlicesJoin
<1> QED
  BY <1>1, <1>2, <1>3, WholeSlice

LEMMA PutsOver ==
  ASSUME NEW x, NEW w, NEW y, NEW d, SameContent(w, x), Puts(y, w, d)
  PROVE  Puts(y, x, d)
BY DEF SameContent, Puts

LEMMA PutsThen ==
  ASSUME NEW x, NEW w, NEW y, NEW d, Puts(w, x, d), SameContent(y, w)
  PROVE  Puts(y, x, d)
BY DEF SameContent, Puts

(* A binary write fills the buffer, puts it out and goes on with the rest. *)
LEMMA FwriteSlowBGives ==
  ASSUME NEW x, IsStream(x), InWrite(x), ~x.quickBin, ~x.text, NEW data \in Seq(Nat \ {Junk}), NEW y, y = fwriteSlowB(x, data)
  PROVE  Puts(y, x, data)
<1>1. x.endbuf = BUFSIZ /\ x.upto \in 0 .. BUFSIZ /\ BUFSIZ \in Nat /\ BUFSIZ > 2 /\ BUFSIZ \in 0 .. BUFSIZ /\ Len(data) \in Nat
  BY BUFSIZIs DEF InWrite
<1>2. PICK spare \in Nat : spare = x.endbuf - x.upto /\ x.upto + spare = BUFSIZ
  BY <1>1
<1>3. CASE Len(data) < spare
  <2>1. y = Put(x, data)
    BY <1>2, <1>3 DEF fwriteSlowB
  <2>2. x.upto + Len(data) <= BUFSIZ
    BY <1>1, <1>2, <1>3
  <2>3. IsStream(y) /\ InWrite(y)
    BY <2>1, <2>2, PutOk DEF Wrote
  <2> QED
    BY <2>1, <2>2, <2>3, PutGives
<1>4. CASE ~(Len(data) < spare)
  <2>1. SubSeq(data, 1, spare) \in Seq(Nat \ {Junk}) /\ Len(SubSeq(data, 1, spare)) = IF 1 <= spare THEN spare - 1 + 1 ELSE 0
    <3>1. 1 \in Nat /\ spare <= Len(data) /\ 1 >= 1
      BY <1>1, <1>2, <1>4
    <3> QED
      BY <3>1, PieceOf
  <2>2. PICK d \in Seq(Nat \ {Junk}) : d = SubSeq(data, 1, spare) /\ x.upto + Len(d) <= BUFSIZ /\ x.upto + Len(d) = BUFSIZ
    <3>1. (IF 1 <= spare THEN spare - 1 + 1 ELSE 0) = spare
      BY <1>2
    <3>2. Len(SubSeq(data, 1, spare)) = spare
      BY <2>1, <3>1
    <3>3. x.upto + Len(SubSeq(data, 1, spare)) <= BUFSIZ /\ x.upto + Len(SubSeq(data, 1, spare)) = BUFSIZ
      BY <1>1, <1>2, <3>2
    <3> QED
      BY <2>1, <3>3
  <2>3. PICK w : w = Put(x, d)
    OBVIOUS
  <2>4. Wrote(w, x) /\ w.upto = BUFSIZ
    BY <2>2, <2>3, PutOk
  <2>a. IsStream(w) /\ InWrite(w) /\ ~w.quickBin
    BY <2>4 DEF Wrote
  <2>b. Puts(w, x, d)
    BY <2>2, <2>3, <2>a, PutGives
  <2>5. PICK v : v = WriteOut(w, BUFSIZ)
    OBVIOUS
  <2>6. SameContent(v, w) /\ IsStream(v) /\ InWrite(v) /\ v.upto = 0
    BY <2>4, <2>5, <2>a, OutGives
  <2>7. ~v.quickBin
    BY <1>1, <2>5, <2>a, OutOk DEF Wrote
  <2>c. Puts(v, x, d)
    BY <2>6, <2>b, PutsThen
  <2>8. PICK left \in Seq(Nat \ {Junk}) : left = SubSeq(data, spare + 1, Len(data))
    <3>1. spare + 1 \in Nat /\ spare + 1 >= 1 /\ Len(data) \in Nat /\ Len(data) <= Len(data)
      BY <1>1, <1>2
    <3>2. SubSeq(data, spare + 1, Len(data)) \in Seq(Nat \ {Junk})
      BY <3>1, PieceOf
    <3> QED
      BY <3>2
  <2>9. y = IF Len(left) > BUFSIZ THEN iwrite([v EXCEPT !.quickBin = TRUE], left) ELSE Put(v, left)
    BY <1>2, <1>4, <2>2, <2>3, <2>5, <2>8 DEF fwriteSlowB
  <2>10. Puts(y, v, left)
    <3>1. CASE Len(left) > BUFSIZ
      <4>1. PICK u : u = [v EXCEPT !.quickBin = TRUE]
        OBVIOUS
      <4>2. IsStream(u)
        BY <2>6, <4>1 DEF IsStream
      <4>3. /\ u.bytes = v.bytes /\ u.pos = v.pos /\ u.mode = v.mode /\ u.eofInd = v.eofInd /\ u.ungetCh = v.ungetCh
            /\ u.buf = v.buf /\ u.start = v.start /\ u.upto = v.upto /\ u.endbuf = v.endbuf
        BY <2>6, <4>1 DEF IsStream
      <4>4. InWrite(u) /\ u.upto = 0
        BY <2>6, <4>3 DEF InWrite
      <4>5. SameContent(u, v)
        BY <4>3 DEF SameContent, WholeFile, ftell, Part
      <4>6. y = iwrite(u, left) /\ left \in Seq(Nat)
        BY <2>9, <3>1, <4>1
      <4>7. Puts(y, u, left)
        BY <4>2, <4>4, <4>6, IwriteGives
      <4> QED
        BY <4>5, <4>7, PutsOver
    <3>2. CASE ~(Len(left) > BUFSIZ)
      <4>1. y = Put(v, left)
        BY <2>9, <3>2
      <4>2. v.upto + Len(left) <= BUFSIZ
        BY <1>1, <2>6, <3>2
      <4>3. IsStream(y) /\ InWrite(y)
        BY <2>6, <2>7, <4>1, <4>2, PutOk DEF Wrote
      <4> QED
        BY <2>6, <4>1, <4>2, <4>3, PutGives
    <3> QED
      BY <3>1, <3>2
  <2>11. ToBeWritten(x)
    BY DEF ToBeWritten
  <2>12. d \in Seq(Nat) /\ left \in Seq(Nat) /\ data \in Seq(Nat)
    OBVIOUS
  <2>13. Puts(y, x, d \o left)
    BY <2>10, <2>11, <2>12, <2>c, PutsOn
  <2>14. d \o left = data
    <3>1. spare <= Len(data)
      BY <1>1, <1>2, <1>4
    <3> QED
      BY <2>2, <2>8, <2>12, <3>1, CutInTwo
  <2> QED
    BY <2>13, <2>14
<1> QED
  BY <1>3, <1>4

(* Changing over to writing moves nothing.                                 *)
LEMMA ToWriteGives ==
  ASSUME NEW x, ToBeWritten(x), ~x.quickBin, NEW y, y = ToWrite(x)
  PROVE  SameContent(y, x)
<1>0. IsStream(x)
  BY DEF ToBeWritten
<1>1. CASE InWrite(x)
  <2>1. y = [x EXCEPT !.justseeked = FALSE]
    BY <1>1 DEF ToWrite, InWrite
  <2>2. y.bytes = x.bytes /\ y.pos = x.pos /\ y.mode = x.mode /\ y.buf = x.buf /\ y.start = x.start /\ y.upto = x.upto
    BY <1>0, <2>1 DEF IsStream
  <2> QED
    BY <2>2 DEF SameContent, WholeFile, ftell, Part
<1>2. CASE InRead(x) /\ x.justseeked /\ x.upto = BUFSIZ /\ x.endbuf = BUFSIZ /\ x.ungetCh = NoChar
  <2>1. x.mode = "read" /\ x.pos = x.start + x.endbuf /\ x.pos \in Nat /\ x.start \in Int
    BY <1>0, <1>2 DEF InRead, InStep, IsStream
  <2>2. y = [x EXCEPT !.justseeked = FALSE, !.mode = "write", !.start = @ + x.endbuf, !.upto = 0]
    BY <1>2, <2>1 DEF ToWrite
  <2>3. y.bytes = x.bytes /\ y.start = x.start + x.endbuf /\ y.upto = 0
    BY <1>0, <2>2 DEF IsStream
  <2>4. IsStream(y) /\ InWrite(y)
    BY ToWriteOk DEF Wrote
  <2>5. WholeFile(y) = y.bytes /\ ftell(y) = y.start
    BY <2>3, <2>4, NothingWaits
  <2>6. WholeFile(x) = x.bytes /\ ftell(x) = x.start + x.endbuf
    BY <1>2, <2>1 DEF WholeFile, ftell
  <2> QED
    BY <2>3, <2>5, <2>6 DEF SameContent
<1> QED
  BY <1>1, <1>2 DEF ToBeWritten

LEMMA QuickUnchanged ==
  ASSUME NEW x, IsStream(x), NEW q \in BOOLEAN, NEW y, y = [x EXCEPT !.quickBin = q]
  PROVE  SameContent(y, x)
<1>1. y.bytes = x.bytes /\ y.pos = x.pos /\ y.mode = x.mode /\ y.buf = x.buf /\ y.start = x.start /\ y.upto = x.upto
  BY DEF IsStream
<1> QED
  BY <1>1 DEF SameContent, WholeFile, ftell, Part

LEMMA FwriteGives ==
  ASSUME NEW x, ToBeWritten(x), ~x.text, NEW data \in Seq(Nat \ {Junk}), NEW y, y = fwrite(x, data)
  PROVE  Puts(y, x, data)
<1>1. PICK q \in BOOLEAN : q = (x.quickBin /\ Len(data) >= BUFSIZ) /\ (q => x.quickBin)
  <2>1. (x.quickBin /\ Len(data) >= BUFSIZ) \in BOOLEAN
    OBVIOUS
  <2> QED
    BY <2>1
<1>2. PICK w : w = [x EXCEPT !.quickBin = q]
  OBVIOUS
<1>3. ToBeWritten(w) /\ w.quickBin = q /\ ~w.text /\ (q => InWrite(w))
  <2>1. q => x.quickBin
    BY <1>1
  <2> QED
    BY <1>2, <2>1, QuickWrite
<1>a. SameContent(w, x)
  BY <1>2, QuickUnchanged DEF ToBeWritten
<1>4. w = [x EXCEPT !.quickBin = @ /\ Len(data) >= BUFSIZ]
  BY <1>1, <1>2 DEF IsStream, ToBeWritten
<1>5. y = IF w.quickBin THEN iwrite(w, data)
          ELSE IF w.text THEN fwriteSlowT(ToWrite(w), data) ELSE fwriteSlowB(ToWrite(w), data)
  BY <1>4 DEF fwrite
<1>6. CASE w.quickBin
  <2>1. InWrite(w) /\ IsStream(w)
    BY <1>3, <1>6 DEF ToBeWritten
  <2>2. w.upto = 0
    BY <1>6, <2>1 DEF InWrite
  <2>3. data \in Seq(Nat)
    OBVIOUS
  <2>4. y = iwrite(w, data)
    BY <1>5, <1>6
  <2>5. Puts(y, w, data)
    BY <2>1, <2>2, <2>3, <2>4, IwriteGives
  <2> QED
    BY <1>a, <2>5, PutsOver
<1>7. CASE ~w.quickBin
  <2>1. PICK v : v = ToWrite(w)
    OBVIOUS
  <2>2. Wrote(v, w) /\ SameContent(v, w)
    BY <1>3, <1>7, <2>1, ToWriteOk, ToWriteGives
  <2>3. IsStream(v) /\ InWrite(v) /\ ~v.quickBin /\ ~v.text
    BY <1>3, <2>2 DEF Wrote, SameFile
  <2>4. y = fwriteSlowB(v, data)
    BY <1>3, <1>5, <1>7, <2>1
  <2>5. Puts(y, v, data)
    BY <2>3, <2>4, FwriteSlowBGives
  <2>6. Puts(y, w, data)
    BY <2>2, <2>5, PutsOver
  <2> QED
    BY <1>a, <2>6, PutsOver
<1> QED
  BY <1>6, <1>7

LEMMA FputcGives ==
  ASSUME NEW x, ToBeWritten(x), ~x.text, NEW c \in Nat \ {Junk}, NEW y, y = fputc(x, c)
  PROVE  Puts(y, x, <<c>>)
<1>1. PICK q \in BOOLEAN : q = FALSE
  OBVIOUS
<1>2. PICK w : w = [x EXCEPT !.quickBin = q]
  OBVIOUS
<1>3. ToBeWritten(w) /\ ~w.quickBin /\ ~w.text
  BY <1>1, <1>2, QuickWrite
<1>a. SameContent(w, x)
  BY <1>2, QuickUnchanged DEF ToBeWritten
<1>4. y = IF w.upto >= w.endbuf - 2 THEN fwrite(w, <<c>>) ELSE Put(w, <<c>>)
  BY <1>1, <1>2, <1>3 DEF fputc
<1>b. PICK d \in Seq(Nat \ {Junk}) : d = <<c>> /\ Len(d) = 1
  BY OneByte
<1>5. CASE w.upto >= w.endbuf - 2
  <2>2. y = fwrite(w, d)
    BY <1>4, <1>5, <1>b
  <2>3. Puts(y, w, d)
    BY <1>3, <2>2, FwriteGives
  <2> QED
    BY <1>a, <1>b, <2>3, PutsOver
<1>6. CASE ~(w.upto >= w.endbuf - 2)
  <2>1. BUFSIZ \in Nat /\ IsStream(w)
    BY <1>3, BUFSIZIs DEF ToBeWritten
  <2>2. InWrite(w)
    <3>1. ~(w.upto = BUFSIZ /\ w.endbuf = BUFSIZ)
      BY <1>6, <2>1
    <3> QED
      BY <1>3, <3>1 DEF ToBeWritten
  <2>3. w.upto + Len(d) <= BUFSIZ
    BY <1>6, <1>b, <2>1, <2>2 DEF InWrite
  <2>5. y = Put(w, d)
    BY <1>4, <1>6, <1>b
  <2>6. IsStream(y) /\ InWrite(y)
    BY <1>3, <2>1, <2>2, <2>3, <2>5, PutOk DEF Wrote
  <2>7. Puts(y, w, d)
    BY <2>1, <2>2, <2>3, <2>5, <2>6, PutGives
  <2> QED
    BY <1>a, <1>b, <2>7, PutsOver
<1> QED
  BY <1>5, <1>6

LEMMA FlushGives ==
  ASSUME NEW x, IsStream(x), InWrite(x), NEW y, y = FlushOut(x)
  PROVE  SameContent(y, x) /\ y.bytes = WholeFile(x) /\ IsStream(y) /\ InWrite(y) /\ y.upto = 0
<1>1. x.mode = "write"
  BY DEF InWrite
<1>2. CASE x.upto = 0
  <2>1. y = x
    BY <1>2 DEF FlushOut
  <2> QED
    BY <1>2, <2>1, NothingWaits DEF SameContent
<1>3. CASE x.upto # 0
  <2>1. y = WriteOut(x, x.upto)
    BY <1>1, <1>3 DEF FlushOut
  <2> QED
    BY <2>1, OutGives
<1> QED
  BY <1>2, <1>3

(* Where a stream that writes goes to.                                     *)
LEMMA GoneTo ==
  ASSUME NEW x, IsStream(x), InWrite(x), NEW new \in Nat, new <= Len(WholeFile(x)), NEW v, v = SeekTo(x, new)
  PROVE  WholeFile(v) = WholeFile(x) /\ v.bytes = WholeFile(x) /\ ftell(v) = new /\ v.upto = 0 /\ v.ungetCh = NoChar /\ v.mode = "write"
         /\ InWrite(v) /\ IsStream(v)
<1>1. PICK y : y = FlushOut(x)
  OBVIOUS
<1>2. y.bytes = WholeFile(x) /\ IsStream(y) /\ InWrite(y) /\ y.upto = 0
  BY <1>1, FlushGives
<1>3. y.mode = "write" /\ x.mode = "write"
  BY <1>2 DEF InWrite
<1>4. ~InBuffer(y, new, ftell(x))
  BY <1>3 DEF InBuffer
<1>5. v = Sent(SystemSeek(y, new))
  BY <1>1, <1>4 DEF SeekTo, Sent
<1>6. Seeked(v, x, new)
  <2>1. new <= Len(FlushOut(x).bytes)
    BY <1>1, <1>2
  <2> QED
    BY <2>1, SeekToOk
<1>7. IsStream(v) /\ InWrite(v) /\ v.upto = 0 /\ v.bytes = WholeFile(x) /\ v.ungetCh = NoChar /\ v.mode = "write"
  BY <1>1, <1>2, <1>3, <1>6 DEF Seeked
<1>8. v.pos = new
  <2>1. PICK z : z = SystemSeek(y, new)
    OBVIOUS
  <2>2. z = [y EXCEPT !.pos = new, !.endbuf = BUFSIZ, !.buf = Empty, !.upto = 0, !.start = new]
    BY <1>3, <2>1 DEF SystemSeek
  <2>3. z.pos = new /\ DOMAIN z = DOMAIN y
    BY <1>2, <2>2 DEF IsStream
  <2>4. v = [z EXCEPT !.justseeked = TRUE, !.quickBin = FALSE, !.quickText = FALSE, !.ungetCh = NoChar, !.eofInd = FALSE]
    BY <1>5, <2>1 DEF Sent
  <2> QED
    BY <2>3, <2>4
<1>9. v.start = new
  BY <1>7, <1>8 DEF InWrite
<1>10. WholeFile(v) = v.bytes /\ ftell(v) = v.start
  BY <1>7, NothingWaits
<1> QED
  BY <1>7, <1>9, <1>10

LEMMA EndGives ==
  ASSUME NEW x, IsStream(x), ~x.text, InRead(x) \/ InWrite(x), NEW v, v = SeekEnd(x)
  PROVE  WholeFile(v) = WholeFile(x) /\ ftell(v) = Len(WholeFile(x)) /\ v.ungetCh = NoChar /\ v.mode = "read"
<1>1. PICK w : w = IF x.mode = "write" THEN SeekTo(x, ftell(x)) ELSE x
  OBVIOUS
<1>2. IsStream(w) /\ ~w.text /\ (InRead(w) \/ (InWrite(w) /\ w.justseeked /\ ~w.quickBin)) /\ w.bytes = WholeFile(x)
  <2>1. CASE InRead(x)
    <3>1. x.mode = "read"
      BY <2>1 DEF InRead, InStep
    <3>2. w = x
      BY <1>1, <3>1
    <3> QED
      BY <2>1, <3>1, <3>2 DEF WholeFile
  <2>2. CASE InWrite(x)
    <3>1. x.mode = "write"
      BY <2>2 DEF InWrite
    <3>2. PICK new \in Nat : new = ftell(x) /\ new <= Len(FlushOut(x).bytes)
      BY <2>2, FlushLen
    <3>3. Seeked(w, x, new)
      BY <1>1, <2>2, <3>1, <3>2, SeekToOk
    <3>4. PICK y : y = FlushOut(x)
      OBVIOUS
    <3>5. y.bytes = WholeFile(x)
      BY <2>2, <3>4, FlushGives
    <3> QED
      BY <3>1, <3>3, <3>4, <3>5 DEF Seeked, SameFile
  <2> QED
    BY <2>1, <2>2
<1>3. PICK y : y = ReadOn(w)
  OBVIOUS
<1>4. IsStream(y) /\ Alike(y, w) /\ Short(y)
  BY <1>2, <1>3, ReadOnOk
<1>5. y.mode = "read" /\ y.pos = Len(y.bytes) /\ y.pos = y.start + y.endbuf /\ y.upto = y.endbuf /\ y.pos \in Nat
      /\ y.bytes = WholeFile(x)
  BY <1>2, <1>4 DEF Short, IsStream, Alike
<1>6. PICK new \in Nat : new = ftell(y) /\ new = Len(y.bytes)
  BY <1>5 DEF ftell
<1>7. Known(y, new)
  <2>1. PastRead(y)
    BY <1>4, ShortIsPast
  <2>2. new \in Int /\ new <= Len(y.bytes)
    BY <1>6
  <2> QED
    BY <1>4, <2>1, <2>2, PastKnown
<1>8. new <= Len(y.bytes)
  BY <1>6
<1>9. Seeked(SeekTo(y, new), y, new)
  BY <1>4, <1>5, <1>7, <1>8, SeekToOk
<1>10. v = SeekTo(y, new)
  BY <1>1, <1>3, <1>6 DEF SeekEnd
<1>11. v.mode = "read" /\ v.bytes = y.bytes /\ v.start + v.upto = new /\ v.ungetCh = NoChar
  BY <1>5, <1>9, <1>10 DEF Seeked
<1>12. WholeFile(v) = v.bytes /\ ftell(v) = new
  BY <1>11 DEF WholeFile, ftell
<1> QED
  BY <1>5, <1>6, <1>11, <1>12

(***************************************************************************)
(* A binary file, call by call.                                            *)
(***************************************************************************)
LEMMA CharsAre ==
  ASSUME ~s.text, NEW i, NEW j
  PROVE  Promised!Chars(i, j) = SubSeq(Content, i + 1, j)
BY Zenon DEF Promised!Chars

LEMMA BytesAre ==
  ASSUME ~s.text, NEW data
  PROVE  Promised!Bytes(data) = data
BY Zenon DEF Promised!Bytes

LEMMA StartsAre ==
  ASSUME ~s.text, NEW b
  PROVE  Promised!Starts(b) = 0 .. Len(b)
BY DEF Promised!Starts

LEMMA OverSame ==
  ASSUME NEW b, NEW i, NEW data
  PROVE  Promised!Over(b, i, data) = Over(b, i, data)
BY DEF Promised!Over, Over

(* What the program sees of the stream.                                    *)
LEMMA SeenIs ==
  /\ isopen => Content = WholeFile(s)
  /\ isopen' => Content' = WholeFile(s')
  /\ ~isopen => Content = s.bytes
  /\ ~isopen' => Content' = s'.bytes
  /\ At = IF turn \in {"ended", "ended line"} THEN Len(s.bytes) ELSE PlaceOf(s)
  /\ At' = IF turn' \in {"ended", "ended line"} THEN Len(s'.bytes) ELSE PlaceOf(s')
BY DEF Content, WholeFile, At, Ended, PlaceOf, ftell

LEMMA InPlace ==
  ASSUME Standing(s, turn), ~s.text
  PROVE  isopen /\ Content = WholeFile(s) /\ Content \in Seq(Nat) /\ At \in Nat /\ At <= Len(Content)
<1>1. isopen
  BY DEF isopen, Standing
<1>2. Content = WholeFile(s)
  BY <1>1, SeenIs
<1>3. IsStream(s) /\ (InRead(s) \/ InWrite(s) \/ PastRead(s) \/ PastLine(s)) /\ (InWrite(s) \/ s.mode = "read")
  BY StandsIn
<1>4. CASE InWrite(s)
  <2>1. ToBeWritten(s)
    BY <1>3, <1>4 DEF ToBeWritten
  <2>2. WholeFile(s) \in Seq(Nat) /\ ftell(s) \in Nat /\ ftell(s) <= Len(WholeFile(s))
    BY <2>1, WholeIs
  <2>3. s.mode = "write" /\ s.ungetCh = NoChar
    BY <1>4 DEF InWrite
  <2>4. turn \notin {"ended", "ended line"}
    <3>1. s.mode # "read"
      BY <2>3
    <3>2. turn \in {"ended", "ended line"} => PastRead(s) \/ PastLine(s)
      BY DEF Standing, Turns
    <3> QED
      BY <3>1, <3>2 DEF PastRead, PastLine
  <2>5. At = PlaceOf(s)
    BY <2>4, SeenIs
  <2>6. At = ftell(s)
    BY <2>2, <2>3, <2>5 DEF PlaceOf
  <2> QED
    BY <1>1, <1>2, <2>2, <2>6
<1>5. CASE s.mode = "read"
  <2>1. WholeFile(s) = s.bytes /\ s.bytes \in Seq(Nat)
    BY <1>3, <1>5 DEF WholeFile, IsStream
  <2>2. CASE turn \in {"ended", "ended line"}
    <3>1. At = Len(s.bytes)
      BY <2>2, SeenIs
    <3>2. Len(s.bytes) \in Nat
      BY <2>1
    <3> QED
      BY <1>1, <1>2, <2>1, <3>1, <3>2
  <2>3. CASE turn \notin {"ended", "ended line"}
    <3>1. turn \in {"any", "read", "write"}
      BY <2>3 DEF Standing, Turns
    <3>2. InRead(s)
      BY <1>5, <3>1, StandsIn DEF InWrite
    <3>3. At = PlaceOf(s)
      BY <2>3, SeenIs
    <3>4. /\ s.start \in Int /\ s.upto \in Int /\ s.endbuf \in Nat /\ s.pos = s.start + s.endbuf /\ s.pos <= Len(s.bytes)
          /\ s.upto <= s.endbuf /\ s.start + s.upto >= 0 /\ (s.ungetCh # NoChar => s.start + s.upto >= 1)
      BY <1>3, <3>2 DEF InRead, InStep, IsStream
    <3>5. PICK p \in Nat : p = s.start + s.upto /\ p <= Len(s.bytes) /\ (s.ungetCh # NoChar => p >= 1)
      <4>1. Len(s.bytes) \in Nat
        BY <2>1
      <4> QED
        BY <3>4, <4>1
    <3>6. PlaceOf(s) = p - IF s.ungetCh = NoChar THEN 0 ELSE 1
      BY <3>5 DEF PlaceOf, ftell
    <3>7. PlaceOf(s) \in Nat /\ PlaceOf(s) <= Len(s.bytes)
      <4>1. Len(s.bytes) \in Nat
        BY <2>1
      <4> QED
        BY <3>5, <3>6, <4>1
    <3> QED
      BY <1>1, <1>2, <2>1, <3>3, <3>7
  <2> QED
    BY <2>2, <2>3
<1> QED
  BY <1>3, <1>4, <1>5

(* How far a read of n goes in a binary file.                              *)
LEMMA ForwardIs ==
  ASSUME ~s.text, isopen, Content \in Seq(Nat), At \in Nat, At <= Len(Content), NEW n \in Nat,
         NEW e, ReadsTo(Content, At, n, e)
  PROVE  Promised!Forward(n) = e
<1> DEFINE T == {j \in Promised!Starts(Content) : j >= At /\ Len(Promised!Chars(At, j)) = n} \cup {Len(Content)}
<1>1. Promised!Forward(n) = Min(T)
  <2> DEFINE p == IF isopen THEN At ELSE 0
  <2>1. Promised!Forward(n) = Min({j \in Promised!Starts(Content) : j >= p /\ Len(Promised!Chars(p, j)) = n} \cup {Len(Content)})
    BY Zenon DEF Promised!Forward, Promised!Min, Min
  <2>2. p = At
    OBVIOUS
  <2> HIDE DEF p
  <2> QED
    BY <2>1, <2>2
<1>a. PICK b \in Seq(Nat) : b = Content
  OBVIOUS
<1>b. PICK l \in Nat : l = Len(b)
  OBVIOUS
<1>2. PICK a \in Nat : b = Content /\ a = At /\ l = Len(Content) /\ a <= l /\ l = Len(b) /\ l \in Nat
  BY <1>a, <1>b
<1>3. e \in Nat /\ a <= e /\ e <= l /\ (a + n <= l => e = a + n) /\ (~(a + n <= l) => e = l)
  BY <1>2 DEF ReadsTo
<1>4. ASSUME NEW j \in 0 .. l, j >= a
      PROVE  Len(Promised!Chars(a, j)) = j - a
  <2>1. Promised!Chars(a, j) = SubSeq(b, a + 1, j)
    BY <1>2, CharsAre
  <2>2. j \in Nat /\ a <= j /\ j <= Len(b)
    BY <1>2, <1>4
  <2> QED
    BY <2>1, <2>2, SliceIs
<1>5. Promised!Starts(Content) = 0 .. l
  BY <1>2, StartsAre
<1>6. e \in T
  <2>1. CASE a + n <= l
    <3>1. e \in 0 .. l /\ e >= a /\ e - a = n
      BY <1>2, <1>3, <2>1
    <3> QED
      BY <1>2, <1>4, <1>5, <3>1
  <2>2. CASE ~(a + n <= l)
    BY <1>2, <1>3, <2>2
  <2> QED
    BY <2>1, <2>2
<1>7. ASSUME NEW t \in T
      PROVE  t \in Int /\ t >= 0 /\ t >= e
  <2>1. CASE t = Len(Content)
    BY <1>2, <1>3, <2>1
  <2>2. CASE t \in 0 .. l /\ t >= a /\ Len(Promised!Chars(a, t)) = n
    <3>1. t - a = n
      BY <1>4, <2>2
    <3>2. a + n <= l
      BY <1>2, <2>2, <3>1
    <3> QED
      BY <1>2, <1>3, <2>2, <3>1, <3>2
  <2> QED
    BY <1>2, <1>5, <1>7, <2>1, <2>2
<1> HIDE DEF T
<1>8. Min(T) \in T /\ \A t \in T : Min(T) <= t
  <2>1. 0 \in Int /\ T # {} /\ \A t \in T : t \in Int /\ t >= 0
    BY <1>6, <1>7
  <2> QED
    BY <2>1, LeastOf
<1>9. Min(T) = e
  <2>1. Min(T) \in Int /\ Min(T) >= e /\ Min(T) <= e
    BY <1>6, <1>7, <1>8
  <2> QED
    BY <1>3, <2>1
<1> QED
  BY <1>1, <1>9

(* Nothing waits after a seek of a stream that writes.                     *)
Settled(x, t) == t = "any" /\ x.mode = "write" => x.upto = 0

(* A step is one that C allows.                                            *)
Continues == Promised!Next /\ Settled(s', turn')

LEMMA FreadContinues ==
  ASSUME Standing(s, turn), Settled(s, turn), ~s.text, NoSlips, NEW n \in Requests, Fread(n)
  PROVE  Continues
<1>0. n \in Nat /\ n >= 1
  BY DataIs
<1>1. PICK r : r = fread(s, n)
  OBVIOUS
<1>2. /\ IsStream(s) /\ Modes(s) /\ Turns(s, turn) /\ "read" \in s.may /\ s.may # {}
  BY DEF Standing, Modes, Fread, CanRead
<1>3. /\ s' = r.x /\ turn' = (IF Len(r.out) < n THEN "ended" ELSE "read")
      /\ call' = [op |-> "fread", arg |-> <<n>>, answer |-> r.out]
  BY <1>1 DEF Fread, Called
<1>4. turn \in {"any", "read", "ended"}
  BY DEF Fread, NoSlips, Slip
<1>5. isopen /\ Content = WholeFile(s) /\ Content \in Seq(Nat) /\ At \in Nat /\ At <= Len(Content)
  BY InPlace
<1>6. PICK e : ReadsTo(Content, At, n, e)
  BY <1>0, <1>5, ReadsSome
<1>7. Promised!Forward(n) = e
  BY <1>0, <1>5, <1>6, ForwardIs
<1>8. Piece(Content, At, e, Beyond(Content, At, n))
  BY <1>0, <1>5, <1>6, BeyondFrom
<1>9. IsStream(r.x) /\ Alike(r.x, s) /\ r.x.mode = "read" /\ Content = s.bytes /\ r.out = Beyond(Content, At, n)
      /\ (Len(r.out) < n => e = Len(Content)) /\ (~(Len(r.out) < n) => PlaceOf(r.x) = e)
  <2>1. CASE turn \in {"any", "read"}
    <3>1. InRead(s) \/ (InWrite(s) /\ s.justseeked /\ ~s.quickBin /\ s.upto = 0)
      <4>1. CASE turn = "read"
        BY <1>2, <4>1 DEF Turns
      <4>2. CASE turn = "any"
        <5>1. Anything(s)
          BY <1>2, <4>2 DEF Turns
        <5>2. InWrite(s) => s.mode = "write"
          BY DEF InWrite
        <5>3. s.mode = "write" => s.mode # "read"
          OBVIOUS
        <5>4. s.mode = "write" => s.update
          BY <1>2, <5>3 DEF Modes, IsStream
        <5>5. s.mode = "write" => s.upto = 0
          BY <4>2 DEF Settled
        <5> QED
          BY <1>2, <5>1, <5>2, <5>4, <5>5 DEF Anything
      <4> QED
        BY <2>1, <4>1, <4>2
    <3>2. Content = s.bytes
      <4>1. CASE InRead(s)
        <5>1. s.mode = "read"
          BY <4>1 DEF InRead, InStep
        <5> QED
          BY <1>5, <5>1 DEF WholeFile
      <4>2. CASE InWrite(s) /\ s.upto = 0
        BY <1>2, <1>5, <4>2, NothingWaits
      <4> QED
        BY <3>1, <4>1, <4>2
    <3>3. At = PlaceOf(s)
      BY <2>1, SeenIs
    <3>4. r.out = Beyond(Content, At, n) /\ r.x.start + r.x.upto = At + Len(r.out)
      BY <1>0, <1>1, <1>2, <3>1, <3>2, <3>3, FreadGives DEF Gives
    <3>5. ReadOk(s, n, r)
      BY <1>0, <1>1, <1>2, <3>1, FreadOk
    <3>6. /\ IsStream(r.x) /\ Alike(r.x, s) /\ Len(r.out) \in Nat /\ Len(r.out) <= n
          /\ (Len(r.out) = n => InRead(r.x) /\ r.x.ungetCh = NoChar)
          /\ (Len(r.out) < n => Short(r.x))
      BY <3>5 DEF ReadOk
    <3>7. Len(r.out) = e - At /\ e \in Nat
      BY <1>6, <1>8, <3>4 DEF Piece, ReadsTo
    <3>8. Len(r.out) < n => e = Len(Content)
      <4>1. e \in Nat /\ (At + n <= Len(Content) => e = At + n) /\ (~(At + n <= Len(Content)) => e = Len(Content))
        BY <1>6 DEF ReadsTo
      <4>2. PICK b \in Seq(Nat), a \in Nat : b = Content /\ a = At
        BY <1>5
      <4>3. PICK l \in Nat : l = Len(b)
        OBVIOUS
      <4> QED
        BY <1>0, <3>7, <4>1, <4>2, <4>3
    <3>9. ~(Len(r.out) < n) => PlaceOf(r.x) = e
      <4> SUFFICES ASSUME ~(Len(r.out) < n) PROVE PlaceOf(r.x) = e
        OBVIOUS
      <4>1. r.x.ungetCh = NoChar
        BY <1>0, <3>6
      <4>2. r.x.start + r.x.upto = e
        BY <1>5, <3>4, <3>7
      <4> QED
        BY <3>7, <4>1, <4>2 DEF PlaceOf, ftell
    <3>10. r.x.mode = "read"
      <4>1. Len(r.out) = n \/ Len(r.out) < n
        BY <1>0, <3>6
      <4> QED
        BY <3>6, <4>1 DEF InRead, InStep, Short
    <3> QED
      BY <3>2, <3>4, <3>6, <3>8, <3>9, <3>10
  <2>2. CASE turn = "ended"
    <3>1. PastRead(s)
      BY <1>2, <2>2 DEF Turns
    <3>2. IsStream(r.x) /\ Alike(r.x, s) /\ PastRead(r.x) /\ Len(r.out) < n
      BY <1>0, <1>1, <1>2, <3>1, FreadPast
    <3>3. Len(r.out) = 0 /\ r.out \in Seq(Nat)
      BY <1>0, <1>1, <1>2, <3>1, FreadNothing
    <3>4. s.mode = "read" /\ r.x.mode = "read"
      BY <3>1, <3>2 DEF PastRead
    <3>5. Content = s.bytes
      BY <1>5, <3>4 DEF WholeFile
    <3>6. At = Len(Content)
      BY <2>2, <3>5, SeenIs
    <3>7. e = Len(Content)
      <4>1. e \in Nat /\ At <= e /\ e <= Len(Content)
        BY <1>6 DEF ReadsTo
      <4> QED
        BY <1>5, <3>6, <4>1
    <3>8. r.out = Beyond(Content, At, n)
      <4>1. PICK g \in Seq(Nat) : g = Beyond(Content, At, n) /\ Len(g) = e - At
        BY <1>8 DEF Piece
      <4>2. Len(g) = 0 /\ 1 .. Len(r.out) = {}
        BY <1>5, <3>3, <3>6, <3>7, <4>1
      <4>3. r.out = g
        BY <3>3, <4>2, SameRow
      <4> QED
        BY <4>1, <4>3
    <3> QED
      BY <3>2, <3>4, <3>5, <3>7, <3>8
  <2> QED
    BY <1>4, <2>1, <2>2
<1>10. s'.may = s.may /\ s'.text = s.text /\ s'.bytes = s.bytes /\ s'.mode = "read"
  BY <1>3, <1>9 DEF Alike
<1>11. isopen'
  BY <1>2, <1>10 DEF isopen
<1>12. Content' = Content
  BY <1>9, <1>10, <1>11, SeenIs DEF WholeFile
<1>13. At' = e
  <2>1. CASE Len(r.out) < n
    BY <1>3, <1>9, <1>10, <2>1, SeenIs
  <2>2. CASE ~(Len(r.out) < n)
    BY <1>3, <1>9, <2>2, SeenIs
  <2> QED
    BY <2>1, <2>2
<1>14. Promised!Chars(At, At') = r.out
  BY <1>8, <1>9, <1>13, CharsAre DEF Piece
<1>15. Promised!Reads(n)
  BY <1>3, <1>5, <1>7, <1>11, <1>12, <1>13, <1>14 DEF Promised!Reads
<1>16. Promised!Next
  BY <1>2, <1>3, <1>10, <1>15 DEF Promised!Next, Promised!Calls
<1>17. Settled(s', turn')
  BY <1>10 DEF Settled
<1> QED
  BY <1>16, <1>17 DEF Continues

LEMMA UngetcContinues ==
  ASSUME Standing(s, turn), ~s.text, Ungetc
  PROVE  Continues
<1>1. /\ IsStream(s) /\ turn = "read" /\ turn' = turn /\ s.ungetCh = NoChar
      /\ InRead(s) /\ s.start + s.upto >= 1 /\ s.may # {}
  BY DEF Standing, Turns, Ungetc
<1>2. isopen /\ Content = WholeFile(s) /\ Content \in Seq(Nat) /\ At \in Nat /\ At <= Len(Content)
  BY InPlace
<1>3. s.mode = "read" /\ s.start \in Int /\ s.upto \in Int
  BY <1>1 DEF InRead, InStep, IsStream
<1>4. Content = s.bytes
  BY <1>2, <1>3 DEF WholeFile
<1>5. At = PlaceOf(s)
  BY <1>1, SeenIs
<1>6. PICK a \in Nat : a = At /\ a = s.start + s.upto /\ a >= 1
  BY <1>1, <1>2, <1>3, <1>5 DEF PlaceOf, ftell
<1>7. PICK c \in Nat : c = s.bytes[At]
  <2>1. PICK b \in Seq(Nat) : b = s.bytes /\ a <= Len(b)
    BY <1>2, <1>4, <1>6
  <2>2. a \in 1 .. Len(b)
    BY <1>6, <2>1
  <2> QED
    BY <1>6, <2>1, <2>2
<1>8. s' = [s EXCEPT !.ungetCh = c, !.quickBin = FALSE, !.quickText = FALSE]
  BY <1>7 DEF Ungetc
<1>9. /\ s'.bytes = s.bytes /\ s'.may = s.may /\ s'.text = s.text /\ s'.mode = "read"
      /\ s'.ungetCh = c /\ s'.start = s.start /\ s'.upto = s.upto
  BY <1>1, <1>3, <1>8 DEF IsStream
<1>10. isopen'
  BY <1>1, <1>9 DEF isopen
<1>11. Content' = Content
  BY <1>4, <1>9, <1>10, SeenIs DEF WholeFile
<1>12. At' = PlaceOf(s')
  BY <1>1, SeenIs
<1>13. At' = At - 1
  <2>1. s'.ungetCh # NoChar
    BY <1>7, <1>9 DEF NoChar
  <2>2. PlaceOf(s') = a - 1
    BY <1>6, <1>9, <2>1 DEF PlaceOf, ftell
  <2> QED
    BY <1>6, <1>12, <2>2
<1>14. Promised!PutsBack
  BY <1>2, <1>10, <1>11, <1>13 DEF Promised!PutsBack
<1>15. call'.op = "ungetc"
  BY DEF Ungetc, Called
<1>16. Promised!Next
  BY <1>1, <1>9, <1>14, <1>15 DEF Promised!Next, Promised!Calls
<1> QED
  BY <1>9, <1>16 DEF Continues, Settled

(* What a write leaves is what was there, written over.                    *)
LEMMA PutsContinue ==
  ASSUME Standing(s, turn), ~s.text, turn \in {"any", "write"}, ToBeWritten(s), NEW d \in Seq(Nat),
         IsStream(s'), SameFile(s', s), InWrite(s'), Puts(s', s, d), turn' = "write",
         call'.op \in {"fwrite", "fputc"}, call'.arg = d, call'.answer = <<Len(d)>>
  PROVE  Continues
<1>1. isopen /\ Content = WholeFile(s) /\ Content \in Seq(Nat) /\ At \in Nat /\ At <= Len(Content)
  BY InPlace
<1>2. s'.may = s.may /\ s'.text = s.text /\ s'.ungetCh = NoChar /\ s.may # {} /\ s'.start \in Int /\ s'.upto \in Int
  BY DEF SameFile, InWrite, Standing, IsStream
<1>3. isopen'
  BY <1>2 DEF isopen
<1>4. s.ungetCh = NoChar /\ s.start \in Int /\ s.upto \in Int
  BY DEF ToBeWritten, InWrite, IsStream
<1>5. At = ftell(s) /\ At' = ftell(s')
  <2>1. At = PlaceOf(s)
    <3>1. turn \notin {"ended", "ended line"}
      OBVIOUS
    <3> QED
      BY <3>1, SeenIs
  <2>2. At' = PlaceOf(s')
    BY SeenIs
  <2>3. PlaceOf(s) = ftell(s)
    BY <1>4 DEF PlaceOf, ftell
  <2>4. PlaceOf(s') = ftell(s')
    BY <1>2 DEF PlaceOf, ftell
  <2> QED
    BY <2>1, <2>2, <2>3, <2>4
<1>6. Content' = Over(Content, At, d) /\ At' = At + Len(d)
  BY <1>1, <1>3, <1>5, SeenIs DEF Puts
<1>7. Promised!Bytes(d) = d /\ Promised!Over(Content, At, d) = Over(Content, At, d)
  BY BytesAre, OverSame
<1>8. Promised!Writes(d)
  BY <1>1, <1>3, <1>6, <1>7 DEF Promised!Writes
<1>9. Promised!Next
  BY <1>2, <1>8 DEF Promised!Next, Promised!Calls
<1> QED
  BY <1>9 DEF Continues, Settled

LEMMA FwriteContinues ==
  ASSUME Standing(s, turn), ~s.text, NoSlips, NEW data \in Writings, Fwrite(data)
  PROVE  Continues
<1>1. PICK d : d = Fresh(data)
  OBVIOUS
<1>2. ToBeWritten(s) /\ d \in Seq(Nat \ {Junk}) /\ Len(d) = Len(data)
  <2>1. data \in Seq({LF, Other}) /\ CanPut(data)
    BY DataIs DEF Fwrite
  <2> QED
    BY <1>1, <2>1, WriteReady
<1>3. PICK y : y = fwrite(s, d)
  OBVIOUS
<1>4. IsStream(y) /\ SameFile(y, s) /\ InWrite(y)
  <2>1. s.text => ~s.quickBin
    OBVIOUS
  <2> QED
    BY <1>2, <1>3, <2>1, FwriteOk
<1>5. Puts(y, s, d)
  BY <1>2, <1>3, FwriteGives
<1>6. s' = y /\ turn' = "write" /\ call' = [op |-> "fwrite", arg |-> d, answer |-> <<Len(d)>>]
  BY <1>1, <1>2, <1>3 DEF Fwrite, Called
<1>7. turn \in {"any", "write"}
  BY DEF Fwrite, CanPut, NoSlips, Slip
<1>8. d \in Seq(Nat)
  BY <1>2
<1> QED
  BY <1>2, <1>4, <1>5, <1>6, <1>7, <1>8, PutsContinue

LEMMA FputcContinues ==
  ASSUME Standing(s, turn), ~s.text, NoSlips, NEW c \in {LF, Other}, Fputc(c)
  PROVE  Continues
<1>1. PICK d : d = Fresh(<<c>>)
  OBVIOUS
<1>2. ToBeWritten(s) /\ d \in Seq(Nat \ {Junk}) /\ Len(d) = 1
  <2>1. <<c>> \in Seq({LF, Other}) /\ CanPut(<<c>>) /\ Len(<<c>>) = 1
    BY DEF Fputc
  <2> QED
    BY <1>1, <2>1, WriteReady
<1>3. d[1] \in Nat \ {Junk}
  <2>1. 1 \in 1 .. Len(d)
    BY <1>2
  <2> QED
    BY <1>2, <2>1, ElementOfSeq
<1>4. PICK y : y = fputc(s, d[1])
  OBVIOUS
<1>5. IsStream(y) /\ SameFile(y, s) /\ InWrite(y)
  BY <1>2, <1>3, <1>4, FputcOk
<1>6. Puts(y, s, <<d[1]>>)
  BY <1>2, <1>3, <1>4, FputcGives
<1>7. <<d[1]>> = d
  <2>1. PICK o \in Seq(Nat \ {Junk}) : o = <<d[1]>> /\ Len(o) = 1
    BY <1>3, OneByte
  <2>2. o \in Seq(Nat) /\ d \in Seq(Nat) /\ o[1] = d[1]
    BY <1>2, <2>1
  <2>3. Len(o) = Len(d) /\ \A k \in 1 .. Len(o) : o[k] = d[k]
    BY <1>2, <2>1, <2>2
  <2> QED
    BY <2>1, <2>2, <2>3, SameRow
<1>8. s' = y /\ turn' = "write" /\ call' = [op |-> "fputc", arg |-> d, answer |-> <<Len(d)>>]
  BY <1>1, <1>2, <1>4 DEF Fputc, Called
<1>9. turn \in {"any", "write"}
  BY DEF Fputc, CanPut, NoSlips, Slip
<1>10. d \in Seq(Nat)
  BY <1>2
<1> QED
  BY <1>2, <1>5, <1>6, <1>7, <1>8, <1>9, <1>10, PutsContinue

(* After fseek to a place that is told, what is there is as before.        *)
LEMMA SoughtContinues ==
  ASSUME Standing(s, turn), ~s.text, NEW new \in Nat, new <= Len(Content), Sought(SeekTo(s, new), new)
  PROVE  Continues
<1>1. PICK v : v = SeekTo(s, new)
  OBVIOUS
<1>2. s' = v /\ turn' = "any" /\ call'.op = "fseek" /\ call'.arg[1] = new
  BY <1>1 DEF Sought, Called
<1>3. isopen /\ Content = WholeFile(s) /\ IsStream(s) /\ s.may # {} /\ (InWrite(s) \/ s.mode = "read")
  BY InPlace, StandsIn
<1>4. Seeked(v, s, new)
  BY <1>1, PlaceSought
<1>5. v.may = s.may /\ v.text = s.text /\ v.ungetCh = NoChar /\ v.mode = s.mode /\ IsStream(v)
      /\ (s.mode = "write" => v.upto = 0)
  BY <1>4 DEF Seeked, SameFile
<1>6. WholeFile(v) = WholeFile(s) /\ ftell(v) = new
  <2>1. CASE InWrite(s)
    BY <1>1, <1>3, <2>1, GoneTo
  <2>2. CASE s.mode = "read"
    <3>1. v.bytes = s.bytes /\ v.start + v.upto = new /\ v.mode = "read"
      BY <1>4, <2>2 DEF Seeked
    <3> QED
      BY <2>2, <3>1 DEF WholeFile, ftell
  <2> QED
    BY <1>3, <2>1, <2>2
<1>7. isopen'
  BY <1>2, <1>3, <1>5 DEF isopen
<1>8. Content' = Content
  BY <1>2, <1>3, <1>6, <1>7, SeenIs
<1>9. At' = new
  <2>1. At' = PlaceOf(v)
    BY <1>2, SeenIs
  <2> QED
    BY <1>5, <1>6, <2>1 DEF PlaceOf
<1>10. Promised!Seeks(new)
  BY <1>7, <1>8, <1>9 DEF Promised!Seeks
<1>11. Promised!Next
  BY <1>2, <1>3, <1>5, <1>10 DEF Promised!Next, Promised!Calls
<1> QED
  BY <1>2, <1>5, <1>11 DEF Continues, Settled

LEMMA FseekSetContinues ==
  ASSUME Standing(s, turn), ~s.text, NEW i \in Places, FseekSet(i)
  PROVE  Continues
<1>1. i \in Nat /\ i <= Len(Content)
  BY DEF Places
<1> QED
  BY <1>1, SoughtContinues DEF FseekSet

LEMMA FseekCurContinues ==
  ASSUME Standing(s, turn), ~s.text, NoSlips, NEW offset \in Offsets, FseekCur(offset)
  PROVE  Continues
<1>1. ~Ended /\ s.ungetCh = NoChar /\ At + offset \in Places
  BY DEF FseekCur, NoSlips, Slip
<1>2. PICK new \in Nat : new = At + offset /\ new <= Len(Content)
  BY <1>1 DEF Places
<1>3. ftell(s) + offset = new
  <2>1. s.start \in Int /\ s.upto \in Int /\ offset \in Int
    BY DataIs DEF Standing, IsStream
  <2>2. At = (s.start + s.upto) - 0
    <3>1. At = ftell(s) - 0
      BY <1>1 DEF At
    <3> QED
      BY <3>1 DEF ftell
  <2> QED
    BY <1>2, <2>1, <2>2 DEF ftell
<1>4. Sought(SeekTo(s, new), new)
  BY <1>2, <1>3 DEF FseekCur
<1> QED
  BY <1>2, <1>4, SoughtContinues

LEMMA FseekEndContinues ==
  ASSUME Standing(s, turn), ~s.text, NoSlips, FseekEnd
  PROVE  Continues
<1>1. ~Ended
  BY DEF FseekEnd, NoSlips, Slip
<1>2. turn \in {"any", "read", "write"}
  BY <1>1 DEF Ended, Standing, Turns
<1>3. IsStream(s) /\ s.may # {} /\ (InRead(s) \/ InWrite(s)) /\ isopen /\ Content = WholeFile(s) /\ Content \in Seq(Nat)
  BY <1>2, StandsIn, InPlace
<1>4. PICK v : v = SeekEnd(s)
  OBVIOUS
<1>5. WholeFile(v) = WholeFile(s) /\ ftell(v) = Len(WholeFile(s)) /\ v.ungetCh = NoChar /\ v.mode = "read"
  BY <1>3, <1>4, EndGives
<1>6. SameFile(v, s)
  BY <1>3, <1>4, SeekEndOk
<1>7. s' = v /\ turn' = "any" /\ call'.op = "fseek" /\ call'.arg[1] = Len(Content)
  BY <1>4 DEF FseekEnd, Sought, Called
<1>8. s'.may = s.may /\ s'.text = s.text
  BY <1>6, <1>7 DEF SameFile
<1>9. isopen'
  BY <1>3, <1>8 DEF isopen
<1>10. Content' = Content
  BY <1>3, <1>5, <1>7, <1>9, SeenIs
<1>11. At' = Len(Content)
  <2>1. At' = PlaceOf(v)
    BY <1>7, SeenIs
  <2>2. PICK l \in Nat : l = Len(Content)
    BY <1>3
  <2> QED
    BY <1>3, <1>5, <2>1, <2>2 DEF PlaceOf
<1>12. Promised!Seeks(Len(Content))
  BY <1>9, <1>10, <1>11 DEF Promised!Seeks
<1>13. Promised!Next
  BY <1>3, <1>7, <1>8, <1>12 DEF Promised!Next, Promised!Calls
<1> QED
  BY <1>5, <1>7, <1>13 DEF Continues, Settled

LEMMA FtellContinues ==
  ASSUME Standing(s, turn), Settled(s, turn), ~s.text, NoSlips, Ftell
  PROVE  Continues
<1>1. ~Ended /\ s.ungetCh = NoChar /\ isopen /\ s' = s /\ turn' = turn
      /\ call'.op = "ftell" /\ call'.answer = <<ftell(s)>>
  BY DEF Ftell, NoSlips, Slip, Called
<1>2. isopen' /\ Content' = Content /\ At' = At
  BY <1>1 DEF isopen, Content, At, Ended
<1>3. At = ftell(s)
  <2>1. s.start \in Int /\ s.upto \in Int
    BY DEF Standing, IsStream
  <2> QED
    BY <1>1, <2>1 DEF At, ftell
<1>4. Promised!Tells
  BY <1>1, <1>2, <1>3 DEF Promised!Tells
<1>5. Promised!Next
  BY <1>1, <1>4 DEF Promised!Next, Promised!Calls, isopen
<1> QED
  BY <1>1, <1>5 DEF Continues, Settled

LEMMA FflushContinues ==
  ASSUME Standing(s, turn), Settled(s, turn), ~s.text, Fflush
  PROVE  Continues
<1>1. IsStream(s) /\ s.may # {} /\ (InWrite(s) \/ s.mode = "read") /\ isopen /\ Content = WholeFile(s)
  BY StandsIn, InPlace
<1>2. s' = FlushOut(s) /\ turn' = turn /\ turn \in {"any", "write"} /\ call'.op = "fflush"
  BY DEF Fflush, Called
<1>3. /\ s'.may = s.may /\ s'.text = s.text /\ WholeFile(s') = WholeFile(s) /\ PlaceOf(s') = PlaceOf(s)
      /\ (turn' = "any" /\ s'.mode = "write" => s'.upto = 0)
  <2>1. CASE s.mode = "read"
    <3>1. s' = s
      BY <1>2, <2>1 DEF FlushOut
    <3> QED
      BY <1>2, <2>1, <3>1
  <2>2. CASE InWrite(s)
    <3>1. SameContent(s', s) /\ InWrite(s') /\ s'.upto = 0
      BY <1>1, <1>2, <2>2, FlushGives
    <3>2. SameFile(s', s)
      BY <1>1, <1>2, <2>2, FlushOutOk
    <3>3. s'.ungetCh = s.ungetCh
      BY <2>2, <3>1 DEF InWrite
    <3> QED
      BY <3>1, <3>2, <3>3 DEF SameContent, SameFile, PlaceOf
  <2> QED
    BY <1>1, <2>1, <2>2
<1>4. isopen'
  BY <1>1, <1>3 DEF isopen
<1>5. Content' = Content
  BY <1>1, <1>3, <1>4, SeenIs
<1>6. At' = At
  <2>1. turn \notin {"ended", "ended line"} /\ turn' \notin {"ended", "ended line"}
    BY <1>2
  <2> QED
    BY <1>3, <2>1, SeenIs
<1>7. Promised!Flushes
  BY <1>1, <1>4, <1>5, <1>6 DEF Promised!Flushes
<1>8. Promised!Next
  BY <1>1, <1>2, <1>3, <1>7 DEF Promised!Next, Promised!Calls
<1> QED
  BY <1>3, <1>8 DEF Continues, Settled

LEMMA FcloseContinues ==
  ASSUME Standing(s, turn), ~s.text, Fclose
  PROVE  Continues
<1>1. IsStream(s) /\ s.may # {} /\ (InWrite(s) \/ s.mode = "read") /\ isopen /\ Content = WholeFile(s)
  BY StandsIn, InPlace
<1>2. s' = NoFile(FlushOut(s).bytes, s.text) /\ call'.op = "fclose"
  BY DEF Fclose, Called
<1>3. s'.may = {} /\ s'.text = s.text /\ s'.bytes = FlushOut(s).bytes /\ s'.mode = "read"
  BY <1>2 DEF NoFile
<1>4. FlushOut(s).bytes = WholeFile(s)
  <2>1. CASE s.mode = "read"
    BY <2>1 DEF FlushOut, WholeFile
  <2>2. CASE InWrite(s)
    BY <1>1, <2>2, FlushGives
  <2> QED
    BY <1>1, <2>1, <2>2
<1>5. ~isopen'
  BY <1>3 DEF isopen
<1>6. Content' = Content
  BY <1>1, <1>3, <1>4, <1>5, SeenIs
<1>7. Promised!Closes
  BY <1>1, <1>3, <1>5, <1>6 DEF Promised!Closes
<1>8. Promised!Next
  BY <1>2, <1>7 DEF Promised!Next
<1> QED
  BY <1>3, <1>8 DEF Continues, Settled

LEMMA FopenContinues ==
  ASSUME Resting(s, turn), ~s.text, NEW base \in {"r", "w", "a"}, NEW plus \in BOOLEAN, Fopen(base, plus)
  PROVE  Continues
<1>1. PICK y : NewStream(y, base, plus) /\ Opened(base, plus) = IF base = "a" THEN SeekEnd(y) ELSE y
  BY OpenedIs
<1>2. /\ s' = (IF base = "a" THEN SeekEnd(y) ELSE y) /\ turn' = "any" /\ ~isopen
      /\ call'.op = "fopen" /\ call'.arg[1] = base /\ call'.arg[2] = plus
  BY <1>1 DEF Fopen, Called
<1>3. /\ IsStream(y) /\ y.text = s.text /\ y.may # {} /\ y.ungetCh = NoChar
      /\ (base = "w" => InWrite(y) /\ y.bytes = << >> /\ y.start = 0 /\ y.upto = 0)
      /\ (base # "w" => InRead(y) /\ y.bytes = s.bytes /\ y.start + y.upto = 0)
      /\ y.may = {x \in {"read", "write"} : plus \/ (x = "read" <=> base = "r")}
  BY <1>1 DEF NewStream
<1>4. WholeFile(y) = (IF base = "w" THEN << >> ELSE s.bytes) /\ ftell(y) = 0
  <2>1. CASE base = "w"
    BY <1>3, <2>1, NothingWaits
  <2>2. CASE base # "w"
    <3>1. y.mode = "read"
      BY <1>3, <2>2 DEF InRead, InStep
    <3> QED
      BY <1>3, <2>2, <3>1 DEF WholeFile, ftell
  <2> QED
    BY <2>1, <2>2
<1>5. /\ s'.may = y.may /\ s'.text = y.text /\ s'.ungetCh = NoChar /\ WholeFile(s') = WholeFile(y)
      /\ ftell(s') = (IF base = "a" THEN Len(WholeFile(y)) ELSE 0)
      /\ (s'.mode = "write" => s'.upto = 0)
  <2>1. CASE base = "a"
    <3>1. PICK v : v = SeekEnd(y)
      OBVIOUS
    <3>2. InRead(y) /\ ~y.text
      BY <1>3, <2>1
    <3>3. WholeFile(v) = WholeFile(y) /\ ftell(v) = Len(WholeFile(y)) /\ v.ungetCh = NoChar /\ v.mode = "read"
      BY <1>3, <3>1, <3>2, EndGives
    <3>4. SameFile(v, y)
      BY <1>3, <3>1, <3>2, SeekEndOk
    <3>5. s' = v
      BY <1>2, <2>1, <3>1
    <3> QED
      BY <2>1, <3>3, <3>4, <3>5 DEF SameFile
  <2>2. CASE base # "a"
    <3>1. s' = y
      BY <1>2, <2>2
    <3>2. y.mode = "write" => y.upto = 0
      BY <1>3 DEF InRead, InStep
    <3> QED
      BY <1>3, <1>4, <2>2, <3>1, <3>2
  <2> QED
    BY <2>1, <2>2
<1>6. isopen'
  BY <1>3, <1>5 DEF isopen
<1>7. Content = s.bytes
  BY <1>2, SeenIs
<1>8. Content' = IF base = "w" THEN << >> ELSE Content
  BY <1>4, <1>5, <1>6, <1>7, SeenIs
<1>9. At' = IF base = "a" THEN Len(Content') ELSE 0
  <2>1. At' = PlaceOf(s')
    BY <1>2, SeenIs
  <2>2. Content' = WholeFile(s')
    BY <1>6, SeenIs
  <2>3. Len(WholeFile(y)) \in Nat
    <3>1. << >> \in Seq(Nat) /\ s.bytes \in Seq(Nat)
      BY DEF Resting, IsStream
    <3>2. WholeFile(y) \in Seq(Nat)
      BY <1>4, <3>1
    <3> QED
      BY <3>2
  <2>4. PlaceOf(s') = ftell(s')
    <3>1. ftell(s') \in Int
      BY <1>5, <2>3
    <3>2. PlaceOf(s') = ftell(s') - 0
      BY <1>5 DEF PlaceOf
    <3> QED
      BY <3>1, <3>2
  <2> QED
    BY <1>5, <2>1, <2>2, <2>4
<1>10. s.may = {}
  BY <1>2 DEF isopen
<1>11. ("read" \in s'.may <=> base = "r" \/ plus) /\ ("write" \in s'.may <=> base # "r" \/ plus)
  <2>1. "read" \in s'.may <=> base = "r" \/ plus
    BY <1>3, <1>5
  <2>2. "write" \in s'.may <=> base # "r" \/ plus
    BY <1>3, <1>5
  <2> QED
    BY <2>1, <2>2
<1>12. Promised!Opens(base, plus)
  BY <1>3, <1>5, <1>6, <1>8, <1>9, <1>10, <1>11 DEF Promised!Opens
<1>13. Promised!Next
  BY <1>2, <1>12 DEF Promised!Next
<1> QED
  BY <1>2, <1>5, <1>13 DEF Continues, Settled

(* A binary file stays one.                                                *)
LEMMA TextStays ==
  ASSUME Promised!Next
  PROVE  s'.text = s.text
BY DEF Promised!Next, Promised!Opens, Promised!Closes

(* The inductive invariant of a stream of a binary file.                   *)
BinaryIInv == StreamIInv /\ Settled(s, turn) /\ ~s.text

LEMMA BinaryBegins ==
  ASSUME StreamInit, ~s.text
  PROVE  BinaryIInv /\ Promised!Init
<1>1. PICK d \in Disks : s = NoFile(d.bytes, d.text)
  BY DEF StreamInit
<1>2. s.may = {} /\ s.mode = "read"
  BY <1>1 DEF NoFile
<1>3. ~isopen
  BY <1>2 DEF isopen
<1>4. Promised!Init
  BY <1>2, <1>3 DEF Promised!Init
<1> QED
  BY <1>2, <1>4, StreamBegins DEF BinaryIInv, Settled

LEMMA BinaryContinues ==
  ASSUME BinaryIInv, StreamNext, NoSlips
  PROVE  Continues
<1>0. ~s.text /\ Settled(s, turn) /\ (Standing(s, turn) \/ Resting(s, turn))
  BY DEF BinaryIInv, StreamIInv
<1>1. CASE Standing(s, turn)
  <2>0. isopen
    BY <1>1 DEF Standing, isopen
  <2>1. CASE \E base \in {"r", "w", "a"}, plus \in BOOLEAN : Fopen(base, plus)
    BY <2>0, <2>1 DEF Fopen
  <2>2. CASE \E n \in Requests : Fread(n)
    BY <1>0, <1>1, <2>2, FreadContinues
  <2>3. CASE \E n \in Rooms : Fgets(n)
    BY <1>0, <2>3 DEF Fgets
  <2>4. CASE Ungetc
    BY <1>0, <1>1, <2>4, UngetcContinues
  <2>5. CASE \E data \in Writings : Fwrite(data)
    BY <1>0, <1>1, <2>5, FwriteContinues
  <2>6. CASE \E c \in {LF, Other} : Fputc(c)
    BY <1>0, <1>1, <2>6, FputcContinues
  <2>7. CASE \E i \in Places : FseekSet(i)
    BY <1>0, <1>1, <2>7, FseekSetContinues
  <2>8. CASE \E offset \in Offsets : FseekCur(offset)
    BY <1>0, <1>1, <2>8, FseekCurContinues
  <2>9. CASE FseekEnd
    BY <1>0, <1>1, <2>9, FseekEndContinues
  <2>10. CASE Ftell
    BY <1>0, <1>1, <2>10, FtellContinues
  <2>11. CASE Fflush
    BY <1>0, <1>1, <2>11, FflushContinues
  <2>12. CASE Fclose
    BY <1>0, <1>1, <2>12, FcloseContinues
  <2> QED
    BY <2>1, <2>2, <2>3, <2>4, <2>5, <2>6, <2>7, <2>8, <2>9, <2>10, <2>11, <2>12 DEF StreamNext
<1>2. CASE Resting(s, turn)
  <2>1. s.may = {}
    BY <1>2 DEF Resting, NoFile
  <2>2. ~isopen /\ ~CanRead /\ ~CanWrite
    BY <2>1 DEF isopen, CanRead, CanWrite
  <2>3. PICK base \in {"r", "w", "a"}, plus \in BOOLEAN : Fopen(base, plus)
    BY <2>2 DEF StreamNext, Fread, Fgets, Ungetc, Fwrite, Fputc, CanPut, FseekSet, FseekCur, FseekEnd, Ftell, Fflush, Fclose
  <2> QED
    BY <1>0, <1>2, <2>3, FopenContinues
<1> QED
  BY <1>0, <1>1, <1>2

LEMMA BinaryStays ==
  ASSUME BinaryIInv, [StreamNext]_streamVars, NoSlips
  PROVE  BinaryIInv' /\ [Promised!Next]_(Promised!vars)
<1>1. CASE UNCHANGED streamVars
  <2>1. s' = s /\ turn' = turn /\ call' = call
    BY <1>1 DEF streamVars
  <2>2. Content' = Content /\ At' = At /\ isopen' = isopen
    BY <2>1 DEF Content, At, Ended, isopen
  <2>3. UNCHANGED Promised!vars
    BY <2>1, <2>2 DEF Promised!vars
  <2>4. BinaryIInv'
    BY <2>1 DEF BinaryIInv, StreamIInv
  <2> QED
    BY <2>3, <2>4
<1>2. CASE StreamNext
  <2>1. Promised!Next /\ Settled(s', turn')
    BY <1>2, BinaryContinues DEF Continues
  <2>2. StreamIInv'
    BY <1>2, StreamStays DEF BinaryIInv
  <2>3. ~s'.text
    BY <2>1, TextStays DEF BinaryIInv
  <2> QED
    BY <2>1, <2>2, <2>3 DEF BinaryIInv
<1> QED
  BY <1>1, <1>2

(* A binary file is what C promises, whatever the buffer: every read gives *)
(* what the file has at the place, every write goes there, ftell tells     *)
(* where that is, and fclose leaves all of it on disk (fread, fwrite,      *)
(* fputc, ungetc, fseek, ftell, fflush, fopen and fclose of stdio.c), as   *)
(* long as the program asks for no place after a read that came short and  *)
(* none while a character is pushed back, and does not go to the end of a  *)
(* stream it only writes.                                                  *)
THEOREM BinaryKept ==
  ASSUME Slips \cap {"past end", "end of w", "pushed back"} = {}
  PROVE  StreamSpec /\ ~s.text => KeepsFile
<1>1. NoSlips
  BY DEF NoSlips
<1>2. StreamInit /\ ~s.text => BinaryIInv /\ Promised!Init
  BY BinaryBegins
<1>3. BinaryIInv /\ [StreamNext]_streamVars => BinaryIInv' /\ [Promised!Next]_(Promised!vars)
  BY <1>1, BinaryStays
<1> QED
  BY <1>2, <1>3, PTL DEF StreamSpec, KeepsFile, Promised!Spec
=============================================================================

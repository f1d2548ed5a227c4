--------------------------- MODULE Threads_proofs ----------------------------
(***************************************************************************)
(* Proofs about the threads of PDOS/386, for any number of threads: the    *)
(* safety properties of Threads, and that its linked ready list implements *)
(* the queue of RoundRobin.                                                *)
(***************************************************************************)
EXTENDS Threads, Counting

Nexts == [Tcbs -> Tcbs \cup {None}]

(* The list l is linked from h on through nx.                              *)
Path(l, h, nx) ==
  /\ l \in Seq(Tcbs)
  /\ h = IF Len(l) = 0 THEN None ELSE l[1]
  /\ \A k \in 1 .. Len(l) : nx[l[k]] = IF k = Len(l) THEN None ELSE l[k + 1]
  /\ \A i, j \in 1 .. Len(l) : l[i] = l[j] => i = j

Queued(q, l) ==
  /\ Path(l, q.first, q.next)
  /\ q.last = IF Len(l) = 0 THEN None ELSE l[Len(l)]

LEMMA MembersOf ==
  ASSUME NEW l \in Seq(Tcbs)
  PROVE  /\ \A k \in 1 .. Len(l) : l[k] \in Members(l) /\ l[k] \in Tcbs
         /\ \A x \in Members(l) : x \in Tcbs /\ \E k \in 1 .. Len(l) : x = l[k]
<1>1. DOMAIN l = 1 .. Len(l) /\ \A k \in 1 .. Len(l) : l[k] \in Tcbs
  OBVIOUS
<1> QED
  BY <1>1 DEF Members

(* A walk along a list sees only its members.                              *)
LEMMA PathFrame ==
  ASSUME NEW l, NEW h, NEW nx, NEW ny, Path(l, h, nx),
         \A x \in Members(l) : ny[x] = nx[x]
  PROVE  Path(l, h, ny)
<1>1. \A k \in 1 .. Len(l) : l[k] \in Members(l)
  BY MembersOf DEF Path
<1> QED
  BY <1>1 DEF Path

LEMMA EmptyPath ==
  ASSUME NEW nx
  PROVE  Path(<<>>, None, nx) /\ Members(<<>>) = {}
BY DEF Path, Members

LEMMA PathTail ==
  ASSUME NEW l, NEW h, NEW nx, Path(l, h, nx), Len(l) # 0
  PROVE  /\ Path(Tail(l), nx[h], nx)
         /\ Members(Tail(l)) = Members(l) \ {h} /\ h \in Members(l)
         /\ h = Head(l) /\ h \in Tcbs
<1>1. l \in Seq(Tcbs) /\ Len(l) \in Nat \ {0} /\ h = l[1]
  BY DEF Path
<1>2. /\ Tail(l) \in Seq(Tcbs) /\ Len(Tail(l)) = Len(l) - 1
      /\ \A k \in 1 .. Len(Tail(l)) : Tail(l)[k] = l[k + 1]
  BY <1>1
<1>3. Path(Tail(l), nx[h], nx)
  <2> DEFINE m == Tail(l)
  <2>1. m \in Seq(Tcbs) /\ Len(m) = Len(l) - 1
    BY <1>2
  <2>2. \A k \in 1 .. Len(m) : m[k] = l[k + 1] /\ k + 1 \in 1 .. Len(l)
    BY <1>1, <1>2
  <2>3. nx[h] = IF Len(m) = 0 THEN None ELSE m[1]
    <3>1. nx[l[1]] = IF 1 = Len(l) THEN None ELSE l[1 + 1]
      BY <1>1, 1 \in 1 .. Len(l) DEF Path
    <3> QED
      BY <3>1, <2>1, <2>2, <1>1
  <2> HIDE DEF m
  <2>4. \A k \in 1 .. Len(m) : nx[m[k]] = IF k = Len(m) THEN None ELSE m[k + 1]
    <3> SUFFICES ASSUME NEW k \in 1 .. Len(m)
                 PROVE  nx[m[k]] = IF k = Len(m) THEN None ELSE m[k + 1]
      OBVIOUS
    <3>1. nx[l[k + 1]] = IF k + 1 = Len(l) THEN None ELSE l[k + 2]
      BY <2>2 DEF Path
    <3>2. k # Len(m) => m[k + 1] = l[k + 2]
      BY <2>1, <2>2, <1>1
    <3> QED
      BY <3>1, <3>2, <2>1, <2>2, <1>1
  <2>5. \A i, j \in 1 .. Len(m) : m[i] = m[j] => i = j
    <3> SUFFICES ASSUME NEW i \in 1 .. Len(m), NEW j \in 1 .. Len(m), m[i] = m[j]
                 PROVE  i = j
      OBVIOUS
    <3>1. i + 1 = j + 1
      BY <2>2 DEF Path
    <3> QED
      BY <3>1, <2>1
  <2>6. Path(m, nx[h], nx)
    BY <2>1, <2>3, <2>4, <2>5 DEF Path
  <2> QED
    BY <2>6 DEF m
<1>4. ASSUME NEW x \in Members(l) \ {h} PROVE x \in Members(Tail(l))
  <2>1. PICK k \in 1 .. Len(l) : x = l[k]
    BY MembersOf, <1>1
  <2>2. k - 1 \in 1 .. Len(Tail(l)) /\ Tail(l)[k - 1] = l[k]
    BY <2>1, <1>1, <1>2
  <2> QED
    BY <2>1, <2>2, <1>2, MembersOf
<1>5. ASSUME NEW x \in Members(Tail(l)) PROVE x \in Members(l) \ {h}
  <2>1. PICK k \in 1 .. Len(Tail(l)) : x = Tail(l)[k]
    BY MembersOf, <1>2
  <2>2. k + 1 \in 1 .. Len(l) /\ x = l[k + 1] /\ k + 1 # 1
    BY <2>1, <1>1, <1>2
  <2>3. x # h
    BY <2>2, <1>1 DEF Path
  <2> QED
    BY <2>2, <2>3, <1>1, MembersOf
<1>6. h \in Members(l) /\ h \in Tcbs /\ h = Head(l)
  BY <1>1, MembersOf
<1> QED
  BY <1>3, <1>4, <1>5, <1>6

LEMMA PathCons ==
  ASSUME NEW l, NEW h, NEW nx \in Nexts, Path(l, h, nx), NEW t \in Tcbs, t \notin Members(l)
  PROVE  /\ Path(<<t>> \o l, t, [nx EXCEPT ![t] = h])
         /\ Members(<<t>> \o l) = Members(l) \cup {t}
<1> DEFINE m == <<t>> \o l
           ny == [nx EXCEPT ![t] = h]
<1>1. l \in Seq(Tcbs) /\ Len(l) \in Nat
  BY DEF Path
<1>2. /\ m \in Seq(Tcbs) /\ Len(m) = Len(l) + 1 /\ m[1] = t
      /\ \A k \in 1 .. Len(l) : m[k + 1] = l[k]
  BY <1>1
<1>3. \A k \in 1 .. Len(l) : l[k] # t /\ l[k] \in Tcbs
  BY <1>1, MembersOf
<1>4. \A x \in Tcbs : ny[x] = IF x = t THEN h ELSE nx[x]
  BY DEF Nexts
<1> HIDE DEF m, ny
<1>5. \A k \in 1 .. Len(m) : ny[m[k]] = IF k = Len(m) THEN None ELSE m[k + 1]
  <2> SUFFICES ASSUME NEW k \in 1 .. Len(m)
               PROVE  ny[m[k]] = IF k = Len(m) THEN None ELSE m[k + 1]
    OBVIOUS
  <2>1. CASE k = 1
    BY <2>1, <1>1, <1>2, <1>4 DEF Path
  <2>2. CASE k # 1
    <3>1. k - 1 \in 1 .. Len(l) /\ m[k] = l[k - 1]
      BY <2>2, <1>1, <1>2
    <3>2. ny[m[k]] = nx[l[k - 1]]
      BY <3>1, <1>3, <1>4
    <3>3. k # Len(m) => m[k + 1] = l[k]
      BY <3>1, <1>1, <1>2
    <3> QED
      BY <3>1, <3>2, <3>3, <1>1, <1>2 DEF Path
  <2> QED
    BY <2>1, <2>2
<1>6. \A i, j \in 1 .. Len(m) : m[i] = m[j] => i = j
  <2>1. \A i \in 1 .. Len(m) : i = 1 \/ (i - 1 \in 1 .. Len(l) /\ m[i] = l[i - 1])
    BY <1>1, <1>2
  <2> SUFFICES ASSUME NEW i \in 1 .. Len(m), NEW j \in 1 .. Len(m), m[i] = m[j]
               PROVE  i = j
    OBVIOUS
  <2>2. CASE i = 1 \/ j = 1
    BY <2>1, <2>2, <1>2, <1>3
  <2>3. CASE i # 1 /\ j # 1
    <3>1. l[i - 1] = l[j - 1] /\ i - 1 \in 1 .. Len(l) /\ j - 1 \in 1 .. Len(l)
      BY <2>1, <2>3
    <3>2. i - 1 = j - 1
      BY <3>1 DEF Path
    <3> QED
      BY <3>2, <1>1, <1>2
  <2> QED
    BY <2>2, <2>3
<1>7. Path(m, t, ny)
  BY <1>1, <1>2, <1>5, <1>6 DEF Path
<1>8. Members(m) = Members(l) \cup {t}
  <2>1. \A i \in 1 .. Len(m) : i = 1 \/ (i - 1 \in 1 .. Len(l) /\ m[i] = l[i - 1])
    BY <1>1, <1>2
  <2>2. ASSUME NEW x \in Members(m) PROVE x \in Members(l) \cup {t}
    <3>1. PICK k \in 1 .. Len(m) : x = m[k]
      BY <1>2, MembersOf
    <3>2. CASE k = 1
      BY <3>1, <3>2, <1>2
    <3>3. CASE k # 1
      BY <3>1, <3>3, <2>1, <1>1, MembersOf
    <3> QED
      BY <3>2, <3>3
  <2>3. t \in Members(m)
    <3>1. 1 \in 1 .. Len(m)
      BY <1>1, <1>2
    <3> QED
      BY <3>1, <1>2, MembersOf
  <2>4. ASSUME NEW x \in Members(l) PROVE x \in Members(m)
    <3>1. PICK k \in 1 .. Len(l) : x = l[k]
      BY <1>1, MembersOf
    <3>2. k + 1 \in 1 .. Len(m) /\ m[k + 1] = x
      BY <3>1, <1>1, <1>2
    <3> QED
      BY <3>2, <1>2, MembersOf
  <2> QED
    BY <2>2, <2>3, <2>4
<1> QED
  BY <1>7, <1>8 DEF m, ny

(* Taking the first block off the ready list, and putting one behind it.   *)
LEMMA QueuePop ==
  ASSUME NEW q, NEW l, Queued(q, l), Len(l) # 0
  PROVE  /\ Queued(Popped(q), Tail(l)) /\ Popped(q).next = q.next
         /\ q.first = Head(l) /\ q.first \in Members(l)
         /\ Members(Tail(l)) = Members(l) \ {Head(l)}
<1>1. Path(l, q.first, q.next) /\ l \in Seq(Tcbs) /\ Len(l) \in Nat \ {0}
  BY DEF Queued, Path
<1>2. Path(Tail(l), q.next[q.first], q.next)
  BY <1>1, PathTail
<1>3. /\ Len(Tail(l)) = Len(l) - 1
      /\ Len(l) # 1 => Tail(l)[Len(l) - 1] = l[Len(l)]
  <2>1. /\ Len(Tail(l)) = Len(l) - 1
        /\ \A k \in 1 .. Len(Tail(l)) : Tail(l)[k] = l[k + 1]
    BY <1>1
  <2>2. Len(l) # 1 => Len(l) - 1 \in 1 .. Len(Tail(l)) /\ (Len(l) - 1) + 1 = Len(l)
    BY <2>1, <1>1
  <2> QED
    BY <2>1, <2>2
<1>4. (q.next[q.first] = None) <=> (Len(l) = 1)
  <2>1. q.next[l[1]] = IF 1 = Len(l) THEN None ELSE l[1 + 1]
    BY <1>1, 1 \in 1 .. Len(l) DEF Path
  <2>2. Len(l) # 1 => l[1 + 1] \in Tcbs
    <3>1. \A n \in Nat \ {0} : n # 1 => 2 <= n
      OBVIOUS
    <3>2. Len(l) # 1 => 1 + 1 \in 1 .. Len(l)
      BY <3>1, <1>1
    <3> QED
      BY <3>2, <1>1
  <2> QED
    BY <2>1, <2>2, <1>1, TcbAssumption DEF Path
<1>5. Queued(Popped(q), Tail(l))
  BY <1>1, <1>2, <1>3, <1>4 DEF Queued, Popped
<1> QED
  BY <1>1, <1>5, PathTail DEF Popped

LEMMA QueueAppend ==
  ASSUME NEW q, NEW l, Queued(q, l), q.next \in Nexts, NEW t \in Tcbs, t \notin Members(l)
  PROVE  /\ Queued(Appended(q, t), Append(l, t))
         /\ Members(Append(l, t)) = Members(l) \cup {t}
         /\ Appended(q, t).next \in Nexts
         /\ \A x \in Tcbs \ (Members(l) \cup {t}) : Appended(q, t).next[x] = q.next[x]
<1> DEFINE m == Append(l, t)
           ny == Appended(q, t).next
           n == Len(l)
<1>1. l \in Seq(Tcbs) /\ n \in Nat /\ Path(l, q.first, q.next)
  BY DEF Path, Queued
<1>2. /\ m \in Seq(Tcbs) /\ Len(m) = n + 1 /\ m[n + 1] = t
      /\ \A k \in 1 .. n : m[k] = l[k]
  BY <1>1
<1>3. \A k \in 1 .. n : l[k] \in Tcbs /\ l[k] # t /\ l[k] \in Members(l)
  BY <1>1, MembersOf
<1>4. (q.first = None) <=> (n = 0)
  BY <1>1, <1>3, TcbAssumption DEF Path
<1>5. n # 0 => q.last = l[n] /\ q.last \in Tcbs
  BY <1>1, <1>3 DEF Queued
<1>6. /\ ny \in Nexts
      /\ \A x \in Tcbs : ny[x] = IF x = t THEN None ELSE IF n # 0 /\ x = l[n] THEN t ELSE q.next[x]
  <2>1. CASE n = 0
    BY <2>1, <1>4 DEF Appended, Nexts
  <2>2. CASE n # 0
    BY <2>2, <1>4, <1>5 DEF Appended, Nexts
  <2> QED
    BY <2>1, <2>2
<1>7. Appended(q, t).first = m[1] /\ Appended(q, t).last = t
  BY <1>1, <1>2, <1>4 DEF Appended, Path
<1> HIDE DEF m, ny, n
<1>8. \A k \in 1 .. Len(m) : ny[m[k]] = IF k = Len(m) THEN None ELSE m[k + 1]
  <2> SUFFICES ASSUME NEW k \in 1 .. Len(m)
               PROVE  ny[m[k]] = IF k = Len(m) THEN None ELSE m[k + 1]
    OBVIOUS
  <2>1. CASE k = n + 1
    BY <2>1, <1>2, <1>6
  <2>2. CASE k = n
    BY <2>2, <1>1, <1>2, <1>3, <1>6
  <2>3. CASE k < n
    <3>1. l[k] # l[n] /\ q.next[l[k]] = l[k + 1] /\ k \in 1 .. n /\ k + 1 \in 1 .. n
      BY <2>3, <1>1, <1>2 DEF Path, n
    <3> QED
      BY <3>1, <2>3, <1>1, <1>2, <1>3, <1>6
  <2> QED
    BY <2>1, <2>2, <2>3, <1>1, <1>2
<1>9. \A i, j \in 1 .. Len(m) : m[i] = m[j] => i = j
  <2>1. \A i \in 1 .. Len(m) : i = n + 1 \/ (i \in 1 .. n /\ m[i] = l[i])
    BY <1>1, <1>2
  <2> SUFFICES ASSUME NEW i \in 1 .. Len(m), NEW j \in 1 .. Len(m), m[i] = m[j]
               PROVE  i = j
    OBVIOUS
  <2>2. CASE i = n + 1 \/ j = n + 1
    BY <2>1, <2>2, <1>2, <1>3
  <2>3. CASE i # n + 1 /\ j # n + 1
    BY <2>1, <2>3, <1>1 DEF Path, n
  <2> QED
    BY <2>2, <2>3
<1>10. Queued(Appended(q, t), m)
  BY <1>1, <1>2, <1>7, <1>8, <1>9 DEF Queued, Path, ny
<1>11. Members(m) = Members(l) \cup {t}
  <2>1. ASSUME NEW x \in Members(m) PROVE x \in Members(l) \cup {t}
    <3>1. PICK k \in 1 .. Len(m) : x = m[k]
      BY <1>2, MembersOf
    <3> QED
      BY <3>1, <1>1, <1>2, <1>3
  <2>2. t \in Members(m)
    <3>1. n + 1 \in 1 .. Len(m)
      BY <1>1, <1>2
    <3> QED
      BY <3>1, <1>2, MembersOf
  <2>3. ASSUME NEW x \in Members(l) PROVE x \in Members(m)
    <3>1. PICK k \in 1 .. Len(l) : x = l[k]
      BY <1>1, MembersOf
    <3>2. k \in 1 .. Len(m) /\ m[k] = x
      BY <3>1, <1>1, <1>2 DEF n
    <3> QED
      BY <3>2, <1>2, MembersOf
  <2> QED
    BY <2>1, <2>2, <2>3
<1>12. \A x \in Tcbs \ (Members(l) \cup {t}) : ny[x] = q.next[x]
  BY <1>1, <1>3, <1>6
<1> QED
  BY <1>6, <1>10, <1>11, <1>12 DEF m, ny

(* The list that Listed walks through.                                     *)
LEMMA PathFinite ==
  ASSUME NEW l, NEW h, NEW nx, Path(l, h, nx)
  PROVE  Cardinality(Members(l)) = Len(l) /\ Len(l) <= Cardinality(Tcbs)
<1>1. l \in Seq(Tcbs) /\ Len(l) \in Nat /\ l \in [1 .. Len(l) -> Tcbs]
  BY DEF Path
<1>2. l \in Bijection(1 .. Len(l), Members(l))
  <2>1. l \in [1 .. Len(l) -> Members(l)]
    BY <1>1, MembersOf
  <2>2. \A y \in Members(l) : \E k \in 1 .. Len(l) : l[k] = y
    BY <1>1, MembersOf
  <2> QED
    BY <2>1, <2>2 DEF Path, Bijection, Injection, Surjection, IsInjective
<1>3. IsFiniteSet(1 .. Len(l)) /\ Cardinality(1 .. Len(l)) = Len(l)
  BY <1>1, FS_Interval
<1>4. Cardinality(Members(l)) = Len(l)
  BY <1>2, <1>3, FS_Bijection DEF ExistsBijection
<1>5. Members(l) \subseteq Tcbs
  BY <1>1, MembersOf
<1> QED
  BY <1>4, <1>5, FS_Subset, TcbAssumption

LEMMA ListedIs ==
  ASSUME NEW l, NEW h, Path(l, h, next)
  PROVE  Listed(h) = l
<1> DEFINE N == Cardinality(Tcbs)
           n == Len(l)
           At1(f, k) == IF k = 0 THEN h ELSE IF f[k-1] = None THEN None ELSE next[f[k-1]]
           G == [k \in 0 .. N |-> IF k < n THEN l[k + 1] ELSE None]
           A == CHOOSE at : at = [k \in 0 .. N |->
                  IF k = 0 THEN h ELSE IF at[k-1] = None THEN None ELSE next[at[k-1]]]
<1>1. N \in Nat /\ n \in Nat /\ n <= N /\ l \in Seq(Tcbs) /\ \A k \in 1 .. n : l[k] \in Tcbs
  <2>1. N \in Nat
    BY TcbAssumption, FS_CardinalityType
  <2>2. n <= N
    BY PathFinite
  <2> QED
    BY <2>1, <2>2 DEF Path
<1>2. ASSUME NEW k \in 0 .. N PROVE G[k] = At1(G, k)
  <2>1. CASE k = 0
    BY <2>1, <1>1 DEF Path
  <2>2. CASE k # 0 /\ k - 1 < n
    <3>1. k - 1 \in 0 .. N /\ k \in 1 .. n /\ G[k - 1] = l[k] /\ l[k] # None
      BY <2>2, <1>1, TcbAssumption
    <3>2. next[l[k]] = IF k = n THEN None ELSE l[k + 1]
      BY <3>1 DEF Path
    <3> QED
      BY <2>2, <3>1, <3>2, <1>1
  <2>3. CASE k # 0 /\ ~(k - 1 < n)
    <3>1. k - 1 \in 0 .. N /\ G[k - 1] = None /\ ~(k < n)
      BY <2>3, <1>1
    <3> QED
      BY <2>3, <3>1
  <2> QED
    BY <2>1, <2>2, <2>3
<1>3. G = [k \in 0 .. N |->
             IF k = 0 THEN h ELSE IF G[k-1] = None THEN None ELSE next[G[k-1]]]
  BY <1>2
<1>4. A = [k \in 0 .. N |->
             IF k = 0 THEN h ELSE IF A[k-1] = None THEN None ELSE next[A[k-1]]]
  <2> HIDE DEF G
  <2> QED
    BY <1>3
<1>5. Listed(h) = [k \in 1 .. Cardinality({k \in DOMAIN A : A[k] # None}) |-> A[k-1]]
  BY DEF Listed
<1> HIDE DEF A
<1>6. \A k \in 0 .. N : A[k] = G[k]
  <2> DEFINE S == {k \in Nat : k <= N => A[k] = G[k]}
  <2> HIDE DEF G
  <2>1. 0 \in S
    <3>1. 0 \in 0 .. N
      BY <1>1
    <3>2. A[0] = h
      BY <3>1, <1>4
    <3>3. G[0] = h
      BY <3>1, <1>3
    <3> QED
      BY <3>2, <3>3
  <2>2. ASSUME NEW k \in Nat, k \in S PROVE k + 1 \in S
    <3> SUFFICES ASSUME k + 1 <= N PROVE A[k + 1] = G[k + 1]
      OBVIOUS
    <3>1. k + 1 \in 0 .. N /\ (k + 1) - 1 = k /\ k + 1 # 0 /\ A[k] = G[k]
      BY <2>2, <1>1
    <3>2. A[k + 1] = IF A[k] = None THEN None ELSE next[A[k]]
      BY <3>1, <1>4
    <3>3. G[k + 1] = IF G[k] = None THEN None ELSE next[G[k]]
      BY <3>1, <1>3
    <3> QED
      BY <3>1, <3>2, <3>3
  <2>3. Nat \subseteq S
    <3> HIDE DEF S
    <3> QED
      BY <2>1, <2>2, SetInduction
  <2> SUFFICES ASSUME NEW k \in 0 .. N PROVE A[k] = G[k]
    OBVIOUS
  <2>4. k \in S /\ k <= N
    BY <2>3, <1>1
  <2> QED
    BY <2>4
<1>7. {k \in DOMAIN A : A[k] # None} = 0 .. n - 1
  <2>1. DOMAIN A = 0 .. N
    BY <1>4
  <2>2. \A k \in 0 .. N : A[k] # None <=> k < n
    BY <1>1, <1>6, TcbAssumption
  <2> QED
    BY <2>1, <2>2, <1>1
<1>8. Cardinality(0 .. n - 1) = n
  <2>1. 0 \in Int /\ n - 1 \in Int /\ (n - 1) - 0 + 1 = n /\ (0 > n - 1 <=> n = 0)
    BY <1>1
  <2>2. Cardinality(0 .. n - 1) = IF 0 > n - 1 THEN 0 ELSE (n - 1) - 0 + 1
    BY <2>1, FS_Interval
  <2> QED
    BY <2>1, <2>2
<1>9. \A k \in 1 .. n : A[k - 1] = l[k]
  BY <1>1, <1>6
<1> HIDE DEF G
<1>10. Listed(h) = [k \in 1 .. n |-> l[k]]
  BY <1>5, <1>7, <1>8, <1>9
<1> QED
  BY <1>10, <1>1

-----------------------------------------------------------------------------
(* The inductive invariant.  Its parts are stated of the values that a     *)
(* call hands to schedule(), which exchanges READY and RUNNING only.       *)
Active == {"READY", "RUNNING"}

(* Which threads are where, and the states they can have there.            *)
Placed(lv, st, w, pl) ==
  /\ {Main, Cleaner} \subseteq lv
  /\ w[Main] = None /\ w[Cleaner] = None
  /\ pl[Main] \in {"boot", "idle"}
  /\ pl[Cleaner] \in {"start", "take", "free", "pause", "sleep"}
  /\ \A t \in lv \ {Main, Cleaner} : pl[t] \in {"start", "run", "lock", "crit", "exit"}
  /\ \A t \in lv :
       /\ st[t] = "CHILDWAIT" => pl[t] \in {"run", "idle"}
       /\ st[t] = "TERMINATED" => pl[t] = "exit"
       /\ st[t] = "PAUSED" => t = Cleaner /\ pl[t] \in {"sleep", "take"}

(* A thread that waits has one child that lives, and those that wait for   *)
(* one another do not do so in a ring.                                     *)
Kids(lv, st, w, p) == {c \in lv : w[c] = p /\ st[c] # "TERMINATED"}
Family(lv, st, w) ==
  /\ \A c \in lv : st[c] # "TERMINATED" /\ w[c] # None => w[c] \in lv
  /\ \A p \in lv :
       IF st[p] = "CHILDWAIT" THEN \E c : Kids(lv, st, w, p) = {c} ELSE Kids(lv, st, w, p) = {}
  /\ \A S \in SUBSET {p \in lv : st[p] = "CHILDWAIT"} :
       S # {} => \E p \in S : Kids(lv, st, w, p) \cap S = {}

(* The dead are on the list d that grows or on the list e that is worked   *)
(* off, which is empty unless the cleaner is at it.                        *)
Buried(h, r, nx, S) ==
  \E d, e : /\ Path(d, h, nx) /\ Path(e, r, nx)
            /\ Members(d) \cap Members(e) = {} /\ Members(d) \cup Members(e) = S

Cleaning(pl, r) == (r # None) <=> (pl[Cleaner] = "free")

Holders(lv, pl) == {t \in lv : pl[t] = "crit"}
Guarded(lv, pl, m) ==
  IF m THEN \E t : Holders(lv, pl) = {t} ELSE Holders(lv, pl) = {}

Types ==
  /\ live \subseteq Tcbs /\ curTCB \in live
  /\ ready = [first |-> ready.first, last |-> ready.last]
  /\ next \in Nexts /\ waiting \in Nexts /\ pcb \in Nexts
  /\ state \in [Tcbs -> States] /\ pc \in [Tcbs -> Places]
  /\ curPCB \in Tcbs \cup {None} /\ space \in Tcbs \cup {None}
  /\ eflags \in [Tcbs -> BOOLEAN] /\ saved \in [Tcbs -> BOOLEAN]
  /\ fatMutex \in BOOLEAN /\ irq \in BOOLEAN /\ halted = FALSE

Linked == \E l : Queued(Queue, l) /\ Members(l) = In("READY")

OneRuns ==
  /\ \A t \in live : state[t] = "RUNNING" => t = curTCB
  /\ \/ state[curTCB] = "RUNNING"
     \/ curTCB = Cleaner /\ state[curTCB] = "PAUSED" /\ pc[curTCB] = "sleep"

Inv ==
  /\ Types
  /\ Placed(live, state, waiting, pc)
  /\ Family(live, state, waiting)
  /\ Buried(terminatedTCB, toRemove, next, In("TERMINATED"))
  /\ Cleaning(pc, toRemove)
  /\ Guarded(live, pc, fatMutex)
  /\ Linked
  /\ OneRuns
  /\ RightSpace

(* States that differ only in who runs are alike.                          *)
Alike(lv, st, su) == \A t \in lv : st[t] = su[t] \/ {st[t], su[t]} \subseteq Active

LEMMA AlikePlaced ==
  ASSUME NEW lv, NEW st, NEW su, NEW w, NEW pl, Alike(lv, st, su), Placed(lv, st, w, pl)
  PROVE  Placed(lv, su, w, pl)
BY DEF Alike, Active, Placed

LEMMA FamilyFrame ==
  ASSUME NEW lv, NEW st, NEW su, NEW w, Family(lv, st, w),
         \A t \in lv : /\ su[t] = "CHILDWAIT" <=> st[t] = "CHILDWAIT"
                       /\ su[t] = "TERMINATED" <=> st[t] = "TERMINATED"
  PROVE  Family(lv, su, w)
<1>1. \A p : Kids(lv, su, w, p) = Kids(lv, st, w, p)
  BY DEF Kids
<1>2. {p \in lv : su[p] = "CHILDWAIT"} = {p \in lv : st[p] = "CHILDWAIT"}
  OBVIOUS
<1> QED
  BY <1>1, <1>2 DEF Family

LEMMA AlikeFamily ==
  ASSUME NEW lv, NEW st, NEW su, NEW w, Alike(lv, st, su), Family(lv, st, w)
  PROVE  Family(lv, su, w)
<1>1. \A t \in lv : /\ su[t] = "CHILDWAIT" <=> st[t] = "CHILDWAIT"
                    /\ su[t] = "TERMINATED" <=> st[t] = "TERMINATED"
  BY DEF Alike, Active
<1> QED
  BY <1>1, FamilyFrame

LEMMA BuriedFrame ==
  ASSUME NEW h, NEW r, NEW nx, NEW ny, NEW S, Buried(h, r, nx, S), \A x \in S : ny[x] = nx[x]
  PROVE  Buried(h, r, ny, S)
<1>1. PICK d, e : /\ Path(d, h, nx) /\ Path(e, r, nx)
                  /\ Members(d) \cap Members(e) = {} /\ Members(d) \cup Members(e) = S
  BY DEF Buried
<1>2. Path(d, h, ny) /\ Path(e, r, ny)
  BY <1>1, PathFrame
<1> QED
  BY <1>1, <1>2 DEF Buried

(* Although everyone may wait for someone, someone can go on.              *)
LEMMA SomeoneReady ==
  ASSUME Inv, state[curTCB] # "RUNNING"
  PROVE  In("READY") # {}
<1> DEFINE W == {p \in live : state[p] = "CHILDWAIT"}
<1>1. /\ curTCB = Cleaner /\ live \subseteq Tcbs /\ Main \in live /\ Main # Cleaner
      /\ \A t \in live : state[t] \in States /\ state[t] # "RUNNING"
      /\ Placed(live, state, waiting, pc) /\ Family(live, state, waiting)
  BY TcbAssumption DEF Inv, Types, OneRuns, Placed
<1>2. CASE W = {}
  <2>1. state[Main] = "READY"
    BY <1>1, <1>2 DEF Placed, States
  <2> QED
    BY <1>1, <2>1 DEF In
<1>3. CASE W # {}
  <2>1. PICK p \in W : Kids(live, state, waiting, p) \cap W = {}
    BY <1>1, <1>3 DEF Family
  <2>2. PICK c : Kids(live, state, waiting, p) = {c}
    BY <1>1, <2>1 DEF Family
  <2>3. c \in live /\ waiting[c] = p /\ state[c] # "TERMINATED" /\ state[c] # "CHILDWAIT"
    BY <2>1, <2>2 DEF Kids
  <2>4. p # None
    BY <1>1, TcbAssumption
  <2>5. state[c] = "READY"
    BY <1>1, <2>3, <2>4 DEF Placed, States
  <2> QED
    BY <2>3, <2>5 DEF In
<1> QED
  BY <1>2, <1>3

-----------------------------------------------------------------------------
(* What schedule() does to the queue l that is linked in q.                *)
After(l, st) ==
  IF Len(l) = 0 THEN l
  ELSE IF st[curTCB] = "RUNNING" THEN Append(Tail(l), curTCB) ELSE Tail(l)

LEMMA Switched ==
  ASSUME NEW q, NEW l, NEW st, NEW on, Schedule(q, st, on), Queued(q, l), q.next \in Nexts,
         curTCB \in Tcbs, curTCB \notin Members(l),
         halted = FALSE, Len(l) = 0 => st[curTCB] = "RUNNING"
  PROVE  /\ Queued(Queue', After(l, st))
         /\ curTCB' = IF Len(l) = 0 THEN curTCB ELSE Head(l)
         /\ state' = IF Len(l) = 0 THEN st ELSE Runs(st, Head(l))
         /\ Members(After(l, st)) = IF Len(l) = 0 THEN Members(l)
              ELSE (Members(l) \ {Head(l)})
                     \cup IF st[curTCB] = "RUNNING" THEN {curTCB} ELSE {}
         /\ next' \in Nexts /\ ready' = [first |-> ready'.first, last |-> ready'.last]
         /\ \A x \in Tcbs \ (Members(l) \cup {curTCB}) : next'[x] = q.next[x]
         /\ st[curTCB] # "RUNNING" => next' = q.next
         /\ halted' = FALSE
<1>1. (q.first = None) <=> (Len(l) = 0)
  <2>1. Len(l) # 0 => l[1] \in Tcbs
    BY MembersOf DEF Queued, Path
  <2> QED
    BY <2>1, TcbAssumption DEF Queued, Path
<1>2. CASE Len(l) = 0
  <2>1. /\ halted' = FALSE /\ Keep(q) /\ state' = st /\ curTCB' = curTCB
    BY <1>1, <1>2 DEF Schedule
  <2>2. Queued(Queue', l) /\ next' = q.next /\ ready' = [first |-> ready'.first, last |-> ready'.last]
    BY <2>1 DEF Keep, Queue, Queued
  <2> QED
    BY <1>2, <2>1, <2>2 DEF After
<1>3. CASE Len(l) # 0
  <2> DEFINE k == IF st[curTCB] = "RUNNING" THEN Appended(Popped(q), curTCB) ELSE Popped(q)
  <2>1. /\ curTCB' = q.first /\ Keep(k) /\ state' = Runs(st, q.first) /\ halted' = FALSE
    BY <1>1, <1>3 DEF Schedule
  <2>2. /\ Queued(Popped(q), Tail(l)) /\ Popped(q).next = q.next
        /\ q.first = Head(l) /\ q.first \in Members(l)
        /\ Members(Tail(l)) = Members(l) \ {Head(l)}
    BY <1>3, QueuePop
  <2>3. /\ Queued(k, After(l, st)) /\ k.next \in Nexts
        /\ Members(After(l, st)) = (Members(l) \ {Head(l)})
              \cup IF st[curTCB] = "RUNNING" THEN {curTCB} ELSE {}
        /\ \A x \in Tcbs \ (Members(l) \cup {curTCB}) : k.next[x] = q.next[x]
        /\ st[curTCB] # "RUNNING" => k.next = q.next
    <3>1. CASE st[curTCB] = "RUNNING"
      <4>1. /\ Queued(k, Append(Tail(l), curTCB)) /\ k.next \in Nexts
            /\ Members(Append(Tail(l), curTCB)) = Members(Tail(l)) \cup {curTCB}
            /\ \A x \in Tcbs \ (Members(Tail(l)) \cup {curTCB}) : k.next[x] = Popped(q).next[x]
        BY <2>2, <3>1, QueueAppend
      <4> QED
        BY <1>3, <2>2, <3>1, <4>1 DEF After
    <3>2. CASE st[curTCB] # "RUNNING"
      BY <1>3, <2>2, <3>2 DEF After
    <3> QED
      BY <3>1, <3>2
  <2> HIDE DEF k
  <2>4. Queue'.first = k.first /\ Queue'.last = k.last /\ Queue'.next = k.next
    BY <2>1 DEF Keep, Queue
  <2>5. Queued(Queue', After(l, st)) /\ next' = k.next
    BY <2>1, <2>3, <2>4 DEF Queued, Keep
  <2>6. ready' = [first |-> ready'.first, last |-> ready'.last]
    BY <2>1 DEF Keep
  <2> QED
    BY <1>3, <2>1, <2>2, <2>3, <2>5, <2>6
<1> QED
  BY <1>2, <1>3

(* What a call hands to schedule(), and that it is the invariant again.    *)
Handed(q, st) ==
  /\ live' \subseteq Tcbs /\ curTCB \in live' /\ Types
  /\ q.next \in Nexts /\ waiting' \in Nexts /\ pcb' \in Nexts
  /\ st \in [Tcbs -> States] /\ pc' \in [Tcbs -> Places]
  /\ saved' \in [Tcbs -> BOOLEAN] /\ fatMutex' \in BOOLEAN
  /\ Placed(live', st, waiting', pc')
  /\ Family(live', st, waiting')
  /\ Buried(terminatedTCB', toRemove', q.next, {t \in live' : st[t] = "TERMINATED"})
  /\ Cleaning(pc', toRemove')
  /\ Guarded(live', pc', fatMutex')
  /\ \A t \in live' : st[t] = "RUNNING" => t = curTCB
  /\ st[curTCB] # "READY"
  /\ curPCB = pcb'[curTCB] /\ space = pcb'[curTCB]

LEMMA ScheduleKeeps ==
  ASSUME NEW q, NEW l, NEW st, NEW on \in BOOLEAN, Schedule(q, st, on), Handed(q, st),
         Queued(q, l), Members(l) = {t \in live' : st[t] = "READY"},
         Len(l) = 0 => st[curTCB] = "RUNNING"
  PROVE  Inv'
<1> DEFINE m == After(l, st)
<1>1. curTCB \notin Members(l) /\ curTCB \in Tcbs /\ halted = FALSE
  BY DEF Handed, Types
<1>2. /\ Queued(Queue', m)
      /\ curTCB' = IF Len(l) = 0 THEN curTCB ELSE Head(l)
      /\ state' = IF Len(l) = 0 THEN st ELSE Runs(st, Head(l))
      /\ Members(m) = IF Len(l) = 0 THEN Members(l)
              ELSE (Members(l) \ {Head(l)})
                     \cup IF st[curTCB] = "RUNNING" THEN {curTCB} ELSE {}
      /\ next' \in Nexts /\ ready' = [first |-> ready'.first, last |-> ready'.last]
      /\ \A x \in Tcbs \ (Members(l) \cup {curTCB}) : next'[x] = q.next[x]
      /\ st[curTCB] # "RUNNING" => next' = q.next
      /\ halted' = FALSE
  BY <1>1, Switched DEF Handed
<1>3. Len(l) # 0 => /\ Head(l) \in Members(l) /\ Head(l) # curTCB
                    /\ Head(l) \in live' /\ st[Head(l)] = "READY" /\ Head(l) = q.first
  BY <1>1, QueuePop
<1> HIDE DEF m
<1>4. \A t \in Tcbs : state'[t] = IF Len(l) = 0 THEN st[t]
                                  ELSE IF t = Head(l) THEN "RUNNING"
                                  ELSE IF t = curTCB /\ st[t] = "RUNNING" THEN "READY"
                                  ELSE st[t]
  BY <1>1, <1>2, <1>3 DEF Runs, Handed
<1>5. Alike(live', st, state')
  BY <1>3, <1>4 DEF Alike, Active, Handed
<1>6. Placed(live', state', waiting', pc') /\ Family(live', state', waiting')
  BY <1>5, AlikePlaced, AlikeFamily DEF Handed
<1>7. Buried(terminatedTCB', toRemove', next', {t \in live' : state'[t] = "TERMINATED"})
  <2>1. {t \in live' : state'[t] = "TERMINATED"} = {t \in live' : st[t] = "TERMINATED"}
    BY <1>5 DEF Alike, Active
  <2>2. \A x \in {t \in live' : st[t] = "TERMINATED"} : next'[x] = q.next[x]
    BY <1>2 DEF Handed
  <2> QED
    BY <2>1, <2>2, BuriedFrame DEF Handed
<1>8. Members(m) = {t \in live' : state'[t] = "READY"}
  <2>1. live' \subseteq Tcbs /\ curTCB \in live'
    BY DEF Handed
  <2> QED
    BY <1>2, <1>3, <1>4, <2>1 DEF Handed
<1>9. Linked'
  BY <1>2, <1>8 DEF Linked, In
<1>10. OneRuns'
  <2>1. \A t \in live' : state'[t] = "RUNNING" => t = curTCB'
    BY <1>2, <1>4 DEF Handed
  <2>2. state'[curTCB'] = "RUNNING"
    BY <1>1, <1>2, <1>3, <1>4 DEF Handed
  <2> QED
    BY <2>1, <2>2 DEF OneRuns
<1>11. RightSpace' /\ curPCB' \in Tcbs \cup {None} /\ space' \in Tcbs \cup {None}
  <2>1. CASE Len(l) = 0
    <3>1. UNCHANGED <<curTCB, curPCB, space>>
      BY <2>1 DEF Schedule, Queued, Path
    <3> QED
      BY <3>1 DEF RightSpace, Handed, Types
  <2>2. CASE Len(l) # 0
    <3>1. q.first # None
      BY <1>3, <2>2, TcbAssumption DEF Handed
    <3>2. Loads(curTCB, q.first) /\ curTCB' = q.first /\ q.first \in Tcbs
      BY <3>1, <1>3, <2>2 DEF Schedule, Handed
    <3> QED
      BY <3>2 DEF Loads, RightSpace, Handed, Types, Nexts
  <2> QED
    BY <2>1, <2>2
<1>12. eflags' \in [Tcbs -> BOOLEAN] /\ irq' \in BOOLEAN
  <2>1. eflags \in [Tcbs -> BOOLEAN]
    BY DEF Handed, Types
  <2>2. CASE q.first = None
    BY <2>1, <2>2 DEF Schedule
  <2>3. CASE q.first # None
    <3>1. Len(l) # 0
      BY <2>3 DEF Queued, Path
    <3> QED
      BY <2>1, <2>3, <3>1, <1>3 DEF Schedule, Handed
  <2> QED
    BY <2>2, <2>3
<1>13. Types'
  <2>1. curTCB' \in live' /\ state' \in [Tcbs -> States]
    BY <1>1, <1>2, <1>3 DEF Handed, Runs, States
  <2> QED
    BY <1>2, <1>11, <1>12, <2>1 DEF Types, Handed
<1> QED
  BY <1>6, <1>7, <1>9, <1>10, <1>11, <1>13 DEF Inv, In, Handed

-----------------------------------------------------------------------------
(* Each step keeps the invariant and is a step of RoundRobin, or none.     *)
Turn == Turns!Next \/ UNCHANGED <<curTCB, Listed(ready.first)>>
Kept == Inv' /\ Turn

QueueSays == \A l : Queued(Queue, l) => Listed(ready.first) = l

LEMMA QueueIs == QueueSays
<1> SUFFICES ASSUME NEW l, Queued(Queue, l) PROVE Listed(ready.first) = l
  BY DEF QueueSays
<1>1. Path(l, ready.first, next)
  BY DEF Queued, Queue
<1> QED
  BY <1>1, ListedIs

LEMMA QueueIsThen == QueueSays'
BY QueueIs, PTL

(* Threads that join the queue are none of those in it.                    *)
LEMMA JoinedArrive ==
  ASSUME NEW l \in Seq(Tcbs), NEW w \in Seq(Tcbs), Len(w) <= 2, NEW h, NEW nx,
         Path(l \o w, h, nx), curTCB \in Tcbs, curTCB \notin Members(l \o w),
         Listed(ready.first) = l
  PROVE  w \in Turns!Arrivals
<1> DEFINE n == Len(w)
           m == l \o w
           Free == Tcbs \ (Turns!Waiting \cup {curTCB})
<1>1. /\ n \in 0 .. 2 /\ w \in [1 .. n -> Tcbs] /\ DOMAIN w = 1 .. n
      /\ Len(l) \in Nat /\ Len(m) = Len(l) + n /\ m \in Seq(Tcbs)
      /\ \A k \in 1 .. Len(l) : m[k] = l[k]
      /\ \A k \in 1 .. n : m[Len(l) + k] = w[k]
  <2>1. n \in 0 .. 2 /\ w \in [1 .. n -> Tcbs] /\ DOMAIN w = 1 .. n
    <3>1. n \in Nat
      OBVIOUS
    <3>2. w \in [1 .. n -> Tcbs] /\ DOMAIN w = 1 .. n
      OBVIOUS
    <3> QED
      BY <3>1, <3>2
  <2>2. /\ Len(l) \in Nat /\ Len(m) = Len(l) + n /\ m \in Seq(Tcbs)
        /\ \A k \in 1 .. Len(l) : m[k] = l[k]
    OBVIOUS
  <2>3. \A k \in 1 .. n : m[Len(l) + k] = w[k]
    <3>1. \A k \in 1 .. n : /\ Len(l) + k \in 1 .. Len(l) + Len(w)
                            /\ ~(Len(l) + k <= Len(l)) /\ (Len(l) + k) - Len(l) = k
      BY <2>1, <2>2
    <3> QED
      BY <3>1, <2>1, <2>2
  <2> QED
    BY <2>1, <2>2, <2>3
<1>2. \A k \in 1 .. n : Len(l) + k \in 1 .. Len(m)
  BY <1>1
<1>3. \A k \in 1 .. Len(l) : k \in 1 .. Len(m)
  BY <1>1
<1>4. \A i, j \in 1 .. n : w[i] = w[j] => i = j
  <2> SUFFICES ASSUME NEW i \in 1 .. n, NEW j \in 1 .. n, w[i] = w[j] PROVE i = j
    OBVIOUS
  <2>1. Len(l) + i = Len(l) + j
    BY <1>1, <1>2 DEF Path
  <2> QED
    BY <2>1, <1>1
<1>5. \A k \in 1 .. n : w[k] # curTCB
  <2>1. \A k \in 1 .. n : m[Len(l) + k] \in Members(m)
    BY <1>1, <1>2, MembersOf
  <2> QED
    BY <1>1, <2>1
<1>6. \A k \in 1 .. n : w[k] \notin Turns!Waiting
  <2> SUFFICES ASSUME NEW k \in 1 .. n, NEW i \in 1 .. Len(l), w[k] = l[i] PROVE FALSE
    BY DEF Turns!Waiting
  <2>1. Len(l) + k = i
    BY <1>1, <1>2, <1>3 DEF Path
  <2> QED
    BY <2>1, <1>1
<1>7. w \in [1 .. n -> Free]
  BY <1>1, <1>5, <1>6
<1>8. w \in UNION {[1 .. k -> Free] : k \in 0 .. 2}
  BY <1>1, <1>7
<1> QED
  BY <1>1, <1>4, <1>8 DEF Turns!Arrivals

(* l being the queue, the threads w join it and schedule() is called.      *)
Over(l, q, st, w, on) ==
  /\ on \in BOOLEAN /\ Schedule(q, st, on) /\ Handed(q, st)
  /\ w \in Seq(Tcbs) /\ Len(w) <= 2
  /\ Queued(q, l \o w) /\ Members(l \o w) = {t \in live' : st[t] = "READY"}
  /\ Len(l \o w) = 0 => st[curTCB] = "RUNNING"

LEMMA OverKept ==
  ASSUME NEW l, Queued(Queue, l), NEW q, NEW st, NEW w, NEW on, Over(l, q, st, w, on)
  PROVE  Kept
<1>1. /\ on \in BOOLEAN /\ Schedule(q, st, on) /\ Handed(q, st)
      /\ w \in Seq(Tcbs) /\ Len(w) <= 2
      /\ Queued(q, l \o w) /\ Members(l \o w) = {t \in live' : st[t] = "READY"}
      /\ Len(l \o w) = 0 => st[curTCB] = "RUNNING"
  BY DEF Over
<1> DEFINE m == l \o w
<1>2. Inv'
  BY <1>1, ScheduleKeeps
<1>3. /\ curTCB \notin Members(m) /\ curTCB \in Tcbs /\ halted = FALSE /\ q.next \in Nexts
      /\ l \in Seq(Tcbs) /\ m \in Seq(Tcbs)
  BY <1>1 DEF Handed, Types, Queued, Path
<1>4. /\ Queued(Queue', After(m, st))
      /\ curTCB' = IF Len(m) = 0 THEN curTCB ELSE Head(m)
  BY <1>1, <1>3, Switched
<1>5. Listed(ready.first) = l
  BY QueueIs DEF QueueSays
<1>6. Listed(ready.first)' = After(m, st)
  BY <1>4, QueueIsThen DEF QueueSays
<1>7. w \in Turns!Arrivals
  BY <1>1, <1>3, <1>5, JoinedArrive DEF Queued
<1>8. Turn
  <2>1. CASE Len(m) = 0
    <3>1. Len(l) = 0 /\ Len(w) = 0
      BY <2>1, <1>1, <1>3
    <3>2. m = l
      BY <3>1, <1>1, <1>3
    <3> QED
      BY <2>1, <3>2, <1>4, <1>5, <1>6 DEF Turn, After
  <2>2. CASE Len(m) # 0 /\ st[curTCB] = "RUNNING"
    <3>1. Turns!GiveWay(w)
      BY <2>2, <1>3, <1>4, <1>5, <1>6 DEF Turns!GiveWay, After
    <3> QED
      BY <3>1, <1>7 DEF Turn, Turns!Next
  <2>3. CASE Len(m) # 0 /\ st[curTCB] # "RUNNING"
    <3>1. Turns!Stop(w)
      BY <2>3, <1>3, <1>4, <1>5, <1>6 DEF Turns!Stop, After
    <3> QED
      BY <3>1, <1>7 DEF Turn, Turns!Next
  <2> QED
    BY <2>1, <2>2, <2>3
<1> QED
  BY <1>2, <1>8 DEF Kept

LEMMA StaysKept ==
  ASSUME Inv, Inv', UNCHANGED <<curTCB, ready, next>>
  PROVE  Kept
<1>1. PICK l : Queued(Queue, l)
  BY DEF Inv, Linked
<1>2. Queued(Queue', l)
  BY <1>1 DEF Queue
<1>3. Listed(ready.first) = l /\ Listed(ready.first)' = l
  BY <1>1, <1>2, QueueIs, QueueIsThen DEF QueueSays
<1> QED
  BY <1>3 DEF Kept, Turn

-----------------------------------------------------------------------------
(* A thread that gives the processor away, or goes on if no other is ready.*)
LEMMA YieldKeeps ==
  ASSUME Inv, NEW on \in BOOLEAN, Schedule(Queue, state, on),
         UNCHANGED <<terminatedTCB, toRemove, live, waiting, pcb, fatMutex>>,
         saved' \in [Tcbs -> BOOLEAN], pc' \in [Tcbs -> Places],
         Placed(live, state, waiting, pc'), Cleaning(pc', toRemove),
         Holders(live, pc') = Holders(live, pc)
  PROVE  Kept
<1>1. PICK l : Queued(Queue, l) /\ Members(l) = In("READY")
  BY DEF Inv, Linked
<1>2. Queue.next \in Nexts /\ Queue.next = next
  BY DEF Inv, Types, Queue
<1>3. Guarded(live', pc', fatMutex')
  BY DEF Inv, Guarded
<1>4. state[curTCB] # "READY" /\ curPCB = pcb'[curTCB] /\ space = pcb'[curTCB]
  BY DEF Inv, OneRuns, RightSpace
<1>5. Handed(Queue, state)
  BY <1>2, <1>3, <1>4 DEF Handed, Inv, Types, OneRuns, In
<1>6. Len(l) = 0 => state[curTCB] = "RUNNING"
  <2> SUFFICES ASSUME Len(l) = 0, state[curTCB] # "RUNNING" PROVE FALSE
    OBVIOUS
  <2>1. ASSUME NEW x \in Members(l) PROVE FALSE
    <3>1. l \in Seq(Tcbs)
      BY <1>1 DEF Queued, Path
    <3>2. \E k \in 1 .. Len(l) : x = l[k]
      BY <3>1, MembersOf
    <3> QED
      BY <3>2
  <2> QED
    BY <1>1, <2>1, SomeoneReady
<1>7. Members(l) = {t \in live' : state[t] = "READY"}
  BY <1>1 DEF In
<1>8. <<>> \in Seq(Tcbs) /\ Len(<<>>) = 0 /\ l \o <<>> = l
  BY <1>1 DEF Queued, Path
<1>9. Over(l, Queue, state, <<>>, on)
  BY <1>1, <1>5, <1>6, <1>7, <1>8 DEF Over
<1> QED
  BY <1>1, <1>9, OverKept

LEMMA InvTimer == ASSUME Inv, Timer PROVE Kept
<1>1. Schedule(Queue, state, TRUE) /\ UNCHANGED <<terminatedTCB, toRemove, live, waiting, pcb, fatMutex, saved, pc>>
  BY DEF Timer
<1> QED
  BY <1>1, YieldKeeps DEF Inv, Types

LEMMA InvWaitForKeystroke == ASSUME Inv, WaitForKeystroke PROVE Kept
<1>1. /\ Schedule(Queue, state, irq) /\ irq \in BOOLEAN
      /\ UNCHANGED <<terminatedTCB, toRemove, live, waiting, pcb, fatMutex, saved, pc>>
  BY DEF WaitForKeystroke, Inv, Types
<1> QED
  BY <1>1, YieldKeeps DEF Inv, Types

LEMMA InvCleanerSleeps == ASSUME Inv, CleanerSleeps PROVE Kept
<1>1. /\ Schedule(Queue, state, irq) /\ irq \in BOOLEAN
      /\ UNCHANGED <<terminatedTCB, toRemove, live, waiting, pcb, fatMutex, saved>>
      /\ pc[curTCB] = "sleep" /\ pc' = [pc EXCEPT ![curTCB] = "take"]
  BY DEF CleanerSleeps, Inv, Types, At, Goes
<1>2. curTCB = Cleaner /\ curTCB \in Tcbs /\ Main # Cleaner /\ pc \in [Tcbs -> Places] /\ live \subseteq Tcbs
  BY <1>1, TcbAssumption DEF Inv, Types, Placed
<1>3. \A t \in Tcbs : pc'[t] = IF t = Cleaner THEN "take" ELSE pc[t]
  BY <1>1, <1>2
<1>4. pc' \in [Tcbs -> Places] /\ saved' \in [Tcbs -> BOOLEAN]
  BY <1>1, <1>2 DEF Places, Inv, Types
<1>5. Placed(live, state, waiting, pc') /\ Cleaning(pc', toRemove)
  BY <1>1, <1>2, <1>3 DEF Inv, Placed, Cleaning
<1>6. Holders(live, pc') = Holders(live, pc)
  BY <1>1, <1>2, <1>3 DEF Holders
<1> QED
  BY <1>1, <1>4, <1>5, <1>6, YieldKeeps

(* A step that leaves lists, states and the processor alone: what changes  *)
(* is the place of the thread that runs, and perhaps the mutex.            *)
LEMMA GoesKeeps ==
  ASSUME Inv, NEW place \in Places, ~halted, pc' = [pc EXCEPT ![curTCB] = place],
         UNCHANGED <<lists, live, state, waiting, curTCB, eflags, halted, saved>>,
         irq' \in BOOLEAN, fatMutex' \in BOOLEAN, pcb' \in Nexts,
         curPCB' = pcb'[curTCB], space' = pcb'[curTCB],
         Placed(live, state, waiting, pc'), Cleaning(pc', toRemove),
         Guarded(live, pc', fatMutex'), state[curTCB] = "RUNNING"
  PROVE  Kept
<1>1. Types'
  BY DEF Inv, Types, lists, Nexts
<1>2. Linked' /\ Buried(terminatedTCB', toRemove', next', In("TERMINATED")')
  BY DEF Inv, Linked, Queue, In, lists
<1>3. OneRuns' /\ RightSpace'
  BY DEF Inv, OneRuns, RightSpace
<1>4. Inv'
  BY <1>1, <1>2, <1>3 DEF Inv, lists
<1> QED
  BY <1>4, StaysKept DEF lists

LEMMA Runner ==
  ASSUME Inv
  PROVE  /\ curTCB \in live /\ live \subseteq Tcbs /\ Main # Cleaner /\ pc \in [Tcbs -> Places]
         /\ pc[curTCB] # "sleep" => state[curTCB] = "RUNNING"
         /\ pc[curTCB] \in {"run", "lock", "crit", "exit"} => curTCB \notin {Main, Cleaner}
         /\ pc[curTCB] \in {"take", "free", "pause", "sleep"} => curTCB = Cleaner
         /\ pc[curTCB] = "start" => curTCB # Main
         /\ pc[curTCB] = "boot" => curTCB = Main
BY TcbAssumption DEF Inv, Types, OneRuns, Placed

LEMMA InvStart == ASSUME Inv, Start PROVE Kept
<1> DEFINE place == IF curTCB = Cleaner THEN "take" ELSE "run"
<1>1. /\ pc[curTCB] = "start" /\ ~halted /\ irq' = TRUE
      /\ pc' = [pc EXCEPT ![curTCB] = place]
      /\ UNCHANGED <<lists, live, state, waiting, pcb, curTCB, eflags, halted, saved, curPCB, space, fatMutex>>
  BY DEF Start, At, Goes, blocks
<1>2. \A t \in Tcbs : pc'[t] = IF t = curTCB THEN place ELSE pc[t]
  BY <1>1, Runner
<1>3. Placed(live, state, waiting, pc') /\ Cleaning(pc', toRemove)
  BY <1>1, <1>2, Runner DEF Inv, Placed, Cleaning
<1>4. Holders(live, pc') = Holders(live, pc)
  BY <1>1, <1>2, Runner DEF Holders
<1>5. Guarded(live, pc', fatMutex')
  BY <1>1, <1>4 DEF Inv, Guarded
<1>6. place \in Places /\ pcb' \in Nexts /\ fatMutex' \in BOOLEAN
      /\ curPCB' = pcb'[curTCB] /\ space' = pcb'[curTCB]
  BY <1>1 DEF Inv, Types, RightSpace, Places
<1> HIDE DEF place
<1> QED
  BY <1>1, <1>3, <1>5, <1>6, Runner, GoesKeeps

LEMMA InvInterrupts == ASSUME Inv, InterruptsOff \/ InterruptsOn PROVE Kept
<1>1. /\ irq' \in BOOLEAN
      /\ UNCHANGED <<lists, blocks, curTCB, curPCB, space, eflags, halted, fatMutex, saved, pc>>
  BY DEF InterruptsOff, InterruptsOn
<1>2. Types' /\ Linked' /\ OneRuns' /\ RightSpace' /\ In("TERMINATED")' = In("TERMINATED")
  BY <1>1 DEF Inv, Types, lists, blocks, Linked, OneRuns, RightSpace, Queue, In
<1>3. Inv'
  BY <1>1, <1>2 DEF Inv, lists, blocks
<1> QED
  BY <1>1, <1>3, StaysKept DEF lists

LEMMA InvLeaveProcess == ASSUME Inv, LeaveProcess PROVE Kept
<1>1. /\ pc[curTCB] = "run" /\ ~halted /\ pc' = [pc EXCEPT ![curTCB] = "exit"]
      /\ pcb' = [pcb EXCEPT ![curTCB] = None] /\ curPCB' = None /\ space' = None
      /\ UNCHANGED <<lists, live, state, waiting, curTCB, irq, eflags, halted, saved, fatMutex>>
  BY DEF LeaveProcess, At, Goes, Leaves
<1>2. \A t \in Tcbs : pc'[t] = IF t = curTCB THEN "exit" ELSE pc[t]
  BY <1>1, Runner
<1>3. Placed(live, state, waiting, pc') /\ Cleaning(pc', toRemove)
  BY <1>1, <1>2, Runner, TcbAssumption DEF Inv, Placed, Cleaning
<1>4. Holders(live, pc') = Holders(live, pc)
  BY <1>1, <1>2, Runner DEF Holders
<1>5. Guarded(live, pc', fatMutex')
  BY <1>1, <1>4 DEF Inv, Guarded
<1>6. /\ "exit" \in Places /\ pcb' \in Nexts /\ fatMutex' \in BOOLEAN /\ irq' \in BOOLEAN
      /\ curPCB' = pcb'[curTCB] /\ space' = pcb'[curTCB]
  BY <1>1, Runner DEF Inv, Types, Places, Nexts
<1> QED
  BY <1>1, <1>3, <1>5, <1>6, Runner, GoesKeeps

(* The mutex: the thread that takes it finds no other inside.              *)
LEMMA AcquireKeeps ==
  ASSUME Inv, ~fatMutex, ~halted, pc[curTCB] \in {"run", "lock"}, Acquire, irq' \in BOOLEAN,
         UNCHANGED <<lists, blocks, curTCB, curPCB, space, eflags, halted, saved>>
  PROVE  Kept
<1>1. /\ fatMutex' = TRUE /\ pc' = [pc EXCEPT ![curTCB] = "crit"]
      /\ UNCHANGED <<live, state, waiting, pcb>>
  BY DEF Acquire, Goes, blocks
<1>2. \A t \in Tcbs : pc'[t] = IF t = curTCB THEN "crit" ELSE pc[t]
  BY <1>1, Runner
<1>3. Placed(live, state, waiting, pc') /\ Cleaning(pc', toRemove)
  BY <1>1, <1>2, Runner, TcbAssumption DEF Inv, Placed, Cleaning
<1>4. Holders(live, pc) = {} /\ Holders(live, pc') = {curTCB}
  BY <1>1, <1>2, Runner DEF Holders, Inv, Guarded
<1>5. Guarded(live, pc', fatMutex')
  BY <1>1, <1>4 DEF Guarded
<1>6. /\ "crit" \in Places /\ pcb' \in Nexts /\ fatMutex' \in BOOLEAN
      /\ curPCB' = pcb'[curTCB] /\ space' = pcb'[curTCB]
  BY <1>1 DEF Inv, Types, RightSpace, Places
<1> QED
  BY <1>1, <1>3, <1>5, <1>6, Runner, GoesKeeps

LEMMA InvLockMutex == ASSUME Inv, LockMutex PROVE Kept
<1>1. pc[curTCB] = "run" /\ ~halted
  BY DEF LockMutex, At
<1>2. CASE fatMutex
  <2>1. /\ Schedule(Queue, state, FALSE) /\ saved' = [saved EXCEPT ![curTCB] = irq]
        /\ pc' = [pc EXCEPT ![curTCB] = "lock"]
        /\ UNCHANGED <<terminatedTCB, toRemove, live, waiting, pcb, fatMutex>>
    BY <1>2 DEF LockMutex, Goes
  <2>2. \A t \in Tcbs : pc'[t] = IF t = curTCB THEN "lock" ELSE pc[t]
    BY <2>1, Runner
  <2>3. saved' \in [Tcbs -> BOOLEAN] /\ pc' \in [Tcbs -> Places]
    BY <2>1, Runner DEF Inv, Types, Places
  <2>4. state[curTCB] = "RUNNING" /\ curTCB \notin {Main, Cleaner} /\ curTCB \in live
    BY <1>1, Runner
  <2>5. Placed(live, state, waiting, pc') /\ Cleaning(pc', toRemove)
    BY <2>2, <2>4, Runner, TcbAssumption DEF Inv, Placed, Cleaning
  <2>6. Holders(live, pc') = Holders(live, pc)
    BY <1>1, <2>2, Runner DEF Holders
  <2> QED
    BY <2>1, <2>3, <2>5, <2>6, YieldKeeps
<1>3. CASE ~fatMutex
  <2>1. /\ Acquire /\ irq' = irq
        /\ UNCHANGED <<lists, blocks, curTCB, curPCB, space, eflags, halted, saved>>
    BY <1>3 DEF LockMutex, lists, blocks, cpu
  <2> QED
    BY <1>1, <1>3, <2>1, AcquireKeeps DEF Inv, Types
<1> QED
  BY <1>2, <1>3

LEMMA InvLockAgain == ASSUME Inv, LockAgain PROVE Kept
<1>1. pc[curTCB] = "lock" /\ ~halted
  BY DEF LockAgain, At
<1>2. CASE fatMutex
  <2>1. /\ Schedule(Queue, state, FALSE)
        /\ UNCHANGED <<terminatedTCB, toRemove, live, waiting, pcb, fatMutex, saved, pc>>
    BY <1>2 DEF LockAgain, Retries
  <2> QED
    BY <2>1, YieldKeeps DEF Inv, Types
<1>3. CASE ~fatMutex
  <2>1. /\ Acquire /\ irq' = saved[curTCB]
        /\ UNCHANGED <<lists, blocks, curTCB, curPCB, space, eflags, halted, saved>>
    BY <1>3 DEF LockAgain, Retries, lists, blocks
  <2>2. irq' \in BOOLEAN
    BY <2>1, Runner DEF Inv, Types
  <2> QED
    BY <1>1, <1>3, <2>1, <2>2, AcquireKeeps
<1> QED
  BY <1>2, <1>3

LEMMA InvUnlockMutex == ASSUME Inv, UnlockMutex PROVE Kept
<1>1. /\ pc[curTCB] = "crit" /\ ~halted /\ pc' = [pc EXCEPT ![curTCB] = "run"] /\ fatMutex' = FALSE
      /\ UNCHANGED <<lists, live, state, waiting, pcb, curTCB, curPCB, space, irq, eflags, halted, saved>>
  BY DEF UnlockMutex, At, Goes, blocks, cpu
<1>2. \A t \in Tcbs : pc'[t] = IF t = curTCB THEN "run" ELSE pc[t]
  BY <1>1, Runner
<1>3. Placed(live, state, waiting, pc') /\ Cleaning(pc', toRemove)
  BY <1>1, <1>2, Runner, TcbAssumption DEF Inv, Placed, Cleaning
<1>4. Holders(live, pc) = {curTCB}
  <2>1. curTCB \in Holders(live, pc)
    BY <1>1, Runner DEF Holders
  <2> QED
    BY <2>1 DEF Inv, Guarded
<1>5. Holders(live, pc') = {}
  BY <1>1, <1>2, <1>4, Runner DEF Holders
<1>6. Guarded(live, pc', fatMutex')
  BY <1>1, <1>5 DEF Guarded
<1>7. /\ "run" \in Places /\ pcb' \in Nexts /\ fatMutex' \in BOOLEAN /\ irq' \in BOOLEAN
      /\ curPCB' = pcb'[curTCB] /\ space' = pcb'[curTCB]
  BY <1>1 DEF Inv, Types, RightSpace, Places
<1> QED
  BY <1>1, <1>3, <1>6, <1>7, Runner, GoesKeeps

-----------------------------------------------------------------------------
(* The cleaner: it takes the list of the dead, and frees one by one.       *)
LEMMA NonePath ==
  ASSUME NEW l, NEW h, NEW nx, Path(l, h, nx)
  PROVE  /\ h = None <=> Len(l) = 0
         /\ h = None => Members(l) = {}
         /\ h # None => h \in Members(l)
<1>1. l \in Seq(Tcbs) /\ Len(l) \in Nat
  BY DEF Path
<1>2. Len(l) = 0 => Members(l) = {}
  <2> SUFFICES ASSUME Len(l) = 0, NEW x \in Members(l) PROVE FALSE
    OBVIOUS
  <2>1. PICK k \in 1 .. Len(l) : x = l[k]
    BY <1>1, MembersOf
  <2> QED
    BY <2>1
<1>3. Len(l) # 0 => h \in Members(l) /\ h \in Tcbs
  BY PathTail
<1> QED
  BY <1>1, <1>2, <1>3, TcbAssumption DEF Path

LEMMA InvCleanerTakes == ASSUME Inv, CleanerTakes PROVE Kept
<1> DEFINE place == IF terminatedTCB = None THEN "pause" ELSE "free"
<1>1. /\ pc[curTCB] = "take" /\ ~halted /\ irq' = TRUE
      /\ toRemove' = terminatedTCB /\ terminatedTCB' = None
      /\ pc' = [pc EXCEPT ![curTCB] = place]
      /\ UNCHANGED <<ready, next, live, state, waiting, pcb, curTCB, curPCB, space, eflags, halted, fatMutex, saved>>
  BY DEF CleanerTakes, At, Goes, blocks
<1>2. curTCB = Cleaner /\ state[Cleaner] = "RUNNING" /\ Cleaner \in Tcbs
  BY <1>1, Runner
<1>3. \A t \in Tcbs : pc'[t] = IF t = Cleaner THEN place ELSE pc[t]
  BY <1>1, <1>2, Runner
<1>4. Placed(live', state', waiting', pc')
  BY <1>1, <1>2, <1>3, Runner DEF Inv, Placed
<1>5. Cleaning(pc', toRemove')
  BY <1>1, <1>2, <1>3 DEF Cleaning
<1>6. Buried(terminatedTCB', toRemove', next', In("TERMINATED")')
  <2>1. PICK d, e : /\ Path(d, terminatedTCB, next) /\ Path(e, toRemove, next)
                    /\ Members(d) \cap Members(e) = {} /\ Members(d) \cup Members(e) = In("TERMINATED")
    BY DEF Inv, Buried
  <2>2. toRemove = None
    BY <1>1, <1>2 DEF Inv, Cleaning
  <2>3. Members(e) = {}
    BY <2>1, <2>2, NonePath
  <2>4. Path(<<>>, None, next) /\ Members(<<>>) = {}
    BY EmptyPath
  <2>5. In("TERMINATED")' = In("TERMINATED")
    BY <1>1 DEF In
  <2> QED
    BY <1>1, <2>1, <2>3, <2>4, <2>5 DEF Buried
<1>7. Guarded(live', pc', fatMutex')
  <2>1. Holders(live, pc') = Holders(live, pc)
    BY <1>1, <1>2, <1>3, Runner DEF Holders
  <2> QED
    BY <1>1, <2>1 DEF Inv, Guarded
<1>8. Types' /\ Linked' /\ OneRuns' /\ RightSpace' /\ Family(live', state', waiting')
  <2>1. Types'
    BY <1>1, <1>3, Runner DEF Inv, Types, Places
  <2>2. Linked' /\ RightSpace'
    BY <1>1 DEF Inv, Linked, Queue, In, RightSpace
  <2>3. OneRuns'
    BY <1>1, <1>2 DEF Inv, OneRuns
  <2> QED
    BY <1>1, <2>1, <2>2, <2>3 DEF Inv
<1>9. Inv'
  BY <1>4, <1>5, <1>6, <1>7, <1>8 DEF Inv
<1> QED
  BY <1>1, <1>9, StaysKept

LEMMA InvCleanerPauses == ASSUME Inv, CleanerPauses PROVE Kept
<1>1. /\ pc[curTCB] = "pause" /\ ~halted /\ pc' = [pc EXCEPT ![curTCB] = "sleep"]
      /\ state' = [state EXCEPT ![Cleaner] = "PAUSED"]
      /\ UNCHANGED <<ready, next, terminatedTCB, toRemove, live, waiting, pcb, curTCB, curPCB, space, irq, eflags, halted, fatMutex, saved>>
  BY DEF CleanerPauses, At, Goes, lists, cpu
<1>2. curTCB = Cleaner /\ state[Cleaner] = "RUNNING" /\ Cleaner \in Tcbs /\ state \in [Tcbs -> States]
  BY <1>1, Runner DEF Inv, Types
<1>3. \A t \in Tcbs : /\ pc'[t] = IF t = Cleaner THEN "sleep" ELSE pc[t]
                      /\ state'[t] = IF t = Cleaner THEN "PAUSED" ELSE state[t]
  BY <1>1, <1>2, Runner
<1>4. Placed(live', state', waiting', pc') /\ Cleaning(pc', toRemove')
  BY <1>1, <1>2, <1>3, Runner DEF Inv, Placed, Cleaning
<1>5. Family(live', state', waiting')
  BY <1>1, <1>2, <1>3, Runner, FamilyFrame DEF Inv
<1>6. In("TERMINATED")' = In("TERMINATED") /\ In("READY")' = In("READY")
  BY <1>1, <1>2, <1>3, Runner DEF In
<1>7. Guarded(live', pc', fatMutex')
  <2>1. Holders(live, pc') = Holders(live, pc)
    BY <1>1, <1>2, <1>3, Runner DEF Holders
  <2> QED
    BY <1>1, <2>1 DEF Inv, Guarded
<1>8. Types' /\ Linked' /\ OneRuns' /\ RightSpace'
  <2>1. Types'
    BY <1>1, <1>2, <1>3, Runner DEF Inv, Types, Places, States
  <2>2. Linked' /\ RightSpace'
    BY <1>1, <1>6 DEF Inv, Linked, Queue, RightSpace
  <2>3. OneRuns'
    BY <1>1, <1>2, <1>3, Runner DEF Inv, OneRuns
  <2> QED
    BY <2>1, <2>2, <2>3
<1>9. Inv'
  BY <1>1, <1>4, <1>5, <1>6, <1>7, <1>8 DEF Inv
<1> QED
  BY <1>1, <1>9, StaysKept

LEMMA InvCleanerFrees == ASSUME Inv, CleanerFrees PROVE Kept
<1> DEFINE place == IF next[toRemove] = None THEN "pause" ELSE "free"
           r == toRemove
<1>1. /\ pc[curTCB] = "free" /\ ~halted /\ irq' \in BOOLEAN
      /\ toRemove' = next[r] /\ live' = live \ {r}
      /\ next' = [next EXCEPT ![r] = None] /\ waiting' = [waiting EXCEPT ![r] = None]
      /\ pc' = [pc EXCEPT ![curTCB] = place]
      /\ UNCHANGED <<ready, terminatedTCB, state, pcb, curTCB, curPCB, space, eflags, halted, fatMutex, saved>>
  BY DEF CleanerFrees, At, Goes, Rest
<1>2. curTCB = Cleaner /\ state[Cleaner] = "RUNNING" /\ Cleaner \in Tcbs /\ r # None
  BY <1>1, Runner DEF Inv, Cleaning
<1>3. PICK d, e : /\ Path(d, terminatedTCB, next) /\ Path(e, r, next)
                  /\ Members(d) \cap Members(e) = {} /\ Members(d) \cup Members(e) = In("TERMINATED")
  BY DEF Inv, Buried
<1>4. Len(e) # 0 /\ r \in Members(e)
  BY <1>2, <1>3, NonePath
<1>5. r \in In("TERMINATED") /\ r \in live /\ state[r] = "TERMINATED" /\ r \in Tcbs
  BY <1>3, <1>4, Runner DEF In
<1> HIDE DEF place, r
<1>6. \A t \in Tcbs : /\ pc'[t] = IF t = Cleaner THEN place ELSE pc[t]
                      /\ next'[t] = IF t = r THEN None ELSE next[t]
                      /\ waiting'[t] = IF t = r THEN None ELSE waiting[t]
  BY <1>1, <1>2, Runner DEF Inv, Types, Nexts
<1>7. r \notin {Main, Cleaner} /\ {Main, Cleaner} \subseteq live'
  BY <1>1, <1>5, Runner DEF Inv, Placed
<1>8. Placed(live', state', waiting', pc')
  <2>1. \A t \in live' : t \in live /\ t # r /\ t \in Tcbs
    BY <1>1, Runner
  <2>2. waiting'[Main] = None /\ waiting'[Cleaner] = None
    BY <1>6, <1>7, TcbAssumption DEF Inv, Placed
  <2>3. pc'[Main] \in {"boot", "idle"} /\ pc'[Cleaner] \in {"start", "take", "free", "pause", "sleep"}
    BY <1>6, TcbAssumption DEF Inv, Placed, place
  <2>4. \A t \in live' : pc'[t] = IF t = Cleaner THEN place ELSE pc[t]
    BY <2>1, <1>6
  <2>5. state' = state /\ state[Cleaner] = "RUNNING"
    BY <1>1, <1>2
  <2> QED
    BY <1>7, <2>1, <2>2, <2>3, <2>4, <2>5 DEF Inv, Placed
<1>9. Cleaning(pc', toRemove')
  BY <1>1, <1>2, <1>6 DEF Cleaning, place, r
<1>10. Family(live', state', waiting')
  <2>1. \A c \in live : state[c] # "TERMINATED" => c # r /\ c \in live' /\ waiting'[c] = waiting[c]
    BY <1>1, <1>5, <1>6, Runner
  <2>2. \A p : Kids(live', state', waiting', p) = Kids(live, state, waiting, p)
    BY <1>1, <2>1 DEF Kids
  <2>3. {p \in live' : state'[p] = "CHILDWAIT"} = {p \in live : state[p] = "CHILDWAIT"}
    BY <1>1, <1>5
  <2>4. Kids(live, state, waiting, r) = {}
    BY <1>5 DEF Inv, Family
  <2>5. ASSUME NEW c \in live', state'[c] # "TERMINATED", waiting'[c] # None PROVE waiting'[c] \in live'
    <3>1. c \in live /\ state[c] # "TERMINATED" /\ waiting'[c] = waiting[c]
      BY <1>1, <2>1, <2>5
    <3>2. waiting[c] \in live
      BY <3>1, <2>5 DEF Inv, Family
    <3>3. waiting[c] # r
      BY <3>1, <2>4 DEF Kids
    <3> QED
      BY <1>1, <3>1, <3>2, <3>3
  <2>6. \A p \in live' : IF state'[p] = "CHILDWAIT" THEN \E c : Kids(live', state', waiting', p) = {c}
                                                   ELSE Kids(live', state', waiting', p) = {}
    BY <1>1, <2>2 DEF Inv, Family
  <2> QED
    BY <2>2, <2>3, <2>5, <2>6 DEF Inv, Family
<1>11. Buried(terminatedTCB', toRemove', next', In("TERMINATED")')
  <2>1. /\ Path(Tail(e), next[r], next) /\ Members(Tail(e)) = Members(e) \ {r}
    BY <1>3, <1>4, PathTail
  <2>2. r \notin Members(d) /\ r \notin Members(Tail(e))
    BY <1>3, <1>4, <2>1
  <2>3. \A x \in Members(d) \cup Members(Tail(e)) : next'[x] = next[x]
    <3>1. Members(d) \cup Members(Tail(e)) \subseteq Tcbs
      BY <1>3, <2>1, Runner DEF In
    <3> QED
      BY <1>6, <2>2, <3>1
  <2>4. Path(d, terminatedTCB, next') /\ Path(Tail(e), next[r], next')
    BY <1>3, <2>1, <2>3, PathFrame
  <2>5. In("TERMINATED")' = In("TERMINATED") \ {r}
    BY <1>1 DEF In
  <2>6. /\ Members(d) \cap Members(Tail(e)) = {}
        /\ Members(d) \cup Members(Tail(e)) = In("TERMINATED")'
    BY <1>3, <2>1, <2>2, <2>5
  <2> QED
    BY <1>1, <2>4, <2>6 DEF Buried
<1>12. Guarded(live', pc', fatMutex')
  <2>1. Holders(live', pc') = Holders(live, pc)
    <3>1. pc[r] # "crit" /\ place # "crit"
      BY <1>5, Runner DEF Inv, Placed, place
    <3> QED
      BY <1>1, <1>2, <1>6, <3>1, Runner DEF Holders
  <2> QED
    BY <1>1, <2>1 DEF Inv, Guarded
<1>13. PICK l : Queued(Queue, l) /\ Members(l) = In("READY")
  BY DEF Inv, Linked
<1>14. Queued(Queue', l) /\ In("READY")' = In("READY")
  <2>1. In("READY")' = In("READY")
    BY <1>1, <1>5 DEF In
  <2>2. \A x \in Members(l) : next'[x] = next[x]
    BY <1>5, <1>6, <1>13, Runner DEF In
  <2>3. Path(l, ready.first, next) /\ ready.last = IF Len(l) = 0 THEN None ELSE l[Len(l)]
    BY <1>13 DEF Queued, Queue
  <2>4. Path(l, ready.first, next')
    BY <2>2, <2>3, PathFrame
  <2> QED
    BY <1>1, <2>1, <2>3, <2>4 DEF Queued, Queue
<1>15. Types'
  <2>1. next[r] \in Tcbs \cup {None} /\ next' \in Nexts /\ waiting' \in Nexts /\ pcb' \in Nexts
    BY <1>1, <1>5 DEF Inv, Types, Nexts
  <2>2. pc' \in [Tcbs -> Places] /\ live' \subseteq Tcbs /\ curTCB' \in live'
    BY <1>1, <1>2, <1>7, Runner DEF Places, place
  <2> QED
    BY <1>1, <2>1, <2>2 DEF Inv, Types
<1>16. Linked' /\ OneRuns' /\ RightSpace'
  <2>1. Linked'
    BY <1>13, <1>14 DEF Linked
  <2>2. OneRuns'
    BY <1>1, <1>2 DEF Inv, OneRuns
  <2>3. RightSpace'
    BY <1>1 DEF Inv, RightSpace
  <2> QED
    BY <2>1, <2>2, <2>3
<1>17. Inv'
  BY <1>8, <1>9, <1>10, <1>11, <1>12, <1>15, <1>16 DEF Inv
<1>18. Turn
  <2>1. Listed(ready.first) = l /\ Listed(ready.first)' = l
    BY <1>13, <1>14, QueueIs, QueueIsThen DEF QueueSays
  <2> QED
    BY <1>1, <2>1 DEF Turn
<1> QED
  BY <1>17, <1>18 DEF Kept

-----------------------------------------------------------------------------
(* New threads.  One that is not allocated is nobody's child or parent.    *)
LEMMA FamilyGrows ==
  ASSUME Inv, NEW t \in Tcbs \ live, NEW p, NEW st, NEW lv, NEW w,
         lv = live \cup {t}, w = [waiting EXCEPT ![t] = p], st[t] = "READY",
         \A x \in live \ {p} : st[x] = state[x],
         p # None => p \in live /\ state[p] = "RUNNING" /\ st[p] = "CHILDWAIT"
  PROVE  Family(lv, st, w)
<1>1. /\ Family(live, state, waiting) /\ live \subseteq Tcbs /\ None \notin Tcbs
      /\ \A x \in Tcbs : w[x] = IF x = t THEN p ELSE waiting[x]
  BY TcbAssumption DEF Inv, Types, Nexts
<1>2. \A x \in live : st[x] = "TERMINATED" <=> state[x] = "TERMINATED"
  <2> SUFFICES ASSUME NEW x \in live PROVE st[x] = "TERMINATED" <=> state[x] = "TERMINATED"
    OBVIOUS
  <2>1. CASE x = p
    BY <1>1, <2>1
  <2>2. CASE x # p
    BY <2>2
  <2> QED
    BY <2>1, <2>2
<1>3. \A c \in live : state[c] # "TERMINATED" => waiting[c] # t
  BY <1>1 DEF Family
<1>4. \A x \in lv : Kids(lv, st, w, x) =
        IF x = t THEN {} ELSE Kids(live, state, waiting, x) \cup IF x = p THEN {t} ELSE {}
  <2> SUFFICES ASSUME NEW x \in lv
               PROVE  Kids(lv, st, w, x) =
                        IF x = t THEN {} ELSE Kids(live, state, waiting, x) \cup IF x = p THEN {t} ELSE {}
    OBVIOUS
  <2>1. p # t
    BY <1>1
  <2>2. CASE x = t
    BY <1>1, <1>2, <1>3, <2>1, <2>2 DEF Kids
  <2>3. CASE x # t
    BY <1>1, <1>2, <2>3 DEF Kids
  <2> QED
    BY <2>2, <2>3
<1>5. p # None => Kids(live, state, waiting, p) = {}
  BY <1>1 DEF Family
<1>6. \A c \in lv : st[c] # "TERMINATED" /\ w[c] # None => w[c] \in lv
  BY <1>1, <1>2 DEF Family
<1>7. \A x \in lv : IF st[x] = "CHILDWAIT" THEN \E c : Kids(lv, st, w, x) = {c}
                                            ELSE Kids(lv, st, w, x) = {}
  <2> SUFFICES ASSUME NEW x \in lv
               PROVE IF st[x] = "CHILDWAIT" THEN \E c : Kids(lv, st, w, x) = {c}
                                            ELSE Kids(lv, st, w, x) = {}
    OBVIOUS
  <2>1. CASE x = t
    BY <1>4, <2>1
  <2>2. CASE x = p
    <3>1. x \in live /\ x # None
      BY <1>1, <2>2
    <3>2. Kids(lv, st, w, x) = {t} /\ st[x] = "CHILDWAIT"
      BY <3>1, <1>4, <1>5, <2>2
    <3> QED
      BY <3>2
  <2>3. CASE x # t /\ x # p
    <3>1. x \in live /\ st[x] = state[x] /\ Kids(lv, st, w, x) = Kids(live, state, waiting, x)
      BY <1>4, <2>3
    <3>2. IF state[x] = "CHILDWAIT" THEN \E c : Kids(live, state, waiting, x) = {c}
                                    ELSE Kids(live, state, waiting, x) = {}
      BY <3>1, <1>1 DEF Family
    <3> QED
      BY <3>1, <3>2
  <2> QED
    BY <2>1, <2>2, <2>3
<1>8. ASSUME NEW S \in SUBSET {x \in lv : st[x] = "CHILDWAIT"}, S # {}
      PROVE  \E x \in S : Kids(lv, st, w, x) \cap S = {}
  <2>1. t \notin S
    OBVIOUS
  <2>2. CASE p \in S
    <3>1. p \in live /\ p # None
      BY <2>1, <2>2, <1>1
    <3>2. Kids(lv, st, w, p) = {t}
      BY <3>1, <1>4, <1>5
    <3> QED
      BY <2>1, <2>2, <3>2
  <2>3. CASE p \notin S
    <3>1. S \in SUBSET {x \in live : state[x] = "CHILDWAIT"}
      BY <2>1, <2>3
    <3>2. PICK x \in S : Kids(live, state, waiting, x) \cap S = {}
      BY <3>1, <1>8, <1>1 DEF Family
    <3>3. x \in lv /\ x # p /\ x # t
      BY <2>1, <2>3
    <3>4. Kids(lv, st, w, x) = Kids(live, state, waiting, x)
      BY <3>3, <1>4
    <3> QED
      BY <3>2, <3>4
  <2> QED
    BY <2>2, <2>3
<1> QED
  BY <1>6, <1>7, <1>8 DEF Family

LEMMA InvCreateThread == ASSUME Inv, NEW t \in Tcbs, CreateThread(t) PROVE Kept
<1> DEFINE q == Appended(Queue, t)
<1>1. /\ pc[curTCB] = "run" /\ ~halted /\ t \notin live /\ live' = live \cup {t}
      /\ waiting' = [waiting EXCEPT ![t] = None] /\ pcb' = [pcb EXCEPT ![t] = t]
      /\ Keep(q) /\ state' = [state EXCEPT ![t] = "READY"]
      /\ eflags' = [eflags EXCEPT ![t] = FALSE] /\ pc' = [pc EXCEPT ![t] = "start"]
      /\ UNCHANGED <<curTCB, curPCB, space, irq, halted, terminatedTCB, toRemove, fatMutex, saved>>
  BY DEF CreateThread, At, NewBlock
<1>2. PICK l : Queued(Queue, l) /\ Members(l) = In("READY")
  BY DEF Inv, Linked
<1>3. Queue.next = next /\ next \in Nexts /\ t \notin Members(l) /\ l \in Seq(Tcbs)
  BY <1>1, <1>2 DEF Inv, Types, Queue, In, Queued, Path
<1>4. /\ Queued(q, Append(l, t)) /\ Members(Append(l, t)) = Members(l) \cup {t}
      /\ q.next \in Nexts
      /\ \A x \in Tcbs \ (Members(l) \cup {t}) : q.next[x] = next[x]
  BY <1>2, <1>3, QueueAppend
<1> HIDE DEF q
<1>5. Queued(Queue', Append(l, t)) /\ next' = q.next /\ ready' = [first |-> ready'.first, last |-> ready'.last]
  BY <1>1, <1>4 DEF Keep, Queue, Queued
<1>6. /\ live \subseteq Tcbs /\ curTCB # t /\ t # Main /\ t # Cleaner
      /\ state \in [Tcbs -> States] /\ waiting \in Nexts /\ pcb \in Nexts
  BY <1>1, Runner DEF Inv, Types, Placed
<1>7. \A x \in Tcbs : /\ pc'[x] = IF x = t THEN "start" ELSE pc[x]
                      /\ state'[x] = IF x = t THEN "READY" ELSE state[x]
                      /\ waiting'[x] = IF x = t THEN None ELSE waiting[x]
                      /\ pcb'[x] = IF x = t THEN t ELSE pcb[x]
  BY <1>1, <1>6, Runner DEF Nexts
<1>8. Family(live', state', waiting')
  <2>1. state'[t] = "READY" /\ \A x \in live \ {None} : state'[x] = state[x]
    BY <1>1, <1>6, <1>7
  <2> QED
    BY <1>1, <2>1, FamilyGrows
<1>9. Placed(live', state', waiting', pc') /\ Cleaning(pc', toRemove')
  <2>1. \A x \in live : x # t /\ x \in Tcbs
    BY <1>1, <1>6
  <2>2. Cleaning(pc', toRemove')
    BY <1>1, <1>6, <1>7, TcbAssumption DEF Inv, Cleaning
  <2> QED
    BY <1>1, <1>6, <1>7, <2>1, <2>2, TcbAssumption DEF Inv, Placed
<1>10. In("TERMINATED")' = In("TERMINATED") /\ In("READY")' = In("READY") \cup {t}
  BY <1>1, <1>6, <1>7 DEF In
<1>11. Buried(terminatedTCB', toRemove', next', In("TERMINATED")')
  <2>1. \A x \in In("TERMINATED") : next'[x] = next[x]
    BY <1>1, <1>2, <1>4, <1>5, <1>6 DEF In
  <2>2. Buried(terminatedTCB, toRemove, next', In("TERMINATED"))
    BY <2>1, BuriedFrame DEF Inv
  <2> QED
    BY <1>1, <1>10, <2>2
<1>12. Guarded(live', pc', fatMutex')
  <2>1. Holders(live', pc') = Holders(live, pc)
    BY <1>1, <1>6, <1>7 DEF Holders
  <2> QED
    BY <1>1, <2>1 DEF Inv, Guarded
<1>13. Types'
  <2>1. state' \in [Tcbs -> States] /\ pc' \in [Tcbs -> Places] /\ eflags' \in [Tcbs -> BOOLEAN]
    BY <1>1, Runner DEF Inv, Types, States, Places
  <2>2. waiting' \in Nexts /\ pcb' \in Nexts /\ next' \in Nexts
    BY <1>1, <1>4, <1>5 DEF Inv, Types, Nexts
  <2> QED
    BY <1>1, <1>5, <2>1, <2>2 DEF Inv, Types
<1>14. Linked'
  BY <1>2, <1>4, <1>5, <1>10 DEF Linked
<1>15. OneRuns' /\ RightSpace'
  <2>1. curTCB \in Tcbs /\ \A x \in live : x \in Tcbs /\ x # t
    BY <1>1, <1>6, Runner
  <2>2. OneRuns'
    BY <1>1, <1>6, <1>7, <2>1 DEF Inv, OneRuns
  <2>3. RightSpace'
    BY <1>1, <1>6, <1>7, <2>1 DEF Inv, RightSpace
  <2> QED
    BY <2>2, <2>3
<1>16. Inv'
  BY <1>8, <1>9, <1>11, <1>12, <1>13, <1>14, <1>15 DEF Inv
<1>17. Turn
  <2>1. Listed(ready.first) = l /\ Listed(ready.first)' = Append(l, t)
    BY <1>2, <1>5, QueueIs, QueueIsThen DEF QueueSays
  <2>2. <<t>> \in Seq(Tcbs) /\ Len(<<t>>) <= 2 /\ Append(l, t) = l \o <<t>>
    BY <1>3
  <2>3. Path(l \o <<t>>, q.first, q.next) /\ curTCB \notin Members(l \o <<t>>)
    <3>1. curTCB \notin Members(l)
      BY <1>2 DEF In, Inv, OneRuns
    <3> QED
      BY <1>4, <1>6, <2>2, <3>1 DEF Queued
  <2>4. <<t>> \in Turns!Arrivals
    BY <2>1, <2>2, <2>3, <1>3, Runner, JoinedArrive
  <2>5. Turns!Join(<<t>>)
    BY <1>1, <2>1, <2>2 DEF Turns!Join
  <2> QED
    BY <2>4, <2>5 DEF Turn, Turns!Next
<1> QED
  BY <1>16, <1>17 DEF Kept

LEMMA InvCreateThreadAndBlock == ASSUME Inv, NEW t \in Tcbs, CreateThreadAndBlock(t) PROVE Kept
<1> DEFINE q == Appended(Queue, t)
           st == [state EXCEPT ![t] = "READY", ![curTCB] = "CHILDWAIT"]
           place == IF pc[curTCB] = "boot" THEN "idle" ELSE "run"
<1>1. /\ pc[curTCB] \in {"run", "boot"} /\ ~halted /\ t \notin live /\ live' = live \cup {t}
      /\ waiting' = [waiting EXCEPT ![t] = curTCB] /\ pcb' = [pcb EXCEPT ![t] = t]
      /\ Schedule(q, st, irq)
      /\ pc' = [pc EXCEPT ![t] = "start", ![curTCB] = IF @ = "boot" THEN "idle" ELSE "run"]
      /\ UNCHANGED <<terminatedTCB, toRemove, fatMutex, saved>>
  BY DEF CreateThreadAndBlock, At, NewBlock
<1>2. PICK l : Queued(Queue, l) /\ Members(l) = In("READY")
  BY DEF Inv, Linked
<1>3. Queue.next = next /\ next \in Nexts /\ t \notin Members(l) /\ l \in Seq(Tcbs)
  BY <1>1, <1>2 DEF Inv, Types, Queue, In, Queued, Path
<1>4. /\ Queued(q, Append(l, t)) /\ Members(Append(l, t)) = Members(l) \cup {t}
      /\ q.next \in Nexts
      /\ \A x \in Tcbs \ (Members(l) \cup {t}) : q.next[x] = next[x]
  BY <1>2, <1>3, QueueAppend
<1>5. /\ live \subseteq Tcbs /\ curTCB # t /\ t # Main /\ t # Cleaner
      /\ state \in [Tcbs -> States] /\ waiting \in Nexts /\ pcb \in Nexts /\ irq \in BOOLEAN
  BY <1>1, Runner DEF Inv, Types, Placed
<1>6. \A x \in Tcbs : /\ pc'[x] = IF x = curTCB THEN place ELSE IF x = t THEN "start" ELSE pc[x]
                      /\ st[x] = IF x = curTCB THEN "CHILDWAIT" ELSE IF x = t THEN "READY" ELSE state[x]
                      /\ waiting'[x] = IF x = t THEN curTCB ELSE waiting[x]
                      /\ pcb'[x] = IF x = t THEN t ELSE pcb[x]
  BY <1>1, <1>5, Runner DEF Nexts
<1>7. st \in [Tcbs -> States] /\ pc' \in [Tcbs -> Places] /\ waiting' \in Nexts /\ pcb' \in Nexts
  BY <1>1, <1>5, Runner DEF States, Places, Nexts
<1>8. state[curTCB] = "RUNNING" /\ curTCB \in live /\ curTCB \in Tcbs /\ curTCB # Cleaner /\ Main # Cleaner
  BY <1>1, Runner
<1> HIDE DEF q, st
<1>9. Family(live', st, waiting')
  <2>1. st[t] = "READY" /\ st[curTCB] = "CHILDWAIT" /\ \A x \in live \ {curTCB} : st[x] = state[x]
    BY <1>1, <1>5, <1>6, <1>8
  <2> QED
    BY <1>1, <1>8, <2>1, FamilyGrows
<1>10. Placed(live', st, waiting', pc')
  <2>1. \A x \in live : x # t /\ x \in Tcbs
    BY <1>1, <1>5
  <2>2. curTCB = Main <=> place = "idle"
    BY <1>1, Runner
  <2>3. place \in {"idle", "run"}
    OBVIOUS
  <2>4. waiting'[Main] = None /\ waiting'[Cleaner] = None
    BY <1>5, <1>6, TcbAssumption DEF Inv, Placed
  <2>5. /\ pc'[Main] \in {"boot", "idle"}
        /\ pc'[Cleaner] \in {"start", "take", "free", "pause", "sleep"}
    BY <1>5, <1>6, <1>8, <2>2, TcbAssumption DEF Inv, Placed
  <2> HIDE DEF place
  <2>6. \A x \in live' \ {Main, Cleaner} : pc'[x] \in {"start", "run", "lock", "crit", "exit"}
    <3> SUFFICES ASSUME NEW x \in live' \ {Main, Cleaner}
                 PROVE  pc'[x] \in {"start", "run", "lock", "crit", "exit"}
      OBVIOUS
    <3>1. CASE x = curTCB
      BY <1>6, <1>8, <2>2, <2>3, <3>1
    <3>2. CASE x = t
      BY <1>5, <1>6, <3>2
    <3>3. CASE x # curTCB /\ x # t
      <4>1. x \in live \ {Main, Cleaner} /\ x \in Tcbs
        BY <1>1, <2>1, <3>3
      <4>2. pc'[x] = pc[x]
        BY <1>6, <3>3, <4>1
      <4> QED
        BY <4>1, <4>2 DEF Inv, Placed
    <3> QED
      BY <3>1, <3>2, <3>3
  <2>7. \A x \in live' : /\ st[x] = "CHILDWAIT" => pc'[x] \in {"run", "idle"}
                         /\ st[x] = "TERMINATED" => pc'[x] = "exit"
                         /\ st[x] = "PAUSED" => x = Cleaner /\ pc'[x] \in {"sleep", "take"}
    <3> SUFFICES ASSUME NEW x \in live'
                 PROVE  /\ st[x] = "CHILDWAIT" => pc'[x] \in {"run", "idle"}
                        /\ st[x] = "TERMINATED" => pc'[x] = "exit"
                        /\ st[x] = "PAUSED" => x = Cleaner /\ pc'[x] \in {"sleep", "take"}
      OBVIOUS
    <3>1. CASE x = curTCB
      BY <1>6, <1>8, <2>3, <3>1
    <3>2. CASE x = t
      BY <1>5, <1>6, <3>2
    <3>3. CASE x # curTCB /\ x # t
      <4>1. x \in live /\ x \in Tcbs
        BY <1>1, <2>1, <3>3
      <4>2. pc'[x] = pc[x] /\ st[x] = state[x]
        BY <1>6, <3>3, <4>1
      <4> QED
        BY <4>1, <4>2 DEF Inv, Placed
    <3> QED
      BY <3>1, <3>2, <3>3
  <2>8. {Main, Cleaner} \subseteq live'
    BY <1>1 DEF Inv, Placed
  <2> QED
    BY <2>4, <2>5, <2>6, <2>7, <2>8 DEF Placed
<1>11. Cleaning(pc', toRemove')
  BY <1>1, <1>5, <1>6, <1>8, TcbAssumption DEF Inv, Cleaning
<1>12. /\ {x \in live' : st[x] = "TERMINATED"} = In("TERMINATED")
       /\ {x \in live' : st[x] = "READY"} = In("READY") \cup {t}
  <2>1. \A x \in live : x # t /\ x \in Tcbs
    BY <1>1, <1>5
  <2> QED
    BY <1>1, <1>6, <1>8, <2>1 DEF In
<1>13. Buried(terminatedTCB', toRemove', q.next, {x \in live' : st[x] = "TERMINATED"})
  <2>1. \A x \in In("TERMINATED") : q.next[x] = next[x]
    BY <1>1, <1>2, <1>4, <1>5 DEF In
  <2>2. Buried(terminatedTCB, toRemove, q.next, In("TERMINATED"))
    BY <2>1, BuriedFrame DEF Inv
  <2> QED
    BY <1>1, <1>12, <2>2
<1>14. Guarded(live', pc', fatMutex')
  <2>1. Holders(live', pc') = Holders(live, pc)
    <3>1. place # "crit" /\ pc[curTCB] # "crit" /\ \A x \in live : x # t /\ x \in Tcbs
      BY <1>1, <1>5
    <3> HIDE DEF place
    <3>2. pc'[t] # "crit" /\ pc'[curTCB] # "crit"
      BY <1>5, <1>6, <1>8, <3>1
    <3>3. \A x \in live : pc'[x] = "crit" <=> pc[x] = "crit"
      BY <1>6, <3>1, <3>2
    <3> QED
      BY <1>1, <3>2, <3>3 DEF Holders
  <2> QED
    BY <1>1, <2>1 DEF Inv, Guarded
<1>15. Handed(q, st)
  <2>1. \A x \in live' : st[x] = "RUNNING" => x = curTCB
    <3>1. \A x \in live : x \in Tcbs
      BY <1>5
    <3> QED
      BY <1>1, <1>6, <3>1 DEF Inv, OneRuns
  <2>2. st[curTCB] # "READY" /\ curPCB = pcb'[curTCB] /\ space = pcb'[curTCB]
    BY <1>5, <1>6, <1>8 DEF Inv, RightSpace
  <2>3. saved' \in [Tcbs -> BOOLEAN] /\ fatMutex' \in BOOLEAN /\ Types
    BY <1>1 DEF Inv, Types
  <2>4. live' \subseteq Tcbs /\ curTCB \in live'
    BY <1>1, <1>5, <1>8
  <2> QED
    BY <1>4, <1>7, <1>9, <1>10, <1>11, <1>13, <1>14, <2>1, <2>2, <2>3, <2>4 DEF Handed
<1>16. <<t>> \in Seq(Tcbs) /\ Len(<<t>>) <= 2 /\ Append(l, t) = l \o <<t>> /\ Len(l \o <<t>>) # 0
  BY <1>3
<1>17. Over(l, q, st, <<t>>, irq)
  BY <1>1, <1>2, <1>4, <1>5, <1>12, <1>15, <1>16 DEF Over
<1> QED
  BY <1>2, <1>17, OverKept

-----------------------------------------------------------------------------
(* The end of a thread: it goes to the list of the dead, and wakes its     *)
(* parent and the cleaner.                                                 *)
Joins(st, t) == IF st[t] = "READY" THEN <<>> ELSE <<t>>

LEMMA WokenIs ==
  ASSUME NEW q, NEW l, Queued(q, l), q.next \in Nexts, NEW st, NEW t \in Tcbs,
         st[t] = "READY" <=> t \in Members(l)
  PROVE  /\ Queued(Woken(q, st, t), l \o Joins(st, t))
         /\ Members(l \o Joins(st, t)) = Members(l) \cup {t}
         /\ Woken(q, st, t).next \in Nexts
         /\ \A x \in Tcbs \ (Members(l) \cup {t}) : Woken(q, st, t).next[x] = q.next[x]
<1>1. l \in Seq(Tcbs)
  BY DEF Queued, Path
<1>2. CASE st[t] = "READY"
  <2>1. l \o <<>> = l
    BY <1>1
  <2> QED
    BY <1>2, <2>1 DEF Woken, Joins
<1>3. CASE st[t] # "READY"
  <2>1. l \o <<t>> = Append(l, t) /\ Joins(st, t) = <<t>> /\ Woken(q, st, t) = Appended(q, t)
    BY <1>1, <1>3 DEF Joins, Woken
  <2>2. t \notin Members(l)
    BY <1>3
  <2>3. /\ Queued(Appended(q, t), Append(l, t)) /\ Members(Append(l, t)) = Members(l) \cup {t}
        /\ Appended(q, t).next \in Nexts
        /\ \A x \in Tcbs \ (Members(l) \cup {t}) : Appended(q, t).next[x] = q.next[x]
    BY <2>2, QueueAppend
  <2> QED
    BY <2>1, <2>3
<1> QED
  BY <1>2, <1>3

LEMMA ThreeJoined ==
  ASSUME NEW l \in Seq(Tcbs), NEW v \in Seq(Tcbs), Len(v) <= 1, NEW st, NEW t \in Tcbs
  PROVE  /\ (l \o v) \o Joins(st, t) = l \o (v \o Joins(st, t))
         /\ v \o Joins(st, t) \in Seq(Tcbs) /\ Len(v \o Joins(st, t)) <= 2
<1>1. CASE st[t] = "READY"
  <2>1. (l \o v) \o <<>> = l \o v /\ v \o <<>> = v /\ Len(v) \in Nat
    OBVIOUS
  <2> QED
    BY <1>1, <2>1 DEF Joins
<1>2. CASE st[t] # "READY"
  <2> DEFINE a == (l \o v) \o <<t>>
             b == l \o (v \o <<t>>)
  <2>1. v \o <<t>> \in Seq(Tcbs) /\ Len(v \o <<t>>) = Len(v) + 1 /\ Len(l) \in Nat /\ Len(v) \in Nat
    OBVIOUS
  <2>2. a = Append(l \o v, t) /\ v \o <<t>> = Append(v, t)
    OBVIOUS
  <2>3. a = b
    BY <2>2
  <2> QED
    BY <1>2, <2>1, <2>3 DEF Joins
<1> QED
  BY <1>1, <1>2

LEMMA InvTerminateThread == ASSUME Inv, TerminateThread PROVE Kept
<1> DEFINE next0 == [next EXCEPT ![curTCB] = terminatedTCB]
           q0 == [Queue EXCEPT !.next = next0]
           parent == waiting[curTCB]
           q1 == IF parent = None THEN q0 ELSE Woken(q0, state, parent)
           s1 == IF parent = None THEN state ELSE [state EXCEPT ![parent] = "READY"]
           q2 == Woken(q1, s1, Cleaner)
           st == [s1 EXCEPT ![Cleaner] = "READY", ![curTCB] = "TERMINATED"]
           v == IF parent = None THEN <<>> ELSE Joins(state, parent)
           w == v \o Joins(s1, Cleaner)
<1>1. /\ pc[curTCB] = "exit" /\ ~halted /\ terminatedTCB' = curTCB
      /\ Schedule(q2, st, FALSE)
      /\ UNCHANGED <<toRemove, live, waiting, pcb, fatMutex, saved, pc>>
  BY DEF TerminateThread, At, Dead
<1>2. /\ curTCB \in live /\ live \subseteq Tcbs /\ curTCB \in Tcbs /\ curTCB \notin {Main, Cleaner}
      /\ state[curTCB] = "RUNNING" /\ Cleaner \in live /\ None \notin Tcbs
      /\ state \in [Tcbs -> States] /\ next \in Nexts /\ waiting \in Nexts
  BY <1>1, Runner, TcbAssumption DEF Inv, Types, Placed
<1>3. PICK l : Queued(Queue, l) /\ Members(l) = In("READY")
  BY DEF Inv, Linked
<1>4. PICK d, e : /\ Path(d, terminatedTCB, next) /\ Path(e, toRemove, next)
                  /\ Members(d) \cap Members(e) = {} /\ Members(d) \cup Members(e) = In("TERMINATED")
  BY DEF Inv, Buried
<1>5. l \in Seq(Tcbs) /\ Path(l, ready.first, next) /\ ready.last = IF Len(l) = 0 THEN None ELSE l[Len(l)]
  BY <1>3 DEF Queued, Queue, Path
<1>6. /\ curTCB \notin Members(l) /\ curTCB \notin Members(d) /\ curTCB \notin Members(e)
      /\ Members(d) \subseteq Tcbs /\ Members(e) \subseteq Tcbs /\ Members(l) \subseteq Tcbs
  BY <1>2, <1>3, <1>4 DEF In
<1>7. terminatedTCB \in Tcbs \cup {None}
  <2>1. terminatedTCB # None => terminatedTCB \in Members(d)
    BY <1>4, NonePath
  <2> QED
    BY <2>1, <1>6
<1>8. next0 \in Nexts /\ \A x \in Tcbs \ {curTCB} : next0[x] = next[x]
  BY <1>2, <1>7 DEF Nexts
<1>9. /\ Path(<<curTCB>> \o d, curTCB, next0) /\ Members(<<curTCB>> \o d) = Members(d) \cup {curTCB}
  BY <1>2, <1>4, <1>6, PathCons
<1>10. Path(e, toRemove, next0)
  <2>1. \A x \in Members(e) : next0[x] = next[x]
    BY <1>6, <1>8
  <2> QED
    BY <1>4, <2>1, PathFrame
<1> HIDE DEF next0
<1>11. Queued(q0, l) /\ q0.next = next0
  <2>1. \A x \in Members(l) : next0[x] = next[x]
    BY <1>6, <1>8
  <2>2. Path(l, ready.first, next0)
    BY <1>5, <2>1, PathFrame
  <2>3. q0.first = ready.first /\ q0.last = ready.last /\ q0.next = next0
    BY DEF Queue
  <2> QED
    BY <1>5, <2>2, <2>3 DEF Queued
<1> HIDE DEF q0
(* The parent, if there is one, waits for this thread and no other.        *)
<1>12. parent # None => /\ parent \in live /\ state[parent] = "CHILDWAIT"
                        /\ Kids(live, state, waiting, parent) = {curTCB}
                        /\ parent \notin {curTCB, Cleaner}
  <2> SUFFICES ASSUME parent # None
               PROVE  /\ parent \in live /\ state[parent] = "CHILDWAIT"
                      /\ Kids(live, state, waiting, parent) = {curTCB}
                      /\ parent \notin {curTCB, Cleaner}
    OBVIOUS
  <2>1. parent \in live
    BY <1>2 DEF Inv, Family
  <2>2. curTCB \in Kids(live, state, waiting, parent)
    BY <1>2 DEF Kids
  <2>3. state[parent] = "CHILDWAIT" /\ \E c : Kids(live, state, waiting, parent) = {c}
    BY <2>1, <2>2 DEF Inv, Family
  <2>4. Kids(live, state, waiting, parent) = {curTCB}
    BY <2>2, <2>3
  <2>5. parent # Cleaner
    BY <1>2, <2>3 DEF Inv, Placed
  <2> QED
    BY <1>2, <2>1, <2>3, <2>4, <2>5
<1>13. \A x \in live : Kids(live, state, waiting, x) \ {curTCB} =
          IF x = parent THEN {} ELSE Kids(live, state, waiting, x)
  BY <1>2, <1>12 DEF Kids
<1> HIDE DEF parent
<1>14. /\ Queued(q1, l \o v) /\ q1.next \in Nexts /\ v \in Seq(Tcbs) /\ Len(v) <= 1
       /\ Members(l \o v) = Members(l) \cup IF parent = None THEN {} ELSE {parent}
       /\ \A x \in Tcbs \ (Members(l) \cup {parent}) : q1.next[x] = next0[x]
  <2>1. CASE parent = None
    <3>1. v = <<>> /\ l \o <<>> = l /\ <<>> \in Seq(Tcbs) /\ Len(<<>>) <= 1 /\ q1 = q0
      BY <2>1, <1>5
    <3> QED
      BY <2>1, <3>1, <1>8, <1>11
  <2>2. CASE parent # None
    <3>1. parent \in Tcbs /\ (state[parent] = "READY" <=> parent \in Members(l)) /\ state[parent] # "READY"
      BY <2>2, <1>2, <1>3, <1>12 DEF In
    <3>2. v = Joins(state, parent) /\ q1 = Woken(q0, state, parent) /\ Joins(state, parent) = <<parent>>
      BY <2>2, <3>1 DEF Joins
    <3>3. /\ Queued(q1, l \o v) /\ q1.next \in Nexts
          /\ Members(l \o v) = Members(l) \cup {parent}
          /\ \A x \in Tcbs \ (Members(l) \cup {parent}) : q1.next[x] = q0.next[x]
      BY <3>1, <3>2, <1>8, <1>11, WokenIs
    <3>4. v \in Seq(Tcbs) /\ Len(v) <= 1
      BY <3>1, <3>2
    <3> QED
      BY <2>2, <3>3, <3>4, <1>11
  <2> QED
    BY <2>1, <2>2
<1> HIDE DEF q1, v
<1>15. \A x \in Tcbs : s1[x] = IF parent # None /\ x = parent THEN "READY" ELSE state[x]
  BY <1>2, <1>12
<1>16. s1 \in [Tcbs -> States]
  BY <1>2 DEF States
<1> HIDE DEF s1
<1>17. \A x \in Tcbs : st[x] = IF x = curTCB THEN "TERMINATED" ELSE IF x = Cleaner THEN "READY" ELSE s1[x]
  BY <1>2, <1>16
<1>18. st \in [Tcbs -> States]
  BY <1>16 DEF States
<1>19. s1[Cleaner] = state[Cleaner] /\ (s1[Cleaner] = "READY" <=> Cleaner \in Members(l \o v))
  <2>1. s1[Cleaner] = state[Cleaner]
    BY <1>2, <1>12, <1>15
  <2> QED
    BY <2>1, <1>2, <1>3, <1>12, <1>14 DEF In
<1>20. /\ Queued(q2, (l \o v) \o Joins(s1, Cleaner)) /\ q2.next \in Nexts
       /\ Members((l \o v) \o Joins(s1, Cleaner)) = Members(l \o v) \cup {Cleaner}
       /\ \A x \in Tcbs \ (Members(l \o v) \cup {Cleaner}) : q2.next[x] = q1.next[x]
  BY <1>2, <1>14, <1>19, WokenIs
<1>21. w \in Seq(Tcbs) /\ Len(w) <= 2 /\ (l \o v) \o Joins(s1, Cleaner) = l \o w
  BY <1>2, <1>5, <1>14, ThreeJoined
<1> HIDE DEF q2, st, w
<1>22. \A x \in live :
         st[x] = IF x = curTCB THEN "TERMINATED"
                 ELSE IF x = Cleaner \/ (parent # None /\ x = parent) THEN "READY" ELSE state[x]
  BY <1>2, <1>15, <1>17
<1>23. /\ state[Cleaner] \in {"READY", "PAUSED"}
       /\ \A x \in live \ {curTCB} : state[x] # "RUNNING"
  <2>1. \A x \in live \ {curTCB} : state[x] # "RUNNING"
    BY DEF Inv, OneRuns
  <2>2. state[Cleaner] \in States /\ state[Cleaner] # "RUNNING"
    BY <1>2, <2>1
  <2> QED
    BY <1>2, <2>1, <2>2 DEF Inv, Placed, States
<1>24. Members(l \o w) = {x \in live' : st[x] = "READY"}
  <2>1. Members(l \o w) = In("READY") \cup (IF parent = None THEN {} ELSE {parent}) \cup {Cleaner}
    BY <1>3, <1>14, <1>20, <1>21
  <2>2. In("READY") = {x \in live : state[x] = "READY"} /\ curTCB \notin In("READY")
    BY <1>2 DEF In
  <2>3. (IF parent = None THEN {} ELSE {parent}) \cup {Cleaner} = {x \in live : x = Cleaner \/ (parent # None /\ x = parent)}
    BY <1>2, <1>12
  <2>4. parent # None => parent # curTCB
    BY <1>12
  <2>5. \A x \in live : st[x] = "READY" <=> \/ state[x] = "READY"
                                            \/ x = Cleaner \/ (parent # None /\ x = parent)
    BY <1>2, <1>22, <2>4
  <2> QED
    BY <1>1, <2>1, <2>2, <2>3, <2>5
<1>25. {x \in live' : st[x] = "TERMINATED"} = In("TERMINATED") \cup {curTCB}
  <2>1. \A x \in live : st[x] = "TERMINATED" <=> state[x] = "TERMINATED" \/ x = curTCB
    BY <1>12, <1>22, <1>23
  <2> QED
    BY <1>1, <1>2, <2>1 DEF In
<1>26. Buried(terminatedTCB', toRemove', q2.next, {x \in live' : st[x] = "TERMINATED"})
  <2> DEFINE S == In("TERMINATED") \cup {curTCB}
  <2>1. Buried(curTCB, toRemove, next0, S)
    <3>1. /\ Members(<<curTCB>> \o d) \cap Members(e) = {}
          /\ Members(<<curTCB>> \o d) \cup Members(e) = S
      BY <1>4, <1>6, <1>9
    <3> QED
      BY <1>9, <1>10, <3>1 DEF Buried
  <2>2. \A x \in S : q2.next[x] = next0[x]
    <3>1. \A x \in S : x \in Tcbs /\ x \notin Members(l) /\ x # Cleaner /\ (parent # None => x # parent)
      BY <1>2, <1>3, <1>12, <1>23 DEF In
    <3>2. \A x \in S : x # parent
      BY <3>1, <1>2
    <3> QED
      BY <3>1, <3>2, <1>14, <1>20
  <2> HIDE DEF S
  <2>3. Buried(curTCB, toRemove, q2.next, S)
    BY <2>1, <2>2, BuriedFrame
  <2> QED
    BY <1>1, <1>25, <2>3 DEF S
<1>27. Family(live', st, waiting')
  <2>1. \A x \in live : Kids(live, st, waiting, x) = IF x = parent THEN {} ELSE Kids(live, state, waiting, x)
    <3>1. \A x \in live : Kids(live, st, waiting, x) = Kids(live, state, waiting, x) \ {curTCB}
      <4>1. \A x \in live : st[x] # "TERMINATED" <=> state[x] # "TERMINATED" /\ x # curTCB
        BY <1>12, <1>22, <1>23
      <4> QED
        BY <4>1 DEF Kids
    <3> QED
      BY <3>1, <1>13
  <2>2. \A x \in live : st[x] = "CHILDWAIT" <=> state[x] = "CHILDWAIT" /\ x # parent
    <3>1. \A x \in live : x # None
      BY <1>2
    <3> QED
      BY <1>2, <1>22, <1>23, <3>1
  <2>3. \A c \in live : st[c] # "TERMINATED" /\ waiting[c] # None => waiting[c] \in live
    <3>1. \A x \in live : st[x] # "TERMINATED" => state[x] # "TERMINATED"
      BY <1>12, <1>22, <1>23
    <3> QED
      BY <3>1 DEF Inv, Family
  <2>4. \A x \in live : IF st[x] = "CHILDWAIT" THEN \E c : Kids(live, st, waiting, x) = {c}
                                               ELSE Kids(live, st, waiting, x) = {}
    BY <2>1, <2>2 DEF Inv, Family
  <2>5. ASSUME NEW S \in SUBSET {x \in live : st[x] = "CHILDWAIT"}, S # {}
        PROVE  \E x \in S : Kids(live, st, waiting, x) \cap S = {}
    <3>1. S \in SUBSET {x \in live : state[x] = "CHILDWAIT"} /\ parent \notin S
      BY <2>2
    <3>2. PICK x \in S : Kids(live, state, waiting, x) \cap S = {}
      BY <3>1, <2>5 DEF Inv, Family
    <3> QED
      BY <3>1, <3>2, <2>1
  <2> QED
    BY <1>1, <2>3, <2>4, <2>5 DEF Family
<1>28. Placed(live', st, waiting', pc')
  <2>1. \A x \in live : /\ st[x] = "CHILDWAIT" => state[x] = "CHILDWAIT"
                        /\ st[x] = "TERMINATED" => state[x] = "TERMINATED" \/ x = curTCB
                        /\ st[x] = "PAUSED" => state[x] = "PAUSED"
    BY <1>22
  <2> QED
    BY <1>1, <2>1 DEF Inv, Placed
<1>29. Handed(q2, st)
  <2>1. \A x \in live' : st[x] = "RUNNING" => x = curTCB
    BY <1>1, <1>22, <1>23
  <2>2. /\ st[curTCB] # "READY" /\ curPCB = pcb'[curTCB] /\ space = pcb'[curTCB]
    BY <1>1, <1>2, <1>22 DEF Inv, RightSpace
  <2>3. Cleaning(pc', toRemove') /\ Guarded(live', pc', fatMutex')
    BY <1>1 DEF Inv
  <2>4. /\ live' \subseteq Tcbs /\ curTCB \in live' /\ Types /\ waiting' \in Nexts /\ pcb' \in Nexts
        /\ pc' \in [Tcbs -> Places] /\ saved' \in [Tcbs -> BOOLEAN] /\ fatMutex' \in BOOLEAN
    BY <1>1 DEF Inv, Types
  <2> QED
    BY <1>18, <1>20, <1>26, <1>27, <1>28, <2>1, <2>2, <2>3, <2>4 DEF Handed
<1>30. Len(l \o w) # 0
  <2>1. Cleaner \in Members(l \o w) /\ l \o w \in Seq(Tcbs)
    BY <1>5, <1>20, <1>21
  <2>2. PICK k \in 1 .. Len(l \o w) : Cleaner = (l \o w)[k]
    BY <2>1, MembersOf
  <2> QED
    BY <2>2
<1>31. Over(l, q2, st, w, FALSE)
  BY <1>1, <1>20, <1>21, <1>24, <1>29, <1>30 DEF Over
<1> QED
  BY <1>3, <1>31, OverKept

-----------------------------------------------------------------------------
LEMMA InvInit == Init => Inv /\ Turns!Init
<1> SUFFICES ASSUME Init PROVE Inv /\ Turns!Init
  OBVIOUS
<1> DEFINE l == <<Cleaner>>
<1>1. /\ Main \in Tcbs /\ Cleaner \in Tcbs /\ Main # Cleaner /\ None \notin Tcbs
      /\ live = {Main, Cleaner} /\ curTCB = Main
      /\ ready = [first |-> Cleaner, last |-> Cleaner]
      /\ \A t \in Tcbs : /\ next[t] = None /\ waiting[t] = None /\ pcb[t] = None
                         /\ state[t] = IF t = Main THEN "RUNNING" ELSE "READY"
                         /\ pc[t] = IF t = Main THEN "boot" ELSE "start"
      /\ terminatedTCB = None /\ toRemove = None /\ curPCB = None /\ space = None
      /\ fatMutex = FALSE /\ irq = TRUE /\ halted = FALSE
  BY TcbAssumption DEF Init
<1>2. Types
  <2>1. next \in Nexts /\ waiting \in Nexts /\ pcb \in Nexts
    BY DEF Init, Nexts
  <2>2. state \in [Tcbs -> States] /\ pc \in [Tcbs -> Places]
    BY DEF Init, States, Places
  <2>3. eflags \in [Tcbs -> BOOLEAN] /\ saved \in [Tcbs -> BOOLEAN]
    BY DEF Init
  <2> QED
    BY <1>1, <2>1, <2>2, <2>3 DEF Types
<1>3. l \in Seq(Tcbs) /\ Len(l) = 1 /\ l[1] = Cleaner /\ 1 .. Len(l) = {1}
  BY <1>1
<1>4. Members(l) = {Cleaner}
  BY DEF Members
<1>5. In("READY") = {Cleaner} /\ In("TERMINATED") = {}
  BY <1>1 DEF In
<1> HIDE DEF l
<1>6. Path(l, Cleaner, next) /\ Queued(Queue, l)
  BY <1>1, <1>3 DEF Path, Queued, Queue
<1>7. Linked
  BY <1>4, <1>5, <1>6 DEF Linked
<1>8. Buried(terminatedTCB, toRemove, next, In("TERMINATED"))
  <2>1. Path(<<>>, None, next) /\ Members(<<>>) = {}
    BY EmptyPath
  <2> QED
    BY <1>1, <1>5, <2>1 DEF Buried
<1>9. Family(live, state, waiting)
  <2>1. \A p \in live : Kids(live, state, waiting, p) = {} /\ state[p] # "CHILDWAIT"
    BY <1>1 DEF Kids
  <2>2. \A c \in live : waiting[c] = None
    BY <1>1
  <2> QED
    BY <2>1, <2>2 DEF Family
<1>10. Placed(live, state, waiting, pc) /\ Cleaning(pc, toRemove)
  BY <1>1 DEF Placed, Cleaning
<1>11. Guarded(live, pc, fatMutex)
  BY <1>1 DEF Guarded, Holders
<1>12. OneRuns /\ RightSpace
  BY <1>1 DEF OneRuns, RightSpace
<1>13. Listed(ready.first) = l
  BY <1>6, QueueIs DEF QueueSays
<1>14. Turns!Init
  BY <1>1, <1>3, <1>13 DEF Turns!Init
<1> QED
  BY <1>2, <1>7, <1>8, <1>9, <1>10, <1>11, <1>12, <1>14 DEF Inv

LEMMA InvNext == Inv /\ [Next]_vars => Kept
<1> SUFFICES ASSUME Inv, [Next]_vars PROVE Kept
  OBVIOUS
<1>1. CASE UNCHANGED vars
  <2>1. /\ UNCHANGED <<live, state, waiting, pcb, ready, next, terminatedTCB, toRemove>>
        /\ UNCHANGED <<curTCB, curPCB, space, irq, eflags, halted, fatMutex, saved, pc>>
    BY <1>1 DEF vars, lists, blocks, cpu
  <2>2. Types' /\ Linked' /\ OneRuns' /\ RightSpace' /\ In("TERMINATED")' = In("TERMINATED")
    BY <2>1 DEF Inv, Types, Linked, OneRuns, RightSpace, Queue, In
  <2>3. Inv'
    BY <2>1, <2>2 DEF Inv
  <2> QED
    BY <2>1, <2>3, StaysKept
<1>2. CASE Timer \/ Start \/ InterruptsOff \/ InterruptsOn \/ WaitForKeystroke
  BY <1>2, InvTimer, InvStart, InvInterrupts, InvWaitForKeystroke
<1>3. CASE \E t \in Tcbs : CreateThread(t) \/ CreateThreadAndBlock(t)
  BY <1>3, InvCreateThread, InvCreateThreadAndBlock
<1>4. CASE LockMutex \/ LockAgain \/ UnlockMutex
  BY <1>4, InvLockMutex, InvLockAgain, InvUnlockMutex
<1>5. CASE LeaveProcess \/ TerminateThread
  BY <1>5, InvLeaveProcess, InvTerminateThread
<1>6. CASE CleanerTakes \/ CleanerFrees \/ CleanerPauses \/ CleanerSleeps
  BY <1>6, InvCleanerTakes, InvCleanerFrees, InvCleanerPauses, InvCleanerSleeps
<1> QED
  BY <1>1, <1>2, <1>3, <1>4, <1>5, <1>6 DEF Next

(* The invariant holds in every state.                                     *)
THEOREM AlwaysInv == Spec => []Inv
<1>1. Init => Inv
  BY InvInit
<1>2. Inv /\ [Next]_vars => Inv'
  BY InvNext DEF Kept
<1> QED
  BY <1>1, <1>2, PTL DEF Spec

(* The two lists: the ready threads are on the one, each once, and those   *)
(* that are dead on the other or on what the cleaner has taken of it.      *)
LEMMA ListsFollow == Inv => ThreadLists
<1> SUFFICES ASSUME Inv PROVE ThreadLists
  OBVIOUS
<1>1. PICK l : Queued(Queue, l) /\ Members(l) = In("READY")
  BY DEF Inv, Linked
<1>2. PICK d, e : /\ Path(d, terminatedTCB, next) /\ Path(e, toRemove, next)
                  /\ Members(d) \cap Members(e) = {} /\ Members(d) \cup Members(e) = In("TERMINATED")
  BY DEF Inv, Buried
<1>3. l \in Seq(Tcbs) /\ Path(l, ready.first, next) /\ ready.last = IF Len(l) = 0 THEN None ELSE l[Len(l)]
  BY <1>1 DEF Queued, Queue, Path
<1>4. Listed(ready.first) = l /\ Listed(terminatedTCB) = d /\ Listed(toRemove) = e
  BY <1>2, <1>3, ListedIs
<1>5. /\ (ready.first = None <=> Len(l) = 0)
      /\ ready.first # None => ready.first \in Members(l) /\ ready.last \in Members(l)
  <2>1. (ready.first = None <=> Len(l) = 0) /\ (ready.first # None => ready.first \in Members(l))
    BY <1>3, NonePath
  <2>2. Len(l) # 0 => l[Len(l)] \in Members(l)
    <3>1. Len(l) # 0 => Len(l) \in 1 .. Len(l)
      BY <1>3
    <3> QED
      BY <1>3, <3>1, MembersOf
  <2> QED
    BY <1>3, <2>1, <2>2
<1>6. /\ terminatedTCB # None => terminatedTCB \in In("TERMINATED")
      /\ toRemove # None => toRemove \in In("TERMINATED")
  BY <1>2, NonePath
<1>7. TypeOK
  <2>1. ready.first \in live \cup {None} /\ ready.last \in live \cup {None}
    BY <1>1, <1>3, <1>5 DEF In
  <2>2. terminatedTCB \in live \cup {None} /\ toRemove \in live \cup {None}
    BY <1>6 DEF In
  <2>3. ready \in [first : live \cup {None}, last : live \cup {None}]
    BY <2>1 DEF Inv, Types
  <2> QED
    BY <2>2, <2>3 DEF TypeOK, Inv, Types, Nexts
<1>8. ReadyList
  <2>1. Cardinality(Members(l)) = Len(l)
    BY <1>3, PathFinite
  <2> QED
    BY <1>1, <1>3, <1>4, <1>5, <2>1 DEF ReadyList, IsList
<1>9. DeadList
  <2> DEFINE m == d \o e
  <2>1. d \in Seq(Tcbs) /\ e \in Seq(Tcbs) /\ Len(d) \in Nat /\ Len(e) \in Nat
    BY <1>2 DEF Path
  <2>2. /\ m \in Seq(Tcbs) /\ Len(m) = Len(d) + Len(e)
        /\ \A k \in 1 .. Len(m) : m[k] = IF k <= Len(d) THEN d[k] ELSE e[k - Len(d)]
    BY <2>1
  <2> HIDE DEF m
  <2>3. ASSUME NEW x \in Members(m) PROVE x \in Members(d) \cup Members(e)
    <3>1. PICK k \in 1 .. Len(m) : x = m[k]
      BY <2>2, MembersOf
    <3>2. CASE k <= Len(d)
      <4>1. k \in 1 .. Len(d) /\ x = d[k]
        BY <3>1, <3>2, <2>1, <2>2
      <4> QED
        BY <4>1, <2>1, MembersOf
    <3>3. CASE ~(k <= Len(d))
      <4>1. k - Len(d) \in 1 .. Len(e) /\ x = e[k - Len(d)]
        BY <3>1, <3>3, <2>1, <2>2
      <4> QED
        BY <4>1, <2>1, MembersOf
    <3> QED
      BY <3>2, <3>3
  <2>4. ASSUME NEW x \in Members(d) PROVE x \in Members(m)
    <3>1. PICK k \in 1 .. Len(d) : x = d[k]
      BY <2>1, MembersOf
    <3>2. k \in 1 .. Len(m) /\ m[k] = x
      BY <3>1, <2>1, <2>2
    <3> QED
      BY <3>2, <2>2, MembersOf
  <2>5. ASSUME NEW x \in Members(e) PROVE x \in Members(m)
    <3>1. PICK k \in 1 .. Len(e) : x = e[k]
      BY <2>1, MembersOf
    <3>2. k + Len(d) \in 1 .. Len(m) /\ ~(k + Len(d) <= Len(d)) /\ (k + Len(d)) - Len(d) = k
      BY <3>1, <2>1, <2>2
    <3>3. m[k + Len(d)] = x
      BY <3>1, <3>2, <2>2
    <3> QED
      BY <3>2, <3>3, <2>2, MembersOf
  <2>6. Members(m) = In("TERMINATED")
    BY <2>3, <2>4, <2>5, <1>2
  <2>7. Cardinality(Members(d)) = Len(d) /\ Cardinality(Members(e)) = Len(e)
    BY <1>2, PathFinite
  <2>8. IsFiniteSet(Members(d)) /\ IsFiniteSet(Members(e))
    <3>1. Members(d) \subseteq Tcbs /\ Members(e) \subseteq Tcbs
      BY <2>1, MembersOf
    <3> QED
      BY <3>1, FS_Subset, TcbAssumption
  <2>9. Cardinality(In("TERMINATED")) = Len(m)
    <3>1. Cardinality(Members(d) \cup Members(e)) = Cardinality(Members(d))
            + Cardinality(Members(e)) - Cardinality(Members(d) \cap Members(e))
      BY <2>8, FS_Union
    <3>2. Members(d) \cap Members(e) = {} /\ Cardinality({}) = 0
      BY <1>2, FS_EmptySet
    <3>3. Cardinality(In("TERMINATED")) = Len(d) + Len(e) - 0
      BY <1>2, <2>7, <3>1, <3>2
    <3> QED
      BY <2>1, <2>2, <3>3
  <2> QED
    BY <1>4, <2>6, <2>9 DEF DeadList, IsList, m
<1> QED
  BY <1>7, <1>8, <1>9 DEF ThreadLists

(* In every state the ready list holds exactly the READY threads, each     *)
(* once, and the two lists of the cleaner those that have terminated and   *)
(* are not freed (addThread, schedule, terminateThread,                    *)
(* cleanTerminatedThreads).                                                *)
THEOREM ListsAreSound == Spec => []ThreadLists
BY AlwaysInv, ListsFollow, PTL

(* At most one thread is inside the FAT code, and it is READY or RUNNING   *)
(* (lockMutex, unlockMutex).                                               *)
THEOREM MutexIsExclusive == Spec => []MutualExclusion
<1>1. Inv => MutualExclusion
  <2> SUFFICES ASSUME Inv PROVE MutualExclusion
    OBVIOUS
  <2>1. {t \in live : pc[t] = "crit"} \subseteq In("RUNNING") \cup In("READY")
    <3>1. \A t \in live : t \in Tcbs /\ state[t] \in States
      BY DEF Inv, Types
    <3>2. \A t \in live : pc[t] = "crit" => state[t] \notin {"CHILDWAIT", "TERMINATED", "PAUSED"}
      BY DEF Inv, Placed
    <3> QED
      BY <3>1, <3>2 DEF States, In
  <2>2. CASE fatMutex
    <3>1. PICK t : Holders(live, pc) = {t}
      BY <2>2 DEF Inv, Guarded
    <3>2. Cardinality({t}) = 1
      BY FS_Singleton
    <3> QED
      BY <2>1, <2>2, <3>1, <3>2 DEF MutualExclusion, Holders
  <2>3. CASE ~fatMutex
    <3>1. Holders(live, pc) = {}
      BY <2>3 DEF Inv, Guarded
    <3>2. Cardinality({}) = 0
      BY FS_EmptySet
    <3> QED
      BY <2>1, <2>3, <3>1, <3>2 DEF MutualExclusion, Holders
  <2> QED
    BY <2>2, <2>3
<1> QED
  BY <1>1, AlwaysInv, PTL

(* schedule() never comes to its "No active threads".                      *)
THEOREM SchedulerNeverHalts == Spec => []NeverHalts
<1>1. Inv => NeverHalts
  BY DEF Inv, Types, NeverHalts
<1> QED
  BY <1>1, AlwaysInv, PTL

(* A thread that waits for a child has exactly one that will wake it, and  *)
(* no other thread will be woken (createThreadAndBlock, terminateThread).  *)
THEOREM ParentsAreWoken == Spec => []ParentsWait
<1>1. Inv => ParentsWait
  <2> SUFFICES ASSUME Inv, NEW p \in live
               PROVE Cardinality(Kids(live, state, waiting, p))
                       = IF state[p] = "CHILDWAIT" THEN 1 ELSE 0
    BY DEF ParentsWait, Kids
  <2>1. CASE state[p] = "CHILDWAIT"
    <3>1. PICK c : Kids(live, state, waiting, p) = {c}
      BY <2>1 DEF Inv, Family
    <3>2. Cardinality({c}) = 1
      BY FS_Singleton
    <3> QED
      BY <2>1, <3>1, <3>2
  <2>2. CASE state[p] # "CHILDWAIT"
    <3>1. Kids(live, state, waiting, p) = {}
      BY <2>2 DEF Inv, Family
    <3>2. Cardinality({}) = 0
      BY FS_EmptySet
    <3> QED
      BY <2>2, <3>1, <3>2
  <2> QED
    BY <2>1, <2>2
<1> QED
  BY <1>1, AlwaysInv, PTL

(* The running thread is in its own address space, its process in curPCB.  *)
THEOREM SpaceIsRight == Spec => []RightSpace
<1>1. Inv => RightSpace
  BY DEF Inv
<1> QED
  BY <1>1, AlwaysInv, PTL

(* The linked list, popped at its head and appended to at its end by       *)
(* schedule() and addThread, implements the queue of RoundRobin.           *)
THEOREM ImplementsRoundRobin == Spec => RoundRobinTurns
<1>1. Init => Turns!Init
  BY InvInit
<1>2. Inv /\ [Next]_vars => [Turns!Next]_(Turns!turns)
  BY InvNext DEF Kept, Turn, Turns!turns
<1> QED
  BY <1>1, <1>2, AlwaysInv, PTL DEF Spec, RoundRobinTurns, Turns!Spec
=============================================================================

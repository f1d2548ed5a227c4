---------------------------- MODULE FatDir_proofs ----------------------------
(***************************************************************************)
(* Proofs about the directory, for every set of names, every length of     *)
(* long names, every checksum and every size of sectors, clusters and      *)
(* root: outside the slips the slots stay a directory, a name finds its    *)
(* entry and no other, clusters have one owner, and the calls do what      *)
(* Directory promises.                                                     *)
(***************************************************************************)
EXTENDS FatDir, Counting

-----------------------------------------------------------------------------
(* Least and greatest members.                                             *)
LEMMA MinIn ==
  ASSUME NEW S \in SUBSET Nat, S # {}
  PROVE  Min(S) \in S /\ \A y \in S : Min(S) <= y
<1>1. PICK m \in S : \A y \in S : m <= y
  BY LeastNumber
<1> QED
  BY <1>1 DEF Min

LEMMA MinIs ==
  ASSUME NEW S \in SUBSET Nat, NEW x \in S, \A y \in S : x <= y
  PROVE  Min(S) = x
<1>1. Min(S) \in S /\ Min(S) <= x
  BY MinIn
<1>2. Min(S) \in Nat /\ x \in Nat /\ x <= Min(S)
  BY <1>1
<1> QED
  BY <1>1, <1>2

LEMMA NewestIs ==
  ASSUME NEW S \in SUBSET Nat, NEW x \in S, \A y \in S : y <= x
  PROVE  Newest(S) = x
<1> DEFINE T == S \cup {0}
           m == CHOOSE z \in T : \A y \in T : z >= y
<1>1. x \in T /\ \A y \in T : x >= y
  OBVIOUS
<1>2. m \in T /\ \A y \in T : m >= y
  BY <1>1
<1>3. T \subseteq Nat
  OBVIOUS
<1>4. m = x
  <2> HIDE DEF T, m
  <2>1. m \in Nat /\ x \in Nat /\ m >= x /\ x >= m
    BY <1>1, <1>2, <1>3
  <2> QED
    BY <2>1
<1> QED
  BY <1>4 DEF Newest, Max

LEMMA NewestIn ==
  ASSUME NEW n \in Nat, NEW S \in SUBSET (0 .. n)
  PROVE  /\ Newest(S) \in S \cup {0}
         /\ \A y \in S : y <= Newest(S)
<1> DEFINE T == S \cup {0}
           D == {d \in 0 .. n : n - d \in T}
<1>1. n - 0 \in Nat /\ n \in D /\ D \in SUBSET Nat
  OBVIOUS
<1>2. PICK d \in D : \A e \in D : d <= e
  BY <1>1, LeastNumber
<1>3. ASSUME NEW y \in T PROVE n - d >= y
  <2>1. n - y \in 0 .. n /\ n - (n - y) = y
    OBVIOUS
  <2> QED
    BY <1>2, <2>1
<1>4. n - d \in T
  BY <1>2
<1>5. \E x \in T : \A y \in T : x >= y
  BY <1>3, <1>4
<1> QED
  BY <1>5 DEF Newest, Max

-----------------------------------------------------------------------------
(* What a row of slots sl is made of, and when it is sound: SlotsSound in  *)
(* named parts, and no long name twice.                                    *)
Texts == {n \in Names : n.tag # "short"}
Piece(short, k, n) ==
  [tag |-> "lfn", ord |-> k, first |-> k = PiecesOf(n), sum |-> Checksum[short], text |-> n]
EntrySlots == [tag : {"entry"}, name : ShortNames, start : Clusters \cup {NoCluster}, dir : BOOLEAN]
PieceSlots == {Piece(s, k, n) : s \in ShortNames, k \in Nat \ {0}, n \in Texts}
Slots == {End, Deleted} \cup EntrySlots \cup PieceSlots

LongAt(sl, i) == IF i > 1 /\ Is(sl, i - 1, "lfn") THEN sl[i - 1].text ELSE NoText
Length(sl, i) == IF LongAt(sl, i) = NoText THEN 0 ELSE PiecesOf(LongAt(sl, i))

EndsLast(sl) == \A i, j \in DOMAIN sl : i < j /\ Is(sl, i, "end") => Is(sl, j, "end")
Whole(sl) ==
  \A i \in Entries(sl) : \A k \in 1 .. Length(sl, i) :
    k < i /\ sl[i - k] = Piece(sl[i].name, k, LongAt(sl, i))
NamesDiffer(sl) == \A i, j \in Entries(sl) : sl[i].name = sl[j].name => i = j
TextsDiffer(sl) ==
  \A i, j \in Entries(sl) :
    LongAt(sl, i) = LongAt(sl, j) /\ LongAt(sl, i) # NoText /\ LongAt(sl, i).tag = "long" => i = j
NoOrphan(sl) ==
  \A i \in DOMAIN sl : Is(sl, i, "lfn") =>
    /\ i + sl[i].ord \in Entries(sl)
    /\ sl[i].ord <= PiecesOf(sl[i].text) /\ LongAt(sl, i + sl[i].ord) = sl[i].text
Sound(sl) ==
  sl \in Seq(Slots) /\ EndsLast(sl) /\ Whole(sl) /\ NamesDiffer(sl) /\ TextsDiffer(sl) /\ NoOrphan(sl)

(* What a slot is, by its tag.                                             *)
LEMMA SlotKinds ==
  ASSUME NEW sl \in Seq(Slots), NEW i \in DOMAIN sl
  PROVE  /\ i \in Nat \ {0} /\ i <= Len(sl) /\ sl[i] \in Slots
         /\ Is(sl, i, "end") <=> sl[i] = End
         /\ Is(sl, i, "deleted") <=> sl[i] = Deleted
         /\ Is(sl, i, "entry") <=> sl[i] \in EntrySlots
         /\ Is(sl, i, "lfn") =>
              \E s \in ShortNames, k \in Nat \ {0}, n \in Texts : sl[i] = Piece(s, k, n)
<1>1. i \in 1 .. Len(sl) /\ Len(sl) \in Nat /\ sl[i] \in Slots
  OBVIOUS
<1>2. \A x \in EntrySlots : x.tag = "entry"
  BY DEF EntrySlots
<1>3. \A x \in PieceSlots : x.tag = "lfn"
  BY DEF PieceSlots, Piece
<1>4. End.tag = "end" /\ Deleted.tag = "deleted"
  BY DEF End, Deleted
<1> QED
  BY <1>1, <1>2, <1>3, <1>4 DEF Slots, Is, PieceSlots

LEMMA TextFacts ==
  ASSUME NEW n \in Texts
  PROVE  n \in Names /\ n # NoText /\ PiecesOf(n) \in Nat \ {0}
         /\ n.tag \in {"long", "mixed"} /\ required_free(n) = PiecesOf(n) + 1
BY DirAssumption DEF Texts, PiecesOf, required_free

LEMMA PieceFields ==
  \A s, k, n : LET x == Piece(s, k, n) IN
    x.tag = "lfn" /\ x.ord = k /\ x.text = n /\ x.sum = Checksum[s] /\ x.first = (k = PiecesOf(n))
BY DEF Piece

LEMMA PieceFacts ==
  ASSUME NEW sl \in Seq(Slots), NEW i \in DOMAIN sl, Is(sl, i, "lfn")
  PROVE  /\ sl[i].ord \in Nat \ {0} /\ sl[i].text \in Texts
         /\ sl[i].first = (sl[i].ord = PiecesOf(sl[i].text))
         /\ i + sl[i].ord \in Nat
<1>1. PICK s \in ShortNames, k \in Nat \ {0}, n \in Texts : sl[i] = Piece(s, k, n)
  BY SlotKinds
<1> QED
  BY <1>1, SlotKinds DEF Piece

(* The pieces of a long name stand in the slots before its entry.          *)
LEMMA BlockFacts ==
  ASSUME NEW sl, Sound(sl), NEW i \in Entries(sl), LongAt(sl, i) # NoText
  PROVE  /\ LongAt(sl, i) \in Texts
         /\ Length(sl, i) = PiecesOf(LongAt(sl, i)) /\ Length(sl, i) \in Nat \ {0}
         /\ Length(sl, i) < i
         /\ \A k \in 1 .. Length(sl, i) :
              /\ i - k \in DOMAIN sl /\ Is(sl, i - k, "lfn")
              /\ sl[i - k] = Piece(sl[i].name, k, LongAt(sl, i))
<1>1. i \in DOMAIN sl /\ i \in Nat \ {0} /\ i <= Len(sl) /\ sl \in Seq(Slots) /\ Len(sl) \in Nat
  BY SlotKinds DEF Sound, Entries
<1>2. i > 1 /\ Is(sl, i - 1, "lfn") /\ i - 1 \in DOMAIN sl /\ LongAt(sl, i) = sl[i - 1].text
  BY <1>1 DEF LongAt
<1>3. LongAt(sl, i) \in Texts
  BY <1>1, <1>2, PieceFacts
<1>4. Length(sl, i) = PiecesOf(LongAt(sl, i)) /\ Length(sl, i) \in Nat \ {0}
  BY <1>3, TextFacts DEF Length
<1>5. \A k \in 1 .. Length(sl, i) : k < i /\ sl[i - k] = Piece(sl[i].name, k, LongAt(sl, i))
  BY DEF Sound, Whole
<1>6. \A k \in 1 .. Length(sl, i) : i - k \in DOMAIN sl /\ Is(sl, i - k, "lfn")
  <2> SUFFICES ASSUME NEW k \in 1 .. Length(sl, i) PROVE i - k \in DOMAIN sl /\ Is(sl, i - k, "lfn")
    OBVIOUS
  <2>1. i - k \in 1 .. Len(sl) /\ DOMAIN sl = 1 .. Len(sl)
    BY <1>1, <1>4, <1>5
  <2>2. sl[i - k].tag = "lfn"
    BY <1>5, PieceFields
  <2> QED
    BY <2>1, <2>2 DEF Is
<1> QED
  BY <1>3, <1>4, <1>5, <1>6

(* A piece is one of those before the entry it counts up to.               *)
LEMMA OwnerFacts ==
  ASSUME NEW sl, Sound(sl), NEW j \in DOMAIN sl, Is(sl, j, "lfn")
  PROVE  LET i == j + sl[j].ord IN
         /\ i \in Entries(sl) /\ i \in Nat /\ j < i /\ i - sl[j].ord = j
         /\ LongAt(sl, i) = sl[j].text /\ LongAt(sl, i) # NoText
         /\ sl[j].ord \in 1 .. Length(sl, i)
         /\ sl[j] = Piece(sl[i].name, sl[j].ord, LongAt(sl, i))
<1> DEFINE o == sl[j].ord
           i == j + o
<1>1. j \in Nat \ {0} /\ o \in Nat \ {0} /\ sl[j].text \in Texts
  BY SlotKinds, PieceFacts DEF Sound
<1>2. i \in Entries(sl) /\ o <= PiecesOf(sl[j].text) /\ LongAt(sl, i) = sl[j].text
  BY DEF Sound, NoOrphan
<1>3. sl[j].text # NoText
  BY <1>1, TextFacts
<1>4. Length(sl, i) = PiecesOf(sl[j].text) /\ Length(sl, i) \in Nat
  BY <1>2, <1>3, BlockFacts
<1>5. o \in 1 .. Length(sl, i) /\ i - o = j /\ i \in Nat /\ j < i
  BY <1>1, <1>2, <1>4
<1>6. sl[i - o] = Piece(sl[i].name, o, LongAt(sl, i))
  BY <1>2, <1>3, <1>5, BlockFacts
<1> QED
  BY <1>2, <1>3, <1>5, <1>6

(* What is read last before an entry with a long name is that name.        *)
LEMMA ReadLast ==
  ASSUME NEW sl, Sound(sl), NEW i \in Entries(sl), LongAt(sl, i) # NoText
  PROVE  /\ LfnStart(sl, i) = i - Length(sl, i) /\ LfnStart(sl, i) \in DOMAIN sl
         /\ SumFits(sl, i)
         /\ \A k \in 1 .. Length(sl, i) : Newest({h \in Before(sl, i) : sl[h].ord = k}) = i - k
<1> DEFINE m == Length(sl, i)
<1>1. i \in Nat \ {0} /\ i <= Len(sl) /\ sl \in Seq(Slots) /\ Len(sl) \in Nat /\ DOMAIN sl = 1 .. Len(sl)
  BY SlotKinds DEF Sound, Entries
<1>2. m \in Nat \ {0} /\ m < i /\ m = PiecesOf(LongAt(sl, i))
  BY BlockFacts
<1>3. \A k \in 1 .. m : /\ i - k \in 1 .. i - 1 /\ Is(sl, i - k, "lfn") /\ sl[i - k].ord = k
                        /\ sl[i - k].first = (k = m) /\ sl[i - k].sum = Checksum[sl[i].name]
  <2> SUFFICES ASSUME NEW k \in 1 .. m
               PROVE  /\ i - k \in 1 .. i - 1 /\ Is(sl, i - k, "lfn") /\ sl[i - k].ord = k
                      /\ sl[i - k].first = (k = m) /\ sl[i - k].sum = Checksum[sl[i].name]
    OBVIOUS
  <2>1. sl[i - k] = Piece(sl[i].name, k, LongAt(sl, i)) /\ Is(sl, i - k, "lfn")
    BY BlockFacts
  <2>2. i - k \in 1 .. i - 1
    BY <1>1, <1>2
  <2> QED
    BY <1>2, <2>1, <2>2, PieceFields
<1>4. \A h \in 1 .. i - 1 : h > i - m => i - h \in 1 .. m /\ i - (i - h) = h /\ i - h < m
  BY <1>1, <1>2
<1>5. Newest({h \in 1 .. i - 1 : Is(sl, h, "lfn") /\ sl[h].first}) = i - m
  <2> DEFINE S == {h \in 1 .. i - 1 : Is(sl, h, "lfn") /\ sl[h].first}
  <2>1. i - m \in S
    <3>1. m \in 1 .. m
      BY <1>2
    <3> QED
      BY <1>3, <3>1
  <2>2. ASSUME NEW h \in S PROVE h <= i - m
    <3> SUFFICES ASSUME h > i - m PROVE FALSE
      BY <1>1, <1>2
    <3>1. i - h \in 1 .. m /\ i - (i - h) = h /\ i - h < m
      BY <1>4
    <3>2. sl[i - (i - h)].first = (i - h = m)
      BY <1>3, <3>1
    <3>3. i - h # m
      BY <1>2, <3>1
    <3>4. sl[h].first
      OBVIOUS
    <3> QED
      BY <3>1, <3>2, <3>3, <3>4
  <2> HIDE DEF S
  <2>3. S \in SUBSET Nat
    BY DEF S
  <2> QED
    BY <2>1, <2>2, <2>3, NewestIs DEF S
<1>6. ASSUME NEW k \in 1 .. m PROVE Newest({h \in Before(sl, i) : sl[h].ord = k}) = i - k
  <2> DEFINE S == {h \in Before(sl, i) : sl[h].ord = k}
  <2>1. i - k \in S
    BY <1>3 DEF Before
  <2>2. ASSUME NEW h \in S PROVE h <= i - k
    <3> SUFFICES ASSUME h > i - k PROVE FALSE
      BY <1>1, <1>2 DEF Before
    <3>1. h \in 1 .. i - 1 /\ h > i - m
      BY <1>1, <1>2 DEF Before
    <3>2. i - h \in 1 .. m /\ i - (i - h) = h /\ i - h < k
      BY <1>1, <1>2, <1>4, <3>1
    <3>3. sl[i - (i - h)].ord = i - h
      BY <1>3, <3>2
    <3> QED
      BY <3>2, <3>3
  <2> HIDE DEF S
  <2>3. S \in SUBSET Nat
    BY DEF S, Before
  <2> QED
    BY <2>1, <2>2, <2>3, NewestIs DEF S
<1>7. Newest(Before(sl, i)) = i - 1
  <2>1. i - 1 \in Before(sl, i)
    BY <1>2, <1>3 DEF Before
  <2>2. Before(sl, i) \in SUBSET Nat /\ \A h \in Before(sl, i) : h <= i - 1
    BY <1>1 DEF Before
  <2> QED
    BY <2>1, <2>2, NewestIs
<1>8. SumFits(sl, i)
  <2>1. i - 1 \in Before(sl, i) /\ sl[i - 1].sum = Checksum[sl[i].name]
    BY <1>2, <1>3 DEF Before
  <2> QED
    BY <1>7, <2>1 DEF SumFits
<1>9. LfnStart(sl, i) = i - m
  BY <1>5 DEF LfnStart
<1>10. i - m \in DOMAIN sl
  BY <1>1, <1>2
<1> QED
  BY <1>6, <1>8, <1>9, <1>10

(* A slot between a piece and its entry is no entry.                       *)
LEMMA NoneBetween ==
  ASSUME NEW sl, Sound(sl), NEW f \in DOMAIN sl, Is(sl, f, "lfn"), NEW i \in Entries(sl),
         f < i, i <= f + sl[f].ord
  PROVE  i = f + sl[f].ord
<1> DEFINE e == f + sl[f].ord
<1>1. /\ e \in Entries(sl) /\ e \in Nat /\ sl[f].ord \in 1 .. Length(sl, e)
      /\ e - sl[f].ord = f /\ LongAt(sl, e) # NoText
  BY OwnerFacts
<1>2. Length(sl, e) \in Nat /\ f \in Nat /\ sl[f].ord \in Nat /\ i \in Nat
  BY <1>1, BlockFacts, SlotKinds DEF Sound, Entries
<1> SUFFICES ASSUME i < e PROVE FALSE
  BY <1>1, <1>2
<1>3. e - i \in 1 .. Length(sl, e) /\ e - (e - i) = i
  BY <1>1, <1>2
<1>4. Is(sl, i, "lfn")
  BY <1>1, <1>3, BlockFacts
<1> QED
  BY <1>4 DEF Entries, Is

(* What an entry is taken to consist of is what it does consist of, unless *)
(* a checksum that fits misleads.                                          *)
LEMMA TakenIs ==
  ASSUME NEW sl, Sound(sl), NEW i \in Entries(sl), ~Misled(sl, i)
  PROVE  TakenAt(sl, i) = i - Length(sl, i) .. i /\ TakenText(sl, i) = LongAt(sl, i)
<1>1. i \in Nat \ {0} /\ i <= Len(sl) /\ sl \in Seq(Slots) /\ Len(sl) \in Nat /\ DOMAIN sl = 1 .. Len(sl)
  BY SlotKinds DEF Sound, Entries
<1>2. CASE LongAt(sl, i) # NoText
  <2> DEFINE m == Length(sl, i)
  <2>1. m = PiecesOf(LongAt(sl, i)) /\ m \in Nat \ {0} /\ m < i
    BY <1>2, BlockFacts
  <2>2. LfnStart(sl, i) = i - m /\ SumFits(sl, i)
    BY <1>2, ReadLast
  <2>3. sl[i - m].text = LongAt(sl, i)
    <3>1. m \in 1 .. m
      BY <2>1
    <3>2. sl[i - m] = Piece(sl[i].name, m, LongAt(sl, i))
      BY <1>2, <3>1, BlockFacts
    <3> QED
      BY <3>2, PieceFields
  <2>4. TakenText(sl, i) = LongAt(sl, i)
    BY <1>1, <2>1, <2>2, <2>3 DEF TakenText
  <2> QED
    BY <1>1, <1>2, <2>1, <2>2, <2>4 DEF TakenAt
<1>3. CASE LongAt(sl, i) = NoText
  <2>1. CASE TakenText(sl, i) = NoText
    BY <1>1, <1>3, <2>1 DEF TakenAt, Length
  <2>2. CASE TakenText(sl, i) # NoText
    <3> DEFINE S == {j \in 1 .. i - 1 : Is(sl, j, "lfn") /\ sl[j].first}
               f == LfnStart(sl, i)
    <3>1. f # 0 /\ TakenText(sl, i) = sl[f].text
      BY <2>2 DEF TakenText
    <3>2. f \in S
      <4>1. S \in SUBSET (0 .. i)
        BY <1>1
      <4>2. Newest(S) \in S \cup {0}
        BY <1>1, <4>1, NewestIn
      <4> QED
        BY <3>1, <4>2 DEF LfnStart
    <3>3. f \in DOMAIN sl /\ Is(sl, f, "lfn") /\ f < i /\ sl[f].ord = PiecesOf(sl[f].text)
      <4>1. f \in 1 .. i - 1 /\ Is(sl, f, "lfn") /\ sl[f].first
        BY <3>2
      <4>2. f \in DOMAIN sl /\ f < i
        BY <1>1, <4>1
      <4>3. sl[f].first = (sl[f].ord = PiecesOf(sl[f].text))
        BY <1>1, <4>1, <4>2, PieceFacts
      <4> QED
        BY <4>1, <4>2, <4>3
    <3>4. i \in f .. f + sl[f].ord
      BY <2>2, <3>1, <3>3 DEF Misled, TakenAt
    <3>5. i = f + sl[f].ord
      BY <3>3, <3>4, NoneBetween
    <3> QED
      BY <1>3, <3>3, <3>5, OwnerFacts
  <2> QED
    BY <2>1, <2>2
<1> QED
  BY <1>2, <1>3

(* The search finds a long name at the entry it stands before.             *)
LEMMA LongFound ==
  ASSUME NEW sl, Sound(sl), NEW i \in Entries(sl), NEW n \in Texts
  PROVE  HasLongName(sl, i, n) <=> LongAt(sl, i) = n
<1>1. i \in Nat \ {0} /\ i <= Len(sl) /\ sl \in Seq(Slots) /\ Len(sl) \in Nat /\ DOMAIN sl = 1 .. Len(sl)
  BY SlotKinds DEF Sound, Entries
<1>2. ASSUME LongAt(sl, i) = n PROVE HasLongName(sl, i, n)
  <2> DEFINE m == Length(sl, i)
             f == i - m
  <2>1. LongAt(sl, i) # NoText
    BY <1>2, TextFacts
  <2>2. m = PiecesOf(n) /\ m \in Nat \ {0} /\ m < i
    BY <1>2, <2>1, BlockFacts
  <2>3. \A k \in 1 .. m : Is(sl, i - k, "lfn") /\ sl[i - k].text = n
    <3> SUFFICES ASSUME NEW k \in 1 .. m PROVE Is(sl, i - k, "lfn") /\ sl[i - k].text = n
      OBVIOUS
    <3>1. Is(sl, i - k, "lfn") /\ sl[i - k] = Piece(sl[i].name, k, LongAt(sl, i))
      BY <2>1, BlockFacts
    <3> QED
      BY <1>2, <3>1, PieceFields
  <2>4. LfnStart(sl, i) = f /\ SumFits(sl, i)
    BY <2>1, ReadLast
  <2>5. \A k \in 1 .. m : Newest({h \in Before(sl, i) : sl[h].ord = k}) = i - k
    BY <2>1, ReadLast
  <2>6. Spelled(sl, i, n)
    <3>1. \A k \in 1 .. PiecesOf(n) : i - k # 0 /\ sl[i - k].text = n
      BY <1>1, <2>2, <2>3
    <3> QED
      BY <2>2, <2>5, <3>1 DEF Spelled
  <2>7. StillUnused(sl, f, i)
    <3> SUFFICES ASSUME NEW j \in f .. i - 1 PROVE ~Is(sl, j, "entry")
      BY DEF StillUnused
    <3>1. i - j \in 1 .. m /\ i - (i - j) = j
      BY <1>1, <2>2
    <3> QED
      BY <2>3, <3>1 DEF Is
  <2>8. f \in 1 .. i - 1 /\ Is(sl, f, "lfn") /\ sl[f].text = n
    <3>1. m \in 1 .. m /\ f \in 1 .. i - 1
      BY <1>1, <2>2
    <3> QED
      BY <2>3, <3>1
  <2> HIDE DEF f
  <2> QED
    BY <2>4, <2>6, <2>7, <2>8 DEF HasLongName
<1>3. ASSUME HasLongName(sl, i, n) PROVE LongAt(sl, i) = n
  <2>1. PICK f \in 1 .. i - 1 : Is(sl, f, "lfn") /\ sl[f].text = n /\ StillUnused(sl, f, i)
    BY <1>3 DEF HasLongName
  <2> DEFINE e == f + sl[f].ord
  <2>2. f \in DOMAIN sl /\ f \in Nat
    BY <1>1
  <2>3. e \in Entries(sl) /\ e \in Nat /\ f < e /\ LongAt(sl, e) = n
    BY <2>1, <2>2, OwnerFacts
  <2>4. e >= i
    <3> SUFFICES ASSUME e < i PROVE FALSE
      BY <1>1, <2>3
    <3>1. e \in f .. i - 1 /\ Is(sl, e, "entry")
      BY <1>1, <2>2, <2>3 DEF Entries
    <3> QED
      BY <2>1, <3>1 DEF StillUnused
  <2>5. i = e
    BY <1>1, <2>1, <2>2, <2>4, NoneBetween
  <2> QED
    BY <2>3, <2>5
<1> QED
  BY <1>2, <1>3

(* What a name finds: the one entry that has it.                           *)
Bearing(sl, n) == {i \in Entries(sl) : IF n.tag = "long" THEN LongAt(sl, i) = n ELSE sl[i].name = n.text}

LEMMA FoundIs ==
  ASSUME NEW sl, Sound(sl), NEW n \in Names
  PROVE  /\ Found(sl, n) = 0 => Bearing(sl, n) = {}
         /\ Found(sl, n) # 0 => Found(sl, n) \in Entries(sl) /\ Bearing(sl, n) = {Found(sl, n)}
<1> DEFINE S == {i \in Entries(sl) : IF n.tag = "long" THEN HasLongName(sl, i, n) ELSE sl[i].name = n.text}
<1>1. S = Bearing(sl, n)
  <2>1. n.tag = "long" => n \in Texts
    BY DEF Texts
  <2> QED
    BY <2>1, LongFound DEF Bearing
<1>2. \A i, j \in S : i = j
  <2>1. n.tag = "long" => n # NoText
    BY DirAssumption
  <2> QED
    BY <1>1, <2>1 DEF Bearing, Sound, NamesDiffer, TextsDiffer
<1>3. S \in SUBSET Nat /\ 0 \notin S /\ S \subseteq Entries(sl)
  BY SlotKinds DEF Sound, Entries
<1>4. Found(sl, n) = IF S = {} THEN 0 ELSE Min(S)
  BY DEF Found, Least
<1> HIDE DEF S
<1>5. S # {} => Min(S) \in S
  BY <1>3, MinIn
<1> QED
  BY <1>1, <1>2, <1>3, <1>4, <1>5

-----------------------------------------------------------------------------
(* What the operations on slots keep and change.  Same(sl, tl, j): nothing *)
(* has happened to the entry in slot j.                                    *)
Same(sl, tl, j) == tl[j] = sl[j] /\ LongAt(tl, j) = LongAt(sl, j)

LEMMA LongAtNone ==
  ASSUME NEW sl, Sound(sl), NEW i \in Entries(sl)
  PROVE  LongAt(sl, i) = NoText <=> ~(i > 1 /\ Is(sl, i - 1, "lfn"))
<1>1. i \in Nat /\ i <= Len(sl) /\ sl \in Seq(Slots) /\ DOMAIN sl = 1 .. Len(sl) /\ Len(sl) \in Nat
  BY SlotKinds DEF Sound, Entries
<1>2. ASSUME i > 1, Is(sl, i - 1, "lfn") PROVE LongAt(sl, i) # NoText
  <2>1. i - 1 \in DOMAIN sl
    BY <1>1, <1>2
  <2>2. sl[i - 1].text \in Texts
    BY <1>1, <1>2, <2>1, PieceFacts
  <2> QED
    BY <1>2, <2>2, TextFacts DEF LongAt
<1> QED
  BY <1>2 DEF LongAt

(* Deleting an entry with its long name leaves the others as they are.     *)
LEMMA DeleteKeeps ==
  ASSUME NEW sl, Sound(sl), NEW i \in Entries(sl), ~Misled(sl, i)
  PROVE  LET d == deleteLFNs(sl, i) IN
         /\ Sound(d) /\ Len(d) = Len(sl) /\ Entries(d) = Entries(sl) \ {i}
         /\ \A j \in Entries(d) : Same(sl, d, j)
<1> DEFINE d == deleteLFNs(sl, i)
           m == Length(sl, i)
           T == i - m .. i
<1>1. /\ i \in Nat \ {0} /\ i <= Len(sl) /\ sl \in Seq(Slots) /\ Len(sl) \in Nat
      /\ DOMAIN sl = 1 .. Len(sl) /\ Is(sl, i, "entry")
  BY SlotKinds DEF Sound, Entries
<1>2. /\ DOMAIN d = DOMAIN sl
      /\ \A j \in DOMAIN sl : d[j] = IF j \in T THEN Deleted ELSE sl[j]
  BY TakenIs DEF deleteLFNs
<1>3. m \in Nat /\ (m # 0 => LongAt(sl, i) # NoText)
  BY BlockFacts DEF Length
<1>4. \A x \in T : x # i => x \in DOMAIN sl /\ Is(sl, x, "lfn") /\ sl[x].ord = i - x
  <2> SUFFICES ASSUME NEW x \in T, x # i
               PROVE  x \in DOMAIN sl /\ Is(sl, x, "lfn") /\ sl[x].ord = i - x
    OBVIOUS
  <2>1. i - x \in 1 .. m /\ i - (i - x) = x /\ m # 0
    BY <1>1, <1>3
  <2>2. x \in DOMAIN sl /\ Is(sl, x, "lfn") /\ sl[x] = Piece(sl[i].name, i - x, LongAt(sl, i))
    BY <1>3, <2>1, BlockFacts
  <2> QED
    BY <2>2, PieceFields
<1>5. d \in Seq(Slots) /\ Len(d) = Len(sl)
  <2>1. \A j \in 1 .. Len(sl) : d[j] \in Slots
    BY <1>1, <1>2, SlotKinds DEF Slots
  <2> HIDE DEF d
  <2>2. d = [j \in 1 .. Len(sl) |-> d[j]]
    BY <1>1, <1>2 DEF d, deleteLFNs
  <2> QED
    BY <1>1, <2>1, <2>2
<1> HIDE DEF d
<1>6. Deleted.tag = "deleted"
  BY DEF Deleted
<1>7. Entries(d) = Entries(sl) \ {i}
  <2>1. i \in T
    BY <1>1, <1>3
  <2>2. \A j \in DOMAIN sl : j \in T /\ j # i => ~Is(sl, j, "entry")
    BY <1>4 DEF Is
  <2> QED
    BY <1>2, <1>6, <2>1, <2>2 DEF Entries, Is
<1>8. ASSUME NEW j \in Entries(d), NEW k \in 1 .. Length(sl, j)
      PROVE  j - k \in DOMAIN sl /\ j - k \notin T
  <2>1. LongAt(sl, j) # NoText /\ j \in Entries(sl) /\ j # i
    BY <1>7 DEF Length
  <2>2. j \in Nat
    BY <2>1, SlotKinds DEF Sound, Entries
  <2>3. j - k \in DOMAIN sl /\ Is(sl, j - k, "lfn") /\ sl[j - k] = Piece(sl[j].name, k, LongAt(sl, j))
    BY <2>1, BlockFacts
  <2>4. sl[j - k].ord = k
    BY <2>3, PieceFields
  <2>5. Length(sl, j) \in Nat
    BY <2>1, BlockFacts
  <2>6. j - k # i
    BY <1>1, <2>3 DEF Is
  <2> SUFFICES ASSUME j - k \in T PROVE FALSE
    BY <2>3
  <2>7. k = i - (j - k)
    BY <1>4, <2>4, <2>6
  <2> QED
    BY <1>1, <2>1, <2>2, <2>5, <2>7
<1>9. ASSUME NEW j \in Entries(d) PROVE Same(sl, d, j)
  <2>1. j \in Entries(sl) /\ j \in DOMAIN sl /\ j \in Nat \ {0} /\ j # i /\ j <= Len(sl)
    BY <1>7, SlotKinds DEF Sound, Entries
  <2>2. d[j] = sl[j]
    <3>1. j \notin T
      BY <1>4, <2>1 DEF Entries, Is
    <3> QED
      BY <1>2, <2>1, <3>1
  <2>3. CASE LongAt(sl, j) # NoText
    <3>1. j > 1 /\ Is(sl, j - 1, "lfn") /\ LongAt(sl, j) = sl[j - 1].text
      BY <2>3 DEF LongAt
    <3>2. 1 \in 1 .. Length(sl, j)
      BY <2>1, <2>3, BlockFacts
    <3>3. d[j - 1] = sl[j - 1]
      BY <1>2, <1>8, <3>2
    <3> QED
      BY <2>2, <3>1, <3>3 DEF Same, LongAt, Is
  <2>4. CASE LongAt(sl, j) = NoText
    <3>1. ~(j > 1 /\ Is(d, j - 1, "lfn"))
      <4>1. ~(j > 1 /\ Is(sl, j - 1, "lfn"))
        BY <2>1, <2>4, LongAtNone
      <4>2. j > 1 => j - 1 \in DOMAIN sl
        BY <1>1, <2>1
      <4> QED
        BY <1>2, <1>6, <4>1, <4>2 DEF Is
    <3> QED
      BY <2>2, <2>4, <3>1 DEF Same, LongAt
  <2> QED
    BY <2>3, <2>4
<1>10. Whole(d)
  <2> SUFFICES ASSUME NEW j \in Entries(d), NEW k \in 1 .. Length(d, j)
               PROVE  k < j /\ d[j - k] = Piece(d[j].name, k, LongAt(d, j))
    BY DEF Whole
  <2>1. d[j] = sl[j] /\ LongAt(d, j) = LongAt(sl, j) /\ Length(d, j) = Length(sl, j) /\ j \in Entries(sl)
    BY <1>7, <1>9 DEF Same, Length
  <2>2. k < j /\ sl[j - k] = Piece(sl[j].name, k, LongAt(sl, j))
    BY <2>1 DEF Sound, Whole
  <2>3. j - k \in DOMAIN sl /\ j - k \notin T
    BY <1>8, <2>1
  <2> QED
    BY <1>2, <2>1, <2>2, <2>3
<1>11. NamesDiffer(d) /\ TextsDiffer(d)
  BY <1>7, <1>9 DEF Sound, NamesDiffer, TextsDiffer, Same
<1>12. EndsLast(d)
  <2> SUFFICES ASSUME NEW x \in DOMAIN d, NEW y \in DOMAIN d, x < y, Is(d, x, "end")
               PROVE  Is(d, y, "end")
    BY DEF EndsLast
  <2>1. x \notin T
    BY <1>2, <1>6 DEF Is
  <2>2. Is(sl, y, "end")
    BY <1>2, <2>1 DEF Is, Sound, EndsLast
  <2>3. y \notin T
    BY <1>1, <1>4, <2>2 DEF Is
  <2> QED
    BY <1>2, <2>2, <2>3 DEF Is
<1>13. NoOrphan(d)
  <2> SUFFICES ASSUME NEW x \in DOMAIN d, Is(d, x, "lfn")
               PROVE  /\ x + d[x].ord \in Entries(d)
                      /\ d[x].ord <= PiecesOf(d[x].text) /\ LongAt(d, x + d[x].ord) = d[x].text
    BY DEF NoOrphan
  <2>1. x \notin T /\ d[x] = sl[x] /\ x \in DOMAIN sl
    BY <1>2, <1>6 DEF Is
  <2>2. Is(sl, x, "lfn")
    BY <2>1 DEF Is
  <2> DEFINE e == x + sl[x].ord
  <2>3. /\ e \in Entries(sl) /\ e - sl[x].ord = x /\ sl[x].ord \in 1 .. Length(sl, e)
        /\ LongAt(sl, e) = sl[x].text
    BY <2>1, <2>2, OwnerFacts
  <2>4. e # i
    BY <1>1, <1>3, <2>1, <2>3
  <2>5. e \in Entries(d) /\ LongAt(d, e) = sl[x].text
    BY <1>7, <1>9, <2>3, <2>4 DEF Same
  <2>6. sl[x].ord <= PiecesOf(sl[x].text)
    BY <2>1, <2>2 DEF Sound, NoOrphan
  <2> QED
    BY <2>1, <2>5, <2>6
<1> QED
  BY <1>5, <1>7, <1>9, <1>10, <1>11, <1>12, <1>13 DEF Sound, d

(* New slots at the end are ends.                                          *)
LEMMA GrownKeeps ==
  ASSUME NEW sl, Sound(sl), NEW g \in Nat
  PROVE  LET d == Grown(sl, g) IN
         /\ Sound(d) /\ Len(d) = Len(sl) + g * PerSector /\ Entries(d) = Entries(sl)
         /\ \A j \in Entries(sl) : Same(sl, d, j)
         /\ \A j \in 1 .. Len(sl) : d[j] = sl[j]
         /\ \A j \in Nat \ {0} : Unused(d, j) <=> Unused(sl, j)
<1> DEFINE d == Grown(sl, g)
           L == Len(sl)
           more == g * PerSector
<1>1. sl \in Seq(Slots) /\ L \in Nat /\ DOMAIN sl = 1 .. L /\ more \in Nat
  <2>1. PerSector \in Nat
    BY DirAssumption
  <2> QED
    BY <2>1 DEF Sound
<1> HIDE DEF more
<1>2. [i \in 1 .. more |-> End] \in Seq(Slots) /\ Len([i \in 1 .. more |-> End]) = more
  BY <1>1 DEF Slots
<1>3. /\ d \in Seq(Slots) /\ Len(d) = L + more /\ DOMAIN d = 1 .. L + more
      /\ \A j \in 1 .. L : d[j] = sl[j]
      /\ \A j \in L + 1 .. L + more : d[j] = End
  BY <1>1, <1>2 DEF Grown, more
<1> HIDE DEF d
<1>4. End.tag = "end"
  BY DEF End
<1>5. Entries(d) = Entries(sl)
  <2>1. \A j \in DOMAIN d : j \in 1 .. L \/ d[j].tag = "end"
    BY <1>1, <1>3, <1>4
  <2>2. \A j \in 1 .. L : j \in DOMAIN d
    BY <1>1, <1>3
  <2> QED
    BY <1>1, <1>3, <2>1, <2>2 DEF Entries, Is
<1>6. ASSUME NEW j \in Entries(sl) PROVE Same(sl, d, j)
  <2>1. j \in 1 .. L /\ (j > 1 => j - 1 \in 1 .. L)
    BY <1>1 DEF Entries
  <2> QED
    BY <1>3, <2>1 DEF Same, LongAt, Is
<1>7. Whole(d)
  <2> SUFFICES ASSUME NEW j \in Entries(sl), NEW k \in 1 .. Length(sl, j)
               PROVE  k < j /\ d[j - k] = Piece(d[j].name, k, LongAt(d, j))
    BY <1>5, <1>6 DEF Whole, Same, Length
  <2>1. LongAt(sl, j) # NoText
    BY DEF Length
  <2>2. j - k \in 1 .. L
    BY <1>1, <2>1, BlockFacts
  <2> QED
    BY <1>3, <1>6, <2>2 DEF Same, Sound, Whole
<1>8. NamesDiffer(d) /\ TextsDiffer(d)
  BY <1>5, <1>6 DEF Sound, NamesDiffer, TextsDiffer, Same
<1>9. EndsLast(d)
  <2> SUFFICES ASSUME NEW x \in DOMAIN d, NEW y \in DOMAIN d, x < y, Is(d, x, "end")
               PROVE  Is(d, y, "end")
    BY DEF EndsLast
  <2>1. CASE y \in 1 .. L
    <3>1. x \in 1 .. L
      BY <1>1, <1>3, <2>1
    <3> QED
      BY <1>1, <1>3, <2>1, <3>1 DEF Is, Sound, EndsLast
  <2>2. CASE y \in L + 1 .. L + more
    BY <1>3, <1>4, <2>2 DEF Is
  <2> QED
    BY <1>1, <1>3, <2>1, <2>2
<1>10. NoOrphan(d)
  <2> SUFFICES ASSUME NEW x \in DOMAIN d, Is(d, x, "lfn")
               PROVE  /\ x + d[x].ord \in Entries(d)
                      /\ d[x].ord <= PiecesOf(d[x].text) /\ LongAt(d, x + d[x].ord) = d[x].text
    BY DEF NoOrphan
  <2>1. x \in 1 .. L /\ d[x] = sl[x] /\ Is(sl, x, "lfn")
    BY <1>1, <1>3, <1>4 DEF Is
  <2> QED
    BY <1>1, <1>5, <1>6, <2>1 DEF Sound, NoOrphan, Same
<1>11. ASSUME NEW j \in Nat \ {0} PROVE Unused(d, j) <=> Unused(sl, j)
  <2>1. CASE j \in 1 .. L
    BY <1>1, <1>3, <2>1 DEF Unused, Is
  <2>2. CASE j \in L + 1 .. L + more
    BY <1>1, <1>3, <1>4, <2>2 DEF Unused, Is
  <2>3. CASE j > L + more
    BY <1>1, <1>3, <2>3 DEF Unused
  <2> QED
    BY <1>1, <2>1, <2>2, <2>3
<1> QED
  BY <1>3, <1>5, <1>6, <1>7, <1>8, <1>9, <1>10, <1>11 DEF Sound, d, more

(* From the first end on nothing is in use.                                *)
LEMMA EndIs ==
  ASSUME NEW sl, Sound(sl)
  PROVE  /\ EndOf(sl) \in 1 .. Len(sl) + 1
         /\ \A i \in DOMAIN sl : Is(sl, i, "end") => EndOf(sl) <= i
         /\ \A j \in Nat \ {0} : EndOf(sl) <= j => Unused(sl, j)
<1> DEFINE S == {i \in DOMAIN sl : Is(sl, i, "end")}
<1>1. Len(sl) \in Nat /\ DOMAIN sl = 1 .. Len(sl)
  BY DEF Sound
<1>2. S \in SUBSET Nat
  BY <1>1
<1>3. EndOf(sl) = IF S = {} THEN Len(sl) + 1 ELSE Min(S)
  BY DEF EndOf, Least
<1>4. S # {} => Min(S) \in S /\ \A y \in S : Min(S) <= y
  <2> HIDE DEF S
  <2> QED
    BY <1>2, MinIn
<1>5. EndOf(sl) \in 1 .. Len(sl) + 1 /\ \A i \in S : EndOf(sl) <= i
  BY <1>1, <1>3, <1>4
<1>6. ASSUME NEW j \in Nat \ {0}, EndOf(sl) <= j PROVE Unused(sl, j)
  <2>1. CASE j > Len(sl)
    BY <2>1 DEF Unused
  <2>2. CASE j <= Len(sl)
    <3>1. j \in DOMAIN sl /\ EndOf(sl) \in S
      BY <1>1, <1>3, <1>4, <1>5, <1>6, <2>2
    <3>2. Is(sl, j, "end")
      BY <1>1, <1>6, <3>1 DEF Sound, EndsLast
    <3> QED
      BY <3>2 DEF Unused
  <2> QED
    BY <1>1, <2>1, <2>2
<1> QED
  BY <1>5, <1>6

(* A name as a caller gives it, or in the case that a rename makes of it.  *)
Given(n) == n \in Texts \/ n.tag = "short"

LEMMA SpotIs ==
  ASSUME NEW sl, Sound(sl), NEW n, Given(n)
  PROVE  LET p == Spot(sl, n) IN
         /\ required_free(n) \in Nat \ {0} /\ p \in 1 .. Len(sl) + 1 /\ p <= EndOf(sl)
         /\ \A j \in p .. p + required_free(n) - 1 : Unused(sl, j)
<1> DEFINE k == required_free(n)
           S == {p \in 1 .. Len(sl) + 1 : \A j \in p .. p + k - 1 : Unused(sl, j)}
           e == EndOf(sl)
<1>1. k \in Nat \ {0}
  BY TextFacts DEF Given, required_free
<1>2. e \in 1 .. Len(sl) + 1 /\ (\A j \in Nat \ {0} : e <= j => Unused(sl, j)) /\ Len(sl) \in Nat
  BY EndIs DEF Sound
<1>3. Spot(sl, n) = Min(S)
  <2>1. CASE n.tag = "short"
    <3>1. k = 1
      BY <2>1 DEF required_free
    <3>2. S = {i \in 1 .. Len(sl) + 1 : Unused(sl, i)}
      BY <1>2, <3>1
    <3> QED
      BY <2>1, <3>2 DEF Spot, FirstFree
  <2>2. CASE n.tag # "short"
    BY <2>2 DEF Spot, RunAt
  <2> QED
    BY <2>1, <2>2
<1>4. e \in S
  BY <1>1, <1>2
<1> HIDE DEF k, e
<1>5. S \in SUBSET Nat
  BY <1>2
<1>6. Min(S) \in S /\ Min(S) <= e
  <2> HIDE DEF S
  <2> QED
    BY <1>4, <1>5, MinIn
<1> QED
  BY <1>1, <1>3, <1>6 DEF k, e

LEMMA SpotGrown ==
  ASSUME NEW sl, Sound(sl), NEW g \in Nat, NEW n, Given(n)
  PROVE  Spot(Grown(sl, g), n) = Spot(sl, n)
<1> DEFINE d == Grown(sl, g)
           k == required_free(n)
           F(tl) == {p \in 1 .. Len(tl) + 1 : \A j \in p .. p + k - 1 : Unused(tl, j)}
<1>1. /\ Sound(d) /\ Len(d) \in Nat /\ Len(sl) \in Nat /\ Len(sl) <= Len(d)
      /\ \A j \in Nat \ {0} : Unused(d, j) <=> Unused(sl, j)
  <2>1. g * PerSector \in Nat
    BY DirAssumption
  <2>2. Sound(d) /\ Len(d) = Len(sl) + g * PerSector /\ \A j \in Nat \ {0} : Unused(d, j) <=> Unused(sl, j)
    BY GrownKeeps
  <2>3. Len(sl) \in Nat
    BY DEF Sound
  <2> QED
    BY <2>1, <2>2, <2>3
<1> HIDE DEF d
<1>2. /\ Spot(sl, n) \in 1 .. Len(sl) + 1 /\ k \in Nat \ {0}
      /\ \A j \in Spot(sl, n) .. Spot(sl, n) + k - 1 : Unused(sl, j)
  BY SpotIs
<1>3. /\ Spot(d, n) \in 1 .. Len(d) + 1
      /\ \A j \in Spot(d, n) .. Spot(d, n) + k - 1 : Unused(d, j)
  BY <1>1, SpotIs
<1>4. ASSUME NEW tl, Len(tl) \in Nat PROVE Spot(tl, n) = Min(F(tl)) /\ F(tl) \in SUBSET Nat
  <2>1. CASE n.tag = "short"
    <3>1. k = 1
      BY <2>1 DEF required_free
    <3>2. F(tl) = {i \in 1 .. Len(tl) + 1 : Unused(tl, i)}
      BY <1>4, <3>1
    <3>3. Spot(tl, n) = Min(F(tl))
      <4>1. Spot(tl, n) = Min({i \in 1 .. Len(tl) + 1 : Unused(tl, i)})
        BY <2>1 DEF Spot, FirstFree
      <4> QED
        BY <3>2, <4>1
    <3> QED
      BY <1>4, <3>3
  <2>2. CASE n.tag # "short"
    BY <1>4, <2>2 DEF Spot, RunAt
  <2> QED
    BY <2>1, <2>2
<1>5. Spot(sl, n) \in F(d)
  BY <1>1, <1>2
<1>6. Spot(d, n) <= Spot(sl, n)
  <2> HIDE DEF F
  <2> QED
    BY <1>1, <1>4, <1>5, MinIn
<1>7. Spot(d, n) \in F(sl)
  BY <1>1, <1>2, <1>3, <1>6
<1>8. Spot(sl, n) <= Spot(d, n)
  <2> HIDE DEF F
  <2> QED
    BY <1>1, <1>4, <1>7, MinIn
<1> QED
  BY <1>2, <1>3, <1>6, <1>8 DEF d

(* A piece is followed by nothing but pieces up to its entry.              *)
LEMMA BlockSolid ==
  ASSUME NEW sl, Sound(sl), NEW f \in DOMAIN sl, Is(sl, f, "lfn"), NEW x \in f .. f + sl[f].ord
  PROVE  Is(sl, x, "lfn") \/ Is(sl, x, "entry")
<1> DEFINE e == f + sl[f].ord
<1>1. /\ e \in Entries(sl) /\ e \in Nat /\ sl[f].ord \in 1 .. Length(sl, e)
      /\ e - sl[f].ord = f /\ LongAt(sl, e) # NoText
  BY OwnerFacts
<1>2. Length(sl, e) \in Nat /\ f \in Nat /\ sl[f].ord \in Nat
  BY <1>1, BlockFacts, SlotKinds DEF Sound
<1>3. CASE x = e
  BY <1>1, <1>3 DEF Entries
<1>4. CASE x # e
  <2>1. e - x \in 1 .. Length(sl, e) /\ e - (e - x) = x
    BY <1>1, <1>2, <1>4
  <2> QED
    BY <1>1, <2>1, BlockFacts
<1> QED
  BY <1>3, <1>4

(* A new entry with its long name, where there is room for it.             *)
NewEntry(short, start, dir) == [tag |-> "entry", name |-> short, start |-> start, dir |-> dir]

LEMMA CreateKeeps ==
  ASSUME NEW sl, Sound(sl), NEW n, Given(n), NEW short \in ShortNames,
         NEW start \in Clusters \cup {NoCluster}, NEW dir \in BOOLEAN,
         Spot(sl, n) + required_free(n) - 1 <= Len(sl),
         \A j \in Entries(sl) : sl[j].name # short,
         n.tag = "long" => \A j \in Entries(sl) : LongAt(sl, j) # n
  PROVE  LET c == createLFNs(sl, n, short, start, dir)
             last == Spot(sl, n) + required_free(n) - 1 IN
         /\ Sound(c) /\ Len(c) = Len(sl)
         /\ last \notin Entries(sl) /\ Entries(c) = Entries(sl) \cup {last}
         /\ \A j \in Entries(sl) : Same(sl, c, j)
         /\ c[last] = NewEntry(short, start, dir)
         /\ LongAt(c, last) = IF n.tag = "short" THEN NoText ELSE n
<1> DEFINE c == createLFNs(sl, n, short, start, dir)
           p == Spot(sl, n)
           m == required_free(n)
           last == p + m - 1
           L == Len(sl)
           P == p .. last
<1>1. sl \in Seq(Slots) /\ L \in Nat /\ DOMAIN sl = 1 .. L
  BY DEF Sound
<1>2. /\ p \in 1 .. L + 1 /\ m \in Nat \ {0} /\ last \in 1 .. L /\ p <= last
      /\ p <= EndOf(sl) /\ \A j \in P : Unused(sl, j)
  BY <1>1, SpotIs
<1>3. \A j \in P : j \in DOMAIN sl /\ ~Is(sl, j, "lfn") /\ ~Is(sl, j, "entry")
  BY <1>1, <1>2 DEF Unused, Is
<1>4. n.tag # "short" => n \in Texts /\ m = PiecesOf(n) + 1 /\ n # NoText /\ PiecesOf(n) \in Nat \ {0}
  BY TextFacts DEF Given
<1>5. n.tag = "short" => m = 1
  BY DEF required_free
<1>6. /\ DOMAIN c = DOMAIN sl
      /\ \A j \in DOMAIN sl : c[j] = IF j = last THEN NewEntry(short, start, dir)
                                     ELSE IF j \in p .. last - 1 THEN Piece(short, last - j, n)
                                     ELSE sl[j]
  <2>1. \A j \in p .. last - 1 : (j = p) = (last - j = PiecesOf(n))
    <3> SUFFICES ASSUME NEW j \in p .. last - 1 PROVE j = p <=> last - j = PiecesOf(n)
      BY Zenon
    <3> QED
      BY <1>2, <1>4, <1>5
  <2>2. \A j \in p .. last - 1 :
          [tag |-> "lfn", ord |-> last - j, first |-> j = p, sum |-> Checksum[short], text |-> n]
            = Piece(short, last - j, n)
    BY <2>1, Zenon DEF Piece
  <2> QED
    BY <2>2, Zenon DEF createLFNs, NewEntry
<1>7. NewEntry(short, start, dir) \in EntrySlots
  BY DEF NewEntry, EntrySlots
<1>8. \A j \in p .. last - 1 : last - j \in Nat \ {0} /\ Piece(short, last - j, n) \in PieceSlots
  BY <1>1, <1>2, <1>4, <1>5 DEF PieceSlots
<1>9. c \in Seq(Slots) /\ Len(c) = L
  <2>1. \A j \in 1 .. L : c[j] \in Slots
    BY <1>1, <1>6, <1>7, <1>8, SlotKinds DEF Slots
  <2> HIDE DEF c
  <2>2. c = [j \in 1 .. L |-> c[j]]
    BY <1>1, <1>6 DEF c, createLFNs
  <2> QED
    BY <1>1, <2>1, <2>2
<1> HIDE DEF c
<1>10. NewEntry(short, start, dir).tag = "entry"
  BY DEF NewEntry
<1>11. last \notin Entries(sl) /\ Entries(c) = Entries(sl) \cup {last}
  <2>1. \A j \in p .. last - 1 : Piece(short, last - j, n).tag = "lfn" /\ j # last
    BY <1>1, <1>2, PieceFields
  <2>2. last \in P /\ \A j \in P : j = last \/ j \in p .. last - 1
    BY <1>1, <1>2
  <2>3. last \notin Entries(sl) /\ \A j \in p .. last - 1 : j \notin Entries(sl)
    BY <1>1, <1>2, <1>3 DEF Entries
  <2> QED
    BY <1>3, <1>6, <1>10, <2>1, <2>2, <2>3 DEF Entries, Is
<1>12. ASSUME NEW j \in Entries(sl), NEW k \in 1 .. Length(sl, j) PROVE j - k \in DOMAIN sl /\ j - k \notin P
  <2>1. LongAt(sl, j) # NoText
    BY DEF Length
  <2> QED
    BY <1>3, <2>1, BlockFacts
<1>13. \A j \in DOMAIN sl : j \notin P => c[j] = sl[j]
  BY <1>1, <1>2, <1>6
<1>14. ASSUME NEW j \in Entries(sl) PROVE Same(sl, c, j)
  <2>1. j \in DOMAIN sl /\ j \in Nat \ {0} /\ j <= L /\ j \notin P
    BY <1>1, <1>3 DEF Entries
  <2>2. CASE LongAt(sl, j) # NoText
    <3>1. j > 1 /\ Is(sl, j - 1, "lfn") /\ LongAt(sl, j) = sl[j - 1].text
      BY <2>2 DEF LongAt
    <3>2. 1 \in 1 .. Length(sl, j)
      BY <2>2, BlockFacts
    <3>3. c[j - 1] = sl[j - 1]
      BY <1>12, <1>13, <3>2
    <3> QED
      BY <1>13, <2>1, <3>1, <3>3 DEF Same, LongAt, Is
  <2>3. CASE LongAt(sl, j) = NoText
    <3>1. ~(j > 1 /\ Is(sl, j - 1, "lfn"))
      BY <2>3, LongAtNone
    <3>2. ~(j > 1 /\ Is(c, j - 1, "lfn"))
      <4> SUFFICES ASSUME j > 1, j - 1 \in P PROVE ~Is(c, j - 1, "lfn")
        BY <1>1, <1>13, <2>1, <3>1 DEF Is
      <4>1. j - 1 = last
        BY <1>1, <1>2, <2>1
      <4>2. c[last] = NewEntry(short, start, dir)
        BY <1>1, <1>2, <1>6
      <4> QED
        BY <1>10, <4>1, <4>2 DEF Is
    <3> QED
      BY <1>13, <2>1, <2>3, <3>2 DEF Same, LongAt
  <2> QED
    BY <2>2, <2>3
<1>15. c[last] = NewEntry(short, start, dir)
  BY <1>1, <1>2, <1>6
<1>16. LongAt(c, last) = IF n.tag = "short" THEN NoText ELSE n
  <2>1. CASE n.tag = "short"
    <3>1. last = p
      BY <1>2, <1>5, <2>1
    <3> SUFFICES ASSUME p > 1, Is(c, p - 1, "lfn") PROVE FALSE
      BY <2>1, <3>1 DEF LongAt
    <3>2. p - 1 \in DOMAIN sl /\ p - 1 \notin P
      BY <1>1, <1>2
    <3>3. Is(sl, p - 1, "lfn")
      BY <1>13, <3>2 DEF Is
    <3>4. p \in p - 1 .. (p - 1) + sl[p - 1].ord
      BY <1>1, <1>2, <3>2, <3>3, PieceFacts
    <3>5. Is(sl, p, "lfn") \/ Is(sl, p, "entry")
      BY <3>2, <3>3, <3>4, BlockSolid
    <3>6. p \in P
      BY <1>1, <1>2
    <3> QED
      BY <1>3, <3>5, <3>6
  <2>2. CASE n.tag # "short"
    <3>1. last - 1 \in p .. last - 1 /\ last - 1 \in DOMAIN sl /\ last - 1 # last /\ last > 1
      BY <1>1, <1>2, <1>4, <2>2
    <3>2. c[last - 1] = Piece(short, last - (last - 1), n)
      BY <1>6, <3>1
    <3>3. c[last - 1].tag = "lfn" /\ c[last - 1].text = n
      BY <3>2, PieceFields
    <3> QED
      BY <2>2, <3>1, <3>3 DEF LongAt, Is
  <2> QED
    BY <2>1, <2>2
<1>17. Whole(c)
  <2> SUFFICES ASSUME NEW j \in Entries(c), NEW k \in 1 .. Length(c, j)
               PROVE  k < j /\ c[j - k] = Piece(c[j].name, k, LongAt(c, j))
    BY DEF Whole
  <2>1. CASE j \in Entries(sl)
    <3>1. c[j] = sl[j] /\ LongAt(c, j) = LongAt(sl, j) /\ Length(c, j) = Length(sl, j)
      BY <1>14, <2>1 DEF Same, Length
    <3>2. k < j /\ sl[j - k] = Piece(sl[j].name, k, LongAt(sl, j))
      BY <2>1, <3>1 DEF Sound, Whole
    <3>3. j - k \in DOMAIN sl /\ j - k \notin P
      BY <1>12, <2>1, <3>1
    <3> QED
      BY <1>13, <3>1, <3>2, <3>3
  <2>2. CASE j = last
    <3>1. LongAt(c, last) # NoText /\ Length(c, last) = PiecesOf(LongAt(c, last))
      BY <2>2 DEF Length
    <3>2. n.tag # "short" /\ LongAt(c, last) = n
      BY <1>16, <3>1
    <3>3. k \in 1 .. m - 1
      BY <1>4, <2>2, <3>1, <3>2
    <3>4. last - k \in p .. last - 1 /\ last - k \in DOMAIN sl /\ last - k # last /\ last - (last - k) = k /\ k < last
      BY <1>1, <1>2, <3>3
    <3>5. c[last - k] = Piece(short, k, n)
      BY <1>6, <3>4
    <3>6. c[last].name = short
      BY <1>15 DEF NewEntry
    <3> QED
      BY <2>2, <3>2, <3>4, <3>5, <3>6
  <2> QED
    BY <1>11, <2>1, <2>2
<1>18. NamesDiffer(c) /\ TextsDiffer(c)
  <2>1. c[last].name = short
    BY <1>15 DEF NewEntry
  <2>2. NamesDiffer(c)
    BY <1>11, <1>14, <2>1 DEF Sound, NamesDiffer, Same
  <2>3. TextsDiffer(c)
    BY <1>11, <1>14, <1>16 DEF Sound, TextsDiffer, Same
  <2> QED
    BY <2>2, <2>3
<1>19. EndsLast(c)
  <2> SUFFICES ASSUME NEW x \in DOMAIN c, NEW y \in DOMAIN c, x < y, Is(c, x, "end")
               PROVE  Is(c, y, "end")
    BY DEF EndsLast
  <2>1. x \notin P
    <3>1. x # last
      BY <1>10, <1>15 DEF Is
    <3>2. ASSUME x \in p .. last - 1 PROVE FALSE
      <4>1. c[x] = Piece(short, last - x, n)
        BY <1>6, <3>1, <3>2
      <4> QED
        BY <4>1, PieceFields DEF Is
    <3> QED
      BY <1>1, <1>2, <3>1, <3>2
  <2>2. Is(sl, x, "end") /\ x \in 1 .. L /\ y \in 1 .. L
    BY <1>1, <1>6, <1>13, <2>1 DEF Is
  <2>3. p <= x
    BY <1>1, <1>2, <2>2, EndIs
  <2>4. y \notin P
    BY <1>1, <1>2, <2>1, <2>2, <2>3
  <2>5. Is(sl, y, "end")
    BY <1>1, <2>2 DEF Sound, EndsLast
  <2> QED
    BY <1>1, <1>13, <2>2, <2>4, <2>5 DEF Is
<1>20. NoOrphan(c)
  <2> SUFFICES ASSUME NEW x \in DOMAIN c, Is(c, x, "lfn")
               PROVE  /\ x + c[x].ord \in Entries(c)
                      /\ c[x].ord <= PiecesOf(c[x].text) /\ LongAt(c, x + c[x].ord) = c[x].text
    BY DEF NoOrphan
  <2>1. CASE x \notin P
    <3>1. c[x] = sl[x] /\ x \in DOMAIN sl /\ Is(sl, x, "lfn")
      BY <1>6, <1>13, <2>1 DEF Is
    <3> QED
      BY <1>11, <1>14, <3>1 DEF Sound, NoOrphan, Same
  <2>2. CASE x \in P
    <3>1. x # last
      BY <1>10, <1>15 DEF Is
    <3>2. x \in p .. last - 1 /\ x + (last - x) = last /\ last - x <= m - 1 /\ p <= last - 1
      BY <1>1, <1>2, <2>2, <3>1
    <3>3. c[x] = Piece(short, last - x, n)
      BY <1>6, <3>1, <3>2
    <3>4. c[x].ord = last - x /\ c[x].text = n
      BY <3>3, PieceFields
    <3>5. n.tag # "short"
      BY <1>2, <1>5, <3>2
    <3> QED
      BY <1>4, <1>11, <1>16, <3>2, <3>4, <3>5
  <2> QED
    BY <2>1, <2>2
<1> QED
  BY <1>9, <1>11, <1>14, <1>15, <1>16, <1>17, <1>18, <1>19, <1>20 DEF Sound, c

(* Another entry in the place of one: without a long name it may have      *)
(* another name.                                                           *)
Nameable(sl, i, name) ==
  name = sl[i].name \/ (LongAt(sl, i) = NoText /\ \A j \in Entries(sl) : sl[j].name # name)

LEMMA UpdateKeeps ==
  ASSUME NEW sl, Sound(sl), NEW i \in Entries(sl), NEW x \in EntrySlots, Nameable(sl, i, x.name)
  PROVE  LET u == [sl EXCEPT ![i] = x] IN
         /\ Sound(u) /\ Len(u) = Len(sl) /\ Entries(u) = Entries(sl) /\ u[i] = x
         /\ \A j \in Entries(sl) \ {i} : Same(sl, u, j)
         /\ LongAt(u, i) = LongAt(sl, i)
<1> DEFINE u == [sl EXCEPT ![i] = x]
<1>1. sl \in Seq(Slots) /\ DOMAIN sl = 1 .. Len(sl) /\ Len(sl) \in Nat /\ i \in DOMAIN sl /\ Is(sl, i, "entry")
  BY DEF Sound, Entries
<1>2. x.tag = "entry" /\ x \in Slots
  BY DEF EntrySlots, Slots
<1>3. u \in Seq(Slots) /\ Len(u) = Len(sl) /\ DOMAIN u = DOMAIN sl /\ u[i] = x /\ \A j \in DOMAIN sl \ {i} : u[j] = sl[j]
  BY <1>1, <1>2
<1> HIDE DEF u
<1>4. Entries(u) = Entries(sl)
  BY <1>1, <1>2, <1>3 DEF Entries, Is
<1>5. \A j \in DOMAIN sl : Is(u, j, "lfn") <=> Is(sl, j, "lfn")
  BY <1>1, <1>2, <1>3 DEF Is
<1>6. ASSUME NEW j \in Entries(sl) PROVE LongAt(u, j) = LongAt(sl, j) /\ Length(u, j) = Length(sl, j)
  <2>1. j \in 1 .. Len(sl) /\ (j > 1 => j - 1 \in DOMAIN sl)
    BY <1>1 DEF Entries
  <2>2. j > 1 /\ Is(sl, j - 1, "lfn") => u[j - 1] = sl[j - 1]
    BY <1>1, <1>3, <2>1 DEF Is
  <2> QED
    BY <1>5, <2>1, <2>2 DEF LongAt, Length
<1>7. \A j \in Entries(sl) \ {i} : u[j] = sl[j]
  BY <1>3 DEF Entries
<1>8. Whole(u)
  <2> SUFFICES ASSUME NEW j \in Entries(sl), NEW k \in 1 .. Length(sl, j)
               PROVE  k < j /\ u[j - k] = Piece(u[j].name, k, LongAt(sl, j))
    BY <1>4, <1>6 DEF Whole
  <2>1. LongAt(sl, j) # NoText
    BY DEF Length
  <2>2. k < j /\ j - k \in DOMAIN sl /\ Is(sl, j - k, "lfn") /\ sl[j - k] = Piece(sl[j].name, k, LongAt(sl, j))
    BY <2>1, BlockFacts DEF Sound, Whole
  <2>3. j - k # i
    BY <1>1, <2>2 DEF Is
  <2>4. u[j].name = sl[j].name
    BY <1>3, <1>7, <2>1 DEF Nameable
  <2> QED
    BY <1>3, <2>2, <2>3, <2>4
<1>9. NamesDiffer(u)
  BY <1>3, <1>4, <1>7 DEF Sound, NamesDiffer, Nameable
<1>10. TextsDiffer(u)
  BY <1>4, <1>6 DEF Sound, TextsDiffer
<1>11. EndsLast(u)
  <2>1. \A j \in DOMAIN sl : Is(u, j, "end") <=> Is(sl, j, "end")
    BY <1>1, <1>2, <1>3 DEF Is
  <2> QED
    BY <1>3, <2>1 DEF Sound, EndsLast
<1>12. NoOrphan(u)
  <2> SUFFICES ASSUME NEW y \in DOMAIN u, Is(u, y, "lfn")
               PROVE  /\ y + u[y].ord \in Entries(u)
                      /\ u[y].ord <= PiecesOf(u[y].text) /\ LongAt(u, y + u[y].ord) = u[y].text
    BY DEF NoOrphan
  <2>1. y \in DOMAIN sl /\ Is(sl, y, "lfn") /\ u[y] = sl[y]
    BY <1>1, <1>3, <1>5 DEF Is
  <2> QED
    BY <1>4, <1>6, <2>1 DEF Sound, NoOrphan
<1> QED
  BY <1>3, <1>4, <1>6, <1>7, <1>8, <1>9, <1>10, <1>11, <1>12 DEF Sound, Same, u

-----------------------------------------------------------------------------
(* Room.                                                                   *)
LEMMA MaxOfTwo ==
  ASSUME NEW a \in Int, NEW b \in Int
  PROVE  Max({a, b}) = IF a >= b THEN a ELSE b
<1> DEFINE m == IF a >= b THEN a ELSE b
           S == {a, b}
           M == CHOOSE x \in S : \A y \in S : x >= y
<1>1. m \in S /\ \A y \in S : m >= y
  OBVIOUS
<1>2. S \subseteq Int
  OBVIOUS
<1>3. M \in S /\ \A y \in S : M >= y
  BY <1>1
<1> HIDE DEF m, S, M
<1>4. m >= M /\ M >= m /\ m \in Int /\ M \in Int
  BY <1>1, <1>2, <1>3
<1>5. M = m
  BY <1>4
<1> QED
  BY <1>5 DEF Max, M, S, m

LEMMA SectorFacts ==
  /\ \A x \in Nat : SectorOf(x) \in Nat /\ x <= SectorOf(x) * PerSector
  /\ \A c \in Nat : SectorOf(PerSector * c) = c
<1> DEFINE P == PerSector
<1>1. P \in Nat \ {0}
  BY DirAssumption
<1> HIDE DEF P
<1>2. ASSUME NEW x \in Nat
      PROVE  (x + P - 1) \div P \in Nat /\ x <= ((x + P - 1) \div P) * P
  <2> DEFINE q == (x + P - 1) \div P
             r == (x + P - 1) % P
  <2>1. q \in Nat /\ r \in 0 .. P - 1 /\ x + P - 1 = P * q + r
    BY <1>1
  <2> HIDE DEF q, r
  <2>2. P * q = q * P /\ q * P \in Nat
    BY <1>1, <2>1
  <2> QED
    BY <1>1, <2>1, <2>2 DEF q
<1>3. ASSUME NEW c \in Nat PROVE (P * c + P - 1) \div P = c
  <2> DEFINE q == (P * c + P - 1) \div P
             r == (P * c + P - 1) % P
  <2>1. P * c \in Nat
    BY <1>1
  <2>2. q \in Nat /\ r \in 0 .. P - 1 /\ P * c + P - 1 = P * q + r
    BY <1>1, <2>1
  <2> HIDE DEF q, r
  <2>3. P * c - P * q = P * (c - q)
    BY <1>1, <2>2
  <2>4. P * (c - q) = r - (P - 1)
    BY <1>1, <2>1, <2>2, <2>3
  <2>5. ~(c - q >= 1)
    <3> SUFFICES ASSUME c - q >= 1 PROVE FALSE
      OBVIOUS
    <3>1. P * (c - q) >= P
      BY <1>1, <2>2
    <3> QED
      BY <1>1, <2>2, <2>4, <3>1
  <2>6. ~(c - q <= -1)
    <3> SUFFICES ASSUME c - q <= -1 PROVE FALSE
      OBVIOUS
    <3>1. P * (c - q) <= -P
      BY <1>1, <2>2
    <3> QED
      BY <1>1, <2>2, <2>4, <3>1
  <2>7. c = q
    BY <2>2, <2>5, <2>6
  <2> QED
    BY <2>7 DEF q
<1> QED
  BY <1>2, <1>3 DEF SectorOf, P

LEMMA RoomFor ==
  ASSUME NEW sl, Sound(sl), NEW n, Given(n), HasRoom(sl, n), NEW c \in Nat, Len(sl) = PerSector * c
  PROVE  /\ Growth(sl, n) \in Nat /\ (Fixed => Growth(sl, n) = 0)
         /\ Spot(sl, n) + required_free(n) - 1 <= Len(sl) + Growth(sl, n) * PerSector
<1>1. /\ required_free(n) \in Nat \ {0} /\ Spot(sl, n) \in 1 .. Len(sl) + 1
      /\ EndOf(sl) \in 1 .. Len(sl) + 1 /\ Len(sl) \in Nat /\ PerSector \in Nat \ {0}
  BY SpotIs, EndIs, DirAssumption DEF Sound
<1>2. CASE Fixed
  BY <1>1, <1>2 DEF HasRoom, Growth
<1>3. CASE ~Fixed
  <2> DEFINE x == LastSeen(sl, n)
             s == SectorOf(x)
             g == Growth(sl, n)
  <2>1. x \in Nat /\ Spot(sl, n) + required_free(n) - 1 <= x
    <3>1. CASE n.tag = "short"
      BY <1>1, <3>1 DEF LastSeen, Spot, required_free
    <3>2. CASE n.tag # "short"
      <4>1. x = Max({EndOf(sl), Spot(sl, n) + required_free(n)})
        BY <3>2 DEF LastSeen
      <4>2. EndOf(sl) \in Int /\ Spot(sl, n) + required_free(n) \in Int
        BY <1>1
      <4>3. x = IF EndOf(sl) >= Spot(sl, n) + required_free(n) THEN EndOf(sl) ELSE Spot(sl, n) + required_free(n)
        BY <4>1, <4>2, MaxOfTwo
      <4> QED
        BY <1>1, <4>3
    <3> QED
      BY <3>1, <3>2
  <2>2. s \in Nat /\ x <= s * PerSector /\ SectorOf(Len(sl)) = c
    BY <2>1, SectorFacts
  <2>3. g = Max({s - c, 0})
    BY <1>3, <2>2 DEF Growth
  <2>4. s - c \in Int /\ 0 \in Int
    BY <2>2
  <2>5. g = IF s - c >= 0 THEN s - c ELSE 0
    BY <2>3, <2>4, MaxOfTwo
  <2> HIDE DEF g, s, x
  <2>6. g \in Nat /\ g + c >= s
    BY <2>2, <2>5
  <2>7. (g + c) * PerSector >= s * PerSector
    BY <1>1, <2>2, <2>6
  <2>8. (g + c) * PerSector = PerSector * c + g * PerSector
    BY <1>1, <2>6
  <2>9. s * PerSector \in Nat /\ g * PerSector \in Nat /\ PerSector * c \in Nat
    BY <1>1, <2>2, <2>6
  <2>10. Spot(sl, n) + required_free(n) - 1 <= Len(sl) + g * PerSector
    BY <1>1, <2>1, <2>2, <2>7, <2>8, <2>9
  <2> QED
    BY <1>3, <2>6, <2>10 DEF g
<1> QED
  BY <1>2, <1>3

(* There are more tails than entries, so that a long name gets one.        *)
LEMMA TailThere ==
  ASSUME NEW sl, Sound(sl), Len(sl) < MaxTail, NEW stem
  PROVE  Tails(sl, stem) # {}
<1> DEFINE E == Entries(sl)
           T == 1 .. MaxTail
           name(t) == [stem |-> stem, tail |-> t]
<1>1. Len(sl) \in Nat /\ MaxTail \in Nat /\ DOMAIN sl = 1 .. Len(sl)
  BY DirAssumption DEF Sound
<1>2. IsFiniteSet(T) /\ Cardinality(T) = MaxTail
  BY <1>1, FS_Interval
<1>3. IsFiniteSet(1 .. Len(sl)) /\ Cardinality(1 .. Len(sl)) = Len(sl)
  <2> DEFINE L == Len(sl)
  <2>1. L \in Nat
    BY <1>1
  <2> HIDE DEF L
  <2>2. IsFiniteSet(1 .. L) /\ Cardinality(1 .. L) = IF 1 > L THEN 0 ELSE L - 1 + 1
    BY <2>1, FS_Interval
  <2>3. Cardinality(1 .. L) = L
    BY <2>1, <2>2
  <2> QED
    BY <2>2, <2>3 DEF L
<1>4. IsFiniteSet(E) /\ Cardinality(E) <= Len(sl) /\ Cardinality(E) \in Nat
  <2>1. E \in SUBSET (1 .. Len(sl))
    BY <1>1 DEF Entries
  <2> HIDE DEF E
  <2> QED
    BY <1>3, <2>1, FS_Subset, FS_CardinalityType
<1> SUFFICES ASSUME \A t \in T : \E i \in E : sl[i].name = name(t) PROVE FALSE
  BY DEF Tails
<1> DEFINE f == [t \in T |-> CHOOSE i \in E : sl[i].name = name(t)]
<1>5. f \in [T -> E] /\ \A t \in T : sl[f[t]].name = name(t)
  OBVIOUS
<1>6. Cardinality(E) < Cardinality(T)
  BY <1>1, <1>2, <1>4
<1> HIDE DEF f, E, T
<1>7. \E x, y \in T : x # y /\ f[x] = f[y]
  BY <1>2, <1>4, <1>5, <1>6, FS_PigeonHole
<1>8. \A x, y : name(x) = name(y) => x = y
  <2> SUFFICES ASSUME NEW x, NEW y, name(x) = name(y) PROVE x = y
    OBVIOUS
  <2>1. name(x).tail = x /\ name(y).tail = y
    OBVIOUS
  <2> QED
    BY <2>1
<1>9. PICK x \in T, y \in T : x # y /\ f[x] = f[y]
  BY <1>7
<1>10. name(x) = name(y)
  BY <1>5, <1>9
<1> HIDE DEF name
<1> QED
  BY <1>8, <1>9, <1>10

LEMMA ShortNameIs ==
  ASSUME NEW sl, Sound(sl), Len(sl) < MaxTail, NEW n, n \in Names \/ n \in {AsShort(m) : m \in Names},
         n.tag # "long" => \A j \in Entries(sl) : sl[j].name # n.text
  PROVE  /\ ShortName(sl, n) \in ShortNames
         /\ \A j \in Entries(sl) : sl[j].name # ShortName(sl, n)
         /\ IF n.tag = "long" THEN ShortName(sl, n).stem = Stem[n.text] /\ ShortName(sl, n).tail > 0
                              ELSE ShortName(sl, n) = n.text
<1>1. CASE n.tag = "long"
  <2> DEFINE stem == Stem[n.text]
             T == Tails(sl, stem)
             t == Min(T)
  <2>1. T # {}
    BY TailThere
  <2> HIDE DEF stem
  <2>10. T \in SUBSET Nat
    BY DirAssumption DEF Tails
  <2>2. t \in T
    BY <2>1, <2>10, MinIn
  <2>3. t \in 1 .. MaxTail /\ \A j \in Entries(sl) : sl[j].name # [stem |-> stem, tail |-> t]
    BY <2>2 DEF Tails
  <2>4. ShortName(sl, n) = [stem |-> stem, tail |-> t]
    BY <1>1 DEF ShortName, stem
  <2>5. n \in Names
    <3> SUFFICES ASSUME NEW m \in Names, n = AsShort(m) PROVE n \in Names
      OBVIOUS
    <3>1. m.tag # "long" => n.tag = "short"
      BY DirAssumption DEF AsShort
    <3> QED
      BY <1>1, <3>1 DEF AsShort
  <2>6. [stem |-> stem, tail |-> t] \in ShortNames
    <3>1. stem \in {Stem[m.text] : m \in {x \in Names : x.tag = "long"}}
      BY <1>1, <2>5 DEF stem
    <3>2. t \in 0 .. MaxTail
      BY <2>3
    <3> QED
      BY <3>1, <3>2 DEF ShortNames
  <2> HIDE DEF t
  <2> QED
    BY <1>1, <2>3, <2>4, <2>6 DEF stem
<1>2. CASE n.tag # "long"
  <2>1. n.text \in ShortNames
    <3>1. CASE n \in Names
      BY <1>2, <3>1, DirAssumption
    <3>2. ASSUME NEW m \in Names, n = AsShort(m) PROVE n.text \in ShortNames
      <4>1. m.tag # "long" /\ m.text \in ShortNames /\ m = [tag |-> m.tag, text |-> m.text]
        BY <1>2, <3>2, DirAssumption DEF AsShort
      <4>2. [m EXCEPT !.tag = "short"].text = m.text
        BY <4>1
      <4> QED
        BY <3>2, <4>1, <4>2 DEF AsShort
    <3> QED
      BY <3>1, <3>2
  <2> QED
    BY <1>2, <2>1 DEF ShortName
<1> QED
  BY <1>1, <1>2

(* A name that a call can be given, and what it puts in the directory.     *)
Asked == Names \cup {AsShort(n) : n \in Names}

LEMMA AskedFacts ==
  ASSUME NEW n \in Asked
  PROVE  /\ Given(n) /\ n.tag \in {"long", "short", "mixed"}
         /\ n.tag = "long" => n \in Names
         /\ n \in Names \/ n \in {AsShort(m) : m \in Names}
<1>1. CASE n \in Names
  BY <1>1, DirAssumption DEF Given, Texts
<1>2. ASSUME NEW m \in Names, n = AsShort(m)
      PROVE  Given(n) /\ n.tag \in {"long", "short", "mixed"} /\ (n.tag = "long" => n \in Names)
  <2>1. CASE m.tag = "long"
    BY <1>1, <1>2, <2>1 DEF AsShort, Given, Texts
  <2>2. CASE m.tag # "long"
    <3>1. m = [tag |-> m.tag, text |-> m.text]
      BY DirAssumption
    <3>2. [m EXCEPT !.tag = "short"].tag = "short"
      BY <3>1
    <3> QED
      BY <1>2, <2>2, <3>2 DEF AsShort, Given
  <2> QED
    BY <2>1, <2>2
<1> QED
  BY <1>1, <1>2 DEF Asked

Adds(sl, d, n, short, start, dir) ==
  \E last \in Entries(d) \ Entries(sl) :
    /\ Entries(d) = Entries(sl) \cup {last}
    /\ \A j \in Entries(sl) : Same(sl, d, j)
    /\ d[last] = NewEntry(short, start, dir)
    /\ LongAt(d, last) = IF n.tag = "short" THEN NoText ELSE n

(* The slots with a new name, after the directory has grown for it.        *)
LEMMA PlacedIs ==
  ASSUME NEW sl, Sound(sl), Len(sl) < MaxTail, NEW n \in Asked, Bearing(sl, n) = {}, HasRoom(sl, n),
         NEW c \in Nat, Len(sl) = PerSector * c,
         NEW start \in Clusters \cup {NoCluster}, NEW dir \in BOOLEAN
  PROVE  LET d == Placed(sl, n, start, dir) IN
         /\ Sound(d) /\ Len(d) = Len(sl) + Growth(sl, n) * PerSector
         /\ Adds(sl, d, n, ShortName(sl, n), start, dir)
<1> DEFINE g == Growth(sl, n)
           w == Grown(sl, g)
           short == ShortName(sl, n)
           d == createLFNs(w, n, short, start, dir)
           last == Spot(w, n) + required_free(n) - 1
<1>1. Given(n) /\ n.tag \in {"long", "short", "mixed"}
  BY AskedFacts
<1>2. g \in Nat /\ Spot(sl, n) + required_free(n) - 1 <= Len(sl) + g * PerSector
  BY <1>1, RoomFor
<1>3. /\ Sound(w) /\ Len(w) = Len(sl) + g * PerSector /\ Entries(w) = Entries(sl)
      /\ \A j \in Entries(sl) : Same(sl, w, j)
  BY <1>2, GrownKeeps
<1>4. Spot(w, n) = Spot(sl, n)
  BY <1>1, <1>2, SpotGrown
<1>5. /\ n.tag # "long" => \A j \in Entries(sl) : sl[j].name # n.text
      /\ n.tag = "long" => \A j \in Entries(sl) : LongAt(sl, j) # n
  BY DEF Bearing
<1>6. short \in ShortNames /\ \A j \in Entries(sl) : sl[j].name # short
  BY <1>5, AskedFacts, ShortNameIs
<1> HIDE DEF g, w, short
<1>7. /\ \A j \in Entries(w) : w[j].name # short
      /\ n.tag = "long" => \A j \in Entries(w) : LongAt(w, j) # n
  BY <1>3, <1>5, <1>6 DEF Same
<1>8. Spot(w, n) + required_free(n) - 1 <= Len(w)
  BY <1>2, <1>3, <1>4
<1>9. /\ Sound(d) /\ Len(d) = Len(w)
      /\ last \notin Entries(w) /\ Entries(d) = Entries(w) \cup {last}
      /\ \A j \in Entries(w) : Same(w, d, j)
      /\ d[last] = NewEntry(short, start, dir)
      /\ LongAt(d, last) = IF n.tag = "short" THEN NoText ELSE n
  BY <1>1, <1>3, <1>6, <1>7, <1>8, CreateKeeps
<1> HIDE DEF d, last
<1>10. \A j \in Entries(sl) : Same(sl, d, j)
  BY <1>3, <1>9 DEF Same
<1>11. Adds(sl, d, n, short, start, dir)
  BY <1>3, <1>9, <1>10 DEF Adds
<1> QED
  BY <1>3, <1>9, <1>11 DEF Placed, d, w, g, short

-----------------------------------------------------------------------------
(* Whose the clusters are: of those in use, us, the directory has ch and   *)
(* each entry that has begun has one.                                      *)
Begun(sl) == {i \in Entries(sl) : sl[i].start # NoCluster}
Own(sl, ch, us) ==
  /\ ch \subseteq us /\ us \subseteq Clusters
  /\ us = ch \cup {sl[i].start : i \in Begun(sl)}
  /\ \A i \in Begun(sl) : sl[i].start \notin ch
  /\ \A i, j \in Begun(sl) : sl[i].start = sl[j].start => i = j

(* One slot changes what it has, and the directory gets more.              *)
LEMMA OwnChange ==
  ASSUME NEW sl, NEW d, NEW ch, NEW us, Own(sl, ch, us), NEW i,
         Entries(d) \ {i} = Entries(sl) \ {i},
         \A j \in Entries(sl) \ {i} : d[j].start = sl[j].start,
         NEW gone, gone = IF i \in Entries(sl) THEN sl[i].start ELSE NoCluster,
         NEW begun, begun = IF i \in Entries(d) THEN d[i].start ELSE NoCluster,
         NEW more \in SUBSET (Clusters \ us),
         begun \in {NoCluster, gone} \cup (Clusters \ (us \cup more))
  PROVE  Own(d, ch \cup more, ((us \ {gone}) \cup more \cup {begun}) \ {NoCluster})
<1> DEFINE new == ((us \ {gone}) \cup more \cup {begun}) \ {NoCluster}
<1>1. NoCluster \notin Clusters
  BY DirAssumption
<1>2. gone # NoCluster => i \in Begun(sl) /\ gone \in us /\ gone \notin ch
  BY DEF Own, Begun
<1>3. begun # NoCluster => i \in Begun(d)
  BY DEF Begun
<1>4. \A j : j # i => (j \in Begun(d) <=> j \in Begun(sl))
  BY DEF Begun
<1>5. \A j \in Begun(sl) : j # i => d[j].start = sl[j].start
  BY DEF Begun
<1>6. \A j \in Begun(sl) : j # i => sl[j].start # gone
  BY <1>2 DEF Own, Begun
<1>7. i \in Begun(d) => d[i].start = begun /\ begun # NoCluster
  BY DEF Begun
<1>8. begun # NoCluster => begun \in Clusters
  BY <1>2 DEF Own
<1>9. \A j \in Begun(sl) : sl[j].start \in us
  BY DEF Own
<1>10. ch \cup more \subseteq new /\ new \subseteq Clusters
  BY <1>1, <1>2, <1>8 DEF Own
<1>11. \A j \in Begun(d) : d[j].start \in new /\ d[j].start \notin ch \cup more
  <2> SUFFICES ASSUME NEW j \in Begun(d) PROVE d[j].start \in new /\ d[j].start \notin ch \cup more
    OBVIOUS
  <2>1. CASE j = i
    BY <1>2, <1>7, <2>1 DEF Own
  <2>2. CASE j # i
    <3>1. j \in Begun(sl) /\ d[j].start = sl[j].start /\ sl[j].start # gone
      BY <1>4, <1>5, <1>6, <2>2
    <3> QED
      BY <1>1, <1>9, <3>1 DEF Own
  <2> QED
    BY <2>1, <2>2
<1>12. ASSUME NEW u \in new PROVE u \in (ch \cup more) \cup {d[j].start : j \in Begun(d)}
  <2>1. CASE u = begun
    BY <1>3, <1>7, <2>1
  <2>2. CASE u \in us \ {gone} /\ u \notin ch
    <3>1. PICK j \in Begun(sl) : u = sl[j].start
      BY <2>2 DEF Own
    <3>2. j # i
      BY <2>2, <3>1 DEF Begun
    <3> QED
      BY <1>4, <1>5, <3>1, <3>2
  <2> QED
    BY <2>1, <2>2
<1>13. new = (ch \cup more) \cup {d[j].start : j \in Begun(d)}
  BY <1>10, <1>11, <1>12
<1>14. ASSUME NEW x \in Begun(d), NEW y \in Begun(d), d[x].start = d[y].start, x # y PROVE FALSE
  <2>1. CASE x = i
    <3>1. y \in Begun(sl) /\ d[y].start = sl[y].start /\ sl[y].start # gone /\ sl[y].start \in us
      BY <1>4, <1>5, <1>6, <1>9, <1>14, <2>1
    <3> QED
      BY <1>7, <1>14, <2>1, <3>1
  <2>2. CASE y = i
    <3>1. x \in Begun(sl) /\ d[x].start = sl[x].start /\ sl[x].start # gone /\ sl[x].start \in us
      BY <1>4, <1>5, <1>6, <1>9, <1>14, <2>2
    <3> QED
      BY <1>7, <1>14, <2>2, <3>1
  <2>3. CASE x # i /\ y # i
    BY <1>4, <1>5, <1>14, <2>3 DEF Own
  <2> QED
    BY <2>1, <2>2, <2>3
<1> QED
  BY <1>10, <1>11, <1>13, <1>14 DEF Own

LEMMA OwnAdded ==
  ASSUME NEW d, NEW r, NEW ch, NEW us, Own(d, ch, us), NEW n, NEW name, NEW start, NEW dir,
         Adds(d, r, n, name, start, dir), start \in {NoCluster} \cup (Clusters \ us)
  PROVE  Own(r, ch, (us \cup {start}) \ {NoCluster})
<1>1. PICK i \in Entries(r) \ Entries(d) :
           /\ Entries(r) = Entries(d) \cup {i}
           /\ \A j \in Entries(d) : Same(d, r, j)
           /\ r[i] = NewEntry(name, start, dir)
  BY DEF Adds
<1>2. NoCluster = IF i \in Entries(d) THEN d[i].start ELSE NoCluster
  BY <1>1
<1>3. start = IF i \in Entries(r) THEN r[i].start ELSE NoCluster
  BY <1>1 DEF NewEntry
<1>4. Entries(r) \ {i} = Entries(d) \ {i} /\ \A j \in Entries(d) \ {i} : r[j].start = d[j].start
  BY <1>1 DEF Same
<1>5. start \in {NoCluster} \cup (Clusters \ (us \cup {})) /\ {} \in SUBSET (Clusters \ us)
  OBVIOUS
<1>6. Own(r, ch \cup {}, ((us \ {NoCluster}) \cup {} \cup {start}) \ {NoCluster})
  BY <1>2, <1>3, <1>4, <1>5, OwnChange
<1>7. ch \cup {} = ch /\ ((us \ {NoCluster}) \cup {} \cup {start}) \ {NoCluster} = (us \cup {start}) \ {NoCluster}
  OBVIOUS
<1> QED
  BY <1>6, <1>7

(* All of it: sound slots, owned clusters, and as many sectors as there    *)
(* are clusters for them.                                                  *)
Sectors(ch) == IF Fixed THEN rootsize ELSE Cardinality(ch)
Kept(sl, ch, us) == Sound(sl) /\ Own(sl, ch, us) /\ Len(sl) = PerSector * Sectors(ch)

LEMMA KeptLength ==
  ASSUME rootsize \in RootSizes, NEW sl, NEW ch, NEW us, Kept(sl, ch, us)
  PROVE  /\ Sectors(ch) \in Nat /\ Len(sl) = PerSector * Sectors(ch) /\ Len(sl) < MaxTail
         /\ IsFiniteSet(ch) /\ IsFiniteSet(us)
<1> DEFINE C == Cardinality(Clusters)
<1>1. ch \subseteq Clusters /\ us \subseteq Clusters
  BY DEF Kept, Own
<1>2. /\ IsFiniteSet(ch) /\ Cardinality(ch) \in Nat /\ C \in Nat /\ Cardinality(ch) <= C
      /\ IsFiniteSet(us)
  <2>1. IsFiniteSet(Clusters)
    BY DirAssumption
  <2> QED
    BY <1>1, <2>1, FS_Subset, FS_CardinalityType
<1>3. PerSector \in Nat \ {0} /\ rootsize \in Nat /\ MaxTail \in Nat
  BY DirAssumption
<1>4. PerSector * rootsize < MaxTail /\ PerSector * C < MaxTail
  BY DirAssumption
<1> HIDE DEF C
<1>5. PerSector * Cardinality(ch) <= PerSector * C
  BY <1>2, <1>3
<1>6. PerSector * Cardinality(ch) \in Nat /\ PerSector * C \in Nat
  BY <1>2, <1>3
<1>7. PerSector * Cardinality(ch) < MaxTail
  BY <1>3, <1>4, <1>5, <1>6
<1> QED
  BY <1>2, <1>3, <1>4, <1>7 DEF Kept, Sectors

(* More clusters are more slots.                                           *)
Makes(sl, ch, more) == Len(sl) + Cardinality(more) * PerSector = PerSector * Sectors(ch \cup more)

LEMMA KeptGrown ==
  ASSUME rootsize \in RootSizes, NEW sl, NEW ch, NEW us, Kept(sl, ch, us),
         NEW more \in SUBSET (Clusters \ us), Fixed => Cardinality(more) = 0
  PROVE  IsFiniteSet(more) /\ Cardinality(more) \in Nat /\ Makes(sl, ch, more)
<1>1. IsFiniteSet(ch) /\ Sectors(ch) \in Nat /\ Len(sl) = PerSector * Sectors(ch)
  BY KeptLength
<1>2. IsFiniteSet(more) /\ Cardinality(more) \in Nat
  BY DirAssumption, FS_Subset, FS_CardinalityType
<1>3. PerSector \in Nat
  BY DirAssumption
<1>4. CASE Fixed
  BY <1>1, <1>2, <1>3, <1>4 DEF Sectors, Makes
<1>5. CASE ~Fixed
  <2>1. ch \cap more = {}
    BY DEF Kept, Own
  <2>2. Cardinality(ch \cup more) = Cardinality(ch) + Cardinality(more) - Cardinality({})
    BY <1>1, <1>2, <2>1, FS_Union
  <2>3. Cardinality(ch) \in Nat /\ Cardinality({}) = 0
    BY <1>1, FS_CardinalityType, FS_EmptySet
  <2>4. Cardinality(ch \cup more) = Cardinality(ch) + Cardinality(more)
    BY <1>2, <2>2, <2>3
  <2>5. PerSector * (Cardinality(ch) + Cardinality(more)) = PerSector * Cardinality(ch) + Cardinality(more) * PerSector
    BY <1>2, <1>3, <2>3
  <2>6. Sectors(ch) = Cardinality(ch) /\ Sectors(ch \cup more) = Cardinality(ch) + Cardinality(more)
    BY <1>5, <2>4 DEF Sectors
  <2>7. Len(sl) = PerSector * Cardinality(ch)
    BY <1>1, <2>6
  <2>8. Len(sl) + Cardinality(more) * PerSector = PerSector * (Cardinality(ch) + Cardinality(more))
    BY <2>5, <2>7
  <2> QED
    BY <1>2, <2>6, <2>8 DEF Makes
<1> QED
  BY <1>2, <1>4, <1>5

(* A new name, with the clusters the directory needs for it.               *)
LEMMA PlacedKept ==
  ASSUME rootsize \in RootSizes, NEW sl, NEW ch, NEW us, Kept(sl, ch, us),
         NEW n \in Asked, Bearing(sl, n) = {}, HasRoom(sl, n),
         NEW more \in SUBSET (Clusters \ us), Cardinality(more) = Growth(sl, n),
         NEW start \in {NoCluster} \cup (Clusters \ (us \cup more)), NEW dir \in BOOLEAN
  PROVE  LET d == Placed(sl, n, start, dir) IN
         /\ Kept(d, ch \cup more, (us \cup more \cup {start}) \ {NoCluster})
         /\ Adds(sl, d, n, ShortName(sl, n), start, dir)
<1> DEFINE d == Placed(sl, n, start, dir)
<1>1. Sectors(ch) \in Nat /\ Len(sl) = PerSector * Sectors(ch) /\ Len(sl) < MaxTail
  BY KeptLength
<1>2. Sound(sl) /\ Own(sl, ch, us)
  BY DEF Kept
<1>3. Sound(d) /\ Len(d) = Len(sl) + Cardinality(more) * PerSector
      /\ Adds(sl, d, n, ShortName(sl, n), start, dir)
  BY <1>1, <1>2, PlacedIs
<1> HIDE DEF d
<1>4. Fixed => Cardinality(more) = 0
  BY DEF Growth
<1>5. Len(d) = PerSector * Sectors(ch \cup more)
  <2>1. Len(sl) + Cardinality(more) * PerSector = PerSector * Sectors(ch \cup more)
    BY <1>4, KeptGrown DEF Makes
  <2> QED
    BY <1>3, <2>1
<1>6. PICK i \in Entries(d) \ Entries(sl) :
           /\ Entries(d) = Entries(sl) \cup {i}
           /\ \A j \in Entries(sl) : Same(sl, d, j)
           /\ d[i] = NewEntry(ShortName(sl, n), start, dir)
  BY <1>3 DEF Adds
<1>7. Entries(d) \ {i} = Entries(sl) \ {i} /\ d[i].start = start
      /\ \A j \in Entries(sl) \ {i} : d[j].start = sl[j].start
  BY <1>6 DEF Same, NewEntry
<1>8. Own(d, ch \cup more, ((us \ {NoCluster}) \cup more \cup {start}) \ {NoCluster})
  <2>1. NoCluster = IF i \in Entries(sl) THEN sl[i].start ELSE NoCluster
    BY <1>6
  <2>2. start = IF i \in Entries(d) THEN d[i].start ELSE NoCluster
    BY <1>6, <1>7
  <2> QED
    BY <1>2, <1>7, <2>1, <2>2, OwnChange
<1>9. ((us \ {NoCluster}) \cup more \cup {start}) \ {NoCluster} = (us \cup more \cup {start}) \ {NoCluster}
  OBVIOUS
<1> QED
  BY <1>3, <1>5, <1>8, <1>9 DEF Kept, d

(* An entry goes, with its cluster.                                        *)
LEMMA DeletedKept ==
  ASSUME rootsize \in RootSizes, NEW sl, NEW ch, NEW us, Kept(sl, ch, us),
         NEW i \in Entries(sl), ~Misled(sl, i)
  PROVE  LET d == deleteLFNs(sl, i) IN
         /\ Kept(d, ch, us \ {sl[i].start})
         /\ Entries(d) = Entries(sl) \ {i} /\ \A j \in Entries(d) : Same(sl, d, j)
<1> DEFINE d == deleteLFNs(sl, i)
<1>1. Sound(sl) /\ Own(sl, ch, us) /\ Len(sl) = PerSector * Sectors(ch)
  BY DEF Kept
<1>2. Sound(d) /\ Len(d) = Len(sl) /\ Entries(d) = Entries(sl) \ {i} /\ \A j \in Entries(d) : Same(sl, d, j)
  BY <1>1, DeleteKeeps
<1> HIDE DEF d
<1> DEFINE gone == sl[i].start
<1>3. Own(d, ch \cup {}, ((us \ {gone}) \cup {} \cup {NoCluster}) \ {NoCluster})
  <2>1. gone = IF i \in Entries(sl) THEN sl[i].start ELSE NoCluster
    OBVIOUS
  <2>2. NoCluster = IF i \in Entries(d) THEN d[i].start ELSE NoCluster
    BY <1>2
  <2>3. Entries(d) \ {i} = Entries(sl) \ {i} /\ \A j \in Entries(sl) \ {i} : d[j].start = sl[j].start
    BY <1>2 DEF Same
  <2> HIDE DEF gone
  <2> QED
    BY <1>1, <2>1, <2>2, <2>3, OwnChange
<1>4. ch \cup {} = ch /\ ((us \ {gone}) \cup {} \cup {NoCluster}) \ {NoCluster} = us \ {gone}
  BY <1>1, DirAssumption DEF Own
<1> QED
  BY <1>1, <1>2, <1>3, <1>4 DEF Kept, d

(* An entry gets another cluster, or none, or a name without a long one.   *)
LEMMA UpdatedKept ==
  ASSUME rootsize \in RootSizes, NEW sl, NEW ch, NEW us, Kept(sl, ch, us),
         NEW i \in Entries(sl), NEW x \in EntrySlots, Nameable(sl, i, x.name),
         x.start \in {NoCluster, sl[i].start} \cup (Clusters \ us)
  PROVE  LET d == [sl EXCEPT ![i] = x] IN
         /\ Kept(d, ch, ((us \ {sl[i].start}) \cup {x.start}) \ {NoCluster})
         /\ Entries(d) = Entries(sl) /\ d[i] = x /\ LongAt(d, i) = LongAt(sl, i)
         /\ \A j \in Entries(sl) \ {i} : Same(sl, d, j)
<1> DEFINE d == [sl EXCEPT ![i] = x]
<1>1. Sound(sl) /\ Own(sl, ch, us) /\ Len(sl) = PerSector * Sectors(ch)
  BY DEF Kept
<1>2. /\ Sound(d) /\ Len(d) = Len(sl) /\ Entries(d) = Entries(sl) /\ d[i] = x
      /\ \A j \in Entries(sl) \ {i} : Same(sl, d, j)
      /\ LongAt(d, i) = LongAt(sl, i)
  BY <1>1, UpdateKeeps
<1> HIDE DEF d
<1> DEFINE gone == sl[i].start
           begun == x.start
<1>3. Own(d, ch \cup {}, ((us \ {gone}) \cup {} \cup {begun}) \ {NoCluster})
  <2>1. gone = IF i \in Entries(sl) THEN sl[i].start ELSE NoCluster
    OBVIOUS
  <2>2. begun = IF i \in Entries(d) THEN d[i].start ELSE NoCluster
    BY <1>2
  <2>3. Entries(d) \ {i} = Entries(sl) \ {i} /\ \A j \in Entries(sl) \ {i} : d[j].start = sl[j].start
    BY <1>2 DEF Same
  <2>4. begun \in {NoCluster, gone} \cup (Clusters \ (us \cup {}))
    OBVIOUS
  <2> HIDE DEF gone, begun
  <2> QED
    BY <1>1, <2>1, <2>2, <2>3, <2>4, OwnChange
<1>4. ch \cup {} = ch /\ (us \ {gone}) \cup {} \cup {begun} = (us \ {gone}) \cup {begun}
  OBVIOUS
<1> QED
  BY <1>1, <1>2, <1>3, <1>4 DEF Kept, d

(* The directory takes clusters and gets no name.                          *)
LEMMA GrownKept ==
  ASSUME rootsize \in RootSizes, NEW sl, NEW ch, NEW us, Kept(sl, ch, us),
         NEW more \in SUBSET (Clusters \ us), Fixed => Cardinality(more) = 0
  PROVE  LET d == Grown(sl, Cardinality(more)) IN
         /\ Kept(d, ch \cup more, us \cup more)
         /\ Entries(d) = Entries(sl) /\ \A j \in Entries(sl) : Same(sl, d, j)
<1> DEFINE d == Grown(sl, Cardinality(more))
<1>1. Sound(sl) /\ Own(sl, ch, us)
  BY DEF Kept
<1>2. Cardinality(more) \in Nat /\ Len(sl) + Cardinality(more) * PerSector = PerSector * Sectors(ch \cup more)
  <2>1. /\ rootsize \in RootSizes /\ Kept(sl, ch, us)
        /\ more \in SUBSET (Clusters \ us) /\ (Fixed => Cardinality(more) = 0)
    OBVIOUS
  <2>2. Cardinality(more) \in Nat /\ Makes(sl, ch, more)
    BY ONLY <2>1, KeptGrown
  <2> QED
    BY ONLY <2>2 DEF Makes
<1>3. /\ Sound(d) /\ Len(d) = Len(sl) + Cardinality(more) * PerSector
      /\ Entries(d) = Entries(sl) /\ \A j \in Entries(sl) : Same(sl, d, j)
  BY <1>1, <1>2, GrownKeeps
<1> HIDE DEF d
<1>4. Own(d, ch \cup more, us \cup more)
  <2>1. Begun(d) = Begun(sl) /\ \A j \in Begun(sl) : d[j].start = sl[j].start
    BY <1>3 DEF Begun, Same
  <2>2. \A j \in Begun(sl) : sl[j].start \in us
    BY <1>1 DEF Own
  <2>3. {d[j].start : j \in Begun(d)} = {sl[j].start : j \in Begun(sl)}
    BY <2>1
  <2> QED
    BY <1>1, <2>1, <2>2, <2>3 DEF Own
<1> QED
  BY <1>2, <1>3, <1>4 DEF Kept, d

-----------------------------------------------------------------------------
(* What the parts of the calls do to the entries, and that they keep the   *)
(* rest in order.  Without the slips named here.                           *)
Removes(sl, d, i) == Entries(d) = Entries(sl) \ {i} /\ \A j \in Entries(d) : Same(sl, d, j)
Replaces(sl, d, i, x) ==
  /\ Entries(d) = Entries(sl) /\ d[i] = x /\ LongAt(d, i) = LongAt(sl, i)
  /\ \A j \in Entries(sl) \ {i} : Same(sl, d, j)
Begins(x, c) == [x EXCEPT !.start = c]
Stays(sl, d) == Entries(d) = Entries(sl) /\ \A j \in Entries(sl) : Same(sl, d, j)

InOrder == rootsize \in RootSizes /\ Kept(slots, chain, used)
KeptAfter == Kept(slots, chain, used)'

LEMMA KeptThen ==
  rootsize' = rootsize => (KeptAfter <=> Kept(slots', chain', used'))
BY DEF KeptAfter, Kept, Sectors, Fixed, Sound, Own, EndsLast, Whole, NamesDiffer, TextsDiffer, NoOrphan,
       Entries, LongAt, Length, Is, Begun

LEMMA AtIs ==
  ASSUME InOrder, NEW n \in Names
  PROVE  /\ Absent(At(n)) => Bearing(slots, n) = {}
         /\ Present(At(n)) => /\ At(n) \in Entries(slots) /\ Bearing(slots, n) = {At(n)}
                              /\ slots[At(n)] \in EntrySlots
<1>1. Sound(slots)
  BY DEF InOrder, Kept
<1>2. \A i \in Entries(slots) : slots[i] \in EntrySlots
  BY <1>1, SlotKinds DEF Sound, Entries
<1> QED
  BY <1>1, <1>2, FoundIs DEF At, Absent, Present, notfound

LEMMA EntryFields ==
  ASSUME NEW x \in EntrySlots
  PROVE  /\ x = [tag |-> "entry", name |-> x.name, start |-> x.start, dir |-> x.dir]
         /\ x.name \in ShortNames /\ x.start \in Clusters \cup {NoCluster} /\ x.dir \in BOOLEAN
BY DEF EntrySlots

LEMMA FreeIs == Free = Clusters \ used
BY DEF Free

LEMMA NewFileDoes ==
  ASSUME InOrder, NEW n \in Names, Absent(At(n)), NewFile(n)
  PROVE  KeptAfter /\ Adds(slots, slots', n, ShortName(slots, n), NoCluster, FALSE)
<1>1. rootsize \in RootSizes /\ Kept(slots, chain, used) /\ n \in Asked /\ HasRoom(slots, n)
      /\ Bearing(slots, n) = {} /\ rootsize' = rootsize
  BY AtIs DEF InOrder, Asked, NewFile
<1>2. PICK more \in SUBSET (Clusters \ used) :
           Cardinality(more) = Growth(slots, n) /\ chain' = chain \cup more /\ used' = used \cup more
  BY DEF NewFile, fatChain_Gets, Free
<1>3. slots' = Placed(slots, n, NoCluster, FALSE)
  BY DEF NewFile
<1>4. /\ Kept(slots', chain \cup more, (used \cup more \cup {NoCluster}) \ {NoCluster})
      /\ Adds(slots, slots', n, ShortName(slots, n), NoCluster, FALSE)
  BY <1>1, <1>2, <1>3, PlacedKept
<1>5. (used \cup more \cup {NoCluster}) \ {NoCluster} = used \cup more
  BY <1>1, DirAssumption DEF Kept, Own
<1> QED
  BY <1>1, <1>2, <1>4, <1>5, KeptThen

LEMMA NewDirDoes ==
  ASSUME InOrder, NEW n \in Names, Absent(At(n)), HasRoom(slots, n), NewDir(n), rootsize' = rootsize,
         "orphan" \notin Slips
  PROVE  /\ KeptAfter
         /\ \/ /\ Answered("create directory", <<n>>, TRUE)
               /\ \E c \in Free : Adds(slots, slots', n, ShortName(slots, n), c, TRUE)
            \/ Answered("create directory", <<n>>, FALSE) /\ Stays(slots, slots')
<1>1. rootsize \in RootSizes /\ Kept(slots, chain, used) /\ n \in Asked /\ Bearing(slots, n) = {}
  BY AtIs DEF InOrder, Asked
<1>2. PICK more \in SUBSET (Clusters \ used) :
        /\ Cardinality(more) = Growth(slots, n) /\ chain' = chain \cup more
        /\ \/ \E c \in Free \ more : /\ used' = used \cup more \cup {c} /\ slots' = Placed(slots, n, c, TRUE)
                                     /\ Answered("create directory", <<n>>, TRUE)
           \/ /\ slots' = Grown(slots, Growth(slots, n)) /\ used' = used \cup more
              /\ Answered("create directory", <<n>>, FALSE)
  BY DEF NewDir, fatChain_Gets, Free, Slip
<1>3. ASSUME NEW c \in Free \ more, used' = used \cup more \cup {c}, slots' = Placed(slots, n, c, TRUE)
      PROVE  KeptAfter /\ Adds(slots, slots', n, ShortName(slots, n), c, TRUE)
  <2>1. c \in {NoCluster} \cup (Clusters \ (used \cup more))
    BY DEF Free
  <2>2. /\ Kept(slots', chain \cup more, (used \cup more \cup {c}) \ {NoCluster})
        /\ Adds(slots, slots', n, ShortName(slots, n), c, TRUE)
    BY <1>1, <1>2, <1>3, <2>1, PlacedKept
  <2>3. (used \cup more \cup {c}) \ {NoCluster} = used \cup more \cup {c}
    BY <1>1, DirAssumption DEF Kept, Own, Free
  <2> QED
    BY <1>2, <1>3, <2>2, <2>3, KeptThen
<1>4. ASSUME slots' = Grown(slots, Growth(slots, n)), used' = used \cup more
      PROVE  KeptAfter /\ Stays(slots, slots')
  <2>1. Fixed => Cardinality(more) = 0
    BY <1>2 DEF Growth
  <2>2. Kept(slots', chain \cup more, used \cup more)
        /\ Entries(slots') = Entries(slots) /\ \A j \in Entries(slots) : Same(slots, slots', j)
    BY <1>1, <1>2, <1>4, <2>1, GrownKept
  <2> QED
    BY <1>2, <1>4, <2>2, KeptThen DEF Stays
<1> QED
  BY <1>2, <1>3, <1>4

LEMMA GrowsInVain ==
  ASSUME rootsize \in RootSizes, NEW sl, Kept(sl, chain, used), NEW n, fatChain_Fails(sl, n)
  PROVE  KeptAfter /\ Stays(sl, slots')
<1>1. IsFiniteSet(Free) /\ Cardinality(Free) \in Nat
  BY DirAssumption, FS_Subset, FS_CardinalityType DEF Free
<1>2. ~Fixed
  BY <1>1 DEF fatChain_Fails, Growth
<1>3. Free \in SUBSET (Clusters \ used) /\ used \cup Free = Clusters
  BY DEF Free, Kept, Own
<1>4. Kept(slots', chain \cup Free, used \cup Free)
      /\ Entries(slots') = Entries(sl) /\ \A j \in Entries(sl) : Same(sl, slots', j)
  BY <1>2, <1>3, GrownKept DEF fatChain_Fails
<1> QED
  BY <1>3, <1>4, KeptThen DEF Stays, fatChain_Fails

LEMMA TruncatedDoes ==
  ASSUME InOrder, NEW i \in Entries(slots), Truncated(i)
  PROVE  KeptAfter /\ Replaces(slots, slots', i, Begins(slots[i], NoCluster))
<1> DEFINE x == [slots[i] EXCEPT !.start = NoCluster]
<1>1. rootsize \in RootSizes /\ Kept(slots, chain, used) /\ rootsize' = rootsize /\ chain' = chain
      /\ used' = used \ {slots[i].start} /\ slots[i] \in EntrySlots
  BY SlotKinds DEF InOrder, Truncated, Kept, Sound, Entries
<1>2. x \in EntrySlots /\ x.name = slots[i].name /\ x.start = NoCluster
  BY <1>1 DEF EntrySlots
<1>3. slots' = [slots EXCEPT ![i] = x]
  BY DEF Truncated
<1> HIDE DEF x
<1>4. Kept(slots', chain, ((used \ {slots[i].start}) \cup {NoCluster}) \ {NoCluster})
      /\ Replaces(slots, slots', i, x)
  <2>1. Nameable(slots, i, x.name) /\ x.start \in {NoCluster, slots[i].start} \cup (Clusters \ used)
    BY <1>1, <1>2, <1>3 DEF Nameable
  <2>2. LET d == [slots EXCEPT ![i] = x] IN
        /\ Kept(d, chain, ((used \ {slots[i].start}) \cup {x.start}) \ {NoCluster})
        /\ Entries(d) = Entries(slots) /\ d[i] = x /\ LongAt(d, i) = LongAt(slots, i)
        /\ \A j \in Entries(slots) \ {i} : Same(slots, d, j)
    BY <1>1, <1>2, <1>3, <2>1, UpdatedKept
  <2> QED
    BY <1>1, <1>2, <1>3, <2>2 DEF Replaces
<1>5. ((used \ {slots[i].start}) \cup {NoCluster}) \ {NoCluster} = used \ {slots[i].start}
  BY <1>1, DirAssumption DEF Kept, Own
<1> QED
  BY <1>1, <1>4, <1>5, KeptThen DEF x, Begins

LEMMA FirstClusterDoes ==
  ASSUME InOrder, NEW i \in Entries(slots), FirstCluster(i)
  PROVE  /\ KeptAfter
         /\ \E c \in Clusters : Replaces(slots, slots', i, Begins(slots[i], c))
<1>1. rootsize \in RootSizes /\ Kept(slots, chain, used) /\ rootsize' = rootsize /\ chain' = chain
      /\ slots[i] \in EntrySlots /\ slots[i].start = NoCluster
  BY SlotKinds DEF InOrder, FirstCluster, Kept, Sound, Entries
<1>2. PICK c \in Free : slots' = [slots EXCEPT ![i].start = c] /\ used' = used \cup {c}
  BY DEF FirstCluster
<1> DEFINE x == [slots[i] EXCEPT !.start = c]
<1>3. c \in Clusters \ used
  BY DEF Free
<1>4. x \in EntrySlots /\ x.name = slots[i].name /\ x.start = c
  BY <1>1, <1>3 DEF EntrySlots
<1>5. slots' = [slots EXCEPT ![i] = x]
  BY <1>2
<1> HIDE DEF x
<1>6. Kept(slots', chain, ((used \ {slots[i].start}) \cup {c}) \ {NoCluster})
      /\ Replaces(slots, slots', i, x)
  <2>1. Nameable(slots, i, x.name) /\ x.start \in {NoCluster, slots[i].start} \cup (Clusters \ used)
    BY <1>1, <1>3, <1>4, <1>5 DEF Nameable
  <2>2. LET d == [slots EXCEPT ![i] = x] IN
        /\ Kept(d, chain, ((used \ {slots[i].start}) \cup {x.start}) \ {NoCluster})
        /\ Entries(d) = Entries(slots) /\ d[i] = x /\ LongAt(d, i) = LongAt(slots, i)
        /\ \A j \in Entries(slots) \ {i} : Same(slots, d, j)
    BY <1>1, <1>3, <1>4, <1>5, <2>1, UpdatedKept
  <2> QED
    BY <1>1, <1>3, <1>4, <1>5, <2>2 DEF Replaces
<1>7. ((used \ {slots[i].start}) \cup {c}) \ {NoCluster} = used \cup {c}
  BY <1>1, <1>3, DirAssumption DEF Kept, Own
<1> QED
  BY <1>1, <1>2, <1>3, <1>6, <1>7, KeptThen DEF x, Begins

LEMMA AttributesDo ==
  ASSUME InOrder, NEW i \in Entries(slots), NEW dir \in BOOLEAN, slots' = [slots EXCEPT ![i].dir = dir],
         UNCHANGED <<rootsize, chain, used>>
  PROVE  KeptAfter /\ Replaces(slots, slots', i, [slots[i] EXCEPT !.dir = dir])
<1> DEFINE x == [slots[i] EXCEPT !.dir = dir]
<1>1. rootsize \in RootSizes /\ Kept(slots, chain, used) /\ slots[i] \in EntrySlots
  BY SlotKinds DEF InOrder, Kept, Sound, Entries
<1>2. x \in EntrySlots /\ x.name = slots[i].name /\ x.start = slots[i].start
  BY <1>1 DEF EntrySlots
<1>3. slots' = [slots EXCEPT ![i] = x]
  OBVIOUS
<1> HIDE DEF x
<1>4. Kept(slots', chain, ((used \ {slots[i].start}) \cup {slots[i].start}) \ {NoCluster})
      /\ Replaces(slots, slots', i, x)
  <2>1. Nameable(slots, i, x.name) /\ x.start \in {NoCluster, slots[i].start} \cup (Clusters \ used)
    BY <1>1, <1>2, <1>3 DEF Nameable
  <2>2. LET d == [slots EXCEPT ![i] = x] IN
        /\ Kept(d, chain, ((used \ {slots[i].start}) \cup {x.start}) \ {NoCluster})
        /\ Entries(d) = Entries(slots) /\ d[i] = x /\ LongAt(d, i) = LongAt(slots, i)
        /\ \A j \in Entries(slots) \ {i} : Same(slots, d, j)
    BY <1>1, <1>2, <1>3, <2>1, UpdatedKept
  <2> QED
    BY <1>1, <1>2, <1>3, <2>2 DEF Replaces
<1>5. ((used \ {slots[i].start}) \cup {slots[i].start}) \ {NoCluster} = used
  <2>1. slots[i].start # NoCluster => slots[i].start \in used
    BY <1>1 DEF Kept, Own, Begun
  <2> QED
    BY <1>1, <2>1, DirAssumption DEF Kept, Own
<1> QED
  BY <1>4, <1>5, KeptThen DEF x

LEMMA DeleteDoes ==
  ASSUME InOrder, NEW i \in Entries(slots), ~Misled(slots, i), slots' = deleteLFNs(slots, i),
         used' = used \ {slots[i].start}, UNCHANGED <<rootsize, chain>>
  PROVE  KeptAfter /\ Removes(slots, slots', i)
<1>1. rootsize \in RootSizes /\ Kept(slots, chain, used)
  BY DEF InOrder
<1>2. Kept(slots', chain, used') /\ Removes(slots, slots', i)
  BY <1>1, DeletedKept DEF Removes
<1> QED
  BY <1>2, KeptThen

(* A name in its slot.                                                     *)
LEMMA RenamedKept ==
  ASSUME rootsize \in RootSizes, NEW sl, NEW ch, NEW us, Kept(sl, ch, us),
         NEW i \in Entries(sl), LongAt(sl, i) = NoText,
         NEW name \in ShortNames, \A j \in Entries(sl) : sl[j].name # name
  PROVE  LET x == [sl[i] EXCEPT !.name = name]
             d == [sl EXCEPT ![i] = x] IN
         Kept(d, ch, us) /\ Replaces(sl, d, i, x)
<1> DEFINE x == [sl[i] EXCEPT !.name = name]
           d == [sl EXCEPT ![i] = x]
<1>1. sl[i] \in EntrySlots /\ Own(sl, ch, us)
  BY SlotKinds DEF Kept, Sound, Entries
<1>2. x \in EntrySlots /\ x.name = name /\ x.start = sl[i].start
  BY <1>1 DEF EntrySlots
<1> HIDE DEF x
<1>3. Nameable(sl, i, x.name) /\ x.start \in {NoCluster, sl[i].start} \cup (Clusters \ us)
  BY <1>2 DEF Nameable
<1>4. /\ Kept(d, ch, ((us \ {sl[i].start}) \cup {x.start}) \ {NoCluster})
      /\ Entries(d) = Entries(sl) /\ d[i] = x /\ LongAt(d, i) = LongAt(sl, i)
      /\ \A j \in Entries(sl) \ {i} : Same(sl, d, j)
  BY <1>2, <1>3, UpdatedKept
<1>5. ((us \ {sl[i].start}) \cup {sl[i].start}) \ {NoCluster} = us
  <2>1. sl[i].start # NoCluster => sl[i].start \in us
    BY <1>1 DEF Own, Begun
  <2> QED
    BY <1>1, <2>1, DirAssumption DEF Own
<1> QED
  BY <1>2, <1>4, <1>5 DEF Replaces, x

LEMMA RenamedInPlace ==
  ASSUME InOrder, NEW o \in Names, NEW n \in Names, NEW i, i = At(o), Present(i), Absent(At(n)),
         InPlace(o, i, n), slots' = [slots EXCEPT ![i].name = n.text], UNCHANGED <<rootsize, chain, used>>
  PROVE  /\ KeptAfter /\ LongAt(slots, i) = NoText
         /\ Replaces(slots, slots', i, [slots[i] EXCEPT !.name = n.text])
<1>1. rootsize \in RootSizes /\ Kept(slots, chain, used) /\ Sound(slots) /\ i \in Entries(slots)
  BY AtIs DEF InOrder, Kept
<1>2. LongAt(slots, i) = NoText
  <2>1. TakenText(slots, i) = NoText /\ ~Misled(slots, i)
    BY DEF InPlace, Misled, TakenAt
  <2> QED
    BY <1>1, <2>1, TakenIs
<1>3. n.tag # "long" /\ n.text \in ShortNames
  BY DirAssumption DEF InPlace
<1>4. \A j \in Entries(slots) : slots[j].name # n.text
  BY <1>3, AtIs DEF Bearing
<1>5. Kept(slots', chain, used) /\ Replaces(slots, slots', i, [slots[i] EXCEPT !.name = n.text])
  BY <1>1, <1>2, <1>3, <1>4, RenamedKept
<1> QED
  BY <1>2, <1>5, KeptThen

(* The 8.3 name suits the name it is made for.                             *)
Suits(sl, n, short) ==
  /\ short \in ShortNames /\ \A j \in Entries(sl) : sl[j].name # short
  /\ IF n.tag = "long" THEN short.stem = Stem[n.text] /\ short.tail > 0 ELSE short = n.text

LEMMA ShortNameSuits ==
  ASSUME rootsize \in RootSizes, NEW sl, NEW ch, NEW us, Kept(sl, ch, us), NEW n \in Asked, Bearing(sl, n) = {}
  PROVE  Suits(sl, n, ShortName(sl, n))
<1>1. Sound(sl) /\ Len(sl) < MaxTail
  BY KeptLength DEF Kept
<1>2. n \in Names \/ n \in {AsShort(m) : m \in Names}
  BY AskedFacts
<1>3. n.tag # "long" => \A j \in Entries(sl) : sl[j].name # n.text
  BY DEF Bearing
<1> QED
  BY <1>1, <1>2, <1>3, ShortNameIs DEF Suits

LEMMA BearingAsShort ==
  ASSUME NEW sl, NEW n \in Names
  PROVE  Bearing(sl, AsShort(n)) = Bearing(sl, n) /\ AsShort(n) \in Asked
<1>1. n = [tag |-> n.tag, text |-> n.text]
  BY DirAssumption
<1>2. n.tag # "long" => AsShort(n).tag = "short" /\ AsShort(n).text = n.text
  <2>1. [n EXCEPT !.tag = "short"].tag = "short" /\ [n EXCEPT !.tag = "short"].text = n.text
    BY <1>1
  <2> QED
    BY <2>1 DEF AsShort
<1>3. n.tag = "long" => AsShort(n) = n
  BY DEF AsShort
<1> QED
  BY <1>2, <1>3 DEF Bearing, Asked

LEMMA BearingFewer ==
  ASSUME NEW sl, NEW d, NEW i, Removes(sl, d, i), NEW n
  PROVE  Bearing(d, n) = Bearing(sl, n) \ {i}
BY DEF Removes, Bearing, Same

(* The slot that has become free is enough for what stood in it.           *)
LEMMA RestoredKept ==
  ASSUME rootsize \in RootSizes, NEW sl, NEW ch, NEW us, Kept(sl, ch, us),
         NEW i \in Entries(sl), ~Misled(sl, i),
         NEW name \in ShortNames, NEW start \in Clusters \cup {NoCluster}, NEW dir \in BOOLEAN,
         sl[i] = NewEntry(name, start, dir), NEW n, n.tag = "short"
  PROVE  LET d == deleteLFNs(sl, i)
             r == createLFNs(d, n, name, start, dir) IN
         Kept(r, ch, us) /\ Adds(d, r, n, name, start, dir)
<1> DEFINE d == deleteLFNs(sl, i)
           r == createLFNs(d, n, name, start, dir)
           last == Spot(d, n) + required_free(n) - 1
<1>1. Sound(sl) /\ Own(sl, ch, us) /\ Len(sl) = PerSector * Sectors(ch) /\ i \in 1 .. Len(sl)
  BY SlotKinds DEF Kept, Sound, Entries
<1>2. sl[i].name = name /\ sl[i].start = start
  BY DEF NewEntry
<1>3. /\ Sound(d) /\ Own(d, ch, us \ {start}) /\ Len(d) = Len(sl)
      /\ Entries(d) = Entries(sl) \ {i} /\ \A j \in Entries(d) : Same(sl, d, j)
  BY <1>1, <1>2, DeletedKept, DeleteKeeps DEF Kept
<1>4. n.tag = "short" /\ required_free(n) = 1 /\ Given(n)
  BY DEF required_free, Given
<1>5. Unused(d, i)
  <2>1. d[i] = Deleted
    BY <1>1 DEF deleteLFNs, Misled
  <2> QED
    BY <2>1 DEF Unused, Is, Deleted
<1> HIDE DEF d
<1>6. Spot(d, n) <= i /\ Spot(d, n) \in Nat
  <2> DEFINE S == {j \in 1 .. Len(d) + 1 : Unused(d, j)}
  <2>1. S \in SUBSET Nat /\ i \in S
    BY <1>1, <1>3, <1>5
  <2>2. Spot(d, n) = Min(S)
    BY <1>4 DEF Spot, FirstFree
  <2> HIDE DEF S
  <2> QED
    <3>1. S # {}
      BY <2>1
    <3>2. Min(S) \in S /\ \A y \in S : Min(S) <= y
      BY <2>1, <3>1, MinIn
    <3> QED
      BY <2>1, <2>2, <3>2
<1>7. last = Spot(d, n) /\ last <= Len(d)
  BY <1>1, <1>3, <1>4, <1>6
<1>8. \A j \in Entries(d) : d[j].name # name
  BY <1>1, <1>2, <1>3 DEF Same, Sound, NamesDiffer
<1>9. /\ Sound(r) /\ Len(r) = Len(d)
      /\ last \notin Entries(d) /\ Entries(r) = Entries(d) \cup {last}
      /\ \A j \in Entries(d) : Same(d, r, j)
      /\ r[last] = NewEntry(name, start, dir)
      /\ LongAt(r, last) = IF n.tag = "short" THEN NoText ELSE n
  BY <1>3, <1>4, <1>7, <1>8, CreateKeeps
<1> HIDE DEF last, r
<1>10. Adds(d, r, n, name, start, dir)
  BY <1>9 DEF Adds
<1>11. Own(r, ch, ((us \ {start}) \cup {start}) \ {NoCluster})
  BY <1>3, <1>10, OwnAdded
<1>12. ((us \ {start}) \cup {start}) \ {NoCluster} = us
  <2>1. start # NoCluster => start \in us
    BY <1>1, <1>2 DEF Own, Begun
  <2> QED
    BY <1>1, <2>1, DirAssumption DEF Own
<1> QED
  BY <1>1, <1>3, <1>9, <1>10, <1>11, <1>12 DEF Kept, d, r

LEMMA EntryIs ==
  ASSUME NEW x \in EntrySlots
  PROVE  \E name \in ShortNames, start \in Clusters \cup {NoCluster}, dir \in BOOLEAN :
           x = NewEntry(name, start, dir) /\ x.name = name /\ x.start = start /\ x.dir = dir
<1>1. PICK name \in ShortNames, start \in Clusters \cup {NoCluster}, dir \in BOOLEAN :
           x = [tag |-> "entry", name |-> name, start |-> start, dir |-> dir]
  BY DEF EntrySlots
<1>2. x.name = name /\ x.start = start
  BY <1>1
<1>3. x.dir = dir
  BY <1>1, Zenon
<1> QED
  BY <1>1, <1>2, <1>3, Zenon DEF NewEntry

(* An entry gets a new name, in other slots.                               *)
LEMMA MovedKept ==
  ASSUME rootsize \in RootSizes, NEW sl, NEW ch, NEW us, Kept(sl, ch, us),
         NEW i \in Entries(sl), ~Misled(sl, i),
         NEW name, NEW start \in Clusters \cup {NoCluster}, NEW dir \in BOOLEAN, sl[i] = NewEntry(name, start, dir),
         NEW m \in Asked, Bearing(sl, m) = {}, HasRoom(deleteLFNs(sl, i), m),
         NEW more \in SUBSET (Clusters \ us), Cardinality(more) = Growth(deleteLFNs(sl, i), m)
  PROVE  LET d == deleteLFNs(sl, i)
             r == Placed(d, m, start, dir) IN
         /\ Kept(r, ch \cup more, us \cup more)
         /\ Adds(d, r, m, ShortName(d, m), start, dir) /\ Suits(d, m, ShortName(d, m))
<1> DEFINE d == deleteLFNs(sl, i)
           r == Placed(d, m, start, dir)
           v == us \ {start}
<1>1. sl[i].start = start /\ Own(sl, ch, us)
  BY DEF NewEntry, Kept
<1>2. Kept(d, ch, v) /\ Removes(sl, d, i)
  BY <1>1, DeletedKept DEF Removes
<1>3. HasRoom(d, m) /\ Cardinality(more) = Growth(d, m)
  OBVIOUS
<1> HIDE DEF d
<1>4. Bearing(d, m) = {}
  BY <1>2, BearingFewer
<1>5. start # NoCluster => start \in us
  BY <1>1 DEF Own, Begun
<1>6. more \in SUBSET (Clusters \ v) /\ start \in {NoCluster} \cup (Clusters \ (v \cup more))
  BY <1>5
<1>7. (v \cup more \cup {start}) \ {NoCluster} = us \cup more
  BY <1>1, <1>5, DirAssumption DEF Own
<1> HIDE DEF v
<1>8. /\ Kept(r, ch \cup more, (v \cup more \cup {start}) \ {NoCluster})
      /\ Adds(d, r, m, ShortName(d, m), start, dir)
  BY <1>2, <1>3, <1>4, <1>6, PlacedKept
<1>9. Suits(d, m, ShortName(d, m))
  BY <1>2, <1>4, ShortNameSuits
<1> QED
  BY <1>7, <1>8, <1>9 DEF d

(* A rename that has to move the entry moves it, or, for want of room,     *)
(* puts it back as it was, or leaves it when the disk is full.             *)
Moves(i, m, name) ==
  LET d == deleteLFNs(slots, i)
      e == slots[i]
  IN Removes(slots, d, i) /\ Adds(d, slots', m, name, e.start, e.dir) /\ Suits(d, m, name)

LEMMA MovedDoes ==
  ASSUME InOrder, NEW o \in Names, NEW n \in Names, NEW i, i = At(o), Present(i), Absent(At(n)),
         Moved(o, i, n), Slips \cap {"collision", "restore"} = {}
  PROVE  \/ /\ Answered("rename", <<o, n>>, TRUE) /\ KeptAfter /\ stopped' = stopped
            /\ \E name : Moves(i, AsShort(n), name)
         \/ /\ Answered("rename", <<o, n>>, FALSE) /\ KeptAfter /\ stopped' = stopped
            /\ LongAt(slots, i) = NoText
            /\ \E m : m.tag = "short" /\ Moves(i, m, slots[i].name)
         \/ Slip("full disk") /\ stopped' = "monitor" /\ Sound(slots')
<1> DEFINE d == deleteLFNs(slots, i)
           m == AsShort(n)
<1>1. rootsize \in RootSizes /\ Kept(slots, chain, used) /\ Sound(slots) /\ i \in Entries(slots)
      /\ slots[i] \in EntrySlots /\ Bearing(slots, n) = {}
  BY AtIs DEF InOrder, Kept
<1>2. ~Misled(slots, i) /\ rootsize' = rootsize
  BY DEF Moved, Slip
<1>3. PICK name \in ShortNames, start \in Clusters \cup {NoCluster}, dir \in BOOLEAN :
           slots[i] = NewEntry(name, start, dir) /\ slots[i].name = name /\ slots[i].start = start /\ slots[i].dir = dir
  BY <1>1, EntryIs
<1>4. Removes(slots, d, i) /\ Kept(d, chain, used \ {start}) /\ Sound(d)
  BY <1>1, <1>2, <1>3, DeletedKept DEF Removes, Kept
<1>5. m \in Asked /\ Bearing(slots, m) = {}
  BY <1>1, BearingAsShort
<1>6. CASE /\ HasRoom(d, m)
           /\ \E more \in fatChain_Gets(d, m) : chain' = chain \cup more /\ used' = used \cup more
           /\ slots' = Placed(d, m, slots[i].start, slots[i].dir)
           /\ Answered("rename", <<o, n>>, TRUE) /\ UNCHANGED stopped
  <2>1. PICK more \in SUBSET (Clusters \ used) :
             Cardinality(more) = Growth(d, m) /\ chain' = chain \cup more /\ used' = used \cup more
    BY <1>6 DEF fatChain_Gets, Free
  <2>2. slots' = Placed(d, m, start, dir)
    BY <1>3, <1>6, Zenon
  <2>3. /\ Kept(slots', chain \cup more, used \cup more)
        /\ Adds(d, slots', m, ShortName(d, m), start, dir) /\ Suits(d, m, ShortName(d, m))
    <3> HIDE DEF m
    <3>1. LET r == Placed(deleteLFNs(slots, i), m, start, dir) IN
          /\ Kept(r, chain \cup more, used \cup more)
          /\ Adds(d, r, m, ShortName(d, m), start, dir) /\ Suits(d, m, ShortName(d, m))
      BY <1>1, <1>2, <1>3, <1>5, <1>6, <2>1, MovedKept
    <3> QED
      BY <2>2, <3>1, Zenon
  <2>4. KeptAfter
    BY <1>2, <2>1, <2>3, KeptThen
  <2>5. Moves(i, m, ShortName(d, m))
    BY <1>3, <1>4, <2>3, Zenon DEF Moves
  <2> QED
    BY <1>6, <2>4, <2>5
<1>7. CASE /\ ~HasRoom(d, m) /\ (TakenText(slots, i) # NoText => Slip("restore"))
           /\ slots' \in Restored(d, o, i)
           /\ Answered("rename", <<o, n>>, FALSE) /\ UNCHANGED <<chain, used, stopped>>
  <2> DEFINE s == [tag |-> "short", text |-> slots[i].name]
  <2>1. TakenText(slots, i) = NoText /\ LongAt(slots, i) = NoText
    BY <1>1, <1>2, <1>7, TakenIs DEF Slip
  <2>2. slots' = createLFNs(d, s, slots[i].name, slots[i].start, slots[i].dir)
    BY <1>7, <2>1, Zenon DEF Restored
  <2>3. slots' = createLFNs(d, s, name, start, dir)
    BY <1>3, <2>2, Zenon
  <2>4. Kept(slots', chain, used) /\ Adds(d, slots', s, name, start, dir)
    <3>1. s.tag = "short"
      OBVIOUS
    <3> HIDE DEF s
    <3>2. LET r == createLFNs(deleteLFNs(slots, i), s, name, start, dir) IN
          Kept(r, chain, used) /\ Adds(d, r, s, name, start, dir)
      BY <1>1, <1>2, <1>3, <3>1, RestoredKept
    <3> QED
      BY <2>3, <3>2, Zenon
  <2>5. KeptAfter
    BY <1>2, <1>7, <2>4, KeptThen
  <2>6. Suits(d, s, name)
    <3>1. \A j \in Entries(d) : d[j].name # name
      BY <1>1, <1>3, <1>4 DEF Removes, Same, Sound, NamesDiffer
    <3> QED
      BY <1>3, <3>1 DEF Suits
  <2>7. s.tag = "short" /\ Moves(i, s, slots[i].name)
    <3>1. s.tag = "short"
      OBVIOUS
    <3> HIDE DEF s
    <3> QED
      BY <1>3, <1>4, <2>4, <2>6, <3>1, Zenon DEF Moves
  <2> QED
    BY <1>7, <2>1, <2>5, <2>7
<1>8. CASE Slip("full disk") /\ HasRoom(d, m) /\ fatChain_Fails(d, m)
  <2>1. Cardinality(Free) \in Nat
    BY DirAssumption, FS_Subset, FS_CardinalityType DEF Free
  <2>2. slots' = Grown(d, Cardinality(Free)) /\ stopped' = "monitor"
    BY <1>8 DEF fatChain_Fails
  <2>3. Sound(slots')
    BY <1>4, <2>1, <2>2, GrownKeeps
  <2> QED
    BY <1>8, <2>2, <2>3
<1> QED
  BY <1>6, <1>7, <1>8 DEF Moved

-----------------------------------------------------------------------------
(* The directory as Directory sees it.                                     *)
AsEntry(sl, i) == [short |-> sl[i].name, long |-> LongAt(sl, i), start |-> sl[i].start, dir |-> sl[i].dir]
View(sl) == {AsEntry(sl, i) : i \in Entries(sl)}

LEMMA SameEntry ==
  ASSUME NEW sl, NEW d, NEW j, Same(sl, d, j)
  PROVE  AsEntry(d, j) = AsEntry(sl, j)
BY Zenon DEF Same, AsEntry

LEMMA EntriesApart ==
  ASSUME NEW sl, Sound(sl), NEW i \in Entries(sl), NEW j \in Entries(sl), AsEntry(sl, i) = AsEntry(sl, j)
  PROVE  i = j
<1>1. AsEntry(sl, i).short = sl[i].name /\ AsEntry(sl, j).short = sl[j].name
  BY DEF AsEntry
<1> QED
  BY <1>1 DEF Sound, NamesDiffer

LEMMA ViewAdds ==
  ASSUME NEW sl, NEW d, NEW n, NEW name, NEW start, NEW dir, Adds(sl, d, n, name, start, dir)
  PROVE  View(d) = View(sl) \cup {[short |-> name, long |-> IF n.tag = "short" THEN NoText ELSE n,
                                   start |-> start, dir |-> dir]}
<1>1. PICK i \in Entries(d) \ Entries(sl) :
           /\ Entries(d) = Entries(sl) \cup {i}
           /\ \A j \in Entries(sl) : Same(sl, d, j)
           /\ d[i] = NewEntry(name, start, dir) /\ LongAt(d, i) = IF n.tag = "short" THEN NoText ELSE n
  BY DEF Adds
<1>2. d[i].name = name /\ d[i].start = start
  BY <1>1 DEF NewEntry
<1>3. d[i].dir = dir
  <2>1. NewEntry(name, start, dir).dir = dir
    BY DEF NewEntry
  <2>2. d[i] = NewEntry(name, start, dir)
    BY <1>1
  <2> QED
    BY <2>1, <2>2, Zenon
<1>4. AsEntry(d, i) = [short |-> name, long |-> IF n.tag = "short" THEN NoText ELSE n, start |-> start, dir |-> dir]
  BY <1>1, <1>2, <1>3, Zenon DEF AsEntry
<1>5. \A j \in Entries(sl) : AsEntry(d, j) = AsEntry(sl, j)
  BY <1>1, SameEntry
<1>6. View(d) = View(sl) \cup {AsEntry(d, i)}
  BY <1>1, <1>5 DEF View
<1> QED
  BY <1>4, <1>6

LEMMA ViewRemoves ==
  ASSUME NEW sl, Sound(sl), NEW i \in Entries(sl), NEW d, Removes(sl, d, i)
  PROVE  View(d) = View(sl) \ {AsEntry(sl, i)}
<1>1. \A j \in Entries(sl) \ {i} : AsEntry(d, j) = AsEntry(sl, j)
  BY SameEntry DEF Removes
<1>2. \A j \in Entries(sl) \ {i} : AsEntry(sl, j) # AsEntry(sl, i)
  BY EntriesApart
<1> QED
  BY <1>1, <1>2 DEF View, Removes

LEMMA ViewReplaces ==
  ASSUME NEW sl, Sound(sl), NEW i \in Entries(sl), NEW d, NEW x, Replaces(sl, d, i, x)
  PROVE  View(d) = (View(sl) \ {AsEntry(sl, i)}) \cup {AsEntry(d, i)}
<1>1. \A j \in Entries(sl) \ {i} : AsEntry(d, j) = AsEntry(sl, j)
  BY SameEntry DEF Replaces
<1>2. \A j \in Entries(sl) \ {i} : AsEntry(sl, j) # AsEntry(sl, i)
  BY EntriesApart
<1> QED
  BY <1>1, <1>2 DEF View, Replaces

LEMMA ViewStays ==
  ASSUME NEW sl, NEW d, Stays(sl, d)
  PROVE  View(d) = View(sl)
<1>1. \A j \in Entries(sl) : AsEntry(d, j) = AsEntry(sl, j)
  BY SameEntry DEF Stays
<1> QED
  BY <1>1 DEF View, Stays

LEMMA ViewMoves ==
  ASSUME Sound(slots), NEW i \in Entries(slots), NEW m, NEW name, Moves(i, m, name)
  PROVE  View(slots') = (View(slots) \ {AsEntry(slots, i)})
                        \cup {[short |-> name, long |-> IF m.tag = "short" THEN NoText ELSE m,
                               start |-> slots[i].start, dir |-> slots[i].dir]}
<1> DEFINE d == deleteLFNs(slots, i)
<1>1. Removes(slots, d, i) /\ Adds(d, slots', m, name, slots[i].start, slots[i].dir)
  BY Zenon DEF Moves
<1> HIDE DEF d
<1>2. View(d) = View(slots) \ {AsEntry(slots, i)}
  BY <1>1, ViewRemoves
<1> QED
  BY <1>1, <1>2, ViewAdds

(* A directory has a cluster, every entry has a name to call it by, and    *)
(* the directories that are not empty are there.                           *)
Fine(V, fu) ==
  /\ \A e \in V : e.start = NoCluster => ~e.dir
  /\ \A e \in V : \E n \in Names : Promised!Finds(e, n)
  /\ fu \subseteq {e.start : e \in {x \in V : x.dir}}

LEMMA FineAdds ==
  ASSUME NEW V, NEW fu, Fine(V, fu), NEW f, f.start = NoCluster => ~f.dir, NEW n \in Names, Promised!Finds(f, n)
  PROVE  Fine(V \cup {f}, fu)
BY DEF Fine

LEMMA FineRemoves ==
  ASSUME NEW V, NEW fu, Fine(V, fu), NEW e
  PROVE  Fine(V \ {e}, fu \ {e.start})
BY DEF Fine

LEMMA FineReplaces ==
  ASSUME NEW V, NEW fu, Fine(V, fu), NEW e \in V, NEW f, NEW n \in Names, Promised!Finds(f, n),
         (f.start = e.start /\ f.dir = e.dir) \/ (~f.dir /\ ~e.dir)
  PROVE  Fine((V \ {e}) \cup {f}, fu)
<1> DEFINE W == (V \ {e}) \cup {f}
<1>1. \A x \in W : (x.start = NoCluster => ~x.dir) /\ \E m \in Names : Promised!Finds(x, m)
  BY Zenon DEF Fine
<1>2. ASSUME NEW u \in fu PROVE \E x \in W : x.dir /\ x.start = u
  <2>1. PICK x \in V : x.dir /\ x.start = u
    BY Zenon DEF Fine
  <2>2. CASE x = e
    BY <2>1, <2>2, Zenon
  <2>3. CASE x # e
    BY <2>1, <2>3
  <2> QED
    BY <2>2, <2>3
<1> QED
  BY <1>1, <1>2, Zenon DEF Fine

(* What a name finds in it.                                                *)
LEMMA NamedIs ==
  ASSUME NEW n
  PROVE  Promised!Named(n) = {AsEntry(slots, i) : i \in Bearing(slots, n)}
<1>1. \A i : Promised!Finds(AsEntry(slots, i), n) <=>
               IF n.tag = "long" THEN LongAt(slots, i) = n ELSE slots[i].name = n.text
  BY DEF Promised!Finds, AsEntry
<1>2. Promised!Named(n) = {e \in View(slots) : Promised!Finds(e, n)}
  BY Zenon DEF Promised!Named, View, AsEntry, Written, LongNameOf, LongAt
<1> QED
  BY <1>1, <1>2 DEF View, Bearing

(* The set that the slots stand for, then and after a step.                *)
Stored == {[short |-> slots[i].name, long |-> LongNameOf(i), start |-> slots[i].start, dir |-> slots[i].dir] :
           i \in Written}

LEMMA StoredIs == Stored = View(slots) /\ Stored' = View(slots')
<1>1. Stored = View(slots)
  BY Zenon DEF Stored, View, AsEntry, Written, LongNameOf, LongAt
<1>2. Stored' = View(slots')
  BY Zenon DEF Stored, View, AsEntry, Written, LongNameOf, LongAt, Entries, Is
<1> QED
  BY <1>1, <1>2

LEMMA AsEntryFields ==
  ASSUME NEW sl, NEW i
  PROVE  LET e == AsEntry(sl, i) IN
         e.short = sl[i].name /\ e.long = LongAt(sl, i) /\ e.start = sl[i].start /\ (e.dir = sl[i].dir)
<1>1. AsEntry(sl, i).short = sl[i].name /\ AsEntry(sl, i).long = LongAt(sl, i) /\ AsEntry(sl, i).start = sl[i].start
  BY DEF AsEntry
<1>2. AsEntry(sl, i).dir = sl[i].dir
  BY DEF AsEntry
<1> QED
  BY <1>1, <1>2

(* The steps of Directory, told by what the slots stand for.               *)
LEMMA StepCreates ==
  ASSUME NEW n \in Names, NEW op, Bearing(slots, n) = {}, NEW name, Suits(slots, n, name), NEW f,
         View(slots') = View(slots) \cup {f}, f.short = name, f.long = IF n.tag = "short" THEN NoText ELSE n,
         Answered(op, <<n>>, TRUE), full' = full,
         \/ op \in {"create", "create new"} /\ f.start = NoCluster /\ ~f.dir
         \/ op = "create directory" /\ f.start \in Clusters /\ f.dir
  PROVE  Promised!Next
<1>1. Stored = View(slots) /\ Stored' = View(slots')
  BY StoredIs
<1>2. Promised!Named(n) = {}
  BY NamedIs
<1>3. \A e \in View(slots) : e.short # f.short
  <2> SUFFICES ASSUME NEW j \in Entries(slots) PROVE AsEntry(slots, j).short # f.short
    BY DEF View
  <2>1. AsEntry(slots, j).short = slots[j].name
    BY AsEntryFields
  <2> QED
    BY <2>1 DEF Suits
<1>4. Promised!Bears(f, n, Stored)
  <2>1. n.tag \in {"long", "short", "mixed"}
    BY DirAssumption
  <2> QED
    BY <1>1, <1>3, <2>1 DEF Promised!Bears, Suits
<1>5. Promised!Add(n, f)
  <2>1. Stored' = Stored \cup {f}
    BY <1>1
  <2> QED
    BY <1>2, <1>4, <2>1, Zenon DEF Promised!Add, Stored
<1>6. f \in Stored'
  BY <1>1
<1>7. Promised!Answered(op, <<n>>, TRUE)
  BY DEF Answered, Promised!Answered
<1>8. Promised!Creates(op, n)
  BY <1>5, <1>6, <1>7, Zenon DEF Promised!Creates, Stored
<1> QED
  BY <1>8 DEF Promised!Next

LEMMA StepTruncates ==
  ASSUME NEW n \in Names, NEW e \in Promised!Named(n), ~e.dir,
         View(slots') = (View(slots) \ {e}) \cup {Begins(e, NoCluster)},
         Answered("create", <<n>>, TRUE), full' = full
  PROVE  Promised!Next
<1>1. Stored = View(slots) /\ Stored' = View(slots')
  BY StoredIs
<1>2. Promised!Replace(e, [e EXCEPT !.start = NoCluster])
  <2>1. Stored' = (Stored \ {e}) \cup {[e EXCEPT !.start = NoCluster]}
    BY <1>1 DEF Begins
  <2> QED
    BY <2>1, Zenon DEF Promised!Replace, Stored
<1>3. Promised!Answered("create", <<n>>, TRUE)
  BY DEF Answered, Promised!Answered
<1>4. Promised!Creates("create", n)
  BY <1>2, <1>3, Zenon DEF Promised!Creates
<1> QED
  BY <1>4 DEF Promised!Next

LEMMA StepDeletes ==
  ASSUME NEW n \in Names, NEW e \in Promised!Named(n), View(slots') = View(slots) \ {e}, full' = full, NEW op,
         Answered(op, <<n>>, TRUE),
         (op = "delete" /\ ~e.dir) \/ (op = "remove directory" /\ e.dir /\ e.start \notin full)
  PROVE  Promised!Next
<1>1. Stored = View(slots) /\ Stored' = View(slots')
  BY StoredIs
<1>2. Stored' = Stored \ {e}
  BY <1>1
<1>3. Promised!Answered(op, <<n>>, TRUE)
  BY DEF Answered, Promised!Answered
<1>4. CASE op = "delete" /\ ~e.dir
  <2>1. Promised!Deletes(n)
    BY <1>2, <1>3, <1>4, Zenon DEF Promised!Deletes, Stored
  <2> QED
    BY <2>1 DEF Promised!Next
<1>5. CASE op = "remove directory" /\ e.dir /\ e.start \notin full
  <2>1. Promised!RemovesDir(n)
    BY <1>2, <1>3, <1>5, Zenon DEF Promised!RemovesDir, Stored
  <2> QED
    BY <2>1 DEF Promised!Next
<1> QED
  BY <1>4, <1>5

LEMMA StepRenames ==
  ASSUME Sound(slots), NEW o \in Names, NEW n \in Names, Bearing(slots, n) = {},
         NEW i \in Bearing(slots, o), NEW f,
         View(slots') = (View(slots) \ {AsEntry(slots, i)}) \cup {f},
         f.start = slots[i].start, f.dir = slots[i].dir, f.long = IF AsShort(n).tag = "short" THEN NoText ELSE n,
         \A j \in Entries(slots) \ {i} : slots[j].name # f.short,
         IF n.tag = "long" THEN f.short.stem = Stem[n.text] /\ f.short.tail > 0 ELSE f.short = n.text,
         Answered("rename", <<o, n>>, TRUE), full' = full
  PROVE  Promised!Next
<1> DEFINE e == AsEntry(slots, i)
           m == IF n.tag = "mixed" THEN [n EXCEPT !.tag = "short"] ELSE n
<1>1. Stored = View(slots) /\ Stored' = View(slots')
  BY StoredIs
<1>2. Promised!Named(n) = {} /\ e \in Promised!Named(o) /\ i \in Entries(slots)
  BY NamedIs DEF Bearing
<1>3. f.start = e.start /\ f.dir = e.dir
  BY AsEntryFields, Zenon
<1>4. \A x \in Stored \ {e} : x.short # f.short
  <2> SUFFICES ASSUME NEW j \in Entries(slots), AsEntry(slots, j) # e PROVE AsEntry(slots, j).short # f.short
    BY <1>1 DEF View
  <2>1. j # i
    OBVIOUS
  <2> QED
    BY <2>1, AsEntryFields
<1>5. n = [tag |-> n.tag, text |-> n.text] /\ n.tag \in {"long", "short", "mixed"} /\ n # NoText
  BY DirAssumption
<1>6. m.text = n.text /\ m.tag = (IF n.tag = "mixed" THEN "short" ELSE n.tag) /\ (n.tag # "mixed" => m = n)
  <2>1. [n EXCEPT !.tag = "short"].text = n.text /\ [n EXCEPT !.tag = "short"].tag = "short"
    BY <1>5
  <2> QED
    BY <2>1
<1>7. AsShort(n).tag = "short" <=> n.tag # "long"
  <2>1. [n EXCEPT !.tag = "short"].tag = "short"
    BY <1>5
  <2> QED
    BY <1>5, <2>1 DEF AsShort
<1> HIDE DEF e, m
<1>8. Promised!Bears(f, m, Stored \ {e})
  BY <1>4, <1>5, <1>6, <1>7 DEF Promised!Bears
<1>9. Stored' = (Stored \ {e}) \cup {f} /\ f \in Stored'
  BY <1>1 DEF e
<1>10. Promised!Answered("rename", <<o, n>>, TRUE)
  BY DEF Answered, Promised!Answered
<1>11. Promised!Renames(o, n)
  BY <1>2, <1>3, <1>8, <1>9, <1>10, Zenon DEF Promised!Renames, Promised!Replace, Stored, m
<1> QED
  BY <1>11 DEF Promised!Next

LEMMA StepFills ==
  ASSUME NEW n \in Names, NEW e \in Promised!Named(n), ~e.dir, e.start = NoCluster, NEW c \in Clusters,
         View(slots') = (View(slots) \ {e}) \cup {Begins(e, c)},
         UNCHANGED <<full, call>>
  PROVE  Promised!Next
<1>1. Stored = View(slots) /\ Stored' = View(slots')
  BY StoredIs
<1>2. Stored' = (Stored \ {e}) \cup {[e EXCEPT !.start = c]}
  BY <1>1 DEF Begins
<1>3. Promised!Fills(n)
  BY <1>2, Zenon DEF Promised!Fills, Promised!Replace, Stored
<1> QED
  BY <1>3 DEF Promised!Next

LEMMA StepRefuses ==
  ASSUME NEW op, NEW names, Answered(op, names, FALSE), Promised!Refusable(op, names),
         View(slots') = View(slots), full' = full
  PROVE  Promised!Next
<1>1. Stored' = Stored
  BY StoredIs
<1>2. call'.op = op /\ call'.names = names
  BY DEF Answered
<1>3. Promised!Answered(op, names, FALSE)
  BY DEF Answered, Promised!Answered
<1>4. Promised!Refuses(op, names)
  BY <1>1, <1>3, Zenon DEF Promised!Refuses, Stored
<1> QED
  BY <1>2, <1>4 DEF Promised!Next

-----------------------------------------------------------------------------
(* The slots are sound and the clusters owned, whatever becomes of the     *)
(* disk, and whatever happens between a look and the delete.               *)
DirInv ==
  /\ rootsize \in RootSizes /\ Sound(slots)
  /\ looked \subseteq [op : {"delete", "remove directory"}, name : Names]
  /\ Kept(slots, chain, used) \/ ("full disk" \in Slips /\ stopped = "monitor")

Goes ==
  /\ rootsize' = rootsize /\ KeptAfter
  /\ looked' \subseteq looked \cup [op : {"delete", "remove directory"}, name : Names]

LEMMA InitInOrder == Init => InOrder /\ View(slots) = {} /\ Entries(slots) = {}
<1> SUFFICES ASSUME Init PROVE InOrder /\ View(slots) = {} /\ Entries(slots) = {}
  OBVIOUS
<1> DEFINE c == IF Fixed THEN rootsize ELSE 1
           L == PerSector * c
<1>1. rootsize \in RootSizes /\ rootsize \in Nat /\ slots = [i \in 1 .. L |-> End] /\ used = chain
  BY DirAssumption DEF Init
<1>2. c \in Nat /\ L \in Nat
  <2>1. PerSector \in Nat
    BY DirAssumption
  <2> QED
    BY <1>1, <2>1
<1>3. Sectors(chain) = c /\ chain \subseteq Clusters
  BY FS_EmptySet, FS_Singleton DEF Init, Sectors
<1> HIDE DEF L
<1>4. slots \in Seq(Slots) /\ Len(slots) = L /\ DOMAIN slots = 1 .. L /\ \A i \in 1 .. L : slots[i] = End
  BY <1>1, <1>2 DEF Slots
<1>5. \A i \in DOMAIN slots : ~Is(slots, i, "entry") /\ ~Is(slots, i, "lfn") /\ Is(slots, i, "end")
  BY <1>4 DEF Is, End
<1>6. Entries(slots) = {}
  BY <1>5 DEF Entries
<1>7. Sound(slots)
  BY <1>4, <1>5, <1>6 DEF Sound, EndsLast, Whole, NamesDiffer, TextsDiffer, NoOrphan
<1>8. Own(slots, chain, used)
  BY <1>1, <1>3, <1>6 DEF Own, Begun
<1> QED
  BY <1>1, <1>3, <1>4, <1>6, <1>7, <1>8 DEF InOrder, Kept, View, L

LEMMA NothingWritten ==
  ASSUME InOrder, UNCHANGED <<slots, rootsize, chain, used>>
  PROVE  KeptAfter /\ View(slots') = View(slots)
<1>1. Kept(slots', chain', used')
  BY DEF InOrder
<1> QED
  BY <1>1, KeptThen

LEMMA CreatesGo ==
  ASSUME InOrder, "orphan" \notin Slips, NEW n \in Names,
         fatCreatFile(n) \/ fatCreatNewFile(n) \/ fatCreatDir(n)
  PROVE  Goes
<1> DEFINE i == At(n)
<1>1. ASSUME NEW op, Refused(op, <<n>>) PROVE Goes
  BY <1>1, NothingWritten DEF Refused, watched, Goes
<1>2. ASSUME Astray(i) PROVE Goes
  BY <1>2, NothingWritten DEF Astray, Goes
<1>3. ASSUME Present(i), Truncated(i) PROVE Goes
  BY <1>3, AtIs, TruncatedDoes DEF Truncated, Goes
<1>4. ASSUME Absent(i), NewFile(n) PROVE Goes
  BY <1>4, NewFileDoes DEF NewFile, Goes
<1>5. ASSUME DiskFull(n) PROVE Goes
  <2>1. fatChain_Fails(slots, n) /\ rootsize \in RootSizes /\ Kept(slots, chain, used)
    BY <1>5 DEF DiskFull, InOrder
  <2> QED
    BY <2>1, GrowsInVain DEF fatChain_Fails, Goes
<1>6. ASSUME Absent(i), HasRoom(slots, n), NewDir(n), UNCHANGED <<rootsize, full, looked, stopped>> PROVE Goes
  BY <1>6, NewDirDoes DEF Goes
<1> QED
  BY <1>1, <1>2, <1>3, <1>4, <1>5, <1>6, Zenon DEF fatCreatFile, fatCreatNewFile, fatCreatDir, NoRoom

LEMMA RenameGoes ==
  ASSUME InOrder, Slips \cap {"collision", "restore"} = {}, NEW o \in Names, NEW n \in Names, fatRenameFile(o, n)
  PROVE  \/ Goes
         \/ /\ Slip("full disk") /\ stopped' = "monitor" /\ Sound(slots')
            /\ rootsize' = rootsize /\ looked' = looked
<1> DEFINE i == At(o)
<1>1. CASE Refused("rename", <<o, n>>)
  BY <1>1, NothingWritten DEF Refused, watched, Goes
<1>2. CASE /\ Present(i) /\ Absent(At(n)) /\ InPlace(o, i, n)
           /\ slots' = [slots EXCEPT ![i].name = n.text]
           /\ UNCHANGED <<rootsize, chain, used, full, looked, stopped>>
  <2>1. KeptAfter
    BY <1>2, RenamedInPlace
  <2> QED
    BY <1>2, <2>1 DEF Goes
<1>3. CASE Present(i) /\ Absent(At(n)) /\ Moved(o, i, n)
  <2>1. rootsize' = rootsize /\ looked' = looked
    BY <1>3 DEF Moved
  <2>2. KeptAfter \/ (Slip("full disk") /\ stopped' = "monitor" /\ Sound(slots'))
    BY <1>3, MovedDoes
  <2> QED
    BY <2>1, <2>2 DEF Goes
<1> QED
  BY <1>1, <1>2, <1>3 DEF fatRenameFile

LEMMA DeleteGoes ==
  ASSUME InOrder, "collision" \notin Slips, NEW l, l.name \in Names, fatDeleteFile(l)
  PROVE  Goes
<1> DEFINE i == At(l.name)
<1>1. CASE UNCHANGED <<slots, rootsize, chain, used, full, stopped>>
  BY <1>1, NothingWritten DEF Goes, fatDeleteFile
<1>2. CASE Present(i) /\ ~Misled(slots, i) /\ slots' = deleteLFNs(slots, i)
           /\ used' = used \ {slots[i].start} /\ UNCHANGED <<rootsize, chain, stopped>>
  <2>1. i \in Entries(slots)
    BY <1>2, AtIs
  <2>2. KeptAfter
    BY <1>2, <2>1, DeleteDoes
  <2> QED
    BY <1>2, <2>2 DEF Goes, fatDeleteFile
<1>3. CASE UNCHANGED <<slots, rootsize, chain, used, full, call>>
  BY <1>3, NothingWritten DEF Goes, fatDeleteFile
<1> QED
  BY <1>1, <1>2, <1>3 DEF fatDeleteFile, Slip

LEMMA OthersGo ==
  ASSUME InOrder, NEW n \in Names,
         fileDelete(n) \/ dirDelete(n) \/ \E dir \in BOOLEAN : fatSetFileAttributes(n, dir)
  PROVE  Goes
<1> DEFINE i == At(n)
<1>1. ASSUME NEW op, Refused(op, <<n>>) PROVE Goes
  BY <1>1, NothingWritten DEF Refused, watched, Goes
<1>2. ASSUME Astray(i) PROVE Goes
  BY <1>2, NothingWritten DEF Astray, Goes
<1>3. ASSUME NEW op \in {"delete", "remove directory"}, Looks(op, n) PROVE Goes
  <2>1. KeptAfter /\ rootsize' = rootsize
    BY <1>3, NothingWritten DEF Looks
  <2>2. looked' = {[op |-> op, name |-> n]}
    BY <1>3 DEF Looks
  <2>3. [op |-> op, name |-> n] \in [op : {"delete", "remove directory"}, name : Names]
    BY <1>3
  <2> HIDE DEF i
  <2>4. looked' \subseteq [op : {"delete", "remove directory"}, name : Names]
    BY <2>2, <2>3
  <2> QED
    BY <2>1, <2>4 DEF Goes
<1>4. ASSUME Present(i), NEW dir \in BOOLEAN, slots' = [slots EXCEPT ![i].dir = dir],
             UNCHANGED <<rootsize, chain, used, full, looked, stopped>>
      PROVE  Goes
  <2>1. i \in Entries(slots)
    BY <1>4, AtIs
  <2>2. KeptAfter
    BY <1>4, <2>1, AttributesDo
  <2> QED
    BY <1>4, <2>2 DEF Goes
<1> QED
  BY <1>1, <1>2, <1>3, <1>4, Zenon DEF fileDelete, dirDelete, fatSetFileAttributes

LEMMA BelowGoes ==
  ASSUME InOrder, NEW i \in Entries(slots), FirstCluster(i) \/ Below(i)
  PROVE  Goes
<1>1. CASE FirstCluster(i)
  BY <1>1, FirstClusterDoes DEF FirstCluster, Goes
<1>2. CASE Below(i)
  BY <1>2, NothingWritten DEF Below, Goes
<1> QED
  BY <1>1, <1>2

DirSlips == {"full disk", "between", "attributes"}

LEMMA DirInvStep ==
  ASSUME DirInv, [Next]_vars, Slips \subseteq DirSlips
  PROVE  DirInv'
<1>1. "orphan" \notin Slips /\ "collision" \notin Slips /\ Slips \cap {"collision", "restore"} = {}
  BY DEF DirSlips
<1>2. CASE UNCHANGED vars
  <2>1. UNCHANGED <<rootsize, slots, chain, used, looked, stopped>>
    BY <1>2 DEF vars
  <2>2. Kept(slots, chain, used) => KeptAfter
    BY <2>1, NothingWritten DEF InOrder, DirInv
  <2>3. Sound(slots)' <=> Sound(slots')
    BY DEF Sound, EndsLast, Whole, NamesDiffer, TextsDiffer, NoOrphan, Entries, LongAt, Length, Is
  <2> QED
    BY <2>1, <2>2, <2>3 DEF DirInv, KeptAfter
<1>3. CASE Next
  <2>1. stopped = "no" /\ InOrder
    BY <1>3 DEF Next, DirInv, InOrder
  <2>2. Goes \/ /\ Slip("full disk") /\ stopped' = "monitor" /\ Sound(slots')
                /\ rootsize' = rootsize /\ looked' = looked
    <3>1. ASSUME NEW n \in Names, fatCreatFile(n) \/ fatCreatNewFile(n) \/ fatCreatDir(n) PROVE Goes
      BY <1>1, <2>1, <3>1, CreatesGo
    <3>2. ASSUME NEW n \in Names,
                 fileDelete(n) \/ dirDelete(n) \/ \E dir \in BOOLEAN : fatSetFileAttributes(n, dir)
          PROVE  Goes
      BY <2>1, <3>2, OthersGo
    <3>3. ASSUME NEW n \in Names, NEW m \in Names, fatRenameFile(n, m)
          PROVE  Goes \/ /\ Slip("full disk") /\ stopped' = "monitor" /\ Sound(slots')
                         /\ rootsize' = rootsize /\ looked' = looked
      BY <1>1, <2>1, <3>3, RenameGoes
    <3>4. ASSUME NEW l \in looked, fatDeleteFile(l) PROVE Goes
      <4>1. l.name \in Names
        BY DEF DirInv
      <4> QED
        BY <1>1, <2>1, <3>4, <4>1, DeleteGoes
    <3>5. ASSUME NEW i \in Entries(slots), FirstCluster(i) \/ Below(i) PROVE Goes
      BY <2>1, <3>5, BelowGoes
    <3> QED
      BY <1>3, <3>1, <3>2, <3>3, <3>4, <3>5, Zenon DEF Next
  <2>3. Sound(slots)' <=> Sound(slots')
    BY DEF Sound, EndsLast, Whole, NamesDiffer, TextsDiffer, NoOrphan, Entries, LongAt, Length, Is
  <2>4. CASE Goes
    <3>1. Kept(slots, chain, used)' /\ rootsize' = rootsize /\ Sound(slots')
      BY <2>4, KeptThen DEF Goes, KeptAfter, Kept
    <3> QED
      BY <2>3, <2>4, <3>1 DEF Goes, DirInv
  <2>5. CASE /\ Slip("full disk") /\ stopped' = "monitor" /\ Sound(slots')
             /\ rootsize' = rootsize /\ looked' = looked
    BY <2>3, <2>5 DEF DirInv, Slip
  <2> QED
    BY <2>2, <2>4, <2>5
<1> QED
  BY <1>2, <1>3

LEMMA DirInvHolds ==
  ASSUME Slips \subseteq DirSlips
  PROVE  Spec => []DirInv
<1>1. Init => DirInv
  <2> SUFFICES ASSUME Init PROVE DirInv
    OBVIOUS
  <2>1. InOrder
    BY InitInOrder
  <2>2. looked = {}
    BY DEF Init
  <2> QED
    BY <2>1, <2>2 DEF DirInv, InOrder, Kept
<1>2. DirInv /\ [Next]_vars => DirInv'
  BY DirInvStep
<1> QED
  BY <1>1, <1>2, PTL DEF Spec

LEMMA SoundIsSound == Sound(slots) => SlotsSound
<1> SUFFICES ASSUME Sound(slots) PROVE SlotsSound
  OBVIOUS
<1>1. Written = Entries(slots) /\ \A i : LongNameOf(i) = LongAt(slots, i)
  BY DEF Written, LongNameOf, LongAt
<1>2. \A i \in Written : \A k \in 1 .. (IF LongNameOf(i) = NoText THEN 0 ELSE PiecesOf(LongNameOf(i))) :
        /\ k < i
        /\ slots[i - k] = [tag |-> "lfn", ord |-> k, first |-> k = PiecesOf(LongNameOf(i)),
                           sum |-> Checksum[slots[i].name], text |-> LongNameOf(i)]
  <2> SUFFICES ASSUME NEW i \in Written,
                      NEW k \in 1 .. (IF LongNameOf(i) = NoText THEN 0 ELSE PiecesOf(LongNameOf(i)))
               PROVE  /\ k < i
                      /\ slots[i - k] = [tag |-> "lfn", ord |-> k, first |-> k = PiecesOf(LongNameOf(i)),
                                         sum |-> Checksum[slots[i].name], text |-> LongNameOf(i)]
    OBVIOUS
  <2>1. i \in Entries(slots) /\ k \in 1 .. Length(slots, i)
    BY <1>1 DEF Length
  <2>2. k < i /\ slots[i - k] = Piece(slots[i].name, k, LongAt(slots, i))
    BY <2>1 DEF Sound, Whole
  <2> QED
    BY <1>1, <2>2, Zenon DEF Piece
<1>3. \A i \in Written : \A j \in Written \ {i} : slots[j].name # slots[i].name
  BY <1>1 DEF Sound, NamesDiffer
<1>4. \A i, j \in DOMAIN slots : i < j /\ Is(slots, i, "end") => Is(slots, j, "end")
  BY DEF Sound, EndsLast
<1>5. \A i \in DOMAIN slots : Is(slots, i, "lfn") =>
        /\ i + slots[i].ord \in Written
        /\ slots[i].ord <= PiecesOf(slots[i].text) /\ LongNameOf(i + slots[i].ord) = slots[i].text
  BY <1>1 DEF Sound, NoOrphan
<1> QED
  BY <1>2, <1>3, <1>4, <1>5, Zenon DEF SlotsSound

(* The slots form a directory at every moment: pieces of a long name stand *)
(* whole before their entry, 8.3 names are unique, nothing is behind the   *)
(* end.  This holds for every set of names, when long names are created,   *)
(* deleted and moved in a directory that grows or is fixed, also when a    *)
(* rename finds the disk full, when an entry is exchanged between the look *)
(* and the delete, and whatever attributes are set.                        *)
THEOREM SlotsStaySound ==
  ASSUME Slips \subseteq DirSlips
  PROVE  Spec => []SlotsSound
<1>1. DirInv => SlotsSound
  BY SoundIsSound DEF DirInv
<1> QED
  BY <1>1, DirInvHolds, PTL

(* The search through slots, buffers and checksums finds the entry that    *)
(* has the name, and no other.                                             *)
THEOREM NamesFindTheirs ==
  ASSUME Slips \subseteq DirSlips
  PROVE  Spec => []FindsRight
<1>1. DirInv => FindsRight
  <2> SUFFICES ASSUME DirInv, NEW n \in Names
               PROVE  Having(n) = IF Present(At(n)) THEN {At(n)} ELSE {}
    BY DEF FindsRight
  <2>1. Having(n) = Bearing(slots, n)
    BY DEF Having, Bearing, Written, LongNameOf, LongAt
  <2>2. Sound(slots)
    BY DEF DirInv
  <2> QED
    BY <2>1, <2>2, FoundIs DEF At, Present
<1> QED
  BY <1>1, DirInvHolds, PTL

-----------------------------------------------------------------------------
(* Each call does what Directory promises, or nothing.                     *)
Promises == Fine(View(slots'), full') /\ [Promised!Next]_(Promised!vars)

LEMMA Nothing ==
  ASSUME View(slots') = View(slots), UNCHANGED <<full, call>>, Fine(View(slots), full)
  PROVE  Promises
<1>1. Stored' = Stored
  BY StoredIs
<1>2. UNCHANGED Promised!vars
  BY <1>1, Zenon DEF Promised!vars, Stored
<1> QED
  BY <1>2 DEF Promises

(* The entry a name finds, as Directory sees it.                           *)
LEMMA Seen ==
  ASSUME InOrder, NEW n \in Names, Present(At(n))
  PROVE  LET i == At(n)
             e == AsEntry(slots, i) IN
         /\ i \in Entries(slots) /\ slots[i] \in EntrySlots /\ Sound(slots) /\ i \in Bearing(slots, n)
         /\ Promised!Named(n) = {e} /\ e \in View(slots) /\ Promised!Finds(e, n)
<1> DEFINE i == At(n)
           e == AsEntry(slots, i)
<1>1. i \in Entries(slots) /\ slots[i] \in EntrySlots /\ Bearing(slots, n) = {i}
  BY AtIs
<1>2. Promised!Named(n) = {e}
  BY <1>1, NamedIs
<1>3. Promised!Finds(e, n)
  BY <1>2, Zenon DEF Promised!Named
<1> QED
  BY <1>1, <1>2, <1>3 DEF View, InOrder, Kept

LEMMA NotSeen ==
  ASSUME InOrder, NEW n \in Names, Absent(At(n))
  PROVE  Promised!Named(n) = {} /\ Bearing(slots, n) = {}
BY AtIs, NamedIs

LEMMA Refusals ==
  ASSUME InOrder, Fine(View(slots), full), NEW op, NEW names, Refused(op, names), Promised!Refusable(op, names)
  PROVE  Promises
<1>1. View(slots') = View(slots) /\ full' = full /\ Answered(op, names, FALSE)
  BY DEF Refused, watched
<1>2. Promised!Next
  BY <1>1, StepRefuses
<1> QED
  BY <1>1, <1>2 DEF Promises

(* An entry with another cluster.                                          *)
LEMMA EntryBegins ==
  ASSUME NEW sl, NEW i, sl[i] \in EntrySlots, NEW d, NEW c, Replaces(sl, d, i, Begins(sl[i], c))
  PROVE  AsEntry(d, i) = Begins(AsEntry(sl, i), c)
<1> DEFINE x == Begins(sl[i], c)
<1>1. sl[i] = [tag |-> "entry", name |-> sl[i].name, start |-> sl[i].start, dir |-> sl[i].dir]
  BY EntryFields
<1>2. x = [tag |-> "entry", name |-> sl[i].name, start |-> c, dir |-> sl[i].dir]
  BY <1>1 DEF Begins
<1>3. d[i] = x /\ LongAt(d, i) = LongAt(sl, i)
  BY DEF Replaces
<1> HIDE DEF x
<1>4. AsEntry(d, i) = [short |-> sl[i].name, long |-> LongAt(sl, i), start |-> c, dir |-> sl[i].dir]
  <2>1. x.name = sl[i].name /\ x.start = c
    BY <1>2
  <2>2. x.dir = sl[i].dir
    BY ONLY <1>2
  <2> QED
    BY <1>3, <2>1, <2>2, Zenon DEF AsEntry
<1> QED
  BY <1>4 DEF AsEntry, Begins

(* A new entry is what Directory creates.                                  *)
LEMMA CreatedIs ==
  ASSUME InOrder, Fine(View(slots), full), NEW n \in Names, Absent(At(n)), NEW start, NEW dir \in BOOLEAN,
         Adds(slots, slots', n, ShortName(slots, n), start, dir), NEW op, Answered(op, <<n>>, TRUE), full' = full,
         \/ op \in {"create", "create new"} /\ start = NoCluster /\ dir = FALSE
         \/ op = "create directory" /\ start \in Clusters /\ dir = TRUE
  PROVE  Promises
<1> DEFINE name == ShortName(slots, n)
           long == IF n.tag = "short" THEN NoText ELSE n
           f == [short |-> name, long |-> long, start |-> start, dir |-> dir]
<1>1. View(slots') = View(slots) \cup {f}
  <2>1. Adds(slots, slots', n, name, start, dir)
    OBVIOUS
  <2> HIDE DEF name
  <2> QED
    BY ONLY <2>1, ViewAdds
<1>2. Bearing(slots, n) = {}
  BY NotSeen
<1>3. Suits(slots, n, name)
  <2>1. n \in Asked
    BY DEF Asked
  <2> QED
    BY <1>2, <2>1, ShortNameSuits DEF InOrder
<1> HIDE DEF name, long
<1>4. f.short = name /\ f.long = long /\ f.start = start
  OBVIOUS
<1>5. f.dir = dir
  OBVIOUS
<1> HIDE DEF f
<1>6. \/ op \in {"create", "create new"} /\ f.start = NoCluster /\ ~f.dir
      \/ op = "create directory" /\ f.start \in Clusters /\ f.dir
  BY <1>4, <1>5, Zenon
<1>7. Promised!Next
  BY <1>1, <1>2, <1>3, <1>4, <1>6, StepCreates DEF long
<1>8. Promised!Finds(f, n)
  <2>1. n.tag = "long" => f.long = n
    BY <1>4 DEF long
  <2>2. n.tag # "long" => f.short = n.text
    BY <1>3, <1>4 DEF Suits
  <2> QED
    BY <2>1, <2>2 DEF Promised!Finds
<1>9. Fine(View(slots) \cup {f}, full)
  <2>1. f.start = NoCluster => ~f.dir
    BY <1>6, DirAssumption
  <2> QED
    BY <1>8, <2>1, FineAdds
<1> QED
  BY <1>1, <1>7, <1>9 DEF Promises

LEMMA CreatesPromised ==
  ASSUME InOrder, Fine(View(slots), full), "orphan" \notin Slips, NEW n \in Names,
         fatCreatFile(n) \/ fatCreatNewFile(n) \/ fatCreatDir(n)
  PROVE  Promises
<1> DEFINE i == At(n)
<1>1. ASSUME Present(i), slots[i].dir, Refused("create", <<n>>) PROVE Promises
  <2>1. AsEntry(slots, i) \in Promised!Named(n) /\ AsEntry(slots, i).dir = TRUE
    <3>1. AsEntry(slots, i).dir = slots[i].dir /\ slots[i].dir \in BOOLEAN
      <4>1. slots[i] \in EntrySlots
        BY <1>1, Seen
      <4> HIDE DEF i
      <4> QED
        BY <4>1, AsEntryFields, EntryFields, Zenon
    <3> QED
      BY <1>1, <3>1, Seen, Zenon
  <2>2. Promised!Refusable("create", <<n>>)
    BY <2>1 DEF Promised!Refusable
  <2> QED
    BY <1>1, <2>2, Refusals
<1>2. ASSUME NEW op \in {"create new", "create directory"}, Refused(op, <<n>>) PROVE Promises
  <2>1. Promised!Refusable(op, <<n>>)
    BY DEF Promised!Refusable
  <2> QED
    BY <1>2, <2>1, Refusals
<1>3. ASSUME Absent(i), Refused("create", <<n>>) PROVE Promises
  <2>1. Promised!Refusable("create", <<n>>)
    BY <1>3, NotSeen DEF Promised!Refusable
  <2> QED
    BY <1>3, <2>1, Refusals
<1>4. ASSUME Astray(i) PROVE Promises
  BY <1>4, Nothing DEF Astray
<1>5. ASSUME Present(i), Truncated(i), Answered("create", <<n>>, TRUE) PROVE Promises
  <2> DEFINE e == AsEntry(slots, i)
             f == Begins(e, NoCluster)
  <2>1. /\ i \in Entries(slots) /\ slots[i] \in EntrySlots /\ Sound(slots)
        /\ e \in Promised!Named(n) /\ e \in View(slots) /\ Promised!Finds(e, n)
    BY <1>5, Seen
  <2>2. Replaces(slots, slots', i, Begins(slots[i], NoCluster))
    BY <1>5, <2>1, TruncatedDoes
  <2>3. AsEntry(slots', i) = f
    <3>1. slots[i] \in EntrySlots /\ Replaces(slots, slots', i, Begins(slots[i], NoCluster))
      BY <2>1, <2>2
    <3> HIDE DEF i
    <3> QED
      BY ONLY <3>1, EntryBegins
  <2>4. View(slots') = (View(slots) \ {e}) \cup {f}
    BY <2>1, <2>2, <2>3, ViewReplaces
  <2>5. ~e.dir
    BY <1>5, AsEntryFields, Zenon DEF Truncated
  <2>6. f.short = e.short /\ f.long = e.long
    BY DEF AsEntry, Begins
  <2>7. f.dir = e.dir
    BY DEF AsEntry, Begins
  <2>8. Promised!Finds(f, n)
    BY <2>1, <2>6 DEF Promised!Finds
  <2>9. full' = full
    BY <1>5 DEF Truncated
  <2> HIDE DEF e
  <2>10. Promised!Next
    BY <1>5, <2>1, <2>4, <2>5, <2>9, StepTruncates
  <2> HIDE DEF f
  <2>11. Fine((View(slots) \ {e}) \cup {f}, full)
    <3>1. ~f.dir
      BY <2>5, <2>7, Zenon
    <3> QED
      BY <2>1, <2>5, <2>8, <3>1, FineReplaces
  <2> QED
    BY <2>4, <2>9, <2>10, <2>11 DEF Promises
<1>6. ASSUME Absent(i), NewFile(n), NEW op \in {"create", "create new"}, Answered(op, <<n>>, TRUE) PROVE Promises
  <2>1. Adds(slots, slots', n, ShortName(slots, n), NoCluster, FALSE) /\ full' = full
    BY <1>6, NewFileDoes DEF NewFile
  <2> QED
    BY <1>6, <2>1, CreatedIs
<1>7. ASSUME DiskFull(n) PROVE Promises
  <2>1. fatChain_Fails(slots, n) /\ rootsize \in RootSizes /\ Kept(slots, chain, used)
    BY <1>7 DEF DiskFull, InOrder
  <2>2. Stays(slots, slots') /\ UNCHANGED <<full, call>>
    BY <2>1, GrowsInVain DEF fatChain_Fails
  <2> QED
    BY <2>2, ViewStays, Nothing
<1>8. ASSUME Absent(i), HasRoom(slots, n), NewDir(n), UNCHANGED <<rootsize, full, looked, stopped>> PROVE Promises
  <2>1. CASE Answered("create directory", <<n>>, TRUE)
             /\ \E c \in Free : Adds(slots, slots', n, ShortName(slots, n), c, TRUE)
    <3>1. PICK c \in Free : Adds(slots, slots', n, ShortName(slots, n), c, TRUE)
      BY <2>1
    <3>2. c \in Clusters
      BY DEF Free
    <3> QED
      BY <1>8, <2>1, <3>1, <3>2, CreatedIs
  <2>2. CASE Answered("create directory", <<n>>, FALSE) /\ Stays(slots, slots')
    <3>1. View(slots') = View(slots)
      BY <2>2, ViewStays
    <3>2. Promised!Refusable("create directory", <<n>>)
      BY DEF Promised!Refusable
    <3>3. Promised!Next
      BY <1>8, <2>2, <3>1, <3>2, StepRefuses
    <3> QED
      BY <1>8, <3>1, <3>3 DEF Promises
  <2> QED
    BY <1>8, <2>1, <2>2, NewDirDoes
<1> QED
  BY <1>1, <1>2, <1>3, <1>4, <1>5, <1>6, <1>7, <1>8, Zenon DEF fatCreatFile, fatCreatNewFile, fatCreatDir, NoRoom

LEMMA RenamePromised ==
  ASSUME InOrder, Fine(View(slots), full), Slips \cap {"collision", "restore", "full disk"} = {},
         NEW o \in Names, NEW n \in Names, fatRenameFile(o, n)
  PROVE  Promises
<1> DEFINE i == At(o)
           e == AsEntry(slots, i)
<1>1. CASE Refused("rename", <<o, n>>)
  <2>1. Promised!Refusable("rename", <<o, n>>)
    BY DEF Promised!Refusable
  <2> QED
    BY <1>1, <2>1, Refusals
<1>2. ASSUME Present(i), Absent(At(n))
      PROVE  /\ i \in Entries(slots) /\ slots[i] \in EntrySlots /\ Sound(slots) /\ i \in Bearing(slots, o)
             /\ e \in View(slots) /\ Bearing(slots, n) = {}
  BY <1>2, Seen, NotSeen
(* What a rename makes of the entry has the name n.                        *)
<1>3. ASSUME Present(i), Absent(At(n)), full' = full, Answered("rename", <<o, n>>, TRUE),
             NEW f, View(slots') = (View(slots) \ {e}) \cup {f},
             f.start = slots[i].start, f.dir = slots[i].dir,
             f.long = IF AsShort(n).tag = "short" THEN NoText ELSE n,
             \A j \in Entries(slots) \ {i} : slots[j].name # f.short,
             IF n.tag = "long" THEN f.short.stem = Stem[n.text] /\ f.short.tail > 0 ELSE f.short = n.text
      PROVE  Promises
  <2>1. Promised!Next
    <3> HIDE DEF i
    <3> QED
      BY <1>2, <1>3, StepRenames
  <2>2. Promised!Finds(f, n)
    <3>1. n.tag = "long" => f.long = n
      BY <1>3 DEF AsShort
    <3>2. n.tag # "long" => f.short = n.text
      BY <1>3
    <3> QED
      BY <3>1, <3>2 DEF Promised!Finds
  <2>3. f.start = e.start /\ f.dir = e.dir
    BY <1>3, AsEntryFields, Zenon
  <2> HIDE DEF e
  <2>4. Fine((View(slots) \ {e}) \cup {f}, full)
    BY <1>2, <1>3, <2>2, <2>3, FineReplaces, Zenon
  <2> QED
    BY <1>3, <2>1, <2>4, Zenon DEF Promises
<1>4. CASE /\ Present(i) /\ Absent(At(n)) /\ InPlace(o, i, n)
           /\ slots' = [slots EXCEPT ![i].name = n.text]
           /\ Answered("rename", <<o, n>>, TRUE)
           /\ UNCHANGED <<rootsize, chain, used, full, looked, stopped>>
  <2> DEFINE f == AsEntry(slots', i)
  <2>1. LongAt(slots, i) = NoText /\ Replaces(slots, slots', i, [slots[i] EXCEPT !.name = n.text])
    BY <1>4, RenamedInPlace
  <2>2. View(slots') = (View(slots) \ {e}) \cup {f}
    BY <1>2, <1>4, <2>1, ViewReplaces
  <2>3. LongAt(slots', i) = NoText /\ slots'[i] = [slots[i] EXCEPT !.name = n.text]
    BY <2>1 DEF Replaces
  <2>4. slots[i] = [tag |-> "entry", name |-> slots[i].name, start |-> slots[i].start, dir |-> slots[i].dir]
    BY <1>2, <1>4, EntryFields
  <2>5. slots'[i] = [tag |-> "entry", name |-> n.text, start |-> slots[i].start, dir |-> slots[i].dir]
    BY ONLY <2>3, <2>4
  <2>6. slots'[i].name = n.text /\ slots'[i].start = slots[i].start
    BY ONLY <2>5
  <2>7. slots'[i].dir = slots[i].dir
    BY ONLY <2>5
  <2>8. f.short = n.text /\ f.start = slots[i].start /\ f.long = NoText
    <3>1. f.short = slots'[i].name /\ f.long = LongAt(slots', i) /\ f.start = slots'[i].start
      BY AsEntryFields
    <3> HIDE DEF f, i
    <3> QED
      BY ONLY <2>3, <2>6, <3>1
  <2>9. f.dir = slots[i].dir
    BY <2>7, AsEntryFields, Zenon
  <2>10. n.tag # "long" /\ AsShort(n).tag = "short"
    <3>1. n = [tag |-> n.tag, text |-> n.text] /\ n.tag # "long"
      BY <1>4, DirAssumption DEF InPlace
    <3>2. [n EXCEPT !.tag = "short"].tag = "short"
      BY <3>1
    <3> QED
      BY <3>1, <3>2 DEF AsShort
  <2>11. \A j \in Entries(slots) : slots[j].name # n.text
    BY <1>2, <1>4, <2>10 DEF Bearing
  <2> HIDE DEF f
  <2> QED
    BY <1>3, <1>4, <2>2, <2>8, <2>9, <2>10, <2>11, Zenon
<1>5. CASE Present(i) /\ Absent(At(n)) /\ Moved(o, i, n)
  <2>1. full' = full
    BY <1>5 DEF Moved
  <2>2. \/ Answered("rename", <<o, n>>, TRUE) /\ \E name : Moves(i, AsShort(n), name)
        \/ /\ Answered("rename", <<o, n>>, FALSE) /\ LongAt(slots, i) = NoText
           /\ \E m : m.tag = "short" /\ Moves(i, m, slots[i].name)
    <3>1. ~Slip("full disk") /\ Slips \cap {"collision", "restore"} = {}
      BY DEF Slip
    <3> QED
      BY <1>5, <3>1, MovedDoes
  <2>3. ASSUME NEW name, Moves(i, AsShort(n), name), Answered("rename", <<o, n>>, TRUE) PROVE Promises
    <3> DEFINE m == AsShort(n)
               f == [short |-> name, long |-> IF m.tag = "short" THEN NoText ELSE m,
                     start |-> slots[i].start, dir |-> slots[i].dir]
               d == deleteLFNs(slots, i)
    <3>1. View(slots') = (View(slots) \ {e}) \cup {f}
      BY <1>2, <1>5, <2>3, ViewMoves
    <3>2. f.short = name /\ f.start = slots[i].start /\ f.long = IF m.tag = "short" THEN NoText ELSE m
      OBVIOUS
    <3>3. f.dir = slots[i].dir
      OBVIOUS
    <3>4. n.tag = "long" => m = n
      BY DEF AsShort
    <3>5. n.tag # "long" => m.tag = "short" /\ m.text = n.text
      <4>1. n = [tag |-> n.tag, text |-> n.text]
        BY DirAssumption
      <4>2. [n EXCEPT !.tag = "short"].tag = "short" /\ [n EXCEPT !.tag = "short"].text = n.text
        BY <4>1
      <4> QED
        BY <4>2 DEF AsShort
    <3>6. Removes(slots, d, i) /\ Suits(d, m, name)
      BY <2>3, Zenon DEF Moves
    <3> HIDE DEF f, d
    <3>7. \A j \in Entries(slots) \ {i} : slots[j].name # name
      BY <3>6 DEF Removes, Same, Suits
    <3>8. IF n.tag = "long" THEN name.stem = Stem[n.text] /\ name.tail > 0 ELSE name = n.text
      BY <3>4, <3>5, <3>6 DEF Suits
    <3>9. f.long = IF AsShort(n).tag = "short" THEN NoText ELSE n
      <4>1. n.tag = "long" => f.long = IF n.tag = "short" THEN NoText ELSE n
        BY <3>2, <3>4
      <4> QED
        BY <3>2, <3>4, <3>5, <4>1
    <3> HIDE DEF m, e
    <3> QED
      BY <1>3, <1>5, <2>1, <2>3, <3>1, <3>2, <3>3, <3>7, <3>8, <3>9, Zenon
  <2>4. ASSUME Answered("rename", <<o, n>>, FALSE), LongAt(slots, i) = NoText,
               NEW m, m.tag = "short", Moves(i, m, slots[i].name)
        PROVE  Promises
    <3> DEFINE f == [short |-> slots[i].name, long |-> IF m.tag = "short" THEN NoText ELSE m,
                     start |-> slots[i].start, dir |-> slots[i].dir]
    <3>1. View(slots') = (View(slots) \ {e}) \cup {f}
      BY <1>2, <1>5, <2>4, ViewMoves
    <3>2. f = e
      BY <2>4, Zenon DEF AsEntry
    <3> HIDE DEF f, e
    <3>3. View(slots') = View(slots)
      BY <1>2, <1>5, <3>1, <3>2
    <3>4. Promised!Refusable("rename", <<o, n>>)
      BY DEF Promised!Refusable
    <3>5. Promised!Next
      BY <2>1, <2>4, <3>3, <3>4, StepRefuses
    <3> QED
      BY <2>1, <3>3, <3>5 DEF Promises
  <2> QED
    BY <2>2, <2>3, <2>4
<1> QED
  BY <1>1, <1>4, <1>5 DEF fatRenameFile

(* A file or a directory that is deleted is what the name finds then; it   *)
(* is what was looked at if nothing happened between.                      *)
LEMMA DeletePromised ==
  ASSUME InOrder, Fine(View(slots), full), "collision" \notin Slips,
         NEW l \in [op : {"delete", "remove directory"}, name : Names], fatDeleteFile(l)
  PROVE  Fine(View(slots'), full') /\ ("between" \notin Slips => Promises)
<1> DEFINE n == l.name
           i == At(n)
           e == AsEntry(slots, i)
<1>1. n \in Names /\ l.op \in {"delete", "remove directory"}
  OBVIOUS
<1>2. CASE Absent(i) /\ Answered(l.op, <<n>>, FALSE) /\ UNCHANGED <<slots, rootsize, chain, used, full, stopped>>
  <2>1. Promised!Named(n) = {}
    BY <1>1, <1>2, NotSeen
  <2>2. Promised!Refusable(l.op, <<n>>)
    BY <1>1, <2>1 DEF Promised!Refusable
  <2>3. View(slots') = View(slots)
    BY <1>2
  <2>4. Promised!Next
    BY <1>2, <2>2, <2>3, StepRefuses
  <2> QED
    BY <1>2, <2>3, <2>4 DEF Promises
<1>3. CASE /\ Present(i) /\ ~Misled(slots, i) /\ (AsLooked(l, i) \/ Slip("between"))
           /\ slots' = deleteLFNs(slots, i)
           /\ used' = used \ {slots[i].start} /\ full' = full \ {slots[i].start}
           /\ Answered(l.op, <<n>>, TRUE) /\ UNCHANGED <<rootsize, chain, stopped>>
  <2>1. /\ i \in Entries(slots) /\ slots[i] \in EntrySlots /\ Sound(slots)
        /\ e \in Promised!Named(n) /\ e \in View(slots)
    BY <1>1, <1>3, Seen
  <2>2. Removes(slots, slots', i)
    BY <1>3, <2>1, DeleteDoes
  <2>3. View(slots') = View(slots) \ {e}
    BY <2>1, <2>2, ViewRemoves
  <2>4. e.start = slots[i].start
    BY AsEntryFields
  <2>5. e.dir = slots[i].dir
    BY AsEntryFields, Zenon
  <2>6. Fine(View(slots'), full')
    <3>1. full' = full \ {e.start}
      BY <1>3, <2>4
    <3> HIDE DEF e
    <3>2. Fine(View(slots) \ {e}, full \ {e.start})
      BY FineRemoves
    <3> QED
      BY ONLY <2>3, <3>1, <3>2
  <2>7. ASSUME AsLooked(l, i) PROVE Promises
    <3>1. (l.op = "delete" /\ ~e.dir) \/ (l.op = "remove directory" /\ e.dir /\ e.start \notin full)
      BY <1>1, <2>4, <2>5, <2>7, Zenon DEF AsLooked, CanRemove
    <3>2. e.start \notin full
      <4> SUFFICES ASSUME ~e.dir, e.start \in full PROVE FALSE
        BY <3>1
      <4>1. PICK x \in View(slots) : x.dir /\ x.start = e.start
        BY Zenon DEF Fine
      <4>2. PICK j \in Entries(slots) : x = AsEntry(slots, j)
        BY DEF View
      <4>3. x.start = slots[j].start /\ x.start # NoCluster
        BY <4>1, <4>2, AsEntryFields, Zenon DEF Fine
      <4>4. i \in Begun(slots) /\ j \in Begun(slots) /\ slots[i].start = slots[j].start
        BY <2>1, <2>4, <4>1, <4>3 DEF Begun
      <4>5. i = j
        BY <4>4 DEF InOrder, Kept, Own
      <4> QED
        BY <4>1, <4>2, <4>5, Zenon
    <3> HIDE DEF e
    <3>3. full' = full
      BY <1>3, <2>4, <3>2
    <3>4. Promised!Next
      BY <1>1, <1>3, <2>1, <2>3, <3>1, <3>3, StepDeletes, Zenon
    <3> QED
      BY <2>6, <3>4 DEF Promises
  <2> QED
    BY <1>3, <2>6, <2>7 DEF Slip
<1>4. CASE UNCHANGED <<slots, rootsize, chain, used, full, call>>
  <2>1. View(slots') = View(slots)
    BY <1>4
  <2>2. Promises
    BY <1>4, <2>1, Nothing
  <2> QED
    BY <2>2 DEF Promises
<1> QED
  BY <1>2, <1>3, <1>4 DEF fatDeleteFile, Slip

LEMMA OthersPromised ==
  ASSUME InOrder, Fine(View(slots), full), "attributes" \notin Slips, NEW n \in Names,
         fileDelete(n) \/ dirDelete(n) \/ \E dir \in BOOLEAN : fatSetFileAttributes(n, dir)
  PROVE  Promises
<1> DEFINE i == At(n)
           e == AsEntry(slots, i)
<1>1. ASSUME Absent(i), NEW op \in {"delete", "remove directory", "attributes"}, Refused(op, <<n>>) PROVE Promises
  <2>1. Promised!Refusable(op, <<n>>)
    BY <1>1, NotSeen DEF Promised!Refusable
  <2> QED
    BY <1>1, <2>1, Refusals
<1>2. ASSUME Present(i)
      PROVE  /\ i \in Entries(slots) /\ slots[i] \in EntrySlots /\ Sound(slots)
             /\ Promised!Named(n) = {e} /\ e.start = slots[i].start
  BY <1>2, Seen, AsEntryFields
<1>3. e.dir = slots[i].dir
  BY AsEntryFields, Zenon
<1>4. ASSUME Present(i), slots[i].dir, Refused("delete", <<n>>) PROVE Promises
  <2>1. ~(\E x \in Promised!Named(n) : x.dir = FALSE)
    BY <1>2, <1>3, <1>4, Zenon
  <2>2. Promised!Refusable("delete", <<n>>)
    BY <2>1 DEF Promised!Refusable
  <2> QED
    BY <1>4, <2>2, Refusals
<1>5. ASSUME Present(i), ~CanRemove(i), Refused("remove directory", <<n>>) PROVE Promises
  <2>1. \/ ~(\E x \in Promised!Named(n) : x.dir = TRUE)
        \/ \E x \in Promised!Named(n) : x.start \in full
    BY <1>2, <1>3, <1>5, Zenon DEF CanRemove
  <2>2. Promised!Refusable("remove directory", <<n>>)
    BY <2>1 DEF Promised!Refusable
  <2> QED
    BY <1>5, <2>2, Refusals
<1>6. ASSUME Astray(i) PROVE Promises
  BY <1>6, Nothing DEF Astray
<1>7. ASSUME NEW op, Looks(op, n) PROVE Promises
  BY <1>7, Nothing DEF Looks
<1>8. ASSUME Present(i), NEW dir \in BOOLEAN, dir = slots[i].dir, slots' = [slots EXCEPT ![i].dir = dir],
             Answered("attributes", <<n>>, TRUE), UNCHANGED <<rootsize, chain, used, full, looked, stopped>>
      PROVE  Promises
  <2>1. Sound(slots) /\ i \in Entries(slots) /\ slots[i] \in EntrySlots /\ Promised!Named(n) # {}
    BY <1>2, <1>8
  <2>2. slots' = slots
    <3>1. slots[i] = [tag |-> "entry", name |-> slots[i].name, start |-> slots[i].start, dir |-> slots[i].dir]
      BY <2>1, EntryFields
    <3>2. slots[i] = [slots[i] EXCEPT !.dir = slots[i].dir]
      BY ONLY <3>1
    <3>3. slots' = [slots EXCEPT ![i] = slots[i]]
      BY <1>8, <3>2, Zenon
    <3> QED
      BY <2>1, <3>3 DEF Sound, Entries
  <2>3. Stored' = Stored
    BY <2>2, StoredIs
  <2>4. Promised!SetsAttributes(n)
    BY <1>8, <2>1, <2>3, Zenon DEF Promised!SetsAttributes, Promised!Answered, Answered, Stored
  <2> QED
    BY <1>8, <2>2, <2>4 DEF Promises, Promised!Next
<1> QED
  BY <1>1, <1>4, <1>5, <1>6, <1>7, <1>8, Zenon DEF fileDelete, dirDelete, fatSetFileAttributes, Slip

LEMMA BelowPromised ==
  ASSUME InOrder, Fine(View(slots), full), NEW i \in Entries(slots), FirstCluster(i) \/ Below(i)
  PROVE  Promises
<1> DEFINE e == AsEntry(slots, i)
<1>1. e \in View(slots) /\ e.start = slots[i].start /\ slots[i] \in EntrySlots /\ Sound(slots)
  <2>1. slots[i] \in EntrySlots /\ Sound(slots)
    BY SlotKinds DEF InOrder, Kept, Sound, Entries
  <2> QED
    BY <2>1, AsEntryFields DEF View
<1>2. e.dir = slots[i].dir
  BY AsEntryFields, Zenon
<1>3. CASE FirstCluster(i)
  <2>1. PICK n \in Names : Promised!Finds(e, n)
    BY <1>1, Zenon DEF Fine
  <2>2. e \in Promised!Named(n)
    <3>1. e \in Stored
      BY <1>1, StoredIs
    <3> QED
      BY <2>1, <3>1, Zenon DEF Promised!Named, Stored
  <2>3. PICK c \in Clusters : Replaces(slots, slots', i, Begins(slots[i], c))
    BY <1>3, FirstClusterDoes
  <2> DEFINE f == Begins(e, c)
  <2>4. AsEntry(slots', i) = f
    <3>1. slots[i] \in EntrySlots
      BY <1>1
    <3> QED
      BY ONLY <2>3, <3>1, EntryBegins
  <2>5. View(slots') = (View(slots) \ {e}) \cup {f}
    BY <1>1, <2>3, <2>4, ViewReplaces
  <2>6. ~e.dir /\ e.start = NoCluster /\ UNCHANGED <<full, call>>
    BY <1>1, <1>2, <1>3, Zenon DEF FirstCluster
  <2>7. f.short = e.short /\ f.long = e.long
    BY DEF AsEntry, Begins
  <2>8. f.dir = e.dir
    BY DEF AsEntry, Begins
  <2>9. Promised!Finds(f, n)
    BY <2>1, <2>7 DEF Promised!Finds
  <2> HIDE DEF e
  <2>10. Promised!Next
    BY <2>2, <2>5, <2>6, StepFills
  <2> HIDE DEF f
  <2>11. ~f.dir
    BY <2>6, <2>8, Zenon
  <2>12. Fine((View(slots) \ {e}) \cup {f}, full)
    BY <1>1, <2>6, <2>9, <2>11, FineReplaces
  <2> QED
    BY <2>5, <2>6, <2>10, <2>12 DEF Promises
<1>4. CASE Below(i)
  <2>1. e.dir /\ UNCHANGED <<slots, call>> /\ full' \in {full \cup {e.start}, full \ {e.start}}
    BY <1>1, <1>2, <1>4, Zenon DEF Below
  <2>2. Stored' = Stored /\ View(slots') = View(slots) /\ e \in Stored
    BY <1>1, <2>1, StoredIs
  <2> HIDE DEF e
  <2>3. Promised!Below
    BY <2>1, <2>2, Zenon DEF Promised!Below, Stored
  <2>4. Fine(View(slots), full')
    <3>1. e.start \in {x.start : x \in {y \in View(slots) : y.dir}}
      BY <1>1, <2>1, Zenon
    <3> QED
      BY <2>1, <3>1 DEF Fine
  <2> QED
    BY <2>2, <2>3, <2>4 DEF Promises, Promised!Next
<1> QED
  BY <1>3, <1>4

-----------------------------------------------------------------------------
(* Clusters, and what Directory promises.                                  *)
OwnInv ==
  /\ InOrder /\ Fine(View(slots), full)
  /\ looked \subseteq [op : {"delete", "remove directory"}, name : Names]

LEMMA OwnInvStays ==
  ASSUME Fine(View(slots'), full'), Goes,
         looked \subseteq [op : {"delete", "remove directory"}, name : Names], rootsize \in RootSizes
  PROVE  OwnInv'
<1>1. View(slots)' = View(slots')
  BY DEF View, AsEntry, LongAt, Entries, Is
<1>2. Fine(View(slots), full)'
  BY <1>1 DEF Fine, Promised!Finds
<1>3. InOrder'
  BY KeptThen DEF InOrder, Goes, KeptAfter
<1>4. looked' \subseteq [op : {"delete", "remove directory"}, name : Names]
  BY DEF Goes
<1> QED
  BY ONLY <1>2, <1>3, <1>4 DEF OwnInv

LEMMA OwnInvStep ==
  ASSUME OwnInv, [Next]_vars, Slips \subseteq {"between"}
  PROVE  OwnInv' /\ ("between" \notin Slips => [Promised!Next]_(Promised!vars))
<1>1. /\ "orphan" \notin Slips /\ "collision" \notin Slips /\ "attributes" \notin Slips
      /\ Slips \cap {"collision", "restore"} = {} /\ Slips \cap {"collision", "restore", "full disk"} = {}
      /\ "full disk" \notin Slips
  OBVIOUS
<1>2. InOrder /\ Fine(View(slots), full) /\ rootsize \in RootSizes
  BY DEF OwnInv, InOrder
<1>3. Goes /\ Fine(View(slots'), full') /\ ("between" \notin Slips => Promises)
  <2>1. CASE UNCHANGED vars
    <3>1. UNCHANGED <<slots, rootsize, chain, used, full, looked, call>>
      BY <2>1 DEF vars
    <3>2. KeptAfter /\ View(slots') = View(slots)
      BY <1>2, <3>1, NothingWritten
    <3>3. Goes
      BY <3>1, <3>2 DEF Goes
    <3>4. Promises
      BY <1>2, <3>1, <3>2, Nothing
    <3> QED
      BY <3>3, <3>4 DEF Promises
  <2>2. ASSUME NEW n \in Names, fatCreatFile(n) \/ fatCreatNewFile(n) \/ fatCreatDir(n) PROVE Goes /\ Promises
    BY <1>1, <1>2, <2>2, CreatesGo, CreatesPromised
  <2>3. ASSUME NEW n \in Names,
               fileDelete(n) \/ dirDelete(n) \/ \E dir \in BOOLEAN : fatSetFileAttributes(n, dir)
        PROVE  Goes /\ Promises
    BY <1>1, <1>2, <2>3, OthersGo, OthersPromised
  <2>4. ASSUME NEW o \in Names, NEW n \in Names, fatRenameFile(o, n) PROVE Goes /\ Promises
    <3>1. Goes
      BY <1>1, <1>2, <2>4, RenameGoes DEF Slip
    <3>2. Promises
      BY <1>1, <1>2, <2>4, RenamePromised
    <3> QED
      BY <3>1, <3>2
  <2>5. ASSUME NEW l \in looked, fatDeleteFile(l)
        PROVE  Goes /\ Fine(View(slots'), full') /\ ("between" \notin Slips => Promises)
    <3>1. l \in [op : {"delete", "remove directory"}, name : Names]
      BY DEF OwnInv
    <3>2. l.name \in Names
      BY <3>1
    <3>3. Goes
      BY <1>1, <1>2, <2>5, <3>2, DeleteGoes
    <3>4. Fine(View(slots'), full') /\ ("between" \notin Slips => Promises)
      BY <1>1, <1>2, <2>5, <3>1, DeletePromised
    <3> QED
      BY <3>3, <3>4
  <2>6. ASSUME NEW i \in Entries(slots), FirstCluster(i) \/ Below(i) PROVE Goes /\ Promises
    BY <1>2, <2>6, BelowGoes, BelowPromised
  <2>7. Promises => Fine(View(slots'), full')
    BY DEF Promises
  <2> QED
    BY <2>1, <2>2, <2>3, <2>4, <2>5, <2>6, <2>7, Zenon DEF Next
<1>4. OwnInv'
  BY <1>2, <1>3, OwnInvStays DEF OwnInv
<1> QED
  BY <1>3, <1>4 DEF Promises

LEMMA OwnInvStarts == Init => OwnInv
<1> SUFFICES ASSUME Init PROVE OwnInv
  OBVIOUS
<1>1. InOrder /\ View(slots) = {} /\ full = {} /\ looked = {}
  BY InitInOrder DEF Init
<1> QED
  BY <1>1 DEF OwnInv, Fine

LEMMA OwnInvHolds ==
  ASSUME Slips \subseteq {"between"}
  PROVE  Spec => []OwnInv
<1>1. OwnInv /\ [Next]_vars => OwnInv'
  BY OwnInvStep
<1> QED
  BY <1>1, OwnInvStarts, PTL DEF Spec

(* No cluster is lost and none has two owners: those in use are the        *)
(* directory's own and one for each entry that has begun, through every    *)
(* create, delete, rename and refusal, also when what a name finds is      *)
(* another entry by the time it is deleted.                                *)
THEOREM ClustersHaveOwners ==
  ASSUME Slips \subseteq {"between"}
  PROVE  Spec => []ClustersOwned
<1>1. OwnInv => ClustersOwned
  <2> SUFFICES ASSUME OwnInv PROVE ClustersOwned
    OBVIOUS
  <2>1. Starts = Begun(slots) /\ Written = Entries(slots)
    BY DEF Starts, Begun, Written
  <2>2. Own(slots, chain, used) /\ (~Fixed => Len(slots) = PerSector * Cardinality(chain))
    BY DEF OwnInv, InOrder, Kept, Sectors
  <2>3. ASSUME NEW i \in Entries(slots), slots[i].start = NoCluster PROVE ~slots[i].dir
    <3>1. AsEntry(slots, i) \in View(slots)
      BY DEF View
    <3>2. AsEntry(slots, i).start = NoCluster
      BY <2>3, AsEntryFields
    <3>3. ~AsEntry(slots, i).dir
      BY <3>1, <3>2, Zenon DEF OwnInv, Fine
    <3> QED
      BY <3>3, AsEntryFields, Zenon
  <2>4. ASSUME NEW u \in full PROVE \E i \in Begun(slots) : slots[i].dir /\ slots[i].start = u
    <3>1. PICK x \in View(slots) : x.dir /\ x.start = u
      BY Zenon DEF OwnInv, Fine
    <3>2. PICK i \in Entries(slots) : x = AsEntry(slots, i)
      BY DEF View
    <3>3. slots[i].start = u
      BY <3>1, <3>2, AsEntryFields
    <3>4. slots[i].dir
      BY <3>1, <3>2, AsEntryFields, Zenon
    <3>5. i \in Begun(slots)
      BY <2>3, <3>4, Zenon DEF Begun
    <3> QED
      BY <3>3, <3>4, <3>5, Zenon
  <2>5. full \subseteq {slots[i].start : i \in {j \in Begun(slots) : slots[j].dir}}
    BY <2>4, Zenon
  <2>6. /\ used = chain \cup {slots[i].start : i \in Begun(slots)}
        /\ \A i \in Begun(slots) : slots[i].start \notin chain
        /\ \A i \in Begun(slots) : \A j \in Begun(slots) \ {i} : slots[j].start # slots[i].start
    BY <2>2 DEF Own
  <2>7. \A i \in Entries(slots) \ Begun(slots) : ~slots[i].dir
    BY <2>3, Zenon DEF Begun
  <2> QED
    BY <2>1, <2>2, <2>5, <2>6, <2>7, Zenon DEF ClustersOwned
<1> QED
  BY <1>1, OwnInvHolds, PTL

(* What Directory promises is what the slots do: a step of the file        *)
(* system, with its slots, long name pieces, checksums and clusters, makes *)
(* the change of the set of entries that the call names, or none, and the  *)
(* answer is the one that the set allows.                                  *)
THEOREM DirectoryKept ==
  ASSUME Slips = {}
  PROVE  Spec => KeepsDirectory
<1>1. Init => Promised!Init
  <2> SUFFICES ASSUME Init PROVE Promised!Init
    OBVIOUS
  <2>1. Stored = {}
    BY InitInOrder, StoredIs
  <2>2. full = {} /\ call = [op |-> "start", names |-> << >>, answer |-> TRUE]
    BY DEF Init
  <2> QED
    BY <2>1, <2>2, Zenon DEF Promised!Init, Stored
<1>2. OwnInv /\ [Next]_vars => [Promised!Next]_(Promised!vars)
  BY OwnInvStep
<1>3. Spec => []OwnInv
  BY OwnInvHolds
<1> QED
  BY <1>1, <1>2, <1>3, PTL DEF Spec, KeepsDirectory, Promised!Spec
=============================================================================

------------------------------- MODULE FatDir -------------------------------
(***************************************************************************)
(* A directory of a FAT disk as fat.c keeps it: a row of slots, each the   *)
(* end, deleted, a piece of a long name, or an 8.3 entry, which the pieces *)
(* of its long name precede with a checksum of the 8.3 name.  The row has  *)
(* a fixed size (the root of FAT-12 and FAT-16) or grows by clusters.      *)
(*                                                                         *)
(* Calls are made under fatMutex and are one action, except for the calls  *)
(* of pdos.c that look first and delete under a second lock.  What a file  *)
(* or a directory in it holds is its first cluster here; of a directory    *)
(* also whether it is empty.  The two dot entries, labels and the path to  *)
(* the directory are left out, and names are what the properties can tell  *)
(* apart of them.                                                          *)
(***************************************************************************)
EXTENDS Naturals, Sequences, FiniteSets, FiniteSetsExt

CONSTANTS
  Names,      \* what a caller can ask for: [tag, text], tag "long", "short" or "mixed"
  Stem,       \* of a long name's text, the stem of the 8.3 names made for it
  Pieces,     \* of a long name's text, how many slots it takes
  MaxTail,    \* a bound: the largest numeric tail, more than there are slots
  Checksum,   \* of an 8.3 name, what generateChecksum makes of it
  NoText,     \* the long name of an entry that has none
  PerSector,  \* slots in a sector, which is also a cluster
  RootSizes,  \* sectors of a fixed directory, 0 for one that grows
  Clusters, NoCluster,
  Slips       \* those of the Patterns that happen

(* Where fat.c and pdos.c do not get a directory right.                    *)
Patterns == {
  "collision",   \* an 8.3 name with the checksum of another entry's long name
  "restore",     \* a rename that finds no room puts the old long name back
  "full disk",   \* a rename has to make the directory grow, and cannot
  "orphan",      \* no cluster for a new directory whose long name is written
  "between",     \* what a name finds has changed between the look and the delete
  "attributes" } \* the attributes set for a directory do not say it is one

ShortNames == [stem : {n.text.stem : n \in {m \in Names : m.tag # "long"}}
                      \cup {Stem[n.text] : n \in {m \in Names : m.tag = "long"}}, tail : 0 .. MaxTail]

ASSUME DirAssumption ==
  /\ \A n \in Names : /\ n = [tag |-> n.tag, text |-> n.text] /\ n # NoText
                      /\ \/ n.tag = "long" /\ Pieces[n.text] \in Nat \ {0}
                         \/ n.tag \in {"short", "mixed"} /\ n.text \in ShortNames
  /\ PerSector \in Nat \ {0} /\ RootSizes \subseteq Nat
  /\ DOMAIN Checksum = ShortNames /\ Slips \subseteq Patterns
  /\ IsFiniteSet(Clusters) /\ NoCluster \notin Clusters
  /\ MaxTail \in Nat /\ \A sectors \in RootSizes \cup {Cardinality(Clusters)} : PerSector * sectors < MaxTail

VARIABLES
  slots,    \* the directory
  rootsize, \* its sectors, if that is fixed; 0 otherwise
  chain,    \* the clusters it consists of, if it grows
  used,     \* the clusters in use
  full,     \* the first clusters of the directories in it that are not empty
  looked,   \* what a caller that is about to delete has seen: at most one [op, name]
  stopped,  \* "no"; in the "monitor"; or "astray", not followed any further
  call      \* the last call and its answer

vars == <<slots, rootsize, chain, used, full, looked, stopped, call>>
watched == <<slots, rootsize, chain, used, full, looked, stopped>>

End == [tag |-> "end"]
Deleted == [tag |-> "deleted"]
Is(sl, i, tag) == sl[i].tag = tag
Fixed == rootsize # 0
Least(S, default) == IF S = {} THEN default ELSE Min(S)
Newest(S) == Max(S \cup {0})
PiecesOf(n) == IF n.tag = "long" THEN Pieces[n.text] ELSE 1

-----------------------------------------------------------------------------
(* Looking a name up, as fatDirSectorSearch goes through the slots up to   *)
(* the end, behind which there are only ends (see SlotsSound).             *)
EndOf(sl) == Least({i \in DOMAIN sl : Is(sl, i, "end")}, Len(sl) + 1)
Entries(sl) == {i \in DOMAIN sl : Is(sl, i, "entry")}

(* At slot i: where the long name read last starts, what is in the buffer  *)
(* it was read to, and whether the checksum read last is that of the entry.*)
Before(sl, i) == {j \in 1 .. i - 1 : Is(sl, j, "lfn")}
LfnStart(sl, i) == Newest({j \in 1 .. i - 1 : Is(sl, j, "lfn") /\ sl[j].first})
SumFits(sl, i) == Before(sl, i) # {} /\ sl[Newest(Before(sl, i))].sum = Checksum[sl[i].name]
Spelled(sl, i, n) ==
  \A k \in 1 .. PiecesOf(n) :
    LET j == Newest({h \in Before(sl, i) : sl[h].ord = k}) IN j # 0 /\ sl[j].text = n

(* A long name is used for one entry only.                                 *)
StillUnused(sl, f, i) == \A j \in f .. i - 1 : ~Is(sl, j, "entry")
HasLongName(sl, i, n) ==
  \E f \in 1 .. i - 1 : /\ Is(sl, f, "lfn") /\ sl[f].text = n /\ f = LfnStart(sl, i)
                        /\ StillUnused(sl, f, i) /\ SumFits(sl, i) /\ Spelled(sl, i, n)

(* The long name that an entry found by its 8.3 name is taken to have.     *)
TakenText(sl, i) == IF LfnStart(sl, i) # 0 /\ SumFits(sl, i) THEN sl[LfnStart(sl, i)].text ELSE NoText

(* The slot of the entry that a name finds, 0 if none.                     *)
Found(sl, n) ==
  Least({i \in Entries(sl) : IF n.tag = "long" THEN HasLongName(sl, i, n) ELSE sl[i].name = n.text}, 0)

(* Where fatPosition stands when there is none: the first deleted slot, or *)
(* the end, or behind the last slot.                                       *)
Unused(sl, i) == i > Len(sl) \/ Is(sl, i, "deleted") \/ Is(sl, i, "end")
FirstFree(sl) == Min({i \in 1 .. Len(sl) + 1 : Unused(sl, i)})

(* What fatPosition says when it has found slot i, or 0.  In a directory   *)
(* of fixed size that has no end left, nothing says that there is none.    *)
notfound(sl, i) == i = 0 /\ (Fixed => EndOf(sl) <= Len(sl))

-----------------------------------------------------------------------------
(* Making room for a name.  A long one needs slots in a row, and one more  *)
(* that is the end unless one was seen before.                             *)
required_free(n) == IF n.tag = "short" THEN 1 ELSE PiecesOf(n) + 1
RunAt_Scattered(sl, k) ==
  Min({p \in {j \in DOMAIN sl : Unused(sl, j)} : Cardinality({j \in p .. Len(sl) : Unused(sl, j)}) >= k}
      \cup {Len(sl) + 1})
RunAt(sl, k) == Min({p \in 1 .. Len(sl) + 1 : \A j \in p .. p + k - 1 : Unused(sl, j)})
Spot(sl, n) == IF n.tag = "short" THEN FirstFree(sl) ELSE RunAt(sl, required_free(n))
LastSeen(sl, n) ==
  IF n.tag = "short" THEN FirstFree(sl) ELSE Max({EndOf(sl), Spot(sl, n) + required_free(n)})

SectorOf(i) == (i + PerSector - 1) \div PerSector
Growth(sl, n) == IF Fixed THEN 0 ELSE Max({SectorOf(LastSeen(sl, n)) - SectorOf(Len(sl)), 0})
Grown(sl, g) == sl \o [i \in 1 .. g * PerSector |-> End]
HasRoom(sl, n) == Fixed => Spot(sl, n) + required_free(n) - 1 <= Len(sl)

(* The 8.3 name: the least numeric tail that no entry has.                 *)
Tails_FromTheEnd(sl, stem) ==
  {t \in 1 .. MaxTail : \A i \in {Newest(Entries(sl))} \cap Entries(sl) : sl[i].name # [stem |-> stem, tail |-> t]}
Tails(sl, stem) == {t \in 1 .. MaxTail : \A i \in Entries(sl) : sl[i].name # [stem |-> stem, tail |-> t]}
ShortName(sl, n) ==
  IF n.tag = "long" THEN [stem |-> Stem[n.text], tail |-> Min(Tails(sl, Stem[n.text]))] ELSE n.text

(* The slots with the entry of n, and the pieces of its long name before.  *)
createLFNs(sl, n, short, start, dir) ==
  LET p == Spot(sl, n)
      last == p + required_free(n) - 1
  IN [i \in DOMAIN sl |->
        IF i = last THEN [tag |-> "entry", name |-> short, start |-> start, dir |-> dir]
        ELSE IF i \in p .. last - 1
        THEN [tag |-> "lfn", ord |-> last - i, first |-> i = p, sum |-> Checksum[short], text |-> n]
        ELSE sl[i]]

Placed(sl, n, start, dir) ==
  createLFNs(Grown(sl, Growth(sl, n)), n, ShortName(sl, n), start, dir)

(* The slots without what the entry in slot i is taken to consist of.      *)
TakenAt(sl, i) ==
  LET t == TakenText(sl, i)
  IN IF t = NoText THEN {i} ELSE LfnStart(sl, i) .. LfnStart(sl, i) + PiecesOf(t)
deleteLFNs(sl, i) == [j \in DOMAIN sl |-> IF j \in TakenAt(sl, i) THEN Deleted ELSE sl[j]]
Misled(sl, i) == i \notin TakenAt(sl, i)

-----------------------------------------------------------------------------
(* The calls.                                                              *)
Answered(op, names, answer) == call' = [op |-> op, names |-> names, answer |-> answer]
Refused(op, names) == Answered(op, names, FALSE) /\ UNCHANGED watched
Slip(p) == p \in Slips

Free == Clusters \ used
At(n) == Found(slots, n)
Present(i) == i # 0
Absent(i) == notfound(slots, i)

(* Nothing says that the name was not found: the call goes on with the     *)
(* entry that was found last, in a sector that is another.                 *)
Astray(i) ==
  /\ ~Present(i) /\ ~Absent(i)
  /\ stopped' = "astray" /\ UNCHANGED <<slots, rootsize, chain, used, full, looked, call>>

(* The directory sl must grow for the name n, and the disk is full.        *)
fatChain_Fails(sl, n) ==
  /\ Growth(sl, n) > Cardinality(Free)
  /\ slots' = Grown(sl, Cardinality(Free)) /\ chain' = chain \cup Free /\ used' = Clusters
  /\ stopped' = "monitor" /\ UNCHANGED <<rootsize, full, looked, call>>

(* The clusters by which it grows, if there are enough.                    *)
fatChain_Gets(sl, n) == {more \in SUBSET Free : Cardinality(more) = Growth(sl, n)}

(* A file that is there loses what it holds.                               *)
Truncated_Kept(i) ==
  /\ ~slots[i].dir
  /\ slots' = [slots EXCEPT ![i].start = NoCluster]
  /\ UNCHANGED <<rootsize, chain, used, full, looked, stopped>>
Truncated(i) ==
  /\ ~slots[i].dir
  /\ slots' = [slots EXCEPT ![i].start = NoCluster]
  /\ used' = used \ {slots[i].start}
  /\ UNCHANGED <<rootsize, chain, full, looked, stopped>>

NewFile(n) ==
  /\ HasRoom(slots, n)
  /\ \E more \in fatChain_Gets(slots, n) : chain' = chain \cup more /\ used' = used \cup more
  /\ slots' = Placed(slots, n, NoCluster, FALSE)
  /\ UNCHANGED <<rootsize, full, looked, stopped>>

NoRoom(op, n) == ~HasRoom(slots, n) /\ Refused(op, <<n>>)
DiskFull(n) == HasRoom(slots, n) /\ fatChain_Fails(slots, n)

fatCreatFile(n) ==
  LET i == At(n)
  IN \/ Present(i) /\ slots[i].dir /\ Refused("create", <<n>>)
     \/ Present(i) /\ Truncated(i) /\ Answered("create", <<n>>, TRUE)
     \/ /\ Absent(i)
        /\ \/ NewFile(n) /\ Answered("create", <<n>>, TRUE)
           \/ NoRoom("create", n) \/ DiskFull(n)
     \/ Astray(i)

fatCreatNewFile(n) ==
  LET i == At(n)
  IN \/ ~Absent(i) /\ Refused("create new", <<n>>)
     \/ /\ Absent(i)
        /\ \/ NewFile(n) /\ Answered("create new", <<n>>, TRUE)
           \/ NoRoom("create new", n) \/ DiskFull(n)

(* Of the slots written for a new directory, those in the sectors that are *)
(* on the disk before it is known that there is no cluster for it.         *)
HalfPlaced(n) ==
  LET sl == Placed(slots, n, NoCluster, TRUE)
      last == Spot(slots, n) + required_free(n) - 1
  IN [i \in DOMAIN sl |-> IF SectorOf(i) < SectorOf(last) THEN sl[i]
                          ELSE IF i \in DOMAIN slots THEN slots[i] ELSE End]

NewDir(n) ==
  \E more \in fatChain_Gets(slots, n) :
    /\ chain' = chain \cup more
    /\ \/ \E c \in Free \ more :
            /\ used' = used \cup more \cup {c}
            /\ slots' = Placed(slots, n, c, TRUE)
            /\ Answered("create directory", <<n>>, TRUE)
       \/ /\ Free = more
          /\ HalfPlaced(n) = Grown(slots, Growth(slots, n)) \/ Slip("orphan")
          /\ used' = used \cup more
          /\ slots' = HalfPlaced(n)
          /\ Answered("create directory", <<n>>, FALSE)

fatCreatDir(n) ==
  LET i == At(n)
  IN \/ ~Absent(i) /\ Refused("create directory", <<n>>)
     \/ /\ Absent(i)
        /\ \/ HasRoom(slots, n) /\ NewDir(n) /\ UNCHANGED <<rootsize, full, looked, stopped>>
           \/ NoRoom("create directory", n) \/ DiskFull(n)

(* A name is renamed in its slot when neither name needs a long one.       *)
InPlace_Names(o, i, n) == n.tag # "long" /\ o.tag # "long"
InPlace(o, i, n) == n.tag # "long" /\ o.tag # "long" /\ TakenText(slots, i) = NoText
AsShort(n) == IF n.tag = "long" THEN n ELSE [n EXCEPT !.tag = "short"]

(* What is put back when the new long name found no room: the entry, and   *)
(* its old long name from one character too early on, with another 8.3     *)
(* name made for it unless the caller gave its own.                        *)
Shifted(n) == [tag |-> n.tag, text |-> n.text, shifted |-> TRUE]
Restored(sl, o, i) ==
  LET e == slots[i]  t == TakenText(slots, i)
      shorts == IF o.tag = "mixed" THEN {o.text}
                ELSE {s \in ShortNames : s.tail > 0 /\ \A j \in Entries(sl) : sl[j].name # s}
  IN IF t = NoText
     THEN {createLFNs(sl, [tag |-> "short", text |-> e.name], e.name, e.start, e.dir)}
     ELSE {createLFNs(sl, Shifted(t), s, e.start, e.dir) : s \in shorts}

Moved(o, i, n) ==
  LET sl == deleteLFNs(slots, i)
      m  == AsShort(n)
  IN /\ Misled(slots, i) => Slip("collision")
     /\ UNCHANGED <<rootsize, full, looked>>
     /\ \/ /\ HasRoom(sl, m)
           /\ \E more \in fatChain_Gets(sl, m) : chain' = chain \cup more /\ used' = used \cup more
           /\ slots' = Placed(sl, m, slots[i].start, slots[i].dir)
           /\ Answered("rename", <<o, n>>, TRUE)
           /\ UNCHANGED stopped
        \/ /\ ~HasRoom(sl, m)
           /\ TakenText(slots, i) # NoText => Slip("restore")
           /\ slots' \in Restored(sl, o, i)
           /\ Answered("rename", <<o, n>>, FALSE)
           /\ UNCHANGED <<chain, used, stopped>>
        \/ Slip("full disk") /\ HasRoom(sl, m) /\ fatChain_Fails(sl, m)

fatRenameFile(o, n) ==
  LET i == At(o)
  IN \/ (Absent(At(n)) => Absent(i)) /\ Refused("rename", <<o, n>>)
     \/ /\ Present(i) /\ Absent(At(n))
        /\ \/ /\ InPlace(o, i, n)
              /\ slots' = [slots EXCEPT ![i].name = n.text]
              /\ Answered("rename", <<o, n>>, TRUE)
              /\ UNCHANGED <<rootsize, chain, used, full, looked, stopped>>
           \/ ~InPlace(o, i, n) /\ Moved(o, i, n)

(* The callers of pdos.c look at what is to be deleted, under fatMutex,    *)
(* and take it again for the delete.                                       *)
Looks(op, n) ==
  /\ looked = {} /\ looked' = {[op |-> op, name |-> n]}
  /\ UNCHANGED <<slots, rootsize, chain, used, full, stopped, call>>

fileDelete(n) ==
  LET i == At(n)
  IN \/ (Absent(i) \/ (Present(i) /\ slots[i].dir)) /\ Refused("delete", <<n>>)
     \/ Present(i) /\ ~slots[i].dir /\ Looks("delete", n)
     \/ Astray(i)

CanRemove(i) == slots[i].dir /\ slots[i].start \notin full
dirDelete(n) ==
  LET i == At(n)
  IN \/ (Absent(i) \/ (Present(i) /\ ~CanRemove(i))) /\ Refused("remove directory", <<n>>)
     \/ Present(i) /\ CanRemove(i) /\ Looks("remove directory", n)
     \/ Astray(i)

AsLooked(l, i) == IF l.op = "delete" THEN ~slots[i].dir ELSE CanRemove(i)

fatDeleteFile(l) ==
  LET i == At(l.name)
  IN /\ looked' = looked \ {l}
     /\ \/ /\ Absent(i) /\ Answered(l.op, <<l.name>>, FALSE)
           /\ UNCHANGED <<slots, rootsize, chain, used, full, stopped>>
        \/ /\ Present(i)
           /\ Misled(slots, i) => Slip("collision")
           /\ AsLooked(l, i) \/ Slip("between")
           /\ slots' = deleteLFNs(slots, i)
           /\ used' = used \ {slots[i].start} /\ full' = full \ {slots[i].start}
           /\ Answered(l.op, <<l.name>>, TRUE)
           /\ UNCHANGED <<rootsize, chain, stopped>>
        \/ /\ ~Present(i) /\ ~Absent(i)
           /\ stopped' = "astray" /\ UNCHANGED <<slots, rootsize, chain, used, full, call>>

(* The attributes are taken as they are given.                             *)
fatSetFileAttributes(n, dir) ==
  LET i == At(n)
  IN \/ Absent(i) /\ Refused("attributes", <<n>>)
     \/ /\ Present(i) /\ Answered("attributes", <<n>>, TRUE)
        /\ dir = slots[i].dir \/ Slip("attributes")
        /\ slots' = [slots EXCEPT ![i].dir = dir]
        /\ UNCHANGED <<rootsize, chain, used, full, looked, stopped>>
     \/ Astray(i)

(* The first bytes of a file, see FatFiles; calls for files of a directory *)
(* in this one, which keep its cluster.                                    *)
FirstCluster(i) ==
  /\ ~slots[i].dir /\ slots[i].start = NoCluster
  /\ \E c \in Free : slots' = [slots EXCEPT ![i].start = c] /\ used' = used \cup {c}
  /\ UNCHANGED <<rootsize, chain, full, looked, stopped, call>>

Below(i) ==
  /\ slots[i].dir
  /\ full' \in {full \cup {slots[i].start}, full \ {slots[i].start}}
  /\ UNCHANGED <<slots, rootsize, chain, used, looked, stopped, call>>

Init ==
  /\ rootsize \in RootSizes
  /\ IF Fixed THEN chain = {} ELSE \E c \in Clusters : chain = {c}
  /\ slots = [i \in 1 .. PerSector * (IF Fixed THEN rootsize ELSE 1) |-> End]
  /\ used = chain /\ full = {} /\ looked = {} /\ stopped = "no"
  /\ call = [op |-> "start", names |-> << >>, answer |-> TRUE]

Next ==
  /\ stopped = "no"
  /\ \/ \E n \in Names : \/ fatCreatFile(n) \/ fatCreatNewFile(n) \/ fatCreatDir(n)
                         \/ fileDelete(n) \/ dirDelete(n)
                         \/ \E m \in Names : fatRenameFile(n, m)
                         \/ \E dir \in BOOLEAN : fatSetFileAttributes(n, dir)
     \/ \E l \in looked : fatDeleteFile(l)
     \/ \E i \in Entries(slots) : FirstCluster(i) \/ Below(i)

Spec == Init /\ [][Next]_vars

-----------------------------------------------------------------------------
Written == Entries(slots)

(* The slots form a directory: behind the end there is nothing, and pieces *)
(* of a long name stand in order, complete, before the entry they are for, *)
(* with its checksum.  8.3 names are unique.  createLFNs, deleteLFNs and   *)
(* the growth of the directory each see a part of this only.               *)
LongNameOf(i) == IF i > 1 /\ Is(slots, i - 1, "lfn") THEN slots[i - 1].text ELSE NoText
SlotsSound ==
  /\ \A i, j \in DOMAIN slots : i < j /\ Is(slots, i, "end") => Is(slots, j, "end")
  /\ \A i \in Written :
       /\ \A k \in 1 .. (IF LongNameOf(i) = NoText THEN 0 ELSE PiecesOf(LongNameOf(i))) :
            /\ k < i
            /\ slots[i - k] = [tag |-> "lfn", ord |-> k, first |-> k = PiecesOf(LongNameOf(i)),
                               sum |-> Checksum[slots[i].name], text |-> LongNameOf(i)]
       /\ \A j \in Written \ {i} : slots[j].name # slots[i].name
  /\ \A i \in DOMAIN slots : Is(slots, i, "lfn") =>
       /\ i + slots[i].ord \in Written
       /\ slots[i].ord <= PiecesOf(slots[i].text) /\ LongNameOf(i + slots[i].ord) = slots[i].text

(* A name finds the entry that has it and no other, whatever has been      *)
(* written and deleted around it.                                          *)
Having(n) == {i \in Written : IF n.tag = "long" THEN LongNameOf(i) = n ELSE slots[i].name = n.text}
FindsRight ==
  \A n \in Names : Having(n) = IF Present(At(n)) THEN {At(n)} ELSE {}

(* The clusters in use are those of the directory and one for each entry   *)
(* that has begun, each used once, so that none is lost when an entry goes *)
(* and none freed that another entry or the directory has.                 *)
Starts == {i \in Written : slots[i].start # NoCluster}
ClustersOwned ==
  /\ used = chain \cup {slots[i].start : i \in Starts}
  /\ \A i \in Starts : slots[i].start \notin chain /\ \A j \in Starts \ {i} : slots[j].start # slots[i].start
  /\ \A i \in Written \ Starts : ~slots[i].dir
  /\ full \subseteq {slots[i].start : i \in {j \in Starts : slots[j].dir}}
  /\ ~Fixed => Len(slots) = PerSector * Cardinality(chain)

(* The directory is the set of entries it promises to be.                  *)
Promised == INSTANCE Directory WITH
  entries <- {[short |-> slots[i].name, long |-> LongNameOf(i), start |-> slots[i].start, dir |-> slots[i].dir] :
              i \in Written}
KeepsDirectory == Promised!Spec

(* fatPosition: "given a filename, retrieve the starting cluster, or set   *)
(* not found flag if not found."                                           *)
NotFoundIsSaid == \A n \in Names : At(n) = 0 => Absent(At(n))
=============================================================================

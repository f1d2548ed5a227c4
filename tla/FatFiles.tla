------------------------------ MODULE FatFiles -------------------------------
(***************************************************************************)
(* Files on a FAT disk as fat.c keeps them: chains of clusters in the      *)
(* allocation table, directory entries, and per handle a FATFILE with one  *)
(* position in the chain that reading, writing and seeking share.          *)
(*                                                                         *)
(* A call is one action: pdos.c makes every call under fatMutex.  What the *)
(* sectors hold is not kept from call to call.  Within a write they are    *)
(* symbolic (every byte is at first "what was there"), so that it can be   *)
(* said which bytes a call put where, and which it lost.                   *)
(*                                                                         *)
(* fat->currcluster, bbuf, and lastBytes, lastSectors and byteUpto of a    *)
(* handle are assigned by every call before it uses them, and so are local *)
(* here.  The table is one sector, which is what fatClusterAnalyse caches. *)
(* Directories have room, and the date of the last access is not recorded, *)
(* as fatDefaults leaves it.                                               *)
(***************************************************************************)
EXTENDS Integers, Sequences, FiniteSets

CONSTANTS
  Files, Handles, NoFile,
  SectorSize,  \* in bytes; 512 in the code
  EOC,         \* the marks for the end of a chain, as one: from 0xff0 or 0xfff8 on, by the FAT's type
  Disks,       \* layouts: sectors_per_cluster, and rootsize and datasize in sectors
  Slips,       \* those of the Patterns that programs use
  MaxSize,     \* a bound: no file grows, and no position goes, beyond it
  Requests     \* a bound: the numbers of bytes read or written by one call

(* Uses of a handle that fat.c does not get right.                         *)
Patterns == {
  "created",   \* reading a file just created: currentCluster is stale
  "at_end",    \* writing after a read that ended with the last, full sector
  "filled",    \* going on after filling up a sector inside the file
  "past_end",  \* writing behind the end where fatSeek left the wrong sector
  "before" }   \* from before the start to the end: compared as unsigned

FIRST_DATA_CLUSTER == 2
fatEndCluster(c) == c < FIRST_DATA_CLUSTER \/ c >= EOC

(* The number of a cluster is never a mark for the end of a chain.         *)
ASSUME DiskAssumption ==
  /\ SectorSize \in Nat \ {0} /\ EOC \in Nat /\ EOC >= FIRST_DATA_CLUSTER
  /\ Disks \subseteq [sectors_per_cluster : Nat \ {0}, rootsize : Nat, datasize : Nat]
  /\ \A d \in Disks : (d.rootsize + d.datasize) \div d.sectors_per_cluster <= EOC
  /\ Slips \subseteq Patterns /\ MaxSize \in Nat /\ Requests \subseteq Nat

VARIABLES
  disk,       \* the layout, from the boot sector
  next,       \* the table: 0 for a free cluster, EOC at the end of a chain
  cachedBuf,  \* the table as fatReadLogicalCached has kept it, or Empty
  dir,        \* the entries [start_cluster, file_size] of the files there are
  handle,     \* the FATFILE of each handle
  did,        \* of each handle, which of the Patterns the next call may complete
  monitor     \* why fat.c has entered PosMonitor, if it has

vars == <<disk, next, cachedBuf, dir, handle, did, monitor>>

sectors_per_cluster == disk.sectors_per_cluster
ClusterSize == sectors_per_cluster * SectorSize

(* The clusters that may be given out, and the sectors there are.          *)
num_clusters == (disk.rootsize + disk.datasize) \div sectors_per_cluster
Clusters == FIRST_DATA_CLUSTER .. num_clusters - 1
Sectors  == 0 .. disk.datasize - 1
Offsets  == 0 .. SectorSize - 1
Empty    == << >>

(* Sectors are counted from the first data cluster (filestart).            *)
SectorStart(c) == (c - FIRST_DATA_CLUSTER) * sectors_per_cluster
Current(h) == h.sectorStart + h.sectorUpto

(* For FAT-12 and FAT-16; 0 if there is none.                              *)
fatFindFreeCluster(t) ==
  LET free == {c \in Clusters : t[c] = 0}
  IN IF free = {} THEN 0 ELSE CHOOSE c \in free : \A d \in free : c <= d

Follow(t, c) == IF fatEndCluster(c) THEN c ELSE t[c]

(* The cluster k links on from c.                                          *)
Nth(t, c, k) == LET At[i \in 0 .. k] == IF i = 0 THEN c ELSE Follow(t, At[i - 1]) IN At[k]

fatClusterAnalyse(t, h, c) ==
  IF fatEndCluster(c) THEN h
  ELSE [h EXCEPT !.sectorStart = SectorStart(c), !.nextCluster = t[c]]

(* The table as fatClusterAnalyse reads it, and what is cached when it has *)
(* looked at cluster c.                                                    *)
Seen(t, cache) == IF cache = Empty THEN t ELSE cache
Caching(t, cache, c) == IF fatEndCluster(c) THEN cache ELSE Seen(t, cache)

(* Where the byte i of the file that starts at cluster c is.               *)
Nowhere == <<-1, 0>>
Where(t, c, i) ==
  LET d == Nth(t, c, i \div ClusterSize)
  IN IF fatEndCluster(d) THEN Nowhere
     ELSE <<SectorStart(d) + (i % ClusterSize) \div SectorSize, i % SectorSize>>

-----------------------------------------------------------------------------
(* Reading.  r has the handle, byteUpto, the places read from, the cache,  *)
(* and whether the loops are over; a step is one turn of one of the three  *)
(* loops of fatReadFile.                                                   *)
ReadStep(n, r) ==
  LET h     == r.h
      end   == fatEndCluster(h.nextCluster)
      part  == h.fileSize % ClusterSize
      avail == IF ~end \/ (h.fileSize # 0 /\ part = 0) THEN sectors_per_cluster
               ELSE IF h.fileSize = 0 THEN 0 ELSE part \div SectorSize + 1
      bytes == IF end /\ part # 0 /\ h.sectorUpto = part \div SectorSize
               THEN part % SectorSize ELSE SectorSize
      left  == n - Len(r.got)
      Got(k) == [r EXCEPT !.h.currpos = @ + k, !.byteUpto = @ + k,
                          !.got = @ \o [i \in 1 .. k |-> <<Current(h), r.byteUpto + i - 1>>]]
      table == Seen(next, r.cache)
  IN IF r.done \/ fatEndCluster(h.currentCluster) THEN [r EXCEPT !.done = TRUE]
     ELSE CASE h.sectorUpto # avail /\ r.byteUpto # bytes ->
                 IF bytes < r.byteUpto \/ bytes - r.byteUpto > left
                 THEN [Got(left) EXCEPT !.done = TRUE] ELSE Got(bytes - r.byteUpto)
            [] h.sectorUpto # avail /\ r.byteUpto = bytes ->
                 [r EXCEPT !.h.sectorUpto = @ + 1, !.byteUpto = 0]
            [] h.sectorUpto = avail /\ end ->
                 [r EXCEPT !.done = TRUE,
                           !.h.sectorUpto = IF part = 0 THEN @ ELSE (h.currpos % ClusterSize) \div SectorSize]
            [] h.sectorUpto = avail /\ ~end ->
                 [r EXCEPT !.cache = Caching(next, @, h.nextCluster),
                           !.h = [fatClusterAnalyse(table, [h EXCEPT !.currentCluster = h.nextCluster], h.nextCluster)
                                  EXCEPT !.sectorUpto = 0]]

(* The position is the end of a full last cluster.                        *)
AtFullEnd(h) == h.currpos # 0 /\ h.currpos = h.fileSize /\ h.currpos % ClusterSize = 0

(* Where reading starts.  When writing or seeking has left nextCluster     *)
(* invalid the position is worked out again; at the end of a full last     *)
(* cluster it stays in that cluster.                                       *)
Positioned(h) ==
  LET g    == fatClusterAnalyse(Seen(next, cachedBuf), h, h.currentCluster)
      su   == (h.currpos % ClusterSize) \div SectorSize
      bu   == h.currpos % SectorSize
      full == AtFullEnd(h)
  IN IF h.nextCluster # 0
     THEN [h |-> h, byteUpto |-> bu, got |-> <<>>, cache |-> cachedBuf, done |-> FALSE]
     ELSE [h |-> [g EXCEPT !.sectorUpto = IF full THEN sectors_per_cluster - 1 ELSE su],
           byteUpto |-> IF full THEN SectorSize ELSE bu,
           got |-> <<>>, cache |-> Caching(next, cachedBuf, h.currentCluster), done |-> FALSE]

(* More turns than the loops take for n bytes.                             *)
Turns(n) == 3 * (n + sectors_per_cluster + 2)

(* Positions before the start and behind the end are refused.              *)
Refuses(h) == h.currpos < 0 \/ h.currpos > h.fileSize

fatReadFile(h, n) ==
  LET After[i \in 0 .. Turns(n)] == IF i = 0 THEN Positioned(h) ELSE ReadStep(n, After[i - 1])
  IN IF Refuses(h) THEN [h |-> h, byteUpto |-> 0, got |-> <<>>, cache |-> cachedBuf, done |-> TRUE]
     ELSE After[Turns(n)]

-----------------------------------------------------------------------------
(* Writing.  w has the handle, the table and its cached copy, currcluster, *)
(* bbuf, what every sector holds, whether a sector off the disk was        *)
(* written, and monitor.                                                   *)
Old(s)  == [o \in Offsets |-> <<"old", s, o>>]
New(i)  == <<"new", i>>
Zero    == <<"zero">>
Unknown == [o \in Offsets |-> <<"unknown">>]

fatReadLogical(w) ==
  [w EXCEPT !.bbuf = IF Current(w.h) \in Sectors THEN w.holds[Current(w.h)] ELSE Unknown]

(* Every write of a sector drops the cache.  None comes after PosMonitor.  *)
Uncached_Never(w) == w
Uncached(w) == [w EXCEPT !.cache = Empty]
fatWriteLogical(w) ==
  CASE w.monitor # "no" -> w
    [] w.monitor = "no" /\ Current(w.h) \in Sectors -> [Uncached(w) EXCEPT !.holds[Current(w.h)] = w.bbuf]
    [] w.monitor = "no" /\ Current(w.h) \notin Sectors -> [Uncached(w) EXCEPT !.stray = TRUE]

(* memset and memcpy of k bytes at offset o of bbuf.                       *)
Zeroed(w, o, k) == [w EXCEPT !.bbuf = [x \in Offsets |-> IF x \in o .. o + k - 1 THEN Zero ELSE @[x]]]
Filled(w, o, k, from) ==
  [w EXCEPT !.bbuf = [x \in Offsets |-> IF x \in o .. o + k - 1 THEN New(from + x - o) ELSE @[x]]]

Enter_SameSector(w, c) ==
  [w EXCEPT !.currcluster = c, !.h.currentCluster = c, !.h.sectorStart = SectorStart(c)]
Enter(w, c) == [w EXCEPT !.currcluster = c, !.h.currentCluster = c,
                         !.h.sectorStart = SectorStart(c), !.h.sectorUpto = 0]

(* fatMarkCluster, of cluster c.                                           *)
fatMarkCluster_Not(w, c) == Uncached(w)
fatMarkCluster(w, c) == [Uncached(w) EXCEPT !.next[c] = EOC]

(* A new cluster at the end of the chain.  With the disk full, or at the   *)
(* end of a chain already, the code enters PosMonitor.                     *)
fatChain(w) ==
  LET c == fatFindFreeCluster(w.next)
  IN CASE c = 0 -> [w EXCEPT !.monitor = "disk_full"]
       [] c # 0 /\ fatEndCluster(w.currcluster) -> [w EXCEPT !.monitor = "internal_error"]
       [] c # 0 /\ ~fatEndCluster(w.currcluster) ->
            Enter(fatMarkCluster([w EXCEPT !.next[w.currcluster] = c], c), c)

(* The next sector, with the next cluster at the end of this one: the one  *)
(* the chain has inside the file, a new one at its end.                    *)
NextSector(w) == [w EXCEPT !.h.sectorUpto = @ + 1]
AtClusterEnd(w) == w.h.sectorUpto = sectors_per_cluster
Followed(w) ==
  Enter([w EXCEPT !.cache = Caching(w.next, @, w.currcluster)],
        Follow(Seen(w.next, w.cache), w.currcluster))
OrChain(w)  == IF AtClusterEnd(w) THEN fatChain(w) ELSE w
OrFollow(w) == IF AtClusterEnd(w) THEN Followed(w) ELSE w
Onwards_Chains(w) == OrChain(w)
Onwards(w)  == IF w.h.currpos < w.h.fileSize THEN OrFollow(w) ELSE OrChain(w)

(* A file without clusters gets its first; otherwise fat->currcluster,     *)
(* which all handles share, is restored from the handle.                   *)
Allocates(h) == h.startcluster \in {0, EOC}
FirstCluster(w) ==
  LET c == fatFindFreeCluster(w.next)
  IN IF Allocates(w.h) THEN Enter(fatMarkCluster([w EXCEPT !.h.startcluster = c], c), c)
     ELSE [w EXCEPT !.currcluster = w.h.currentCluster]

(* A gap between the end of the file and the position becomes zeros: in    *)
(* the last sector of the file, in whole sectors, in a last one.           *)
Grown(w, o, k) == [fatWriteLogical(Zeroed(w, o, k)) EXCEPT !.h.fileSize = @ + k]
GrownOn(w, o, k) == OrChain(NextSector(Grown(w, o, k)))

Expanded(w) ==
  LET used == w.h.fileSize % SectorSize
      rem  == SectorSize - used
      gap  == w.h.currpos - w.h.fileSize
      w1   == IF used # 0 THEN fatReadLogical(w) ELSE w
      whole == (gap - rem - 1) \div SectorSize
      After[i \in 0 .. whole] ==
        IF i = 0 THEN GrownOn(w1, used, rem) ELSE GrownOn(After[i - 1], 0, SectorSize)
      Last(v) == [fatWriteLogical(Zeroed(v, 0, SectorSize)) EXCEPT !.h.fileSize = w.h.currpos]
  IN IF gap <= 0 THEN w
     ELSE IF gap <= rem THEN Grown(w1, used, gap) ELSE Last(After[whole])

(* The caller's n bytes: what fits into the current sector, then whole     *)
(* sectors, then the rest.                                                 *)
Used(h) == IF h.currpos % SectorSize = 0 /\ h.currpos = h.fileSize /\ h.currpos # 0
           THEN SectorSize ELSE h.currpos % SectorSize
ReadBefore(w, used) ==
  IF w.h.currpos < w.h.fileSize \/ used \notin {0, SectorSize} THEN fatReadLogical(w) ELSE w
Advanced(w, k) == [w EXCEPT !.h.currpos = @ + k]

PutWithin(w, used, n) == Advanced(fatWriteLogical(Filled(w, used, n, 0)), n)
PutFirst(w, used, rem) ==
  Onwards(NextSector(Advanced(IF rem = 0 THEN w ELSE fatWriteLogical(Filled(w, used, rem, 0)), rem)))
PutSector(w, from) ==
  Onwards(NextSector(Advanced(fatWriteLogical(Filled(w, 0, SectorSize, from)), SectorSize)))
PutLast(w, tsz, done) ==
  Advanced(fatWriteLogical(Filled(IF w.h.currpos + tsz < w.h.fileSize THEN fatReadLogical(w) ELSE w,
                                  0, tsz, done)), tsz)
PutEnds(w, tsz) ==
  IF w.h.currpos < w.h.fileSize /\ tsz = SectorSize THEN OrFollow(NextSector(w)) ELSE w

Put(w, n) ==
  LET used == Used(w.h)
      rem  == SectorSize - used
      done == rem + ((n - rem - 1) \div SectorSize) * SectorSize
      tsz  == n - done
      whole == (done - rem) \div SectorSize
      After[i \in 0 .. whole] ==
        IF i = 0 THEN PutFirst(ReadBefore(w, used), used, rem)
        ELSE PutSector(After[i - 1], rem + (i - 1) * SectorSize)
  IN IF n <= rem THEN PutWithin(ReadBefore(w, used), used, n)
     ELSE PutEnds(PutLast(After[whole], tsz, done), tsz)

(* No cluster for a file that has none: an error, before anything is done. *)
NoRoom(h) == Allocates(h) /\ fatFindFreeCluster(next) = 0

Unwritten(h) ==
  [h |-> h, next |-> next, cache |-> cachedBuf, currcluster |-> 0, bbuf |-> Unknown,
   holds |-> [s \in Sectors |-> Old(s)], stray |-> FALSE, monitor |-> "no"]

Finished(w) ==
  IF w.monitor # "no" THEN w
  ELSE [Uncached(w) EXCEPT !.h.fileSize = IF w.h.currpos > @ THEN w.h.currpos ELSE @]

fatWriteFile(h, n) ==
  CASE h.currpos < 0 \/ n = 0 -> Unwritten(h)
    [] h.currpos >= 0 /\ n # 0 /\ NoRoom(h) -> Unwritten([h EXCEPT !.nextCluster = 0])
    [] h.currpos >= 0 /\ n # 0 /\ ~NoRoom(h) ->
         Finished(Put(Expanded(FirstCluster(Unwritten([h EXCEPT !.nextCluster = 0]))), n))

(* The entry after a write.  The first cluster is written at once, the     *)
(* size when all is done.                                                  *)
Entry(e, w) ==
  [start_cluster |-> IF w.h.startcluster = EOC THEN 0 ELSE w.h.startcluster,
   file_size |-> IF w.monitor = "no" THEN w.h.fileSize ELSE e.file_size]

-----------------------------------------------------------------------------
(* Seeking.  currpos and newpos are long and fileSize is unsigned long: a  *)
(* negative position compares as a very large one.                         *)
NotBelow(p, s) == p < 0 \/ p >= s
StaysAtEnd(h, newpos) == NotBelow(newpos, h.fileSize) /\ NotBelow(h.currpos, h.fileSize)

(* The cluster to count from and how many links to follow.                 *)
Hops(h, realpos, adjust) ==
  LET passed == h.currpos \div ClusterSize
      curr   == IF h.currpos % ClusterSize = 0 /\ h.currpos # 0 /\ h.sectorUpto # 0
                THEN passed - 1 ELSE passed
      req    == (realpos - adjust) \div ClusterSize
  IN IF h.currpos >= 0 /\ req >= curr /\ ~fatEndCluster(h.currentCluster)
     THEN <<h.currentCluster, req - curr>> ELSE <<h.startcluster, req>>

Adjust(h, realpos, newpos) == IF realpos # 0 /\ h.fileSize = newpos THEN 1 ELSE 0

fatSeek(h, newpos) ==
  LET there   == [h EXCEPT !.currpos = newpos, !.nextCluster = 0]
      realpos == IF h.fileSize < newpos THEN h.fileSize ELSE newpos
      adjust  == Adjust(h, realpos, newpos)
      hops    == Hops(h, realpos, adjust)
      c       == Nth(Seen(next, cachedBuf), hops[1], hops[2])
  IN IF StaysAtEnd(h, newpos) THEN [h |-> there, cache |-> cachedBuf]
     ELSE IF newpos <= 0
     THEN [h |-> [there EXCEPT !.currentCluster = h.startcluster,
                               !.sectorStart = SectorStart(h.startcluster), !.sectorUpto = 0],
           cache |-> cachedBuf]
     ELSE [h |-> [there EXCEPT !.currentCluster = c, !.sectorStart = SectorStart(c),
                               !.sectorUpto = ((realpos - adjust) % ClusterSize) \div SectorSize],
           cache |-> IF hops[2] = 0 THEN cachedBuf ELSE Caching(next, cachedBuf, hops[1])]

-----------------------------------------------------------------------------
(* What a program's calls add up to: a part of the environment.            *)
FullSectors(p) == p % SectorSize = 0

DidRead(d, h) ==
  IF d = "orderly" /\ h.currpos = h.fileSize /\ h.fileSize # 0 /\ FullSectors(h.fileSize)
  THEN "at_end" ELSE d

DidWrite(h, n) ==
  IF /\ h.currpos + n < h.fileSize /\ FullSectors(h.currpos + n)
     /\ n <= SectorSize - (h.currpos % SectorSize)
  THEN "filled" ELSE "orderly"

DidSeek(d, h, p) ==
  IF StaysAtEnd(h, p)
  THEN IF d # "orderly" THEN d
       ELSE IF h.currpos < 0 THEN "before"
       ELSE IF p > h.fileSize /\ h.fileSize # 0 /\ FullSectors(h.fileSize) THEN "past_end" ELSE d
  ELSE IF p > 0 /\ (d = "before" \/ (d = "filled" /\ sectors_per_cluster = 1)) THEN d
       ELSE IF p > h.fileSize THEN "past_end" ELSE "orderly"

Completes == {<<"created", "read">>, <<"at_end", "write">>, <<"filled", "read">>, <<"filled", "write">>,
              <<"past_end", "write">>, <<"before", "read">>, <<"before", "write">>}
May(x, call) == <<did[x], call>> \in Completes => did[x] \in Slips

IsOpen(x) == handle[x].file # NoFile
Opened(f) == \E x \in Handles : handle[x].file = f

-----------------------------------------------------------------------------
NewHandle ==
  [file |-> NoFile, startcluster |-> 0, fileSize |-> 0, currentCluster |-> 0, nextCluster |-> 0,
   sectorStart |-> 0, sectorUpto |-> 0, currpos |-> 0]

Init ==
  /\ disk \in Disks
  /\ next = [c \in Clusters |-> 0]
  /\ cachedBuf = Empty
  /\ dir = [f \in {} |-> 0]
  /\ handle = [x \in Handles |-> NewHandle]
  /\ did = [x \in Handles |-> "orderly"]
  /\ monitor = "no"

(* Every cluster of the chain from c becomes free.                         *)
fatNuke(t, c) ==
  LET chain == {Nth(t, c, k) : k \in 0 .. Cardinality(DOMAIN t)}
  IN [d \in DOMAIN t |-> IF d \in chain THEN 0 ELSE t[d]]

Start(f) == IF f \in DOMAIN dir THEN dir[f].start_cluster ELSE 0

(* A file that exists loses its clusters.  The rest of the handle stays as *)
(* the last file left it.                                                  *)
fatCreatFile(x, f) ==
  /\ monitor = "no" /\ ~IsOpen(x) /\ ~Opened(f)
  /\ next' = fatNuke(next, Start(f))
  /\ dir' = [g \in DOMAIN dir \cup {f} |->
               IF g = f THEN [start_cluster |-> 0, file_size |-> 0] ELSE dir[g]]
  /\ cachedBuf' = Empty
  /\ handle' = [handle EXCEPT ![x].file = f, ![x].startcluster = 0, ![x].fileSize = 0,
                              ![x].currpos = 0, ![x].nextCluster = 0]
  /\ did' = [did EXCEPT ![x] = "created"]
  /\ UNCHANGED <<disk, monitor>>

fatOpenFile(x, f) ==
  LET c == IF Start(f) = 0 THEN EOC ELSE Start(f)
      h == [handle[x] EXCEPT !.file = f, !.startcluster = c, !.fileSize = dir[f].file_size,
                             !.currpos = 0, !.currentCluster = c, !.sectorUpto = 0]
  IN
  /\ monitor = "no" /\ ~IsOpen(x) /\ ~Opened(f) /\ f \in DOMAIN dir
  /\ handle' = [handle EXCEPT ![x] = fatClusterAnalyse(Seen(next, cachedBuf), h, c)]
  /\ cachedBuf' = Caching(next, cachedBuf, c)
  /\ did' = [did EXCEPT ![x] = "orderly"]
  /\ UNCHANGED <<disk, next, dir, monitor>>

(* Nothing is written when a file is closed.                               *)
fileClose(x) ==
  /\ monitor = "no" /\ IsOpen(x)
  /\ handle' = [handle EXCEPT ![x].file = NoFile]
  /\ UNCHANGED <<disk, next, cachedBuf, dir, did, monitor>>

fatDeleteFile(f) ==
  /\ monitor = "no" /\ f \in DOMAIN dir /\ ~Opened(f)
  /\ next' = fatNuke(next, Start(f))
  /\ dir' = [g \in DOMAIN dir \ {f} |-> dir[g]]
  /\ cachedBuf' = Empty
  /\ UNCHANGED <<disk, handle, did, monitor>>

ReadCall(x, n) ==
  LET h == handle[x]
      r == fatReadFile(h, n)
  IN
  /\ monitor = "no" /\ IsOpen(x) /\ May(x, "read")
  /\ handle' = [handle EXCEPT ![x] = r.h]
  /\ cachedBuf' = r.cache
  /\ did' = [did EXCEPT ![x] = IF Refuses(h) THEN @ ELSE DidRead(@, r.h)]
  /\ UNCHANGED <<disk, next, dir, monitor>>

MayWrite(x, n) == IsOpen(x) /\ May(x, "write") /\ handle[x].currpos + n <= MaxSize

WriteCall(x, n) ==
  LET h == handle[x] IN
  /\ monitor = "no" /\ MayWrite(x, n)
  /\ did' = [did EXCEPT ![x] = IF h.currpos < 0 \/ n = 0 \/ NoRoom(h) THEN @ ELSE DidWrite(h, n)]
  /\ \E w \in {fatWriteFile(h, n)} :
       /\ handle' = [handle EXCEPT ![x] = w.h]
       /\ next' = w.next
       /\ cachedBuf' = w.cache
       /\ dir' = [dir EXCEPT ![h.file] = Entry(@, w)]
       /\ monitor' = w.monitor
  /\ UNCHANGED disk

SeekCall(x, newpos) ==
  LET s == fatSeek(handle[x], newpos)
  IN
  /\ monitor = "no" /\ IsOpen(x)
  /\ handle' = [handle EXCEPT ![x] = s.h]
  /\ cachedBuf' = s.cache
  /\ did' = [did EXCEPT ![x] = DidSeek(@, handle[x], newpos)]
  /\ UNCHANGED <<disk, next, dir, monitor>>

Next ==
  \/ \E x \in Handles, f \in Files : fatCreatFile(x, f) \/ fatOpenFile(x, f)
  \/ \E f \in Files : fatDeleteFile(f)
  \/ \E x \in Handles : fileClose(x)
  \/ \E x \in Handles, n \in Requests : ReadCall(x, n) \/ WriteCall(x, n)
  \/ \E x \in Handles, newpos \in -1 .. MaxSize : SeekCall(x, newpos)

Spec == Init /\ [][Next]_vars

-----------------------------------------------------------------------------
(* The clusters of a file, and how many its size calls for.                *)
Existing == DOMAIN dir
Chain(f) == {Nth(next, Start(f), k) : k \in 0 .. Cardinality(Clusters)} \ {0, EOC}
ClustersFor(size) == (size + ClusterSize - 1) \div ClusterSize

(* The table links clusters to clusters of the disk, entries name clusters *)
(* and sizes within bounds.                                                *)
TypeOK ==
  /\ next \in [Clusters -> Clusters \cup {0, EOC}]
  /\ Existing \subseteq Files
  /\ \A f \in Existing : dir[f] \in [start_cluster : Clusters \cup {0}, file_size : 0 .. MaxSize]
  /\ \A x \in Handles : handle[x].file \in Existing \cup {NoFile} \/ ~IsOpen(x)
  /\ monitor \in {"no", "disk_full", "internal_error"}

Chains ==
  /\ \A f \in Existing :
       /\ Chain(f) # {} => Nth(next, Start(f), Cardinality(Chain(f))) = EOC
       /\ Cardinality(Chain(f)) >= ClustersFor(dir[f].file_size)
       /\ monitor = "no" => Cardinality(Chain(f)) = ClustersFor(dir[f].file_size)
  /\ \A f, g \in Existing : f # g => Chain(f) \cap Chain(g) = {}
  /\ \A c \in Clusters : next[c] # 0 =>
       /\ \E f \in Existing : c \in Chain(f)
       /\ SectorStart(c) \in Sectors /\ SectorStart(c) + sectors_per_cluster - 1 \in Sectors

(* The entry of an open file agrees with the handle after every call,      *)
(* since fileClose writes nothing.                                         *)
EntriesAgree ==
  \A x \in Handles : IsOpen(x) /\ monitor = "no" =>
    /\ dir[handle[x].file].file_size = handle[x].fileSize
    /\ dir[handle[x].file].start_cluster = handle[x].startcluster \/ Allocates(handle[x])

(* Allocation: every chain ends, is as long as its file's size calls for   *)
(* (longer only when a write ran into a full disk), shares no cluster with *)
(* another, lies on the disk, and no cluster is used without belonging to  *)
(* a file (fatChain, fatMarkCluster, fatNuke); nothing is ever linked to   *)
(* the end of a chain (fat.c:2564); and entries tell the size and start of *)
(* their files.                                                            *)
ChainsSound ==
  TypeOK /\ Chains /\ EntriesAgree /\ monitor # "internal_error"

(* A table sector that fatClusterAnalyse reads from the cache is the one   *)
(* on the disk (fatReadLogicalCached, fatWriteLogical).                    *)
CacheFresh == cachedBuf \in {Empty, next}

(* Whatever was done before, reading n bytes gets the next n bytes of the  *)
(* file, from where they are, as far as there are any, and the position    *)
(* goes on by as many (fatReadFile).                                       *)
ReadsRight ==
  \A x \in Handles, n \in Requests :
    LET h == handle[x]
        k == IF n <= h.fileSize - h.currpos THEN n ELSE h.fileSize - h.currpos
        r == fatReadFile(h, n)
    IN IsOpen(x) /\ May(x, "read") /\ ~Refuses(h) /\ monitor = "no" =>
         /\ r.done /\ r.h.currpos = h.currpos + k
         /\ r.got = [i \in 1 .. k |-> Where(next, h.startcluster, h.currpos + i - 1)]

(* What a byte of f is after a write, and what it was before.              *)
ByteAfter(w, f, i) ==
  LET a == Where(w.next, IF f = w.h.file THEN w.h.startcluster ELSE Start(f), i)
  IN IF a[1] \in Sectors THEN w.holds[a[1]][a[2]] ELSE a
ByteBefore(f, i) == LET a == Where(next, Start(f), i) IN <<"old", a[1], a[2]>>

(* The file's size, and each of its bytes, after the write that gave w.    *)
PutThere(h, n, w) ==
  LET end == IF h.currpos + n > h.fileSize THEN h.currpos + n ELSE h.fileSize
      Wanted(i) == IF i \in h.currpos .. h.currpos + n - 1 THEN New(i - h.currpos)
                   ELSE IF i < h.fileSize THEN ByteBefore(h.file, i) ELSE Zero
  IN w.monitor = "no" =>
       /\ w.h.fileSize = end /\ w.h.currpos = h.currpos + n
       /\ \A i \in 0 .. end - 1 : ByteAfter(w, h.file, i) = Wanted(i)

(* A write of n bytes puts them at the position, keeps the rest of the     *)
(* file, fills a gap with zeros, and extends the file as far as it went    *)
(* (fatWriteFile).                                                         *)
WritesRight ==
  \A x \in Handles, n \in Requests \ {0} :
    monitor = "no" /\ MayWrite(x, n) /\ handle[x].currpos >= 0 /\ ~NoRoom(handle[x])
      => PutThere(handle[x], n, fatWriteFile(handle[x], n))

(* Every read and every write that a program could do next is right.       *)
CallsRight == ReadsRight /\ WritesRight

(* The other files, and what is no file, after it.                         *)
PutNowhereElse(h, w) ==
  /\ ~w.stray
  /\ \A f \in Existing \ {h.file} : \A i \in 0 .. dir[f].file_size - 1 :
       ByteAfter(w, f, i) = ByteBefore(f, i)

(* A write touches no other file and nothing outside the data area, not    *)
(* even when the disk fills up on the way.                                 *)
OthersKept ==
  \A x \in Handles, n \in Requests :
    monitor = "no" /\ MayWrite(x, n) => PutNowhereElse(handle[x], fatWriteFile(handle[x], n))
=============================================================================

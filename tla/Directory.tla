----------------------------- MODULE Directory ------------------------------
(***************************************************************************)
(* What fat.c promises of a directory, with nothing of slots, long name    *)
(* entries, checksums or sectors: a set of entries, each with an 8.3 name  *)
(* and perhaps a long one, in which a name finds one entry at most, a call *)
(* changes the entry it names and no other, and a call that is refused     *)
(* changes none.  A directory is removed only as one, and only when it is  *)
(* empty.                                                                  *)
(***************************************************************************)
EXTENDS Naturals

CONSTANTS
  Names,    \* what a caller can ask for: [tag, text], tag "long", "short" or "mixed"
  Stem,     \* of a long name's text, the stem of the 8.3 names made for it
  Clusters, NoCluster,
  NoText    \* the long name of an entry that has none

VARIABLES
  entries,  \* [short, long, start, dir]
  full,     \* the first clusters of the directories in it that are not empty
  call      \* the last call and its answer: [op, names, answer]

vars == <<entries, full, call>>

Finds(e, n) == IF n.tag = "long" THEN e.long = n ELSE e.short = n.text
Named(n) == {e \in entries : Finds(e, n)}

(* An entry with the name n, made beside others; n keeps its case only if  *)
(* long names are written for it.                                          *)
Bears(e, n, others) ==
  /\ \A f \in others : f.short # e.short
  /\ IF n.tag = "long"
     THEN e.long = n /\ e.short.stem = Stem[n.text] /\ e.short.tail > 0
     ELSE e.short = n.text /\ e.long = IF n.tag = "mixed" THEN n ELSE NoText

Answered(op, names, answer) == call' = [op |-> op, names |-> names, answer |-> answer]
Replace(e, f) == entries' = (entries \ {e}) \cup {f}

Init == entries = {} /\ full = {} /\ call = [op |-> "start", names |-> << >>, answer |-> TRUE]

Add(n, e) == Named(n) = {} /\ Bears(e, n, entries) /\ entries' = entries \cup {e}

Creates(op, n) ==
  /\ Answered(op, <<n>>, TRUE) /\ UNCHANGED full
  /\ \/ op \in {"create", "create new"} /\ \E e \in entries' : ~e.dir /\ e.start = NoCluster /\ Add(n, e)
     \/ op = "create directory" /\ \E e \in entries' : e.dir /\ e.start \in Clusters /\ Add(n, e)
     \/ op = "create" /\ \E e \in Named(n) : ~e.dir /\ Replace(e, [e EXCEPT !.start = NoCluster])

Deletes(n) ==
  /\ Answered("delete", <<n>>, TRUE) /\ UNCHANGED full
  /\ \E e \in Named(n) : ~e.dir /\ entries' = entries \ {e}

RemovesDir(n) ==
  /\ Answered("remove directory", <<n>>, TRUE) /\ UNCHANGED full
  /\ \E e \in Named(n) : e.dir /\ e.start \notin full /\ entries' = entries \ {e}

(* The case of an 8.3 name is not kept here.                               *)
Renames(n, m) ==
  /\ Answered("rename", <<n, m>>, TRUE) /\ UNCHANGED full
  /\ Named(m) = {}
  /\ \E e \in Named(n) : \E f \in entries' :
       /\ f.start = e.start /\ f.dir = e.dir
       /\ Bears(f, IF m.tag = "mixed" THEN [m EXCEPT !.tag = "short"] ELSE m, entries \ {e})
       /\ Replace(e, f)

SetsAttributes(n) == Answered("attributes", <<n>>, TRUE) /\ Named(n) # {} /\ UNCHANGED <<entries, full>>

(* A call may be refused for what the names find, or for want of room.     *)
Refusable(op, names) ==
  LET e(d) == \E f \in Named(names[1]) : f.dir = d
  IN CASE op = "create" -> Named(names[1]) = {} \/ e(TRUE)
       [] op \in {"create new", "create directory", "rename"} -> TRUE
       [] op = "delete" -> ~e(FALSE)
       [] op = "remove directory" -> ~e(TRUE) \/ \E f \in Named(names[1]) : f.start \in full
       [] op = "attributes" -> Named(names[1]) = {}
       [] OTHER -> FALSE
Refuses(op, names) == Answered(op, names, FALSE) /\ Refusable(op, names) /\ UNCHANGED <<entries, full>>

(* The first bytes are written to a file.                                  *)
Fills(n) ==
  /\ UNCHANGED <<full, call>>
  /\ \E e \in Named(n), c \in Clusters : ~e.dir /\ e.start = NoCluster /\ Replace(e, [e EXCEPT !.start = c])

(* Calls on the files of a directory in it.                                *)
Below == UNCHANGED <<call, entries>> /\ \E e \in entries : e.dir /\ full' \in {full \cup {e.start}, full \ {e.start}}

Next ==
  \/ Refuses(call'.op, call'.names)
  \/ Below
  \/ \E n \in Names : \/ \E op \in {"create", "create new", "create directory"} : Creates(op, n)
                      \/ Deletes(n) \/ RemovesDir(n) \/ SetsAttributes(n) \/ Fills(n)
                      \/ \E m \in Names : Renames(n, m)

Spec == Init /\ [][Next]_vars
=============================================================================

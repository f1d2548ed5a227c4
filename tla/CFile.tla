------------------------------- MODULE CFile --------------------------------
(***************************************************************************)
(* What the C library promises of a file that is open: a row of bytes and  *)
(* a place in it, with nothing of buffers.  In a text file a carriage      *)
(* return before a line feed is not seen, and one is written before each.  *)
(***************************************************************************)
EXTENDS Integers, Sequences, SequencesExt, FiniteSetsExt

CONSTANTS CR, LF   \* a carriage return and a line feed among the bytes

VARIABLES
  bytes,  \* the file
  at,     \* the place in it
  text,   \* whether it is a text file
  may,    \* what it is open for, "read" and "write"; nothing if it is closed
  call    \* the last call, [op, arg, answer], the latter two sequences

vars == <<bytes, at, text, may, call>>

Over(b, i, data) ==
  SubSeq(b, 1, i) \o data \o SubSeq(b, i + Len(data) + 1, Len(b))

(* The places a character can begin at.                                    *)
Starts(b) == {i \in 0 .. Len(b) : ~(text /\ i > 0 /\ b[i] = CR)}

(* What a program reads and writes for the bytes behind i, up to j.        *)
Chars(i, j) == LET s == SubSeq(bytes, i + 1, j) IN IF text THEN SelectSeq(s, LAMBDA c : c # CR) ELSE s
Bytes(data) ==
  IF text THEN FlattenSeq([k \in DOMAIN data |-> IF data[k] = LF THEN <<CR, LF>> ELSE <<data[k]>>]) ELSE data

(* The place n characters on, or the end.                                  *)
Forward(n) == Min({j \in Starts(bytes) : j >= at /\ Len(Chars(at, j)) = n} \cup {Len(bytes)})
EndOfLine == Min({j \in at + 1 .. Len(bytes) : bytes[j] = LF} \cup {Len(bytes)})

Reads(n) == at' = Forward(n) /\ call'.answer = Chars(at, at') /\ UNCHANGED bytes
Gets(n) == at' = Min({Forward(n - 1), EndOfLine}) /\ call'.answer = Chars(at, at') /\ UNCHANGED bytes
Writes(data) ==
  /\ bytes' = Over(bytes, at, Bytes(data)) /\ at' = at + Len(Bytes(data))
  /\ call'.answer = <<Len(data)>>
PutsBack == at' = at - 1 /\ UNCHANGED bytes
Seeks(i) == at' = i /\ UNCHANGED bytes
Tells == call'.answer = <<at>> /\ UNCHANGED <<bytes, at>>
Flushes == UNCHANGED <<bytes, at>>

(* "r", "w" and "a", or with plus "r+", "w+" and "a+".                     *)
Opens(base, plus) ==
  /\ may = {} /\ UNCHANGED text
  /\ "read" \in may' <=> base = "r" \/ plus
  /\ "write" \in may' <=> base # "r" \/ plus
  /\ bytes' = IF base = "w" THEN << >> ELSE bytes
  /\ at' = IF base = "a" THEN Len(bytes') ELSE 0
Closes == may # {} /\ may' = {} /\ at' = 0 /\ UNCHANGED <<bytes, text>>

Init == at = 0 /\ may = {}

Calls ==
  LET op == call'.op  arg == call'.arg
  IN \/ op = "fread" /\ Reads(arg[1])
     \/ op = "fgets" /\ Gets(arg[1])
     \/ op \in {"fwrite", "fputc"} /\ Writes(arg)
     \/ op = "ungetc" /\ PutsBack
     \/ op = "fseek" /\ Seeks(arg[1])
     \/ op = "ftell" /\ Tells
     \/ op = "fflush" /\ Flushes

Next ==
  \/ call'.op = "fopen" /\ Opens(call'.arg[1], call'.arg[2])
  \/ call'.op = "fclose" /\ Closes
  \/ may # {} /\ Calls /\ UNCHANGED <<may, text>>

Spec == Init /\ [][Next]_vars
=============================================================================

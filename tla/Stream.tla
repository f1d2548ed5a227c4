------------------------------- MODULE Stream -------------------------------
(***************************************************************************)
(* A stream of the C library, pdpclib/stdio.c, as it is built for          *)
(* PDOS/386: a FILE with its buffer over a file of the system, which has a *)
(* position of its own.  Calls are those of one program and are one action *)
(* each; the operators below take the FILE and the file, as one record,    *)
(* from before to after.                                                   *)
(*                                                                         *)
(* A byte is a number.  What stands in the buffer behind the bytes that    *)
(* were put or read there is Junk, like no byte of any file.  Byte 0 of    *)
(* the buffer is the one in front of it, which is never a CR.              *)
(*                                                                         *)
(* Streams are fully buffered.  The standard streams, devices and errors   *)
(* of the system are left out.                                             *)
(***************************************************************************)
EXTENDS Integers, Sequences, SequencesExt, FiniteSets, FiniteSetsExt

CONSTANTS
  BUFSIZ,
  Chunk,     \* how much fseek reads at a time, looking for the end
  CR, LF,    \* a carriage return and a line feed
  Disks,     \* what a program finds: [text, bytes]
  Requests,  \* how much it reads
  Rooms,     \* what it gives fgets to fill
  Writings,  \* what it writes: sequences of LF and Other
  Other,     \* a character that is not LF
  Offsets,   \* how far it moves from where it is
  MaxSize,   \* a bound for text and one for binary files: how long they get, and how far
             \* behind their end places are told
  Slips      \* those of the Patterns that happen

(* Where stdio.c does not keep to the promise.                             *)
Patterns == {
  "past end",   \* after a read came short, a call that is not a read or an fseek to a place that is given
  "end of w",   \* fseek to the end of a stream that is open for writing only
  "pushed back", \* the place is asked for while a character is pushed back
  "one char",   \* fgets at a last line of one character and no LF
  "line back",  \* fgets while a LF is pushed back
  "tight" }     \* fgets has room for the characters of a line but not for its CR

Junk == 0
NoChar == -1
ASSUME StreamAssumption ==
  /\ BUFSIZ \in Nat /\ BUFSIZ > 2 /\ Chunk \in 1 .. BUFSIZ /\ MaxSize \in [BOOLEAN -> Nat] /\ Slips \subseteq Patterns
  /\ {CR, LF, Other} \subseteq Nat \ {Junk} /\ CR # LF /\ \A i \in 1 .. Max({MaxSize[TRUE], MaxSize[FALSE]}) : Other + i \notin {CR, LF}
  /\ Disks \subseteq [text : BOOLEAN, bytes : Seq(Nat)] /\ Writings \subseteq Seq({LF, Other})
  /\ Offsets \subseteq Int /\ Requests \subseteq Nat \ {0} /\ Rooms \subseteq Nat \ {0, 1}

VARIABLES
  s,      \* the FILE, and the file: its bytes and its position pos
  turn,   \* what C lets follow: "any", "read" or "write"; "ended" and "ended line" after a read came short
  call    \* the last call, [op, arg, answer]

streamVars == <<s, turn, call>>
watched == <<s, turn>>

Slip(p) == p \in Slips
Empty == [i \in 0 .. BUFSIZ |-> Junk]

(***************************************************************************)
(* The file of the system.                                                 *)
(***************************************************************************)
Beyond(b, i, n) == SubSeq(b, i + 1, Min({i + n, Len(b)}))
Over(b, i, data) == SubSeq(b, 1, i) \o data \o SubSeq(b, i + Len(data) + 1, Len(b))

Got(x, n) == Beyond(x.bytes, x.pos, n)
iread(x, n) == [x EXCEPT !.pos = @ + Len(Got(x, n))]
iwrite(x, data) == [x EXCEPT !.bytes = Over(@, x.pos, data), !.pos = @ + Len(data), !.start = @ + Len(data)]

(***************************************************************************)
(* The buffer.                                                             *)
(***************************************************************************)
Buffered(data) == [i \in 0 .. BUFSIZ |-> IF i \in DOMAIN data THEN data[i] ELSE Junk]
Part(x, i, j) == [k \in 1 .. j - i |-> x.buf[i + k]]
Held(x) == Part(x, x.upto, x.endbuf)

Put(x, data) ==
  [x EXCEPT !.buf = [i \in 0 .. BUFSIZ |-> IF i - x.upto \in DOMAIN data THEN data[i - x.upto] ELSE @[i]],
            !.upto = @ + Len(data)]
WriteOut(x, n) == [iwrite(x, Part(x, 0, n)) EXCEPT !.upto = 0, !.buf = Empty]
FlushOut(x) == IF x.upto # 0 /\ x.mode = "write" THEN WriteOut(x, x.upto) ELSE x

(***************************************************************************)
(* Reading.  [x, out] is the stream after a call and what was read.        *)
(***************************************************************************)
ToRead(x) ==
  IF x.justseeked /\ x.mode = "write"
  THEN [x EXCEPT !.justseeked = FALSE, !.mode = "read", !.start = @ - x.endbuf, !.upto = x.endbuf]
  ELSE [x EXCEPT !.justseeked = FALSE]

(* The character pushed back goes into the buffer, before what is held.    *)
TakeBack(x) ==
  IF x.ungetCh = NoChar THEN x
  ELSE [x EXCEPT !.upto = @ - 1, !.buf[x.upto] = x.ungetCh, !.ungetCh = NoChar]

freadSlowB(x, n) ==
  LET left == n - Len(Held(x))
      y == [x EXCEPT !.start = @ + x.endbuf]
      big == Got(y, left)
      small == Got(y, BUFSIZ)
      used == Min({left, Len(small)})
  IN IF x.eofInd THEN [x |-> y, out |-> Held(x)]
     ELSE IF left >= BUFSIZ
     THEN [x |-> [iread(y, left) EXCEPT
                    !.eofInd = Len(big) < left, !.quickBin = TRUE, !.buf = Empty,
                    !.start = @ + Max({0, Len(big) - BUFSIZ}),
                    !.endbuf = Min({Len(big), BUFSIZ}), !.upto = Min({Len(big), BUFSIZ})],
           out |-> Held(x) \o big]
     ELSE [x |-> [iread(y, BUFSIZ) EXCEPT
                    !.eofInd = Len(small) < left, !.buf = Buffered(small),
                    !.endbuf = Len(small), !.upto = used],
           out |-> Held(x) \o SubSeq(small, 1, used)]

(* The first place from i on where a line feed stands: the one behind the  *)
(* buffer at the latest, which stays when fgets leaves the buffer empty.   *)
Newline(x, i) == Min({j \in i .. x.endbuf - 1 : x.buf[j + 1] = LF} \cup {Max({i, x.endbuf})})

(* One turn of the loop of freadSlowT, in a buffer that holds something.   *)
Scan(x, n, out) ==
  LET j == Newline(x, x.upto)
      run == out \o Part(x, x.upto, j)
      y == [x EXCEPT !.upto = j]
      cr == x.buf[j] = CR
  IN IF n - Len(out) < j - x.upto
     THEN [x |-> [x EXCEPT !.upto = @ + n - Len(out)], out |-> out \o Part(x, x.upto, x.upto + n - Len(out))]
     ELSE IF j = x.endbuf THEN [x |-> y, out |-> IF cr THEN Front(run) ELSE run]
     ELSE IF cr THEN [x |-> [y EXCEPT !.upto = j + 1], out |-> Front(run) \o <<LF>>]
     ELSE IF Len(run) = n THEN [x |-> y, out |-> run]
     ELSE [x |-> [y EXCEPT !.upto = j + 1], out |-> run \o <<LF>>]

(* The loop ends when as much is read as was asked for, or at the end of   *)
(* the file.  Every turn before gets a byte on.                            *)
Turned(r, n) ==
  LET x == r.x
      in == Got(x, BUFSIZ)
      full == IF x.upto # x.endbuf THEN x
              ELSE [iread(x, BUFSIZ) EXCEPT !.start = @ + x.upto, !.endbuf = Len(in), !.upto = 0, !.buf = Buffered(in)]
  IN IF Len(r.out) = n THEN r
     ELSE IF x.upto = x.endbuf /\ in = << >> THEN [r EXCEPT !.x = [x EXCEPT !.eofInd = TRUE]]
     ELSE Scan(full, n, r.out)

freadSlowT(x, n) ==
  LET round[k \in 0 .. Len(x.bytes) + 1] ==
        IF k = 0 THEN [x |-> x, out |-> << >>] ELSE Turned(round[k - 1], n)
  IN round[Len(x.bytes) + 1]

fread(x, n) ==
  LET y == TakeBack([x EXCEPT !.quickBin = @ /\ n >= BUFSIZ])
      z == ToRead(y)
      in == Got(y, n)
  IN IF y.quickBin
     THEN [x |-> [iread(y, n) EXCEPT !.eofInd = @ \/ Len(in) < n, !.start = @ + Len(in)], out |-> in]
     ELSE IF z.text THEN freadSlowT(z, n)
     ELSE IF n <= Len(Held(z)) THEN [x |-> [z EXCEPT !.upto = @ + n], out |-> Part(z, z.upto, z.upto + n)]
     ELSE freadSlowB(z, n)

(***************************************************************************)
(* Lines.  fgets stops at a line feed, at the end of the buffer, or where  *)
(* the caller's room ends, last; both of the latter are marked by a line   *)
(* feed put there for the while.                                           *)
(***************************************************************************)
Stop(x, last) == IF last < x.endbuf THEN Min({Newline(x, x.upto), last}) ELSE Newline(x, x.upto)
WholeLine(x, last) == Stop(x, last) < Min({last, x.endbuf})

WithoutCR(line) ==
  IF Len(line) >= 2 /\ line[Len(line) - 1] = CR THEN SubSeq(line, 1, Len(line) - 2) \o <<LF>> ELSE line

(* The line is cut where the room ends.                                    *)
Cut(x, last, line) ==
  IF x.buf[last] = CR /\ x.buf[last + 1] = LF
  THEN [x |-> [x EXCEPT !.upto = last + 1, !.quickText = TRUE], out |-> Front(line) \o <<LF>>]
  ELSE [x |-> [x EXCEPT !.upto = last, !.quickText = TRUE], out |-> line]

(* A line so far is [x, processed, got]: the stream, how much of the room  *)
(* is used up, and what was got.  The buffer is filled anew as long as it  *)
(* ends before the line and the room do, and the file does not.            *)
RoomEnd(q, n) == q.x.upto + n - q.processed - 1
GotOn(q, n) == q.got \o Part(q.x, q.x.upto, Stop(q.x, RoomEnd(q, n)))
Refilled(x) ==
  LET in == Got(x, BUFSIZ)
  IN [iread(x, BUFSIZ) EXCEPT !.start = @ + x.endbuf, !.endbuf = Len(in), !.buf = Buffered(in)]
Continued(q, n) ==
  LET x == q.x
      j == Stop(x, RoomEnd(q, n))
      dropped == IF j > x.upto /\ x.buf[j] = CR THEN 1 ELSE 0
  IN IF WholeLine(x, RoomEnd(q, n)) \/ RoomEnd(q, n) < x.endbuf \/ Got(x, BUFSIZ) = << >> THEN q
     ELSE [x |-> [Refilled(x) EXCEPT !.upto = 0],
           processed |-> q.processed + j - x.upto - dropped, got |-> GotOn(q, n)]

EndLine(q, n) ==
  LET x == q.x
      line == GotOn(q, n)
  IN IF WholeLine(x, RoomEnd(q, n))
     THEN [x |-> [x EXCEPT !.upto = Stop(x, RoomEnd(q, n)) + 1, !.quickText = TRUE], out |-> WithoutCR(line \o <<LF>>)]
     ELSE IF RoomEnd(q, n) < x.endbuf THEN Cut(x, RoomEnd(q, n), line)
     ELSE IF Len(line) <= 1 THEN [x |-> [Refilled(x) EXCEPT !.eofInd = TRUE], out |-> << >>]
     ELSE [x |-> Refilled(x), out |-> line]

Line(q, n) ==
  LET round[k \in 0 .. Len(q.x.bytes)] == IF k = 0 THEN q ELSE Continued(round[k - 1], n)
  IN EndLine(round[Len(q.x.bytes)], n)

fgets(x, n) ==
  LET last == x.upto + n - 1
      j == Stop(x, last)
      quick == Part(x, x.upto, j)
      back == IF x.ungetCh = NoChar THEN << >> ELSE <<x.ungetCh>>
      y == [x EXCEPT !.upto = IF x.quickText THEN j ELSE @, !.ungetCh = NoChar]
      got == (IF x.quickText THEN quick ELSE << >>) \o back
  IN IF x.quickText /\ WholeLine(x, last)
     THEN [x |-> [x EXCEPT !.upto = j + 1],
           out |-> IF x.buf[j] = CR THEN Front(quick) \o <<LF>> ELSE quick \o <<LF>>]
     ELSE Line([x |-> y, processed |-> Len(got), got |-> got], n)

(***************************************************************************)
(* Writing.                                                                *)
(***************************************************************************)
ToWrite_Stays(x) == [x EXCEPT !.justseeked = FALSE, !.mode = "write", !.upto = IF x.mode = "read" THEN 0 ELSE @]
ToWrite(x) ==
  IF x.justseeked /\ x.mode = "read"
  THEN [x EXCEPT !.justseeked = FALSE, !.mode = "write", !.start = @ + x.endbuf, !.upto = 0]
  ELSE [x EXCEPT !.justseeked = FALSE]

PutCh(x, c) ==
  LET y == Put(IF x.upto = x.endbuf THEN WriteOut(x, BUFSIZ) ELSE x, <<c>>)
  IN IF y.upto = y.endbuf THEN WriteOut(y, BUFSIZ) ELSE y
PutNewline(x) == Put(IF x.endbuf - x.upto < 3 THEN WriteOut(x, x.upto) ELSE x, <<CR, LF>>)
PutNext(x, c) == IF c = LF THEN PutNewline(x) ELSE PutCh(x, c)
fwriteSlowT(x, data) ==
  LET round[k \in 0 .. Len(data)] == IF k = 0 THEN x ELSE PutNext(round[k - 1], data[k])
  IN round[Len(data)]

fwriteSlowB(x, data) ==
  LET spare == x.endbuf - x.upto
      y == WriteOut(Put(x, SubSeq(data, 1, spare)), BUFSIZ)
      left == SubSeq(data, spare + 1, Len(data))
  IN IF Len(data) < spare THEN Put(x, data)
     ELSE IF Len(left) > BUFSIZ THEN iwrite([y EXCEPT !.quickBin = TRUE], left)
     ELSE Put(y, left)

fwrite(x, data) ==
  LET y == [x EXCEPT !.quickBin = @ /\ Len(data) >= BUFSIZ]
  IN IF y.quickBin THEN iwrite(y, data)
     ELSE IF y.text THEN fwriteSlowT(ToWrite(y), data) ELSE fwriteSlowB(ToWrite(y), data)

fputc(x, c) ==
  LET y == [x EXCEPT !.quickBin = FALSE]
  IN IF y.upto >= y.endbuf - 2 THEN fwrite(y, <<c>>)
     ELSE Put(y, IF y.text /\ c = LF THEN <<CR, LF>> ELSE <<c>>)

(***************************************************************************)
(* The place.                                                              *)
(***************************************************************************)
ftell(x) == x.start + x.upto

(* A place in the buffer is gone to by moving in it, if what is there is   *)
(* known to be the file's.                                                 *)
InBuffer_Quick(x, new, old) == new \in x.start .. x.start + x.endbuf /\ ~x.update /\ x.mode = "read"
InBuffer(x, new, old) ==
  /\ new \in x.start .. x.start + x.endbuf
  /\ ~x.update /\ ~x.quickBin /\ x.mode = "read"
  /\ x.upto # x.endbuf \/ old = new

SystemSeek(x, new) ==
  [x EXCEPT !.pos = new, !.endbuf = BUFSIZ, !.buf = Empty,
            !.upto = IF x.mode = "read" THEN BUFSIZ ELSE 0,
            !.start = IF x.mode = "read" THEN new - BUFSIZ ELSE new]

SeekTo(x, new) ==
  LET y == FlushOut(x)
      z == IF InBuffer(y, new, ftell(x)) THEN [y EXCEPT !.upto = new - y.start] ELSE SystemSeek(y, new)
  IN [z EXCEPT !.justseeked = TRUE, !.quickBin = FALSE, !.quickText = FALSE, !.ungetCh = NoChar, !.eofInd = FALSE]

(* The end is found by reading until there is less than was asked for.     *)
ReadNext(r) == IF Len(r.out) = Chunk THEN fread(r.x, Chunk) ELSE r
ReadOn(x) ==
  LET round[k \in 0 .. Len(x.bytes)] == IF k = 0 THEN fread(x, Chunk) ELSE ReadNext(round[k - 1])
  IN round[Len(x.bytes)].x
SeekEnd(x) ==
  LET y == ReadOn(IF x.mode = "write" THEN SeekTo(x, ftell(x)) ELSE x)
  IN SeekTo(y, ftell(y))

(***************************************************************************)
(* The calls.                                                              *)
(***************************************************************************)
isopen == s.may # {}
CanRead == "read" \in s.may
CanWrite == "write" \in s.may

Called(op, arg, answer) == call' = [op |-> op, arg |-> arg, answer |-> answer]

(* The file, with what waits in the buffer.                                *)
Content == IF isopen /\ s.mode = "write" THEN Over(s.bytes, s.pos, Part(s, 0, s.upto)) ELSE s.bytes

(* A read came short: the places told from then on are wrong.              *)
Ended == turn \in {"ended", "ended line"}
At == IF Ended THEN Len(s.bytes) ELSE ftell(s) - IF s.ungetCh = NoChar THEN 0 ELSE 1

Fread(n) ==
  LET r == fread(s, n)
  IN /\ CanRead
     /\ Ended => ftell(s) <= MaxSize[s.text]
     /\ turn \in {"any", "read", "ended"} \/ (turn = "ended line" /\ Slip("past end"))
     /\ s' = r.x /\ Called("fread", <<n>>, r.out)
     /\ turn' = IF Len(r.out) < n THEN "ended" ELSE "read"

Rest == Beyond(s.bytes, At, Len(s.bytes))
Tight(n) == LF \in Range(Rest) /\ LET i == Min({k \in DOMAIN Rest : Rest[k] = LF}) IN i = n /\ i > 1 /\ Rest[i - 1] = CR

Fgets(n) ==
  LET r == fgets(s, n)
  IN /\ CanRead /\ s.text /\ ~s.update
     /\ turn # "write" /\ (Ended => ftell(s) <= MaxSize[s.text])
     /\ Len(Rest) = 1 /\ Rest # <<LF>> => Slip("one char")
     /\ Tight(n) => Slip("tight")
     /\ s.ungetCh = LF => Slip("line back")
     /\ s' = r.x /\ Called("fgets", <<n>>, r.out)
     /\ turn' = IF r.x.endbuf = 0 THEN "ended line" ELSE "read"

(* The character read last is pushed back.                                 *)
Ungetc ==
  /\ CanRead /\ turn = "read" /\ s.ungetCh = NoChar
  /\ s' = [s EXCEPT !.ungetCh = s.bytes[At], !.quickBin = FALSE, !.quickText = FALSE]
  /\ Called("ungetc", << >>, << >>) /\ UNCHANGED turn

(* What is new is told apart by where it is written.                       *)
Fresh(data) == [k \in DOMAIN data |-> IF data[k] = LF THEN LF ELSE Other + At + k]
CanPut(data) ==
  /\ CanWrite /\ At + Len(data) + (IF s.text THEN Cardinality({k \in DOMAIN data : data[k] = LF}) ELSE 0) <= MaxSize[s.text]
  /\ turn \in {"any", "write"} \/ (Ended /\ Slip("past end"))

Fwrite(data) ==
  /\ CanPut(data)
  /\ s' = fwrite(s, Fresh(data)) /\ Called("fwrite", Fresh(data), <<Len(data)>>) /\ turn' = "write"

Fputc(c) ==
  LET d == Fresh(<<c>>)
  IN /\ CanPut(<<c>>)
     /\ s' = fputc(s, d[1]) /\ Called("fputc", d, <<1>>) /\ turn' = "write"

(* A place is told and gone to where a character begins.                   *)
Places == {i \in 0 .. Len(Content) : ~(s.text /\ i > 0 /\ Content[i] = CR)}
Sought(x, i) == s' = x /\ Called("fseek", <<i>>, << >>) /\ turn' = "any"

FseekSet(i) == isopen /\ Sought(SeekTo(s, i), i)
FseekCur(offset) ==
  /\ isopen /\ At + offset \in Places
  /\ Ended => Slip("past end")
  /\ s.ungetCh = NoChar \/ Slip("pushed back")
  /\ Sought(SeekTo(s, ftell(s) + offset), At + offset)
FseekEnd ==
  /\ isopen
  /\ Ended => Slip("past end")
  /\ CanRead \/ s.update \/ Slip("end of w")
  /\ Sought(SeekEnd(s), Len(Content))

Ftell ==
  /\ isopen
  /\ Ended => Slip("past end")
  /\ s.ungetCh = NoChar \/ Slip("pushed back")
  /\ Called("ftell", << >>, <<ftell(s)>>) /\ UNCHANGED <<s, turn>>

Fflush ==
  /\ CanWrite /\ turn \in {"any", "write"}
  /\ s' = FlushOut(s) /\ Called("fflush", << >>, << >>) /\ UNCHANGED turn

NoFile(bytes, text) ==
  [bytes |-> bytes, pos |-> 0, may |-> {}, text |-> text, update |-> FALSE, mode |-> "read",
   quickBin |-> FALSE, quickText |-> FALSE, justseeked |-> FALSE, eofInd |-> FALSE, ungetCh |-> NoChar,
   buf |-> Empty, start |-> 0, upto |-> 0, endbuf |-> 0]

(* The stream after fopen3, which seeks to the end to append.              *)
Opened(base, plus) ==
  LET update == plus \/ base = "a"
      w == base = "w"
      x == [NoFile(IF w THEN << >> ELSE s.bytes, s.text) EXCEPT
              !.may = {x \in {"read", "write"} : plus \/ (x = "read" <=> base = "r")}, !.update = update, !.justseeked = update, !.quickBin = ~s.text /\ ~update,
              !.mode = IF w THEN "write" ELSE "read", !.endbuf = BUFSIZ,
              !.start = IF w THEN 0 ELSE -BUFSIZ, !.upto = IF w THEN 0 ELSE BUFSIZ]
  IN IF base = "a" THEN SeekEnd(x) ELSE x

Fopen(base, plus) ==
  ~isopen /\ s' = Opened(base, plus) /\ Called("fopen", <<base, plus>>, << >>) /\ turn' = "any"

Fclose ==
  /\ isopen
  /\ s' = NoFile(FlushOut(s).bytes, s.text) /\ Called("fclose", << >>, << >>) /\ turn' = "any"

StreamInit ==
  /\ \E d \in Disks : s = NoFile(d.bytes, d.text)
  /\ turn = "any" /\ call = [op |-> "start", arg |-> << >>, answer |-> << >>]

StreamNext ==
  \/ \E base \in {"r", "w", "a"}, plus \in BOOLEAN : Fopen(base, plus)
  \/ \E n \in Requests : Fread(n)
  \/ \E n \in Rooms : Fgets(n)
  \/ Ungetc
  \/ \E data \in Writings : Fwrite(data)
  \/ \E c \in {LF, Other} : Fputc(c)
  \/ \E i \in Places : FseekSet(i)
  \/ \E offset \in Offsets : FseekCur(offset)
  \/ FseekEnd \/ Ftell \/ Fflush \/ Fclose

StreamSpec == StreamInit /\ [][StreamNext]_streamVars

-----------------------------------------------------------------------------
(* "bufStartR represents the position in the file that the first character *)
(* in the buffer is at": whatever the calls before, what is held is what   *)
(* the file has there, and the system's position is the end of the buffer  *)
(* or, in writing, its start.                                              *)
BufferInStep ==
  isopen /\ ~Ended =>
    IF s.mode = "read"
    THEN /\ s.pos = s.start + s.endbuf
         /\ \A i \in s.upto + 1 .. s.endbuf : s.buf[i] = s.bytes[s.start + i]
    ELSE /\ s.pos = s.start /\ s.endbuf = BUFSIZ
         /\ \A i \in 1 .. s.upto : s.buf[i] # Junk

(* The stream and what waits in its buffer are the file C promises: every  *)
(* read, line and place is the right one, and fclose leaves all on disk.   *)
Promised == INSTANCE CFile WITH
  bytes <- Content,
  at <- IF isopen THEN At ELSE 0,
  text <- s.text,
  may <- s.may
KeepsFile == Promised!Spec
=============================================================================

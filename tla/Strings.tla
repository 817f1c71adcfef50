------------------------------- MODULE Strings ------------------------------
(***************************************************************************)
(* Strings as string.c and heap.c keep them: UTF-8 in a block of memory,   *)
(* with the number of its bytes (size) and of its characters (length) at   *)
(* its side.  Procedures count characters, move the bytes behind those     *)
(* they replace by others of another width, and grow the block when it is  *)
(* too small.                                                              *)
(*                                                                         *)
(* A character is its width, and a byte is <<c, i>>, the ith byte of the   *)
(* character c.  The build is that with ICU and with assertions, which     *)
(* configure makes: to decode what is no character ends the program.       *)
(***************************************************************************)
EXTENDS Integers, Sequences, SequencesExt

CONSTANTS
  Names,      \* variables that hold strings
  Width,      \* character -> the number of its bytes, 1 to 4
  Nul,        \* the character of the byte 0
  BufLen,     \* STR_BUF_LEN, with which read_string begins
  Programs    \* what the programs do, and their bounds

Char == DOMAIN Width
Narrow == {c \in Char : Width[c] = 1}

ASSUME StringsAssumption ==
  /\ Nul \in Narrow /\ \A c \in Char : Width[c] \in 1..4
  /\ BufLen \in Nat
  /\ \A p \in Programs :
       p.names \subseteq Names /\ p.chars \subseteq Char /\ p.max \in Nat /\ p.fresh \in Char

VARIABLES
  program,   \* the program that runs
  strs,      \* name -> [data, size, length]; data has capacity + 1 bytes
  call       \* history: the last call and its outcome

vars == <<program, strs, call>>

-----------------------------------------------------------------------------
(* Bytes and blocks.  Indices are those of C and begin with 0.             *)

Bytes(c) == [i \in 1..Width[c] |-> <<c, i>>]
Encode(cs) == FlattenSeq([i \in DOMAIN cs |-> Bytes(cs[i])])
End0 == <<Nul, 1>>
Junk == <<program.fresh, 1>>      \* memory that was not written yet

Capacity(s) == Len(s.data) - 1
ByteAt(s, i) == IF i < Len(s.data) THEN s.data[i + 1] ELSE Junk

(* navi_make_string, and the bytes the caller then writes *)
MakeString(bytes, length) == [data |-> Append(bytes, End0), size |-> Len(bytes), length |-> length]

(* Fault, which no run uses: the free space is counted in characters.      *)
GrowByLength(s, need) ==
  LET free == Capacity(s) - s.length
      cap == Capacity(s) + need - free
  IN  IF free > need THEN s
      ELSE [s EXCEPT !.data = [i \in 1..cap + 1 |-> IF i = cap + 1 THEN End0 ELSE ByteAt(s, i - 1)]]

(* navi_string_grow_storage *)
Grow(s, need) ==
  LET free == Capacity(s) - s.size
      cap == Capacity(s) + need - free
  IN  IF free > need THEN s
      ELSE [s EXCEPT !.data = [i \in 1..cap + 1 |-> IF i = cap + 1 THEN End0 ELSE ByteAt(s, i - 1)]]

Moved(s, first, last, diff) ==
  [s EXCEPT !.data = [i \in DOMAIN s.data |->
                        IF i - 1 \in first..last THEN ByteAt(s, i - 1 - diff) ELSE s.data[i]]]

(* Fault, which no run uses: the loop ends one byte too early.             *)
ShiftLate(s, pos, diff) ==
  IF diff > 0 THEN LET g == Grow(s, diff) IN Moved(g, pos + 2 + diff, g.size - 1 + diff, diff)
  ELSE IF diff < 0 THEN Moved(s, pos + 1, s.size - 2, diff) ELSE s

(* string_shift *)
Shift(s, pos, diff) ==
  IF diff > 0 THEN LET g == Grow(s, diff) IN Moved(g, pos + 1 + diff, g.size - 1 + diff, diff)
  ELSE IF diff < 0 THEN Moved(s, pos + 1, s.size - 2, diff) ELSE s

(* Bytes are written at i, and the string ends where the size says.        *)
Write(s, i, bytes) ==
  [s EXCEPT !.data = [k \in DOMAIN s.data |->
                        IF k > i /\ k <= i + Len(bytes) THEN bytes[k - i] ELSE s.data[k]]]
Terminate(s, size) == [s EXCEPT !.size = size, !.data[size + 1] = End0]

(* The end of navi_string_set, string-fill! and copy_to: old bytes at i    *)
(* give way to new ones.                                                   *)
Splice(s, i, old, bytes) ==
  LET diff == Len(bytes) - old
  IN  Terminate(Write(Shift(s, i, diff), i, bytes), s.size + diff)

(* u8_fwd_n goes by what the first byte of a character says.  Forward is   *)
(* the index n characters on from i.                                       *)
Step(s, i) == i + (IF ByteAt(s, i)[2] = 1 THEN Width[ByteAt(s, i)[1]] ELSE 1)
Forward(s, i, n) == LET At[k \in 0..n] == IF k = 0 THEN i ELSE Step(s, At[k - 1]) IN At[n]

(* u8_next and its assertion, n times from i on *)
Decodes(s, i, n) ==
  \A k \in 0..n - 1 :
    LET j == Forward(s, i, k) IN \E c \in Char : j + Width[c] <= s.size /\ SubSeq(s.data, j + 1, j + Width[c]) = Bytes(c)

-----------------------------------------------------------------------------
(* Outcomes: a string, an error that is raised, or a failed assertion.     *)
Ok(s) == [is |-> "ok", str |-> s]
Refused == [is |-> "refused", str |-> MakeString(<<>>, 0)]
Died == [is |-> "died", str |-> MakeString(<<>>, 0)]

(* navi_check_copy_to *)
BadRange(to, at, from, start, end) ==
  at < 0 \/ at >= to \/ start < 0 \/ start >= from \/ end < start \/ end > from \/ to - at < end - start

(* copy_to, of two strings that are not the same *)
CopyTo(to, at, from, start, end) ==
  LET n == end - start
      i == Forward(to, 0, at)
      j == Forward(from, 0, start)
      bytes == SubSeq(from.data, j + 1, Forward(from, j, n))
  IN  IF ~Decodes(to, i, n) \/ ~Decodes(from, j, n) THEN Died
      ELSE Ok(Splice(to, i, Forward(to, i, n) - i, bytes))

NoCall == [op |-> "none", n |-> CHOOSE n \in Names : TRUE, from |-> <<>>, at |-> 0, start |-> 0, end |-> 0,
           cs |-> <<>>, result |-> "ok"]

Init ==
  /\ program \in Programs
  /\ strs = [n \in Names |-> MakeString(<<>>, 0)]
  /\ call = NoCall

(* A call that is made of the strings n and from, and its outcome *)
Call(op, n, from) == [NoCall EXCEPT !.op = op, !.n = n, !.from = from]
Return(c, r) ==
  /\ c.op \in program.ops /\ call.result # "died"
  /\ ToSet(c.cs) \subseteq program.chars \cup {Nul}
  /\ r.is = "ok" => r.str.length <= program.max
  /\ call' = [c EXCEPT !.result = r.is]
  /\ strs' = IF r.is = "ok" THEN [strs EXCEPT ![c.n] = r.str] ELSE strs
  /\ UNCHANGED program

-----------------------------------------------------------------------------
(* Procedures that make a string                                           *)

ListToString(n, cs) == Return([Call("list", n, <<>>) EXCEPT !.cs = cs], Ok(MakeString(Encode(cs), Len(cs))))

MakeStringProc(n, k, c) ==
  Return([Call("make", n, <<>>) EXCEPT !.at = k, !.cs = <<c>>],
         IF k < 0 THEN Refused ELSE Ok(MakeString(Encode([i \in 1..k |-> c]), k)))

StringAppend(n, a, b) ==
  Return(Call("append", n, <<a, b>>),
         Ok(MakeString(SubSeq(strs[a].data, 1, strs[a].size) \o SubSeq(strs[b].data, 1, strs[b].size),
                       strs[a].length + strs[b].length)))

(* navi_get_output_string and navi_strdup *)
Duplicate(n, a) ==
  Return(Call("dup", n, <<a>>), Ok(MakeString(SubSeq(strs[a].data, 1, strs[a].size), strs[a].length)))

(* The end of a range that is not given is the size, and not the length.   *)
EndOf(s, end) == IF end = -1 THEN s.size ELSE end

(* string-copy and substring.  The new string has a byte for each of its   *)
(* characters, and copy_to decodes what happens to be in it.               *)
StringCopy(n, a, start, end) ==
  LET last == EndOf(strs[a], end)
      size == last - start
  IN  Return([Call("copy", n, <<a>>) EXCEPT !.start = start, !.end = end],
             IF BadRange(strs[a].length, 0, strs[a].length, start, last) THEN Refused
             ELSE CopyTo(MakeString([i \in 1..size |-> Junk], size), 0, strs[a], start, last))

(* string->utf8, and utf8->string of all that it returned *)
ThroughUtf8(n, a, start, end) ==
  LET last == IF end = -1 THEN strs[a].length ELSE end
      i == Forward(strs[a], 0, start)
      bytes == SubSeq(strs[a].data, i + 1, Forward(strs[a], i, last - start))
      new == MakeString(bytes, last - start)
  IN  Return([Call("utf8", n, <<a>>) EXCEPT !.start = start, !.end = end],
             IF BadRange(strs[a].length, 0, strs[a].length, start, last) \/ bytes = <<>>
                \/ ~Decodes(new, 0, last - start) THEN Refused ELSE Ok(new))

(* string->vector or string->list, and vector->string or list->string of   *)
(* that.  All bytes are decoded; an assertion compares their characters    *)
(* with the length.                                                        *)
ThroughVector(n, a) ==
  LET s == strs[a]
      chars == [k \in 1..s.length |-> ByteAt(s, Forward(s, 0, k - 1))[1]]
  IN  Return(Call("vector", n, <<a>>),
             IF Forward(s, 0, s.length) # s.size \/ ~Decodes(s, 0, s.length) THEN Died
             ELSE Ok(MakeString(Encode(chars), s.length)))

(* read_string.  The size is 0 while it reads, so that the block never     *)
(* grows; literals that do not fit write behind it, and are left out.      *)
ReadLiteral(n, cs) ==
  /\ Len(Encode(cs)) <= BufLen
  /\ LET block == Terminate(MakeString([i \in 1..BufLen |-> Junk], 0), 0)
     IN  Return([Call("literal", n, <<>>) EXCEPT !.cs = cs],
                Ok([Terminate(Write(block, 0, Encode(cs)), Len(Encode(cs))) EXCEPT !.length = Len(cs)]))

-----------------------------------------------------------------------------
(* Procedures that change a string                                         *)

(* string-set!.  The index is compared with the size: between length and   *)
(* size, which programs avoid, it writes at the end of the string.         *)
StringSet(n, k, c) ==
  LET s == strs[n]
      i == Forward(s, 0, k)
  IN  /\ k < s.length \/ k >= s.size
      /\ Return([Call("set", n, <<>>) EXCEPT !.at = k, !.cs = <<c>>],
                IF k < 0 \/ k >= s.size THEN Refused
                ELSE IF ~Decodes(s, i, 1) THEN Died ELSE Ok(Splice(s, i, Step(s, i) - i, Bytes(c))))

StringFill(n, c, start, end) ==
  LET s == strs[n]
      last == EndOf(s, end)
      i == Forward(s, 0, start)
  IN  Return([Call("fill", n, <<>>) EXCEPT !.start = start, !.end = end, !.cs = <<c>>],
             IF BadRange(s.length, 0, s.length, start, last) THEN Refused
             ELSE IF ~Decodes(s, i, last - start) THEN Died
             ELSE Ok(Splice(s, i, Forward(s, i, last - start) - i, Encode([k \in 1..last - start |-> c]))))

StringCopyTo(n, at, a, start, end) ==
  LET last == EndOf(strs[a], end)
  IN  /\ n # a
      /\ Return([Call("copy!", n, <<a>>) EXCEPT !.at = at, !.start = start, !.end = end],
                IF BadRange(strs[n].length, at, strs[a].length, start, last) THEN Refused
                ELSE CopyTo(strs[n], at, strs[a], start, last))

(* string_write, of a port that is open on the string *)
StringWrite(n, c) ==
  LET s == strs[n]
      g == Grow(s, Width[c])
  IN  Return([Call("write", n, <<>>) EXCEPT !.cs = <<c>>],
             Ok([Terminate(Write(g, s.size, Bytes(c)), s.size + Width[c]) EXCEPT !.length = @ + 1]))

-----------------------------------------------------------------------------
(* Procedures that look                                                    *)

(* string-ref takes the index for that of a byte; programs that use it     *)
(* have narrow characters.                                                 *)
StringRef(n, k) ==
  LET s == strs[n]
      inside == k \in 0..s.length - 1
  IN  Return([Call("ref", n, <<>>) EXCEPT !.at = k, !.cs = IF inside THEN <<ByteAt(s, k)[1]>> ELSE <<>>],
             IF inside THEN Ok(s) ELSE Refused)

StringEqual(n, a) ==
  LET s == strs[n]  t == strs[a]
      same == s.size = t.size /\ s.length = t.length /\ SubSeq(s.data, 1, s.size) = SubSeq(t.data, 1, t.size)
  IN  Return([Call("equal", n, <<a>>) EXCEPT !.at = IF same THEN 1 ELSE 0], Ok(s))

Indices == -1..program.max
Starts == 0..program.max
Chars == program.chars
Texts == UNION {[1..k -> Chars] : k \in 0..program.max}

Next ==
  \E n, a \in program.names :
    \/ \E cs \in Texts : ListToString(n, cs) \/ ReadLiteral(n, cs)
    \/ \E k \in Indices, c \in Chars : MakeStringProc(n, k, c)
    \/ \E b \in program.names : StringAppend(n, a, b)
    \/ Duplicate(n, a) \/ ThroughVector(n, a)
    \/ \E i \in Starts, j \in Indices : StringCopy(n, a, i, j) \/ ThroughUtf8(n, a, i, j)
    \/ \E k \in Indices, c \in Chars : StringSet(n, k, c)
    \/ \E c \in Chars, i \in Starts, j \in Indices : StringFill(n, c, i, j)
    \/ \E at, i \in Starts, j \in Indices : StringCopyTo(n, at, a, i, j)
    \/ \E c \in Chars : StringWrite(n, c)
    \/ \E k \in Indices : StringRef(n, k)
    \/ StringEqual(n, a)

Spec == Init /\ [][Next]_vars

-----------------------------------------------------------------------------
(* Size, length and bytes belong together after every call: the bytes up   *)
(* to the size are the characters, as many as the length says, and the     *)
(* byte 0 stands behind them, inside the block, for those who take the     *)
(* block for a C string.                                                   *)
Contents(s) ==
  LET first == SelectSeq(SubSeq(s.data, 1, s.size), LAMBDA b : b[2] = 1)
  IN  [i \in DOMAIN first |-> first[i][1]]

SizesAgree ==
  \A n \in Names :
    LET s == strs[n]
    IN  /\ s.size <= Capacity(s) /\ s.data[s.size + 1] = End0
        /\ s.length = Len(Contents(s)) /\ SubSeq(s.data, 1, s.size) = Encode(Contents(s))

(* Whatever the widths of the characters that replace each other, the      *)
(* procedures do to the bytes what R7RS says of the characters, and refuse *)
(* what it has no meaning for.                                             *)
Characters == INSTANCE MutableStrings WITH contents <- [n \in Names |-> Contents(strs[n])]
ImplementsStrings == Characters!Spec
=============================================================================

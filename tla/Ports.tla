------------------------------- MODULE Ports --------------------------------
(***************************************************************************)
(* The ports of port.c.  An input port reads a FILE byte by byte, and      *)
(* decodes UTF-8 for the character procedures, or reads the characters of  *)
(* a string.  Peeking keeps one unit in the port's buffer, whatever        *)
(* procedure asks for it next.  Two ports may share a FILE, as the current *)
(* input port and the port of "navii -" share stdin.                       *)
(*                                                                         *)
(* A unit is <<c, 0>>, the character c, or <<c, i>>, the i-th byte of the  *)
(* encoding of a character c of two bytes.  A file is written through an   *)
(* output port, or was there before; then it is closed, and read.          *)
(***************************************************************************)
EXTENDS Integers, Sequences, FiniteSets, SequencesExt

CONSTANTS
  Port,         \* input ports
  Ascii, Wide,  \* characters of one byte, and of two
  Latin,        \* one of two bytes, whose code fits in one byte
  Paren,        \* the unit that stands for both parentheses
  MaxWritten,   \* bound on the units written
  Program       \* what is opened, and by which procedures it is used

ASSUME PortsAssumption ==
  /\ Ascii \cap Wide = {} /\ Latin \in Wide /\ Paren \in Ascii \X {0} /\ MaxWritten \in Nat
  /\ Program \subseteq
       [kind : {"file", "string"}, client : {"bytes", "chars", "mixed"},
        content : Seq((Ascii \cup Wide) \X (0 .. 2)), written : BOOLEAN,
        shared : BOOLEAN, fails : BOOLEAN]

VARIABLES
  program,
  out,      \* the output port: its flags, close_out, and whether it was opened
  asked,    \* the units that the calls of output procedures wrote
  data,     \* the bytes of the file, or the characters of the string
  port,     \* the input ports: flags, buffer, close_in, and whether opened
  rest,     \* what is left to read of the FILE of a port, or of its string
  handle,   \* the FILE of a port, and the one of the output port
  taken,    \* what read procedures used up
  answer    \* of the last call on each port: what kind of call, and its value

vars == <<program, out, asked, data, port, rest, handle, taken, answer>>
output == <<program, out, asked, data>>
input == <<port, rest, taken>>

Char == (Ascii \cup Wide) \X {0}
Byte == (Ascii \X {0}) \cup (Wide \X {1, 2})

Eof == <<"eof", 0>>
NoChar == <<"char", -1>>          \* the object that navi_make_char makes of EOF
Error == <<"error", 0>>
Bad == <<"bad", 0>>
Undefined == <<"undefined", 0>>
Unspecified == <<"unspecified", 0>>
Other == {Eof, NoChar, Error, Undefined, Unspecified, <<"bool", 0>>, <<"bool", 1>>}

Answers(p, op, v) == answer' = [answer EXCEPT ![p] = [op |-> op, value |-> v]]

(* U8_APPEND: the bytes of a unit that is written as a character *)
Encode(u) == IF u[1] \in Wide /\ u[2] = 0 THEN << <<u[1], 1>>, <<u[1], 2>> >> ELSE <<u>>

EncodeAll(s) == FlattenSeq([i \in DOMAIN s |-> Encode(s[i])])

(* A byte above 127 is, as a code, a character of two bytes. *)
AsCode(b) == IF b[2] > 0 THEN <<Latin, 0>> ELSE b

-----------------------------------------------------------------------------
(* Fault, which no run uses: the flag is not looked at. *)
NeverClosed == FALSE

OutputClosed == "OUTPUT_CLOSED" \in out.flags

(* check_can_write, and check_can_write_u8: only files take bytes *)
CanWrite(binary) == out.opened /\ ~OutputClosed /\ (binary => program.kind = "file")

RejectWrite(op, binary) ==
  /\ out.opened /\ ~CanWrite(binary)
  /\ Answers("out", op, Error)
  /\ UNCHANGED <<output, input, handle>>

Puts(op, units, stored) ==
  /\ Len(asked) + Len(units) <= MaxWritten
  /\ handle["out"] = "open"
  /\ asked' = asked \o units /\ data' = data \o stored
  /\ Answers("out", op, Unspecified)
  /\ UNCHANGED <<program, out, input, handle>>

(* putc to a FILE that a failed fclose has freed *)
PutsDangling(op) ==
  /\ handle["out"] # "open"
  /\ Answers("out", op, Undefined)
  /\ UNCHANGED <<output, input, handle>>

Stored(units) == IF program.kind = "file" THEN EncodeAll(units) ELSE units

WriteChar(c) ==
  \/ RejectWrite("write", FALSE)
  \/ CanWrite(FALSE) /\ (Puts("write", <<c>>, Stored(<<c>>)) \/ PutsDangling("write"))

(* write-u8 calls navi_port_write_char. *)
WriteU8(b) ==
  \/ RejectWrite("write", FALSE)
  \/ CanWrite(FALSE) /\ (Puts("write", <<b>>, Stored(<<AsCode(b)>>)) \/ PutsDangling("write"))

(* navi_port_write_cstr: byte by byte.  To a string port each byte goes as  *)
(* a char, which is negative for a byte above 127: U8_APPEND is undefined.  *)
WriteString(s) ==
  \/ RejectWrite("write", FALSE)
  \/ /\ CanWrite(FALSE)
     /\ program.kind = "file" \/ \A i \in DOMAIN s : s[i][1] \in Ascii
     /\ Puts("write", s, Stored(s)) \/ PutsDangling("write")
  \/ /\ CanWrite(FALSE)
     /\ program.kind = "string" /\ \E i \in DOMAIN s : s[i][1] \in Wide
     /\ Answers("out", "string", Undefined)
     /\ UNCHANGED <<output, input, handle>>

(* write of a list of one symbol: write_pair puts a parenthesis, write_symbol *)
(* puts bytes, which a string port refuses.                                   *)
WriteList(c) ==
  LET text == <<Paren, c, Paren>>
  IN  \/ RejectWrite("write", FALSE)
      \/ CanWrite(TRUE) /\ (Puts("write", text, Stored(text)) \/ PutsDangling("write"))
      \/ /\ CanWrite(FALSE) /\ ~CanWrite(TRUE) /\ Len(asked) < MaxWritten
         /\ asked' = Append(asked, Paren) /\ data' = Append(data, Paren)
         /\ Answers("out", "write", Error)
         /\ UNCHANGED <<program, out, input, handle>>

CloseOutput ==
  /\ out.opened
  /\ \/ /\ ~out.closeOut
        /\ out' = [out EXCEPT !.flags = @ \cup {"OUTPUT_CLOSED"}]
        /\ Answers("out", "close", Unspecified)
        /\ UNCHANGED <<program, asked, data, input, handle>>
     \/ /\ out.closeOut /\ handle["out"] = "open"
        /\ out' = [out EXCEPT !.flags = @ \cup {"OUTPUT_CLOSED"}, !.closeOut = FALSE]
        /\ handle' = [handle EXCEPT !["out"] = "closed"]
        /\ Answers("out", "close", Unspecified)
        /\ UNCHANGED <<program, asked, data, input>>
     \/ /\ out.closeOut /\ handle["out"] = "open" /\ program.fails
        /\ handle' = [handle EXCEPT !["out"] = "failed"]
        /\ Answers("out", "close", Error)
        /\ UNCHANGED <<output, input>>
     \/ /\ out.closeOut /\ handle["out"] # "open"
        /\ Answers("out", "close", Undefined)
        /\ UNCHANGED <<output, input, handle>>

-----------------------------------------------------------------------------
(* The FILE that a port reads; ports of strings have a position each. *)
First == CHOOSE q \in Port : TRUE
Origin(p) == IF program.shared THEN First ELSE p

(* open-input-file and open-input-string, on what was written *)
Open(p) ==
  /\ port[p].opened = FALSE
  /\ program.kind = "file" => handle["out"] = "closed"
  /\ program.kind = "string" => OutputClosed
  /\ port' = [port EXCEPT ![p] = [@ EXCEPT !.opened = TRUE, !.closeIn = program.kind = "file"]]
  /\ IF program.shared /\ \E q \in Port : port[q].opened
     THEN UNCHANGED <<rest, handle>>
     ELSE /\ rest' = [rest EXCEPT ![Origin(p)] = data]
          /\ handle' = [handle EXCEPT ![Origin(p)] = "open"]
  /\ Answers(p, "open", Unspecified)
  /\ UNCHANGED <<output, taken>>

Has(p, flag) == flag \in port[p].flags

(* Fault, which no run uses: closed ports are read. *)
CanReadClosed(p, binary) == port[p].opened /\ (binary => program.kind = "file")

(* check_can_read, and check_can_read_u8: string ports have no read_u8 *)
CanRead(p, binary) ==
  port[p].opened /\ ~Has(p, "INPUT_CLOSED") /\ (binary => program.kind = "file")

Rejected(p, op, binary) ==
  /\ port[p].opened /\ ~CanRead(p, binary)
  /\ Answers(p, op, Error)
  /\ UNCHANGED <<output, input, handle>>

Ended(p, op) ==
  /\ Has(p, "GOT_EOF")
  /\ Answers(p, op, Eof)
  /\ UNCHANGED <<output, input, handle>>

Buffered(p) == ~Has(p, "GOT_EOF") /\ Has(p, "BUFFER_FULL")

(* Fault, which no run uses: what is in the buffer is written over. *)
FillsAlways(p) == ~Has(p, "GOT_EOF") /\ handle[Origin(p)] = "open"

(* The buffer is filled from the FILE, which another port may have closed. *)
Fills(p) ==
  /\ ~Has(p, "GOT_EOF") /\ ~Has(p, "BUFFER_FULL") /\ handle[Origin(p)] = "open"

Dangles(p, op) ==
  /\ ~Has(p, "GOT_EOF") /\ ~Has(p, "BUFFER_FULL") /\ handle[Origin(p)] # "open"
  /\ Answers(p, op, Undefined)
  /\ UNCHANGED <<output, input, handle>>

(* navi_port_buffer_byte, and what it leaves *)
BufferByte(s) ==
  IF s = <<>> THEN [got |-> Eof, left |-> <<>>] ELSE [got |-> Head(s), left |-> Tail(s)]

(* Fault, which no run uses: every byte begins a character, of one byte. *)
SizeOne(b) == 1

(* utf8_char_size, of the first byte of a character *)
Size(b) == CASE b[1] \in Ascii -> 1 [] b[1] \in Wide /\ b[2] = 1 -> 2 [] OTHER -> 0

(* navi_port_buffer_char: the bytes of what is not a character are lost. *)
BufferChar(s) ==
  IF s = <<>> \/ program.kind = "string" THEN BufferByte(s)
  ELSE LET n == Size(Head(s))
           char == <<Head(s)[1], 0>>
       IN  [got  |-> IF n > 0 /\ IsPrefix(Encode(char), s) THEN char ELSE Bad,
            left |-> IF n = 0 THEN Tail(s) ELSE SubSeq(s, n + 1, Len(s))]

(* What the call leaves in the port, and what it used up of the source. *)
Sets(p, flags, buffer) == port' = [port EXCEPT ![p] = [@ EXCEPT !.flags = flags, !.buffer = buffer]]
Uses(p, left) == rest' = [rest EXCEPT ![Origin(p)] = left]
Takes(p, units) == taken' = [taken EXCEPT ![p] = @ \o units]
Lost(p, left) == SubSeq(rest[Origin(p)], 1, Len(rest[Origin(p)]) - Len(left))

IfEof(u, flag) == IF u = Eof THEN {flag} ELSE {}
Unit(u) == IF u = Eof THEN <<>> ELSE <<u>>
AsChar(u) == IF u = Eof THEN NoChar ELSE u

-----------------------------------------------------------------------------
(* navi_port_peek_byte.  At the end the buffer is full, of EOF. *)
PeekU8(p) ==
  \/ Rejected(p, "peek", TRUE)
  \/ /\ CanRead(p, TRUE)
     /\ \/ Ended(p, "peek") \/ Dangles(p, "peek")
        \/ /\ Buffered(p)
           /\ Answers(p, "peek", port[p].buffer)
           /\ UNCHANGED <<output, input, handle>>
        \/ /\ Fills(p)
           /\ LET f == BufferByte(rest[Origin(p)])
              IN  /\ Sets(p, port[p].flags \cup {"BUFFER_FULL"}, f.got)
                  /\ Uses(p, f.left)
                  /\ Answers(p, "peek", f.got)
           /\ UNCHANGED <<output, taken, handle>>

(* navi_port_read_byte *)
ReadU8(p) ==
  \/ Rejected(p, "read", TRUE)
  \/ /\ CanRead(p, TRUE)
     /\ \/ Ended(p, "read") \/ Dangles(p, "read")
        \/ /\ Buffered(p)
           /\ LET b == port[p].buffer
              IN  /\ Sets(p, (port[p].flags \ {"BUFFER_FULL"}) \cup IfEof(b, "GOT_EOF"), b)
                  /\ Takes(p, Unit(b))
                  /\ Answers(p, "read", b)
           /\ UNCHANGED <<output, rest, handle>>
        \/ /\ Fills(p)
           /\ LET f == BufferByte(rest[Origin(p)])
              IN  /\ Sets(p, port[p].flags \cup IfEof(f.got, "GOT_EOF"), f.got)
                  /\ Uses(p, f.left) /\ Takes(p, Unit(f.got))
                  /\ Answers(p, "read", f.got)
           /\ UNCHANGED <<output, handle>>

(* A character procedure meets bytes that are not a character. *)
NotUtf8(p, op, f) ==
  /\ f.got = Bad
  /\ Uses(p, f.left) /\ Takes(p, Lost(p, f.left))
  /\ Answers(p, op, Error)
  /\ UNCHANGED <<output, port, handle>>

(* navi_port_peek_char.  The object for EOF is a character at first. *)
PeekChar(p) ==
  \/ Rejected(p, "peek", FALSE)
  \/ /\ CanRead(p, FALSE)
     /\ \/ Ended(p, "peek") \/ Dangles(p, "peek")
        \/ /\ Buffered(p)
           /\ Answers(p, "peek", AsChar(port[p].buffer))
           /\ UNCHANGED <<output, input, handle>>
        \/ /\ Fills(p)
           /\ LET f == BufferChar(rest[Origin(p)])
              IN  \/ NotUtf8(p, "peek", f)
                  \/ /\ f.got # Bad
                     /\ Sets(p, port[p].flags \cup {"BUFFER_FULL"} \cup IfEof(f.got, "GOT_EOF"), f.got)
                     /\ Uses(p, f.left)
                     /\ Answers(p, "peek", AsChar(f.got))
                     /\ UNCHANGED <<output, taken, handle>>

(* navi_port_read_char *)
ReadChar(p) ==
  \/ Rejected(p, "read", FALSE)
  \/ /\ CanRead(p, FALSE)
     /\ \/ Ended(p, "read") \/ Dangles(p, "read")
        \/ /\ Buffered(p)
           /\ Sets(p, port[p].flags \ {"BUFFER_FULL"}, port[p].buffer)
           /\ Takes(p, Unit(port[p].buffer))
           /\ Answers(p, "read", AsChar(port[p].buffer))
           /\ UNCHANGED <<output, rest, handle>>
        \/ /\ Fills(p)
           /\ LET f == BufferChar(rest[Origin(p)])
              IN  \/ NotUtf8(p, "read", f)
                  \/ /\ f.got # Bad
                     /\ Sets(p, port[p].flags \cup IfEof(f.got, "GOT_EOF"), f.got)
                     /\ Uses(p, f.left) /\ Takes(p, Unit(f.got))
                     /\ Answers(p, "read", f.got)
                     /\ UNCHANGED <<output, handle>>

InputOpen(p) ==
  /\ port[p].opened
  /\ Answers(p, "ask", <<"bool", IF Has(p, "INPUT_CLOSED") THEN 0 ELSE 1>>)
  /\ UNCHANGED <<output, input, handle>>

(* navi_close_input_port: a failed fclose leaves by navi_error, in between. *)
CloseInput(p) ==
  LET closed == [port EXCEPT ![p] = [@ EXCEPT !.flags = @ \cup {"INPUT_CLOSED"}, !.closeIn = FALSE]]
      o == Origin(p)
  IN  /\ port[p].opened
      /\ \/ /\ ~port[p].closeIn
            /\ port' = closed
            /\ Answers(p, "close", Unspecified)
            /\ UNCHANGED <<output, rest, taken, handle>>
         \/ /\ port[p].closeIn /\ handle[o] = "open"
            /\ port' = closed
            /\ handle' = [handle EXCEPT ![o] = "closed"]
            /\ Answers(p, "close", Unspecified)
            /\ UNCHANGED <<output, rest, taken>>
         \/ /\ port[p].closeIn /\ handle[o] = "open" /\ program.fails
            /\ handle' = [handle EXCEPT ![o] = "failed"]
            /\ Answers(p, "close", Error)
            /\ UNCHANGED <<output, input>>
         \/ /\ port[p].closeIn /\ handle[o] # "open"
            /\ Answers(p, "close", Undefined)
            /\ UNCHANGED <<output, input, handle>>

-----------------------------------------------------------------------------
Init ==
  /\ program \in Program
  /\ out = [opened |-> program.written, closeOut |-> program.written /\ program.kind = "file",
            flags |-> IF program.written THEN {} ELSE {"OUTPUT_CLOSED"}]
  /\ asked = program.content /\ data = program.content
  /\ port = [p \in Port |-> [opened |-> FALSE, flags |-> {}, buffer |-> Eof, closeIn |-> FALSE]]
  /\ rest = [p \in Port |-> <<>>]
  /\ handle = [h \in Port \cup {"out"} |-> IF h = "out" /\ program.written THEN "open" ELSE "closed"]
  /\ taken = [p \in Port |-> <<>>]
  /\ answer = [p \in Port \cup {"out"} |-> [op |-> "none", value |-> Unspecified]]

Writes ==
  \/ \E c \in Char : WriteChar(c)
  \/ \E b \in Byte : WriteU8(b)
  \/ \E c, d \in Char : WriteString(<<c, d>>)
  \/ \E c \in Char : WriteList(c)
  \/ CloseOutput

Reads(p) ==
  \/ Open(p) \/ InputOpen(p) \/ CloseInput(p)
  \/ program.client # "chars" /\ (PeekU8(p) \/ ReadU8(p))
  \/ program.client # "bytes" /\ (PeekChar(p) \/ ReadChar(p))

(* Input and output ports, and input ports that do not share a FILE, have  *)
(* nothing in common: the one is used before the other, and one is enough. *)
Next ==
  \/ (\A p \in Port : ~port[p].opened) /\ Writes
  \/ \E p \in Port : (program.shared \/ p = First) /\ Reads(p)

Spec == Init /\ [][Next]_vars

-----------------------------------------------------------------------------
Data == Char \cup Byte

(* Flags, buffers and what is left of a source keep their types, and no    *)
(* port holds more than a unit or the EOF that it met.                     *)
TypeOK ==
  /\ program \in Program
  /\ out \in [opened : BOOLEAN, closeOut : BOOLEAN, flags : SUBSET {"OUTPUT_CLOSED"}]
  /\ asked \in Seq(Data) /\ data \in Seq(Data)
  /\ port \in [Port -> [opened : BOOLEAN, flags : SUBSET {"GOT_EOF", "BUFFER_FULL", "INPUT_CLOSED"},
                        buffer : Data \cup {Eof}, closeIn : BOOLEAN]]
  /\ rest \in [Port -> Seq(Data)] /\ taken \in [Port -> Seq(Data)]
  /\ handle \in [Port \cup {"out"} -> {"open", "closed", "failed"}]
  /\ \A p \in Port \cup {"out"} : answer[p].value \in Data \cup Other

(* The bytes that a port holds in its buffer, taken from its source *)
Held(p) == IF Buffered(p) THEN EncodeAll(Unit(port[p].buffer)) ELSE <<>>

AsksBytes == \E i \in DOMAIN asked : asked[i][2] > 0

Count(s, u) == Cardinality({i \in DOMAIN s : s[i] = u})

(* What was written is read, each byte once and in order, by whatever mix  *)
(* of byte and character procedures: what a port used up, what it holds    *)
(* and what is left are the bytes of what the calls wrote.  Of two ports   *)
(* that share a FILE this holds together, up to the order.  write-u8 of a  *)
(* byte above 127 is left out: it writes two other bytes.                  *)
EveryByteOnce ==
  TypeOK /\
  LET bytes == EncodeAll(asked)
      Got(p) == EncodeAll(taken[p]) \o Held(p)
      opened == {p \in Port : port[p].opened}
  IN  \/ program.written /\ AsksBytes
      \/ opened = {}
      \/ IF program.shared
         THEN \A u \in Byte :
                Count(bytes, u) = Count(rest[First], u)
                   + FoldSet(LAMBDA p, n : n + Count(Got(p), u), 0, opened)
         ELSE \A p \in opened : Got(p) \o EncodeAll(rest[p]) = bytes

(* Peeking and then reading answer the same, also when one is a procedure  *)
(* of bytes and the other of characters, and whatever other ports do in    *)
(* between; or the port is closed, or is a string's and has no bytes.       *)
PeekPredicts ==
  [][\A p \in Port :
       (answer[p].op = "peek" /\ answer'[p] # answer[p]
          /\ answer[p].value \in Data /\ answer'[p].op = "read")
         => answer'[p].value \in {answer[p].value, Error}]_vars

(* No call uses a FILE after fclose, and none closes one twice: unless it  *)
(* is shared, or fclose failed.  A string port never takes wide characters *)
(* from write-string.                                                      *)
DanglingNeedsCause ==
  \A p \in Port \cup {"out"} :
    answer[p].value = Undefined =>
      program.shared \/ program.fails \/ answer[p].op = "string"

-----------------------------------------------------------------------------
(* Decoded[s]: the characters of a file, a Bad for what is none *)
RECURSIVE Decoded(_)
Decoded(s) ==
  IF s = <<>> THEN <<>>
  ELSE LET f == BufferChar(s) IN <<f.got>> \o Decoded(f.left)

Units(s) == IF program.client = "chars" THEN Decoded(s) ELSE s

(* One kind of procedure, and the port has its FILE for itself *)
Plain ==
  /\ ~program.shared /\ ~program.fails /\ program.client # "mixed"
  /\ program.client = "bytes" => program.kind = "file"

Stream == INSTANCE CharStream WITH
  Done <- Unspecified, Yes <- <<"bool", 1>>, No <- <<"bool", 0>>,
  unread <- IF ~Plain THEN <<>>
            ELSE IF ~port[First].opened THEN Units(data)
            ELSE (IF Buffered(First) THEN Unit(port[First].buffer) ELSE <<>>) \o Units(rest[First]),
  state <- IF ~Plain \/ ~port[First].opened THEN "written"
           ELSE IF Has(First, "INPUT_CLOSED") THEN "closed" ELSE "read",
  answer <- IF ~Plain THEN Unspecified
            ELSE IF answer[First].value = NoChar THEN Eof ELSE answer[First].value

(* Where one port reads a file or a string with procedures of one kind, it *)
(* is a stream; the character that peek-char makes of EOF stands for eof,  *)
(* which is how read.c takes it.                                           *)
ImplementsStream == Stream!Spec
=============================================================================

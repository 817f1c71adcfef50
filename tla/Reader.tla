------------------------------- MODULE Reader -------------------------------
(***************************************************************************)
(* The reader of read.c and the printer of display.c.  navi_read,          *)
(* read_list and read_sharp call each other; their activations are the     *)
(* frames of stack, and an error drops them all by longjmp.  A token is    *)
(* read in one step.  The port gives out characters in order, as           *)
(* CharStream says, so that text, what is left of them, stands for it.     *)
(* Left out: the codes of characters, \x in strings, and overflow.         *)
(***************************************************************************)
EXTENDS Integers, Sequences, FiniteSets, SequencesExt

CONSTANTS
  Source,     \* what is read, and what it is made from: [text, data, kind]
  Narrowed,   \* characters above 255, and the char that each is cut to
  Internal    \* names of internal bindings

VARIABLES
  source,
  text,      \* the characters that the port has not given out
  fold,      \* FOLD_CASE
  stack,     \* frames [fn, items], the innermost last
  pc,        \* the function about to run; "return" and "idle"
  value,     \* what is returned
  guards,    \* guards that read_list made and did not give back
  results    \* of the calls of navi_read that ended

vars == <<source, text, fold, stack, pc, value, guards, results>>

-----------------------------------------------------------------------------
(* Objects.  The name of a symbol is a sequence of characters. *)
Void == <<"void">>
Eof == <<"eof">>
Nil == <<"nil">>
Error == <<"error">>
Bool(b) == <<"bool", b>>
Num(n) == <<"num", n>>
Sym(s) == <<"sym", s>>
Str(s) == <<"str", s>>
Chr(c) == <<"char", c>>
Pair(a, d) == <<"pair", a, d>>
Vec(s) == <<"vec", s>>
Bytes(s) == <<"bytes", s>>

IsPair(d) == d[1] = "pair"

(* Fault, which no run uses: every list ends with (). *)
ProperList(items, tail) == FoldRight(LAMBDA a, d : Pair(a, d), items, Nil)

(* The list of items that ends with tail *)
ListOf(items, tail) == FoldRight(LAMBDA a, d : Pair(a, d), items, tail)

(* The elements of a list up to what is not a pair: navi_list_for_each *)
RECURSIVE Elements(_)
Elements(d) == IF IsPair(d) THEN <<d[2]>> \o Elements(d[3]) ELSE <<>>

Wrap(name, d) == ListOf(<<Sym(name), d>>, Nil)   \* navi_sym_wrap

Quote == <<"q", "u", "o", "t", "e">>
Quasiquote == <<"q", "u", "a", "s", "i">> \o Quote
Unquote == <<"u", "n">> \o Quote
Splice == Unquote \o <<"-", "s", "p", "l", "i", "c", "e">>

-----------------------------------------------------------------------------
(* Characters and tokens *)
Blank == {" ", "\n"}
Terminal == Blank \cup {"(", ")"}    \* isterminal

Digit == <<"0", "1", "2", "3", "4", "5", "6", "7", "8", "9", "a", "b", "c", "d", "e", "f">>
DigitOf(radix) == {Digit[i] : i \in 1 .. radix}
DigitValue(c) == CHOOSE i \in 0 .. 15 : Digit[i + 1] = c

First(t) == IF t = <<>> THEN "eof" ELSE Head(t)

(* The characters of t before the first that is in S, and those from it on *)
Upto(t, S) ==
  LET i == SelectInSeq(t, LAMBDA c : c \in S)
  IN  IF i = 0 THEN t ELSE SubSeq(t, 1, i - 1)
From(t, S) == SubSeq(t, Len(Upto(t, S)) + 1, Len(t))

Token(t) == Upto(t, Terminal)
PastToken(t) == LET r == From(t, Terminal) IN IF r = <<>> THEN r ELSE Tail(r)   \* fault, which no run uses
AfterToken(t) == From(t, Terminal)

RECURSIVE SkipBlank(_)
SkipBlank(t) == IF First(t) \in Blank THEN SkipBlank(Tail(t)) ELSE t

SkipLine(t) == LET r == From(t, {"\n"}) IN IF r = <<>> THEN r ELSE Tail(r)   \* consume_line

(* The digits at the start of t, as a number: read_unum *)
RECURSIVE Unum(_, _, _)
Unum(t, radix, n) ==
  IF First(t) \in DigitOf(radix) THEN Unum(Tail(t), radix, radix * n + DigitValue(Head(t)))
  ELSE [n |-> n, left |-> t]

(* read_num: an optional sign, and the digits *)
Number(t, radix) ==
  LET signed == First(t) \in {"+", "-"}
      u == Unum(IF signed THEN Tail(t) ELSE t, radix, 0)
  IN  [n |-> IF First(t) = "-" THEN - u.n ELSE u.n, left |-> u.left]

Lower == [c \in {"A", "B", "X"} |-> CASE c = "A" -> "a" [] c = "B" -> "b" [] OTHER -> "x"]

(* handle_case *)
Folded(s) == IF fold THEN [i \in DOMAIN s |-> IF s[i] \in DOMAIN Lower THEN Lower[s[i]] ELSE s[i]] ELSE s

(* read_string: the characters up to the quote, or that there is none.  A  *)
(* backslash before blanks skips them, and takes what follows as it is.    *)
Escape == [c \in {"n", "t", "\"", "\\", "|"} |-> CASE c = "n" -> "\n" [] c = "t" -> "\t" [] OTHER -> c]

RECURSIVE StringChars(_, _)
StringChars(t, s) ==
  LET c == First(t)
      e == First(Tail(t))
      r == SkipBlank(Tail(t))
  IN  CASE c = "eof" -> [ok |-> FALSE, s |-> s, left |-> t]
        [] c = "\"" -> [ok |-> TRUE, s |-> s, left |-> Tail(t)]
        [] c = "\\" /\ e \in DOMAIN Escape -> StringChars(Tail(Tail(t)), Append(s, Escape[e]))
        [] c = "\\" /\ e \in Blank /\ r # <<>> -> StringChars(Tail(r), Append(s, Head(r)))
        [] c = "\\" /\ e \in Blank /\ r = <<>> -> [ok |-> FALSE, s |-> s, left |-> r]
        [] c = "\\" /\ e \notin Blank \cup DOMAIN Escape ->
             [ok |-> FALSE, s |-> s, left |-> IF e = "eof" THEN <<>> ELSE Tail(Tail(t))]
        [] OTHER -> StringChars(Tail(t), Append(s, c))

(* What follows the first "|#" of a comment: a bar is read with the        *)
(* character after it, whatever that is.                                   *)
RECURSIVE AfterBlock(_)
AfterBlock(t) ==
  LET r == From(t, {"|"})
  IN  IF Len(r) < 2 THEN [ok |-> FALSE, left |-> <<>>]
      ELSE IF r[2] = "#" THEN [ok |-> TRUE, left |-> Tail(Tail(r))]
      ELSE AfterBlock(Tail(Tail(r)))

-----------------------------------------------------------------------------
Depth == Len(stack)
Top == stack[Depth]
Frame(fn, items) == [fn |-> fn, items |-> items]
Push(frame) == stack' = Append(stack, frame)
Pop == stack' = Front(stack)
InTop(frame) == stack' = [stack EXCEPT ![Depth] = frame]

Return(v) == pc' = "return" /\ value' = v

(* navi_read_error: what the port gave out is gone, and the guards stay. *)
Raise(left) ==
  /\ text' = left /\ stack' = <<>> /\ pc' = "idle"
  /\ results' = Append(results, Error)
  /\ UNCHANGED <<source, fold, value, guards>>

(* The function returns v, having read up to left. *)
Gives(v, left) ==
  /\ text' = left /\ Return(v)
  /\ UNCHANGED <<source, fold, stack, guards, results>>

(* The function calls fn, in a frame that waits for its value. *)
Calls(frame, fn, left) ==
  /\ text' = left /\ Push(frame) /\ pc' = fn
  /\ UNCHANGED <<source, fold, value, guards, results>>

Goes(left) ==   \* round its loop, or a call in tail position
  /\ text' = left /\ UNCHANGED <<source, fold, stack, pc, value, guards, results>>

-----------------------------------------------------------------------------
(* navi_read, at the character c *)
Read(c) == pc = "navi_read" /\ First(SkipBlank(text)) = c
Rest == Tail(SkipBlank(text))

Ended == results # <<>> /\ Last(results) = Eof

Start ==
  /\ pc = "idle" /\ ~Ended
  /\ pc' = "navi_read"
  /\ UNCHANGED <<source, text, fold, stack, value, guards, results>>

ReadEof == Read("eof") /\ Gives(Eof, <<>>)

ReadDecimal ==
  /\ pc = "navi_read" /\ First(SkipBlank(text)) \in DigitOf(10)
  /\ LET u == Number(SkipBlank(text), 10) IN Gives(Num(u.n), u.left)

ReadSign ==
  \E c \in {"+", "-"} :
    /\ Read(c)
    /\ LET u == Number(Rest, 10)
       IN  \/ /\ First(Rest) \in DigitOf(10)
              /\ Gives(Num(IF c = "-" THEN - u.n ELSE u.n), u.left)
           \/ /\ First(Rest) \notin DigitOf(10)
              /\ Gives(Sym(<<c>> \o Folded(Token(Rest))), AfterToken(Rest))

ReadString ==
  /\ Read("\"")
  /\ LET s == StringChars(Rest, <<>>)
     IN  \/ s.ok /\ Gives(Str(s.s), s.left)
         \/ ~s.ok /\ Raise(s.left)

ReadQuote ==
  \/ Read("'") /\ Calls(Frame("quote", Quote), "navi_read", Rest)
  \/ Read("backquote") /\ Calls(Frame("quote", Quasiquote), "navi_read", Rest)
  \/ /\ Read(",")
     /\ \/ Rest = <<>> /\ Raise(<<>>)
        \/ First(Rest) = "@" /\ Calls(Frame("quote", Splice), "navi_read", Tail(Rest))
        \/ /\ Rest # <<>> /\ First(Rest) # "@"
           /\ Calls(Frame("quote", Unquote), "navi_read", Rest)

ReadHash == Read("#") /\ Calls(Frame("read", <<>>), "read_sharp", Rest)
ReadOpen == Read("(") /\ Calls(Frame("list", <<>>), "read_list", Rest)
ReadClose == Read(")") /\ Raise(Rest)
ReadComment == Read(";") /\ Goes(SkipLine(Rest))

ReadBarred ==
  /\ Read("|")
  /\ LET after == From(Rest, {"|"})
     IN  \/ after = <<>> /\ Raise(<<>>)
         \/ after # <<>> /\ Gives(Sym(Folded(Upto(Rest, {"|"}))), Tail(after))

Special == DigitOf(10) \cup {"eof", "+", "-", "\"", "'", "backquote", ",", "#", "(", ")", ";", "|"}

ReadSymbol ==
  /\ pc = "navi_read" /\ First(SkipBlank(text)) \notin Special
  /\ Gives(Sym(Folded(Token(SkipBlank(text)))), AfterToken(SkipBlank(text)))

NaviRead ==
  \/ ReadEof \/ ReadDecimal \/ ReadSign \/ ReadString \/ ReadQuote \/ ReadHash
  \/ ReadOpen \/ ReadClose \/ ReadComment \/ ReadBarred \/ ReadSymbol

-----------------------------------------------------------------------------
(* read_sharp, after the "#" *)
Sharp(c) == pc = "read_sharp" /\ First(text) = c
After == Tail(text)

Prefix4(s) == SubSeq(s, 1, IF Len(s) < 4 THEN Len(s) ELSE 4)

(* read_boolean compares four characters after the first, and no more. *)
SharpBoolean ==
  \E c \in {"t", "f"} :
    /\ Sharp(c)
    /\ LET s == <<c>> \o Prefix4(Token(After))
       IN  \/ s \in {<<"t">>, <<"t", "r", "u", "e">>} /\ Gives(Bool(TRUE), AfterToken(After))
           \/ s \in {<<"f">>, <<"f", "a", "l", "s", "e">>} /\ Gives(Bool(FALSE), AfterToken(After))
           \/ /\ s \notin {<<"t">>, <<"t", "r", "u", "e">>, <<"f">>, <<"f", "a", "l", "s", "e">>}
              /\ Raise(AfterToken(After))

CharName == [c \in {" ", "\n"} |->
               IF c = " " THEN <<"s", "p", "a", "c", "e">> ELSE <<"n", "e", "w", "l", "i", "n", "e">>]

(* read_character: a terminal character cannot be written after #\ *)
SharpCharacter ==
  /\ Sharp("\\")
  /\ LET s == Token(After)
         left == AfterToken(After)
     IN  \/ Len(s) = 1 /\ Gives(Chr(s[1]), left)
         \/ \E c \in DOMAIN CharName : Folded(s) = CharName[c] /\ Gives(Chr(c), left)
         \/ Len(s) # 1 /\ (\A c \in DOMAIN CharName : Folded(s) # CharName[c]) /\ Raise(left)

SharpVector == Sharp("(") /\ text' = After /\ pc' = "read_list"
               /\ stack' = stack \o <<Frame("vector", <<>>), Frame("list", <<>>)>>
               /\ UNCHANGED <<source, fold, value, guards, results>>

SharpBytes ==
  /\ Sharp("u")
  /\ \/ /\ IsPrefix(<<"8", "(">>, After)
        /\ text' = SubSeq(After, 3, Len(After)) /\ pc' = "read_list"
        /\ stack' = stack \o <<Frame("bytevec", <<>>), Frame("list", <<>>)>>
        /\ UNCHANGED <<source, fold, value, guards, results>>
     \/ /\ ~IsPrefix(<<"8", "(">>, After)
        /\ Raise(IF First(After) = "8" THEN SubSeq(After, 3, Len(After)) ELSE SubSeq(After, 2, Len(After)))

SharpRadix ==
  \E c \in {"b", "o", "x"} :
    /\ Sharp(c)
    /\ LET u == Number(After, CASE c = "b" -> 2 [] c = "o" -> 8 [] OTHER -> 16)
       IN  Gives(Num(u.n), u.left)

FoldCase == <<"f", "o", "l", "d", "-", "c", "a", "s", "e">>
NoFoldCase == <<"n", "o", "-">> \o FoldCase

SharpBang ==
  /\ Sharp("!")
  /\ LET s == Token(After)
         left == AfterToken(After)
     IN  \/ First(s) = "/" /\ From(left, {"\n"}) = <<>> /\ Raise(<<>>)
         \/ First(s) = "/" /\ From(left, {"\n"}) # <<>> /\ Gives(Void, SkipLine(left))
         \/ s = <<>> /\ Gives(Void, SkipLine(left))
         \/ s = <<"e", "o", "f">> /\ Gives(Eof, left)
         \/ /\ s \in {FoldCase, NoFoldCase}
            /\ fold' = (s = FoldCase) /\ text' = left /\ Return(Void)
            /\ UNCHANGED <<source, stack, guards, results>>
         \/ /\ First(s) # "/" /\ s \notin {<<>>, <<"e", "o", "f">>, FoldCase, NoFoldCase}
            /\ Raise(left)

SharpComment ==
  \/ Sharp(";") /\ Calls(Frame("comment", <<>>), "navi_read", After)
  \/ /\ Sharp("|")
     /\ \/ AfterBlock(After).ok /\ Gives(Void, AfterBlock(After).left)
        \/ ~AfterBlock(After).ok /\ Raise(<<>>)
  \/ /\ Sharp("/")
     /\ \/ From(After, {"\n"}) # <<>> /\ Gives(Void, SkipLine(After))
        \/ From(After, {"\n"}) = <<>> /\ Raise(<<>>)

SharpInternal == Sharp("#") /\ Calls(Frame("internal", <<>>), "navi_read", After)

SharpOther ==
  /\ pc = "read_sharp"
  /\ First(text) \notin {"t", "f", "\\", "(", "u", "b", "o", "x", "!", "#", ";", "|", "/"}
  /\ Raise(IF text = <<>> THEN <<>> ELSE After)

ReadSharp ==
  \/ SharpBoolean \/ SharpCharacter \/ SharpVector \/ SharpBytes \/ SharpRadix
  \/ SharpBang \/ SharpComment \/ SharpInternal \/ SharpOther

-----------------------------------------------------------------------------
(* read_list, round its loop.  The next character is kept in a char, which *)
(* cuts off all but its low byte.                                          *)
Cut(c) == IF c \in DOMAIN Narrowed THEN Narrowed[c] ELSE c
Elem(c) == pc = "read_list" /\ Cut(First(SkipBlank(text))) = c

(* Fault, which no run uses: the list is not guarded. *)
AddsUnguarded(items, v, left) ==
  /\ text' = left /\ pc' = "read_list"
  /\ InTop(Frame("list", Append(items, v)))
  /\ UNCHANGED <<source, fold, value, guards, results>>

(* Another element: the first makes the list, and a guard for it. *)
Adds(items, v, left) ==
  /\ text' = left /\ pc' = "read_list"
  /\ InTop(Frame("list", Append(items, v)))
  /\ guards' = IF items = <<>> THEN guards + 1 ELSE guards
  /\ UNCHANGED <<source, fold, value, results>>

ListEnd ==
  /\ Elem(")")
  /\ text' = Rest /\ Pop /\ Return(ListOf(Top.items, Nil))
  /\ guards' = IF Top.items = <<>> THEN guards ELSE guards - 1
  /\ UNCHANGED <<source, fold, results>>

ListEof == Elem("eof") /\ Raise(<<>>)

ListDot ==
  /\ Elem(".")
  /\ \/ Rest = <<>> /\ Raise(<<>>)
     \/ /\ Rest # <<>> /\ Cut(First(Rest)) \notin Terminal
        /\ Adds(Top.items, Sym(<<".">> \o Folded(Token(Rest))), AfterToken(Rest))
     \/ /\ Cut(First(Rest)) \in Terminal
        /\ text' = Rest /\ InTop(Frame("list-tail", Top.items)) /\ pc' = "navi_read"
        /\ UNCHANGED <<source, fold, value, guards, results>>

ListSharp ==
  /\ Elem("#")
  /\ text' = Rest /\ InTop(Frame("list-sharp", Top.items)) /\ pc' = "read_sharp"
  /\ UNCHANGED <<source, fold, value, guards, results>>

ListComment == Elem(";") /\ Goes(SkipLine(Rest))

ListItem ==
  /\ pc = "read_list" /\ Cut(First(SkipBlank(text))) \notin {")", "eof", ".", "#", ";"}
  /\ text' = SkipBlank(text) /\ InTop(Frame("list-item", Top.items)) /\ pc' = "navi_read"
  /\ UNCHANGED <<source, fold, value, guards, results>>

ReadList == ListEnd \/ ListEof \/ ListDot \/ ListSharp \/ ListComment \/ ListItem

-----------------------------------------------------------------------------
(* A frame gets the value that it waits for. *)
Gets(fn) == pc = "return" /\ stack # <<>> /\ Top.fn = fn

Leaves(v) == Pop /\ Return(v) /\ UNCHANGED <<source, text, fold, guards, results>>

(* Fault, which no run uses: the frame waits for its value again. *)
Stays(frames, fn) == UNCHANGED vars

Again(frames, fn) ==
  /\ stack' = frames /\ pc' = fn
  /\ UNCHANGED <<source, text, fold, value, guards, results>>

GetSharp ==
  /\ Gets("read")
  /\ \/ value = Void /\ Again(Front(stack), "navi_read")
     \/ value # Void /\ Leaves(value)

GetItem ==
  /\ Gets("list-item")
  /\ \/ value = Eof /\ Raise(text)
     \/ value # Eof /\ Adds(Top.items, value, text)

GetListSharp ==
  /\ Gets("list-sharp")
  /\ \/ value = Void /\ Again([stack EXCEPT ![Depth].fn = "list"], "read_list")
     \/ value # Void /\ Adds(Top.items, value, text)

(* The guard is not given back. *)
GetTail ==
  /\ Gets("list-tail")
  /\ LET end == Cut(First(SkipBlank(text))) = ")"
     IN  \/ /\ end
            /\ text' = Rest /\ Pop /\ Return(ListOf(Top.items, value))
            /\ UNCHANGED <<source, fold, guards, results>>
         \/ ~end /\ Raise(SkipBlank(text))

GetQuoted == Gets("quote") /\ Leaves(Wrap(Top.items, value))

GetVector == Gets("vector") /\ Leaves(Vec(Elements(value)))

IsByte(d) == d[1] = "num" /\ d[2] \in 0 .. 255

GetBytes ==
  /\ Gets("bytevec")
  /\ LET s == Elements(value)
     IN  \/ (\A i \in DOMAIN s : IsByte(s[i])) /\ Leaves(Bytes(s))
         \/ (\E i \in DOMAIN s : ~IsByte(s[i])) /\ Raise(text)

GetComment == Gets("comment") /\ Leaves(Void)

GetInternal ==
  /\ Gets("internal")
  /\ \/ value[1] = "sym" /\ value[2] \in Internal /\ Leaves(<<"internal", value[2]>>)
     \/ (value[1] = "sym" => value[2] \notin Internal) /\ Raise(text)

End ==
  /\ pc = "return" /\ stack = <<>>
  /\ pc' = "idle" /\ results' = Append(results, value)
  /\ UNCHANGED <<source, text, fold, stack, value, guards>>

Receive ==
  \/ GetSharp \/ GetItem \/ GetListSharp \/ GetTail \/ GetQuoted \/ GetVector
  \/ GetBytes \/ GetComment \/ GetInternal \/ End

-----------------------------------------------------------------------------
Init ==
  /\ source \in Source
  /\ text = source.text /\ fold = FALSE
  /\ stack = <<>> /\ pc = "idle" /\ value = Void /\ guards = 0 /\ results = <<>>

Next == Start \/ NaviRead \/ ReadSharp \/ ReadList \/ Receive

Spec == Init /\ [][Next]_vars
FairSpec == Spec /\ WF_vars(Next)

-----------------------------------------------------------------------------
(* display.c, with write.  A style has a gap to put between tokens where   *)
(* the code puts a blank or nothing; short ones abbreviate quote, and show *)
(* nothing for eof.                                                        *)
Plain == [gap |-> <<>>, short |-> FALSE]

RECURSIVE Decimal(_)
Decimal(n) ==
  IF n < 0 THEN <<"-">> \o Decimal(- n)
  ELSE IF n < 10 THEN <<Digit[n + 1]>> ELSE Decimal(n \div 10) \o <<Digit[(n % 10) + 1]>>

Close(style) == IF style.gap = <<>> THEN <<")">> ELSE <<" ">> \o style.gap \o <<")">>
IsQuote(d) == d[2] = Sym(Quote) /\ IsPair(d[3]) /\ d[3][3] = Nil

RECURSIVE Display(_, _), WriteCdr(_, _, _), Join(_, _)
Join(s, style) ==   \* of write_vector and write_bytevec
  IF Len(s) = 1 THEN Display(s[1], style)
  ELSE Display(s[1], style) \o <<" ">> \o style.gap \o Join(Tail(s), style)
WriteCdr(d, head, style) ==
  CASE IsPair(d) -> (IF head THEN <<>> ELSE <<" ">> \o style.gap)
                      \o Display(d[2], style) \o WriteCdr(d[3], FALSE, style)
    [] d = Nil -> Close(style)
    [] OTHER -> <<" ", ".", " ">> \o style.gap \o Display(d, style) \o <<")">>
Display(d, style) ==
  CASE d[1] = "num" -> Decimal(d[2])
    [] d[1] = "bool" -> <<"#", IF d[2] THEN "t" ELSE "f">>
    [] d[1] = "char" -> <<"#", "\\">> \o (IF d[2] \in DOMAIN CharName THEN CharName[d[2]] ELSE <<d[2]>>)
    [] d[1] = "str" -> <<"\"">> \o d[2] \o <<"\"">>
    [] d[1] = "sym" -> d[2]
    [] d[1] = "pair" ->
         IF style.short /\ IsQuote(d) THEN <<"'">> \o style.gap \o Display(d[3][2], style)
         ELSE <<"(">> \o style.gap \o WriteCdr(d, TRUE, style)
    [] d[1] = "nil" -> <<"(", ")">>
    [] d[1] = "vec" -> IF d[2] = <<>> THEN <<"#", "(", ")">>
                       ELSE <<"#", "(">> \o style.gap \o Join(d[2], style) \o Close(style)
    [] d[1] = "bytes" -> IF d[2] = <<>> THEN <<"#", "u", "8", "(">>
                         ELSE <<"#", "u", "8", "(">> \o style.gap \o Join(d[2], style) \o Close(style)
    [] OTHER -> IF style.short THEN <<>> ELSE <<"#", "!", "e", "o", "f">>

-----------------------------------------------------------------------------
RECURSIVE Parts(_)
Parts(d) ==
  {d} \cup CASE IsPair(d) -> Parts(d[2]) \cup Parts(d[3])
             [] d[1] \in {"vec", "bytes"} -> UNION {Parts(d[2][i]) : i \in DOMAIN d[2]}
             [] OTHER -> {}

Tags == {"void", "eof", "nil", "error", "bool", "num", "sym", "str", "char", "pair", "vec", "bytes", "internal"}
IsDatum(d) ==
  \A e \in Parts(d) :
    e[1] \in Tags /\ (e[1] = "bytes" => \A i \in DOMAIN e[2] : e[2][i][1] = "num" /\ e[2][i][2] \in 0 .. 255)

Waiting == {"read", "quote", "vector", "bytevec", "internal", "comment"}
Lists == {"list", "list-item", "list-sharp", "list-tail"}

(* The frames are of the functions that call one another, what they return *)
(* is an object, a byte of a bytevector is one, and the text only shrinks. *)
TypeOK ==
  /\ IsSuffix(text, source.text) /\ fold \in BOOLEAN
  /\ pc \in {"idle", "navi_read", "read_list", "read_sharp", "return"}
  /\ \A i \in DOMAIN stack : stack[i].fn \in Waiting \cup Lists
  /\ guards \in Nat /\ (pc = "return" => IsDatum(value))
  /\ pc = "idle" => stack = <<>> /\ \A i \in DOMAIN results : IsDatum(results[i])
  /\ pc = "read_list" => Top.fn = "list"

Failed == \E i \in DOMAIN results : results[i] = Error

(* What display.c writes so that it can be read: an empty bytevector is    *)
(* written without its parenthesis, strings without escapes, #\( cannot be *)
(* read, nor a symbol that read_list takes for a parenthesis.              *)
Readable(d) ==
  \A e \in Parts(d) :
    CASE e[1] = "bytes" -> e[2] # <<>>
      [] e[1] = "str" -> \A i \in DOMAIN e[2] : e[2][i] \notin {"\"", "\\"}
      [] e[1] = "char" -> e[2] \notin Terminal \ Blank
      [] e[1] = "sym" -> e[2][1] \notin DOMAIN Narrowed
      [] OTHER -> TRUE

(* What is written is read again, object by object, wherever blanks and    *)
(* comments of all kinds stand between its tokens.                         *)
RoundTrip ==
  TypeOK /\
  ((source.kind = "written" /\ pc = "idle" /\ \A i \in DOMAIN source.data : Readable(source.data[i])) =>
    IsPrefix(results, Append(source.data, Eof)))

Squeeze(s) == SelectSeq(s, LAMBDA c : c \notin Blank)
Short(d) == Display(d, [gap |-> <<>>, short |-> TRUE])

CountUpto(c, n) == Cardinality({i \in 1 .. n : source.text[i] = c})

Unbalanced ==
  \/ \E n \in DOMAIN source.text : CountUpto(")", n) > CountUpto("(", n)
  \/ CountUpto("(", Len(source.text)) # CountUpto(")", Len(source.text))

QuotesNothing ==
  \E i, k \in DOMAIN source.text :
    /\ i < k /\ source.text[i] = "'" /\ source.text[k] = ")"
    /\ \A j \in i + 1 .. k - 1 : source.text[j] \in Blank

(* Of a text of plain tokens every one is in the object that is read, and  *)
(* none twice; what is not read is still in the port.  Reading fails when  *)
(* parentheses do not match, and only then, or where a quote quotes        *)
(* nothing.                                                                *)
NothingLost ==
  source.kind = "tokens" =>
    /\ pc = "idle" /\ ~Failed =>
         Squeeze(FlattenSeq([i \in DOMAIN results |-> Short(results[i])]))
           = Squeeze(SubSeq(source.text, 1, Len(source.text) - Len(text)))
    /\ Failed => Unbalanced \/ QuotesNothing
    /\ Ended /\ Unbalanced => Failed

OpenLists == Cardinality({i \in DOMAIN stack : stack[i].fn \in Lists /\ stack[i].items # <<>>})

(* Every list that is being read has a guard; without errors and dotted    *)
(* lists there is no other, and none is left when the reader returns.      *)
ListsGuarded ==
  /\ OpenLists <= guards
  /\ ~Failed /\ (\A i \in DOMAIN source.text : source.text[i] # ".") => guards = OpenLists

(* Every call of navi_read ends: comments, blanks and nesting all end. *)
ReadsReturn == pc = "navi_read" ~> pc = "idle"
=============================================================================

------------------------------ MODULE MCReader ------------------------------
(***************************************************************************)
(* Reader for TLC: objects that were written, with gaps of every kind      *)
(* between the tokens; all short texts of plain tokens; and texts with     *)
(* errors.                                                                 *)
(***************************************************************************)
EXTENDS Reader

a == Sym(<<"a">>)
Atom ==
  { a, Sym(<<".", "a">>), Sym(<<"-">>), Sym(<<"w">>), Num(-12), Num(255), Bool(TRUE), Bool(FALSE),
    Chr("a"), Chr(" "), Chr("("), Str(<<>>), Str(<<"a", "\"">>), Nil,
    Bytes(<<>>), Bytes(<<Num(1), Num(255)>>), Vec(<<>>) }

Few == { a, Num(-12), Pair(a, Num(1)), ListOf(<<a, Nil>>, Nil), Vec(<<a>>), Wrap(Quote, a), Wrap(Splice, a) }

Made ==
  Atom \cup { Pair(d, e) : d \in Few, e \in Atom } \cup { Vec(<<d, e>>) : d \in Atom, e \in Few }
       \cup { ListOf(<<d, e, a>>, Nil) : d \in Few, e \in Few }

Gap ==
  { <<>>, <<" ", "\n">>, <<";", "(", "\n">>, <<"#", ";", "a", " ">>,
    <<"#", ";", "(", "a", ".", " ", "a", ")">>, <<"#", "|", "|", "a", "|", "#">>,
    <<"#", "!", "\n">>, <<"#", "!">> \o NoFoldCase \o <<" ">>, <<"#", "/", ")", "\n">> }

From1(t, ds, k) == [text |-> t, data |-> ds, kind |-> k]

Written ==
  { From1(Display(d, [gap |-> g, short |-> FALSE]), <<d>>, "written") : d \in Made, g \in Gap }
    \cup { From1(Display(Wrap(Quote, d), [gap |-> g, short |-> TRUE]) \o <<" ">> \o Display(e, Plain),
                 <<Wrap(Quote, d), e>>, "written") : d \in Few, e \in Few, g \in Gap }

Piece == { <<"(">>, <<")">>, <<"a">>, <<"1">>, <<" ">>, <<"'">>, <<"#", "(">> }
MaxPieces == 4
Tokens ==
  { From1(FlattenSeq(s), <<>>, "tokens") : s \in UNION {[1 .. n -> Piece] : n \in 0 .. MaxPieces} }

Others ==
  { <<"+", "1">>, <<"backquote", "a">>, <<",", "a">>, <<",">>, <<",", "@", "a">>,
    <<"|", "A", " ", "|">>, <<"|", "a">>, <<"#", "b", "1", "0", "1">>, <<"#", "o", "-", "7">>,
    <<"#", "x", "f", "f">>, <<"#", "!", "/", "a", " ", "b", "\n", "a">>, <<"#", "!", "/", "a">>,
    <<"#", "!", "e", "o", "f">>, <<"#", "!", "a">>, <<"#", "!">> \o FoldCase \o <<" ", "A", "a">>,
    <<"#", "#", "x">>, <<"#", "#", "a">>, <<"#", "#", "1">>, <<"#">>, <<"#", "a">>,
    <<"#", "f", "a", "l", "s", "e", "y">>, <<"#", "t", "r">>, <<"#", "\\", "a", "a">>,
    <<"#", "|", "|", "|", "#">>, <<"#", "/", "a">>, <<"#", "u", "8", "(", "a", ")">>, <<"#", "u", "8", "(", "2", "5", "6", ")">>, <<"#", "u", "8">>,
    <<"#", "u", "a">>, <<"(", "a", " ", ".", " ", "a", " ", "a", ")">>, <<"(", ".">>, <<"(", "a", ".">>,
    <<"(", "a", " ", ".", " ", "a", ";", ")">>, <<"#", "(", "a", " ", ".", " ", "a", ")">>,
    <<"(", "#", "!", "e", "o", "f", " ", "'", ")">>, <<"(", "'", "#", "!", "e", "o", "f">>,
    <<"\"", "\\", "n", "\\", "\\", "\"">>, <<"\"", "\\", "\n", " ", "\"">>, <<"\"", "\\", "(">>,
    <<"\"", "a">>, <<"#", ";">>, <<"'">>, <<"(", "a", " ", ".", " ", "#", ";", "a", " ", "a", ")">> }

MCSource == Written \cup Tokens \cup { From1(t, <<>>, "other") : t \in Others }

MCNarrowed == [c \in {"w"} |-> ")"]
MCInternal == { <<"x">> }
=============================================================================

--------------------------- MODULE MutableStrings ---------------------------
(***************************************************************************)
(* Strings as R7RS has them: sequences of characters that procedures make, *)
(* change in place and look into by the number of a character.  An index   *)
(* or a range that is not there is refused, and the string then stays as   *)
(* it was.                                                                 *)
(***************************************************************************)
EXTENDS Integers, Sequences, SequencesExt

CONSTANT Narrow      \* characters of one byte

VARIABLES
  contents,   \* name -> its characters
  call        \* the last call: its procedure, arguments and result

(* A range without an end, which is -1 here, goes to the end of the string. *)
To(c, cs) == IF c.end = -1 THEN Len(cs) ELSE c.end
Part(c, cs) == SubSeq(cs, c.start + 1, To(c, cs))
HasRange(c, cs) == 0 <= c.start /\ c.start <= To(c, cs) /\ To(c, cs) <= Len(cs)
HasPlace(c, cs) == c.at \in 0..Len(cs) - 1

Target(c) == contents[c.n]
Source(c) == contents[c.from[1]]
Room(c) == c.at >= 0 /\ c.at + To(c, Source(c)) - c.start <= Len(Target(c))

(* cs with the characters from the number i on replaced by new *)
Overwrite(cs, i, new) ==
  [k \in DOMAIN cs |-> IF k > i /\ k <= i + Len(new) THEN new[k - i] ELSE cs[k]]
Repeat(ch, n) == [k \in 1..n |-> ch]

Valid(c) ==
  CASE c.op = "make" -> c.at >= 0
    [] c.op \in {"set", "ref"} -> HasPlace(c, Target(c))
    [] c.op = "fill" -> HasRange(c, Target(c))
    [] c.op \in {"copy", "utf8"} -> HasRange(c, Source(c))
    [] c.op = "copy!" -> HasRange(c, Source(c)) /\ Room(c)
    [] OTHER -> TRUE

(* What a call makes of the string it names *)
Meaning(c) ==
  CASE c.op \in {"list", "literal"} -> c.cs
    [] c.op = "make" -> Repeat(c.cs[1], c.at)
    [] c.op = "append" -> FlattenSeq([i \in DOMAIN c.from |-> contents[c.from[i]]])
    [] c.op \in {"dup", "vector"} -> Source(c)
    [] c.op = "write" -> Append(Target(c), c.cs[1])
    [] c.op \in {"copy", "utf8"} -> Part(c, Source(c))
    [] c.op = "set" -> Overwrite(Target(c), c.at, <<c.cs[1]>>)
    [] c.op = "fill" -> Overwrite(Target(c), c.start, Repeat(c.cs[1], To(c, Target(c)) - c.start))
    [] c.op = "copy!" -> Overwrite(Target(c), c.at, Part(c, Source(c)))
    [] OTHER -> Target(c)

(* What it answers *)
Answers(c) ==
  CASE c.op = "ref" -> c.cs = <<Target(c)[c.at + 1]>>
    [] c.op = "equal" -> c.at = IF Target(c) = Source(c) THEN 1 ELSE 0
    [] OTHER -> TRUE

(* The procedures also refuse the empty range at the end of a string, and  *)
(* ranges without an end in strings with wide characters.                  *)
Ranged(c) == IF c.op = "fill" THEN Target(c) ELSE Source(c)
MayRefuse(c) ==
  /\ c.op \in {"fill", "copy", "copy!", "utf8"}
  /\ \/ c.start = Len(Ranged(c))
     \/ c.op = "copy!" /\ c.at = Len(Target(c))
     \/ To(c, Ranged(c)) = c.start
     \/ c.op # "utf8" /\ c.end = -1 /\ ~ ToSet(Ranged(c)) \subseteq Narrow

Do(c) == c.result = "ok" /\ Valid(c) /\ Answers(c) /\ contents' = [contents EXCEPT ![c.n] = Meaning(c)]
Refuse(c) == c.result = "refused" /\ (Valid(c) => MayRefuse(c)) /\ UNCHANGED contents

Init == \A n \in DOMAIN contents : contents[n] = <<>>
Next == Do(call') \/ Refuse(call')
Spec == Init /\ [][Next]_<<contents, call>>
=============================================================================

----------------------------- MODULE CharStream -----------------------------
(***************************************************************************)
(* What ports promise of a file: it takes units until it is opened for     *)
(* input, and then gives them out in that order.  Peeking at the next one  *)
(* does not use it up; at the end the answer is eof, however often one     *)
(* asks; once closed it gives out nothing.  What cannot be decoded is an   *)
(* error, once.                                                            *)
(***************************************************************************)
EXTENDS Naturals, Sequences

CONSTANTS
  Eof, Error, Done,   \* answers
  Yes, No,            \* answers to input-port-open?
  Bad                 \* in the place of what cannot be decoded

VARIABLES
  unread,   \* the units not given out yet
  state,    \* "written", "read" or "closed"
  answer    \* of the last call

Write ==
  /\ state = "written" /\ UNCHANGED <<state, answer>>
  /\ Len(unread) <= Len(unread') /\ unread = SubSeq(unread', 1, Len(unread))

OpenIt == state = "written" /\ state' = "read" /\ answer' = Done /\ UNCHANGED unread

Refuse == state = "closed" /\ answer' = Error /\ UNCHANGED <<unread, state>>

Reading == state = "read" /\ UNCHANGED state

AtEnd == Reading /\ unread = <<>> /\ answer' = Eof /\ UNCHANGED unread

Discard ==
  /\ Reading /\ unread # <<>> /\ Head(unread) = Bad
  /\ answer' = Error /\ unread' = Tail(unread)

Peek ==
  /\ Reading /\ unread # <<>> /\ Head(unread) # Bad
  /\ answer' = Head(unread) /\ UNCHANGED unread

Read ==
  /\ Reading /\ unread # <<>> /\ Head(unread) # Bad
  /\ answer' = Head(unread) /\ unread' = Tail(unread)

Ask ==
  /\ state # "written" /\ answer' = (IF state = "closed" THEN No ELSE Yes)
  /\ UNCHANGED <<unread, state>>

Close == state # "written" /\ state' = "closed" /\ answer' = Done /\ UNCHANGED unread

Next == Write \/ OpenIt \/ Refuse \/ AtEnd \/ Discard \/ Peek \/ Read \/ Ask \/ Close

Spec == state = "written" /\ [][Next]_<<unread, state, answer>>
=============================================================================

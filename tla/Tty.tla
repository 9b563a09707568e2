--------------------------------- MODULE Tty ---------------------------------
(***************************************************************************)
(* What a line-edited terminal promises its readers: characters that are   *)
(* typed may still be erased, one or the whole line, until the line ends;  *)
(* from then on they are read once each, in the order they were typed.     *)
(***************************************************************************)
EXTENDS Naturals, Sequences

CONSTANTS Chars, Enders, Size

VARIABLES
  line,    \* typed, may still be erased
  ready    \* for the readers

Room == Len(line) + Len(ready) < Size

Init == line = <<>> /\ ready = <<>>

Type(c) ==
  /\ Room
  /\ LET new == Append(line, c)
         ends == c \in Enders \/ Len(new) + Len(ready) = Size
     IN IF ends THEN line' = <<>> /\ ready' = ready \o new
        ELSE line' = new /\ UNCHANGED ready

Erase ==
  /\ line # <<>>
  /\ line' = SubSeq(line, 1, Len(line) - 1)
  /\ UNCHANGED ready

Read ==
  /\ ready # <<>>
  /\ ready' = Tail(ready)
  /\ UNCHANGED line

Next == (\E c \in Chars : Type(c)) \/ Erase \/ Read

Spec == Init /\ [][Next]_<<line, ready>>
=============================================================================

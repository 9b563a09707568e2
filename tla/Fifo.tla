-------------------------------- MODULE Fifo --------------------------------
(* What a pipe promises: a bounded queue of bytes, each delivered once and  *)
(* in the order in which they were put.                                     *)
EXTENDS Sequences, Naturals

CONSTANTS Bytes, Size, Readers
VARIABLES q,      \* the bytes in the pipe
          got     \* by reader: the last byte delivered to it

Init == q = <<>> /\ got \in [Readers -> Bytes]

Put(b) == /\ Len(q) < Size
          /\ q' = Append(q, b)
          /\ UNCHANGED got

Get(r) == /\ q # <<>>
          /\ got' = [got EXCEPT ![r] = Head(q)]
          /\ q' = Tail(q)

Next == (\E b \in Bytes : Put(b)) \/ (\E r \in Readers : Get(r))

Spec == Init /\ [][Next]_<<q, got>>
=============================================================================

------------------------------ MODULE ByteFile ------------------------------
(***************************************************************************)
(* Files as a program sees them: sequences of bytes.  A write replaces or  *)
(* appends a run of its own bytes in one file, and leaves every other byte *)
(* of every file alone; only truncation takes bytes away.                  *)
(***************************************************************************)
EXTENDS Naturals, Sequences

CONSTANTS
  Names,    \* the files
  Bytes,    \* what a writer writes; one writer's bytes are equal
  MaxBytes  \* the longest file

VARIABLE content

Put(s, off, n, b) ==
  [k \in 1..(IF off + n > Len(s) THEN off + n ELSE Len(s)) |->
     IF k > off /\ k <= off + n THEN b ELSE s[k]]

Init == \A f \in Names : content[f] = << >>

Write(f, b, off, n) ==
  /\ off <= Len(content[f]) /\ off + n <= MaxBytes
  /\ content' = [content EXCEPT ![f] = Put(@, off, n, b)]

Truncate(f) == content' = [content EXCEPT ![f] = << >>]

Next ==
  \E f \in Names :
    \/ Truncate(f)
    \/ \E b \in Bytes, off \in 0..MaxBytes : \E n \in 1..MaxBytes - off : Write(f, b, off, n)

Spec == Init /\ [][Next]_content
=============================================================================

---------------------------- MODULE FileIoProofs ----------------------------
(***************************************************************************)
(* Proofs about FileIo, for any number of processes, files and blocks, of  *)
(* any size, and any workload: first the console behind the descriptors,   *)
(* of module Console; then the tables, blocks and contents of files.       *)
(***************************************************************************)
EXTENDS FileIo, FiniteSetTheorems, WellFoundedInduction, SequenceTheorems, TLAPS

-----------------------------------------------------------------------------
\* Arithmetic of the ring that console.c addresses with unsigned ints: what is needed of %.

\* quotient and remainder
LEMMA DivMod ==
    ASSUME NEW a \in Int, NEW m \in Nat \ {0}
    PROVE  a \div m \in Int /\ a % m \in 0..(m - 1) /\ a = m * (a \div m) + (a % m)
  OBVIOUS

\* a remainder is the only one
LEMMA ModUnique ==
    ASSUME NEW m \in Nat \ {0}, NEW k \in Int, NEW c \in 0..(m - 1)
    PROVE  (m * k + c) % m = c
  <1> DEFINE a == m * k + c
             d == k - a \div m
  <1>1. a \in Int /\ a \div m \in Int /\ d \in Int /\ a % m \in 0..(m-1) /\ a = m * (a \div m) + (a % m)
    BY DivMod
  <1>2. m * d = (a % m) - c
    BY <1>1
  <1>3. d > 0 => m * d >= m
    BY <1>1
  <1>4. d < 0 => m * d <= 0 - m
    BY <1>1
  <1>5. d = 0
    BY <1>1, <1>2, <1>3, <1>4
  <1> QED
    BY <1>1, <1>2, <1>5

\* adding a multiple
LEMMA ModShift ==
    ASSUME NEW m \in Nat \ {0}, NEW k \in Int, NEW a \in Int
    PROVE  (a + m * k) % m = a % m
  <1>1. a \div m \in Int /\ a % m \in 0..(m - 1) /\ a = m * (a \div m) + (a % m)
    BY DivMod
  <1>2. (a \div m) + k \in Int /\ a + m * k = m * ((a \div m) + k) + (a % m)
    BY <1>1
  <1>3. (m * ((a \div m) + k) + (a % m)) % m = a % m
    BY <1>1, <1>2, ModUnique
  <1> QED
    BY <1>2, <1>3

\* numbers less than a modulus away
LEMMA ModSmall ==
    ASSUME NEW m \in Nat \ {0}, NEW a \in Int
    PROVE  /\ a \in 0..(m - 1) => a % m = a
           /\ a \in m..(2 * m - 1) => a % m = a - m
           /\ a \in -m..-1 => a % m = a + m
  <1>1. ASSUME a \in 0..(m - 1) PROVE a % m = a
    BY <1>1, ModUnique
  <1>2. ASSUME a \in m..(2 * m - 1) PROVE a % m = a - m
    <2>1. a - m \in 0..(m - 1) /\ a = (a - m) + m * 1
      BY <1>2
    <2>2. (a - m) % m = a - m
      BY <2>1, ModUnique
    <2>3. ((a - m) + m * 1) % m = (a - m) % m
      BY <2>1, ModShift
    <2> QED
      BY <2>1, <2>2, <2>3
  <1>3. ASSUME a \in -m..-1 PROVE a % m = a + m
    <2>1. a + m \in 0..(m - 1) /\ a = (a + m) + m * (-1)
      BY <1>3
    <2>2. (a + m) % m = a + m /\ ((a + m) + m * (-1)) % m = (a + m) % m
      BY <2>1, ModUnique, ModShift
    <2> QED
      BY <2>1, <2>2
  <1> QED
    BY <1>1, <1>2, <1>3

\* numbers that are closer than the modulus differ by it
LEMMA ModDistinct ==
    ASSUME NEW m \in Nat \ {0}, NEW a \in Int, NEW b \in Int, 0 < b - a, b - a < m
    PROVE  a % m # b % m
  <1> SUFFICES ASSUME a % m = b % m PROVE FALSE
    OBVIOUS
  <1> DEFINE d == (b \div m) - (a \div m)
  <1>1. d \in Int /\ b - a = m * d
    BY DivMod
  <1>2. d > 0 => m * d >= m
    BY <1>1
  <1>3. d <= 0 => m * d <= 0
    BY <1>1
  <1> QED
    BY <1>1, <1>2, <1>3

\* sum and difference of two indices
LEMMA RingArith ==
    ASSUME NEW m \in Nat \ {0}, NEW a \in 0..(m - 1), NEW b \in 0..(m - 1)
    PROVE  /\ (b - a) % m = IF b >= a THEN b - a ELSE b - a + m
           /\ (a + b) % m = IF a + b < m THEN a + b ELSE a + b - m
  <1>1. a + b \in Int /\ b - a \in Int
    OBVIOUS
  <1>2. \/ b - a \in 0..(m - 1) /\ b >= a
        \/ b - a \in -m..-1 /\ ~(b >= a)
    OBVIOUS
  <1>3. \/ a + b \in 0..(m - 1) /\ a + b < m
        \/ a + b \in m..(2 * m - 1) /\ ~(a + b < m)
    OBVIOUS
  <1>4. (b - a) % m = IF b >= a THEN b - a ELSE b - a + m
    <2>1. ASSUME b - a \in 0..(m - 1) PROVE (b - a) % m = b - a
      BY <1>1, <2>1, ModSmall
    <2>2. ASSUME b - a \in -m..-1 PROVE (b - a) % m = b - a + m
      BY <1>1, <2>2, ModSmall
    <2> QED
      BY <1>2, <2>1, <2>2
  <1>5. (a + b) % m = IF a + b < m THEN a + b ELSE a + b - m
    <2>1. ASSUME a + b \in 0..(m - 1) PROVE (a + b) % m = a + b
      BY <1>1, <2>1, ModSmall
    <2>2. ASSUME a + b \in m..(2 * m - 1) PROVE (a + b) % m = a + b - m
      <3>1. PICK c \in Int : c = a + b
        BY <1>1
      <3>2. c % m = c - m
        BY <2>2, <3>1, ModSmall
      <3> QED
        BY <3>1, <3>2
    <2> QED
      BY <1>3, <2>1, <2>2
  <1> QED
    BY <1>4, <1>5
-----------------------------------------------------------------------------
(* The inductive invariant *)

Sending == {"send", "status", "put", "txsleep", "txasleep"}
PCs == {"idle", "read", "unlock", "sleep", "asleep", "batch"} \cup Sending
Places == {"idle", "status", "next", "switch", "echo", "put", "store", "done"}

ProcType ==
    /\ state \in [Con!Procs -> {"RUNNABLE", "SLEEPING"}]
    /\ chan \in [Con!Procs -> {Con!NoChan, Con!ConsR, Con!TxChan}]
    /\ pc \in [Con!Procs -> PCs]
    /\ left \in [Con!Procs -> 0..MaxLen] /\ asked \in [Con!Procs -> 0..MaxLen]

UartType ==
    /\ rx \in Seq(Keys)
    /\ tx \in Nat /\ irq \in BOOLEAN
    /\ intr \in [at : Places, c : Keys \cup {"none"}]

WorkInv == work \in Workloads

\* what the readers may have, and what there is with the line that is edited
Ready == (w - r) % Wrap
IndexType ==
    /\ r \in 0..Wrap - 1 /\ w \in 0..Wrap - 1 /\ e \in 0..Wrap - 1
    /\ Ready <= Con!Held /\ Con!Held <= INPUT_BUF_SIZE
    /\ buf \in [0..INPUT_BUF_SIZE - 1 -> Keys \cup {"nl"}]

\* a batch is part of what is left to write, and somebody who looks at the
\* transmitter has a character for it
BatchInv == \A p \in Con!Procs :
    /\ pc[p] \in Sending => asked[p] <= left[p]
    /\ pc[p] \in Sending \ {"send"} => asked[p] > 0

\* one process sends
TxLockInv == \A p \in Con!Procs : pc[p] \in Sending => txlock = p

\* each of the two that may write to the transmitter has found it idle
TxInv ==
    /\ tx <= 2
    /\ intr.at = "put" => tx <= 1
    /\ \A p \in Con!Procs : pc[p] = "put" => tx <= 1 /\ (intr.at = "put" => tx = 0)

\* a character that is echoed and stored has room
RoomInv ==
    /\ intr.at \in {"switch", "echo", "put", "store"} => intr.c \in Keys
    /\ intr.at \in {"echo", "put", "store"} /\ Con!Typed(intr.c) => Con!Held < INPUT_BUF_SIZE
    /\ intr.at = "store" => Con!Typed(intr.c)

\* a process sleeps where it has registered, and nowhere else
Waiting == {"unlock", "sleep", "asleep"}
SleepInv == \A p \in Con!Procs :
    /\ pc[p] \in Waiting => chan[p] \in {Con!NoChan, Con!ConsR}
    /\ pc[p] \in {"status", "txsleep", "txasleep"} => chan[p] \in {Con!NoChan, Con!TxChan}
    /\ state[p] = "SLEEPING" => \/ pc[p] = "asleep" /\ chan[p] = Con!ConsR
                                \/ pc[p] = "txasleep" /\ chan[p] = Con!TxChan

\* a reader that is registered waits for a line
ReaderInv == \A p \in Con!Procs : pc[p] \in Waiting /\ chan[p] = Con!ConsR => r = w

\* a sender that is registered waits for characters that go out, or for the
\* interrupt that says so
WriterInv == \A p \in Con!Procs :
    pc[p] \in {"txsleep", "txasleep"} /\ chan[p] = Con!TxChan =>
      tx > 0 \/ irq \/ intr.at = "status"

ConsoleCall == ProcType /\ UartType /\ WorkInv /\ BatchInv /\ TxLockInv /\ TxInv
ConsoleInv == ConsoleCall /\ IndexType /\ RoomInv /\ SleepInv /\ ReaderInv /\ WriterInv

-----------------------------------------------------------------------------
(* The ring *)

\* three indices in a row, at most a buffer apart
LEMMA InARow ==
    ASSUME NEW x \in 0..(Wrap - 1), NEW y \in 0..(Wrap - 1), NEW z \in 0..(Wrap - 1),
           (y - x) % Wrap <= (z - x) % Wrap, (z - x) % Wrap <= INPUT_BUF_SIZE
    PROVE  LET m == (y - x) % Wrap
               n == (z - x) % Wrap
           IN  /\ m \in 0..INPUT_BUF_SIZE /\ n \in 0..INPUT_BUF_SIZE
               /\ x # y <=> m > 0
               /\ z # y <=> m < n
               /\ (z - y) % Wrap = n - m
               /\ y = x + m \/ y = (x + m) - Wrap
               /\ z = x + n \/ z = (x + n) - Wrap
               /\ z = y + (n - m) \/ z = y + (n - m) - Wrap
  <1>1. Wrap \in Nat \ {0} /\ INPUT_BUF_SIZE \in 0..(Wrap - 1)
    BY BufAssumption
  <1>2. /\ (y - x) % Wrap = IF y >= x THEN y - x ELSE y - x + Wrap
        /\ (z - x) % Wrap = IF z >= x THEN z - x ELSE z - x + Wrap
        /\ (z - y) % Wrap = IF z >= y THEN z - y ELSE z - y + Wrap
    BY <1>1, RingArith
  <1> QED
    BY <1>1, <1>2

\* where the three indices are, seen from r
LEMMA IndexFacts ==
    ASSUME IndexType
    PROVE  /\ Ready \in 0..INPUT_BUF_SIZE /\ Con!Held \in 0..INPUT_BUF_SIZE
           /\ r # w <=> Ready > 0
           /\ e # w <=> Ready < Con!Held
           /\ (e - w) % Wrap = Con!Held - Ready
           /\ w = r + Ready \/ w = (r + Ready) - Wrap
           /\ e = r + Con!Held \/ e = (r + Con!Held) - Wrap
           /\ e = w + (Con!Held - Ready) \/ e = w + (Con!Held - Ready) - Wrap
  BY InARow DEF IndexType, Ready, Con!Held

\* the same as numbers to calculate with
LEMMA RingFacts ==
    ASSUME IndexType
    PROVE  /\ r \in 0..Wrap - 1 /\ w \in 0..Wrap - 1 /\ e \in 0..Wrap - 1
           /\ r \in Int /\ w \in Int /\ e \in Int /\ Wrap \in Int
           /\ Ready \in Int /\ Con!Held \in Int /\ INPUT_BUF_SIZE \in Int
           /\ 0 <= Ready /\ Ready <= Con!Held /\ Con!Held <= INPUT_BUF_SIZE
           /\ r # w => Ready > 0
           /\ e # w => Ready < Con!Held
           /\ buf \in [0..INPUT_BUF_SIZE - 1 -> Keys \cup {"nl"}]
  <1>1. INPUT_BUF_SIZE \in Int /\ Wrap \in Int
    BY BufAssumption
  <1>2. Ready \in 0..INPUT_BUF_SIZE /\ Con!Held \in 0..INPUT_BUF_SIZE
        /\ (r # w <=> Ready > 0) /\ (e # w <=> Ready < Con!Held)
    BY IndexFacts
  <1> QED
    BY <1>1, <1>2 DEF IndexType

\* cons.r++, cons.e-- and cons.e++
LEMMA Moves ==
    ASSUME IndexType
    PROVE  /\ r' = (r + 1) % Wrap /\ w' = w /\ e' = e /\ r # w =>
                r' \in 0..(Wrap - 1) /\ Ready' = Ready - 1 /\ Con!Held' = Con!Held - 1
           /\ r' = r /\ w' = w /\ e' = Con!Minus(e) /\ e # w =>
                e' \in 0..(Wrap - 1) /\ Ready' = Ready /\ Con!Held' = Con!Held - 1
           /\ r' = r /\ e' = (e + 1) % Wrap /\ Con!Held < INPUT_BUF_SIZE =>
                /\ e' \in 0..(Wrap - 1) /\ Con!Held' = Con!Held + 1
                /\ w' = w => Ready' = Ready
                /\ w' = e' => Ready' = Con!Held + 1
  <1>1. /\ Wrap \in Nat \ {0} /\ INPUT_BUF_SIZE \in 0..(Wrap - 1)
        /\ 1 \in 0..(Wrap - 1) /\ Wrap - 1 \in 0..(Wrap - 1)
        /\ r \in 0..(Wrap - 1) /\ w \in 0..(Wrap - 1) /\ e \in 0..(Wrap - 1)
    BY BufAssumption DEF IndexType
  <1>2. /\ Ready = IF w >= r THEN w - r ELSE w - r + Wrap
        /\ Con!Held = IF e >= r THEN e - r ELSE e - r + Wrap
    BY <1>1, RingArith DEF Ready, Con!Held
  <1>3. /\ (r + 1) % Wrap = IF r + 1 < Wrap THEN r + 1 ELSE 0
        /\ (e + 1) % Wrap = IF e + 1 < Wrap THEN e + 1 ELSE 0
    <2>1. /\ (r + 1) % Wrap = IF r + 1 < Wrap THEN r + 1 ELSE r + 1 - Wrap
          /\ (e + 1) % Wrap = IF e + 1 < Wrap THEN e + 1 ELSE e + 1 - Wrap
      BY <1>1, RingArith
    <2> QED
      BY <1>1, <2>1
  <1>4. Con!Minus(e) = IF e > 0 THEN e - 1 ELSE Wrap - 1
    <2>1. (e + (Wrap - 1)) % Wrap = IF e + (Wrap - 1) < Wrap THEN e + (Wrap - 1)
                                    ELSE e + (Wrap - 1) - Wrap
      BY <1>1, RingArith
    <2>2. e + Wrap - 1 = e + (Wrap - 1)
      BY <1>1
    <2> QED
      BY <1>1, <2>1, <2>2 DEF Con!Minus
  <1>5. ASSUME r' \in 0..(Wrap - 1), w' \in 0..(Wrap - 1), e' \in 0..(Wrap - 1)
        PROVE  /\ Ready' = IF w' >= r' THEN w' - r' ELSE w' - r' + Wrap
               /\ Con!Held' = IF e' >= r' THEN e' - r' ELSE e' - r' + Wrap
    BY <1>1, <1>5, RingArith DEF Ready, Con!Held
  <1>6. ASSUME r' = (r + 1) % Wrap, w' = w, e' = e, r # w
        PROVE  r' \in 0..(Wrap - 1) /\ Ready' = Ready - 1 /\ Con!Held' = Con!Held - 1
    BY <1>1, <1>2, <1>3, <1>5, <1>6, IndexFacts
  <1>7. ASSUME r' = r, w' = w, e' = Con!Minus(e), e # w
        PROVE  e' \in 0..(Wrap - 1) /\ Ready' = Ready /\ Con!Held' = Con!Held - 1
    BY <1>1, <1>2, <1>4, <1>5, <1>7, IndexFacts
  <1>8. ASSUME r' = r, e' = (e + 1) % Wrap, Con!Held < INPUT_BUF_SIZE
        PROVE  /\ e' \in 0..(Wrap - 1) /\ Con!Held' = Con!Held + 1
               /\ w' = w => Ready' = Ready
               /\ w' = e' => Ready' = Con!Held + 1
    <2>1. e' \in 0..(Wrap - 1)
      BY <1>1, <1>3, <1>8
    <2>2. CASE w' = w
      BY <1>1, <1>2, <1>3, <1>5, <1>8, <2>1, <2>2
    <2>3. CASE w' = e'
      BY <1>1, <1>2, <1>3, <1>5, <1>8, <2>1, <2>3
    <2>4. Con!Held' = Con!Held + 1
      <3>1. Con!Held' = IF e' >= r' THEN e' - r' ELSE e' - r' + Wrap
        BY <1>1, <1>8, <2>1, RingArith DEF Con!Held
      <3> QED
        BY <1>1, <1>2, <1>3, <1>8, <3>1
    <2> QED
      BY <2>1, <2>2, <2>3, <2>4
  <1> QED
    BY <1>6, <1>7, <1>8

-----------------------------------------------------------------------------
(* What is in the ring *)

\* n characters from index a on
Cells(b, a, n) == [i \in 1..n |-> b[(a + i - 1) % INPUT_BUF_SIZE]]

\* a function on 1..n is a sequence
LEMMA SeqOf ==
    ASSUME NEW S, NEW n \in Nat, NEW f \in [1..n -> S]
    PROVE  f \in Seq(S) /\ Len(f) = n
  OBVIOUS

\* they are a sequence
LEMMA CellsSeq ==
    ASSUME NEW S, NEW b \in [0..INPUT_BUF_SIZE - 1 -> S], NEW a \in Int, NEW n \in Nat
    PROVE  Cells(b, a, n) \in Seq(S) /\ Len(Cells(b, a, n)) = n
  <1>1. ASSUME NEW i \in 1..n PROVE b[(a + i - 1) % INPUT_BUF_SIZE] \in S
    <2>1. a + i - 1 \in Int /\ INPUT_BUF_SIZE \in Nat \ {0}
      BY BufAssumption
    <2>2. (a + i - 1) % INPUT_BUF_SIZE \in 0..(INPUT_BUF_SIZE - 1)
      BY <2>1, DivMod
    <2> QED
      BY <2>2
  <1>2. Cells(b, a, n) \in [1..n -> S]
    BY <1>1 DEF Cells
  <1> QED
    BY <1>2, SeqOf

\* indices that differ by 2^32 name the same slot
LEMMA SameSlot ==
    ASSUME NEW a \in Int
    PROVE  (a - Wrap) % INPUT_BUF_SIZE = a % INPUT_BUF_SIZE
  <1>1. INPUT_BUF_SIZE \in Nat \ {0} /\ Wrap \in Int /\ Wrap % INPUT_BUF_SIZE = 0
    BY BufAssumption
  <1>2. PICK k \in Int : Wrap = INPUT_BUF_SIZE * k
    <2>1. /\ Wrap \div INPUT_BUF_SIZE \in Int
          /\ Wrap = INPUT_BUF_SIZE * (Wrap \div INPUT_BUF_SIZE) + (Wrap % INPUT_BUF_SIZE)
      BY <1>1, DivMod
    <2>2. Wrap = INPUT_BUF_SIZE * (Wrap \div INPUT_BUF_SIZE)
      BY <1>1, <2>1
    <2> QED
      BY <2>1, <2>2
  <1>3. -k \in Int /\ a - Wrap = a + INPUT_BUF_SIZE * (-k)
    BY <1>1, <1>2
  <1> QED
    BY <1>1, <1>3, ModShift

\* so may the first of them be named
LEMMA CellsWrap ==
    ASSUME NEW b, NEW a \in Int, NEW n \in Nat
    PROVE  Cells(b, a - Wrap, n) = Cells(b, a, n)
  <1>1. ASSUME NEW i \in 1..n
        PROVE  ((a - Wrap) + i - 1) % INPUT_BUF_SIZE = (a + i - 1) % INPUT_BUF_SIZE
    <2>1. a + i - 1 \in Int /\ (a - Wrap) + i - 1 = (a + i - 1) - Wrap
      BY BufAssumption
    <2> QED
      BY <2>1, SameSlot
  <1> QED
    BY <1>1 DEF Cells

\* one more at the back
LEMMA CellsAppend ==
    ASSUME NEW S, NEW b \in [0..INPUT_BUF_SIZE - 1 -> S], NEW a \in Int, NEW n \in Nat
    PROVE  Cells(b, a, n + 1) = Append(Cells(b, a, n), b[(a + n) % INPUT_BUF_SIZE])
  <1> DEFINE c == b[(a + n) % INPUT_BUF_SIZE]
             s == Cells(b, a, n)
             t == Cells(b, a, n + 1)
  <1>1. n + 1 \in Nat /\ n + 1 \in 1..(n + 1) /\ a + (n + 1) - 1 = a + n
    OBVIOUS
  <1>2. s \in Seq(S) /\ Len(s) = n
    BY CellsSeq
  <1>3. t \in Seq(S) /\ Len(t) = n + 1
    <2>1. n + 1 \in Nat
      OBVIOUS
    <2> QED
      BY <2>1, CellsSeq
  <1>4. /\ t[n + 1] = c
        /\ \A i \in 1..n : t[i] = s[i]
    BY <1>1 DEF Cells
  <1>5. c \in S
    BY <1>1, <1>3, <1>4
  <1> HIDE DEF s, t, c
  <1>6. /\ Append(s, c) \in Seq(S) /\ Len(Append(s, c)) = n + 1
        /\ \A i \in 1..n : Append(s, c)[i] = s[i]
        /\ Append(s, c)[n + 1] = c
    BY <1>2, <1>5, AppendProperties
  <1>7. t = Append(s, c)
    BY <1>3, <1>4, <1>6, SeqEqual
  <1> QED
    BY <1>7 DEF s, t, c

\* one less at the front
LEMMA CellsTail ==
    ASSUME NEW S, NEW b \in [0..INPUT_BUF_SIZE - 1 -> S], NEW a \in Int, NEW n \in Nat
    PROVE  /\ Cells(b, a, n + 1) # <<>>
           /\ Cells(b, a + 1, n) = Tail(Cells(b, a, n + 1))
  <1> DEFINE s == Cells(b, a + 1, n)
             t == Cells(b, a, n + 1)
  <1>1. n + 1 \in Nat /\ a + 1 \in Int
    OBVIOUS
  <1>2. s \in Seq(S) /\ Len(s) = n
    BY <1>1, CellsSeq
  <1>3. t \in Seq(S) /\ Len(t) = n + 1
    BY <1>1, CellsSeq
  <1>4. ASSUME NEW i \in 1..n PROVE s[i] = t[i + 1]
    <2>1. a + (i + 1) - 1 = (a + 1) + i - 1 /\ i + 1 \in 1..(n + 1)
      OBVIOUS
    <2> QED
      BY <2>1 DEF Cells
  <1> HIDE DEF s, t
  <1>5. t # <<>> /\ Tail(t) \in Seq(S) /\ Len(Tail(t)) = n
        /\ \A i \in 1..n : Tail(t)[i] = t[i + 1]
    BY <1>3, HeadTailProperties
  <1>6. s = Tail(t)
    BY <1>2, <1>4, <1>5, SeqEqual
  <1> QED
    BY <1>5, <1>6 DEF s, t

\* one less at the back
LEMMA CellsFront ==
    ASSUME NEW S, NEW b \in [0..INPUT_BUF_SIZE - 1 -> S], NEW a \in Int, NEW n \in Nat
    PROVE  /\ Cells(b, a, n + 1) # <<>>
           /\ Cells(b, a, n) = SubSeq(Cells(b, a, n + 1), 1, Len(Cells(b, a, n + 1)) - 1)
  <1> DEFINE s == Cells(b, a, n)
             t == Cells(b, a, n + 1)
  <1>1. n + 1 \in Nat
    OBVIOUS
  <1>2. s \in Seq(S) /\ Len(s) = n
    BY CellsSeq
  <1>3. t \in Seq(S) /\ Len(t) = n + 1
    BY <1>1, CellsSeq
  <1>4. \A i \in 1..n : s[i] = t[i]
    BY DEF Cells
  <1> HIDE DEF s, t
  <1>5. SubSeq(t, 1, n) \in Seq(S) /\ Len(SubSeq(t, 1, n)) = n
        /\ \A i \in 1..n : SubSeq(t, 1, n)[i] = t[i]
    BY <1>3
  <1>6. s = SubSeq(t, 1, n)
    BY <1>2, <1>4, <1>5, SeqEqual
  <1> QED
    BY <1>3, <1>6 DEF s, t

\* two pieces put together
LEMMA CellsJoin ==
    ASSUME NEW S, NEW b \in [0..INPUT_BUF_SIZE - 1 -> S], NEW a \in Int,
           NEW m \in Nat, NEW n \in Nat
    PROVE  Cells(b, a, m + n) = Cells(b, a, m) \o Cells(b, a + m, n)
  <1> DEFINE s == Cells(b, a, m)
             t == Cells(b, a + m, n)
             u == Cells(b, a, m + n)
  <1>1. m + n \in Nat /\ a + m \in Int
    OBVIOUS
  <1>2. s \in Seq(S) /\ Len(s) = m
    BY CellsSeq
  <1>3. t \in Seq(S) /\ Len(t) = n
    BY <1>1, CellsSeq
  <1>4. u \in Seq(S) /\ Len(u) = m + n
    BY <1>1, CellsSeq
  <1>5. ASSUME NEW i \in 1..(m + n)
        PROVE  u[i] = IF i <= m THEN s[i] ELSE t[i - m]
    <2>1. CASE i <= m
      BY <2>1 DEF Cells
    <2>2. CASE ~(i <= m)
      <3>1. i - m \in 1..n /\ (a + m) + (i - m) - 1 = a + i - 1
        BY <2>2
      <3> QED
        BY <2>2, <3>1 DEF Cells
    <2> QED
      BY <2>1, <2>2
  <1> HIDE DEF s, t, u
  <1>6. /\ s \o t \in Seq(S) /\ Len(s \o t) = m + n
        /\ \A i \in 1..(m + n) : (s \o t)[i] = IF i <= m THEN s[i] ELSE t[i - m]
    BY <1>2, <1>3, ConcatProperties
  <1>7. u = s \o t
    BY <1>4, <1>5, <1>6, SeqEqual
  <1> QED
    BY <1>7 DEF s, t, u

\* the same, with one more at the end
LEMMA CellsJoinNext ==
    ASSUME NEW S, NEW b \in [0..INPUT_BUF_SIZE - 1 -> S], NEW a \in Int,
           NEW m \in Nat, NEW n \in Nat
    PROVE  Cells(b, a, m + (n + 1)) = Cells(b, a, m) \o Cells(b, a + m, n + 1)
  <1>1. n + 1 \in Nat
    OBVIOUS
  <1> QED
    BY <1>1, CellsJoin

\* d is b with a character stored behind the m + n that begin at a
Puts(S, b, d, a, m, n, c) ==
    /\ b \in [0..INPUT_BUF_SIZE - 1 -> S] /\ d \in [0..INPUT_BUF_SIZE - 1 -> S]
    /\ a \in Int /\ m \in Nat /\ n \in Nat /\ m + n < INPUT_BUF_SIZE
    /\ d = [b EXCEPT ![(a + (m + n)) % INPUT_BUF_SIZE] = c]

\* the m and the n are as they were, and the character comes after them
Placed(b, d, a, m, n, c) ==
    /\ Cells(d, a, m) = Cells(b, a, m)
    /\ Cells(d, a + m, n + 1) = Append(Cells(b, a + m, n), c)
    /\ Cells(d, a, m + (n + 1)) = Cells(b, a, m) \o Append(Cells(b, a + m, n), c)

LEMMA CellsPut ==
    ASSUME NEW S, NEW b, NEW d, NEW a, NEW m, NEW n, NEW c,
           Puts(S, b, d, a, m, n, c)
    PROVE  Placed(b, d, a, m, n, c)
  <1>0. /\ d \in [0..INPUT_BUF_SIZE - 1 -> S] /\ a \in Int /\ m \in Nat /\ n \in Nat
        /\ m + n < INPUT_BUF_SIZE
    BY DEF Puts
  <1> DEFINE z == (a + (m + n)) % INPUT_BUF_SIZE
  <1>1. /\ INPUT_BUF_SIZE \in Nat \ {0} /\ a + m \in Int /\ n + 1 \in Nat
        /\ a + (m + n) \in Int /\ (a + m) + n = a + (m + n)
    BY <1>0, BufAssumption
  <1>2. ASSUME NEW i \in 1..(m + n)
        PROVE  /\ (a + i - 1) % INPUT_BUF_SIZE # z
               /\ (a + i - 1) % INPUT_BUF_SIZE \in 0..INPUT_BUF_SIZE - 1
    <2>1. /\ a + i - 1 \in Int
          /\ 0 < (a + (m + n)) - (a + i - 1) /\ (a + (m + n)) - (a + i - 1) < INPUT_BUF_SIZE
      BY <1>0, <1>1
    <2> QED
      BY <1>1, <2>1, ModDistinct, DivMod
  <1>3. Cells(d, a, m) = Cells(b, a, m)
    <2>1. ASSUME NEW i \in 1..m
          PROVE  d[(a + i - 1) % INPUT_BUF_SIZE] = b[(a + i - 1) % INPUT_BUF_SIZE]
      <3>1. i \in 1..(m + n)
        BY <1>0
      <3> QED
        BY <1>2, <3>1 DEF Puts
    <2> QED
      BY <2>1 DEF Cells
  <1>4. Cells(d, a + m, n) = Cells(b, a + m, n)
    <2>1. ASSUME NEW i \in 1..n
          PROVE  d[(a + m + i - 1) % INPUT_BUF_SIZE] = b[(a + m + i - 1) % INPUT_BUF_SIZE]
      <3>1. PICK j \in 1..(m + n) : j = m + i
        BY <1>0
      <3>2. a + m + i - 1 = a + j - 1
        BY <1>0, <3>1
      <3> QED
        BY <1>2, <3>2 DEF Puts
    <2> QED
      BY <2>1 DEF Cells
  <1>5. Cells(d, a + m, n + 1) = Append(Cells(b, a + m, n), c)
    <2>1. Cells(d, a + m, n + 1) = Append(Cells(d, a + m, n), d[((a + m) + n) % INPUT_BUF_SIZE])
      BY <1>0, <1>1, CellsAppend
    <2>2. z \in 0..INPUT_BUF_SIZE - 1
      BY <1>1, DivMod
    <2>3. d[z] = c
      BY <2>2 DEF Puts
    <2> QED
      BY <1>1, <1>4, <2>1, <2>3
  <1>6. Cells(d, a, m + (n + 1)) = Cells(d, a, m) \o Cells(d, a + m, n + 1)
    BY <1>0, CellsJoinNext, Zenon
  <1> QED
    BY <1>3, <1>5, <1>6 DEF Placed

-----------------------------------------------------------------------------
(* The line that is edited, and what has been handed over *)

Edited == Con!Window(w, e)
Handed == Con!Window(r, w)

\* both are pieces of the ring
LEMMA WindowCells ==
    /\ Handed = Cells(buf, r, Ready) /\ Edited = Cells(buf, w, (e - w) % Wrap)
    /\ Handed' = Cells(buf', r', Ready') /\ Edited' = Cells(buf', w', (e' - w') % Wrap)
  BY DEF Handed, Edited, Con!Window, Con!Slot, Cells, Ready

\* the three indices are still in a row after a step
LEMMA NextRow ==
    ASSUME IndexType'
    PROVE  (e' - w') % Wrap = Con!Held' - Ready'
  BY InARow DEF IndexType, Ready, Con!Held

\* consoleread() takes the first character that was handed over
LEMMA ReadTakes ==
    ASSUME IndexType, r' = (r + 1) % Wrap, r # w, UNCHANGED <<w, e, buf>>
    PROVE  Handed # <<>> /\ Handed' = Tail(Handed) /\ Edited' = Edited
  <1>1. /\ r \in Int /\ r + 1 \in Int /\ Wrap \in Int /\ Ready - 1 \in Nat
        /\ (Ready - 1) + 1 = Ready
        /\ buf \in [0..INPUT_BUF_SIZE - 1 -> Keys \cup {"nl"}]
    BY RingFacts
  <1>2. r' = r + 1 \/ r' = (r + 1) - Wrap
    <2>1. Wrap \in Nat \ {0} /\ r \in 0..(Wrap - 1) /\ 1 \in 0..(Wrap - 1)
      BY BufAssumption DEF IndexType
    <2> QED
      BY <2>1, RingArith
  <1>3. Cells(buf, r', Ready - 1) = Cells(buf, r + 1, Ready - 1)
    BY <1>1, <1>2, CellsWrap
  <1>4. Ready' = Ready - 1
    BY Moves
  <1>5. /\ Cells(buf, r, (Ready - 1) + 1) # <<>>
        /\ Cells(buf, r + 1, Ready - 1) = Tail(Cells(buf, r, (Ready - 1) + 1))
    BY <1>1, CellsTail
  <1> QED
    BY <1>1, <1>3, <1>4, <1>5, WindowCells

\* an eraser takes the last one of the line, and the line only
LEMMA EraseShortens ==
    ASSUME IndexType, IndexType', e' = Con!Minus(e), e # w, UNCHANGED <<r, w, buf>>
    PROVE  /\ Edited # <<>> /\ Edited' = SubSeq(Edited, 1, Len(Edited) - 1)
           /\ Handed' = Handed
  <1> DEFINE n == Con!Held - Ready - 1
  <1>1. /\ w \in Int /\ n \in Nat /\ n + 1 = Con!Held - Ready
        /\ buf \in [0..INPUT_BUF_SIZE - 1 -> Keys \cup {"nl"}]
    BY RingFacts
  <1>2. (e - w) % Wrap = n + 1 /\ (e' - w') % Wrap = n
    BY <1>1, Moves, IndexFacts, NextRow
  <1> HIDE DEF n
  <1>3. /\ Cells(buf, w, n + 1) # <<>>
        /\ Cells(buf, w, n) = SubSeq(Cells(buf, w, n + 1), 1, Len(Cells(buf, w, n + 1)) - 1)
    BY <1>1, CellsFront
  <1>4. Ready' = Ready
    BY DEF Ready
  <1> QED
    BY <1>2, <1>3, <1>4, WindowCells

\* a character is added to the line, which stays or is handed over as a whole
Stores(c) ==
    /\ c \in Keys /\ Con!Held < INPUT_BUF_SIZE
    /\ buf' = [buf EXCEPT ![Con!Slot(e)] = c] /\ e' = (e + 1) % Wrap /\ r' = r

LEMMA StoreAdds ==
    ASSUME IndexType, IndexType', NEW c, Stores(c)
    PROVE  /\ Len(Edited) \in Nat /\ Len(Handed) \in Nat /\ Len(Edited) + Len(Handed) = Con!Held
           /\ Len(Append(Edited, c)) = Len(Edited) + 1
           /\ w' = w => Edited' = Append(Edited, c) /\ Handed' = Handed
           /\ w' = e' => Edited' = <<>> /\ Handed' = Handed \o Append(Edited, c)
  <1> DEFINE S == Keys \cup {"nl"}
  <1>1. buf \in [0..INPUT_BUF_SIZE - 1 -> S] /\ buf' \in [0..INPUT_BUF_SIZE - 1 -> S]
    BY DEF IndexType
  <1> HIDE DEF S
  <1>2. PICK a \in Int, m \in Nat, n \in Nat : a = r /\ m = Ready /\ n = Con!Held - Ready
    BY RingFacts
  <1>3. /\ m + n = Con!Held /\ m + n < INPUT_BUF_SIZE /\ (e - w) % Wrap = n
        /\ w = a + m \/ w = (a + m) - Wrap
        /\ e = a + (m + n) \/ e = (a + (m + n)) - Wrap
    <2>1. m + n = Con!Held /\ m + n < INPUT_BUF_SIZE
      BY <1>2, RingFacts DEF Stores
    <2>2. (e - w) % Wrap = n
      BY <1>2, IndexFacts
    <2>3. w = a + m \/ w = (a + m) - Wrap
      BY <1>2, IndexFacts
    <2>4. e = a + (m + n) \/ e = (a + (m + n)) - Wrap
      BY <1>2, <2>1, IndexFacts
    <2> QED
      BY <2>1, <2>2, <2>3, <2>4
  <1>4. Con!Slot(e) = (a + (m + n)) % INPUT_BUF_SIZE
    <2>1. a + (m + n) \in Int
      OBVIOUS
    <2> QED
      BY <1>3, <2>1, SameSlot DEF Con!Slot
  <1>5. \A b, k : k \in Nat => Cells(b, w, k) = Cells(b, a + m, k)
    <2>1. a + m \in Int
      OBVIOUS
    <2> QED
      BY <1>3, <2>1, CellsWrap
  <1>6. Handed = Cells(buf, a, m) /\ Edited = Cells(buf, a + m, n)
    BY <1>2, <1>3, <1>5, WindowCells
  <1>7. Handed \in Seq(S) /\ Len(Handed) = m
    BY <1>1, <1>6, CellsSeq
  <1>8. Edited \in Seq(S) /\ Len(Edited) = n
    <2>1. a + m \in Int
      OBVIOUS
    <2> QED
      BY <1>1, <1>6, <2>1, CellsSeq
  <1>9. /\ Cells(buf', a, m) = Handed
        /\ Cells(buf', a + m, n + 1) = Append(Edited, c)
        /\ Cells(buf', a, m + (n + 1)) = Handed \o Append(Edited, c)
    <2>1. Puts(S, buf, buf', a, m, n, c)
      BY <1>1, <1>3, <1>4 DEF Puts, Stores
    <2>2. Placed(buf, buf', a, m, n, c)
      BY <2>1, CellsPut
    <2>3. /\ Cells(buf', a, m) = Cells(buf, a, m)
          /\ Cells(buf', a + m, n + 1) = Append(Cells(buf, a + m, n), c)
          /\ Cells(buf', a, m + (n + 1)) = Cells(buf, a, m) \o Append(Cells(buf, a + m, n), c)
      BY <2>2 DEF Placed
    <2> QED
      BY <1>6, <2>3
  <1>10. Len(Append(Edited, c)) = Len(Edited) + 1
    BY <1>8
  <1>11. ASSUME w' = w PROVE Edited' = Append(Edited, c) /\ Handed' = Handed
    <2>1. Ready' = m /\ (e' - w') % Wrap = n + 1
      BY <1>2, <1>3, <1>11, Moves, NextRow DEF Stores
    <2>2. n + 1 \in Nat
      OBVIOUS
    <2> QED
      BY <1>2, <1>5, <1>9, <1>11, <2>1, <2>2, WindowCells DEF Stores
  <1>12. ASSUME w' = e' PROVE Edited' = <<>> /\ Handed' = Handed \o Append(Edited, c)
    <2>1. Ready' = m + (n + 1) /\ (e' - w') % Wrap = 0
      BY <1>2, <1>3, <1>12, Moves, NextRow DEF Stores
    <2>2. Handed' = Handed \o Append(Edited, c)
      BY <1>2, <1>9, <2>1, WindowCells DEF Stores
    <2>3. Edited' = <<>>
      BY <2>1, WindowCells DEF Cells
    <2> QED
      BY <2>2, <2>3
  <1>13. Len(Edited) \in Nat /\ Len(Handed) \in Nat /\ Len(Edited) + Len(Handed) = Con!Held
    BY <1>3, <1>7, <1>8
  <1> QED
    BY <1>10, <1>11, <1>12, <1>13

\* a step is one of the terminal's, or leaves both alone
Refines ==
    \/ UNCHANGED <<Edited, Handed>>
    \/ \E c \in {k \in Keys : Con!Typed(k)} : Con!Line!Type(c)
    \/ Con!Line!Erase
    \/ Con!Line!Read

-----------------------------------------------------------------------------
(* The steps *)

\* no process has the number that means nobody
LEMMA SlotFacts == Con!Procs \subseteq Nat /\ \A p \in Con!Procs : p # 0
  BY SizeAssumption DEF Con!Procs

\* the channels differ
LEMMA ChanFacts == Con!NoChan # Con!ConsR /\ Con!NoChan # Con!TxChan /\ Con!ConsR # Con!TxChan
  BY DEF Con!NoChan, Con!ConsR, Con!TxChan

\* what belongs to a process keeps its type: no count falls below zero
LEMMA ProcTypeStep ==
    ASSUME ProcType, BatchInv, [Con!Next]_(Con!vars)
    PROVE  ProcType'
  <1> USE BufAssumption DEF ProcType, PCs, Sending, BatchInv
  <1>1. ASSUME NEW p \in Con!Procs, NEW n \in 0..MaxLen, Con!Read(p, n) \/ Con!Write(p, n)
       PROVE  ProcType'
    BY <1>1 DEF Con!Read, Con!Goto, Con!acquire, Con!sleepVars, Con!inVars, Con!uartVars, Con!Write
  <1>2. ASSUME NEW p \in Con!Procs, Con!consoleread(p) PROVE ProcType'
    BY <1>2 DEF Con!consoleread, Con!ReadKilled, Con!release, Con!Return, Con!Goto, Con!Reset,
           Con!sleepVars, Con!inVars, Con!uartVars, Con!ReadWait, Con!sleep_prepare, Con!Unlock, Con!sleep,
           Con!Sleep, Con!Relock, Con!acquire, Con!ReadEof, Con!ReadChar, Con!ReadDone
  <1>3. ASSUME NEW p \in Con!Procs, Con!consolewrite(p) PROVE ProcType'
    BY <1>3 DEF Con!consolewrite, Con!WriteDone, Con!Goto, Con!Reset, Con!sleepVars, Con!inVars,
           Con!uartVars, Con!Batch, Con!Prepare, Con!sleep_prepare, Con!Status, Con!Idle, Con!Put, Con!TxSleep,
           Con!sleep, Con!TxAwake, Con!BatchDone
  <1>4. ASSUME NEW p \in Con!Procs, Con!Kill(p) PROVE ProcType'
    BY <1>4 DEF Con!Kill, Con!kkill, Con!inVars, Con!uartVars, Con!procVars
  <1>5. CASE Con!uartintr
    BY <1>5 DEF Con!uartintr, Con!consoleintr, Con!Acknowledge, Con!Handler, Con!sleepVars, Con!inVars,
           Con!procVars, Con!WakeSender, Con!Idle, Con!wakeupAll, Con!uartVars, Con!NextChar, Con!acquire,
           Con!Ignore, Con!release, Con!Between, Con!Erase, Con!Echo, Con!EchoStatus, Con!EchoPut, Con!Store,
           Con!Ends, Con!CharDone
  <1>6. CASE Con!Device
    BY <1>6 DEF Con!Device, Con!Type, Con!sleepVars, Con!inVars, Con!procVars, Con!Transmit
  <1>7. CASE UNCHANGED Con!vars
    BY <1>7 DEF Con!vars, Con!sleepVars, Con!inVars, Con!uartVars, Con!procVars
  <1> QED
    BY <1>1, <1>2, <1>3, <1>4, <1>5, <1>6, <1>7 DEF Con!Next, Con!Steps, Con!Call, Con!Begin

\* so does what belongs to the uart and its handler
LEMMA UartTypeStep ==
    ASSUME UartType, WorkInv, [Con!Next]_(Con!vars)
    PROVE  UartType'
  <1> USE BufAssumption DEF UartType, Places, WorkInv
  <1>1. ASSUME NEW p \in Con!Procs, NEW n \in 0..MaxLen, Con!Read(p, n) \/ Con!Write(p, n)
       PROVE  UartType'
    BY <1>1 DEF Con!Read, Con!Goto, Con!acquire, Con!sleepVars, Con!inVars, Con!uartVars, Con!Write
  <1>2. ASSUME NEW p \in Con!Procs, Con!consoleread(p) PROVE UartType'
    BY <1>2 DEF Con!consoleread, Con!ReadKilled, Con!release, Con!Return, Con!Goto, Con!Reset,
           Con!sleepVars, Con!inVars, Con!uartVars, Con!ReadWait, Con!sleep_prepare, Con!Unlock, Con!sleep,
           Con!Sleep, Con!Relock, Con!acquire, Con!ReadEof, Con!ReadChar, Con!ReadDone
  <1>3. ASSUME NEW p \in Con!Procs, Con!consolewrite(p) PROVE UartType'
    BY <1>3 DEF Con!consolewrite, Con!WriteDone, Con!Goto, Con!Reset, Con!sleepVars, Con!inVars,
           Con!uartVars, Con!Batch, Con!Prepare, Con!sleep_prepare, Con!Status, Con!Idle, Con!Put, Con!TxSleep,
           Con!sleep, Con!TxAwake, Con!BatchDone
  <1>4. ASSUME NEW p \in Con!Procs, Con!Kill(p) PROVE UartType'
    BY <1>4 DEF Con!Kill, Con!kkill, Con!inVars, Con!uartVars, Con!procVars
  <1>5. CASE Con!uartintr
    <2>1. CASE Con!CharDone
      BY <2>1 DEF Con!CharDone, Con!release, Con!Between, Con!sleepVars, Con!inVars, Con!uartVars,
             Con!procVars
    <2>2. CASE Con!Acknowledge
      BY <2>2 DEF Con!Acknowledge, Con!Handler, Con!sleepVars, Con!inVars, Con!procVars
    <2>3. CASE Con!WakeSender
      BY <2>3 DEF Con!WakeSender, Con!Handler, Con!Idle, Con!wakeupAll, Con!sleepVars, Con!inVars,
             Con!uartVars, Con!procVars
    <2>4. CASE Con!NextChar
      <3>1. CASE rx = <<>>
        BY <2>4, <3>1 DEF Con!NextChar, Con!sleepVars, Con!inVars, Con!procVars
      <3>2. CASE rx # <<>>
        <4>1. Head(rx) \in Keys /\ Tail(rx) \in Seq(Keys)
          BY <3>2
        <4>2. /\ rx' = Tail(rx) /\ intr' = [at |-> "switch", c |-> Head(rx)]
              /\ UNCHANGED <<tx, irq>>
          BY <2>4, <3>2 DEF Con!NextChar
        <4> QED
          BY <4>1, <4>2
      <3> QED
        BY <3>1, <3>2
    <2>5. CASE Con!Ignore
      BY <2>5 DEF Con!Ignore, Con!release, Con!Between, Con!sleepVars, Con!inVars, Con!uartVars,
             Con!procVars
    <2>6. CASE Con!Erase
      BY <2>6 DEF Con!Erase, Con!Handler, Con!sleepVars, Con!uartVars, Con!procVars
    <2>7. CASE Con!Echo
      BY <2>7 DEF Con!Echo, Con!Handler, Con!sleepVars, Con!inVars, Con!uartVars, Con!procVars
    <2>8. CASE Con!EchoStatus
      BY <2>8 DEF Con!EchoStatus, Con!Handler, Con!Idle, Con!sleepVars, Con!inVars, Con!uartVars,
             Con!procVars
    <2>9. CASE Con!EchoPut
      BY <2>9 DEF Con!EchoPut, Con!Handler, Con!sleepVars, Con!inVars, Con!procVars
    <2>10. CASE Con!Store
      BY <2>10 DEF Con!Store, Con!Handler, Con!wakeupAll, Con!Ends, Con!sleepVars, Con!uartVars,
             Con!procVars
    <2> QED
      BY <1>5, <2>1, <2>2, <2>3, <2>4, <2>5, <2>6, <2>7, <2>8, <2>9, <2>10 DEF
             Con!uartintr, Con!consoleintr
  <1>6. CASE Con!Device
    <2>1. CASE Con!Type
      BY <2>1 DEF Con!Type, Con!sleepVars, Con!inVars, Con!procVars
    <2>2. CASE Con!Transmit
      BY <2>2 DEF Con!Transmit, Con!sleepVars, Con!inVars, Con!procVars
    <2> QED
      BY <1>6, <2>1, <2>2 DEF Con!Device
  <1>7. CASE UNCHANGED Con!vars
    BY <1>7 DEF Con!vars, Con!sleepVars, Con!inVars, Con!uartVars, Con!procVars
  <1> QED
    BY <1>1, <1>2, <1>3, <1>4, <1>5, <1>6, <1>7 DEF Con!Next, Con!Steps, Con!Call, Con!Begin

\* a character that is sent is taken off both counts
LEMMA BatchStep ==
    ASSUME ProcType, BatchInv, [Con!Next]_(Con!vars)
    PROVE  BatchInv'
  <1> USE BufAssumption DEF ProcType, PCs, Sending, BatchInv
  <1>1. ASSUME NEW p \in Con!Procs, NEW n \in 0..MaxLen, Con!Read(p, n) \/ Con!Write(p, n)
       PROVE  BatchInv'
    BY <1>1 DEF Con!Read, Con!Goto, Con!acquire, Con!sleepVars, Con!inVars, Con!uartVars, Con!Write
  <1>2. ASSUME NEW p \in Con!Procs, Con!consoleread(p) PROVE BatchInv'
    BY <1>2 DEF Con!consoleread, Con!ReadKilled, Con!release, Con!Return, Con!Goto, Con!Reset,
           Con!sleepVars, Con!inVars, Con!uartVars, Con!ReadWait, Con!sleep_prepare, Con!Unlock, Con!sleep,
           Con!Sleep, Con!Relock, Con!acquire, Con!ReadEof, Con!ReadChar, Con!ReadDone
  <1>3. ASSUME NEW p \in Con!Procs, Con!consolewrite(p) PROVE BatchInv'
    <2>1. CASE Con!WriteDone(p) \/ Con!Prepare(p) \/ Con!Status(p) \/ Con!TxSleep(p) \/
               Con!TxAwake(p) \/ Con!BatchDone(p)
      BY <2>1 DEF Con!WriteDone, Con!Goto, Con!Reset, Con!sleepVars, Con!inVars, Con!uartVars, Con!Prepare,
             Con!sleep_prepare, Con!Status, Con!Idle, Con!TxSleep, Con!sleep, Con!TxAwake, Con!BatchDone
    <2>2. CASE Con!Batch(p)
      BY <2>2 DEF Con!Batch, Con!Goto, Con!sleepVars, Con!inVars, Con!uartVars
    <2>3. CASE Con!Put(p)
      BY <2>3 DEF Con!Put, Con!Goto, Con!sleepVars, Con!inVars
    <2> QED
      BY <1>3, <2>1, <2>2, <2>3 DEF Con!consolewrite
  <1>4. ASSUME NEW p \in Con!Procs, Con!Kill(p) PROVE BatchInv'
    BY <1>4 DEF Con!Kill, Con!kkill, Con!inVars, Con!uartVars, Con!procVars
  <1>5. CASE Con!uartintr
    BY <1>5 DEF Con!uartintr, Con!consoleintr, Con!Acknowledge, Con!Handler, Con!sleepVars, Con!inVars,
           Con!procVars, Con!WakeSender, Con!Idle, Con!wakeupAll, Con!uartVars, Con!NextChar, Con!acquire,
           Con!Ignore, Con!release, Con!Between, Con!Erase, Con!Echo, Con!EchoStatus, Con!EchoPut, Con!Store,
           Con!Ends, Con!CharDone
  <1>6. CASE Con!Device
    BY <1>6 DEF Con!Device, Con!Type, Con!sleepVars, Con!inVars, Con!procVars, Con!Transmit
  <1>7. CASE UNCHANGED Con!vars
    BY <1>7 DEF Con!vars, Con!sleepVars, Con!inVars, Con!uartVars, Con!procVars
  <1> QED
    BY <1>1, <1>2, <1>3, <1>4, <1>5, <1>6, <1>7 DEF Con!Next, Con!Steps, Con!Call, Con!Begin

\* tx_lock is held from the first look at the transmitter to the end of the
\* batch
LEMMA TxLockStep ==
    ASSUME ProcType, TxLockInv, [Con!Next]_(Con!vars)
    PROVE  TxLockInv'
  <1> USE DEF ProcType, PCs, Sending, TxLockInv
  <1>1. ASSUME NEW p \in Con!Procs, NEW n \in 0..MaxLen, Con!Read(p, n) \/ Con!Write(p, n)
       PROVE  TxLockInv'
    BY <1>1, SlotFacts DEF Con!Read, Con!Goto, Con!acquire, Con!sleepVars, Con!inVars, Con!uartVars,
           Con!Write
  <1>2. ASSUME NEW p \in Con!Procs, Con!consoleread(p) PROVE TxLockInv'
    BY <1>2, SlotFacts DEF Con!consoleread, Con!ReadKilled, Con!release, Con!Return, Con!Goto,
           Con!Reset, Con!sleepVars, Con!inVars, Con!uartVars, Con!ReadWait, Con!sleep_prepare, Con!Unlock,
           Con!sleep, Con!Sleep, Con!Relock, Con!acquire, Con!ReadEof, Con!ReadChar, Con!ReadDone
  <1>3. ASSUME NEW p \in Con!Procs, Con!consolewrite(p) PROVE TxLockInv'
    BY <1>3, SlotFacts DEF Con!consolewrite, Con!WriteDone, Con!Goto, Con!Reset, Con!sleepVars,
           Con!inVars, Con!uartVars, Con!Batch, Con!Prepare, Con!sleep_prepare, Con!Status, Con!Idle, Con!Put,
           Con!TxSleep, Con!sleep, Con!TxAwake, Con!BatchDone
  <1>4. ASSUME NEW p \in Con!Procs, Con!Kill(p) PROVE TxLockInv'
    BY <1>4, SlotFacts DEF Con!Kill, Con!kkill, Con!inVars, Con!uartVars, Con!procVars
  <1>5. CASE Con!uartintr
    BY <1>5, SlotFacts DEF Con!uartintr, Con!consoleintr, Con!Acknowledge, Con!Handler,
           Con!sleepVars, Con!inVars, Con!procVars, Con!WakeSender, Con!Idle, Con!wakeupAll, Con!uartVars,
           Con!NextChar, Con!acquire, Con!Ignore, Con!release, Con!Between, Con!Erase, Con!Echo,
           Con!EchoStatus, Con!EchoPut, Con!Store, Con!Ends, Con!CharDone
  <1>6. CASE Con!Device
    BY <1>6, SlotFacts DEF Con!Device, Con!Type, Con!sleepVars, Con!inVars, Con!procVars, Con!Transmit
  <1>7. CASE UNCHANGED Con!vars
    BY <1>7, SlotFacts DEF Con!vars, Con!sleepVars, Con!inVars, Con!uartVars, Con!procVars
  <1> QED
    BY <1>1, <1>2, <1>3, <1>4, <1>5, <1>6, <1>7 DEF Con!Next, Con!Steps, Con!Call, Con!Begin

\* each side writes once for each time it found the transmitter idle
LEMMA TxStep ==
    ASSUME ProcType, UartType, TxLockInv, TxInv, [Con!Next]_(Con!vars)
    PROVE  TxInv'
  <1> USE DEF ProcType, PCs, Sending, UartType, Places, TxLockInv, TxInv
  <1>1. ASSUME NEW p \in Con!Procs, NEW n \in 0..MaxLen, Con!Read(p, n) \/ Con!Write(p, n)
       PROVE  TxInv'
    BY <1>1 DEF Con!Read, Con!Goto, Con!acquire, Con!sleepVars, Con!inVars, Con!uartVars, Con!Write
  <1>2. ASSUME NEW p \in Con!Procs, Con!consoleread(p) PROVE TxInv'
    BY <1>2 DEF Con!consoleread, Con!ReadKilled, Con!release, Con!Return, Con!Goto, Con!Reset,
           Con!sleepVars, Con!inVars, Con!uartVars, Con!ReadWait, Con!sleep_prepare, Con!Unlock, Con!sleep,
           Con!Sleep, Con!Relock, Con!acquire, Con!ReadEof, Con!ReadChar, Con!ReadDone
  <1>3. ASSUME NEW p \in Con!Procs, Con!consolewrite(p) PROVE TxInv'
    <2>1. CASE Con!WriteDone(p) \/ Con!Batch(p) \/ Con!Prepare(p) \/ Con!TxSleep(p) \/
               Con!TxAwake(p) \/ Con!BatchDone(p)
      BY <2>1 DEF Con!WriteDone, Con!Goto, Con!Reset, Con!sleepVars, Con!inVars, Con!uartVars, Con!Batch,
             Con!Prepare, Con!sleep_prepare, Con!TxSleep, Con!sleep, Con!TxAwake, Con!BatchDone
    <2>2. CASE Con!Status(p)
      BY <2>2 DEF Con!Status, Con!Goto, Con!Idle, Con!sleepVars, Con!inVars, Con!uartVars
    <2>3. CASE Con!Put(p)
      BY <2>3 DEF Con!Put, Con!Goto, Con!sleepVars, Con!inVars
    <2> QED
      BY <1>3, <2>1, <2>2, <2>3 DEF Con!consolewrite
  <1>4. ASSUME NEW p \in Con!Procs, Con!Kill(p) PROVE TxInv'
    BY <1>4 DEF Con!Kill, Con!kkill, Con!inVars, Con!uartVars, Con!procVars
  <1>5. CASE Con!uartintr
    BY <1>5 DEF Con!uartintr, Con!consoleintr, Con!Acknowledge, Con!Handler, Con!sleepVars, Con!inVars,
           Con!procVars, Con!WakeSender, Con!Idle, Con!wakeupAll, Con!uartVars, Con!NextChar, Con!acquire,
           Con!Ignore, Con!release, Con!Between, Con!Erase, Con!Echo, Con!EchoStatus, Con!EchoPut, Con!Store,
           Con!Ends, Con!CharDone
  <1>6. CASE Con!Device
    BY <1>6 DEF Con!Device, Con!Type, Con!sleepVars, Con!inVars, Con!procVars, Con!Transmit
  <1>7. CASE UNCHANGED Con!vars
    BY <1>7 DEF Con!vars, Con!sleepVars, Con!inVars, Con!uartVars, Con!procVars
  <1> QED
    BY <1>1, <1>2, <1>3, <1>4, <1>5, <1>6, <1>7 DEF Con!Next, Con!Steps, Con!Call, Con!Begin

\* a wakeup ends the sleep of whom it finds registered
LEMMA SleepStep ==
    ASSUME ProcType, SleepInv, [Con!Next]_(Con!vars)
    PROVE  SleepInv'
  <1> USE DEF ProcType, PCs, Sending, Waiting, SleepInv
  <1>1. ASSUME NEW p \in Con!Procs, NEW n \in 0..MaxLen, Con!Read(p, n) \/ Con!Write(p, n)
       PROVE  SleepInv'
    BY <1>1, ChanFacts DEF Con!Read, Con!Goto, Con!acquire, Con!sleepVars, Con!inVars, Con!uartVars,
           Con!Write
  <1>2. ASSUME NEW p \in Con!Procs, Con!consoleread(p) PROVE SleepInv'
    BY <1>2, ChanFacts DEF Con!consoleread, Con!ReadKilled, Con!release, Con!Return, Con!Goto,
           Con!Reset, Con!sleepVars, Con!inVars, Con!uartVars, Con!ReadWait, Con!sleep_prepare, Con!Unlock,
           Con!sleep, Con!Sleep, Con!Relock, Con!acquire, Con!ReadEof, Con!ReadChar, Con!ReadDone
  <1>3. ASSUME NEW p \in Con!Procs, Con!consolewrite(p) PROVE SleepInv'
    BY <1>3, ChanFacts DEF Con!consolewrite, Con!WriteDone, Con!Goto, Con!Reset, Con!sleepVars,
           Con!inVars, Con!uartVars, Con!Batch, Con!Prepare, Con!sleep_prepare, Con!Status, Con!Idle, Con!Put,
           Con!TxSleep, Con!sleep, Con!TxAwake, Con!BatchDone
  <1>4. ASSUME NEW p \in Con!Procs, Con!Kill(p) PROVE SleepInv'
    BY <1>4, ChanFacts DEF Con!Kill, Con!kkill, Con!inVars, Con!uartVars, Con!procVars
  <1>5. CASE Con!uartintr
    BY <1>5, ChanFacts DEF Con!uartintr, Con!consoleintr, Con!Acknowledge, Con!Handler,
           Con!sleepVars, Con!inVars, Con!procVars, Con!WakeSender, Con!Idle, Con!wakeupAll, Con!uartVars,
           Con!NextChar, Con!acquire, Con!Ignore, Con!release, Con!Between, Con!Erase, Con!Echo,
           Con!EchoStatus, Con!EchoPut, Con!Store, Con!Ends, Con!CharDone
  <1>6. CASE Con!Device
    BY <1>6, ChanFacts DEF Con!Device, Con!Type, Con!sleepVars, Con!inVars, Con!procVars, Con!Transmit
  <1>7. CASE UNCHANGED Con!vars
    BY <1>7, ChanFacts DEF Con!vars, Con!sleepVars, Con!inVars, Con!uartVars, Con!procVars
  <1> QED
    BY <1>1, <1>2, <1>3, <1>4, <1>5, <1>6, <1>7 DEF Con!Next, Con!Steps, Con!Call, Con!Begin

\* the interrupt that a sender waits for is not lost
LEMMA WriterStep ==
    ASSUME ProcType, UartType, WriterInv, [Con!Next]_(Con!vars)
    PROVE  WriterInv'
  <1> USE DEF ProcType, PCs, Sending, UartType, Places, WriterInv
  <1>1. ASSUME NEW p \in Con!Procs, NEW n \in 0..MaxLen, Con!Read(p, n) \/ Con!Write(p, n)
       PROVE  WriterInv'
    BY <1>1, ChanFacts DEF Con!Read, Con!Goto, Con!acquire, Con!sleepVars, Con!inVars, Con!uartVars,
           Con!Write
  <1>2. ASSUME NEW p \in Con!Procs, Con!consoleread(p) PROVE WriterInv'
    BY <1>2, ChanFacts DEF Con!consoleread, Con!ReadKilled, Con!release, Con!Return, Con!Goto,
           Con!Reset, Con!sleepVars, Con!inVars, Con!uartVars, Con!ReadWait, Con!sleep_prepare, Con!Unlock,
           Con!sleep, Con!Sleep, Con!Relock, Con!acquire, Con!ReadEof, Con!ReadChar, Con!ReadDone
  <1>3. ASSUME NEW p \in Con!Procs, Con!consolewrite(p) PROVE WriterInv'
    BY <1>3, ChanFacts DEF Con!consolewrite, Con!WriteDone, Con!Goto, Con!Reset, Con!sleepVars,
           Con!inVars, Con!uartVars, Con!Batch, Con!Prepare, Con!sleep_prepare, Con!Status, Con!Idle, Con!Put,
           Con!TxSleep, Con!sleep, Con!TxAwake, Con!BatchDone
  <1>4. ASSUME NEW p \in Con!Procs, Con!Kill(p) PROVE WriterInv'
    BY <1>4, ChanFacts DEF Con!Kill, Con!kkill, Con!inVars, Con!uartVars, Con!procVars
  <1>5. CASE Con!uartintr
    BY <1>5, ChanFacts DEF Con!uartintr, Con!consoleintr, Con!Acknowledge, Con!Handler,
           Con!sleepVars, Con!inVars, Con!procVars, Con!WakeSender, Con!Idle, Con!wakeupAll, Con!uartVars,
           Con!NextChar, Con!acquire, Con!Ignore, Con!release, Con!Between, Con!Erase, Con!Echo,
           Con!EchoStatus, Con!EchoPut, Con!Store, Con!Ends, Con!CharDone
  <1>6. CASE Con!Device
    <2>1. CASE Con!Type
      BY <2>1, ChanFacts DEF Con!Type, Con!sleepVars, Con!inVars, Con!procVars
    <2>2. CASE Con!Transmit
      <3>1. /\ tx > 0 /\ tx' = tx - 1 /\ UNCHANGED <<pc, chan, intr>>
            /\ tx = 1 => irq'
            /\ irq => irq'
        BY <2>2 DEF Con!Transmit, Con!sleepVars, Con!procVars
      <3> QED
        BY <3>1
    <2> QED
      BY <1>6, <2>1, <2>2 DEF Con!Device
  <1>7. CASE UNCHANGED Con!vars
    BY <1>7, ChanFacts DEF Con!vars, Con!sleepVars, Con!inVars, Con!uartVars, Con!procVars
  <1> QED
    BY <1>1, <1>2, <1>3, <1>4, <1>5, <1>6, <1>7 DEF Con!Next, Con!Steps, Con!Call, Con!Begin

\* the readers' index never overtakes the handed over one, nor the line that is
\* edited the buffer's end
LEMMA IndexStep ==
    ASSUME IndexType, RoomInv, [Con!Next]_(Con!vars)
    PROVE  IndexType'
  <1>1. ASSUME NEW p \in Con!Procs, NEW n \in 0..MaxLen, Con!Read(p, n) \/ Con!Write(p, n)
       PROVE  IndexType'
    <2>1. UNCHANGED Con!inVars
      BY <1>1 DEF Con!Read, Con!Goto, Con!acquire, Con!sleepVars, Con!inVars, Con!uartVars, Con!Write
    <2> QED
      BY <2>1 DEF Con!inVars, IndexType, Ready, Con!Held
  <1>2. ASSUME NEW p \in Con!Procs, Con!consoleread(p) PROVE IndexType'
    <2>1. CASE Con!ReadKilled(p) \/ Con!ReadWait(p) \/ Con!Unlock(p) \/ Con!Sleep(p) \/
               Con!Relock(p) \/ Con!ReadDone(p)
      <3>1. UNCHANGED Con!inVars
        BY <2>1 DEF Con!ReadKilled, Con!release, Con!Return, Con!Goto, Con!Reset, Con!sleepVars,
               Con!inVars, Con!uartVars, Con!ReadWait, Con!sleep_prepare, Con!Unlock, Con!sleep, Con!Sleep,
               Con!Relock, Con!acquire, Con!ReadDone
      <3> QED
        BY <3>1 DEF Con!inVars, IndexType, Ready, Con!Held
    <2>2. CASE Con!ReadEof(p)
      <3>1. /\ r' = (r + 1) % Wrap \/ r' = r
            /\ w' = w /\ e' = e /\ r # w /\ buf' = buf
        BY <2>2 DEF Con!ReadEof
      <3>2. CASE r' = r
        BY <3>1, <3>2 DEF IndexType, Ready, Con!Held
      <3>3. CASE r' = (r + 1) % Wrap
        <4>1. r' \in 0..(Wrap - 1) /\ Ready' = Ready - 1 /\ Con!Held' = Con!Held - 1
          BY <3>1, <3>3, Moves
        <4> QED
          BY <3>1, <4>1, RingFacts DEF IndexType
      <3> QED
        BY <3>1, <3>2, <3>3
    <2>3. CASE Con!ReadChar(p)
      <3>1. r' = (r + 1) % Wrap /\ w' = w /\ e' = e /\ r # w /\ buf' = buf
        BY <2>3 DEF Con!ReadChar
      <3> QED
        <4>1. r' \in 0..(Wrap - 1) /\ Ready' = Ready - 1 /\ Con!Held' = Con!Held - 1
          BY <3>1, Moves
        <4> QED
          BY <3>1, <4>1, RingFacts DEF IndexType
    <2> QED
      BY <1>2, <2>1, <2>2, <2>3 DEF Con!consoleread
  <1>3. ASSUME NEW p \in Con!Procs, Con!consolewrite(p) PROVE IndexType'
    <2>1. UNCHANGED Con!inVars
      BY <1>3 DEF Con!consolewrite, Con!WriteDone, Con!Goto, Con!Reset, Con!sleepVars, Con!inVars,
             Con!uartVars, Con!Batch, Con!Prepare, Con!sleep_prepare, Con!Status, Con!Idle, Con!Put,
             Con!TxSleep, Con!sleep, Con!TxAwake, Con!BatchDone
    <2> QED
      BY <2>1 DEF Con!inVars, IndexType, Ready, Con!Held
  <1>4. ASSUME NEW p \in Con!Procs, Con!Kill(p) PROVE IndexType'
    <2>1. UNCHANGED Con!inVars
      BY <1>4 DEF Con!Kill, Con!kkill, Con!inVars, Con!uartVars, Con!procVars
    <2> QED
      BY <2>1 DEF Con!inVars, IndexType, Ready, Con!Held
  <1>5. CASE Con!uartintr
    <2>1. CASE Con!Acknowledge \/ Con!WakeSender \/ Con!NextChar \/ Con!Ignore \/ Con!Echo \/
               Con!EchoStatus \/ Con!EchoPut \/ Con!CharDone
      <3>1. UNCHANGED Con!inVars
        BY <2>1 DEF Con!Acknowledge, Con!Handler, Con!sleepVars, Con!inVars, Con!procVars,
               Con!WakeSender, Con!Idle, Con!wakeupAll, Con!uartVars, Con!NextChar, Con!acquire,
               Con!Ignore, Con!release, Con!Between, Con!Echo, Con!EchoStatus, Con!EchoPut, Con!CharDone
      <3> QED
        BY <3>1 DEF Con!inVars, IndexType, Ready, Con!Held
    <2>2. CASE Con!Erase
      <3>1. r' = r /\ w' = w /\ e' = Con!Minus(e) /\ e # w /\ buf' = buf
        BY <2>2 DEF Con!Erase
      <3>2. e' \in 0..(Wrap - 1) /\ Ready' = Ready /\ Con!Held' = Con!Held - 1
        BY <3>1, Moves
      <3> QED
        BY <3>1, <3>2, RingFacts DEF IndexType
    <2>3. CASE Con!Store
      <3>1. /\ r' = r /\ e' = (e + 1) % Wrap /\ (w' = w \/ w' = e')
            /\ buf' = [buf EXCEPT ![Con!Slot(e)] = intr.c]
            /\ intr.c \in Keys /\ Con!Held < INPUT_BUF_SIZE
        BY <2>3 DEF Con!Store, Con!Handler, RoomInv
      <3>2. /\ r' \in 0..Wrap - 1 /\ w' \in 0..Wrap - 1 /\ e' \in 0..Wrap - 1
            /\ Ready' <= Con!Held' /\ Con!Held' <= INPUT_BUF_SIZE
        <4>1. /\ e' \in 0..(Wrap - 1) /\ Con!Held' = Con!Held + 1
              /\ w' = w => Ready' = Ready
              /\ w' = e' => Ready' = Con!Held + 1
          BY <3>1, Moves
        <4> QED
          BY <3>1, <4>1, RingFacts
      <3>3. buf' \in [0..INPUT_BUF_SIZE - 1 -> Keys \cup {"nl"}]
        BY <3>1 DEF IndexType
      <3> QED
        BY <3>2, <3>3 DEF IndexType
    <2> QED
      BY <1>5, <2>1, <2>2, <2>3 DEF Con!uartintr, Con!consoleintr
  <1>6. CASE Con!Device
    <2>1. UNCHANGED Con!inVars
      BY <1>6 DEF Con!Device, Con!Type, Con!sleepVars, Con!inVars, Con!procVars, Con!Transmit
    <2> QED
      BY <2>1 DEF Con!inVars, IndexType, Ready, Con!Held
  <1>7. CASE UNCHANGED Con!vars
    BY <1>7 DEF Con!vars, Con!sleepVars, Con!inVars, Con!uartVars, Con!procVars, Con!inVars, IndexType,
           Ready, Con!Held
  <1> QED
    BY <1>1, <1>2, <1>3, <1>4, <1>5, <1>6, <1>7 DEF Con!Next, Con!Steps, Con!Call, Con!Begin

\* nothing but consoleintr() fills the buffer, and it looks for room first
LEMMA RoomStep ==
    ASSUME UartType, IndexType, IndexType', RoomInv, [Con!Next]_(Con!vars)
    PROVE  RoomInv'
  <1>1. ASSUME NEW p \in Con!Procs, NEW n \in 0..MaxLen, Con!Read(p, n) \/ Con!Write(p, n)
       PROVE  RoomInv'
    <2>1. UNCHANGED <<Con!inVars, intr>>
      BY <1>1 DEF Con!Read, Con!Goto, Con!acquire, Con!sleepVars, Con!inVars, Con!uartVars, Con!Write
    <2> QED
      BY <2>1 DEF Con!inVars, RoomInv, Con!Held
  <1>2. ASSUME NEW p \in Con!Procs, Con!consoleread(p) PROVE RoomInv'
    <2>1. CASE Con!ReadKilled(p) \/ Con!ReadWait(p) \/ Con!Unlock(p) \/ Con!Sleep(p) \/
               Con!Relock(p) \/ Con!ReadDone(p)
      <3>1. UNCHANGED <<Con!inVars, intr>>
        BY <2>1 DEF Con!ReadKilled, Con!release, Con!Return, Con!Goto, Con!Reset, Con!sleepVars,
               Con!inVars, Con!uartVars, Con!ReadWait, Con!sleep_prepare, Con!Unlock, Con!sleep, Con!Sleep,
               Con!Relock, Con!acquire, Con!ReadDone
      <3> QED
        BY <3>1 DEF Con!inVars, RoomInv, Con!Held
    <2>2. CASE Con!ReadEof(p)
      <3>1. intr' = intr /\ Con!Held' <= Con!Held
        <4>1. /\ intr' = intr /\ (r' = (r + 1) % Wrap \/ r' = r)
              /\ w' = w /\ e' = e /\ r # w
          BY <2>2 DEF Con!ReadEof
        <4> QED
          BY <4>1, Moves, IndexFacts DEF Con!Held
      <3>2. Con!Held \in Int /\ Con!Held' \in Int /\ INPUT_BUF_SIZE \in Int
        BY BufAssumption DEF IndexType, Con!Held
      <3> QED
        BY <3>1, <3>2 DEF RoomInv
    <2>3. CASE Con!ReadChar(p)
      <3>1. intr' = intr /\ Con!Held' <= Con!Held
        <4>1. /\ intr' = intr /\ (r' = (r + 1) % Wrap \/ r' = r)
              /\ w' = w /\ e' = e /\ r # w
          BY <2>3 DEF Con!ReadChar
        <4> QED
          BY <4>1, Moves, IndexFacts DEF Con!Held
      <3>2. Con!Held \in Int /\ Con!Held' \in Int /\ INPUT_BUF_SIZE \in Int
        BY BufAssumption DEF IndexType, Con!Held
      <3> QED
        BY <3>1, <3>2 DEF RoomInv
    <2> QED
      BY <1>2, <2>1, <2>2, <2>3 DEF Con!consoleread
  <1>3. ASSUME NEW p \in Con!Procs, Con!consolewrite(p) PROVE RoomInv'
    <2>1. UNCHANGED <<Con!inVars, intr>>
      BY <1>3 DEF Con!consolewrite, Con!WriteDone, Con!Goto, Con!Reset, Con!sleepVars, Con!inVars,
             Con!uartVars, Con!Batch, Con!Prepare, Con!sleep_prepare, Con!Status, Con!Idle, Con!Put,
             Con!TxSleep, Con!sleep, Con!TxAwake, Con!BatchDone
    <2> QED
      BY <2>1 DEF Con!inVars, RoomInv, Con!Held
  <1>4. ASSUME NEW p \in Con!Procs, Con!Kill(p) PROVE RoomInv'
    <2>1. UNCHANGED <<Con!inVars, intr>>
      BY <1>4 DEF Con!Kill, Con!kkill, Con!inVars, Con!uartVars, Con!procVars
    <2> QED
      BY <2>1 DEF Con!inVars, RoomInv, Con!Held
  <1>5. CASE Con!uartintr
    <2>1. CASE Con!Acknowledge
      <3>1. Con!Held' = Con!Held
        BY <2>1 DEF Con!Acknowledge, Con!inVars, Con!Held
      <3> QED
        BY <2>1, <3>1
           DEF Con!Acknowledge, Con!Handler, Con!sleepVars, Con!inVars, Con!procVars, RoomInv, UartType,
               Places
    <2>2. CASE Con!WakeSender
      <3>1. Con!Held' = Con!Held
        BY <2>2 DEF Con!WakeSender, Con!inVars, Con!Held
      <3> QED
        BY <2>2, <3>1
           DEF Con!WakeSender, Con!Handler, Con!Idle, Con!wakeupAll, Con!sleepVars, Con!inVars, Con!uartVars,
               Con!procVars, RoomInv, UartType, Places
    <2>3. CASE Con!NextChar
      <3>1. Con!Held' = Con!Held
        BY <2>3 DEF Con!NextChar, Con!inVars, Con!Held
      <3>2. rx # <<>> => Head(rx) \in Keys
        BY DEF UartType
      <3> QED
        BY <2>3, <3>1, <3>2 DEF Con!NextChar, RoomInv, UartType, Places
    <2>4. CASE Con!Ignore
      <3>1. Con!Held' = Con!Held
        BY <2>4 DEF Con!Ignore, Con!inVars, Con!Held
      <3> QED
        BY <2>4, <3>1
           DEF Con!Ignore, Con!release, Con!Between, Con!sleepVars, Con!inVars, Con!uartVars, Con!procVars,
               RoomInv, UartType, Places
    <2>5. CASE Con!Erase
      BY <2>5 DEF Con!Erase, Con!Handler, RoomInv, UartType, Places
    <2>6. CASE Con!Echo
      <3>1. Con!Held' = Con!Held
        BY <2>6 DEF Con!Echo, Con!inVars, Con!Held
      <3> QED
        BY <2>6, <3>1
           DEF Con!Echo, Con!Handler, Con!sleepVars, Con!inVars, Con!uartVars, Con!procVars, RoomInv,
               UartType, Places
    <2>7. CASE Con!EchoStatus
      <3>1. Con!Held' = Con!Held
        BY <2>7 DEF Con!EchoStatus, Con!inVars, Con!Held
      <3> QED
        BY <2>7, <3>1
           DEF Con!EchoStatus, Con!Handler, Con!Idle, Con!sleepVars, Con!inVars, Con!uartVars, Con!procVars,
               RoomInv, UartType, Places
    <2>8. CASE Con!EchoPut
      <3>1. Con!Held' = Con!Held
        BY <2>8 DEF Con!EchoPut, Con!inVars, Con!Held
      <3> QED
        BY <2>8, <3>1
           DEF Con!EchoPut, Con!Handler, Con!sleepVars, Con!inVars, Con!procVars, Con!Typed, Con!Erasers, RoomInv,
               UartType, Places
    <2>9. CASE Con!Store
      BY <2>9 DEF Con!Store, Con!Handler, RoomInv, UartType, Places
    <2>10. CASE Con!CharDone
      <3>1. Con!Held' = Con!Held
        BY <2>10 DEF Con!CharDone, Con!inVars, Con!Held
      <3> QED
        BY <2>10, <3>1
           DEF Con!CharDone, Con!release, Con!Between, Con!sleepVars, Con!inVars, Con!uartVars, Con!procVars,
               RoomInv, UartType, Places
    <2> QED
      BY <1>5, <2>1, <2>2, <2>3, <2>4, <2>5, <2>6, <2>7, <2>8, <2>9, <2>10 DEF
             Con!uartintr, Con!consoleintr
  <1>6. CASE Con!Device
    <2>1. UNCHANGED <<Con!inVars, intr>>
      BY <1>6 DEF Con!Device, Con!Type, Con!sleepVars, Con!inVars, Con!procVars, Con!Transmit
    <2> QED
      BY <2>1 DEF Con!inVars, RoomInv, Con!Held
  <1>7. CASE UNCHANGED Con!vars
    BY <1>7 DEF Con!vars, Con!sleepVars, Con!inVars, Con!uartVars, Con!procVars, Con!inVars, RoomInv,
           Con!Held
  <1> QED
    BY <1>1, <1>2, <1>3, <1>4, <1>5, <1>6, <1>7 DEF Con!Next, Con!Steps, Con!Call, Con!Begin

\* a line is handed over with a wakeup, and a reader registers when there is
\* none
LEMMA ReaderStep ==
    ASSUME ProcType, ReaderInv, [Con!Next]_(Con!vars)
    PROVE  ReaderInv'
  <1> USE DEF ProcType, PCs, Sending, Waiting, ReaderInv
  <1>1. ASSUME NEW p \in Con!Procs, NEW n \in 0..MaxLen, Con!Read(p, n) \/ Con!Write(p, n)
       PROVE  ReaderInv'
    BY <1>1, ChanFacts DEF Con!Read, Con!Goto, Con!acquire, Con!sleepVars, Con!inVars, Con!uartVars,
           Con!Write
  <1>2. ASSUME NEW p \in Con!Procs, Con!consoleread(p) PROVE ReaderInv'
    <2>1. CASE Con!ReadKilled(p) \/ Con!ReadWait(p) \/ Con!Unlock(p) \/ Con!Sleep(p) \/
               Con!Relock(p) \/ Con!ReadDone(p)
      BY <2>1, ChanFacts DEF Con!ReadKilled, Con!release, Con!Return, Con!Goto, Con!Reset,
             Con!sleepVars, Con!inVars, Con!uartVars, Con!ReadWait, Con!sleep_prepare, Con!Unlock,
             Con!sleep, Con!Sleep, Con!Relock, Con!acquire, Con!ReadDone
    <2>2. CASE Con!ReadEof(p)
      <3>1. /\ r # w /\ UNCHANGED <<chan, w>>
            /\ \A q \in Con!Procs : pc'[q] = pc[q] \/ pc'[q] = "idle"
        BY <2>2 DEF Con!ReadEof, Con!release, Con!Return, Con!Goto, Con!Reset, Con!sleepVars, Con!uartVars
      <3> QED
        BY <3>1 DEF ReaderInv, Waiting
    <2>3. CASE Con!ReadChar(p)
      <3>1. /\ r # w /\ UNCHANGED <<chan, w>>
            /\ \A q \in Con!Procs : pc'[q] = pc[q] \/ pc'[q] = "idle"
        BY <2>3 DEF Con!ReadChar, Con!release, Con!Return, Con!Goto, Con!Reset, Con!sleepVars, Con!uartVars
      <3> QED
        BY <3>1 DEF ReaderInv, Waiting
    <2> QED
      BY <1>2, <2>1, <2>2, <2>3 DEF Con!consoleread
  <1>3. ASSUME NEW p \in Con!Procs, Con!consolewrite(p) PROVE ReaderInv'
    BY <1>3, ChanFacts DEF Con!consolewrite, Con!WriteDone, Con!Goto, Con!Reset, Con!sleepVars,
           Con!inVars, Con!uartVars, Con!Batch, Con!Prepare, Con!sleep_prepare, Con!Status, Con!Idle, Con!Put,
           Con!TxSleep, Con!sleep, Con!TxAwake, Con!BatchDone
  <1>4. ASSUME NEW p \in Con!Procs, Con!Kill(p) PROVE ReaderInv'
    BY <1>4, ChanFacts DEF Con!Kill, Con!kkill, Con!inVars, Con!uartVars, Con!procVars
  <1>5. CASE Con!uartintr
    <2>1. CASE Con!Acknowledge \/ Con!WakeSender \/ Con!NextChar \/ Con!Ignore \/ Con!Erase \/ Con!Echo
               \/ Con!EchoStatus \/ Con!EchoPut \/ Con!CharDone
      BY <2>1, ChanFacts DEF Con!Acknowledge, Con!Handler, Con!sleepVars, Con!inVars, Con!procVars,
             Con!WakeSender, Con!Idle, Con!wakeupAll, Con!uartVars, Con!NextChar, Con!acquire, Con!Ignore,
             Con!release, Con!Between, Con!Erase, Con!Echo, Con!EchoStatus, Con!EchoPut, Con!CharDone
    <2>2. CASE Con!Store
      BY <2>2, ChanFacts DEF Con!Store, Con!Handler, Con!wakeupAll, Con!Ends, Con!sleepVars,
             Con!uartVars, Con!procVars
    <2> QED
      BY <1>5, <2>1, <2>2 DEF Con!uartintr, Con!consoleintr
  <1>6. CASE Con!Device
    BY <1>6, ChanFacts DEF Con!Device, Con!Type, Con!sleepVars, Con!inVars, Con!procVars, Con!Transmit
  <1>7. CASE UNCHANGED Con!vars
    BY <1>7, ChanFacts DEF Con!vars, Con!sleepVars, Con!inVars, Con!uartVars, Con!procVars
  <1> QED
    BY <1>1, <1>2, <1>3, <1>4, <1>5, <1>6, <1>7 DEF Con!Next, Con!Steps, Con!Call, Con!Begin

\* a step of the console is one of the terminal's, or none
LEMMA RefineStep ==
    ASSUME IndexType, IndexType', RoomInv, [Con!Next]_(Con!vars)
    PROVE  Refines
  <1>1. ASSUME NEW p \in Con!Procs, NEW n \in 0..MaxLen, Con!Read(p, n) \/ Con!Write(p, n)
       PROVE  Refines
    <2>1. UNCHANGED Con!inVars
      BY <1>1 DEF Con!Read, Con!Goto, Con!acquire, Con!sleepVars, Con!inVars, Con!uartVars, Con!Write
    <2> QED
      BY <2>1 DEF Con!inVars, Refines, Edited, Handed, Con!Window, Con!Slot
  <1>2. ASSUME NEW p \in Con!Procs, Con!consoleread(p) PROVE Refines
    <2>1. CASE Con!ReadKilled(p) \/ Con!ReadWait(p) \/ Con!Unlock(p) \/ Con!Sleep(p) \/
               Con!Relock(p) \/ Con!ReadDone(p)
      <3>1. UNCHANGED Con!inVars
        BY <2>1 DEF Con!ReadKilled, Con!release, Con!Return, Con!Goto, Con!Reset, Con!sleepVars,
               Con!inVars, Con!uartVars, Con!ReadWait, Con!sleep_prepare, Con!Unlock, Con!sleep, Con!Sleep,
               Con!Relock, Con!acquire, Con!ReadDone
      <3> QED
        BY <3>1 DEF Con!inVars, Refines, Edited, Handed, Con!Window, Con!Slot
    <2>2. CASE Con!ReadEof(p)
      <3>1. CASE r' = r
        BY <2>2, <3>1 DEF Con!ReadEof, Refines, Edited, Handed, Con!Window, Con!Slot
      <3>2. CASE r' # r
        <4>1. r' = (r + 1) % Wrap /\ r # w /\ UNCHANGED <<w, e, buf>>
          BY <2>2, <3>2 DEF Con!ReadEof
        <4>2. Handed # <<>> /\ Handed' = Tail(Handed) /\ Edited' = Edited
          BY <4>1, ReadTakes
        <4> QED
          BY <4>2 DEF Refines, Con!Line!Read, Edited, Handed
      <3> QED
        BY <3>1, <3>2
    <2>3. CASE Con!ReadChar(p)
      <3>1. CASE r' = r
        BY <2>3, <3>1 DEF Con!ReadChar, Refines, Edited, Handed, Con!Window, Con!Slot
      <3>2. CASE r' # r
        <4>1. r' = (r + 1) % Wrap /\ r # w /\ UNCHANGED <<w, e, buf>>
          BY <2>3, <3>2 DEF Con!ReadChar
        <4>2. Handed # <<>> /\ Handed' = Tail(Handed) /\ Edited' = Edited
          BY <4>1, ReadTakes
        <4> QED
          BY <4>2 DEF Refines, Con!Line!Read, Edited, Handed
      <3> QED
        BY <3>1, <3>2
    <2> QED
      BY <1>2, <2>1, <2>2, <2>3 DEF Con!consoleread
  <1>3. ASSUME NEW p \in Con!Procs, Con!consolewrite(p) PROVE Refines
    <2>1. UNCHANGED Con!inVars
      BY <1>3 DEF Con!consolewrite, Con!WriteDone, Con!Goto, Con!Reset, Con!sleepVars, Con!inVars,
             Con!uartVars, Con!Batch, Con!Prepare, Con!sleep_prepare, Con!Status, Con!Idle, Con!Put,
             Con!TxSleep, Con!sleep, Con!TxAwake, Con!BatchDone
    <2> QED
      BY <2>1 DEF Con!inVars, Refines, Edited, Handed, Con!Window, Con!Slot
  <1>4. ASSUME NEW p \in Con!Procs, Con!Kill(p) PROVE Refines
    <2>1. UNCHANGED Con!inVars
      BY <1>4 DEF Con!Kill, Con!kkill, Con!inVars, Con!uartVars, Con!procVars
    <2> QED
      BY <2>1 DEF Con!inVars, Refines, Edited, Handed, Con!Window, Con!Slot
  <1>5. CASE Con!uartintr
    <2>1. CASE Con!Acknowledge \/ Con!WakeSender \/ Con!NextChar \/ Con!Ignore \/ Con!Echo \/
               Con!EchoStatus \/ Con!EchoPut \/ Con!CharDone
      <3>1. UNCHANGED Con!inVars
        BY <2>1 DEF Con!Acknowledge, Con!Handler, Con!sleepVars, Con!inVars, Con!procVars,
               Con!WakeSender, Con!Idle, Con!wakeupAll, Con!uartVars, Con!NextChar, Con!acquire,
               Con!Ignore, Con!release, Con!Between, Con!Echo, Con!EchoStatus, Con!EchoPut, Con!CharDone
      <3> QED
        BY <3>1 DEF Con!inVars, Refines, Edited, Handed, Con!Window, Con!Slot
    <2>2. CASE Con!Erase
      <3>1. e' = Con!Minus(e) /\ e # w /\ UNCHANGED <<r, w, buf>>
        BY <2>2 DEF Con!Erase
      <3>2. /\ Edited # <<>> /\ Edited' = SubSeq(Edited, 1, Len(Edited) - 1)
            /\ Handed' = Handed
        BY <3>1, EraseShortens
      <3> QED
        BY <3>2 DEF Refines, Con!Line!Erase, Edited, Handed
    <2>3. CASE Con!Store
      <3> DEFINE c == intr.c
                 whole == Con!Ends(c) \/ (e' - r) % Wrap = INPUT_BUF_SIZE
      <3>1. /\ r' = r /\ e' = (e + 1) % Wrap
            /\ buf' = [buf EXCEPT ![Con!Slot(e)] = c]
            /\ c \in Keys /\ Con!Typed(c) /\ Con!Held < INPUT_BUF_SIZE
            /\ whole => w' = e'
            /\ ~whole => w' = w
        BY <2>3 DEF Con!Store, Con!Handler, RoomInv
      <3> HIDE DEF c
      <3>2. /\ Len(Edited) \in Nat /\ Len(Handed) \in Nat /\ Len(Edited) + Len(Handed) = Con!Held
            /\ Len(Append(Edited, c)) = Len(Edited) + 1
            /\ w' = w => Edited' = Append(Edited, c) /\ Handed' = Handed
            /\ w' = e' => Edited' = <<>> /\ Handed' = Handed \o Append(Edited, c)
        BY <3>1, StoreAdds DEF Stores
      <3>3. whole <=> c \in {"nl", "^D"} \/ Len(Append(Edited, c)) + Len(Handed) = INPUT_BUF_SIZE
        <4>1. (e' - r) % Wrap = Con!Held + 1
          BY <3>1, Moves DEF Con!Held
        <4>2. Len(Append(Edited, c)) + Len(Handed) = Con!Held + 1
          BY <3>2
        <4> QED
          BY <4>1, <4>2 DEF Con!Ends
      <3>4. Con!Line!Type(c)
        BY <3>1, <3>2, <3>3 DEF Con!Line!Type, Con!Line!Room, Edited, Handed
      <3> QED
        BY <3>1, <3>4 DEF Refines
    <2> QED
      BY <1>5, <2>1, <2>2, <2>3 DEF Con!uartintr, Con!consoleintr
  <1>6. CASE Con!Device
    <2>1. UNCHANGED Con!inVars
      BY <1>6 DEF Con!Device, Con!Type, Con!sleepVars, Con!inVars, Con!procVars, Con!Transmit
    <2> QED
      BY <2>1 DEF Con!inVars, Refines, Edited, Handed, Con!Window, Con!Slot
  <1>7. CASE UNCHANGED Con!vars
    BY <1>7 DEF Con!vars, Con!sleepVars, Con!inVars, Con!uartVars, Con!procVars, Con!inVars, Refines,
           Edited, Handed, Con!Window, Con!Slot
  <1> QED
    BY <1>1, <1>2, <1>3, <1>4, <1>5, <1>6, <1>7 DEF Con!Next, Con!Steps, Con!Call, Con!Begin

-----------------------------------------------------------------------------
(* The theorems *)

\* it holds at the start
LEMMA ConsoleInit == Con!Init => ConsoleInv
  <1> SUFFICES ASSUME Con!Init PROVE ConsoleInv
    OBVIOUS
  <1>1. ProcType
    BY BufAssumption DEF Con!Init, ProcType, PCs
  <1>2. UartType /\ WorkInv
    <2>1. rx \in Seq(Keys) /\ tx \in Nat /\ work \in Workloads
      <3>1. rx = <<>> /\ tx = 0 /\ work \in Workloads
        BY DEF Con!Init
      <3> QED
        BY <3>1
    <2>3. irq \in BOOLEAN
      BY DEF Con!Init
    <2>2. intr \in [at : Places, c : Keys \cup {"none"}]
      BY DEF Con!Init, Places
    <2> QED
      BY <2>1, <2>2, <2>3 DEF UartType, WorkInv
  <1>3. BatchInv /\ TxLockInv /\ TxInv /\ RoomInv /\ SleepInv /\ ReaderInv /\ WriterInv
    BY DEF Con!Init, BatchInv, TxLockInv, TxInv, RoomInv, SleepInv, ReaderInv,
           WriterInv, Sending, Waiting
  <1>4. IndexType
    <2>1. 0 \in 0..(Wrap - 1) /\ (0 - 0) % Wrap = 0 /\ 0 <= INPUT_BUF_SIZE
      BY ModSmall, BufAssumption
    <2> QED
      BY <2>1 DEF Con!Init, IndexType, Ready, Con!Held
  <1> QED
    BY <1>1, <1>2, <1>3, <1>4 DEF ConsoleInv, ConsoleCall

\* every step preserves it
LEMMA ConsoleStep == ConsoleInv /\ [Con!Next]_(Con!vars) => ConsoleInv'
  <1> SUFFICES ASSUME ConsoleInv, [Con!Next]_(Con!vars) PROVE ConsoleInv'
    OBVIOUS
  <1>1. /\ ProcType /\ UartType /\ WorkInv /\ BatchInv /\ TxLockInv /\ TxInv
        /\ IndexType /\ RoomInv /\ SleepInv /\ ReaderInv /\ WriterInv
    BY DEF ConsoleInv, ConsoleCall
  <1>2. ProcType' /\ UartType' /\ BatchInv' /\ TxLockInv' /\ TxInv'
    BY <1>1, ProcTypeStep, UartTypeStep, BatchStep, TxLockStep, TxStep
  <1>3. WorkInv'
    BY <1>1 DEF WorkInv, Con!Next, Con!vars
  <1>4. IndexType' /\ SleepInv' /\ ReaderInv' /\ WriterInv'
    BY <1>1, IndexStep, SleepStep, ReaderStep, WriterStep
  <1>5. RoomInv'
    BY <1>1, <1>4, RoomStep
  <1> QED
    BY <1>2, <1>3, <1>4, <1>5 DEF ConsoleInv, ConsoleCall

\* so it always holds
LEMMA ConsoleInvariance == Con!Spec => []ConsoleInv
  BY ConsoleInit, ConsoleStep, PTL DEF Con!Spec

\* consoleread(), consolewrite() and consoleintr() keep what they share in
\* order: the reader's index, the end of what is handed over and the end of what
\* is typed stay in this order and no further apart than the buffer is long, over
\* the wrap of the indices, no count of a call falls below zero, and the
\* transmitter is given one character by each side that found it idle.
THEOREM ConsoleOrdered == Con!Spec => []Con!TypeOK
  <1>1. ConsoleInv => Con!TypeOK
    <2> SUFFICES ASSUME ConsoleInv PROVE Con!TypeOK
      OBVIOUS
    <2>1. Ready <= Con!Held /\ Con!Held <= INPUT_BUF_SIZE /\ {r, w, e} \subseteq 0..Wrap - 1
      BY DEF ConsoleInv, IndexType
    <2>2. tx \in 0..2
      BY DEF ConsoleInv, ConsoleCall, UartType, TxInv
    <2> QED
      BY <2>1, <2>2 DEF ConsoleInv, ConsoleCall, ProcType, Con!TypeOK, Ready
  <1> QED
    BY <1>1, ConsoleInvariance, PTL

\* No process sleeps in consoleread() while there is a line to read, whoever
\* typed it, killed a reader or put an end of file back meanwhile.
THEOREM ReadersAwake == Con!Spec => []Con!ReaderAwake
  <1>1. ASSUME ConsoleInv PROVE Con!ReaderAwake
    <2> SUFFICES ASSUME NEW p \in Con!Procs, state[p] = "SLEEPING", pc[p] = "asleep"
                 PROVE  r = w
      BY DEF Con!ReaderAwake
    <2> QED
      BY <1>1 DEF ConsoleInv, SleepInv, ReaderInv, Waiting
  <1> QED
    BY <1>1, ConsoleInvariance, PTL

\* A sender that sleeps in uartwrite() is woken by the transmitter's interrupt,
\* which is still to come, pending, or being handled: the echo of uartputc_sync()
\* does not take it away.
THEOREM SendersAwake == Con!Spec => []Con!WriterAwake
  <1>1. ASSUME ConsoleInv PROVE Con!WriterAwake
    <2> SUFFICES ASSUME NEW p \in Con!Procs, state[p] = "SLEEPING", pc[p] = "txasleep"
                 PROVE  tx > 0 \/ irq \/ intr.at = "status"
      BY DEF Con!WriterAwake
    <2> QED
      BY <1>1 DEF ConsoleInv, SleepInv, WriterInv
  <1> QED
    BY <1>1, ConsoleInvariance, PTL

\* The ring of r, w and e is a line-edited terminal (module Tty) for any buffer
\* and any width of the indices: what is handed over cannot be erased any more,
\* what is erased is never read, and everything else is read once, in order.
THEOREM ConsoleIsTty == Con!Spec => Con!IsTty
  <1>1. Con!Init => Con!Line!Init
    <2> SUFFICES ASSUME Con!Init PROVE Con!Line!Init
      OBVIOUS
    <2>1. (0 - 0) % Wrap = 0
      BY ModSmall, BufAssumption
    <2>2. Con!Window(w, e) = <<>> /\ Con!Window(r, w) = <<>>
      BY <2>1 DEF Con!Init, Con!Window
    <2> QED
      BY <2>2 DEF Con!Line!Init
  <1>2. ConsoleInv /\ ConsoleInv' /\ [Con!Next]_(Con!vars) => [Con!Line!Next]_<<Con!Window(w, e), Con!Window(r, w)>>
    <2> SUFFICES ASSUME ConsoleInv, ConsoleInv', [Con!Next]_(Con!vars)
                 PROVE  [Con!Line!Next]_<<Con!Window(w, e), Con!Window(r, w)>>
      OBVIOUS
    <2>1. Refines
      BY RefineStep DEF ConsoleInv
    <2> QED
      BY <2>1 DEF Refines, Con!Line!Next, Edited, Handed
  <1> QED
    BY <1>1, <1>2, ConsoleInvariance, PTL DEF Con!Spec, Con!IsTty, Con!Line!Spec

-----------------------------------------------------------------------------
(* The console behind descriptors *)

\* what is not the console's leaves it alone
LEMMA QuietTables ==
    ASSUME NEW p \in Procs, Table(p) \/ InodeIo(p)
    PROVE  Quiet
  <1>1. CASE Table(p)
    BY <1>1 DEF Table, OpenLock, OpenFails, OpenDone, Dup, Filedup, Fork, Close, CloseIput
  <1>2. CASE InodeIo(p)
    BY <1>2 DEF InodeIo, Transfer, Lock, Mapped, MapFails, MapNew, Copy, CopyFails,
                WriteEnd, ReadEnd
  <1> QED
    BY <1>1, <1>2

\* what is the console's is a step of Console
LEMMA DeviceSteps == Device => Con!Next
  <1>1. ASSUME NEW p \in Procs, DeviceIo(p) PROVE Con!Next
    <2>1. PICK n \in 0..MaxLen : Con!Begin(p)
      BY <1>1 DEF DeviceIo, Con!Begin
    <2> QED
      BY <1>1, <2>1 DEF DeviceIo, Still, Con!Next, Con!Steps, Con!Call, Procs, Con!Procs
  <1>2. ASSUME NEW p \in Procs, DeviceStep(p) PROVE Con!Next
    BY <1>2 DEF DeviceStep, Still, Con!Next, Con!Steps, Con!Call, Procs, Con!Procs
  <1>3. ASSUME NEW p \in Procs, Kill(p) PROVE Con!Next
    BY <1>3 DEF Kill, Still, Con!Next, Con!Steps, Procs, Con!Procs
  <1>4. Interrupt => Con!Next
    BY DEF Interrupt, Still, Con!Next, Con!Steps
  <1> QED
    BY <1>1, <1>2, <1>3, <1>4 DEF Device

\* Calls on descriptors, whatever else they do, drive the console as Console
\* says: no step of a file's touches it.
LEMMA DrivesConsole == Spec => Con!Spec
  <1>1. Init => Con!Init
    BY DEF Init
  <1>2. [Next]_vars => [Con!Next]_(Con!vars)
    <2>1. Quiet => UNCHANGED Con!vars
      BY DEF Quiet, consVars, Con!vars, Con!sleepVars, Con!inVars, Con!uartVars, Con!procVars
    <2>2. UNCHANGED vars => Quiet
      BY DEF vars, Quiet
    <2> QED
      BY <2>1, <2>2, QuietTables, DeviceSteps DEF Next
  <1> QED
    BY <1>1, <1>2, PTL DEF Spec, Con!Spec

\* Nobody sleeps in consoleread() over a line that has come, or in uartwrite()
\* over a transmitter that has finished, whoever else opens, dups, forks, closes,
\* reads or writes; and the indices of the buffer stay in a row.
THEOREM ConsoleStaysAwake == Spec => []ConsoleAwake
  BY DrivesConsole, ConsoleOrdered, ReadersAwake, SendersAwake, PTL DEF ConsoleAwake

\* The console behind a descriptor is a line-edited terminal (module Tty).
THEOREM DescriptorIsTty == Spec => IsTty
  BY DrivesConsole, ConsoleIsTty, PTL DEF IsTty

-----------------------------------------------------------------------------

-----------------------------------------------------------------------------
(* The inductive invariant of files *)

Io == {"map", "copy", "end"}
Having == Io \cup {"chunk"}
CallPcs == Having \cup {"none", "open", "dup", "iput", "device"}
Limit == MAXFILE * BSIZE
Ptrs(S, n) == [1..n -> {0} \cup S]

FileRec == [type : {"none", "device", "inode"}, ref : Int, readable : BOOLEAN,
            writable : BOOLEAN, ip : AllInodes, off : 0..Limit]
InodeRec == [valid : BOOLEAN, size : 0..Limit, addrs : Ptrs(Blocks, Ind)]
DiskRec == [size : 0..Limit, addrs : Ptrs(Blocks, Ind)]
BlockRec == [bytes : [1..BSIZE -> {0} \cup Procs], ptrs : Ptrs(Blocks, NINDIRECT)]
CallRec == [pc : CallPcs, write : BOOLEAN, f : {0} \cup Files, ip : AllInodes, n : Int, i : Int,
            off : Int, tot : Int, n1 : Int, trunc : BOOLEAN]

FileTypes ==
    /\ ftable \in [Files -> FileRec]
    /\ ofile \in [Procs -> [Fds -> {0} \cup Files]]
    /\ alive \subseteq Procs
    /\ mem \in [AllInodes -> InodeRec]
    /\ disk \in [AllInodes -> DiskRec]
    /\ iref \in [AllInodes -> Int]
    /\ ilock \in [AllInodes -> {0} \cup Procs]
    /\ DOMAIN block \subseteq Blocks
    /\ block \in [DOMAIN block -> BlockRec]
    /\ dirty \in [Procs -> SUBSET ({"bitmap", "block"} \X Nat)]
    /\ call \in [Procs -> CallRec]
    /\ work \in Workloads

\* what a call has: a process that reads or writes keeps the descriptor it was
\* given, and dup() has two
CallOf(p) ==
    /\ p \notin alive => call[p].pc = "none" /\ \A d \in Fds : ofile[p][d] = 0
    /\ call[p].pc = "dup" => \E c, d \in Fds : c # d /\ ofile[p][c] = call[p].f
                                                     /\ ofile[p][d] = call[p].f
    /\ call[p].pc = "dup" => call[p].f # 0
    /\ call[p].pc \in Having =>
          /\ call[p].f # 0 /\ \E d \in Fds : ofile[p][d] = call[p].f
          /\ ftable[call[p].f].type = "inode" /\ ftable[call[p].f].ip = call[p].ip
          /\ 0 <= call[p].i /\ call[p].i < call[p].n
CallInv == \A p \in Procs : CallOf(p)

\* files are counted by the descriptors, inodes by the files and the calls
Descs(f) == {x \in Procs \X Fds : ofile[x[1]][x[2]] = f}
Dupers(f) == {p \in Procs : call[p].pc = "dup" /\ call[p].f = f}
FilesOf(i) == {f \in Files : ftable[f].ref > 0 /\ ftable[f].ip = i}
Callers(i) == {p \in Procs : call[p].pc \in {"open", "iput"} /\ call[p].ip = i}
CountInv ==
    /\ \A f \in Files : ftable[f].ref = Cardinality(Descs(f)) - Cardinality(Dupers(f))
    /\ \A i \in AllInodes : iref[i] = Cardinality(FilesOf(i)) + Cardinality(Callers(i))

\* a file's type is its inode's
KindInv == \A f \in Files : ftable[f].ref > 0 => ftable[f].type = TypeOf(ftable[f].ip)

\* who holds the lock of an inode
LockInv == \A i \in AllInodes, p \in Procs :
    ilock[i] = p <=> call[p].pc \in Io \cup {"open"} /\ call[p].ip = i

\* an inode is in memory while anybody refers to it, and there as on disk
\* unless somebody is writing it
ValidInv == \A i \in AllInodes : mem[i].valid <=> iref[i] > 0
Writing(i) == \E p \in Procs : call[p].pc \in Io /\ call[p].write /\ call[p].ip = i
DiskInv == \A i \in AllInodes : mem[i].valid /\ ~Writing(i) =>
    disk[i].size = mem[i].size /\ disk[i].addrs = mem[i].addrs

\* the places for block numbers, and what they have: no block is at two places
Spots(ad) == {x \in Inodes \X {0, 1} \X Nat :
                 IF x[2] = 0 THEN x[3] \in 1..Ind
                 ELSE x[3] \in 1..NINDIRECT /\ ad[x[1]][Ind] # 0}
Spot(ad, bl, x) == IF x[2] = 0 THEN ad[x[1]][x[3]] ELSE bl[ad[x[1]][Ind]].ptrs[x[3]]
Owned(ad, bl) ==
    /\ \A x \in Spots(ad) : Spot(ad, bl, x) # 0 => Spot(ad, bl, x) \in DOMAIN bl
    /\ \A b \in DOMAIN bl : \E x \in Spots(ad) : Spot(ad, bl, x) = b
    /\ \A x, y \in Spots(ad) : Spot(ad, bl, x) = Spot(ad, bl, y) /\ Spot(ad, bl, x) # 0 => x = y
Addresses == [i \in Inodes |-> Current(i).addrs]
BlockInv == Owned(Addresses, block)

\* bytes below n have blocks
BlockNo(a, bl, bn) ==
    IF bn < NDIRECT THEN a[bn + 1]
    ELSE IF a[Ind] = 0 THEN 0 ELSE bl[a[Ind]].ptrs[bn - NDIRECT + 1]
Filled(a, bl, n) == \A bn \in 0..MAXFILE - 1 : bn * BSIZE < n => BlockNo(a, bl, bn) # 0
HoleOf(p) == call[p].write => Filled(Addrs(p), block, call[p].off)
HoleInv ==
    /\ \A i \in Inodes : Filled(Current(i).addrs, block, Current(i).size)
    /\ \A p \in Procs : call[p].pc \in Io => HoleOf(p)

\* how far readi() or writei() has come
ChunkOf(p) ==
    LET c == call[p]
        start == ftable[c.f].off
    IN  /\ 0 <= c.off /\ c.off <= Limit
        /\ c.tot # -1 => c.tot \in 0..c.n1 /\ start + c.tot = c.off
        /\ c.pc \in {"map", "copy"} => 0 <= c.tot /\ c.tot < c.n1
        /\ c.pc \in {"map", "copy"} /\ 0 < c.tot => c.off % BSIZE = 0
        /\ c.write => /\ 0 <= c.tot /\ 0 < c.n1 /\ c.n1 <= maxWrite /\ c.i + c.n1 <= c.n
                      /\ start <= mem[c.ip].size /\ start + c.n1 <= Limit
        /\ ~c.write /\ 0 < c.n1 => start + c.n1 <= mem[c.ip].size
        /\ c.pc = "copy" => Addr(p) # 0
ChunkInv == \A p \in Procs : call[p].pc \in Io => ChunkOf(p)

\* what a transaction has logged: for each block of data the block and the
\* bitmap's, but for the first the block alone if the write begins within it, for
\* it is there; and the indirect block with the bitmap's
Logged(p, b) == b # 0 /\ <<"block", b>> \in dirty[p]
Start(p) == call[p].off - call[p].tot
Visited(p) == Bn(p) - Start(p) \div BSIZE
Cost(p) == 2 * Visited(p) - (IF Start(p) % BSIZE # 0 /\ call[p].tot > 0 THEN 1 ELSE 0)
           + (IF Logged(p, Addr(p)) THEN 2 ELSE 0)
           + (IF Logged(p, Addrs(p)[Ind]) THEN 2 ELSE 0)
LogOf(p) ==
    /\ IsFiniteSet(dirty[p])
    /\ ~(call[p].pc \in Io /\ call[p].write) => dirty[p] = {}
    /\ call[p].pc \in {"map", "copy"} /\ call[p].write =>
          /\ Cardinality(dirty[p]) <= Cost(p)
          /\ call[p].tot = 0 /\ Start(p) % BSIZE # 0 => dirty[p] = {}
    /\ call[p].pc = "end" => Cardinality(dirty[p]) + 1 <= MAXOPBLOCKS
LogInv == \A p \in Procs : LogOf(p)

\* what has been written beyond the size of the file is the writer's
Byte(a, bl, k) == bl[BlockNo(a, bl, k \div BSIZE)].bytes[(k % BSIZE) + 1]
ByteOf(p) == call[p].write =>
    \A k \in mem[call[p].ip].size..call[p].off - 1 : Byte(Addrs(p), block, k) = p
ByteInv == \A p \in Procs : call[p].pc \in Io => ByteOf(p)

IInv == /\ FileTypes /\ CallInv /\ CountInv /\ KindInv /\ LockInv /\ ValidInv /\ DiskInv
        /\ BlockInv /\ HoleInv /\ ChunkInv /\ LogInv /\ ByteInv

-----------------------------------------------------------------------------
(* What the constants give *)

LEMMA Numbers ==
    /\ N \in Nat \ {0} /\ NFILE \in Nat \ {0} /\ NOFILE \in Nat \ {0}
    /\ NDIRECT \in Nat \ {0} /\ NINDIRECT \in Nat \ {0} /\ BSIZE \in Nat \ {0} /\ BPB \in Nat \ {0}
    /\ MAXFILE = NDIRECT + NINDIRECT /\ MAXFILE \in Nat /\ Ind = NDIRECT + 1 /\ Ind \in 1..Ind
    /\ Limit \in Nat
  <1>1. /\ N \in Nat \ {0} /\ NFILE \in Nat \ {0} /\ NOFILE \in Nat \ {0}
        /\ NDIRECT \in Nat \ {0} /\ NINDIRECT \in Nat \ {0} /\ BSIZE \in Nat \ {0} /\ BPB \in Nat \ {0}
    BY SizeAssumption
  <1>2. MAXFILE = NDIRECT + NINDIRECT /\ MAXFILE \in Nat /\ Ind = NDIRECT + 1 /\ Ind \in 1..Ind
    BY <1>1 DEF MAXFILE, Ind
  <1>3. Limit \in Nat
    BY <1>1, <1>2 DEF Limit
  <1> QED
    BY <1>1, <1>2, <1>3

LEMMA Domains ==
    /\ IsFiniteSet(Procs) /\ 0 \notin Procs /\ Procs \subseteq Nat
    /\ IsFiniteSet(Files) /\ 0 \notin Files /\ Files \subseteq Nat
    /\ IsFiniteSet(Fds) /\ 0 \notin Fds /\ Fds \subseteq Nat
    /\ IsFiniteSet(Procs \X Fds)
    /\ Blocks \subseteq Nat /\ 0 \notin Blocks
    /\ ConsoleInode \in AllInodes /\ Inodes \subseteq AllInodes /\ 0 \notin AllInodes
    /\ ConsoleInode \notin Inodes /\ \A i \in AllInodes : i = ConsoleInode \/ i \in Inodes
    /\ Con!Procs = Procs
  <1>1. N \in Nat \ {0} /\ NFILE \in Nat \ {0} /\ NOFILE \in Nat \ {0}
    BY Numbers
  <1>2. IsFiniteSet(1..N) /\ IsFiniteSet(1..NFILE) /\ IsFiniteSet(1..NOFILE)
    BY <1>1, FS_Interval
  <1>3. IsFiniteSet(Procs) /\ IsFiniteSet(Files) /\ IsFiniteSet(Fds)
    BY <1>2 DEF Procs, Files, Fds
  <1>4. IsFiniteSet(Procs \X Fds)
    BY <1>3, FS_Product
  <1>5. Blocks \subseteq Nat /\ 0 \notin Blocks
    BY SizeAssumption
  <1>6. /\ ConsoleInode \in AllInodes /\ Inodes \subseteq AllInodes /\ 0 \notin AllInodes
        /\ ConsoleInode \notin Inodes /\ \A i \in AllInodes : i = ConsoleInode \/ i \in Inodes
    BY SizeAssumption DEF AllInodes
  <1>7. /\ 0 \notin Procs /\ Procs \subseteq Nat /\ 0 \notin Files /\ Files \subseteq Nat
        /\ 0 \notin Fds /\ Fds \subseteq Nat /\ Con!Procs = Procs
    BY <1>1 DEF Procs, Files, Fds, Con!Procs
  <1> QED
    BY <1>3, <1>4, <1>5, <1>6, <1>7

\* a set of numbers has a first
LEMMA FirstOf ==
    ASSUME NEW S, S \subseteq Nat, S # {}
    PROVE  First(S) \in S
  <1> DEFINE R == OpToRel(<, Nat)
  <1>1. IsWellFoundedOn(R, Nat)
    BY NatLessThanWellFounded
  <1>2. \A x, y \in Nat : x < y => <<x, y>> \in R
    BY DEF OpToRel
  <1> HIDE DEF R
  <1>3. PICK x \in S : \A y \in S : ~(<<y, x>> \in R)
    BY <1>1, WFMin
  <1>4. ASSUME NEW y \in S PROVE x <= y
    <2>1. x \in Nat /\ y \in Nat
      OBVIOUS
    <2>2. ~(y < x)
      BY <1>2, <1>3, <2>1
    <2> QED
      BY <2>1, <2>2
  <1> QED
    BY <1>4 DEF First

\* a call's record is changed by one process
LEMMA Goes ==
    ASSUME FileTypes, NEW p \in Procs, NEW c, Go(p, c)
    PROVE  call'[p] = c /\ \A q \in Procs : q # p => call'[q] = call[q]
  BY DEF FileTypes, Go

LEMMA NoCallIs ==
    /\ NoCall.pc = "none" /\ NoCall.write = FALSE /\ NoCall.f = 0 /\ NoCall.ip = ConsoleInode
    /\ NoCall.n = 0 /\ NoCall.i = 0 /\ NoCall.off = 0 /\ NoCall.tot = 0 /\ NoCall.n1 = 0
  BY DEF NoCall

-----------------------------------------------------------------------------
(* References *)

LEMMA Finite ==
    /\ \A f : IsFiniteSet(Descs(f)) /\ Cardinality(Descs(f)) \in Nat
    /\ \A f : IsFiniteSet(Dupers(f)) /\ Cardinality(Dupers(f)) \in Nat
    /\ \A i : IsFiniteSet(FilesOf(i)) /\ Cardinality(FilesOf(i)) \in Nat
    /\ \A i : IsFiniteSet(Callers(i)) /\ Cardinality(Callers(i)) \in Nat
  <1>1. \A f : Descs(f) \subseteq Procs \X Fds /\ Dupers(f) \subseteq Procs
    BY DEF Descs, Dupers
  <1>2. \A i : FilesOf(i) \subseteq Files /\ Callers(i) \subseteq Procs
    BY DEF FilesOf, Callers
  <1>3. \A S, T : IsFiniteSet(T) /\ S \subseteq T => IsFiniteSet(S) /\ Cardinality(S) \in Nat
    <2> SUFFICES ASSUME NEW S, NEW T, IsFiniteSet(T), S \subseteq T
                 PROVE  IsFiniteSet(S) /\ Cardinality(S) \in Nat
      OBVIOUS
    <2>1. IsFiniteSet(S)
      BY FS_Subset
    <2> QED
      BY <2>1, FS_CardinalityType
  <1>4. IsFiniteSet(Procs) /\ IsFiniteSet(Files) /\ IsFiniteSet(Procs \X Fds)
    BY Domains
  <1>5. \A f : IsFiniteSet(Descs(f)) /\ Cardinality(Descs(f)) \in Nat
    BY <1>1, <1>3, <1>4
  <1>6. \A f : IsFiniteSet(Dupers(f)) /\ Cardinality(Dupers(f)) \in Nat
    BY <1>1, <1>3, <1>4
  <1>7. \A i : IsFiniteSet(FilesOf(i)) /\ Cardinality(FilesOf(i)) \in Nat
    BY <1>2, <1>3, <1>4
  <1>8. \A i : IsFiniteSet(Callers(i)) /\ Cardinality(Callers(i)) \in Nat
    BY <1>2, <1>3, <1>4
  <1> QED
    BY <1>5, <1>6, <1>7, <1>8

LEMMA Positive == ASSUME NEW S, IsFiniteSet(S), NEW x \in S PROVE Cardinality(S) > 0
  <1>1. Cardinality(S) \in Nat /\ Cardinality(S) # 0
    BY FS_CardinalityType, FS_EmptySet
  <1> QED
    BY <1>1

\* dup() has two descriptors of its file, so fewer processes are in it than
\* descriptors name it
LEMMA FewerDupers ==
    ASSUME CallInv, NEW f \in Files, NEW D, D \subseteq Descs(f), D # {},
           \A x \in Descs(f) : x[1] \in Dupers(f) => x \in D
    PROVE  Cardinality(Dupers(f)) < Cardinality(D)
  <1> DEFINE U == Dupers(f)
             s(p) == CHOOSE d \in Fds : ofile[p][d] = f
             g == [p \in U |-> <<p, s(p)>>]
  <1>1. IsFiniteSet(D) /\ IsFiniteSet(U) /\ Cardinality(D) \in Nat /\ Cardinality(U) \in Nat
    <2>1. IsFiniteSet(D)
      BY Finite, FS_Subset
    <2> QED
      BY <2>1, Finite, FS_CardinalityType
  <1>2. ASSUME NEW p \in U
        PROVE  \E c, d \in Fds : c # d /\ <<p, c>> \in D /\ <<p, d>> \in D
    <2>1. p \in Procs /\ call[p].pc = "dup" /\ call[p].f = f
      BY DEF Dupers
    <2>2. PICK c \in Fds, d \in Fds : c # d /\ ofile[p][c] = f /\ ofile[p][d] = f
      BY <2>1 DEF CallInv, CallOf
    <2>3. <<p, c>> \in Descs(f) /\ <<p, d>> \in Descs(f)
      BY <2>1, <2>2 DEF Descs
    <2> QED
      BY <2>2, <2>3
  <1>3. ASSUME NEW p \in U PROVE s(p) \in Fds /\ <<p, s(p)>> \in D
    <2>1. p \in Procs /\ \E d \in Fds : ofile[p][d] = f
      BY <1>2 DEF Descs, Dupers
    <2>2. s(p) \in Fds /\ ofile[p][s(p)] = f
      BY <2>1
    <2>3. <<p, s(p)>> \in Descs(f)
      BY <2>1, <2>2 DEF Descs
    <2> QED
      BY <2>2, <2>3
  <1>4. g \in Injection(U, D)
    <2>1. g \in [U -> D]
      BY <1>3
    <2>2. \A x, y \in U : g[x] = g[y] => x = y
      OBVIOUS
    <2> HIDE DEF g, U
    <2> QED
      BY <2>1, <2>2 DEF Injection, IsInjective
  <1>5. g \notin Surjection(U, D)
    <2> SUFFICES ASSUME g \in Surjection(U, D) PROVE FALSE
      OBVIOUS
    <2>1. \A x \in D : \E p \in U : g[p] = x
      BY DEF Surjection
    <2>2. PICK x \in D : TRUE
      OBVIOUS
    <2>3. PICK p \in U : g[p] = x
      BY <2>1, <2>2
    <2>4. PICK c \in Fds, d \in Fds : c # d /\ <<p, c>> \in D /\ <<p, d>> \in D
      BY <1>2
    <2>5. \A q \in U : g[q] = <<q, s(q)>>
      OBVIOUS
    <2>6. PICK q \in U : g[q] = <<p, c>>
      BY <2>1, <2>4
    <2>7. PICK u \in U : g[u] = <<p, d>>
      BY <2>1, <2>4
    <2> HIDE DEF g, U, s
    <2>8. q = p /\ s(q) = c /\ u = p /\ s(u) = d
      BY <2>5, <2>6, <2>7
    <2> QED
      BY <2>4, <2>8
  <1> HIDE DEF g, U
  <1>6. Cardinality(U) <= Cardinality(D) /\ Cardinality(U) # Cardinality(D)
    BY <1>1, <1>4, <1>5, FS_Injection
  <1> QED
    BY <1>1, <1>6 DEF U

\* what a file without descriptors lacks, and one with them has
LEMMA Named ==
    ASSUME CallInv, NEW f \in Files
    PROVE  Descs(f) # {} => Cardinality(Dupers(f)) < Cardinality(Descs(f))
  BY FewerDupers

\* the last reference is the only descriptor
LEMMA LastOne ==
    ASSUME CallInv, CountInv, NEW f \in Files, NEW p \in Procs, NEW d \in Fds, ofile[p][d] = f,
           call[p].pc = "none", ~(ftable[f].ref > 1)
    PROVE  Descs(f) = {<<p, d>>} /\ Dupers(f) = {} /\ ftable[f].ref = 1
  <1> DEFINE x == <<p, d>>
             D == Descs(f) \ {x}
  <1>1. x \in Descs(f) /\ p \notin Dupers(f)
    BY DEF Descs, Dupers
  <1>2. Cardinality(D) = Cardinality(Descs(f)) - 1
    BY <1>1, Finite, FS_RemoveElement
  <1>3. ftable[f].ref = Cardinality(Descs(f)) - Cardinality(Dupers(f))
    BY DEF CountInv
  <1>4. D = {}
    <2> SUFFICES ASSUME D # {} PROVE FALSE
      OBVIOUS
    <2>1. \A y \in Descs(f) : y[1] \in Dupers(f) => y \in D
      BY <1>1
    <2>2. Cardinality(Dupers(f)) < Cardinality(D)
      BY <2>1, FewerDupers
    <2> QED
      BY <1>2, <1>3, <2>2, Finite
  <1>5. Dupers(f) = {}
    <2> SUFFICES ASSUME NEW q \in Dupers(f) PROVE FALSE
      OBVIOUS
    <2>1. q \in Procs /\ \E c \in Fds : ofile[q][c] = f
      BY DEF CallInv, CallOf, Dupers
    <2>2. PICK c \in Fds : <<q, c>> \in Descs(f)
      BY <2>1 DEF Descs
    <2> QED
      BY <1>1, <1>4, <2>2
  <1>6. Cardinality(Descs(f)) = 1 /\ Cardinality(Dupers(f)) = 0
    <2>1. Cardinality(D) = 0 /\ Cardinality(Dupers(f)) = 0
      BY <1>4, <1>5, FS_EmptySet
    <2> QED
      BY <1>2, <2>1, Finite
  <1> QED
    BY <1>1, <1>3, <1>4, <1>5, <1>6

LEMMA InUse ==
    ASSUME FileTypes, CallInv, CountInv, NEW p \in Procs, NEW d \in Fds, ofile[p][d] \in Files
    PROVE  ftable[ofile[p][d]].ref > 0
  <1>1. <<p, d>> \in Descs(ofile[p][d])
    BY DEF Descs
  <1>2. Cardinality(Dupers(ofile[p][d])) < Cardinality(Descs(ofile[p][d]))
    BY <1>1, Named
  <1> QED
    BY <1>2, Finite DEF CountInv

LEMMA Unused ==
    ASSUME FileTypes, CallInv, CountInv, NEW f \in Files, ~(ftable[f].ref > 0)
    PROVE  /\ ftable[f].ref = 0 /\ Descs(f) = {} /\ Dupers(f) = {}
           /\ \A p \in Procs, d \in Fds : ofile[p][d] # f
           /\ \A p \in Procs : call[p].pc \in Having \cup {"dup"} => call[p].f # f
  <1>1. Descs(f) = {}
    <2>1. Descs(f) # {} => Cardinality(Dupers(f)) < Cardinality(Descs(f))
      BY Named
    <2> QED
      BY <2>1, Finite DEF CountInv
  <1>2. \A p \in Procs, d \in Fds : ofile[p][d] # f
    <2> SUFFICES ASSUME NEW p \in Procs, NEW d \in Fds, ofile[p][d] = f PROVE FALSE
      OBVIOUS
    <2>1. <<p, d>> \in Descs(f)
      BY DEF Descs
    <2> QED
      BY <1>1, <2>1
  <1>3. \A p \in Procs : call[p].pc \in Having \cup {"dup"} => call[p].f # f
    BY <1>2 DEF CallInv, CallOf
  <1>4. Dupers(f) = {}
    BY <1>3 DEF Dupers
  <1>5. ftable[f].ref = 0
    <2>1. Cardinality(Descs(f)) = 0 /\ Cardinality(Dupers(f)) = 0
      BY <1>1, <1>4, FS_EmptySet
    <2> QED
      BY <2>1 DEF CountInv
  <1> QED
    BY <1>1, <1>2, <1>3, <1>4, <1>5

LEMMA InodeInUse ==
    ASSUME FileTypes, CountInv, NEW i \in AllInodes
    PROVE  /\ \A f \in Files : ftable[f].ref > 0 /\ ftable[f].ip = i => iref[i] > 0
           /\ \A p \in Procs : call[p].pc \in {"open", "iput"} /\ call[p].ip = i => iref[i] > 0
           /\ iref[i] \in Nat
  <1>1. iref[i] = Cardinality(FilesOf(i)) + Cardinality(Callers(i))
    BY DEF CountInv
  <1>2. \A f \in Files : ftable[f].ref > 0 /\ ftable[f].ip = i => Cardinality(FilesOf(i)) > 0
    <2> SUFFICES ASSUME NEW f \in Files, f \in FilesOf(i) PROVE Cardinality(FilesOf(i)) > 0
      BY DEF FilesOf
    <2> QED
      BY Finite, Positive
  <1>3. \A p \in Procs : call[p].pc \in {"open", "iput"} /\ call[p].ip = i => Cardinality(Callers(i)) > 0
    <2> SUFFICES ASSUME NEW p \in Procs, p \in Callers(i) PROVE Cardinality(Callers(i)) > 0
      BY DEF Callers
    <2> QED
      BY Finite, Positive
  <1> QED
    BY <1>1, <1>2, <1>3, Finite

\* who reads or writes has an open file of an inode that is in memory
LEMMA HasFile ==
    ASSUME FileTypes, CallInv, CountInv, KindInv, ValidInv, NEW p \in Procs, call[p].pc \in Having
    PROVE  /\ call[p].f \in Files /\ ftable[call[p].f].ref > 0
           /\ ftable[call[p].f].ip = call[p].ip
           /\ call[p].ip \in Inodes /\ mem[call[p].ip].valid /\ p \in alive
  <1>1. /\ call[p].f # 0 /\ ftable[call[p].f].type = "inode" /\ ftable[call[p].f].ip = call[p].ip
        /\ p \in alive
    BY DEF CallInv, CallOf, Having, Io
  <1>2. PICK d \in Fds : ofile[p][d] = call[p].f
    BY DEF CallInv, CallOf
  <1>3. call[p].f \in Files
    BY <1>1 DEF FileTypes, CallRec
  <1>4. ftable[call[p].f].ref > 0
    BY <1>2, <1>3, InUse
  <1>5. call[p].ip \in Inodes
    <2>1. TypeOf(call[p].ip) = "inode" /\ call[p].ip \in AllInodes
      BY <1>1, <1>3, <1>4 DEF KindInv, FileTypes, CallRec
    <2> QED
      BY <2>1, Domains DEF TypeOf
  <1>6. iref[call[p].ip] > 0
    BY <1>1, <1>3, <1>4, <1>5, InodeInUse, Domains
  <1> QED
    BY <1>1, <1>3, <1>4, <1>5, <1>6, Domains DEF ValidInv

-----------------------------------------------------------------------------
(* Blocks *)

Trees == [Inodes -> Ptrs(Blocks, Ind)]

\* the place of the bn-th block of a file
Place(i, bn) == IF bn < NDIRECT THEN <<i, 0, bn + 1>> ELSE <<i, 1, bn - NDIRECT + 1>>

LEMMA InPlace ==
    ASSUME NEW ad, NEW bl, NEW i \in Inodes, NEW bn \in 0..MAXFILE - 1
    PROVE  /\ BlockNo(ad[i], bl, bn) # 0 =>
                Place(i, bn) \in Spots(ad) /\ Spot(ad, bl, Place(i, bn)) = BlockNo(ad[i], bl, bn)
           /\ BlockNo(ad[i], bl, bn) = 0 => Place(i, bn) \notin Spots(ad) \/ Spot(ad, bl, Place(i, bn)) = 0
           /\ Place(i, bn) # <<i, 0, Ind>>
  <1>1. CASE bn < NDIRECT
    <2>1. Place(i, bn) = <<i, 0, bn + 1>> /\ BlockNo(ad[i], bl, bn) = ad[i][bn + 1]
      BY <1>1 DEF Place, BlockNo
    <2>2. bn + 1 \in 1..Ind /\ bn + 1 # Ind /\ bn + 1 \in Nat
      BY <1>1, Numbers
    <2> QED
      BY <2>1, <2>2 DEF Spots, Spot
  <1>2. CASE ~(bn < NDIRECT)
    <2>1. /\ Place(i, bn) = <<i, 1, bn - NDIRECT + 1>>
          /\ BlockNo(ad[i], bl, bn) = IF ad[i][Ind] = 0 THEN 0 ELSE bl[ad[i][Ind]].ptrs[bn - NDIRECT + 1]
      BY <1>2 DEF Place, BlockNo
    <2>2. bn - NDIRECT + 1 \in 1..NINDIRECT /\ bn - NDIRECT + 1 \in Nat
      BY <1>2, Numbers
    <2> QED
      BY <2>1, <2>2 DEF Spots, Spot
  <1> QED
    BY <1>1, <1>2

\* what an inode points to is in use
LEMMA PointsIn ==
    ASSUME NEW ad, NEW bl, Owned(ad, bl), NEW i \in Inodes
    PROVE  /\ \A k \in 1..Ind : ad[i][k] # 0 => ad[i][k] \in DOMAIN bl
           /\ \A bn \in 0..MAXFILE - 1 : BlockNo(ad[i], bl, bn) # 0 => BlockNo(ad[i], bl, bn) \in DOMAIN bl
           /\ <<i, 0, Ind>> \in Spots(ad) /\ Spot(ad, bl, <<i, 0, Ind>>) = ad[i][Ind]
  <1>1. ASSUME NEW k \in 1..Ind PROVE <<i, 0, k>> \in Spots(ad) /\ Spot(ad, bl, <<i, 0, k>>) = ad[i][k]
    BY Numbers DEF Spots, Spot
  <1>2. \A k \in 1..Ind : ad[i][k] # 0 => ad[i][k] \in DOMAIN bl
    BY <1>1 DEF Owned
  <1>3. \A bn \in 0..MAXFILE - 1 : BlockNo(ad[i], bl, bn) # 0 => BlockNo(ad[i], bl, bn) \in DOMAIN bl
    BY InPlace DEF Owned
  <1> QED
    BY <1>1, <1>2, <1>3, Numbers

\* no two blocks of files have one number, and none has an indirect block's
LEMMA NumbersDiffer ==
    ASSUME NEW ad, NEW bl, Owned(ad, bl), NEW i \in Inodes, NEW j \in Inodes,
           NEW bn \in 0..MAXFILE - 1, BlockNo(ad[i], bl, bn) # 0
    PROVE  /\ BlockNo(ad[i], bl, bn) # ad[j][Ind]
           /\ \A bm \in 0..MAXFILE - 1 :
                 BlockNo(ad[i], bl, bn) = BlockNo(ad[j], bl, bm) => i = j /\ bn = bm
  <1>1. Place(i, bn) \in Spots(ad) /\ Spot(ad, bl, Place(i, bn)) = BlockNo(ad[i], bl, bn)
    BY InPlace
  <1>2. BlockNo(ad[i], bl, bn) # ad[j][Ind]
    <2>1. Place(i, bn) # <<j, 0, Ind>>
      BY Numbers DEF Place
    <2>2. <<j, 0, Ind>> \in Spots(ad) /\ Spot(ad, bl, <<j, 0, Ind>>) = ad[j][Ind]
      BY PointsIn
    <2>3. \A x, y \in Spots(ad) : Spot(ad, bl, x) = Spot(ad, bl, y) /\ Spot(ad, bl, x) # 0 => x = y
      BY DEF Owned
    <2> QED
      BY <1>1, <2>1, <2>2, <2>3
  <1>3. ASSUME NEW bm \in 0..MAXFILE - 1, BlockNo(ad[i], bl, bn) = BlockNo(ad[j], bl, bm)
        PROVE  i = j /\ bn = bm
    <2>1. Place(j, bm) \in Spots(ad) /\ Spot(ad, bl, Place(j, bm)) = BlockNo(ad[i], bl, bn)
      BY <1>3, InPlace
    <2>2. Place(i, bn) = Place(j, bm)
      BY <1>1, <2>1 DEF Owned
    <2> QED
      BY <2>2, Numbers DEF Place
  <1> QED
    BY <1>2, <1>3

LEMMA IndirectDiffers ==
    ASSUME NEW ad, NEW bl, Owned(ad, bl), NEW i \in Inodes, NEW j \in Inodes,
           ad[i][Ind] # 0, ad[i][Ind] = ad[j][Ind]
    PROVE  i = j
  <1>1. /\ <<i, 0, Ind>> \in Spots(ad) /\ Spot(ad, bl, <<i, 0, Ind>>) = ad[i][Ind]
        /\ <<j, 0, Ind>> \in Spots(ad) /\ Spot(ad, bl, <<j, 0, Ind>>) = ad[j][Ind]
    BY PointsIn
  <1>2. \A x, y \in Spots(ad) : Spot(ad, bl, x) = Spot(ad, bl, y) /\ Spot(ad, bl, x) # 0 => x = y
    BY DEF Owned
  <1>3. <<i, 0, Ind>> = <<j, 0, Ind>>
    BY <1>1, <1>2
  <1> QED
    BY <1>3

\* a file keeps the blocks it has, with their bytes
Grows(a, bl, a2, bl2) ==
    \A bn \in 0..MAXFILE - 1 : BlockNo(a, bl, bn) # 0 =>
        /\ BlockNo(a2, bl2, bn) = BlockNo(a, bl, bn)
        /\ bl2[BlockNo(a, bl, bn)].bytes = bl[BlockNo(a, bl, bn)].bytes

LEMMA NoOf ==
    ASSUME NEW k \in Nat
    PROVE  /\ k \div BSIZE \in Nat /\ (k \div BSIZE) * BSIZE <= k
           /\ k < Limit => k \div BSIZE \in 0..MAXFILE - 1
           /\ (k % BSIZE) \in 0..BSIZE - 1 /\ k = (k \div BSIZE) * BSIZE + (k % BSIZE)
  <1> DEFINE q == k \div BSIZE
             m == k % BSIZE
  <1>1. BSIZE \in Nat \ {0} /\ MAXFILE \in Nat
    BY Numbers
  <1>2. q \in Int /\ m \in 0..(BSIZE - 1) /\ k = BSIZE * q + m
    BY <1>1, DivMod
  <1> HIDE DEF q, m
  <1>3. q >= 0
    BY <1>1, <1>2
  <1>4. k < MAXFILE * BSIZE => q < MAXFILE
    <2> SUFFICES ASSUME k < MAXFILE * BSIZE, q >= MAXFILE PROVE FALSE
      BY <1>1, <1>2
    <2>1. q * BSIZE >= MAXFILE * BSIZE
      BY <1>1, <1>2
    <2> QED
      BY <1>1, <1>2, <2>1
  <1>5. q * BSIZE = BSIZE * q /\ q * BSIZE \in Int
    BY <1>1, <1>2
  <1> QED
    BY <1>1, <1>2, <1>3, <1>4, <1>5 DEF Limit, q, m

LEMMA FilledAt ==
    ASSUME NEW a, NEW bl, NEW n \in Nat, n <= Limit, Filled(a, bl, n), NEW k \in Nat, k < n
    PROVE  k \div BSIZE \in 0..MAXFILE - 1 /\ BlockNo(a, bl, k \div BSIZE) # 0
  <1>1. /\ k \div BSIZE \in Nat /\ (k \div BSIZE) * BSIZE <= k
        /\ k < Limit => k \div BSIZE \in 0..MAXFILE - 1
    BY NoOf
  <1>2. Limit \in Nat /\ BSIZE \in Nat /\ (k \div BSIZE) * BSIZE \in Nat
    BY <1>1, Numbers
  <1>3. k < Limit /\ (k \div BSIZE) * BSIZE < n
    BY <1>1, <1>2
  <1> QED
    BY <1>1, <1>3 DEF Filled

LEMMA GrowsFilled ==
    ASSUME NEW a, NEW bl, NEW a2, NEW bl2, NEW n, Grows(a, bl, a2, bl2), Filled(a, bl, n)
    PROVE  Filled(a2, bl2, n)
  BY DEF Grows, Filled

LEMMA GrowsByte ==
    ASSUME NEW a, NEW bl, NEW a2, NEW bl2, NEW n \in Nat, n <= Limit,
           Grows(a, bl, a2, bl2), Filled(a, bl, n), NEW k \in Nat, k < n
    PROVE  Byte(a2, bl2, k) = Byte(a, bl, k)
  BY FilledAt DEF Grows, Byte

-----------------------------------------------------------------------------
(* Giving blocks to inodes, and taking them back *)

\* one place more has a block, which was free
LEMMA OwnedAdd ==
    ASSUME NEW ad, NEW bl, NEW ad2, NEW bl2, Owned(ad, bl), NEW b, b # 0, b \notin DOMAIN bl, 0 \notin DOMAIN bl,
           DOMAIN bl2 = DOMAIN bl \cup {b}, NEW x0 \in Spots(ad2), Spots(ad) \subseteq Spots(ad2),
           x0 \in Spots(ad), Spot(ad, bl, x0) = 0, Spot(ad2, bl2, x0) = b,
           \A x \in Spots(ad2) : x # x0 =>
              Spot(ad2, bl2, x) = IF x \in Spots(ad) THEN Spot(ad, bl, x) ELSE 0
    PROVE  Owned(ad2, bl2)
  <1>1. \A x \in Spots(ad2) : Spot(ad2, bl2, x) # 0 => Spot(ad2, bl2, x) \in DOMAIN bl2
    BY DEF Owned
  <1>2. ASSUME NEW c \in DOMAIN bl2 PROVE \E x \in Spots(ad2) : Spot(ad2, bl2, x) = c
    <2>1. CASE c = b
      BY <2>1
    <2>2. CASE c # b
      <3>1. PICK x \in Spots(ad) : Spot(ad, bl, x) = c
        BY <2>2 DEF Owned
      <3> QED
        BY <2>2, <3>1
    <2> QED
      BY <2>1, <2>2
  <1>3. \A x, y \in Spots(ad2) :
           Spot(ad2, bl2, x) = Spot(ad2, bl2, y) /\ Spot(ad2, bl2, x) # 0 => x = y
    BY DEF Owned
  <1> QED
    BY <1>1, <1>2, <1>3 DEF Owned

With(bl, b) == [x \in DOMAIN bl \cup {b} |-> IF x = b THEN Zeroed ELSE bl[x]]

\* a block for the inode, or for what it says of the rest
LEMMA AddEntry ==
    ASSUME NEW ad \in Trees, NEW bl, Owned(ad, bl), 0 \notin DOMAIN bl,
           NEW i \in Inodes, NEW k \in 1..Ind, ad[i][k] = 0,
           NEW b \in Blocks, b \notin DOMAIN bl, NEW ad2 \in Trees,
           \A j \in Inodes : j # i => ad2[j] = ad[j],
           \A m \in 1..Ind : ad2[i][m] = IF m = k THEN b ELSE ad[i][m]
    PROVE  /\ Owned(ad2, With(bl, b))
           /\ \A j \in Inodes : Grows(ad[j], bl, ad2[j], With(bl, b))
  <1> DEFINE bl2 == With(bl, b)
             x0 == <<i, 0, k>>
  <1>1. /\ DOMAIN bl2 = DOMAIN bl \cup {b} /\ b # 0
        /\ \A x \in DOMAIN bl : bl2[x] = bl[x]
        /\ \A m \in 1..NINDIRECT : bl2[b].ptrs[m] = 0
    <2>1. b # 0
      BY Domains
    <2>2. DOMAIN bl2 = DOMAIN bl \cup {b}
      BY DEF With
    <2>3. \A x \in DOMAIN bl : bl2[x] = bl[x]
      BY DEF With
    <2>4. \A m \in 1..NINDIRECT : bl2[b].ptrs[m] = 0
      <3>1. bl2[b] = Zeroed
        BY DEF With
      <3> QED
        BY <3>1 DEF Zeroed
    <2> HIDE DEF bl2
    <2> QED
      BY <2>1, <2>2, <2>3, <2>4
  <1>2. Ind \in 1..Ind /\ 1..Ind \subseteq Nat /\ 1..NINDIRECT \subseteq Nat
    BY Numbers
  <1>3. \A j \in Inodes : ad[j][Ind] # 0 => ad[j][Ind] \in DOMAIN bl /\ ad2[j][Ind] = ad[j][Ind]
    BY <1>2, PointsIn
  <1>4. \A j \in Inodes : ad2[j][Ind] # ad[j][Ind] => j = i /\ k = Ind /\ ad2[j][Ind] = b
    BY <1>2
  <1>5. Spots(ad) \subseteq Spots(ad2)
    BY <1>3 DEF Spots
  <1>6. x0 \in Spots(ad2) /\ x0 \in Spots(ad) /\ Spot(ad, bl, x0) = 0 /\ Spot(ad2, bl2, x0) = b
    BY <1>2 DEF Spots, Spot
  <1>7. ASSUME NEW x \in Spots(ad2), x # x0
        PROVE  Spot(ad2, bl2, x) = IF x \in Spots(ad) THEN Spot(ad, bl, x) ELSE 0
    <2>1. /\ x = <<x[1], x[2], x[3]>> /\ x[1] \in Inodes /\ x[2] \in {0, 1}
          /\ x[2] = 0 => x[3] \in 1..Ind
          /\ x[2] = 1 => x[3] \in 1..NINDIRECT /\ ad2[x[1]][Ind] # 0
      BY DEF Spots
    <2>2. CASE x[2] = 0
      <3>1. x \in Spots(ad)
        BY <1>2, <2>1, <2>2 DEF Spots
      <3>2. ~(x[1] = i /\ x[3] = k)
        BY <1>7, <2>1, <2>2
      <3> QED
        BY <2>1, <2>2, <3>1, <3>2 DEF Spot
    <2>3. CASE x[2] = 1 /\ ad[x[1]][Ind] # 0
      <3>1. x \in Spots(ad)
        BY <1>2, <2>1, <2>3 DEF Spots
      <3> QED
        BY <1>1, <1>3, <2>1, <2>3, <3>1 DEF Spot
    <2>4. CASE x[2] = 1 /\ ad[x[1]][Ind] = 0
      <3>1. x \notin Spots(ad)
        BY <2>4 DEF Spots
      <3>2. ad2[x[1]][Ind] = b
        BY <1>4, <2>1, <2>4
      <3> QED
        BY <1>1, <2>1, <2>4, <3>1, <3>2 DEF Spot
    <2> QED
      BY <2>1, <2>2, <2>3, <2>4
  <1>8. ASSUME NEW j \in Inodes PROVE Grows(ad[j], bl, ad2[j], bl2)
    <2> SUFFICES ASSUME NEW bn \in 0..MAXFILE - 1, BlockNo(ad[j], bl, bn) # 0
                 PROVE  /\ BlockNo(ad2[j], bl2, bn) = BlockNo(ad[j], bl, bn)
                        /\ bl2[BlockNo(ad[j], bl, bn)].bytes = bl[BlockNo(ad[j], bl, bn)].bytes
      BY DEF Grows
    <2>1. BlockNo(ad[j], bl, bn) \in DOMAIN bl
      BY PointsIn
    <2>2. bn < NDIRECT => bn + 1 \in 1..Ind
      BY Numbers
    <2>3. CASE bn < NDIRECT
      <3>1. ad2[j][bn + 1] = ad[j][bn + 1]
        BY <2>2, <2>3 DEF BlockNo
      <3> QED
        BY <1>1, <2>1, <2>3, <3>1 DEF BlockNo
    <2>4. CASE ~(bn < NDIRECT)
      <3>1. ad[j][Ind] # 0
        BY <2>4 DEF BlockNo
      <3>2. ad2[j][Ind] = ad[j][Ind] /\ bl2[ad[j][Ind]] = bl[ad[j][Ind]]
        BY <1>1, <1>3, <3>1
      <3> QED
        BY <1>1, <2>1, <2>4, <3>1, <3>2 DEF BlockNo
    <2> QED
      BY <2>3, <2>4
  <1> HIDE DEF bl2, x0
  <1>9. Owned(ad2, bl2)
    BY <1>1, <1>5, <1>6, <1>7, OwnedAdd
  <1> QED
    BY <1>8, <1>9 DEF bl2

\* a block for an entry of the indirect block
LEMMA AddPtr ==
    ASSUME NEW ad \in Trees, NEW bl, Owned(ad, bl), 0 \notin DOMAIN bl,
           NEW i \in Inodes, ad[i][Ind] # 0, NEW m \in 1..NINDIRECT, bl[ad[i][Ind]].ptrs[m] = 0,
           NEW b \in Blocks, b \notin DOMAIN bl, NEW bl2, DOMAIN bl2 = DOMAIN bl \cup {b},
           \A x \in DOMAIN bl : x # ad[i][Ind] => bl2[x] = bl[x],
           bl2[ad[i][Ind]].bytes = bl[ad[i][Ind]].bytes,
           \A n \in 1..NINDIRECT :
              bl2[ad[i][Ind]].ptrs[n] = IF n = m THEN b ELSE bl[ad[i][Ind]].ptrs[n]
    PROVE  Owned(ad, bl2) /\ \A j \in Inodes : Grows(ad[j], bl, ad[j], bl2)
  <1> DEFINE x0 == <<i, 1, m>>
  <1>1. 1..NINDIRECT \subseteq Nat /\ b # 0 /\ Ind \in 1..Ind
    BY Numbers, Domains
  <1>2. \A j \in Inodes : ad[j][Ind] # 0 => ad[j][Ind] \in DOMAIN bl
    BY <1>1, PointsIn
  <1>3. \A j \in Inodes : j # i /\ ad[j][Ind] # 0 => bl2[ad[j][Ind]] = bl[ad[j][Ind]]
    BY <1>2, IndirectDiffers
  <1>4. x0 \in Spots(ad) /\ Spot(ad, bl, x0) = 0 /\ Spot(ad, bl2, x0) = b
    BY <1>1 DEF Spots, Spot
  <1>5. ASSUME NEW x \in Spots(ad), x # x0 PROVE Spot(ad, bl2, x) = Spot(ad, bl, x)
    <2>1. /\ x = <<x[1], x[2], x[3]>> /\ x[1] \in Inodes /\ x[2] \in {0, 1}
          /\ x[2] = 0 => x[3] \in 1..Ind
          /\ x[2] = 1 => x[3] \in 1..NINDIRECT /\ ad[x[1]][Ind] # 0
      BY DEF Spots
    <2>2. CASE x[2] = 0
      BY <2>2 DEF Spot
    <2>3. CASE x[2] = 1 /\ x[1] # i
      BY <1>3, <2>1, <2>3 DEF Spot
    <2>4. CASE x[2] = 1 /\ x[1] = i
      <3>1. x[3] # m
        BY <1>5, <2>1, <2>4
      <3> QED
        BY <2>1, <2>4, <3>1 DEF Spot
    <2> QED
      BY <2>1, <2>2, <2>3, <2>4
  <1>6. ASSUME NEW j \in Inodes PROVE Grows(ad[j], bl, ad[j], bl2)
    <2> SUFFICES ASSUME NEW bn \in 0..MAXFILE - 1, BlockNo(ad[j], bl, bn) # 0
                 PROVE  /\ BlockNo(ad[j], bl2, bn) = BlockNo(ad[j], bl, bn)
                        /\ bl2[BlockNo(ad[j], bl, bn)].bytes = bl[BlockNo(ad[j], bl, bn)].bytes
      BY DEF Grows
    <2>1. BlockNo(ad[j], bl, bn) \in DOMAIN bl /\ BlockNo(ad[j], bl, bn) # ad[i][Ind]
      <3>1. BlockNo(ad[j], bl, bn) \in DOMAIN bl
        BY PointsIn
      <3>2. BlockNo(ad[j], bl, bn) # ad[i][Ind]
        BY NumbersDiffer
      <3> QED
        BY <3>1, <3>2
    <2>2. bl2[BlockNo(ad[j], bl, bn)] = bl[BlockNo(ad[j], bl, bn)]
      BY <2>1
    <2>3. CASE bn < NDIRECT
      BY <2>2, <2>3 DEF BlockNo
    <2>4. CASE ~(bn < NDIRECT)
      <3>1. /\ ad[j][Ind] # 0 /\ bl[ad[j][Ind]].ptrs[bn - NDIRECT + 1] # 0
            /\ BlockNo(ad[j], bl, bn) = bl[ad[j][Ind]].ptrs[bn - NDIRECT + 1]
            /\ BlockNo(ad[j], bl2, bn) = bl2[ad[j][Ind]].ptrs[bn - NDIRECT + 1]
        BY <2>4 DEF BlockNo
      <3>2. bn - NDIRECT + 1 \in 1..NINDIRECT
        BY <2>4, Numbers
      <3>3. CASE j = i
        BY <2>2, <3>1, <3>2, <3>3
      <3>4. CASE j # i
        BY <1>3, <2>2, <3>1, <3>4
      <3> QED
        BY <3>3, <3>4
    <2> QED
      BY <2>3, <2>4
  <1> HIDE DEF x0
  <1>7. Owned(ad, bl2)
    BY <1>1, <1>4, <1>5, OwnedAdd
  <1> QED
    BY <1>6, <1>7

\* bytes are written
LEMMA PutBytes ==
    ASSUME NEW ad, NEW bl, Owned(ad, bl), NEW bl2, DOMAIN bl2 = DOMAIN bl,
           \A x \in DOMAIN bl : bl2[x].ptrs = bl[x].ptrs
    PROVE  /\ Owned(ad, bl2)
           /\ \A j \in Inodes : \A bn \in 0..MAXFILE - 1 : BlockNo(ad[j], bl2, bn) = BlockNo(ad[j], bl, bn)
  <1>1. \A j \in Inodes : ad[j][Ind] # 0 => bl2[ad[j][Ind]].ptrs = bl[ad[j][Ind]].ptrs
    BY PointsIn, Numbers
  <1>2. ASSUME NEW x \in Spots(ad) PROVE Spot(ad, bl2, x) = Spot(ad, bl, x)
    <2>1. x[1] \in Inodes /\ (x[2] # 0 => ad[x[1]][Ind] # 0)
      BY DEF Spots
    <2> QED
      BY <1>1, <2>1 DEF Spot
  <1>3. Owned(ad, bl2)
    BY <1>2 DEF Owned
  <1> QED
    BY <1>1, <1>3 DEF BlockNo

\* the blocks of one inode are given back
LEMMA CutBlocks ==
    ASSUME NEW ad \in Trees, NEW bl, Owned(ad, bl), 0 \notin DOMAIN bl,
           NEW i \in Inodes, NEW ad2 \in Trees,
           \A j \in Inodes : j # i => ad2[j] = ad[j],
           \A k \in 1..Ind : ad2[i][k] = 0,
           NEW bl2, \A c : c \in DOMAIN bl2 <=>
              c \in DOMAIN bl /\ \A x \in Spots(ad) : x[1] = i => Spot(ad, bl, x) # c,
           \A c \in DOMAIN bl2 : bl2[c] = bl[c]
    PROVE  /\ Owned(ad2, bl2)
           /\ \A j \in Inodes : j # i => Grows(ad[j], bl, ad2[j], bl2)
  <1>1. Ind \in 1..Ind /\ 1..Ind \subseteq Nat
    BY Numbers
  <1>2. ASSUME NEW x \in Spots(ad), x[1] # i, Spot(ad, bl, x) # 0
        PROVE  Spot(ad, bl, x) \in DOMAIN bl2
    <2>1. \A y \in Spots(ad) : y[1] = i => Spot(ad, bl, y) # Spot(ad, bl, x)
      BY <1>2 DEF Owned
    <2>2. Spot(ad, bl, x) \in DOMAIN bl
      BY <1>2 DEF Owned
    <2> QED
      BY <2>1, <2>2
  <1>3. ASSUME NEW j \in Inodes, j # i, ad[j][Ind] # 0
        PROVE  ad[j][Ind] \in DOMAIN bl2 /\ bl2[ad[j][Ind]] = bl[ad[j][Ind]]
    <2>1. <<j, 0, Ind>> \in Spots(ad) /\ Spot(ad, bl, <<j, 0, Ind>>) = ad[j][Ind]
      BY PointsIn
    <2>2. ad[j][Ind] \in DOMAIN bl2
      BY <1>2, <1>3, <2>1
    <2> QED
      BY <2>2
  <1>4. ASSUME NEW x \in Spots(ad2)
        PROVE  /\ x[1] = i => Spot(ad2, bl2, x) = 0
               /\ x[1] # i => x \in Spots(ad) /\ Spot(ad2, bl2, x) = Spot(ad, bl, x)
    <2>1. /\ x[1] \in Inodes /\ x[2] \in {0, 1}
          /\ x[2] = 0 => x[3] \in 1..Ind
          /\ x[2] = 1 => x[3] \in 1..NINDIRECT /\ ad2[x[1]][Ind] # 0
      BY DEF Spots
    <2>2. CASE x[1] = i
      BY <1>1, <2>1, <2>2 DEF Spot
    <2>3. CASE x[1] # i
      <3>1. ad2[x[1]] = ad[x[1]]
        BY <2>1, <2>3
      <3>2. x \in Spots(ad)
        BY <2>1, <3>1 DEF Spots
      <3>3. x[2] = 1 => bl2[ad[x[1]][Ind]] = bl[ad[x[1]][Ind]]
        BY <1>3, <2>1, <2>3, <3>1
      <3> QED
        BY <2>1, <2>3, <3>1, <3>2, <3>3 DEF Spot
    <2> QED
      BY <2>2, <2>3
  <1>5. ASSUME NEW x \in Spots(ad), x[1] # i PROVE x \in Spots(ad2)
    <2>1. x[1] \in Inodes /\ ad2[x[1]] = ad[x[1]]
      BY <1>5 DEF Spots
    <2> QED
      BY <2>1 DEF Spots
  <1>6. \A x \in Spots(ad2) : Spot(ad2, bl2, x) # 0 => Spot(ad2, bl2, x) \in DOMAIN bl2
    BY <1>2, <1>4
  <1>7. ASSUME NEW c \in DOMAIN bl2 PROVE \E x \in Spots(ad2) : Spot(ad2, bl2, x) = c
    <2>1. PICK x \in Spots(ad) : Spot(ad, bl, x) = c
      BY DEF Owned
    <2>2. x[1] # i
      BY <2>1
    <2> QED
      BY <1>4, <1>5, <2>1, <2>2
  <1>8. ASSUME NEW x \in Spots(ad2), NEW y \in Spots(ad2),
               Spot(ad2, bl2, x) = Spot(ad2, bl2, y), Spot(ad2, bl2, x) # 0
        PROVE  x = y
    <2>1. x \in Spots(ad) /\ y \in Spots(ad) /\ Spot(ad, bl, x) = Spot(ad, bl, y) /\ Spot(ad, bl, x) # 0
      BY <1>4, <1>8
    <2> QED
      BY <2>1 DEF Owned
  <1>9. Owned(ad2, bl2)
    BY <1>6, <1>7, <1>8 DEF Owned
  <1>10. ASSUME NEW j \in Inodes, j # i PROVE Grows(ad[j], bl, ad2[j], bl2)
    <2> SUFFICES ASSUME NEW bn \in 0..MAXFILE - 1, BlockNo(ad[j], bl, bn) # 0
                 PROVE  /\ BlockNo(ad2[j], bl2, bn) = BlockNo(ad[j], bl, bn)
                        /\ bl2[BlockNo(ad[j], bl, bn)].bytes = bl[BlockNo(ad[j], bl, bn)].bytes
      BY DEF Grows
    <2>1. Place(j, bn) \in Spots(ad) /\ Spot(ad, bl, Place(j, bn)) = BlockNo(ad[j], bl, bn)
      BY InPlace
    <2>2. Place(j, bn)[1] = j
      BY DEF Place
    <2>3. BlockNo(ad[j], bl, bn) \in DOMAIN bl2
      BY <1>2, <1>10, <2>1, <2>2
    <2>4. ad2[j] = ad[j] /\ (ad[j][Ind] # 0 => bl2[ad[j][Ind]] = bl[ad[j][Ind]])
      BY <1>3, <1>10
    <2> QED
      BY <2>3, <2>4 DEF BlockNo
  <1> QED
    BY <1>9, <1>10

-----------------------------------------------------------------------------
(* What a step leaves alone *)

LEMMA AddrIs == ASSUME NEW p PROVE Addr(p) = BlockNo(Addrs(p), block, Bn(p))
  BY DEF Addr, BlockNo, Direct, NoIndirect, Entry

\* an inode in memory is what is in memory
LEMMA Valid ==
    ASSUME NEW i, mem[i].valid
    PROVE  Current(i).addrs = mem[i].addrs /\ Current(i).size = mem[i].size
  BY DEF Current

LEMMA AddressTypes == FileTypes => /\ Addresses \in Trees
                                   /\ 0 \notin DOMAIN block
                                   /\ \A i \in AllInodes : Current(i).size \in 0..Limit
                                   /\ \A i \in AllInodes : Current(i).addrs \in Ptrs(Blocks, Ind)
  <1> SUFFICES ASSUME FileTypes
               PROVE  /\ Addresses \in Trees
                      /\ 0 \notin DOMAIN block
                      /\ \A i \in AllInodes : Current(i).size \in 0..Limit
                      /\ \A i \in AllInodes : Current(i).addrs \in Ptrs(Blocks, Ind)
    OBVIOUS
  <1>1. ASSUME NEW i \in AllInodes
        PROVE  Current(i).size \in 0..Limit /\ Current(i).addrs \in Ptrs(Blocks, Ind)
    <2>1. mem[i] \in InodeRec /\ disk[i] \in DiskRec
      BY DEF FileTypes
    <2> QED
      BY <2>1 DEF Current, InodeRec, DiskRec
  <1>2. Addresses \in Trees
    BY <1>1, Domains DEF Addresses, Trees
  <1>3. 0 \notin DOMAIN block
    BY Domains DEF FileTypes
  <1> QED
    BY <1>1, <1>2, <1>3

\* where readi() and writei() are is within the longest file
LEMMA OffIn ==
    ASSUME FileTypes, CallInv, ChunkInv, NEW p \in Procs, call[p].pc \in {"map", "copy"}
    PROVE  /\ call[p].off \in Nat /\ call[p].off < Limit /\ Bn(p) \in 0..MAXFILE - 1
           /\ call[p].n1 \in Int /\ call[p].tot \in Int /\ call[p].ip \in AllInodes
           /\ ~call[p].write => call[p].off < mem[call[p].ip].size
  <1>1. call[p] \in CallRec /\ call[p].f \in {0} \cup Files
    BY DEF FileTypes, CallRec
  <1>2. ChunkOf(p)
    BY DEF ChunkInv, Io
  <1>3. /\ call[p].off \in Int /\ call[p].tot \in Int /\ call[p].n1 \in Int /\ call[p].write \in BOOLEAN
        /\ call[p].ip \in AllInodes
    BY <1>1 DEF CallRec
  <1>4. mem[call[p].ip].size \in 0..Limit
    BY <1>3 DEF FileTypes, InodeRec
  <1> DEFINE start == ftable[call[p].f].off
  <1>5. /\ 0 <= call[p].off /\ 0 <= call[p].tot /\ call[p].tot < call[p].n1
        /\ start + call[p].tot = call[p].off
        /\ call[p].write => start + call[p].n1 <= Limit
        /\ ~call[p].write => start + call[p].n1 <= mem[call[p].ip].size
    BY <1>2, <1>3 DEF ChunkOf
  <1>6. start \in Int
    <2>1. call[p].f \in Files
      BY <1>1 DEF CallInv, CallOf, Having, Io
    <2> QED
      BY <2>1, Numbers DEF FileTypes, FileRec
  <1> HIDE DEF start
  <1>7. /\ call[p].off \in Nat /\ call[p].off < Limit
        /\ ~call[p].write => call[p].off < mem[call[p].ip].size
    BY <1>3, <1>4, <1>5, <1>6, Numbers
  <1>8. Bn(p) \in 0..MAXFILE - 1
    BY <1>7, NoOf DEF Bn
  <1> QED
    BY <1>3, <1>7, <1>8

\* readi() finds every block it looks for
LEMMA ReaderHas ==
    ASSUME FileTypes, CallInv, CountInv, KindInv, ValidInv, ChunkInv, HoleInv,
           NEW p \in Procs, call[p].pc \in {"map", "copy"}, ~call[p].write
    PROVE  Addr(p) # 0
  <1>1. call[p].ip \in Inodes /\ mem[call[p].ip].valid
    BY HasFile DEF Having, Io
  <1>2. Filled(Addrs(p), block, mem[call[p].ip].size)
    BY <1>1, Valid DEF HoleInv, Addrs
  <1>3. /\ call[p].off \in Nat /\ call[p].off < mem[call[p].ip].size
        /\ mem[call[p].ip].size \in Nat /\ mem[call[p].ip].size <= Limit
    <2>1. call[p].off \in Nat /\ call[p].off < mem[call[p].ip].size
      BY OffIn
    <2>2. mem[call[p].ip].size \in 0..Limit
      BY <1>1, Domains DEF FileTypes, InodeRec
    <2> QED
      BY <2>1, <2>2, Numbers
  <1>4. BlockNo(Addrs(p), block, call[p].off \div BSIZE) # 0
    BY <1>2, <1>3, FilledAt
  <1> QED
    BY <1>4, AddrIs DEF Bn

LEMMA GrowsSame == \A a, bl : Grows(a, bl, a, bl)
  BY DEF Grows

\* who reads or writes is not disturbed by what others do to their own inodes
\* and files
Undisturbed(q) ==
    /\ call'[q] = call[q] /\ dirty'[q] = dirty[q]
    /\ ftable'[call[q].f].off = ftable[call[q].f].off
    /\ mem'[call[q].ip].size = mem[call[q].ip].size
    /\ mem'[call[q].ip].addrs = mem[call[q].ip].addrs
    /\ Grows(Addrs(q), block, Addrs(q), block')

LEMMA StaysIo ==
    ASSUME FileTypes, CallInv, ChunkInv, HoleInv, ByteInv, LogInv, NEW q \in Procs,
           call[q].pc \in Io, Undisturbed(q)
    PROVE  ChunkOf(q)' /\ HoleOf(q)' /\ ByteOf(q)' /\ LogOf(q)'
  <1>1. /\ call'[q] = call[q] /\ dirty'[q] = dirty[q]
        /\ ftable'[call[q].f].off = ftable[call[q].f].off
        /\ mem'[call[q].ip].size = mem[call[q].ip].size
        /\ Addrs(q)' = Addrs(q)
        /\ Grows(Addrs(q), block, Addrs(q)', block')
    BY DEF Undisturbed, Addrs
  <1>2. ChunkOf(q) /\ HoleOf(q) /\ ByteOf(q) /\ LogOf(q)
    BY DEF ChunkInv, HoleInv, ByteInv, LogInv
  <1>3. Bn(q)' = Bn(q) /\ Start(q)' = Start(q) /\ Visited(q)' = Visited(q)
    BY <1>1 DEF Bn, Start, Visited
  <1>4. call[q] \in CallRec /\ call[q].ip \in AllInodes
    BY DEF FileTypes, CallRec
  <1>5. Addr(q)' = BlockNo(Addrs(q)', block', Bn(q)')
    BY DEF Addr, BlockNo, Direct, NoIndirect, Entry
  <1>6. call[q].pc \in {"map", "copy"} /\ Addr(q) # 0 => Addr(q)' = Addr(q)
    <2> SUFFICES ASSUME call[q].pc \in {"map", "copy"}, Addr(q) # 0 PROVE Addr(q)' = Addr(q)
      OBVIOUS
    <2>1. Bn(q) \in 0..MAXFILE - 1
      BY OffIn
    <2> QED
      BY <1>1, <1>3, <1>5, <2>1, AddrIs DEF Grows
  <1>7. ChunkOf(q)'
    BY <1>1, <1>2, <1>6 DEF ChunkOf
  <1>8. HoleOf(q)'
    <2>1. ASSUME Filled(Addrs(q), block, call[q].off) PROVE Filled(Addrs(q)', block', call'[q].off)
      BY <1>1, <2>1, GrowsFilled
    <2> QED
      BY <1>1, <1>2, <2>1 DEF HoleOf
  <1>9. ByteOf(q)'
    <2> SUFFICES ASSUME call[q].write, NEW k \in mem[call[q].ip].size..call[q].off - 1
                 PROVE  Byte(Addrs(q)', block', k) = q
      BY <1>1 DEF ByteOf
    <2>1. Byte(Addrs(q), block, k) = q
      BY <1>2 DEF ByteOf
    <2>2. Filled(Addrs(q), block, call[q].off)
      BY <1>2 DEF HoleOf
    <2>3. call[q].off \in Int /\ 0 <= call[q].off /\ call[q].off <= Limit
      BY <1>2, <1>4 DEF ChunkOf, CallRec
    <2>4. mem[call[q].ip].size \in Nat
      BY <1>4, Numbers DEF FileTypes, InodeRec
    <2>5. k \in Nat /\ k < call[q].off /\ call[q].off \in Nat
      BY <2>3, <2>4
    <2> QED
      BY <1>1, <2>1, <2>2, <2>3, <2>5, GrowsByte
  <1>10. LogOf(q)'
    <2>1. Logged(q, Addrs(q)[Ind])' <=> Logged(q, Addrs(q)[Ind])
      BY <1>1 DEF Logged
    <2>2. call[q].pc \in {"map", "copy"} /\ Logged(q, Addr(q)) => Logged(q, Addr(q))'
      BY <1>1, <1>6 DEF Logged
    <2>3. ASSUME call[q].pc \in {"map", "copy"}
          PROVE  Cost(q)' \in Int /\ Cost(q) \in Int /\ Cost(q) <= Cost(q)'
      <3>1. call[q].off \in Int /\ call[q].tot \in Int /\ Start(q) \in Int
        BY <1>4 DEF CallRec, Start
      <3>2. Visited(q) \in Int
        <4>1. BSIZE \in Nat \ {0}
          BY Numbers
        <4>2. call[q].off \div BSIZE \in Int /\ Start(q) \div BSIZE \in Int
          BY <3>1, <4>1, DivMod
        <4> QED
          BY <4>2 DEF Visited, Bn
      <3> DEFINE u == IF Start(q) % BSIZE # 0 /\ call[q].tot > 0 THEN 1 ELSE 0
                 l == IF Logged(q, Addr(q)) THEN 2 ELSE 0
                 l2 == IF Logged(q, Addr(q))' THEN 2 ELSE 0
                 m == IF Logged(q, Addrs(q)[Ind]) THEN 2 ELSE 0
      <3>3. u \in Int /\ l \in Int /\ l2 \in Int /\ m \in Int /\ l <= l2
        BY <2>2, <2>3
      <3>4. Cost(q) = 2 * Visited(q) - u + l + m
        BY DEF Cost
      <3>5. Cost(q)' = 2 * Visited(q) - u + l2 + m
        BY <1>1, <1>3, <2>1 DEF Cost
      <3> HIDE DEF u, l, l2, m
      <3> QED
        BY <3>2, <3>3, <3>4, <3>5
    <2>4. IsFiniteSet(dirty[q]) /\ Cardinality(dirty[q]) \in Nat
      BY <1>2, FS_CardinalityType DEF LogOf
    <2> QED
      BY <1>1, <1>2, <1>3, <2>3, <2>4 DEF LogOf
  <1> QED
    BY <1>7, <1>8, <1>9, <1>10

-----------------------------------------------------------------------------
(* Steps that change nothing of files' contents *)

\* nobody starts to read or write, and who does is not disturbed
SameContents ==
    /\ block' = block
    /\ \A i \in Inodes : Current(i)'.addrs = Current(i).addrs /\ Current(i)'.size = Current(i).size
    /\ \A q \in Procs : \/ call'[q].pc \notin Io /\ dirty'[q] = dirty[q] /\ dirty[q] = {}
                        \/ call[q].pc \in Io /\ Undisturbed(q)

\* the bytes of a file are what they were
Kept(i) ==
    /\ Current(i)'.size = Current(i).size
    /\ \A k \in Nat : k < Current(i).size =>
          Byte(Current(i)'.addrs, block', k) = Byte(Current(i).addrs, block, k)

LEMMA SameKept == ASSUME SameContents, NEW i \in Inodes PROVE Kept(i)
  BY DEF SameContents, Kept

LEMMA GrowsKept ==
    ASSUME FileTypes, HoleInv, NEW i \in Inodes, Current(i)'.size = Current(i).size,
           Grows(Current(i).addrs, block, Current(i)'.addrs, block')
    PROVE  Kept(i)
  <1>1. Current(i).size \in Nat /\ Current(i).size <= Limit
    <2>1. Current(i).size \in 0..Limit /\ Limit \in Nat
      BY AddressTypes, Domains, Numbers
    <2> QED
      BY <2>1
  <1>2. Filled(Current(i).addrs, block, Current(i).size)
    BY DEF HoleInv
  <1>3. \A k \in Nat : k < Current(i).size =>
          Byte(Current(i)'.addrs, block', k) = Byte(Current(i).addrs, block, k)
    BY <1>1, <1>2, GrowsByte
  <1> QED
    BY <1>3 DEF Kept

LEMMA ContentsStay ==
    ASSUME FileTypes, CallInv, BlockInv, ChunkInv, HoleInv, ByteInv, LogInv, SameContents
    PROVE  BlockInv' /\ HoleInv' /\ ChunkInv' /\ ByteInv' /\ LogInv'
  <1>1. Addresses' = Addresses
    BY DEF SameContents, Addresses
  <1>2. BlockInv'
    BY <1>1 DEF SameContents, BlockInv
  <1>3. ASSUME NEW q \in Procs, call'[q].pc \in Io
        PROVE  ChunkOf(q)' /\ HoleOf(q)' /\ ByteOf(q)' /\ LogOf(q)'
    BY <1>3, StaysIo DEF SameContents
  <1>4. ChunkInv' /\ ByteInv'
    BY <1>3 DEF ChunkInv, ByteInv
  <1>5. HoleInv'
    <2>1. \A i \in Inodes : Filled(Current(i)'.addrs, block', Current(i)'.size)
      BY DEF SameContents, HoleInv
    <2> QED
      BY <1>3, <2>1 DEF HoleInv
  <1>6. ASSUME NEW q \in Procs, call'[q].pc \notin Io PROVE LogOf(q)'
    <2>1. dirty'[q] = {}
      BY <1>6 DEF SameContents, Undisturbed
    <2>2. IsFiniteSet(dirty'[q])
      BY <2>1, FS_EmptySet
    <2> QED
      BY <1>6, <2>1, <2>2 DEF LogOf, Io
  <1>7. LogInv'
    BY <1>3, <1>6 DEF LogInv
  <1> QED
    BY <1>2, <1>4, <1>5, <1>7

\* who is in no transfer has no transaction
LEMMA NoLog == ASSUME LogInv, NEW q \in Procs, call[q].pc \notin Io PROVE dirty[q] = {}
  BY DEF LogInv, LogOf

\* inodes that change only in the table of them
LEMMA ContentsOf ==
    ASSUME FileTypes, LogInv, DiskInv, NEW p \in Procs, call[p].pc \notin Io, call'[p].pc \notin Io,
           \A q \in Procs : q # p => call'[q] = call[q],
           UNCHANGED <<block, dirty, disk>>,
           \A q \in Procs : q # p /\ call[q].pc \in Io =>
              /\ ftable'[call[q].f].off = ftable[call[q].f].off
              /\ mem'[call[q].ip] = mem[call[q].ip],
           \A i \in Inodes : \/ mem'[i] = mem[i]
                             \/ ~mem[i].valid /\ mem'[i].valid
                                /\ mem'[i].size = disk[i].size /\ mem'[i].addrs = disk[i].addrs
                             \/ mem[i].valid /\ ~mem'[i].valid /\ ~Writing(i)
    PROVE  SameContents
  <1>1. ASSUME NEW i \in Inodes
        PROVE  Current(i)'.addrs = Current(i).addrs /\ Current(i)'.size = Current(i).size
    <2>1. CASE mem'[i] = mem[i]
      BY <2>1 DEF Current
    <2>2. CASE ~mem[i].valid /\ mem'[i].valid /\ mem'[i].size = disk[i].size /\ mem'[i].addrs = disk[i].addrs
      BY <2>2 DEF Current
    <2>3. CASE mem[i].valid /\ ~mem'[i].valid /\ ~Writing(i)
      <3>1. disk[i].size = mem[i].size /\ disk[i].addrs = mem[i].addrs
        BY <2>3, Domains DEF DiskInv
      <3> QED
        BY <2>3, <3>1 DEF Current
    <2> QED
      BY <2>1, <2>2, <2>3
  <1>2. ASSUME NEW q \in Procs, q # p, call[q].pc \in Io PROVE Undisturbed(q)
    <2>1. mem'[call[q].ip] = mem[call[q].ip] /\ Addrs(q)' = Addrs(q)
      BY <1>2 DEF Addrs
    <2> QED
      BY <1>2, <2>1, GrowsSame DEF Undisturbed
  <1>3. ASSUME NEW q \in Procs, q # p, call[q].pc \notin Io
        PROVE  call'[q].pc \notin Io /\ dirty'[q] = dirty[q] /\ dirty[q] = {}
    BY <1>3, NoLog
  <1>4. call'[p].pc \notin Io /\ dirty'[p] = dirty[p] /\ dirty[p] = {}
    BY NoLog
  <1>5. ASSUME NEW q \in Procs
        PROVE  \/ call'[q].pc \notin Io /\ dirty'[q] = dirty[q] /\ dirty[q] = {}
               \/ call[q].pc \in Io /\ Undisturbed(q)
    BY <1>2, <1>3, <1>4
  <1> QED
    BY <1>1, <1>5 DEF SameContents

-----------------------------------------------------------------------------
(* Steps of a transfer change no table *)

Sames(p) ==
    /\ UNCHANGED <<ofile, alive, iref, work>>
    /\ \A f \in Files : /\ ftable'[f].ref = ftable[f].ref /\ ftable'[f].ip = ftable[f].ip
                        /\ ftable'[f].type = ftable[f].type
    /\ \A i \in AllInodes : mem'[i].valid = mem[i].valid
    /\ \A q \in Procs : q # p => call'[q] = call[q]
    /\ p \in alive
    /\ call[p].pc \in Having \cup {"none", "device"}
    /\ call'[p].pc \in Having \cup {"none", "device"}
    /\ call'[p].pc \in Having =>
          /\ call'[p].f # 0 /\ \E d \in Fds : ofile[p][d] = call'[p].f
          /\ ftable[call'[p].f].type = "inode" /\ ftable[call'[p].f].ip = call'[p].ip
          /\ 0 <= call'[p].i /\ call'[p].i < call'[p].n

LEMMA TablesStay ==
    ASSUME FileTypes, FileTypes', CallInv, CountInv, KindInv, ValidInv, NEW p \in Procs, Sames(p)
    PROVE  CallInv' /\ CountInv' /\ KindInv' /\ ValidInv'
  <1>1. /\ ofile' = ofile /\ alive' = alive /\ iref' = iref
        /\ \A q \in Procs : q # p => call'[q] = call[q]
    BY DEF Sames
  <1>2. ASSUME NEW q \in Procs PROVE CallOf(q)'
    <2>1. CASE q = p
      <3>1. call'[p].pc \in Having => call'[p].f \in Files
        BY DEF Sames, FileTypes, CallRec
      <3> QED
        BY <2>1, <3>1 DEF Sames, CallOf, Having, Io
    <2>2. CASE q # p
      <3>1. CallOf(q)
        BY DEF CallInv
      <3>2. call[q].pc \in Having => call[q].f \in Files
        BY <3>1 DEF FileTypes, CallRec, CallOf
      <3>3. call'[q] = call[q] /\ ofile' = ofile /\ alive' = alive
        BY <1>1, <2>2
      <3>4. call[q].pc \in Having => /\ ftable'[call[q].f].type = ftable[call[q].f].type
                                     /\ ftable'[call[q].f].ip = ftable[call[q].f].ip
        BY <3>2 DEF Sames
      <3> QED
        BY <3>1, <3>3, <3>4 DEF CallOf
    <2> QED
      BY <2>1, <2>2
  <1>3. CallInv'
    BY <1>2 DEF CallInv
  <1>4. \A q \in Procs : /\ call[q].pc = "dup" <=> call'[q].pc = "dup"
                         /\ call[q].pc \in {"open", "iput"} <=> call'[q].pc \in {"open", "iput"}
                         /\ call[q].pc \in {"dup", "open", "iput"} => call'[q] = call[q]
    BY <1>1 DEF Sames, Having, Io
  <1>5. \A f \in Files : Descs(f)' = Descs(f) /\ Dupers(f)' = Dupers(f)
    BY <1>1, <1>4 DEF Descs, Dupers
  <1>6. \A i \in AllInodes : FilesOf(i)' = FilesOf(i) /\ Callers(i)' = Callers(i)
    <2>1. \A i : FilesOf(i)' = FilesOf(i)
      BY DEF FilesOf, Sames
    <2>2. \A i : Callers(i)' = Callers(i)
      BY <1>4 DEF Callers
    <2> QED
      BY <2>1, <2>2
  <1>7. CountInv'
    BY <1>1, <1>5, <1>6 DEF CountInv, Sames
  <1>8. KindInv'
    BY DEF KindInv, Sames, TypeOf
  <1>9. ValidInv'
    BY DEF ValidInv, Sames
  <1> QED
    BY <1>3, <1>7, <1>8, <1>9

-----------------------------------------------------------------------------
(* Inodes that are opened, and put *)

\* a call that is not about a descriptor
LEMMA CallsStay ==
    ASSUME FileTypes, CallInv, NEW p \in Procs, p \in alive,
           \A q \in Procs : q # p => call'[q] = call[q],
           UNCHANGED <<ofile, alive>>,
           \A f \in Files : ftable'[f].type = ftable[f].type /\ ftable'[f].ip = ftable[f].ip,
           call'[p].pc \in {"none", "open", "iput", "device"}
    PROVE  CallInv'
  <1>1. ASSUME NEW q \in Procs PROVE CallOf(q)'
    <2>1. CASE q = p
      BY <2>1 DEF CallOf, Having, Io
    <2>2. CASE q # p
      <3>1. CallOf(q) /\ call'[q] = call[q] /\ ofile' = ofile /\ alive' = alive
        BY <2>2 DEF CallInv
      <3>2. call[q].pc \in Having => call[q].f \in Files
        BY <3>1 DEF FileTypes, CallRec, CallOf
      <3>3. call[q].pc \in Having => /\ ftable'[call[q].f].type = ftable[call[q].f].type
                                     /\ ftable'[call[q].f].ip = ftable[call[q].f].ip
        BY <3>2
      <3> QED
        BY <3>1, <3>3 DEF CallOf
    <2> QED
      BY <2>1, <2>2
  <1> QED
    BY <1>1 DEF CallInv

\* who writes goes on
LEMMA WritersStay ==
    ASSUME NEW p \in Procs, \A q \in Procs : q # p => call'[q] = call[q],
           call[p].pc \notin Io, call'[p].pc \notin Io
    PROVE  \A i : Writing(i)' <=> Writing(i)
  BY DEF Writing

LEMMA NoCallTyped == NoCall \in CallRec
  BY Domains DEF NoCall, CallRec, CallPcs, Having, Io

LEMMA GoTypes ==
    ASSUME FileTypes, NEW p \in Procs, NEW c \in CallRec, Go(p, c)
    PROVE  call' \in [Procs -> CallRec]
  BY DEF FileTypes, Go

LEMMA OpenLockStep ==
    ASSUME IInv, NEW p \in Procs, OpenLock(p)
    PROVE  IInv' /\ SameContents
  <1> DEFINE c(i, t) == [NoCall EXCEPT !.pc = "open", !.ip = i, !.trunc = t]
  <1>0. {FALSE, "trunc" \in work.calls[p]} \subseteq BOOLEAN
    OBVIOUS
  <1>1. PICK i \in work.ips[p], t \in {FALSE, "trunc" \in work.calls[p]} :
          /\ ilock[i] = 0 /\ ilock' = [ilock EXCEPT ![i] = p]
          /\ iref' = [iref EXCEPT ![i] = @ + 1]
          /\ mem' = [mem EXCEPT ![i] =
               IF @.valid THEN @
               ELSE [valid |-> TRUE, size |-> disk[i].size, addrs |-> disk[i].addrs]]
          /\ Go(p, c(i, t))
    BY DEF OpenLock, Locks
  <1>2. /\ p \in alive /\ call[p].pc = "none"
        /\ UNCHANGED <<ftable, ofile, alive, disk, block, dirty, work>>
    BY DEF OpenLock, Makes, At, tableVars, blockVars, Quiet
  <1>3. i \in AllInodes
    BY <1>1, WorkAssumption DEF IInv, FileTypes, Procs, AllInodes
  <1>4. c(i, t) \in CallRec /\ c(i, t).pc = "open" /\ c(i, t).ip = i
    <2>1. t \in BOOLEAN
      BY <1>0
    <2>2. NoCall \in CallRec /\ "open" \in CallPcs
      BY NoCallTyped DEF CallPcs
    <2> HIDE <1>0, <1>1
    <2> QED
      BY <1>3, <2>1, <2>2 DEF CallRec
  <1> HIDE DEF c
  <1>5. call'[p] = c(i, t) /\ \A q \in Procs : q # p => call'[q] = call[q]
    BY <1>1, Goes DEF IInv
  <1>6. FileTypes'
    <2>1. call' \in [Procs -> CallRec]
      BY <1>1, <1>4, GoTypes DEF IInv
    <2>2. ilock' \in [AllInodes -> {0} \cup Procs] /\ iref' \in [AllInodes -> Int]
      BY <1>1, <1>3 DEF IInv, FileTypes
    <2>3. mem' \in [AllInodes -> InodeRec]
      <3>1. [valid |-> TRUE, size |-> disk[i].size, addrs |-> disk[i].addrs] \in InodeRec
        BY <1>3 DEF IInv, FileTypes, DiskRec, InodeRec
      <3> QED
        BY <1>1, <1>3, <3>1 DEF IInv, FileTypes
    <2> QED
      BY <1>2, <2>1, <2>2, <2>3 DEF IInv, FileTypes
  <1>7. CallInv'
    BY <1>2, <1>4, <1>5, CallsStay DEF IInv
  <1>8. CountInv'
    <2>1. \A f \in Files : Descs(f)' = Descs(f) /\ Dupers(f)' = Dupers(f)
      BY <1>2, <1>4, <1>5 DEF Descs, Dupers
    <2>2. \A j \in AllInodes : FilesOf(j)' = FilesOf(j)
      BY <1>2 DEF FilesOf
    <2>3. \A j \in AllInodes : j # i => Callers(j)' = Callers(j)
      BY <1>2, <1>4, <1>5 DEF Callers
    <2>4. Callers(i)' = Callers(i) \cup {p} /\ p \notin Callers(i)
      BY <1>2, <1>4, <1>5 DEF Callers
    <2>5. Cardinality(Callers(i)') = Cardinality(Callers(i)) + 1
      BY <2>4, Finite, FS_AddElement
    <2>6. \A j \in AllInodes : iref'[j] = IF j = i THEN iref[i] + 1 ELSE iref[j]
      BY <1>1, <1>3 DEF IInv, FileTypes
    <2> QED
      BY <1>2, <1>3, <2>1, <2>2, <2>3, <2>5, <2>6, Finite DEF IInv, CountInv
  <1>9. KindInv'
    BY <1>2 DEF IInv, KindInv, TypeOf
  <1>10. LockInv'
    <2>1. \A j \in AllInodes : ilock'[j] = IF j = i THEN p ELSE ilock[j]
      BY <1>1, <1>3 DEF IInv, FileTypes
    <2>2. \A q \in Procs : ilock[i] # q
      BY <1>1, Domains
    <2> QED
      BY <1>2, <1>3, <1>4, <1>5, <2>1, <2>2 DEF IInv, LockInv, Io
  <1>11. mem'[i].valid /\ \A j \in AllInodes : j # i => mem'[j] = mem[j]
    BY <1>1, <1>3 DEF IInv, FileTypes
  <1>12. mem[i].valid => mem'[i] = mem[i]
    BY <1>1, <1>3 DEF IInv, FileTypes
  <1>13. ~mem[i].valid => mem'[i].size = disk[i].size /\ mem'[i].addrs = disk[i].addrs
    BY <1>1, <1>3 DEF IInv, FileTypes
  <1>14. ValidInv'
    <2>1. iref'[i] > 0 /\ \A j \in AllInodes : j # i => iref'[j] = iref[j]
      <3>1. iref[i] \in Nat
        BY <1>3, InodeInUse DEF IInv
      <3> QED
        BY <1>1, <1>3, <3>1 DEF IInv, FileTypes
    <2> QED
      BY <1>3, <1>11, <2>1 DEF IInv, ValidInv
  <1>15. DiskInv'
    <2>1. \A j : Writing(j)' <=> Writing(j)
      BY <1>2, <1>4, <1>5, WritersStay DEF Io
    <2> QED
      BY <1>2, <1>3, <1>11, <1>12, <1>13, <2>1 DEF IInv, DiskInv
  <1>16. SameContents
    <2>1. call[p].pc \notin Io /\ call'[p].pc \notin Io
      BY <1>2, <1>4, <1>5 DEF Io
    <2>2. \A q \in Procs : q # p /\ call[q].pc \in Io =>
              /\ ftable'[call[q].f].off = ftable[call[q].f].off
              /\ mem'[call[q].ip] = mem[call[q].ip]
      <3> SUFFICES ASSUME NEW q \in Procs, q # p, call[q].pc \in Io
                   PROVE  mem'[call[q].ip] = mem[call[q].ip]
        BY <1>2
      <3>1. call[q].ip \in AllInodes /\ ilock[call[q].ip] = q
        BY DEF IInv, LockInv, FileTypes, CallRec
      <3>2. call[q].ip # i
        BY <1>1, <3>1, Domains
      <3> QED
        BY <1>11, <3>1, <3>2
    <2>3. \A j \in Inodes : \/ mem'[j] = mem[j]
                            \/ ~mem[j].valid /\ mem'[j].valid
                               /\ mem'[j].size = disk[j].size /\ mem'[j].addrs = disk[j].addrs
                            \/ mem[j].valid /\ ~mem'[j].valid /\ ~Writing(j)
      BY <1>11, <1>12, <1>13, Domains
    <2> QED
      BY <1>2, <1>5, <2>1, <2>2, <2>3, ContentsOf DEF IInv
  <1>17. BlockInv' /\ HoleInv' /\ ChunkInv' /\ ByteInv' /\ LogInv'
    BY <1>16, ContentsStay DEF IInv
  <1> QED
    BY <1>6, <1>7, <1>8, <1>9, <1>10, <1>14, <1>15, <1>16, <1>17 DEF IInv

\* iput() gives up the copy of an inode that nobody has in memory any more
LEMMA IputStep ==
    ASSUME IInv, NEW p \in Procs, p \in alive, call[p].pc \in {"open", "iput"},
           Iput(call[p].ip), Go(p, NoCall),
           UNCHANGED <<ftable, ofile, alive, disk, block, dirty, work>>,
           ilock' \in [AllInodes -> {0} \cup Procs]
    PROVE  /\ FileTypes' /\ CallInv' /\ CountInv' /\ KindInv' /\ ValidInv' /\ DiskInv'
           /\ BlockInv' /\ HoleInv' /\ ChunkInv' /\ ByteInv' /\ LogInv'
           /\ SameContents
  <1>1. PICK i \in AllInodes : call[p].ip = i
    BY DEF IInv, FileTypes, CallRec
  <1>2. /\ iref' = [iref EXCEPT ![i] = @ - 1]
        /\ mem' = [mem EXCEPT ![i] = IF iref[i] = 1 THEN Evicted ELSE @]
    BY <1>1 DEF Iput
  <1>3. call'[p] = NoCall /\ NoCall.pc = "none" /\ \A q \in Procs : q # p => call'[q] = call[q]
    BY Goes, NoCallIs DEF IInv
  <1>4. iref[i] \in Nat /\ iref[i] > 0
    BY <1>1, InodeInUse DEF IInv
  <1>5. p \in Callers(i)
    BY <1>1 DEF Callers
  <1>6. \A j \in AllInodes : iref'[j] = IF j = i THEN iref[i] - 1 ELSE iref[j]
    BY <1>1, <1>2 DEF IInv, FileTypes
  <1>7. \A j \in AllInodes : mem'[j] = IF j = i /\ iref[i] = 1 THEN Evicted ELSE mem[j]
    BY <1>1, <1>2 DEF IInv, FileTypes
  <1>8. FileTypes'
    <2>1. call' \in [Procs -> CallRec]
      BY NoCallTyped, GoTypes DEF IInv
    <2>2. iref' \in [AllInodes -> Int]
      BY <1>1, <1>2 DEF IInv, FileTypes
    <2>3. mem' \in [AllInodes -> InodeRec]
      <3>1. Evicted \in InodeRec
        BY Numbers DEF Evicted, NoBlocks, InodeRec, Ptrs
      <3> QED
        BY <1>1, <1>2, <3>1 DEF IInv, FileTypes
    <2> QED
      BY <2>1, <2>2, <2>3 DEF IInv, FileTypes
  <1>9. CallInv'
    BY <1>3, CallsStay DEF IInv
  <1>10. Callers(i)' = Callers(i) \ {p} /\ \A j : j # i => Callers(j)' = Callers(j)
    BY <1>1, <1>3 DEF Callers
  <1>11. \A j : FilesOf(j)' = FilesOf(j)
    BY DEF FilesOf
  <1>12. CountInv'
    <2>1. \A f \in Files : Descs(f)' = Descs(f) /\ Dupers(f)' = Dupers(f)
      BY <1>3 DEF Descs, Dupers
    <2>2. Cardinality(Callers(i)') = Cardinality(Callers(i)) - 1
      BY <1>5, <1>10, Finite, FS_RemoveElement
    <2>3. \A f \in Files : ftable'[f].ref = Cardinality(Descs(f)') - Cardinality(Dupers(f)')
      BY <2>1 DEF IInv, CountInv
    <2>4. ASSUME NEW j \in AllInodes
          PROVE  iref'[j] = Cardinality(FilesOf(j)') + Cardinality(Callers(j)')
      <3>1. iref[j] = Cardinality(FilesOf(j)) + Cardinality(Callers(j))
        BY DEF IInv, CountInv
      <3>2. FilesOf(j)' = FilesOf(j) /\ (j # i => Callers(j)' = Callers(j))
        BY <1>10, <1>11
      <3> QED
        BY <1>6, <2>2, <3>1, <3>2, Finite
    <2> QED
      BY <2>3, <2>4 DEF CountInv
  <1>13. KindInv'
    BY DEF IInv, KindInv, TypeOf
  <1>14. ValidInv'
    <2>1. Evicted.valid = FALSE
      BY DEF Evicted
    <2> QED
      BY <1>1, <1>4, <1>6, <1>7, <2>1 DEF IInv, ValidInv
  \* the last reference is this one
  <1>15. iref[i] = 1 => \A q \in Procs : call[q].pc \in Io => call[q].ip # i
    <2> SUFFICES ASSUME iref[i] = 1, NEW q \in Procs, call[q].pc \in Io, call[q].ip = i PROVE FALSE
      OBVIOUS
    <2>1. call[q].f \in FilesOf(i)
      BY HasFile DEF IInv, FilesOf, Having
    <2>2. Cardinality(FilesOf(i)) > 0 /\ Cardinality(Callers(i)) > 0
      BY <1>5, <2>1, Finite, Positive
    <2> QED
      BY <1>1, <2>2, Finite DEF IInv, CountInv
  <1>16. call[p].pc \notin Io /\ call'[p].pc \notin Io
    BY <1>3 DEF Io
  <1>17. DiskInv'
    <2>1. \A j : Writing(j)' <=> Writing(j)
      BY <1>3, <1>16, WritersStay
    <2>2. Evicted.valid = FALSE
      BY DEF Evicted
    <2> QED
      BY <1>1, <1>7, <2>1, <2>2 DEF IInv, DiskInv
  <1>18. SameContents
    <2>1. \A q \in Procs : q # p /\ call[q].pc \in Io =>
              /\ ftable'[call[q].f].off = ftable[call[q].f].off
              /\ mem'[call[q].ip] = mem[call[q].ip]
      BY <1>7, <1>15 DEF IInv, FileTypes, CallRec
    <2>2. \A j \in Inodes : \/ mem'[j] = mem[j]
                            \/ ~mem[j].valid /\ mem'[j].valid
                               /\ mem'[j].size = disk[j].size /\ mem'[j].addrs = disk[j].addrs
                            \/ mem[j].valid /\ ~mem'[j].valid /\ ~Writing(j)
      <3> SUFFICES ASSUME NEW j \in Inodes, mem'[j] # mem[j]
                   PROVE  mem[j].valid /\ ~mem'[j].valid /\ ~Writing(j)
        OBVIOUS
      <3>1. j = i /\ iref[i] = 1 /\ mem'[j] = Evicted
        BY <1>7, Domains
      <3>2. ~Evicted.valid /\ mem[i].valid
        BY <1>1, <1>4 DEF Evicted, IInv, ValidInv
      <3> QED
        BY <1>15, <3>1, <3>2 DEF Writing
    <2> QED
      BY <1>3, <1>16, <2>1, <2>2, ContentsOf DEF IInv
  <1>19. BlockInv' /\ HoleInv' /\ ChunkInv' /\ ByteInv' /\ LogInv'
    BY <1>18, ContentsStay DEF IInv
  <1> QED
    BY <1>8, <1>9, <1>12, <1>13, <1>14, <1>17, <1>18, <1>19

LEMMA OpenFailsStep ==
    ASSUME IInv, NEW p \in Procs, OpenFails(p)
    PROVE  IInv' /\ SameContents
  <1>1. /\ p \in alive /\ call[p].pc = "open" /\ Iput(call[p].ip) /\ Go(p, NoCall)
        /\ UNCHANGED <<ftable, ofile, alive, disk, block, dirty, work>>
        /\ ilock' = [ilock EXCEPT ![call[p].ip] = 0]
    BY DEF OpenFails, At, Unlocks, tableVars, blockVars, Quiet
  <1>2. call[p].ip \in AllInodes
    BY DEF IInv, FileTypes, CallRec
  <1>3. ilock' \in [AllInodes -> {0} \cup Procs]
    BY <1>1, <1>2 DEF IInv, FileTypes
  <1>4. call'[p] = NoCall /\ NoCall.pc = "none" /\ \A q \in Procs : q # p => call'[q] = call[q]
    BY <1>1, Goes, NoCallIs DEF IInv
  <1>5. LockInv'
    <2>1. \A j \in AllInodes : ilock'[j] = IF j = call[p].ip THEN 0 ELSE ilock[j]
      BY <1>1, <1>2 DEF IInv, FileTypes
    <2>2. ilock[call[p].ip] = p
      BY <1>1, <1>2 DEF IInv, LockInv
    <2> QED
      BY <1>1, <1>2, <1>4, <2>1, <2>2, Domains DEF IInv, LockInv, Io
  <1> QED
    BY <1>1, <1>3, <1>5, IputStep DEF IInv

LEMMA CloseIputStep ==
    ASSUME IInv, NEW p \in Procs, CloseIput(p)
    PROVE  IInv' /\ SameContents
  <1>1. /\ p \in alive /\ call[p].pc = "iput" /\ Iput(call[p].ip) /\ Go(p, NoCall)
        /\ UNCHANGED <<ftable, ofile, alive, disk, ilock, block, dirty, work>>
    BY DEF CloseIput, At, tableVars, blockVars, Quiet
  <1>2. ilock' \in [AllInodes -> {0} \cup Procs]
    BY <1>1 DEF IInv, FileTypes
  <1>3. call'[p] = NoCall /\ NoCall.pc = "none" /\ \A q \in Procs : q # p => call'[q] = call[q]
    BY <1>1, Goes, NoCallIs DEF IInv
  <1>4. LockInv'
    BY <1>1, <1>3 DEF IInv, LockInv, Io
  <1> QED
    BY <1>1, <1>2, <1>4, IputStep DEF IInv

-----------------------------------------------------------------------------
(* Descriptors *)

\* what a step that only changes descriptors and the table of files leaves
LEMMA OnlyTables ==
    ASSUME IInv, NEW p \in Procs, \A q \in Procs : q # p => call'[q] = call[q],
           call[p].pc \notin Io \cup {"open"}, call'[p].pc \notin Io \cup {"open"},
           UNCHANGED <<mem, disk, iref, ilock, block, dirty, work>>,
           \A q \in Procs : q # p /\ call[q].pc \in Io =>
              ftable'[call[q].f].off = ftable[call[q].f].off
    PROVE  /\ LockInv' /\ ValidInv' /\ DiskInv'
           /\ BlockInv' /\ HoleInv' /\ ChunkInv' /\ ByteInv' /\ LogInv'
  <1>1. LockInv'
    BY DEF IInv, LockInv
  <1>2. ValidInv'
    BY DEF IInv, ValidInv
  <1>3. DiskInv'
    BY WritersStay DEF IInv, DiskInv
  <1>4. SameContents
    BY ContentsOf DEF IInv
  <1> QED
    BY <1>1, <1>2, <1>3, <1>4, ContentsStay DEF IInv

LEMMA RefTyped ==
    ASSUME NEW x \in FileRec
    PROVE  /\ x.ref \in Int
           /\ \A n \in Int : [x EXCEPT !.ref = n] \in FileRec
           /\ \A n \in 0..Limit : [x EXCEPT !.off = n] \in FileRec
  BY DEF FileRec

LEMMA DupStep ==
    ASSUME IInv, NEW p \in Procs, Dup(p)
    PROVE  IInv'
  <1>1. /\ p \in alive /\ call[p].pc = "none" /\ FreeFds(p) # {}
        /\ UNCHANGED <<ftable, alive, mem, disk, iref, ilock, block, dirty, work>>
    BY DEF Dup, Makes, At, inodeVars, blockVars, Quiet
  <1>2. PICK d \in Fds \ FreeFds(p) :
          /\ ofile' = [ofile EXCEPT ![p][First(FreeFds(p))] = ofile[p][d]]
          /\ Go(p, [NoCall EXCEPT !.pc = "dup", !.f = ofile[p][d]])
    BY DEF Dup
  <1>3. PICK c \in Fds : c = First(FreeFds(p)) /\ ofile[p][c] = 0
    <2>1. FreeFds(p) \subseteq Nat
      BY Domains DEF FreeFds
    <2>2. First(FreeFds(p)) \in FreeFds(p)
      BY <1>1, <2>1, FirstOf
    <2> QED
      BY <2>2 DEF FreeFds
  <1>4. PICK f \in Files : f = ofile[p][d]
    BY DEF FreeFds, IInv, FileTypes
  <1>5. ofile' = [ofile EXCEPT ![p][c] = f]
    BY <1>2, <1>3, <1>4
  <1>6. \A q \in Procs, x \in Fds : ofile'[q][x] = IF q = p /\ x = c THEN f ELSE ofile[q][x]
    BY <1>5 DEF IInv, FileTypes
  <1> DEFINE v == [NoCall EXCEPT !.pc = "dup", !.f = f]
  <1>7. v \in CallRec /\ v.pc = "dup" /\ v.f = f
    <2>1. NoCall \in CallRec /\ "dup" \in CallPcs
      BY NoCallTyped DEF CallPcs
    <2> QED
      BY <2>1 DEF CallRec
  <1>8. Go(p, v)
    BY <1>2, <1>4
  <1> HIDE DEF v
  <1>9. call'[p] = v /\ \A q \in Procs : q # p => call'[q] = call[q]
    BY <1>8, Goes DEF IInv
  <1>10. FileTypes'
    <2>1. call' \in [Procs -> CallRec]
      BY <1>7, <1>8, GoTypes DEF IInv
    <2>2. ofile' \in [Procs -> [Fds -> {0} \cup Files]]
      BY <1>5 DEF IInv, FileTypes
    <2> QED
      BY <1>1, <2>1, <2>2 DEF IInv, FileTypes
  <1>11. CallInv'
    <2> SUFFICES ASSUME NEW q \in Procs PROVE CallOf(q)'
      BY DEF CallInv
    <2>1. CallOf(q)
      BY DEF IInv, CallInv
    <2>2. CASE q = p
      <3>1. c # d /\ ofile'[p][c] = f /\ ofile'[p][d] = f /\ f # 0
        BY <1>3, <1>4, <1>6, Domains
      <3> QED
        BY <1>1, <1>7, <1>9, <2>2, <3>1 DEF CallOf, Having, Io
    <2>3. CASE q # p
      BY <1>1, <1>6, <1>9, <2>1, <2>3 DEF CallOf
    <2> QED
      BY <2>2, <2>3
  <1>12. CountInv'
    <2>1. \A g \in Files : g # f => Descs(g)' = Descs(g) /\ Dupers(g)' = Dupers(g)
      <3>1. \A g \in Files : g # 0
        BY Domains
      <3> QED
        BY <1>1, <1>3, <1>6, <1>7, <1>9, <3>1 DEF Descs, Dupers
    <2>2. Descs(f)' = Descs(f) \cup {<<p, c>>} /\ <<p, c>> \notin Descs(f)
      <3>1. \A x \in Procs \X Fds : x = <<p, c>> <=> x[1] = p /\ x[2] = c
        OBVIOUS
      <3>2. f # 0 /\ <<p, c>> \in Procs \X Fds
        BY Domains
      <3> QED
        BY <1>3, <1>6, <3>1, <3>2 DEF Descs
    <2>3. Dupers(f)' = Dupers(f) \cup {p} /\ p \notin Dupers(f)
      BY <1>1, <1>7, <1>9 DEF Dupers
    <2>4. /\ Cardinality(Descs(f)') = Cardinality(Descs(f)) + 1
          /\ Cardinality(Dupers(f)') = Cardinality(Dupers(f)) + 1
      BY <2>2, <2>3, Finite, FS_AddElement
    <2>5. \A g \in Files : ftable'[g].ref = Cardinality(Descs(g)') - Cardinality(Dupers(g)')
      <3> SUFFICES ASSUME NEW g \in Files
                   PROVE  ftable'[g].ref = Cardinality(Descs(g)') - Cardinality(Dupers(g)')
        OBVIOUS
      <3>1. ftable'[g].ref = Cardinality(Descs(g)) - Cardinality(Dupers(g))
        BY <1>1 DEF IInv, CountInv
      <3>2. CASE g = f
        BY <2>4, <3>1, <3>2, Finite
      <3>3. CASE g # f
        BY <2>1, <3>1, <3>3
      <3> QED
        BY <3>2, <3>3
    <2>6. \A j : FilesOf(j)' = FilesOf(j) /\ Callers(j)' = Callers(j)
      BY <1>1, <1>7, <1>9 DEF FilesOf, Callers
    <2> QED
      BY <1>1, <2>5, <2>6 DEF IInv, CountInv
  <1>13. KindInv'
    BY <1>1 DEF IInv, KindInv, TypeOf
  <1>14. /\ LockInv' /\ ValidInv' /\ DiskInv'
         /\ BlockInv' /\ HoleInv' /\ ChunkInv' /\ ByteInv' /\ LogInv'
    BY <1>1, <1>7, <1>9, OnlyTables DEF Io
  <1> QED
    BY <1>10, <1>11, <1>12, <1>13, <1>14 DEF IInv

LEMMA FiledupStep ==
    ASSUME IInv, NEW p \in Procs, Filedup(p)
    PROVE  IInv'
  <1>1. /\ p \in alive /\ call[p].pc = "dup" /\ Go(p, NoCall)
        /\ ftable' = [ftable EXCEPT ![call[p].f].ref = @ + 1]
        /\ UNCHANGED <<ofile, alive, mem, disk, iref, ilock, block, dirty, work>>
    BY DEF Filedup, At, inodeVars, blockVars, Quiet
  <1>2. PICK f \in Files : call[p].f = f
    BY <1>1 DEF IInv, FileTypes, CallRec, CallInv, CallOf
  <1>3. call'[p] = NoCall /\ NoCall.pc = "none" /\ \A q \in Procs : q # p => call'[q] = call[q]
    BY <1>1, Goes, NoCallIs DEF IInv
  <1>4. \A g \in Files : /\ ftable'[g].ref = IF g = f THEN ftable[g].ref + 1 ELSE ftable[g].ref
                         /\ ftable'[g].type = ftable[g].type /\ ftable'[g].ip = ftable[g].ip
                         /\ ftable'[g].off = ftable[g].off
    BY <1>1, <1>2 DEF IInv, FileTypes, FileRec
  <1>5. FileTypes'
    <2>1. call' \in [Procs -> CallRec]
      BY <1>1, NoCallTyped, GoTypes DEF IInv
    <2>2. ftable' \in [Files -> FileRec]
      <3>1. [ftable[f] EXCEPT !.ref = ftable[f].ref + 1] \in FileRec
        <4>1. ftable[f] \in FileRec
          BY DEF IInv, FileTypes
        <4>2. ftable[f].ref + 1 \in Int
          BY <4>1, RefTyped
        <4> QED
          BY <4>1, <4>2, RefTyped
      <3>2. ftable' = [ftable EXCEPT ![f] = [ftable[f] EXCEPT !.ref = ftable[f].ref + 1]]
        BY <1>1, <1>2 DEF IInv, FileTypes
      <3> QED
        BY <3>1, <3>2 DEF IInv, FileTypes
    <2> QED
      BY <1>1, <2>1, <2>2 DEF IInv, FileTypes
  <1>6. CallInv'
    BY <1>1, <1>3, <1>4, CallsStay DEF IInv
  <1>7. ftable[f].ref > 0
    <2>1. \E d \in Fds : ofile[p][d] = f
      BY <1>1, <1>2 DEF IInv, CallInv, CallOf
    <2> QED
      BY <2>1, InUse DEF IInv
  <1>8. CountInv'
    <2>1. \A g \in Files : Descs(g)' = Descs(g) /\ (g # f => Dupers(g)' = Dupers(g))
      BY <1>1, <1>2, <1>3 DEF Descs, Dupers
    <2>2. Dupers(f)' = Dupers(f) \ {p} /\ p \in Dupers(f)
      BY <1>1, <1>2, <1>3 DEF Dupers
    <2>3. Cardinality(Dupers(f)') = Cardinality(Dupers(f)) - 1
      BY <2>2, Finite, FS_RemoveElement
    <2>4. ASSUME NEW g \in Files
          PROVE  ftable'[g].ref = Cardinality(Descs(g)') - Cardinality(Dupers(g)')
      <3>1. ftable[g].ref = Cardinality(Descs(g)) - Cardinality(Dupers(g))
        BY DEF IInv, CountInv
      <3> QED
        BY <1>4, <2>1, <2>3, <3>1, Finite
    <2>5. \A j : FilesOf(j)' = FilesOf(j)
      <3>1. \A g \in Files : ftable'[g].ref > 0 <=> ftable[g].ref > 0
        BY <1>4, <1>7 DEF IInv, FileTypes, FileRec
      <3> QED
        BY <1>4, <3>1 DEF FilesOf
    <2>6. \A j : Callers(j)' = Callers(j)
      BY <1>1, <1>3 DEF Callers
    <2> QED
      BY <1>1, <2>4, <2>5, <2>6 DEF IInv, CountInv
  <1>9. KindInv'
    BY <1>4, <1>7 DEF IInv, KindInv, TypeOf
  <1>10. \A q \in Procs : q # p /\ call[q].pc \in Io => ftable'[call[q].f].off = ftable[call[q].f].off
    BY <1>4, HasFile DEF IInv, Having
  <1>11. /\ LockInv' /\ ValidInv' /\ DiskInv'
         /\ BlockInv' /\ HoleInv' /\ ChunkInv' /\ ByteInv' /\ LogInv'
    BY <1>1, <1>3, <1>10, OnlyTables DEF Io
  <1> QED
    BY <1>5, <1>6, <1>8, <1>9, <1>11 DEF IInv

\* the child has the parent's descriptors, each of which is counted
LEMMA ForkStep ==
    ASSUME IInv, NEW p \in Procs, Fork(p)
    PROVE  IInv'
  <1>1. /\ p \in alive /\ call[p].pc = "none"
        /\ UNCHANGED <<mem, disk, iref, ilock, block, dirty, call, work>>
    BY DEF Fork, Makes, At, inodeVars, blockVars, Quiet
  <1>2. PICK c \in Procs \ alive : alive' = alive \cup {c} /\ ofile' = [ofile EXCEPT ![c] = ofile[p]]
    BY DEF Fork
  <1> DEFINE own(f) == {d \in Fds : ofile[p][d] = f}
             n(f) == Cardinality(own(f))
  <1>3. ftable' = [f \in Files |-> [ftable[f] EXCEPT !.ref = ftable[f].ref + n(f)]]
    BY DEF Fork
  <1>4. \A f : IsFiniteSet(own(f)) /\ n(f) \in Nat
    <2>1. \A f : own(f) \subseteq Fds
      OBVIOUS
    <2> HIDE DEF own
    <2>2. \A f : IsFiniteSet(own(f))
      BY <2>1, Domains, FS_Subset
    <2> QED
      BY <2>2, FS_CardinalityType
  <1>5. call[c].pc = "none" /\ \A d \in Fds : ofile[c][d] = 0
    BY <1>2 DEF IInv, CallInv, CallOf
  <1>6. \A q \in Procs, d \in Fds : ofile'[q][d] = IF q = c THEN ofile[p][d] ELSE ofile[q][d]
    BY <1>2 DEF IInv, FileTypes
  <1>7. \A f \in Files : own(f) # {} => ftable[f].ref > 0
    BY InUse DEF IInv
  <1>8. \A f \in Files : own(f) = {} => n(f) = 0
    BY FS_EmptySet
  <1>9. ASSUME NEW f \in Files
        PROVE  Cardinality(Descs(f)') = Cardinality(Descs(f)) + n(f)
    <2> DEFINE C == {<<c, d>> : d \in own(f)}
               g == [d \in own(f) |-> <<c, d>>]
    <2>1. Descs(f)' = Descs(f) \cup C
      <3>1. \A x \in Procs \X Fds : x = <<x[1], x[2]>> /\ x[1] \in Procs /\ x[2] \in Fds
        OBVIOUS
      <3>2. f # 0
        BY Domains
      <3>3. \A x \in Procs \X Fds : x \in C <=> x[1] = c /\ ofile[p][x[2]] = f
        BY <3>1
      <3>4. C \subseteq Procs \X Fds
        BY <1>2
      <3>5. \A x \in Procs \X Fds : x \in Descs(f)' <=> ofile'[x[1]][x[2]] = f
        BY DEF Descs
      <3>6. \A x \in Procs \X Fds : x \in Descs(f) <=> ofile[x[1]][x[2]] = f
        BY DEF Descs
      <3>7. Descs(f)' \subseteq Procs \X Fds /\ Descs(f) \subseteq Procs \X Fds
        BY DEF Descs
      <3>8. \A x \in Procs \X Fds : x \in Descs(f)' <=> x \in Descs(f) \/ x \in C
        BY <1>5, <1>6, <3>1, <3>2, <3>3, <3>5, <3>6
      <3> HIDE DEF C
      <3> QED
        BY <3>4, <3>7, <3>8
    <2>2. Descs(f) \cap C = {}
      <3>1. \A x \in C : x \notin Descs(f)
        BY <1>5, Domains DEF Descs
      <3> QED
        BY <3>1
    <2>3. g \in Bijection(own(f), C)
      <3>1. g \in [own(f) -> C] /\ (\A x, y \in own(f) : g[x] = g[y] => x = y)
            /\ \A t \in C : \E s \in own(f) : g[s] = t
        OBVIOUS
      <3> HIDE DEF g, C, own
      <3> QED
        BY <3>1 DEF Bijection, Injection, Surjection, IsInjective
    <2> HIDE DEF C, g, own
    <2>4. IsFiniteSet(C) /\ Cardinality(C) = n(f)
      <3>1. ExistsBijection(own(f), C)
        BY <2>3 DEF ExistsBijection
      <3> QED
        BY <1>4, <3>1, FS_Bijection
    <2>5. Cardinality(Descs(f)') = Cardinality(Descs(f)) + Cardinality(C) - Cardinality(Descs(f) \cap C)
      BY <2>1, <2>4, Finite, FS_Union
    <2>6. Cardinality(Descs(f) \cap C) = 0
      BY <2>2, FS_EmptySet
    <2> QED
      BY <1>4, <2>4, <2>5, <2>6, Finite
  <1> HIDE DEF own, n
  <1>10. \A f \in Files : /\ ftable'[f].ref = ftable[f].ref + n(f)
                          /\ ftable'[f].type = ftable[f].type /\ ftable'[f].ip = ftable[f].ip
                          /\ ftable'[f].off = ftable[f].off
    <2> SUFFICES ASSUME NEW f \in Files
                 PROVE  /\ ftable'[f].ref = ftable[f].ref + n(f)
                        /\ ftable'[f].type = ftable[f].type /\ ftable'[f].ip = ftable[f].ip
                        /\ ftable'[f].off = ftable[f].off
      OBVIOUS
    <2>1. ftable[f] \in FileRec /\ ftable'[f] = [ftable[f] EXCEPT !.ref = ftable[f].ref + n(f)]
      BY <1>3 DEF IInv, FileTypes
    <2> QED
      BY <2>1 DEF FileRec
  <1>11. \A f \in Files : ftable'[f].ref > 0 <=> ftable[f].ref > 0
    <2> SUFFICES ASSUME NEW f \in Files PROVE ftable'[f].ref > 0 <=> ftable[f].ref > 0
      OBVIOUS
    <2>1. ftable[f].ref \in Int /\ n(f) \in Nat
      BY <1>4, RefTyped DEF IInv, FileTypes
    <2> QED
      BY <1>7, <1>8, <1>10, <2>1
  <1>12. FileTypes'
    <2>1. ftable' \in [Files -> FileRec]
      <3>1. ASSUME NEW f \in Files PROVE [ftable[f] EXCEPT !.ref = ftable[f].ref + n(f)] \in FileRec
        <4>1. ftable[f] \in FileRec
          BY DEF IInv, FileTypes
        <4>2. ftable[f].ref + n(f) \in Int
          BY <1>4, <4>1, RefTyped
        <4> QED
          BY <4>1, <4>2, RefTyped
      <3> QED
        BY <1>3, <3>1
    <2>2. ofile' \in [Procs -> [Fds -> {0} \cup Files]]
      BY <1>2 DEF IInv, FileTypes
    <2>3. alive' \subseteq Procs
      BY <1>2 DEF IInv, FileTypes
    <2> QED
      BY <1>1, <2>1, <2>2, <2>3 DEF IInv, FileTypes
  <1>13. CallInv'
    <2> SUFFICES ASSUME NEW q \in Procs PROVE CallOf(q)'
      BY DEF CallInv
    <2>1. CallOf(q)
      BY DEF IInv, CallInv
    <2>2. CASE q = c
      BY <1>1, <1>2, <1>5, <2>2 DEF CallOf, Having, Io
    <2>3. CASE q # c
      <3>1. \A d \in Fds : ofile'[q][d] = ofile[q][d]
        BY <1>6, <2>3
      <3>2. call[q].pc \in Having => call[q].f \in Files
        BY <2>1 DEF IInv, FileTypes, CallRec, CallOf
      <3> QED
        BY <1>1, <1>2, <1>10, <2>1, <2>3, <3>1, <3>2 DEF CallOf
    <2> QED
      BY <2>2, <2>3
  <1>14. CountInv'
    <2>1. ASSUME NEW f \in Files
          PROVE  ftable'[f].ref = Cardinality(Descs(f)') - Cardinality(Dupers(f)')
      <3>1. ftable[f].ref = Cardinality(Descs(f)) - Cardinality(Dupers(f))
        BY DEF IInv, CountInv
      <3>2. Dupers(f)' = Dupers(f)
        BY <1>1 DEF Dupers
      <3> QED
        BY <1>4, <1>9, <1>10, <3>1, <3>2, Finite
    <2>2. \A j : FilesOf(j)' = FilesOf(j) /\ Callers(j)' = Callers(j)
      BY <1>1, <1>10, <1>11 DEF FilesOf, Callers
    <2> QED
      BY <1>1, <2>1, <2>2 DEF IInv, CountInv
  <1>15. KindInv'
    BY <1>10, <1>11 DEF IInv, KindInv, TypeOf
  <1>16. \A q \in Procs : q # p /\ call[q].pc \in Io => ftable'[call[q].f].off = ftable[call[q].f].off
    BY <1>10, HasFile DEF IInv, Having
  <1>17. /\ LockInv' /\ ValidInv' /\ DiskInv'
         /\ BlockInv' /\ HoleInv' /\ ChunkInv' /\ ByteInv' /\ LogInv'
    BY <1>1, <1>16, OnlyTables DEF Io
  <1> QED
    BY <1>12, <1>13, <1>14, <1>15, <1>17 DEF IInv

LEMMA CloseStep ==
    ASSUME IInv, NEW p \in Procs, Close(p)
    PROVE  IInv'
  <1>1. /\ p \in alive /\ call[p].pc = "none"
        /\ UNCHANGED <<alive, mem, disk, iref, ilock, block, dirty, work>>
    BY DEF Close, Makes, At, inodeVars, blockVars, Quiet
  <1>2. PICK d \in Fds \ FreeFds(p) :
          LET f == ofile[p][d]
          IN /\ ofile' = [ofile EXCEPT ![p][d] = 0]
             /\ IF ftable[f].ref > 1
                THEN ftable' = [ftable EXCEPT ![f].ref = @ - 1] /\ UNCHANGED call
                ELSE /\ ftable' = [ftable EXCEPT ![f] = Closed]
                     /\ Go(p, [NoCall EXCEPT !.pc = "iput", !.ip = ftable[f].ip])
    BY DEF Close
  <1>3. PICK f \in Files : f = ofile[p][d]
    BY DEF FreeFds, IInv, FileTypes
  <1>4. \A q \in Procs, x \in Fds : ofile'[q][x] = IF q = p /\ x = d THEN 0 ELSE ofile[q][x]
    BY <1>2 DEF IInv, FileTypes
  <1>5. ofile' \in [Procs -> [Fds -> {0} \cup Files]]
    BY <1>2 DEF IInv, FileTypes
  <1>6. \A g \in Files : g # f => Descs(g)' = Descs(g)
    BY <1>3, <1>4, Domains DEF Descs
  <1>7. Descs(f)' = Descs(f) \ {<<p, d>>} /\ <<p, d>> \in Descs(f)
    <2>1. \A x \in Procs \X Fds : x = <<p, d>> <=> x[1] = p /\ x[2] = d
      OBVIOUS
    <2>2. f # 0 /\ <<p, d>> \in Procs \X Fds
      BY Domains
    <2> QED
      BY <1>3, <1>4, <2>1, <2>2 DEF Descs
  <1>8. Cardinality(Descs(f)') = Cardinality(Descs(f)) - 1
    BY <1>7, Finite, FS_RemoveElement
  <1>9. ftable[f].ref > 0
    BY <1>3, InUse DEF IInv
  <1>10. \A q \in Procs : q # p => \A x \in Fds : ofile'[q][x] = ofile[q][x]
    BY <1>4
  \* other processes have the file as well
  <1>11. CASE ftable[f].ref > 1
    <2>1. ftable' = [ftable EXCEPT ![f].ref = @ - 1] /\ call' = call
      BY <1>2, <1>3, <1>11
    <2>2. \A g \in Files : /\ ftable'[g].ref = IF g = f THEN ftable[g].ref - 1 ELSE ftable[g].ref
                           /\ ftable'[g].type = ftable[g].type /\ ftable'[g].ip = ftable[g].ip
                           /\ ftable'[g].off = ftable[g].off
      BY <2>1 DEF IInv, FileTypes, FileRec
    <2>3. \A g \in Files : ftable'[g].ref > 0 <=> ftable[g].ref > 0
      BY <1>11, <2>2 DEF IInv, FileTypes, FileRec
    <2>4. FileTypes'
      <3>1. ftable' \in [Files -> FileRec]
        <4>1. ftable[f] \in FileRec
          BY DEF IInv, FileTypes
        <4>2. ftable[f].ref - 1 \in Int
          BY <4>1, RefTyped
        <4>3. [ftable[f] EXCEPT !.ref = ftable[f].ref - 1] \in FileRec
          BY <4>1, <4>2, RefTyped
        <4>4. ftable' = [ftable EXCEPT ![f] = [ftable[f] EXCEPT !.ref = ftable[f].ref - 1]]
          BY <2>1 DEF IInv, FileTypes
        <4> QED
          BY <4>3, <4>4 DEF IInv, FileTypes
      <3> QED
        BY <1>1, <1>5, <2>1, <3>1 DEF IInv, FileTypes
    <2>5. CallInv'
      <3> SUFFICES ASSUME NEW q \in Procs PROVE CallOf(q)'
        BY DEF CallInv
      <3>1. CallOf(q)
        BY DEF IInv, CallInv
      <3>2. CASE q = p
        BY <1>1, <2>1, <3>2 DEF CallOf, Having, Io
      <3>3. CASE q # p
        <4>1. call[q].pc \in Having => call[q].f \in Files
          BY <3>1 DEF IInv, FileTypes, CallRec, CallOf
        <4> QED
          BY <1>1, <1>10, <2>1, <2>2, <3>1, <3>3, <4>1 DEF CallOf
      <3> QED
        BY <3>2, <3>3
    <2>6. CountInv'
      <3>1. ASSUME NEW g \in Files
            PROVE  ftable'[g].ref = Cardinality(Descs(g)') - Cardinality(Dupers(g)')
        <4>1. ftable[g].ref = Cardinality(Descs(g)) - Cardinality(Dupers(g))
          BY DEF IInv, CountInv
        <4>2. Dupers(g)' = Dupers(g)
          BY <2>1 DEF Dupers
        <4> QED
          BY <1>6, <1>8, <2>2, <4>1, <4>2, Finite
      <3>2. \A j : FilesOf(j)' = FilesOf(j) /\ Callers(j)' = Callers(j)
        BY <2>1, <2>2, <2>3 DEF FilesOf, Callers
      <3> QED
        BY <1>1, <3>1, <3>2 DEF IInv, CountInv
    <2>7. KindInv'
      BY <2>2, <2>3 DEF IInv, KindInv, TypeOf
    <2>8. \A q \in Procs : q # p /\ call[q].pc \in Io => ftable'[call[q].f].off = ftable[call[q].f].off
      BY <2>2, HasFile DEF IInv, Having
    <2>9. /\ LockInv' /\ ValidInv' /\ DiskInv'
          /\ BlockInv' /\ HoleInv' /\ ChunkInv' /\ ByteInv' /\ LogInv'
      BY <1>1, <2>1, <2>8, OnlyTables DEF Io
    <2> QED
      BY <2>4, <2>5, <2>6, <2>7, <2>9 DEF IInv
  \* nobody else has: the file is closed, and its inode to be put
  <1>12. CASE ~(ftable[f].ref > 1)
    <2> DEFINE v == [NoCall EXCEPT !.pc = "iput", !.ip = ftable[f].ip]
    <2>1. ftable' = [ftable EXCEPT ![f] = Closed] /\ Go(p, v)
      BY <1>2, <1>3, <1>12
    <2>2. PICK i \in AllInodes : ftable[f].ip = i
      BY DEF IInv, FileTypes, FileRec
    <2>3. v \in CallRec /\ v.pc = "iput" /\ v.ip = i
      <3>1. NoCall \in CallRec /\ "iput" \in CallPcs
        BY NoCallTyped DEF CallPcs
      <3> QED
        BY <2>2, <3>1 DEF CallRec
    <2> HIDE DEF v
    <2>4. call'[p] = v /\ \A q \in Procs : q # p => call'[q] = call[q]
      BY <2>1, Goes DEF IInv
    <2>5. call'[p].pc = "iput" /\ call'[p].ip = i
      BY <2>3, <2>4
    <2>6. Descs(f) = {<<p, d>>} /\ Dupers(f) = {} /\ ftable[f].ref = 1
      BY <1>1, <1>3, <1>12, LastOne DEF IInv
    <2>7. \A g \in Files : ftable'[g] = IF g = f THEN Closed ELSE ftable[g]
      BY <2>1 DEF IInv, FileTypes
    <2>8. Closed \in FileRec /\ Closed.ref = 0
      <3>1. 0 \in 0..Limit
        BY Numbers
      <3> QED
        BY <3>1, Domains DEF Closed, FileRec
    <2>9. \A q \in Procs, x \in Fds : q # p => ofile[q][x] # f
      <3> SUFFICES ASSUME NEW q \in Procs, NEW x \in Fds, q # p, ofile[q][x] = f PROVE FALSE
        OBVIOUS
      <3>1. <<q, x>> \in Descs(f)
        BY DEF Descs
      <3> QED
        BY <2>6, <3>1
    <2>10. \A q \in Procs : q # p /\ call[q].pc \in Having => call[q].f \in Files /\ call[q].f # f
      BY <2>9 DEF IInv, CallInv, CallOf, FileTypes, CallRec
    <2>11. FileTypes'
      <3>1. ftable' \in [Files -> FileRec]
        BY <2>1, <2>8 DEF IInv, FileTypes
      <3>2. call' \in [Procs -> CallRec]
        BY <2>1, <2>3, GoTypes DEF IInv
      <3> QED
        BY <1>1, <1>5, <3>1, <3>2 DEF IInv, FileTypes
    <2>12. CallInv'
      <3> SUFFICES ASSUME NEW q \in Procs PROVE CallOf(q)'
        BY DEF CallInv
      <3>1. CallOf(q)
        BY DEF IInv, CallInv
      <3>2. CASE q = p
        BY <1>1, <2>5, <3>2 DEF CallOf, Having, Io
      <3>3. CASE q # p
        <4>1. call[q].pc \in Having => ftable'[call[q].f] = ftable[call[q].f]
          BY <2>7, <2>10, <3>3
        <4> QED
          BY <1>1, <1>10, <2>4, <3>1, <3>3, <4>1 DEF CallOf
      <3> QED
        BY <3>2, <3>3
    <2>13. CountInv'
      <3>1. ASSUME NEW g \in Files
            PROVE  ftable'[g].ref = Cardinality(Descs(g)') - Cardinality(Dupers(g)')
        <4>1. Dupers(g)' = Dupers(g)
          BY <1>1, <2>4, <2>5 DEF Dupers
        <4>2. CASE g # f
          BY <1>6, <2>7, <4>1, <4>2 DEF IInv, CountInv
        <4>3. CASE g = f
          <5>1. Descs(f)' = {} /\ Dupers(f)' = {}
            BY <1>7, <2>6, <4>1, <4>3
          <5>2. Cardinality(Descs(f)') = 0 /\ Cardinality(Dupers(f)') = 0
            BY <5>1, FS_EmptySet
          <5> QED
            BY <2>7, <2>8, <4>3, <5>2
        <4> QED
          BY <4>2, <4>3
      <3>2. FilesOf(i)' = FilesOf(i) \ {f} /\ f \in FilesOf(i)
        BY <1>9, <2>2, <2>7, <2>8 DEF FilesOf
      <3>3. Callers(i)' = Callers(i) \cup {p} /\ p \notin Callers(i)
        BY <1>1, <2>4, <2>5 DEF Callers
      <3>4. /\ Cardinality(FilesOf(i)') = Cardinality(FilesOf(i)) - 1
            /\ Cardinality(Callers(i)') = Cardinality(Callers(i)) + 1
        BY <3>2, <3>3, Finite, FS_RemoveElement, FS_AddElement
      <3>5. \A j : j # i => FilesOf(j)' = FilesOf(j) /\ Callers(j)' = Callers(j)
        BY <1>1, <2>2, <2>4, <2>5, <2>7, <2>8 DEF FilesOf, Callers
      <3>6. ASSUME NEW j \in AllInodes
            PROVE  iref'[j] = Cardinality(FilesOf(j)') + Cardinality(Callers(j)')
        <4>1. iref'[j] = Cardinality(FilesOf(j)) + Cardinality(Callers(j))
          BY <1>1 DEF IInv, CountInv
        <4>2. CASE j = i
          BY <3>4, <4>1, <4>2, Finite
        <4>3. CASE j # i
          BY <3>5, <4>1, <4>3
        <4> QED
          BY <4>2, <4>3
      <3> QED
        BY <3>1, <3>6 DEF CountInv
    <2>14. KindInv'
      BY <2>7, <2>8 DEF IInv, KindInv, TypeOf
    <2>15. \A q \in Procs : q # p /\ call[q].pc \in Io => ftable'[call[q].f].off = ftable[call[q].f].off
      BY <2>7, <2>10 DEF Having
    <2>16. /\ LockInv' /\ ValidInv' /\ DiskInv'
           /\ BlockInv' /\ HoleInv' /\ ChunkInv' /\ ByteInv' /\ LogInv'
      BY <1>1, <2>4, <2>5, <2>15, OnlyTables DEF Io
    <2> QED
      BY <2>11, <2>12, <2>13, <2>14, <2>16 DEF IInv
  <1> QED
    BY <1>11, <1>12

-----------------------------------------------------------------------------
(* Files that are opened, and emptied *)

\* the blocks that itrunc() frees are those the inode has
LEMMA BlocksAre ==
    ASSUME FileTypes, BlockInv, NEW i \in Inodes, mem[i].valid
    PROVE  \A c : c \in BlocksOf(mem[i]) <=>
              c # 0 /\ \E x \in Spots(Addresses) : x[1] = i /\ Spot(Addresses, block, x) = c
  <1> DEFINE a == mem[i].addrs
  <1>1. Addresses[i] = a
    BY Valid DEF Addresses
  <1>2. Ind \in 1..Ind /\ 1..Ind \subseteq Nat /\ 1..NINDIRECT \subseteq Nat
    BY Numbers
  <1>3. a[Ind] # 0 => DOMAIN block[a[Ind]].ptrs = 1..NINDIRECT
    <2> SUFFICES ASSUME a[Ind] # 0 PROVE DOMAIN block[a[Ind]].ptrs = 1..NINDIRECT
      OBVIOUS
    <2>1. a[Ind] \in DOMAIN block
      <3>1. \A k \in 1..Ind : Addresses[i][k] # 0 => Addresses[i][k] \in DOMAIN block
        BY PointsIn DEF BlockInv
      <3> QED
        BY <1>1, <1>2, <3>1
    <2>2. block[a[Ind]] \in BlockRec
      BY <2>1 DEF FileTypes
    <2> QED
      BY <2>2 DEF BlockRec, Ptrs
  <1> HIDE DEF a
  <1>4. ASSUME NEW c
        PROVE  c \in BlocksOf(mem[i]) <=>
                 /\ c # 0
                 /\ \/ \E k \in 1..Ind : a[k] = c
                    \/ a[Ind] # 0 /\ \E k \in 1..NINDIRECT : block[a[Ind]].ptrs[k] = c
    <2>1. BlocksOf(mem[i]) =
            ({a[k] : k \in 1..Ind} \cup (IF a[Ind] = 0 THEN {} ELSE Range(block[a[Ind]].ptrs))) \ {0}
      BY DEF BlocksOf, a
    <2>2. a[Ind] # 0 =>
            (c \in Range(block[a[Ind]].ptrs) <=> \E k \in 1..NINDIRECT : block[a[Ind]].ptrs[k] = c)
      BY <1>3 DEF Range
    <2> QED
      BY <2>1, <2>2
  <1>5. ASSUME NEW c, NEW k \in 1..Ind, a[k] = c
        PROVE  \E x \in Spots(Addresses) : x[1] = i /\ Spot(Addresses, block, x) = c
    <2>1. <<i, 0, k>> \in Spots(Addresses)
      BY <1>2 DEF Spots
    <2>2. Spot(Addresses, block, <<i, 0, k>>) = c
      BY <1>1, <1>5 DEF Spot
    <2> QED
      BY <2>1, <2>2
  <1>6. ASSUME NEW c, a[Ind] # 0, NEW k \in 1..NINDIRECT, block[a[Ind]].ptrs[k] = c
        PROVE  \E x \in Spots(Addresses) : x[1] = i /\ Spot(Addresses, block, x) = c
    <2>1. <<i, 1, k>> \in Spots(Addresses)
      BY <1>1, <1>2, <1>6 DEF Spots
    <2>2. Spot(Addresses, block, <<i, 1, k>>) = c
      BY <1>1, <1>6 DEF Spot
    <2> QED
      BY <2>1, <2>2
  <1>7. ASSUME NEW c, NEW x \in Spots(Addresses), x[1] = i, Spot(Addresses, block, x) = c
        PROVE  \/ \E k \in 1..Ind : a[k] = c
               \/ a[Ind] # 0 /\ \E k \in 1..NINDIRECT : block[a[Ind]].ptrs[k] = c
    <2>1. IF x[2] = 0 THEN x[3] \in 1..Ind ELSE x[3] \in 1..NINDIRECT /\ a[Ind] # 0
      BY <1>1, <1>7 DEF Spots
    <2>2. Spot(Addresses, block, x) = IF x[2] = 0 THEN a[x[3]] ELSE block[a[Ind]].ptrs[x[3]]
      BY <1>1, <1>7 DEF Spot
    <2> QED
      BY <1>7, <2>1, <2>2
  <1> QED
    BY <1>4, <1>5, <1>6, <1>7

LEMMA TruncStep ==
    ASSUME IInv, NEW p \in Procs, call[p].pc = "open", NEW i \in Inodes, call[p].ip = i,
           Truncated(i), call'[p].pc \notin Io, \A q \in Procs : q # p => call'[q] = call[q],
           dirty' = dirty, iref' = iref,
           \A q \in Procs : q # p /\ call[q].pc \in Io =>
              ftable'[call[q].f].off = ftable[call[q].f].off
    PROVE  /\ mem' \in [AllInodes -> InodeRec] /\ disk' \in [AllInodes -> DiskRec]
           /\ DOMAIN block' \subseteq Blocks /\ block' \in [DOMAIN block' -> BlockRec]
           /\ ValidInv' /\ DiskInv'
           /\ BlockInv' /\ HoleInv' /\ ChunkInv' /\ ByteInv' /\ LogInv'
           /\ Current(i)'.size = 0 /\ \A j \in Inodes : j # i => Kept(j)
  <1>1. /\ mem' = [mem EXCEPT ![i] = [@ EXCEPT !.size = 0, !.addrs = NoBlocks]]
        /\ disk' = [disk EXCEPT ![i] = [size |-> 0, addrs |-> NoBlocks]]
        /\ block' = [c \in DOMAIN block \ BlocksOf(mem[i]) |-> block[c]]
    BY DEF Truncated, Restrict
  <1>2. i \in AllInodes /\ Ind \in 1..Ind
    BY Domains, Numbers
  <1>3. NoBlocks \in Ptrs(Blocks, Ind) /\ (\A k \in 1..Ind : NoBlocks[k] = 0) /\ 0 \in 0..Limit
    BY Numbers DEF NoBlocks, Ptrs
  <1>4. mem[i] \in InodeRec
    BY <1>2 DEF IInv, FileTypes
  <1>5. mem' \in [AllInodes -> InodeRec]
    <2>1. [mem[i] EXCEPT !.size = 0, !.addrs = NoBlocks] \in InodeRec
      BY <1>3, <1>4 DEF InodeRec
    <2> QED
      BY <1>1, <2>1 DEF IInv, FileTypes
  <1>6. disk' \in [AllInodes -> DiskRec]
    <2>1. [size |-> 0, addrs |-> NoBlocks] \in DiskRec
      BY <1>3 DEF DiskRec
    <2> QED
      BY <1>1, <2>1 DEF IInv, FileTypes
  <1>7. DOMAIN block' \subseteq DOMAIN block /\ \A c \in DOMAIN block' : block'[c] = block[c]
    BY <1>1
  <1>8. DOMAIN block' \subseteq Blocks /\ block' \in [DOMAIN block' -> BlockRec]
    BY <1>1, <1>7 DEF IInv, FileTypes
  <1>9. iref[i] > 0
    BY <1>2, InodeInUse DEF IInv
  <1>10. mem[i].valid
    BY <1>2, <1>9 DEF IInv, ValidInv
  <1>11. /\ mem'[i].valid /\ mem'[i].size = 0 /\ mem'[i].addrs = NoBlocks
         /\ disk'[i].size = 0 /\ disk'[i].addrs = NoBlocks
         /\ \A j \in AllInodes : j # i => mem'[j] = mem[j] /\ disk'[j] = disk[j]
    BY <1>1, <1>2, <1>4, <1>10 DEF IInv, FileTypes, InodeRec
  <1>12. ValidInv'
    BY <1>9, <1>11 DEF IInv, ValidInv
  <1>13. DiskInv'
    <2>1. \A j : Writing(j)' <=> Writing(j)
      BY WritersStay DEF Io
    <2> QED
      BY <1>11, <2>1 DEF IInv, DiskInv
  <1>14. \A j \in Inodes : j # i => Current(j)' = Current(j)
    BY <1>11, Domains DEF Current
  <1>15. Current(i)'.addrs = NoBlocks /\ Current(i)'.size = 0
    BY <1>11 DEF Current
  <1>16. Owned(Addresses', block') /\ \A j \in Inodes : j # i => Grows(Addresses[j], block, Addresses'[j], block')
    <2>1. Addresses \in Trees /\ 0 \notin DOMAIN block /\ Owned(Addresses, block)
      BY AddressTypes DEF IInv, BlockInv
    <2>2. \A j \in Inodes : j # i => Addresses'[j] = Addresses[j]
      BY <1>14 DEF Addresses
    <2>3. Addresses'[i] = NoBlocks
      BY <1>15 DEF Addresses
    <2>4. Addresses' \in Trees
      <3>1. \A j \in Inodes : Addresses'[j] \in Ptrs(Blocks, Ind)
        BY <1>3, <2>1, <2>2, <2>3 DEF Trees
      <3> QED
        BY <3>1 DEF Trees, Addresses
    <2>5. \A c : c \in DOMAIN block' <=>
            c \in DOMAIN block /\ \A x \in Spots(Addresses) : x[1] = i => Spot(Addresses, block, x) # c
      <3>1. \A c : c \in BlocksOf(mem[i]) <=>
              c # 0 /\ \E x \in Spots(Addresses) : x[1] = i /\ Spot(Addresses, block, x) = c
        BY <1>10, BlocksAre DEF IInv
      <3>2. DOMAIN block' = DOMAIN block \ BlocksOf(mem[i])
        BY <1>1
      <3> QED
        BY <2>1, <3>1, <3>2
    <2> QED
      BY <1>3, <1>7, <2>1, <2>2, <2>3, <2>4, <2>5, CutBlocks
  <1>17. ASSUME NEW q \in Procs, q # p, call[q].pc \in Io PROVE Undisturbed(q)
    <2>1. call[q].ip \in Inodes /\ mem[call[q].ip].valid
      BY <1>17, HasFile DEF IInv, Having
    <2>2. call[q].ip # i
      <3>1. ilock[call[q].ip] = q /\ ilock[i] = p
        BY <1>2, <1>17, <2>1, Domains DEF IInv, LockInv
      <3> QED
        BY <1>17, <3>1
    <2>3. mem'[call[q].ip] = mem[call[q].ip]
      BY <1>11, <2>1, <2>2, Domains
    <2>4. Addresses[call[q].ip] = Addrs(q) /\ Addresses'[call[q].ip] = Addrs(q)'
      <3>1. Addrs(q)' = Addrs(q)
        BY <1>17, <2>3 DEF Addrs
      <3>2. Addresses[call[q].ip] = Addrs(q)
        BY <2>1, Valid DEF Addresses, Addrs
      <3>3. Addresses'[call[q].ip] = Addresses[call[q].ip]
        BY <1>14, <2>1, <2>2 DEF Addresses
      <3> QED
        BY <3>1, <3>2, <3>3
    <2>5. Grows(Addrs(q), block, Addrs(q), block')
      <3>1. Addrs(q)' = Addrs(q)
        BY <1>17, <2>3 DEF Addrs
      <3> QED
        BY <1>16, <2>1, <2>2, <2>4, <3>1
    <2> QED
      BY <1>17, <2>3, <2>5 DEF Undisturbed
  <1>18. BlockInv'
    BY <1>16 DEF BlockInv
  <1>19. ASSUME NEW q \in Procs, call'[q].pc \in Io
         PROVE  ChunkOf(q)' /\ HoleOf(q)' /\ ByteOf(q)' /\ LogOf(q)'
    BY <1>17, <1>19, StaysIo DEF IInv
  <1>20. HoleInv'
    <2>1. ASSUME NEW j \in Inodes PROVE Filled(Current(j)'.addrs, block', Current(j)'.size)
      <3>1. CASE j = i
        <4>1. \A bn \in 0..MAXFILE - 1 : ~(bn * BSIZE < 0)
          <5>1. BSIZE \in Nat /\ MAXFILE \in Nat
            BY Numbers
          <5>2. \A bn \in 0..MAXFILE - 1 : bn * BSIZE \in Nat
            BY <5>1
          <5> QED
            BY <5>2
        <4> QED
          BY <1>15, <3>1, <4>1 DEF Filled
      <3>2. CASE j # i
        <4>1. Addresses[j] = Current(j).addrs /\ Addresses'[j] = Current(j)'.addrs
          BY DEF Addresses
        <4>2. Filled(Current(j).addrs, block, Current(j).size)
          BY DEF IInv, HoleInv
        <4>3. Grows(Current(j).addrs, block, Current(j)'.addrs, block')
          BY <1>16, <3>2, <4>1
        <4> QED
          BY <1>14, <3>2, <4>2, <4>3, GrowsFilled
      <3> QED
        BY <3>1, <3>2
    <2> QED
      BY <1>19, <2>1 DEF HoleInv
  <1>21. ChunkInv' /\ ByteInv'
    BY <1>19 DEF ChunkInv, ByteInv
  <1>22. LogInv'
    <2>1. ASSUME NEW q \in Procs, call'[q].pc \notin Io PROVE LogOf(q)'
      <3>1. dirty'[q] = {}
        BY <2>1, NoLog DEF IInv, Io
      <3>2. IsFiniteSet(dirty'[q])
        BY <3>1, FS_EmptySet
      <3> QED
        BY <2>1, <3>1, <3>2 DEF LogOf, Io
    <2> QED
      BY <1>19, <2>1 DEF LogInv
  <1>23. ASSUME NEW j \in Inodes, j # i PROVE Kept(j)
    <2>1. Addresses[j] = Current(j).addrs /\ Addresses'[j] = Current(j)'.addrs
      BY DEF Addresses
    <2> QED
      BY <1>14, <1>16, <1>23, <2>1, GrowsKept DEF IInv
  <1> QED
    BY <1>5, <1>6, <1>8, <1>12, <1>13, <1>15, <1>18, <1>20, <1>21, <1>22, <1>23

\* nothing is left of a file, and the others are as they were
Emptied == \E i \in Inodes : Current(i)'.size = 0 /\ \A j \in Inodes : j # i => Kept(j)

LEMMA OpenDoneStep ==
    ASSUME IInv, NEW p \in Procs, OpenDone(p)
    PROVE  IInv' /\ (SameContents \/ Emptied)
  <1>1. /\ p \in alive /\ call[p].pc = "open" /\ FreeFiles # {} /\ FreeFds(p) # {}
        /\ UNCHANGED <<alive, iref, dirty, work>> /\ Go(p, NoCall)
        /\ ofile' = [ofile EXCEPT ![p][First(FreeFds(p))] = First(FreeFiles)]
        /\ ilock' = [ilock EXCEPT ![call[p].ip] = 0]
    BY DEF OpenDone, At, Unlocks, Quiet
  <1>2. PICK i \in AllInodes : call[p].ip = i
    BY DEF IInv, FileTypes, CallRec
  <1>3. PICK c \in Fds : c = First(FreeFds(p)) /\ ofile[p][c] = 0
    <2>1. FreeFds(p) \subseteq Nat
      BY Domains DEF FreeFds
    <2>2. First(FreeFds(p)) \in FreeFds(p)
      BY <1>1, <2>1, FirstOf
    <2> QED
      BY <2>2 DEF FreeFds
  <1>4. PICK f \in Files : f = First(FreeFiles) /\ ftable[f].ref = 0
    <2>1. FreeFiles \subseteq Nat
      BY Domains DEF FreeFiles
    <2>2. First(FreeFiles) \in FreeFiles
      BY <1>1, <2>1, FirstOf
    <2> QED
      BY <2>2 DEF FreeFiles
  <1> DEFINE file(mode) == [type |-> TypeOf(i), ref |-> 1,
                            readable |-> "r" \in mode, writable |-> "w" \in mode,
                            ip |-> i, off |-> 0]
  <1>5. PICK mode \in work.modes : ftable' = [ftable EXCEPT ![f] = file(mode)]
    BY <1>2, <1>4 DEF OpenDone
  <1>6. /\ file(mode) \in FileRec /\ file(mode).ref = 1 /\ file(mode).type = TypeOf(i)
        /\ file(mode).ip = i
    <2>1. TypeOf(i) \in {"none", "device", "inode"}
      BY DEF TypeOf
    <2>2. ("r" \in mode) \in BOOLEAN /\ ("w" \in mode) \in BOOLEAN /\ 0 \in 0..Limit
      BY Numbers
    <2> QED
      BY <2>1, <2>2 DEF FileRec
  <1> HIDE DEF file
  <1>7. \A g \in Files : ftable'[g] = IF g = f THEN file(mode) ELSE ftable[g]
    BY <1>5 DEF IInv, FileTypes
  <1>8. ofile' = [ofile EXCEPT ![p][c] = f]
    BY <1>1, <1>3, <1>4
  <1>9. \A q \in Procs, x \in Fds : ofile'[q][x] = IF q = p /\ x = c THEN f ELSE ofile[q][x]
    BY <1>8 DEF IInv, FileTypes
  <1>10. call'[p] = NoCall /\ NoCall.pc = "none" /\ \A q \in Procs : q # p => call'[q] = call[q]
    BY <1>1, Goes, NoCallIs DEF IInv
  <1>11. /\ Descs(f) = {} /\ Dupers(f) = {} /\ \A q \in Procs, d \in Fds : ofile[q][d] # f
         /\ \A q \in Procs : call[q].pc \in Having \cup {"dup"} => call[q].f # f
    BY <1>4, Unused DEF IInv
  <1>12. \A q \in Procs : q # p /\ call[q].pc \in Having => ftable'[call[q].f] = ftable[call[q].f]
    <2> SUFFICES ASSUME NEW q \in Procs, q # p, call[q].pc \in Having
                 PROVE  ftable'[call[q].f] = ftable[call[q].f]
      OBVIOUS
    <2>1. call[q].f \in Files
      BY HasFile DEF IInv
    <2> QED
      BY <1>7, <1>11, <2>1
  <1>13. CallInv'
    <2> SUFFICES ASSUME NEW q \in Procs PROVE CallOf(q)'
      BY DEF CallInv
    <2>1. CallOf(q)
      BY DEF IInv, CallInv
    <2>2. CASE q = p
      BY <1>1, <1>10, <2>2 DEF CallOf, Having, Io
    <2>3. CASE q # p
      <3>1. \A x \in Fds : ofile'[q][x] = ofile[q][x]
        BY <1>9, <2>3
      <3> QED
        BY <1>1, <1>10, <1>12, <2>1, <2>3, <3>1 DEF CallOf
    <2> QED
      BY <2>2, <2>3
  <1>14. CountInv'
    <2>1. ASSUME NEW g \in Files
          PROVE  ftable'[g].ref = Cardinality(Descs(g)') - Cardinality(Dupers(g)')
      <3>1. Dupers(g)' = Dupers(g)
        BY <1>1, <1>10 DEF Dupers
      <3>2. CASE g # f
        <4>1. Descs(g)' = Descs(g)
          <5>1. g # 0
            BY Domains
          <5>2. \A q \in Procs, x \in Fds : ofile'[q][x] = g <=> ofile[q][x] = g
            BY <1>3, <1>9, <3>2, <5>1
          <5> QED
            BY <5>2 DEF Descs
        <4> QED
          BY <1>7, <3>1, <3>2, <4>1 DEF IInv, CountInv
      <3>3. CASE g = f
        <4>1. Descs(f)' = {<<p, c>>}
          <5>1. \A x \in Procs \X Fds : x = <<p, c>> <=> x[1] = p /\ x[2] = c
            OBVIOUS
          <5>2. <<p, c>> \in Procs \X Fds
            OBVIOUS
          <5> QED
            BY <1>9, <1>11, <5>1, <5>2 DEF Descs
        <4>2. Cardinality(Descs(f)') = 1 /\ Cardinality(Dupers(f)') = 0
          BY <1>11, <3>1, <3>3, <4>1, FS_EmptySet, FS_Singleton
        <4> QED
          BY <1>6, <1>7, <3>3, <4>2
      <3> QED
        BY <3>2, <3>3
    <2>2. FilesOf(i)' = FilesOf(i) \cup {f} /\ f \notin FilesOf(i)
      BY <1>4, <1>6, <1>7 DEF FilesOf
    <2>3. Callers(i)' = Callers(i) \ {p} /\ p \in Callers(i)
      BY <1>1, <1>2, <1>10 DEF Callers
    <2>4. /\ Cardinality(FilesOf(i)') = Cardinality(FilesOf(i)) + 1
          /\ Cardinality(Callers(i)') = Cardinality(Callers(i)) - 1
      BY <2>2, <2>3, Finite, FS_RemoveElement, FS_AddElement
    <2>5. \A j : j # i => FilesOf(j)' = FilesOf(j) /\ Callers(j)' = Callers(j)
      BY <1>1, <1>2, <1>4, <1>6, <1>7, <1>10 DEF FilesOf, Callers
    <2>6. ASSUME NEW j \in AllInodes
          PROVE  iref'[j] = Cardinality(FilesOf(j)') + Cardinality(Callers(j)')
      <3>1. iref'[j] = Cardinality(FilesOf(j)) + Cardinality(Callers(j))
        BY <1>1 DEF IInv, CountInv
      <3>2. CASE j = i
        BY <2>4, <3>1, <3>2, Finite
      <3>3. CASE j # i
        BY <2>5, <3>1, <3>3
      <3> QED
        BY <3>2, <3>3
    <2> QED
      BY <2>1, <2>6 DEF CountInv
  <1>15. KindInv'
    BY <1>6, <1>7 DEF IInv, KindInv, TypeOf
  <1>16. LockInv'
    <2>1. \A j \in AllInodes : ilock'[j] = IF j = i THEN 0 ELSE ilock[j]
      BY <1>1, <1>2 DEF IInv, FileTypes
    <2>2. ilock[i] = p
      BY <1>1, <1>2 DEF IInv, LockInv
    <2> QED
      BY <1>1, <1>2, <1>10, <2>1, <2>2, Domains DEF IInv, LockInv, Io
  <1>17. \A q \in Procs : q # p /\ call[q].pc \in Io => ftable'[call[q].f].off = ftable[call[q].f].off
    BY <1>12 DEF Having
  <1>18. /\ ftable' \in [Files -> FileRec] /\ ofile' \in [Procs -> [Fds -> {0} \cup Files]]
         /\ ilock' \in [AllInodes -> {0} \cup Procs] /\ call' \in [Procs -> CallRec]
    <2>1. call' \in [Procs -> CallRec]
      BY <1>1, NoCallTyped, GoTypes DEF IInv
    <2>2. ftable' \in [Files -> FileRec]
      BY <1>5, <1>6 DEF IInv, FileTypes
    <2>3. ofile' \in [Procs -> [Fds -> {0} \cup Files]]
      BY <1>8 DEF IInv, FileTypes
    <2>4. ilock' \in [AllInodes -> {0} \cup Procs]
      BY <1>1, <1>2 DEF IInv, FileTypes
    <2> QED
      BY <2>1, <2>2, <2>3, <2>4
  <1>19. CASE call[p].trunc /\ i # ConsoleInode
    <2>1. Truncated(i)
      BY <1>2, <1>19 DEF OpenDone
    <2>2. i \in Inodes
      BY <1>19, Domains
    <2>3. call'[p].pc \notin Io
      BY <1>10 DEF Io
    <2>4. /\ mem' \in [AllInodes -> InodeRec] /\ disk' \in [AllInodes -> DiskRec]
          /\ DOMAIN block' \subseteq Blocks /\ block' \in [DOMAIN block' -> BlockRec]
          /\ ValidInv' /\ DiskInv'
          /\ BlockInv' /\ HoleInv' /\ ChunkInv' /\ ByteInv' /\ LogInv'
          /\ Current(i)'.size = 0 /\ \A j \in Inodes : j # i => Kept(j)
      BY <1>1, <1>2, <1>10, <1>17, <2>1, <2>2, <2>3, TruncStep
    <2>5. FileTypes'
      BY <1>1, <1>18, <2>4 DEF IInv, FileTypes
    <2>6. Emptied
      BY <2>2, <2>4 DEF Emptied
    <2> QED
      BY <1>13, <1>14, <1>15, <1>16, <2>4, <2>5, <2>6 DEF IInv
  <1>20. CASE ~(call[p].trunc /\ i # ConsoleInode)
    <2>1. UNCHANGED <<mem, disk, block>>
      BY <1>2, <1>20 DEF OpenDone
    <2>2. call[p].pc \notin Io /\ call'[p].pc \notin Io
      BY <1>1, <1>10 DEF Io
    <2>3. FileTypes'
      BY <1>1, <1>18, <2>1 DEF IInv, FileTypes
    <2>4. ValidInv'
      BY <1>1, <2>1 DEF IInv, ValidInv
    <2>5. DiskInv'
      <3>1. \A j : Writing(j)' <=> Writing(j)
        BY <1>10, <2>2, WritersStay
      <3> QED
        BY <2>1, <3>1 DEF IInv, DiskInv
    <2>6. SameContents
      BY <1>1, <1>10, <1>17, <2>1, <2>2, ContentsOf DEF IInv
    <2>7. BlockInv' /\ HoleInv' /\ ChunkInv' /\ ByteInv' /\ LogInv'
      BY <2>6, ContentsStay DEF IInv
    <2> QED
      BY <1>13, <1>14, <1>15, <1>16, <2>3, <2>4, <2>5, <2>6, <2>7 DEF IInv
  <1> QED
    BY <1>19, <1>20

-----------------------------------------------------------------------------
(* Transfers *)

\* the invariants of transfers, from those of the one that steps
LEMMA Assemble ==
    ASSUME IInv, NEW p \in Procs, \A q \in Procs : q # p => call'[q] = call[q],
           \A q \in Procs : q # p /\ call[q].pc \in Io => Undisturbed(q),
           \A q \in Procs : q # p => dirty'[q] = dirty[q],
           call'[p].pc \in Io => ChunkOf(p)' /\ HoleOf(p)' /\ ByteOf(p)' /\ LogOf(p)',
           call'[p].pc \notin Io => dirty'[p] = {},
           \A i \in Inodes : Filled(Current(i)'.addrs, block', Current(i)'.size)
    PROVE  HoleInv' /\ ChunkInv' /\ ByteInv' /\ LogInv'
  <1>1. ASSUME NEW q \in Procs, call'[q].pc \in Io
        PROVE  ChunkOf(q)' /\ HoleOf(q)' /\ ByteOf(q)' /\ LogOf(q)'
    BY <1>1, StaysIo DEF IInv
  <1>2. ASSUME NEW q \in Procs, call'[q].pc \notin Io PROVE LogOf(q)'
    <2>1. dirty'[q] = {}
      BY <1>2, NoLog DEF IInv
    <2>2. IsFiniteSet(dirty'[q])
      BY <2>1, FS_EmptySet
    <2> QED
      BY <1>2, <2>1, <2>2 DEF LogOf, Io
  <1>3. LogInv'
    BY <1>1, <1>2 DEF LogInv
  <1>4. ChunkInv' /\ ByteInv' /\ HoleInv'
    BY <1>1 DEF ChunkInv, ByteInv, HoleInv
  <1> QED
    BY <1>3, <1>4

\* who transfers has an inode and a file to itself
LEMMA Alone ==
    ASSUME IInv, NEW p \in Procs, call[p].pc \in Having,
           ilock[call[p].ip] \in {0, p}, NEW q \in Procs, q # p, call[q].pc \in Io
    PROVE  /\ call[q].ip # call[p].ip /\ call[q].f # call[p].f
           /\ call[q].ip \in Inodes /\ call[q].f \in Files /\ mem[call[q].ip].valid
           /\ Addrs(q) = Addresses[call[q].ip]
  <1>1. /\ call[q].ip \in Inodes /\ call[q].f \in Files /\ mem[call[q].ip].valid
        /\ ftable[call[q].f].ip = call[q].ip /\ ftable[call[p].f].ip = call[p].ip
    BY HasFile DEF IInv, Having
  <1>2. ilock[call[q].ip] = q
    BY <1>1, Domains DEF IInv, LockInv
  <1>3. call[q].ip # call[p].ip
    BY <1>2, Domains
  <1>4. Addrs(q) = Addresses[call[q].ip]
    BY <1>1, Valid DEF Addrs, Addresses
  <1> QED
    BY <1>1, <1>3, <1>4

LEMMA TransferStep ==
    ASSUME IInv, NEW p \in Procs, Transfer(p)
    PROVE  IInv'
  <1>1. /\ p \in alive /\ call[p].pc = "none"
        /\ UNCHANGED <<ftable, ofile, alive, mem, disk, iref, ilock, block, dirty, work>>
    BY DEF Transfer, At, tableVars, inodeVars, blockVars, Quiet
  <1> DEFINE v(write, d, n) == [NoCall EXCEPT !.pc = "chunk", !.write = write, !.f = ofile[p][d],
                                  !.ip = ftable[ofile[p][d]].ip, !.n = n]
  <1>2. PICK write \in BOOLEAN, d \in Fds \ FreeFds(p), n \in 1..MaxBytes :
          ftable[ofile[p][d]].type = "inode" /\ Go(p, v(write, d, n))
    BY DEF Transfer
  <1>3. PICK f \in Files : f = ofile[p][d]
    BY DEF FreeFds, IInv, FileTypes
  <1>4. PICK i \in AllInodes : i = ftable[f].ip
    BY DEF IInv, FileTypes, FileRec
  <1>5. n \in Int /\ 0 < n
    BY SizeAssumption
  <1>6. /\ v(write, d, n) \in CallRec /\ v(write, d, n).pc = "chunk" /\ v(write, d, n).f = f
        /\ v(write, d, n).ip = i /\ v(write, d, n).n = n /\ v(write, d, n).i = 0
    <2>1. NoCall \in CallRec /\ "chunk" \in CallPcs /\ NoCall.i = 0
      BY NoCallTyped, NoCallIs DEF CallPcs, Having
    <2> QED
      BY <1>3, <1>4, <1>5, <2>1 DEF CallRec
  <1> HIDE DEF v
  <1>7. call'[p] = v(write, d, n) /\ \A q \in Procs : q # p => call'[q] = call[q]
    BY <1>2, Goes DEF IInv
  <1>8. FileTypes'
    <2>1. call' \in [Procs -> CallRec]
      BY <1>2, <1>6, GoTypes DEF IInv
    <2> QED
      BY <1>1, <2>1 DEF IInv, FileTypes
  <1>9. Sames(p)
    <2>1. f # 0 /\ ofile[p][d] = f /\ ftable[f].type = "inode"
      BY <1>2, <1>3, Domains
    <2> QED
      BY <1>1, <1>4, <1>5, <1>6, <1>7, <2>1 DEF Sames, Having
  <1>10. CallInv' /\ CountInv' /\ KindInv' /\ ValidInv'
    BY <1>8, <1>9, TablesStay DEF IInv
  <1>11. call[p].pc \notin Io \cup {"open"} /\ call'[p].pc \notin Io \cup {"open"}
    BY <1>1, <1>6, <1>7 DEF Io
  <1>12. /\ LockInv' /\ DiskInv'
         /\ BlockInv' /\ HoleInv' /\ ChunkInv' /\ ByteInv' /\ LogInv'
    BY <1>1, <1>7, <1>11, OnlyTables
  <1> QED
    BY <1>8, <1>10, <1>12 DEF IInv

\* filewrite()'s transactions are at least a block, and no more than fits
LEMMA MaxWrite ==
    /\ maxWrite \in Nat /\ maxWrite >= BSIZE
    /\ \E m \in Nat : maxWrite = m * BSIZE /\ 2 * m + 4 <= MAXOPBLOCKS
  <1> DEFINE m == (MAXOPBLOCKS - 1 - 1 - 2) \div 2
  <1>1. MAXOPBLOCKS \in Nat /\ MAXOPBLOCKS >= 6 /\ BSIZE \in Nat \ {0}
    BY SizeAssumption, Numbers
  <1>2. m \in Nat /\ m >= 1 /\ 2 * m + 4 <= MAXOPBLOCKS
    BY <1>1
  <1>3. maxWrite = m * BSIZE
    BY DEF maxWrite
  <1> HIDE DEF m
  <1>4. m * BSIZE \in Nat /\ m * BSIZE >= BSIZE
    BY <1>1, <1>2
  <1> QED
    BY <1>2, <1>3, <1>4

LEMMA FilledLess ==
    ASSUME NEW a, NEW bl, NEW n \in Int, NEW m \in Int, m <= n, Filled(a, bl, n)
    PROVE  Filled(a, bl, m)
  <1>1. \A bn \in 0..MAXFILE - 1 : bn * BSIZE \in Int
    BY Numbers
  <1> QED
    BY <1>1 DEF Filled

LEMMA LockStep ==
    ASSUME IInv, NEW p \in Procs, Lock(p)
    PROVE  IInv'
  <1>1. /\ p \in alive /\ call[p].pc = "chunk"
        /\ UNCHANGED <<ftable, ofile, alive, mem, disk, iref, block, dirty, work>>
        /\ ilock[call[p].ip] = 0
    BY DEF Lock, At, tableVars, blockVars, Quiet
  <1>2. /\ call[p].f \in Files /\ ftable[call[p].f].ip = call[p].ip
        /\ call[p].ip \in Inodes /\ call[p].ip \in AllInodes /\ mem[call[p].ip].valid
    BY <1>1, HasFile, Domains DEF IInv, Having
  <1>3. PICK i \in Inodes, f \in Files : call[p].ip = i /\ call[p].f = f
    BY <1>2
  <1>4. i \in AllInodes /\ mem[i] \in InodeRec /\ ftable[f] \in FileRec /\ call[p] \in CallRec
    BY <1>2, <1>3 DEF IInv, FileTypes
  <1>5. CallOf(p)
    BY DEF IInv, CallInv
  \* what is read or written of the file
  <1> DEFINE c == call[p]
             off == ftable[f].off
             size == mem[i].size
             rest == Chunk(p)
             left0 == size - off
             n1 == IF c.write \/ left0 > rest THEN rest ELSE IF left0 > 0 THEN left0 ELSE 0
             v == [c EXCEPT !.pc = IF n1 = 0 THEN "end" ELSE "map", !.off = off, !.tot = 0, !.n1 = n1]
  <1>6. \/ c.write /\ Refused(i, off, n1) /\ Go(p, NoCall) /\ ilock' = ilock
        \/ ~(c.write /\ Refused(i, off, n1)) /\ ilock' = [ilock EXCEPT ![i] = p] /\ Go(p, v)
    BY <1>3 DEF Lock, Locks
  <1>7. /\ size \in Int /\ 0 <= size /\ size <= Limit /\ Limit \in Nat
        /\ off \in Int /\ 0 <= off /\ off <= Limit
        /\ c.n \in Int /\ c.i \in Int /\ 0 <= c.i /\ c.i < c.n /\ c.write \in BOOLEAN
    BY <1>1, <1>4, <1>5, Numbers DEF InodeRec, FileRec, CallRec, CallOf, Having, Io
  <1>8. /\ rest \in Int /\ 0 < rest /\ c.i + rest <= c.n /\ (c.write => rest <= maxWrite)
    <2>1. rest = IF c.write /\ c.n - c.i > maxWrite THEN maxWrite ELSE c.n - c.i
      BY DEF Chunk
    <2>2. maxWrite \in Nat /\ maxWrite >= BSIZE /\ BSIZE \in Nat \ {0}
      BY MaxWrite, Numbers
    <2> HIDE DEF rest, c
    <2> QED
      BY <1>7, <2>1, <2>2
  <1>9. n1 \in Int /\ 0 <= n1 /\ (c.write => n1 = rest) /\ (~c.write /\ 0 < n1 => off + n1 <= size)
    <2> HIDE DEF rest, c
    <2> QED
      BY <1>7, <1>8
  <1>10. /\ v \in CallRec /\ v.pc = (IF n1 = 0 THEN "end" ELSE "map") /\ v.off = off
         /\ v.tot = 0 /\ v.n1 = n1 /\ v.write = c.write /\ v.ip = i /\ v.f = f /\ v.n = c.n /\ v.i = c.i
    <2>1. PICK k \in CallPcs : k = IF n1 = 0 THEN "end" ELSE "map"
      BY DEF CallPcs, Having, Io
    <2>2. c \in CallRec /\ c.ip = i /\ c.f = f /\ off \in Int /\ n1 \in Int /\ 0 \in Int
      BY <1>3, <1>4, <1>7, <1>9
    <2>3. v = [c EXCEPT !.pc = k, !.off = off, !.tot = 0, !.n1 = n1]
      BY <2>1
    <2> HIDE DEF n1, off, c, v
    <2>4. v \in CallRec
      BY <2>2, <2>3 DEF CallRec
    <2>5. /\ v.pc = k /\ v.off = off /\ v.tot = 0 /\ v.n1 = n1 /\ v.write = c.write
          /\ v.ip = c.ip /\ v.f = c.f /\ v.n = c.n /\ v.i = c.i
      BY <2>2, <2>3 DEF CallRec
    <2> QED
      BY <2>1, <2>2, <2>4, <2>5
  <1> HIDE DEF v, n1, rest, off, size, c
  <1>11. CASE c.write /\ Refused(i, off, n1) /\ Go(p, NoCall) /\ ilock' = ilock
    <2>1. call'[p] = NoCall /\ NoCall.pc = "none" /\ \A q \in Procs : q # p => call'[q] = call[q]
      BY <1>11, Goes, NoCallIs DEF IInv
    <2>2. FileTypes'
      <3>1. call' \in [Procs -> CallRec]
        BY <1>11, NoCallTyped, GoTypes DEF IInv
      <3> QED
        BY <1>1, <1>11, <3>1 DEF IInv, FileTypes
    <2>3. Sames(p)
      BY <1>1, <2>1 DEF Sames, Having, Io
    <2>4. CallInv' /\ CountInv' /\ KindInv' /\ ValidInv'
      BY <2>2, <2>3, TablesStay DEF IInv
    <2>5. call[p].pc \notin Io \cup {"open"} /\ call'[p].pc \notin Io \cup {"open"}
      BY <1>1, <2>1 DEF Io
    <2>6. /\ LockInv' /\ DiskInv'
          /\ BlockInv' /\ HoleInv' /\ ChunkInv' /\ ByteInv' /\ LogInv'
      BY <1>1, <1>11, <2>1, <2>5, OnlyTables
    <2> QED
      BY <2>2, <2>4, <2>6 DEF IInv
  <1>12. CASE ~(c.write /\ Refused(i, off, n1)) /\ ilock' = [ilock EXCEPT ![i] = p] /\ Go(p, v)
    <2>1. call'[p] = v /\ \A q \in Procs : q # p => call'[q] = call[q]
      BY <1>12, Goes DEF IInv
    <2>2. v.pc \in {"map", "end"} /\ v.pc \in Io /\ v.pc \in Having
      BY <1>10 DEF Io, Having
    <2>3. FileTypes'
      <3>1. call' \in [Procs -> CallRec]
        BY <1>10, <1>12, GoTypes DEF IInv
      <3>2. ilock' \in [AllInodes -> {0} \cup Procs]
        BY <1>4, <1>12 DEF IInv, FileTypes
      <3> QED
        BY <1>1, <3>1, <3>2 DEF IInv, FileTypes
    <2>4. Sames(p)
      <3>1. /\ f # 0 /\ (\E d \in Fds : ofile[p][d] = f) /\ ftable[f].type = "inode" /\ ftable[f].ip = i
            /\ 0 <= v.i /\ v.i < v.n
        BY <1>1, <1>3, <1>5, <1>7, <1>10 DEF CallOf, Having
      <3> QED
        BY <1>1, <1>10, <2>1, <2>2, <3>1 DEF Sames, Having
    <2>5. CallInv' /\ CountInv' /\ KindInv' /\ ValidInv'
      BY <2>3, <2>4, TablesStay DEF IInv
    <2>6. LockInv'
      <3>1. \A j \in AllInodes : ilock'[j] = IF j = i THEN p ELSE ilock[j]
        BY <1>4, <1>12 DEF IInv, FileTypes
      <3>2. call[p].pc \notin Io \cup {"open"} /\ ilock[i] = 0
        BY <1>1, <1>3 DEF Io
      <3> QED
        BY <1>4, <1>10, <2>1, <2>2, <3>1, <3>2, Domains DEF IInv, LockInv
    <2>7. DiskInv'
      <3>1. \A j : Writing(j) => Writing(j)'
        <4>1. call[p].pc \notin Io
          BY <1>1 DEF Io
        <4> QED
          BY <2>1, <4>1 DEF Writing
      <3> QED
        BY <1>1, <3>1 DEF IInv, DiskInv
    <2>8. BlockInv' /\ \A j \in Inodes : Current(j)' = Current(j)
      <3>1. \A j \in Inodes : Current(j)' = Current(j)
        BY <1>1 DEF Current
      <3>2. Addresses' = Addresses
        BY <3>1 DEF Addresses
      <3> QED
        BY <1>1, <3>1, <3>2 DEF IInv, BlockInv
    <2>9. dirty[p] = {} /\ dirty'[p] = {}
      BY <1>1, NoLog DEF IInv, Io
    \* a write begins within the file, or at its end
    <2>10. v.write => off <= size /\ off + n1 <= Limit
      BY <1>7, <1>9, <1>10, <1>12 DEF Refused, Limit, size
    <2>11. ChunkOf(p)'
      <3>1. ftable'[f].off = off /\ mem'[i].size = size
        BY <1>1 DEF off, size
      <3>2. ChunkOf(p)' <=>
              /\ 0 <= v.off /\ v.off <= Limit
              /\ v.tot # -1 => v.tot \in 0..v.n1 /\ off + v.tot = v.off
              /\ v.pc \in {"map", "copy"} => 0 <= v.tot /\ v.tot < v.n1
              /\ v.pc \in {"map", "copy"} /\ 0 < v.tot => v.off % BSIZE = 0
              /\ v.write => /\ 0 <= v.tot /\ 0 < v.n1 /\ v.n1 <= maxWrite /\ v.i + v.n1 <= v.n
                            /\ off <= size /\ off + v.n1 <= Limit
              /\ ~v.write /\ 0 < v.n1 => off + v.n1 <= size
              /\ v.pc = "copy" => Addr(p)' # 0
        BY <1>10, <2>1, <3>1 DEF ChunkOf
      <3>3. v.pc = "map" => 0 < n1
        BY <1>9, <1>10
      <3>4. v.pc # "copy" /\ 0 \in 0..n1 /\ ~(0 < 0)
        BY <1>9, <2>2
      <3> QED
        BY <1>7, <1>8, <1>9, <1>10, <2>10, <3>2, <3>3, <3>4
    <2>12. Addrs(p)' = mem[i].addrs
      BY <1>1, <1>10, <2>1 DEF Addrs
    <2>13. HoleOf(p)'
      <3>1. Filled(mem[i].addrs, block, size)
        BY <1>2, <1>3, Valid DEF IInv, HoleInv, size
      <3>2. v.write => Filled(mem[i].addrs, block, off)
        BY <1>7, <2>10, <3>1, FilledLess
      <3> QED
        BY <1>1, <1>10, <2>1, <2>12, <3>2 DEF HoleOf
    <2>14. ByteOf(p)'
      <3>1. v.write => size..off - 1 = {}
        BY <1>7, <2>10
      <3>2. mem'[i].size = size
        BY <1>1 DEF size
      <3> QED
        BY <1>10, <2>1, <3>1, <3>2 DEF ByteOf
    <2>15. LogOf(p)'
      <3>1. IsFiniteSet(dirty'[p]) /\ Cardinality(dirty'[p]) = 0
        BY <2>9, FS_EmptySet
      <3>2. Visited(p)' = 0
        <4>1. call'[p].off = off /\ call'[p].tot = 0
          BY <1>10, <2>1
        <4>2. off - 0 = off
          BY <1>7
        <4>3. off \div BSIZE \in Int
          BY <1>7, Numbers, DivMod
        <4> QED
          BY <4>1, <4>2, <4>3 DEF Visited, Bn, Start
      <3>3. ~Logged(p, Addr(p))' /\ ~Logged(p, Addrs(p)[Ind])'
        BY <2>9 DEF Logged
      <3>4. Cost(p)' = 0
        <4>1. ~(call'[p].tot > 0)
          BY <1>10, <2>1
        <4> QED
          BY <3>2, <3>3, <4>1 DEF Cost
      <3>5. MAXOPBLOCKS \in Nat /\ MAXOPBLOCKS >= 6
        BY SizeAssumption
      <3> QED
        BY <2>9, <3>1, <3>4, <3>5 DEF LogOf
    <2>16. \A q \in Procs : q # p /\ call[q].pc \in Io => Undisturbed(q)
      <3> SUFFICES ASSUME NEW q \in Procs, q # p, call[q].pc \in Io PROVE Undisturbed(q)
        OBVIOUS
      <3>1. Addrs(q)' = Addrs(q)
        BY <1>1, <2>1 DEF Addrs
      <3> QED
        BY <1>1, <2>1, <3>1, GrowsSame DEF Undisturbed
    <2>17. HoleInv' /\ ChunkInv' /\ ByteInv' /\ LogInv'
      <3>1. \A j \in Inodes : Filled(Current(j)'.addrs, block', Current(j)'.size)
        BY <1>1, <2>8 DEF IInv, HoleInv
      <3>2. call'[p].pc \in Io
        BY <2>1, <2>2
      <3> QED
        BY <1>1, <2>1, <2>11, <2>13, <2>14, <2>15, <2>16, <3>1, <3>2, Assemble
    <2> QED
      BY <2>3, <2>5, <2>6, <2>7, <2>8, <2>17 DEF IInv
  <1> QED
    BY <1>6, <1>11, <1>12

\* a factor of both sides
LEMMA Factor ==
    ASSUME NEW k \in Nat \ {0}, NEW a \in Int, NEW b \in Int, k * a < k * b
    PROVE  a < b
  <1> SUFFICES ASSUME a >= b PROVE FALSE
    OBVIOUS
  <1>1. a - b \in Nat
    OBVIOUS
  <1>2. k * (a - b) >= 0
    BY <1>1
  <1>3. k * (a - b) = k * a - k * b
    OBVIOUS
  <1> QED
    BY <1>2, <1>3

\* where a transfer is, in numbers
LEMMA Where ==
    ASSUME IInv, NEW p \in Procs, call[p].pc \in Io
    PROVE  /\ call[p] \in CallRec /\ call[p].f \in Files /\ call[p].ip \in Inodes
           /\ call[p].write \in BOOLEAN
           /\ call[p].off \in Nat /\ call[p].off <= Limit /\ call[p].tot \in Int /\ call[p].n1 \in Int
           /\ ftable[call[p].f].off \in Nat /\ ftable[call[p].f].off <= Limit
           /\ mem[call[p].ip].size \in Nat /\ mem[call[p].ip].size <= Limit /\ mem[call[p].ip].valid
           /\ mem[call[p].ip].addrs \in Ptrs(Blocks, Ind)
           /\ call[p].n \in Int /\ call[p].i \in Int /\ 0 <= call[p].i /\ call[p].i < call[p].n
           /\ p \in alive /\ Addrs(p) = mem[call[p].ip].addrs /\ Addresses[call[p].ip] = Addrs(p)
           /\ ilock[call[p].ip] = p /\ Start(p) \in Int
  <1>1. call[p] \in CallRec /\ call[p].f \in Files /\ call[p].ip \in Inodes /\ mem[call[p].ip].valid
        /\ p \in alive
    BY HasFile DEF IInv, FileTypes, Having
  <1>2. ftable[call[p].f] \in FileRec /\ mem[call[p].ip] \in InodeRec
    BY <1>1, Domains DEF IInv, FileTypes
  <1>3. ChunkOf(p) /\ CallOf(p)
    BY DEF IInv, ChunkInv, CallInv
  <1>4. call[p].off \in Int /\ 0 <= call[p].off /\ call[p].off <= Limit
    BY <1>1, <1>3 DEF ChunkOf, CallRec
  <1>5. Addrs(p) = mem[call[p].ip].addrs /\ Addresses[call[p].ip] = Addrs(p)
    BY <1>1, Valid DEF Addrs, Addresses
  <1>6. ilock[call[p].ip] = p
    BY <1>1, Domains DEF IInv, LockInv
  <1>7. /\ ftable[call[p].f].off \in Nat /\ ftable[call[p].f].off <= Limit
        /\ mem[call[p].ip].size \in Nat /\ mem[call[p].ip].size <= Limit
        /\ mem[call[p].ip].addrs \in Ptrs(Blocks, Ind)
    BY <1>2, Numbers DEF FileRec, InodeRec
  <1>8. /\ call[p].write \in BOOLEAN /\ call[p].tot \in Int /\ call[p].n1 \in Int
        /\ call[p].n \in Int /\ call[p].i \in Int
    BY <1>1 DEF CallRec
  <1>9. 0 <= call[p].i /\ call[p].i < call[p].n
    BY <1>3 DEF CallOf, Having
  <1>10. Start(p) \in Int
    BY <1>4, <1>8 DEF Start
  <1> QED
    BY <1>1, <1>4, <1>5, <1>6, <1>7, <1>8, <1>9, <1>10

\* the log has room for the blocks of a transaction to its last
LEMMA LogRoom ==
    ASSUME IInv, NEW p \in Procs, call[p].pc \in {"map", "copy"}, call[p].write
    PROVE  /\ Visited(p) \in Int
           /\ call[p].tot > 0 \/ Start(p) % BSIZE = 0 =>
                 2 * Visited(p) - (IF Start(p) % BSIZE # 0 /\ call[p].tot > 0 THEN 1 ELSE 0) + 5
                   <= MAXOPBLOCKS
           /\ call[p].tot = 0 => Visited(p) = 0
  <1> DEFINE off == call[p].off
             tot == call[p].tot
             s == Start(p)
             qo == off \div BSIZE
             ro == off % BSIZE
             qs == s \div BSIZE
             rs == s % BSIZE
  <1>1. /\ off \in Nat /\ tot \in Int /\ call[p].n1 \in Int /\ s \in Int /\ BSIZE \in Nat \ {0}
        /\ ChunkOf(p)
    BY Where, Numbers DEF IInv, ChunkInv, Io
  <1>2. /\ 0 <= tot /\ tot < call[p].n1 /\ call[p].n1 <= maxWrite
        /\ 0 < tot => ro = 0
    BY <1>1 DEF ChunkOf
  <1>3. s = off - tot
    BY DEF Start
  <1>4. /\ qo \in Int /\ ro \in 0..(BSIZE - 1) /\ off = BSIZE * qo + ro
        /\ qs \in Int /\ rs \in 0..(BSIZE - 1) /\ s = BSIZE * qs + rs
    <2>1. off \in Int /\ s \in Int /\ BSIZE \in Nat \ {0}
      BY <1>1
    <2>2. qo \in Int /\ ro \in 0..(BSIZE - 1) /\ off = BSIZE * qo + ro
      BY <2>1, DivMod, Zenon
    <2>3. qs \in Int /\ rs \in 0..(BSIZE - 1) /\ s = BSIZE * qs + rs
      BY <2>1, DivMod, Zenon
    <2> QED
      BY <2>2, <2>3
  <1>5. Visited(p) = qo - qs
    BY DEF Visited, Bn
  <1>6. PICK m \in Nat : maxWrite = m * BSIZE /\ 2 * m + 4 <= MAXOPBLOCKS
    BY MaxWrite
  <1>7. MAXOPBLOCKS \in Nat
    BY SizeAssumption
  <1> HIDE DEF off, tot, s, qo, ro, qs, rs
  <1>8. off - s < m * BSIZE
    BY <1>1, <1>2, <1>3, <1>6
  <1>9. BSIZE * (qo - qs) = BSIZE * qo - BSIZE * qs /\ BSIZE * m = m * BSIZE
        /\ BSIZE * (m + 1) = BSIZE * m + BSIZE /\ BSIZE * qo \in Int /\ BSIZE * qs \in Int
    BY <1>1, <1>4, <1>6
  <1>10. ASSUME rs = 0 PROVE qo - qs < m
    <2>1. BSIZE * (qo - qs) < BSIZE * m
      BY <1>1, <1>4, <1>6, <1>8, <1>9, <1>10
    <2> QED
      BY <1>1, <1>4, <1>6, <2>1, Factor
  <1>11. ASSUME rs # 0, tot > 0 PROVE qo - qs < m + 1
    <2>1. BSIZE * (qo - qs) < BSIZE * (m + 1)
      BY <1>1, <1>2, <1>4, <1>6, <1>8, <1>9, <1>11
    <2> QED
      BY <1>1, <1>4, <1>6, <2>1, Factor
  <1>12. tot = 0 => qo = qs
    BY <1>1, <1>3 DEF qo, qs, off, s
  <1>13. tot > 0 \/ rs = 0 =>
           2 * (qo - qs) - (IF rs # 0 /\ tot > 0 THEN 1 ELSE 0) + 5 <= MAXOPBLOCKS
    <2>1. CASE rs = 0
      BY <1>4, <1>6, <1>7, <1>10, <2>1
    <2>2. CASE rs # 0 /\ tot > 0
      BY <1>4, <1>6, <1>7, <1>11, <2>2
    <2> QED
      BY <2>1, <2>2
  <1> QED
    BY <1>4, <1>5, <1>12, <1>13 DEF s, rs, tot

\* a step that only tells the call how far it is
LEMMA OnlyCall ==
    ASSUME IInv, NEW p \in Procs, call[p].pc \in Io, NEW c \in CallRec, Go(p, c), c.pc \in Io,
           c.write = call[p].write, c.f = call[p].f, c.ip = call[p].ip, c.n = call[p].n,
           c.i = call[p].i, call[p].write => c.off = call[p].off,
           UNCHANGED <<ftable, ofile, alive, mem, disk, iref, ilock, block, dirty, work>>,
           ChunkOf(p)', LogOf(p)'
    PROVE  IInv'
  <1>1. call'[p] = c /\ \A q \in Procs : q # p => call'[q] = call[q]
    BY Goes DEF IInv
  <1>2. FileTypes'
    <2>1. call' \in [Procs -> CallRec]
      BY GoTypes DEF IInv
    <2> QED
      BY <2>1 DEF IInv, FileTypes
  <1>3. Sames(p)
    <2>1. p \in alive /\ CallOf(p) /\ call[p].pc \in Having
      BY Where DEF IInv, CallInv, Having
    <2> QED
      BY <1>1, <2>1 DEF Sames, CallOf, Having
  <1>4. CallInv' /\ CountInv' /\ KindInv' /\ ValidInv'
    BY <1>2, <1>3, TablesStay DEF IInv
  <1>5. LockInv'
    BY <1>1 DEF IInv, LockInv
  <1>6. DiskInv'
    <2>1. \A j : Writing(j)' <=> Writing(j)
      BY <1>1 DEF Writing
    <2> QED
      BY <2>1 DEF IInv, DiskInv
  <1>7. BlockInv' /\ \A j \in Inodes : Current(j)' = Current(j)
    <2>1. \A j \in Inodes : Current(j)' = Current(j)
      BY DEF Current
    <2>2. Addresses' = Addresses
      BY <2>1 DEF Addresses
    <2> QED
      BY <2>1, <2>2 DEF IInv, BlockInv
  <1>8. Addrs(p)' = Addrs(p)
    BY <1>1 DEF Addrs
  <1>9. HoleOf(p)' /\ ByteOf(p)'
    <2>1. HoleOf(p) /\ ByteOf(p)
      BY DEF IInv, HoleInv, ByteInv
    <2> QED
      BY <1>1, <1>8, <2>1 DEF HoleOf, ByteOf
  <1>10. \A q \in Procs : q # p /\ call[q].pc \in Io => Undisturbed(q)
    <2> SUFFICES ASSUME NEW q \in Procs, q # p, call[q].pc \in Io PROVE Undisturbed(q)
      OBVIOUS
    <2> QED
      BY <1>1, GrowsSame DEF Undisturbed
  <1>11. HoleInv' /\ ChunkInv' /\ ByteInv' /\ LogInv'
    <2>1. \A j \in Inodes : Filled(Current(j)'.addrs, block', Current(j)'.size)
      BY <1>7 DEF IInv, HoleInv
    <2> QED
      BY <1>1, <1>9, <1>10, <2>1, Assemble
  <1> QED
    BY <1>2, <1>4, <1>5, <1>6, <1>7, <1>11 DEF IInv

\* and for the inode, wherever the transaction stops
LEMMA StopRoom ==
    ASSUME IInv, NEW p \in Procs, call[p].pc \in {"map", "copy"}
    PROVE  /\ IsFiniteSet(dirty[p]) /\ Cardinality(dirty[p]) + 1 <= MAXOPBLOCKS
           /\ ~call[p].write => dirty[p] = {}
  <1>1. LogOf(p) /\ call[p].pc \in Io
    BY DEF IInv, LogInv, Io
  <1>2. IsFiniteSet(dirty[p]) /\ Cardinality(dirty[p]) \in Nat
    BY <1>1, FS_CardinalityType DEF LogOf
  <1>3. MAXOPBLOCKS \in Nat /\ MAXOPBLOCKS >= 6
    BY SizeAssumption
  <1>4. dirty[p] = {} => Cardinality(dirty[p]) = 0
    BY FS_EmptySet
  <1>5. CASE ~call[p].write
    BY <1>1, <1>2, <1>3, <1>4, <1>5 DEF LogOf
  <1>6. CASE call[p].write
    <2>1. /\ Cardinality(dirty[p]) <= Cost(p)
          /\ call[p].tot = 0 /\ Start(p) % BSIZE # 0 => dirty[p] = {}
      BY <1>1, <1>6 DEF LogOf
    <2>2. CASE dirty[p] = {}
      BY <1>2, <1>3, <1>4, <1>6, <2>2
    <2>3. CASE dirty[p] # {}
      <3>1. call[p].tot \in Int /\ 0 <= call[p].tot
        <4>1. ChunkOf(p) /\ call[p].tot \in Int
          BY <1>1, Where DEF IInv, ChunkInv
        <4> QED
          BY <4>1 DEF ChunkOf
      <3>2. call[p].tot > 0 \/ Start(p) % BSIZE = 0
        BY <2>1, <2>3, <3>1
      <3> DEFINE u == IF Start(p) % BSIZE # 0 /\ call[p].tot > 0 THEN 1 ELSE 0
                 l == IF Logged(p, Addr(p)) THEN 2 ELSE 0
                 m == IF Logged(p, Addrs(p)[Ind]) THEN 2 ELSE 0
      <3>3. u \in Int /\ l \in Int /\ m \in Int /\ l <= 2 /\ m <= 2
        OBVIOUS
      <3>4. Cost(p) = 2 * Visited(p) - u + l + m
        BY DEF Cost
      <3>5. Visited(p) \in Int /\ 2 * Visited(p) - u + 5 <= MAXOPBLOCKS
        BY <1>6, <3>2, LogRoom
      <3> HIDE DEF u, l, m
      <3> QED
        BY <1>2, <1>3, <1>6, <2>1, <3>3, <3>4, <3>5
    <2> QED
      BY <2>2, <2>3
  <1> QED
    BY <1>5, <1>6

LEMMA MappedStep ==
    ASSUME IInv, NEW p \in Procs, Mapped(p)
    PROVE  IInv'
  <1>1. /\ call[p].pc = "map" /\ Addr(p) # 0 /\ call[p].pc \in Io
        /\ UNCHANGED <<ftable, ofile, alive, mem, disk, iref, ilock, block, dirty, work>>
    BY DEF Mapped, At, tableVars, inodeVars, blockVars, Quiet, Io
  <1> DEFINE c == [call[p] EXCEPT !.pc = "copy"]
  <1>2. call[p] \in CallRec
    BY <1>1, Where
  <1>3. /\ c \in CallRec /\ c.pc = "copy" /\ c.write = call[p].write /\ c.f = call[p].f
        /\ c.ip = call[p].ip /\ c.n = call[p].n /\ c.i = call[p].i /\ c.off = call[p].off
        /\ c.tot = call[p].tot /\ c.n1 = call[p].n1 /\ c.pc \in Io
    BY <1>2 DEF CallRec, CallPcs, Having, Io
  <1>4. Go(p, c)
    BY DEF Mapped, Step
  <1> HIDE DEF c
  <1>5. call'[p] = c
    BY <1>4, Goes DEF IInv
  <1>6. Addrs(p)' = Addrs(p) /\ Bn(p)' = Bn(p) /\ Start(p)' = Start(p)
    BY <1>1, <1>3, <1>5 DEF Addrs, Bn, Start
  <1>7. Addr(p)' = Addr(p) /\ Visited(p)' = Visited(p)
    <2>1. Addr(p)' = BlockNo(Addrs(p)', block', Bn(p)')
      BY DEF Addr, BlockNo, Direct, NoIndirect, Entry
    <2> QED
      BY <1>1, <1>6, <2>1, AddrIs DEF Visited
  <1>8. ChunkOf(p)'
    <2>1. ChunkOf(p)
      BY <1>1 DEF IInv, ChunkInv
    <2> QED
      BY <1>1, <1>3, <1>5, <1>7, <2>1 DEF ChunkOf
  <1>9. LogOf(p)'
    <2>1. LogOf(p)
      BY DEF IInv, LogInv
    <2>2. /\ Logged(p, Addr(p))' <=> Logged(p, Addr(p))
          /\ Logged(p, Addrs(p)[Ind])' <=> Logged(p, Addrs(p)[Ind])
      BY <1>1, <1>6, <1>7 DEF Logged
    <2>3. Cost(p)' = Cost(p)
      BY <1>3, <1>5, <1>6, <1>7, <2>2 DEF Cost
    <2> QED
      BY <1>1, <1>3, <1>5, <1>6, <2>1, <2>3 DEF LogOf
  <1> QED
    BY <1>1, <1>3, <1>4, <1>8, <1>9, OnlyCall

\* a call that stops, of a block that is not there or of an address that is none
LEMMA StopStep ==
    ASSUME IInv, NEW p \in Procs, call[p].pc \in {"map", "copy"}, NEW t \in Int,
           t = call[p].tot \/ (~call[p].write /\ t = -1),
           Go(p, [call[p] EXCEPT !.pc = "end", !.tot = t]),
           UNCHANGED <<ftable, ofile, alive, mem, disk, iref, ilock, block, dirty, work>>
    PROVE  IInv'
  <1> DEFINE c == [call[p] EXCEPT !.pc = "end", !.tot = t]
  <1>1. call[p] \in CallRec /\ call[p].pc \in Io
    BY Where DEF Io
  <1>2. /\ c \in CallRec /\ c.pc = "end" /\ c.write = call[p].write /\ c.f = call[p].f
        /\ c.ip = call[p].ip /\ c.n = call[p].n /\ c.i = call[p].i /\ c.off = call[p].off
        /\ c.tot = t /\ c.n1 = call[p].n1 /\ c.pc \in Io
    BY <1>1 DEF CallRec, CallPcs, Having, Io
  <1>3. Go(p, c)
    OBVIOUS
  <1> HIDE DEF c
  <1>4. call'[p] = c
    BY <1>3, Goes DEF IInv
  <1>5. ChunkOf(p)'
    <2>1. ChunkOf(p)
      BY <1>1 DEF IInv, ChunkInv
    <2>2. t = -1 \/ t = call[p].tot
      OBVIOUS
    <2> QED
      BY <1>2, <1>4, <2>1, <2>2 DEF ChunkOf
  <1>6. LogOf(p)'
    <2>1. /\ IsFiniteSet(dirty[p]) /\ Cardinality(dirty[p]) + 1 <= MAXOPBLOCKS
          /\ ~call[p].write => dirty[p] = {}
      BY StopRoom
    <2> QED
      BY <1>2, <1>4, <2>1 DEF LogOf
  <1> QED
    BY <1>1, <1>2, <1>3, <1>5, <1>6, OnlyCall

LEMMA MapFailsStep ==
    ASSUME IInv, NEW p \in Procs, MapFails(p)
    PROVE  IInv'
  <1>1. /\ call[p].pc = "map" /\ Step(p, "end")
        /\ UNCHANGED <<ftable, ofile, alive, mem, disk, iref, ilock, block, dirty, work>>
    BY DEF MapFails, At, tableVars, inodeVars, blockVars, Quiet
  <1>2. call[p] \in CallRec /\ call[p].tot \in Int
    BY <1>1, Where DEF Io
  <1>3. [call[p] EXCEPT !.pc = "end", !.tot = call[p].tot] = [call[p] EXCEPT !.pc = "end"]
    BY <1>2 DEF CallRec
  <1>4. Go(p, [call[p] EXCEPT !.pc = "end", !.tot = call[p].tot])
    BY <1>1, <1>3 DEF Step
  <1> QED
    BY <1>1, <1>2, <1>4, StopStep

LEMMA CopyFailsStep ==
    ASSUME IInv, NEW p \in Procs, CopyFails(p)
    PROVE  IInv'
  <1>1. /\ call[p].pc = "copy"
        /\ UNCHANGED <<ftable, ofile, alive, mem, disk, iref, ilock, block, dirty, work>>
    BY DEF CopyFails, At, tableVars, inodeVars, blockVars, Quiet
  <1> DEFINE t == IF call[p].write THEN call[p].tot ELSE -1
  <1>2. call[p] \in CallRec /\ call[p].tot \in Int /\ t \in Int
    BY <1>1, Where DEF Io
  <1>3. Go(p, [call[p] EXCEPT !.pc = "end", !.tot = t])
    BY <1>2 DEF CopyFails
  <1>4. t = call[p].tot \/ (~call[p].write /\ t = -1)
    OBVIOUS
  <1> HIDE DEF t
  <1> QED
    BY <1>1, <1>2, <1>3, <1>4, StopStep

\* no block is missing where a write begins within one
LEMMA Aligned ==
    ASSUME IInv, NEW p \in Procs, call[p].pc \in {"map", "copy"}, call[p].write, Addr(p) = 0,
           call[p].tot = 0
    PROVE  Start(p) % BSIZE = 0
  <1> SUFFICES ASSUME Start(p) % BSIZE # 0 PROVE FALSE
    OBVIOUS
  <1>1. /\ call[p].ip \in Inodes /\ mem[call[p].ip].valid /\ Addrs(p) = mem[call[p].ip].addrs
        /\ call[p].off \in Nat /\ mem[call[p].ip].size \in Nat /\ ChunkOf(p)
        /\ ftable[call[p].f].off \in Nat /\ call[p].tot \in Int /\ call[p].n1 \in Int
    BY Where DEF IInv, ChunkInv, Io
  <1>2. Start(p) = call[p].off /\ call[p].off <= mem[call[p].ip].size
    <2>1. /\ ftable[call[p].f].off <= mem[call[p].ip].size
          /\ ftable[call[p].f].off + call[p].tot = call[p].off
      BY <1>1 DEF ChunkOf
    <2> QED
      BY <1>1, <2>1 DEF Start
  <1>3. Filled(Addrs(p), block, mem[call[p].ip].size)
    BY <1>1, Valid DEF IInv, HoleInv
  <1>4. PICK o \in Nat : o = call[p].off
    BY <1>1
  <1>5. /\ o \div BSIZE \in Nat /\ (o % BSIZE) \in 0..BSIZE - 1
        /\ o = (o \div BSIZE) * BSIZE + (o % BSIZE)
    BY NoOf
  <1>6. PICK q \in Nat, m \in Nat : q = o \div BSIZE /\ m = o % BSIZE /\ o = q * BSIZE + m /\ m # 0
    <2>1. (o % BSIZE) \in Nat
      BY <1>5, Numbers
    <2> QED
      BY <1>2, <1>4, <1>5, <2>1
  <1>7. q * BSIZE < mem[call[p].ip].size
    <2>1. q * BSIZE \in Nat
      BY Numbers
    <2> QED
      BY <1>1, <1>2, <1>4, <1>6, <2>1
  <1>8. q \in 0..MAXFILE - 1
    <2>1. Bn(p) \in 0..MAXFILE - 1
      BY OffIn DEF IInv
    <2> QED
      BY <1>4, <1>6, <2>1 DEF Bn
  <1>9. BlockNo(Addrs(p), block, q) # 0
    BY <1>3, <1>7, <1>8 DEF Filled
  <1> QED
    BY <1>4, <1>6, <1>9, AddrIs DEF Bn

LEMMA AddOne ==
    ASSUME NEW S, IsFiniteSet(S), NEW x
    PROVE  IsFiniteSet(S \cup {x}) /\ Cardinality(S \cup {x}) <= Cardinality(S) + 1
           /\ Cardinality(S) \in Nat /\ Cardinality(S \cup {x}) \in Nat
  <1>1. IsFiniteSet(S \cup {x}) /\ Cardinality(S) \in Nat
    BY FS_AddElement, FS_CardinalityType
  <1>2. Cardinality(S \cup {x}) = Cardinality(S) \/ Cardinality(S \cup {x}) = Cardinality(S) + 1
    BY FS_AddElement
  <1> QED
    BY <1>1, <1>2

LEMMA AddTwo ==
    ASSUME NEW S, IsFiniteSet(S), NEW x, NEW y
    PROVE  IsFiniteSet(S \cup {x, y}) /\ Cardinality(S \cup {x, y}) <= Cardinality(S) + 2
           /\ Cardinality(S \cup {x, y}) \in Nat
  <1>1. S \cup {x, y} = (S \cup {x}) \cup {y}
    OBVIOUS
  <1>2. IsFiniteSet(S \cup {x}) /\ Cardinality(S \cup {x}) <= Cardinality(S) + 1
        /\ Cardinality(S) \in Nat /\ Cardinality(S \cup {x}) \in Nat
    BY AddOne
  <1>3. IsFiniteSet((S \cup {x}) \cup {y})
        /\ Cardinality((S \cup {x}) \cup {y}) <= Cardinality(S \cup {x}) + 1
        /\ Cardinality((S \cup {x}) \cup {y}) \in Nat
    BY <1>2, AddOne
  <1> QED
    BY <1>1, <1>2, <1>3

\* a new block is logged with the bitmap's: what is to be logged for this block
\* of the file, or for the indirect block, allows for it
LEMMA LogGrows ==
    ASSUME IInv, NEW p \in Procs, call[p].pc = "map", call[p].write, Addr(p) = 0,
           call'[p] = call[p], NEW b, b # 0, NEW g,
           \/ /\ dirty'[p] = dirty[p] \cup {g, <<"block", b>>}
              /\ Addr(p)' = b /\ Addrs(p)'[Ind] = Addrs(p)[Ind]
           \/ /\ dirty'[p] = dirty[p] \cup {g, <<"block", b>>}
              /\ Addrs(p)[Ind] = 0 /\ Addrs(p)'[Ind] = b
           \/ /\ dirty'[p] = dirty[p] \cup {g, <<"block", b>>, <<"block", Addrs(p)[Ind]>>}
              /\ Addr(p)' = b /\ Addrs(p)'[Ind] = Addrs(p)[Ind] /\ Addrs(p)[Ind] # 0
    PROVE  LogOf(p)'
  <1>1. LogOf(p) /\ call[p].pc \in Io
    BY DEF IInv, LogInv, Io
  <1>2. IsFiniteSet(dirty[p]) /\ Cardinality(dirty[p]) \in Nat /\ Cardinality(dirty[p]) <= Cost(p)
    BY <1>1, FS_CardinalityType DEF LogOf
  <1>3. Bn(p)' = Bn(p) /\ Start(p)' = Start(p) /\ Visited(p)' = Visited(p)
    BY DEF Bn, Start, Visited
  <1> DEFINE u == IF Start(p) % BSIZE # 0 /\ call[p].tot > 0 THEN 1 ELSE 0
             m == IF Logged(p, Addrs(p)[Ind]) THEN 2 ELSE 0
             l2 == IF Logged(p, Addr(p))' THEN 2 ELSE 0
             m2 == IF Logged(p, Addrs(p)[Ind])' THEN 2 ELSE 0
  <1>4. u \in Int /\ m \in {0, 2} /\ l2 \in {0, 2} /\ m2 \in {0, 2} /\ Visited(p) \in Int
    BY LogRoom
  <1>5. ~Logged(p, Addr(p))
    BY DEF Logged
  <1>6. Cost(p) = 2 * Visited(p) - u + m
    <2>1. Cost(p) = 2 * Visited(p) - u + 0 + m
      BY <1>5 DEF Cost
    <2> HIDE DEF u, m
    <2> QED
      BY <1>4, <2>1
  <1>7. Cost(p)' = 2 * Visited(p) - u + l2 + m2
    BY <1>3 DEF Cost
  <1>8. Addrs(p)'[Ind] = Addrs(p)[Ind] /\ dirty[p] \subseteq dirty'[p] => m <= m2
    BY DEF Logged
  <1>9. IsFiniteSet(dirty'[p]) /\ Cardinality(dirty'[p]) <= Cost(p)'
    <2>1. CASE /\ dirty'[p] = dirty[p] \cup {g, <<"block", b>>}
               /\ Addr(p)' = b /\ Addrs(p)'[Ind] = Addrs(p)[Ind]
      <3>1. l2 = 2 /\ m <= m2
        BY <1>8, <2>1 DEF Logged
      <3>2. IsFiniteSet(dirty[p] \cup {g, <<"block", b>>})
            /\ Cardinality(dirty[p] \cup {g, <<"block", b>>}) <= Cardinality(dirty[p]) + 2
            /\ Cardinality(dirty[p] \cup {g, <<"block", b>>}) \in Nat
        BY <1>2, AddTwo
      <3>3. dirty'[p] = dirty[p] \cup {g, <<"block", b>>}
        BY <2>1
      <3> HIDE DEF u, m, l2, m2
      <3> QED
        BY <1>2, <1>4, <1>6, <1>7, <3>1, <3>2, <3>3
    <2>2. CASE /\ dirty'[p] = dirty[p] \cup {g, <<"block", b>>}
               /\ Addrs(p)[Ind] = 0 /\ Addrs(p)'[Ind] = b
      <3>1. m = 0 /\ m2 = 2
        BY <2>2 DEF Logged
      <3>2. IsFiniteSet(dirty[p] \cup {g, <<"block", b>>})
            /\ Cardinality(dirty[p] \cup {g, <<"block", b>>}) <= Cardinality(dirty[p]) + 2
            /\ Cardinality(dirty[p] \cup {g, <<"block", b>>}) \in Nat
        BY <1>2, AddTwo
      <3>3. dirty'[p] = dirty[p] \cup {g, <<"block", b>>}
        BY <2>2
      <3> HIDE DEF u, m, l2, m2
      <3> QED
        BY <1>2, <1>4, <1>6, <1>7, <3>1, <3>2, <3>3
    <2>3. CASE /\ dirty'[p] = dirty[p] \cup {g, <<"block", b>>, <<"block", Addrs(p)[Ind]>>}
               /\ Addr(p)' = b /\ Addrs(p)'[Ind] = Addrs(p)[Ind] /\ Addrs(p)[Ind] # 0
      <3> DEFINE x == <<"block", Addrs(p)[Ind]>>
      <3>1. l2 = 2 /\ m2 = 2
        BY <2>3 DEF Logged
      <3>2. dirty'[p] = (dirty[p] \cup {g, <<"block", b>>}) \cup {x}
        BY <2>3
      <3>3. IsFiniteSet(dirty[p] \cup {g, <<"block", b>>})
            /\ Cardinality(dirty[p] \cup {g, <<"block", b>>}) <= Cardinality(dirty[p]) + 2
            /\ Cardinality(dirty[p] \cup {g, <<"block", b>>}) \in Nat
        BY <1>2, AddTwo
      <3>4. CASE Logged(p, Addrs(p)[Ind])
        <4>1. dirty'[p] = dirty[p] \cup {g, <<"block", b>>} /\ m = 2
          BY <3>2, <3>4 DEF Logged
        <4> HIDE DEF u, m, l2, m2
        <4> QED
          BY <1>2, <1>4, <1>6, <1>7, <3>1, <3>3, <4>1
      <3>5. CASE ~Logged(p, Addrs(p)[Ind])
        <4>1. m = 0
          BY <3>5
        <4> DEFINE S == dirty[p] \cup {g, <<"block", b>>}
        <4>2. IsFiniteSet(S \cup {x}) /\ Cardinality(S \cup {x}) <= Cardinality(S) + 1
              /\ Cardinality(S \cup {x}) \in Nat
          <5>1. IsFiniteSet(S)
            BY <3>3
          <5> HIDE DEF S, x
          <5> QED
            BY <5>1, AddOne
        <4>3. dirty'[p] = S \cup {x}
          BY <3>2
        <4>4. Cardinality(S) <= Cardinality(dirty[p]) + 2 /\ Cardinality(S) \in Nat
          BY <3>3
        <4> HIDE DEF u, m, l2, m2, S, x
        <4> QED
          BY <1>2, <1>4, <1>6, <1>7, <3>1, <4>1, <4>2, <4>3, <4>4
      <3> QED
        BY <3>4, <3>5
    <2> QED
      BY <2>1, <2>2, <2>3
  <1>10. call[p].tot = 0 => Start(p) % BSIZE = 0
    BY Aligned
  <1> QED
    BY <1>1, <1>3, <1>9, <1>10 DEF LogOf

\* a block is added to the file
LEMMA GrowStep ==
    ASSUME IInv, NEW p \in Procs, call[p].pc = "map", call[p].write,
           NEW i \in Inodes, call[p].ip = i,
           UNCHANGED <<ftable, ofile, alive, disk, iref, ilock, call, work>>,
           mem' \in [AllInodes -> InodeRec], \A j \in AllInodes : j # i => mem'[j] = mem[j],
           mem'[i].valid = mem[i].valid, mem'[i].size = mem[i].size,
           DOMAIN block' \subseteq Blocks, block' \in [DOMAIN block' -> BlockRec],
           dirty' \in [Procs -> SUBSET ({"bitmap", "block"} \X Nat)],
           \A q \in Procs : q # p => dirty'[q] = dirty[q],
           Owned(Addresses', block'),
           \A j \in Inodes : Grows(Addresses[j], block, Addresses'[j], block'),
           LogOf(p)'
    PROVE  IInv' /\ \A j \in Inodes : Kept(j)
  <1>1. call[p].pc \in Io /\ call[p].pc \in Having /\ i \in AllInodes
    BY Domains DEF Io, Having
  <1>2. FileTypes'
    BY DEF IInv, FileTypes
  <1>3. Sames(p)
    <2>1. p \in alive /\ CallOf(p)
      BY <1>1, Where DEF IInv, CallInv
    <2> QED
      BY <1>1, <2>1 DEF Sames, CallOf
  <1>4. CallInv' /\ CountInv' /\ KindInv' /\ ValidInv'
    BY <1>2, <1>3, TablesStay DEF IInv
  <1>5. LockInv'
    BY DEF IInv, LockInv
  <1>6. DiskInv'
    <2>1. \A j : Writing(j)' <=> Writing(j)
      BY DEF Writing
    <2>2. Writing(i)
      BY <1>1 DEF Writing
    <2> QED
      BY <2>1, <2>2 DEF IInv, DiskInv
  <1>7. BlockInv'
    BY DEF BlockInv
  <1>8. ASSUME NEW q \in Procs, call[q].pc \in Io
        PROVE  /\ call[q].ip \in Inodes /\ mem[call[q].ip].valid /\ mem'[call[q].ip].valid
               /\ Addresses[call[q].ip] = Addrs(q) /\ Addresses'[call[q].ip] = Addrs(q)'
               /\ Grows(Addrs(q), block, Addrs(q)', block')
    <2>1. /\ call[q].ip \in Inodes /\ mem[call[q].ip].valid /\ Addresses[call[q].ip] = Addrs(q)
          /\ call[q].ip \in AllInodes
      BY <1>8, Where, Domains
    <2>2. mem'[call[q].ip].valid
      BY <2>1
    <2>3. Addresses'[call[q].ip] = Addrs(q)'
      <3>1. Current(call[q].ip)'.addrs = mem'[call[q].ip].addrs
        BY <2>2 DEF Current
      <3> QED
        BY <2>1, <3>1 DEF Addresses, Addrs
    <2> QED
      BY <2>1, <2>2, <2>3
  <1>9. ASSUME NEW q \in Procs, q # p, call[q].pc \in Io PROVE Undisturbed(q)
    <2>1. call[q].ip # i /\ call[q].ip \in AllInodes
      <3>1. ilock[call[p].ip] = p
        BY <1>1, Where
      <3> QED
        BY <1>1, <1>9, <3>1, Alone, Domains
    <2>2. mem'[call[q].ip] = mem[call[q].ip]
      BY <2>1
    <2>3. Addrs(q)' = Addrs(q)
      BY <2>2 DEF Addrs
    <2> QED
      BY <1>8, <1>9, <2>2, <2>3 DEF Undisturbed
  <1>10. ChunkOf(p)'
    <2>1. ChunkOf(p)
      BY <1>1 DEF IInv, ChunkInv
    <2> QED
      BY <2>1 DEF ChunkOf
  <1>11. Grows(Addrs(p), block, Addrs(p)', block') /\ HoleOf(p) /\ ByteOf(p)
    BY <1>1, <1>8 DEF IInv, HoleInv, ByteInv
  <1>12. HoleOf(p)'
    BY <1>11, GrowsFilled DEF HoleOf
  <1>13. ByteOf(p)'
    <2> SUFFICES ASSUME NEW k \in mem[i].size..call[p].off - 1
                 PROVE  Byte(Addrs(p)', block', k) = p
      BY DEF ByteOf
    <2>1. Byte(Addrs(p), block, k) = p /\ Filled(Addrs(p), block, call[p].off)
      BY <1>11 DEF ByteOf, HoleOf
    <2>2. call[p].off \in Nat /\ call[p].off <= Limit /\ mem[i].size \in Nat
      BY <1>1, Where
    <2>3. k \in Nat /\ k < call[p].off
      BY <2>2
    <2> QED
      BY <1>11, <2>1, <2>2, <2>3, GrowsByte
  <1>14. ASSUME NEW j \in Inodes
         PROVE  Filled(Current(j)'.addrs, block', Current(j)'.size) /\ Kept(j)
    <2>1. Current(j)'.size = Current(j).size
      <3>1. j \in AllInodes
        BY Domains
      <3> QED
        BY <3>1 DEF Current
    <2>2. Addresses[j] = Current(j).addrs /\ Addresses'[j] = Current(j)'.addrs
      BY DEF Addresses
    <2>3. Filled(Current(j).addrs, block, Current(j).size)
      BY DEF IInv, HoleInv
    <2>4. Grows(Current(j).addrs, block, Current(j)'.addrs, block')
      BY <2>2
    <2>5. Kept(j)
      BY <2>1, <2>4, GrowsKept DEF IInv
    <2> QED
      BY <2>1, <2>3, <2>4, <2>5, GrowsFilled
  <1>15. HoleInv' /\ ChunkInv' /\ ByteInv' /\ LogInv'
    BY <1>1, <1>9, <1>10, <1>12, <1>13, <1>14, Assemble
  <1> QED
    BY <1>2, <1>4, <1>5, <1>6, <1>7, <1>14, <1>15 DEF IInv

LEMMA WithTyped ==
    ASSUME FileTypes, NEW b \in Blocks
    PROVE  /\ With(block, b) \in [DOMAIN block \cup {b} -> BlockRec]
           /\ DOMAIN With(block, b) = DOMAIN block \cup {b}
           /\ DOMAIN block \cup {b} \subseteq Blocks
           /\ Allocated(b) = With(block, b)
           /\ <<"block", b>> \in {"bitmap", "block"} \X Nat
           /\ BBLOCK(b) \in {"bitmap", "block"} \X Nat
  <1>1. Zeroed \in BlockRec
    BY DEF Zeroed, BlockRec, Ptrs
  <1>2. block \in [DOMAIN block -> BlockRec] /\ DOMAIN block \subseteq Blocks
    BY DEF FileTypes
  <1>3. With(block, b) \in [DOMAIN block \cup {b} -> BlockRec]
        /\ DOMAIN With(block, b) = DOMAIN block \cup {b}
    BY <1>1, <1>2 DEF With
  <1>4. Allocated(b) = With(block, b)
    BY DEF Allocated, With
  <1>5. b \in Nat /\ BPB \in Nat \ {0}
    BY Domains, Numbers
  <1>6. b \div BPB \in Nat
    BY <1>5
  <1> QED
    BY <1>2, <1>3, <1>4, <1>5, <1>6 DEF BBLOCK

LEMMA MapNewStep ==
    ASSUME IInv, NEW p \in Procs, MapNew(p)
    PROVE  IInv' /\ \A j \in Inodes : Kept(j)
  <1>1. /\ call[p].pc = "map" /\ Addr(p) = 0 /\ FreeBlocks # {} /\ call[p].pc \in Io
        /\ UNCHANGED <<ftable, ofile, alive, disk, iref, ilock, call, work>>
    BY DEF MapNew, At, tableVars, Quiet, Io
  <1>2. call[p].write
    BY <1>1, ReaderHas DEF IInv
  <1>3. PICK i \in Inodes : call[p].ip = i
    BY <1>1, Where
  <1>4. /\ i \in AllInodes /\ mem[i].valid /\ mem[i] \in InodeRec /\ Addrs(p) = mem[i].addrs
        /\ Addresses[i] = Addrs(p) /\ mem[i].addrs \in Ptrs(Blocks, Ind)
    BY <1>1, <1>3, Where, Domains DEF IInv, FileTypes
  <1>5. PICK b \in Blocks : b = First(FreeBlocks) /\ b \notin DOMAIN block
    <2>1. First(FreeBlocks) \in FreeBlocks
      BY <1>1, FirstOf, Domains DEF FreeBlocks
    <2> QED
      BY <2>1 DEF FreeBlocks
  <1>6. b # 0 /\ Ind \in 1..Ind /\ 0 \notin DOMAIN block /\ Addresses \in Trees /\ Owned(Addresses, block)
    BY Domains, Numbers, AddressTypes DEF IInv, BlockInv
  <1>7. /\ With(block, b) \in [DOMAIN block \cup {b} -> BlockRec]
        /\ DOMAIN With(block, b) = DOMAIN block \cup {b}
        /\ DOMAIN block \cup {b} \subseteq Blocks
        /\ Allocated(b) = With(block, b)
        /\ <<"block", b>> \in {"bitmap", "block"} \X Nat
        /\ BBLOCK(b) \in {"bitmap", "block"} \X Nat
    BY WithTyped DEF IInv
  <1>8. dirty \in [Procs -> SUBSET ({"bitmap", "block"} \X Nat)]
    BY DEF IInv, FileTypes
  <1>9. PICK bn \in 0..MAXFILE - 1 : bn = Bn(p)
    BY <1>1, OffIn DEF IInv
  <1>10. Bn(p)' = bn
    BY <1>1, <1>9 DEF Bn
  <1>11. Addr(p)' = BlockNo(Addrs(p)', block', bn) /\ BlockNo(Addrs(p), block, bn) = 0
    <2>1. Addr(p)' = BlockNo(Addrs(p)', block', Bn(p)')
      BY DEF Addr, BlockNo, Direct, NoIndirect, Entry
    <2> QED
      BY <1>1, <1>9, <1>10, <2>1, AddrIs
  \* the block or the indirect block goes into the inode
  <1>12. CASE Direct(p) \/ NoIndirect(p)
    <2>1. PICK k \in 1..Ind : /\ k = IF Direct(p) THEN Bn(p) + 1 ELSE Ind
                              /\ Direct(p) => bn < NDIRECT /\ k = bn + 1
                              /\ ~Direct(p) => ~(bn < NDIRECT) /\ k = Ind
      <3>1. IF Direct(p) THEN bn < NDIRECT /\ bn + 1 \in 1..Ind ELSE ~(bn < NDIRECT)
        BY <1>9, Numbers DEF Direct
      <3> QED
        BY <1>6, <1>9, <3>1
    <2>2. mem[i].addrs[k] = 0
      BY <1>4, <1>11, <1>12, <2>1 DEF BlockNo, NoIndirect
    <2>3. /\ mem' = [mem EXCEPT ![i].addrs[k] = b]
          /\ block' = With(block, b)
          /\ dirty' = [dirty EXCEPT ![p] = @ \cup {BBLOCK(b), <<"block", b>>}]
      BY <1>3, <1>5, <1>7, <1>12, <2>1 DEF MapNew, Logs
    <2>4. PICK a \in Ptrs(Blocks, Ind) : a = [mem[i].addrs EXCEPT ![k] = b]
      BY <1>4 DEF Ptrs
    <2>5. \A m \in 1..Ind : a[m] = IF m = k THEN b ELSE mem[i].addrs[m]
      BY <1>4, <2>4 DEF Ptrs
    <2>6. PICK rec \in InodeRec : rec = [mem[i] EXCEPT !.addrs = a]
      BY <1>4 DEF InodeRec
    <2>7. rec.addrs = a /\ rec.valid = mem[i].valid /\ rec.size = mem[i].size
      BY <1>4, <2>6 DEF InodeRec
    <2>8. mem' = [mem EXCEPT ![i] = rec]
      BY <2>3, <2>4, <2>6
    <2>9. mem' \in [AllInodes -> InodeRec] /\ mem'[i] = rec /\ \A j \in AllInodes : j # i => mem'[j] = mem[j]
      BY <1>4, <2>8 DEF IInv, FileTypes
    <2>10. /\ \A j \in Inodes : j # i => Addresses'[j] = Addresses[j]
           /\ Addresses'[i] = a /\ Addrs(p)' = a
      <3>1. \A j \in Inodes : j # i => Current(j)' = Current(j)
        BY <1>1, <2>9, Domains DEF Current
      <3>2. Current(i)'.addrs = a
        BY <1>4, <2>7, <2>9 DEF Current
      <3>3. Addrs(p)' = a
        BY <1>1, <1>3, <2>7, <2>9 DEF Addrs
      <3> QED
        BY <3>1, <3>2, <3>3 DEF Addresses
    <2>11. Addresses' \in Trees
      <3>1. \A j \in Inodes : Addresses'[j] \in Ptrs(Blocks, Ind)
        BY <1>6, <2>10 DEF Trees
      <3> QED
        BY <3>1 DEF Trees, Addresses
    <2>12. /\ Owned(Addresses', block')
           /\ \A j \in Inodes : Grows(Addresses[j], block, Addresses'[j], block')
      BY <1>4, <1>5, <1>6, <2>2, <2>3, <2>5, <2>10, <2>11, AddEntry
    <2>13. dirty'[p] = dirty[p] \cup {BBLOCK(b), <<"block", b>>}
           /\ (\A q \in Procs : q # p => dirty'[q] = dirty[q])
           /\ dirty' \in [Procs -> SUBSET ({"bitmap", "block"} \X Nat)]
      BY <1>7, <1>8, <2>3
    <2>14. \/ Addr(p)' = b /\ Addrs(p)'[Ind] = Addrs(p)[Ind]
           \/ Addrs(p)[Ind] = 0 /\ Addrs(p)'[Ind] = b
      <3>1. CASE Direct(p)
        <4>1. bn < NDIRECT /\ k = bn + 1 /\ k # Ind
          BY <2>1, <3>1, Numbers
        <4>2. a[bn + 1] = b /\ a[Ind] = Addrs(p)[Ind]
          BY <1>4, <1>6, <2>5, <4>1
        <4> QED
          BY <1>11, <2>10, <4>1, <4>2 DEF BlockNo
      <3>2. CASE ~Direct(p)
        <4>1. k = Ind
          BY <2>1, <3>2
        <4> QED
          BY <1>4, <2>2, <2>5, <2>10, <4>1
      <3> QED
        BY <3>1, <3>2
    <2>15. LogOf(p)'
      BY <1>1, <1>2, <1>6, <2>13, <2>14, LogGrows
    <2>16. DOMAIN block' \subseteq Blocks /\ block' \in [DOMAIN block' -> BlockRec]
      BY <1>7, <2>3
    <2> QED
      BY <1>1, <1>2, <1>3, <2>7, <2>9, <2>12, <2>13, <2>15, <2>16, GrowStep
  \* the block goes into the indirect block
  <1>13. CASE ~(Direct(p) \/ NoIndirect(p))
    <2>1. PICK m \in 1..NINDIRECT : m = Entry(p) /\ m = bn - NDIRECT + 1 /\ ~(bn < NDIRECT)
      <3>1. ~(bn < NDIRECT) /\ bn - NDIRECT + 1 \in 1..NINDIRECT
        BY <1>9, <1>13, Numbers DEF Direct
      <3> QED
        BY <1>9, <3>1 DEF Entry
    <2>2. PICK x \in DOMAIN block : x = Addrs(p)[Ind] /\ x # 0
      <3>1. Addrs(p)[Ind] # 0
        BY <1>13 DEF NoIndirect
      <3>2. Addresses[i][Ind] \in DOMAIN block
        BY <1>4, <1>6, <3>1, PointsIn
      <3> QED
        BY <1>4, <3>1, <3>2
    <2>3. /\ mem' = mem
          /\ block' = [With(block, b) EXCEPT ![x].ptrs[m] = b]
          /\ dirty' = [dirty EXCEPT ![p] = @ \cup {BBLOCK(b), <<"block", b>>, <<"block", x>>}]
      BY <1>5, <1>7, <1>13, <2>1, <2>2 DEF MapNew, Logs
    <2>4. x \in Blocks /\ x \in Nat /\ x # b /\ block[x] \in BlockRec /\ With(block, b)[x] = block[x]
      BY <1>5, Domains DEF IInv, FileTypes, With
    <2>5. block[x].ptrs[m] = 0
      BY <1>11, <2>1, <2>2 DEF BlockNo
    <2>6. PICK a \in Ptrs(Blocks, NINDIRECT) : a = [block[x].ptrs EXCEPT ![m] = b]
      BY <2>4 DEF BlockRec, Ptrs
    <2>7. \A n \in 1..NINDIRECT : a[n] = IF n = m THEN b ELSE block[x].ptrs[n]
      BY <2>4, <2>6 DEF BlockRec, Ptrs
    <2>8. PICK rec \in BlockRec : rec = [block[x] EXCEPT !.ptrs = a]
      BY <2>4 DEF BlockRec
    <2>9. rec.ptrs = a /\ rec.bytes = block[x].bytes
      BY <2>4, <2>8 DEF BlockRec
    <2>10. block' = [With(block, b) EXCEPT ![x] = rec]
      BY <2>3, <2>4, <2>6, <2>8
    <2>11. /\ DOMAIN block' = DOMAIN block \cup {b} /\ block' \in [DOMAIN block' -> BlockRec]
           /\ block'[x] = rec /\ \A y \in DOMAIN block : y # x => block'[y] = block[y]
      <3>1. DOMAIN block' = DOMAIN block \cup {b} /\ block' \in [DOMAIN block' -> BlockRec]
            /\ block'[x] = rec
        BY <1>7, <2>10
      <3>2. ASSUME NEW y \in DOMAIN block, y # x PROVE block'[y] = block[y]
        <4>1. With(block, b)[y] = block[y]
          BY <1>5 DEF With
        <4> QED
          BY <1>7, <2>10, <3>2, <4>1
      <3> QED
        BY <3>1, <3>2
    <2>12. Addresses' = Addresses /\ Addrs(p)' = Addrs(p)
      <3>1. \A j \in Inodes : Current(j)' = Current(j)
        BY <1>1, <2>3 DEF Current
      <3> QED
        BY <1>1, <2>3, <3>1 DEF Addresses, Addrs
    <2>13. /\ Owned(Addresses, block')
           /\ \A j \in Inodes : Grows(Addresses[j], block, Addresses[j], block')
      <3>1. /\ Addresses[i][Ind] = x
            /\ \A n \in 1..NINDIRECT : block'[x].ptrs[n] = IF n = m THEN b ELSE block[x].ptrs[n]
            /\ block'[x].bytes = block[x].bytes
        BY <1>4, <2>2, <2>7, <2>9, <2>11
      <3> QED
        BY <1>5, <1>6, <2>2, <2>5, <2>11, <3>1, AddPtr
    <2>14. dirty'[p] = dirty[p] \cup {BBLOCK(b), <<"block", b>>, <<"block", Addrs(p)[Ind]>>}
           /\ (\A q \in Procs : q # p => dirty'[q] = dirty[q])
           /\ dirty' \in [Procs -> SUBSET ({"bitmap", "block"} \X Nat)]
      <3>1. <<"block", x>> \in {"bitmap", "block"} \X Nat
        BY <2>4
      <3> QED
        BY <1>7, <1>8, <2>2, <2>3, <3>1
    <2>15. Addr(p)' = b
      <3>1. block'[x].ptrs[m] = b
        BY <2>7, <2>9, <2>11
      <3> QED
        BY <1>11, <2>1, <2>2, <2>12, <3>1 DEF BlockNo
    <2>16. LogOf(p)'
      BY <1>1, <1>2, <1>6, <2>2, <2>12, <2>14, <2>15, LogGrows
    <2>17. DOMAIN block' \subseteq Blocks
      BY <1>7, <2>11
    <2>18. mem' \in [AllInodes -> InodeRec]
      BY <2>3 DEF IInv, FileTypes
    <2>19. Owned(Addresses', block') /\ \A j \in Inodes : Grows(Addresses[j], block, Addresses'[j], block')
      BY <2>12, <2>13
    <2> QED
      BY <1>1, <1>2, <1>3, <2>3, <2>11, <2>14, <2>16, <2>17, <2>18, <2>19, GrowStep
  <1> QED
    BY <1>12, <1>13

-----------------------------------------------------------------------------
(* Bytes *)

\* m bytes of the block b, after the first `from', are p's
PutsIn(bl, bl2, b, from, m, p) ==
    /\ DOMAIN bl2 = DOMAIN bl /\ \A x \in DOMAIN bl : bl2[x].ptrs = bl[x].ptrs
    /\ \A x \in DOMAIN bl : x # b => bl2[x] = bl[x]
    /\ \A z \in 1..BSIZE :
          bl2[b].bytes[z] = IF z > from /\ z <= from + m THEN p ELSE bl[b].bytes[z]

\* of the files, m of i's from the n-th
PutsOf(ad, bl, bl2, i, n, m, p) ==
    \A j \in Inodes, k \in Nat :
       k < Limit /\ BlockNo(ad[j], bl, k \div BSIZE) # 0 =>
          Byte(ad[j], bl2, k) = IF j = i /\ n <= k /\ k < n + m THEN p ELSE Byte(ad[j], bl, k)

\* they are those of the file from where the copy is, and no others of any
LEMMA PutAt ==
    ASSUME NEW ad, NEW bl, Owned(ad, bl), NEW i \in Inodes, NEW bn \in 0..MAXFILE - 1,
           BlockNo(ad[i], bl, bn) # 0, NEW bl2,
           NEW from \in 0..BSIZE - 1, NEW m \in Nat, from + m <= BSIZE, NEW p,
           PutsIn(bl, bl2, BlockNo(ad[i], bl, bn), from, m, p)
    PROVE  PutsOf(ad, bl, bl2, i, bn * BSIZE + from, m, p)
  <1> SUFFICES ASSUME NEW j \in Inodes, NEW k \in Nat, k < Limit,
                      BlockNo(ad[j], bl, k \div BSIZE) # 0
               PROVE  Byte(ad[j], bl2, k) =
                         IF j = i /\ bn * BSIZE + from <= k /\ k < bn * BSIZE + from + m THEN p
                         ELSE Byte(ad[j], bl, k)
    BY DEF PutsOf
  <1> DEFINE b == BlockNo(ad[i], bl, bn)
  <1>9. /\ DOMAIN bl2 = DOMAIN bl /\ \A x \in DOMAIN bl : bl2[x].ptrs = bl[x].ptrs
        /\ \A x \in DOMAIN bl : x # b => bl2[x] = bl[x]
        /\ \A z \in 1..BSIZE :
              bl2[b].bytes[z] = IF z > from /\ z <= from + m THEN p ELSE bl[b].bytes[z]
    BY DEF PutsIn
  <1>8. b # 0 /\ b = BlockNo(ad[i], bl, bn)
    OBVIOUS
  <1> HIDE DEF b
  <1>1. /\ k \div BSIZE \in Nat /\ k \div BSIZE \in 0..MAXFILE - 1
        /\ (k % BSIZE) \in 0..BSIZE - 1 /\ k = (k \div BSIZE) * BSIZE + (k % BSIZE)
    BY NoOf
  <1>2. PICK q \in 0..MAXFILE - 1, z \in 0..BSIZE - 1 :
          q = k \div BSIZE /\ z = k % BSIZE /\ k = q * BSIZE + z
    BY <1>1
  <1>3. BlockNo(ad[j], bl2, q) = BlockNo(ad[j], bl, q) /\ BlockNo(ad[j], bl, q) \in DOMAIN bl
    <2>1. BlockNo(ad[j], bl2, q) = BlockNo(ad[j], bl, q)
      BY <1>9, PutBytes
    <2>2. BlockNo(ad[j], bl, q) # 0
      BY <1>2
    <2> QED
      BY <2>1, <2>2, PointsIn
  <1>4. /\ Byte(ad[j], bl2, k) = bl2[BlockNo(ad[j], bl, q)].bytes[z + 1]
        /\ Byte(ad[j], bl, k) = bl[BlockNo(ad[j], bl, q)].bytes[z + 1]
    BY <1>2, <1>3 DEF Byte
  <1>5. BSIZE \in Nat \ {0} /\ MAXFILE \in Nat
    BY Numbers
  <1>6. CASE BlockNo(ad[j], bl, q) # b
    <2>1. ~(j = i /\ q = bn)
      BY <1>8, <1>6
    <2>2. j = i => ~(bn * BSIZE + from <= k /\ k < bn * BSIZE + from + m)
      <3> SUFFICES ASSUME q # bn, bn * BSIZE + from <= k, k < bn * BSIZE + from + m PROVE FALSE
        BY <2>1
      <3>1. q * BSIZE = BSIZE * q /\ bn * BSIZE = BSIZE * bn /\ BSIZE * (bn + 1) = BSIZE * bn + BSIZE
            /\ BSIZE * (q + 1) = BSIZE * q + BSIZE /\ BSIZE * q \in Int /\ BSIZE * bn \in Int
        BY <1>5
      <3>2. BSIZE * q < BSIZE * (bn + 1) /\ BSIZE * bn < BSIZE * (q + 1)
        BY <1>2, <1>5, <3>1
      <3>3. q < bn + 1 /\ bn < q + 1
        BY <1>5, <3>2, Factor
      <3> QED
        BY <1>5, <3>3
    <2>3. bl2[BlockNo(ad[j], bl, q)] = bl[BlockNo(ad[j], bl, q)]
      BY <1>9, <1>3, <1>6
    <2> QED
      BY <1>4, <2>2, <2>3
  <1>7. CASE BlockNo(ad[j], bl, q) = b
    <2>1. j = i /\ q = bn
      BY <1>8, <1>7, NumbersDiffer
    <2>2. z + 1 \in 1..BSIZE /\ z + 1 \in Int
      BY <1>5
    <2>3. /\ z + 1 > from <=> bn * BSIZE + from <= k
          /\ z + 1 <= from + m <=> k < bn * BSIZE + from + m
      <3>1. PICK x \in Int : x = bn * BSIZE
        BY <1>5
      <3>2. k = x + z
        BY <1>2, <2>1, <3>1
      <3> QED
        BY <1>5, <3>1, <3>2
    <2>4. bl2[b].bytes[z + 1] = IF z + 1 > from /\ z + 1 <= from + m THEN p ELSE bl[b].bytes[z + 1]
      BY <1>9, <2>2
    <2> QED
      BY <1>4, <1>7, <2>1, <2>3, <2>4
  <1> QED
    BY <1>6, <1>7

\* to the end of the block, or of what there is to do
LEMMA Pieces ==
    ASSUME IInv, NEW p \in Procs, call[p].pc = "copy", Advance(p, Piece(p))
    PROVE  \E c \in CallRec, m \in Nat \ {0} :
             /\ m = Piece(p) /\ Go(p, c)
             /\ c.pc = IF call[p].tot + m = call[p].n1 THEN "end" ELSE "map"
             /\ c.write = call[p].write /\ c.f = call[p].f /\ c.ip = call[p].ip /\ c.n = call[p].n
             /\ c.i = call[p].i /\ c.n1 = call[p].n1
             /\ c.off = call[p].off + m /\ c.tot = call[p].tot + m /\ call[p].tot + m <= call[p].n1
             /\ (call[p].off % BSIZE) \in 0..BSIZE - 1 /\ (call[p].off % BSIZE) + m <= BSIZE
             /\ call[p].off = Bn(p) * BSIZE + (call[p].off % BSIZE)
             /\ c.pc = "map" => c.off % BSIZE = 0 /\ c.off \div BSIZE = Bn(p) + 1
  <1>1. /\ call[p] \in CallRec /\ call[p].off \in Nat /\ call[p].tot \in Int /\ call[p].n1 \in Int
        /\ ChunkOf(p)
    BY Where DEF IInv, ChunkInv, Io
  <1>2. 0 <= call[p].tot /\ call[p].tot < call[p].n1
    BY <1>1 DEF ChunkOf
  <1>3. PICK o \in Nat : o = call[p].off
    BY <1>1
  <1>4. /\ o \div BSIZE \in Nat /\ (o % BSIZE) \in 0..BSIZE - 1
        /\ o = (o \div BSIZE) * BSIZE + (o % BSIZE) /\ BSIZE \in Nat \ {0}
    BY NoOf, Numbers
  <1>5. PICK q \in Nat, z \in 0..BSIZE - 1 : q = o \div BSIZE /\ z = o % BSIZE /\ o = q * BSIZE + z
    BY <1>4
  <1>6. PICK t \in Nat, n \in Nat : t = call[p].tot /\ n = call[p].n1 /\ t < n
    BY <1>1, <1>2
  <1>7. Piece(p) = IF n - t < BSIZE - z THEN n - t ELSE BSIZE - z
    BY <1>3, <1>5, <1>6 DEF Piece
  <1>8. PICK m \in Nat \ {0} : m = Piece(p) /\ t + m <= n /\ z + m <= BSIZE /\ (t + m # n => z + m = BSIZE)
    <2>1. BSIZE \in Int /\ z \in Int /\ 0 <= z /\ z < BSIZE /\ t \in Int /\ n \in Int
      BY <1>4
    <2>2. /\ Piece(p) \in Int /\ Piece(p) > 0 /\ t + Piece(p) <= n /\ z + Piece(p) <= BSIZE
          /\ t + Piece(p) # n => z + Piece(p) = BSIZE
      BY <1>6, <1>7, <2>1
    <2> QED
      BY <2>2
  <1> DEFINE c == [call[p] EXCEPT !.off = @ + m, !.tot = @ + m,
                       !.pc = IF call[p].tot + m = call[p].n1 THEN "end" ELSE "map"]
  <1>9. Go(p, c)
    BY <1>8 DEF Advance
  <1>10. /\ c \in CallRec /\ c.pc = IF call[p].tot + m = call[p].n1 THEN "end" ELSE "map"
         /\ c.write = call[p].write /\ c.f = call[p].f /\ c.ip = call[p].ip /\ c.n = call[p].n
         /\ c.i = call[p].i /\ c.n1 = call[p].n1
         /\ c.off = call[p].off + m /\ c.tot = call[p].tot + m
    <2>1. PICK k \in CallPcs : k = IF call[p].tot + m = call[p].n1 THEN "end" ELSE "map"
      BY DEF CallPcs, Having, Io
    <2>2. PICK x \in Int, y \in Int : x = call[p].off + m /\ y = call[p].tot + m
      BY <1>1
    <2>3. c = [call[p] EXCEPT !.off = x, !.tot = y, !.pc = k]
      BY <1>1, <2>1, <2>2 DEF CallRec
    <2> HIDE DEF c
    <2>4. c \in CallRec
      BY <1>1, <2>3 DEF CallRec
    <2>5. /\ c.pc = k /\ c.write = call[p].write /\ c.f = call[p].f /\ c.ip = call[p].ip
          /\ c.n = call[p].n /\ c.i = call[p].i /\ c.n1 = call[p].n1 /\ c.off = x /\ c.tot = y
      BY <1>1, <2>3 DEF CallRec
    <2> QED
      BY <2>1, <2>2, <2>4, <2>5
  <1>11. call[p].tot + m # call[p].n1 =>
            (call[p].off + m) % BSIZE = 0 /\ (call[p].off + m) \div BSIZE = Bn(p) + 1
    <2> SUFFICES ASSUME t + m # n PROVE (o + m) % BSIZE = 0 /\ (o + m) \div BSIZE = q + 1
      BY <1>3, <1>5, <1>6 DEF Bn
    <2>1. o + m = BSIZE * (q + 1) + 0 /\ o + m \in Int /\ 0 \in 0..BSIZE - 1
      <3>1. q * BSIZE = BSIZE * q /\ BSIZE * (q + 1) = BSIZE * q + BSIZE /\ BSIZE * q \in Int
        BY <1>4
      <3> QED
        BY <1>4, <1>5, <1>8, <3>1
    <2>2. (o + m) % BSIZE = 0
      <3>1. q + 1 \in Int /\ (BSIZE * (q + 1) + 0) % BSIZE = 0
        BY <1>4, <2>1, ModUnique
      <3> QED
        BY <2>1, <3>1
    <2>3. (o + m) \div BSIZE \in Int /\ o + m = BSIZE * ((o + m) \div BSIZE) + ((o + m) % BSIZE)
      BY <1>4, <2>1, DivMod
    <2>4. PICK d \in Int : d = (o + m) \div BSIZE /\ BSIZE * d = BSIZE * (q + 1)
      <3>1. PICK d \in Int : d = (o + m) \div BSIZE /\ o + m = BSIZE * d + 0
        BY <2>2, <2>3
      <3>2. BSIZE * d + 0 = BSIZE * d /\ BSIZE * (q + 1) + 0 = BSIZE * (q + 1)
        BY <1>4
      <3> QED
        BY <2>1, <3>1, <3>2
    <2>5. ~(BSIZE * d < BSIZE * (q + 1)) /\ ~(BSIZE * (q + 1) < BSIZE * d)
      BY <1>4, <2>4
    <2>6. d = q + 1
      <3>1. BSIZE * (d - (q + 1)) = 0
        BY <1>4, <2>4
      <3>2. d - (q + 1) = 0
        BY <1>4, <3>1
      <3> QED
        BY <3>2
    <2> QED
      BY <2>2, <2>4, <2>6
  <1> HIDE DEF c
  <1> QED
    BY <1>3, <1>5, <1>6, <1>8, <1>9, <1>10, <1>11 DEF Bn

LEMMA CopyChunk ==
    ASSUME IInv, NEW p \in Procs, call[p].pc = "copy", NEW c \in CallRec, NEW m \in Nat \ {0},
           Go(p, c), c.pc = IF call[p].tot + m = call[p].n1 THEN "end" ELSE "map",
           c.write = call[p].write, c.f = call[p].f, c.ip = call[p].ip, c.n = call[p].n,
           c.i = call[p].i, c.n1 = call[p].n1,
           c.off = call[p].off + m, c.tot = call[p].tot + m, call[p].tot + m <= call[p].n1,
           c.pc = "map" => c.off % BSIZE = 0,
           ftable' = ftable, mem' = mem
    PROVE  ChunkOf(p)'
  <1>1. call'[p] = c
    BY Goes DEF IInv
  <1>2. /\ call[p].off \in Nat /\ call[p].tot \in Int /\ call[p].n1 \in Int
        /\ ftable[call[p].f].off \in Nat /\ mem[call[p].ip].size \in Nat
        /\ mem[call[p].ip].size <= Limit /\ Limit \in Nat /\ call[p].write \in BOOLEAN /\ ChunkOf(p)
    BY Where, Numbers DEF IInv, ChunkInv, Io
  <1> DEFINE start == ftable[call[p].f].off
             size == mem[call[p].ip].size
             n1 == call[p].n1
             tot == call[p].tot
             off == call[p].off
  <1>3. /\ 0 <= tot /\ tot < n1 /\ start + tot = off
        /\ call[p].write => start + n1 <= Limit
        /\ ~call[p].write => start + n1 <= size
    BY <1>2 DEF ChunkOf
  <1>4. ChunkOf(p)' <=>
          /\ 0 <= c.off /\ c.off <= Limit
          /\ c.tot # -1 => c.tot \in 0..c.n1 /\ start + c.tot = c.off
          /\ c.pc \in {"map", "copy"} => 0 <= c.tot /\ c.tot < c.n1
          /\ c.pc \in {"map", "copy"} /\ 0 < c.tot => c.off % BSIZE = 0
          /\ c.write => /\ 0 <= c.tot /\ 0 < c.n1 /\ c.n1 <= maxWrite /\ c.i + c.n1 <= c.n
                        /\ start <= size /\ start + c.n1 <= Limit
          /\ ~c.write /\ 0 < c.n1 => start + c.n1 <= size
          /\ c.pc = "copy" => Addr(p)' # 0
    BY <1>1 DEF ChunkOf
  <1>5. call[p].write => /\ n1 <= maxWrite /\ call[p].i + n1 <= call[p].n
                         /\ start <= size /\ start + n1 <= Limit
    BY <1>2 DEF ChunkOf
  <1> HIDE DEF start, size
  <1>6. 0 <= off + m /\ off + m <= Limit /\ tot + m \in 0..n1 /\ start + (tot + m) = off + m
    BY <1>2, <1>3 DEF start, size
  <1>7. c.pc = "map" => tot + m < n1
    BY <1>2
  <1>8. c.pc \in {"map", "end"}
    OBVIOUS
  <1> HIDE DEF tot, off, n1
  <1>9. /\ c.off = off + m /\ c.tot = tot + m /\ c.n1 = n1 /\ c.write = call[p].write
        /\ c.i = call[p].i /\ c.n = call[p].n
    BY DEF tot, off, n1
  <1>10. tot \in Int /\ n1 \in Int /\ off \in Int
    BY <1>2 DEF tot, n1, off
  <1> QED
    BY <1>3, <1>4, <1>5, <1>6, <1>7, <1>8, <1>9, <1>10

\* a block of data is logged
LEMMA CopyLog ==
    ASSUME IInv, NEW p \in Procs, call[p].pc = "copy", call[p].write,
           NEW c \in CallRec, NEW m \in Nat \ {0}, call'[p] = c,
           c.pc = IF call[p].tot + m = call[p].n1 THEN "end" ELSE "map",
           c.write = call[p].write, c.off = call[p].off + m, c.tot = call[p].tot + m,
           c.pc = "map" => c.off \div BSIZE = Bn(p) + 1,
           NEW b, b = Addr(p), dirty'[p] = dirty[p] \cup {<<"block", b>>},
           Addrs(p)' = Addrs(p)
    PROVE  LogOf(p)'
  <1>1. /\ LogOf(p) /\ ChunkOf(p) /\ call[p].off \in Nat /\ call[p].tot \in Int /\ Start(p) \in Int
        /\ call[p].n1 \in Int
    BY Where DEF IInv, LogInv, ChunkInv, Io
  <1>2. /\ IsFiniteSet(dirty[p]) /\ Cardinality(dirty[p]) \in Nat /\ Cardinality(dirty[p]) <= Cost(p)
        /\ call[p].tot = 0 /\ Start(p) % BSIZE # 0 => dirty[p] = {}
    BY <1>1, FS_CardinalityType DEF LogOf
  <1>3. b # 0 /\ 0 <= call[p].tot
    BY <1>1 DEF ChunkOf
  <1>4. MAXOPBLOCKS \in Nat /\ MAXOPBLOCKS >= 6 /\ (dirty[p] = {} => Cardinality(dirty[p]) = 0)
    BY SizeAssumption, FS_EmptySet
  <1>5. Start(p)' = Start(p)
    BY <1>1 DEF Start
  <1> DEFINE u == IF Start(p) % BSIZE # 0 /\ call[p].tot > 0 THEN 1 ELSE 0
             u2 == IF Start(p) % BSIZE # 0 THEN 1 ELSE 0
             l == IF Logged(p, b) THEN 2 ELSE 0
             k == IF Logged(p, Addrs(p)[Ind]) THEN 2 ELSE 0
             l2 == IF Logged(p, Addr(p))' THEN 2 ELSE 0
             k2 == IF Logged(p, Addrs(p)[Ind])' THEN 2 ELSE 0
             D == dirty[p] \cup {<<"block", b>>}
  <1>6. /\ u \in {0, 1} /\ u2 \in {0, 1} /\ l \in {0, 2} /\ k \in {0, 2} /\ l2 \in {0, 2} /\ k2 \in {0, 2}
        /\ Visited(p) \in Int /\ (call[p].tot = 0 => Visited(p) = 0)
    BY LogRoom
  <1>7. Cost(p) = 2 * Visited(p) - u + l + k
    BY DEF Cost
  <1>8. k <= k2
    BY DEF Logged
  <1>9. IsFiniteSet(D) /\ Cardinality(D) \in Nat /\ Cardinality(D) <= Cardinality(dirty[p]) + 1
        /\ (l = 2 => D = dirty[p])
    <2>1. l = 2 => D = dirty[p]
      BY DEF Logged
    <2> QED
      BY <1>2, <2>1, AddOne
  <1>10. dirty[p] # {} => 2 * Visited(p) - u + 5 <= MAXOPBLOCKS
    <2>1. dirty[p] # {} => call[p].tot > 0 \/ Start(p) % BSIZE = 0
      BY <1>1, <1>2, <1>3
    <2> QED
      BY <2>1, LogRoom
  <1>11. Cardinality(D) + 1 <= MAXOPBLOCKS
    <2> HIDE DEF u, u2, l, k, l2, k2, D
    <2>1. CASE dirty[p] = {}
      BY <1>2, <1>4, <1>9, <2>1
    <2>2. CASE dirty[p] # {} /\ l = 2
      BY <1>2, <1>4, <1>6, <1>7, <1>9, <1>10, <2>2
    <2>3. CASE dirty[p] # {} /\ l = 0
      BY <1>2, <1>4, <1>6, <1>7, <1>9, <1>10, <2>3
    <2> QED
      BY <1>6, <2>1, <2>2, <2>3
  <1>12. ASSUME c.pc = "map"
         PROVE  Cardinality(D) <= Cost(p)' /\ ~(c.tot = 0)
    <2>1. Visited(p)' = Visited(p) + 1
      <3>1. Bn(p)' = Bn(p) + 1
        BY <1>12 DEF Bn
      <3>2. Bn(p) \in Int /\ Start(p) \div BSIZE \in Int
        <4>1. BSIZE \in Nat \ {0} /\ call[p].off \in Int
          BY <1>1, Numbers
        <4>2. call[p].off \div BSIZE \in Int /\ Start(p) \div BSIZE \in Int
          BY <1>1, <4>1, DivMod
        <4> QED
          BY <4>2 DEF Bn
      <3> QED
        BY <1>5, <3>1, <3>2 DEF Visited
    <2>2. c.tot > 0 /\ c.tot # 0
      BY <1>1, <1>3
    <2>3. Cost(p)' = 2 * (Visited(p) + 1) - u2 + l2 + k2
      BY <1>5, <2>1, <2>2 DEF Cost
    <2>4. u = u2 \/ (u = 0 /\ u2 = 1 /\ dirty[p] = {} /\ Visited(p) = 0)
      <3>1. call[p].tot > 0 \/ call[p].tot = 0
        BY <1>1, <1>3
      <3> QED
        BY <1>2, <1>6, <3>1
    <2> HIDE DEF u, u2, l, k, l2, k2, D
    <2>5. Cardinality(D) <= 2 * (Visited(p) + 1) - u2 + l2 + k2
      <3>1. CASE u = u2 /\ l = 2
        BY <1>2, <1>6, <1>7, <1>8, <1>9, <3>1
      <3>2. CASE u = u2 /\ l = 0
        BY <1>2, <1>6, <1>7, <1>8, <1>9, <3>2
      <3>3. CASE u = 0 /\ u2 = 1 /\ dirty[p] = {} /\ Visited(p) = 0
        BY <1>2, <1>4, <1>6, <1>9, <3>3
      <3> QED
        BY <1>6, <2>4, <3>1, <3>2, <3>3
    <2> QED
      BY <2>2, <2>3, <2>5
  <1>13. dirty'[p] = D
    OBVIOUS
  <1>14. c.pc \in {"map", "end"}
    OBVIOUS
  <1> HIDE DEF D
  <1> QED
    BY <1>9, <1>11, <1>12, <1>13, <1>14 DEF LogOf, Io

LEMMA CopyReadStep ==
    ASSUME IInv, NEW p \in Procs, Copy(p), ~call[p].write
    PROVE  IInv'
  <1>1. /\ call[p].pc = "copy" /\ Advance(p, Piece(p)) /\ call[p].pc \in Io
        /\ UNCHANGED <<ftable, ofile, alive, mem, disk, iref, ilock, block, dirty, work>>
    BY DEF Copy, At, tableVars, inodeVars, blockVars, Quiet, Io
  <1>2. PICK c \in CallRec, m \in Nat \ {0} :
             /\ m = Piece(p) /\ Go(p, c)
             /\ c.pc = IF call[p].tot + m = call[p].n1 THEN "end" ELSE "map"
             /\ c.write = call[p].write /\ c.f = call[p].f /\ c.ip = call[p].ip /\ c.n = call[p].n
             /\ c.i = call[p].i /\ c.n1 = call[p].n1
             /\ c.off = call[p].off + m /\ c.tot = call[p].tot + m /\ call[p].tot + m <= call[p].n1
             /\ c.pc = "map" => c.off % BSIZE = 0 /\ c.off \div BSIZE = Bn(p) + 1
    BY <1>1, Pieces
  <1>3. ChunkOf(p)'
    BY <1>1, <1>2, CopyChunk
  <1>4. call'[p] = c /\ c.pc \in Io
    BY <1>2, Goes DEF IInv, Io
  <1>5. LogOf(p)'
    <2>1. dirty[p] = {} /\ IsFiniteSet(dirty[p]) /\ Cardinality(dirty[p]) + 1 <= MAXOPBLOCKS
      BY <1>1, StopRoom
    <2> QED
      BY <1>1, <1>2, <1>4, <2>1 DEF LogOf
  <1> QED
    BY <1>1, <1>2, <1>3, <1>4, <1>5, OnlyCall

\* what writei() copies to a block is there, and nothing else has changed
LEMMA CopyPuts ==
    ASSUME IInv, NEW p \in Procs, Copy(p), call[p].write
    PROVE  /\ UNCHANGED <<ftable, ofile, alive, mem, disk, iref, ilock, work>>
           /\ call[p].ip \in Inodes
           /\ Addrs(p)' = Addrs(p) /\ Addresses' = Addresses /\ DOMAIN block' = DOMAIN block
           /\ block' \in [DOMAIN block -> BlockRec]
           /\ Addr(p) \in DOMAIN block /\ Addr(p) # 0 /\ Addr(p) \in Nat
           /\ dirty' = [dirty EXCEPT ![p] = @ \cup {<<"block", Addr(p)>>}]
           /\ Owned(Addresses, block')
           /\ \A j \in Inodes, bn \in 0..MAXFILE - 1 :
                 /\ BlockNo(Addresses[j], block', bn) = BlockNo(Addresses[j], block, bn)
                 /\ j # call[p].ip /\ BlockNo(Addresses[j], block, bn) # 0 =>
                       block'[BlockNo(Addresses[j], block, bn)] = block[BlockNo(Addresses[j], block, bn)]
           /\ PutsOf(Addresses, block, block', call[p].ip, call[p].off, Piece(p), p)
  <1>1. /\ call[p].pc = "copy" /\ Advance(p, Piece(p)) /\ call[p].pc \in Io
        /\ UNCHANGED <<ftable, ofile, alive, mem, disk, iref, ilock, work>>
    BY DEF Copy, At, tableVars, inodeVars, Quiet, Io
  <1>2. PICK c \in CallRec, m \in Nat \ {0} :
             /\ m = Piece(p) /\ Go(p, c) /\ c.ip = call[p].ip
             /\ (call[p].off % BSIZE) \in 0..BSIZE - 1 /\ (call[p].off % BSIZE) + m <= BSIZE
             /\ call[p].off = Bn(p) * BSIZE + (call[p].off % BSIZE)
    BY <1>1, Pieces
  <1>3. PICK i \in Inodes : call[p].ip = i
    BY <1>1, Where
  <1>4. Addresses[i] = Addrs(p) /\ Owned(Addresses, block) /\ Addr(p) # 0
    <2>1. ChunkOf(p)
      BY <1>1 DEF IInv, ChunkInv
    <2> QED
      BY <1>1, <1>3, <2>1, Where DEF IInv, BlockInv, ChunkOf
  <1>5. PICK bn \in 0..MAXFILE - 1 : bn = Bn(p)
    BY <1>1, OffIn DEF IInv
  <1>6. PICK b \in DOMAIN block : b = Addr(p) /\ b = BlockNo(Addresses[i], block, bn)
    <2>1. Addr(p) = BlockNo(Addresses[i], block, bn)
      BY <1>4, <1>5, AddrIs
    <2> QED
      BY <1>4, <2>1, PointsIn
  <1>7. b \in Blocks /\ b \in Nat /\ b # 0 /\ block[b] \in BlockRec /\ block \in [DOMAIN block -> BlockRec]
    BY <1>4, <1>6, Domains DEF IInv, FileTypes
  <1>8. PICK from \in 0..BSIZE - 1 : from = call[p].off % BSIZE /\ from + m <= BSIZE
                                     /\ call[p].off = bn * BSIZE + from
    BY <1>2, <1>5
  <1> DEFINE new == [z \in 1..BSIZE |-> IF z > from /\ z <= from + m THEN p ELSE block[b].bytes[z]]
  <1>9. /\ block' = [block EXCEPT ![b].bytes = new]
        /\ dirty' = [dirty EXCEPT ![p] = @ \cup {<<"block", b>>}]
    BY <1>2, <1>6, <1>7, <1>8 DEF Copy, Logs
  <1>10. new \in [1..BSIZE -> {0} \cup Procs]
    BY <1>7 DEF BlockRec
  <1>11. \A z \in 1..BSIZE : new[z] = IF z > from /\ z <= from + m THEN p ELSE block[b].bytes[z]
    OBVIOUS
  <1> HIDE DEF new
  <1>12. PICK rec \in BlockRec : rec = [block[b] EXCEPT !.bytes = new]
    BY <1>7, <1>10 DEF BlockRec
  <1>13. rec.bytes = new /\ rec.ptrs = block[b].ptrs
    BY <1>7, <1>12 DEF BlockRec
  <1>14. block' = [block EXCEPT ![b] = rec]
    BY <1>9, <1>12
  <1>15. /\ block' \in [DOMAIN block -> BlockRec] /\ DOMAIN block' = DOMAIN block
         /\ block'[b] = rec /\ \A x \in DOMAIN block : x # b => block'[x] = block[x]
    BY <1>7, <1>14
  <1>16. \A x \in DOMAIN block : block'[x].ptrs = block[x].ptrs
    BY <1>13, <1>15
  <1>17. Addrs(p)' = Addrs(p) /\ Addresses' = Addresses
    <2>1. \A j \in Inodes : Current(j)' = Current(j)
      BY <1>1 DEF Current
    <2>2. Addresses' = Addresses
      BY <2>1 DEF Addresses
    <2>3. call'[p] = c
      BY <1>2, Goes DEF IInv
    <2> QED
      BY <1>1, <1>2, <2>2, <2>3 DEF Addrs
  <1>18. Owned(Addresses, block')
    BY <1>4, <1>15, <1>16, PutBytes
  <1>19. \A j \in Inodes, n \in 0..MAXFILE - 1 :
            BlockNo(Addresses[j], block', n) = BlockNo(Addresses[j], block, n)
    BY <1>4, <1>15, <1>16, PutBytes
  <1>20. ASSUME NEW j \in Inodes, NEW n \in 0..MAXFILE - 1, j # i, BlockNo(Addresses[j], block, n) # 0
         PROVE  block'[BlockNo(Addresses[j], block, n)] = block[BlockNo(Addresses[j], block, n)]
    <2>1. BlockNo(Addresses[j], block, n) # b
      BY <1>4, <1>6, <1>7, <1>20, NumbersDiffer
    <2>2. BlockNo(Addresses[j], block, n) \in DOMAIN block
      BY <1>4, <1>20, PointsIn
    <2> QED
      BY <1>15, <2>1, <2>2
  <1>21. \A z \in 1..BSIZE :
            block'[b].bytes[z] = IF z > from /\ z <= from + m THEN p ELSE block[b].bytes[z]
    BY <1>11, <1>13, <1>15
  <1>22. PutsOf(Addresses, block, block', call[p].ip, call[p].off, Piece(p), p)
    <2>1. m \in Nat /\ bn \in 0..MAXFILE - 1 /\ from \in 0..BSIZE - 1 /\ from + m <= BSIZE
      BY <1>8
    <2>2. Owned(Addresses, block) /\ BlockNo(Addresses[i], block, bn) # 0
      BY <1>4, <1>6, <1>7
    <2>3. PutsIn(block, block', BlockNo(Addresses[i], block, bn), from, m, p)
      BY <1>6, <1>15, <1>16, <1>21 DEF PutsIn
    <2>4. PutsOf(Addresses, block, block', i, bn * BSIZE + from, m, p)
      BY <2>1, <2>2, <2>3, PutAt
    <2> QED
      BY <1>2, <1>3, <1>8, <2>4
  <1>23. /\ Addr(p) \in DOMAIN block /\ Addr(p) # 0 /\ Addr(p) \in Nat
         /\ dirty' = [dirty EXCEPT ![p] = @ \cup {<<"block", Addr(p)>>}]
    BY <1>6, <1>7, <1>9
  <1>24. \A j \in Inodes, n \in 0..MAXFILE - 1 :
           /\ BlockNo(Addresses[j], block', n) = BlockNo(Addresses[j], block, n)
           /\ j # call[p].ip /\ BlockNo(Addresses[j], block, n) # 0 =>
                 block'[BlockNo(Addresses[j], block, n)] = block[BlockNo(Addresses[j], block, n)]
    BY <1>3, <1>19, <1>20
  <1> QED
    BY <1>1, <1>3, <1>15, <1>17, <1>18, <1>22, <1>23, <1>24

LEMMA CopyWriteStep ==
    ASSUME IInv, NEW p \in Procs, Copy(p), call[p].write
    PROVE  IInv'
  <1>1. /\ call[p].pc = "copy" /\ Advance(p, Piece(p)) /\ call[p].pc \in Io /\ call[p].pc \in Having
    BY DEF Copy, At, Io, Having
  <1>2. PICK c \in CallRec, m \in Nat \ {0} :
             /\ m = Piece(p) /\ Go(p, c)
             /\ c.pc = IF call[p].tot + m = call[p].n1 THEN "end" ELSE "map"
             /\ c.write = call[p].write /\ c.f = call[p].f /\ c.ip = call[p].ip /\ c.n = call[p].n
             /\ c.i = call[p].i /\ c.n1 = call[p].n1
             /\ c.off = call[p].off + m /\ c.tot = call[p].tot + m /\ call[p].tot + m <= call[p].n1
             /\ (call[p].off % BSIZE) \in 0..BSIZE - 1 /\ (call[p].off % BSIZE) + m <= BSIZE
             /\ call[p].off = Bn(p) * BSIZE + (call[p].off % BSIZE)
             /\ c.pc = "map" => c.off % BSIZE = 0 /\ c.off \div BSIZE = Bn(p) + 1
    BY <1>1, Pieces
  <1>3. PICK i \in Inodes : call[p].ip = i
    BY <1>1, Where
  <1>4. /\ UNCHANGED <<ftable, ofile, alive, mem, disk, iref, ilock, work>>
        /\ Addrs(p)' = Addrs(p) /\ Addresses' = Addresses /\ DOMAIN block' = DOMAIN block
        /\ block' \in [DOMAIN block -> BlockRec]
        /\ Addr(p) \in DOMAIN block /\ Addr(p) # 0 /\ Addr(p) \in Nat
        /\ dirty' = [dirty EXCEPT ![p] = @ \cup {<<"block", Addr(p)>>}]
        /\ Owned(Addresses, block')
    BY CopyPuts
  <1>5. \A j \in Inodes, bn \in 0..MAXFILE - 1 :
          /\ BlockNo(Addresses[j], block', bn) = BlockNo(Addresses[j], block, bn)
          /\ j # i /\ BlockNo(Addresses[j], block, bn) # 0 =>
                block'[BlockNo(Addresses[j], block, bn)] = block[BlockNo(Addresses[j], block, bn)]
    BY <1>3, CopyPuts
  <1>6. \A k \in Nat :
          k < Limit /\ BlockNo(Addresses[i], block, k \div BSIZE) # 0 =>
             Byte(Addresses[i], block', k) =
                IF call[p].off <= k /\ k < call[p].off + m THEN p
                ELSE Byte(Addresses[i], block, k)
    BY <1>2, <1>3, CopyPuts DEF PutsOf
  <1>7. call'[p] = c /\ (\A q \in Procs : q # p => call'[q] = call[q]) /\ c.pc \in Io
    BY <1>2, Goes DEF IInv, Io
  <1>8. /\ i \in AllInodes /\ Addrs(p) = Addresses[i] /\ call[p].off \in Nat /\ call[p].off <= Limit
        /\ mem[i].size \in Nat /\ p \in alive /\ Limit \in Nat
    BY <1>1, <1>3, Where, Domains, Numbers
  <1>9. dirty \in [Procs -> SUBSET ({"bitmap", "block"} \X Nat)]
    BY DEF IInv, FileTypes
  <1>10. dirty'[p] = dirty[p] \cup {<<"block", Addr(p)>>} /\ \A q \in Procs : q # p => dirty'[q] = dirty[q]
    BY <1>4, <1>9
  <1>11. FileTypes'
    <2>1. call' \in [Procs -> CallRec]
      BY <1>2, GoTypes DEF IInv
    <2>2. dirty' \in [Procs -> SUBSET ({"bitmap", "block"} \X Nat)]
      BY <1>4, <1>9
    <2> QED
      BY <1>4, <2>1, <2>2 DEF IInv, FileTypes
  <1>12. Sames(p)
    <2>1. CallOf(p) /\ c.pc \in Having
      BY <1>7 DEF IInv, CallInv, Having
    <2> QED
      BY <1>1, <1>2, <1>4, <1>7, <1>8, <2>1 DEF Sames, CallOf
  <1>13. CallInv' /\ CountInv' /\ KindInv' /\ ValidInv'
    BY <1>11, <1>12, TablesStay DEF IInv
  <1>14. LockInv'
    BY <1>1, <1>2, <1>4, <1>7 DEF IInv, LockInv
  <1>15. DiskInv'
    <2>1. \A j : Writing(j)' <=> Writing(j)
      BY <1>1, <1>2, <1>7 DEF Writing
    <2> QED
      BY <1>4, <2>1 DEF IInv, DiskInv
  <1>16. BlockInv'
    BY <1>4 DEF BlockInv
  <1>17. ChunkOf(p)'
    BY <1>1, <1>2, <1>4, CopyChunk
  \* up to here the file has blocks
  <1>18. Filled(Addresses[i], block, call[p].off)
    BY <1>1, <1>8 DEF IInv, HoleInv, HoleOf
  <1>19. c.off \in Nat /\ c.off <= Limit
    <2>1. 0 <= c.off /\ c.off <= Limit
      BY <1>7, <1>17 DEF ChunkOf
    <2> QED
      BY <1>2, <1>8, <2>1
  <1>20. Filled(Addresses[i], block, c.off)
    <2> SUFFICES ASSUME NEW n \in 0..MAXFILE - 1, n * BSIZE < c.off, ~(n * BSIZE < call[p].off)
                 PROVE  BlockNo(Addresses[i], block, n) # 0
      BY <1>18 DEF Filled
    <2>1. PICK q \in 0..MAXFILE - 1 : q = Bn(p)
      BY <1>1, OffIn DEF IInv
    <2>2. BSIZE \in Nat \ {0} /\ MAXFILE \in Nat
      BY Numbers
    <2>3. n * BSIZE = BSIZE * n /\ q * BSIZE = BSIZE * q /\ BSIZE * (q + 1) = BSIZE * q + BSIZE
          /\ BSIZE * (n + 1) = BSIZE * n + BSIZE /\ BSIZE * q \in Int /\ BSIZE * n \in Int
      BY <2>2
    <2>4. PICK z \in 0..BSIZE - 1 : call[p].off = BSIZE * q + z /\ z + m <= BSIZE
      BY <1>2, <2>1, <2>3
    <2>5. BSIZE * n < BSIZE * (q + 1) /\ BSIZE * q < BSIZE * (n + 1)
      BY <1>2, <1>8, <2>2, <2>3, <2>4
    <2>6. n < q + 1 /\ q < n + 1
      BY <2>2, <2>5, Factor
    <2>7. n = q
      BY <2>6
    <2> QED
      BY <1>4, <1>8, <2>1, <2>7, AddrIs
  <1>21. \A k \in Nat : k < c.off => k < Limit /\ BlockNo(Addresses[i], block, k \div BSIZE) # 0
    <2> SUFFICES ASSUME NEW k \in Nat, k < c.off
                 PROVE  k < Limit /\ BlockNo(Addresses[i], block, k \div BSIZE) # 0
      OBVIOUS
    <2>1. k < Limit
      BY <1>8, <1>19
    <2> QED
      BY <1>19, <1>20, <2>1, FilledAt
  <1>22. HoleOf(p)'
    <2>1. Filled(Addresses[i], block', c.off)
      BY <1>5, <1>20 DEF Filled
    <2> QED
      BY <1>4, <1>7, <1>8, <2>1 DEF HoleOf
  <1>23. ByteOf(p)'
    <2> SUFFICES ASSUME NEW k \in mem[i].size..c.off - 1
                 PROVE  Byte(Addresses[i], block', k) = p
      BY <1>2, <1>3, <1>4, <1>7, <1>8 DEF ByteOf
    <2>1. k \in Nat /\ k < c.off
      BY <1>8, <1>19
    <2>2. Byte(Addresses[i], block', k) =
                IF call[p].off <= k /\ k < call[p].off + m THEN p
                ELSE Byte(Addresses[i], block, k)
      BY <1>6, <1>21, <2>1
    <2>3. ASSUME k < call[p].off PROVE Byte(Addresses[i], block, k) = p
      <3>1. k \in mem[i].size..call[p].off - 1
        BY <1>8, <2>1, <2>3
      <3> QED
        BY <1>1, <1>3, <1>8, <3>1 DEF IInv, ByteInv, ByteOf
    <2>4. k < call[p].off \/ (call[p].off <= k /\ k < call[p].off + m)
      BY <1>2, <1>8, <2>1
    <2> QED
      BY <2>2, <2>3, <2>4
  <1>24. LogOf(p)'
    BY <1>1, <1>2, <1>4, <1>7, <1>10, CopyLog
  <1>25. ASSUME NEW q \in Procs, q # p, call[q].pc \in Io PROVE Undisturbed(q)
    <2>1. call[q].ip # i /\ call[q].ip \in Inodes /\ Addrs(q) = Addresses[call[q].ip]
      <3>1. ilock[call[p].ip] = p
        BY <1>1, Where
      <3> QED
        BY <1>1, <1>3, <1>25, <3>1, Alone
    <2>2. Grows(Addrs(q), block, Addrs(q), block')
      BY <1>5, <2>1 DEF Grows
    <2> QED
      BY <1>4, <1>7, <1>10, <1>25, <2>2 DEF Undisturbed
  <1>26. ASSUME NEW j \in Inodes PROVE Filled(Current(j)'.addrs, block', Current(j)'.size)
    <2>1. Current(j)' = Current(j) /\ Addresses[j] = Current(j).addrs
      BY <1>4 DEF Current, Addresses
    <2>2. Filled(Current(j).addrs, block, Current(j).size)
      BY DEF IInv, HoleInv
    <2> QED
      BY <1>5, <2>1, <2>2 DEF Filled
  <1>27. HoleInv' /\ ChunkInv' /\ ByteInv' /\ LogInv'
    BY <1>7, <1>10, <1>17, <1>22, <1>23, <1>24, <1>25, <1>26, Assemble
  <1> QED
    BY <1>11, <1>13, <1>14, <1>15, <1>16, <1>27 DEF IInv

-----------------------------------------------------------------------------
(* The end of a transfer *)

\* f->off is where the transfer came to
LEMMA MovedTo ==
    ASSUME IInv, NEW p \in Procs, call[p].pc = "end", Moved(p)
    PROVE  /\ ftable' \in [Files -> FileRec]
           /\ \A g \in Files : /\ ftable'[g].ref = ftable[g].ref /\ ftable'[g].ip = ftable[g].ip
                               /\ ftable'[g].type = ftable[g].type
                               /\ g # call[p].f => ftable'[g] = ftable[g]
           /\ ftable'[call[p].f].off = IF call[p].tot > 0 THEN call[p].off ELSE ftable[call[p].f].off
  <1>1. /\ call[p].f \in Files /\ call[p].tot \in Int /\ call[p].off \in Nat /\ call[p].off <= Limit
        /\ ftable[call[p].f].off \in Nat /\ ChunkOf(p)
    BY Where DEF IInv, ChunkInv, Io
  <1>2. PICK f \in Files : f = call[p].f
    BY <1>1
  <1>3. ftable[f] \in FileRec /\ ftable \in [Files -> FileRec]
    BY DEF IInv, FileTypes
  <1>4. CASE call[p].tot > 0
    <2>1. ftable[f].off + call[p].tot = call[p].off
      BY <1>1, <1>2, <1>4 DEF ChunkOf
    <2>2. PICK o \in 0..Limit : o = call[p].off
      BY <1>1, Numbers
    <2>3. ftable' = [ftable EXCEPT ![f] = [ftable[f] EXCEPT !.off = o]]
      BY <1>2, <1>3, <1>4, <2>1, <2>2 DEF Moved
    <2>4. [ftable[f] EXCEPT !.off = o] \in FileRec
      BY <1>3, RefTyped
    <2>5. ftable' \in [Files -> FileRec]
      BY <1>3, <2>3, <2>4
    <2>6. ftable'[f] = [ftable[f] EXCEPT !.off = o] /\ \A g \in Files : g # f => ftable'[g] = ftable[g]
      BY <1>3, <2>3
    <2>7. /\ ftable'[f].off = o /\ ftable'[f].ref = ftable[f].ref /\ ftable'[f].ip = ftable[f].ip
          /\ ftable'[f].type = ftable[f].type
      BY <1>3, <2>6 DEF FileRec
    <2> QED
      BY <1>2, <1>4, <2>2, <2>5, <2>6, <2>7
  <1>5. CASE ~(call[p].tot > 0)
    <2>1. ftable' = ftable
      BY <1>5 DEF Moved
    <2> QED
      BY <1>3, <1>5, <2>1
  <1> QED
    BY <1>4, <1>5

LEMMA EndStep ==
    ASSUME IInv, NEW p \in Procs, call[p].pc = "end", Moved(p), Unlocks(call[p].ip), EndOp(p),
           UNCHANGED <<ofile, alive, iref, block, work>>,
           NEW c \in CallRec, Go(p, c), c.pc \in {"none", "chunk"},
           c.pc = "chunk" => c.f = call[p].f /\ c.ip = call[p].ip /\ 0 <= c.i /\ c.i < c.n,
           NEW i \in Inodes, call[p].ip = i,
           mem' \in [AllInodes -> InodeRec], disk' \in [AllInodes -> DiskRec],
           \A j \in AllInodes : j # i => mem'[j] = mem[j] /\ disk'[j] = disk[j],
           mem'[i].valid = mem[i].valid, mem'[i].addrs = mem[i].addrs,
           Filled(mem[i].addrs, block, mem'[i].size),
           IF call[p].write THEN disk'[i].size = mem'[i].size /\ disk'[i].addrs = mem'[i].addrs
           ELSE mem' = mem /\ disk' = disk
    PROVE  IInv'
  <1>1. call[p].pc \in Io /\ call[p].pc \in Having /\ i \in AllInodes /\ p \in alive /\ mem[i].valid
        /\ call[p].f \in Files /\ ilock[i] = p
    BY Where, Domains DEF Io, Having
  <1>2. /\ ftable' \in [Files -> FileRec]
        /\ \A g \in Files : /\ ftable'[g].ref = ftable[g].ref /\ ftable'[g].ip = ftable[g].ip
                            /\ ftable'[g].type = ftable[g].type
                            /\ g # call[p].f => ftable'[g] = ftable[g]
    BY MovedTo
  <1>3. call'[p] = c /\ (\A q \in Procs : q # p => call'[q] = call[q])
        /\ c.pc \notin Io /\ c.pc \notin {"open", "dup", "iput"}
    BY Goes DEF IInv, Io
  <1>4. ilock' = [ilock EXCEPT ![i] = 0] /\ dirty' = [dirty EXCEPT ![p] = {}]
    BY DEF Unlocks, EndOp
  <1>5. dirty'[p] = {} /\ \A q \in Procs : q # p => dirty'[q] = dirty[q]
    BY <1>4 DEF IInv, FileTypes
  <1>6. \A j \in AllInodes : ilock'[j] = IF j = i THEN 0 ELSE ilock[j]
    BY <1>1, <1>4 DEF IInv, FileTypes
  <1>7. FileTypes'
    <2>1. call' \in [Procs -> CallRec]
      BY GoTypes DEF IInv
    <2>2. ilock' \in [AllInodes -> {0} \cup Procs]
      BY <1>4 DEF IInv, FileTypes
    <2>3. dirty' \in [Procs -> SUBSET ({"bitmap", "block"} \X Nat)]
      BY <1>4 DEF IInv, FileTypes
    <2> QED
      BY <1>2, <2>1, <2>2, <2>3 DEF IInv, FileTypes
  <1>8. Sames(p)
    <2>1. CallOf(p) /\ c.pc \in Having \cup {"none", "device"} /\ (c.pc \in Having => c.pc = "chunk")
      BY <1>3 DEF IInv, CallInv, Having
    <2>2. \A j \in AllInodes : mem'[j].valid = mem[j].valid
      BY <1>1
    <2> QED
      BY <1>1, <1>2, <1>3, <2>1, <2>2 DEF Sames, CallOf
  <1>9. CallInv' /\ CountInv' /\ KindInv' /\ ValidInv'
    BY <1>7, <1>8, TablesStay DEF IInv
  <1>10. LockInv'
    BY <1>1, <1>3, <1>6, Domains DEF IInv, LockInv
  <1>11. DiskInv'
    <2> SUFFICES ASSUME NEW j \in AllInodes, mem'[j].valid, ~Writing(j)'
                 PROVE  disk'[j].size = mem'[j].size /\ disk'[j].addrs = mem'[j].addrs
      BY DEF DiskInv
    <2>1. CASE j = i /\ call[p].write
      BY <2>1
    <2>2. CASE j # i \/ ~call[p].write
      <3>1. mem'[j] = mem[j] /\ disk'[j] = disk[j]
        BY <2>2
      <3>2. ~Writing(j)
        BY <1>3, <2>2 DEF Writing
      <3> QED
        BY <3>1, <3>2 DEF IInv, DiskInv
    <2> QED
      BY <2>1, <2>2
  <1>12. /\ \A j \in Inodes : j # i => Current(j)' = Current(j)
         /\ Current(i).addrs = mem[i].addrs /\ Current(i)'.addrs = mem[i].addrs
         /\ Current(i)'.size = mem'[i].size
    BY <1>1, Domains DEF Current
  <1>13. Addresses' = Addresses
    BY <1>12 DEF Addresses
  <1>14. BlockInv'
    BY <1>13 DEF IInv, BlockInv
  <1>15. ASSUME NEW q \in Procs, q # p, call[q].pc \in Io PROVE Undisturbed(q)
    <2>1. call[q].ip # i /\ call[q].ip \in AllInodes /\ call[q].f # call[p].f /\ call[q].f \in Files
      BY <1>1, <1>15, Alone, Domains
    <2>2. mem'[call[q].ip] = mem[call[q].ip] /\ ftable'[call[q].f] = ftable[call[q].f]
      BY <1>2, <2>1
    <2>3. Addrs(q)' = Addrs(q)
      BY <1>3, <1>15, <2>2 DEF Addrs
    <2> QED
      BY <1>3, <1>5, <1>15, <2>2, <2>3, GrowsSame DEF Undisturbed
  <1>16. ASSUME NEW j \in Inodes PROVE Filled(Current(j)'.addrs, block', Current(j)'.size)
    <2>1. CASE j = i
      BY <1>12, <2>1
    <2>2. CASE j # i
      BY <1>12, <2>2 DEF IInv, HoleInv
    <2> QED
      BY <2>1, <2>2
  <1>17. HoleInv' /\ ChunkInv' /\ ByteInv' /\ LogInv'
    BY <1>3, <1>5, <1>15, <1>16, Assemble
  <1> QED
    BY <1>7, <1>9, <1>10, <1>11, <1>14, <1>17 DEF IInv

LEMMA ReadEndStep ==
    ASSUME IInv, NEW p \in Procs, ReadEnd(p)
    PROVE  IInv'
  <1>1. /\ call[p].pc = "end" /\ ~call[p].write /\ Moved(p) /\ Unlocks(call[p].ip) /\ EndOp(p)
        /\ Go(p, NoCall) /\ UNCHANGED <<ofile, alive, mem, disk, iref, block, work>>
    BY DEF ReadEnd, At, Quiet
  <1>2. PICK i \in Inodes : call[p].ip = i /\ mem[i].valid
    BY <1>1, Where DEF Io
  <1>3. Filled(mem[i].addrs, block, mem[i].size)
    BY <1>2, Valid DEF IInv, HoleInv
  <1>4. mem' \in [AllInodes -> InodeRec] /\ disk' \in [AllInodes -> DiskRec]
    BY <1>1 DEF IInv, FileTypes
  <1> QED
    BY <1>1, <1>2, <1>3, <1>4, NoCallTyped, NoCallIs, EndStep

LEMMA WrittenTo ==
    ASSUME IInv, NEW p \in Procs, call[p].pc = "end", call[p].write, Written(p),
           NEW i \in Inodes, call[p].ip = i
    PROVE  /\ mem' \in [AllInodes -> InodeRec] /\ disk' \in [AllInodes -> DiskRec]
           /\ \A j \in AllInodes : j # i => mem'[j] = mem[j] /\ disk'[j] = disk[j]
           /\ mem'[i].valid = mem[i].valid /\ mem'[i].addrs = mem[i].addrs
           /\ mem'[i].size = IF call[p].off > mem[i].size THEN call[p].off ELSE mem[i].size
           /\ disk'[i].size = mem'[i].size /\ disk'[i].addrs = mem'[i].addrs
           /\ Filled(mem[i].addrs, block, mem'[i].size)
  <1>1. /\ call[p].off \in Nat /\ call[p].off <= Limit /\ mem[i].size \in Nat /\ mem[i].size <= Limit
        /\ mem[i].valid /\ i \in AllInodes /\ mem[i] \in InodeRec /\ Addrs(p) = mem[i].addrs
        /\ mem \in [AllInodes -> InodeRec] /\ disk \in [AllInodes -> DiskRec]
    BY Where, Domains DEF IInv, FileTypes, Io
  <1>2. PICK n \in 0..Limit : n = IF call[p].off > mem[i].size THEN call[p].off ELSE mem[i].size
    BY <1>1, Numbers
  <1>3. PICK rec \in InodeRec : rec = [mem[i] EXCEPT !.size = n]
    BY <1>1 DEF InodeRec
  <1>4. rec.size = n /\ rec.valid = mem[i].valid /\ rec.addrs = mem[i].addrs
    BY <1>1, <1>3 DEF InodeRec
  <1>5. PICK rd \in DiskRec : rd = [size |-> n, addrs |-> mem[i].addrs]
    BY <1>1 DEF InodeRec, DiskRec
  <1>6. mem' = [mem EXCEPT ![i] = rec] /\ disk' = [disk EXCEPT ![i] = rd]
    BY <1>2, <1>3, <1>5 DEF Written
  <1>7. /\ mem' \in [AllInodes -> InodeRec] /\ mem'[i] = rec
        /\ \A j \in AllInodes : j # i => mem'[j] = mem[j]
    BY <1>1, <1>6
  <1>8. /\ disk' \in [AllInodes -> DiskRec] /\ disk'[i] = rd
        /\ \A j \in AllInodes : j # i => disk'[j] = disk[j]
    BY <1>1, <1>6
  <1>9. Filled(mem[i].addrs, block, n)
    <2>1. Filled(mem[i].addrs, block, mem[i].size)
      BY <1>1, Valid DEF IInv, HoleInv
    <2>2. Filled(mem[i].addrs, block, call[p].off)
      BY <1>1 DEF IInv, HoleInv, HoleOf, Io
    <2> QED
      BY <1>2, <2>1, <2>2
  <1>10. rd.size = n /\ rd.addrs = mem[i].addrs
    BY <1>5
  <1> QED
    BY <1>2, <1>4, <1>7, <1>8, <1>9, <1>10

LEMMA WriteEndStep ==
    ASSUME IInv, NEW p \in Procs, WriteEnd(p)
    PROVE  IInv'
  <1> DEFINE done == call[p].i + call[p].tot
             next == [call[p] EXCEPT !.pc = "chunk", !.i = done, !.off = 0, !.tot = 0, !.n1 = 0]
  <1>1. /\ call[p].pc = "end" /\ call[p].write /\ Written(p) /\ Moved(p)
        /\ Unlocks(call[p].ip) /\ EndOp(p) /\ UNCHANGED <<ofile, alive, iref, block, work>>
        /\ IF call[p].tot # call[p].n1 \/ done = call[p].n THEN Go(p, NoCall) ELSE Go(p, next)
    BY DEF WriteEnd, At, Quiet
  <1>2. PICK i \in Inodes : call[p].ip = i
    BY <1>1, Where DEF Io
  <1>3. /\ call[p] \in CallRec /\ call[p].tot \in Int /\ call[p].n1 \in Int /\ call[p].i \in Int
        /\ call[p].n \in Int /\ 0 <= call[p].i /\ ChunkOf(p)
    BY <1>1, Where DEF IInv, ChunkInv, Io
  <1>4. 0 <= call[p].tot /\ call[p].i + call[p].n1 <= call[p].n
    BY <1>1, <1>3 DEF ChunkOf
  <1>5. \E c \in CallRec :
          /\ Go(p, c) /\ c.pc \in {"none", "chunk"}
          /\ c.pc = "chunk" => c.f = call[p].f /\ c.ip = call[p].ip /\ 0 <= c.i /\ c.i < c.n
    <2>1. CASE call[p].tot # call[p].n1 \/ done = call[p].n
      <3>1. Go(p, NoCall)
        BY <1>1, <2>1
      <3> QED
        BY <3>1, NoCallTyped, NoCallIs
    <2>2. CASE ~(call[p].tot # call[p].n1 \/ done = call[p].n)
      <3>1. Go(p, next)
        BY <1>1, <2>2
      <3>2. PICK d \in Int : d = done /\ 0 <= d /\ d < call[p].n
        BY <1>3, <1>4, <2>2
      <3>3. next = [call[p] EXCEPT !.pc = "chunk", !.i = d, !.off = 0, !.tot = 0, !.n1 = 0]
        BY <3>2
      <3> HIDE DEF next
      <3>4. next \in CallRec
        <4>1. "chunk" \in CallPcs /\ 0 \in Int
          BY DEF CallPcs, Having
        <4> QED
          BY <1>3, <3>3, <4>1 DEF CallRec
      <3>5. next.pc = "chunk" /\ next.f = call[p].f /\ next.ip = call[p].ip /\ next.i = d
            /\ next.n = call[p].n
        BY <1>3, <3>3 DEF CallRec
      <3> QED
        BY <3>1, <3>2, <3>4, <3>5
    <2> QED
      BY <2>1, <2>2
  <1>6. PICK c \in CallRec :
          /\ Go(p, c) /\ c.pc \in {"none", "chunk"}
          /\ c.pc = "chunk" => c.f = call[p].f /\ c.ip = call[p].ip /\ 0 <= c.i /\ c.i < c.n
    BY <1>5
  <1>7. /\ mem' \in [AllInodes -> InodeRec] /\ disk' \in [AllInodes -> DiskRec]
        /\ \A j \in AllInodes : j # i => mem'[j] = mem[j] /\ disk'[j] = disk[j]
        /\ mem'[i].valid = mem[i].valid /\ mem'[i].addrs = mem[i].addrs
        /\ disk'[i].size = mem'[i].size /\ disk'[i].addrs = mem'[i].addrs
        /\ Filled(mem[i].addrs, block, mem'[i].size)
    BY <1>1, <1>2, WrittenTo
  <1> HIDE DEF next, done
  <1> QED
    BY <1>1, <1>2, <1>6, <1>7, EndStep

-----------------------------------------------------------------------------
(* The console's steps, and the invariant *)

\* a call of the console's begins, goes on or ends
LEMMA DeviceCall ==
    ASSUME IInv, NEW p \in Procs, p \in alive, Still,
           call[p].pc \in {"none", "device"}, call'[p].pc \in {"none", "device"},
           call' \in [Procs -> CallRec], \A q \in Procs : q # p => call'[q] = call[q]
    PROVE  IInv'
  <1>1. UNCHANGED <<ftable, ofile, alive, mem, disk, iref, ilock, block, dirty, work>>
    BY DEF Still, tableVars, inodeVars, blockVars
  <1>2. FileTypes'
    BY <1>1 DEF IInv, FileTypes
  <1>3. Sames(p)
    BY <1>1 DEF Sames, Having, Io
  <1>4. CallInv' /\ CountInv' /\ KindInv' /\ ValidInv'
    BY <1>2, <1>3, TablesStay DEF IInv
  <1>5. call[p].pc \notin Io \cup {"open"} /\ call'[p].pc \notin Io \cup {"open"}
    BY DEF Io
  <1>6. /\ LockInv' /\ ValidInv' /\ DiskInv'
        /\ BlockInv' /\ HoleInv' /\ ChunkInv' /\ ByteInv' /\ LogInv'
    BY <1>1, <1>5, OnlyTables
  <1> QED
    BY <1>2, <1>4, <1>6 DEF IInv

LEMMA DeviceIoStep ==
    ASSUME IInv, NEW p \in Procs, DeviceIo(p)
    PROVE  IInv'
  <1> DEFINE v == [NoCall EXCEPT !.pc = "device"]
  <1>1. p \in alive /\ call[p].pc = "none" /\ Go(p, v) /\ Still
    BY DEF DeviceIo, At
  <1>2. v \in CallRec /\ v.pc = "device"
    <2>1. NoCall \in CallRec /\ "device" \in CallPcs
      BY NoCallTyped DEF CallPcs
    <2> QED
      BY <2>1 DEF CallRec
  <1> HIDE DEF v
  <1>3. call' \in [Procs -> CallRec] /\ call'[p] = v /\ \A q \in Procs : q # p => call'[q] = call[q]
    BY <1>1, <1>2, GoTypes, Goes DEF IInv
  <1> QED
    BY <1>1, <1>2, <1>3, DeviceCall

LEMMA DeviceStepStep ==
    ASSUME IInv, NEW p \in Procs, DeviceStep(p)
    PROVE  IInv'
  <1>1. PICK v \in {NoCall, call[p]} : Go(p, v)
    BY DEF DeviceStep
  <1>2. p \in alive /\ call[p].pc = "device" /\ Still
    BY DEF DeviceStep, At
  <1>3. v \in CallRec /\ v.pc \in {"none", "device"}
    BY <1>2, NoCallTyped, NoCallIs DEF IInv, FileTypes
  <1>4. call' \in [Procs -> CallRec] /\ call'[p] = v /\ \A q \in Procs : q # p => call'[q] = call[q]
    BY <1>1, <1>3, GoTypes, Goes DEF IInv
  <1> QED
    BY <1>2, <1>3, <1>4, DeviceCall

\* a step that changes nothing of files
LEMMA NoStep ==
    ASSUME IInv, UNCHANGED <<tableVars, inodeVars, blockVars, call, work>>
    PROVE  IInv'
  <1> USE DEF tableVars, inodeVars, blockVars
  <1>1. FileTypes'
    BY DEF IInv, FileTypes
  <1>2. CallInv'
    BY DEF IInv, CallInv, CallOf
  <1>3. CountInv'
    BY DEF IInv, CountInv, Descs, Dupers, FilesOf, Callers
  <1>4. KindInv' /\ LockInv' /\ ValidInv'
    BY DEF IInv, KindInv, LockInv, ValidInv, TypeOf
  <1>5. DiskInv'
    BY DEF IInv, DiskInv, Writing
  <1>6. SameContents
    <2>1. \A i \in Inodes : Current(i)' = Current(i)
      BY DEF Current
    <2>2. ASSUME NEW q \in Procs, call[q].pc \in Io PROVE Undisturbed(q)
      <3>1. mem'[call[q].ip] = mem[call[q].ip] /\ Addrs(q)' = Addrs(q)
        BY DEF Addrs
      <3> QED
        BY <2>2, <3>1, GrowsSame DEF Undisturbed
    <2>3. ASSUME NEW q \in Procs, call[q].pc \notin Io
          PROVE  call'[q].pc \notin Io /\ dirty'[q] = dirty[q] /\ dirty[q] = {}
      BY <2>3, NoLog DEF IInv
    <2> QED
      BY <2>1, <2>2, <2>3 DEF SameContents
  <1>7. BlockInv' /\ HoleInv' /\ ChunkInv' /\ ByteInv' /\ LogInv'
    BY <1>6, ContentsStay DEF IInv
  <1> QED
    BY <1>1, <1>2, <1>3, <1>4, <1>5, <1>7 DEF IInv

LEMMA TableStep ==
    ASSUME IInv, NEW p \in Procs, Table(p)
    PROVE  IInv'
  BY OpenLockStep, OpenFailsStep, OpenDoneStep, DupStep, FiledupStep, ForkStep, CloseStep,
     CloseIputStep DEF Table

LEMMA InodeIoStep ==
    ASSUME IInv, NEW p \in Procs, InodeIo(p)
    PROVE  IInv'
  <1>1. CASE Copy(p)
    BY <1>1, CopyReadStep, CopyWriteStep
  <1> QED
    BY <1>1, TransferStep, LockStep, MappedStep, MapFailsStep, MapNewStep, CopyFailsStep,
       WriteEndStep, ReadEndStep DEF InodeIo

LEMMA Inductive ==
    ASSUME IInv, [Next]_vars
    PROVE  IInv'
  <1>1. CASE \E p \in Procs : Table(p) \/ InodeIo(p)
    BY <1>1, TableStep, InodeIoStep
  <1>2. CASE \E p \in Procs : DeviceIo(p) \/ DeviceStep(p)
    BY <1>2, DeviceIoStep, DeviceStepStep
  <1>3. CASE Interrupt \/ \E p \in Procs : Kill(p)
    <2>1. UNCHANGED <<tableVars, inodeVars, blockVars, call, work>>
      BY <1>3 DEF Interrupt, Kill, Still
    <2> QED
      BY <2>1, NoStep
  <1>4. CASE UNCHANGED vars
    BY <1>4, NoStep DEF vars
  <1> QED
    BY <1>1, <1>2, <1>3, <1>4 DEF Next, Device

\* the file that was inherited has a descriptor of each process
LEMMA InitCounts ==
    ASSUME Init
    PROVE  CountInv /\ KindInv
  <1>1. /\ ofile = [p \in Procs |-> [d \in Fds |->
                      IF work.open # 0 /\ d = 1 /\ p \in alive THEN 1 ELSE 0]]
        /\ call = [p \in Procs |-> NoCall]
        /\ iref = [i \in AllInodes |-> IF work.open = i THEN 1 ELSE 0]
        /\ work \in Workloads /\ alive = work.alive
    BY DEF Init
  <1>2. \A f \in Files : ftable[f] = IF work.open # 0 /\ f = 1
            THEN [type |-> TypeOf(work.open), ref |-> Cardinality(alive),
                  readable |-> TRUE, writable |-> TRUE, ip |-> work.open, off |-> 0]
            ELSE Closed
    BY DEF Init
  <1>3. alive \subseteq Procs /\ alive # {} /\ work.open \in {0} \cup AllInodes /\ 1 \in Files /\ 1 \in Fds
    BY <1>1, WorkAssumption, Numbers DEF Procs, Files, Fds, AllInodes
  <1>4. Closed.ref = 0 /\ Closed.type = "none"
    BY DEF Closed
  <1>5. IsFiniteSet(alive) /\ Cardinality(alive) \in Nat /\ Cardinality(alive) > 0
    <2>1. IsFiniteSet(alive)
      BY <1>3, Domains, FS_Subset
    <2> QED
      BY <1>3, <2>1, FS_CardinalityType, Positive
  <1>6. \A i : Callers(i) = {}
    BY <1>1, NoCallIs DEF Callers
  <1>7. \A f : Dupers(f) = {}
    BY <1>1, NoCallIs DEF Dupers
  <1>8. ASSUME work.open # 0 PROVE Cardinality(Descs(1)) = Cardinality(alive)
    <2> DEFINE g == [p \in alive |-> <<p, 1>>]
    <2>1. g \in [alive -> Descs(1)]
      <3>1. ASSUME NEW p \in alive PROVE <<p, 1>> \in Descs(1)
        BY <1>1, <1>3, <1>8 DEF Descs
      <3> QED
        BY <3>1
    <2>2. \A p, q \in alive : g[p] = g[q] => p = q
      OBVIOUS
    <2>3. \A x \in Descs(1) : \E p \in alive : g[p] = x
      <3>1. ASSUME NEW x \in Descs(1) PROVE x[1] \in alive /\ g[x[1]] = x
        <4>1. x \in Procs \X Fds /\ ofile[x[1]][x[2]] = 1
          BY DEF Descs
        <4>2. x[1] \in alive /\ x[2] = 1 /\ x = <<x[1], x[2]>>
          BY <1>1, <4>1
        <4> QED
          BY <4>2
      <3> QED
        BY <3>1
    <2> HIDE DEF g
    <2>4. g \in Bijection(alive, Descs(1))
      BY <2>1, <2>2, <2>3 DEF Bijection, Injection, Surjection, IsInjective
    <2>5. ExistsBijection(alive, Descs(1))
      BY <2>4 DEF ExistsBijection
    <2> QED
      BY <1>5, <2>5, FS_Bijection
  <1>9. \A f : ~(work.open # 0 /\ f = 1) /\ f \in Files => Descs(f) = {}
    BY <1>1, Domains DEF Descs
  <1>10. Cardinality({}) = 0
    BY FS_EmptySet
  <1>11. ASSUME NEW f \in Files PROVE ftable[f].ref = Cardinality(Descs(f)) - Cardinality(Dupers(f))
    <2>1. Cardinality(Dupers(f)) = 0
      BY <1>7, <1>10
    <2>2. CASE work.open # 0 /\ f = 1
      <3>1. ftable[f].ref = Cardinality(alive) /\ Cardinality(Descs(f)) = Cardinality(alive)
        BY <1>2, <1>8, <2>2
      <3> QED
        BY <1>5, <2>1, <3>1
    <2>3. CASE ~(work.open # 0 /\ f = 1)
      <3>1. ftable[f].ref = 0 /\ Descs(f) = {}
        BY <1>2, <1>4, <1>9, <2>3
      <3> QED
        BY <1>10, <2>1, <3>1
    <2> QED
      BY <2>2, <2>3
  <1>12. ASSUME NEW i \in AllInodes PROVE iref[i] = Cardinality(FilesOf(i)) + Cardinality(Callers(i))
    <2>0. i # 0 /\ Cardinality(Callers(i)) = 0
      BY <1>6, <1>10, Domains
    <2>1. CASE work.open = i
      <3>1. FilesOf(i) = {1}
        BY <1>2, <1>3, <1>4, <1>5, <2>0, <2>1 DEF FilesOf
      <3>2. Cardinality({1}) = 1
        BY FS_Singleton
      <3> QED
        BY <1>1, <2>0, <2>1, <3>1, <3>2
    <2>2. CASE work.open # i
      <3>1. FilesOf(i) = {}
        BY <1>2, <1>4, <2>0, <2>2 DEF FilesOf
      <3> QED
        BY <1>1, <1>10, <2>0, <2>2, <3>1
    <2> QED
      BY <2>1, <2>2
  <1>13. CountInv
    BY <1>11, <1>12 DEF CountInv
  <1>14. KindInv
    BY <1>2, <1>4 DEF KindInv
  <1> QED
    BY <1>13, <1>14

LEMMA Initial ==
    ASSUME Init
    PROVE  IInv
  <1>1. /\ ofile = [p \in Procs |-> [d \in Fds |->
                      IF work.open # 0 /\ d = 1 /\ p \in alive THEN 1 ELSE 0]]
        /\ call = [p \in Procs |-> NoCall] /\ dirty = [p \in Procs |-> {}]
        /\ iref = [i \in AllInodes |-> IF work.open = i THEN 1 ELSE 0]
        /\ ilock = [i \in AllInodes |-> 0]
        /\ work \in Workloads /\ alive = work.alive
    BY DEF Init
  <1>2. alive \subseteq Procs /\ alive # {} /\ work.open \in {0} \cup AllInodes /\ 1 \in Files /\ 1 \in Fds
    BY <1>1, WorkAssumption, Numbers DEF Procs, Files, Fds, AllInodes
  <1>3. NoBlocks \in Ptrs(Blocks, Ind) /\ \A k \in 1..Ind : NoBlocks[k] = 0
    BY DEF NoBlocks, Ptrs
  <1>4. 0 \in 0..Limit
    BY Numbers
  <1>5. mem \in [AllInodes -> InodeRec]
        /\ \A i \in AllInodes : /\ mem[i].valid <=> work.open = i
                                /\ mem[i].size = 0 /\ mem[i].addrs = NoBlocks
    <2>1. ASSUME NEW v \in BOOLEAN
          PROVE  /\ [Evicted EXCEPT !.valid = v] \in InodeRec
                 /\ [Evicted EXCEPT !.valid = v].valid = v
                 /\ [Evicted EXCEPT !.valid = v].size = 0
                 /\ [Evicted EXCEPT !.valid = v].addrs = NoBlocks
      BY <1>3, <1>4 DEF Evicted, InodeRec
    <2>2. mem = [i \in AllInodes |-> [Evicted EXCEPT !.valid = (work.open = i)]]
      BY DEF Init
    <2>3. \A i : (work.open = i) \in BOOLEAN
      OBVIOUS
    <2>4. ASSUME NEW i \in AllInodes
          PROVE  /\ mem[i] \in InodeRec /\ (mem[i].valid <=> work.open = i)
                 /\ mem[i].size = 0 /\ mem[i].addrs = NoBlocks
      BY <2>1, <2>2, <2>3
    <2> QED
      BY <2>2, <2>4
  <1>6. disk \in [AllInodes -> DiskRec]
        /\ \A i \in AllInodes : disk[i].size = 0 /\ disk[i].addrs = NoBlocks
    BY <1>3, <1>4 DEF Init, DiskRec
  <1>7. DOMAIN block = {} /\ block \in [DOMAIN block -> BlockRec]
    <2>1. block = << >>
      BY DEF Init
    <2>2. DOMAIN << >> = {}
      OBVIOUS
    <2>3. << >> \in [{} -> BlockRec]
      OBVIOUS
    <2> QED
      BY <2>1, <2>2, <2>3
  <1>8. ftable \in [Files -> FileRec]
    <2>1. Closed \in FileRec
      BY <1>4, Domains DEF Closed, FileRec
    <2>2. Cardinality(alive) \in Int
      <3>1. IsFiniteSet(alive)
        BY <1>2, Domains, FS_Subset
      <3> QED
        BY <3>1, FS_CardinalityType
    <2>3. work.open # 0 => [type |-> TypeOf(work.open), ref |-> Cardinality(alive),
             readable |-> TRUE, writable |-> TRUE, ip |-> work.open, off |-> 0] \in FileRec
      BY <1>2, <1>4, <2>2 DEF FileRec, TypeOf
    <2> QED
      BY <2>1, <2>3 DEF Init
  <1>9. FileTypes
    <2>1. NoCall \in CallRec
      BY NoCallTyped
    <2>2. ofile \in [Procs -> [Fds -> {0} \cup Files]]
      BY <1>1, <1>2
    <2>3. iref \in [AllInodes -> Int] /\ ilock \in [AllInodes -> {0} \cup Procs]
          /\ dirty \in [Procs -> SUBSET ({"bitmap", "block"} \X Nat)]
      BY <1>1
    <2>4. call \in [Procs -> CallRec]
      BY <1>1, <2>1
    <2> QED
      BY <1>1, <1>2, <1>5, <1>6, <1>7, <1>8, <2>2, <2>3, <2>4 DEF FileTypes
  <1>10. \A p \in Procs : call[p].pc = "none" /\ call[p].pc \notin Io /\ call[p].pc \notin Having
    BY <1>1, NoCallIs DEF Io, Having
  <1>11. CallInv
    BY <1>1, <1>10 DEF CallInv, CallOf
  <1>12. CountInv /\ KindInv
    BY InitCounts
  <1>13. LockInv
    BY <1>1, <1>10, Domains DEF LockInv
  <1>14. ValidInv /\ DiskInv
    BY <1>1, <1>5, <1>6 DEF ValidInv, DiskInv
  <1>15. \A i \in Inodes : Current(i).addrs = NoBlocks /\ Current(i).size = 0
    BY <1>5, <1>6, Domains DEF Current
  <1>16. BlockInv
    <2>1. \A i \in Inodes : Addresses[i] = NoBlocks
      BY <1>15 DEF Addresses
    <2>2. \A x \in Spots(Addresses) : Spot(Addresses, block, x) = 0
      BY <1>3, <2>1, Numbers DEF Spots, Spot
    <2>3. \A b : b \notin DOMAIN block
      BY <1>7
    <2> QED
      BY <2>2, <2>3 DEF BlockInv, Owned
  <1>17. HoleInv
    <2>1. ASSUME NEW bn \in 0..MAXFILE - 1 PROVE ~(bn * BSIZE < 0)
      <3>1. bn \in Nat /\ BSIZE \in Nat
        BY Numbers
      <3> QED
        BY <3>1
    <2> QED
      BY <1>10, <1>15, <2>1 DEF HoleInv, Filled
  <1>18. ChunkInv /\ ByteInv
    BY <1>10 DEF ChunkInv, ByteInv
  <1>19. LogInv
    <2>1. \A p \in Procs : dirty[p] = {} /\ IsFiniteSet(dirty[p])
      BY <1>1, FS_EmptySet
    <2> QED
      BY <1>10, <2>1 DEF LogInv, LogOf, Io
  <1> QED
    BY <1>9, <1>11, <1>12, <1>13, <1>14, <1>16, <1>17, <1>18, <1>19 DEF IInv

-----------------------------------------------------------------------------
(* What the inductive invariant says *)

LEMMA SaysTypes ==
    ASSUME IInv
    PROVE  TypeOK
  <1>1. ASSUME NEW f \in Files PROVE ftable[f].ref \in Nat /\ ftable[f].off \in 0..MAXFILE * BSIZE
    <2>1. ftable[f] \in FileRec
      BY DEF IInv, FileTypes
    <2>2. ftable[f].ref = 0 \/ ftable[f].ref > 0
      BY Unused DEF IInv
    <2> QED
      BY <2>1, <2>2 DEF FileRec, Limit
  <1>2. ASSUME NEW i \in AllInodes
        PROVE  /\ mem[i].size \in 0..MAXFILE * BSIZE /\ mem[i].addrs \in [1..Ind -> {0} \cup Blocks]
               /\ iref[i] \in Nat
    <2>1. mem[i] \in InodeRec
      BY DEF IInv, FileTypes
    <2> QED
      BY <2>1, InodeInUse DEF IInv, InodeRec, Ptrs, Limit
  <1> QED
    BY <1>1, <1>2 DEF IInv, FileTypes, TypeOK

LEMMA SaysRefs ==
    ASSUME IInv
    PROVE  RefsExact
  <1>1. \A p \in Procs : call[p].pc = "dup" => p \in alive
    BY DEF IInv, CallInv, CallOf
  <1>2. ASSUME NEW f \in Files
        PROVE  Dupers(f) = {p \in Procs : At(p, "dup") /\ call[p].f = f}
    BY <1>1 DEF Dupers, At
  <1>3. ASSUME NEW f \in Files
        PROVE  ftable[f].ref = Cardinality({x \in Procs \X Fds : ofile[x[1]][x[2]] = f})
                       - Cardinality({p \in Procs : At(p, "dup") /\ call[p].f = f})
    <2>1. Descs(f) = {x \in Procs \X Fds : ofile[x[1]][x[2]] = f}
      BY DEF Descs
    <2>2. ftable[f].ref = Cardinality(Descs(f)) - Cardinality(Dupers(f))
      BY DEF IInv, CountInv
    <2> QED
      BY <1>2, <2>1, <2>2
  <1>4. ASSUME NEW i \in AllInodes
        PROVE  iref[i] = Cardinality({f \in Files : ftable[f].ref > 0 /\ ftable[f].ip = i})
                 + Cardinality({p \in Procs : call[p].pc \in {"open", "iput"} /\ call[p].ip = i})
    BY DEF IInv, CountInv, FilesOf, Callers
  <1> QED
    BY <1>3, <1>4 DEF RefsExact

LEMMA SaysBlocks ==
    ASSUME IInv
    PROVE  BlocksOwned
  <1>1. \A i \in Inodes : Addresses[i] = Current(i).addrs
    BY DEF Addresses
  <1>2. 1..Ind \subseteq Nat /\ 1..NINDIRECT \subseteq Nat
    BY Numbers
  <1>3. ASSUME NEW x \in Slots PROVE x \in Spots(Addresses) /\ InSlot(x) = Spot(Addresses, block, x)
    <2>1. CASE \E i \in Inodes, k \in 1..Ind : x = <<i, 0, k>>
      BY <1>1, <1>2, <2>1 DEF Spots, Spot, InSlot
    <2>2. CASE \E i \in {y \in Inodes : Current(y).addrs[Ind] # 0}, k \in 1..NINDIRECT : x = <<i, 1, k>>
      BY <1>1, <1>2, <2>2 DEF Spots, Spot, InSlot
    <2> QED
      BY <2>1, <2>2 DEF Slots
  <1>4. ASSUME NEW x \in Spots(Addresses) PROVE x \in Slots
    <2>1. PICK i \in Inodes, t \in {0, 1}, k \in Nat : x = <<i, t, k>>
      BY DEF Spots
    <2>2. IF t = 0 THEN k \in 1..Ind ELSE k \in 1..NINDIRECT /\ Current(i).addrs[Ind] # 0
      BY <1>1, <2>1 DEF Spots
    <2> QED
      BY <2>1, <2>2 DEF Slots
  <1>5. Owned(Addresses, block)
    BY DEF IInv, BlockInv
  <1>6. 0 \notin DOMAIN block
    BY AddressTypes DEF IInv
  <1> DEFINE used == {x \in Slots : InSlot(x) # 0}
  <1>7. \A x, y \in used : InSlot(x) = InSlot(y) => x = y
    BY <1>3, <1>5 DEF Owned
  <1>8. DOMAIN block = {InSlot(x) : x \in used}
    <2>1. \A b \in DOMAIN block : \E x \in used : InSlot(x) = b
      BY <1>3, <1>4, <1>5, <1>6 DEF Owned
    <2>2. \A x \in used : InSlot(x) \in DOMAIN block
      BY <1>3, <1>5 DEF Owned
    <2> QED
      BY <2>1, <2>2
  <1> QED
    BY <1>7, <1>8 DEF BlocksOwned

LEMMA SaysHoles ==
    ASSUME IInv
    PROVE  NoHoles
  <1> SUFFICES ASSUME NEW i \in Inodes, NEW k \in 0..Current(i).size - 1
               PROVE  BlockAt(Current(i), k) # 0
    BY DEF NoHoles
  <1>1. Current(i).size \in 0..Limit /\ Limit \in Nat
    BY AddressTypes, Domains, Numbers DEF IInv
  <1>2. Filled(Current(i).addrs, block, Current(i).size)
    BY DEF IInv, HoleInv
  <1>3. k \in Nat /\ k < Current(i).size /\ Current(i).size \in Nat /\ Current(i).size <= Limit
    BY <1>1
  <1>4. BlockNo(Current(i).addrs, block, k \div BSIZE) # 0
    BY <1>2, <1>3, FilledAt
  <1> QED
    BY <1>4 DEF BlockAt, BlockNo

LEMMA SaysDisk ==
    ASSUME IInv
    PROVE  OnDisk
  <1> SUFFICES ASSUME NEW i \in Inodes, mem[i].valid, ilock[i] = 0
               PROVE  disk[i] = [size |-> mem[i].size, addrs |-> mem[i].addrs]
    BY DEF OnDisk
  <1>1. ~Writing(i)
    BY Domains DEF IInv, LockInv, Writing
  <1>2. disk[i].size = mem[i].size /\ disk[i].addrs = mem[i].addrs
    BY <1>1, Domains DEF IInv, DiskInv
  <1>3. disk[i] \in DiskRec
    BY Domains DEF IInv, FileTypes
  <1> QED
    BY <1>2, <1>3 DEF DiskRec

LEMMA SaysLog ==
    ASSUME IInv
    PROVE  LogFits
  <1> SUFFICES ASSUME NEW p \in Procs
               PROVE  Cardinality(dirty[p] \cup (IF call[p].write THEN {<<"inode", call[p].ip>>} ELSE {}))
                        <= MAXOPBLOCKS
    BY DEF LogFits
  <1> DEFINE D == IF call[p].write THEN {<<"inode", call[p].ip>>} ELSE {}
  <1>1. LogOf(p) /\ MAXOPBLOCKS \in Nat /\ MAXOPBLOCKS >= 6 /\ IsFiniteSet(dirty[p])
    BY SizeAssumption DEF IInv, LogInv, LogOf
  <1>2. Cardinality(dirty[p]) \in Nat
    BY <1>1, FS_CardinalityType
  <1>3. Cardinality(dirty[p]) + 1 <= MAXOPBLOCKS
    <2>1. CASE call[p].pc \in {"map", "copy"}
      BY <2>1, StopRoom
    <2>2. CASE call[p].pc = "end"
      BY <1>1, <2>2 DEF LogOf
    <2>3. CASE call[p].pc \notin Io
      <3>1. Cardinality(dirty[p]) = 0
        BY <1>1, <2>3, FS_EmptySet DEF LogOf
      <3> QED
        BY <1>1, <3>1
    <2> QED
      BY <2>1, <2>2, <2>3 DEF Io
  <1>4. CASE call[p].write
    <2>1. dirty[p] \cup D = dirty[p] \cup {<<"inode", call[p].ip>>}
      BY <1>4
    <2>2. dirty[p] \in SUBSET ({"bitmap", "block"} \X Nat)
      BY DEF IInv, FileTypes
    <2>3. <<"inode", call[p].ip>> \notin dirty[p]
      BY <2>2
    <2>4. Cardinality(dirty[p] \cup {<<"inode", call[p].ip>>}) = Cardinality(dirty[p]) + 1
      BY <1>1, <2>3, FS_AddElement
    <2> QED
      BY <1>3, <2>1, <2>4
  <1>5. CASE ~call[p].write
    <2>1. dirty[p] \cup D = dirty[p]
      BY <1>5
    <2>2. Cardinality(dirty[p]) <= MAXOPBLOCKS
      BY <1>1, <1>2, <1>3
    <2> HIDE DEF D
    <2>3. Cardinality(dirty[p] \cup D) <= MAXOPBLOCKS
      BY <2>1, <2>2
    <2> QED
      BY <2>3 DEF D
  <1> QED
    BY <1>4, <1>5

LEMMA Invariance == Spec => []IInv
  <1>1. Init => IInv
    BY Initial
  <1>2. IInv /\ [Next]_vars => IInv'
    BY Inductive
  <1> QED
    BY <1>1, <1>2, PTL DEF Spec

\* (file.c, fs.c, sysfile.c) The tables and the disk are what their users say:
\* references are counted, every block has one owner, files have no holes, what
\* nobody has locked is on disk, and a transaction fits its reservation; with any
\* number of processes, files and blocks.
THEOREM FilesAndBlocks == Spec => []Inv
  <1>1. IInv => Inv
    BY SaysTypes, SaysRefs, SaysBlocks, SaysHoles, SaysDisk, SaysLog DEF Inv
  <1> QED
    BY <1>1, Invariance, PTL

\* (file.c: fileread(), filewrite()) While one transfers, nobody else moves the
\* offset of the open file they share.
THEOREM OffsetShared == Spec => []SharedOffset
  <1>1. IInv => SharedOffset
    <2> SUFFICES ASSUME IInv, NEW p \in Procs, call[p].pc \in Io, call[p].tot > 0
                 PROVE  ftable[call[p].f].off + call[p].tot = call[p].off
      BY DEF SharedOffset, Io
    <2>1. ChunkOf(p) /\ call[p].tot \in Int
      BY Where DEF IInv, ChunkInv
    <2>2. call[p].tot # -1
      BY <2>1
    <2> QED
      BY <2>1, <2>2 DEF ChunkOf
  <1> QED
    BY <1>1, Invariance, PTL

-----------------------------------------------------------------------------
(* Files are sequences of bytes *)

LEMMA ContentIs ==
    ASSUME NEW i \in Inodes
    PROVE  /\ Contents[i] = [k \in 1..Current(i).size |-> Byte(Current(i).addrs, block, k - 1)]
           /\ Contents'[i] = [k \in 1..Current(i)'.size |-> Byte(Current(i)'.addrs, block', k - 1)]
  <1>1. ContentOf(i) = [k \in 1..Current(i).size |-> Byte(Current(i).addrs, block, k - 1)]
    BY DEF ContentOf, BlockAt, BlockNo, Byte
  <1>2. ContentOf(i)' = [k \in 1..Current(i)'.size |-> Byte(Current(i)'.addrs, block', k - 1)]
    BY DEF ContentOf, BlockAt, BlockNo, Byte
  <1> QED
    BY <1>1, <1>2 DEF Contents

LEMMA SizeIs ==
    ASSUME FileTypes, NEW i \in Inodes
    PROVE  Current(i).size \in Nat /\ Current(i).size <= Limit /\ Limit \in Nat
  <1>1. Current(i).size \in 0..Limit /\ Limit \in Nat
    BY AddressTypes, Domains, Numbers
  <1> QED
    BY <1>1

LEMMA KeptContent ==
    ASSUME FileTypes, NEW i \in Inodes, Kept(i)
    PROVE  Contents'[i] = Contents[i]
  <1>1. PICK n \in Nat : n = Current(i).size /\ n = Current(i)'.size
    BY SizeIs DEF Kept
  <1>2. ASSUME NEW k \in 1..n
        PROVE  Byte(Current(i)'.addrs, block', k - 1) = Byte(Current(i).addrs, block, k - 1)
    <2>1. k - 1 \in Nat /\ k - 1 < n
      OBVIOUS
    <2> QED
      BY <1>1, <2>1 DEF Kept
  <1>3. Contents[i] = [k \in 1..n |-> Byte(Current(i).addrs, block, k - 1)]
    BY <1>1, ContentIs
  <1>4. Contents'[i] = [k \in 1..n |-> Byte(Current(i)'.addrs, block', k - 1)]
    BY <1>1, ContentIs
  <1> QED
    BY <1>2, <1>3, <1>4

LEMMA ContentsKept ==
    ASSUME FileTypes, \A i \in Inodes : Kept(i)
    PROVE  UNCHANGED Contents
  <1>1. \A i \in Inodes : Contents'[i] = Contents[i]
    BY KeptContent
  <1> QED
    BY <1>1 DEF Contents

\* one file is what it was but for n bytes, from the off-th
LEMMA WriteIs ==
    ASSUME FileTypes, NEW i \in Inodes, \A j \in Inodes : j # i => Kept(j), NEW p \in Procs,
           NEW off \in Nat, NEW n \in Nat \ {0}, off <= Current(i).size, off + n <= Limit,
           Current(i)'.size = IF off + n > Current(i).size THEN off + n ELSE Current(i).size,
           \A k \in Nat : k < Current(i)'.size =>
              Byte(Current(i)'.addrs, block', k) =
                 IF off <= k /\ k < off + n THEN p ELSE Byte(Current(i).addrs, block, k)
    PROVE  File!Next
  <1>1. PICK s \in Nat : s = Current(i).size /\ Limit \in Nat
    BY SizeIs
  <1>2. PICK t \in Nat : t = Current(i)'.size /\ t = IF off + n > s THEN off + n ELSE s
    BY <1>1
  <1>3. Contents[i] = [k \in 1..s |-> Byte(Current(i).addrs, block, k - 1)]
    BY <1>1, ContentIs
  <1>4. Len(Contents[i]) = s
    BY <1>1, <1>3
  <1>5. Contents'[i] = [k \in 1..t |-> Byte(Current(i)'.addrs, block', k - 1)]
    BY <1>2, ContentIs
  <1>6. ASSUME NEW k \in 1..t
        PROVE  Byte(Current(i)'.addrs, block', k - 1) =
                 IF k > off /\ k <= off + n THEN p ELSE Contents[i][k]
    <2>1. k - 1 \in Nat /\ k - 1 < t
      OBVIOUS
    <2>2. Byte(Current(i)'.addrs, block', k - 1) =
                 IF off <= k - 1 /\ k - 1 < off + n THEN p ELSE Byte(Current(i).addrs, block, k - 1)
      BY <1>2, <2>1
    <2>3. k \in 1..s => Contents[i][k] = Byte(Current(i).addrs, block, k - 1)
      BY <1>3
    <2>4. (k > off /\ k <= off + n) <=> (off <= k - 1 /\ k - 1 < off + n)
      OBVIOUS
    <2>5. ~(k > off /\ k <= off + n) => k \in 1..s
      BY <1>1, <1>2
    <2> QED
      BY <2>2, <2>3, <2>4, <2>5
  <1>7. Contents'[i] = File!Put(Contents[i], off, n, p)
    BY <1>2, <1>4, <1>5, <1>6 DEF File!Put
  <1>8. \A j \in Inodes : j # i => Contents'[j] = Contents[j]
    BY KeptContent
  <1>9. Contents' = [Contents EXCEPT ![i] = File!Put(@, off, n, p)]
    <2>1. Contents' = [j \in Inodes |-> Contents'[j]] /\ Contents = [j \in Inodes |-> Contents[j]]
      BY DEF Contents
    <2> QED
      BY <1>7, <1>8, <2>1
  <1>10. File!Write(i, p, off, n)
    BY <1>1, <1>4, <1>9 DEF File!Write, Limit
  <1>11. off \in 0..Limit /\ n \in 1..(Limit - off)
    BY <1>1
  <1> QED
    BY <1>10, <1>11 DEF File!Next, Limit

LEMMA TruncateIs ==
    ASSUME FileTypes, Emptied
    PROVE  File!Next
  <1>1. PICK i \in Inodes : Current(i)'.size = 0 /\ \A j \in Inodes : j # i => Kept(j)
    BY DEF Emptied
  <1>2. Contents'[i] = << >>
    <2>1. Contents'[i] = [k \in 1..0 |-> Byte(Current(i)'.addrs, block', k - 1)]
      BY <1>1, ContentIs
    <2> QED
      BY <2>1
  <1>3. \A j \in Inodes : j # i => Contents'[j] = Contents[j]
    BY <1>1, KeptContent
  <1>4. Contents' = [Contents EXCEPT ![i] = << >>]
    <2>1. Contents' = [j \in Inodes |-> Contents'[j]] /\ Contents = [j \in Inodes |-> Contents[j]]
      BY DEF Contents
    <2> QED
      BY <1>2, <1>3, <2>1
  <1> QED
    BY <1>4 DEF File!Truncate, File!Next

LEMMA OnlyCallers ==
    ASSUME FileTypes, UNCHANGED <<mem, disk, block>>
    PROVE  UNCHANGED Contents
  <1>1. \A i \in Inodes : Current(i)' = Current(i)
    BY DEF Current
  <1> QED
    BY <1>1, ContentsKept DEF Kept

LEMMA SameBytes ==
    ASSUME FileTypes, SameContents
    PROVE  UNCHANGED Contents
  BY SameKept, ContentsKept

\* writei() writes in place what is below the size, and nothing else is seen yet
LEMMA CopyBytes ==
    ASSUME IInv, NEW p \in Procs, Copy(p), call[p].write
    PROVE  File!Next \/ UNCHANGED Contents
  <1>1. call[p].pc = "copy" /\ Advance(p, Piece(p))
    BY DEF Copy, At
  <1>2. PICK m \in Nat \ {0} : m = Piece(p)
    BY <1>1, Pieces
  <1>3. PICK i \in Inodes : call[p].ip = i
    BY <1>1, Where DEF Io
  <1>4. PICK off \in Nat : off = call[p].off
    BY <1>1, Where DEF Io
  <1>5. PutsOf(Addresses, block, block', i, off, m, p) /\ UNCHANGED <<mem, disk>>
    BY <1>2, <1>3, <1>4, CopyPuts
  <1>6. \A j \in Inodes : Current(j)' = Current(j) /\ Addresses[j] = Current(j).addrs
    BY <1>5 DEF Current, Addresses
  <1>7. ASSUME NEW j \in Inodes, NEW k \in Nat, k < Current(j).size
        PROVE  Byte(Current(j).addrs, block', k) =
                 IF j = i /\ off <= k /\ k < off + m THEN p ELSE Byte(Current(j).addrs, block, k)
    <2>1. Current(j).size \in Nat /\ Current(j).size <= Limit /\ Limit \in Nat
      BY SizeIs DEF IInv
    <2>2. Filled(Current(j).addrs, block, Current(j).size)
      BY DEF IInv, HoleInv
    <2>3. BlockNo(Current(j).addrs, block, k \div BSIZE) # 0
      BY <1>7, <2>1, <2>2, FilledAt
    <2>4. k < Limit
      BY <1>7, <2>1
    <2> QED
      BY <1>5, <1>6, <2>3, <2>4 DEF PutsOf
  <1>8. \A j \in Inodes : j # i => Kept(j)
    BY <1>6, <1>7 DEF Kept
  <1>9. PICK s \in Nat : s = Current(i).size /\ s <= Limit /\ Limit \in Nat
    BY SizeIs DEF IInv
  <1>10. CASE off >= s
    <2>1. ASSUME NEW k \in Nat, k < s
          PROVE  Byte(Current(i).addrs, block', k) = Byte(Current(i).addrs, block, k)
      <3>1. ~(off <= k)
        BY <1>10, <2>1
      <3> QED
        BY <1>7, <1>9, <2>1, <3>1
    <2>2. Kept(i)
      BY <1>6, <1>9, <2>1 DEF Kept
    <2> QED
      BY <1>8, <2>2, ContentsKept DEF IInv
  <1>11. CASE off < s
    <2>1. PICK n \in Nat \ {0} : n = IF off + m > s THEN s - off ELSE m
      BY <1>11
    <2>2. off <= s /\ off + n <= s /\ off + n <= Limit
      BY <1>9, <1>11, <2>1
    <2>3. Current(i)'.size = IF off + n > s THEN off + n ELSE s
      BY <1>6, <1>9, <2>2
    <2>4. ASSUME NEW k \in Nat, k < s
          PROVE  Byte(Current(i)'.addrs, block', k) =
                   IF off <= k /\ k < off + n THEN p ELSE Byte(Current(i).addrs, block, k)
      <3>1. (off <= k /\ k < off + m) <=> (off <= k /\ k < off + n)
        BY <2>1, <2>4
      <3>2. Byte(Current(i).addrs, block', k) =
                 IF off <= k /\ k < off + m THEN p ELSE Byte(Current(i).addrs, block, k)
        BY <1>7, <1>9, <2>4
      <3> QED
        BY <1>6, <3>1, <3>2
    <2>5. Current(i)'.size = s
      BY <1>6, <1>9
    <2>6. FileTypes
      BY DEF IInv
    <2> QED
      BY <1>8, <1>9, <2>2, <2>3, <2>4, <2>5, <2>6, WriteIs
  <1> QED
    BY <1>4, <1>9, <1>10, <1>11

\* what is beyond the size is seen when the size is
LEMMA WriteEndBytes ==
    ASSUME IInv, NEW p \in Procs, WriteEnd(p)
    PROVE  File!Next \/ UNCHANGED Contents
  <1>1. call[p].pc = "end" /\ call[p].write /\ Written(p) /\ block' = block
    BY DEF WriteEnd, At
  <1>2. PICK i \in Inodes : call[p].ip = i
    BY <1>1, Where DEF Io
  <1>3. /\ \A j \in AllInodes : j # i => mem'[j] = mem[j] /\ disk'[j] = disk[j]
        /\ mem'[i].valid = mem[i].valid /\ mem'[i].addrs = mem[i].addrs
        /\ mem'[i].size = IF call[p].off > mem[i].size THEN call[p].off ELSE mem[i].size
    BY <1>1, <1>2, WrittenTo
  <1>4. mem[i].valid /\ Addrs(p) = mem[i].addrs
    BY <1>1, <1>2, Where DEF Io
  <1>5. PICK off \in Nat : off = call[p].off /\ off <= Limit
    BY <1>1, Where DEF Io
  <1>6. PICK s \in Nat : s = mem[i].size /\ s <= Limit
    BY <1>1, <1>2, Where DEF Io
  <1>7. /\ Current(i).size = s /\ Current(i).addrs = mem[i].addrs
        /\ Current(i)'.size = (IF off > s THEN off ELSE s) /\ Current(i)'.addrs = mem[i].addrs
    BY <1>3, <1>4, <1>5, <1>6 DEF Current
  <1>8. \A j \in Inodes : j # i => Kept(j)
    <2>1. \A j \in Inodes : j # i => Current(j)' = Current(j)
      BY <1>3, Domains DEF Current
    <2> QED
      BY <1>1, <2>1 DEF Kept
  <1>9. FileTypes
    BY DEF IInv
  <1>10. CASE off <= s
    <2>1. Current(i)'.size = s
      BY <1>7, <1>10
    <2>2. Kept(i)
      BY <1>1, <1>7, <2>1 DEF Kept
    <2> QED
      BY <1>8, <1>9, <2>2, ContentsKept
  <1>11. CASE off > s
    <2>1. PICK n \in Nat \ {0} : n = off - s
      BY <1>11
    <2>2. s + n = off /\ s <= s /\ s + n <= Limit /\ s + n > s
      BY <1>5, <2>1
    <2>3. Current(i)'.size = IF s + n > s THEN s + n ELSE s
      BY <1>7, <1>11, <2>2
    <2>4. ASSUME NEW k \in Nat, k < off
          PROVE  Byte(Current(i)'.addrs, block', k) =
                   IF s <= k /\ k < s + n THEN p ELSE Byte(Current(i).addrs, block, k)
      <3>1. CASE k < s
        BY <1>1, <1>7, <3>1
      <3>2. CASE ~(k < s)
        <4>1. k \in mem[i].size..call[p].off - 1
          BY <1>5, <1>6, <2>4, <3>2
        <4>2. Byte(Addrs(p), block, k) = p
          BY <1>1, <1>2, <4>1 DEF IInv, ByteInv, ByteOf, Io
        <4>3. s <= k /\ k < s + n
          BY <2>2, <2>4, <3>2
        <4> QED
          BY <1>1, <1>4, <1>7, <4>2, <4>3
      <3> QED
        BY <3>1, <3>2
    <2>5. Current(i)'.size = off /\ Current(i).size = s
      BY <1>7, <1>11
    <2>6. Current(i)'.size = IF s + n > Current(i).size THEN s + n ELSE Current(i).size
      BY <2>3, <2>5
    <2>7. \A k \in Nat : k < Current(i)'.size =>
             Byte(Current(i)'.addrs, block', k) =
               IF s <= k /\ k < s + n THEN p ELSE Byte(Current(i).addrs, block, k)
      BY <2>4, <2>5
    <2>8. s <= Current(i).size
      BY <2>2, <2>5
    <2> QED
      BY <1>8, <1>9, <2>2, <2>6, <2>7, <2>8, WriteIs
  <1> QED
    BY <1>10, <1>11

LEMMA TableBytes ==
    ASSUME IInv, NEW p \in Procs, Table(p)
    PROVE  File!Next \/ UNCHANGED Contents
  <1>1. FileTypes
    BY DEF IInv
  <1>2. CASE OpenLock(p) \/ OpenFails(p) \/ CloseIput(p)
    BY <1>1, <1>2, OpenLockStep, OpenFailsStep, CloseIputStep, SameBytes
  <1>3. CASE OpenDone(p)
    BY <1>1, <1>3, OpenDoneStep, SameBytes, TruncateIs
  <1>4. CASE Dup(p) \/ Filedup(p) \/ Fork(p) \/ Close(p)
    <2>1. UNCHANGED <<mem, disk, block>>
      <3>1. Dup(p) => UNCHANGED <<mem, disk, block>>
        BY DEF Dup, inodeVars, blockVars
      <3>2. Filedup(p) => UNCHANGED <<mem, disk, block>>
        BY DEF Filedup, inodeVars, blockVars
      <3>3. Fork(p) => UNCHANGED <<mem, disk, block>>
        BY DEF Fork, inodeVars, blockVars
      <3>4. Close(p) => UNCHANGED <<mem, disk, block>>
        BY DEF Close, inodeVars, blockVars
      <3> QED
        BY <1>4, <3>1, <3>2, <3>3, <3>4
    <2> QED
      BY <1>1, <2>1, OnlyCallers
  <1> QED
    BY <1>2, <1>3, <1>4 DEF Table

LEMMA InodeIoBytes ==
    ASSUME IInv, NEW p \in Procs, InodeIo(p)
    PROVE  File!Next \/ UNCHANGED Contents
  <1>1. FileTypes
    BY DEF IInv
  <1>2. CASE MapNew(p)
    BY <1>1, <1>2, MapNewStep, ContentsKept
  <1>3. CASE Copy(p) /\ call[p].write
    BY <1>3, CopyBytes
  <1>4. CASE WriteEnd(p)
    BY <1>4, WriteEndBytes
  <1>5. CASE Transfer(p) \/ Lock(p) \/ Mapped(p) \/ MapFails(p) \/ CopyFails(p) \/ ReadEnd(p)
    <2>1. UNCHANGED <<mem, disk, block>>
      <3>1. Transfer(p) => UNCHANGED <<mem, disk, block>>
        BY DEF Transfer, inodeVars, blockVars
      <3>2. Lock(p) => UNCHANGED <<mem, disk, block>>
        BY DEF Lock, inodeVars, blockVars
      <3>3. Mapped(p) => UNCHANGED <<mem, disk, block>>
        BY DEF Mapped, inodeVars, blockVars
      <3>4. MapFails(p) => UNCHANGED <<mem, disk, block>>
        BY DEF MapFails, inodeVars, blockVars
      <3>5. CopyFails(p) => UNCHANGED <<mem, disk, block>>
        BY DEF CopyFails, inodeVars, blockVars
      <3>6. ReadEnd(p) => UNCHANGED <<mem, disk, block>>
        BY DEF ReadEnd, inodeVars, blockVars
      <3> QED
        BY <1>5, <3>1, <3>2, <3>3, <3>4, <3>5, <3>6
    <2> QED
      BY <1>1, <2>1, OnlyCallers
  <1>6. CASE Copy(p) /\ ~call[p].write
    <2>1. UNCHANGED <<mem, disk, block>>
      BY <1>6 DEF Copy, inodeVars, blockVars
    <2> QED
      BY <1>1, <2>1, OnlyCallers
  <1> QED
    BY <1>2, <1>3, <1>4, <1>5, <1>6 DEF InodeIo

LEMMA BytesInit == ASSUME Init PROVE File!Init
  <1>1. ASSUME NEW i \in Inodes PROVE Contents[i] = << >>
    <2>1. Current(i).size = 0
      BY Domains DEF Init, Current, Evicted
    <2>2. Contents[i] = [k \in 1..0 |-> Byte(Current(i).addrs, block, k - 1)]
      BY <2>1, ContentIs
    <2> QED
      BY <2>2
  <1> QED
    BY <1>1 DEF File!Init

\* (fs.c: bmap(), balloc(), itrunc(), writei(); file.c: filewrite()) Blocks, indirect
\* blocks and a bitmap make files of bytes: every step of every process is a write
\* of its own bytes in one file, a truncation, or nothing to a reader.
THEOREM FilesAreBytes == Spec => IsByteFile
  <1>1. Init => File!Init
    BY BytesInit
  <1>2. IInv /\ [Next]_vars => [File!Next]_Contents
    <2> SUFFICES ASSUME IInv, [Next]_vars PROVE File!Next \/ UNCHANGED Contents
      OBVIOUS
    <2>1. CASE \E p \in Procs : Table(p) \/ InodeIo(p)
      BY <2>1, TableBytes, InodeIoBytes
    <2>2. CASE Device \/ UNCHANGED vars
      <3>1. UNCHANGED <<mem, disk, block>>
        BY <2>2 DEF Device, Interrupt, DeviceIo, DeviceStep, Kill, Still, vars, inodeVars, blockVars
      <3> QED
        BY <3>1, OnlyCallers DEF IInv
    <2> QED
      BY <2>1, <2>2 DEF Next
  <1> QED
    BY <1>1, <1>2, Invariance, PTL DEF Spec, IsByteFile, File!Spec
=============================================================================

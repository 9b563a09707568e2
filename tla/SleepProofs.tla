----------------------------- MODULE SleepProofs -----------------------------
(***************************************************************************)
(* Three users of sleep and wakeup.  First the pipe of module Pipe, for    *)
(* any number of readers and writers, any size of the buffer and any width *)
(* of the indices; then, as SL, the sleep lock of module Sleeplock, for    *)
(* any number of processes; and, as PL, the life of processes of module    *)
(* ProcLife, for any number of slots and pids.                             *)
(***************************************************************************)
EXTENDS Pipe, MCSleeplock, MCProcLife, SequenceTheorems, TLAPS

-----------------------------------------------------------------------------
\* Arithmetic of the ring that pipe.c addresses with unsigned ints: what is needed of %.

\* quotient and remainder
LEMMA DivMod ==
    ASSUME NEW a \in Int, NEW m \in Nat \ {0}
    PROVE  a \div m \in Int /\ a % m \in 0..(m - 1) /\ a = m * (a \div m) + (a % m)
  OBVIOUS

\* a remainder is the only one
LEMMA ModUnique ==
    ASSUME NEW m \in Nat \ {0}, NEW k \in Int, NEW c \in 0..(m - 1)
    PROVE  (m * k + c) % m = c
  <1> DEFINE a == m * k + c
             d == k - a \div m
  <1>1. a \in Int /\ a \div m \in Int /\ d \in Int /\ a % m \in 0..(m-1) /\ a = m * (a \div m) + (a % m)
    BY DivMod
  <1>2. m * d = (a % m) - c
    BY <1>1
  <1>3. d > 0 => m * d >= m
    BY <1>1
  <1>4. d < 0 => m * d <= 0 - m
    BY <1>1
  <1>5. d = 0
    BY <1>1, <1>2, <1>3, <1>4
  <1> QED
    BY <1>1, <1>2, <1>5

\* adding a multiple
LEMMA ModShift ==
    ASSUME NEW m \in Nat \ {0}, NEW k \in Int, NEW a \in Int
    PROVE  (a + m * k) % m = a % m
  <1>1. a \div m \in Int /\ a % m \in 0..(m - 1) /\ a = m * (a \div m) + (a % m)
    BY DivMod
  <1>2. (a \div m) + k \in Int /\ a + m * k = m * ((a \div m) + k) + (a % m)
    BY <1>1
  <1>3. (m * ((a \div m) + k) + (a % m)) % m = a % m
    BY <1>1, <1>2, ModUnique
  <1> QED
    BY <1>2, <1>3

\* numbers less than a modulus away
LEMMA ModSmall ==
    ASSUME NEW m \in Nat \ {0}, NEW a \in Int
    PROVE  /\ a \in 0..(m - 1) => a % m = a
           /\ a \in m..(2 * m - 1) => a % m = a - m
           /\ a \in -m..-1 => a % m = a + m
  <1>1. ASSUME a \in 0..(m - 1) PROVE a % m = a
    BY <1>1, ModUnique
  <1>2. ASSUME a \in m..(2 * m - 1) PROVE a % m = a - m
    <2>1. a - m \in 0..(m - 1) /\ a = (a - m) + m * 1
      BY <1>2
    <2>2. (a - m) % m = a - m
      BY <2>1, ModUnique
    <2>3. ((a - m) + m * 1) % m = (a - m) % m
      BY <2>1, ModShift
    <2> QED
      BY <2>1, <2>2, <2>3
  <1>3. ASSUME a \in -m..-1 PROVE a % m = a + m
    <2>1. a + m \in 0..(m - 1) /\ a = (a + m) + m * (-1)
      BY <1>3
    <2>2. (a + m) % m = a + m /\ ((a + m) + m * (-1)) % m = (a + m) % m
      BY <2>1, ModUnique, ModShift
    <2> QED
      BY <2>1, <2>2
  <1> QED
    BY <1>1, <1>2, <1>3

\* numbers that are closer than the modulus differ by it
LEMMA ModDistinct ==
    ASSUME NEW m \in Nat \ {0}, NEW a \in Int, NEW b \in Int, 0 < b - a, b - a < m
    PROVE  a % m # b % m
  <1> SUFFICES ASSUME a % m = b % m PROVE FALSE
    OBVIOUS
  <1> DEFINE d == (b \div m) - (a \div m)
  <1>1. d \in Int /\ b - a = m * d
    BY DivMod
  <1>2. d > 0 => m * d >= m
    BY <1>1
  <1>3. d <= 0 => m * d <= 0
    BY <1>1
  <1> QED
    BY <1>1, <1>2, <1>3

\* sum and difference of two indices
LEMMA RingArith ==
    ASSUME NEW m \in Nat \ {0}, NEW a \in 0..(m - 1), NEW b \in 0..(m - 1)
    PROVE  /\ (b - a) % m = IF b >= a THEN b - a ELSE b - a + m
           /\ (a + b) % m = IF a + b < m THEN a + b ELSE a + b - m
  <1>1. a + b \in Int /\ b - a \in Int
    OBVIOUS
  <1>2. \/ b - a \in 0..(m - 1) /\ b >= a
        \/ b - a \in -m..-1 /\ ~(b >= a)
    OBVIOUS
  <1>3. \/ a + b \in 0..(m - 1) /\ a + b < m
        \/ a + b \in m..(2 * m - 1) /\ ~(a + b < m)
    OBVIOUS
  <1>4. (b - a) % m = IF b >= a THEN b - a ELSE b - a + m
    <2>1. ASSUME b - a \in 0..(m - 1) PROVE (b - a) % m = b - a
      BY <1>1, <2>1, ModSmall
    <2>2. ASSUME b - a \in -m..-1 PROVE (b - a) % m = b - a + m
      BY <1>1, <2>2, ModSmall
    <2> QED
      BY <1>2, <2>1, <2>2
  <1>5. (a + b) % m = IF a + b < m THEN a + b ELSE a + b - m
    <2>1. ASSUME a + b \in 0..(m - 1) PROVE (a + b) % m = a + b
      BY <1>1, <2>1, ModSmall
    <2>2. ASSUME a + b \in m..(2 * m - 1) PROVE (a + b) % m = a + b - m
      <3>1. PICK c \in Int : c = a + b
        BY <1>1
      <3>2. c % m = c - m
        BY <2>2, <3>1, ModSmall
      <3> QED
        BY <3>1, <3>2
    <2> QED
      BY <1>3, <2>1, <2>2
  <1> QED
    BY <1>4, <1>5
-----------------------------------------------------------------------------
(* The inductive invariant *)

Writing == {"write", "wfull", "wunlock", "wsleep", "wasleep", "wwake"}
Reading == {"read", "runlock", "rsleep", "rasleep", "copy", "rwake"}
Closing == {"close", "closewake", "free"}
Holding == {"write", "wfull", "wunlock", "wwake",
            "read", "runlock", "copy", "rwake", "closewake"}

\* pi->lock is held in these sections, and by one process
LockInv == \A p \in Procs : pc[p] \in Holding <=> lock = p

\* writers write, readers read, and both have a reference until they close
RoleInv == \A p \in Procs : /\ pc[p] \in Writing => p \in Writers /\ p \in refs
                            /\ pc[p] \in Reading => p \in Readers /\ p \in refs
                            /\ pc[p] \in Closing => p \in Readers \/ p \in Writers
                            /\ pc[p] \in Closing => p \notin refs

\* an end is open while someone has a reference to it, or is about to close it
EndInv == \A p \in Procs : p \in refs \/ pc[p] = "close" =>
              /\ p \in Readers => readopen
              /\ p \in Writers => writeopen

\* one process closes an end, when nobody has a reference to it any more
SameEnd(p, q) == \/ p \in Readers /\ q \in Readers
                 \/ p \in Writers /\ q \in Writers
LastInv == \A p, q \in Procs : pc[p] = "close" /\ SameEnd(p, q) =>
               q \notin refs /\ (pc[q] = "close" => q = p)

\* one process frees the pipe, when everybody else is through
FreeInv == \A p \in Procs : pc[p] = "free" =>
               /\ ~readopen /\ ~writeopen
               /\ \A q \in Procs : q # p => pc[q] \in {"idle", "gone"}

IInv == TypeOK /\ LockInv /\ RoleInv /\ EndInv /\ LastInv /\ FreeInv /\ FreedLast

-----------------------------------------------------------------------------
(* What the constants give *)

LEMMA SlotFacts ==
    /\ 0 \notin Procs /\ 0 \in 0..N
    /\ N + 1 \notin Procs /\ N + 1 \in 1..(N + 1) /\ 1 \in 1..(N + 1)
    /\ \A p \in Procs : /\ p \in 0..N /\ p + 1 \in 1..(N + 1)
                        /\ 1 <= p /\ ~(N + 1 <= p) /\ p \in Int
    /\ \A i \in 1..(N + 1), p \in Procs : i <= p /\ i # p => i + 1 <= p
  BY NAssumption DEF NAssumption, Procs

LEMMA EndFacts ==
    /\ \A p \in Readers : p \in Procs /\ p \notin Writers
    /\ \A p \in Writers : p \in Procs /\ p \notin Readers
  BY EndsAssumption DEF EndsAssumption

\* how many bytes there are in the pipe
Held == (nwrite - nread) % Wrap

LEMMA IndexFacts ==
    ASSUME TypeOK
    PROVE  /\ Held = IF nwrite >= nread THEN nwrite - nread ELSE nwrite - nread + Wrap
           /\ (nread + 1) % Wrap = IF nread + 1 < Wrap THEN nread + 1 ELSE 0
           /\ (nwrite + 1) % Wrap = IF nwrite + 1 < Wrap THEN nwrite + 1 ELSE 0
           /\ Empty <=> Held = 0
           /\ Full <=> Held = PIPESIZE
           /\ Held \in 0..PIPESIZE
  <1>1. /\ Wrap \in Nat \ {0} /\ 1 \in 0..(Wrap - 1) /\ PIPESIZE \in 0..(Wrap - 1)
        /\ nread \in 0..(Wrap - 1) /\ nwrite \in 0..(Wrap - 1)
        /\ Held <= PIPESIZE
    BY SizeAssumption DEF SizeAssumption, TypeOK, Held
  <1>2. Held = IF nwrite >= nread THEN nwrite - nread ELSE nwrite - nread + Wrap
    BY <1>1, RingArith DEF Held
  <1>3. /\ (nread + 1) % Wrap = IF nread + 1 < Wrap THEN nread + 1 ELSE nread + 1 - Wrap
        /\ (nwrite + 1) % Wrap = IF nwrite + 1 < Wrap THEN nwrite + 1 ELSE nwrite + 1 - Wrap
        /\ (nread + PIPESIZE) % Wrap = IF nread + PIPESIZE < Wrap THEN nread + PIPESIZE
                                       ELSE nread + PIPESIZE - Wrap
    BY <1>1, RingArith
  <1>4. (Full <=> Held = PIPESIZE) /\ (Empty <=> Held = 0)
    BY <1>1, <1>2, <1>3 DEF Full, Empty
  <1> QED
    BY <1>1, <1>2, <1>3, <1>4

\* the slots of the buffer that the indices name
LEMMA SlotOf ==
    ASSUME TypeOK
    PROVE  nread % PIPESIZE \in 0..(PIPESIZE - 1) /\ nwrite % PIPESIZE \in 0..(PIPESIZE - 1)
  <1>1. nread \in Int /\ nwrite \in Int /\ PIPESIZE \in Nat \ {0}
    BY SizeAssumption DEF SizeAssumption, TypeOK
  <1> QED
    BY <1>1, DivMod

\* nread++ and nwrite++, on a pipe that is not empty and not full
LEMMA Advance ==
    ASSUME TypeOK
    PROVE  /\ nread' = (nread + 1) % Wrap /\ nwrite' = nwrite /\ ~Empty =>
                nread' \in 0..(Wrap - 1) /\ Held' = Held - 1
           /\ nwrite' = (nwrite + 1) % Wrap /\ nread' = nread /\ ~Full =>
                nwrite' \in 0..(Wrap - 1) /\ Held' = Held + 1
  <1>1. /\ Wrap \in Nat \ {0} /\ PIPESIZE \in 0..(Wrap - 1)
        /\ nread \in 0..(Wrap - 1) /\ nwrite \in 0..(Wrap - 1)
    BY SizeAssumption DEF SizeAssumption, TypeOK
  <1>2. ASSUME nread' \in 0..(Wrap - 1), nwrite' \in 0..(Wrap - 1)
        PROVE  Held' = IF nwrite' >= nread' THEN nwrite' - nread' ELSE nwrite' - nread' + Wrap
    BY <1>1, <1>2, RingArith DEF Held
  <1>3. ASSUME nread' = (nread + 1) % Wrap, nwrite' = nwrite, ~Empty
        PROVE  nread' \in 0..(Wrap - 1) /\ Held' = Held - 1
    BY <1>1, <1>2, <1>3, IndexFacts
  <1>4. ASSUME nwrite' = (nwrite + 1) % Wrap, nread' = nread, ~Full
        PROVE  nwrite' \in 0..(Wrap - 1) /\ Held' = Held + 1
    BY <1>1, <1>2, <1>4, IndexFacts
  <1> QED
    BY <1>3, <1>4

-----------------------------------------------------------------------------
(* The steps *)

\* the two halves of TypeOK: of the processes, and of the buffer
ProcType ==
    /\ state \in [Procs -> {"RUNNABLE", "SLEEPING"}]
    /\ chan \in [Procs -> {NoChan, Nread, Nwrite}]
    /\ killed \in [Procs -> BOOLEAN]
    /\ scan \in [Procs -> 1..(N + 1)]
    /\ lock \in 0..N
    /\ {readopen, writeopen, freed} \subseteq BOOLEAN
    /\ refs \subseteq Readers \cup Writers
    /\ pc \in [Procs -> PCs]
    /\ left \in [Procs -> 0..MaxLen]
    /\ quiet \in 0..N

BufType ==
    /\ data \in [0..(PIPESIZE - 1) -> Bytes]
    /\ nread \in 0..(Wrap - 1) /\ nwrite \in 0..(Wrap - 1)
    /\ Held <= PIPESIZE
    /\ got \in [Readers -> Bytes]

LEMMA Halves == TypeOK <=> ProcType /\ BufType
  BY DEF TypeOK, ProcType, BufType, Held

\* what belongs to the processes and to the ends keeps its type
LEMMA ProcTypeStep ==
    ASSUME ProcType, [Next]_vars
    PROVE  ProcType'
  <1> USE SlotFacts, SizeAssumption DEF SizeAssumption, ProcType, PCs
  <1>1. ASSUME NEW p \in Procs, pipewrite(p) PROVE ProcType'
    BY <1>1 DEF pipewrite, Write, Goto, acquire, WriteFails, release,
           WriteFull, WakeupCall, WriteByte, WriteDone, WakeReaders, wakeup,
           WritePrepare, WakeupDone, sleep_prepare, WriteReturn, sleepVars,
           bufVars, endVars
  <1>2. ASSUME NEW p \in Procs, piperead(p) PROVE ProcType'
    BY <1>2 DEF piperead, Read, Goto, acquire, ReadFails, release, ReadPrepare,
           sleep_prepare, ReadReady, ReadByte, ReadDone, WakeupCall,
           WakeWriters, wakeup, ReadReturn, WakeupDone, sleepVars, bufVars,
           endVars
  <1>3. ASSUME NEW p \in Procs, Unlock(p) \/ Sleep(p) \/ Relock(p)
       PROVE  ProcType'
    BY <1>3 DEF Unlock, Goto, release, Sleep, sleep, Relock, acquire,
           sleepVars, bufVars, endVars
  <1>4. ASSUME NEW p \in Procs, Close(p) PROVE ProcType'
    BY <1>4 DEF Close, sleepVars, bufVars, endVars
  <1>5. ASSUME NEW p \in Procs, pipeclose(p) PROVE ProcType'
    <2>1. CASE Free(p)
      BY <2>1 DEF Free, Goto, sleepVars, bufVars, endVars
    <2>2. CASE PipeClose(p)
      BY <2>2 DEF PipeClose, Goto, acquire, WakeupCall, sleepVars, bufVars,
             endVars
    <2>3. CASE CloseWake(p)
      BY <2>3 DEF CloseWake, wakeup, sleepVars, bufVars, endVars
    <2>4. CASE CloseDone(p)
      BY <2>4 DEF CloseDone, Goto, WakeupDone, release, sleepVars, bufVars,
             endVars
    <2> QED BY <1>5, <2>1, <2>2, <2>3, <2>4 DEF pipeclose
  <1>6. ASSUME NEW p \in Procs, Kill(p) PROVE ProcType'
    BY <1>6 DEF Kill, kkill, sleepVars, bufVars, endVars
  <1>7. CASE UNCHANGED vars
    BY <1>7 DEF vars, sleepVars, bufVars, endVars
  <1> QED BY <1>1, <1>2, <1>3, <1>4, <1>5, <1>6, <1>7 DEF Next, Step, Finished

\* the indices stay in their range and at most PIPESIZE apart
LEMMA BufTypeStep ==
    ASSUME TypeOK, [Next]_vars
    PROVE  BufType'
  <1>1. ASSUME NEW p \in Procs, pipewrite(p) PROVE BufType'
    <2>1. CASE Write(p) \/ WriteFails(p) \/ WriteFull(p) \/ WriteDone(p) \/
           WakeReaders(p) \/ WritePrepare(p) \/ WriteReturn(p)
      <3>1. UNCHANGED <<data, nread, nwrite, got>>
        BY <2>1 DEF Write, Goto, acquire, WriteFails, release, WriteFull,
               WakeupCall, WriteDone, WakeReaders, wakeup, WritePrepare,
               WakeupDone, sleep_prepare, WriteReturn, sleepVars, bufVars,
               endVars
      <3> QED BY <3>1 DEF TypeOK, BufType, Held, bufVars
    <2>2. CASE WriteByte(p)
      <3>1. nwrite' \in 0..(Wrap - 1) /\ Held' <= PIPESIZE
        <4>1. nwrite' = (nwrite + 1) % Wrap /\ nread' = nread /\ ~Full
          BY <2>2 DEF WriteByte
        <4> QED
          BY <4>1, Advance, IndexFacts, SizeAssumption DEF SizeAssumption
      <3>2. data' \in [0..(PIPESIZE - 1) -> Bytes]
        BY <2>2 DEF WriteByte, TypeOK
      <3> QED
        BY <2>2, <3>1, <3>2 DEF WriteByte, TypeOK, BufType
    <2> QED BY <1>1, <2>1, <2>2 DEF pipewrite
  <1>2. ASSUME NEW p \in Procs, piperead(p) PROVE BufType'
    <2>1. CASE Read(p) \/ ReadFails(p) \/ ReadPrepare(p) \/ ReadReady(p) \/
           ReadDone(p) \/ WakeWriters(p) \/ ReadReturn(p)
      <3>1. UNCHANGED <<data, nread, nwrite, got>>
        BY <2>1 DEF Read, Goto, acquire, ReadFails, release, ReadPrepare,
               sleep_prepare, ReadReady, ReadDone, WakeupCall, WakeWriters,
               wakeup, ReadReturn, WakeupDone, sleepVars, bufVars, endVars
      <3> QED BY <3>1 DEF TypeOK, BufType, Held, bufVars
    <2>2. CASE ReadByte(p)
      <3>1. nread' \in 0..(Wrap - 1) /\ Held' <= PIPESIZE
        <4>1. nread' = (nread + 1) % Wrap /\ nwrite' = nwrite /\ ~Empty
          BY <2>2 DEF ReadByte
        <4> QED
          BY <4>1, Advance, IndexFacts, SizeAssumption DEF SizeAssumption
      <3>2. got' \in [Readers -> Bytes]
        BY <2>2, SlotOf DEF ReadByte, TypeOK
      <3> QED
        BY <2>2, <3>1, <3>2 DEF ReadByte, TypeOK, BufType
    <2> QED BY <1>2, <2>1, <2>2 DEF piperead
  <1>3. ASSUME NEW p \in Procs, Unlock(p) \/ Sleep(p) \/ Relock(p)
       PROVE  BufType'
    <2>1. UNCHANGED <<data, nread, nwrite, got>>
      BY <1>3 DEF Unlock, Goto, release, Sleep, sleep, Relock, acquire,
             sleepVars, bufVars, endVars
    <2> QED BY <2>1 DEF TypeOK, BufType, Held, bufVars
  <1>4. ASSUME NEW p \in Procs, Close(p) PROVE BufType'
    <2>1. UNCHANGED <<data, nread, nwrite, got>>
      BY <1>4 DEF Close, sleepVars, bufVars, endVars
    <2> QED BY <2>1 DEF TypeOK, BufType, Held, bufVars
  <1>5. ASSUME NEW p \in Procs, pipeclose(p) PROVE BufType'
    <2>1. UNCHANGED <<data, nread, nwrite, got>>
      BY <1>5 DEF pipeclose, PipeClose, Goto, acquire, WakeupCall, CloseWake,
             wakeup, CloseDone, WakeupDone, release, Free, sleepVars, bufVars,
             endVars
    <2> QED BY <2>1 DEF TypeOK, BufType, Held, bufVars
  <1>6. ASSUME NEW p \in Procs, Kill(p) PROVE BufType'
    <2>1. UNCHANGED <<data, nread, nwrite, got>>
      BY <1>6 DEF Kill, kkill, sleepVars, bufVars, endVars
    <2> QED BY <2>1 DEF TypeOK, BufType, Held, bufVars
  <1>7. CASE UNCHANGED vars
    BY <1>7 DEF vars, sleepVars, bufVars, endVars, TypeOK, BufType, Held, bufVars
  <1> QED BY <1>1, <1>2, <1>3, <1>4, <1>5, <1>6, <1>7 DEF Next, Step, Finished

\* acquire() and release() enclose the sections that hold pi->lock
LEMMA LockStep ==
    ASSUME TypeOK, LockInv, [Next]_vars
    PROVE  LockInv'
  <1> USE SlotFacts DEF TypeOK, LockInv, Holding
  <1>1. ASSUME NEW p \in Procs, pipewrite(p) PROVE LockInv'
    BY <1>1 DEF pipewrite, Write, Goto, acquire, WriteFails, release,
           WriteFull, WakeupCall, WriteByte, WriteDone, WakeReaders, wakeup,
           WritePrepare, WakeupDone, sleep_prepare, WriteReturn, sleepVars,
           bufVars, endVars
  <1>2. ASSUME NEW p \in Procs, piperead(p) PROVE LockInv'
    BY <1>2 DEF piperead, Read, Goto, acquire, ReadFails, release, ReadPrepare,
           sleep_prepare, ReadReady, ReadByte, ReadDone, WakeupCall,
           WakeWriters, wakeup, ReadReturn, WakeupDone, sleepVars, bufVars,
           endVars
  <1>3. ASSUME NEW p \in Procs, Unlock(p) \/ Sleep(p) \/ Relock(p)
       PROVE  LockInv'
    BY <1>3 DEF Unlock, Goto, release, Sleep, sleep, Relock, acquire,
           sleepVars, bufVars, endVars
  <1>4. ASSUME NEW p \in Procs, Close(p) PROVE LockInv'
    BY <1>4 DEF Close, sleepVars, bufVars, endVars
  <1>5. ASSUME NEW p \in Procs, pipeclose(p) PROVE LockInv'
    BY <1>5 DEF pipeclose, PipeClose, Goto, acquire, WakeupCall, CloseWake,
           wakeup, CloseDone, WakeupDone, release, Free, sleepVars, bufVars,
           endVars
  <1>6. ASSUME NEW p \in Procs, Kill(p) PROVE LockInv'
    BY <1>6 DEF Kill, kkill, sleepVars, bufVars, endVars
  <1>7. CASE UNCHANGED vars
    BY <1>7 DEF vars, sleepVars, bufVars, endVars
  <1> QED BY <1>1, <1>2, <1>3, <1>4, <1>5, <1>6, <1>7 DEF Next, Step, Finished

\* pipewrite() is for writers, piperead() for readers, neither after a close
LEMMA RoleStep ==
    ASSUME TypeOK, RoleInv, [Next]_vars
    PROVE  RoleInv'
  <1> USE SlotFacts DEF TypeOK, RoleInv, Writing, Reading, Closing
  <1>1. ASSUME NEW p \in Procs, pipewrite(p) PROVE RoleInv'
    BY <1>1, EndFacts DEF pipewrite, Write, Goto, acquire, WriteFails, release,
           WriteFull, WakeupCall, WriteByte, WriteDone, WakeReaders, wakeup,
           WritePrepare, WakeupDone, sleep_prepare, WriteReturn, sleepVars,
           bufVars, endVars
  <1>2. ASSUME NEW p \in Procs, piperead(p) PROVE RoleInv'
    BY <1>2, EndFacts DEF piperead, Read, Goto, acquire, ReadFails, release,
           ReadPrepare, sleep_prepare, ReadReady, ReadByte, ReadDone,
           WakeupCall, WakeWriters, wakeup, ReadReturn, WakeupDone, sleepVars,
           bufVars, endVars
  <1>3. ASSUME NEW p \in Procs, Unlock(p) \/ Sleep(p) \/ Relock(p)
       PROVE  RoleInv'
    BY <1>3, EndFacts DEF Unlock, Goto, release, Sleep, sleep, Relock, acquire,
           sleepVars, bufVars, endVars
  <1>4. ASSUME NEW p \in Procs, Close(p) PROVE RoleInv'
    BY <1>4, EndFacts DEF Close, sleepVars, bufVars, endVars
  <1>5. ASSUME NEW p \in Procs, pipeclose(p) PROVE RoleInv'
    BY <1>5, EndFacts DEF pipeclose, PipeClose, Goto, acquire, WakeupCall,
           CloseWake, wakeup, CloseDone, WakeupDone, release, Free, sleepVars,
           bufVars, endVars
  <1>6. ASSUME NEW p \in Procs, Kill(p) PROVE RoleInv'
    BY <1>6, EndFacts DEF Kill, kkill, sleepVars, bufVars, endVars
  <1>7. CASE UNCHANGED vars
    BY <1>7, EndFacts DEF vars, sleepVars, bufVars, endVars
  <1> QED BY <1>1, <1>2, <1>3, <1>4, <1>5, <1>6, <1>7 DEF Next, Step, Finished

\* fileclose() calls pipeclose() for the last reference of an end only
LEMMA LastStep ==
    ASSUME TypeOK, RoleInv, LastInv, [Next]_vars
    PROVE  LastInv'
  <1> USE SlotFacts DEF TypeOK
  <1>1. ASSUME NEW p \in Procs, pipewrite(p) PROVE LastInv'
    <2>1. refs' = refs /\ \A q \in Procs : pc'[q] = "close" => pc[q] = "close"
      BY <1>1 DEF pipewrite, Write, Goto, acquire, WriteFails, release,
             WriteFull, WakeupCall, WriteByte, WriteDone, WakeReaders, wakeup,
             WritePrepare, WakeupDone, sleep_prepare, WriteReturn, sleepVars,
             bufVars, endVars
    <2> QED BY <2>1 DEF LastInv
  <1>2. ASSUME NEW p \in Procs, piperead(p) PROVE LastInv'
    <2>1. refs' = refs /\ \A q \in Procs : pc'[q] = "close" => pc[q] = "close"
      BY <1>2 DEF piperead, Read, Goto, acquire, ReadFails, release,
             ReadPrepare, sleep_prepare, ReadReady, ReadByte, ReadDone,
             WakeupCall, WakeWriters, wakeup, ReadReturn, WakeupDone,
             sleepVars, bufVars, endVars
    <2> QED BY <2>1 DEF LastInv
  <1>3. ASSUME NEW p \in Procs, Unlock(p) \/ Sleep(p) \/ Relock(p)
       PROVE  LastInv'
    <2>1. refs' = refs /\ \A q \in Procs : pc'[q] = "close" => pc[q] = "close"
      BY <1>3 DEF Unlock, Goto, release, Sleep, sleep, Relock, acquire,
             sleepVars, bufVars, endVars
    <2> QED BY <2>1 DEF LastInv
  <1>4. ASSUME NEW p \in Procs, Close(p) PROVE LastInv'
    <2>1. CASE Close(p)
      BY <2>1, EndFacts DEF Close, LastInv, SameEnd, End, RoleInv, Closing, sleepVars,
             bufVars
    <2> QED BY <1>4, <2>1
  <1>5. ASSUME NEW p \in Procs, pipeclose(p) PROVE LastInv'
    <2>1. refs' = refs /\ \A q \in Procs : pc'[q] = "close" => pc[q] = "close"
      BY <1>5 DEF pipeclose, PipeClose, Goto, acquire, WakeupCall, CloseWake,
             wakeup, CloseDone, WakeupDone, release, Free, sleepVars, bufVars,
             endVars
    <2> QED BY <2>1 DEF LastInv
  <1>6. ASSUME NEW p \in Procs, Kill(p) PROVE LastInv'
    <2>1. refs' = refs /\ \A q \in Procs : pc'[q] = "close" => pc[q] = "close"
      BY <1>6 DEF Kill, kkill, sleepVars, bufVars, endVars
    <2> QED BY <2>1 DEF LastInv
  <1>7. CASE UNCHANGED vars
    BY <1>7 DEF vars, sleepVars, bufVars, endVars, LastInv
  <1> QED BY <1>1, <1>2, <1>3, <1>4, <1>5, <1>6, <1>7 DEF Next, Step, Finished

\* only the last close of an end closes it
LEMMA EndStep ==
    ASSUME TypeOK, RoleInv, LastInv, EndInv, [Next]_vars
    PROVE  EndInv'
  <1> USE SlotFacts DEF TypeOK, RoleInv, Writing, Reading, Closing, EndInv
  <1>1. ASSUME NEW p \in Procs, pipewrite(p) PROVE EndInv'
    BY <1>1, EndFacts DEF pipewrite, Write, Goto, acquire, WriteFails, release,
           WriteFull, WakeupCall, WriteByte, WriteDone, WakeReaders, wakeup,
           WritePrepare, WakeupDone, sleep_prepare, WriteReturn, sleepVars,
           bufVars, endVars
  <1>2. ASSUME NEW p \in Procs, piperead(p) PROVE EndInv'
    BY <1>2, EndFacts DEF piperead, Read, Goto, acquire, ReadFails, release,
           ReadPrepare, sleep_prepare, ReadReady, ReadByte, ReadDone,
           WakeupCall, WakeWriters, wakeup, ReadReturn, WakeupDone, sleepVars,
           bufVars, endVars
  <1>3. ASSUME NEW p \in Procs, Unlock(p) \/ Sleep(p) \/ Relock(p)
       PROVE  EndInv'
    BY <1>3, EndFacts DEF Unlock, Goto, release, Sleep, sleep, Relock, acquire,
           sleepVars, bufVars, endVars
  <1>4. ASSUME NEW p \in Procs, Close(p) PROVE EndInv'
    BY <1>4, EndFacts DEF Close, sleepVars, bufVars, endVars
  <1>5. ASSUME NEW p \in Procs, pipeclose(p) PROVE EndInv'
    <2>1. CASE CloseWake(p) \/ Free(p)
      BY <2>1, EndFacts DEF CloseWake, wakeup, Free, Goto, sleepVars, bufVars,
             endVars
    <2>2. CASE PipeClose(p)
      <3>1. pc[p] = "close" /\ p \notin refs /\ refs' = refs
            /\ pc' = [pc EXCEPT ![p] = "closewake"]
            /\ readopen' = (readopen /\ p \notin Readers)
            /\ writeopen' = (writeopen /\ p \notin Writers)
        BY <2>2 DEF PipeClose, Goto
      <3>2. ASSUME NEW q \in Procs, q \in refs \/ pc[q] = "close", q # p
            PROVE  ~SameEnd(p, q)
        BY <3>1, <3>2 DEF LastInv
      <3>3. ASSUME NEW q \in Procs, q \in refs' \/ pc'[q] = "close"
            PROVE  /\ q \in Readers => readopen'
                   /\ q \in Writers => writeopen'
        <4>1. q # p /\ (q \in refs \/ pc[q] = "close")
          BY <3>1, <3>3
        <4>2. ~SameEnd(p, q)
          BY <4>1, <3>2
        <4>3. (q \in Readers => readopen) /\ (q \in Writers => writeopen)
          BY <4>1
        <4> QED
          BY <3>1, <4>2, <4>3 DEF SameEnd
      <3> QED
        BY <3>3
    <2>3. CASE CloseDone(p)
      BY <2>3, EndFacts DEF CloseDone, Goto, WakeupDone, release, sleepVars,
             bufVars, endVars
    <2> QED BY <1>5, <2>1, <2>2, <2>3 DEF pipeclose
  <1>6. ASSUME NEW p \in Procs, Kill(p) PROVE EndInv'
    BY <1>6, EndFacts DEF Kill, kkill, sleepVars, bufVars, endVars
  <1>7. CASE UNCHANGED vars
    BY <1>7, EndFacts DEF vars, sleepVars, bufVars, endVars
  <1> QED BY <1>1, <1>2, <1>3, <1>4, <1>5, <1>6, <1>7 DEF Next, Step, Finished

\* pipeclose() goes on to kfree() when both ends are closed and the lock free
LEMMA FreeStep ==
    ASSUME TypeOK, LockInv, RoleInv, EndInv, FreeInv, [Next]_vars
    PROVE  FreeInv'
  <1> USE SlotFacts DEF TypeOK, RoleInv, Writing, Reading, Closing, LockInv,
          Holding, EndInv, FreeInv
  <1>1. ASSUME NEW p \in Procs, pipewrite(p) PROVE FreeInv'
    BY <1>1, EndFacts DEF pipewrite, Write, Goto, acquire, WriteFails, release,
           WriteFull, WakeupCall, WriteByte, WriteDone, WakeReaders, wakeup,
           WritePrepare, WakeupDone, sleep_prepare, WriteReturn, sleepVars,
           bufVars, endVars
  <1>2. ASSUME NEW p \in Procs, piperead(p) PROVE FreeInv'
    BY <1>2, EndFacts DEF piperead, Read, Goto, acquire, ReadFails, release,
           ReadPrepare, sleep_prepare, ReadReady, ReadByte, ReadDone,
           WakeupCall, WakeWriters, wakeup, ReadReturn, WakeupDone, sleepVars,
           bufVars, endVars
  <1>3. ASSUME NEW p \in Procs, Unlock(p) \/ Sleep(p) \/ Relock(p)
       PROVE  FreeInv'
    BY <1>3, EndFacts DEF Unlock, Goto, release, Sleep, sleep, Relock, acquire,
           sleepVars, bufVars, endVars
  <1>4. ASSUME NEW p \in Procs, Close(p) PROVE FreeInv'
    BY <1>4, EndFacts DEF Close, sleepVars, bufVars, endVars
  <1>5. ASSUME NEW p \in Procs, pipeclose(p) PROVE FreeInv'
    <2>1. CASE PipeClose(p) \/ CloseWake(p) \/ Free(p)
      BY <2>1, EndFacts DEF PipeClose, Goto, acquire, WakeupCall, CloseWake,
             wakeup, Free, sleepVars, bufVars, endVars
    <2>2. CASE CloseDone(p)
      <3>1. /\ pc[p] = "closewake"
            /\ pc' = [pc EXCEPT ![p] = IF readopen \/ writeopen THEN "gone" ELSE "free"]
            /\ UNCHANGED <<readopen, writeopen>>
        BY <2>2 DEF CloseDone, Goto, endVars
      <3>2. ASSUME NEW q \in Procs, q # p
            PROVE  pc[q] \notin Holding /\ pc[q] # "free"
        BY <3>1, <3>2 DEF LockInv, Holding
      <3>3. ASSUME NEW q \in Procs, ~readopen, ~writeopen
            PROVE  q \notin refs /\ pc[q] # "close"
        BY <3>3, EndFacts DEF EndInv
      <3>4. ASSUME NEW q \in Procs, q # p, ~readopen, ~writeopen
            PROVE  pc[q] \in {"idle", "gone"}
        BY <3>2, <3>3, <3>4 DEF Holding, PCs
      <3> QED
        BY <3>1, <3>2, <3>4
    <2> QED BY <1>5, <2>1, <2>2 DEF pipeclose
  <1>6. ASSUME NEW p \in Procs, Kill(p) PROVE FreeInv'
    BY <1>6, EndFacts DEF Kill, kkill, sleepVars, bufVars, endVars
  <1>7. CASE UNCHANGED vars
    BY <1>7, EndFacts DEF vars, sleepVars, bufVars, endVars
  <1> QED BY <1>1, <1>2, <1>3, <1>4, <1>5, <1>6, <1>7 DEF Next, Step, Finished

\* and frees when nobody has a reference any more
LEMMA FreedStep ==
    ASSUME TypeOK, RoleInv, EndInv, FreeInv, FreedLast, [Next]_vars
    PROVE  FreedLast'
  <1> USE SlotFacts DEF TypeOK, RoleInv, Writing, Reading, Closing, FreeInv,
          FreedLast
  <1>1. ASSUME NEW p \in Procs, pipewrite(p) PROVE FreedLast'
    BY <1>1, EndFacts DEF pipewrite, Write, Goto, acquire, WriteFails, release,
           WriteFull, WakeupCall, WriteByte, WriteDone, WakeReaders, wakeup,
           WritePrepare, WakeupDone, sleep_prepare, WriteReturn, sleepVars,
           bufVars, endVars
  <1>2. ASSUME NEW p \in Procs, piperead(p) PROVE FreedLast'
    BY <1>2, EndFacts DEF piperead, Read, Goto, acquire, ReadFails, release,
           ReadPrepare, sleep_prepare, ReadReady, ReadByte, ReadDone,
           WakeupCall, WakeWriters, wakeup, ReadReturn, WakeupDone, sleepVars,
           bufVars, endVars
  <1>3. ASSUME NEW p \in Procs, Unlock(p) \/ Sleep(p) \/ Relock(p)
       PROVE  FreedLast'
    BY <1>3, EndFacts DEF Unlock, Goto, release, Sleep, sleep, Relock, acquire,
           sleepVars, bufVars, endVars
  <1>4. ASSUME NEW p \in Procs, Close(p) PROVE FreedLast'
    BY <1>4, EndFacts DEF Close, sleepVars, bufVars, endVars
  <1>5. ASSUME NEW p \in Procs, pipeclose(p) PROVE FreedLast'
    <2>1. CASE PipeClose(p) \/ CloseWake(p) \/ CloseDone(p)
      BY <2>1, EndFacts DEF PipeClose, Goto, acquire, WakeupCall, CloseWake,
             wakeup, CloseDone, WakeupDone, release, sleepVars, bufVars,
             endVars
    <2>2. CASE Free(p)
      <3>1. ~readopen /\ ~writeopen /\ pc[p] = "free"
        BY <2>2 DEF Free, Goto
      <3>2. \A q \in Procs : q \notin refs
        BY <3>1 DEF EndInv
      <3>3. refs = {}
        BY <3>2, EndFacts
      <3> QED
        BY <2>2, <3>1, <3>3 DEF Free, Goto, endVars
    <2> QED BY <1>5, <2>1, <2>2 DEF pipeclose
  <1>6. ASSUME NEW p \in Procs, Kill(p) PROVE FreedLast'
    BY <1>6, EndFacts DEF Kill, kkill, sleepVars, bufVars, endVars
  <1>7. CASE UNCHANGED vars
    BY <1>7, EndFacts DEF vars, sleepVars, bufVars, endVars
  <1> QED BY <1>1, <1>2, <1>3, <1>4, <1>5, <1>6, <1>7 DEF Next, Step, Finished

-----------------------------------------------------------------------------
(* The contents of the ring *)

LEMMA SeqOf ==
    ASSUME NEW S, NEW n \in Nat, NEW f \in [1..n -> S]
    PROVE  f \in Seq(S) /\ Len(f) = n
  OBVIOUS

Queue == [i \in 1..Held |-> data[(nread + i - 1) % PIPESIZE]]

\* the queue as the sequence it is
LEMMA QueueFacts ==
    ASSUME TypeOK
    PROVE  /\ Queue \in [1..Held -> Bytes]
           /\ Queue \in Seq(Bytes) /\ Len(Queue) = Held
           /\ \A i \in 1..Held : Queue[i] = data[(nread + i - 1) % PIPESIZE]
  <1>1. PIPESIZE \in Nat \ {0} /\ nread \in Int /\ Held \in Nat
        /\ data \in [0..(PIPESIZE - 1) -> Bytes]
    BY SizeAssumption, IndexFacts DEF SizeAssumption, TypeOK
  <1>2. ASSUME NEW i \in 1..Held PROVE data[(nread + i - 1) % PIPESIZE] \in Bytes
    <2>1. nread + i - 1 \in Int
      BY <1>1
    <2>2. (nread + i - 1) % PIPESIZE \in 0..(PIPESIZE - 1)
      BY <1>1, <2>1, DivMod
    <2> QED
      BY <1>1, <2>2
  <1>3. Queue \in [1..Held -> Bytes]
    BY <1>2 DEF Queue
  <1> QED
    BY <1>1, <1>3, SeqOf DEF Queue

\* an index that has wrapped names the slot it would have named
LEMMA SameSlot ==
    ASSUME NEW a \in Int
    PROVE  (a - Wrap) % PIPESIZE = a % PIPESIZE
  <1>1. PIPESIZE \in Nat \ {0} /\ Wrap \in Int /\ Wrap % PIPESIZE = 0
    BY SizeAssumption DEF SizeAssumption
  <1>2. PICK k \in Int : Wrap = PIPESIZE * k
    <2>1. /\ Wrap \div PIPESIZE \in Int
          /\ Wrap = PIPESIZE * (Wrap \div PIPESIZE) + (Wrap % PIPESIZE)
      BY <1>1, DivMod
    <2>2. Wrap = PIPESIZE * (Wrap \div PIPESIZE)
      BY <1>1, <2>1
    <2> QED
      BY <2>1, <2>2
  <1>3. -k \in Int /\ a - Wrap = a + PIPESIZE * (-k)
    BY <1>1, <1>2
  <1> QED
    BY <1>1, <1>3, ModShift

\* the first free slot is the one after the last byte, and no byte's
LEMMA NextFree ==
    ASSUME TypeOK
    PROVE  /\ nwrite % PIPESIZE = (nread + Held) % PIPESIZE
           /\ ~Full => \A i \in 1..Held :
                          (nread + i - 1) % PIPESIZE # nwrite % PIPESIZE
  <1>1. /\ PIPESIZE \in Nat \ {0} /\ nread \in Int /\ nwrite \in Int /\ Held \in 0..PIPESIZE
        /\ Wrap \in Int
    BY SizeAssumption, IndexFacts DEF SizeAssumption, TypeOK
  <1>2. nwrite % PIPESIZE = (nread + Held) % PIPESIZE
    <2>1. PICK a \in Int : a = nread + Held
      BY <1>1
    <2>2. nwrite = a \/ nwrite = a - Wrap
      BY <1>1, <2>1, IndexFacts
    <2> QED
      BY <2>1, <2>2, SameSlot
  <1>3. ASSUME ~Full, NEW i \in 1..Held
        PROVE  (nread + i - 1) % PIPESIZE # (nread + Held) % PIPESIZE
    <2>1. /\ nread + i - 1 \in Int /\ nread + Held \in Int
          /\ 0 < (nread + Held) - (nread + i - 1)
          /\ (nread + Held) - (nread + i - 1) < PIPESIZE
      BY <1>1, <1>3, IndexFacts
    <2> QED
      BY <1>1, <2>1, ModDistinct
  <1> QED
    BY <1>2, <1>3

LEMMA WriteByteAppends ==
    ASSUME TypeOK, NEW b \in Bytes, ~Full,
           data' = [data EXCEPT ![nwrite % PIPESIZE] = b],
           nwrite' = (nwrite + 1) % Wrap, nread' = nread
    PROVE  Queue' = Append(Queue, b)
  <1>1. /\ Held' = Held + 1 /\ Held \in Nat /\ nread \in Int
        /\ data \in [0..(PIPESIZE - 1) -> Bytes]
    BY Advance, IndexFacts, SizeAssumption DEF SizeAssumption, TypeOK
  <1>2. ASSUME NEW i \in 1..Held PROVE data'[(nread + i - 1) % PIPESIZE] = Queue[i]
    <2>1. nread + i - 1 \in Int /\ PIPESIZE \in Nat \ {0}
      BY <1>1, SizeAssumption DEF SizeAssumption
    <2>2. (nread + i - 1) % PIPESIZE \in 0..(PIPESIZE - 1)
      BY <2>1, DivMod
    <2>3. (nread + i - 1) % PIPESIZE # nwrite % PIPESIZE
      BY NextFree
    <2> QED
      BY <1>1, <2>2, <2>3, QueueFacts
  <1>3. data'[(nread + (Held + 1) - 1) % PIPESIZE] = b
    <2>1. nread + (Held + 1) - 1 = nread + Held
      BY <1>1
    <2> QED
      BY <1>1, <2>1, NextFree, SlotOf
  <1>4. Queue' = [i \in 1..(Held + 1) |-> data'[(nread + i - 1) % PIPESIZE]]
    BY <1>1 DEF Queue
  <1>5. /\ Queue' \in [1..(Held + 1) -> Bytes]
        /\ \A i \in 1..Held : Queue'[i] = Queue[i]
        /\ Queue'[Held + 1] = b
    <2>1. \A i \in 1..Held : Queue'[i] = Queue[i] /\ Queue[i] \in Bytes
      BY <1>1, <1>2, <1>4, QueueFacts
    <2>2. Queue'[Held + 1] = b
      BY <1>1, <1>3, <1>4
    <2>3. \A i \in 1..(Held + 1) : Queue'[i] \in Bytes
      BY <1>1, <2>1, <2>2
    <2> QED
      BY <1>4, <2>1, <2>2, <2>3
  <1>6. Queue' \in Seq(Bytes) /\ Len(Queue') = Held + 1
    BY <1>1, <1>5, SeqOf
  <1>7. /\ Append(Queue, b) \in Seq(Bytes) /\ Len(Append(Queue, b)) = Held + 1
        /\ \A i \in 1..Held : Append(Queue, b)[i] = Queue[i]
        /\ Append(Queue, b)[Held + 1] = b
    BY QueueFacts, AppendProperties
  <1> QED
    BY <1>1, <1>5, <1>6, <1>7, SeqEqual

LEMMA ReadByteTakesHead ==
    ASSUME TypeOK, ~Empty, data' = data,
           nread' = (nread + 1) % Wrap, nwrite' = nwrite
    PROVE  /\ Queue # <<>> /\ Head(Queue) = data[nread % PIPESIZE]
           /\ Queue' = Tail(Queue)
  <1>1. /\ Held' = Held - 1 /\ Held \in Nat \ {0} /\ nread \in Int /\ nread' \in Int
        /\ data \in [0..(PIPESIZE - 1) -> Bytes]
        /\ Wrap \in Int /\ (nread' = nread + 1 \/ nread' = nread + 1 - Wrap)
    BY Advance, IndexFacts, SizeAssumption DEF SizeAssumption, TypeOK
  <1>2. Queue # <<>> /\ Head(Queue) = data[nread % PIPESIZE]
    <2>1. nread + 1 - 1 = nread
      BY <1>1
    <2> QED
      BY <1>1, <2>1, QueueFacts
  <1>3. ASSUME NEW i \in 1..(Held - 1)
        PROVE  (nread' + i - 1) % PIPESIZE = (nread + (i + 1) - 1) % PIPESIZE
    <2>1. nread + (i + 1) - 1 \in Int
          /\ \/ nread' + i - 1 = nread + (i + 1) - 1
             \/ nread' + i - 1 = (nread + (i + 1) - 1) - Wrap
      BY <1>1
    <2> QED
      BY <2>1, SameSlot
  <1>4. Queue' = [i \in 1..(Held - 1) |-> data[(nread' + i - 1) % PIPESIZE]]
    BY <1>1 DEF Queue
  <1>5. ASSUME NEW i \in 1..(Held - 1)
        PROVE  Queue'[i] = Queue[i + 1] /\ Queue[i + 1] \in Bytes
    BY <1>1, <1>3, <1>4, QueueFacts
  <1>6. Queue' \in Seq(Bytes) /\ Len(Queue') = Held - 1
    <2>1. Queue' \in [1..(Held - 1) -> Bytes]
      BY <1>4, <1>5
    <2> QED
      BY <1>1, <2>1, SeqOf
  <1>7. /\ Tail(Queue) \in Seq(Bytes) /\ Len(Tail(Queue)) = Held - 1
        /\ \A i \in 1..(Held - 1) : Tail(Queue)[i] = Queue[i + 1]
    BY <1>2, QueueFacts, HeadTailProperties
  <1> QED
    BY <1>2, <1>5, <1>6, <1>7, SeqEqual

-----------------------------------------------------------------------------
(* Who sleeps, and what for *)

\* whoever sleeps is in one of the two loops and will be found by wakeup()
SleepInv == \A p \in Procs :
    /\ state[p] = "SLEEPING" => \/ pc[p] = "rasleep" /\ chan[p] = Nread
                                \/ pc[p] = "wasleep" /\ chan[p] = Nwrite
    /\ pc[p] \in {"runlock", "rsleep"} => chan[p] \in {NoChan, Nread}
    /\ pc[p] \in {"wunlock", "wsleep"} => chan[p] \in {NoChan, Nwrite}

\* a writer that wakes the readers before it sleeps keeps the pipe full
FullInv == \A p \in Procs : pc[p] = "wfull" => Full /\ readopen

\* a sleeper is in one of the loops, with the channel of that loop
LEMMA SleepStep ==
    ASSUME TypeOK, SleepInv, [Next]_vars
    PROVE  SleepInv'
  <1> USE SlotFacts DEF TypeOK, SleepInv, NoChan, Nread, Nwrite
  <1>1. ASSUME NEW p \in Procs, pipewrite(p) PROVE SleepInv'
    <2>1. CASE Write(p) \/ WriteFails(p) \/ WriteFull(p) \/ WriteByte(p) \/
           WriteDone(p) \/ WriteReturn(p)
      BY <2>1 DEF Write, Goto, acquire, WriteFails, release, WriteFull,
             WakeupCall, WriteByte, WriteDone, WriteReturn, WakeupDone,
             sleepVars, bufVars, endVars
    <2>2. CASE WakeReaders(p)
      BY <2>2 DEF WakeReaders, wakeup, sleepVars, bufVars, endVars
    <2>3. CASE WritePrepare(p)
      BY <2>3 DEF WritePrepare, Goto, WakeupDone, sleep_prepare, sleepVars,
             bufVars, endVars
    <2> QED BY <1>1, <2>1, <2>2, <2>3 DEF pipewrite
  <1>2. ASSUME NEW p \in Procs, piperead(p) PROVE SleepInv'
    <2>1. CASE Read(p) \/ ReadFails(p) \/ ReadReady(p) \/ ReadByte(p) \/
           ReadDone(p) \/ ReadReturn(p)
      BY <2>1 DEF Read, Goto, acquire, ReadFails, release, ReadReady, ReadByte,
             ReadDone, WakeupCall, ReadReturn, WakeupDone, sleepVars, bufVars,
             endVars
    <2>2. CASE ReadPrepare(p)
      BY <2>2 DEF ReadPrepare, Goto, sleep_prepare, sleepVars, bufVars, endVars
    <2>3. CASE WakeWriters(p)
      BY <2>3 DEF WakeWriters, wakeup, sleepVars, bufVars, endVars
    <2> QED BY <1>2, <2>1, <2>2, <2>3 DEF piperead
  <1>3. ASSUME NEW p \in Procs, Unlock(p) \/ Sleep(p) \/ Relock(p)
       PROVE  SleepInv'
    BY <1>3 DEF Unlock, Goto, release, Sleep, sleep, Relock, acquire,
           sleepVars, bufVars, endVars
  <1>4. ASSUME NEW p \in Procs, Close(p) PROVE SleepInv'
    BY <1>4 DEF Close, sleepVars, bufVars, endVars
  <1>5. ASSUME NEW p \in Procs, pipeclose(p) PROVE SleepInv'
    BY <1>5 DEF pipeclose, PipeClose, Goto, acquire, WakeupCall, CloseWake,
           wakeup, CloseDone, WakeupDone, release, Free, sleepVars, bufVars,
           endVars
  <1>6. ASSUME NEW p \in Procs, Kill(p) PROVE SleepInv'
    BY <1>6 DEF Kill, kkill, sleepVars, bufVars, endVars
  <1>7. CASE UNCHANGED vars
    BY <1>7 DEF vars, sleepVars, bufVars, endVars
  <1> QED BY <1>1, <1>2, <1>3, <1>4, <1>5, <1>6, <1>7 DEF Next, Step, Finished

\* nobody reads or closes between the test for a full pipe and sleep_prepare()
LEMMA FullStep ==
    ASSUME TypeOK, LockInv, FullInv, [Next]_vars
    PROVE  FullInv'
  <1> USE SlotFacts DEF TypeOK, LockInv, Holding, FullInv, Full
  <1>1. ASSUME NEW p \in Procs, pipewrite(p) PROVE FullInv'
    BY <1>1 DEF pipewrite, Write, Goto, acquire, WriteFails, release,
           WriteFull, WakeupCall, WriteByte, WriteDone, WakeReaders, wakeup,
           WritePrepare, WakeupDone, sleep_prepare, WriteReturn, sleepVars,
           bufVars, endVars
  <1>2. ASSUME NEW p \in Procs, piperead(p) PROVE FullInv'
    BY <1>2 DEF piperead, Read, Goto, acquire, ReadFails, release, ReadPrepare,
           sleep_prepare, ReadReady, ReadByte, ReadDone, WakeupCall,
           WakeWriters, wakeup, ReadReturn, WakeupDone, sleepVars, bufVars,
           endVars
  <1>3. ASSUME NEW p \in Procs, Unlock(p) \/ Sleep(p) \/ Relock(p)
       PROVE  FullInv'
    BY <1>3 DEF Unlock, Goto, release, Sleep, sleep, Relock, acquire,
           sleepVars, bufVars, endVars
  <1>4. ASSUME NEW p \in Procs, Close(p) PROVE FullInv'
    BY <1>4 DEF Close, sleepVars, bufVars, endVars
  <1>5. ASSUME NEW p \in Procs, pipeclose(p) PROVE FullInv'
    BY <1>5 DEF pipeclose, PipeClose, Goto, acquire, WakeupCall, CloseWake,
           wakeup, CloseDone, WakeupDone, release, Free, sleepVars, bufVars,
           endVars
  <1>6. ASSUME NEW p \in Procs, Kill(p) PROVE FullInv'
    BY <1>6 DEF Kill, kkill, sleepVars, bufVars, endVars
  <1>7. CASE UNCHANGED vars
    BY <1>7 DEF vars, sleepVars, bufVars, endVars
  <1> QED BY <1>1, <1>2, <1>3, <1>4, <1>5, <1>6, <1>7 DEF Next, Step, Finished

\* p has registered its channel, and is asleep or will be unless woken up
Waits(p) == \/ pc[p] \in {"runlock", "rsleep", "wunlock", "wsleep"} /\ chan[p] # NoChan
            \/ state[p] = "SLEEPING"

\* somebody of the other end is in a section that will wake p
WakeComes(p) == \E w \in Writers :
    pc[w] \in {"wfull", "wwake", "closewake"} /\ scan[w] <= p
ReaderComes(p) == \E r \in Readers :
    \/ pc[r] = "copy"
    \/ pc[r] \in {"rwake", "closewake"} /\ scan[r] <= p

\* nothing was put since the last wakeup() of the readers began; or what was, was
\* put by the writer that is in its loop, or by one that was killed
Unsaid == writeopen /\ (Empty \/ (quiet # 0 /\ (killed[quiet] \/ pc[quiet] = "write")))

ReaderInv == \A r \in Readers : Waits(r) => Unsaid \/ WakeComes(r)
WriterInv == \A w \in Writers : Waits(w) => (Full /\ readopen) \/ ReaderComes(w)

\* a reader that waits has nothing to read, or a wakeup() is coming to it
LEMMA ReaderStep ==
    ASSUME TypeOK, LockInv, RoleInv, EndInv, SleepInv, ReaderInv, NEW q
           \in Readers, Waits(q)', [Next]_vars
    PROVE  Unsaid' \/ WakeComes(q)'
  <1> USE SlotFacts DEF TypeOK, RoleInv, Writing, Reading, Closing,
          WakeComes, Unsaid, Empty, SleepInv, NoChan, Nread, Nwrite, Waits
  <1>0. /\ q \in Procs /\ q \notin Writers
        /\ Waits(q) => Unsaid \/ WakeComes(q)
    BY EndFacts DEF ReaderInv
  <1>1. ASSUME NEW p \in Procs, pipewrite(p)
       PROVE  Unsaid' \/ WakeComes(q)'
    <2>1. CASE Write(p) \/ WriteFull(p) \/ WriteByte(p) \/ WriteDone(p)
      <3>1. CASE Write(p)
        BY <3>1, EndFacts, <1>0 DEF Write, Goto, acquire, sleepVars, bufVars, endVars
      <3>2. CASE WriteFull(p) \/ WriteDone(p)
        <4>1. pc'[p] \in {"wfull", "wwake"} /\ scan'[p] = 1 /\ p \in Writers
          BY <3>2, EndFacts DEF WriteFull, WriteDone, Goto, WakeupCall
        <4> QED
          BY <4>1, <1>0
      <3>3. CASE WriteByte(p)
        <4>1. /\ pc' = pc /\ pc[p] = "write" /\ quiet' = p
              /\ UNCHANGED writeopen /\ p \in refs /\ p \in Writers
          BY <3>3 DEF WriteByte, endVars
        <4>2. p # 0 /\ writeopen
          BY <4>1 DEF EndInv
        <4> QED
          BY <4>1, <4>2
      <3> QED
        BY <2>1, <3>1, <3>2, <3>3
    <2>2. CASE WriteFails(p)
      <3>1. /\ pc[p] = "write" /\ pc' = [pc EXCEPT ![p] = "idle"]
            /\ ~readopen \/ killed[p]
            /\ UNCHANGED <<state, chan, killed, scan, nread, nwrite, quiet, writeopen>>
        BY <2>2 DEF WriteFails, Goto, sleepVars, bufVars, endVars
      <3>2. Waits(q) /\ pc[q] \in Reading
        BY <3>1, <1>0
      <3>3. readopen
        BY <3>2, <1>0 DEF EndInv
      <3>4. CASE Unsaid
        BY <3>1, <3>3, <3>4
      <3>5. CASE WakeComes(q)
        BY <3>1, <3>5, EndFacts
      <3> QED
        BY <3>2, <3>4, <3>5, <1>0
    <2>3. CASE WakeReaders(p)
      <3>0. /\ pc' = pc /\ UNCHANGED <<nread, nwrite, quiet, killed, readopen, writeopen>>
            /\ scan[p] \in Procs /\ scan' = [scan EXCEPT ![p] = scan[p] + 1]
            /\ chan' = IF chan[scan[p]] = Nread THEN [chan EXCEPT ![scan[p]] = NoChan] ELSE chan
            /\ state' = IF chan[scan[p]] = Nread /\ state[scan[p]] = "SLEEPING"
                        THEN [state EXCEPT ![scan[p]] = "RUNNABLE"] ELSE state
        BY <2>3 DEF WakeReaders, wakeup, bufVars, endVars
      <3>1. CASE q = scan[p]
        BY <3>0, <3>1, <1>0, EndFacts
      <3>2. CASE q # scan[p]
        <4>1. Waits(q)
          BY <3>0, <3>2, <1>0
        <4>2. \A w \in Writers : scan[w] <= q => scan'[w] <= q
          BY <3>0, <3>2, <1>0, EndFacts
        <4> QED
          BY <3>0, <1>0, <4>1, <4>2
      <3> QED
        BY <3>1, <3>2
    <2>4. CASE WritePrepare(p)
      BY <2>4, EndFacts, <1>0 DEF WritePrepare, Goto, WakeupDone,
             sleep_prepare, sleepVars, bufVars, endVars
    <2>5. CASE WriteReturn(p)
      BY <2>5, EndFacts, <1>0 DEF WriteReturn, Goto, WakeupDone, release,
             sleepVars, bufVars, endVars
    <2> QED BY <1>1, <2>1, <2>2, <2>3, <2>4, <2>5 DEF pipewrite
  <1>2. ASSUME NEW p \in Procs, piperead(p)
       PROVE  Unsaid' \/ WakeComes(q)'
    <2>1. CASE Read(p)
      BY <2>1, EndFacts, <1>0 DEF Read, Goto, acquire, sleepVars, bufVars,
             endVars
    <2>2. CASE ReadFails(p)
      BY <2>2, EndFacts, <1>0 DEF ReadFails, Goto, release, sleepVars, bufVars,
             endVars
    <2>3. CASE ReadPrepare(p)
      BY <2>3, EndFacts, <1>0 DEF ReadPrepare, Goto, sleep_prepare, sleepVars,
             bufVars, endVars
    <2>4. CASE ReadReady(p)
      BY <2>4, EndFacts, <1>0 DEF ReadReady, Goto, sleepVars, bufVars, endVars
    <2>5. CASE ReadByte(p)
      BY <2>5, EndFacts, <1>0 DEF ReadByte, sleepVars, bufVars, endVars
    <2>6. CASE ReadDone(p)
      BY <2>6, EndFacts, <1>0 DEF ReadDone, Goto, WakeupCall, sleepVars,
             bufVars, endVars
    <2>7. CASE WakeWriters(p)
      <3>0. /\ pc' = pc /\ UNCHANGED <<nread, nwrite, quiet, killed, readopen, writeopen>>
            /\ \A w \in Writers : scan'[w] = scan[w]
            /\ Waits(q) /\ scan[p] \in Procs
        BY <2>7, <1>0, EndFacts DEF WakeWriters, wakeup, bufVars, endVars
      <3> QED
        BY <3>0, <1>0
    <2>8. CASE ReadReturn(p)
      BY <2>8, EndFacts, <1>0 DEF ReadReturn, Goto, WakeupDone, release,
             sleepVars, bufVars, endVars
    <2> QED BY <1>2, <2>1, <2>2, <2>3, <2>4, <2>5, <2>6, <2>7, <2>8 DEF
           piperead
  <1>3. ASSUME NEW p \in Procs, Unlock(p) \/ Sleep(p) \/ Relock(p)
       PROVE  Unsaid' \/ WakeComes(q)'
    <2>1. /\ UNCHANGED <<killed, scan, nread, nwrite, quiet, writeopen>>
          /\ Waits(q)
      BY <1>3, <1>0 DEF Unlock, Sleep, Relock, Goto, release, acquire, sleep,
                       sleepVars, bufVars, endVars
    <2>2. \A w \in Procs : /\ pc[w] = "write" => pc'[w] = "write"
                           /\ pc[w] \in {"wfull", "wwake", "closewake"} => pc'[w] = pc[w]
      BY <1>3 DEF Unlock, Sleep, Relock, Goto
    <2>3. CASE Unsaid
      <3>1. quiet # 0 => quiet \in Procs
        BY DEF Procs
      <3> QED
        BY <2>1, <2>2, <2>3, <3>1
    <2>4. CASE WakeComes(q)
      BY <2>1, <2>2, <2>4, EndFacts
    <2> QED BY <2>1, <2>3, <2>4, <1>0
  <1>4. ASSUME NEW p \in Procs, Close(p)
       PROVE  Unsaid' \/ WakeComes(q)'
    BY <1>4, EndFacts, <1>0 DEF Close, sleepVars, bufVars, endVars
  <1>5. ASSUME NEW p \in Procs, pipeclose(p)
       PROVE  Unsaid' \/ WakeComes(q)'
    <2>1. CASE Free(p)
      BY <2>1, EndFacts, <1>0 DEF Free, Goto, sleepVars, bufVars, endVars
    <2>2. CASE PipeClose(p)
      BY <2>2, EndFacts, <1>0 DEF PipeClose, Goto, acquire, WakeupCall,
             sleepVars, bufVars, endVars
    <2>3. CASE CloseWake(p)
      <3>a. CASE p \in Writers
        <4>0. /\ pc' = pc /\ UNCHANGED <<nread, nwrite, quiet, killed, readopen, writeopen>>
              /\ scan[p] \in Procs /\ scan' = [scan EXCEPT ![p] = scan[p] + 1]
              /\ chan' = IF chan[scan[p]] = Nread THEN [chan EXCEPT ![scan[p]] = NoChan] ELSE chan
              /\ state' = IF chan[scan[p]] = Nread /\ state[scan[p]] = "SLEEPING"
                          THEN [state EXCEPT ![scan[p]] = "RUNNABLE"] ELSE state
          BY <2>3, <3>a DEF CloseWake, wakeup, bufVars, endVars
        <4>1. CASE q = scan[p]
          BY <4>0, <4>1, <1>0, EndFacts
        <4>2. CASE q # scan[p]
          <5>1. Waits(q)
            BY <4>0, <4>2, <1>0
          <5>2. \A w \in Writers : scan[w] <= q => scan'[w] <= q
            BY <4>0, <4>2, <1>0, EndFacts
          <5> QED
            BY <4>0, <1>0, <5>1, <5>2
        <4> QED
          BY <4>1, <4>2
      <3>b. CASE p \notin Writers
        <4>0. /\ pc' = pc /\ UNCHANGED <<nread, nwrite, quiet, killed, readopen, writeopen>>
              /\ \A w \in Writers : scan'[w] = scan[w]
              /\ Waits(q) /\ scan[p] \in Procs
          <5>1. /\ pc' = pc /\ UNCHANGED <<nread, nwrite, quiet, killed, readopen, writeopen>>
                /\ scan[p] \in Procs /\ scan' = [scan EXCEPT ![p] = scan[p] + 1]
                /\ chan' = IF chan[scan[p]] = Nwrite THEN [chan EXCEPT ![scan[p]] = NoChan] ELSE chan
                /\ state' = IF chan[scan[p]] = Nwrite /\ state[scan[p]] = "SLEEPING"
                            THEN [state EXCEPT ![scan[p]] = "RUNNABLE"] ELSE state
            BY <2>3, <3>b DEF CloseWake, wakeup, bufVars, endVars
          <5>2. \A w \in Writers : scan'[w] = scan[w]
            BY <5>1, <3>b, EndFacts
          <5>3. Waits(q)
            BY <5>1, <1>0, EndFacts
          <5> QED
            BY <5>1, <5>2, <5>3
        <4> QED
          BY <4>0, <1>0
      <3> QED
        BY <3>a, <3>b
    <2>4. CASE CloseDone(p)
      BY <2>4, EndFacts, <1>0 DEF CloseDone, Goto, WakeupDone, release,
             sleepVars, bufVars, endVars
    <2> QED BY <1>5, <2>1, <2>2, <2>3, <2>4 DEF pipeclose
  <1>6. ASSUME NEW p \in Procs, Kill(p)
       PROVE  Unsaid' \/ WakeComes(q)'
    BY <1>6, EndFacts, <1>0 DEF Kill, kkill, sleepVars, bufVars, endVars
  <1>7. CASE UNCHANGED vars
    BY <1>7, EndFacts, <1>0 DEF vars, sleepVars, bufVars, endVars
  <1> QED BY <1>1, <1>2, <1>3, <1>4, <1>5, <1>6, <1>7 DEF Next, Step, Finished

\* a writer that waits has no room, or a wakeup() is coming to it
LEMMA WriterStep ==
    ASSUME TypeOK, LockInv, RoleInv, EndInv, SleepInv, FullInv, WriterInv, NEW
           q \in Writers, Waits(q)', [Next]_vars
    PROVE  (Full /\ readopen)' \/ ReaderComes(q)'
  <1> USE SlotFacts DEF TypeOK, RoleInv, Writing, Reading, Closing,
          ReaderComes, Full, SleepInv, NoChan, Nread, Nwrite, Waits
  <1>0. /\ q \in Procs /\ q \notin Readers
        /\ Waits(q) => (Full /\ readopen) \/ ReaderComes(q)
    BY EndFacts DEF WriterInv
  <1>1. ASSUME NEW p \in Procs, pipewrite(p)
       PROVE  (Full /\ readopen)' \/ ReaderComes(q)'
    <2>1. CASE Write(p)
      BY <2>1, EndFacts, <1>0 DEF Write, Goto, acquire, sleepVars, bufVars,
             endVars
    <2>2. CASE WriteFails(p)
      BY <2>2, EndFacts, <1>0 DEF WriteFails, Goto, release, sleepVars,
             bufVars, endVars
    <2>3. CASE WriteFull(p)
      BY <2>3, EndFacts, <1>0 DEF WriteFull, Goto, WakeupCall, sleepVars,
             bufVars, endVars
    <2>4. CASE WriteByte(p)
      BY <2>4, EndFacts, <1>0 DEF WriteByte, sleepVars, bufVars, endVars
    <2>5. CASE WriteDone(p)
      BY <2>5, EndFacts, <1>0 DEF WriteDone, Goto, WakeupCall, sleepVars,
             bufVars, endVars
    <2>6. CASE WakeReaders(p)
      <3>0. /\ pc' = pc /\ UNCHANGED <<nread, nwrite, readopen, writeopen>>
            /\ \A w \in Readers : scan'[w] = scan[w]
            /\ Waits(q) /\ scan[p] \in Procs
        BY <2>6, <1>0, EndFacts DEF WakeReaders, wakeup, bufVars, endVars
      <3> QED
        BY <3>0, <1>0
    <2>7. CASE WritePrepare(p)
      <3>1. (Waits(q) \/ q = p) /\ (pc[p] = "wfull" => Full /\ readopen)
        BY <2>7, <1>0 DEF WritePrepare, Goto, sleep_prepare, FullInv
      <3> QED
        BY <2>7, <3>1, <1>0, EndFacts DEF WritePrepare, Goto, sleep_prepare, bufVars, endVars
    <2>8. CASE WriteReturn(p)
      BY <2>8, EndFacts, <1>0 DEF WriteReturn, Goto, WakeupDone, release,
             sleepVars, bufVars, endVars
    <2> QED BY <1>1, <2>1, <2>2, <2>3, <2>4, <2>5, <2>6, <2>7, <2>8 DEF
           pipewrite
  <1>2. ASSUME NEW p \in Procs, piperead(p)
       PROVE  (Full /\ readopen)' \/ ReaderComes(q)'
    <2>1. CASE Read(p)
      BY <2>1, EndFacts, <1>0 DEF Read, Goto, acquire, sleepVars, bufVars,
             endVars
    <2>2. CASE ReadFails(p)
      BY <2>2, EndFacts, <1>0 DEF ReadFails, Goto, release, sleepVars, bufVars,
             endVars
    <2>3. CASE ReadPrepare(p)
      BY <2>3, EndFacts, <1>0 DEF ReadPrepare, Goto, sleep_prepare, sleepVars,
             bufVars, endVars
    <2>4. CASE ReadReady(p)
      BY <2>4, EndFacts, <1>0 DEF ReadReady, Goto, sleepVars, bufVars, endVars
    <2>5. CASE ReadByte(p)
      BY <2>5, EndFacts, <1>0 DEF ReadByte, sleepVars, bufVars, endVars
    <2>6. CASE ReadDone(p)
      BY <2>6, EndFacts, <1>0 DEF ReadDone, Goto, WakeupCall, sleepVars,
             bufVars, endVars
    <2>7. CASE WakeWriters(p)
      <3>0. /\ pc' = pc /\ UNCHANGED <<nread, nwrite, readopen, writeopen>>
            /\ scan[p] \in Procs /\ scan' = [scan EXCEPT ![p] = scan[p] + 1]
            /\ chan' = IF chan[scan[p]] = Nwrite THEN [chan EXCEPT ![scan[p]] = NoChan] ELSE chan
            /\ state' = IF chan[scan[p]] = Nwrite /\ state[scan[p]] = "SLEEPING"
                        THEN [state EXCEPT ![scan[p]] = "RUNNABLE"] ELSE state
        BY <2>7 DEF WakeWriters, wakeup, bufVars, endVars
      <3>1. CASE q = scan[p]
        BY <3>0, <3>1, <1>0, EndFacts
      <3>2. CASE q # scan[p]
        <4>1. Waits(q)
          BY <3>0, <3>2, <1>0
        <4>2. \A w \in Readers : scan[w] <= q => scan'[w] <= q
          BY <3>0, <3>2, <1>0, EndFacts
        <4> QED
          BY <3>0, <1>0, <4>1, <4>2
      <3> QED
        BY <3>1, <3>2
    <2>8. CASE ReadReturn(p)
      BY <2>8, EndFacts, <1>0 DEF ReadReturn, Goto, WakeupDone, release,
             sleepVars, bufVars, endVars
    <2> QED BY <1>2, <2>1, <2>2, <2>3, <2>4, <2>5, <2>6, <2>7, <2>8 DEF
           piperead
  <1>3. ASSUME NEW p \in Procs, Unlock(p) \/ Sleep(p) \/ Relock(p)
       PROVE  (Full /\ readopen)' \/ ReaderComes(q)'
    <2>1. CASE Unlock(p)
      BY <2>1, EndFacts, <1>0 DEF Unlock, Goto, release, sleepVars, bufVars,
             endVars
    <2>2. CASE Sleep(p)
      BY <2>2, EndFacts, <1>0 DEF Sleep, Goto, sleep, sleepVars, bufVars,
             endVars
    <2>3. CASE Relock(p)
      BY <2>3, EndFacts, <1>0 DEF Relock, Goto, acquire, sleepVars, bufVars,
             endVars
    <2> QED BY <1>3, <2>1, <2>2, <2>3
  <1>4. ASSUME NEW p \in Procs, Close(p)
       PROVE  (Full /\ readopen)' \/ ReaderComes(q)'
    BY <1>4, EndFacts, <1>0 DEF Close, sleepVars, bufVars, endVars
  <1>5. ASSUME NEW p \in Procs, pipeclose(p)
       PROVE  (Full /\ readopen)' \/ ReaderComes(q)'
    <2>1. CASE Free(p)
      BY <2>1, EndFacts, <1>0 DEF Free, Goto, sleepVars, bufVars, endVars
    <2>2. CASE PipeClose(p)
      BY <2>2, EndFacts, <1>0 DEF PipeClose, Goto, acquire, WakeupCall,
             sleepVars, bufVars, endVars
    <2>3. CASE CloseWake(p)
      <3>a. CASE p \in Readers
        <4>0. /\ pc' = pc /\ UNCHANGED <<nread, nwrite, readopen, writeopen>>
              /\ scan[p] \in Procs /\ scan' = [scan EXCEPT ![p] = scan[p] + 1]
              /\ chan' = IF chan[scan[p]] = Nwrite THEN [chan EXCEPT ![scan[p]] = NoChan] ELSE chan
              /\ state' = IF chan[scan[p]] = Nwrite /\ state[scan[p]] = "SLEEPING"
                          THEN [state EXCEPT ![scan[p]] = "RUNNABLE"] ELSE state
          BY <2>3, <3>a, EndFacts DEF CloseWake, wakeup, bufVars, endVars
        <4>1. CASE q = scan[p]
          BY <4>0, <4>1, <1>0, EndFacts
        <4>2. CASE q # scan[p]
          <5>1. Waits(q)
            BY <4>0, <4>2, <1>0
          <5>2. \A w \in Readers : scan[w] <= q => scan'[w] <= q
            BY <4>0, <4>2, <1>0, EndFacts
          <5> QED
            BY <4>0, <1>0, <5>1, <5>2
        <4> QED
          BY <4>1, <4>2
      <3>b. CASE p \notin Readers
        <4>a. p \in Writers
          BY <2>3, <3>b DEF CloseWake
        <4>0. /\ pc' = pc /\ UNCHANGED <<nread, nwrite, readopen, writeopen>>
              /\ \A w \in Readers : scan'[w] = scan[w]
              /\ Waits(q) /\ scan[p] \in Procs
          <5>1. /\ pc' = pc /\ UNCHANGED <<nread, nwrite, readopen, writeopen>>
                /\ scan[p] \in Procs /\ scan' = [scan EXCEPT ![p] = scan[p] + 1]
                /\ chan' = IF chan[scan[p]] = Nread THEN [chan EXCEPT ![scan[p]] = NoChan] ELSE chan
                /\ state' = IF chan[scan[p]] = Nread /\ state[scan[p]] = "SLEEPING"
                            THEN [state EXCEPT ![scan[p]] = "RUNNABLE"] ELSE state
            BY <2>3, <4>a DEF CloseWake, wakeup, bufVars, endVars
          <5>2. \A w \in Readers : scan'[w] = scan[w]
            BY <5>1, <3>b, EndFacts
          <5>3. Waits(q)
            BY <5>1, <1>0, EndFacts
          <5> QED
            BY <5>1, <5>2, <5>3
        <4> QED
          BY <4>0, <1>0
      <3> QED
        BY <3>a, <3>b
    <2>4. CASE CloseDone(p)
      BY <2>4, EndFacts, <1>0 DEF CloseDone, Goto, WakeupDone, release,
             sleepVars, bufVars, endVars
    <2> QED BY <1>5, <2>1, <2>2, <2>3, <2>4 DEF pipeclose
  <1>6. ASSUME NEW p \in Procs, Kill(p)
       PROVE  (Full /\ readopen)' \/ ReaderComes(q)'
    BY <1>6, EndFacts, <1>0 DEF Kill, kkill, sleepVars, bufVars, endVars
  <1>7. CASE UNCHANGED vars
    BY <1>7, EndFacts, <1>0 DEF vars, sleepVars, bufVars, endVars
  <1> QED BY <1>1, <1>2, <1>3, <1>4, <1>5, <1>6, <1>7 DEF Next, Step, Finished

\* a step puts a byte into the queue, takes one out, or does neither
Refines ==
    \/ UNCHANGED <<Queue, got>>
    \/ \E b \in Bytes : /\ Len(Queue) < PIPESIZE /\ Queue' = Append(Queue, b)
                        /\ UNCHANGED got
    \/ \E r \in Readers : /\ Queue # <<>> /\ Queue' = Tail(Queue)
                          /\ got' = [got EXCEPT ![r] = Head(Queue)]

\* every step of the pipe is a step of the queue, or none
LEMMA RefineStep ==
    ASSUME TypeOK, RoleInv, [Next]_vars
    PROVE  Refines
  <1>1. ASSUME NEW p \in Procs, pipewrite(p) PROVE Refines
    <2>1. CASE Write(p) \/ WriteFails(p) \/ WriteFull(p) \/ WriteDone(p) \/
           WakeReaders(p) \/ WritePrepare(p) \/ WriteReturn(p)
      <3>1. UNCHANGED <<data, nread, nwrite, got>>
        BY <2>1 DEF Write, Goto, acquire, WriteFails, release, WriteFull,
               WakeupCall, WriteDone, WakeReaders, wakeup, WritePrepare,
               WakeupDone, sleep_prepare, WriteReturn, sleepVars, bufVars,
               endVars
      <3> QED BY <3>1 DEF Refines, Queue, Held, bufVars
    <2>2. CASE WriteByte(p)
      <3>1. PICK b \in Bytes : data' = [data EXCEPT ![nwrite % PIPESIZE] = b]
        BY <2>2 DEF WriteByte
      <3>2. ~Full /\ nwrite' = (nwrite + 1) % Wrap /\ nread' = nread /\ got' = got
        BY <2>2 DEF WriteByte
      <3>3. Queue' = Append(Queue, b)
        BY <3>1, <3>2, WriteByteAppends
      <3>4. Len(Queue) < PIPESIZE
        BY <3>2, QueueFacts, IndexFacts, SizeAssumption DEF SizeAssumption
      <3> QED
        BY <3>1, <3>2, <3>3, <3>4 DEF Refines
    <2> QED BY <1>1, <2>1, <2>2 DEF pipewrite
  <1>2. ASSUME NEW p \in Procs, piperead(p) PROVE Refines
    <2>1. CASE Read(p) \/ ReadFails(p) \/ ReadPrepare(p) \/ ReadReady(p) \/
           ReadDone(p) \/ WakeWriters(p) \/ ReadReturn(p)
      <3>1. UNCHANGED <<data, nread, nwrite, got>>
        BY <2>1 DEF Read, Goto, acquire, ReadFails, release, ReadPrepare,
               sleep_prepare, ReadReady, ReadDone, WakeupCall, WakeWriters,
               wakeup, ReadReturn, WakeupDone, sleepVars, bufVars, endVars
      <3> QED BY <3>1 DEF Refines, Queue, Held, bufVars
    <2>2. CASE ReadByte(p)
      <3>1. /\ ~Empty /\ data' = data /\ nread' = (nread + 1) % Wrap
            /\ nwrite' = nwrite /\ got' = [got EXCEPT ![p] = data[nread % PIPESIZE]]
        BY <2>2 DEF ReadByte
      <3>2. p \in Readers
        BY <2>2 DEF ReadByte, RoleInv, Reading
      <3>3. /\ Queue # <<>> /\ Head(Queue) = data[nread % PIPESIZE]
            /\ Queue' = Tail(Queue)
        BY <3>1, ReadByteTakesHead
      <3> QED
        BY <3>1, <3>2, <3>3 DEF Refines
    <2> QED BY <1>2, <2>1, <2>2 DEF piperead
  <1>3. ASSUME NEW p \in Procs, Unlock(p) \/ Sleep(p) \/ Relock(p)
       PROVE  Refines
    <2>1. UNCHANGED <<data, nread, nwrite, got>>
      BY <1>3 DEF Unlock, Goto, release, Sleep, sleep, Relock, acquire,
             sleepVars, bufVars, endVars
    <2> QED BY <2>1 DEF Refines, Queue, Held, bufVars
  <1>4. ASSUME NEW p \in Procs, Close(p) PROVE Refines
    <2>1. UNCHANGED <<data, nread, nwrite, got>>
      BY <1>4 DEF Close, sleepVars, bufVars, endVars
    <2> QED BY <2>1 DEF Refines, Queue, Held, bufVars
  <1>5. ASSUME NEW p \in Procs, pipeclose(p) PROVE Refines
    <2>1. UNCHANGED <<data, nread, nwrite, got>>
      BY <1>5 DEF pipeclose, PipeClose, Goto, acquire, WakeupCall, CloseWake,
             wakeup, CloseDone, WakeupDone, release, Free, sleepVars, bufVars,
             endVars
    <2> QED BY <2>1 DEF Refines, Queue, Held, bufVars
  <1>6. ASSUME NEW p \in Procs, Kill(p) PROVE Refines
    <2>1. UNCHANGED <<data, nread, nwrite, got>>
      BY <1>6 DEF Kill, kkill, sleepVars, bufVars, endVars
    <2> QED BY <2>1 DEF Refines, Queue, Held, bufVars
  <1>7. CASE UNCHANGED vars
    BY <1>7 DEF vars, sleepVars, bufVars, endVars, Refines, Queue, Held, bufVars
  <1> QED BY <1>1, <1>2, <1>3, <1>4, <1>5, <1>6, <1>7 DEF Next, Step, Finished
-----------------------------------------------------------------------------
(* The theorems *)

LEMMA InitInv == Init => IInv
  <1> SUFFICES ASSUME Init PROVE IInv
    OBVIOUS
  <1>1. ProcType
    <2>1. /\ state \in [Procs -> {"RUNNABLE", "SLEEPING"}]
          /\ chan \in [Procs -> {NoChan, Nread, Nwrite}]
          /\ killed \in [Procs -> BOOLEAN]
      BY DEF Init
    <2>2. /\ scan \in [Procs -> 1..(N + 1)] /\ lock \in 0..N
          /\ left \in [Procs -> 0..MaxLen] /\ quiet \in 0..N
      BY SlotFacts, SizeAssumption DEF SizeAssumption, Init
    <2>3. /\ pc \in [Procs -> PCs] /\ refs \subseteq Readers \cup Writers
          /\ {readopen, writeopen, freed} \subseteq BOOLEAN
      BY DEF Init, PCs
    <2> QED
      BY <2>1, <2>2, <2>3 DEF ProcType
  <1>2. BufType
    <2>1. 0 \in 0..(Wrap - 1) /\ (0 - 0) % Wrap = 0 /\ 0 <= PIPESIZE
      BY SizeAssumption, ModSmall DEF SizeAssumption
    <2> QED
      BY <2>1 DEF Init, BufType, Held
  <1>3. LockInv /\ LastInv /\ FreeInv /\ FreedLast
    BY SlotFacts DEF Init, LockInv, Holding, LastInv, FreeInv, FreedLast
  <1>4. RoleInv /\ EndInv
    BY EndFacts DEF Init, RoleInv, Writing, Reading, Closing, EndInv
  <1> QED
    BY <1>1, <1>2, <1>3, <1>4, Halves DEF IInv

LEMMA InvStep == IInv /\ [Next]_vars => IInv'
  <1> SUFFICES ASSUME IInv, [Next]_vars PROVE IInv'
    OBVIOUS
  <1>1. TypeOK /\ LockInv /\ RoleInv /\ EndInv /\ LastInv /\ FreeInv /\ FreedLast
    BY DEF IInv
  <1>2. TypeOK'
    <2>1. ProcType' /\ BufType'
      BY <1>1, Halves, ProcTypeStep, BufTypeStep
    <2> QED
      BY <2>1 DEF TypeOK, ProcType, BufType, Held
  <1>3. LockInv' /\ RoleInv' /\ LastInv' /\ EndInv'
    BY <1>1, LockStep, RoleStep, LastStep, EndStep
  <1>4. FreeInv' /\ FreedLast'
    BY <1>1, FreeStep, FreedStep
  <1> QED
    BY <1>2, <1>3, <1>4 DEF IInv

\* The invariant that the other theorems start from: pi->lock is held in the
\* sections of pipe.c that lie between its acquire() and release(), readers read,
\* writers write, an end is open while anybody refers to it, and each end is
\* closed by one process.
THEOREM Invariance == Spec => []IInv
  <1> QED
    BY InitInv, InvStep, PTL DEF Spec

\* The indices of a pipe never run apart by more than the buffer, across the wrap
\* of the uints, and pipeclose() frees the pipe's page once, after the last access.
THEOREM PipeSafe == Spec => []Inv
  <1>1. IInv => Inv
    BY DEF IInv, Inv
  <1> QED
    BY <1>1, Invariance, PTL

\* pipewrite() and piperead() are a bounded queue: what is written is read once
\* and in order, by any number of writers and readers, whatever PIPESIZE and the
\* width of nread and nwrite.
THEOREM PipeIsFifo == Spec => IsFifo
  <1>1. Init => F!Init
    <2> SUFFICES ASSUME Init PROVE F!Init
      OBVIOUS
    <2>1. Held = 0 /\ got \in [Readers -> Bytes]
      <3>1. (0 - 0) % Wrap = 0
        BY SizeAssumption, ModSmall DEF SizeAssumption
      <3> QED
        BY <3>1 DEF Init, Held
    <2>2. Queue = <<>>
      BY <2>1 DEF Queue
    <2> QED
      BY <2>1, <2>2 DEF F!Init, Queue, Held
  <1>2. IInv /\ [Next]_vars => [F!Next]_<<Queue, got>>
    <2> SUFFICES ASSUME IInv, [Next]_vars PROVE [F!Next]_<<Queue, got>>
      OBVIOUS
    <2>1. Refines
      BY RefineStep DEF IInv
    <2> QED
      BY <2>1 DEF Refines, F!Next, F!Put, F!Get, Queue, Held
  <1> QED
    BY <1>1, <1>2, Invariance, PTL DEF Spec, IsFifo, F!Spec, Queue, Held

WriteInv == SleepInv /\ FullInv /\ WriterInv

LEMMA WriteInvInit == Init => WriteInv
  BY SlotFacts, EndFacts
  DEF Init, WriteInv, SleepInv, FullInv, WriterInv, Waits, NoChan

LEMMA WriteInvStep ==
    ASSUME IInv, WriteInv, [Next]_vars
    PROVE  WriteInv'
  <1>1. TypeOK /\ LockInv /\ RoleInv /\ EndInv /\ SleepInv /\ FullInv /\ WriterInv
    BY DEF IInv, WriteInv
  <1>2. SleepInv' /\ FullInv'
    BY <1>1, SleepStep, FullStep
  <1>3. ASSUME NEW q \in Writers, Waits(q)' PROVE (Full /\ readopen)' \/ ReaderComes(q)'
    BY <1>1, <1>3, WriterStep
  <1> QED
    BY <1>2, <1>3 DEF WriteInv, WriterInv

LEMMA WriteInvariance == Spec => []WriteInv
  <1>1. IInv /\ WriteInv /\ [Next]_vars => WriteInv'
    BY WriteInvStep
  <1> QED
    BY <1>1, WriteInvInit, Invariance, PTL DEF Spec

\* A writer sleeps in pipewrite() on a full pipe that still has a reader, or a
\* reader is about to wake it: whatever is read, closed or killed between its test
\* of the indices and its sleep().
THEOREM WritersAwake == Spec => []WriterAwake
  <1>1. WriteInv => WriterAwake
    BY DEF WriteInv, WriterInv, WriterAwake, Waits, ReaderComes
  <1> QED
    BY <1>1, WriteInvariance, PTL

\* The same of readers and writers both, whoever is killed, with the exception the
\* code makes: pipewrite() returns -1 to a killed writer (pipe.c:84) without a
\* wakeup() for what it has put, and readers sleep beside that until the next write
\* or the close of the end.
THEOREM NobodyForgotten == Spec => []Awake
  <1>1. Init => ReaderInv
    BY SlotFacts, EndFacts DEF Init, ReaderInv, Waits, NoChan
  <1>2. IInv /\ WriteInv /\ ReaderInv /\ [Next]_vars => ReaderInv'
    <2> SUFFICES ASSUME IInv, WriteInv, ReaderInv, [Next]_vars PROVE ReaderInv'
      OBVIOUS
    <2>1. TypeOK /\ LockInv /\ RoleInv /\ EndInv /\ SleepInv
      BY DEF IInv, WriteInv
    <2>2. ASSUME NEW q \in Readers, Waits(q)'
          PROVE  Unsaid' \/ WakeComes(q)'
      BY <2>1, <2>2, ReaderStep
    <2> QED
      BY <2>2 DEF ReaderInv
  <1>3. IInv /\ ReaderInv => ReaderAwake
    <2> SUFFICES ASSUME IInv, ReaderInv, NEW r \in Readers, state[r] = "SLEEPING"
                 PROVE  \/ Empty /\ writeopen
                        \/ writeopen /\ LeftQuietly
                        \/ \E w \in Writers :
                              \/ pc[w] = "write"
                              \/ /\ pc[w] \in {"wfull", "wwake", "closewake"}
                                 /\ scan[w] <= r
      BY DEF ReaderAwake
    <2>1. Unsaid \/ WakeComes(r)
      BY DEF ReaderInv, Waits
    <2>2. quiet \in Procs /\ pc[quiet] = "write" => quiet \in Writers
      BY DEF IInv, RoleInv, Writing
    <2>3. quiet # 0 => quiet \in Procs
      BY SlotFacts DEF IInv, TypeOK, Procs
    <2> QED
      BY <2>1, <2>2, <2>3 DEF Unsaid, WakeComes, LeftQuietly
  <1>4. ReaderAwake /\ WriterAwake => Awake
    BY DEF Awake
  <1> QED
    BY <1>1, <1>2, <1>3, <1>4, Invariance, WriteInvariance, WritersAwake, PTL DEF Spec

-----------------------------------------------------------------------------
(* Sleep locks exclude, lose no wakeup and implement the abstract mutex.    *)
(* The inductive invariant adds to the properties what holds between the   *)
(* critical sections: who holds the spinlock, that a sleeper has its       *)
(* channel registered, and that a process on its way to sleep on a free    *)
(* lock is going to be noticed.                                            *)

USE DEF SL!NoChan

\* one process holds lk->lk, and none holds it across sleep()
LockSpinInv == \A p \in SL!Procs : lpc[p] \in {"test", "unlock", "wake"} <=> lk = p

\* whoever sleeps is in acquiresleep() and will be found by wakeup()
LockSleepInv == \A p \in SL!Procs : state[p] = "SLEEPING" =>
                lpc[p] = "asleep" /\ chan[p] = <<"lk">>

\* p has registered its channel, and is asleep or will be unless woken up
LockCommitted(p) == /\ chan[p] # SL!NoChan
                /\ \/ lpc[p] \in {"unlock", "sleep"}
                   \/ state[p] = "SLEEPING"

LockComing(p) == \E w \in SL!Procs : lpc[w] = "wake" /\ scan[w] <= p

LockWaitInv == \A p \in SL!Procs : LockCommitted(p) => locked \/ LockComing(p)

LockIInv == SL!TypeOK /\ LockSpinInv /\ SL!Exclusion /\ LockSleepInv /\ LockWaitInv


-----------------------------------------------------------------------------
(* What the constants give *)

LEMMA LockSlotFacts ==
    /\ 0 \notin SL!Procs /\ 0 \in 0..N
    /\ N + 1 \notin SL!Procs /\ N + 1 \in 1..(N + 1) /\ 1 \in 1..(N + 1)
    /\ \A p \in SL!Procs : /\ p \in 0..N /\ p + 1 \in 1..(N + 1)
                        /\ 1 <= p /\ ~(N + 1 <= p) /\ p \in Int
    /\ \A i \in 1..(N + 1), p \in SL!Procs : i <= p /\ i # p => i + 1 <= p
  BY NAssumption DEF NAssumption, SL!Procs

-----------------------------------------------------------------------------

LEMMA LockInit == SL!Init => LockIInv
  <1> SUFFICES ASSUME SL!Init PROVE LockIInv
    OBVIOUS
  <1>1. SL!TypeOK
    BY LockSlotFacts DEF SL!Init, SL!TypeOK
  <1>2. LockSpinInv /\ SL!Exclusion /\ LockSleepInv /\ LockWaitInv
    BY LockSlotFacts DEF SL!Init, LockSpinInv, SL!Exclusion, LockSleepInv, LockWaitInv, LockCommitted
  <1> QED
    BY <1>1, <1>2 DEF LockIInv

LEMMA LockTypeStep == SL!TypeOK /\ [SL!Next]_(SL!vars) => SL!TypeOK'
  <1> SUFFICES ASSUME SL!TypeOK, [SL!Next]_(SL!vars) PROVE SL!TypeOK'
    OBVIOUS
  <1> USE LockSlotFacts
  <1>1. ASSUME NEW p \in SL!Procs, SL!acquiresleep(p) PROVE SL!TypeOK'
    <2>1. CASE SL!acquire(p)
      BY <2>1 DEF SL!TypeOK, SL!acquire, SL!Goto, SL!sleepVars
    <2>2. CASE SL!Take(p)
      BY <2>2 DEF SL!TypeOK, SL!Take, SL!Goto, SL!sleepVars
    <2>3. CASE SL!Prepare(p)
      BY <2>3 DEF SL!TypeOK, SL!Prepare, SL!Goto, SL!sleep_prepare, SL!lockVars
    <2>4. CASE SL!Unlock(p)
      BY <2>4 DEF SL!TypeOK, SL!Unlock, SL!Goto, SL!sleepVars
    <2>5. CASE SL!Sleep(p)
      BY <2>5 DEF SL!TypeOK, SL!Sleep, SL!Goto, SL!sleep, SL!lockVars
    <2> QED
      BY <1>1, <2>1, <2>2, <2>3, <2>4, <2>5 DEF SL!acquiresleep
  <1>2. ASSUME NEW p \in SL!Procs, SL!releasesleep(p) PROVE SL!TypeOK'
    BY <1>2 DEF SL!TypeOK, SL!releasesleep, SL!Goto, SL!WakeupCall
  <1>3. ASSUME NEW p \in SL!Procs, SL!Wake(p) PROVE SL!TypeOK'
    BY <1>3 DEF SL!TypeOK, SL!Wake, SL!wakeup, SL!lockVars
  <1>4. ASSUME NEW p \in SL!Procs, SL!release(p) PROVE SL!TypeOK'
    BY <1>4 DEF SL!TypeOK, SL!release, SL!Goto, SL!sleepVars
  <1>5. ASSUME NEW p \in SL!Procs, SL!Kill(p) PROVE SL!TypeOK'
    BY <1>5 DEF SL!TypeOK, SL!Kill, SL!kkill, SL!lockVars
  <1>6. CASE UNCHANGED SL!vars
    BY <1>6 DEF SL!TypeOK, SL!vars, SL!sleepVars, SL!lockVars
  <1> QED
    BY <1>1, <1>2, <1>3, <1>4, <1>5, <1>6 DEF SL!Next, SL!Step

LEMMA SpinStep == SL!TypeOK /\ LockSpinInv /\ [SL!Next]_(SL!vars) => LockSpinInv'
  <1> SUFFICES ASSUME SL!TypeOK, LockSpinInv, [SL!Next]_(SL!vars) PROVE LockSpinInv'
    OBVIOUS
  <1> USE LockSlotFacts DEF SL!TypeOK, LockSpinInv
  <1>1. ASSUME NEW p \in SL!Procs, SL!acquiresleep(p) PROVE LockSpinInv'
    BY <1>1 DEF SL!acquiresleep, SL!acquire, SL!Take, SL!Prepare, SL!Unlock, SL!Sleep, SL!Goto,
                SL!lockVars
  <1>2. ASSUME NEW p \in SL!Procs, SL!releasesleep(p) PROVE LockSpinInv'
    BY <1>2 DEF SL!releasesleep, SL!Goto
  <1>3. ASSUME NEW p \in SL!Procs, SL!Wake(p) PROVE LockSpinInv'
    BY <1>3 DEF SL!Wake, SL!lockVars
  <1>4. ASSUME NEW p \in SL!Procs, SL!release(p) PROVE LockSpinInv'
    BY <1>4 DEF SL!release, SL!Goto
  <1>5. ASSUME NEW p \in SL!Procs, SL!Kill(p) PROVE LockSpinInv'
    BY <1>5 DEF SL!Kill, SL!lockVars
  <1>6. CASE UNCHANGED SL!vars
    BY <1>6 DEF SL!vars, SL!lockVars
  <1> QED
    BY <1>1, <1>2, <1>3, <1>4, <1>5, <1>6 DEF SL!Next, SL!Step

LEMMA ExclusionStep == SL!TypeOK /\ SL!Exclusion /\ [SL!Next]_(SL!vars) => SL!Exclusion'
  <1> SUFFICES ASSUME SL!TypeOK, SL!Exclusion, [SL!Next]_(SL!vars) PROVE SL!Exclusion'
    OBVIOUS
  <1> USE LockSlotFacts DEF SL!TypeOK, SL!Exclusion
  <1>1. ASSUME NEW p \in SL!Procs, SL!acquiresleep(p) PROVE SL!Exclusion'
    BY <1>1 DEF SL!acquiresleep, SL!acquire, SL!Take, SL!Prepare, SL!Unlock, SL!Sleep, SL!Goto,
                SL!lockVars
  <1>2. ASSUME NEW p \in SL!Procs, SL!releasesleep(p) PROVE SL!Exclusion'
    BY <1>2 DEF SL!releasesleep, SL!Goto
  <1>3. ASSUME NEW p \in SL!Procs, SL!Wake(p) PROVE SL!Exclusion'
    BY <1>3 DEF SL!Wake, SL!lockVars
  <1>4. ASSUME NEW p \in SL!Procs, SL!release(p) PROVE SL!Exclusion'
    BY <1>4 DEF SL!release, SL!Goto
  <1>5. ASSUME NEW p \in SL!Procs, SL!Kill(p) PROVE SL!Exclusion'
    BY <1>5 DEF SL!Kill, SL!lockVars
  <1>6. CASE UNCHANGED SL!vars
    BY <1>6 DEF SL!vars, SL!lockVars
  <1> QED
    BY <1>1, <1>2, <1>3, <1>4, <1>5, <1>6 DEF SL!Next, SL!Step

LEMMA LockSleepStep == SL!TypeOK /\ LockSleepInv /\ [SL!Next]_(SL!vars) => LockSleepInv'
  <1> SUFFICES ASSUME SL!TypeOK, LockSleepInv, [SL!Next]_(SL!vars) PROVE LockSleepInv'
    OBVIOUS
  <1> USE LockSlotFacts DEF SL!TypeOK, LockSleepInv
  <1>1. ASSUME NEW p \in SL!Procs, SL!acquiresleep(p) PROVE LockSleepInv'
    <2>1. CASE SL!acquire(p) \/ SL!Take(p) \/ SL!Unlock(p)
      BY <2>1 DEF SL!acquire, SL!Take, SL!Unlock, SL!Goto, SL!sleepVars
    <2>2. CASE SL!Prepare(p)
      BY <2>2 DEF SL!Prepare, SL!Goto, SL!sleep_prepare
    <2>3. CASE SL!Sleep(p)
      BY <2>3 DEF SL!Sleep, SL!Goto, SL!sleep
    <2> QED
      BY <1>1, <2>1, <2>2, <2>3 DEF SL!acquiresleep
  <1>2. ASSUME NEW p \in SL!Procs, SL!releasesleep(p) PROVE LockSleepInv'
    BY <1>2 DEF SL!releasesleep, SL!Goto
  <1>3. ASSUME NEW p \in SL!Procs, SL!Wake(p) PROVE LockSleepInv'
    BY <1>3 DEF SL!Wake, SL!wakeup
  <1>4. ASSUME NEW p \in SL!Procs, SL!release(p) PROVE LockSleepInv'
    BY <1>4 DEF SL!release, SL!Goto, SL!sleepVars
  <1>5. ASSUME NEW p \in SL!Procs, SL!Kill(p) PROVE LockSleepInv'
    BY <1>5 DEF SL!Kill, SL!kkill
  <1>6. CASE UNCHANGED SL!vars
    BY <1>6 DEF SL!vars, SL!sleepVars
  <1> QED
    BY <1>1, <1>2, <1>3, <1>4, <1>5, <1>6 DEF SL!Next, SL!Step

LEMMA LockWaitStep == SL!TypeOK /\ LockSleepInv /\ LockWaitInv /\ [SL!Next]_(SL!vars) => LockWaitInv'
  <1> SUFFICES ASSUME SL!TypeOK, LockSleepInv, LockWaitInv, [SL!Next]_(SL!vars),
                      NEW q \in SL!Procs, LockCommitted(q)'
               PROVE  locked' \/ LockComing(q)'
    BY DEF LockWaitInv
  <1> USE LockSlotFacts DEF SL!TypeOK
  <1>0. LockCommitted(q) => locked \/ LockComing(q)
    BY DEF LockWaitInv
  <1>1. ASSUME NEW p \in SL!Procs, SL!acquiresleep(p) PROVE locked' \/ LockComing(q)'
    <2>1. CASE SL!acquire(p)
      BY <1>0, <2>1 DEF SL!acquire, SL!Goto, SL!sleepVars, LockCommitted, LockComing
    <2>2. CASE SL!Take(p) \/ SL!Prepare(p)
      BY <2>2 DEF SL!Take, SL!Prepare, SL!lockVars
    <2>3. CASE SL!Unlock(p)
      BY <1>0, <2>3 DEF SL!Unlock, SL!Goto, SL!sleepVars, LockCommitted, LockComing
    <2>4. CASE SL!Sleep(p)
      BY <1>0, <2>4 DEF SL!Sleep, SL!Goto, SL!sleep, SL!lockVars, LockCommitted, LockComing
    <2> QED
      BY <1>1, <2>1, <2>2, <2>3, <2>4 DEF SL!acquiresleep
  <1>2. ASSUME NEW p \in SL!Procs, SL!releasesleep(p) PROVE locked' \/ LockComing(q)'
    BY <1>2 DEF SL!releasesleep, SL!Goto, SL!WakeupCall, LockComing
  <1>3. ASSUME NEW p \in SL!Procs, SL!Wake(p) PROVE locked' \/ LockComing(q)'
    <2>1. CASE q = scan[p]
      <3>1. chan'[q] = SL!NoChan
        BY <1>3, <2>1 DEF SL!Wake, SL!wakeup
      <3> QED
        BY <3>1 DEF LockCommitted
    <2>2. CASE q # scan[p]
      <3>1. LockCommitted(q)
        BY <1>3, <2>2 DEF SL!Wake, SL!wakeup, LockCommitted
      <3>2. ASSUME NEW w \in SL!Procs, lpc[w] = "wake", scan[w] <= q
            PROVE  lpc'[w] = "wake" /\ scan'[w] <= q
        BY <1>3, <2>2, <3>2 DEF SL!Wake, SL!wakeup
      <3>3. locked' = locked
        BY <1>3 DEF SL!Wake, SL!lockVars
      <3> QED
        BY <1>0, <3>1, <3>2, <3>3 DEF LockComing
    <2> QED
      BY <2>1, <2>2
  <1>4. ASSUME NEW p \in SL!Procs, SL!release(p) PROVE locked' \/ LockComing(q)'
    <2>1. scan[p] = N + 1
      BY <1>4 DEF SL!release, SL!WakeupDone
    <2>2. LockCommitted(q)
      BY <1>4 DEF SL!release, SL!Goto, SL!sleepVars, LockCommitted
    <2> QED
      BY <1>0, <1>4, <2>1, <2>2 DEF SL!release, SL!Goto, SL!sleepVars, LockComing
  <1>5. ASSUME NEW p \in SL!Procs, SL!Kill(p) PROVE locked' \/ LockComing(q)'
    BY <1>0, <1>5 DEF SL!Kill, SL!kkill, SL!lockVars, LockCommitted, LockComing
  <1>6. CASE UNCHANGED SL!vars
    BY <1>0, <1>6 DEF SL!vars, SL!sleepVars, SL!lockVars, LockCommitted, LockComing
  <1> QED
    BY <1>1, <1>2, <1>3, <1>4, <1>5, <1>6 DEF SL!Next, SL!Step

\* the invariant is inductive
THEOREM LockInvariance == SL!Spec => []LockIInv
  <1>1. LockIInv /\ [SL!Next]_(SL!vars) => LockIInv'
    BY LockTypeStep, SpinStep, ExclusionStep, LockSleepStep, LockWaitStep DEF LockIInv
  <1> QED
    BY LockInit, <1>1, PTL DEF SL!Spec

\* Every variable keeps its type, and lk->pid is cleared with lk->locked.
THEOREM LockTypes == LockSpec => []SL!TypeOK
  BY LockInvariance, PTL DEF LockIInv, LockSpec

\* acquiresleep() has returned to one process at most, and lk->pid is its.
THEOREM ExclusionAlways == LockSpec => []Exclusion
  BY LockInvariance, PTL DEF LockIInv, LockSpec, Exclusion

\* Whoever sleeps on a free lock is going to be woken up.
THEOREM NoLostWakeupAlways == LockSpec => []NoLostWakeup
  <1>1. LockIInv => NoLostWakeup
    BY DEF LockIInv, NoLostWakeup, SL!NoLostWakeup, LockSleepInv, LockWaitInv,
           LockCommitted, LockComing
  <1> QED
    BY LockInvariance, <1>1, PTL DEF LockSpec

-----------------------------------------------------------------------------
(* Refinement: the steps of a sleep lock are steps of a mutex *)

LockOwner == {p \in SL!Procs : lpc[p] = "hold"}

LEMMA LockStepImplements == LockIInv /\ [SL!Next]_(SL!vars) => [SL!M!Next]_<<LockOwner, SL!Waiting>>
  <1> SUFFICES ASSUME LockIInv, [SL!Next]_(SL!vars),
                      ~UNCHANGED <<LockOwner, SL!Waiting>>
               PROVE  SL!M!Next
    BY DEF LockOwner
  <1> USE LockSlotFacts DEF SL!TypeOK, LockIInv, LockOwner, SL!Waiting
  <1>1. ASSUME NEW p \in SL!Procs, SL!acquire(p) PROVE SL!M!Request(p)
    <2>1. lpc[p] = "idle"
      BY <1>1 DEF SL!acquire, SL!Goto
    <2> QED
      BY <1>1, <2>1 DEF SL!acquire, SL!Goto, SL!M!Request
  <1>2. ASSUME NEW p \in SL!Procs, SL!Take(p) PROVE SL!M!Enter(p)
    <2>1. LockOwner = {}
      BY <1>2 DEF SL!Take, SL!Exclusion
    <2>2. LockOwner' = {p} /\ SL!Waiting' = SL!Waiting \ {p} /\ p \in SL!Waiting
      BY <1>2, <2>1 DEF SL!Take, SL!Goto
    <2> QED
      BY <2>1, <2>2 DEF SL!M!Enter
  <1>3. ASSUME NEW p \in SL!Procs, SL!releasesleep(p) PROVE SL!M!Leave(p)
    <2>1. LockOwner = {p}
      BY <1>3 DEF SL!releasesleep, SL!Goto, SL!Exclusion
    <2>2. LockOwner' = {} /\ SL!Waiting' = SL!Waiting
      BY <1>3, <2>1 DEF SL!releasesleep, SL!Goto
    <2> QED
      BY <2>1, <2>2 DEF SL!M!Leave
  <1>4. ASSUME NEW p \in SL!Procs,
               SL!Prepare(p) \/ SL!Unlock(p) \/ SL!Sleep(p) \/ SL!release(p)
        PROVE  UNCHANGED <<LockOwner, SL!Waiting>>
    BY <1>4 DEF SL!Prepare, SL!Unlock, SL!Sleep, SL!release, SL!Goto
  <1>5. ASSUME NEW p \in SL!Procs, SL!Wake(p) \/ SL!Kill(p)
        PROVE  UNCHANGED <<LockOwner, SL!Waiting>>
    BY <1>5 DEF SL!Wake, SL!Kill
  <1>6. CASE UNCHANGED SL!vars
    BY <1>6 DEF SL!vars
  <1> QED
    BY <1>1, <1>2, <1>3, <1>4, <1>5, <1>6
       DEF SL!Next, SL!Step, SL!acquiresleep, SL!M!Next

\* A sleep lock implements a mutex: whatever kills and wakeups fall between the
\* steps of acquiresleep() and releasesleep(), what its users see is one owner
\* at a time.  (That a free lock is taken is liveness, and left to TLC.)
THEOREM ImplementsMutex == LockSpec => SL!M!Safe
  <1>1. SL!Init => SL!M!Init
    BY DEF SL!Init, SL!M!Init, SL!Waiting
  <1> QED
    BY <1>1, LockInvariance, LockStepImplements, PTL
       DEF LockSpec, SL!Spec, SL!M!Safe, LockOwner

-----------------------------------------------------------------------------
(* fork(), exit(), wait() and kill(): the inductive invariant *)

Locked  == {"wait", "waitunlock", "reparent", "rewake", "exitwake"}
Exiting == {"exitlock", "reparent", "rewake", "exitwake"}
Forking == {"link", "ready"}

\* wait_lock is held in these sections, and by one process
LifeLockInv == \A p \in PL!Procs : procpc[p] \in Locked <=> wait_lock = p

\* a slot without a running program executes nothing, and whoever sleeps does so
\* in kwait(), on its own address
StateInv == \A p \in PL!Procs :
    /\ procpc[p] = "none" <=> state[p] \in {"UNUSED", "USED", "ZOMBIE"}
    /\ state[p] = "SLEEPING" => procpc[p] = "asleep" /\ chan[p] = PL!Chan(p)
    /\ chan[p] \in {PL!NoChan, PL!Chan(p)}

\* init lives for ever
InitLives == /\ state[PL!initproc] \in {"RUNNABLE", "SLEEPING"}
             /\ procpid[PL!initproc] = 1
             /\ \A p \in PL!Procs : procpc[p] \in Exiting => p # PL!initproc

\* pids are given out once, in ascending order
PidInv == /\ \A p \in PL!Procs : procpid[p] < nextpid
          /\ \A i \in PL!Pids : bornTo[i] < nextpid
          /\ \A p, q \in PL!Procs : procpid[p] = procpid[q] /\ procpid[p] # 0 => p = q

\* a slot that is being set up belongs to one kfork()
EmbryoInv ==
    /\ \A p \in PL!Procs : procpc[p] \in Forking =>
           /\ arg[p] \in PL!Procs /\ state[arg[p]] = "USED"
           /\ parent[arg[p]] = IF procpc[p] = "link" THEN 0 ELSE p
           /\ bornTo[procpid[arg[p]]] = procpid[p]
    /\ \A p, q \in PL!Procs : procpc[p] \in Forking /\ procpc[q] \in Forking /\ arg[p] = arg[q]
           => p = q
    /\ \A p \in PL!Procs : state[p] = "UNUSED" => parent[p] = 0

\* reparent() has left no child of p in the slots it has passed
ChildInv == \A p, c \in PL!Procs :
    /\ procpc[p] \in {"reparent", "rewake"} /\ c < pp[p] => parent[c] # p
    /\ procpc[p] = "exitwake" => parent[c] # p

LifeIInv == /\ PL!TypeOK /\ LifeLockInv /\ StateInv /\ InitLives /\ PidInv
            /\ EmbryoInv /\ ChildInv /\ PL!ParentAlive

-----------------------------------------------------------------------------
(* What the constants give *)

LEMMA LifeSlotFacts ==
    /\ 0 \notin PL!Procs /\ 0 \in 0..N /\ PL!initproc \in PL!Procs /\ PL!initproc = 1
    /\ N + 1 \notin PL!Procs /\ N + 1 \in 1..(N + 1) /\ 1 \in 1..(N + 1)
    /\ \A p \in PL!Procs : /\ p \in 0..N /\ p + 1 \in 1..(N + 1) /\ p \in Int
                        /\ 1 <= p /\ ~(N + 1 <= p) /\ p < N + 1 /\ ~(p < 1)
    /\ \A i \in PL!Procs, p \in PL!Procs : p < i + 1 <=> p < i \/ p = i
    /\ \A i \in PL!Procs, p \in PL!Procs : i <= p /\ i # p => i + 1 <= p
  BY NAssumption DEF NAssumption, PL!Procs, PL!initproc

LEMMA PidFacts ==
    /\ MaxPid \in Nat \ {0} /\ 0 \notin PL!Pids /\ 1 \in PL!Pids
    /\ \A i \in PL!Pids : i \in 0..MaxPid /\ i \in Int /\ i > 0
    /\ \A i \in 1..(MaxPid + 1) : i <= MaxPid => i \in PL!Pids /\ i + 1 \in 1..(MaxPid + 1)
    /\ \A i \in KillTargets : i \in Nat
    /\ PL!Pids \subseteq Int
  BY MaxPidAssumption, KillAssumption DEF MaxPidAssumption, KillAssumption, PL!Pids

\* a pid that is not 0 is one of Pids
LEMMA PidOf == \A i \in 0..MaxPid : i # 0 => i \in PL!Pids
  BY MaxPidAssumption DEF MaxPidAssumption, PL!Pids

\* struct procs have different addresses
LEMMA ChanFacts ==
    /\ \A p \in Nat : PL!Chan(p) # PL!NoChan
    /\ \A p, q \in Nat : PL!Chan(p) = PL!Chan(q) => p = q
    /\ \A p \in PL!Procs : p \in Nat
  BY NAssumption DEF NAssumption, PL!Procs, PL!Chan, PL!NoChan

-----------------------------------------------------------------------------
(* The steps *)


\* every field keeps its type, and a slot has a pid unless it is unused
LEMMA TypeStep ==
    ASSUME PL!TypeOK, LifeLockInv, StateInv, EmbryoInv, [PL!Next]_(PL!vars)
    PROVE  PL!TypeOK'
  <1> USE LifeSlotFacts, PidFacts DEF PL!TypeOK, PL!PCs
  <1>1. ASSUME NEW p \in PL!Procs, PL!kfork(p) PROVE PL!TypeOK'
    <2>1. CASE PL!Fork(p)
      BY <2>1 DEF PL!Fork, PL!Syscall, PL!sleepVars, PL!treeVars, PL!localVars, PL!Goto
    <2>2. CASE PL!AllocSkip(p)
      BY <2>2 DEF PL!AllocSkip, PL!Advance, PL!sleepVars, PL!treeVars
    <2>3. CASE PL!Alloc(p)
      BY <2>3 DEF PL!Alloc, PL!Goto
    <2>4. CASE PL!AllocFails(p)
      BY <2>4 DEF PL!AllocFails, PL!Return, PL!Goto
    <2>5. CASE PL!AllocNone(p)
      BY <2>5 DEF PL!AllocNone, PL!Return, PL!AtEnd, PL!sleepVars, PL!treeVars, PL!Goto
    <2>6. CASE PL!Link(p)
      BY <2>6 DEF PL!Link, PL!Goto, PL!sleepVars, PL!localVars
    <2>7. CASE PL!Ready(p)
      BY <2>7 DEF PL!Ready, PL!treeVars, EmbryoInv, Forking, StateInv
    <2> QED
      BY <1>1, <2>1, <2>2, <2>3, <2>4, <2>5, <2>6, <2>7 DEF PL!kfork
  <1>2. ASSUME NEW p \in PL!Procs, PL!Kill(p) PROVE PL!TypeOK'
    <2>1. CASE PL!KillCall(p)
      BY <2>1 DEF PL!KillCall, PL!Syscall, PL!sleepVars, PL!treeVars, PL!Goto
    <2>2. CASE PL!KillSkip(p)
      BY <2>2 DEF PL!KillSkip, PL!Advance, PL!sleepVars, PL!treeVars
    <2>3. CASE PL!KillHit(p)
      BY <2>3 DEF PL!KillHit, PL!Return, PL!kkill, PL!treeVars, PL!Goto
    <2>4. CASE PL!KillMiss(p)
      BY <2>4 DEF PL!KillMiss, PL!Return, PL!AtEnd, PL!sleepVars, PL!treeVars, PL!Goto
    <2> QED
      BY <1>2, <2>1, <2>2, <2>3, <2>4 DEF PL!Kill
  <1>3. ASSUME NEW p \in PL!Procs, PL!kwait(p) PROVE PL!TypeOK'
    <2>1. CASE PL!WaitCall(p)
      BY <2>1 DEF PL!WaitCall, PL!Syscall, PL!sleepVars, PL!treeVars, PL!localVars, PL!Goto
    <2>2. CASE PL!WaitLock(p)
      BY <2>2 DEF PL!WaitLock, PL!Goto, PL!acquire, PL!sleepVars, PL!treeVars
    <2>3. CASE PL!WaitSkip(p)
      BY <2>3 DEF PL!WaitSkip, PL!Advance, PL!sleepVars, PL!treeVars
    <2>4. CASE PL!Reap(p)
      BY <2>4 DEF PL!Reap, PL!Return, PL!release, PL!Goto
    <2>5. CASE PL!ReapFails(p)
      BY <2>5 DEF PL!ReapFails, PL!Return, PL!release, PL!sleepVars, PL!treeVars, PL!Goto
    <2>6. CASE PL!WaitNone(p)
      BY <2>6 DEF PL!WaitNone, PL!Return, PL!release, PL!AtEnd, PL!sleepVars, PL!treeVars, PL!Goto
    <2>7. CASE PL!WaitPrepare(p)
      BY <2>7 DEF PL!WaitPrepare, PL!Goto, PL!AtEnd, PL!sleep_prepare, PL!treeVars, PL!localVars
    <2>8. CASE PL!WaitUnlock(p)
      BY <2>8 DEF PL!WaitUnlock, PL!Goto, PL!release, PL!sleepVars, PL!treeVars, PL!localVars
    <2>9. CASE PL!WaitSleep(p)
      BY <2>9 DEF PL!WaitSleep, PL!Goto, PL!sleep, PL!treeVars, PL!localVars, StateInv
    <2> QED
      BY <1>3, <2>1, <2>2, <2>3, <2>4, <2>5, <2>6, <2>7, <2>8, <2>9 DEF PL!kwait
  <1>4. ASSUME NEW p \in PL!Procs, PL!kexit(p) PROVE PL!TypeOK'
    <2>1. CASE PL!Exit(p)
      BY <2>1 DEF PL!Exit, PL!Goto, PL!sleepVars, PL!treeVars, PL!localVars
    <2>2. CASE PL!ExitLock(p)
      BY <2>2 DEF PL!ExitLock, PL!Goto, PL!acquire, PL!sleepVars, PL!treeVars
    <2>3. CASE PL!ReparentSkip(p)
      BY <2>3 DEF PL!ReparentSkip, PL!Advance, PL!sleepVars, PL!treeVars
    <2>4. CASE PL!Reparent(p)
      BY <2>4 DEF PL!Reparent, PL!Goto, PL!Advance, PL!WakeupCall
    <2>5. CASE PL!WakeInit(p)
      BY <2>5 DEF PL!WakeInit, PL!wakeup, PL!treeVars, PL!localVars
    <2>6. CASE PL!WakeInitDone(p)
      BY <2>6 DEF PL!WakeInitDone, PL!Goto, PL!WakeupDone, PL!sleepVars, PL!treeVars,
             PL!localVars
    <2>7. CASE PL!ReparentDone(p)
      BY <2>7 DEF PL!ReparentDone, PL!Goto, PL!AtEnd, PL!WakeupCall, PL!treeVars, PL!localVars
    <2>8. CASE PL!WakeParent(p)
      BY <2>8 DEF PL!WakeParent, PL!wakeup, PL!treeVars, PL!localVars
    <2>9. CASE PL!Zombie(p)
      BY <2>9 DEF PL!Zombie, PL!Goto, PL!release, PL!WakeupDone, PL!treeVars, StateInv
    <2> QED
      BY <1>4, <2>1, <2>2, <2>3, <2>4, <2>5, <2>6, <2>7, <2>8, <2>9 DEF PL!kexit
  <1>5. CASE UNCHANGED PL!vars
    BY <1>5 DEF PL!vars, PL!sleepVars, PL!treeVars, PL!localVars
  <1> QED
    BY <1>1, <1>2, <1>3, <1>4, <1>5 DEF PL!Next, PL!Step

\* acquire() and release() enclose the sections that hold wait_lock
LEMMA LifeLockStep ==
    ASSUME PL!TypeOK, StateInv, EmbryoInv, LifeLockInv, [PL!Next]_(PL!vars)
    PROVE  LifeLockInv'
  <1> USE LifeSlotFacts DEF PL!TypeOK, LifeLockInv, Locked
  <1>1. ASSUME NEW p \in PL!Procs, PL!kfork(p) PROVE LifeLockInv'
    <2>1. CASE PL!Fork(p) \/ PL!AllocSkip(p) \/ PL!Alloc(p) \/ PL!AllocFails(p) \/
               PL!AllocNone(p) \/ PL!Link(p)
      BY <2>1 DEF PL!Fork, PL!Syscall, PL!sleepVars, PL!treeVars, PL!localVars, PL!Goto,
             PL!AllocSkip, PL!Advance, PL!Alloc, PL!AllocFails, PL!Return, PL!AllocNone, PL!AtEnd,
             PL!Link
    <2>2. CASE PL!Ready(p)
      BY <2>2 DEF PL!Ready, PL!treeVars, EmbryoInv, Forking, StateInv
    <2> QED
      BY <1>1, <2>1, <2>2 DEF PL!kfork
  <1>2. ASSUME NEW p \in PL!Procs, PL!Kill(p) PROVE LifeLockInv'
    BY <1>2 DEF PL!Kill, PL!KillCall, PL!Syscall, PL!sleepVars, PL!treeVars, PL!Goto, PL!KillSkip,
           PL!Advance, PL!KillHit, PL!Return, PL!kkill, PL!KillMiss, PL!AtEnd
  <1>3. ASSUME NEW p \in PL!Procs, PL!kwait(p) PROVE LifeLockInv'
    BY <1>3 DEF PL!kwait, PL!WaitCall, PL!Syscall, PL!sleepVars, PL!treeVars, PL!localVars, PL!Goto,
           PL!WaitLock, PL!acquire, PL!WaitSkip, PL!Advance, PL!Reap, PL!Return, PL!release,
           PL!ReapFails, PL!WaitNone, PL!AtEnd, PL!WaitPrepare, PL!sleep_prepare, PL!WaitUnlock,
           PL!WaitSleep, PL!sleep
  <1>4. ASSUME NEW p \in PL!Procs, PL!kexit(p) PROVE LifeLockInv'
    BY <1>4 DEF PL!kexit, PL!Exit, PL!Goto, PL!sleepVars, PL!treeVars, PL!localVars, PL!ExitLock,
           PL!acquire, PL!ReparentSkip, PL!Advance, PL!Reparent, PL!WakeupCall, PL!WakeInit,
           PL!wakeup, PL!WakeInitDone, PL!WakeupDone, PL!ReparentDone, PL!AtEnd, PL!WakeParent,
           PL!Zombie, PL!release
  <1>5. CASE UNCHANGED PL!vars
    BY <1>5 DEF PL!vars, PL!sleepVars, PL!treeVars, PL!localVars
  <1> QED
    BY <1>1, <1>2, <1>3, <1>4, <1>5 DEF PL!Next, PL!Step

\* a program runs in a slot that is live, and sleeps in kwait() only
LEMMA StateStep ==
    ASSUME PL!TypeOK, InitLives, EmbryoInv, StateInv, [PL!Next]_(PL!vars)
    PROVE  StateInv'
  <1> USE LifeSlotFacts, ChanFacts DEF PL!TypeOK, StateInv
  <1>1. ASSUME NEW p \in PL!Procs, PL!kfork(p) PROVE StateInv'
    <2>1. CASE PL!Fork(p)
      BY <2>1 DEF PL!Fork, PL!Syscall, PL!sleepVars, PL!treeVars, PL!localVars, PL!Goto
    <2>2. CASE PL!AllocSkip(p)
      BY <2>2 DEF PL!AllocSkip, PL!Advance, PL!sleepVars, PL!treeVars
    <2>3. CASE PL!Alloc(p)
      BY <2>3 DEF PL!Alloc, PL!Goto
    <2>4. CASE PL!AllocFails(p)
      BY <2>4 DEF PL!AllocFails, PL!Return, PL!Goto
    <2>5. CASE PL!AllocNone(p)
      BY <2>5 DEF PL!AllocNone, PL!Return, PL!AtEnd, PL!sleepVars, PL!treeVars, PL!Goto
    <2>6. CASE PL!Link(p)
      BY <2>6 DEF PL!Link, PL!Goto, PL!sleepVars, PL!localVars
    <2>7. CASE PL!Ready(p)
      BY <2>7 DEF PL!Ready, PL!treeVars, EmbryoInv, Forking
    <2> QED
      BY <1>1, <2>1, <2>2, <2>3, <2>4, <2>5, <2>6, <2>7 DEF PL!kfork
  <1>2. ASSUME NEW p \in PL!Procs, PL!Kill(p) PROVE StateInv'
    <2>1. CASE PL!KillCall(p)
      BY <2>1 DEF PL!KillCall, PL!Syscall, PL!sleepVars, PL!treeVars, PL!Goto
    <2>2. CASE PL!KillSkip(p)
      BY <2>2 DEF PL!KillSkip, PL!Advance, PL!sleepVars, PL!treeVars
    <2>3. CASE PL!KillHit(p)
      BY <2>3 DEF PL!KillHit, PL!Return, PL!kkill, PL!treeVars, PL!Goto
    <2>4. CASE PL!KillMiss(p)
      BY <2>4 DEF PL!KillMiss, PL!Return, PL!AtEnd, PL!sleepVars, PL!treeVars, PL!Goto
    <2> QED
      BY <1>2, <2>1, <2>2, <2>3, <2>4 DEF PL!Kill
  <1>3. ASSUME NEW p \in PL!Procs, PL!kwait(p) PROVE StateInv'
    <2>1. CASE PL!WaitCall(p)
      BY <2>1 DEF PL!WaitCall, PL!Syscall, PL!sleepVars, PL!treeVars, PL!localVars, PL!Goto
    <2>2. CASE PL!WaitLock(p)
      BY <2>2 DEF PL!WaitLock, PL!Goto, PL!acquire, PL!sleepVars, PL!treeVars
    <2>3. CASE PL!WaitSkip(p)
      BY <2>3 DEF PL!WaitSkip, PL!Advance, PL!sleepVars, PL!treeVars
    <2>4. CASE PL!Reap(p)
      BY <2>4 DEF PL!Reap, PL!Return, PL!release, PL!Goto
    <2>5. CASE PL!ReapFails(p)
      BY <2>5 DEF PL!ReapFails, PL!Return, PL!release, PL!sleepVars, PL!treeVars, PL!Goto
    <2>6. CASE PL!WaitNone(p)
      BY <2>6 DEF PL!WaitNone, PL!Return, PL!release, PL!AtEnd, PL!sleepVars, PL!treeVars, PL!Goto
    <2>7. CASE PL!WaitPrepare(p)
      BY <2>7 DEF PL!WaitPrepare, PL!Goto, PL!AtEnd, PL!sleep_prepare, PL!treeVars, PL!localVars
    <2>8. CASE PL!WaitUnlock(p)
      BY <2>8 DEF PL!WaitUnlock, PL!Goto, PL!release, PL!sleepVars, PL!treeVars, PL!localVars
    <2>9. CASE PL!WaitSleep(p)
      BY <2>9 DEF PL!WaitSleep, PL!Goto, PL!sleep, PL!treeVars, PL!localVars
    <2> QED
      BY <1>3, <2>1, <2>2, <2>3, <2>4, <2>5, <2>6, <2>7, <2>8, <2>9 DEF PL!kwait
  <1>4. ASSUME NEW p \in PL!Procs, PL!kexit(p) PROVE StateInv'
    <2>1. CASE PL!Exit(p)
      BY <2>1 DEF PL!Exit, PL!Goto, PL!sleepVars, PL!treeVars, PL!localVars
    <2>2. CASE PL!ExitLock(p)
      BY <2>2 DEF PL!ExitLock, PL!Goto, PL!acquire, PL!sleepVars, PL!treeVars
    <2>3. CASE PL!ReparentSkip(p)
      BY <2>3 DEF PL!ReparentSkip, PL!Advance, PL!sleepVars, PL!treeVars
    <2>4. CASE PL!Reparent(p)
      BY <2>4 DEF PL!Reparent, PL!Goto, PL!Advance, PL!WakeupCall
    <2>5. CASE PL!WakeInit(p)
      BY <2>5 DEF PL!WakeInit, PL!wakeup, PL!treeVars, PL!localVars
    <2>6. CASE PL!WakeInitDone(p)
      BY <2>6 DEF PL!WakeInitDone, PL!Goto, PL!WakeupDone, PL!sleepVars, PL!treeVars,
             PL!localVars
    <2>7. CASE PL!ReparentDone(p)
      BY <2>7 DEF PL!ReparentDone, PL!Goto, PL!AtEnd, PL!WakeupCall, PL!treeVars, PL!localVars
    <2>8. CASE PL!WakeParent(p)
      BY <2>8 DEF PL!WakeParent, PL!wakeup, PL!treeVars, PL!localVars
    <2>9. CASE PL!Zombie(p)
      BY <2>9 DEF PL!Zombie, PL!Goto, PL!release, PL!WakeupDone, PL!treeVars
    <2> QED
      BY <1>4, <2>1, <2>2, <2>3, <2>4, <2>5, <2>6, <2>7, <2>8, <2>9 DEF PL!kexit
  <1>5. CASE UNCHANGED PL!vars
    BY <1>5 DEF PL!vars, PL!sleepVars, PL!treeVars, PL!localVars
  <1> QED
    BY <1>1, <1>2, <1>3, <1>4, <1>5 DEF PL!Next, PL!Step

\* init does not exit
LEMMA InitStep ==
    ASSUME PL!TypeOK, StateInv, EmbryoInv, InitLives, [PL!Next]_(PL!vars)
    PROVE  InitLives'
  <1> USE LifeSlotFacts DEF PL!TypeOK, StateInv, InitLives, Exiting
  <1>1. ASSUME NEW p \in PL!Procs, PL!kfork(p) PROVE InitLives'
    <2>1. CASE PL!Fork(p) \/ PL!AllocSkip(p) \/ PL!AllocNone(p) \/ PL!Link(p)
      BY <2>1 DEF PL!Fork, PL!Syscall, PL!sleepVars, PL!treeVars, PL!localVars, PL!Goto,
             PL!AllocSkip, PL!Advance, PL!AllocNone, PL!Return, PL!AtEnd, PL!Link
    <2>2. CASE PL!Alloc(p)
      BY <2>2 DEF PL!Alloc, PL!Goto
    <2>3. CASE PL!AllocFails(p)
      BY <2>3 DEF PL!AllocFails, PL!Return, PL!Goto
    <2>4. CASE PL!Ready(p)
      BY <2>4 DEF PL!Ready, PL!treeVars, EmbryoInv, Forking
    <2> QED
      BY <1>1, <2>1, <2>2, <2>3, <2>4 DEF PL!kfork
  <1>2. ASSUME NEW p \in PL!Procs, PL!Kill(p) PROVE InitLives'
    <2>1. CASE PL!KillCall(p) \/ PL!KillSkip(p) \/ PL!KillMiss(p)
      BY <2>1 DEF PL!KillCall, PL!Syscall, PL!sleepVars, PL!treeVars, PL!Goto, PL!KillSkip,
             PL!Advance, PL!KillMiss, PL!Return, PL!AtEnd
    <2>2. CASE PL!KillHit(p)
      BY <2>2 DEF PL!KillHit, PL!Return, PL!kkill, PL!treeVars, PL!Goto
    <2> QED
      BY <1>2, <2>1, <2>2 DEF PL!Kill
  <1>3. ASSUME NEW p \in PL!Procs, PL!kwait(p) PROVE InitLives'
    <2>1. CASE PL!WaitCall(p) \/ PL!WaitLock(p) \/ PL!WaitSkip(p) \/ PL!ReapFails(p) \/
               PL!WaitNone(p) \/ PL!WaitPrepare(p) \/ PL!WaitUnlock(p)
      BY <2>1 DEF PL!WaitCall, PL!Syscall, PL!sleepVars, PL!treeVars, PL!localVars, PL!Goto,
             PL!WaitLock, PL!acquire, PL!WaitSkip, PL!Advance, PL!ReapFails, PL!Return, PL!release,
             PL!WaitNone, PL!AtEnd, PL!WaitPrepare, PL!sleep_prepare, PL!WaitUnlock
    <2>2. CASE PL!Reap(p)
      BY <2>2 DEF PL!Reap, PL!Return, PL!release, PL!Goto
    <2>3. CASE PL!WaitSleep(p)
      BY <2>3 DEF PL!WaitSleep, PL!Goto, PL!sleep, PL!treeVars, PL!localVars
    <2> QED
      BY <1>3, <2>1, <2>2, <2>3 DEF PL!kwait
  <1>4. ASSUME NEW p \in PL!Procs, PL!kexit(p) PROVE InitLives'
    <2>1. CASE PL!Exit(p) \/ PL!ExitLock(p) \/ PL!ReparentSkip(p) \/ PL!Reparent(p) \/
               PL!WakeInit(p) \/ PL!WakeInitDone(p) \/ PL!ReparentDone(p) \/
               PL!WakeParent(p)
      BY <2>1 DEF PL!Exit, PL!Goto, PL!sleepVars, PL!treeVars, PL!localVars, PL!ExitLock,
             PL!acquire, PL!ReparentSkip, PL!Advance, PL!Reparent, PL!WakeupCall, PL!WakeInit,
             PL!wakeup, PL!WakeInitDone, PL!WakeupDone, PL!ReparentDone, PL!AtEnd, PL!WakeParent
    <2>2. CASE PL!Zombie(p)
      BY <2>2 DEF PL!Zombie, PL!Goto, PL!release, PL!WakeupDone, PL!treeVars
    <2> QED
      BY <1>4, <2>1, <2>2 DEF PL!kexit
  <1>5. CASE UNCHANGED PL!vars
    BY <1>5 DEF PL!vars, PL!sleepVars, PL!treeVars, PL!localVars
  <1> QED
    BY <1>1, <1>2, <1>3, <1>4, <1>5 DEF PL!Next, PL!Step

\* allocpid() gives each pid once
LEMMA PidStep ==
    ASSUME PL!TypeOK, PidInv, [PL!Next]_(PL!vars)
    PROVE  PidInv'
  <1> USE LifeSlotFacts, PidFacts DEF PL!TypeOK, PidInv
  <1>1. ASSUME NEW p \in PL!Procs, PL!kfork(p) PROVE PidInv'
    <2>1. CASE PL!Fork(p)
      BY <2>1 DEF PL!Fork, PL!Syscall, PL!sleepVars, PL!treeVars, PL!localVars, PL!Goto
    <2>2. CASE PL!AllocSkip(p)
      BY <2>2 DEF PL!AllocSkip, PL!Advance, PL!sleepVars, PL!treeVars
    <2>3. CASE PL!Alloc(p)
      BY <2>3 DEF PL!Alloc, PL!Goto
    <2>4. CASE PL!AllocFails(p)
      BY <2>4 DEF PL!AllocFails, PL!Return, PL!Goto
    <2>5. CASE PL!AllocNone(p)
      BY <2>5 DEF PL!AllocNone, PL!Return, PL!AtEnd, PL!sleepVars, PL!treeVars, PL!Goto
    <2>6. CASE PL!Link(p)
      BY <2>6 DEF PL!Link, PL!Goto, PL!sleepVars, PL!localVars
    <2>7. CASE PL!Ready(p)
      BY <2>7 DEF PL!Ready, PL!treeVars
    <2> QED
      BY <1>1, <2>1, <2>2, <2>3, <2>4, <2>5, <2>6, <2>7 DEF PL!kfork
  <1>2. ASSUME NEW p \in PL!Procs, PL!Kill(p) PROVE PidInv'
    <2>1. CASE PL!KillCall(p)
      BY <2>1 DEF PL!KillCall, PL!Syscall, PL!sleepVars, PL!treeVars, PL!Goto
    <2>2. CASE PL!KillSkip(p)
      BY <2>2 DEF PL!KillSkip, PL!Advance, PL!sleepVars, PL!treeVars
    <2>3. CASE PL!KillHit(p)
      BY <2>3 DEF PL!KillHit, PL!Return, PL!kkill, PL!treeVars, PL!Goto
    <2>4. CASE PL!KillMiss(p)
      BY <2>4 DEF PL!KillMiss, PL!Return, PL!AtEnd, PL!sleepVars, PL!treeVars, PL!Goto
    <2> QED
      BY <1>2, <2>1, <2>2, <2>3, <2>4 DEF PL!Kill
  <1>3. ASSUME NEW p \in PL!Procs, PL!kwait(p) PROVE PidInv'
    <2>1. CASE PL!WaitCall(p)
      BY <2>1 DEF PL!WaitCall, PL!Syscall, PL!sleepVars, PL!treeVars, PL!localVars, PL!Goto
    <2>2. CASE PL!WaitLock(p)
      BY <2>2 DEF PL!WaitLock, PL!Goto, PL!acquire, PL!sleepVars, PL!treeVars
    <2>3. CASE PL!WaitSkip(p)
      BY <2>3 DEF PL!WaitSkip, PL!Advance, PL!sleepVars, PL!treeVars
    <2>4. CASE PL!Reap(p)
      BY <2>4 DEF PL!Reap, PL!Return, PL!release, PL!Goto
    <2>5. CASE PL!ReapFails(p)
      BY <2>5 DEF PL!ReapFails, PL!Return, PL!release, PL!sleepVars, PL!treeVars, PL!Goto
    <2>6. CASE PL!WaitNone(p)
      BY <2>6 DEF PL!WaitNone, PL!Return, PL!release, PL!AtEnd, PL!sleepVars, PL!treeVars, PL!Goto
    <2>7. CASE PL!WaitPrepare(p)
      BY <2>7 DEF PL!WaitPrepare, PL!Goto, PL!AtEnd, PL!sleep_prepare, PL!treeVars, PL!localVars
    <2>8. CASE PL!WaitUnlock(p)
      BY <2>8 DEF PL!WaitUnlock, PL!Goto, PL!release, PL!sleepVars, PL!treeVars, PL!localVars
    <2>9. CASE PL!WaitSleep(p)
      BY <2>9 DEF PL!WaitSleep, PL!Goto, PL!sleep, PL!treeVars, PL!localVars
    <2> QED
      BY <1>3, <2>1, <2>2, <2>3, <2>4, <2>5, <2>6, <2>7, <2>8, <2>9 DEF PL!kwait
  <1>4. ASSUME NEW p \in PL!Procs, PL!kexit(p) PROVE PidInv'
    <2>1. CASE PL!Exit(p)
      BY <2>1 DEF PL!Exit, PL!Goto, PL!sleepVars, PL!treeVars, PL!localVars
    <2>2. CASE PL!ExitLock(p)
      BY <2>2 DEF PL!ExitLock, PL!Goto, PL!acquire, PL!sleepVars, PL!treeVars
    <2>3. CASE PL!ReparentSkip(p)
      BY <2>3 DEF PL!ReparentSkip, PL!Advance, PL!sleepVars, PL!treeVars
    <2>4. CASE PL!Reparent(p)
      BY <2>4 DEF PL!Reparent, PL!Goto, PL!Advance, PL!WakeupCall
    <2>5. CASE PL!WakeInit(p)
      BY <2>5 DEF PL!WakeInit, PL!wakeup, PL!treeVars, PL!localVars
    <2>6. CASE PL!WakeInitDone(p)
      BY <2>6 DEF PL!WakeInitDone, PL!Goto, PL!WakeupDone, PL!sleepVars, PL!treeVars,
             PL!localVars
    <2>7. CASE PL!ReparentDone(p)
      BY <2>7 DEF PL!ReparentDone, PL!Goto, PL!AtEnd, PL!WakeupCall, PL!treeVars, PL!localVars
    <2>8. CASE PL!WakeParent(p)
      BY <2>8 DEF PL!WakeParent, PL!wakeup, PL!treeVars, PL!localVars
    <2>9. CASE PL!Zombie(p)
      BY <2>9 DEF PL!Zombie, PL!Goto, PL!release, PL!WakeupDone, PL!treeVars
    <2> QED
      BY <1>4, <2>1, <2>2, <2>3, <2>4, <2>5, <2>6, <2>7, <2>8, <2>9 DEF PL!kexit
  <1>5. CASE UNCHANGED PL!vars
    BY <1>5 DEF PL!vars, PL!sleepVars, PL!treeVars, PL!localVars
  <1> QED
    BY <1>1, <1>2, <1>3, <1>4, <1>5 DEF PL!Next, PL!Step

\* the slot that kfork() found is its own until it is RUNNABLE
LEMMA EmbryoStep ==
    ASSUME PL!TypeOK, LifeLockInv, StateInv, PidInv, EmbryoInv, [PL!Next]_(PL!vars)
    PROVE  EmbryoInv'
  <1> USE LifeSlotFacts, PidFacts DEF PL!TypeOK, LifeLockInv, StateInv, EmbryoInv,
          Forking, Locked
  <1>1. ASSUME NEW p \in PL!Procs, PL!kfork(p) PROVE EmbryoInv'
    <2>1. CASE PL!Fork(p)
      BY <2>1 DEF PL!Fork, PL!Syscall, PL!sleepVars, PL!treeVars, PL!localVars, PL!Goto
    <2>2. CASE PL!AllocSkip(p)
      BY <2>2 DEF PL!AllocSkip, PL!Advance, PL!sleepVars, PL!treeVars
    <2>3. CASE PL!Alloc(p)
      <3> DEFINE np == pp[p]
      <3>1. /\ procpc[p] = "alloc" /\ procpc' = [procpc EXCEPT ![p] = "link"]
            /\ np \in PL!Procs /\ state[np] = "UNUSED" /\ nextpid \in PL!Pids
            /\ state' = [state EXCEPT ![np] = "USED"] /\ parent' = parent
            /\ procpid' = [procpid EXCEPT ![np] = nextpid]
            /\ arg' = [arg EXCEPT ![p] = np]
            /\ bornTo' = [bornTo EXCEPT ![nextpid] = procpid[p]]
        BY <2>3 DEF PL!Alloc, PL!Goto
      <3>2. np # p /\ procpc[np] = "none" /\ parent[np] = 0
        BY <3>1
      <3>3. ASSUME NEW q \in PL!Procs, procpc[q] \in Forking
            PROVE  /\ q # p /\ q # np /\ arg[q] # np
                   /\ procpid'[arg[q]] = procpid[arg[q]] /\ procpid'[q] = procpid[q]
                   /\ procpid[arg[q]] \in PL!Pids /\ procpid[arg[q]] # nextpid
        <4>1. arg[q] \in PL!Procs /\ state[arg[q]] = "USED" /\ q # p /\ q # np
          BY <3>1, <3>2, <3>3
        <4>2. procpid[arg[q]] < nextpid /\ procpid[arg[q]] # 0 /\ procpid[arg[q]] \in 0..MaxPid
          BY <4>1 DEF PidInv
        <4>3. procpid[arg[q]] \in PL!Pids
          BY <4>2, PidOf
        <4>4. procpid[arg[q]] # nextpid
          BY <4>2, <3>1
        <4>5. procpid'[arg[q]] = procpid[arg[q]] /\ procpid'[q] = procpid[q]
          BY <3>1, <3>2, <4>1
        <4> QED
          BY <3>1, <4>1, <4>3, <4>4, <4>5
      <3>4. ASSUME NEW q \in PL!Procs, procpc'[q] \in Forking, q # p
            PROVE  /\ arg'[q] \in PL!Procs /\ state'[arg'[q]] = "USED" /\ arg'[q] # np
                   /\ parent'[arg'[q]] = IF procpc'[q] = "link" THEN 0 ELSE q
                   /\ bornTo'[procpid'[arg'[q]]] = procpid'[q]
        BY <3>1, <3>3, <3>4
      <3>5. /\ arg'[p] = np /\ state'[np] = "USED" /\ parent'[np] = 0 /\ procpc'[p] = "link"
            /\ bornTo'[procpid'[np]] = procpid'[p]
        BY <3>1, <3>2
      <3>6. \A q \in PL!Procs : state'[q] = "UNUSED" => parent'[q] = 0
        BY <3>1
      <3> QED
        BY <3>1, <3>3, <3>4, <3>5, <3>6
    <2>4. CASE PL!AllocFails(p)
      BY <2>4 DEF PL!AllocFails, PL!Return, PL!Goto
    <2>5. CASE PL!AllocNone(p)
      BY <2>5 DEF PL!AllocNone, PL!Return, PL!AtEnd, PL!sleepVars, PL!treeVars, PL!Goto
    <2>6. CASE PL!Link(p)
      BY <2>6 DEF PL!Link, PL!Goto, PL!sleepVars, PL!localVars
    <2>7. CASE PL!Ready(p)
      BY <2>7 DEF PL!Ready, PL!treeVars
    <2> QED
      BY <1>1, <2>1, <2>2, <2>3, <2>4, <2>5, <2>6, <2>7 DEF PL!kfork
  <1>2. ASSUME NEW p \in PL!Procs, PL!Kill(p) PROVE EmbryoInv'
    <2>1. CASE PL!KillCall(p)
      BY <2>1 DEF PL!KillCall, PL!Syscall, PL!sleepVars, PL!treeVars, PL!Goto
    <2>2. CASE PL!KillSkip(p)
      BY <2>2 DEF PL!KillSkip, PL!Advance, PL!sleepVars, PL!treeVars
    <2>3. CASE PL!KillHit(p)
      BY <2>3 DEF PL!KillHit, PL!Return, PL!kkill, PL!treeVars, PL!Goto
    <2>4. CASE PL!KillMiss(p)
      BY <2>4 DEF PL!KillMiss, PL!Return, PL!AtEnd, PL!sleepVars, PL!treeVars, PL!Goto
    <2> QED
      BY <1>2, <2>1, <2>2, <2>3, <2>4 DEF PL!Kill
  <1>3. ASSUME NEW p \in PL!Procs, PL!kwait(p) PROVE EmbryoInv'
    <2>1. CASE PL!WaitCall(p)
      BY <2>1 DEF PL!WaitCall, PL!Syscall, PL!sleepVars, PL!treeVars, PL!localVars, PL!Goto
    <2>2. CASE PL!WaitLock(p)
      BY <2>2 DEF PL!WaitLock, PL!Goto, PL!acquire, PL!sleepVars, PL!treeVars
    <2>3. CASE PL!WaitSkip(p)
      BY <2>3 DEF PL!WaitSkip, PL!Advance, PL!sleepVars, PL!treeVars
    <2>4. CASE PL!Reap(p)
      BY <2>4 DEF PL!Reap, PL!Return, PL!release, PL!Goto
    <2>5. CASE PL!ReapFails(p)
      BY <2>5 DEF PL!ReapFails, PL!Return, PL!release, PL!sleepVars, PL!treeVars, PL!Goto
    <2>6. CASE PL!WaitNone(p)
      BY <2>6 DEF PL!WaitNone, PL!Return, PL!release, PL!AtEnd, PL!sleepVars, PL!treeVars, PL!Goto
    <2>7. CASE PL!WaitPrepare(p)
      BY <2>7 DEF PL!WaitPrepare, PL!Goto, PL!AtEnd, PL!sleep_prepare, PL!treeVars, PL!localVars
    <2>8. CASE PL!WaitUnlock(p)
      BY <2>8 DEF PL!WaitUnlock, PL!Goto, PL!release, PL!sleepVars, PL!treeVars, PL!localVars
    <2>9. CASE PL!WaitSleep(p)
      BY <2>9 DEF PL!WaitSleep, PL!Goto, PL!sleep, PL!treeVars, PL!localVars
    <2> QED
      BY <1>3, <2>1, <2>2, <2>3, <2>4, <2>5, <2>6, <2>7, <2>8, <2>9 DEF PL!kwait
  <1>4. ASSUME NEW p \in PL!Procs, PL!kexit(p) PROVE EmbryoInv'
    <2>1. CASE PL!Exit(p)
      BY <2>1 DEF PL!Exit, PL!Goto, PL!sleepVars, PL!treeVars, PL!localVars
    <2>2. CASE PL!ExitLock(p)
      BY <2>2 DEF PL!ExitLock, PL!Goto, PL!acquire, PL!sleepVars, PL!treeVars
    <2>3. CASE PL!ReparentSkip(p)
      BY <2>3 DEF PL!ReparentSkip, PL!Advance, PL!sleepVars, PL!treeVars
    <2>4. CASE PL!Reparent(p)
      BY <2>4 DEF PL!Reparent, PL!Goto, PL!Advance, PL!WakeupCall
    <2>5. CASE PL!WakeInit(p)
      BY <2>5 DEF PL!WakeInit, PL!wakeup, PL!treeVars, PL!localVars
    <2>6. CASE PL!WakeInitDone(p)
      BY <2>6 DEF PL!WakeInitDone, PL!Goto, PL!WakeupDone, PL!sleepVars, PL!treeVars,
             PL!localVars
    <2>7. CASE PL!ReparentDone(p)
      BY <2>7 DEF PL!ReparentDone, PL!Goto, PL!AtEnd, PL!WakeupCall, PL!treeVars, PL!localVars
    <2>8. CASE PL!WakeParent(p)
      BY <2>8 DEF PL!WakeParent, PL!wakeup, PL!treeVars, PL!localVars
    <2>9. CASE PL!Zombie(p)
      BY <2>9 DEF PL!Zombie, PL!Goto, PL!release, PL!WakeupDone, PL!treeVars
    <2> QED
      BY <1>4, <2>1, <2>2, <2>3, <2>4, <2>5, <2>6, <2>7, <2>8, <2>9 DEF PL!kexit
  <1>5. CASE UNCHANGED PL!vars
    BY <1>5 DEF PL!vars, PL!sleepVars, PL!treeVars, PL!localVars
  <1> QED
    BY <1>1, <1>2, <1>3, <1>4, <1>5 DEF PL!Next, PL!Step

\* reparent() leaves no child behind: others cannot fork or reparent meanwhile
LEMMA ChildStep ==
    ASSUME PL!TypeOK, LifeLockInv, StateInv, InitLives, EmbryoInv, ChildInv,
           [PL!Next]_(PL!vars)
    PROVE  ChildInv'
  <1> USE LifeSlotFacts DEF PL!TypeOK, LifeLockInv, ChildInv, Locked
  <1>1. ASSUME NEW p \in PL!Procs, PL!kfork(p) PROVE ChildInv'
    <2>1. CASE PL!Fork(p)
      BY <2>1 DEF PL!Fork, PL!Syscall, PL!sleepVars, PL!treeVars, PL!localVars, PL!Goto
    <2>2. CASE PL!AllocSkip(p)
      BY <2>2 DEF PL!AllocSkip, PL!Advance, PL!sleepVars, PL!treeVars
    <2>3. CASE PL!Alloc(p)
      BY <2>3 DEF PL!Alloc, PL!Goto
    <2>4. CASE PL!AllocFails(p)
      BY <2>4 DEF PL!AllocFails, PL!Return, PL!Goto
    <2>5. CASE PL!AllocNone(p)
      BY <2>5 DEF PL!AllocNone, PL!Return, PL!AtEnd, PL!sleepVars, PL!treeVars, PL!Goto
    <2>6. CASE PL!Link(p)
      BY <2>6 DEF PL!Link, PL!Goto, PL!sleepVars, PL!localVars
    <2>7. CASE PL!Ready(p)
      BY <2>7 DEF PL!Ready, PL!treeVars, EmbryoInv, Forking, StateInv
    <2> QED
      BY <1>1, <2>1, <2>2, <2>3, <2>4, <2>5, <2>6, <2>7 DEF PL!kfork
  <1>2. ASSUME NEW p \in PL!Procs, PL!Kill(p) PROVE ChildInv'
    <2>1. CASE PL!KillCall(p)
      BY <2>1 DEF PL!KillCall, PL!Syscall, PL!sleepVars, PL!treeVars, PL!Goto
    <2>2. CASE PL!KillSkip(p)
      BY <2>2 DEF PL!KillSkip, PL!Advance, PL!sleepVars, PL!treeVars
    <2>3. CASE PL!KillHit(p)
      BY <2>3 DEF PL!KillHit, PL!Return, PL!kkill, PL!treeVars, PL!Goto
    <2>4. CASE PL!KillMiss(p)
      BY <2>4 DEF PL!KillMiss, PL!Return, PL!AtEnd, PL!sleepVars, PL!treeVars, PL!Goto
    <2> QED
      BY <1>2, <2>1, <2>2, <2>3, <2>4 DEF PL!Kill
  <1>3. ASSUME NEW p \in PL!Procs, PL!kwait(p) PROVE ChildInv'
    <2>1. CASE PL!WaitCall(p)
      BY <2>1 DEF PL!WaitCall, PL!Syscall, PL!sleepVars, PL!treeVars, PL!localVars, PL!Goto
    <2>2. CASE PL!WaitLock(p)
      BY <2>2 DEF PL!WaitLock, PL!Goto, PL!acquire, PL!sleepVars, PL!treeVars
    <2>3. CASE PL!WaitSkip(p)
      BY <2>3 DEF PL!WaitSkip, PL!Advance, PL!sleepVars, PL!treeVars
    <2>4. CASE PL!Reap(p)
      BY <2>4 DEF PL!Reap, PL!Return, PL!release, PL!Goto
    <2>5. CASE PL!ReapFails(p)
      BY <2>5 DEF PL!ReapFails, PL!Return, PL!release, PL!sleepVars, PL!treeVars, PL!Goto
    <2>6. CASE PL!WaitNone(p)
      BY <2>6 DEF PL!WaitNone, PL!Return, PL!release, PL!AtEnd, PL!sleepVars, PL!treeVars, PL!Goto
    <2>7. CASE PL!WaitPrepare(p)
      BY <2>7 DEF PL!WaitPrepare, PL!Goto, PL!AtEnd, PL!sleep_prepare, PL!treeVars, PL!localVars
    <2>8. CASE PL!WaitUnlock(p)
      BY <2>8 DEF PL!WaitUnlock, PL!Goto, PL!release, PL!sleepVars, PL!treeVars, PL!localVars
    <2>9. CASE PL!WaitSleep(p)
      BY <2>9 DEF PL!WaitSleep, PL!Goto, PL!sleep, PL!treeVars, PL!localVars
    <2> QED
      BY <1>3, <2>1, <2>2, <2>3, <2>4, <2>5, <2>6, <2>7, <2>8, <2>9 DEF PL!kwait
  <1>4. ASSUME NEW p \in PL!Procs, PL!kexit(p) PROVE ChildInv'
    <2>1. CASE PL!Exit(p)
      BY <2>1 DEF PL!Exit, PL!Goto, PL!sleepVars, PL!treeVars, PL!localVars
    <2>2. CASE PL!ExitLock(p)
      BY <2>2 DEF PL!ExitLock, PL!Goto, PL!acquire, PL!sleepVars, PL!treeVars
    <2>3. CASE PL!ReparentSkip(p)
      BY <2>3 DEF PL!ReparentSkip, PL!Advance, PL!sleepVars, PL!treeVars
    <2>4. CASE PL!Reparent(p)
      BY <2>4 DEF PL!Reparent, PL!Goto, PL!Advance, PL!WakeupCall, InitLives, Exiting
    <2>5. CASE PL!WakeInit(p)
      BY <2>5 DEF PL!WakeInit, PL!wakeup, PL!treeVars, PL!localVars
    <2>6. CASE PL!WakeInitDone(p)
      BY <2>6 DEF PL!WakeInitDone, PL!Goto, PL!WakeupDone, PL!sleepVars, PL!treeVars,
             PL!localVars
    <2>7. CASE PL!ReparentDone(p)
      BY <2>7 DEF PL!ReparentDone, PL!Goto, PL!AtEnd, PL!WakeupCall, PL!treeVars, PL!localVars
    <2>8. CASE PL!WakeParent(p)
      BY <2>8 DEF PL!WakeParent, PL!wakeup, PL!treeVars, PL!localVars
    <2>9. CASE PL!Zombie(p)
      BY <2>9 DEF PL!Zombie, PL!Goto, PL!release, PL!WakeupDone, PL!treeVars
    <2> QED
      BY <1>4, <2>1, <2>2, <2>3, <2>4, <2>5, <2>6, <2>7, <2>8, <2>9 DEF PL!kexit
  <1>5. CASE UNCHANGED PL!vars
    BY <1>5 DEF PL!vars, PL!sleepVars, PL!treeVars, PL!localVars
  <1> QED
    BY <1>1, <1>2, <1>3, <1>4, <1>5 DEF PL!Next, PL!Step

\* a parent is live: who exits has no children left
LEMMA ParentStep ==
    ASSUME PL!TypeOK, LifeLockInv, StateInv, InitLives, PidInv, EmbryoInv, ChildInv,
           PL!ParentAlive, [PL!Next]_(PL!vars)
    PROVE  PL!ParentAlive'
  <1> USE LifeSlotFacts, PidFacts DEF PL!TypeOK, StateInv, PL!ParentAlive, PL!Alive
  <1>1. ASSUME NEW p \in PL!Procs, PL!kfork(p) PROVE PL!ParentAlive'
    <2>1. CASE PL!Fork(p)
      BY <2>1 DEF PL!Fork, PL!Syscall, PL!sleepVars, PL!treeVars, PL!localVars, PL!Goto
    <2>2. CASE PL!AllocSkip(p)
      BY <2>2 DEF PL!AllocSkip, PL!Advance, PL!sleepVars, PL!treeVars
    <2>3. CASE PL!Alloc(p)
      BY <2>3 DEF PL!Alloc, PL!Goto, PidInv, EmbryoInv
    <2>4. CASE PL!AllocFails(p)
      BY <2>4 DEF PL!AllocFails, PL!Return, PL!Goto
    <2>5. CASE PL!AllocNone(p)
      BY <2>5 DEF PL!AllocNone, PL!Return, PL!AtEnd, PL!sleepVars, PL!treeVars, PL!Goto
    <2>6. CASE PL!Link(p)
      BY <2>6 DEF PL!Link, PL!Goto, PL!sleepVars, PL!localVars, EmbryoInv, Forking
    <2>7. CASE PL!Ready(p)
      BY <2>7 DEF PL!Ready, PL!treeVars, EmbryoInv, Forking
    <2> QED
      BY <1>1, <2>1, <2>2, <2>3, <2>4, <2>5, <2>6, <2>7 DEF PL!kfork
  <1>2. ASSUME NEW p \in PL!Procs, PL!Kill(p) PROVE PL!ParentAlive'
    <2>1. CASE PL!KillCall(p)
      BY <2>1 DEF PL!KillCall, PL!Syscall, PL!sleepVars, PL!treeVars, PL!Goto
    <2>2. CASE PL!KillSkip(p)
      BY <2>2 DEF PL!KillSkip, PL!Advance, PL!sleepVars, PL!treeVars
    <2>3. CASE PL!KillHit(p)
      BY <2>3 DEF PL!KillHit, PL!Return, PL!kkill, PL!treeVars, PL!Goto
    <2>4. CASE PL!KillMiss(p)
      BY <2>4 DEF PL!KillMiss, PL!Return, PL!AtEnd, PL!sleepVars, PL!treeVars, PL!Goto
    <2> QED
      BY <1>2, <2>1, <2>2, <2>3, <2>4 DEF PL!Kill
  <1>3. ASSUME NEW p \in PL!Procs, PL!kwait(p) PROVE PL!ParentAlive'
    <2>1. CASE PL!WaitCall(p)
      BY <2>1 DEF PL!WaitCall, PL!Syscall, PL!sleepVars, PL!treeVars, PL!localVars, PL!Goto
    <2>2. CASE PL!WaitLock(p)
      BY <2>2 DEF PL!WaitLock, PL!Goto, PL!acquire, PL!sleepVars, PL!treeVars
    <2>3. CASE PL!WaitSkip(p)
      BY <2>3 DEF PL!WaitSkip, PL!Advance, PL!sleepVars, PL!treeVars
    <2>4. CASE PL!Reap(p)
      BY <2>4 DEF PL!Reap, PL!Return, PL!release, PL!Goto
    <2>5. CASE PL!ReapFails(p)
      BY <2>5 DEF PL!ReapFails, PL!Return, PL!release, PL!sleepVars, PL!treeVars, PL!Goto
    <2>6. CASE PL!WaitNone(p)
      BY <2>6 DEF PL!WaitNone, PL!Return, PL!release, PL!AtEnd, PL!sleepVars, PL!treeVars, PL!Goto
    <2>7. CASE PL!WaitPrepare(p)
      BY <2>7 DEF PL!WaitPrepare, PL!Goto, PL!AtEnd, PL!sleep_prepare, PL!treeVars, PL!localVars
    <2>8. CASE PL!WaitUnlock(p)
      BY <2>8 DEF PL!WaitUnlock, PL!Goto, PL!release, PL!sleepVars, PL!treeVars, PL!localVars
    <2>9. CASE PL!WaitSleep(p)
      BY <2>9 DEF PL!WaitSleep, PL!Goto, PL!sleep, PL!treeVars, PL!localVars
    <2> QED
      BY <1>3, <2>1, <2>2, <2>3, <2>4, <2>5, <2>6, <2>7, <2>8, <2>9 DEF PL!kwait
  <1>4. ASSUME NEW p \in PL!Procs, PL!kexit(p) PROVE PL!ParentAlive'
    <2>1. CASE PL!Exit(p)
      BY <2>1 DEF PL!Exit, PL!Goto, PL!sleepVars, PL!treeVars, PL!localVars
    <2>2. CASE PL!ExitLock(p)
      BY <2>2 DEF PL!ExitLock, PL!Goto, PL!acquire, PL!sleepVars, PL!treeVars
    <2>3. CASE PL!ReparentSkip(p)
      BY <2>3 DEF PL!ReparentSkip, PL!Advance, PL!sleepVars, PL!treeVars
    <2>4. CASE PL!Reparent(p)
      BY <2>4 DEF PL!Reparent, PL!Goto, PL!Advance, PL!WakeupCall, InitLives
    <2>5. CASE PL!WakeInit(p)
      BY <2>5 DEF PL!WakeInit, PL!wakeup, PL!treeVars, PL!localVars
    <2>6. CASE PL!WakeInitDone(p)
      BY <2>6 DEF PL!WakeInitDone, PL!Goto, PL!WakeupDone, PL!sleepVars, PL!treeVars,
             PL!localVars
    <2>7. CASE PL!ReparentDone(p)
      BY <2>7 DEF PL!ReparentDone, PL!Goto, PL!AtEnd, PL!WakeupCall, PL!treeVars, PL!localVars
    <2>8. CASE PL!WakeParent(p)
      BY <2>8 DEF PL!WakeParent, PL!wakeup, PL!treeVars, PL!localVars
    <2>9. CASE PL!Zombie(p)
      BY <2>9 DEF PL!Zombie, PL!Goto, PL!release, PL!WakeupDone, PL!treeVars, ChildInv
    <2> QED
      BY <1>4, <2>1, <2>2, <2>3, <2>4, <2>5, <2>6, <2>7, <2>8, <2>9 DEF PL!kexit
  <1>5. CASE UNCHANGED PL!vars
    BY <1>5 DEF PL!vars, PL!sleepVars, PL!treeVars, PL!localVars
  <1> QED
    BY <1>1, <1>2, <1>3, <1>4, <1>5 DEF PL!Next, PL!Step

-----------------------------------------------------------------------------
(* Who sleeps in kwait() *)

\* p has registered its channel, and is asleep or will be unless woken up
LifeWaits(p) == \/ procpc[p] \in {"waitunlock", "waitsleep"} /\ chan[p] # PL!NoChan
            \/ state[p] = "SLEEPING"

\* kwait() has passed no child that has exited
SeenInv == \A p, c \in PL!Procs :
    procpc[p] = "wait" /\ c < pp[p] /\ parent[c] = p => state[c] # "ZOMBIE"

\* the wakeup() of kexit() has passed the parent: it does not wait any more
CallInv == \A c, p \in PL!Procs :
    procpc[c] = "exitwake" /\ parent[c] = p /\ p < scan[c] => ~LifeWaits(p)

\* whoever waits has no child that has exited, but for init's new children
Told == \A c, p \in PL!Procs :
    state[c] = "ZOMBIE" /\ parent[c] = p /\ LifeWaits(p) =>
        \E w \in PL!Procs : procpc[w] = "rewake" /\ p = PL!initproc /\ scan[w] <= p

WaitInv == SeenInv /\ CallInv /\ Told

\* nobody turns ZOMBIE behind a walk of kwait(), which holds wait_lock
LEMMA SeenStep ==
    ASSUME PL!TypeOK, LifeLockInv, StateInv, EmbryoInv, SeenInv, [PL!Next]_(PL!vars)
    PROVE  SeenInv'
  <1> USE LifeSlotFacts DEF PL!TypeOK, LifeLockInv, Locked, StateInv, SeenInv
  <1>1. ASSUME NEW p \in PL!Procs, PL!kfork(p) PROVE SeenInv'
    <2>1. CASE PL!Fork(p)
      BY <2>1 DEF PL!Fork, PL!Syscall, PL!sleepVars, PL!treeVars, PL!localVars, PL!Goto
    <2>2. CASE PL!AllocSkip(p)
      BY <2>2 DEF PL!AllocSkip, PL!Advance, PL!sleepVars, PL!treeVars
    <2>3. CASE PL!Alloc(p)
      BY <2>3 DEF PL!Alloc, PL!Goto
    <2>4. CASE PL!AllocFails(p)
      BY <2>4 DEF PL!AllocFails, PL!Return, PL!Goto
    <2>5. CASE PL!AllocNone(p)
      BY <2>5 DEF PL!AllocNone, PL!Return, PL!AtEnd, PL!sleepVars, PL!treeVars, PL!Goto
    <2>6. CASE PL!Link(p)
      BY <2>6 DEF PL!Link, PL!Goto, PL!sleepVars, PL!localVars, EmbryoInv, Forking
    <2>7. CASE PL!Ready(p)
      BY <2>7 DEF PL!Ready, PL!treeVars, EmbryoInv, Forking
    <2> QED
      BY <1>1, <2>1, <2>2, <2>3, <2>4, <2>5, <2>6, <2>7 DEF PL!kfork
  <1>2. ASSUME NEW p \in PL!Procs, PL!Kill(p) PROVE SeenInv'
    <2>1. CASE PL!KillCall(p)
      BY <2>1 DEF PL!KillCall, PL!Syscall, PL!sleepVars, PL!treeVars, PL!Goto
    <2>2. CASE PL!KillSkip(p)
      BY <2>2 DEF PL!KillSkip, PL!Advance, PL!sleepVars, PL!treeVars
    <2>3. CASE PL!KillHit(p)
      BY <2>3 DEF PL!KillHit, PL!Return, PL!kkill, PL!treeVars, PL!Goto
    <2>4. CASE PL!KillMiss(p)
      BY <2>4 DEF PL!KillMiss, PL!Return, PL!AtEnd, PL!sleepVars, PL!treeVars, PL!Goto
    <2> QED
      BY <1>2, <2>1, <2>2, <2>3, <2>4 DEF PL!Kill
  <1>3. ASSUME NEW p \in PL!Procs, PL!kwait(p) PROVE SeenInv'
    <2>1. CASE PL!WaitCall(p)
      BY <2>1 DEF PL!WaitCall, PL!Syscall, PL!sleepVars, PL!treeVars, PL!localVars, PL!Goto
    <2>2. CASE PL!WaitLock(p)
      BY <2>2 DEF PL!WaitLock, PL!Goto, PL!acquire, PL!sleepVars, PL!treeVars
    <2>3. CASE PL!WaitSkip(p)
      BY <2>3 DEF PL!WaitSkip, PL!Advance, PL!sleepVars, PL!treeVars
    <2>4. CASE PL!Reap(p)
      BY <2>4 DEF PL!Reap, PL!Return, PL!release, PL!Goto
    <2>5. CASE PL!ReapFails(p)
      BY <2>5 DEF PL!ReapFails, PL!Return, PL!release, PL!sleepVars, PL!treeVars, PL!Goto
    <2>6. CASE PL!WaitNone(p)
      BY <2>6 DEF PL!WaitNone, PL!Return, PL!release, PL!AtEnd, PL!sleepVars, PL!treeVars, PL!Goto
    <2>7. CASE PL!WaitPrepare(p)
      BY <2>7 DEF PL!WaitPrepare, PL!Goto, PL!AtEnd, PL!sleep_prepare, PL!treeVars, PL!localVars
    <2>8. CASE PL!WaitUnlock(p)
      BY <2>8 DEF PL!WaitUnlock, PL!Goto, PL!release, PL!sleepVars, PL!treeVars, PL!localVars
    <2>9. CASE PL!WaitSleep(p)
      BY <2>9 DEF PL!WaitSleep, PL!Goto, PL!sleep, PL!treeVars, PL!localVars
    <2> QED
      BY <1>3, <2>1, <2>2, <2>3, <2>4, <2>5, <2>6, <2>7, <2>8, <2>9 DEF PL!kwait
  <1>4. ASSUME NEW p \in PL!Procs, PL!kexit(p) PROVE SeenInv'
    <2>1. CASE PL!Exit(p)
      BY <2>1 DEF PL!Exit, PL!Goto, PL!sleepVars, PL!treeVars, PL!localVars
    <2>2. CASE PL!ExitLock(p)
      BY <2>2 DEF PL!ExitLock, PL!Goto, PL!acquire, PL!sleepVars, PL!treeVars
    <2>3. CASE PL!ReparentSkip(p)
      BY <2>3 DEF PL!ReparentSkip, PL!Advance, PL!sleepVars, PL!treeVars
    <2>4. CASE PL!Reparent(p)
      BY <2>4 DEF PL!Reparent, PL!Goto, PL!Advance, PL!WakeupCall
    <2>5. CASE PL!WakeInit(p)
      BY <2>5 DEF PL!WakeInit, PL!wakeup, PL!treeVars, PL!localVars
    <2>6. CASE PL!WakeInitDone(p)
      BY <2>6 DEF PL!WakeInitDone, PL!Goto, PL!WakeupDone, PL!sleepVars, PL!treeVars,
             PL!localVars
    <2>7. CASE PL!ReparentDone(p)
      BY <2>7 DEF PL!ReparentDone, PL!Goto, PL!AtEnd, PL!WakeupCall, PL!treeVars, PL!localVars
    <2>8. CASE PL!WakeParent(p)
      BY <2>8 DEF PL!WakeParent, PL!wakeup, PL!treeVars, PL!localVars
    <2>9. CASE PL!Zombie(p)
      BY <2>9 DEF PL!Zombie, PL!Goto, PL!release, PL!WakeupDone, PL!treeVars
    <2> QED
      BY <1>4, <2>1, <2>2, <2>3, <2>4, <2>5, <2>6, <2>7, <2>8, <2>9 DEF PL!kexit
  <1>5. CASE UNCHANGED PL!vars
    BY <1>5 DEF PL!vars, PL!sleepVars, PL!treeVars, PL!localVars
  <1> QED
    BY <1>1, <1>2, <1>3, <1>4, <1>5 DEF PL!Next, PL!Step

\* the parent that the wakeup() of kexit() has passed cannot wait again yet
LEMMA CallStep ==
    ASSUME PL!TypeOK, LifeLockInv, StateInv, EmbryoInv, CallInv, [PL!Next]_(PL!vars)
    PROVE  CallInv'
  <1> USE LifeSlotFacts, ChanFacts DEF PL!TypeOK, LifeLockInv, Locked, StateInv, CallInv,
          LifeWaits
  <1>1. ASSUME NEW p \in PL!Procs, PL!kfork(p) PROVE CallInv'
    <2>1. CASE PL!Fork(p)
      BY <2>1 DEF PL!Fork, PL!Syscall, PL!sleepVars, PL!treeVars, PL!localVars, PL!Goto
    <2>2. CASE PL!AllocSkip(p)
      BY <2>2 DEF PL!AllocSkip, PL!Advance, PL!sleepVars, PL!treeVars
    <2>3. CASE PL!Alloc(p)
      BY <2>3 DEF PL!Alloc, PL!Goto
    <2>4. CASE PL!AllocFails(p)
      BY <2>4 DEF PL!AllocFails, PL!Return, PL!Goto
    <2>5. CASE PL!AllocNone(p)
      BY <2>5 DEF PL!AllocNone, PL!Return, PL!AtEnd, PL!sleepVars, PL!treeVars, PL!Goto
    <2>6. CASE PL!Link(p)
      BY <2>6 DEF PL!Link, PL!Goto, PL!sleepVars, PL!localVars, EmbryoInv, Forking
    <2>7. CASE PL!Ready(p)
      BY <2>7 DEF PL!Ready, PL!treeVars, EmbryoInv, Forking
    <2> QED
      BY <1>1, <2>1, <2>2, <2>3, <2>4, <2>5, <2>6, <2>7 DEF PL!kfork
  <1>2. ASSUME NEW p \in PL!Procs, PL!Kill(p) PROVE CallInv'
    <2>1. CASE PL!KillCall(p)
      BY <2>1 DEF PL!KillCall, PL!Syscall, PL!sleepVars, PL!treeVars, PL!Goto
    <2>2. CASE PL!KillSkip(p)
      BY <2>2 DEF PL!KillSkip, PL!Advance, PL!sleepVars, PL!treeVars
    <2>3. CASE PL!KillHit(p)
      BY <2>3 DEF PL!KillHit, PL!Return, PL!kkill, PL!treeVars, PL!Goto
    <2>4. CASE PL!KillMiss(p)
      BY <2>4 DEF PL!KillMiss, PL!Return, PL!AtEnd, PL!sleepVars, PL!treeVars, PL!Goto
    <2> QED
      BY <1>2, <2>1, <2>2, <2>3, <2>4 DEF PL!Kill
  <1>3. ASSUME NEW p \in PL!Procs, PL!kwait(p) PROVE CallInv'
    <2>1. CASE PL!WaitCall(p)
      BY <2>1 DEF PL!WaitCall, PL!Syscall, PL!sleepVars, PL!treeVars, PL!localVars, PL!Goto
    <2>2. CASE PL!WaitLock(p)
      BY <2>2 DEF PL!WaitLock, PL!Goto, PL!acquire, PL!sleepVars, PL!treeVars
    <2>3. CASE PL!WaitSkip(p)
      BY <2>3 DEF PL!WaitSkip, PL!Advance, PL!sleepVars, PL!treeVars
    <2>4. CASE PL!Reap(p)
      BY <2>4 DEF PL!Reap, PL!Return, PL!release, PL!Goto
    <2>5. CASE PL!ReapFails(p)
      BY <2>5 DEF PL!ReapFails, PL!Return, PL!release, PL!sleepVars, PL!treeVars, PL!Goto
    <2>6. CASE PL!WaitNone(p)
      BY <2>6 DEF PL!WaitNone, PL!Return, PL!release, PL!AtEnd, PL!sleepVars, PL!treeVars, PL!Goto
    <2>7. CASE PL!WaitPrepare(p)
      BY <2>7 DEF PL!WaitPrepare, PL!Goto, PL!AtEnd, PL!sleep_prepare, PL!treeVars, PL!localVars
    <2>8. CASE PL!WaitUnlock(p)
      BY <2>8 DEF PL!WaitUnlock, PL!Goto, PL!release, PL!sleepVars, PL!treeVars, PL!localVars
    <2>9. CASE PL!WaitSleep(p)
      BY <2>9 DEF PL!WaitSleep, PL!Goto, PL!sleep, PL!treeVars, PL!localVars
    <2> QED
      BY <1>3, <2>1, <2>2, <2>3, <2>4, <2>5, <2>6, <2>7, <2>8, <2>9 DEF PL!kwait
  <1>4. ASSUME NEW p \in PL!Procs, PL!kexit(p) PROVE CallInv'
    <2>1. CASE PL!Exit(p)
      BY <2>1 DEF PL!Exit, PL!Goto, PL!sleepVars, PL!treeVars, PL!localVars
    <2>2. CASE PL!ExitLock(p)
      BY <2>2 DEF PL!ExitLock, PL!Goto, PL!acquire, PL!sleepVars, PL!treeVars
    <2>3. CASE PL!ReparentSkip(p)
      BY <2>3 DEF PL!ReparentSkip, PL!Advance, PL!sleepVars, PL!treeVars
    <2>4. CASE PL!Reparent(p)
      BY <2>4 DEF PL!Reparent, PL!Goto, PL!Advance, PL!WakeupCall
    <2>5. CASE PL!WakeInit(p)
      BY <2>5 DEF PL!WakeInit, PL!wakeup, PL!treeVars, PL!localVars
    <2>6. CASE PL!WakeInitDone(p)
      BY <2>6 DEF PL!WakeInitDone, PL!Goto, PL!WakeupDone, PL!sleepVars, PL!treeVars,
             PL!localVars
    <2>7. CASE PL!ReparentDone(p)
      BY <2>7 DEF PL!ReparentDone, PL!Goto, PL!AtEnd, PL!WakeupCall, PL!treeVars, PL!localVars
    <2>8. CASE PL!WakeParent(p)
      BY <2>8 DEF PL!WakeParent, PL!wakeup, PL!treeVars, PL!localVars
    <2>9. CASE PL!Zombie(p)
      BY <2>9 DEF PL!Zombie, PL!Goto, PL!release, PL!WakeupDone, PL!treeVars
    <2> QED
      BY <1>4, <2>1, <2>2, <2>3, <2>4, <2>5, <2>6, <2>7, <2>8, <2>9 DEF PL!kexit
  <1>5. CASE UNCHANGED PL!vars
    BY <1>5 DEF PL!vars, PL!sleepVars, PL!treeVars, PL!localVars
  <1> QED
    BY <1>1, <1>2, <1>3, <1>4, <1>5 DEF PL!Next, PL!Step

\* no child turns ZOMBIE, or becomes init's, behind a parent that waits
LEMMA ToldStep ==
    ASSUME PL!TypeOK, LifeLockInv, StateInv, EmbryoInv, SeenInv, CallInv, Told,
           [PL!Next]_(PL!vars)
    PROVE  Told'
  <1> USE LifeSlotFacts, ChanFacts DEF PL!TypeOK, LifeLockInv, Locked, StateInv, Told,
          LifeWaits
  <1>1. ASSUME NEW p \in PL!Procs, PL!kfork(p) PROVE Told'
    <2>1. CASE PL!Fork(p)
      BY <2>1 DEF PL!Fork, PL!Syscall, PL!sleepVars, PL!treeVars, PL!localVars, PL!Goto
    <2>2. CASE PL!AllocSkip(p)
      BY <2>2 DEF PL!AllocSkip, PL!Advance, PL!sleepVars, PL!treeVars
    <2>3. CASE PL!Alloc(p)
      BY <2>3 DEF PL!Alloc, PL!Goto
    <2>4. CASE PL!AllocFails(p)
      BY <2>4 DEF PL!AllocFails, PL!Return, PL!Goto
    <2>5. CASE PL!AllocNone(p)
      BY <2>5 DEF PL!AllocNone, PL!Return, PL!AtEnd, PL!sleepVars, PL!treeVars, PL!Goto
    <2>6. CASE PL!Link(p)
      BY <2>6 DEF PL!Link, PL!Goto, PL!sleepVars, PL!localVars, EmbryoInv, Forking
    <2>7. CASE PL!Ready(p)
      BY <2>7 DEF PL!Ready, PL!treeVars, EmbryoInv, Forking
    <2> QED
      BY <1>1, <2>1, <2>2, <2>3, <2>4, <2>5, <2>6, <2>7 DEF PL!kfork
  <1>2. ASSUME NEW p \in PL!Procs, PL!Kill(p) PROVE Told'
    <2>1. CASE PL!KillCall(p)
      BY <2>1 DEF PL!KillCall, PL!Syscall, PL!sleepVars, PL!treeVars, PL!Goto
    <2>2. CASE PL!KillSkip(p)
      BY <2>2 DEF PL!KillSkip, PL!Advance, PL!sleepVars, PL!treeVars
    <2>3. CASE PL!KillHit(p)
      BY <2>3 DEF PL!KillHit, PL!Return, PL!kkill, PL!treeVars, PL!Goto
    <2>4. CASE PL!KillMiss(p)
      BY <2>4 DEF PL!KillMiss, PL!Return, PL!AtEnd, PL!sleepVars, PL!treeVars, PL!Goto
    <2> QED
      BY <1>2, <2>1, <2>2, <2>3, <2>4 DEF PL!Kill
  <1>3. ASSUME NEW p \in PL!Procs, PL!kwait(p) PROVE Told'
    <2>1. CASE PL!WaitCall(p)
      BY <2>1 DEF PL!WaitCall, PL!Syscall, PL!sleepVars, PL!treeVars, PL!localVars, PL!Goto
    <2>2. CASE PL!WaitLock(p)
      BY <2>2 DEF PL!WaitLock, PL!Goto, PL!acquire, PL!sleepVars, PL!treeVars
    <2>3. CASE PL!WaitSkip(p)
      BY <2>3 DEF PL!WaitSkip, PL!Advance, PL!sleepVars, PL!treeVars
    <2>4. CASE PL!Reap(p)
      BY <2>4 DEF PL!Reap, PL!Return, PL!release, PL!Goto
    <2>5. CASE PL!ReapFails(p)
      BY <2>5 DEF PL!ReapFails, PL!Return, PL!release, PL!sleepVars, PL!treeVars, PL!Goto
    <2>6. CASE PL!WaitNone(p)
      BY <2>6 DEF PL!WaitNone, PL!Return, PL!release, PL!AtEnd, PL!sleepVars, PL!treeVars, PL!Goto
    <2>7. CASE PL!WaitPrepare(p)
      BY <2>7 DEF PL!WaitPrepare, PL!Goto, PL!AtEnd, PL!sleep_prepare, PL!treeVars, PL!localVars,
             SeenInv
    <2>8. CASE PL!WaitUnlock(p)
      BY <2>8 DEF PL!WaitUnlock, PL!Goto, PL!release, PL!sleepVars, PL!treeVars, PL!localVars
    <2>9. CASE PL!WaitSleep(p)
      BY <2>9 DEF PL!WaitSleep, PL!Goto, PL!sleep, PL!treeVars, PL!localVars
    <2> QED
      BY <1>3, <2>1, <2>2, <2>3, <2>4, <2>5, <2>6, <2>7, <2>8, <2>9 DEF PL!kwait
  <1>4. ASSUME NEW p \in PL!Procs, PL!kexit(p) PROVE Told'
    <2>1. CASE PL!Exit(p)
      BY <2>1 DEF PL!Exit, PL!Goto, PL!sleepVars, PL!treeVars, PL!localVars
    <2>2. CASE PL!ExitLock(p)
      BY <2>2 DEF PL!ExitLock, PL!Goto, PL!acquire, PL!sleepVars, PL!treeVars
    <2>3. CASE PL!ReparentSkip(p)
      BY <2>3 DEF PL!ReparentSkip, PL!Advance, PL!sleepVars, PL!treeVars
    <2>4. CASE PL!Reparent(p)
      BY <2>4 DEF PL!Reparent, PL!Goto, PL!Advance, PL!WakeupCall
    <2>5. CASE PL!WakeInit(p)
      BY <2>5 DEF PL!WakeInit, PL!wakeup, PL!treeVars, PL!localVars
    <2>6. CASE PL!WakeInitDone(p)
      BY <2>6 DEF PL!WakeInitDone, PL!Goto, PL!WakeupDone, PL!sleepVars, PL!treeVars,
             PL!localVars
    <2>7. CASE PL!ReparentDone(p)
      BY <2>7 DEF PL!ReparentDone, PL!Goto, PL!AtEnd, PL!WakeupCall, PL!treeVars, PL!localVars
    <2>8. CASE PL!WakeParent(p)
      BY <2>8 DEF PL!WakeParent, PL!wakeup, PL!treeVars, PL!localVars
    <2>9. CASE PL!Zombie(p)
      BY <2>9 DEF PL!Zombie, PL!Goto, PL!release, PL!WakeupDone, PL!treeVars, CallInv
    <2> QED
      BY <1>4, <2>1, <2>2, <2>3, <2>4, <2>5, <2>6, <2>7, <2>8, <2>9 DEF PL!kexit
  <1>5. CASE UNCHANGED PL!vars
    BY <1>5 DEF PL!vars, PL!sleepVars, PL!treeVars, PL!localVars
  <1> QED
    BY <1>1, <1>2, <1>3, <1>4, <1>5 DEF PL!Next, PL!Step

-----------------------------------------------------------------------------
(* The tree by pid *)

\* nobody was forked by a process that has not begun to run
BornInv == \A p \in PL!Procs : state[p] = "USED" => \A i \in PL!Pids : bornTo[i] # procpid[p]

\* init gets a child of another process only while that one is in kexit(), with
\* wait_lock
LateInv == \A b, c \in PL!Procs :
    parent[c] = PL!initproc /\ procpid[b] = bornTo[procpid[c]] /\ PL!Alive(b) /\ b # PL!initproc
        => procpc[b] \in {"reparent", "rewake", "exitwake"}

\* an embryo has no children
LEMMA BornStep ==
    ASSUME PL!TypeOK, StateInv, PidInv, EmbryoInv, BornInv, [PL!Next]_(PL!vars)
    PROVE  BornInv'
  <1> USE LifeSlotFacts, PidFacts DEF PL!TypeOK, StateInv, PidInv, BornInv
  <1>1. ASSUME NEW p \in PL!Procs, PL!kfork(p) PROVE BornInv'
    <2>1. CASE PL!Fork(p)
      BY <2>1 DEF PL!Fork, PL!Syscall, PL!sleepVars, PL!treeVars, PL!localVars, PL!Goto
    <2>2. CASE PL!AllocSkip(p)
      BY <2>2 DEF PL!AllocSkip, PL!Advance, PL!sleepVars, PL!treeVars
    <2>3. CASE PL!Alloc(p)
      BY <2>3 DEF PL!Alloc, PL!Goto
    <2>4. CASE PL!AllocFails(p)
      BY <2>4 DEF PL!AllocFails, PL!Return, PL!Goto
    <2>5. CASE PL!AllocNone(p)
      BY <2>5 DEF PL!AllocNone, PL!Return, PL!AtEnd, PL!sleepVars, PL!treeVars, PL!Goto
    <2>6. CASE PL!Link(p)
      BY <2>6 DEF PL!Link, PL!Goto, PL!sleepVars, PL!localVars
    <2>7. CASE PL!Ready(p)
      BY <2>7 DEF PL!Ready, PL!treeVars, EmbryoInv, Forking
    <2> QED
      BY <1>1, <2>1, <2>2, <2>3, <2>4, <2>5, <2>6, <2>7 DEF PL!kfork
  <1>2. ASSUME NEW p \in PL!Procs, PL!Kill(p) PROVE BornInv'
    <2>1. CASE PL!KillCall(p)
      BY <2>1 DEF PL!KillCall, PL!Syscall, PL!sleepVars, PL!treeVars, PL!Goto
    <2>2. CASE PL!KillSkip(p)
      BY <2>2 DEF PL!KillSkip, PL!Advance, PL!sleepVars, PL!treeVars
    <2>3. CASE PL!KillHit(p)
      BY <2>3 DEF PL!KillHit, PL!Return, PL!kkill, PL!treeVars, PL!Goto
    <2>4. CASE PL!KillMiss(p)
      BY <2>4 DEF PL!KillMiss, PL!Return, PL!AtEnd, PL!sleepVars, PL!treeVars, PL!Goto
    <2> QED
      BY <1>2, <2>1, <2>2, <2>3, <2>4 DEF PL!Kill
  <1>3. ASSUME NEW p \in PL!Procs, PL!kwait(p) PROVE BornInv'
    <2>1. CASE PL!WaitCall(p)
      BY <2>1 DEF PL!WaitCall, PL!Syscall, PL!sleepVars, PL!treeVars, PL!localVars, PL!Goto
    <2>2. CASE PL!WaitLock(p)
      BY <2>2 DEF PL!WaitLock, PL!Goto, PL!acquire, PL!sleepVars, PL!treeVars
    <2>3. CASE PL!WaitSkip(p)
      BY <2>3 DEF PL!WaitSkip, PL!Advance, PL!sleepVars, PL!treeVars
    <2>4. CASE PL!Reap(p)
      BY <2>4 DEF PL!Reap, PL!Return, PL!release, PL!Goto
    <2>5. CASE PL!ReapFails(p)
      BY <2>5 DEF PL!ReapFails, PL!Return, PL!release, PL!sleepVars, PL!treeVars, PL!Goto
    <2>6. CASE PL!WaitNone(p)
      BY <2>6 DEF PL!WaitNone, PL!Return, PL!release, PL!AtEnd, PL!sleepVars, PL!treeVars, PL!Goto
    <2>7. CASE PL!WaitPrepare(p)
      BY <2>7 DEF PL!WaitPrepare, PL!Goto, PL!AtEnd, PL!sleep_prepare, PL!treeVars, PL!localVars
    <2>8. CASE PL!WaitUnlock(p)
      BY <2>8 DEF PL!WaitUnlock, PL!Goto, PL!release, PL!sleepVars, PL!treeVars, PL!localVars
    <2>9. CASE PL!WaitSleep(p)
      BY <2>9 DEF PL!WaitSleep, PL!Goto, PL!sleep, PL!treeVars, PL!localVars
    <2> QED
      BY <1>3, <2>1, <2>2, <2>3, <2>4, <2>5, <2>6, <2>7, <2>8, <2>9 DEF PL!kwait
  <1>4. ASSUME NEW p \in PL!Procs, PL!kexit(p) PROVE BornInv'
    <2>1. CASE PL!Exit(p)
      BY <2>1 DEF PL!Exit, PL!Goto, PL!sleepVars, PL!treeVars, PL!localVars
    <2>2. CASE PL!ExitLock(p)
      BY <2>2 DEF PL!ExitLock, PL!Goto, PL!acquire, PL!sleepVars, PL!treeVars
    <2>3. CASE PL!ReparentSkip(p)
      BY <2>3 DEF PL!ReparentSkip, PL!Advance, PL!sleepVars, PL!treeVars
    <2>4. CASE PL!Reparent(p)
      BY <2>4 DEF PL!Reparent, PL!Goto, PL!Advance, PL!WakeupCall
    <2>5. CASE PL!WakeInit(p)
      BY <2>5 DEF PL!WakeInit, PL!wakeup, PL!treeVars, PL!localVars
    <2>6. CASE PL!WakeInitDone(p)
      BY <2>6 DEF PL!WakeInitDone, PL!Goto, PL!WakeupDone, PL!sleepVars, PL!treeVars,
             PL!localVars
    <2>7. CASE PL!ReparentDone(p)
      BY <2>7 DEF PL!ReparentDone, PL!Goto, PL!AtEnd, PL!WakeupCall, PL!treeVars, PL!localVars
    <2>8. CASE PL!WakeParent(p)
      BY <2>8 DEF PL!WakeParent, PL!wakeup, PL!treeVars, PL!localVars
    <2>9. CASE PL!Zombie(p)
      BY <2>9 DEF PL!Zombie, PL!Goto, PL!release, PL!WakeupDone, PL!treeVars
    <2> QED
      BY <1>4, <2>1, <2>2, <2>3, <2>4, <2>5, <2>6, <2>7, <2>8, <2>9 DEF PL!kexit
  <1>5. CASE UNCHANGED PL!vars
    BY <1>5 DEF PL!vars, PL!sleepVars, PL!treeVars, PL!localVars
  <1> QED
    BY <1>1, <1>2, <1>3, <1>4, <1>5 DEF PL!Next, PL!Step

\* init adopts from those in kexit() only
LEMMA LateStep ==
    ASSUME PL!TypeOK, LifeLockInv, StateInv, InitLives, PidInv, EmbryoInv,
           PL!ParentAlive, BornInv, LateInv, [PL!Next]_(PL!vars)
    PROVE  LateInv'
  <1> USE LifeSlotFacts, PidFacts, PidOf DEF PL!TypeOK, StateInv, PidInv, LateInv,
          PL!Alive
  <1>1. ASSUME NEW p \in PL!Procs, PL!kfork(p) PROVE LateInv'
    <2>1. CASE PL!Fork(p)
      BY <2>1 DEF PL!Fork, PL!Syscall, PL!sleepVars, PL!treeVars, PL!localVars, PL!Goto
    <2>2. CASE PL!AllocSkip(p)
      BY <2>2 DEF PL!AllocSkip, PL!Advance, PL!sleepVars, PL!treeVars
    <2>3. CASE PL!Alloc(p)
      BY <2>3 DEF PL!Alloc, PL!Goto, EmbryoInv
    <2>4. CASE PL!AllocFails(p)
      BY <2>4 DEF PL!AllocFails, PL!Return, PL!Goto
    <2>5. CASE PL!AllocNone(p)
      BY <2>5 DEF PL!AllocNone, PL!Return, PL!AtEnd, PL!sleepVars, PL!treeVars, PL!Goto
    <2>6. CASE PL!Link(p)
      BY <2>6 DEF PL!Link, PL!Goto, PL!sleepVars, PL!localVars, EmbryoInv, Forking, InitLives
    <2>7. CASE PL!Ready(p)
      BY <2>7 DEF PL!Ready, PL!treeVars, EmbryoInv, Forking, BornInv
    <2> QED
      BY <1>1, <2>1, <2>2, <2>3, <2>4, <2>5, <2>6, <2>7 DEF PL!kfork
  <1>2. ASSUME NEW p \in PL!Procs, PL!Kill(p) PROVE LateInv'
    <2>1. CASE PL!KillCall(p)
      BY <2>1 DEF PL!KillCall, PL!Syscall, PL!sleepVars, PL!treeVars, PL!Goto
    <2>2. CASE PL!KillSkip(p)
      BY <2>2 DEF PL!KillSkip, PL!Advance, PL!sleepVars, PL!treeVars
    <2>3. CASE PL!KillHit(p)
      BY <2>3 DEF PL!KillHit, PL!Return, PL!kkill, PL!treeVars, PL!Goto
    <2>4. CASE PL!KillMiss(p)
      BY <2>4 DEF PL!KillMiss, PL!Return, PL!AtEnd, PL!sleepVars, PL!treeVars, PL!Goto
    <2> QED
      BY <1>2, <2>1, <2>2, <2>3, <2>4 DEF PL!Kill
  <1>3. ASSUME NEW p \in PL!Procs, PL!kwait(p) PROVE LateInv'
    <2>1. CASE PL!WaitCall(p)
      BY <2>1 DEF PL!WaitCall, PL!Syscall, PL!sleepVars, PL!treeVars, PL!localVars, PL!Goto
    <2>2. CASE PL!WaitLock(p)
      BY <2>2 DEF PL!WaitLock, PL!Goto, PL!acquire, PL!sleepVars, PL!treeVars
    <2>3. CASE PL!WaitSkip(p)
      BY <2>3 DEF PL!WaitSkip, PL!Advance, PL!sleepVars, PL!treeVars
    <2>4. CASE PL!Reap(p)
      BY <2>4 DEF PL!Reap, PL!Return, PL!release, PL!Goto
    <2>5. CASE PL!ReapFails(p)
      BY <2>5 DEF PL!ReapFails, PL!Return, PL!release, PL!sleepVars, PL!treeVars, PL!Goto
    <2>6. CASE PL!WaitNone(p)
      BY <2>6 DEF PL!WaitNone, PL!Return, PL!release, PL!AtEnd, PL!sleepVars, PL!treeVars, PL!Goto
    <2>7. CASE PL!WaitPrepare(p)
      BY <2>7 DEF PL!WaitPrepare, PL!Goto, PL!AtEnd, PL!sleep_prepare, PL!treeVars, PL!localVars
    <2>8. CASE PL!WaitUnlock(p)
      BY <2>8 DEF PL!WaitUnlock, PL!Goto, PL!release, PL!sleepVars, PL!treeVars, PL!localVars
    <2>9. CASE PL!WaitSleep(p)
      BY <2>9 DEF PL!WaitSleep, PL!Goto, PL!sleep, PL!treeVars, PL!localVars
    <2> QED
      BY <1>3, <2>1, <2>2, <2>3, <2>4, <2>5, <2>6, <2>7, <2>8, <2>9 DEF PL!kwait
  <1>4. ASSUME NEW p \in PL!Procs, PL!kexit(p) PROVE LateInv'
    <2>1. CASE PL!Exit(p)
      BY <2>1 DEF PL!Exit, PL!Goto, PL!sleepVars, PL!treeVars, PL!localVars
    <2>2. CASE PL!ExitLock(p)
      BY <2>2 DEF PL!ExitLock, PL!Goto, PL!acquire, PL!sleepVars, PL!treeVars
    <2>3. CASE PL!ReparentSkip(p)
      BY <2>3 DEF PL!ReparentSkip, PL!Advance, PL!sleepVars, PL!treeVars
    <2>4. CASE PL!Reparent(p)
      BY <2>4 DEF PL!Reparent, PL!Goto, PL!Advance, PL!WakeupCall, InitLives, Exiting,
             PL!ParentAlive
    <2>5. CASE PL!WakeInit(p)
      BY <2>5 DEF PL!WakeInit, PL!wakeup, PL!treeVars, PL!localVars
    <2>6. CASE PL!WakeInitDone(p)
      BY <2>6 DEF PL!WakeInitDone, PL!Goto, PL!WakeupDone, PL!sleepVars, PL!treeVars,
             PL!localVars
    <2>7. CASE PL!ReparentDone(p)
      BY <2>7 DEF PL!ReparentDone, PL!Goto, PL!AtEnd, PL!WakeupCall, PL!treeVars, PL!localVars
    <2>8. CASE PL!WakeParent(p)
      BY <2>8 DEF PL!WakeParent, PL!wakeup, PL!treeVars, PL!localVars
    <2>9. CASE PL!Zombie(p)
      BY <2>9 DEF PL!Zombie, PL!Goto, PL!release, PL!WakeupDone, PL!treeVars
    <2> QED
      BY <1>4, <2>1, <2>2, <2>3, <2>4, <2>5, <2>6, <2>7, <2>8, <2>9 DEF PL!kexit
  <1>5. CASE UNCHANGED PL!vars
    BY <1>5 DEF PL!vars, PL!sleepVars, PL!treeVars, PL!localVars
  <1> QED
    BY <1>1, <1>2, <1>3, <1>4, <1>5 DEF PL!Next, PL!Step


-----------------------------------------------------------------------------
(* The refinement *)

\* what a slot is to the tree
Class(s) == CASE s \in {"RUNNABLE", "SLEEPING"} -> "live" [] s = "ZOMBIE" -> "zombie"
              [] OTHER -> "none"

\* StatusOf(), of any table
StatusIn(i, pd, st, nx) ==
    IF \E p \in PL!Procs : pd[p] = i
    THEN Class(st[CHOOSE q \in PL!Procs : pd[q] = i])
    ELSE IF i < nx THEN "gone" ELSE "none"

\* no two slots have the pid i, so that CHOOSE finds the one
LEMMA Lookup ==
    ASSUME NEW pd, NEW st, NEW nx, NEW p \in PL!Procs,
           \A q \in PL!Procs : pd[q] = pd[p] => q = p
    PROVE  StatusIn(pd[p], pd, st, nx) = Class(st[p])
  <1>1. (CHOOSE q \in PL!Procs : pd[q] = pd[p]) = p
    OBVIOUS
  <1> QED
    BY <1>1 DEF StatusIn

\* no slot has it
LEMMA NoLookup ==
    ASSUME NEW pd, NEW st, NEW nx, NEW i, \A p \in PL!Procs : pd[p] # i
    PROVE  StatusIn(i, pd, st, nx) = IF i < nx THEN "gone" ELSE "none"
  BY DEF StatusIn

\* a pid whose slots, if any, are not live
LEMMA NotLive ==
    ASSUME NEW pd, NEW st, NEW nx, NEW i,
           \A p \in PL!Procs : pd[p] = i => st[p] \notin {"RUNNABLE", "SLEEPING"}
    PROVE  StatusIn(i, pd, st, nx) # "live"
  <1>1. CASE \E p \in PL!Procs : pd[p] = i
    <2>1. pd[CHOOSE q \in PL!Procs : pd[q] = i] = i /\ (CHOOSE q \in PL!Procs : pd[q] = i) \in PL!Procs
      BY <1>1
    <2> QED
      BY <1>1, <2>1 DEF StatusIn, Class
  <1>2. CASE ~ \E p \in PL!Procs : pd[p] = i
    BY <1>2 DEF StatusIn
  <1> QED
    BY <1>1, <1>2

\* StatusOf() before and after a step
LEMMA StatusDef ==
    /\ \A i : PL!StatusOf(i) = StatusIn(i, procpid, state, nextpid)
    /\ \A i : PL!StatusOf(i)' = StatusIn(i, procpid', state', nextpid')
  BY DEF PL!StatusOf, StatusIn, Class, PL!Alive

St == [i \in PL!Pids |-> PL!StatusOf(i)]
Pa == [i \in PL!Pids |-> PL!ParentOf(i)]

\* the status of 0, too, which is what bornTo has for a pid not yet given out
Stat == [i \in 0..MaxPid |-> PL!StatusOf(i)]

Par(f, b, i) == IF i = 1 \/ f[i] \notin {"live", "zombie"} THEN 0
                ELSE IF f[b[i]] = "live" THEN b[i] ELSE 1

\* Stat, by StatusIn, before and after a step
LEMMA StatIn == Stat = [i \in 0..MaxPid |-> StatusIn(i, procpid, state, nextpid)]
  BY StatusDef DEF Stat

LEMMA StatIn2 == Stat' = [i \in 0..MaxPid |-> StatusIn(i, procpid', state', nextpid')]
  BY StatusDef DEF Stat

\* the two variables of ProcTree by Stat, before and after a step
LEMMA TreeDef ==
    ASSUME PL!TypeOK
    PROVE  /\ St = [i \in PL!Pids |-> Stat[i]]
           /\ Pa = [i \in PL!Pids |-> Par(Stat, bornTo, i)]
  <1>1. \A i \in PL!Pids : i \in 0..MaxPid /\ bornTo[i] \in 0..MaxPid
    BY PidFacts DEF PL!TypeOK
  <1> QED
    BY <1>1 DEF St, Pa, Stat, PL!ParentOf, Par

LEMMA TreeDef2 ==
    ASSUME PL!TypeOK'
    PROVE  /\ St' = [i \in PL!Pids |-> Stat'[i]]
           /\ Pa' = [i \in PL!Pids |-> Par(Stat', bornTo', i)]
  <1>1. \A i \in PL!Pids : i \in 0..MaxPid /\ bornTo'[i] \in 0..MaxPid
    BY PidFacts DEF PL!TypeOK
  <1> QED
    BY <1>1 DEF St, Pa, Stat, PL!ParentOf, Par

\* the status of a pid is that of its slot
LEMMA StatFacts ==
    ASSUME PL!TypeOK, PidInv
    PROVE  /\ \A p \in PL!Procs : procpid[p] # 0 => Stat[procpid[p]] = Class(state[p])
           /\ \A i \in PL!Pids : (\A p \in PL!Procs : procpid[p] # i) =>
                  Stat[i] = IF i < nextpid THEN "gone" ELSE "none"
           /\ Stat[0] # "live"
  <1>1. ASSUME NEW p \in PL!Procs, procpid[p] # 0 PROVE Stat[procpid[p]] = Class(state[p])
    <2>1. StatusIn(procpid[p], procpid, state, nextpid) = Class(state[p])
      BY <1>1, Lookup DEF PidInv
    <2> QED
      BY <2>1, StatIn DEF PL!TypeOK
  <1>2. ASSUME NEW i \in PL!Pids, \A p \in PL!Procs : procpid[p] # i
        PROVE  Stat[i] = IF i < nextpid THEN "gone" ELSE "none"
    BY <1>2, NoLookup, StatIn, PidFacts
  <1>3. Stat[0] # "live"
    <2>1. StatusIn(0, procpid, state, nextpid) # "live"
      BY NotLive DEF PL!TypeOK
    <2> QED
      BY <2>1, StatIn, PidFacts
  <1> QED
    BY <1>1, <1>2, <1>3

LEMMA StatFacts2 ==
    ASSUME PL!TypeOK', PidInv'
    PROVE  /\ \A p \in PL!Procs : procpid'[p] # 0 => Stat'[procpid'[p]] = Class(state'[p])
           /\ \A i \in PL!Pids : (\A p \in PL!Procs : procpid'[p] # i) =>
                  Stat'[i] = IF i < nextpid' THEN "gone" ELSE "none"
           /\ Stat'[0] # "live"
  <1>1. ASSUME NEW p \in PL!Procs, procpid'[p] # 0 PROVE Stat'[procpid'[p]] = Class(state'[p])
    <2>1. StatusIn(procpid'[p], procpid', state', nextpid') = Class(state'[p])
      BY <1>1, Lookup DEF PidInv
    <2> QED
      BY <2>1, StatIn2 DEF PL!TypeOK
  <1>2. ASSUME NEW i \in PL!Pids, \A p \in PL!Procs : procpid'[p] # i
        PROVE  Stat'[i] = IF i < nextpid' THEN "gone" ELSE "none"
    BY <1>2, NoLookup, StatIn2, PidFacts
  <1>3. Stat'[0] # "live"
    <2>1. StatusIn(0, procpid', state', nextpid') # "live"
      BY NotLive DEF PL!TypeOK
    <2> QED
      BY <2>1, StatIn2, PidFacts
  <1> QED
    BY <1>1, <1>2, <1>3

\* a step is one of ProcTree, or changes nothing there
LifeRefines ==
    \/ UNCHANGED <<St, Pa>>
    \/ \E a, c \in PL!Pids :
        \/ /\ St[a] = "live" /\ St[c] = "none"
           /\ St' = [St EXCEPT ![c] = "live"] /\ Pa' = [Pa EXCEPT ![c] = a]
        \/ St[c] = "none" /\ St' = [St EXCEPT ![c] = "gone"] /\ Pa' = Pa
        \/ /\ St[a] = "live" /\ a # 1 /\ St' = [St EXCEPT ![a] = "zombie"]
           /\ Pa' = [i \in PL!Pids |-> IF Pa[i] = a THEN 1 ELSE Pa[i]]
        \/ /\ St[a] = "live" /\ St[c] = "zombie" /\ Pa[c] = a
           /\ St' = [St EXCEPT ![c] = "gone"] /\ Pa' = [Pa EXCEPT ![c] = 0]

\* a step that changes no class, no pid and no birth
LEMMA FrameStep ==
    ASSUME PL!TypeOK, PL!TypeOK', PidInv, PidInv', UNCHANGED <<procpid, nextpid, bornTo>>,
           \A q \in PL!Procs : Class(state'[q]) = Class(state[q])
    PROVE  LifeRefines
  <1>1. \A i \in PL!Pids : Stat'[i] = Stat[i]
    BY StatFacts, StatFacts2, PidFacts
  <1>2. Stat[0] # "live" /\ Stat'[0] # "live"
    BY StatFacts, StatFacts2
  <1>3. \A i \in PL!Pids : Par(Stat', bornTo', i) = Par(Stat, bornTo, i)
    <2>1. \A i \in PL!Pids : bornTo[i] = 0 \/ bornTo[i] \in PL!Pids
      BY PidOf DEF PL!TypeOK
    <2> QED
      BY <1>1, <1>2, <2>1 DEF Par
  <1> QED
    BY <1>1, <1>3, TreeDef, TreeDef2 DEF LifeRefines

\* every step of the table is a step of the tree, or none
LEMMA LifeRefineStep ==
    ASSUME PL!TypeOK, PL!TypeOK', LifeLockInv, StateInv, InitLives, PidInv, PidInv',
           EmbryoInv, PL!ParentAlive, BornInv, LateInv, [PL!Next]_(PL!vars)
    PROVE  LifeRefines
  <1>1. ASSUME NEW p \in PL!Procs, PL!kfork(p) PROVE LifeRefines
    <2>1. CASE PL!Fork(p)
        <3>1. /\ UNCHANGED <<procpid, nextpid, bornTo>>
               /\ \A q \in PL!Procs : Class(state'[q]) = Class(state[q])
          BY <2>1 DEF PL!Fork, PL!Syscall, PL!sleepVars, PL!treeVars, PL!localVars, PL!Goto,
                 PL!TypeOK, StateInv, Class
        <3> QED
          BY <3>1, FrameStep
    <2>2. CASE PL!AllocSkip(p)
        <3>1. /\ UNCHANGED <<procpid, nextpid, bornTo>>
               /\ \A q \in PL!Procs : Class(state'[q]) = Class(state[q])
          BY <2>2 DEF PL!AllocSkip, PL!Advance, PL!sleepVars, PL!treeVars, PL!TypeOK,
                 StateInv, Class
        <3> QED
          BY <3>1, FrameStep
    <2>3. CASE PL!Alloc(p)
      <3> DEFINE np == pp[p]
      <3>1. /\ procpc[p] = "alloc" /\ np \in PL!Procs /\ state[np] = "UNUSED"
            /\ nextpid \in PL!Pids /\ nextpid' = nextpid + 1
            /\ state' = [state EXCEPT ![np] = "USED"]
            /\ procpid' = [procpid EXCEPT ![np] = nextpid]
            /\ bornTo' = [bornTo EXCEPT ![nextpid] = procpid[p]]
        BY <2>3, PidFacts, LifeSlotFacts DEF PL!Alloc, PL!Goto, PL!TypeOK
      <3>2. procpid[np] = 0 /\ (\A q \in PL!Procs : procpid[q] # nextpid)
        BY <3>1, PidFacts DEF PL!TypeOK, PidInv
      <3>3. Stat[nextpid] = "none" /\ Stat'[nextpid] = "none"
        <4>1. procpid'[np] = nextpid /\ state'[np] = "USED" /\ nextpid # 0 /\ nextpid \in Int
          BY <3>1, PidFacts DEF PL!TypeOK
        <4>2. Stat[nextpid] = "none"
          BY <3>1, <3>2, <4>1, StatFacts
        <4> QED
          BY <3>1, <4>1, <4>2, StatFacts2 DEF Class
      <3>8. ASSUME NEW i \in PL!Pids PROVE Stat'[i] = Stat[i]
        <4>1. CASE i = nextpid
          BY <3>3, <4>1
        <4>2. CASE i # nextpid /\ \E q \in PL!Procs : procpid[q] = i
          <5>1. PICK q \in PL!Procs : procpid[q] = i
            BY <4>2
          <5>2. q # np /\ procpid'[q] = i /\ state'[q] = state[q] /\ i # 0
            BY <3>1, <3>2, <5>1, PidFacts DEF PL!TypeOK
          <5> QED
            BY <5>1, <5>2, StatFacts, StatFacts2
        <4>3. CASE i # nextpid /\ \A q \in PL!Procs : procpid[q] # i
          <5>1. \A q \in PL!Procs : procpid'[q] # i
            BY <3>1, <4>3 DEF PL!TypeOK
          <5>2. i < nextpid <=> i < nextpid'
            BY <3>1, <4>3, PidFacts
          <5> QED
            BY <4>3, <5>1, <5>2, StatFacts, StatFacts2
        <4> QED
          BY <4>1, <4>2, <4>3
      <3>7. Stat[0] # "live" /\ Stat'[0] # "live"
        BY StatFacts, StatFacts2
      <3>9. ASSUME NEW i \in PL!Pids PROVE Par(Stat', bornTo', i) = Par(Stat, bornTo, i)
        <4>1. CASE i = nextpid
          BY <3>3, <4>1 DEF Par
        <4>2. CASE i # nextpid
          <5>1. bornTo'[i] = bornTo[i] /\ (bornTo[i] = 0 \/ bornTo[i] \in PL!Pids)
            BY <3>1, <4>2, PidOf DEF PL!TypeOK
          <5> QED
            BY <3>7, <3>8, <5>1 DEF Par
        <4> QED
          BY <4>1, <4>2
      <3> QED
        BY <3>8, <3>9, TreeDef, TreeDef2 DEF LifeRefines
    <2>4. CASE PL!AllocFails(p)
      <3>1. CASE nextpid' = nextpid
        <4>1. UNCHANGED <<procpid, nextpid, bornTo, state>>
          BY <2>4, <3>1 DEF PL!AllocFails
        <4> QED
          BY <4>1, FrameStep
      <3>2. CASE nextpid' # nextpid
        <4>1. UNCHANGED <<procpid, bornTo, state>> /\ nextpid \in PL!Pids /\ nextpid' = nextpid + 1
          BY <2>4, <3>2, PidFacts DEF PL!AllocFails, PL!TypeOK
        <4>2. \A q \in PL!Procs : procpid[q] # nextpid
          BY <4>1, PidFacts DEF PL!TypeOK, PidInv
        <4>3. Stat[nextpid] = "none" /\ Stat'[nextpid] = "gone"
          <5>1. ~(nextpid < nextpid) /\ nextpid < nextpid'
            BY <4>1, PidFacts
          <5> QED
            BY <4>1, <4>2, <5>1, StatFacts, StatFacts2
        <4>4. ASSUME NEW i \in PL!Pids, i # nextpid PROVE Stat'[i] = Stat[i]
          <5>1. CASE \E q \in PL!Procs : procpid[q] = i
            BY <4>1, <5>1, PidFacts, StatFacts, StatFacts2
          <5>2. CASE \A q \in PL!Procs : procpid[q] # i
            <6>1. i < nextpid <=> i < nextpid'
              BY <4>1, <4>4, PidFacts
            <6> QED
              BY <4>1, <5>2, <6>1, StatFacts, StatFacts2
          <5> QED
            BY <5>1, <5>2
        <4>5. Stat[0] # "live" /\ Stat'[0] # "live"
          BY StatFacts, StatFacts2
        <4>6. ASSUME NEW i \in PL!Pids PROVE Par(Stat', bornTo', i) = Par(Stat, bornTo, i)
          <5>1. bornTo[i] = 0 \/ bornTo[i] \in PL!Pids
            BY PidOf DEF PL!TypeOK
          <5> QED
            BY <4>1, <4>3, <4>4, <4>5, <5>1 DEF Par
        <4>7. Pa' = Pa
          BY <4>6, TreeDef, TreeDef2
        <4>8. St[nextpid] = "none" /\ St' = [St EXCEPT ![nextpid] = "gone"]
          BY <4>1, <4>3, <4>4, TreeDef, TreeDef2
        <4> QED
          BY <4>1, <4>7, <4>8 DEF LifeRefines
      <3> QED
        BY <3>1, <3>2
    <2>5. CASE PL!AllocNone(p)
        <3>1. /\ UNCHANGED <<procpid, nextpid, bornTo>>
               /\ \A q \in PL!Procs : Class(state'[q]) = Class(state[q])
          BY <2>5 DEF PL!AllocNone, PL!Return, PL!AtEnd, PL!sleepVars, PL!treeVars, PL!Goto,
                 PL!TypeOK, StateInv, Class
        <3> QED
          BY <3>1, FrameStep
    <2>6. CASE PL!Link(p)
        <3>1. /\ UNCHANGED <<procpid, nextpid, bornTo>>
               /\ \A q \in PL!Procs : Class(state'[q]) = Class(state[q])
          BY <2>6 DEF PL!Link, PL!Goto, PL!sleepVars, PL!localVars, PL!TypeOK, StateInv, Class
        <3> QED
          BY <3>1, FrameStep
    <2>7. CASE PL!Ready(p)
      <3> DEFINE np == arg[p]
                 c == procpid[np]
                 a == procpid[p]
      <3>1. /\ procpc[p] = "ready" /\ np \in PL!Procs /\ state[np] = "USED"
            /\ state' = [state EXCEPT ![np] = "RUNNABLE"]
            /\ UNCHANGED <<procpid, nextpid, bornTo>> /\ bornTo[c] = a
        BY <2>7 DEF PL!Ready, PL!treeVars, EmbryoInv, Forking
      <3>2. state[p] \in {"RUNNABLE", "SLEEPING"} /\ np # p
        BY <3>1 DEF StateInv, PL!TypeOK
      <3>3. c \in PL!Pids /\ a \in PL!Pids /\ c # 0 /\ a # 0 /\ c # 1 /\ a # c
        BY <3>1, <3>2, PidOf, LifeSlotFacts DEF PL!TypeOK, PidInv, InitLives
      <3>4. Stat[a] = "live" /\ Stat'[a] = "live" /\ Stat[c] = "none" /\ Stat'[c] = "live"
        <4>1. state'[p] = state[p] /\ state'[np] = "RUNNABLE"
          BY <3>1, <3>2 DEF PL!TypeOK
        <4> QED
          BY <3>1, <3>2, <3>3, <4>1, StatFacts, StatFacts2 DEF Class
      <3>5. ASSUME NEW i \in PL!Pids, i # c PROVE Stat'[i] = Stat[i]
        <4>1. CASE \E q \in PL!Procs : procpid[q] = i
          <5>1. PICK q \in PL!Procs : procpid[q] = i
            BY <4>1
          <5>2. q # np /\ state'[q] = state[q] /\ i # 0
            BY <3>1, <3>5, <5>1, PidFacts DEF PL!TypeOK
          <5> QED
            BY <3>1, <5>1, <5>2, StatFacts, StatFacts2
        <4>2. CASE \A q \in PL!Procs : procpid[q] # i
          BY <3>1, <4>2, StatFacts, StatFacts2
        <4> QED
          BY <4>1, <4>2
      <3>6. Stat[0] # "live" /\ Stat'[0] # "live"
        BY StatFacts, StatFacts2
      <3>7. Par(Stat', bornTo', c) = a
        BY <3>1, <3>3, <3>4 DEF Par
      <3>8. ASSUME NEW i \in PL!Pids, i # c PROVE Par(Stat', bornTo', i) = Par(Stat, bornTo, i)
        <4>1. bornTo[i] # c /\ (bornTo[i] = 0 \/ bornTo[i] \in PL!Pids)
          BY <3>1, PidOf DEF BornInv, PL!TypeOK
        <4> QED
          BY <3>1, <3>5, <3>6, <3>8, <4>1 DEF Par
      <3>9. /\ St[a] = "live" /\ St[c] = "none"
            /\ St' = [St EXCEPT ![c] = "live"] /\ Pa' = [Pa EXCEPT ![c] = a]
        BY <3>3, <3>4, <3>5, <3>7, <3>8, TreeDef, TreeDef2
      <3> QED
        BY <3>3, <3>9 DEF LifeRefines
    <2> QED
      BY <1>1, <2>1, <2>2, <2>3, <2>4, <2>5, <2>6, <2>7 DEF PL!kfork
  <1>2. ASSUME NEW p \in PL!Procs, PL!Kill(p) PROVE LifeRefines
    <2>1. CASE PL!KillCall(p)
        <3>1. /\ UNCHANGED <<procpid, nextpid, bornTo>>
               /\ \A q \in PL!Procs : Class(state'[q]) = Class(state[q])
          BY <2>1 DEF PL!KillCall, PL!Syscall, PL!sleepVars, PL!treeVars, PL!Goto, PL!TypeOK,
                 StateInv, Class
        <3> QED
          BY <3>1, FrameStep
    <2>2. CASE PL!KillSkip(p)
        <3>1. /\ UNCHANGED <<procpid, nextpid, bornTo>>
               /\ \A q \in PL!Procs : Class(state'[q]) = Class(state[q])
          BY <2>2 DEF PL!KillSkip, PL!Advance, PL!sleepVars, PL!treeVars, PL!TypeOK, StateInv,
                 Class
        <3> QED
          BY <3>1, FrameStep
    <2>3. CASE PL!KillHit(p)
        <3>1. /\ UNCHANGED <<procpid, nextpid, bornTo>>
               /\ \A q \in PL!Procs : Class(state'[q]) = Class(state[q])
          BY <2>3 DEF PL!KillHit, PL!Return, PL!kkill, PL!treeVars, PL!Goto, PL!TypeOK, StateInv,
                 Class
        <3> QED
          BY <3>1, FrameStep
    <2>4. CASE PL!KillMiss(p)
        <3>1. /\ UNCHANGED <<procpid, nextpid, bornTo>>
               /\ \A q \in PL!Procs : Class(state'[q]) = Class(state[q])
          BY <2>4 DEF PL!KillMiss, PL!Return, PL!AtEnd, PL!sleepVars, PL!treeVars, PL!Goto,
                 PL!TypeOK, StateInv, Class
        <3> QED
          BY <3>1, FrameStep
    <2> QED
      BY <1>2, <2>1, <2>2, <2>3, <2>4 DEF PL!Kill
  <1>3. ASSUME NEW p \in PL!Procs, PL!kwait(p) PROVE LifeRefines
    <2>1. CASE PL!WaitCall(p)
        <3>1. /\ UNCHANGED <<procpid, nextpid, bornTo>>
               /\ \A q \in PL!Procs : Class(state'[q]) = Class(state[q])
          BY <2>1 DEF PL!WaitCall, PL!Syscall, PL!sleepVars, PL!treeVars, PL!localVars, PL!Goto,
                 PL!TypeOK, StateInv, Class
        <3> QED
          BY <3>1, FrameStep
    <2>2. CASE PL!WaitLock(p)
        <3>1. /\ UNCHANGED <<procpid, nextpid, bornTo>>
               /\ \A q \in PL!Procs : Class(state'[q]) = Class(state[q])
          BY <2>2 DEF PL!WaitLock, PL!Goto, PL!acquire, PL!sleepVars, PL!treeVars, PL!TypeOK,
                 StateInv, Class
        <3> QED
          BY <3>1, FrameStep
    <2>3. CASE PL!WaitSkip(p)
        <3>1. /\ UNCHANGED <<procpid, nextpid, bornTo>>
               /\ \A q \in PL!Procs : Class(state'[q]) = Class(state[q])
          BY <2>3 DEF PL!WaitSkip, PL!Advance, PL!sleepVars, PL!treeVars, PL!TypeOK, StateInv,
                 Class
        <3> QED
          BY <3>1, FrameStep
    <2>4. CASE PL!Reap(p)
      <3> DEFINE k == pp[p]
                 c == procpid[k]
                 a == procpid[p]
      <3>1. /\ procpc[p] = "wait" /\ k \in PL!Procs /\ state[k] = "ZOMBIE" /\ parent[k] = p
            /\ wait_lock = p /\ state' = [state EXCEPT ![k] = "UNUSED"]
            /\ procpid' = [procpid EXCEPT ![k] = 0] /\ UNCHANGED <<nextpid, bornTo>>
        BY <2>4 DEF PL!Reap, PL!Return, PL!Goto, PL!release
      <3>2. state[p] \in {"RUNNABLE", "SLEEPING"} /\ k # p
        BY <3>1 DEF StateInv, PL!TypeOK
      <3>3. c \in PL!Pids /\ a \in PL!Pids /\ c # 0 /\ a # 0 /\ a # c /\ c < nextpid
        BY <3>1, <3>2, PidOf DEF PL!TypeOK, PidInv
      <3>4. c # 1
        BY <3>1, LifeSlotFacts DEF PL!TypeOK, PidInv, InitLives
      <3>5. Stat[a] = "live" /\ Stat[c] = "zombie" /\ Stat'[c] = "gone"
        <4>1. \A q \in PL!Procs : procpid'[q] # c
          BY <3>1, <3>3 DEF PL!TypeOK, PidInv
        <4> QED
          BY <3>1, <3>2, <3>3, <4>1, StatFacts, StatFacts2 DEF Class
      <3>6. ASSUME NEW i \in PL!Pids, i # c PROVE Stat'[i] = Stat[i]
        <4>1. CASE \E q \in PL!Procs : procpid[q] = i
          <5>1. PICK q \in PL!Procs : procpid[q] = i
            BY <4>1
          <5>2. q # k /\ procpid'[q] = i /\ state'[q] = state[q] /\ i # 0
            BY <3>1, <3>6, <5>1, PidFacts DEF PL!TypeOK
          <5> QED
            BY <5>1, <5>2, StatFacts, StatFacts2
        <4>2. CASE \A q \in PL!Procs : procpid[q] # i
          <5>1. \A q \in PL!Procs : procpid'[q] # i
            BY <3>1, <4>2, PidFacts DEF PL!TypeOK
          <5> QED
            BY <3>1, <4>2, <5>1, StatFacts, StatFacts2
        <4> QED
          BY <4>1, <4>2
      <3>7. Stat[0] # "live" /\ Stat'[0] # "live"
        BY StatFacts, StatFacts2
      <3>8. Par(Stat, bornTo, c) = a
        <4>1. bornTo[c] = 0 \/ bornTo[c] \in PL!Pids
          BY PidOf, <3>3 DEF PL!TypeOK
        <4>2. CASE a = bornTo[c]
          BY <3>3, <3>4, <3>5, <4>2 DEF Par
        <4>3. CASE a # bornTo[c]
          <5>1. p = PL!initproc /\ a = 1
            BY <3>1, <3>3, <4>3, LifeSlotFacts DEF PL!ParentAlive, InitLives
          <5>2. Stat[bornTo[c]] # "live"
            <6>1. ASSUME NEW b \in PL!Procs, procpid[b] = bornTo[c], PL!Alive(b) PROVE FALSE
              <7>1. b # PL!initproc
                BY <5>1, <4>3, <6>1
              <7>2. procpc[b] \in {"reparent", "rewake", "exitwake"}
                BY <3>1, <5>1, <6>1, <7>1 DEF LateInv
              <7>3. wait_lock = b
                BY <7>2 DEF LifeLockInv, Locked
              <7> QED
                BY <3>1, <5>1, <7>1, <7>3
            <6>2. CASE \E b \in PL!Procs : procpid[b] = bornTo[c]
              <7>1. PICK b \in PL!Procs : procpid[b] = bornTo[c]
                BY <6>2
              <7>2. ~PL!Alive(b)
                BY <6>1, <7>1
              <7> QED
                BY <3>7, <4>1, <7>1, <7>2, StatFacts, PidFacts DEF PL!Alive, Class
            <6>3. CASE \A b \in PL!Procs : procpid[b] # bornTo[c]
              BY <3>7, <4>1, <6>3, StatFacts
            <6> QED
              BY <6>2, <6>3
          <5> QED
            BY <3>3, <3>4, <3>5, <5>1, <5>2 DEF Par
        <4> QED
          BY <4>2, <4>3
      <3>9. ASSUME NEW i \in PL!Pids, i # c PROVE Par(Stat', bornTo', i) = Par(Stat, bornTo, i)
        <4>1. bornTo[i] = 0 \/ bornTo[i] \in PL!Pids
          BY PidOf DEF PL!TypeOK
        <4> QED
          BY <3>1, <3>5, <3>6, <3>7, <3>9, <4>1 DEF Par
      <3>10. Par(Stat', bornTo', c) = 0
        BY <3>5 DEF Par
      <3>11. /\ St[a] = "live" /\ St[c] = "zombie" /\ Pa[c] = a
             /\ St' = [St EXCEPT ![c] = "gone"] /\ Pa' = [Pa EXCEPT ![c] = 0]
        BY <3>3, <3>5, <3>6, <3>8, <3>9, <3>10, TreeDef, TreeDef2
      <3> QED
        BY <3>3, <3>11 DEF LifeRefines
    <2>5. CASE PL!ReapFails(p)
        <3>1. /\ UNCHANGED <<procpid, nextpid, bornTo>>
               /\ \A q \in PL!Procs : Class(state'[q]) = Class(state[q])
          BY <2>5 DEF PL!ReapFails, PL!Return, PL!release, PL!sleepVars, PL!treeVars, PL!Goto,
                 PL!TypeOK, StateInv, Class
        <3> QED
          BY <3>1, FrameStep
    <2>6. CASE PL!WaitNone(p)
        <3>1. /\ UNCHANGED <<procpid, nextpid, bornTo>>
               /\ \A q \in PL!Procs : Class(state'[q]) = Class(state[q])
          BY <2>6 DEF PL!WaitNone, PL!Return, PL!release, PL!AtEnd, PL!sleepVars, PL!treeVars,
                 PL!Goto, PL!TypeOK, StateInv, Class
        <3> QED
          BY <3>1, FrameStep
    <2>7. CASE PL!WaitPrepare(p)
        <3>1. /\ UNCHANGED <<procpid, nextpid, bornTo>>
               /\ \A q \in PL!Procs : Class(state'[q]) = Class(state[q])
          BY <2>7 DEF PL!WaitPrepare, PL!Goto, PL!AtEnd, PL!sleep_prepare, PL!treeVars,
                 PL!localVars, PL!TypeOK, StateInv, Class
        <3> QED
          BY <3>1, FrameStep
    <2>8. CASE PL!WaitUnlock(p)
        <3>1. /\ UNCHANGED <<procpid, nextpid, bornTo>>
               /\ \A q \in PL!Procs : Class(state'[q]) = Class(state[q])
          BY <2>8 DEF PL!WaitUnlock, PL!Goto, PL!release, PL!sleepVars, PL!treeVars,
                 PL!localVars, PL!TypeOK, StateInv, Class
        <3> QED
          BY <3>1, FrameStep
    <2>9. CASE PL!WaitSleep(p)
        <3>1. /\ UNCHANGED <<procpid, nextpid, bornTo>>
               /\ \A q \in PL!Procs : Class(state'[q]) = Class(state[q])
          BY <2>9 DEF PL!WaitSleep, PL!Goto, PL!sleep, PL!treeVars, PL!localVars, PL!TypeOK,
                 StateInv, Class
        <3> QED
          BY <3>1, FrameStep
    <2> QED
      BY <1>3, <2>1, <2>2, <2>3, <2>4, <2>5, <2>6, <2>7, <2>8, <2>9 DEF PL!kwait
  <1>4. ASSUME NEW p \in PL!Procs, PL!kexit(p) PROVE LifeRefines
    <2>1. CASE PL!Exit(p)
        <3>1. /\ UNCHANGED <<procpid, nextpid, bornTo>>
               /\ \A q \in PL!Procs : Class(state'[q]) = Class(state[q])
          BY <2>1 DEF PL!Exit, PL!Goto, PL!sleepVars, PL!treeVars, PL!localVars, PL!TypeOK,
                 StateInv, Class
        <3> QED
          BY <3>1, FrameStep
    <2>2. CASE PL!ExitLock(p)
        <3>1. /\ UNCHANGED <<procpid, nextpid, bornTo>>
               /\ \A q \in PL!Procs : Class(state'[q]) = Class(state[q])
          BY <2>2 DEF PL!ExitLock, PL!Goto, PL!acquire, PL!sleepVars, PL!treeVars, PL!TypeOK,
                 StateInv, Class
        <3> QED
          BY <3>1, FrameStep
    <2>3. CASE PL!ReparentSkip(p)
        <3>1. /\ UNCHANGED <<procpid, nextpid, bornTo>>
               /\ \A q \in PL!Procs : Class(state'[q]) = Class(state[q])
          BY <2>3 DEF PL!ReparentSkip, PL!Advance, PL!sleepVars, PL!treeVars, PL!TypeOK,
                 StateInv, Class
        <3> QED
          BY <3>1, FrameStep
    <2>4. CASE PL!Reparent(p)
        <3>1. /\ UNCHANGED <<procpid, nextpid, bornTo>>
               /\ \A q \in PL!Procs : Class(state'[q]) = Class(state[q])
          BY <2>4 DEF PL!Reparent, PL!Goto, PL!Advance, PL!WakeupCall, PL!TypeOK, StateInv,
                 Class
        <3> QED
          BY <3>1, FrameStep
    <2>5. CASE PL!WakeInit(p)
        <3>1. /\ UNCHANGED <<procpid, nextpid, bornTo>>
               /\ \A q \in PL!Procs : Class(state'[q]) = Class(state[q])
          BY <2>5 DEF PL!WakeInit, PL!wakeup, PL!treeVars, PL!localVars, PL!TypeOK, StateInv,
                 Class
        <3> QED
          BY <3>1, FrameStep
    <2>6. CASE PL!WakeInitDone(p)
        <3>1. /\ UNCHANGED <<procpid, nextpid, bornTo>>
               /\ \A q \in PL!Procs : Class(state'[q]) = Class(state[q])
          BY <2>6 DEF PL!WakeInitDone, PL!Goto, PL!WakeupDone, PL!sleepVars, PL!treeVars,
                 PL!localVars, PL!TypeOK, StateInv, Class
        <3> QED
          BY <3>1, FrameStep
    <2>7. CASE PL!ReparentDone(p)
        <3>1. /\ UNCHANGED <<procpid, nextpid, bornTo>>
               /\ \A q \in PL!Procs : Class(state'[q]) = Class(state[q])
          BY <2>7 DEF PL!ReparentDone, PL!Goto, PL!AtEnd, PL!WakeupCall, PL!treeVars,
                 PL!localVars, PL!TypeOK, StateInv, Class
        <3> QED
          BY <3>1, FrameStep
    <2>8. CASE PL!WakeParent(p)
        <3>1. /\ UNCHANGED <<procpid, nextpid, bornTo>>
               /\ \A q \in PL!Procs : Class(state'[q]) = Class(state[q])
          BY <2>8 DEF PL!WakeParent, PL!wakeup, PL!treeVars, PL!localVars, PL!TypeOK,
                 StateInv, Class
        <3> QED
          BY <3>1, FrameStep
    <2>9. CASE PL!Zombie(p)
      <3> DEFINE a == procpid[p]
      <3>1. /\ procpc[p] = "exitwake" /\ state' = [state EXCEPT ![p] = "ZOMBIE"]
            /\ UNCHANGED <<procpid, nextpid, bornTo>>
        BY <2>9 DEF PL!Zombie, PL!Goto, PL!treeVars
      <3>2. state[p] \in {"RUNNABLE", "SLEEPING"}
        BY <3>1 DEF StateInv, PL!TypeOK
      <3>3. a \in PL!Pids /\ a # 0 /\ a # 1
        <4>1. p # PL!initproc
          BY <3>1 DEF InitLives, Exiting
        <4> QED
          BY <3>1, <3>2, <4>1, PidOf, LifeSlotFacts DEF PL!TypeOK, PidInv, InitLives
      <3>4. Stat[a] = "live" /\ Stat'[a] = "zombie"
        <4>1. state'[p] = "ZOMBIE"
          BY <3>1 DEF PL!TypeOK
        <4> QED
          BY <3>1, <3>2, <3>3, <4>1, StatFacts, StatFacts2 DEF Class
      <3>5. ASSUME NEW i \in PL!Pids, i # a PROVE Stat'[i] = Stat[i]
        <4>1. CASE \E q \in PL!Procs : procpid[q] = i
          <5>1. PICK q \in PL!Procs : procpid[q] = i
            BY <4>1
          <5>2. q # p /\ state'[q] = state[q] /\ i # 0
            BY <3>1, <3>5, <5>1, PidFacts DEF PL!TypeOK
          <5> QED
            BY <3>1, <5>1, <5>2, StatFacts, StatFacts2
        <4>2. CASE \A q \in PL!Procs : procpid[q] # i
          BY <3>1, <4>2, StatFacts, StatFacts2
        <4> QED
          BY <4>1, <4>2
      <3>6. Stat[0] # "live" /\ Stat'[0] # "live"
        BY StatFacts, StatFacts2
      <3>7. ASSUME NEW i \in PL!Pids
            PROVE  Par(Stat', bornTo', i) = IF Par(Stat, bornTo, i) = a THEN 1
                                            ELSE Par(Stat, bornTo, i)
        <4>1. bornTo[i] = 0 \/ bornTo[i] \in PL!Pids
          BY PidOf DEF PL!TypeOK
        <4> QED
          BY <3>1, <3>3, <3>4, <3>5, <3>6, <4>1 DEF Par
      <3>8. St[a] = "live" /\ St' = [St EXCEPT ![a] = "zombie"]
        BY <3>3, <3>4, <3>5, TreeDef, TreeDef2
      <3>9. Pa' = [i \in PL!Pids |-> IF Pa[i] = a THEN 1 ELSE Pa[i]]
        BY <3>7, TreeDef, TreeDef2
      <3> QED
        BY <3>3, <3>8, <3>9 DEF LifeRefines
    <2> QED
      BY <1>4, <2>1, <2>2, <2>3, <2>4, <2>5, <2>6, <2>7, <2>8, <2>9 DEF PL!kexit
  <1>5. CASE UNCHANGED PL!vars
    BY <1>5, FrameStep DEF PL!vars, PL!sleepVars, PL!treeVars, PL!localVars
  <1> QED
    BY <1>1, <1>2, <1>3, <1>4, <1>5 DEF PL!Next, PL!Step
-----------------------------------------------------------------------------
(* The theorems *)

LEMMA LifeInitInv == PL!Init => LifeIInv /\ WaitInv
  <1> SUFFICES ASSUME PL!Init PROVE LifeIInv /\ WaitInv
    OBVIOUS
  <1> USE LifeSlotFacts, PidFacts
  <1>1. PL!TypeOK
    <2>1. /\ state \in [PL!Procs -> {"UNUSED", "USED", "SLEEPING", "RUNNABLE", "ZOMBIE"}]
          /\ chan \in [PL!Procs -> {PL!NoChan} \cup {PL!Chan(p) : p \in PL!Procs}]
          /\ killed \in [PL!Procs -> BOOLEAN] /\ scan \in [PL!Procs -> 1..(N + 1)]
          /\ procpc \in [PL!Procs -> PL!PCs]
      BY DEF PL!Init, PL!PCs
    <2>2. /\ procpid \in [PL!Procs -> 0..MaxPid] /\ parent \in [PL!Procs -> 0..N]
          /\ nextpid \in 1..(MaxPid + 1) /\ wait_lock \in 0..N
          /\ pp \in [PL!Procs -> 1..(N + 1)] /\ arg \in [PL!Procs -> Nat]
      BY DEF PL!Init, PL!Pids
    <2>3. /\ \A p \in PL!Procs : procpid[p] = 0 <=> state[p] = "UNUSED"
          /\ havekids \in [PL!Procs -> BOOLEAN] /\ bornTo \in [PL!Pids -> 0..MaxPid]
      BY DEF PL!Init
    <2> QED
      BY <2>1, <2>2, <2>3 DEF PL!TypeOK
  <1>2. LifeLockInv /\ StateInv /\ InitLives
    BY DEF PL!Init, LifeLockInv, Locked, StateInv, InitLives, Exiting
  <1>3. PidInv /\ EmbryoInv /\ ChildInv /\ PL!ParentAlive
    BY DEF PL!Init, PidInv, EmbryoInv, Forking, ChildInv, PL!ParentAlive
  <1>4. WaitInv
    BY DEF PL!Init, WaitInv, SeenInv, CallInv, Told, LifeWaits
  <1> QED
    BY <1>1, <1>2, <1>3, <1>4 DEF LifeIInv

LEMMA LifeInvStep == LifeIInv /\ [PL!Next]_(PL!vars) => LifeIInv'
  <1> SUFFICES ASSUME LifeIInv, [PL!Next]_(PL!vars) PROVE LifeIInv'
    OBVIOUS
  <1>1. /\ PL!TypeOK /\ LifeLockInv /\ StateInv /\ InitLives /\ PidInv /\ EmbryoInv
        /\ ChildInv /\ PL!ParentAlive
    BY DEF LifeIInv
  <1>2. PL!TypeOK' /\ LifeLockInv' /\ StateInv'
    BY <1>1, TypeStep, LifeLockStep, StateStep
  <1>3. InitLives' /\ PidInv' /\ EmbryoInv'
    BY <1>1, InitStep, PidStep, EmbryoStep
  <1>4. ChildInv' /\ PL!ParentAlive'
    BY <1>1, ChildStep, ParentStep
  <1> QED
    BY <1>2, <1>3, <1>4 DEF LifeIInv

LEMMA WaitStep == LifeIInv /\ WaitInv /\ [PL!Next]_(PL!vars) => WaitInv'
  <1> SUFFICES ASSUME LifeIInv, WaitInv, [PL!Next]_(PL!vars) PROVE WaitInv'
    OBVIOUS
  <1>1. /\ PL!TypeOK /\ LifeLockInv /\ StateInv /\ EmbryoInv
        /\ SeenInv /\ CallInv /\ Told
    BY DEF LifeIInv, WaitInv
  <1> QED
    BY <1>1, SeenStep, CallStep, ToldStep DEF WaitInv

\* The invariant that the other theorems start from: wait_lock encloses the walks
\* through proc[], an embryo belongs to the kfork() that found its slot, pids are
\* not given out twice, and reparent() leaves no child behind it.
THEOREM LifeInvariance == PL!Spec => []LifeIInv
  <1> QED
    BY LifeInitInv, LifeInvStep, PTL DEF PL!Spec

\* Every field of proc[] keeps its type, and a parent pointer never dangles: it
\* names the live process that called kfork(), or init after reparent(), for any
\* number of slots however they are reused.
THEOREM ParentsAlive == LifeSpec => []ParentsLive
  <1>1. LifeIInv => ParentsLive
    BY DEF LifeIInv, ParentsLive, PL!Inv
  <1> QED
    BY <1>1, LifeInvariance, PTL DEF LifeSpec

\* Nobody sleeps in kwait() through the exit of a child, however kexit(), kkill(),
\* kfork() and the kwait() of others fall between its walk through proc[] and its
\* sleep(); init is at most one loop of wakeup() behind.
THEOREM ExitsNoticed == LifeSpec => []NoLostExit
  <1>1. WaitInv => NoLostExit
    BY DEF WaitInv, Told, LifeWaits, NoLostExit, PL!NoLostExit
  <1> QED
    BY <1>1, LifeInitInv, WaitStep, LifeInvariance, PTL DEF PL!Spec, LifeSpec

LEMMA TreeInit == PL!Init => BornInv /\ LateInv
  BY LifeSlotFacts DEF PL!Init, BornInv, LateInv, PL!Alive

LEMMA TreeStep ==
    LifeIInv /\ BornInv /\ LateInv /\ [PL!Next]_(PL!vars) => BornInv' /\ LateInv' /\ LifeRefines
  <1> SUFFICES ASSUME LifeIInv, BornInv, LateInv, [PL!Next]_(PL!vars)
               PROVE  BornInv' /\ LateInv' /\ LifeRefines
    OBVIOUS
  <1>1. /\ PL!TypeOK /\ LifeLockInv /\ StateInv /\ InitLives /\ PidInv /\ EmbryoInv
        /\ ChildInv /\ PL!ParentAlive /\ PL!TypeOK' /\ PidInv'
    BY LifeInvStep DEF LifeIInv
  <1>2. BornInv' /\ LateInv'
    BY <1>1, BornStep, LateStep
  <1>3. LifeRefines
    BY <1>1, LifeRefineStep
  <1> QED
    BY <1>2, <1>3

\* kfork(), kexit() and kwait() are the tree of processes of module ProcTree: the
\* children of a process that exits become init's in one step, although reparent()
\* walks through proc[], and every exit is reported once, to the right parent.
THEOREM ImplementsTree == LifeSpec => IsProcTree
  <1>1. PL!Init => PL!T!Init
    <2> SUFFICES ASSUME PL!Init PROVE PL!T!Init
      OBVIOUS
    <2>1. PL!TypeOK /\ PidInv
      BY LifeInitInv DEF LifeIInv
    <2>2. \A i \in PL!Pids : St[i] = IF i = 1 THEN "live" ELSE "none"
      <3>1. ASSUME NEW i \in PL!Pids PROVE Stat[i] = IF i = 1 THEN "live" ELSE "none"
        <4>1. CASE i = 1
          <5>1. procpid[PL!initproc] = 1 /\ state[PL!initproc] = "RUNNABLE" /\ PL!initproc \in PL!Procs
            BY LifeSlotFacts DEF PL!Init
          <5> QED
            BY <2>1, <4>1, <5>1, StatFacts DEF Class
        <4>2. CASE i # 1
          <5>1. (\A p \in PL!Procs : procpid[p] # i) /\ ~(i < nextpid)
            BY <4>2, PidFacts DEF PL!Init
          <5> QED
            BY <2>1, <4>2, <5>1, StatFacts
        <4> QED
          BY <4>1, <4>2
      <3> QED
        BY <2>1, <3>1, TreeDef
    <2>3. \A i \in PL!Pids : Pa[i] = 0
      BY <2>2 DEF St, Pa, PL!ParentOf
    <2> QED
      BY <2>2, <2>3 DEF PL!T!Init, PL!T!NoPid, St, Pa
  <1>2. LifeIInv /\ BornInv /\ LateInv /\ [PL!Next]_(PL!vars) => [PL!T!Next]_<<St, Pa>>
    <2> SUFFICES ASSUME LifeRefines PROVE [PL!T!Next]_<<St, Pa>>
      BY TreeStep
    <2> QED
      BY PidFacts
      DEF LifeRefines, PL!T!Next, PL!T!Fork, PL!T!Drop, PL!T!Exit, PL!T!Reap, PL!T!NoPid, St, Pa
  <1> QED
    BY <1>1, <1>2, TreeInit, TreeStep, LifeInvariance, PTL
    DEF LifeSpec, PL!Spec, IsProcTree, PL!IsProcTree, PL!T!Spec, St, Pa
=============================================================================

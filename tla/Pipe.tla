-------------------------------- MODULE Pipe --------------------------------
(***************************************************************************)
(* A pipe of src/xv6/kernel/pipe.c: pipewrite(), piperead(), pipeclose(),  *)
(* with any number of readers and writers that share its two ends, and the *)
(* fileclose() that closes an end with its last reference.                 *)
(*                                                                         *)
(* pi->lock is explicit; a step is one iteration of a loop under it, since *)
(* kills and wakeups fall between iterations.  nread and nwrite are uints  *)
(* that wrap; the buffer is indexed by them modulo PIPESIZE.               *)
(***************************************************************************)
EXTENDS SleepWakeup, Sequences

CONSTANTS
    Readers, Writers,   \* the processes that hold the read and the write end
    Killable,           \* the processes that may be killed
    PIPESIZE,
    Wrap,               \* 2^32
    Bytes,
    MaxLen              \* bound: the largest n of a read or write

ASSUME EndsAssumption == /\ Readers \subseteq Procs /\ Writers \subseteq Procs
                         /\ Readers \cap Writers = {}
                         /\ Killable \subseteq Procs
ASSUME SizeAssumption == /\ PIPESIZE \in Nat \ {0} /\ MaxLen \in Nat
                         /\ Wrap \in Nat /\ Wrap > PIPESIZE
                         /\ Wrap % PIPESIZE = 0

VARIABLES
    lock,                   \* the process that holds pi->lock, or 0
    data, nread, nwrite,
    quiet,                  \* history: the writer of the last byte, or 0 once
                            \* wakeup(&pi->nread) is called after that byte
    readopen, writeopen,
    freed,                  \* kfree(pi) has been called
    refs,                   \* who still refers to its end (f->ref, by holder)
    pc,
    left,                   \* n - i
    got                     \* by reader: the last byte copied out to it

bufVars  == <<data, nread, nwrite, quiet>>
endVars  == <<readopen, writeopen, freed, refs>>
vars == <<sleepVars, lock, bufVars, endVars, pc, left, got>>

Nread  == <<"nread">>     \* the two channels
Nwrite == <<"nwrite">>

Empty == nread = nwrite
Full  == nwrite = (nread + PIPESIZE) % Wrap

PCs == {"idle", "write", "wfull", "wunlock", "wsleep", "wasleep", "wwake",
        "read", "runlock", "rsleep", "rasleep", "copy", "rwake",
        "close", "closewake", "free", "gone"}

TypeOK ==
    /\ state \in [Procs -> {"RUNNABLE", "SLEEPING"}]
    /\ chan \in [Procs -> {NoChan, Nread, Nwrite}]
    /\ killed \in [Procs -> BOOLEAN]
    /\ scan \in [Procs -> 1..(N + 1)]
    /\ lock \in 0..N
    /\ data \in [0..(PIPESIZE - 1) -> Bytes]
    /\ nread \in 0..(Wrap - 1) /\ nwrite \in 0..(Wrap - 1)
    /\ (nwrite - nread) % Wrap <= PIPESIZE
    /\ quiet \in 0..N
    /\ {readopen, writeopen, freed} \subseteq BOOLEAN
    /\ refs \subseteq Readers \cup Writers
    /\ pc \in [Procs -> PCs]
    /\ left \in [Procs -> 0..MaxLen]
    /\ got \in [Readers -> Bytes]

\* pipealloc(), and the forks that handed the ends out
Init ==
    /\ state = [p \in Procs |-> "RUNNABLE"]
    /\ chan = [p \in Procs |-> NoChan]
    /\ killed = [p \in Procs |-> FALSE]
    /\ scan = [p \in Procs |-> N + 1]
    /\ lock = 0
    /\ nread = 0 /\ nwrite = 0 /\ quiet = 0
    /\ \E b \in Bytes : /\ data = [i \in 0..(PIPESIZE - 1) |-> b]
                        /\ got = [r \in Readers |-> b]
    /\ readopen = TRUE /\ writeopen = TRUE /\ freed = FALSE
    /\ refs = Readers \cup Writers
    /\ pc = [p \in Procs |-> "idle"]
    /\ left = [p \in Procs |-> 0]

-----------------------------------------------------------------------------
(* Helpers *)

Goto(p, from, to) == pc[p] = from /\ pc' = [pc EXCEPT ![p] = to]
acquire(p) == lock = 0 /\ lock' = p
release    == lock' = 0

-----------------------------------------------------------------------------
(* pipewrite() *)

Write(p) ==
    /\ p \in Writers \cap refs
    /\ Goto(p, "idle", "write")
    /\ acquire(p)
    /\ \E n \in 0..MaxLen : left' = [left EXCEPT ![p] = n]
    /\ UNCHANGED <<sleepVars, bufVars, endVars, got>>

\* no reader, or killed: return -1
WriteFails(p) ==
    /\ Goto(p, "write", "idle")
    /\ left[p] > 0 /\ (~readopen \/ killed[p])
    /\ release /\ left' = [left EXCEPT ![p] = 0]
    /\ UNCHANGED <<sleepVars, bufVars, endVars, got>>

WriteFull(p) ==
    /\ Goto(p, "write", "wfull")
    /\ left[p] > 0 /\ readopen /\ ~killed[p] /\ Full
    /\ WakeupCall(p) /\ quiet' = 0
    /\ UNCHANGED <<state, chan, killed, lock, data, nread, nwrite, endVars, left, got>>

\* data[nwrite++ % PIPESIZE] = ch
WriteByte(p) ==
    /\ pc[p] = "write" /\ left[p] > 0 /\ readopen /\ ~killed[p] /\ ~Full
    /\ \E b \in Bytes : data' = [data EXCEPT ![nwrite % PIPESIZE] = b]
    /\ nwrite' = (nwrite + 1) % Wrap /\ quiet' = p
    /\ left' = [left EXCEPT ![p] = @ - 1]
    /\ UNCHANGED <<sleepVars, lock, nread, endVars, pc, got>>

WriteDoneSilently(p) ==  \* seeded fault: readers are woken on a full pipe only
    /\ Goto(p, "write", "idle")
    /\ left[p] = 0 \/ (readopen /\ ~killed[p] /\ ~Full)
    /\ release /\ left' = [left EXCEPT ![p] = 0]
    /\ UNCHANGED <<sleepVars, bufVars, endVars, got>>

\* all written, or copyin() fails: the call of wakeup(&pi->nread)
WriteDone(p) ==
    /\ Goto(p, "write", "wwake")
    /\ left[p] = 0 \/ (readopen /\ ~killed[p] /\ ~Full)
    /\ WakeupCall(p) /\ quiet' = 0 /\ left' = [left EXCEPT ![p] = 0]
    /\ UNCHANGED <<state, chan, killed, lock, data, nread, nwrite, endVars, got>>

WakeReaders(p) ==
    /\ pc[p] \in {"wfull", "wwake"}
    /\ wakeup(p, Nread)
    /\ UNCHANGED <<lock, bufVars, endVars, pc, left, got>>

WritePrepare(p) ==
    /\ Goto(p, "wfull", "wunlock")
    /\ WakeupDone(p)
    /\ sleep_prepare(p, Nwrite)
    /\ UNCHANGED <<lock, bufVars, endVars, left, got>>

WriteReturn(p) ==
    /\ Goto(p, "wwake", "idle")
    /\ WakeupDone(p) /\ release
    /\ UNCHANGED <<sleepVars, bufVars, endVars, left, got>>

pipewrite(p) == \/ Write(p) \/ WriteFails(p) \/ WriteFull(p) \/ WriteByte(p)
                \/ WriteDone(p) \/ WakeReaders(p) \/ WritePrepare(p)
                \/ WriteReturn(p)

-----------------------------------------------------------------------------
(* piperead() *)

Read(p) ==
    /\ p \in Readers \cap refs
    /\ Goto(p, "idle", "read")
    /\ acquire(p)
    /\ \E n \in 0..MaxLen : left' = [left EXCEPT ![p] = n]
    /\ UNCHANGED <<sleepVars, bufVars, endVars, got>>

\* an empty pipe that may still be written to: killed, or wait
ReadFails(p) ==
    /\ Goto(p, "read", "idle")
    /\ Empty /\ writeopen /\ killed[p]
    /\ release /\ left' = [left EXCEPT ![p] = 0]
    /\ UNCHANGED <<sleepVars, bufVars, endVars, got>>

ReadPrepare(p) ==
    /\ Goto(p, "read", "runlock")
    /\ Empty /\ writeopen /\ ~killed[p]
    /\ sleep_prepare(p, Nread)
    /\ UNCHANGED <<lock, bufVars, endVars, left, got>>

ReadReady(p) ==
    /\ Goto(p, "read", "copy")
    /\ ~Empty \/ ~writeopen
    /\ UNCHANGED <<sleepVars, lock, bufVars, endVars, left, got>>

\* copyout() of data[nread % PIPESIZE] succeeds, and nread++
ReadByteOff(p) ==  \* seeded fault: the byte after the next one
    /\ pc[p] = "copy" /\ left[p] > 0 /\ ~Empty
    /\ nread' = (nread + 1) % Wrap
    /\ got' = [got EXCEPT ![p] = data[nread' % PIPESIZE]]
    /\ left' = [left EXCEPT ![p] = @ - 1]
    /\ UNCHANGED <<sleepVars, lock, data, nwrite, quiet, endVars, pc>>

ReadByte(p) ==
    /\ pc[p] = "copy" /\ left[p] > 0 /\ ~Empty
    /\ got' = [got EXCEPT ![p] = data[nread % PIPESIZE]]
    /\ nread' = (nread + 1) % Wrap
    /\ left' = [left EXCEPT ![p] = @ - 1]
    /\ UNCHANGED <<sleepVars, lock, data, nwrite, quiet, endVars, pc>>

\* enough, empty, or copyout() fails: the call of wakeup(&pi->nwrite)
ReadDone(p) ==
    /\ Goto(p, "copy", "rwake")
    /\ WakeupCall(p) /\ left' = [left EXCEPT ![p] = 0]
    /\ UNCHANGED <<state, chan, killed, lock, bufVars, endVars, got>>

WakeWriters(p) ==
    /\ pc[p] = "rwake"
    /\ wakeup(p, Nwrite)
    /\ UNCHANGED <<lock, bufVars, endVars, pc, left, got>>

ReadReturn(p) ==
    /\ Goto(p, "rwake", "idle")
    /\ WakeupDone(p) /\ release
    /\ UNCHANGED <<sleepVars, bufVars, endVars, left, got>>

piperead(p) == \/ Read(p) \/ ReadFails(p) \/ ReadPrepare(p) \/ ReadReady(p)
               \/ ReadByte(p) \/ ReadDone(p) \/ WakeWriters(p) \/ ReadReturn(p)

-----------------------------------------------------------------------------
(* release(); sleep(); acquire() of both loops *)

Unlock(p) ==
    /\ Goto(p, "wunlock", "wsleep") \/ Goto(p, "runlock", "rsleep")
    /\ release
    /\ UNCHANGED <<sleepVars, bufVars, endVars, left, got>>

Sleep(p) ==
    /\ Goto(p, "wsleep", "wasleep") \/ Goto(p, "rsleep", "rasleep")
    /\ sleep(p)
    /\ UNCHANGED <<lock, bufVars, endVars, left, got>>

Relock(p) ==
    /\ Goto(p, "wasleep", "write") \/ Goto(p, "rasleep", "read")
    /\ state[p] = "RUNNABLE" /\ acquire(p)
    /\ UNCHANGED <<sleepVars, bufVars, endVars, left, got>>

-----------------------------------------------------------------------------
(* fileclose() and pipeclose() *)

End(p) == IF p \in Readers THEN Readers ELSE Writers

CloseEvery(p) ==  \* seeded fault: every fileclose() closes the end
    /\ pc[p] = "idle" /\ p \in refs
    /\ refs' = refs \ {p}
    /\ pc' = [pc EXCEPT ![p] = "close"]
    /\ UNCHANGED <<sleepVars, lock, bufVars, readopen, writeopen, freed, left, got>>

\* f->ref drops; the last reference of an end goes on to pipeclose()
Close(p) ==
    /\ pc[p] = "idle" /\ p \in refs
    /\ refs' = refs \ {p}
    /\ pc' = [pc EXCEPT ![p] = IF End(p) \cap refs = {p} THEN "close" ELSE "gone"]
    /\ UNCHANGED <<sleepVars, lock, bufVars, readopen, writeopen, freed, left, got>>

PipeClose(p) ==
    /\ Goto(p, "close", "closewake")
    /\ acquire(p) /\ WakeupCall(p)
    /\ readopen' = (readopen /\ p \notin Readers)
    /\ writeopen' = (writeopen /\ p \notin Writers)
    /\ quiet' = IF p \in Writers THEN 0 ELSE quiet
    /\ UNCHANGED <<state, chan, killed, data, nread, nwrite, freed, refs, left, got>>

CloseWake(p) ==
    /\ pc[p] = "closewake"
    /\ wakeup(p, IF p \in Writers THEN Nread ELSE Nwrite)
    /\ UNCHANGED <<lock, bufVars, endVars, pc, left, got>>

CloseDone(p) ==
    /\ Goto(p, "closewake", IF readopen \/ writeopen THEN "gone" ELSE "free")
    /\ WakeupDone(p) /\ release
    /\ UNCHANGED <<sleepVars, bufVars, endVars, left, got>>

Free(p) ==
    /\ Goto(p, "free", "gone")
    /\ freed' = TRUE
    /\ UNCHANGED <<sleepVars, lock, bufVars, readopen, writeopen, refs, left, got>>

pipeclose(p) == PipeClose(p) \/ CloseWake(p) \/ CloseDone(p) \/ Free(p)

-----------------------------------------------------------------------------

Kill(p) ==
    /\ p \in Killable /\ pc[p] # "gone"
    /\ kkill(p)
    /\ UNCHANGED <<lock, bufVars, endVars, pc, left, got>>

Step(p) == pipewrite(p) \/ piperead(p) \/ Unlock(p) \/ Sleep(p) \/ Relock(p)
           \/ Close(p) \/ pipeclose(p)

\* all ends closed: the pipe is gone
Finished == refs = {} /\ (\A p \in Procs : pc[p] = "gone") /\ UNCHANGED vars

Next == (\E p \in Procs : Step(p) \/ Kill(p)) \/ Finished

Spec == Init /\ [][Next]_vars

-----------------------------------------------------------------------------
(* Properties *)

\* A writer that was killed has put the last byte, and has called no wakeup() for
\* it: pipewrite() returns -1 from its loop (pipe.c:84), past the one at its end.
\* That lasts until another write calls it, or the last writer closes its end.
LeftQuietly == quiet # 0 /\ killed[quiet]

\* Readers sleep on an empty pipe only ("pipe-empty", pipe.c:119), and while
\* someone may still write; else a wakeup is on its way: the holder of the lock
\* is writing, or is in a wakeup() that has not come to the reader.  The one
\* exception the code makes is the bytes a killed writer leaves.
ReaderAwake ==
    \A r \in Readers : state[r] = "SLEEPING" =>
        \/ Empty /\ writeopen
        \/ writeopen /\ LeftQuietly
        \/ \E w \in Writers : \/ pc[w] = "write"
                              \/ /\ pc[w] \in {"wfull", "wwake", "closewake"}
                                 /\ scan[w] <= r

\* Writers sleep on a full pipe only, and while someone may still read.
WriterAwake ==
    \A w \in Writers : state[w] = "SLEEPING" =>
        \/ Full /\ readopen
        \/ \E r \in Readers : \/ pc[r] = "copy"
                              \/ /\ pc[r] \in {"rwake", "closewake"}
                                 /\ scan[r] <= w

\* The pipe's memory is freed once, and by the last process that touches it.
FreedLast == freed => refs = {} /\ \A p \in Procs : pc[p] \in {"idle", "gone"}

\* Nobody sleeps in piperead() or pipewrite() with nothing left to wait for,
\* whatever is read, written, closed or killed between its test and its sleep;
\* but readers do beside what a killed writer put and nobody was woken for.
Awake == ReaderAwake /\ WriterAwake

\* The indices never run apart by more than the buffer, and pipeclose() ends the
\* pipe's life after the last access.
Inv == TypeOK /\ FreedLast

F == INSTANCE Fifo WITH
        Size <- PIPESIZE,
        q <- [i \in 1..((nwrite - nread) % Wrap) |-> data[(nread + i - 1) % PIPESIZE]]

\* Every byte written is read once and in order, across the wrap of the indices
\* and with any number of readers and writers.
IsFifo == F!Spec
=============================================================================

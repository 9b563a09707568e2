------------------------------- MODULE FileIo -------------------------------
(***************************************************************************)
(* Reading and writing through file descriptors (src/xv6/kernel/file.c,    *)
(* sysfile.c): the table of open files, shared by fork() and dup(), and    *)
(* under it the contents of inodes (fs.c: bmap(), balloc(), itrunc(),      *)
(* readi(), writei()) and the console (module Console).                    *)
(*                                                                         *)
(* An inode's sleep lock is explicit.  Between ilock() and iunlock() a step *)
(* is one block: its lookup or allocation, or the copy of its bytes.       *)
(* balloc() is one step: the lock of the bitmap's buffer makes it so.  What *)
(* the transaction writes is counted, not logged: modules Log and Fs say   *)
(* what happens to it in a crash, and what happens to names and links.     *)
(***************************************************************************)
EXTENDS Integers, Sequences, FiniteSets, Functions

CONSTANTS
  N, NFILE, NOFILE,
  Inodes,               \* regular files
  ConsoleInode,
  NDIRECT, NINDIRECT, BSIZE,
  Blocks,               \* the data blocks of the disk
  BPB,                  \* blocks that one block of the bitmap is for
  MAXOPBLOCKS,          \* what one transaction may write
  MaxBytes,             \* bound: the largest n of a read or write of a file
  \* of the console
  INPUT_BUF_SIZE, Wrap, Keys, BATCH, MaxLen, MaxTyped,
  Workloads             \* who makes which calls, on which files

ASSUME SizeAssumption ==
  /\ {N, NFILE, NOFILE, NDIRECT, NINDIRECT, BSIZE, BPB} \subseteq Nat \ {0}
  /\ Blocks \subseteq Nat \ {0}
  /\ MAXOPBLOCKS \in Nat /\ MAXOPBLOCKS >= 6    \* room for one block a write
  /\ MaxBytes \in Nat
  /\ ConsoleInode \notin Inodes /\ 0 \notin Inodes \cup {ConsoleInode}

\* There is a process to begin with.
ASSUME WorkAssumption ==
  \A wk \in Workloads :
    /\ wk.open \in {0, ConsoleInode} \cup Inodes
    /\ wk.alive \subseteq 1..N /\ wk.alive # {}
    /\ \A p \in 1..N : wk.ips[p] \subseteq Inodes \cup {ConsoleInode}

\* the indices of cons.buf wrap where the buffer does
ASSUME BufAssumption ==
  /\ INPUT_BUF_SIZE \in Nat \ {0} /\ BATCH \in Nat \ {0}
  /\ Wrap \in Nat /\ Wrap > INPUT_BUF_SIZE /\ Wrap % INPUT_BUF_SIZE = 0
  /\ MaxLen \in Nat /\ \A wk \in Workloads : wk.keys \subseteq Keys

VARIABLES
  ftable,   \* ftable.file
  ofile,    \* ofile[p]: descriptor -> entry of ftable, or 0
  alive,    \* the processes there are
  mem,      \* the inode table's copy of an inode, with ip->valid
  disk,     \* the inode on disk
  iref,     \* ip->ref
  ilock,    \* who holds ip->lock, or 0
  block,    \* the blocks in use, by the bitmap, and what they hold
  dirty,    \* by process: the blocks written by its transaction
  call,     \* by process: the system call it is in
  \* of the console
  state, chan, killed, scan, lock, buf, r, w, e, txlock, rx, tx, irq, intr,
  pc, left, asked,
  work      \* the workload, which never changes: its `open' is the file that
            \* the processes inherited from the parent of both, if any

tableVars == <<ftable, ofile, alive>>
inodeVars == <<mem, disk, iref, ilock>>
blockVars == <<block, dirty>>
consVars == <<state, chan, killed, scan, lock, buf, r, w, e, txlock, rx, tx,
              irq, intr, pc, left, asked>>
vars == <<tableVars, inodeVars, blockVars, call, consVars, work>>

Con == INSTANCE Console

Procs == 1..N
Files == 1..NFILE
Fds == 1..NOFILE
AllInodes == Inodes \cup {ConsoleInode}
MAXFILE == NDIRECT + NINDIRECT
Ind == NDIRECT + 1    \* the entry of addrs that is the indirect block

\* filewrite(): the most a transaction takes
maxWrite == ((MAXOPBLOCKS - 1 - 1 - 2) \div 2) * BSIZE

Closed == [type |-> "none", ref |-> 0, readable |-> FALSE, writable |-> FALSE,
           ip |-> ConsoleInode, off |-> 0]
NoBlocks == [k \in 1..Ind |-> 0]
Evicted == [valid |-> FALSE, size |-> 0, addrs |-> NoBlocks]
Zeroed == [bytes |-> [k \in 1..BSIZE |-> 0], ptrs |-> [k \in 1..NINDIRECT |-> 0]]
TypeOf(i) == IF i = ConsoleInode THEN "device" ELSE "inode"
NoCall == [pc |-> "none", write |-> FALSE, f |-> 0, ip |-> ConsoleInode, n |-> 0,
         i |-> 0, off |-> 0, tot |-> 0, n1 |-> 0, trunc |-> FALSE]

At(p, where) == p \in alive /\ call[p].pc = where
Makes(p, what) == At(p, "none") /\ what \in work.calls[p]
Go(p, c) == call' = [call EXCEPT ![p] = c]
Step(p, where) == Go(p, [call[p] EXCEPT !.pc = where])
Logs(p, bs) == dirty' = [dirty EXCEPT ![p] = @ \cup bs]
EndOp(p) == dirty' = [dirty EXCEPT ![p] = {}]
Locks(p, i) == ilock[i] = 0 /\ ilock' = [ilock EXCEPT ![i] = p]
Unlocks(i) == ilock' = [ilock EXCEPT ![i] = 0]

\* The console has the device's state to itself.
Quiet == UNCHANGED <<consVars, work>>

Init ==
  /\ work \in Workloads
  /\ Con!Init
  /\ alive = work.alive
  /\ ftable = [f \in Files |->
       IF work.open # 0 /\ f = 1
       THEN [type |-> TypeOf(work.open), ref |-> Cardinality(alive),
             readable |-> TRUE, writable |-> TRUE, ip |-> work.open, off |-> 0]
       ELSE Closed]
  /\ ofile = [p \in Procs |-> [d \in Fds |->
       IF work.open # 0 /\ d = 1 /\ p \in alive THEN 1 ELSE 0]]
  /\ disk = [i \in AllInodes |-> [size |-> 0, addrs |-> NoBlocks]]
  /\ iref = [i \in AllInodes |-> IF work.open = i THEN 1 ELSE 0]
  /\ mem = [i \in AllInodes |-> [Evicted EXCEPT !.valid = work.open = i]]
  /\ ilock = [i \in AllInodes |-> 0]
  /\ block = << >>
  /\ dirty = [p \in Procs |-> {}]
  /\ call = [p \in Procs |-> NoCall]

-----------------------------------------------------------------------------
(* The file table.                                                         *)

FreeFiles == {f \in Files : ftable[f].ref = 0}
FreeFds(p) == {d \in Fds : ofile[p][d] = 0}
First(S) == CHOOSE x \in S : \A y \in S : x <= y

\* Every block of an inode: direct, indirect and those it points to.
BlocksOf(ino) ==
  ({ino.addrs[k] : k \in 1..Ind}
     \cup (IF ino.addrs[Ind] = 0 THEN {} ELSE Range(block[ino.addrs[Ind]].ptrs))) \ {0}

\* sys_open(): namei() and ilock(), which reads an inode that is not valid.
OpenLock(p) ==
  /\ Makes(p, "open")
  /\ \E i \in work.ips[p], t \in {FALSE, "trunc" \in work.calls[p]} :
       /\ Locks(p, i)
       /\ iref' = [iref EXCEPT ![i] = @ + 1]
       /\ mem' = [mem EXCEPT ![i] =
            IF @.valid THEN @
            ELSE [valid |-> TRUE, size |-> disk[i].size, addrs |-> disk[i].addrs]]
       /\ Go(p, [NoCall EXCEPT !.pc = "open", !.ip = i, !.trunc = t])
  /\ UNCHANGED <<tableVars, disk, blockVars>> /\ Quiet

\* iput(): the last reference gives up the table's copy.
Iput(i) ==
  /\ iref' = [iref EXCEPT ![i] = @ - 1]
  /\ mem' = [mem EXCEPT ![i] = IF iref[i] = 1 THEN Evicted ELSE @]

\* No entry of ftable, or no descriptor: what was taken is given back.
OpenFails(p) ==
  /\ At(p, "open")
  /\ FreeFiles = {} \/ FreeFds(p) = {}
  /\ Iput(call[p].ip) /\ Unlocks(call[p].ip)
  /\ Go(p, NoCall)
  /\ UNCHANGED <<tableVars, disk, blockVars>> /\ Quiet

\* itrunc(): all the inode's blocks are free, and it says so on disk.
Truncated(i) ==
  /\ mem' = [mem EXCEPT ![i] = [@ EXCEPT !.size = 0, !.addrs = NoBlocks]]
  /\ disk' = [disk EXCEPT ![i] = [size |-> 0, addrs |-> NoBlocks]]
  /\ block' = Restrict(block, DOMAIN block \ BlocksOf(mem[i]))

OpenDone(p) ==
  LET i == call[p].ip
      f == First(FreeFiles)
  IN /\ At(p, "open")
     /\ FreeFiles # {} /\ FreeFds(p) # {}
     /\ \E mode \in work.modes :
          ftable' = [ftable EXCEPT ![f] =
            [type |-> TypeOf(i), ref |-> 1,
             readable |-> "r" \in mode, writable |-> "w" \in mode,
             ip |-> i, off |-> 0]]
     /\ ofile' = [ofile EXCEPT ![p][First(FreeFds(p))] = f]
     /\ IF call[p].trunc /\ i # ConsoleInode THEN Truncated(i)
        ELSE UNCHANGED <<mem, disk, block>>
     /\ Unlocks(i) /\ Go(p, NoCall)
     /\ UNCHANGED <<alive, iref, dirty>> /\ Quiet

\* sys_dup(): the descriptor first, then the reference.
Dup(p) ==
  /\ Makes(p, "dup") /\ FreeFds(p) # {}
  /\ \E d \in Fds \ FreeFds(p) :
       /\ ofile' = [ofile EXCEPT ![p][First(FreeFds(p))] = ofile[p][d]]
       /\ Go(p, [NoCall EXCEPT !.pc = "dup", !.f = ofile[p][d]])
  /\ UNCHANGED <<ftable, alive, inodeVars, blockVars>> /\ Quiet

Filedup(p) ==
  /\ At(p, "dup")
  /\ ftable' = [ftable EXCEPT ![call[p].f].ref = @ + 1]
  /\ Go(p, NoCall)
  /\ UNCHANGED <<ofile, alive, inodeVars, blockVars>> /\ Quiet

\* kfork(): the child has the parent's descriptors.
Fork(p) ==
  /\ Makes(p, "fork")
  /\ \E c \in Procs \ alive :
       /\ alive' = alive \cup {c}
       /\ ofile' = [ofile EXCEPT ![c] = ofile[p]]
  /\ ftable' = [f \in Files |->
       [ftable[f] EXCEPT !.ref = @ + Cardinality({d \in Fds : ofile[p][d] = f})]]
  /\ UNCHANGED <<inodeVars, blockVars, call>> /\ Quiet

\* sys_close(), fileclose(): the last reference puts the inode, after the
\* entry of the table is free for others.
Close(p) ==
  /\ Makes(p, "close")
  /\ \E d \in Fds \ FreeFds(p) :
       LET f == ofile[p][d]
       IN /\ ofile' = [ofile EXCEPT ![p][d] = 0]
          /\ IF ftable[f].ref > 1
             THEN ftable' = [ftable EXCEPT ![f].ref = @ - 1] /\ UNCHANGED call
             ELSE /\ ftable' = [ftable EXCEPT ![f] = Closed]
                  /\ Go(p, [NoCall EXCEPT !.pc = "iput", !.ip = ftable[f].ip])
  /\ UNCHANGED <<alive, inodeVars, blockVars>> /\ Quiet

CloseIput(p) ==
  /\ At(p, "iput")
  /\ Iput(call[p].ip) /\ Go(p, NoCall)
  /\ UNCHANGED <<tableVars, disk, ilock, blockVars>> /\ Quiet

-----------------------------------------------------------------------------
(* fileread() and filewrite() of an inode.  A call's record: `f' and `ip', *)
(* the file; of n bytes `i' are done by earlier transactions; `off' is     *)
(* where readi() or writei() is, with `tot' of its `n1' bytes done.        *)

May(f, write) == IF write THEN ftable[f].writable ELSE ftable[f].readable

\* The call, after argfd() and the checks of its mode.
Transfer(p) ==
  /\ At(p, "none")
  /\ \E write \in {x \in BOOLEAN : (IF x THEN "write" ELSE "read") \in work.calls[p]},
        d \in Fds \ FreeFds(p), n \in 1..MaxBytes :
       LET f == ofile[p][d]
       IN /\ ftable[f].type = "inode" /\ May(f, write)
          /\ Go(p, [NoCall EXCEPT !.pc = "chunk", !.write = write, !.f = f,
                                !.ip = ftable[f].ip, !.n = n])
  /\ UNCHANGED <<tableVars, inodeVars, blockVars>> /\ Quiet

\* A write is cut into transactions, a read is one call of readi().
Chunk(p) ==
  LET rest == call[p].n - call[p].i
  IN IF call[p].write /\ rest > maxWrite THEN maxWrite ELSE rest

\* A seeded fault: a write may begin beyond the end.
RefusedTooLong(i, off, n1) == off + n1 > MAXFILE * BSIZE

\* readi() cuts what lies beyond the end, writei() refuses a hole and too
\* long a file: then nothing is done, and the call is over.
Refused(i, off, n1) == off > mem[i].size \/ off + n1 > MAXFILE * BSIZE

\* A seeded fault: fileread() and filewrite() leave the lock to readi() and
\* writei().
LockLate(p) ==
  LET i == call[p].ip
      off == ftable[call[p].f].off
      left0 == mem[i].size - off
      n1 == IF call[p].write \/ left0 > Chunk(p) THEN Chunk(p)
            ELSE IF left0 > 0 THEN left0 ELSE 0
  IN /\ At(p, "chunk")
     /\ IF call[p].write /\ Refused(i, off, n1) THEN Go(p, NoCall)
        ELSE Go(p, [call[p] EXCEPT !.pc = IF n1 = 0 THEN "end" ELSE "map",
                                   !.off = off, !.tot = 0, !.n1 = n1])
     /\ UNCHANGED <<tableVars, inodeVars, blockVars>> /\ Quiet

Lock(p) ==
  LET i == call[p].ip
      off == ftable[call[p].f].off
      left0 == mem[i].size - off
      n1 == IF call[p].write \/ left0 > Chunk(p) THEN Chunk(p)
            ELSE IF left0 > 0 THEN left0 ELSE 0
  IN /\ At(p, "chunk")
     /\ ilock[i] = 0
     /\ IF call[p].write /\ Refused(i, off, n1)
        THEN Go(p, NoCall) /\ UNCHANGED ilock
        ELSE /\ Locks(p, i)
             /\ Go(p, [call[p] EXCEPT !.pc = IF n1 = 0 THEN "end" ELSE "map",
                                      !.off = off, !.tot = 0, !.n1 = n1])
     /\ UNCHANGED <<tableVars, mem, disk, iref, blockVars>> /\ Quiet

-----------------------------------------------------------------------------
(* bmap(): the block of the inode's bn-th, allocated if there is none.     *)

Bn(p) == call[p].off \div BSIZE
Addrs(p) == mem[call[p].ip].addrs
Direct(p) == Bn(p) < NDIRECT
NoIndirect(p) == ~Direct(p) /\ Addrs(p)[Ind] = 0
Entry(p) == Bn(p) - NDIRECT + 1
Addr(p) == IF Direct(p) THEN Addrs(p)[Bn(p) + 1]
           ELSE IF NoIndirect(p) THEN 0
           ELSE block[Addrs(p)[Ind]].ptrs[Entry(p)]

FreeBlocks == Blocks \ DOMAIN block

\* The block of the bitmap that has b's bit.
BBLOCK(b) == <<"bitmap", b \div BPB>>

\* balloc(): the first free block, zeroed.
Allocated(b) ==
  [x \in DOMAIN block \cup {b} |-> IF x = b THEN Zeroed ELSE block[x]]

Mapped(p) ==
  /\ At(p, "map") /\ Addr(p) # 0
  /\ Step(p, "copy")
  /\ UNCHANGED <<tableVars, inodeVars, blockVars>> /\ Quiet

MapFails(p) ==
  /\ At(p, "map") /\ Addr(p) = 0 /\ FreeBlocks = {}
  /\ Step(p, "end")
  /\ UNCHANGED <<tableVars, inodeVars, blockVars>> /\ Quiet

\* The block goes into the inode, directly or as its indirect block, or into
\* the indirect block.
MapNew(p) ==
  LET b == First(FreeBlocks)
      k == IF Direct(p) THEN Bn(p) + 1 ELSE Ind
      ind == Addrs(p)[Ind]
  IN /\ At(p, "map") /\ Addr(p) = 0 /\ FreeBlocks # {}
     /\ IF Direct(p) \/ NoIndirect(p)
        THEN /\ mem' = [mem EXCEPT ![call[p].ip].addrs[k] = b]
             /\ block' = Allocated(b)
             /\ Logs(p, {BBLOCK(b), <<"block", b>>})
        ELSE /\ block' = [Allocated(b) EXCEPT ![ind].ptrs[Entry(p)] = b]
             /\ Logs(p, {BBLOCK(b), <<"block", b>>, <<"block", ind>>})
             /\ UNCHANGED mem
     /\ UNCHANGED <<tableVars, disk, iref, ilock, call>> /\ Quiet

-----------------------------------------------------------------------------

\* The bytes of one block.
Piece(p) ==
  LET room == BSIZE - (call[p].off % BSIZE)
      rest == call[p].n1 - call[p].tot
  IN IF rest < room THEN rest ELSE room

Advance(p, m) ==
  Go(p, [call[p] EXCEPT !.off = @ + m, !.tot = @ + m,
                        !.pc = IF call[p].tot + m = call[p].n1 THEN "end" ELSE "map"])

\* A seeded fault: the bytes go to the start of the block.
CopyToStart(p) ==
  LET b == Addr(p)
  IN /\ At(p, "copy")
     /\ IF call[p].write
        THEN /\ block' = [block EXCEPT ![b].bytes =
                  [k \in 1..BSIZE |-> IF k <= Piece(p) THEN p ELSE @[k]]]
             /\ Logs(p, {<<"block", b>>})
        ELSE UNCHANGED blockVars
     /\ Advance(p, Piece(p))
     /\ UNCHANGED <<tableVars, inodeVars>> /\ Quiet

Copy(p) ==
  LET b == Addr(p)
      from == call[p].off % BSIZE
  IN /\ At(p, "copy")
     /\ IF call[p].write
        THEN /\ block' = [block EXCEPT ![b].bytes =
                  [k \in 1..BSIZE |-> IF k > from /\ k <= from + Piece(p) THEN p ELSE @[k]]]
             /\ Logs(p, {<<"block", b>>})
        ELSE UNCHANGED blockVars
     /\ Advance(p, Piece(p))
     /\ UNCHANGED <<tableVars, inodeVars>> /\ Quiet

\* A bad user address: writei() keeps what it did, readi() returns -1.
CopyFails(p) ==
  /\ At(p, "copy")
  /\ Go(p, [call[p] EXCEPT !.pc = "end", !.tot = IF call[p].write THEN @ ELSE -1])
  /\ UNCHANGED <<tableVars, inodeVars, blockVars>> /\ Quiet

\* writei() updates the inode on disk even if the size is what it was, since
\* bmap() may have added a block; then f->off, iunlock() and the next chunk.
Written(p) ==
  LET i == call[p].ip
      size == IF call[p].off > mem[i].size THEN call[p].off ELSE mem[i].size
  IN /\ mem' = [mem EXCEPT ![i].size = size]
     /\ disk' = [disk EXCEPT ![i] = [size |-> size, addrs |-> mem[i].addrs]]

\* f->off += r, if r > 0.
Moved(p) ==
  IF call[p].tot > 0 THEN ftable' = [ftable EXCEPT ![call[p].f].off = @ + call[p].tot]
  ELSE UNCHANGED ftable

WriteEnd(p) ==
  LET done == call[p].i + call[p].tot
  IN /\ At(p, "end") /\ call[p].write
     /\ Written(p) /\ Moved(p)
     /\ Unlocks(call[p].ip) /\ EndOp(p)
     /\ IF call[p].tot # call[p].n1 \/ done = call[p].n THEN Go(p, NoCall)
        ELSE Go(p, [call[p] EXCEPT !.pc = "chunk", !.i = done,
                                   !.off = 0, !.tot = 0, !.n1 = 0])
     /\ UNCHANGED <<ofile, alive, iref, block>> /\ Quiet

ReadEnd(p) ==
  /\ At(p, "end") /\ ~call[p].write
  /\ Moved(p)
  /\ Unlocks(call[p].ip) /\ EndOp(p)
  /\ Go(p, NoCall)
  /\ UNCHANGED <<ofile, alive, mem, disk, iref, block>> /\ Quiet

InodeIo(p) == \/ Transfer(p) \/ Lock(p) \/ Mapped(p) \/ MapFails(p) \/ MapNew(p)
              \/ Copy(p) \/ CopyFails(p) \/ WriteEnd(p) \/ ReadEnd(p)

-----------------------------------------------------------------------------
(* devsw: read() and write() of the console's file are the console's.      *)

Still == UNCHANGED <<tableVars, inodeVars, blockVars, work>>

DeviceIo(p) ==
  /\ At(p, "none")
  /\ \E d \in Fds \ FreeFds(p), n \in 0..MaxLen :
       /\ ftable[ofile[p][d]].type = "device"
       /\ \/ May(ofile[p][d], FALSE) /\ p \in work.readers /\ Con!Read(p, n)
          \/ May(ofile[p][d], TRUE) /\ p \in work.writers /\ Con!Write(p, n)
  /\ Go(p, [NoCall EXCEPT !.pc = "device"])
  /\ Still

\* The call is over when the console's is.
DeviceStep(p) ==
  /\ At(p, "device") /\ (Con!consoleread(p) \/ Con!consolewrite(p))
  /\ Go(p, IF pc'[p] = "idle" THEN NoCall ELSE call[p])
  /\ Still

Kill(p) == At(p, "device") /\ Con!Kill(p) /\ Still /\ UNCHANGED call

Interrupt == (Con!uartintr \/ (work.open = ConsoleInode /\ Con!Device)) /\ Still /\ UNCHANGED call

Device == (\E p \in Procs : DeviceIo(p) \/ DeviceStep(p) \/ Kill(p))
          \/ Interrupt

Table(p) == \/ OpenLock(p) \/ OpenFails(p) \/ OpenDone(p) \/ Dup(p) \/ Filedup(p)
            \/ Fork(p) \/ Close(p) \/ CloseIput(p)

Next == (\E p \in Procs : Table(p) \/ InodeIo(p)) \/ Device

Spec == Init /\ [][Next]_vars

-----------------------------------------------------------------------------
(* Properties.                                                             *)

\* Every variable holds a value of its type.
TypeOK ==
  /\ \A f \in Files : ftable[f].ref \in Nat /\ ftable[f].off \in 0..MAXFILE * BSIZE
  /\ ofile \in [Procs -> [Fds -> {0} \cup Files]]
  /\ \A i \in AllInodes : /\ mem[i].size \in 0..MAXFILE * BSIZE
                          /\ mem[i].addrs \in [1..Ind -> {0} \cup Blocks]
                          /\ iref[i] \in Nat
  /\ DOMAIN block \subseteq Blocks
  /\ ilock \in [AllInodes -> {0} \cup Procs]

\* A file is counted once for each descriptor that names it, whatever opens,
\* dups, forks and closes are under way, and an inode once for each file and
\* each call that still has it; so neither is reused while someone has it,
\* nor kept when nobody has.
RefsExact ==
  /\ \A f \in Files :
       ftable[f].ref = Cardinality({x \in Procs \X Fds : ofile[x[1]][x[2]] = f})
                       - Cardinality({p \in Procs : At(p, "dup") /\ call[p].f = f})
  /\ \A i \in AllInodes :
       iref[i] = Cardinality({f \in Files : ftable[f].ref > 0 /\ ftable[f].ip = i})
                 + Cardinality({p \in Procs : call[p].pc \in {"open", "iput"} /\ call[p].ip = i})

\* What an inode has: the copy in memory, or the disk's when there is none.
Current(i) == IF mem[i].valid THEN [size |-> mem[i].size, addrs |-> mem[i].addrs] ELSE disk[i]

\* Where block numbers are: in addrs, and in the indirect blocks there are.
Slots == {<<i, 0, k>> : i \in Inodes, k \in 1..Ind}
         \cup {<<i, 1, k>> : i \in {x \in Inodes : Current(x).addrs[Ind] # 0}, k \in 1..NINDIRECT}
InSlot(x) == IF x[2] = 0 THEN Current(x[1]).addrs[x[3]]
             ELSE block[Current(x[1]).addrs[Ind]].ptrs[x[3]]

\* The bitmap marks the blocks that inodes have, and no two have the same or
\* one twice: also when the disk fills, or a copy fails, half-way.
BlocksOwned ==
  LET used == {x \in Slots : InSlot(x) # 0}
  IN /\ \A x, y \in used : InSlot(x) = InSlot(y) => x = y
     /\ DOMAIN block = {InSlot(x) : x \in used}

\* The block that holds byte off of an inode, 0 if none.
BlockAt(ino, off) ==
  LET bn == off \div BSIZE
  IN IF bn < NDIRECT THEN ino.addrs[bn + 1]
     ELSE IF ino.addrs[Ind] = 0 THEN 0 ELSE block[ino.addrs[Ind]].ptrs[bn - NDIRECT + 1]

\* Every byte below the size has a block, so readi()'s bmap() allocates none:
\* it runs outside a transaction.
NoHoles ==
  \A i \in Inodes : \A off \in 0..Current(i).size - 1 : BlockAt(Current(i), off) # 0

\* An inode nobody has locked is on disk as it is in memory: its table entry
\* may be given up at any time.
OnDisk ==
  \A i \in Inodes : mem[i].valid /\ ilock[i] = 0 =>
    disk[i] = [size |-> mem[i].size, addrs |-> mem[i].addrs]

\* A transaction of filewrite() writes no more blocks than begin_op() reserves
\* for it: filewrite()'s max leaves room for the inode, the indirect block,
\* two blocks of the bitmap and a write that is not aligned.
LogFits ==
  \A p \in Procs :
    Cardinality(dirty[p] \cup (IF call[p].write THEN {<<"inode", call[p].ip>>} ELSE {}))
      <= MAXOPBLOCKS

\* What open(), dup(), fork(), read(), write() and close() keep of the tables
\* and of the disk, whichever block or copy fails.
Inv == TypeOK /\ RefsExact /\ BlocksOwned /\ NoHoles /\ OnDisk /\ LogFits

\* Processes that share an open file share its offset: while one reads or
\* writes, nobody else moves it, so no byte is read or written twice.
SharedOffset ==
  \A p \in Procs : call[p].pc \in {"map", "copy", "end"} /\ call[p].tot > 0 =>
    ftable[call[p].f].off + call[p].tot = call[p].off

ContentOf(i) ==
  [k \in 1..Current(i).size |-> block[BlockAt(Current(i), k - 1)].bytes[((k - 1) % BSIZE) + 1]]

Contents == [i \in Inodes |-> ContentOf(i)]

File == INSTANCE ByteFile WITH
  Names <- Inodes, Bytes <- Procs, MaxBytes <- MAXFILE * BSIZE, content <- Contents

\* Blocks, indirect blocks and a bitmap make files of bytes: a write changes
\* its own bytes and no other file's, and no byte appears that was not written.
IsByteFile == File!Spec

\* Nobody sleeps in consoleread() over a line that has come, or in uartwrite()
\* over a transmitter that has finished, with readers, writers and echoes about.
ConsoleAwake == Con!TypeOK /\ Con!ReaderAwake /\ Con!WriterAwake

\* The console behind a descriptor is the line-edited terminal of module Tty.
IsTty == Con!IsTty
=============================================================================

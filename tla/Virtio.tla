------------------------------- MODULE Virtio -------------------------------
(***************************************************************************)
(* The disk driver of src/xv6/kernel/virtio_disk.c: virtio_disk_rw(), its  *)
(* descriptors, the two rings, the interrupt handler, and the device, that *)
(* finishes requests in any order.                                         *)
(*                                                                         *)
(* A process holds vdisk_lock from an acquire to a sleep_prepare() and the *)
(* release() after it; that is one step, since all it touches is under the *)
(* lock or can only be seen to change by the interrupt handler, which      *)
(* needs the lock.  The handler shares the rings with the device, that     *)
(* takes no lock, so it keeps vdisk_lock over several steps.               *)
(***************************************************************************)
EXTENDS SleepWakeup, Sequences

CONSTANTS
    Bufs,            \* the struct bufs of bcache.buf[]
    NUMs,            \* the values of NUM, the number of descriptors, to look at
    Blocks, Vals     \* block numbers, contents of a block

ASSUME VirtioAssumption == NUMs # {} /\ NUMs \subseteq Nat \ 0..2

Descs   == UNION {0..(n - 1) : n \in NUMs}
NoBlock == "none"    \* b->dev = 0: the buffer holds no block yet

VARIABLES
    blockno, data, busy,    \* struct buf: b->blockno, b->data, b->disk
    vdisk_lock,             \* virtio_disk_intr() holds disk.vdisk_lock
    free,                   \* the descriptors with disk.free[i]
    info,                   \* disk.info[i].b, 0 for none
    pc,
    buf, writing, idx,      \* virtio_disk_rw(b, write) and what idx[] names
    disk,                   \* the device: what its blocks hold,
    avail, used, isr        \* its requests, new used ring entries, interrupt

driverVars == <<busy, free, info, idx>>
deviceVars == <<used, isr>>

FreeChan == <<"free">>        \* &disk.free[0]
Chan(b)  == <<"buf", b>>      \* the address of b

Request == [id : Descs, b : Bufs, blk : Blocks, write : BOOLEAN]

\* The variables of the driver have the types the code gives them, and the
\* used ring holds heads of chains: virtio_disk_intr() indexes info[] with it
VirtioTypeOK ==
    /\ state \in [Procs -> {"RUNNABLE", "SLEEPING"}]
    /\ chan \in [Procs -> {NoChan, FreeChan} \cup {Chan(b) : b \in Bufs}]
    /\ killed \in [Procs -> BOOLEAN]
    /\ blockno \in [Bufs -> Blocks \cup {NoBlock}]
    /\ data \in [Bufs -> Vals] /\ busy \in [Bufs -> BOOLEAN]
    /\ vdisk_lock \in BOOLEAN
    /\ free \subseteq Descs /\ info \in [Descs -> Bufs \cup {0}]
    /\ buf \in [Procs -> Bufs \cup {0}] /\ writing \in [Procs -> BOOLEAN]
    /\ idx \in [Procs -> SUBSET Descs]
    /\ disk \in [Blocks -> Vals]
    /\ avail \subseteq Request /\ isr \in BOOLEAN
    /\ used \in Seq({d \in Descs : info[d] # 0})

\* virtio_disk_init(): all NUM descriptors are free
VirtioInit ==
    /\ state = [p \in Procs |-> "RUNNABLE"]
    /\ chan = [p \in Procs |-> NoChan]
    /\ killed = [p \in Procs |-> FALSE]
    /\ scan = [p \in Procs |-> N + 1]
    /\ blockno = [b \in Bufs |-> NoBlock]
    /\ busy = [b \in Bufs |-> FALSE]
    /\ \E n \in NUMs : free = 0..(n - 1)
    /\ vdisk_lock = FALSE /\ info = [d \in Descs |-> 0]
    /\ pc = [p \in Procs |-> "idle"]
    /\ buf = [p \in Procs |-> 0] /\ writing = [p \in Procs |-> FALSE]
    /\ idx = [p \in Procs |-> {}]
    /\ \E v \in Vals : /\ disk = [k \in Blocks |-> v]
                       /\ data = [b \in Bufs |-> v]
    /\ avail = {} /\ used = <<>> /\ isr = FALSE

Goto(p, from, to) == pc[p] = from /\ pc' = [pc EXCEPT ![p] = to]

\* sleep() has returned
Returned(p) == state[p] = "RUNNABLE"

First(S) == CHOOSE d \in S : \A e \in S : d <= e

\* the three descriptors alloc3_desc() takes: the lowest that are free
alloc3_desc == CHOOSE S \in SUBSET free :
                   /\ Cardinality(S) = 3
                   /\ \A d \in S, e \in free \ S : d < e

-----------------------------------------------------------------------------
(* virtio_disk_rw(): pc[p] = "rw" is a call that wants descriptors          *)

\* three descriptors are free: hand the request to the device
Submit(p) ==
    LET b == buf[p]
        head == First(alloc3_desc)
    IN  /\ Goto(p, "rw", "iosleep") /\ Returned(p) /\ ~vdisk_lock
        /\ Cardinality(free) >= 3
        /\ free' = free \ alloc3_desc
        /\ idx' = [idx EXCEPT ![p] = alloc3_desc]
        /\ busy' = [busy EXCEPT ![b] = TRUE]
        /\ info' = [info EXCEPT ![head] = b]
        /\ avail' = avail \cup {[id |-> head, b |-> b, blk |-> blockno[b],
                                 write |-> writing[p]]}
        /\ sleep_prepare(p, Chan(b))
        /\ UNCHANGED <<blockno, data, vdisk_lock, buf, writing, disk, deviceVars>>

\* they are not: free_desc() of those it got wakes those who wait, itself
\* excepted, as it registers after that
DescWait(p) ==
    /\ Goto(p, "rw", "descsleep") /\ Returned(p) /\ ~vdisk_lock
    /\ Cardinality(free) < 3
    /\ LET woken == {q \in Procs : free # {} /\ chan[q] = FreeChan}
       IN  /\ chan' = [q \in Procs |-> IF q = p THEN FreeChan
                                       ELSE IF q \in woken THEN NoChan ELSE chan[q]]
           /\ state' = [q \in Procs |-> IF q \in woken THEN "RUNNABLE" ELSE state[q]]
    /\ UNCHANGED <<killed, scan, blockno, data, vdisk_lock, driverVars, buf,
                   writing, disk, avail, deviceVars>>

\* sleep(); after it the wait for descriptors starts again at alloc3_desc()
IoSleep(p) ==
    /\ \/ Goto(p, "iosleep", "io")
       \/ Goto(p, "descsleep", "rw")
    /\ sleep(p)
    /\ UNCHANGED <<blockno, data, vdisk_lock, driverVars, buf, writing, disk,
                   avail, deviceVars>>

\* while (b->disk == 1): woken up, but not because the request is finished
IoAgain(p) ==
    /\ Goto(p, "io", "iosleep") /\ Returned(p) /\ ~vdisk_lock
    /\ busy[buf[p]]
    /\ sleep_prepare(p, Chan(buf[p]))
    /\ UNCHANGED <<blockno, data, vdisk_lock, driverVars, buf, writing, disk,
                   avail, deviceVars>>

\* free_chain(idx[0]), and its wakeups
FreeChain(p) ==
    /\ Returned(p) /\ ~vdisk_lock
    /\ info' = [info EXCEPT ![First(idx[p])] = 0]
    /\ free' = free \cup idx[p]
    /\ idx' = [idx EXCEPT ![p] = {}]
    /\ wakeupAll(FreeChan)
    /\ UNCHANGED <<blockno, data, busy, vdisk_lock, buf, writing, disk, avail,
                   deviceVars>>

IoDoneAny(p, next) ==  \* seeded fault: if for while around the wait
    Goto(p, "io", next) /\ FreeChain(p)

IoDone(p, next) == Goto(p, "io", next) /\ ~busy[buf[p]] /\ FreeChain(p)

-----------------------------------------------------------------------------
(* The device finishes any of its requests; virtio_disk_intr()              *)

Complete ==
    \E r \in avail :
        /\ avail' = avail \ {r}
        /\ disk' = IF r.write THEN [disk EXCEPT ![r.blk] = data[r.b]] ELSE disk
        /\ data' = IF r.write THEN data ELSE [data EXCEPT ![r.b] = disk[r.blk]]
        /\ used' = Append(used, r.id)
        /\ isr' = TRUE
        /\ UNCHANGED <<sleepVars, blockno, vdisk_lock, driverVars, pc, buf, writing>>

\* acquire the lock and acknowledge the interrupt
IntrAck ==
    /\ isr /\ ~vdisk_lock
    /\ vdisk_lock' = TRUE /\ isr' = FALSE
    /\ UNCHANGED <<sleepVars, blockno, data, driverVars, pc, buf, writing, disk,
                   avail, used>>

\* one used entry: its buffer is ready, and whoever waits for it is woken
IntrEntry ==
    /\ vdisk_lock /\ used # <<>>
    /\ used' = Tail(used)
    /\ busy' = [busy EXCEPT ![info[Head(used)]] = FALSE]
    /\ wakeupAll(Chan(info[Head(used)]))
    /\ UNCHANGED <<blockno, data, free, info, idx, pc, buf, writing, disk,
                   avail, isr>>

IntrBufOnce == IntrEntry /\ vdisk_lock' = FALSE  \* seeded fault: no loop

IntrBuf == IntrEntry /\ UNCHANGED vdisk_lock

IntrDone ==
    /\ vdisk_lock /\ used = <<>> /\ vdisk_lock' = FALSE
    /\ UNCHANGED <<sleepVars, blockno, data, driverVars, pc, buf, writing, disk,
                   avail, deviceVars>>

virtio_disk_intr == IntrAck \/ IntrBuf \/ IntrDone
=============================================================================

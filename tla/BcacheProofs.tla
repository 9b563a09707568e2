---------------------------- MODULE BcacheProofs ----------------------------
(***************************************************************************)
(* The buffer cache and the disk driver of modules Bcache and Virtio, for  *)
(* any number of processes, buffers, descriptors and blocks, and any bound *)
(* of the log.  IInv follows a request from virtio_disk_rw() through the   *)
(* device and the used ring to the interrupt handler and the caller, and a *)
(* block from its buffer to the log, to the disk and back.                 *)
(***************************************************************************)
EXTENDS Bcache, FiniteSetTheorems, SequenceTheorems, WellFoundedInduction, TLAPS

-----------------------------------------------------------------------------
(* The inductive invariant *)

Types ==
    /\ state \in [Procs -> {"RUNNABLE", "SLEEPING"}]
    /\ chan \in [Procs -> {NoChan, FreeChan} \cup {Chan(b) : b \in Bufs}]
    /\ killed \in [Procs -> BOOLEAN]
    /\ blockno \in [Bufs -> Blocks \cup {NoBlock}]
    /\ data \in [Bufs -> Vals] /\ busy \in [Bufs -> BOOLEAN]
    /\ vdisk_lock \in BOOLEAN
    /\ free \subseteq Descs /\ IsFiniteSet(free) /\ info \in [Descs -> Bufs \cup {0}]
    /\ buf \in [Procs -> Bufs \cup {0}] /\ writing \in [Procs -> BOOLEAN]
    /\ idx \in [Procs -> SUBSET Descs] /\ \A p \in Procs : IsFiniteSet(idx[p])
    /\ disk \in [Blocks -> Vals]
    /\ avail \subseteq Request /\ isr \in BOOLEAN
    /\ used \in Seq(Descs)
    /\ pc \in [Procs -> {"idle", "lock", "rw", "iosleep", "descsleep", "io",
                         "held", "written", "drop", "rel"}]
    /\ valid \in [Bufs -> BOOLEAN] /\ refcnt \in [Bufs -> Nat]
    /\ owner \in [Bufs -> 0..N]
    /\ op \in [Procs -> {"read", "write", "install"}]
    /\ logged \subseteq Blocks /\ latest \in [Blocks -> Vals]

\* a call has a buffer of its block, and its sleep-lock while it holds it; what it
\* is for decides which way it takes
Transfers(p) == pc[p] \in {"rw", "descsleep", "iosleep", "io"}

CallInv == \A p \in Procs :
    /\ pc[p] = "idle" <=> buf[p] = 0
    /\ pc[p] # "idle" => blockno[buf[p]] \in Blocks
    /\ Holds(p) => owner[buf[p]] = p
    /\ Transfers(p) /\ writing[p] => op[p] = "install"
    /\ pc[p] = "written" => op[p] = "install"
    /\ Holds(p) => (valid[buf[p]] <=> ~Transfers(p) \/ writing[p])

\* what is in the log is in a buffer that is not recycled
PinInv == \A k \in logged : \E b \in Bufs : blockno[b] = k /\ valid[b]

\* the log installs one block at a time, and no transaction is open meanwhile
InstallInv == \A p \in Procs : op[p] = "install" /\ pc[p] # "idle" =>
    /\ pc[p] \notin {"drop", "rel"} => blockno[buf[p]] \in logged
    /\ \A q \in Procs : pc[q] # "idle" /\ op[q] # "read" => q = p

Changing == {blockno[buf[q]] : q \in Running("write")}
RoomInv == /\ IsFiniteSet(logged \cup Changing)
           /\ Cardinality(logged \cup Changing) <= MaxLogged

\* three descriptors belong to a request, and to nobody else
DescInv == \A p \in Procs :
    /\ Waits(p) => /\ idx[p] # {} /\ info[First(idx[p])] = buf[p]
    /\ ~Waits(p) => idx[p] = {}
    /\ idx[p] \cap free = {}
    /\ \A q \in Procs : p # q => idx[p] \cap idx[q] = {}

\* who waits for the request with this descriptor at its head
Sender(p, id) == Waits(p) /\ id = First(idx[p]) /\ busy[buf[p]]

Asked(p) == \E r \in avail : r.id = First(idx[p])
Answered(p) == \E i \in 1..Len(used) : used[i] = First(idx[p])

ReqInv ==
    /\ \A r \in avail : \E p \in Procs :
           /\ Sender(p, r.id)
           /\ r = [id |-> r.id, b |-> buf[p], blk |-> blockno[buf[p]], write |-> writing[p]]
    /\ \A i \in 1..Len(used) : \E p \in Procs : Sender(p, used[i])
    /\ \A r \in avail, i \in 1..Len(used) : used[i] # r.id
    /\ \A i, j \in 1..Len(used) : used[i] = used[j] => i = j

\* what the device has answered is announced, or being handled
IrqInv == used # <<>> => isr \/ vdisk_lock

\* a buffer is busy until its request is answered and the answer is seen
BusyInv == \A b \in Bufs : busy[b] =>
    \E p \in Procs : Waits(p) /\ buf[p] = b /\ (Asked(p) \/ Answered(p))

\* a valid buffer has the last contents of its block, and so has the disk for a block
\* that is not in the log; an answered request has brought the one to the other
DataInv ==
    /\ \A b \in Bufs : valid[b] /\ blockno[b] \in Blocks => data[b] = latest[blockno[b]]
    /\ \A k \in Blocks : k \notin logged => disk[k] = latest[k]
    /\ \A p \in Procs : Waits(p) /\ ~Asked(p) =>
           /\ data[buf[p]] = latest[blockno[buf[p]]]
           /\ disk[blockno[buf[p]]] = latest[blockno[buf[p]]]
    /\ \A p \in Procs : pc[p] = "written" => disk[blockno[buf[p]]] = latest[blockno[buf[p]]]

\* whoever has registered a channel waits for something that is still to come
ChanInv == \A p \in Procs :
    /\ chan[p] # NoChan => \/ chan[p] = Chan(buf[p]) /\ Waits(p) /\ busy[buf[p]]
                           \/ /\ chan[p] = FreeChan /\ pc[p] \in {"rw", "descsleep"}
                              /\ Cardinality(free) < 3
    /\ state[p] = "SLEEPING" => chan[p] # NoChan /\ pc[p] \in {"rw", "io"}

IInv == /\ Types /\ CallInv /\ OneBuffer /\ RefExact /\ PinInv /\ InstallInv /\ RoomInv
        /\ DescInv /\ ReqInv /\ IrqInv /\ BusyInv /\ DataInv /\ ChanInv

-----------------------------------------------------------------------------
(* What the constants give *)

\* a set of numbers has a least one
LEMMA LeastOf ==
    ASSUME NEW S \in SUBSET Nat, S # {}
    PROVE  \E m \in S : \A e \in S : m <= e
  <1> DEFINE R == OpToRel(<, Nat)
  <1>1. IsWellFoundedOn(R, Nat)
    BY NatLessThanWellFounded
  <1>2. \A a, b \in Nat : a < b => <<a, b>> \in R
    BY DEF OpToRel
  <1> HIDE DEF R
  <1>3. PICK m \in S : \A e \in S : ~(<<e, m>> \in R)
    BY <1>1, WFMin
  <1>4. ASSUME NEW e \in S PROVE m <= e
    <2>1. e \in Nat /\ m \in Nat
      OBVIOUS
    <2>2. ~(e < m)
      BY <1>2, <1>3, <2>1
    <2> QED
      BY <2>1, <2>2
  <1> QED
    BY <1>4

LEMMA FirstFacts ==
    ASSUME NEW S \in SUBSET Nat, S # {}
    PROVE  First(S) \in S /\ \A e \in S : First(S) <= e
  BY LeastOf DEF First

LEMMA DescsNat == Descs \subseteq Nat
  BY VirtioAssumption DEF VirtioAssumption, Descs

\* alloc3_desc() finds three when three are free
LEMMA Alloc ==
    ASSUME free \subseteq Descs, IsFiniteSet(free), Cardinality(free) >= 3
    PROVE  /\ alloc3_desc \subseteq free /\ alloc3_desc # {}
           /\ IsFiniteSet(alloc3_desc)
  <1> DEFINE Lowest(S) == \A d \in S, e \in free \ S : d < e
  <1>1. \A T \in SUBSET free : IsFiniteSet(T) /\ Cardinality(T) \in Nat
    BY FS_Subset, FS_CardinalityType
  <1>2. ASSUME NEW S \in SUBSET free, Lowest(S), Cardinality(S) \in 0..2
        PROVE  \E T \in SUBSET free : Lowest(T) /\ Cardinality(T) = Cardinality(S) + 1
    <2>1. free \ S # {}
      BY <1>2
    <2>2. free \ S \subseteq Nat
      BY DescsNat
    <2>3. PICK m \in free \ S : \A e \in free \ S : m <= e
      BY <2>1, <2>2, LeastOf
    <2>4. Cardinality(S \cup {m}) = Cardinality(S) + 1
      BY <1>1, <2>3, FS_AddElement
    <2>5. Lowest(S \cup {m})
      BY <1>2, <2>2, <2>3
    <2> QED
      BY <2>4, <2>5
  <1>3. Lowest({}) /\ Cardinality({}) = 0 /\ {} \in SUBSET free
    BY FS_EmptySet
  <1> HIDE DEF Lowest
  <1>4. \E T \in SUBSET free : Lowest(T) /\ Cardinality(T) = 1
    BY <1>2, <1>3
  <1>5. \E T \in SUBSET free : Lowest(T) /\ Cardinality(T) = 2
    BY <1>2, <1>4
  <1>6. \E T \in SUBSET free : Lowest(T) /\ Cardinality(T) = 3
    BY <1>2, <1>5
  <1>7. alloc3_desc \in SUBSET free /\ Cardinality(alloc3_desc) = 3
    BY <1>6 DEF alloc3_desc, Lowest
  <1>8. Cardinality({}) = 0
    BY FS_EmptySet
  <1> QED
    BY <1>1, <1>7, <1>8

LEMMA SlotFacts ==
    /\ Procs \subseteq 0..N /\ 0 \in 0..N /\ IsFiniteSet(Procs)
    /\ MaxLogged \in Nat /\ 0 \notin Bufs /\ NoBlock \notin Blocks
  BY NAssumption, BcacheAssumption, FS_Interval DEF NAssumption, BcacheAssumption, Procs

LEMMA ChanFacts ==
    /\ NoChan # FreeChan /\ \A b : Chan(b) # NoChan /\ Chan(b) # FreeChan
    /\ \A b, c : Chan(b) = Chan(c) => b = c
  BY DEF NoChan, FreeChan, Chan

-----------------------------------------------------------------------------
(* The steps *)

Uses3 == {"read", "write", "install"}
Still == UNCHANGED <<cacheVars, useVars>>

Finish(r) ==
    /\ avail' = avail \ {r}
    /\ disk' = IF r.write THEN [disk EXCEPT ![r.blk] = data[r.b]] ELSE disk
    /\ data' = IF r.write THEN data ELSE [data EXCEPT ![r.b] = disk[r.blk]]
    /\ used' = Append(used, r.id)
    /\ isr' = TRUE
    /\ UNCHANGED <<sleepVars, blockno, vdisk_lock, driverVars, pc, buf, writing>>

Hit(p, o, k, b) ==
    /\ Uses(p, o, k) /\ blockno[b] = k
    /\ Enter(p, o, b)
    /\ refcnt' = [refcnt EXCEPT ![b] = @ + 1]
    /\ UNCHANGED <<blockno, valid>>

Miss(p, o, k, b) ==
    Uses(p, o, k) /\ refcnt[b] = 0 /\ Recycle(p, o, k, b, FALSE)

LEMMA NextCases ==
    ASSUME [Next]_vars
    PROVE  \/ \E r \in avail : Finish(r) /\ Still
           \/ virtio_disk_intr /\ Still
           \/ \E p \in Procs, o \in Uses3, k \in Blocks, b \in Bufs :
                  Hit(p, o, k, b) \/ Miss(p, o, k, b)
           \/ \E p \in Procs :
                  (Submit(p) \/ DescWait(p) \/ IoSleep(p) \/ IoAgain(p)) /\ Still
           \/ \E p \in Procs : bread(p) \/ BreadDone(p) \/ BwriteDone(p)
           \/ \E p \in Procs : log_write(p) \/ bwrite(p) \/ bunpin(p)
           \/ \E p \in Procs : brelse(p) \/ Unref(p) \/ Kill(p)
           \/ UNCHANGED vars
  <1>1. Complete => \E r \in avail : Finish(r)
    BY DEF Complete, Finish
  <1>2. ASSUME NEW p \in Procs, Bget(p)
        PROVE  \E o \in Uses3, k \in Blocks, b \in Bufs :
                   Hit(p, o, k, b) \/ Miss(p, o, k, b)
    BY <1>2 DEF Bget, BgetHit, BgetMiss, Hit, Miss, Uses3
  <1>3. ASSUME NEW p \in Procs, Disk(p)
        PROVE  (Submit(p) \/ DescWait(p) \/ IoSleep(p) \/ IoAgain(p)) /\ Still
    BY <1>3 DEF Disk, Still
  <1>4. Device => ((\E r \in avail : Finish(r)) \/ virtio_disk_intr) /\ Still
    BY <1>1 DEF Device, Still
  <1> QED
    BY <1>2, <1>3, <1>4 DEF Next, Step

LEMMA BufFacts ==
    ASSUME Types, CallInv, NEW p \in Procs, pc[p] # "idle"
    PROVE  buf[p] \in Bufs /\ blockno[buf[p]] \in Blocks
  BY DEF Types, CallInv

Users(b) == {p \in Procs : buf[p] = b}

LEMMA UsersFinite ==
    ASSUME NEW b
    PROVE  /\ IsFiniteSet(Users(b)) /\ Cardinality(Users(b)) \in Nat
           /\ Cardinality(Users(b)) = 0 <=> Users(b) = {}
  <1>1. IsFiniteSet(Users(b))
    BY SlotFacts, FS_Subset DEF Users
  <1> QED
    BY <1>1, FS_CardinalityType, FS_EmptySet

LEMMA RefIs ==
    ASSUME RefExact, NEW b \in Bufs
    PROVE  refcnt[b] = Cardinality(Users(b)) + (IF blockno[b] \in logged THEN 1 ELSE 0)
  BY DEF RefExact, Users

Pin(b) == IF blockno[b] \in logged THEN 1 ELSE 0

\* how RefExact is shown to hold again: the buffers other than b are as they were
LEMMA RefStays ==
    ASSUME RefExact, NEW b \in Bufs,
           refcnt'[b] = Cardinality(Users(b)') + Pin(b)',
           \A c \in Bufs \ {b} : /\ refcnt'[c] = refcnt[c] /\ Users(c)' = Users(c)
                                 /\ Pin(c)' = Pin(c)
    PROVE  RefExact'
  <1>1. \A c \in Bufs : refcnt[c] = Cardinality(Users(c)) + Pin(c)
    BY DEF RefExact, Users, Pin
  <1>2. \A c \in Bufs : refcnt'[c] = Cardinality(Users(c)') + Pin(c)'
    BY <1>1
  <1> QED
    BY <1>2 DEF RefExact, Users, Pin

\* who uses a buffer is counted
LEMMA UsedRef ==
    ASSUME Types, RefExact, NEW p \in Procs, buf[p] \in Bufs
    PROVE  refcnt[buf[p]] >= 1
  <1>1. Cardinality(Users(buf[p])) \in Nat \ {0}
    BY UsersFinite DEF Users
  <1>2. CASE blockno[buf[p]] \in logged
    <2>1. refcnt[buf[p]] = Cardinality(Users(buf[p])) + 1
      BY <1>2, RefIs
    <2> QED
      BY <1>1, <2>1
  <1>3. CASE blockno[buf[p]] \notin logged
    <2>1. refcnt[buf[p]] = Cardinality(Users(buf[p])) + 0
      BY <1>3, RefIs
    <2> QED
      BY <1>1, <2>1
  <1> QED
    BY <1>2, <1>3

\* a buffer without references is nobody's, and its block is not in the log
LEMMA UnusedRef ==
    ASSUME RefExact, NEW b \in Bufs, refcnt[b] = 0
    PROVE  blockno[b] \notin logged /\ \A q \in Procs : buf[q] # b
  <1>1. Cardinality(Users(b)) \in Nat
    BY UsersFinite
  <1>2. blockno[b] \notin logged
    <2>1. SUFFICES ASSUME blockno[b] \in logged PROVE FALSE
      OBVIOUS
    <2>2. refcnt[b] = Cardinality(Users(b)) + 1
      BY <2>1, RefIs
    <2> QED
      BY <1>1, <2>2
  <1>3. Cardinality(Users(b)) = 0
    <2>1. refcnt[b] = Cardinality(Users(b)) + 0
      BY <1>2, RefIs
    <2> QED
      BY <1>1, <2>1
  <1> QED
    BY <1>2, <1>3, UsersFinite DEF Users

\* one process at a time holds a buffer
LEMMA OneHolder ==
    ASSUME CallInv, NEW p \in Procs, NEW q \in Procs,
           Holds(p), Holds(q), buf[p] = buf[q]
    PROVE  p = q
  BY DEF CallInv

\* the head of a request's chain is one of its descriptors
LEMMA DescOf ==
    ASSUME Types, DescInv, NEW p \in Procs, Waits(p)
    PROVE  First(idx[p]) \in idx[p] /\ First(idx[p]) \in Descs
  <1>1. idx[p] \in SUBSET Nat /\ idx[p] # {} /\ idx[p] \subseteq Descs
    BY DescsNat DEF Types, DescInv
  <1> QED
    BY <1>1, FirstFacts

\* two requests have different heads
LEMMA OneSender ==
    ASSUME Types, DescInv, NEW p \in Procs, NEW q \in Procs, Waits(p), Waits(q),
           First(idx[p]) = First(idx[q])
    PROVE  p = q
  BY DescOf DEF DescInv

\* a request of p that is asked or answered keeps its buffer busy
LEMMA OpenRequest ==
    ASSUME Types, DescInv, ReqInv, NEW p \in Procs, Waits(p), Asked(p) \/ Answered(p)
    PROVE  busy[buf[p]] /\ ~(Asked(p) /\ Answered(p))
  <1>1. ASSUME Asked(p) PROVE busy[buf[p]]
    <2>1. PICK r \in avail : r.id = First(idx[p])
      BY <1>1 DEF Asked
    <2>2. PICK q \in Procs : Sender(q, r.id)
      BY DEF ReqInv
    <2> QED
      BY <2>1, <2>2, OneSender DEF Sender
  <1>2. ASSUME Answered(p) PROVE busy[buf[p]]
    <2>1. PICK i \in 1..Len(used) : used[i] = First(idx[p])
      BY <1>2 DEF Answered
    <2>2. PICK q \in Procs : Sender(q, used[i])
      BY DEF ReqInv
    <2> QED
      BY <2>1, <2>2, OneSender DEF Sender
  <1> QED
    BY <1>1, <1>2 DEF Asked, Answered, ReqInv

\* what alloc3_desc() gives a request
LEMMA SubmitFacts ==
    ASSUME Types, CallInv, NEW p \in Procs, Submit(p)
    PROVE  /\ alloc3_desc \subseteq free /\ IsFiniteSet(alloc3_desc)
           /\ alloc3_desc # {} /\ First(alloc3_desc) \in alloc3_desc
           /\ buf[p] \in Bufs /\ blockno[buf[p]] \in Blocks
           /\ [id |-> First(alloc3_desc), b |-> buf[p], blk |-> blockno[buf[p]],
               write |-> writing[p]] \in Request
  <1>1. pc[p] = "rw" /\ Cardinality(free) >= 3
    BY DEF Submit, Goto
  <1>2. alloc3_desc \subseteq free /\ IsFiniteSet(alloc3_desc) /\ alloc3_desc # {}
    BY <1>1, Alloc DEF Types
  <1>3. First(alloc3_desc) \in alloc3_desc
    BY <1>2, FirstFacts, DescsNat DEF Types
  <1>4. buf[p] \in Bufs /\ blockno[buf[p]] \in Blocks
    BY <1>1, BufFacts
  <1> QED
    BY <1>2, <1>3, <1>4 DEF Request, Types

\* less to write, less room needed
LEMMA RoomLess ==
    ASSUME RoomInv, (logged \cup Changing)' \subseteq logged \cup Changing
    PROVE  RoomInv'
  <1>1. /\ IsFiniteSet((logged \cup Changing)')
        /\ Cardinality((logged \cup Changing)') <= Cardinality(logged \cup Changing)
    BY FS_Subset DEF RoomInv
  <1>2. /\ Cardinality((logged \cup Changing)') \in Nat /\ MaxLogged \in Nat
        /\ Cardinality(logged \cup Changing) \in Nat
    BY <1>1, SlotFacts, FS_CardinalityType DEF RoomInv
  <1> QED
    BY <1>1, <1>2 DEF RoomInv

\* a new call may change at most the block that Uses counted
LEMMA RoomMore ==
    ASSUME RoomInv, NEW p \in Procs, NEW o \in Uses3, NEW k \in Blocks, Uses(p, o, k),
           (logged \cup Changing)' \subseteq logged \cup Changing
              \cup (IF o = "write" THEN {k} ELSE {})
    PROVE  RoomInv'
  <1>1. CASE o # "write"
    <2>1. (logged \cup Changing)' \subseteq logged \cup Changing
      BY <1>1
    <2> QED
      BY <2>1, RoomLess
  <1>2. CASE o = "write"
    <2> DEFINE T == logged \cup Changing \cup {k}
    <2>1. IsFiniteSet(T) /\ Cardinality(T) <= MaxLogged
      <3>1. IsFiniteSet(T)
        BY FS_AddElement DEF RoomInv
      <3>2. Cardinality(T) <= MaxLogged
        BY <1>2 DEF Uses, Changing
      <3> QED
        BY <3>1, <3>2
    <2>2. (logged \cup Changing)' \subseteq T
      BY <1>2
    <2> HIDE DEF T
    <2>3. /\ IsFiniteSet((logged \cup Changing)')
          /\ Cardinality((logged \cup Changing)') <= Cardinality(T)
      BY <2>1, <2>2, FS_Subset
    <2>4. /\ Cardinality((logged \cup Changing)') \in Nat /\ MaxLogged \in Nat
          /\ Cardinality(T) \in Nat
      BY <2>1, <2>3, SlotFacts, FS_CardinalityType
    <2> QED
      BY <2>1, <2>3, <2>4 DEF RoomInv
  <1> QED
    BY <1>1, <1>2

\* what a step of the driver's caller or of the cache leaves of the requests
DriverSame ==
    /\ UNCHANGED <<free, info, idx>>
    /\ \A q \in Procs : /\ Waits(q)' <=> Waits(q)
                        /\ Waits(q) => buf'[q] = buf[q]

\* free_chain() by the process whose request is done
Ends(p) ==
    /\ pc[p] = "io" /\ pc' = [pc EXCEPT ![p] = pc'[p]] /\ pc'[p] \in {"held", "written"}
    /\ ~busy[buf[p]] /\ state[p] = "RUNNABLE" /\ ~vdisk_lock
    /\ info' = [info EXCEPT ![First(idx[p])] = 0]
    /\ free' = free \cup idx[p]
    /\ idx' = [idx EXCEPT ![p] = {}]
    /\ wakeupAll(FreeChan)
    /\ UNCHANGED <<blockno, data, busy, vdisk_lock, buf, writing, disk, avail, used, isr,
                   refcnt, owner, op, logged, latest>>

LEMMA EndsFacts ==
    ASSUME NEW p \in Procs, BreadDone(p) \/ BwriteDone(p), Types
    PROVE  Ends(p)
  BY DEF BreadDone, BwriteDone, IoDone, Goto, FreeChain, Ends, Returned, deviceVars,
         useVars, cacheVars, Types

\* what a step leaves of the requests under way
ReqSame ==
    /\ UNCHANGED <<avail, used, busy, idx>>
    /\ \A q \in Procs : Waits(q) =>
           /\ Waits(q)' /\ buf'[q] = buf[q] /\ writing'[q] = writing[q]
           /\ blockno'[buf[q]] = blockno[buf[q]]

\* steps that touch no request
LEMMA ReqKept ==
    ASSUME ReqInv, ReqSame
    PROVE  ReqInv'
  <1>1. ASSUME NEW q \in Procs, NEW id, Sender(q, id)
        PROVE  /\ Sender(q, id)' /\ buf'[q] = buf[q] /\ writing'[q] = writing[q]
               /\ blockno'[buf'[q]] = blockno[buf[q]]
    BY <1>1 DEF ReqSame, Sender
  <1>2. UNCHANGED <<avail, used>>
    BY DEF ReqSame
  <1>3. ASSUME NEW r \in avail
        PROVE  \E p \in Procs :
                  /\ Sender(p, r.id)'
                  /\ r = [id |-> r.id, b |-> buf'[p], blk |-> blockno'[buf'[p]],
                          write |-> writing'[p]]
    BY <1>1 DEF ReqInv
  <1>4. \A i \in 1..Len(used) : \E p \in Procs : Sender(p, used[i])'
    BY <1>1, <1>2 DEF ReqInv
  <1> QED
    BY <1>2, <1>3, <1>4 DEF ReqInv

\* who waits for the request at the head of the used ring
LEMMA HeadSender ==
    ASSUME Types, DescInv, ReqInv, used # <<>>
    PROVE  \E q \in Procs : /\ Sender(q, used[1]) /\ Head(used) = used[1]
                            /\ info[used[1]] = buf[q] /\ buf[q] = info[Head(used)]
  <1>1. 1 \in 1..Len(used) /\ Head(used) = used[1]
    BY DEF Types
  <1>2. PICK q \in Procs : Sender(q, used[1])
    BY <1>1 DEF ReqInv
  <1> QED
    BY <1>1, <1>2 DEF Sender, DescInv

\* no step takes a variable out of its type: a count never falls below zero
LEMMA TypesStep ==
    ASSUME Types, CallInv, RefExact, [Next]_vars
    PROVE  Types'
  <1> USE SlotFacts DEF Types, Uses3
  <1>1. ASSUME NEW r \in avail, Finish(r), Still PROVE Types'
    <2>1. r.id \in Descs /\ r.b \in Bufs /\ r.blk \in Blocks
      BY DEF Request
    <2>2. data' \in [Bufs -> Vals] /\ disk' \in [Blocks -> Vals]
      BY <1>1, <2>1 DEF Finish
    <2>3. used' \in Seq(Descs) /\ avail' \subseteq Request
      BY <1>1, <2>1, AppendProperties DEF Finish
    <2> QED
      BY <1>1, <2>2, <2>3 DEF Still, cacheVars, useVars, Finish, sleepVars, driverVars
  <1>2. ASSUME virtio_disk_intr, Still PROVE Types'
    <2>1. CASE IntrAck
      BY <1>2, <2>1 DEF Still, cacheVars, useVars, IntrAck, sleepVars,
             driverVars
    <2>2. CASE IntrBuf
      <3>1. used' = Tail(used) /\ used # <<>>
        BY <1>2, <2>2 DEF IntrBuf, IntrEntry
      <3>2. used' \in Seq(Descs)
        BY <3>1, HeadTailProperties
      <3> QED
        BY <1>2, <2>2, <3>2 DEF Still, cacheVars, useVars, IntrBuf, IntrEntry, wakeupAll
    <2>3. CASE IntrDone
      BY <1>2, <2>3 DEF Still, cacheVars, useVars, IntrDone, sleepVars,
             driverVars, deviceVars
    <2> QED
      BY <1>2, <2>1, <2>2, <2>3 DEF virtio_disk_intr
  <1>3. ASSUME NEW p \in Procs, NEW o \in Uses3, NEW k \in Blocks, NEW b \in Bufs,
              Hit(p, o, k, b) \/ Miss(p, o, k, b)
       PROVE  Types'
    <2>1. CASE Hit(p, o, k, b)
      BY <2>1 DEF Hit, Enter, Goto, sleepVars
    <2>2. CASE Miss(p, o, k, b)
      BY <2>2 DEF Miss, Recycle, Enter, Goto, sleepVars
    <2> QED
      BY <1>3, <2>1, <2>2
  <1>4. ASSUME NEW p \in Procs, Submit(p) \/ DescWait(p) \/ IoSleep(p) \/ IoAgain(p), Still
       PROVE  Types'
    <2>1. CASE Submit(p)
      <3>1. free' = free \ alloc3_desc /\ IsFiniteSet(free')
        BY <1>4, <2>1, FS_Difference DEF Submit
      <3>2. \A q \in Procs : IsFiniteSet(idx'[q])
        BY <1>4, <2>1, SubmitFacts DEF Submit
      <3> QED
        BY <1>4, <2>1, <3>1, <3>2, SubmitFacts
           DEF Still, cacheVars, useVars, Submit, Goto, sleep_prepare, deviceVars
    <2>2. CASE DescWait(p)
      BY <1>4, <2>2 DEF Still, cacheVars, useVars, DescWait, Goto, Returned,
             driverVars, deviceVars
    <2>3. CASE IoSleep(p)
      BY <1>4, <2>3 DEF Still, cacheVars, useVars, IoSleep, Goto, sleep,
             driverVars, deviceVars
    <2>4. CASE IoAgain(p)
      <3>1. Chan(buf[p]) \in {Chan(b) : b \in Bufs}
        BY <1>4, <2>4, BufFacts DEF IoAgain, Goto
      <3> QED
        BY <1>4, <2>4, <3>1
           DEF Still, cacheVars, useVars, IoAgain, Goto, sleep_prepare, driverVars,
               deviceVars
    <2> QED
      BY <1>4, <2>1, <2>2, <2>3, <2>4
  <1>5. ASSUME NEW p \in Procs, bread(p) \/ BreadDone(p) \/ BwriteDone(p)
       PROVE  Types'
    <2>1. CASE bread(p)
      BY <2>1 DEF bread, Goto, sleepVars, useVars
    <2>2. CASE BreadDone(p)
      <3>1. IsFiniteSet(free \cup idx[p]) /\ IsFiniteSet({})
        BY FS_Union, FS_EmptySet
      <3>2. /\ free' = free \cup idx[p] /\ idx' = [idx EXCEPT ![p] = {}]
            /\ info' = [info EXCEPT ![First(idx[p])] = 0]
        BY <2>2 DEF BreadDone, IoDone, FreeChain
      <3>3. /\ free' \subseteq Descs /\ IsFiniteSet(free')
            /\ idx' \in [Procs -> SUBSET Descs] /\ \A q \in Procs : IsFiniteSet(idx'[q])
            /\ info' \in [Descs -> Bufs \cup {0}]
        BY <3>1, <3>2
      <3>4. /\ chan' \in [Procs -> {NoChan, FreeChan} \cup {Chan(b) : b \in Bufs}]
            /\ state' \in [Procs -> {"RUNNABLE", "SLEEPING"}] /\ UNCHANGED killed
        BY <2>2 DEF BreadDone, IoDone, FreeChain, wakeupAll
      <3>5. valid' \in [Bufs -> BOOLEAN] /\ UNCHANGED <<refcnt, owner, useVars>>
        BY <2>2 DEF BreadDone, cacheVars
      <3> QED
        BY <2>2, <3>3, <3>4, <3>5 DEF BreadDone, IoDone, Goto, FreeChain, useVars, deviceVars
    <2>3. CASE BwriteDone(p)
      <3>1. IsFiniteSet(free \cup idx[p]) /\ IsFiniteSet({})
        BY FS_Union, FS_EmptySet
      <3>2. /\ free' = free \cup idx[p] /\ idx' = [idx EXCEPT ![p] = {}]
            /\ info' = [info EXCEPT ![First(idx[p])] = 0]
        BY <2>3 DEF BwriteDone, IoDone, FreeChain
      <3>3. /\ free' \subseteq Descs /\ IsFiniteSet(free')
            /\ idx' \in [Procs -> SUBSET Descs] /\ \A q \in Procs : IsFiniteSet(idx'[q])
            /\ info' \in [Descs -> Bufs \cup {0}]
        BY <3>1, <3>2
      <3>4. /\ chan' \in [Procs -> {NoChan, FreeChan} \cup {Chan(b) : b \in Bufs}]
            /\ state' \in [Procs -> {"RUNNABLE", "SLEEPING"}] /\ UNCHANGED killed
        BY <2>3 DEF BwriteDone, IoDone, FreeChain, wakeupAll
      <3>5. valid' \in [Bufs -> BOOLEAN] /\ UNCHANGED <<refcnt, owner, useVars>>
        BY <2>3 DEF BwriteDone, cacheVars
      <3> QED
        BY <2>3, <3>3, <3>4, <3>5 DEF BwriteDone, IoDone, Goto, FreeChain, useVars, deviceVars
    <2> QED
      BY <1>5, <2>1, <2>2, <2>3
  <1>6. ASSUME NEW p \in Procs, log_write(p) \/ bwrite(p) \/ bunpin(p)
       PROVE  Types'
    <2>1. CASE log_write(p)
      <3>1. buf[p] \in Bufs /\ blockno[buf[p]] \in Blocks
        BY <2>1, BufFacts DEF log_write, Goto
      <3>2. logged' \subseteq Blocks /\ refcnt' \in [Bufs -> Nat]
        BY <2>1, <3>1 DEF log_write
      <3>3. data' \in [Bufs -> Vals] /\ latest' \in [Blocks -> Vals]
        BY <2>1, <3>1 DEF log_write
      <3> QED
        BY <2>1, <3>2, <3>3 DEF log_write, Goto, sleepVars, driverVars
    <2>2. CASE bwrite(p)
      BY <2>2 DEF bwrite, Goto, sleepVars, driverVars, cacheVars, useVars
    <2>3. CASE bunpin(p)
      <3>1. buf[p] \in Bufs /\ refcnt[buf[p]] >= 1
        BY <2>3, BufFacts, UsedRef DEF bunpin, Goto
      <3>2. refcnt' \in [Bufs -> Nat] /\ logged' \subseteq Blocks
        BY <2>3, <3>1 DEF bunpin
      <3> QED
        BY <2>3, <3>2 DEF bunpin, Goto, sleepVars, driverVars
    <2> QED
      BY <1>6, <2>1, <2>2, <2>3
  <1>7. ASSUME NEW p \in Procs, brelse(p) \/ Unref(p) \/ Kill(p) PROVE Types'
    <2>1. CASE brelse(p)
      BY <2>1 DEF brelse, Goto, sleepVars, driverVars, useVars
    <2>2. CASE Unref(p)
      <3>1. buf[p] \in Bufs /\ refcnt[buf[p]] >= 1
        BY <2>2, BufFacts, UsedRef DEF Unref, Goto
      <3>2. refcnt' \in [Bufs -> Nat]
        BY <2>2, <3>1 DEF Unref
      <3> QED
        BY <2>2, <3>2 DEF Unref, Goto, sleepVars, driverVars
    <2>3. CASE Kill(p)
      BY <2>3 DEF Kill, kkill, driverVars, cacheVars, useVars
    <2> QED
      BY <1>7, <2>1, <2>2, <2>3
  <1>8. CASE UNCHANGED vars
    BY <1>8 DEF vars, ioVars, sleepVars, cacheVars, useVars
  <1> QED
    BY <1>1, <1>2, <1>3, <1>4, <1>5, <1>6, <1>7, <1>8, NextCases

\* a step leaves every call with a buffer of its block, and with the lock while it holds it
LEMMA CallStep ==
    ASSUME Types, CallInv, RefExact, [Next]_vars
    PROVE  CallInv'
  <1> USE SlotFacts DEF Types, CallInv, Holds, Waits, Transfers, Uses3
  <1>1. ASSUME NEW r \in avail, Finish(r), Still PROVE CallInv'
    BY <1>1 DEF Still, cacheVars, useVars, Finish, sleepVars, driverVars
  <1>2. ASSUME virtio_disk_intr, Still PROVE CallInv'
    <2>1. CASE IntrAck
      BY <1>2, <2>1 DEF Still, cacheVars, useVars, IntrAck, sleepVars,
             driverVars
    <2>2. CASE IntrBuf
      BY <1>2, <2>2 DEF Still, cacheVars, useVars, IntrBuf, IntrEntry,
             wakeupAll
    <2>3. CASE IntrDone
      BY <1>2, <2>3 DEF Still, cacheVars, useVars, IntrDone, sleepVars,
             driverVars, deviceVars
    <2> QED
      BY <1>2, <2>1, <2>2, <2>3 DEF virtio_disk_intr
  <1>3. ASSUME NEW p \in Procs, NEW o \in Uses3, NEW k \in Blocks, NEW b \in Bufs,
              Hit(p, o, k, b) \/ Miss(p, o, k, b)
       PROVE  CallInv'
    <2>1. CASE Hit(p, o, k, b)
      BY <2>1 DEF Hit, Enter, Goto, sleepVars
    <2>2. CASE Miss(p, o, k, b)
      <3>1. \A q \in Procs : buf[q] # b
        BY <2>2, UnusedRef DEF Miss
      <3> QED
        BY <2>2, <3>1 DEF Miss, Recycle, Enter, Goto
    <2> QED
      BY <1>3, <2>1, <2>2
  <1>4. ASSUME NEW p \in Procs, Submit(p) \/ DescWait(p) \/ IoSleep(p) \/ IoAgain(p), Still
       PROVE  CallInv'
    <2>1. CASE Submit(p)
      BY <1>4, <2>1 DEF Still, cacheVars, useVars, Submit, Goto, Returned,
             sleep_prepare, deviceVars
    <2>2. CASE DescWait(p)
      BY <1>4, <2>2 DEF Still, cacheVars, useVars, DescWait, Goto, Returned,
             driverVars, deviceVars
    <2>3. CASE IoSleep(p)
      BY <1>4, <2>3 DEF Still, cacheVars, useVars, IoSleep, Goto, sleep,
             driverVars, deviceVars
    <2>4. CASE IoAgain(p)
      BY <1>4, <2>4 DEF Still, cacheVars, useVars, IoAgain, Goto, Returned,
             sleep_prepare, driverVars, deviceVars
    <2> QED
      BY <1>4, <2>1, <2>2, <2>3, <2>4
  <1>5. ASSUME NEW p \in Procs, bread(p) \/ BreadDone(p) \/ BwriteDone(p)
       PROVE  CallInv'
    <2>1. CASE bread(p)
      <3>1. buf[p] \in Bufs /\ pc[p] = "lock" /\ p \in 0..N /\ p # 0
        BY <2>1, BufFacts DEF bread, Goto, Procs
      <3>2. /\ pc' = [pc EXCEPT ![p] = IF valid[buf[p]] THEN "held" ELSE "rw"]
            /\ owner[buf[p]] = 0 /\ owner' = [owner EXCEPT ![buf[p]] = p]
            /\ writing' = [writing EXCEPT ![p] = FALSE]
            /\ UNCHANGED <<buf, blockno, valid, op>>
        BY <2>1 DEF bread, Goto, useVars
      <3>3. \A q \in Procs : Holds(q) => owner'[buf[q]] = q
        BY <3>1, <3>2 DEF Procs
      <3>4. valid[buf[p]] => pc'[p] = "held"
        BY <3>1, <3>2
      <3>5. ~valid[buf[p]] => pc'[p] = "rw"
        BY <3>1, <3>2
      <3> QED
        BY <3>1, <3>2, <3>3, <3>4, <3>5
    <2>2. CASE BreadDone(p)
      BY <2>2 DEF BreadDone, IoDone, Goto, FreeChain, Returned, wakeupAll,
             deviceVars, useVars
    <2>3. CASE BwriteDone(p)
      BY <2>3 DEF BwriteDone, IoDone, Goto, FreeChain, Returned, wakeupAll,
             deviceVars, cacheVars, useVars
    <2> QED
      BY <1>5, <2>1, <2>2, <2>3
  <1>6. ASSUME NEW p \in Procs, log_write(p) \/ bwrite(p) \/ bunpin(p)
       PROVE  CallInv'
    <2>1. CASE log_write(p)
      BY <2>1 DEF log_write, Goto, sleepVars, driverVars
    <2>2. CASE bwrite(p)
      BY <2>2 DEF bwrite, Goto, sleepVars, driverVars, cacheVars, useVars
    <2>3. CASE bunpin(p)
      BY <2>3 DEF bunpin, Goto, sleepVars, driverVars
    <2> QED
      BY <1>6, <2>1, <2>2, <2>3
  <1>7. ASSUME NEW p \in Procs, brelse(p) \/ Unref(p) \/ Kill(p) PROVE CallInv'
    <2>1. CASE brelse(p)
      BY <2>1 DEF brelse, Goto, sleepVars, driverVars, useVars
    <2>2. CASE Unref(p)
      BY <2>2 DEF Unref, Goto, sleepVars, driverVars
    <2>3. CASE Kill(p)
      BY <2>3 DEF Kill, kkill, driverVars, cacheVars, useVars
    <2> QED
      BY <1>7, <2>1, <2>2, <2>3
  <1>8. CASE UNCHANGED vars
    BY <1>8 DEF vars, ioVars, sleepVars, cacheVars, useVars
  <1> QED
    BY <1>1, <1>2, <1>3, <1>4, <1>5, <1>6, <1>7, <1>8, NextCases

\* only a miss gives a buffer another block, one that no buffer has
LEMMA OneBufferStep ==
    ASSUME Types, OneBuffer, [Next]_vars
    PROVE  OneBuffer'
  <1> USE SlotFacts DEF Types, OneBuffer
  <1>1. ASSUME NEW r \in avail, Finish(r), Still PROVE OneBuffer'
    <2>1. UNCHANGED blockno
      BY <1>1 DEF Still, cacheVars, useVars, Finish, sleepVars, driverVars
    <2> QED
      BY <2>1
  <1>2. ASSUME virtio_disk_intr, Still PROVE OneBuffer'
    <2>1. CASE IntrAck
      <3>1. UNCHANGED blockno
        BY <1>2, <2>1 DEF Still, cacheVars, useVars, IntrAck, sleepVars,
               driverVars
      <3> QED
        BY <3>1
    <2>2. CASE IntrBuf
      <3>1. UNCHANGED blockno
        BY <1>2, <2>2 DEF Still, cacheVars, useVars, IntrBuf, IntrEntry,
               wakeupAll
      <3> QED
        BY <3>1
    <2>3. CASE IntrDone
      <3>1. UNCHANGED blockno
        BY <1>2, <2>3 DEF Still, cacheVars, useVars, IntrDone, sleepVars,
               driverVars, deviceVars
      <3> QED
        BY <3>1
    <2> QED
      BY <1>2, <2>1, <2>2, <2>3 DEF virtio_disk_intr
  <1>3. ASSUME NEW p \in Procs, NEW o \in Uses3, NEW k \in Blocks, NEW b \in Bufs,
              Hit(p, o, k, b) \/ Miss(p, o, k, b)
       PROVE  OneBuffer'
    <2>1. CASE Hit(p, o, k, b)
      <3>1. UNCHANGED blockno
        BY <2>1 DEF Hit, Enter, Goto, sleepVars
      <3> QED
        BY <3>1
    <2>2. CASE Miss(p, o, k, b)
      <3>1. /\ blockno' = [blockno EXCEPT ![b] = k] /\ \A c \in Bufs : blockno[c] # k
        BY <2>2 DEF Miss, Recycle
      <3> QED
        BY <3>1
    <2> QED
      BY <1>3, <2>1, <2>2
  <1>4. ASSUME NEW p \in Procs, Submit(p) \/ DescWait(p) \/ IoSleep(p) \/ IoAgain(p), Still
       PROVE  OneBuffer'
    <2>1. CASE Submit(p)
      <3>1. UNCHANGED blockno
        BY <1>4, <2>1 DEF Still, cacheVars, useVars, Submit, Goto, Returned,
               sleep_prepare, deviceVars
      <3> QED
        BY <3>1
    <2>2. CASE DescWait(p)
      <3>1. UNCHANGED blockno
        BY <1>4, <2>2 DEF Still, cacheVars, useVars, DescWait, Goto, Returned,
               driverVars, deviceVars
      <3> QED
        BY <3>1
    <2>3. CASE IoSleep(p)
      <3>1. UNCHANGED blockno
        BY <1>4, <2>3 DEF Still, cacheVars, useVars, IoSleep, Goto, sleep,
               driverVars, deviceVars
      <3> QED
        BY <3>1
    <2>4. CASE IoAgain(p)
      <3>1. UNCHANGED blockno
        BY <1>4, <2>4 DEF Still, cacheVars, useVars, IoAgain, Goto, Returned,
               sleep_prepare, driverVars, deviceVars
      <3> QED
        BY <3>1
    <2> QED
      BY <1>4, <2>1, <2>2, <2>3, <2>4
  <1>5. ASSUME NEW p \in Procs, bread(p) \/ BreadDone(p) \/ BwriteDone(p)
       PROVE  OneBuffer'
    <2>1. CASE bread(p)
      <3>1. UNCHANGED blockno
        BY <2>1 DEF bread, Goto, sleepVars, useVars
      <3> QED
        BY <3>1
    <2>2. CASE BreadDone(p)
      <3>1. UNCHANGED blockno
        BY <2>2 DEF BreadDone, IoDone, Goto, FreeChain, Returned, wakeupAll,
               deviceVars, useVars
      <3> QED
        BY <3>1
    <2>3. CASE BwriteDone(p)
      <3>1. UNCHANGED blockno
        BY <2>3 DEF BwriteDone, IoDone, Goto, FreeChain, Returned, wakeupAll,
               deviceVars, cacheVars, useVars
      <3> QED
        BY <3>1
    <2> QED
      BY <1>5, <2>1, <2>2, <2>3
  <1>6. ASSUME NEW p \in Procs, log_write(p) \/ bwrite(p) \/ bunpin(p)
       PROVE  OneBuffer'
    <2>1. CASE log_write(p)
      <3>1. UNCHANGED blockno
        BY <2>1 DEF log_write, Goto, sleepVars, driverVars
      <3> QED
        BY <3>1
    <2>2. CASE bwrite(p)
      <3>1. UNCHANGED blockno
        BY <2>2 DEF bwrite, Goto, sleepVars, driverVars, cacheVars, useVars
      <3> QED
        BY <3>1
    <2>3. CASE bunpin(p)
      <3>1. UNCHANGED blockno
        BY <2>3 DEF bunpin, Goto, sleepVars, driverVars
      <3> QED
        BY <3>1
    <2> QED
      BY <1>6, <2>1, <2>2, <2>3
  <1>7. ASSUME NEW p \in Procs, brelse(p) \/ Unref(p) \/ Kill(p)
       PROVE  OneBuffer'
    <2>1. CASE brelse(p)
      <3>1. UNCHANGED blockno
        BY <2>1 DEF brelse, Goto, sleepVars, driverVars, useVars
      <3> QED
        BY <3>1
    <2>2. CASE Unref(p)
      <3>1. UNCHANGED blockno
        BY <2>2 DEF Unref, Goto, sleepVars, driverVars
      <3> QED
        BY <3>1
    <2>3. CASE Kill(p)
      <3>1. UNCHANGED blockno
        BY <2>3 DEF Kill, kkill, driverVars, cacheVars, useVars
      <3> QED
        BY <3>1
    <2> QED
      BY <1>7, <2>1, <2>2, <2>3
  <1>8. CASE UNCHANGED vars
    BY <1>8 DEF vars, ioVars, sleepVars, cacheVars, useVars
  <1> QED
    BY <1>1, <1>2, <1>3, <1>4, <1>5, <1>6, <1>7, <1>8, NextCases

\* each step that takes or drops a reference, or a pin, counts it
LEMMA RefStep ==
    ASSUME Types, CallInv, OneBuffer, RefExact, PinInv, InstallInv, [Next]_vars
    PROVE  RefExact'
  <1> USE SlotFacts DEF Types
  <1>1. ASSUME NEW r \in avail, Finish(r), Still PROVE RefExact'
    <2>1. UNCHANGED <<refcnt, buf, blockno, logged>>
      BY <1>1 DEF Still, cacheVars, useVars, Finish, sleepVars, driverVars
    <2> QED
      BY <2>1 DEF RefExact
  <1>2. ASSUME virtio_disk_intr, Still PROVE RefExact'
    <2>1. CASE IntrAck
      <3>1. UNCHANGED <<refcnt, buf, blockno, logged>>
        BY <1>2, <2>1 DEF Still, cacheVars, useVars, IntrAck, sleepVars,
               driverVars
      <3> QED
        BY <3>1 DEF RefExact
    <2>2. CASE IntrBuf
      <3>1. UNCHANGED <<refcnt, buf, blockno, logged>>
        BY <1>2, <2>2 DEF Still, cacheVars, useVars, IntrBuf, IntrEntry,
               wakeupAll
      <3> QED
        BY <3>1 DEF RefExact
    <2>3. CASE IntrDone
      <3>1. UNCHANGED <<refcnt, buf, blockno, logged>>
        BY <1>2, <2>3 DEF Still, cacheVars, useVars, IntrDone, sleepVars,
               driverVars, deviceVars
      <3> QED
        BY <3>1 DEF RefExact
    <2> QED
      BY <1>2, <2>1, <2>2, <2>3 DEF virtio_disk_intr
  <1>3. ASSUME NEW p \in Procs, NEW o \in Uses3, NEW k \in Blocks, NEW b \in Bufs,
              Hit(p, o, k, b) \/ Miss(p, o, k, b)
       PROVE  RefExact'
    <2>1. CASE Hit(p, o, k, b)
      <3>1. /\ refcnt' = [refcnt EXCEPT ![b] = refcnt[b] + 1] /\ buf' = [buf EXCEPT ![p] = b]
            /\ pc[p] = "idle" /\ UNCHANGED <<blockno, logged>>
        BY <2>1 DEF Hit, Enter, Goto
      <3>2. buf[p] = 0
        BY <3>1 DEF CallInv
      <3>3. Users(b)' = Users(b) \cup {p} /\ p \notin Users(b)
        BY <3>1, <3>2 DEF Users
      <3>4. Cardinality(Users(b)') = Cardinality(Users(b)) + 1
        <4>1. Cardinality(Users(b) \cup {p}) = Cardinality(Users(b)) + 1
          BY <3>3, UsersFinite, FS_AddElement
        <4> QED
          BY <3>3, <4>1
      <3>5. \A c \in Bufs \ {b} : /\ refcnt'[c] = refcnt[c] /\ Users(c)' = Users(c)
                                 /\ Pin(c)' = Pin(c)
        BY <3>1, <3>2 DEF Users, Pin
      <3>6. Pin(b)' = Pin(b) /\ Pin(b) \in Nat /\ refcnt'[b] = refcnt[b] + 1
        BY <3>1 DEF Pin
      <3>7. refcnt[b] = Cardinality(Users(b)) + Pin(b)
        BY RefIs DEF Pin
      <3>8. refcnt'[b] = Cardinality(Users(b)') + Pin(b)'
        BY <3>4, <3>6, <3>7, UsersFinite
      <3> QED
        BY <3>1, <3>5, <3>8, RefStays
    <2>2. CASE Miss(p, o, k, b)
      <3>1. /\ refcnt' = [refcnt EXCEPT ![b] = 1] /\ buf' = [buf EXCEPT ![p] = b]
            /\ blockno' = [blockno EXCEPT ![b] = k] /\ \A c \in Bufs : blockno[c] # k
            /\ pc[p] = "idle" /\ UNCHANGED logged
        BY <2>2 DEF Miss, Recycle, Enter, Goto
      <3>2. buf[p] = 0 /\ \A q \in Procs : buf[q] # b
        BY <2>2, <3>1, UnusedRef DEF CallInv, Miss
      <3>3. Users(b)' = {p}
        BY <3>1, <3>2 DEF Users
      <3>4. Cardinality(Users(b)') = 1
        BY <3>3, FS_Singleton
      <3>5. \A c \in Bufs \ {b} : /\ refcnt'[c] = refcnt[c] /\ Users(c)' = Users(c)
                                 /\ Pin(c)' = Pin(c)
        BY <3>1, <3>2 DEF Users, Pin
      <3>6. k \notin logged
        BY <3>1 DEF PinInv
      <3>7. refcnt'[b] = Cardinality(Users(b)') + Pin(b)'
        BY <3>1, <3>4, <3>6 DEF Pin
      <3> QED
        BY <3>1, <3>5, <3>7, RefStays
    <2> QED
      BY <1>3, <2>1, <2>2
  <1>4. ASSUME NEW p \in Procs, Submit(p) \/ DescWait(p) \/ IoSleep(p) \/ IoAgain(p), Still
       PROVE  RefExact'
    <2>1. CASE Submit(p)
      <3>1. UNCHANGED <<refcnt, buf, blockno, logged>>
        BY <1>4, <2>1 DEF Still, cacheVars, useVars, Submit, Goto, Returned,
               sleep_prepare, deviceVars
      <3> QED
        BY <3>1 DEF RefExact
    <2>2. CASE DescWait(p)
      <3>1. UNCHANGED <<refcnt, buf, blockno, logged>>
        BY <1>4, <2>2 DEF Still, cacheVars, useVars, DescWait, Goto, Returned,
               driverVars, deviceVars
      <3> QED
        BY <3>1 DEF RefExact
    <2>3. CASE IoSleep(p)
      <3>1. UNCHANGED <<refcnt, buf, blockno, logged>>
        BY <1>4, <2>3 DEF Still, cacheVars, useVars, IoSleep, Goto, sleep,
               driverVars, deviceVars
      <3> QED
        BY <3>1 DEF RefExact
    <2>4. CASE IoAgain(p)
      <3>1. UNCHANGED <<refcnt, buf, blockno, logged>>
        BY <1>4, <2>4 DEF Still, cacheVars, useVars, IoAgain, Goto, Returned,
               sleep_prepare, driverVars, deviceVars
      <3> QED
        BY <3>1 DEF RefExact
    <2> QED
      BY <1>4, <2>1, <2>2, <2>3, <2>4
  <1>5. ASSUME NEW p \in Procs, bread(p) \/ BreadDone(p) \/ BwriteDone(p)
       PROVE  RefExact'
    <2>1. CASE bread(p)
      <3>1. UNCHANGED <<refcnt, buf, blockno, logged>>
        BY <2>1 DEF bread, Goto, sleepVars, useVars
      <3> QED
        BY <3>1 DEF RefExact
    <2>2. CASE BreadDone(p)
      <3>1. UNCHANGED <<refcnt, buf, blockno, logged>>
        BY <2>2 DEF BreadDone, IoDone, Goto, FreeChain, Returned, wakeupAll,
               deviceVars, useVars
      <3> QED
        BY <3>1 DEF RefExact
    <2>3. CASE BwriteDone(p)
      <3>1. UNCHANGED <<refcnt, buf, blockno, logged>>
        BY <2>3 DEF BwriteDone, IoDone, Goto, FreeChain, Returned, wakeupAll,
               deviceVars, cacheVars, useVars
      <3> QED
        BY <3>1 DEF RefExact
    <2> QED
      BY <1>5, <2>1, <2>2, <2>3
  <1>6. ASSUME NEW p \in Procs, log_write(p) \/ bwrite(p) \/ bunpin(p)
       PROVE  RefExact'
    <2>1. CASE log_write(p)
      <3>1. PICK b \in Bufs : b = buf[p] /\ blockno[b] \in Blocks
        BY <2>1, BufFacts DEF log_write, Goto
      <3>2. /\ logged' = logged \cup {blockno[b]} /\ UNCHANGED <<buf, blockno>>
            /\ refcnt' = [refcnt EXCEPT ![b] = IF blockno[b] \in logged THEN refcnt[b] ELSE refcnt[b] + 1]
        BY <2>1, <3>1 DEF log_write
      <3>3. \A c \in Bufs : Users(c)' = Users(c)
        BY <3>2 DEF Users
      <3>4. \A c \in Bufs \ {b} : /\ refcnt'[c] = refcnt[c] /\ Users(c)' = Users(c)
                                 /\ Pin(c)' = Pin(c)
        BY <3>1, <3>2, <3>3 DEF OneBuffer, Pin
      <3>5. refcnt[b] = Cardinality(Users(b)) + Pin(b) /\ Cardinality(Users(b)) \in Nat
        BY <3>1, RefIs, UsersFinite DEF Pin
      <3>6. refcnt'[b] = Cardinality(Users(b)) + 1 /\ Pin(b)' = 1
        BY <3>1, <3>2, <3>5 DEF Pin
      <3>7. refcnt'[b] = Cardinality(Users(b)') + Pin(b)'
        BY <3>1, <3>3, <3>6
      <3> QED
        BY <3>4, <3>7, RefStays
    <2>2. CASE bwrite(p)
      <3>1. UNCHANGED <<refcnt, buf, blockno, logged>>
        BY <2>2 DEF bwrite, Goto, sleepVars, driverVars, cacheVars, useVars
      <3> QED
        BY <3>1 DEF RefExact
    <2>3. CASE bunpin(p)
      <3>1. PICK b \in Bufs : b = buf[p] /\ blockno[b] \in Blocks
        BY <2>3, BufFacts DEF bunpin, Goto
      <3>2. /\ logged' = logged \ {blockno[b]} /\ UNCHANGED <<buf, blockno>>
            /\ refcnt' = [refcnt EXCEPT ![b] = refcnt[b] - 1] /\ blockno[b] \in logged
        BY <2>3, <3>1 DEF bunpin, Goto, CallInv, InstallInv
      <3>3. \A c \in Bufs : Users(c)' = Users(c)
        BY <3>2 DEF Users
      <3>4. \A c \in Bufs \ {b} : /\ refcnt'[c] = refcnt[c] /\ Users(c)' = Users(c)
                                 /\ Pin(c)' = Pin(c)
        BY <3>1, <3>2, <3>3 DEF OneBuffer, Pin
      <3>5. refcnt[b] = Cardinality(Users(b)) + 1 /\ Cardinality(Users(b)) \in Nat
        BY <3>1, <3>2, RefIs, UsersFinite
      <3>6. refcnt'[b] = Cardinality(Users(b)) + 0 /\ Pin(b)' = 0
        BY <3>1, <3>2, <3>5 DEF Pin
      <3>7. refcnt'[b] = Cardinality(Users(b)') + Pin(b)'
        BY <3>1, <3>3, <3>6
      <3> QED
        BY <3>4, <3>7, RefStays
    <2> QED
      BY <1>6, <2>1, <2>2, <2>3
  <1>7. ASSUME NEW p \in Procs, brelse(p) \/ Unref(p) \/ Kill(p)
       PROVE  RefExact'
    <2>1. CASE brelse(p)
      <3>1. UNCHANGED <<refcnt, buf, blockno, logged>>
        BY <2>1 DEF brelse, Goto, sleepVars, driverVars, useVars
      <3> QED
        BY <3>1 DEF RefExact
    <2>2. CASE Unref(p)
      <3>1. PICK b \in Bufs : b = buf[p]
        BY <2>2, BufFacts DEF Unref, Goto
      <3>2. /\ refcnt' = [refcnt EXCEPT ![b] = refcnt[b] - 1] /\ buf' = [buf EXCEPT ![p] = 0]
            /\ UNCHANGED <<blockno, logged>>
        BY <2>2, <3>1 DEF Unref
      <3>3. Users(b)' = Users(b) \ {p} /\ p \in Users(b)
        BY <3>1, <3>2 DEF Users
      <3>4. /\ Cardinality(Users(b)') = Cardinality(Users(b)) - 1
            /\ Cardinality(Users(b)) \in Nat
        BY <3>3, UsersFinite, FS_RemoveElement
      <3>5. \A c \in Bufs \ {b} : /\ refcnt'[c] = refcnt[c] /\ Users(c)' = Users(c)
                                 /\ Pin(c)' = Pin(c)
        BY <3>1, <3>2 DEF Users, Pin
      <3>6. Pin(b)' = Pin(b) /\ Pin(b) \in Nat /\ refcnt'[b] = refcnt[b] - 1
        BY <3>1, <3>2 DEF Pin
      <3>7. refcnt[b] = Cardinality(Users(b)) + Pin(b)
        BY <3>1, RefIs DEF Pin
      <3>8. refcnt'[b] = Cardinality(Users(b)') + Pin(b)'
        BY <3>4, <3>6, <3>7
      <3> QED
        BY <3>1, <3>2, <3>5, <3>8, RefStays
    <2>3. CASE Kill(p)
      <3>1. UNCHANGED <<refcnt, buf, blockno, logged>>
        BY <2>3 DEF Kill, kkill, driverVars, cacheVars, useVars
      <3> QED
        BY <3>1 DEF RefExact
    <2> QED
      BY <1>7, <2>1, <2>2, <2>3
  <1>8. CASE UNCHANGED vars
    BY <1>8 DEF vars, ioVars, sleepVars, cacheVars, useVars, RefExact
  <1> QED
    BY <1>1, <1>2, <1>3, <1>4, <1>5, <1>6, <1>7, <1>8, NextCases

\* no buffer of a logged block is recycled
LEMMA PinStep ==
    ASSUME Types, CallInv, OneBuffer, RefExact, PinInv, [Next]_vars
    PROVE  PinInv'
  <1> USE SlotFacts DEF Types, PinInv
  <1>1. ASSUME NEW r \in avail, Finish(r), Still PROVE PinInv'
    <2>1. UNCHANGED <<blockno, valid, logged>>
      BY <1>1 DEF Still, cacheVars, useVars, Finish, sleepVars, driverVars
    <2> QED
      BY <2>1
  <1>2. ASSUME virtio_disk_intr, Still PROVE PinInv'
    <2>1. CASE IntrAck
      <3>1. UNCHANGED <<blockno, valid, logged>>
        BY <1>2, <2>1 DEF Still, cacheVars, useVars, IntrAck, sleepVars,
               driverVars
      <3> QED
        BY <3>1
    <2>2. CASE IntrBuf
      <3>1. UNCHANGED <<blockno, valid, logged>>
        BY <1>2, <2>2 DEF Still, cacheVars, useVars, IntrBuf, IntrEntry,
               wakeupAll
      <3> QED
        BY <3>1
    <2>3. CASE IntrDone
      <3>1. UNCHANGED <<blockno, valid, logged>>
        BY <1>2, <2>3 DEF Still, cacheVars, useVars, IntrDone, sleepVars,
               driverVars, deviceVars
      <3> QED
        BY <3>1
    <2> QED
      BY <1>2, <2>1, <2>2, <2>3 DEF virtio_disk_intr
  <1>3. ASSUME NEW p \in Procs, NEW o \in Uses3, NEW k \in Blocks, NEW b \in Bufs,
              Hit(p, o, k, b) \/ Miss(p, o, k, b)
       PROVE  PinInv'
    <2>1. CASE Hit(p, o, k, b)
      <3>1. UNCHANGED <<blockno, valid, logged>>
        BY <2>1 DEF Hit, Enter, Goto, sleepVars
      <3> QED
        BY <3>1
    <2>2. CASE Miss(p, o, k, b)
      <3>1. blockno[b] \notin logged
        BY <2>2, UnusedRef DEF Miss
      <3> QED
        BY <2>2, <3>1 DEF Miss, Recycle, Enter
    <2> QED
      BY <1>3, <2>1, <2>2
  <1>4. ASSUME NEW p \in Procs, Submit(p) \/ DescWait(p) \/ IoSleep(p) \/ IoAgain(p), Still
       PROVE  PinInv'
    <2>1. CASE Submit(p)
      <3>1. UNCHANGED <<blockno, valid, logged>>
        BY <1>4, <2>1 DEF Still, cacheVars, useVars, Submit, Goto, Returned,
               sleep_prepare, deviceVars
      <3> QED
        BY <3>1
    <2>2. CASE DescWait(p)
      <3>1. UNCHANGED <<blockno, valid, logged>>
        BY <1>4, <2>2 DEF Still, cacheVars, useVars, DescWait, Goto, Returned,
               driverVars, deviceVars
      <3> QED
        BY <3>1
    <2>3. CASE IoSleep(p)
      <3>1. UNCHANGED <<blockno, valid, logged>>
        BY <1>4, <2>3 DEF Still, cacheVars, useVars, IoSleep, Goto, sleep,
               driverVars, deviceVars
      <3> QED
        BY <3>1
    <2>4. CASE IoAgain(p)
      <3>1. UNCHANGED <<blockno, valid, logged>>
        BY <1>4, <2>4 DEF Still, cacheVars, useVars, IoAgain, Goto, Returned,
               sleep_prepare, driverVars, deviceVars
      <3> QED
        BY <3>1
    <2> QED
      BY <1>4, <2>1, <2>2, <2>3, <2>4
  <1>5. ASSUME NEW p \in Procs, bread(p) \/ BreadDone(p) \/ BwriteDone(p)
       PROVE  PinInv'
    <2>1. CASE bread(p)
      <3>1. UNCHANGED <<blockno, valid, logged>>
        BY <2>1 DEF bread, Goto, sleepVars, useVars
      <3> QED
        BY <3>1
    <2>2. CASE BreadDone(p)
      BY <2>2 DEF BreadDone, IoDone, FreeChain, useVars
    <2>3. CASE BwriteDone(p)
      <3>1. UNCHANGED <<blockno, valid, logged>>
        BY <2>3 DEF BwriteDone, IoDone, Goto, FreeChain, Returned, wakeupAll,
               deviceVars, cacheVars, useVars
      <3> QED
        BY <3>1
    <2> QED
      BY <1>5, <2>1, <2>2, <2>3
  <1>6. ASSUME NEW p \in Procs, log_write(p) \/ bwrite(p) \/ bunpin(p)
       PROVE  PinInv'
    <2>1. CASE log_write(p)
      <3>1. buf[p] \in Bufs /\ valid[buf[p]]
        BY <2>1, BufFacts DEF log_write, Goto, CallInv, Holds, Transfers
      <3> QED
        BY <2>1, <3>1 DEF log_write
    <2>2. CASE bwrite(p)
      <3>1. UNCHANGED <<blockno, valid, logged>>
        BY <2>2 DEF bwrite, Goto, sleepVars, driverVars, cacheVars, useVars
      <3> QED
        BY <3>1
    <2>3. CASE bunpin(p)
      BY <2>3 DEF bunpin
    <2> QED
      BY <1>6, <2>1, <2>2, <2>3
  <1>7. ASSUME NEW p \in Procs, brelse(p) \/ Unref(p) \/ Kill(p) PROVE PinInv'
    <2>1. CASE brelse(p)
      <3>1. UNCHANGED <<blockno, valid, logged>>
        BY <2>1 DEF brelse, Goto, sleepVars, driverVars, useVars
      <3> QED
        BY <3>1
    <2>2. CASE Unref(p)
      <3>1. UNCHANGED <<blockno, valid, logged>>
        BY <2>2 DEF Unref, Goto, sleepVars, driverVars
      <3> QED
        BY <3>1
    <2>3. CASE Kill(p)
      <3>1. UNCHANGED <<blockno, valid, logged>>
        BY <2>3 DEF Kill, kkill, driverVars, cacheVars, useVars
      <3> QED
        BY <3>1
    <2> QED
      BY <1>7, <2>1, <2>2, <2>3
  <1>8. CASE UNCHANGED vars
    BY <1>8 DEF vars, ioVars, sleepVars, cacheVars, useVars
  <1> QED
    BY <1>1, <1>2, <1>3, <1>4, <1>5, <1>6, <1>7, <1>8, NextCases

\* what a step that starts or ends no call leaves of the log's install step
InstallSame ==
    /\ UNCHANGED <<op, buf, blockno, logged>>
    /\ \A q \in Procs : /\ pc'[q] = "idle" <=> pc[q] = "idle"
                        /\ pc[q] \in {"drop", "rel"} => pc'[q] \in {"drop", "rel"}

\* no other writer starts while the log installs a block
LEMMA InstallStep ==
    ASSUME Types, CallInv, RefExact, InstallInv, [Next]_vars
    PROVE  InstallInv'
  <1> USE SlotFacts DEF Types, InstallInv, Uses3
  <1>1. ASSUME NEW r \in avail, Finish(r), Still PROVE InstallInv'
    <2>1. InstallSame
      BY <1>1 DEF Still, cacheVars, useVars, Finish, sleepVars, driverVars,
             InstallSame
    <2> QED
      BY <2>1 DEF InstallSame
  <1>2. ASSUME virtio_disk_intr, Still PROVE InstallInv'
    <2>1. CASE IntrAck
      <3>1. InstallSame
        BY <1>2, <2>1 DEF Still, cacheVars, useVars, IntrAck, sleepVars,
               driverVars, InstallSame
      <3> QED
        BY <3>1 DEF InstallSame
    <2>2. CASE IntrBuf
      <3>1. InstallSame
        BY <1>2, <2>2 DEF Still, cacheVars, useVars, IntrBuf, IntrEntry,
               wakeupAll, InstallSame
      <3> QED
        BY <3>1 DEF InstallSame
    <2>3. CASE IntrDone
      <3>1. InstallSame
        BY <1>2, <2>3 DEF Still, cacheVars, useVars, IntrDone, sleepVars,
               driverVars, deviceVars, InstallSame
      <3> QED
        BY <3>1 DEF InstallSame
    <2> QED
      BY <1>2, <2>1, <2>2, <2>3 DEF virtio_disk_intr
  <1>3. ASSUME NEW p \in Procs, NEW o \in Uses3, NEW k \in Blocks, NEW b \in Bufs,
              Hit(p, o, k, b) \/ Miss(p, o, k, b)
       PROVE  InstallInv'
    <2>1. CASE Hit(p, o, k, b)
      <3>1. /\ buf' = [buf EXCEPT ![p] = b] /\ pc' = [pc EXCEPT ![p] = "lock"]
            /\ op' = [op EXCEPT ![p] = o] /\ blockno[b] = k /\ pc[p] = "idle"
            /\ UNCHANGED <<blockno, logged>>
        BY <2>1 DEF Hit, Enter, Goto
      <3>2. /\ o # "read" => \A q \in Procs : pc[q] = "idle" \/ op[q] # "install"
            /\ o = "install" => \A q \in Procs : pc[q] = "idle" \/ op[q] = "read"
            /\ o = "install" => k \in logged
        BY <2>1 DEF Hit, Uses, Running
      <3>3. ASSUME NEW q \in Procs, op'[q] = "install", pc'[q] # "idle"
            PROVE  pc'[q] \notin {"drop", "rel"} => blockno'[buf'[q]] \in logged'
        BY <3>1, <3>2, <3>3
      <3>4. ASSUME NEW q \in Procs, op'[q] = "install", pc'[q] # "idle",
                   NEW q2 \in Procs, pc'[q2] # "idle", op'[q2] # "read"
            PROVE  q2 = q
        BY <3>1, <3>2, <3>4
      <3> QED
        BY <3>3, <3>4
    <2>2. CASE Miss(p, o, k, b)
      <3>1. /\ buf' = [buf EXCEPT ![p] = b] /\ pc' = [pc EXCEPT ![p] = "lock"]
            /\ op' = [op EXCEPT ![p] = o] /\ pc[p] = "idle" /\ UNCHANGED logged
            /\ blockno' = [blockno EXCEPT ![b] = k] /\ \A q \in Procs : buf[q] # b
        BY <2>2, UnusedRef DEF Miss, Recycle, Enter, Goto
      <3>2. /\ o # "read" => \A q \in Procs : pc[q] = "idle" \/ op[q] # "install"
            /\ o = "install" => \A q \in Procs : pc[q] = "idle" \/ op[q] = "read"
            /\ o = "install" => k \in logged
        BY <2>2 DEF Miss, Uses, Running
      <3>3. ASSUME NEW q \in Procs, op'[q] = "install", pc'[q] # "idle"
            PROVE  pc'[q] \notin {"drop", "rel"} => blockno'[buf'[q]] \in logged'
        BY <3>1, <3>2, <3>3, BufFacts
      <3>4. ASSUME NEW q \in Procs, op'[q] = "install", pc'[q] # "idle",
                   NEW q2 \in Procs, pc'[q2] # "idle", op'[q2] # "read"
            PROVE  q2 = q
        BY <3>1, <3>2, <3>4
      <3> QED
        BY <3>3, <3>4
    <2> QED
      BY <1>3, <2>1, <2>2
  <1>4. ASSUME NEW p \in Procs, Submit(p) \/ DescWait(p) \/ IoSleep(p) \/ IoAgain(p), Still
       PROVE  InstallInv'
    <2>1. CASE Submit(p)
      <3>1. InstallSame
        BY <1>4, <2>1 DEF Still, cacheVars, useVars, Submit, Goto, Returned,
               sleep_prepare, deviceVars, InstallSame
      <3> QED
        BY <3>1 DEF InstallSame
    <2>2. CASE DescWait(p)
      <3>1. InstallSame
        BY <1>4, <2>2 DEF Still, cacheVars, useVars, DescWait, Goto, Returned,
               driverVars, deviceVars, InstallSame
      <3> QED
        BY <3>1 DEF InstallSame
    <2>3. CASE IoSleep(p)
      <3>1. InstallSame
        BY <1>4, <2>3 DEF Still, cacheVars, useVars, IoSleep, Goto, sleep,
               driverVars, deviceVars, InstallSame
      <3> QED
        BY <3>1 DEF InstallSame
    <2>4. CASE IoAgain(p)
      <3>1. InstallSame
        BY <1>4, <2>4 DEF Still, cacheVars, useVars, IoAgain, Goto, Returned,
               sleep_prepare, driverVars, deviceVars, InstallSame
      <3> QED
        BY <3>1 DEF InstallSame
    <2> QED
      BY <1>4, <2>1, <2>2, <2>3, <2>4
  <1>5. ASSUME NEW p \in Procs, bread(p) \/ BreadDone(p) \/ BwriteDone(p)
       PROVE  InstallInv'
    <2>1. CASE bread(p)
      <3>1. InstallSame
        BY <2>1 DEF bread, Goto, sleepVars, useVars, InstallSame
      <3> QED
        BY <3>1 DEF InstallSame
    <2>2. CASE BreadDone(p)
      <3>1. InstallSame
        BY <2>2 DEF BreadDone, IoDone, Goto, FreeChain, Returned, wakeupAll,
               deviceVars, useVars, InstallSame
      <3> QED
        BY <3>1 DEF InstallSame
    <2>3. CASE BwriteDone(p)
      <3>1. InstallSame
        BY <2>3 DEF BwriteDone, IoDone, Goto, FreeChain, Returned, wakeupAll,
               deviceVars, cacheVars, useVars, InstallSame
      <3> QED
        BY <3>1 DEF InstallSame
    <2> QED
      BY <1>5, <2>1, <2>2, <2>3
  <1>6. ASSUME NEW p \in Procs, log_write(p) \/ bwrite(p) \/ bunpin(p)
       PROVE  InstallInv'
    <2>1. CASE log_write(p)
      BY <2>1 DEF log_write, Goto
    <2>2. CASE bwrite(p)
      <3>1. InstallSame
        BY <2>2 DEF bwrite, Goto, sleepVars, driverVars, cacheVars, useVars,
               InstallSame
      <3> QED
        BY <3>1 DEF InstallSame
    <2>3. CASE bunpin(p)
      BY <2>3 DEF bunpin, Goto, CallInv
    <2> QED
      BY <1>6, <2>1, <2>2, <2>3
  <1>7. ASSUME NEW p \in Procs, brelse(p) \/ Unref(p) \/ Kill(p)
       PROVE  InstallInv'
    <2>1. CASE brelse(p)
      <3>1. InstallSame
        BY <2>1 DEF brelse, Goto, sleepVars, driverVars, useVars, InstallSame
      <3> QED
        BY <3>1 DEF InstallSame
    <2>2. CASE Unref(p)
      BY <2>2 DEF Unref, Goto
    <2>3. CASE Kill(p)
      <3>1. InstallSame
        BY <2>3 DEF Kill, kkill, driverVars, cacheVars, useVars, InstallSame
      <3> QED
        BY <3>1 DEF InstallSame
    <2> QED
      BY <1>7, <2>1, <2>2, <2>3
  <1>8. CASE UNCHANGED vars
    BY <1>8 DEF vars, ioVars, sleepVars, cacheVars, useVars, InstallSame,
           InstallSame
  <1> QED
    BY <1>1, <1>2, <1>3, <1>4, <1>5, <1>6, <1>7, <1>8, NextCases

\* what open calls may still log fits into the log with what is there
LEMMA RoomStep ==
    ASSUME Types, CallInv, RefExact, RoomInv, [Next]_vars
    PROVE  RoomInv'
  <1> USE SlotFacts DEF Types, Uses3
  <1>1. ASSUME NEW r \in avail, Finish(r), Still PROVE RoomInv'
    <2>1. (logged \cup Changing)' \subseteq logged \cup Changing
      BY <1>1 DEF Still, cacheVars, useVars, Finish, sleepVars, driverVars,
             Changing, Running
    <2> QED
      BY <2>1, RoomLess
  <1>2. ASSUME virtio_disk_intr, Still PROVE RoomInv'
    <2>1. CASE IntrAck
      <3>1. (logged \cup Changing)' \subseteq logged \cup Changing
        BY <1>2, <2>1 DEF Still, cacheVars, useVars, IntrAck, sleepVars,
               driverVars, Changing, Running
      <3> QED
        BY <3>1, RoomLess
    <2>2. CASE IntrBuf
      <3>1. (logged \cup Changing)' \subseteq logged \cup Changing
        BY <1>2, <2>2 DEF Still, cacheVars, useVars, IntrBuf, IntrEntry,
               wakeupAll, Changing, Running
      <3> QED
        BY <3>1, RoomLess
    <2>3. CASE IntrDone
      <3>1. (logged \cup Changing)' \subseteq logged \cup Changing
        BY <1>2, <2>3 DEF Still, cacheVars, useVars, IntrDone, sleepVars,
               driverVars, deviceVars, Changing, Running
      <3> QED
        BY <3>1, RoomLess
    <2> QED
      BY <1>2, <2>1, <2>2, <2>3 DEF virtio_disk_intr
  <1>3. ASSUME NEW p \in Procs, NEW o \in Uses3, NEW k \in Blocks, NEW b \in Bufs,
              Hit(p, o, k, b) \/ Miss(p, o, k, b)
       PROVE  RoomInv'
    <2>1. CASE Hit(p, o, k, b)
      <3>1. /\ buf' = [buf EXCEPT ![p] = b] /\ pc' = [pc EXCEPT ![p] = "lock"]
            /\ op' = [op EXCEPT ![p] = o] /\ blockno[b] = k /\ pc[p] = "idle"
            /\ UNCHANGED <<blockno, logged>> /\ Uses(p, o, k)
        BY <2>1 DEF Hit, Enter, Goto
      <3>2. (logged \cup Changing)' \subseteq logged \cup Changing
               \cup (IF o = "write" THEN {k} ELSE {})
        BY <3>1 DEF Changing, Running
      <3> QED
        BY <3>1, <3>2, RoomMore
    <2>2. CASE Miss(p, o, k, b)
      <3>1. /\ buf' = [buf EXCEPT ![p] = b] /\ pc' = [pc EXCEPT ![p] = "lock"]
            /\ op' = [op EXCEPT ![p] = o] /\ pc[p] = "idle"
            /\ blockno' = [blockno EXCEPT ![b] = k] /\ \A q \in Procs : buf[q] # b
            /\ UNCHANGED logged /\ Uses(p, o, k)
        BY <2>2, UnusedRef DEF Miss, Recycle, Enter, Goto
      <3>2. (logged \cup Changing)' \subseteq logged \cup Changing
               \cup (IF o = "write" THEN {k} ELSE {})
        BY <3>1, BufFacts DEF Changing, Running
      <3> QED
        BY <3>1, <3>2, RoomMore
    <2> QED
      BY <1>3, <2>1, <2>2
  <1>4. ASSUME NEW p \in Procs, Submit(p) \/ DescWait(p) \/ IoSleep(p) \/ IoAgain(p), Still
       PROVE  RoomInv'
    <2>1. CASE Submit(p)
      <3>1. (logged \cup Changing)' \subseteq logged \cup Changing
        BY <1>4, <2>1 DEF Still, cacheVars, useVars, Submit, Goto, Returned,
               sleep_prepare, deviceVars, Changing, Running
      <3> QED
        BY <3>1, RoomLess
    <2>2. CASE DescWait(p)
      <3>1. (logged \cup Changing)' \subseteq logged \cup Changing
        BY <1>4, <2>2 DEF Still, cacheVars, useVars, DescWait, Goto, Returned,
               driverVars, deviceVars, Changing, Running
      <3> QED
        BY <3>1, RoomLess
    <2>3. CASE IoSleep(p)
      <3>1. (logged \cup Changing)' \subseteq logged \cup Changing
        BY <1>4, <2>3 DEF Still, cacheVars, useVars, IoSleep, Goto, sleep,
               driverVars, deviceVars, Changing, Running
      <3> QED
        BY <3>1, RoomLess
    <2>4. CASE IoAgain(p)
      <3>1. (logged \cup Changing)' \subseteq logged \cup Changing
        BY <1>4, <2>4 DEF Still, cacheVars, useVars, IoAgain, Goto, Returned,
               sleep_prepare, driverVars, deviceVars, Changing, Running
      <3> QED
        BY <3>1, RoomLess
    <2> QED
      BY <1>4, <2>1, <2>2, <2>3, <2>4
  <1>5. ASSUME NEW p \in Procs, bread(p) \/ BreadDone(p) \/ BwriteDone(p)
       PROVE  RoomInv'
    <2>1. CASE bread(p)
      <3>1. (logged \cup Changing)' \subseteq logged \cup Changing
        BY <2>1 DEF bread, Goto, sleepVars, useVars, Changing, Running
      <3> QED
        BY <3>1, RoomLess
    <2>2. CASE BreadDone(p)
      <3>1. (logged \cup Changing)' \subseteq logged \cup Changing
        BY <2>2 DEF BreadDone, IoDone, Goto, FreeChain, Returned, wakeupAll,
               deviceVars, useVars, Changing, Running
      <3> QED
        BY <3>1, RoomLess
    <2>3. CASE BwriteDone(p)
      <3>1. (logged \cup Changing)' \subseteq logged \cup Changing
        BY <2>3 DEF BwriteDone, IoDone, Goto, FreeChain, Returned, wakeupAll,
               deviceVars, cacheVars, useVars, Changing, Running
      <3> QED
        BY <3>1, RoomLess
    <2> QED
      BY <1>5, <2>1, <2>2, <2>3
  <1>6. ASSUME NEW p \in Procs, log_write(p) \/ bwrite(p) \/ bunpin(p)
       PROVE  RoomInv'
    <2>1. CASE log_write(p)
      <3>1. /\ logged' = logged \cup {blockno[buf[p]]} /\ UNCHANGED <<buf, blockno, op>>
            /\ p \in Running("write") /\ pc' = [pc EXCEPT ![p] = "drop"]
        BY <2>1 DEF log_write, Goto, Running
      <3>2. Running("write")' = Running("write")
        BY <3>1 DEF Running
      <3>3. (logged \cup Changing)' \subseteq logged \cup Changing
        BY <3>1, <3>2 DEF Changing
      <3> QED
        BY <3>3, RoomLess
    <2>2. CASE bwrite(p)
      <3>1. (logged \cup Changing)' \subseteq logged \cup Changing
        BY <2>2 DEF bwrite, Goto, sleepVars, driverVars, cacheVars, useVars,
               Changing, Running
      <3> QED
        BY <3>1, RoomLess
    <2>3. CASE bunpin(p)
      <3>1. (logged \cup Changing)' \subseteq logged \cup Changing
        BY <2>3 DEF bunpin, Goto, sleepVars, driverVars, Changing, Running
      <3> QED
        BY <3>1, RoomLess
    <2> QED
      BY <1>6, <2>1, <2>2, <2>3
  <1>7. ASSUME NEW p \in Procs, brelse(p) \/ Unref(p) \/ Kill(p) PROVE RoomInv'
    <2>1. CASE brelse(p)
      <3>1. (logged \cup Changing)' \subseteq logged \cup Changing
        BY <2>1 DEF brelse, Goto, sleepVars, driverVars, useVars, Changing,
               Running
      <3> QED
        BY <3>1, RoomLess
    <2>2. CASE Unref(p)
      <3>1. (logged \cup Changing)' \subseteq logged \cup Changing
        BY <2>2 DEF Unref, Goto, sleepVars, driverVars, Changing, Running
      <3> QED
        BY <3>1, RoomLess
    <2>3. CASE Kill(p)
      <3>1. (logged \cup Changing)' \subseteq logged \cup Changing
        BY <2>3 DEF Kill, kkill, driverVars, cacheVars, useVars, Changing,
               Running
      <3> QED
        BY <3>1, RoomLess
    <2> QED
      BY <1>7, <2>1, <2>2, <2>3
  <1>8. CASE UNCHANGED vars
    BY <1>8, RoomLess DEF vars, ioVars, sleepVars, cacheVars, useVars,
           Changing, Running
  <1> QED
    BY <1>1, <1>2, <1>3, <1>4, <1>5, <1>6, <1>7, <1>8, NextCases

\* free_chain() gives back the descriptors of one request
LEMMA DescEnds ==
    ASSUME Types, DescInv, NEW p \in Procs, Ends(p)
    PROVE  DescInv'
  <1> USE DEF Types
  <1>1. /\ idx' = [idx EXCEPT ![p] = {}] /\ info' = [info EXCEPT ![First(idx[p])] = 0]
        /\ free' = free \cup idx[p] /\ UNCHANGED buf /\ Waits(p) /\ ~Waits(p)'
        /\ \A q \in Procs \ {p} : Waits(q)' <=> Waits(q)
    BY DEF Ends, Waits
  <1>2. First(idx[p]) \in idx[p] /\ First(idx[p]) \in Descs
    BY <1>1, DescOf
  <1>3. ASSUME NEW q \in Procs, q # p
        PROVE  /\ idx'[q] = idx[q] /\ idx[q] \cap free' = {}
               /\ Waits(q) => info'[First(idx[q])] = info[First(idx[q])]
    <2>1. Waits(q) => First(idx[q]) \in idx[q]
      BY DescOf
    <2> QED
      BY <1>1, <1>2, <1>3, <2>1 DEF DescInv
  <1>4. ASSUME NEW q \in Procs
        PROVE  /\ Waits(q)' => /\ idx'[q] # {} /\ info'[First(idx'[q])] = buf'[q]
               /\ ~Waits(q)' => idx'[q] = {}
               /\ idx'[q] \cap free' = {}
    BY <1>1, <1>3 DEF DescInv
  <1>5. ASSUME NEW q \in Procs, NEW q2 \in Procs, q # q2
        PROVE  idx'[q] \cap idx'[q2] = {}
    BY <1>1, <1>5 DEF DescInv
  <1> QED
    BY <1>4, <1>5 DEF DescInv

\* descriptors pass from the free list to one request, and back
LEMMA DescStep ==
    ASSUME Types, CallInv, DescInv, [Next]_vars
    PROVE  DescInv'
  <1> USE SlotFacts DEF Types
  <1>1. ASSUME NEW r \in avail, Finish(r), Still PROVE DescInv'
    <2>1. DriverSame
      BY <1>1 DEF Still, cacheVars, useVars, Finish, sleepVars, driverVars,
             DriverSame, Waits
    <2> QED
      BY <2>1 DEF DriverSame, DescInv
  <1>2. ASSUME virtio_disk_intr, Still PROVE DescInv'
    <2>1. CASE IntrAck
      <3>1. DriverSame
        BY <1>2, <2>1 DEF Still, cacheVars, useVars, IntrAck, sleepVars,
               driverVars, DriverSame, Waits
      <3> QED
        BY <3>1 DEF DriverSame, DescInv
    <2>2. CASE IntrBuf
      <3>1. DriverSame
        BY <1>2, <2>2 DEF Still, cacheVars, useVars, IntrBuf, IntrEntry,
               wakeupAll, DriverSame, Waits
      <3> QED
        BY <3>1 DEF DriverSame, DescInv
    <2>3. CASE IntrDone
      <3>1. DriverSame
        BY <1>2, <2>3 DEF Still, cacheVars, useVars, IntrDone, sleepVars,
               driverVars, deviceVars, DriverSame, Waits
      <3> QED
        BY <3>1 DEF DriverSame, DescInv
    <2> QED
      BY <1>2, <2>1, <2>2, <2>3 DEF virtio_disk_intr
  <1>3. ASSUME NEW p \in Procs, NEW o \in Uses3, NEW k \in Blocks, NEW b \in Bufs,
              Hit(p, o, k, b) \/ Miss(p, o, k, b)
       PROVE  DescInv'
    <2>1. CASE Hit(p, o, k, b)
      <3>1. DriverSame
        BY <2>1 DEF Hit, Enter, Goto, sleepVars, DriverSame, Waits
      <3> QED
        BY <3>1 DEF DriverSame, DescInv
    <2>2. CASE Miss(p, o, k, b)
      <3>1. DriverSame
        BY <2>2 DEF Miss, Recycle, Enter, Goto, sleepVars, DriverSame, Waits
      <3> QED
        BY <3>1 DEF DriverSame, DescInv
    <2> QED
      BY <1>3, <2>1, <2>2
  <1>4. ASSUME NEW p \in Procs, Submit(p) \/ DescWait(p) \/ IoSleep(p) \/ IoAgain(p), Still
       PROVE  DescInv'
    <2>1. CASE Submit(p)
      <3>1. PICK S \in SUBSET free : S = alloc3_desc /\ S # {} /\ First(S) \in S
        BY <1>4, <2>1, SubmitFacts
      <3>2. /\ idx' = [idx EXCEPT ![p] = S] /\ info' = [info EXCEPT ![First(S)] = buf[p]]
            /\ free' = free \ S /\ pc' = [pc EXCEPT ![p] = "iosleep"] /\ pc[p] = "rw"
            /\ UNCHANGED buf
        BY <1>4, <2>1, <3>1 DEF Submit, Goto
      <3>3. ASSUME NEW q \in Procs, q # p
            PROVE  /\ Waits(q)' <=> Waits(q)
                   /\ idx'[q] = idx[q] /\ idx[q] \cap S = {}
                   /\ Waits(q) => info'[First(idx[q])] = info[First(idx[q])]
        <4>1. idx[q] \cap S = {}
          BY DEF DescInv
        <4>2. Waits(q) => First(idx[q]) \in idx[q] /\ First(idx[q]) \in Descs
          BY DescOf
        <4> QED
          BY <3>1, <3>2, <3>3, <4>1, <4>2 DEF Waits
      <3>4. /\ Waits(p)' /\ idx'[p] = S /\ info'[First(idx'[p])] = buf'[p]
            /\ S \cap free' = {} /\ \A q \in Procs : idx[q] \cap free' = {}
        BY <3>1, <3>2 DEF Waits, DescInv
      <3>5. \A q \in Procs \ {p} : /\ Waits(q) => idx[q] # {} /\ info[First(idx[q])] = buf[q]
                                   /\ ~Waits(q) => idx[q] = {}
        BY DEF DescInv
      <3>6. ASSUME NEW q \in Procs
            PROVE  /\ Waits(q)' => /\ idx'[q] # {} /\ info'[First(idx'[q])] = buf'[q]
                   /\ ~Waits(q)' => idx'[q] = {}
                   /\ idx'[q] \cap free' = {}
        BY <3>1, <3>2, <3>3, <3>4, <3>5
      <3>7. ASSUME NEW q \in Procs, NEW q2 \in Procs, q # q2
            PROVE  idx'[q] \cap idx'[q2] = {}
        BY <3>1, <3>2, <3>3, <3>7 DEF DescInv
      <3> QED
        BY <3>6, <3>7 DEF DescInv
    <2>2. CASE DescWait(p)
      <3>1. DriverSame
        BY <1>4, <2>2 DEF Still, cacheVars, useVars, DescWait, Goto, Returned,
               driverVars, deviceVars, DriverSame, Waits
      <3> QED
        BY <3>1 DEF DriverSame, DescInv
    <2>3. CASE IoSleep(p)
      <3>1. DriverSame
        BY <1>4, <2>3 DEF Still, cacheVars, useVars, IoSleep, Goto, sleep,
               driverVars, deviceVars, DriverSame, Waits
      <3> QED
        BY <3>1 DEF DriverSame, DescInv
    <2>4. CASE IoAgain(p)
      <3>1. DriverSame
        BY <1>4, <2>4 DEF Still, cacheVars, useVars, IoAgain, Goto, Returned,
               sleep_prepare, driverVars, deviceVars, DriverSame, Waits
      <3> QED
        BY <3>1 DEF DriverSame, DescInv
    <2> QED
      BY <1>4, <2>1, <2>2, <2>3, <2>4
  <1>5. ASSUME NEW p \in Procs, bread(p) \/ BreadDone(p) \/ BwriteDone(p)
       PROVE  DescInv'
    <2>1. CASE bread(p)
      <3>1. DriverSame
        BY <2>1 DEF bread, Goto, sleepVars, useVars, DriverSame, Waits
      <3> QED
        BY <3>1 DEF DriverSame, DescInv
    <2>2. CASE BreadDone(p)
      <3>1. Ends(p)
        BY <2>2, EndsFacts
      <3> QED
        BY <3>1, DescEnds
    <2>3. CASE BwriteDone(p)
      <3>1. Ends(p)
        BY <2>3, EndsFacts
      <3> QED
        BY <3>1, DescEnds
    <2> QED
      BY <1>5, <2>1, <2>2, <2>3
  <1>6. ASSUME NEW p \in Procs, log_write(p) \/ bwrite(p) \/ bunpin(p)
       PROVE  DescInv'
    <2>1. CASE log_write(p)
      <3>1. DriverSame
        BY <2>1 DEF log_write, Goto, sleepVars, driverVars, DriverSame, Waits
      <3> QED
        BY <3>1 DEF DriverSame, DescInv
    <2>2. CASE bwrite(p)
      <3>1. DriverSame
        BY <2>2 DEF bwrite, Goto, sleepVars, driverVars, cacheVars, useVars,
               DriverSame, Waits
      <3> QED
        BY <3>1 DEF DriverSame, DescInv
    <2>3. CASE bunpin(p)
      <3>1. DriverSame
        BY <2>3 DEF bunpin, Goto, sleepVars, driverVars, DriverSame, Waits
      <3> QED
        BY <3>1 DEF DriverSame, DescInv
    <2> QED
      BY <1>6, <2>1, <2>2, <2>3
  <1>7. ASSUME NEW p \in Procs, brelse(p) \/ Unref(p) \/ Kill(p) PROVE DescInv'
    <2>1. CASE brelse(p)
      <3>1. DriverSame
        BY <2>1 DEF brelse, Goto, sleepVars, driverVars, useVars, DriverSame,
               Waits
      <3> QED
        BY <3>1 DEF DriverSame, DescInv
    <2>2. CASE Unref(p)
      <3>1. DriverSame
        BY <2>2 DEF Unref, Goto, sleepVars, driverVars, DriverSame, Waits
      <3> QED
        BY <3>1 DEF DriverSame, DescInv
    <2>3. CASE Kill(p)
      <3>1. DriverSame
        BY <2>3 DEF Kill, kkill, driverVars, cacheVars, useVars, DriverSame,
               Waits
      <3> QED
        BY <3>1 DEF DriverSame, DescInv
    <2> QED
      BY <1>7, <2>1, <2>2, <2>3
  <1>8. CASE UNCHANGED vars
    BY <1>8 DEF vars, ioVars, sleepVars, cacheVars, useVars, DriverSame,
           DescInv, DriverSame, Waits
  <1> QED
    BY <1>1, <1>2, <1>3, <1>4, <1>5, <1>6, <1>7, <1>8, NextCases

\* an answer is announced until a handler has seen it
LEMMA IrqStep ==
    ASSUME Types, IrqInv, [Next]_vars
    PROVE  IrqInv'
  <1> USE SlotFacts DEF Types, IrqInv
  <1>1. ASSUME NEW r \in avail, Finish(r), Still PROVE IrqInv'
    BY <1>1 DEF Still, cacheVars, useVars, Finish, sleepVars, driverVars
  <1>2. ASSUME virtio_disk_intr, Still PROVE IrqInv'
    <2>1. CASE IntrAck
      BY <1>2, <2>1 DEF Still, cacheVars, useVars, IntrAck, sleepVars,
             driverVars
    <2>2. CASE IntrBuf
      BY <1>2, <2>2 DEF Still, cacheVars, useVars, IntrBuf, IntrEntry,
             wakeupAll
    <2>3. CASE IntrDone
      BY <1>2, <2>3 DEF Still, cacheVars, useVars, IntrDone, sleepVars,
             driverVars, deviceVars
    <2> QED
      BY <1>2, <2>1, <2>2, <2>3 DEF virtio_disk_intr
  <1>3. ASSUME NEW p \in Procs, NEW o \in Uses3, NEW k \in Blocks, NEW b \in Bufs,
              Hit(p, o, k, b) \/ Miss(p, o, k, b)
       PROVE  IrqInv'
    <2>1. CASE Hit(p, o, k, b)
      <3>1. UNCHANGED <<used, isr, vdisk_lock>>
        BY <2>1 DEF Hit, Enter, Goto, sleepVars
      <3> QED
        BY <3>1
    <2>2. CASE Miss(p, o, k, b)
      <3>1. UNCHANGED <<used, isr, vdisk_lock>>
        BY <2>2 DEF Miss, Recycle, Enter, Goto, sleepVars
      <3> QED
        BY <3>1
    <2> QED
      BY <1>3, <2>1, <2>2
  <1>4. ASSUME NEW p \in Procs, Submit(p) \/ DescWait(p) \/ IoSleep(p) \/ IoAgain(p), Still
       PROVE  IrqInv'
    <2>1. CASE Submit(p)
      <3>1. UNCHANGED <<used, isr, vdisk_lock>>
        BY <1>4, <2>1 DEF Still, cacheVars, useVars, Submit, Goto, Returned,
               sleep_prepare, deviceVars
      <3> QED
        BY <3>1
    <2>2. CASE DescWait(p)
      <3>1. UNCHANGED <<used, isr, vdisk_lock>>
        BY <1>4, <2>2 DEF Still, cacheVars, useVars, DescWait, Goto, Returned,
               driverVars, deviceVars
      <3> QED
        BY <3>1
    <2>3. CASE IoSleep(p)
      <3>1. UNCHANGED <<used, isr, vdisk_lock>>
        BY <1>4, <2>3 DEF Still, cacheVars, useVars, IoSleep, Goto, sleep,
               driverVars, deviceVars
      <3> QED
        BY <3>1
    <2>4. CASE IoAgain(p)
      <3>1. UNCHANGED <<used, isr, vdisk_lock>>
        BY <1>4, <2>4 DEF Still, cacheVars, useVars, IoAgain, Goto, Returned,
               sleep_prepare, driverVars, deviceVars
      <3> QED
        BY <3>1
    <2> QED
      BY <1>4, <2>1, <2>2, <2>3, <2>4
  <1>5. ASSUME NEW p \in Procs, bread(p) \/ BreadDone(p) \/ BwriteDone(p)
       PROVE  IrqInv'
    <2>1. CASE bread(p)
      <3>1. UNCHANGED <<used, isr, vdisk_lock>>
        BY <2>1 DEF bread, Goto, sleepVars, useVars
      <3> QED
        BY <3>1
    <2>2. CASE BreadDone(p)
      <3>1. UNCHANGED <<used, isr, vdisk_lock>>
        BY <2>2 DEF BreadDone, IoDone, Goto, FreeChain, Returned, wakeupAll,
               deviceVars, useVars
      <3> QED
        BY <3>1
    <2>3. CASE BwriteDone(p)
      <3>1. UNCHANGED <<used, isr, vdisk_lock>>
        BY <2>3 DEF BwriteDone, IoDone, Goto, FreeChain, Returned, wakeupAll,
               deviceVars, cacheVars, useVars
      <3> QED
        BY <3>1
    <2> QED
      BY <1>5, <2>1, <2>2, <2>3
  <1>6. ASSUME NEW p \in Procs, log_write(p) \/ bwrite(p) \/ bunpin(p)
       PROVE  IrqInv'
    <2>1. CASE log_write(p)
      <3>1. UNCHANGED <<used, isr, vdisk_lock>>
        BY <2>1 DEF log_write, Goto, sleepVars, driverVars
      <3> QED
        BY <3>1
    <2>2. CASE bwrite(p)
      <3>1. UNCHANGED <<used, isr, vdisk_lock>>
        BY <2>2 DEF bwrite, Goto, sleepVars, driverVars, cacheVars, useVars
      <3> QED
        BY <3>1
    <2>3. CASE bunpin(p)
      <3>1. UNCHANGED <<used, isr, vdisk_lock>>
        BY <2>3 DEF bunpin, Goto, sleepVars, driverVars
      <3> QED
        BY <3>1
    <2> QED
      BY <1>6, <2>1, <2>2, <2>3
  <1>7. ASSUME NEW p \in Procs, brelse(p) \/ Unref(p) \/ Kill(p) PROVE IrqInv'
    <2>1. CASE brelse(p)
      <3>1. UNCHANGED <<used, isr, vdisk_lock>>
        BY <2>1 DEF brelse, Goto, sleepVars, driverVars, useVars
      <3> QED
        BY <3>1
    <2>2. CASE Unref(p)
      <3>1. UNCHANGED <<used, isr, vdisk_lock>>
        BY <2>2 DEF Unref, Goto, sleepVars, driverVars
      <3> QED
        BY <3>1
    <2>3. CASE Kill(p)
      <3>1. UNCHANGED <<used, isr, vdisk_lock>>
        BY <2>3 DEF Kill, kkill, driverVars, cacheVars, useVars
      <3> QED
        BY <3>1
    <2> QED
      BY <1>7, <2>1, <2>2, <2>3
  <1>8. CASE UNCHANGED vars
    BY <1>8 DEF vars, ioVars, sleepVars, cacheVars, useVars
  <1> QED
    BY <1>1, <1>2, <1>3, <1>4, <1>5, <1>6, <1>7, <1>8, NextCases

LEMMA ReqEnds ==
    ASSUME Types, ReqInv, NEW p \in Procs, Ends(p)
    PROVE  ReqInv'
  <1>1. ASSUME NEW q \in Procs, NEW id, Sender(q, id)
        PROVE  Sender(q, id)'
    <2>1. q # p
      BY <1>1 DEF Sender, Ends
    <2> QED
      BY <1>1, <2>1 DEF Sender, Ends, Types, Waits
  <1>2. UNCHANGED <<avail, used, buf, writing, blockno>>
    BY DEF Ends
  <1>3. ASSUME NEW r \in avail
        PROVE  \E q \in Procs :
                  /\ Sender(q, r.id)'
                  /\ r = [id |-> r.id, b |-> buf'[q], blk |-> blockno'[buf'[q]],
                          write |-> writing'[q]]
    BY <1>1, <1>2 DEF ReqInv
  <1>4. \A i \in 1..Len(used) : \E q \in Procs : Sender(q, used[i])'
    BY <1>1, <1>2 DEF ReqInv
  <1> QED
    BY <1>2, <1>3, <1>4 DEF ReqInv

\* a request is with the device or in the used ring, once, and its sender waits
LEMMA ReqStep ==
    ASSUME Types, CallInv, RefExact, DescInv, ReqInv, [Next]_vars
    PROVE  ReqInv'
  <1> USE SlotFacts DEF Types
  <1>1. ASSUME NEW r \in avail, Finish(r), Still PROVE ReqInv'
    <2>1. PICK p \in Procs : /\ Sender(p, r.id)
                             /\ r = [id |-> r.id, b |-> buf[p], blk |-> blockno[buf[p]],
                                     write |-> writing[p]]
      BY DEF ReqInv
    <2>2. /\ avail' = avail \ {r} /\ used' = Append(used, r.id)
          /\ UNCHANGED <<idx, busy, pc, buf, blockno, writing>>
      BY <1>1 DEF Finish, driverVars
    <2>3. /\ Len(used') = Len(used) + 1 /\ Len(used) \in Nat
          /\ \A i \in 1..Len(used) : used'[i] = used[i]
          /\ used'[Len(used) + 1] = r.id
      BY <2>2
    <2>4. ASSUME NEW q \in Procs, NEW id, Sender(q, id) PROVE Sender(q, id)'
      BY <2>2, <2>4 DEF Sender, Waits
    <2>5. ASSUME NEW r2 \in avail' PROVE r2.id # r.id
      <3>1. PICK q \in Procs : /\ Sender(q, r2.id)
                               /\ r2 = [id |-> r2.id, b |-> buf[q],
                                        blk |-> blockno[buf[q]], write |-> writing[q]]
        BY <2>2 DEF ReqInv
      <3>2. r2.id = r.id => q = p
        BY <2>1, <3>1, OneSender DEF Sender
      <3> QED
        BY <2>1, <2>2, <3>1, <3>2
    <2>6. ASSUME NEW r2 \in avail'
          PROVE  \E q \in Procs :
                    /\ Sender(q, r2.id)'
                    /\ r2 = [id |-> r2.id, b |-> buf'[q], blk |-> blockno'[buf'[q]],
                             write |-> writing'[q]]
      BY <2>2, <2>4 DEF ReqInv
    <2>7. \A i \in 1..Len(used') : i \in 1..Len(used) \/ i = Len(used) + 1
      <3>1. \A n \in Nat : \A i \in 1..(n + 1) : i \in 1..n \/ i = n + 1
        OBVIOUS
      <3> QED
        BY <2>3, <3>1
    <2>8. \A i \in 1..Len(used') : \E q \in Procs : Sender(q, used[i])'
      BY <2>1, <2>3, <2>4, <2>7 DEF ReqInv
    <2>9. \A r2 \in avail', i \in 1..Len(used') : used'[i] # r2.id
      BY <2>2, <2>3, <2>5, <2>7 DEF ReqInv
    <2>10. \A i, j \in 1..Len(used') : used'[i] = used'[j] => i = j
      BY <2>3, <2>7 DEF ReqInv
    <2> QED
      BY <2>6, <2>8, <2>9, <2>10 DEF ReqInv
  <1>2. ASSUME virtio_disk_intr, Still PROVE ReqInv'
    <2>1. CASE IntrAck
      <3>1. ReqSame
        BY <1>2, <2>1 DEF Still, cacheVars, useVars, IntrAck, sleepVars,
               driverVars, ReqSame, Waits
      <3> QED
        BY <3>1, ReqKept
    <2>2. CASE IntrBuf
      <3>1. used' = Tail(used) /\ used # <<>>
        BY <1>2, <2>2 DEF IntrBuf, IntrEntry
      <3>2. PICK q \in Procs : /\ Sender(q, used[1]) /\ buf[q] = info[Head(used)]
        BY <3>1, HeadSender
      <3>3. /\ busy' = [busy EXCEPT ![buf[q]] = FALSE]
            /\ UNCHANGED <<avail, idx, pc, buf, blockno, writing>>
        BY <1>2, <2>2, <3>2 DEF IntrBuf, IntrEntry
      <3>4. /\ Len(used') = Len(used) - 1 /\ Len(used) \in Nat
            /\ \A i \in 1..Len(used') : used'[i] = used[i + 1] /\ i + 1 \in 1..Len(used)
            /\ 1 \in 1..Len(used)
        BY <3>1
      <3>5. ASSUME NEW p \in Procs, NEW id, Sender(p, id), id # used[1]
            PROVE  Sender(p, id)'
        <4>1. p # q
          BY <3>2, <3>5 DEF Sender
        <4>2. buf[p] # buf[q]
          BY <3>2, <3>5, <4>1, OneHolder DEF Sender, Holds
        <4> QED
          BY <3>3, <3>5, <4>2 DEF Sender, Waits
      <3>6. \A r \in avail : r.id # used[1]
        BY <3>4 DEF ReqInv
      <3>7. ASSUME NEW r \in avail
            PROVE  \E p \in Procs :
                      /\ Sender(p, r.id)'
                      /\ r = [id |-> r.id, b |-> buf'[p], blk |-> blockno'[buf'[p]],
                              write |-> writing'[p]]
        BY <3>3, <3>5, <3>6 DEF ReqInv
      <3>8. \A i \in 1..Len(used') : used'[i] # used[1]
        BY <3>4 DEF ReqInv
      <3>9. \A i \in 1..Len(used') : \E p \in Procs : Sender(p, used[i])'
        BY <3>4, <3>5, <3>8 DEF ReqInv
      <3>10. \A r \in avail, i \in 1..Len(used') : used'[i] # r.id
        BY <3>4 DEF ReqInv
      <3>11. \A i, j \in 1..Len(used') : used'[i] = used'[j] => i = j
        BY <3>4 DEF ReqInv
      <3> QED
        BY <3>3, <3>7, <3>9, <3>10, <3>11 DEF ReqInv
    <2>3. CASE IntrDone
      <3>1. ReqSame
        BY <1>2, <2>3 DEF Still, cacheVars, useVars, IntrDone, sleepVars,
               driverVars, deviceVars, ReqSame, Waits
      <3> QED
        BY <3>1, ReqKept
    <2> QED
      BY <1>2, <2>1, <2>2, <2>3 DEF virtio_disk_intr
  <1>3. ASSUME NEW p \in Procs, NEW o \in Uses3, NEW k \in Blocks, NEW b \in Bufs,
              Hit(p, o, k, b) \/ Miss(p, o, k, b)
       PROVE  ReqInv'
    <2>1. CASE Hit(p, o, k, b)
      <3>1. ReqSame
        BY <2>1 DEF Hit, Enter, Goto, sleepVars, ReqSame, Waits
      <3> QED
        BY <3>1, ReqKept
    <2>2. CASE Miss(p, o, k, b)
      <3>1. \A q \in Procs : buf[q] # b
        BY <2>2, UnusedRef DEF Miss
      <3>2. \A q \in Procs : Waits(q) => buf[q] \in Bufs
        BY BufFacts DEF Waits
      <3>3. ReqSame
        BY <2>2, <3>1, <3>2 DEF Miss, Recycle, Enter, Goto, ReqSame, Waits, driverVars
      <3> QED
        BY <3>3, ReqKept
    <2> QED
      BY <1>3, <2>1, <2>2
  <1>4. ASSUME NEW p \in Procs, Submit(p) \/ DescWait(p) \/ IoSleep(p) \/ IoAgain(p), Still
       PROVE  ReqInv'
    <2>1. CASE Submit(p)
      <3>1. PICK S \in SUBSET free : S = alloc3_desc /\ First(S) \in S /\ buf[p] \in Bufs
        BY <1>4, <2>1, SubmitFacts
      <3> DEFINE new == [id |-> First(S), b |-> buf[p], blk |-> blockno[buf[p]],
                         write |-> writing[p]]
      <3>2. /\ idx' = [idx EXCEPT ![p] = S] /\ busy' = [busy EXCEPT ![buf[p]] = TRUE]
            /\ pc' = [pc EXCEPT ![p] = "iosleep"] /\ pc[p] = "rw"
            /\ avail' = avail \cup {new}
            /\ UNCHANGED <<buf, blockno, writing, used>>
        BY <1>4, <2>1, <3>1 DEF Submit, Goto, deviceVars
      <3>3. ASSUME NEW q \in Procs, NEW id, Sender(q, id)
            PROVE  Sender(q, id)' /\ id # First(S)
        <4>1. q # p
          BY <3>2, <3>3 DEF Sender, Waits
        <4>2. id \in idx[q]
          BY <3>3, DescOf DEF Sender
        <4> QED
          BY <3>1, <3>2, <3>3, <4>1, <4>2 DEF Sender, Waits, DescInv
      <3>4. Sender(p, new.id)'
        BY <3>1, <3>2 DEF Sender, Waits
      <3>5. ASSUME NEW r \in avail'
            PROVE  \E q \in Procs :
                      /\ Sender(q, r.id)'
                      /\ r = [id |-> r.id, b |-> buf'[q], blk |-> blockno'[buf'[q]],
                              write |-> writing'[q]]
        <4>1. CASE r = new
          BY <3>2, <3>4, <4>1
        <4>2. CASE r \in avail
          BY <3>2, <3>3, <4>2 DEF ReqInv
        <4> QED
          BY <3>2, <4>1, <4>2
      <3>6. \A i \in 1..Len(used) : used[i] # First(S) /\ \E q \in Procs : Sender(q, used[i])'
        BY <3>2, <3>3 DEF ReqInv
      <3>7. \A r \in avail' : r = new \/ r \in avail
        BY <3>2
      <3>8. \A r \in avail', i \in 1..Len(used) : used[i] # r.id
        BY <3>6, <3>7 DEF ReqInv
      <3> QED
        BY <3>2, <3>5, <3>6, <3>8 DEF ReqInv
    <2>2. CASE DescWait(p)
      <3>1. ReqSame
        BY <1>4, <2>2 DEF Still, cacheVars, useVars, DescWait, Goto, Returned,
               driverVars, deviceVars, ReqSame, Waits
      <3> QED
        BY <3>1, ReqKept
    <2>3. CASE IoSleep(p)
      <3>1. ReqSame
        BY <1>4, <2>3 DEF Still, cacheVars, useVars, IoSleep, Goto, sleep,
               driverVars, deviceVars, ReqSame, Waits
      <3> QED
        BY <3>1, ReqKept
    <2>4. CASE IoAgain(p)
      <3>1. ReqSame
        BY <1>4, <2>4 DEF Still, cacheVars, useVars, IoAgain, Goto, Returned,
               sleep_prepare, driverVars, deviceVars, ReqSame, Waits
      <3> QED
        BY <3>1, ReqKept
    <2> QED
      BY <1>4, <2>1, <2>2, <2>3, <2>4
  <1>5. ASSUME NEW p \in Procs, bread(p) \/ BreadDone(p) \/ BwriteDone(p)
       PROVE  ReqInv'
    <2>1. CASE bread(p)
      <3>1. ReqSame
        BY <2>1 DEF bread, Goto, sleepVars, useVars, ReqSame, Waits
      <3> QED
        BY <3>1, ReqKept
    <2>2. CASE BreadDone(p)
      <3>1. Ends(p)
        BY <2>2, EndsFacts
      <3> QED
        BY <3>1, ReqEnds
    <2>3. CASE BwriteDone(p)
      <3>1. Ends(p)
        BY <2>3, EndsFacts
      <3> QED
        BY <3>1, ReqEnds
    <2> QED
      BY <1>5, <2>1, <2>2, <2>3
  <1>6. ASSUME NEW p \in Procs, log_write(p) \/ bwrite(p) \/ bunpin(p)
       PROVE  ReqInv'
    <2>1. CASE log_write(p)
      <3>1. ReqSame
        BY <2>1 DEF log_write, Goto, sleepVars, driverVars, ReqSame, Waits
      <3> QED
        BY <3>1, ReqKept
    <2>2. CASE bwrite(p)
      <3>1. ReqSame
        BY <2>2 DEF bwrite, Goto, sleepVars, driverVars, cacheVars, useVars,
               ReqSame, Waits
      <3> QED
        BY <3>1, ReqKept
    <2>3. CASE bunpin(p)
      <3>1. ReqSame
        BY <2>3 DEF bunpin, Goto, sleepVars, driverVars, ReqSame, Waits
      <3> QED
        BY <3>1, ReqKept
    <2> QED
      BY <1>6, <2>1, <2>2, <2>3
  <1>7. ASSUME NEW p \in Procs, brelse(p) \/ Unref(p) \/ Kill(p) PROVE ReqInv'
    <2>1. CASE brelse(p)
      <3>1. ReqSame
        BY <2>1 DEF brelse, Goto, sleepVars, driverVars, useVars, ReqSame,
               Waits
      <3> QED
        BY <3>1, ReqKept
    <2>2. CASE Unref(p)
      <3>1. ReqSame
        BY <2>2 DEF Unref, Goto, sleepVars, driverVars, ReqSame, Waits
      <3> QED
        BY <3>1, ReqKept
    <2>3. CASE Kill(p)
      <3>1. ReqSame
        BY <2>3 DEF Kill, kkill, driverVars, cacheVars, useVars, ReqSame, Waits
      <3> QED
        BY <3>1, ReqKept
    <2> QED
      BY <1>7, <2>1, <2>2, <2>3
  <1>8. CASE UNCHANGED vars
    BY <1>8, ReqKept DEF vars, ioVars, sleepVars, cacheVars, useVars, ReqSame,
           Waits
  <1> QED
    BY <1>1, <1>2, <1>3, <1>4, <1>5, <1>6, <1>7, <1>8, NextCases

LEMMA BusyKept ==
    ASSUME BusyInv, ReqSame
    PROVE  BusyInv'
  BY DEF BusyInv, ReqSame, Asked, Answered

LEMMA BusyEnds ==
    ASSUME Types, BusyInv, NEW p \in Procs, Ends(p)
    PROVE  BusyInv'
  <1>1. ASSUME NEW q \in Procs, Waits(q), q # p
        PROVE  /\ Waits(q)' /\ buf'[q] = buf[q]
               /\ Asked(q)' <=> Asked(q)
               /\ Answered(q)' <=> Answered(q)
    BY <1>1 DEF Ends, Waits, Types, Asked, Answered
  <1>2. ASSUME NEW b \in Bufs, busy[b]
        PROVE  \E q \in Procs : Waits(q) /\ buf[q] = b /\ (Asked(q) \/ Answered(q)) /\ q # p
    BY <1>2 DEF BusyInv, Ends
  <1>3. UNCHANGED busy
    BY DEF Ends
  <1> QED
    BY <1>1, <1>2, <1>3 DEF BusyInv

\* a buffer is busy only while its request is somewhere
LEMMA BusyStep ==
    ASSUME Types, CallInv, RefExact, DescInv, ReqInv, BusyInv, [Next]_vars
    PROVE  BusyInv'
  <1> USE SlotFacts DEF Types
  <1>1. ASSUME NEW r \in avail, Finish(r), Still PROVE BusyInv'
    <2>1. /\ avail' = avail \ {r} /\ used' = Append(used, r.id)
          /\ UNCHANGED <<idx, busy, pc, buf>>
      BY <1>1 DEF Finish, driverVars
    <2>2. /\ Len(used') = Len(used) + 1 /\ Len(used) \in Nat
          /\ \A i \in 1..Len(used) : used'[i] = used[i] /\ i \in 1..Len(used')
          /\ used'[Len(used) + 1] = r.id /\ Len(used) + 1 \in 1..Len(used')
      BY <2>1
    <2>3. ASSUME NEW q \in Procs, Answered(q) PROVE Answered(q)'
      BY <2>1, <2>2, <2>3 DEF Answered
    <2>4. ASSUME NEW q \in Procs, Asked(q) PROVE Asked(q)' \/ Answered(q)'
      <3>1. PICK r2 \in avail : r2.id = First(idx[q])
        BY <2>4 DEF Asked
      <3>2. CASE r2 = r
        BY <2>1, <2>2, <3>1, <3>2 DEF Answered
      <3>3. CASE r2 # r
        BY <2>1, <3>1, <3>3 DEF Asked
      <3> QED
        BY <3>2, <3>3
    <2> QED
      BY <2>1, <2>3, <2>4 DEF BusyInv, Waits
  <1>2. ASSUME virtio_disk_intr, Still PROVE BusyInv'
    <2>1. CASE IntrAck
      <3>1. ReqSame
        BY <1>2, <2>1 DEF Still, cacheVars, useVars, IntrAck, sleepVars,
               driverVars, ReqSame, Waits
      <3> QED
        BY <3>1, BusyKept
    <2>2. CASE IntrBuf
      <3>1. used' = Tail(used) /\ used # <<>>
        BY <1>2, <2>2 DEF IntrBuf, IntrEntry
      <3>2. PICK q \in Procs : /\ Sender(q, used[1]) /\ buf[q] = info[Head(used)]
        BY <3>1, HeadSender
      <3>3. /\ busy' = [busy EXCEPT ![buf[q]] = FALSE]
            /\ UNCHANGED <<avail, idx, pc, buf>>
        BY <1>2, <2>2, <3>2 DEF IntrBuf, IntrEntry
      <3>4. /\ Len(used') = Len(used) - 1 /\ Len(used) \in Nat
            /\ \A i \in 1..Len(used) : i = 1 \/ i - 1 \in 1..Len(used')
            /\ \A i \in 1..Len(used') : used'[i] = used[i + 1]
        BY <3>1
      <3>5. ASSUME NEW p \in Procs, Waits(p), First(idx[p]) # used[1], Answered(p)
            PROVE  Answered(p)'
        <4>1. PICK i \in 1..Len(used) : used[i] = First(idx[p])
          BY <3>5 DEF Answered
        <4>2. i - 1 \in 1..Len(used') /\ used'[i - 1] = First(idx[p])
          BY <3>4, <3>5, <4>1
        <4> QED
          BY <3>3, <4>2 DEF Answered
      <3>6. ASSUME NEW b \in Bufs, busy'[b]
            PROVE  /\ busy[b]
                   /\ \A p \in Procs : Waits(p) /\ buf[p] = b => First(idx[p]) # used[1]
        <4>1. b # buf[q] /\ busy[b]
          BY <3>2, <3>3, <3>6 DEF Sender
        <4>2. \A p \in Procs : Waits(p) /\ First(idx[p]) = used[1] => p = q
          BY <3>2, OneSender DEF Sender
        <4> QED
          BY <4>1, <4>2
      <3>7. \A p \in Procs : /\ Waits(p)' <=> Waits(p)
                             /\ Asked(p)' <=> Asked(p)
        BY <3>3 DEF Waits, Asked
      <3> QED
        BY <3>3, <3>5, <3>6, <3>7 DEF BusyInv
    <2>3. CASE IntrDone
      <3>1. ReqSame
        BY <1>2, <2>3 DEF Still, cacheVars, useVars, IntrDone, sleepVars,
               driverVars, deviceVars, ReqSame, Waits
      <3> QED
        BY <3>1, BusyKept
    <2> QED
      BY <1>2, <2>1, <2>2, <2>3 DEF virtio_disk_intr
  <1>3. ASSUME NEW p \in Procs, NEW o \in Uses3, NEW k \in Blocks, NEW b \in Bufs,
              Hit(p, o, k, b) \/ Miss(p, o, k, b)
       PROVE  BusyInv'
    <2>1. CASE Hit(p, o, k, b)
      <3>1. ReqSame
        BY <2>1 DEF Hit, Enter, Goto, sleepVars, ReqSame, Waits
      <3> QED
        BY <3>1, BusyKept
    <2>2. CASE Miss(p, o, k, b)
      <3>1. \A q \in Procs : buf[q] # b
        BY <2>2, UnusedRef DEF Miss
      <3>2. \A q \in Procs : Waits(q) => buf[q] \in Bufs
        BY BufFacts DEF Waits
      <3>3. ReqSame
        BY <2>2, <3>1, <3>2 DEF Miss, Recycle, Enter, Goto, ReqSame, Waits, driverVars
      <3> QED
        BY <3>3, BusyKept
    <2> QED
      BY <1>3, <2>1, <2>2
  <1>4. ASSUME NEW p \in Procs, Submit(p) \/ DescWait(p) \/ IoSleep(p) \/ IoAgain(p), Still
       PROVE  BusyInv'
    <2>1. CASE Submit(p)
      <3>1. PICK S \in SUBSET free : S = alloc3_desc /\ First(S) \in S /\ buf[p] \in Bufs
        BY <1>4, <2>1, SubmitFacts
      <3> DEFINE new == [id |-> First(S), b |-> buf[p], blk |-> blockno[buf[p]],
                         write |-> writing[p]]
      <3>2. /\ idx' = [idx EXCEPT ![p] = S] /\ busy' = [busy EXCEPT ![buf[p]] = TRUE]
            /\ pc' = [pc EXCEPT ![p] = "iosleep"] /\ pc[p] = "rw"
            /\ avail' = avail \cup {new}
            /\ UNCHANGED <<buf, used>>
        BY <1>4, <2>1, <3>1 DEF Submit, Goto, deviceVars
      <3>3. ASSUME NEW q \in Procs, Waits(q)
            PROVE  /\ Waits(q)' /\ buf'[q] = buf[q]
                   /\ Asked(q) => Asked(q)'
                   /\ Answered(q) => Answered(q)'
        BY <3>2, <3>3 DEF Waits, Asked, Answered
      <3>4. Waits(p)' /\ Asked(p)'
        <4>1. new \in avail' /\ new.id = First(S) /\ idx'[p] = S
          BY <3>2
        <4>2. Asked(p)'
          BY <4>1 DEF Asked
        <4> QED
          BY <3>2, <4>2 DEF Waits
      <3>5. ASSUME NEW b \in Bufs, busy'[b], b # buf[p]
            PROVE  \E q \in Procs : Waits(q) /\ buf[q] = b /\ (Asked(q) \/ Answered(q))
        BY <3>1, <3>2, <3>5 DEF BusyInv
      <3> QED
        BY <3>1, <3>2, <3>3, <3>4, <3>5 DEF BusyInv
    <2>2. CASE DescWait(p)
      <3>1. ReqSame
        BY <1>4, <2>2 DEF Still, cacheVars, useVars, DescWait, Goto, Returned,
               driverVars, deviceVars, ReqSame, Waits
      <3> QED
        BY <3>1, BusyKept
    <2>3. CASE IoSleep(p)
      <3>1. ReqSame
        BY <1>4, <2>3 DEF Still, cacheVars, useVars, IoSleep, Goto, sleep,
               driverVars, deviceVars, ReqSame, Waits
      <3> QED
        BY <3>1, BusyKept
    <2>4. CASE IoAgain(p)
      <3>1. ReqSame
        BY <1>4, <2>4 DEF Still, cacheVars, useVars, IoAgain, Goto, Returned,
               sleep_prepare, driverVars, deviceVars, ReqSame, Waits
      <3> QED
        BY <3>1, BusyKept
    <2> QED
      BY <1>4, <2>1, <2>2, <2>3, <2>4
  <1>5. ASSUME NEW p \in Procs, bread(p) \/ BreadDone(p) \/ BwriteDone(p)
       PROVE  BusyInv'
    <2>1. CASE bread(p)
      <3>1. ReqSame
        BY <2>1 DEF bread, Goto, sleepVars, useVars, ReqSame, Waits
      <3> QED
        BY <3>1, BusyKept
    <2>2. CASE BreadDone(p)
      <3>1. Ends(p)
        BY <2>2, EndsFacts
      <3> QED
        BY <3>1, BusyEnds
    <2>3. CASE BwriteDone(p)
      <3>1. Ends(p)
        BY <2>3, EndsFacts
      <3> QED
        BY <3>1, BusyEnds
    <2> QED
      BY <1>5, <2>1, <2>2, <2>3
  <1>6. ASSUME NEW p \in Procs, log_write(p) \/ bwrite(p) \/ bunpin(p)
       PROVE  BusyInv'
    <2>1. CASE log_write(p)
      <3>1. ReqSame
        BY <2>1 DEF log_write, Goto, sleepVars, driverVars, ReqSame, Waits
      <3> QED
        BY <3>1, BusyKept
    <2>2. CASE bwrite(p)
      <3>1. ReqSame
        BY <2>2 DEF bwrite, Goto, sleepVars, driverVars, cacheVars, useVars,
               ReqSame, Waits
      <3> QED
        BY <3>1, BusyKept
    <2>3. CASE bunpin(p)
      <3>1. ReqSame
        BY <2>3 DEF bunpin, Goto, sleepVars, driverVars, ReqSame, Waits
      <3> QED
        BY <3>1, BusyKept
    <2> QED
      BY <1>6, <2>1, <2>2, <2>3
  <1>7. ASSUME NEW p \in Procs, brelse(p) \/ Unref(p) \/ Kill(p) PROVE BusyInv'
    <2>1. CASE brelse(p)
      <3>1. ReqSame
        BY <2>1 DEF brelse, Goto, sleepVars, driverVars, useVars, ReqSame,
               Waits
      <3> QED
        BY <3>1, BusyKept
    <2>2. CASE Unref(p)
      <3>1. ReqSame
        BY <2>2 DEF Unref, Goto, sleepVars, driverVars, ReqSame, Waits
      <3> QED
        BY <3>1, BusyKept
    <2>3. CASE Kill(p)
      <3>1. ReqSame
        BY <2>3 DEF Kill, kkill, driverVars, cacheVars, useVars, ReqSame, Waits
      <3> QED
        BY <3>1, BusyKept
    <2> QED
      BY <1>7, <2>1, <2>2, <2>3
  <1>8. CASE UNCHANGED vars
    BY <1>8, BusyKept DEF vars, ioVars, sleepVars, cacheVars, useVars, ReqSame,
           Waits
  <1> QED
    BY <1>1, <1>2, <1>3, <1>4, <1>5, <1>6, <1>7, <1>8, NextCases

\* the contents are as they should be wherever nothing they depend on has changed
DataSame ==
    /\ UNCHANGED <<data, disk, latest, avail>>
    /\ \A b \in Bufs : valid'[b] /\ blockno'[b] \in Blocks =>
           (valid[b] \/ data[b] = latest[blockno[b]]) /\ blockno'[b] = blockno[b]
    /\ logged \subseteq logged'
    /\ \A q \in Procs : Waits(q)' =>
           /\ Waits(q) /\ buf'[q] = buf[q] /\ idx'[q] = idx[q]
           /\ blockno'[buf[q]] = blockno[buf[q]]
    /\ \A q \in Procs : pc'[q] = "written" =>
           /\ pc[q] = "written" /\ buf'[q] = buf[q]
           /\ blockno'[buf[q]] = blockno[buf[q]]

LEMMA DataKept ==
    ASSUME DataInv, DataSame
    PROVE  DataInv'
  <1>1. \A q \in Procs : Waits(q)' => /\ Waits(q) /\ buf'[q] = buf[q]
                                      /\ Asked(q)' <=> Asked(q)
                                      /\ blockno'[buf[q]] = blockno[buf[q]]
    BY DEF DataSame, Asked
  <1>2. UNCHANGED <<data, disk, latest>>
    BY DEF DataSame
  <1>3. ASSUME NEW b \in Bufs, valid'[b], blockno'[b] \in Blocks
        PROVE  data'[b] = latest'[blockno'[b]]
    BY <1>2, <1>3 DEF DataInv, DataSame
  <1>4. ASSUME NEW k \in Blocks, k \notin logged'
        PROVE  disk'[k] = latest'[k]
    BY <1>2, <1>4 DEF DataInv, DataSame
  <1>5. ASSUME NEW q \in Procs, Waits(q)', ~Asked(q)'
        PROVE  /\ data'[buf'[q]] = latest'[blockno'[buf'[q]]]
               /\ disk'[blockno'[buf'[q]]] = latest'[blockno'[buf'[q]]]
    BY <1>1, <1>2, <1>5 DEF DataInv
  <1>6. ASSUME NEW q \in Procs, pc'[q] = "written"
        PROVE  disk'[blockno'[buf'[q]]] = latest'[blockno'[buf'[q]]]
    BY <1>2, <1>6 DEF DataInv, DataSame
  <1> QED
    BY <1>3, <1>4, <1>5, <1>6 DEF DataInv

\* what a finished request has done
LEMMA DoneData ==
    ASSUME Types, CallInv, DescInv, ReqInv, DataInv, NEW p \in Procs, pc[p] = "io",
           ~busy[buf[p]]
    PROVE  /\ buf[p] \in Bufs /\ data[buf[p]] = latest[blockno[buf[p]]]
           /\ disk[blockno[buf[p]]] = latest[blockno[buf[p]]]
  <1>1. Waits(p) /\ buf[p] \in Bufs
    BY BufFacts DEF Waits
  <1>2. ~Asked(p)
    BY <1>1, OpenRequest
  <1> QED
    BY <1>1, <1>2 DEF DataInv

LEMMA UnaskedData ==
    ASSUME DataInv, NEW p \in Procs, Waits(p), ~Asked(p)
    PROVE  /\ data[buf[p]] = latest[blockno[buf[p]]]
           /\ disk[blockno[buf[p]]] = latest[blockno[buf[p]]]
  BY DEF DataInv

\* a block has one buffer
LEMMA OneOf ==
    ASSUME OneBuffer, NEW b \in Bufs, NEW c \in Bufs, blockno[b] = blockno[c],
           blockno[b] \in Blocks
    PROVE  b = c
  BY SlotFacts DEF OneBuffer

\* a finished request leaves the last contents of its block on the disk and in

\* the buffer, and nothing else
LEMMA FinishData ==
    ASSUME Types, CallInv, DescInv, DataInv,
           NEW p \in Procs, NEW r \in avail, Sender(p, r.id),
           NEW b \in Bufs, b = buf[p], NEW k \in Blocks, k = blockno[b],
           UNCHANGED <<blockno, valid, latest, logged, pc, buf, idx>>,
           avail' = avail \ {r}, disk'[k] = latest[k], data'[b] = latest[k],
           \A c \in Bufs \ {b} : data'[c] = data[c],
           \A j \in Blocks \ {k} : disk'[j] = disk[j]
    PROVE  DataInv'
  <1>1. ASSUME NEW c \in Bufs, valid'[c], blockno'[c] \in Blocks
        PROVE  data'[c] = latest'[blockno'[c]]
    <2>1. CASE c = b
      BY <2>1
    <2>2. CASE c # b
      BY <1>1, <2>2 DEF DataInv
    <2> QED
      BY <2>1, <2>2
  <1>2. ASSUME NEW j \in Blocks, j \notin logged'
        PROVE  disk'[j] = latest'[j]
    BY <1>2 DEF DataInv
  <1>3. ASSUME NEW q \in Procs, Waits(q)', ~Asked(q)'
        PROVE  /\ data'[buf'[q]] = latest'[blockno'[buf'[q]]]
               /\ disk'[blockno'[buf'[q]]] = latest'[blockno'[buf'[q]]]
    <2>1. CASE q = p
      BY <2>1
    <2>2. CASE q # p
      <3>1. Waits(q) /\ Waits(p)
        BY <1>3 DEF Waits, Sender
      <3>2. First(idx[q]) # r.id
        BY <2>2, <3>1, OneSender DEF Sender
      <3>3. ~Asked(q)
        BY <1>3, <3>2 DEF Asked
      <3>4. buf[q] \in Bufs /\ buf[q] # b /\ blockno[buf[q]] \in Blocks
        BY <2>2, <3>1, BufFacts, OneHolder DEF Waits, Holds
      <3>5. /\ data[buf[q]] = latest[blockno[buf[q]]]
            /\ disk[blockno[buf[q]]] = latest[blockno[buf[q]]]
        BY <3>1, <3>3, UnaskedData
      <3>6. data'[buf[q]] = latest[blockno[buf[q]]]
        BY <3>4, <3>5
      <3>7. disk'[blockno[buf[q]]] = latest[blockno[buf[q]]]
        BY <3>4, <3>5
      <3> QED
        BY <3>6, <3>7
    <2> QED
      BY <2>1, <2>2
  <1>4. ASSUME NEW q \in Procs, pc'[q] = "written"
        PROVE  disk'[blockno'[buf'[q]]] = latest'[blockno'[buf'[q]]]
    <2>1. blockno[buf[q]] \in Blocks /\ disk[blockno[buf[q]]] = latest[blockno[buf[q]]]
      BY <1>4, BufFacts DEF DataInv
    <2> QED
      BY <2>1
  <1> QED
    BY <1>1, <1>2, <1>3, <1>4 DEF DataInv

\* nothing but a logged change makes the disk old, and only the disk of a logged block
LEMMA DataStep ==
    ASSUME Types, CallInv, OneBuffer, RefExact, PinInv, InstallInv, DescInv,
           ReqInv, DataInv, [Next]_vars
    PROVE  DataInv'
  <1> USE SlotFacts DEF Types
  <1>1. ASSUME NEW r \in avail, Finish(r), Still PROVE DataInv'
    <2>1. PICK p \in Procs : /\ Sender(p, r.id)
                             /\ r = [id |-> r.id, b |-> buf[p], blk |-> blockno[buf[p]],
                                     write |-> writing[p]]
      BY DEF ReqInv
    <2>2. PICK b \in Bufs : b = buf[p] /\ r.b = b /\ Waits(p) /\ Holds(p)
      BY <2>1, BufFacts DEF Sender, Waits, Holds
    <2>3. PICK k \in Blocks : k = blockno[b] /\ r.blk = k
      BY <2>1, <2>2, BufFacts DEF Waits
    <2>4. UNCHANGED <<blockno, valid, latest, logged, pc, buf, idx>>
      BY <1>1 DEF Finish, Still, cacheVars, useVars, driverVars
    <2>5. avail' = avail \ {r}
      BY <1>1 DEF Finish
    <2>6. CASE writing[p] = TRUE
      <3>1. r.write = TRUE /\ valid[b]
        <4>1. r.write = writing[p]
          BY <2>1
        <4>2. valid[buf[p]] <=> ~Transfers(p) \/ writing[p]
          BY <2>2 DEF CallInv
        <4> QED
          BY <2>2, <2>6, <4>1, <4>2
      <3>2. data[b] = latest[k]
        BY <2>3, <3>1 DEF DataInv
      <3>3. UNCHANGED data /\ disk' = [disk EXCEPT ![k] = latest[k]]
        BY <1>1, <2>2, <2>3, <3>1, <3>2 DEF Finish
      <3> QED
        BY <3>2, <3>3, FinishData, <2>1, <2>2, <2>3, <2>4, <2>5
    <2>7. CASE writing[p] = FALSE
      <3>1. r.write = FALSE /\ ~valid[b]
        BY <2>1, <2>2, <2>7 DEF CallInv, Transfers, Waits
      <3>2. k \notin logged
        <4>1. SUFFICES ASSUME k \in logged PROVE FALSE
          OBVIOUS
        <4>2. PICK c \in Bufs : blockno[c] = k /\ valid[c]
          BY <4>1 DEF PinInv
        <4>3. c = b
          BY <2>3, <4>2, OneOf
        <4> QED
          BY <3>1, <4>2, <4>3
      <3>3. disk[k] = latest[k]
        BY <3>2 DEF DataInv
      <3>4. UNCHANGED disk /\ data' = [data EXCEPT ![b] = latest[k]]
        BY <1>1, <2>2, <2>3, <3>1, <3>3 DEF Finish
      <3> QED
        BY <3>3, <3>4, FinishData, <2>1, <2>2, <2>3, <2>4, <2>5
    <2> QED
      BY <2>6, <2>7 DEF Types
  <1>2. ASSUME virtio_disk_intr, Still PROVE DataInv'
    <2>1. CASE IntrAck
      <3>1. DataSame
        BY <1>2, <2>1 DEF Still, cacheVars, useVars, IntrAck, sleepVars,
               driverVars, DataSame, Waits
      <3> QED
        BY <3>1, DataKept
    <2>2. CASE IntrBuf
      <3>1. DataSame
        BY <1>2, <2>2 DEF Still, cacheVars, useVars, IntrBuf, IntrEntry,
               wakeupAll, DataSame, Waits
      <3> QED
        BY <3>1, DataKept
    <2>3. CASE IntrDone
      <3>1. DataSame
        BY <1>2, <2>3 DEF Still, cacheVars, useVars, IntrDone, sleepVars,
               driverVars, deviceVars, DataSame, Waits
      <3> QED
        BY <3>1, DataKept
    <2> QED
      BY <1>2, <2>1, <2>2, <2>3 DEF virtio_disk_intr
  <1>3. ASSUME NEW p \in Procs, NEW o \in Uses3, NEW k \in Blocks, NEW b \in Bufs,
              Hit(p, o, k, b) \/ Miss(p, o, k, b)
       PROVE  DataInv'
    <2>1. CASE Hit(p, o, k, b)
      <3>1. DataSame
        BY <2>1 DEF Hit, Enter, Goto, sleepVars, DataSame, Waits
      <3> QED
        BY <3>1, DataKept
    <2>2. CASE Miss(p, o, k, b)
      <3>1. \A q \in Procs : buf[q] # b
        BY <2>2, UnusedRef DEF Miss
      <3>2. \A q \in Procs : Waits(q) \/ pc[q] = "written" => buf[q] \in Bufs
        BY BufFacts DEF Waits
      <3>3. DataSame
        BY <2>2, <3>1, <3>2 DEF Miss, Recycle, Enter, Goto, DataSame, Waits
      <3> QED
        BY <3>3, DataKept
    <2> QED
      BY <1>3, <2>1, <2>2
  <1>4. ASSUME NEW p \in Procs, Submit(p) \/ DescWait(p) \/ IoSleep(p) \/ IoAgain(p), Still
       PROVE  DataInv'
    <2>1. CASE Submit(p)
      <3>1. PICK S \in SUBSET free : S = alloc3_desc /\ First(S) \in S /\ buf[p] \in Bufs
        BY <1>4, <2>1, SubmitFacts
      <3> DEFINE new == [id |-> First(S), b |-> buf[p], blk |-> blockno[buf[p]],
                         write |-> writing[p]]
      <3>2. /\ idx' = [idx EXCEPT ![p] = S]
            /\ pc' = [pc EXCEPT ![p] = "iosleep"] /\ pc[p] = "rw"
            /\ avail' = avail \cup {new}
            /\ UNCHANGED <<buf, blockno, data, disk, latest, logged, valid>>
        BY <1>4, <2>1, <3>1 DEF Submit, Goto, Still, cacheVars, useVars
      <3>3. Asked(p)'
        <4>1. new \in avail' /\ new.id = First(S) /\ idx'[p] = S
          BY <3>2
        <4> QED
          BY <4>1 DEF Asked
      <3>4. ASSUME NEW q \in Procs, Waits(q)', ~Asked(q)' PROVE Waits(q) /\ ~Asked(q)
        <4>1. q # p
          BY <3>3, <3>4
        <4> QED
          BY <3>2, <3>4, <4>1 DEF Waits, Asked
      <3>5. \A q \in Procs : pc'[q] = "written" => pc[q] = "written"
        BY <3>2
      <3> QED
        BY <3>2, <3>4, <3>5 DEF DataInv
    <2>2. CASE DescWait(p)
      <3>1. DataSame
        BY <1>4, <2>2 DEF Still, cacheVars, useVars, DescWait, Goto, Returned,
               driverVars, deviceVars, DataSame, Waits
      <3> QED
        BY <3>1, DataKept
    <2>3. CASE IoSleep(p)
      <3>1. DataSame
        BY <1>4, <2>3 DEF Still, cacheVars, useVars, IoSleep, Goto, sleep,
               driverVars, deviceVars, DataSame, Waits
      <3> QED
        BY <3>1, DataKept
    <2>4. CASE IoAgain(p)
      <3>1. DataSame
        BY <1>4, <2>4 DEF Still, cacheVars, useVars, IoAgain, Goto, Returned,
               sleep_prepare, driverVars, deviceVars, DataSame, Waits
      <3> QED
        BY <3>1, DataKept
    <2> QED
      BY <1>4, <2>1, <2>2, <2>3, <2>4
  <1>5. ASSUME NEW p \in Procs, bread(p) \/ BreadDone(p) \/ BwriteDone(p)
       PROVE  DataInv'
    <2>1. CASE bread(p)
      <3>1. DataSame
        BY <2>1 DEF bread, Goto, sleepVars, useVars, DataSame, Waits
      <3> QED
        BY <3>1, DataKept
    <2>2. CASE BreadDone(p)
      <3>1. Ends(p) /\ pc'[p] = "held" /\ valid' = [valid EXCEPT ![buf[p]] = TRUE]
        BY <2>2, EndsFacts DEF BreadDone, IoDone, Goto
      <3>2. data[buf[p]] = latest[blockno[buf[p]]] /\ buf[p] \in Bufs
        BY <3>1, DoneData DEF Ends
      <3>3. DataSame
        BY <3>1, <3>2 DEF DataSame, Ends, Waits
      <3> QED
        BY <3>3, DataKept
    <2>3. CASE BwriteDone(p)
      <3>1. Ends(p) /\ pc'[p] = "written" /\ UNCHANGED valid
        BY <2>3, EndsFacts DEF BwriteDone, IoDone, Goto, cacheVars
      <3>2. disk[blockno[buf[p]]] = latest[blockno[buf[p]]] /\ buf[p] \in Bufs
        BY <3>1, DoneData DEF Ends
      <3>3. /\ UNCHANGED <<data, disk, latest, avail, blockno, buf, logged>>
            /\ pc' = [pc EXCEPT ![p] = "written"] /\ idx' = [idx EXCEPT ![p] = {}]
        BY <3>1 DEF Ends
      <3>4. \A q \in Procs : Waits(q)' => Waits(q) /\ (Asked(q)' <=> Asked(q))
        BY <3>3 DEF Waits, Asked
      <3>5. \A q \in Procs : pc'[q] = "written" => q = p \/ pc[q] = "written"
        BY <3>3
      <3> QED
        BY <3>1, <3>2, <3>3, <3>4, <3>5 DEF DataInv
    <2> QED
      BY <1>5, <2>1, <2>2, <2>3
  <1>6. ASSUME NEW p \in Procs, log_write(p) \/ bwrite(p) \/ bunpin(p)
       PROVE  DataInv'
    <2>1. CASE log_write(p)
      <3>1. PICK b \in Bufs : b = buf[p] /\ blockno[b] \in Blocks /\ Holds(p)
        BY <2>1, BufFacts DEF log_write, Goto, Holds
      <3>2. PICK v \in Vals : /\ data' = [data EXCEPT ![b] = v]
                              /\ latest' = [latest EXCEPT ![blockno[b]] = v]
        BY <2>1, <3>1 DEF log_write
      <3>3. /\ pc[p] = "held" /\ pc' = [pc EXCEPT ![p] = "drop"]
            /\ logged' = logged \cup {blockno[b]}
            /\ UNCHANGED <<blockno, valid, disk, buf, idx, avail>>
        BY <2>1, <3>1 DEF log_write, Goto, driverVars
      <3>4. ASSUME NEW c \in Bufs, valid'[c], blockno'[c] \in Blocks
            PROVE  data'[c] = latest'[blockno'[c]]
        <4>1. CASE c = b
          BY <3>1, <3>2, <3>3, <4>1
        <4>2. CASE c # b
          <5>1. blockno[c] # blockno[b]
            BY <3>1, <3>3, <3>4, <4>2, OneOf
          <5> QED
            BY <3>1, <3>2, <3>3, <3>4, <4>2, <5>1 DEF DataInv
        <4> QED
          BY <4>1, <4>2
      <3>5. ASSUME NEW k \in Blocks, k \notin logged'
            PROVE  disk'[k] = latest'[k]
        BY <3>1, <3>2, <3>3, <3>5 DEF DataInv
      <3>6. ASSUME NEW q \in Procs, Waits(q)' \/ pc'[q] = "written"
            PROVE  /\ pc'[q] = pc[q] /\ buf[q] \in Bufs /\ buf[q] # b
                   /\ blockno[buf[q]] # blockno[b] /\ blockno[buf[q]] \in Blocks
        <4>1. q # p /\ pc'[q] = pc[q]
          BY <3>3, <3>6 DEF Waits
        <4>2. Holds(q) /\ buf[q] \in Bufs /\ blockno[buf[q]] \in Blocks
          BY <3>6, <4>1, BufFacts DEF Waits, Holds
        <4>3. buf[q] # b
          BY <3>1, <4>1, <4>2, OneHolder
        <4> QED
          BY <3>1, <4>1, <4>2, <4>3, OneOf
      <3>7. ASSUME NEW q \in Procs, Waits(q)', ~Asked(q)'
            PROVE  /\ data'[buf'[q]] = latest'[blockno'[buf'[q]]]
                   /\ disk'[blockno'[buf'[q]]] = latest'[blockno'[buf'[q]]]
        <4>1. Waits(q) /\ ~Asked(q)
          BY <3>3, <3>6, <3>7 DEF Waits, Asked
        <4> QED
          BY <3>1, <3>2, <3>3, <3>6, <3>7, <4>1 DEF DataInv
      <3>8. ASSUME NEW q \in Procs, pc'[q] = "written"
            PROVE  disk'[blockno'[buf'[q]]] = latest'[blockno'[buf'[q]]]
        BY <3>1, <3>2, <3>3, <3>6, <3>8 DEF DataInv
      <3> QED
        BY <3>4, <3>5, <3>7, <3>8 DEF DataInv
    <2>2. CASE bwrite(p)
      <3>1. DataSame
        BY <2>2 DEF bwrite, Goto, sleepVars, driverVars, cacheVars, useVars,
               DataSame, Waits
      <3> QED
        BY <3>1, DataKept
    <2>3. CASE bunpin(p)
      <3>1. /\ pc[p] = "written" /\ pc' = [pc EXCEPT ![p] = "drop"]
            /\ logged' = logged \ {blockno[buf[p]]}
            /\ UNCHANGED <<data, disk, latest, avail, blockno, valid, buf, idx>>
        BY <2>3 DEF bunpin, Goto, driverVars
      <3>2. \A q \in Procs : /\ Waits(q)' <=> Waits(q)
                             /\ Asked(q)' <=> Asked(q)
                             /\ pc'[q] = "written" => pc[q] = "written"
        BY <3>1 DEF Waits, Asked
      <3>3. \A k \in Blocks : k \notin logged' => disk[k] = latest[k]
        BY <3>1 DEF DataInv
      <3> QED
        BY <3>1, <3>2, <3>3 DEF DataInv
    <2> QED
      BY <1>6, <2>1, <2>2, <2>3
  <1>7. ASSUME NEW p \in Procs, brelse(p) \/ Unref(p) \/ Kill(p) PROVE DataInv'
    <2>1. CASE brelse(p)
      <3>1. DataSame
        BY <2>1 DEF brelse, Goto, sleepVars, driverVars, useVars, DataSame,
               Waits
      <3> QED
        BY <3>1, DataKept
    <2>2. CASE Unref(p)
      <3>1. DataSame
        BY <2>2 DEF Unref, Goto, sleepVars, driverVars, DataSame, Waits
      <3> QED
        BY <3>1, DataKept
    <2>3. CASE Kill(p)
      <3>1. DataSame
        BY <2>3 DEF Kill, kkill, driverVars, cacheVars, useVars, DataSame,
               Waits
      <3> QED
        BY <3>1, DataKept
    <2> QED
      BY <1>7, <2>1, <2>2, <2>3
  <1>8. CASE UNCHANGED vars
    BY <1>8, DataKept DEF vars, ioVars, sleepVars, cacheVars, useVars,
           DataSame, Waits
  <1> QED
    BY <1>1, <1>2, <1>3, <1>4, <1>5, <1>6, <1>7, <1>8, NextCases

\* what a process may have registered, and what it sleeps on
Registered(p) ==
    \/ chan[p] = Chan(buf[p]) /\ Waits(p) /\ busy[buf[p]]
    \/ /\ chan[p] = FreeChan /\ pc[p] \in {"rw", "descsleep"} /\ Cardinality(free) < 3

ChanOf(p) == /\ chan[p] # NoChan => Registered(p)
             /\ state[p] = "SLEEPING" => chan[p] # NoChan /\ pc[p] \in {"rw", "io"}

LEMMA ChanIs == ChanInv <=> \A p \in Procs : ChanOf(p)
  BY DEF ChanInv, ChanOf, Registered

\* nobody's channel, sleep or reason to wait has changed
ChanSame ==
    /\ UNCHANGED <<chan, state, busy, free>>
    /\ \A q \in Procs : chan[q] # NoChan => pc'[q] = pc[q] /\ buf'[q] = buf[q]

LEMMA ChanKept ==
    ASSUME ChanInv, ChanSame
    PROVE  ChanInv'
  <1>1. ASSUME NEW q \in Procs PROVE ChanOf(q)'
    <2>1. ChanOf(q)
      BY ChanIs
    <2>2. CASE chan[q] = NoChan
      BY <2>1, <2>2 DEF ChanSame, ChanOf
    <2>3. CASE chan[q] # NoChan
      BY <2>1, <2>3 DEF ChanSame, ChanOf, Registered, Waits
    <2> QED
      BY <2>2, <2>3
  <1> QED
    BY <1>1 DEF ChanInv, ChanOf, Registered

LEMMA LessFree ==
    ASSUME Types, NEW S \in SUBSET free, Cardinality(free) < 3
    PROVE  Cardinality(S) < 3
  <1>1. IsFiniteSet(S) /\ Cardinality(S) <= Cardinality(free)
    BY FS_Subset DEF Types
  <1>2. Cardinality(S) \in Nat /\ Cardinality(free) \in Nat
    BY <1>1, FS_CardinalityType DEF Types
  <1> QED
    BY <1>1, <1>2

LEMMA ChanEnds ==
    ASSUME Types, ChanInv, NEW p \in Procs, Ends(p)
    PROVE  ChanInv'
  <1>1. /\ chan' = [q \in Procs |-> IF chan[q] = FreeChan THEN NoChan ELSE chan[q]]
        /\ state' = [q \in Procs |-> IF chan[q] = FreeChan /\ state[q] = "SLEEPING"
                                     THEN "RUNNABLE" ELSE state[q]]
        /\ pc[p] = "io" /\ state[p] = "RUNNABLE" /\ ~busy[buf[p]]
        /\ UNCHANGED <<buf, busy>> /\ \A q \in Procs : q # p => pc'[q] = pc[q]
    BY DEF Ends, wakeupAll, Types
  <1>2. \A q \in Procs : ChanOf(q)
    BY ChanIs
  <1>3. chan[p] = NoChan /\ chan'[p] = NoChan /\ state'[p] = "RUNNABLE"
    BY <1>1, <1>2 DEF ChanOf, Registered
  <1>4. ASSUME NEW q \in Procs, q # p, chan[q] = FreeChan
        PROVE  chan'[q] = NoChan /\ state'[q] # "SLEEPING"
    BY <1>1, <1>4
  <1>5. ASSUME NEW q \in Procs, q # p, chan[q] # FreeChan
        PROVE  chan'[q] = chan[q] /\ state'[q] = state[q] /\ pc'[q] = pc[q]
    BY <1>1, <1>5 DEF Types
  <1>6. ASSUME NEW q \in Procs PROVE ChanOf(q)'
    <2>1. CASE q = p
      BY <1>3, <2>1 DEF ChanOf
    <2>2. CASE q # p /\ chan[q] = FreeChan
      BY <1>4, <2>2 DEF ChanOf
    <2>3. CASE q # p /\ chan[q] # FreeChan
      BY <1>1, <1>2, <1>5, <2>3 DEF ChanOf, Registered, Waits
    <2> QED
      BY <2>1, <2>2, <2>3
  <1> QED
    BY <1>6 DEF ChanInv, ChanOf, Registered

\* who registers is woken before what he waits for is gone
LEMMA ChanStep ==
    ASSUME Types, CallInv, RefExact, DescInv, ReqInv, ChanInv, [Next]_vars
    PROVE  ChanInv'
  <1> USE SlotFacts, ChanFacts DEF Types
  <1>1. ASSUME NEW r \in avail, Finish(r), Still PROVE ChanInv'
    <2>1. ChanSame
      BY <1>1 DEF Still, cacheVars, useVars, Finish, sleepVars, driverVars,
             ChanSame, ChanInv, Waits
    <2> QED
      BY <2>1, ChanKept
  <1>2. ASSUME virtio_disk_intr, Still PROVE ChanInv'
    <2>1. CASE IntrAck
      <3>1. ChanSame
        BY <1>2, <2>1 DEF Still, cacheVars, useVars, IntrAck, sleepVars,
               driverVars, ChanSame, ChanInv, Waits
      <3> QED
        BY <3>1, ChanKept
    <2>2. CASE IntrBuf
      <3>1. used # <<>>
        BY <1>2, <2>2 DEF IntrBuf, IntrEntry
      <3>2. PICK q \in Procs : Sender(q, used[1]) /\ buf[q] = info[Head(used)]
        BY <3>1, HeadSender
      <3>3. PICK b \in Bufs : b = buf[q]
        BY <3>2, BufFacts DEF Sender, Waits
      <3>4. /\ busy' = [busy EXCEPT ![b] = FALSE] /\ UNCHANGED <<pc, buf, free>>
            /\ chan' = [p \in Procs |-> IF chan[p] = Chan(b) THEN NoChan ELSE chan[p]]
            /\ state' = [p \in Procs |-> IF chan[p] = Chan(b) /\ state[p] = "SLEEPING"
                                         THEN "RUNNABLE" ELSE state[p]]
        BY <1>2, <2>2, <3>2, <3>3 DEF IntrBuf, IntrEntry, wakeupAll
      <3>5. ASSUME NEW p \in Procs PROVE ChanOf(p)'
        <4>1. ChanOf(p)
          BY ChanIs
        <4>2. CASE chan[p] = Chan(b)
          <5>1. chan'[p] = NoChan /\ state'[p] # "SLEEPING"
            BY <3>4, <4>2
          <5> QED
            BY <5>1 DEF ChanOf
        <4>3. CASE chan[p] # Chan(b)
          <5>1. chan'[p] = chan[p] /\ state'[p] = state[p]
            BY <3>4, <4>3
          <5>2. ASSUME chan[p] = Chan(buf[p]), Waits(p) PROVE busy'[buf[p]] = busy[buf[p]]
            <6>1. buf[p] \in Bufs /\ buf[p] # b
              BY <4>3, <5>2, BufFacts DEF Waits
            <6> QED
              BY <3>4, <6>1
          <5> QED
            BY <3>4, <4>1, <5>1, <5>2 DEF ChanOf, Registered, Waits
        <4> QED
          BY <4>2, <4>3
      <3> QED
        BY <3>5 DEF ChanInv, ChanOf, Registered
    <2>3. CASE IntrDone
      <3>1. ChanSame
        BY <1>2, <2>3 DEF Still, cacheVars, useVars, IntrDone, sleepVars,
               driverVars, deviceVars, ChanSame, ChanInv, Waits
      <3> QED
        BY <3>1, ChanKept
    <2> QED
      BY <1>2, <2>1, <2>2, <2>3 DEF virtio_disk_intr
  <1>3. ASSUME NEW p \in Procs, NEW o \in Uses3, NEW k \in Blocks, NEW b \in Bufs,
              Hit(p, o, k, b) \/ Miss(p, o, k, b)
       PROVE  ChanInv'
    <2>1. CASE Hit(p, o, k, b)
      <3>1. ChanSame
        BY <2>1 DEF Hit, Enter, Goto, sleepVars, ChanSame, ChanInv, Waits
      <3> QED
        BY <3>1, ChanKept
    <2>2. CASE Miss(p, o, k, b)
      <3>1. ChanSame
        BY <2>2 DEF Miss, Recycle, Enter, Goto, sleepVars, ChanSame, ChanInv,
               Waits
      <3> QED
        BY <3>1, ChanKept
    <2> QED
      BY <1>3, <2>1, <2>2
  <1>4. ASSUME NEW p \in Procs, Submit(p) \/ DescWait(p) \/ IoSleep(p) \/ IoAgain(p), Still
       PROVE  ChanInv'
    <2>1. CASE Submit(p)
      <3>1. PICK b \in Bufs, S \in SUBSET free : b = buf[p] /\ S = alloc3_desc
        BY <1>4, <2>1, SubmitFacts
      <3>2. /\ chan' = [chan EXCEPT ![p] = Chan(b)] /\ busy' = [busy EXCEPT ![b] = TRUE]
            /\ pc' = [pc EXCEPT ![p] = "iosleep"] /\ pc[p] = "rw" /\ state[p] = "RUNNABLE"
            /\ free' = free \ S /\ UNCHANGED <<state, buf>>
        BY <1>4, <2>1, <3>1 DEF Submit, Goto, sleep_prepare, Returned
      <3>3. Cardinality(free) < 3 => Cardinality(free') < 3
        BY <3>1, <3>2, LessFree
      <3>4. ASSUME NEW q \in Procs PROVE ChanOf(q)'
        <4>1. ChanOf(q)
          BY ChanIs
        <4>2. CASE q = p
          BY <3>1, <3>2, <4>2 DEF ChanOf, Registered, Waits
        <4>3. CASE q # p
          BY <3>2, <3>3, <4>1, <4>3 DEF ChanOf, Registered, Waits
        <4> QED
          BY <4>2, <4>3
      <3> QED
        BY <3>4 DEF ChanInv, ChanOf, Registered
    <2>2. CASE DescWait(p)
      <3>1. /\ pc[p] = "rw" /\ pc' = [pc EXCEPT ![p] = "descsleep"] /\ state[p] = "RUNNABLE"
            /\ Cardinality(free) < 3 /\ UNCHANGED <<buf, free, busy>>
        BY <1>4, <2>2 DEF DescWait, Goto, Returned, driverVars
      <3>2. /\ chan'[p] = FreeChan /\ state'[p] = "RUNNABLE"
            /\ \A q \in Procs : q # p /\ chan[q] # FreeChan =>
                   chan'[q] = chan[q] /\ state'[q] = state[q]
            /\ \A q \in Procs : q # p /\ chan[q] = FreeChan =>
                   \/ chan'[q] = NoChan /\ state'[q] = "RUNNABLE"
                   \/ chan'[q] = chan[q] /\ state'[q] = state[q]
        BY <1>4, <2>2, <3>1 DEF DescWait
      <3>3. ASSUME NEW q \in Procs PROVE ChanOf(q)'
        <4>1. ChanOf(q)
          BY ChanIs
        <4>2. CASE q = p
          BY <3>1, <3>2, <4>2 DEF ChanOf, Registered
        <4>3. CASE q # p /\ chan'[q] = NoChan /\ state'[q] = "RUNNABLE"
          BY <4>3 DEF ChanOf
        <4>4. CASE q # p /\ chan'[q] = chan[q] /\ state'[q] = state[q]
          BY <3>1, <4>1, <4>4 DEF ChanOf, Registered, Waits
        <4> QED
          BY <3>2, <4>2, <4>3, <4>4
      <3> QED
        BY <3>3 DEF ChanInv, ChanOf, Registered
    <2>3. CASE IoSleep(p)
      <3>1. /\ \/ pc[p] = "iosleep" /\ pc' = [pc EXCEPT ![p] = "io"]
               \/ pc[p] = "descsleep" /\ pc' = [pc EXCEPT ![p] = "rw"]
            /\ state' = IF chan[p] # NoChan THEN [state EXCEPT ![p] = "SLEEPING"] ELSE state
            /\ UNCHANGED <<chan, buf, free, busy>>
        BY <1>4, <2>3 DEF IoSleep, Goto, sleep, driverVars
      <3>2. ASSUME NEW q \in Procs PROVE ChanOf(q)'
        <4>1. ChanOf(q)
          BY ChanIs
        <4>2. CASE q # p
          BY <3>1, <4>1, <4>2 DEF ChanOf, Registered, Waits
        <4>3. CASE q = p /\ chan[p] = NoChan
          BY <3>1, <4>1, <4>3 DEF ChanOf
        <4>4. CASE q = p /\ chan[p] # NoChan
          BY <3>1, <4>1, <4>4 DEF ChanOf, Registered, Waits
        <4> QED
          BY <4>2, <4>3, <4>4
      <3> QED
        BY <3>2 DEF ChanInv, ChanOf, Registered
    <2>4. CASE IoAgain(p)
      <3>1. /\ pc[p] = "io" /\ pc' = [pc EXCEPT ![p] = "iosleep"] /\ busy[buf[p]]
            /\ chan' = [chan EXCEPT ![p] = Chan(buf[p])] /\ state[p] = "RUNNABLE"
            /\ UNCHANGED <<state, buf, free, busy>>
        BY <1>4, <2>4 DEF IoAgain, Goto, sleep_prepare, Returned, driverVars
      <3>2. ASSUME NEW q \in Procs PROVE ChanOf(q)'
        <4>1. ChanOf(q)
          BY ChanIs
        <4>2. CASE q = p
          BY <3>1, <4>2 DEF ChanOf, Registered, Waits
        <4>3. CASE q # p
          BY <3>1, <4>1, <4>3 DEF ChanOf, Registered, Waits
        <4> QED
          BY <4>2, <4>3
      <3> QED
        BY <3>2 DEF ChanInv, ChanOf, Registered
    <2> QED
      BY <1>4, <2>1, <2>2, <2>3, <2>4
  <1>5. ASSUME NEW p \in Procs, bread(p) \/ BreadDone(p) \/ BwriteDone(p)
       PROVE  ChanInv'
    <2>1. CASE bread(p)
      <3>1. ChanSame
        BY <2>1 DEF bread, Goto, sleepVars, useVars, ChanSame, ChanInv, Waits
      <3> QED
        BY <3>1, ChanKept
    <2>2. CASE BreadDone(p)
      <3>1. Ends(p)
        BY <2>2, EndsFacts
      <3> QED
        BY <3>1, ChanEnds
    <2>3. CASE BwriteDone(p)
      <3>1. Ends(p)
        BY <2>3, EndsFacts
      <3> QED
        BY <3>1, ChanEnds
    <2> QED
      BY <1>5, <2>1, <2>2, <2>3
  <1>6. ASSUME NEW p \in Procs, log_write(p) \/ bwrite(p) \/ bunpin(p)
       PROVE  ChanInv'
    <2>1. CASE log_write(p)
      <3>1. ChanSame
        BY <2>1 DEF log_write, Goto, sleepVars, driverVars, ChanSame, ChanInv,
               Waits
      <3> QED
        BY <3>1, ChanKept
    <2>2. CASE bwrite(p)
      <3>1. ChanSame
        BY <2>2 DEF bwrite, Goto, sleepVars, driverVars, cacheVars, useVars,
               ChanSame, ChanInv, Waits
      <3> QED
        BY <3>1, ChanKept
    <2>3. CASE bunpin(p)
      <3>1. ChanSame
        BY <2>3 DEF bunpin, Goto, sleepVars, driverVars, ChanSame, ChanInv,
               Waits
      <3> QED
        BY <3>1, ChanKept
    <2> QED
      BY <1>6, <2>1, <2>2, <2>3
  <1>7. ASSUME NEW p \in Procs, brelse(p) \/ Unref(p) \/ Kill(p) PROVE ChanInv'
    <2>1. CASE brelse(p)
      <3>1. ChanSame
        BY <2>1 DEF brelse, Goto, sleepVars, driverVars, useVars, ChanSame,
               ChanInv, Waits
      <3> QED
        BY <3>1, ChanKept
    <2>2. CASE Unref(p)
      <3>1. ChanSame
        BY <2>2 DEF Unref, Goto, sleepVars, driverVars, ChanSame, ChanInv,
               Waits
      <3> QED
        BY <3>1, ChanKept
    <2>3. CASE Kill(p)
      <3>1. /\ state' = IF state[p] = "SLEEPING" THEN [state EXCEPT ![p] = "RUNNABLE"] ELSE state
            /\ UNCHANGED <<chan, pc, buf, free, busy>>
        BY <2>3 DEF Kill, kkill, driverVars
      <3>2. \A q \in Procs : state'[q] = "SLEEPING" => state[q] = "SLEEPING"
        BY <3>1
      <3> QED
        BY <3>1, <3>2 DEF ChanInv, Waits
    <2> QED
      BY <1>7, <2>1, <2>2, <2>3
  <1>8. CASE UNCHANGED vars
    BY <1>8, ChanKept DEF vars, ioVars, sleepVars, cacheVars, useVars,
           ChanSame, ChanInv, Waits
  <1> QED
    BY <1>1, <1>2, <1>3, <1>4, <1>5, <1>6, <1>7, <1>8, NextCases

-----------------------------------------------------------------------------
(* The invariant holds, and what follows from it *)

LEMMA InitInv ==
    ASSUME Init
    PROVE  IInv
  <1> USE SlotFacts DEF Init, VirtioInit
  <1>1. \A p \in Procs : pc[p] = "idle" /\ buf[p] = 0 /\ idx[p] = {} /\ op[p] = "read"
                         /\ chan[p] = NoChan /\ state[p] = "RUNNABLE" /\ ~Waits(p)
    BY DEF Waits
  <1>2. \A b \in Bufs : blockno[b] = NoBlock /\ ~busy[b] /\ ~valid[b] /\ refcnt[b] = 0
    OBVIOUS
  <1>3. PICK n \in NUMs : free = 0..(n - 1)
    OBVIOUS
  <1>4. n \in Nat /\ free \subseteq Descs /\ IsFiniteSet(free)
    BY <1>3, VirtioAssumption, FS_Interval DEF VirtioAssumption, Descs
  <1>5. IsFiniteSet({})
    BY FS_EmptySet
  <1>6. Types
    <2>1. /\ state \in [Procs -> {"RUNNABLE", "SLEEPING"}] /\ killed \in [Procs -> BOOLEAN]
          /\ chan \in [Procs -> {NoChan, FreeChan} \cup {Chan(b) : b \in Bufs}]
          /\ blockno \in [Bufs -> Blocks \cup {NoBlock}] /\ busy \in [Bufs -> BOOLEAN]
          /\ valid \in [Bufs -> BOOLEAN] /\ refcnt \in [Bufs -> Nat]
          /\ owner \in [Bufs -> 0..N]
      OBVIOUS
    <2>2. /\ data \in [Bufs -> Vals] /\ disk \in [Blocks -> Vals] /\ latest \in [Blocks -> Vals]
          /\ logged \subseteq Blocks
      OBVIOUS
    <2>3. /\ vdisk_lock \in BOOLEAN /\ isr \in BOOLEAN /\ avail \subseteq Request
          /\ info \in [Descs -> Bufs \cup {0}]
      OBVIOUS
    <2>4. /\ idx \in [Procs -> SUBSET Descs] /\ \A p \in Procs : IsFiniteSet(idx[p])
          /\ buf \in [Procs -> Bufs \cup {0}] /\ writing \in [Procs -> BOOLEAN]
          /\ op \in [Procs -> {"read", "write", "install"}]
      BY <1>5
    <2>5. pc \in [Procs -> {"idle", "lock", "rw", "iosleep", "descsleep", "io",
                            "held", "written", "drop", "rel"}]
      OBVIOUS
    <2>6. used \in Seq(Descs)
      OBVIOUS
    <2> QED
      BY <1>4, <2>1, <2>2, <2>3, <2>4, <2>5, <2>6 DEF Types
  <1>7. CallInv
    BY <1>1, <1>2 DEF CallInv, Holds, Transfers, Waits
  <1>8. OneBuffer
    BY <1>2 DEF OneBuffer
  <1>9. RefExact
    <2>1. ASSUME NEW b \in Bufs
          PROVE  refcnt[b] = Cardinality(Users(b)) /\ blockno[b] \notin logged
      <3>1. Users(b) = {}
        BY <1>1 DEF Users
      <3> QED
        BY <1>2, <3>1, FS_EmptySet
    <2>2. ASSUME NEW b \in Bufs
          PROVE  refcnt[b] = Cardinality(Users(b)) + Pin(b)
      BY <1>2, <2>1 DEF Pin
    <2> QED
      BY <2>2 DEF RefExact, Users, Pin
  <1>10. PinInv /\ InstallInv
    BY <1>1 DEF PinInv, InstallInv
  <1>11. RoomInv
    <2>1. logged \cup Changing = {}
      BY <1>1 DEF Changing, Running
    <2>2. IsFiniteSet(logged \cup Changing) /\ Cardinality(logged \cup Changing) = 0
      BY <2>1, FS_EmptySet
    <2> QED
      BY <2>2 DEF RoomInv
  <1>12. DescInv
    BY <1>1 DEF DescInv
  <1>13. ReqInv
    BY DEF ReqInv
  <1>14. IrqInv
    BY DEF IrqInv
  <1>15. BusyInv
    BY <1>2 DEF BusyInv
  <1>16. DataInv
    BY <1>1, <1>2 DEF DataInv
  <1>17. ChanInv
    BY <1>1 DEF ChanInv
  <1> QED
    BY <1>6, <1>7, <1>8, <1>9, <1>10, <1>11, <1>12, <1>13, <1>14, <1>15, <1>16, <1>17
       DEF IInv

\* the invariant is inductive
LEMMA Invariance == Spec => []IInv
  <1>1. Init => IInv
    BY InitInv
  <1>2. IInv /\ [Next]_vars => IInv'
    BY TypesStep, CallStep, OneBufferStep, RefStep, PinStep, InstallStep, RoomStep,
       DescStep, ReqStep, IrqStep, BusyStep, DataStep, ChanStep DEF IInv
  <1> QED
    BY <1>1, <1>2, PTL DEF Spec

LEMMA TypesHold ==
    ASSUME IInv
    PROVE  TypeOK
  <1> USE DEF IInv
  <1>1. \A i \in 1..Len(used) : used[i] \in {d \in Descs : info[d] # 0}
    <2>1. ASSUME NEW i \in 1..Len(used) PROVE used[i] \in Descs /\ info[used[i]] # 0
      <3>1. PICK p \in Procs : Sender(p, used[i])
        BY DEF ReqInv
      <3>2. buf[p] \in Bufs
        BY <3>1, BufFacts DEF Sender, Waits
      <3> QED
        BY <3>1, <3>2, SlotFacts, DescOf DEF Sender, DescInv
    <2> QED
      BY <2>1
  <1>2. used \in Seq({d \in Descs : info[d] # 0})
    <2>1. used \in Seq(Descs)
      BY DEF Types
    <2> QED
      BY <1>1, <2>1
  <1>3. VirtioTypeOK
    BY <1>2 DEF VirtioTypeOK, Types
  <1>4. Cardinality(logged) <= MaxLogged
    <2>1. IsFiniteSet(logged) /\ Cardinality(logged) <= Cardinality(logged \cup Changing)
      BY FS_Subset DEF RoomInv
    <2>2. /\ Cardinality(logged) \in Nat /\ Cardinality(logged \cup Changing) \in Nat
          /\ MaxLogged \in Nat
      BY <2>1, SlotFacts, FS_CardinalityType DEF RoomInv
    <2> QED
      BY <2>1, <2>2 DEF RoomInv
  <1> QED
    BY <1>3, <1>4 DEF TypeOK, Types

\* no block is ever in two buffers, every reference count is that of the calls and of

\* the log, and the log never pins more blocks than it has room for
THEOREM CacheTable == Spec => []Inv
  <1>1. IInv => Inv
    BY TypesHold DEF IInv, Inv
  <1> QED
    BY <1>1, Invariance, PTL

\* who gets a buffer from bread() sees what was last written to the block, whatever was

\* recycled, pinned, installed or reread meanwhile
THEOREM ReadsTheLatest == Spec => []ReadsLatest
  <1>1. IInv => ReadsLatest
    <2> SUFFICES ASSUME IInv, NEW p \in Procs, pc[p] \in {"held", "written", "drop"}
                PROVE  owner[buf[p]] = p /\ data[buf[p]] = latest[blockno[buf[p]]]
      BY DEF ReadsLatest
    <2> USE DEF IInv
    <2>2. Holds(p) /\ ~Transfers(p) /\ buf[p] \in Bufs /\ blockno[buf[p]] \in Blocks
      BY BufFacts DEF Holds, Transfers
    <2>3. owner[buf[p]] = p /\ valid[buf[p]]
      BY <2>2 DEF CallInv
    <2> QED
      BY <2>2, <2>3 DEF DataInv
  <1> QED
    BY <1>1, Invariance, PTL

\* the device and the used ring name only descriptors of a process that still waits

\* with the buffer locked: none is freed or given away under the device
THEOREM DeviceOwnsIt == Spec => []DeviceOwnsBuffer
  <1>1. IInv => DeviceOwnsBuffer
    <2> SUFFICES ASSUME IInv, NEW id \in Descs,
                          (\E r \in avail : r.id = id) \/ (\E i \in DOMAIN used : used[i] = id)
                   PROVE  \E p \in Procs :
                             /\ Waits(p) /\ id \in idx[p] /\ idx[p] \cap free = {}
                             /\ info[id] = buf[p] /\ busy[buf[p]] /\ owner[buf[p]] = p
                             /\ \A r \in avail : r.id = id =>
                                    r.b = buf[p] /\ r.blk = blockno[buf[p]]
      BY DEF DeviceOwnsBuffer
    <2> USE DEF IInv
    <2>2. DOMAIN used = 1..Len(used)
      BY DEF Types
    <2>3. PICK p \in Procs : Sender(p, id)
      BY <2>2 DEF ReqInv
    <2>4. /\ Waits(p) /\ id \in idx[p] /\ idx[p] \cap free = {}
          /\ info[id] = buf[p] /\ busy[buf[p]]
      BY <2>3, DescOf DEF Sender, DescInv
    <2>5. owner[buf[p]] = p
      BY <2>4 DEF CallInv, Holds
    <2>6. ASSUME NEW r \in avail, r.id = id PROVE r.b = buf[p] /\ r.blk = blockno[buf[p]]
      <3>1. PICK q \in Procs :
                /\ Sender(q, r.id)
                /\ r = [id |-> r.id, b |-> buf[q], blk |-> blockno[buf[q]],
                        write |-> writing[q]]
        BY DEF ReqInv
      <3>2. q = p
        BY <2>3, <2>6, <3>1, OneSender DEF Sender
      <3> QED
        BY <3>1, <3>2
    <2> QED
      BY <2>4, <2>5, <2>6
  <1> QED
    BY <1>1, Invariance, PTL

\* a process that sleeps in the driver has its request still with the device, or

\* answered with the interrupt to come, or too few descriptors: no wakeup is lost
THEOREM CompletionComes == Spec => []NoLostCompletion
  <1>1. IInv => NoLostCompletion
    <2> SUFFICES ASSUME IInv, NEW p \in Procs, state[p] = "SLEEPING"
                   PROVE  \/ /\ pc[p] = "io" /\ busy[buf[p]]
                             /\ \/ \E r \in avail : r.b = buf[p]
                                \/ \E i \in DOMAIN used : info[used[i]] = buf[p]
                          \/ pc[p] = "rw" /\ Cardinality(free) < 3
      BY DEF NoLostCompletion, IInv, IrqInv
    <2> USE DEF IInv
    <2>2. Registered(p) /\ pc[p] \in {"rw", "io"}
      BY ChanIs DEF ChanOf
    <2>3. CASE chan[p] = FreeChan /\ pc[p] \in {"rw", "descsleep"} /\ Cardinality(free) < 3
      BY <2>2, <2>3
    <2>4. CASE chan[p] = Chan(buf[p]) /\ Waits(p) /\ busy[buf[p]]
      <3>1. pc[p] = "io" /\ buf[p] \in Bufs /\ Holds(p)
        BY <2>2, <2>4, BufFacts DEF Waits, Holds
      <3>2. PICK q \in Procs : Waits(q) /\ buf[q] = buf[p] /\ (Asked(q) \/ Answered(q))
        BY <2>4, <3>1 DEF BusyInv
      <3>3. q = p
        BY <3>1, <3>2, OneHolder DEF Holds
      <3>4. CASE Asked(p)
        <4>1. PICK r \in avail : r.id = First(idx[p])
          BY <3>4 DEF Asked
        <4>2. PICK s \in Procs : Sender(s, r.id) /\ r.b = buf[s]
          BY DEF ReqInv
        <4>3. s = p
          BY <2>4, <4>1, <4>2, OneSender DEF Sender
        <4> QED
          BY <2>4, <3>1, <4>2, <4>3
      <3>5. CASE Answered(p)
        <4>1. PICK i \in 1..Len(used) : used[i] = First(idx[p])
          BY <3>5 DEF Answered
        <4>2. i \in DOMAIN used
          BY DEF Types
        <4>3. info[used[i]] = buf[p]
          BY <2>4, <4>1 DEF DescInv
        <4> QED
          BY <2>4, <3>1, <4>2, <4>3
      <3> QED
        BY <3>2, <3>3, <3>4, <3>5
    <2> QED
      BY <2>2, <2>3, <2>4 DEF Registered
  <1> QED
    BY <1>1, Invariance, PTL
=============================================================================

------------------------------ MODULE LogProofs ------------------------------
(***************************************************************************)
(* The redo log of module Log, for any number of processes, any size of    *)
(* the log and of the disk, and a crash at any step.                       *)
(***************************************************************************)
EXTENDS Log, FiniteSetTheorems, SequenceTheorems, TLAPS

-----------------------------------------------------------------------------
(* The inductive invariant *)

Ops == {p \in Procs : pc[p] = "op"}
Committers == {"wlog", "install", "done"}

Types ==
    /\ state \in [Procs -> {"RUNNABLE", "SLEEPING"}]
    /\ chan \in [Procs -> {NoChan, LogChan}]
    /\ killed \in [Procs -> BOOLEAN]
    /\ scan \in [Procs -> 1..(N + 1)]
    /\ committing \in BOOLEAN
    /\ lock \in 0..N
    /\ rec \in {"head", "install", "up"}
    /\ pc \in [Procs -> PCs]
    /\ mine \in [Procs -> SUBSET Blocks]
    /\ due \in [Procs -> BOOLEAN]
    /\ unsaved \subseteq Procs /\ owed \in [Procs -> SUBSET Procs]

DiskTypes ==
    /\ home \in [Blocks -> Vals] /\ cache \in [Blocks -> Vals]
    /\ logdisk \in [1..LOGBLOCKS -> Vals]
    /\ head \in Seq(Blocks) /\ Len(head) <= LOGBLOCKS
    /\ block \in Seq(Blocks) /\ n <= LOGBLOCKS
    /\ tail \in 1..(LOGBLOCKS + 1)

\* log.outstanding counts the calls in progress
CountInv == outstanding = Cardinality(Ops)

\* log.lock is held in the loop of wakeup(&log); one process commits, and only
\* while no call is in progress; nobody runs before recovery is done
CommitInv ==
    /\ \A p \in Procs : pc[p] = "endwake" => lock = p
    /\ \A p \in Procs : pc[p] \in Committers => committing
    /\ \A p, q \in Procs : pc[p] \in Committers /\ pc[q] \in Committers => p = q
    /\ committing => \E p \in Procs : pc[p] \in Committers
    /\ NoCallInCommit
    /\ rec # "up" => ~committing /\ \A p \in Procs : pc[p] = "idle"

\* the log is empty when no call is in progress and none commits
EmptyInv == /\ ~committing /\ outstanding = 0 /\ rec = "up" => block = <<>>
            /\ \A p \in Procs : pc[p] = "done" => block = <<>>

\* no block is twice in a log, and the header counts only from write_head() on
Distinct(s) == \A i, j \in 1..Len(s) : s[i] = s[j] => i = j

HeadInv ==
    /\ Distinct(block) /\ Distinct(head)
    /\ rec = "up" /\ (\A p \in Procs : pc[p] # "install") => head = <<>>
    /\ rec = "install" => block = head
    /\ \A p \in Procs : pc[p] = "install" => head = block

\* what write_log() has copied is what the calls wrote
CopyInv == \A p \in Procs, i \in 1..n :
    /\ pc[p] = "wlog" /\ i < tail => logdisk[i] = cache[block[i]]
    /\ pc[p] = "install" => logdisk[i] = cache[block[i]]

\* what install_trans() has copied
HomeInv == \A i \in 1..n :
    /\ i < tail
    /\ rec = "install" \/ \E p \in Procs : pc[p] = "install"
    => home[block[i]] = logdisk[i]

\* a block that is not pinned by the log is as on disk
CacheInv == rec = "up" => \A b \in Blocks : cache[b] = home[b] \/ Logged(b)

-----------------------------------------------------------------------------
(* What the constants give *)

LEMMA SlotFacts ==
    /\ 0 \notin Procs /\ 0 \in 0..N
    /\ N + 1 \notin Procs /\ N + 1 \in 1..(N + 1) /\ 1 \in 1..(N + 1)
    /\ \A p \in Procs : /\ p \in 0..N /\ p + 1 \in 1..(N + 1) /\ p \in Int
                        /\ 1 <= p /\ ~(N + 1 <= p)
    /\ \A i \in 1..(N + 1), p \in Procs : i <= p /\ i # p => i + 1 <= p
  BY NAssumption DEF NAssumption, Procs

LEMMA SizeFacts ==
    /\ LOGBLOCKS \in Nat \ {0} /\ MAXOPBLOCKS \in Nat \ {0} /\ MAXOPBLOCKS <= LOGBLOCKS
    /\ 1 \in 1..(LOGBLOCKS + 1)
    /\ OpBlocks \in Nat /\ OpBlocks <= MAXOPBLOCKS
  BY LogAssumption DEF LogAssumption

LEMMA OpsFacts ==
    ASSUME CountInv
    PROVE  /\ IsFiniteSet(Ops) /\ outstanding \in Nat
           /\ outstanding = 0 <=> \A p \in Procs : pc[p] # "op"
           /\ \A p, q \in Procs : outstanding = 1 /\ pc[p] = "op" /\ pc[q] = "op" => p = q
  <1>1. IsFiniteSet(Procs)
    BY NAssumption, FS_Interval DEF NAssumption, Procs
  <1>2. IsFiniteSet(Ops)
    BY <1>1, FS_Subset DEF Ops
  <1>3. Cardinality(Ops) \in Nat /\ (Cardinality(Ops) = 0 <=> Ops = {})
    BY <1>2, FS_CardinalityType, FS_EmptySet
  <1>4. Cardinality(Ops) = 1 => \E x : Ops = {x}
    BY <1>2, FS_Singleton
  <1>5. outstanding = 0 <=> \A p \in Procs : pc[p] # "op"
    BY <1>3 DEF CountInv, Ops
  <1>6. \A p, q \in Procs : outstanding = 1 /\ pc[p] = "op" /\ pc[q] = "op" => p = q
    BY <1>4 DEF CountInv, Ops
  <1> QED
    BY <1>2, <1>3, <1>5, <1>6 DEF CountInv

LEMMA OpsFactsNext ==
    ASSUME CountInv'
    PROVE  IsFiniteSet(Ops') /\ Cardinality(Ops') = outstanding'
  <1>1. IsFiniteSet(Procs)
    BY NAssumption, FS_Interval DEF NAssumption, Procs
  <1>2. IsFiniteSet(Ops')
    BY <1>1, FS_Subset DEF Ops
  <1> QED
    BY <1>2 DEF CountInv

LEMMA LenFacts ==
    ASSUME DiskTypes
    PROVE  n \in Nat /\ n <= LOGBLOCKS /\ (n = 0 <=> block = <<>>) /\ (n > 0 <=> n # 0)
  <1>1. block \in Seq(Blocks) /\ n <= LOGBLOCKS
    BY DEF DiskTypes
  <1>2. n \in Nat
    BY <1>1, LenProperties DEF n
  <1>3. n = 0 <=> block = <<>>
    BY <1>1, EmptySeq, LenProperties DEF n
  <1> QED
    BY <1>1, <1>2, <1>3

\* one process enters, or leaves
LEMMA EnterOps ==
    ASSUME CountInv, NEW p \in Procs, pc \in [Procs -> PCs],
           pc[p] # "op", pc' = [pc EXCEPT ![p] = "op"]
    PROVE  Cardinality(Ops') = outstanding + 1
  <1>1. IsFiniteSet(Ops) /\ Cardinality(Ops) = outstanding
    BY OpsFacts DEF CountInv
  <1>2. Ops' = Ops \cup {p} /\ p \notin Ops
    BY DEF Ops
  <1> QED
    BY <1>1, <1>2, FS_AddElement

LEMMA LeaveOps ==
    ASSUME CountInv, NEW p \in Procs, pc \in [Procs -> PCs],
           pc[p] = "op", NEW x, x # "op", pc' = [pc EXCEPT ![p] = x]
    PROVE  Cardinality(Ops') = outstanding - 1
  <1>1. IsFiniteSet(Ops) /\ Cardinality(Ops) = outstanding
    BY OpsFacts DEF CountInv
  <1>2. Ops' = Ops \ {p} /\ p \in Ops
    BY DEF Ops
  <1> QED
    BY <1>1, <1>2, FS_RemoveElement

LEMMA DistinctEmpty == Distinct(<<>>)
  BY EmptySeq DEF Distinct

LEMMA DistinctAppend ==
    ASSUME NEW b \in Blocks, block \in Seq(Blocks), Distinct(block), ~Logged(b)
    PROVE  Distinct(Append(block, b))
  BY AppendProperties, LenProperties DEF Distinct, Logged, n

-----------------------------------------------------------------------------
(* The steps *)


LEMMA CopySame ==
    ASSUME CopyInv, UNCHANGED <<logdisk, cache, block, tail>>,
           \A q \in Procs : pc'[q] \in {"wlog", "install"} => pc'[q] = pc[q]
    PROVE  CopyInv'
  BY DEF CopyInv, n

LEMMA HomeSame ==
    ASSUME HomeInv, UNCHANGED <<home, logdisk, block, tail, rec>>,
           \A q \in Procs : pc'[q] = "install" => pc[q] = "install"
    PROVE  HomeInv'
  BY DEF HomeInv, n

LEMMA CacheSame ==
    ASSUME CacheInv, UNCHANGED <<home, cache, block, rec>>
    PROVE  CacheInv'
  BY DEF CacheInv, Logged, n


LEMMA TypesStep ==
    ASSUME Types, [Next]_vars
    PROVE  Types'
  <1> USE SlotFacts DEF Types, PCs
  <1>1. ASSUME NEW p \in Procs, begin_op(p) \/ BeginWaits(p) \/ Sleep(p)
       PROVE  Types'
    <2>1. CASE begin_op(p)
      BY <2>1 DEF begin_op, Returned, sleepVars, diskVars, ghostVars
    <2>2. CASE BeginWaits(p)
      BY <2>2 DEF BeginWaits, Returned, sleep_prepare, sleep, diskVars,
             logVars, ghostVars, LogChan
    <2>3. CASE Sleep(p)
      BY <2>3 DEF Sleep, Goto, sleep, diskVars, logVars, ghostVars
    <2> QED
      BY <1>1, <2>1, <2>2, <2>3
  <1>2. ASSUME NEW p \in Procs, end_op(p) PROVE Types'
    <2>1. CASE EndOther(p)
      BY <2>1 DEF EndOther, Goto, WakeupCall, diskVars
    <2>2. CASE EndLast(p)
      BY <2>2 DEF EndLast, Goto, sleepVars, diskVars
    <2>3. CASE WriteLog(p)
      BY <2>3 DEF WriteLog, sleepVars, logVars, ghostVars
    <2>4. CASE WriteHead(p)
      BY <2>4 DEF WriteHead, Goto, sleepVars, logVars
    <2>5. CASE Install(p)
      BY <2>5 DEF Install, sleepVars, logVars, ghostVars
    <2>6. CASE Erase(p)
      BY <2>6 DEF Erase, Goto, sleepVars, ghostVars
    <2>7. CASE CommitDone(p)
      BY <2>7 DEF CommitDone, Goto, WakeupCall, diskVars, ghostVars
    <2>8. CASE EndWake(p)
      BY <2>8 DEF EndWake, wakeup, diskVars, logVars, ghostVars, LogChan
    <2>9. CASE EndDone(p)
      BY <2>9 DEF EndDone, Goto, WakeupDone, sleepVars, diskVars, logVars,
             ghostVars
    <2> QED
      BY <1>2, <2>1, <2>2, <2>3, <2>4, <2>5, <2>6, <2>7, <2>8, <2>9 DEF end_op
  <1>3. ASSUME NEW p \in Procs, sys_sync(p) PROVE Types'
    <2>1. CASE SyncNow(p)
      BY <2>1 DEF SyncNow, Goto, sleepVars, diskVars, logVars
    <2>2. CASE SyncWaits(p)
      BY <2>2 DEF SyncWaits, Goto, sleep_prepare, diskVars, logVars, LogChan
    <2>3. CASE SyncAgain(p)
      BY <2>3 DEF SyncAgain, Goto, Returned, sleep_prepare, diskVars, logVars,
             ghostVars, LogChan
    <2>4. CASE SyncDone(p)
      BY <2>4 DEF SyncDone, Goto, Returned, sleepVars, diskVars, logVars,
             ghostVars
    <2>5. CASE SyncReturn(p)
      BY <2>5 DEF SyncReturn, Goto, sleepVars, diskVars, logVars
    <2> QED
      BY <1>3, <2>1, <2>2, <2>3, <2>4, <2>5 DEF sys_sync
  <1>4. ASSUME NEW p \in Procs, Kill(p) PROVE Types'
    BY <1>4 DEF Kill, kkill, diskVars, logVars, ghostVars
  <1>5. ASSUME NEW p \in Procs, NEW b \in Blocks, NEW v \in Vals, log_write(p, b, v)
       PROVE  Types'
    BY <1>5 DEF log_write, sleepVars, diskVars, ghostVars
  <1>6. CASE Recovery
    <2>1. CASE ReadHead
      BY <2>1 DEF ReadHead, sleepVars, diskVars, ghostVars
    <2>2. CASE RecoverBlock
      BY <2>2 DEF RecoverBlock, sleepVars, logVars, ghostVars
    <2>3. CASE RecoverDone
      BY <2>3 DEF RecoverDone, sleepVars, ghostVars
    <2> QED
      BY <1>6, <2>1, <2>2, <2>3 DEF Recovery
  <1>7. CASE Crash
    BY <1>7 DEF Crash, Boot, diskVars
  <1>8. CASE UNCHANGED vars
    BY <1>8 DEF vars, sleepVars, diskVars, logVars, ghostVars
  <1>9. ASSUME NEW p \in Procs, NEW b \in Blocks, TooBig(p, b) PROVE Types'
    BY <1>9 DEF TooBig, sleepVars, diskVars, logVars, ghostVars
  <1> QED
    BY <1>1, <1>2, <1>3, <1>4, <1>5, <1>6, <1>7, <1>8, <1>9 DEF Next, Step

LEMMA DiskTypesStep ==
    ASSUME Types, DiskTypes, [Next]_vars
    PROVE  DiskTypes'
  <1> USE SizeFacts, AppendProperties, EmptySeq, LenProperties DEF DiskTypes, n
  <1>1. ASSUME NEW p \in Procs, begin_op(p) \/ BeginWaits(p) \/ Sleep(p)
       PROVE  DiskTypes'
    <2>1. CASE begin_op(p)
      BY <2>1 DEF begin_op, Returned, sleepVars, diskVars, ghostVars
    <2>2. CASE BeginWaits(p)
      BY <2>2 DEF BeginWaits, Returned, sleep_prepare, sleep, diskVars,
             logVars, ghostVars, LogChan
    <2>3. CASE Sleep(p)
      BY <2>3 DEF Sleep, Goto, sleep, diskVars, logVars, ghostVars
    <2> QED
      BY <1>1, <2>1, <2>2, <2>3
  <1>2. ASSUME NEW p \in Procs, end_op(p) PROVE DiskTypes'
    <2>1. CASE EndOther(p)
      BY <2>1 DEF EndOther, Goto, WakeupCall, diskVars
    <2>2. CASE EndLast(p)
      BY <2>2 DEF EndLast, Goto, sleepVars, diskVars
    <2>3. CASE WriteLog(p)
      BY <2>3 DEF WriteLog, sleepVars, logVars, ghostVars
    <2>4. CASE WriteHead(p)
      BY <2>4 DEF WriteHead, Goto, sleepVars, logVars
    <2>5. CASE Install(p)
      BY <2>5 DEF Install, sleepVars, logVars, ghostVars
    <2>6. CASE Erase(p)
      BY <2>6 DEF Erase, Goto, sleepVars, ghostVars
    <2>7. CASE CommitDone(p)
      BY <2>7 DEF CommitDone, Goto, WakeupCall, diskVars, ghostVars
    <2>8. CASE EndWake(p)
      BY <2>8 DEF EndWake, wakeup, diskVars, logVars, ghostVars, LogChan
    <2>9. CASE EndDone(p)
      BY <2>9 DEF EndDone, Goto, WakeupDone, sleepVars, diskVars, logVars,
             ghostVars
    <2> QED
      BY <1>2, <2>1, <2>2, <2>3, <2>4, <2>5, <2>6, <2>7, <2>8, <2>9 DEF end_op
  <1>3. ASSUME NEW p \in Procs, sys_sync(p) PROVE DiskTypes'
    <2>1. CASE SyncNow(p)
      BY <2>1 DEF SyncNow, Goto, sleepVars, diskVars, logVars
    <2>2. CASE SyncWaits(p)
      BY <2>2 DEF SyncWaits, Goto, sleep_prepare, diskVars, logVars, LogChan
    <2>3. CASE SyncAgain(p)
      BY <2>3 DEF SyncAgain, Goto, Returned, sleep_prepare, diskVars, logVars,
             ghostVars, LogChan
    <2>4. CASE SyncDone(p)
      BY <2>4 DEF SyncDone, Goto, Returned, sleepVars, diskVars, logVars,
             ghostVars
    <2>5. CASE SyncReturn(p)
      BY <2>5 DEF SyncReturn, Goto, sleepVars, diskVars, logVars
    <2> QED
      BY <1>3, <2>1, <2>2, <2>3, <2>4, <2>5 DEF sys_sync
  <1>4. ASSUME NEW p \in Procs, Kill(p) PROVE DiskTypes'
    BY <1>4 DEF Kill, kkill, diskVars, logVars, ghostVars
  <1>5. ASSUME NEW p \in Procs, NEW b \in Blocks, NEW v \in Vals, log_write(p, b, v)
       PROVE  DiskTypes'
    BY <1>5 DEF log_write, sleepVars, diskVars, ghostVars
  <1>6. CASE Recovery
    <2>1. CASE ReadHead
      BY <2>1 DEF ReadHead, sleepVars, diskVars, ghostVars
    <2>2. CASE RecoverBlock
      BY <2>2 DEF RecoverBlock, sleepVars, logVars, ghostVars
    <2>3. CASE RecoverDone
      BY <2>3 DEF RecoverDone, sleepVars, ghostVars
    <2> QED
      BY <1>6, <2>1, <2>2, <2>3 DEF Recovery
  <1>7. CASE Crash
    BY <1>7 DEF Crash, Boot, diskVars
  <1>8. CASE UNCHANGED vars
    BY <1>8 DEF vars, sleepVars, diskVars, logVars, ghostVars
  <1>9. ASSUME NEW p \in Procs, NEW b \in Blocks, TooBig(p, b) PROVE DiskTypes'
    BY <1>9 DEF TooBig, sleepVars, diskVars, logVars, ghostVars
  <1> QED
    BY <1>1, <1>2, <1>3, <1>4, <1>5, <1>6, <1>7, <1>8, <1>9 DEF Next, Step

\* nobody enters or leaves
LEMMA SameOps ==
    ASSUME CountInv, UNCHANGED outstanding,
           \A q \in Procs : pc'[q] = "op" <=> pc[q] = "op"
    PROVE  CountInv'
  <1>1. Ops' = Ops
    BY DEF Ops
  <1> QED
    BY <1>1 DEF CountInv

LEMMA CountStep ==
    ASSUME Types, DiskTypes, CountInv, [Next]_vars
    PROVE  CountInv'
  <1>1. ASSUME NEW p \in Procs, begin_op(p) \/ BeginWaits(p) \/ Sleep(p)
       PROVE  CountInv'
    <2>1. CASE begin_op(p)
      <3>1. pc' = [pc EXCEPT ![p] = "op"] /\ pc[p] # "op" /\ outstanding' = outstanding + 1
        BY <2>1 DEF begin_op, Returned
      <3>2. Cardinality(Ops') = outstanding + 1
        BY <3>1, EnterOps DEF Types
      <3> QED
        BY <3>1, <3>2 DEF CountInv
    <2>2. CASE BeginWaits(p)
      <3>1. UNCHANGED outstanding /\ \A q \in Procs : pc'[q] = "op" <=> pc[q] = "op"
        BY <2>2 DEF BeginWaits, Returned, sleep_prepare, sleep, diskVars,
               logVars, ghostVars, LogChan, Types
      <3> QED
        BY <3>1, SameOps
    <2>3. CASE Sleep(p)
      <3>1. UNCHANGED outstanding /\ \A q \in Procs : pc'[q] = "op" <=> pc[q] = "op"
        BY <2>3 DEF Sleep, Goto, sleep, diskVars, logVars, ghostVars, Types
      <3> QED
        BY <3>1, SameOps
    <2> QED
      BY <1>1, <2>1, <2>2, <2>3
  <1>2. ASSUME NEW p \in Procs, end_op(p) PROVE CountInv'
    <2>1. CASE EndOther(p)
      <3>1. pc' = [pc EXCEPT ![p] = "endwake"] /\ pc[p] = "op" /\ outstanding' = outstanding - 1
        BY <2>1 DEF EndOther, Goto
      <3>2. Cardinality(Ops') = outstanding - 1
        BY <3>1, LeaveOps DEF Types
      <3> QED
        BY <3>1, <3>2 DEF CountInv
    <2>2. CASE EndLast(p)
      <3>1. pc[p] = "op" /\ outstanding' = outstanding - 1
        BY <2>2 DEF EndLast, Goto
      <3>2. \/ pc' = [pc EXCEPT ![p] = "wlog"]
            \/ pc' = [pc EXCEPT ![p] = "done"]
        BY <2>2, LenFacts DEF EndLast, Goto
      <3>3. Cardinality(Ops') = outstanding - 1
        BY <3>1, <3>2, LeaveOps DEF Types
      <3> QED
        BY <3>1, <3>3 DEF CountInv
    <2>3. CASE WriteLog(p)
      <3>1. UNCHANGED outstanding /\ \A q \in Procs : pc'[q] = "op" <=> pc[q] = "op"
        BY <2>3 DEF WriteLog, sleepVars, logVars, ghostVars, Types
      <3> QED
        BY <3>1, SameOps
    <2>4. CASE WriteHead(p)
      <3>1. UNCHANGED outstanding /\ \A q \in Procs : pc'[q] = "op" <=> pc[q] = "op"
        BY <2>4 DEF WriteHead, Goto, sleepVars, logVars, Types
      <3> QED
        BY <3>1, SameOps
    <2>5. CASE Install(p)
      <3>1. UNCHANGED outstanding /\ \A q \in Procs : pc'[q] = "op" <=> pc[q] = "op"
        BY <2>5 DEF Install, sleepVars, logVars, ghostVars, Types
      <3> QED
        BY <3>1, SameOps
    <2>6. CASE Erase(p)
      <3>1. UNCHANGED outstanding /\ \A q \in Procs : pc'[q] = "op" <=> pc[q] = "op"
        BY <2>6 DEF Erase, Goto, sleepVars, ghostVars, Types
      <3> QED
        BY <3>1, SameOps
    <2>7. CASE CommitDone(p)
      <3>1. UNCHANGED outstanding /\ \A q \in Procs : pc'[q] = "op" <=> pc[q] = "op"
        BY <2>7 DEF CommitDone, Goto, WakeupCall, diskVars, ghostVars, Types
      <3> QED
        BY <3>1, SameOps
    <2>8. CASE EndWake(p)
      <3>1. UNCHANGED outstanding /\ \A q \in Procs : pc'[q] = "op" <=> pc[q] = "op"
        BY <2>8 DEF EndWake, wakeup, diskVars, logVars, ghostVars, LogChan,
               Types
      <3> QED
        BY <3>1, SameOps
    <2>9. CASE EndDone(p)
      <3>1. UNCHANGED outstanding /\ \A q \in Procs : pc'[q] = "op" <=> pc[q] = "op"
        BY <2>9 DEF EndDone, Goto, WakeupDone, sleepVars, diskVars, logVars,
               ghostVars, Types
      <3> QED
        BY <3>1, SameOps
    <2> QED
      BY <1>2, <2>1, <2>2, <2>3, <2>4, <2>5, <2>6, <2>7, <2>8, <2>9 DEF end_op
  <1>3. ASSUME NEW p \in Procs, sys_sync(p) PROVE CountInv'
    <2>1. CASE SyncNow(p)
      <3>1. UNCHANGED outstanding /\ \A q \in Procs : pc'[q] = "op" <=> pc[q] = "op"
        BY <2>1 DEF SyncNow, Goto, sleepVars, diskVars, logVars, Types
      <3> QED
        BY <3>1, SameOps
    <2>2. CASE SyncWaits(p)
      <3>1. UNCHANGED outstanding /\ \A q \in Procs : pc'[q] = "op" <=> pc[q] = "op"
        BY <2>2 DEF SyncWaits, Goto, sleep_prepare, diskVars, logVars, LogChan,
               Types
      <3> QED
        BY <3>1, SameOps
    <2>3. CASE SyncAgain(p)
      <3>1. UNCHANGED outstanding /\ \A q \in Procs : pc'[q] = "op" <=> pc[q] = "op"
        BY <2>3 DEF SyncAgain, Goto, Returned, sleep_prepare, diskVars,
               logVars, ghostVars, LogChan, Types
      <3> QED
        BY <3>1, SameOps
    <2>4. CASE SyncDone(p)
      <3>1. UNCHANGED outstanding /\ \A q \in Procs : pc'[q] = "op" <=> pc[q] = "op"
        BY <2>4 DEF SyncDone, Goto, Returned, sleepVars, diskVars, logVars,
               ghostVars, Types
      <3> QED
        BY <3>1, SameOps
    <2>5. CASE SyncReturn(p)
      <3>1. UNCHANGED outstanding /\ \A q \in Procs : pc'[q] = "op" <=> pc[q] = "op"
        BY <2>5 DEF SyncReturn, Goto, sleepVars, diskVars, logVars, Types
      <3> QED
        BY <3>1, SameOps
    <2> QED
      BY <1>3, <2>1, <2>2, <2>3, <2>4, <2>5 DEF sys_sync
  <1>4. ASSUME NEW p \in Procs, Kill(p) PROVE CountInv'
    <2>1. UNCHANGED outstanding /\ \A q \in Procs : pc'[q] = "op" <=> pc[q] = "op"
      BY <1>4 DEF Kill, kkill, diskVars, logVars, ghostVars, Types
    <2> QED
      BY <2>1, SameOps
  <1>5. ASSUME NEW p \in Procs, NEW b \in Blocks, NEW v \in Vals, log_write(p, b, v)
       PROVE  CountInv'
    <2>1. UNCHANGED outstanding /\ \A q \in Procs : pc'[q] = "op" <=> pc[q] = "op"
      BY <1>5 DEF log_write, sleepVars, diskVars, ghostVars, Types
    <2> QED
      BY <2>1, SameOps
  <1>6. CASE Recovery
    <2>1. CASE ReadHead
      <3>1. UNCHANGED outstanding /\ \A q \in Procs : pc'[q] = "op" <=> pc[q] = "op"
        BY <2>1 DEF ReadHead, sleepVars, diskVars, ghostVars, Types
      <3> QED
        BY <3>1, SameOps
    <2>2. CASE RecoverBlock
      <3>1. UNCHANGED outstanding /\ \A q \in Procs : pc'[q] = "op" <=> pc[q] = "op"
        BY <2>2 DEF RecoverBlock, sleepVars, logVars, ghostVars, Types
      <3> QED
        BY <3>1, SameOps
    <2>3. CASE RecoverDone
      <3>1. UNCHANGED outstanding /\ \A q \in Procs : pc'[q] = "op" <=> pc[q] = "op"
        BY <2>3 DEF RecoverDone, sleepVars, ghostVars, Types
      <3> QED
        BY <3>1, SameOps
    <2> QED
      BY <1>6, <2>1, <2>2, <2>3 DEF Recovery
  <1>7. CASE Crash
      <2>1. Ops' = {} /\ outstanding' = 0
        BY <1>7 DEF Crash, Boot, Ops
      <2> QED
        BY <2>1, FS_EmptySet DEF CountInv
  <1>8. CASE UNCHANGED vars
    BY <1>8, SameOps DEF vars, sleepVars, diskVars, logVars, ghostVars, Types
  <1>9. ASSUME NEW p \in Procs, NEW b \in Blocks, TooBig(p, b) PROVE CountInv'
    <2>1. UNCHANGED outstanding /\ \A q \in Procs : pc'[q] = "op" <=> pc[q] = "op"
      BY <1>9 DEF TooBig, sleepVars, diskVars, logVars, ghostVars, Types
    <2> QED
      BY <2>1, SameOps
  <1> QED
    BY <1>1, <1>2, <1>3, <1>4, <1>5, <1>6, <1>7, <1>8, <1>9 DEF Next, Step

LEMMA CommitStep ==
    ASSUME Types, CountInv, CommitInv, [Next]_vars
    PROVE  CommitInv'
  <1> USE SlotFacts, OpsFacts DEF Types, CommitInv, NoCallInCommit, Committers,
          PCs
  <1>1. ASSUME NEW p \in Procs, begin_op(p) \/ BeginWaits(p) \/ Sleep(p)
       PROVE  CommitInv'
    <2>1. CASE begin_op(p)
      BY <2>1 DEF begin_op, Returned, sleepVars, diskVars, ghostVars
    <2>2. CASE BeginWaits(p)
      BY <2>2 DEF BeginWaits, Returned, sleep_prepare, sleep, diskVars,
             logVars, ghostVars, LogChan
    <2>3. CASE Sleep(p)
      BY <2>3 DEF Sleep, Goto, sleep, diskVars, logVars, ghostVars
    <2> QED
      BY <1>1, <2>1, <2>2, <2>3
  <1>2. ASSUME NEW p \in Procs, end_op(p) PROVE CommitInv'
    <2>1. CASE EndOther(p)
      BY <2>1 DEF EndOther, Goto, WakeupCall, diskVars
    <2>2. CASE EndLast(p)
      BY <2>2 DEF EndLast, Goto, sleepVars, diskVars
    <2>3. CASE WriteLog(p)
      BY <2>3 DEF WriteLog, sleepVars, logVars, ghostVars
    <2>4. CASE WriteHead(p)
      BY <2>4 DEF WriteHead, Goto, sleepVars, logVars
    <2>5. CASE Install(p)
      BY <2>5 DEF Install, sleepVars, logVars, ghostVars
    <2>6. CASE Erase(p)
      BY <2>6 DEF Erase, Goto, sleepVars, ghostVars
    <2>7. CASE CommitDone(p)
      BY <2>7 DEF CommitDone, Goto, WakeupCall, diskVars, ghostVars
    <2>8. CASE EndWake(p)
      BY <2>8 DEF EndWake, wakeup, diskVars, logVars, ghostVars, LogChan
    <2>9. CASE EndDone(p)
      BY <2>9 DEF EndDone, Goto, WakeupDone, sleepVars, diskVars, logVars,
             ghostVars
    <2> QED
      BY <1>2, <2>1, <2>2, <2>3, <2>4, <2>5, <2>6, <2>7, <2>8, <2>9 DEF end_op
  <1>3. ASSUME NEW p \in Procs, sys_sync(p) PROVE CommitInv'
    <2>1. CASE SyncNow(p)
      BY <2>1 DEF SyncNow, Goto, sleepVars, diskVars, logVars
    <2>2. CASE SyncWaits(p)
      BY <2>2 DEF SyncWaits, Goto, sleep_prepare, diskVars, logVars, LogChan
    <2>3. CASE SyncAgain(p)
      BY <2>3 DEF SyncAgain, Goto, Returned, sleep_prepare, diskVars, logVars,
             ghostVars, LogChan
    <2>4. CASE SyncDone(p)
      BY <2>4 DEF SyncDone, Goto, Returned, sleepVars, diskVars, logVars,
             ghostVars
    <2>5. CASE SyncReturn(p)
      BY <2>5 DEF SyncReturn, Goto, sleepVars, diskVars, logVars
    <2> QED
      BY <1>3, <2>1, <2>2, <2>3, <2>4, <2>5 DEF sys_sync
  <1>4. ASSUME NEW p \in Procs, Kill(p) PROVE CommitInv'
    BY <1>4 DEF Kill, kkill, diskVars, logVars, ghostVars
  <1>5. ASSUME NEW p \in Procs, NEW b \in Blocks, NEW v \in Vals, log_write(p, b, v)
       PROVE  CommitInv'
    BY <1>5 DEF log_write, sleepVars, diskVars, ghostVars
  <1>6. CASE Recovery
    <2>1. CASE ReadHead
      BY <2>1 DEF ReadHead, sleepVars, diskVars, ghostVars
    <2>2. CASE RecoverBlock
      BY <2>2 DEF RecoverBlock, sleepVars, logVars, ghostVars
    <2>3. CASE RecoverDone
      BY <2>3 DEF RecoverDone, sleepVars, ghostVars
    <2> QED
      BY <1>6, <2>1, <2>2, <2>3 DEF Recovery
  <1>7. CASE Crash
    BY <1>7 DEF Crash, Boot, diskVars
  <1>8. CASE UNCHANGED vars
    BY <1>8 DEF vars, sleepVars, diskVars, logVars, ghostVars
  <1>9. ASSUME NEW p \in Procs, NEW b \in Blocks, TooBig(p, b) PROVE CommitInv'
    BY <1>9 DEF TooBig, sleepVars, diskVars, logVars, ghostVars
  <1> QED
    BY <1>1, <1>2, <1>3, <1>4, <1>5, <1>6, <1>7, <1>8, <1>9 DEF Next, Step

LEMMA EmptyStep ==
    ASSUME Types, DiskTypes, CountInv, CommitInv, EmptyInv, [Next]_vars
    PROVE  EmptyInv'
  <1> USE OpsFacts, LenProperties, EmptySeq DEF Types, DiskTypes, CommitInv,
          NoCallInCommit, Committers, EmptyInv
  <1>1. ASSUME NEW p \in Procs, begin_op(p) \/ BeginWaits(p) \/ Sleep(p)
       PROVE  EmptyInv'
    <2>1. CASE begin_op(p)
      BY <2>1 DEF begin_op, Returned, sleepVars, diskVars, ghostVars
    <2>2. CASE BeginWaits(p)
      BY <2>2 DEF BeginWaits, Returned, sleep_prepare, sleep, diskVars,
             logVars, ghostVars, LogChan
    <2>3. CASE Sleep(p)
      BY <2>3 DEF Sleep, Goto, sleep, diskVars, logVars, ghostVars
    <2> QED
      BY <1>1, <2>1, <2>2, <2>3
  <1>2. ASSUME NEW p \in Procs, end_op(p) PROVE EmptyInv'
    <2>1. CASE EndOther(p)
      BY <2>1 DEF EndOther, Goto, WakeupCall, diskVars
    <2>2. CASE EndLast(p)
      <3>2. committing' /\ (pc'[p] = "done" => n = 0) /\ UNCHANGED block
            /\ \A q \in Procs \ {p} : pc'[q] = pc[q]
        BY <2>2, LenFacts DEF EndLast, Goto
      <3> QED
        BY <3>2, LenFacts
    <2>3. CASE WriteLog(p)
      BY <2>3 DEF WriteLog, sleepVars, logVars, ghostVars
    <2>4. CASE WriteHead(p)
      BY <2>4 DEF WriteHead, Goto, sleepVars, logVars
    <2>5. CASE Install(p)
      BY <2>5 DEF Install, sleepVars, logVars, ghostVars
    <2>6. CASE Erase(p)
      BY <2>6 DEF Erase, Goto, sleepVars, ghostVars
    <2>7. CASE CommitDone(p)
      BY <2>7 DEF CommitDone, Goto, WakeupCall, diskVars, ghostVars
    <2>8. CASE EndWake(p)
      BY <2>8 DEF EndWake, wakeup, diskVars, logVars, ghostVars, LogChan
    <2>9. CASE EndDone(p)
      BY <2>9 DEF EndDone, Goto, WakeupDone, sleepVars, diskVars, logVars,
             ghostVars
    <2> QED
      BY <1>2, <2>1, <2>2, <2>3, <2>4, <2>5, <2>6, <2>7, <2>8, <2>9 DEF end_op
  <1>3. ASSUME NEW p \in Procs, sys_sync(p) PROVE EmptyInv'
    <2>1. CASE SyncNow(p)
      BY <2>1 DEF SyncNow, Goto, sleepVars, diskVars, logVars
    <2>2. CASE SyncWaits(p)
      BY <2>2 DEF SyncWaits, Goto, sleep_prepare, diskVars, logVars, LogChan
    <2>3. CASE SyncAgain(p)
      BY <2>3 DEF SyncAgain, Goto, Returned, sleep_prepare, diskVars, logVars,
             ghostVars, LogChan
    <2>4. CASE SyncDone(p)
      BY <2>4 DEF SyncDone, Goto, Returned, sleepVars, diskVars, logVars,
             ghostVars
    <2>5. CASE SyncReturn(p)
      BY <2>5 DEF SyncReturn, Goto, sleepVars, diskVars, logVars
    <2> QED
      BY <1>3, <2>1, <2>2, <2>3, <2>4, <2>5 DEF sys_sync
  <1>4. ASSUME NEW p \in Procs, Kill(p) PROVE EmptyInv'
    BY <1>4 DEF Kill, kkill, diskVars, logVars, ghostVars
  <1>5. ASSUME NEW p \in Procs, NEW b \in Blocks, NEW v \in Vals, log_write(p, b, v)
       PROVE  EmptyInv'
    BY <1>5 DEF log_write, sleepVars, diskVars, ghostVars
  <1>6. CASE Recovery
    <2>1. CASE ReadHead
      BY <2>1 DEF ReadHead, sleepVars, diskVars, ghostVars
    <2>2. CASE RecoverBlock
      BY <2>2 DEF RecoverBlock, sleepVars, logVars, ghostVars
    <2>3. CASE RecoverDone
      BY <2>3 DEF RecoverDone, sleepVars, ghostVars
    <2> QED
      BY <1>6, <2>1, <2>2, <2>3 DEF Recovery
  <1>7. CASE Crash
    BY <1>7 DEF Crash, Boot, diskVars
  <1>8. CASE UNCHANGED vars
    BY <1>8 DEF vars, sleepVars, diskVars, logVars, ghostVars
  <1>9. ASSUME NEW p \in Procs, NEW b \in Blocks, TooBig(p, b) PROVE EmptyInv'
    BY <1>9 DEF TooBig, sleepVars, diskVars, logVars, ghostVars
  <1> QED
    BY <1>1, <1>2, <1>3, <1>4, <1>5, <1>6, <1>7, <1>8, <1>9 DEF Next, Step

LEMMA HeadStep ==
    ASSUME Types, DiskTypes, CountInv, CommitInv, HeadInv, [Next]_vars
    PROVE  HeadInv'
  <1> USE OpsFacts, LenFacts, DistinctEmpty, DistinctAppend DEF Types,
          DiskTypes, CommitInv, NoCallInCommit, Committers, HeadInv
  <1>1. ASSUME NEW p \in Procs, begin_op(p) \/ BeginWaits(p) \/ Sleep(p)
       PROVE  HeadInv'
    <2>1. CASE begin_op(p)
      BY <2>1 DEF begin_op, Returned, sleepVars, diskVars, ghostVars
    <2>2. CASE BeginWaits(p)
      BY <2>2 DEF BeginWaits, Returned, sleep_prepare, sleep, diskVars,
             logVars, ghostVars, LogChan
    <2>3. CASE Sleep(p)
      BY <2>3 DEF Sleep, Goto, sleep, diskVars, logVars, ghostVars
    <2> QED
      BY <1>1, <2>1, <2>2, <2>3
  <1>2. ASSUME NEW p \in Procs, end_op(p) PROVE HeadInv'
    <2>1. CASE EndOther(p)
      BY <2>1 DEF EndOther, Goto, WakeupCall, diskVars
    <2>2. CASE EndLast(p)
      BY <2>2 DEF EndLast, Goto, sleepVars, diskVars
    <2>3. CASE WriteLog(p)
      BY <2>3 DEF WriteLog, sleepVars, logVars, ghostVars
    <2>4. CASE WriteHead(p)
      BY <2>4 DEF WriteHead, Goto, sleepVars, logVars
    <2>5. CASE Install(p)
      BY <2>5 DEF Install, sleepVars, logVars, ghostVars
    <2>6. CASE Erase(p)
      BY <2>6 DEF Erase, Goto, sleepVars, ghostVars
    <2>7. CASE CommitDone(p)
      BY <2>7 DEF CommitDone, Goto, WakeupCall, diskVars, ghostVars
    <2>8. CASE EndWake(p)
      BY <2>8 DEF EndWake, wakeup, diskVars, logVars, ghostVars, LogChan
    <2>9. CASE EndDone(p)
      BY <2>9 DEF EndDone, Goto, WakeupDone, sleepVars, diskVars, logVars,
             ghostVars
    <2> QED
      BY <1>2, <2>1, <2>2, <2>3, <2>4, <2>5, <2>6, <2>7, <2>8, <2>9 DEF end_op
  <1>3. ASSUME NEW p \in Procs, sys_sync(p) PROVE HeadInv'
    <2>1. CASE SyncNow(p)
      BY <2>1 DEF SyncNow, Goto, sleepVars, diskVars, logVars
    <2>2. CASE SyncWaits(p)
      BY <2>2 DEF SyncWaits, Goto, sleep_prepare, diskVars, logVars, LogChan
    <2>3. CASE SyncAgain(p)
      BY <2>3 DEF SyncAgain, Goto, Returned, sleep_prepare, diskVars, logVars,
             ghostVars, LogChan
    <2>4. CASE SyncDone(p)
      BY <2>4 DEF SyncDone, Goto, Returned, sleepVars, diskVars, logVars,
             ghostVars
    <2>5. CASE SyncReturn(p)
      BY <2>5 DEF SyncReturn, Goto, sleepVars, diskVars, logVars
    <2> QED
      BY <1>3, <2>1, <2>2, <2>3, <2>4, <2>5 DEF sys_sync
  <1>4. ASSUME NEW p \in Procs, Kill(p) PROVE HeadInv'
    BY <1>4 DEF Kill, kkill, diskVars, logVars, ghostVars
  <1>5. ASSUME NEW p \in Procs, NEW b \in Blocks, NEW v \in Vals, log_write(p, b, v)
       PROVE  HeadInv'
    BY <1>5 DEF log_write, sleepVars, diskVars, ghostVars
  <1>6. CASE Recovery
    <2>1. CASE ReadHead
      BY <2>1 DEF ReadHead, sleepVars, diskVars, ghostVars
    <2>2. CASE RecoverBlock
      BY <2>2 DEF RecoverBlock, sleepVars, logVars, ghostVars
    <2>3. CASE RecoverDone
      BY <2>3 DEF RecoverDone, sleepVars, ghostVars
    <2> QED
      BY <1>6, <2>1, <2>2, <2>3 DEF Recovery
  <1>7. CASE Crash
    BY <1>7 DEF Crash, Boot, diskVars
  <1>8. CASE UNCHANGED vars
    BY <1>8 DEF vars, sleepVars, diskVars, logVars, ghostVars
  <1>9. ASSUME NEW p \in Procs, NEW b \in Blocks, TooBig(p, b) PROVE HeadInv'
    BY <1>9 DEF TooBig, sleepVars, diskVars, logVars, ghostVars
  <1> QED
    BY <1>1, <1>2, <1>3, <1>4, <1>5, <1>6, <1>7, <1>8, <1>9 DEF Next, Step

LEMMA CopyStep ==
    ASSUME Types, DiskTypes, CountInv, CommitInv, HeadInv, CopyInv, [Next]_vars
    PROVE  CopyInv'
  <1>1. ASSUME NEW p \in Procs, begin_op(p) \/ BeginWaits(p) \/ Sleep(p)
       PROVE  CopyInv'
    <2>1. CASE begin_op(p)
      <3>1. UNCHANGED <<logdisk, cache, block, tail>>
            /\ \A q \in Procs : pc'[q] \in {"wlog", "install"} => pc'[q] = pc[q]
        BY <2>1 DEF begin_op, Returned, sleepVars, diskVars, ghostVars, Types
      <3> QED
        BY <3>1, CopySame
    <2>2. CASE BeginWaits(p)
      <3>1. UNCHANGED <<logdisk, cache, block, tail>>
            /\ \A q \in Procs : pc'[q] \in {"wlog", "install"} => pc'[q] = pc[q]
        BY <2>2 DEF BeginWaits, Returned, sleep_prepare, sleep, diskVars,
               logVars, ghostVars, LogChan, Types
      <3> QED
        BY <3>1, CopySame
    <2>3. CASE Sleep(p)
      <3>1. UNCHANGED <<logdisk, cache, block, tail>>
            /\ \A q \in Procs : pc'[q] \in {"wlog", "install"} => pc'[q] = pc[q]
        BY <2>3 DEF Sleep, Goto, sleep, diskVars, logVars, ghostVars, Types
      <3> QED
        BY <3>1, CopySame
    <2> QED
      BY <1>1, <2>1, <2>2, <2>3
  <1>2. ASSUME NEW p \in Procs, end_op(p) PROVE CopyInv'
    <2>1. CASE EndOther(p)
      <3>1. UNCHANGED <<logdisk, cache, block, tail>>
            /\ \A q \in Procs : pc'[q] \in {"wlog", "install"} => pc'[q] = pc[q]
        BY <2>1 DEF EndOther, Goto, WakeupCall, diskVars, Types
      <3> QED
        BY <3>1, CopySame
    <2>2. CASE EndLast(p)
      BY <2>2, OpsFacts, LenFacts, LenProperties, AppendProperties DEF EndLast,
             Goto, sleepVars, diskVars, Types, DiskTypes, CommitInv,
             NoCallInCommit, Committers, CopyInv, HeadInv, Distinct, n
    <2>3. CASE WriteLog(p)
      <3>1. /\ tail <= n /\ pc[p] = "wlog" /\ UNCHANGED <<cache, block, pc>>
            /\ tail' = tail + 1
            /\ logdisk' = [logdisk EXCEPT ![tail] = cache[block[tail]]]
        BY <2>3 DEF WriteLog, logVars
      <3>2. tail \in 1..LOGBLOCKS
        BY <3>1, LenFacts, SizeFacts DEF DiskTypes
      <3>3. \A q \in Procs : pc[q] # "install"
        BY <3>1 DEF CommitInv, Committers
      <3>4. \A i \in 1..n : i < tail + 1 => i < tail \/ i = tail
        BY LenFacts DEF DiskTypes
      <3>5. \A i \in 1..n : i < tail' => logdisk'[i] = cache[block[i]]
        BY <3>1, <3>2, <3>4, LenFacts DEF CopyInv, DiskTypes
      <3> QED
        BY <3>1, <3>3, <3>5 DEF CopyInv, n
    <2>4. CASE WriteHead(p)
      BY <2>4, OpsFacts, LenFacts, LenProperties, AppendProperties DEF
             WriteHead, Goto, sleepVars, logVars, Types, DiskTypes, CommitInv,
             NoCallInCommit, Committers, CopyInv, HeadInv, Distinct, n
    <2>5. CASE Install(p)
      BY <2>5, OpsFacts, LenFacts, LenProperties, AppendProperties DEF Install,
             sleepVars, logVars, ghostVars, Types, DiskTypes, CommitInv,
             NoCallInCommit, Committers, CopyInv, HeadInv, Distinct, n
    <2>6. CASE Erase(p)
      BY <2>6, OpsFacts, LenFacts, LenProperties, AppendProperties DEF Erase,
             Goto, sleepVars, ghostVars, Types, DiskTypes, CommitInv,
             NoCallInCommit, Committers, CopyInv, HeadInv, Distinct, n
    <2>7. CASE CommitDone(p)
      BY <2>7, OpsFacts, LenFacts, LenProperties, AppendProperties DEF
             CommitDone, Goto, WakeupCall, diskVars, ghostVars, Types,
             DiskTypes, CommitInv, NoCallInCommit, Committers, CopyInv,
             HeadInv, Distinct, n
    <2>8. CASE EndWake(p)
      <3>1. UNCHANGED <<logdisk, cache, block, tail>>
            /\ \A q \in Procs : pc'[q] \in {"wlog", "install"} => pc'[q] = pc[q]
        BY <2>8 DEF EndWake, wakeup, diskVars, logVars, ghostVars, LogChan,
               Types
      <3> QED
        BY <3>1, CopySame
    <2>9. CASE EndDone(p)
      <3>1. UNCHANGED <<logdisk, cache, block, tail>>
            /\ \A q \in Procs : pc'[q] \in {"wlog", "install"} => pc'[q] = pc[q]
        BY <2>9 DEF EndDone, Goto, WakeupDone, sleepVars, diskVars, logVars,
               ghostVars, Types
      <3> QED
        BY <3>1, CopySame
    <2> QED
      BY <1>2, <2>1, <2>2, <2>3, <2>4, <2>5, <2>6, <2>7, <2>8, <2>9 DEF end_op
  <1>3. ASSUME NEW p \in Procs, sys_sync(p) PROVE CopyInv'
    <2>1. CASE SyncNow(p)
      <3>1. UNCHANGED <<logdisk, cache, block, tail>>
            /\ \A q \in Procs : pc'[q] \in {"wlog", "install"} => pc'[q] = pc[q]
        BY <2>1 DEF SyncNow, Goto, sleepVars, diskVars, logVars, Types
      <3> QED
        BY <3>1, CopySame
    <2>2. CASE SyncWaits(p)
      <3>1. UNCHANGED <<logdisk, cache, block, tail>>
            /\ \A q \in Procs : pc'[q] \in {"wlog", "install"} => pc'[q] = pc[q]
        BY <2>2 DEF SyncWaits, Goto, sleep_prepare, diskVars, logVars, LogChan,
               Types
      <3> QED
        BY <3>1, CopySame
    <2>3. CASE SyncAgain(p)
      <3>1. UNCHANGED <<logdisk, cache, block, tail>>
            /\ \A q \in Procs : pc'[q] \in {"wlog", "install"} => pc'[q] = pc[q]
        BY <2>3 DEF SyncAgain, Goto, Returned, sleep_prepare, diskVars,
               logVars, ghostVars, LogChan, Types
      <3> QED
        BY <3>1, CopySame
    <2>4. CASE SyncDone(p)
      <3>1. UNCHANGED <<logdisk, cache, block, tail>>
            /\ \A q \in Procs : pc'[q] \in {"wlog", "install"} => pc'[q] = pc[q]
        BY <2>4 DEF SyncDone, Goto, Returned, sleepVars, diskVars, logVars,
               ghostVars, Types
      <3> QED
        BY <3>1, CopySame
    <2>5. CASE SyncReturn(p)
      <3>1. UNCHANGED <<logdisk, cache, block, tail>>
            /\ \A q \in Procs : pc'[q] \in {"wlog", "install"} => pc'[q] = pc[q]
        BY <2>5 DEF SyncReturn, Goto, sleepVars, diskVars, logVars, Types
      <3> QED
        BY <3>1, CopySame
    <2> QED
      BY <1>3, <2>1, <2>2, <2>3, <2>4, <2>5 DEF sys_sync
  <1>4. ASSUME NEW p \in Procs, Kill(p) PROVE CopyInv'
    <2>1. UNCHANGED <<logdisk, cache, block, tail>>
            /\ \A q \in Procs : pc'[q] \in {"wlog", "install"} => pc'[q] = pc[q]
      BY <1>4 DEF Kill, kkill, diskVars, logVars, ghostVars, Types
    <2> QED
      BY <2>1, CopySame
  <1>5. ASSUME NEW p \in Procs, NEW b \in Blocks, NEW v \in Vals, log_write(p, b, v)
       PROVE  CopyInv'
    BY <1>5, OpsFacts, LenFacts, LenProperties, AppendProperties DEF log_write,
           sleepVars, diskVars, ghostVars, Types, DiskTypes, CommitInv,
           NoCallInCommit, Committers, CopyInv, HeadInv, Distinct, n
  <1>6. CASE Recovery
    <2>1. CASE ReadHead
      BY <2>1, OpsFacts, LenFacts, LenProperties, AppendProperties DEF
             ReadHead, sleepVars, diskVars, ghostVars, Types, DiskTypes,
             CommitInv, NoCallInCommit, Committers, CopyInv, HeadInv, Distinct,
             n
    <2>2. CASE RecoverBlock
      BY <2>2, OpsFacts, LenFacts, LenProperties, AppendProperties DEF
             RecoverBlock, sleepVars, logVars, ghostVars, Types, DiskTypes,
             CommitInv, NoCallInCommit, Committers, CopyInv, HeadInv, Distinct,
             n
    <2>3. CASE RecoverDone
      BY <2>3, OpsFacts, LenFacts, LenProperties, AppendProperties DEF
             RecoverDone, sleepVars, ghostVars, Types, DiskTypes, CommitInv,
             NoCallInCommit, Committers, CopyInv, HeadInv, Distinct, n
    <2> QED
      BY <1>6, <2>1, <2>2, <2>3 DEF Recovery
  <1>7. CASE Crash
    BY <1>7, OpsFacts, LenFacts, LenProperties, AppendProperties DEF Crash,
           Boot, diskVars, Types, DiskTypes, CommitInv, NoCallInCommit,
           Committers, CopyInv, HeadInv, Distinct, n
  <1>8. CASE UNCHANGED vars
    BY <1>8, CopySame DEF vars, sleepVars, diskVars, logVars, ghostVars, Types
  <1>9. ASSUME NEW p \in Procs, NEW b \in Blocks, TooBig(p, b) PROVE CopyInv'
    <2>1. UNCHANGED <<logdisk, cache, block, tail>>
            /\ \A q \in Procs : pc'[q] \in {"wlog", "install"} => pc'[q] = pc[q]
      BY <1>9 DEF TooBig, sleepVars, diskVars, logVars, ghostVars, Types
    <2> QED
      BY <2>1, CopySame
  <1> QED
    BY <1>1, <1>2, <1>3, <1>4, <1>5, <1>6, <1>7, <1>8, <1>9 DEF Next, Step

LEMMA HomeStep ==
    ASSUME Types, DiskTypes, CountInv, CommitInv, HeadInv, CopyInv, HomeInv,
           [Next]_vars
    PROVE  HomeInv'
  <1>1. ASSUME NEW p \in Procs, begin_op(p) \/ BeginWaits(p) \/ Sleep(p)
       PROVE  HomeInv'
    <2>1. CASE begin_op(p)
      <3>1. UNCHANGED <<home, logdisk, block, tail, rec>>
            /\ \A q \in Procs : pc'[q] = "install" => pc[q] = "install"
        BY <2>1 DEF begin_op, Returned, sleepVars, diskVars, ghostVars, Types
      <3> QED
        BY <3>1, HomeSame
    <2>2. CASE BeginWaits(p)
      <3>1. UNCHANGED <<home, logdisk, block, tail, rec>>
            /\ \A q \in Procs : pc'[q] = "install" => pc[q] = "install"
        BY <2>2 DEF BeginWaits, Returned, sleep_prepare, sleep, diskVars,
               logVars, ghostVars, LogChan, Types
      <3> QED
        BY <3>1, HomeSame
    <2>3. CASE Sleep(p)
      <3>1. UNCHANGED <<home, logdisk, block, tail, rec>>
            /\ \A q \in Procs : pc'[q] = "install" => pc[q] = "install"
        BY <2>3 DEF Sleep, Goto, sleep, diskVars, logVars, ghostVars, Types
      <3> QED
        BY <3>1, HomeSame
    <2> QED
      BY <1>1, <2>1, <2>2, <2>3
  <1>2. ASSUME NEW p \in Procs, end_op(p) PROVE HomeInv'
    <2>1. CASE EndOther(p)
      <3>1. UNCHANGED <<home, logdisk, block, tail, rec>>
            /\ \A q \in Procs : pc'[q] = "install" => pc[q] = "install"
        BY <2>1 DEF EndOther, Goto, WakeupCall, diskVars, Types
      <3> QED
        BY <3>1, HomeSame
    <2>2. CASE EndLast(p)
      BY <2>2, OpsFacts, LenFacts, LenProperties, AppendProperties DEF EndLast,
             Goto, sleepVars, diskVars, Types, DiskTypes, CommitInv,
             NoCallInCommit, Committers, HomeInv, HeadInv, Distinct, n
    <2>3. CASE WriteLog(p)
      BY <2>3, OpsFacts, LenFacts, LenProperties, AppendProperties DEF
             WriteLog, sleepVars, logVars, ghostVars, Types, DiskTypes,
             CommitInv, NoCallInCommit, Committers, HomeInv, HeadInv, Distinct,
             n
    <2>4. CASE WriteHead(p)
      BY <2>4, OpsFacts, LenFacts, LenProperties, AppendProperties DEF
             WriteHead, Goto, sleepVars, logVars, Types, DiskTypes, CommitInv,
             NoCallInCommit, Committers, HomeInv, HeadInv, Distinct, n
    <2>5. CASE Install(p)
      <3>1. /\ tail <= n /\ pc[p] = "install" /\ UNCHANGED <<logdisk, block, pc, rec>>
            /\ tail' = tail + 1
            /\ home' = [home EXCEPT ![block[tail]] = logdisk[tail]]
        BY <2>5 DEF Install, logVars
      <3>2. tail \in 1..n /\ \A i \in 1..n : i < tail + 1 => i < tail \/ i = tail
        BY <3>1, LenFacts, SizeFacts DEF DiskTypes
      <3>3. \A i \in 1..n : block[i] \in Blocks /\ (i # tail => block[i] # block[tail])
        BY <3>2, LenProperties DEF HeadInv, Distinct, n, DiskTypes
      <3>4. \A i \in 1..n : i < tail' => home'[block[i]] = logdisk[i]
        BY <3>1, <3>2, <3>3, LenFacts DEF HomeInv, DiskTypes
      <3> QED
        BY <3>1, <3>4 DEF HomeInv, n
    <2>6. CASE Erase(p)
      BY <2>6, OpsFacts, LenFacts, LenProperties, AppendProperties DEF Erase,
             Goto, sleepVars, ghostVars, Types, DiskTypes, CommitInv,
             NoCallInCommit, Committers, HomeInv, HeadInv, Distinct, n
    <2>7. CASE CommitDone(p)
      BY <2>7, OpsFacts, LenFacts, LenProperties, AppendProperties DEF
             CommitDone, Goto, WakeupCall, diskVars, ghostVars, Types,
             DiskTypes, CommitInv, NoCallInCommit, Committers, HomeInv,
             HeadInv, Distinct, n
    <2>8. CASE EndWake(p)
      <3>1. UNCHANGED <<home, logdisk, block, tail, rec>>
            /\ \A q \in Procs : pc'[q] = "install" => pc[q] = "install"
        BY <2>8 DEF EndWake, wakeup, diskVars, logVars, ghostVars, LogChan,
               Types
      <3> QED
        BY <3>1, HomeSame
    <2>9. CASE EndDone(p)
      <3>1. UNCHANGED <<home, logdisk, block, tail, rec>>
            /\ \A q \in Procs : pc'[q] = "install" => pc[q] = "install"
        BY <2>9 DEF EndDone, Goto, WakeupDone, sleepVars, diskVars, logVars,
               ghostVars, Types
      <3> QED
        BY <3>1, HomeSame
    <2> QED
      BY <1>2, <2>1, <2>2, <2>3, <2>4, <2>5, <2>6, <2>7, <2>8, <2>9 DEF end_op
  <1>3. ASSUME NEW p \in Procs, sys_sync(p) PROVE HomeInv'
    <2>1. CASE SyncNow(p)
      <3>1. UNCHANGED <<home, logdisk, block, tail, rec>>
            /\ \A q \in Procs : pc'[q] = "install" => pc[q] = "install"
        BY <2>1 DEF SyncNow, Goto, sleepVars, diskVars, logVars, Types
      <3> QED
        BY <3>1, HomeSame
    <2>2. CASE SyncWaits(p)
      <3>1. UNCHANGED <<home, logdisk, block, tail, rec>>
            /\ \A q \in Procs : pc'[q] = "install" => pc[q] = "install"
        BY <2>2 DEF SyncWaits, Goto, sleep_prepare, diskVars, logVars, LogChan,
               Types
      <3> QED
        BY <3>1, HomeSame
    <2>3. CASE SyncAgain(p)
      <3>1. UNCHANGED <<home, logdisk, block, tail, rec>>
            /\ \A q \in Procs : pc'[q] = "install" => pc[q] = "install"
        BY <2>3 DEF SyncAgain, Goto, Returned, sleep_prepare, diskVars,
               logVars, ghostVars, LogChan, Types
      <3> QED
        BY <3>1, HomeSame
    <2>4. CASE SyncDone(p)
      <3>1. UNCHANGED <<home, logdisk, block, tail, rec>>
            /\ \A q \in Procs : pc'[q] = "install" => pc[q] = "install"
        BY <2>4 DEF SyncDone, Goto, Returned, sleepVars, diskVars, logVars,
               ghostVars, Types
      <3> QED
        BY <3>1, HomeSame
    <2>5. CASE SyncReturn(p)
      <3>1. UNCHANGED <<home, logdisk, block, tail, rec>>
            /\ \A q \in Procs : pc'[q] = "install" => pc[q] = "install"
        BY <2>5 DEF SyncReturn, Goto, sleepVars, diskVars, logVars, Types
      <3> QED
        BY <3>1, HomeSame
    <2> QED
      BY <1>3, <2>1, <2>2, <2>3, <2>4, <2>5 DEF sys_sync
  <1>4. ASSUME NEW p \in Procs, Kill(p) PROVE HomeInv'
    <2>1. UNCHANGED <<home, logdisk, block, tail, rec>>
            /\ \A q \in Procs : pc'[q] = "install" => pc[q] = "install"
      BY <1>4 DEF Kill, kkill, diskVars, logVars, ghostVars, Types
    <2> QED
      BY <2>1, HomeSame
  <1>5. ASSUME NEW p \in Procs, NEW b \in Blocks, NEW v \in Vals, log_write(p, b, v)
       PROVE  HomeInv'
    BY <1>5, OpsFacts, LenFacts, LenProperties, AppendProperties DEF log_write,
           sleepVars, diskVars, ghostVars, Types, DiskTypes, CommitInv,
           NoCallInCommit, Committers, HomeInv, HeadInv, Distinct, n
  <1>6. CASE Recovery
    <2>1. CASE ReadHead
      BY <2>1, OpsFacts, LenFacts, LenProperties, AppendProperties DEF
             ReadHead, sleepVars, diskVars, ghostVars, Types, DiskTypes,
             CommitInv, NoCallInCommit, Committers, HomeInv, HeadInv, Distinct,
             n
    <2>2. CASE RecoverBlock
      BY <2>2, OpsFacts, LenFacts, LenProperties, AppendProperties DEF
             RecoverBlock, sleepVars, logVars, ghostVars, Types, DiskTypes,
             CommitInv, NoCallInCommit, Committers, HomeInv, HeadInv, Distinct,
             n
    <2>3. CASE RecoverDone
      BY <2>3, OpsFacts, LenFacts, LenProperties, AppendProperties DEF
             RecoverDone, sleepVars, ghostVars, Types, DiskTypes, CommitInv,
             NoCallInCommit, Committers, HomeInv, HeadInv, Distinct, n
    <2> QED
      BY <1>6, <2>1, <2>2, <2>3 DEF Recovery
  <1>7. CASE Crash
    BY <1>7, OpsFacts, LenFacts, LenProperties, AppendProperties DEF Crash,
           Boot, diskVars, Types, DiskTypes, CommitInv, NoCallInCommit,
           Committers, HomeInv, HeadInv, Distinct, n
  <1>8. CASE UNCHANGED vars
    BY <1>8, HomeSame DEF vars, sleepVars, diskVars, logVars, ghostVars, Types
  <1>9. ASSUME NEW p \in Procs, NEW b \in Blocks, TooBig(p, b) PROVE HomeInv'
    <2>1. UNCHANGED <<home, logdisk, block, tail, rec>>
            /\ \A q \in Procs : pc'[q] = "install" => pc[q] = "install"
      BY <1>9 DEF TooBig, sleepVars, diskVars, logVars, ghostVars, Types
    <2> QED
      BY <2>1, HomeSame
  <1> QED
    BY <1>1, <1>2, <1>3, <1>4, <1>5, <1>6, <1>7, <1>8, <1>9 DEF Next, Step

LEMMA CacheStep ==
    ASSUME Types, DiskTypes, CountInv, CommitInv, HeadInv, CopyInv, HomeInv,
           CacheInv, [Next]_vars
    PROVE  CacheInv'
  <1>1. ASSUME NEW p \in Procs, begin_op(p) \/ BeginWaits(p) \/ Sleep(p)
       PROVE  CacheInv'
    <2>1. CASE begin_op(p)
      <3>1. UNCHANGED <<home, cache, block, rec>>
        BY <2>1 DEF begin_op, Returned, sleepVars, diskVars, ghostVars, Types
      <3> QED
        BY <3>1, CacheSame
    <2>2. CASE BeginWaits(p)
      <3>1. UNCHANGED <<home, cache, block, rec>>
        BY <2>2 DEF BeginWaits, Returned, sleep_prepare, sleep, diskVars,
               logVars, ghostVars, LogChan, Types
      <3> QED
        BY <3>1, CacheSame
    <2>3. CASE Sleep(p)
      <3>1. UNCHANGED <<home, cache, block, rec>>
        BY <2>3 DEF Sleep, Goto, sleep, diskVars, logVars, ghostVars, Types
      <3> QED
        BY <3>1, CacheSame
    <2> QED
      BY <1>1, <2>1, <2>2, <2>3
  <1>2. ASSUME NEW p \in Procs, end_op(p) PROVE CacheInv'
    <2>1. CASE EndOther(p)
      <3>1. UNCHANGED <<home, cache, block, rec>>
        BY <2>1 DEF EndOther, Goto, WakeupCall, diskVars, Types
      <3> QED
        BY <3>1, CacheSame
    <2>2. CASE EndLast(p)
      <3>1. UNCHANGED <<home, cache, block, rec>>
        BY <2>2 DEF EndLast, Goto, sleepVars, diskVars, Types
      <3> QED
        BY <3>1, CacheSame
    <2>3. CASE WriteLog(p)
      <3>1. UNCHANGED <<home, cache, block, rec>>
        BY <2>3 DEF WriteLog, sleepVars, logVars, ghostVars, Types
      <3> QED
        BY <3>1, CacheSame
    <2>4. CASE WriteHead(p)
      <3>1. UNCHANGED <<home, cache, block, rec>>
        BY <2>4 DEF WriteHead, Goto, sleepVars, logVars, Types
      <3> QED
        BY <3>1, CacheSame
    <2>5. CASE Install(p)
      BY <2>5, OpsFacts, LenFacts, LenProperties, AppendProperties DEF Install,
             sleepVars, logVars, ghostVars, Types, DiskTypes, CommitInv,
             NoCallInCommit, Committers, CopyInv, HomeInv, HeadInv, CacheInv,
             Logged, Distinct, n
    <2>6. CASE Erase(p)
      <3>1. tail > n /\ pc[p] = "install" /\ UNCHANGED <<home, cache, rec>>
        BY <2>6 DEF Erase, Goto
      <3>2. \A i \in 1..n : cache[block[i]] = home[block[i]]
        BY <3>1, LenFacts DEF CopyInv, HomeInv, DiskTypes
      <3> QED
        BY <3>1, <3>2 DEF CacheInv, Logged
    <2>7. CASE CommitDone(p)
      <3>1. UNCHANGED <<home, cache, block, rec>>
        BY <2>7 DEF CommitDone, Goto, WakeupCall, diskVars, ghostVars, Types
      <3> QED
        BY <3>1, CacheSame
    <2>8. CASE EndWake(p)
      <3>1. UNCHANGED <<home, cache, block, rec>>
        BY <2>8 DEF EndWake, wakeup, diskVars, logVars, ghostVars, LogChan,
               Types
      <3> QED
        BY <3>1, CacheSame
    <2>9. CASE EndDone(p)
      <3>1. UNCHANGED <<home, cache, block, rec>>
        BY <2>9 DEF EndDone, Goto, WakeupDone, sleepVars, diskVars, logVars,
               ghostVars, Types
      <3> QED
        BY <3>1, CacheSame
    <2> QED
      BY <1>2, <2>1, <2>2, <2>3, <2>4, <2>5, <2>6, <2>7, <2>8, <2>9 DEF end_op
  <1>3. ASSUME NEW p \in Procs, sys_sync(p) PROVE CacheInv'
    <2>1. CASE SyncNow(p)
      <3>1. UNCHANGED <<home, cache, block, rec>>
        BY <2>1 DEF SyncNow, Goto, sleepVars, diskVars, logVars, Types
      <3> QED
        BY <3>1, CacheSame
    <2>2. CASE SyncWaits(p)
      <3>1. UNCHANGED <<home, cache, block, rec>>
        BY <2>2 DEF SyncWaits, Goto, sleep_prepare, diskVars, logVars, LogChan,
               Types
      <3> QED
        BY <3>1, CacheSame
    <2>3. CASE SyncAgain(p)
      <3>1. UNCHANGED <<home, cache, block, rec>>
        BY <2>3 DEF SyncAgain, Goto, Returned, sleep_prepare, diskVars,
               logVars, ghostVars, LogChan, Types
      <3> QED
        BY <3>1, CacheSame
    <2>4. CASE SyncDone(p)
      <3>1. UNCHANGED <<home, cache, block, rec>>
        BY <2>4 DEF SyncDone, Goto, Returned, sleepVars, diskVars, logVars,
               ghostVars, Types
      <3> QED
        BY <3>1, CacheSame
    <2>5. CASE SyncReturn(p)
      <3>1. UNCHANGED <<home, cache, block, rec>>
        BY <2>5 DEF SyncReturn, Goto, sleepVars, diskVars, logVars, Types
      <3> QED
        BY <3>1, CacheSame
    <2> QED
      BY <1>3, <2>1, <2>2, <2>3, <2>4, <2>5 DEF sys_sync
  <1>4. ASSUME NEW p \in Procs, Kill(p) PROVE CacheInv'
    <2>1. UNCHANGED <<home, cache, block, rec>>
      BY <1>4 DEF Kill, kkill, diskVars, logVars, ghostVars, Types
    <2> QED
      BY <2>1, CacheSame
  <1>5. ASSUME NEW p \in Procs, NEW b \in Blocks, NEW v \in Vals, log_write(p, b, v)
       PROVE  CacheInv'
      <2>1. /\ cache' = [cache EXCEPT ![b] = v] /\ UNCHANGED <<home, rec>>
            /\ block' = IF Logged(b) THEN block ELSE Append(block, b)
        BY <1>5 DEF log_write, diskVars
      <2>2. \A a \in Blocks : Logged(a) \/ a = b => Logged(a)'
        BY <2>1, LenProperties, AppendProperties DEF Logged, n, DiskTypes
      <2> QED
        BY <2>1, <2>2 DEF CacheInv, DiskTypes
  <1>6. CASE Recovery
    <2>1. CASE ReadHead
      BY <2>1, OpsFacts, LenFacts, LenProperties, AppendProperties DEF
             ReadHead, sleepVars, diskVars, ghostVars, Types, DiskTypes,
             CommitInv, NoCallInCommit, Committers, CopyInv, HomeInv, HeadInv,
             CacheInv, Logged, Distinct, n
    <2>2. CASE RecoverBlock
      BY <2>2, OpsFacts, LenFacts, LenProperties, AppendProperties DEF
             RecoverBlock, sleepVars, logVars, ghostVars, Types, DiskTypes,
             CommitInv, NoCallInCommit, Committers, CopyInv, HomeInv, HeadInv,
             CacheInv, Logged, Distinct, n
    <2>3. CASE RecoverDone
      BY <2>3, OpsFacts, LenFacts, LenProperties, AppendProperties DEF
             RecoverDone, sleepVars, ghostVars, Types, DiskTypes, CommitInv,
             NoCallInCommit, Committers, CopyInv, HomeInv, HeadInv, CacheInv,
             Logged, Distinct, n
    <2> QED
      BY <1>6, <2>1, <2>2, <2>3 DEF Recovery
  <1>7. CASE Crash
    BY <1>7, OpsFacts, LenFacts, LenProperties, AppendProperties DEF Crash,
           Boot, diskVars, Types, DiskTypes, CommitInv, NoCallInCommit,
           Committers, CopyInv, HomeInv, HeadInv, CacheInv, Logged, Distinct, n
  <1>8. CASE UNCHANGED vars
    BY <1>8, CacheSame DEF vars, sleepVars, diskVars, logVars, ghostVars, Types
  <1>9. ASSUME NEW p \in Procs, NEW b \in Blocks, TooBig(p, b) PROVE CacheInv'
    <2>1. UNCHANGED <<home, cache, block, rec>>
      BY <1>9 DEF TooBig, sleepVars, diskVars, logVars, ghostVars, Types
    <2> QED
      BY <2>1, CacheSame
  <1> QED
    BY <1>1, <1>2, <1>3, <1>4, <1>5, <1>6, <1>7, <1>8, <1>9 DEF Next, Step

-----------------------------------------------------------------------------
(* What recovery makes of the disk *)

\* struct log and the disk agree
IInv == /\ Types /\ DiskTypes /\ CountInv /\ CommitInv /\ EmptyInv
        /\ HeadInv /\ CopyInv /\ HomeInv /\ CacheInv

Rec(h, ld, hm) == [b \in Blocks |->
    IF \E i \in 1..Len(h) : h[i] = b
    THEN ld[CHOOSE i \in 1..Len(h) : h[i] = b] ELSE hm[b]]

Mem == IF rec = "up" THEN cache ELSE Recovered

LEMMA RecIs ==
    /\ Recovered = Rec(head, logdisk, home)
    /\ Recovered' = Rec(head', logdisk', home')
  BY DEF Recovered, Rec

LEMMA RecEq ==
    ASSUME NEW h, NEW ld, NEW hm, NEW f \in [Blocks -> Vals], Distinct(h),
           \A i \in 1..Len(h) : f[h[i]] = ld[i],
           \A b \in Blocks : (\A i \in 1..Len(h) : h[i] # b) => f[b] = hm[b]
    PROVE  Rec(h, ld, hm) = f
  <1>1. ASSUME NEW b \in Blocks PROVE Rec(h, ld, hm)[b] = f[b]
    <2>1. CASE \A i \in 1..Len(h) : h[i] # b
      BY <2>1 DEF Rec
    <2>2. CASE \E i \in 1..Len(h) : h[i] = b
      <3>1. PICK i \in 1..Len(h) : i = CHOOSE j \in 1..Len(h) : h[j] = b
        BY <2>2
      <3>2. h[i] = b
        BY <2>2, <3>1
      <3> QED
        BY <2>2, <3>1, <3>2 DEF Rec
    <2> QED
      BY <2>1, <2>2
  <1> QED
    BY <1>1 DEF Rec

LEMMA RecEmpty ==
    ASSUME NEW ld, NEW hm \in [Blocks -> Vals]
    PROVE  Rec(<<>>, ld, hm) = hm
  <1>1. \A i \in 1..Len(<<>>) : FALSE
    BY EmptySeq
  <1> QED
    BY <1>1, RecEq, DistinctEmpty

\* to write the home block of a block in the log changes nothing
LEMMA RecHome ==
    ASSUME NEW h, NEW ld, NEW hm, NEW new, NEW k \in 1..Len(h),
           \A b \in Blocks : b # h[k] => new[b] = hm[b]
    PROVE  Rec(h, ld, new) = Rec(h, ld, hm)
  BY DEF Rec

\* what a step of the log is to the atomic disk
Refines ==
    \/ UNCHANGED <<Mem, Recovered, Ops>>
    \/ \E c \in Procs : /\ c \notin Ops /\ Ops' = Ops \cup {c}
                        /\ UNCHANGED <<Mem, Recovered>>
    \/ \E c \in Procs : /\ c \in Ops /\ Ops' = Ops \ {c}
                        /\ UNCHANGED <<Mem, Recovered>>
    \/ \E c \in Procs, b \in Blocks, v \in Vals :
           /\ c \in Ops /\ Mem' = [Mem EXCEPT ![b] = v]
           /\ UNCHANGED <<Recovered, Ops>>
    \/ Ops = {} /\ Recovered' = Mem /\ UNCHANGED <<Mem, Ops>>
    \/ Mem' = Recovered /\ Ops' = {} /\ UNCHANGED Recovered

LEMMA SameDisk ==
    ASSUME UNCHANGED <<diskVars, cache, rec>>
    PROVE  UNCHANGED <<Mem, Recovered>>
  BY DEF Mem, Recovered, diskVars

LEMMA QuietStep ==
    ASSUME UNCHANGED <<diskVars, cache, rec>>,
           \A q \in Procs : pc'[q] = "op" <=> pc[q] = "op"
    PROVE  Refines
  <1>1. Ops' = Ops
    BY DEF Ops
  <1> QED
    BY <1>1, SameDisk DEF Refines


LEMMA RefineStep ==
    ASSUME IInv, [Next]_vars
    PROVE  Refines
  <1>1. ASSUME NEW p \in Procs, begin_op(p) \/ BeginWaits(p) \/ Sleep(p)
       PROVE  Refines
    <2>1. CASE begin_op(p)
      <3>1. UNCHANGED <<diskVars, cache, rec>> /\ pc[p] # "op" /\ pc' = [pc EXCEPT ![p] = "op"]
        BY <2>1 DEF begin_op, Returned
      <3>2. p \notin Ops /\ Ops' = Ops \cup {p}
        BY <3>1 DEF Ops, IInv, Types
      <3> QED
        BY <3>1, <3>2, SameDisk DEF Refines
    <2>2. CASE BeginWaits(p)
      <3>1. UNCHANGED <<diskVars, cache, rec>>
            /\ \A q \in Procs : pc'[q] = "op" <=> pc[q] = "op"
        BY <2>2 DEF BeginWaits, Returned, sleep_prepare, sleep, diskVars,
               logVars, ghostVars, LogChan, IInv, Types
      <3> QED
        BY <3>1, QuietStep
    <2>3. CASE Sleep(p)
      <3>1. UNCHANGED <<diskVars, cache, rec>>
            /\ \A q \in Procs : pc'[q] = "op" <=> pc[q] = "op"
        BY <2>3 DEF Sleep, Goto, sleep, diskVars, logVars, ghostVars, IInv,
               Types
      <3> QED
        BY <3>1, QuietStep
    <2> QED
      BY <1>1, <2>1, <2>2, <2>3
  <1>2. ASSUME NEW p \in Procs, end_op(p) PROVE Refines
    <2>1. CASE EndOther(p)
      <3>1. UNCHANGED <<diskVars, cache, rec>> /\ pc[p] = "op" /\ pc' = [pc EXCEPT ![p] = "endwake"]
        BY <2>1 DEF EndOther, Goto
      <3>2. p \in Ops /\ Ops' = Ops \ {p}
        BY <3>1 DEF Ops, IInv, Types
      <3> QED
        BY <3>1, <3>2, SameDisk DEF Refines
    <2>2. CASE EndLast(p)
      <3>1. UNCHANGED <<diskVars, cache, rec>> /\ pc[p] = "op"
            /\ (pc' = [pc EXCEPT ![p] = "wlog"] \/ pc' = [pc EXCEPT ![p] = "done"])
        BY <2>2, LenFacts DEF EndLast, Goto, IInv
      <3>2. p \in Ops /\ Ops' = Ops \ {p}
        BY <3>1 DEF Ops, IInv, Types
      <3> QED
        BY <3>1, <3>2, SameDisk DEF Refines
    <2>3. CASE WriteLog(p)
      <3>1. UNCHANGED <<home, head, cache, rec, pc>> /\ pc[p] = "wlog"
        BY <2>3 DEF WriteLog, logVars
      <3>2. head = <<>> /\ rec = "up"
        BY <3>1 DEF IInv, CommitInv, Committers, HeadInv, Types
      <3>3. UNCHANGED Recovered
        BY <3>1, <3>2, RecIs, RecEmpty DEF IInv, DiskTypes
      <3> QED
        BY <3>1, <3>2, <3>3 DEF Refines, Mem, Ops
    <2>4. CASE WriteHead(p)
      <3>1. /\ UNCHANGED <<home, logdisk, cache, rec>> /\ pc[p] = "wlog" /\ tail > n
            /\ pc' = [pc EXCEPT ![p] = "install"] /\ head' = block
        BY <2>4 DEF WriteHead, Goto
      <3>2. rec = "up" /\ committing
        BY <3>1 DEF IInv, CommitInv, Committers, Types
      <3>3. Ops = {} /\ Ops' = {}
        BY <3>1, <3>2 DEF IInv, CommitInv, NoCallInCommit, Ops, Types
      <3>4. \A i \in 1..Len(block) : cache[block[i]] = logdisk[i]
        BY <3>1, LenFacts DEF IInv, CopyInv, DiskTypes, n
      <3>5. \A b \in Blocks : (\A i \in 1..Len(block) : block[i] # b) => cache[b] = home[b]
        BY <3>2 DEF IInv, CacheInv, Logged, n
      <3>6. Rec(block, logdisk, home) = cache
        BY <3>4, <3>5, RecEq DEF IInv, DiskTypes, HeadInv
      <3> QED
        BY <3>1, <3>2, <3>3, <3>6, RecIs DEF Refines, Mem
    <2>5. CASE Install(p)
      <3>1. /\ UNCHANGED <<logdisk, head, rec, pc>> /\ pc[p] = "install" /\ tail <= n
            /\ home' = [home EXCEPT ![block[tail]] = logdisk[tail]]
            /\ cache' = [cache EXCEPT ![block[tail]] = logdisk[tail]]
        BY <2>5 DEF Install
      <3>2. tail \in 1..n /\ tail \in 1..Len(head) /\ block[tail] = head[tail]
        BY <3>1, LenFacts DEF IInv, HeadInv, DiskTypes, n
      <3>3. block[tail] \in Blocks /\ cache[block[tail]] = logdisk[tail]
        BY <3>1, <3>2, LenProperties DEF IInv, CopyInv, DiskTypes, n
      <3>4. cache' = cache
        BY <3>1, <3>3 DEF IInv, DiskTypes
      <3>5. home' = [home EXCEPT ![head[tail]] = logdisk[tail]] /\ home \in [Blocks -> Vals]
        BY <3>1, <3>2 DEF IInv, DiskTypes
      <3>6. Rec(head, logdisk, home') = Rec(head, logdisk, home)
        <4>1. \A b \in Blocks : b # head[tail] => home'[b] = home[b]
          BY <3>5
        <4> QED
          BY <3>2, <4>1, RecHome
      <3> QED
        BY <3>1, <3>4, <3>6, RecIs DEF Refines, Mem, Ops
    <2>6. CASE Erase(p)
      <3>1. /\ UNCHANGED <<home, logdisk, cache, rec>> /\ pc[p] = "install" /\ tail > n
            /\ pc' = [pc EXCEPT ![p] = "done"] /\ head' = <<>>
        BY <2>6 DEF Erase, Goto
      <3>2. UNCHANGED Ops
        BY <3>1 DEF IInv, Types, Ops
      <3>3. rec = "up" /\ head = block
        BY <3>1 DEF IInv, CommitInv, Committers, HeadInv, Types
      <3>4. \A i \in 1..Len(head) : home[head[i]] = logdisk[i]
        BY <3>1, <3>3, LenFacts DEF IInv, HomeInv, DiskTypes, n
      <3>5. Rec(head, logdisk, home) = home /\ Rec(<<>>, logdisk, home) = home
        BY <3>4, RecEq, RecEmpty DEF IInv, DiskTypes, HeadInv
      <3> QED
        BY <3>1, <3>2, <3>3, <3>5, RecIs DEF Refines, Mem
    <2>7. CASE CommitDone(p)
      <3>1. UNCHANGED <<diskVars, cache, rec>>
            /\ \A q \in Procs : pc'[q] = "op" <=> pc[q] = "op"
        BY <2>7 DEF CommitDone, Goto, WakeupCall, diskVars, ghostVars, IInv,
               Types
      <3> QED
        BY <3>1, QuietStep
    <2>8. CASE EndWake(p)
      <3>1. UNCHANGED <<diskVars, cache, rec>>
            /\ \A q \in Procs : pc'[q] = "op" <=> pc[q] = "op"
        BY <2>8 DEF EndWake, wakeup, diskVars, logVars, ghostVars, LogChan,
               IInv, Types
      <3> QED
        BY <3>1, QuietStep
    <2>9. CASE EndDone(p)
      <3>1. UNCHANGED <<diskVars, cache, rec>>
            /\ \A q \in Procs : pc'[q] = "op" <=> pc[q] = "op"
        BY <2>9 DEF EndDone, Goto, WakeupDone, sleepVars, diskVars, logVars,
               ghostVars, IInv, Types
      <3> QED
        BY <3>1, QuietStep
    <2> QED
      BY <1>2, <2>1, <2>2, <2>3, <2>4, <2>5, <2>6, <2>7, <2>8, <2>9 DEF end_op
  <1>3. ASSUME NEW p \in Procs, sys_sync(p) PROVE Refines
    <2>1. CASE SyncNow(p)
      <3>1. UNCHANGED <<diskVars, cache, rec>>
            /\ \A q \in Procs : pc'[q] = "op" <=> pc[q] = "op"
        BY <2>1 DEF SyncNow, Goto, sleepVars, diskVars, logVars, IInv, Types
      <3> QED
        BY <3>1, QuietStep
    <2>2. CASE SyncWaits(p)
      <3>1. UNCHANGED <<diskVars, cache, rec>>
            /\ \A q \in Procs : pc'[q] = "op" <=> pc[q] = "op"
        BY <2>2 DEF SyncWaits, Goto, sleep_prepare, diskVars, logVars, LogChan,
               IInv, Types
      <3> QED
        BY <3>1, QuietStep
    <2>3. CASE SyncAgain(p)
      <3>1. UNCHANGED <<diskVars, cache, rec>>
            /\ \A q \in Procs : pc'[q] = "op" <=> pc[q] = "op"
        BY <2>3 DEF SyncAgain, Goto, Returned, sleep_prepare, diskVars,
               logVars, ghostVars, LogChan, IInv, Types
      <3> QED
        BY <3>1, QuietStep
    <2>4. CASE SyncDone(p)
      <3>1. UNCHANGED <<diskVars, cache, rec>>
            /\ \A q \in Procs : pc'[q] = "op" <=> pc[q] = "op"
        BY <2>4 DEF SyncDone, Goto, Returned, sleepVars, diskVars, logVars,
               ghostVars, IInv, Types
      <3> QED
        BY <3>1, QuietStep
    <2>5. CASE SyncReturn(p)
      <3>1. UNCHANGED <<diskVars, cache, rec>>
            /\ \A q \in Procs : pc'[q] = "op" <=> pc[q] = "op"
        BY <2>5 DEF SyncReturn, Goto, sleepVars, diskVars, logVars, IInv, Types
      <3> QED
        BY <3>1, QuietStep
    <2> QED
      BY <1>3, <2>1, <2>2, <2>3, <2>4, <2>5 DEF sys_sync
  <1>4. ASSUME NEW p \in Procs, Kill(p) PROVE Refines
    <2>1. UNCHANGED <<diskVars, cache, rec>>
            /\ \A q \in Procs : pc'[q] = "op" <=> pc[q] = "op"
      BY <1>4 DEF Kill, kkill, diskVars, logVars, ghostVars, IInv, Types
    <2> QED
      BY <2>1, QuietStep
  <1>5. ASSUME NEW p \in Procs, NEW b \in Blocks, NEW v \in Vals, log_write(p, b, v)
       PROVE  Refines
      <2>1. UNCHANGED <<diskVars, rec, pc>> /\ pc[p] = "op" /\ cache' = [cache EXCEPT ![b] = v]
        BY <1>5 DEF log_write
      <2>2. p \in Ops /\ UNCHANGED <<Ops, Recovered>>
        BY <2>1 DEF Ops, Recovered, diskVars
      <2>3. rec = "up"
        BY <2>1 DEF IInv, CommitInv, Types
      <2> QED
        BY <2>1, <2>2, <2>3 DEF Refines, Mem
  <1>6. CASE Recovery
    <2>1. CASE ReadHead
      <3>1. UNCHANGED <<diskVars, pc>> /\ rec # "up" /\ rec' # "up"
        BY <2>1 DEF ReadHead
      <3> QED
        BY <3>1 DEF Refines, Mem, Ops, Recovered, diskVars
    <2>2. CASE RecoverBlock
      <3>1. /\ UNCHANGED <<logdisk, head, rec, pc>> /\ rec = "install" /\ tail <= n
            /\ home' = [home EXCEPT ![block[tail]] = logdisk[tail]]
        BY <2>2 DEF RecoverBlock
      <3>2. tail \in 1..Len(head) /\ block[tail] = head[tail]
        BY <3>1, LenFacts DEF IInv, HeadInv, DiskTypes, n
      <3>3. home' = [home EXCEPT ![head[tail]] = logdisk[tail]] /\ home \in [Blocks -> Vals]
        BY <3>1, <3>2 DEF IInv, DiskTypes
      <3>4. Rec(head, logdisk, home') = Rec(head, logdisk, home)
        <4>1. \A b \in Blocks : b # head[tail] => home'[b] = home[b]
          BY <3>3
        <4> QED
          BY <3>2, <4>1, RecHome
      <3> QED
        BY <3>1, <3>4, RecIs DEF Refines, Mem, Ops
    <2>3. CASE RecoverDone
      <3>1. /\ UNCHANGED <<home, logdisk, pc>> /\ rec = "install" /\ tail > n
            /\ rec' = "up" /\ head' = <<>> /\ cache' = home
        BY <2>3 DEF RecoverDone
      <3>2. head = block
        BY <3>1 DEF IInv, HeadInv
      <3>3. \A i \in 1..Len(head) : home[head[i]] = logdisk[i]
        BY <3>1, <3>2, LenFacts DEF IInv, HomeInv, DiskTypes, n
      <3>4. Rec(head, logdisk, home) = home /\ Rec(<<>>, logdisk, home) = home
        BY <3>3, RecEq, RecEmpty DEF IInv, DiskTypes, HeadInv
      <3> QED
        BY <3>1, <3>4, RecIs DEF Refines, Mem, Ops
    <2> QED
      BY <1>6, <2>1, <2>2, <2>3 DEF Recovery
  <1>7. CASE Crash
      <2>1. UNCHANGED diskVars /\ rec' # "up" /\ Ops' = {}
        BY <1>7 DEF Crash, Boot, Ops
      <2> QED
        BY <2>1 DEF Refines, Mem, Recovered, diskVars
  <1>8. CASE UNCHANGED vars
    BY <1>8, QuietStep DEF vars, sleepVars, diskVars, logVars, ghostVars, IInv,
           Types
  <1>9. ASSUME NEW p \in Procs, NEW b \in Blocks, TooBig(p, b) PROVE Refines
    <2>1. UNCHANGED <<diskVars, cache, rec>>
            /\ \A q \in Procs : pc'[q] = "op" <=> pc[q] = "op"
      BY <1>9 DEF TooBig, sleepVars, diskVars, logVars, ghostVars, IInv, Types
    <2> QED
      BY <2>1, QuietStep
  <1> QED
    BY <1>1, <1>2, <1>3, <1>4, <1>5, <1>6, <1>7, <1>8, <1>9 DEF Next, Step

-----------------------------------------------------------------------------
(* sys_sync() *)

\* what ended calls have logged is in the log, and its commit is still to come
Owing ==
    /\ unsaved # {} => /\ n > 0
                       /\ outstanding > 0 \/ \E p \in Procs : pc[p] = "wlog"
    /\ \A p \in Procs : mine[p] # {} => pc[p] = "op" /\ n > 0

OwedInv == \A p \in Procs :
    /\ owed[p] \subseteq unsaved
    /\ pc[p] = "synced" => owed[p] = {}
    /\ pc[p] \in {"ssleep", "sasleep"} /\ due[p] => owed[p] = {}

SyncInv == Owing /\ OwedInv

LEMMA SleepOwing ==
    ASSUME Types, Owing, NEW p \in Procs, Sleep(p)
    PROVE  Owing'
  <1>1. UNCHANGED <<block, outstanding, mine, unsaved>>
    BY DEF Sleep, logVars, ghostVars
  <1>2. \A q \in Procs : /\ pc[q] = "wlog" => pc'[q] = "wlog"
                         /\ pc[q] = "op" => pc'[q] = "op"
    BY DEF Sleep, Goto, Types
  <1> QED
    BY <1>1, <1>2 DEF Owing, n


LEMMA SyncStep ==
    ASSUME IInv, SyncInv, [Next]_vars
    PROVE  SyncInv'
  <1> USE OpsFacts, LenFacts, LenProperties, EmptySeq, AppendProperties DEF
          IInv, Types, DiskTypes, CommitInv, NoCallInCommit, Committers,
          SyncInv, Owing, OwedInv, n
  <1>1. ASSUME NEW p \in Procs, begin_op(p) \/ BeginWaits(p) \/ Sleep(p)
       PROVE  SyncInv'
    <2>1. CASE begin_op(p)
      BY <2>1 DEF begin_op, Returned, sleepVars, diskVars, ghostVars
    <2>2. CASE BeginWaits(p)
      BY <2>2 DEF BeginWaits, Returned, sleep_prepare, sleep, diskVars,
             logVars, ghostVars, LogChan
    <2>3. CASE Sleep(p)
      <3>1. UNCHANGED <<block, outstanding, mine, unsaved, owed, due>>
        BY <2>3 DEF Sleep, logVars, ghostVars
      <3>2. \A q \in Procs : \/ pc'[q] = pc[q]
                             \/ pc[q] = "sleep" /\ pc'[q] = "asleep"
                             \/ pc[q] = "ssleep" /\ pc'[q] = "sasleep"
        BY <2>3 DEF Sleep, Goto
      <3>3. Owing'
        BY <2>3, SleepOwing
      <3>4. OwedInv'
        BY <3>1, <3>2
      <3> QED
        BY <3>3, <3>4
    <2> QED
      BY <1>1, <2>1, <2>2, <2>3
  <1>2. ASSUME NEW p \in Procs, end_op(p) PROVE SyncInv'
    <2>1. CASE EndOther(p)
      BY <2>1 DEF EndOther, Goto, WakeupCall, diskVars
    <2>2. CASE EndLast(p)
      BY <2>2 DEF EndLast, Goto, sleepVars, diskVars
    <2>3. CASE WriteLog(p)
      BY <2>3 DEF WriteLog, sleepVars, logVars, ghostVars
    <2>4. CASE WriteHead(p)
      BY <2>4 DEF WriteHead, Goto, sleepVars, logVars
    <2>5. CASE Install(p)
      BY <2>5 DEF Install, sleepVars, logVars, ghostVars
    <2>6. CASE Erase(p)
      BY <2>6 DEF Erase, Goto, sleepVars, ghostVars
    <2>7. CASE CommitDone(p)
      BY <2>7 DEF CommitDone, Goto, WakeupCall, diskVars, ghostVars
    <2>8. CASE EndWake(p)
      BY <2>8 DEF EndWake, wakeup, diskVars, logVars, ghostVars, LogChan
    <2>9. CASE EndDone(p)
      BY <2>9 DEF EndDone, Goto, WakeupDone, sleepVars, diskVars, logVars,
             ghostVars
    <2> QED
      BY <1>2, <2>1, <2>2, <2>3, <2>4, <2>5, <2>6, <2>7, <2>8, <2>9 DEF end_op
  <1>3. ASSUME NEW p \in Procs, sys_sync(p) PROVE SyncInv'
    <2>1. CASE SyncNow(p)
      BY <2>1 DEF SyncNow, Goto, sleepVars, diskVars, logVars
    <2>2. CASE SyncWaits(p)
      BY <2>2 DEF SyncWaits, Goto, sleep_prepare, diskVars, logVars, LogChan
    <2>3. CASE SyncAgain(p)
      BY <2>3 DEF SyncAgain, Goto, Returned, sleep_prepare, diskVars, logVars,
             ghostVars, LogChan
    <2>4. CASE SyncDone(p)
      BY <2>4 DEF SyncDone, Goto, Returned, sleepVars, diskVars, logVars,
             ghostVars
    <2>5. CASE SyncReturn(p)
      BY <2>5 DEF SyncReturn, Goto, sleepVars, diskVars, logVars
    <2> QED
      BY <1>3, <2>1, <2>2, <2>3, <2>4, <2>5 DEF sys_sync
  <1>4. ASSUME NEW p \in Procs, Kill(p) PROVE SyncInv'
    BY <1>4 DEF Kill, kkill, diskVars, logVars, ghostVars
  <1>5. ASSUME NEW p \in Procs, NEW b \in Blocks, NEW v \in Vals, log_write(p, b, v)
       PROVE  SyncInv'
      <2>1. /\ UNCHANGED <<outstanding, pc, unsaved, owed, due>> /\ pc[p] = "op"
            /\ \A q \in Procs : mine'[q] # {} => q = p \/ mine[q] # {}
            /\ block' = IF Logged(b) THEN block ELSE Append(block, b)
        BY <1>5 DEF log_write, ghostVars
      <2>2. Len(block') > 0 /\ (Len(block) > 0 => Len(block') > 0)
        BY <2>1 DEF Logged
      <2> QED
        BY <2>1, <2>2
  <1>6. CASE Recovery
    <2>1. CASE ReadHead
      BY <2>1 DEF ReadHead, sleepVars, diskVars, ghostVars
    <2>2. CASE RecoverBlock
      BY <2>2 DEF RecoverBlock, sleepVars, logVars, ghostVars
    <2>3. CASE RecoverDone
      BY <2>3 DEF RecoverDone, sleepVars, ghostVars
    <2> QED
      BY <1>6, <2>1, <2>2, <2>3 DEF Recovery
  <1>7. CASE Crash
    BY <1>7 DEF Crash, Boot, diskVars
  <1>8. CASE UNCHANGED vars
    BY <1>8 DEF vars, sleepVars, diskVars, logVars, ghostVars
  <1>9. ASSUME NEW p \in Procs, NEW b \in Blocks, TooBig(p, b) PROVE SyncInv'
    BY <1>9 DEF TooBig, sleepVars, diskVars, logVars, ghostVars
  <1> QED
    BY <1>1, <1>2, <1>3, <1>4, <1>5, <1>6, <1>7, <1>8, <1>9 DEF Next, Step

-----------------------------------------------------------------------------
(* wakeup(&log) *)

\* whoever sleeps does so on log's address, in a call that waits
ChanInv == \A p \in Procs :
    state[p] = "SLEEPING" => chan[p] = LogChan /\ pc[p] \in {"asleep", "sasleep"}

\* p has registered its channel, and is asleep or will be unless it is woken up
BeginWaiting(p) == \/ pc[p] = "sleep" /\ chan[p] = LogChan
                   \/ pc[p] = "asleep" /\ state[p] = "SLEEPING"
SyncWaiting(p)  == \/ pc[p] = "ssleep" /\ chan[p] = LogChan
                   \/ pc[p] = "sasleep" /\ state[p] = "SLEEPING"

BeginInv  == \A p \in Procs : BeginWaiting(p) =>
                committing \/ (NoSpace /\ outstanding > 0) \/ Coming(p)
SyncerInv == \A p \in Procs : SyncWaiting(p) => ~due[p] \/ Coming(p)

\* the commit that a sys_sync() waits for is still to come
DueInv == \A p \in Procs :
    pc[p] \in {"ssleep", "sasleep"} => due[p] \/ committing \/ outstanding > 0

WaitInv == ChanInv /\ DueInv /\ BeginInv /\ SyncerInv

LEMMA BeginSame ==
    ASSUME BeginInv, UNCHANGED <<block, outstanding, committing>>,
           \A q \in Procs : BeginWaiting(q)' => BeginWaiting(q),
           \A q \in Procs : pc[q] = "endwake" => pc'[q] = "endwake" /\ scan'[q] = scan[q]
    PROVE  BeginInv'
  <1>1. \A q \in Procs : Coming(q) => Coming(q)'
    BY DEF Coming
  <1> QED
    BY <1>1 DEF BeginInv, NoSpace, n

LEMMA SyncSame ==
    ASSUME SyncerInv,
           \A q \in Procs : SyncWaiting(q)' =>
               (SyncWaiting(q) /\ UNCHANGED due[q]) \/ ~due'[q],
           \A q \in Procs : pc[q] = "endwake" => pc'[q] = "endwake" /\ scan'[q] = scan[q]
    PROVE  SyncerInv'
  <1>1. \A q \in Procs : Coming(q) => Coming(q)'
    BY DEF Coming
  <1> QED
    BY <1>1 DEF SyncerInv


LEMMA ChanStep ==
    ASSUME IInv, ChanInv, [Next]_vars
    PROVE  ChanInv'
  <1> USE SlotFacts DEF IInv, Types, ChanInv
  <1>1. ASSUME NEW p \in Procs, begin_op(p) \/ BeginWaits(p) \/ Sleep(p)
       PROVE  ChanInv'
    <2>1. CASE begin_op(p)
      BY <2>1 DEF begin_op, Returned, sleepVars, diskVars, ghostVars
    <2>2. CASE BeginWaits(p)
      BY <2>2 DEF BeginWaits, Returned, sleep_prepare, sleep, diskVars,
             logVars, ghostVars, LogChan
    <2>3. CASE Sleep(p)
      BY <2>3 DEF Sleep, Goto, sleep, diskVars, logVars, ghostVars
    <2> QED
      BY <1>1, <2>1, <2>2, <2>3
  <1>2. ASSUME NEW p \in Procs, end_op(p) PROVE ChanInv'
    <2>1. CASE EndOther(p)
      BY <2>1 DEF EndOther, Goto, WakeupCall, diskVars
    <2>2. CASE EndLast(p)
      BY <2>2 DEF EndLast, Goto, sleepVars, diskVars
    <2>3. CASE WriteLog(p)
      BY <2>3 DEF WriteLog, sleepVars, logVars, ghostVars
    <2>4. CASE WriteHead(p)
      BY <2>4 DEF WriteHead, Goto, sleepVars, logVars
    <2>5. CASE Install(p)
      BY <2>5 DEF Install, sleepVars, logVars, ghostVars
    <2>6. CASE Erase(p)
      BY <2>6 DEF Erase, Goto, sleepVars, ghostVars
    <2>7. CASE CommitDone(p)
      BY <2>7 DEF CommitDone, Goto, WakeupCall, diskVars, ghostVars
    <2>8. CASE EndWake(p)
      BY <2>8 DEF EndWake, wakeup, diskVars, logVars, ghostVars, LogChan
    <2>9. CASE EndDone(p)
      BY <2>9 DEF EndDone, Goto, WakeupDone, sleepVars, diskVars, logVars,
             ghostVars
    <2> QED
      BY <1>2, <2>1, <2>2, <2>3, <2>4, <2>5, <2>6, <2>7, <2>8, <2>9 DEF end_op
  <1>3. ASSUME NEW p \in Procs, sys_sync(p) PROVE ChanInv'
    <2>1. CASE SyncNow(p)
      BY <2>1 DEF SyncNow, Goto, sleepVars, diskVars, logVars
    <2>2. CASE SyncWaits(p)
      BY <2>2 DEF SyncWaits, Goto, sleep_prepare, diskVars, logVars, LogChan
    <2>3. CASE SyncAgain(p)
      BY <2>3 DEF SyncAgain, Goto, Returned, sleep_prepare, diskVars, logVars,
             ghostVars, LogChan
    <2>4. CASE SyncDone(p)
      BY <2>4 DEF SyncDone, Goto, Returned, sleepVars, diskVars, logVars,
             ghostVars
    <2>5. CASE SyncReturn(p)
      BY <2>5 DEF SyncReturn, Goto, sleepVars, diskVars, logVars
    <2> QED
      BY <1>3, <2>1, <2>2, <2>3, <2>4, <2>5 DEF sys_sync
  <1>4. ASSUME NEW p \in Procs, Kill(p) PROVE ChanInv'
    BY <1>4 DEF Kill, kkill, diskVars, logVars, ghostVars
  <1>5. ASSUME NEW p \in Procs, NEW b \in Blocks, NEW v \in Vals, log_write(p, b, v)
       PROVE  ChanInv'
    BY <1>5 DEF log_write, sleepVars, diskVars, ghostVars
  <1>6. CASE Recovery
    <2>1. CASE ReadHead
      BY <2>1 DEF ReadHead, sleepVars, diskVars, ghostVars
    <2>2. CASE RecoverBlock
      BY <2>2 DEF RecoverBlock, sleepVars, logVars, ghostVars
    <2>3. CASE RecoverDone
      BY <2>3 DEF RecoverDone, sleepVars, ghostVars
    <2> QED
      BY <1>6, <2>1, <2>2, <2>3 DEF Recovery
  <1>7. CASE Crash
    BY <1>7 DEF Crash, Boot, diskVars
  <1>8. CASE UNCHANGED vars
    BY <1>8 DEF vars, sleepVars, diskVars, logVars, ghostVars
  <1>9. ASSUME NEW p \in Procs, NEW b \in Blocks, TooBig(p, b) PROVE ChanInv'
    BY <1>9 DEF TooBig, sleepVars, diskVars, logVars, ghostVars
  <1> QED
    BY <1>1, <1>2, <1>3, <1>4, <1>5, <1>6, <1>7, <1>8, <1>9 DEF Next, Step

LEMMA DueStep ==
    ASSUME IInv, DueInv, [Next]_vars
    PROVE  DueInv'
  <1> USE OpsFacts DEF IInv, Types, CommitInv, Committers, DueInv
  <1>1. ASSUME NEW p \in Procs, begin_op(p) \/ BeginWaits(p) \/ Sleep(p)
       PROVE  DueInv'
    <2>1. CASE begin_op(p)
      BY <2>1 DEF begin_op, Returned, sleepVars, diskVars, ghostVars
    <2>2. CASE BeginWaits(p)
      BY <2>2 DEF BeginWaits, Returned, sleep_prepare, sleep, diskVars,
             logVars, ghostVars, LogChan
    <2>3. CASE Sleep(p)
      BY <2>3 DEF Sleep, Goto, sleep, diskVars, logVars, ghostVars
    <2> QED
      BY <1>1, <2>1, <2>2, <2>3
  <1>2. ASSUME NEW p \in Procs, end_op(p) PROVE DueInv'
    <2>1. CASE EndOther(p)
      BY <2>1 DEF EndOther, Goto, WakeupCall, diskVars
    <2>2. CASE EndLast(p)
      BY <2>2 DEF EndLast, Goto, sleepVars, diskVars
    <2>3. CASE WriteLog(p)
      BY <2>3 DEF WriteLog, sleepVars, logVars, ghostVars
    <2>4. CASE WriteHead(p)
      BY <2>4 DEF WriteHead, Goto, sleepVars, logVars
    <2>5. CASE Install(p)
      BY <2>5 DEF Install, sleepVars, logVars, ghostVars
    <2>6. CASE Erase(p)
      BY <2>6 DEF Erase, Goto, sleepVars, ghostVars
    <2>7. CASE CommitDone(p)
      BY <2>7 DEF CommitDone, Goto, WakeupCall, diskVars, ghostVars
    <2>8. CASE EndWake(p)
      BY <2>8 DEF EndWake, wakeup, diskVars, logVars, ghostVars, LogChan
    <2>9. CASE EndDone(p)
      BY <2>9 DEF EndDone, Goto, WakeupDone, sleepVars, diskVars, logVars,
             ghostVars
    <2> QED
      BY <1>2, <2>1, <2>2, <2>3, <2>4, <2>5, <2>6, <2>7, <2>8, <2>9 DEF end_op
  <1>3. ASSUME NEW p \in Procs, sys_sync(p) PROVE DueInv'
    <2>1. CASE SyncNow(p)
      BY <2>1 DEF SyncNow, Goto, sleepVars, diskVars, logVars
    <2>2. CASE SyncWaits(p)
      BY <2>2 DEF SyncWaits, Goto, sleep_prepare, diskVars, logVars, LogChan
    <2>3. CASE SyncAgain(p)
      BY <2>3 DEF SyncAgain, Goto, Returned, sleep_prepare, diskVars, logVars,
             ghostVars, LogChan
    <2>4. CASE SyncDone(p)
      BY <2>4 DEF SyncDone, Goto, Returned, sleepVars, diskVars, logVars,
             ghostVars
    <2>5. CASE SyncReturn(p)
      BY <2>5 DEF SyncReturn, Goto, sleepVars, diskVars, logVars
    <2> QED
      BY <1>3, <2>1, <2>2, <2>3, <2>4, <2>5 DEF sys_sync
  <1>4. ASSUME NEW p \in Procs, Kill(p) PROVE DueInv'
    BY <1>4 DEF Kill, kkill, diskVars, logVars, ghostVars
  <1>5. ASSUME NEW p \in Procs, NEW b \in Blocks, NEW v \in Vals, log_write(p, b, v)
       PROVE  DueInv'
    BY <1>5 DEF log_write, sleepVars, diskVars, ghostVars
  <1>6. CASE Recovery
    <2>1. CASE ReadHead
      BY <2>1 DEF ReadHead, sleepVars, diskVars, ghostVars
    <2>2. CASE RecoverBlock
      BY <2>2 DEF RecoverBlock, sleepVars, logVars, ghostVars
    <2>3. CASE RecoverDone
      BY <2>3 DEF RecoverDone, sleepVars, ghostVars
    <2> QED
      BY <1>6, <2>1, <2>2, <2>3 DEF Recovery
  <1>7. CASE Crash
    BY <1>7 DEF Crash, Boot, diskVars
  <1>8. CASE UNCHANGED vars
    BY <1>8 DEF vars, sleepVars, diskVars, logVars, ghostVars
  <1>9. ASSUME NEW p \in Procs, NEW b \in Blocks, TooBig(p, b) PROVE DueInv'
    BY <1>9 DEF TooBig, sleepVars, diskVars, logVars, ghostVars
  <1> QED
    BY <1>1, <1>2, <1>3, <1>4, <1>5, <1>6, <1>7, <1>8, <1>9 DEF Next, Step

LEMMA BeginStep ==
    ASSUME IInv, ChanInv, BeginInv, [Next]_vars
    PROVE  BeginInv'
  <1>1. ASSUME NEW p \in Procs, begin_op(p) \/ BeginWaits(p) \/ Sleep(p)
       PROVE  BeginInv'
    <2>1. CASE begin_op(p)
      BY <2>1, SlotFacts, OpsFacts DEF begin_op, Returned, sleepVars, diskVars,
             ghostVars, IInv, Types, CommitInv, Committers, ChanInv, BeginInv,
             BeginWaiting, Coming
    <2>2. CASE BeginWaits(p)
      <3>1. committing \/ (NoSpace /\ outstanding > 0)
        <4>1. committing \/ NoSpace
          BY <2>2 DEF BeginWaits
        <4>2. ASSUME ~committing, outstanding = 0 PROVE ~NoSpace
          <5>1. n = 0
            BY <2>2, <4>2, LenFacts DEF BeginWaits, IInv, EmptyInv
          <5> QED
            BY <4>2, <5>1, SizeFacts DEF NoSpace
        <4> QED
          BY <4>1, <4>2, OpsFacts DEF IInv
      <3>2. /\ UNCHANGED <<block, outstanding, committing>>
            /\ \A q \in Procs : BeginWaiting(q)' => BeginWaiting(q) \/ q = p
            /\ \A q \in Procs : pc[q] = "endwake" => pc'[q] = "endwake" /\ scan'[q] = scan[q]
        BY <2>2 DEF BeginWaits, Returned, sleep_prepare, logVars, BeginWaiting, IInv, Types
      <3>3. \A q \in Procs : BeginWaiting(q)' =>
                committing \/ (NoSpace /\ outstanding > 0) \/ Coming(q)
        BY <3>1, <3>2 DEF BeginInv
      <3>4. \A q \in Procs : Coming(q) => Coming(q)'
        BY <3>2 DEF Coming
      <3> QED
        BY <3>2, <3>3, <3>4 DEF BeginInv, NoSpace, n
    <2>3. CASE Sleep(p)
      <3>1. UNCHANGED <<block, outstanding, committing, scan, chan>>
        BY <2>3 DEF Sleep, sleep, logVars
      <3>2. \A q \in Procs : \/ UNCHANGED <<pc[q], state[q]>>
                             \/ /\ pc[q] = "sleep" /\ pc'[q] = "asleep"
                                /\ chan[q] # NoChan \/ UNCHANGED state[q]
                             \/ pc[q] = "ssleep" /\ pc'[q] = "sasleep"
        BY <2>3 DEF Sleep, Goto, sleep, IInv, Types
      <3>3. \A q \in Procs : state[q] = "SLEEPING" => pc[q] # "sleep"
        BY DEF ChanInv
      <3>4. \A q \in Procs : BeginWaiting(q)' => BeginWaiting(q)
        BY <3>1, <3>2, <3>3 DEF BeginWaiting, IInv, Types
      <3> QED
        BY <3>1, <3>2, <3>4, BeginSame
    <2> QED
      BY <1>1, <2>1, <2>2, <2>3
  <1>2. ASSUME NEW p \in Procs, end_op(p) PROVE BeginInv'
    <2>1. CASE EndOther(p)
      BY <2>1, SlotFacts, OpsFacts DEF EndOther, Goto, WakeupCall, diskVars,
             IInv, Types, CommitInv, Committers, ChanInv, BeginInv,
             BeginWaiting, Coming
    <2>2. CASE EndLast(p)
      BY <2>2, SlotFacts, OpsFacts DEF EndLast, Goto, sleepVars, diskVars,
             IInv, Types, CommitInv, Committers, ChanInv, BeginInv,
             BeginWaiting, Coming
    <2>3. CASE WriteLog(p)
      <3>1. UNCHANGED <<block, outstanding, committing>>
            /\ (\A q \in Procs : BeginWaiting(q)' => BeginWaiting(q))
            /\ \A q \in Procs : pc[q] = "endwake" => pc'[q] = "endwake" /\ scan'[q] = scan[q]
        BY <2>3 DEF WriteLog, sleepVars, logVars, ghostVars, BeginWaiting,
               IInv, Types
      <3> QED
        BY <3>1, BeginSame
    <2>4. CASE WriteHead(p)
      <3>1. UNCHANGED <<block, outstanding, committing>>
            /\ (\A q \in Procs : BeginWaiting(q)' => BeginWaiting(q))
            /\ \A q \in Procs : pc[q] = "endwake" => pc'[q] = "endwake" /\ scan'[q] = scan[q]
        BY <2>4 DEF WriteHead, Goto, sleepVars, logVars, BeginWaiting, IInv,
               Types
      <3> QED
        BY <3>1, BeginSame
    <2>5. CASE Install(p)
      <3>1. UNCHANGED <<block, outstanding, committing>>
            /\ (\A q \in Procs : BeginWaiting(q)' => BeginWaiting(q))
            /\ \A q \in Procs : pc[q] = "endwake" => pc'[q] = "endwake" /\ scan'[q] = scan[q]
        BY <2>5 DEF Install, sleepVars, logVars, ghostVars, BeginWaiting, IInv,
               Types
      <3> QED
        BY <3>1, BeginSame
    <2>6. CASE Erase(p)
      BY <2>6, SlotFacts, OpsFacts DEF Erase, Goto, sleepVars, ghostVars, IInv,
             Types, CommitInv, Committers, ChanInv, BeginInv, BeginWaiting,
             Coming
    <2>7. CASE CommitDone(p)
      BY <2>7, SlotFacts, OpsFacts DEF CommitDone, Goto, WakeupCall, diskVars,
             ghostVars, IInv, Types, CommitInv, Committers, ChanInv, BeginInv,
             BeginWaiting, Coming
    <2>8. CASE EndWake(p)
      <3> DEFINE r == scan[p]
      <3>1. /\ r \in Procs /\ pc[p] = "endwake" /\ scan' = [scan EXCEPT ![p] = r + 1]
            /\ UNCHANGED <<block, outstanding, committing, pc, due>>
        BY <2>8 DEF EndWake, wakeup, logVars
      <3>2. \A q \in Procs : BeginWaiting(q)' => BeginWaiting(q) /\ q # r
        BY <2>8 DEF EndWake, wakeup, BeginWaiting, ChanInv, NoChan, LogChan, IInv, Types
      <3>3. \A q \in Procs : Coming(q) /\ q # r => Coming(q)'
        BY <3>1, SlotFacts DEF Coming, IInv, Types
      <3> QED
        BY <3>1, <3>2, <3>3 DEF BeginInv, NoSpace, n
    <2>9. CASE EndDone(p)
      <3>1. /\ scan[p] = N + 1 /\ pc[p] = "endwake" /\ pc' = [pc EXCEPT ![p] = "idle"]
            /\ UNCHANGED <<block, outstanding, committing, due, scan, state, chan>>
        BY <2>9 DEF EndDone, Goto, WakeupDone, sleepVars, logVars
      <3>2. \A q \in Procs : BeginWaiting(q)' => BeginWaiting(q)
        BY <3>1 DEF BeginWaiting, IInv, Types
      <3>3. \A q \in Procs : Coming(q) => Coming(q)'
        BY <3>1, SlotFacts DEF Coming, IInv, Types
      <3> QED
        BY <3>1, <3>2, <3>3 DEF BeginInv, NoSpace, n
    <2> QED
      BY <1>2, <2>1, <2>2, <2>3, <2>4, <2>5, <2>6, <2>7, <2>8, <2>9 DEF end_op
  <1>3. ASSUME NEW p \in Procs, sys_sync(p) PROVE BeginInv'
    <2>1. CASE SyncNow(p)
      <3>1. UNCHANGED <<block, outstanding, committing>>
            /\ (\A q \in Procs : BeginWaiting(q)' => BeginWaiting(q))
            /\ \A q \in Procs : pc[q] = "endwake" => pc'[q] = "endwake" /\ scan'[q] = scan[q]
        BY <2>1 DEF SyncNow, Goto, sleepVars, diskVars, logVars, BeginWaiting,
               IInv, Types
      <3> QED
        BY <3>1, BeginSame
    <2>2. CASE SyncWaits(p)
      <3>1. UNCHANGED <<block, outstanding, committing>>
            /\ (\A q \in Procs : BeginWaiting(q)' => BeginWaiting(q))
            /\ \A q \in Procs : pc[q] = "endwake" => pc'[q] = "endwake" /\ scan'[q] = scan[q]
        BY <2>2 DEF SyncWaits, Goto, sleep_prepare, diskVars, logVars, LogChan,
               BeginWaiting, IInv, Types
      <3> QED
        BY <3>1, BeginSame
    <2>3. CASE SyncAgain(p)
      <3>1. UNCHANGED <<block, outstanding, committing>>
            /\ (\A q \in Procs : BeginWaiting(q)' => BeginWaiting(q))
            /\ \A q \in Procs : pc[q] = "endwake" => pc'[q] = "endwake" /\ scan'[q] = scan[q]
        BY <2>3 DEF SyncAgain, Goto, Returned, sleep_prepare, diskVars,
               logVars, ghostVars, LogChan, BeginWaiting, IInv, Types
      <3> QED
        BY <3>1, BeginSame
    <2>4. CASE SyncDone(p)
      <3>1. UNCHANGED <<block, outstanding, committing>>
            /\ (\A q \in Procs : BeginWaiting(q)' => BeginWaiting(q))
            /\ \A q \in Procs : pc[q] = "endwake" => pc'[q] = "endwake" /\ scan'[q] = scan[q]
        BY <2>4 DEF SyncDone, Goto, Returned, sleepVars, diskVars, logVars,
               ghostVars, BeginWaiting, IInv, Types
      <3> QED
        BY <3>1, BeginSame
    <2>5. CASE SyncReturn(p)
      <3>1. UNCHANGED <<block, outstanding, committing>>
            /\ (\A q \in Procs : BeginWaiting(q)' => BeginWaiting(q))
            /\ \A q \in Procs : pc[q] = "endwake" => pc'[q] = "endwake" /\ scan'[q] = scan[q]
        BY <2>5 DEF SyncReturn, Goto, sleepVars, diskVars, logVars,
               BeginWaiting, IInv, Types
      <3> QED
        BY <3>1, BeginSame
    <2> QED
      BY <1>3, <2>1, <2>2, <2>3, <2>4, <2>5 DEF sys_sync
  <1>4. ASSUME NEW p \in Procs, Kill(p) PROVE BeginInv'
    <2>1. UNCHANGED <<block, outstanding, committing>>
            /\ (\A q \in Procs : BeginWaiting(q)' => BeginWaiting(q))
            /\ \A q \in Procs : pc[q] = "endwake" => pc'[q] = "endwake" /\ scan'[q] = scan[q]
      BY <1>4 DEF Kill, kkill, diskVars, logVars, ghostVars, BeginWaiting,
             IInv, Types
    <2> QED
      BY <2>1, BeginSame
  <1>5. ASSUME NEW p \in Procs, NEW b \in Blocks, NEW v \in Vals, log_write(p, b, v)
       PROVE  BeginInv'
      <2>1. /\ UNCHANGED <<outstanding, committing, pc, state, chan, scan>>
            /\ block' = IF Logged(b) THEN block ELSE Append(block, b)
        BY <1>5 DEF log_write, sleepVars
      <2>2. Len(block') \in Nat /\ Len(block) \in Nat /\ Len(block') >= Len(block)
        BY <2>1, AppendProperties, LenProperties DEF IInv, DiskTypes
      <2>3. (outstanding + 1) * MAXOPBLOCKS \in Int
        BY OpsFacts, SizeFacts DEF IInv
      <2>4. NoSpace => NoSpace'
        BY <2>1, <2>2, <2>3, SizeFacts DEF NoSpace, n
      <2> QED
        BY <2>1, <2>4 DEF BeginInv, BeginWaiting, Coming
  <1>6. CASE Recovery
    <2>1. CASE ReadHead
      BY <2>1, SlotFacts, OpsFacts DEF ReadHead, sleepVars, diskVars,
             ghostVars, IInv, Types, CommitInv, Committers, ChanInv, BeginInv,
             BeginWaiting, Coming
    <2>2. CASE RecoverBlock
      BY <2>2, SlotFacts, OpsFacts DEF RecoverBlock, sleepVars, logVars,
             ghostVars, IInv, Types, CommitInv, Committers, ChanInv, BeginInv,
             BeginWaiting, Coming
    <2>3. CASE RecoverDone
      BY <2>3, SlotFacts, OpsFacts DEF RecoverDone, sleepVars, ghostVars, IInv,
             Types, CommitInv, Committers, ChanInv, BeginInv, BeginWaiting,
             Coming
    <2> QED
      BY <1>6, <2>1, <2>2, <2>3 DEF Recovery
  <1>7. CASE Crash
    BY <1>7, SlotFacts, OpsFacts DEF Crash, Boot, diskVars, IInv, Types,
           CommitInv, Committers, ChanInv, BeginInv, BeginWaiting, Coming
  <1>8. CASE UNCHANGED vars
    BY <1>8, BeginSame DEF vars, sleepVars, diskVars, logVars, ghostVars,
           BeginWaiting, IInv, Types
  <1>9. ASSUME NEW p \in Procs, NEW b \in Blocks, TooBig(p, b) PROVE BeginInv'
    <2>1. UNCHANGED <<block, outstanding, committing>>
            /\ (\A q \in Procs : BeginWaiting(q)' => BeginWaiting(q))
            /\ \A q \in Procs : pc[q] = "endwake" => pc'[q] = "endwake" /\ scan'[q] = scan[q]
      BY <1>9 DEF TooBig, sleepVars, diskVars, logVars, ghostVars, BeginWaiting,
             IInv, Types
    <2> QED
      BY <2>1, BeginSame
  <1> QED
    BY <1>1, <1>2, <1>3, <1>4, <1>5, <1>6, <1>7, <1>8, <1>9 DEF Next, Step

LEMMA SyncerStep ==
    ASSUME IInv, ChanInv, SyncerInv, [Next]_vars
    PROVE  SyncerInv'
  <1>1. ASSUME NEW p \in Procs, begin_op(p) \/ BeginWaits(p) \/ Sleep(p)
       PROVE  SyncerInv'
    <2>1. CASE begin_op(p)
      <3>1. (\A q \in Procs :
             SyncWaiting(q)' => (SyncWaiting(q) /\ UNCHANGED due[q]) \/ ~due'[q])
            /\ \A q \in Procs : pc[q] = "endwake" => pc'[q] = "endwake" /\ scan'[q] = scan[q]
        BY <2>1 DEF begin_op, Returned, sleepVars, diskVars, ghostVars,
               SyncWaiting, ChanInv, IInv, Types, CommitInv
      <3> QED
        BY <3>1, SyncSame
    <2>2. CASE BeginWaits(p)
      <3>1. (\A q \in Procs :
             SyncWaiting(q)' => (SyncWaiting(q) /\ UNCHANGED due[q]) \/ ~due'[q])
            /\ \A q \in Procs : pc[q] = "endwake" => pc'[q] = "endwake" /\ scan'[q] = scan[q]
        BY <2>2 DEF BeginWaits, Returned, sleep_prepare, sleep, diskVars,
               logVars, ghostVars, LogChan, SyncWaiting, ChanInv, IInv, Types,
               CommitInv
      <3> QED
        BY <3>1, SyncSame
    <2>3. CASE Sleep(p)
      <3>1. (\A q \in Procs :
             SyncWaiting(q)' => (SyncWaiting(q) /\ UNCHANGED due[q]) \/ ~due'[q])
            /\ \A q \in Procs : pc[q] = "endwake" => pc'[q] = "endwake" /\ scan'[q] = scan[q]
        BY <2>3 DEF Sleep, Goto, sleep, diskVars, logVars, ghostVars,
               SyncWaiting, ChanInv, IInv, Types, CommitInv
      <3> QED
        BY <3>1, SyncSame
    <2> QED
      BY <1>1, <2>1, <2>2, <2>3
  <1>2. ASSUME NEW p \in Procs, end_op(p) PROVE SyncerInv'
    <2>1. CASE EndOther(p)
      BY <2>1, SlotFacts DEF EndOther, Goto, WakeupCall, diskVars, IInv, Types,
             ChanInv, SyncerInv, SyncWaiting, Coming
    <2>2. CASE EndLast(p)
      <3>1. (\A q \in Procs :
             SyncWaiting(q)' => (SyncWaiting(q) /\ UNCHANGED due[q]) \/ ~due'[q])
            /\ \A q \in Procs : pc[q] = "endwake" => pc'[q] = "endwake" /\ scan'[q] = scan[q]
        BY <2>2 DEF EndLast, Goto, sleepVars, diskVars, SyncWaiting, ChanInv,
               IInv, Types, CommitInv
      <3> QED
        BY <3>1, SyncSame
    <2>3. CASE WriteLog(p)
      <3>1. (\A q \in Procs :
             SyncWaiting(q)' => (SyncWaiting(q) /\ UNCHANGED due[q]) \/ ~due'[q])
            /\ \A q \in Procs : pc[q] = "endwake" => pc'[q] = "endwake" /\ scan'[q] = scan[q]
        BY <2>3 DEF WriteLog, sleepVars, logVars, ghostVars, SyncWaiting,
               ChanInv, IInv, Types, CommitInv
      <3> QED
        BY <3>1, SyncSame
    <2>4. CASE WriteHead(p)
      <3>1. (\A q \in Procs :
             SyncWaiting(q)' => (SyncWaiting(q) /\ UNCHANGED due[q]) \/ ~due'[q])
            /\ \A q \in Procs : pc[q] = "endwake" => pc'[q] = "endwake" /\ scan'[q] = scan[q]
        BY <2>4 DEF WriteHead, Goto, sleepVars, logVars, SyncWaiting, ChanInv,
               IInv, Types, CommitInv
      <3> QED
        BY <3>1, SyncSame
    <2>5. CASE Install(p)
      <3>1. (\A q \in Procs :
             SyncWaiting(q)' => (SyncWaiting(q) /\ UNCHANGED due[q]) \/ ~due'[q])
            /\ \A q \in Procs : pc[q] = "endwake" => pc'[q] = "endwake" /\ scan'[q] = scan[q]
        BY <2>5 DEF Install, sleepVars, logVars, ghostVars, SyncWaiting,
               ChanInv, IInv, Types, CommitInv
      <3> QED
        BY <3>1, SyncSame
    <2>6. CASE Erase(p)
      <3>1. (\A q \in Procs :
             SyncWaiting(q)' => (SyncWaiting(q) /\ UNCHANGED due[q]) \/ ~due'[q])
            /\ \A q \in Procs : pc[q] = "endwake" => pc'[q] = "endwake" /\ scan'[q] = scan[q]
        BY <2>6 DEF Erase, Goto, sleepVars, ghostVars, SyncWaiting, ChanInv,
               IInv, Types, CommitInv
      <3> QED
        BY <3>1, SyncSame
    <2>7. CASE CommitDone(p)
      BY <2>7, SlotFacts DEF CommitDone, Goto, WakeupCall, diskVars, ghostVars,
             IInv, Types, ChanInv, SyncerInv, SyncWaiting, Coming
    <2>8. CASE EndWake(p)
      <3> DEFINE r == scan[p]
      <3>1. /\ r \in Procs /\ pc[p] = "endwake" /\ scan' = [scan EXCEPT ![p] = r + 1]
            /\ UNCHANGED <<block, outstanding, committing, pc, due>>
        BY <2>8 DEF EndWake, wakeup, logVars
      <3>2. \A q \in Procs : SyncWaiting(q)' => SyncWaiting(q) /\ q # r
        BY <2>8 DEF EndWake, wakeup, SyncWaiting, ChanInv, NoChan, LogChan, IInv, Types
      <3>3. \A q \in Procs : Coming(q) /\ q # r => Coming(q)'
        BY <3>1, SlotFacts DEF Coming, IInv, Types
      <3> QED
        BY <3>1, <3>2, <3>3 DEF SyncerInv
    <2>9. CASE EndDone(p)
      <3>1. /\ scan[p] = N + 1 /\ pc[p] = "endwake" /\ pc' = [pc EXCEPT ![p] = "idle"]
            /\ UNCHANGED <<block, outstanding, committing, due, scan, state, chan>>
        BY <2>9 DEF EndDone, Goto, WakeupDone, sleepVars, logVars
      <3>2. \A q \in Procs : SyncWaiting(q)' => SyncWaiting(q)
        BY <3>1 DEF SyncWaiting, IInv, Types
      <3>3. \A q \in Procs : Coming(q) => Coming(q)'
        BY <3>1, SlotFacts DEF Coming, IInv, Types
      <3> QED
        BY <3>1, <3>2, <3>3 DEF SyncerInv
    <2> QED
      BY <1>2, <2>1, <2>2, <2>3, <2>4, <2>5, <2>6, <2>7, <2>8, <2>9 DEF end_op
  <1>3. ASSUME NEW p \in Procs, sys_sync(p) PROVE SyncerInv'
    <2>1. CASE SyncNow(p)
      <3>1. (\A q \in Procs :
             SyncWaiting(q)' => (SyncWaiting(q) /\ UNCHANGED due[q]) \/ ~due'[q])
            /\ \A q \in Procs : pc[q] = "endwake" => pc'[q] = "endwake" /\ scan'[q] = scan[q]
        BY <2>1 DEF SyncNow, Goto, sleepVars, diskVars, logVars, SyncWaiting,
               ChanInv, IInv, Types, CommitInv
      <3> QED
        BY <3>1, SyncSame
    <2>2. CASE SyncWaits(p)
      <3>1. (\A q \in Procs :
             SyncWaiting(q)' => (SyncWaiting(q) /\ UNCHANGED due[q]) \/ ~due'[q])
            /\ \A q \in Procs : pc[q] = "endwake" => pc'[q] = "endwake" /\ scan'[q] = scan[q]
        BY <2>2 DEF SyncWaits, Goto, sleep_prepare, diskVars, logVars, LogChan,
               SyncWaiting, ChanInv, IInv, Types, CommitInv
      <3> QED
        BY <3>1, SyncSame
    <2>3. CASE SyncAgain(p)
      <3>1. (\A q \in Procs :
             SyncWaiting(q)' => (SyncWaiting(q) /\ UNCHANGED due[q]) \/ ~due'[q])
            /\ \A q \in Procs : pc[q] = "endwake" => pc'[q] = "endwake" /\ scan'[q] = scan[q]
        BY <2>3 DEF SyncAgain, Goto, Returned, sleep_prepare, diskVars,
               logVars, ghostVars, LogChan, SyncWaiting, ChanInv, IInv, Types,
               CommitInv
      <3> QED
        BY <3>1, SyncSame
    <2>4. CASE SyncDone(p)
      <3>1. (\A q \in Procs :
             SyncWaiting(q)' => (SyncWaiting(q) /\ UNCHANGED due[q]) \/ ~due'[q])
            /\ \A q \in Procs : pc[q] = "endwake" => pc'[q] = "endwake" /\ scan'[q] = scan[q]
        BY <2>4 DEF SyncDone, Goto, Returned, sleepVars, diskVars, logVars,
               ghostVars, SyncWaiting, ChanInv, IInv, Types, CommitInv
      <3> QED
        BY <3>1, SyncSame
    <2>5. CASE SyncReturn(p)
      <3>1. (\A q \in Procs :
             SyncWaiting(q)' => (SyncWaiting(q) /\ UNCHANGED due[q]) \/ ~due'[q])
            /\ \A q \in Procs : pc[q] = "endwake" => pc'[q] = "endwake" /\ scan'[q] = scan[q]
        BY <2>5 DEF SyncReturn, Goto, sleepVars, diskVars, logVars,
               SyncWaiting, ChanInv, IInv, Types, CommitInv
      <3> QED
        BY <3>1, SyncSame
    <2> QED
      BY <1>3, <2>1, <2>2, <2>3, <2>4, <2>5 DEF sys_sync
  <1>4. ASSUME NEW p \in Procs, Kill(p) PROVE SyncerInv'
    <2>1. (\A q \in Procs :
             SyncWaiting(q)' => (SyncWaiting(q) /\ UNCHANGED due[q]) \/ ~due'[q])
            /\ \A q \in Procs : pc[q] = "endwake" => pc'[q] = "endwake" /\ scan'[q] = scan[q]
      BY <1>4 DEF Kill, kkill, diskVars, logVars, ghostVars, SyncWaiting,
             ChanInv, IInv, Types, CommitInv
    <2> QED
      BY <2>1, SyncSame
  <1>5. ASSUME NEW p \in Procs, NEW b \in Blocks, NEW v \in Vals, log_write(p, b, v)
       PROVE  SyncerInv'
    <2>1. (\A q \in Procs :
             SyncWaiting(q)' => (SyncWaiting(q) /\ UNCHANGED due[q]) \/ ~due'[q])
            /\ \A q \in Procs : pc[q] = "endwake" => pc'[q] = "endwake" /\ scan'[q] = scan[q]
      BY <1>5 DEF log_write, sleepVars, diskVars, ghostVars, SyncWaiting,
             ChanInv, IInv, Types, CommitInv
    <2> QED
      BY <2>1, SyncSame
  <1>6. CASE Recovery
    <2>1. CASE ReadHead
      <3>1. (\A q \in Procs :
             SyncWaiting(q)' => (SyncWaiting(q) /\ UNCHANGED due[q]) \/ ~due'[q])
            /\ \A q \in Procs : pc[q] = "endwake" => pc'[q] = "endwake" /\ scan'[q] = scan[q]
        BY <2>1 DEF ReadHead, sleepVars, diskVars, ghostVars, SyncWaiting,
               ChanInv, IInv, Types, CommitInv
      <3> QED
        BY <3>1, SyncSame
    <2>2. CASE RecoverBlock
      <3>1. (\A q \in Procs :
             SyncWaiting(q)' => (SyncWaiting(q) /\ UNCHANGED due[q]) \/ ~due'[q])
            /\ \A q \in Procs : pc[q] = "endwake" => pc'[q] = "endwake" /\ scan'[q] = scan[q]
        BY <2>2 DEF RecoverBlock, sleepVars, logVars, ghostVars, SyncWaiting,
               ChanInv, IInv, Types, CommitInv
      <3> QED
        BY <3>1, SyncSame
    <2>3. CASE RecoverDone
      <3>1. (\A q \in Procs :
             SyncWaiting(q)' => (SyncWaiting(q) /\ UNCHANGED due[q]) \/ ~due'[q])
            /\ \A q \in Procs : pc[q] = "endwake" => pc'[q] = "endwake" /\ scan'[q] = scan[q]
        BY <2>3 DEF RecoverDone, sleepVars, ghostVars, SyncWaiting, ChanInv,
               IInv, Types, CommitInv
      <3> QED
        BY <3>1, SyncSame
    <2> QED
      BY <1>6, <2>1, <2>2, <2>3 DEF Recovery
  <1>7. CASE Crash
    BY <1>7, SlotFacts DEF Crash, Boot, diskVars, IInv, Types, ChanInv,
           SyncerInv, SyncWaiting, Coming
  <1>8. CASE UNCHANGED vars
    BY <1>8, SyncSame DEF vars, sleepVars, diskVars, logVars, ghostVars,
           SyncWaiting, ChanInv, IInv, Types, CommitInv
  <1>9. ASSUME NEW p \in Procs, NEW b \in Blocks, TooBig(p, b) PROVE SyncerInv'
    <2>1. (\A q \in Procs :
             SyncWaiting(q)' => (SyncWaiting(q) /\ UNCHANGED due[q]) \/ ~due'[q])
            /\ \A q \in Procs : pc[q] = "endwake" => pc'[q] = "endwake" /\ scan'[q] = scan[q]
      BY <1>9 DEF TooBig, sleepVars, diskVars, logVars, ghostVars, SyncWaiting,
             ChanInv, IInv, Types, CommitInv
    <2> QED
      BY <2>1, SyncSame
  <1> QED
    BY <1>1, <1>2, <1>3, <1>4, <1>5, <1>6, <1>7, <1>8, <1>9 DEF Next, Step

LEMMA WaitStep ==
    ASSUME IInv, WaitInv, [Next]_vars
    PROVE  WaitInv'
  BY ChanStep, DueStep, BeginStep, SyncerStep DEF WaitInv

-----------------------------------------------------------------------------
(* Room in the log *)

\* the blocks that the calls in progress may still log
Free == {x \in Ops \X (1..MAXOPBLOCKS) : x[2] > Cardinality(mine[x[1]])}

\* what a call has logged is in the log; the log has room for the rest
MineInv == \A p \in Procs :
    /\ IsFiniteSet(mine[p]) /\ Cardinality(mine[p]) <= OpBlocks
    /\ \A b \in mine[p] : pc[p] = "op" /\ Logged(b)
RoomInv == n + Cardinality(Free) <= LOGBLOCKS

LEMMA FreeFinite ==
    ASSUME CountInv
    PROVE  IsFiniteSet(Free) /\ Cardinality(Free) \in Nat
  <1>1. IsFiniteSet(Ops) /\ IsFiniteSet(1..MAXOPBLOCKS)
    BY OpsFacts, SizeFacts, FS_Interval
  <1>2. IsFiniteSet(Ops \X (1..MAXOPBLOCKS))
    BY <1>1, FS_Product
  <1>3. Free \subseteq Ops \X (1..MAXOPBLOCKS)
    BY DEF Free
  <1> QED
    BY <1>2, <1>3, FS_Subset, FS_CardinalityType

\* a call that has not used all it may has one left
LEMMA FreeNext ==
    ASSUME CountInv, MineInv, NEW p \in Procs, pc[p] = "op",
           Cardinality(mine[p]) < MAXOPBLOCKS
    PROVE  /\ Cardinality(mine[p]) \in Nat
           /\ <<p, Cardinality(mine[p]) + 1>> \in Free
           /\ Cardinality(Free) \in Nat /\ Cardinality(Free) > 0
  <1>1. Cardinality(mine[p]) \in Nat
    BY FS_CardinalityType DEF MineInv
  <1>2. p \in Ops /\ Cardinality(mine[p]) + 1 \in 1..MAXOPBLOCKS
    BY <1>1, SizeFacts DEF Ops
  <1>3. <<p, Cardinality(mine[p]) + 1>> \in Free
    BY <1>1, <1>2 DEF Free
  <1> QED
    BY <1>1, <1>3, FreeFinite, FS_EmptySet

LEMMA RoomShrink ==
    ASSUME IInv, RoomInv, n' = n, Free' \subseteq Free
    PROVE  RoomInv'
  <1>1. Cardinality(Free') \in Nat /\ Cardinality(Free') <= Cardinality(Free)
    BY FreeFinite, FS_Subset, FS_CardinalityType DEF IInv
  <1>2. Cardinality(Free) \in Nat /\ n \in Nat
    BY FreeFinite, LenFacts DEF IInv
  <1> QED
    BY <1>1, <1>2, SizeFacts DEF RoomInv

LEMMA RoomSame ==
    ASSUME IInv, RoomInv, UNCHANGED <<block, mine>>,
           \A q \in Procs : pc'[q] = "op" <=> pc[q] = "op"
    PROVE  RoomInv'
  <1>1. n' = n /\ Ops' = Ops
    BY DEF n, Ops
  <1>2. Free' = Free
    BY <1>1 DEF Free
  <1> QED
    BY <1>1, <1>2, RoomShrink

LEMMA RoomNobody ==
    ASSUME DiskTypes', \A q \in Procs : pc'[q] # "op"
    PROVE  RoomInv'
  <1>1. Free' = {}
    BY DEF Free, Ops
  <1>2. Cardinality(Free') = 0
    BY <1>1, FS_EmptySet
  <1>3. Len(block') \in Nat /\ Len(block') <= LOGBLOCKS
    BY LenProperties DEF DiskTypes, n
  <1> QED
    BY <1>2, <1>3, SizeFacts DEF RoomInv, n

LEMMA LogWriteMine ==
    ASSUME Types, NEW p \in Procs, NEW b \in Blocks, NEW v \in Vals, log_write(p, b, v)
    PROVE  /\ pc[p] = "op" /\ UNCHANGED pc
           /\ Cardinality(mine[p] \cup {b}) <= OpBlocks
           /\ block' = IF Logged(b) THEN block ELSE Append(block, b)
           /\ mine'[p] = mine[p] \cup {b} /\ mine' \in [Procs -> SUBSET Blocks]
           /\ \A q \in Procs \ {p} : mine'[q] = mine[q]
  <1>1. pc[p] = "op" /\ UNCHANGED pc
    BY DEF log_write
  <1>2. Cardinality(mine[p] \cup {b}) <= OpBlocks
    BY DEF log_write
  <1>3. block' = IF Logged(b) THEN block ELSE Append(block, b)
    BY DEF log_write
  <1>4. mine' = [mine EXCEPT ![p] = mine[p] \cup {b}]
    BY DEF log_write
  <1> QED
    BY <1>1, <1>2, <1>3, <1>4 DEF Types

LEMMA MineSame ==
    ASSUME MineInv, UNCHANGED <<block, mine>>,
           \A q \in Procs : pc[q] = "op" => pc'[q] = "op"
    PROVE  MineInv'
  BY DEF MineInv, Logged, n


LEMMA MineStep ==
    ASSUME IInv, MineInv, [Next]_vars
    PROVE  MineInv'
  <1>1. ASSUME NEW p \in Procs, begin_op(p) \/ BeginWaits(p) \/ Sleep(p)
       PROVE  MineInv'
    <2>1. CASE begin_op(p)
      <3>1. UNCHANGED <<block, mine>> /\ \A q \in Procs : pc[q] = "op" => pc'[q] = "op"
        BY <2>1 DEF begin_op, Returned, sleepVars, diskVars, ghostVars, IInv,
               Types
      <3> QED
        BY <3>1, MineSame
    <2>2. CASE BeginWaits(p)
      <3>1. UNCHANGED <<block, mine>> /\ \A q \in Procs : pc[q] = "op" => pc'[q] = "op"
        BY <2>2 DEF BeginWaits, Returned, sleep_prepare, sleep, diskVars,
               logVars, ghostVars, LogChan, IInv, Types
      <3> QED
        BY <3>1, MineSame
    <2>3. CASE Sleep(p)
      <3>1. UNCHANGED <<block, mine>> /\ \A q \in Procs : pc[q] = "op" => pc'[q] = "op"
        BY <2>3 DEF Sleep, Goto, sleep, diskVars, logVars, ghostVars, IInv,
               Types
      <3> QED
        BY <3>1, MineSame
    <2> QED
      BY <1>1, <2>1, <2>2, <2>3
  <1>2. ASSUME NEW p \in Procs, end_op(p) PROVE MineInv'
    <2>1. CASE EndOther(p)
      <3>1. /\ mine' = [mine EXCEPT ![p] = {}] /\ UNCHANGED block
            /\ \A q \in Procs \ {p} : pc'[q] = pc[q]
        BY <2>1, LenFacts DEF EndOther, Goto, IInv, Types
      <3>2. IsFiniteSet({}) /\ Cardinality({}) = 0
        BY FS_EmptySet
      <3> QED
        BY <3>1, <3>2, SizeFacts DEF MineInv, IInv, Types, Logged, n
    <2>2. CASE EndLast(p)
      <3>1. /\ mine' = [mine EXCEPT ![p] = {}] /\ UNCHANGED block
            /\ \A q \in Procs \ {p} : pc'[q] = pc[q]
        BY <2>2, LenFacts DEF EndLast, Goto, IInv, Types
      <3>2. IsFiniteSet({}) /\ Cardinality({}) = 0
        BY FS_EmptySet
      <3> QED
        BY <3>1, <3>2, SizeFacts DEF MineInv, IInv, Types, Logged, n
    <2>3. CASE WriteLog(p)
      <3>1. UNCHANGED <<block, mine>> /\ \A q \in Procs : pc[q] = "op" => pc'[q] = "op"
        BY <2>3 DEF WriteLog, sleepVars, logVars, ghostVars, IInv, Types
      <3> QED
        BY <3>1, MineSame
    <2>4. CASE WriteHead(p)
      <3>1. UNCHANGED <<block, mine>> /\ \A q \in Procs : pc[q] = "op" => pc'[q] = "op"
        BY <2>4 DEF WriteHead, Goto, sleepVars, logVars, IInv, Types
      <3> QED
        BY <3>1, MineSame
    <2>5. CASE Install(p)
      <3>1. UNCHANGED <<block, mine>> /\ \A q \in Procs : pc[q] = "op" => pc'[q] = "op"
        BY <2>5 DEF Install, sleepVars, logVars, ghostVars, IInv, Types
      <3> QED
        BY <3>1, MineSame
    <2>6. CASE Erase(p)
      <3>1. \A q \in Procs : pc[q] # "op" /\ UNCHANGED mine[q]
        BY <2>6 DEF Erase, Goto, IInv, Types, CommitInv, NoCallInCommit, Committers
      <3> QED
        BY <3>1 DEF MineInv
    <2>7. CASE CommitDone(p)
      <3>1. UNCHANGED <<block, mine>> /\ \A q \in Procs : pc[q] = "op" => pc'[q] = "op"
        BY <2>7 DEF CommitDone, Goto, WakeupCall, diskVars, ghostVars, IInv,
               Types
      <3> QED
        BY <3>1, MineSame
    <2>8. CASE EndWake(p)
      <3>1. UNCHANGED <<block, mine>> /\ \A q \in Procs : pc[q] = "op" => pc'[q] = "op"
        BY <2>8 DEF EndWake, wakeup, diskVars, logVars, ghostVars, LogChan,
               IInv, Types
      <3> QED
        BY <3>1, MineSame
    <2>9. CASE EndDone(p)
      <3>1. UNCHANGED <<block, mine>> /\ \A q \in Procs : pc[q] = "op" => pc'[q] = "op"
        BY <2>9 DEF EndDone, Goto, WakeupDone, sleepVars, diskVars, logVars,
               ghostVars, IInv, Types
      <3> QED
        BY <3>1, MineSame
    <2> QED
      BY <1>2, <2>1, <2>2, <2>3, <2>4, <2>5, <2>6, <2>7, <2>8, <2>9 DEF end_op
  <1>3. ASSUME NEW p \in Procs, sys_sync(p) PROVE MineInv'
    <2>1. CASE SyncNow(p)
      <3>1. UNCHANGED <<block, mine>> /\ \A q \in Procs : pc[q] = "op" => pc'[q] = "op"
        BY <2>1 DEF SyncNow, Goto, sleepVars, diskVars, logVars, IInv, Types
      <3> QED
        BY <3>1, MineSame
    <2>2. CASE SyncWaits(p)
      <3>1. UNCHANGED <<block, mine>> /\ \A q \in Procs : pc[q] = "op" => pc'[q] = "op"
        BY <2>2 DEF SyncWaits, Goto, sleep_prepare, diskVars, logVars, LogChan,
               IInv, Types
      <3> QED
        BY <3>1, MineSame
    <2>3. CASE SyncAgain(p)
      <3>1. UNCHANGED <<block, mine>> /\ \A q \in Procs : pc[q] = "op" => pc'[q] = "op"
        BY <2>3 DEF SyncAgain, Goto, Returned, sleep_prepare, diskVars,
               logVars, ghostVars, LogChan, IInv, Types
      <3> QED
        BY <3>1, MineSame
    <2>4. CASE SyncDone(p)
      <3>1. UNCHANGED <<block, mine>> /\ \A q \in Procs : pc[q] = "op" => pc'[q] = "op"
        BY <2>4 DEF SyncDone, Goto, Returned, sleepVars, diskVars, logVars,
               ghostVars, IInv, Types
      <3> QED
        BY <3>1, MineSame
    <2>5. CASE SyncReturn(p)
      <3>1. UNCHANGED <<block, mine>> /\ \A q \in Procs : pc[q] = "op" => pc'[q] = "op"
        BY <2>5 DEF SyncReturn, Goto, sleepVars, diskVars, logVars, IInv, Types
      <3> QED
        BY <3>1, MineSame
    <2> QED
      BY <1>3, <2>1, <2>2, <2>3, <2>4, <2>5 DEF sys_sync
  <1>4. ASSUME NEW p \in Procs, Kill(p) PROVE MineInv'
    <2>1. UNCHANGED <<block, mine>> /\ \A q \in Procs : pc[q] = "op" => pc'[q] = "op"
      BY <1>4 DEF Kill, kkill, diskVars, logVars, ghostVars, IInv, Types
    <2> QED
      BY <2>1, MineSame
  <1>5. ASSUME NEW p \in Procs, NEW b \in Blocks, NEW v \in Vals, log_write(p, b, v)
       PROVE  MineInv'
      <2>1. /\ pc[p] = "op" /\ UNCHANGED pc /\ Cardinality(mine[p] \cup {b}) <= OpBlocks
            /\ block' = IF Logged(b) THEN block ELSE Append(block, b)
            /\ mine'[p] = mine[p] \cup {b}
            /\ \A q \in Procs \ {p} : mine'[q] = mine[q]
        BY <1>5, LogWriteMine DEF IInv
      <2>2. IsFiniteSet(mine[p] \cup {b})
        BY FS_AddElement DEF MineInv
      <2>3. \A a \in Blocks : Logged(a) \/ a = b => Logged(a)'
        BY <2>1, LenProperties, AppendProperties DEF Logged, n, DiskTypes, IInv
      <2> QED
        <3>1. ASSUME NEW q \in Procs
              PROVE  /\ IsFiniteSet(mine'[q]) /\ Cardinality(mine'[q]) <= OpBlocks
                     /\ \A a \in mine'[q] : pc'[q] = "op" /\ Logged(a)'
          <4>1. CASE q = p
            <5>1. \A a \in mine[p] : Logged(a) /\ a \in Blocks
              BY DEF MineInv, IInv, Types
            <5> QED
              BY <2>1, <2>2, <2>3, <4>1, <5>1
          <4>2. CASE q # p
            <5>1. \A a \in mine[q] : Logged(a) /\ a \in Blocks /\ pc[q] = "op"
              BY DEF MineInv, IInv, Types
            <5>2. mine'[q] = mine[q]
              BY <2>1, <4>2
            <5> QED
              BY <2>1, <2>3, <5>1, <5>2 DEF MineInv
          <4> QED
            BY <4>1, <4>2
        <3> QED
          BY <3>1 DEF MineInv
  <1>6. CASE Recovery
    <2>1. CASE ReadHead
      <3>1. \A q \in Procs : pc[q] # "op" /\ UNCHANGED mine[q]
        BY <2>1 DEF ReadHead, Goto, IInv, Types, CommitInv, NoCallInCommit, Committers
      <3> QED
        BY <3>1 DEF MineInv
    <2>2. CASE RecoverBlock
      <3>1. UNCHANGED <<block, mine>> /\ \A q \in Procs : pc[q] = "op" => pc'[q] = "op"
        BY <2>2 DEF RecoverBlock, sleepVars, logVars, ghostVars, IInv, Types
      <3> QED
        BY <3>1, MineSame
    <2>3. CASE RecoverDone
      <3>1. \A q \in Procs : pc[q] # "op" /\ UNCHANGED mine[q]
        BY <2>3 DEF RecoverDone, Goto, IInv, Types, CommitInv, NoCallInCommit, Committers
      <3> QED
        BY <3>1 DEF MineInv
    <2> QED
      BY <1>6, <2>1, <2>2, <2>3 DEF Recovery
  <1>7. CASE Crash
      <2>1. mine' = [q \in Procs |-> {}]
        BY <1>7 DEF Crash, Boot
      <2> QED
        BY <2>1, FS_EmptySet, SizeFacts DEF MineInv
  <1>8. CASE UNCHANGED vars
    BY <1>8, MineSame DEF vars, sleepVars, diskVars, logVars, ghostVars, IInv,
           Types
  <1>9. ASSUME NEW p \in Procs, NEW b \in Blocks, TooBig(p, b) PROVE MineInv'
    <2>1. UNCHANGED <<block, mine>> /\ \A q \in Procs : pc[q] = "op" => pc'[q] = "op"
      BY <1>9 DEF TooBig, sleepVars, diskVars, logVars, ghostVars, IInv, Types
    <2> QED
      BY <2>1, MineSame
  <1> QED
    BY <1>1, <1>2, <1>3, <1>4, <1>5, <1>6, <1>7, <1>8, <1>9 DEF Next, Step

LEMMA RoomStep ==
    ASSUME IInv, IInv', MineInv, RoomInv, [Next]_vars
    PROVE  RoomInv'
  <1>1. ASSUME NEW p \in Procs, begin_op(p) \/ BeginWaits(p) \/ Sleep(p)
       PROVE  RoomInv'
    <2>1. CASE begin_op(p)
      <3>1. UNCHANGED block /\ outstanding' = outstanding + 1 /\ ~NoSpace
        BY <2>1 DEF begin_op
      <3>2. IsFiniteSet(Ops') /\ Cardinality(Ops') = outstanding + 1
        BY <3>1, OpsFactsNext DEF IInv
      <3>3. /\ IsFiniteSet(Ops' \X (1..MAXOPBLOCKS))
            /\ Cardinality(Ops' \X (1..MAXOPBLOCKS)) = (outstanding + 1) * MAXOPBLOCKS
        <4>1. IsFiniteSet(1..MAXOPBLOCKS) /\ Cardinality(1..MAXOPBLOCKS) = MAXOPBLOCKS
          BY SizeFacts, FS_Interval
        <4> QED
          BY <3>2, <4>1, FS_Product
      <3>4. Free' \subseteq Ops' \X (1..MAXOPBLOCKS)
        BY DEF Free
      <3>5. /\ Cardinality(Free') <= (outstanding + 1) * MAXOPBLOCKS
            /\ Cardinality(Free') \in Nat
        BY <3>3, <3>4, FS_Subset, FS_CardinalityType
      <3>6. (outstanding + 1) * MAXOPBLOCKS \in Nat /\ n \in Nat
        BY OpsFacts, SizeFacts, LenFacts DEF IInv
      <3>7. n' = n
        BY <3>1 DEF n
      <3> QED
        BY <3>1, <3>5, <3>6, <3>7, SizeFacts DEF RoomInv, NoSpace
    <2>2. CASE BeginWaits(p)
      <3>1. UNCHANGED <<block, mine>> /\ \A q \in Procs : pc'[q] = "op" <=> pc[q] = "op"
        BY <2>2 DEF BeginWaits, Returned, sleep_prepare, sleep, diskVars,
               logVars, ghostVars, LogChan, IInv, Types
      <3> QED
        BY <3>1, RoomSame
    <2>3. CASE Sleep(p)
      <3>1. UNCHANGED <<block, mine>> /\ \A q \in Procs : pc'[q] = "op" <=> pc[q] = "op"
        BY <2>3 DEF Sleep, Goto, sleep, diskVars, logVars, ghostVars, IInv,
               Types
      <3> QED
        BY <3>1, RoomSame
    <2> QED
      BY <1>1, <2>1, <2>2, <2>3
  <1>2. ASSUME NEW p \in Procs, end_op(p) PROVE RoomInv'
    <2>1. CASE EndOther(p)
      <3>1. /\ mine' = [mine EXCEPT ![p] = {}] /\ UNCHANGED block /\ pc'[p] # "op"
            /\ \A q \in Procs \ {p} : pc'[q] = pc[q]
        BY <2>1, LenFacts DEF EndOther, Goto, IInv, Types
      <3>2. Ops' = Ops \ {p}
        BY <3>1 DEF Ops
      <3>3. \A q \in Ops' : q \in Ops /\ mine'[q] = mine[q]
        BY <3>1, <3>2 DEF IInv, Types
      <3>4. Free' \subseteq Free
        BY <3>3 DEF Free
      <3>5. n' = n
        BY <3>1 DEF n
      <3> QED
        BY <3>4, <3>5, RoomShrink
    <2>2. CASE EndLast(p)
      <3>1. /\ mine' = [mine EXCEPT ![p] = {}] /\ UNCHANGED block /\ pc'[p] # "op"
            /\ \A q \in Procs \ {p} : pc'[q] = pc[q]
        BY <2>2, LenFacts DEF EndLast, Goto, IInv, Types
      <3>2. Ops' = Ops \ {p}
        BY <3>1 DEF Ops
      <3>3. \A q \in Ops' : q \in Ops /\ mine'[q] = mine[q]
        BY <3>1, <3>2 DEF IInv, Types
      <3>4. Free' \subseteq Free
        BY <3>3 DEF Free
      <3>5. n' = n
        BY <3>1 DEF n
      <3> QED
        BY <3>4, <3>5, RoomShrink
    <2>3. CASE WriteLog(p)
      <3>1. UNCHANGED <<block, mine>> /\ \A q \in Procs : pc'[q] = "op" <=> pc[q] = "op"
        BY <2>3 DEF WriteLog, sleepVars, logVars, ghostVars, IInv, Types
      <3> QED
        BY <3>1, RoomSame
    <2>4. CASE WriteHead(p)
      <3>1. UNCHANGED <<block, mine>> /\ \A q \in Procs : pc'[q] = "op" <=> pc[q] = "op"
        BY <2>4 DEF WriteHead, Goto, sleepVars, logVars, IInv, Types
      <3> QED
        BY <3>1, RoomSame
    <2>5. CASE Install(p)
      <3>1. UNCHANGED <<block, mine>> /\ \A q \in Procs : pc'[q] = "op" <=> pc[q] = "op"
        BY <2>5 DEF Install, sleepVars, logVars, ghostVars, IInv, Types
      <3> QED
        BY <3>1, RoomSame
    <2>6. CASE Erase(p)
      <3>1. \A q \in Procs : pc'[q] # "op"
        BY <2>6 DEF Erase, Boot, Goto, IInv, Types, CommitInv, NoCallInCommit, Committers
      <3> QED
        BY <3>1, RoomNobody DEF IInv
    <2>7. CASE CommitDone(p)
      <3>1. UNCHANGED <<block, mine>> /\ \A q \in Procs : pc'[q] = "op" <=> pc[q] = "op"
        BY <2>7 DEF CommitDone, Goto, WakeupCall, diskVars, ghostVars, IInv,
               Types
      <3> QED
        BY <3>1, RoomSame
    <2>8. CASE EndWake(p)
      <3>1. UNCHANGED <<block, mine>> /\ \A q \in Procs : pc'[q] = "op" <=> pc[q] = "op"
        BY <2>8 DEF EndWake, wakeup, diskVars, logVars, ghostVars, LogChan,
               IInv, Types
      <3> QED
        BY <3>1, RoomSame
    <2>9. CASE EndDone(p)
      <3>1. UNCHANGED <<block, mine>> /\ \A q \in Procs : pc'[q] = "op" <=> pc[q] = "op"
        BY <2>9 DEF EndDone, Goto, WakeupDone, sleepVars, diskVars, logVars,
               ghostVars, IInv, Types
      <3> QED
        BY <3>1, RoomSame
    <2> QED
      BY <1>2, <2>1, <2>2, <2>3, <2>4, <2>5, <2>6, <2>7, <2>8, <2>9 DEF end_op
  <1>3. ASSUME NEW p \in Procs, sys_sync(p) PROVE RoomInv'
    <2>1. CASE SyncNow(p)
      <3>1. UNCHANGED <<block, mine>> /\ \A q \in Procs : pc'[q] = "op" <=> pc[q] = "op"
        BY <2>1 DEF SyncNow, Goto, sleepVars, diskVars, logVars, IInv, Types
      <3> QED
        BY <3>1, RoomSame
    <2>2. CASE SyncWaits(p)
      <3>1. UNCHANGED <<block, mine>> /\ \A q \in Procs : pc'[q] = "op" <=> pc[q] = "op"
        BY <2>2 DEF SyncWaits, Goto, sleep_prepare, diskVars, logVars, LogChan,
               IInv, Types
      <3> QED
        BY <3>1, RoomSame
    <2>3. CASE SyncAgain(p)
      <3>1. UNCHANGED <<block, mine>> /\ \A q \in Procs : pc'[q] = "op" <=> pc[q] = "op"
        BY <2>3 DEF SyncAgain, Goto, Returned, sleep_prepare, diskVars,
               logVars, ghostVars, LogChan, IInv, Types
      <3> QED
        BY <3>1, RoomSame
    <2>4. CASE SyncDone(p)
      <3>1. UNCHANGED <<block, mine>> /\ \A q \in Procs : pc'[q] = "op" <=> pc[q] = "op"
        BY <2>4 DEF SyncDone, Goto, Returned, sleepVars, diskVars, logVars,
               ghostVars, IInv, Types
      <3> QED
        BY <3>1, RoomSame
    <2>5. CASE SyncReturn(p)
      <3>1. UNCHANGED <<block, mine>> /\ \A q \in Procs : pc'[q] = "op" <=> pc[q] = "op"
        BY <2>5 DEF SyncReturn, Goto, sleepVars, diskVars, logVars, IInv, Types
      <3> QED
        BY <3>1, RoomSame
    <2> QED
      BY <1>3, <2>1, <2>2, <2>3, <2>4, <2>5 DEF sys_sync
  <1>4. ASSUME NEW p \in Procs, Kill(p) PROVE RoomInv'
    <2>1. UNCHANGED <<block, mine>> /\ \A q \in Procs : pc'[q] = "op" <=> pc[q] = "op"
      BY <1>4 DEF Kill, kkill, diskVars, logVars, ghostVars, IInv, Types
    <2> QED
      BY <2>1, RoomSame
  <1>5. ASSUME NEW p \in Procs, NEW b \in Blocks, NEW v \in Vals, log_write(p, b, v)
       PROVE  RoomInv'
      <2> DEFINE c == Cardinality(mine[p])
                 e == <<p, c + 1>>
      <2>1. /\ pc[p] = "op" /\ UNCHANGED pc /\ Cardinality(mine[p] \cup {b}) <= OpBlocks
            /\ block' = IF Logged(b) THEN block ELSE Append(block, b)
            /\ mine'[p] = mine[p] \cup {b}
            /\ \A q \in Procs \ {p} : mine'[q] = mine[q]
        BY <1>5, LogWriteMine DEF IInv
      <2>2. CASE b \in mine[p]
        <3>1. Logged(b) /\ mine[p] \cup {b} = mine[p]
          BY <2>2 DEF MineInv
        <3>2. UNCHANGED <<block, mine>>
          <4>1. block' = block
            BY <2>1, <3>1
          <4>2. mine' \in [Procs -> SUBSET Blocks] /\ \A q \in Procs : mine'[q] = mine[q]
            BY <1>5, <2>1, <3>1, LogWriteMine DEF IInv
          <4> QED
            BY <4>1, <4>2 DEF IInv, Types
        <3> QED
          BY <2>1, <3>2, RoomSame
      <2>3. CASE b \notin mine[p]
        <3>1. Cardinality(mine[p] \cup {b}) = c + 1 /\ c \in Nat
          BY <2>3, FS_AddElement, FS_CardinalityType DEF MineInv
        <3>2. e \in Free /\ Cardinality(Free) \in Nat /\ c + 1 <= OpBlocks
          BY <2>1, <3>1, FreeNext, SizeFacts DEF IInv
        <3>3. mine'[p] = mine[p] \cup {b} /\ \A q \in Procs \ {p} : mine'[q] = mine[q]
          BY <2>1
        <3>4. Ops' = Ops
          BY <2>1 DEF Ops
        <3>5. Free' \subseteq Free \ {e}
          <4> SUFFICES ASSUME NEW x \in Free' PROVE x \in Free /\ x # e
            OBVIOUS
          <4>1. x \in Ops \X (1..MAXOPBLOCKS) /\ x[2] > Cardinality(mine'[x[1]])
            BY <3>4 DEF Free
          <4>2. PICK q \in Ops, i \in 1..MAXOPBLOCKS : x = <<q, i>>
            BY <4>1
          <4>3. i > Cardinality(mine'[q]) /\ q \in Procs
            BY <4>1, <4>2 DEF Ops
          <4>4. i > Cardinality(mine[q]) /\ (q = p => i > c + 1)
            <5>1. CASE q = p
              <6>1. Cardinality(mine'[p]) = c + 1
                BY <3>1, <3>3
              <6> QED
                BY <3>1, <4>3, <5>1, <6>1
            <5>2. CASE q # p
              BY <3>3, <4>3, <5>2
            <5> QED
              BY <5>1, <5>2
          <4>5. x \in Free
            BY <4>2, <4>4 DEF Free
          <4> QED
            BY <3>1, <4>2, <4>4, <4>5
        <3>6. IsFiniteSet(Free \ {e}) /\ Cardinality(Free \ {e}) = Cardinality(Free) - 1
          BY <3>2, FreeFinite, FS_RemoveElement DEF IInv
        <3>7. Cardinality(Free') \in Nat /\ Cardinality(Free') <= Cardinality(Free) - 1
          BY <3>5, <3>6, FS_Subset, FS_CardinalityType
        <3>8. n' \in Nat /\ n \in Nat /\ n' <= n + 1
          BY <2>1, AppendProperties, LenProperties DEF IInv, DiskTypes, n
        <3> QED
          BY <3>2, <3>7, <3>8, SizeFacts DEF RoomInv
      <2> QED
        BY <2>2, <2>3
  <1>6. CASE Recovery
    <2>1. CASE ReadHead
      <3>1. \A q \in Procs : pc'[q] # "op"
        BY <2>1 DEF ReadHead, Boot, Goto, IInv, Types, CommitInv, NoCallInCommit, Committers
      <3> QED
        BY <3>1, RoomNobody DEF IInv
    <2>2. CASE RecoverBlock
      <3>1. UNCHANGED <<block, mine>> /\ \A q \in Procs : pc'[q] = "op" <=> pc[q] = "op"
        BY <2>2 DEF RecoverBlock, sleepVars, logVars, ghostVars, IInv, Types
      <3> QED
        BY <3>1, RoomSame
    <2>3. CASE RecoverDone
      <3>1. \A q \in Procs : pc'[q] # "op"
        BY <2>3 DEF RecoverDone, Boot, Goto, IInv, Types, CommitInv, NoCallInCommit, Committers
      <3> QED
        BY <3>1, RoomNobody DEF IInv
    <2> QED
      BY <1>6, <2>1, <2>2, <2>3 DEF Recovery
  <1>7. CASE Crash
      <2>1. \A q \in Procs : pc'[q] # "op"
        BY <1>7 DEF Crash, Boot, Goto, IInv, Types, CommitInv, NoCallInCommit, Committers
      <2> QED
        BY <2>1, RoomNobody DEF IInv
  <1>8. CASE UNCHANGED vars
    BY <1>8, RoomSame DEF vars, sleepVars, diskVars, logVars, ghostVars, IInv,
           Types
  <1>9. ASSUME NEW p \in Procs, NEW b \in Blocks, TooBig(p, b) PROVE RoomInv'
    <2>1. UNCHANGED <<block, mine>> /\ \A q \in Procs : pc'[q] = "op" <=> pc[q] = "op"
      BY <1>9 DEF TooBig, sleepVars, diskVars, logVars, ghostVars, IInv, Types
    <2> QED
      BY <2>1, RoomSame
  <1> QED
    BY <1>1, <1>2, <1>3, <1>4, <1>5, <1>6, <1>7, <1>8, <1>9 DEF Next, Step

\* who has panicked in log_write() keeps log.lock, and the log stays full
PanicInv == \A p \in Procs : Panicked(p) => n >= LOGBLOCKS

LEMMA PanicSame ==
    ASSUME PanicInv, UNCHANGED block, \A q \in Procs : Panicked(q)' => Panicked(q)
    PROVE  PanicInv'
  BY DEF PanicInv, n

LEMMA PanicStep ==
    ASSUME IInv, PanicInv, [Next]_vars
    PROVE  PanicInv'
  <1> USE SlotFacts DEF Panicked, IInv, Types
  <1>0. ASSUME \A q \in Procs : ~Panicked(q)' PROVE PanicInv'
    BY <1>0 DEF PanicInv
  <1>1. ASSUME NEW p \in Procs, begin_op(p) \/ BeginWaits(p) PROVE PanicInv'
    BY <1>0, <1>1 DEF begin_op, BeginWaits
  <1>2. ASSUME NEW p \in Procs, Sleep(p) PROVE PanicInv'
    BY <1>2, PanicSame DEF Sleep, Goto, logVars
  <1>3. ASSUME NEW p \in Procs, end_op(p) PROVE PanicInv'
    <2>1. CASE EndOther(p) \/ EndLast(p) \/ CommitDone(p) \/ EndDone(p)
      BY <1>0, <2>1 DEF EndOther, EndLast, CommitDone, EndDone, Goto
    <2>2. CASE WriteLog(p) \/ WriteHead(p) \/ Install(p) \/ EndWake(p)
      BY <2>2, PanicSame DEF WriteLog, WriteHead, Install, EndWake, Goto, logVars
    <2>3. CASE Erase(p)
      <3>1. \A q \in Procs : pc'[q] # "op"
        BY <2>3 DEF Erase, Goto, CommitInv, NoCallInCommit, Committers
      <3> QED
        BY <1>0, <3>1
    <2> QED
      BY <1>3, <2>1, <2>2, <2>3 DEF end_op
  <1>4. ASSUME NEW p \in Procs, sys_sync(p) PROVE PanicInv'
    BY <1>4, PanicSame DEF sys_sync, SyncNow, SyncWaits, SyncAgain, SyncDone, SyncReturn,
                           Goto, logVars
  <1>5. ASSUME NEW p \in Procs, Kill(p) PROVE PanicInv'
    BY <1>5, PanicSame DEF Kill, logVars
  <1>6. ASSUME NEW p \in Procs, NEW b \in Blocks, NEW v \in Vals, log_write(p, b, v)
        PROVE  PanicInv'
    BY <1>0, <1>6 DEF log_write
  <1>7. ASSUME NEW p \in Procs, NEW b \in Blocks, TooBig(p, b) PROVE PanicInv'
    BY <1>7 DEF TooBig, PanicInv, logVars, n
  <1>8. CASE Recovery \/ Crash
    <2>1. \A q \in Procs : pc'[q] # "op"
      BY <1>8 DEF Recovery, ReadHead, RecoverBlock, RecoverDone, Crash, Boot, CommitInv
    <2> QED
      BY <1>0, <2>1
  <1>9. CASE UNCHANGED vars
    BY <1>9, PanicSame DEF vars, logVars
  <1> QED
    BY <1>1, <1>2, <1>3, <1>4, <1>5, <1>6, <1>7, <1>8, <1>9 DEF Next, Step

-----------------------------------------------------------------------------
(* The theorems *)

LEMMA InitInv == Init => IInv
  <1> SUFFICES ASSUME Init PROVE IInv
    OBVIOUS
  <1>1. Types
    BY SlotFacts DEF Init, Types, PCs
  <1>2. DiskTypes
    BY SizeFacts, EmptySeq DEF Init, DiskTypes, n
  <1>3. CountInv
    <2>1. Ops = {} /\ outstanding = 0
      BY DEF Init, Ops
    <2> QED
      BY <2>1, FS_EmptySet DEF CountInv
  <1>4. CommitInv /\ EmptyInv
    BY SlotFacts DEF Init, CommitInv, NoCallInCommit, EmptyInv, Committers
  <1>5. HeadInv /\ CopyInv /\ HomeInv /\ CacheInv
    BY DistinctEmpty, EmptySeq DEF Init, HeadInv, CopyInv, HomeInv, CacheInv, n
  <1> QED
    BY <1>1, <1>2, <1>3, <1>4, <1>5 DEF IInv

\* The invariant of struct log, the cache and the disk is inductive.
THEOREM Invariance == Spec => []IInv
  <1>1. IInv /\ [Next]_vars => IInv'
    <2> SUFFICES ASSUME IInv, [Next]_vars PROVE IInv'
      OBVIOUS
    <2>1. /\ Types /\ DiskTypes /\ CountInv /\ CommitInv /\ EmptyInv
          /\ HeadInv /\ CopyInv /\ HomeInv /\ CacheInv
      BY DEF IInv
    <2>2. Types' /\ DiskTypes' /\ CountInv'
      BY <2>1, TypesStep, DiskTypesStep, CountStep
    <2>3. CommitInv' /\ EmptyInv' /\ HeadInv'
      BY <2>1, CommitStep, EmptyStep, HeadStep
    <2>4. CopyInv' /\ HomeInv' /\ CacheInv'
      BY <2>1, CopyStep, HomeStep, CacheStep
    <2> QED
      BY <2>2, <2>3, <2>4 DEF IInv
  <1> QED
    BY <1>1, InitInv, PTL DEF Spec

\* Every step of the log, of recovery and every crash is a step of the atomic disk,
\* or leaves it as it is: calls that overlap reach the disk together or not at all.
THEOREM ImplementsAtomicDisk == Spec => IsAtomicDisk
  <1>1. Init => D!Init
    <2> SUFFICES ASSUME Init PROVE D!Init
      OBVIOUS
    <2>1. IInv
      BY InitInv
    <2>2. rec = "head" /\ head = <<>>
      BY DEF Init
    <2>3. home \in [Blocks -> Vals]
      BY <2>1 DEF IInv, DiskTypes
    <2>4. Recovered = home
      BY <2>2, <2>3, RecIs, RecEmpty
    <2>5. Ops = {}
      BY DEF Init, Ops
    <2> QED
      BY <2>2, <2>3, <2>4, <2>5 DEF D!Init, Ops
  <1>2. IInv /\ [Next]_vars => [D!Next]_<<Mem, Recovered, Ops>>
    <2> SUFFICES ASSUME IInv, [Next]_vars PROVE [D!Next]_<<Mem, Recovered, Ops>>
      OBVIOUS
    <2>1. Refines
      BY RefineStep
    <2> QED
      BY <2>1 DEF Refines, D!Next, D!Begin, D!Write, D!End, D!Commit, D!Crash, Mem, Ops
  <1> QED
    BY <1>1, <1>2, Invariance, PTL DEF Spec, IsAtomicDisk, D!Spec, Mem, Ops

\* When sync() returns, every call that had ended when it was called is on disk.
THEOREM SyncsAreDurable == Spec => []SyncDurable
  <1>1. Init => SyncInv
    BY DEF Init, SyncInv, Owing, OwedInv
  <1>2. IInv /\ SyncInv /\ [Next]_vars => SyncInv'
    BY SyncStep
  <1>3. SyncInv => SyncDurable
    BY DEF SyncInv, OwedInv, SyncDurable
  <1> QED
    BY <1>1, <1>2, <1>3, Invariance, PTL DEF Spec

\* Nobody sleeps in begin_op() or sys_sync() without something to wait for, or a
\* wakeup(&log) on its way.
THEOREM NobodySleepsOn == Spec => []LogAwake
  <1>1. Init => WaitInv
    BY DEF Init, WaitInv, ChanInv, DueInv, BeginInv, SyncerInv, BeginWaiting, SyncWaiting, PCs
  <1>2. IInv /\ WaitInv /\ [Next]_vars => WaitInv'
    BY WaitStep
  <1>3. IInv /\ WaitInv => LogAwake
    BY DEF WaitInv, DueInv, BeginInv, SyncerInv, BeginWaiting, SyncWaiting, LogAwake, BeginAwake,
           SyncAwake
  <1> QED
    BY <1>1, <1>2, <1>3, Invariance, PTL DEF Spec

\* log_write() panics on no call that has blocks left of its MAXOPBLOCKS, however many
\* calls overlap; none runs while a commit copies the blocks.
THEOREM RoomForCalls == Spec => []Inv
  <1>1. Init => MineInv /\ RoomInv /\ PanicInv
    <2> SUFFICES ASSUME Init PROVE MineInv /\ RoomInv /\ PanicInv
      OBVIOUS
    <2>1. MineInv
      BY FS_EmptySet, SizeFacts DEF Init, MineInv
    <2>2. Free = {}
      BY DEF Init, Free, Ops
    <2>3. Cardinality(Free) = 0
      BY <2>2, FS_EmptySet
    <2>4. n = 0
      BY EmptySeq DEF Init, n
    <2>5. PanicInv
      BY DEF Init, PanicInv, Panicked
    <2> QED
      BY <2>1, <2>3, <2>4, <2>5, SizeFacts DEF RoomInv
  <1>2. IInv /\ IInv' /\ MineInv /\ RoomInv /\ PanicInv /\ [Next]_vars
          => MineInv' /\ RoomInv' /\ PanicInv'
    BY MineStep, RoomStep, PanicStep
  <1>3. IInv /\ MineInv /\ RoomInv /\ PanicInv => Inv
    <2> SUFFICES ASSUME IInv, MineInv, RoomInv, PanicInv PROVE Inv
      OBVIOUS
    <2>1. TypeOK
      BY DEF IInv, Types, DiskTypes, CountInv, Ops, TypeOK
    <2>2. NoCallInCommit
      BY DEF IInv, CommitInv
    <2>3. ASSUME NEW p \in Procs, Panicked(p)
          PROVE  Cardinality(mine[p]) = MAXOPBLOCKS
      <3>1. n \in Nat /\ n >= LOGBLOCKS /\ pc[p] = "op"
        BY <2>3, LenFacts DEF IInv, PanicInv, Panicked
      <3>2. Cardinality(mine[p]) \in Nat /\ Cardinality(mine[p]) <= MAXOPBLOCKS
        BY SizeFacts, FS_CardinalityType DEF MineInv
      <3>3. ~(Cardinality(mine[p]) < MAXOPBLOCKS)
        <4> SUFFICES ASSUME Cardinality(mine[p]) < MAXOPBLOCKS PROVE FALSE
          OBVIOUS
        <4>1. Cardinality(Free) \in Nat /\ Cardinality(Free) > 0
          BY <3>1, FreeNext DEF IInv
        <4> QED
          BY <3>1, <4>1, SizeFacts DEF RoomInv
      <3> QED
        BY <3>2, <3>3, SizeFacts
    <2> QED
      BY <2>1, <2>2, <2>3 DEF Inv, NeverTooBig
  <1> QED
    BY <1>1, <1>2, <1>3, Invariance, PTL DEF Spec
=============================================================================

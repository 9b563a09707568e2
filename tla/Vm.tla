--------------------------------- MODULE Vm ---------------------------------
(***************************************************************************)
(* User memory: the page allocator, the page tables and the calls that     *)
(* build, grow, copy, replace and free an address space (kernel/kalloc.c,  *)
(* vm.c, exec.c, proc.c, sysproc.c).                                       *)
(*                                                                         *)
(* The question is what a failure half-way leaves behind.  kalloc() may    *)
(* return 0 at any call, because pipes, other processes and page tables    *)
(* hold the rest of memory, so every allocation below has a failing        *)
(* outcome, and each caller's clean-up is modelled with it.                *)
(*                                                                         *)
(* A physical page is named by what it was allocated for; kmem.freelist is *)
(* every other page.  Only its owner uses a page, and kmem.lock makes      *)
(* kalloc() and kfree() atomic, so one step allocates and maps one page,   *)
(* and one step frees a whole address space.                               *)
(***************************************************************************)
EXTENDS Integers, Sequences, FiniteSets, Functions

CONSTANTS
  N,         \* processes 1..N; 1 is initproc
  PGSIZE,    \* bytes of a page
  FANOUT,    \* entries of a page-table page (512 in the code)
  MAXARG,    \* longest argv
  Deltas,    \* what sbrk() is asked for, in bytes
  Images,    \* program files: sequences of segments [va, memsz, filesz, w]
  Workloads  \* what the processes may do: functions from a process to a set of calls

ASSUME VmAssumption ==
  /\ N \in Nat \ {0} /\ PGSIZE \in Nat \ {0} /\ MAXARG \in Nat
  /\ FANOUT \in Nat \ {0, 1}
  /\ Deltas \subseteq Int

VARIABLES
  m,       \* memory: pages allocated, page tables, whether it is corrupt
  st,      \* st[p]: UNUSED, USED (being forked), LIVE, ZOMBIE
  sz,      \* p->sz, in bytes
  pt,      \* which of p's two address spaces is p->pagetable
  parent,  \* p->parent, 0 when none
  call,    \* what p is doing in the kernel
  work     \* the calls each process makes, one of Workloads

vars == <<m, st, sz, pt, parent, call, work>>

Procs == 1..N
initproc == 1
Spaces == Procs \X {0, 1}

\* Virtual pages.  A Sv39 tree has three levels, but MAXVA is half of it.
TRAMPOLINE == FANOUT * FANOUT * FANOUT - 1
TRAPFRAME == TRAMPOLINE - 1
UserPages == 0..TRAPFRAME - 1
MaxSize == TRAPFRAME * PGSIZE

\* kexec() goes to bad: when memsz < filesz.  It does not check that a program
\* leaves room for its stack below the trapframe: kalloc() fails long before.
ASSUME ImageAssumption ==
  \A image \in Images :
    /\ image \in Seq([va : Nat, memsz : Nat, filesz : Nat, w : BOOLEAN])
    /\ \A k \in 1..Len(image) :
         /\ image[k].filesz <= image[k].memsz
         /\ image[k].va * PGSIZE + image[k].memsz <= MaxSize - 2 * PGSIZE

PagesOf(bytes) == (bytes + PGSIZE - 1) \div PGSIZE

\* The names of physical pages.
User(s, v) == <<"user", s, v>>
TFrame(p) == <<"trapframe", p>>
Arg(p, i) == <<"arg", p, i>>
Root(s) == <<"table", s, 2, 0>>
Text == <<"trampoline">>    \* in the kernel image: never allocated
Path(s, v) == << <<"table", s, 1, v \div (FANOUT * FANOUT)>>,
                 <<"table", s, 0, v \div FANOUT>> >>

Space(p) == <<p, pt[p]>>
Other(p) == <<p, 1 - pt[p]>>

-----------------------------------------------------------------------------
(* kalloc() and kfree().  What a page holds is "junk", "zero" or "data".   *)

Filled(mm, pas, what) ==
  [mm EXCEPT !.page = [pa \in pas \cup DOMAIN @ |-> IF pa \in pas THEN what ELSE @[pa]]]

Kalloc(mm, pa) == Filled(mm, {pa}, "junk")

\* A page freed twice would be on the free list twice.
Kfree(mm, pas) ==
  [mm EXCEPT !.page = Restrict(@, DOMAIN @ \ pas),
             !.corrupt = @ \/ ~(pas \subseteq DOMAIN mm.page)]

Ok(mm) == [ok |-> TRUE, m |-> mm]
Fail(mm) == [ok |-> FALSE, m |-> mm]
Panic(mm) == [mm EXCEPT !.corrupt = TRUE]

-----------------------------------------------------------------------------
(* Page tables.  The operators below return the outcomes a call may have.  *)

\* walk(pagetable, va, 1) fails at a table that is not there.  The tables it
\* added before stay linked.
Walk(mm, s, v) ==
  LET path == Path(s, v)
      Adding(k) == LET new == {path[i] : i \in 1..k} \ mm.tab[s]
                   IN [Filled(mm, new, "zero") EXCEPT !.tab[s] = @ \cup new]
  IN {[ok |-> k = 2, m |-> Adding(k)] : k \in {j \in 0..2 : j < 2 => path[j + 1] \notin mm.tab[s]}}

MapPages(mm, s, v, pa, perm) ==
  {IF ~r.ok THEN r
   ELSE IF v \in DOMAIN r.m.leaf[s] THEN Ok(Panic(r.m))
   ELSE Ok([r.m EXCEPT !.leaf[s] =
              [x \in {v} \cup DOMAIN @ |->
                 IF x = v THEN [pa |-> pa, w |-> perm.w, u |-> perm.u] ELSE @[x]]])
   : r \in Walk(mm, s, v)}

Uvmunmap(mm, s, vs, free) ==
  LET hit == vs \cap DOMAIN mm.leaf[s]
      pas == {mm.leaf[s][v].pa : v \in hit}
      mm1 == IF free THEN Kfree(mm, pas) ELSE mm
  IN [mm1 EXCEPT !.leaf[s] = Restrict(@, DOMAIN @ \ hit)]

\* freewalk() panics when it meets a page that is still mapped.
Freewalk(mm, s) ==
  IF DOMAIN mm.leaf[s] # {} THEN Panic(mm)
  ELSE [Kfree(mm, mm.tab[s]) EXCEPT !.tab[s] = {}]

Uvmfree(mm, s, size) == Freewalk(Uvmunmap(mm, s, 0..PagesOf(size) - 1, TRUE), s)

NoUser(w) == [w |-> w, u |-> FALSE]
ForUser(w) == [w |-> w, u |-> TRUE]

ProcPagetable(mm, s, p) ==
  LET root == [Filled(mm, {Root(s)}, "zero") EXCEPT !.tab[s] = {Root(s)}]
      Undo(mm1) == Fail(Uvmfree(mm1, s, 0))
  IN {Fail(mm)} \cup
     UNION {IF ~r.ok THEN {Undo(r.m)}
            ELSE {IF q.ok THEN q
                  ELSE Undo(Uvmunmap(q.m, s, {TRAMPOLINE}, FALSE))
                  : q \in MapPages(r.m, s, TRAPFRAME, TFrame(p), NoUser(TRUE))}
            : r \in MapPages(root, s, TRAMPOLINE, Text, NoUser(FALSE))}

ProcFreePagetable(mm, s, size) ==
  Uvmfree(Uvmunmap(mm, s, {TRAMPOLINE, TRAPFRAME}, FALSE), s, size)

\* Seeded fault: the page is not freed when it cannot be mapped.
NewPageLost(mm, s, v, what, perm) ==
  LET pa == User(s, v)
  IN {Fail(mm)} \cup MapPages(Filled(Kalloc(mm, pa), {pa}, what), s, v, pa, perm)

\* What uvmalloc(), uvmcopy() and vmfault() do for one page.
NewPage(mm, s, v, what, perm) ==
  LET pa == User(s, v)
  IN {Fail(mm)} \cup
     {IF r.ok THEN r ELSE Fail(Kfree(r.m, {pa}))
      : r \in MapPages(Filled(Kalloc(mm, pa), {pa}, what), s, v, pa, perm)}

Mapped(mm, s, v) == v \in DOMAIN mm.leaf[s]
Walkaddr(mm, s, v) == Mapped(mm, s, v) /\ mm.leaf[s][v].u

\* A load, store or kernel copy at byte va of a page not mapped for the user.
Vmfault(mm, s, size, va) ==
  LET v == va \div PGSIZE
  IN IF va >= size \/ Mapped(mm, s, v) THEN {Fail(mm)}
     ELSE NewPage(mm, s, v, "zero", ForUser(TRUE))

\* The page of user memory a copyin() or a copyout() is about to use.
Copyin(mm, s, size, v) ==
  IF Walkaddr(mm, s, v) THEN {Ok(mm)} ELSE Vmfault(mm, s, size, v * PGSIZE)

Copyout(mm, s, size, v) ==
  {IF r.ok /\ ~r.m.leaf[s][v].w THEN Fail(r.m) ELSE r
   : r \in Copyin(mm, s, size, v)}

FreeProc(mm, p, size) ==
  ProcFreePagetable(Kfree(mm, {TFrame(p)}), Space(p), size)

-----------------------------------------------------------------------------
(* The kernel's work for p.  A call's record: `pc', where it is; [from, to) *)
(* and `a', the loop of uvmalloc() or uvmcopy() in pages, and `new' the     *)
(* size it makes; `w', the permission; `sz', kexec()'s sz; `segs', the      *)
(* segments to load; `args', the argv pages; `child', fork()'s np.          *)

User0 == [pc |-> "user", from |-> 0, a |-> 0, new |-> 0, w |-> FALSE,
          sz |-> 0, segs |-> <<>>, args |-> 0, child |-> 0]

At(p, pc) == st[p] = "LIVE" /\ call[p].pc = pc
Go(p, c) == call' = [call EXCEPT ![p] = c]
Enters(p, what) == At(p, "user") /\ what \in work[p]

\* What the process table is when only memory changes.
SameProcs == UNCHANGED <<st, sz, pt, parent>>

\* usertrap(): a page fault is a lazy page or the end of the process.
Exits(p) ==
  /\ p # initproc
  /\ st' = [st EXCEPT ![p] = "ZOMBIE"]
  /\ parent' = [q \in Procs |-> IF parent[q] = p THEN initproc ELSE parent[q]]
  /\ call' = [call EXCEPT ![p] = User0]
  /\ UNCHANGED <<sz, pt>>

PageFault(p) ==
  /\ Enters(p, "fault")
  /\ \E va \in 0..MaxSize : \E r \in Vmfault(m, Space(p), sz[p], va) :
       /\ ~Walkaddr(m, Space(p), va \div PGSIZE)
       /\ m' = r.m
       /\ IF r.ok THEN SameProcs /\ UNCHANGED call ELSE Exits(p)

Kexit(p) == Enters(p, "exit") /\ Exits(p) /\ UNCHANGED m

\* sys_sbrk(): growproc(), or only a larger size when lazy.
\* sz + n is a uint64: below zero it is huge, and uvmdealloc() does nothing.
Shrink(p, n) ==
  /\ n < 0
  /\ UNCHANGED <<st, pt, parent, call>>
  /\ IF sz[p] + n < 0 THEN UNCHANGED <<m, sz>>
     ELSE /\ m' = Uvmunmap(m, Space(p), PagesOf(sz[p] + n)..PagesOf(sz[p]) - 1, TRUE)
          /\ sz' = [sz EXCEPT ![p] = @ + n]

GrowLazy(p, n) ==
  /\ n >= 0
  /\ sz' = [sz EXCEPT ![p] = IF @ + n > MaxSize THEN @ ELSE @ + n]
  /\ UNCHANGED <<m, st, pt, parent, call>>

\* Seeded fault: oldsz is not rounded up to a page.
UvmallocNoRound(c, pc, old, new, w) ==
  [c EXCEPT !.pc = pc, !.from = old \div PGSIZE, !.a = old \div PGSIZE,
            !.new = IF new < old THEN old ELSE new, !.w = w]

\* The start of uvmalloc(); `c' is the call it returns to.
Uvmalloc(c, pc, old, new, w) ==
  [c EXCEPT !.pc = pc, !.from = PagesOf(old), !.a = PagesOf(old),
            !.new = IF new < old THEN old ELSE new, !.w = w]

GrowEager(p, n) ==
  /\ n > 0
  /\ sz[p] + n <= MaxSize
  /\ Go(p, Uvmalloc(User0, "sbrk", sz[p], sz[p] + n, TRUE))
  /\ UNCHANGED <<m>> /\ SameProcs

Sbrk(p) ==
  /\ Enters(p, "sbrk")
  /\ \E n \in Deltas : Shrink(p, n) \/ GrowLazy(p, n) \/ GrowEager(p, n)

\* One page of uvmalloc()'s loop in address space s: memory after it.  When
\* there is none left, what the loop has mapped is given back, and it returns 0.
UvmallocMore(p) == call[p].a * PGSIZE < call[p].new

UvmallocPage(p, s) ==
  LET c == call[p]
  IN {IF r.ok THEN r ELSE [r EXCEPT !.m = Uvmunmap(@, s, c.from..c.a - 1, TRUE)] :
        r \in NewPage(m, s, c.a, "zero", ForUser(c.w))}

NextPage(p, mm) ==
  m' = mm /\ Go(p, [call[p] EXCEPT !.a = @ + 1]) /\ SameProcs

SbrkPage(p) ==
  /\ At(p, "sbrk") /\ UvmallocMore(p)
  /\ \E r \in UvmallocPage(p, Space(p)) :
       IF r.ok THEN NextPage(p, r.m)
       ELSE m' = r.m /\ Go(p, User0) /\ SameProcs

SbrkDone(p) ==
  /\ At(p, "sbrk") /\ ~UvmallocMore(p)
  /\ sz' = [sz EXCEPT ![p] = call[p].new]
  /\ Go(p, User0)
  /\ UNCHANGED <<m, st, pt, parent>>

-----------------------------------------------------------------------------
(* exec().                                                                 *)

ArgPages(p) == {Arg(p, i) : i \in 1..call[p].args}

\* sys_exec() frees the argv pages whatever kexec() returned.
ExecReturns(p, mm) == m' = Kfree(mm, ArgPages(p)) /\ Go(p, User0)

ExecFails(p, mm) == ExecReturns(p, mm) /\ SameProcs

\* Seeded fault: bad: frees the memory the process still runs in.
BadOld(p, mm) == ExecFails(p, ProcFreePagetable(mm, Space(p), sz[p]))

\* kexec()'s bad: label, with a page table to free.
Bad(p, mm) == ExecFails(p, ProcFreePagetable(mm, Other(p), call[p].sz))

ExecStart(p) ==
  /\ Enters(p, "exec")
  /\ Go(p, [User0 EXCEPT !.pc = "args"])
  /\ UNCHANGED m /\ SameProcs

\* One argument: fetchaddr() of its pointer, kalloc(), fetchstr() of its text.
FetchArg(p) ==
  /\ At(p, "args")
  /\ \E v, u \in UserPages : \E r \in Copyin(m, Space(p), sz[p], v) :
       IF ~r.ok \/ call[p].args = MAXARG THEN ExecFails(p, r.m)
       ELSE \/ ExecFails(p, r.m)
            \/ LET pa == Arg(p, call[p].args + 1)
                   c == [call[p] EXCEPT !.args = @ + 1]
               IN \E q \in Copyin(Kalloc(r.m, pa), Space(p), sz[p], u) :
                    /\ SameProcs
                    /\ IF q.ok
                       THEN m' = Filled(q.m, {pa}, "data") /\ Go(p, c)
                       ELSE /\ m' = Kfree(q.m, ArgPages(p) \cup {pa})
                            /\ Go(p, User0)

\* Names and ELF headers may be bad before there is a page table to free.
ExecOpen(p) ==
  /\ At(p, "args")
  /\ \/ ExecFails(p, m)
     \/ \E image \in Images : \E r \in ProcPagetable(m, Other(p), p) :
          IF ~r.ok THEN ExecFails(p, r.m)
          ELSE /\ m' = r.m
               /\ Go(p, [call[p] EXCEPT !.pc = "load", !.segs = image])
               /\ SameProcs

\* The next program header, which may be unreadable or bad.  uvmalloc() to
\* size 0 returns 0: an error.
LoadSegment(p) ==
  /\ At(p, "load") /\ call[p].segs # <<>>
  /\ LET seg == Head(call[p].segs)
         c == Uvmalloc(call[p], "seg", call[p].sz, seg.va * PGSIZE + seg.memsz, seg.w)
     IN \/ Bad(p, m)
        \/ c.new # 0 /\ Go(p, c) /\ UNCHANGED m /\ SameProcs

SegmentPage(p) ==
  /\ At(p, "seg") /\ UvmallocMore(p)
  /\ \E r \in UvmallocPage(p, Other(p)) :
       IF r.ok THEN NextPage(p, r.m) ELSE Bad(p, r.m)

\* loadseg(): the pages must be there, and reading the file may fail.
LoadSeg(p) ==
  LET seg == Head(call[p].segs)
      vs == seg.va..seg.va + PagesOf(seg.filesz) - 1
      c == [call[p] EXCEPT !.sz = call[p].new]
  IN /\ At(p, "seg") /\ ~UvmallocMore(p)
     /\ IF \E v \in vs : ~Walkaddr(m, Other(p), v)
        THEN m' = Panic(m) /\ SameProcs /\ UNCHANGED call
        ELSE \/ ExecFails(p, ProcFreePagetable(m, Other(p), call[p].new))
             \/ /\ m' = Filled(m, {m.leaf[Other(p)][v].pa : v \in vs}, "data")
                /\ Go(p, [c EXCEPT !.pc = "load", !.segs = Tail(@)])
                /\ SameProcs

\* USERSTACK is 1: a guard page and a page of stack above the program.
AllocStack(p) ==
  /\ At(p, "load") /\ call[p].segs = <<>>
  /\ LET base == PagesOf(call[p].sz) * PGSIZE
     IN Go(p, [Uvmalloc(call[p], "stack", base, base + 2 * PGSIZE, TRUE)
                 EXCEPT !.sz = base])
  /\ UNCHANGED m /\ SameProcs

StackPage(p) ==
  /\ At(p, "stack") /\ UvmallocMore(p)
  /\ \E r \in UvmallocPage(p, Other(p)) :
       IF r.ok THEN NextPage(p, r.m) ELSE Bad(p, r.m)

Uvmclear(mm, s, v) ==
  IF Mapped(mm, s, v) THEN [mm EXCEPT !.leaf[s][v].u = FALSE] ELSE Panic(mm)

\* The arguments go to the stack, if they fit; then the commit.
Commit(p) ==
  LET s == Other(p)
      guard == call[p].new \div PGSIZE - 2
      cleared == Uvmclear(m, s, guard)
  IN /\ At(p, "stack") /\ ~UvmallocMore(p)
     /\ \E r \in Copyout(cleared, s, call[p].new, guard + 1) :
          \/ ExecFails(p, ProcFreePagetable(r.m, s, call[p].new))
          \/ /\ r.ok
             /\ ExecReturns(p, ProcFreePagetable(
                  Filled(r.m, {r.m.leaf[s][guard + 1].pa}, "data"), Space(p), sz[p]))
             /\ pt' = [pt EXCEPT ![p] = 1 - @]
             /\ sz' = [sz EXCEPT ![p] = call[p].new]
             /\ UNCHANGED <<st, parent>>

-----------------------------------------------------------------------------
(* fork(), wait().                                                         *)

\* allocproc(): when it fails the slot is UNUSED again.
Fork(p) ==
  /\ Enters(p, "fork")
  /\ \E c \in Procs :
       /\ st[c] = "UNUSED"
       /\ \/ UNCHANGED <<m, st, call>>
          \/ \E r \in ProcPagetable(Kalloc(m, TFrame(c)), Space(c), c) :
               IF r.ok THEN /\ m' = r.m
                            /\ st' = [st EXCEPT ![c] = "USED"]
                            /\ Go(p, [User0 EXCEPT !.pc = "copy", !.child = c])
               ELSE m' = Kfree(r.m, {TFrame(c)}) /\ UNCHANGED <<st, call>>
  /\ UNCHANGED <<sz, pt, parent>>

\* Seeded fault: the copy ends at the first hole.
CopyPageNoHole(p) ==
  LET c == call[p].child
      v == call[p].a
      old == m.leaf[Space(p)]
  IN /\ At(p, "copy") /\ v * PGSIZE < sz[p]
     /\ UNCHANGED <<sz, pt, parent>>
     /\ IF v \notin DOMAIN old
        THEN Go(p, [call[p] EXCEPT !.a = PagesOf(sz[p])]) /\ UNCHANGED <<m, st>>
        ELSE \E r \in NewPage(m, Space(c), v, m.page[old[v].pa], old[v]) :
               /\ r.ok /\ m' = r.m /\ UNCHANGED st
               /\ Go(p, [call[p] EXCEPT !.a = @ + 1])

\* One page of uvmcopy(): a hole stays a hole; err: unmaps what was copied.
CopyPage(p) ==
  LET c == call[p].child
      v == call[p].a
      next == [call[p] EXCEPT !.a = @ + 1]
      old == m.leaf[Space(p)]
  IN /\ At(p, "copy") /\ v * PGSIZE < sz[p]
     /\ UNCHANGED <<sz, pt, parent>>
     /\ IF v \notin DOMAIN old THEN Go(p, next) /\ UNCHANGED <<m, st>>
        ELSE \E r \in NewPage(m, Space(c), v, m.page[old[v].pa], old[v]) :
               IF r.ok THEN m' = r.m /\ Go(p, next) /\ UNCHANGED st
               ELSE /\ m' = FreeProc(Uvmunmap(r.m, Space(c), 0..v - 1, TRUE), c, sz[c])
                    /\ st' = [st EXCEPT ![c] = "UNUSED"]
                    /\ Go(p, User0)

Forked(p) ==
  LET c == call[p].child
  IN /\ At(p, "copy") /\ call[p].a * PGSIZE >= sz[p]
     /\ sz' = [sz EXCEPT ![c] = sz[p]]
     /\ st' = [st EXCEPT ![c] = "LIVE"]
     /\ parent' = [parent EXCEPT ![c] = p]
     /\ Go(p, User0)
     /\ UNCHANGED <<m, pt>>

\* kwait(addr): the status is copied out before the child is freed, and a
\* bad address leaves the child to another wait().
Kwait(p) ==
  /\ Enters(p, "wait")
  /\ \E c \in Procs :
       /\ parent[c] = p /\ st[c] = "ZOMBIE"
       /\ \E r \in {Ok(m)} \cup UNION {Copyout(m, Space(p), sz[p], v) : v \in UserPages} :
            IF ~r.ok THEN m' = r.m /\ UNCHANGED <<st, sz, parent>>
            ELSE /\ m' = FreeProc(r.m, c, sz[c])
                 /\ st' = [st EXCEPT ![c] = "UNUSED"]
                 /\ sz' = [sz EXCEPT ![c] = 0]
                 /\ parent' = [parent EXCEPT ![c] = 0]
  /\ UNCHANGED <<pt, call>>

-----------------------------------------------------------------------------
\* The first process, once it runs /init: text, guard, stack.
Init ==
  LET s == <<1, 0>>
      vs == {0, 1, 2, TRAPFRAME, TRAMPOLINE}
      perm == [v \in vs |-> [pa |-> CASE v = TRAMPOLINE -> Text
                                      [] v = TRAPFRAME -> TFrame(1)
                                      [] OTHER -> User(s, v),
                             w |-> v \in {1, 2, TRAPFRAME}, u |-> v \in {0, 2}]]
      tables == {Root(s)} \cup UNION {Range(Path(s, v)) : v \in vs}
      none == [page |-> <<>>, corrupt |-> FALSE,
               tab |-> [x \in Spaces |-> IF x = s THEN tables ELSE {}],
               leaf |-> [x \in Spaces |-> IF x = s THEN perm ELSE <<>>]]
  IN /\ m = Filled(Filled(Filled(none, tables \cup {User(s, 1)}, "zero"),
                          {User(s, 0), User(s, 2)}, "data"), {TFrame(1)}, "junk")
     /\ st = [p \in Procs |-> IF p = 1 THEN "LIVE" ELSE "UNUSED"]
     /\ sz = [p \in Procs |-> IF p = 1 THEN 3 * PGSIZE ELSE 0]
     /\ pt = [p \in Procs |-> 0]
     /\ parent = [p \in Procs |-> 0]
     /\ call = [p \in Procs |-> User0]
     /\ work \in Workloads

Exec(p) == \/ ExecStart(p) \/ FetchArg(p) \/ ExecOpen(p)
           \/ LoadSegment(p) \/ SegmentPage(p) \/ LoadSeg(p)
           \/ AllocStack(p) \/ StackPage(p) \/ Commit(p)

Next ==
  /\ \E p \in Procs :
       \/ PageFault(p) \/ Kexit(p)
       \/ Sbrk(p) \/ SbrkPage(p) \/ SbrkDone(p)
       \/ Exec(p)
       \/ Fork(p) \/ CopyPage(p) \/ Forked(p) \/ Kwait(p)
  /\ UNCHANGED work

Spec == Init /\ [][Next]_vars

-----------------------------------------------------------------------------
(* Properties.                                                             *)

\* Every variable holds a value of its type.
TypeOK ==
  /\ m.corrupt \in BOOLEAN
  /\ \A pa \in DOMAIN m.page : m.page[pa] \in {"junk", "zero", "data"}
  /\ \A s \in Spaces : DOMAIN m.leaf[s] \subseteq 0..TRAMPOLINE
  /\ st \in [Procs -> {"UNUSED", "USED", "LIVE", "ZOMBIE"}]
  /\ sz \in [Procs -> 0..MaxSize]
  /\ pt \in [Procs -> {0, 1}]
  /\ parent \in [Procs -> 0..N]
  /\ \A p \in Procs : call[p].pc \in {"user", "sbrk", "args", "load", "seg", "stack", "copy"}
  /\ work \in Workloads

\* The user pages an address space maps.
Heap(mm, s) == DOMAIN mm.leaf[s] \ {TRAMPOLINE, TRAPFRAME}

\* Nothing is lost and nothing is shared: the pages kalloc() gave out are
\* exactly the page tables, the trapframes, the argument pages and the user
\* pages of the processes, each with one user, whatever ran out half-way
\* (uvmalloc(), uvmcopy(), kexec()'s bad:, sys_exec()'s bad:).
OwnedOnce ==
  LET maps == UNION {{<<s, v>> : v \in Heap(m, s)} : s \in Spaces}
      pa(x) == m.leaf[x[1]][x[2]].pa
  IN /\ \A x, y \in maps : pa(x) = pa(y) => x = y
     /\ DOMAIN m.page = {pa(x) : x \in maps}
          \cup (UNION {m.tab[s] : s \in Spaces})
          \cup {TFrame(p) : p \in {q \in Procs : st[q] # "UNUSED"}}
          \cup UNION {ArgPages(p) : p \in Procs}

\* No caller breaks the rule of the function it calls: freewalk() meets no
\* mapped page, mappages() no mapped entry, loadseg() and uvmclear() no
\* missing page, and kfree() gets no page twice.
NoPanic == ~m.corrupt

\* A process has no page above its size, where the next sbrk() would meet it
\* and exit() would not free it: a failed uvmalloc() gave its pages back.
FitsSize ==
  \A p \in Procs : st[p] \in {"LIVE", "ZOMBIE"} /\ call[p].pc # "sbrk" =>
    Heap(m, Space(p)) \subseteq 0..PagesOf(sz[p]) - 1

\* No process reads what a page held before it was its own, and no page
\* table is built on it: kalloc() returns junk.
NoJunk ==
  \A s \in Spaces :
    /\ \A v \in Heap(m, s) : m.page[m.leaf[s][v].pa] # "junk"
    /\ \A t \in m.tab[s] : m.page[t] = "zero"

\* What the calls of vm.c keep of every address space, whichever of them fails
\* half-way.
Inv == TypeOK /\ NoPanic /\ FitsSize /\ NoJunk

\* A child starts with its parent's memory: the same size, the same pages
\* with the same contents and permissions, and the same holes for vmfault()
\* to fill (uvmcopy()).
ForkCopies ==
  [][\A c \in Procs : st[c] = "USED" /\ st'[c] = "LIVE" =>
       LET p == parent'[c]
           old == m.leaf[Space(p)]
           new == m'.leaf[Space(c)]
       IN /\ sz'[c] = sz[p]
          /\ Heap(m', Space(c)) = Heap(m, Space(p))
          /\ \A v \in Heap(m, Space(p)) :
               /\ new[v].w = old[v].w /\ new[v].u = old[v].u
               /\ m'.page[new[v].pa] = m.page[old[v].pa]]_vars

\* Until kexec() commits, the process keeps its old memory, whole: a step of
\* exec() that does not switch the page table changes no size and takes no
\* page away, so a failed exec() can return to the program that called it.
ExecKeepsOld ==
  [][\A p \in Procs :
       call[p].pc \in {"args", "load", "seg", "stack"} /\ pt'[p] = pt[p] =>
         /\ sz'[p] = sz[p]
         /\ \A v \in Heap(m, Space(p)) :
              /\ v \in Heap(m', Space(p))
              /\ m'.leaf[Space(p)][v] = m.leaf[Space(p)][v]]_vars

=============================================================================

------------------------------ MODULE VmProofs ------------------------------
(***************************************************************************)
(* User memory, for any number of processes, any size of a page and of a   *)
(* page table, any program files and any calls: whatever fails half-way,   *)
(* no page is lost, shared or freed twice.                                 *)
(***************************************************************************)
EXTENDS Vm, TLAPS

-----------------------------------------------------------------------------
(* The inductive invariant *)

Segment0 == [va : Nat, memsz : Nat, filesz : Nat, w : BOOLEAN]
Pcs == {"user", "sbrk", "args", "load", "seg", "stack", "copy"}
CallRec == [pc : Pcs, from : Nat, a : Nat, new : 0..MaxSize, w : BOOLEAN, sz : 0..MaxSize,
            segs : Seq(Segment0), args : Nat, child : {0} \cup Procs]

Types ==
    /\ st \in [Procs -> {"UNUSED", "USED", "LIVE", "ZOMBIE"}]
    /\ sz \in [Procs -> 0..MaxSize]
    /\ pt \in [Procs -> {0, 1}]
    /\ parent \in [Procs -> {0} \cup Procs]
    /\ call \in [Procs -> CallRec]

\* memory is a record, and its tables functions of the address spaces
IsMem(mm) ==
    /\ mm = [page |-> mm.page, corrupt |-> mm.corrupt, tab |-> mm.tab, leaf |-> mm.leaf]
    /\ mm.tab = [s \in Spaces |-> mm.tab[s]]
    /\ mm.leaf = [s \in Spaces |-> mm.leaf[s]]

Tables(s) == {"table"} \X {s} \X Nat \X Nat

\* the pages of an address space, each named for its place
Pages(mm, s) == mm.tab[s] \cup {User(s, v) : v \in Heap(mm, s)}

\* an address space: its pages are allocated, and hold what they should
SpaceOK(mm, s) ==
    /\ DOMAIN mm.leaf[s] \subseteq 0..TRAMPOLINE
    /\ \A v \in Heap(mm, s) : mm.leaf[s][v].pa = User(s, v)
    /\ \A v \in Heap(mm, s) : User(s, v) \in DOMAIN mm.page /\ mm.page[User(s, v)] \in {"zero", "data"}
    /\ \A t \in mm.tab[s] : t \in Tables(s) /\ t \in DOMAIN mm.page /\ mm.page[t] = "zero"

\* pages that are in no address space
Loose(mm, X) == \A x \in X : \A s \in Spaces : x \notin Tables(s) /\ x \notin Pages(mm, s)

\* the pages given out are those of the address spaces and those in X
Exact(mm, X) ==
    /\ IsMem(mm)
    /\ mm.corrupt = FALSE
    /\ \A s \in Spaces : SpaceOK(mm, s)
    /\ X \subseteq DOMAIN mm.page /\ Loose(mm, X)
    /\ \A x \in DOMAIN mm.page : /\ mm.page[x] \in {"junk", "zero", "data"}
                                 /\ x \in X \/ \E s \in Spaces : x \in Pages(mm, s)

Others == {TFrame(p) : p \in {q \in Procs : st[q] # "UNUSED"}} \cup UNION {ArgPages(p) : p \in Procs}

\* an address space that is not there
Gone(mm, s) == DOMAIN mm.leaf[s] = {} /\ mm.tab[s] = {}

\* one that exec() has built n pages of: there are no holes
Solid(mm, s, n) == Heap(mm, s) = 0..n - 1 /\ \A v \in 0..n - 1 : mm.leaf[s][v].u

Below(mm, s, n) == Heap(mm, s) \subseteq 0..n - 1

Fits(seg) == seg.filesz <= seg.memsz /\ seg.va * PGSIZE + seg.memsz <= MaxSize - 2 * PGSIZE

\* where a process is in sbrk(), exec() and fork(), and what it has
CallOf(p) ==
    LET c == call[p]
    IN  /\ st[p] # "LIVE" => c.pc = "user"
        /\ c.pc \in {"user", "sbrk", "copy"} => c.args = 0
        /\ c.pc = "sbrk" => /\ c.from = PagesOf(sz[p]) /\ sz[p] <= c.new
                            /\ c.from <= c.a /\ c.a <= PagesOf(c.new)
                            /\ Below(m, Space(p), c.a)
        /\ c.pc = "args" => c.sz = 0
        /\ c.pc \in {"load", "seg"} =>
              /\ c.sz <= MaxSize - 2 * PGSIZE
              /\ \A k \in 1..Len(c.segs) : Fits(c.segs[k])
        /\ c.pc = "load" => Solid(m, Other(p), PagesOf(c.sz))
        /\ c.pc = "seg" => /\ c.segs # << >> /\ c.new <= MaxSize - 2 * PGSIZE
                           /\ Head(c.segs).va * PGSIZE + Head(c.segs).memsz <= c.new
        /\ c.pc = "stack" => c.sz = c.from * PGSIZE /\ c.new = (c.from + 2) * PGSIZE
        /\ c.pc \in {"seg", "stack"} => /\ c.from = PagesOf(c.sz) /\ c.sz <= c.new
                                        /\ c.from <= c.a /\ c.a <= PagesOf(c.new)
                                        /\ Solid(m, Other(p), c.a)
        /\ c.pc = "copy" => /\ c.child \in Procs /\ st[c.child] = "USED"
                            /\ c.a <= PagesOf(sz[p])
                            /\ Below(m, Space(c.child), c.a)
                            /\ \A q \in Procs : call[q].pc = "copy" /\ call[q].child = c.child => q = p

SpaceOf(p) ==
    /\ st[p] = "UNUSED" => Gone(m, Space(p))
    /\ call[p].pc \notin {"load", "seg", "stack"} => Gone(m, Other(p))
    /\ st[p] \in {"LIVE", "ZOMBIE"} /\ call[p].pc # "sbrk" => Below(m, Space(p), PagesOf(sz[p]))

\* what fork() has copied
Copied(p) ==
    call[p].pc = "copy" =>
        LET s == Space(p)
            t == Space(call[p].child)
        IN  /\ \A v \in 0..call[p].a - 1 : v \in Heap(m, s) <=> v \in Heap(m, t)
            /\ \A v \in Heap(m, t) : /\ m.leaf[t][v].w = m.leaf[s][v].w
                                     /\ m.leaf[t][v].u = m.leaf[s][v].u
                                     /\ m.page[User(t, v)] = m.page[User(s, v)]

IInv == /\ Types /\ Exact(m, Others)
        /\ \A p \in Procs : CallOf(p)
        /\ \A p \in Procs : SpaceOf(p)
        /\ \A p \in Procs : Copied(p)

-----------------------------------------------------------------------------
(* Numbers and names *)

\* the sizes, from VmAssumption: there is room for a text, a guard and a stack page
LEMMA Numbers ==
    /\ PGSIZE \in Nat \ {0} /\ FANOUT \in Nat \ {0}
    /\ TRAPFRAME \in Nat /\ TRAPFRAME >= 3 /\ TRAMPOLINE = TRAPFRAME + 1
    /\ MaxSize \in Nat /\ MaxSize = TRAPFRAME * PGSIZE
  <1>1. PGSIZE \in Nat \ {0} /\ FANOUT \in Nat /\ FANOUT >= 2
    BY VmAssumption
  <1>2. FANOUT * FANOUT \in Nat /\ FANOUT * FANOUT >= 2 * FANOUT
    BY <1>1
  <1>3. FANOUT * FANOUT * FANOUT \in Nat /\ FANOUT * FANOUT * FANOUT >= 2 * (FANOUT * FANOUT)
    <2>1. PICK f \in Nat : f = FANOUT * FANOUT
      BY <1>2
    <2>2. f * FANOUT \in Nat /\ f * FANOUT >= 2 * f
      BY <1>1, <2>1
    <2> QED
      BY <2>1, <2>2
  <1>4. TRAPFRAME \in Nat /\ TRAPFRAME >= 3 /\ TRAMPOLINE = TRAPFRAME + 1
    BY <1>1, <1>2, <1>3 DEF TRAPFRAME, TRAMPOLINE
  <1>5. MaxSize \in Nat /\ MaxSize = TRAPFRAME * PGSIZE
    BY <1>1, <1>4 DEF MaxSize
  <1> QED
    BY <1>1, <1>4, <1>5

\* \div, as division with a remainder
LEMMA DivMod ==
    ASSUME NEW a \in Int, NEW b \in Nat \ {0}
    PROVE  a \div b \in Int /\ b * (a \div b) <= a /\ a < b * (a \div b) + b
  OBVIOUS

LEMMA Larger ==
    ASSUME NEW b \in Nat, NEW x \in Int, NEW y \in Int, x <= y
    PROVE  b * x <= b * y
  <1>1. PICK d \in Nat : y = x + d
    BY y - x \in Nat
  <1>2. b * y = b * x + b * d /\ b * d \in Nat /\ b * x \in Int
    BY <1>1
  <1> QED
    BY <1>2

\* the pages that hold n bytes
LEMMA PagesLess ==
    ASSUME NEW n \in Nat
    PROVE  /\ PagesOf(n) \in Nat
           /\ \A v \in Int : v < PagesOf(n) <=> v * PGSIZE < n
  <1>1. PGSIZE \in Nat \ {0} /\ n + PGSIZE - 1 \in Nat
    BY Numbers
  <1>2. PICK q \in Int : q = PagesOf(n) /\ PGSIZE * q <= n + PGSIZE - 1 /\ n + PGSIZE - 1 < PGSIZE * q + PGSIZE
    BY <1>1, DivMod DEF PagesOf
  <1>3. q >= 0
    <2> SUFFICES ASSUME q <= 0 - 1 PROVE FALSE
      BY <1>2
    <2>1. PGSIZE * q <= PGSIZE * (0 - 1) /\ PGSIZE * (0 - 1) = 0 - PGSIZE
      BY <1>1, Larger
    <2> QED
      BY <1>1, <1>2, <2>1
  <1>4. ASSUME NEW v \in Int PROVE v < q <=> v * PGSIZE < n
    <2>1. v * PGSIZE = PGSIZE * v /\ PGSIZE * v \in Int /\ PGSIZE * q \in Int
          /\ PGSIZE * (v + 1) = PGSIZE * v + PGSIZE
      BY <1>1, <1>2
    <2>2. CASE v < q
      <3>1. PGSIZE * (v + 1) <= PGSIZE * q
        BY <1>1, <2>2, Larger
      <3> QED
        BY <1>1, <1>2, <2>1, <2>2, <3>1
    <2>3. CASE q <= v
      <3>1. PGSIZE * q <= PGSIZE * v
        BY <1>1, <2>3, Larger
      <3> QED
        BY <1>1, <1>2, <2>1, <2>3, <3>1
    <2> QED
      BY <2>2, <2>3
  <1> QED
    BY <1>2, <1>3, <1>4

\* PGROUNDUP() is monotonic
LEMMA PagesMore ==
    ASSUME NEW k \in Nat, NEW n \in Nat, k <= n
    PROVE  PagesOf(k) <= PagesOf(n)
  <1>1. PICK a \in Nat, b \in Nat : a = PagesOf(k) /\ b = PagesOf(n)
    BY PagesLess
  <1> SUFFICES ASSUME b < a PROVE FALSE
    BY <1>1
  <1>2. b * PGSIZE < k /\ ~(b * PGSIZE < n) /\ b * PGSIZE \in Int
    BY <1>1, PagesLess, Numbers
  <1> QED
    BY <1>2

\* it leaves whole pages alone
LEMMA PagesEven ==
    ASSUME NEW k \in Nat
    PROVE  k * PGSIZE \in Nat /\ PagesOf(k * PGSIZE) = k
  <1>1. PICK n \in Nat : n = k * PGSIZE
    BY Numbers
  <1>2. PICK b \in Nat : b = PagesOf(n)
    BY PagesLess
  <1>3. ~(k < b)
    BY <1>1, <1>2, PagesLess
  <1>4. ~(b < k)
    <2> SUFFICES ASSUME b < k PROVE FALSE
      OBVIOUS
    <2>1. ~(b * PGSIZE < n)
      BY <1>2, PagesLess
    <2>2. PGSIZE * (b + 1) <= PGSIZE * k /\ PGSIZE * (b + 1) = PGSIZE * b + PGSIZE
      BY Numbers, Larger
    <2>3. b * PGSIZE = PGSIZE * b /\ k * PGSIZE = PGSIZE * k /\ PGSIZE * b \in Int
      BY Numbers
    <2> QED
      BY <1>1, <2>1, <2>2, <2>3, Numbers
  <1> QED
    BY <1>1, <1>2, <1>3, <1>4

\* sizes end below the trapframe
LEMMA PagesZero == PagesOf(0) = 0
  <1>1. PagesOf(0) \in Nat /\ ~(0 < PagesOf(0))
    BY PagesLess, Numbers
  <1> QED
    BY <1>1

\* there is room for a stack
LEMMA Room ==
    /\ MaxSize - 2 * PGSIZE \in Nat
    /\ \A n \in Nat : n <= MaxSize - 2 * PGSIZE =>
          PagesOf(n) + 2 <= TRAPFRAME /\ (PagesOf(n) + 2) * PGSIZE \in 0..MaxSize
  <1>1. /\ PGSIZE \in Nat \ {0} /\ TRAPFRAME \in Nat /\ TRAPFRAME >= 3
        /\ MaxSize \in Nat /\ MaxSize = TRAPFRAME * PGSIZE
    BY Numbers
  <1>2. PICK k \in Nat : TRAPFRAME = k + 2
    BY <1>1
  <1>3. (k + 2) * PGSIZE = k * PGSIZE + 2 * PGSIZE /\ k * PGSIZE \in Nat
    BY <1>1
  <1>4. MaxSize - 2 * PGSIZE = k * PGSIZE
    BY <1>1, <1>2, <1>3
  <1>5. ASSUME NEW n \in Nat, n <= MaxSize - 2 * PGSIZE
        PROVE  PagesOf(n) + 2 <= TRAPFRAME /\ (PagesOf(n) + 2) * PGSIZE \in 0..MaxSize
    <2>1. PagesOf(n) \in Nat /\ PagesOf(n) <= k
      BY <1>3, <1>4, <1>5, PagesMore, PagesEven, PagesLess
    <2>2. PICK j \in Nat : j = PagesOf(n) + 2 /\ j <= TRAPFRAME
      BY <1>1, <1>2, <2>1
    <2>3. j * PGSIZE \in Nat /\ j * PGSIZE <= TRAPFRAME * PGSIZE
      <3>1. PGSIZE * j <= PGSIZE * TRAPFRAME
        BY <1>1, <2>2, Larger
      <3> QED
        BY <1>1, <2>2, <3>1
    <2> QED
      BY <1>1, <2>2, <2>3
  <1> QED
    BY <1>3, <1>4, <1>5

\* the pages of a process lie below its trapframe
LEMMA PagesFit ==
    ASSUME NEW n \in 0..MaxSize
    PROVE  n \in Nat /\ PagesOf(n) \in Nat /\ PagesOf(n) <= TRAPFRAME /\ 0..PagesOf(n) - 1 \subseteq UserPages
  <1>1. n \in Nat /\ n <= MaxSize /\ MaxSize \in Nat
    BY Numbers
  <1>2. PagesOf(MaxSize) = TRAPFRAME
    BY PagesEven, Numbers
  <1>3. PagesOf(n) <= TRAPFRAME /\ PagesOf(n) \in Nat
    BY <1>1, <1>2, PagesMore, PagesLess
  <1> QED
    BY <1>1, <1>3, Numbers DEF UserPages

\* the page that has a byte
LEMMA PageOfByte ==
    ASSUME NEW n \in Nat, NEW va \in Nat, va < n
    PROVE  va \div PGSIZE \in 0..PagesOf(n) - 1
  <1>1. PICK q \in Int : q = va \div PGSIZE /\ PGSIZE * q <= va /\ va < PGSIZE * q + PGSIZE
    BY Numbers, DivMod
  <1>2. PGSIZE \in Nat \ {0} /\ PGSIZE * q \in Int /\ q * PGSIZE = PGSIZE * q /\ PagesOf(n) \in Nat
    BY Numbers, PagesLess
  <1>3. q >= 0
    <2> SUFFICES ASSUME q <= 0 - 1 PROVE FALSE
      BY <1>1
    <2>1. PGSIZE * q <= PGSIZE * (0 - 1) /\ PGSIZE * (0 - 1) = 0 - PGSIZE
      BY <1>2, Larger
    <2> QED
      BY <1>1, <1>2, <2>1
  <1>4. q * PGSIZE < n
    BY <1>1, <1>2
  <1>5. q < PagesOf(n)
    BY <1>4, PagesLess
  <1> QED
    BY <1>1, <1>2, <1>3, <1>5

\* pages with different places have different names
LEMMA Names ==
    /\ \A s, t, v, u : User(s, v) = User(t, u) => s = t /\ v = u
    /\ \A s, t, v : User(s, v) \notin Tables(t)
    /\ \A p, q : TFrame(p) = TFrame(q) => p = q
    /\ \A p, s, v : TFrame(p) # User(s, v) /\ TFrame(p) \notin Tables(s)
    /\ \A p, q, i, j : Arg(p, i) = Arg(q, j) => p = q /\ i = j
    /\ \A p, i, s, v : Arg(p, i) # User(s, v) /\ Arg(p, i) \notin Tables(s)
    /\ \A p, i, q : Arg(p, i) # TFrame(q)
    /\ \A s, t, x : x \in Tables(s) /\ x \in Tables(t) => s = t
    /\ \A s : Root(s) \in Tables(s)
  BY DEF User, Tables, TFrame, Arg, Root

\* the tables on the way to a page are its address space's
LEMMA PathIn ==
    ASSUME NEW s, NEW v \in Nat
    PROVE  Path(s, v)[1] \in Tables(s) /\ Path(s, v)[2] \in Tables(s)
  <1>1. FANOUT \in Nat \ {0} /\ FANOUT * FANOUT \in Nat \ {0}
    BY Numbers
  <1>2. ASSUME NEW f \in Nat \ {0} PROVE v \div f \in Nat
    <2>1. PICK q \in Int : q = v \div f /\ f * q <= v /\ v < f * q + f
      BY DivMod
    <2>2. ASSUME q <= 0 - 1 PROVE FALSE
      <3>1. f * q <= f * (0 - 1) /\ f * (0 - 1) = 0 - f /\ f * q \in Int
        BY <2>2, Larger
      <3> QED
        BY <2>1, <3>1
    <2> QED
      BY <2>1, <2>2
  <1>3. v \div (FANOUT * FANOUT) \in Nat /\ v \div FANOUT \in Nat
    BY <1>1, <1>2
  <1> QED
    BY <1>3 DEF Path, Tables

LEMMA SpacesAre ==
    /\ \A p \in Procs, b \in {0, 1} : <<p, b>> \in Spaces
    /\ 0 \notin Procs /\ 1 \in Procs
  <1>1. N \in Nat \ {0}
    BY VmAssumption
  <1> QED
    BY <1>1 DEF Spaces, Procs

-----------------------------------------------------------------------------
(* kalloc() and kfree() *)

\* address space t and its pages are as they were
Same(mm, m2, t) == /\ m2.leaf[t] = mm.leaf[t] /\ m2.tab[t] = mm.tab[t]
                   /\ \A x \in Pages(mm, t) : m2.page[x] = mm.page[x]

Else(mm, m2, s) == \A t \in Spaces : t # s => Same(mm, m2, t)

LEMMA SamePages == ASSUME NEW mm, NEW m2, NEW t, Same(mm, m2, t)
                   PROVE  Heap(m2, t) = Heap(mm, t) /\ Pages(m2, t) = Pages(mm, t)
  BY DEF Same, Heap, Pages

LEMMA SameTwice ==
    ASSUME NEW mm, NEW m2, NEW m3, NEW t, Same(mm, m2, t), Same(m2, m3, t)
    PROVE  Same(mm, m3, t)
  <1>1. Pages(m2, t) = Pages(mm, t)
    BY SamePages
  <1> QED
    BY <1>1 DEF Same

\* what changes only s, twice
LEMMA ElseTwice ==
    ASSUME NEW mm, NEW m2, NEW m3, NEW s, Else(mm, m2, s), Else(m2, m3, s)
    PROVE  Else(mm, m3, s)
  BY SameTwice DEF Else

\* what filling pages does to memory
Wrote(mm, m2, pas, what) ==
    /\ IsMem(m2) /\ m2.tab = mm.tab /\ m2.leaf = mm.leaf /\ m2.corrupt = mm.corrupt
    /\ DOMAIN m2.page = pas \cup DOMAIN mm.page
    /\ \A x \in DOMAIN m2.page : m2.page[x] = IF x \in pas THEN what ELSE mm.page[x]

\* writing pages, and kalloc()
LEMMA FilledIs ==
    ASSUME NEW mm, IsMem(mm), NEW pas, NEW what
    PROVE  Wrote(mm, Filled(mm, pas, what), pas, what)
  BY DEF IsMem, Filled, Wrote

Freed(mm, m2, pas) ==
    /\ IsMem(m2) /\ m2.tab = mm.tab /\ m2.leaf = mm.leaf /\ m2.corrupt = FALSE
    /\ DOMAIN m2.page = DOMAIN mm.page \ pas
    /\ \A x \in DOMAIN m2.page : m2.page[x] = mm.page[x]

\* kfree() of allocated pages
LEMMA KfreeIs ==
    ASSUME NEW mm, IsMem(mm), mm.corrupt = FALSE, NEW pas, pas \subseteq DOMAIN mm.page
    PROVE  Freed(mm, Kfree(mm, pas), pas)
  <1> DEFINE m2 == Kfree(mm, pas)
  <1>1. m2.tab = mm.tab /\ m2.leaf = mm.leaf
    BY DEF IsMem, Kfree
  <1>2. m2.corrupt = (mm.corrupt \/ ~(pas \subseteq DOMAIN mm.page))
    BY DEF IsMem, Kfree
  <1>3. m2.corrupt = FALSE
    BY <1>2
  <1>4. m2.page = [x \in DOMAIN mm.page \ pas |-> mm.page[x]]
    BY DEF IsMem, Kfree, Restrict
  <1>5. DOMAIN m2.page = DOMAIN mm.page \ pas /\ \A x \in DOMAIN m2.page : m2.page[x] = mm.page[x]
    BY <1>4
  <1>6. m2 = [page |-> m2.page, corrupt |-> m2.corrupt, tab |-> m2.tab, leaf |-> m2.leaf]
    <2>1. ASSUME NEW P, NEW C
          PROVE  [mm EXCEPT !.page = P, !.corrupt = C] = [page |-> P, corrupt |-> C, tab |-> mm.tab, leaf |-> mm.leaf]
      <3>1. PICK m1 : m1 = [mm EXCEPT !.page = P]
        OBVIOUS
      <3>2. m1 = [page |-> P, corrupt |-> mm.corrupt, tab |-> mm.tab, leaf |-> mm.leaf]
        BY <3>1 DEF IsMem
      <3>3. [m1 EXCEPT !.corrupt = C] = [page |-> P, corrupt |-> C, tab |-> mm.tab, leaf |-> mm.leaf]
        BY ONLY <3>2
      <3> QED
        BY Zenon, <3>1, <3>3
    <2>2. \E P, C : m2 = [mm EXCEPT !.page = P, !.corrupt = C]
      BY Zenon DEF Kfree
    <2>3. PICK P, C : m2 = [page |-> P, corrupt |-> C, tab |-> mm.tab, leaf |-> mm.leaf]
      BY <2>1, <2>2
    <2> QED
      BY <2>3
  <1>7. IsMem(m2)
    BY <1>1, <1>6 DEF IsMem
  <1> QED
    BY <1>1, <1>3, <1>5, <1>7 DEF Freed

\* one address space gets a new map of leaves, or new tables
Releaf(mm, s, f) == [mm EXCEPT !.leaf[s] = f]
Retab(mm, s, f) == [mm EXCEPT !.tab[s] = f]

Leafed(mm, m2, s, f) ==
    /\ IsMem(m2) /\ m2.page = mm.page /\ m2.corrupt = mm.corrupt /\ m2.tab = mm.tab
    /\ m2.leaf[s] = f
    /\ \A t \in Spaces : t # s => m2.leaf[t] = mm.leaf[t]

Tabbed(mm, m2, s, f) ==
    /\ IsMem(m2) /\ m2.page = mm.page /\ m2.corrupt = mm.corrupt /\ m2.leaf = mm.leaf
    /\ m2.tab[s] = f
    /\ \A t \in Spaces : t # s => m2.tab[t] = mm.tab[t]

LEMMA LeafIs ==
    ASSUME NEW mm, IsMem(mm), NEW s \in Spaces, NEW f
    PROVE  Leafed(mm, Releaf(mm, s, f), s, f)
  BY DEF IsMem, Releaf, Leafed

LEMMA TabIs ==
    ASSUME NEW mm, IsMem(mm), NEW s \in Spaces, NEW f
    PROVE  Tabbed(mm, Retab(mm, s, f), s, f)
  BY DEF IsMem, Retab, Tabbed

\* address spaces have no page in common
LEMMA Apart ==
    ASSUME NEW mm, NEW s \in Spaces, NEW t \in Spaces, s # t, SpaceOK(mm, s), SpaceOK(mm, t), NEW x,
           x \in Pages(mm, s)
    PROVE  x \notin Pages(mm, t)
  BY Names DEF Pages, SpaceOK

\* a change within one address space and the pages outside of all of them
Locally(mm, X, s, m2, Y) ==
    /\ IsMem(m2) /\ m2.corrupt = FALSE
    /\ Else(mm, m2, s) /\ SpaceOK(m2, s)
    /\ Y \subseteq DOMAIN m2.page
    /\ \A x \in Y : /\ \A t \in Spaces : x \notin Tables(t)
                    /\ \A t \in Spaces : t # s => x \notin Pages(mm, t)
                    /\ x \notin Pages(m2, s)
    /\ \A t \in Spaces : t # s => Pages(mm, t) \subseteq DOMAIN m2.page
    /\ \A x \in DOMAIN m2.page :
           /\ m2.page[x] \in {"junk", "zero", "data"}
           /\ \/ x \in Y \/ x \in Pages(m2, s)
              \/ x \in DOMAIN mm.page /\ x \notin X /\ x \notin Pages(mm, s)

\* a change to one address space leaves the allocation exact if it is so there
LEMMA Local ==
    ASSUME NEW mm, NEW X, Exact(mm, X), NEW s \in Spaces, NEW m2, NEW Y, Locally(mm, X, s, m2, Y)
    PROVE  Exact(m2, Y)
  <1>1. ASSUME NEW t \in Spaces, t # s PROVE Pages(m2, t) = Pages(mm, t) /\ Heap(m2, t) = Heap(mm, t)
    BY <1>1, SamePages DEF Else, Locally
  <1>2. ASSUME NEW t \in Spaces PROVE SpaceOK(m2, t)
    <2>1. CASE t = s
      BY <2>1 DEF Locally
    <2>2. CASE t # s
      <3>1. SpaceOK(mm, t) /\ Same(mm, m2, t) /\ Pages(mm, t) \subseteq DOMAIN m2.page
        BY <2>2 DEF Exact, Else, Locally
      <3>2. \A v \in Heap(mm, t) : User(t, v) \in Pages(mm, t)
        BY DEF Pages
      <3>3. \A x \in mm.tab[t] : x \in Pages(mm, t)
        BY DEF Pages
      <3> QED
        BY <1>1, <2>2, <3>1, <3>2, <3>3 DEF SpaceOK, Same
    <2> QED
      BY <2>1, <2>2
  <1>3. Loose(m2, Y)
    BY <1>1 DEF Loose, Locally
  <1>4. ASSUME NEW x \in DOMAIN m2.page PROVE x \in Y \/ \E t \in Spaces : x \in Pages(m2, t)
    <2>1. CASE x \in DOMAIN mm.page /\ x \notin X /\ x \notin Pages(mm, s)
      <3>1. PICK t \in Spaces : x \in Pages(mm, t)
        BY <2>1 DEF Exact
      <3> QED
        BY <1>1, <2>1, <3>1
    <2> QED
      BY <2>1 DEF Locally
  <1> QED
    BY <1>2, <1>3, <1>4 DEF Exact, Locally

\* kalloc() for something that is in no address space yet
Alloced(mm, X, m2, pas, what) ==
    /\ Exact(m2, X \cup pas) /\ m2.leaf = mm.leaf /\ m2.tab = mm.tab
    /\ \A t \in Spaces : Same(mm, m2, t)
    /\ \A x \in pas : m2.page[x] = what

\* pages that kalloc() gives out belong to no address space yet
LEMMA KallocIs ==
    ASSUME NEW mm, NEW X, Exact(mm, X), NEW pas, Loose(mm, pas), NEW what \in {"junk", "zero", "data"}
    PROVE  Alloced(mm, X, Filled(mm, pas, what), pas, what)
  <1> DEFINE m2 == Filled(mm, pas, what)
  <1>1. Wrote(mm, m2, pas, what)
    BY FilledIs DEF Exact
  <1> HIDE DEF m2
  <1>2. ASSUME NEW t \in Spaces PROVE Same(mm, m2, t) /\ Pages(mm, t) \subseteq DOMAIN m2.page
    <2>1. Pages(mm, t) \subseteq DOMAIN mm.page
      BY DEF Exact, SpaceOK, Pages
    <2>2. \A x \in Pages(mm, t) : x \in DOMAIN m2.page /\ m2.page[x] = mm.page[x]
      BY <1>1, <2>1 DEF Wrote, Loose
    <2> QED
      BY <1>1, <2>2 DEF Same, Wrote
  <1>3. \A t \in Spaces : Pages(m2, t) = Pages(mm, t) /\ Heap(m2, t) = Heap(mm, t)
    BY <1>2, SamePages
  <1>4. ASSUME NEW t \in Spaces PROVE SpaceOK(m2, t)
    <2>1. \A v \in Heap(mm, t) : User(t, v) \in Pages(mm, t)
      BY DEF Pages
    <2>2. \A x \in mm.tab[t] : x \in Pages(mm, t)
      BY DEF Pages
    <2>3. SpaceOK(mm, t)
      BY DEF Exact
    <2>4. m2.leaf[t] = mm.leaf[t] /\ m2.tab[t] = mm.tab[t]
      BY <1>2 DEF Same
    <2>5. \A x \in Pages(mm, t) : x \in DOMAIN m2.page /\ m2.page[x] = mm.page[x]
      BY <1>2 DEF Same
    <2> QED
      BY <1>3, <2>1, <2>2, <2>3, <2>4, <2>5 DEF SpaceOK
  <1>5. Loose(m2, X \cup pas)
    BY <1>3 DEF Loose, Exact
  <1>6. ASSUME NEW x \in DOMAIN m2.page
        PROVE  m2.page[x] \in {"junk", "zero", "data"} /\ (x \in X \cup pas \/ \E t \in Spaces : x \in Pages(m2, t))
    BY <1>1, <1>3 DEF Wrote, Exact
  <1>7. IsMem(m2) /\ m2.corrupt = FALSE /\ X \cup pas \subseteq DOMAIN m2.page
    BY <1>1 DEF Wrote, Exact
  <1> QED
    BY <1>1, <1>2, <1>4, <1>5, <1>6, <1>7 DEF Exact, Wrote, Alloced, m2

\* kfree() of pages that are in no address space
LEMMA KfreeLoose ==
    ASSUME NEW mm, NEW X, Exact(mm, X), NEW pas, pas \subseteq X, NEW m2, m2 = Kfree(mm, pas)
    PROVE  /\ Exact(m2, X \ pas) /\ m2.leaf = mm.leaf /\ m2.tab = mm.tab
           /\ \A t \in Spaces : Same(mm, m2, t)
  <1>1. Freed(mm, m2, pas)
    BY KfreeIs DEF Exact
  <1>2. ASSUME NEW t \in Spaces PROVE Same(mm, m2, t) /\ Pages(mm, t) \subseteq DOMAIN m2.page
    <2>1. \A x \in Pages(mm, t) : x \in DOMAIN mm.page /\ x \notin pas
      BY DEF Exact, SpaceOK, Pages, Loose
    <2>2. \A x \in Pages(mm, t) : x \in DOMAIN m2.page /\ m2.page[x] = mm.page[x]
      BY <1>1, <2>1 DEF Freed
    <2> QED
      BY <1>1, <2>2 DEF Same, Freed
  <1>3. \A t \in Spaces : Pages(m2, t) = Pages(mm, t) /\ Heap(m2, t) = Heap(mm, t)
    BY <1>2, SamePages
  <1>4. ASSUME NEW t \in Spaces PROVE SpaceOK(m2, t)
    <2>1. \A v \in Heap(mm, t) : User(t, v) \in Pages(mm, t)
      BY DEF Pages
    <2>2. \A x \in mm.tab[t] : x \in Pages(mm, t)
      BY DEF Pages
    <2>3. SpaceOK(mm, t)
      BY DEF Exact
    <2>4. m2.leaf[t] = mm.leaf[t] /\ m2.tab[t] = mm.tab[t]
      BY <1>2 DEF Same
    <2>5. \A x \in Pages(mm, t) : x \in DOMAIN m2.page /\ m2.page[x] = mm.page[x]
      BY <1>2 DEF Same
    <2> QED
      BY <1>3, <2>1, <2>2, <2>3, <2>4, <2>5 DEF SpaceOK
  <1>5. Loose(m2, X \ pas)
    BY <1>3 DEF Loose, Exact
  <1>6. ASSUME NEW x \in DOMAIN m2.page
        PROVE  m2.page[x] \in {"junk", "zero", "data"} /\ (x \in X \ pas \/ \E t \in Spaces : x \in Pages(m2, t))
    BY <1>1, <1>3 DEF Freed, Exact
  <1>7. IsMem(m2) /\ m2.corrupt = FALSE /\ X \ pas \subseteq DOMAIN m2.page
    BY <1>1 DEF Freed, Exact
  <1> QED
    BY <1>1, <1>2, <1>4, <1>5, <1>6, <1>7 DEF Exact, Freed

\* kernel code writes to user pages of s, or to pages in no address space
LEMMA WriteIs ==
    ASSUME NEW mm, NEW X, Exact(mm, X), NEW s \in Spaces, NEW pas, NEW what \in {"zero", "data"},
           NEW m2, m2 = Filled(mm, pas, what),
           \A x \in pas : x \in X \/ \E v \in Heap(mm, s) : x = User(s, v)
    PROVE  /\ Exact(m2, X) /\ m2.leaf = mm.leaf /\ m2.tab = mm.tab /\ Else(mm, m2, s)
           /\ pas \subseteq X => Same(mm, m2, s)
           /\ DOMAIN m2.page = DOMAIN mm.page
           /\ \A x \in DOMAIN mm.page : m2.page[x] = IF x \in pas THEN what ELSE mm.page[x]
  <1>1. Wrote(mm, m2, pas, what)
    BY FilledIs DEF Exact
  <1>2. pas \subseteq DOMAIN mm.page
    BY DEF Exact, SpaceOK
  <1>3. /\ DOMAIN m2.page = DOMAIN mm.page /\ IsMem(m2) /\ m2.corrupt = FALSE
        /\ m2.tab = mm.tab /\ m2.leaf = mm.leaf
        /\ \A x \in DOMAIN mm.page : m2.page[x] = IF x \in pas THEN what ELSE mm.page[x]
    BY <1>1, <1>2 DEF Wrote, Exact
  <1>4. \A t \in Spaces : Heap(m2, t) = Heap(mm, t) /\ Pages(m2, t) = Pages(mm, t)
    BY <1>3 DEF Heap, Pages
  <1>5. \A t \in Spaces : Pages(mm, t) \subseteq DOMAIN mm.page
    BY DEF Exact, SpaceOK, Pages
  <1>6. ASSUME NEW t \in Spaces, t # s PROVE Same(mm, m2, t)
    <2>1. ASSUME NEW x \in Pages(mm, t) PROVE x \notin pas
      <3>1. x \notin X
        BY DEF Exact, Loose
      <3>2. x \notin Pages(mm, s)
        BY <1>6, Apart DEF Exact
      <3> QED
        BY <3>1, <3>2 DEF Pages
    <2> QED
      BY <1>3, <1>5, <2>1 DEF Same
  <1>7. ASSUME pas \subseteq X PROVE Same(mm, m2, s)
    <2>1. ASSUME NEW x \in Pages(mm, s) PROVE x \notin pas
      BY <1>7 DEF Exact, Loose
    <2> QED
      BY <1>3, <1>5, <2>1 DEF Same
  <1>8. SpaceOK(m2, s)
    <2>1. SpaceOK(mm, s)
      BY DEF Exact
    <2>2. ASSUME NEW x \in mm.tab[s] PROVE x \notin pas
      <3>1. x \in Tables(s) /\ x \in Pages(mm, s)
        BY <2>1 DEF SpaceOK, Pages
      <3>2. x \notin X
        BY <3>1 DEF Exact, Loose
      <3> QED
        BY <3>1, <3>2, Names
    <2> QED
      BY <1>3, <1>4, <2>1, <2>2 DEF SpaceOK
  <1>9. \A x \in X : x \notin Pages(m2, s)
    BY <1>4 DEF Exact, Loose
  <1>10. /\ \A x \in X : \A t \in Spaces : x \notin Tables(t)
         /\ \A x \in X : \A t \in Spaces : t # s => x \notin Pages(mm, t)
         /\ X \subseteq DOMAIN m2.page
         /\ \A t \in Spaces : t # s => Pages(mm, t) \subseteq DOMAIN m2.page
    BY <1>3, <1>5 DEF Exact, Loose
  <1>11. \A x \in DOMAIN m2.page :
               /\ m2.page[x] \in {"junk", "zero", "data"}
               /\ \/ x \in X \/ x \in Pages(m2, s)
                  \/ x \in DOMAIN mm.page /\ x \notin X /\ x \notin Pages(mm, s)
    BY <1>3, <1>4 DEF Exact
  <1>12. Else(mm, m2, s)
    BY <1>6 DEF Else
  <1>13. Locally(mm, X, s, m2, X)
    BY <1>3, <1>8, <1>9, <1>10, <1>11, <1>12 DEF Locally
  <1>14. Exact(m2, X)
    BY <1>13, Local
  <1> QED
    BY <1>3, <1>7, <1>12, <1>14

-----------------------------------------------------------------------------
(* Page tables *)

\* user pages hold what they held
Kept(mm, m2, s) == \A v \in Heap(mm, s) : v \in Heap(m2, s) => m2.page[User(s, v)] = mm.page[User(s, v)]

LEMMA HeapIs ==
    ASSUME NEW mm, NEW X, Exact(mm, X), NEW s \in Spaces
    PROVE  /\ Heap(mm, s) \subseteq UserPages
           /\ DOMAIN mm.leaf[s] \subseteq UserPages \cup {TRAMPOLINE, TRAPFRAME}
           /\ Heap(mm, s) = DOMAIN mm.leaf[s] \cap UserPages
           /\ TRAMPOLINE \notin UserPages /\ TRAPFRAME \notin UserPages /\ TRAMPOLINE # TRAPFRAME
  <1>1. DOMAIN mm.leaf[s] \subseteq 0..TRAMPOLINE
    BY DEF Exact, SpaceOK
  <1> QED
    BY <1>1, Numbers DEF Heap, UserPages

\* uvmunmap() that frees the pages, and uvmunmap() that does not
UnmapF(mm, s, vs) == Uvmunmap(mm, s, vs, TRUE)
UnmapK(mm, s, vs) == Uvmunmap(mm, s, vs, FALSE)

\* uvmunmap() with do_free set gives back exactly the user pages it unmaps
LEMMA UnmapFree ==
    ASSUME NEW mm, NEW X, Exact(mm, X), NEW s \in Spaces, NEW vs, vs \subseteq UserPages,
           NEW m2, m2 = UnmapF(mm, s, vs)
    PROVE  /\ Exact(m2, X) /\ Else(mm, m2, s)
           /\ m2.leaf[s] = [v \in DOMAIN mm.leaf[s] \ vs |-> mm.leaf[s][v]]
           /\ Heap(m2, s) = Heap(mm, s) \ vs /\ Kept(mm, m2, s)
  <1> DEFINE hit == vs \cap DOMAIN mm.leaf[s]
             pas == {mm.leaf[s][v].pa : v \in hit}
  <1>1. SpaceOK(mm, s) /\ IsMem(mm) /\ mm.corrupt = FALSE
    BY DEF Exact
  <1>2. hit \subseteq Heap(mm, s)
    BY HeapIs
  <1>3. pas = {User(s, v) : v \in hit}
    BY <1>1, <1>2 DEF SpaceOK
  <1>4. pas \subseteq DOMAIN mm.page
    BY <1>1, <1>2, <1>3 DEF SpaceOK
  <1> DEFINE m1 == Kfree(mm, pas)
  <1>5. Freed(mm, m1, pas)
    BY <1>1, <1>4, KfreeIs
  <1> DEFINE f == Restrict(m1.leaf[s], DOMAIN m1.leaf[s] \ hit)
  <1>6. m2 = Releaf(m1, s, f)
    BY DEF UnmapF, UnmapK, Uvmunmap, Releaf
  <1>7. IsMem(m1) /\ m1.leaf = mm.leaf /\ m1.tab = mm.tab /\ m1.corrupt = FALSE
    BY <1>5 DEF Freed
  <1> HIDE DEF f, m1, pas
  <1>8. /\ IsMem(m2) /\ m2.page = m1.page /\ m2.corrupt = FALSE /\ m2.tab = mm.tab
        /\ m2.leaf[s] = f
        /\ \A t \in Spaces : t # s => m2.leaf[t] = mm.leaf[t]
    <2>1. Leafed(m1, m2, s, f)
      BY <1>6, <1>7, LeafIs
    <2> QED
      BY <1>7, <2>1 DEF Leafed
  <1>9. f = [v \in DOMAIN mm.leaf[s] \ vs |-> mm.leaf[s][v]]
    BY <1>7 DEF f, Restrict
  <1>10. Heap(m2, s) = Heap(mm, s) \ vs
    BY <1>8, <1>9 DEF Heap
  <1>11. DOMAIN m2.page = DOMAIN mm.page \ pas /\ \A x \in DOMAIN m2.page : m2.page[x] = mm.page[x]
    BY <1>5, <1>8 DEF Freed
  <1>12. ASSUME NEW t \in Spaces, t # s PROVE Same(mm, m2, t) /\ Pages(mm, t) \subseteq DOMAIN m2.page
    <2>1. ASSUME NEW x \in Pages(mm, t) PROVE x \in DOMAIN m2.page
      <3>1. x \notin Pages(mm, s) /\ x \in DOMAIN mm.page
        BY <1>12, Apart DEF Exact, Pages, SpaceOK
      <3> QED
        BY <1>2, <1>3, <1>11, <3>1 DEF Pages
    <2> QED
      BY <1>8, <1>11, <1>12, <2>1 DEF Same
  <1>13. Else(mm, m2, s)
    BY <1>12 DEF Else
  <1>14. ASSUME NEW v \in Heap(m2, s) PROVE User(s, v) \in DOMAIN m2.page
    <2>1. User(s, v) \in DOMAIN mm.page
      BY <1>1, <1>10 DEF SpaceOK
    <2>2. User(s, v) \notin pas
      <3>1. v \notin hit
        BY <1>10
      <3> QED
        BY <1>3, <3>1, Names
    <2> QED
      BY <1>11, <2>1, <2>2
  <1>15. SpaceOK(m2, s)
    <2>1. \A v \in Heap(m2, s) : v \in Heap(mm, s) /\ m2.leaf[s][v] = mm.leaf[s][v]
      BY <1>8, <1>9, <1>10 DEF Heap
    <2>2. \A x \in mm.tab[s] : x \in Tables(s) /\ x \notin pas
      BY <1>1, <1>3, Names DEF SpaceOK
    <2>3. DOMAIN m2.leaf[s] \subseteq 0..TRAMPOLINE
      BY <1>1, <1>8, <1>9 DEF SpaceOK
    <2> QED
      BY <1>1, <1>8, <1>11, <1>14, <2>1, <2>2, <2>3 DEF SpaceOK
  <1>16. Pages(m2, s) = Pages(mm, s) \ pas
    <2>1. Heap(mm, s) \ vs = Heap(mm, s) \ hit
      BY <1>2, HeapIs
    <2>2. \A v : User(s, v) \in pas <=> v \in hit
      BY <1>3, Names
    <2>3. \A x \in mm.tab[s] : x \notin pas
      BY <1>1, <1>3, Names DEF SpaceOK
    <2> QED
      BY <1>8, <1>10, <2>1, <2>2, <2>3 DEF Pages
  <1>17. Locally(mm, X, s, m2, X)
    <2>1. \A x \in X : x \in DOMAIN mm.page /\ \A t \in Spaces : x \notin Tables(t) /\ x \notin Pages(mm, t)
      BY DEF Exact, Loose
    <2>2. pas \subseteq Pages(mm, s)
      BY <1>2, <1>3 DEF Pages
    <2>3. X \subseteq DOMAIN m2.page
      BY <1>11, <2>1, <2>2
    <2>4. \A x \in DOMAIN m2.page : m2.page[x] \in {"junk", "zero", "data"}
      BY <1>11 DEF Exact
    <2> QED
      BY <1>8, <1>11, <1>12, <1>13, <1>15, <1>16, <2>1, <2>3, <2>4 DEF Locally
  <1>18. Exact(m2, X)
    BY <1>17, Local
  <1>19. Kept(mm, m2, s)
    BY <1>11, <1>14 DEF Kept
  <1> QED
    BY <1>8, <1>9, <1>10, <1>13, <1>18, <1>19

\* the same, in short
LEMMA UnmapHeap ==
    ASSUME NEW mm, NEW X, Exact(mm, X), NEW s \in Spaces, NEW vs, vs \subseteq UserPages,
           NEW m2, m2 = UnmapF(mm, s, vs)
    PROVE  Exact(m2, X) /\ Else(mm, m2, s) /\ Heap(m2, s) = Heap(mm, s) \ vs
  <1>1. PICK m1 : m1 = UnmapF(mm, s, vs)
    OBVIOUS
  <1>2. vs \subseteq UserPages
    OBVIOUS
  <1>3. /\ Exact(m1, X) /\ Else(mm, m1, s)
        /\ m1.leaf[s] = [v \in DOMAIN mm.leaf[s] \ vs |-> mm.leaf[s][v]]
    BY <1>1, <1>2, UnmapFree
  <1>4. Heap(m1, s) = Heap(mm, s) \ vs
    BY <1>3 DEF Heap
  <1> QED
    BY <1>1, <1>3, <1>4

\* uvmunmap() of the trampoline and the trapframe gives nothing back
LEMMA UnmapKeep ==
    ASSUME NEW mm, NEW X, Exact(mm, X), NEW s \in Spaces, NEW vs, vs \subseteq {TRAMPOLINE, TRAPFRAME},
           NEW m2, m2 = UnmapK(mm, s, vs)
    PROVE  /\ Exact(m2, X) /\ Else(mm, m2, s)
           /\ DOMAIN m2.leaf[s] = DOMAIN mm.leaf[s] \ vs
           /\ Heap(m2, s) = Heap(mm, s)
  <1> DEFINE hit == vs \cap DOMAIN mm.leaf[s]
             f == Restrict(mm.leaf[s], DOMAIN mm.leaf[s] \ hit)
  <1>1. SpaceOK(mm, s) /\ IsMem(mm) /\ mm.corrupt = FALSE
    BY DEF Exact
  <1>2. m2 = Releaf(mm, s, f)
    BY DEF UnmapF, UnmapK, Uvmunmap, Releaf
  <1>3. f = [v \in DOMAIN mm.leaf[s] \ vs |-> mm.leaf[s][v]]
    BY DEF Restrict
  <1> HIDE DEF f
  <1>4. /\ IsMem(m2) /\ m2.page = mm.page /\ m2.corrupt = FALSE /\ m2.tab = mm.tab
        /\ m2.leaf[s] = f
        /\ \A t \in Spaces : t # s => m2.leaf[t] = mm.leaf[t]
    <2>1. Leafed(mm, m2, s, f)
      BY <1>1, <1>2, LeafIs
    <2> QED
      BY <1>1, <2>1 DEF Leafed
  <1>5. Heap(m2, s) = Heap(mm, s) /\ DOMAIN m2.leaf[s] = DOMAIN mm.leaf[s] \ vs
    BY <1>3, <1>4 DEF Heap
  <1>6. Pages(m2, s) = Pages(mm, s)
    BY <1>4, <1>5 DEF Pages
  <1>7. Else(mm, m2, s)
    BY <1>4 DEF Else, Same
  <1>8. SpaceOK(m2, s)
    <2>1. \A v \in Heap(m2, s) : m2.leaf[s][v] = mm.leaf[s][v]
      BY <1>3, <1>4, <1>5 DEF Heap
    <2>2. DOMAIN m2.leaf[s] \subseteq 0..TRAMPOLINE
      BY <1>1, <1>5 DEF SpaceOK
    <2> QED
      BY <1>1, <1>4, <1>5, <2>1, <2>2 DEF SpaceOK
  <1>9. Locally(mm, X, s, m2, X)
    <2>1. \A t \in Spaces : Pages(mm, t) \subseteq DOMAIN mm.page
      BY DEF Exact, SpaceOK, Pages
    <2> QED
      BY <1>4, <1>6, <1>7, <1>8, <2>1 DEF Locally, Exact, Loose
  <1> QED
    BY <1>5, <1>7, <1>9, Local

\* freewalk() of a tree without leaves
LEMMA FreewalkIs ==
    ASSUME NEW mm, NEW X, Exact(mm, X), NEW s \in Spaces, DOMAIN mm.leaf[s] = {},
           NEW m2, m2 = Freewalk(mm, s)
    PROVE  Exact(m2, X) /\ Else(mm, m2, s) /\ Gone(m2, s)
  <1>1. SpaceOK(mm, s) /\ IsMem(mm) /\ mm.corrupt = FALSE
    BY DEF Exact
  <1>2. mm.tab[s] \subseteq DOMAIN mm.page /\ Pages(mm, s) = mm.tab[s] /\ Heap(mm, s) = {}
    BY <1>1 DEF SpaceOK, Pages, Heap
  <1> DEFINE m1 == Kfree(mm, mm.tab[s])
  <1>3. Freed(mm, m1, mm.tab[s])
    BY <1>1, <1>2, KfreeIs
  <1>4. m2 = Retab(m1, s, {})
    BY DEF Freewalk, Retab
  <1>5. IsMem(m1) /\ m1.leaf = mm.leaf /\ m1.tab = mm.tab /\ m1.corrupt = FALSE
    BY <1>3 DEF Freed
  <1> HIDE DEF m1
  <1>6. /\ IsMem(m2) /\ m2.page = m1.page /\ m2.corrupt = FALSE /\ m2.leaf = mm.leaf
        /\ m2.tab[s] = {}
        /\ \A t \in Spaces : t # s => m2.tab[t] = mm.tab[t]
    <2>1. Tabbed(m1, m2, s, {})
      BY <1>4, <1>5, TabIs
    <2> QED
      BY <1>5, <2>1 DEF Tabbed
  <1>7. DOMAIN m2.page = DOMAIN mm.page \ Pages(mm, s) /\ \A x \in DOMAIN m2.page : m2.page[x] = mm.page[x]
    BY <1>2, <1>3, <1>6 DEF Freed
  <1>8. ASSUME NEW t \in Spaces, t # s PROVE Same(mm, m2, t) /\ Pages(mm, t) \subseteq DOMAIN m2.page
    <2>1. ASSUME NEW x \in Pages(mm, t) PROVE x \in DOMAIN m2.page
      <3>1. x \notin Pages(mm, s) /\ x \in DOMAIN mm.page
        BY <1>8, Apart DEF Exact, Pages, SpaceOK
      <3> QED
        BY <1>7, <3>1
    <2> QED
      BY <1>6, <1>7, <1>8, <2>1 DEF Same
  <1>9. Else(mm, m2, s)
    BY <1>8 DEF Else
  <1>10. Gone(m2, s) /\ Heap(m2, s) = {} /\ Pages(m2, s) = {}
    BY <1>6 DEF Gone, Heap, Pages
  <1>11. SpaceOK(m2, s)
    BY <1>6, <1>10 DEF SpaceOK, Gone
  <1>12. Locally(mm, X, s, m2, X)
    <2>1. \A x \in X : x \in DOMAIN mm.page /\ \A t \in Spaces : x \notin Tables(t) /\ x \notin Pages(mm, t)
      BY DEF Exact, Loose
    <2>2. X \subseteq DOMAIN m2.page
      BY <1>7, <2>1
    <2>3. \A x \in DOMAIN m2.page : m2.page[x] \in {"junk", "zero", "data"}
      BY <1>7 DEF Exact
    <2> QED
      BY <1>6, <1>7, <1>8, <1>9, <1>10, <1>11, <2>1, <2>2, <2>3 DEF Locally
  <1> QED
    BY <1>9, <1>10, <1>12, Local

\* uvmfree(), with nothing mapped above the size, leaves nothing and frees nothing twice
LEMMA UvmfreeIs ==
    ASSUME NEW mm, NEW X, Exact(mm, X), NEW s \in Spaces, NEW n \in 0..MaxSize,
           DOMAIN mm.leaf[s] \subseteq 0..PagesOf(n) - 1, NEW m2, m2 = Uvmfree(mm, s, n)
    PROVE  Exact(m2, X) /\ Else(mm, m2, s) /\ Gone(m2, s)
  <1>1. PICK vs : vs = 0..PagesOf(n) - 1
    OBVIOUS
  <1>2. vs \subseteq UserPages
    BY <1>1, PagesFit
  <1>3. PICK m1 : m1 = UnmapF(mm, s, vs)
    OBVIOUS
  <1>4. /\ Exact(m1, X) /\ Else(mm, m1, s)
        /\ m1.leaf[s] = [v \in DOMAIN mm.leaf[s] \ vs |-> mm.leaf[s][v]]
    BY <1>2, <1>3, UnmapFree
  <1>5. DOMAIN m1.leaf[s] = {}
    BY <1>1, <1>4
  <1>6. m2 = Freewalk(m1, s)
    BY <1>1, <1>3 DEF Uvmfree, UnmapF
  <1>7. Exact(m2, X) /\ Else(m1, m2, s) /\ Gone(m2, s)
    BY <1>4, <1>5, <1>6, FreewalkIs
  <1> QED
    BY <1>4, <1>7, ElseTwice

\* proc_freepagetable(), likewise
LEMMA ProcFree ==
    ASSUME NEW mm, NEW X, Exact(mm, X), NEW s \in Spaces, NEW n \in 0..MaxSize,
           Heap(mm, s) \subseteq 0..PagesOf(n) - 1, NEW m2, m2 = ProcFreePagetable(mm, s, n)
    PROVE  Exact(m2, X) /\ Else(mm, m2, s) /\ Gone(m2, s)
  <1>1. PICK vs : vs = {TRAMPOLINE, TRAPFRAME}
    OBVIOUS
  <1>2. PICK m1 : m1 = UnmapK(mm, s, vs)
    OBVIOUS
  <1>3. /\ Exact(m1, X) /\ Else(mm, m1, s) /\ Heap(m1, s) = Heap(mm, s)
        /\ DOMAIN m1.leaf[s] = DOMAIN mm.leaf[s] \ vs
    <2>1. vs \subseteq {TRAMPOLINE, TRAPFRAME}
      BY <1>1
    <2> QED
      BY <1>2, <2>1, UnmapKeep
  <1>4. m2 = Uvmfree(m1, s, n)
    BY <1>1, <1>2 DEF ProcFreePagetable, UnmapK
  <1>5. DOMAIN m1.leaf[s] \subseteq 0..PagesOf(n) - 1
    BY <1>1, <1>3 DEF Heap
  <1>6. Exact(m2, X) /\ Else(m1, m2, s) /\ Gone(m2, s)
    BY <1>3, <1>4, <1>5, UvmfreeIs
  <1> QED
    BY <1>3, <1>6, ElseTwice

\* what is allocated stays as it is
Holds(mm, m2) == \A x \in DOMAIN mm.page : x \in DOMAIN m2.page /\ m2.page[x] = mm.page[x]

\* address space s gets tables, all of them zero
MoreTables(mm, X, m2, s) == /\ Exact(m2, X) /\ Else(mm, m2, s)
                            /\ m2.leaf = mm.leaf /\ Holds(mm, m2)

\* table pages added to a tree
LEMMA AddTables ==
    ASSUME NEW mm, NEW X, Exact(mm, X), NEW s \in Spaces, NEW new, new \subseteq Tables(s) \ mm.tab[s],
           NEW m2, m2 = Retab(Filled(mm, new, "zero"), s, mm.tab[s] \cup new)
    PROVE  MoreTables(mm, X, m2, s)
  <1> DEFINE m1 == Filled(mm, new, "zero")
  <1>1. SpaceOK(mm, s) /\ IsMem(mm) /\ mm.corrupt = FALSE
    BY DEF Exact
  <1>2. Wrote(mm, m1, new, "zero")
    BY <1>1, FilledIs
  <1>3. IsMem(m1) /\ m1.leaf = mm.leaf /\ m1.tab = mm.tab /\ m1.corrupt = FALSE
    BY <1>1, <1>2 DEF Wrote
  <1> HIDE DEF m1
  <1>4. /\ IsMem(m2) /\ m2.page = m1.page /\ m2.corrupt = FALSE /\ m2.leaf = mm.leaf
        /\ m2.tab[s] = mm.tab[s] \cup new
        /\ \A t \in Spaces : t # s => m2.tab[t] = mm.tab[t]
    <2>1. Tabbed(m1, m2, s, mm.tab[s] \cup new)
      BY <1>3, TabIs DEF m1
    <2> QED
      BY <1>3, <2>1 DEF Tabbed
  <1>5. /\ DOMAIN m2.page = new \cup DOMAIN mm.page
        /\ \A x \in DOMAIN m2.page : m2.page[x] = IF x \in new THEN "zero" ELSE mm.page[x]
    BY <1>2, <1>4 DEF Wrote
  <1>6. ASSUME NEW x \in new PROVE x \notin DOMAIN mm.page
    <2>1. x \in Tables(s) /\ x \notin mm.tab[s] /\ x \notin X
      BY DEF Exact, Loose
    <2>2. ASSUME NEW t \in Spaces PROVE x \notin Pages(mm, t)
      <3>1. \A v : x # User(t, v)
        BY <2>1, Names
      <3>2. t # s => x \notin mm.tab[t]
        BY <2>1, Names DEF Exact, SpaceOK
      <3> QED
        BY <2>1, <3>1, <3>2 DEF Pages
    <2> QED
      BY <2>1, <2>2 DEF Exact
  <1>7. Holds(mm, m2)
    BY <1>5, <1>6 DEF Holds
  <1>8. \A t \in Spaces : Pages(mm, t) \subseteq DOMAIN mm.page
    BY DEF Exact, SpaceOK, Pages
  <1>9. Else(mm, m2, s)
    BY <1>4, <1>7, <1>8 DEF Else, Same, Holds
  <1>10. Heap(m2, s) = Heap(mm, s) /\ Pages(m2, s) = Pages(mm, s) \cup new
    BY <1>4 DEF Heap, Pages
  <1>11. SpaceOK(m2, s)
    <2>1. \A x \in mm.tab[s] \cup new : x \in Tables(s) /\ x \in DOMAIN m2.page /\ m2.page[x] = "zero"
      BY <1>1, <1>5, <1>7 DEF SpaceOK, Holds
    <2>2. \A v \in Heap(mm, s) : User(s, v) \in DOMAIN m2.page /\ m2.page[User(s, v)] \in {"zero", "data"}
      BY <1>1, <1>7 DEF SpaceOK, Holds
    <2> QED
      BY <1>1, <1>4, <1>10, <2>1, <2>2 DEF SpaceOK
  <1>12. Locally(mm, X, s, m2, X)
    <2>1. \A x \in X : /\ x \in DOMAIN mm.page
                       /\ \A t \in Spaces : x \notin Tables(t) /\ x \notin Pages(mm, t)
                       /\ x \notin new
      BY DEF Exact, Loose
    <2>2. \A x \in DOMAIN m2.page : m2.page[x] \in {"junk", "zero", "data"}
      BY <1>5 DEF Exact
    <2>3. \A t \in Spaces : t # s => Pages(mm, t) \subseteq DOMAIN m2.page
      BY <1>5, <1>8
    <2>4. \A x \in X : x \notin Pages(m2, s)
      BY <1>10, <2>1
    <2> QED
      BY <1>4, <1>5, <1>9, <1>10, <1>11, <2>1, <2>2, <2>3, <2>4 DEF Locally
  <1> QED
    BY <1>4, <1>7, <1>9, <1>12, Local DEF MoreTables

\* walk() adds table pages at most, whether it succeeds or not
LEMMA WalkIs ==
    ASSUME NEW mm, NEW X, Exact(mm, X), NEW s \in Spaces, NEW v \in Nat, NEW r \in Walk(mm, s, v)
    PROVE  r.ok \in BOOLEAN /\ MoreTables(mm, X, r.m, s)
  <1> DEFINE new(k) == {Path(s, v)[i] : i \in 1..k} \ mm.tab[s]
             Adding(k) == [Filled(mm, new(k), "zero") EXCEPT !.tab[s] = @ \cup new(k)]
  <1>1. PICK k \in 0..2 : r = [ok |-> k = 2, m |-> Adding(k)]
    BY DEF Walk
  <1>2. new(k) \subseteq Tables(s) \ mm.tab[s]
    <2>1. \A i \in 1..k : i = 1 \/ i = 2
      BY <1>1
    <2> QED
      BY <2>1, PathIn
  <1>3. Filled(mm, new(k), "zero").tab = mm.tab
    <2>1. Wrote(mm, Filled(mm, new(k), "zero"), new(k), "zero")
      BY FilledIs DEF Exact
    <2> QED
      BY <2>1 DEF Wrote
  <1>4. r.m = Retab(Filled(mm, new(k), "zero"), s, mm.tab[s] \cup new(k))
    BY <1>1, <1>3 DEF Retab
  <1>5. r.ok \in BOOLEAN
    BY <1>1
  <1> HIDE DEF new
  <1>6. MoreTables(mm, X, r.m, s)
    BY <1>2, <1>4, AddTables
  <1> QED
    BY <1>5, <1>6

\* the entry that mappages() makes
Entry(mm, s, v, pa, perm) ==
    [x \in {v} \cup DOMAIN mm.leaf[s] |-> IF x = v THEN [pa |-> pa, w |-> perm.w, u |-> perm.u] ELSE mm.leaf[s][x]]

\* mappages() of a page that is not mapped: no panic
LEMMA MapIs ==
    ASSUME NEW mm, NEW X, Exact(mm, X), NEW s \in Spaces, NEW v \in Nat, v \notin DOMAIN mm.leaf[s],
           NEW pa, NEW perm, NEW r \in MapPages(mm, s, v, pa, perm)
    PROVE  /\ r.ok \in BOOLEAN
           /\ ~r.ok => MoreTables(mm, X, r.m, s)
           /\ r.ok => \E m1 : MoreTables(mm, X, m1, s) /\ r.m = Releaf(m1, s, Entry(mm, s, v, pa, perm))
  <1>1. PICK q \in Walk(mm, s, v) :
          r = IF ~q.ok THEN q
              ELSE IF v \in DOMAIN q.m.leaf[s] THEN Ok(Panic(q.m))
              ELSE Ok([q.m EXCEPT !.leaf[s] =
                         [x \in {v} \cup DOMAIN @ |->
                            IF x = v THEN [pa |-> pa, w |-> perm.w, u |-> perm.u] ELSE @[x]]])
    BY DEF MapPages
  <1>2. q.ok \in BOOLEAN /\ MoreTables(mm, X, q.m, s)
    BY WalkIs
  <1>3. q.m.leaf = mm.leaf
    BY <1>2 DEF MoreTables
  <1>4. CASE ~q.ok
    BY <1>1, <1>2, <1>4
  <1>5. CASE q.ok
    <2>1. r = Ok(Releaf(q.m, s, Entry(q.m, s, v, pa, perm)))
      BY <1>1, <1>3, <1>5 DEF Releaf, Entry
    <2>2. Entry(q.m, s, v, pa, perm) = Entry(mm, s, v, pa, perm)
      BY <1>3 DEF Entry
    <2>3. r.ok = TRUE /\ r.m = Releaf(q.m, s, Entry(mm, s, v, pa, perm))
      BY <2>1, <2>2 DEF Ok
    <2> QED
      BY <1>2, <2>3
  <1> QED
    BY <1>2, <1>4, <1>5

\* the entries of s change, and its user pages do not
LEMMA NewLeaves ==
    ASSUME NEW mm, NEW X, Exact(mm, X), NEW s \in Spaces, NEW f,
           DOMAIN f \subseteq 0..TRAMPOLINE, DOMAIN f \ {TRAMPOLINE, TRAPFRAME} = Heap(mm, s),
           \A v \in Heap(mm, s) : f[v].pa = User(s, v),
           NEW m2, m2 = Releaf(mm, s, f)
    PROVE  /\ Exact(m2, X) /\ Else(mm, m2, s) /\ Heap(m2, s) = Heap(mm, s)
           /\ m2.leaf[s] = f /\ m2.page = mm.page
  <1>1. SpaceOK(mm, s) /\ IsMem(mm) /\ mm.corrupt = FALSE
    BY DEF Exact
  <1>2. /\ IsMem(m2) /\ m2.page = mm.page /\ m2.corrupt = FALSE /\ m2.tab = mm.tab
        /\ m2.leaf[s] = f
        /\ \A t \in Spaces : t # s => m2.leaf[t] = mm.leaf[t]
    <2>1. Leafed(mm, m2, s, f)
      BY <1>1, LeafIs
    <2> QED
      BY <1>1, <2>1 DEF Leafed
  <1>3. Heap(m2, s) = Heap(mm, s)
    BY <1>2 DEF Heap
  <1>4. Pages(m2, s) = Pages(mm, s)
    BY <1>2, <1>3 DEF Pages
  <1>5. Else(mm, m2, s)
    BY <1>2 DEF Else, Same
  <1>6. SpaceOK(m2, s)
    BY <1>1, <1>2, <1>3 DEF SpaceOK
  <1>7. Locally(mm, X, s, m2, X)
    <2>1. \A t \in Spaces : Pages(mm, t) \subseteq DOMAIN mm.page
      BY DEF Exact, SpaceOK, Pages
    <2> QED
      BY <1>2, <1>4, <1>5, <1>6, <2>1 DEF Locally, Exact, Loose
  <1> QED
    BY <1>2, <1>3, <1>5, <1>7, Local

\* mapping the trampoline or the trapframe
LEMMA MapTop ==
    ASSUME NEW mm, NEW X, Exact(mm, X), NEW s \in Spaces, NEW v \in {TRAMPOLINE, TRAPFRAME},
           v \notin DOMAIN mm.leaf[s], NEW pa, NEW perm, NEW r \in MapPages(mm, s, v, pa, perm)
    PROVE  /\ r.ok \in BOOLEAN /\ Exact(r.m, X) /\ Else(mm, r.m, s) /\ Heap(r.m, s) = Heap(mm, s)
           /\ r.ok => DOMAIN r.m.leaf[s] = {v} \cup DOMAIN mm.leaf[s]
           /\ ~r.ok => DOMAIN r.m.leaf[s] = DOMAIN mm.leaf[s]
  <1>1. v \in Nat /\ v \in 0..TRAMPOLINE
    BY Numbers
  <1>2. /\ r.ok \in BOOLEAN
        /\ ~r.ok => MoreTables(mm, X, r.m, s)
        /\ r.ok => \E m1 : MoreTables(mm, X, m1, s) /\ r.m = Releaf(m1, s, Entry(mm, s, v, pa, perm))
    BY <1>1, MapIs
  <1>3. CASE ~r.ok
    BY <1>2, <1>3 DEF MoreTables, Heap
  <1>4. CASE r.ok
    <2>1. PICK m1 : MoreTables(mm, X, m1, s) /\ r.m = Releaf(m1, s, Entry(mm, s, v, pa, perm))
      BY <1>2, <1>4
    <2>2. PICK f : f = Entry(mm, s, v, pa, perm)
      OBVIOUS
    <2>3. Exact(m1, X) /\ Else(mm, m1, s) /\ Heap(m1, s) = Heap(mm, s) /\ m1.leaf = mm.leaf
      BY <2>1 DEF MoreTables, Heap
    <2>4. DOMAIN f = {v} \cup DOMAIN mm.leaf[s] /\ \A x \in Heap(m1, s) : f[x] = m1.leaf[s][x]
      BY <2>2, <2>3 DEF Entry, Heap
    <2>5. DOMAIN f \subseteq 0..TRAMPOLINE
      BY <1>1, <2>4 DEF Exact, SpaceOK
    <2>6. DOMAIN f \ {TRAMPOLINE, TRAPFRAME} = Heap(m1, s)
      BY <2>3, <2>4 DEF Heap
    <2>7. \A x \in Heap(m1, s) : f[x].pa = User(s, x)
      BY <2>3, <2>4 DEF Exact, SpaceOK
    <2>8. r.m = Releaf(m1, s, f)
      BY <2>1, <2>2
    <2>9. Exact(r.m, X) /\ Else(m1, r.m, s) /\ Heap(r.m, s) = Heap(m1, s) /\ r.m.leaf[s] = f
      BY <2>3, <2>5, <2>6, <2>7, <2>8, NewLeaves
    <2> QED
      BY <1>2, <1>4, <2>3, <2>4, <2>9, ElseTwice
  <1> QED
    BY <1>2, <1>3, <1>4

\* the page v of s is there, new
Added(mm, m2, s, v, what, perm) ==
    /\ Heap(m2, s) = {v} \cup Heap(mm, s)
    /\ m2.leaf[s][v] = [pa |-> User(s, v), w |-> perm.w, u |-> perm.u]
    /\ DOMAIN m2.leaf[s] = {v} \cup DOMAIN mm.leaf[s]
    /\ \A x \in DOMAIN mm.leaf[s] : m2.leaf[s][x] = mm.leaf[s][x]
    /\ m2.page[User(s, v)] = what
    /\ Kept(mm, m2, s)

\* no page of an address space
Plain(X) == \A x \in X : \A s, v : x # User(s, v)

\* a page is allocated and mapped, or nothing is: only table pages may stay
LEMMA NewPageIs ==
    ASSUME NEW mm, NEW X, Exact(mm, X), Plain(X), NEW s \in Spaces,
           NEW v \in UserPages, v \notin Heap(mm, s),
           NEW what \in {"zero", "data"}, NEW perm, NEW r \in NewPage(mm, s, v, what, perm)
    PROVE  /\ r.ok \in BOOLEAN /\ Exact(r.m, X) /\ Else(mm, r.m, s)
           /\ r.ok => Added(mm, r.m, s, v, what, perm)
           /\ ~r.ok => r.m.leaf[s] = mm.leaf[s] /\ Kept(mm, r.m, s)
  <1>1. PICK pa : pa = User(s, v)
    OBVIOUS
  <1>2. CASE r = Fail(mm)
    BY <1>2 DEF Fail, Else, Same, Kept
  <1>3. CASE r # Fail(mm)
    <2>1. PICK m0, pas : m0 = Filled(mm, pas, "junk") /\ pas = {pa}
      OBVIOUS
    <2>2. PICK m1 : m1 = Filled(m0, pas, what)
      OBVIOUS
    <2>3. PICK q \in MapPages(m1, s, v, pa, perm) : r = IF q.ok THEN q ELSE Fail(Kfree(q.m, {pa}))
      BY <1>1, <1>3, <2>1, <2>2 DEF NewPage, Kalloc
    <2>4. Loose(mm, pas)
      <3> SUFFICES ASSUME NEW t \in Spaces PROVE pa \notin Tables(t) /\ pa \notin Pages(mm, t)
        BY <2>1 DEF Loose
      <3>1. \A u \in Heap(mm, t) : pa # User(t, u)
        BY <1>1, Names
      <3>2. pa \notin Tables(t)
        BY <1>1, Names
      <3> QED
        BY <3>1, <3>2 DEF Pages, Exact, SpaceOK
    <2>5. Exact(m0, X \cup pas) /\ m0.leaf = mm.leaf /\ m0.tab = mm.tab /\ \A t \in Spaces : Same(mm, m0, t)
      <3>1. PICK junk \in {"junk", "zero", "data"} : junk = "junk"
        OBVIOUS
      <3>2. m0 = Filled(mm, pas, junk)
        BY <2>1, <3>1
      <3>3. Alloced(mm, X, m0, pas, junk)
        BY <2>4, <3>2, KallocIs
      <3> QED
        BY <3>3 DEF Alloced
    <2>6. pa \in DOMAIN m0.page
      BY <2>1, <2>5 DEF Exact
    <2>7. PICK Y : Y = X \cup pas /\ pa \in Y
      BY <2>1
    <2>8. /\ Exact(m1, Y) /\ m1.leaf = m0.leaf /\ m1.tab = m0.tab /\ Else(m0, m1, s)
          /\ Same(m0, m1, s) /\ m1.page[pa] = what
      <3>2. m1 = Filled(m0, pas, what) /\ pas \subseteq Y /\ Exact(m0, Y)
        BY <2>2, <2>5, <2>7
      <3>3. \A x \in pas : x \in Y \/ \E u \in Heap(m0, s) : x = User(s, u)
        BY <3>2
      <3>4. /\ Exact(m1, Y) /\ m1.leaf = m0.leaf /\ m1.tab = m0.tab /\ Else(m0, m1, s)
            /\ pas \subseteq Y => Same(m0, m1, s)
            /\ \A x \in DOMAIN m0.page : m1.page[x] = IF x \in pas THEN what ELSE m0.page[x]
        BY <3>2, <3>3, WriteIs
      <3> QED
        BY <2>1, <2>6, <3>2, <3>4
    <2>9. /\ m1.leaf = mm.leaf /\ Else(mm, m1, s) /\ Same(mm, m1, s)
          /\ Heap(m1, s) = Heap(mm, s)
      BY <2>5, <2>8, SameTwice, ElseTwice, SamePages DEF Else
    <2>10. v \notin DOMAIN m1.leaf[s] /\ v \in Nat
      BY <2>9, Numbers DEF Heap, UserPages
    <2>11. /\ q.ok \in BOOLEAN
           /\ ~q.ok => MoreTables(m1, Y, q.m, s)
           /\ q.ok => \E m2 : MoreTables(m1, Y, m2, s) /\ q.m = Releaf(m2, s, Entry(m1, s, v, pa, perm))
      BY <2>8, <2>10, MapIs
    <2>12. \A m2 : MoreTables(m1, Y, m2, s) =>
             /\ Exact(m2, Y) /\ Else(mm, m2, s) /\ m2.leaf = mm.leaf
             /\ Heap(m2, s) = Heap(mm, s) /\ Kept(mm, m2, s)
             /\ pa \in DOMAIN m2.page /\ m2.page[pa] = what
      <3> SUFFICES ASSUME NEW m2, MoreTables(m1, Y, m2, s)
                   PROVE  /\ Exact(m2, Y) /\ Else(mm, m2, s) /\ m2.leaf = mm.leaf
                          /\ Heap(m2, s) = Heap(mm, s) /\ Kept(mm, m2, s)
                          /\ pa \in DOMAIN m2.page /\ m2.page[pa] = what
        OBVIOUS
      <3>1. Exact(m2, Y) /\ Else(m1, m2, s) /\ m2.leaf = mm.leaf /\ Holds(m1, m2)
        BY <2>9 DEF MoreTables
      <3>2. Heap(m2, s) = Heap(mm, s)
        BY <3>1 DEF Heap
      <3>3. pa \in DOMAIN m1.page
        BY <2>7, <2>8 DEF Exact
      <3>4. \A u \in Heap(mm, s) : User(s, u) \in DOMAIN m1.page /\ m1.page[User(s, u)] = mm.page[User(s, u)]
        BY <2>8, <2>9 DEF Exact, SpaceOK, Same, Pages
      <3>5. Kept(mm, m2, s)
        BY <3>1, <3>4 DEF Kept, Holds
      <3> QED
        BY <2>8, <2>9, <3>1, <3>2, <3>3, <3>5, ElseTwice DEF Holds
    <2>13. CASE ~q.ok
      <3>1. r = Fail(Kfree(q.m, {pa}))
        BY <2>3, <2>13
      <3>2. PICK m3 : m3 = Kfree(q.m, pas) /\ r = Fail(m3)
        BY <2>1, <3>1
      <3>3. Exact(q.m, Y) /\ Else(mm, q.m, s) /\ q.m.leaf = mm.leaf /\ Heap(q.m, s) = Heap(mm, s) /\ Kept(mm, q.m, s)
        BY <2>11, <2>12, <2>13
      <3>4. Exact(m3, Y \ pas) /\ m3.leaf = q.m.leaf /\ \A t \in Spaces : Same(q.m, m3, t)
        <4>1. pas \subseteq Y
          BY <2>7
        <4> QED
          BY <3>2, <3>3, <4>1, KfreeLoose
      <3>5. Y \ pas = X
        BY <1>1, <2>1, <2>7 DEF Plain
      <3>6. Else(mm, m3, s)
        BY <3>3, <3>4, ElseTwice DEF Else
      <3>7. Kept(mm, m3, s)
        <4>1. Same(q.m, m3, s) /\ Heap(m3, s) = Heap(mm, s)
          BY <3>3, <3>4 DEF Heap
        <4> QED
          BY <3>3, <4>1 DEF Kept, Same, Pages
      <3>8. r.ok = FALSE /\ r.m = m3
        BY <3>2 DEF Fail
      <3> QED
        BY <3>3, <3>4, <3>5, <3>6, <3>7, <3>8
    <2>14. CASE q.ok
      <3>1. r = q
        BY <2>3, <2>14
      <3>2. PICK m2 : MoreTables(m1, Y, m2, s) /\ q.m = Releaf(m2, s, Entry(m1, s, v, pa, perm))
        BY <2>11, <2>14
      <3>3. /\ Exact(m2, Y) /\ Else(mm, m2, s) /\ m2.leaf = mm.leaf
            /\ Heap(m2, s) = Heap(mm, s) /\ Kept(mm, m2, s)
            /\ pa \in DOMAIN m2.page /\ m2.page[pa] = what
        BY <2>12, <3>2
      <3>4. PICK f : f = Entry(m1, s, v, pa, perm)
        OBVIOUS
      <3>5. /\ DOMAIN f = {v} \cup DOMAIN mm.leaf[s]
            /\ f[v] = [pa |-> pa, w |-> perm.w, u |-> perm.u]
            /\ \A x \in DOMAIN mm.leaf[s] : f[x] = mm.leaf[s][x]
        BY <2>9, <2>10, <3>4 DEF Entry
      <3>6. PICK m3 : m3 = r.m
        OBVIOUS
      <3>7. m3 = Releaf(m2, s, f) /\ IsMem(m2) /\ m2.corrupt = FALSE
        BY <3>1, <3>2, <3>3, <3>4, <3>6 DEF Exact
      <3>8. /\ IsMem(m3) /\ m3.page = m2.page /\ m3.corrupt = FALSE /\ m3.tab = m2.tab
            /\ m3.leaf[s] = f
            /\ \A t \in Spaces : t # s => m3.leaf[t] = m2.leaf[t]
        <4>1. Leafed(m2, m3, s, f)
          BY <3>7, LeafIs
        <4> QED
          BY <3>7, <4>1 DEF Leafed
      <3>9. v # TRAMPOLINE /\ v # TRAPFRAME /\ v \in 0..TRAMPOLINE
        BY Numbers DEF UserPages
      <3>10. Heap(m3, s) = {v} \cup Heap(mm, s)
        BY <3>5, <3>8, <3>9 DEF Heap
      <3>11. Else(m2, m3, s)
        BY <3>8 DEF Else, Same
      <3>12. Pages(m3, s) = {pa} \cup Pages(m2, s)
        BY <1>1, <3>3, <3>8, <3>10 DEF Pages
      <3>13. SpaceOK(m2, s)
        BY <3>3 DEF Exact
      <3>14. SpaceOK(m3, s)
        <4>1. \A x \in Heap(mm, s) : x \in DOMAIN mm.leaf[s]
          BY DEF Heap
        <4>2. \A x \in Heap(m3, s) : m3.leaf[s][x].pa = User(s, x)
          BY <1>1, <3>3, <3>5, <3>8, <3>10, <3>13, <4>1 DEF SpaceOK
        <4>3. \A x \in Heap(m3, s) : User(s, x) \in DOMAIN m3.page /\ m3.page[User(s, x)] \in {"zero", "data"}
          BY <1>1, <3>3, <3>8, <3>10, <3>13 DEF SpaceOK
        <4>4. DOMAIN m3.leaf[s] \subseteq 0..TRAMPOLINE
          BY <3>3, <3>5, <3>8, <3>9, <3>13 DEF SpaceOK
        <4> QED
          BY <3>8, <3>13, <4>2, <4>3, <4>4 DEF SpaceOK
      <3>15. Locally(m2, Y, s, m3, X)
        <4>1. \A x \in X : x # pa /\ x \in Y
          BY <1>1, <2>1, <2>7 DEF Plain
        <4>2. \A x \in Y : x \in DOMAIN m2.page /\ \A t \in Spaces : x \notin Tables(t) /\ x \notin Pages(m2, t)
          BY <3>3 DEF Exact, Loose
        <4>3. \A t \in Spaces : Pages(m2, t) \subseteq DOMAIN m2.page
          BY <3>3 DEF Exact, SpaceOK, Pages
        <4>4. \A x \in DOMAIN m3.page :
                /\ m3.page[x] \in {"junk", "zero", "data"}
                /\ \/ x \in X \/ x \in Pages(m3, s)
                   \/ x \in DOMAIN m2.page /\ x \notin Y /\ x \notin Pages(m2, s)
          BY <2>1, <2>7, <3>3, <3>8, <3>12 DEF Exact
        <4> QED
          BY <3>8, <3>11, <3>12, <3>14, <4>1, <4>2, <4>3, <4>4 DEF Locally
      <3>16. Exact(m3, X) /\ Else(mm, m3, s)
        BY <3>3, <3>11, <3>15, Local, ElseTwice
      <3>17. Kept(mm, m3, s)
        BY <3>3, <3>8 DEF Kept
      <3>18. Added(mm, m3, s, v, what, perm)
        BY <1>1, <3>3, <3>5, <3>8, <3>10, <3>17 DEF Added
      <3> QED
        BY <2>14, <3>1, <3>6, <3>16, <3>18
    <2> QED
      BY <2>11, <2>13, <2>14
  <1> QED
    BY <1>2, <1>3

-----------------------------------------------------------------------------
(* The kernel's access to user memory, and whole address spaces *)

LEMMA DivEven == ASSUME NEW v \in Nat PROVE (v * PGSIZE) \div PGSIZE = v /\ v * PGSIZE \in Nat
  <1>1. PICK n \in Nat : n = v * PGSIZE
    BY Numbers
  <1>2. PICK q \in Int : q = n \div PGSIZE /\ PGSIZE * q <= n /\ n < PGSIZE * q + PGSIZE
    BY Numbers, DivMod
  <1>3. PGSIZE * v = n /\ PGSIZE * q \in Int
    BY <1>1, Numbers
  <1>4. ~(q < v)
    <2> SUFFICES ASSUME q + 1 <= v PROVE FALSE
      BY <1>2
    <2>1. PGSIZE * (q + 1) <= PGSIZE * v /\ PGSIZE * (q + 1) = PGSIZE * q + PGSIZE
      BY <1>2, Larger, Numbers
    <2> QED
      BY <1>1, <1>2, <1>3, <2>1, Numbers
  <1>5. ~(v < q)
    <2> SUFFICES ASSUME v + 1 <= q PROVE FALSE
      BY <1>2
    <2>1. PGSIZE * (v + 1) <= PGSIZE * q /\ PGSIZE * (v + 1) = PGSIZE * v + PGSIZE
      BY <1>2, Larger, Numbers
    <2> QED
      BY <1>1, <1>2, <1>3, <2>1, Numbers
  <1> QED
    BY <1>1, <1>2, <1>4, <1>5

\* address space s has what it had, and perhaps more pages below n
Grew(mm, m2, s, n) ==
    /\ \A x \in DOMAIN mm.leaf[s] : x \in DOMAIN m2.leaf[s] /\ m2.leaf[s][x] = mm.leaf[s][x]
    /\ Heap(mm, s) \subseteq Heap(m2, s)
    /\ Heap(m2, s) \subseteq Heap(mm, s) \cup (0..n - 1)
    /\ Kept(mm, m2, s)

\* an attempt to reach page v of s
Reached(mm, X, r, s, n, v) ==
    /\ r.ok \in BOOLEAN /\ Exact(r.m, X) /\ Else(mm, r.m, s) /\ Grew(mm, r.m, s, n)
    /\ r.ok => v \in Heap(r.m, s)

LEMMA SameGrew == ASSUME NEW mm, NEW m2, NEW s, m2.leaf[s] = mm.leaf[s], Kept(mm, m2, s), NEW n
                  PROVE  Grew(mm, m2, s, n)
  BY DEF Grew, Heap

\* vmfault() adds one page below the size, or none
LEMMA VmfaultIs ==
    ASSUME NEW mm, NEW X, Exact(mm, X), Plain(X), NEW s \in Spaces, NEW size \in 0..MaxSize, NEW va \in Nat,
           NEW r \in Vmfault(mm, s, size, va)
    PROVE  Reached(mm, X, r, s, PagesOf(size), va \div PGSIZE)
  <1>1. PICK v : v = va \div PGSIZE
    OBVIOUS
  <1>2. CASE r = Fail(mm)
    <2>1. r.ok = FALSE /\ r.m = mm
      BY <1>2 DEF Fail
    <2>2. Else(mm, mm, s) /\ Kept(mm, mm, s)
      BY DEF Else, Same, Kept
    <2> QED
      BY <1>1, <2>1, <2>2, SameGrew DEF Reached
  <1>3. CASE r # Fail(mm)
    <2>1. ~(va >= size) /\ ~Mapped(mm, s, v) /\ r \in NewPage(mm, s, v, "zero", ForUser(TRUE))
      BY <1>1, <1>3 DEF Vmfault
    <2>2. v \in 0..PagesOf(size) - 1 /\ v \in UserPages
      BY <1>1, <2>1, PageOfByte, PagesFit
    <2>3. v \notin Heap(mm, s)
      BY <2>1 DEF Heap, Mapped
    <2>4. PICK what, perm : what \in {"zero", "data"} /\ what = "zero" /\ perm = ForUser(TRUE)
      OBVIOUS
    <2>5. r \in NewPage(mm, s, v, what, perm)
      BY <2>1, <2>4
    <2>6. /\ r.ok \in BOOLEAN /\ Exact(r.m, X) /\ Else(mm, r.m, s)
          /\ r.ok => Added(mm, r.m, s, v, what, perm)
          /\ ~r.ok => r.m.leaf[s] = mm.leaf[s] /\ Kept(mm, r.m, s)
      BY <2>2, <2>3, <2>4, <2>5, NewPageIs
    <2>7. CASE r.ok
      <3>1. Added(mm, r.m, s, v, what, perm)
        BY <2>6, <2>7
      <3>2. Grew(mm, r.m, s, PagesOf(size)) /\ v \in Heap(r.m, s)
        BY <2>2, <3>1 DEF Added, Grew
      <3> QED
        BY <1>1, <2>6, <3>2 DEF Reached
    <2>8. CASE ~r.ok
      BY <1>1, <2>6, <2>8, SameGrew DEF Reached
    <2> QED
      BY <2>6, <2>7, <2>8
  <1> QED
    BY <1>2, <1>3

\* copyin() and copyout() may add the page they meet
LEMMA CopyinIs ==
    ASSUME NEW mm, NEW X, Exact(mm, X), Plain(X), NEW s \in Spaces, NEW size \in 0..MaxSize,
           NEW v \in UserPages,
           NEW r \in Copyin(mm, s, size, v)
    PROVE  Reached(mm, X, r, s, PagesOf(size), v)
  <1>1. v \in Nat
    BY Numbers DEF UserPages
  <1>2. CASE Walkaddr(mm, s, v)
    <2>1. r.ok = TRUE /\ r.m = mm
      BY <1>2 DEF Copyin, Ok
    <2>2. v \in Heap(mm, s)
      BY <1>2, HeapIs DEF Walkaddr, Mapped
    <2>3. Else(mm, mm, s) /\ Kept(mm, mm, s)
      BY DEF Else, Same, Kept
    <2> QED
      BY <2>1, <2>2, <2>3, SameGrew DEF Reached
  <1>3. CASE ~Walkaddr(mm, s, v)
    <2>1. PICK va \in Nat : va = v * PGSIZE /\ va \div PGSIZE = v
      BY <1>1, DivEven
    <2>2. r \in Vmfault(mm, s, size, va)
      BY <1>3, <2>1 DEF Copyin
    <2> QED
      BY <2>1, <2>2, VmfaultIs
  <1> QED
    BY <1>2, <1>3

LEMMA CopyoutIs ==
    ASSUME NEW mm, NEW X, Exact(mm, X), Plain(X), NEW s \in Spaces, NEW size \in 0..MaxSize,
           NEW v \in UserPages,
           NEW r \in Copyout(mm, s, size, v)
    PROVE  Reached(mm, X, r, s, PagesOf(size), v)
  <1>1. PICK q \in Copyin(mm, s, size, v) : r = IF q.ok /\ ~q.m.leaf[s][v].w THEN Fail(q.m) ELSE q
    BY DEF Copyout
  <1>2. Reached(mm, X, q, s, PagesOf(size), v)
    BY CopyinIs
  <1>3. CASE r = q
    BY <1>2, <1>3
  <1>4. CASE r = Fail(q.m)
    <2>1. r.ok = FALSE /\ r.m = q.m
      BY <1>4 DEF Fail
    <2> QED
      BY <1>2, <2>1 DEF Reached
  <1> QED
    BY <1>1, <1>3, <1>4

\* a new address space, with nothing in it yet
Created(mm, X, r, s) ==
    /\ r.ok \in BOOLEAN /\ Exact(r.m, X) /\ Else(mm, r.m, s)
    /\ r.ok => Heap(r.m, s) = {}
    /\ ~r.ok => Gone(r.m, s)

LEMMA NoPages == 0 \in 0..MaxSize /\ 0..PagesOf(0) - 1 = {}
  <1>1. PagesOf(0) \in Nat /\ ~(0 < PagesOf(0))
    BY PagesLess, Numbers
  <1> QED
    BY <1>1, Numbers

\* uvmfree() of one that has no leaves
LEMMA UndoIs ==
    ASSUME NEW mm, NEW X, Exact(mm, X), NEW s \in Spaces, DOMAIN mm.leaf[s] = {},
           NEW m2, m2 = Uvmfree(mm, s, 0)
    PROVE  Exact(m2, X) /\ Else(mm, m2, s) /\ Gone(m2, s)
  <1>1. PICK n \in 0..MaxSize : n = 0
    BY NoPages
  <1>2. DOMAIN mm.leaf[s] \subseteq 0..PagesOf(n) - 1 /\ m2 = Uvmfree(mm, s, n)
    BY <1>1
  <1> QED
    BY <1>2, UvmfreeIs

\* proc_pagetable() makes a tree without user pages, or leaves nothing
LEMMA ProcPagetableIs ==
    ASSUME NEW mm, NEW X, Exact(mm, X), NEW s \in Spaces, Gone(mm, s), NEW p,
           NEW r \in ProcPagetable(mm, s, p)
    PROVE  Created(mm, X, r, s)
  <1>1. CASE r = Fail(mm)
    <2>1. r.ok = FALSE /\ r.m = mm
      BY <1>1 DEF Fail
    <2>2. Else(mm, mm, s)
      BY DEF Else, Same
    <2> QED
      BY <2>1, <2>2 DEF Created
  <1>2. CASE r # Fail(mm)
    <2>1. PICK new, root : new = {Root(s)} /\ root = [Filled(mm, new, "zero") EXCEPT !.tab[s] = new]
      OBVIOUS
    <2>2. new \subseteq Tables(s) \ mm.tab[s] /\ mm.tab[s] \cup new = new
      BY <2>1, Names DEF Gone
    <2>3. root = Retab(Filled(mm, new, "zero"), s, mm.tab[s] \cup new)
      BY <2>1, <2>2 DEF Retab
    <2>4. MoreTables(mm, X, root, s)
      BY <2>2, <2>3, AddTables
    <2>5. Exact(root, X) /\ Else(mm, root, s) /\ DOMAIN root.leaf[s] = {} /\ Heap(root, s) = {}
      BY <2>4 DEF MoreTables, Gone, Heap
    <2>6. PICK q \in MapPages(root, s, TRAMPOLINE, Text, NoUser(FALSE)) :
            r \in IF ~q.ok THEN {Fail(Uvmfree(q.m, s, 0))}
                  ELSE {IF z.ok THEN z
                        ELSE Fail(Uvmfree(Uvmunmap(z.m, s, {TRAMPOLINE}, FALSE), s, 0))
                        : z \in MapPages(q.m, s, TRAPFRAME, TFrame(p), NoUser(TRUE))}
      BY <1>2, <2>1 DEF ProcPagetable
    <2>7. /\ q.ok \in BOOLEAN /\ Exact(q.m, X) /\ Else(root, q.m, s) /\ Heap(q.m, s) = {}
          /\ q.ok => DOMAIN q.m.leaf[s] = {TRAMPOLINE}
          /\ ~q.ok => DOMAIN q.m.leaf[s] = {}
      <3>1. PICK v, perm : v \in {TRAMPOLINE, TRAPFRAME} /\ v = TRAMPOLINE /\ perm = NoUser(FALSE)
        OBVIOUS
      <3>2. q \in MapPages(root, s, v, Text, perm) /\ v \notin DOMAIN root.leaf[s]
        BY <2>5, <3>1
      <3>3. /\ q.ok \in BOOLEAN /\ Exact(q.m, X) /\ Else(root, q.m, s) /\ Heap(q.m, s) = Heap(root, s)
            /\ q.ok => DOMAIN q.m.leaf[s] = {v} \cup DOMAIN root.leaf[s]
            /\ ~q.ok => DOMAIN q.m.leaf[s] = DOMAIN root.leaf[s]
          <4>1. v \in {TRAMPOLINE, TRAPFRAME}
            BY <3>1
          <4> QED
            BY <2>5, <3>2, <4>1, MapTop
      <3> QED
        BY <2>5, <3>1, <3>3
    <2>8. Else(mm, q.m, s)
      BY <2>5, <2>7, ElseTwice
    <2>9. CASE ~q.ok
      <3>1. PICK m2 : m2 = Uvmfree(q.m, s, 0) /\ r = Fail(m2)
        BY <2>6, <2>9
      <3>2. Exact(m2, X) /\ Else(q.m, m2, s) /\ Gone(m2, s)
        BY <2>7, <2>9, <3>1, UndoIs
      <3>3. r.ok = FALSE /\ r.m = m2
        BY <3>1 DEF Fail
      <3> QED
        BY <2>8, <3>2, <3>3, ElseTwice DEF Created
    <2>10. CASE q.ok
      <3>1. PICK z \in MapPages(q.m, s, TRAPFRAME, TFrame(p), NoUser(TRUE)) :
              r = IF z.ok THEN z ELSE Fail(Uvmfree(Uvmunmap(z.m, s, {TRAMPOLINE}, FALSE), s, 0))
        BY <2>6, <2>10
      <3>2. /\ z.ok \in BOOLEAN /\ Exact(z.m, X) /\ Else(q.m, z.m, s) /\ Heap(z.m, s) = {}
            /\ ~z.ok => DOMAIN z.m.leaf[s] = {TRAMPOLINE}
        <4>1. PICK v, pa, perm : v \in {TRAMPOLINE, TRAPFRAME} /\ v = TRAPFRAME /\ pa = TFrame(p) /\ perm = NoUser(TRUE)
          OBVIOUS
        <4>2. z \in MapPages(q.m, s, v, pa, perm) /\ v \notin DOMAIN q.m.leaf[s]
          <5>1. DOMAIN q.m.leaf[s] = {TRAMPOLINE}
            BY <2>7, <2>10
          <5>2. TRAPFRAME # TRAMPOLINE
            BY Numbers
          <5> QED
            BY <3>1, <4>1, <5>1, <5>2
        <4>3. /\ z.ok \in BOOLEAN /\ Exact(z.m, X) /\ Else(q.m, z.m, s) /\ Heap(z.m, s) = Heap(q.m, s)
              /\ ~z.ok => DOMAIN z.m.leaf[s] = DOMAIN q.m.leaf[s]
          <5>1. v \in {TRAMPOLINE, TRAPFRAME} /\ Exact(q.m, X)
            BY <2>7, <4>1
          <5> QED
            BY <4>2, <5>1, MapTop
        <4> QED
          BY <2>7, <2>10, <4>3
      <3>3. Else(mm, z.m, s)
        BY <2>8, <3>2, ElseTwice
      <3>4. CASE z.ok
        BY <3>1, <3>2, <3>3, <3>4 DEF Created
      <3>5. CASE ~z.ok
        <4>1. PICK vs, m1, m2 : vs = {TRAMPOLINE} /\ m1 = UnmapK(z.m, s, vs) /\ m2 = Uvmfree(m1, s, 0)
          OBVIOUS
        <4>2. r.ok = FALSE /\ r.m = m2
          BY <3>1, <3>5, <4>1 DEF Fail, UnmapK
        <4>3. vs \subseteq {TRAMPOLINE, TRAPFRAME}
          BY <4>1
        <4>4. Exact(m1, X) /\ Else(z.m, m1, s) /\ DOMAIN m1.leaf[s] = DOMAIN z.m.leaf[s] \ vs
          BY <3>2, <4>1, <4>3, UnmapKeep
        <4>5. DOMAIN m1.leaf[s] = {}
          BY <3>2, <3>5, <4>1, <4>4
        <4>6. Exact(m2, X) /\ Else(m1, m2, s) /\ Gone(m2, s)
          BY <4>1, <4>4, <4>5, UndoIs
        <4>7. Else(mm, m2, s)
          BY <3>3, <4>4, <4>6, ElseTwice
        <4> QED
          BY <4>2, <4>6, <4>7 DEF Created
      <3> QED
        BY <3>2, <3>4, <3>5
    <2> QED
      BY <2>7, <2>9, <2>10
  <1> QED
    BY <1>1, <1>2

\* freeproc()
LEMMA FreeProcIs ==
    ASSUME NEW mm, NEW X, Exact(mm, X), NEW p, TFrame(p) \in X, Space(p) \in Spaces, NEW n \in 0..MaxSize,
           Heap(mm, Space(p)) \subseteq 0..PagesOf(n) - 1, NEW m2, m2 = FreeProc(mm, p, n)
    PROVE  Exact(m2, X \ {TFrame(p)}) /\ Else(mm, m2, Space(p)) /\ Gone(m2, Space(p))
  <1>1. PICK pas, s : pas = {TFrame(p)} /\ s = Space(p)
    OBVIOUS
  <1>2. PICK m1 : m1 = Kfree(mm, pas)
    OBVIOUS
  <1>3. pas \subseteq X /\ s \in Spaces
    BY <1>1
  <1>4. Exact(m1, X \ pas) /\ m1.leaf = mm.leaf /\ m1.tab = mm.tab /\ \A t \in Spaces : Same(mm, m1, t)
    BY <1>2, <1>3, KfreeLoose
  <1>5. m2 = ProcFreePagetable(m1, s, n)
    BY <1>1, <1>2 DEF FreeProc
  <1>6. Heap(m1, s) \subseteq 0..PagesOf(n) - 1
    BY <1>1, <1>4 DEF Heap
  <1>7. Exact(m2, X \ pas) /\ Else(m1, m2, s) /\ Gone(m2, s)
    BY <1>3, <1>4, <1>5, <1>6, ProcFree
  <1>8. Else(mm, m2, s)
    BY <1>4, <1>7, ElseTwice DEF Else
  <1> QED
    BY <1>1, <1>7, <1>8

-----------------------------------------------------------------------------
(* Steps and bystanders *)

\* the spaces of q are as they were
Unmoved(mm, m2, q) == Same(mm, m2, <<q, 0>>) /\ Same(mm, m2, <<q, 1>>)

\* only p and c have a part in the step
Leaves(p, c) ==
    \A q \in Procs \ {p, c} :
        /\ st'[q] = st[q] /\ sz'[q] = sz[q] /\ pt'[q] = pt[q] /\ call'[q] = call[q]
        /\ Unmoved(m, m', q)
        /\ call[q].pc = "copy" => /\ call[q].child \notin {p, c}
                                  /\ \A z \in {p, c} : call'[z].pc = "copy" => call'[z].child # call[q].child

LEMMA SpacesOf ==
    ASSUME Types, NEW q \in Procs
    PROVE  /\ Space(q) \in Spaces /\ Other(q) \in Spaces /\ Space(q) # Other(q)
           /\ <<q, 0>> \in Spaces /\ <<q, 1>> \in Spaces
           /\ \/ Space(q) = <<q, 0>> /\ Other(q) = <<q, 1>>
              \/ Space(q) = <<q, 1>> /\ Other(q) = <<q, 0>>
  <1>1. pt[q] = 0 \/ pt[q] = 1
    BY DEF Types
  <1>2. CASE pt[q] = 0
    BY <1>2 DEF Space, Other, Spaces
  <1>3. CASE pt[q] = 1
    BY <1>3 DEF Space, Other, Spaces
  <1> QED
    BY <1>1, <1>2, <1>3

\* what changes one space of p moves no other process
LEMMA ElseUnmoved ==
    ASSUME NEW mm, NEW m2, NEW s, NEW q \in Procs, Else(mm, m2, s), s # <<q, 0>>, s # <<q, 1>>
    PROVE  Unmoved(mm, m2, q)
  BY DEF Else, Unmoved, Spaces

LEMMA UnmovedTwice ==
    ASSUME NEW mm, NEW m2, NEW m3, NEW q, Unmoved(mm, m2, q), Unmoved(m2, m3, q)
    PROVE  Unmoved(mm, m3, q)
  BY SameTwice DEF Unmoved

\* what a process finds in its spaces
LEMMA UnmovedIs ==
    ASSUME Types, NEW q \in Procs, Unmoved(m, m', q), pt'[q] = pt[q]
    PROVE  /\ Space(q)' = Space(q) /\ Other(q)' = Other(q)
           /\ Same(m, m', Space(q)) /\ Same(m, m', Other(q))
           /\ Heap(m', Space(q)) = Heap(m, Space(q)) /\ Heap(m', Other(q)) = Heap(m, Other(q))
           /\ m'.leaf[Space(q)] = m.leaf[Space(q)] /\ m'.leaf[Other(q)] = m.leaf[Other(q)]
           /\ m'.tab[Space(q)] = m.tab[Space(q)] /\ m'.tab[Other(q)] = m.tab[Other(q)]
  <1>1. Space(q)' = Space(q) /\ Other(q)' = Other(q)
    BY DEF Space, Other
  <1>2. Same(m, m', Space(q)) /\ Same(m, m', Other(q))
    BY SpacesOf DEF Unmoved
  <1> QED
    BY <1>1, <1>2, SamePages DEF Same

\* a process that a step leaves alone keeps all that is said of it
LEMMA Bystander ==
    ASSUME IInv, NEW p \in Procs, NEW c \in Procs, Leaves(p, c), NEW q \in Procs \ {p, c}
    PROVE  CallOf(q)' /\ SpaceOf(q)' /\ Copied(q)'
  <1>1. st'[q] = st[q] /\ sz'[q] = sz[q] /\ pt'[q] = pt[q] /\ call'[q] = call[q] /\ Unmoved(m, m', q)
    BY DEF Leaves
  <1>2. Types /\ CallOf(q) /\ SpaceOf(q) /\ Copied(q)
    BY DEF IInv
  <1>3. /\ Space(q)' = Space(q) /\ Other(q)' = Other(q)
        /\ Same(m, m', Space(q)) /\ Same(m, m', Other(q))
        /\ Heap(m', Space(q)) = Heap(m, Space(q)) /\ Heap(m', Other(q)) = Heap(m, Other(q))
        /\ m'.leaf[Space(q)] = m.leaf[Space(q)] /\ m'.leaf[Other(q)] = m.leaf[Other(q)]
        /\ m'.tab[Space(q)] = m.tab[Space(q)] /\ m'.tab[Other(q)] = m.tab[Other(q)]
    BY <1>1, <1>2, UnmovedIs
  <1>4. SpaceOf(q)'
    BY <1>1, <1>2, <1>3 DEF SpaceOf, Gone, Below
  <1>5. CASE call[q].pc # "copy"
    <2>1. Copied(q)'
      BY <1>1, <1>5 DEF Copied
    <2>2. CallOf(q)'
      BY <1>1, <1>2, <1>3, <1>5 DEF CallOf, Below, Solid
    <2> QED
      BY <1>4, <2>1, <2>2
  <1>6. CASE call[q].pc = "copy"
    <2>1. PICK d : d = call[q].child
      OBVIOUS
    <2>2. d \in Procs /\ d # p /\ d # c
      BY <1>2, <1>6, <2>1 DEF CallOf, Leaves
    <2>3. st'[d] = st[d] /\ pt'[d] = pt[d] /\ Unmoved(m, m', d)
      BY <2>2 DEF Leaves
    <2>4. /\ Space(d)' = Space(d) /\ Same(m, m', Space(d))
          /\ Heap(m', Space(d)) = Heap(m, Space(d)) /\ m'.leaf[Space(d)] = m.leaf[Space(d)]
      BY <1>2, <2>2, <2>3, UnmovedIs
    <2>5. ASSUME NEW z \in Procs, call'[z].pc = "copy", call'[z].child = d PROVE z = q
      <3>1. z \notin {p, c}
        BY <1>6, <2>1, <2>5 DEF Leaves
      <3>2. call'[z] = call[z]
        BY <3>1 DEF Leaves
      <3> QED
        BY <1>2, <1>6, <2>1, <2>5, <3>2 DEF CallOf
    <2>6. call'[q].child = d /\ Space(call[q].child)' = Space(d) /\ Space(call[q].child) = Space(d)
      BY <1>1, <2>1, <2>4
    <2>7. CallOf(q)'
      <3>1. Below(m', Space(d), call[q].a)
        BY <1>2, <1>6, <2>4, <2>6 DEF CallOf, Below
      <3> QED
        BY <1>1, <1>2, <1>6, <2>1, <2>2, <2>3, <2>4, <2>5, <3>1 DEF CallOf
    <2>8. ASSUME NEW v \in Heap(m, Space(d))
          PROVE  /\ v \in Heap(m, Space(q))
                 /\ m'.page[User(Space(d), v)] = m.page[User(Space(d), v)]
                 /\ m'.page[User(Space(q), v)] = m.page[User(Space(q), v)]
      <3>1. v \in 0..call[q].a - 1
        BY <1>2, <1>6, <2>6 DEF CallOf, Below
      <3>2. v \in Heap(m, Space(q))
        BY <1>2, <1>6, <2>6, <3>1 DEF Copied
      <3>3. User(Space(d), v) \in Pages(m, Space(d)) /\ User(Space(q), v) \in Pages(m, Space(q))
        BY <3>2 DEF Pages
      <3> QED
        BY <1>3, <2>4, <3>2, <3>3 DEF Same
    <2>9. Copied(q)'
      BY <1>1, <1>2, <1>3, <1>6, <2>1, <2>4, <2>8 DEF Copied
    <2> QED
      BY <1>4, <2>7, <2>9
  <1> QED
    BY <1>5, <1>6

\* a step of p in which no other process has a part
OwnPart(p) ==
    /\ \A q \in Procs \ {p} : /\ st'[q] = st[q] /\ sz'[q] = sz[q] /\ pt'[q] = pt[q] /\ call'[q] = call[q]
                              /\ Unmoved(m, m', q)
    /\ call'[p].pc # "copy"

\* what was mapped stays mapped to the same page
Holding(mm, m2, s) == \A v \in Heap(mm, s) : v \in Heap(m2, s) /\ m2.leaf[s][v] = mm.leaf[s][v]

\* no exec() that has not switched the page table has lost memory
ExecPcs == {"args", "load", "seg", "stack"}
ExecFrame == \A q \in Procs : call[q].pc \in ExecPcs /\ pt'[q] = pt[q] =>
                               sz'[q] = sz[q] /\ Holding(m, m', Space(q))

LEMMA HoldingTwice ==
    ASSUME NEW mm, NEW m2, NEW m3, NEW s, Holding(mm, m2, s), Holding(m2, m3, s)
    PROVE  Holding(mm, m3, s)
  BY DEF Holding

LEMMA LeafHolding == ASSUME NEW mm, NEW m2, NEW s, m2.leaf[s] = mm.leaf[s] PROVE Holding(mm, m2, s)
  BY DEF Holding, Heap

LEMMA UnmovedHolding ==
    ASSUME Types, NEW q \in Procs, Unmoved(m, m', q)
    PROVE  Holding(m, m', Space(q))
  BY SpacesOf, LeafHolding DEF Unmoved, Same

\* a step of one process is done when it is done for that process
LEMMA OwnStepExec ==
    ASSUME IInv, NEW p \in Procs, st[p] = "LIVE", OwnPart(p),
           Types', Exact(m', Others'), CallOf(p)', SpaceOf(p)',
           call[p].pc \in ExecPcs /\ pt'[p] = pt[p] => sz'[p] = sz[p] /\ Holding(m, m', Space(p))
    PROVE  IInv' /\ ExecFrame
  <1>1. Leaves(p, p)
    <2>1. ASSUME NEW q \in Procs \ {p}, call[q].pc = "copy" PROVE call[q].child # p
      BY <2>1 DEF IInv, CallOf
    <2> QED
      BY <2>1 DEF Leaves, OwnPart
  <1>2. \A q \in Procs \ {p} : CallOf(q)' /\ SpaceOf(q)' /\ Copied(q)'
    BY <1>1, Bystander
  <1>3. Copied(p)'
    BY DEF OwnPart, Copied
  <1>4. \A q \in Procs \ {p} : sz'[q] = sz[q] /\ Holding(m, m', Space(q))
    BY UnmovedHolding DEF OwnPart, IInv
  <1> QED
    BY <1>2, <1>3, <1>4 DEF IInv, ExecFrame

LEMMA OwnStep ==
    ASSUME IInv, NEW p \in Procs, st[p] = "LIVE", call[p].pc \in {"user", "sbrk"}, OwnPart(p),
           Types', Exact(m', Others'), CallOf(p)', SpaceOf(p)'
    PROVE  IInv' /\ ExecFrame
  <1>1. call[p].pc \notin ExecPcs
    BY DEF ExecPcs
  <1> QED
    BY <1>1, OwnStepExec

-----------------------------------------------------------------------------
(* The pages of no address space *)

\* trapframes and argument pages
LEMMA OthersAre ==
    ASSUME NEW x
    PROVE  x \in Others <=> \/ \E p \in Procs : st[p] # "UNUSED" /\ x = TFrame(p)
                            \/ \E p \in Procs : \E i \in 1..call[p].args : x = Arg(p, i)
  BY DEF Others, ArgPages

LEMMA OthersPlain == Plain(Others)
  BY OthersAre, Names DEF Plain

LEMMA OthersSame ==
    ASSUME \A q \in Procs : st'[q] = "UNUSED" <=> st[q] = "UNUSED",
           \A q \in Procs : call'[q].args = call[q].args
    PROVE  Others' = Others
  <1>1. \A q \in Procs : ArgPages(q)' = ArgPages(q)
    BY DEF ArgPages
  <1> QED
    BY <1>1 DEF Others

\* the arguments of p are given back
LEMMA OthersLess ==
    ASSUME NEW p \in Procs, st' = st, call'[p].args = 0,
           \A q \in Procs \ {p} : call'[q].args = call[q].args
    PROVE  Others' = Others \ ArgPages(p)
  <1>1. ASSUME NEW x PROVE x \in Others' <=> x \in Others \ ArgPages(p)
    <2>1. x \in ArgPages(p) <=> \E i \in 1..call[p].args : x = Arg(p, i)
      BY DEF ArgPages
    <2>2. x \in Others' <=> \/ \E q \in Procs : st[q] # "UNUSED" /\ x = TFrame(q)
                            \/ \E q \in Procs : \E i \in 1..call'[q].args : x = Arg(q, i)
      BY DEF Others, ArgPages
    <2>3. (\E q \in Procs : \E i \in 1..call'[q].args : x = Arg(q, i))
            <=> \E q \in Procs \ {p} : \E i \in 1..call[q].args : x = Arg(q, i)
      BY 1..0 = {}
    <2>4. ASSUME x \in ArgPages(p)
          PROVE  /\ ~\E q \in Procs : st[q] # "UNUSED" /\ x = TFrame(q)
                 /\ ~\E q \in Procs \ {p} : \E i \in 1..call[q].args : x = Arg(q, i)
      BY <2>1, <2>4, Names
    <2> QED
      BY <2>1, <2>2, <2>3, <2>4, OthersAre
  <1> QED
    BY <1>1

\* one more argument of p
LEMMA OthersArg ==
    ASSUME NEW p \in Procs, call[p].args \in Nat, st' = st, call'[p].args = call[p].args + 1,
           \A q \in Procs \ {p} : call'[q].args = call[q].args
    PROVE  Others' = Others \cup {Arg(p, call[p].args + 1)} /\ Arg(p, call[p].args + 1) \notin Others
  <1>1. ASSUME NEW x PROVE x \in Others' <=> x \in Others \/ x = Arg(p, call[p].args + 1)
    <2>1. x \in Others' <=> \/ \E q \in Procs : st[q] # "UNUSED" /\ x = TFrame(q)
                            \/ \E q \in Procs : \E i \in 1..call'[q].args : x = Arg(q, i)
      BY DEF Others, ArgPages
    <2>2. 1..call'[p].args = (1..call[p].args) \cup {call[p].args + 1}
      OBVIOUS
    <2>3. (\E q \in Procs : \E i \in 1..call'[q].args : x = Arg(q, i))
            <=> \/ \E q \in Procs : \E i \in 1..call[q].args : x = Arg(q, i)
                \/ x = Arg(p, call[p].args + 1)
      BY <2>2
    <2> QED
      BY <2>1, <2>3, OthersAre
  <1>2. Arg(p, call[p].args + 1) \notin Others
    <2>1. call[p].args + 1 \notin 1..call[p].args
      OBVIOUS
    <2> QED
      BY <2>1, OthersAre, Names
  <1> QED
    BY <1>1, <1>2

\* a process that is allocated, or freed
LEMMA OthersMore ==
    ASSUME NEW c \in Procs, st[c] = "UNUSED", st'[c] # "UNUSED",
           \A q \in Procs \ {c} : st'[q] = st[q], \A q \in Procs : call'[q].args = call[q].args
    PROVE  Others' = Others \cup {TFrame(c)} /\ TFrame(c) \notin Others
  <1>1. ASSUME NEW x PROVE x \in Others' <=> x \in Others \/ x = TFrame(c)
    <2>1. x \in Others' <=> \/ \E q \in Procs : st'[q] # "UNUSED" /\ x = TFrame(q)
                            \/ \E q \in Procs : \E i \in 1..call[q].args : x = Arg(q, i)
      BY DEF Others, ArgPages
    <2> QED
      BY <2>1, OthersAre
  <1>2. TFrame(c) \notin Others
    BY OthersAre, Names
  <1> QED
    BY <1>1, <1>2

\* freeproc() gives back one trapframe
LEMMA OthersFewer ==
    ASSUME NEW c \in Procs, st[c] # "UNUSED", st'[c] = "UNUSED",
           \A q \in Procs \ {c} : st'[q] = st[q], \A q \in Procs : call'[q].args = call[q].args
    PROVE  Others' = Others \ {TFrame(c)} /\ TFrame(c) \in Others
  <1>1. ASSUME NEW x PROVE x \in Others' <=> x \in Others /\ x # TFrame(c)
    <2>1. x \in Others' <=> \/ \E q \in Procs : st'[q] # "UNUSED" /\ x = TFrame(q)
                            \/ \E q \in Procs : \E i \in 1..call[q].args : x = Arg(q, i)
      BY DEF Others, ArgPages
    <2>2. \A q \in Procs : TFrame(q) = TFrame(c) => q = c
      BY Names
    <2>3. \A q, i : Arg(q, i) # TFrame(c)
      BY Names
    <2> QED
      BY <2>1, <2>2, <2>3, OthersAre
  <1>2. TFrame(c) \in Others
    BY OthersAre
  <1> QED
    BY <1>1, <1>2

-----------------------------------------------------------------------------
(* The record of a call *)

\* the fields of a call's record
LEMMA CallParts ==
    ASSUME Types, NEW p \in Procs
    PROVE  /\ call[p] \in CallRec /\ call[p].pc \in Pcs /\ call[p].from \in Nat /\ call[p].a \in Nat
           /\ call[p].new \in 0..MaxSize /\ call[p].w \in BOOLEAN /\ call[p].sz \in 0..MaxSize
           /\ call[p].segs \in Seq(Segment0) /\ call[p].args \in Nat /\ call[p].child \in {0} \cup Procs
           /\ sz[p] \in 0..MaxSize
  <1>1. call[p] \in CallRec /\ sz[p] \in 0..MaxSize
    BY DEF Types
  <1> QED
    BY <1>1 DEF CallRec

LEMMA GoIs ==
    ASSUME Types, NEW p \in Procs, NEW c \in CallRec, Go(p, c)
    PROVE  call' \in [Procs -> CallRec] /\ call'[p] = c /\ \A q \in Procs \ {p} : call'[q] = call[q]
  BY DEF Types, Go

LEMMA User0Is == User0 \in CallRec /\ User0.pc = "user" /\ User0.args = 0 /\ User0.sz = 0
  <1>1. <<>> \in Seq(Segment0) /\ 0 \in 0..MaxSize
    BY Numbers
  <1> QED
    BY <1>1 DEF User0, CallRec, Pcs

\* the start of uvmalloc(), with the permission of a segment
UvmallocS(c, pc, old, new, seg) == Uvmalloc(c, pc, old, new, seg.w)

Started(d, c, pc, old, new) ==
    /\ d \in CallRec /\ d.pc = pc /\ d.from = PagesOf(old) /\ d.a = PagesOf(old)
    /\ d.new = (IF new < old THEN old ELSE new)
    /\ d.sz = c.sz /\ d.segs = c.segs /\ d.args = c.args /\ d.child = c.child

\* where uvmalloc() begins
LEMMA UvmallocIs ==
    ASSUME NEW c \in CallRec, NEW pc \in Pcs, NEW old \in 0..MaxSize, NEW new \in 0..MaxSize,
           NEW seg, seg.w \in BOOLEAN,
           NEW d, d = UvmallocS(c, pc, old, new, seg)
    PROVE  Started(d, c, pc, old, new)
  <1>1. PagesOf(old) \in Nat
    BY PagesFit
  <1>2. PICK k \in Nat : k = PagesOf(old)
    BY <1>1
  <1>3. PICK n \in 0..MaxSize : n = IF new < old THEN old ELSE new
    OBVIOUS
  <1>4. d = [c EXCEPT !.pc = pc, !.from = k, !.a = k, !.new = n, !.w = seg.w]
    BY <1>2, <1>3 DEF Uvmalloc, UvmallocS
  <1>5. c = [pc |-> c.pc, from |-> c.from, a |-> c.a, new |-> c.new, w |-> c.w, sz |-> c.sz,
             segs |-> c.segs, args |-> c.args, child |-> c.child]
        /\ c.sz \in 0..MaxSize /\ c.segs \in Seq(Segment0) /\ c.args \in Nat /\ c.child \in {0} \cup Procs
    BY DEF CallRec
  <1>6. d = [pc |-> pc, from |-> k, a |-> k, new |-> n, w |-> seg.w, sz |-> c.sz,
             segs |-> c.segs, args |-> c.args, child |-> c.child]
    BY <1>4, <1>5
  <1>7. d \in CallRec
    BY <1>5, <1>6 DEF CallRec
  <1> QED
    BY <1>2, <1>3, <1>6, <1>7 DEF Started

LEMMA UvmallocTrue ==
    ASSUME NEW c \in CallRec, NEW pc \in Pcs, NEW old \in 0..MaxSize, NEW new \in 0..MaxSize,
           NEW d, d = Uvmalloc(c, pc, old, new, TRUE)
    PROVE  Started(d, c, pc, old, new)
  <1>1. PICK seg : seg = [w |-> TRUE]
    OBVIOUS
  <1>2. d = UvmallocS(c, pc, old, new, seg) /\ seg.w \in BOOLEAN
    BY <1>1 DEF UvmallocS, Uvmalloc
  <1>3. PICK e : e = UvmallocS(c, pc, old, new, seg)
    OBVIOUS
  <1>4. Started(e, c, pc, old, new)
    BY <1>2, <1>3, UvmallocIs
  <1> QED
    BY <1>2, <1>3, <1>4

-----------------------------------------------------------------------------
(* One lemma for each action *)

\* a change to an address space of p is none to another process
LEMMA OwnElse ==
    ASSUME Types, NEW p \in Procs, NEW mm, NEW m2, NEW s \in {Space(p), Other(p)}, Else(mm, m2, s),
           NEW q \in Procs \ {p}
    PROVE  Unmoved(mm, m2, q)
  <1>1. PICK b : s = <<p, b>>
    BY DEF Space, Other
  <1>2. s # <<q, 0>> /\ s # <<q, 1>>
    BY <1>1
  <1> QED
    BY <1>2, ElseUnmoved

LEMMA ElseIs ==
    ASSUME NEW mm, NEW m2, NEW s, Else(mm, m2, s), NEW t \in Spaces, t # s
    PROVE  /\ m2.leaf[t] = mm.leaf[t] /\ m2.tab[t] = mm.tab[t] /\ Heap(m2, t) = Heap(mm, t)
           /\ Gone(mm, t) => Gone(m2, t)
  BY SamePages DEF Else, Same, Gone

\* a process that goes back to its program, or ends
LEMMA BackToUser ==
    ASSUME NEW p \in Procs, st'[p] \in {"LIVE", "ZOMBIE"}, call'[p].pc = "user", call'[p].args = 0,
           Gone(m', Other(p)'), Below(m', Space(p)', PagesOf(sz'[p]))
    PROVE  CallOf(p)' /\ SpaceOf(p)'
  <1>1. CallOf(p)'
    BY DEF CallOf
  <1>2. SpaceOf(p)'
    BY DEF SpaceOf, Gone, Below
  <1> QED
    BY <1>1, <1>2

\* a process outside of the kernel: one address space, within its size
LEMMA AtUser ==
    ASSUME IInv, NEW p \in Procs, st[p] = "LIVE", call[p].pc = "user"
    PROVE  /\ call[p].args = 0 /\ Gone(m, Other(p)) /\ Below(m, Space(p), PagesOf(sz[p]))
           /\ Types /\ Exact(m, Others) /\ Plain(Others) /\ sz[p] \in 0..MaxSize
           /\ Space(p) \in Spaces /\ Other(p) \in Spaces /\ Space(p) # Other(p)
  BY SpacesOf, OthersPlain, CallParts DEF IInv, CallOf, SpaceOf

\* kexit() changes no memory
LEMMA ExitsTypes ==
    ASSUME Types, NEW p \in Procs, Exits(p)
    PROVE  /\ Types' /\ pt' = pt /\ sz' = sz /\ st'[p] = "ZOMBIE" /\ call'[p] = User0
           /\ \A q \in Procs \ {p} : st'[q] = st[q] /\ call'[q] = call[q]
  <1>1. parent' \in [Procs -> {0} \cup Procs]
    <2>1. parent' = [q \in Procs |-> IF parent[q] = p THEN 1 ELSE parent[q]] /\ 1 \in Procs
      BY SpacesAre DEF Exits, initproc
    <2> QED
      BY <2>1 DEF Types
  <1>2. call' \in [Procs -> CallRec] /\ call'[p] = User0 /\ \A q \in Procs \ {p} : call'[q] = call[q]
    BY User0Is DEF Types, Exits
  <1> QED
    BY <1>1, <1>2 DEF Types, Exits

LEMMA PageFaultStep == ASSUME IInv, NEW p \in Procs, PageFault(p) PROVE IInv' /\ ExecFrame
  <1>1. st[p] = "LIVE" /\ call[p].pc = "user"
    BY DEF PageFault, Enters, At
  <1>2. /\ call[p].args = 0 /\ Gone(m, Other(p)) /\ Below(m, Space(p), PagesOf(sz[p]))
        /\ Types /\ Exact(m, Others) /\ Plain(Others) /\ sz[p] \in 0..MaxSize
        /\ Space(p) \in Spaces /\ Other(p) \in Spaces /\ Space(p) # Other(p)
    BY <1>1, AtUser
  <1>a. PICK va \in 0..MaxSize : \E r \in Vmfault(m, Space(p), sz[p], va) :
          m' = r.m /\ IF r.ok THEN SameProcs /\ UNCHANGED call ELSE Exits(p)
    BY DEF PageFault
  <1>3. PICK r \in Vmfault(m, Space(p), sz[p], va) :
          m' = r.m /\ IF r.ok THEN SameProcs /\ UNCHANGED call ELSE Exits(p)
    BY <1>a
  <1>4. va \in Nat
    BY Numbers
  <1>5. Reached(m, Others, r, Space(p), PagesOf(sz[p]), va \div PGSIZE)
    BY <1>2, <1>3, <1>4, VmfaultIs
  <1>6. Exact(m', Others) /\ Else(m, m', Space(p)) /\ Below(m', Space(p), PagesOf(sz[p])) /\ Gone(m', Other(p))
    <2>1. Exact(m', Others) /\ Else(m, m', Space(p)) /\ Grew(m, m', Space(p), PagesOf(sz[p]))
      BY <1>3, <1>5 DEF Reached
    <2> QED
      BY <1>2, <2>1, ElseIs DEF Grew, Below
  <1>7. \A q \in Procs \ {p} : Unmoved(m, m', q)
    BY <1>2, <1>6, OwnElse
  <1>8. CASE r.ok
    <2>1. st' = st /\ sz' = sz /\ pt' = pt /\ parent' = parent /\ call' = call
      BY <1>3, <1>8 DEF SameProcs
    <2>2. Others' = Others /\ Types'
      BY <1>2, <2>1, OthersSame DEF Types
    <2>3. Space(p)' = Space(p) /\ Other(p)' = Other(p)
      BY <2>1 DEF Space, Other
    <2>4. CallOf(p)' /\ SpaceOf(p)'
      BY <1>1, <1>2, <1>6, <2>1, <2>3, BackToUser
    <2>5. OwnPart(p)
      BY <1>1, <1>7, <2>1 DEF OwnPart
    <2> QED
      BY <1>1, <1>6, <2>2, <2>4, <2>5, OwnStep
  <1>9. CASE ~r.ok
    <2>1. /\ Types' /\ pt' = pt /\ sz' = sz /\ st'[p] = "ZOMBIE" /\ call'[p] = User0
          /\ \A q \in Procs \ {p} : st'[q] = st[q] /\ call'[q] = call[q]
      BY <1>2, <1>3, <1>9, ExitsTypes
    <2>2. Others' = Others
      BY <1>1, <1>2, <2>1, OthersSame, User0Is
    <2>3. Space(p)' = Space(p) /\ Other(p)' = Other(p)
      BY <2>1 DEF Space, Other
    <2>4. CallOf(p)' /\ SpaceOf(p)'
      BY <1>6, <2>1, <2>3, BackToUser, User0Is
    <2>5. OwnPart(p)
      BY <1>7, <2>1, User0Is DEF OwnPart
    <2> QED
      BY <1>1, <1>6, <2>1, <2>2, <2>4, <2>5, OwnStep
  <1> QED
    BY <1>8, <1>9

LEMMA KexitStep == ASSUME IInv, NEW p \in Procs, Kexit(p) PROVE IInv' /\ ExecFrame
  <1>1. st[p] = "LIVE" /\ call[p].pc = "user" /\ Exits(p) /\ m' = m
    BY DEF Kexit, Enters, At
  <1>2. /\ call[p].args = 0 /\ Gone(m, Other(p)) /\ Below(m, Space(p), PagesOf(sz[p]))
        /\ Types /\ Exact(m, Others)
    BY <1>1, AtUser
  <1>3. /\ Types' /\ pt' = pt /\ sz' = sz /\ st'[p] = "ZOMBIE" /\ call'[p] = User0
        /\ \A q \in Procs \ {p} : st'[q] = st[q] /\ call'[q] = call[q]
    BY <1>1, <1>2, ExitsTypes
  <1>4. Others' = Others
    BY <1>1, <1>2, <1>3, OthersSame, User0Is
  <1>5. Space(p)' = Space(p) /\ Other(p)' = Other(p)
    BY <1>3 DEF Space, Other
  <1>6. CallOf(p)' /\ SpaceOf(p)'
    BY <1>1, <1>2, <1>3, <1>5, BackToUser, User0Is
  <1>7. OwnPart(p)
    BY <1>1, <1>3, User0Is DEF OwnPart, Unmoved, Same
  <1> QED
    BY <1>1, <1>2, <1>3, <1>4, <1>6, <1>7, OwnStep

LEMMA ShrinkStep ==
    ASSUME IInv, NEW p \in Procs, At(p, "user"), NEW n \in Int, Shrink(p, n)
    PROVE  IInv' /\ ExecFrame
  <1>1. st[p] = "LIVE" /\ call[p].pc = "user" /\ n < 0
    BY DEF At, Shrink
  <1>2. /\ call[p].args = 0 /\ Gone(m, Other(p)) /\ Below(m, Space(p), PagesOf(sz[p]))
        /\ Types /\ Exact(m, Others) /\ Plain(Others) /\ sz[p] \in 0..MaxSize
        /\ Space(p) \in Spaces /\ Other(p) \in Spaces /\ Space(p) # Other(p)
    BY <1>1, AtUser
  <1>3. st' = st /\ pt' = pt /\ parent' = parent /\ call' = call
    BY DEF Shrink
  <1>4. Others' = Others
    BY <1>3, OthersSame
  <1>5. Space(p)' = Space(p) /\ Other(p)' = Other(p)
    BY <1>3 DEF Space, Other
  <1>6. CASE sz[p] + n < 0
    <2>1. m' = m /\ sz' = sz
      BY <1>6 DEF Shrink
    <2>2. Types' /\ CallOf(p)' /\ SpaceOf(p)'
      BY <1>1, <1>2, <1>3, <1>5, <2>1, BackToUser DEF Types
    <2>3. OwnPart(p)
      BY <1>1, <1>3, <2>1 DEF OwnPart, Unmoved, Same
    <2> QED
      BY <1>1, <1>2, <1>4, <2>1, <2>2, <2>3, OwnStep
  <1>7. CASE ~(sz[p] + n < 0)
    <2>1. PICK k \in 0..MaxSize : k = sz[p] + n
      BY <1>1, <1>2, <1>7, Numbers
    <2>2. PICK vs : vs = PagesOf(k)..PagesOf(sz[p]) - 1
      OBVIOUS
    <2>3. m' = UnmapF(m, Space(p), vs) /\ sz' = [sz EXCEPT ![p] = k]
      BY <1>7, <2>1, <2>2 DEF Shrink, UnmapF
    <2>4. PagesOf(k) \in Nat /\ PagesOf(sz[p]) \in Nat /\ 0..PagesOf(sz[p]) - 1 \subseteq UserPages
      BY <1>2, PagesFit
    <2>5. vs \subseteq UserPages
      BY <2>2, <2>4
    <2>6. Exact(m', Others) /\ Else(m, m', Space(p)) /\ Heap(m', Space(p)) = Heap(m, Space(p)) \ vs
      <3>1. PICK s, m2 : s = Space(p) /\ m2 = m'
        OBVIOUS
      <3>2. s \in Spaces /\ m2 = UnmapF(m, s, vs)
        BY <1>2, <2>3, <3>1
      <3>3. Exact(m2, Others) /\ Else(m, m2, s) /\ Heap(m2, s) = Heap(m, s) \ vs
        BY <1>2, <2>5, <3>2, UnmapHeap
      <3> QED
        BY <3>1, <3>3
    <2>7. Below(m', Space(p), PagesOf(k))
      BY <1>2, <2>2, <2>4, <2>6 DEF Below
    <2>8. Gone(m', Other(p))
      BY <1>2, <2>6, ElseIs
    <2>9. sz' \in [Procs -> 0..MaxSize] /\ sz'[p] = k /\ \A q \in Procs \ {p} : sz'[q] = sz[q]
      BY <1>2, <2>3 DEF Types
    <2>10. Types' /\ CallOf(p)' /\ SpaceOf(p)'
      BY <1>1, <1>2, <1>3, <1>5, <2>7, <2>8, <2>9, BackToUser DEF Types
    <2>11. OwnPart(p)
      BY <1>1, <1>2, <1>3, <2>6, <2>9, OwnElse DEF OwnPart
    <2> QED
      BY <1>1, <1>4, <2>6, <2>10, <2>11, OwnStep
  <1> QED
    BY <1>6, <1>7

LEMMA GrowLazyStep ==
    ASSUME IInv, NEW p \in Procs, At(p, "user"), NEW n \in Int, GrowLazy(p, n)
    PROVE  IInv' /\ ExecFrame
  <1>1. st[p] = "LIVE" /\ call[p].pc = "user" /\ n >= 0
    BY DEF At, GrowLazy
  <1>2. /\ call[p].args = 0 /\ Gone(m, Other(p)) /\ Below(m, Space(p), PagesOf(sz[p]))
        /\ Types /\ Exact(m, Others) /\ sz[p] \in 0..MaxSize
    BY <1>1, AtUser
  <1>3. m' = m /\ st' = st /\ pt' = pt /\ parent' = parent /\ call' = call
    BY DEF GrowLazy
  <1>4. PICK k \in 0..MaxSize : sz' = [sz EXCEPT ![p] = k] /\ sz[p] <= k
    <2>1. sz' = [sz EXCEPT ![p] = IF sz[p] + n > MaxSize THEN sz[p] ELSE sz[p] + n]
      BY DEF GrowLazy
    <2>2. PICK k : k = IF sz[p] + n > MaxSize THEN sz[p] ELSE sz[p] + n
      OBVIOUS
    <2>3. k \in 0..MaxSize /\ sz[p] <= k
      BY <1>1, <1>2, <2>2, Numbers
    <2> QED
      BY <2>1, <2>2, <2>3
  <1>5. sz' \in [Procs -> 0..MaxSize] /\ sz'[p] = k /\ \A q \in Procs \ {p} : sz'[q] = sz[q]
    BY <1>2, <1>4 DEF Types
  <1>6. Below(m', Space(p), PagesOf(k))
    <2>1. PagesOf(sz[p]) <= PagesOf(k) /\ PagesOf(k) \in Nat /\ PagesOf(sz[p]) \in Nat
      BY <1>2, <1>4, PagesMore, PagesFit
    <2> QED
      BY <1>2, <1>3, <2>1 DEF Below
  <1>7. Others' = Others
    BY <1>3, OthersSame
  <1>8. Space(p)' = Space(p) /\ Other(p)' = Other(p)
    BY <1>3 DEF Space, Other
  <1>9. Types' /\ CallOf(p)' /\ SpaceOf(p)'
    BY <1>1, <1>2, <1>3, <1>5, <1>6, <1>8, BackToUser DEF Types
  <1>10. OwnPart(p)
    BY <1>1, <1>3, <1>5 DEF OwnPart, Unmoved, Same
  <1> QED
    BY <1>1, <1>2, <1>3, <1>7, <1>9, <1>10, OwnStep

LEMMA GrowEagerStep ==
    ASSUME IInv, NEW p \in Procs, At(p, "user"), NEW n \in Int, GrowEager(p, n)
    PROVE  IInv' /\ ExecFrame
  <1>1. st[p] = "LIVE" /\ call[p].pc = "user" /\ n > 0 /\ sz[p] + n <= MaxSize
    BY DEF At, GrowEager
  <1>2. /\ call[p].args = 0 /\ Gone(m, Other(p)) /\ Below(m, Space(p), PagesOf(sz[p]))
        /\ Types /\ Exact(m, Others) /\ sz[p] \in 0..MaxSize
    BY <1>1, AtUser
  <1>3. m' = m /\ st' = st /\ sz' = sz /\ pt' = pt /\ parent' = parent
    BY DEF GrowEager, SameProcs
  <1>4. PICK k \in 0..MaxSize : k = sz[p] + n /\ sz[p] <= k
    BY <1>1, <1>2, Numbers
  <1>5. PICK c : c = Uvmalloc(User0, "sbrk", sz[p], k, TRUE)
    OBVIOUS
  <1>6. c \in CallRec /\ c.pc = "sbrk" /\ c.from = PagesOf(sz[p]) /\ c.a = PagesOf(sz[p]) /\ c.new = k /\ c.args = 0
    <2>1. PICK pc : pc \in Pcs /\ pc = "sbrk"
      BY DEF Pcs
    <2>2. PICK d, old : d = User0 /\ old = sz[p]
      OBVIOUS
    <2>3. PICK e : e = Uvmalloc(d, pc, old, k, TRUE)
      OBVIOUS
    <2>4. c = e /\ d \in CallRec /\ d.args = 0 /\ old \in 0..MaxSize
      BY <1>2, <1>5, <2>1, <2>2, <2>3, User0Is
    <2>5. Started(e, d, pc, old, k)
      BY <2>1, <2>3, <2>4, UvmallocTrue
    <2>6. e.new = k
      BY <1>2, <1>4, <2>2, <2>5, Numbers DEF Started
    <2> QED
      BY <2>1, <2>2, <2>4, <2>5, <2>6 DEF Started
  <1>7. call' \in [Procs -> CallRec] /\ call'[p] = c /\ \A q \in Procs \ {p} : call'[q] = call[q]
    <2>1. Go(p, c)
      BY <1>4, <1>5 DEF GrowEager
    <2> QED
      BY <1>2, <1>6, <2>1, GoIs
  <1>8. Others' = Others
    BY <1>2, <1>3, <1>6, <1>7, OthersSame
  <1>9. Space(p)' = Space(p) /\ Other(p)' = Other(p)
    BY <1>3 DEF Space, Other
  <1>10. PagesOf(sz[p]) <= PagesOf(k) /\ PagesOf(sz[p]) \in Nat
    BY <1>2, <1>4, PagesMore, PagesFit
  <1>11. CallOf(p)'
    BY <1>1, <1>2, <1>3, <1>4, <1>6, <1>7, <1>9, <1>10 DEF CallOf, Below
  <1>12. SpaceOf(p)'
    BY <1>1, <1>2, <1>3, <1>6, <1>7, <1>9 DEF SpaceOf, Gone
  <1>13. OwnPart(p)
    BY <1>3, <1>6, <1>7 DEF OwnPart, Unmoved, Same
  <1>14. Types'
    BY <1>2, <1>3, <1>7 DEF Types
  <1> QED
    BY <1>1, <1>2, <1>3, <1>8, <1>11, <1>12, <1>13, <1>14, OwnStep

LEMMA SbrkStep == ASSUME IInv, NEW p \in Procs, Sbrk(p) PROVE IInv' /\ ExecFrame
  <1>1. At(p, "user") /\ Deltas \subseteq Int
    BY VmAssumption DEF Sbrk, Enters
  <1>2. PICK n \in Int : Shrink(p, n) \/ GrowLazy(p, n) \/ GrowEager(p, n)
    BY <1>1 DEF Sbrk
  <1> QED
    BY <1>1, <1>2, ShrinkStep, GrowLazyStep, GrowEagerStep

\* one page of uvmalloc()'s loop
More(mm, m2, s, v) ==
    /\ Heap(m2, s) = {v} \cup Heap(mm, s) /\ m2.leaf[s][v].u
    /\ \A x \in DOMAIN mm.leaf[s] : m2.leaf[s][x] = mm.leaf[s][x]

\* one page of uvmalloc()'s loop: one more, or all of the loop's given back
LEMMA UvmallocPageIs ==
    ASSUME Types, NEW X, Exact(m, X), Plain(X), NEW p \in Procs, NEW s \in Spaces, UvmallocMore(p),
           Below(m, s, call[p].a), call[p].from <= call[p].a, NEW r \in UvmallocPage(p, s)
    PROVE  /\ r.ok \in BOOLEAN /\ Exact(r.m, X) /\ Else(m, r.m, s)
           /\ r.ok => More(m, r.m, s, call[p].a) /\ Below(r.m, s, call[p].a + 1)
           /\ ~r.ok => Below(r.m, s, call[p].from)
           /\ call[p].a + 1 \in Nat /\ call[p].a + 1 <= PagesOf(call[p].new)
  <1>1. call[p].a \in Nat /\ call[p].from \in Nat /\ call[p].new \in 0..MaxSize
    BY CallParts
  <1>2. PICK a, from : a = call[p].a /\ from = call[p].from
    OBVIOUS
  <1>3. PagesOf(call[p].new) \in Nat /\ 0..PagesOf(call[p].new) - 1 \subseteq UserPages /\ a < PagesOf(call[p].new)
    BY <1>1, <1>2, PagesFit, PagesLess DEF UvmallocMore
  <1>4. a \in UserPages /\ a \notin Heap(m, s)
    BY <1>1, <1>2, <1>3 DEF Below
  <1>5. PICK what, perm : what = "zero" /\ perm = ForUser(call[p].w)
    OBVIOUS
  <1>6. PICK q \in NewPage(m, s, a, what, perm) :
          r = IF q.ok THEN q ELSE [q EXCEPT !.m = Uvmunmap(@, s, from..a - 1, TRUE)]
    BY <1>2, <1>5 DEF UvmallocPage
  <1>7. what \in {"zero", "data"} /\ q \in NewPage(m, s, a, what, perm)
    BY <1>5
  <1>8. /\ q.ok \in BOOLEAN /\ Exact(q.m, X) /\ Else(m, q.m, s)
        /\ q.ok => Added(m, q.m, s, a, what, perm)
        /\ ~q.ok => q.m.leaf[s] = m.leaf[s] /\ Kept(m, q.m, s)
    BY <1>4, <1>7, NewPageIs
  <1>9. CASE q.ok
    <2>1. r = q /\ perm.u
      BY <1>5, <1>6, <1>9 DEF ForUser
    <2>2. More(m, r.m, s, a)
      BY <1>8, <1>9, <2>1 DEF Added, More
    <2>3. Below(r.m, s, a + 1)
      BY <1>1, <1>2, <2>2 DEF More, Below
    <2>4. call[p].a + 1 \in Nat /\ call[p].a + 1 <= PagesOf(call[p].new)
      BY <1>1, <1>2, <1>3
    <2>5. r.ok /\ Exact(r.m, X) /\ Else(m, r.m, s)
      BY <1>8, <1>9, <2>1
    <2> QED
      BY <1>2, <2>2, <2>3, <2>4, <2>5
  <1>10. CASE ~q.ok
    <2>1. PICK mq : q = Fail(mq)
      BY <1>7, <1>10 DEF NewPage, Fail
    <2>2. PICK vs, m2 : vs = from..a - 1 /\ m2 = UnmapF(mq, s, vs)
      OBVIOUS
    <2>3. r.ok = FALSE /\ r.m = m2 /\ q.m = mq
      BY <1>6, <1>10, <2>1, <2>2 DEF Fail, UnmapF
    <2>4. vs \subseteq UserPages
      BY <1>1, <1>2, <1>3, <2>2 DEF UserPages
    <2>5. Exact(mq, X) /\ Heap(mq, s) = Heap(m, s)
      BY <1>8, <1>10, <2>3 DEF Heap
    <2>6. Exact(m2, X) /\ Else(mq, m2, s) /\ Heap(m2, s) = Heap(mq, s) \ vs
      <3>1. s \in Spaces /\ Exact(mq, X)
        BY <2>5
      <3>2. m2 = UnmapF(mq, s, vs)
        BY <2>2
      <3> QED
        BY <2>4, <3>1, <3>2, UnmapHeap
    <2>7. Below(m2, s, from)
      BY <1>1, <1>2, <2>2, <2>5, <2>6 DEF Below
    <2>8. Else(m, m2, s)
      BY <1>8, <2>3, <2>6, ElseTwice
    <2>9. call[p].a + 1 \in Nat /\ call[p].a + 1 <= PagesOf(call[p].new)
      BY <1>1, <1>2, <1>3
    <2>10. ~r.ok /\ r.ok \in BOOLEAN /\ Exact(r.m, X) /\ Else(m, r.m, s) /\ Below(r.m, s, call[p].from)
      BY <1>2, <2>3, <2>6, <2>7, <2>8
    <2> QED
      BY <2>9, <2>10
  <1> QED
    BY <1>8, <1>9, <1>10

LEMMA NextPageIs ==
    ASSUME Types, NEW p \in Procs, call[p].a + 1 \in Nat, NEW mm, NextPage(p, mm)
    PROVE  /\ m' = mm /\ st' = st /\ sz' = sz /\ pt' = pt /\ parent' = parent
           /\ call' \in [Procs -> CallRec] /\ \A q \in Procs \ {p} : call'[q] = call[q]
           /\ call'[p].a = call[p].a + 1 /\ call'[p].pc = call[p].pc /\ call'[p].from = call[p].from
           /\ call'[p].new = call[p].new /\ call'[p].sz = call[p].sz /\ call'[p].segs = call[p].segs
           /\ call'[p].args = call[p].args /\ call'[p].child = call[p].child
  <1>1. PICK c, a : c = call[p] /\ a = call[p].a + 1
    OBVIOUS
  <1>2. c \in CallRec /\ a \in Nat
    BY <1>1, CallParts
  <1>3. PICK d : d = [c EXCEPT !.a = a]
    OBVIOUS
  <1>4. /\ d \in CallRec /\ d.a = a /\ d.pc = c.pc /\ d.from = c.from /\ d.new = c.new /\ d.sz = c.sz
        /\ d.segs = c.segs /\ d.args = c.args /\ d.child = c.child
    BY <1>2, <1>3 DEF CallRec
  <1>5. Go(p, d) /\ m' = mm /\ SameProcs
    BY <1>1, <1>3 DEF NextPage
  <1>6. call' \in [Procs -> CallRec] /\ call'[p] = d /\ \A q \in Procs \ {p} : call'[q] = call[q]
    BY <1>4, <1>5, GoIs
  <1> QED
    BY <1>1, <1>4, <1>5, <1>6 DEF SameProcs

LEMMA SbrkPageStep == ASSUME IInv, NEW p \in Procs, SbrkPage(p) PROVE IInv' /\ ExecFrame
  <1>1. st[p] = "LIVE" /\ call[p].pc = "sbrk" /\ UvmallocMore(p)
    BY DEF SbrkPage, At
  <1>2. /\ Types /\ Exact(m, Others) /\ Plain(Others) /\ Space(p) \in Spaces /\ Other(p) \in Spaces /\ Space(p) # Other(p)
        /\ call[p].from = PagesOf(sz[p]) /\ sz[p] <= call[p].new /\ call[p].args = 0
        /\ call[p].from <= call[p].a /\ call[p].a <= PagesOf(call[p].new)
        /\ Below(m, Space(p), call[p].a) /\ Gone(m, Other(p))
    BY <1>1, SpacesOf, OthersPlain DEF IInv, CallOf, SpaceOf
  <1>3. PICK s : s = Space(p)
    OBVIOUS
  <1>4. PICK r \in UvmallocPage(p, s) :
          IF r.ok THEN NextPage(p, r.m) ELSE m' = r.m /\ Go(p, User0) /\ SameProcs
    BY <1>3 DEF SbrkPage
  <1>5. s \in Spaces /\ Below(m, s, call[p].a)
    BY <1>2, <1>3
  <1>6. /\ r.ok \in BOOLEAN /\ Exact(r.m, Others) /\ Else(m, r.m, s)
        /\ r.ok => More(m, r.m, s, call[p].a) /\ Below(r.m, s, call[p].a + 1)
        /\ ~r.ok => Below(r.m, s, call[p].from)
        /\ call[p].a + 1 \in Nat /\ call[p].a + 1 <= PagesOf(call[p].new)
    BY <1>1, <1>2, <1>4, <1>5, UvmallocPageIs
  <1>7. Gone(r.m, Other(p))
    BY <1>2, <1>3, <1>6, ElseIs
  <1>8. \A q \in Procs \ {p} : Unmoved(m, r.m, q)
    BY <1>2, <1>3, <1>6, OwnElse
  <1>9. CASE r.ok
    <2>1. NextPage(p, r.m)
      BY <1>4, <1>9
    <2>2. /\ m' = r.m /\ st' = st /\ sz' = sz /\ pt' = pt /\ parent' = parent
          /\ call' \in [Procs -> CallRec] /\ \A q \in Procs \ {p} : call'[q] = call[q]
          /\ call'[p].a = call[p].a + 1 /\ call'[p].pc = call[p].pc /\ call'[p].from = call[p].from
          /\ call'[p].new = call[p].new /\ call'[p].sz = call[p].sz /\ call'[p].segs = call[p].segs
          /\ call'[p].args = call[p].args /\ call'[p].child = call[p].child
      BY <1>2, <1>6, <2>1, NextPageIs
    <2>3. Others' = Others
      BY <2>2, OthersSame
    <2>4. Space(p)' = Space(p) /\ Other(p)' = Other(p)
      BY <2>2 DEF Space, Other
    <2>5. Types'
      BY <1>2, <2>2 DEF Types
    <2>6. call[p].from <= call[p].a + 1
      BY <1>2, <1>6, CallParts
    <2>7. CallOf(p)'
      BY <1>1, <1>2, <1>3, <1>6, <1>9, <2>2, <2>4, <2>6 DEF CallOf, Below
    <2>8. SpaceOf(p)'
      BY <1>1, <1>7, <2>2, <2>4 DEF SpaceOf, Gone
    <2>9. OwnPart(p)
      BY <1>1, <1>8, <2>2 DEF OwnPart
    <2> QED
      BY <1>1, <1>6, <2>2, <2>3, <2>5, <2>7, <2>8, <2>9, OwnStep
  <1>10. CASE ~r.ok
    <2>1. m' = r.m /\ Go(p, User0) /\ SameProcs
      BY <1>4, <1>10
    <2>2. call' \in [Procs -> CallRec] /\ call'[p] = User0 /\ \A q \in Procs \ {p} : call'[q] = call[q]
      BY <1>2, <2>1, GoIs, User0Is
    <2>3. st' = st /\ sz' = sz /\ pt' = pt /\ parent' = parent
      BY <2>1 DEF SameProcs
    <2>4. Others' = Others
      BY <1>2, <2>2, <2>3, OthersSame, User0Is
    <2>5. Space(p)' = Space(p) /\ Other(p)' = Other(p)
      BY <2>3 DEF Space, Other
    <2>6. Types'
      BY <1>2, <2>2, <2>3 DEF Types
    <2>7. CallOf(p)' /\ SpaceOf(p)'
      BY <1>1, <1>2, <1>3, <1>6, <1>7, <1>10, <2>1, <2>2, <2>3, <2>5, BackToUser, User0Is
    <2>8. OwnPart(p)
      BY <1>8, <2>1, <2>2, <2>3, User0Is DEF OwnPart
    <2> QED
      BY <1>1, <1>6, <2>1, <2>4, <2>6, <2>7, <2>8, OwnStep
  <1> QED
    BY <1>6, <1>9, <1>10

\* the loop is over
LEMMA LoopEnds ==
    ASSUME Types, NEW p \in Procs, ~UvmallocMore(p), call[p].a <= PagesOf(call[p].new)
    PROVE  call[p].a = PagesOf(call[p].new)
  <1>1. call[p].a \in Nat /\ call[p].new \in 0..MaxSize
    BY CallParts
  <1>2. PagesOf(call[p].new) \in Nat /\ ~(call[p].a < PagesOf(call[p].new))
    BY <1>1, PagesFit, PagesLess DEF UvmallocMore
  <1> QED
    BY <1>1, <1>2

LEMMA SbrkDoneStep == ASSUME IInv, NEW p \in Procs, SbrkDone(p) PROVE IInv' /\ ExecFrame
  <1>1. st[p] = "LIVE" /\ call[p].pc = "sbrk" /\ ~UvmallocMore(p)
    BY DEF SbrkDone, At
  <1>2. /\ Types /\ Exact(m, Others) /\ call[p].args = 0 /\ call[p].a <= PagesOf(call[p].new)
        /\ Below(m, Space(p), call[p].a) /\ Gone(m, Other(p))
    BY <1>1 DEF IInv, CallOf, SpaceOf
  <1>3. call[p].a = PagesOf(call[p].new) /\ call[p].new \in 0..MaxSize
    BY <1>1, <1>2, LoopEnds, CallParts
  <1>4. m' = m /\ st' = st /\ pt' = pt /\ parent' = parent
    BY DEF SbrkDone
  <1>5. sz' \in [Procs -> 0..MaxSize] /\ sz'[p] = call[p].new /\ \A q \in Procs \ {p} : sz'[q] = sz[q]
    <2>1. PICK k \in 0..MaxSize : k = call[p].new
      BY <1>3
    <2>2. sz' = [sz EXCEPT ![p] = k]
      BY <2>1 DEF SbrkDone
    <2> QED
      BY <1>2, <2>1, <2>2 DEF Types
  <1>6. call' \in [Procs -> CallRec] /\ call'[p] = User0 /\ \A q \in Procs \ {p} : call'[q] = call[q]
    BY <1>2, GoIs, User0Is DEF SbrkDone
  <1>7. Others' = Others
    BY <1>2, <1>4, <1>6, OthersSame, User0Is
  <1>8. Space(p)' = Space(p) /\ Other(p)' = Other(p)
    BY <1>4 DEF Space, Other
  <1>9. Types'
    BY <1>2, <1>4, <1>5, <1>6 DEF Types
  <1>10. CallOf(p)' /\ SpaceOf(p)'
    BY <1>1, <1>2, <1>3, <1>4, <1>5, <1>6, <1>8, BackToUser, User0Is
  <1>11. OwnPart(p)
    BY <1>4, <1>5, <1>6, User0Is DEF OwnPart, Unmoved, Same
  <1> QED
    BY <1>1, <1>2, <1>4, <1>7, <1>9, <1>10, <1>11, OwnStep

-----------------------------------------------------------------------------
(* exec(): the arguments *)

\* exec() returns to the program that called it
LEMMA ExecBack ==
    ASSUME IInv, NEW p \in Procs, st[p] = "LIVE", Go(p, User0), SameProcs, Exact(m', Others \ ArgPages(p)),
           \A q \in Procs \ {p} : Unmoved(m, m', q),
           Gone(m', Other(p)), Below(m', Space(p), PagesOf(sz[p])), Holding(m, m', Space(p))
    PROVE  IInv' /\ ExecFrame
  <1>1. Types
    BY DEF IInv
  <1>2. call' \in [Procs -> CallRec] /\ call'[p] = User0 /\ \A q \in Procs \ {p} : call'[q] = call[q]
    BY <1>1, GoIs, User0Is
  <1>3. st' = st /\ sz' = sz /\ pt' = pt /\ parent' = parent
    BY DEF SameProcs
  <1>4. Others' = Others \ ArgPages(p)
    BY <1>2, <1>3, OthersLess, User0Is
  <1>5. Space(p)' = Space(p) /\ Other(p)' = Other(p)
    BY <1>3 DEF Space, Other
  <1>6. CallOf(p)' /\ SpaceOf(p)'
    BY <1>2, <1>3, <1>5, BackToUser, User0Is
  <1>7. Types'
    BY <1>1, <1>2, <1>3 DEF Types
  <1>8. OwnPart(p)
    BY <1>2, <1>3, User0Is DEF OwnPart
  <1> QED
    BY <1>3, <1>4, <1>6, <1>7, <1>8, OwnStepExec

\* what only gives loose pages back moves no process
LEMMA LooseUnmoved ==
    ASSUME Types, NEW mm, NEW m2, \A t \in Spaces : Same(mm, m2, t), NEW q \in Procs
    PROVE  Unmoved(mm, m2, q)
  BY SpacesOf DEF Unmoved

LEMMA ExecFailsStep ==
    ASSUME IInv, NEW p \in Procs, st[p] = "LIVE", NEW mm, Exact(mm, Others), ExecFails(p, mm),
           \A q \in Procs \ {p} : Unmoved(m, mm, q),
           Gone(mm, Other(p)), Below(mm, Space(p), PagesOf(sz[p])), Holding(m, mm, Space(p))
    PROVE  IInv' /\ ExecFrame
  <1>1. m' = Kfree(mm, ArgPages(p)) /\ Go(p, User0) /\ SameProcs
    BY DEF ExecFails, ExecReturns
  <1>2. Types /\ ArgPages(p) \subseteq Others
    BY DEF IInv, Others
  <1>3. PICK pas, m2 : pas = ArgPages(p) /\ m2 = Kfree(mm, pas)
    OBVIOUS
  <1>4. /\ Exact(m2, Others \ pas) /\ m2.leaf = mm.leaf /\ m2.tab = mm.tab
        /\ \A t \in Spaces : Same(mm, m2, t)
    <2>1. pas \subseteq Others
      BY <1>2, <1>3
    <2>2. m2 = Kfree(mm, pas)
      BY <1>3
    <2> QED
      BY <2>1, <2>2, KfreeLoose
  <1>5. m' = m2
    BY <1>1, <1>3
  <1>6. \A q \in Procs \ {p} : Unmoved(m, m', q)
    BY <1>2, <1>4, <1>5, LooseUnmoved, UnmovedTwice
  <1>7. Gone(m', Other(p)) /\ Below(m', Space(p), PagesOf(sz[p]))
    BY <1>4, <1>5 DEF Gone, Below, Heap
  <1>8. Exact(m', Others \ ArgPages(p))
    BY <1>3, <1>4, <1>5
  <1>9. Holding(m, m', Space(p))
    BY <1>4, <1>5, LeafHolding, HoldingTwice
  <1> QED
    BY <1>1, <1>6, <1>7, <1>8, <1>9, ExecBack

\* exec() goes on: the process keeps its memory
LEMMA ExecOn ==
    ASSUME IInv, NEW p \in Procs, st[p] = "LIVE", SameProcs,
           Exact(m', Others'), call' \in [Procs -> CallRec],
           call'[p].pc \in {"args", "load", "seg", "stack"}, \A q \in Procs \ {p} : call'[q] = call[q],
           \A q \in Procs \ {p} : Unmoved(m, m', q),
           CallOf(p)', call'[p].pc = "args" => Gone(m', Other(p)), Below(m', Space(p), PagesOf(sz[p])),
           Holding(m, m', Space(p))
    PROVE  IInv' /\ ExecFrame
  <1>1. st' = st /\ sz' = sz /\ pt' = pt /\ parent' = parent
    BY DEF SameProcs
  <1>2. Types'
    BY <1>1 DEF IInv, Types
  <1>3. Space(p)' = Space(p) /\ Other(p)' = Other(p)
    BY <1>1 DEF Space, Other
  <1>4. SpaceOf(p)'
    BY <1>1, <1>3 DEF SpaceOf, Gone, Below
  <1>5. OwnPart(p)
    BY <1>1 DEF OwnPart
  <1> QED
    BY <1>1, <1>2, <1>4, <1>5, OwnStepExec

LEMMA ExecStartStep == ASSUME IInv, NEW p \in Procs, ExecStart(p) PROVE IInv' /\ ExecFrame
  <1>1. st[p] = "LIVE" /\ call[p].pc = "user" /\ m' = m /\ SameProcs
    BY DEF ExecStart, Enters, At
  <1>2. /\ call[p].args = 0 /\ Gone(m, Other(p)) /\ Below(m, Space(p), PagesOf(sz[p]))
        /\ Types /\ Exact(m, Others)
    BY <1>1, AtUser
  <1>3. PICK u, d : u = User0 /\ d = [u EXCEPT !.pc = "args"]
    OBVIOUS
  <1>4. u \in CallRec /\ u.args = 0 /\ u.sz = 0
    BY <1>3, User0Is
  <1>5. d \in CallRec /\ d.pc = "args" /\ d.args = 0 /\ d.sz = 0
    BY <1>3, <1>4 DEF CallRec, Pcs
  <1>6. Go(p, d)
    BY <1>3 DEF ExecStart
  <1>7. call' \in [Procs -> CallRec] /\ call'[p] = d /\ \A q \in Procs \ {p} : call'[q] = call[q]
    BY <1>2, <1>5, <1>6, GoIs
  <1>8. Others' = Others
    BY <1>1, <1>2, <1>5, <1>7, OthersSame DEF SameProcs
  <1>9. CallOf(p)'
    BY <1>1, <1>5, <1>7 DEF CallOf, SameProcs
  <1>10. \A q \in Procs \ {p} : Unmoved(m, m', q)
    BY <1>1 DEF Unmoved, Same
  <1>11. Exact(m', Others')
    BY <1>1, <1>2, <1>8
  <1>12. Holding(m, m', Space(p))
    BY <1>1, LeafHolding
  <1> QED
    BY <1>1, <1>2, <1>5, <1>7, <1>9, <1>10, <1>11, <1>12, ExecOn

LEMMA LooseName ==
    ASSUME NEW mm, NEW X, Exact(mm, X),
           NEW pa, \A s, v : pa # User(s, v), \A s : pa \notin Tables(s), NEW pas, pas = {pa}
    PROVE  Loose(mm, pas)
  BY DEF Loose, Exact, SpaceOK, Pages

\* a page that user memory is copied from or to is found, or made
LEMMA CopyinKeeps ==
    ASSUME Types, NEW p \in Procs, NEW mm, NEW X, Exact(mm, X), Plain(X), NEW v \in UserPages,
           Below(mm, Space(p), PagesOf(sz[p])), Gone(mm, Other(p)),
           NEW r \in Copyin(mm, Space(p), sz[p], v)
    PROVE  /\ r.ok \in BOOLEAN /\ Exact(r.m, X) /\ Below(r.m, Space(p), PagesOf(sz[p])) /\ Gone(r.m, Other(p))
           /\ \A q \in Procs \ {p} : Unmoved(mm, r.m, q)
           /\ Holding(mm, r.m, Space(p))
  <1>1. PICK s, n : s = Space(p) /\ n = sz[p]
    OBVIOUS
  <1>2. s \in Spaces /\ n \in 0..MaxSize /\ Other(p) \in Spaces /\ Other(p) # s
    BY <1>1, SpacesOf, CallParts
  <1>3. r \in Copyin(mm, s, n, v)
    BY <1>1
  <1>4. Reached(mm, X, r, s, PagesOf(n), v)
    BY <1>2, <1>3, CopyinIs
  <1>5. r.ok \in BOOLEAN /\ Exact(r.m, X) /\ Else(mm, r.m, s) /\ Grew(mm, r.m, s, PagesOf(n))
    BY <1>4 DEF Reached
  <1>6. Below(r.m, s, PagesOf(n))
    BY <1>1, <1>5 DEF Grew, Below
  <1>7. Gone(r.m, Other(p))
    BY <1>2, <1>5, ElseIs
  <1>8. \A q \in Procs \ {p} : Unmoved(mm, r.m, q)
    BY <1>1, <1>5, OwnElse
  <1>9. Holding(mm, r.m, s)
    BY <1>5 DEF Grew, Holding, Heap
  <1> QED
    BY <1>1, <1>5, <1>6, <1>7, <1>8, <1>9

LEMMA FetchArgStep == ASSUME IInv, NEW p \in Procs, FetchArg(p) PROVE IInv' /\ ExecFrame
  <1>1. st[p] = "LIVE" /\ call[p].pc = "args"
    BY DEF FetchArg, At
  <1>2. /\ Types /\ Exact(m, Others) /\ Plain(Others) /\ Gone(m, Other(p)) /\ Below(m, Space(p), PagesOf(sz[p]))
        /\ call[p].sz = 0
    BY <1>1, OthersPlain DEF IInv, SpaceOf, CallOf
  <1>3. PICK pa, pas : pa = Arg(p, call[p].args + 1) /\ pas = {pa}
    OBVIOUS
  <1>4. PICK c : c = [call[p] EXCEPT !.args = @ + 1]
    OBVIOUS
  <1>5. PICK v \in UserPages, u \in UserPages : \E r \in Copyin(m, Space(p), sz[p], v) :
          \/ ExecFails(p, r.m)
          \/ \E q \in Copyin(Kalloc(r.m, pa), Space(p), sz[p], u) :
               /\ SameProcs
               /\ IF q.ok THEN m' = Filled(q.m, {pa}, "data") /\ Go(p, c)
                          ELSE m' = Kfree(q.m, ArgPages(p) \cup {pa}) /\ Go(p, User0)
    BY <1>3, <1>4 DEF FetchArg
  <1>6. PICK r \in Copyin(m, Space(p), sz[p], v) :
          \/ ExecFails(p, r.m)
          \/ \E q \in Copyin(Kalloc(r.m, pa), Space(p), sz[p], u) :
               /\ SameProcs
               /\ IF q.ok THEN m' = Filled(q.m, {pa}, "data") /\ Go(p, c)
                          ELSE m' = Kfree(q.m, ArgPages(p) \cup {pa}) /\ Go(p, User0)
    BY <1>5
  <1>7. /\ Exact(r.m, Others) /\ Below(r.m, Space(p), PagesOf(sz[p])) /\ Gone(r.m, Other(p))
        /\ \A q \in Procs \ {p} : Unmoved(m, r.m, q)
        /\ Holding(m, r.m, Space(p))
    BY <1>2, <1>6, CopyinKeeps
  <1>8. CASE ExecFails(p, r.m)
    BY <1>1, <1>7, <1>8, ExecFailsStep
  <1>9. CASE ~ExecFails(p, r.m)
    <2>1. PICK what, mm, m1 : what = "junk" /\ mm = r.m /\ m1 = Filled(mm, pas, what)
      OBVIOUS
    <2>2. PICK q \in Copyin(m1, Space(p), sz[p], u) :
               /\ SameProcs
               /\ IF q.ok THEN m' = Filled(q.m, {pa}, "data") /\ Go(p, c)
                          ELSE m' = Kfree(q.m, ArgPages(p) \cup {pa}) /\ Go(p, User0)
      BY <1>3, <1>6, <1>9, <2>1 DEF Kalloc
    <2>3. PICK X : X = Others \cup pas
      OBVIOUS
    <2>4. pa \notin Others /\ (\A s, x : pa # User(s, x)) /\ \A s : pa \notin Tables(s)
      <3>1. call[p].args \in Nat
        BY <1>2, CallParts
      <3>2. call[p].args + 1 \notin 1..call[p].args
        BY <3>1
      <3> QED
        BY <1>3, <3>2, OthersAre, Names
    <2>5. /\ Exact(m1, X) /\ m1.leaf = mm.leaf /\ m1.tab = mm.tab
          /\ \A t \in Spaces : Same(mm, m1, t)
      <3>1. Exact(mm, Others) /\ what \in {"junk", "zero", "data"}
        BY <1>7, <2>1
      <3>2. Loose(mm, pas)
        BY <1>3, <2>4, <3>1, LooseName
      <3>3. Alloced(mm, Others, Filled(mm, pas, what), pas, what)
        BY <3>1, <3>2, KallocIs
      <3> QED
        BY <2>1, <2>3, <3>3 DEF Alloced
    <2>6. Plain(X)
      BY <1>2, <1>3, <2>3, <2>4 DEF Plain
    <2>7. Below(m1, Space(p), PagesOf(sz[p])) /\ Gone(m1, Other(p))
      BY <1>7, <2>1, <2>5 DEF Below, Gone, Heap
    <2>8. /\ q.ok \in BOOLEAN /\ Exact(q.m, X) /\ Below(q.m, Space(p), PagesOf(sz[p])) /\ Gone(q.m, Other(p))
          /\ (\A z \in Procs \ {p} : Unmoved(m1, q.m, z)) /\ Holding(m1, q.m, Space(p))
      BY <1>2, <2>2, <2>5, <2>6, <2>7, CopyinKeeps
    <2>9. \A z \in Procs \ {p} : Unmoved(m, q.m, z)
      BY <1>2, <1>7, <2>1, <2>5, <2>8, LooseUnmoved, UnmovedTwice
    <2>a. Holding(m, q.m, Space(p))
      BY <1>7, <2>1, <2>5, <2>8, LeafHolding, HoldingTwice
    <2>10. CASE q.ok
      <3>1. PICK m3, w : m3 = Filled(q.m, pas, w) /\ w = "data"
        OBVIOUS
      <3>2. m' = m3 /\ Go(p, c) /\ SameProcs
        BY <1>3, <2>2, <2>10, <3>1
      <3>3. PICK s : s = Space(p)
        OBVIOUS
      <3>4. s \in Spaces /\ w \in {"zero", "data"} /\ pas \subseteq X /\ m3 = Filled(q.m, pas, w)
        BY <1>2, <2>3, <3>1, <3>3, SpacesOf
      <3>5. Exact(m3, X) /\ m3.leaf = q.m.leaf /\ m3.tab = q.m.tab /\ Else(q.m, m3, s) /\ Same(q.m, m3, s)
        <4>1. \A x \in pas : x \in X \/ \E y \in Heap(q.m, s) : x = User(s, y)
          BY <3>4
        <4> QED
          BY <2>8, <3>4, <4>1, WriteIs
      <3>6. /\ c \in CallRec /\ c.args = call[p].args + 1 /\ c.pc = "args" /\ c.sz = 0
        <4>1. PICK d : d = call[p]
          OBVIOUS
        <4>2. d \in CallRec /\ d.args + 1 \in Nat /\ d.pc = "args" /\ d.sz = 0 /\ c = [d EXCEPT !.args = d.args + 1]
          BY <1>1, <1>2, <1>4, <4>1, CallParts
        <4> QED
          BY <4>1, <4>2 DEF CallRec
      <3>7. call' \in [Procs -> CallRec] /\ call'[p] = c /\ \A z \in Procs \ {p} : call'[z] = call[z]
        BY <1>2, <3>2, <3>6, GoIs
      <3>8. Others' = X
        BY <1>2, <1>3, <2>3, <3>2, <3>6, <3>7, OthersArg, CallParts DEF SameProcs
      <3>9. \A z \in Procs \ {p} : Unmoved(m, m', z)
        BY <1>2, <2>9, <3>2, <3>3, <3>5, OwnElse, UnmovedTwice
      <3>10. Gone(m', Other(p)) /\ Below(m', Space(p), PagesOf(sz[p]))
        BY <2>8, <3>2, <3>5 DEF Gone, Below, Heap
      <3>11. CallOf(p)'
        BY <1>1, <3>2, <3>6, <3>7 DEF CallOf, SameProcs
      <3>12. Exact(m', Others')
        BY <3>2, <3>5, <3>8
      <3>13. Holding(m, m', Space(p))
        BY <2>a, <3>2, <3>5, LeafHolding, HoldingTwice
      <3> QED
        BY <1>1, <3>2, <3>6, <3>7, <3>9, <3>10, <3>11, <3>12, <3>13, ExecOn
    <2>11. CASE ~q.ok
      <3>1. PICK fr, mq, m3 : fr = ArgPages(p) \cup pas /\ mq = q.m /\ m3 = Kfree(mq, fr)
        OBVIOUS
      <3>2. m' = m3 /\ Go(p, User0) /\ SameProcs
        BY <1>3, <2>2, <2>11, <3>1
      <3>3. fr \subseteq X /\ X \ fr = Others \ ArgPages(p)
        BY <1>3, <2>3, <2>4, <3>1 DEF Others
      <3>4. m3 = Kfree(mq, fr) /\ Exact(mq, X)
        BY <2>8, <3>1
      <3>5. Exact(m3, X \ fr) /\ m3.leaf = mq.leaf /\ m3.tab = mq.tab /\ \A t \in Spaces : Same(mq, m3, t)
        BY <3>3, <3>4, KfreeLoose
      <3>6. \A z \in Procs \ {p} : Unmoved(m, m', z)
        BY <1>2, <2>9, <3>1, <3>2, <3>5, LooseUnmoved, UnmovedTwice
      <3>7. Gone(m', Other(p)) /\ Below(m', Space(p), PagesOf(sz[p]))
        BY <2>8, <3>1, <3>2, <3>5 DEF Gone, Below, Heap
      <3>8. Exact(m', Others \ ArgPages(p))
        BY <3>2, <3>3, <3>5
      <3>9. Holding(m, m', Space(p))
        BY <2>a, <3>1, <3>2, <3>5, LeafHolding, HoldingTwice
      <3> QED
        BY <1>1, <3>2, <3>6, <3>7, <3>8, <3>9, ExecBack
    <2> QED
      BY <2>8, <2>10, <2>11
  <1> QED
    BY <1>8, <1>9

LEMMA ExecOpenStep == ASSUME IInv, NEW p \in Procs, ExecOpen(p) PROVE IInv' /\ ExecFrame
  <1>1. st[p] = "LIVE" /\ call[p].pc = "args"
    BY DEF ExecOpen, At
  <1>2. /\ Types /\ Exact(m, Others) /\ Gone(m, Other(p)) /\ Below(m, Space(p), PagesOf(sz[p]))
        /\ Space(p) \in Spaces /\ Other(p) \in Spaces /\ Space(p) # Other(p) /\ call[p].sz = 0
    BY <1>1, SpacesOf DEF IInv, SpaceOf, CallOf
  <1>3. CASE ExecFails(p, m)
    <2>1. \A q \in Procs \ {p} : Unmoved(m, m, q)
      BY DEF Unmoved, Same
    <2>2. Holding(m, m, Space(p))
      BY LeafHolding
    <2> QED
      BY <1>1, <1>2, <1>3, <2>1, <2>2, ExecFailsStep
  <1>4. CASE ~ExecFails(p, m)
    <2>1. PICK s : s = Other(p)
      OBVIOUS
    <2>2. PICK image \in Images : \E r \in ProcPagetable(m, s, p) :
            IF ~r.ok THEN ExecFails(p, r.m)
            ELSE m' = r.m /\ Go(p, [call[p] EXCEPT !.pc = "load", !.segs = image]) /\ SameProcs
      BY <1>4, <2>1 DEF ExecOpen
    <2>3. PICK r \in ProcPagetable(m, s, p) :
            IF ~r.ok THEN ExecFails(p, r.m)
            ELSE m' = r.m /\ Go(p, [call[p] EXCEPT !.pc = "load", !.segs = image]) /\ SameProcs
      BY <2>2
    <2>4. s \in Spaces /\ Gone(m, s)
      BY <1>2, <2>1
    <2>5. Created(m, Others, r, s)
      BY <1>2, <2>3, <2>4, ProcPagetableIs
    <2>6. /\ r.ok \in BOOLEAN /\ Exact(r.m, Others) /\ Else(m, r.m, s)
          /\ (r.ok => Heap(r.m, s) = {}) /\ (~r.ok => Gone(r.m, s))
      BY <2>5 DEF Created
    <2>7. \A q \in Procs \ {p} : Unmoved(m, r.m, q)
      BY <1>2, <2>1, <2>6, OwnElse
    <2>8. Below(r.m, Space(p), PagesOf(sz[p]))
      BY <1>2, <2>1, <2>6, ElseIs DEF Below
    <2>a. Holding(m, r.m, Space(p))
      BY <1>2, <2>1, <2>6, ElseIs, LeafHolding
    <2>9. CASE ~r.ok
      BY <1>1, <2>1, <2>3, <2>6, <2>7, <2>8, <2>9, <2>a, ExecFailsStep
    <2>10. CASE r.ok
      <3>1. PICK c, d : c = call[p] /\ d = [c EXCEPT !.pc = "load", !.segs = image]
        OBVIOUS
      <3>2. m' = r.m /\ Go(p, d) /\ SameProcs
        BY <2>3, <2>10, <3>1
      <3>3. c \in CallRec /\ image \in Seq(Segment0) /\ \A k \in 1..Len(image) : Fits(image[k])
        BY <1>2, <2>2, <3>1, CallParts, ImageAssumption DEF Fits, Segment0
      <3>4. d \in CallRec /\ d.pc = "load" /\ d.segs = image /\ d.args = c.args /\ d.sz = c.sz
        BY <3>1, <3>3 DEF CallRec, Pcs
      <3>5. call' \in [Procs -> CallRec] /\ call'[p] = d /\ \A q \in Procs \ {p} : call'[q] = call[q]
        BY <1>2, <3>2, <3>4, GoIs
      <3>6. Others' = Others
        BY <1>1, <3>1, <3>2, <3>4, <3>5, OthersSame DEF SameProcs
      <3>7. d.sz = 0 /\ 0 <= MaxSize - 2 * PGSIZE /\ PagesOf(0) = 0
        BY <1>2, <3>1, <3>4, Room, PagesZero
      <3>8. Other(p)' = Other(p)
        BY <3>2 DEF SameProcs, Other
      <3>9. Solid(r.m, Other(p), PagesOf(d.sz))
        BY <2>1, <2>6, <2>10, <3>7 DEF Solid
      <3>10. CallOf(p)'
        BY <1>1, <3>2, <3>3, <3>4, <3>5, <3>7, <3>8, <3>9 DEF CallOf, SameProcs
      <3>11. Exact(m', Others')
        BY <2>6, <3>2, <3>6
      <3>12. Holding(m, m', Space(p))
        BY <2>a, <3>2
      <3> QED
        BY <1>1, <2>7, <2>8, <3>2, <3>4, <3>5, <3>10, <3>11, <3>12, ExecOn
    <2> QED
      BY <2>6, <2>9, <2>10
  <1> QED
    BY <1>3, <1>4

-----------------------------------------------------------------------------
(* exec(): the program *)

\* kexec() gives the new address space back
LEMMA BadStep ==
    ASSUME IInv, NEW p \in Procs, st[p] = "LIVE", NEW mm, Exact(mm, Others),
           \A q \in Procs \ {p} : Unmoved(m, mm, q), Below(mm, Space(p), PagesOf(sz[p])), Holding(m, mm, Space(p)),
           NEW n \in 0..MaxSize, Below(mm, Other(p), PagesOf(n)), ExecFails(p, ProcFreePagetable(mm, Other(p), n))
    PROVE  IInv' /\ ExecFrame
  <1>1. Types /\ Space(p) \in Spaces /\ Other(p) \in Spaces /\ Space(p) # Other(p)
    BY SpacesOf DEF IInv
  <1>2. PICK s, m2 : s = Other(p) /\ m2 = ProcFreePagetable(mm, s, n)
    OBVIOUS
  <1>3. s \in Spaces /\ Heap(mm, s) \subseteq 0..PagesOf(n) - 1 /\ m2 = ProcFreePagetable(mm, s, n)
    BY <1>1, <1>2 DEF Below
  <1>4. Exact(m2, Others) /\ Else(mm, m2, s) /\ Gone(m2, s)
    BY <1>3, ProcFree
  <1>5. \A q \in Procs \ {p} : Unmoved(m, m2, q)
    BY <1>1, <1>2, <1>4, OwnElse, UnmovedTwice
  <1>6. Below(m2, Space(p), PagesOf(sz[p]))
    BY <1>1, <1>2, <1>4, ElseIs DEF Below
  <1>7. ExecFails(p, m2) /\ Gone(m2, Other(p))
    BY <1>2, <1>4
  <1>8. Holding(m, m2, Space(p))
    <2>1. m2.leaf[Space(p)] = mm.leaf[Space(p)]
      BY <1>1, <1>2, <1>4, ElseIs
    <2>2. Holding(mm, m2, Space(p))
      BY <2>1, LeafHolding
    <2>3. Holding(m, mm, Space(p))
      OBVIOUS
    <2> QED
      BY <2>2, <2>3, HoldingTwice
  <1> QED
    BY <1>4, <1>5, <1>6, <1>7, <1>8, ExecFailsStep

LEMMA UnmovedSelf == ASSUME NEW mm, NEW q PROVE Unmoved(mm, mm, q)
  BY DEF Unmoved, Same

\* what the process has while it loads a program
LEMMA Loading ==
    ASSUME IInv, NEW p \in Procs, st[p] = "LIVE", call[p].pc \in {"load", "seg", "stack"}
    PROVE  /\ Types /\ Exact(m, Others) /\ Plain(Others) /\ Below(m, Space(p), PagesOf(sz[p]))
           /\ Space(p) \in Spaces /\ Other(p) \in Spaces /\ Space(p) # Other(p)
           /\ call[p] \in CallRec /\ sz[p] \in 0..MaxSize
  BY OthersPlain, SpacesOf, CallParts DEF IInv, SpaceOf

LEMMA SolidBelow == ASSUME NEW mm, NEW s, NEW n, Solid(mm, s, n) PROVE Below(mm, s, n)
  BY DEF Solid, Below

LEMMA LoadSegmentStep == ASSUME IInv, NEW p \in Procs, LoadSegment(p) PROVE IInv' /\ ExecFrame
  <1>1. st[p] = "LIVE" /\ call[p].pc = "load" /\ call[p].segs # << >>
    BY DEF LoadSegment, At
  <1>2. /\ Types /\ Exact(m, Others) /\ Below(m, Space(p), PagesOf(sz[p]))
        /\ Other(p) \in Spaces /\ call[p] \in CallRec
    BY <1>1, Loading
  <1>3. /\ call[p].sz <= MaxSize - 2 * PGSIZE /\ \A k \in 1..Len(call[p].segs) : Fits(call[p].segs[k])
        /\ Solid(m, Other(p), PagesOf(call[p].sz))
    BY <1>1 DEF IInv, CallOf
  <1>4. call[p].sz \in 0..MaxSize /\ call[p].segs \in Seq(Segment0)
    BY <1>2, CallParts
  <1>5. CASE Bad(p, m)
    <2>1. PICK n : n = call[p].sz
      OBVIOUS
    <2>2. n \in 0..MaxSize /\ Below(m, Other(p), PagesOf(n)) /\ ExecFails(p, ProcFreePagetable(m, Other(p), n))
      BY <1>3, <1>4, <1>5, <2>1, SolidBelow DEF Bad
    <2> QED
      BY <1>1, <1>2, <2>2, UnmovedSelf, LeafHolding, BadStep
  <1>6. CASE ~Bad(p, m)
    <2>1. PICK seg : seg = Head(call[p].segs)
      OBVIOUS
    <2>2. seg \in Segment0 /\ Fits(seg)
      BY <1>1, <1>3, <1>4, <2>1
    <2>3. PICK c, pc, old, new : /\ c = call[p] /\ pc = "seg" /\ old = call[p].sz
                                 /\ new = seg.va * PGSIZE + seg.memsz
      OBVIOUS
    <2>4. PICK d : d = UvmallocS(c, pc, old, new, seg)
      OBVIOUS
    <2>5. Go(p, d) /\ m' = m /\ SameProcs
      BY <1>6, <2>1, <2>3, <2>4 DEF LoadSegment, UvmallocS
    <2>6. new \in Nat /\ new <= MaxSize - 2 * PGSIZE /\ new \in 0..MaxSize /\ seg.w \in BOOLEAN
      BY <2>2, <2>3, Numbers DEF Fits, Segment0
    <2>7. c \in CallRec /\ pc \in Pcs /\ old \in 0..MaxSize
      BY <1>2, <1>4, <2>3 DEF Pcs
    <2>8. Started(d, c, pc, old, new)
      BY <2>4, <2>6, <2>7, UvmallocIs
    <2>9. /\ d \in CallRec /\ d.pc = "seg" /\ d.from = PagesOf(old) /\ d.a = PagesOf(old)
          /\ d.sz = old /\ d.segs = call[p].segs /\ d.args = call[p].args
          /\ old <= d.new /\ new <= d.new /\ d.new <= MaxSize - 2 * PGSIZE
      BY <1>3, <1>4, <2>3, <2>6, <2>7, <2>8, Room DEF Started
    <2>10. call' \in [Procs -> CallRec] /\ call'[p] = d /\ \A q \in Procs \ {p} : call'[q] = call[q]
      BY <1>2, <2>5, <2>9, GoIs
    <2>11. Others' = Others
      BY <2>5, <2>9, <2>10, OthersSame DEF SameProcs
    <2>12. Other(p)' = Other(p)
      BY <2>5 DEF SameProcs, Other
    <2>13. PagesOf(old) \in Nat /\ PagesOf(old) <= PagesOf(d.new)
      <3>1. old \in Nat /\ d.new \in Nat
        BY <1>4, <2>3, <2>9, Numbers DEF CallRec
      <3> QED
        BY <2>9, <3>1, PagesMore, PagesLess
    <2>14. CallOf(p)'
      BY <1>1, <1>3, <2>1, <2>3, <2>5, <2>9, <2>10, <2>12, <2>13 DEF CallOf, SameProcs
    <2>15. Exact(m', Others') /\ \A q \in Procs \ {p} : Unmoved(m, m', q)
      BY <1>2, <2>5, <2>11, UnmovedSelf
    <2>16. Below(m', Space(p), PagesOf(sz[p]))
      BY <1>2, <2>5
    <2>17. Holding(m, m', Space(p))
      BY <2>5, LeafHolding
    <2> QED
      BY <1>1, <2>5, <2>9, <2>10, <2>14, <2>15, <2>16, <2>17, ExecOn
  <1> QED
    BY <1>5, <1>6

\* SegmentPage and StackPage
LEMMA LoopStep ==
    ASSUME IInv, NEW p \in Procs, st[p] = "LIVE", call[p].pc \in {"seg", "stack"}, UvmallocMore(p),
           NEW s, s = Other(p), NEW r \in UvmallocPage(p, s), IF r.ok THEN NextPage(p, r.m) ELSE Bad(p, r.m)
    PROVE  IInv' /\ ExecFrame
  <1>1. /\ Types /\ Exact(m, Others) /\ Plain(Others) /\ Below(m, Space(p), PagesOf(sz[p]))
        /\ Space(p) \in Spaces /\ Other(p) \in Spaces /\ Space(p) # Other(p) /\ call[p] \in CallRec
    BY Loading
  <1>2. /\ call[p].from <= call[p].a /\ call[p].a <= PagesOf(call[p].new) /\ Solid(m, s, call[p].a)
        /\ call[p].from = PagesOf(call[p].sz)
    BY DEF IInv, CallOf
  <1>3. s \in Spaces /\ Below(m, s, call[p].a) /\ r \in UvmallocPage(p, s)
    BY <1>1, <1>2, SolidBelow
  <1>4. /\ r.ok \in BOOLEAN /\ Exact(r.m, Others) /\ Else(m, r.m, s)
        /\ r.ok => More(m, r.m, s, call[p].a) /\ Below(r.m, s, call[p].a + 1)
        /\ ~r.ok => Below(r.m, s, call[p].from)
        /\ call[p].a + 1 \in Nat /\ call[p].a + 1 <= PagesOf(call[p].new)
    BY <1>1, <1>2, <1>3, UvmallocPageIs
  <1>5. \A q \in Procs \ {p} : Unmoved(m, r.m, q)
    BY <1>1, <1>4, OwnElse
  <1>6. Below(r.m, Space(p), PagesOf(sz[p]))
    BY <1>1, <1>4, ElseIs DEF Below
  <1>a. Holding(m, r.m, Space(p))
    BY <1>1, <1>4, ElseIs, LeafHolding
  <1>7. CASE ~r.ok
    <2>1. PICK n, mm : n = call[p].sz /\ mm = r.m
      OBVIOUS
    <2>2. n \in 0..MaxSize /\ Below(mm, Other(p), PagesOf(n)) /\ ExecFails(p, ProcFreePagetable(mm, Other(p), n))
      BY <1>1, <1>2, <1>4, <1>7, <2>1, CallParts DEF Bad
    <2>3. /\ Exact(mm, Others) /\ Below(mm, Space(p), PagesOf(sz[p]))
          /\ (\A q \in Procs \ {p} : Unmoved(m, mm, q)) /\ Holding(m, mm, Space(p))
      BY <1>4, <1>5, <1>6, <1>a, <2>1
    <2> QED
      BY <2>2, <2>3, BadStep
  <1>8. CASE r.ok
    <2>1. NextPage(p, r.m)
      BY <1>8
    <2>2. /\ m' = r.m /\ st' = st /\ sz' = sz /\ pt' = pt /\ parent' = parent
          /\ call' \in [Procs -> CallRec] /\ \A q \in Procs \ {p} : call'[q] = call[q]
          /\ call'[p].a = call[p].a + 1 /\ call'[p].pc = call[p].pc /\ call'[p].from = call[p].from
          /\ call'[p].new = call[p].new /\ call'[p].sz = call[p].sz /\ call'[p].segs = call[p].segs
          /\ call'[p].args = call[p].args /\ call'[p].child = call[p].child
      BY <1>1, <1>4, <2>1, NextPageIs
    <2>3. SameProcs
      BY <2>2 DEF SameProcs
    <2>4. Others' = Others
      BY <2>2, OthersSame
    <2>5. Other(p)' = s
      BY <2>2 DEF Other
    <2>6. Solid(m', s, call[p].a + 1)
      <3>1. More(m, m', s, call[p].a) /\ call[p].a \in Nat
        BY <1>1, <1>4, <1>8, <2>2, CallParts
      <3>2. Heap(m, s) = 0..call[p].a - 1 /\ Heap(m, s) \subseteq DOMAIN m.leaf[s]
        BY <1>2 DEF Solid, Heap
      <3>3. 0..(call[p].a + 1) - 1 = {call[p].a} \cup (0..call[p].a - 1)
        BY <3>1
      <3>4. Heap(m', s) = 0..(call[p].a + 1) - 1
        BY <3>1, <3>2, <3>3 DEF More
      <3>5. ASSUME NEW v \in Heap(m', s) PROVE m'.leaf[s][v].u
        <4>1. CASE v = call[p].a
          BY <3>1, <4>1 DEF More
        <4>2. CASE v # call[p].a
          BY <1>2, <3>1, <3>2, <4>2 DEF More, Solid
        <4> QED
          BY <4>1, <4>2
      <3> QED
        BY <3>4, <3>5 DEF Solid
    <2>7. call[p].from <= call[p].a + 1
      BY <1>1, <1>2, CallParts
    <2>8. CallOf(p)'
      <3>1. CallOf(p)
        BY DEF IInv
      <3> QED
        BY <1>4, <2>2, <2>5, <2>6, <2>7, <3>1 DEF CallOf
    <2>9. Exact(m', Others') /\ \A q \in Procs \ {p} : Unmoved(m, m', q)
      BY <1>4, <1>5, <2>2, <2>4
    <2>10. Below(m', Space(p), PagesOf(sz[p]))
      BY <1>6, <2>2
    <2>11. Holding(m, m', Space(p))
      BY <1>a, <2>2
    <2> QED
      BY <2>2, <2>3, <2>8, <2>9, <2>10, <2>11, ExecOn
  <1> QED
    BY <1>4, <1>7, <1>8

LEMMA SegmentPageStep == ASSUME IInv, NEW p \in Procs, SegmentPage(p) PROVE IInv' /\ ExecFrame
  <1>1. PICK s : s = Other(p)
    OBVIOUS
  <1>2. PICK r \in UvmallocPage(p, s) : IF r.ok THEN NextPage(p, r.m) ELSE Bad(p, r.m)
    BY <1>1 DEF SegmentPage
  <1>3. st[p] = "LIVE" /\ call[p].pc \in {"seg", "stack"} /\ UvmallocMore(p)
    BY DEF SegmentPage, At
  <1> QED
    BY <1>1, <1>2, <1>3, LoopStep

LEMMA StackPageStep == ASSUME IInv, NEW p \in Procs, StackPage(p) PROVE IInv' /\ ExecFrame
  <1>1. PICK s : s = Other(p)
    OBVIOUS
  <1>2. PICK r \in UvmallocPage(p, s) : IF r.ok THEN NextPage(p, r.m) ELSE Bad(p, r.m)
    BY <1>1 DEF StackPage
  <1>3. st[p] = "LIVE" /\ call[p].pc \in {"seg", "stack"} /\ UvmallocMore(p)
    BY DEF StackPage, At
  <1> QED
    BY <1>1, <1>2, <1>3, LoopStep

LEMMA TailIn == ASSUME NEW S, NEW ss \in Seq(S), ss # << >> PROVE Tail(ss) \in Seq(S)
  OBVIOUS

LEMMA LoadSegStep == ASSUME IInv, NEW p \in Procs, LoadSeg(p) PROVE IInv' /\ ExecFrame
  <1>1. st[p] = "LIVE" /\ call[p].pc = "seg" /\ ~UvmallocMore(p)
    BY DEF LoadSeg, At
  <1>2. /\ Types /\ Exact(m, Others) /\ Below(m, Space(p), PagesOf(sz[p]))
        /\ Space(p) \in Spaces /\ Other(p) \in Spaces /\ Space(p) # Other(p) /\ call[p] \in CallRec
    BY <1>1, Loading
  <1>3. /\ call[p].a <= PagesOf(call[p].new) /\ Solid(m, Other(p), call[p].a)
        /\ call[p].segs # << >> /\ call[p].new <= MaxSize - 2 * PGSIZE
        /\ Head(call[p].segs).va * PGSIZE + Head(call[p].segs).memsz <= call[p].new
        /\ \A k \in 1..Len(call[p].segs) : Fits(call[p].segs[k])
    BY <1>1 DEF IInv, CallOf
  <1>4. PICK n, s : n = call[p].new /\ s = Other(p)
    OBVIOUS
  <1>5. n \in 0..MaxSize /\ n \in Nat /\ call[p].segs \in Seq(Segment0)
    BY <1>2, <1>4, CallParts, Numbers
  <1>6. Solid(m, s, PagesOf(n)) /\ PagesOf(n) \in Nat /\ s \in Spaces
    BY <1>1, <1>2, <1>3, <1>4, <1>5, LoopEnds, PagesFit
  <1>7. PICK seg : seg = Head(call[p].segs)
    OBVIOUS
  <1>8. seg \in Segment0 /\ Fits(seg) /\ seg.va * PGSIZE + seg.memsz <= n
    BY <1>3, <1>4, <1>5, <1>7
  <1>9. PICK vs : vs = seg.va..seg.va + PagesOf(seg.filesz) - 1
    OBVIOUS
  <1>10. vs \subseteq 0..PagesOf(n) - 1
    <2> SUFFICES ASSUME NEW v \in vs PROVE v \in 0..PagesOf(n) - 1
      OBVIOUS
    <2>1. PICK va, fz, mz : va = seg.va /\ fz = seg.filesz /\ mz = seg.memsz
      OBVIOUS
    <2>2. va \in Nat /\ fz \in Nat /\ mz \in Nat /\ fz <= mz /\ va * PGSIZE + mz <= n
      BY <1>8, <2>1 DEF Segment0, Fits
    <2>3. PagesOf(fz) \in Nat
      BY <2>2, PagesLess
    <2>4. v \in Int /\ va <= v /\ v - va < PagesOf(fz)
      BY <1>9, <2>1, <2>2, <2>3
    <2>5. PICK i \in Nat : v = va + i
      BY <2>2, <2>4
    <2>6. i * PGSIZE < fz
      BY <2>2, <2>4, <2>5, PagesLess
    <2>7. v * PGSIZE = va * PGSIZE + i * PGSIZE /\ va * PGSIZE \in Nat /\ i * PGSIZE \in Nat /\ v * PGSIZE \in Nat
      BY <2>2, <2>5, Numbers
    <2>8. v * PGSIZE < n
      BY <1>5, <2>2, <2>6, <2>7
    <2> QED
      BY <1>5, <1>6, <2>2, <2>4, <2>8, PagesLess
  <1>11. \A v \in vs : Walkaddr(m, s, v) /\ v \in Heap(m, s)
    <2>1. \A v \in 0..PagesOf(n) - 1 : v \in Heap(m, s) /\ m.leaf[s][v].u
      BY <1>6 DEF Solid
    <2> QED
      BY <1>10, <2>1 DEF Walkaddr, Mapped, Heap
  <1>12. CASE ExecFails(p, ProcFreePagetable(m, s, n))
    <2>1. Below(m, Other(p), PagesOf(n)) /\ ExecFails(p, ProcFreePagetable(m, Other(p), n))
      BY <1>4, <1>6, <1>12, SolidBelow
    <2> QED
      BY <1>1, <1>2, <1>5, <2>1, UnmovedSelf, LeafHolding, BadStep
  <1>13. CASE ~ExecFails(p, ProcFreePagetable(m, s, n))
    <2>1. PICK pas, what, m2 : /\ pas = {m.leaf[s][v].pa : v \in vs} /\ what = "data"
                               /\ m2 = Filled(m, pas, what)
      OBVIOUS
    <2>2. PICK c, d, e : /\ c = call[p] /\ d = [c EXCEPT !.sz = n]
                         /\ e = [d EXCEPT !.pc = "load", !.segs = Tail(d.segs)]
      OBVIOUS
    <2>3. m' = m2 /\ Go(p, e) /\ SameProcs
      <3>1. ~\E v \in vs : ~Walkaddr(m, Other(p), v)
        BY <1>4, <1>11
      <3>2. \/ ExecFails(p, ProcFreePagetable(m, Other(p), call[p].new))
            \/ /\ m' = Filled(m, {m.leaf[Other(p)][v].pa : v \in vs}, "data")
               /\ Go(p, [[call[p] EXCEPT !.sz = call[p].new] EXCEPT !.pc = "load", !.segs = Tail(@)])
               /\ SameProcs
        BY <1>7, <1>9, <3>1 DEF LoadSeg
      <3> QED
        BY <1>4, <1>13, <2>1, <2>2, <3>2
    <2>4. c \in CallRec /\ c.segs \in Seq(Segment0) /\ c.segs # << >>
      BY <1>2, <1>3, <1>5, <2>2
    <2>5. d \in CallRec /\ d.sz = n /\ d.segs = c.segs /\ d.args = c.args
      BY <1>5, <2>2, <2>4 DEF CallRec
    <2>6. PICK tl \in Seq(Segment0) : tl = Tail(d.segs)
      <3>1. PICK ss : ss = d.segs
        OBVIOUS
      <3>2. ss \in Seq(Segment0) /\ ss # << >>
        BY <2>4, <2>5, <3>1
      <3> QED
        BY <3>1, <3>2, TailIn
    <2>7. e = [d EXCEPT !.pc = "load", !.segs = tl]
      BY <2>2, <2>6
    <2>8. e \in CallRec /\ e.pc = "load" /\ e.sz = n /\ e.segs = tl /\ e.args = c.args
      BY <2>5, <2>7 DEF CallRec, Pcs
    <2>9. \A k \in 1..Len(tl) : Fits(tl[k])
      <3>1. c.segs = call[p].segs
        BY <2>2
      <3>2. tl = Tail(c.segs)
        BY <2>5, <2>6
      <3>3. \A k \in 1..Len(tl) : tl[k] = c.segs[k + 1] /\ k + 1 \in 1..Len(c.segs)
        BY <2>4, <3>2
      <3> QED
        BY <1>3, <3>1, <3>3
    <2>10. call' \in [Procs -> CallRec] /\ call'[p] = e /\ \A q \in Procs \ {p} : call'[q] = call[q]
      BY <1>2, <2>3, <2>8, GoIs
    <2>11. Others' = Others
      BY <2>2, <2>3, <2>8, <2>10, OthersSame DEF SameProcs
    <2>12. \A x \in pas : x \in Others \/ \E v \in Heap(m, s) : x = User(s, v)
      <3>1. \A v \in Heap(m, s) : m.leaf[s][v].pa = User(s, v)
        BY <1>2, <1>6 DEF Exact, SpaceOK
      <3> QED
        BY <1>11, <2>1, <3>1
    <2>13. Exact(m2, Others) /\ m2.leaf = m.leaf /\ m2.tab = m.tab /\ Else(m, m2, s)
      <3>1. what \in {"zero", "data"} /\ m2 = Filled(m, pas, what) /\ s \in Spaces
        BY <1>6, <2>1
      <3> QED
        BY <1>2, <2>12, <3>1, WriteIs
    <2>14. \A q \in Procs \ {p} : Unmoved(m, m', q)
      BY <1>2, <1>4, <2>3, <2>13, OwnElse
    <2>15. Below(m', Space(p), PagesOf(sz[p])) /\ Solid(m', Other(p), PagesOf(n))
      BY <1>2, <1>4, <1>6, <2>3, <2>13 DEF Below, Solid, Heap
    <2>16. Other(p)' = Other(p)
      BY <2>3 DEF SameProcs, Other
    <2>17. CallOf(p)'
      BY <1>1, <1>3, <1>4, <2>3, <2>8, <2>9, <2>10, <2>15, <2>16 DEF CallOf, SameProcs
    <2>18. Exact(m', Others')
      BY <2>3, <2>11, <2>13
    <2>19. Holding(m, m', Space(p))
      BY <2>3, <2>13, LeafHolding
    <2> QED
      BY <1>1, <2>3, <2>8, <2>10, <2>14, <2>15, <2>17, <2>18, <2>19, ExecOn
  <1> QED
    BY <1>12, <1>13

LEMMA AllocStackStep == ASSUME IInv, NEW p \in Procs, AllocStack(p) PROVE IInv' /\ ExecFrame
  <1>1. st[p] = "LIVE" /\ call[p].pc = "load" /\ call[p].segs = << >> /\ m' = m /\ SameProcs
    BY DEF AllocStack, At
  <1>2. /\ Types /\ Exact(m, Others) /\ Below(m, Space(p), PagesOf(sz[p])) /\ call[p] \in CallRec
    BY <1>1, Loading
  <1>3. call[p].sz <= MaxSize - 2 * PGSIZE /\ Solid(m, Other(p), PagesOf(call[p].sz)) /\ call[p].sz \in Nat
    BY <1>1, <1>2, CallParts, Numbers DEF IInv, CallOf
  <1>4. PICK k \in Nat : k = PagesOf(call[p].sz)
    BY <1>3, PagesLess
  <1>5. PICK base, new : base = k * PGSIZE /\ new = base + 2 * PGSIZE
    OBVIOUS
  <1>6. (k + 2) * PGSIZE \in 0..MaxSize /\ k + 2 <= TRAPFRAME
    BY <1>3, <1>4, Room
  <1>7. /\ PGSIZE \in Nat /\ base \in Nat /\ new = (k + 2) * PGSIZE /\ new \in 0..MaxSize /\ base \in 0..MaxSize
        /\ base <= new
    <2>1. PGSIZE \in Nat /\ k * PGSIZE \in Nat /\ (k + 2) * PGSIZE = k * PGSIZE + 2 * PGSIZE
      BY Numbers
    <2> QED
      BY <1>5, <1>6, <2>1, Numbers
  <1>8. PagesOf(base) = k /\ PagesOf(new) = k + 2
    BY <1>5, <1>7, PagesEven
  <1>9. PICK c, pc : c = call[p] /\ pc = "stack"
    OBVIOUS
  <1>10. PICK d, e : d = Uvmalloc(c, pc, base, new, TRUE) /\ e = [d EXCEPT !.sz = base]
    OBVIOUS
  <1>11. c \in CallRec /\ pc \in Pcs
    BY <1>2, <1>9 DEF Pcs
  <1>12. Started(d, c, pc, base, new)
    BY <1>7, <1>10, <1>11, UvmallocTrue
  <1>13. /\ d \in CallRec /\ d.pc = "stack" /\ d.from = k /\ d.a = k /\ d.new = new /\ d.args = call[p].args
    BY <1>7, <1>8, <1>9, <1>12 DEF Started
  <1>14. /\ e \in CallRec /\ e.pc = "stack" /\ e.from = k /\ e.a = k /\ e.new = new /\ e.args = call[p].args
         /\ e.sz = base
    BY <1>7, <1>10, <1>13 DEF CallRec
  <1>15. Go(p, e)
    BY <1>4, <1>5, <1>9, <1>10 DEF AllocStack
  <1>16. call' \in [Procs -> CallRec] /\ call'[p] = e /\ \A q \in Procs \ {p} : call'[q] = call[q]
    BY <1>2, <1>14, <1>15, GoIs
  <1>17. Others' = Others
    BY <1>1, <1>14, <1>16, OthersSame DEF SameProcs
  <1>18. Other(p)' = Other(p)
    BY <1>1 DEF SameProcs, Other
  <1>19. CallOf(p)'
    BY <1>1, <1>3, <1>4, <1>5, <1>7, <1>8, <1>14, <1>16, <1>18 DEF CallOf, SameProcs
  <1>20. Exact(m', Others') /\ \A q \in Procs \ {p} : Unmoved(m, m', q)
    BY <1>1, <1>2, <1>17, UnmovedSelf
  <1>21. Below(m', Space(p), PagesOf(sz[p]))
    BY <1>1, <1>2
  <1>22. Holding(m, m', Space(p))
    BY <1>1, LeafHolding
  <1> QED
    BY <1>1, <1>14, <1>16, <1>19, <1>20, <1>21, <1>22, ExecOn

\* the guard page is there: uvmclear() finds it
LEMMA UvmclearIs ==
    ASSUME NEW mm, NEW X, Exact(mm, X), NEW s \in Spaces, NEW v \in Heap(mm, s),
           NEW m2, m2 = Uvmclear(mm, s, v)
    PROVE  Exact(m2, X) /\ Else(mm, m2, s) /\ Heap(m2, s) = Heap(mm, s)
  <1>1. SpaceOK(mm, s) /\ v \in DOMAIN mm.leaf[s]
    BY DEF Exact, Heap
  <1>2. PICK old, e : old = mm.leaf[s] /\ e = [old[v] EXCEPT !.u = FALSE]
    OBVIOUS
  <1>3. PICK f : f = [old EXCEPT ![v] = e]
    OBVIOUS
  <1>4. m2 = Releaf(mm, s, f)
    <2>1. m2 = [mm EXCEPT !.leaf[s][v].u = FALSE]
      BY <1>1 DEF Uvmclear, Mapped
    <2> QED
      BY <1>2, <1>3, <2>1 DEF Releaf
  <1>5. DOMAIN f = DOMAIN mm.leaf[s]
    BY <1>2, <1>3
  <1>6. DOMAIN f \subseteq 0..TRAMPOLINE /\ DOMAIN f \ {TRAMPOLINE, TRAPFRAME} = Heap(mm, s)
    BY <1>1, <1>5 DEF SpaceOK, Heap
  <1>7. \A x \in Heap(mm, s) : f[x].pa = User(s, x)
    <2>1. e.pa = old[v].pa
      BY <1>2
    <2> SUFFICES ASSUME NEW x \in Heap(mm, s) PROVE f[x].pa = User(s, x)
      OBVIOUS
    <2>2. x \in DOMAIN old /\ old[x].pa = User(s, x)
      BY <1>1, <1>2 DEF SpaceOK, Heap
    <2>3. CASE x = v
      BY <1>2, <1>3, <2>1, <2>2, <2>3
    <2>4. CASE x # v
      BY <1>2, <1>3, <2>2, <2>4
    <2> QED
      BY <2>3, <2>4
  <1> QED
    BY <1>4, <1>6, <1>7, NewLeaves

LEMMA CommitStep == ASSUME IInv, NEW p \in Procs, Commit(p) PROVE IInv' /\ ExecFrame
  <1>1. st[p] = "LIVE" /\ call[p].pc = "stack" /\ ~UvmallocMore(p)
    BY DEF Commit, At
  <1>2. /\ Types /\ Exact(m, Others) /\ Plain(Others) /\ Below(m, Space(p), PagesOf(sz[p]))
        /\ Space(p) \in Spaces /\ Other(p) \in Spaces /\ Space(p) # Other(p) /\ call[p] \in CallRec
        /\ sz[p] \in 0..MaxSize
    BY <1>1, Loading
  <1>3. /\ call[p].new = (call[p].from + 2) * PGSIZE /\ call[p].a <= PagesOf(call[p].new)
        /\ Solid(m, Other(p), call[p].a)
    BY <1>1 DEF IInv, CallOf
  <1>4. PICK n, s, k : n = call[p].new /\ s = Other(p) /\ k = call[p].from
    OBVIOUS
  <1>5. n \in 0..MaxSize /\ k \in Nat /\ s \in Spaces /\ n = (k + 2) * PGSIZE
    BY <1>2, <1>3, <1>4, CallParts
  <1>6. PagesOf(n) = k + 2 /\ n \div PGSIZE = k + 2
    BY <1>5, PagesEven, DivEven
  <1>7. Solid(m, s, k + 2)
    BY <1>1, <1>2, <1>3, <1>4, <1>6, LoopEnds
  <1>8. k \in Heap(m, s) /\ k + 1 \in Heap(m, s) /\ Heap(m, s) = 0..(k + 2) - 1
    BY <1>5, <1>7 DEF Solid
  <1>9. k + 1 \in UserPages
    BY <1>2, <1>5, <1>8, HeapIs
  <1>10. PICK v, m1 : v = k + 1 /\ m1 = Uvmclear(m, s, k)
    OBVIOUS
  <1>11. Exact(m1, Others) /\ Else(m, m1, s) /\ Heap(m1, s) = Heap(m, s)
    BY <1>2, <1>5, <1>8, <1>10, UvmclearIs
  <1>12. PICK r \in Copyout(m1, s, n, v) :
          \/ ExecFails(p, ProcFreePagetable(r.m, s, n))
          \/ /\ r.ok
             /\ ExecReturns(p, ProcFreePagetable(Filled(r.m, {r.m.leaf[s][v].pa}, "data"), Space(p), sz[p]))
             /\ pt' = [pt EXCEPT ![p] = 1 - @]
             /\ sz' = [sz EXCEPT ![p] = n]
             /\ UNCHANGED <<st, parent>>
    <2>1. call[p].new \div PGSIZE - 2 = k /\ (call[p].new \div PGSIZE - 2) + 1 = v
      BY <1>4, <1>5, <1>6, <1>10
    <2> QED
      BY <1>4, <1>10, <2>1 DEF Commit
  <1>13. v \in UserPages
    BY <1>9, <1>10
  <1>14. Reached(m1, Others, r, s, PagesOf(n), v)
    BY <1>2, <1>5, <1>11, <1>12, <1>13, CopyoutIs
  <1>15. /\ r.ok \in BOOLEAN /\ Exact(r.m, Others) /\ Else(m1, r.m, s) /\ Grew(m1, r.m, s, PagesOf(n))
         /\ r.ok => v \in Heap(r.m, s)
    BY <1>14 DEF Reached
  <1>16. Else(m, r.m, s)
    BY <1>11, <1>15, ElseTwice
  <1>17. Below(r.m, s, PagesOf(n))
    <2>1. Heap(m1, s) \subseteq 0..PagesOf(n) - 1
      BY <1>6, <1>8, <1>11
    <2> QED
      BY <1>15, <2>1 DEF Grew, Below
  <1>18. \A q \in Procs \ {p} : Unmoved(m, r.m, q)
    BY <1>2, <1>4, <1>16, OwnElse
  <1>19. Below(r.m, Space(p), PagesOf(sz[p]))
    BY <1>2, <1>4, <1>16, ElseIs DEF Below
  <1>20. CASE ExecFails(p, ProcFreePagetable(r.m, s, n))
    <2>1. PICK mm : mm = r.m
      OBVIOUS
    <2>2. /\ Exact(mm, Others) /\ \A q \in Procs \ {p} : Unmoved(m, mm, q)
      BY <1>15, <1>18, <2>1
    <2>3. /\ Below(mm, Space(p), PagesOf(sz[p])) /\ Below(mm, Other(p), PagesOf(n))
          /\ ExecFails(p, ProcFreePagetable(mm, Other(p), n))
      BY <1>4, <1>17, <1>19, <1>20, <2>1
    <2>4. Holding(m, mm, Space(p))
      BY <1>2, <1>4, <1>16, <2>1, ElseIs, LeafHolding
    <2> QED
      BY <1>1, <1>5, <2>2, <2>3, <2>4, BadStep
  <1>21. CASE ~ExecFails(p, ProcFreePagetable(r.m, s, n))
    <2>1. PICK mr, pas, what, m3 : mr = r.m /\ pas = {r.m.leaf[s][v].pa} /\ what = "data" /\ m3 = Filled(mr, pas, what)
      OBVIOUS
    <2>2. PICK o, z, fr : o = Space(p) /\ z = sz[p] /\ fr = ArgPages(p)
      OBVIOUS
    <2>3. PICK m4, m5 : m4 = ProcFreePagetable(m3, o, z) /\ m5 = Kfree(m4, fr)
      OBVIOUS
    <2>4. /\ r.ok /\ m' = m5 /\ Go(p, User0) /\ st' = st /\ parent' = parent
          /\ pt' = [pt EXCEPT ![p] = 1 - pt[p]] /\ sz' = [sz EXCEPT ![p] = n]
      BY <1>12, <1>21, <2>1, <2>2, <2>3 DEF ExecReturns
    <2>5. Exact(m3, Others) /\ m3.leaf = mr.leaf /\ m3.tab = mr.tab /\ Else(mr, m3, s)
      <3>1. what \in {"zero", "data"} /\ m3 = Filled(mr, pas, what) /\ Exact(mr, Others)
        BY <1>15, <2>1
      <3>2. mr.leaf[s][v].pa = User(s, v) /\ v \in Heap(mr, s)
        BY <1>5, <1>15, <2>1, <2>4 DEF Exact, SpaceOK
      <3>3. \A x \in pas : x \in Others \/ \E y \in Heap(mr, s) : x = User(s, y)
        BY <2>1, <3>2
      <3> QED
        BY <1>5, <3>1, <3>3, WriteIs
    <2>6. Exact(m4, Others) /\ Else(m3, m4, o) /\ Gone(m4, o)
      <3>1. o \in Spaces /\ z \in 0..MaxSize /\ m4 = ProcFreePagetable(m3, o, z)
        BY <1>2, <2>2, <2>3
      <3>2. Heap(m3, o) \subseteq 0..PagesOf(z) - 1
        BY <1>19, <2>1, <2>2, <2>5 DEF Below, Heap
      <3> QED
        BY <2>5, <3>1, <3>2, ProcFree
    <2>7. Exact(m5, Others \ fr) /\ m5.leaf = m4.leaf /\ m5.tab = m4.tab /\ \A t \in Spaces : Same(m4, m5, t)
      <3>1. fr \subseteq Others /\ m5 = Kfree(m4, fr)
        BY <2>2, <2>3 DEF Others
      <3> QED
        BY <2>6, <3>1, KfreeLoose
    <2>8. \A q \in Procs \ {p} : Unmoved(m, m', q)
      <3> SUFFICES ASSUME NEW q \in Procs \ {p} PROVE Unmoved(m, m', q)
        OBVIOUS
      <3>1. Unmoved(m, mr, q)
        BY <1>18, <2>1
      <3>2. Unmoved(mr, m3, q)
        BY <1>2, <1>4, <2>5, OwnElse
      <3>3. Unmoved(m3, m4, q)
        BY <1>2, <2>2, <2>6, OwnElse
      <3>4. Unmoved(m4, m5, q)
        BY <1>2, <2>7, LooseUnmoved
      <3> QED
        BY <2>4, <3>1, <3>2, <3>3, <3>4, UnmovedTwice
    <2>9. Below(m', s, PagesOf(n)) /\ Gone(m', o)
      <3>1. Heap(m4, s) = Heap(m3, s)
        BY <1>2, <1>4, <1>5, <2>2, <2>6, ElseIs
      <3>2. Heap(m3, s) = Heap(mr, s) /\ Heap(m5, s) = Heap(m4, s)
        BY <2>5, <2>7 DEF Heap
      <3>3. Below(m5, s, PagesOf(n))
        BY <1>17, <2>1, <3>1, <3>2 DEF Below
      <3> QED
        BY <2>4, <2>6, <2>7, <3>3 DEF Gone
    <2>10. call' \in [Procs -> CallRec] /\ call'[p] = User0 /\ \A q \in Procs \ {p} : call'[q] = call[q]
      BY <1>2, <2>4, GoIs, User0Is
    <2>11. pt[p] \in {0, 1} /\ pt' \in [Procs -> {0, 1}] /\ pt'[p] = 1 - pt[p] /\ \A q \in Procs \ {p} : pt'[q] = pt[q]
      <3>1. pt[p] \in {0, 1} /\ 1 - pt[p] \in {0, 1}
        BY <1>2 DEF Types
      <3> QED
        BY <1>2, <2>4, <3>1 DEF Types
    <2>12. sz' \in [Procs -> 0..MaxSize] /\ sz'[p] = n /\ \A q \in Procs \ {p} : sz'[q] = sz[q]
      BY <1>2, <1>5, <2>4 DEF Types
    <2>13. Space(p)' = s /\ Other(p)' = o
      BY <1>4, <2>2, <2>11 DEF Space, Other
    <2>14. Others' = Others \ fr
      BY <2>2, <2>4, <2>10, OthersLess, User0Is
    <2>15. Types'
      BY <1>2, <2>4, <2>10, <2>11, <2>12 DEF Types
    <2>16. CallOf(p)' /\ SpaceOf(p)'
      BY <1>1, <2>4, <2>9, <2>10, <2>12, <2>13, BackToUser, User0Is
    <2>17. OwnPart(p)
      BY <2>4, <2>8, <2>10, <2>11, <2>12, User0Is DEF OwnPart
    <2>18. Exact(m', Others')
      BY <2>4, <2>7, <2>14
    <2>19. pt'[p] # pt[p]
      BY <2>11
    <2> QED
      BY <1>1, <2>15, <2>16, <2>17, <2>18, <2>19, OwnStepExec
  <1> QED
    BY <1>20, <1>21

-----------------------------------------------------------------------------
(* fork() and wait() *)

LEMMA TwoStep ==
    ASSUME IInv, NEW p \in Procs, NEW c \in Procs, Leaves(p, c), Types', Exact(m', Others'),
           call[p].pc \in {"user", "copy"}, call[c].pc = "user",
           CallOf(p)', SpaceOf(p)', Copied(p)', CallOf(c)', SpaceOf(c)', Copied(c)'
    PROVE  IInv' /\ ExecFrame
  <1>1. \A q \in Procs \ {p, c} : CallOf(q)' /\ SpaceOf(q)' /\ Copied(q)'
    BY Bystander
  <1>2. \A q \in Procs \ {p, c} : sz'[q] = sz[q] /\ Holding(m, m', Space(q))
    BY UnmovedHolding DEF Leaves, IInv
  <1>3. call[p].pc \notin ExecPcs /\ call[c].pc \notin ExecPcs
    BY DEF ExecPcs
  <1> QED
    BY <1>1, <1>2, <1>3 DEF IInv, ExecFrame

\* what p did to one space of c moves nobody else
LEMMA ChildElse ==
    ASSUME Types, NEW c \in Procs, NEW mm, NEW m2, Else(mm, m2, Space(c)), NEW q \in Procs \ {c}
    PROVE  Unmoved(mm, m2, q)
  <1>1. PICK s : s \in {Space(c), Other(c)} /\ s = Space(c)
    OBVIOUS
  <1> QED
    BY <1>1, OwnElse

\* what a process keeps when it is left alone
LEMMA UnmovedHas ==
    ASSUME Types, NEW mm, NEW m2, NEW q \in Procs, Unmoved(mm, m2, q)
    PROVE  /\ Gone(mm, Other(q)) => Gone(m2, Other(q))
           /\ \A n : Below(mm, Space(q), n) => Below(m2, Space(q), n)
           /\ Heap(m2, Space(q)) = Heap(mm, Space(q)) /\ m2.leaf[Space(q)] = mm.leaf[Space(q)]
           /\ \A v \in Heap(mm, Space(q)) : m2.page[User(Space(q), v)] = mm.page[User(Space(q), v)]
  <1>1. Same(mm, m2, Space(q)) /\ Same(mm, m2, Other(q))
    BY SpacesOf DEF Unmoved
  <1>2. Heap(m2, Space(q)) = Heap(mm, Space(q))
    BY <1>1, SamePages
  <1> QED
    BY <1>1, <1>2 DEF Same, Gone, Below, Pages

\* the two processes are not part of another fork()
LEMMA NotCopied ==
    ASSUME IInv, NEW c \in Procs, st[c] # "USED", NEW q \in Procs, call[q].pc = "copy"
    PROVE  call[q].child \in Procs /\ call[q].child # c /\ st[call[q].child] = "USED"
  BY DEF IInv, CallOf

LEMMA ForkStep == ASSUME IInv, NEW p \in Procs, Fork(p) PROVE IInv' /\ ExecFrame
  <1>1. st[p] = "LIVE" /\ call[p].pc = "user" /\ sz' = sz /\ pt' = pt /\ parent' = parent
    BY DEF Fork, Enters, At
  <1>2. /\ call[p].args = 0 /\ Gone(m, Other(p)) /\ Below(m, Space(p), PagesOf(sz[p]))
        /\ Types /\ Exact(m, Others) /\ Plain(Others) /\ sz[p] \in 0..MaxSize
        /\ Space(p) \in Spaces /\ Other(p) \in Spaces /\ Space(p) # Other(p)
    BY <1>1, AtUser
  <1>3. PICK c \in Procs :
          /\ st[c] = "UNUSED"
          /\ \/ UNCHANGED <<m, st, call>>
             \/ \E r \in ProcPagetable(Kalloc(m, TFrame(c)), Space(c), c) :
                  IF r.ok THEN /\ m' = r.m
                               /\ st' = [st EXCEPT ![c] = "USED"]
                               /\ Go(p, [User0 EXCEPT !.pc = "copy", !.child = c])
                  ELSE m' = Kfree(r.m, {TFrame(c)}) /\ UNCHANGED <<st, call>>
    BY DEF Fork
  <1>4. c # p /\ Gone(m, Space(c)) /\ call[c].pc = "user" /\ Gone(m, Other(c)) /\ Space(c) \in Spaces
        /\ Other(c) \in Spaces /\ Space(c) # Other(c)
    BY <1>1, <1>2, <1>3, SpacesOf DEF IInv, CallOf, SpaceOf
  <1>5. CASE m' = m /\ st' = st /\ call' = call
    <2>1. Others' = Others
      BY <1>5, OthersSame
    <2>2. Space(p)' = Space(p) /\ Other(p)' = Other(p)
      BY <1>1 DEF Space, Other
    <2>3. CallOf(p)' /\ SpaceOf(p)'
      BY <1>1, <1>2, <1>5, <2>2, BackToUser
    <2>4. OwnPart(p)
      BY <1>1, <1>5, UnmovedSelf DEF OwnPart
    <2>5. Types'
      BY <1>1, <1>2, <1>5 DEF Types
    <2> QED
      BY <1>1, <1>2, <1>5, <2>1, <2>3, <2>4, <2>5, OwnStep
  <1>6. CASE ~(m' = m /\ st' = st /\ call' = call)
    <2>1. PICK pa, pas, what, m1, s :
            pa = TFrame(c) /\ pas = {pa} /\ what = "junk" /\ m1 = Filled(m, pas, what) /\ s = Space(c)
      OBVIOUS
    <2>2. PICK r \in ProcPagetable(m1, s, c) :
            IF r.ok THEN /\ m' = r.m
                         /\ st' = [st EXCEPT ![c] = "USED"]
                         /\ Go(p, [User0 EXCEPT !.pc = "copy", !.child = c])
            ELSE m' = Kfree(r.m, pas) /\ UNCHANGED <<st, call>>
      BY <1>3, <1>6, <2>1 DEF Kalloc
    <2>3. PICK X : X = Others \cup pas
      OBVIOUS
    <2>4. pa \notin Others
      BY <1>3, <2>1, OthersAre, Names
    <2>5. /\ Exact(m1, X) /\ m1.leaf = m.leaf /\ m1.tab = m.tab
          /\ \A t \in Spaces : Same(m, m1, t)
      <3>1. what \in {"junk", "zero", "data"}
        BY <2>1
      <3>2. (\A x, v : pa # User(x, v)) /\ (\A x : pa \notin Tables(x)) /\ pas = {pa}
        BY <2>1, Names
      <3>3. Loose(m, pas)
        BY <1>2, <3>2, LooseName
      <3>4. Alloced(m, Others, Filled(m, pas, what), pas, what)
        BY <1>2, <3>1, <3>3, KallocIs
      <3> QED
        BY <2>1, <2>3, <3>4 DEF Alloced
    <2>6. s \in Spaces /\ Gone(m1, s)
      BY <1>4, <2>1, <2>5 DEF Gone
    <2>7. Created(m1, X, r, s)
      BY <2>2, <2>5, <2>6, ProcPagetableIs
    <2>8. /\ r.ok \in BOOLEAN /\ Exact(r.m, X) /\ Else(m1, r.m, s)
          /\ (r.ok => Heap(r.m, s) = {}) /\ (~r.ok => Gone(r.m, s))
      BY <2>7 DEF Created
    <2>9. \A q \in Procs \ {c} : Unmoved(m, r.m, q)
      BY <1>2, <2>1, <2>5, <2>8, ChildElse, LooseUnmoved, UnmovedTwice
    <2>10. Gone(r.m, Other(c))
      BY <1>4, <2>1, <2>5, <2>8, ElseIs DEF Gone
    <2>11. CASE r.ok
      <3>1. PICK u, d : u = User0 /\ d = [u EXCEPT !.pc = "copy", !.child = c]
        OBVIOUS
      <3>2. m' = r.m /\ st' = [st EXCEPT ![c] = "USED"] /\ Go(p, d)
        BY <2>2, <2>11, <3>1
      <3>3. u \in CallRec /\ u.a = 0 /\ u.args = 0
        BY <3>1, User0Is DEF User0
      <3>4. d \in CallRec /\ d.pc = "copy" /\ d.child = c /\ d.a = 0 /\ d.args = 0
        BY <3>1, <3>3 DEF CallRec, Pcs
      <3>5. call' \in [Procs -> CallRec] /\ call'[p] = d /\ \A q \in Procs \ {p} : call'[q] = call[q]
        BY <1>2, <3>2, <3>4, GoIs
      <3>6. st' \in [Procs -> {"UNUSED", "USED", "LIVE", "ZOMBIE"}] /\ st'[c] = "USED" /\ \A q \in Procs \ {c} : st'[q] = st[q]
        BY <1>2, <3>2 DEF Types
      <3>7. Others' = X
        <4>1. st'[c] # "UNUSED" /\ \A q \in Procs : call'[q].args = call[q].args
          BY <1>2, <3>4, <3>5, <3>6
        <4>2. Others' = Others \cup {TFrame(c)}
          BY <1>3, <3>6, <4>1, OthersMore
        <4> QED
          BY <2>1, <2>3, <4>2
      <3>8. Types'
        BY <1>1, <1>2, <3>5, <3>6 DEF Types
      <3>9. /\ Space(p)' = Space(p) /\ Other(p)' = Other(p) /\ Space(c)' = s /\ Other(c)' = Other(c)
            /\ Space(call[p].child)' = s
        BY <1>1, <2>1, <3>4, <3>5 DEF Space, Other
      <3>10. Gone(m', Other(p)) /\ Below(m', Space(p), PagesOf(sz[p])) /\ Heap(m', s) = {} /\ Gone(m', Other(c))
        BY <1>2, <1>4, <2>8, <2>9, <2>10, <2>11, <3>2, UnmovedHas
      <3>11. Leaves(p, c)
        <4> SUFFICES ASSUME NEW q \in Procs \ {p, c}
                     PROVE  /\ st'[q] = st[q] /\ sz'[q] = sz[q] /\ pt'[q] = pt[q] /\ call'[q] = call[q]
                            /\ Unmoved(m, m', q)
                            /\ call[q].pc = "copy" =>
                                 /\ call[q].child \notin {p, c}
                                 /\ \A z \in {p, c} : call'[z].pc = "copy" => call'[z].child # call[q].child
          BY DEF Leaves
        <4>1. call[q].pc = "copy" => call[q].child \notin {p, c}
          BY <1>1, <1>3, NotCopied
        <4>2. call'[c].pc = "user" /\ call'[p].child = c
          BY <1>4, <3>4, <3>5
        <4> QED
          BY <1>1, <2>9, <3>2, <3>5, <3>6, <4>1, <4>2
      <3>12. CallOf(p)'
        <4>1. PagesOf(sz'[p]) \in Nat
          BY <1>1, <1>2, PagesFit
        <4>2. \A q \in Procs : call'[q].pc = "copy" /\ call'[q].child = c => q = p
          BY <1>3, <3>5, NotCopied
        <4>3. Below(m', s, 0)
          BY <3>10 DEF Below
        <4> QED
          BY <1>1, <1>4, <3>4, <3>5, <3>6, <3>9, <4>1, <4>2, <4>3 DEF CallOf
      <3>13. SpaceOf(p)'
        BY <1>1, <1>4, <3>4, <3>5, <3>6, <3>9, <3>10 DEF SpaceOf, Gone, Below
      <3>14. Copied(p)'
        BY <3>4, <3>5, <3>9, <3>10 DEF Copied
      <3>15. CallOf(c)' /\ Copied(c)'
        <4>1. call'[c] = call[c] /\ call[c].args = 0
          BY <1>4, <3>5 DEF IInv, CallOf
        <4> QED
          BY <1>4, <4>1 DEF CallOf, Copied
      <3>16. SpaceOf(c)'
        BY <3>6, <3>9, <3>10 DEF SpaceOf, Gone
      <3>17. Exact(m', Others')
        BY <2>8, <3>2, <3>7
      <3> QED
        BY <1>1, <1>4, <3>8, <3>11, <3>12, <3>13, <3>14, <3>15, <3>16, <3>17, TwoStep
    <2>12. CASE ~r.ok
      <3>1. PICK mr, m2 : mr = r.m /\ m2 = Kfree(mr, pas)
        OBVIOUS
      <3>2. m' = m2 /\ st' = st /\ call' = call
        BY <2>2, <2>12, <3>1
      <3>3. Exact(mr, X) /\ pas \subseteq X /\ m2 = Kfree(mr, pas)
        BY <2>3, <2>8, <3>1
      <3>4. Exact(m2, X \ pas) /\ m2.leaf = mr.leaf /\ m2.tab = mr.tab /\ \A t \in Spaces : Same(mr, m2, t)
        BY <3>3, KfreeLoose
      <3>5. X \ pas = Others
        BY <2>1, <2>3, <2>4
      <3>6. Others' = Others
        BY <3>2, OthersSame
      <3>7. \A q \in Procs \ {c} : Unmoved(m, m', q)
        BY <1>2, <2>9, <3>1, <3>2, <3>4, LooseUnmoved, UnmovedTwice
      <3>8. Gone(m', s) /\ Gone(m', Other(c))
        BY <2>8, <2>10, <2>12, <3>1, <3>2, <3>4 DEF Gone
      <3>9. Space(p)' = Space(p) /\ Other(p)' = Other(p) /\ Space(c)' = s /\ Other(c)' = Other(c)
        BY <1>1, <2>1 DEF Space, Other
      <3>10. Gone(m', Other(p)) /\ Below(m', Space(p), PagesOf(sz[p]))
        BY <1>2, <1>4, <3>7, UnmovedHas
      <3>11. CallOf(p)' /\ SpaceOf(p)'
        BY <1>1, <1>2, <3>2, <3>9, <3>10, BackToUser
      <3>12. Copied(p)' /\ Copied(c)'
        BY <1>1, <1>4, <3>2 DEF Copied
      <3>13. CallOf(c)' /\ SpaceOf(c)'
        <4>1. call[c].args = 0
          BY <1>4 DEF IInv, CallOf
        <4> QED
          BY <1>3, <1>4, <3>2, <3>8, <3>9, <4>1 DEF CallOf, SpaceOf, Gone
      <3>14. Leaves(p, c)
        <4>1. \A q \in Procs : call[q].pc = "copy" => call[q].child \notin {p, c}
          BY <1>1, <1>3, NotCopied
        <4> QED
          BY <1>1, <1>4, <3>2, <3>7, <4>1 DEF Leaves
      <3>15. Types'
        BY <1>1, <1>2, <3>2 DEF Types
      <3>16. Exact(m', Others')
        BY <3>2, <3>4, <3>5, <3>6
      <3> QED
        BY <1>1, <1>4, <3>11, <3>12, <3>13, <3>14, <3>15, <3>16, TwoStep
    <2> QED
      BY <2>8, <2>11, <2>12
  <1> QED
    BY <1>5, <1>6

\* what p and its child are while fork() copies
LEMMA Copying ==
    ASSUME IInv, NEW p \in Procs, At(p, "copy"), NEW c, c = call[p].child
    PROVE  /\ c \in Procs /\ c # p /\ st[c] = "USED" /\ st[p] = "LIVE" /\ call[p].pc = "copy" /\ call[p].args = 0
           /\ Types /\ Exact(m, Others) /\ Plain(Others) /\ sz[p] \in 0..MaxSize /\ sz[c] \in 0..MaxSize
           /\ call[p] \in CallRec /\ call[p].a \in Nat /\ call[p].a <= PagesOf(sz[p])
           /\ Below(m, Space(c), call[p].a) /\ Gone(m, Other(p)) /\ Below(m, Space(p), PagesOf(sz[p]))
           /\ call[c].pc = "user" /\ call[c].args = 0 /\ Gone(m, Other(c))
           /\ Space(p) \in Spaces /\ Other(p) \in Spaces /\ Space(c) \in Spaces /\ Other(c) \in Spaces
           /\ Space(c) # Other(c) /\ Space(c) # Space(p)
           /\ \A q \in Procs \ {p} : call[q].pc = "copy" => call[q].child \notin {p, c}
  <1>1. st[p] = "LIVE" /\ call[p].pc = "copy"
    BY DEF At
  <1>2. c \in Procs /\ st[c] = "USED" /\ call[p].args = 0 /\ call[p].a <= PagesOf(sz[p])
        /\ Below(m, Space(c), call[p].a) /\ Gone(m, Other(p)) /\ Below(m, Space(p), PagesOf(sz[p]))
    BY <1>1 DEF IInv, CallOf, SpaceOf
  <1>3. c # p /\ call[c].pc = "user" /\ call[c].args = 0 /\ Gone(m, Other(c))
    BY <1>1, <1>2 DEF IInv, CallOf, SpaceOf
  <1>4. \A q \in Procs \ {p} : call[q].pc = "copy" => call[q].child \notin {p, c}
    <2>1. \A q \in Procs : call[q].pc = "copy" => call[q].child # p
      BY <1>1, NotCopied
    <2>2. \A q \in Procs : call[q].pc = "copy" /\ call[q].child = c => q = p
      BY <1>1 DEF IInv, CallOf
    <2> QED
      BY <2>1, <2>2
  <1>5. Types
    BY DEF IInv
  <1>6. /\ Space(p) \in Spaces /\ Other(p) \in Spaces /\ Space(c) \in Spaces /\ Other(c) \in Spaces
        /\ Space(c) # Other(c)
    BY <1>2, <1>5, SpacesOf
  <1>7. Space(c) # Space(p)
    BY <1>3 DEF Space
  <1>8. call[p] \in CallRec /\ call[p].a \in Nat /\ sz[p] \in 0..MaxSize /\ sz[c] \in 0..MaxSize
    BY <1>2, <1>5, CallParts
  <1>9. Exact(m, Others) /\ Plain(Others)
    BY OthersPlain DEF IInv
  <1> QED
    BY <1>1, <1>2, <1>3, <1>4, <1>5, <1>6, <1>7, <1>8, <1>9

\* a page, or a hole, of the parent is copied
LEMMA Advance ==
    ASSUME IInv, NEW p \in Procs, At(p, "copy"), NEW c, c = call[p].child, call[p].a * PGSIZE < sz[p],
           st' = st, sz' = sz, pt' = pt, parent' = parent, Go(p, [call[p] EXCEPT !.a = @ + 1]),
           Exact(m', Others), Else(m, m', Space(c)),
           Below(m', Space(c), call[p].a + 1),
           \A v \in 0..call[p].a : v \in Heap(m, Space(p)) <=> v \in Heap(m', Space(c)),
           \A v \in Heap(m', Space(c)) : /\ m'.leaf[Space(c)][v].w = m.leaf[Space(p)][v].w
                                         /\ m'.leaf[Space(c)][v].u = m.leaf[Space(p)][v].u
                                         /\ m'.page[User(Space(c), v)] = m.page[User(Space(p), v)]
    PROVE  IInv' /\ ExecFrame
  <1>1. /\ c \in Procs /\ c # p /\ st[c] = "USED" /\ st[p] = "LIVE" /\ call[p].pc = "copy" /\ call[p].args = 0
        /\ Types /\ sz[p] \in 0..MaxSize
        /\ call[p] \in CallRec /\ call[p].a \in Nat
        /\ Gone(m, Other(p)) /\ Below(m, Space(p), PagesOf(sz[p]))
        /\ call[c].pc = "user" /\ call[c].args = 0 /\ Gone(m, Other(c))
        /\ Space(p) \in Spaces /\ Space(c) \in Spaces /\ Other(c) \in Spaces
        /\ Space(c) # Other(c) /\ Space(c) # Space(p)
        /\ \A q \in Procs \ {p} : call[q].pc = "copy" => call[q].child \notin {p, c}
    BY Copying
  <1>2. PICK k, d, e : k = call[p].a /\ d = call[p] /\ e = [d EXCEPT !.a = k + 1]
    OBVIOUS
  <1>3. e \in CallRec /\ e.a = k + 1 /\ e.pc = "copy" /\ e.child = c /\ e.args = 0
    BY <1>1, <1>2 DEF CallRec
  <1>4. call' \in [Procs -> CallRec] /\ call'[p] = e /\ \A q \in Procs \ {p} : call'[q] = call[q]
    BY <1>1, <1>2, <1>3, GoIs
  <1>5. Others' = Others
    BY <1>1, <1>3, <1>4, OthersSame
  <1>6. \A q \in Procs \ {c} : Unmoved(m, m', q)
    BY <1>1, ChildElse
  <1>7. /\ Space(p)' = Space(p) /\ Other(p)' = Other(p) /\ Space(c)' = Space(c) /\ Other(c)' = Other(c)
        /\ Space(call[p].child)' = Space(c)
    BY <1>1, <1>3, <1>4 DEF Space, Other
  <1>8. /\ Gone(m', Other(p)) /\ Below(m', Space(p), PagesOf(sz[p]))
        /\ Heap(m', Space(p)) = Heap(m, Space(p)) /\ m'.leaf[Space(p)] = m.leaf[Space(p)]
        /\ \A v \in Heap(m, Space(p)) : m'.page[User(Space(p), v)] = m.page[User(Space(p), v)]
    BY <1>1, <1>6, UnmovedHas
  <1>9. Gone(m', Other(c))
    BY <1>1, ElseIs
  <1>10. k + 1 <= PagesOf(sz[p])
    <2>1. sz[p] \in Nat /\ PagesOf(sz[p]) \in Nat
      BY <1>1, PagesFit
    <2> QED
      BY <1>1, <1>2, <2>1, PagesLess
  <1>11. CallOf(p)'
    <2>1. \A q \in Procs : call'[q].pc = "copy" /\ call'[q].child = c => q = p
      BY <1>1, <1>4
    <2> QED
      BY <1>1, <1>2, <1>3, <1>4, <1>7, <1>10, <2>1 DEF CallOf
  <1>12. SpaceOf(p)'
    BY <1>1, <1>3, <1>4, <1>7, <1>8 DEF SpaceOf, Gone, Below
  <1>13. Copied(p)'
    <2>1. 0..e.a - 1 = 0..k
      BY <1>1, <1>2, <1>3
    <2>2. \A v \in Heap(m', Space(c)) : v \in Heap(m, Space(p))
      <3>1. \A v \in Heap(m', Space(c)) : v \in 0..k
        BY <1>1, <1>2 DEF Below
      <3> QED
        BY <1>2, <3>1
    <2> QED
      BY <1>2, <1>4, <1>7, <1>8, <2>1, <2>2 DEF Copied
  <1>14. CallOf(c)' /\ SpaceOf(c)' /\ Copied(c)'
    BY <1>1, <1>4, <1>7, <1>9 DEF CallOf, SpaceOf, Copied, Gone
  <1>15. Leaves(p, c)
    BY <1>1, <1>3, <1>4, <1>6 DEF Leaves
  <1>16. Types'
    BY <1>1, <1>4 DEF Types
  <1>17. Exact(m', Others')
    BY <1>5
  <1> QED
    BY <1>1, <1>11, <1>12, <1>13, <1>14, <1>15, <1>16, <1>17, TwoStep

LEMMA CopyPageStep == ASSUME IInv, NEW p \in Procs, CopyPage(p) PROVE IInv' /\ ExecFrame
  <1>1. PICK c, v, s, t : c = call[p].child /\ v = call[p].a /\ s = Space(p) /\ t = Space(c)
    OBVIOUS
  <1>2. At(p, "copy") /\ v * PGSIZE < sz[p] /\ sz' = sz /\ pt' = pt /\ parent' = parent
    BY <1>1 DEF CopyPage
  <1>3. /\ c \in Procs /\ c # p /\ st[c] = "USED" /\ st[p] = "LIVE" /\ call[p].pc = "copy" /\ call[p].args = 0
        /\ Types /\ Exact(m, Others) /\ Plain(Others) /\ sz[p] \in 0..MaxSize /\ sz[c] \in 0..MaxSize
        /\ v \in Nat /\ v <= PagesOf(sz[p])
        /\ Below(m, t, v) /\ Gone(m, Other(p)) /\ Below(m, s, PagesOf(sz[p]))
        /\ call[c].pc = "user" /\ call[c].args = 0 /\ Gone(m, Other(c))
        /\ s \in Spaces /\ Other(p) \in Spaces /\ t \in Spaces /\ Other(c) \in Spaces
        /\ t # Other(c) /\ t # s
        /\ \A q \in Procs \ {p} : call[q].pc = "copy" => call[q].child \notin {p, c}
    BY <1>1, <1>2, Copying
  <1>4. v \in UserPages
    <2>1. sz[p] \in Nat /\ PagesOf(sz[p]) \in Nat /\ 0..PagesOf(sz[p]) - 1 \subseteq UserPages
      BY <1>3, PagesFit
    <2> QED
      BY <1>2, <1>3, <2>1, PagesLess
  <1>5. /\ \A x \in 0..v - 1 : x \in Heap(m, s) <=> x \in Heap(m, t)
        /\ \A x \in Heap(m, t) : /\ m.leaf[t][x].w = m.leaf[s][x].w
                                 /\ m.leaf[t][x].u = m.leaf[s][x].u
                                 /\ m.page[User(t, x)] = m.page[User(s, x)]
    BY <1>1, <1>3 DEF IInv, Copied
  <1>6. v \notin Heap(m, t)
    BY <1>3 DEF Below
  <1>7. v \in Heap(m, s) <=> v \in DOMAIN m.leaf[s]
    BY <1>3, <1>4, HeapIs
  <1>8. CASE v \notin DOMAIN m.leaf[s]
    <2>1. m' = m /\ st' = st /\ Go(p, [call[p] EXCEPT !.a = @ + 1])
      BY <1>1, <1>8 DEF CopyPage
    <2>2. Below(m', t, v + 1) /\ Else(m, m', t)
      BY <1>3, <2>1 DEF Below, Else, Same
    <2>3. \A x \in 0..v : x \in Heap(m, s) <=> x \in Heap(m', t)
      BY <1>3, <1>5, <1>6, <1>7, <1>8, <2>1
    <2> QED
      BY <1>1, <1>2, <1>3, <1>5, <2>1, <2>2, <2>3, Advance
  <1>9. CASE v \in DOMAIN m.leaf[s]
    <2>1. PICK perm, what : perm = m.leaf[s][v] /\ what = m.page[perm.pa]
      OBVIOUS
    <2>2. PICK r \in NewPage(m, t, v, what, perm) :
            IF r.ok THEN m' = r.m /\ Go(p, [call[p] EXCEPT !.a = @ + 1]) /\ UNCHANGED st
            ELSE /\ m' = FreeProc(Uvmunmap(r.m, t, 0..v - 1, TRUE), c, sz[c])
                 /\ st' = [st EXCEPT ![c] = "UNUSED"]
                 /\ Go(p, User0)
      BY <1>1, <1>9, <2>1 DEF CopyPage
    <2>3. perm.pa = User(s, v) /\ what = m.page[User(s, v)] /\ what \in {"zero", "data"}
      BY <1>3, <1>7, <1>9, <2>1 DEF Exact, SpaceOK
    <2>4. /\ r.ok \in BOOLEAN /\ Exact(r.m, Others) /\ Else(m, r.m, t)
          /\ r.ok => Added(m, r.m, t, v, what, perm)
          /\ ~r.ok => r.m.leaf[t] = m.leaf[t] /\ Kept(m, r.m, t)
      BY <1>3, <1>4, <1>6, <2>2, <2>3, NewPageIs
    <2>5. CASE r.ok
      <3>1. m' = r.m /\ Go(p, [call[p] EXCEPT !.a = @ + 1]) /\ st' = st
        BY <2>2, <2>5
      <3>2. /\ Heap(m', t) = {v} \cup Heap(m, t)
            /\ m'.leaf[t][v] = [pa |-> User(t, v), w |-> perm.w, u |-> perm.u]
            /\ \A x \in DOMAIN m.leaf[t] : m'.leaf[t][x] = m.leaf[t][x]
            /\ m'.page[User(t, v)] = what
            /\ Kept(m, m', t)
        BY <2>4, <2>5, <3>1 DEF Added
      <3>3. Below(m', t, v + 1)
        BY <1>3, <3>2 DEF Below
      <3>4. \A x \in 0..v : x \in Heap(m, s) <=> x \in Heap(m', t)
        BY <1>3, <1>5, <1>7, <1>9, <3>2
      <3>5. ASSUME NEW x \in Heap(m', t)
            PROVE  /\ m'.leaf[t][x].w = m.leaf[s][x].w
                   /\ m'.leaf[t][x].u = m.leaf[s][x].u
                   /\ m'.page[User(t, x)] = m.page[User(s, x)]
        <4>1. CASE x = v
          BY <2>1, <2>3, <3>2, <4>1
        <4>2. CASE x # v
          <5>1. x \in Heap(m, t) /\ x \in DOMAIN m.leaf[t]
            BY <3>2, <4>2 DEF Heap
          <5> QED
            BY <1>5, <3>2, <5>1 DEF Kept
        <4> QED
          BY <4>1, <4>2
      <3>6. Exact(m', Others) /\ Else(m, m', t)
        BY <2>4, <3>1
      <3> QED
        BY <1>1, <1>2, <1>3, <3>1, <3>3, <3>4, <3>5, <3>6, Advance
    <2>6. CASE ~r.ok
      <3>1. PICK vs, mr, m2, n : vs = 0..v - 1 /\ mr = r.m /\ m2 = UnmapF(mr, t, vs) /\ n = sz[c]
        OBVIOUS
      <3>2. PICK m3 : m3 = FreeProc(m2, c, n)
        OBVIOUS
      <3>3. m' = m3 /\ st' = [st EXCEPT ![c] = "UNUSED"] /\ Go(p, User0)
        BY <2>2, <2>6, <3>1, <3>2 DEF UnmapF
      <3>4. vs \subseteq UserPages
        BY <1>3, <1>4, <3>1, Numbers DEF UserPages
      <3>5. Exact(mr, Others) /\ m2 = UnmapF(mr, t, vs)
        BY <2>4, <3>1
      <3>6. Exact(m2, Others) /\ Else(mr, m2, t) /\ Heap(m2, t) = Heap(mr, t) \ vs
        BY <1>3, <3>4, <3>5, UnmapHeap
      <3>7. Heap(m2, t) = {}
        <4>1. Heap(mr, t) = Heap(m, t)
          BY <2>4, <2>6, <3>1 DEF Heap
        <4> QED
          BY <1>3, <3>1, <3>6, <4>1 DEF Below
      <3>8. Exact(m3, Others \ {TFrame(c)}) /\ Else(m2, m3, t) /\ Gone(m3, t)
        <4>1. TFrame(c) \in Others
          BY <1>3, OthersAre
        <4>2. Space(c) \in Spaces /\ n \in 0..MaxSize
          BY <1>1, <1>3, <3>1
        <4>3. Heap(m2, Space(c)) \subseteq 0..PagesOf(n) - 1
          BY <1>1, <3>7
        <4>4. Exact(m3, Others \ {TFrame(c)}) /\ Else(m2, m3, Space(c)) /\ Gone(m3, Space(c))
          BY <3>2, <3>6, <4>1, <4>2, <4>3, FreeProcIs
        <4> QED
          BY <1>1, <4>4
      <3>9. Else(m, m', t)
        BY <2>4, <3>1, <3>3, <3>6, <3>8, ElseTwice
      <3>10. \A q \in Procs \ {c} : Unmoved(m, m', q)
        BY <1>1, <1>3, <3>9, ChildElse
      <3>11. st' \in [Procs -> {"UNUSED", "USED", "LIVE", "ZOMBIE"}] /\ st'[c] = "UNUSED" /\ \A q \in Procs \ {c} : st'[q] = st[q]
        BY <1>3, <3>3 DEF Types
      <3>12. call' \in [Procs -> CallRec] /\ call'[p] = User0 /\ \A q \in Procs \ {p} : call'[q] = call[q]
        BY <1>3, <3>3, GoIs, User0Is
      <3>13. Others' = Others \ {TFrame(c)}
        <4>1. st[c] # "UNUSED" /\ \A q \in Procs : call'[q].args = call[q].args
          BY <1>3, <3>12, User0Is
        <4> QED
          BY <1>3, <3>11, <4>1, OthersFewer
      <3>14. Space(p)' = Space(p) /\ Other(p)' = Other(p) /\ Space(c)' = t /\ Other(c)' = Other(c)
        BY <1>1, <1>2 DEF Space, Other
      <3>15. Gone(m', Other(p)) /\ Below(m', Space(p), PagesOf(sz[p])) /\ Gone(m', t) /\ Gone(m', Other(c))
        BY <1>1, <1>3, <3>3, <3>8, <3>9, <3>10, UnmovedHas, ElseIs
      <3>16. CallOf(p)' /\ SpaceOf(p)'
        <4>1. st'[p] = "LIVE"
          BY <1>3, <3>11
        <4> QED
          BY <1>2, <3>12, <3>14, <3>15, <4>1, BackToUser, User0Is
      <3>17. CallOf(c)' /\ SpaceOf(c)' /\ Copied(c)' /\ Copied(p)'
        BY <1>3, <3>11, <3>12, <3>14, <3>15, User0Is DEF CallOf, SpaceOf, Copied, Gone
      <3>18. Leaves(p, c)
        BY <1>2, <1>3, <3>10, <3>11, <3>12, User0Is DEF Leaves
      <3>19. Types'
        BY <1>2, <1>3, <3>11, <3>12 DEF Types
      <3>20. Exact(m', Others')
        BY <3>3, <3>8, <3>13
      <3> QED
        BY <1>3, <3>16, <3>17, <3>18, <3>19, <3>20, TwoStep
    <2> QED
      BY <2>4, <2>5, <2>6
  <1> QED
    BY <1>8, <1>9

LEMMA ForkedStep == ASSUME IInv, NEW p \in Procs, Forked(p) PROVE IInv' /\ ExecFrame
  <1>1. PICK c : c = call[p].child
    OBVIOUS
  <1>2. /\ At(p, "copy") /\ call[p].a * PGSIZE >= sz[p] /\ m' = m /\ pt' = pt
        /\ sz' = [sz EXCEPT ![c] = sz[p]] /\ st' = [st EXCEPT ![c] = "LIVE"]
        /\ parent' = [parent EXCEPT ![c] = p] /\ Go(p, User0)
    BY <1>1 DEF Forked
  <1>3. /\ c \in Procs /\ c # p /\ st[c] = "USED" /\ st[p] = "LIVE" /\ call[p].pc = "copy" /\ call[p].args = 0
        /\ Types /\ Exact(m, Others) /\ sz[p] \in 0..MaxSize
        /\ call[p].a \in Nat /\ call[p].a <= PagesOf(sz[p])
        /\ Below(m, Space(c), call[p].a) /\ Gone(m, Other(p)) /\ Below(m, Space(p), PagesOf(sz[p]))
        /\ call[c].pc = "user" /\ call[c].args = 0 /\ Gone(m, Other(c))
        /\ \A q \in Procs \ {p} : call[q].pc = "copy" => call[q].child \notin {p, c}
    BY <1>1, <1>2, Copying
  <1>4. sz' \in [Procs -> 0..MaxSize] /\ sz'[c] = sz[p] /\ \A q \in Procs \ {c} : sz'[q] = sz[q]
    BY <1>2, <1>3 DEF Types
  <1>5. st' \in [Procs -> {"UNUSED", "USED", "LIVE", "ZOMBIE"}] /\ st'[c] = "LIVE" /\ \A q \in Procs \ {c} : st'[q] = st[q]
    BY <1>2, <1>3 DEF Types
  <1>6. parent' \in [Procs -> {0} \cup Procs]
    BY <1>2, <1>3 DEF Types
  <1>7. call' \in [Procs -> CallRec] /\ call'[p] = User0 /\ \A q \in Procs \ {p} : call'[q] = call[q]
    BY <1>2, <1>3, GoIs, User0Is
  <1>8. Others' = Others
    BY <1>3, <1>5, <1>7, OthersSame, User0Is
  <1>9. Space(p)' = Space(p) /\ Other(p)' = Other(p) /\ Space(c)' = Space(c) /\ Other(c)' = Other(c)
    BY <1>2 DEF Space, Other
  <1>10. CallOf(p)' /\ SpaceOf(p)'
    BY <1>2, <1>3, <1>4, <1>5, <1>7, <1>9, BackToUser, User0Is
  <1>11. CallOf(c)' /\ SpaceOf(c)'
    <2>1. Below(m', Space(c), PagesOf(sz'[c]))
      <3>1. PagesOf(sz[p]) \in Nat
        BY <1>3, PagesFit
      <3> QED
        BY <1>2, <1>3, <1>4, <3>1 DEF Below
    <2>2. call'[c] = call[c] /\ Gone(m', Other(c))
      BY <1>2, <1>3, <1>7
    <2> QED
      BY <1>3, <1>5, <1>9, <2>1, <2>2, BackToUser
  <1>12. Copied(p)' /\ Copied(c)'
    BY <1>3, <1>7, User0Is DEF Copied
  <1>13. Leaves(p, c)
    BY <1>2, <1>3, <1>4, <1>5, <1>7, UnmovedSelf, User0Is DEF Leaves
  <1>14. Types'
    BY <1>2, <1>3, <1>4, <1>5, <1>6, <1>7 DEF Types
  <1>15. Exact(m', Others')
    BY <1>2, <1>3, <1>8
  <1> QED
    BY <1>3, <1>10, <1>11, <1>12, <1>13, <1>14, <1>15, TwoStep

\* kwait()'s copyout() may add a page to the parent, and nothing else
LEMMA CopyoutKeeps ==
    ASSUME Types, NEW p \in Procs, NEW mm, NEW X, Exact(mm, X), Plain(X), NEW v \in UserPages,
           Below(mm, Space(p), PagesOf(sz[p])), Gone(mm, Other(p)),
           NEW r \in Copyout(mm, Space(p), sz[p], v)
    PROVE  /\ r.ok \in BOOLEAN /\ Exact(r.m, X) /\ Below(r.m, Space(p), PagesOf(sz[p])) /\ Gone(r.m, Other(p))
           /\ \A q \in Procs \ {p} : Unmoved(mm, r.m, q)
  <1>1. PICK s, n : s = Space(p) /\ n = sz[p]
    OBVIOUS
  <1>2. s \in Spaces /\ n \in 0..MaxSize /\ Other(p) \in Spaces /\ Other(p) # s
    BY <1>1, SpacesOf, CallParts
  <1>3. r \in Copyout(mm, s, n, v)
    BY <1>1
  <1>4. Reached(mm, X, r, s, PagesOf(n), v)
    BY <1>2, <1>3, CopyoutIs
  <1>5. r.ok \in BOOLEAN /\ Exact(r.m, X) /\ Else(mm, r.m, s) /\ Grew(mm, r.m, s, PagesOf(n))
    BY <1>4 DEF Reached
  <1>6. Below(r.m, s, PagesOf(n))
    BY <1>1, <1>5 DEF Grew, Below
  <1>7. Gone(r.m, Other(p))
    BY <1>2, <1>5, ElseIs
  <1>8. \A q \in Procs \ {p} : Unmoved(mm, r.m, q)
    BY <1>1, <1>5, OwnElse
  <1> QED
    BY <1>1, <1>5, <1>6, <1>7, <1>8

LEMMA KwaitStep == ASSUME IInv, NEW p \in Procs, Kwait(p) PROVE IInv' /\ ExecFrame
  <1>1. st[p] = "LIVE" /\ call[p].pc = "user" /\ pt' = pt /\ call' = call
    BY DEF Kwait, Enters, At
  <1>2. /\ call[p].args = 0 /\ Gone(m, Other(p)) /\ Below(m, Space(p), PagesOf(sz[p]))
        /\ Types /\ Exact(m, Others) /\ Plain(Others) /\ sz[p] \in 0..MaxSize
        /\ Space(p) \in Spaces /\ Other(p) \in Spaces /\ Space(p) # Other(p)
    BY <1>1, AtUser
  <1>3. PICK c \in Procs :
          /\ parent[c] = p /\ st[c] = "ZOMBIE"
          /\ \E r \in {Ok(m)} \cup UNION {Copyout(m, Space(p), sz[p], v) : v \in UserPages} :
               IF ~r.ok THEN m' = r.m /\ UNCHANGED <<st, sz, parent>>
               ELSE /\ m' = FreeProc(r.m, c, sz[c])
                    /\ st' = [st EXCEPT ![c] = "UNUSED"]
                    /\ sz' = [sz EXCEPT ![c] = 0]
                    /\ parent' = [parent EXCEPT ![c] = 0]
    BY DEF Kwait
  <1>4. PICK r \in {Ok(m)} \cup UNION {Copyout(m, Space(p), sz[p], v) : v \in UserPages} :
               IF ~r.ok THEN m' = r.m /\ UNCHANGED <<st, sz, parent>>
               ELSE /\ m' = FreeProc(r.m, c, sz[c])
                    /\ st' = [st EXCEPT ![c] = "UNUSED"]
                    /\ sz' = [sz EXCEPT ![c] = 0]
                    /\ parent' = [parent EXCEPT ![c] = 0]
    BY <1>3
  <1>5. /\ c # p /\ call[c].pc = "user" /\ call[c].args = 0 /\ Gone(m, Other(c)) /\ Below(m, Space(c), PagesOf(sz[c]))
        /\ Space(c) \in Spaces /\ Other(c) \in Spaces /\ Space(c) # Other(c) /\ sz[c] \in 0..MaxSize
    BY <1>1, <1>2, <1>3, SpacesOf, CallParts DEF IInv, CallOf, SpaceOf
  <1>6. /\ r.ok \in BOOLEAN /\ Exact(r.m, Others) /\ Below(r.m, Space(p), PagesOf(sz[p])) /\ Gone(r.m, Other(p))
        /\ \A q \in Procs \ {p} : Unmoved(m, r.m, q)
    <2>1. CASE r = Ok(m)
      <3>1. r.ok = TRUE /\ r.m = m
        BY <2>1 DEF Ok
      <3> QED
        BY <1>2, <3>1, UnmovedSelf
    <2>2. CASE r # Ok(m)
      <3>1. PICK v \in UserPages : r \in Copyout(m, Space(p), sz[p], v)
        BY <1>4, <2>2
      <3> QED
        BY <1>2, <3>1, CopyoutKeeps
    <2> QED
      BY <2>1, <2>2
  <1>7. CASE ~r.ok
    <2>1. m' = r.m /\ st' = st /\ sz' = sz /\ parent' = parent
      BY <1>4, <1>7
    <2>2. Others' = Others
      BY <1>1, <2>1, OthersSame
    <2>3. Space(p)' = Space(p) /\ Other(p)' = Other(p)
      BY <1>1 DEF Space, Other
    <2>4. CallOf(p)' /\ SpaceOf(p)'
      BY <1>1, <1>2, <1>6, <2>1, <2>3, BackToUser
    <2>5. OwnPart(p)
      BY <1>1, <1>6, <2>1 DEF OwnPart
    <2>6. Types' /\ Exact(m', Others')
      BY <1>1, <1>2, <1>6, <2>1, <2>2 DEF Types
    <2> QED
      BY <1>1, <2>4, <2>5, <2>6, OwnStep
  <1>8. CASE r.ok
    <2>1. PICK mr, n, m2, t : mr = r.m /\ n = sz[c] /\ m2 = FreeProc(mr, c, n) /\ t = Space(c)
      OBVIOUS
    <2>2. m' = m2 /\ st' = [st EXCEPT ![c] = "UNUSED"] /\ sz' = [sz EXCEPT ![c] = 0] /\ parent' = [parent EXCEPT ![c] = 0]
      BY <1>4, <1>8, <2>1
    <2>3. Gone(mr, Other(c)) /\ Below(mr, t, PagesOf(n))
      BY <1>2, <1>5, <1>6, <2>1, UnmovedHas
    <2>4. Exact(m2, Others \ {TFrame(c)}) /\ Else(mr, m2, t) /\ Gone(m2, t)
      <3>1. TFrame(c) \in Others
        BY <1>3, OthersAre
      <3>2. Space(c) \in Spaces /\ n \in 0..MaxSize /\ Exact(mr, Others)
        BY <1>5, <1>6, <2>1
      <3>3. Heap(mr, Space(c)) \subseteq 0..PagesOf(n) - 1
        BY <2>1, <2>3 DEF Below
      <3>4. Exact(m2, Others \ {TFrame(c)}) /\ Else(mr, m2, Space(c)) /\ Gone(m2, Space(c))
        BY <2>1, <3>1, <3>2, <3>3, FreeProcIs
      <3> QED
        BY <2>1, <3>4
    <2>5. \A q \in Procs \ {c} : Unmoved(mr, m2, q)
      BY <1>2, <2>1, <2>4, ChildElse
    <2>6. Gone(m', Other(c)) /\ Gone(m', t)
      BY <1>5, <2>1, <2>2, <2>3, <2>4, ElseIs
    <2>7. Gone(m', Other(p)) /\ Below(m', Space(p), PagesOf(sz[p]))
      BY <1>2, <1>5, <1>6, <2>1, <2>2, <2>5, UnmovedHas
    <2>8. \A q \in Procs \ {p, c} : Unmoved(m, m', q)
      BY <1>6, <2>1, <2>2, <2>5, UnmovedTwice
    <2>9. st' \in [Procs -> {"UNUSED", "USED", "LIVE", "ZOMBIE"}] /\ st'[c] = "UNUSED" /\ \A q \in Procs \ {c} : st'[q] = st[q]
      BY <1>2, <2>2 DEF Types
    <2>10. sz' \in [Procs -> 0..MaxSize] /\ sz'[c] = 0 /\ \A q \in Procs \ {c} : sz'[q] = sz[q]
      BY <1>2, <2>2, Numbers DEF Types
    <2>11. parent' \in [Procs -> {0} \cup Procs]
      BY <1>2, <2>2 DEF Types
    <2>12. Others' = Others \ {TFrame(c)}
      <3>1. st[c] # "UNUSED" /\ \A q \in Procs : call'[q].args = call[q].args
        BY <1>1, <1>3
      <3> QED
        BY <2>9, <3>1, OthersFewer
    <2>13. Space(p)' = Space(p) /\ Other(p)' = Other(p) /\ Space(c)' = t /\ Other(c)' = Other(c)
      BY <1>1, <2>1 DEF Space, Other
    <2>14. CallOf(p)' /\ SpaceOf(p)'
      BY <1>1, <1>2, <1>5, <2>7, <2>9, <2>10, <2>13, BackToUser
    <2>15. CallOf(c)' /\ SpaceOf(c)' /\ Copied(c)' /\ Copied(p)'
      BY <1>1, <1>5, <2>6, <2>9, <2>13 DEF CallOf, SpaceOf, Copied, Gone
    <2>16. Leaves(p, c)
      <3>1. \A q \in Procs : call[q].pc = "copy" => call[q].child \notin {p, c}
        BY <1>1, <1>3, NotCopied
      <3> QED
        BY <1>1, <1>5, <2>8, <2>9, <2>10, <3>1 DEF Leaves
    <2>17. Types'
      BY <1>1, <1>2, <2>9, <2>10, <2>11 DEF Types
    <2>18. Exact(m', Others')
      BY <2>2, <2>4, <2>12
    <2> QED
      BY <1>1, <1>5, <2>14, <2>15, <2>16, <2>17, <2>18, TwoStep
  <1> QED
    BY <1>6, <1>7, <1>8

-----------------------------------------------------------------------------
(* The first process *)

\* the memory of the first process
LEMMA InitMem ==
    ASSUME Init
    PROVE  /\ Exact(m, {TFrame(1)}) /\ DOMAIN m.leaf[<<1, 0>>] = {0, 1, 2, TRAPFRAME, TRAMPOLINE}
           /\ \A t \in Spaces : t # <<1, 0>> => Gone(m, t)
  <1>1. PICK s, vs : s = <<1, 0>> /\ vs = {0, 1, 2, TRAPFRAME, TRAMPOLINE}
    OBVIOUS
  <1>2. PICK perm : perm = [v \in vs |-> [pa |-> CASE v = TRAMPOLINE -> Text
                                               [] v = TRAPFRAME -> TFrame(1)
                                               [] OTHER -> User(s, v),
                                          w |-> v \in {1, 2, TRAPFRAME}, u |-> v \in {0, 2}]]
    OBVIOUS
  <1>3. PICK tables : tables = {Root(s)} \cup UNION {Range(Path(s, v)) : v \in vs}
    OBVIOUS
  <1>4. PICK none : none = [page |-> <<>>, corrupt |-> FALSE,
                            tab |-> [x \in Spaces |-> IF x = s THEN tables ELSE {}],
                            leaf |-> [x \in Spaces |-> IF x = s THEN perm ELSE <<>>]]
    OBVIOUS
  <1>5. PICK p1, p2, p3, m1, m2 : /\ p1 = tables \cup {User(s, 1)} /\ p2 = {User(s, 0), User(s, 2)} /\ p3 = {TFrame(1)}
                                  /\ m1 = Filled(none, p1, "zero") /\ m2 = Filled(m1, p2, "data")
    OBVIOUS
  <1>6. m = Filled(m2, p3, "junk")
    BY <1>1, <1>2, <1>3, <1>4, <1>5 DEF Init
  <1>7. /\ IsMem(none) /\ DOMAIN none.page = {} /\ none.corrupt = FALSE
        /\ none.tab = [x \in Spaces |-> IF x = s THEN tables ELSE {}]
        /\ none.leaf = [x \in Spaces |-> IF x = s THEN perm ELSE <<>>]
    BY <1>4 DEF IsMem
  <1>8. Wrote(none, m1, p1, "zero")
    BY <1>5, <1>7, FilledIs
  <1>9. Wrote(m1, m2, p2, "data")
    <2>1. IsMem(m1)
      BY <1>8 DEF Wrote
    <2> QED
      BY <1>5, <2>1, FilledIs
  <1>10. Wrote(m2, m, p3, "junk")
    <2>1. IsMem(m2)
      BY <1>9 DEF Wrote
    <2> QED
      BY <1>6, <2>1, FilledIs
  <1>11. IsMem(m) /\ m.corrupt = FALSE /\ m.tab = none.tab /\ m.leaf = none.leaf
    BY <1>7, <1>8, <1>9, <1>10 DEF Wrote
  <1>12. s \in Spaces /\ 1 \in Procs
    BY <1>1, SpacesAre
  <1>13. m.tab[s] = tables /\ m.leaf[s] = perm /\ \A t \in Spaces : t # s => m.tab[t] = {} /\ DOMAIN m.leaf[t] = {}
    BY <1>7, <1>11, <1>12
  <1>14. tables \subseteq Tables(s)
    <2>1. \A v \in vs : Path(s, v)[1] \in Tables(s) /\ Path(s, v)[2] \in Tables(s)
      BY <1>1, PathIn, Numbers
    <2>2. ASSUME NEW v \in vs, NEW x \in Range(Path(s, v)) PROVE x \in Tables(s)
      <3>1. PICK a, b : Path(s, v) = <<a, b>>
        BY DEF Path
      <3>2. x = a \/ x = b
        BY <3>1 DEF Range
      <3> QED
        BY <2>1, <3>1, <3>2
    <2> QED
      BY <1>3, <2>2, Names
  <1>15. \A v : User(s, v) \notin tables /\ TFrame(1) \notin tables /\ TFrame(1) # User(s, v)
    BY <1>14, Names
  <1>16. DOMAIN m.page = tables \cup {User(s, 0), User(s, 1), User(s, 2), TFrame(1)}
    BY <1>5, <1>7, <1>8, <1>9, <1>10 DEF Wrote
  <1>17. \A x \in DOMAIN m.page : m.page[x] = IF x = TFrame(1) THEN "junk"
                                              ELSE IF x \in {User(s, 0), User(s, 2)} THEN "data" ELSE "zero"
    <2>1. DOMAIN m1.page = p1 /\ \A x \in p1 : m1.page[x] = "zero"
      BY <1>7, <1>8 DEF Wrote
    <2>2. DOMAIN m2.page = p1 \cup p2 /\ \A x \in p1 \cup p2 : m2.page[x] = IF x \in p2 THEN "data" ELSE "zero"
      BY <1>9, <2>1 DEF Wrote
    <2>3. \A x \in DOMAIN m.page : m.page[x] = IF x \in p3 THEN "junk" ELSE IF x \in p2 THEN "data" ELSE "zero"
      BY <1>10, <2>2 DEF Wrote
    <2> QED
      BY <1>5, <2>3
  <1>18. /\ DOMAIN perm = vs /\ Heap(m, s) = {0, 1, 2} /\ vs \subseteq 0..TRAMPOLINE
         /\ \A v \in {0, 1, 2} : perm[v].pa = User(s, v)
    BY <1>1, <1>2, <1>13, Numbers DEF Heap
  <1>19. SpaceOK(m, s)
    <2>1. \A v \in {0, 1, 2} : User(s, v) \in DOMAIN m.page /\ m.page[User(s, v)] \in {"zero", "data"}
      BY <1>15, <1>16, <1>17
    <2>2. \A t \in tables : t \in DOMAIN m.page /\ m.page[t] = "zero"
      BY <1>15, <1>16, <1>17
    <2> QED
      BY <1>13, <1>14, <1>18, <2>1, <2>2 DEF SpaceOK
  <1>20. ASSUME NEW t \in Spaces, t # s PROVE SpaceOK(m, t) /\ Gone(m, t) /\ Pages(m, t) = {}
    BY <1>13, <1>20 DEF SpaceOK, Gone, Pages, Heap
  <1>21. Loose(m, p3)
    <2>1. \A t \in Spaces : TFrame(1) \notin Tables(t)
      BY Names
    <2>2. TFrame(1) \notin Pages(m, s)
      BY <1>13, <1>15 DEF Pages
    <2> QED
      BY <1>5, <1>20, <2>1, <2>2 DEF Loose
  <1>22. \A x \in DOMAIN m.page : m.page[x] \in {"junk", "zero", "data"} /\ (x \in p3 \/ x \in Pages(m, s))
    BY <1>5, <1>13, <1>16, <1>17, <1>18 DEF Pages
  <1>23. p3 \subseteq DOMAIN m.page
    BY <1>5, <1>16
  <1>24. Exact(m, p3)
    BY <1>11, <1>12, <1>19, <1>20, <1>21, <1>22, <1>23 DEF Exact
  <1> QED
    BY <1>1, <1>5, <1>13, <1>18, <1>20, <1>24

LEMMA InitStep == ASSUME Init PROVE IInv
  <1>1. /\ st = [p \in Procs |-> IF p = 1 THEN "LIVE" ELSE "UNUSED"]
        /\ sz = [p \in Procs |-> IF p = 1 THEN 3 * PGSIZE ELSE 0]
        /\ pt = [p \in Procs |-> 0] /\ parent = [p \in Procs |-> 0] /\ call = [p \in Procs |-> User0]
    BY DEF Init
  <1>2. 3 * PGSIZE \in 0..MaxSize /\ 0 \in 0..MaxSize /\ PagesOf(3 * PGSIZE) = 3
    <2>1. PGSIZE \in Nat /\ TRAPFRAME \in Nat /\ 3 <= TRAPFRAME /\ MaxSize \in Nat /\ MaxSize = TRAPFRAME * PGSIZE
      BY Numbers
    <2>2. PGSIZE * 3 <= PGSIZE * TRAPFRAME
      BY <2>1, Larger
    <2>3. PagesOf(3 * PGSIZE) = 3
      BY PagesEven
    <2> QED
      BY <2>1, <2>2, <2>3
  <1>3. Types
    BY <1>1, <1>2, User0Is DEF Types
  <1>4. /\ Exact(m, {TFrame(1)}) /\ DOMAIN m.leaf[<<1, 0>>] = {0, 1, 2, TRAPFRAME, TRAMPOLINE}
        /\ \A t \in Spaces : t # <<1, 0>> => Gone(m, t)
    BY InitMem
  <1>5. Others = {TFrame(1)}
    <2>1. \A p \in Procs : call[p].args = 0
      BY <1>1, User0Is
    <2>2. \A p \in Procs : \A i : i \notin 1..call[p].args
      BY <2>1
    <2>3. \A p \in Procs : st[p] # "UNUSED" <=> p = 1
      BY <1>1
    <2> QED
      BY <2>2, <2>3, OthersAre, SpacesAre
  <1>6. ASSUME NEW p \in Procs PROVE CallOf(p) /\ SpaceOf(p) /\ Copied(p)
    <2>1. call[p] = User0 /\ Space(p) = <<p, 0>> /\ Other(p) = <<p, 1>>
      BY <1>1 DEF Space, Other
    <2>2. <<p, 0>> \in Spaces /\ <<p, 1>> \in Spaces
      BY SpacesAre
    <2>3. Gone(m, Other(p)) /\ (p # 1 => Gone(m, Space(p)))
      BY <1>4, <2>1, <2>2
    <2>4. CallOf(p) /\ Copied(p)
      BY <2>1, User0Is DEF CallOf, Copied
    <2>5. p = 1 => sz[p] = 3 * PGSIZE /\ Below(m, Space(p), 3)
      BY <1>1, <1>4, <2>1 DEF Below, Heap
    <2>6. SpaceOf(p)
      <3>1. CASE p = 1
        BY <1>1, <1>2, <2>1, <2>3, <2>5, <3>1 DEF SpaceOf
      <3>2. CASE p # 1
        BY <1>1, <2>3, <3>2 DEF SpaceOf
      <3> QED
        BY <3>1, <3>2
    <2> QED
      BY <2>4, <2>6
  <1> QED
    BY <1>3, <1>4, <1>5, <1>6 DEF IInv

-----------------------------------------------------------------------------
(* The theorems *)

LEMMA ExecStep == ASSUME IInv, NEW p \in Procs, Exec(p) PROVE IInv' /\ ExecFrame
  BY ExecStartStep, FetchArgStep, ExecOpenStep, LoadSegmentStep, SegmentPageStep, LoadSegStep,
     AllocStackStep, StackPageStep, CommitStep DEF Exec

LEMMA Same0 == ASSUME IInv, UNCHANGED vars PROVE IInv' /\ ExecFrame
  <1>1. m' = m /\ st' = st /\ sz' = sz /\ pt' = pt /\ parent' = parent /\ call' = call
    BY DEF vars
  <1>2. Types' /\ Others' = Others
    BY <1>1, OthersSame DEF IInv, Types
  <1>3. \A p \in Procs : CallOf(p)'
    BY <1>1 DEF IInv, CallOf, Space, Other
  <1>4. \A p \in Procs : SpaceOf(p)'
    BY <1>1 DEF IInv, SpaceOf, Space, Other
  <1>5. \A p \in Procs : Copied(p)'
    BY <1>1 DEF IInv, Copied, Space, Other
  <1>6. Exact(m', Others')
    BY <1>1, <1>2 DEF IInv
  <1>7. ExecFrame
    BY <1>1, LeafHolding DEF ExecFrame
  <1> QED
    BY <1>2, <1>3, <1>4, <1>5, <1>6, <1>7 DEF IInv

LEMMA NextStep == ASSUME IInv, [Next]_vars PROVE IInv' /\ ExecFrame
  <1>1. CASE UNCHANGED vars
    BY <1>1, Same0
  <1>2. CASE Next
    <2>1. PICK p \in Procs :
            \/ PageFault(p) \/ Kexit(p)
            \/ Sbrk(p) \/ SbrkPage(p) \/ SbrkDone(p)
            \/ Exec(p)
            \/ Fork(p) \/ CopyPage(p) \/ Forked(p) \/ Kwait(p)
      BY <1>2 DEF Next
    <2> QED
      BY <2>1, PageFaultStep, KexitStep, SbrkStep, SbrkPageStep, SbrkDoneStep, ExecStep,
         ForkStep, CopyPageStep, ForkedStep, KwaitStep
  <1> QED
    BY <1>1, <1>2

\* The memory of the processes is what the calls of vm.c say it is, between
\* any two of them.
THEOREM Invariance == Spec => []IInv
  <1>1. Init => IInv
    BY InitStep
  <1>2. IInv /\ [Next]_vars => IInv'
    BY NextStep
  <1> QED
    BY <1>1, <1>2, PTL DEF Spec

\* A process makes the calls of its workload and no other.
LEMMA SameWork == Spec => [](work \in Workloads)
  <1>1. Init => work \in Workloads
    BY DEF Init
  <1>2. work \in Workloads /\ [Next]_vars => (work \in Workloads)'
    BY DEF Next, vars
  <1> QED
    BY <1>1, <1>2, PTL DEF Spec

\* the properties follow from the invariant
LEMMA InvHolds == ASSUME IInv, work \in Workloads PROVE Inv
  <1>1. Types /\ Exact(m, Others)
    BY DEF IInv
  <1>2. TypeOK
    <2>1. \A p \in Procs : call[p].pc \in {"user", "sbrk", "args", "load", "seg", "stack", "copy"}
      BY <1>1, CallParts DEF Pcs
    <2>2. parent \in [Procs -> 0..N]
      <3>1. {0} \cup Procs \subseteq 0..N
        BY VmAssumption DEF Procs
      <3> QED
        BY <1>1, <3>1 DEF Types
    <2>3. \A s \in Spaces : DOMAIN m.leaf[s] \subseteq 0..TRAMPOLINE
      BY <1>1 DEF Exact, SpaceOK
    <2>4. m.corrupt \in BOOLEAN /\ \A pa \in DOMAIN m.page : m.page[pa] \in {"junk", "zero", "data"}
      BY <1>1 DEF Exact
    <2> QED
      BY <1>1, <2>1, <2>2, <2>3, <2>4 DEF TypeOK, Types
  <1>3. NoPanic
    BY <1>1 DEF NoPanic, Exact
  <1>4. FitsSize
    BY DEF IInv, SpaceOf, FitsSize, Below
  <1>5. NoJunk
    <2>1. ASSUME NEW s \in Spaces, NEW v \in Heap(m, s) PROVE m.page[m.leaf[s][v].pa] # "junk"
      BY <1>1, <2>1 DEF Exact, SpaceOK
    <2>2. \A s \in Spaces : \A t \in m.tab[s] : m.page[t] = "zero"
      BY <1>1 DEF Exact, SpaceOK
    <2> QED
      BY <2>1, <2>2 DEF NoJunk
  <1> QED
    BY <1>2, <1>3, <1>4, <1>5 DEF Inv

LEMMA OnceHolds == ASSUME IInv PROVE OwnedOnce
  <1>1. Exact(m, Others)
    BY DEF IInv
  <1> DEFINE maps == UNION {{<<s, v>> : v \in Heap(m, s)} : s \in Spaces}
             pa(x) == m.leaf[x[1]][x[2]].pa
             used == {pa(x) : x \in maps}
             tabs == UNION {m.tab[s] : s \in Spaces}
             frames == {TFrame(p) : p \in {q \in Procs : st[q] # "UNUSED"}}
             args == UNION {ArgPages(p) : p \in Procs}
  <1>2. ASSUME NEW x \in maps PROVE x = <<x[1], x[2]>> /\ x[1] \in Spaces /\ x[2] \in Heap(m, x[1]) /\ pa(x) = User(x[1], x[2])
    <2>1. PICK s \in Spaces : x \in {<<s, v>> : v \in Heap(m, s)}
      OBVIOUS
    <2>2. PICK v \in Heap(m, s) : x = <<s, v>>
      BY <2>1
    <2>3. m.leaf[s][v].pa = User(s, v)
      BY <1>1 DEF Exact, SpaceOK
    <2> QED
      BY <2>2, <2>3
  <1>3. ASSUME NEW s \in Spaces, NEW v \in Heap(m, s) PROVE <<s, v>> \in maps /\ pa(<<s, v>>) = User(s, v)
    BY <1>1 DEF Exact, SpaceOK
  <1> HIDE DEF maps, pa
  <1>4. \A x, y \in maps : pa(x) = pa(y) => x = y
    BY <1>2, Names
  <1>5. \A x : x \in used <=> \E s \in Spaces : \E v \in Heap(m, s) : x = User(s, v)
    BY <1>2, <1>3
  <1>6. \A x : x \in tabs <=> \E s \in Spaces : x \in m.tab[s]
    OBVIOUS
  <1>a. Others = frames \cup args
    BY DEF Others
  <1> HIDE DEF used, tabs, frames, args
  <1>7. \A x : x \in DOMAIN m.page <=> x \in used \/ x \in tabs \/ x \in Others
    <2>1. \A x : x \in DOMAIN m.page <=> x \in Others \/ \E s \in Spaces : x \in Pages(m, s)
      BY <1>1 DEF Exact, SpaceOK, Pages
    <2>2. \A s \in Spaces : \A x : x \in Pages(m, s) <=> x \in m.tab[s] \/ \E v \in Heap(m, s) : x = User(s, v)
      BY DEF Pages
    <2> QED
      BY <1>5, <1>6, <2>1, <2>2
  <1>8. DOMAIN m.page = used \cup tabs \cup frames \cup args
    BY <1>a, <1>7
  <1>9. \A x, y \in maps : pa(x) = pa(y) => x = y
    BY <1>4
  <1> QED
    BY <1>8, <1>9 DEF OwnedOnce, maps, pa, used, tabs, frames, args

\* vm.c's calls: no panic, no page above a process's size, none with another's
\* contents, whatever runs out.
THEOREM SpacesSound == Spec => []Inv
  <1>1. IInv /\ work \in Workloads => Inv
    BY InvHolds
  <1> QED
    BY <1>1, Invariance, SameWork, PTL

\* kalloc() and kfree(): no page is lost, and none has two users.
THEOREM PagesOwnedOnce == Spec => []OwnedOnce
  <1>1. IInv => OwnedOnce
    BY OnceHolds
  <1> QED
    BY <1>1, Invariance, PTL

\* Until kexec() commits, a process keeps its size and every page it had.
THEOREM ExecKeeps == Spec => ExecKeepsOld
  <1>1. IInv /\ [Next]_vars =>
          [\A p \in Procs :
             call[p].pc \in {"args", "load", "seg", "stack"} /\ pt'[p] = pt[p] =>
               /\ sz'[p] = sz[p]
               /\ \A v \in Heap(m, Space(p)) :
                    /\ v \in Heap(m', Space(p))
                    /\ m'.leaf[Space(p)][v] = m.leaf[Space(p)][v]]_vars
    BY NextStep DEF ExecFrame, ExecPcs, Holding
  <1> QED
    BY <1>1, Invariance, PTL DEF Spec, ExecKeepsOld

\* only the end of fork() makes a child run
LEMMA OnlyForked ==
    ASSUME IInv, Next, NEW c \in Procs, st[c] = "USED", st'[c] = "LIVE"
    PROVE  \E p \in Procs : Forked(p) /\ c = call[p].child
  <1>1. PICK p \in Procs :
          \/ PageFault(p) \/ Kexit(p)
          \/ Sbrk(p) \/ SbrkPage(p) \/ SbrkDone(p)
          \/ Exec(p)
          \/ Fork(p) \/ CopyPage(p) \/ Forked(p) \/ Kwait(p)
    BY DEF Next
  <1>2. st \in [Procs -> {"UNUSED", "USED", "LIVE", "ZOMBIE"}] /\ st' # st
    BY DEF IInv, Types
  <1>3. CASE \/ PageFault(p) \/ Kexit(p)
    BY <1>2, <1>3 DEF PageFault, Kexit, Exits, SameProcs
  <1>4. CASE \/ Sbrk(p) \/ SbrkPage(p) \/ SbrkDone(p)
    BY <1>2, <1>4 DEF Sbrk, Shrink, GrowLazy, GrowEager, SbrkPage, SbrkDone, NextPage, SameProcs
  <1>5. CASE Exec(p)
    <2>1. CASE ExecStart(p) \/ FetchArg(p) \/ ExecOpen(p)
      BY <1>2, <2>1 DEF ExecStart, FetchArg, ExecOpen, ExecFails, SameProcs
    <2>2. CASE LoadSegment(p) \/ SegmentPage(p) \/ LoadSeg(p)
      BY <1>2, <2>2 DEF LoadSegment, SegmentPage, LoadSeg, Bad, ExecFails, NextPage, SameProcs
    <2>3. CASE AllocStack(p) \/ StackPage(p) \/ Commit(p)
      BY <1>2, <2>3 DEF AllocStack, StackPage, Commit, Bad, ExecFails, NextPage, SameProcs
    <2> QED
      BY <1>5, <2>1, <2>2, <2>3 DEF Exec
  <1>6. CASE Fork(p)
    BY <1>2, <1>6 DEF Fork
  <1>7. CASE CopyPage(p)
    BY <1>2, <1>7 DEF CopyPage
  <1>8. CASE Kwait(p)
    BY <1>2, <1>8 DEF Kwait
  <1>9. CASE Forked(p)
    BY <1>2, <1>9 DEF Forked
  <1> QED
    BY <1>1, <1>3, <1>4, <1>5, <1>6, <1>7, <1>8, <1>9

\* at the end of uvmcopy()'s loop all of the parent's memory has been copied
LEMMA ForkedCopies ==
    ASSUME IInv, NEW p \in Procs, Forked(p), NEW c, c = call[p].child
    PROVE  /\ parent'[c] = p /\ sz'[c] = sz[p]
           /\ Heap(m', Space(c)) = Heap(m, Space(p))
           /\ \A v \in Heap(m, Space(p)) :
                /\ m'.leaf[Space(c)][v].w = m.leaf[Space(p)][v].w
                /\ m'.leaf[Space(c)][v].u = m.leaf[Space(p)][v].u
                /\ m'.page[m'.leaf[Space(c)][v].pa] = m.page[m.leaf[Space(p)][v].pa]
  <1>1. /\ At(p, "copy") /\ call[p].a * PGSIZE >= sz[p] /\ m' = m
        /\ sz' = [sz EXCEPT ![c] = sz[p]] /\ parent' = [parent EXCEPT ![c] = p]
    BY DEF Forked
  <1>2. /\ c \in Procs /\ call[p].pc = "copy" /\ Types /\ Exact(m, Others) /\ sz[p] \in 0..MaxSize
        /\ call[p].a \in Nat /\ call[p].a <= PagesOf(sz[p])
        /\ Below(m, Space(c), call[p].a) /\ Below(m, Space(p), PagesOf(sz[p]))
        /\ Space(p) \in Spaces /\ Space(c) \in Spaces
    BY <1>1, Copying
  <1>3. call[p].a = PagesOf(sz[p])
    <2>1. PICK a, n : a = call[p].a /\ n = sz[p]
      OBVIOUS
    <2>2. a \in Nat /\ n \in Nat /\ PGSIZE \in Nat /\ a * PGSIZE >= n
      BY <1>1, <1>2, <2>1, Numbers
    <2>3. ~(a * PGSIZE < n)
      BY <2>2
    <2>4. PagesOf(n) \in Nat /\ ~(a < PagesOf(n))
      BY <2>2, <2>3, PagesLess
    <2> QED
      BY <1>2, <2>1, <2>2, <2>4
  <1>4. /\ \A v \in 0..call[p].a - 1 : v \in Heap(m, Space(p)) <=> v \in Heap(m, Space(c))
        /\ \A v \in Heap(m, Space(c)) : /\ m.leaf[Space(c)][v].w = m.leaf[Space(p)][v].w
                                         /\ m.leaf[Space(c)][v].u = m.leaf[Space(p)][v].u
                                         /\ m.page[User(Space(c), v)] = m.page[User(Space(p), v)]
    BY <1>2 DEF IInv, Copied
  <1>5. Heap(m, Space(c)) = Heap(m, Space(p))
    BY <1>2, <1>3, <1>4 DEF Below
  <1>6. \A v \in Heap(m, Space(p)) : /\ m.leaf[Space(p)][v].pa = User(Space(p), v)
                                      /\ m.leaf[Space(c)][v].pa = User(Space(c), v)
    BY <1>2, <1>5 DEF Exact, SpaceOK
  <1>7. parent'[c] = p /\ sz'[c] = sz[p]
    BY <1>1, <1>2 DEF Types
  <1> QED
    BY <1>1, <1>4, <1>5, <1>6, <1>7

\* uvmcopy(): a child starts with its parent's memory, holes and all.
THEOREM ChildCopies == Spec => ForkCopies
  <1>1. ASSUME IInv, Next, NEW c \in Procs, st[c] = "USED", st'[c] = "LIVE"
        PROVE  LET p == parent'[c]
                   old == m.leaf[Space(p)]
                   new == m'.leaf[Space(c)]
               IN /\ sz'[c] = sz[p]
                  /\ Heap(m', Space(c)) = Heap(m, Space(p))
                  /\ \A v \in Heap(m, Space(p)) :
                       /\ new[v].w = old[v].w /\ new[v].u = old[v].u
                       /\ m'.page[new[v].pa] = m.page[old[v].pa]
    <2>1. PICK p \in Procs : Forked(p) /\ c = call[p].child
      BY <1>1, OnlyForked
    <2> QED
      BY <1>1, <2>1, ForkedCopies
  <1>2. IInv /\ [Next]_vars =>
          [\A c \in Procs : st[c] = "USED" /\ st'[c] = "LIVE" =>
             LET p == parent'[c]
                 old == m.leaf[Space(p)]
                 new == m'.leaf[Space(c)]
             IN /\ sz'[c] = sz[p]
                /\ Heap(m', Space(c)) = Heap(m, Space(p))
                /\ \A v \in Heap(m, Space(p)) :
                     /\ new[v].w = old[v].w /\ new[v].u = old[v].u
                     /\ m'.page[new[v].pa] = m.page[old[v].pa]]_vars
    BY <1>1
  <1> QED
    BY <1>2, Invariance, PTL DEF Spec, ForkCopies
=============================================================================

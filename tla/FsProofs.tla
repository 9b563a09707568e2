------------------------------ MODULE FsProofs ------------------------------
(***************************************************************************)
(* Inodes, directories and path names (module Fs), for any number of       *)
(* processes, inodes, names and paths: the reference counts, the locks and *)
(* the links of the tree that names make, through crashes and ireclaim().  *)
(***************************************************************************)
EXTENDS Fs, FiniteSetTheorems, SequenceTheorems, TLAPS

-----------------------------------------------------------------------------
(* The inductive invariant *)

\* where a process goes on after the iput() it is in
Putting == {"put", "trunc", "unref", "ifree"}
Place(p) == IF pc[p] \in Putting THEN ret[p] ELSE pc[p]
Returns == {"walk", "found", "second", "bad", "existing", "created", "unlinked",
            "failed", "end"}
Pcs == Returns \cup Putting \cup {"off", "reclaim", "idle", "parent", "unlink"}

Types ==
    /\ type \in [Inodes -> {"free", "dir", "file"}]
    /\ nlink \in [Inodes -> Int]
    /\ ents \in [Inodes -> [Elems -> Inodes \cup {0}]]
    /\ ref \in [Inodes -> Int] /\ valid \in [Inodes -> BOOLEAN]
    /\ lock \in [Inodes -> 0..N]
    /\ cwd \in [Procs -> Inodes \cup {0}] /\ ofile \in [Procs -> Inodes \cup {0}]
    /\ cur \in [Procs -> Inodes \cup {0}] /\ ip \in [Procs -> Inodes \cup {0}]
    /\ victim \in [Procs -> Inodes \cup {0}]
    /\ pc \in [Procs -> Pcs]
    /\ op \in [Procs -> Calls \cup {"none", "reclaim"}]
    /\ path \in [Procs -> Seq(Elems)]
    /\ ret \in [Procs -> Returns \cup {"idle"}]
    /\ fresh \in Nat \ {0} /\ work \in Workloads

\* what a call has at each place: cur and ip, a path, and room for an open file
CallOf(p) ==
    /\ pc[p] \in Putting <=> victim[p] # 0
    /\ pc[p] \in Putting => ret[p] \in Returns
    /\ cur[p] # 0 <=> Place(p) \in {"walk", "found", "parent", "unlink", "failed"}
    /\ Place(p) \in {"second", "bad", "existing", "created", "unlink", "unlinked"} => ip[p] # 0
    /\ ip[p] # 0 /\ Place(p) \notin {"second", "bad", "existing", "created", "unlink", "unlinked"} =>
          Place(p) \in {"walk", "parent"} /\ op[p] = "link"
    /\ Place(p) \in {"walk", "parent", "unlink"} => path[p] # <<>>
    /\ pc[p] = "off" <=> cwd[p] = 0
    /\ pc[p] = "off" => ofile[p] = 0
    /\ Place(p) = "walk" => op[p] \in Calls \ {"close"}
    /\ Place(p) = "found" => op[p] \in {"open", "chdir", "link"}
    /\ Place(p) = "parent" => op[p] \in {"creat", "mkdir", "unlink"} \/ ip[p] # 0
    /\ Place(p) \in {"second", "bad"} => op[p] = "link"
    /\ Place(p) \in {"existing", "created"} => op[p] \in Creates
    /\ Place(p) \in {"unlink", "unlinked"} => op[p] = "unlink"
    /\ Place(p) = "failed" => op[p] # "link"
    /\ Place(p) \in {"walk", "found", "parent", "existing", "created"}
          /\ op[p] \in {"open", "creat"} => ofile[p] = 0
CallInv == \A p \in Procs : CallOf(p)

\* while the machine starts there is one process, and it reclaims orphans
Starting == /\ \A p \in Procs \ {1} : pc[p] = "off"
            /\ pc[1] = "reclaim" \/ (op[1] = "reclaim" /\ Place(1) = "end")
Started == /\ \A p \in Procs : pc[p] \notin {"off", "reclaim"} /\ op[p] # "reclaim"
           /\ fresh \notin Inodes
BootInv == Starting \/ Started

\* references are counted one by one, and an inode in use is not free
Num(f, i) == Cardinality({p \in Procs : f[p] = i})
Victim == [p \in Procs |-> IF pc[p] = "ifree" THEN 0 ELSE victim[p]]
RefInv == \A i \in Inodes :
    /\ ref[i] = Num(cwd, i) + Num(ofile, i) + Num(cur, i) + Num(ip, i) + Num(Victim, i)
    /\ ref[i] > 0 => type[i] # "free"

\* who holds the lock of an inode
Holder(p, i) ==
    \/ Place(p) \in {"unlink", "failed"} /\ cur[p] = i
    \/ Place(p) \in {"unlinked", "created"} /\ ip[p] = i
    \/ pc[p] = "trunc" /\ victim[p] = i
LockInv == \A i \in Inodes, p \in Procs : lock[i] = p <=> Holder(p, i)

\* what a process that is freeing an inode has made sure of
FreeInv == \A p \in Procs :
    /\ pc[p] \in {"trunc", "unref", "ifree"} =>
          /\ type[victim[p]] # "free" /\ nlink[victim[p]] = 0
          /\ ref[victim[p]] = IF pc[p] = "ifree" THEN 0 ELSE 1
    /\ pc[p] = "trunc" => valid[victim[p]]
    /\ \A q \in Procs : pc[p] = "ifree" /\ pc[q] = "ifree" /\ victim[p] = victim[q] => p = q

\* directories that are removed, but for their link count
Removing == {ip[p] : p \in {q \in Procs : Place(q) = "unlinked"}}

\* links that nlink counts and no directory has: one to come, or one that went
Owes(p) == \/ Place(p) = "unlinked"
           \/ op[p] = "link" /\ Place(p) \in {"walk", "parent", "bad"}
Owed == [p \in Procs |-> IF Owes(p) THEN ip[p] ELSE 0]

\* a directory that calls may use, the entries of such that lead to an inode
LiveDir(ty, nl, out, d) == d \in Inodes /\ ty[d] = "dir" /\ nl[d] > 0 /\ d \notin out
Into(ty, nl, en, out, i) ==
    {e \in Inodes \X Elems : /\ LiveDir(ty, nl, out, e[1]) /\ en[e[1]][e[2]] = i
                             /\ ~(e[1] = Root /\ e[2] = "..")}

\* names lead down from the root, one to each directory, and ".." back up
DirOk(ty, nl, en, out, d) ==
    /\ LiveDir(ty, nl, out, en[d][".."])
    /\ d # Root => \E n \in Names : en[en[d][".."]][n] = d
    /\ \A n \in Names : en[d][n] # 0 =>
          /\ ty[en[d][n]] # "free" /\ en[d][n] # Root
          /\ ty[en[d][n]] = "dir" =>
                /\ LiveDir(ty, nl, out, en[d][n]) /\ en[en[d][n]][".."] = d
                /\ \A m \in Names : en[d][m] = en[d][n] => m = n
Tree(ty, nl, en, out) ==
    /\ LiveDir(ty, nl, out, Root) /\ en[Root][".."] = Root
    /\ \A d \in Inodes : LiveDir(ty, nl, out, d) => DirOk(ty, nl, en, out, d)

\* a removed directory is empty
Empty(ty, nl, en) == \A d \in Inodes, n \in Names : ty[d] = "dir" /\ nl[d] = 0 => en[d][n] = 0

\* nlink is what leads to an inode, and what some calls still owe it
One(a, b) == IF a = b THEN 1 ELSE 0
Counted(ty, nl, en, out, owed) == \A i \in Inodes : ty[i] # "free" =>
    nl[i] = Cardinality(Into(ty, nl, en, out, i)) + Num(owed, i) + One(i, Root)

\* what the disk has is a tree that no call is about to change
Nobody == [p \in Procs |-> 0]
Sound(im) ==
    /\ im \in [type : [Inodes -> {"free", "dir", "file"}], nlink : [Inodes -> Nat],
               ents : [Inodes -> [Elems -> Inodes \cup {0}]]]
    /\ Tree(im.type, im.nlink, im.ents, {}) /\ Empty(im.type, im.nlink, im.ents)
    /\ Counted(im.type, im.nlink, im.ents, {}, Nobody)

TreeInv ==
    /\ Tree(type, nlink, ents, Removing) /\ Empty(type, nlink, ents)
    /\ Counted(type, nlink, ents, Removing, Owed)
    /\ \A i \in Inodes : nlink[i] >= 0

\* what a call knows of the inodes it has a reference to
NodeOf(p) ==
    /\ Place(p) \in {"parent", "unlink", "failed"} => type[cur[p]] = "dir"
    /\ Place(p) = "unlink" => Name(p) \in Names /\ ents[cur[p]][Name(p)] = ip[p]
    /\ Place(p) = "unlinked" /\ type[ip[p]] = "dir" => isdirempty(ip[p])
    /\ op[p] = "link" /\ ip[p] # 0 => type[ip[p]] # "dir"
    /\ Owes(p) /\ ip[p] # 0 => valid[ip[p]]
NodeInv == \A p \in Procs : NodeOf(p)

\* an inode without links is in use and has been read, or is being freed, or is
\* still to be found by ireclaim()
OrphanInv == \A i \in Inodes : Orphan(i) =>
    \/ ref[i] > 0 /\ valid[i]
    \/ \E p \in Procs : pc[p] \in {"unref", "ifree"} /\ victim[p] = i
    \/ fresh <= i

IInv == /\ Types /\ CallInv /\ BootInv /\ RefInv /\ LockInv /\ FreeInv
        /\ TreeInv /\ Sound(committed) /\ NodeInv /\ OrphanInv

-----------------------------------------------------------------------------
(* What the constants give, and counting *)

LEMMA Consts ==
    /\ IsFiniteSet(Procs) /\ 1 \in Procs /\ 0 \notin Procs /\ Procs \subseteq Nat
    /\ IsFiniteSet(Inodes) /\ Root \in Inodes /\ 0 \notin Inodes /\ Inodes \subseteq Nat
    /\ ".." \in Elems /\ Names \subseteq Elems /\ IsFiniteSet(Elems) /\ ".." \notin Names
  <1>1. N \in Nat \ {0} /\ IsFiniteSet(Inodes) /\ Inodes = 1..Cardinality(Inodes) /\ Root \in Inodes
        /\ IsFiniteSet(Names) /\ ".." \notin Names
    BY FsAssumption
  <1>2. Cardinality(Inodes) \in Nat
    BY <1>1, FS_CardinalityType
  <1>3. IsFiniteSet(Procs)
    BY <1>1, FS_Interval DEF Procs
  <1>4. IsFiniteSet(Elems)
    BY <1>1, FS_AddElement DEF Elems
  <1> QED
    BY <1>1, <1>2, <1>3, <1>4 DEF Procs, Elems

LEMMA NumNat == ASSUME NEW f, NEW i PROVE Num(f, i) \in Nat
  <1>1. IsFiniteSet({p \in Procs : f[p] = i})
    BY Consts, FS_Subset
  <1> QED
    BY <1>1, FS_CardinalityType DEF Num

\* one process lets go of one inode, and takes another
LEMMA NumMoves ==
    ASSUME NEW f, NEW g, NEW p \in Procs, NEW i, \A q \in Procs \ {p} : g[q] = f[q]
    PROVE  Num(g, i) = Num(f, i) - One(f[p], i) + One(g[p], i)
  <1> DEFINE F == {q \in Procs : f[q] = i}
             G == {q \in Procs : g[q] = i}
  <1>1. IsFiniteSet(F) /\ IsFiniteSet(G)
    BY Consts, FS_Subset
  <1>2. F \ {p} = G \ {p}
    OBVIOUS
  <1>3. /\ Cardinality(F \ {p}) = IF p \in F THEN Cardinality(F) - 1 ELSE Cardinality(F)
        /\ Cardinality(G \ {p}) = IF p \in G THEN Cardinality(G) - 1 ELSE Cardinality(G)
    BY <1>1, FS_RemoveElement
  <1>4. Cardinality(F) \in Nat /\ Cardinality(G) \in Nat
    BY <1>1, FS_CardinalityType
  <1>5. (p \in F <=> f[p] = i) /\ (p \in G <=> g[p] = i)
    OBVIOUS
  <1> HIDE DEF F, G
  <1>6. One(f[p], i) \in {0, 1} /\ One(g[p], i) \in {0, 1}
    BY DEF One
  <1>7. (p \in F <=> One(f[p], i) = 1) /\ (p \in G <=> One(g[p], i) = 1)
    BY <1>5 DEF One
  <1>8. (IF p \in F THEN Cardinality(F) - 1 ELSE Cardinality(F)) =
           (IF p \in G THEN Cardinality(G) - 1 ELSE Cardinality(G))
    BY <1>2, <1>3
  <1>9. Cardinality(G) = Cardinality(F) - One(f[p], i) + One(g[p], i)
    BY <1>4, <1>6, <1>7, <1>8
  <1> QED
    BY <1>9 DEF Num, F, G

LEMMA NumPos ==
    ASSUME NEW f, NEW p \in Procs
    PROVE  Num(f, f[p]) > 0
  <1> DEFINE F == {q \in Procs : f[q] = f[p]}
  <1>1. IsFiniteSet(F) /\ p \in F
    BY Consts, FS_Subset
  <1>2. Cardinality(F) \in Nat /\ Cardinality(F) # 0
    BY <1>1, FS_CardinalityType, FS_EmptySet
  <1> QED
    BY <1>2 DEF Num

LEMMA NumTwo ==
    ASSUME NEW f, NEW p \in Procs, NEW q \in Procs, p # q, f[p] = f[q]
    PROVE  Num(f, f[p]) > 1
  <1> DEFINE F == {x \in Procs : f[x] = f[p]}
  <1>1. IsFiniteSet(F) /\ p \in F /\ q \in F \ {p} /\ IsFiniteSet(F \ {p})
    BY Consts, FS_Subset, FS_RemoveElement
  <1>2. Cardinality(F \ {p}) = Cardinality(F) - 1 /\ Cardinality(F \ {p}) \in Nat /\ Cardinality(F) \in Nat
    BY <1>1, FS_RemoveElement, FS_CardinalityType
  <1>3. Cardinality(F \ {p}) # 0
    BY <1>1, FS_EmptySet
  <1> QED
    BY <1>2, <1>3 DEF Num

LEMMA NumZero ==
    ASSUME NEW f, NEW i, \A p \in Procs : f[p] # i
    PROVE  Num(f, i) = 0
  <1>1. {p \in Procs : f[p] = i} = {}
    OBVIOUS
  <1> QED
    BY <1>1, FS_EmptySet DEF Num

\* all processes but one
LEMMA NumAll ==
    ASSUME NEW f, NEW p \in Procs, NEW i, \A q \in Procs : f[q] = i
    PROVE  Num(f, i) = N
  <1>1. {q \in Procs : f[q] = i} = Procs
    OBVIOUS
  <1>2. N \in Nat /\ N >= 1
    BY FsAssumption
  <1>3. Cardinality(1..N) = IF 1 > N THEN 0 ELSE N - 1 + 1
    BY <1>2, FS_Interval
  <1>4. Cardinality(Procs) = N
    BY <1>2, <1>3 DEF Procs
  <1> QED
    BY <1>1, <1>4 DEF Num

LEMMA NumOnly ==
    ASSUME NEW f, NEW p \in Procs, NEW i, f[p] = i, \A q \in Procs \ {p} : f[q] # i
    PROVE  Num(f, i) = 1
  <1>1. {q \in Procs : f[q] = i} = {p}
    OBVIOUS
  <1> QED
    BY <1>1, FS_Singleton DEF Num

LEMMA NumSame ==
    ASSUME NEW f, NEW g, NEW i, \A p \in Procs : f[p] = i <=> g[p] = i
    PROVE  Num(f, i) = Num(g, i)
  <1>1. {p \in Procs : f[p] = i} = {p \in Procs : g[p] = i}
    OBVIOUS
  <1> QED
    BY <1>1 DEF Num

-----------------------------------------------------------------------------
(* The users of an inode are those that Num counts *)

UsersOf(c, o, u, t, v, i) ==
    {<<p, "cwd">>    : p \in {p \in Procs : c[p] = i}} \cup
    {<<p, "ofile">>  : p \in {p \in Procs : o[p] = i}} \cup
    {<<p, "cur">>    : p \in {p \in Procs : u[p] = i}} \cup
    {<<p, "ip">>     : p \in {p \in Procs : t[p] = i}} \cup
    {<<p, "victim">> : p \in {p \in Procs : v[p] = i}}

LEMMA Tagged ==
    ASSUME NEW S, IsFiniteSet(S), NEW tag
    PROVE  /\ IsFiniteSet({<<p, tag>> : p \in S})
           /\ Cardinality({<<p, tag>> : p \in S}) = Cardinality(S)
  <1> DEFINE T == {<<p, tag>> : p \in S}
             f == [p \in S |-> <<p, tag>>]
  <1>1. f \in Bijection(S, T)
    <2>1. f \in [S -> T]
      OBVIOUS
    <2>2. \A a, b \in S : f[a] = f[b] => a = b
      OBVIOUS
    <2>3. \A t \in T : \E a \in S : f[a] = t
      OBVIOUS
    <2> HIDE DEF f, T
    <2> QED
      BY <2>1, <2>2, <2>3 DEF Bijection, Injection, Surjection, IsInjective
  <1> HIDE DEF f, T
  <1>2. ExistsBijection(S, T)
    BY <1>1 DEF ExistsBijection
  <1>3. IsFiniteSet(T) /\ Cardinality(T) = Cardinality(S)
    BY <1>2, FS_Bijection
  <1> QED
    BY <1>3 DEF T

LEMMA Disjoint ==
    ASSUME NEW S, NEW T, IsFiniteSet(S), IsFiniteSet(T), S \cap T = {}
    PROVE  IsFiniteSet(S \cup T) /\ Cardinality(S \cup T) = Cardinality(S) + Cardinality(T)
  <1>1. Cardinality(S \cap T) = 0
    BY FS_EmptySet
  <1>2. Cardinality(S) \in Nat /\ Cardinality(T) \in Nat
    BY FS_CardinalityType
  <1>3. /\ IsFiniteSet(S \cup T)
        /\ Cardinality(S \cup T) = Cardinality(S) + Cardinality(T) - Cardinality(S \cap T)
    BY FS_Union
  <1> QED
    BY <1>1, <1>2, <1>3

LEMMA UsersCount ==
    ASSUME NEW c, NEW o, NEW u, NEW t, NEW v, NEW i
    PROVE  Cardinality(UsersOf(c, o, u, t, v, i)) =
             Num(c, i) + Num(o, i) + Num(u, i) + Num(t, i) + Num(v, i)
  <1> DEFINE C == {p \in Procs : c[p] = i}
             O == {p \in Procs : o[p] = i}
             U == {p \in Procs : u[p] = i}
             T == {p \in Procs : t[p] = i}
             V == {p \in Procs : v[p] = i}
             CC == {<<p, "cwd">> : p \in C}
             OO == {<<p, "ofile">> : p \in O}
             UU == {<<p, "cur">> : p \in U}
             TT == {<<p, "ip">> : p \in T}
             VV == {<<p, "victim">> : p \in V}
  <1>1. IsFiniteSet(C) /\ IsFiniteSet(O) /\ IsFiniteSet(U) /\ IsFiniteSet(T) /\ IsFiniteSet(V)
    BY Consts, FS_Subset
  <1>2. CC \cap OO = {} /\ (CC \cup OO) \cap UU = {} /\ (CC \cup OO \cup UU) \cap TT = {}
        /\ (CC \cup OO \cup UU \cup TT) \cap VV = {}
    OBVIOUS
  <1>3. /\ UsersOf(c, o, u, t, v, i) = CC \cup OO \cup UU \cup TT \cup VV
        /\ Num(c, i) = Cardinality(C) /\ Num(o, i) = Cardinality(O) /\ Num(u, i) = Cardinality(U)
        /\ Num(t, i) = Cardinality(T) /\ Num(v, i) = Cardinality(V)
    BY DEF UsersOf, Num
  <1>4. IsFiniteSet(CC) /\ Cardinality(CC) = Cardinality(C)
    BY <1>1, Tagged
  <1>5. IsFiniteSet(OO) /\ Cardinality(OO) = Cardinality(O)
    BY <1>1, Tagged
  <1>6. IsFiniteSet(UU) /\ Cardinality(UU) = Cardinality(U)
    BY <1>1, Tagged
  <1>7. IsFiniteSet(TT) /\ Cardinality(TT) = Cardinality(T)
    BY <1>1, Tagged
  <1>8. IsFiniteSet(VV) /\ Cardinality(VV) = Cardinality(V)
    BY <1>1, Tagged
  <1> HIDE DEF C, O, U, T, V, CC, OO, UU, TT, VV
  <1>9. IsFiniteSet(CC \cup OO) /\ Cardinality(CC \cup OO) = Cardinality(CC) + Cardinality(OO)
    BY <1>2, <1>4, <1>5, Disjoint
  <1>10. /\ IsFiniteSet(CC \cup OO \cup UU)
         /\ Cardinality(CC \cup OO \cup UU) = Cardinality(CC \cup OO) + Cardinality(UU)
    BY <1>2, <1>9, <1>6, Disjoint
  <1>11. /\ IsFiniteSet(CC \cup OO \cup UU \cup TT)
         /\ Cardinality(CC \cup OO \cup UU \cup TT) = Cardinality(CC \cup OO \cup UU) + Cardinality(TT)
    BY <1>2, <1>10, <1>7, Disjoint
  <1>12. Cardinality(CC \cup OO \cup UU \cup TT \cup VV) =
           Cardinality(CC \cup OO \cup UU \cup TT) + Cardinality(VV)
    BY <1>2, <1>11, <1>8, Disjoint
  <1> QED
    BY <1>3, <1>4, <1>5, <1>6, <1>7, <1>8, <1>9, <1>10, <1>11, <1>12

LEMMA UsersNum ==
    \A i \in Inodes : Cardinality(Users(i)) =
        Num(cwd, i) + Num(ofile, i) + Num(cur, i) + Num(ip, i) + Num(Victim, i)
  <1> TAKE i \in Inodes
  <1>1. \A p \in Procs : Victim[p] = i <=> victim[p] = i /\ pc[p] # "ifree"
    BY Consts DEF Victim
  <1>2. {p \in Procs : victim[p] = i /\ pc[p] # "ifree"} = {p \in Procs : Victim[p] = i}
    BY <1>1
  <1>3. Users(i) = UsersOf(cwd, ofile, cur, ip, Victim, i)
    BY <1>2 DEF Users, UsersOf
  <1> QED
    BY <1>3, UsersCount

-----------------------------------------------------------------------------
(* The steps of a process *)

WalkEnds(p) ==
    /\ pc[p] = "walk" /\ ilocked(cur[p]) /\ GiveUp(p)
    /\ valid' = [valid EXCEPT ![cur[p]] = TRUE]
    /\ UNCHANGED <<inodeVars, committed, ref, lock, fileVars, op, ip, fresh>>
WalkParent(p) ==
    /\ pc[p] = "walk" /\ ilocked(cur[p]) /\ ~NotDir(cur[p]) /\ WantsParent(p)
    /\ Goto(p, "parent")
    /\ valid' = [valid EXCEPT ![cur[p]] = TRUE]
    /\ UNCHANGED <<inodeVars, committed, ref, lock, fileVars, callVars, putVars, fresh>>
WalkDown(p) ==
    LET i    == cur[p]
        next == ents[i][path[p][1]]
        last == Len(path[p]) = 1
    IN  /\ pc[p] = "walk" /\ ilocked(i) /\ ~NotDir(i) /\ ~(WantsParent(p) /\ last) /\ next # 0
        /\ ref' = [ref EXCEPT ![next] = @ + 1]
        /\ valid' = [valid EXCEPT ![next] = @ /\ ref[next] > 0, ![i] = TRUE]
        /\ cur' = [cur EXCEPT ![p] = next]
        /\ path' = [path EXCEPT ![p] = Tail(@)]
        /\ CallPut(p, i, IF last THEN "found" ELSE "walk")
        /\ UNCHANGED <<inodeVars, committed, lock, fileVars, op, ip, fresh>>

CreateAt(p, i) ==
    /\ NewInode(p, i, [nlink EXCEPT ![i] = 1,
                           ![cur[p]] = @ + (IF op[p] = "mkdir" THEN 1 ELSE 0)])
    /\ ents' = [DotDot(p, i) EXCEPT ![cur[p]][Name(p)] = i]
    /\ lock' = [lock EXCEPT ![i] = p]
    /\ ip' = [ip EXCEPT ![p] = i]
    /\ PutCur(p, "created")
FailAt(p, i) ==
    /\ NewInode(p, i, [nlink EXCEPT ![i] = 0])
    /\ ents' = DotDot(p, i)
    /\ lock' = [lock EXCEPT ![cur[p]] = p]
    /\ CallPut(p, i, "failed")
    /\ UNCHANGED <<path, cur, ip>>

Step(p) ==
    \/ \E o \in work.ops[p], q \in work.paths : Begin(p, o, q)
    \/ WalkEnds(p) \/ WalkParent(p) \/ WalkDown(p) \/ sys_open(p) \/ sys_chdir(p)
    \/ LinkDir(p) \/ LinkFails(p) \/ LinkNew(p) \/ LinkDone(p) \/ LinkBad(p)
    \/ \E q \in work.paths : LinkOld(p, q)
    \/ UnlinkNone(p) \/ UnlinkEntry(p) \/ UnlinkFull(p) \/ UnlinkOk(p) \/ UnlinkDone(p)
    \/ CreateNone(p) \/ CreateTaken(p) \/ CreateExisting(p) \/ CreateDone(p)
    \/ \E i \in Free : CreateAt(p, i)
    \/ \E i \in Free : FailAt(p, i)
    \/ FailedDone(p) \/ fileclose(p)
    \/ PutRef(p) \/ PutLast(p) \/ Trunc(p) \/ PutUnref(p) \/ ifree(p)
    \/ end_op(p) \/ Reclaim(p)

\* the calls and the paths of the workload
LEMMA Work ==
    ASSUME Types
    PROVE  /\ \A q \in work.paths : q.elems \in Seq(Elems) /\ q.elems # <<>>
           /\ \A p \in Procs : work.ops[p] \subseteq Calls
  <1>1. work \in Workloads
    BY DEF Types
  <1>2. /\ \A q \in work.paths : q.abs \in BOOLEAN /\ q.elems \in Seq(Elems) \ {<<>>}
        /\ work.ops \in [Procs -> SUBSET Calls]
    BY <1>1, FsAssumption
  <1> QED
    BY <1>2

LEMMA WalkCases ==
    ASSUME NEW p \in Procs, Types, CallInv, WalkStep(p)
    PROVE  WalkEnds(p) \/ WalkParent(p) \/ WalkDown(p)
  <1> DEFINE next == ents[cur[p]][path[p][1]]
  <1>1. pc[p] = "walk" /\ ilocked(cur[p])
        /\ UNCHANGED <<inodeVars, committed, lock, fileVars, op, ip, fresh>>
    BY DEF WalkStep
  <1>2. path[p] \in Seq(Elems) /\ path[p] # <<>>
    BY <1>1 DEF Types, CallInv, CallOf, Place, Putting
  <1>3. Head(path[p]) = path[p][1]
    BY <1>2
  <1>4. CASE NotDir(cur[p]) /\ GiveUp(p) /\ valid' = [valid EXCEPT ![cur[p]] = TRUE] /\ UNCHANGED ref
    BY <1>1, <1>4 DEF WalkEnds
  <1>5. CASE /\ ~NotDir(cur[p]) /\ WantsParent(p) /\ Goto(p, "parent")
             /\ valid' = [valid EXCEPT ![cur[p]] = TRUE] /\ UNCHANGED <<ref, path, cur, putVars>>
    BY <1>1, <1>5 DEF WalkParent, callVars
  <1>6. CASE /\ ~NotDir(cur[p]) /\ ~(WantsParent(p) /\ Len(path[p]) = 1) /\ next = 0
             /\ GiveUp(p) /\ valid' = [valid EXCEPT ![cur[p]] = TRUE] /\ UNCHANGED ref
    BY <1>1, <1>6 DEF WalkEnds
  <1>7. CASE /\ ~NotDir(cur[p]) /\ ~(WantsParent(p) /\ Len(path[p]) = 1) /\ next # 0
             /\ ref' = [ref EXCEPT ![next] = @ + 1]
             /\ valid' = [valid EXCEPT ![next] = @ /\ ref[next] > 0, ![cur[p]] = TRUE]
             /\ cur' = [cur EXCEPT ![p] = next]
             /\ path' = [path EXCEPT ![p] = Tail(@)]
             /\ CallPut(p, cur[p], IF Len(path[p]) = 1 THEN "found" ELSE "walk")
    BY <1>1, <1>7 DEF WalkDown
  <1> HIDE DEF next
  <1> QED
    BY <1>3, <1>4, <1>5, <1>6, <1>7 DEF WalkStep, next

\* every step is one of these, or the crash, or the last of the recovery
LEMMA Cases ==
    ASSUME Types, CallInv, [Next]_vars
    PROVE  \/ \E p \in Procs : UNCHANGED work /\ Step(p)
           \/ \E p \in Procs : UNCHANGED work /\ ReclaimDone(p)
           \/ UNCHANGED work /\ Crash
           \/ UNCHANGED vars
  <1>1. CASE UNCHANGED vars
    BY <1>1
  <1>2. CASE UNCHANGED work /\ Crash
    BY <1>2
  <1>3. ASSUME UNCHANGED work, NEW p \in Procs, SysCall(p)
        PROVE  Step(p)
    <2>1. CASE \E o \in work.ops[p], q \in work.paths : Begin(p, o, q)
      BY <2>1 DEF Step
    <2>2. CASE WalkStep(p)
      BY <2>2, WalkCases DEF Step
    <2>3. CASE sys_open(p) \/ sys_chdir(p) \/ sys_link(p)
      BY <2>3 DEF sys_link, Step
    <2>4. CASE sys_unlink(p)
      BY <2>4 DEF sys_unlink, Step
    <2>5. CASE create(p)
      <3>1. CASE CreateNew(p)
        BY <3>1 DEF CreateNew, CreateAt, Step
      <3>2. CASE CreateFails(p)
        BY <3>2 DEF CreateFails, FailAt, Step
      <3> QED
        BY <2>5, <3>1, <3>2 DEF create, Step
    <2>6. CASE FailedDone(p) \/ (fileclose(p) /\ "close" \in work.ops[p])
      BY <2>6 DEF Step
    <2> QED
      BY <1>3, <2>1, <2>2, <2>3, <2>4, <2>5, <2>6 DEF SysCall
  <1>4. ASSUME NEW p \in Procs, iput(p) \/ end_op(p) \/ ireclaim(p)
        PROVE  Step(p) \/ ReclaimDone(p)
    BY <1>4 DEF iput, ireclaim, Step
  <1> QED
    BY <1>1, <1>2, <1>3, <1>4 DEF Next

\* it changes nothing of another process
Frame(p) == \A q \in Procs \ {p} :
    /\ pc'[q] = pc[q] /\ op'[q] = op[q] /\ path'[q] = path[q] /\ cur'[q] = cur[q] /\ ip'[q] = ip[q]
    /\ victim'[q] = victim[q] /\ ret'[q] = ret[q] /\ cwd'[q] = cwd[q] /\ ofile'[q] = ofile[q]

LEMMA FrameStep ==
    ASSUME NEW p \in Procs, Types, Step(p)
    PROVE  Frame(p)
  <1>1. ASSUME NEW o \in work.ops[p], NEW q \in work.paths, Begin(p, o, q)
        PROVE  Frame(p)
    BY <1>1 DEF Types, Frame, Begin, iget, Goto, StartOf, inodeVars, fileVars, putVars
  <1>2. CASE WalkEnds(p)
    BY <1>2 DEF Types, Frame, WalkEnds, GiveUp, PutCur, CallPut, Goto, inodeVars, fileVars
  <1>3. CASE WalkParent(p)
    BY <1>3 DEF Types, Frame, WalkParent, Goto, NotDir, WantsParent, inodeVars, fileVars, callVars, putVars
  <1>4. CASE WalkDown(p)
    BY <1>4 DEF Types, Frame, WalkDown, CallPut, Goto, NotDir, WantsParent, inodeVars, fileVars
  <1>5. CASE sys_open(p)
    BY <1>5 DEF Types, Frame, sys_open, Found, Goto, inodeVars, putVars
  <1>6. CASE sys_chdir(p)
    BY <1>6 DEF Types, Frame, sys_chdir, Found, CallPut, Goto, inodeVars
  <1>7. CASE LinkDir(p)
    BY <1>7 DEF Types, Frame, LinkDir, Found, PutCur, CallPut, Goto, inodeVars, fileVars
  <1>8. CASE LinkFails(p)
    BY <1>8 DEF Types, Frame, LinkFails, Parent, PutCur, CallPut, Goto, inodeVars, tableVars, fileVars
  <1>9. CASE LinkNew(p)
    BY <1>9 DEF Types, Frame, LinkNew, Parent, Taken, PutCur, CallPut, Goto, tableVars, fileVars
  <1>10. CASE LinkDone(p)
    BY <1>10 DEF Types, Frame, LinkDone, PutIp, CallPut, Goto, inodeVars, tableVars, fileVars
  <1>11. CASE LinkBad(p)
    BY <1>11 DEF Types, Frame, LinkBad, PutIp, CallPut, Goto, tableVars, fileVars
  <1>12. ASSUME NEW q \in work.paths, LinkOld(p, q)
         PROVE  Frame(p)
    BY <1>12 DEF Types, Frame, LinkOld, SecondWalk, Found, StartOf, Goto, fileVars, putVars
  <1>13. CASE UnlinkNone(p)
    BY <1>13 DEF Types, Frame, UnlinkNone, Parent, PutCur, CallPut, Goto, inodeVars, tableVars, fileVars
  <1>14. CASE UnlinkEntry(p)
    BY <1>14 DEF Types, Frame, UnlinkEntry, Parent, Taken, iget, Goto, inodeVars, fileVars, putVars
  <1>15. CASE UnlinkFull(p)
    BY <1>15 DEF Types, Frame, UnlinkFull, PutIp, CallPut, Goto, inodeVars, fileVars
  <1>16. CASE UnlinkOk(p)
    BY <1>16 DEF Types, Frame, UnlinkOk, Erase, PutCur, CallPut, Goto, fileVars
  <1>17. CASE UnlinkDone(p)
    BY <1>17 DEF Types, Frame, UnlinkDone, PutIp, CallPut, Goto, fileVars
  <1>18. CASE CreateNone(p)
    BY <1>18 DEF Types, Frame, CreateNone, Parent, PutCur, CallPut, Goto, inodeVars, tableVars, fileVars
  <1>19. CASE CreateTaken(p)
    BY <1>19 DEF Types, Frame, CreateTaken, Parent, Taken, iget, PutCur, CallPut, Goto, inodeVars, fileVars
  <1>20. CASE CreateExisting(p)
    BY <1>20 DEF Types, Frame, CreateExisting, OpenIp, PutIp, CallPut, Goto, inodeVars, fileVars, putVars
  <1>21. CASE CreateDone(p)
    BY <1>21 DEF Types, Frame, CreateDone, OpenIp, PutIp, CallPut, Goto, inodeVars, fileVars, putVars
  <1>22. ASSUME NEW i \in Free, CreateAt(p, i)
         PROVE  Frame(p)
    BY <1>22
      DEF Types, Frame, CreateAt, NewInode, DotDot, NoEnts, Free, Parent, Taken, PutCur, CallPut, Goto,
          fileVars
  <1>23. ASSUME NEW i \in Free, FailAt(p, i)
         PROVE  Frame(p)
    BY <1>23 DEF Types, Frame, FailAt, NewInode, DotDot, NoEnts, Free, Parent, Taken, CallPut, Goto, fileVars
  <1>24. CASE FailedDone(p)
    BY <1>24 DEF Types, Frame, FailedDone, PutCur, CallPut, Goto, inodeVars, fileVars
  <1>25. CASE fileclose(p)
    BY <1>25 DEF Types, Frame, fileclose, CallPut, Goto, inodeVars, tableVars
  <1>26. CASE PutRef(p)
    BY <1>26 DEF Types, Frame, PutRef, Unref, Return, Last, Goto, inodeVars, fileVars, callVars
  <1>27. CASE PutLast(p)
    BY <1>27 DEF Types, Frame, PutLast, Last, Goto, inodeVars, fileVars, callVars, putVars
  <1>28. CASE Trunc(p)
    BY <1>28 DEF Types, Frame, Trunc, NoEnts, Goto, fileVars, callVars, putVars
  <1>29. CASE PutUnref(p)
    BY <1>29 DEF Types, Frame, PutUnref, Unref, Goto, inodeVars, fileVars, callVars, putVars
  <1>30. CASE ifree(p)
    BY <1>30 DEF Types, Frame, ifree, Return, Goto, tableVars, fileVars, callVars
  <1>31. CASE end_op(p)
    BY <1>31 DEF Types, Frame, end_op, commit, Goto, inodeVars, tableVars, fileVars, putVars
  <1>32. CASE Reclaim(p)
    BY <1>32 DEF Types, Frame, Reclaim, CallPut, Goto, Orphan, inodeVars, fileVars, putVars
  <1> QED
    BY <1>1, <1>2, <1>3, <1>4, <1>5, <1>6, <1>7, <1>8, <1>9, <1>10, <1>11, <1>12, <1>13, <1>14,
       <1>15, <1>16, <1>17, <1>18, <1>19, <1>20, <1>21, <1>22, <1>23, <1>24, <1>25, <1>26, <1>27,
       <1>28, <1>29, <1>30, <1>31, <1>32 DEF Step

LEMMA FramePlace ==
    ASSUME NEW p \in Procs, Frame(p)
    PROVE  \A q \in Procs \ {p} :
              /\ Place(q)' = Place(q) /\ Owes(q)' = Owes(q) /\ Name(q)' = Name(q)
              /\ Victim'[q] = Victim[q] /\ Owed'[q] = Owed[q]
              /\ \A i : Holder(q, i)' = Holder(q, i)
  BY DEF Frame, Place, Owes, Name, Victim, Owed, Holder

\* every process, and every inode, has its place in the tables
LEMMA Domains ==
    ASSUME Types
    PROVE  /\ DOMAIN pc = Procs /\ DOMAIN op = Procs /\ DOMAIN path = Procs /\ DOMAIN cur = Procs
           /\ DOMAIN ip = Procs /\ DOMAIN victim = Procs /\ DOMAIN ret = Procs
           /\ DOMAIN cwd = Procs /\ DOMAIN ofile = Procs
           /\ DOMAIN type = Inodes /\ DOMAIN nlink = Inodes /\ DOMAIN ents = Inodes
           /\ DOMAIN ref = Inodes /\ DOMAIN valid = Inodes /\ DOMAIN lock = Inodes
           /\ \A i \in Inodes : DOMAIN ents[i] = Elems
  BY DEF Types

\* the inodes a process has references to
LEMMA Refs ==
    ASSUME Types, CallInv, NEW p \in Procs
    PROVE  /\ CallOf(p)
           /\ pc[p] \in {"walk", "found", "parent", "unlink", "failed"} => cur[p] \in Inodes
           /\ pc[p] \in {"second", "bad", "existing", "created", "unlink", "unlinked"} => ip[p] \in Inodes
           /\ pc[p] \in Putting => victim[p] \in Inodes /\ ret[p] \in Returns
           /\ pc[p] \in {"walk", "parent", "unlink"} => path[p] # <<>>
           /\ pc[p] # "off" => cwd[p] \in Inodes
           /\ path[p] \in Seq(Elems) /\ op[p] \in Calls \cup {"none", "reclaim"}
           /\ \A f \in {cur, ip, victim, cwd, ofile} : f[p] \in Inodes \cup {0}
  <1>1. CallOf(p)
    BY DEF CallInv
  <1>2. /\ cur[p] \in Inodes \cup {0} /\ ip[p] \in Inodes \cup {0} /\ victim[p] \in Inodes \cup {0}
        /\ cwd[p] \in Inodes \cup {0} /\ ofile[p] \in Inodes \cup {0}
        /\ path[p] \in Seq(Elems) /\ op[p] \in Calls \cup {"none", "reclaim"}
    BY DEF Types
  <1>3. pc[p] \in {"walk", "found", "parent", "unlink", "failed"} => cur[p] # 0
    BY <1>1 DEF CallOf, Place, Putting
  <1>4. pc[p] \in {"second", "bad", "existing", "created", "unlink", "unlinked"} => ip[p] # 0
    BY <1>1 DEF CallOf, Place, Putting
  <1>5. pc[p] \in Putting => victim[p] # 0 /\ ret[p] \in Returns
    BY <1>1 DEF CallOf
  <1>6. pc[p] \in {"walk", "parent", "unlink"} => path[p] # <<>>
    BY <1>1 DEF CallOf, Place, Putting
  <1>7. pc[p] # "off" => cwd[p] # 0
    BY <1>1 DEF CallOf
  <1> QED
    BY <1>1, <1>2, <1>3, <1>4, <1>5, <1>6, <1>7

LEMMA Heads ==
    ASSUME NEW s \in Seq(Elems), s # <<>>
    PROVE  s[1] \in Elems /\ Tail(s) \in Seq(Elems) /\ (Len(s) # 1 => Tail(s) # <<>>)
  <1>1. Len(s) \in Nat /\ Len(s) > 0 /\ s[1] \in Elems
    BY EmptySeq, LenProperties
  <1>2. Tail(s) \in Seq(Elems) /\ Len(Tail(s)) = Len(s) - 1
    BY <1>1, HeadTailProperties
  <1>3. Len(s) # 1 => Tail(s) # <<>>
    <2> SUFFICES ASSUME Len(s) # 1, Tail(s) = <<>> PROVE FALSE
      OBVIOUS
    <2>1. Len(Tail(s)) = 0
      BY EmptySeq
    <2>2. Len(s) - 1 = 0
      BY <1>2, <2>1
    <2> QED
      BY <1>1, <2>2
  <1> QED
    BY <1>1, <1>2, <1>3

\* the element of the path at which a call is, and what it leads to
LEMMA Lookup ==
    ASSUME Types, CallInv, NEW p \in Procs, pc[p] \in {"walk", "parent", "unlink"}
    PROVE  path[p][1] \in Elems /\ ents[cur[p]][path[p][1]] \in Inodes \cup {0}
  <1>1. path[p][1] \in Elems /\ cur[p] \in Inodes
    BY Refs, Heads
  <1> QED
    BY <1>1 DEF Types

LEMMA CountType ==
    ASSUME NEW S, NEW f \in [S -> Int], NEW x
    PROVE  /\ [f EXCEPT ![x] = @ + 1] \in [S -> Int] /\ [f EXCEPT ![x] = @ - 1] \in [S -> Int]
           /\ [f EXCEPT ![x] = 0] \in [S -> Int]
  <1>1. CASE x \in S
    <2>1. f[x] + 1 \in Int /\ f[x] - 1 \in Int /\ 0 \in Int
      BY <1>1
    <2> QED
      BY <1>1, <2>1
  <1>2. CASE x \notin S
    <2>1. [f EXCEPT ![x] = @ + 1] = f /\ [f EXCEPT ![x] = @ - 1] = f /\ [f EXCEPT ![x] = 0] = f
      BY <1>2
    <2> QED
      BY <2>1
  <1> QED
    BY <1>1, <1>2

LEMMA LockType ==
    ASSUME NEW f \in [Inodes -> 0..N], NEW x, NEW y, NEW p \in Procs
    PROVE  /\ [f EXCEPT ![x] = p] \in [Inodes -> 0..N] /\ [f EXCEPT ![x] = 0] \in [Inodes -> 0..N]
           /\ [f EXCEPT ![x] = 0, ![y] = p] \in [Inodes -> 0..N]
  <1>1. p \in 0..N /\ 0 \in 0..N
    BY FsAssumption DEF Procs
  <1> QED
    BY <1>1

\* types
LEMMA TypesStep ==
    ASSUME NEW p \in Procs, Types, CallInv, UNCHANGED work, Step(p)
    PROVE  Types'
  <1>1. ASSUME NEW o \in work.ops[p], NEW q \in work.paths, Begin(p, o, q)
        PROVE  Types'
    <2>1. pc' \in [Procs -> Pcs]
      BY <1>1, Consts, Refs, Domains
        DEF Types, Pcs, Putting, Returns, Calls, Begin, iget, Goto, StartOf, inodeVars, fileVars, putVars
    <2>2. op' \in [Procs -> Calls \cup {"none", "reclaim"}]
      BY <1>1, Consts, Refs, Domains, Work
        DEF Types, Pcs, Putting, Returns, Calls, Begin, iget, Goto, StartOf, inodeVars, fileVars, putVars
    <2>3. path' \in [Procs -> Seq(Elems)]
      BY <1>1, Consts, Refs, Domains, Heads, Work
        DEF Types, Pcs, Putting, Returns, Calls, Begin, iget, Goto, StartOf, inodeVars, fileVars, putVars
    <2>4. cur' \in [Procs -> Inodes \cup {0}]
      BY <1>1, Consts, Refs, Domains
        DEF Types, Pcs, Putting, Returns, Calls, Begin, iget, Goto, StartOf, inodeVars, fileVars, putVars
    <2>5. ref' \in [Inodes -> Int]
      BY <1>1, Consts, Refs, Domains, CountType
        DEF Types, Pcs, Putting, Returns, Calls, Begin, iget, Goto, StartOf, inodeVars, fileVars, putVars
    <2>6. valid' \in [Inodes -> BOOLEAN]
      BY <1>1, Consts, Refs, Domains
        DEF Types, Pcs, Putting, Returns, Calls, Begin, iget, Goto, StartOf, inodeVars, fileVars, putVars
    <2>7. UNCHANGED <<type, nlink, ents, lock, cwd, ofile, ip, victim, ret, fresh>>
      BY <1>1 DEF Begin, iget, Goto, StartOf, inodeVars, fileVars, putVars
    <2> QED
      BY <2>1, <2>2, <2>3, <2>4, <2>5, <2>6, <2>7 DEF Types
  <1>2. CASE WalkEnds(p)
    <2>1. pc' \in [Procs -> Pcs]
      BY <1>2, Consts, Refs, Domains
        DEF Types, Pcs, Putting, Returns, Calls, WalkEnds, GiveUp, PutCur, CallPut, Goto, inodeVars, fileVars
    <2>2. victim' \in [Procs -> Inodes \cup {0}]
      BY <1>2, Consts, Refs, Domains
        DEF Types, Pcs, Putting, Returns, Calls, WalkEnds, GiveUp, PutCur, CallPut, Goto, inodeVars, fileVars
    <2>3. ret' \in [Procs -> Returns \cup {"idle"}]
      BY <1>2, Consts, Refs, Domains
        DEF Types, Pcs, Putting, Returns, Calls, WalkEnds, GiveUp, PutCur, CallPut, Goto, inodeVars, fileVars
    <2>4. cur' \in [Procs -> Inodes \cup {0}]
      BY <1>2, Consts, Refs, Domains
        DEF Types, Pcs, Putting, Returns, Calls, WalkEnds, GiveUp, PutCur, CallPut, Goto, inodeVars, fileVars
    <2>5. path' \in [Procs -> Seq(Elems)]
      BY <1>2, Consts, Refs, Domains, Heads
        DEF Types, Pcs, Putting, Returns, Calls, WalkEnds, GiveUp, PutCur, CallPut, Goto, inodeVars, fileVars
    <2>6. valid' \in [Inodes -> BOOLEAN]
      BY <1>2, Consts, Refs, Domains
        DEF Types, Pcs, Putting, Returns, Calls, WalkEnds, GiveUp, PutCur, CallPut, Goto, inodeVars, fileVars
    <2>7. UNCHANGED <<type, nlink, ents, ref, lock, cwd, ofile, ip, op, fresh>>
      BY <1>2 DEF WalkEnds, GiveUp, PutCur, CallPut, Goto, inodeVars, fileVars
    <2> QED
      BY <2>1, <2>2, <2>3, <2>4, <2>5, <2>6, <2>7 DEF Types
  <1>3. CASE WalkParent(p)
    <2>1. pc' \in [Procs -> Pcs]
      BY <1>3, Consts, Refs, Domains
        DEF Types, Pcs, Putting, Returns, Calls, WalkParent, Goto, NotDir, WantsParent, inodeVars, fileVars,
            callVars, putVars
    <2>2. valid' \in [Inodes -> BOOLEAN]
      BY <1>3, Consts, Refs, Domains
        DEF Types, Pcs, Putting, Returns, Calls, WalkParent, Goto, NotDir, WantsParent, inodeVars, fileVars,
            callVars, putVars
    <2>3. UNCHANGED <<type, nlink, ents, ref, lock, cwd, ofile, cur, ip, victim, op, path, ret, fresh>>
      BY <1>3 DEF WalkParent, Goto, NotDir, WantsParent, inodeVars, fileVars, callVars, putVars
    <2> QED
      BY <2>1, <2>2, <2>3 DEF Types
  <1>4. CASE WalkDown(p)
    <2>1. pc' \in [Procs -> Pcs]
      BY <1>4, Consts, Refs, Domains
        DEF Types, Pcs, Putting, Returns, Calls, WalkDown, CallPut, Goto, NotDir, WantsParent, inodeVars,
            fileVars
    <2>2. victim' \in [Procs -> Inodes \cup {0}]
      BY <1>4, Consts, Refs, Domains
        DEF Types, Pcs, Putting, Returns, Calls, WalkDown, CallPut, Goto, NotDir, WantsParent, inodeVars,
            fileVars
    <2>3. ret' \in [Procs -> Returns \cup {"idle"}]
      BY <1>4, Consts, Refs, Domains
        DEF Types, Pcs, Putting, Returns, Calls, WalkDown, CallPut, Goto, NotDir, WantsParent, inodeVars,
            fileVars
    <2>4. cur' \in [Procs -> Inodes \cup {0}]
      BY <1>4, Consts, Refs, Domains, Lookup
        DEF Types, Pcs, Putting, Returns, Calls, WalkDown, CallPut, Goto, NotDir, WantsParent, inodeVars,
            fileVars
    <2>5. path' \in [Procs -> Seq(Elems)]
      BY <1>4, Consts, Refs, Domains, Heads
        DEF Types, Pcs, Putting, Returns, Calls, WalkDown, CallPut, Goto, NotDir, WantsParent, inodeVars,
            fileVars
    <2>6. ref' \in [Inodes -> Int]
      BY <1>4, Consts, Refs, Domains, CountType, Lookup
        DEF Types, Pcs, Putting, Returns, Calls, WalkDown, CallPut, Goto, NotDir, WantsParent, inodeVars,
            fileVars
    <2>7. valid' \in [Inodes -> BOOLEAN]
      BY <1>4, Consts, Refs, Domains
        DEF Types, Pcs, Putting, Returns, Calls, WalkDown, CallPut, Goto, NotDir, WantsParent, inodeVars,
            fileVars
    <2>8. UNCHANGED <<type, nlink, ents, lock, cwd, ofile, ip, op, fresh>>
      BY <1>4 DEF WalkDown, CallPut, Goto, NotDir, WantsParent, inodeVars, fileVars
    <2> QED
      BY <2>1, <2>2, <2>3, <2>4, <2>5, <2>6, <2>7, <2>8 DEF Types
  <1>5. CASE sys_open(p)
    <2>1. pc' \in [Procs -> Pcs]
      BY <1>5, Consts, Refs, Domains
        DEF Types, Pcs, Putting, Returns, Calls, sys_open, Found, Goto, inodeVars, putVars
    <2>2. ofile' \in [Procs -> Inodes \cup {0}]
      BY <1>5, Consts, Refs, Domains
        DEF Types, Pcs, Putting, Returns, Calls, sys_open, Found, Goto, inodeVars, putVars
    <2>3. cur' \in [Procs -> Inodes \cup {0}]
      BY <1>5, Consts, Refs, Domains
        DEF Types, Pcs, Putting, Returns, Calls, sys_open, Found, Goto, inodeVars, putVars
    <2>4. valid' \in [Inodes -> BOOLEAN]
      BY <1>5, Consts, Refs, Domains
        DEF Types, Pcs, Putting, Returns, Calls, sys_open, Found, Goto, inodeVars, putVars
    <2>5. UNCHANGED <<type, nlink, ents, ref, lock, cwd, ip, victim, op, path, ret, fresh>>
      BY <1>5 DEF sys_open, Found, Goto, inodeVars, putVars
    <2> QED
      BY <2>1, <2>2, <2>3, <2>4, <2>5 DEF Types
  <1>6. CASE sys_chdir(p)
    <2>1. pc' \in [Procs -> Pcs]
      BY <1>6, Consts, Refs, Domains
        DEF Types, Pcs, Putting, Returns, Calls, sys_chdir, Found, CallPut, Goto, inodeVars
    <2>2. victim' \in [Procs -> Inodes \cup {0}]
      BY <1>6, Consts, Refs, Domains
        DEF Types, Pcs, Putting, Returns, Calls, sys_chdir, Found, CallPut, Goto, inodeVars
    <2>3. ret' \in [Procs -> Returns \cup {"idle"}]
      BY <1>6, Consts, Refs, Domains
        DEF Types, Pcs, Putting, Returns, Calls, sys_chdir, Found, CallPut, Goto, inodeVars
    <2>4. cur' \in [Procs -> Inodes \cup {0}]
      BY <1>6, Consts, Refs, Domains
        DEF Types, Pcs, Putting, Returns, Calls, sys_chdir, Found, CallPut, Goto, inodeVars
    <2>5. cwd' \in [Procs -> Inodes \cup {0}]
      BY <1>6, Consts, Refs, Domains
        DEF Types, Pcs, Putting, Returns, Calls, sys_chdir, Found, CallPut, Goto, inodeVars
    <2>6. valid' \in [Inodes -> BOOLEAN]
      BY <1>6, Consts, Refs, Domains
        DEF Types, Pcs, Putting, Returns, Calls, sys_chdir, Found, CallPut, Goto, inodeVars
    <2>7. UNCHANGED <<type, nlink, ents, ref, lock, ofile, ip, op, path, fresh>>
      BY <1>6 DEF sys_chdir, Found, CallPut, Goto, inodeVars
    <2> QED
      BY <2>1, <2>2, <2>3, <2>4, <2>5, <2>6, <2>7 DEF Types
  <1>7. CASE LinkDir(p)
    <2>1. pc' \in [Procs -> Pcs]
      BY <1>7, Consts, Refs, Domains
        DEF Types, Pcs, Putting, Returns, Calls, LinkDir, Found, PutCur, CallPut, Goto, inodeVars, fileVars
    <2>2. victim' \in [Procs -> Inodes \cup {0}]
      BY <1>7, Consts, Refs, Domains
        DEF Types, Pcs, Putting, Returns, Calls, LinkDir, Found, PutCur, CallPut, Goto, inodeVars, fileVars
    <2>3. ret' \in [Procs -> Returns \cup {"idle"}]
      BY <1>7, Consts, Refs, Domains
        DEF Types, Pcs, Putting, Returns, Calls, LinkDir, Found, PutCur, CallPut, Goto, inodeVars, fileVars
    <2>4. cur' \in [Procs -> Inodes \cup {0}]
      BY <1>7, Consts, Refs, Domains
        DEF Types, Pcs, Putting, Returns, Calls, LinkDir, Found, PutCur, CallPut, Goto, inodeVars, fileVars
    <2>5. path' \in [Procs -> Seq(Elems)]
      BY <1>7, Consts, Refs, Domains, Heads
        DEF Types, Pcs, Putting, Returns, Calls, LinkDir, Found, PutCur, CallPut, Goto, inodeVars, fileVars
    <2>6. valid' \in [Inodes -> BOOLEAN]
      BY <1>7, Consts, Refs, Domains
        DEF Types, Pcs, Putting, Returns, Calls, LinkDir, Found, PutCur, CallPut, Goto, inodeVars, fileVars
    <2>7. UNCHANGED <<type, nlink, ents, ref, lock, cwd, ofile, ip, op, fresh>>
      BY <1>7 DEF LinkDir, Found, PutCur, CallPut, Goto, inodeVars, fileVars
    <2> QED
      BY <2>1, <2>2, <2>3, <2>4, <2>5, <2>6, <2>7 DEF Types
  <1>8. CASE LinkFails(p)
    <2>1. pc' \in [Procs -> Pcs]
      BY <1>8, Consts, Refs, Domains
        DEF Types, Pcs, Putting, Returns, Calls, LinkFails, Parent, PutCur, CallPut, Goto, inodeVars,
            tableVars, fileVars
    <2>2. victim' \in [Procs -> Inodes \cup {0}]
      BY <1>8, Consts, Refs, Domains
        DEF Types, Pcs, Putting, Returns, Calls, LinkFails, Parent, PutCur, CallPut, Goto, inodeVars,
            tableVars, fileVars
    <2>3. ret' \in [Procs -> Returns \cup {"idle"}]
      BY <1>8, Consts, Refs, Domains
        DEF Types, Pcs, Putting, Returns, Calls, LinkFails, Parent, PutCur, CallPut, Goto, inodeVars,
            tableVars, fileVars
    <2>4. cur' \in [Procs -> Inodes \cup {0}]
      BY <1>8, Consts, Refs, Domains
        DEF Types, Pcs, Putting, Returns, Calls, LinkFails, Parent, PutCur, CallPut, Goto, inodeVars,
            tableVars, fileVars
    <2>5. path' \in [Procs -> Seq(Elems)]
      BY <1>8, Consts, Refs, Domains, Heads
        DEF Types, Pcs, Putting, Returns, Calls, LinkFails, Parent, PutCur, CallPut, Goto, inodeVars,
            tableVars, fileVars
    <2>6. UNCHANGED <<type, nlink, ents, ref, valid, lock, cwd, ofile, ip, op, fresh>>
      BY <1>8 DEF LinkFails, Parent, PutCur, CallPut, Goto, inodeVars, tableVars, fileVars
    <2> QED
      BY <2>1, <2>2, <2>3, <2>4, <2>5, <2>6 DEF Types
  <1>9. CASE LinkNew(p)
    <2>1. pc' \in [Procs -> Pcs]
      BY <1>9, Consts, Refs, Domains
        DEF Types, Pcs, Putting, Returns, Calls, Name, LinkNew, Parent, Taken, PutCur, CallPut, Goto,
            tableVars, fileVars
    <2>2. victim' \in [Procs -> Inodes \cup {0}]
      BY <1>9, Consts, Refs, Domains
        DEF Types, Pcs, Putting, Returns, Calls, Name, LinkNew, Parent, Taken, PutCur, CallPut, Goto,
            tableVars, fileVars
    <2>3. ret' \in [Procs -> Returns \cup {"idle"}]
      BY <1>9, Consts, Refs, Domains
        DEF Types, Pcs, Putting, Returns, Calls, Name, LinkNew, Parent, Taken, PutCur, CallPut, Goto,
            tableVars, fileVars
    <2>4. cur' \in [Procs -> Inodes \cup {0}]
      BY <1>9, Consts, Refs, Domains
        DEF Types, Pcs, Putting, Returns, Calls, Name, LinkNew, Parent, Taken, PutCur, CallPut, Goto,
            tableVars, fileVars
    <2>5. path' \in [Procs -> Seq(Elems)]
      BY <1>9, Consts, Refs, Domains, Heads
        DEF Types, Pcs, Putting, Returns, Calls, Name, LinkNew, Parent, Taken, PutCur, CallPut, Goto,
            tableVars, fileVars
    <2>6. ents' \in [Inodes -> [Elems -> Inodes \cup {0}]]
      BY <1>9, Consts, Refs, Domains, Heads
        DEF Types, Pcs, Putting, Returns, Calls, Name, LinkNew, Parent, Taken, PutCur, CallPut, Goto,
            tableVars, fileVars
    <2>7. UNCHANGED <<type, nlink, ref, valid, lock, cwd, ofile, ip, op, fresh>>
      BY <1>9 DEF LinkNew, Parent, Taken, PutCur, CallPut, Goto, tableVars, fileVars
    <2> QED
      BY <2>1, <2>2, <2>3, <2>4, <2>5, <2>6, <2>7 DEF Types
  <1>10. CASE LinkDone(p)
    <2>1. pc' \in [Procs -> Pcs]
      BY <1>10, Consts, Refs, Domains
        DEF Types, Pcs, Putting, Returns, Calls, LinkDone, PutIp, CallPut, Goto, inodeVars, tableVars,
            fileVars
    <2>2. victim' \in [Procs -> Inodes \cup {0}]
      BY <1>10, Consts, Refs, Domains
        DEF Types, Pcs, Putting, Returns, Calls, LinkDone, PutIp, CallPut, Goto, inodeVars, tableVars,
            fileVars
    <2>3. ret' \in [Procs -> Returns \cup {"idle"}]
      BY <1>10, Consts, Refs, Domains
        DEF Types, Pcs, Putting, Returns, Calls, LinkDone, PutIp, CallPut, Goto, inodeVars, tableVars,
            fileVars
    <2>4. ip' \in [Procs -> Inodes \cup {0}]
      BY <1>10, Consts, Refs, Domains
        DEF Types, Pcs, Putting, Returns, Calls, LinkDone, PutIp, CallPut, Goto, inodeVars, tableVars,
            fileVars
    <2>5. UNCHANGED <<type, nlink, ents, ref, valid, lock, cwd, ofile, cur, op, path, fresh>>
      BY <1>10 DEF LinkDone, PutIp, CallPut, Goto, inodeVars, tableVars, fileVars
    <2> QED
      BY <2>1, <2>2, <2>3, <2>4, <2>5 DEF Types
  <1>11. CASE LinkBad(p)
    <2>1. pc' \in [Procs -> Pcs]
      BY <1>11, Consts, Refs, Domains
        DEF Types, Pcs, Putting, Returns, Calls, LinkBad, PutIp, CallPut, Goto, tableVars, fileVars
    <2>2. victim' \in [Procs -> Inodes \cup {0}]
      BY <1>11, Consts, Refs, Domains
        DEF Types, Pcs, Putting, Returns, Calls, LinkBad, PutIp, CallPut, Goto, tableVars, fileVars
    <2>3. ret' \in [Procs -> Returns \cup {"idle"}]
      BY <1>11, Consts, Refs, Domains
        DEF Types, Pcs, Putting, Returns, Calls, LinkBad, PutIp, CallPut, Goto, tableVars, fileVars
    <2>4. ip' \in [Procs -> Inodes \cup {0}]
      BY <1>11, Consts, Refs, Domains
        DEF Types, Pcs, Putting, Returns, Calls, LinkBad, PutIp, CallPut, Goto, tableVars, fileVars
    <2>5. nlink' \in [Inodes -> Int]
      BY <1>11, Consts, Refs, Domains, CountType
        DEF Types, Pcs, Putting, Returns, Calls, LinkBad, PutIp, CallPut, Goto, tableVars, fileVars
    <2>6. UNCHANGED <<type, ents, ref, valid, lock, cwd, ofile, cur, op, path, fresh>>
      BY <1>11 DEF LinkBad, PutIp, CallPut, Goto, tableVars, fileVars
    <2> QED
      BY <2>1, <2>2, <2>3, <2>4, <2>5, <2>6 DEF Types
  <1>12. ASSUME NEW q \in work.paths, LinkOld(p, q)
         PROVE  Types'
    <2>1. pc' \in [Procs -> Pcs]
      BY <1>12, Consts, Refs, Domains
        DEF Types, Pcs, Putting, Returns, Calls, LinkOld, SecondWalk, Found, StartOf, Goto, fileVars, putVars
    <2>2. ip' \in [Procs -> Inodes \cup {0}]
      BY <1>12, Consts, Refs, Domains
        DEF Types, Pcs, Putting, Returns, Calls, LinkOld, SecondWalk, Found, StartOf, Goto, fileVars, putVars
    <2>3. path' \in [Procs -> Seq(Elems)]
      BY <1>12, Consts, Refs, Domains, Heads, Work
        DEF Types, Pcs, Putting, Returns, Calls, LinkOld, SecondWalk, Found, StartOf, Goto, fileVars, putVars
    <2>4. cur' \in [Procs -> Inodes \cup {0}]
      BY <1>12, Consts, Refs, Domains
        DEF Types, Pcs, Putting, Returns, Calls, LinkOld, SecondWalk, Found, StartOf, Goto, fileVars, putVars
    <2>5. ref' \in [Inodes -> Int]
      BY <1>12, Consts, Refs, Domains, CountType
        DEF Types, Pcs, Putting, Returns, Calls, LinkOld, SecondWalk, Found, StartOf, Goto, fileVars, putVars
    <2>6. valid' \in [Inodes -> BOOLEAN]
      BY <1>12, Consts, Refs, Domains
        DEF Types, Pcs, Putting, Returns, Calls, LinkOld, SecondWalk, Found, StartOf, Goto, fileVars, putVars
    <2>7. nlink' \in [Inodes -> Int]
      BY <1>12, Consts, Refs, Domains, CountType
        DEF Types, Pcs, Putting, Returns, Calls, LinkOld, SecondWalk, Found, StartOf, Goto, fileVars, putVars
    <2>8. UNCHANGED <<type, ents, lock, cwd, ofile, victim, op, ret, fresh>>
      BY <1>12 DEF LinkOld, SecondWalk, Found, StartOf, Goto, fileVars, putVars
    <2> QED
      BY <2>1, <2>2, <2>3, <2>4, <2>5, <2>6, <2>7, <2>8 DEF Types
  <1>13. CASE UnlinkNone(p)
    <2>1. pc' \in [Procs -> Pcs]
      BY <1>13, Consts, Refs, Domains
        DEF Types, Pcs, Putting, Returns, Calls, Name, UnlinkNone, Parent, PutCur, CallPut, Goto, inodeVars,
            tableVars, fileVars
    <2>2. victim' \in [Procs -> Inodes \cup {0}]
      BY <1>13, Consts, Refs, Domains
        DEF Types, Pcs, Putting, Returns, Calls, Name, UnlinkNone, Parent, PutCur, CallPut, Goto, inodeVars,
            tableVars, fileVars
    <2>3. ret' \in [Procs -> Returns \cup {"idle"}]
      BY <1>13, Consts, Refs, Domains
        DEF Types, Pcs, Putting, Returns, Calls, Name, UnlinkNone, Parent, PutCur, CallPut, Goto, inodeVars,
            tableVars, fileVars
    <2>4. cur' \in [Procs -> Inodes \cup {0}]
      BY <1>13, Consts, Refs, Domains
        DEF Types, Pcs, Putting, Returns, Calls, Name, UnlinkNone, Parent, PutCur, CallPut, Goto, inodeVars,
            tableVars, fileVars
    <2>5. path' \in [Procs -> Seq(Elems)]
      BY <1>13, Consts, Refs, Domains, Heads
        DEF Types, Pcs, Putting, Returns, Calls, Name, UnlinkNone, Parent, PutCur, CallPut, Goto, inodeVars,
            tableVars, fileVars
    <2>6. UNCHANGED <<type, nlink, ents, ref, valid, lock, cwd, ofile, ip, op, fresh>>
      BY <1>13 DEF UnlinkNone, Parent, PutCur, CallPut, Goto, inodeVars, tableVars, fileVars
    <2> QED
      BY <2>1, <2>2, <2>3, <2>4, <2>5, <2>6 DEF Types
  <1>14. CASE UnlinkEntry(p)
    <2>1. pc' \in [Procs -> Pcs]
      BY <1>14, Consts, Refs, Domains
        DEF Types, Pcs, Putting, Returns, Calls, Name, UnlinkEntry, Parent, Taken, iget, Goto, inodeVars,
            fileVars, putVars
    <2>2. ip' \in [Procs -> Inodes \cup {0}]
      BY <1>14, Consts, Refs, Domains, Lookup
        DEF Types, Pcs, Putting, Returns, Calls, Name, UnlinkEntry, Parent, Taken, iget, Goto, inodeVars,
            fileVars, putVars
    <2>3. ref' \in [Inodes -> Int]
      BY <1>14, Consts, Refs, Domains, CountType, Lookup
        DEF Types, Pcs, Putting, Returns, Calls, Name, UnlinkEntry, Parent, Taken, iget, Goto, inodeVars,
            fileVars, putVars
    <2>4. valid' \in [Inodes -> BOOLEAN]
      BY <1>14, Consts, Refs, Domains
        DEF Types, Pcs, Putting, Returns, Calls, Name, UnlinkEntry, Parent, Taken, iget, Goto, inodeVars,
            fileVars, putVars
    <2>5. lock' \in [Inodes -> 0..N]
      BY <1>14, LockType
        DEF Types, Pcs, Putting, Returns, Calls, Name, UnlinkEntry, Parent, Taken, iget, Goto, inodeVars,
            fileVars, putVars
    <2>6. UNCHANGED <<type, nlink, ents, cwd, ofile, cur, victim, op, path, ret, fresh>>
      BY <1>14 DEF UnlinkEntry, Parent, Taken, iget, Goto, inodeVars, fileVars, putVars
    <2> QED
      BY <2>1, <2>2, <2>3, <2>4, <2>5, <2>6 DEF Types
  <1>15. CASE UnlinkFull(p)
    <2>1. pc' \in [Procs -> Pcs]
      BY <1>15, Consts, Refs, Domains
        DEF Types, Pcs, Putting, Returns, Calls, UnlinkFull, PutIp, CallPut, Goto, inodeVars, fileVars
    <2>2. victim' \in [Procs -> Inodes \cup {0}]
      BY <1>15, Consts, Refs, Domains
        DEF Types, Pcs, Putting, Returns, Calls, UnlinkFull, PutIp, CallPut, Goto, inodeVars, fileVars
    <2>3. ret' \in [Procs -> Returns \cup {"idle"}]
      BY <1>15, Consts, Refs, Domains
        DEF Types, Pcs, Putting, Returns, Calls, UnlinkFull, PutIp, CallPut, Goto, inodeVars, fileVars
    <2>4. ip' \in [Procs -> Inodes \cup {0}]
      BY <1>15, Consts, Refs, Domains
        DEF Types, Pcs, Putting, Returns, Calls, UnlinkFull, PutIp, CallPut, Goto, inodeVars, fileVars
    <2>5. valid' \in [Inodes -> BOOLEAN]
      BY <1>15, Consts, Refs, Domains
        DEF Types, Pcs, Putting, Returns, Calls, UnlinkFull, PutIp, CallPut, Goto, inodeVars, fileVars
    <2>6. UNCHANGED <<type, nlink, ents, ref, lock, cwd, ofile, cur, op, path, fresh>>
      BY <1>15 DEF UnlinkFull, PutIp, CallPut, Goto, inodeVars, fileVars
    <2> QED
      BY <2>1, <2>2, <2>3, <2>4, <2>5, <2>6 DEF Types
  <1>16. CASE UnlinkOk(p)
    <2>1. pc' \in [Procs -> Pcs]
      BY <1>16, Consts, Refs, Domains
        DEF Types, Pcs, Putting, Returns, Calls, Name, UnlinkOk, Erase, PutCur, CallPut, Goto, fileVars
    <2>2. victim' \in [Procs -> Inodes \cup {0}]
      BY <1>16, Consts, Refs, Domains
        DEF Types, Pcs, Putting, Returns, Calls, Name, UnlinkOk, Erase, PutCur, CallPut, Goto, fileVars
    <2>3. ret' \in [Procs -> Returns \cup {"idle"}]
      BY <1>16, Consts, Refs, Domains
        DEF Types, Pcs, Putting, Returns, Calls, Name, UnlinkOk, Erase, PutCur, CallPut, Goto, fileVars
    <2>4. cur' \in [Procs -> Inodes \cup {0}]
      BY <1>16, Consts, Refs, Domains
        DEF Types, Pcs, Putting, Returns, Calls, Name, UnlinkOk, Erase, PutCur, CallPut, Goto, fileVars
    <2>5. path' \in [Procs -> Seq(Elems)]
      BY <1>16, Consts, Refs, Domains, Heads
        DEF Types, Pcs, Putting, Returns, Calls, Name, UnlinkOk, Erase, PutCur, CallPut, Goto, fileVars
    <2>6. ents' \in [Inodes -> [Elems -> Inodes \cup {0}]]
      BY <1>16, Consts, Refs, Domains, Heads
        DEF Types, Pcs, Putting, Returns, Calls, Name, UnlinkOk, Erase, PutCur, CallPut, Goto, fileVars
    <2>7. nlink' \in [Inodes -> Int]
      BY <1>16, Consts, Refs, Domains, CountType
        DEF Types, Pcs, Putting, Returns, Calls, Name, UnlinkOk, Erase, PutCur, CallPut, Goto, fileVars
    <2>8. lock' \in [Inodes -> 0..N]
      BY <1>16, LockType
        DEF Types, Pcs, Putting, Returns, Calls, Name, UnlinkOk, Erase, PutCur, CallPut, Goto, fileVars
    <2>9. valid' \in [Inodes -> BOOLEAN]
      BY <1>16, Consts, Refs, Domains
        DEF Types, Pcs, Putting, Returns, Calls, Name, UnlinkOk, Erase, PutCur, CallPut, Goto, fileVars
    <2>10. UNCHANGED <<type, ref, cwd, ofile, ip, op, fresh>>
      BY <1>16 DEF UnlinkOk, Erase, PutCur, CallPut, Goto, fileVars
    <2> QED
      BY <2>1, <2>2, <2>3, <2>4, <2>5, <2>6, <2>7, <2>8, <2>9, <2>10 DEF Types
  <1>17. CASE UnlinkDone(p)
    <2>1. pc' \in [Procs -> Pcs]
      BY <1>17, Consts, Refs, Domains
        DEF Types, Pcs, Putting, Returns, Calls, UnlinkDone, PutIp, CallPut, Goto, fileVars
    <2>2. victim' \in [Procs -> Inodes \cup {0}]
      BY <1>17, Consts, Refs, Domains
        DEF Types, Pcs, Putting, Returns, Calls, UnlinkDone, PutIp, CallPut, Goto, fileVars
    <2>3. ret' \in [Procs -> Returns \cup {"idle"}]
      BY <1>17, Consts, Refs, Domains
        DEF Types, Pcs, Putting, Returns, Calls, UnlinkDone, PutIp, CallPut, Goto, fileVars
    <2>4. ip' \in [Procs -> Inodes \cup {0}]
      BY <1>17, Consts, Refs, Domains
        DEF Types, Pcs, Putting, Returns, Calls, UnlinkDone, PutIp, CallPut, Goto, fileVars
    <2>5. nlink' \in [Inodes -> Int]
      BY <1>17, Consts, Refs, Domains, CountType
        DEF Types, Pcs, Putting, Returns, Calls, UnlinkDone, PutIp, CallPut, Goto, fileVars
    <2>6. lock' \in [Inodes -> 0..N]
      BY <1>17, LockType DEF Types, Pcs, Putting, Returns, Calls, UnlinkDone, PutIp, CallPut, Goto, fileVars
    <2>7. UNCHANGED <<type, ents, ref, valid, cwd, ofile, cur, op, path, fresh>>
      BY <1>17 DEF UnlinkDone, PutIp, CallPut, Goto, fileVars
    <2> QED
      BY <2>1, <2>2, <2>3, <2>4, <2>5, <2>6, <2>7 DEF Types
  <1>18. CASE CreateNone(p)
    <2>1. pc' \in [Procs -> Pcs]
      BY <1>18, Consts, Refs, Domains
        DEF Types, Pcs, Putting, Returns, Calls, Creates, CreateNone, Parent, PutCur, CallPut, Goto,
            inodeVars, tableVars, fileVars
    <2>2. victim' \in [Procs -> Inodes \cup {0}]
      BY <1>18, Consts, Refs, Domains
        DEF Types, Pcs, Putting, Returns, Calls, Creates, CreateNone, Parent, PutCur, CallPut, Goto,
            inodeVars, tableVars, fileVars
    <2>3. ret' \in [Procs -> Returns \cup {"idle"}]
      BY <1>18, Consts, Refs, Domains
        DEF Types, Pcs, Putting, Returns, Calls, Creates, CreateNone, Parent, PutCur, CallPut, Goto,
            inodeVars, tableVars, fileVars
    <2>4. cur' \in [Procs -> Inodes \cup {0}]
      BY <1>18, Consts, Refs, Domains
        DEF Types, Pcs, Putting, Returns, Calls, Creates, CreateNone, Parent, PutCur, CallPut, Goto,
            inodeVars, tableVars, fileVars
    <2>5. path' \in [Procs -> Seq(Elems)]
      BY <1>18, Consts, Refs, Domains, Heads
        DEF Types, Pcs, Putting, Returns, Calls, Creates, CreateNone, Parent, PutCur, CallPut, Goto,
            inodeVars, tableVars, fileVars
    <2>6. UNCHANGED <<type, nlink, ents, ref, valid, lock, cwd, ofile, ip, op, fresh>>
      BY <1>18 DEF CreateNone, Parent, PutCur, CallPut, Goto, inodeVars, tableVars, fileVars
    <2> QED
      BY <2>1, <2>2, <2>3, <2>4, <2>5, <2>6 DEF Types
  <1>19. CASE CreateTaken(p)
    <2>1. pc' \in [Procs -> Pcs]
      BY <1>19, Consts, Refs, Domains
        DEF Types, Pcs, Putting, Returns, Calls, Creates, Name, CreateTaken, Parent, Taken, iget, PutCur,
            CallPut, Goto, inodeVars, fileVars
    <2>2. victim' \in [Procs -> Inodes \cup {0}]
      BY <1>19, Consts, Refs, Domains
        DEF Types, Pcs, Putting, Returns, Calls, Creates, Name, CreateTaken, Parent, Taken, iget, PutCur,
            CallPut, Goto, inodeVars, fileVars
    <2>3. ret' \in [Procs -> Returns \cup {"idle"}]
      BY <1>19, Consts, Refs, Domains
        DEF Types, Pcs, Putting, Returns, Calls, Creates, Name, CreateTaken, Parent, Taken, iget, PutCur,
            CallPut, Goto, inodeVars, fileVars
    <2>4. cur' \in [Procs -> Inodes \cup {0}]
      BY <1>19, Consts, Refs, Domains, Lookup
        DEF Types, Pcs, Putting, Returns, Calls, Creates, Name, CreateTaken, Parent, Taken, iget, PutCur,
            CallPut, Goto, inodeVars, fileVars
    <2>5. path' \in [Procs -> Seq(Elems)]
      BY <1>19, Consts, Refs, Domains, Heads
        DEF Types, Pcs, Putting, Returns, Calls, Creates, Name, CreateTaken, Parent, Taken, iget, PutCur,
            CallPut, Goto, inodeVars, fileVars
    <2>6. ip' \in [Procs -> Inodes \cup {0}]
      BY <1>19, Consts, Refs, Domains, Lookup
        DEF Types, Pcs, Putting, Returns, Calls, Creates, Name, CreateTaken, Parent, Taken, iget, PutCur,
            CallPut, Goto, inodeVars, fileVars
    <2>7. ref' \in [Inodes -> Int]
      BY <1>19, Consts, Refs, Domains, CountType, Lookup
        DEF Types, Pcs, Putting, Returns, Calls, Creates, Name, CreateTaken, Parent, Taken, iget, PutCur,
            CallPut, Goto, inodeVars, fileVars
    <2>8. valid' \in [Inodes -> BOOLEAN]
      BY <1>19, Consts, Refs, Domains
        DEF Types, Pcs, Putting, Returns, Calls, Creates, Name, CreateTaken, Parent, Taken, iget, PutCur,
            CallPut, Goto, inodeVars, fileVars
    <2>9. UNCHANGED <<type, nlink, ents, lock, cwd, ofile, op, fresh>>
      BY <1>19 DEF CreateTaken, Parent, Taken, iget, PutCur, CallPut, Goto, inodeVars, fileVars
    <2> QED
      BY <2>1, <2>2, <2>3, <2>4, <2>5, <2>6, <2>7, <2>8, <2>9 DEF Types
  <1>20. CASE CreateExisting(p)
    <2>1. pc' \in [Procs -> Pcs]
      BY <1>20, Consts, Refs, Domains
        DEF Types, Pcs, Putting, Returns, Calls, CreateExisting, OpenIp, PutIp, CallPut, Goto, inodeVars,
            fileVars, putVars
    <2>2. victim' \in [Procs -> Inodes \cup {0}]
      BY <1>20, Consts, Refs, Domains
        DEF Types, Pcs, Putting, Returns, Calls, CreateExisting, OpenIp, PutIp, CallPut, Goto, inodeVars,
            fileVars, putVars
    <2>3. ret' \in [Procs -> Returns \cup {"idle"}]
      BY <1>20, Consts, Refs, Domains
        DEF Types, Pcs, Putting, Returns, Calls, CreateExisting, OpenIp, PutIp, CallPut, Goto, inodeVars,
            fileVars, putVars
    <2>4. ip' \in [Procs -> Inodes \cup {0}]
      BY <1>20, Consts, Refs, Domains
        DEF Types, Pcs, Putting, Returns, Calls, CreateExisting, OpenIp, PutIp, CallPut, Goto, inodeVars,
            fileVars, putVars
    <2>5. ofile' \in [Procs -> Inodes \cup {0}]
      BY <1>20, Consts, Refs, Domains
        DEF Types, Pcs, Putting, Returns, Calls, CreateExisting, OpenIp, PutIp, CallPut, Goto, inodeVars,
            fileVars, putVars
    <2>6. valid' \in [Inodes -> BOOLEAN]
      BY <1>20, Consts, Refs, Domains
        DEF Types, Pcs, Putting, Returns, Calls, CreateExisting, OpenIp, PutIp, CallPut, Goto, inodeVars,
            fileVars, putVars
    <2>7. UNCHANGED <<type, nlink, ents, ref, lock, cwd, cur, op, path, fresh>>
      BY <1>20 DEF CreateExisting, OpenIp, PutIp, CallPut, Goto, inodeVars, fileVars, putVars
    <2> QED
      BY <2>1, <2>2, <2>3, <2>4, <2>5, <2>6, <2>7 DEF Types
  <1>21. CASE CreateDone(p)
    <2>1. pc' \in [Procs -> Pcs]
      BY <1>21, Consts, Refs, Domains
        DEF Types, Pcs, Putting, Returns, Calls, CreateDone, OpenIp, PutIp, CallPut, Goto, inodeVars,
            fileVars, putVars
    <2>2. victim' \in [Procs -> Inodes \cup {0}]
      BY <1>21, Consts, Refs, Domains
        DEF Types, Pcs, Putting, Returns, Calls, CreateDone, OpenIp, PutIp, CallPut, Goto, inodeVars,
            fileVars, putVars
    <2>3. ret' \in [Procs -> Returns \cup {"idle"}]
      BY <1>21, Consts, Refs, Domains
        DEF Types, Pcs, Putting, Returns, Calls, CreateDone, OpenIp, PutIp, CallPut, Goto, inodeVars,
            fileVars, putVars
    <2>4. ip' \in [Procs -> Inodes \cup {0}]
      BY <1>21, Consts, Refs, Domains
        DEF Types, Pcs, Putting, Returns, Calls, CreateDone, OpenIp, PutIp, CallPut, Goto, inodeVars,
            fileVars, putVars
    <2>5. ofile' \in [Procs -> Inodes \cup {0}]
      BY <1>21, Consts, Refs, Domains
        DEF Types, Pcs, Putting, Returns, Calls, CreateDone, OpenIp, PutIp, CallPut, Goto, inodeVars,
            fileVars, putVars
    <2>6. lock' \in [Inodes -> 0..N]
      BY <1>21, LockType
        DEF Types, Pcs, Putting, Returns, Calls, CreateDone, OpenIp, PutIp, CallPut, Goto, inodeVars,
            fileVars, putVars
    <2>7. UNCHANGED <<type, nlink, ents, ref, valid, cwd, cur, op, path, fresh>>
      BY <1>21 DEF CreateDone, OpenIp, PutIp, CallPut, Goto, inodeVars, fileVars, putVars
    <2> QED
      BY <2>1, <2>2, <2>3, <2>4, <2>5, <2>6, <2>7 DEF Types
  <1>22. ASSUME NEW i \in Free, CreateAt(p, i)
         PROVE  Types'
    <2>1. pc' \in [Procs -> Pcs]
      BY <1>22, Consts, Refs, Domains
        DEF Types, Pcs, Putting, Returns, Calls, Creates, Name, CreateAt, NewInode, DotDot, NoEnts, Free,
            Parent, Taken, PutCur, CallPut, Goto, fileVars
    <2>2. victim' \in [Procs -> Inodes \cup {0}]
      BY <1>22, Consts, Refs, Domains
        DEF Types, Pcs, Putting, Returns, Calls, Creates, Name, CreateAt, NewInode, DotDot, NoEnts, Free,
            Parent, Taken, PutCur, CallPut, Goto, fileVars
    <2>3. ret' \in [Procs -> Returns \cup {"idle"}]
      BY <1>22, Consts, Refs, Domains
        DEF Types, Pcs, Putting, Returns, Calls, Creates, Name, CreateAt, NewInode, DotDot, NoEnts, Free,
            Parent, Taken, PutCur, CallPut, Goto, fileVars
    <2>4. cur' \in [Procs -> Inodes \cup {0}]
      BY <1>22, Consts, Refs, Domains
        DEF Types, Pcs, Putting, Returns, Calls, Creates, Name, CreateAt, NewInode, DotDot, NoEnts, Free,
            Parent, Taken, PutCur, CallPut, Goto, fileVars
    <2>5. path' \in [Procs -> Seq(Elems)]
      BY <1>22, Consts, Refs, Domains, Heads
        DEF Types, Pcs, Putting, Returns, Calls, Creates, Name, CreateAt, NewInode, DotDot, NoEnts, Free,
            Parent, Taken, PutCur, CallPut, Goto, fileVars
    <2>6. ip' \in [Procs -> Inodes \cup {0}]
      BY <1>22, Consts, Refs, Domains
        DEF Types, Pcs, Putting, Returns, Calls, Creates, Name, CreateAt, NewInode, DotDot, NoEnts, Free,
            Parent, Taken, PutCur, CallPut, Goto, fileVars
    <2>7. lock' \in [Inodes -> 0..N]
      BY <1>22, LockType
        DEF Types, Pcs, Putting, Returns, Calls, Creates, Name, CreateAt, NewInode, DotDot, NoEnts, Free,
            Parent, Taken, PutCur, CallPut, Goto, fileVars
    <2>8. ents' \in [Inodes -> [Elems -> Inodes \cup {0}]]
      BY <1>22, Consts, Refs, Domains, Heads
        DEF Types, Pcs, Putting, Returns, Calls, Creates, Name, CreateAt, NewInode, DotDot, NoEnts, Free,
            Parent, Taken, PutCur, CallPut, Goto, fileVars
    <2>9. type' \in [Inodes -> {"free", "dir", "file"}]
      BY <1>22, Consts, Refs, Domains
        DEF Types, Pcs, Putting, Returns, Calls, Creates, Name, CreateAt, NewInode, DotDot, NoEnts, Free,
            Parent, Taken, PutCur, CallPut, Goto, fileVars
    <2>10. nlink' \in [Inodes -> Int]
      <3>1. nlink' = [nlink EXCEPT ![i] = 1, ![cur[p]] = @ + (IF op[p] = "mkdir" THEN 1 ELSE 0)]
        BY <1>22 DEF CreateAt, NewInode
      <3>2. \A j \in Inodes : nlink'[j] \in Int
        BY <3>1 DEF Types
      <3>3. DOMAIN nlink' = Inodes /\ nlink' = [j \in Inodes |-> nlink'[j]]
        BY <3>1 DEF Types
      <3> QED
        BY <3>2, <3>3
    <2>11. ref' \in [Inodes -> Int]
      BY <1>22, Consts, Refs, Domains, CountType
        DEF Types, Pcs, Putting, Returns, Calls, Creates, Name, CreateAt, NewInode, DotDot, NoEnts, Free,
            Parent, Taken, PutCur, CallPut, Goto, fileVars
    <2>12. valid' \in [Inodes -> BOOLEAN]
      BY <1>22, Consts, Refs, Domains
        DEF Types, Pcs, Putting, Returns, Calls, Creates, Name, CreateAt, NewInode, DotDot, NoEnts, Free,
            Parent, Taken, PutCur, CallPut, Goto, fileVars
    <2>13. UNCHANGED <<cwd, ofile, op, fresh>>
      BY <1>22 DEF CreateAt, NewInode, DotDot, NoEnts, Free, Parent, Taken, PutCur, CallPut, Goto, fileVars
    <2> QED
      BY <2>1, <2>2, <2>3, <2>4, <2>5, <2>6, <2>7, <2>8, <2>9, <2>10, <2>11, <2>12, <2>13 DEF Types
  <1>23. ASSUME NEW i \in Free, FailAt(p, i)
         PROVE  Types'
    <2>1. pc' \in [Procs -> Pcs]
      BY <1>23, Consts, Refs, Domains
        DEF Types, Pcs, Putting, Returns, Calls, Creates, Name, FailAt, NewInode, DotDot, NoEnts, Free,
            Parent, Taken, CallPut, Goto, fileVars
    <2>2. victim' \in [Procs -> Inodes \cup {0}]
      BY <1>23, Consts, Refs, Domains
        DEF Types, Pcs, Putting, Returns, Calls, Creates, Name, FailAt, NewInode, DotDot, NoEnts, Free,
            Parent, Taken, CallPut, Goto, fileVars
    <2>3. ret' \in [Procs -> Returns \cup {"idle"}]
      BY <1>23, Consts, Refs, Domains
        DEF Types, Pcs, Putting, Returns, Calls, Creates, Name, FailAt, NewInode, DotDot, NoEnts, Free,
            Parent, Taken, CallPut, Goto, fileVars
    <2>4. lock' \in [Inodes -> 0..N]
      BY <1>23, LockType
        DEF Types, Pcs, Putting, Returns, Calls, Creates, Name, FailAt, NewInode, DotDot, NoEnts, Free,
            Parent, Taken, CallPut, Goto, fileVars
    <2>5. ents' \in [Inodes -> [Elems -> Inodes \cup {0}]]
      BY <1>23, Consts, Refs, Domains, Heads
        DEF Types, Pcs, Putting, Returns, Calls, Creates, Name, FailAt, NewInode, DotDot, NoEnts, Free,
            Parent, Taken, CallPut, Goto, fileVars
    <2>6. type' \in [Inodes -> {"free", "dir", "file"}]
      BY <1>23, Consts, Refs, Domains
        DEF Types, Pcs, Putting, Returns, Calls, Creates, Name, FailAt, NewInode, DotDot, NoEnts, Free,
            Parent, Taken, CallPut, Goto, fileVars
    <2>7. nlink' \in [Inodes -> Int]
      BY <1>23, Consts, Refs, Domains, CountType
        DEF Types, Pcs, Putting, Returns, Calls, Creates, Name, FailAt, NewInode, DotDot, NoEnts, Free,
            Parent, Taken, CallPut, Goto, fileVars
    <2>8. ref' \in [Inodes -> Int]
      BY <1>23, Consts, Refs, Domains, CountType
        DEF Types, Pcs, Putting, Returns, Calls, Creates, Name, FailAt, NewInode, DotDot, NoEnts, Free,
            Parent, Taken, CallPut, Goto, fileVars
    <2>9. valid' \in [Inodes -> BOOLEAN]
      BY <1>23, Consts, Refs, Domains
        DEF Types, Pcs, Putting, Returns, Calls, Creates, Name, FailAt, NewInode, DotDot, NoEnts, Free,
            Parent, Taken, CallPut, Goto, fileVars
    <2>10. UNCHANGED <<cwd, ofile, cur, ip, op, path, fresh>>
      BY <1>23 DEF FailAt, NewInode, DotDot, NoEnts, Free, Parent, Taken, CallPut, Goto, fileVars
    <2> QED
      BY <2>1, <2>2, <2>3, <2>4, <2>5, <2>6, <2>7, <2>8, <2>9, <2>10 DEF Types
  <1>24. CASE FailedDone(p)
    <2>1. pc' \in [Procs -> Pcs]
      BY <1>24, Consts, Refs, Domains
        DEF Types, Pcs, Putting, Returns, Calls, FailedDone, PutCur, CallPut, Goto, inodeVars, fileVars
    <2>2. victim' \in [Procs -> Inodes \cup {0}]
      BY <1>24, Consts, Refs, Domains
        DEF Types, Pcs, Putting, Returns, Calls, FailedDone, PutCur, CallPut, Goto, inodeVars, fileVars
    <2>3. ret' \in [Procs -> Returns \cup {"idle"}]
      BY <1>24, Consts, Refs, Domains
        DEF Types, Pcs, Putting, Returns, Calls, FailedDone, PutCur, CallPut, Goto, inodeVars, fileVars
    <2>4. cur' \in [Procs -> Inodes \cup {0}]
      BY <1>24, Consts, Refs, Domains
        DEF Types, Pcs, Putting, Returns, Calls, FailedDone, PutCur, CallPut, Goto, inodeVars, fileVars
    <2>5. path' \in [Procs -> Seq(Elems)]
      BY <1>24, Consts, Refs, Domains, Heads
        DEF Types, Pcs, Putting, Returns, Calls, FailedDone, PutCur, CallPut, Goto, inodeVars, fileVars
    <2>6. lock' \in [Inodes -> 0..N]
      BY <1>24, LockType
        DEF Types, Pcs, Putting, Returns, Calls, FailedDone, PutCur, CallPut, Goto, inodeVars, fileVars
    <2>7. UNCHANGED <<type, nlink, ents, ref, valid, cwd, ofile, ip, op, fresh>>
      BY <1>24 DEF FailedDone, PutCur, CallPut, Goto, inodeVars, fileVars
    <2> QED
      BY <2>1, <2>2, <2>3, <2>4, <2>5, <2>6, <2>7 DEF Types
  <1>25. CASE fileclose(p)
    <2>1. pc' \in [Procs -> Pcs]
      BY <1>25, Consts, Refs, Domains
        DEF Types, Pcs, Putting, Returns, Calls, fileclose, CallPut, Goto, inodeVars, tableVars
    <2>2. victim' \in [Procs -> Inodes \cup {0}]
      BY <1>25, Consts, Refs, Domains
        DEF Types, Pcs, Putting, Returns, Calls, fileclose, CallPut, Goto, inodeVars, tableVars
    <2>3. ret' \in [Procs -> Returns \cup {"idle"}]
      BY <1>25, Consts, Refs, Domains
        DEF Types, Pcs, Putting, Returns, Calls, fileclose, CallPut, Goto, inodeVars, tableVars
    <2>4. op' \in [Procs -> Calls \cup {"none", "reclaim"}]
      BY <1>25, Consts, Refs, Domains
        DEF Types, Pcs, Putting, Returns, Calls, fileclose, CallPut, Goto, inodeVars, tableVars
    <2>5. ofile' \in [Procs -> Inodes \cup {0}]
      BY <1>25, Consts, Refs, Domains
        DEF Types, Pcs, Putting, Returns, Calls, fileclose, CallPut, Goto, inodeVars, tableVars
    <2>6. UNCHANGED <<type, nlink, ents, ref, valid, lock, cwd, cur, ip, path, fresh>>
      BY <1>25 DEF fileclose, CallPut, Goto, inodeVars, tableVars
    <2> QED
      BY <2>1, <2>2, <2>3, <2>4, <2>5, <2>6 DEF Types
  <1>26. CASE PutRef(p)
    <2>1. pc' \in [Procs -> Pcs]
      BY <1>26, Consts, Refs, Domains
        DEF Types, Pcs, Putting, Returns, Calls, PutRef, Unref, Return, Last, Goto, inodeVars, fileVars,
            callVars
    <2>2. victim' \in [Procs -> Inodes \cup {0}]
      BY <1>26, Consts, Refs, Domains
        DEF Types, Pcs, Putting, Returns, Calls, PutRef, Unref, Return, Last, Goto, inodeVars, fileVars,
            callVars
    <2>3. ret' \in [Procs -> Returns \cup {"idle"}]
      BY <1>26, Consts, Refs, Domains
        DEF Types, Pcs, Putting, Returns, Calls, PutRef, Unref, Return, Last, Goto, inodeVars, fileVars,
            callVars
    <2>4. ref' \in [Inodes -> Int]
      BY <1>26, Consts, Refs, Domains, CountType
        DEF Types, Pcs, Putting, Returns, Calls, PutRef, Unref, Return, Last, Goto, inodeVars, fileVars,
            callVars
    <2>5. valid' \in [Inodes -> BOOLEAN]
      BY <1>26, Consts, Refs, Domains
        DEF Types, Pcs, Putting, Returns, Calls, PutRef, Unref, Return, Last, Goto, inodeVars, fileVars,
            callVars
    <2>6. UNCHANGED <<type, nlink, ents, lock, cwd, ofile, cur, ip, op, path, fresh>>
      BY <1>26 DEF PutRef, Unref, Return, Last, Goto, inodeVars, fileVars, callVars
    <2> QED
      BY <2>1, <2>2, <2>3, <2>4, <2>5, <2>6 DEF Types
  <1>27. CASE PutLast(p)
    <2>1. pc' \in [Procs -> Pcs]
      BY <1>27, Consts, Refs, Domains
        DEF Types, Pcs, Putting, Returns, Calls, PutLast, Last, Goto, inodeVars, fileVars, callVars, putVars
    <2>2. lock' \in [Inodes -> 0..N]
      BY <1>27, LockType
        DEF Types, Pcs, Putting, Returns, Calls, PutLast, Last, Goto, inodeVars, fileVars, callVars, putVars
    <2>3. UNCHANGED <<type, nlink, ents, ref, valid, cwd, ofile, cur, ip, victim, op, path, ret, fresh>>
      BY <1>27 DEF PutLast, Last, Goto, inodeVars, fileVars, callVars, putVars
    <2> QED
      BY <2>1, <2>2, <2>3 DEF Types
  <1>28. CASE Trunc(p)
    <2>1. pc' \in [Procs -> Pcs]
      BY <1>28, Consts, Refs, Domains
        DEF Types, Pcs, Putting, Returns, Calls, Trunc, NoEnts, Goto, fileVars, callVars, putVars
    <2>2. ents' \in [Inodes -> [Elems -> Inodes \cup {0}]]
      BY <1>28, Consts, Refs, Domains, Heads
        DEF Types, Pcs, Putting, Returns, Calls, Trunc, NoEnts, Goto, fileVars, callVars, putVars
    <2>3. valid' \in [Inodes -> BOOLEAN]
      BY <1>28, Consts, Refs, Domains
        DEF Types, Pcs, Putting, Returns, Calls, Trunc, NoEnts, Goto, fileVars, callVars, putVars
    <2>4. lock' \in [Inodes -> 0..N]
      BY <1>28, LockType
        DEF Types, Pcs, Putting, Returns, Calls, Trunc, NoEnts, Goto, fileVars, callVars, putVars
    <2>5. UNCHANGED <<type, nlink, ref, cwd, ofile, cur, ip, victim, op, path, ret, fresh>>
      BY <1>28 DEF Trunc, NoEnts, Goto, fileVars, callVars, putVars
    <2> QED
      BY <2>1, <2>2, <2>3, <2>4, <2>5 DEF Types
  <1>29. CASE PutUnref(p)
    <2>1. pc' \in [Procs -> Pcs]
      BY <1>29, Consts, Refs, Domains
        DEF Types, Pcs, Putting, Returns, Calls, PutUnref, Unref, Goto, inodeVars, fileVars, callVars, putVars
    <2>2. ref' \in [Inodes -> Int]
      BY <1>29, Consts, Refs, Domains, CountType
        DEF Types, Pcs, Putting, Returns, Calls, PutUnref, Unref, Goto, inodeVars, fileVars, callVars, putVars
    <2>3. valid' \in [Inodes -> BOOLEAN]
      BY <1>29, Consts, Refs, Domains
        DEF Types, Pcs, Putting, Returns, Calls, PutUnref, Unref, Goto, inodeVars, fileVars, callVars, putVars
    <2>4. UNCHANGED <<type, nlink, ents, lock, cwd, ofile, cur, ip, victim, op, path, ret, fresh>>
      BY <1>29 DEF PutUnref, Unref, Goto, inodeVars, fileVars, callVars, putVars
    <2> QED
      BY <2>1, <2>2, <2>3, <2>4 DEF Types
  <1>30. CASE ifree(p)
    <2>1. pc' \in [Procs -> Pcs]
      BY <1>30, Consts, Refs, Domains
        DEF Types, Pcs, Putting, Returns, Calls, ifree, Return, Goto, tableVars, fileVars, callVars
    <2>2. victim' \in [Procs -> Inodes \cup {0}]
      BY <1>30, Consts, Refs, Domains
        DEF Types, Pcs, Putting, Returns, Calls, ifree, Return, Goto, tableVars, fileVars, callVars
    <2>3. ret' \in [Procs -> Returns \cup {"idle"}]
      BY <1>30, Consts, Refs, Domains
        DEF Types, Pcs, Putting, Returns, Calls, ifree, Return, Goto, tableVars, fileVars, callVars
    <2>4. type' \in [Inodes -> {"free", "dir", "file"}]
      BY <1>30, Consts, Refs, Domains
        DEF Types, Pcs, Putting, Returns, Calls, ifree, Return, Goto, tableVars, fileVars, callVars
    <2>5. UNCHANGED <<nlink, ents, ref, valid, lock, cwd, ofile, cur, ip, op, path, fresh>>
      BY <1>30 DEF ifree, Return, Goto, tableVars, fileVars, callVars
    <2> QED
      BY <2>1, <2>2, <2>3, <2>4, <2>5 DEF Types
  <1>31. CASE end_op(p)
    <2>1. pc' \in [Procs -> Pcs]
      BY <1>31, Consts, Refs, Domains
        DEF Types, Pcs, Putting, Returns, Calls, end_op, commit, Goto, inodeVars, tableVars, fileVars, putVars
    <2>2. op' \in [Procs -> Calls \cup {"none", "reclaim"}]
      BY <1>31, Consts, Refs, Domains
        DEF Types, Pcs, Putting, Returns, Calls, end_op, commit, Goto, inodeVars, tableVars, fileVars, putVars
    <2>3. path' \in [Procs -> Seq(Elems)]
      BY <1>31, Consts, Refs, Domains, Heads
        DEF Types, Pcs, Putting, Returns, Calls, end_op, commit, Goto, inodeVars, tableVars, fileVars, putVars
    <2>4. UNCHANGED <<type, nlink, ents, ref, valid, lock, cwd, ofile, cur, ip, victim, ret, fresh>>
      BY <1>31 DEF end_op, commit, Goto, inodeVars, tableVars, fileVars, putVars
    <2> QED
      BY <2>1, <2>2, <2>3, <2>4 DEF Types
  <1>32. CASE Reclaim(p)
    <2>1. op' \in [Procs -> Calls \cup {"none", "reclaim"}]
      BY <1>32, Consts, Refs, Domains
        DEF Types, Pcs, Putting, Returns, Calls, Reclaim, CallPut, Goto, Orphan, inodeVars, fileVars, putVars
    <2>2. fresh' \in Nat \ {0}
      BY <1>32, Consts DEF Reclaim, Types
    <2>3. pc' \in [Procs -> Pcs]
      BY <1>32, Consts, Refs, Domains
        DEF Types, Pcs, Putting, Returns, Calls, Reclaim, CallPut, Goto, Orphan, inodeVars, fileVars, putVars
    <2>4. victim' \in [Procs -> Inodes \cup {0}]
      BY <1>32, Consts, Refs, Domains
        DEF Types, Pcs, Putting, Returns, Calls, Reclaim, CallPut, Goto, Orphan, inodeVars, fileVars, putVars
    <2>5. ret' \in [Procs -> Returns \cup {"idle"}]
      BY <1>32, Consts, Refs, Domains
        DEF Types, Pcs, Putting, Returns, Calls, Reclaim, CallPut, Goto, Orphan, inodeVars, fileVars, putVars
    <2>6. ref' \in [Inodes -> Int]
      BY <1>32, Consts, Refs, Domains, CountType
        DEF Types, Pcs, Putting, Returns, Calls, Reclaim, CallPut, Goto, Orphan, inodeVars, fileVars, putVars
    <2>7. valid' \in [Inodes -> BOOLEAN]
      BY <1>32, Consts, Refs, Domains
        DEF Types, Pcs, Putting, Returns, Calls, Reclaim, CallPut, Goto, Orphan, inodeVars, fileVars, putVars
    <2>8. UNCHANGED <<type, nlink, ents, lock, cwd, ofile, cur, ip, path>>
      BY <1>32 DEF Reclaim, CallPut, Goto, Orphan, inodeVars, fileVars, putVars
    <2> QED
      BY <2>1, <2>2, <2>3, <2>4, <2>5, <2>6, <2>7, <2>8 DEF Types
  <1> QED
    BY <1>1, <1>2, <1>3, <1>4, <1>5, <1>6, <1>7, <1>8, <1>9, <1>10, <1>11, <1>12, <1>13, <1>14,
       <1>15, <1>16, <1>17, <1>18, <1>19, <1>20, <1>21, <1>22, <1>23, <1>24, <1>25, <1>26, <1>27,
       <1>28, <1>29, <1>30, <1>31, <1>32 DEF Step

\* what a call has at each place
LEMMA CallStep ==
    ASSUME NEW p \in Procs, Types, CallInv, UNCHANGED work, Step(p)
    PROVE  CallOf(p)'
  <1>1. ASSUME NEW o \in work.ops[p], NEW q \in work.paths, Begin(p, o, q)
        PROVE  CallOf(p)'
    BY <1>1, Work, Consts, Refs, Domains
      DEF CallOf, Place, Putting, Returns, Calls, Creates, Begin, iget, Goto, StartOf, inodeVars, fileVars,
          putVars
  <1>2. CASE WalkEnds(p)
    BY <1>2, Work, Consts, Refs, Domains
      DEF CallOf, Place, Putting, Returns, Calls, Creates, WalkEnds, GiveUp, PutCur, CallPut, Goto, inodeVars,
          fileVars
  <1>3. CASE WalkParent(p)
    BY <1>3, Work, Consts, Refs, Domains
      DEF CallOf, Place, Putting, Returns, Calls, Creates, WalkParent, Goto, NotDir, WantsParent, inodeVars,
          fileVars, callVars, putVars
  <1>4. CASE WalkDown(p)
    <2>1. pc[p] = "walk" /\ path[p] \in Seq(Elems) /\ path[p] # <<>> /\ CallOf(p) /\ cur[p] # 0
      BY <1>4, Refs, Consts DEF WalkDown
    <2>2. /\ pc'[p] = "put" /\ victim'[p] = cur[p] /\ cur'[p] # 0 /\ path'[p] = Tail(path[p])
          /\ ret'[p] = IF Len(path[p]) = 1 THEN "found" ELSE "walk"
          /\ UNCHANGED <<ip, op, cwd, ofile>>
      BY <1>4, Domains DEF WalkDown, CallPut, Goto, NotDir, WantsParent, inodeVars, fileVars
    <2>3. CASE Len(path[p]) = 1
      <3>1. ~WantsParent(p)
        BY <1>4, <2>3 DEF WalkDown
      <3> QED
        BY <2>1, <2>2, <2>3, <3>1 DEF CallOf, Place, Putting, Returns, Calls, WantsParent
    <2>4. CASE Len(path[p]) # 1
      <3>1. path'[p] # <<>>
        BY <2>1, <2>2, <2>4, Heads
      <3> QED
        BY <2>1, <2>2, <2>4, <3>1 DEF CallOf, Place, Putting, Returns, Calls
    <2> QED
      BY <2>3, <2>4
  <1>5. CASE sys_open(p)
    BY <1>5, Work, Consts, Refs, Domains
      DEF CallOf, Place, Putting, Returns, Calls, Creates, sys_open, Found, Goto, inodeVars, putVars
  <1>6. CASE sys_chdir(p)
    BY <1>6, Work, Consts, Refs, Domains
      DEF CallOf, Place, Putting, Returns, Calls, Creates, sys_chdir, Found, CallPut, Goto, inodeVars
  <1>7. CASE LinkDir(p)
    BY <1>7, Work, Consts, Refs, Domains
      DEF CallOf, Place, Putting, Returns, Calls, Creates, LinkDir, Found, PutCur, CallPut, Goto, inodeVars,
          fileVars
  <1>8. CASE LinkFails(p)
    BY <1>8, Work, Consts, Refs, Domains
      DEF CallOf, Place, Putting, Returns, Calls, Creates, LinkFails, Parent, PutCur, CallPut, Goto,
          inodeVars, tableVars, fileVars
  <1>9. CASE LinkNew(p)
    BY <1>9, Work, Consts, Refs, Domains
      DEF CallOf, Place, Putting, Returns, Calls, Creates, Name, LinkNew, Parent, Taken, PutCur, CallPut,
          Goto, tableVars, fileVars
  <1>10. CASE LinkDone(p)
    BY <1>10, Work, Consts, Refs, Domains
      DEF CallOf, Place, Putting, Returns, Calls, Creates, LinkDone, PutIp, CallPut, Goto, inodeVars,
          tableVars, fileVars
  <1>11. CASE LinkBad(p)
    BY <1>11, Work, Consts, Refs, Domains
      DEF CallOf, Place, Putting, Returns, Calls, Creates, LinkBad, PutIp, CallPut, Goto, tableVars, fileVars
  <1>12. ASSUME NEW q \in work.paths, LinkOld(p, q)
         PROVE  CallOf(p)'
    BY <1>12, Work, Consts, Refs, Domains
      DEF CallOf, Place, Putting, Returns, Calls, Creates, LinkOld, SecondWalk, Found, StartOf, Goto,
          fileVars, putVars
  <1>13. CASE UnlinkNone(p)
    BY <1>13, Work, Consts, Refs, Domains
      DEF CallOf, Place, Putting, Returns, Calls, Creates, Name, UnlinkNone, Parent, PutCur, CallPut, Goto,
          inodeVars, tableVars, fileVars
  <1>14. CASE UnlinkEntry(p)
    BY <1>14, Work, Consts, Refs, Domains
      DEF CallOf, Place, Putting, Returns, Calls, Creates, Name, UnlinkEntry, Parent, Taken, iget, Goto,
          inodeVars, fileVars, putVars
  <1>15. CASE UnlinkFull(p)
    <2>1. pc[p] = "unlink" /\ CallOf(p) /\ ip[p] \in Inodes
      BY <1>15, Refs DEF UnlinkFull
    <2>2. /\ pc'[p] = "put" /\ victim'[p] = ip[p] /\ ip'[p] = 0 /\ ret'[p] = "failed"
          /\ UNCHANGED <<cur, path, op, cwd, ofile>>
      BY <1>15, Domains DEF UnlinkFull, PutIp, CallPut, Goto, inodeVars, fileVars
    <2> QED
      BY <2>1, <2>2, Consts DEF CallOf, Place, Putting, Returns
  <1>16. CASE UnlinkOk(p)
    BY <1>16, Work, Consts, Refs, Domains
      DEF CallOf, Place, Putting, Returns, Calls, Creates, Name, UnlinkOk, Erase, PutCur, CallPut, Goto,
          fileVars
  <1>17. CASE UnlinkDone(p)
    BY <1>17, Work, Consts, Refs, Domains
      DEF CallOf, Place, Putting, Returns, Calls, Creates, UnlinkDone, PutIp, CallPut, Goto, fileVars
  <1>18. CASE CreateNone(p)
    BY <1>18, Work, Consts, Refs, Domains
      DEF CallOf, Place, Putting, Returns, Calls, Creates, CreateNone, Parent, PutCur, CallPut, Goto,
          inodeVars, tableVars, fileVars
  <1>19. CASE CreateTaken(p)
    BY <1>19, Work, Consts, Refs, Domains
      DEF CallOf, Place, Putting, Returns, Calls, Creates, Name, CreateTaken, Parent, Taken, iget, PutCur,
          CallPut, Goto, inodeVars, fileVars
  <1>20. CASE CreateExisting(p)
    BY <1>20, Work, Consts, Refs, Domains
      DEF CallOf, Place, Putting, Returns, Calls, Creates, CreateExisting, OpenIp, PutIp, CallPut, Goto,
          inodeVars, fileVars, putVars
  <1>21. CASE CreateDone(p)
    BY <1>21, Work, Consts, Refs, Domains
      DEF CallOf, Place, Putting, Returns, Calls, Creates, CreateDone, OpenIp, PutIp, CallPut, Goto,
          inodeVars, fileVars, putVars
  <1>22. ASSUME NEW i \in Free, CreateAt(p, i)
         PROVE  CallOf(p)'
    BY <1>22, Work, Consts, Refs, Domains
      DEF CallOf, Place, Putting, Returns, Calls, Creates, Name, CreateAt, NewInode, DotDot, NoEnts, Free,
          Parent, Taken, PutCur, CallPut, Goto, fileVars
  <1>23. ASSUME NEW i \in Free, FailAt(p, i)
         PROVE  CallOf(p)'
    BY <1>23, Work, Consts, Refs, Domains
      DEF CallOf, Place, Putting, Returns, Calls, Creates, Name, FailAt, NewInode, DotDot, NoEnts, Free,
          Parent, Taken, CallPut, Goto, fileVars
  <1>24. CASE FailedDone(p)
    BY <1>24, Work, Consts, Refs, Domains
      DEF CallOf, Place, Putting, Returns, Calls, Creates, FailedDone, PutCur, CallPut, Goto, inodeVars,
          fileVars
  <1>25. CASE fileclose(p)
    BY <1>25, Work, Consts, Refs, Domains
      DEF CallOf, Place, Putting, Returns, Calls, Creates, fileclose, CallPut, Goto, inodeVars, tableVars
  <1>26. CASE PutRef(p)
    BY <1>26, Work, Consts, Refs, Domains
      DEF CallOf, Place, Putting, Returns, Calls, Creates, PutRef, Unref, Return, Last, Goto, inodeVars,
          fileVars, callVars
  <1>27. CASE PutLast(p)
    BY <1>27, Work, Consts, Refs, Domains
      DEF CallOf, Place, Putting, Returns, Calls, Creates, PutLast, Last, Goto, inodeVars, fileVars, callVars,
          putVars
  <1>28. CASE Trunc(p)
    BY <1>28, Work, Consts, Refs, Domains
      DEF CallOf, Place, Putting, Returns, Calls, Creates, Trunc, NoEnts, Goto, fileVars, callVars, putVars
  <1>29. CASE PutUnref(p)
    BY <1>29, Work, Consts, Refs, Domains
      DEF CallOf, Place, Putting, Returns, Calls, Creates, PutUnref, Unref, Goto, inodeVars, fileVars,
          callVars, putVars
  <1>30. CASE ifree(p)
    BY <1>30, Work, Consts, Refs, Domains
      DEF CallOf, Place, Putting, Returns, Calls, Creates, ifree, Return, Goto, tableVars, fileVars, callVars
  <1>31. CASE end_op(p)
    BY <1>31, Work, Consts, Refs, Domains
      DEF CallOf, Place, Putting, Returns, Calls, Creates, end_op, commit, Goto, inodeVars, tableVars,
          fileVars, putVars
  <1>32. CASE Reclaim(p)
    <2>1. pc[p] = "reclaim" /\ CallOf(p) /\ fresh \in Inodes /\ op'[p] = "reclaim"
          /\ UNCHANGED <<cur, path, ip, cwd, ofile>>
      BY <1>32, Refs, Domains DEF Reclaim, inodeVars, fileVars, putVars
    <2>2. CASE pc'[p] = "put" /\ victim'[p] = fresh /\ ret'[p] = "end"
      BY <2>1, <2>2, Consts DEF CallOf, Place, Putting, Returns
    <2>3. CASE UNCHANGED <<pc, victim, ret>>
      BY <2>1, <2>3 DEF CallOf, Place, Putting
    <2> QED
      BY <1>32, <2>2, <2>3, Domains DEF Reclaim, CallPut, Goto, putVars
  <1> QED
    BY <1>1, <1>2, <1>3, <1>4, <1>5, <1>6, <1>7, <1>8, <1>9, <1>10, <1>11, <1>12, <1>13, <1>14,
       <1>15, <1>16, <1>17, <1>18, <1>19, <1>20, <1>21, <1>22, <1>23, <1>24, <1>25, <1>26, <1>27,
       <1>28, <1>29, <1>30, <1>31, <1>32 DEF Step

-----------------------------------------------------------------------------
(* Reference counts *)

\* what is added to the references to i
Gains(p, i) == One(cwd'[p], i) - One(cwd[p], i) + One(ofile'[p], i) - One(ofile[p], i)
               + One(cur'[p], i) - One(cur[p], i) + One(ip'[p], i) - One(ip[p], i)
               + One(Victim'[p], i) - One(Victim[p], i)

LEMMA RefMoves ==
    ASSUME RefInv, NEW p \in Procs, Frame(p), NEW i \in Inodes, ref'[i] = ref[i] + Gains(p, i)
    PROVE  ref'[i] = Num(cwd', i) + Num(ofile', i) + Num(cur', i) + Num(ip', i) + Num(Victim', i)
  <1>1. \A q \in Procs \ {p} : /\ cwd'[q] = cwd[q] /\ ofile'[q] = ofile[q] /\ cur'[q] = cur[q]
                               /\ ip'[q] = ip[q] /\ Victim'[q] = Victim[q]
    BY FramePlace DEF Frame
  <1>2. Num(cwd', i) = Num(cwd, i) - One(cwd[p], i) + One(cwd'[p], i)
    BY <1>1, NumMoves
  <1>3. Num(ofile', i) = Num(ofile, i) - One(ofile[p], i) + One(ofile'[p], i)
    BY <1>1, NumMoves
  <1>4. Num(cur', i) = Num(cur, i) - One(cur[p], i) + One(cur'[p], i)
    BY <1>1, NumMoves
  <1>5. Num(ip', i) = Num(ip, i) - One(ip[p], i) + One(ip'[p], i)
    BY <1>1, NumMoves
  <1>6. Num(Victim', i) = Num(Victim, i) - One(Victim[p], i) + One(Victim'[p], i)
    BY <1>1, NumMoves
  <1>7. \A f : Num(f, i) \in Nat
    BY NumNat
  <1>8. \A a : One(a, i) \in Int
    BY DEF One
  <1>9. ref[i] = Num(cwd, i) + Num(ofile, i) + Num(cur, i) + Num(ip, i) + Num(Victim, i)
    BY DEF RefInv
  <1> QED
    BY <1>2, <1>3, <1>4, <1>5, <1>6, <1>7, <1>8, <1>9 DEF Gains

LEMMA Ones == /\ \A a, i : One(a, i) \in Int
              /\ \A i \in Inodes : One(0, i) = 0
  BY Consts DEF One

LEMMA RefInt == ASSUME Types PROVE \A i \in Inodes : ref[i] \in Int
  BY DEF Types

\* each step changes the count of an inode by the references it takes and drops
LEMMA GainsStep ==
    ASSUME NEW p \in Procs, Types, CallInv, UNCHANGED work, Step(p)
    PROVE  \A j \in Inodes : ref'[j] = ref[j] + Gains(p, j)
  <1>1. ASSUME NEW o \in work.ops[p], NEW q \in work.paths, Begin(p, o, q)
        PROVE  \A j \in Inodes : ref'[j] = ref[j] + Gains(p, j)
    <2>1. Victim[p] = 0 /\ Victim'[p] = 0
      BY <1>1, Refs, Domains
        DEF Victim, CallOf, Place, Putting, Begin, iget, Goto, StartOf, inodeVars, fileVars, putVars
    <2>2. cur[p] = 0 /\ cur'[p] = StartOf(p, q) /\ UNCHANGED <<cwd, ofile, ip>>
      BY <1>1, Refs, Domains
        DEF CallOf, Place, Putting, Returns, Calls, Creates, Begin, iget, Goto, StartOf, inodeVars, fileVars,
            putVars
    <2>3. \A j \in Inodes : ref'[j] = ref[j] + One(StartOf(p, q), j)
      BY <1>1, Domains, RefInt DEF One, Begin, iget, Goto, StartOf, inodeVars, fileVars, putVars
    <2>4. \A j \in Inodes : One(cur[p], j) = 0 /\ One(Victim[p], j) = 0 /\ One(Victim'[p], j) = 0
      BY <2>1, <2>2, Ones
    <2>5. \A j \in Inodes : Gains(p, j) = One(StartOf(p, q), j)
      BY <2>2, <2>4, Ones DEF Gains
    <2> QED
      BY <2>3, <2>5
  <1>2. CASE WalkEnds(p)
    <2>1. Victim[p] = 0 /\ Victim'[p] = cur[p]
      BY <1>2, Refs, Domains
        DEF Victim, CallOf, Place, Putting, WalkEnds, GiveUp, PutCur, CallPut, Goto, inodeVars, fileVars
    <2>2. cur'[p] = 0 /\ UNCHANGED <<cwd, ofile, ip>>
      BY <1>2, Refs, Domains
        DEF CallOf, Place, Putting, Returns, Calls, Creates, WalkEnds, GiveUp, PutCur, CallPut, Goto,
            inodeVars, fileVars
    <2>3. UNCHANGED ref
      BY <1>2 DEF WalkEnds, GiveUp, PutCur, CallPut, Goto, inodeVars, fileVars
    <2> QED
      BY <2>1, <2>2, <2>3, RefInt, Ones DEF Gains
  <1>3. CASE WalkParent(p)
    <2>1. Victim[p] = 0 /\ Victim'[p] = 0
      BY <1>3, Refs, Domains
        DEF Victim, CallOf, Place, Putting, WalkParent, Goto, NotDir, WantsParent, inodeVars, fileVars,
            callVars, putVars
    <2>2. UNCHANGED <<cwd, ofile, cur, ip>>
      BY <1>3, Refs, Domains
        DEF CallOf, Place, Putting, Returns, Calls, Creates, WalkParent, Goto, NotDir, WantsParent, inodeVars,
            fileVars, callVars, putVars
    <2>3. UNCHANGED ref
      BY <1>3 DEF WalkParent, Goto, NotDir, WantsParent, inodeVars, fileVars, callVars, putVars
    <2> QED
      BY <2>1, <2>2, <2>3, RefInt, Ones DEF Gains
  <1>4. CASE WalkDown(p)
    <2>1. Victim[p] = 0 /\ Victim'[p] = cur[p]
      BY <1>4, Refs, Domains
        DEF Victim, CallOf, Place, Putting, WalkDown, CallPut, Goto, NotDir, WantsParent, inodeVars, fileVars
    <2>2. cur'[p] = ents[cur[p]][path[p][1]] /\ UNCHANGED <<cwd, ofile, ip>>
      BY <1>4, Refs, Domains
        DEF CallOf, Place, Putting, Returns, Calls, Creates, WalkDown, CallPut, Goto, NotDir, WantsParent,
            inodeVars, fileVars
    <2>3. \A j \in Inodes : ref'[j] = ref[j] + One(ents[cur[p]][path[p][1]], j)
      BY <1>4, Domains, RefInt DEF One, WalkDown, CallPut, Goto, NotDir, WantsParent, inodeVars, fileVars
    <2> QED
      BY <2>1, <2>2, <2>3, RefInt, Ones DEF Gains
  <1>5. CASE sys_open(p)
    <2>1. Victim[p] = 0 /\ Victim'[p] = 0
      BY <1>5, Refs, Domains DEF Victim, CallOf, Place, Putting, sys_open, Found, Goto, inodeVars, putVars
    <2>2. ofile[p] = 0 /\ ofile'[p] = cur[p] /\ cur'[p] = 0 /\ UNCHANGED <<cwd, ip>>
      BY <1>5, Refs, Domains
        DEF CallOf, Place, Putting, Returns, Calls, Creates, sys_open, Found, Goto, inodeVars, putVars
    <2>3. UNCHANGED ref
      BY <1>5 DEF sys_open, Found, Goto, inodeVars, putVars
    <2> QED
      BY <2>1, <2>2, <2>3, RefInt, Ones DEF Gains
  <1>6. CASE sys_chdir(p)
    <2>1. pc[p] = "found" /\ victim[p] = 0
      BY <1>6, Refs DEF sys_chdir, Found, CallPut, Goto, CallOf, Place, Putting
    <2>2. UNCHANGED ref
      BY <1>6 DEF sys_chdir
    <2>3. CASE pc'[p] = "put" /\ cwd'[p] = cur[p] /\ cur'[p] = 0 /\ victim'[p] = cwd[p] /\ UNCHANGED <<ofile, ip>>
      <3>1. Victim[p] = 0 /\ Victim'[p] = victim'[p]
        BY <2>1, <2>3 DEF Victim
      <3> QED
        BY <2>1, <2>2, <2>3, <3>1, RefInt, Ones DEF Gains
    <2>4. CASE pc'[p] = "put" /\ cur'[p] = 0 /\ victim'[p] = cur[p] /\ UNCHANGED <<cwd, ofile, ip>>
      <3>1. Victim[p] = 0 /\ Victim'[p] = victim'[p]
        BY <2>1, <2>4 DEF Victim
      <3> QED
        BY <2>1, <2>2, <2>4, <3>1, RefInt, Ones DEF Gains
    <2> QED
      BY <1>6, <2>1, <2>3, <2>4, Domains DEF sys_chdir, Found, CallPut, Goto, inodeVars
  <1>7. CASE LinkDir(p)
    <2>1. Victim[p] = 0 /\ Victim'[p] = cur[p]
      BY <1>7, Refs, Domains
        DEF Victim, CallOf, Place, Putting, LinkDir, Found, PutCur, CallPut, Goto, inodeVars, fileVars
    <2>2. cur'[p] = 0 /\ UNCHANGED <<cwd, ofile, ip>>
      BY <1>7, Refs, Domains
        DEF CallOf, Place, Putting, Returns, Calls, Creates, LinkDir, Found, PutCur, CallPut, Goto, inodeVars,
            fileVars
    <2>3. UNCHANGED ref
      BY <1>7 DEF LinkDir, Found, PutCur, CallPut, Goto, inodeVars, fileVars
    <2> QED
      BY <2>1, <2>2, <2>3, RefInt, Ones DEF Gains
  <1>8. CASE LinkFails(p)
    <2>1. Victim[p] = 0 /\ Victim'[p] = cur[p]
      BY <1>8, Refs, Domains
        DEF Victim, CallOf, Place, Putting, LinkFails, Parent, PutCur, CallPut, Goto, inodeVars, tableVars,
            fileVars
    <2>2. cur'[p] = 0 /\ UNCHANGED <<cwd, ofile, ip>>
      BY <1>8, Refs, Domains
        DEF CallOf, Place, Putting, Returns, Calls, Creates, LinkFails, Parent, PutCur, CallPut, Goto,
            inodeVars, tableVars, fileVars
    <2>3. UNCHANGED ref
      BY <1>8 DEF LinkFails, Parent, PutCur, CallPut, Goto, inodeVars, tableVars, fileVars
    <2> QED
      BY <2>1, <2>2, <2>3, RefInt, Ones DEF Gains
  <1>9. CASE LinkNew(p)
    <2>1. Victim[p] = 0 /\ Victim'[p] = cur[p]
      BY <1>9, Refs, Domains
        DEF Victim, CallOf, Place, Putting, LinkNew, Parent, Taken, PutCur, CallPut, Goto, tableVars, fileVars
    <2>2. cur'[p] = 0 /\ UNCHANGED <<cwd, ofile, ip>>
      BY <1>9, Refs, Domains
        DEF CallOf, Place, Putting, Returns, Calls, Creates, LinkNew, Parent, Taken, PutCur, CallPut, Goto,
            tableVars, fileVars
    <2>3. UNCHANGED ref
      BY <1>9 DEF LinkNew, Parent, Taken, PutCur, CallPut, Goto, tableVars, fileVars
    <2> QED
      BY <2>1, <2>2, <2>3, RefInt, Ones DEF Gains
  <1>10. CASE LinkDone(p)
    <2>1. Victim[p] = 0 /\ Victim'[p] = ip[p]
      BY <1>10, Refs, Domains
        DEF Victim, CallOf, Place, Putting, LinkDone, PutIp, CallPut, Goto, inodeVars, tableVars, fileVars
    <2>2. ip'[p] = 0 /\ UNCHANGED <<cwd, ofile, cur>>
      BY <1>10, Refs, Domains
        DEF CallOf, Place, Putting, Returns, Calls, Creates, LinkDone, PutIp, CallPut, Goto, inodeVars,
            tableVars, fileVars
    <2>3. UNCHANGED ref
      BY <1>10 DEF LinkDone, PutIp, CallPut, Goto, inodeVars, tableVars, fileVars
    <2> QED
      BY <2>1, <2>2, <2>3, RefInt, Ones DEF Gains
  <1>11. CASE LinkBad(p)
    <2>1. Victim[p] = 0 /\ Victim'[p] = ip[p]
      BY <1>11, Refs, Domains
        DEF Victim, CallOf, Place, Putting, LinkBad, PutIp, CallPut, Goto, tableVars, fileVars
    <2>2. ip'[p] = 0 /\ UNCHANGED <<cwd, ofile, cur>>
      BY <1>11, Refs, Domains
        DEF CallOf, Place, Putting, Returns, Calls, Creates, LinkBad, PutIp, CallPut, Goto, tableVars,
            fileVars
    <2>3. UNCHANGED ref
      BY <1>11 DEF LinkBad, PutIp, CallPut, Goto, tableVars, fileVars
    <2> QED
      BY <2>1, <2>2, <2>3, RefInt, Ones DEF Gains
  <1>12. ASSUME NEW q \in work.paths, LinkOld(p, q)
         PROVE  \A j \in Inodes : ref'[j] = ref[j] + Gains(p, j)
    <2>1. Victim[p] = 0 /\ Victim'[p] = 0
      BY <1>12, Refs, Domains
        DEF Victim, CallOf, Place, Putting, LinkOld, SecondWalk, Found, StartOf, Goto, fileVars, putVars
    <2>2. cur'[p] = StartOf(p, q) /\ ip[p] = 0 /\ ip'[p] = cur[p] /\ UNCHANGED <<cwd, ofile>>
      BY <1>12, Refs, Domains
        DEF CallOf, Place, Putting, Returns, Calls, Creates, LinkOld, SecondWalk, Found, StartOf, Goto,
            fileVars, putVars
    <2>3. \A j \in Inodes : ref'[j] = ref[j] + One(StartOf(p, q), j)
      BY <1>12, Domains, RefInt DEF One, LinkOld, SecondWalk, Found, StartOf, Goto, fileVars, putVars
    <2>4. \A j \in Inodes : One(ip[p], j) = 0 /\ One(Victim[p], j) = 0 /\ One(Victim'[p], j) = 0
      BY <2>1, <2>2, Ones
    <2>5. \A j \in Inodes : Gains(p, j) = One(StartOf(p, q), j)
      BY <2>2, <2>4, Ones DEF Gains
    <2> QED
      BY <2>3, <2>5
  <1>13. CASE UnlinkNone(p)
    <2>1. Victim[p] = 0 /\ Victim'[p] = cur[p]
      BY <1>13, Refs, Domains
        DEF Victim, CallOf, Place, Putting, UnlinkNone, Parent, PutCur, CallPut, Goto, inodeVars, tableVars,
            fileVars
    <2>2. cur'[p] = 0 /\ UNCHANGED <<cwd, ofile, ip>>
      BY <1>13, Refs, Domains
        DEF CallOf, Place, Putting, Returns, Calls, Creates, UnlinkNone, Parent, PutCur, CallPut, Goto,
            inodeVars, tableVars, fileVars
    <2>3. UNCHANGED ref
      BY <1>13 DEF UnlinkNone, Parent, PutCur, CallPut, Goto, inodeVars, tableVars, fileVars
    <2> QED
      BY <2>1, <2>2, <2>3, RefInt, Ones DEF Gains
  <1>14. CASE UnlinkEntry(p)
    <2>1. Victim[p] = 0 /\ Victim'[p] = 0
      BY <1>14, Refs, Domains
        DEF Victim, CallOf, Place, Putting, UnlinkEntry, Parent, Taken, iget, Goto, inodeVars, fileVars,
            putVars
    <2>2. ip[p] = 0 /\ ip'[p] = ents[cur[p]][Name(p)] /\ UNCHANGED <<cwd, ofile, cur>>
      BY <1>14, Refs, Domains
        DEF CallOf, Place, Putting, Returns, Calls, Creates, UnlinkEntry, Parent, Taken, iget, Goto,
            inodeVars, fileVars, putVars
    <2>3. \A j \in Inodes : ref'[j] = ref[j] + One(ents[cur[p]][Name(p)], j)
      BY <1>14, Domains, RefInt DEF One, UnlinkEntry, Parent, Taken, iget, Goto, inodeVars, fileVars, putVars
    <2> QED
      BY <2>1, <2>2, <2>3, RefInt, Ones DEF Gains
  <1>15. CASE UnlinkFull(p)
    <2>1. Victim[p] = 0 /\ Victim'[p] = ip[p]
      BY <1>15, Refs, Domains
        DEF Victim, CallOf, Place, Putting, UnlinkFull, PutIp, CallPut, Goto, inodeVars, fileVars
    <2>2. ip'[p] = 0 /\ UNCHANGED <<cwd, ofile, cur>>
      BY <1>15, Refs, Domains
        DEF CallOf, Place, Putting, Returns, Calls, Creates, UnlinkFull, PutIp, CallPut, Goto, inodeVars,
            fileVars
    <2>3. UNCHANGED ref
      BY <1>15 DEF UnlinkFull, PutIp, CallPut, Goto, inodeVars, fileVars
    <2> QED
      BY <2>1, <2>2, <2>3, RefInt, Ones DEF Gains
  <1>16. CASE UnlinkOk(p)
    <2>1. Victim[p] = 0 /\ Victim'[p] = cur[p]
      BY <1>16, Refs, Domains
        DEF Victim, CallOf, Place, Putting, UnlinkOk, Erase, PutCur, CallPut, Goto, fileVars
    <2>2. cur'[p] = 0 /\ UNCHANGED <<cwd, ofile, ip>>
      BY <1>16, Refs, Domains
        DEF CallOf, Place, Putting, Returns, Calls, Creates, UnlinkOk, Erase, PutCur, CallPut, Goto, fileVars
    <2>3. UNCHANGED ref
      BY <1>16 DEF UnlinkOk, Erase, PutCur, CallPut, Goto, fileVars
    <2> QED
      BY <2>1, <2>2, <2>3, RefInt, Ones DEF Gains
  <1>17. CASE UnlinkDone(p)
    <2>1. Victim[p] = 0 /\ Victim'[p] = ip[p]
      BY <1>17, Refs, Domains DEF Victim, CallOf, Place, Putting, UnlinkDone, PutIp, CallPut, Goto, fileVars
    <2>2. ip'[p] = 0 /\ UNCHANGED <<cwd, ofile, cur>>
      BY <1>17, Refs, Domains
        DEF CallOf, Place, Putting, Returns, Calls, Creates, UnlinkDone, PutIp, CallPut, Goto, fileVars
    <2>3. UNCHANGED ref
      BY <1>17 DEF UnlinkDone, PutIp, CallPut, Goto, fileVars
    <2> QED
      BY <2>1, <2>2, <2>3, RefInt, Ones DEF Gains
  <1>18. CASE CreateNone(p)
    <2>1. Victim[p] = 0 /\ Victim'[p] = cur[p]
      BY <1>18, Refs, Domains
        DEF Victim, CallOf, Place, Putting, CreateNone, Parent, PutCur, CallPut, Goto, inodeVars, tableVars,
            fileVars
    <2>2. cur'[p] = 0 /\ UNCHANGED <<cwd, ofile, ip>>
      BY <1>18, Refs, Domains
        DEF CallOf, Place, Putting, Returns, Calls, Creates, CreateNone, Parent, PutCur, CallPut, Goto,
            inodeVars, tableVars, fileVars
    <2>3. UNCHANGED ref
      BY <1>18 DEF CreateNone, Parent, PutCur, CallPut, Goto, inodeVars, tableVars, fileVars
    <2> QED
      BY <2>1, <2>2, <2>3, RefInt, Ones DEF Gains
  <1>19. CASE CreateTaken(p)
    <2>1. Victim[p] = 0 /\ Victim'[p] = cur[p]
      BY <1>19, Refs, Domains
        DEF Victim, CallOf, Place, Putting, CreateTaken, Parent, Taken, iget, PutCur, CallPut, Goto,
            inodeVars, fileVars
    <2>2. cur'[p] = 0 /\ ip[p] = 0 /\ ip'[p] = ents[cur[p]][Name(p)] /\ UNCHANGED <<cwd, ofile>>
      BY <1>19, Refs, Domains
        DEF CallOf, Place, Putting, Returns, Calls, Creates, CreateTaken, Parent, Taken, iget, PutCur,
            CallPut, Goto, inodeVars, fileVars
    <2>3. \A j \in Inodes : ref'[j] = ref[j] + One(ents[cur[p]][Name(p)], j)
      BY <1>19, Domains, RefInt
        DEF One, CreateTaken, Parent, Taken, iget, PutCur, CallPut, Goto, inodeVars, fileVars
    <2> QED
      BY <2>1, <2>2, <2>3, RefInt, Ones DEF Gains
  <1>20. CASE CreateExisting(p)
    <2>1. pc[p] = "existing" /\ victim[p] = 0 /\ (op[p] = "creat" => ofile[p] = 0)
      BY <1>20, Refs DEF CreateExisting, OpenIp, PutIp, CallPut, Goto, CallOf, Place, Putting
    <2>2. UNCHANGED ref
      BY <1>20 DEF CreateExisting
    <2>3. CASE op[p] = "creat" /\ pc'[p] = "end" /\ ofile'[p] = ip[p] /\ ip'[p] = 0 /\ UNCHANGED <<cwd, cur, victim>>
      <3>1. Victim[p] = 0 /\ Victim'[p] = 0
        BY <2>1, <2>3 DEF Victim
      <3>2. \A j \in Inodes : /\ One(Victim[p], j) = 0 /\ One(Victim'[p], j) = 0
                             /\ One(ofile[p], j) = 0 /\ One(ip'[p], j) = 0
        BY <2>1, <2>3, <3>1, Ones
      <3>3. \A j \in Inodes : Gains(p, j) = 0
        BY <2>3, <3>2, Ones DEF Gains
      <3> QED
        BY <2>2, <3>3, RefInt
    <2>4. CASE pc'[p] = "put" /\ ip'[p] = 0 /\ victim'[p] = ip[p] /\ UNCHANGED <<cwd, ofile, cur>>
      <3>1. Victim[p] = 0 /\ Victim'[p] = victim'[p]
        BY <2>1, <2>4 DEF Victim
      <3> QED
        BY <2>1, <2>2, <2>4, <3>1, RefInt, Ones DEF Gains
    <2> QED
      BY <1>20, <2>1, <2>3, <2>4, Domains
        DEF CreateExisting, OpenIp, PutIp, CallPut, Goto, inodeVars, fileVars, putVars
  <1>21. CASE CreateDone(p)
    <2>1. pc[p] = "created" /\ victim[p] = 0 /\ (op[p] = "creat" => ofile[p] = 0)
      BY <1>21, Refs DEF CreateDone, OpenIp, PutIp, CallPut, Goto, CallOf, Place, Putting
    <2>2. UNCHANGED ref
      BY <1>21 DEF CreateDone
    <2>3. CASE op[p] = "creat" /\ pc'[p] = "end" /\ ofile'[p] = ip[p] /\ ip'[p] = 0 /\ UNCHANGED <<cwd, cur, victim>>
      <3>1. Victim[p] = 0 /\ Victim'[p] = 0
        BY <2>1, <2>3 DEF Victim
      <3>2. \A j \in Inodes : /\ One(Victim[p], j) = 0 /\ One(Victim'[p], j) = 0
                             /\ One(ofile[p], j) = 0 /\ One(ip'[p], j) = 0
        BY <2>1, <2>3, <3>1, Ones
      <3>3. \A j \in Inodes : Gains(p, j) = 0
        BY <2>3, <3>2, Ones DEF Gains
      <3> QED
        BY <2>2, <3>3, RefInt
    <2>4. CASE pc'[p] = "put" /\ ip'[p] = 0 /\ victim'[p] = ip[p] /\ UNCHANGED <<cwd, ofile, cur>>
      <3>1. Victim[p] = 0 /\ Victim'[p] = victim'[p]
        BY <2>1, <2>4 DEF Victim
      <3> QED
        BY <2>1, <2>2, <2>4, <3>1, RefInt, Ones DEF Gains
    <2> QED
      BY <1>21, <2>1, <2>3, <2>4, Domains
        DEF CreateDone, OpenIp, PutIp, CallPut, Goto, inodeVars, fileVars, putVars
  <1>22. ASSUME NEW i \in Free, CreateAt(p, i)
         PROVE  \A j \in Inodes : ref'[j] = ref[j] + Gains(p, j)
    <2>1. Victim[p] = 0 /\ Victim'[p] = cur[p]
      BY <1>22, Refs, Domains
        DEF Victim, CallOf, Place, Putting, CreateAt, NewInode, DotDot, NoEnts, Free, Parent, Taken, PutCur,
            CallPut, Goto, fileVars
    <2>2. cur'[p] = 0 /\ ip[p] = 0 /\ ip'[p] = i /\ UNCHANGED <<cwd, ofile>>
      BY <1>22, Refs, Domains
        DEF CallOf, Place, Putting, Returns, Calls, Creates, CreateAt, NewInode, DotDot, NoEnts, Free, Parent,
            Taken, PutCur, CallPut, Goto, fileVars
    <2>3. \A j \in Inodes : ref'[j] = ref[j] + One(i, j)
      BY <1>22, Domains, RefInt
        DEF One, CreateAt, NewInode, DotDot, NoEnts, Free, Parent, Taken, PutCur, CallPut, Goto, fileVars
    <2> QED
      BY <2>1, <2>2, <2>3, RefInt, Ones DEF Gains
  <1>23. ASSUME NEW i \in Free, FailAt(p, i)
         PROVE  \A j \in Inodes : ref'[j] = ref[j] + Gains(p, j)
    <2>1. Victim[p] = 0 /\ Victim'[p] = i
      BY <1>23, Refs, Domains
        DEF Victim, CallOf, Place, Putting, FailAt, NewInode, DotDot, NoEnts, Free, Parent, Taken, CallPut,
            Goto, fileVars
    <2>2. UNCHANGED <<cwd, ofile, cur, ip>>
      BY <1>23, Refs, Domains
        DEF CallOf, Place, Putting, Returns, Calls, Creates, FailAt, NewInode, DotDot, NoEnts, Free, Parent,
            Taken, CallPut, Goto, fileVars
    <2>3. \A j \in Inodes : ref'[j] = ref[j] + One(i, j)
      BY <1>23, Domains, RefInt
        DEF One, FailAt, NewInode, DotDot, NoEnts, Free, Parent, Taken, CallPut, Goto, fileVars
    <2> QED
      BY <2>1, <2>2, <2>3, RefInt, Ones DEF Gains
  <1>24. CASE FailedDone(p)
    <2>1. Victim[p] = 0 /\ Victim'[p] = cur[p]
      BY <1>24, Refs, Domains
        DEF Victim, CallOf, Place, Putting, FailedDone, PutCur, CallPut, Goto, inodeVars, fileVars
    <2>2. cur'[p] = 0 /\ UNCHANGED <<cwd, ofile, ip>>
      BY <1>24, Refs, Domains
        DEF CallOf, Place, Putting, Returns, Calls, Creates, FailedDone, PutCur, CallPut, Goto, inodeVars,
            fileVars
    <2>3. UNCHANGED ref
      BY <1>24 DEF FailedDone, PutCur, CallPut, Goto, inodeVars, fileVars
    <2> QED
      BY <2>1, <2>2, <2>3, RefInt, Ones DEF Gains
  <1>25. CASE fileclose(p)
    <2>1. Victim[p] = 0 /\ Victim'[p] = ofile[p]
      BY <1>25, Refs, Domains
        DEF Victim, CallOf, Place, Putting, fileclose, CallPut, Goto, inodeVars, tableVars
    <2>2. ofile'[p] = 0 /\ UNCHANGED <<cwd, cur, ip>>
      BY <1>25, Refs, Domains
        DEF CallOf, Place, Putting, Returns, Calls, Creates, fileclose, CallPut, Goto, inodeVars, tableVars
    <2>3. UNCHANGED ref
      BY <1>25 DEF fileclose, CallPut, Goto, inodeVars, tableVars
    <2> QED
      BY <2>1, <2>2, <2>3, RefInt, Ones DEF Gains
  <1>26. CASE PutRef(p)
    <2>1. Victim[p] = victim[p] /\ Victim'[p] = 0
      BY <1>26, Refs, Domains
        DEF Victim, CallOf, Place, Putting, PutRef, Unref, Return, Last, Goto, inodeVars, fileVars, callVars
    <2>2. UNCHANGED <<cwd, ofile, cur, ip>>
      BY <1>26, Refs, Domains
        DEF CallOf, Place, Putting, Returns, Calls, Creates, PutRef, Unref, Return, Last, Goto, inodeVars,
            fileVars, callVars
    <2>3. \A j \in Inodes : ref'[j] = ref[j] - One(victim[p], j)
      BY <1>26, Domains, RefInt DEF One, PutRef, Unref, Return, Last, Goto, inodeVars, fileVars, callVars
    <2> QED
      BY <2>1, <2>2, <2>3, RefInt, Ones DEF Gains
  <1>27. CASE PutLast(p)
    <2>1. Victim[p] = victim[p] /\ Victim'[p] = victim[p]
      BY <1>27, Refs, Domains
        DEF Victim, CallOf, Place, Putting, PutLast, Last, Goto, inodeVars, fileVars, callVars, putVars
    <2>2. UNCHANGED <<cwd, ofile, cur, ip>>
      BY <1>27, Refs, Domains
        DEF CallOf, Place, Putting, Returns, Calls, Creates, PutLast, Last, Goto, inodeVars, fileVars,
            callVars, putVars
    <2>3. UNCHANGED ref
      BY <1>27 DEF PutLast, Last, Goto, inodeVars, fileVars, callVars, putVars
    <2> QED
      BY <2>1, <2>2, <2>3, RefInt, Ones DEF Gains
  <1>28. CASE Trunc(p)
    <2>1. Victim[p] = victim[p] /\ Victim'[p] = victim[p]
      BY <1>28, Refs, Domains
        DEF Victim, CallOf, Place, Putting, Trunc, NoEnts, Goto, fileVars, callVars, putVars
    <2>2. UNCHANGED <<cwd, ofile, cur, ip>>
      BY <1>28, Refs, Domains
        DEF CallOf, Place, Putting, Returns, Calls, Creates, Trunc, NoEnts, Goto, fileVars, callVars, putVars
    <2>3. UNCHANGED ref
      BY <1>28 DEF Trunc, NoEnts, Goto, fileVars, callVars, putVars
    <2> QED
      BY <2>1, <2>2, <2>3, RefInt, Ones DEF Gains
  <1>29. CASE PutUnref(p)
    <2>1. Victim[p] = victim[p] /\ Victim'[p] = 0
      BY <1>29, Refs, Domains
        DEF Victim, CallOf, Place, Putting, PutUnref, Unref, Goto, inodeVars, fileVars, callVars, putVars
    <2>2. UNCHANGED <<cwd, ofile, cur, ip>>
      BY <1>29, Refs, Domains
        DEF CallOf, Place, Putting, Returns, Calls, Creates, PutUnref, Unref, Goto, inodeVars, fileVars,
            callVars, putVars
    <2>3. \A j \in Inodes : ref'[j] = ref[j] - One(victim[p], j)
      BY <1>29, Domains, RefInt DEF One, PutUnref, Unref, Goto, inodeVars, fileVars, callVars, putVars
    <2> QED
      BY <2>1, <2>2, <2>3, RefInt, Ones DEF Gains
  <1>30. CASE ifree(p)
    <2>1. Victim[p] = 0 /\ Victim'[p] = 0
      BY <1>30, Refs, Domains
        DEF Victim, CallOf, Place, Putting, ifree, Return, Goto, tableVars, fileVars, callVars
    <2>2. UNCHANGED <<cwd, ofile, cur, ip>>
      BY <1>30, Refs, Domains
        DEF CallOf, Place, Putting, Returns, Calls, Creates, ifree, Return, Goto, tableVars, fileVars,
            callVars
    <2>3. UNCHANGED ref
      BY <1>30 DEF ifree, Return, Goto, tableVars, fileVars, callVars
    <2> QED
      BY <2>1, <2>2, <2>3, RefInt, Ones DEF Gains
  <1>31. CASE end_op(p)
    <2>1. Victim[p] = 0 /\ Victim'[p] = 0
      BY <1>31, Refs, Domains
        DEF Victim, CallOf, Place, Putting, end_op, commit, Goto, inodeVars, tableVars, fileVars, putVars
    <2>2. UNCHANGED <<cwd, ofile, cur, ip>>
      BY <1>31, Refs, Domains
        DEF CallOf, Place, Putting, Returns, Calls, Creates, end_op, commit, Goto, inodeVars, tableVars,
            fileVars, putVars
    <2>3. UNCHANGED ref
      BY <1>31 DEF end_op, commit, Goto, inodeVars, tableVars, fileVars, putVars
    <2> QED
      BY <2>1, <2>2, <2>3, RefInt, Ones DEF Gains
  <1>32. CASE Reclaim(p)
    <2>1. pc[p] = "reclaim" /\ victim[p] = 0
      BY <1>32, Refs DEF Reclaim, CallOf, Putting
    <2>2. fresh \in Inodes /\ UNCHANGED <<cwd, ofile, cur, ip>>
      BY <1>32 DEF Reclaim, fileVars
    <2>3. CASE UNCHANGED <<ref, pc, victim>>
      <3>1. Victim[p] = 0 /\ Victim'[p] = 0
        BY <2>1, <2>3 DEF Victim
      <3> QED
        BY <2>2, <2>3, <3>1, RefInt DEF Gains, One
    <2>4. CASE ref' = [ref EXCEPT ![fresh] = @ + 1] /\ pc'[p] = "put" /\ victim'[p] = fresh
      <3>1. Victim[p] = 0 /\ Victim'[p] = fresh
        BY <2>1, <2>4 DEF Victim
      <3>2. \A j \in Inodes : ref'[j] = ref[j] + One(fresh, j)
        BY <2>2, <2>4, RefInt, Domains DEF One
      <3> QED
        BY <2>2, <3>1, <3>2, RefInt, Ones DEF Gains
    <2> QED
      BY <1>32, <2>3, <2>4, Domains DEF Reclaim, CallPut, Goto, putVars
  <1> QED
    BY <1>1, <1>2, <1>3, <1>4, <1>5, <1>6, <1>7, <1>8, <1>9, <1>10, <1>11, <1>12, <1>13, <1>14,
       <1>15, <1>16, <1>17, <1>18, <1>19, <1>20, <1>21, <1>22, <1>23, <1>24, <1>25, <1>26, <1>27,
       <1>28, <1>29, <1>30, <1>31, <1>32 DEF Step

-----------------------------------------------------------------------------
(* What the invariant says of the inodes that a process has at hand *)

\* whoever refers to an inode keeps it from being freed
LEMMA Holds ==
    ASSUME Types, RefInv, NEW p \in Procs, NEW i \in Inodes,
           cwd[p] = i \/ ofile[p] = i \/ cur[p] = i \/ ip[p] = i \/ Victim[p] = i
    PROVE  ref[i] > 0 /\ type[i] # "free"
  <1>1. /\ Num(cwd, i) \in Nat /\ Num(ofile, i) \in Nat /\ Num(cur, i) \in Nat
        /\ Num(ip, i) \in Nat /\ Num(Victim, i) \in Nat
    BY NumNat
  <1>2. \/ Num(cwd, i) > 0 \/ Num(ofile, i) > 0 \/ Num(cur, i) > 0
        \/ Num(ip, i) > 0 \/ Num(Victim, i) > 0
    BY NumPos
  <1>3. ref[i] = Num(cwd, i) + Num(ofile, i) + Num(cur, i) + Num(ip, i) + Num(Victim, i)
    BY DEF RefInv
  <1>4. ref[i] > 0
    BY <1>1, <1>2, <1>3
  <1> QED
    BY <1>4 DEF RefInv

LEMMA Removed ==
    ASSUME Types, CallInv, LockInv, NEW d \in Removing
    PROVE  d \in Inodes /\ lock[d] # 0
  <1>1. PICK q \in Procs : Place(q) = "unlinked" /\ ip[q] = d
    BY DEF Removing
  <1>2. d \in Inodes
    BY <1>1 DEF CallInv, CallOf, Types
  <1>3. Holder(q, d)
    BY <1>1 DEF Holder
  <1> QED
    BY <1>2, <1>3, Consts DEF LockInv

\* a directory that is not locked and has links may be used
LEMMA Usable ==
    ASSUME Types, CallInv, LockInv, TreeInv, NEW d \in Inodes,
           lock[d] = 0, type[d] = "dir", nlink[d] # 0
    PROVE  LiveDir(type, nlink, Removing, d)
  <1>1. nlink[d] \in Int /\ nlink[d] >= 0
    BY DEF Types, TreeInv
  <1> QED
    BY <1>1, Removed DEF LiveDir

LEMMA IntoCount ==
    ASSUME NEW ty, NEW nl, NEW en, NEW out, NEW i
    PROVE  /\ IsFiniteSet(Into(ty, nl, en, out, i))
           /\ Cardinality(Into(ty, nl, en, out, i)) \in Nat
  <1>1. IsFiniteSet(Inodes \X Elems)
    BY Consts, FS_Product
  <1>2. Into(ty, nl, en, out, i) \subseteq Inodes \X Elems
    BY DEF Into
  <1> QED
    BY <1>1, <1>2, FS_Subset, FS_CardinalityType

LEMMA IntoPos ==
    ASSUME NEW ty, NEW nl, NEW en, NEW out, NEW i, NEW e \in Into(ty, nl, en, out, i)
    PROVE  Cardinality(Into(ty, nl, en, out, i)) > 0
  <1>1. Cardinality(Into(ty, nl, en, out, i)) # 0
    BY IntoCount, FS_EmptySet
  <1> QED
    BY <1>1, IntoCount

\* no entry of such a directory leads to an inode that has no links
LEMMA Leads ==
    ASSUME Types, TreeInv, NEW d \in Inodes, NEW n \in Elems,
           LiveDir(type, nlink, Removing, d), ents[d][n] # 0
    PROVE  /\ ents[d][n] \in Inodes /\ type[ents[d][n]] # "free" /\ nlink[ents[d][n]] > 0
           /\ n \in Names /\ type[ents[d][n]] = "dir" => LiveDir(type, nlink, Removing, ents[d][n])
  <1> DEFINE i == ents[d][n]
  <1>1. i \in Inodes
    BY DEF Types
  <1>2. DirOk(type, nlink, ents, Removing, d)
    BY DEF TreeInv, Tree
  <1>3. CASE n = ".."
    BY <1>1, <1>2, <1>3, Consts DEF DirOk, LiveDir
  <1>4. CASE n # ".."
    <2>1. n \in Names
      BY <1>4 DEF Elems
    <2>2. type[i] # "free" /\ (type[i] = "dir" => LiveDir(type, nlink, Removing, i))
      BY <1>2, <2>1 DEF DirOk
    <2>3. <<d, n>> \in Into(type, nlink, ents, Removing, i)
      BY <1>4 DEF Into
    <2>4. Cardinality(Into(type, nlink, ents, Removing, i)) > 0
      BY <2>3, IntoPos
    <2>5. nlink[i] = Cardinality(Into(type, nlink, ents, Removing, i)) + Num(Owed, i) + One(i, Root)
      BY <1>1, <2>2 DEF TreeInv, Counted
    <2>6. Num(Owed, i) \in Nat /\ One(i, Root) \in {0, 1}
      BY NumNat DEF One
    <2>7. nlink[i] > 0
      BY <2>4, <2>5, <2>6, IntoCount
    <2> QED
      BY <1>1, <2>1, <2>2, <2>7
  <1> QED
    BY <1>3, <1>4

\* an inode that a call owes a link has one
LEMMA OwedPos ==
    ASSUME Types, TreeInv, NEW p \in Procs, NEW i \in Inodes, Owed[p] = i, type[i] # "free"
    PROVE  nlink[i] > 0
  <1>1. Num(Owed, i) > 0 /\ Num(Owed, i) \in Nat
    BY NumPos, NumNat
  <1>2. nlink[i] = Cardinality(Into(type, nlink, ents, Removing, i)) + Num(Owed, i) + One(i, Root)
    BY DEF TreeInv, Counted
  <1>3. One(i, Root) \in {0, 1}
    BY DEF One
  <1> QED
    BY <1>1, <1>2, <1>3, IntoCount

\* the directory in which a call looks for a name
LEMMA Looked ==
    ASSUME Types, CallInv, LockInv, TreeInv, NEW p \in Procs, pc[p] \in {"walk", "parent"},
           lock[cur[p]] = 0, type[cur[p]] = "dir", nlink[cur[p]] # 0, ents[cur[p]][path[p][1]] # 0
    PROVE  LET i == ents[cur[p]][path[p][1]]
           IN  /\ LiveDir(type, nlink, Removing, cur[p]) /\ path[p][1] \in Elems
               /\ i \in Inodes /\ type[i] # "free" /\ nlink[i] > 0
               /\ path[p][1] \in Names /\ type[i] = "dir" => LiveDir(type, nlink, Removing, i)
  <1>1. cur[p] \in Inodes /\ path[p][1] \in Elems
    BY Refs, Heads
  <1>2. LiveDir(type, nlink, Removing, cur[p])
    BY <1>1, Usable
  <1> QED
    BY <1>1, <1>2, Leads

\* what unlink() and create() find under a name is not being removed
LEMMA FoundName ==
    ASSUME Types, CallInv, LockInv, TreeInv, NodeInv, NEW p \in Procs, pc[p] = "parent",
           lock[cur[p]] = 0, Name(p) # ".." \/ nlink[cur[p]] # 0, ents[cur[p]][Name(p)] # 0
    PROVE  LET i == ents[cur[p]][Name(p)]
           IN  /\ LiveDir(type, nlink, Removing, cur[p]) /\ Name(p) \in Elems
               /\ i \in Inodes /\ type[i] # "free" /\ nlink[i] > 0
               /\ Name(p) \in Names /\ type[i] = "dir" => LiveDir(type, nlink, Removing, i)
  <1>1. cur[p] \in Inodes /\ Name(p) \in Elems
    BY Refs, Heads DEF Name
  <1>2. type[cur[p]] = "dir"
    BY DEF NodeInv, NodeOf, Place, Putting
  <1>3. nlink[cur[p]] # 0
    <2>1. CASE Name(p) # ".."
      BY <1>1, <1>2, <2>1 DEF TreeInv, Empty, Elems
    <2> QED
      BY <2>1
  <1> QED
    BY <1>1, <1>2, <1>3, Looked DEF Name

-----------------------------------------------------------------------------
(* Reference counts, after each step *)

\* an inode in use is not free
LEMMA AliveStep ==
    ASSUME NEW p \in Procs, Types, CallInv, RefInv, LockInv, FreeInv,
           TreeInv, NodeInv, Step(p)
    PROVE  \A j \in Inodes : ref'[j] > 0 => type'[j] # "free"
  <1>1. ASSUME NEW o \in work.ops[p], NEW q \in work.paths, Begin(p, o, q)
        PROVE  \A j \in Inodes : ref'[j] > 0 => type'[j] # "free"
    <2>1. UNCHANGED type /\ \A j \in Inodes : j # StartOf(p, q) => ref'[j] = ref[j]
      BY <1>1, Domains DEF Begin, iget, Goto, StartOf, inodeVars, fileVars, putVars
    <2>2. type[Root] # "free"
      BY DEF TreeInv, Tree, LiveDir
    <2>3. cwd[p] \in Inodes
      BY <1>1, Refs DEF Begin
    <2>4. type[StartOf(p, q)] # "free"
      BY <2>2, <2>3, Holds DEF StartOf
    <2> QED
      BY <2>1, <2>4 DEF RefInv
  <1>2. CASE WalkEnds(p)
    BY <1>2 DEF RefInv, WalkEnds, GiveUp, PutCur, CallPut, Goto, inodeVars, fileVars
  <1>3. CASE WalkParent(p)
    BY <1>3 DEF RefInv, WalkParent, Goto, NotDir, WantsParent, inodeVars, fileVars, callVars, putVars
  <1>4. CASE WalkDown(p)
    <2>1. UNCHANGED type /\ \A j \in Inodes : j # ents[cur[p]][path[p][1]] => ref'[j] = ref[j]
      BY <1>4, Domains DEF WalkDown, CallPut, Goto, NotDir, WantsParent, inodeVars, fileVars
    <2>2. type[ents[cur[p]][path[p][1]]] # "free"
      BY <1>4, Looked DEF WalkDown, NotDir, ilocked
    <2> QED
      BY <2>1, <2>2 DEF RefInv
  <1>5. CASE sys_open(p)
    BY <1>5 DEF RefInv, sys_open, Found, Goto, inodeVars, putVars
  <1>6. CASE sys_chdir(p)
    BY <1>6 DEF RefInv, sys_chdir, Found, CallPut, Goto, inodeVars
  <1>7. CASE LinkDir(p)
    BY <1>7 DEF RefInv, LinkDir, Found, PutCur, CallPut, Goto, inodeVars, fileVars
  <1>8. CASE LinkFails(p)
    BY <1>8 DEF RefInv, LinkFails, Parent, PutCur, CallPut, Goto, inodeVars, tableVars, fileVars
  <1>9. CASE LinkNew(p)
    BY <1>9 DEF RefInv, LinkNew, Parent, Taken, PutCur, CallPut, Goto, tableVars, fileVars
  <1>10. CASE LinkDone(p)
    BY <1>10 DEF RefInv, LinkDone, PutIp, CallPut, Goto, inodeVars, tableVars, fileVars
  <1>11. CASE LinkBad(p)
    BY <1>11 DEF RefInv, LinkBad, PutIp, CallPut, Goto, tableVars, fileVars
  <1>12. ASSUME NEW q \in work.paths, LinkOld(p, q)
         PROVE  \A j \in Inodes : ref'[j] > 0 => type'[j] # "free"
    <2>1. UNCHANGED type /\ \A j \in Inodes : j # StartOf(p, q) => ref'[j] = ref[j]
      BY <1>12, Domains DEF LinkOld, SecondWalk, Found, StartOf, Goto, fileVars, putVars
    <2>2. type[Root] # "free"
      BY DEF TreeInv, Tree, LiveDir
    <2>3. cwd[p] \in Inodes
      BY <1>12, Refs DEF LinkOld, SecondWalk, Found
    <2>4. type[StartOf(p, q)] # "free"
      BY <2>2, <2>3, Holds DEF StartOf
    <2> QED
      BY <2>1, <2>4 DEF RefInv
  <1>13. CASE UnlinkNone(p)
    BY <1>13 DEF RefInv, UnlinkNone, Parent, PutCur, CallPut, Goto, inodeVars, tableVars, fileVars
  <1>14. CASE UnlinkEntry(p)
    <2>1. UNCHANGED type /\ \A j \in Inodes : j # ents[cur[p]][Name(p)] => ref'[j] = ref[j]
      BY <1>14, Domains DEF UnlinkEntry, Parent, Taken, iget, Goto, inodeVars, fileVars, putVars
    <2>2. type[ents[cur[p]][Name(p)]] # "free"
      BY <1>14, FoundName DEF UnlinkEntry, Parent, Taken, ilocked
    <2> QED
      BY <2>1, <2>2 DEF RefInv
  <1>15. CASE UnlinkFull(p)
    BY <1>15 DEF RefInv, UnlinkFull, PutIp, CallPut, Goto, inodeVars, fileVars
  <1>16. CASE UnlinkOk(p)
    BY <1>16 DEF RefInv, UnlinkOk, Erase, PutCur, CallPut, Goto, fileVars
  <1>17. CASE UnlinkDone(p)
    BY <1>17 DEF RefInv, UnlinkDone, PutIp, CallPut, Goto, fileVars
  <1>18. CASE CreateNone(p)
    BY <1>18 DEF RefInv, CreateNone, Parent, PutCur, CallPut, Goto, inodeVars, tableVars, fileVars
  <1>19. CASE CreateTaken(p)
    <2>1. UNCHANGED type /\ \A j \in Inodes : j # ents[cur[p]][Name(p)] => ref'[j] = ref[j]
      BY <1>19, Domains DEF CreateTaken, Parent, Taken, iget, PutCur, CallPut, Goto, inodeVars, fileVars
    <2>2. type[ents[cur[p]][Name(p)]] # "free"
      BY <1>19, FoundName DEF CreateTaken, Parent, Taken, ilocked
    <2> QED
      BY <2>1, <2>2 DEF RefInv
  <1>20. CASE CreateExisting(p)
    BY <1>20 DEF RefInv, CreateExisting, OpenIp, PutIp, CallPut, Goto, inodeVars, fileVars, putVars
  <1>21. CASE CreateDone(p)
    BY <1>21 DEF RefInv, CreateDone, OpenIp, PutIp, CallPut, Goto, inodeVars, fileVars, putVars
  <1>22. ASSUME NEW i \in Free, CreateAt(p, i)
         PROVE  \A j \in Inodes : ref'[j] > 0 => type'[j] # "free"
    <2>1. \A j \in Inodes : j # i => ref'[j] = ref[j] /\ type'[j] = type[j]
      BY <1>22, Domains
        DEF CreateAt, NewInode, DotDot, NoEnts, Free, Parent, Taken, PutCur, CallPut, Goto, fileVars
    <2>2. type'[i] # "free"
      BY <1>22, Domains
        DEF CreateAt, NewInode, DotDot, NoEnts, Free, Parent, Taken, PutCur, CallPut, Goto, fileVars
    <2> QED
      BY <2>1, <2>2 DEF RefInv
  <1>23. ASSUME NEW i \in Free, FailAt(p, i)
         PROVE  \A j \in Inodes : ref'[j] > 0 => type'[j] # "free"
    <2>1. \A j \in Inodes : j # i => ref'[j] = ref[j] /\ type'[j] = type[j]
      BY <1>23, Domains DEF FailAt, NewInode, DotDot, NoEnts, Free, Parent, Taken, CallPut, Goto, fileVars
    <2>2. type'[i] # "free"
      BY <1>23, Domains DEF FailAt, NewInode, DotDot, NoEnts, Free, Parent, Taken, CallPut, Goto, fileVars
    <2> QED
      BY <2>1, <2>2 DEF RefInv
  <1>24. CASE FailedDone(p)
    BY <1>24 DEF RefInv, FailedDone, PutCur, CallPut, Goto, inodeVars, fileVars
  <1>25. CASE fileclose(p)
    BY <1>25 DEF RefInv, fileclose, CallPut, Goto, inodeVars, tableVars
  <1>26. CASE PutRef(p)
    <2>1. \A j \in Inodes : ref'[j] \in Int /\ ref'[j] <= ref[j]
      <3>1. \A j \in Inodes : ref'[j] = ref[j] \/ ref'[j] = ref[j] - 1
        BY <1>26, Domains DEF PutRef, Unref
      <3> QED
        BY <3>1, RefInt
    <2>2. UNCHANGED type
      BY <1>26 DEF PutRef, inodeVars
    <2> QED
      BY <2>1, <2>2, RefInt DEF RefInv
  <1>27. CASE PutLast(p)
    BY <1>27 DEF RefInv, PutLast, Last, Goto, inodeVars, fileVars, callVars, putVars
  <1>28. CASE Trunc(p)
    BY <1>28 DEF RefInv, Trunc, NoEnts, Goto, fileVars, callVars, putVars
  <1>29. CASE PutUnref(p)
    <2>1. \A j \in Inodes : ref'[j] \in Int /\ ref'[j] <= ref[j]
      <3>1. \A j \in Inodes : ref'[j] = ref[j] \/ ref'[j] = ref[j] - 1
        BY <1>29, Domains DEF PutUnref, Unref
      <3> QED
        BY <3>1, RefInt
    <2>2. UNCHANGED type
      BY <1>29 DEF PutUnref, inodeVars
    <2> QED
      BY <2>1, <2>2, RefInt DEF RefInv
  <1>30. CASE ifree(p)
    <2>1. UNCHANGED ref /\ \A j \in Inodes : j # victim[p] => type'[j] = type[j]
      BY <1>30, Domains DEF ifree, Return, Goto, tableVars, fileVars, callVars
    <2>2. ref[victim[p]] = 0
      BY <1>30 DEF ifree, FreeInv
    <2> QED
      BY <2>1, <2>2 DEF RefInv
  <1>31. CASE end_op(p)
    BY <1>31 DEF RefInv, end_op, commit, Goto, inodeVars, tableVars, fileVars, putVars
  <1>32. CASE Reclaim(p)
    <2>1. UNCHANGED type /\ fresh \in Inodes /\ \A j \in Inodes : j # fresh \/ ~Orphan(j) => ref'[j] = ref[j]
      BY <1>32, Domains DEF Reclaim, CallPut, Goto, Orphan, inodeVars, fileVars, putVars
    <2> QED
      BY <2>1 DEF RefInv, Orphan
  <1> QED
    BY <1>1, <1>2, <1>3, <1>4, <1>5, <1>6, <1>7, <1>8, <1>9, <1>10, <1>11, <1>12, <1>13, <1>14,
       <1>15, <1>16, <1>17, <1>18, <1>19, <1>20, <1>21, <1>22, <1>23, <1>24, <1>25, <1>26, <1>27,
       <1>28, <1>29, <1>30, <1>31, <1>32 DEF Step

LEMMA RefStep ==
    ASSUME NEW p \in Procs, Types, CallInv, RefInv, LockInv, FreeInv, TreeInv, NodeInv,
           UNCHANGED work, Step(p)
    PROVE  RefInv'
  <1>1. Frame(p)
    BY FrameStep
  <1>2. \A j \in Inodes : ref'[j] = ref[j] + Gains(p, j)
    BY GainsStep
  <1>3. \A j \in Inodes :
          ref'[j] = Num(cwd', j) + Num(ofile', j) + Num(cur', j) + Num(ip', j) + Num(Victim', j)
    BY <1>1, <1>2, RefMoves
  <1>4. \A j \in Inodes : ref'[j] > 0 => type'[j] # "free"
    BY AliveStep
  <1> QED
    BY <1>3, <1>4 DEF RefInv

-----------------------------------------------------------------------------
(* The machine starts, and has started *)

\* a system call begins only after the recovery
LEMMA BootStep ==
    ASSUME NEW p \in Procs, Types, CallInv, BootInv, UNCHANGED work, Frame(p), Step(p)
    PROVE  BootInv'
  <1>1. ASSUME NEW o \in work.ops[p], NEW q \in work.paths, Begin(p, o, q)
        PROVE  BootInv'
    <2>1. pc[p] = "idle" /\ UNCHANGED fresh /\ op'[p] \in Calls
      BY <1>1, Domains, Work DEF Calls, Begin, iget, Goto, StartOf, inodeVars, fileVars, putVars
    <2>2. pc'[p] \in Returns \cup {"put", "parent", "unlink"}
      BY <1>1, Domains DEF Returns, Begin, iget, Goto, StartOf, inodeVars, fileVars, putVars
    <2> QED
      BY <2>1, <2>2 DEF BootInv, Starting, Started, Frame, Place, Putting, Returns, Calls
  <1>2. CASE WalkEnds(p)
    <2>1. pc[p] = "walk" /\ UNCHANGED fresh /\ UNCHANGED op
      BY <1>2, Domains DEF WalkEnds, GiveUp, PutCur, CallPut, Goto, inodeVars, fileVars
    <2>2. pc'[p] \in Returns \cup {"put", "parent", "unlink"}
      BY <1>2, Domains DEF Returns, WalkEnds, GiveUp, PutCur, CallPut, Goto, inodeVars, fileVars
    <2> QED
      BY <2>1, <2>2 DEF BootInv, Starting, Started, Frame, Place, Putting, Returns
  <1>3. CASE WalkParent(p)
    <2>1. pc[p] = "walk" /\ UNCHANGED fresh /\ UNCHANGED op
      BY <1>3, Domains DEF WalkParent, Goto, NotDir, WantsParent, inodeVars, fileVars, callVars, putVars
    <2>2. pc'[p] \in Returns \cup {"put", "parent", "unlink"}
      BY <1>3, Domains
        DEF Returns, WalkParent, Goto, NotDir, WantsParent, inodeVars, fileVars, callVars, putVars
    <2> QED
      BY <2>1, <2>2 DEF BootInv, Starting, Started, Frame, Place, Putting, Returns
  <1>4. CASE WalkDown(p)
    <2>1. pc[p] = "walk" /\ UNCHANGED fresh /\ UNCHANGED op
      BY <1>4, Domains DEF WalkDown, CallPut, Goto, NotDir, WantsParent, inodeVars, fileVars
    <2>2. pc'[p] \in Returns \cup {"put", "parent", "unlink"}
      BY <1>4, Domains DEF Returns, WalkDown, CallPut, Goto, NotDir, WantsParent, inodeVars, fileVars
    <2> QED
      BY <2>1, <2>2 DEF BootInv, Starting, Started, Frame, Place, Putting, Returns
  <1>5. CASE sys_open(p)
    <2>1. pc[p] = "found" /\ UNCHANGED fresh /\ UNCHANGED op
      BY <1>5, Domains DEF sys_open, Found, Goto, inodeVars, putVars
    <2>2. pc'[p] \in Returns \cup {"put", "parent", "unlink"}
      BY <1>5, Domains DEF Returns, sys_open, Found, Goto, inodeVars, putVars
    <2> QED
      BY <2>1, <2>2 DEF BootInv, Starting, Started, Frame, Place, Putting, Returns
  <1>6. CASE sys_chdir(p)
    <2>1. pc[p] = "found" /\ UNCHANGED fresh /\ UNCHANGED op
      BY <1>6, Domains DEF sys_chdir, Found, CallPut, Goto, inodeVars
    <2>2. pc'[p] \in Returns \cup {"put", "parent", "unlink"}
      BY <1>6, Domains DEF Returns, sys_chdir, Found, CallPut, Goto, inodeVars
    <2> QED
      BY <2>1, <2>2 DEF BootInv, Starting, Started, Frame, Place, Putting, Returns
  <1>7. CASE LinkDir(p)
    <2>1. pc[p] = "found" /\ UNCHANGED fresh /\ UNCHANGED op
      BY <1>7, Domains DEF LinkDir, Found, PutCur, CallPut, Goto, inodeVars, fileVars
    <2>2. pc'[p] \in Returns \cup {"put", "parent", "unlink"}
      BY <1>7, Domains DEF Returns, LinkDir, Found, PutCur, CallPut, Goto, inodeVars, fileVars
    <2> QED
      BY <2>1, <2>2 DEF BootInv, Starting, Started, Frame, Place, Putting, Returns
  <1>8. CASE LinkFails(p)
    <2>1. pc[p] = "parent" /\ UNCHANGED fresh /\ UNCHANGED op
      BY <1>8, Domains DEF LinkFails, Parent, PutCur, CallPut, Goto, inodeVars, tableVars, fileVars
    <2>2. pc'[p] \in Returns \cup {"put", "parent", "unlink"}
      BY <1>8, Domains DEF Returns, LinkFails, Parent, PutCur, CallPut, Goto, inodeVars, tableVars, fileVars
    <2> QED
      BY <2>1, <2>2 DEF BootInv, Starting, Started, Frame, Place, Putting, Returns
  <1>9. CASE LinkNew(p)
    <2>1. pc[p] = "parent" /\ UNCHANGED fresh /\ UNCHANGED op
      BY <1>9, Domains DEF LinkNew, Parent, Taken, PutCur, CallPut, Goto, tableVars, fileVars
    <2>2. pc'[p] \in Returns \cup {"put", "parent", "unlink"}
      BY <1>9, Domains DEF Returns, LinkNew, Parent, Taken, PutCur, CallPut, Goto, tableVars, fileVars
    <2> QED
      BY <2>1, <2>2 DEF BootInv, Starting, Started, Frame, Place, Putting, Returns
  <1>10. CASE LinkDone(p)
    <2>1. pc[p] = "second" /\ UNCHANGED fresh /\ UNCHANGED op
      BY <1>10, Domains DEF LinkDone, PutIp, CallPut, Goto, inodeVars, tableVars, fileVars
    <2>2. pc'[p] \in Returns \cup {"put", "parent", "unlink"}
      BY <1>10, Domains DEF Returns, LinkDone, PutIp, CallPut, Goto, inodeVars, tableVars, fileVars
    <2> QED
      BY <2>1, <2>2 DEF BootInv, Starting, Started, Frame, Place, Putting, Returns
  <1>11. CASE LinkBad(p)
    <2>1. pc[p] = "bad" /\ UNCHANGED fresh /\ UNCHANGED op
      BY <1>11, Domains DEF LinkBad, PutIp, CallPut, Goto, tableVars, fileVars
    <2>2. pc'[p] \in Returns \cup {"put", "parent", "unlink"}
      BY <1>11, Domains DEF Returns, LinkBad, PutIp, CallPut, Goto, tableVars, fileVars
    <2> QED
      BY <2>1, <2>2 DEF BootInv, Starting, Started, Frame, Place, Putting, Returns
  <1>12. ASSUME NEW q \in work.paths, LinkOld(p, q)
         PROVE  BootInv'
    <2>1. pc[p] = "found" /\ UNCHANGED fresh /\ UNCHANGED op
      BY <1>12, Domains DEF LinkOld, SecondWalk, Found, StartOf, Goto, fileVars, putVars
    <2>2. pc'[p] \in Returns \cup {"put", "parent", "unlink"}
      BY <1>12, Domains DEF Returns, LinkOld, SecondWalk, Found, StartOf, Goto, fileVars, putVars
    <2> QED
      BY <2>1, <2>2 DEF BootInv, Starting, Started, Frame, Place, Putting, Returns
  <1>13. CASE UnlinkNone(p)
    <2>1. pc[p] = "parent" /\ UNCHANGED fresh /\ UNCHANGED op
      BY <1>13, Domains DEF UnlinkNone, Parent, PutCur, CallPut, Goto, inodeVars, tableVars, fileVars
    <2>2. pc'[p] \in Returns \cup {"put", "parent", "unlink"}
      BY <1>13, Domains DEF Returns, UnlinkNone, Parent, PutCur, CallPut, Goto, inodeVars, tableVars, fileVars
    <2> QED
      BY <2>1, <2>2 DEF BootInv, Starting, Started, Frame, Place, Putting, Returns
  <1>14. CASE UnlinkEntry(p)
    <2>1. pc[p] = "parent" /\ UNCHANGED fresh /\ UNCHANGED op
      BY <1>14, Domains DEF UnlinkEntry, Parent, Taken, iget, Goto, inodeVars, fileVars, putVars
    <2>2. pc'[p] \in Returns \cup {"put", "parent", "unlink"}
      BY <1>14, Domains DEF Returns, UnlinkEntry, Parent, Taken, iget, Goto, inodeVars, fileVars, putVars
    <2> QED
      BY <2>1, <2>2 DEF BootInv, Starting, Started, Frame, Place, Putting, Returns
  <1>15. CASE UnlinkFull(p)
    <2>1. pc[p] = "unlink" /\ UNCHANGED fresh /\ UNCHANGED op
      BY <1>15, Domains DEF UnlinkFull, PutIp, CallPut, Goto, inodeVars, fileVars
    <2>2. pc'[p] \in Returns \cup {"put", "parent", "unlink"}
      BY <1>15, Domains DEF Returns, UnlinkFull, PutIp, CallPut, Goto, inodeVars, fileVars
    <2> QED
      BY <2>1, <2>2 DEF BootInv, Starting, Started, Frame, Place, Putting, Returns
  <1>16. CASE UnlinkOk(p)
    <2>1. pc[p] = "unlink" /\ UNCHANGED fresh /\ UNCHANGED op
      BY <1>16, Domains DEF UnlinkOk, Erase, PutCur, CallPut, Goto, fileVars
    <2>2. pc'[p] \in Returns \cup {"put", "parent", "unlink"}
      BY <1>16, Domains DEF Returns, UnlinkOk, Erase, PutCur, CallPut, Goto, fileVars
    <2> QED
      BY <2>1, <2>2 DEF BootInv, Starting, Started, Frame, Place, Putting, Returns
  <1>17. CASE UnlinkDone(p)
    <2>1. pc[p] = "unlinked" /\ UNCHANGED fresh /\ UNCHANGED op
      BY <1>17, Domains DEF UnlinkDone, PutIp, CallPut, Goto, fileVars
    <2>2. pc'[p] \in Returns \cup {"put", "parent", "unlink"}
      BY <1>17, Domains DEF Returns, UnlinkDone, PutIp, CallPut, Goto, fileVars
    <2> QED
      BY <2>1, <2>2 DEF BootInv, Starting, Started, Frame, Place, Putting, Returns
  <1>18. CASE CreateNone(p)
    <2>1. pc[p] = "parent" /\ UNCHANGED fresh /\ UNCHANGED op
      BY <1>18, Domains DEF CreateNone, Parent, PutCur, CallPut, Goto, inodeVars, tableVars, fileVars
    <2>2. pc'[p] \in Returns \cup {"put", "parent", "unlink"}
      BY <1>18, Domains DEF Returns, CreateNone, Parent, PutCur, CallPut, Goto, inodeVars, tableVars, fileVars
    <2> QED
      BY <2>1, <2>2 DEF BootInv, Starting, Started, Frame, Place, Putting, Returns
  <1>19. CASE CreateTaken(p)
    <2>1. pc[p] = "parent" /\ UNCHANGED fresh /\ UNCHANGED op
      BY <1>19, Domains DEF CreateTaken, Parent, Taken, iget, PutCur, CallPut, Goto, inodeVars, fileVars
    <2>2. pc'[p] \in Returns \cup {"put", "parent", "unlink"}
      BY <1>19, Domains
        DEF Returns, CreateTaken, Parent, Taken, iget, PutCur, CallPut, Goto, inodeVars, fileVars
    <2> QED
      BY <2>1, <2>2 DEF BootInv, Starting, Started, Frame, Place, Putting, Returns
  <1>20. CASE CreateExisting(p)
    <2>1. pc[p] = "existing" /\ UNCHANGED fresh /\ UNCHANGED op
      BY <1>20, Domains DEF CreateExisting, OpenIp, PutIp, CallPut, Goto, inodeVars, fileVars, putVars
    <2>2. pc'[p] \in Returns \cup {"put", "parent", "unlink"}
      BY <1>20, Domains
        DEF Returns, CreateExisting, OpenIp, PutIp, CallPut, Goto, inodeVars, fileVars, putVars
    <2> QED
      BY <2>1, <2>2 DEF BootInv, Starting, Started, Frame, Place, Putting, Returns
  <1>21. CASE CreateDone(p)
    <2>1. pc[p] = "created" /\ UNCHANGED fresh /\ UNCHANGED op
      BY <1>21, Domains DEF CreateDone, OpenIp, PutIp, CallPut, Goto, inodeVars, fileVars, putVars
    <2>2. pc'[p] \in Returns \cup {"put", "parent", "unlink"}
      BY <1>21, Domains DEF Returns, CreateDone, OpenIp, PutIp, CallPut, Goto, inodeVars, fileVars, putVars
    <2> QED
      BY <2>1, <2>2 DEF BootInv, Starting, Started, Frame, Place, Putting, Returns
  <1>22. ASSUME NEW i \in Free, CreateAt(p, i)
         PROVE  BootInv'
    <2>1. pc[p] = "parent" /\ UNCHANGED fresh /\ UNCHANGED op
      BY <1>22, Domains
        DEF CreateAt, NewInode, DotDot, NoEnts, Free, Parent, Taken, PutCur, CallPut, Goto, fileVars
    <2>2. pc'[p] \in Returns \cup {"put", "parent", "unlink"}
      BY <1>22, Domains
        DEF Returns, CreateAt, NewInode, DotDot, NoEnts, Free, Parent, Taken, PutCur, CallPut, Goto, fileVars
    <2> QED
      BY <2>1, <2>2 DEF BootInv, Starting, Started, Frame, Place, Putting, Returns
  <1>23. ASSUME NEW i \in Free, FailAt(p, i)
         PROVE  BootInv'
    <2>1. pc[p] = "parent" /\ UNCHANGED fresh /\ UNCHANGED op
      BY <1>23, Domains DEF FailAt, NewInode, DotDot, NoEnts, Free, Parent, Taken, CallPut, Goto, fileVars
    <2>2. pc'[p] \in Returns \cup {"put", "parent", "unlink"}
      BY <1>23, Domains
        DEF Returns, FailAt, NewInode, DotDot, NoEnts, Free, Parent, Taken, CallPut, Goto, fileVars
    <2> QED
      BY <2>1, <2>2 DEF BootInv, Starting, Started, Frame, Place, Putting, Returns
  <1>24. CASE FailedDone(p)
    <2>1. pc[p] = "failed" /\ UNCHANGED fresh /\ UNCHANGED op
      BY <1>24, Domains DEF FailedDone, PutCur, CallPut, Goto, inodeVars, fileVars
    <2>2. pc'[p] \in Returns \cup {"put", "parent", "unlink"}
      BY <1>24, Domains DEF Returns, FailedDone, PutCur, CallPut, Goto, inodeVars, fileVars
    <2> QED
      BY <2>1, <2>2 DEF BootInv, Starting, Started, Frame, Place, Putting, Returns
  <1>25. CASE fileclose(p)
    <2>1. pc[p] = "idle" /\ UNCHANGED fresh /\ op'[p] \in Calls
      BY <1>25, Domains DEF Calls, fileclose, CallPut, Goto, inodeVars, tableVars
    <2>2. pc'[p] \in Returns \cup {"put", "parent", "unlink"}
      BY <1>25, Domains DEF Returns, fileclose, CallPut, Goto, inodeVars, tableVars
    <2> QED
      BY <2>1, <2>2 DEF BootInv, Starting, Started, Frame, Place, Putting, Returns, Calls
  <1>26. CASE PutRef(p)
    <2>1. pc[p] \in Putting /\ ret[p] \in Returns
      BY <1>26, Refs DEF PutRef, Putting
    <2>2. (pc'[p] \in Putting /\ ret'[p] = ret[p]) \/ pc'[p] = ret[p]
      BY <1>26, Domains DEF Putting, PutRef, Unref, Return, Last, Goto, inodeVars, fileVars, callVars
    <2>3. UNCHANGED <<op, fresh>>
      BY <1>26 DEF PutRef, callVars
    <2> QED
      BY <2>1, <2>2, <2>3 DEF BootInv, Starting, Started, Frame, Place, Putting, Returns
  <1>27. CASE PutLast(p)
    <2>1. pc[p] \in Putting /\ ret[p] \in Returns
      BY <1>27, Refs DEF PutLast, Putting
    <2>2. (pc'[p] \in Putting /\ ret'[p] = ret[p]) \/ pc'[p] = ret[p]
      BY <1>27, Domains DEF Putting, PutLast, Last, Goto, inodeVars, fileVars, callVars, putVars
    <2>3. UNCHANGED <<op, fresh>>
      BY <1>27 DEF PutLast, callVars
    <2> QED
      BY <2>1, <2>2, <2>3 DEF BootInv, Starting, Started, Frame, Place, Putting, Returns
  <1>28. CASE Trunc(p)
    <2>1. pc[p] \in Putting /\ ret[p] \in Returns
      BY <1>28, Refs DEF Trunc, Putting
    <2>2. (pc'[p] \in Putting /\ ret'[p] = ret[p]) \/ pc'[p] = ret[p]
      BY <1>28, Domains DEF Putting, Trunc, NoEnts, Goto, fileVars, callVars, putVars
    <2>3. UNCHANGED <<op, fresh>>
      BY <1>28 DEF Trunc, callVars
    <2> QED
      BY <2>1, <2>2, <2>3 DEF BootInv, Starting, Started, Frame, Place, Putting, Returns
  <1>29. CASE PutUnref(p)
    <2>1. pc[p] \in Putting /\ ret[p] \in Returns
      BY <1>29, Refs DEF PutUnref, Putting
    <2>2. (pc'[p] \in Putting /\ ret'[p] = ret[p]) \/ pc'[p] = ret[p]
      BY <1>29, Domains DEF Putting, PutUnref, Unref, Goto, inodeVars, fileVars, callVars, putVars
    <2>3. UNCHANGED <<op, fresh>>
      BY <1>29 DEF PutUnref, callVars
    <2> QED
      BY <2>1, <2>2, <2>3 DEF BootInv, Starting, Started, Frame, Place, Putting, Returns
  <1>30. CASE ifree(p)
    <2>1. pc[p] \in Putting /\ ret[p] \in Returns
      BY <1>30, Refs DEF ifree, Putting
    <2>2. (pc'[p] \in Putting /\ ret'[p] = ret[p]) \/ pc'[p] = ret[p]
      BY <1>30, Domains DEF Putting, ifree, Return, Goto, tableVars, fileVars, callVars
    <2>3. UNCHANGED <<op, fresh>>
      BY <1>30 DEF ifree, callVars
    <2> QED
      BY <2>1, <2>2, <2>3 DEF BootInv, Starting, Started, Frame, Place, Putting, Returns
  <1>31. CASE end_op(p)
    <2>1. pc[p] = "end" /\ UNCHANGED fresh /\ op'[p] = "none"
          /\ pc'[p] = IF op[p] = "reclaim" THEN "reclaim" ELSE "idle"
      BY <1>31, Domains DEF end_op, commit, Goto, inodeVars, tableVars, fileVars, putVars
    <2> QED
      BY <2>1 DEF BootInv, Starting, Started, Frame
  <1>32. CASE Reclaim(p)
    <2>1. pc[p] = "reclaim" /\ op'[p] = "reclaim"
      BY <1>32, Domains DEF Reclaim, CallPut, Goto, Orphan, inodeVars, fileVars, putVars
    <2>2. pc'[p] = "reclaim" \/ (pc'[p] = "put" /\ ret'[p] = "end")
      BY <1>32, Domains DEF Reclaim, CallPut, Goto, Orphan, inodeVars, fileVars, putVars
    <2> QED
      BY <2>1, <2>2 DEF BootInv, Starting, Started, Frame, Place, Putting
  <1> QED
    BY <1>1, <1>2, <1>3, <1>4, <1>5, <1>6, <1>7, <1>8, <1>9, <1>10, <1>11, <1>12, <1>13, <1>14,
       <1>15, <1>16, <1>17, <1>18, <1>19, <1>20, <1>21, <1>22, <1>23, <1>24, <1>25, <1>26, <1>27,
       <1>28, <1>29, <1>30, <1>31, <1>32 DEF Step

-----------------------------------------------------------------------------
(* Locks *)

\* whoever holds a lock refers to the inode
LEMMA FreeUnlocked ==
    ASSUME Types, CallInv, RefInv, LockInv, NEW j \in Inodes, type[j] = "free"
    PROVE  lock[j] = 0
  <1> SUFFICES ASSUME lock[j] # 0 PROVE FALSE
    OBVIOUS
  <1>1. lock[j] \in Procs
    BY FsAssumption DEF Types, Procs
  <1>2. PICK q \in Procs : Holder(q, j)
    BY <1>1 DEF LockInv
  <1>3. cur[q] = j \/ ip[q] = j \/ Victim[q] = j
    BY <1>2 DEF Holder, Victim
  <1> QED
    BY <1>3, Holds

\* two references are counted twice
LEMMA Two ==
    ASSUME Types, RefInv, NEW q \in Procs, NEW p \in Procs, NEW j \in Inodes, Victim[q] = j,
           cwd[p] = j \/ ofile[p] = j \/ cur[p] = j \/ ip[p] = j \/ (p # q /\ Victim[p] = j)
    PROVE  ref[j] > 1
  <1>1. /\ Num(cwd, j) \in Nat /\ Num(ofile, j) \in Nat /\ Num(cur, j) \in Nat
        /\ Num(ip, j) \in Nat /\ Num(Victim, j) \in Nat
    BY NumNat
  <1>2. Num(Victim, j) > 0
    BY NumPos
  <1>3. \/ Num(cwd, j) > 0 \/ Num(ofile, j) > 0 \/ Num(cur, j) > 0
        \/ Num(ip, j) > 0 \/ Num(Victim, j) > 1
    BY NumPos, NumTwo
  <1>4. ref[j] = Num(cwd, j) + Num(ofile, j) + Num(cur, j) + Num(ip, j) + Num(Victim, j)
    BY DEF RefInv
  <1> QED
    BY <1>1, <1>2, <1>3, <1>4

\* a step takes locks that are free, and gives its own back
LockMoves(p, i) ==
    /\ lock'[i] = lock[i] \/ (lock[i] \in {0, p} /\ lock'[i] \in {0, p})
    /\ lock'[i] = p <=> Holder(p, i)'

LEMMA LockMovesStep ==
    ASSUME NEW p \in Procs, Types, CallInv, LockInv, RefInv, FreeInv, NodeInv, Step(p)
    PROVE  \A j \in Inodes : LockMoves(p, j)
  <1>1. ASSUME NEW o \in work.ops[p], NEW q \in work.paths, Begin(p, o, q)
        PROVE  \A j \in Inodes : LockMoves(p, j)
    <2>1. pc[p] = "idle"
      BY <1>1 DEF Begin, iget, Goto, StartOf, inodeVars, fileVars, putVars
    <2>2. \A j \in Inodes : Holder(p, j) <=> FALSE
      BY <2>1 DEF Holder, Place, Putting
    <2>3. \A j \in Inodes : Holder(p, j)' <=> FALSE
      BY <1>1, Refs, Domains
        DEF Holder, Place, Putting, Returns, Begin, iget, Goto, StartOf, inodeVars, fileVars, putVars
    <2>4. UNCHANGED lock
      BY <1>1 DEF Begin, iget, Goto, StartOf, inodeVars, fileVars, putVars
    <2> QED
      BY <2>2, <2>3, <2>4 DEF LockMoves, LockInv
  <1>2. CASE WalkEnds(p)
    <2>1. pc[p] = "walk"
      BY <1>2 DEF WalkEnds, GiveUp, PutCur, CallPut, Goto, inodeVars, fileVars
    <2>2. \A j \in Inodes : Holder(p, j) <=> FALSE
      BY <2>1 DEF Holder, Place, Putting
    <2>3. \A j \in Inodes : Holder(p, j)' <=> FALSE
      BY <1>2, Refs, Domains
        DEF Holder, Place, Putting, Returns, WalkEnds, GiveUp, PutCur, CallPut, Goto, inodeVars, fileVars
    <2>4. UNCHANGED lock
      BY <1>2 DEF WalkEnds, GiveUp, PutCur, CallPut, Goto, inodeVars, fileVars
    <2> QED
      BY <2>2, <2>3, <2>4 DEF LockMoves, LockInv
  <1>3. CASE WalkParent(p)
    <2>1. pc[p] = "walk"
      BY <1>3 DEF WalkParent, Goto, NotDir, WantsParent, inodeVars, fileVars, callVars, putVars
    <2>2. \A j \in Inodes : Holder(p, j) <=> FALSE
      BY <2>1 DEF Holder, Place, Putting
    <2>3. \A j \in Inodes : Holder(p, j)' <=> FALSE
      BY <1>3, Refs, Domains
        DEF Holder, Place, Putting, Returns, WalkParent, Goto, NotDir, WantsParent, inodeVars, fileVars,
            callVars, putVars
    <2>4. UNCHANGED lock
      BY <1>3 DEF WalkParent, Goto, NotDir, WantsParent, inodeVars, fileVars, callVars, putVars
    <2> QED
      BY <2>2, <2>3, <2>4 DEF LockMoves, LockInv
  <1>4. CASE WalkDown(p)
    <2>1. pc[p] = "walk"
      BY <1>4 DEF WalkDown, CallPut, Goto, NotDir, WantsParent, inodeVars, fileVars
    <2>2. \A j \in Inodes : Holder(p, j) <=> FALSE
      BY <2>1 DEF Holder, Place, Putting
    <2>3. \A j \in Inodes : Holder(p, j)' <=> FALSE
      BY <1>4, Refs, Domains
        DEF Holder, Place, Putting, Returns, WalkDown, CallPut, Goto, NotDir, WantsParent, inodeVars, fileVars
    <2>4. UNCHANGED lock
      BY <1>4 DEF WalkDown, CallPut, Goto, NotDir, WantsParent, inodeVars, fileVars
    <2> QED
      BY <2>2, <2>3, <2>4 DEF LockMoves, LockInv
  <1>5. CASE sys_open(p)
    <2>1. pc[p] = "found"
      BY <1>5 DEF sys_open, Found, Goto, inodeVars, putVars
    <2>2. \A j \in Inodes : Holder(p, j) <=> FALSE
      BY <2>1 DEF Holder, Place, Putting
    <2>3. \A j \in Inodes : Holder(p, j)' <=> FALSE
      BY <1>5, Refs, Domains DEF Holder, Place, Putting, Returns, sys_open, Found, Goto, inodeVars, putVars
    <2>4. UNCHANGED lock
      BY <1>5 DEF sys_open, Found, Goto, inodeVars, putVars
    <2> QED
      BY <2>2, <2>3, <2>4 DEF LockMoves, LockInv
  <1>6. CASE sys_chdir(p)
    <2>1. pc[p] = "found"
      BY <1>6 DEF sys_chdir, Found, CallPut, Goto, inodeVars
    <2>2. \A j \in Inodes : Holder(p, j) <=> FALSE
      BY <2>1 DEF Holder, Place, Putting
    <2>3. \A j \in Inodes : Holder(p, j)' <=> FALSE
      BY <1>6, Refs, Domains DEF Holder, Place, Putting, Returns, sys_chdir, Found, CallPut, Goto, inodeVars
    <2>4. UNCHANGED lock
      BY <1>6 DEF sys_chdir, Found, CallPut, Goto, inodeVars
    <2> QED
      BY <2>2, <2>3, <2>4 DEF LockMoves, LockInv
  <1>7. CASE LinkDir(p)
    <2>1. pc[p] = "found"
      BY <1>7 DEF LinkDir, Found, PutCur, CallPut, Goto, inodeVars, fileVars
    <2>2. \A j \in Inodes : Holder(p, j) <=> FALSE
      BY <2>1 DEF Holder, Place, Putting
    <2>3. \A j \in Inodes : Holder(p, j)' <=> FALSE
      BY <1>7, Refs, Domains
        DEF Holder, Place, Putting, Returns, LinkDir, Found, PutCur, CallPut, Goto, inodeVars, fileVars
    <2>4. UNCHANGED lock
      BY <1>7 DEF LinkDir, Found, PutCur, CallPut, Goto, inodeVars, fileVars
    <2> QED
      BY <2>2, <2>3, <2>4 DEF LockMoves, LockInv
  <1>8. CASE LinkFails(p)
    <2>1. pc[p] = "parent"
      BY <1>8 DEF LinkFails, Parent, PutCur, CallPut, Goto, inodeVars, tableVars, fileVars
    <2>2. \A j \in Inodes : Holder(p, j) <=> FALSE
      BY <2>1 DEF Holder, Place, Putting
    <2>3. \A j \in Inodes : Holder(p, j)' <=> FALSE
      BY <1>8, Refs, Domains
        DEF Holder, Place, Putting, Returns, LinkFails, Parent, PutCur, CallPut, Goto, inodeVars, tableVars,
            fileVars
    <2>4. UNCHANGED lock
      BY <1>8 DEF LinkFails, Parent, PutCur, CallPut, Goto, inodeVars, tableVars, fileVars
    <2> QED
      BY <2>2, <2>3, <2>4 DEF LockMoves, LockInv
  <1>9. CASE LinkNew(p)
    <2>1. pc[p] = "parent"
      BY <1>9 DEF LinkNew, Parent, Taken, PutCur, CallPut, Goto, tableVars, fileVars
    <2>2. \A j \in Inodes : Holder(p, j) <=> FALSE
      BY <2>1 DEF Holder, Place, Putting
    <2>3. \A j \in Inodes : Holder(p, j)' <=> FALSE
      BY <1>9, Refs, Domains
        DEF Holder, Place, Putting, Returns, LinkNew, Parent, Taken, PutCur, CallPut, Goto, tableVars,
            fileVars
    <2>4. UNCHANGED lock
      BY <1>9 DEF LinkNew, Parent, Taken, PutCur, CallPut, Goto, tableVars, fileVars
    <2> QED
      BY <2>2, <2>3, <2>4 DEF LockMoves, LockInv
  <1>10. CASE LinkDone(p)
    <2>1. pc[p] = "second"
      BY <1>10 DEF LinkDone, PutIp, CallPut, Goto, inodeVars, tableVars, fileVars
    <2>2. \A j \in Inodes : Holder(p, j) <=> FALSE
      BY <2>1 DEF Holder, Place, Putting
    <2>3. \A j \in Inodes : Holder(p, j)' <=> FALSE
      BY <1>10, Refs, Domains
        DEF Holder, Place, Putting, Returns, LinkDone, PutIp, CallPut, Goto, inodeVars, tableVars, fileVars
    <2>4. UNCHANGED lock
      BY <1>10 DEF LinkDone, PutIp, CallPut, Goto, inodeVars, tableVars, fileVars
    <2> QED
      BY <2>2, <2>3, <2>4 DEF LockMoves, LockInv
  <1>11. CASE LinkBad(p)
    <2>1. pc[p] = "bad"
      BY <1>11 DEF LinkBad, PutIp, CallPut, Goto, tableVars, fileVars
    <2>2. \A j \in Inodes : Holder(p, j) <=> FALSE
      BY <2>1 DEF Holder, Place, Putting
    <2>3. \A j \in Inodes : Holder(p, j)' <=> FALSE
      BY <1>11, Refs, Domains
        DEF Holder, Place, Putting, Returns, LinkBad, PutIp, CallPut, Goto, tableVars, fileVars
    <2>4. UNCHANGED lock
      BY <1>11 DEF LinkBad, PutIp, CallPut, Goto, tableVars, fileVars
    <2> QED
      BY <2>2, <2>3, <2>4 DEF LockMoves, LockInv
  <1>12. ASSUME NEW q \in work.paths, LinkOld(p, q)
         PROVE  \A j \in Inodes : LockMoves(p, j)
    <2>1. pc[p] = "found"
      BY <1>12 DEF LinkOld, SecondWalk, Found, StartOf, Goto, fileVars, putVars
    <2>2. \A j \in Inodes : Holder(p, j) <=> FALSE
      BY <2>1 DEF Holder, Place, Putting
    <2>3. \A j \in Inodes : Holder(p, j)' <=> FALSE
      BY <1>12, Refs, Domains
        DEF Holder, Place, Putting, Returns, LinkOld, SecondWalk, Found, StartOf, Goto, fileVars, putVars
    <2>4. UNCHANGED lock
      BY <1>12 DEF LinkOld, SecondWalk, Found, StartOf, Goto, fileVars, putVars
    <2> QED
      BY <2>2, <2>3, <2>4 DEF LockMoves, LockInv
  <1>13. CASE UnlinkNone(p)
    <2>1. pc[p] = "parent"
      BY <1>13 DEF UnlinkNone, Parent, PutCur, CallPut, Goto, inodeVars, tableVars, fileVars
    <2>2. \A j \in Inodes : Holder(p, j) <=> FALSE
      BY <2>1 DEF Holder, Place, Putting
    <2>3. \A j \in Inodes : Holder(p, j)' <=> FALSE
      BY <1>13, Refs, Domains
        DEF Holder, Place, Putting, Returns, UnlinkNone, Parent, PutCur, CallPut, Goto, inodeVars, tableVars,
            fileVars
    <2>4. UNCHANGED lock
      BY <1>13 DEF UnlinkNone, Parent, PutCur, CallPut, Goto, inodeVars, tableVars, fileVars
    <2> QED
      BY <2>2, <2>3, <2>4 DEF LockMoves, LockInv
  <1>14. CASE UnlinkEntry(p)
    <2>1. pc[p] = "parent"
      BY <1>14 DEF UnlinkEntry, Parent, Taken, iget, Goto, inodeVars, fileVars, putVars
    <2>2. \A j \in Inodes : Holder(p, j) <=> FALSE
      BY <2>1 DEF Holder, Place, Putting
    <2>3. \A j \in Inodes : Holder(p, j)' <=> cur[p] = j
      BY <1>14, Refs, Domains
        DEF Holder, Place, Putting, Returns, UnlinkEntry, Parent, Taken, iget, Goto, inodeVars, fileVars,
            putVars
    <2>4. \A j \in Inodes : lock'[j] = IF j = cur[p] THEN p ELSE lock[j]
      BY <1>14, Domains DEF UnlinkEntry, Parent, Taken, iget, Goto, inodeVars, fileVars, putVars
    <2>5. lock[cur[p]] = 0
      BY <1>14 DEF UnlinkEntry, Parent, ilocked
    <2> QED
      BY <2>2, <2>3, <2>4, <2>5 DEF LockMoves, LockInv
  <1>15. CASE UnlinkFull(p)
    <2>1. pc[p] = "unlink"
      BY <1>15 DEF UnlinkFull, PutIp, CallPut, Goto, inodeVars, fileVars
    <2>2. \A j \in Inodes : Holder(p, j) <=> cur[p] = j
      BY <2>1 DEF Holder, Place, Putting
    <2>3. \A j \in Inodes : Holder(p, j)' <=> cur[p] = j
      BY <1>15, Refs, Domains
        DEF Holder, Place, Putting, Returns, UnlinkFull, PutIp, CallPut, Goto, inodeVars, fileVars
    <2>4. UNCHANGED lock
      BY <1>15 DEF UnlinkFull, PutIp, CallPut, Goto, inodeVars, fileVars
    <2> QED
      BY <2>2, <2>3, <2>4 DEF LockMoves, LockInv
  <1>16. CASE UnlinkOk(p)
    <2>1. pc[p] = "unlink"
      BY <1>16 DEF UnlinkOk, Erase, PutCur, CallPut, Goto, fileVars
    <2>2. \A j \in Inodes : Holder(p, j) <=> cur[p] = j
      BY <2>1 DEF Holder, Place, Putting
    <2>3. \A j \in Inodes : Holder(p, j)' <=> ip[p] = j
      BY <1>16, Refs, Domains
        DEF Holder, Place, Putting, Returns, UnlinkOk, Erase, PutCur, CallPut, Goto, fileVars
    <2>4. lock[ip[p]] = 0 /\ cur[p] \in Inodes /\ lock' = [lock EXCEPT ![cur[p]] = 0, ![ip[p]] = p]
      BY <1>16, Refs DEF UnlinkOk, Erase, ilocked
    <2>5. \A j \in Inodes : lock'[j] = IF j = ip[p] THEN p ELSE IF j = cur[p] THEN 0 ELSE lock[j]
      BY <2>4, Domains
    <2>6. lock[cur[p]] = p /\ cur[p] # ip[p] /\ p # 0
      BY <2>2, <2>4, Consts DEF LockInv
    <2>7. lock[ip[p]] = 0
      BY <2>4
    <2>8. ASSUME NEW j \in Inodes
          PROVE  LockMoves(p, j)
      <3>1. CASE j = ip[p]
        BY <2>3, <2>5, <2>7, <3>1 DEF LockMoves
      <3>2. CASE j = cur[p]
        BY <2>3, <2>5, <2>6, <3>2 DEF LockMoves
      <3>3. CASE j # ip[p] /\ j # cur[p]
        <4>1. lock'[j] = lock[j] /\ lock[j] # p /\ ~Holder(p, j)'
          BY <2>2, <2>3, <2>5, <3>3 DEF LockInv
        <4> QED
          BY <4>1 DEF LockMoves
      <3> QED
        BY <3>1, <3>2, <3>3
    <2> QED
      BY <2>8
  <1>17. CASE UnlinkDone(p)
    <2>1. pc[p] = "unlinked"
      BY <1>17 DEF UnlinkDone, PutIp, CallPut, Goto, fileVars
    <2>2. \A j \in Inodes : Holder(p, j) <=> ip[p] = j
      BY <2>1 DEF Holder, Place, Putting
    <2>3. \A j \in Inodes : Holder(p, j)' <=> FALSE
      BY <1>17, Refs, Domains DEF Holder, Place, Putting, Returns, UnlinkDone, PutIp, CallPut, Goto, fileVars
    <2>4. \A j \in Inodes : lock'[j] = IF j = ip[p] THEN 0 ELSE lock[j]
      BY <1>17, Domains DEF UnlinkDone, PutIp, CallPut, Goto, fileVars
    <2> QED
      BY <2>2, <2>3, <2>4, Consts DEF LockMoves, LockInv
  <1>18. CASE CreateNone(p)
    <2>1. pc[p] = "parent"
      BY <1>18 DEF CreateNone, Parent, PutCur, CallPut, Goto, inodeVars, tableVars, fileVars
    <2>2. \A j \in Inodes : Holder(p, j) <=> FALSE
      BY <2>1 DEF Holder, Place, Putting
    <2>3. \A j \in Inodes : Holder(p, j)' <=> FALSE
      BY <1>18, Refs, Domains
        DEF Holder, Place, Putting, Returns, CreateNone, Parent, PutCur, CallPut, Goto, inodeVars, tableVars,
            fileVars
    <2>4. UNCHANGED lock
      BY <1>18 DEF CreateNone, Parent, PutCur, CallPut, Goto, inodeVars, tableVars, fileVars
    <2> QED
      BY <2>2, <2>3, <2>4 DEF LockMoves, LockInv
  <1>19. CASE CreateTaken(p)
    <2>1. pc[p] = "parent"
      BY <1>19 DEF CreateTaken, Parent, Taken, iget, PutCur, CallPut, Goto, inodeVars, fileVars
    <2>2. \A j \in Inodes : Holder(p, j) <=> FALSE
      BY <2>1 DEF Holder, Place, Putting
    <2>3. \A j \in Inodes : Holder(p, j)' <=> FALSE
      BY <1>19, Refs, Domains
        DEF Holder, Place, Putting, Returns, CreateTaken, Parent, Taken, iget, PutCur, CallPut, Goto,
            inodeVars, fileVars
    <2>4. UNCHANGED lock
      BY <1>19 DEF CreateTaken, Parent, Taken, iget, PutCur, CallPut, Goto, inodeVars, fileVars
    <2> QED
      BY <2>2, <2>3, <2>4 DEF LockMoves, LockInv
  <1>20. CASE CreateExisting(p)
    <2>1. pc[p] = "existing"
      BY <1>20 DEF CreateExisting, OpenIp, PutIp, CallPut, Goto, inodeVars, fileVars, putVars
    <2>2. \A j \in Inodes : Holder(p, j) <=> FALSE
      BY <2>1 DEF Holder, Place, Putting
    <2>3. \A j \in Inodes : Holder(p, j)' <=> FALSE
      BY <1>20, Refs, Domains
        DEF Holder, Place, Putting, Returns, CreateExisting, OpenIp, PutIp, CallPut, Goto, inodeVars,
            fileVars, putVars
    <2>4. UNCHANGED lock
      BY <1>20 DEF CreateExisting, OpenIp, PutIp, CallPut, Goto, inodeVars, fileVars, putVars
    <2> QED
      BY <2>2, <2>3, <2>4 DEF LockMoves, LockInv
  <1>21. CASE CreateDone(p)
    <2>1. pc[p] = "created"
      BY <1>21 DEF CreateDone, OpenIp, PutIp, CallPut, Goto, inodeVars, fileVars, putVars
    <2>2. \A j \in Inodes : Holder(p, j) <=> ip[p] = j
      BY <2>1 DEF Holder, Place, Putting
    <2>3. \A j \in Inodes : Holder(p, j)' <=> FALSE
      BY <1>21, Refs, Domains
        DEF Holder, Place, Putting, Returns, CreateDone, OpenIp, PutIp, CallPut, Goto, inodeVars, fileVars,
            putVars
    <2>4. \A j \in Inodes : lock'[j] = IF j = ip[p] THEN 0 ELSE lock[j]
      BY <1>21, Domains DEF CreateDone, OpenIp, PutIp, CallPut, Goto, inodeVars, fileVars, putVars
    <2> QED
      BY <2>2, <2>3, <2>4, Consts DEF LockMoves, LockInv
  <1>22. ASSUME NEW i \in Free, CreateAt(p, i)
         PROVE  \A j \in Inodes : LockMoves(p, j)
    <2>1. pc[p] = "parent"
      BY <1>22 DEF CreateAt, NewInode, DotDot, NoEnts, Free, Parent, Taken, PutCur, CallPut, Goto, fileVars
    <2>2. \A j \in Inodes : Holder(p, j) <=> FALSE
      BY <2>1 DEF Holder, Place, Putting
    <2>3. \A j \in Inodes : Holder(p, j)' <=> i = j
      BY <1>22, Refs, Domains
        DEF Holder, Place, Putting, Returns, CreateAt, NewInode, DotDot, NoEnts, Free, Parent, Taken, PutCur,
            CallPut, Goto, fileVars
    <2>4. \A j \in Inodes : lock'[j] = IF j = i THEN p ELSE lock[j]
      BY <1>22, Domains
        DEF CreateAt, NewInode, DotDot, NoEnts, Free, Parent, Taken, PutCur, CallPut, Goto, fileVars
    <2>5. lock[i] = 0
      BY <1>22, FreeUnlocked DEF Free
    <2> QED
      BY <2>2, <2>3, <2>4, <2>5 DEF LockMoves, LockInv
  <1>23. ASSUME NEW i \in Free, FailAt(p, i)
         PROVE  \A j \in Inodes : LockMoves(p, j)
    <2>1. pc[p] = "parent"
      BY <1>23 DEF FailAt, NewInode, DotDot, NoEnts, Free, Parent, Taken, CallPut, Goto, fileVars
    <2>2. \A j \in Inodes : Holder(p, j) <=> FALSE
      BY <2>1 DEF Holder, Place, Putting
    <2>3. \A j \in Inodes : Holder(p, j)' <=> cur[p] = j
      BY <1>23, Refs, Domains
        DEF Holder, Place, Putting, Returns, FailAt, NewInode, DotDot, NoEnts, Free, Parent, Taken, CallPut,
            Goto, fileVars
    <2>4. \A j \in Inodes : lock'[j] = IF j = cur[p] THEN p ELSE lock[j]
      BY <1>23, Domains DEF FailAt, NewInode, DotDot, NoEnts, Free, Parent, Taken, CallPut, Goto, fileVars
    <2>5. lock[cur[p]] = 0
      BY <1>23 DEF FailAt, NewInode, Parent, ilocked
    <2> QED
      BY <2>2, <2>3, <2>4, <2>5 DEF LockMoves, LockInv
  <1>24. CASE FailedDone(p)
    <2>1. pc[p] = "failed"
      BY <1>24 DEF FailedDone, PutCur, CallPut, Goto, inodeVars, fileVars
    <2>2. \A j \in Inodes : Holder(p, j) <=> cur[p] = j
      BY <2>1 DEF Holder, Place, Putting
    <2>3. \A j \in Inodes : Holder(p, j)' <=> FALSE
      BY <1>24, Refs, Domains
        DEF Holder, Place, Putting, Returns, FailedDone, PutCur, CallPut, Goto, inodeVars, fileVars
    <2>4. \A j \in Inodes : lock'[j] = IF j = cur[p] THEN 0 ELSE lock[j]
      BY <1>24, Domains DEF FailedDone, PutCur, CallPut, Goto, inodeVars, fileVars
    <2> QED
      BY <2>2, <2>3, <2>4, Consts DEF LockMoves, LockInv
  <1>25. CASE fileclose(p)
    <2>1. pc[p] = "idle"
      BY <1>25 DEF fileclose, CallPut, Goto, inodeVars, tableVars
    <2>2. \A j \in Inodes : Holder(p, j) <=> FALSE
      BY <2>1 DEF Holder, Place, Putting
    <2>3. \A j \in Inodes : Holder(p, j)' <=> FALSE
      BY <1>25, Refs, Domains
        DEF Holder, Place, Putting, Returns, fileclose, CallPut, Goto, inodeVars, tableVars
    <2>4. UNCHANGED lock
      BY <1>25 DEF fileclose, CallPut, Goto, inodeVars, tableVars
    <2> QED
      BY <2>2, <2>3, <2>4 DEF LockMoves, LockInv
  <1>26. CASE PutRef(p)
    <2>1. pc[p] = "put" /\ ret[p] \in Returns /\ victim[p] \in Inodes
      BY <1>26, Refs DEF PutRef, Putting
    <2>2. /\ Place(p)' = Place(p) /\ UNCHANGED <<cur, ip>>
          /\ pc'[p] = "trunc" <=> FALSE
      BY <1>26, <2>1, Domains
        DEF Place, Putting, Returns, PutRef, Unref, Return, Last, Goto, inodeVars, fileVars, callVars
    <2>3. UNCHANGED lock
      BY <1>26 DEF PutRef, Unref, Return, Last, Goto, inodeVars, fileVars, callVars
    <2>4. \A j \in Inodes : Holder(p, j)' <=> Holder(p, j)
      BY <2>1, <2>2 DEF Holder
    <2> QED
      BY <2>3, <2>4 DEF LockMoves, LockInv
  <1>27. CASE PutLast(p)
    <2>1. pc[p] = "put" /\ ret[p] \in Returns /\ victim[p] \in Inodes
      BY <1>27, Refs DEF PutLast, Putting
    <2>2. /\ Place(p)' = Place(p) /\ UNCHANGED <<cur, ip>>
          /\ pc'[p] = "trunc" <=> TRUE
      BY <1>27, <2>1, Domains
        DEF Place, Putting, Returns, PutLast, Last, Goto, inodeVars, fileVars, callVars, putVars
    <2>3. victim'[p] = victim[p] /\ lock[victim[p]] = 0 /\ lock' = [lock EXCEPT ![victim[p]] = p]
      BY <1>27 DEF PutLast, Last, Goto, inodeVars, fileVars, callVars, putVars
    <2>4. \A j \in Inodes : Holder(p, j)' <=> Holder(p, j) \/ victim[p] = j
      BY <2>1, <2>2, <2>3 DEF Holder
    <2>5. \A j \in Inodes : lock'[j] = IF victim[p] = j THEN p ELSE lock[j]
      BY <2>3, Domains
    <2> QED
      BY <2>3, <2>4, <2>5 DEF LockMoves, LockInv
  <1>28. CASE Trunc(p)
    <2>1. pc[p] = "trunc" /\ ret[p] \in Returns /\ victim[p] \in Inodes
      BY <1>28, Refs DEF Trunc, Putting
    <2>2. /\ Place(p)' = Place(p) /\ UNCHANGED <<cur, ip>>
          /\ pc'[p] = "trunc" <=> FALSE
      BY <1>28, <2>1, Domains DEF Place, Putting, Returns, Trunc, NoEnts, Goto, fileVars, callVars, putVars
    <2>3. Holder(p, victim[p]) /\ lock' = [lock EXCEPT ![victim[p]] = 0]
      BY <1>28, <2>1 DEF Trunc, Holder
    <2>4. \A j \in Inodes : Holder(p, j)' <=> Holder(p, j) /\ victim[p] # j
      <3>1. Victim[p] = victim[p] /\ ref[victim[p]] = 1
        BY <1>28, <2>1 DEF Trunc, Victim, FreeInv
      <3>2. cur[p] # victim[p] /\ ip[p] # victim[p]
        BY <2>1, <3>1, Two
      <3> QED
        BY <2>1, <2>2, <3>2 DEF Holder
    <2>5. \A j \in Inodes : lock'[j] = IF victim[p] = j THEN 0 ELSE lock[j]
      BY <2>3, Domains
    <2> QED
      BY <2>1, <2>3, <2>4, <2>5, Consts DEF LockMoves, LockInv
  <1>29. CASE PutUnref(p)
    <2>1. pc[p] = "unref" /\ ret[p] \in Returns /\ victim[p] \in Inodes
      BY <1>29, Refs DEF PutUnref, Putting
    <2>2. /\ Place(p)' = Place(p) /\ UNCHANGED <<cur, ip>>
          /\ pc'[p] = "trunc" <=> FALSE
      BY <1>29, <2>1, Domains
        DEF Place, Putting, Returns, PutUnref, Unref, Goto, inodeVars, fileVars, callVars, putVars
    <2>3. UNCHANGED lock
      BY <1>29 DEF PutUnref, Unref, Goto, inodeVars, fileVars, callVars, putVars
    <2>4. \A j \in Inodes : Holder(p, j)' <=> Holder(p, j)
      BY <2>1, <2>2 DEF Holder
    <2> QED
      BY <2>3, <2>4 DEF LockMoves, LockInv
  <1>30. CASE ifree(p)
    <2>1. pc[p] = "ifree" /\ ret[p] \in Returns /\ victim[p] \in Inodes
      BY <1>30, Refs DEF ifree, Putting
    <2>2. /\ Place(p)' = Place(p) /\ UNCHANGED <<cur, ip>>
          /\ pc'[p] = "trunc" <=> FALSE
      BY <1>30, <2>1, Domains DEF Place, Putting, Returns, ifree, Return, Goto, tableVars, fileVars, callVars
    <2>3. UNCHANGED lock
      BY <1>30 DEF ifree, Return, Goto, tableVars, fileVars, callVars
    <2>4. \A j \in Inodes : Holder(p, j)' <=> Holder(p, j)
      BY <2>1, <2>2 DEF Holder
    <2> QED
      BY <2>3, <2>4 DEF LockMoves, LockInv
  <1>31. CASE end_op(p)
    <2>1. pc[p] = "end"
      BY <1>31 DEF end_op, commit, Goto, inodeVars, tableVars, fileVars, putVars
    <2>2. \A j \in Inodes : Holder(p, j) <=> FALSE
      BY <2>1 DEF Holder, Place, Putting
    <2>3. \A j \in Inodes : Holder(p, j)' <=> FALSE
      BY <1>31, Refs, Domains
        DEF Holder, Place, Putting, Returns, end_op, commit, Goto, inodeVars, tableVars, fileVars, putVars
    <2>4. UNCHANGED lock
      BY <1>31 DEF end_op, commit, Goto, inodeVars, tableVars, fileVars, putVars
    <2> QED
      BY <2>2, <2>3, <2>4 DEF LockMoves, LockInv
  <1>32. CASE Reclaim(p)
    <2>1. pc[p] = "reclaim"
      BY <1>32 DEF Reclaim, CallPut, Goto, Orphan, inodeVars, fileVars, putVars
    <2>2. \A j \in Inodes : Holder(p, j) <=> FALSE
      BY <2>1 DEF Holder, Place, Putting
    <2>3. \A j \in Inodes : Holder(p, j)' <=> FALSE
      BY <1>32, Refs, Domains
        DEF Holder, Place, Putting, Returns, Reclaim, CallPut, Goto, Orphan, inodeVars, fileVars, putVars
    <2>4. UNCHANGED lock
      BY <1>32 DEF Reclaim, CallPut, Goto, Orphan, inodeVars, fileVars, putVars
    <2> QED
      BY <2>2, <2>3, <2>4 DEF LockMoves, LockInv
  <1> QED
    BY <1>1, <1>2, <1>3, <1>4, <1>5, <1>6, <1>7, <1>8, <1>9, <1>10, <1>11, <1>12, <1>13, <1>14,
       <1>15, <1>16, <1>17, <1>18, <1>19, <1>20, <1>21, <1>22, <1>23, <1>24, <1>25, <1>26, <1>27,
       <1>28, <1>29, <1>30, <1>31, <1>32 DEF Step

LEMMA LockStep ==
    ASSUME NEW p \in Procs, Types, CallInv, LockInv, RefInv, FreeInv, NodeInv, UNCHANGED work, Step(p)
    PROVE  LockInv'
  <1>1. Frame(p)
    BY FrameStep
  <1>2. \A j \in Inodes : LockMoves(p, j)
    BY LockMovesStep
  <1>3. \A q \in Procs \ {p} : \A j : Holder(q, j)' = Holder(q, j)
    BY <1>1, FramePlace
  <1>4. ASSUME NEW j \in Inodes, NEW q \in Procs \ {p}
        PROVE  lock'[j] = q <=> Holder(q, j)'
    BY <1>2, <1>3, Consts DEF LockMoves, LockInv
  <1> QED
    BY <1>2, <1>4 DEF LockMoves, LockInv

-----------------------------------------------------------------------------
(* Freeing an inode *)

\* a step leaves alone what has no links and what the process does not refer to
Kept(i) == type'[i] = type[i] /\ nlink'[i] = nlink[i] /\ ref'[i] = ref[i] /\ valid'[i] = valid[i]
Strange(p, i) ==
    /\ type[i] # "free" /\ nlink[i] = 0
    /\ i # cwd[p] /\ i # cur[p] /\ i # ip[p] /\ i # victim[p]

LEMMA KeptStep ==
    ASSUME NEW p \in Procs, pc[p] # "reclaim", Types, CallInv, RefInv, LockInv, FreeInv,
           TreeInv, NodeInv, Step(p)
    PROVE  \A j \in Inodes : Strange(p, j) => Kept(j)
  <1>1. ASSUME NEW o \in work.ops[p], NEW q \in work.paths, Begin(p, o, q)
        PROVE  \A j \in Inodes : Strange(p, j) => Kept(j)
    <2>1. \A j \in Inodes : j # cur[p] /\ j # StartOf(p, q) => Kept(j)
      BY <1>1, Domains DEF Kept, Begin, iget, Goto, StartOf, inodeVars, fileVars, putVars
    <2>2. nlink[Root] # 0
      BY Consts DEF TreeInv, Tree, LiveDir, Types
    <2> QED
      BY <2>1, <2>2 DEF StartOf, Strange
  <1>2. CASE WalkEnds(p)
    BY <1>2, Domains DEF Strange, Kept, WalkEnds, GiveUp, PutCur, CallPut, Goto, inodeVars, fileVars
  <1>3. CASE WalkParent(p)
    BY <1>3, Domains
      DEF Strange, Kept, WalkParent, Goto, NotDir, WantsParent, inodeVars, fileVars, callVars, putVars
  <1>4. CASE WalkDown(p)
    <2>1. \A j \in Inodes : j # cur[p] /\ j # ents[cur[p]][path[p][1]] => Kept(j)
      BY <1>4, Domains DEF Kept, WalkDown, CallPut, Goto, NotDir, WantsParent, inodeVars, fileVars
    <2>2. nlink[ents[cur[p]][path[p][1]]] # 0
      BY <1>4, Looked DEF WalkDown, NotDir, ilocked
    <2> QED
      BY <2>1, <2>2 DEF Strange
  <1>5. CASE sys_open(p)
    BY <1>5, Domains DEF Strange, Kept, sys_open, Found, Goto, inodeVars, putVars
  <1>6. CASE sys_chdir(p)
    BY <1>6, Domains DEF Strange, Kept, sys_chdir, Found, CallPut, Goto, inodeVars
  <1>7. CASE LinkDir(p)
    BY <1>7, Domains DEF Strange, Kept, LinkDir, Found, PutCur, CallPut, Goto, inodeVars, fileVars
  <1>8. CASE LinkFails(p)
    BY <1>8, Domains
      DEF Strange, Kept, LinkFails, Parent, PutCur, CallPut, Goto, inodeVars, tableVars, fileVars
  <1>9. CASE LinkNew(p)
    BY <1>9, Domains DEF Strange, Kept, LinkNew, Parent, Taken, PutCur, CallPut, Goto, tableVars, fileVars
  <1>10. CASE LinkDone(p)
    BY <1>10, Domains DEF Strange, Kept, LinkDone, PutIp, CallPut, Goto, inodeVars, tableVars, fileVars
  <1>11. CASE LinkBad(p)
    BY <1>11, Domains DEF Strange, Kept, LinkBad, PutIp, CallPut, Goto, tableVars, fileVars
  <1>12. ASSUME NEW q \in work.paths, LinkOld(p, q)
         PROVE  \A j \in Inodes : Strange(p, j) => Kept(j)
    <2>1. \A j \in Inodes : j # cur[p] /\ j # StartOf(p, q) => Kept(j)
      BY <1>12, Domains DEF Kept, LinkOld, SecondWalk, Found, StartOf, Goto, fileVars, putVars
    <2>2. nlink[Root] # 0
      BY Consts DEF TreeInv, Tree, LiveDir, Types
    <2> QED
      BY <2>1, <2>2 DEF StartOf, Strange
  <1>13. CASE UnlinkNone(p)
    BY <1>13, Domains
      DEF Strange, Kept, UnlinkNone, Parent, PutCur, CallPut, Goto, inodeVars, tableVars, fileVars
  <1>14. CASE UnlinkEntry(p)
    <2>1. \A j \in Inodes : j # cur[p] /\ j # ents[cur[p]][Name(p)] => Kept(j)
      BY <1>14, Domains DEF Kept, UnlinkEntry, Parent, Taken, iget, Goto, inodeVars, fileVars, putVars
    <2>2. nlink[ents[cur[p]][Name(p)]] # 0
      BY <1>14, FoundName DEF UnlinkEntry, Parent, Taken, ilocked
    <2> QED
      BY <2>1, <2>2 DEF Strange
  <1>15. CASE UnlinkFull(p)
    BY <1>15, Domains DEF Strange, Kept, UnlinkFull, PutIp, CallPut, Goto, inodeVars, fileVars
  <1>16. CASE UnlinkOk(p)
    BY <1>16, Domains DEF Strange, Kept, UnlinkOk, Erase, PutCur, CallPut, Goto, fileVars
  <1>17. CASE UnlinkDone(p)
    BY <1>17, Domains DEF Strange, Kept, UnlinkDone, PutIp, CallPut, Goto, fileVars
  <1>18. CASE CreateNone(p)
    BY <1>18, Domains
      DEF Strange, Kept, CreateNone, Parent, PutCur, CallPut, Goto, inodeVars, tableVars, fileVars
  <1>19. CASE CreateTaken(p)
    <2>1. \A j \in Inodes : j # cur[p] /\ j # ents[cur[p]][Name(p)] => Kept(j)
      BY <1>19, Domains DEF Kept, CreateTaken, Parent, Taken, iget, PutCur, CallPut, Goto, inodeVars, fileVars
    <2>2. nlink[ents[cur[p]][Name(p)]] # 0
      BY <1>19, FoundName DEF CreateTaken, Parent, Taken, ilocked
    <2> QED
      BY <2>1, <2>2 DEF Strange
  <1>20. CASE CreateExisting(p)
    BY <1>20, Domains
      DEF Strange, Kept, CreateExisting, OpenIp, PutIp, CallPut, Goto, inodeVars, fileVars, putVars
  <1>21. CASE CreateDone(p)
    BY <1>21, Domains
      DEF Strange, Kept, CreateDone, OpenIp, PutIp, CallPut, Goto, inodeVars, fileVars, putVars
  <1>22. ASSUME NEW i \in Free, CreateAt(p, i)
         PROVE  \A j \in Inodes : Strange(p, j) => Kept(j)
    <2>1. type[i] = "free"
      BY <1>22 DEF Free
    <2> QED
      BY <1>22, <2>1, Domains
        DEF Strange, Kept, CreateAt, NewInode, DotDot, NoEnts, Free, Parent, Taken, PutCur, CallPut, Goto,
            fileVars
  <1>23. ASSUME NEW i \in Free, FailAt(p, i)
         PROVE  \A j \in Inodes : Strange(p, j) => Kept(j)
    <2>1. type[i] = "free"
      BY <1>23 DEF Free
    <2> QED
      BY <1>23, <2>1, Domains
        DEF Strange, Kept, FailAt, NewInode, DotDot, NoEnts, Free, Parent, Taken, CallPut, Goto, fileVars
  <1>24. CASE FailedDone(p)
    BY <1>24, Domains DEF Strange, Kept, FailedDone, PutCur, CallPut, Goto, inodeVars, fileVars
  <1>25. CASE fileclose(p)
    BY <1>25, Domains DEF Strange, Kept, fileclose, CallPut, Goto, inodeVars, tableVars
  <1>26. CASE PutRef(p)
    BY <1>26, Domains DEF Strange, Kept, PutRef, Unref, Return, Last, Goto, inodeVars, fileVars, callVars
  <1>27. CASE PutLast(p)
    BY <1>27, Domains DEF Strange, Kept, PutLast, Last, Goto, inodeVars, fileVars, callVars, putVars
  <1>28. CASE Trunc(p)
    BY <1>28, Domains DEF Strange, Kept, Trunc, NoEnts, Goto, fileVars, callVars, putVars
  <1>29. CASE PutUnref(p)
    BY <1>29, Domains DEF Strange, Kept, PutUnref, Unref, Goto, inodeVars, fileVars, callVars, putVars
  <1>30. CASE ifree(p)
    BY <1>30, Domains DEF Strange, Kept, ifree, Return, Goto, tableVars, fileVars, callVars
  <1>31. CASE end_op(p)
    BY <1>31, Domains DEF Strange, Kept, end_op, commit, Goto, inodeVars, tableVars, fileVars, putVars
  <1>32. CASE Reclaim(p)
    BY <1>32 DEF Reclaim
  <1> QED
    BY <1>1, <1>2, <1>3, <1>4, <1>5, <1>6, <1>7, <1>8, <1>9, <1>10, <1>11, <1>12, <1>13, <1>14,
       <1>15, <1>16, <1>17, <1>18, <1>19, <1>20, <1>21, <1>22, <1>23, <1>24, <1>25, <1>26, <1>27,
       <1>28, <1>29, <1>30, <1>31, <1>32 DEF Step

FreeOf(p) ==
    /\ pc[p] \in {"trunc", "unref", "ifree"} =>
          /\ type[victim[p]] # "free" /\ nlink[victim[p]] = 0
          /\ ref[victim[p]] = IF pc[p] = "ifree" THEN 0 ELSE 1
    /\ pc[p] = "trunc" => valid[victim[p]]

LEMMA FreeOfStep ==
    ASSUME NEW p \in Procs, Types, CallInv, RefInv, FreeInv, Step(p)
    PROVE  FreeOf(p)' /\ (pc'[p] = "ifree" => victim'[p] = victim[p])
  <1>1. ASSUME NEW o \in work.ops[p], NEW q \in work.paths, Begin(p, o, q)
        PROVE  FreeOf(p)' /\ (pc'[p] = "ifree" => victim'[p] = victim[p])
    <2>1. pc'[p] \notin {"trunc", "unref", "ifree"}
      BY <1>1, Refs, Domains DEF Putting, Returns, Begin, iget, Goto, StartOf, inodeVars, fileVars, putVars
    <2> QED
      BY <2>1 DEF FreeOf
  <1>2. CASE WalkEnds(p)
    <2>1. pc'[p] \notin {"trunc", "unref", "ifree"}
      BY <1>2, Refs, Domains
        DEF Putting, Returns, WalkEnds, GiveUp, PutCur, CallPut, Goto, inodeVars, fileVars
    <2> QED
      BY <2>1 DEF FreeOf
  <1>3. CASE WalkParent(p)
    <2>1. pc'[p] \notin {"trunc", "unref", "ifree"}
      BY <1>3, Refs, Domains
        DEF Putting, Returns, WalkParent, Goto, NotDir, WantsParent, inodeVars, fileVars, callVars, putVars
    <2> QED
      BY <2>1 DEF FreeOf
  <1>4. CASE WalkDown(p)
    <2>1. pc'[p] \notin {"trunc", "unref", "ifree"}
      BY <1>4, Refs, Domains
        DEF Putting, Returns, WalkDown, CallPut, Goto, NotDir, WantsParent, inodeVars, fileVars
    <2> QED
      BY <2>1 DEF FreeOf
  <1>5. CASE sys_open(p)
    <2>1. pc'[p] \notin {"trunc", "unref", "ifree"}
      BY <1>5, Refs, Domains DEF Putting, Returns, sys_open, Found, Goto, inodeVars, putVars
    <2> QED
      BY <2>1 DEF FreeOf
  <1>6. CASE sys_chdir(p)
    <2>1. pc'[p] \notin {"trunc", "unref", "ifree"}
      BY <1>6, Refs, Domains DEF Putting, Returns, sys_chdir, Found, CallPut, Goto, inodeVars
    <2> QED
      BY <2>1 DEF FreeOf
  <1>7. CASE LinkDir(p)
    <2>1. pc'[p] \notin {"trunc", "unref", "ifree"}
      BY <1>7, Refs, Domains DEF Putting, Returns, LinkDir, Found, PutCur, CallPut, Goto, inodeVars, fileVars
    <2> QED
      BY <2>1 DEF FreeOf
  <1>8. CASE LinkFails(p)
    <2>1. pc'[p] \notin {"trunc", "unref", "ifree"}
      BY <1>8, Refs, Domains
        DEF Putting, Returns, LinkFails, Parent, PutCur, CallPut, Goto, inodeVars, tableVars, fileVars
    <2> QED
      BY <2>1 DEF FreeOf
  <1>9. CASE LinkNew(p)
    <2>1. pc'[p] \notin {"trunc", "unref", "ifree"}
      BY <1>9, Refs, Domains
        DEF Putting, Returns, LinkNew, Parent, Taken, PutCur, CallPut, Goto, tableVars, fileVars
    <2> QED
      BY <2>1 DEF FreeOf
  <1>10. CASE LinkDone(p)
    <2>1. pc'[p] \notin {"trunc", "unref", "ifree"}
      BY <1>10, Refs, Domains
        DEF Putting, Returns, LinkDone, PutIp, CallPut, Goto, inodeVars, tableVars, fileVars
    <2> QED
      BY <2>1 DEF FreeOf
  <1>11. CASE LinkBad(p)
    <2>1. pc'[p] \notin {"trunc", "unref", "ifree"}
      BY <1>11, Refs, Domains DEF Putting, Returns, LinkBad, PutIp, CallPut, Goto, tableVars, fileVars
    <2> QED
      BY <2>1 DEF FreeOf
  <1>12. ASSUME NEW q \in work.paths, LinkOld(p, q)
         PROVE  FreeOf(p)' /\ (pc'[p] = "ifree" => victim'[p] = victim[p])
    <2>1. pc'[p] \notin {"trunc", "unref", "ifree"}
      BY <1>12, Refs, Domains
        DEF Putting, Returns, LinkOld, SecondWalk, Found, StartOf, Goto, fileVars, putVars
    <2> QED
      BY <2>1 DEF FreeOf
  <1>13. CASE UnlinkNone(p)
    <2>1. pc'[p] \notin {"trunc", "unref", "ifree"}
      BY <1>13, Refs, Domains
        DEF Putting, Returns, UnlinkNone, Parent, PutCur, CallPut, Goto, inodeVars, tableVars, fileVars
    <2> QED
      BY <2>1 DEF FreeOf
  <1>14. CASE UnlinkEntry(p)
    <2>1. pc'[p] \notin {"trunc", "unref", "ifree"}
      BY <1>14, Refs, Domains
        DEF Putting, Returns, UnlinkEntry, Parent, Taken, iget, Goto, inodeVars, fileVars, putVars
    <2> QED
      BY <2>1 DEF FreeOf
  <1>15. CASE UnlinkFull(p)
    <2>1. pc'[p] \notin {"trunc", "unref", "ifree"}
      BY <1>15, Refs, Domains DEF Putting, Returns, UnlinkFull, PutIp, CallPut, Goto, inodeVars, fileVars
    <2> QED
      BY <2>1 DEF FreeOf
  <1>16. CASE UnlinkOk(p)
    <2>1. pc'[p] \notin {"trunc", "unref", "ifree"}
      BY <1>16, Refs, Domains DEF Putting, Returns, UnlinkOk, Erase, PutCur, CallPut, Goto, fileVars
    <2> QED
      BY <2>1 DEF FreeOf
  <1>17. CASE UnlinkDone(p)
    <2>1. pc'[p] \notin {"trunc", "unref", "ifree"}
      BY <1>17, Refs, Domains DEF Putting, Returns, UnlinkDone, PutIp, CallPut, Goto, fileVars
    <2> QED
      BY <2>1 DEF FreeOf
  <1>18. CASE CreateNone(p)
    <2>1. pc'[p] \notin {"trunc", "unref", "ifree"}
      BY <1>18, Refs, Domains
        DEF Putting, Returns, CreateNone, Parent, PutCur, CallPut, Goto, inodeVars, tableVars, fileVars
    <2> QED
      BY <2>1 DEF FreeOf
  <1>19. CASE CreateTaken(p)
    <2>1. pc'[p] \notin {"trunc", "unref", "ifree"}
      BY <1>19, Refs, Domains
        DEF Putting, Returns, CreateTaken, Parent, Taken, iget, PutCur, CallPut, Goto, inodeVars, fileVars
    <2> QED
      BY <2>1 DEF FreeOf
  <1>20. CASE CreateExisting(p)
    <2>1. pc'[p] \notin {"trunc", "unref", "ifree"}
      BY <1>20, Refs, Domains
        DEF Putting, Returns, CreateExisting, OpenIp, PutIp, CallPut, Goto, inodeVars, fileVars, putVars
    <2> QED
      BY <2>1 DEF FreeOf
  <1>21. CASE CreateDone(p)
    <2>1. pc'[p] \notin {"trunc", "unref", "ifree"}
      BY <1>21, Refs, Domains
        DEF Putting, Returns, CreateDone, OpenIp, PutIp, CallPut, Goto, inodeVars, fileVars, putVars
    <2> QED
      BY <2>1 DEF FreeOf
  <1>22. ASSUME NEW i \in Free, CreateAt(p, i)
         PROVE  FreeOf(p)' /\ (pc'[p] = "ifree" => victim'[p] = victim[p])
    <2>1. pc'[p] \notin {"trunc", "unref", "ifree"}
      BY <1>22, Refs, Domains
        DEF Putting, Returns, CreateAt, NewInode, DotDot, NoEnts, Free, Parent, Taken, PutCur, CallPut, Goto,
            fileVars
    <2> QED
      BY <2>1 DEF FreeOf
  <1>23. ASSUME NEW i \in Free, FailAt(p, i)
         PROVE  FreeOf(p)' /\ (pc'[p] = "ifree" => victim'[p] = victim[p])
    <2>1. pc'[p] \notin {"trunc", "unref", "ifree"}
      BY <1>23, Refs, Domains
        DEF Putting, Returns, FailAt, NewInode, DotDot, NoEnts, Free, Parent, Taken, CallPut, Goto, fileVars
    <2> QED
      BY <2>1 DEF FreeOf
  <1>24. CASE FailedDone(p)
    <2>1. pc'[p] \notin {"trunc", "unref", "ifree"}
      BY <1>24, Refs, Domains DEF Putting, Returns, FailedDone, PutCur, CallPut, Goto, inodeVars, fileVars
    <2> QED
      BY <2>1 DEF FreeOf
  <1>25. CASE fileclose(p)
    <2>1. pc'[p] \notin {"trunc", "unref", "ifree"}
      BY <1>25, Refs, Domains DEF Putting, Returns, fileclose, CallPut, Goto, inodeVars, tableVars
    <2> QED
      BY <2>1 DEF FreeOf
  <1>26. CASE PutRef(p)
    <2>1. pc'[p] \notin {"trunc", "unref", "ifree"}
      BY <1>26, Refs, Domains
        DEF Putting, Returns, PutRef, Unref, Return, Last, Goto, inodeVars, fileVars, callVars
    <2> QED
      BY <2>1 DEF FreeOf
  <1>27. CASE PutLast(p)
    <2>1. victim[p] \in Inodes /\ Victim[p] = victim[p]
      BY <1>27, Refs DEF PutLast, Putting, Victim
    <2>2. type[victim[p]] # "free"
      BY <2>1, Holds
    <2>3. /\ ref[victim[p]] = 1 /\ valid[victim[p]] /\ nlink[victim[p]] = 0 /\ pc'[p] = "trunc"
          /\ UNCHANGED <<type, nlink, ref, valid, victim>>
      BY <1>27, Domains DEF PutLast, Last, Goto, inodeVars, fileVars, callVars, putVars
    <2> QED
      BY <2>2, <2>3 DEF FreeOf
  <1>28. CASE Trunc(p)
    <2>1. pc[p] = "trunc" /\ pc'[p] = "unref" /\ UNCHANGED <<type, nlink, ref, victim>>
      BY <1>28, Domains DEF Trunc, NoEnts, Goto, fileVars, callVars, putVars
    <2> QED
      BY <2>1 DEF FreeOf, FreeInv
  <1>29. CASE PutUnref(p)
    <2>1. pc[p] = "unref" /\ victim[p] \in Inodes
      BY <1>29, Refs DEF PutUnref, Putting
    <2>2. pc'[p] = "ifree" /\ ref' = [ref EXCEPT ![victim[p]] = @ - 1] /\ UNCHANGED <<type, nlink, victim>>
      BY <1>29, Domains DEF PutUnref, Unref, Goto, inodeVars, fileVars, callVars, putVars
    <2>3. ref[victim[p]] = 1 /\ type[victim[p]] # "free" /\ nlink[victim[p]] = 0
      BY <2>1 DEF FreeInv
    <2>4. ref'[victim[p]] = 0
      BY <2>1, <2>2, <2>3, Domains
    <2> QED
      BY <2>2, <2>3, <2>4 DEF FreeOf
  <1>30. CASE ifree(p)
    <2>1. pc'[p] \notin {"trunc", "unref", "ifree"}
      BY <1>30, Refs, Domains DEF Putting, Returns, ifree, Return, Goto, tableVars, fileVars, callVars
    <2> QED
      BY <2>1 DEF FreeOf
  <1>31. CASE end_op(p)
    <2>1. pc'[p] \notin {"trunc", "unref", "ifree"}
      BY <1>31, Refs, Domains
        DEF Putting, Returns, end_op, commit, Goto, inodeVars, tableVars, fileVars, putVars
    <2> QED
      BY <2>1 DEF FreeOf
  <1>32. CASE Reclaim(p)
    <2>1. pc'[p] \notin {"trunc", "unref", "ifree"}
      BY <1>32, Refs, Domains
        DEF Putting, Returns, Reclaim, CallPut, Goto, Orphan, inodeVars, fileVars, putVars
    <2> QED
      BY <2>1 DEF FreeOf
  <1> QED
    BY <1>1, <1>2, <1>3, <1>4, <1>5, <1>6, <1>7, <1>8, <1>9, <1>10, <1>11, <1>12, <1>13, <1>14,
       <1>15, <1>16, <1>17, <1>18, <1>19, <1>20, <1>21, <1>22, <1>23, <1>24, <1>25, <1>26, <1>27,
       <1>28, <1>29, <1>30, <1>31, <1>32 DEF Step

\* who frees an inode is alone with it
LEMMA Alone ==
    ASSUME Types, CallInv, BootInv, RefInv, FreeInv, NEW q \in Procs,
           pc[q] \in {"trunc", "unref", "ifree"}, NEW p \in Procs \ {q}
    PROVE  victim[q] \in Inodes /\ pc[p] # "reclaim" /\ Strange(p, victim[q])
  <1> DEFINE v == victim[q]
  <1>1. v \in Inodes
    BY Refs DEF Putting
  <1>2. pc[p] # "reclaim"
    BY DEF BootInv, Starting, Started
  <1>3. /\ type[v] # "free" /\ nlink[v] = 0
        /\ ref[v] = IF pc[q] = "ifree" THEN 0 ELSE 1
    BY DEF FreeInv
  <1>4. cwd[p] # v /\ cur[p] # v /\ ip[p] # v /\ Victim[p] # v
    <2>1. CASE pc[q] = "ifree"
      <3>1. ~(ref[v] > 0)
        BY <1>3, <2>1
      <3> QED
        BY <1>1, <3>1, Holds
    <2>2. CASE pc[q] # "ifree"
      <3>1. ~(ref[v] > 1) /\ Victim[q] = v
        BY <1>3, <2>2 DEF Victim
      <3> QED
        BY <1>1, <3>1, Two
    <2> QED
      BY <2>1, <2>2
  <1>5. victim[p] # v
    <2> SUFFICES ASSUME victim[p] = v PROVE FALSE
      OBVIOUS
    <2>1. pc[p] = "ifree"
      BY <1>4 DEF Victim
    <2>2. ref[v] = 0
      BY <2>1 DEF FreeInv
    <2> QED
      BY <1>3, <2>1, <2>2 DEF FreeInv
  <1> QED
    BY <1>1, <1>2, <1>3, <1>4, <1>5 DEF Strange

LEMMA FreeStep ==
    ASSUME NEW p \in Procs, Types, CallInv, BootInv, RefInv, LockInv, FreeInv, TreeInv, NodeInv,
           UNCHANGED work, Step(p)
    PROVE  FreeInv'
  <1>1. Frame(p)
    BY FrameStep
  <1>2. FreeOf(p)' /\ (pc'[p] = "ifree" => victim'[p] = victim[p])
    BY FreeOfStep
  <1>3. ASSUME NEW q \in Procs \ {p}
        PROVE  FreeOf(q)'
    <2>1. pc'[q] = pc[q] /\ victim'[q] = victim[q]
      BY <1>1 DEF Frame
    <2>2. CASE pc[q] \in {"trunc", "unref", "ifree"}
      <3>1. Kept(victim[q])
        BY <2>2, Alone, KeptStep
      <3>2. FreeOf(q)
        BY DEF FreeInv, FreeOf
      <3> QED
        BY <2>1, <3>1, <3>2 DEF Kept, FreeOf
    <2>3. CASE pc[q] \notin {"trunc", "unref", "ifree"}
      BY <2>1, <2>3 DEF FreeOf
    <2> QED
      BY <2>2, <2>3
  <1>4. ASSUME NEW q \in Procs \ {p}, pc'[p] = "ifree", pc'[q] = "ifree"
        PROVE  victim'[p] # victim'[q]
    <2>1. pc[q] = "ifree" /\ victim'[q] = victim[q] /\ victim'[p] = victim[p]
      BY <1>1, <1>2, <1>4 DEF Frame
    <2>2. Strange(p, victim[q])
      BY <2>1, Alone
    <2> QED
      BY <2>1, <2>2 DEF Strange
  <1>5. ASSUME NEW q \in Procs \ {p}, NEW r \in Procs \ {p},
               pc'[q] = "ifree", pc'[r] = "ifree", victim'[q] = victim'[r]
        PROVE  q = r
    BY <1>1, <1>5 DEF Frame, FreeInv
  <1>6. \A q \in Procs : FreeOf(q)'
    BY <1>2, <1>3
  <1>7. \A q, r \in Procs : pc'[q] = "ifree" /\ pc'[r] = "ifree" /\ victim'[q] = victim'[r] => q = r
    BY <1>4, <1>5
  <1> QED
    BY <1>6, <1>7 DEF FreeOf, FreeInv

-----------------------------------------------------------------------------
(* Trees *)

\* a tree stays one when its directories keep their entries, and what these
\* lead to its type
SameNames(ty, nl, en, out, ty2, nl2, en2, out2) ==
    /\ \A d \in Inodes : LiveDir(ty2, nl2, out2, d) <=> LiveDir(ty, nl, out, d)
    /\ \A d \in Inodes : LiveDir(ty, nl, out, d) =>
          en2[d] = en[d] /\ \A n \in Elems : en[d][n] # 0 => ty2[en[d][n]] = ty[en[d][n]]

LEMMA SameTree ==
    ASSUME NEW ty, NEW nl, NEW en, NEW out, NEW ty2, NEW nl2, NEW en2, NEW out2,
           en \in [Inodes -> [Elems -> Inodes \cup {0}]], Tree(ty, nl, en, out),
           SameNames(ty, nl, en, out, ty2, nl2, en2, out2)
    PROVE  /\ Tree(ty2, nl2, en2, out2)
           /\ \A i : Into(ty2, nl2, en2, out2, i) = Into(ty, nl, en, out, i)
  <1>0. /\ \A d \in Inodes : LiveDir(ty2, nl2, out2, d) <=> LiveDir(ty, nl, out, d)
        /\ \A d \in Inodes : LiveDir(ty, nl, out, d) =>
              en2[d] = en[d] /\ \A n \in Elems : en[d][n] # 0 => ty2[en[d][n]] = ty[en[d][n]]
    BY DEF SameNames
  <1>1. ASSUME NEW d \in Inodes, LiveDir(ty2, nl2, out2, d)
        PROVE  DirOk(ty2, nl2, en2, out2, d)
    <2>1. LiveDir(ty, nl, out, d) /\ DirOk(ty, nl, en, out, d) /\ en2[d] = en[d]
      BY <1>0, <1>1 DEF Tree
    <2>2. \A n \in Elems : en[d][n] \in Inodes \cup {0}
      OBVIOUS
    <2>3. en[d][".."] \in Inodes /\ LiveDir(ty, nl, out, en[d][".."])
      BY <2>1 DEF DirOk, LiveDir
    <2>4. LiveDir(ty2, nl2, out2, en2[d][".."]) /\ en2[en[d][".."]] = en[en[d][".."]]
      BY <1>0, <2>1, <2>3
    <2>5. d # Root => \E n \in Names : en2[en2[d][".."]][n] = d
      BY <2>1, <2>4 DEF DirOk
    <2>6. ASSUME NEW n \in Names, en2[d][n] # 0
          PROVE  /\ ty2[en2[d][n]] # "free" /\ en2[d][n] # Root
                 /\ ty2[en2[d][n]] = "dir" =>
                      /\ LiveDir(ty2, nl2, out2, en2[d][n]) /\ en2[en2[d][n]][".."] = d
                      /\ \A m \in Names : en2[d][m] = en2[d][n] => m = n
      <3>1. n \in Elems /\ en[d][n] \in Inodes /\ en[d][n] # 0 /\ ty2[en[d][n]] = ty[en[d][n]]
        BY <1>0, <2>1, <2>2, <2>6, Consts
      <3>2. /\ ty[en[d][n]] # "free" /\ en[d][n] # Root
            /\ ty[en[d][n]] = "dir" =>
                 /\ LiveDir(ty, nl, out, en[d][n]) /\ en[en[d][n]][".."] = d
                 /\ \A m \in Names : en[d][m] = en[d][n] => m = n
        BY <2>1, <3>1 DEF DirOk
      <3> QED
        BY <1>0, <2>1, <3>1, <3>2
    <2> QED
      BY <2>4, <2>5, <2>6 DEF DirOk
  <1>2. LiveDir(ty2, nl2, out2, Root) /\ en2[Root][".."] = Root
    BY <1>0, Consts DEF Tree
  <1>3. ASSUME NEW i
        PROVE  Into(ty2, nl2, en2, out2, i) = Into(ty, nl, en, out, i)
    BY <1>0 DEF Into
  <1> QED
    BY <1>1, <1>2, <1>3 DEF Tree

\* a name for an inode: d gets the entry n, for a file or for a new directory
\* whose ".." is d
NewName(ty, nl, en, out, ty2, nl2, en2, out2, d, n, i) ==
    /\ LiveDir(ty, nl, out, d) /\ n \in Names /\ en[d][n] = 0
    /\ i \in Inodes /\ i # Root /\ i # d /\ ty2[i] # "free" /\ ~LiveDir(ty, nl, out, i)
    /\ \A j \in Inodes \ {i} : ty2[j] = ty[j]
    /\ ty2[i] = ty[i] \/ \A e \in Inodes, m \in Elems : LiveDir(ty, nl, out, e) => en[e][m] # i
    /\ ty2[i] = "dir" => /\ \A e \in Inodes, m \in Elems : LiveDir(ty, nl, out, e) => en[e][m] # i
                         /\ en2[i][".."] = d /\ \A m \in Names : en2[i][m] = 0
    /\ \A e \in Inodes \ {i} : LiveDir(ty2, nl2, out2, e) <=> LiveDir(ty, nl, out, e)
    /\ LiveDir(ty2, nl2, out2, i) <=> ty2[i] = "dir"
    /\ \A e \in Inodes \ {d} : LiveDir(ty, nl, out, e) => en2[e] = en[e]
    /\ \A m \in Elems : en2[d][m] = IF m = n THEN i ELSE en[d][m]

LEMMA GrownTree ==
    ASSUME NEW ty, NEW nl, NEW en, NEW out, NEW ty2, NEW nl2, NEW en2, NEW out2,
           NEW d, NEW n, NEW i,
           en \in [Inodes -> [Elems -> Inodes \cup {0}]], Tree(ty, nl, en, out),
           NewName(ty, nl, en, out, ty2, nl2, en2, out2, d, n, i)
    PROVE  Tree(ty2, nl2, en2, out2)
  <1>1. /\ d \in Inodes /\ LiveDir(ty, nl, out, d) /\ n \in Names /\ en[d][n] = 0
        /\ i \in Inodes /\ i # Root /\ i # d /\ ty2[i] # "free" /\ ~LiveDir(ty, nl, out, i)
    BY DEF NewName, LiveDir
  <1>2. n \in Elems /\ n # ".." /\ ".." \in Elems /\ Names \subseteq Elems /\ ".." \notin Names /\ Root \in Inodes
    BY <1>1, Consts
  <1>3. \A e : LiveDir(ty, nl, out, e) => LiveDir(ty2, nl2, out2, e) /\ e # i /\ e \in Inodes
    BY <1>1 DEF NewName, LiveDir
  <1>4. \A e : LiveDir(ty, nl, out, e) => en2[e][".."] = en[e][".."]
    BY <1>2, <1>3 DEF NewName
  <1>5. \A e, m : LiveDir(ty, nl, out, e) /\ m \in Elems /\ en[e][m] # 0 => en2[e][m] = en[e][m]
    BY <1>1, <1>3 DEF NewName
  <1>6. ASSUME NEW e, LiveDir(ty, nl, out, e)
        PROVE  DirOk(ty2, nl2, en2, out2, e)
    <2>1. DirOk(ty, nl, en, out, e) /\ e \in Inodes /\ e # i
      BY <1>3, <1>6 DEF Tree
    <2>2. LiveDir(ty, nl, out, en[e][".."])
      BY <2>1 DEF DirOk
    <2>3. LiveDir(ty2, nl2, out2, en2[e][".."])
      BY <1>3, <1>4, <1>6, <2>2
    <2>4. e # Root => \E m \in Names : en2[en2[e][".."]][m] = e
      <3> SUFFICES ASSUME e # Root PROVE \E m \in Names : en2[en2[e][".."]][m] = e
        OBVIOUS
      <3>1. PICK m \in Names : en[en[e][".."]][m] = e
        BY <2>1 DEF DirOk
      <3>2. en2[en[e][".."]][m] = e
        BY <1>2, <1>5, <2>1, <2>2, <3>1, Consts
      <3> QED
        BY <1>4, <1>6, <3>2
    <2>5. ASSUME NEW m \in Names, en2[e][m] # 0
          PROVE  /\ ty2[en2[e][m]] # "free" /\ en2[e][m] # Root
                 /\ ty2[en2[e][m]] = "dir" =>
                      /\ LiveDir(ty2, nl2, out2, en2[e][m]) /\ en2[en2[e][m]][".."] = e
                      /\ \A k \in Names : en2[e][k] = en2[e][m] => k = m
      <3>1. CASE e = d /\ m = n
        <4>1. en2[e][m] = i
          BY <1>2, <3>1 DEF NewName
        <4>2. ty2[i] = "dir" => \A k \in Names : en2[d][k] = i => k = n
          <5> SUFFICES ASSUME ty2[i] = "dir", NEW k \in Names, en2[d][k] = i, k # n PROVE FALSE
            OBVIOUS
          <5>1. en[d][k] = i /\ k \in Elems
            BY <1>2 DEF NewName
          <5> QED
            BY <1>1, <5>1 DEF NewName
        <4> QED
          BY <1>1, <3>1, <4>1, <4>2 DEF NewName
      <3>2. CASE ~(e = d /\ m = n)
        <4> DEFINE c == en[e][m]
        <4>1. en2[e][m] = c /\ m \in Elems /\ c # 0 /\ c \in Inodes
          BY <1>2, <1>6, <2>1, <2>5, <3>2 DEF NewName
        <4>2. /\ ty[c] # "free" /\ c # Root
              /\ ty[c] = "dir" => /\ LiveDir(ty, nl, out, c) /\ en[c][".."] = e
                                  /\ \A k \in Names : en[e][k] = c => k = m
          BY <2>1, <4>1 DEF DirOk
        <4>3. ty2[c] = ty[c]
          BY <1>1, <1>6, <4>1, <2>1 DEF NewName
        <4>4. ty2[c] = "dir" => /\ LiveDir(ty2, nl2, out2, c) /\ en2[c][".."] = e /\ c # i
          BY <1>3, <1>4, <4>2, <4>3
        <4>5. ty2[c] = "dir" => \A k \in Names : en2[e][k] = c => k = m
          <5> SUFFICES ASSUME ty2[c] = "dir", NEW k \in Names, en2[e][k] = c PROVE k = m
            OBVIOUS
          <5>1. c # i /\ k \in Elems
            BY <1>2, <4>4
          <5>2. en[e][k] = c
            BY <1>1, <1>6, <5>1, <2>1 DEF NewName
          <5> QED
            BY <4>2, <4>3, <5>2
        <4> QED
          BY <4>1, <4>2, <4>3, <4>4, <4>5
      <3> QED
        BY <3>1, <3>2
    <2> QED
      BY <2>3, <2>4, <2>5 DEF DirOk
  <1>7. ASSUME LiveDir(ty2, nl2, out2, i)
        PROVE  DirOk(ty2, nl2, en2, out2, i)
    <2>1. en2[i][".."] = d /\ (\A m \in Names : en2[i][m] = 0) /\ en2[d][n] = i
      BY <1>2, <1>7 DEF NewName
    <2> QED
      BY <1>1, <1>3, <2>1 DEF DirOk
  <1>8. \A e \in Inodes : LiveDir(ty2, nl2, out2, e) => DirOk(ty2, nl2, en2, out2, e)
    BY <1>6, <1>7 DEF NewName
  <1>9. LiveDir(ty2, nl2, out2, Root) /\ en2[Root][".."] = Root
    BY <1>3, <1>4 DEF Tree
  <1> QED
    BY <1>8, <1>9 DEF Tree

LEMMA GrownInto ==
    ASSUME NEW ty, NEW nl, NEW en, NEW out, NEW ty2, NEW nl2, NEW en2, NEW out2,
           NEW d, NEW n, NEW i,
           NewName(ty, nl, en, out, ty2, nl2, en2, out2, d, n, i)
    PROVE  \A j \in Inodes : Into(ty2, nl2, en2, out2, j) =
               Into(ty, nl, en, out, j) \cup (IF j = i THEN {<<d, n>>} ELSE {})
                   \cup (IF j = d /\ ty2[i] = "dir" THEN {<<i, "..">>} ELSE {})
  <1>1. /\ d \in Inodes /\ LiveDir(ty, nl, out, d) /\ n \in Names /\ en[d][n] = 0
        /\ i \in Inodes /\ i # Root /\ i # d /\ ty2[i] # "free" /\ ~LiveDir(ty, nl, out, i)
    BY DEF NewName, LiveDir
  <1>2. n \in Elems /\ n # ".." /\ ".." \in Elems /\ Names \subseteq Elems /\ ".." \notin Names /\ 0 \notin Inodes
    BY <1>1, Consts
  <1> SUFFICES ASSUME NEW j \in Inodes, NEW e \in Inodes, NEW m \in Elems
               PROVE  <<e, m>> \in Into(ty2, nl2, en2, out2, j) <=>
                         \/ <<e, m>> \in Into(ty, nl, en, out, j)
                         \/ j = i /\ e = d /\ m = n
                         \/ j = d /\ ty2[i] = "dir" /\ e = i /\ m = ".."
    BY <1>1, <1>2 DEF Into
  <1>3. CASE e = i
    <2>1. m = ".." \/ m \in Names
      BY DEF Elems
    <2>2. LiveDir(ty2, nl2, out2, i) <=> ty2[i] = "dir"
      BY DEF NewName
    <2>3. ty2[i] = "dir" => (en2[i][m] = j <=> m = ".." /\ j = d)
      BY <1>1, <1>2, <2>1 DEF NewName
    <2> QED
      BY <1>1, <1>3, <2>2, <2>3 DEF Into
  <1>4. CASE e # i
    <2>1. LiveDir(ty2, nl2, out2, e) <=> LiveDir(ty, nl, out, e)
      BY <1>4 DEF NewName
    <2>2. LiveDir(ty, nl, out, e) => en2[e][m] = IF e = d /\ m = n THEN i ELSE en[e][m]
      BY DEF NewName
    <2> QED
      BY <1>1, <1>2, <1>4, <2>1, <2>2 DEF Into
  <1> QED
    BY <1>3, <1>4

\* a name goes: d loses the entry n, of a file or of an empty directory, which
\* is removed with it
OldName(ty, nl, en, out, nl2, en2, out2, d, n, i) ==
    /\ LiveDir(ty, nl, out, d) /\ n \in Names /\ en[d][n] = i /\ i \in Inodes /\ i # d
    /\ ty[i] = "dir" => \A m \in Names : en[i][m] = 0
    /\ \A e \in Inodes : LiveDir(ty, nl2, out2, e) <=> LiveDir(ty, nl, out, e) /\ (ty[i] = "dir" => e # i)
    /\ \A e \in Inodes \ {d} : LiveDir(ty, nl, out, e) => en2[e] = en[e]
    /\ \A m \in Elems : en2[d][m] = IF m = n THEN 0 ELSE en[d][m]

LEMMA ShrunkTree ==
    ASSUME NEW ty, NEW nl, NEW en, NEW out, NEW nl2, NEW en2, NEW out2,
           NEW d, NEW n, NEW i,
           en \in [Inodes -> [Elems -> Inodes \cup {0}]], Tree(ty, nl, en, out),
           OldName(ty, nl, en, out, nl2, en2, out2, d, n, i)
    PROVE  Tree(ty, nl2, en2, out2)
  <1>1. /\ d \in Inodes /\ LiveDir(ty, nl, out, d) /\ n \in Names /\ en[d][n] = i /\ i \in Inodes /\ i # d
        /\ DirOk(ty, nl, en, out, d)
    BY DEF OldName, LiveDir, Tree
  <1>2. /\ n \in Elems /\ n # ".." /\ ".." \in Elems /\ Names \subseteq Elems /\ ".." \notin Names
        /\ Root \in Inodes /\ 0 \notin Inodes
    BY <1>1, Consts
  <1>3. i # Root /\ (ty[i] = "dir" => LiveDir(ty, nl, out, i) /\ en[i][".."] = d)
    BY <1>1, <1>2 DEF DirOk
  <1>4. \A e : LiveDir(ty, nl2, out2, e) => e \in Inodes /\ LiveDir(ty, nl, out, e) /\ (ty[i] = "dir" => e # i)
    BY DEF OldName, LiveDir
  <1>5. \A e : LiveDir(ty, nl, out, e) /\ (ty[i] = "dir" => e # i) => LiveDir(ty, nl2, out2, e)
    BY DEF OldName, LiveDir
  <1>6. \A e, m : LiveDir(ty, nl, out, e) /\ m \in Elems /\ ~(e = d /\ m = n) => en2[e][m] = en[e][m]
    BY DEF OldName, LiveDir
  <1>7. ASSUME NEW e, LiveDir(ty, nl2, out2, e)
        PROVE  DirOk(ty, nl2, en2, out2, e)
    <2>1. DirOk(ty, nl, en, out, e) /\ e \in Inodes /\ LiveDir(ty, nl, out, e) /\ (ty[i] = "dir" => e # i)
      BY <1>4, <1>7 DEF Tree
    <2>2. LiveDir(ty, nl, out, en[e][".."]) /\ en2[e][".."] = en[e][".."]
      BY <1>2, <1>6, <2>1 DEF DirOk
    <2>3. ty[i] = "dir" => en[e][".."] # i
      <3> SUFFICES ASSUME ty[i] = "dir", en[e][".."] = i PROVE FALSE
        OBVIOUS
      <3>1. e # Root
        BY <1>3 DEF Tree
      <3>2. PICK m \in Names : en[i][m] = e
        BY <2>1, <3>1 DEF DirOk
      <3> QED
        BY <1>2, <2>1, <3>2 DEF OldName
    <2>4. LiveDir(ty, nl2, out2, en2[e][".."])
      BY <1>5, <2>2, <2>3
    <2>5. e # Root => \E m \in Names : en2[en2[e][".."]][m] = e
      <3> SUFFICES ASSUME e # Root PROVE \E m \in Names : en2[en2[e][".."]][m] = e
        OBVIOUS
      <3>1. PICK m \in Names : en[en[e][".."]][m] = e
        BY <2>1 DEF DirOk
      <3>2. ty[e] = "dir"
        BY <2>1 DEF LiveDir
      <3>3. ~(en[e][".."] = d /\ m = n)
        BY <1>1, <2>1, <3>1, <3>2
      <3>4. en2[en[e][".."]][m] = e
        BY <1>2, <1>6, <2>2, <3>1, <3>3
      <3> QED
        BY <2>2, <3>4
    <2>6. ASSUME NEW m \in Names, en2[e][m] # 0
          PROVE  /\ ty[en2[e][m]] # "free" /\ en2[e][m] # Root
                 /\ ty[en2[e][m]] = "dir" =>
                      /\ LiveDir(ty, nl2, out2, en2[e][m]) /\ en2[en2[e][m]][".."] = e
                      /\ \A k \in Names : en2[e][k] = en2[e][m] => k = m
      <3> DEFINE c == en[e][m]
      <3>1. ~(e = d /\ m = n) /\ m \in Elems
        BY <1>2, <2>6 DEF OldName
      <3>2. en2[e][m] = c /\ c # 0
        BY <1>6, <2>1, <2>6, <3>1
      <3>3. /\ ty[c] # "free" /\ c # Root
            /\ ty[c] = "dir" => /\ LiveDir(ty, nl, out, c) /\ en[c][".."] = e
                                /\ \A k \in Names : en[e][k] = c => k = m
        BY <2>1, <3>2 DEF DirOk
      <3>4. ty[c] = "dir" => c # i
        BY <1>1, <1>3, <3>1, <3>3
      <3>5. ty[c] = "dir" => LiveDir(ty, nl2, out2, c) /\ en2[c][".."] = e
        BY <1>2, <1>5, <1>6, <3>3, <3>4
      <3>6. ty[c] = "dir" => \A k \in Names : en2[e][k] = c => k = m
        <4> SUFFICES ASSUME ty[c] = "dir", NEW k \in Names, en2[e][k] = c PROVE k = m
          OBVIOUS
        <4>1. ~(e = d /\ k = n) /\ k \in Elems
          BY <1>2, <3>2 DEF OldName
        <4>2. en[e][k] = c
          BY <1>6, <2>1, <4>1
        <4> QED
          BY <3>3, <4>2
      <3> QED
        BY <3>2, <3>3, <3>5, <3>6
    <2> QED
      BY <2>4, <2>5, <2>6 DEF DirOk
  <1>8. LiveDir(ty, nl2, out2, Root) /\ en2[Root][".."] = Root
    BY <1>2, <1>3, <1>5, <1>6 DEF Tree
  <1> QED
    BY <1>7, <1>8 DEF Tree

LEMMA OldChild ==
    ASSUME NEW ty, NEW nl, NEW en, NEW out, NEW nl2, NEW en2, NEW out2,
           NEW d, NEW n, NEW i, Tree(ty, nl, en, out),
           OldName(ty, nl, en, out, nl2, en2, out2, d, n, i)
    PROVE  i # Root /\ (ty[i] = "dir" => LiveDir(ty, nl, out, i) /\ en[i][".."] = d)
  <1>1. d \in Inodes /\ n \in Names /\ en[d][n] = i /\ i \in Inodes /\ DirOk(ty, nl, en, out, d)
    BY DEF OldName, LiveDir, Tree
  <1> QED
    BY <1>1, Consts DEF DirOk

LEMMA ShrunkFrom ==
    ASSUME NEW ty, NEW nl, NEW en, NEW out, NEW nl2, NEW en2, NEW out2,
           NEW d, NEW n, NEW i, Tree(ty, nl, en, out),
           OldName(ty, nl, en, out, nl2, en2, out2, d, n, i)
    PROVE  /\ <<d, n>> \in Into(ty, nl, en, out, i)
           /\ ty[i] = "dir" => <<i, "..">> \in Into(ty, nl, en, out, d)
  <1>1. LiveDir(ty, nl, out, d) /\ d \in Inodes /\ n \in Names /\ en[d][n] = i /\ i \in Inodes
    BY DEF OldName, LiveDir
  <1>2. n \in Elems /\ n # ".." /\ ".." \in Elems
    BY <1>1, Consts
  <1>3. i # Root /\ (ty[i] = "dir" => LiveDir(ty, nl, out, i) /\ en[i][".."] = d)
    BY OldChild
  <1>4. <<d, n>> \in Into(ty, nl, en, out, i)
    BY <1>1, <1>2 DEF Into
  <1>5. ty[i] = "dir" => <<i, "..">> \in Into(ty, nl, en, out, d)
    BY <1>1, <1>2, <1>3 DEF Into
  <1> QED
    BY <1>4, <1>5

LEMMA ShrunkInto ==
    ASSUME NEW ty, NEW nl, NEW en, NEW out, NEW nl2, NEW en2, NEW out2,
           NEW d, NEW n, NEW i, Tree(ty, nl, en, out),
           OldName(ty, nl, en, out, nl2, en2, out2, d, n, i)
    PROVE  \A j \in Inodes : Into(ty, nl2, en2, out2, j) =
               Into(ty, nl, en, out, j) \ ((IF j = i THEN {<<d, n>>} ELSE {})
                   \cup (IF j = d /\ ty[i] = "dir" THEN {<<i, "..">>} ELSE {}))
  <1>1. /\ d \in Inodes /\ LiveDir(ty, nl, out, d) /\ n \in Names /\ en[d][n] = i /\ i \in Inodes /\ i # d
    BY DEF OldName, LiveDir
  <1>2. /\ n \in Elems /\ n # ".." /\ ".." \in Elems /\ Names \subseteq Elems /\ ".." \notin Names
        /\ Root \in Inodes /\ 0 \notin Inodes
    BY <1>1, Consts
  <1>3. i # Root /\ (ty[i] = "dir" => LiveDir(ty, nl, out, i) /\ en[i][".."] = d)
    BY OldChild
  <1>4. ASSUME NEW j \in Inodes, NEW e \in Inodes, NEW m \in Elems
        PROVE  <<e, m>> \in Into(ty, nl2, en2, out2, j) <=>
                  /\ <<e, m>> \in Into(ty, nl, en, out, j)
                  /\ ~(j = i /\ e = d /\ m = n)
                  /\ ~(j = d /\ ty[i] = "dir" /\ e = i /\ m = "..")
    <2>1. CASE e = i /\ ty[i] = "dir"
      <3>1. ~LiveDir(ty, nl2, out2, e)
        BY <2>1 DEF OldName
      <3>2. m = ".." \/ m \in Names
        BY DEF Elems
      <3>3. en[i][m] = j => m = ".." /\ j = d
        BY <1>2, <1>3, <2>1, <3>2 DEF OldName
      <3> QED
        BY <2>1, <3>1, <3>3 DEF Into
    <2>2. CASE ~(e = i /\ ty[i] = "dir")
      <3>1. LiveDir(ty, nl2, out2, e) <=> LiveDir(ty, nl, out, e)
        BY <2>2 DEF OldName
      <3>2. LiveDir(ty, nl, out, e) => en2[e][m] = IF e = d /\ m = n THEN 0 ELSE en[e][m]
        BY DEF OldName
      <3> QED
        BY <1>1, <1>2, <2>2, <3>1, <3>2 DEF Into
    <2> QED
      BY <2>1, <2>2
  <1> QED
    BY <1>1, <1>2, <1>4 DEF Into

\* counting entries
LEMMA OneMore ==
    ASSUME NEW S, IsFiniteSet(S), NEW e, e \notin S
    PROVE  Cardinality(S \cup {e}) = Cardinality(S) + 1
  BY FS_AddElement

LEMMA OneLess ==
    ASSUME NEW S, IsFiniteSet(S), NEW e \in S
    PROVE  Cardinality(S \ {e}) = Cardinality(S) - 1
  BY FS_RemoveElement

\* a directory that is not empty of directories has at least two links
LEMMA TwoLinks ==
    ASSUME NEW ty, NEW nl, NEW en, NEW out, NEW d, NEW n \in Names, NEW i \in Inodes,
           en \in [Inodes -> [Elems -> Inodes \cup {0}]], Tree(ty, nl, en, out),
           LiveDir(ty, nl, out, d), en[d][n] = i, ty[i] = "dir"
    PROVE  Cardinality(Into(ty, nl, en, out, d)) + One(d, Root) > 1
  <1> DEFINE S == Into(ty, nl, en, out, d)
  <1>1. <<i, "..">> \in S /\ IsFiniteSet(S) /\ d \in Inodes /\ LiveDir(ty, nl, out, d) /\ DirOk(ty, nl, en, out, d)
    <2>1. d \in Inodes /\ DirOk(ty, nl, en, out, d)
      BY DEF Tree, LiveDir
    <2>2. i # Root /\ LiveDir(ty, nl, out, i) /\ en[i][".."] = d
      BY <2>1, Consts DEF DirOk
    <2>3. <<i, "..">> \in S
      BY <2>2, Consts DEF Into
    <2> QED
      BY <2>1, <2>3, IntoCount
  <1>2. IsFiniteSet(S \ {<<i, "..">>}) /\ Cardinality(S \ {<<i, "..">>}) = Cardinality(S) - 1
        /\ Cardinality(S) \in Nat /\ Cardinality(S \ {<<i, "..">>}) \in Nat
    BY <1>1, OneLess, FS_CardinalityType, FS_RemoveElement
  <1>3. CASE d = Root
    <2>1. One(d, Root) = 1
      BY <1>3 DEF One
    <2>2. Cardinality(S) > 0
      BY <1>1, IntoPos
    <2> QED
      BY <1>2, <2>1, <2>2
  <1>4. CASE d # Root
    <2>1. One(d, Root) = 0
      BY <1>4 DEF One
    <2>2. PICK m \in Names : en[en[d][".."]][m] = d
      BY <1>1, <1>4 DEF DirOk
    <2>3. LiveDir(ty, nl, out, en[d][".."]) /\ m \in Elems /\ m # ".."
      BY <1>1, <2>2, Consts DEF DirOk
    <2>4. <<en[d][".."], m>> \in S \ {<<i, "..">>}
      BY <2>2, <2>3 DEF Into, LiveDir
    <2>5. Cardinality(S \ {<<i, "..">>}) # 0
      BY <1>2, <2>4, FS_EmptySet
    <2> QED
      BY <1>2, <2>1, <2>5
  <1> QED
    BY <1>3, <1>4

-----------------------------------------------------------------------------
(* The tree, after each step *)

LEMMA OwedMoves ==
    ASSUME NEW p \in Procs, Frame(p), NEW i
    PROVE  Num(Owed', i) = Num(Owed, i) - One(Owed[p], i) + One(Owed'[p], i)
  <1>1. \A q \in Procs \ {p} : Owed'[q] = Owed[q]
    BY FramePlace
  <1>2. \A f, g : (\A q \in Procs \ {p} : g[q] = f[q]) => Num(g, i) = Num(f, i) - One(f[p], i) + One(g[p], i)
    BY NumMoves
  <1> QED
    BY <1>1, <1>2

LEMMA RemovingMoves ==
    ASSUME NEW p \in Procs, Frame(p)
    PROVE  \A d : d \in Removing' <=>
              \/ Place(p)' = "unlinked" /\ d = ip'[p]
              \/ \E q \in Procs \ {p} : Place(q) = "unlinked" /\ d = ip[q]
  <1>1. \A q \in Procs \ {p} : Place(q)' = Place(q) /\ ip'[q] = ip[q]
    BY FramePlace DEF Frame
  <1>2. \A d : d \in Removing' <=> \E q \in Procs : Place(q)' = "unlinked" /\ d = ip'[q]
    BY DEF Removing
  <1> QED
    BY <1>1, <1>2

LEMMA RemovingSame ==
    ASSUME NEW p \in Procs, Frame(p), Place(p)' = "unlinked" <=> Place(p) = "unlinked",
           Place(p) = "unlinked" => ip'[p] = ip[p]
    PROVE  Removing' = Removing
  <1>1. \A d : d \in Removing <=> \E q \in Procs : Place(q) = "unlinked" /\ d = ip[q]
    BY DEF Removing
  <1>2. \A d : d \in Removing' <=> d \in Removing
    BY <1>1, RemovingMoves
  <1> QED
    BY <1>2 DEF Removing

\* nothing happens to the tree
LEMMA Quiet ==
    ASSUME TreeInv, NEW p \in Procs, Frame(p), UNCHANGED inodeVars,
           Place(p)' = "unlinked" <=> Place(p) = "unlinked",
           Place(p) = "unlinked" => ip'[p] = ip[p], Owed'[p] = Owed[p]
    PROVE  TreeInv'
  <1>1. Removing' = Removing
    BY RemovingSame
  <1>2. \A q \in Procs : Owed'[q] = Owed[q]
    BY FramePlace
  <1>3. Owed' = Owed
    BY <1>2 DEF Owed
  <1>4. type' = type /\ nlink' = nlink /\ ents' = ents
    BY DEF inodeVars
  <1> QED
    BY <1>1, <1>3, <1>4 DEF TreeInv

LEMMA NoInto ==
    ASSUME Types, TreeInv, NEW i \in Inodes,
           type[i] = "free" \/ nlink[i] = 0 \/ (type[i] = "dir" /\ i \in Removing)
    PROVE  /\ \A e \in Inodes, m \in Elems : LiveDir(type, nlink, Removing, e) => ents[e][m] # i
           /\ Cardinality(Into(type, nlink, ents, Removing, i)) = 0
           /\ i # Root
  <1>1. ASSUME NEW e \in Inodes, NEW m \in Elems, LiveDir(type, nlink, Removing, e), ents[e][m] = i
        PROVE  FALSE
    <2>1. ents[e][m] # 0 /\ DirOk(type, nlink, ents, Removing, e)
      BY <1>1, Consts DEF TreeInv, Tree
    <2>2. nlink[i] \in Int
      BY DEF Types
    <2>3. type[i] # "free" /\ nlink[i] # 0
      BY <1>1, <2>1, <2>2, Leads
    <2>4. m = ".." => LiveDir(type, nlink, Removing, i)
      BY <1>1, <2>1 DEF DirOk
    <2>5. m \in Names /\ type[i] = "dir" => LiveDir(type, nlink, Removing, i)
      BY <1>1, <2>1, Leads
    <2> QED
      BY <2>3, <2>4, <2>5 DEF Elems, LiveDir
  <1>2. Into(type, nlink, ents, Removing, i) = {}
    BY <1>1 DEF Into, LiveDir
  <1>3. LiveDir(type, nlink, Removing, Root)
    BY DEF TreeInv, Tree
  <1> QED
    BY <1>1, <1>2, <1>3, FS_EmptySet, Consts DEF LiveDir, Types

LEMMA Unowed ==
    ASSUME Types, RefInv, NEW i \in Inodes, type[i] = "free"
    PROVE  Num(Owed, i) = 0
  <1>1. ASSUME NEW q \in Procs
        PROVE  Owed[q] # i
    <2>1. ip[q] # i
      BY Holds
    <2> QED
      BY <2>1, Consts DEF Owed
  <1> QED
    BY <1>1, NumZero

\* names, and the directories they are in, stay as they are
LEMMA Calm ==
    ASSUME Types, RefInv, TreeInv, NEW p \in Procs, Frame(p),
           \A d \in Inodes : LiveDir(type', nlink', Removing', d) <=> LiveDir(type, nlink, Removing, d),
           \A d \in Inodes : LiveDir(type, nlink, Removing, d) => ents'[d] = ents[d],
           \A j \in Inodes : nlink[j] > 0 /\ type[j] # "free" => type'[j] = type[j],
           \A j \in Inodes : type'[j] # "free" /\ type[j] # "free" =>
               nlink'[j] = nlink[j] + One(Owed'[p], j) - One(Owed[p], j),
           \A j \in Inodes : type'[j] # "free" /\ type[j] = "free" => nlink'[j] = 0 /\ Owed'[p] # j,
           Empty(type', nlink', ents'), \A j \in Inodes : nlink'[j] >= 0
    PROVE  TreeInv'
  <1>1. ents \in [Inodes -> [Elems -> Inodes \cup {0}]]
    BY DEF Types
  <1>2. ASSUME NEW d \in Inodes, LiveDir(type, nlink, Removing, d), NEW n \in Elems, ents[d][n] # 0
        PROVE  type'[ents[d][n]] = type[ents[d][n]]
    BY <1>2, Leads
  <1>3. /\ Tree(type', nlink', ents', Removing')
        /\ \A j : Into(type', nlink', ents', Removing', j) = Into(type, nlink, ents, Removing, j)
    <2>1. Tree(type, nlink, ents, Removing)
      BY DEF TreeInv
    <2>2. \A d \in Inodes : LiveDir(type, nlink, Removing, d) =>
             /\ ents'[d] = ents[d]
             /\ \A n \in Elems : ents[d][n] # 0 => type'[ents[d][n]] = type[ents[d][n]]
      BY <1>2
    <2>3. SameNames(type, nlink, ents, Removing, type', nlink', ents', Removing')
      BY <2>2 DEF SameNames
    <2>4. \A ty2, nl2, en2, out2 : SameNames(type, nlink, ents, Removing, ty2, nl2, en2, out2) =>
             /\ Tree(ty2, nl2, en2, out2)
             /\ \A i : Into(ty2, nl2, en2, out2, i) = Into(type, nlink, ents, Removing, i)
      BY <1>1, <2>1, SameTree
    <2> QED
      BY <2>3, <2>4
  <1>4. ASSUME NEW j \in Inodes, type'[j] # "free"
        PROVE  nlink'[j] = Cardinality(Into(type', nlink', ents', Removing', j)) + Num(Owed', j) + One(j, Root)
    <2>1. Num(Owed', j) = Num(Owed, j) - One(Owed[p], j) + One(Owed'[p], j)
      BY OwedMoves
    <2>2. /\ Num(Owed, j) \in Nat /\ Cardinality(Into(type, nlink, ents, Removing, j)) \in Nat
          /\ One(Owed[p], j) \in Int /\ One(Owed'[p], j) \in Int /\ One(j, Root) \in Int
      BY NumNat, IntoCount, Ones
    <2>3. CASE type[j] # "free"
      <3>1. nlink[j] = Cardinality(Into(type, nlink, ents, Removing, j)) + Num(Owed, j) + One(j, Root)
        BY <2>3 DEF TreeInv, Counted
      <3>2. nlink'[j] = nlink[j] + One(Owed'[p], j) - One(Owed[p], j)
        BY <1>4, <2>3
      <3> QED
        BY <1>3, <2>1, <2>2, <3>1, <3>2
    <2>4. CASE type[j] = "free"
      <3>1. /\ Num(Owed, j) = 0 /\ Cardinality(Into(type, nlink, ents, Removing, j)) = 0
            /\ One(j, Root) = 0 /\ One(Owed[p], j) = 0
        BY <2>4, Unowed, NoInto, Holds, Consts DEF One, Owed
      <3>2. nlink'[j] = 0 /\ One(Owed'[p], j) = 0
        BY <1>4, <2>4 DEF One
      <3> QED
        BY <1>3, <2>1, <3>1, <3>2
    <2> QED
      BY <2>3, <2>4
  <1> QED
    BY <1>3, <1>4 DEF TreeInv, Counted

\* steps that leave the tree alone
QuietStep(p) ==
    \/ \E o \in work.ops[p], q \in work.paths : Begin(p, o, q)
    \/ WalkEnds(p) \/ WalkParent(p) \/ WalkDown(p) \/ sys_open(p) \/ sys_chdir(p) \/ LinkDir(p) \/ LinkFails(p) \/
       LinkDone(p) \/ UnlinkNone(p) \/ UnlinkEntry(p) \/ UnlinkFull(p) \/ CreateNone(p) \/ CreateTaken(p) \/
       CreateExisting(p) \/ CreateDone(p) \/ FailedDone(p) \/ fileclose(p) \/ PutRef(p) \/ PutLast(p) \/
       PutUnref(p) \/ end_op(p) \/ Reclaim(p)

LEMMA QuietTree ==
    ASSUME NEW p \in Procs, Types, CallInv, TreeInv, Frame(p), QuietStep(p)
    PROVE  TreeInv'
  <1>1. ASSUME NEW o \in work.ops[p], NEW q \in work.paths, Begin(p, o, q)
        PROVE  TreeInv'
    <2>1. pc[p] = "idle" /\ CallOf(p) /\ UNCHANGED inodeVars
      BY <1>1, Refs DEF Begin, iget, Goto, StartOf, inodeVars, fileVars, putVars
    <2>2. Place(p)' # "unlinked" /\ Place(p) # "unlinked"
      BY <1>1, <2>1, Refs, Domains
        DEF Place, Putting, Returns, Begin, iget, Goto, StartOf, inodeVars, fileVars, putVars
    <2>3. Owed'[p] = Owed[p]
      BY <1>1, <2>1, Work, Domains
        DEF Owed, Owes, CallOf, Place, Putting, Returns, Calls, Creates, Begin, iget, Goto, StartOf,
            inodeVars, fileVars, putVars
    <2> QED
      BY <2>1, <2>2, <2>3, Quiet
  <1>2. CASE WalkEnds(p)
    <2>1. pc[p] = "walk" /\ CallOf(p) /\ UNCHANGED inodeVars
      BY <1>2, Refs DEF WalkEnds, GiveUp, PutCur, CallPut, Goto, inodeVars, fileVars
    <2>2. Place(p)' # "unlinked" /\ Place(p) # "unlinked"
      BY <1>2, <2>1, Refs, Domains
        DEF Place, Putting, Returns, WalkEnds, GiveUp, PutCur, CallPut, Goto, inodeVars, fileVars
    <2>3. Owed'[p] = Owed[p]
      BY <1>2, <2>1, Work, Domains
        DEF Owed, Owes, CallOf, Place, Putting, Returns, Calls, Creates, WalkEnds, GiveUp, PutCur, CallPut,
            Goto, inodeVars, fileVars
    <2> QED
      BY <2>1, <2>2, <2>3, Quiet
  <1>3. CASE WalkParent(p)
    <2>1. pc[p] = "walk" /\ CallOf(p) /\ UNCHANGED inodeVars
      BY <1>3, Refs DEF WalkParent, Goto, NotDir, WantsParent, inodeVars, fileVars, callVars, putVars
    <2>2. Place(p)' # "unlinked" /\ Place(p) # "unlinked"
      BY <1>3, <2>1, Refs, Domains
        DEF Place, Putting, Returns, WalkParent, Goto, NotDir, WantsParent, inodeVars, fileVars, callVars,
            putVars
    <2>3. Owed'[p] = Owed[p]
      BY <1>3, <2>1, Work, Domains
        DEF Owed, Owes, CallOf, Place, Putting, Returns, Calls, Creates, WalkParent, Goto, NotDir,
            WantsParent, inodeVars, fileVars, callVars, putVars
    <2> QED
      BY <2>1, <2>2, <2>3, Quiet
  <1>4. CASE WalkDown(p)
    <2>1. pc[p] = "walk" /\ CallOf(p) /\ UNCHANGED inodeVars
      BY <1>4, Refs DEF WalkDown, CallPut, Goto, NotDir, WantsParent, inodeVars, fileVars
    <2>2. Place(p)' # "unlinked" /\ Place(p) # "unlinked"
      BY <1>4, <2>1, Refs, Domains
        DEF Place, Putting, Returns, WalkDown, CallPut, Goto, NotDir, WantsParent, inodeVars, fileVars
    <2>3. Owed'[p] = Owed[p]
      BY <1>4, <2>1, Work, Domains
        DEF Owed, Owes, CallOf, Place, Putting, Returns, Calls, Creates, WalkDown, CallPut, Goto, NotDir,
            WantsParent, inodeVars, fileVars
    <2> QED
      BY <2>1, <2>2, <2>3, Quiet
  <1>5. CASE sys_open(p)
    <2>1. pc[p] = "found" /\ CallOf(p) /\ UNCHANGED inodeVars
      BY <1>5, Refs DEF sys_open, Found, Goto, inodeVars, putVars
    <2>2. Place(p)' # "unlinked" /\ Place(p) # "unlinked"
      BY <1>5, <2>1, Refs, Domains DEF Place, Putting, Returns, sys_open, Found, Goto, inodeVars, putVars
    <2>3. Owed'[p] = Owed[p]
      BY <1>5, <2>1, Work, Domains
        DEF Owed, Owes, CallOf, Place, Putting, Returns, Calls, Creates, sys_open, Found, Goto, inodeVars,
            putVars
    <2> QED
      BY <2>1, <2>2, <2>3, Quiet
  <1>6. CASE sys_chdir(p)
    <2>1. pc[p] = "found" /\ CallOf(p) /\ UNCHANGED inodeVars
      BY <1>6, Refs DEF sys_chdir, Found, CallPut, Goto, inodeVars
    <2>2. Place(p)' # "unlinked" /\ Place(p) # "unlinked"
      BY <1>6, <2>1, Refs, Domains DEF Place, Putting, Returns, sys_chdir, Found, CallPut, Goto, inodeVars
    <2>3. Owed'[p] = Owed[p]
      BY <1>6, <2>1, Work, Domains
        DEF Owed, Owes, CallOf, Place, Putting, Returns, Calls, Creates, sys_chdir, Found, CallPut, Goto,
            inodeVars
    <2> QED
      BY <2>1, <2>2, <2>3, Quiet
  <1>7. CASE LinkDir(p)
    <2>1. pc[p] = "found" /\ CallOf(p) /\ UNCHANGED inodeVars
      BY <1>7, Refs DEF LinkDir, Found, PutCur, CallPut, Goto, inodeVars, fileVars
    <2>2. Place(p)' # "unlinked" /\ Place(p) # "unlinked"
      BY <1>7, <2>1, Refs, Domains
        DEF Place, Putting, Returns, LinkDir, Found, PutCur, CallPut, Goto, inodeVars, fileVars
    <2>3. Owed'[p] = Owed[p]
      BY <1>7, <2>1, Work, Domains
        DEF Owed, Owes, CallOf, Place, Putting, Returns, Calls, Creates, LinkDir, Found, PutCur, CallPut,
            Goto, inodeVars, fileVars
    <2> QED
      BY <2>1, <2>2, <2>3, Quiet
  <1>8. CASE LinkFails(p)
    <2>1. pc[p] = "parent" /\ CallOf(p) /\ UNCHANGED inodeVars
      BY <1>8, Refs DEF LinkFails, Parent, PutCur, CallPut, Goto, inodeVars, tableVars, fileVars
    <2>2. Place(p)' # "unlinked" /\ Place(p) # "unlinked"
      BY <1>8, <2>1, Refs, Domains
        DEF Place, Putting, Returns, LinkFails, Parent, PutCur, CallPut, Goto, inodeVars, tableVars, fileVars
    <2>3. Owed'[p] = Owed[p]
      BY <1>8, <2>1, Work, Domains
        DEF Owed, Owes, CallOf, Place, Putting, Returns, Calls, Creates, LinkFails, Parent, PutCur, CallPut,
            Goto, inodeVars, tableVars, fileVars
    <2> QED
      BY <2>1, <2>2, <2>3, Quiet
  <1>9. CASE LinkDone(p)
    <2>1. pc[p] = "second" /\ CallOf(p) /\ UNCHANGED inodeVars
      BY <1>9, Refs DEF LinkDone, PutIp, CallPut, Goto, inodeVars, tableVars, fileVars
    <2>2. Place(p)' # "unlinked" /\ Place(p) # "unlinked"
      BY <1>9, <2>1, Refs, Domains
        DEF Place, Putting, Returns, LinkDone, PutIp, CallPut, Goto, inodeVars, tableVars, fileVars
    <2>3. Owed'[p] = Owed[p]
      BY <1>9, <2>1, Work, Domains
        DEF Owed, Owes, CallOf, Place, Putting, Returns, Calls, Creates, LinkDone, PutIp, CallPut, Goto,
            inodeVars, tableVars, fileVars
    <2> QED
      BY <2>1, <2>2, <2>3, Quiet
  <1>10. CASE UnlinkNone(p)
    <2>1. pc[p] = "parent" /\ CallOf(p) /\ UNCHANGED inodeVars
      BY <1>10, Refs DEF UnlinkNone, Parent, PutCur, CallPut, Goto, inodeVars, tableVars, fileVars
    <2>2. Place(p)' # "unlinked" /\ Place(p) # "unlinked"
      BY <1>10, <2>1, Refs, Domains
        DEF Place, Putting, Returns, UnlinkNone, Parent, PutCur, CallPut, Goto, inodeVars, tableVars, fileVars
    <2>3. Owed'[p] = Owed[p]
      BY <1>10, <2>1, Work, Domains
        DEF Owed, Owes, CallOf, Place, Putting, Returns, Calls, Creates, UnlinkNone, Parent, PutCur, CallPut,
            Goto, inodeVars, tableVars, fileVars
    <2> QED
      BY <2>1, <2>2, <2>3, Quiet
  <1>11. CASE UnlinkEntry(p)
    <2>1. pc[p] = "parent" /\ CallOf(p) /\ UNCHANGED inodeVars
      BY <1>11, Refs DEF UnlinkEntry, Parent, Taken, iget, Goto, inodeVars, fileVars, putVars
    <2>2. Place(p)' # "unlinked" /\ Place(p) # "unlinked"
      BY <1>11, <2>1, Refs, Domains
        DEF Place, Putting, Returns, UnlinkEntry, Parent, Taken, iget, Goto, inodeVars, fileVars, putVars
    <2>3. Owed'[p] = Owed[p]
      BY <1>11, <2>1, Work, Domains
        DEF Owed, Owes, CallOf, Place, Putting, Returns, Calls, Creates, UnlinkEntry, Parent, Taken, iget,
            Goto, inodeVars, fileVars, putVars
    <2> QED
      BY <2>1, <2>2, <2>3, Quiet
  <1>12. CASE UnlinkFull(p)
    <2>1. pc[p] = "unlink" /\ CallOf(p) /\ UNCHANGED inodeVars
      BY <1>12, Refs DEF UnlinkFull, PutIp, CallPut, Goto, inodeVars, fileVars
    <2>2. Place(p)' # "unlinked" /\ Place(p) # "unlinked"
      BY <1>12, <2>1, Refs, Domains
        DEF Place, Putting, Returns, UnlinkFull, PutIp, CallPut, Goto, inodeVars, fileVars
    <2>3. Owed'[p] = Owed[p]
      BY <1>12, <2>1, Work, Domains
        DEF Owed, Owes, CallOf, Place, Putting, Returns, Calls, Creates, UnlinkFull, PutIp, CallPut, Goto,
            inodeVars, fileVars
    <2> QED
      BY <2>1, <2>2, <2>3, Quiet
  <1>13. CASE CreateNone(p)
    <2>1. pc[p] = "parent" /\ CallOf(p) /\ UNCHANGED inodeVars
      BY <1>13, Refs DEF CreateNone, Parent, PutCur, CallPut, Goto, inodeVars, tableVars, fileVars
    <2>2. Place(p)' # "unlinked" /\ Place(p) # "unlinked"
      BY <1>13, <2>1, Refs, Domains
        DEF Place, Putting, Returns, CreateNone, Parent, PutCur, CallPut, Goto, inodeVars, tableVars, fileVars
    <2>3. Owed'[p] = Owed[p]
      BY <1>13, <2>1, Work, Domains
        DEF Owed, Owes, CallOf, Place, Putting, Returns, Calls, Creates, CreateNone, Parent, PutCur, CallPut,
            Goto, inodeVars, tableVars, fileVars
    <2> QED
      BY <2>1, <2>2, <2>3, Quiet
  <1>14. CASE CreateTaken(p)
    <2>1. pc[p] = "parent" /\ CallOf(p) /\ UNCHANGED inodeVars
      BY <1>14, Refs DEF CreateTaken, Parent, Taken, iget, PutCur, CallPut, Goto, inodeVars, fileVars
    <2>2. Place(p)' # "unlinked" /\ Place(p) # "unlinked"
      BY <1>14, <2>1, Refs, Domains
        DEF Place, Putting, Returns, CreateTaken, Parent, Taken, iget, PutCur, CallPut, Goto, inodeVars,
            fileVars
    <2>3. Owed'[p] = Owed[p]
      BY <1>14, <2>1, Work, Domains
        DEF Owed, Owes, CallOf, Place, Putting, Returns, Calls, Creates, CreateTaken, Parent, Taken, iget,
            PutCur, CallPut, Goto, inodeVars, fileVars
    <2> QED
      BY <2>1, <2>2, <2>3, Quiet
  <1>15. CASE CreateExisting(p)
    <2>1. pc[p] = "existing" /\ CallOf(p) /\ UNCHANGED inodeVars
      BY <1>15, Refs DEF CreateExisting, OpenIp, PutIp, CallPut, Goto, inodeVars, fileVars, putVars
    <2>2. Place(p)' # "unlinked" /\ Place(p) # "unlinked"
      BY <1>15, <2>1, Refs, Domains
        DEF Place, Putting, Returns, CreateExisting, OpenIp, PutIp, CallPut, Goto, inodeVars, fileVars,
            putVars
    <2>3. Owed'[p] = Owed[p]
      BY <1>15, <2>1, Work, Domains
        DEF Owed, Owes, CallOf, Place, Putting, Returns, Calls, Creates, CreateExisting, OpenIp, PutIp,
            CallPut, Goto, inodeVars, fileVars, putVars
    <2> QED
      BY <2>1, <2>2, <2>3, Quiet
  <1>16. CASE CreateDone(p)
    <2>1. pc[p] = "created" /\ CallOf(p) /\ UNCHANGED inodeVars
      BY <1>16, Refs DEF CreateDone, OpenIp, PutIp, CallPut, Goto, inodeVars, fileVars, putVars
    <2>2. Place(p)' # "unlinked" /\ Place(p) # "unlinked"
      BY <1>16, <2>1, Refs, Domains
        DEF Place, Putting, Returns, CreateDone, OpenIp, PutIp, CallPut, Goto, inodeVars, fileVars, putVars
    <2>3. Owed'[p] = Owed[p]
      BY <1>16, <2>1, Work, Domains
        DEF Owed, Owes, CallOf, Place, Putting, Returns, Calls, Creates, CreateDone, OpenIp, PutIp, CallPut,
            Goto, inodeVars, fileVars, putVars
    <2> QED
      BY <2>1, <2>2, <2>3, Quiet
  <1>17. CASE FailedDone(p)
    <2>1. pc[p] = "failed" /\ CallOf(p) /\ UNCHANGED inodeVars
      BY <1>17, Refs DEF FailedDone, PutCur, CallPut, Goto, inodeVars, fileVars
    <2>2. Place(p)' # "unlinked" /\ Place(p) # "unlinked"
      BY <1>17, <2>1, Refs, Domains
        DEF Place, Putting, Returns, FailedDone, PutCur, CallPut, Goto, inodeVars, fileVars
    <2>3. Owed'[p] = Owed[p]
      BY <1>17, <2>1, Work, Domains
        DEF Owed, Owes, CallOf, Place, Putting, Returns, Calls, Creates, FailedDone, PutCur, CallPut, Goto,
            inodeVars, fileVars
    <2> QED
      BY <2>1, <2>2, <2>3, Quiet
  <1>18. CASE fileclose(p)
    <2>1. pc[p] = "idle" /\ CallOf(p) /\ UNCHANGED inodeVars
      BY <1>18, Refs DEF fileclose, CallPut, Goto, inodeVars, tableVars
    <2>2. Place(p)' # "unlinked" /\ Place(p) # "unlinked"
      BY <1>18, <2>1, Refs, Domains
        DEF Place, Putting, Returns, fileclose, CallPut, Goto, inodeVars, tableVars
    <2>3. Owed'[p] = Owed[p]
      BY <1>18, <2>1, Work, Domains
        DEF Owed, Owes, CallOf, Place, Putting, Returns, Calls, Creates, fileclose, CallPut, Goto, inodeVars,
            tableVars
    <2> QED
      BY <2>1, <2>2, <2>3, Quiet
  <1>19. CASE PutRef(p)
    <2>1. pc[p] = "put" /\ ret[p] \in Returns
      BY <1>19, Refs DEF PutRef, Putting
    <2>2. Place(p)' = Place(p) /\ UNCHANGED <<ip, op, inodeVars>>
      BY <1>19, <2>1, Domains
        DEF Place, Putting, Returns, PutRef, Unref, Return, Last, Goto, inodeVars, fileVars, callVars
    <2>3. Owed'[p] = Owed[p]
      BY <2>2 DEF Owed, Owes
    <2> QED
      BY <2>2, <2>3, Quiet
  <1>20. CASE PutLast(p)
    <2>1. pc[p] = "put" /\ ret[p] \in Returns
      BY <1>20, Refs DEF PutLast, Putting
    <2>2. Place(p)' = Place(p) /\ UNCHANGED <<ip, op, inodeVars>>
      BY <1>20, <2>1, Domains
        DEF Place, Putting, Returns, PutLast, Last, Goto, inodeVars, fileVars, callVars, putVars
    <2>3. Owed'[p] = Owed[p]
      BY <2>2 DEF Owed, Owes
    <2> QED
      BY <2>2, <2>3, Quiet
  <1>21. CASE PutUnref(p)
    <2>1. pc[p] = "unref" /\ ret[p] \in Returns
      BY <1>21, Refs DEF PutUnref, Putting
    <2>2. Place(p)' = Place(p) /\ UNCHANGED <<ip, op, inodeVars>>
      BY <1>21, <2>1, Domains
        DEF Place, Putting, Returns, PutUnref, Unref, Goto, inodeVars, fileVars, callVars, putVars
    <2>3. Owed'[p] = Owed[p]
      BY <2>2 DEF Owed, Owes
    <2> QED
      BY <2>2, <2>3, Quiet
  <1>22. CASE end_op(p)
    <2>1. pc[p] = "end" /\ CallOf(p) /\ UNCHANGED inodeVars
      BY <1>22, Refs DEF end_op, commit, Goto, inodeVars, tableVars, fileVars, putVars
    <2>2. Place(p)' # "unlinked" /\ Place(p) # "unlinked"
      BY <1>22, <2>1, Refs, Domains
        DEF Place, Putting, Returns, end_op, commit, Goto, inodeVars, tableVars, fileVars, putVars
    <2>3. Owed'[p] = Owed[p]
      BY <1>22, <2>1, Work, Domains
        DEF Owed, Owes, CallOf, Place, Putting, Returns, Calls, Creates, end_op, commit, Goto, inodeVars,
            tableVars, fileVars, putVars
    <2> QED
      BY <2>1, <2>2, <2>3, Quiet
  <1>23. CASE Reclaim(p)
    <2>1. pc[p] = "reclaim" /\ CallOf(p) /\ UNCHANGED inodeVars
      BY <1>23, Refs DEF Reclaim, CallPut, Goto, Orphan, inodeVars, fileVars, putVars
    <2>2. Place(p)' # "unlinked" /\ Place(p) # "unlinked"
      BY <1>23, <2>1, Refs, Domains
        DEF Place, Putting, Returns, Reclaim, CallPut, Goto, Orphan, inodeVars, fileVars, putVars
    <2>3. Owed'[p] = Owed[p]
      BY <1>23, <2>1, Work, Domains
        DEF Owed, Owes, CallOf, Place, Putting, Returns, Calls, Creates, Reclaim, CallPut, Goto, Orphan,
            inodeVars, fileVars, putVars
    <2> QED
      BY <2>1, <2>2, <2>3, Quiet
  <1> QED
    BY <1>1, <1>2, <1>3, <1>4, <1>5, <1>6, <1>7, <1>8, <1>9, <1>10, <1>11, <1>12, <1>13, <1>14,
       <1>15, <1>16, <1>17, <1>18, <1>19, <1>20, <1>21, <1>22, <1>23 DEF QuietStep

\* the calls that change the links of an inode, or free it

LEMMA LinkOldTree ==
    ASSUME NEW p \in Procs, Types, CallInv, RefInv, TreeInv, Frame(p), NEW q \in work.paths, LinkOld(p, q)
    PROVE  TreeInv'
  <1> DEFINE i == cur[p]
  <1>1. pc[p] = "found" /\ op[p] = "link" /\ i \in Inodes /\ type[i] # "dir"
    BY Refs DEF LinkOld, SecondWalk, Found
  <1>2. /\ nlink' = [nlink EXCEPT ![i] = @ + 1] /\ UNCHANGED <<type, ents, op>>
        /\ pc'[p] = "walk" /\ ip'[p] = i
    BY Domains DEF LinkOld, SecondWalk, Goto
  <1>3. Owed[p] = 0 /\ Owed'[p] = i /\ Place(p) # "unlinked" /\ Place(p)' # "unlinked"
    BY <1>1, <1>2 DEF Owed, Owes, Place, Putting
  <1>4. Removing' = Removing
    BY <1>3, RemovingSame
  <1>5. \A j \in Inodes : nlink[j] \in Int /\ nlink[j] >= 0 /\ nlink'[j] = nlink[j] + One(i, j)
    BY <1>1, <1>2, Domains DEF One, Types, TreeInv
  <1>6. \A j \in Inodes : nlink'[j] = nlink[j] + One(Owed'[p], j) - One(Owed[p], j)
    BY <1>3, <1>5, Ones
  <1>7. \A j \in Inodes : nlink'[j] >= 0 /\ (j # i => nlink'[j] = nlink[j])
    BY <1>5 DEF One
  <1>8. type[i] # "free"
    BY <1>1, Holds
  <1>9. \A d \in Inodes : LiveDir(type', nlink', Removing', d) <=> LiveDir(type, nlink, Removing, d)
    BY <1>1, <1>2, <1>4, <1>7 DEF LiveDir
  <1>10. Empty(type', nlink', ents')
    BY <1>1, <1>2, <1>7 DEF Empty, TreeInv
  <1> QED
    BY <1>2, <1>6, <1>7, <1>9, <1>10, Calm

LEMMA LinkBadTree ==
    ASSUME NEW p \in Procs, Types, CallInv, RefInv, TreeInv, NodeInv, Frame(p), LinkBad(p)
    PROVE  TreeInv'
  <1> DEFINE i == ip[p]
  <1>1. pc[p] = "bad" /\ i \in Inodes /\ op[p] = "link"
    BY Refs DEF LinkBad, CallOf, Place, Putting
  <1>2. /\ nlink' = [nlink EXCEPT ![i] = @ - 1] /\ UNCHANGED <<type, ents, op>>
        /\ pc'[p] = "put" /\ ret'[p] = "end" /\ ip'[p] = 0
    BY Domains DEF LinkBad, PutIp, CallPut, Goto
  <1>3. Owed[p] = i /\ Owed'[p] = 0 /\ Place(p) # "unlinked" /\ Place(p)' # "unlinked"
    BY <1>1, <1>2 DEF Owed, Owes, Place, Putting
  <1>4. Removing' = Removing
    BY <1>3, RemovingSame
  <1>5. \A j \in Inodes : nlink[j] \in Int /\ nlink[j] >= 0 /\ nlink'[j] = nlink[j] - One(i, j)
    BY <1>1, <1>2, Domains DEF One, Types, TreeInv
  <1>6. \A j \in Inodes : nlink'[j] = nlink[j] + One(Owed'[p], j) - One(Owed[p], j)
    BY <1>3, <1>5, Ones
  <1>7. type[i] # "free" /\ type[i] # "dir"
    BY <1>1, Holds, Consts DEF NodeInv, NodeOf
  <1>8. nlink[i] > 0
    BY <1>1, <1>3, <1>7, OwedPos
  <1>9. \A j \in Inodes : nlink'[j] >= 0 /\ (j # i => nlink'[j] = nlink[j])
    BY <1>1, <1>5, <1>8 DEF One
  <1>10. \A d \in Inodes : LiveDir(type', nlink', Removing', d) <=> LiveDir(type, nlink, Removing, d)
    BY <1>2, <1>4, <1>7, <1>9 DEF LiveDir
  <1>11. Empty(type', nlink', ents')
    BY <1>2, <1>7, <1>9 DEF Empty, TreeInv
  <1> QED
    BY <1>2, <1>6, <1>9, <1>10, <1>11, Calm

LEMMA UnlinkDoneTree ==
    ASSUME NEW p \in Procs, Types, CallInv, RefInv, LockInv, TreeInv, NodeInv, Frame(p), UnlinkDone(p)
    PROVE  TreeInv'
  <1> DEFINE i == ip[p]
  <1>1. pc[p] = "unlinked" /\ i \in Inodes /\ op[p] = "unlink" /\ Place(p) = "unlinked"
    BY Refs DEF UnlinkDone, CallOf, Place, Putting
  <1>2. /\ nlink' = [nlink EXCEPT ![i] = @ - 1] /\ UNCHANGED <<type, ents, op>>
        /\ pc'[p] = "put" /\ ret'[p] = "end" /\ ip'[p] = 0
    BY Domains DEF UnlinkDone, PutIp, CallPut, Goto
  <1>3. Owed[p] = i /\ Owed'[p] = 0 /\ Place(p)' # "unlinked"
    BY <1>1, <1>2 DEF Owed, Owes, Place, Putting
  <1>4. \A d : d # i => (d \in Removing' <=> d \in Removing)
    <2>1. \A d : d \in Removing <=> \E q \in Procs : Place(q) = "unlinked" /\ d = ip[q]
      BY DEF Removing
    <2> QED
      BY <1>3, <2>1, RemovingMoves
  <1>5. \A j \in Inodes : nlink[j] \in Int /\ nlink[j] >= 0 /\ nlink'[j] = nlink[j] - One(i, j)
    BY <1>1, <1>2, Domains DEF One, Types, TreeInv
  <1>6. \A j \in Inodes : nlink'[j] = nlink[j] + One(Owed'[p], j) - One(Owed[p], j)
    BY <1>3, <1>5, Ones
  <1>7. type[i] # "free" /\ i \in Removing
    BY <1>1, Holds DEF Removing
  <1>8. nlink[i] > 0
    BY <1>1, <1>3, <1>7, OwedPos
  <1>9. \A j \in Inodes : nlink'[j] >= 0 /\ (j # i => nlink'[j] = nlink[j]) /\ nlink'[i] = nlink[i] - 1
    BY <1>1, <1>5, <1>8 DEF One
  <1>10. ASSUME type[i] = "dir"
         PROVE  nlink'[i] = 0
    <2>1. \A q \in Procs \ {p} : Owed[q] # i
      <3> SUFFICES ASSUME NEW q \in Procs \ {p}, Owed[q] = i PROVE FALSE
        OBVIOUS
      <3>1. Owes(q) /\ ip[q] = i
        BY <1>1, Consts DEF Owed
      <3>2. CASE Place(q) = "unlinked"
        <4>1. Holder(q, i) /\ Holder(p, i)
          BY <1>1, <3>1, <3>2 DEF Holder
        <4> QED
          BY <1>1, <4>1 DEF LockInv
      <3>3. CASE op[q] = "link"
        BY <1>1, <1>10, <3>1, <3>3, Consts DEF NodeInv, NodeOf
      <3> QED
        BY <3>1, <3>2, <3>3 DEF Owes
    <2>2. Num(Owed, i) = 1
      <3>1. \A f : f[p] = i /\ (\A q \in Procs \ {p} : f[q] # i) => Num(f, i) = 1
        BY NumOnly
      <3> QED
        BY <1>3, <2>1, <3>1
    <2>3. Cardinality(Into(type, nlink, ents, Removing, i)) = 0 /\ i # Root
      BY <1>1, <1>7, <1>10, NoInto
    <2>4. nlink[i] = Cardinality(Into(type, nlink, ents, Removing, i)) + Num(Owed, i) + One(i, Root)
      BY <1>1, <1>7 DEF TreeInv, Counted
    <2>5. nlink[i] = 1
      BY <2>2, <2>3, <2>4 DEF One
    <2> QED
      BY <1>1, <1>9, <2>5
  <1>11. \A d \in Inodes : LiveDir(type', nlink', Removing', d) <=> LiveDir(type, nlink, Removing, d)
    BY <1>2, <1>4, <1>7, <1>9, <1>10 DEF LiveDir
  <1>12. type[i] = "dir" => isdirempty(i)
    BY <1>1 DEF NodeInv, NodeOf
  <1>13. Empty(type', nlink', ents')
    BY <1>2, <1>9, <1>12 DEF Empty, TreeInv, isdirempty
  <1> QED
    BY <1>2, <1>6, <1>9, <1>11, <1>13, Calm

LEMMA FailAtTree ==
    ASSUME NEW p \in Procs, Types, CallInv, RefInv, TreeInv, Frame(p), NEW i \in Free, FailAt(p, i)
    PROVE  TreeInv'
  <1>1. i \in Inodes /\ type[i] = "free" /\ pc[p] = "parent" /\ op[p] \in Creates /\ cur[p] \in Inodes
    BY Refs DEF Free, FailAt, NewInode, Parent
  <1>2. /\ \A j \in Inodes : j # i => type'[j] = type[j] /\ nlink'[j] = nlink[j] /\ ents'[j] = ents[j]
        /\ nlink'[i] = 0 /\ UNCHANGED <<op, ip>>
        /\ pc'[p] = "put" /\ ret'[p] = "failed"
    BY <1>1, Domains DEF FailAt, NewInode, DotDot, CallPut, Goto
  <1>3. \A n \in Names : ents'[i][n] = 0
    <2>1. ents'[i] = [NoEnts EXCEPT ![".."] = IF op[p] = "mkdir" THEN cur[p] ELSE 0]
      BY <1>1, Domains DEF FailAt, DotDot
    <2> QED
      BY <2>1, Consts DEF NoEnts
  <1>4. Owed[p] = 0 /\ Owed'[p] = 0 /\ Place(p) # "unlinked" /\ Place(p)' # "unlinked"
    BY <1>1, <1>2 DEF Owed, Owes, Place, Putting, Creates
  <1>5. Removing' = Removing
    BY <1>4, RemovingSame
  <1>6. \A j \in Inodes : nlink[j] \in Int /\ nlink[j] >= 0
    BY DEF Types, TreeInv
  <1>7. \A j \in Inodes : nlink'[j] >= 0
    BY <1>2, <1>6
  <1>8. \A j \in Inodes : type'[j] # "free" /\ type[j] # "free" =>
          nlink'[j] = nlink[j] + One(Owed'[p], j) - One(Owed[p], j)
    BY <1>1, <1>2, <1>4, <1>6, Ones
  <1>9. \A j \in Inodes : type'[j] # "free" /\ type[j] = "free" => nlink'[j] = 0 /\ Owed'[p] # j
    BY <1>1, <1>2, <1>4, Consts
  <1>10. \A d \in Inodes : LiveDir(type', nlink', Removing', d) <=> LiveDir(type, nlink, Removing, d)
    BY <1>1, <1>2, <1>5 DEF LiveDir
  <1>11. \A d \in Inodes : LiveDir(type, nlink, Removing, d) => ents'[d] = ents[d]
    BY <1>1, <1>2 DEF LiveDir
  <1>12. Empty(type', nlink', ents')
    BY <1>2, <1>3 DEF Empty, TreeInv
  <1>13. \A j \in Inodes : nlink[j] > 0 /\ type[j] # "free" => type'[j] = type[j]
    BY <1>1, <1>2
  <1> QED
    BY <1>7, <1>8, <1>9, <1>10, <1>11, <1>12, <1>13, Calm

LEMMA FreesTree ==
    ASSUME NEW p \in Procs, Types, CallInv, RefInv, FreeInv, TreeInv, Frame(p), Trunc(p) \/ ifree(p)
    PROVE  TreeInv'
  <1> DEFINE v == victim[p]
  <1>1. v \in Inodes /\ ret[p] \in Returns /\ pc[p] \in {"trunc", "ifree"} /\ nlink[v] = 0 /\ type[v] # "free"
    BY Refs DEF Trunc, ifree, Putting, FreeInv
  <1>2. Place(p)' = Place(p) /\ UNCHANGED <<ip, op, nlink>>
    BY <1>1, Domains DEF Trunc, ifree, Return, Goto, Place, Putting, Returns, callVars, putVars
  <1>3. Owed'[p] = Owed[p]
    BY <1>2 DEF Owed, Owes
  <1>4. Removing' = Removing
    BY <1>2, RemovingSame
  <1>5. /\ \A j \in Inodes : j # v => type'[j] = type[j] /\ ents'[j] = ents[j]
        /\ (type'[v] = type[v] /\ \A n \in Elems : ents'[v][n] = 0) \/ type'[v] = "free"
    BY <1>1, Domains DEF Trunc, ifree, NoEnts
  <1>6. \A j \in Inodes : nlink[j] \in Int /\ nlink[j] >= 0
    BY DEF Types, TreeInv
  <1>7. \A j \in Inodes : nlink'[j] >= 0
    BY <1>2, <1>6
  <1>8. \A j \in Inodes : type'[j] # "free" /\ type[j] # "free" =>
          nlink'[j] = nlink[j] + One(Owed'[p], j) - One(Owed[p], j)
    BY <1>2, <1>3, <1>6, Ones
  <1>9. \A j \in Inodes : type'[j] # "free" /\ type[j] = "free" => nlink'[j] = 0 /\ Owed'[p] # j
    BY <1>1, <1>5
  <1>10. \A d \in Inodes : LiveDir(type', nlink', Removing', d) <=> LiveDir(type, nlink, Removing, d)
    BY <1>1, <1>2, <1>4, <1>5 DEF LiveDir
  <1>11. \A d \in Inodes : LiveDir(type, nlink, Removing, d) => ents'[d] = ents[d]
    BY <1>1, <1>5 DEF LiveDir
  <1>12. Empty(type', nlink', ents')
    BY <1>2, <1>5, Consts DEF Empty, TreeInv
  <1>13. \A j \in Inodes : nlink[j] > 0 /\ type[j] # "free" => type'[j] = type[j]
    BY <1>1, <1>5
  <1> QED
    BY <1>7, <1>8, <1>9, <1>10, <1>11, <1>12, <1>13, Calm

LEMMA GrownCount ==
    ASSUME NEW ty, NEW nl, NEW en, NEW out, NEW ty2, NEW nl2, NEW en2, NEW out2,
           NEW d, NEW n, NEW i,
           NewName(ty, nl, en, out, ty2, nl2, en2, out2, d, n, i)
    PROVE  \A j \in Inodes : Cardinality(Into(ty2, nl2, en2, out2, j)) =
               Cardinality(Into(ty, nl, en, out, j)) + One(i, j)
                 + (IF ty2[i] = "dir" THEN One(d, j) ELSE 0)
  <1> TAKE j \in Inodes
  <1> DEFINE S == Into(ty, nl, en, out, j)
             T == Into(ty2, nl2, en2, out2, j)
  <1>1. en[d][n] = 0 /\ i \in Inodes /\ i # d /\ ~LiveDir(ty, nl, out, i)
    BY DEF NewName
  <1>2. T = S \cup (IF j = i THEN {<<d, n>>} ELSE {})
              \cup (IF j = d /\ ty2[i] = "dir" THEN {<<i, "..">>} ELSE {})
    BY GrownInto
  <1>3. IsFiniteSet(S) /\ Cardinality(S) \in Nat
    BY IntoCount
  <1>4. j = i => <<d, n>> \notin S
    BY <1>1, Consts DEF Into
  <1>5. <<i, "..">> \notin S
    BY <1>1 DEF Into
  <1>6. CASE j = i
    <2>1. One(i, j) = 1 /\ One(d, j) = 0
      BY <1>1, <1>6 DEF One
    <2>2. T = S \cup {<<d, n>>}
      BY <1>1, <1>2, <1>6
    <2>3. Cardinality(S \cup {<<d, n>>}) = Cardinality(S) + 1
      BY <1>3, <1>4, <1>6, OneMore
    <2> QED
      BY <1>3, <2>1, <2>2, <2>3
  <1>7. CASE j # i /\ j = d /\ ty2[i] = "dir"
    <2>1. One(i, j) = 0 /\ One(d, j) = 1
      BY <1>7 DEF One
    <2>2. T = S \cup {<<i, "..">>}
      BY <1>2, <1>7
    <2>3. Cardinality(S \cup {<<i, "..">>}) = Cardinality(S) + 1
      BY <1>3, <1>5, OneMore
    <2> QED
      BY <1>3, <1>7, <2>1, <2>2, <2>3
  <1>8. CASE j # i /\ ~(j = d /\ ty2[i] = "dir")
    <2>1. One(i, j) = 0 /\ (ty2[i] = "dir" => One(d, j) = 0)
      BY <1>8 DEF One
    <2>2. T = S
      BY <1>2, <1>8
    <2> QED
      BY <1>3, <2>1, <2>2
  <1> QED
    BY <1>6, <1>7, <1>8

LEMMA ShrunkCount ==
    ASSUME NEW ty, NEW nl, NEW en, NEW out, NEW nl2, NEW en2, NEW out2,
           NEW d, NEW n, NEW i, Tree(ty, nl, en, out),
           OldName(ty, nl, en, out, nl2, en2, out2, d, n, i)
    PROVE  \A j \in Inodes : Cardinality(Into(ty, nl2, en2, out2, j)) =
               Cardinality(Into(ty, nl, en, out, j)) - One(i, j)
                 - (IF ty[i] = "dir" THEN One(d, j) ELSE 0)
  <1> TAKE j \in Inodes
  <1> DEFINE S == Into(ty, nl, en, out, j)
             T == Into(ty, nl2, en2, out2, j)
  <1>1. i # d
    BY DEF OldName
  <1>2. T = S \ ((IF j = i THEN {<<d, n>>} ELSE {})
                   \cup (IF j = d /\ ty[i] = "dir" THEN {<<i, "..">>} ELSE {}))
    BY ShrunkInto
  <1>3. IsFiniteSet(S) /\ Cardinality(S) \in Nat
    BY IntoCount
  <1>4. (j = i => <<d, n>> \in S) /\ (j = d /\ ty[i] = "dir" => <<i, "..">> \in S)
    BY ShrunkFrom
  <1>6. CASE j = i
    <2>1. One(i, j) = 1 /\ One(d, j) = 0
      BY <1>1, <1>6 DEF One
    <2>2. T = S \ {<<d, n>>}
      BY <1>1, <1>2, <1>6
    <2>3. Cardinality(S \ {<<d, n>>}) = Cardinality(S) - 1
      BY <1>3, <1>4, <1>6, OneLess
    <2> QED
      BY <1>3, <2>1, <2>2, <2>3
  <1>7. CASE j # i /\ j = d /\ ty[i] = "dir"
    <2>1. One(i, j) = 0 /\ One(d, j) = 1
      BY <1>7 DEF One
    <2>2. T = S \ {<<i, "..">>}
      BY <1>2, <1>7
    <2>3. Cardinality(S \ {<<i, "..">>}) = Cardinality(S) - 1
      BY <1>3, <1>4, <1>7, OneLess
    <2> QED
      BY <1>3, <1>7, <2>1, <2>2, <2>3
  <1>8. CASE j # i /\ ~(j = d /\ ty[i] = "dir")
    <2>1. One(i, j) = 0 /\ (ty[i] = "dir" => One(d, j) = 0)
      BY <1>8 DEF One
    <2>2. T = S
      BY <1>2, <1>8
    <2> QED
      BY <1>3, <2>1, <2>2
  <1> QED
    BY <1>6, <1>7, <1>8

\* a name for an inode, in a step of p
LEMMA Grown ==
    ASSUME Types, RefInv, TreeInv, NEW p \in Procs, Frame(p), NEW d, NEW n, NEW i,
           NewName(type, nlink, ents, Removing, type', nlink', ents', Removing', d, n, i),
           \A j \in Inodes : type'[j] # "free" =>
               nlink'[j] + One(Owed[p], j) = One(Owed'[p], j) + One(i, j) + (IF type'[i] = "dir" THEN One(d, j) ELSE 0)
                   + (IF type[j] = "free" THEN 0 ELSE nlink[j]),
           Empty(type', nlink', ents'), \A j \in Inodes : nlink'[j] \in Int /\ nlink'[j] >= 0
    PROVE  TreeInv'
  <1>1. ents \in [Inodes -> [Elems -> Inodes \cup {0}]] /\ Tree(type, nlink, ents, Removing)
    BY DEF Types, TreeInv
  <1>2. \A ty2, nl2, en2, out2 : NewName(type, nlink, ents, Removing, ty2, nl2, en2, out2, d, n, i) =>
           /\ Tree(ty2, nl2, en2, out2)
           /\ \A j \in Inodes : Cardinality(Into(ty2, nl2, en2, out2, j)) =
                 Cardinality(Into(type, nlink, ents, Removing, j)) + One(i, j)
                   + (IF ty2[i] = "dir" THEN One(d, j) ELSE 0)
    BY <1>1, GrownTree, GrownCount
  <1>3. /\ Tree(type', nlink', ents', Removing')
        /\ \A j \in Inodes : Cardinality(Into(type', nlink', ents', Removing', j)) =
              Cardinality(Into(type, nlink, ents, Removing, j)) + One(i, j)
                + (IF type'[i] = "dir" THEN One(d, j) ELSE 0)
    BY <1>2
  <1>4. ASSUME NEW j \in Inodes, type'[j] # "free"
        PROVE  nlink'[j] = Cardinality(Into(type', nlink', ents', Removing', j)) + Num(Owed', j) + One(j, Root)
    <2> DEFINE c == Cardinality(Into(type, nlink, ents, Removing, j))
               c2 == Cardinality(Into(type', nlink', ents', Removing', j))
               x == IF type'[i] = "dir" THEN One(d, j) ELSE 0
               b == IF type[j] = "free" THEN 0 ELSE nlink[j]
               m == Num(Owed, j)
               m2 == Num(Owed', j)
               o == One(Owed[p], j)
               o2 == One(Owed'[p], j)
               r == One(j, Root)
               e == One(i, j)
               l2 == nlink'[j]
    <2>1. m2 = m - o + o2
      BY OwedMoves
    <2>2. m \in Int /\ c \in Int /\ o \in Int /\ o2 \in Int /\ r \in Int /\ e \in Int /\ x \in Int /\ l2 \in Int
      BY NumNat, IntoCount, Ones
    <2>3. b = c + m + r
      <3>1. CASE type[j] = "free"
        <4>1. c = 0 /\ m = 0 /\ r = 0
          BY <3>1, NoInto, Unowed DEF One
        <4> HIDE DEF c, m, r
        <4> QED
          BY <3>1, <4>1
      <3>2. CASE type[j] # "free"
        BY <3>2 DEF TreeInv, Counted
      <3> QED
        BY <3>1, <3>2
    <2>4. l2 + o = o2 + e + x + b
      BY <1>4
    <2>5. c2 = c + e + x
      BY <1>3
    <2> HIDE DEF c, c2, x, b, m, m2, o, o2, r, e, l2
    <2>6. l2 = c2 + m2 + r
      BY <2>1, <2>2, <2>3, <2>4, <2>5
    <2> QED
      BY <2>6 DEF c2, m2, r, l2
  <1> QED
    BY <1>3, <1>4 DEF TreeInv, Counted

\* a name of an inode goes, in a step of p
LEMMA Shrunk ==
    ASSUME Types, TreeInv, NEW p \in Procs, Frame(p), NEW d, NEW n, NEW i,
           OldName(type, nlink, ents, Removing, nlink', ents', Removing', d, n, i),
           type' = type,
           \A j \in Inodes : type[j] # "free" =>
               nlink'[j] + One(Owed[p], j) + One(i, j) + (IF type[i] = "dir" THEN One(d, j) ELSE 0) =
                   nlink[j] + One(Owed'[p], j),
           Empty(type, nlink', ents'), \A j \in Inodes : nlink'[j] \in Int /\ nlink'[j] >= 0
    PROVE  TreeInv'
  <1>1. ents \in [Inodes -> [Elems -> Inodes \cup {0}]] /\ Tree(type, nlink, ents, Removing)
    BY DEF Types, TreeInv
  <1>2. \A nl2, en2, out2 : OldName(type, nlink, ents, Removing, nl2, en2, out2, d, n, i) =>
           /\ Tree(type, nl2, en2, out2)
           /\ \A j \in Inodes : Cardinality(Into(type, nl2, en2, out2, j)) =
                 Cardinality(Into(type, nlink, ents, Removing, j)) - One(i, j)
                   - (IF type[i] = "dir" THEN One(d, j) ELSE 0)
    BY <1>1, ShrunkTree, ShrunkCount
  <1>3. /\ Tree(type, nlink', ents', Removing')
        /\ \A j \in Inodes : Cardinality(Into(type, nlink', ents', Removing', j)) =
              Cardinality(Into(type, nlink, ents, Removing, j)) - One(i, j)
                - (IF type[i] = "dir" THEN One(d, j) ELSE 0)
    BY <1>2
  <1>4. ASSUME NEW j \in Inodes, type[j] # "free"
        PROVE  nlink'[j] = Cardinality(Into(type, nlink', ents', Removing', j)) + Num(Owed', j) + One(j, Root)
    <2> DEFINE c == Cardinality(Into(type, nlink, ents, Removing, j))
               c2 == Cardinality(Into(type, nlink', ents', Removing', j))
               x == IF type[i] = "dir" THEN One(d, j) ELSE 0
               b == nlink[j]
               m == Num(Owed, j)
               m2 == Num(Owed', j)
               o == One(Owed[p], j)
               o2 == One(Owed'[p], j)
               r == One(j, Root)
               e == One(i, j)
               l2 == nlink'[j]
    <2>1. m2 = m - o + o2
      BY OwedMoves
    <2>2. m \in Int /\ c \in Int /\ o \in Int /\ o2 \in Int /\ r \in Int /\ e \in Int /\ x \in Int /\ l2 \in Int
      BY NumNat, IntoCount, Ones
    <2>3. b = c + m + r
      BY <1>4 DEF TreeInv, Counted
    <2>4. l2 + o + e + x = b + o2
      BY <1>4
    <2>5. c2 = c - e - x
      BY <1>3
    <2> HIDE DEF c, c2, x, b, m, m2, o, o2, r, e, l2
    <2>6. l2 = c2 + m2 + r
      BY <2>1, <2>2, <2>3, <2>4, <2>5
    <2> QED
      BY <2>6 DEF c2, m2, r, l2
  <1> QED
    BY <1>3, <1>4 DEF TreeInv, Counted

LEMMA LinkNewTree ==
    ASSUME NEW p \in Procs, Types, CallInv, RefInv, LockInv, TreeInv, NodeInv, Frame(p), LinkNew(p)
    PROVE  TreeInv'
  <1> DEFINE d == cur[p]
             n == Name(p)
             i == ip[p]
  <1>1. pc[p] = "parent" /\ op[p] = "link" /\ lock[d] = 0 /\ nlink[d] # 0 /\ ents[d][n] = 0
        /\ d \in Inodes /\ n \in Elems
    BY Refs, Heads DEF LinkNew, Parent, ilocked, Taken, Name
  <1>2. /\ ents' = [ents EXCEPT ![d][n] = i] /\ UNCHANGED <<type, nlink, op, ip>>
        /\ pc'[p] = "put" /\ ret'[p] = "second"
    BY Domains DEF LinkNew, PutCur, CallPut, Goto
  <1>3. i \in Inodes /\ type[i] # "dir" /\ type[d] = "dir"
    <2>1. i # 0
      BY <1>1, Refs DEF CallOf, Place, Putting
    <2> QED
      BY <1>1, <2>1, Refs DEF NodeInv, NodeOf, Place, Putting
  <1>4. type[i] # "free"
    BY <1>3, Holds
  <1>5. LiveDir(type, nlink, Removing, d) /\ DirOk(type, nlink, ents, Removing, d)
    BY <1>1, <1>3, Usable DEF TreeInv, Tree
  <1>6. n \in Names
    BY <1>1, <1>5, Consts DEF DirOk, LiveDir, Elems
  <1>7. Owed[p] = i /\ Owed'[p] = 0 /\ Place(p) # "unlinked" /\ Place(p)' # "unlinked"
    BY <1>1, <1>2 DEF Owed, Owes, Place, Putting
  <1>8. Removing' = Removing
    BY <1>7, RemovingSame
  <1>9. type[Root] = "dir"
    BY DEF TreeInv, Tree, LiveDir
  <1>10. \A e \in Inodes \ {d} : ents'[e] = ents[e]
    BY <1>1, <1>2, Domains
  <1>11. \A m \in Elems : ents'[d][m] = IF m = n THEN i ELSE ents[d][m]
    BY <1>1, <1>2, Domains
  <1>12. NewName(type, nlink, ents, Removing, type', nlink', ents', Removing', d, n, i)
    BY <1>1, <1>2, <1>3, <1>4, <1>5, <1>6, <1>8, <1>9, <1>10, <1>11 DEF NewName, LiveDir
  <1>13. \A j \in Inodes : nlink[j] \in Int /\ nlink[j] >= 0
    BY DEF Types, TreeInv
  <1>14. ASSUME NEW j \in Inodes, type'[j] # "free"
         PROVE  nlink'[j] + One(Owed[p], j) = One(Owed'[p], j) + One(i, j) + (IF type'[i] = "dir" THEN One(d, j) ELSE 0)
                   + (IF type[j] = "free" THEN 0 ELSE nlink[j])
    <2>1. One(Owed[p], j) = One(i, j) /\ One(Owed'[p], j) = 0 /\ One(i, j) \in Int
      BY <1>7, Ones, Consts DEF One
    <2> QED
      BY <1>2, <1>3, <1>13, <1>14, <2>1
  <1>15. Empty(type', nlink', ents')
    BY <1>1, <1>2, <1>10 DEF Empty, TreeInv
  <1> QED
    BY <1>2, <1>12, <1>13, <1>14, <1>15, Grown

LEMMA CreateAtTree ==
    ASSUME NEW p \in Procs, Types, CallInv, RefInv, LockInv, TreeInv, NodeInv, Frame(p),
           NEW i \in Free, CreateAt(p, i)
    PROVE  TreeInv'
  <1> DEFINE d == cur[p]
             n == Name(p)
             x == IF op[p] = "mkdir" THEN 1 ELSE 0
  <1>1. /\ pc[p] = "parent" /\ op[p] \in Creates /\ lock[d] = 0 /\ nlink[d] # 0 /\ ents[d][n] = 0
        /\ d \in Inodes /\ n \in Elems /\ i \in Inodes /\ type[i] = "free"
    BY Refs, Heads DEF CreateAt, NewInode, Parent, ilocked, Taken, Name, Free
  <1>2. /\ type' = [type EXCEPT ![i] = IF op[p] = "mkdir" THEN "dir" ELSE "file"]
        /\ nlink' = [nlink EXCEPT ![i] = 1, ![d] = @ + x]
        /\ ents' = [DotDot(p, i) EXCEPT ![d][n] = i]
        /\ ip'[p] = i /\ UNCHANGED op /\ pc'[p] = "put" /\ ret'[p] = "created"
    BY Domains DEF CreateAt, NewInode, PutCur, CallPut, Goto
  <1>3. type[d] = "dir" /\ d # i
    BY <1>1 DEF NodeInv, NodeOf, Place, Putting
  <1>4. LiveDir(type, nlink, Removing, d) /\ DirOk(type, nlink, ents, Removing, d)
    BY <1>1, <1>3, Usable DEF TreeInv, Tree
  <1>5. n \in Names /\ ".." \notin Names /\ n # ".."
    BY <1>1, <1>4, Consts DEF DirOk, LiveDir, Elems
  <1>6. Owed[p] = 0 /\ Owed'[p] = 0 /\ Place(p) # "unlinked" /\ Place(p)' # "unlinked"
    BY <1>1, <1>2 DEF Owed, Owes, Place, Putting, Creates
  <1>7. Removing' = Removing
    BY <1>6, RemovingSame
  <1>8. /\ \A e \in Inodes, m \in Elems : LiveDir(type, nlink, Removing, e) => ents[e][m] # i
        /\ i # Root
    BY <1>1, NoInto
  <1>9. /\ \A j \in Inodes \ {i} : type'[j] = type[j]
        /\ type'[i] = IF op[p] = "mkdir" THEN "dir" ELSE "file"
    BY <1>1, <1>2, Domains
  <1>10. \A j \in Inodes : nlink[j] \in Int /\ nlink[j] >= 0
    BY DEF Types, TreeInv
  <1>11. /\ nlink'[i] = 1 /\ nlink'[d] = nlink[d] + x
         /\ \A j \in Inodes \ {i, d} : nlink'[j] = nlink[j]
    BY <1>1, <1>2, <1>3, Domains
  <1>12. /\ \A e \in Inodes \ {i, d} : ents'[e] = ents[e]
         /\ \A m \in Elems : ents'[d][m] = IF m = n THEN i ELSE ents[d][m]
         /\ ents'[i] = [NoEnts EXCEPT ![".."] = IF op[p] = "mkdir" THEN d ELSE 0]
    BY <1>1, <1>2, <1>3, Domains DEF DotDot
  <1>13. (op[p] = "mkdir" => ents'[i][".."] = d) /\ \A m \in Names : ents'[i][m] = 0
    BY <1>12, Consts DEF NoEnts
  <1>14. i \notin Removing
    <2> SUFFICES ASSUME NEW q \in Procs, ip[q] = i PROVE FALSE
      BY DEF Removing
    <2> QED
      BY <1>1, Holds
  <1>15. \A j \in Inodes : nlink'[j] \in Int /\ nlink'[j] >= 0 /\ (j # i /\ nlink[j] > 0 => nlink'[j] > 0)
                            /\ (j # i /\ nlink[j] = 0 => nlink'[j] = 0 /\ j # d)
    BY <1>1, <1>10, <1>11
  <1>16. \A e \in Inodes \ {i} : LiveDir(type', nlink', Removing', e) <=> LiveDir(type, nlink, Removing, e)
    BY <1>7, <1>9, <1>10, <1>15 DEF LiveDir
  <1>17. LiveDir(type', nlink', Removing', i) <=> type'[i] = "dir"
    BY <1>1, <1>7, <1>11, <1>14 DEF LiveDir
  <1>18. ~LiveDir(type, nlink, Removing, i) /\ (type'[i] = "dir" => op[p] = "mkdir") /\ type'[i] # "free"
    BY <1>1, <1>9 DEF LiveDir
  <1>19. \A e \in Inodes \ {d} : LiveDir(type, nlink, Removing, e) => ents'[e] = ents[e]
    BY <1>12, <1>18
  <1>20. NewName(type, nlink, ents, Removing, type', nlink', ents', Removing', d, n, i)
    BY <1>1, <1>3, <1>4, <1>5, <1>8, <1>9, <1>12, <1>13, <1>16, <1>17, <1>18, <1>19 DEF NewName
  <1>21. ASSUME NEW j \in Inodes, type'[j] # "free"
         PROVE  nlink'[j] + One(Owed[p], j) = One(Owed'[p], j) + One(i, j) + (IF type'[i] = "dir" THEN One(d, j) ELSE 0)
                   + (IF type[j] = "free" THEN 0 ELSE nlink[j])
    <2>1. One(Owed[p], j) = 0 /\ One(Owed'[p], j) = 0
      BY <1>6, Consts DEF One
    <2>2. x = IF type'[i] = "dir" THEN 1 ELSE 0
      BY <1>9
    <2>3. CASE j = i
      BY <1>1, <1>3, <1>11, <2>1, <2>3 DEF One
    <2>4. CASE j = d
      BY <1>3, <1>10, <1>11, <2>1, <2>2, <2>4 DEF One
    <2>5. CASE j # i /\ j # d
      BY <1>9, <1>10, <1>11, <1>21, <2>1, <2>5 DEF One
    <2> QED
      BY <2>3, <2>4, <2>5
  <1>22. Empty(type', nlink', ents')
    <2> SUFFICES ASSUME NEW e \in Inodes, NEW m \in Names, type'[e] = "dir", nlink'[e] = 0 PROVE ents'[e][m] = 0
      BY DEF Empty
    <2>1. e # i
      BY <1>11
    <2>2. nlink[e] = 0 /\ e # d
      BY <1>1, <1>10, <1>15, <2>1
    <2> QED
      BY <1>9, <1>12, <2>1, <2>2 DEF Empty, TreeInv
  <1> QED
    BY <1>15, <1>20, <1>21, <1>22, Grown

\* where unlink() erases an entry
LEMMA UnlinkAt ==
    ASSUME NEW p \in Procs, Types, CallInv, RefInv, LockInv, TreeInv, NodeInv, UnlinkOk(p)
    PROVE  LET d == cur[p]
               i == ip[p]
           IN  /\ d \in Inodes /\ i \in Inodes /\ d # i /\ Name(p) \in Names /\ ents[d][Name(p)] = i
               /\ LiveDir(type, nlink, Removing, d) /\ (type[i] = "dir" => nlink[d] > 1)
  <1> DEFINE d == cur[p]
             n == Name(p)
             i == ip[p]
  <1>1. pc[p] = "unlink" /\ op[p] = "unlink" /\ lock[i] = 0 /\ Place(p) = "unlink"
        /\ d \in Inodes /\ i \in Inodes
    BY Refs DEF UnlinkOk, Erase, ilocked, CallOf, Place, Putting
  <1>3. type[d] = "dir" /\ n \in Names /\ ents[d][n] = i /\ n \in Elems
    BY <1>1, Consts DEF NodeInv, NodeOf
  <1>4. lock[d] = p /\ d # i
    <2>1. Holder(p, d)
      BY <1>1 DEF Holder
    <2> QED
      BY <1>1, <2>1, Consts DEF LockInv
  <1>5. d \notin Removing
    <2> SUFFICES ASSUME NEW q \in Procs, Place(q) = "unlinked", ip[q] = d PROVE FALSE
      BY DEF Removing
    <2>1. Holder(q, d)
      BY DEF Holder
    <2>2. lock[d] = q
      BY <1>1, <2>1 DEF LockInv
    <2> QED
      BY <1>1, <1>4, <2>2
  <1>6. \A j \in Inodes : nlink[j] \in Int /\ nlink[j] >= 0
    BY DEF Types, TreeInv
  <1>7. nlink[d] # 0
    BY <1>1, <1>3, Consts DEF TreeInv, Empty
  <1>8. LiveDir(type, nlink, Removing, d)
    BY <1>1, <1>3, <1>5, <1>6, <1>7 DEF LiveDir
  <1>9. type[i] = "dir" => nlink[d] > 1
    <2> SUFFICES ASSUME type[i] = "dir" PROVE nlink[d] > 1
      OBVIOUS
    <2>1. Cardinality(Into(type, nlink, ents, Removing, d)) + One(d, Root) > 1
      BY <1>1, <1>3, <1>8, TwoLinks, Domains DEF TreeInv, Types
    <2>2. nlink[d] = Cardinality(Into(type, nlink, ents, Removing, d)) + Num(Owed, d) + One(d, Root)
      BY <1>1, <1>3 DEF TreeInv, Counted
    <2>3. Num(Owed, d) \in Nat /\ Cardinality(Into(type, nlink, ents, Removing, d)) \in Nat /\ One(d, Root) \in Int
      BY NumNat, IntoCount, Ones
    <2> QED
      BY <2>1, <2>2, <2>3
  <1> QED
    BY <1>1, <1>3, <1>4, <1>8, <1>9

LEMMA UnlinkOkTree ==
    ASSUME NEW p \in Procs, Types, CallInv, RefInv, LockInv, TreeInv, NodeInv, Frame(p), UnlinkOk(p)
    PROVE  TreeInv'
  <1> DEFINE d == cur[p]
             n == Name(p)
             i == ip[p]
  <1>1. pc[p] = "unlink" /\ op[p] = "unlink" /\ lock[i] = 0 /\ Place(p) = "unlink"
        /\ d \in Inodes /\ i \in Inodes
    BY Refs DEF UnlinkOk, Erase, ilocked, CallOf, Place, Putting
  <1>2. /\ ents' = [ents EXCEPT ![d][n] = 0]
        /\ nlink' = IF type[i] = "dir" THEN [nlink EXCEPT ![d] = @ - 1] ELSE nlink
        /\ UNCHANGED <<type, op, ip>> /\ pc'[p] = "put" /\ ret'[p] = "unlinked"
        /\ type[i] = "dir" => isdirempty(i)
    BY Domains DEF UnlinkOk, Erase, PutCur, CallPut, Goto
  <1>3. /\ type[d] = "dir" /\ n \in Names /\ ents[d][n] = i /\ n \in Elems /\ d # i
        /\ LiveDir(type, nlink, Removing, d) /\ (type[i] = "dir" => nlink[d] > 1)
    BY UnlinkAt, Consts DEF LiveDir
  <1>6. \A j \in Inodes : nlink[j] \in Int /\ nlink[j] >= 0
    BY DEF Types, TreeInv
  <1>7. nlink[d] > 0
    BY <1>3 DEF LiveDir
  <1>9. Owed[p] = 0 /\ Owed'[p] = i /\ Place(p) # "unlinked" /\ Place(p)' = "unlinked" /\ ip'[p] = i
    BY <1>1, <1>2 DEF Owed, Owes, Place, Putting
  <1>10. \A e : e \in Removing' <=> e = i \/ e \in Removing
    <2>1. \A e : e \in Removing <=> \E q \in Procs : Place(q) = "unlinked" /\ e = ip[q]
      BY DEF Removing
    <2> QED
      BY <1>9, <2>1, RemovingMoves
  <1>11. /\ \A e \in Inodes \ {d} : ents'[e] = ents[e]
         /\ \A m \in Elems : ents'[d][m] = IF m = n THEN 0 ELSE ents[d][m]
    BY <1>1, <1>2, <1>3, Domains
  <1>13. /\ nlink'[d] = nlink[d] - (IF type[i] = "dir" THEN 1 ELSE 0)
         /\ \A j \in Inodes \ {d} : nlink'[j] = nlink[j]
    BY <1>1, <1>2, <1>6, Domains
  <1>14. /\ \A j \in Inodes : nlink'[j] \in Int /\ nlink'[j] >= 0
         /\ \A j \in Inodes : nlink'[j] > 0 <=> nlink[j] > 0
    BY <1>1, <1>3, <1>6, <1>7, <1>13
  <1>15. \A e \in Inodes : LiveDir(type, nlink', Removing', e) <=>
             LiveDir(type, nlink, Removing, e) /\ (type[i] = "dir" => e # i)
    BY <1>10, <1>14 DEF LiveDir
  <1>16. type[i] = "dir" => \A m \in Names : ents[i][m] = 0
    BY <1>2 DEF isdirempty
  <1>17. OldName(type, nlink, ents, Removing, nlink', ents', Removing', d, n, i)
    BY <1>1, <1>3, <1>11, <1>15, <1>16 DEF OldName
  <1>18. ASSUME NEW j \in Inodes
         PROVE  nlink'[j] + One(Owed[p], j) + One(i, j) + (IF type[i] = "dir" THEN One(d, j) ELSE 0) =
                   nlink[j] + One(Owed'[p], j)
    <2>1. One(Owed[p], j) = 0 /\ One(Owed'[p], j) = One(i, j) /\ One(i, j) \in Int
      BY <1>9, Ones, Consts DEF One
    <2>2. One(d, j) = IF j = d THEN 1 ELSE 0
      BY DEF One
    <2> QED
      BY <1>6, <1>13, <2>1, <2>2
  <1>19. Empty(type, nlink', ents')
    <2> SUFFICES ASSUME NEW e \in Inodes, NEW m \in Names, type[e] = "dir", nlink'[e] = 0 PROVE ents'[e][m] = 0
      BY DEF Empty
    <2>1. nlink[e] = 0 /\ e # d
      BY <1>6, <1>7, <1>14
    <2> QED
      BY <1>11, <2>1 DEF Empty, TreeInv
  <1> QED
    BY <1>2, <1>14, <1>17, <1>18, <1>19, Shrunk

LEMMA TreeStep ==
    ASSUME NEW p \in Procs, Types, CallInv, RefInv, LockInv, FreeInv, TreeInv, NodeInv, Frame(p), Step(p)
    PROVE  TreeInv'
  <1>1. CASE QuietStep(p)
    BY <1>1, QuietTree
  <1>2. CASE LinkNew(p)
    BY <1>2, LinkNewTree
  <1>3. CASE LinkBad(p)
    BY <1>3, LinkBadTree
  <1>4. ASSUME NEW q \in work.paths, LinkOld(p, q)
        PROVE  TreeInv'
    BY <1>4, LinkOldTree
  <1>5. CASE UnlinkOk(p)
    BY <1>5, UnlinkOkTree
  <1>6. CASE UnlinkDone(p)
    BY <1>6, UnlinkDoneTree
  <1>7. ASSUME NEW i \in Free, CreateAt(p, i)
        PROVE  TreeInv'
    BY <1>7, CreateAtTree
  <1>8. ASSUME NEW i \in Free, FailAt(p, i)
        PROVE  TreeInv'
    BY <1>8, FailAtTree
  <1>9. CASE Trunc(p) \/ ifree(p)
    BY <1>9, FreesTree
  <1> QED
    BY <1>1, <1>2, <1>3, <1>4, <1>5, <1>6, <1>7, <1>8, <1>9 DEF Step, QuietStep

-----------------------------------------------------------------------------
(* What steps leave to others *)

\* the type of an inode in use, and the names in a directory that is locked
Lasting(p, j) ==
    /\ ref[j] > 0 => type'[j] = type[j]
    /\ type[j] # "free" /\ lock[j] # 0 =>
          \A n \in Elems : ents'[j][n] = ents[j][n] \/ (lock[j] = p /\ ents'[j][n] = 0)

LEMMA LastingStep ==
    ASSUME NEW p \in Procs, Types, CallInv, RefInv, LockInv, FreeInv, Step(p)
    PROVE  \A j \in Inodes : Lasting(p, j)
  <1>1. ASSUME NEW o \in work.ops[p], NEW q \in work.paths, Begin(p, o, q)
        PROVE  \A j \in Inodes : Lasting(p, j)
    BY <1>1 DEF Lasting, Begin, iget, Goto, StartOf, inodeVars, fileVars, putVars
  <1>2. CASE WalkEnds(p)
    BY <1>2 DEF Lasting, WalkEnds, GiveUp, PutCur, CallPut, Goto, inodeVars, fileVars
  <1>3. CASE WalkParent(p)
    BY <1>3 DEF Lasting, WalkParent, Goto, NotDir, WantsParent, inodeVars, fileVars, callVars, putVars
  <1>4. CASE WalkDown(p)
    BY <1>4 DEF Lasting, WalkDown, CallPut, Goto, NotDir, WantsParent, inodeVars, fileVars
  <1>5. CASE sys_open(p)
    BY <1>5 DEF Lasting, sys_open, Found, Goto, inodeVars, putVars
  <1>6. CASE sys_chdir(p)
    BY <1>6 DEF Lasting, sys_chdir, Found, CallPut, Goto, inodeVars
  <1>7. CASE LinkDir(p)
    BY <1>7 DEF Lasting, LinkDir, Found, PutCur, CallPut, Goto, inodeVars, fileVars
  <1>8. CASE LinkFails(p)
    BY <1>8 DEF Lasting, LinkFails, Parent, PutCur, CallPut, Goto, inodeVars, tableVars, fileVars
  <1>9. CASE LinkNew(p)
    <2>1. lock[cur[p]] = 0 /\ UNCHANGED type /\ \A j \in Inodes : j # cur[p] => ents'[j] = ents[j]
      BY <1>9, Domains DEF LinkNew, Parent, ilocked
    <2> QED
      BY <2>1 DEF Lasting
  <1>10. CASE LinkDone(p)
    BY <1>10 DEF Lasting, LinkDone, PutIp, CallPut, Goto, inodeVars, tableVars, fileVars
  <1>11. CASE LinkBad(p)
    BY <1>11 DEF Lasting, LinkBad, PutIp, CallPut, Goto, tableVars, fileVars
  <1>12. ASSUME NEW q \in work.paths, LinkOld(p, q)
         PROVE  \A j \in Inodes : Lasting(p, j)
    BY <1>12 DEF Lasting, LinkOld, SecondWalk, Found, StartOf, Goto, fileVars, putVars
  <1>13. CASE UnlinkNone(p)
    BY <1>13 DEF Lasting, UnlinkNone, Parent, PutCur, CallPut, Goto, inodeVars, tableVars, fileVars
  <1>14. CASE UnlinkEntry(p)
    BY <1>14 DEF Lasting, UnlinkEntry, Parent, Taken, iget, Goto, inodeVars, fileVars, putVars
  <1>15. CASE UnlinkFull(p)
    BY <1>15 DEF Lasting, UnlinkFull, PutIp, CallPut, Goto, inodeVars, fileVars
  <1>16. CASE UnlinkOk(p)
    <2>1. UNCHANGED type /\ cur[p] \in Inodes /\ Place(p) = "unlink"
      BY <1>16, Refs DEF UnlinkOk, Erase, Place, Putting
    <2>2. lock[cur[p]] = p
      BY <2>1 DEF LockInv, Holder
    <2>3. /\ \A j \in Inodes : j # cur[p] => ents'[j] = ents[j]
          /\ \A m \in Elems : ents'[cur[p]][m] = ents[cur[p]][m] \/ ents'[cur[p]][m] = 0
      BY <1>16, <2>1, Domains DEF UnlinkOk, Erase
    <2> QED
      BY <2>1, <2>2, <2>3 DEF Lasting
  <1>17. CASE UnlinkDone(p)
    BY <1>17 DEF Lasting, UnlinkDone, PutIp, CallPut, Goto, fileVars
  <1>18. CASE CreateNone(p)
    BY <1>18 DEF Lasting, CreateNone, Parent, PutCur, CallPut, Goto, inodeVars, tableVars, fileVars
  <1>19. CASE CreateTaken(p)
    BY <1>19 DEF Lasting, CreateTaken, Parent, Taken, iget, PutCur, CallPut, Goto, inodeVars, fileVars
  <1>20. CASE CreateExisting(p)
    BY <1>20 DEF Lasting, CreateExisting, OpenIp, PutIp, CallPut, Goto, inodeVars, fileVars, putVars
  <1>21. CASE CreateDone(p)
    BY <1>21 DEF Lasting, CreateDone, OpenIp, PutIp, CallPut, Goto, inodeVars, fileVars, putVars
  <1>22. ASSUME NEW i \in Free, CreateAt(p, i)
         PROVE  \A j \in Inodes : Lasting(p, j)
    <2>1. type[i] = "free" /\ i \in Inodes /\ lock[cur[p]] = 0
      BY <1>22 DEF Free, CreateAt, NewInode, Parent, ilocked
    <2>2. \A j \in Inodes : (j # i => type'[j] = type[j]) /\ (j # i /\ j # cur[p] => ents'[j] = ents[j])
      BY <1>22, Domains DEF CreateAt, NewInode, DotDot
    <2> QED
      BY <2>1, <2>2 DEF Lasting, RefInv
  <1>23. ASSUME NEW i \in Free, FailAt(p, i)
         PROVE  \A j \in Inodes : Lasting(p, j)
    <2>1. type[i] = "free" /\ i \in Inodes /\ lock[cur[p]] = 0
      BY <1>23 DEF Free, FailAt, NewInode, Parent, ilocked
    <2>2. \A j \in Inodes : (j # i => type'[j] = type[j]) /\ (j # i /\ j # cur[p] => ents'[j] = ents[j])
      BY <1>23, Domains DEF FailAt, NewInode, DotDot
    <2> QED
      BY <2>1, <2>2 DEF Lasting, RefInv
  <1>24. CASE FailedDone(p)
    BY <1>24 DEF Lasting, FailedDone, PutCur, CallPut, Goto, inodeVars, fileVars
  <1>25. CASE fileclose(p)
    BY <1>25 DEF Lasting, fileclose, CallPut, Goto, inodeVars, tableVars
  <1>26. CASE PutRef(p)
    BY <1>26 DEF Lasting, PutRef, Unref, Return, Last, Goto, inodeVars, fileVars, callVars
  <1>27. CASE PutLast(p)
    BY <1>27 DEF Lasting, PutLast, Last, Goto, inodeVars, fileVars, callVars, putVars
  <1>28. CASE Trunc(p)
    <2>1. UNCHANGED type /\ victim[p] \in Inodes /\ pc[p] = "trunc"
      BY <1>28, Refs DEF Trunc, Putting
    <2>2. lock[victim[p]] = p
      BY <2>1 DEF LockInv, Holder
    <2>3. /\ \A j \in Inodes : j # victim[p] => ents'[j] = ents[j]
          /\ \A m \in Elems : ents'[victim[p]][m] = 0
      BY <1>28, <2>1, Domains DEF Trunc, NoEnts
    <2> QED
      BY <2>1, <2>2, <2>3 DEF Lasting
  <1>29. CASE PutUnref(p)
    BY <1>29 DEF Lasting, PutUnref, Unref, Goto, inodeVars, fileVars, callVars, putVars
  <1>30. CASE ifree(p)
    <2>1. UNCHANGED ents /\ \A j \in Inodes : j # victim[p] => type'[j] = type[j]
      BY <1>30, Domains DEF ifree
    <2>2. ref[victim[p]] = 0
      BY <1>30 DEF ifree, FreeInv
    <2> QED
      BY <2>1, <2>2 DEF Lasting
  <1>31. CASE end_op(p)
    BY <1>31 DEF Lasting, end_op, commit, Goto, inodeVars, tableVars, fileVars, putVars
  <1>32. CASE Reclaim(p)
    BY <1>32 DEF Lasting, Reclaim, CallPut, Goto, Orphan, inodeVars, fileVars, putVars
  <1> QED
    BY <1>1, <1>2, <1>3, <1>4, <1>5, <1>6, <1>7, <1>8, <1>9, <1>10, <1>11, <1>12, <1>13, <1>14,
       <1>15, <1>16, <1>17, <1>18, <1>19, <1>20, <1>21, <1>22, <1>23, <1>24, <1>25, <1>26, <1>27,
       <1>28, <1>29, <1>30, <1>31, <1>32 DEF Step

\* that an inode in use has been read, until it is freed
ReadOn(p, j) ==
    valid[j] /\ ref[j] > 0 =>
        \/ valid'[j] /\ ref'[j] > 0
        \/ nlink[j] # 0 /\ ref'[j] = 0
        \/ nlink[j] = 0 /\ pc'[p] \in {"unref", "ifree"} /\ victim'[p] = j

LEMMA ReadStep ==
    ASSUME NEW p \in Procs, Types, CallInv, FreeInv, Step(p)
    PROVE  \A j \in Inodes : ReadOn(p, j)
  <1>1. ASSUME NEW o \in work.ops[p], NEW q \in work.paths, Begin(p, o, q)
        PROVE  \A j \in Inodes : ReadOn(p, j)
    <2>1. \A j \in Inodes : ref'[j] = ref[j] \/ ref'[j] = ref[j] + 1
      BY <1>1, Domains DEF Begin, iget, Goto, StartOf, inodeVars, fileVars, putVars
    <2>2. \A j \in Inodes : valid[j] /\ ref[j] > 0 => valid'[j]
      BY <1>1, Domains DEF Begin, iget, Goto, StartOf, inodeVars, fileVars, putVars
    <2> QED
      BY <2>1, <2>2, RefInt DEF ReadOn
  <1>2. CASE WalkEnds(p)
    <2>1. \A j \in Inodes : ref'[j] = ref[j] \/ ref'[j] = ref[j] + 1
      BY <1>2, Domains DEF WalkEnds, GiveUp, PutCur, CallPut, Goto, inodeVars, fileVars
    <2>2. \A j \in Inodes : valid[j] /\ ref[j] > 0 => valid'[j]
      BY <1>2, Domains DEF WalkEnds, GiveUp, PutCur, CallPut, Goto, inodeVars, fileVars
    <2> QED
      BY <2>1, <2>2, RefInt DEF ReadOn
  <1>3. CASE WalkParent(p)
    <2>1. \A j \in Inodes : ref'[j] = ref[j] \/ ref'[j] = ref[j] + 1
      BY <1>3, Domains DEF WalkParent, Goto, NotDir, WantsParent, inodeVars, fileVars, callVars, putVars
    <2>2. \A j \in Inodes : valid[j] /\ ref[j] > 0 => valid'[j]
      BY <1>3, Domains DEF WalkParent, Goto, NotDir, WantsParent, inodeVars, fileVars, callVars, putVars
    <2> QED
      BY <2>1, <2>2, RefInt DEF ReadOn
  <1>4. CASE WalkDown(p)
    <2>1. \A j \in Inodes : ref'[j] = ref[j] \/ ref'[j] = ref[j] + 1
      BY <1>4, Domains DEF WalkDown, CallPut, Goto, NotDir, WantsParent, inodeVars, fileVars
    <2>2. \A j \in Inodes : valid[j] /\ ref[j] > 0 => valid'[j]
      BY <1>4, Domains DEF WalkDown, CallPut, Goto, NotDir, WantsParent, inodeVars, fileVars
    <2> QED
      BY <2>1, <2>2, RefInt DEF ReadOn
  <1>5. CASE sys_open(p)
    <2>1. \A j \in Inodes : ref'[j] = ref[j] \/ ref'[j] = ref[j] + 1
      BY <1>5, Domains DEF sys_open, Found, Goto, inodeVars, putVars
    <2>2. \A j \in Inodes : valid[j] /\ ref[j] > 0 => valid'[j]
      BY <1>5, Domains DEF sys_open, Found, Goto, inodeVars, putVars
    <2> QED
      BY <2>1, <2>2, RefInt DEF ReadOn
  <1>6. CASE sys_chdir(p)
    <2>1. \A j \in Inodes : ref'[j] = ref[j] \/ ref'[j] = ref[j] + 1
      BY <1>6, Domains DEF sys_chdir, Found, CallPut, Goto, inodeVars
    <2>2. \A j \in Inodes : valid[j] /\ ref[j] > 0 => valid'[j]
      BY <1>6, Domains DEF sys_chdir, Found, CallPut, Goto, inodeVars
    <2> QED
      BY <2>1, <2>2, RefInt DEF ReadOn
  <1>7. CASE LinkDir(p)
    <2>1. \A j \in Inodes : ref'[j] = ref[j] \/ ref'[j] = ref[j] + 1
      BY <1>7, Domains DEF LinkDir, Found, PutCur, CallPut, Goto, inodeVars, fileVars
    <2>2. \A j \in Inodes : valid[j] /\ ref[j] > 0 => valid'[j]
      BY <1>7, Domains DEF LinkDir, Found, PutCur, CallPut, Goto, inodeVars, fileVars
    <2> QED
      BY <2>1, <2>2, RefInt DEF ReadOn
  <1>8. CASE LinkFails(p)
    <2>1. \A j \in Inodes : ref'[j] = ref[j] \/ ref'[j] = ref[j] + 1
      BY <1>8, Domains DEF LinkFails, Parent, PutCur, CallPut, Goto, inodeVars, tableVars, fileVars
    <2>2. \A j \in Inodes : valid[j] /\ ref[j] > 0 => valid'[j]
      BY <1>8, Domains DEF LinkFails, Parent, PutCur, CallPut, Goto, inodeVars, tableVars, fileVars
    <2> QED
      BY <2>1, <2>2, RefInt DEF ReadOn
  <1>9. CASE LinkNew(p)
    <2>1. \A j \in Inodes : ref'[j] = ref[j] \/ ref'[j] = ref[j] + 1
      BY <1>9, Domains DEF LinkNew, Parent, Taken, PutCur, CallPut, Goto, tableVars, fileVars
    <2>2. \A j \in Inodes : valid[j] /\ ref[j] > 0 => valid'[j]
      BY <1>9, Domains DEF LinkNew, Parent, Taken, PutCur, CallPut, Goto, tableVars, fileVars
    <2> QED
      BY <2>1, <2>2, RefInt DEF ReadOn
  <1>10. CASE LinkDone(p)
    <2>1. \A j \in Inodes : ref'[j] = ref[j] \/ ref'[j] = ref[j] + 1
      BY <1>10, Domains DEF LinkDone, PutIp, CallPut, Goto, inodeVars, tableVars, fileVars
    <2>2. \A j \in Inodes : valid[j] /\ ref[j] > 0 => valid'[j]
      BY <1>10, Domains DEF LinkDone, PutIp, CallPut, Goto, inodeVars, tableVars, fileVars
    <2> QED
      BY <2>1, <2>2, RefInt DEF ReadOn
  <1>11. CASE LinkBad(p)
    <2>1. \A j \in Inodes : ref'[j] = ref[j] \/ ref'[j] = ref[j] + 1
      BY <1>11, Domains DEF LinkBad, PutIp, CallPut, Goto, tableVars, fileVars
    <2>2. \A j \in Inodes : valid[j] /\ ref[j] > 0 => valid'[j]
      BY <1>11, Domains DEF LinkBad, PutIp, CallPut, Goto, tableVars, fileVars
    <2> QED
      BY <2>1, <2>2, RefInt DEF ReadOn
  <1>12. ASSUME NEW q \in work.paths, LinkOld(p, q)
         PROVE  \A j \in Inodes : ReadOn(p, j)
    <2>1. \A j \in Inodes : ref'[j] = ref[j] \/ ref'[j] = ref[j] + 1
      BY <1>12, Domains DEF LinkOld, SecondWalk, Found, StartOf, Goto, fileVars, putVars
    <2>2. \A j \in Inodes : valid[j] /\ ref[j] > 0 => valid'[j]
      BY <1>12, Domains DEF LinkOld, SecondWalk, Found, StartOf, Goto, fileVars, putVars
    <2> QED
      BY <2>1, <2>2, RefInt DEF ReadOn
  <1>13. CASE UnlinkNone(p)
    <2>1. \A j \in Inodes : ref'[j] = ref[j] \/ ref'[j] = ref[j] + 1
      BY <1>13, Domains DEF UnlinkNone, Parent, PutCur, CallPut, Goto, inodeVars, tableVars, fileVars
    <2>2. \A j \in Inodes : valid[j] /\ ref[j] > 0 => valid'[j]
      BY <1>13, Domains DEF UnlinkNone, Parent, PutCur, CallPut, Goto, inodeVars, tableVars, fileVars
    <2> QED
      BY <2>1, <2>2, RefInt DEF ReadOn
  <1>14. CASE UnlinkEntry(p)
    <2>1. \A j \in Inodes : ref'[j] = ref[j] \/ ref'[j] = ref[j] + 1
      BY <1>14, Domains DEF UnlinkEntry, Parent, Taken, iget, Goto, inodeVars, fileVars, putVars
    <2>2. \A j \in Inodes : valid[j] /\ ref[j] > 0 => valid'[j]
      BY <1>14, Domains DEF UnlinkEntry, Parent, Taken, iget, Goto, inodeVars, fileVars, putVars
    <2> QED
      BY <2>1, <2>2, RefInt DEF ReadOn
  <1>15. CASE UnlinkFull(p)
    <2>1. \A j \in Inodes : ref'[j] = ref[j] \/ ref'[j] = ref[j] + 1
      BY <1>15, Domains DEF UnlinkFull, PutIp, CallPut, Goto, inodeVars, fileVars
    <2>2. \A j \in Inodes : valid[j] /\ ref[j] > 0 => valid'[j]
      BY <1>15, Domains DEF UnlinkFull, PutIp, CallPut, Goto, inodeVars, fileVars
    <2> QED
      BY <2>1, <2>2, RefInt DEF ReadOn
  <1>16. CASE UnlinkOk(p)
    <2>1. \A j \in Inodes : ref'[j] = ref[j] \/ ref'[j] = ref[j] + 1
      BY <1>16, Domains DEF UnlinkOk, Erase, PutCur, CallPut, Goto, fileVars
    <2>2. \A j \in Inodes : valid[j] /\ ref[j] > 0 => valid'[j]
      BY <1>16, Domains DEF UnlinkOk, Erase, PutCur, CallPut, Goto, fileVars
    <2> QED
      BY <2>1, <2>2, RefInt DEF ReadOn
  <1>17. CASE UnlinkDone(p)
    <2>1. \A j \in Inodes : ref'[j] = ref[j] \/ ref'[j] = ref[j] + 1
      BY <1>17, Domains DEF UnlinkDone, PutIp, CallPut, Goto, fileVars
    <2>2. \A j \in Inodes : valid[j] /\ ref[j] > 0 => valid'[j]
      BY <1>17, Domains DEF UnlinkDone, PutIp, CallPut, Goto, fileVars
    <2> QED
      BY <2>1, <2>2, RefInt DEF ReadOn
  <1>18. CASE CreateNone(p)
    <2>1. \A j \in Inodes : ref'[j] = ref[j] \/ ref'[j] = ref[j] + 1
      BY <1>18, Domains DEF CreateNone, Parent, PutCur, CallPut, Goto, inodeVars, tableVars, fileVars
    <2>2. \A j \in Inodes : valid[j] /\ ref[j] > 0 => valid'[j]
      BY <1>18, Domains DEF CreateNone, Parent, PutCur, CallPut, Goto, inodeVars, tableVars, fileVars
    <2> QED
      BY <2>1, <2>2, RefInt DEF ReadOn
  <1>19. CASE CreateTaken(p)
    <2>1. \A j \in Inodes : ref'[j] = ref[j] \/ ref'[j] = ref[j] + 1
      BY <1>19, Domains DEF CreateTaken, Parent, Taken, iget, PutCur, CallPut, Goto, inodeVars, fileVars
    <2>2. \A j \in Inodes : valid[j] /\ ref[j] > 0 => valid'[j]
      BY <1>19, Domains DEF CreateTaken, Parent, Taken, iget, PutCur, CallPut, Goto, inodeVars, fileVars
    <2> QED
      BY <2>1, <2>2, RefInt DEF ReadOn
  <1>20. CASE CreateExisting(p)
    <2>1. \A j \in Inodes : ref'[j] = ref[j] \/ ref'[j] = ref[j] + 1
      BY <1>20, Domains DEF CreateExisting, OpenIp, PutIp, CallPut, Goto, inodeVars, fileVars, putVars
    <2>2. \A j \in Inodes : valid[j] /\ ref[j] > 0 => valid'[j]
      BY <1>20, Domains DEF CreateExisting, OpenIp, PutIp, CallPut, Goto, inodeVars, fileVars, putVars
    <2> QED
      BY <2>1, <2>2, RefInt DEF ReadOn
  <1>21. CASE CreateDone(p)
    <2>1. \A j \in Inodes : ref'[j] = ref[j] \/ ref'[j] = ref[j] + 1
      BY <1>21, Domains DEF CreateDone, OpenIp, PutIp, CallPut, Goto, inodeVars, fileVars, putVars
    <2>2. \A j \in Inodes : valid[j] /\ ref[j] > 0 => valid'[j]
      BY <1>21, Domains DEF CreateDone, OpenIp, PutIp, CallPut, Goto, inodeVars, fileVars, putVars
    <2> QED
      BY <2>1, <2>2, RefInt DEF ReadOn
  <1>22. ASSUME NEW i \in Free, CreateAt(p, i)
         PROVE  \A j \in Inodes : ReadOn(p, j)
    <2>1. \A j \in Inodes : ref'[j] = ref[j] \/ ref'[j] = ref[j] + 1
      BY <1>22, Domains
        DEF CreateAt, NewInode, DotDot, NoEnts, Free, Parent, Taken, PutCur, CallPut, Goto, fileVars
    <2>2. \A j \in Inodes : valid[j] /\ ref[j] > 0 => valid'[j]
      BY <1>22, Domains
        DEF CreateAt, NewInode, DotDot, NoEnts, Free, Parent, Taken, PutCur, CallPut, Goto, fileVars
    <2> QED
      BY <2>1, <2>2, RefInt DEF ReadOn
  <1>23. ASSUME NEW i \in Free, FailAt(p, i)
         PROVE  \A j \in Inodes : ReadOn(p, j)
    <2>1. \A j \in Inodes : ref'[j] = ref[j] \/ ref'[j] = ref[j] + 1
      BY <1>23, Domains DEF FailAt, NewInode, DotDot, NoEnts, Free, Parent, Taken, CallPut, Goto, fileVars
    <2>2. \A j \in Inodes : valid[j] /\ ref[j] > 0 => valid'[j]
      BY <1>23, Domains DEF FailAt, NewInode, DotDot, NoEnts, Free, Parent, Taken, CallPut, Goto, fileVars
    <2> QED
      BY <2>1, <2>2, RefInt DEF ReadOn
  <1>24. CASE FailedDone(p)
    <2>1. \A j \in Inodes : ref'[j] = ref[j] \/ ref'[j] = ref[j] + 1
      BY <1>24, Domains DEF FailedDone, PutCur, CallPut, Goto, inodeVars, fileVars
    <2>2. \A j \in Inodes : valid[j] /\ ref[j] > 0 => valid'[j]
      BY <1>24, Domains DEF FailedDone, PutCur, CallPut, Goto, inodeVars, fileVars
    <2> QED
      BY <2>1, <2>2, RefInt DEF ReadOn
  <1>25. CASE fileclose(p)
    <2>1. \A j \in Inodes : ref'[j] = ref[j] \/ ref'[j] = ref[j] + 1
      BY <1>25, Domains DEF fileclose, CallPut, Goto, inodeVars, tableVars
    <2>2. \A j \in Inodes : valid[j] /\ ref[j] > 0 => valid'[j]
      BY <1>25, Domains DEF fileclose, CallPut, Goto, inodeVars, tableVars
    <2> QED
      BY <2>1, <2>2, RefInt DEF ReadOn
  <1>26. CASE PutRef(p)
    <2>1. \A j \in Inodes : j # victim[p] => ref'[j] = ref[j] /\ valid'[j] = valid[j]
      BY <1>26, Domains DEF PutRef, Unref
    <2>2. victim[p] \in Inodes => ref'[victim[p]] = ref[victim[p]] - 1
      BY <1>26, Domains DEF PutRef, Unref
    <2>3. victim[p] \in Inodes /\ valid[victim[p]] /\ ref[victim[p]] > 1 => valid'[victim[p]]
      BY <1>26, Domains DEF PutRef, Unref
    <2>4. valid[victim[p]] /\ ref[victim[p]] = 1 => nlink[victim[p]] # 0
      BY <1>26 DEF PutRef, Last
    <2> QED
      BY <2>1, <2>2, <2>3, <2>4, RefInt DEF ReadOn
  <1>27. CASE PutLast(p)
    <2>1. \A j \in Inodes : ref'[j] = ref[j] \/ ref'[j] = ref[j] + 1
      BY <1>27, Domains DEF PutLast, Last, Goto, inodeVars, fileVars, callVars, putVars
    <2>2. \A j \in Inodes : valid[j] /\ ref[j] > 0 => valid'[j]
      BY <1>27, Domains DEF PutLast, Last, Goto, inodeVars, fileVars, callVars, putVars
    <2> QED
      BY <2>1, <2>2, RefInt DEF ReadOn
  <1>28. CASE Trunc(p)
    <2>1. \A j \in Inodes : j # victim[p] => ref'[j] = ref[j] /\ valid'[j] = valid[j]
      BY <1>28, Domains DEF Trunc
    <2>2. pc'[p] = "unref" /\ victim'[p] = victim[p] /\ nlink[victim[p]] = 0
      BY <1>28, Domains DEF Trunc, FreeInv, Goto, putVars
    <2> QED
      BY <2>1, <2>2 DEF ReadOn
  <1>29. CASE PutUnref(p)
    <2>1. \A j \in Inodes : j # victim[p] => ref'[j] = ref[j] /\ valid'[j] = valid[j]
      BY <1>29, Domains DEF PutUnref, Unref
    <2>2. pc'[p] = "ifree" /\ victim'[p] = victim[p] /\ nlink[victim[p]] = 0
      BY <1>29, Domains DEF PutUnref, FreeInv, Goto, putVars
    <2> QED
      BY <2>1, <2>2 DEF ReadOn
  <1>30. CASE ifree(p)
    <2>1. \A j \in Inodes : ref'[j] = ref[j] \/ ref'[j] = ref[j] + 1
      BY <1>30, Domains DEF ifree, Return, Goto, tableVars, fileVars, callVars
    <2>2. \A j \in Inodes : valid[j] /\ ref[j] > 0 => valid'[j]
      BY <1>30, Domains DEF ifree, Return, Goto, tableVars, fileVars, callVars
    <2> QED
      BY <2>1, <2>2, RefInt DEF ReadOn
  <1>31. CASE end_op(p)
    <2>1. \A j \in Inodes : ref'[j] = ref[j] \/ ref'[j] = ref[j] + 1
      BY <1>31, Domains DEF end_op, commit, Goto, inodeVars, tableVars, fileVars, putVars
    <2>2. \A j \in Inodes : valid[j] /\ ref[j] > 0 => valid'[j]
      BY <1>31, Domains DEF end_op, commit, Goto, inodeVars, tableVars, fileVars, putVars
    <2> QED
      BY <2>1, <2>2, RefInt DEF ReadOn
  <1>32. CASE Reclaim(p)
    <2>1. \A j \in Inodes : ref'[j] = ref[j] \/ ref'[j] = ref[j] + 1
      BY <1>32, Domains DEF Reclaim, CallPut, Goto, Orphan, inodeVars, fileVars, putVars
    <2>2. \A j \in Inodes : valid[j] /\ ref[j] > 0 => valid'[j]
      BY <1>32, Domains DEF Reclaim, CallPut, Goto, Orphan, inodeVars, fileVars, putVars
    <2> QED
      BY <2>1, <2>2, RefInt DEF ReadOn
  <1> QED
    BY <1>1, <1>2, <1>3, <1>4, <1>5, <1>6, <1>7, <1>8, <1>9, <1>10, <1>11, <1>12, <1>13, <1>14,
       <1>15, <1>16, <1>17, <1>18, <1>19, <1>20, <1>21, <1>22, <1>23, <1>24, <1>25, <1>26, <1>27,
       <1>28, <1>29, <1>30, <1>31, <1>32 DEF Step

-----------------------------------------------------------------------------
(* What calls know, after each step *)

LEMMA StillHeld ==
    ASSUME RefInv', NEW q \in Procs, NEW i \in Inodes, ip'[q] = i
    PROVE  ref'[i] > 0
  <1>1. \A f : Num(f, i) \in Nat /\ (f[q] = i => Num(f, i) > 0)
    BY NumNat, NumPos
  <1>2. ref'[i] = Num(cwd', i) + Num(ofile', i) + Num(cur', i) + Num(ip', i) + Num(Victim', i)
    BY DEF RefInv
  <1>3. /\ Num(cwd', i) \in Nat /\ Num(ofile', i) \in Nat /\ Num(cur', i) \in Nat
        /\ Num(Victim', i) \in Nat /\ Num(ip', i) \in Nat /\ Num(ip', i) > 0
    BY <1>1
  <1> QED
    BY <1>2, <1>3

\* a link that a call owes keeps the inode in memory
LEMMA StillRead ==
    ASSUME Types, RefInv, TreeInv, NodeInv, RefInv', NEW p \in Procs, NEW q \in Procs,
           \A j \in Inodes : ReadOn(p, j), Owes(q), ip[q] # 0, ip'[q] = ip[q]
    PROVE  valid'[ip[q]]
  <1>1. ip[q] \in Inodes
    BY DEF Types
  <1>2. ref[ip[q]] > 0 /\ type[ip[q]] # "free" /\ valid[ip[q]]
    BY <1>1, Holds DEF NodeInv, NodeOf
  <1>3. Owed[q] = ip[q]
    BY DEF Owed
  <1>4. nlink[ip[q]] > 0 /\ nlink[ip[q]] \in Int
    BY <1>1, <1>2, <1>3, OwedPos DEF Types
  <1>5. ref'[ip[q]] > 0
    BY <1>1, StillHeld
  <1> QED
    BY <1>1, <1>2, <1>4, <1>5 DEF ReadOn

LEMMA NodeKept ==
    ASSUME Types, CallInv, RefInv, LockInv, TreeInv, NodeInv, RefInv', NEW p \in Procs, NEW q \in Procs,
           \A j \in Inodes : Lasting(p, j), \A j \in Inodes : ReadOn(p, j),
           Place(q)' = Place(q), cur'[q] = cur[q], ip'[q] = ip[q], op'[q] = op[q],
           IF q = p THEN Place(p) # "unlink" ELSE Name(q)' = Name(q)
    PROVE  NodeOf(q)'
  <1>1. NodeOf(q) /\ CallOf(q) /\ cur[q] \in Inodes \cup {0} /\ ip[q] \in Inodes \cup {0}
    BY DEF NodeInv, CallInv, Types
  <1>2. cur[q] # 0 => cur[q] \in Inodes /\ type[cur[q]] # "free" /\ type'[cur[q]] = type[cur[q]]
    BY <1>1, Holds DEF Lasting
  <1>3. ip[q] # 0 => ip[q] \in Inodes /\ type[ip[q]] # "free" /\ type'[ip[q]] = type[ip[q]]
    BY <1>1, Holds DEF Lasting
  <1>4. Place(q) \in {"parent", "unlink", "failed"} => type'[cur[q]] = "dir"
    BY <1>1, <1>2 DEF NodeOf, CallOf
  <1>5. ASSUME Place(q) = "unlink"
        PROVE  Name(q)' \in Names /\ ents'[cur[q]][Name(q)'] = ip[q]
    <2>1. q # p /\ Name(q)' = Name(q) /\ cur[q] # 0 /\ ip[q] # 0
      BY <1>1, <1>5 DEF CallOf
    <2>2. lock[cur[q]] = q /\ lock[cur[q]] # 0
      <3>1. Holder(q, cur[q])
        BY <1>5 DEF Holder
      <3> QED
        BY <1>2, <2>1, <3>1, Consts DEF LockInv
    <2>3. Name(q) \in Names /\ Name(q) \in Elems /\ ents[cur[q]][Name(q)] = ip[q]
      BY <1>1, <1>5, Consts DEF NodeOf
    <2> QED
      BY <1>2, <2>1, <2>2, <2>3 DEF Lasting
  <1>6. ASSUME Place(q) = "unlinked", type'[ip[q]] = "dir"
        PROVE  \A n \in Names : ents'[ip[q]][n] = 0
    <2>1. ip[q] # 0 /\ ip[q] \in Inodes /\ type[ip[q]] = "dir"
      BY <1>1, <1>3, <1>6 DEF CallOf
    <2>2. lock[ip[q]] = q /\ lock[ip[q]] # 0
      <3>1. Holder(q, ip[q])
        BY <1>6 DEF Holder
      <3>2. lock[ip[q]] = q
        BY <2>1, <3>1 DEF LockInv
      <3> QED
        BY <3>2, Consts
    <2>3. \A n \in Names : n \in Elems /\ ents[ip[q]][n] = 0
      BY <1>1, <1>6, <2>1, Consts DEF NodeOf, isdirempty
    <2> QED
      BY <1>3, <2>1, <2>2, <2>3 DEF Lasting
  <1>7. op[q] = "link" /\ ip[q] # 0 => type'[ip[q]] # "dir"
    BY <1>1, <1>3 DEF NodeOf
  <1>8. Owes(q) /\ ip[q] # 0 => valid'[ip[q]]
    BY StillRead
  <1>9. Owes(q)' <=> Owes(q)
    BY DEF Owes
  <1> QED
    BY <1>4, <1>5, <1>6, <1>7, <1>8, <1>9 DEF NodeOf, isdirempty

LEMMA NodeClear ==
    ASSUME NEW p \in Procs, Place(p)' \notin {"parent", "unlink", "failed", "unlinked"},
           op'[p] = "link" => ip'[p] = 0
    PROVE  NodeOf(p)'
  BY DEF NodeOf, Owes

LEMMA NodeLink ==
    ASSUME Types, RefInv, TreeInv, NodeInv, RefInv', NEW p \in Procs,
           \A j \in Inodes : Lasting(p, j), \A j \in Inodes : ReadOn(p, j),
           op'[p] = op[p], ip'[p] = ip[p], Place(p) \in {"walk", "parent"},
           Place(p)' \notin {"unlink", "failed", "unlinked"},
           Place(p)' = "parent" => type'[cur'[p]] = "dir"
    PROVE  NodeOf(p)'
  <1>1. NodeOf(p) /\ ip[p] \in Inodes \cup {0}
    BY DEF NodeInv, Types
  <1>2. op[p] = "link" /\ ip[p] # 0 => type'[ip[p]] # "dir"
    BY <1>1, Holds DEF NodeOf, Lasting
  <1>3. Owes(p)' => Owes(p)
    BY DEF Owes
  <1>4. Owes(p) /\ ip[p] # 0 => valid'[ip[p]]
    BY StillRead
  <1> QED
    BY <1>2, <1>3, <1>4 DEF NodeOf

LEMMA NodeOfStep ==
    ASSUME NEW p \in Procs, Types, CallInv, RefInv, LockInv, FreeInv, TreeInv, NodeInv, RefInv',
           \A j \in Inodes : Lasting(p, j), \A j \in Inodes : ReadOn(p, j), Step(p)
    PROVE  NodeOf(p)'
  <1>1. ASSUME NEW o \in work.ops[p], NEW q \in work.paths, Begin(p, o, q)
        PROVE  NodeOf(p)'
    <2>1. pc[p] = "idle" /\ CallOf(p)
      BY <1>1, Refs DEF Begin, iget, Goto, StartOf
    <2>2. Place(p)' \notin {"parent", "unlink", "failed", "unlinked"}
      BY <1>1, <2>1, Domains DEF Place, Putting, Begin, iget, Goto, StartOf, inodeVars, fileVars, putVars
    <2>3. op'[p] = "link" => ip'[p] = 0
      BY <1>1, <2>1, Work, Domains
        DEF CallOf, Place, Putting, Returns, Calls, Creates, Begin, iget, Goto, StartOf, inodeVars, fileVars,
            putVars
    <2> QED
      BY <2>2, <2>3, NodeClear
  <1>2. CASE WalkEnds(p)
    <2>1. pc[p] = "walk" /\ Place(p) \in {"walk", "parent"}
      BY <1>2 DEF WalkEnds, Place, Putting
    <2>2. UNCHANGED <<op, ip>> /\ Place(p)' \in {"bad", "end", "walk", "found", "second"}
      BY <1>2, <2>1, Domains DEF Place, Putting, WalkEnds, GiveUp, PutCur, CallPut, Goto, inodeVars, fileVars
    <2> QED
      BY <2>1, <2>2, NodeLink
  <1>3. CASE WalkParent(p)
    <2>1. pc[p] = "walk" /\ Place(p) \in {"walk", "parent"} /\ type[cur[p]] = "dir"
      BY <1>3 DEF WalkParent, NotDir, Place, Putting
    <2>2. UNCHANGED <<type, op, ip, cur>> /\ Place(p)' = "parent"
      BY <1>3, <2>1, Domains
        DEF Place, Putting, WalkParent, Goto, NotDir, WantsParent, inodeVars, fileVars, callVars, putVars
    <2> QED
      BY <2>1, <2>2, NodeLink
  <1>4. CASE WalkDown(p)
    <2>1. pc[p] = "walk" /\ Place(p) \in {"walk", "parent"}
      BY <1>4 DEF WalkDown, Place, Putting
    <2>2. UNCHANGED <<op, ip>> /\ Place(p)' \in {"bad", "end", "walk", "found", "second"}
      BY <1>4, <2>1, Domains
        DEF Place, Putting, WalkDown, CallPut, Goto, NotDir, WantsParent, inodeVars, fileVars
    <2> QED
      BY <2>1, <2>2, NodeLink
  <1>5. CASE sys_open(p)
    <2>1. pc[p] = "found" /\ CallOf(p)
      BY <1>5, Refs DEF sys_open, Found, Goto
    <2>2. Place(p)' \notin {"parent", "unlink", "failed", "unlinked"}
      BY <1>5, <2>1, Domains DEF Place, Putting, sys_open, Found, Goto, inodeVars, putVars
    <2>3. op'[p] = "link" => ip'[p] = 0
      BY <1>5, <2>1, Work, Domains
        DEF CallOf, Place, Putting, Returns, Calls, Creates, sys_open, Found, Goto, inodeVars, putVars
    <2> QED
      BY <2>2, <2>3, NodeClear
  <1>6. CASE sys_chdir(p)
    <2>1. pc[p] = "found" /\ CallOf(p)
      BY <1>6, Refs DEF sys_chdir, Found, CallPut, Goto
    <2>2. Place(p)' \notin {"parent", "unlink", "failed", "unlinked"}
      BY <1>6, <2>1, Domains DEF Place, Putting, sys_chdir, Found, CallPut, Goto, inodeVars
    <2>3. op'[p] = "link" => ip'[p] = 0
      BY <1>6, <2>1, Work, Domains
        DEF CallOf, Place, Putting, Returns, Calls, Creates, sys_chdir, Found, CallPut, Goto, inodeVars
    <2> QED
      BY <2>2, <2>3, NodeClear
  <1>7. CASE LinkDir(p)
    <2>1. pc[p] = "found" /\ CallOf(p)
      BY <1>7, Refs DEF LinkDir, Found, PutCur, CallPut, Goto
    <2>2. Place(p)' \notin {"parent", "unlink", "failed", "unlinked"}
      BY <1>7, <2>1, Domains DEF Place, Putting, LinkDir, Found, PutCur, CallPut, Goto, inodeVars, fileVars
    <2>3. op'[p] = "link" => ip'[p] = 0
      BY <1>7, <2>1, Work, Domains
        DEF CallOf, Place, Putting, Returns, Calls, Creates, LinkDir, Found, PutCur, CallPut, Goto, inodeVars,
            fileVars
    <2> QED
      BY <2>2, <2>3, NodeClear
  <1>8. CASE LinkFails(p)
    <2>1. pc[p] = "parent" /\ Place(p) \in {"walk", "parent"}
      BY <1>8 DEF LinkFails, Parent, Place, Putting
    <2>2. UNCHANGED <<op, ip>> /\ Place(p)' \in {"bad", "end", "walk", "found", "second"}
      BY <1>8, <2>1, Domains
        DEF Place, Putting, LinkFails, Parent, PutCur, CallPut, Goto, inodeVars, tableVars, fileVars
    <2> QED
      BY <2>1, <2>2, NodeLink
  <1>9. CASE LinkNew(p)
    <2>1. pc[p] = "parent" /\ Place(p) \in {"walk", "parent"}
      BY <1>9 DEF LinkNew, Parent, Place, Putting
    <2>2. UNCHANGED <<op, ip>> /\ Place(p)' \in {"bad", "end", "walk", "found", "second"}
      BY <1>9, <2>1, Domains
        DEF Place, Putting, LinkNew, Parent, Taken, PutCur, CallPut, Goto, tableVars, fileVars
    <2> QED
      BY <2>1, <2>2, NodeLink
  <1>10. CASE LinkDone(p)
    <2>1. pc[p] = "second" /\ CallOf(p)
      BY <1>10, Refs DEF LinkDone, PutIp, CallPut, Goto
    <2>2. Place(p)' \notin {"parent", "unlink", "failed", "unlinked"}
      BY <1>10, <2>1, Domains
        DEF Place, Putting, LinkDone, PutIp, CallPut, Goto, inodeVars, tableVars, fileVars
    <2>3. op'[p] = "link" => ip'[p] = 0
      BY <1>10, <2>1, Work, Domains
        DEF CallOf, Place, Putting, Returns, Calls, Creates, LinkDone, PutIp, CallPut, Goto, inodeVars,
            tableVars, fileVars
    <2> QED
      BY <2>2, <2>3, NodeClear
  <1>11. CASE LinkBad(p)
    <2>1. pc[p] = "bad" /\ CallOf(p)
      BY <1>11, Refs DEF LinkBad, PutIp, CallPut, Goto
    <2>2. Place(p)' \notin {"parent", "unlink", "failed", "unlinked"}
      BY <1>11, <2>1, Domains DEF Place, Putting, LinkBad, PutIp, CallPut, Goto, tableVars, fileVars
    <2>3. op'[p] = "link" => ip'[p] = 0
      BY <1>11, <2>1, Work, Domains
        DEF CallOf, Place, Putting, Returns, Calls, Creates, LinkBad, PutIp, CallPut, Goto, tableVars,
            fileVars
    <2> QED
      BY <2>2, <2>3, NodeClear
  <1>12. ASSUME NEW q \in work.paths, LinkOld(p, q)
         PROVE  NodeOf(p)'
    <2>1. pc[p] = "found" /\ cur[p] \in Inodes /\ type[cur[p]] # "dir"
      BY <1>12, Refs DEF LinkOld, SecondWalk, Found
    <2>2. UNCHANGED type /\ ip'[p] = cur[p] /\ valid'[cur[p]] /\ Place(p)' = "walk"
      BY <1>12, <2>1, Domains DEF LinkOld, SecondWalk, Goto, Place, Putting
    <2> QED
      BY <2>1, <2>2 DEF NodeOf
  <1>13. CASE UnlinkNone(p)
    <2>1. pc[p] = "parent" /\ CallOf(p)
      BY <1>13, Refs DEF UnlinkNone, Parent, PutCur, CallPut, Goto
    <2>2. Place(p)' \notin {"parent", "unlink", "failed", "unlinked"}
      BY <1>13, <2>1, Domains
        DEF Place, Putting, UnlinkNone, Parent, PutCur, CallPut, Goto, inodeVars, tableVars, fileVars
    <2>3. op'[p] = "link" => ip'[p] = 0
      BY <1>13, <2>1, Work, Domains
        DEF CallOf, Place, Putting, Returns, Calls, Creates, UnlinkNone, Parent, PutCur, CallPut, Goto,
            inodeVars, tableVars, fileVars
    <2> QED
      BY <2>2, <2>3, NodeClear
  <1>14. CASE UnlinkEntry(p)
    <2>1. pc[p] = "parent" /\ op[p] = "unlink" /\ Name(p) # ".." /\ Name(p) \in Elems
      BY <1>14, Refs, Heads DEF UnlinkEntry, Parent, Name
    <2>2. type[cur[p]] = "dir"
      BY <2>1 DEF NodeInv, NodeOf, Place, Putting
    <2>3. UNCHANGED <<type, ents, cur, op, path>> /\ Place(p)' = "unlink" /\ ip'[p] = ents[cur[p]][Name(p)]
      BY <1>14, Domains
        DEF Place, Putting, UnlinkEntry, Parent, Taken, iget, Goto, inodeVars, fileVars, putVars
    <2>4. Name(p)' = Name(p) /\ Name(p) \in Names
      BY <2>1, <2>3 DEF Name, Elems
    <2> QED
      BY <2>1, <2>2, <2>3, <2>4 DEF NodeOf, Owes
  <1>15. CASE UnlinkFull(p)
    <2>1. pc[p] = "unlink" /\ type[cur[p]] = "dir"
      BY <1>15 DEF UnlinkFull, NodeInv, NodeOf, Place, Putting
    <2>2. UNCHANGED <<type, cur>> /\ Place(p)' = "failed" /\ ip'[p] = 0
      BY <1>15, Domains DEF Place, Putting, UnlinkFull, PutIp, CallPut, Goto, inodeVars, fileVars
    <2> QED
      BY <2>1, <2>2 DEF NodeOf
  <1>16. CASE UnlinkOk(p)
    <2>1. /\ pc[p] = "unlink" /\ op[p] = "unlink" /\ lock[ip[p]] = 0 /\ cur[p] \in Inodes /\ ip[p] \in Inodes
          /\ Place(p) = "unlink" /\ (type[ip[p]] = "dir" => isdirempty(ip[p]))
      BY <1>16, Refs DEF UnlinkOk, Erase, ilocked, CallOf, Place, Putting
    <2>2. cur[p] # ip[p]
      BY <2>1, Consts DEF LockInv, Holder
    <2>3. /\ UNCHANGED <<type, op, ip>> /\ Place(p)' = "unlinked" /\ valid'[ip[p]]
          /\ ents'[ip[p]] = ents[ip[p]]
      BY <1>16, <2>1, <2>2, Domains DEF UnlinkOk, Erase, PutCur, CallPut, Goto, Place, Putting
    <2> QED
      BY <2>1, <2>3 DEF NodeOf, isdirempty
  <1>17. CASE UnlinkDone(p)
    <2>1. pc[p] = "unlinked" /\ CallOf(p)
      BY <1>17, Refs DEF UnlinkDone, PutIp, CallPut, Goto
    <2>2. Place(p)' \notin {"parent", "unlink", "failed", "unlinked"}
      BY <1>17, <2>1, Domains DEF Place, Putting, UnlinkDone, PutIp, CallPut, Goto, fileVars
    <2>3. op'[p] = "link" => ip'[p] = 0
      BY <1>17, <2>1, Work, Domains
        DEF CallOf, Place, Putting, Returns, Calls, Creates, UnlinkDone, PutIp, CallPut, Goto, fileVars
    <2> QED
      BY <2>2, <2>3, NodeClear
  <1>18. CASE CreateNone(p)
    <2>1. pc[p] = "parent" /\ CallOf(p)
      BY <1>18, Refs DEF CreateNone, Parent, PutCur, CallPut, Goto
    <2>2. Place(p)' \notin {"parent", "unlink", "failed", "unlinked"}
      BY <1>18, <2>1, Domains
        DEF Place, Putting, CreateNone, Parent, PutCur, CallPut, Goto, inodeVars, tableVars, fileVars
    <2>3. op'[p] = "link" => ip'[p] = 0
      BY <1>18, <2>1, Work, Domains
        DEF CallOf, Place, Putting, Returns, Calls, Creates, CreateNone, Parent, PutCur, CallPut, Goto,
            inodeVars, tableVars, fileVars
    <2> QED
      BY <2>2, <2>3, NodeClear
  <1>19. CASE CreateTaken(p)
    <2>1. pc[p] = "parent" /\ CallOf(p)
      BY <1>19, Refs DEF CreateTaken, Parent, Taken, iget, PutCur, CallPut, Goto
    <2>2. Place(p)' \notin {"parent", "unlink", "failed", "unlinked"}
      BY <1>19, <2>1, Domains
        DEF Place, Putting, CreateTaken, Parent, Taken, iget, PutCur, CallPut, Goto, inodeVars, fileVars
    <2>3. op'[p] = "link" => ip'[p] = 0
      BY <1>19, <2>1, Work, Domains
        DEF CallOf, Place, Putting, Returns, Calls, Creates, CreateTaken, Parent, Taken, iget, PutCur,
            CallPut, Goto, inodeVars, fileVars
    <2> QED
      BY <2>2, <2>3, NodeClear
  <1>20. CASE CreateExisting(p)
    <2>1. pc[p] = "existing" /\ CallOf(p)
      BY <1>20, Refs DEF CreateExisting, OpenIp, PutIp, CallPut, Goto
    <2>2. Place(p)' \notin {"parent", "unlink", "failed", "unlinked"}
      BY <1>20, <2>1, Domains
        DEF Place, Putting, CreateExisting, OpenIp, PutIp, CallPut, Goto, inodeVars, fileVars, putVars
    <2>3. op'[p] = "link" => ip'[p] = 0
      BY <1>20, <2>1, Work, Domains
        DEF CallOf, Place, Putting, Returns, Calls, Creates, CreateExisting, OpenIp, PutIp, CallPut, Goto,
            inodeVars, fileVars, putVars
    <2> QED
      BY <2>2, <2>3, NodeClear
  <1>21. CASE CreateDone(p)
    <2>1. pc[p] = "created" /\ CallOf(p)
      BY <1>21, Refs DEF CreateDone, OpenIp, PutIp, CallPut, Goto
    <2>2. Place(p)' \notin {"parent", "unlink", "failed", "unlinked"}
      BY <1>21, <2>1, Domains
        DEF Place, Putting, CreateDone, OpenIp, PutIp, CallPut, Goto, inodeVars, fileVars, putVars
    <2>3. op'[p] = "link" => ip'[p] = 0
      BY <1>21, <2>1, Work, Domains
        DEF CallOf, Place, Putting, Returns, Calls, Creates, CreateDone, OpenIp, PutIp, CallPut, Goto,
            inodeVars, fileVars, putVars
    <2> QED
      BY <2>2, <2>3, NodeClear
  <1>22. ASSUME NEW i \in Free, CreateAt(p, i)
         PROVE  NodeOf(p)'
    <2>1. pc[p] = "parent" /\ CallOf(p)
      BY <1>22, Refs
        DEF CreateAt, NewInode, DotDot, NoEnts, Free, Parent, Taken, PutCur, CallPut, Goto
    <2>2. Place(p)' \notin {"parent", "unlink", "failed", "unlinked"}
      BY <1>22, <2>1, Domains
        DEF Place, Putting, CreateAt, NewInode, DotDot, NoEnts, Free, Parent, Taken, PutCur, CallPut, Goto,
            fileVars
    <2>3. op'[p] = "link" => ip'[p] = 0
      BY <1>22, <2>1, Work, Domains
        DEF CallOf, Place, Putting, Returns, Calls, Creates, CreateAt, NewInode, DotDot, NoEnts, Free, Parent,
            Taken, PutCur, CallPut, Goto, fileVars
    <2> QED
      BY <2>2, <2>3, NodeClear
  <1>23. ASSUME NEW i \in Free, FailAt(p, i)
         PROVE  NodeOf(p)'
    <2>1. /\ pc[p] = "parent" /\ op[p] \in Creates /\ type[i] = "free"
      BY <1>23 DEF FailAt, NewInode, Parent, Free
    <2>2. type[cur[p]] = "dir"
      BY <2>1 DEF NodeInv, NodeOf, Place, Putting
    <2>3. /\ UNCHANGED <<op, cur>> /\ Place(p)' = "failed" /\ type'[cur[p]] = type[cur[p]]
      BY <1>23, <2>1, <2>2, Domains
        DEF Place, Putting, FailAt, NewInode, DotDot, NoEnts, Free, Parent, Taken, CallPut, Goto, fileVars
    <2> QED
      BY <2>1, <2>2, <2>3 DEF NodeOf, Owes, Creates
  <1>24. CASE FailedDone(p)
    <2>1. pc[p] = "failed" /\ CallOf(p)
      BY <1>24, Refs DEF FailedDone, PutCur, CallPut, Goto
    <2>2. Place(p)' \notin {"parent", "unlink", "failed", "unlinked"}
      BY <1>24, <2>1, Domains DEF Place, Putting, FailedDone, PutCur, CallPut, Goto, inodeVars, fileVars
    <2>3. op'[p] = "link" => ip'[p] = 0
      BY <1>24, <2>1, Work, Domains
        DEF CallOf, Place, Putting, Returns, Calls, Creates, FailedDone, PutCur, CallPut, Goto, inodeVars,
            fileVars
    <2> QED
      BY <2>2, <2>3, NodeClear
  <1>25. CASE fileclose(p)
    <2>1. pc[p] = "idle" /\ CallOf(p)
      BY <1>25, Refs DEF fileclose, CallPut, Goto
    <2>2. Place(p)' \notin {"parent", "unlink", "failed", "unlinked"}
      BY <1>25, <2>1, Domains DEF Place, Putting, fileclose, CallPut, Goto, inodeVars, tableVars
    <2>3. op'[p] = "link" => ip'[p] = 0
      BY <1>25, <2>1, Work, Domains
        DEF CallOf, Place, Putting, Returns, Calls, Creates, fileclose, CallPut, Goto, inodeVars, tableVars
    <2> QED
      BY <2>2, <2>3, NodeClear
  <1>26. CASE PutRef(p)
    <2>1. pc[p] = "put" /\ ret[p] \in Returns
      BY <1>26, Refs DEF PutRef, Putting
    <2>2. Place(p)' = Place(p) /\ UNCHANGED <<cur, ip, op>> /\ Place(p) # "unlink"
      BY <1>26, <2>1, Domains
        DEF Place, Putting, Returns, PutRef, Unref, Return, Last, Goto, inodeVars, fileVars, callVars
    <2> QED
      BY <2>2, NodeKept
  <1>27. CASE PutLast(p)
    <2>1. pc[p] = "put" /\ ret[p] \in Returns
      BY <1>27, Refs DEF PutLast, Putting
    <2>2. Place(p)' = Place(p) /\ UNCHANGED <<cur, ip, op>> /\ Place(p) # "unlink"
      BY <1>27, <2>1, Domains
        DEF Place, Putting, Returns, PutLast, Last, Goto, inodeVars, fileVars, callVars, putVars
    <2> QED
      BY <2>2, NodeKept
  <1>28. CASE Trunc(p)
    <2>1. pc[p] = "trunc" /\ ret[p] \in Returns
      BY <1>28, Refs DEF Trunc, Putting
    <2>2. Place(p)' = Place(p) /\ UNCHANGED <<cur, ip, op>> /\ Place(p) # "unlink"
      BY <1>28, <2>1, Domains DEF Place, Putting, Returns, Trunc, NoEnts, Goto, fileVars, callVars, putVars
    <2> QED
      BY <2>2, NodeKept
  <1>29. CASE PutUnref(p)
    <2>1. pc[p] = "unref" /\ ret[p] \in Returns
      BY <1>29, Refs DEF PutUnref, Putting
    <2>2. Place(p)' = Place(p) /\ UNCHANGED <<cur, ip, op>> /\ Place(p) # "unlink"
      BY <1>29, <2>1, Domains
        DEF Place, Putting, Returns, PutUnref, Unref, Goto, inodeVars, fileVars, callVars, putVars
    <2> QED
      BY <2>2, NodeKept
  <1>30. CASE ifree(p)
    <2>1. pc[p] = "ifree" /\ ret[p] \in Returns
      BY <1>30, Refs DEF ifree, Putting
    <2>2. Place(p)' = Place(p) /\ UNCHANGED <<cur, ip, op>> /\ Place(p) # "unlink"
      BY <1>30, <2>1, Domains DEF Place, Putting, Returns, ifree, Return, Goto, tableVars, fileVars, callVars
    <2> QED
      BY <2>2, NodeKept
  <1>31. CASE end_op(p)
    <2>1. pc[p] = "end" /\ CallOf(p)
      BY <1>31, Refs DEF end_op, commit, Goto
    <2>2. Place(p)' \notin {"parent", "unlink", "failed", "unlinked"}
      BY <1>31, <2>1, Domains
        DEF Place, Putting, end_op, commit, Goto, inodeVars, tableVars, fileVars, putVars
    <2>3. op'[p] = "link" => ip'[p] = 0
      BY <1>31, <2>1, Work, Domains
        DEF CallOf, Place, Putting, Returns, Calls, Creates, end_op, commit, Goto, inodeVars, tableVars,
            fileVars, putVars
    <2> QED
      BY <2>2, <2>3, NodeClear
  <1>32. CASE Reclaim(p)
    <2>1. pc[p] = "reclaim" /\ CallOf(p)
      BY <1>32, Refs DEF Reclaim, CallPut, Goto, Orphan
    <2>2. Place(p)' \notin {"parent", "unlink", "failed", "unlinked"}
      BY <1>32, <2>1, Domains DEF Place, Putting, Reclaim, CallPut, Goto, Orphan, inodeVars, fileVars, putVars
    <2>3. op'[p] = "link" => ip'[p] = 0
      BY <1>32, <2>1, Work, Domains
        DEF CallOf, Place, Putting, Returns, Calls, Creates, Reclaim, CallPut, Goto, Orphan, inodeVars,
            fileVars, putVars
    <2> QED
      BY <2>2, <2>3, NodeClear
  <1> QED
    BY <1>1, <1>2, <1>3, <1>4, <1>5, <1>6, <1>7, <1>8, <1>9, <1>10, <1>11, <1>12, <1>13, <1>14,
       <1>15, <1>16, <1>17, <1>18, <1>19, <1>20, <1>21, <1>22, <1>23, <1>24, <1>25, <1>26, <1>27,
       <1>28, <1>29, <1>30, <1>31, <1>32 DEF Step

LEMMA NodeStep ==
    ASSUME NEW p \in Procs, Types, CallInv, RefInv, LockInv, FreeInv, TreeInv, NodeInv,
           RefInv', Step(p)
    PROVE  NodeInv'
  <1>1. Frame(p) /\ (\A j \in Inodes : Lasting(p, j)) /\ (\A j \in Inodes : ReadOn(p, j))
    BY FrameStep, LastingStep, ReadStep
  <1>2. NodeOf(p)'
    BY <1>1, NodeOfStep
  <1>3. ASSUME NEW q \in Procs \ {p}
        PROVE  NodeOf(q)'
    <2>1. /\ Place(q)' = Place(q) /\ cur'[q] = cur[q] /\ ip'[q] = ip[q] /\ op'[q] = op[q]
          /\ Name(q)' = Name(q)
      BY <1>1, FramePlace DEF Frame
    <2> QED
      BY <1>1, <2>1, NodeKept
  <1> QED
    BY <1>2, <1>3 DEF NodeInv

-----------------------------------------------------------------------------
(* Orphans, after each step *)

LEMMA RefNat ==
    ASSUME RefInv, NEW i \in Inodes
    PROVE  ref[i] \in Nat
  <1>1. \A f : Num(f, i) \in Nat
    BY NumNat
  <1> QED
    BY <1>1 DEF RefInv

\* an inode that loses its last link, or is to be reclaimed, is in use and has
\* been read; one that is being freed stays so
OrphanMoves(p, j) ==
    Orphan(j)' =>
        /\ Orphan(j) \/ (ref'[j] > 0 /\ valid'[j])
        /\ fresh <= j => fresh' <= j \/ (ref'[j] > 0 /\ valid'[j])
        /\ pc[p] \in {"unref", "ifree"} /\ victim[p] = j => pc'[p] \in {"unref", "ifree"} /\ victim'[p] = j

LEMMA OrphanMovesStep ==
    ASSUME NEW p \in Procs, Types, CallInv, RefInv, LockInv, FreeInv, TreeInv, NodeInv, Step(p)
    PROVE  \A j \in Inodes : OrphanMoves(p, j)
  <1>1. ASSUME NEW o \in work.ops[p], NEW q \in work.paths, Begin(p, o, q)
        PROVE  \A j \in Inodes : OrphanMoves(p, j)
    <2>1. pc[p] = "idle" /\ UNCHANGED <<type, nlink, fresh>>
      BY <1>1 DEF Begin, iget, Goto, StartOf, inodeVars
    <2> QED
      BY <2>1 DEF OrphanMoves, Orphan
  <1>2. CASE WalkEnds(p)
    <2>1. pc[p] = "walk" /\ UNCHANGED <<type, nlink, fresh>>
      BY <1>2 DEF WalkEnds, GiveUp, PutCur, CallPut, Goto, inodeVars
    <2> QED
      BY <2>1 DEF OrphanMoves, Orphan
  <1>3. CASE WalkParent(p)
    <2>1. pc[p] = "walk" /\ UNCHANGED <<type, nlink, fresh>>
      BY <1>3 DEF WalkParent, Goto, NotDir, WantsParent, inodeVars
    <2> QED
      BY <2>1 DEF OrphanMoves, Orphan
  <1>4. CASE WalkDown(p)
    <2>1. pc[p] = "walk" /\ UNCHANGED <<type, nlink, fresh>>
      BY <1>4 DEF WalkDown, CallPut, Goto, NotDir, WantsParent, inodeVars
    <2> QED
      BY <2>1 DEF OrphanMoves, Orphan
  <1>5. CASE sys_open(p)
    <2>1. pc[p] = "found" /\ UNCHANGED <<type, nlink, fresh>>
      BY <1>5 DEF sys_open, Found, Goto, inodeVars
    <2> QED
      BY <2>1 DEF OrphanMoves, Orphan
  <1>6. CASE sys_chdir(p)
    <2>1. pc[p] = "found" /\ UNCHANGED <<type, nlink, fresh>>
      BY <1>6 DEF sys_chdir, Found, CallPut, Goto, inodeVars
    <2> QED
      BY <2>1 DEF OrphanMoves, Orphan
  <1>7. CASE LinkDir(p)
    <2>1. pc[p] = "found" /\ UNCHANGED <<type, nlink, fresh>>
      BY <1>7 DEF LinkDir, Found, PutCur, CallPut, Goto, inodeVars
    <2> QED
      BY <2>1 DEF OrphanMoves, Orphan
  <1>8. CASE LinkFails(p)
    <2>1. pc[p] = "parent" /\ UNCHANGED <<type, nlink, fresh>>
      BY <1>8 DEF LinkFails, Parent, PutCur, CallPut, Goto, inodeVars
    <2> QED
      BY <2>1 DEF OrphanMoves, Orphan
  <1>9. CASE LinkNew(p)
    <2>1. pc[p] = "parent" /\ UNCHANGED <<type, nlink, fresh>>
      BY <1>9 DEF LinkNew, Parent, Taken, PutCur, CallPut, Goto
    <2> QED
      BY <2>1 DEF OrphanMoves, Orphan
  <1>10. CASE LinkDone(p)
    <2>1. pc[p] = "second" /\ UNCHANGED <<type, nlink, fresh>>
      BY <1>10 DEF LinkDone, PutIp, CallPut, Goto, inodeVars
    <2> QED
      BY <2>1 DEF OrphanMoves, Orphan
  <1>11. CASE LinkBad(p)
    <2>1. pc[p] = "bad" /\ UNCHANGED <<type, fresh, ref, valid>> /\ ip[p] \in Inodes /\ Owes(p)
      BY <1>11, Refs DEF LinkBad, tableVars, CallOf, Owes, Place, Putting
    <2>2. \A j \in Inodes : j # ip[p] => nlink'[j] = nlink[j]
      BY <1>11, <2>1, Domains DEF LinkBad
    <2>3. ref[ip[p]] > 0
      BY <2>1, Holds
    <2>4. valid[ip[p]]
      BY <2>1, Consts DEF NodeInv, NodeOf
    <2> QED
      BY <2>1, <2>2, <2>3, <2>4 DEF OrphanMoves, Orphan
  <1>12. ASSUME NEW q \in work.paths, LinkOld(p, q)
         PROVE  \A j \in Inodes : OrphanMoves(p, j)
    <2>1. pc[p] = "found" /\ UNCHANGED <<type, fresh>> /\ cur[p] \in Inodes
      BY <1>12, Refs DEF LinkOld, SecondWalk, Found
    <2>2. nlink'[cur[p]] = nlink[cur[p]] + 1 /\ \A j \in Inodes : j # cur[p] => nlink'[j] = nlink[j]
      BY <1>12, <2>1, Domains DEF LinkOld
    <2>3. nlink[cur[p]] \in Int /\ nlink[cur[p]] >= 0
      BY <2>1 DEF Types, TreeInv
    <2> QED
      BY <2>1, <2>2, <2>3 DEF OrphanMoves, Orphan
  <1>13. CASE UnlinkNone(p)
    <2>1. pc[p] = "parent" /\ UNCHANGED <<type, nlink, fresh>>
      BY <1>13 DEF UnlinkNone, Parent, PutCur, CallPut, Goto, inodeVars
    <2> QED
      BY <2>1 DEF OrphanMoves, Orphan
  <1>14. CASE UnlinkEntry(p)
    <2>1. pc[p] = "parent" /\ UNCHANGED <<type, nlink, fresh>>
      BY <1>14 DEF UnlinkEntry, Parent, Taken, iget, Goto, inodeVars
    <2> QED
      BY <2>1 DEF OrphanMoves, Orphan
  <1>15. CASE UnlinkFull(p)
    <2>1. pc[p] = "unlink" /\ UNCHANGED <<type, nlink, fresh>>
      BY <1>15 DEF UnlinkFull, PutIp, CallPut, Goto, inodeVars
    <2> QED
      BY <2>1 DEF OrphanMoves, Orphan
  <1>16. CASE UnlinkOk(p)
    <2>1. /\ pc[p] = "unlink" /\ UNCHANGED <<type, fresh>>
          /\ nlink' = IF type[ip[p]] = "dir" THEN [nlink EXCEPT ![cur[p]] = @ - 1] ELSE nlink
      BY <1>16 DEF UnlinkOk, Erase
    <2>2. cur[p] \in Inodes /\ (type[ip[p]] = "dir" => nlink[cur[p]] > 1)
      BY <1>16, UnlinkAt
    <2>3. nlink[cur[p]] \in Int
      BY <2>2 DEF Types
    <2>4. \A j \in Inodes : nlink'[j] = nlink[j] \/ nlink'[j] # 0
      BY <2>1, <2>2, <2>3, Domains
    <2> QED
      BY <2>1, <2>4 DEF OrphanMoves, Orphan
  <1>17. CASE UnlinkDone(p)
    <2>1. pc[p] = "unlinked" /\ UNCHANGED <<type, fresh, ref, valid>> /\ ip[p] \in Inodes /\ Owes(p)
      BY <1>17, Refs DEF UnlinkDone, CallOf, Owes, Place, Putting
    <2>2. \A j \in Inodes : j # ip[p] => nlink'[j] = nlink[j]
      BY <1>17, <2>1, Domains DEF UnlinkDone
    <2>3. ref[ip[p]] > 0
      BY <2>1, Holds
    <2>4. valid[ip[p]]
      BY <2>1, Consts DEF NodeInv, NodeOf
    <2> QED
      BY <2>1, <2>2, <2>3, <2>4 DEF OrphanMoves, Orphan
  <1>18. CASE CreateNone(p)
    <2>1. pc[p] = "parent" /\ UNCHANGED <<type, nlink, fresh>>
      BY <1>18 DEF CreateNone, Parent, PutCur, CallPut, Goto, inodeVars
    <2> QED
      BY <2>1 DEF OrphanMoves, Orphan
  <1>19. CASE CreateTaken(p)
    <2>1. pc[p] = "parent" /\ UNCHANGED <<type, nlink, fresh>>
      BY <1>19 DEF CreateTaken, Parent, Taken, iget, PutCur, CallPut, Goto, inodeVars
    <2> QED
      BY <2>1 DEF OrphanMoves, Orphan
  <1>20. CASE CreateExisting(p)
    <2>1. pc[p] = "existing" /\ UNCHANGED <<type, nlink, fresh>>
      BY <1>20 DEF CreateExisting, OpenIp, PutIp, CallPut, Goto, inodeVars
    <2> QED
      BY <2>1 DEF OrphanMoves, Orphan
  <1>21. CASE CreateDone(p)
    <2>1. pc[p] = "created" /\ UNCHANGED <<type, nlink, fresh>>
      BY <1>21 DEF CreateDone, OpenIp, PutIp, CallPut, Goto, inodeVars
    <2> QED
      BY <2>1 DEF OrphanMoves, Orphan
  <1>22. ASSUME NEW i \in Free, CreateAt(p, i)
         PROVE  \A j \in Inodes : OrphanMoves(p, j)
    <2>1. pc[p] = "parent" /\ cur[p] \in Inodes /\ i \in Inodes /\ UNCHANGED fresh
      BY <1>22, Refs DEF CreateAt, NewInode, Parent, Free
    <2>2. nlink[cur[p]] \in Int /\ nlink[cur[p]] >= 0 /\ nlink[cur[p]] # 0
      BY <1>22, <2>1 DEF Types, TreeInv, CreateAt, NewInode
    <2>3. \A j \in Inodes : nlink'[j] # 0 \/ (nlink'[j] = nlink[j] /\ type'[j] = type[j])
      BY <1>22, <2>1, <2>2, Domains DEF CreateAt, NewInode
    <2> QED
      BY <2>1, <2>3 DEF OrphanMoves, Orphan
  <1>23. ASSUME NEW i \in Free, FailAt(p, i)
         PROVE  \A j \in Inodes : OrphanMoves(p, j)
    <2>1. pc[p] = "parent" /\ i \in Inodes /\ UNCHANGED fresh
      BY <1>23 DEF FailAt, NewInode, Parent, Free
    <2>2. \A j \in Inodes : j # i => nlink'[j] = nlink[j] /\ type'[j] = type[j]
      BY <1>23, Domains DEF FailAt, NewInode
    <2>3. ref'[i] > 0 /\ valid'[i]
      BY <1>23, <2>1, RefNat, Domains DEF FailAt, NewInode
    <2> QED
      BY <2>1, <2>2, <2>3 DEF OrphanMoves, Orphan
  <1>24. CASE FailedDone(p)
    <2>1. pc[p] = "failed" /\ UNCHANGED <<type, nlink, fresh>>
      BY <1>24 DEF FailedDone, PutCur, CallPut, Goto, inodeVars
    <2> QED
      BY <2>1 DEF OrphanMoves, Orphan
  <1>25. CASE fileclose(p)
    <2>1. pc[p] = "idle" /\ UNCHANGED <<type, nlink, fresh>>
      BY <1>25 DEF fileclose, CallPut, Goto, inodeVars
    <2> QED
      BY <2>1 DEF OrphanMoves, Orphan
  <1>26. CASE PutRef(p)
    <2>1. pc[p] = "put" /\ UNCHANGED <<type, nlink, fresh>>
      BY <1>26 DEF PutRef, Unref, Return, Last, Goto, inodeVars
    <2> QED
      BY <2>1 DEF OrphanMoves, Orphan
  <1>27. CASE PutLast(p)
    <2>1. pc[p] = "put" /\ UNCHANGED <<type, nlink, fresh>>
      BY <1>27 DEF PutLast, Last, Goto, inodeVars
    <2> QED
      BY <2>1 DEF OrphanMoves, Orphan
  <1>28. CASE Trunc(p)
    <2>1. pc[p] = "trunc" /\ UNCHANGED <<type, nlink, fresh>>
      BY <1>28 DEF Trunc, NoEnts, Goto
    <2> QED
      BY <2>1 DEF OrphanMoves, Orphan
  <1>29. CASE PutUnref(p)
    <2>1. UNCHANGED <<type, nlink, fresh, victim>> /\ pc'[p] = "ifree"
      BY <1>29, Domains DEF PutUnref, Unref, Goto, inodeVars, fileVars, callVars, putVars
    <2> QED
      BY <2>1 DEF OrphanMoves, Orphan
  <1>30. CASE ifree(p)
    <2>1. type'[victim[p]] = "free" /\ UNCHANGED <<nlink, fresh>> /\ \A j \in Inodes : j # victim[p] => type'[j] = type[j]
      BY <1>30, Refs, Domains DEF ifree, Putting
    <2> QED
      BY <2>1 DEF OrphanMoves, Orphan
  <1>31. CASE end_op(p)
    <2>1. pc[p] = "end" /\ UNCHANGED <<type, nlink, fresh>>
      BY <1>31 DEF end_op, commit, Goto, inodeVars
    <2> QED
      BY <2>1 DEF OrphanMoves, Orphan
  <1>32. CASE Reclaim(p)
    <2>1. pc[p] = "reclaim" /\ UNCHANGED <<type, nlink>> /\ fresh \in Inodes /\ fresh' = fresh + 1
      BY <1>32 DEF Reclaim, inodeVars
    <2>2. Orphan(fresh) => ref'[fresh] > 0 /\ valid'[fresh]
      BY <1>32, <2>1, RefNat, Domains DEF Reclaim
    <2>3. \A j \in Inodes : fresh <= j => j = fresh \/ fresh' <= j
      BY <2>1, Consts
    <2> QED
      BY <2>1, <2>2, <2>3 DEF OrphanMoves, Orphan
  <1> QED
    BY <1>1, <1>2, <1>3, <1>4, <1>5, <1>6, <1>7, <1>8, <1>9, <1>10, <1>11, <1>12, <1>13, <1>14,
       <1>15, <1>16, <1>17, <1>18, <1>19, <1>20, <1>21, <1>22, <1>23, <1>24, <1>25, <1>26, <1>27,
       <1>28, <1>29, <1>30, <1>31, <1>32 DEF Step

LEMMA OrphanStep ==
    ASSUME NEW p \in Procs, Types, CallInv, RefInv, LockInv, FreeInv, TreeInv, NodeInv, OrphanInv, Step(p)
    PROVE  OrphanInv'
  <1>1. /\ \A q \in Procs \ {p} : pc'[q] = pc[q] /\ victim'[q] = victim[q]
        /\ \A j \in Inodes : ReadOn(p, j) /\ OrphanMoves(p, j)
    BY FrameStep, ReadStep, OrphanMovesStep DEF Frame
  <1>2. ASSUME NEW j \in Inodes, Orphan(j)'
        PROVE  \/ ref'[j] > 0 /\ valid'[j]
               \/ \E q \in Procs : pc'[q] \in {"unref", "ifree"} /\ victim'[q] = j
               \/ fresh' <= j
    <2>1. CASE ~Orphan(j)
      BY <1>1, <1>2, <2>1 DEF OrphanMoves
    <2>2. CASE Orphan(j) /\ ref[j] > 0 /\ valid[j]
      BY <1>1, <2>2 DEF ReadOn, Orphan
    <2>3. ASSUME NEW q \in Procs, pc[q] \in {"unref", "ifree"}, victim[q] = j
          PROVE  pc'[q] \in {"unref", "ifree"} /\ victim'[q] = j
      BY <1>1, <1>2, <2>3 DEF OrphanMoves
    <2>4. CASE fresh <= j
      BY <1>1, <1>2, <2>4 DEF OrphanMoves
    <2> QED
      BY <2>1, <2>2, <2>3, <2>4 DEF OrphanInv
  <1> QED
    BY <1>2 DEF OrphanInv

-----------------------------------------------------------------------------
(* The disk, after each step *)

\* between calls the tree is as it is to be on the disk
LEMMA Settled ==
    ASSUME Types, TreeInv, \A q \in Procs : Place(q) \in {"off", "idle", "reclaim", "end"}
    PROVE  Sound(Image)
  <1>1. Removing = {}
    BY DEF Removing
  <1>2. Owed = Nobody
    BY DEF Owed, Owes, Nobody
  <1>3. /\ type \in [Inodes -> {"free", "dir", "file"}]
        /\ ents \in [Inodes -> [Elems -> Inodes \cup {0}]]
    BY DEF Types
  <1>4. nlink \in [Inodes -> Nat]
    BY DEF Types, TreeInv
  <1>5. Image \in [type : [Inodes -> {"free", "dir", "file"}], nlink : [Inodes -> Nat],
                   ents : [Inodes -> [Elems -> Inodes \cup {0}]]]
    BY <1>3, <1>4 DEF Image
  <1>6. Image.type = type /\ Image.nlink = nlink /\ Image.ents = ents
    BY DEF Image
  <1> QED
    BY <1>1, <1>2, <1>5, <1>6 DEF Sound, TreeInv


LEMMA DiskMoves ==
    ASSUME NEW p \in Procs, Step(p)
    PROVE  committed' = committed \/ (pc[p] = "end" /\ commit(p))
  <1>1. ASSUME NEW o \in work.ops[p], NEW q \in work.paths, Begin(p, o, q)
        PROVE  committed' = committed \/ (pc[p] = "end" /\ commit(p))
    BY <1>1 DEF Begin, iget, Goto, StartOf
  <1>2. CASE WalkEnds(p)
    BY <1>2 DEF WalkEnds, GiveUp, PutCur, CallPut, Goto
  <1>3. CASE WalkParent(p)
    BY <1>3 DEF WalkParent, Goto, NotDir, WantsParent
  <1>4. CASE WalkDown(p)
    BY <1>4 DEF WalkDown, CallPut, Goto, NotDir, WantsParent
  <1>5. CASE sys_open(p)
    BY <1>5 DEF sys_open, Found, Goto
  <1>6. CASE sys_chdir(p)
    BY <1>6 DEF sys_chdir, Found, CallPut, Goto
  <1>7. CASE LinkDir(p)
    BY <1>7 DEF LinkDir, Found, PutCur, CallPut, Goto
  <1>8. CASE LinkFails(p)
    BY <1>8 DEF LinkFails, Parent, PutCur, CallPut, Goto
  <1>9. CASE LinkNew(p)
    BY <1>9 DEF LinkNew, Parent, Taken, PutCur, CallPut, Goto
  <1>10. CASE LinkDone(p)
    BY <1>10 DEF LinkDone, PutIp, CallPut, Goto
  <1>11. CASE LinkBad(p)
    BY <1>11 DEF LinkBad, PutIp, CallPut, Goto
  <1>12. ASSUME NEW q \in work.paths, LinkOld(p, q)
         PROVE  committed' = committed \/ (pc[p] = "end" /\ commit(p))
    BY <1>12 DEF LinkOld, SecondWalk, Found, StartOf, Goto
  <1>13. CASE UnlinkNone(p)
    BY <1>13 DEF UnlinkNone, Parent, PutCur, CallPut, Goto
  <1>14. CASE UnlinkEntry(p)
    BY <1>14 DEF UnlinkEntry, Parent, Taken, iget, Goto
  <1>15. CASE UnlinkFull(p)
    BY <1>15 DEF UnlinkFull, PutIp, CallPut, Goto
  <1>16. CASE UnlinkOk(p)
    BY <1>16 DEF UnlinkOk, Erase, PutCur, CallPut, Goto
  <1>17. CASE UnlinkDone(p)
    BY <1>17 DEF UnlinkDone, PutIp, CallPut, Goto
  <1>18. CASE CreateNone(p)
    BY <1>18 DEF CreateNone, Parent, PutCur, CallPut, Goto
  <1>19. CASE CreateTaken(p)
    BY <1>19 DEF CreateTaken, Parent, Taken, iget, PutCur, CallPut, Goto
  <1>20. CASE CreateExisting(p)
    BY <1>20 DEF CreateExisting, OpenIp, PutIp, CallPut, Goto
  <1>21. CASE CreateDone(p)
    BY <1>21 DEF CreateDone, OpenIp, PutIp, CallPut, Goto
  <1>22. ASSUME NEW i \in Free, CreateAt(p, i)
         PROVE  committed' = committed \/ (pc[p] = "end" /\ commit(p))
    BY <1>22 DEF CreateAt, NewInode, DotDot, NoEnts, Free, Parent, Taken, PutCur, CallPut, Goto
  <1>23. ASSUME NEW i \in Free, FailAt(p, i)
         PROVE  committed' = committed \/ (pc[p] = "end" /\ commit(p))
    BY <1>23 DEF FailAt, NewInode, DotDot, NoEnts, Free, Parent, Taken, CallPut, Goto
  <1>24. CASE FailedDone(p)
    BY <1>24 DEF FailedDone, PutCur, CallPut, Goto
  <1>25. CASE fileclose(p)
    BY <1>25 DEF fileclose, CallPut, Goto
  <1>26. CASE PutRef(p)
    BY <1>26 DEF PutRef, Unref, Return, Last, Goto
  <1>27. CASE PutLast(p)
    BY <1>27 DEF PutLast, Last, Goto
  <1>28. CASE Trunc(p)
    BY <1>28 DEF Trunc, NoEnts, Goto
  <1>29. CASE PutUnref(p)
    BY <1>29 DEF PutUnref, Unref, Goto
  <1>30. CASE ifree(p)
    BY <1>30 DEF ifree, Return, Goto
  <1>31. CASE end_op(p)
    BY <1>31 DEF end_op
  <1>32. CASE Reclaim(p)
    BY <1>32 DEF Reclaim, CallPut, Goto, Orphan
  <1> QED
    BY <1>1, <1>2, <1>3, <1>4, <1>5, <1>6, <1>7, <1>8, <1>9, <1>10, <1>11, <1>12, <1>13, <1>14,
       <1>15, <1>16, <1>17, <1>18, <1>19, <1>20, <1>21, <1>22, <1>23, <1>24, <1>25, <1>26, <1>27,
       <1>28, <1>29, <1>30, <1>31, <1>32 DEF Step

LEMMA DiskStep ==
    ASSUME NEW p \in Procs, Types, CallInv, TreeInv, Sound(committed), Step(p)
    PROVE  Sound(committed)'
  <1>1. committed' = committed \/ (pc[p] = "end" /\ commit(p))
    BY DiskMoves
  <1>2. CASE committed' = committed
    BY <1>2
  <1>3. CASE pc[p] = "end" /\ InOp \ {p} = {} /\ committed' = Image
    <2>1. ASSUME NEW q \in Procs
          PROVE  Place(q) \in {"off", "idle", "reclaim", "end"}
      <3>1. q = p \/ pc[q] \in {"off", "idle", "reclaim"}
        BY <1>3 DEF InOp
      <3> QED
        BY <1>3, <3>1 DEF Place, Putting
    <2>2. Sound(Image)
      BY <2>1, Settled
    <2>3. \A im : Sound(im) => (im = committed' => Sound(committed)')
      BY DEF Sound
    <2> QED
      BY <1>3, <2>2, <2>3
  <1> QED
    BY <1>1, <1>2, <1>3 DEF commit

-----------------------------------------------------------------------------
(* The first state *)

\* the disk of mkfs: the root, which is empty
LEMMA FirstTree ==
    ASSUME Init
    PROVE  /\ Tree(type, nlink, ents, {}) /\ Empty(type, nlink, ents)
           /\ Counted(type, nlink, ents, {}, Nobody)
  <1>1. /\ \A i \in Inodes : type[i] = (IF i = Root THEN "dir" ELSE "free") /\ nlink[i] = (IF i = Root THEN 1 ELSE 0)
        /\ \A n \in Elems : ents[Root][n] = IF n = ".." THEN Root ELSE 0
    BY Consts DEF Init, NoEnts
  <1>2. \A d : LiveDir(type, nlink, {}, d) <=> d = Root
    <2>1. /\ \A d \in Inodes : type[d] = "dir" <=> d = Root
          /\ Root \in Inodes /\ nlink[Root] > 0
      BY <1>1, Consts
    <2> QED
      BY <2>1 DEF LiveDir
  <1>3. \A n \in Names : ents[Root][n] = 0 /\ n # ".."
    BY <1>1, Consts
  <1>4. DirOk(type, nlink, ents, {}, Root)
    BY <1>1, <1>2, <1>3, Consts DEF DirOk
  <1>5. Tree(type, nlink, ents, {})
    BY <1>1, <1>2, <1>4, Consts DEF Tree
  <1>6. Empty(type, nlink, ents)
    BY <1>1, <1>3 DEF Empty
  <1>7. Counted(type, nlink, ents, {}, Nobody)
    <2>1. Into(type, nlink, ents, {}, Root) = {}
      BY <1>1, <1>2, Consts DEF Into
    <2>2. Cardinality(Into(type, nlink, ents, {}, Root)) = 0
      BY <2>1, FS_EmptySet
    <2>3. Num(Nobody, Root) = 0
      BY NumZero, Consts DEF Nobody
    <2>4. One(Root, Root) = 1
      BY DEF One
    <2> QED
      BY <1>1, <2>2, <2>3, <2>4 DEF Counted
  <1> QED
    BY <1>5, <1>6, <1>7

LEMMA FirstTypes ==
    ASSUME Init
    PROVE  Types
  <1>1. type \in [Inodes -> {"free", "dir", "file"}] /\ nlink \in [Inodes -> Int]
    BY DEF Init
  <1>2. NoEnts \in [Elems -> Inodes \cup {0}]
    BY DEF NoEnts
  <1>3. [NoEnts EXCEPT ![".."] = Root] \in [Elems -> Inodes \cup {0}]
    BY <1>2, Consts
  <1>4. ents \in [Inodes -> [Elems -> Inodes \cup {0}]]
    BY <1>2, <1>3 DEF Init
  <1>5. ref \in [Inodes -> Int] /\ valid \in [Inodes -> BOOLEAN] /\ lock \in [Inodes -> 0..N]
    BY FsAssumption DEF Init
  <1>6. /\ cwd \in [Procs -> Inodes \cup {0}] /\ ofile \in [Procs -> Inodes \cup {0}]
        /\ cur \in [Procs -> Inodes \cup {0}] /\ ip \in [Procs -> Inodes \cup {0}]
        /\ victim \in [Procs -> Inodes \cup {0}]
    BY Consts DEF Init
  <1>7. /\ pc \in [Procs -> Pcs] /\ op \in [Procs -> Calls \cup {"none", "reclaim"}]
        /\ ret \in [Procs -> Returns \cup {"idle"}]
    BY DEF Init, Pcs
  <1>8. path \in [Procs -> Seq(Elems)]
    BY DEF Init
  <1>9. fresh \in Nat \ {0} /\ work \in Workloads
    BY FsAssumption, FS_CardinalityType DEF Init
  <1> QED
    BY <1>1, <1>4, <1>5, <1>6, <1>7, <1>8, <1>9 DEF Types

LEMMA First ==
    ASSUME Init
    PROVE  IInv
  <1>1. Types
    BY FirstTypes
  <1>2. /\ \A p \in Procs : /\ pc[p] = "idle" /\ op[p] = "none" /\ path[p] = <<>> /\ cur[p] = 0 /\ ip[p] = 0
                            /\ victim[p] = 0 /\ ret[p] = "idle" /\ cwd[p] = Root /\ ofile[p] = 0
        /\ \A i \in Inodes : lock[i] = 0 /\ ref[i] = (IF i = Root THEN N ELSE 0)
    BY DEF Init
  <1>3. \A p \in Procs : Place(p) = "idle"
    BY <1>2 DEF Place, Putting
  <1>4. CallInv
    BY <1>2, <1>3, Consts DEF CallInv, CallOf, Putting, Returns
  <1>5. fresh \notin Inodes
    BY FsAssumption, FS_CardinalityType DEF Init
  <1>6. BootInv
    BY <1>2, <1>5 DEF BootInv, Started
  <1>7. RefInv
    <2>1. ASSUME NEW i \in Inodes
          PROVE  /\ Num(ofile, i) = 0 /\ Num(cur, i) = 0 /\ Num(ip, i) = 0 /\ Num(Victim, i) = 0
                 /\ Num(cwd, i) = ref[i]
      <3>1. \A p \in Procs : ofile[p] # i /\ cur[p] # i /\ ip[p] # i /\ Victim[p] # i
        BY <1>2, Consts DEF Victim
      <3>2. Num(ofile, i) = 0 /\ Num(cur, i) = 0 /\ Num(ip, i) = 0 /\ Num(Victim, i) = 0
        BY <3>1, NumZero
      <3>3. CASE i = Root
        <4>1. Num(cwd, i) = N
          BY <1>2, <3>3, Consts, NumAll
        <4> QED
          BY <1>2, <3>2, <3>3, <4>1
      <3>4. CASE i # Root
        <4>1. Num(cwd, i) = 0
          BY <1>2, <3>4, NumZero
        <4> QED
          BY <1>2, <3>2, <3>4, <4>1
      <3> QED
        BY <3>3, <3>4
    <2>2. \A i \in Inodes : ref[i] \in Int /\ (ref[i] > 0 => type[i] # "free")
      BY <1>2, FsAssumption DEF Init
    <2> QED
      BY <2>1, <2>2 DEF RefInv
  <1>8. LockInv
    BY <1>2, <1>3, Consts DEF LockInv, Holder
  <1>9. FreeInv
    BY <1>2 DEF FreeInv
  <1>10. Removing = {} /\ Owed = Nobody
    BY <1>3 DEF Removing, Owed, Owes, Nobody
  <1>11. TreeInv
    <2>1. \A i \in Inodes : nlink[i] >= 0
      BY DEF Init
    <2> QED
      BY <1>10, <2>1, FirstTree DEF TreeInv
  <1>12. Sound(committed)
    <2>1. committed = Image
      BY DEF Init
    <2>2. Sound(Image)
      BY <1>1, <1>3, <1>11, Settled
    <2> QED
      BY <2>1, <2>2
  <1>13. NodeInv
    BY <1>2, <1>3 DEF NodeInv, NodeOf, Owes
  <1>14. OrphanInv
    BY DEF OrphanInv, Orphan, Init
  <1> QED
    BY <1>1, <1>4, <1>6, <1>7, <1>8, <1>9, <1>11, <1>12, <1>13, <1>14 DEF IInv

-----------------------------------------------------------------------------
(* The crash, and the end of the recovery *)

LEMMA CrashTypes ==
    ASSUME IInv, UNCHANGED work, Crash
    PROVE  Types'
  <1>1. /\ type' \in [Inodes -> {"free", "dir", "file"}] /\ nlink' \in [Inodes -> Nat]
        /\ ents' \in [Inodes -> [Elems -> Inodes \cup {0}]]
    BY DEF IInv, Sound, Crash
  <1>2. nlink' \in [Inodes -> Int]
    BY <1>1
  <1>3. ref' \in [Inodes -> Int] /\ valid' \in [Inodes -> BOOLEAN] /\ lock' \in [Inodes -> 0..N]
    BY FsAssumption DEF Crash
  <1>4. /\ cwd' \in [Procs -> Inodes \cup {0}] /\ ofile' \in [Procs -> Inodes \cup {0}]
        /\ cur' \in [Procs -> Inodes \cup {0}] /\ ip' \in [Procs -> Inodes \cup {0}]
        /\ victim' \in [Procs -> Inodes \cup {0}]
    BY Consts DEF Crash
  <1>5. /\ pc' \in [Procs -> Pcs] /\ op' \in [Procs -> Calls \cup {"none", "reclaim"}]
        /\ ret' \in [Procs -> Returns \cup {"idle"}]
    BY DEF Crash, Pcs
  <1>6. path' \in [Procs -> Seq(Elems)]
    BY DEF Crash
  <1>7. fresh' \in Nat \ {0} /\ work' \in Workloads
    BY DEF Crash, IInv, Types
  <1> QED
    BY <1>1, <1>2, <1>3, <1>4, <1>5, <1>6, <1>7 DEF Types

\* after a crash the disk has a tree, which nobody is changing
LEMMA CrashStep ==
    ASSUME IInv, UNCHANGED work, Crash
    PROVE  IInv'
  <1>1. Types'
    BY CrashTypes
  <1>2. /\ \A p \in Procs : /\ pc'[p] = (IF p = 1 THEN "reclaim" ELSE "off") /\ op'[p] = "none" /\ path'[p] = <<>>
                            /\ cur'[p] = 0 /\ ip'[p] = 0 /\ victim'[p] = 0 /\ ret'[p] = "idle"
                            /\ cwd'[p] = (IF p = 1 THEN Root ELSE 0) /\ ofile'[p] = 0
        /\ \A i \in Inodes : lock'[i] = 0 /\ ref'[i] = (IF i = Root THEN 1 ELSE 0)
        /\ fresh' = 1
    BY DEF Crash
  <1>3. \A p \in Procs : Place(p)' = (IF p = 1 THEN "reclaim" ELSE "off")
    BY <1>2 DEF Place, Putting
  <1>4. CallInv'
    BY <1>2, <1>3, Consts DEF CallInv, CallOf, Putting, Returns
  <1>5. BootInv'
    BY <1>2, Consts DEF BootInv, Starting
  <1>6. Sound(committed) /\ type' = committed.type /\ nlink' = committed.nlink /\ ents' = committed.ents
        /\ committed' = committed
    BY DEF IInv, Crash
  <1>7. Removing' = {} /\ Owed' = Nobody
    <2>1. \A p \in Procs : Place(p)' # "unlinked" /\ op'[p] # "link"
      BY <1>2, <1>3
    <2>2. Removing' = {}
      BY <2>1 DEF Removing
    <2>3. Owed' = [p \in Procs |-> 0]
      BY <2>1 DEF Owed, Owes
    <2> QED
      BY <2>2, <2>3 DEF Nobody
  <1>8. TreeInv'
    <2>1. \A i \in Inodes : nlink'[i] >= 0
      BY <1>6 DEF Sound
    <2> QED
      BY <1>6, <1>7, <2>1 DEF Sound, TreeInv
  <1>9. RefInv'
    <2>1. ASSUME NEW i \in Inodes
          PROVE  /\ Num(ofile', i) = 0 /\ Num(cur', i) = 0 /\ Num(ip', i) = 0 /\ Num(Victim', i) = 0
                 /\ Num(cwd', i) = ref'[i]
      <3>1. \A p \in Procs : ofile'[p] # i /\ cur'[p] # i /\ ip'[p] # i /\ Victim'[p] # i
        BY <1>2, Consts DEF Victim
      <3>2. \A f : (\A p \in Procs : f[p] # i) => Num(f, i) = 0
        BY NumZero
      <3>3. Num(ofile', i) = 0 /\ Num(cur', i) = 0 /\ Num(ip', i) = 0 /\ Num(Victim', i) = 0
        BY <3>1, <3>2
      <3>4. CASE i = Root
        <4>1. \A f : f[1] = i /\ (\A q \in Procs \ {1} : f[q] # i) => Num(f, i) = 1
          BY NumOnly, Consts
        <4>2. cwd'[1] = i /\ \A q \in Procs \ {1} : cwd'[q] # i
          BY <1>2, <3>4, Consts
        <4>3. Num(cwd', i) = 1
          BY <4>1, <4>2
        <4> QED
          BY <1>2, <3>3, <3>4, <4>3
      <3>5. CASE i # Root
        <4>1. \A p \in Procs : cwd'[p] # i
          BY <1>2, <3>5, Consts
        <4>2. Num(cwd', i) = 0
          BY <3>2, <4>1
        <4> QED
          BY <1>2, <3>3, <3>5, <4>2
      <3> QED
        BY <3>4, <3>5
    <2>2. type'[Root] # "free"
      BY <1>8 DEF TreeInv, Tree, LiveDir
    <2>3. \A i \in Inodes : ref'[i] \in Int /\ (ref'[i] > 0 => type'[i] # "free")
      BY <1>2, <2>2
    <2> QED
      BY <2>1, <2>3 DEF RefInv
  <1>10. LockInv'
    BY <1>2, <1>3, Consts DEF LockInv, Holder
  <1>11. FreeInv'
    BY <1>2 DEF FreeInv
  <1>12. Sound(committed)'
    BY <1>6 DEF Sound
  <1>13. NodeInv'
    BY <1>2, <1>3 DEF NodeInv, NodeOf, Owes
  <1>14. OrphanInv'
    <2>1. \A i \in Inodes : fresh' <= i
      BY <1>2, FsAssumption, FS_CardinalityType
    <2> QED
      BY <2>1 DEF OrphanInv
  <1> QED
    BY <1>1, <1>4, <1>5, <1>8, <1>9, <1>10, <1>11, <1>12, <1>13, <1>14 DEF IInv

\* the processes that come after the recovery
LEMMA ReclaimDoneStep ==
    ASSUME IInv, UNCHANGED work, NEW p \in Procs, ReclaimDone(p)
    PROVE  IInv'
  <1> DEFINE c == cwd[p]
  <1>1. Types /\ CallInv /\ RefInv /\ pc[p] = "reclaim"
    BY DEF IInv, ReclaimDone
  <1>2. Starting /\ fresh \notin Inodes
    BY DEF IInv, BootInv, Started, ReclaimDone
  <1>3. p = 1 /\ pc[1] = "reclaim" /\ \A q \in Procs \ {1} : pc[q] = "off"
    BY <1>1, <1>2 DEF Starting
  <1>4. /\ \A q \in Procs : pc'[q] = "idle" /\ op'[q] = "none" /\ cwd'[q] = c
        /\ ref' = [ref EXCEPT ![c] = @ + N - 1] /\ pc' = [q \in Procs |-> "idle"] /\ op' = [q \in Procs |-> "none"]
        /\ cwd' = [q \in Procs |-> c]
        /\ UNCHANGED <<type, nlink, ents, committed, valid, lock, ofile, path, cur, ip, victim, ret, fresh>>
    BY DEF ReclaimDone, inodeVars, putVars
  <1>5. c \in Inodes
    BY <1>1, Refs
  <1>6. \A q \in Procs : /\ Place(q) \in {"off", "reclaim"} /\ Place(q)' = "idle" /\ pc[q] \notin Putting
                         /\ pc'[q] \notin Putting /\ pc[q] \notin {"put", "trunc", "unref", "ifree"}
    BY <1>3, <1>4 DEF Place, Putting
  <1>7. \A q \in Procs : /\ CallOf(q) /\ cur[q] = 0 /\ ip[q] = 0 /\ victim[q] = 0
                         /\ (q # 1 => cwd[q] = 0)
    BY <1>1, <1>3, <1>6 DEF CallInv, CallOf
  <1>8. CallInv'
    <2>1. ASSUME NEW q \in Procs
          PROVE  CallOf(q)'
      BY <1>4, <1>5, <1>6, <1>7, Consts DEF CallOf, Returns
    <2> QED
      BY <2>1 DEF CallInv
  <1>9. BootInv'
    BY <1>2, <1>4 DEF BootInv, Started
  <1>10. N \in Nat /\ N >= 1
    BY FsAssumption
  <1>11. Types'
    <2>1. ref' \in [Inodes -> Int]
      BY <1>1, <1>4, <1>5, <1>10 DEF Types
    <2>2. pc' \in [Procs -> Pcs] /\ op' \in [Procs -> Calls \cup {"none", "reclaim"}] /\ cwd' \in [Procs -> Inodes \cup {0}]
      BY <1>4, <1>5 DEF Pcs
    <2> QED
      BY <1>1, <1>4, <2>1, <2>2 DEF Types
  <1>12. Victim' = Victim
    BY <1>4, <1>6 DEF Victim, Putting
  <1>13. RefInv'
    <2>1. ASSUME NEW i \in Inodes
          PROVE  /\ ref'[i] = Num(cwd', i) + Num(ofile', i) + Num(cur', i) + Num(ip', i) + Num(Victim', i)
                 /\ ref'[i] > 0 => type'[i] # "free"
      <3>1. /\ ref[i] = Num(cwd, i) + Num(ofile, i) + Num(cur, i) + Num(ip, i) + Num(Victim, i)
            /\ ref[i] > 0 => type[i] # "free"
        BY <1>1 DEF RefInv
      <3>2. /\ Num(cwd, i) \in Nat /\ Num(ofile, i) \in Nat /\ Num(cur, i) \in Nat
            /\ Num(ip, i) \in Nat /\ Num(Victim, i) \in Nat
        BY NumNat
      <3>3. Num(ofile', i) = Num(ofile, i) /\ Num(cur', i) = Num(cur, i) /\ Num(ip', i) = Num(ip, i)
            /\ Num(Victim', i) = Num(Victim, i)
        BY <1>4, <1>12
      <3>4. CASE i = c
        <4>1. Num(cwd, i) = 1
          <5>1. cwd[p] = i /\ \A q \in Procs \ {p} : cwd[q] # i
            BY <1>3, <1>5, <1>7, <3>4, Consts
          <5> QED
            BY <5>1, NumOnly
        <4>2. Num(cwd', i) = N
          <5>1. \A f : (\A q \in Procs : f[q] = i) => Num(f, i) = N
            BY NumAll
          <5> QED
            BY <1>4, <3>4, <5>1
        <4>3. ref'[i] = ref[i] + N - 1 /\ type'[i] = type[i]
          BY <1>1, <1>4, <3>4, Domains
        <4>4. type[i] # "free"
          BY <3>1, <3>2, <4>1
        <4> QED
          BY <1>10, <3>1, <3>2, <3>3, <4>1, <4>2, <4>3, <4>4
      <3>5. CASE i # c
        <4>1. Num(cwd, i) = 0
          <5>1. \A q \in Procs : cwd[q] # i
            BY <1>3, <1>7, <3>5, Consts
          <5> QED
            BY <5>1, NumZero
        <4>2. Num(cwd', i) = 0
          <5>1. \A f : (\A q \in Procs : f[q] # i) => Num(f, i) = 0
            BY NumZero
          <5> QED
            BY <1>4, <3>5, <5>1
        <4>3. ref'[i] = ref[i] /\ type'[i] = type[i]
          BY <1>1, <1>4, <3>5, Domains
        <4> QED
          BY <3>1, <3>2, <3>3, <4>1, <4>2, <4>3
      <3> QED
        BY <3>4, <3>5
    <2> QED
      BY <2>1 DEF RefInv
  <1>14. LockInv'
    <2>1. \A q \in Procs, i \in Inodes : ~Holder(q, i) /\ ~Holder(q, i)'
      BY <1>4, <1>6 DEF Holder
    <2> QED
      BY <1>4, <2>1 DEF IInv, LockInv
  <1>15. FreeInv'
    BY <1>4 DEF FreeInv
  <1>16. Removing' = Removing /\ Owed' = Owed
    <2>1. Removing = {} /\ Removing' = {}
      BY <1>6 DEF Removing
    <2>2. \A q \in Procs : ~Owes(q) /\ ~Owes(q)'
      BY <1>4, <1>6 DEF Owes
    <2> QED
      BY <2>1, <2>2 DEF Owed
  <1>17. TreeInv'
    BY <1>4, <1>16 DEF IInv, TreeInv
  <1>18. Sound(committed)'
    BY <1>4 DEF IInv, Sound
  <1>19. NodeInv'
    BY <1>4, <1>6, <1>7 DEF NodeInv, NodeOf, Owes
  <1>20. OrphanInv'
    <2>1. ASSUME NEW i \in Inodes, Orphan(i)'
          PROVE  (ref'[i] > 0 /\ valid'[i]) \/ fresh' <= i
      <3>1. Orphan(i)
        BY <1>4, <2>1 DEF Orphan
      <3>2. (ref[i] > 0 /\ valid[i]) \/ fresh <= i
        BY <1>6, <3>1 DEF IInv, OrphanInv
      <3>3. ref'[i] >= ref[i]
        BY <1>1, <1>4, <1>5, <1>10, RefInt, Domains
      <3>4. ref[i] \in Int /\ ref'[i] \in Int
        BY <1>1, <1>11 DEF Types
      <3> QED
        BY <1>4, <3>2, <3>3, <3>4
    <2> QED
      BY <2>1 DEF OrphanInv
  <1> QED
    BY <1>8, <1>9, <1>11, <1>13, <1>14, <1>15, <1>17, <1>18, <1>19, <1>20 DEF IInv

-----------------------------------------------------------------------------
(* The invariant *)

LEMMA StepInv ==
    ASSUME IInv, UNCHANGED work, NEW p \in Procs, Step(p)
    PROVE  IInv'
  <1>1. /\ Types /\ CallInv /\ BootInv /\ RefInv /\ LockInv /\ FreeInv /\ TreeInv
        /\ Sound(committed) /\ NodeInv /\ OrphanInv
    BY DEF IInv
  <1>2. Frame(p)
    BY <1>1, FrameStep
  <1>3. Types'
    BY <1>1, TypesStep
  <1>4. CallInv'
    <2>1. CallOf(p)'
      BY <1>1, CallStep
    <2>2. ASSUME NEW q \in Procs \ {p}
          PROVE  CallOf(q)'
      <3>1. CallOf(q) /\ Place(q)' = Place(q)
        BY <1>1, <1>2, FramePlace DEF CallInv
      <3> QED
        BY <1>2, <3>1 DEF Frame, CallOf
    <2> QED
      BY <2>1, <2>2 DEF CallInv
  <1>5. BootInv'
    BY <1>1, <1>2, BootStep
  <1>6. RefInv'
    BY <1>1, RefStep
  <1>7. LockInv'
    BY <1>1, LockStep
  <1>8. FreeInv'
    BY <1>1, FreeStep
  <1>9. TreeInv'
    BY <1>1, <1>2, TreeStep
  <1>10. Sound(committed)'
    BY <1>1, DiskStep
  <1>11. NodeInv'
    BY <1>1, <1>6, NodeStep
  <1>12. OrphanInv'
    BY <1>1, OrphanStep
  <1> QED
    BY <1>3, <1>4, <1>5, <1>6, <1>7, <1>8, <1>9, <1>10, <1>11, <1>12 DEF IInv

LEMMA Inductive ==
    ASSUME IInv, [Next]_vars
    PROVE  IInv'
  <1>1. Types /\ CallInv
    BY DEF IInv
  <1>2. ASSUME NEW p \in Procs, UNCHANGED work, Step(p)
        PROVE  IInv'
    BY <1>2, StepInv
  <1>3. ASSUME NEW p \in Procs, UNCHANGED work, ReclaimDone(p)
        PROVE  IInv'
    BY <1>3, ReclaimDoneStep
  <1>4. CASE UNCHANGED work /\ Crash
    BY <1>4, CrashStep
  <1>5. CASE UNCHANGED vars
    BY <1>5
      DEF vars, inodeVars, tableVars, fileVars, callVars, putVars, IInv, Types, CallInv, CallOf, BootInv,
          Starting, Started, RefInv, Victim, LockInv, Holder, FreeInv, TreeInv, Removing, Owed, Owes, Place,
          Sound, NodeInv, NodeOf, Name, isdirempty, OrphanInv, Orphan
  <1> QED
    BY <1>1, <1>2, <1>3, <1>4, <1>5, Cases

-----------------------------------------------------------------------------
(* The theorems *)

\* The inductive invariant holds in every state (fs.c, sysfile.c).
THEOREM Invariance == Spec => []IInv
  <1>1. Init => IInv
    BY First
  <1>2. IInv /\ [Next]_vars => IInv'
    BY Inductive
  <1> QED
    BY <1>1, <1>2, PTL DEF Spec

LEMMA InvHolds ==
    ASSUME IInv
    PROVE  Inv
  <1>1. Types /\ CallInv /\ RefInv /\ LockInv /\ TreeInv /\ Sound(committed)
    BY DEF IInv
  <1>2. TypeOK
    <2>1. nlink \in [Inodes -> Nat]
      BY <1>1 DEF Types, TreeInv
    <2>2. ref \in [Inodes -> Nat]
      BY <1>1, RefNat DEF Types
    <2>3. DOMAIN committed = {"type", "nlink", "ents"}
      BY <1>1 DEF Sound
    <2>4. \A p \in Procs : path[p] \in Seq(Elems)
      BY <1>1 DEF Types
    <2>5. pc \in [Procs -> {"off", "reclaim", "idle", "walk", "found", "parent",
                           "second", "bad", "existing", "created", "unlink", "unlinked",
                           "failed", "put", "trunc", "unref", "ifree", "end"}]
      <3>1. Pcs = {"off", "reclaim", "idle", "walk", "found", "parent",
                   "second", "bad", "existing", "created", "unlink", "unlinked",
                   "failed", "put", "trunc", "unref", "ifree", "end"}
        BY DEF Pcs, Returns, Putting
      <3> QED
        BY <1>1, <3>1 DEF Types
    <2>6. ret \in [Procs -> {"idle", "walk", "found", "second", "bad", "existing", "created",
                            "unlinked", "failed", "end"}]
      <3>1. Returns \cup {"idle"} = {"idle", "walk", "found", "second", "bad", "existing", "created",
                                     "unlinked", "failed", "end"}
        BY DEF Returns
      <3> QED
        BY <1>1, <3>1 DEF Types
    <2> QED
      BY <1>1, <2>1, <2>2, <2>3, <2>4, <2>5, <2>6 DEF Types, TypeOK
  <1>3. InUse
    BY <1>1, UsersNum DEF RefInv, InUse
  <1>4. PutNeverSleeps
    <2> SUFFICES ASSUME NEW p \in Procs, pc[p] = "put", Last(victim[p]), lock[victim[p]] # 0
                 PROVE  FALSE
      BY DEF PutNeverSleeps
    <2> DEFINE v == victim[p]
    <2>1. v \in Inodes /\ Victim[p] = v
      BY <1>1, Refs DEF Putting, Victim
    <2>2. lock[v] \in Procs
      BY <1>1, <2>1, FsAssumption DEF Types, Procs
    <2>3. PICK q \in Procs : Holder(q, v)
      BY <1>1, <2>1, <2>2 DEF LockInv
    <2>4. cur[q] = v \/ ip[q] = v \/ (q # p /\ Victim[q] = v)
      BY <2>3 DEF Holder, Victim
    <2>5. ref[v] > 1
      BY <1>1, <2>1, <2>4, Two
    <2> QED
      BY <2>5 DEF Last
  <1> QED
    BY <1>2, <1>3, <1>4 DEF Inv

\* What iget(), idup() and iput() keep of the inode table: the reference counts
\* are those of the users, an inode in use is never freed, and iput() finds the
\* lock of a last reference free (fs.c:316, 357, 361, 700).
THEOREM TableOk == Spec => []Inv
  <1>1. IInv => Inv
    BY InvHolds
  <1> QED
    BY <1>1, Invariance, PTL

LEMMA SoundExact ==
    ASSUME NEW im, Sound(im)
    PROVE  /\ \A i \in Inodes : im.type[i] # "free" => im.nlink[i] = Links(im, i)
           /\ \A d \in Inodes, n \in Elems :
                im.type[d] = "dir" /\ im.nlink[d] > 0 /\ im.ents[d][n] # 0 =>
                    im.type[im.ents[d][n]] # "free"
           /\ \A d \in Inodes, n \in Names :
                im.type[d] = "dir" /\ im.nlink[d] = 0 => im.ents[d][n] = 0
  <1>1. \A d \in Inodes : LiveDir(im.type, im.nlink, {}, d) <=> im.type[d] = "dir" /\ im.nlink[d] > 0
    BY DEF LiveDir
  <1>2. ASSUME NEW i \in Inodes, im.type[i] # "free"
        PROVE  im.nlink[i] = Links(im, i)
    <2>1. Into(im.type, im.nlink, im.ents, {}, i) =
             {e \in Inodes \X Elems :
                    /\ im.type[e[1]] = "dir" /\ im.nlink[e[1]] > 0
                    /\ im.ents[e[1]][e[2]] = i
                    /\ ~(e[1] = Root /\ e[2] = "..")}
      BY <1>1 DEF Into
    <2>2. im.nlink[i] = Cardinality(Into(im.type, im.nlink, im.ents, {}, i)) + Num(Nobody, i) + One(i, Root)
      BY <1>2 DEF Sound, Counted
    <2>3. Num(Nobody, i) = 0
      BY NumZero, Consts DEF Nobody
    <2>4. Cardinality(Into(im.type, im.nlink, im.ents, {}, i)) \in Nat
      BY IntoCount
    <2>5. One(i, Root) = IF i = Root THEN 1 ELSE 0
      BY DEF One
    <2>6. Links(im, i) = Cardinality(Into(im.type, im.nlink, im.ents, {}, i)) + (IF i = Root THEN 1 ELSE 0)
      BY <2>1 DEF Links
    <2> QED
      BY <2>2, <2>3, <2>4, <2>5, <2>6
  <1>3. ASSUME NEW d \in Inodes, NEW n \in Elems, im.type[d] = "dir", im.nlink[d] > 0, im.ents[d][n] # 0
        PROVE  im.type[im.ents[d][n]] # "free"
    <2>1. DirOk(im.type, im.nlink, im.ents, {}, d)
      BY <1>1, <1>3 DEF Sound, Tree
    <2>2. CASE n = ".."
      BY <2>1, <2>2 DEF DirOk, LiveDir
    <2>3. CASE n \in Names
      BY <1>3, <2>1, <2>3 DEF DirOk
    <2> QED
      BY <2>2, <2>3 DEF Elems
  <1>4. \A d \in Inodes, n \in Names : im.type[d] = "dir" /\ im.nlink[d] = 0 => im.ents[d][n] = 0
    BY DEF Sound, Empty
  <1> QED
    BY <1>2, <1>3, <1>4

\* Between calls, and on the disk at any time, nlink counts the names of an
\* inode, no name leads to a free inode, and a removed directory is empty
\* (sysfile.c:151, 178, 239, 244, 297, 311).
THEOREM LinksStayExact == Spec => []LinksExact
  <1>1. IInv => LinksExact
    <2> SUFFICES ASSUME IInv PROVE LinksExact
      OBVIOUS
    <2>1. Sound(committed)
      BY DEF IInv
    <2>2. InOp = {} => Sound(Image)
      <3> SUFFICES ASSUME InOp = {} PROVE Sound(Image)
        OBVIOUS
      <3>1. \A q \in Procs : pc[q] \in {"off", "idle", "reclaim"}
        BY DEF InOp
      <3>2. \A q \in Procs : Place(q) \in {"off", "idle", "reclaim", "end"}
        BY <3>1 DEF Place, Putting
      <3> QED
        BY <3>2, Settled DEF IInv
    <2> QED
      BY <2>1, <2>2, SoundExact DEF LinksExact
  <1> QED
    BY <1>1, Invariance, PTL

\* A process that holds the lock of one inode and waits for that of another
\* goes down the tree (sysfile.c:218-226, 267-294).
THEOREM LocksGoDown == Spec => []LocksDown
  <1>1. IInv => LocksDown
    <2> SUFFICES ASSUME IInv, NEW p \in Procs, NEW i \in Inodes, Wants(p) # 0, lock[i] = p
                 PROVE  type[i] = "dir" /\ \E n \in Names : ents[i][n] = Wants(p)
      BY DEF LocksDown
    <2>1. Types /\ CallInv /\ LockInv /\ NodeInv
      BY DEF IInv
    <2>2. Holder(p, i)
      BY <2>1 DEF LockInv
    <2>3. pc[p] \in {"walk", "found", "parent", "bad", "existing", "unlink"}
      BY DEF Wants
    <2>4. pc[p] = "unlink" /\ cur[p] = i
      BY <2>2, <2>3 DEF Holder, Place, Putting
    <2>5. Wants(p) = ip[p]
      BY <2>4 DEF Wants
    <2> QED
      BY <2>1, <2>4, <2>5 DEF NodeInv, NodeOf, Place, Putting
  <1> QED
    BY <1>1, Invariance, PTL

\* An inode without a name is freed when nobody uses it, and one that a crash
\* orphaned is found by ireclaim() (fs.c:357, 395).
THEOREM NoOrphanStays == Spec => []NoOrphan
  <1>1. IInv => NoOrphan
    <2> SUFFICES ASSUME IInv, InOp = {}, fresh \notin Inodes, NEW i \in Inodes, Orphan(i)
                 PROVE  ref[i] > 0
      BY DEF NoOrphan
    <2>1. \A q \in Procs : pc[q] \notin {"unref", "ifree"}
      BY DEF InOp
    <2>2. ~(fresh <= i)
      <3>1. fresh \in Nat \ {0} /\ Inodes = 1..Cardinality(Inodes) /\ Cardinality(Inodes) \in Nat
        BY FsAssumption, FS_CardinalityType DEF IInv, Types
      <3> QED
        BY <3>1
    <2> QED
      BY <2>1, <2>2 DEF IInv, OrphanInv
  <1> QED
    BY <1>1, Invariance, PTL
=============================================================================

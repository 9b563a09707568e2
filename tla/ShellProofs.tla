---------------------------- MODULE ShellProofs ----------------------------
(***************************************************************************)
(* The shell keeps its jobs, its terminal and the pipes of its commands,   *)
(* for any number of children and slots of the job table and any command   *)
(* lines, whatever the children do and whenever SIGCHLD is handled.        *)
(***************************************************************************)
EXTENDS Shell, FiniteSetTheorems, SequenceTheorems, WellFoundedInduction, TLAPS

Piping   == {"fork", "setpgid", "started", "wait", "waiting", "stopped", "reclaim"}
Resuming == {"cont", "mark", "rterm", "rwaiting", "rexited", "rstopped"}

Unborn == {c \in Pids : st[c] = "none"}

\* the child that was forked last, while a pipeline is executed
Last == pids[Len(pids)]

\* c was the first of its pipeline
Leads(c) == c \in Pids /\ pipeline_pgid[c] = c /\ st[c] # "none"

\* g is accounted for: it has an entry, or its loss is recorded
Known(g) == \/ g \in dropped \/ g \in lost
            \/ \E s \in Slots : jobs[s].is_active /\ jobs[s].pgid = g

\* the wait for c is still to come
Awaited(c) == \E i \in 1..Len(pids) : pids[i] = c

\* what is not born has left no trace, nobody is born before a lower pid, and a
\* process is in the shell's group or in that of its pipeline
BirthInv == \A c \in Pids :
    /\ pgrp[c] \in {Shell, pipeline_pgid[c]}
    /\ st[c] # "none" => Leads(pipeline_pgid[c])
    /\ st[c] = "none" => /\ pipeline_pgid[c] = Shell
                         /\ wr[c] = {} /\ rd[c] = {}
                         /\ \A q \in Pids : c \notin rd[q]
                         /\ \A d \in Pids : c < d => st[d] = "none"

\* the pipeline that is executed: its leader, the children it has, who know
\* whether they may take the terminal, and that there are pids for those that
\* it has still to fork
LineInv ==
    /\ pc \notin Piping => leader = Shell /\ pids = <<>>
    /\ leader # Shell =>
           /\ Leads(leader)
           /\ \A c \in Pids : pipeline_pgid[c] = leader => is_fg[c] = ~line.bg
    /\ leader = Shell <=> pc \notin Piping \/ (pc = "fork" /\ pids = <<>>)
    /\ \A i \in 1..Len(pids) : pipeline_pgid[pids[i]] = leader /\ st[pids[i]] # "none"
    /\ pc \in {"fork", "setpgid", "started"} /\ pids # <<>> => pids[1] = leader
    /\ pc \in {"setpgid", "waiting", "started"} => pids # <<>>
    /\ pc = "fork" => Len(pids) < line.cmds
    /\ pc \in {"fork", "setpgid"} =>
           /\ Len(pids) + Cardinality(Unborn) >= line.cmds
           /\ pids # <<>> => \A d \in Pids : st[d] # "none" => d <= Last

\* the reports that nobody has taken are going to be asked for
ReportInv == Reportable # {} => sigchld \/ inHandler \/ pc = "update"

\* an entry names the first process of a pipeline that has been left; that of
\* execute_resume() names one that no other names
JobInv ==
    /\ \A s \in Slots : jobs[s].is_active =>
           Leads(jobs[s].pgid) /\ (jobs[s].pgid = leader => pc = "reclaim")
    /\ pc \in Resuming =>
           /\ job \in Slots /\ Leads(jobs[job].pgid)
           /\ \A s \in Slots : jobs[s].is_active /\ jobs[s].pgid = jobs[job].pgid => s = job

\* nobody is forgotten: what the executed pipeline has not waited for it is
\* still going to; when it is left it is in the table, unless all of it has
\* ended; and an entry that execute_resume() takes out is recorded
KnownInv ==
    /\ \A c \in Alive : pipeline_pgid[c] = leader \/ Known(pipeline_pgid[c])
    /\ pc \in Piping \ {"stopped", "reclaim"} =>
           \A c \in Alive : pipeline_pgid[c] = leader => Awaited(c)
    /\ pc = "reclaim" => Known(leader) \/ \A c \in Alive : pipeline_pgid[c] # leader
    /\ pc = "rexited" => jobs[job].pgid \in lost

\* who has the terminal while no job is resumed in the foreground
TermInv ==
    term # Shell /\ pc \notin {"rwaiting", "rexited", "rstopped"} =>
        \/ taker # Shell /\ pipeline_pgid[taker] = term
        \/ term = leader /\ ~line.bg /\ pc \in Piping

\* who has the ends of the pipe to which q writes
EndsInv == \A q \in Pids :
    /\ wr[q] \subseteq {q, Shell}
    /\ Shell \in wr[q] => pc = "setpgid"
    /\ Shell \in rd[q] => /\ pc \in {"fork", "setpgid"} /\ pids # <<>>
                          /\ leader # Shell /\ pipeline_pgid[q] = leader
                          /\ q = Last \/ (pc = "setpgid" /\ q + 1 = Last)
                          /\ pc = "setpgid" /\ q = Last => MoreCmds
    /\ q \in rd[q] => st[q] = "new"
    /\ rd[q] \ {Shell, q} \subseteq NextCommand(q)

IInv == /\ TypeOK /\ BirthInv /\ LineInv /\ ReportInv /\ JobInv /\ KnownInv /\ NoStaleJob
        /\ TermInv /\ EndsInv

-----------------------------------------------------------------------------
(* What the constants give, and what the two CHOOSEs of the model return *)

LEMMA Numbers ==
    /\ MaxPid \in Nat /\ MAX_JOBS \in Nat
    /\ Pids \subseteq Nat /\ Slots \subseteq Nat /\ Shell \notin Pids /\ 0 \notin Slots
    /\ IsFiniteSet(Pids)
    /\ \A l \in Pipelines : l.cmds \in Nat /\ l.cmds >= 1 /\ l.bg \in BOOLEAN
    /\ NoLine \in [cmds : {1}, bg : BOOLEAN]
  <1>1. MaxPid \in Nat /\ MAX_JOBS \in Nat
    BY ShellAssumption
  <1>2. IsFiniteSet(Pids)
    BY <1>1, FS_Interval DEF Pids
  <1>3. \A l \in Pipelines : l.cmds \in Nat /\ l.cmds >= 1 /\ l.bg \in BOOLEAN
    BY <1>1, ShellAssumption
  <1> QED
    BY <1>1, <1>2, <1>3 DEF Pids, Slots, Shell, NoLine

\* a set of numbers has a least one
LEMMA LeastOf ==
    ASSUME NEW S, S \subseteq Nat, S # {}
    PROVE  \E x \in S : \A y \in S : x <= y
  <1> DEFINE R == OpToRel(<, Nat)
  <1>1. IsWellFoundedOn(R, Nat)
    BY NatLessThanWellFounded
  <1>2. \A x, y \in Nat : x < y => <<x, y>> \in R
    BY DEF OpToRel
  <1> HIDE DEF R
  <1>3. PICK x \in S : \A y \in S : ~(<<y, x>> \in R)
    BY <1>1, WFMin
  <1>4. ASSUME NEW y \in S PROVE x <= y
    <2>1. x \in Nat /\ y \in Nat
      OBVIOUS
    <2>2. ~(y < x)
      BY <1>2, <1>3, <2>1
    <2> QED
      BY <2>1, <2>2
  <1> QED
    BY <1>4

\* what add_job() does to a table that has a free slot
NewEntry(s, g, running) ==
    /\ s \in Slots /\ ~jobs[s].is_active
    /\ jobs' = [jobs EXCEPT ![s] = [pgid |-> g, is_running |-> running, is_active |-> TRUE]]
    /\ stillborn' = IF st[g] = "gone" THEN stillborn \cup {s} ELSE stillborn \ {s}
    /\ dropped' = dropped

LEMMA AddJobIs ==
    ASSUME NEW g, NEW running, add_job(g, running)
    PROVE  \/ dropped' = dropped \cup {g} /\ jobs' = jobs /\ stillborn' = stillborn
           \/ \E s \in Slots : NewEntry(s, g, running)
  <1>1. CASE FreeSlots = {}
    BY <1>1 DEF add_job
  <1>2. CASE FreeSlots # {}
    <2> DEFINE s == CHOOSE s \in FreeSlots : \A t \in FreeSlots : s <= t
    <2>1. FreeSlots \subseteq Slots /\ \A t \in FreeSlots : ~jobs[t].is_active
      BY DEF FreeSlots
    <2>2. s \in FreeSlots
      BY <1>2, <2>1, Numbers, LeastOf
    <2>3. NewEntry(s, g, running)
      BY <1>2, <2>1, <2>2 DEF add_job, NewEntry
    <2> QED
      BY <2>1, <2>2, <2>3
  <1> QED
    BY <1>1, <1>2

\* the child c that fork() makes, the pipe to its successor, if there is one,
\* and what it inherits
First(c) == IF pids = <<>> THEN c ELSE leader

Inherit(ends, c) ==
    [q \in Pids |-> IF q = c /\ Len(pids) + 1 < line.cmds THEN {Shell, c}
                    ELSE IF Shell \in ends[q] THEN ends[q] \cup {c}
                    ELSE ends[q]]

Born(c) ==
    /\ c \in Pids /\ st[c] = "none" /\ \A d \in Pids : d < c => st[d] # "none"
    /\ ~inHandler /\ pc = "fork" /\ pc' = "setpgid"
    /\ st' = [st EXCEPT ![c] = "new"]
    /\ wr' = Inherit(wr, c) /\ rd' = Inherit(rd, c)
    /\ leader' = First(c) /\ pids' = Append(pids, c)
    /\ pipeline_pgid' = [pipeline_pgid EXCEPT ![c] = First(c)]
    /\ is_fg' = [is_fg EXCEPT ![c] = ~line.bg]
    /\ UNCHANGED <<unreported, pgrp, termVars, sigchld, jobs, inHandler, line, job, ghostVars>>

LEMMA ForkIs ==
    ASSUME TypeOK, LineInv, Fork
    PROVE  \E c \in Pids : Born(c)
  <1> DEFINE c == CHOOSE c \in Pids : st[c] = "none" /\ \A d \in 1..(c - 1) : st[d] # "none"
  <1>1. pc = "fork"
    BY DEF Fork, Goto
  <1>2. Len(pids) < line.cmds /\ Len(pids) + Cardinality(Unborn) >= line.cmds
    BY <1>1 DEF LineInv
  <1>3. Unborn # {}
    <2>1. Unborn = {} => Cardinality(Unborn) = 0
      BY FS_EmptySet
    <2>2. Len(pids) \in Nat /\ line.cmds \in Nat
      BY Numbers DEF TypeOK
    <2> QED
      BY <1>2, <2>1, <2>2
  <1>4. PICK x \in Unborn : \A y \in Unborn : x <= y
    BY <1>3, Numbers, LeastOf DEF Unborn
  <1>5. x \in Pids /\ st[x] = "none"
    BY DEF Unborn
  <1>6. \A d \in 1..(x - 1) : st[d] # "none"
    <2> SUFFICES ASSUME NEW d \in 1..(x - 1), st[d] = "none" PROVE FALSE
      OBVIOUS
    <2>1. d \in Pids /\ ~(x <= d)
      BY <1>5, Numbers DEF Pids
    <2> QED
      BY <1>4, <2>1 DEF Unborn
  <1>7. c \in Pids /\ st[c] = "none" /\ \A d \in 1..(c - 1) : st[d] # "none"
    BY <1>5, <1>6
  <1> HIDE DEF c
  <1>8. \A d \in Pids : d < c => st[d] # "none"
    BY <1>7, Numbers DEF Pids
  <1> USE DEF c
  <1>9. Born(c)
    BY <1>7, <1>8 DEF Fork, Born, Goto, First, Inherit
  <1> QED
    BY <1>7, <1>9

-----------------------------------------------------------------------------
(* The types *)

Entries == [pgid : Pids \cup {Shell}, is_running : BOOLEAN, is_active : BOOLEAN]

\* what TypeOK says of the job table
TableOK ==
    /\ jobs \in [Slots -> Entries]
    /\ \A s, t \in Slots : jobs[s].is_active /\ jobs[t].is_active /\ s # t =>
                              jobs[s].pgid # jobs[t].pgid

\* and of what a wait takes a report from
ReportsOK ==
    /\ st \in [Pids -> {"none", "new", "run", "stop", "zombie", "gone"}]
    /\ unreported \subseteq {c \in Pids : st[c] = "stop"}

\* a table whose entries keep their groups, and become active only in a slot
\* whose group no active entry has
LEMMA TableStep ==
    ASSUME TableOK, jobs' \in [Slots -> Entries],
           \A s \in Slots : jobs'[s].is_active =>
               \/ jobs[s].is_active /\ jobs'[s].pgid = jobs[s].pgid
               \/ \A t \in Slots \ {s} : /\ jobs[t].is_active => jobs[t].pgid # jobs'[s].pgid
                                         /\ jobs'[t] = jobs[t]
    PROVE  TableOK'
  <1> SUFFICES ASSUME NEW s \in Slots, NEW t \in Slots, s # t,
                      jobs'[s].is_active, jobs'[t].is_active
               PROVE  jobs'[s].pgid # jobs'[t].pgid
    BY DEF TableOK
  <1> QED
    BY DEF TableOK

\* a report of c is taken
LEMMA CollectOK ==
    ASSUME ReportsOK, NEW c \in Reportable, Collect(c)
    PROVE  /\ ReportsOK'
           /\ c \in Pids /\ st[c] \in {"zombie", "stop"}
           /\ st[c] = "zombie" => st' = [st EXCEPT ![c] = "gone"]
           /\ st[c] = "stop" => st' = st
           /\ Reportable' = Reportable \ {c}
  <1>1. c \in Pids /\ st[c] \in {"zombie", "stop"}
    BY DEF Reportable, ReportsOK
  <1>2. st[c] = "zombie" => st' = [st EXCEPT ![c] = "gone"]
    BY DEF Collect
  <1>3. st[c] = "stop" => st' = st
    BY DEF Collect
  <1>4. unreported' = unreported \ {c}
    BY DEF Collect
  <1>5. ReportsOK'
    BY <1>1, <1>2, <1>3, <1>4 DEF ReportsOK
  <1>6. Reportable' = Reportable \ {c}
    BY <1>1, <1>2, <1>3, <1>4 DEF ReportsOK, Reportable
  <1> QED
    BY <1>1, <1>2, <1>3, <1>5, <1>6

\* and its job, if it has one, is taken out or marked
LEMMA ReapOK ==
    ASSUME ReportsOK, TableOK, NEW c \in Reportable, Reap(c)
    PROVE  /\ ReportsOK' /\ TableOK' /\ Collect(c)
           /\ \A s \in Slots :
                 /\ jobs'[s].pgid = jobs[s].pgid
                 /\ jobs'[s].is_active <=>
                       jobs[s].is_active /\ (jobs[s].pgid = c => st[c] # "zombie")
                 /\ jobs[s].is_active => jobs'[s].is_active \/ jobs[s].pgid \in lost'
           /\ lost \subseteq lost' /\ lost' \subseteq lost \cup {c}
  <1>1. Collect(c)
    BY DEF Reap
  <1>2. ReportsOK'
    BY <1>1, CollectOK
  <1>3. \A s \in Slots :
           /\ jobs'[s] \in Entries
           /\ jobs'[s].pgid = jobs[s].pgid
           /\ jobs'[s].is_active <=>
                 jobs[s].is_active /\ (jobs[s].pgid = c => st[c] # "zombie")
    <2> SUFFICES ASSUME NEW s \in Slots
                 PROVE  /\ jobs'[s] \in Entries
                        /\ jobs'[s].pgid = jobs[s].pgid
                        /\ jobs'[s].is_active <=>
                              jobs[s].is_active /\ (jobs[s].pgid = c => st[c] # "zombie")
      OBVIOUS
    <2>1. jobs[s] \in Entries
      BY DEF TableOK
    <2>2. jobs'[s] = IF jobs[s].is_active /\ jobs[s].pgid = c
                     THEN IF st[c] = "zombie" THEN [jobs[s] EXCEPT !.is_active = FALSE]
                          ELSE [jobs[s] EXCEPT !.is_running = FALSE]
                     ELSE jobs[s]
      BY DEF Reap
    <2> QED
      BY <2>1, <2>2 DEF Entries
  <1>4. jobs' \in [Slots -> Entries]
    BY <1>3 DEF Reap
  <1>5. TableOK'
    BY <1>3, <1>4, TableStep
  <1>6. /\ lost \subseteq lost' /\ lost' \subseteq lost \cup {c}
        /\ \A s \in Slots : jobs[s].is_active => jobs'[s].is_active \/ jobs[s].pgid \in lost'
    BY <1>3 DEF Reap
  <1> QED
    BY <1>1, <1>2, <1>3, <1>5, <1>6

\* an entry for a group that has none
LEMMA NewEntryOK ==
    ASSUME TableOK, NEW g \in Pids \cup {Shell}, NEW running \in BOOLEAN,
           NEW s \in Slots, NewEntry(s, g, running),
           \A t \in Slots : jobs[t].is_active => jobs[t].pgid # g
    PROVE  /\ TableOK' /\ \A t \in Slots \ {s} : jobs'[t] = jobs[t]
           /\ jobs'[s].is_active /\ jobs'[s].pgid = g
  <1>1. /\ jobs' \in [Slots -> Entries] /\ \A t \in Slots \ {s} : jobs'[t] = jobs[t]
        /\ jobs'[s] = [pgid |-> g, is_running |-> running, is_active |-> TRUE]
    BY DEF NewEntry, TableOK, Entries
  <1>2. jobs'[s].is_active /\ jobs'[s].pgid = g
    BY <1>1
  <1>3. TableOK'
    BY <1>1, <1>2, TableStep
  <1> QED
    BY <1>1, <1>2, <1>3

\* a mark in the entry of execute_resume()
LEMMA MarkOK ==
    ASSUME TableOK, NEW j \in Slots, NEW b \in BOOLEAN,
           \/ jobs' = [jobs EXCEPT ![j].is_running = b]
           \/ jobs' = [jobs EXCEPT ![j].is_active = FALSE]
    PROVE  /\ TableOK' /\ \A s \in Slots \ {j} : jobs'[s] = jobs[s]
           /\ jobs'[j].pgid = jobs[j].pgid
           /\ jobs'[j].is_active => jobs[j].is_active
  <1>1. \A s \in Slots : jobs[s] \in Entries
    BY DEF TableOK
  <1>2. /\ \A s \in Slots \ {j} : jobs'[s] = jobs[s]
        /\ \/ jobs'[j] = [jobs[j] EXCEPT !.is_running = b]
           \/ jobs'[j] = [jobs[j] EXCEPT !.is_active = FALSE]
        /\ jobs' = [s \in Slots |-> jobs'[s]]
    BY DEF TableOK
  <1>3. /\ jobs'[j] \in Entries /\ jobs'[j].pgid = jobs[j].pgid
        /\ jobs'[j].is_active => jobs[j].is_active
    BY <1>1, <1>2 DEF Entries
  <1>4. jobs' \in [Slots -> Entries]
    BY <1>1, <1>2, <1>3
  <1>5. TableOK'
    BY <1>2, <1>3, <1>4, TableStep
  <1> QED
    BY <1>2, <1>3, <1>5

\* Head and Tail
LEMMA Taken ==
    ASSUME TypeOK, pids # <<>>
    PROVE  /\ Head(pids) = pids[1] /\ pids[1] \in Pids
           /\ Tail(pids) \in Seq(Pids) /\ Len(Tail(pids)) = Len(pids) - 1
           /\ \A i \in 1..Len(Tail(pids)) : i + 1 \in 1..Len(pids) /\ Tail(pids)[i] = pids[i + 1]
  <1>1. pids \in Seq(Pids)
    BY DEF TypeOK
  <1>2. Len(pids) \in Nat /\ Len(pids) >= 1 /\ 1 \in 1..Len(pids)
    BY <1>1, EmptySeq
  <1>3. pids[1] \in Pids
    BY <1>1, <1>2
  <1> QED
    BY <1>1, <1>2, <1>3, HeadTailProperties

\* the reports that a wait may take
LEMMA WaitOK ==
    ASSUME ReportsOK, NEW c \in Pids, NEW e, NEW s, WaitStatus(c, e, s)
    PROVE  /\ ReportsOK' /\ ~inHandler
           /\ \A d \in Pids : d # c => st'[d] = st[d]
           /\ \/ c \in Reportable /\ st[c] = "zombie" /\ st'[c] = "gone" /\ pc' = e
              \/ c \in Reportable /\ st[c] = "stop" /\ st' = st /\ pc' = s
              \/ st[c] = "gone" /\ st' = st /\ unreported' = unreported /\ pc' \in {e, s}
  <1>1. CASE c \in Reportable /\ Collect(c) /\ pc' = IF st[c] = "zombie" THEN e ELSE s
    BY <1>1, CollectOK DEF WaitStatus, ReportsOK
  <1>2. CASE st[c] = "gone" /\ UNCHANGED <<st, unreported>> /\ pc' \in {e, s}
    BY <1>2 DEF WaitStatus, ReportsOK
  <1> QED
    BY <1>1, <1>2 DEF WaitStatus

LEMMA TypeParts ==
    /\ TypeOK => TableOK /\ ReportsOK
    /\ TypeOK' => TableOK' /\ ReportsOK'
  BY DEF TypeOK, TableOK, ReportsOK, Entries

-----------------------------------------------------------------------------
(* One lemma for each conjunct, with a step for each action                 *)

\* every variable keeps its type
LEMMA TypeStep == TypeOK /\ LineInv /\ JobInv /\ [Next]_vars => TypeOK'
  <1> SUFFICES ASSUME TypeOK, LineInv, JobInv, [Next]_vars PROVE TypeOK'
    OBVIOUS
  <1>1. ASSUME NEW c \in Pids, Child(c) PROVE TypeOK'
    <2>1. /\ st' = [st EXCEPT ![c] = "run"] /\ st[c] = "new"
          /\ pgrp' \in {pgrp, [pgrp EXCEPT ![c] = pipeline_pgid[c]]}
          /\ term' \in {term, pipeline_pgid[c]} /\ taker' \in {taker, Shell, c}
          /\ rd' = [rd EXCEPT ![c] = rd[c] \ {c}]
      BY <1>1 DEF Child, setpgid
    <2> QED
      BY <1>1, <2>1 DEF TypeOK, Child, mainVars, childVars, ghostVars, termVars
  <1>2. ASSUME NEW c \in Pids, Exit(c) PROVE TypeOK'
    BY <1>2, Numbers DEF TypeOK, Exit, childVars, mainVars, ghostVars, termVars
  <1>3. ASSUME NEW c \in Pids, Stop(c) PROVE TypeOK'
    BY <1>3, Numbers DEF TypeOK, Stop, childVars, mainVars, ghostVars, termVars
  <1>4. CASE HandlerStart
    BY <1>4, Numbers DEF TypeOK, HandlerStart, childVars, mainVars, ghostVars, termVars
  <1>5. CASE HandlerStep
    <2>1. /\ ReportsOK' /\ TableOK' /\ pc' \in {pc, "prompt"} /\ inHandler' \in BOOLEAN
          /\ lost' \subseteq Pids
          /\ UNCHANGED <<pgrp, wr, rd, term, taker, sigchld, pipeline_pgid, is_fg, line, leader,
                         pids, job, stillborn, dropped>>
      <3>1. CASE Reportable = {}
        BY <1>5, <3>1, TypeParts DEF HandlerStep, ReportsOK, TableOK, childVars, mainVars,
           ghostVars, TypeOK, termVars
      <3>2. CASE Reportable # {}
        <4>1. PICK c \in Reportable : Reap(c)
          BY <1>5, <3>2 DEF HandlerStep
        <4>2. lost' \subseteq Pids
          BY <4>1, ReapOK, CollectOK, TypeParts DEF TypeOK
        <4> QED
          BY <1>5, <4>1, <4>2, ReapOK, TypeParts DEF TypeOK, HandlerStep, childVars, mainVars, ghostVars,
             termVars
      <3> QED
        BY <3>1, <3>2
    <2> QED
      BY <2>1 DEF TypeOK, TableOK, ReportsOK, Entries
  <1>6. CASE UpdateJobs
    <2>1. /\ ReportsOK' /\ TableOK' /\ pc' \in {pc, "prompt"} /\ inHandler' \in BOOLEAN
          /\ lost' \subseteq Pids
          /\ UNCHANGED <<pgrp, wr, rd, term, taker, sigchld, pipeline_pgid, is_fg, line, leader,
                         pids, job, stillborn, dropped>>
      <3>1. CASE Reportable = {}
        BY <1>6, <3>1, TypeParts DEF UpdateJobs, ReportsOK, TableOK, childVars, mainVars,
           ghostVars, TypeOK, termVars
      <3>2. CASE Reportable # {}
        <4>1. PICK c \in Reportable : Reap(c)
          BY <1>6, <3>2 DEF UpdateJobs
        <4>2. lost' \subseteq Pids
          BY <4>1, ReapOK, CollectOK, TypeParts DEF TypeOK
        <4> QED
          BY <1>6, <4>1, <4>2, ReapOK, TypeParts DEF TypeOK, UpdateJobs, childVars, mainVars, ghostVars,
             termVars
      <3> QED
        BY <3>1, <3>2
    <2> QED
      BY <2>1 DEF TypeOK, TableOK, ReportsOK, Entries
  <1>7. CASE EndLine
    BY <1>7, Numbers DEF TypeOK, EndLine, Goto, kernelVars, termVars, childVars, ghostVars
  <1>8. ASSUME NEW l \in Pipelines, Pipeline(l) PROVE TypeOK'
    BY <1>8, Numbers DEF TypeOK, Pipeline, CanStart, Goto, kernelVars, termVars, childVars,
       ghostVars
  <1>9. ASSUME NEW procs \in Targets, execute_ping(procs) PROVE TypeOK'
    BY <1>9, Numbers DEF TypeOK, execute_ping, CanStart, Goto, Continue, Members, Unreaped,
       childVars, ghostVars, termVars
  <1>10. ASSUME NEW c \in Pids, Born(c) PROVE TypeOK'
    BY <1>10, Numbers DEF TypeOK, Born, First, Inherit, ghostVars, termVars
  <1>11. CASE SetPgid
    <2>1. /\ pgrp' \in [Pids -> Pids \cup {Shell}]
          /\ wr' \in [Pids -> SUBSET (Pids \cup {Shell})]
          /\ rd' \in [Pids -> SUBSET (Pids \cup {Shell})]
      BY <1>11 DEF TypeOK, SetPgid, setpgid, CloseEnds
    <2>2. pc' \in {"fork", "started"}
      BY <1>11 DEF SetPgid, Goto
    <2> QED
      BY <1>11, <2>1, <2>2 DEF TypeOK, SetPgid, Goto, childVars, ghostVars, termVars
  <1>12. CASE Background
    <2>1. /\ pc \in Piping \ {"reclaim"} /\ leader \in Pids /\ add_job(leader, TRUE)
      BY <1>12 DEF Background, Goto, Piping, TypeOK, LineInv, Shell, termVars
    <2>2. \A s \in Slots : jobs[s].is_active => jobs[s].pgid # leader
      BY <2>1 DEF JobInv
    <2>3. TableOK' /\ stillborn' \subseteq Slots /\ dropped' \subseteq Pids
      <3>1. CASE dropped' = dropped \cup {leader} /\ jobs' = jobs /\ stillborn' = stillborn
        BY <2>1, <3>1, TypeParts DEF TypeOK, TableOK
      <3>2. CASE \E s \in Slots : NewEntry(s, leader, TRUE)
        BY <2>1, <2>2, <3>2, NewEntryOK, TypeParts DEF TypeOK, NewEntry
      <3> QED
        BY <2>1, <3>1, <3>2, AddJobIs
    <2> QED
      BY <1>12, <2>1, <2>3, EmptySeq DEF TypeOK, TableOK, Entries, Background, Goto, kernelVars,
         termVars, childVars, NoLine
  <1>13. CASE Foreground
    BY <1>13, Numbers DEF TypeOK, Foreground, Goto, tcsetpgrp, termVars, childVars, ghostVars
  <1>14. CASE Wait
    BY <1>14, Numbers DEF TypeOK, Wait, Goto, kernelVars, termVars, childVars, ghostVars
  <1>15. CASE Waited
    <2>1. pids # <<>> /\ WaitStatus(Head(pids), "wait", "stopped") /\ pids' = Tail(pids)
      BY <1>15 DEF Waited, LineInv
    <2>2. Head(pids) \in Pids /\ Tail(pids) \in Seq(Pids)
      BY <2>1, Taken
    <2>3. ReportsOK' /\ pc' \in {"wait", "stopped"}
      BY <2>1, <2>2, WaitOK, TypeParts
    <2> QED
      BY <1>15, <2>1, <2>2, <2>3 DEF TypeOK, ReportsOK, Waited, childVars, ghostVars, termVars
  <1>16. CASE Stopped
    <2>1. /\ pc \in Piping \ {"reclaim"} /\ leader \in Pids /\ add_job(leader, FALSE)
      BY <1>16 DEF Stopped, Goto, Piping, TypeOK, LineInv, Shell, termVars
    <2>2. \A s \in Slots : jobs[s].is_active => jobs[s].pgid # leader
      BY <2>1 DEF JobInv
    <2>3. TableOK' /\ stillborn' \subseteq Slots /\ dropped' \subseteq Pids
      <3>1. CASE dropped' = dropped \cup {leader} /\ jobs' = jobs /\ stillborn' = stillborn
        BY <2>1, <3>1, TypeParts DEF TypeOK, TableOK
      <3>2. CASE \E s \in Slots : NewEntry(s, leader, FALSE)
        BY <2>1, <2>2, <3>2, NewEntryOK, TypeParts DEF TypeOK, NewEntry
      <3> QED
        BY <2>1, <3>1, <3>2, AddJobIs
    <2> QED
      BY <1>16, <2>1, <2>3, EmptySeq DEF TypeOK, TableOK, Entries, Stopped, Goto, kernelVars,
         termVars, childVars, NoLine
  <1>17. CASE Reclaim
    <2>1. term' = Shell /\ taker' = Shell
      BY <1>17 DEF Reclaim, tcsetpgrp, termVars, IsGroup
    <2> QED
      BY <1>17, <2>1, EmptySeq, Numbers DEF TypeOK, Reclaim, Goto, childVars, ghostVars, termVars
  <1>18. ASSUME NEW s \in Slots, NEW bg \in BOOLEAN, Resume(s, bg) PROVE TypeOK'
    BY <1>18, Numbers DEF TypeOK, Resume, CanStart, Goto, kernelVars, termVars, childVars, ghostVars
  <1>19. CASE Cont
    BY <1>19, Numbers DEF TypeOK, Cont, Goto, Continue, Members, Unreaped, childVars, ghostVars,
       termVars
  <1>20. CASE Mark
    <2>1. job \in Slots
      BY <1>20 DEF Mark, Goto, JobInv, Resuming
    <2>2. TableOK'
      BY <1>20, <2>1, MarkOK, TypeParts DEF Mark
    <2> QED
      BY <1>20, <2>1, <2>2, Numbers DEF TypeOK, TableOK, Entries, Mark, Goto, kernelVars,
         termVars, childVars, ghostVars
  <1>21. CASE ResumeTerm
    <2>1. jobs[job].pgid \in Pids
      BY <1>21 DEF ResumeTerm, Goto, JobInv, Resuming, Leads
    <2> QED
      BY <1>21, <2>1 DEF TypeOK, ResumeTerm, Goto, tcsetpgrp, termVars, childVars, ghostVars
  <1>22. CASE ResumeWaited
    <2>1. PICK c \in Pids : /\ WaitStatus(c, "rexited", "rstopped")
                            /\ lost' \subseteq lost \cup {jobs[job].pgid}
                            /\ jobs[job].pgid \in Pids
      <3>1. jobs[job].pgid \in Pids
        BY <1>22 DEF ResumeWaited, JobInv, Resuming, Leads
      <3> QED
        BY <1>22, <3>1 DEF ResumeWaited, Members, Unreaped
    <2>2. ReportsOK' /\ pc' \in {"rexited", "rstopped"}
      BY <2>1, WaitOK, TypeParts
    <2> QED
      BY <1>22, <2>1, <2>2 DEF TypeOK, ReportsOK, ResumeWaited, childVars, ghostVars, termVars
  <1>23. CASE ResumeDone
    <2>1. job \in Slots /\ term' = Shell /\ taker' = Shell
      BY <1>23 DEF ResumeDone, Goto, JobInv, Resuming, tcsetpgrp, termVars, IsGroup
    <2>2. TableOK'
      BY <1>23, <2>1, MarkOK, TypeParts DEF ResumeDone
    <2> QED
      BY <1>23, <2>1, <2>2 DEF TypeOK, TableOK, Entries, ResumeDone, Goto, childVars, ghostVars,
         termVars
  <1>24. CASE UNCHANGED vars
    BY <1>24, Numbers DEF TypeOK, vars, kernelVars, termVars, childVars, mainVars, ghostVars
  <1> QED
    BY <1>1, <1>2, <1>3, <1>4, <1>5, <1>6, <1>7, <1>8, <1>9, <1>10, <1>11, <1>12,
       <1>13, <1>14, <1>15, <1>16, <1>17, <1>18, <1>19, <1>20, <1>21, <1>22, <1>23,
       <1>24, ForkIs DEF Next, Main, sigchld_handler, execute_pipeline, execute_resume

\* what a step that forks nothing leaves as it is: who is born and to which
\* pipeline; what has ended stays so, and nobody starts anew
Ages ==
    /\ pipeline_pgid' = pipeline_pgid /\ is_fg' = is_fg
    /\ \A c \in Pids : /\ st'[c] = "none" <=> st[c] = "none"
                       /\ st[c] = "gone" => st'[c] = "gone"
                       /\ st'[c] = "new" => st[c] = "new"
                       /\ c \in Alive' => c \in Alive

LEMMA AgesStep == TypeOK /\ LineInv /\ JobInv /\ [Next]_vars => Ages \/ \E b \in Pids : Born(b)
  <1> SUFFICES ASSUME TypeOK, LineInv, JobInv, [Next]_vars PROVE Ages \/ \E b \in Pids : Born(b)
    OBVIOUS
  <1>1. ASSUME NEW c \in Pids, Child(c) PROVE Ages \/ \E b \in Pids : Born(b)
    BY <1>1 DEF TypeOK, Ages, Alive, Child, setpgid, childVars, mainVars, ghostVars
  <1>2. ASSUME NEW c \in Pids, Exit(c) PROVE Ages \/ \E b \in Pids : Born(b)
    BY <1>2 DEF TypeOK, Ages, Alive, Exit, childVars, mainVars, ghostVars
  <1>3. ASSUME NEW c \in Pids, Stop(c) PROVE Ages \/ \E b \in Pids : Born(b)
    BY <1>3 DEF TypeOK, Ages, Alive, Stop, childVars, mainVars, ghostVars
  <1>4. CASE HandlerStart
    BY <1>4 DEF TypeOK, Ages, Alive, HandlerStart, childVars, mainVars, ghostVars
  <1>5. CASE HandlerStep
    <2>1. CASE Reportable = {}
      BY <1>5, <2>1 DEF HandlerStep, Ages, Alive, childVars
    <2>2. CASE Reportable # {}
      <3>1. PICK c \in Reportable : Reap(c)
        BY <1>5, <2>2 DEF HandlerStep
      <3> QED
        BY <1>5, <3>1, ReapOK, CollectOK, TypeParts DEF HandlerStep, Ages, Alive, ReportsOK,
           childVars
    <2> QED
      BY <2>1, <2>2
  <1>6. CASE UpdateJobs
    <2>1. CASE Reportable = {}
      BY <1>6, <2>1 DEF UpdateJobs, Ages, Alive, childVars
    <2>2. CASE Reportable # {}
      <3>1. PICK c \in Reportable : Reap(c)
        BY <1>6, <2>2 DEF UpdateJobs
      <3> QED
        BY <1>6, <3>1, ReapOK, CollectOK, TypeParts DEF UpdateJobs, Ages, Alive, ReportsOK,
           childVars
    <2> QED
      BY <2>1, <2>2
  <1>7. CASE EndLine
    BY <1>7 DEF TypeOK, Ages, Alive, EndLine, Goto, kernelVars, childVars, ghostVars
  <1>8. ASSUME NEW l \in Pipelines, Pipeline(l) PROVE Ages \/ \E b \in Pids : Born(b)
    BY <1>8 DEF TypeOK, Ages, Alive, Pipeline, CanStart, Goto, kernelVars, childVars, ghostVars
  <1>9. ASSUME NEW procs \in Targets, execute_ping(procs) PROVE Ages \/ \E b \in Pids : Born(b)
    BY <1>9 DEF TypeOK, Ages, Alive, execute_ping, CanStart, Goto, Continue, Members, Unreaped,
       childVars, ghostVars
  <1>10. ASSUME NEW c \in Pids, Born(c) PROVE Ages \/ \E b \in Pids : Born(b)
    BY <1>10
  <1>11. CASE SetPgid
    BY <1>11 DEF TypeOK, Ages, Alive, SetPgid, Goto, setpgid, CloseEnds, childVars, ghostVars
  <1>12. CASE Background
    BY <1>12 DEF TypeOK, Ages, Alive, Background, Goto, kernelVars, childVars
  <1>13. CASE Foreground
    BY <1>13 DEF TypeOK, Ages, Alive, Foreground, Goto, tcsetpgrp, childVars, ghostVars
  <1>14. CASE Wait
    BY <1>14 DEF TypeOK, Ages, Alive, Wait, Goto, kernelVars, childVars, ghostVars
  <1>15. CASE Waited
    <2>1. pids # <<>> /\ WaitStatus(Head(pids), "wait", "stopped")
      BY <1>15 DEF Waited, LineInv
    <2>2. Head(pids) \in Pids
      BY <2>1, Taken
    <2> QED
      BY <1>15, <2>1, <2>2, WaitOK, TypeParts DEF Waited, Ages, Alive, childVars
  <1>16. CASE Stopped
    BY <1>16 DEF TypeOK, Ages, Alive, Stopped, Goto, kernelVars, childVars
  <1>17. CASE Reclaim
    BY <1>17 DEF TypeOK, Ages, Alive, Reclaim, Goto, tcsetpgrp, childVars, ghostVars
  <1>18. ASSUME NEW s \in Slots, NEW bg \in BOOLEAN, Resume(s, bg) PROVE Ages \/ \E b \in Pids : Born(b)
    BY <1>18 DEF TypeOK, Ages, Alive, Resume, CanStart, Goto, kernelVars, childVars, ghostVars
  <1>19. CASE Cont
    BY <1>19 DEF TypeOK, Ages, Alive, Cont, Goto, Continue, Members, Unreaped, childVars, ghostVars
  <1>20. CASE Mark
    BY <1>20 DEF TypeOK, Ages, Alive, Mark, Goto, kernelVars, childVars, ghostVars
  <1>21. CASE ResumeTerm
    BY <1>21 DEF TypeOK, Ages, Alive, ResumeTerm, Goto, tcsetpgrp, childVars, ghostVars
  <1>22. CASE ResumeWaited
    <2>1. PICK c \in Pids : WaitStatus(c, "rexited", "rstopped")
      <3>1. jobs[job].pgid \in Pids
        BY <1>22 DEF ResumeWaited, JobInv, Resuming, Leads
      <3> QED
        BY <1>22, <3>1 DEF ResumeWaited, Members, Unreaped
    <2> QED
      BY <1>22, <2>1, WaitOK, TypeParts DEF ResumeWaited, Ages, Alive, childVars
  <1>23. CASE ResumeDone
    BY <1>23 DEF TypeOK, Ages, Alive, ResumeDone, Goto, tcsetpgrp, childVars, ghostVars
  <1>24. CASE UNCHANGED vars
    BY <1>24 DEF TypeOK, Ages, Alive, vars, kernelVars, childVars, mainVars, ghostVars
  <1> QED
    BY <1>1, <1>2, <1>3, <1>4, <1>5, <1>6, <1>7, <1>8, <1>9, <1>10, <1>11, <1>12,
       <1>13, <1>14, <1>15, <1>16, <1>17, <1>18, <1>19, <1>20, <1>21, <1>22, <1>23,
       <1>24, ForkIs DEF Next, Main, sigchld_handler, execute_pipeline, execute_resume

\* what is not born leaves no trace
LEMMA BirthStep == TypeOK /\ LineInv /\ JobInv /\ BirthInv /\ [Next]_vars => BirthInv'
  <1> SUFFICES ASSUME TypeOK, LineInv, JobInv, BirthInv, [Next]_vars PROVE BirthInv'
    OBVIOUS
  <1>1. ASSUME NEW c \in Pids, Child(c) PROVE BirthInv'
    <2>1. /\ pipeline_pgid' = pipeline_pgid /\ wr' = wr
          /\ rd' = [rd EXCEPT ![c] = rd[c] \ {c}]
          /\ pgrp' \in {pgrp, [pgrp EXCEPT ![c] = pipeline_pgid[c]]}
          /\ \A d \in Pids : st'[d] = "none" <=> st[d] = "none"
      BY <1>1 DEF Child, setpgid, childVars, TypeOK
    <2> QED
      BY <2>1 DEF TypeOK, BirthInv, Leads
  <1>2. ASSUME NEW c \in Pids, Exit(c) PROVE BirthInv'
    BY <1>2 DEF TypeOK, BirthInv, Leads, Exit, childVars, mainVars, ghostVars
  <1>3. ASSUME NEW c \in Pids, Stop(c) PROVE BirthInv'
    BY <1>3 DEF TypeOK, BirthInv, Leads, Stop, childVars, mainVars, ghostVars
  <1>4. CASE HandlerStart
    BY <1>4 DEF TypeOK, BirthInv, Leads, HandlerStart, childVars, mainVars, ghostVars
  <1>5. CASE HandlerStep
    <2>1. \A d \in Pids : st'[d] = "none" <=> st[d] = "none"
      BY <1>5 DEF TypeOK, HandlerStep, Reap, Collect, Reportable
    <2> QED
      BY <1>5, <2>1 DEF TypeOK, BirthInv, Leads, HandlerStep, childVars
  <1>6. CASE UpdateJobs
    <2>1. \A d \in Pids : st'[d] = "none" <=> st[d] = "none"
      BY <1>6 DEF TypeOK, UpdateJobs, Reap, Collect, Reportable
    <2> QED
      BY <1>6, <2>1 DEF TypeOK, BirthInv, Leads, UpdateJobs, childVars
  <1>7. CASE EndLine
    BY <1>7 DEF TypeOK, BirthInv, Leads, EndLine, Goto, kernelVars, childVars, ghostVars
  <1>8. ASSUME NEW l \in Pipelines, Pipeline(l) PROVE BirthInv'
    BY <1>8 DEF TypeOK, BirthInv, Leads, Pipeline, CanStart, Goto, kernelVars, childVars, ghostVars
  <1>9. ASSUME NEW procs \in Targets, execute_ping(procs) PROVE BirthInv'
    BY <1>9 DEF TypeOK, BirthInv, Leads, execute_ping, CanStart, Goto, Continue, Members, Unreaped,
       childVars, ghostVars
  <1>10. ASSUME NEW c \in Pids, Born(c) PROVE BirthInv'
    <2>1. st[c] = "none" /\ pgrp' = pgrp /\ \A d \in Pids : d < c => st[d] # "none"
      BY <1>10 DEF Born
    <2>2. ASSUME NEW d \in Pids, st'[d] = "none" PROVE d # c /\ st[d] = "none"
      BY <1>10, <2>2 DEF Born, TypeOK
    <2>3. ASSUME NEW d \in Pids, st[d] = "none", d # c
          PROVE  /\ pipeline_pgid'[d] = pipeline_pgid[d] /\ wr'[d] = wr[d] /\ rd'[d] = rd[d]
                 /\ \A q \in Pids : d \in rd'[q] => d \in rd[q]
      BY <1>10, <2>3, Numbers DEF Born, Inherit, TypeOK, BirthInv
    <2>4. ASSUME NEW d \in Pids, d # c PROVE pipeline_pgid'[d] = pipeline_pgid[d]
      BY <1>10, <2>4 DEF Born, TypeOK
    <2>5. \A d \in Pids : pgrp'[d] \in {Shell, pipeline_pgid'[d]}
      BY <2>1, <2>4 DEF BirthInv
    <2>6. ASSUME NEW d \in Pids, st'[d] = "none"
          PROVE  /\ pipeline_pgid'[d] = Shell /\ wr'[d] = {} /\ rd'[d] = {}
                 /\ \A q \in Pids : d \notin rd'[q]
      BY <2>2, <2>3, <2>6 DEF BirthInv
    <2>7. ASSUME NEW d \in Pids, NEW e \in Pids, st'[d] = "none", d < e PROVE st'[e] = "none"
      <3>1. d # c /\ st[d] = "none" /\ st[e] = "none"
        BY <2>2, <2>7 DEF BirthInv
      <3>2. e # c
        BY <2>1, <2>7, <3>1
      <3> QED
        BY <1>10, <3>1, <3>2 DEF Born, TypeOK
    <2>8. ASSUME NEW d \in Pids, st'[d] # "none" PROVE Leads(pipeline_pgid[d])'
      <3>1. \A g \in Pids : Leads(g) => Leads(g)'
        BY <1>10 DEF Born, Leads, TypeOK
      <3>2. CASE d # c
        <4>1. Leads(pipeline_pgid[d])
          BY <1>10, <2>8, <3>2 DEF Born, TypeOK, BirthInv
        <4> QED
          BY <2>4, <3>1, <3>2, <4>1 DEF Leads
      <3>3. CASE d = c /\ pids = <<>>
        BY <1>10, <3>3 DEF Born, First, Leads, TypeOK
      <3>4. CASE d = c /\ pids # <<>>
        <4>1. Leads(leader) /\ pipeline_pgid'[d] = leader
          BY <1>10, <3>4 DEF Born, First, TypeOK, LineInv, Piping
        <4> QED
          BY <3>1, <4>1 DEF Leads
      <3> QED
        BY <3>2, <3>3, <3>4
    <2> QED
      BY <2>5, <2>6, <2>7, <2>8 DEF BirthInv
  <1>11. CASE SetPgid
    <2>1. PICK c \in Pids :
              /\ pipeline_pgid[c] = leader /\ st[c] # "none"
              /\ pgrp' = pgrp \/ pgrp' = [pgrp EXCEPT ![c] = leader]
              /\ CloseEnds(c)
      <3>1. pids # <<>> /\ Len(pids) \in 1..Len(pids) /\ pids[Len(pids)] \in Pids
        BY <1>11, EmptySeq DEF SetPgid, Goto, LineInv, TypeOK
      <3> QED
        BY <1>11, <3>1 DEF SetPgid, setpgid, LineInv
    <2>2. st' = st /\ pipeline_pgid' = pipeline_pgid
      BY <1>11 DEF SetPgid, childVars
    <2>3. \A q \in Pids : wr'[q] \subseteq wr[q] /\ rd'[q] \subseteq rd[q]
      BY <2>1 DEF CloseEnds
    <2> QED
      BY <2>1, <2>2, <2>3 DEF TypeOK, BirthInv, Leads
  <1>12. CASE Background
    BY <1>12 DEF TypeOK, BirthInv, Leads, Background, Goto, kernelVars, childVars
  <1>13. CASE Foreground
    BY <1>13 DEF TypeOK, BirthInv, Leads, Foreground, Goto, tcsetpgrp, childVars, ghostVars
  <1>14. CASE Wait
    BY <1>14 DEF TypeOK, BirthInv, Leads, Wait, Goto, kernelVars, childVars, ghostVars
  <1>15. CASE Waited
    BY <1>15 DEF TypeOK, BirthInv, Leads, Waited, WaitStatus, Collect, Reportable, childVars, ghostVars
  <1>16. CASE Stopped
    BY <1>16 DEF TypeOK, BirthInv, Leads, Stopped, Goto, kernelVars, childVars
  <1>17. CASE Reclaim
    BY <1>17 DEF TypeOK, BirthInv, Leads, Reclaim, Goto, tcsetpgrp, childVars, ghostVars
  <1>18. ASSUME NEW s \in Slots, NEW bg \in BOOLEAN, Resume(s, bg) PROVE BirthInv'
    BY <1>18 DEF TypeOK, BirthInv, Leads, Resume, CanStart, Goto, kernelVars, childVars, ghostVars
  <1>19. CASE Cont
    BY <1>19 DEF TypeOK, BirthInv, Leads, Cont, Goto, Continue, Members, Unreaped, childVars, ghostVars
  <1>20. CASE Mark
    BY <1>20 DEF TypeOK, BirthInv, Leads, Mark, Goto, kernelVars, childVars, ghostVars
  <1>21. CASE ResumeTerm
    BY <1>21 DEF TypeOK, BirthInv, Leads, ResumeTerm, Goto, tcsetpgrp, childVars, ghostVars
  <1>22. CASE ResumeWaited
    BY <1>22 DEF TypeOK, BirthInv, Leads, ResumeWaited, WaitStatus, Collect, Reportable, Members,
       Unreaped, childVars, ghostVars
  <1>23. CASE ResumeDone
    BY <1>23 DEF TypeOK, BirthInv, Leads, ResumeDone, Goto, tcsetpgrp, childVars, ghostVars
  <1>24. CASE UNCHANGED vars
    BY <1>24 DEF TypeOK, BirthInv, Leads, vars, kernelVars, childVars, mainVars, ghostVars
  <1> QED
    BY <1>1, <1>2, <1>3, <1>4, <1>5, <1>6, <1>7, <1>8, <1>9, <1>10, <1>11, <1>12,
       <1>13, <1>14, <1>15, <1>16, <1>17, <1>18, <1>19, <1>20, <1>21, <1>22, <1>23,
       <1>24, ForkIs DEF Next, Main, sigchld_handler, execute_pipeline, execute_resume

\* the line stays what it was where its variables are left alone, and outside
\* of execute_pipeline()
LEMMA LineKept ==
    ASSUME TypeOK, LineInv, Ages, leader' = leader, pids' = pids,
           \/ pc' = pc /\ line' = line
           \/ pc \notin Piping /\ pc' \notin Piping
    PROVE  LineInv'
  <1>1. Unborn' = Unborn
    BY DEF Ages, Unborn
  <1>2. \A c \in Pids : Leads(c) => Leads(c)'
    BY DEF Ages, Leads
  <1>3. leader \in Pids \cup {Shell} /\ \A i \in 1..Len(pids) : pids[i] \in Pids
    BY DEF TypeOK
  <1>4. CASE pc' = pc /\ line' = line
    BY <1>1, <1>2, <1>3, <1>4, Numbers DEF LineInv, Ages, Piping, Last, Unborn
  <1>5. CASE pc \notin Piping /\ pc' \notin Piping
    BY <1>2, <1>3, <1>5 DEF LineInv, Ages, Piping
  <1> QED
    BY <1>4, <1>5

\* the pipeline that is executed
LEMMA LineStep == TypeOK /\ BirthInv /\ LineInv /\ JobInv /\ [Next]_vars => LineInv'
  <1> SUFFICES ASSUME TypeOK, BirthInv, LineInv, JobInv, [Next]_vars PROVE LineInv'
    OBVIOUS
  <1>1. ASSUME NEW c \in Pids, Born(c) PROVE LineInv'
    <2>1. /\ pc = "fork" /\ pc' = "setpgid" /\ st[c] = "none" /\ line' = line
          /\ st' = [st EXCEPT ![c] = "new"]
          /\ pipeline_pgid' = [pipeline_pgid EXCEPT ![c] = First(c)]
          /\ leader' = First(c) /\ pids' = Append(pids, c)
      BY <1>1 DEF Born
    <2>2. /\ Len(pids) \in Nat /\ Len(pids') = Len(pids) + 1 /\ pids'[Len(pids) + 1] = c
          /\ \A i \in 1..Len(pids) : pids'[i] = pids[i] /\ pids[i] \in Pids
          /\ pids' \in Seq(Pids) /\ pids' # <<>> /\ pids = <<>> <=> Len(pids) = 0
      BY <2>1, EmptySeq DEF TypeOK
    <2>3. /\ leader' \in Pids /\ Leads(leader)' /\ leader' # Shell
          /\ pids # <<>> => First(c) = leader /\ leader # c
      BY <2>1, Numbers DEF First, LineInv, Leads, TypeOK, Piping, Shell
    <2>4. \A i \in 1..Len(pids') : pipeline_pgid'[pids'[i]] = leader' /\ st'[pids'[i]] # "none"
      <3> SUFFICES ASSUME NEW i \in 1..Len(pids')
                   PROVE  pipeline_pgid'[pids'[i]] = leader' /\ st'[pids'[i]] # "none"
        OBVIOUS
      <3>1. CASE i = Len(pids) + 1
        BY <2>1, <2>2, <3>1 DEF TypeOK
      <3>2. CASE i # Len(pids) + 1
        <4>1. i \in 1..Len(pids) /\ pids # <<>>
          BY <2>2, <3>2
        <4> QED
          BY <2>1, <2>2, <2>3, <4>1 DEF TypeOK, LineInv
      <3> QED
        BY <3>1, <3>2
    <2>5. pids'[1] = leader'
      BY <2>1, <2>2, <2>3 DEF First, LineInv
    <2>6. Cardinality(Unborn') = Cardinality(Unborn) - 1 /\ Cardinality(Unborn) \in Nat
      <3>1. IsFiniteSet(Unborn)
        BY Numbers, FS_Subset DEF Unborn
      <3>2. Unborn' = Unborn \ {c} /\ c \in Unborn
        BY <2>1 DEF Unborn, TypeOK
      <3> QED
        BY <3>1, <3>2, FS_RemoveElement, FS_CardinalityType
    <2>7. line.cmds \in Nat /\ Len(pids) + Cardinality(Unborn) >= line.cmds
      BY <2>1, Numbers DEF LineInv, TypeOK
    <2>8. Len(pids') + Cardinality(Unborn') >= line'.cmds
      BY <2>1, <2>2, <2>6, <2>7
    <2>9. ASSUME NEW d \in Pids, st'[d] # "none" PROVE d <= Last'
      <3>1. d = c \/ st[d] # "none"
        BY <2>1, <2>9 DEF TypeOK
      <3>2. ~(c < d) \/ d = c
        BY <2>1, <3>1 DEF BirthInv
      <3> QED
        BY <2>2, <3>2, Numbers DEF Last
    <2>10. ASSUME NEW d \in Pids, pipeline_pgid'[d] = leader' PROVE is_fg'[d] = ~line'.bg
      <3>1. is_fg' = [is_fg EXCEPT ![c] = ~line.bg]
        BY <1>1 DEF Born
      <3>2. CASE d = c
        BY <2>1, <3>1, <3>2 DEF TypeOK
      <3>3. CASE d # c
        <4>1. pipeline_pgid[d] = First(c) /\ is_fg'[d] = is_fg[d]
          BY <2>1, <2>10, <3>1, <3>3 DEF TypeOK
        <4>2. First(c) # c
          BY <2>1, <4>1, Numbers DEF BirthInv, Leads
        <4>3. leader # Shell /\ First(c) = leader
          BY <2>1, <4>2 DEF First, LineInv
        <4> QED
          BY <2>1, <4>1, <4>3 DEF LineInv
      <3> QED
        BY <3>2, <3>3
    <2> QED
      BY <2>1, <2>2, <2>3, <2>4, <2>5, <2>8, <2>9, <2>10 DEF LineInv, Piping
  <1>2. ASSUME Ages PROVE LineInv'
    <2>1. ASSUME NEW c \in Pids, Child(c) PROVE LineInv'
      BY <1>2, <2>1, LineKept DEF Child, mainVars
    <2>2. ASSUME NEW c \in Pids, Exit(c) PROVE LineInv'
      BY <1>2, <2>2, LineKept DEF Exit, mainVars
    <2>3. ASSUME NEW c \in Pids, Stop(c) PROVE LineInv'
      BY <1>2, <2>3, LineKept DEF Stop, mainVars
    <2>4. CASE HandlerStart
      BY <1>2, <2>4, LineKept DEF HandlerStart, mainVars
    <2>5. CASE HandlerStep
      BY <1>2, <2>5, LineKept DEF HandlerStep, mainVars
    <2>6. CASE UpdateJobs
      BY <1>2, <2>6, LineKept DEF UpdateJobs, Piping
    <2>7. CASE EndLine
      BY <1>2, <2>7, LineKept DEF EndLine, Goto, Piping
    <2>8. ASSUME NEW l \in Pipelines, Pipeline(l) PROVE LineInv'
      <3>1. Unborn' = Unborn /\ Cardinality(Unborn) >= l.cmds /\ leader' = Shell /\ pids' = <<>>
        BY <2>8 DEF Pipeline, CanStart, Goto, Unborn, LineInv, Piping, kernelVars
      <3>2. Len(pids') = 0 /\ l.cmds \in Nat /\ l.cmds >= 1 /\ line' = l /\ pc' = "fork"
        BY <2>8, <3>1, Numbers, EmptySeq DEF Pipeline, CanStart, Goto
      <3>3. Cardinality(Unborn) \in Nat
        BY Numbers, FS_Subset, FS_CardinalityType DEF Unborn
      <3> QED
        BY <3>1, <3>2, <3>3 DEF LineInv, Piping
    <2>9. ASSUME NEW procs \in Targets, execute_ping(procs) PROVE LineInv'
      BY <1>2, <2>9, LineKept DEF execute_ping, CanStart, Goto, Piping
    <2>10. CASE SetPgid
      <3>1. /\ pc = "setpgid" /\ pc' = IF MoreCmds THEN "fork" ELSE "started"
            /\ Unborn' = Unborn /\ UNCHANGED <<st, pipeline_pgid, is_fg, leader, pids, line>>
        BY <2>10 DEF SetPgid, Goto, childVars, Unborn
      <3> QED
        BY <3>1 DEF LineInv, Piping, MoreCmds, Leads, Last
    <2>11. CASE Background
      <3>1. pc' = "next" /\ leader' = Shell /\ pids' = <<>>
        BY <2>11 DEF Background, Goto
      <3> QED
        BY <3>1, EmptySeq DEF LineInv, Piping
    <2>12. CASE Foreground
      <3>1. pc = "started" /\ pc' = "wait" /\ UNCHANGED <<st, pipeline_pgid, is_fg, leader, pids, line>>
        BY <2>12 DEF Foreground, Goto, kernelVars, childVars
      <3> QED
        BY <3>1 DEF LineInv, Piping, Leads
    <2>13. CASE Wait
      <3>1. /\ pc = "wait" /\ pc' = IF pids = <<>> THEN "reclaim" ELSE "waiting"
            /\ UNCHANGED <<st, pipeline_pgid, is_fg, leader, pids, line>>
        BY <2>13 DEF Wait, Goto, kernelVars, childVars
      <3> QED
        BY <3>1 DEF LineInv, Piping, Leads
    <2>14. CASE Waited
      <3>1. /\ pc = "waiting" /\ pids # <<>> /\ pids' = Tail(pids)
            /\ WaitStatus(Head(pids), "wait", "stopped") /\ UNCHANGED <<leader, line>>
        BY <2>14 DEF Waited, LineInv
      <3>2. /\ Head(pids) = pids[1] /\ pids[1] \in Pids
            /\ \A i \in 1..Len(Tail(pids)) : i + 1 \in 1..Len(pids) /\ Tail(pids)[i] = pids[i + 1]
        BY <3>1, Taken
      <3>3. pc' \in {"wait", "stopped"}
        BY <3>1 DEF WaitStatus
      <3>4. leader # Shell /\ leader \in Pids /\ Leads(leader)
        BY <3>1 DEF LineInv, Piping, TypeOK
      <3>5. \A i \in 1..Len(pids') : pipeline_pgid'[pids'[i]] = leader' /\ st'[pids'[i]] # "none"
        <4> SUFFICES ASSUME NEW i \in 1..Len(pids')
                     PROVE  pipeline_pgid'[pids'[i]] = leader' /\ st'[pids'[i]] # "none"
          OBVIOUS
        <4>1. i + 1 \in 1..Len(pids) /\ pids'[i] = pids[i + 1] /\ pids[i + 1] \in Pids
          BY <3>1, <3>2 DEF TypeOK
        <4> QED
          BY <1>2, <3>1, <4>1 DEF LineInv, Ages
      <3> QED
        BY <1>2, <3>1, <3>3, <3>4, <3>5 DEF LineInv, Piping, Leads, Ages
    <2>15. CASE Stopped
      <3>1. pc = "stopped" /\ pc' = "reclaim" /\ UNCHANGED <<st, pipeline_pgid, is_fg, leader, pids, line>>
        BY <2>15 DEF Stopped, Goto, kernelVars, childVars
      <3> QED
        BY <3>1 DEF LineInv, Piping, Leads
    <2>16. CASE Reclaim
      <3>1. pc' = "next" /\ leader' = Shell /\ pids' = <<>>
        BY <2>16 DEF Reclaim, Goto
      <3> QED
        BY <3>1, EmptySeq DEF LineInv, Piping
    <2>17. ASSUME NEW s \in Slots, NEW bg \in BOOLEAN, Resume(s, bg) PROVE LineInv'
      BY <1>2, <2>17, LineKept DEF Resume, CanStart, Goto, Piping
    <2>18. CASE Cont
      BY <1>2, <2>18, LineKept DEF Cont, Goto, Piping
    <2>19. CASE Mark
      BY <1>2, <2>19, LineKept DEF Mark, Goto, Piping
    <2>20. CASE ResumeTerm
      BY <1>2, <2>20, LineKept DEF ResumeTerm, Goto, Piping
    <2>21. CASE ResumeWaited
      <3>1. pc' \in {"rexited", "rstopped"}
        BY <2>21 DEF ResumeWaited, WaitStatus
      <3> QED
        BY <1>2, <2>21, <3>1, LineKept DEF ResumeWaited, Piping
    <2>22. CASE ResumeDone
      BY <1>2, <2>22, LineKept DEF ResumeDone, Goto, Piping
    <2>23. CASE UNCHANGED vars
      BY <1>2, <2>23, LineKept DEF vars, mainVars
    <2> QED
      BY <1>1, <2>1, <2>2, <2>3, <2>4, <2>5, <2>6, <2>7, <2>8, <2>9, <2>10, <2>11,
         <2>12, <2>13, <2>14, <2>15, <2>16, <2>17, <2>18, <2>19, <2>20, <2>21, <2>22,
         <2>23, ForkIs DEF Next, Main, sigchld_handler, execute_pipeline, execute_resume
  <1> QED
    BY <1>1, <1>2, AgesStep

\* the reports that nobody has taken are going to be asked for
LEMMA ReportStep == TypeOK /\ LineInv /\ JobInv /\ ReportInv /\ [Next]_vars => ReportInv'
  <1> SUFFICES ASSUME TypeOK, LineInv, JobInv, ReportInv, [Next]_vars PROVE ReportInv'
    OBVIOUS
  <1>1. ASSUME NEW c \in Pids, Child(c) PROVE ReportInv'
    BY <1>1 DEF Child, ReportInv, Reportable, mainVars, TypeOK
  <1>2. ASSUME NEW c \in Pids, Exit(c) PROVE ReportInv'
    BY <1>2 DEF ReportInv, Exit, childVars, mainVars, ghostVars
  <1>3. ASSUME NEW c \in Pids, Stop(c) PROVE ReportInv'
    BY <1>3 DEF ReportInv, Stop, childVars, mainVars, ghostVars
  <1>4. CASE HandlerStart
    BY <1>4 DEF ReportInv, HandlerStart, childVars, mainVars, ghostVars, Reportable
  <1>5. CASE HandlerStep
    <2>1. CASE Reportable = {}
      BY <1>5, <2>1 DEF HandlerStep, ReportInv, Reportable
    <2>2. CASE Reportable # {}
      BY <1>5, <2>2 DEF HandlerStep, ReportInv
    <2> QED
      BY <2>1, <2>2
  <1>6. CASE UpdateJobs
    <2>1. CASE Reportable = {}
      BY <1>6, <2>1 DEF UpdateJobs, ReportInv, Reportable
    <2>2. CASE Reportable # {}
      BY <1>6, <2>2 DEF UpdateJobs, ReportInv
    <2> QED
      BY <2>1, <2>2
  <1>7. CASE EndLine
    BY <1>7 DEF ReportInv, EndLine, Goto, kernelVars, childVars, ghostVars, Reportable
  <1>8. ASSUME NEW l \in Pipelines, Pipeline(l) PROVE ReportInv'
    BY <1>8 DEF ReportInv, Pipeline, CanStart, Goto, kernelVars, childVars, ghostVars, Reportable
  <1>9. ASSUME NEW procs \in Targets, execute_ping(procs) PROVE ReportInv'
    BY <1>9 DEF execute_ping, CanStart, Goto, Continue, ReportInv, Reportable, TypeOK
  <1>10. ASSUME NEW c \in Pids, Born(c) PROVE ReportInv'
    BY <1>10 DEF Born, ReportInv, Reportable, TypeOK
  <1>11. CASE SetPgid
    BY <1>11 DEF ReportInv, SetPgid, Goto, setpgid, CloseEnds, childVars, ghostVars, Reportable
  <1>12. CASE Background
    BY <1>12 DEF ReportInv, Background, Goto, kernelVars, childVars, Reportable
  <1>13. CASE Foreground
    BY <1>13 DEF ReportInv, Foreground, Goto, tcsetpgrp, childVars, ghostVars, Reportable
  <1>14. CASE Wait
    BY <1>14 DEF ReportInv, Wait, Goto, kernelVars, childVars, ghostVars, Reportable
  <1>15. CASE Waited
    <2>1. pids # <<>> /\ WaitStatus(Head(pids), "wait", "stopped") /\ Head(pids) \in Pids
      BY <1>15, Taken DEF Waited, LineInv
    <2>2. Reportable' \subseteq Reportable
      BY <2>1, CollectOK, TypeParts DEF WaitStatus, Reportable
    <2> QED
      BY <1>15, <2>2 DEF Waited, ReportInv
  <1>16. CASE Stopped
    BY <1>16 DEF ReportInv, Stopped, Goto, kernelVars, childVars, Reportable
  <1>17. CASE Reclaim
    BY <1>17 DEF ReportInv, Reclaim, Goto, tcsetpgrp, childVars, ghostVars, Reportable
  <1>18. ASSUME NEW s \in Slots, NEW bg \in BOOLEAN, Resume(s, bg) PROVE ReportInv'
    BY <1>18 DEF ReportInv, Resume, CanStart, Goto, kernelVars, childVars, ghostVars, Reportable
  <1>19. CASE Cont
    BY <1>19 DEF Cont, Goto, Continue, ReportInv, Reportable, TypeOK
  <1>20. CASE Mark
    BY <1>20 DEF ReportInv, Mark, Goto, kernelVars, childVars, ghostVars, Reportable
  <1>21. CASE ResumeTerm
    BY <1>21 DEF ReportInv, ResumeTerm, Goto, tcsetpgrp, childVars, ghostVars, Reportable
  <1>22. CASE ResumeWaited
    <2>1. PICK c \in Pids : WaitStatus(c, "rexited", "rstopped")
      <3>1. jobs[job].pgid \in Pids
        BY <1>22 DEF ResumeWaited, JobInv, Resuming, Leads
      <3> QED
        BY <1>22, <3>1 DEF ResumeWaited, Members, Unreaped
    <2>2. Reportable' \subseteq Reportable
      BY <2>1, CollectOK, TypeParts DEF WaitStatus, Reportable
    <2> QED
      BY <1>22, <2>2 DEF ResumeWaited, ReportInv
  <1>23. CASE ResumeDone
    BY <1>23 DEF ReportInv, ResumeDone, Goto, tcsetpgrp, childVars, ghostVars, Reportable
  <1>24. CASE UNCHANGED vars
    BY <1>24 DEF ReportInv, vars, kernelVars, childVars, mainVars, ghostVars, Reportable
  <1> QED
    BY <1>1, <1>2, <1>3, <1>4, <1>5, <1>6, <1>7, <1>8, <1>9, <1>10, <1>11, <1>12,
       <1>13, <1>14, <1>15, <1>16, <1>17, <1>18, <1>19, <1>20, <1>21, <1>22, <1>23,
       <1>24, ForkIs DEF Next, Main, sigchld_handler, execute_pipeline, execute_resume

\* entries that keep their groups, of a pipeline that is not that executed
LEMMA JobKept ==
    ASSUME TypeOK, JobInv, Ages,
           \A s \in Slots : /\ jobs'[s].pgid = jobs[s].pgid
                            /\ jobs'[s].is_active => jobs[s].is_active,
           leader' \in {leader, Shell}, pc = "reclaim" /\ leader' = leader => pc' = "reclaim",
           pc' \in Resuming => pc \in Resuming /\ job' = job
    PROVE  JobInv'
  <1>1. \A g : Leads(g) => g \in Pids /\ pipeline_pgid'[g] = g /\ st'[g] # "none" /\ g # Shell
    BY Numbers DEF Ages, Leads
  <1>2. \A s \in Slots : jobs'[s].is_active =>
            Leads(jobs[s].pgid)' /\ (jobs'[s].pgid = leader' => pc' = "reclaim")
    BY <1>1 DEF JobInv, Leads
  <1>3. ASSUME pc' \in Resuming
        PROVE  /\ job' \in Slots /\ Leads(jobs[job].pgid)'
               /\ \A s \in Slots : jobs'[s].is_active /\ jobs'[s].pgid = jobs'[job'].pgid =>
                      s = job'
    BY <1>1, <1>3 DEF JobInv, Leads
  <1> QED
    BY <1>2, <1>3 DEF JobInv

\* a new entry, for the leader of the pipeline that is being left
LEMMA JobAdded ==
    ASSUME TypeOK, LineInv, JobInv, Ages, NEW running \in BOOLEAN, add_job(leader, running),
           pc \in Piping \ {"fork", "reclaim"}, pc' \notin Resuming,
           pc' = "reclaim" \/ leader' = Shell, leader' \in {leader, Shell}
    PROVE  JobInv'
  <1>1. \A g : Leads(g) => g \in Pids /\ pipeline_pgid'[g] = g /\ st'[g] # "none" /\ g # Shell
    BY Numbers DEF Ages, Leads
  <1>2. Leads(leader) /\ leader \in Pids
    BY DEF LineInv, Piping, Leads
  <1>3. CASE jobs' = jobs
    BY <1>1, <1>3 DEF JobInv, Leads
  <1>4. ASSUME NEW s \in Slots, NewEntry(s, leader, running) PROVE JobInv'
    <2>1. /\ \A t \in Slots \ {s} : jobs'[t] = jobs[t]
          /\ jobs'[s].is_active /\ jobs'[s].pgid = leader
      BY <1>2, <1>4, NewEntryOK, TypeParts DEF JobInv
    <2>2. ASSUME NEW t \in Slots, jobs'[t].is_active
          PROVE  Leads(jobs[t].pgid)' /\ (jobs'[t].pgid = leader' => pc' = "reclaim")
      <3>1. Leads(jobs'[t].pgid)
        BY <1>2, <2>1, <2>2 DEF JobInv
      <3> QED
        BY <1>1, <3>1 DEF Leads
    <2> QED
      BY <2>2 DEF JobInv
  <1> QED
    BY <1>3, <1>4, AddJobIs

\* the entries of the job table
LEMMA JobStep == TypeOK /\ LineInv /\ JobInv /\ [Next]_vars => JobInv'
  <1> SUFFICES ASSUME TypeOK, LineInv, JobInv, [Next]_vars PROVE JobInv'
    OBVIOUS
  <1>1. ASSUME NEW c \in Pids, Born(c) PROVE JobInv'
    <2>1. /\ pc = "fork" /\ pc' = "setpgid" /\ jobs' = jobs /\ leader' = First(c)
          /\ First(c) \in {c, leader} /\ st[c] = "none"
          /\ \A d \in Pids \ {c} : st'[d] = st[d] /\ pipeline_pgid'[d] = pipeline_pgid[d]
      BY <1>1 DEF Born, First, TypeOK
    <2>2. \A g : Leads(g) => Leads(g)' /\ g # c
      BY <2>1 DEF Leads
    <2> QED
      BY <2>1, <2>2 DEF JobInv, Resuming
  <1>2. ASSUME Ages PROVE JobInv'
    <2>1. ASSUME NEW c \in Pids, Child(c) PROVE JobInv'
      BY <1>2, <2>1, JobKept DEF Child, mainVars
    <2>2. ASSUME NEW c \in Pids, Exit(c) PROVE JobInv'
      BY <1>2, <2>2, JobKept DEF Exit, mainVars
    <2>3. ASSUME NEW c \in Pids, Stop(c) PROVE JobInv'
      BY <1>2, <2>3, JobKept DEF Stop, mainVars
    <2>4. CASE HandlerStart
      BY <1>2, <2>4, JobKept DEF HandlerStart, mainVars
    <2>5. CASE HandlerStep
      <3>1. CASE Reportable = {}
        BY <1>2, <2>5, <3>1, JobKept DEF HandlerStep, mainVars, Resuming
      <3>2. CASE Reportable # {}
        <4>1. PICK c \in Reportable : Reap(c)
          BY <2>5, <3>2 DEF HandlerStep
        <4>2. \A s \in Slots : /\ jobs'[s].pgid = jobs[s].pgid
                               /\ jobs'[s].is_active => jobs[s].is_active
          BY <4>1, ReapOK, TypeParts
        <4> QED
          BY <1>2, <2>5, <4>2, JobKept DEF HandlerStep, mainVars, Resuming
      <3> QED
        BY <3>1, <3>2
    <2>6. CASE UpdateJobs
      <3>1. CASE Reportable = {}
        BY <1>2, <2>6, <3>1, JobKept DEF UpdateJobs, mainVars, Resuming
      <3>2. CASE Reportable # {}
        <4>1. PICK c \in Reportable : Reap(c)
          BY <2>6, <3>2 DEF UpdateJobs
        <4>2. \A s \in Slots : /\ jobs'[s].pgid = jobs[s].pgid
                               /\ jobs'[s].is_active => jobs[s].is_active
          BY <4>1, ReapOK, TypeParts
        <4> QED
          BY <1>2, <2>6, <4>2, JobKept DEF UpdateJobs, mainVars, Resuming
      <3> QED
        BY <3>1, <3>2
    <2>7. CASE EndLine
      BY <1>2, <2>7, JobKept DEF EndLine, Goto, Resuming
    <2>8. ASSUME NEW l \in Pipelines, Pipeline(l) PROVE JobInv'
      BY <1>2, <2>8, JobKept DEF Pipeline, CanStart, Goto, Resuming
    <2>9. ASSUME NEW procs \in Targets, execute_ping(procs) PROVE JobInv'
      BY <1>2, <2>9, JobKept DEF execute_ping, CanStart, Goto, Resuming
    <2>10. CASE SetPgid
      BY <1>2, <2>10, JobKept DEF SetPgid, Goto, Resuming
    <2>11. CASE Background
      <3>1. /\ pc = "started" /\ pc' = "next" /\ leader' = Shell /\ add_job(leader, TRUE)
        BY <2>11 DEF Background, Goto
      <3> QED
        BY <1>2, <3>1, JobAdded DEF Piping, Resuming
    <2>12. CASE Foreground
      BY <1>2, <2>12, JobKept DEF Foreground, Goto, Resuming
    <2>13. CASE Wait
      BY <1>2, <2>13, JobKept DEF Wait, Goto, Resuming
    <2>14. CASE Waited
      <3>1. pc = "waiting" /\ pc' \in {"wait", "stopped"}
        BY <2>14 DEF Waited, WaitStatus
      <3> QED
        BY <1>2, <2>14, <3>1, JobKept DEF Waited, Resuming
    <2>15. CASE Stopped
      <3>1. /\ pc = "stopped" /\ pc' = "reclaim" /\ leader' = leader /\ add_job(leader, FALSE)
        BY <2>15 DEF Stopped, Goto
      <3> QED
        BY <1>2, <3>1, JobAdded DEF Piping, Resuming
    <2>16. CASE Reclaim
      <3>1. leader # Shell /\ leader' = Shell /\ pc' = "next" /\ jobs' = jobs
        BY <2>16 DEF Reclaim, Goto, LineInv, Piping
      <3> QED
        BY <1>2, <3>1, JobKept DEF Resuming
    <2>17. ASSUME NEW s \in Slots, NEW bg \in BOOLEAN, Resume(s, bg) PROVE JobInv'
      <3>1. /\ jobs' = jobs /\ leader' = leader /\ jobs[s].is_active /\ job' = s
            /\ pc # "reclaim"
        BY <2>17 DEF Resume, CanStart, Goto
      <3>2. \A g : Leads(g) => Leads(g)'
        BY <1>2 DEF Ages, Leads
      <3>3. \A t \in Slots : jobs[t].is_active /\ jobs[t].pgid = jobs[s].pgid => t = s
        BY <3>1 DEF TypeOK
      <3> QED
        BY <3>1, <3>2, <3>3 DEF JobInv
    <2>18. CASE Cont
      BY <1>2, <2>18, JobKept DEF Cont, Goto, Resuming
    <2>19. CASE Mark
      <3>1. pc = "mark" /\ pc' \in {"next", "rterm"} /\ (pc' = "rterm" => job' = job)
        BY <2>19 DEF Mark, Goto
      <3>2. job \in Slots
        BY <3>1 DEF JobInv, Resuming
      <3>3. \A s \in Slots : /\ jobs'[s].pgid = jobs[s].pgid
                             /\ jobs'[s].is_active => jobs[s].is_active
        BY <2>19, <3>2, MarkOK, TypeParts DEF Mark
      <3> QED
        BY <1>2, <2>19, <3>1, <3>3, JobKept DEF Mark, Resuming
    <2>20. CASE ResumeTerm
      BY <1>2, <2>20, JobKept DEF ResumeTerm, Goto, Resuming
    <2>21. CASE ResumeWaited
      <3>1. pc = "rwaiting" /\ pc' \in {"rexited", "rstopped"}
        BY <2>21 DEF ResumeWaited, WaitStatus
      <3> QED
        BY <1>2, <2>21, <3>1, JobKept DEF ResumeWaited, Resuming
    <2>22. CASE ResumeDone
      <3>1. pc \in {"rexited", "rstopped"} /\ pc' = "next"
        BY <2>22 DEF ResumeDone, Goto
      <3>2. job \in Slots
        BY <3>1 DEF JobInv, Resuming
      <3>3. \A s \in Slots : /\ jobs'[s].pgid = jobs[s].pgid
                             /\ jobs'[s].is_active => jobs[s].is_active
        BY <2>22, <3>2, MarkOK, TypeParts DEF ResumeDone
      <3> QED
        BY <1>2, <2>22, <3>1, <3>3, JobKept DEF ResumeDone, Resuming
    <2>23. CASE UNCHANGED vars
      BY <1>2, <2>23, JobKept DEF vars, mainVars
    <2> QED
      BY <1>1, <2>1, <2>2, <2>3, <2>4, <2>5, <2>6, <2>7, <2>8, <2>9, <2>10, <2>11,
         <2>12, <2>13, <2>14, <2>15, <2>16, <2>17, <2>18, <2>19, <2>20, <2>21, <2>22,
         <2>23, ForkIs DEF Next, Main, sigchld_handler, execute_pipeline, execute_resume
  <1> QED
    BY <1>1, <1>2, AgesStep

\* whoever is accounted for stays so
LEMMA KnownKept ==
    ASSUME KnownInv, Ages, leader' = leader,
           \A g : Known(g) => Known(g)',
           pc' \in Piping \ {"stopped", "reclaim"} =>
               pc \in Piping \ {"stopped", "reclaim"} /\ pids' = pids,
           pc' = "reclaim" => pc = "reclaim",
           pc' = "rexited" =>
               pc = "rexited" /\ jobs'[job'].pgid = jobs[job].pgid /\ lost \subseteq lost'
    PROVE  KnownInv'
  <1>1. Alive' \subseteq Alive /\ pipeline_pgid' = pipeline_pgid
    BY DEF Ages, Alive
  <1>2. \A c \in Alive' : pipeline_pgid'[c] = leader' \/ Known(pipeline_pgid[c])'
    BY <1>1 DEF KnownInv
  <1>3. pc' \in Piping \ {"stopped", "reclaim"} =>
            \A c \in Alive' : pipeline_pgid'[c] = leader' => Awaited(c)'
    BY <1>1 DEF KnownInv, Awaited
  <1>4. pc' = "reclaim" => Known(leader)' \/ \A c \in Alive' : pipeline_pgid'[c] # leader'
    BY <1>1 DEF KnownInv
  <1>5. pc' = "rexited" => jobs'[job'].pgid \in lost'
    BY DEF KnownInv
  <1> QED
    BY <1>1, <1>2, <1>3, <1>4, <1>5 DEF KnownInv, Known

LEMMA SameTable ==
    ASSUME jobs' = jobs, dropped' = dropped, lost \subseteq lost'
    PROVE  \A c : Known(c) => Known(c)'
  BY DEF Known

\* the leader is entered in the table, or dropped; nobody else is lost
LEMMA LeaderKnown ==
    ASSUME TypeOK, LineInv, JobInv, NEW running \in BOOLEAN, add_job(leader, running),
           pc \in Piping \ {"fork", "reclaim"}, lost' = lost
    PROVE  /\ \A c : Known(c) => Known(c)'
           /\ \A c : c = leader => Known(c)'
  <1>1. leader \in Pids
    BY DEF LineInv, Piping, Leads
  <1>2. CASE dropped' = dropped \cup {leader} /\ jobs' = jobs
    BY <1>2 DEF Known
  <1>3. ASSUME NEW s \in Slots, NewEntry(s, leader, running)
        PROVE  /\ \A c : Known(c) => Known(c)'
               /\ \A c : c = leader => Known(c)'
    <2>1. /\ \A t \in Slots \ {s} : jobs'[t] = jobs[t]
          /\ jobs'[s].is_active /\ jobs'[s].pgid = leader
      BY <1>1, <1>3, NewEntryOK, TypeParts DEF JobInv
    <2>2. dropped' = dropped /\ ~jobs[s].is_active
      BY <1>3 DEF NewEntry
    <2> QED
      BY <2>1, <2>2 DEF Known
  <1> QED
    BY <1>2, <1>3, AddJobIs

\* the entry that execute_resume() is about
LEMMA RexitedJob ==
    ASSUME JobInv, pc \in Resuming
    PROVE  job \in Slots /\ jobs[job].pgid \in Pids
  BY DEF JobInv, Leads

\* nobody is forgotten
LEMMA KnownStep == TypeOK /\ LineInv /\ BirthInv /\ JobInv /\ KnownInv /\ [Next]_vars => KnownInv'
  <1> SUFFICES ASSUME TypeOK, LineInv, BirthInv, JobInv, KnownInv, [Next]_vars PROVE KnownInv'
    OBVIOUS
  <1>1. ASSUME NEW c \in Pids, Born(c) PROVE KnownInv'
    <2>1. /\ pc = "fork" /\ pc' = "setpgid" /\ UNCHANGED <<jobs, dropped, lost>>
          /\ st[c] = "none" /\ leader' = First(c) /\ pids' = Append(pids, c)
          /\ pipeline_pgid' = [pipeline_pgid EXCEPT ![c] = First(c)]
          /\ \A d \in Pids \ {c} : st'[d] = st[d]
      BY <1>1 DEF Born, TypeOK, ghostVars
    <2>2. leader # Shell => First(c) = leader
      BY <2>1 DEF First, LineInv
    <2>3. Awaited(c)' /\ \A d : Awaited(d) => Awaited(d)'
      BY <2>1 DEF Awaited, TypeOK
    <2>4. ASSUME NEW d \in Alive', d # c
          PROVE  d \in Alive /\ pipeline_pgid'[d] = pipeline_pgid[d] /\ Leads(pipeline_pgid[d])
      BY <2>1, <2>4 DEF Alive, TypeOK, BirthInv
    <2>5. ASSUME NEW d \in Alive' PROVE pipeline_pgid'[d] = leader' \/ Known(pipeline_pgid[d])'
      <3>1. CASE d = c
        BY <2>1, <3>1 DEF TypeOK
      <3>2. CASE d # c
        <4>1. pipeline_pgid[d] = leader => leader # Shell
          BY <2>4, <3>2, Numbers DEF Leads
        <4> QED
          BY <2>1, <2>2, <2>4, <3>2, <4>1 DEF KnownInv, Known
      <3> QED
        BY <3>1, <3>2
    <2>6. ASSUME NEW d \in Alive', pipeline_pgid'[d] = leader' PROVE Awaited(d)'
      <3>1. CASE d # c
        <4>1. First(c) # c
          BY <2>1, <2>4, <2>6, <3>1 DEF Leads
        <4>2. leader # Shell /\ First(c) = leader
          BY <2>1, <4>1 DEF First, LineInv
        <4> QED
          BY <2>1, <2>3, <2>4, <2>6, <3>1, <4>2 DEF KnownInv, Piping
      <3> QED
        BY <2>3, <3>1
    <2> QED
      BY <2>1, <2>5, <2>6 DEF KnownInv, Known
  <1>2. ASSUME Ages PROVE KnownInv'
    <2>1. ASSUME NEW c \in Pids, Child(c) PROVE KnownInv'
      BY <1>2, <2>1, KnownKept, SameTable, RexitedJob DEF Child, mainVars, ghostVars, Resuming,
         Piping
    <2>2. ASSUME NEW c \in Pids, Exit(c) PROVE KnownInv'
      BY <1>2, <2>2, KnownKept, SameTable, RexitedJob DEF Exit, mainVars, ghostVars, Resuming,
         Piping
    <2>3. ASSUME NEW c \in Pids, Stop(c) PROVE KnownInv'
      BY <1>2, <2>3, KnownKept, SameTable, RexitedJob DEF Stop, mainVars, ghostVars, Resuming,
         Piping
    <2>4. CASE HandlerStart
      BY <1>2, <2>4, KnownKept, SameTable, RexitedJob DEF HandlerStart, mainVars, ghostVars,
         Resuming, Piping
    <2>5. CASE HandlerStep
      <3>1. CASE Reportable = {}
        BY <1>2, <2>5, <3>1, KnownKept, SameTable, RexitedJob DEF HandlerStep, mainVars,
           ghostVars, Resuming, Piping
      <3>2. CASE Reportable # {}
        <4>1. PICK c \in Reportable : Reap(c)
          BY <2>5, <3>2 DEF HandlerStep
        <4>2. /\ \A s \in Slots :
                    /\ jobs'[s].pgid = jobs[s].pgid
                    /\ jobs[s].is_active => jobs'[s].is_active \/ jobs[s].pgid \in lost'
              /\ lost \subseteq lost'
          BY <4>1, ReapOK, TypeParts
        <4>3. \A g : Known(g) => Known(g)'
          BY <2>5, <4>2 DEF Known, HandlerStep
        <4> QED
          BY <1>2, <2>5, <4>2, <4>3, KnownKept, RexitedJob DEF HandlerStep, mainVars, Resuming,
             Piping
      <3> QED
        BY <3>1, <3>2
    <2>6. CASE UpdateJobs
      <3>1. CASE Reportable = {}
        BY <1>2, <2>6, <3>1, KnownKept, SameTable, RexitedJob DEF UpdateJobs, mainVars,
           ghostVars, Resuming, Piping
      <3>2. CASE Reportable # {}
        <4>1. PICK c \in Reportable : Reap(c)
          BY <2>6, <3>2 DEF UpdateJobs
        <4>2. /\ \A s \in Slots :
                    /\ jobs'[s].pgid = jobs[s].pgid
                    /\ jobs[s].is_active => jobs'[s].is_active \/ jobs[s].pgid \in lost'
              /\ lost \subseteq lost'
          BY <4>1, ReapOK, TypeParts
        <4>3. \A g : Known(g) => Known(g)'
          BY <2>6, <4>2 DEF Known, UpdateJobs
        <4> QED
          BY <1>2, <2>6, <4>2, <4>3, KnownKept, RexitedJob DEF UpdateJobs, mainVars, Resuming,
             Piping
      <3> QED
        BY <3>1, <3>2
    <2>7. CASE EndLine
      BY <1>2, <2>7, KnownKept, SameTable DEF EndLine, Goto, ghostVars, Piping
    <2>8. ASSUME NEW l \in Pipelines, Pipeline(l) PROVE KnownInv'
      <3>1. leader = Shell /\ UNCHANGED <<st, leader, pids, jobs, dropped, lost>> /\ pc' = "fork"
        BY <2>8 DEF Pipeline, CanStart, Goto, LineInv, Piping, kernelVars, ghostVars
      <3>2. \A c \in Alive' : c \in Alive /\ pipeline_pgid'[c] = pipeline_pgid[c] /\ pipeline_pgid[c] # Shell
        BY <1>2, Numbers DEF Ages, Alive, BirthInv, Leads
      <3> QED
        BY <3>1, <3>2 DEF KnownInv, Known
    <2>9. ASSUME NEW procs \in Targets, execute_ping(procs) PROVE KnownInv'
      BY <1>2, <2>9, KnownKept, SameTable DEF execute_ping, CanStart, Goto, ghostVars, Piping
    <2>10. CASE SetPgid
      BY <1>2, <2>10, KnownKept, SameTable DEF SetPgid, Goto, ghostVars, Piping
    <2>11. CASE Background
      <3>1. /\ pc = "started" /\ pc' = "next" /\ st' = st /\ add_job(leader, TRUE) /\ lost' = lost
        BY <2>11 DEF Background, Goto, kernelVars
      <3>2. /\ \A c : Known(c) => Known(c)'
            /\ \A c : c = leader => Known(c)'
        BY <3>1, LeaderKnown DEF Piping
      <3>3. ASSUME NEW c \in Alive' PROVE Known(pipeline_pgid[c])'
        BY <1>2, <3>2 DEF KnownInv, Ages, Alive
      <3> QED
        BY <1>2, <3>1, <3>3 DEF KnownInv, Piping, Ages, Known
    <2>12. CASE Foreground
      BY <1>2, <2>12, KnownKept, SameTable DEF Foreground, Goto, ghostVars, Piping
    <2>13. CASE Wait
      <3>1. CASE pids # <<>>
        BY <1>2, <2>13, <3>1, KnownKept, SameTable DEF Wait, Goto, ghostVars, Piping
      <3>2. CASE pids = <<>>
        <4>1. /\ pc = "wait" /\ pc' = "reclaim" /\ UNCHANGED <<leader, jobs, dropped, lost>>
          BY <2>13, <3>2 DEF Wait, Goto, ghostVars
        <4>2. \A c : ~Awaited(c)
          BY <3>2 DEF Awaited
        <4>3. \A c \in Alive : pipeline_pgid[c] # leader
          BY <4>1, <4>2 DEF KnownInv, Piping
        <4> QED
          BY <1>2, <4>1, <4>3 DEF KnownInv, Ages, Alive, Piping, Known
      <3> QED
        BY <3>1, <3>2
    <2>14. CASE Waited
      <3>1. /\ pc = "waiting" /\ pids # <<>> /\ pids' = Tail(pids) /\ leader' = leader
            /\ WaitStatus(Head(pids), "wait", "stopped") /\ UNCHANGED <<jobs, dropped, lost>>
        BY <2>14 DEF Waited, LineInv, ghostVars
      <3>2. /\ Head(pids) = pids[1] /\ pids[1] \in Pids
            /\ Len(pids) \in Nat /\ Len(Tail(pids)) = Len(pids) - 1
            /\ \A i \in 1..Len(Tail(pids)) : Tail(pids)[i] = pids[i + 1]
        BY <3>1, Taken DEF TypeOK
      <3>3. pc' \in {"wait", "stopped"} /\ (pc' = "wait" => st'[pids[1]] = "gone")
        BY <3>1, <3>2, WaitOK, TypeParts
      <3>4. ASSUME NEW c \in Alive', pc' = "wait", pipeline_pgid[c] = leader PROVE Awaited(c)'
        <4>1. c \in Alive /\ c # pids[1]
          BY <1>2, <3>3, <3>4 DEF Ages, Alive
        <4>2. PICK i \in 1..Len(pids) : pids[i] = c
          BY <3>1, <3>4, <4>1 DEF KnownInv, Awaited, Piping
        <4>3. i - 1 \in 1..Len(Tail(pids)) /\ (i - 1) + 1 = i
          BY <3>2, <4>1, <4>2
        <4> QED
          BY <3>1, <3>2, <4>2, <4>3 DEF Awaited
      <3> QED
        BY <1>2, <3>1, <3>3, <3>4 DEF KnownInv, Ages, Alive, Piping, Known
    <2>15. CASE Stopped
      <3>1. /\ pc = "stopped" /\ pc' = "reclaim" /\ leader' = leader /\ lost' = lost
            /\ add_job(leader, FALSE)
        BY <2>15 DEF Stopped, Goto
      <3>2. /\ \A c : Known(c) => Known(c)'
            /\ \A c : c = leader => Known(c)'
        BY <3>1, LeaderKnown DEF Piping
      <3>3. ASSUME NEW c \in Alive' PROVE Known(pipeline_pgid[c])'
        BY <1>2, <3>2 DEF KnownInv, Ages, Alive
      <3>4. Known(leader)'
        BY <3>1, <3>2
      <3> QED
        BY <1>2, <3>1, <3>3, <3>4 DEF KnownInv, Piping, Ages, Known
    <2>16. CASE Reclaim
      <3>1. pc = "reclaim" /\ pc' = "next" /\ UNCHANGED <<jobs, dropped, lost>>
        BY <2>16 DEF Reclaim, Goto, ghostVars
      <3>2. ASSUME NEW c \in Alive' PROVE Known(pipeline_pgid[c])
        BY <1>2, <3>1 DEF KnownInv, Ages, Alive
      <3> QED
        BY <1>2, <3>1, <3>2 DEF KnownInv, Piping, Ages, Known
    <2>17. ASSUME NEW s \in Slots, NEW bg \in BOOLEAN, Resume(s, bg) PROVE KnownInv'
      BY <1>2, <2>17, KnownKept, SameTable DEF Resume, CanStart, Goto, ghostVars, Piping
    <2>18. CASE Cont
      BY <1>2, <2>18, KnownKept, SameTable DEF Cont, Goto, ghostVars, Piping
    <2>19. CASE Mark
      <3>1. pc = "mark" /\ pc' \in {"next", "rterm"} /\ leader' = leader /\ UNCHANGED <<dropped, lost>>
        BY <2>19 DEF Mark, Goto, ghostVars
      <3>2. job \in Slots /\ jobs' = [jobs EXCEPT ![job].is_running = TRUE]
        BY <2>19 DEF Mark, Goto, JobInv, Resuming
      <3>3. \A s \in Slots : /\ jobs'[s].pgid = jobs[s].pgid
                             /\ jobs'[s].is_active <=> jobs[s].is_active
        BY <3>2 DEF TypeOK
      <3>4. \A c : Known(c) => Known(c)'
        BY <3>1, <3>3 DEF Known
      <3> QED
        BY <1>2, <3>1, <3>4, KnownKept DEF Piping
    <2>20. CASE ResumeTerm
      BY <1>2, <2>20, KnownKept, SameTable DEF ResumeTerm, Goto, ghostVars, Piping
    <2>21. CASE ResumeWaited
      <3> DEFINE g == jobs[job].pgid
      <3>1. /\ pc = "rwaiting" /\ pc' \in {"rexited", "rstopped"}
            /\ UNCHANGED <<jobs, job, leader, dropped>>
        BY <2>21 DEF ResumeWaited, WaitStatus
      <3>2. g \in Pids
        BY <3>1 DEF JobInv, Resuming, Leads
      <3>3. PICK c \in Pids :
                /\ WaitStatus(c, "rexited", "rstopped")
                /\ lost' = IF st[c] \in {"zombie", "gone"} THEN lost \cup {g} ELSE lost
        BY <2>21, <3>2 DEF ResumeWaited, Members, Unreaped
      <3>4. pc' = "rexited" => st[c] \in {"zombie", "gone"}
        BY <3>3, WaitOK, TypeParts
      <3>5. \A d : Known(d) => Known(d)'
        BY <3>1, <3>3, SameTable
      <3>6. ASSUME NEW d \in Alive' PROVE pipeline_pgid[d] = leader' \/ Known(pipeline_pgid[d])'
        BY <1>2, <3>1, <3>5 DEF KnownInv, Ages, Alive
      <3> QED
        BY <1>2, <3>1, <3>3, <3>4, <3>6 DEF KnownInv, Ages, Piping, Known
    <2>22. CASE ResumeDone
      <3> DEFINE g == jobs[job].pgid
      <3>1. /\ pc \in {"rexited", "rstopped"} /\ pc' = "next" /\ leader' = leader
            /\ UNCHANGED <<dropped, lost>>
        BY <2>22 DEF ResumeDone, Goto, ghostVars
      <3>2. job \in Slots
        BY <3>1 DEF JobInv, Resuming
      <3>3. \A s \in Slots \ {job} : jobs'[s] = jobs[s]
        BY <2>22, <3>2, MarkOK, TypeParts DEF ResumeDone
      <3>4. jobs'[job].pgid = g /\ (pc = "rstopped" => (jobs'[job].is_active <=> jobs[job].is_active))
        BY <2>22, <3>2 DEF ResumeDone, Goto, TypeOK
      <3>5. pc = "rexited" => g \in lost
        BY DEF KnownInv
      <3>6. \A d : Known(d) => Known(d)'
        BY <3>1, <3>2, <3>3, <3>4, <3>5 DEF Known
      <3> QED
        BY <1>2, <3>1, <3>6, KnownKept DEF Piping
    <2>23. CASE UNCHANGED vars
      BY <1>2, <2>23, KnownKept, SameTable, RexitedJob DEF vars, mainVars, ghostVars, Resuming,
         Piping
    <2> QED
      BY <1>1, <2>1, <2>2, <2>3, <2>4, <2>5, <2>6, <2>7, <2>8, <2>9, <2>10, <2>11,
         <2>12, <2>13, <2>14, <2>15, <2>16, <2>17, <2>18, <2>19, <2>20, <2>21, <2>22,
         <2>23, ForkIs DEF Next, Main, sigchld_handler, execute_pipeline, execute_resume
  <1> QED
    BY <1>1, <1>2, AgesStep

\* what ends takes its entry along
LEMMA StaleKept ==
    ASSUME NoStaleJob, stillborn' = stillborn,
           \A s \in Slots : jobs'[s].is_active =>
               /\ jobs[s].is_active /\ jobs'[s].pgid = jobs[s].pgid
               /\ st'[jobs[s].pgid] = "gone" => st[jobs[s].pgid] = "gone",
           pc = "rexited" => pc' = "rexited" /\ job' = job
    PROVE  NoStaleJob'
  BY DEF NoStaleJob

\* a new entry is marked if it comes too late
LEMMA StaleAdded ==
    ASSUME TypeOK, LineInv, JobInv, NoStaleJob, NEW running \in BOOLEAN,
           add_job(leader, running), st' = st, pc \in Piping \ {"fork", "reclaim"}
    PROVE  NoStaleJob'
  <1>1. leader \in Pids /\ pc # "rexited"
    BY DEF LineInv, Piping, Leads
  <1>2. CASE jobs' = jobs /\ stillborn' = stillborn
    BY <1>1, <1>2 DEF NoStaleJob
  <1>3. ASSUME NEW s \in Slots, NewEntry(s, leader, running) PROVE NoStaleJob'
    <2>1. /\ \A t \in Slots \ {s} : jobs'[t] = jobs[t]
          /\ jobs'[s].is_active /\ jobs'[s].pgid = leader
      BY <1>1, <1>3, NewEntryOK, TypeParts DEF JobInv
    <2>2. stillborn' = IF st[leader] = "gone" THEN stillborn \cup {s} ELSE stillborn \ {s}
      BY <1>3 DEF NewEntry
    <2> QED
      BY <1>1, <2>1, <2>2 DEF NoStaleJob
  <1> QED
    BY <1>2, <1>3, AddJobIs

\* an entry goes when its process has ended
LEMMA StaleStep == TypeOK /\ LineInv /\ BirthInv /\ JobInv /\ NoStaleJob /\ [Next]_vars => NoStaleJob'
  <1> SUFFICES ASSUME TypeOK, LineInv, BirthInv, JobInv, NoStaleJob, [Next]_vars PROVE NoStaleJob'
    OBVIOUS
  <1>1. ASSUME NEW c \in Pids, Born(c) PROVE NoStaleJob'
    <2>1. /\ jobs' = jobs /\ stillborn' = stillborn /\ pc = "fork"
          /\ st' = [st EXCEPT ![c] = "new"]
      BY <1>1 DEF Born, ghostVars
    <2>2. \A s \in Slots : jobs[s].is_active => jobs[s].pgid \in Pids
      BY DEF JobInv, Leads
    <2> QED
      BY <2>1, <2>2, StaleKept DEF TypeOK
  <1>2. ASSUME Ages PROVE NoStaleJob'
    <2>1. ASSUME NEW c \in Pids, Child(c) PROVE NoStaleJob'
      BY <2>1, StaleKept DEF Child, childVars, mainVars, ghostVars, TypeOK, JobInv, Leads
    <2>2. ASSUME NEW c \in Pids, Exit(c) PROVE NoStaleJob'
      BY <2>2, StaleKept DEF Exit, mainVars, ghostVars, TypeOK, JobInv, Leads
    <2>3. ASSUME NEW c \in Pids, Stop(c) PROVE NoStaleJob'
      BY <2>3, StaleKept DEF Stop, mainVars, ghostVars, TypeOK, JobInv, Leads
    <2>4. CASE HandlerStart
      BY <2>4, StaleKept DEF HandlerStart, mainVars, ghostVars
    <2>5. CASE HandlerStep
      <3>1. CASE Reportable = {}
        BY <2>5, <3>1, StaleKept DEF HandlerStep, mainVars, ghostVars
      <3>2. CASE Reportable # {}
        <4>1. PICK c \in Reportable : Reap(c)
          BY <2>5, <3>2 DEF HandlerStep
        <4>2. /\ \A s \in Slots :
                    /\ jobs'[s].pgid = jobs[s].pgid
                    /\ jobs'[s].is_active <=>
                          jobs[s].is_active /\ (jobs[s].pgid = c => st[c] # "zombie")
              /\ st[c] = "zombie" => st' = [st EXCEPT ![c] = "gone"]
              /\ st[c] = "stop" => st' = st
              /\ c \in Pids /\ st[c] \in {"zombie", "stop"}
          BY <4>1, ReapOK, CollectOK, TypeParts
        <4>3. ASSUME NEW s \in Slots, jobs'[s].is_active, st'[jobs[s].pgid] = "gone"
              PROVE  st[jobs[s].pgid] = "gone"
          BY <4>2, <4>3 DEF TypeOK, JobInv, Leads
        <4> QED
          BY <2>5, <4>2, <4>3, StaleKept DEF HandlerStep, mainVars, ghostVars
      <3> QED
        BY <3>1, <3>2
    <2>6. CASE UpdateJobs
      <3>1. CASE Reportable = {}
        BY <2>6, <3>1, StaleKept DEF UpdateJobs, mainVars, ghostVars
      <3>2. CASE Reportable # {}
        <4>1. PICK c \in Reportable : Reap(c)
          BY <2>6, <3>2 DEF UpdateJobs
        <4>2. /\ \A s \in Slots :
                    /\ jobs'[s].pgid = jobs[s].pgid
                    /\ jobs'[s].is_active <=>
                          jobs[s].is_active /\ (jobs[s].pgid = c => st[c] # "zombie")
              /\ st[c] = "zombie" => st' = [st EXCEPT ![c] = "gone"]
              /\ st[c] = "stop" => st' = st
              /\ c \in Pids /\ st[c] \in {"zombie", "stop"}
          BY <4>1, ReapOK, CollectOK, TypeParts
        <4>3. ASSUME NEW s \in Slots, jobs'[s].is_active, st'[jobs[s].pgid] = "gone"
              PROVE  st[jobs[s].pgid] = "gone"
          BY <4>2, <4>3 DEF TypeOK, JobInv, Leads
        <4> QED
          BY <2>6, <4>2, <4>3, StaleKept DEF UpdateJobs, mainVars, ghostVars
      <3> QED
        BY <3>1, <3>2
    <2>7. CASE EndLine
      BY <2>7, StaleKept DEF EndLine, Goto, kernelVars, ghostVars
    <2>8. ASSUME NEW l \in Pipelines, Pipeline(l) PROVE NoStaleJob'
      BY <2>8, StaleKept DEF Pipeline, CanStart, Goto, kernelVars, ghostVars
    <2>9. ASSUME NEW procs \in Targets, execute_ping(procs) PROVE NoStaleJob'
      BY <2>9, StaleKept DEF execute_ping, CanStart, Goto, Continue, ghostVars, JobInv, Leads
    <2>10. CASE SetPgid
      BY <2>10, StaleKept DEF SetPgid, Goto, ghostVars
    <2>11. CASE Background
      <3>1. pc = "started" /\ st' = st /\ add_job(leader, TRUE)
        BY <2>11 DEF Background, Goto, kernelVars
      <3> QED
        BY <3>1, StaleAdded DEF Piping
    <2>12. CASE Foreground
      BY <2>12, StaleKept DEF Foreground, Goto, ghostVars
    <2>13. CASE Wait
      BY <2>13, StaleKept DEF Wait, Goto, kernelVars, ghostVars
    <2>14. CASE Waited
      <3> DEFINE h == Head(pids)
      <3>1. /\ pc = "waiting" /\ pids # <<>> /\ WaitStatus(h, "wait", "stopped")
            /\ UNCHANGED <<jobs, stillborn>>
        BY <2>14 DEF Waited, LineInv, ghostVars
      <3>2. h \in Pids /\ pipeline_pgid[h] = leader
        BY <3>1, Taken, EmptySeq DEF LineInv, TypeOK
      <3>3. \A s \in Slots : jobs[s].is_active => jobs[s].pgid # h /\ jobs[s].pgid \in Pids
        BY <3>1, <3>2 DEF JobInv, Leads
      <3>4. \A d \in Pids : d # h => st'[d] = st[d]
        BY <3>1, <3>2, WaitOK, TypeParts
      <3> QED
        BY <3>1, <3>3, <3>4, StaleKept
    <2>15. CASE Stopped
      <3>1. pc = "stopped" /\ st' = st /\ add_job(leader, FALSE)
        BY <2>15 DEF Stopped, Goto, kernelVars
      <3> QED
        BY <3>1, StaleAdded DEF Piping
    <2>16. CASE Reclaim
      BY <2>16, StaleKept DEF Reclaim, Goto, ghostVars
    <2>17. ASSUME NEW s \in Slots, NEW bg \in BOOLEAN, Resume(s, bg) PROVE NoStaleJob'
      BY <2>17, StaleKept DEF Resume, CanStart, Goto, kernelVars, ghostVars
    <2>18. CASE Cont
      BY <2>18, StaleKept DEF Cont, Goto, Continue, ghostVars, JobInv, Leads
    <2>19. CASE Mark
      <3>1. /\ pc = "mark" /\ stillborn' = stillborn /\ st' = st
            /\ jobs' = [jobs EXCEPT ![job].is_running = TRUE]
        BY <2>19 DEF Mark, Goto, ghostVars, kernelVars
      <3>2. job \in Slots
        BY <3>1 DEF JobInv, Resuming
      <3>3. \A s \in Slots : /\ jobs'[s].pgid = jobs[s].pgid
                             /\ jobs'[s].is_active => jobs[s].is_active
        BY <3>1, <3>2 DEF TypeOK
      <3> QED
        BY <3>1, <3>3, StaleKept
    <2>20. CASE ResumeTerm
      BY <2>20, StaleKept DEF ResumeTerm, Goto, ghostVars
    <2>21. CASE ResumeWaited
      <3> DEFINE g == jobs[job].pgid
      <3>1. pc = "rwaiting" /\ UNCHANGED <<jobs, job, stillborn>>
        BY <2>21 DEF ResumeWaited, ghostVars
      <3>2. g \in Pids /\ job \in Slots
        BY <3>1, RexitedJob DEF Resuming
      <3>3. PICK c \in Pids : WaitStatus(c, "rexited", "rstopped") /\ (c = g \/ pgrp[c] = g)
        BY <2>21, <3>2 DEF ResumeWaited, Members, Unreaped
      <3>4. /\ \A d \in Pids : d # c => st'[d] = st[d]
            /\ st'[c] = st[c] \/ pc' = "rexited"
        BY <3>3, WaitOK, TypeParts
      <3>5. ASSUME NEW s \in Slots, jobs[s].is_active, jobs[s].pgid = c PROVE s = job
        <4>1. pipeline_pgid[c] = c
          BY <3>5 DEF JobInv, Leads
        <4>2. c = g
          BY <3>2, <3>3, <4>1, Numbers DEF BirthInv
        <4> QED
          BY <3>1, <3>5, <4>2 DEF JobInv, Resuming
      <3>6. \A s \in Slots : jobs[s].is_active => jobs[s].pgid \in Pids
        BY DEF JobInv, Leads
      <3> QED
        BY <3>1, <3>4, <3>5, <3>6 DEF NoStaleJob
    <2>22. CASE ResumeDone
      <3>1. /\ pc \in {"rexited", "rstopped"} /\ st' = st /\ stillborn' = stillborn
        BY <2>22 DEF ResumeDone, Goto, ghostVars
      <3>2. job \in Slots
        BY <3>1 DEF JobInv, Resuming
      <3>3. \A s \in Slots \ {job} : jobs'[s] = jobs[s]
        BY <2>22, <3>2, MarkOK, TypeParts DEF ResumeDone
      <3>4. /\ pc = "rexited" => ~jobs'[job].is_active
            /\ jobs'[job].is_active => jobs[job].is_active
            /\ jobs'[job].pgid = jobs[job].pgid
        BY <2>22, <3>2 DEF ResumeDone, Goto, TypeOK
      <3> QED
        BY <3>1, <3>2, <3>3, <3>4 DEF NoStaleJob
    <2>23. CASE UNCHANGED vars
      BY <2>23, StaleKept DEF vars, kernelVars, mainVars, ghostVars
    <2> QED
      BY <1>1, <2>1, <2>2, <2>3, <2>4, <2>5, <2>6, <2>7, <2>8, <2>9, <2>10, <2>11,
         <2>12, <2>13, <2>14, <2>15, <2>16, <2>17, <2>18, <2>19, <2>20, <2>21, <2>22,
         <2>23, ForkIs DEF Next, Main, sigchld_handler, execute_pipeline, execute_resume
  <1> QED
    BY <1>1, <1>2, AgesStep

\* the terminal stays where it is, and so does the pipeline that has it
LEMMA TermKept ==
    ASSUME TypeOK, TermInv, Ages, term' = Shell \/ UNCHANGED <<term, taker>>,
           \/ pc' \in {"rwaiting", "rexited", "rstopped"}
           \/ /\ pc \notin {"rwaiting", "rexited", "rstopped"}
              /\ leader # Shell /\ ~line.bg /\ pc \in Piping =>
                     leader' = leader /\ line' = line /\ pc' \in Piping
    PROVE  TermInv'
  BY DEF TypeOK, TermInv, Ages

\* who has the terminal
LEMMA TermStep == TypeOK /\ BirthInv /\ LineInv /\ JobInv /\ TermInv /\ [Next]_vars => TermInv'
  <1> SUFFICES ASSUME TypeOK, BirthInv, LineInv, JobInv, TermInv, [Next]_vars PROVE TermInv'
    OBVIOUS
  <1>1. ASSUME NEW c \in Pids, Born(c) PROVE TermInv'
    <2>1. /\ pc = "fork" /\ pc' = "setpgid" /\ line' = line /\ leader' = First(c)
          /\ UNCHANGED <<term, taker>>
          /\ pipeline_pgid' = [pipeline_pgid EXCEPT ![c] = First(c)]
          /\ pipeline_pgid[c] = Shell
      BY <1>1 DEF Born, BirthInv, termVars
    <2>2. leader # Shell => First(c) = leader
      BY <2>1 DEF First, LineInv
    <2>3. \A d \in Pids : pipeline_pgid[d] # Shell => pipeline_pgid'[d] = pipeline_pgid[d]
      BY <2>1 DEF TypeOK
    <2> QED
      BY <2>1, <2>2, <2>3 DEF TermInv, Piping, TypeOK
  <1>2. ASSUME Ages PROVE TermInv'
    <2>1. ASSUME NEW c \in Pids, Child(c) PROVE TermInv'
      <3>1. UNCHANGED mainVars /\ st[c] = "new"
        BY <2>1 DEF Child, termVars
      <3>2. CASE UNCHANGED <<term, taker>>
        BY <1>2, <3>1, <3>2, TermKept DEF mainVars
      <3>3. CASE /\ is_fg[c] /\ term' = pipeline_pgid[c]
                 /\ taker' = IF pipeline_pgid[c] = leader THEN Shell ELSE c
        <4>1. CASE pipeline_pgid[c] = leader
          <5>1. leader # Shell
            BY <3>1, <4>1, Numbers DEF BirthInv, Leads
          <5>2. ~line.bg /\ pc \in Piping
            BY <3>3, <4>1, <5>1 DEF LineInv
          <5> QED
            BY <3>1, <3>3, <4>1, <5>2 DEF TermInv, mainVars
        <4>2. CASE pipeline_pgid[c] # leader
          BY <1>2, <3>3, <4>2, Numbers DEF TermInv, Ages
        <4> QED
          BY <4>1, <4>2
      <3> QED
        BY <2>1, <3>2, <3>3 DEF Child, termVars
    <2>2. ASSUME NEW c \in Pids, Exit(c) PROVE TermInv'
      BY <1>2, <2>2, TermKept DEF Exit, mainVars, termVars
    <2>3. ASSUME NEW c \in Pids, Stop(c) PROVE TermInv'
      BY <1>2, <2>3, TermKept DEF Stop, mainVars, termVars
    <2>4. CASE HandlerStart
      BY <1>2, <2>4, TermKept DEF HandlerStart, mainVars, termVars
    <2>5. CASE HandlerStep
      BY <1>2, <2>5, TermKept DEF HandlerStep, mainVars, termVars
    <2>6. CASE UpdateJobs
      BY <1>2, <2>6, TermKept DEF UpdateJobs, Piping, LineInv, termVars
    <2>7. CASE EndLine
      BY <1>2, <2>7, TermKept DEF EndLine, Goto, kernelVars, termVars, Piping, LineInv
    <2>8. ASSUME NEW l \in Pipelines, Pipeline(l) PROVE TermInv'
      BY <1>2, <2>8, TermKept DEF Pipeline, CanStart, Goto, kernelVars, termVars, Piping, LineInv
    <2>9. ASSUME NEW procs \in Targets, execute_ping(procs) PROVE TermInv'
      BY <1>2, <2>9, TermKept DEF execute_ping, CanStart, Goto, Piping, LineInv, termVars
    <2>10. CASE SetPgid
      BY <1>2, <2>10, TermKept DEF SetPgid, Goto, Piping, LineInv, termVars
    <2>11. CASE Background
      BY <1>2, <2>11, TermKept DEF Background, Goto, kernelVars, termVars, Piping, LineInv
    <2>12. CASE Foreground
      <3>1. CASE UNCHANGED <<term, taker>>
        BY <1>2, <2>12, <3>1, TermKept DEF Foreground, Goto, Piping, termVars
      <3>2. CASE term' = leader
        BY <2>12, <3>2 DEF Foreground, Goto, TermInv, Piping, termVars
      <3> QED
        BY <2>12, <3>1, <3>2 DEF Foreground, tcsetpgrp, termVars
    <2>13. CASE Wait
      BY <1>2, <2>13, TermKept DEF Wait, Goto, kernelVars, termVars, Piping, LineInv
    <2>14. CASE Waited
      <3>1. pc = "waiting" /\ pc' \in {"wait", "stopped"}
        BY <2>14 DEF Waited, WaitStatus, termVars
      <3> QED
        BY <1>2, <2>14, <3>1, TermKept DEF Waited, Piping, termVars
    <2>15. CASE Stopped
      BY <1>2, <2>15, TermKept DEF Stopped, Goto, kernelVars, termVars, Piping, LineInv
    <2>16. CASE Reclaim
      BY <2>16 DEF Reclaim, Goto, tcsetpgrp, termVars, IsGroup, TermInv
    <2>17. ASSUME NEW s \in Slots, NEW bg \in BOOLEAN, Resume(s, bg) PROVE TermInv'
      BY <1>2, <2>17, TermKept DEF Resume, CanStart, Goto, kernelVars, termVars, Piping, LineInv
    <2>18. CASE Cont
      BY <1>2, <2>18, TermKept DEF Cont, Goto, Piping, LineInv, termVars
    <2>19. CASE Mark
      BY <1>2, <2>19, TermKept DEF Mark, Goto, kernelVars, termVars, Piping, LineInv
    <2>20. CASE ResumeTerm
      BY <2>20 DEF ResumeTerm, Goto, TermInv, termVars
    <2>21. CASE ResumeWaited
      BY <2>21 DEF ResumeWaited, WaitStatus, TermInv, termVars
    <2>22. CASE ResumeDone
      BY <2>22 DEF ResumeDone, Goto, tcsetpgrp, termVars, IsGroup, TermInv
    <2>23. CASE UNCHANGED vars
      BY <1>2, <2>23, TermKept DEF vars, kernelVars, termVars, mainVars
    <2> QED
      BY <1>1, <2>1, <2>2, <2>3, <2>4, <2>5, <2>6, <2>7, <2>8, <2>9, <2>10, <2>11,
         <2>12, <2>13, <2>14, <2>15, <2>16, <2>17, <2>18, <2>19, <2>20, <2>21, <2>22,
         <2>23, ForkIs DEF Next, Main, sigchld_handler, execute_pipeline, execute_resume
  <1> QED
    BY <1>1, <1>2, AgesStep

\* ends are only closed, and the shell has none unless it is forking
LEMMA EndsKept ==
    ASSUME TypeOK, EndsInv, Ages,
           \A q \in Pids : /\ wr'[q] \subseteq wr[q] /\ rd'[q] \subseteq rd[q]
                           /\ q \in rd'[q] /\ st[q] = "new" => st'[q] = "new",
           \/ pc' = pc /\ leader' = leader /\ pids' = pids /\ line' = line
           \/ pc \notin {"fork", "setpgid"}
    PROVE  EndsInv'
  <1> SUFFICES ASSUME NEW q \in Pids
               PROVE  /\ wr'[q] \subseteq {q, Shell}
                      /\ Shell \in wr'[q] => pc' = "setpgid"
                      /\ Shell \in rd'[q] =>
                             /\ pc' \in {"fork", "setpgid"} /\ pids' # <<>>
                             /\ leader' # Shell /\ pipeline_pgid'[q] = leader'
                             /\ q = Last' \/ (pc' = "setpgid" /\ q + 1 = Last')
                             /\ pc' = "setpgid" /\ q = Last' => MoreCmds'
                      /\ q \in rd'[q] => st'[q] = "new"
                      /\ rd'[q] \ {Shell, q} \subseteq NextCommand(q)'
    BY DEF EndsInv
  <1>1. pc \notin {"fork", "setpgid"} => Shell \notin wr[q] /\ Shell \notin rd[q]
    BY DEF EndsInv
  <1>2. pipeline_pgid' = pipeline_pgid /\ NextCommand(q)' = NextCommand(q)
    BY DEF Ages, NextCommand
  <1> QED
    BY <1>1, <1>2 DEF EndsInv, MoreCmds, Last

LEMMA SameEnds ==
    ASSUME wr' = wr, rd' = rd, \A q \in Pids : st[q] = "new" => st'[q] = "new"
    PROVE  \A q \in Pids : /\ wr'[q] \subseteq wr[q] /\ rd'[q] \subseteq rd[q]
                           /\ q \in rd'[q] /\ st[q] = "new" => st'[q] = "new"
  OBVIOUS

\* the next child has the next pid
LEMMA NextPid ==
    ASSUME TypeOK, BirthInv, LineInv, NEW c \in Pids, Born(c), pids # <<>>
    PROVE  Last \in Pids /\ c = Last + 1
  <1>1. /\ Len(pids) \in 1..Len(pids) /\ Last \in Pids /\ st[Last] # "none"
        /\ \A d \in Pids : st[d] # "none" => d <= Last
    BY EmptySeq DEF Born, LineInv, TypeOK, Last
  <1>2. st[c] = "none" /\ \A d \in Pids : d < c => st[d] # "none"
    BY DEF Born
  <1>3. Last < c
    BY <1>1, <1>2, Numbers DEF BirthInv
  <1>4. ~(Last + 1 < c)
    <2>1. Last + 1 < c => Last + 1 \in Pids
      BY <1>1, Numbers DEF Pids
    <2> QED
      BY <1>1, <1>2, <2>1, Numbers
  <1> QED
    BY <1>1, <1>3, <1>4, Numbers

\* who has the ends of the pipes
LEMMA EndsStep == TypeOK /\ BirthInv /\ LineInv /\ JobInv /\ EndsInv /\ [Next]_vars => EndsInv'
  <1> SUFFICES ASSUME TypeOK, BirthInv, LineInv, JobInv, EndsInv, [Next]_vars PROVE EndsInv'
    OBVIOUS
  <1>1. ASSUME NEW c \in Pids, Born(c) PROVE EndsInv'
    <2>1. /\ pc = "fork" /\ pc' = "setpgid" /\ line' = line /\ leader' = First(c)
          /\ pipeline_pgid' = [pipeline_pgid EXCEPT ![c] = First(c)]
          /\ st' = [st EXCEPT ![c] = "new"] /\ st[c] = "none"
          /\ wr' = Inherit(wr, c) /\ rd' = Inherit(rd, c) /\ pids' = Append(pids, c)
      BY <1>1 DEF Born
    <2>2. /\ leader # Shell => First(c) = leader
          /\ First(c) # Shell
          /\ wr[c] = {} /\ rd[c] = {} /\ \A q \in Pids : c \notin rd[q]
      BY <2>1, Numbers DEF First, LineInv, BirthInv, Piping
    <2>3. Last' = c /\ pids' # <<>> /\ (MoreCmds' <=> Len(pids) + 1 < line.cmds)
      <3>1. Len(pids') = Len(pids) + 1 /\ Len(pids) \in Nat /\ pids'[Len(pids) + 1] = c
        BY <2>1 DEF TypeOK
      <3>2. pids' # <<>>
        BY <3>1, EmptySeq
      <3> QED
        BY <2>1, <3>1, <3>2 DEF MoreCmds, Last
    <2>4. ASSUME NEW q \in Pids, q # c
          PROVE  /\ wr'[q] = wr[q]
                 /\ rd'[q] = IF Shell \in rd[q] THEN rd[q] \cup {c} ELSE rd[q]
                 /\ pipeline_pgid'[q] = pipeline_pgid[q] /\ st'[q] = st[q]
      BY <2>1, <2>4 DEF Inherit, EndsInv, TypeOK
    <2>5. /\ wr'[c] = IF MoreCmds' THEN {Shell, c} ELSE {}
          /\ rd'[c] = IF MoreCmds' THEN {Shell, c} ELSE {}
          /\ pipeline_pgid'[c] = First(c) /\ st'[c] = "new"
      BY <2>1, <2>2, <2>3 DEF Inherit, TypeOK
    <2> SUFFICES ASSUME NEW q \in Pids
                 PROVE  /\ wr'[q] \subseteq {q, Shell}
                        /\ Shell \in wr'[q] => pc' = "setpgid"
                        /\ Shell \in rd'[q] =>
                               /\ pc' \in {"fork", "setpgid"} /\ pids' # <<>>
                               /\ leader' # Shell /\ pipeline_pgid'[q] = leader'
                               /\ q = Last' \/ (pc' = "setpgid" /\ q + 1 = Last')
                               /\ pc' = "setpgid" /\ q = Last' => MoreCmds'
                        /\ q \in rd'[q] => st'[q] = "new"
                        /\ rd'[q] \ {Shell, q} \subseteq NextCommand(q)'
      BY DEF EndsInv
    <2>6. CASE q = c
      BY <2>1, <2>2, <2>3, <2>5, <2>6
    <2>7. CASE q # c
      <3>1. Shell \in rd[q] => /\ leader # Shell /\ pids # <<>> /\ q = Last
                               /\ pipeline_pgid[q] = leader /\ First(c) = leader
        BY <2>1, <2>2 DEF EndsInv
      <3>2. Shell \in rd[q] => q + 1 = c
        BY <1>1, <3>1, NextPid
      <3>3. ASSUME NEW d \in rd'[q] \ {Shell, q} PROVE d \in NextCommand(q)'
        <4>1. CASE d = c
          <5>1. Shell \in rd[q]
            BY <2>2, <2>4, <2>7, <3>3, <4>1
          <5> QED
            BY <2>4, <2>5, <2>7, <3>1, <3>2, <4>1, <5>1 DEF NextCommand
        <4>2. CASE d # c
          <5>1. d \in rd[q] \ {Shell, q}
            BY <2>4, <2>7, <3>3, <4>2
          <5>2. d \in NextCommand(q)
            BY <5>1 DEF EndsInv
          <5> QED
            BY <2>4, <2>7, <4>2, <5>2 DEF NextCommand
        <4> QED
          BY <4>1, <4>2
      <3>4. q \in rd'[q] => st'[q] = "new"
        BY <2>4, <2>7 DEF EndsInv
      <3>5. wr'[q] \subseteq {q, Shell} /\ (Shell \in wr'[q] => pc' = "setpgid")
        BY <2>1, <2>4, <2>7 DEF EndsInv
      <3>6. Shell \in rd'[q] => Shell \in rd[q]
        BY <2>4, <2>7, Numbers
      <3> QED
        BY <2>1, <2>3, <2>4, <2>7, <3>1, <3>2, <3>3, <3>4, <3>5, <3>6
    <2> QED
      BY <2>6, <2>7
  <1>2. ASSUME Ages PROVE EndsInv'
    <2>1. ASSUME NEW c \in Pids, Child(c) PROVE EndsInv'
      <3>1. /\ wr' = wr /\ rd' = [rd EXCEPT ![c] = rd[c] \ {c}] /\ st' = [st EXCEPT ![c] = "run"]
            /\ UNCHANGED mainVars
        BY <2>1 DEF Child
      <3>2. \A q \in Pids : /\ wr'[q] \subseteq wr[q] /\ rd'[q] \subseteq rd[q]
                            /\ q \in rd'[q] /\ st[q] = "new" => st'[q] = "new"
        BY <3>1 DEF TypeOK
      <3> QED
        BY <1>2, <3>1, <3>2, EndsKept DEF mainVars
    <2>2. ASSUME NEW c \in Pids, Exit(c) PROVE EndsInv'
      <3>1. \A q \in Pids : /\ wr'[q] \subseteq wr[q] /\ rd'[q] \subseteq rd[q]
                            /\ q \in rd'[q] /\ st[q] = "new" => st'[q] = "new"
        BY <2>2 DEF Exit, TypeOK
      <3> QED
        BY <1>2, <2>2, <3>1, EndsKept DEF Exit, mainVars
    <2>3. ASSUME NEW c \in Pids, Stop(c) PROVE EndsInv'
      <3>1. \A q \in Pids : st[q] = "new" => st'[q] = "new"
        BY <2>3 DEF Stop, TypeOK
      <3> QED
        BY <1>2, <2>3, <3>1, EndsKept, SameEnds DEF Stop, mainVars
    <2>4. CASE HandlerStart
      BY <1>2, <2>4, EndsKept, SameEnds DEF HandlerStart, mainVars
    <2>5. CASE HandlerStep
      <3>1. \A q \in Pids : st[q] = "new" => st'[q] = "new"
        <4>1. CASE Reportable = {}
          BY <2>5, <4>1 DEF HandlerStep
        <4>2. CASE Reportable # {}
          <5>1. PICK c \in Reportable : Reap(c)
            BY <2>5, <4>2 DEF HandlerStep
          <5> QED
            BY <5>1, ReapOK, CollectOK, TypeParts DEF TypeOK
        <4> QED
          BY <4>1, <4>2
      <3> QED
        BY <1>2, <2>5, <3>1, EndsKept, SameEnds DEF HandlerStep, mainVars
    <2>6. CASE UpdateJobs
      <3>1. \A q \in Pids : st[q] = "new" => st'[q] = "new"
        <4>1. CASE Reportable = {}
          BY <2>6, <4>1 DEF UpdateJobs
        <4>2. CASE Reportable # {}
          <5>1. PICK c \in Reportable : Reap(c)
            BY <2>6, <4>2 DEF UpdateJobs
          <5> QED
            BY <5>1, ReapOK, CollectOK, TypeParts DEF TypeOK
        <4> QED
          BY <4>1, <4>2
      <3> QED
        BY <1>2, <2>6, <3>1, EndsKept, SameEnds DEF UpdateJobs, mainVars
    <2>7. CASE EndLine
      BY <1>2, <2>7, EndsKept, SameEnds DEF EndLine, Goto, kernelVars
    <2>8. ASSUME NEW l \in Pipelines, Pipeline(l) PROVE EndsInv'
      BY <1>2, <2>8, EndsKept, SameEnds DEF Pipeline, CanStart, Goto, kernelVars
    <2>9. ASSUME NEW procs \in Targets, execute_ping(procs) PROVE EndsInv'
      BY <1>2, <2>9, EndsKept, SameEnds DEF execute_ping, CanStart, Goto, Continue
    <2>10. CASE SetPgid
      <3>1. /\ pc = "setpgid" /\ pc' = (IF MoreCmds THEN "fork" ELSE "started")
            /\ wr' = [q \in Pids |-> wr[q] \ {Shell}]
            /\ rd' = [q \in Pids |-> IF q = Last THEN rd[q] ELSE rd[q] \ {Shell}]
            /\ UNCHANGED <<st, pipeline_pgid, leader, pids>>
        BY <2>10 DEF SetPgid, Goto, CloseEnds, childVars, Last
      <3>2. \A q \in Pids : Shell \in rd'[q] => q = Last /\ Shell \in rd[q]
        BY <3>1
      <3>3. \A q \in Pids : Shell \in rd'[q] => MoreCmds
        BY <3>1, <3>2 DEF EndsInv
      <3>4. \A q \in Pids : /\ wr'[q] \subseteq {q} /\ rd'[q] \subseteq rd[q]
        BY <3>1 DEF EndsInv
      <3>5. Last' = Last /\ \A q \in Pids : NextCommand(q)' = NextCommand(q)
        BY <3>1 DEF Last, NextCommand
      <3> QED
        BY <3>1, <3>2, <3>3, <3>4, <3>5, Numbers DEF EndsInv
    <2>11. CASE Background
      BY <1>2, <2>11, EndsKept, SameEnds DEF Background, Goto, kernelVars
    <2>12. CASE Foreground
      BY <1>2, <2>12, EndsKept, SameEnds DEF Foreground, Goto
    <2>13. CASE Wait
      BY <1>2, <2>13, EndsKept, SameEnds DEF Wait, Goto, kernelVars
    <2>14. CASE Waited
      <3>1. pids # <<>> /\ WaitStatus(Head(pids), "wait", "stopped") /\ Head(pids) \in Pids
        BY <2>14, Taken DEF Waited, LineInv
      <3>2. \A q \in Pids : st[q] = "new" => st'[q] = "new"
        BY <3>1, WaitOK, TypeParts
      <3> QED
        BY <1>2, <2>14, <3>2, EndsKept, SameEnds DEF Waited
    <2>15. CASE Stopped
      BY <1>2, <2>15, EndsKept, SameEnds DEF Stopped, Goto, kernelVars
    <2>16. CASE Reclaim
      BY <1>2, <2>16, EndsKept, SameEnds DEF Reclaim, Goto
    <2>17. ASSUME NEW s \in Slots, NEW bg \in BOOLEAN, Resume(s, bg) PROVE EndsInv'
      BY <1>2, <2>17, EndsKept, SameEnds DEF Resume, CanStart, Goto, kernelVars
    <2>18. CASE Cont
      BY <1>2, <2>18, EndsKept, SameEnds DEF Cont, Goto, Continue
    <2>19. CASE Mark
      BY <1>2, <2>19, EndsKept, SameEnds DEF Mark, Goto, kernelVars
    <2>20. CASE ResumeTerm
      BY <1>2, <2>20, EndsKept, SameEnds DEF ResumeTerm, Goto
    <2>21. CASE ResumeWaited
      <3>1. PICK c \in Pids : WaitStatus(c, "rexited", "rstopped")
        <4>1. jobs[job].pgid \in Pids
          BY <2>21, RexitedJob DEF ResumeWaited, Resuming
        <4> QED
          BY <2>21, <4>1 DEF ResumeWaited, Members, Unreaped
      <3>2. \A q \in Pids : st[q] = "new" => st'[q] = "new"
        BY <3>1, WaitOK, TypeParts
      <3> QED
        BY <1>2, <2>21, <3>2, EndsKept, SameEnds DEF ResumeWaited
    <2>22. CASE ResumeDone
      BY <1>2, <2>22, EndsKept, SameEnds DEF ResumeDone, Goto
    <2>23. CASE UNCHANGED vars
      BY <1>2, <2>23, EndsKept, SameEnds DEF vars, kernelVars, mainVars
    <2> QED
      BY <1>1, <2>1, <2>2, <2>3, <2>4, <2>5, <2>6, <2>7, <2>8, <2>9, <2>10, <2>11,
         <2>12, <2>13, <2>14, <2>15, <2>16, <2>17, <2>18, <2>19, <2>20, <2>21, <2>22,
         <2>23, ForkIs DEF Next, Main, sigchld_handler, execute_pipeline, execute_resume
  <1> QED
    BY <1>1, <1>2, AgesStep

-----------------------------------------------------------------------------
(* The theorems                                                             *)

LEMMA InitInv == Init => IInv
  <1> SUFFICES ASSUME Init PROVE IInv
    OBVIOUS
  <1>1. TypeOK
    BY Numbers, EmptySeq DEF Init, TypeOK
  <1>2. pids = <<>> /\ Len(pids) = 0 /\ pc = "update" /\ leader = Shell
    BY EmptySeq DEF Init
  <1>3. LineInv
    BY <1>2 DEF LineInv, Piping
  <1>4. BirthInv /\ ReportInv /\ TermInv
    BY DEF Init, BirthInv, ReportInv, TermInv
  <1>5. JobInv /\ NoStaleJob
    BY DEF Init, JobInv, NoStaleJob, Resuming
  <1>6. KnownInv
    BY DEF Init, KnownInv, Alive, Piping
  <1>7. EndsInv
    BY DEF Init, EndsInv
  <1> QED
    BY <1>1, <1>3, <1>4, <1>5, <1>6, <1>7 DEF IInv

\* the invariant is inductive
THEOREM Invariance == Spec => []IInv
  <1>1. IInv /\ [Next]_vars => IInv'
    BY TypeStep, BirthStep, LineStep, ReportStep, JobStep, KnownStep, StaleStep,
       TermStep, EndsStep DEF IInv
  <1> QED
    BY InitInv, <1>1, PTL DEF Spec

\* The job table and the kernel's processes keep their types, two entries never
\* name one process, and no report of a child is left that nobody will ask for.
THEOREM NothingUnreported == Spec => []Inv
  <1>1. IInv => Inv
    BY DEF IInv, Inv, NoZombieLeft, ReportInv
  <1> QED
    BY Invariance, <1>1, PTL

\* Back at the prompt, or between two commands of a line, the terminal is the
\* shell's, unless the last to move it was a child that got to run only after
\* its pipeline had been left.
THEOREM TerminalComesBack == Spec => []TerminalBack
  <1>1. IInv => TerminalBack
    BY DEF IInv, TerminalBack, TermInv, Piping
  <1> QED
    BY Invariance, <1>1, PTL

\* What runs is waited for or its pipeline is in the job table, and what is in
\* the table has not ended, but for the exceptions that the properties name: a
\* full table, the end of a first process or one that a foreground resume saw,
\* and an entry that was made too late.
THEOREM JobsStayKnown == Spec => []JobsKnown
  <1>1. IInv => NoJobForgotten
    BY DEF IInv, NoJobForgotten, KnownInv, Known
  <1>2. IInv => NoStaleJob
    BY DEF IInv
  <1> QED
    BY Invariance, <1>1, <1>2, PTL DEF JobsKnown

\* Once all commands of a pipeline run, nobody has an end of a pipe but the
\* command that writes to it and the next one, which reads from it.
THEOREM PipesEnd == Spec => []PipeEnds
  <1>1. IInv => PipeEnds
    BY Numbers DEF IInv, PipeEnds, EndsInv
  <1> QED
    BY Invariance, <1>1, PTL
=============================================================================

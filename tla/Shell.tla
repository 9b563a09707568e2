------------------------------- MODULE Shell -------------------------------
(***************************************************************************)
(* Job control of src/c-shell: execute_pipeline(), the job table, the      *)
(* SIGCHLD handler that may run between any two steps of the main program, *)
(* `resume` and `ping`, over a model of the kernel's processes, groups,    *)
(* wait reports, pipes and terminal.                                       *)
(*                                                                         *)
(* A job is named by its slot here; its id, its text and what is printed   *)
(* are left out, and so is the alarm of `resume --timeout`: its SIGTERM is *)
(* one more way for a child to end, which it may do at any time.           *)
(***************************************************************************)
EXTENDS Integers, Sequences, FiniteSets

CONSTANTS
    MaxPid,     \* children that are ever forked; no pid is used twice
    MAX_JOBS,
    Pipelines   \* command lines: [cmds : how many commands, bg : BOOLEAN]

ASSUME ShellAssumption ==
    /\ MaxPid \in Nat /\ MAX_JOBS \in Nat
    /\ Pipelines \subseteq [cmds : 1..MaxPid, bg : BOOLEAN]

Pids  == 1..MaxPid
Slots == 1..MAX_JOBS
Shell == 0      \* the shell, its process group, and "no process"

VARIABLES
    \* the kernel
    st,             \* by child: none, new (forked, still shell code), run,
                    \* stop, zombie, gone
    unreported,     \* stopped, and no wait has returned it yet
    pgrp,           \* its process group
    wr, rd,         \* by the child that writes to it: who has the write end,
                    \* the read end of a pipe
    term,           \* the foreground process group of the terminal
    sigchld,        \* SIGCHLD is pending for the shell
    \* what a new child has in its copy of memory
    pipeline_pgid, is_fg,
    \* the shell
    jobs, inHandler,
    pc, line,       \* the pipeline that is executed
    leader,         \* its pipeline_pgid
    pids,           \* its children, and then those still to be waited for
    job,            \* the slot of execute_resume()
    \* history
    taker,          \* the child that took the terminal last, if its pipeline
                    \* had been left by then; Shell else
    stillborn,      \* slots whose process was gone when the entry was made
    dropped,        \* groups for which add_job() had no slot
    lost            \* groups that an end took out of the table: that of their
                    \* first process, or any that a foreground resume saw

termVars   == <<term, taker>>
kernelVars == <<st, unreported, pgrp, wr, rd, termVars, sigchld>>
childVars  == <<pipeline_pgid, is_fg>>
mainVars   == <<pc, line, leader, pids, job>>
ghostVars  == <<stillborn, dropped, lost>>
vars == <<kernelVars, childVars, jobs, inHandler, mainVars, ghostVars>>

Unreaped == {c \in Pids : st[c] \notin {"none", "gone"}}
Alive    == {c \in Pids : st[c] \in {"new", "run", "stop"}}
NoLine   == [cmds |-> 1, bg |-> FALSE]

TypeOK ==
    /\ st \in [Pids -> {"none", "new", "run", "stop", "zombie", "gone"}]
    /\ unreported \subseteq {c \in Pids : st[c] = "stop"}
    /\ pgrp \in [Pids -> Pids \cup {Shell}]
    /\ wr \in [Pids -> SUBSET (Pids \cup {Shell})]
    /\ rd \in [Pids -> SUBSET (Pids \cup {Shell})]
    /\ term \in Pids \cup {Shell} /\ sigchld \in BOOLEAN
    /\ pipeline_pgid \in [Pids -> Pids \cup {Shell}] /\ is_fg \in [Pids -> BOOLEAN]
    /\ jobs \in [Slots -> [pgid : Pids \cup {Shell}, is_running : BOOLEAN,
                           is_active : BOOLEAN]]
    /\ \A s, t \in Slots : jobs[s].is_active /\ jobs[t].is_active /\ s # t =>
                              jobs[s].pgid # jobs[t].pgid
    /\ inHandler \in BOOLEAN
    /\ pc \in {"update", "prompt", "next", "fork", "setpgid", "started", "wait",
               "waiting", "stopped", "reclaim", "cont", "mark", "rterm",
               "rwaiting", "rexited", "rstopped"}
    /\ line \in Pipelines \cup [cmds : {1}, bg : BOOLEAN]
    /\ leader \in Pids \cup {Shell} /\ pids \in Seq(Pids)
    /\ job \in Slots \cup {0}
    /\ taker \in Pids \cup {Shell} /\ stillborn \subseteq Slots
    /\ dropped \subseteq Pids /\ lost \subseteq Pids

\* init_shell(): a session of its own, no job, no child
Init ==
    /\ st = [c \in Pids |-> "none"] /\ unreported = {}
    /\ pgrp = [c \in Pids |-> Shell]
    /\ wr = [c \in Pids |-> {}] /\ rd = [c \in Pids |-> {}]
    /\ term = Shell /\ sigchld = FALSE
    /\ pipeline_pgid = [c \in Pids |-> Shell] /\ is_fg = [c \in Pids |-> FALSE]
    /\ jobs = [s \in Slots |-> [pgid |-> Shell, is_running |-> FALSE, is_active |-> FALSE]]
    /\ inHandler = FALSE
    /\ pc = "update" /\ line = NoLine /\ leader = Shell /\ pids = <<>> /\ job = 0
    /\ taker = Shell /\ stillborn = {} /\ dropped = {} /\ lost = {}

-----------------------------------------------------------------------------
(* The kernel                                                               *)

Reportable == {c \in Pids : st[c] = "zombie"} \cup unreported
Members(g) == {c \in Unreaped : pgrp[c] = g}

\* a group is there as long as a process of it has not been waited for
IsGroup(g) == g = Shell \/ Members(g) # {}

setpgid(c, g) == pgrp' = IF g = c \/ IsGroup(g) THEN [pgrp EXCEPT ![c] = g] ELSE pgrp

\* tcsetpgrp() of the shell; SIGTTOU is ignored there, and by a child until it
\* has done the same
tcsetpgrp(g) == IF IsGroup(g) THEN term' = g /\ taker' = Shell ELSE UNCHANGED termVars

\* wait(): its report of c is taken
Collect(c) ==
    /\ st' = IF st[c] = "zombie" THEN [st EXCEPT ![c] = "gone"] ELSE st
    /\ unreported' = unreported \ {c}

Exit(c) ==
    /\ st[c] \in {"run", "stop"}
    /\ st' = [st EXCEPT ![c] = "zombie"]
    /\ unreported' = unreported \ {c}
    /\ wr' = [q \in Pids |-> wr[q] \ {c}] /\ rd' = [q \in Pids |-> rd[q] \ {c}]
    /\ sigchld' = TRUE
    /\ UNCHANGED <<pgrp, termVars, childVars, jobs, inHandler, mainVars, ghostVars>>

Stop(c) ==
    /\ st[c] = "run"
    /\ st' = [st EXCEPT ![c] = "stop"]
    /\ unreported' = unreported \cup {c}
    /\ sigchld' = TRUE
    /\ UNCHANGED <<pgrp, wr, rd, termVars, childVars, jobs, inHandler, mainVars, ghostVars>>

\* kill(, SIGCONT) to some processes; a stop that was not reported is forgotten
Continue(procs) ==
    /\ st' = [c \in Pids |-> IF c \in procs /\ st[c] = "stop" THEN "run" ELSE st[c]]
    /\ unreported' = unreported \ procs
    /\ sigchld' = (sigchld \/ \E c \in procs : st[c] = "stop")

-----------------------------------------------------------------------------
(* The job table                                                            *)

FreeSlots == {s \in Slots : ~jobs[s].is_active}

\* the lowest free slot, if there is one
add_job(g, running) ==
    IF FreeSlots = {}
    THEN dropped' = dropped \cup {g} /\ UNCHANGED <<jobs, stillborn>>
    ELSE LET s == CHOOSE s \in FreeSlots : \A t \in FreeSlots : s <= t
         IN  /\ jobs' = [jobs EXCEPT ![s] = [pgid |-> g, is_running |-> running,
                                            is_active |-> TRUE]]
             /\ stillborn' = IF st[g] = "gone" THEN stillborn \cup {s} ELSE stillborn \ {s}
             /\ UNCHANGED dropped

\* waitpid(-1, WNOHANG | WUNTRACED) returned c: find its job, by its first
\* process
Reap(c) ==
    /\ Collect(c)
    /\ jobs' = [s \in Slots |->
                  IF jobs[s].is_active /\ jobs[s].pgid = c
                  THEN IF st[c] = "zombie" THEN [jobs[s] EXCEPT !.is_active = FALSE]
                       ELSE [jobs[s] EXCEPT !.is_running = FALSE]
                  ELSE jobs[s]]
    /\ lost' = IF st[c] = "zombie" /\ \E s \in Slots : jobs[s].is_active /\ jobs[s].pgid = c
               THEN lost \cup {c} ELSE lost

\* The main program is in a wait that has something to return: the kernel looks
\* for that before it delivers a signal.
WaitReturns == \/ pc = "waiting" /\ Head(pids) \in Reportable
               \/ pc = "rwaiting" /\ Members(jobs[job].pgid) \cap Reportable # {}

HandlerStart ==
    /\ sigchld /\ ~inHandler /\ ~WaitReturns
    /\ sigchld' = FALSE /\ inHandler' = TRUE
    /\ UNCHANGED <<st, unreported, pgrp, wr, rd, termVars, childVars, jobs, mainVars, ghostVars>>

HandlerOnce ==  \* seeded fault: one wait for each signal
    /\ inHandler /\ inHandler' = FALSE
    /\ IF Reportable = {} THEN UNCHANGED <<st, unreported, jobs, lost>>
       ELSE \E c \in Reportable : Reap(c)
    /\ UNCHANGED <<pgrp, wr, rd, termVars, sigchld, childVars, mainVars, stillborn, dropped>>

\* one iteration of sigchld_handler()
HandlerStep ==
    /\ inHandler
    /\ IF Reportable = {} THEN inHandler' = FALSE /\ UNCHANGED <<st, unreported, jobs, lost>>
       ELSE (\E c \in Reportable : Reap(c)) /\ UNCHANGED inHandler
    /\ UNCHANGED <<pgrp, wr, rd, termVars, sigchld, childVars, mainVars, stillborn, dropped>>

sigchld_handler == HandlerStart \/ HandlerStep

-----------------------------------------------------------------------------
(* The main loop                                                            *)

Goto(from, to) == ~inHandler /\ pc = from /\ pc' = to

\* one iteration of update_jobs_status(), and the prompt after the last
UpdateJobs ==
    /\ ~inHandler /\ pc = "update"
    /\ IF Reportable = {} THEN pc' = "prompt" /\ UNCHANGED <<st, unreported, jobs, lost>>
       ELSE (\E c \in Reportable : Reap(c)) /\ UNCHANGED pc
    /\ UNCHANGED <<pgrp, wr, rd, termVars, sigchld, childVars, inHandler, line, leader, pids, job,
                   stillborn, dropped>>

\* an empty line, or the end of a line
EndLine ==
    /\ Goto("prompt", "update") \/ Goto("next", "update")
    /\ UNCHANGED <<kernelVars, childVars, jobs, inHandler, line, leader, pids, job, ghostVars>>

\* the next command of a line; a line may hold several, between ; and &
CanStart(to) == Goto("prompt", to) \/ Goto("next", to)

Pipeline(l) ==
    /\ CanStart("fork") /\ l \in Pipelines
    /\ Cardinality({c \in Pids : st[c] = "none"}) >= l.cmds
    /\ line' = l
    /\ UNCHANGED <<kernelVars, childVars, jobs, inHandler, leader, pids, job, ghostVars>>

\* ping, of a job or of one process: SIGCONT here; other signals are Stop and
\* Exit of the kernel
Targets == {Members(jobs[s].pgid) : s \in {s \in Slots : jobs[s].is_active}}
           \cup {{c} : c \in Unreaped}

execute_ping(procs) ==
    /\ CanStart("next")
    /\ Continue(procs)
    /\ UNCHANGED <<pgrp, wr, rd, termVars, childVars, jobs, inHandler, line, leader, pids, job, ghostVars>>

-----------------------------------------------------------------------------
(* execute_pipeline()                                                       *)

MoreCmds == Len(pids) < line.cmds

\* pipe() if a command follows, and fork(), which inherits what the shell has
Fork ==
    LET c == CHOOSE c \in Pids : st[c] = "none" /\ \A d \in 1..(c - 1) : st[d] # "none"
        first == IF pids = <<>> THEN c ELSE leader
        pipes(ends) == [q \in Pids |-> IF q = c /\ Len(pids) + 1 < line.cmds THEN {Shell, c}
                                       ELSE IF Shell \in ends[q] THEN ends[q] \cup {c}
                                       ELSE ends[q]]
    IN  /\ Goto("fork", "setpgid")
        /\ st' = [st EXCEPT ![c] = "new"]
        /\ wr' = pipes(wr) /\ rd' = pipes(rd)
        /\ leader' = first /\ pids' = Append(pids, c)
        /\ pipeline_pgid' = [pipeline_pgid EXCEPT ![c] = first]
        /\ is_fg' = [is_fg EXCEPT ![c] = ~line.bg]
        /\ UNCHANGED <<unreported, pgrp, termVars, sigchld, jobs, inHandler, line, job, ghostVars>>

\* the shell drops its end of the pipe to the last child, and of the one
\* before that
LeaveWriteEnd(c) ==  \* seeded fault: fd[1] stays open in the shell
    /\ wr' = wr
    /\ rd' = [q \in Pids |-> IF q = c THEN rd[q] ELSE rd[q] \ {Shell}]

CloseEnds(c) ==
    /\ wr' = [q \in Pids |-> wr[q] \ {Shell}]
    /\ rd' = [q \in Pids |-> IF q = c THEN rd[q] ELSE rd[q] \ {Shell}]

\* the parent's setpgid() (of a child that has not done it), and its close()s
SetPgid ==
    LET c == pids[Len(pids)]
    IN  /\ Goto("setpgid", IF MoreCmds THEN "fork" ELSE "started")
        /\ IF st[c] = "new" THEN setpgid(c, leader) ELSE UNCHANGED pgrp
        /\ CloseEnds(c)
        /\ UNCHANGED <<st, unreported, termVars, sigchld, childVars, jobs, inHandler, line, leader, pids, job, ghostVars>>

\* the child, up to the command that it becomes: group, terminal, signals, and
\* of the pipes only its input and the write end of its output
Child(c) ==
    LET g == pipeline_pgid[c]
        joined == IF g = c \/ IsGroup(g) THEN g ELSE pgrp[c]
        takes == is_fg[c] /\ (joined = g \/ IsGroup(g))
    IN  /\ st[c] = "new"
        /\ st' = [st EXCEPT ![c] = "run"]
        /\ setpgid(c, g)
        /\ term' = IF takes THEN g ELSE term
        /\ taker' = IF ~takes THEN taker ELSE IF g = leader THEN Shell ELSE c
        /\ rd' = [rd EXCEPT ![c] = @ \ {c}]
        /\ UNCHANGED <<unreported, wr, sigchld, childVars, jobs, inHandler, mainVars, ghostVars>>

Background ==
    /\ Goto("started", "next") /\ line.bg
    /\ add_job(leader, TRUE)
    /\ line' = NoLine /\ leader' = Shell /\ pids' = <<>>
    /\ UNCHANGED <<kernelVars, childVars, inHandler, job, lost>>

Foreground ==
    /\ Goto("started", "wait") /\ ~line.bg
    /\ tcsetpgrp(leader)
    /\ UNCHANGED <<st, unreported, pgrp, wr, rd, sigchld, childVars, jobs, inHandler, line, leader, pids, job, ghostVars>>

\* into waitpid(), or past the loop
Wait ==
    /\ Goto("wait", IF pids = <<>> THEN "reclaim" ELSE "waiting")
    /\ UNCHANGED <<kernelVars, childVars, jobs, inHandler, line, leader, pids, job, ghostVars>>

WaitIgnoresStop(c, exited, stopped) ==  \* seeded fault: WIFSTOPPED is not looked at
    /\ ~inHandler
    /\ \/ c \in Reportable /\ Collect(c) /\ pc' = exited
       \/ st[c] = "gone" /\ UNCHANGED <<st, unreported>> /\ pc' = exited

\* What the wait for c leaves in status: a report, or, when there is no such
\* child any more, whatever was in it.
WaitStatus(c, exited, stopped) ==
    /\ ~inHandler
    /\ \/ c \in Reportable /\ Collect(c) /\ pc' = IF st[c] = "zombie" THEN exited ELSE stopped
       \/ st[c] = "gone" /\ UNCHANGED <<st, unreported>> /\ pc' \in {exited, stopped}

Waited ==
    /\ pc = "waiting"
    /\ WaitStatus(Head(pids), "wait", "stopped")
    /\ pids' = Tail(pids)
    /\ UNCHANGED <<pgrp, wr, rd, termVars, sigchld, childVars, jobs, inHandler, line, leader, job, ghostVars>>

Stopped ==
    /\ Goto("stopped", "reclaim")
    /\ add_job(leader, FALSE)
    /\ UNCHANGED <<kernelVars, childVars, inHandler, line, leader, pids, job, lost>>

ReclaimNot ==  \* seeded fault: return without the terminal
    /\ Goto("reclaim", "next")
    /\ line' = NoLine /\ leader' = Shell /\ pids' = <<>>
    /\ UNCHANGED <<kernelVars, childVars, jobs, inHandler, job, ghostVars>>

Reclaim ==
    /\ Goto("reclaim", "next")
    /\ tcsetpgrp(Shell)
    /\ line' = NoLine /\ leader' = Shell /\ pids' = <<>>
    /\ UNCHANGED <<st, unreported, pgrp, wr, rd, sigchld, childVars, jobs, inHandler, job, ghostVars>>

execute_pipeline == \/ Fork \/ SetPgid \/ Background \/ Foreground
                    \/ Wait \/ Waited \/ Stopped \/ Reclaim

-----------------------------------------------------------------------------
(* execute_resume()                                                         *)

\* find_job_by_id()
Resume(s, bg) ==
    /\ CanStart("cont") /\ jobs[s].is_active
    /\ job' = s /\ line' = [cmds |-> 1, bg |-> bg]
    /\ UNCHANGED <<kernelVars, childVars, jobs, inHandler, leader, pids, ghostVars>>

Cont ==
    /\ Goto("cont", "mark")
    /\ Continue(Members(jobs[job].pgid))
    /\ UNCHANGED <<pgrp, wr, rd, termVars, childVars, jobs, inHandler, line, leader, pids, job, ghostVars>>

Mark ==
    /\ Goto("mark", IF line.bg THEN "next" ELSE "rterm")
    /\ jobs' = [jobs EXCEPT ![job].is_running = TRUE]
    /\ line' = NoLine
    /\ job' = IF line.bg THEN 0 ELSE job
    /\ UNCHANGED <<kernelVars, childVars, inHandler, leader, pids, ghostVars>>

ResumeTerm ==
    /\ Goto("rterm", "rwaiting")
    /\ tcsetpgrp(jobs[job].pgid)
    /\ UNCHANGED <<st, unreported, pgrp, wr, rd, sigchld, childVars, jobs, inHandler, line, leader, pids, job, ghostVars>>

\* waitpid(-pgid): one process of the group
ResumeWaited ==
    LET g == jobs[job].pgid
        awaited == IF Members(g) = {} THEN {g} ELSE Members(g) \cap Reportable
    IN  /\ pc = "rwaiting"
        /\ \E c \in awaited :
              /\ WaitStatus(c, "rexited", "rstopped")
              /\ lost' = IF st[c] \in {"zombie", "gone"} THEN lost \cup {g} ELSE lost
        /\ UNCHANGED <<pgrp, wr, rd, termVars, sigchld, childVars, jobs, inHandler, line, leader, pids, job,
                       stillborn, dropped>>

ResumeDone ==
    /\ \/ /\ Goto("rexited", "next")
          /\ jobs' = [jobs EXCEPT ![job].is_active = FALSE]
       \/ /\ Goto("rstopped", "next")
          /\ jobs' = [jobs EXCEPT ![job].is_running = FALSE]
    /\ tcsetpgrp(Shell) /\ job' = 0
    /\ UNCHANGED <<st, unreported, pgrp, wr, rd, sigchld, childVars, inHandler, line, leader, pids, ghostVars>>

execute_resume == Cont \/ Mark \/ ResumeTerm \/ ResumeWaited \/ ResumeDone

-----------------------------------------------------------------------------
Main == \/ UpdateJobs \/ EndLine \/ execute_pipeline \/ execute_resume
        \/ \E l \in Pipelines : Pipeline(l)
        \/ \E procs \in Targets : execute_ping(procs)
        \/ \E s \in Slots, bg \in BOOLEAN : Resume(s, bg)

Next == \/ Main \/ sigchld_handler
        \/ \E c \in Pids : Child(c) \/ Exit(c) \/ Stop(c)

Spec == Init /\ [][Next]_vars

-----------------------------------------------------------------------------
(* Properties *)

\* No child stays a zombie, and no stop is overlooked, however many reports one
\* pending SIGCHLD stands for: each is collected by the handler, by the loop
\* before the prompt, or by the wait it is meant for (jobs.c:84, execute.c:171).
NoZombieLeft ==
    \A c \in Reportable : sigchld \/ inHandler \/ pc = "update" \/ WaitReturns

\* The job table and the kernel's processes keep their types, and no report of
\* a child is left uncollected.
Inv == TypeOK /\ NoZombieLeft

\* Between two commands the terminal is the shell's. The one exception is named:
\* the last to move it was a child that got to run only after its pipeline had
\* been left, by the break of a stop or of a status that no wait wrote
\* (execute.c:137, 170-180).
TerminalBack ==
    pc \in {"update", "prompt", "next"} /\ term # Shell =>
        taker # Shell /\ pipeline_pgid[taker] = term

\* A command that has not ended is waited for, or its pipeline has an entry,
\* however many commands the pipeline has and whoever took the reports of their
\* stops (execute.c:164, 173). The code is known to forget a pipeline for which
\* the table was full, and one whose entry went with its first process
\* (jobs.c:67) or after a foreground resume that one of its processes ended
\* (exotic.c:103-114); it forgets no other.
NoJobForgotten ==
    \A c \in Alive :
        LET g == pipeline_pgid[c]
        IN  \/ g = leader \/ g \in dropped \/ g \in lost
            \/ \E s \in Slots : jobs[s].is_active /\ jobs[s].pgid = g

\* The entry of a job whose first process has ended is removed with it; what
\* stays for ever is what add_job() was told too late (execute.c:164, 173).
NoStaleJob ==
    \A s \in Slots : jobs[s].is_active /\ st[jobs[s].pgid] = "gone" =>
        s \in stillborn \/ (pc = "rexited" /\ job = s)

\* The job table tells the truth both ways: what runs is in it, and what is in
\* it has not ended, with the exceptions that the two parts name.
JobsKnown == NoJobForgotten /\ NoStaleJob

\* pids are given in the order of the forks
NextCommand(c) == {d \in Pids : d = c + 1 /\ pipeline_pgid[d] = pipeline_pgid[c]}

\* Once a pipeline is set up, a command that reads sees the end of its input
\* when the command before it has ended, and one that writes has no reader when
\* the next has: nobody else keeps an end open, neither the shell nor another
\* command of the same line (execute.c:138-157).
PipeEnds ==
    pc \notin {"fork", "setpgid"} /\ (\A c \in Pids : st[c] # "new") =>
        \A c \in Pids : wr[c] \subseteq {c} /\ rd[c] \subseteq NextCommand(c)
=============================================================================

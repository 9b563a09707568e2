----------------------------- MODULE AtomicDisk -----------------------------
(***************************************************************************)
(* What the log promises to the file system: system calls that overlap     *)
(* change the disk together or not at all.  A crash takes back everything  *)
(* since the last commit, and a commit happens between calls only.         *)
(***************************************************************************)
CONSTANTS Calls, Blocks, Vals
VARIABLES mem,      \* by block: what system calls read and write
          stable,   \* by block: what is found after a crash
          active    \* the system calls between begin_op() and end_op()

Init == /\ mem \in [Blocks -> Vals] /\ stable = mem
        /\ active = {}

Begin(c) == /\ c \notin active
            /\ active' = active \cup {c}
            /\ UNCHANGED <<mem, stable>>

Write(c, b, v) == /\ c \in active
                  /\ mem' = [mem EXCEPT ![b] = v]
                  /\ UNCHANGED <<stable, active>>

End(c) == /\ c \in active
          /\ active' = active \ {c}
          /\ UNCHANGED <<mem, stable>>

Commit == /\ active = {}
          /\ stable' = mem
          /\ UNCHANGED <<mem, active>>

Crash == /\ mem' = stable
         /\ active' = {}
         /\ UNCHANGED stable

Next == \/ \E c \in Calls : Begin(c) \/ End(c)
        \/ \E c \in Calls, b \in Blocks, v \in Vals : Write(c, b, v)
        \/ Commit \/ Crash

Spec == Init /\ [][Next]_<<mem, stable, active>>
=============================================================================

------------------------------- MODULE Mutex -------------------------------
(***************************************************************************)
(* What a sleep lock promises: one owner at a time, whoever wants the lock *)
(* may wait for it, and a free lock that is wanted is taken.  It promises  *)
(* no order among those who wait.                                          *)
(***************************************************************************)
CONSTANT Clients
VARIABLES owner,    \* the clients that own the lock: none or one
          want      \* the clients inside acquire

Init == owner = {} /\ want = {}

Request(c) == /\ c \notin want \cup owner
              /\ want' = want \cup {c}
              /\ UNCHANGED owner

Enter(c) == /\ c \in want /\ owner = {}
            /\ want' = want \ {c}
            /\ owner' = {c}

Leave(c) == /\ owner = {c}
            /\ owner' = {}
            /\ UNCHANGED want

Next == \E c \in Clients : Request(c) \/ Enter(c) \/ Leave(c)

Safe == Init /\ [][Next]_<<owner, want>>

Spec == Safe /\ WF_<<owner, want>>(\E c \in Clients : Enter(c))
=============================================================================

-------------------------------- MODULE MCFs --------------------------------
(* A small instance of Fs: two names, paths of one and two elements *)
EXTENDS Fs

\* one process makes all calls, the other those that change directories
Tree ==
    [paths |-> {[abs |-> TRUE,  elems |-> <<"a">>], [abs |-> TRUE, elems |-> <<"a", "b">>],
                [abs |-> FALSE, elems |-> <<"b">>],
                [abs |-> FALSE, elems |-> <<"..", "b">>]},
     ops   |-> <<Calls, {"link", "unlink", "mkdir"}>>,
     crash |-> FALSE, full |-> FALSE]

\* crashes, and a disk that may be full; no process changes its directory
Crashes ==
    [paths |-> {[abs |-> TRUE, elems |-> <<"a">>], [abs |-> TRUE, elems |-> <<"a", "b">>]},
     ops   |-> [p \in Procs |-> {"creat", "close", "unlink", "mkdir"}],
     crash |-> TRUE, full |-> TRUE]

MCWorkloads == {Tree, Crashes}
=============================================================================

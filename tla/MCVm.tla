-------------------------------- MODULE MCVm --------------------------------
(***************************************************************************)
(* Vm for TLC: pages of two bytes in a tree of two entries a node, so that *)
(* a user has six pages, reached through four leaf tables.                 *)
(***************************************************************************)
EXTENDS Vm

Segment(va, memsz, filesz, w) == [va |-> va, memsz |-> memsz, filesz |-> filesz, w |-> w]

\* No segment; one page; and text, then data and bss one page further on.
MCImages == { << >>,
              << Segment(0, 2, 1, FALSE) >>,
              << Segment(0, 1, 1, FALSE), Segment(2, 2, 1, TRUE) >> }

\* Less than a page and more than one, and more than the process has.
MCDeltas == {-5, -1, 3}

\* A process that runs programs; one that forks at every size and shape its
\* memory takes; and a shell, whose child grows and runs programs.
MCWorkloads ==
  {<<{"fault", "sbrk", "exec"}, {}>>,
   <<{"fault", "sbrk", "fork", "wait"}, {"exit"}>>,
   <<{"fork", "wait"}, {"fault", "sbrk", "exec", "exit"}>>}

=============================================================================

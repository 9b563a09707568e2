------------------------------ MODULE MCFileIo ------------------------------
(***************************************************************************)
(* FileIo for TLC: what two processes do with files and with the console.  *)
(***************************************************************************)
EXTENDS FileIo

Work(calls, ips, modes, who, open) ==
  [calls |-> calls, ips |-> ips, modes |-> modes, alive |-> who, open |-> open,
   readers |-> {}, writers |-> {}, killable |-> {}, keys |-> {}]

Terminal(readers, writers, killable, keys) ==
  [Work(<<{}, {}>>, <<{}, {}>>, {}, {1, 2}, ConsoleInode)
     EXCEPT !.readers = readers, !.writers = writers, !.killable = killable,
            !.keys = keys]

RW == {{"r", "w"}}

\* Two processes share an open file.
Shared == Work(<<{"write"}, {"write", "read"}>>, <<{}, {}>>, {}, {1, 2}, 1)

\* Two files on a disk too small for both.
Full == Work(<<{"open", "write"}, {"open", "write"}>>, <<{1}, {2}>>, RW, {1, 2}, 0)

\* One truncates what the other writes and reads.
Trunc == Work(<<{"open", "write", "read"}, {"open", "trunc", "close"}>>, <<{1}, {1}>>,
              RW, {1, 2}, 0)

\* Descriptors and files only, up to their limits, of all modes.
Tables == Work(<<{"open", "dup", "close", "fork"}, {"open", "dup", "close"}>>,
               <<{1, ConsoleInode}, {1}>>, {{"r"}, {"r", "w"}}, {1}, 0)

\* A line is typed, edited and read, or waited for by a process that is killed.
Line == Terminal({1}, {}, {1}, {"a", "nl", "^H", "^U"})

\* Two readers, and an end of file that the one may leave for the other.
Readers == Terminal({1, 2}, {}, {}, {"a", "^D"})

\* Echo and output share the transmitter.
Echoes == Terminal({1}, {2}, {}, {"nl"})

MCWorkloads == {Shared, Full, Trunc, Tables, Line, Readers, Echoes}

=============================================================================

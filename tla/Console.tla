------------------------------- MODULE Console -------------------------------
(***************************************************************************)
(* The console of src/xv6/kernel/console.c on the serial port of uart.c:   *)
(* consoleread() of processes, consoleintr() of the uart's interrupt, and  *)
(* consolewrite() with uartwrite(), which sleeps for the transmitter.      *)
(*                                                                         *)
(* cons.lock is explicit, and a step is one iteration of a loop under it.  *)
(* tx_lock is a sleep lock (module Sleeplock), taken and released in one   *)
(* step.  The uart is external: it raises its interrupt when a character   *)
(* comes in and when the last one has gone out, and the PLIC hands it to   *)
(* one hart at a time, so there is one handler.                            *)
(***************************************************************************)
EXTENDS SleepWakeup, Sequences

CONSTANTS
  INPUT_BUF_SIZE,
  Wrap,             \* 2^32
  Keys,             \* what may be typed: characters, "nl", "^D", "^H", "^U"
  Workloads,        \* who reads, writes or may be killed, and which keys are typed
  BATCH,            \* consolewrite() copies 32 bytes at a time
  MaxLen,           \* bound: the largest n of a read or write
  MaxTyped          \* bound: characters waiting in the uart

VARIABLES
  lock,             \* who holds cons.lock: a process, the handler, or 0
  buf, r, w, e,     \* cons
  txlock,           \* who holds tx_lock, or 0
  rx,               \* typed characters that uartgetc() has not read
  tx,               \* characters in the transmitter
  irq,              \* the uart's interrupt is pending
  intr,             \* the handler: where it is, and its character
  pc, left, asked,  \* by process: left is n, asked is target
  work              \* the workload, which never changes

inVars == <<buf, r, w, e>>
uartVars == <<rx, tx, irq>>
procVars == <<pc, left, asked>>
vars == <<sleepVars, lock, inVars, txlock, uartVars, intr, procVars,
          work>>

ConsR == <<"cons.r">>      \* the two channels
TxChan == <<"tx_chan">>
Handling == N + 1         \* the handler as the holder of cons.lock

Erasers == {"^H", "^U"}
Ends(c) == c \in {"nl", "^D"}
Typed(c) == c \notin Erasers
Slot(i) == i % INPUT_BUF_SIZE
Minus(i) == (i + Wrap - 1) % Wrap
Held == (e - r) % Wrap
Idle == tx = 0             \* LSR_TX_IDLE

Init ==
  /\ state = [p \in Procs |-> "RUNNABLE"]
  /\ chan = [p \in Procs |-> NoChan]
  /\ killed = [p \in Procs |-> FALSE]
  /\ scan = [p \in Procs |-> N + 1]
  /\ lock = 0 /\ txlock = 0
  /\ buf = [i \in 0..INPUT_BUF_SIZE - 1 |-> "nl"]
  /\ r = 0 /\ w = 0 /\ e = 0
  /\ rx = <<>> /\ tx = 0 /\ irq = FALSE
  /\ intr = [at |-> "idle", c |-> "none"]
  /\ pc = [p \in Procs |-> "idle"]
  /\ left = [p \in Procs |-> 0] /\ asked = [p \in Procs |-> 0]
  /\ work \in Workloads

Goto(p, from, to) == pc[p] = from /\ pc' = [pc EXCEPT ![p] = to]
Handler(from, to) == intr.at = from /\ intr' = [intr EXCEPT !.at = to]
acquire(x) == lock = 0 /\ lock' = x
release == lock' = 0
Reset(p) == left' = [left EXCEPT ![p] = 0] /\ asked' = [asked EXCEPT ![p] = 0]
Between == [at |-> "next", c |-> "none"]
Return(p) == Goto(p, "read", "idle") /\ Reset(p)

-----------------------------------------------------------------------------
(* consoleread()                                                           *)

Read(p, n) ==
  /\ Goto(p, "idle", "read") /\ acquire(p)
  /\ left' = [left EXCEPT ![p] = n] /\ asked' = [asked EXCEPT ![p] = n]
  /\ UNCHANGED <<sleepVars, inVars, txlock, uartVars, intr>>

ReadKilled(p) ==
  /\ left[p] > 0 /\ r = w /\ killed[p]
  /\ Return(p) /\ release
  /\ UNCHANGED <<sleepVars, inVars, txlock, uartVars, intr>>

ReadWait(p) ==
  /\ Goto(p, "read", "unlock")
  /\ left[p] > 0 /\ r = w /\ ~killed[p]
  /\ sleep_prepare(p, ConsR)
  /\ UNCHANGED <<lock, inVars, txlock, uartVars, intr, left, asked>>

Unlock(p) ==
  /\ Goto(p, "unlock", "sleep") /\ release
  /\ UNCHANGED <<sleepVars, inVars, txlock, uartVars, intr, left, asked>>

Sleep(p) ==
  /\ Goto(p, "sleep", "asleep") /\ sleep(p)
  /\ UNCHANGED <<lock, inVars, txlock, uartVars, intr, left, asked>>

Relock(p) ==
  /\ Goto(p, "asleep", "read") /\ state[p] = "RUNNABLE" /\ acquire(p)
  /\ UNCHANGED <<sleepVars, inVars, txlock, uartVars, intr, left, asked>>

\* The end of a file that is not the first thing read stays for the next read.
ReadEof(p) ==
  /\ left[p] > 0 /\ r # w /\ buf[Slot(r)] = "^D"
  /\ r' = IF left[p] < asked[p] THEN r ELSE (r + 1) % Wrap
  /\ Return(p) /\ release
  /\ UNCHANGED <<sleepVars, buf, w, e, txlock, uartVars, intr>>

\* A newline ends the read, as does a character that cannot be copied out.
ReadChar(p) ==
  /\ left[p] > 0 /\ r # w /\ buf[Slot(r)] # "^D"
  /\ r' = (r + 1) % Wrap
  /\ \/ Return(p) /\ release
     \/ /\ pc[p] = "read" /\ buf[Slot(r)] # "nl"
        /\ left' = [left EXCEPT ![p] = @ - 1]
        /\ UNCHANGED <<pc, lock, asked>>
  /\ UNCHANGED <<sleepVars, buf, w, e, txlock, uartVars, intr>>

ReadDone(p) ==
  /\ left[p] = 0
  /\ Return(p) /\ release
  /\ UNCHANGED <<sleepVars, inVars, txlock, uartVars, intr>>

consoleread(p) == \/ ReadKilled(p) \/ ReadWait(p) \/ Unlock(p) \/ Sleep(p) \/ Relock(p)
                  \/ ReadEof(p) \/ ReadChar(p) \/ ReadDone(p)

-----------------------------------------------------------------------------
(* consolewrite() and uartwrite(): left counts the whole call, asked the   *)
(* batch.  The status is read after sleep_prepare(), so that the interrupt *)
(* cannot be missed in between.                                            *)

Write(p, n) ==
  /\ Goto(p, "idle", "batch")
  /\ left' = [left EXCEPT ![p] = n]
  /\ UNCHANGED <<sleepVars, lock, inVars, txlock, uartVars, intr, asked>>

\* All written, or the next batch cannot be copied in.
WriteDone(p) ==
  /\ Goto(p, "batch", "idle") /\ Reset(p)
  /\ UNCHANGED <<sleepVars, lock, inVars, txlock, uartVars, intr>>

Batch(p) ==
  /\ Goto(p, "batch", "send") /\ left[p] > 0
  /\ txlock = 0 /\ txlock' = p
  /\ asked' = [asked EXCEPT ![p] = IF left[p] > BATCH THEN BATCH ELSE left[p]]
  /\ UNCHANGED <<sleepVars, lock, inVars, uartVars, intr, left>>

Prepare(p) ==
  /\ Goto(p, "send", "status") /\ asked[p] > 0
  /\ sleep_prepare(p, TxChan)
  /\ UNCHANGED <<lock, inVars, txlock, uartVars, intr, left, asked>>

Status(p) ==
  /\ Goto(p, "status", IF Idle THEN "put" ELSE "txsleep")
  /\ UNCHANGED <<sleepVars, lock, inVars, txlock, uartVars, intr, left, asked>>

Put(p) ==
  /\ Goto(p, "put", "send")
  /\ tx' = tx + 1
  /\ left' = [left EXCEPT ![p] = @ - 1] /\ asked' = [asked EXCEPT ![p] = @ - 1]
  /\ UNCHANGED <<sleepVars, lock, inVars, txlock, rx, irq, intr>>

TxSleep(p) ==
  /\ Goto(p, "txsleep", "txasleep") /\ sleep(p)
  /\ UNCHANGED <<lock, inVars, txlock, uartVars, intr, left, asked>>

TxAwake(p) ==
  /\ Goto(p, "txasleep", "send") /\ state[p] = "RUNNABLE"
  /\ UNCHANGED <<sleepVars, lock, inVars, txlock, uartVars, intr, left, asked>>

BatchDone(p) ==
  /\ Goto(p, "send", "batch") /\ asked[p] = 0
  /\ txlock' = 0
  /\ UNCHANGED <<sleepVars, lock, inVars, uartVars, intr, left, asked>>

consolewrite(p) == \/ WriteDone(p) \/ Batch(p) \/ Prepare(p) \/ Status(p)
                   \/ Put(p) \/ TxSleep(p) \/ TxAwake(p) \/ BatchDone(p)

-----------------------------------------------------------------------------
(* uartintr() and consoleintr()                                            *)

Acknowledge ==
  /\ irq /\ irq' = FALSE
  /\ Handler("idle", "status")
  /\ UNCHANGED <<sleepVars, lock, inVars, txlock, rx, tx, procVars>>

\* Only the holder of tx_lock waits on tx_chan.
WakeSender ==
  /\ Handler("status", "next")
  /\ IF Idle THEN wakeupAll(TxChan) ELSE UNCHANGED sleepVars
  /\ UNCHANGED <<lock, inVars, txlock, uartVars, procVars>>

\* A seeded fault: the interrupt is acknowledged when all is done.
NextCharAcknowledged ==
  /\ intr.at = "next"
  /\ IF rx = <<>> THEN intr' = [intr EXCEPT !.at = "idle"] /\ irq' = FALSE /\ UNCHANGED <<rx, lock>>
     ELSE /\ acquire(Handling)
          /\ rx' = Tail(rx)
          /\ intr' = [at |-> "switch", c |-> Head(rx)]
          /\ UNCHANGED irq
  /\ UNCHANGED <<sleepVars, inVars, txlock, tx, procVars>>

NextChar ==
  /\ intr.at = "next"
  /\ IF rx = <<>> THEN intr' = [intr EXCEPT !.at = "idle"] /\ UNCHANGED <<rx, lock>>
     ELSE /\ acquire(Handling)
          /\ rx' = Tail(rx)
          /\ intr' = [at |-> "switch", c |-> Head(rx)]
  /\ UNCHANGED <<sleepVars, inVars, txlock, tx, irq, procVars>>

\* Nothing to do: nothing to erase, or no room.
Ignore ==
  /\ intr.at = "switch" /\ intr' = Between /\ release
  /\ IF Typed(intr.c) THEN Held >= INPUT_BUF_SIZE
     ELSE e = w \/ (intr.c = "^U" /\ buf[Slot(Minus(e))] = "nl")
  /\ UNCHANGED <<sleepVars, inVars, txlock, uartVars, procVars>>

\* A seeded fault: a line that has been handed over is erased.
EraseHanded ==
  /\ Handler("switch", "echo")
  /\ ~Typed(intr.c) /\ Held > 0
  /\ intr.c = "^U" => buf[Slot(Minus(e))] # "nl"
  /\ e' = Minus(e)
  /\ UNCHANGED <<sleepVars, lock, buf, r, w, txlock, uartVars, procVars>>

Erase ==
  /\ Handler("switch", "echo")
  /\ ~Typed(intr.c) /\ e # w
  /\ intr.c = "^U" => buf[Slot(Minus(e))] # "nl"
  /\ e' = Minus(e)
  /\ UNCHANGED <<sleepVars, lock, buf, r, w, txlock, uartVars, procVars>>

Echo ==
  /\ Handler("switch", "echo")
  /\ Typed(intr.c) /\ Held < INPUT_BUF_SIZE
  /\ UNCHANGED <<sleepVars, lock, inVars, txlock, uartVars, procVars>>

\* uartputc_sync() waits for the transmitter, and then writes to it.  The
\* three characters that erase one on the screen count as one.
EchoStatus ==
  /\ Handler("echo", "put") /\ Idle
  /\ UNCHANGED <<sleepVars, lock, inVars, txlock, uartVars, procVars>>

EchoPut ==
  /\ Handler("put", CASE intr.c = "^H" -> "done"
                      [] intr.c = "^U" -> "switch"
                      [] OTHER -> "store")
  /\ tx' = tx + 1
  /\ UNCHANGED <<sleepVars, lock, inVars, txlock, rx, irq, procVars>>

\* The line is handed to the readers when it ends or fills the buffer.
Store ==
  LET e1 == (e + 1) % Wrap
      whole == Ends(intr.c) \/ (e1 - r) % Wrap = INPUT_BUF_SIZE
  IN /\ Handler("store", "done")
     /\ buf' = [buf EXCEPT ![Slot(e)] = intr.c]
     /\ e' = e1
     /\ IF whole THEN w' = e1 /\ wakeupAll(ConsR) ELSE UNCHANGED <<w, sleepVars>>
     /\ UNCHANGED <<lock, r, txlock, uartVars, procVars>>

CharDone ==
  /\ intr.at = "done" /\ intr' = Between /\ release
  /\ UNCHANGED <<sleepVars, inVars, txlock, uartVars, procVars>>

consoleintr == Ignore \/ Erase \/ Echo \/ EchoStatus \/ EchoPut \/ Store \/ CharDone
uartintr == Acknowledge \/ WakeSender \/ NextChar \/ consoleintr

-----------------------------------------------------------------------------
(* The uart and its user.                                                  *)

Type ==
  /\ Len(rx) < MaxTyped
  /\ \E c \in work.keys : rx' = Append(rx, c)
  /\ irq' = TRUE
  /\ UNCHANGED <<sleepVars, lock, inVars, txlock, tx, intr, procVars>>

Transmit ==
  /\ tx > 0 /\ tx' = tx - 1
  /\ irq' = (irq \/ tx = 1)
  /\ UNCHANGED <<sleepVars, lock, inVars, txlock, rx, intr, procVars>>

Kill(p) ==
  /\ p \in work.killable /\ kkill(p)
  /\ UNCHANGED <<lock, inVars, txlock, uartVars, intr, procVars>>

Device == Type \/ Transmit

Begin(p) ==
  \E n \in 0..MaxLen :
    \/ p \in work.readers /\ Read(p, n)
    \/ p \in work.writers /\ Write(p, n)

Call(p) == Begin(p) \/ consoleread(p) \/ consolewrite(p)

Steps == (\E p \in Procs : Call(p) \/ Kill(p)) \/ uartintr \/ Device

Next == Steps /\ UNCHANGED work

Spec == Init /\ [][Next]_vars

-----------------------------------------------------------------------------
(* Properties                                                              *)

\* Every variable holds a value of its type; the transmitter, a queue of 16,
\* is never given more than one character by each side that found it idle.
TypeOK ==
  /\ state \in [Procs -> {"RUNNABLE", "SLEEPING"}]
  /\ chan \in [Procs -> {NoChan, ConsR, TxChan}]
  /\ {r, w, e} \subseteq 0..Wrap - 1
  /\ (w - r) % Wrap <= Held /\ Held <= INPUT_BUF_SIZE
  /\ tx \in 0..2
  /\ left \in [Procs -> 0..MaxLen] /\ asked \in [Procs -> 0..MaxLen]

\* No reader sleeps while there is a line to read: whoever put it there, or
\* put back an end of file, the wakeup has come (consoleread(), consoleintr()).
ReaderAwake ==
  \A p \in Procs : state[p] = "SLEEPING" /\ pc[p] = "asleep" => r = w

\* A sender that sleeps will be woken: there are characters on their way out,
\* or the interrupt that says they are gone is still to be looked at.  Echoed
\* characters in between do not hide it (uartwrite(), uartintr()).
WriterAwake ==
  \A p \in Procs : state[p] = "SLEEPING" /\ pc[p] = "txasleep" =>
    tx > 0 \/ irq \/ intr.at = "status"

Window(from, to) ==
  [i \in 1..(to - from) % Wrap |-> buf[Slot(from + i - 1)]]

Line == INSTANCE Tty WITH
  Chars <- {c \in Keys : Typed(c)}, Enders <- {"nl", "^D"},
  Size <- INPUT_BUF_SIZE, line <- Window(w, e), ready <- Window(r, w)

\* The ring of three indices is a line-edited terminal: what may be read can
\* no longer be erased, what is erased is never read, nothing is overwritten
\* before it is read, and nothing is read twice, across the wrap of the indices.
IsTty == Line!Spec
=============================================================================

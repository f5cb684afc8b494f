------------------------------ MODULE Console -------------------------------
(***************************************************************************)
(* The console (kernel/console.c) on its UART (kernel/uart.c): processes   *)
(* that read lines and write bytes, the UART's interrupt handler with the  *)
(* line discipline, kernel messages, and the device.                       *)
(*                                                                         *)
(* Abstractions.  Bytes that go out are counted, not told apart.  tx_lock  *)
(* is held for one step at a time; cons.lock is a variable, because the    *)
(* handler keeps it while it echoes.  A control character that only prints *)
(* (^P) and one that is dropped (NUL) are the same "other".  Kernel        *)
(* messages are the bytes of printf(), under its own lock, one at a time.  *)
(***************************************************************************)
EXTENDS Integers, Sequences, FiniteSets

CONSTANTS
  Reader, Writer, NoReader,
  INPUT_BUF_SIZE,
  CUINT,       \* r, w and e are uints: they count modulo CUINT
  ReadSizes, WriteSizes,   \* the numbers of bytes asked for
  FIFO         \* bytes the UART takes before it loses one

ASSUME ConsoleAssumption ==
  /\ INPUT_BUF_SIZE \in Nat \ {0} /\ CUINT \in Nat /\ CUINT % INPUT_BUF_SIZE = 0
  /\ CUINT > INPUT_BUF_SIZE /\ FIFO \in Nat /\ ReadSizes \union WriteSizes \subseteq Nat \ {0}
  /\ NoReader \notin Reader \union {"intr"} /\ "intr" \notin Reader

Ordinary == {"x"}
Ends     == {"nl", "eof"}
Typed    == Ordinary \union {"cr", "eof", "kill", "erase", "other"}
Slot     == 0 .. INPUT_BUF_SIZE - 1

VARIABLES
  cons,      \* the fields r, w, e and buf of the console
  conslock,  \* a reader, "intr" or NoReader
  rd,        \* where each reader is in consoleread(), and what it has to do and has done
  rkilled,   \* readers that were killed
  left, wsleep,  \* bytes each writer has to write; the writers in sleep()
  tx_busy,
  uart,      \* where uartintr() is, with its character and the bytes to echo
  printing,  \* printf() has seen the transmitter idle and not written its byte
  fifo, txint, rx  \* the device: bytes to send, transmit interrupt, a byte received

consoleVars == <<cons, conslock, rd, rkilled, left, wsleep, tx_busy, uart, printing, fifo, txint, rx>>

Idle == [at |-> "idle", n |-> 0, target |-> 0]
Rest == [at |-> "idle", c |-> "other", echo |-> 0, seen |-> FALSE]

ConsoleInit ==
  /\ cons = [r |-> 0, w |-> 0, e |-> 0, buf |-> [i \in Slot |-> "x"]]
  /\ conslock = NoReader
  /\ rd = [p \in Reader |-> Idle] /\ rkilled = {}
  /\ left = [p \in Writer |-> 0] /\ wsleep = {}
  /\ tx_busy = FALSE /\ uart = Rest /\ printing = FALSE
  /\ fifo = 0 /\ txint = TRUE /\ rx = FALSE

Plus(i, d)   == (i + d) % CUINT
Dist(i, j)   == (j - i) % CUINT           \* unsigned j - i
BufAt(i)     == cons.buf[i % INPUT_BUF_SIZE]

-----------------------------------------------------------------------------
(* consoleread() *)

StartRead(p) ==
  /\ rd[p].at = "idle" /\ conslock = NoReader
  /\ \E k \in ReadSizes : rd' = [rd EXCEPT ![p] = [at |-> "get", n |-> k, target |-> k]]
  /\ conslock' = p
  /\ UNCHANGED <<cons, rkilled, left, wsleep, tx_busy, uart, printing, fifo, txint, rx>>

\* Nothing to read: a killed process returns; another one is about to sleep.
FindsNothing(p) ==
  /\ rd[p].at = "get" /\ cons.r = cons.w
  /\ IF p \in rkilled
     THEN /\ rd' = [rd EXCEPT ![p] = Idle]
          /\ conslock' = NoReader /\ rkilled' = rkilled \ {p}
     ELSE rd' = [rd EXCEPT ![p].at = "sleep"] /\ UNCHANGED <<conslock, rkilled>>
  /\ UNCHANGED <<cons, left, wsleep, tx_busy, uart, printing, fifo, txint, rx>>

SleepRead(p) ==
  /\ rd[p].at = "sleep"
  /\ rd' = [rd EXCEPT ![p].at = "asleep"] /\ conslock' = NoReader
  /\ UNCHANGED <<cons, rkilled, left, wsleep, tx_busy, uart, printing, fifo, txint, rx>>

WokenRead(p) ==
  /\ rd[p].at = "woken" /\ conslock = NoReader
  /\ rd' = [rd EXCEPT ![p].at = "get"] /\ conslock' = p
  /\ UNCHANGED <<cons, rkilled, left, wsleep, tx_busy, uart, printing, fifo, txint, rx>>

\* An end-of-file that is not the first character stays for the next read; copyout()
\* may fail; a newline and the last byte asked for end the call.
TakeByte(p) ==
  LET c     == BufAt(cons.r)
      saved == c = "eof" /\ rd[p].n < rd[p].target
      last  == c \in Ends \/ rd[p].n = 1 IN
  /\ rd[p].at = "get" /\ cons.r # cons.w
  /\ cons' = [cons EXCEPT !.r = IF saved THEN @ ELSE Plus(@, 1)]
  /\ \E done \in (IF c = "eof" THEN {TRUE} ELSE {TRUE, last}) :
       IF done
       THEN rd' = [rd EXCEPT ![p] = Idle] /\ conslock' = NoReader
       ELSE rd' = [rd EXCEPT ![p].n = @ - 1] /\ UNCHANGED conslock
  /\ UNCHANGED <<rkilled, left, wsleep, tx_busy, uart, printing, fifo, txint, rx>>

KillReader(p) ==
  /\ rd[p].at # "idle" /\ p \notin rkilled
  /\ rkilled' = rkilled \union {p}
  /\ rd' = [rd EXCEPT ![p].at = IF @ = "asleep" THEN "woken" ELSE @]
  /\ UNCHANGED <<cons, conslock, left, wsleep, tx_busy, uart, printing, fifo, txint, rx>>

-----------------------------------------------------------------------------
(* consolewrite() and uartwrite(), and the bytes of printf() *)

WriteTHR == fifo' = fifo + 1 /\ txint' = FALSE

StartWrite(p) ==
  /\ left[p] = 0
  /\ \E k \in WriteSizes : left' = [left EXCEPT ![p] = k]
  /\ UNCHANGED <<cons, conslock, rd, rkilled, wsleep, tx_busy, uart, printing, fifo, txint, rx>>

NeverBusy     == FALSE
BusyAfterByte == TRUE

\* The writer sends a byte, and sleeps in the next round unless it was the last.
SendByte(p) ==
  /\ left[p] > 0 /\ p \notin wsleep /\ ~tx_busy
  /\ WriteTHR
  /\ tx_busy' = BusyAfterByte
  /\ left' = [left EXCEPT ![p] = @ - 1]
  /\ wsleep' = IF left[p] > 1 /\ BusyAfterByte THEN wsleep \union {p} ELSE wsleep
  /\ UNCHANGED <<cons, conslock, rd, rkilled, uart, printing, rx>>

FindsBusy(p) ==
  /\ left[p] > 0 /\ p \notin wsleep /\ tx_busy
  /\ wsleep' = wsleep \union {p}
  /\ UNCHANGED <<cons, conslock, rd, rkilled, left, tx_busy, uart, printing, fifo, txint, rx>>

\* kill() wakes a writer, but uartwrite() does not look at killed.
KillWriter(p) ==
  /\ p \in wsleep /\ wsleep' = wsleep \ {p}
  /\ UNCHANGED <<cons, conslock, rd, rkilled, left, tx_busy, uart, printing, fifo, txint, rx>>

\* uartputc_sync() in printf(): wait for an idle transmitter, then write.
PrintWaits ==
  /\ ~printing /\ fifo = 0
  /\ printing' = TRUE
  /\ UNCHANGED <<cons, conslock, rd, rkilled, left, wsleep, tx_busy, uart, fifo, txint, rx>>
Prints ==
  /\ printing /\ printing' = FALSE
  /\ WriteTHR
  /\ UNCHANGED <<cons, conslock, rd, rkilled, left, wsleep, tx_busy, uart, rx>>

-----------------------------------------------------------------------------
(* uartintr() and consoleintr() *)

UartIntr ==
  /\ uart.at = "idle" /\ (txint \/ rx)
  /\ uart' = [uart EXCEPT !.at = "tx"] /\ txint' = FALSE
  /\ UNCHANGED <<cons, conslock, rd, rkilled, left, wsleep, tx_busy, printing, fifo, rx>>

Transmitted ==
  /\ uart.at = "tx"
  /\ uart' = [uart EXCEPT !.at = "rx"]
  /\ IF fifo = 0 THEN tx_busy' = FALSE /\ wsleep' = {} ELSE UNCHANGED <<tx_busy, wsleep>>
  /\ UNCHANGED <<cons, conslock, rd, rkilled, left, printing, fifo, txint, rx>>

FullLate == Dist(cons.r, cons.e) > INPUT_BUF_SIZE
Full     == Dist(cons.r, cons.e) >= INPUT_BUF_SIZE

\* What consoleintr(c) sends back: three bytes for each erased character.
Echo(c) == CASE c = "kill" -> 3 * Dist(cons.w, cons.e)
             [] c = "erase" /\ cons.e # cons.w -> 3
             [] c \in Ordinary \union {"cr", "eof"} /\ ~Full -> 1
             [] OTHER -> 0

Received(c) ==
  /\ uart.at = "rx" /\ rx /\ conslock = NoReader
  /\ rx' = FALSE /\ conslock' = "intr"
  /\ uart' = [at |-> "echo", c |-> c, echo |-> Echo(c), seen |-> FALSE]
  /\ UNCHANGED <<cons, rd, rkilled, left, wsleep, tx_busy, printing, fifo, txint>>

EchoWaits ==
  /\ uart.at = "echo" /\ uart.echo > 0 /\ ~uart.seen /\ fifo = 0
  /\ uart' = [uart EXCEPT !.seen = TRUE]
  /\ UNCHANGED <<cons, conslock, rd, rkilled, left, wsleep, tx_busy, printing, fifo, txint, rx>>
Echoes ==
  /\ uart.at = "echo" /\ uart.seen
  /\ uart' = [uart EXCEPT !.seen = FALSE, !.echo = @ - 1]
  /\ WriteTHR
  /\ UNCHANGED <<cons, conslock, rd, rkilled, left, wsleep, tx_busy, printing, rx>>

WakeNoReader(awake) == rd
WakeReaders(awake)  == [p \in Reader |->
  IF rd[p].at = "asleep" THEN [rd[p] EXCEPT !.at = awake] ELSE rd[p]]

\* A stored character finishes the line at a newline, an end-of-file or the limit.
Store(c) ==
  LET stored == [cons EXCEPT !.buf[cons.e % INPUT_BUF_SIZE] = c, !.e = Plus(@, 1)] IN
  IF Full THEN UNCHANGED <<cons, rd>>
  ELSE IF c \in Ends \/ Dist(cons.r, stored.e) = INPUT_BUF_SIZE
       THEN cons' = [stored EXCEPT !.w = stored.e] /\ rd' = WakeReaders("woken")
       ELSE cons' = stored /\ UNCHANGED rd

\* consoleintr() after its echo.  The line holds no newline, so ^U erases all of it.
ConsoleIntr ==
  /\ uart.at = "echo" /\ uart.echo = 0
  /\ CASE uart.c = "kill"  -> cons' = [cons EXCEPT !.e = cons.w] /\ UNCHANGED rd
       [] uart.c = "erase" -> /\ cons' = [cons EXCEPT !.e = IF @ = cons.w THEN @ ELSE Plus(@, CUINT - 1)]
                              /\ UNCHANGED rd
       [] uart.c = "other" -> UNCHANGED <<cons, rd>>
       [] uart.c = "cr"    -> Store("nl")
       [] OTHER            -> Store(uart.c)
  /\ conslock' = NoReader
  /\ uart' = [Rest EXCEPT !.at = "rx"]
  /\ UNCHANGED <<rkilled, left, wsleep, tx_busy, printing, fifo, txint, rx>>

IntrEnds ==
  /\ uart.at = "rx" /\ ~rx /\ uart' = Rest
  /\ UNCHANGED <<cons, conslock, rd, rkilled, left, wsleep, tx_busy, printing, fifo, txint, rx>>

-----------------------------------------------------------------------------
(* The device.  Bound: it holds one received byte, which is known when it is read. *)

Transmit ==
  /\ fifo > 0 /\ fifo' = fifo - 1
  /\ txint' = (txint \/ fifo = 1)
  /\ UNCHANGED <<cons, conslock, rd, rkilled, left, wsleep, tx_busy, uart, printing, rx>>

Type ==
  /\ ~rx /\ rx' = TRUE
  /\ UNCHANGED <<cons, conslock, rd, rkilled, left, wsleep, tx_busy, uart, printing, fifo, txint>>

-----------------------------------------------------------------------------
Reads(p)  == \/ StartRead(p) \/ FindsNothing(p) \/ SleepRead(p) \/ WokenRead(p) \/ TakeByte(p)
             \/ KillReader(p)
Writes(p) == StartWrite(p) \/ SendByte(p) \/ FindsBusy(p) \/ KillWriter(p)
UartHandler == \/ UartIntr \/ Transmitted \/ (\E c \in Typed : Received(c))
               \/ EchoWaits \/ Echoes \/ ConsoleIntr \/ IntrEnds

ConsoleNext ==
  \/ \E p \in Reader : Reads(p)
  \/ \E p \in Writer : Writes(p)
  \/ PrintWaits \/ Prints \/ UartHandler \/ Transmit \/ Type

ConsoleSpec == ConsoleInit /\ [][ConsoleNext]_consoleVars

-----------------------------------------------------------------------------
\* No reader sleeps beside finished input, and no writer without a transmit interrupt
\* to come: echoed characters and kernel messages may use the transmitter between a
\* writer's byte and its interrupt (console.c: consoleread, consoleintr; uart.c:
\* uartwrite, uartputc_sync, uartintr).
ConsoleSleepersHaveAWaker ==
  /\ \A p \in Reader : rd[p].at = "asleep" => cons.r = cons.w
  /\ wsleep # {} => tx_busy /\ (fifo > 0 \/ txint \/ uart.at = "tx")

\* The handler's echo, a kernel message and a writer may each send a byte believing
\* the transmitter idle, but together no more than the UART keeps (uart.c: uartwrite,
\* uartputc_sync).
NoByteOverwritten == fifo <= FIFO

\* The characters between two indices.
Chars(i, j) == [k \in 1 .. Dist(i, j) |-> BufAt(Plus(i, k - 1))]

Queue == INSTANCE LineQueue WITH
  SIZE <- INPUT_BUF_SIZE, finished <- Chars(cons.r, cons.w), typing <- Chars(cons.w, cons.e)

\* The buffer with its three indices, which wrap, is a line being typed and a queue of
\* finished input: full, empty, erased or with an end-of-file put back, no character is
\* overwritten, lost or read twice, and editing never reaches finished input
\* (console.c: consoleread, consoleintr).
ImplementsLineQueue == Queue!LineSpec
=============================================================================

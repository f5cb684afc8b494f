--------------------------- MODULE ConsoleProofs ----------------------------
(***************************************************************************)
(* The console's readers and writers wake up, the transmitter is never     *)
(* given a byte too many, and the buffer is a line being typed and a queue *)
(* of finished input, for any number of readers and writers, any size of   *)
(* the input buffer and any reads and writes.                              *)
(***************************************************************************)
EXTENDS Console, SequenceTheorems, TLAPS

Count == 0 .. CUINT - 1

InputTypes ==
  /\ cons \in [r : Count, w : Count, e : Count, buf : [Slot -> Ordinary \union Ends]]
  /\ conslock \in Reader \union {"intr", NoReader}
  /\ rd \in [Reader -> [at : {"idle", "get", "sleep", "asleep", "woken"}, n : Int, target : Int]]

OutputTypes ==
  /\ left \in [Writer -> Int] /\ wsleep \subseteq Writer /\ fifo \in Nat
  /\ uart \in [at : {"idle", "tx", "rx", "echo"}, c : Typed, echo : Int, seen : BOOLEAN]

Flags == tx_busy \in BOOLEAN /\ printing \in BOOLEAN /\ txint \in BOOLEAN /\ rx \in BOOLEAN

ConsoleTypes == InputTypes /\ OutputTypes /\ Flags

\* Those that may still send a byte without another look at the transmitter.
MayStillSend == (IF printing THEN 1 ELSE 0) + (IF uart.seen THEN 1 ELSE 0)
                + (IF tx_busy THEN 0 ELSE 1)

Transmitter ==
  /\ fifo + MayStillSend <= 3
  /\ wsleep # {} => tx_busy
  /\ tx_busy => fifo > 0 \/ txint \/ uart.at = "tx"

Input ==
  /\ uart.at = "echo" => conslock = "intr"
  /\ \A p \in Reader :
       /\ (rd[p].at \in {"get", "sleep"}) = (conslock = p)
       /\ rd[p].at \in {"sleep", "asleep"} => cons.r = cons.w

ConsoleInv == ConsoleTypes /\ Transmitter /\ Input

-----------------------------------------------------------------------------
\* Index arithmetic stays in range.
LEMMA Counts ==
  /\ \A i \in Count, d \in Int : Plus(i, d) \in Count
  /\ \A i, j \in Count : Dist(i, j) \in Count
  /\ \A i \in Count : i % INPUT_BUF_SIZE \in Slot
  /\ CUINT - 1 \in Int /\ 0 \in Count /\ 1 \in Int
<1>1. CUINT \in Nat \ {0} /\ INPUT_BUF_SIZE \in Nat \ {0}
  BY ConsoleAssumption
<1>2. \A a \in Int : a % CUINT \in Count
  BY <1>1 DEF Count
<1>3. \A a \in Int : a % INPUT_BUF_SIZE \in Slot
  BY <1>1 DEF Slot
<1>4. Count \subseteq Int
  BY <1>1 DEF Count
<1>5. 0 \in Count
  BY <1>1 DEF Count
<1>6. ASSUME NEW i \in Count, NEW d \in Int PROVE Plus(i, d) \in Count
  <2>1. i + d \in Int
    BY <1>4
  <2> QED BY <2>1, <1>2 DEF Plus
<1>7. ASSUME NEW i \in Count, NEW j \in Count PROVE Dist(i, j) \in Count
  <2>1. j - i \in Int
    BY <1>4
  <2> QED BY <2>1, <1>2 DEF Dist
<1>8. CUINT - 1 \in Int /\ 1 \in Int
  BY <1>1
<1> QED BY <1>3, <1>4, <1>5, <1>6, <1>7, <1>8

\* consoleinit() leaves an empty buffer and a silent transmitter.
LEMMA InitConsole == ConsoleInit => ConsoleInv
<1> SUFFICES ASSUME ConsoleInit PROVE ConsoleInv
  OBVIOUS
<1>1. ConsoleTypes
  <2>1. cons \in [r : Count, w : Count, e : Count, buf : [Slot -> Ordinary \union Ends]]
    BY Counts DEF ConsoleInit, Ordinary
  <2>2. rd \in [Reader -> [at : {"idle", "get", "sleep", "asleep", "woken"},
                          n : Int, target : Int]]
    BY DEF ConsoleInit, Idle
  <2>3. uart \in [at : {"idle", "tx", "rx", "echo"}, c : Typed, echo : Int, seen : BOOLEAN]
    BY DEF ConsoleInit, Rest, Typed
  <2>4. left \in [Writer -> Int] /\ wsleep \subseteq Writer /\ fifo \in Nat
        /\ conslock \in Reader \union {"intr", NoReader}
    BY DEF ConsoleInit
  <2>5. tx_busy \in BOOLEAN /\ printing \in BOOLEAN /\ txint \in BOOLEAN /\ rx \in BOOLEAN
    BY Zenon DEF ConsoleInit
  <2> QED BY <2>1, <2>2, <2>3, <2>4, <2>5, Zenon DEF ConsoleTypes, InputTypes, OutputTypes, Flags
<1>2. Transmitter
  BY DEF ConsoleInit, Transmitter, MayStillSend, Rest
<1>3. Input
  BY ConsoleAssumption DEF ConsoleInit, Input, Idle, Rest
<1> QED BY <1>1, <1>2, <1>3 DEF ConsoleInv

-----------------------------------------------------------------------------
\* What a stored character leaves of the console and its readers.
LEMMA StoreTypes ==
  ASSUME InputTypes, NEW c \in Ordinary \union Ends, Store(c)
  PROVE  /\ cons' \in [r : Count, w : Count, e : Count, buf : [Slot -> Ordinary \union Ends]]
         /\ cons'.r = cons.r
         /\ \/ cons'.w = cons.w /\ rd' = rd
            \/ rd' = [p \in Reader |-> IF rd[p].at = "asleep"
                                       THEN [rd[p] EXCEPT !.at = "woken"] ELSE rd[p]]
<1> DEFINE stored == [cons EXCEPT !.buf[cons.e % INPUT_BUF_SIZE] = c, !.e = Plus(@, 1)]
<1>1. cons.e \in Count /\ cons.w \in Count /\ cons.r \in Count
      /\ cons.buf \in [Slot -> Ordinary \union Ends]
  BY DEF InputTypes
<1>2. Plus(cons.e, 1) \in Count
  BY <1>1, Counts
<1>3. /\ stored \in [r : Count, w : Count, e : Count, buf : [Slot -> Ordinary \union Ends]]
      /\ stored.r = cons.r /\ stored.w = cons.w /\ stored.e = Plus(cons.e, 1)
  BY <1>1, <1>2 DEF InputTypes
<1>4. \/ UNCHANGED <<cons, rd>>
      \/ cons' = [stored EXCEPT !.w = stored.e] /\ rd' = WakeReaders("woken")
      \/ cons' = stored /\ UNCHANGED rd
  BY DEF Store
<1>5. CASE UNCHANGED <<cons, rd>>
  BY <1>5 DEF InputTypes
<1>6. CASE cons' = [stored EXCEPT !.w = stored.e] /\ rd' = WakeReaders("woken")
  BY <1>2, <1>3, <1>6 DEF WakeReaders
<1>7. CASE cons' = stored /\ UNCHANGED rd
  BY <1>3, <1>7
<1> QED BY <1>4, <1>5, <1>6, <1>7
-----------------------------------------------------------------------------
\* The console and its readers after a received character.
LEMMA ReceivedInput ==
  ASSUME InputTypes, ConsoleIntr, uart.c \in Typed
  PROVE  /\ cons' \in [r : Count, w : Count, e : Count, buf : [Slot -> Ordinary \union Ends]]
         /\ cons'.r = cons.r
         /\ \/ cons'.w = cons.w /\ rd' = rd
            \/ rd' = [p \in Reader |-> IF rd[p].at = "asleep"
                                       THEN [rd[p] EXCEPT !.at = "woken"] ELSE rd[p]]
<1>1. cons.e \in Count /\ cons.w \in Count /\ cons.r \in Count
  BY DEF InputTypes
<1>2. Plus(cons.e, CUINT - 1) \in Count
  BY <1>1, Counts
<1>3. CASE uart.c = "kill"
  BY <1>1, <1>3 DEF ConsoleIntr, InputTypes
<1>4. CASE uart.c = "erase"
  <2>1. cons' = [cons EXCEPT !.e = IF @ = cons.w THEN @ ELSE Plus(@, CUINT - 1)] /\ rd' = rd
    BY <1>4 DEF ConsoleIntr
  <2> QED BY <1>1, <1>2, <2>1 DEF InputTypes
<1>5. CASE uart.c = "other"
  BY <1>5 DEF ConsoleIntr, InputTypes
<1>6. CASE uart.c = "cr"
  <2>1. Store("nl") /\ "nl" \in Ordinary \union Ends
    BY <1>6 DEF ConsoleIntr, Ends
  <2> QED BY <2>1, StoreTypes
<1>7. CASE uart.c \in {"x", "eof"}
  <2>1. Store(uart.c) /\ uart.c \in Ordinary \union Ends
    BY <1>7 DEF ConsoleIntr, Ordinary, Ends
  <2> QED BY <2>1, StoreTypes
<1> QED BY <1>3, <1>4, <1>5, <1>6, <1>7 DEF Typed, Ordinary

\* The number of bytes an echo sends is a number (console.c: consputc).
LEMMA EchoCounts ==
  ASSUME InputTypes, NEW c \in Typed
  PROVE  Echo(c) \in Int
<1>1. Dist(cons.w, cons.e) \in Int
  <2>1. Dist(cons.w, cons.e) \in Count
    BY Counts DEF InputTypes
  <2> QED BY <2>1, ConsoleAssumption DEF Count
<1>2. 3 * Dist(cons.w, cons.e) \in Int
  BY <1>1
<1> QED BY <1>2 DEF Echo

-----------------------------------------------------------------------------
\* Each byte sent uses up one chance to send; only an empty transmitter gives a new one.
LEMMA TransmitterStep ==
  ASSUME ConsoleInv, [ConsoleNext]_consoleVars
  PROVE  Transmitter'
<1> USE DEF ConsoleInv, ConsoleTypes, OutputTypes, Flags, Transmitter, MayStillSend, WriteTHR,
        BusyAfterByte, Rest
<1>1. CASE UNCHANGED consoleVars
  BY <1>1 DEF consoleVars
<1>2. ASSUME NEW p \in Reader, StartRead(p) PROVE Transmitter'
  BY <1>2 DEF StartRead
<1>3. ASSUME NEW p \in Reader, FindsNothing(p) PROVE Transmitter'
  BY <1>3 DEF FindsNothing
<1>4. ASSUME NEW p \in Reader, SleepRead(p) PROVE Transmitter'
  BY <1>4 DEF SleepRead
<1>5. ASSUME NEW p \in Reader, WokenRead(p) PROVE Transmitter'
  BY <1>5 DEF WokenRead
<1>6. ASSUME NEW p \in Reader, TakeByte(p) PROVE Transmitter'
  BY <1>6 DEF TakeByte
<1>7. ASSUME NEW p \in Reader, KillReader(p) PROVE Transmitter'
  BY <1>7 DEF KillReader
<1>8. ASSUME NEW p \in Writer, StartWrite(p) PROVE Transmitter'
  BY <1>8 DEF StartWrite
<1>9. ASSUME NEW p \in Writer, SendByte(p) PROVE Transmitter'
  BY <1>9 DEF SendByte
<1>10. ASSUME NEW p \in Writer, FindsBusy(p) PROVE Transmitter'
  BY <1>10 DEF FindsBusy
<1>11. ASSUME NEW p \in Writer, KillWriter(p) PROVE Transmitter'
  BY <1>11 DEF KillWriter
<1>12. CASE PrintWaits
  BY <1>12 DEF PrintWaits
<1>13. CASE Prints
  BY <1>13 DEF Prints
<1>14. CASE UartIntr
  BY <1>14 DEF UartIntr
<1>15. CASE Transmitted
  BY <1>15 DEF Transmitted
<1>16. ASSUME NEW c \in Typed, Received(c) PROVE Transmitter'
  BY <1>16 DEF Received
<1>17. CASE EchoWaits
  BY <1>17 DEF EchoWaits
<1>18. CASE Echoes
  BY <1>18 DEF Echoes
<1>19. CASE ConsoleIntr
  BY <1>19 DEF ConsoleIntr
<1>20. CASE IntrEnds
  BY <1>20 DEF IntrEnds
<1>21. CASE Transmit
  BY <1>21 DEF Transmit
<1>22. CASE Type
  BY <1>22 DEF Type
<1> QED
  BY <1>1, <1>2, <1>3, <1>4, <1>5, <1>6, <1>7, <1>8, <1>9, <1>10, <1>11, <1>12, <1>13,
     <1>14, <1>15, <1>16, <1>17, <1>18, <1>19, <1>20, <1>21, <1>22
     DEF ConsoleNext, Reads, Writes, UartHandler

\* Only the owner of cons.lock looks at the indices, and only the handler moves w.
LEMMA InputStep ==
  ASSUME ConsoleInv, [ConsoleNext]_consoleVars
  PROVE  Input'
<1> USE ConsoleAssumption DEF ConsoleInv, ConsoleTypes, InputTypes, Input, Idle, Rest
<1>1. CASE UNCHANGED consoleVars
  BY <1>1 DEF consoleVars
<1>2. ASSUME NEW p \in Reader, StartRead(p) PROVE Input'
  BY <1>2 DEF StartRead
<1>3. ASSUME NEW p \in Reader, FindsNothing(p) PROVE Input'
  BY <1>3 DEF FindsNothing
<1>4. ASSUME NEW p \in Reader, SleepRead(p) PROVE Input'
  BY <1>4 DEF SleepRead
<1>5. ASSUME NEW p \in Reader, WokenRead(p) PROVE Input'
  BY <1>5 DEF WokenRead
<1>6. ASSUME NEW p \in Reader, TakeByte(p) PROVE Input'
  BY <1>6 DEF TakeByte
<1>7. ASSUME NEW p \in Reader, KillReader(p) PROVE Input'
  BY <1>7 DEF KillReader
<1>8. ASSUME NEW p \in Writer, StartWrite(p) PROVE Input'
  BY <1>8 DEF StartWrite
<1>9. ASSUME NEW p \in Writer, SendByte(p) PROVE Input'
  BY <1>9 DEF SendByte
<1>10. ASSUME NEW p \in Writer, FindsBusy(p) PROVE Input'
  BY <1>10 DEF FindsBusy
<1>11. ASSUME NEW p \in Writer, KillWriter(p) PROVE Input'
  BY <1>11 DEF KillWriter
<1>12. CASE PrintWaits
  BY <1>12 DEF PrintWaits
<1>13. CASE Prints
  BY <1>13 DEF Prints
<1>14. CASE UartIntr
  BY <1>14 DEF UartIntr
<1>15. CASE Transmitted
  BY <1>15 DEF Transmitted
<1>16. ASSUME NEW c \in Typed, Received(c) PROVE Input'
  BY <1>16 DEF Received, OutputTypes
<1>17. CASE EchoWaits
  BY <1>17 DEF EchoWaits
<1>18. CASE Echoes
  BY <1>18 DEF Echoes
<1>19. CASE ConsoleIntr
  <2>1. uart.c \in Typed
    BY DEF ConsoleTypes, OutputTypes
  <2>2. /\ cons'.r = cons.r
        /\ \/ cons'.w = cons.w /\ rd' = rd
           \/ rd' = [p \in Reader |-> IF rd[p].at = "asleep"
                                      THEN [rd[p] EXCEPT !.at = "woken"] ELSE rd[p]]
    BY <2>1, <1>19, ReceivedInput
  <2>3. conslock = "intr" /\ conslock' = NoReader /\ uart'.at = "rx"
    BY <1>19 DEF ConsoleIntr
  <2>4. ASSUME NEW p \in Reader
        PROVE  /\ rd'[p].at \notin {"get", "sleep"}
               /\ rd'[p].at = "asleep" => cons'.r = cons'.w
    BY <2>2, <2>3
  <2> QED BY <2>3, <2>4
<1>20. CASE IntrEnds
  BY <1>20 DEF IntrEnds
<1>21. CASE Transmit
  BY <1>21 DEF Transmit
<1>22. CASE Type
  BY <1>22 DEF Type
<1> QED
  BY <1>1, <1>2, <1>3, <1>4, <1>5, <1>6, <1>7, <1>8, <1>9, <1>10, <1>11, <1>12, <1>13,
     <1>14, <1>15, <1>16, <1>17, <1>18, <1>19, <1>20, <1>21, <1>22
     DEF ConsoleNext, Reads, Writes, UartHandler

\* The indices and the buffer stay in range, whatever is typed, erased and read.
LEMMA InputTypesStep ==
  ASSUME ConsoleInv, [ConsoleNext]_consoleVars
  PROVE  InputTypes'
<1> USE DEF ConsoleInv, ConsoleTypes, InputTypes, Idle
<1>1. CASE UNCHANGED consoleVars
  BY <1>1 DEF consoleVars
<1>2. ASSUME NEW p \in Reader, StartRead(p) PROVE InputTypes'
  BY <1>2, ConsoleAssumption DEF StartRead
<1>3. ASSUME NEW p \in Reader, FindsNothing(p) PROVE InputTypes'
  <2>1. CASE p \in rkilled
    BY <1>3, <2>1 DEF FindsNothing
  <2>2. CASE p \notin rkilled
    <3>1. /\ rd' = [rd EXCEPT ![p].at = "sleep"]
          /\ UNCHANGED <<cons, conslock>>
      BY <1>3, <2>2 DEF FindsNothing
    <3> QED
      BY <3>1
  <2> QED BY <2>1, <2>2
<1>4. ASSUME NEW p \in Reader, SleepRead(p) PROVE InputTypes'
  BY <1>4 DEF SleepRead
<1>5. ASSUME NEW p \in Reader, WokenRead(p) PROVE InputTypes'
  BY <1>5 DEF WokenRead
<1>6. ASSUME NEW p \in Reader, TakeByte(p) PROVE InputTypes'
  <2>1. cons.r \in Count /\ Plus(cons.r, 1) \in Count
    BY Counts
  <2>2. \/ cons' = [cons EXCEPT !.r = cons.r]
        \/ cons' = [cons EXCEPT !.r = Plus(cons.r, 1)]
    BY <1>6 DEF TakeByte
  <2>3. cons' \in [r : Count, w : Count, e : Count, buf : [Slot -> Ordinary \union Ends]]
    BY <2>1, <2>2
  <2>4. \/ rd' = [rd EXCEPT ![p] = Idle] /\ conslock' = NoReader
        \/ rd' = [rd EXCEPT ![p].n = @ - 1] /\ UNCHANGED conslock
    BY <1>6 DEF TakeByte
  <2> QED BY <2>3, <2>4
<1>7. ASSUME NEW p \in Reader, KillReader(p) PROVE InputTypes'
  BY <1>7 DEF KillReader
<1>8. ASSUME NEW p \in Writer, StartWrite(p) PROVE InputTypes'
  BY <1>8 DEF StartWrite
<1>9. ASSUME NEW p \in Writer, SendByte(p) PROVE InputTypes'
  BY <1>9 DEF SendByte
<1>10. ASSUME NEW p \in Writer, FindsBusy(p) PROVE InputTypes'
  BY <1>10 DEF FindsBusy
<1>11. ASSUME NEW p \in Writer, KillWriter(p) PROVE InputTypes'
  BY <1>11 DEF KillWriter
<1>12. CASE PrintWaits
  BY <1>12 DEF PrintWaits
<1>13. CASE Prints
  BY <1>13 DEF Prints
<1>14. CASE UartIntr
  BY <1>14 DEF UartIntr
<1>15. CASE Transmitted
  BY <1>15 DEF Transmitted
<1>16. ASSUME NEW c \in Typed, Received(c) PROVE InputTypes'
  BY <1>16 DEF Received
<1>17. CASE EchoWaits
  BY <1>17 DEF EchoWaits
<1>18. CASE Echoes
  BY <1>18 DEF Echoes
<1>19. CASE ConsoleIntr
  <2>1. uart.c \in Typed
    BY DEF ConsoleTypes, OutputTypes
  <2>2. /\ cons' \in [r : Count, w : Count, e : Count, buf : [Slot -> Ordinary \union Ends]]
        /\ \/ rd' = rd
           \/ rd' = [p \in Reader |-> IF rd[p].at = "asleep"
                                      THEN [rd[p] EXCEPT !.at = "woken"] ELSE rd[p]]
    BY <2>1, <1>19, ReceivedInput
  <2> QED BY <1>19, <2>2 DEF ConsoleIntr
<1>20. CASE IntrEnds
  BY <1>20 DEF IntrEnds
<1>21. CASE Transmit
  BY <1>21 DEF Transmit
<1>22. CASE Type
  BY <1>22 DEF Type
<1> QED
  BY <1>1, <1>2, <1>3, <1>4, <1>5, <1>6, <1>7, <1>8, <1>9, <1>10, <1>11, <1>12, <1>13,
     <1>14, <1>15, <1>16, <1>17, <1>18, <1>19, <1>20, <1>21, <1>22
     DEF ConsoleNext, Reads, Writes, UartHandler

\* The writers, the transmitter and the handler keep to their states.
LEMMA OutputTypesStep ==
  ASSUME ConsoleInv, [ConsoleNext]_consoleVars
  PROVE  OutputTypes'
<1> USE DEF ConsoleInv, ConsoleTypes, OutputTypes, Rest, WriteTHR,
        BusyAfterByte
<1>1. CASE UNCHANGED consoleVars
  BY <1>1 DEF consoleVars
<1>2. ASSUME NEW p \in Reader, StartRead(p) PROVE OutputTypes'
  BY <1>2 DEF StartRead
<1>3. ASSUME NEW p \in Reader, FindsNothing(p) PROVE OutputTypes'
  BY <1>3 DEF FindsNothing
<1>4. ASSUME NEW p \in Reader, SleepRead(p) PROVE OutputTypes'
  BY <1>4 DEF SleepRead
<1>5. ASSUME NEW p \in Reader, WokenRead(p) PROVE OutputTypes'
  BY <1>5 DEF WokenRead
<1>6. ASSUME NEW p \in Reader, TakeByte(p) PROVE OutputTypes'
  BY <1>6 DEF TakeByte
<1>7. ASSUME NEW p \in Reader, KillReader(p) PROVE OutputTypes'
  BY <1>7 DEF KillReader
<1>8. ASSUME NEW p \in Writer, StartWrite(p) PROVE OutputTypes'
  BY <1>8, ConsoleAssumption DEF StartWrite
<1>9. ASSUME NEW p \in Writer, SendByte(p) PROVE OutputTypes'
  BY <1>9 DEF SendByte
<1>10. ASSUME NEW p \in Writer, FindsBusy(p) PROVE OutputTypes'
  BY <1>10 DEF FindsBusy
<1>11. ASSUME NEW p \in Writer, KillWriter(p) PROVE OutputTypes'
  BY <1>11 DEF KillWriter
<1>12. CASE PrintWaits
  BY <1>12 DEF PrintWaits
<1>13. CASE Prints
  BY <1>13 DEF Prints
<1>14. CASE UartIntr
  BY <1>14 DEF UartIntr
<1>15. CASE Transmitted
  BY <1>15 DEF Transmitted
<1>16. ASSUME NEW c \in Typed, Received(c) PROVE OutputTypes'
  <2>1. Echo(c) \in Int
    BY EchoCounts
  <2> QED BY <1>16, <2>1 DEF Received
<1>17. CASE EchoWaits
  BY <1>17 DEF EchoWaits
<1>18. CASE Echoes
  <2>1. fifo' \in Nat /\ left' = left /\ wsleep' = wsleep
    BY <1>18 DEF Echoes
  <2>2. uart' = [uart EXCEPT !.seen = FALSE, !.echo = @ - 1]
    BY <1>18 DEF Echoes
  <2>3. uart' = [at |-> uart.at, c |-> uart.c, echo |-> uart.echo - 1, seen |-> FALSE]
    BY <2>2
  <2>4. uart' \in [at : {"idle", "tx", "rx", "echo"}, c : Typed, echo : Int, seen : BOOLEAN]
    BY <2>3
  <2> QED BY <2>1, <2>4
<1>19. CASE ConsoleIntr
  <2>1. uart' = [at |-> "rx", c |-> "other", echo |-> 0, seen |-> FALSE]
    BY <1>19 DEF ConsoleIntr
  <2>2. uart' \in [at : {"idle", "tx", "rx", "echo"}, c : Typed, echo : Int, seen : BOOLEAN]
    BY <2>1 DEF Typed
  <2> QED BY <1>19, <2>2 DEF ConsoleIntr
<1>20. CASE IntrEnds
  BY <1>20 DEF IntrEnds, Typed
<1>21. CASE Transmit
  BY <1>21 DEF Transmit
<1>22. CASE Type
  BY <1>22 DEF Type
<1> QED
  BY <1>1, <1>2, <1>3, <1>4, <1>5, <1>6, <1>7, <1>8, <1>9, <1>10, <1>11, <1>12, <1>13,
     <1>14, <1>15, <1>16, <1>17, <1>18, <1>19, <1>20, <1>21, <1>22
     DEF ConsoleNext, Reads, Writes, UartHandler

\* The flags of the device and of uart.c stay flags.
LEMMA FlagsStep ==
  ASSUME ConsoleInv, [ConsoleNext]_consoleVars
  PROVE  Flags'
<1> USE DEF ConsoleInv, ConsoleTypes, Flags, WriteTHR, BusyAfterByte
<1>1. CASE UNCHANGED consoleVars
  BY <1>1, Zenon DEF consoleVars
<1>2. ASSUME NEW p \in Reader, StartRead(p) PROVE Flags'
  BY <1>2, Zenon DEF StartRead
<1>3. ASSUME NEW p \in Reader, FindsNothing(p) PROVE Flags'
  BY <1>3, Zenon DEF FindsNothing
<1>4. ASSUME NEW p \in Reader, SleepRead(p) PROVE Flags'
  BY <1>4, Zenon DEF SleepRead
<1>5. ASSUME NEW p \in Reader, WokenRead(p) PROVE Flags'
  BY <1>5, Zenon DEF WokenRead
<1>6. ASSUME NEW p \in Reader, TakeByte(p) PROVE Flags'
  BY <1>6, Zenon DEF TakeByte
<1>7. ASSUME NEW p \in Reader, KillReader(p) PROVE Flags'
  BY <1>7, Zenon DEF KillReader
<1>8. ASSUME NEW p \in Writer, StartWrite(p) PROVE Flags'
  BY <1>8, Zenon DEF StartWrite
<1>9. ASSUME NEW p \in Writer, SendByte(p) PROVE Flags'
  BY <1>9, Zenon DEF SendByte
<1>10. ASSUME NEW p \in Writer, FindsBusy(p) PROVE Flags'
  BY <1>10, Zenon DEF FindsBusy
<1>11. ASSUME NEW p \in Writer, KillWriter(p) PROVE Flags'
  BY <1>11, Zenon DEF KillWriter
<1>12. CASE PrintWaits
  BY <1>12, Zenon DEF PrintWaits
<1>13. CASE Prints
  BY <1>13, Zenon DEF Prints
<1>14. CASE UartIntr
  BY <1>14, Zenon DEF UartIntr
<1>15. CASE Transmitted
  BY <1>15, Zenon DEF Transmitted
<1>16. ASSUME NEW c \in Typed, Received(c) PROVE Flags'
  BY <1>16, Zenon DEF Received
<1>17. CASE EchoWaits
  BY <1>17, Zenon DEF EchoWaits
<1>18. CASE Echoes
  BY <1>18, Zenon DEF Echoes
<1>19. CASE ConsoleIntr
  BY <1>19, Zenon DEF ConsoleIntr
<1>20. CASE IntrEnds
  BY <1>20, Zenon DEF IntrEnds
<1>21. CASE Transmit
  BY <1>21, Zenon DEF Transmit
<1>22. CASE Type
  BY <1>22, Zenon DEF Type
<1> QED
  BY <1>1, <1>2, <1>3, <1>4, <1>5, <1>6, <1>7, <1>8, <1>9, <1>10, <1>11, <1>12, <1>13,
     <1>14, <1>15, <1>16, <1>17, <1>18, <1>19, <1>20, <1>21, <1>22
     DEF ConsoleNext, Reads, Writes, UartHandler

-----------------------------------------------------------------------------
\* The invariant of console.c and uart.c: the types, the count of those that may still send
\* and the ownership of cons.lock.
THEOREM ConsoleInvariant == ConsoleSpec => []ConsoleInv
<1>1. ConsoleInv /\ [ConsoleNext]_consoleVars => ConsoleInv'
  BY TransmitterStep, InputStep, InputTypesStep, OutputTypesStep, FlagsStep
     DEF ConsoleInv, ConsoleTypes
<1> QED BY InitConsole, <1>1, PTL DEF ConsoleSpec

\* Whoever sleeps in consoleread() has no finished input before him, whoever sleeps in
\* uartwrite() a transmit interrupt to come (console.c: consoleread; uart.c: uartwrite).
THEOREM ConsoleWakesUp == ConsoleSpec => []ConsoleSleepersHaveAWaker
<1>1. ConsoleInv => ConsoleSleepersHaveAWaker
  BY DEF ConsoleInv, Transmitter, Input, ConsoleSleepersHaveAWaker
<1> QED BY ConsoleInvariant, <1>1, PTL

\* A UART that keeps three bytes loses none: a writer, the echo and a kernel message
\* each send at most one on a stale look at the transmitter (uart.c: uartwrite,
\* uartputc_sync).
THEOREM NothingOverwritten == FIFO >= 3 => (ConsoleSpec => []NoByteOverwritten)
<1> SUFFICES ASSUME FIFO >= 3 PROVE ConsoleSpec => []NoByteOverwritten
  OBVIOUS
<1>1. ConsoleInv => NoByteOverwritten
  <2> SUFFICES ASSUME ConsoleInv PROVE fifo <= FIFO
    BY DEF NoByteOverwritten
  <2>1. MayStillSend \in Nat
    BY DEF MayStillSend
  <2> QED BY <2>1, ConsoleAssumption DEF ConsoleInv, ConsoleTypes, OutputTypes, Transmitter
<1> QED BY ConsoleInvariant, <1>1, PTL

-----------------------------------------------------------------------------
(* Remainders and distances *)

\* Remainders below the divisor and one divisor up.
LEMMA ModSmall ==
  ASSUME NEW n \in Nat \ {0}, NEW x \in 0 .. 2 * n - 1
  PROVE  /\ x < n => x % n = x
         /\ x >= n => x % n = x - n
<1>1. x < n => x % n = x
  OBVIOUS
<1>2. x >= n => x % n = x - n
  OBVIOUS
<1> QED
  BY <1>1, <1>2

\* Quotient and remainder.
LEMMA DivMod ==
  ASSUME NEW n \in Nat \ {0}, NEW x \in Nat
  PROVE  x = n * (x \div n) + (x % n) /\ x \div n \in Nat /\ x % n \in 0 .. n - 1
  OBVIOUS

\* The remainder of a sum of a multiple and something smaller.
LEMMA ModOf ==
  ASSUME NEW n \in Nat \ {0}, NEW q \in Nat, NEW r \in 0 .. n - 1
  PROVE  (n * q + r) % n = r
  OBVIOUS

\* Multiples of the divisor do not count.
LEMMA ModMultiple ==
  ASSUME NEW n \in Nat \ {0}, NEW q \in Nat, NEW x \in Nat
  PROVE  (n * q + x) % n = x % n
<1> DEFINE d == x \div n
           r == x % n
<1>1. x = n * d + r /\ d \in Nat /\ r \in 0 .. n - 1
  BY DivMod
<1> HIDE DEF d, r
<1>2. n * q + x = n * (q + d) + r /\ q + d \in Nat
  BY <1>1
<1>3. (n * (q + d) + r) % n = r
  BY <1>1, <1>2, ModOf
<1> QED
  BY <1>2, <1>3 DEF r

\* Two numbers less than the divisor apart have different remainders.
LEMMA ModApart ==
  ASSUME NEW n \in Nat \ {0}, NEW x \in Nat, NEW d \in 1 .. n - 1
  PROVE  (x + d) % n # x % n
<1> DEFINE q == x \div n
           r == x % n
<1>1. x = n * q + r /\ q \in Nat /\ r \in 0 .. n - 1
  BY DivMod
<1> HIDE DEF q, r
<1>2. CASE r + d < n
  <2>1. x + d = n * q + (r + d) /\ r + d \in 0 .. n - 1
    BY <1>1, <1>2
  <2> QED
    <3>1. (n * q + (r + d)) % n = r + d
      BY <1>1, <2>1, ModOf
    <3> QED
      BY <1>1, <2>1, <3>1 DEF r
<1>3. CASE r + d >= n
  <2>1. x + d = n * (q + 1) + (r + d - n) /\ q + 1 \in Nat /\ r + d - n \in 0 .. n - 1
    BY <1>1, <1>3
  <2>2. (x + d) % n = r + d - n
    BY <1>1, <2>1, ModOf
  <2> QED
    BY <1>1, <2>2 DEF r
<1> QED
  BY <1>1, <1>2, <1>3

\* Distances between indices, across the wrap.
LEMMA Distance ==
  ASSUME NEW i \in Count, NEW j \in Count
  PROVE  /\ i \in Nat /\ j \in Nat /\ i < CUINT /\ j < CUINT
         /\ Dist(i, j) \in Nat /\ Dist(i, j) < CUINT
         /\ i <= j => Dist(i, j) = j - i
         /\ j < i => Dist(i, j) = j - i + CUINT
<1>1. CUINT \in Nat \ {0}
  BY ConsoleAssumption
<1>2. i \in Nat /\ j \in Nat /\ i < CUINT /\ j < CUINT
  BY <1>1 DEF Count
<1>3. i <= j => (j - i) % CUINT = j - i
  BY <1>1, <1>2
<1>4. j < i => (j - i) % CUINT = j - i + CUINT
  BY <1>1, <1>2
<1> QED
  BY <1>1, <1>2, <1>3, <1>4 DEF Dist

\* An index moved on.
LEMMA Moved ==
  ASSUME NEW i \in Count, NEW d \in 0 .. CUINT - 1
  PROVE  /\ Plus(i, d) \in Count
         /\ i + d < CUINT => Plus(i, d) = i + d
         /\ i + d >= CUINT => Plus(i, d) = i + d - CUINT
<1>1. CUINT \in Nat \ {0}
  BY ConsoleAssumption
<1>2. i \in Nat /\ i < CUINT /\ d \in Nat
  BY <1>1 DEF Count
<1> DEFINE x == i + d
<1>3. x \in 0 .. 2 * CUINT - 1
  BY <1>1, <1>2
<1> HIDE DEF x
<1>4. (x < CUINT => x % CUINT = x) /\ (x >= CUINT => x % CUINT = x - CUINT)
  BY <1>1, <1>3, ModSmall
<1> QED
  BY <1>1, <1>2, <1>4 DEF x, Plus, Count

\* A wrapped index has the slot of the index before the wrap.
LEMMA SlotShift ==
  ASSUME NEW i \in Count, NEW d \in 0 .. CUINT - 1, NEW k \in Nat
  PROVE  (Plus(i, d) + k) % INPUT_BUF_SIZE = (i + d + k) % INPUT_BUF_SIZE
<1>1. CUINT \in Nat \ {0} /\ INPUT_BUF_SIZE \in Nat \ {0} /\ i \in Nat /\ d \in Nat
  BY ConsoleAssumption DEF Count
<1> DEFINE m == CUINT \div INPUT_BUF_SIZE
<1>2. CUINT = INPUT_BUF_SIZE * m /\ m \in Nat
  <2>1. CUINT \in Nat /\ CUINT % INPUT_BUF_SIZE = 0
    BY ConsoleAssumption
  <2>2. CUINT = INPUT_BUF_SIZE * m + (CUINT % INPUT_BUF_SIZE) /\ m \in Nat
    BY <1>1, <2>1, DivMod
  <2> QED
    BY <1>1, <2>1, <2>2
<1> HIDE DEF m
<1>3. CASE Plus(i, d) = i + d
  BY <1>3
<1>4. CASE Plus(i, d) = i + d - CUINT /\ i + d >= CUINT
  <2> DEFINE y == i + d - CUINT + k
  <2>1. y \in Nat /\ i + d + k = INPUT_BUF_SIZE * m + y /\ Plus(i, d) + k = y
    BY <1>1, <1>2, <1>4
  <2> HIDE DEF y
  <2>2. (INPUT_BUF_SIZE * m + y) % INPUT_BUF_SIZE = y % INPUT_BUF_SIZE
    BY <1>1, <1>2, <2>1, ModMultiple
  <2> QED
    BY <2>1, <2>2
<1>5. i + d < CUINT \/ i + d >= CUINT
  BY <1>1
<1> QED
  BY <1>3, <1>4, <1>5, Moved

-----------------------------------------------------------------------------
(* Characters in a ring *)

Char == Ordinary \union Ends

\* The character in the slot of x, n of them from x on, and one stored there.
At(b, x)        == b[x % INPUT_BUF_SIZE]
Ring(b, i, n)   == [k \in 1 .. n |-> At(b, i + k - 1)]
Stored(b, x, c) == [b EXCEPT ![x % INPUT_BUF_SIZE] = c]

\* Every number has a slot.
LEMMA SlotOf ==
  ASSUME NEW x \in Nat
  PROVE  x % INPUT_BUF_SIZE \in Slot
<1>1. x % INPUT_BUF_SIZE \in 0 .. INPUT_BUF_SIZE - 1
  BY DivMod, ConsoleAssumption
<1> QED
  BY <1>1 DEF Slot

\* What a store leaves in its slot, and in the slots up to one turn before it.
LEMMA AtStored ==
  ASSUME NEW b \in [Slot -> Char], NEW x \in Nat, NEW c \in Char
  PROVE  /\ At(b, x) \in Char
         /\ Stored(b, x, c) \in [Slot -> Char] /\ At(Stored(b, x, c), x) = c
         /\ \A y \in Nat : y < x /\ x - y < INPUT_BUF_SIZE => At(Stored(b, x, c), y) = At(b, y)
<1>1. x % INPUT_BUF_SIZE \in Slot
  BY SlotOf
<1>2. ASSUME NEW y \in Nat, y < x, x - y < INPUT_BUF_SIZE
      PROVE  y % INPUT_BUF_SIZE \in Slot /\ y % INPUT_BUF_SIZE # x % INPUT_BUF_SIZE
  <2>1. y % INPUT_BUF_SIZE \in Slot
    BY SlotOf
  <2> DEFINE d == x - y
  <2>2. d \in 1 .. INPUT_BUF_SIZE - 1 /\ y + d = x
    BY <1>2, ConsoleAssumption
  <2> HIDE DEF d
  <2>3. (y + d) % INPUT_BUF_SIZE # y % INPUT_BUF_SIZE
    BY <2>2, ModApart, ConsoleAssumption
  <2> QED
    BY <2>1, <2>2, <2>3
<1> DEFINE s == x % INPUT_BUF_SIZE
<1>3. ASSUME NEW y \in Nat, y < x, x - y < INPUT_BUF_SIZE
      PROVE  [b EXCEPT ![s] = c][y % INPUT_BUF_SIZE] = b[y % INPUT_BUF_SIZE]
  <2> DEFINE t == y % INPUT_BUF_SIZE
  <2>1. s \in Slot /\ t \in Slot /\ t # s
    BY <1>1, <1>2, <1>3
  <2> HIDE DEF s, t
  <2>2. [b EXCEPT ![s] = c][t] = b[t]
    BY <2>1
  <2> QED
    BY <2>2 DEF t
<1>4. s \in Slot
  BY <1>1
<1> HIDE DEF s
<1>5. b[s] \in Char /\ [b EXCEPT ![s] = c] \in [Slot -> Char] /\ [b EXCEPT ![s] = c][s] = c
  BY <1>4
<1> QED
  BY <1>3, <1>5 DEF At, Stored, s

\* A stretch of the ring is a sequence of characters.
LEMMA RingFacts ==
  ASSUME NEW b \in [Slot -> Char], NEW i \in Nat, NEW n \in Nat
  PROVE  /\ Ring(b, i, n) \in Seq(Char) /\ Len(Ring(b, i, n)) = n
         /\ \A k \in 1 .. n : Ring(b, i, n)[k] = At(b, i + k - 1)
<1>1. ASSUME NEW x \in Nat PROVE At(b, x) \in Char
  <2>1. x % INPUT_BUF_SIZE \in Slot
    BY SlotOf
  <2> QED
    BY <2>1 DEF At
<1>2. \A k \in 1 .. n : i + k - 1 \in Nat
  OBVIOUS
<1>3. \A k \in 1 .. n : At(b, i + k - 1) \in Char
  BY <1>1, <1>2
<1> DEFINE f == Ring(b, i, n)
<1>4. f \in [1 .. n -> Char] /\ \A k \in 1 .. n : f[k] = At(b, i + k - 1)
  BY <1>3 DEF Ring
<1> HIDE DEF f
<1>5. f \in Seq(Char) /\ Len(f) = n
  BY <1>4
<1> QED
  BY <1>4, <1>5 DEF f

\* What lies between two indices.
LEMMA CharsInRing ==
  ASSUME InputTypes, NEW i \in Count, NEW j \in Count
  PROVE  Chars(i, j) = Ring(cons.buf, i, Dist(i, j))
<1> DEFINE n == Dist(i, j)
<1>1. i \in Nat /\ n \in Nat /\ n < CUINT /\ CUINT \in Nat
  BY Distance, ConsoleAssumption
<1> HIDE DEF n
<1>2. ASSUME NEW k \in 1 .. n
      PROVE  Plus(i, k - 1) % INPUT_BUF_SIZE = (i + k - 1) % INPUT_BUF_SIZE
  <2>1. k - 1 \in 0 .. CUINT - 1 /\ k \in Nat
    BY <1>1
  <2>2. (Plus(i, k - 1) + 0) % INPUT_BUF_SIZE = (i + (k - 1) + 0) % INPUT_BUF_SIZE
    BY <2>1, SlotShift
  <2>3. Plus(i, k - 1) \in Nat
    BY <2>1, Moved DEF Count
  <2>4. Plus(i, k - 1) + 0 = Plus(i, k - 1) /\ i + (k - 1) + 0 = i + k - 1
    BY <1>1, <2>1, <2>3
  <2> QED
    BY <2>2, <2>4
<1>3. ASSUME NEW k \in 1 .. n PROVE BufAt(Plus(i, k - 1)) = At(cons.buf, i + k - 1)
  BY <1>2 DEF BufAt, At
<1>4. [k \in 1 .. n |-> BufAt(Plus(i, k - 1))] = [k \in 1 .. n |-> At(cons.buf, i + k - 1)]
  BY <1>3
<1> QED
  BY <1>4 DEF Chars, Ring, n

\* A start beyond the wrap.
LEMMA RingWraps ==
  ASSUME NEW b, NEW i \in Count, NEW d \in 0 .. CUINT - 1, NEW n \in Nat
  PROVE  Ring(b, Plus(i, d), n) = Ring(b, i + d, n)
<1>1. i \in Nat /\ d \in Nat /\ Plus(i, d) \in Nat
  BY Moved, ConsoleAssumption DEF Count
<1>2. ASSUME NEW k \in 1 .. n PROVE At(b, Plus(i, d) + k - 1) = At(b, i + d + k - 1)
  <2>1. k - 1 \in Nat
    OBVIOUS
  <2>2. (Plus(i, d) + (k - 1)) % INPUT_BUF_SIZE = (i + d + (k - 1)) % INPUT_BUF_SIZE
    BY <2>1, SlotShift
  <2>3. /\ Plus(i, d) + (k - 1) = Plus(i, d) + k - 1
        /\ i + d + (k - 1) = i + d + k - 1
    BY <1>1
  <2> QED
    BY <2>2, <2>3 DEF At
<1> QED
  BY <1>2 DEF Ring

\* A character stored behind a stretch leaves it alone.
LEMMA RingKept ==
  ASSUME NEW b \in [Slot -> Char], NEW i \in Nat, NEW n \in Nat, NEW m \in Nat, NEW c \in Char,
         n <= m, m < INPUT_BUF_SIZE
  PROVE  Ring(Stored(b, i + m, c), i, n) = Ring(b, i, n)
<1> DEFINE a == Stored(b, i + m, c)
<1>1. i + m \in Nat
  OBVIOUS
<1>2. \A y \in Nat : y < i + m /\ i + m - y < INPUT_BUF_SIZE => At(a, y) = At(b, y)
  BY <1>1, AtStored
<1> HIDE DEF a
<1>3. ASSUME NEW k \in 1 .. n PROVE At(a, i + k - 1) = At(b, i + k - 1)
  <2>1. i + k - 1 \in Nat /\ i + k - 1 < i + m /\ i + m - (i + k - 1) < INPUT_BUF_SIZE
    BY ConsoleAssumption
  <2> QED
    BY <1>2, <2>1
<1>4. Ring(a, i, n) = Ring(b, i, n)
  BY <1>3 DEF Ring
<1> QED
  BY <1>4 DEF a

\* A character stored right behind a stretch is appended to it.
LEMMA RingAppends ==
  ASSUME NEW b \in [Slot -> Char], NEW i \in Nat, NEW n \in Nat, NEW c \in Char,
         n < INPUT_BUF_SIZE
  PROVE  Ring(Stored(b, i + n, c), i, n + 1) = Append(Ring(b, i, n), c)
<1> DEFINE a == Stored(b, i + n, c)
           s == Ring(b, i, n)
           t == Ring(a, i, n + 1)
<1>1. i + n \in Nat /\ n + 1 \in Nat
  OBVIOUS
<1>2. a \in [Slot -> Char] /\ At(a, i + n) = c
  BY <1>1, AtStored
<1>3. Ring(a, i, n) = s
  BY RingKept
<1> HIDE DEF a
<1>4. /\ t \in Seq(Char) /\ Len(t) = n + 1
      /\ \A k \in 1 .. n + 1 : t[k] = At(a, i + k - 1)
  BY <1>1, <1>2, RingFacts
<1>5. /\ s \in Seq(Char) /\ Len(s) = n
      /\ \A k \in 1 .. n : s[k] = At(a, i + k - 1)
  <2> HIDE DEF s
  <2> QED
    BY <1>2, <1>3, RingFacts
<1> HIDE DEF s, t
<1>6. /\ Append(s, c) \in Seq(Char) /\ Len(Append(s, c)) = n + 1
      /\ \A k \in 1 .. n : Append(s, c)[k] = s[k]
      /\ Append(s, c)[n + 1] = c
  BY <1>5, AppendProperties
<1>7. ASSUME NEW k \in 1 .. n + 1 PROVE t[k] = Append(s, c)[k]
  <2>1. CASE k = n + 1
    <3>1. i + k - 1 = i + n
      BY <2>1
    <3> QED
      BY <1>2, <1>4, <1>6, <2>1, <3>1
  <2>2. CASE k # n + 1
    <3>1. k \in 1 .. n
      BY <2>2
    <3> QED
      BY <1>4, <1>5, <1>6, <3>1
  <2> QED
    BY <2>1, <2>2
<1>8. t = Append(s, c)
  BY <1>4, <1>6, <1>7, SeqEqual
<1> QED
  BY <1>8 DEF a, s, t

\* Two stretches that meet are one.
LEMMA RingJoins ==
  ASSUME NEW b \in [Slot -> Char], NEW i \in Nat, NEW n \in Nat, NEW m \in Nat
  PROVE  Ring(b, i, n + m) = Ring(b, i, n) \o Ring(b, i + n, m)
<1> DEFINE s == Ring(b, i, n + m)
           f == Ring(b, i, n)
           t == Ring(b, i + n, m)
<1>1. i + n \in Nat /\ n + m \in Nat
  OBVIOUS
<1>2. s \in Seq(Char) /\ Len(s) = n + m /\ \A k \in 1 .. n + m : s[k] = At(b, i + k - 1)
  BY <1>1, RingFacts
<1>3. f \in Seq(Char) /\ Len(f) = n /\ \A k \in 1 .. n : f[k] = At(b, i + k - 1)
  BY RingFacts
<1>4. t \in Seq(Char) /\ Len(t) = m /\ \A k \in 1 .. m : t[k] = At(b, i + n + k - 1)
  BY <1>1, RingFacts
<1> HIDE DEF s, f, t
<1>5. /\ f \o t \in Seq(Char) /\ Len(f \o t) = n + m
      /\ \A k \in 1 .. n + m : (f \o t)[k] = IF k <= n THEN f[k] ELSE t[k - n]
  BY <1>3, <1>4, ConcatProperties
<1>6. ASSUME NEW k \in 1 .. n + m PROVE s[k] = (f \o t)[k]
  <2>1. CASE k <= n
    <3>1. k \in 1 .. n
      BY <2>1
    <3> QED
      BY <1>2, <1>3, <1>5, <2>1, <3>1
  <2>2. CASE ~(k <= n)
    <3>1. k - n \in 1 .. m /\ i + n + (k - n) - 1 = i + k - 1
      BY <2>2
    <3> QED
      BY <1>2, <1>4, <1>5, <2>2, <3>1
  <2> QED
    BY <2>1, <2>2
<1>7. s = f \o t
  BY <1>2, <1>5, <1>6, SeqEqual
<1> QED
  BY <1>7 DEF s, f, t

\* The first character taken.
LEMMA RingTail ==
  ASSUME NEW b \in [Slot -> Char], NEW i \in Nat, NEW n \in Nat \ {0}
  PROVE  Ring(b, i, n) # <<>> /\ Ring(b, i + 1, n - 1) = Tail(Ring(b, i, n))
<1> DEFINE s == Ring(b, i, n)
           t == Ring(b, i + 1, n - 1)
<1>1. i + 1 \in Nat /\ n - 1 \in Nat /\ n \in Nat
  OBVIOUS
<1>2. s \in Seq(Char) /\ Len(s) = n /\ \A k \in 1 .. n : s[k] = At(b, i + k - 1)
  BY <1>1, RingFacts
<1>3. t \in Seq(Char) /\ Len(t) = n - 1 /\ \A k \in 1 .. n - 1 : t[k] = At(b, i + 1 + k - 1)
  BY <1>1, RingFacts
<1> HIDE DEF s, t
<1>4. s # <<>>
  BY <1>2
<1>5. Tail(s) \in Seq(Char) /\ Len(Tail(s)) = n - 1 /\ \A k \in 1 .. n - 1 : Tail(s)[k] = s[k + 1]
  BY <1>2, <1>4, HeadTailProperties
<1>6. ASSUME NEW k \in 1 .. n - 1 PROVE t[k] = Tail(s)[k]
  <2>1. k + 1 \in 1 .. n /\ i + (k + 1) - 1 = i + 1 + k - 1
    OBVIOUS
  <2> QED
    BY <1>2, <1>3, <1>5, <2>1
<1>7. t = Tail(s)
  BY <1>3, <1>5, <1>6, SeqEqual
<1> QED
  BY <1>4, <1>7 DEF s, t

\* The last character dropped.
LEMMA RingFront ==
  ASSUME NEW b \in [Slot -> Char], NEW i \in Nat, NEW n \in Nat \ {0}
  PROVE  /\ Ring(b, i, n) # <<>>
         /\ Ring(b, i, n - 1) = SubSeq(Ring(b, i, n), 1, Len(Ring(b, i, n)) - 1)
<1> DEFINE s == Ring(b, i, n)
           t == Ring(b, i, n - 1)
<1>1. n - 1 \in Nat /\ n \in Nat
  OBVIOUS
<1>2. s \in Seq(Char) /\ Len(s) = n /\ \A k \in 1 .. n : s[k] = At(b, i + k - 1)
  BY <1>1, RingFacts
<1>3. t \in Seq(Char) /\ Len(t) = n - 1 /\ \A k \in 1 .. n - 1 : t[k] = At(b, i + k - 1)
  BY <1>1, RingFacts
<1> HIDE DEF s, t
<1>4. s # <<>>
  BY <1>2
<1>5. /\ SubSeq(s, 1, n - 1) \in Seq(Char) /\ Len(SubSeq(s, 1, n - 1)) = n - 1
      /\ \A k \in 1 .. n - 1 : SubSeq(s, 1, n - 1)[k] = s[k]
  <2>1. \A k \in 1 .. n - 1 : s[k] \in Char
    BY <1>2, ElementOfSeq
  <2>2. SubSeq(s, 1, n - 1) = [k \in 1 .. n - 1 |-> s[k]]
    BY <1>1, <1>2
  <2>3. SubSeq(s, 1, n - 1) \in [1 .. n - 1 -> Char]
    BY <2>1, <2>2
  <2> DEFINE f == SubSeq(s, 1, n - 1)
  <2>4. f \in [1 .. n - 1 -> Char] /\ \A k \in 1 .. n - 1 : f[k] = s[k]
    BY <2>2, <2>3
  <2> HIDE DEF f
  <2>5. f \in Seq(Char) /\ Len(f) = n - 1
    BY <1>1, <2>4
  <2> QED
    BY <2>4, <2>5 DEF f
<1>6. ASSUME NEW k \in 1 .. n - 1 PROVE t[k] = SubSeq(s, 1, n - 1)[k]
  <2>1. k \in 1 .. n
    OBVIOUS
  <2> QED
    BY <1>2, <1>3, <1>5, <2>1
<1>7. t = SubSeq(s, 1, n - 1)
  BY <1>3, <1>5, <1>6, SeqEqual
<1> QED
  BY <1>2, <1>4, <1>7 DEF s, t

-----------------------------------------------------------------------------
(* The indices and the queue they delimit *)

Con == [r : Count, w : Count, e : Count, buf : [Slot -> Char]]

\* w lies between r and e, and no more is stored than fits.
Between(c) ==
  /\ Dist(c.r, c.w) + Dist(c.w, c.e) = Dist(c.r, c.e)
  /\ Dist(c.r, c.e) <= INPUT_BUF_SIZE

Finished(c) == Ring(c.buf, c.r, Dist(c.r, c.w))
Typing(c)   == Ring(c.buf, c.w, Dist(c.w, c.e))

\* How a distance changes when an end of it moves, and that it leads from one to the other.
LEMMA DistanceMoves ==
  ASSUME NEW i \in Count, NEW j \in Count
  PROVE  /\ Dist(i, i) = 0 /\ (Dist(i, j) = 0 => i = j) /\ Plus(i, Dist(i, j)) = j
         /\ Dist(i, j) + 1 < CUINT => Dist(i, Plus(j, 1)) = Dist(i, j) + 1
         /\ i # j => /\ Dist(Plus(i, 1), j) = Dist(i, j) - 1
                     /\ Dist(i, Plus(j, CUINT - 1)) = Dist(i, j) - 1
<1>1. /\ CUINT \in Nat /\ CUINT > 1 /\ i \in Nat /\ j \in Nat /\ i < CUINT /\ j < CUINT
      /\ 1 \in 0 .. CUINT - 1 /\ CUINT - 1 \in 0 .. CUINT - 1
  BY ConsoleAssumption DEF Count
<1>2. \A a \in Count, b \in Count :
         /\ Dist(a, b) \in 0 .. CUINT - 1
         /\ a <= b => Dist(a, b) = b - a
         /\ b < a => Dist(a, b) = b - a + CUINT
  <2>1. ASSUME NEW a \in Count, NEW b \in Count
        PROVE  /\ Dist(a, b) \in Nat /\ Dist(a, b) < CUINT
               /\ a <= b => Dist(a, b) = b - a
               /\ b < a => Dist(a, b) = b - a + CUINT
    BY Distance
  <2> QED
    BY <1>1, <2>1
<1>3. \A a \in Count, d \in 0 .. CUINT - 1 :
         /\ Plus(a, d) \in Count
         /\ a + d < CUINT => Plus(a, d) = a + d
         /\ a + d >= CUINT => Plus(a, d) = a + d - CUINT
  BY Moved
<1> QED
  <2>1. /\ Plus(i, 1) \in Count /\ Plus(i, 1) \in Nat
        /\ i + 1 < CUINT => Plus(i, 1) = i + 1
        /\ i + 1 >= CUINT => Plus(i, 1) = i + 1 - CUINT
    BY <1>1, <1>3 DEF Count
  <2>2. /\ Plus(j, 1) \in Count /\ Plus(j, 1) \in Nat
        /\ j + 1 < CUINT => Plus(j, 1) = j + 1
        /\ j + 1 >= CUINT => Plus(j, 1) = j + 1 - CUINT
    BY <1>1, <1>3 DEF Count
  <2>3. /\ Plus(j, CUINT - 1) \in Count /\ Plus(j, CUINT - 1) \in Nat
        /\ j = 0 => Plus(j, CUINT - 1) = CUINT - 1
        /\ j > 0 => Plus(j, CUINT - 1) = j - 1
    BY <1>1, <1>3 DEF Count
  <2>4. Dist(i, i) = 0 /\ (Dist(i, j) = 0 => i = j)
    BY <1>1, <1>2
  <2>5. Plus(i, Dist(i, j)) = j
    <3> DEFINE d == Dist(i, j)
    <3>1. /\ d \in 0 .. CUINT - 1 /\ d \in Nat
          /\ i <= j => d = j - i
          /\ j < i => d = j - i + CUINT
      BY <1>1, <1>2
    <3> HIDE DEF d
    <3>2. /\ i + d < CUINT => Plus(i, d) = i + d
          /\ i + d >= CUINT => Plus(i, d) = i + d - CUINT
      BY <1>3, <3>1
    <3>3. Plus(i, d) = j
      BY <1>1, <3>1, <3>2
    <3> QED
      BY <3>3 DEF d
  <2>6. Dist(i, j) + 1 < CUINT => Dist(i, Plus(j, 1)) = Dist(i, j) + 1
    BY <1>1, <1>2, <2>2
  <2>7. i # j => Dist(Plus(i, 1), j) = Dist(i, j) - 1
    BY <1>1, <1>2, <2>1
  <2>8. i # j => Dist(i, Plus(j, CUINT - 1)) = Dist(i, j) - 1
    BY <1>1, <1>2, <2>3
  <2> QED
    BY <2>4, <2>5, <2>6, <2>7, <2>8

\* The parts of the console and what they are good for.
LEMMA ConFacts ==
  ASSUME NEW c \in Con, Between(c)
  PROVE  /\ c.r \in Count /\ c.w \in Count /\ c.e \in Count /\ c.buf \in [Slot -> Char]
         /\ c.r \in Nat /\ c.w \in Nat /\ c.e \in Nat
         /\ Dist(c.r, c.w) \in Nat /\ Dist(c.w, c.e) \in Nat /\ Dist(c.r, c.e) \in Nat
         /\ Dist(c.r, c.w) \in 0 .. CUINT - 1 /\ Dist(c.w, c.e) \in 0 .. CUINT - 1
         /\ Dist(c.r, c.e) \in 0 .. CUINT - 1
         /\ Finished(c) \in Seq(Char) /\ Len(Finished(c)) = Dist(c.r, c.w)
         /\ Typing(c) \in Seq(Char) /\ Len(Typing(c)) = Dist(c.w, c.e)
         /\ CUINT \in Nat /\ INPUT_BUF_SIZE \in Nat \ {0} /\ INPUT_BUF_SIZE < CUINT
<1>1. c.r \in Count /\ c.w \in Count /\ c.e \in Count /\ c.buf \in [Slot -> Char]
  BY DEF Con
<1>2. CUINT \in Nat /\ INPUT_BUF_SIZE \in Nat \ {0} /\ INPUT_BUF_SIZE < CUINT
  BY ConsoleAssumption
<1>3. /\ c.r \in Nat /\ c.w \in Nat /\ c.e \in Nat
      /\ Dist(c.r, c.w) \in Nat /\ Dist(c.w, c.e) \in Nat /\ Dist(c.r, c.e) \in Nat
      /\ Dist(c.r, c.w) < CUINT /\ Dist(c.w, c.e) < CUINT /\ Dist(c.r, c.e) < CUINT
  BY <1>1, Distance
<1>4. /\ Finished(c) \in Seq(Char) /\ Len(Finished(c)) = Dist(c.r, c.w)
      /\ Typing(c) \in Seq(Char) /\ Len(Typing(c)) = Dist(c.w, c.e)
  BY <1>1, <1>3, RingFacts DEF Finished, Typing
<1> QED
  BY <1>1, <1>2, <1>3, <1>4

\* consoleread() takes the first finished character.
LEMMA TakesFirst ==
  ASSUME NEW c \in Con, Between(c), c.r # c.w, NEW n, n = [c EXCEPT !.r = Plus(@, 1)]
  PROVE  /\ Between(n) /\ Finished(c) # <<>>
         /\ Finished(n) = Tail(Finished(c)) /\ Typing(n) = Typing(c)
<1>1. n.r = Plus(c.r, 1) /\ n.w = c.w /\ n.e = c.e /\ n.buf = c.buf
  BY DEF Con
<1>2. Dist(c.r, c.w) # 0 /\ c.r # c.e
  <2>1. Dist(c.r, c.w) # 0
    BY ConFacts, DistanceMoves
  <2>2. Dist(c.r, c.e) # 0
    BY <2>1, ConFacts DEF Between
  <2>3. Dist(c.r, c.r) = 0
    BY ConFacts, DistanceMoves
  <2> QED
    BY <2>1, <2>2, <2>3
<1>3. Dist(n.r, n.w) = Dist(c.r, c.w) - 1 /\ Dist(n.r, n.e) = Dist(c.r, c.e) - 1
  BY <1>1, <1>2, ConFacts, DistanceMoves
<1>4. Between(n)
  BY <1>1, <1>3, ConFacts DEF Between
<1>5. Typing(n) = Typing(c)
  BY <1>1 DEF Typing
<1> DEFINE f == Dist(c.r, c.w)
<1>6. f \in Nat \ {0} /\ f - 1 \in Nat /\ 1 \in 0 .. CUINT - 1
  BY <1>2, ConFacts
<1>7. Ring(c.buf, n.r, f - 1) = Ring(c.buf, c.r + 1, f - 1)
  <2> HIDE DEF f
  <2>1. c.r \in Count
    BY ConFacts
  <2> QED
    BY <1>1, <1>6, <2>1, RingWraps
<1>8. /\ Ring(c.buf, c.r, f) # <<>>
      /\ Ring(c.buf, c.r + 1, f - 1) = Tail(Ring(c.buf, c.r, f))
  BY <1>6, ConFacts, RingTail
<1> QED
  BY <1>1, <1>3, <1>4, <1>5, <1>7, <1>8 DEF Finished

\* Erasing drops the last typed character.
LEMMA ErasesLast ==
  ASSUME NEW c \in Con, Between(c), c.e # c.w, NEW n, n = [c EXCEPT !.e = Plus(@, CUINT - 1)]
  PROVE  /\ Between(n) /\ Typing(c) # <<>> /\ Finished(n) = Finished(c)
         /\ Typing(n) = SubSeq(Typing(c), 1, Len(Typing(c)) - 1)
<1>1. n.e = Plus(c.e, CUINT - 1) /\ n.w = c.w /\ n.r = c.r /\ n.buf = c.buf
  BY DEF Con
<1>2. Dist(c.w, c.e) # 0 /\ c.r # c.e
  <2>1. Dist(c.w, c.e) # 0
    BY ConFacts, DistanceMoves
  <2>2. Dist(c.r, c.e) # 0
    BY <2>1, ConFacts DEF Between
  <2>3. Dist(c.r, c.r) = 0
    BY ConFacts, DistanceMoves
  <2> QED
    BY <2>1, <2>2, <2>3
<1>3. Dist(n.w, n.e) = Dist(c.w, c.e) - 1 /\ Dist(n.r, n.e) = Dist(c.r, c.e) - 1
  BY <1>1, <1>2, ConFacts, DistanceMoves
<1>4. Between(n)
  BY <1>1, <1>3, ConFacts DEF Between
<1>5. Finished(n) = Finished(c)
  BY <1>1 DEF Finished
<1> DEFINE t == Dist(c.w, c.e)
<1>6. t \in Nat \ {0}
  BY <1>2, ConFacts
<1>7. /\ Ring(c.buf, c.w, t) # <<>>
      /\ Ring(c.buf, c.w, t - 1) = SubSeq(Ring(c.buf, c.w, t), 1, Len(Ring(c.buf, c.w, t)) - 1)
  BY <1>6, ConFacts, RingFront
<1> QED
  BY <1>1, <1>3, <1>4, <1>5, <1>7 DEF Typing

\* Nothing lies between an index and itself.
LEMMA RingEmpty ==
  ASSUME NEW b \in [Slot -> Char], NEW i \in Count
  PROVE  Ring(b, i, Dist(i, i)) = <<>>
<1>1. i \in Nat /\ Dist(i, i) = 0
  BY Distance, DistanceMoves
<1>2. Ring(b, i, 0) \in Seq(Char) /\ Len(Ring(b, i, 0)) = 0
  BY <1>1, RingFacts
<1> QED
  BY <1>1, <1>2

\* Killing the line leaves what is finished.
LEMMA KillsLine ==
  ASSUME NEW c \in Con, Between(c), NEW n, n = [c EXCEPT !.e = c.w]
  PROVE  Between(n) /\ Typing(n) = <<>> /\ Finished(n) = Finished(c)
<1>1. n.e = c.w /\ n.w = c.w /\ n.r = c.r /\ n.buf = c.buf
  BY DEF Con
<1>2. Between(n)
  BY <1>1, ConFacts, DistanceMoves DEF Between
<1>3. Typing(n) = <<>>
  BY <1>1, ConFacts, RingEmpty DEF Typing
<1> QED
  BY <1>1, <1>2, <1>3 DEF Finished

\* A finished line joins the finished input.
LEMMA FinishesLine ==
  ASSUME NEW c \in Con, Between(c), NEW n, n = [c EXCEPT !.w = c.e]
  PROVE  Between(n) /\ Typing(n) = <<>> /\ Finished(n) = Finished(c) \o Typing(c)
<1>1. n.e = c.e /\ n.w = c.e /\ n.r = c.r /\ n.buf = c.buf
  BY DEF Con
<1>2. Between(n)
  BY <1>1, ConFacts, DistanceMoves DEF Between
<1>3. Typing(n) = <<>>
  BY <1>1, ConFacts, RingEmpty DEF Typing
<1> DEFINE f == Dist(c.r, c.w)
           t == Dist(c.w, c.e)
<1>4. /\ f \in Nat /\ t \in Nat /\ f \in 0 .. CUINT - 1 /\ Dist(c.r, c.e) = f + t
      /\ c.w = Plus(c.r, f)
  BY ConFacts, DistanceMoves DEF Between
<1>5. Ring(c.buf, c.r, f + t) = Ring(c.buf, c.r, f) \o Ring(c.buf, c.r + f, t)
  <2> HIDE DEF f, t
  <2>1. c.buf \in [Slot -> Char] /\ c.r \in Nat /\ f \in Nat /\ t \in Nat
    BY <1>4, ConFacts
  <2> QED
    BY <2>1, RingJoins
<1>6. Ring(c.buf, c.w, t) = Ring(c.buf, c.r + f, t)
  <2> HIDE DEF f, t
  <2>1. Ring(c.buf, Plus(c.r, f), t) = Ring(c.buf, c.r + f, t)
    BY <1>4, ConFacts, RingWraps
  <2> QED
    BY <1>4, <2>1
<1> QED
  BY <1>1, <1>2, <1>3, <1>4, <1>5, <1>6 DEF Finished, Typing

\* A stored character is the last one of the line, and the finished input stays.
LEMMA AddsLast ==
  ASSUME NEW c \in Con, Between(c), Dist(c.r, c.e) < INPUT_BUF_SIZE, NEW a \in Char,
         NEW n, n = [c EXCEPT !.buf = Stored(c.buf, c.e, a), !.e = Plus(c.e, 1)]
  PROVE  /\ n \in Con /\ Between(n) /\ Dist(n.r, n.e) = Dist(c.r, c.e) + 1
         /\ Finished(n) = Finished(c) /\ Typing(n) = Append(Typing(c), a)
<1>1. /\ n.e = Plus(c.e, 1) /\ n.w = c.w /\ n.r = c.r /\ n.buf = Stored(c.buf, c.e, a)
      /\ n.buf \in [Slot -> Char] /\ n \in Con
  <2>1. Stored(c.buf, c.e, a) \in [Slot -> Char]
    BY ConFacts, AtStored
  <2>2. Plus(c.e, 1) \in Count
    BY ConFacts, Counts
  <2> QED
    BY <2>1, <2>2 DEF Con
<1> DEFINE f == Dist(c.r, c.w)
           t == Dist(c.w, c.e)
           m == Dist(c.r, c.e)
<1>2. f \in Nat /\ t \in Nat /\ m = f + t /\ m < INPUT_BUF_SIZE
  BY ConFacts DEF Between
<1>3. Dist(n.w, n.e) = t + 1 /\ Dist(n.r, n.e) = m + 1
  BY <1>1, <1>2, ConFacts, DistanceMoves
<1>4. Between(n)
  <2>1. Dist(n.r, n.w) = f
    BY <1>1
  <2> HIDE DEF f, t, m
  <2>2. INPUT_BUF_SIZE \in Nat
    BY ConFacts
  <2> QED
    BY <1>2, <1>3, <2>1, <2>2 DEF Between
<1>5. \A i \in Count : Stored(c.buf, c.e, a) = Stored(c.buf, i + Dist(i, c.e), a)
  <2>1. ASSUME NEW i \in Count
        PROVE  Stored(c.buf, c.e, a) = Stored(c.buf, i + Dist(i, c.e), a)
    <3> DEFINE d == Dist(i, c.e)
    <3>1. d \in 0 .. CUINT - 1 /\ d \in Nat /\ Plus(i, d) = c.e /\ i \in Nat /\ c.e \in Nat
      BY ConFacts, Distance, DistanceMoves
    <3> HIDE DEF d
    <3>2. (Plus(i, d) + 0) % INPUT_BUF_SIZE = (i + d + 0) % INPUT_BUF_SIZE
      BY <3>1, SlotShift
    <3>3. c.e + 0 = c.e /\ i + d + 0 = i + d
      BY <3>1
    <3>4. c.e % INPUT_BUF_SIZE = (i + d) % INPUT_BUF_SIZE
      BY <3>1, <3>2, <3>3
    <3> QED
      BY <3>4 DEF Stored, d
  <2> QED
    BY <2>1
<1>6. Stored(c.buf, c.e, a) = Stored(c.buf, c.w + t, a)
  BY <1>5, ConFacts
<1>7. Stored(c.buf, c.e, a) = Stored(c.buf, c.r + m, a)
  BY <1>5, ConFacts
<1>8. Typing(n) = Append(Typing(c), a)
  <2>1. Ring(Stored(c.buf, c.w + t, a), c.w, t + 1) = Append(Ring(c.buf, c.w, t), a)
    <3> HIDE DEF f, t, m
    <3>1. /\ c.buf \in [Slot -> Char] /\ c.w \in Nat
          /\ t \in Nat /\ t < INPUT_BUF_SIZE
      BY <1>2, ConFacts
    <3> QED
      BY <3>1, RingAppends
  <2> QED
    BY <1>1, <1>3, <1>6, <2>1 DEF Typing
<1>9. Finished(n) = Finished(c)
  <2>1. f <= m /\ m \in Nat
    BY <1>2
  <2>2. Ring(Stored(c.buf, c.r + m, a), c.r, f) = Ring(c.buf, c.r, f)
    <3> HIDE DEF f, t, m
    <3>1. c.buf \in [Slot -> Char] /\ c.r \in Nat
      BY ConFacts
    <3> QED
      BY <1>2, <2>1, <3>1, RingKept
  <2> QED
    BY <1>1, <1>7, <2>2 DEF Finished
<1> QED
  BY <1>1, <1>3, <1>4, <1>8, <1>9

-----------------------------------------------------------------------------
(* The refinement of LineQueue *)

\* What a step does to the console.
Takes    == cons.r # cons.w /\ cons' = [cons EXCEPT !.r = Plus(@, 1)]
Erases   == cons.e # cons.w /\ cons' = [cons EXCEPT !.e = Plus(@, CUINT - 1)]
KillsAll == cons' = [cons EXCEPT !.e = cons.w]
Adds(a)  ==
  LET n == [cons EXCEPT !.buf = Stored(cons.buf, cons.e, a), !.e = Plus(cons.e, 1)] IN
  /\ Dist(cons.r, cons.e) < INPUT_BUF_SIZE
  /\ cons' = IF a \in Ends \/ Dist(n.r, n.e) = INPUT_BUF_SIZE THEN [n EXCEPT !.w = n.e] ELSE n

\* Storing a character adds it, or drops it when the buffer is full (console.c:
\* consoleintr).
LEMMA StoreAdds ==
  ASSUME InputTypes, NEW a \in Char, Store(a)
  PROVE  cons' = cons \/ Adds(a)
<1> DEFINE stored == [cons EXCEPT !.buf[cons.e % INPUT_BUF_SIZE] = a, !.e = Plus(@, 1)]
           n == [cons EXCEPT !.buf = Stored(cons.buf, cons.e, a), !.e = Plus(cons.e, 1)]
<1>1. stored = n
  BY DEF InputTypes, Stored
<1>2. n.r = cons.r /\ cons.r \in Count /\ cons.e \in Count
  BY DEF InputTypes
<1>3. CASE Full
  BY <1>3 DEF Store
<1>4. CASE ~Full
  <2>1. Dist(cons.r, cons.e) < INPUT_BUF_SIZE
    BY <1>2, <1>4, Distance, ConsoleAssumption DEF Full
  <2>2. cons' = IF a \in Ends \/ Dist(cons.r, stored.e) = INPUT_BUF_SIZE
                THEN [stored EXCEPT !.w = stored.e] ELSE stored
    BY <1>4 DEF Store
  <2> HIDE DEF stored
  <2>3. cons' = IF a \in Ends \/ Dist(n.r, n.e) = INPUT_BUF_SIZE
                THEN [n EXCEPT !.w = n.e] ELSE n
    <3> HIDE DEF n
    <3> QED
      BY <1>1, <1>2, <2>2
  <2> QED
    BY <2>1, <2>3 DEF Adds
<1> QED
  BY <1>3, <1>4

\* A received character edits the line, is added to it or does nothing (console.c:
\* consoleintr).
LEMMA ReceivedEdits ==
  ASSUME InputTypes, ConsoleIntr, uart.c \in Typed
  PROVE  cons' = cons \/ Erases \/ KillsAll \/ \E a \in Char : Adds(a)
<1>1. CASE uart.c = "kill"
  BY <1>1 DEF ConsoleIntr, KillsAll
<1>2. CASE uart.c = "erase"
  <2>1. cons' = [cons EXCEPT !.e = IF @ = cons.w THEN @ ELSE Plus(@, CUINT - 1)]
    BY <1>2 DEF ConsoleIntr
  <2>2. CASE cons.e = cons.w
    BY <2>1, <2>2 DEF InputTypes
  <2>3. CASE cons.e # cons.w
    BY <2>1, <2>3 DEF Erases
  <2> QED
    BY <2>2, <2>3
<1>3. CASE uart.c = "other"
  BY <1>3 DEF ConsoleIntr
<1>4. CASE uart.c = "cr"
  <2>1. Store("nl") /\ "nl" \in Char
    BY <1>4 DEF ConsoleIntr, Char, Ends
  <2> QED
    BY <2>1, StoreAdds
<1>5. CASE uart.c \in {"x", "eof"}
  <2>1. Store(uart.c) /\ uart.c \in Char
    BY <1>5 DEF ConsoleIntr, Char, Ordinary, Ends
  <2> QED
    BY <2>1, StoreAdds
<1> QED
  BY <1>1, <1>2, <1>3, <1>4, <1>5 DEF Typed, Ordinary

\* Only a reader that takes a character and the handler touch the buffer (console.c:
\* consoleread, consoleintr).
LEMMA ConsSteps ==
  ASSUME ConsoleInv, [ConsoleNext]_consoleVars
  PROVE  cons' = cons \/ Takes \/ Erases \/ KillsAll \/ \E a \in Char : Adds(a)
<1>1. InputTypes /\ uart.c \in Typed
  BY DEF ConsoleInv, ConsoleTypes, OutputTypes
<1>2. ASSUME NEW p \in Reader, TakeByte(p) PROVE cons' = cons \/ Takes
  <2>1. /\ cons.r # cons.w
        /\ \/ cons' = [cons EXCEPT !.r = cons.r]
           \/ cons' = [cons EXCEPT !.r = Plus(cons.r, 1)]
    BY <1>2 DEF TakeByte
  <2> QED
    BY <1>1, <2>1 DEF InputTypes, Takes
<1>3. ASSUME NEW p \in Reader, Reads(p), ~TakeByte(p) PROVE cons' = cons
  BY <1>3 DEF Reads, StartRead, FindsNothing, SleepRead, WokenRead, KillReader
<1>4. ASSUME NEW p \in Writer, Writes(p) PROVE cons' = cons
  BY <1>4 DEF Writes, StartWrite, SendByte, FindsBusy, KillWriter
<1>5. CASE ConsoleIntr
  BY <1>1, <1>5, ReceivedEdits
<1>6. CASE UartHandler /\ ~ConsoleIntr
  BY <1>6 DEF UartHandler, UartIntr, Transmitted, Received, EchoWaits, Echoes, IntrEnds
<1>7. CASE PrintWaits \/ Prints \/ Transmit \/ Type
  BY <1>7 DEF PrintWaits, Prints, Transmit, Type
<1>8. CASE UNCHANGED consoleVars
  BY <1>8 DEF consoleVars
<1> QED
  BY <1>2, <1>3, <1>4, <1>5, <1>6, <1>7, <1>8 DEF ConsoleNext

\* The record of the console, and the two ends of the queue it holds.
LineState == cons \in Con /\ Between(cons)
Mapped    == /\ Chars(cons.r, cons.w) = Finished(cons)
             /\ Chars(cons.w, cons.e) = Typing(cons)

LEMMA Mapping == InputTypes => Mapped
  BY CharsInRing DEF InputTypes, Mapped, Finished, Typing

\* Each of the changes keeps the indices in order and is an operation of the queue.
LEMMA StepRefines ==
  ASSUME LineState, Mapped, Mapped',
         cons' = cons \/ Takes \/ Erases \/ KillsAll \/ \E a \in Char : Adds(a)
  PROVE  Between(cons') /\ [Queue!LineNext]_(Queue!lineVars)
<1> DEFINE f == Finished(cons)
           t == Typing(cons)
<1> USE DEF LineState
<1>1. /\ Chars(cons.r, cons.w) = f /\ Chars(cons.w, cons.e) = t
      /\ Chars(cons.r, cons.w)' = Finished(cons') /\ Chars(cons.w, cons.e)' = Typing(cons')
  BY DEF Mapped
<1>2. CASE cons' = cons
  BY <1>1, <1>2 DEF Queue!lineVars
<1>3. CASE Takes
  <2>1. /\ Between(cons') /\ f # <<>>
        /\ Finished(cons') = Tail(f) /\ Typing(cons') = t
    BY <1>3, TakesFirst DEF Takes
  <2> QED
    BY <1>1, <2>1 DEF Queue!LineNext, Queue!Take
<1>4. CASE Erases
  <2>1. /\ Between(cons') /\ t # <<>> /\ Finished(cons') = f
        /\ Typing(cons') = SubSeq(t, 1, Len(t) - 1)
    BY <1>4, ErasesLast DEF Erases
  <2> QED
    BY <1>1, <2>1 DEF Queue!LineNext, Queue!Erase
<1>5. CASE KillsAll
  <2>1. Between(cons') /\ Typing(cons') = <<>> /\ Finished(cons') = f
    BY <1>5, KillsLine DEF KillsAll
  <2> QED
    BY <1>1, <2>1 DEF Queue!LineNext, Queue!EraseLine
<1>6. ASSUME NEW a \in Char, Adds(a)
      PROVE  Between(cons') /\ [Queue!LineNext]_(Queue!lineVars)
  <2> DEFINE n == [cons EXCEPT !.buf = Stored(cons.buf, cons.e, a), !.e = Plus(cons.e, 1)]
             full == a \in Ends \/ Dist(n.r, n.e) = INPUT_BUF_SIZE
             m == Dist(cons.r, cons.e)
  <2>1. m < INPUT_BUF_SIZE /\ cons' = IF full THEN [n EXCEPT !.w = n.e] ELSE n
    BY <1>6 DEF Adds
  <2>2. /\ n \in Con /\ Between(n) /\ Dist(n.r, n.e) = m + 1
        /\ Finished(n) = f /\ Typing(n) = Append(t, a)
    BY <2>1, AddsLast
  <2>3. Len(f) + Len(t) = m
    BY ConFacts DEF Between
  <2> HIDE DEF n, m
  <2>4. CASE full
    <3>1. Between(cons') /\ Typing(cons') = <<>> /\ Finished(cons') = f \o Append(t, a)
      BY <2>1, <2>2, <2>4, FinishesLine
    <3>2. a \in Ends \/ Len(f) + Len(t) + 1 = INPUT_BUF_SIZE
      BY <2>2, <2>3, <2>4
    <3>3. Queue!Put(a)
      BY <1>1, <2>1, <2>3, <3>1, <3>2 DEF Queue!Put
    <3> QED
      BY <3>1, <3>3 DEF Queue!LineNext, Char
  <2>5. CASE ~full
    <3>1. Between(cons') /\ Typing(cons') = Append(t, a) /\ Finished(cons') = f
      BY <2>1, <2>2, <2>5
    <3>2. ~(a \in Ends \/ Len(f) + Len(t) + 1 = INPUT_BUF_SIZE)
      BY <2>2, <2>3, <2>5
    <3>3. Queue!Put(a)
      BY <1>1, <2>1, <2>3, <3>1, <3>2 DEF Queue!Put
    <3> QED
      BY <3>1, <3>3 DEF Queue!LineNext, Char
  <2> QED
    BY <2>4, <2>5
<1> QED
  BY <1>2, <1>3, <1>4, <1>5, <1>6

\* The empty buffer is the empty queue.
LEMMA InitRefines == ConsoleInit => Queue!LineInit /\ Between(cons)
<1> SUFFICES ASSUME ConsoleInit PROVE Queue!LineInit /\ Between(cons)
  OBVIOUS
<1>1. /\ cons.r = 0 /\ cons.w = 0 /\ cons.e = 0 /\ cons.buf \in [Slot -> Char] /\ 0 \in Count
  BY InitConsole DEF ConsoleInit, ConsoleInv, ConsoleTypes, InputTypes, Char
<1>2. Dist(0, 0) = 0
  BY <1>1, DistanceMoves
<1>3. Between(cons)
  BY <1>1, <1>2, ConsoleAssumption DEF Between
<1>4. Finished(cons) = <<>> /\ Typing(cons) = <<>>
  BY <1>1, RingEmpty DEF Finished, Typing
<1>5. Mapped
  BY InitConsole, Mapping DEF ConsoleInv, ConsoleTypes
<1> QED
  BY <1>3, <1>4, <1>5 DEF Mapped, Queue!LineInit

\* The buffer with its three wrapping indices is a line being typed and a queue of
\* finished input, for any size of the buffer and any width of the indices: no character
\* is overwritten, lost or read twice, and editing never reaches finished input
\* (console.c: consoleread, consoleintr).
THEOREM ConsoleIsALineQueue == ConsoleSpec => ImplementsLineQueue
<1> DEFINE I == ConsoleInv /\ Between(cons)
<1>1. ConsoleInit => I
  BY InitConsole, InitRefines
<1>2. ASSUME I, [ConsoleNext]_consoleVars, ConsoleInv', Mapped, Mapped'
      PROVE  Between(cons') /\ [Queue!LineNext]_(Queue!lineVars)
  <2>1. LineState
    BY <1>2 DEF LineState, ConsoleInv, ConsoleTypes, InputTypes, Con, Char
  <2>2. cons' = cons \/ Takes \/ Erases \/ KillsAll \/ \E a \in Char : Adds(a)
    BY <1>2, ConsSteps
  <2> QED
    BY <1>2, <2>1, <2>2, StepRefines
<1>3. ConsoleInv => Mapped
  BY Mapping DEF ConsoleInv, ConsoleTypes
<1>4. ConsoleInit => Queue!LineInit
  BY InitRefines
<1>5. Between(cons)' <=> Between(cons')
  BY DEF Between
<1> HIDE DEF I
<1>6. I /\ [ConsoleNext]_consoleVars /\ ConsoleInv' /\ Mapped /\ Mapped'
      => I' /\ [Queue!LineNext]_(Queue!lineVars)
  BY <1>2, <1>5 DEF I
<1> QED
  BY <1>1, <1>3, <1>4, <1>6, ConsoleInvariant, PTL
     DEF ConsoleSpec, ImplementsLineQueue, Queue!LineSpec

=============================================================================

------------------------------ MODULE Console ------------------------------
(***************************************************************************)
(* The console: console.c, and the UART driver uart.c below it.  The       *)
(* interrupt handler edits the input line, echoes it, and sends what       *)
(* write() has buffered; read() and write() sleep for input and for room.  *)
(*                                                                         *)
(* The indices of the rings wrap around, as unsigned integers do.          *)
(***************************************************************************)
EXTENDS Naturals, Sequences, FiniteSets

CONSTANTS
  Readers,    \* processes that read() from the console
  Writers,    \* processes that write() to it
  Handler,    \* the interrupt handler of the UART
  Chars,      \* characters that are stored, Newline and Eof among them
  Newline, Eof,
  Backspace, KillKey,   \* control-H and control-U
  NoKey,      \* nothing typed
  INPUT_BUF_SIZE, UART_TX_BUF_SIZE,
  MaxN,       \* bytes that a read() asks for
  Wrap,       \* where the indices of the input ring wrap around
  TxWrap,     \* where those of the transmit buffer do
  Free        \* nobody

ASSUME ConsoleAssumption ==
  /\ {Newline, Eof} \subseteq Chars
  /\ {Backspace, KillKey, NoKey} \cap Chars = {}
  /\ Handler \notin Readers \cup Writers /\ Free \notin Readers \cup Writers \cup {Handler}
  /\ {INPUT_BUF_SIZE, UART_TX_BUF_SIZE, Wrap, TxWrap} \subseteq Nat \ {0}
  /\ Wrap % INPUT_BUF_SIZE = 0 /\ Wrap > INPUT_BUF_SIZE /\ TxWrap > UART_TX_BUF_SIZE /\ MaxN \in Nat

VARIABLES
  buf, r, w, e,     \* cons: the ring, and its read, write and edit index
  conslock,         \* who holds cons.lock
  rd,               \* readers: program point, bytes asked for and still to read
  txr, txw,         \* the transmit buffer
  txlock,           \* who holds uart_tx_lock
  out,              \* uartstart() has a byte that it is about to write to the UART
  wr,               \* writers: program point
  rx, thr, irq,     \* the UART: a key typed, bytes to send, interrupt raised
  h, echo           \* the handler: program point, bytes still to echo

input == <<buf, r, w, e>>
output == <<txr, txw, txlock, out, wr>>
consVars == <<buf, r, w, e, conslock, rd, txr, txw, txlock, out, wr, rx, thr, irq, h, echo>>

Plus(a, b) == (a + b) % Wrap
Minus(a, b) == (a + Wrap - b) % Wrap
Cell(a) == a % INPUT_BUF_SIZE

ConsInit ==
  /\ buf = [k \in 0..(INPUT_BUF_SIZE - 1) |-> Newline]
  /\ r = 0 /\ w = 0 /\ e = 0 /\ conslock = Free
  /\ rd = [p \in Readers |-> [pc |-> "user", target |-> 0, n |-> 0]]
  /\ txr = 0 /\ txw = 0 /\ txlock = Free /\ out = FALSE
  /\ wr = [p \in Writers |-> "user"]
  /\ rx = NoKey /\ thr = 0 /\ irq = FALSE
  /\ h = "idle" /\ echo = 0

-----------------------------------------------------------------------------
(* consoleread() *)

ReadCall(p) ==
  \E n \in 1..MaxN :
    /\ rd[p].pc = "user"
    /\ rd' = [rd EXCEPT ![p] = [pc |-> "read", target |-> n, n |-> n]]
    /\ UNCHANGED <<input, conslock, output, rx, thr, irq, h, echo>>

\* The lock is kept from one byte to the next.
Reading(p) == rd[p].pc = "read" /\ conslock \in {Free, p}
ReadReturn(p) == rd' = [rd EXCEPT ![p] = [pc |-> "user", target |-> 0, n |-> 0]] /\ conslock' = Free

ReadSleep(p) ==
  /\ Reading(p) /\ r = w
  /\ rd' = [rd EXCEPT ![p].pc = "asleep"]
  /\ conslock' = Free
  /\ UNCHANGED <<input, output, rx, thr, irq, h, echo>>

\* kill() wakes a sleeper; one that finds itself killed returns.
ReadKilled(p) ==
  /\ \/ rd[p].pc = "asleep" /\ rd' = [rd EXCEPT ![p].pc = "read"] /\ UNCHANGED conslock
     \/ Reading(p) /\ r = w /\ ReadReturn(p)
  /\ UNCHANGED <<input, output, rx, thr, irq, h, echo>>

\* End of file ends the read; it stays for the next one if this one has bytes to return.
ReadEof(p) ==
  /\ Reading(p) /\ r # w /\ buf[Cell(r)] = Eof
  /\ r' = IF rd[p].n < rd[p].target THEN r ELSE Plus(r, 1)
  /\ ReadReturn(p)
  /\ UNCHANGED <<buf, w, e, output, rx, thr, irq, h, echo>>

\* A byte goes to the user; the last one asked for, a newline or a bad address ends
\* the read.
ReadByte(p) ==
  /\ Reading(p) /\ r # w /\ buf[Cell(r)] # Eof
  /\ r' = Plus(r, 1)
  /\ \/ ReadReturn(p)
     \/ /\ buf[Cell(r)] # Newline /\ rd[p].n > 1
        /\ rd' = [rd EXCEPT ![p].n = @ - 1] /\ conslock' = p
  /\ UNCHANGED <<buf, w, e, output, rx, thr, irq, h, echo>>

-----------------------------------------------------------------------------
(* uartputc(), for consolewrite(), and uartstart() *)

TxFull == txw = (txr + UART_TX_BUF_SIZE) % TxWrap

WriteCall(p) ==
  /\ wr[p] = "user" /\ wr' = [wr EXCEPT ![p] = "putc"]
  /\ UNCHANGED <<input, conslock, rd, txr, txw, txlock, out, rx, thr, irq, h, echo>>

WriteSleep(p) ==
  /\ wr[p] = "putc" /\ txlock = Free /\ TxFull
  /\ wr' = [wr EXCEPT ![p] = "asleep"]
  /\ UNCHANGED <<input, conslock, rd, txr, txw, txlock, out, rx, thr, irq, h, echo>>

WriteStore(p) ==
  /\ wr[p] = "putc" /\ txlock = Free /\ ~TxFull
  /\ txw' = (txw + 1) % TxWrap
  /\ txlock' = p
  /\ wr' = [wr EXCEPT ![p] = "start"]
  /\ UNCHANGED <<input, conslock, rd, txr, out, rx, thr, irq, h, echo>>

Wake(S, pc) == [p \in DOMAIN S |-> IF S[p] = "asleep" THEN pc ELSE S[p]]

\* uartstart(), called by a writer or by the handler: the register has shown the UART to be
\* idle, and the next byte leaves the buffer.
StartByteSilent(x) ==
  /\ txlock = x /\ ~out /\ txr # txw /\ thr = 0
  /\ txr' = (txr + 1) % TxWrap
  /\ out' = TRUE
  /\ UNCHANGED <<input, conslock, rd, txw, txlock, wr, rx, thr, irq, h, echo>>

StartByte(x) ==
  /\ txlock = x /\ ~out /\ txr # txw /\ thr = 0
  /\ txr' = (txr + 1) % TxWrap
  /\ wr' = Wake(wr, "putc")
  /\ out' = TRUE
  /\ UNCHANGED <<input, conslock, rd, txw, txlock, rx, thr, irq, h, echo>>

\* By now an echo may have gone to the UART too.  Its FIFO takes both.
SendByte(x) ==
  /\ txlock = x /\ out
  /\ thr' = thr + 1 /\ out' = FALSE
  /\ UNCHANGED <<input, conslock, rd, txr, txw, txlock, wr, rx, irq, h, echo>>

\* Nothing to send, or the UART is busy: it will interrupt.
StartEnd(x) ==
  /\ txlock = x /\ ~out /\ (txr = txw \/ thr > 0)
  /\ txlock' = Free
  /\ IF x = Handler THEN h' = "idle" /\ UNCHANGED wr
                    ELSE wr' = [wr EXCEPT ![x] = "user"] /\ UNCHANGED h
  /\ UNCHANGED <<input, conslock, rd, txr, txw, out, rx, thr, irq, echo>>

-----------------------------------------------------------------------------
(* The UART, and uartintr() *)

\* A key arrives; the UART has sent a byte.  Both raise an interrupt.
KeyTyped ==
  \E c \in Chars \cup {Backspace, KillKey} :
    /\ rx = NoKey /\ rx' = c /\ irq' = TRUE
    /\ UNCHANGED <<input, conslock, rd, output, thr, h, echo>>

Sent ==
  /\ thr > 0 /\ thr' = thr - 1
  /\ irq' = (irq \/ thr = 1)
  /\ UNCHANGED <<input, conslock, rd, output, rx, h, echo>>

Interrupt ==
  /\ irq /\ h = "idle"
  /\ irq' = FALSE /\ h' = "input"
  /\ UNCHANGED <<input, conslock, rd, output, rx, thr, echo>>

\* consoleintr() on the key that uartgetc() returns; the lock is kept for the echo.
Key(keys, bytes) ==
  /\ h = "input" /\ rx \in keys /\ conslock = Free
  /\ conslock' = Handler /\ rx' = NoKey /\ h' = "echo" /\ echo' = bytes
  /\ UNCHANGED <<output, thr, irq>>

\* A character is stored if there is room.  The line is complete at its end, and
\* when the ring is full: nobody could read otherwise.
Complete(c) == c \in {Newline, Eof} \/ Minus(e, r) = INPUT_BUF_SIZE - 1

KeyStore ==
  /\ Minus(e, r) < INPUT_BUF_SIZE
  /\ Key(Chars, 1)
  /\ buf' = [buf EXCEPT ![Cell(e)] = rx]
  /\ e' = Plus(e, 1)
  /\ IF Complete(rx)
     THEN w' = e' /\ rd' = [p \in Readers |-> IF rd[p].pc = "asleep"
                                              THEN [rd[p] EXCEPT !.pc = "read"] ELSE rd[p]]
     ELSE UNCHANGED <<w, rd>>
  /\ UNCHANGED r

KeyLost == Minus(e, r) = INPUT_BUF_SIZE /\ Key(Chars, 0) /\ UNCHANGED <<input, rd>>

\* Only what is not yet complete can be erased.
ErasableFromRead == e # r
Erasable == e # w

KeyErase ==
  /\ Key({Backspace}, IF Erasable THEN 1 ELSE 0)
  /\ e' = IF Erasable THEN Minus(e, 1) ELSE e
  /\ UNCHANGED <<buf, r, w, rd>>

\* Back to the write index or to a newline, whichever comes first.
KeyKill ==
  LET Stops(k) == k = Minus(e, w) \/ buf[Cell(Minus(e, k + 1))] = Newline
      k == CHOOSE k \in 0..Minus(e, w) : Stops(k) /\ \A j \in 0..(k - 1) : ~Stops(j)
  IN
  /\ Key({KillKey}, k)
  /\ e' = Minus(e, k)
  /\ UNCHANGED <<buf, r, w, rd>>

\* uartputc_sync() waits for the UART to be idle, and then writes to it.  It takes no lock:
\* uartstart() may have written, or be about to write, a byte of its own.
EchoLook ==
  /\ h = "echo" /\ echo > 0 /\ thr = 0
  /\ h' = "put"
  /\ UNCHANGED <<input, conslock, rd, output, rx, thr, irq, echo>>

EchoByte ==
  /\ h = "put"
  /\ h' = "echo" /\ thr' = thr + 1 /\ echo' = echo - 1
  /\ UNCHANGED <<input, conslock, rd, output, rx, irq>>

EchoEnd ==
  /\ h = "echo" /\ echo = 0
  /\ conslock' = Free /\ h' = "input"
  /\ UNCHANGED <<input, rd, output, rx, thr, irq, echo>>

\* No key is left: uartintr() goes on to uartstart().
TxLock ==
  /\ h = "input" /\ rx = NoKey /\ txlock = Free
  /\ txlock' = Handler /\ h' = "start"
  /\ UNCHANGED <<input, conslock, rd, txr, txw, out, wr, rx, thr, irq, echo>>

ConsNext ==
  \/ \E p \in Readers :
       ReadCall(p) \/ ReadSleep(p) \/ ReadKilled(p) \/ ReadEof(p) \/ ReadByte(p)
  \/ \E p \in Writers : WriteCall(p) \/ WriteSleep(p) \/ WriteStore(p)
  \/ \E x \in Writers \cup {Handler} : StartByte(x) \/ SendByte(x) \/ StartEnd(x)
  \/ KeyTyped \/ Sent \/ Interrupt
  \/ KeyStore \/ KeyLost \/ KeyErase \/ KeyKill \/ EchoLook \/ EchoByte \/ EchoEnd \/ TxLock

ConsSpec == ConsInit /\ [][ConsNext]_consVars

-----------------------------------------------------------------------------
(* Properties *)

\* What lies in the ring between two indices.
Between(a, b) == [k \in 1..Minus(b, a) |-> buf[Cell(Plus(a, k - 1))]]

Abstract == INSTANCE Tty WITH
  input <- Between(r, w), line <- Between(w, e), Room <- INPUT_BUF_SIZE

\* The ring and its three indices, over wrap-around, are an edited line and a queue of
\* complete input: readers get what was typed in order, and nothing that is complete
\* is erased, overwritten or dropped.
ImplementsTty == Abstract!TtySpec

\* Nobody sleeps in vain: a reader only while no line is complete, and a full ring
\* is readable; a writer only while the buffer is full; and while there is something
\* to send, the UART is busy, has raised its interrupt, or is being served.  The bytes
\* that uartstart() and uartputc_sync() send past one another are two at most, and the
\* FIFO of the UART takes them.
ConsoleAwake ==
  /\ \A p \in Readers : rd[p].pc = "asleep" => r = w
  /\ Minus(e, r) = INPUT_BUF_SIZE => r # w
  /\ \A p \in Writers : wr[p] = "asleep" => TxFull
  /\ txr # txw /\ txlock = Free => thr > 0 \/ irq \/ h # "idle"
  /\ thr <= 2

=============================================================================

--------------------------------- MODULE Tty ---------------------------------
(***************************************************************************)
(* A terminal on a serial line: the interrupt that receives a character    *)
(* and edits the line, the one that transmits, a task that reads and one   *)
(* that writes, and ioctl.  A queue of characters is a sequence of less    *)
(* than TTY_BUF_SIZE; of the output only the number of characters is kept. *)
(***************************************************************************)
EXTENDS Naturals, Sequences, SequencesExt

CONSTANTS TTY_BUF_SIZE,
          Typed,       \* characters that come in
          Termios,     \* settings: canon, echo, isig, min and time
          ReadSizes, WriteSizes,
          ROOM,        \* room below which an unfinished line is read (20)
          MaxEvents    \* characters typed and calls made

VARIABLES termios, read_q, secondary,
          data,        \* secondary.data: ends of lines in the queue
          write_q,     \* characters waiting to be sent
          armed,       \* transmit interrupts are on
          signal,      \* the reader has a signal: none, alarm or other
          alarm,       \* whose alarm the reader's is: its own, or the one for VTIME
          reader, writer, events, windows

vars == <<termios, read_q, secondary, data, write_q, armed, signal, alarm, reader, writer, events, windows>>
input  == <<read_q, secondary, data>>
output == <<write_q, armed>>

ReaderIdle == [pc |-> "idle", nr |-> 0, got |-> 0, flag |-> FALSE, c |-> "none"]
WriterIdle == [pc |-> "idle", nr |-> 0]

Init ==
    /\ termios \in Termios
    /\ read_q = <<>> /\ secondary = <<>> /\ data = 0
    /\ write_q = 0 /\ armed = FALSE
    /\ signal = "none" /\ alarm = "own"
    /\ reader = ReaderIdle /\ writer = WriterIdle /\ events = 0 /\ windows = {}

Live == windows = {}
Event == windows = {} /\ events < MaxEvents /\ events' = events + 1

\* INC, DEC, EMPTY, LEFT and FULL, for queues as sequences and as counts.
LEFT(n) == TTY_BUF_SIZE - 1 - n
FULL(n) == LEFT(n) = 0
LineEnds == {"nl", "eof"}

\* PUTCH to a full queue makes it look empty.
PUTCH(n, k) == IF n + k >= TTY_BUF_SIZE THEN (n + k) % TTY_BUF_SIZE ELSE n + k

------------------------------------------------------------------------------
\* Line editing removes characters up to the last end of a line.
Erasable(s) == s # <<>> /\ Last(s) \notin LineEnds
LineLen(s) == IF \E k \in DOMAIN s : s[k] \in LineEnds
              THEN Len(s) - (CHOOSE k \in DOMAIN s : s[k] \in LineEnds /\
                                \A j \in k + 1 .. Len(s) : s[j] \notin LineEnds)
              ELSE Len(s)

\* Characters echoed for one that goes into the queue.
Echoed(c) == CASE c = "nl" -> 2 [] c = "eof" -> 0 [] OTHER -> 1

Echo(q, k) == IF termios.echo THEN [q EXCEPT !.out = PUTCH(@, k), !.lost = @ \/ q.out + k >= TTY_BUF_SIZE] ELSE q

\* Faulty: an erased line end is not looked for.
Cook_erase(q, c) ==
    CASE termios.canon /\ c = "erase" -> IF q.cooked = <<>> THEN q ELSE [q EXCEPT !.cooked = Front(@)]
      [] OTHER -> [q EXCEPT !.cooked = Append(@, c), !.data = @ + (IF c \in LineEnds THEN 1 ELSE 0)]

\* copy_to_cooked for one character, on the queues as a record.
Cook(q, c) ==
    CASE termios.canon /\ c = "kill"  ->
           Echo([q EXCEPT !.cooked = SubSeq(@, 1, Len(@) - LineLen(@))], LineLen(q.cooked))
      [] termios.canon /\ c = "erase" ->
           IF Erasable(q.cooked) THEN Echo([q EXCEPT !.cooked = Front(@)], 1) ELSE q
      [] termios.isig /\ c = "intr"   -> [q EXCEPT !.intr = TRUE]
      [] OTHER -> Echo([q EXCEPT !.cooked = Append(@, c),
                                 !.data = @ + (IF c \in LineEnds THEN 1 ELSE 0)], Echoed(c))

\* copy_to_cooked takes characters while secondary has room.
copy_to_cooked(typed) ==
    FoldLeft(LAMBDA q, c : IF FULL(Len(q.cooked)) THEN [q EXCEPT !.raw = Append(@, c)] ELSE Cook(q, c),
             [raw |-> <<>>, cooked |-> secondary, data |-> data, out |-> write_q,
              intr |-> FALSE, lost |-> FALSE], typed)

\* read_char and do_tty_interrupt: a character is dropped when read_q is full.
\* The reader may be between reading a character and moving the tail, and the
\* character it has read may be erased under it.
do_tty_interrupt(c) ==
    LET typed == IF FULL(Len(read_q)) THEN read_q ELSE Append(read_q, c)
        q == copy_to_cooked(typed) IN
    /\ Event
    /\ read_q' = q.raw /\ secondary' = q.cooked /\ data' = q.data /\ write_q' = q.out
    /\ armed' = (armed \/ (termios.echo /\ q.out > 0))
    /\ signal' = IF q.intr THEN "other" ELSE signal
    /\ reader' = IF reader.pc = "sleep" THEN [reader EXCEPT !.pc = "loop"] ELSE reader
    /\ windows' = {w \in {"echo"} : q.lost} \cup {w \in {"torn"} : reader.pc = "get" /\ q.cooked = <<>>}
    /\ UNCHANGED <<termios, alarm, writer>>

------------------------------------------------------------------------------
Minimum(nr) == LET m == IF termios.time /\ termios.min = 0 THEN 1 ELSE termios.min IN
               IF m > nr THEN nr ELSE m

\* tty_read to its loop: VTIME without VMIN sets the alarm,
\* unless the task's own comes first.
tty_read(nr) ==
    /\ Event /\ reader.pc = "idle"
    /\ \E timed \in {termios.time /\ termios.min = 0, FALSE} :
       /\ reader' = [ReaderIdle EXCEPT !.pc = "loop", !.nr = nr, !.flag = timed]
       /\ alarm' = IF timed THEN "line" ELSE "own"
    /\ UNCHANGED <<termios, input, output, signal, writer, windows>>

\* tty_read gives the alarm back and returns.
ReadReturn == reader' = ReaderIdle /\ alarm' = "own"

\* The head of tty_read's loop: a signal ends it; nothing to read, or no full
\* line, sends it to sleep, but sleep_if_empty sleeps only when the queue is
\* empty.
tty_read_loop ==
    /\ Live /\ reader.pc = "loop"
    /\ IF signal # "none"
       THEN /\ ReadReturn
            /\ signal' = IF reader.flag /\ signal = "alarm" THEN "none" ELSE signal
       ELSE /\ reader' = [reader EXCEPT !.pc =
                  CASE secondary = <<>> -> "sleep"
                    [] secondary # <<>> /\ termios.canon /\ data = 0 /\ LEFT(Len(secondary)) > ROOM -> "loop"
                    [] OTHER -> "get",
                  !.c = IF secondary = <<>> THEN "none" ELSE Head(secondary)]
            /\ UNCHANGED <<signal, alarm>>
    /\ UNCHANGED <<events, termios, input, output, writer, windows>>

\* secondary.data after c was taken; it is unsigned.
Taken(c) == IF c \in LineEnds /\ data > 0 THEN data - 1 ELSE data

\* tty_read takes the character it has read.  An EOF ends the call at once, with
\* the alarm as it is.
tty_read_get ==
    /\ Live /\ reader.pc = "get"
    /\ LET c == Head(secondary)
           left == [reader EXCEPT !.nr = @ - 1, !.got = @ + 1, !.c = "none"]
           over == reader.nr = 1 \/ Len(secondary) = 1
           again == IF termios.time /\ ~termios.canon THEN [left EXCEPT !.flag = TRUE] ELSE left IN
       /\ secondary' = Tail(secondary) /\ data' = Taken(c)
       /\ CASE c = "eof" /\ termios.canon ->
                 /\ reader' = ReaderIdle /\ UNCHANGED alarm
                 /\ windows' = {w \in {"alarm"} : alarm # "own"}
            [] (c # "eof" \/ ~termios.canon) /\ ~over ->
                 /\ reader' = [left EXCEPT !.c = secondary[2]] /\ UNCHANGED <<alarm, windows>>
            [] (c # "eof" \/ ~termios.canon) /\ over ->
                 /\ IF left.nr = 0 \/ termios.canon \/ left.got >= Minimum(left.nr + left.got) THEN ReadReturn
                    ELSE /\ reader' = [again EXCEPT !.pc = "loop"]
                         /\ alarm' = IF again.flag THEN "line" ELSE "own"
                 /\ UNCHANGED windows
    /\ UNCHANGED <<events, termios, read_q, output, signal, writer>>

\* The alarm of VTIME goes off; a signal ends interruptible_sleep_on.
alarm_signal ==
    /\ Live /\ alarm = "line" /\ signal = "none" /\ reader.pc # "idle"
    /\ signal' = "alarm"
    /\ reader' = IF reader.pc = "sleep" THEN [reader EXCEPT !.pc = "loop"] ELSE reader
    /\ UNCHANGED <<events, termios, input, output, alarm, writer, windows>>

\* The reader's handler has run.
do_signal ==
    /\ Live /\ reader.pc = "idle" /\ signal # "none" /\ signal' = "none"
    /\ UNCHANGED <<events, termios, input, output, alarm, reader, writer, windows>>

------------------------------------------------------------------------------
\* tty_write; the writer is a task of its own.
tty_write(nr) ==
    /\ Event /\ writer.pc = "idle"
    /\ writer' = [pc |-> "loop", nr |-> nr]
    /\ UNCHANGED <<termios, input, output, signal, alarm, reader, windows>>

Min2(a, b) == IF a < b THEN a ELSE b

\* sleep_if_full, then characters as long as there is room, and rs_write.
tty_write_loop ==
    /\ Live /\ writer.pc = "loop"
    /\ LET k == Min2(writer.nr, LEFT(write_q)) IN
       IF k = 0 THEN writer' = [writer EXCEPT !.pc = "sleep"] /\ UNCHANGED output
       ELSE /\ write_q' = write_q + k /\ armed' = TRUE
            /\ writer' = IF k = writer.nr THEN WriterIdle ELSE [writer EXCEPT !.nr = @ - k]
    /\ UNCHANGED <<events, termios, input, signal, alarm, reader, windows>>

\* Faulty: write_buffer_empty does not wake.
Wakes_late(n, left) == n > 0 /\ n <= TTY_BUF_SIZE \div 4

\* write_char wakes the writer when few characters are left, and write_buffer_empty
\* when none is.
Wakes(n, left) == n <= TTY_BUF_SIZE \div 4 \/ left = 0

\* write_char: one character is sent; the interrupt is turned off with the last.
write_char ==
    /\ Live /\ armed
    /\ write_q' = IF write_q = 0 THEN 0 ELSE write_q - 1
    /\ armed' = (write_q > 1)
    /\ writer' = IF writer.pc = "sleep" /\ Wakes(write_q, write_q') THEN [writer EXCEPT !.pc = "loop"] ELSE writer
    /\ UNCHANGED <<events, termios, input, signal, alarm, reader, windows>>

\* tty_ioctl: new settings, with the input flushed or not, and TCFLSH.
set_termios(new, flush) ==
    /\ Event /\ termios' = new
    /\ read_q' = IF flush THEN <<>> ELSE read_q
    /\ UNCHANGED <<secondary, data, output, signal, alarm, reader, writer, windows>>

TCFLSH(arg) ==
    /\ Event
    /\ read_q' = IF arg \in {0, 2} THEN <<>> ELSE read_q
    /\ write_q' = IF arg \in {1, 2} THEN 0 ELSE write_q
    /\ UNCHANGED <<termios, secondary, data, armed, signal, alarm, reader, writer, windows>>

Next ==
    \/ \E c \in Typed : do_tty_interrupt(c)
    \/ \E nr \in ReadSizes : tty_read(nr)
    \/ \E nr \in WriteSizes : tty_write(nr)
    \/ tty_read_loop \/ tty_read_get \/ alarm_signal \/ do_signal \/ tty_write_loop \/ write_char
    \/ \E new \in Termios, flush \in BOOLEAN : set_termios(new, flush)
    \/ \E arg \in 0 .. 2 : TCFLSH(arg)

\* The tasks run and the line transmits.
Fairness == WF_vars(tty_read_loop \/ tty_read_get) /\ WF_vars(tty_write_loop) /\ WF_vars(write_char)
Spec == Init /\ [][Next]_vars /\ Fairness
------------------------------------------------------------------------------
\* secondary.data is the number of line ends in the queue, which tty_read relies
\* on to tell a full line from an unfinished one, although the interrupt edits
\* the line that is being read; and tty_read leaves the alarm of the task as it
\* was, except when a canonical read with VTIME ends at an EOF.
LinesCounted ==
    Live => /\ data = Len(SelectSeq(secondary, LAMBDA c : c \in LineEnds))
            /\ reader.pc = "idle" => alarm = "own"
            /\ write_q > 0 => armed

\* A reader with a full line in the queue gets it or is interrupted, and a writer
\* that waits for room goes on: the last character sent, at the latest, wakes it,
\* also when the output was flushed in between.
TtyServed ==
    /\ (Live /\ reader.pc # "idle" /\ data > 0) ~> (~Live \/ reader.pc = "idle" \/ data = 0)
    /\ (Live /\ writer.pc = "sleep") ~> (~Live \/ writer.pc # "sleep")
==============================================================================

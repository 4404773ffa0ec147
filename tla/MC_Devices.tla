------------------------------ MODULE MC_Devices ------------------------------
(***************************************************************************)
(* The request queue with the hard disk driver, or a terminal line: a      *)
(* behaviour is one of the part that was chosen at the start.              *)
(***************************************************************************)
EXTENDS BlockDev

VARIABLES part,
          termios, read_q, secondary, data, write_q, armed, signal, alarm, reader, writer, events, windows

\* A line in canonical mode, one with a time limit, and a raw one.
ThreeTermios ==
    {[canon |-> TRUE, echo |-> TRUE, isig |-> TRUE, min |-> 1, time |-> FALSE],
     [canon |-> TRUE, echo |-> FALSE, isig |-> TRUE, min |-> 0, time |-> TRUE],
     [canon |-> FALSE, echo |-> FALSE, isig |-> FALSE, min |-> 2, time |-> FALSE]}

Line == INSTANCE Tty WITH
    TTY_BUF_SIZE <- 4, Typed <- {"a", "nl", "eof", "erase", "kill", "intr"}, Termios <- ThreeTermios,
    ReadSizes <- {1, 3}, WriteSizes <- {1, 4}, ROOM <- 1, MaxEvents <- 4

ttyvars == <<termios, read_q, secondary, data, write_q, armed, signal, alarm, reader, writer, events, windows>>
all     == <<part, vars, ttyvars>>

MCInit ==
    /\ part \in {"hd", "tty"} /\ Init /\ Line!Init
    /\ part # "tty" => ~termios.canon

HdOnly  == part = "hd" /\ UNCHANGED <<part, ttyvars>>
TtyOnly == part = "tty" /\ UNCHANGED <<part, vars>>

\* What is typed is bounded; the hard disk goes on.
MCNext ==
    \/ HdOnly /\ Next
    \/ TtyOnly /\ Line!Next
    \/ TtyOnly /\ UNCHANGED ttyvars

\* The fairness of FairSpec and of Tty's Spec.
MCSpec ==
    /\ MCInit /\ [][MCNext]_all
    /\ WF_all(HdOnly /\ hd_interrupt)
    /\ WF_all(TtyOnly /\ (Line!tty_read_loop \/ Line!tty_read_get))
    /\ WF_all(TtyOnly /\ Line!tty_write_loop) /\ WF_all(TtyOnly /\ Line!write_char)

\* secondary.data counts the lines that tty_read may take, and tty_read leaves the
\* task's alarm as it was (tty_io.c), but for the races listed in windows.
LinesCounted == part = "tty" => Line!LinesCounted

\* Readers of a full line and writers that wait for room are served (tty_io.c).
TtyServed == Line!TtyServed
==============================================================================

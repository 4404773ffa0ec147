------------------------------ MODULE MC_Floppy ------------------------------
(***************************************************************************)
(* The floppy driver, or the console: a behaviour is one of the part that  *)
(* was chosen at the start.                                                *)
(***************************************************************************)
EXTENDS Floppy

VARIABLES part, con, parser, ops, half, torn

Screen == INSTANCE Console WITH
    Columns <- 2, Lines <- 3, TAB <- 2, EGARows <- 4, NPAR <- 2, Digits <- {2, 3}, MaxOps <- 5

screen == <<con, parser, ops, half, torn>>
all    == <<part, vars, screen>>

\* The heads of the floppies start away from track 0.
MCInit == part \in {"floppy", "console"} /\ Init /\ Screen!Init /\ head_at = [d \in Drives |-> 1]

FloppyOnly == part = "floppy" /\ UNCHANGED <<part, screen>>

\* Requests and operations are bounded, so both may come to rest.
MCNext ==
    \/ FloppyOnly /\ Next
    \/ part = "console" /\ Screen!Next /\ UNCHANGED <<part, vars>>

\* The fairness of Floppy's Spec.
MCSpec ==
    /\ MCInit /\ [][MCNext]_all
    /\ WF_all(FloppyOnly /\ Driver)
    /\ \A d \in Drives : WF_all(/\ FloppyOnly /\ motor[d] \in {"starting", "settling"}
                                /\ do_floppy_timer(d))

\* The screen is the part of video memory that origin, pos, x and y describe, and
\* nothing is stored outside of it (console.c).
ScreenSound == part = "console" => Screen!ScreenSound
==============================================================================

-------------------------------- MODULE Timers --------------------------------
(***************************************************************************)
(* The kernel's timer list: entries in the order in which they expire,     *)
(* each with the ticks that come after the one before it.                  *)
(***************************************************************************)
EXTENDS Integers, Sequences, Functions

CONSTANTS TIME_REQUESTS,
          Delays       \* ticks that timers are set to

VARIABLES timer_list,  \* a sequence of [jiffies, left]; left is the delay still to go
          early        \* history: some timer has expired before its time

vars == <<timer_list, early>>

Init == timer_list = <<>> /\ early = FALSE

Ticks(s) == FoldFunction(+, 0, [k \in DOMAIN s |-> s[k].jiffies])

\* The entries that a new timer of n ticks goes behind: those whose own count,
\* one after the other, is below what is left of its ticks.
Before(n) ==
    CHOOSE k \in 0 .. Len(timer_list) :
        /\ \A j \in 1 .. k : timer_list[j].jiffies < n - Ticks(SubSeq(timer_list, 1, j - 1))
        /\ k < Len(timer_list) => timer_list[k + 1].jiffies >= n - Ticks(SubSeq(timer_list, 1, k))

\* Faulty: a timer that comes first is not deducted from the one behind it, and
\* one that comes later counts from now.
Inserted_absolute(n) ==
    SubSeq(timer_list, 1, Before(n)) \o <<[jiffies |-> n, left |-> n]>>
    \o SubSeq([k \in DOMAIN timer_list |-> [timer_list[k] EXCEPT !.jiffies = @ - n]], Before(n) + 1, Len(timer_list))

\* add_timer: the list with the new timer.  The entry behind the new one keeps
\* its count, so it and the later ones expire later than they were meant to.
Inserted(n) ==
    SubSeq(timer_list, 1, Before(n))
    \o <<[jiffies |-> n - Ticks(SubSeq(timer_list, 1, Before(n))), left |-> n]>>
    \o SubSeq(timer_list, Before(n) + 1, Len(timer_list))

\* add_timer panics when the table is full; a timer of no ticks is called at once.
add_timer(n) ==
    /\ Len(timer_list) < TIME_REQUESTS
    /\ timer_list' = Inserted(n)
    /\ UNCHANGED early

\* do_timer: a tick for the first entry; it and those that follow at once expire.
do_timer ==
    /\ timer_list # <<>>
    /\ LET ticked == [k \in DOMAIN timer_list |->
                        [jiffies |-> timer_list[k].jiffies - (IF k = 1 THEN 1 ELSE 0),
                         left |-> IF timer_list[k].left = 0 THEN 0 ELSE timer_list[k].left - 1]]
           over == CHOOSE k \in 0 .. Len(ticked) :
                       /\ \A j \in 1 .. k : ticked[j].jiffies <= 0
                       /\ k < Len(ticked) => ticked[k + 1].jiffies > 0 IN
       /\ timer_list' = SubSeq(ticked, over + 1, Len(ticked))
       /\ early' = (early \/ \E j \in 1 .. over : ticked[j].left > 0)

Next == do_timer \/ \E n \in Delays : add_timer(n)

Spec == Init /\ [][Next]_vars /\ WF_vars(do_timer)
------------------------------------------------------------------------------
\* No timer expires before its time, whatever timers are set while it waits; it
\* expires in the end when no more are set before it, as the ticks that the list
\* still counts down for it are never fewer than those it has to go.
TimersNotEarly ==
    /\ ~early
    /\ \A k \in DOMAIN timer_list :
          /\ Ticks(SubSeq(timer_list, 1, k)) >= timer_list[k].left
          /\ timer_list[k].jiffies >= 0
==============================================================================

-------------------------------- MODULE Floppy --------------------------------
(***************************************************************************)
(* The floppy driver: a state machine driven by controller interrupts and  *)
(* timers, the motors and the drive select register it shares with         *)
(* floppy_change, and the retries after an error.  A request is a drive    *)
(* and a track; the heads of the drives are modelled so that one can say   *)
(* where a transfer really happens.                                        *)
(***************************************************************************)
EXTENDS Naturals, Sequences

CONSTANTS Drives, Tracks, MAX_ERRORS,
          Checkers,      \* tasks that call floppy_change
          MaxRequests,   \* requests in all
          MaxFaults      \* failures of the controller or of the disks in all

VARIABLES fd,            \* the driver's own variables and the queue, as a record
          dor, selected, \* current_DOR & 3 and selected
          motor,         \* off, starting, settling after a select, or on
          moff_timer,    \* never, soon or now
          head_at,       \* the track each drive's head is on
          done,          \* requests taken so far
          faults, windows, checker

vars == <<fd, dor, selected, motor, moff_timer, head_at, done, faults, windows, checker>>

Init ==
    /\ fd = [queue |-> <<>>, do_floppy |-> "null", timer |-> "none", reset |-> FALSE,
             recalibrate |-> FALSE, seek |-> FALSE, current_drive |-> 0,
             seek_track |-> 0, current_track |-> 255]
    /\ dor = 0 /\ selected = FALSE
    /\ motor = [d \in Drives |-> "off"] /\ moff_timer = [d \in Drives |-> "now"]
    /\ head_at \in [Drives -> Tracks]
    /\ done = 0 /\ faults = 0 /\ windows = {}
    /\ checker = [t \in Checkers |-> [pc |-> "idle", nr |-> 0]]

Live == windows = {}

\* A failure, while the budget lasts.
Fault(failed) == IF failed THEN faults < MaxFaults /\ faults' = faults + 1 ELSE UNCHANGED faults

------------------------------------------------------------------------------
reset_floppy(f) == [f EXCEPT !.reset = FALSE, !.recalibrate = TRUE, !.do_floppy = "reset"]

\* Faulty: the interrupt that ends the recalibration is not expected.
recalibrate_floppy_unarmed(f, failed) ==
    [f EXCEPT !.recalibrate = FALSE, !.current_track = 0, !.do_floppy = "null"]

\* recalibrate_floppy; a command the controller does not take becomes a reset.
recalibrate_floppy(f, failed) ==
    LET g == [f EXCEPT !.recalibrate = FALSE, !.current_track = 0, !.do_floppy = "recal"] IN
    IF failed THEN reset_floppy(g) ELSE g

\* Faulty: the track is compared without the drive.
Begin_track(f) ==
    LET r == Head(f.queue) IN
    [f EXCEPT !.seek = r.track # f.current_track,
              !.current_drive = r.drive, !.seek_track = r.track, !.timer = "on"]

\* The rest of do_fd_request when there is a request.
Begin(f) ==
    LET r == Head(f.queue) IN
    [f EXCEPT !.seek = (f.current_drive # r.drive \/ r.track # f.current_track),
              !.current_drive = r.drive, !.seek_track = r.track, !.timer = "on"]

\* do_fd_request.
do_fd_request(f, failed) ==
    LET g == [f EXCEPT !.seek = FALSE] IN
    CASE g.reset                         -> reset_floppy(g)
      [] ~g.reset /\ g.recalibrate       -> recalibrate_floppy(g, failed)
      [] ~g.reset /\ ~g.recalibrate      -> IF g.queue = <<>> THEN g ELSE Begin(g)

\* mon_timer: a motor takes its time to start, and some when it is selected.
Started(m, reselected) ==
    CASE m = "off"                -> "starting"
      [] m = "on" /\ reselected   -> "settling"
      [] OTHER                    -> m

\* ticks_to_floppy_on of drive nr: the motor starts and, unless a transfer has
\* selected a drive, the drive is selected.
ticks_to_floppy_on(nr) ==
    /\ moff_timer' = [moff_timer EXCEPT ![nr] = "never"]
    /\ motor' = [motor EXCEPT ![nr] = Started(@, dor # nr /\ ~selected)]
    /\ dor' = IF selected THEN dor ELSE nr

\* do_fd_request ends with the motor of the drive it is going to use; the
\* variables of a request that has ended no longer matter.
Goes(f) ==
    /\ fd' = [f EXCEPT !.seek = @ /\ f.timer # "none"]
    /\ IF f.timer = "on" THEN ticks_to_floppy_on(f.current_drive)
       ELSE UNCHANGED <<dor, motor, moff_timer>>

\* add_request.  The driver may be busy with a recalibration or a reset although
\* its queue is empty.
add_request(d, tr) ==
    /\ Live /\ done < MaxRequests /\ done' = done + 1
    /\ LET f == [fd EXCEPT !.queue = Append(@, [drive |-> d, track |-> tr, errors |-> 0])] IN
       IF fd.queue # <<>>
       THEN fd' = f /\ UNCHANGED <<dor, motor, moff_timer, windows, faults>>
       ELSE /\ \E failed \in BOOLEAN : Fault(failed) /\ Goes(do_fd_request(f, failed))
            /\ windows' = {w \in {"busy"} : fd.do_floppy # "null" \/ fd.timer # "none"}
    /\ UNCHANGED <<selected, head_at, checker>>

\* end_request: the motor is to stop, and the queue moves on.
Ended(f) == [f EXCEPT !.queue = Tail(@)]

\* setup_rw_floppy; the command may not be taken.
setup_rw_floppy(f, failed) ==
    LET g == [f EXCEPT !.do_floppy = "rw"] IN IF failed THEN reset_floppy(g) ELSE g

\* transfer: the head is moved first when it has to be.
transfer(f, failed) ==
    LET g == [f EXCEPT !.timer = "none"] IN
    CASE g.reset               -> do_fd_request(g, failed)
      [] ~g.reset /\ ~g.seek   -> setup_rw_floppy(g, failed)
      [] ~g.reset /\ g.seek    -> IF failed THEN reset_floppy([g EXCEPT !.seek = FALSE])
                                  ELSE [g EXCEPT !.do_floppy = "seek"]

\* Faulty: the drive in the register is taken for the one of the request.
Select_not == UNCHANGED dor

\* floppy_on_interrupt forces the drive.
Select == dor' = fd.current_drive

\* The timer set by do_fd_request: the motor has had its time, but may have been
\* selected anew.
floppy_on_interrupt ==
    /\ Live /\ fd.timer = "on" /\ motor[fd.current_drive] \in {"settling", "on"}
    /\ selected' = TRUE /\ Select
    /\ \E failed \in BOOLEAN : Fault(failed) /\
          fd' = IF dor = fd.current_drive THEN transfer(fd, failed) ELSE [fd EXCEPT !.timer = "transfer"]
    /\ UNCHANGED <<motor, moff_timer, head_at, done, windows, checker>>

\* The timer set when another drive had to be selected.
transfer_timer ==
    /\ Live /\ fd.timer = "transfer"
    /\ \E failed \in BOOLEAN : Fault(failed) /\ Goes(transfer(fd, failed))
    /\ UNCHANGED <<selected, head_at, done, windows, checker>>

\* bad_flp_intr after end_request looks at the errors of the next request, or,
\* when there is none, at whatever is there.
bad_flp_intr(f, garbage) ==
    LET n == f.queue[1].errors + 1
        g == [f EXCEPT !.queue[1].errors = n]
        h == IF n > MAX_ERRORS THEN Ended(g) ELSE g
        high == IF h.queue = <<>> THEN garbage ELSE h.queue[1].errors * 2 > MAX_ERRORS IN
    IF high THEN [h EXCEPT !.reset = TRUE] ELSE [h EXCEPT !.recalibrate = TRUE]

GivesUp == fd.queue[1].errors + 1 > MAX_ERRORS

\* floppy_deselect and end_request's floppy_off.
Deselect(on) ==
    /\ selected' = IF on THEN FALSE ELSE selected
Soon(on) == IF on THEN [moff_timer EXCEPT ![fd.current_drive] = "soon"] ELSE moff_timer

\* A handler goes on with f; ended says that a request was ended.
Continue(f, ended) ==
    /\ Deselect(ended)
    /\ fd' = [f EXCEPT !.seek = @ /\ f.timer # "none"]
    /\ IF f.timer = "on"
       THEN /\ moff_timer' = [Soon(ended) EXCEPT ![f.current_drive] = "never"]
            /\ motor' = [motor EXCEPT ![f.current_drive] = Started(@, dor # f.current_drive /\ ~selected')]
            /\ dor' = IF selected' THEN dor ELSE f.current_drive
       ELSE moff_timer' = Soon(ended) /\ UNCHANGED <<motor, dor>>

Interrupt(handler) == Live /\ fd.do_floppy = handler
Acked == [fd EXCEPT !.do_floppy = "null"]

\* rw_interrupt: the transfer succeeded, failed, or the disk is write protected.
rw_interrupt ==
    /\ Interrupt("rw")
    /\ \E failed \in BOOLEAN :
          \/ faults' = faults /\ ~failed /\ Continue(do_fd_request(Ended(Acked), FALSE), TRUE)
          \/ Fault(TRUE) /\ ~failed /\ Continue(do_fd_request(Ended(Acked), FALSE), TRUE)
          \/ Fault(TRUE) /\ Continue(do_fd_request(bad_flp_intr(Acked, failed), FALSE), GivesUp)
    /\ UNCHANGED <<head_at, done, windows, checker>>

\* The head has moved, and seek_interrupt sees that it has, or that it has not.
seek_interrupt ==
    /\ Interrupt("seek")
    /\ \/ /\ head_at' = [head_at EXCEPT ![fd.current_drive] = fd.seek_track]
          /\ \E failed \in BOOLEAN : Fault(failed) /\
                fd' = setup_rw_floppy([Acked EXCEPT !.current_track = fd.seek_track, !.seek = FALSE], failed)
          /\ UNCHANGED <<dor, selected, motor, moff_timer>>
       \/ /\ \E at \in Tracks : head_at' = [head_at EXCEPT ![fd.current_drive] = at]
          /\ \E garbage \in BOOLEAN :
                Continue(do_fd_request(bad_flp_intr([Acked EXCEPT !.seek = FALSE], garbage), FALSE), GivesUp)
          /\ Fault(TRUE)
    /\ UNCHANGED <<done, windows, checker>>

\* recal_interrupt: the head is on track 0, or the controller is reset.
recal_interrupt ==
    /\ Interrupt("recal")
    /\ \/ /\ head_at' = [head_at EXCEPT ![fd.current_drive] = 0]
          /\ Continue(do_fd_request([Acked EXCEPT !.recalibrate = FALSE], FALSE), FALSE)
          /\ UNCHANGED faults
       \/ /\ Fault(TRUE) /\ UNCHANGED head_at
          /\ Continue(do_fd_request([Acked EXCEPT !.reset = TRUE], FALSE), FALSE)
    /\ UNCHANGED <<done, windows, checker>>

\* reset_interrupt.
reset_interrupt ==
    /\ Interrupt("reset")
    /\ \E failed \in BOOLEAN : Fault(failed) /\ Continue(do_fd_request(Acked, failed), FALSE)
    /\ UNCHANGED <<head_at, done, windows, checker>>

\* unexpected_floppy_interrupt.
unexpected_floppy_interrupt ==
    /\ Interrupt("null") /\ Fault(TRUE)
    /\ fd' \in {[fd EXCEPT !.recalibrate = TRUE], [fd EXCEPT !.reset = TRUE]}
    /\ UNCHANGED <<dor, selected, motor, moff_timer, head_at, done, windows, checker>>

------------------------------------------------------------------------------
\* do_floppy_timer for one drive: the motor has reached its speed, or stops.
do_floppy_timer(d) ==
    /\ Live /\ motor[d] # "off"
    /\ IF motor[d] \in {"starting", "settling"} THEN motor' = [motor EXCEPT ![d] = "on"] /\ UNCHANGED moff_timer
       ELSE /\ moff_timer[d] # "never"
            /\ IF moff_timer[d] = "now" THEN motor' = [motor EXCEPT ![d] = "off"] /\ UNCHANGED moff_timer
               ELSE moff_timer' = [moff_timer EXCEPT ![d] = "now"] /\ UNCHANGED motor
    /\ UNCHANGED <<fd, dor, selected, head_at, done, faults, windows, checker>>

\* floppy_change: floppy_on first, which sleeps until the motor runs.
floppy_change(t, nr) ==
    /\ Live /\ checker[t].pc # "select"
    /\ checker[t].pc # "idle" => nr = checker[t].nr
    /\ checker[t].pc = "sleep" => motor[nr] \notin {"starting", "settling"}
    /\ ticks_to_floppy_on(nr)
    /\ checker' = [checker EXCEPT ![t] = [pc |-> IF motor'[nr] = "on" THEN "select" ELSE "sleep", nr |-> nr]]
    /\ UNCHANGED <<fd, selected, head_at, done, faults, windows>>

\* It waits while a transfer has selected another drive and tries again, or
\* reads the line and calls floppy_off, which may cut short a request on the
\* same drive.
floppy_change_select(t) ==
    LET nr == checker[t].nr IN
    /\ Live /\ checker[t].pc = "select" /\ (dor = nr \/ ~selected)
    /\ IF dor # nr THEN checker' = [checker EXCEPT ![t].pc = "repeat"] /\ UNCHANGED <<moff_timer, windows>>
       ELSE /\ checker' = [checker EXCEPT ![t] = [pc |-> "idle", nr |-> 0]]
            /\ moff_timer' = [moff_timer EXCEPT ![nr] = "soon"]
            /\ windows' = {w \in {"off"} : fd.queue # <<>> /\ fd.current_drive = nr}
    /\ UNCHANGED <<fd, dor, selected, motor, head_at, done, faults>>

Driver == \/ floppy_on_interrupt \/ transfer_timer \/ rw_interrupt \/ seek_interrupt
          \/ recal_interrupt \/ reset_interrupt

Next ==
    \/ \E d \in Drives, tr \in Tracks : add_request(d, tr)
    \/ Driver \/ unexpected_floppy_interrupt
    \/ \E d \in Drives : do_floppy_timer(d)
    \/ \E t \in Checkers : floppy_change_select(t) \/ \E nr \in Drives : floppy_change(t, nr)

\* The controller answers, timers expire and motors start.
Fairness == WF_vars(Driver) /\ \A d \in Drives : WF_vars(motor[d] \in {"starting", "settling"} /\ do_floppy_timer(d))
Spec == Init /\ [][Next]_vars /\ Fairness
------------------------------------------------------------------------------
\* A transfer under way is on the drive of the request, which is selected and has
\* its motor on, and on the request's track, although the track is known for one
\* drive only and other tasks move the select register; unless a request came in
\* while the driver was recovering with an empty queue, or floppy_change stopped
\* the motor of the drive in use.
RightPlace ==
    Live /\ fd.do_floppy = "rw" =>
        /\ fd.queue # <<>> /\ fd.current_drive = Head(fd.queue).drive
        /\ dor = fd.current_drive /\ selected /\ motor[fd.current_drive] # "off"
        /\ head_at[fd.current_drive] = Head(fd.queue).track

\* Retries end: every request is ended, well or badly, when the controller stops
\* failing.
RequestsEnd == (fd.queue # <<>>) ~> (fd.queue = <<>> \/ ~Live)
==============================================================================

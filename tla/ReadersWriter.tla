---------------------------- MODULE ReadersWriter ----------------------------
(***************************************************************************)
(* What a read-write lock promises: any number of readers or one writer.   *)
(***************************************************************************)
CONSTANT Threads

VARIABLES readers, writers

Init == readers = {} /\ writers = {}

Read(t) ==
    /\ t \notin readers /\ writers = {}
    /\ readers' = readers \cup {t} /\ UNCHANGED writers

Write(t) ==
    /\ readers = {} /\ writers = {}
    /\ writers' = {t} /\ UNCHANGED readers

Release(t) ==
    \/ t \in readers /\ readers' = readers \ {t} /\ UNCHANGED writers
    \/ t \in writers /\ writers' = writers \ {t} /\ UNCHANGED readers

Next == \E t \in Threads : Read(t) \/ Write(t) \/ Release(t)

Spec == Init /\ [][Next]_<<readers, writers>>
==============================================================================

---------------------------- MODULE AddressSpaces ----------------------------
(***************************************************************************)
(* What the memory management promises to user programs: every task has a  *)
(* memory of its own.  Only the task itself changes it; a page comes into  *)
(* being filled with zeros or with the contents of the executable, a child *)
(* starts with a copy of its parent's memory, and exec begins a new one.   *)
(* How pages are shared behind this is not visible.                        *)
(***************************************************************************)
CONSTANTS Tasks, Addrs, FilePages, ArgPage, Execs, Values, Zero, Args, None

VARIABLES mem,        \* what a task reads at an address, None if nothing yet
          executable  \* the program it runs

vars == <<mem, executable>>

Nothing == [a \in Addrs |-> None]

NewImage == [Nothing EXCEPT ![ArgPage] = Args]

Fresh(t, a) == IF a \in FilePages /\ executable[t] # None THEN executable[t] ELSE Zero

Fill(t, a) ==
    /\ mem[t][a] = None
    /\ mem' = [mem EXCEPT ![t][a] = Fresh(t, a)]
    /\ UNCHANGED executable

Write(t, a) ==
    /\ mem[t][a] # None /\ mem'[t][a] \in Values
    /\ mem' = [mem EXCEPT ![t][a] = mem'[t][a]]
    /\ UNCHANGED executable

Fork(p, c) ==
    /\ mem[c] = Nothing /\ executable[c] = None
    /\ mem' = [mem EXCEPT ![c] = mem[p]]
    /\ executable' = [executable EXCEPT ![c] = executable[p]]

Exec(t, e) ==
    /\ mem' = [mem EXCEPT ![t] = NewImage]
    /\ executable' = [executable EXCEPT ![t] = e]

Exit(t) ==
    /\ mem' = [mem EXCEPT ![t] = Nothing]
    /\ executable' = [executable EXCEPT ![t] = None]

Init ==
    /\ mem \in [Tasks -> [Addrs -> Values \cup {None}]]
    /\ executable = [t \in Tasks |-> None]

Next ==
    \/ \E t \in Tasks, a \in Addrs : Fill(t, a) \/ Write(t, a)
    \/ \E p, c \in Tasks : Fork(p, c)
    \/ \E t \in Tasks : Exit(t) \/ \E e \in Execs : Exec(t, e)

Spec == Init /\ [][Next]_vars
==============================================================================

------------------------------- MODULE SavedLog -------------------------------
(***************************************************************************)
(* What saving the progress log promises: the log on the disk changes in   *)
(* one step, from the version saved before to the one the program works    *)
(* on, whatever fails or goes down meanwhile; a write is reported as done  *)
(* only after that step; and the next session begins with what was saved.  *)
(* Files, failures and interrupts are in LogFile, which implements this    *)
(* module.                                                                 *)
(***************************************************************************)
EXTENDS Integers

CONSTANT Nothing   \* what is kept before the first save

VARIABLES
  work,      \* the version the program works on; newer ones are larger
  kept,      \* the version on the disk
  reported,  \* the version last reported saved
  running    \* whether the program runs

vars == <<work, kept, reported, running>>

Init ==
  /\ work = 0
  /\ kept \in {Nothing, 0} /\ reported = kept
  /\ running = TRUE

Change ==
  /\ running
  /\ work' \in Nat /\ work' > work
  /\ UNCHANGED <<kept, reported, running>>

Save ==
  /\ running
  /\ kept' = work
  /\ UNCHANGED <<work, reported, running>>

(* The report of the write that closes the program comes with its end.     *)
Report ==
  /\ running /\ kept = work
  /\ reported' = work
  /\ running' \in BOOLEAN
  /\ UNCHANGED <<work, kept>>

(* The program ends, is interrupted or goes down.                          *)
Stop ==
  /\ running /\ running' = FALSE
  /\ UNCHANGED <<work, kept, reported>>

Start ==
  /\ ~running /\ kept # Nothing
  /\ running' = TRUE /\ work' = kept
  /\ UNCHANGED <<kept, reported>>

Next == Change \/ Save \/ Report \/ Stop \/ Start

Spec == Init /\ [][Next]_vars
=============================================================================

----------------------------- MODULE Algorithms -----------------------------
(***************************************************************************)
(* The two user programs with an algorithm of their own, side by side: the *)
(* user runs fish, which keeps a list of blinking characters, or grep,     *)
(* which searches a file.  Neither shares memory with the other.           *)
(***************************************************************************)
EXTENDS Blink, Search

VARIABLE program

algorithm_vars == <<blink_vars, search_vars, program>>

AlgorithmsInit ==
  /\ BlinkInit
  /\ \/ program = "fish" /\ SearchIdle
     \/ program = "grep" /\ SearchInit

Fish == program = "fish" /\ BlinkNext /\ UNCHANGED <<search_vars, program>>
Grep == program = "grep" /\ do_one_file /\ UNCHANGED <<blink_vars, program>>

AlgorithmsNext == Fish \/ Grep

AlgorithmsSpec == AlgorithmsInit /\ [][AlgorithmsNext]_algorithm_vars

\* The RTC ticks on, and the CPU goes on with the program it runs.
FairAlgorithmsSpec ==
  /\ AlgorithmsSpec
  /\ WF_algorithm_vars(program = "fish" /\ Tick /\ UNCHANGED <<search_vars, program>>)
  /\ WF_algorithm_vars(Grep)
=============================================================================

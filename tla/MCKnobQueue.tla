----------------------------- MODULE MCKnobQueue ------------------------------
(***************************************************************************)
(* Instances of KnobQueue for TLC.  A fifo of two bytes fills and drains   *)
(* often.  One reader meets the two works of a knob; two readers meet one  *)
(* work, which is enough for every pair of them to contend for the lock,   *)
(* the counter and the wait queue.                                         *)
(***************************************************************************)
EXTENDS KnobQueue

OneKnob == {"left_button1", "left_button2"}
OneWork == {"left_button1"}
===============================================================================

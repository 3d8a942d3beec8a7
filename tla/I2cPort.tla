-------------------------------- MODULE I2cPort -------------------------------
(***************************************************************************)
(* What the touch driver relies on when it commands the chip over a bus    *)
(* that loses transfers: a call that reports success has had its whole     *)
(* effect since it began; one that reports failure may have had it, had a  *)
(* part of it or none.  How often a call tries is not seen here.           *)
(***************************************************************************)
CONSTANTS Calls, NoCall     \* "sleep", "wake" and "cfg" are among the calls

VARIABLES
  call,     \* the call in progress, or NoCall
  awake,    \* the chip is not in sleep mode
  cfg,      \* of the configuration being sent the chip has nothing, a part or all
  told      \* the last call reported success

vars == <<call, awake, cfg, told>>

Init ==
  /\ call = NoCall /\ awake = TRUE
  /\ cfg = "whole" /\ told = FALSE

Begin(c) ==
  /\ call = NoCall /\ call' = c
  /\ told' = FALSE
  /\ cfg' = IF c = "cfg" THEN "stale" ELSE cfg
  /\ UNCHANGED awake

\* The command reaches the chip, in part or for good.
Effect ==
  /\ \/ call = "sleep" /\ awake' = FALSE /\ UNCHANGED cfg
     \/ call = "wake" /\ awake' = TRUE /\ UNCHANGED cfg
     \/ call = "cfg" /\ awake /\ cfg' \in {"torn", "whole"} /\ UNCHANGED awake
  /\ UNCHANGED <<call, told>>

Done ==
  CASE call = "sleep" -> ~awake [] call = "wake" -> awake
    [] call = "cfg" -> cfg = "whole" [] OTHER -> TRUE

\* The last transfer of a call may be the one that has the effect.
Return ==
  /\ call # NoCall /\ call' = NoCall
  /\ told' \in {FALSE, Done}
  /\ UNCHANGED <<awake, cfg>>

Next == (\E c \in Calls : Begin(c)) \/ Effect \/ Return

Spec == Init /\ [][Next]_vars
===============================================================================

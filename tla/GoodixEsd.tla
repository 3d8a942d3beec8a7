------------------------------ MODULE GoodixEsd -------------------------------
(***************************************************************************)
(* The ESD watchdog of the touch driver (drivers/goodix_ts/gt9xx.c, the    *)
(* option GTP_ESD_PROTECT, which gt9xx.h ships switched off).  A delayed   *)
(* work looks at the chip every two seconds, feeds it if it works and      *)
(* resets it if it does not.  Suspend and resume stop and start the work,  *)
(* put the chip to sleep and wake it, and resume may itself reset it.      *)
(*                                                                         *)
(* Both sides drive the RST and INT pins: the level of INT when RST rises  *)
(* selects the chip's I2C address, and the driver talks to 0x14 (high).    *)
(***************************************************************************)
EXTENDS Integers

CONSTANTS
  WAKE_TRIES,   \* rounds of gtp_wakeup_sleep (10)
  READ_TRIES    \* rounds of gtp_esd_check_func (3)

ASSUME TriesAssumption == WAKE_TRIES \in Nat \ {0} /\ READ_TRIES \in Nat \ {0}

VARIABLES
  chip,             \* what its firmware does
  fed,              \* register 0x8040 holds the 0xAA of the last feeding
  ext,              \* register 0x8041 holds the 0xAA of gtp_init_ext_watchdog
  addr_ok,          \* the chip answers at 0x14
  pin,              \* the INT pin: driven low or high, or an input
  esd_running,
  dwork,            \* the delayed work: not pending, its timer runs, or queued
  canceling,        \* cancel_delayed_work_sync waits: the work cannot be queued
  epc, i,           \* where gtp_esd_check_func is, and its loop counter
  pm, tries,        \* where suspend or resume is, and the rounds of its wake-up
  gtp_is_suspend,
  slept,            \* the chip went to sleep and resume has not touched it (history)
  crossed           \* the screen was unblanked while it was on (history)

chipVars == <<chip, fed, ext, addr_ok>>
workVars == <<dwork, canceling, epc, i>>
pmVars == <<pm, tries, gtp_is_suspend, slept, crossed>>
vars == <<chipVars, pin, esd_running, workVars, pmVars>>

ResetPc == {"hold", "release", "sync", "ext"}       \* inside gtp_reset_guitar
EsdPc == {"idle", "start", "read", "confirm", "feed", "requeue", "cfg"} \cup ResetPc
PmPc == {"on", "s_esd", "s_cancel", "s_sleep", "off", "int", "test", "w_sync", "w_ext",
         "r_cfg", "r_done", "r_esd"} \cup ResetPc

TypeOK ==
  /\ chip \in {"runs", "hung", "asleep", "held"}
  /\ fed \in BOOLEAN /\ ext \in BOOLEAN /\ addr_ok \in BOOLEAN
  /\ pin \in {"low", "high", "input"}
  /\ esd_running \in BOOLEAN
  /\ dwork \in {"none", "timer", "queued"} /\ canceling \in BOOLEAN
  /\ epc \in EsdPc /\ i \in 0..READ_TRIES
  /\ pm \in PmPc /\ tries \in 0..WAKE_TRIES
  /\ gtp_is_suspend \in BOOLEAN /\ slept \in BOOLEAN /\ crossed \in BOOLEAN

\* After goodix_ts_probe: SWITCH_ON has started the watchdog.
Init ==
  /\ chip = "runs" /\ fed = FALSE /\ ext = TRUE /\ addr_ok = TRUE
  /\ pin = "input"
  /\ esd_running = TRUE
  /\ dwork = "timer" /\ canceling = FALSE
  /\ epc = "idle" /\ i = 0
  /\ pm = "on" /\ tries = 0
  /\ gtp_is_suspend = FALSE /\ slept = FALSE /\ crossed = FALSE

-------------------------------------------------------------------------------
(* The chip.  Running firmware clears 0x8040; a discharge stops it or makes *)
(* it start anew, which clears both registers.                              *)

Firmware ==
  /\ chip = "runs" /\ fed
  /\ fed' = FALSE
  /\ UNCHANGED <<chip, ext, addr_ok, pin, esd_running, workVars, pmVars>>

Hang ==
  /\ chip = "runs"
  /\ chip' = "hung"
  /\ UNCHANGED <<fed, ext, addr_ok, pin, esd_running, workVars, pmVars>>

Restart ==
  /\ chip = "runs"
  /\ fed' = FALSE /\ ext' = FALSE
  /\ UNCHANGED <<chip, addr_ok, pin, esd_running, workVars, pmVars>>

\* Whether a transfer can succeed; that it may fail all the same is a step of its own.
Answers == addr_ok /\ chip \in {"runs", "hung"}

\* gtp_init_ext_watchdog, whose result nobody looks at.
InitExtWatchdog == ext' \in {ext, Answers \/ ext}

-------------------------------------------------------------------------------
(* gtp_reset_guitar, called by the watchdog and by resume: each keeps its  *)
(* own place in it, the pins and the chip are shared.                      *)

\* RST low; INT to the level of the address.
ResetHold ==
  /\ chip' = "held"
  /\ pin' = "high"
  /\ UNCHANGED <<fed, ext, addr_ok>>

\* RST high, unless the other side has raised it: the chip samples INT.  An input
\* is at whatever level the line happens to have.
ResetRelease ==
  /\ IF chip = "held"
     THEN /\ chip' = "runs"
          /\ fed' = FALSE /\ ext' = FALSE
          /\ addr_ok' \in (CASE pin = "high" -> {TRUE} [] pin = "low" -> {FALSE}
                             [] OTHER -> BOOLEAN)
     ELSE UNCHANGED chipVars
  /\ UNCHANGED pin

\* gtp_int_sync: INT low for 50 ms ...
ResetSync == pin' = "low" /\ UNCHANGED chipVars

\* ... and an input again; then the external watchdog.
ResetExt == pin' = "input" /\ InitExtWatchdog /\ UNCHANGED <<chip, fed, addr_ok>>

ResetStep(at) ==
  CASE at = "hold" -> ResetHold [] at = "release" -> ResetRelease
    [] at = "sync" -> ResetSync [] at = "ext" -> ResetExt

AfterReset(at, then) ==
  CASE at = "hold" -> "release" [] at = "release" -> "sync"
    [] at = "sync" -> "ext" [] at = "ext" -> then

-------------------------------------------------------------------------------
(* The delayed work. *)

\* queue_delayed_work: nothing happens if it is pending or being cancelled.
QueueDelayed == dwork' = IF dwork = "none" /\ ~canceling THEN "timer" ELSE dwork

TimerFires ==
  /\ dwork = "timer" /\ dwork' = "queued"
  /\ UNCHANGED <<chipVars, pin, esd_running, canceling, epc, i, pmVars>>

GoEsd(from, to) == epc = from /\ epc' = to

CheckStart ==
  /\ dwork = "queued" /\ dwork' = "none"
  /\ GoEsd("idle", "start")
  /\ UNCHANGED <<chipVars, pin, esd_running, canceling, i, pmVars>>

\* Suspended: the work returns and is not queued again.
CheckFlag ==
  /\ GoEsd("start", IF gtp_is_suspend THEN "idle" ELSE "read")
  /\ i' = 0
  /\ UNCHANGED <<chipVars, pin, esd_running, dwork, canceling, pmVars>>

\* The next of the three rounds, or the recovery after the last.
NextRound(from) ==
  /\ GoEsd(from, IF i + 1 < READ_TRIES THEN "read" ELSE "hold")
  /\ i' = i + 1
  /\ UNCHANGED <<chipVars, pin, esd_running, dwork, canceling, pmVars>>

\* Mutant: a transfer that fails ends the loop.
CheckReadFailsBreaks ==
  /\ GoEsd("read", "requeue")
  /\ UNCHANGED <<chipVars, pin, esd_running, dwork, canceling, i, pmVars>>

CheckReadFails == NextRound("read")

CheckRead ==
  /\ Answers
  /\ GoEsd("read", IF fed \/ ~ext THEN "confirm" ELSE "feed")
  /\ UNCHANGED <<chipVars, pin, esd_running, dwork, canceling, i, pmVars>>

\* The second reading was right: on with the loop.
CheckDoubted == Answers /\ ~fed /\ ext /\ NextRound("confirm")

\* It was not, or the transfer failed, which leaves zeros in chk_buf.
CheckConfirmed ==
  /\ GoEsd("confirm", "hold")
  /\ i' = READ_TRIES
  /\ UNCHANGED <<chipVars, pin, esd_running, dwork, canceling, pmVars>>

\* The chip works: feed it.  The result is not looked at.
CheckFeed ==
  /\ Answers
  /\ GoEsd("feed", "requeue")
  /\ fed' = TRUE
  /\ UNCHANGED <<chip, ext, addr_ok, pin, esd_running, dwork, canceling, i, pmVars>>

CheckFeedFails ==
  /\ GoEsd("feed", "requeue")
  /\ UNCHANGED <<chipVars, pin, esd_running, dwork, canceling, i, pmVars>>

\* The recovery: gtp_reset_guitar(50), then gtp_send_cfg.
CheckReset ==
  /\ epc \in ResetPc
  /\ ResetStep(epc)
  /\ epc' = AfterReset(epc, "cfg")
  /\ UNCHANGED <<esd_running, dwork, canceling, i, pmVars>>

CheckSendCfg ==
  /\ GoEsd("cfg", "requeue")
  /\ UNCHANGED <<chipVars, pin, esd_running, dwork, canceling, i, pmVars>>

CheckRequeue ==
  /\ GoEsd("requeue", "idle")
  /\ i' = 0
  /\ IF gtp_is_suspend THEN UNCHANGED dwork ELSE QueueDelayed
  /\ UNCHANGED <<chipVars, pin, esd_running, canceling, pmVars>>

CheckStep ==
  \/ CheckStart \/ CheckFlag \/ CheckRead \/ CheckReadFails \/ CheckDoubted
  \/ CheckConfirmed \/ CheckFeed \/ CheckFeedFails \/ CheckReset \/ CheckSendCfg
  \/ CheckRequeue

-------------------------------------------------------------------------------
(* Suspend and resume, called by the notifier one at a time; the screen    *)
(* may be blanked or unblanked twice in a row.                             *)

GoPm(from, to) == pm = from /\ pm' = to

Suspend ==
  /\ pm \in {"on", "off"} /\ pm' = "s_esd"
  /\ gtp_is_suspend' = TRUE
  /\ UNCHANGED <<chipVars, pin, esd_running, workVars, tries, slept, crossed>>

\* Mutant: the flag is left, so that the next SWITCH_ON does nothing.
SwitchOffKeepsFlag ==
  /\ GoPm("s_esd", IF esd_running THEN "s_cancel" ELSE "s_sleep")
  /\ dwork' = IF esd_running THEN "none" ELSE dwork
  /\ canceling' = esd_running
  /\ UNCHANGED <<chipVars, pin, esd_running, epc, i, tries, gtp_is_suspend, slept, crossed>>

\* gtp_esd_switch(SWITCH_OFF): the work is taken off its timer or queue ...
SwitchOff ==
  /\ GoPm("s_esd", IF esd_running THEN "s_cancel" ELSE "s_sleep")
  /\ esd_running' = FALSE
  /\ dwork' = IF esd_running THEN "none" ELSE dwork
  /\ canceling' = esd_running
  /\ UNCHANGED <<chipVars, pin, epc, i, tries, gtp_is_suspend, slept, crossed>>

\* Mutant: cancel_delayed_work, which does not wait.
CancelWaitsNot ==
  /\ GoPm("s_cancel", "s_sleep")
  /\ canceling' = FALSE
  /\ UNCHANGED <<chipVars, pin, esd_running, dwork, epc, i, tries, gtp_is_suspend, slept,
                 crossed>>

\* ... and one that already runs is waited for.
CancelWait ==
  /\ epc = "idle"
  /\ GoPm("s_cancel", "s_sleep")
  /\ canceling' = FALSE
  /\ UNCHANGED <<chipVars, pin, esd_running, dwork, epc, i, tries, gtp_is_suspend, slept,
                 crossed>>

\* gtp_enter_sleep: INT low and the command, which running firmware obeys.
EnterSleep ==
  /\ GoPm("s_sleep", "off")
  /\ pin' = "low"
  /\ \/ Answers /\ chip = "runs" /\ chip' = "asleep" /\ slept' = TRUE
     \/ UNCHANGED <<chip, slept>>
  /\ UNCHANGED <<fed, ext, addr_ok, esd_running, workVars, tries, gtp_is_suspend, crossed>>

\* Mutant: the watchdog is started before the chip is woken.
ResumeWatched ==
  /\ pm \in {"on", "off"} /\ pm' = "int"
  /\ tries' = 0
  /\ gtp_is_suspend' = FALSE
  /\ esd_running' = TRUE
  /\ QueueDelayed
  /\ crossed' = (crossed \/ pm = "on")
  /\ UNCHANGED <<chipVars, pin, canceling, epc, i, slept>>

Resume ==
  /\ pm \in {"on", "off"} /\ pm' = "int"
  /\ tries' = 0
  /\ crossed' = (crossed \/ pm = "on")
  /\ UNCHANGED <<chipVars, pin, esd_running, workVars, gtp_is_suspend, slept>>

\* A round of gtp_wakeup_sleep: INT high wakes a sleeping chip, or should.
WakeInt ==
  /\ GoPm("int", "test")
  /\ tries' = tries + 1
  /\ pin' = "high"
  /\ chip' \in (IF chip = "asleep" THEN {"asleep", "runs"} ELSE {chip})
  /\ slept' = FALSE
  /\ UNCHANGED <<fed, ext, addr_ok, esd_running, workVars, gtp_is_suspend, crossed>>

TestAnswered ==
  /\ Answers
  /\ GoPm("test", "w_sync")
  /\ UNCHANGED <<chipVars, pin, esd_running, workVars, tries, gtp_is_suspend, slept, crossed>>

WakeSync ==
  /\ GoPm("w_sync", "w_ext")
  /\ ResetSync
  /\ UNCHANGED <<esd_running, workVars, tries, gtp_is_suspend, slept, crossed>>

WakeExt ==
  /\ GoPm("w_ext", "r_cfg")
  /\ ResetExt
  /\ UNCHANGED <<esd_running, workVars, tries, gtp_is_suspend, slept, crossed>>

TestFails ==
  /\ GoPm("test", "hold")
  /\ UNCHANGED <<chipVars, pin, esd_running, workVars, tries, gtp_is_suspend, slept, crossed>>

\* gtp_reset_guitar(20), then the next round if there is one.
WakeReset ==
  /\ pm \in ResetPc
  /\ ResetStep(pm)
  /\ pm' = AfterReset(pm, IF tries < WAKE_TRIES THEN "int" ELSE "r_cfg")
  /\ UNCHANGED <<esd_running, workVars, tries, gtp_is_suspend, slept, crossed>>

SendCfg ==
  /\ GoPm("r_cfg", "r_done")
  /\ UNCHANGED <<chipVars, pin, esd_running, workVars, tries, gtp_is_suspend, slept, crossed>>

Resumed ==
  /\ GoPm("r_done", "r_esd")
  /\ gtp_is_suspend' = FALSE
  /\ UNCHANGED <<chipVars, pin, esd_running, workVars, tries, slept, crossed>>

\* gtp_esd_switch(SWITCH_ON)
SwitchOn ==
  /\ GoPm("r_esd", "on")
  /\ esd_running' = TRUE
  /\ IF esd_running THEN UNCHANGED dwork ELSE QueueDelayed
  /\ UNCHANGED <<chipVars, pin, canceling, epc, i, tries, gtp_is_suspend, slept, crossed>>

PmStep ==
  \/ SwitchOff \/ CancelWait \/ EnterSleep \/ WakeInt \/ TestAnswered \/ WakeSync
  \/ WakeExt \/ TestFails \/ WakeReset \/ SendCfg \/ Resumed \/ SwitchOn

-------------------------------------------------------------------------------
Next ==
  \/ Firmware \/ Hang \/ Restart
  \/ TimerFires \/ CheckStep
  \/ Suspend \/ Resume \/ PmStep

Spec == Init /\ [][Next]_vars

\* The timer fires, the workqueue runs, the notifier's caller goes on, and a chip
\* that answers does not fail every feeding.
Fairness ==
  WF_vars(TimerFires) /\ WF_vars(CheckStep) /\ WF_vars(PmStep) /\ SF_vars(CheckFeed)

FairSpec == Spec /\ Fairness

-------------------------------------------------------------------------------
(* Properties. *)

\* While the screen is on the watchdog lives: the flag that SWITCH_ON goes by is set
\* exactly when the work is pending or running, however its own queueing (l.2604),
\* the cancelling (l.2463) and the switching crossed.
WatchdogLives ==
  pm \in {"on", "int", "off"} =>
    /\ esd_running = (dwork # "none" \/ epc # "idle")
    /\ pm = "on" => esd_running

\* A chip that suspend has put to sleep sleeps until resume: no feeding and no reset
\* of the watchdog reaches it, although its work ran when the screen went off.
SleepUndisturbed == slept => chip = "asleep" /\ epc = "idle" /\ dwork = "none"

\* The watchdog and resume never reset the chip across one another, so that it
\* always comes up at the address the driver uses (l.998-1008) -- unless the screen
\* was unblanked while it was on, when the resume runs beside a live watchdog.
AddressKept == addr_ok \/ crossed

\* A chip that hangs, whether or not it still answers, is reset before long unless
\* the screen goes off (l.2514-2600).
HungChipReset == chip = "hung" ~> chip # "hung" \/ gtp_is_suspend
===============================================================================

---------------------------- MODULE GoodixEsdProofs ---------------------------
(***************************************************************************)
(* Proofs about the ESD watchdog, for any number of tries: it lives while  *)
(* the screen is on, it leaves a sleeping chip alone, and it never resets  *)
(* the chip across the resume, unless the screen is unblanked while on.    *)
(***************************************************************************)
EXTENDS GoodixEsd, TLAPS

\* The watchdog neither runs nor is going to.
Quiet == dwork = "none" /\ epc = "idle"

\* A resume until it clears gtp_is_suspend, and until it switches the watchdog on.
Waking == {"int", "test", "w_sync", "w_ext", "r_cfg", "r_done"} \cup ResetPc
Resuming == Waking \cup {"r_esd"}

\* The screen as the driver's flag has it; a resume that crossed a live watchdog has
\* it cleared from the start.
FlagInv ==
  /\ pm \in {"s_esd", "s_cancel", "s_sleep", "off"} => gtp_is_suspend
  /\ pm \in {"on", "r_esd"} => ~gtp_is_suspend
  /\ pm \in Waking /\ esd_running => ~gtp_is_suspend

\* The work and esd_running through suspend and resume: in the moments between
\* gtp_is_suspend and SWITCH_OFF the work may end by itself with the flag still set;
\* after that it is off until SWITCH_ON.
WatchInv ==
  /\ canceling <=> pm = "s_cancel"
  /\ pm \in {"s_cancel", "s_sleep", "off"} => ~esd_running /\ dwork = "none"
  /\ pm \in {"s_sleep", "off"} => epc = "idle"
  /\ ~esd_running /\ pm # "s_cancel" => Quiet
  /\ esd_running /\ pm # "s_esd" => ~Quiet
  /\ esd_running /\ pm \in Resuming => crossed
  /\ pm = "on" => esd_running

\* Where the chip can be while what suspend did to it lasts.
SleepInv ==
  slept => /\ chip = "asleep" /\ ~esd_running /\ Quiet
           /\ pm \in {"off", "int", "s_esd", "s_sleep"}

\* Whoever is about to raise RST has INT at the level of the address.
PinInv ==
  ~crossed => /\ addr_ok
              /\ epc = "release" => pin = "high"
              /\ pm = "release" => pin = "high"

LoopInv ==
  /\ epc \in {"read", "confirm"} => i < READ_TRIES
  /\ pm = "int" => tries < WAKE_TRIES

\* The types in three groups, as the steps change them.
ChipTypes ==
  /\ chip \in {"runs", "hung", "asleep", "held"}
  /\ fed \in BOOLEAN /\ ext \in BOOLEAN /\ addr_ok \in BOOLEAN
  /\ pin \in {"low", "high", "input"}

WorkTypes ==
  /\ esd_running \in BOOLEAN
  /\ dwork \in {"none", "timer", "queued"} /\ canceling \in BOOLEAN
  /\ epc \in EsdPc

PmTypes ==
  pm \in PmPc /\ gtp_is_suspend \in BOOLEAN /\ slept \in BOOLEAN /\ crossed \in BOOLEAN

EsdInv == TypeOK /\ LoopInv /\ FlagInv /\ WatchInv /\ SleepInv /\ PinInv

\* The numbers of rounds are positive numbers.
LEMMA Bounds ==
  WAKE_TRIES \in Nat /\ READ_TRIES \in Nat /\ 0 < WAKE_TRIES /\ 0 < READ_TRIES
BY TriesAssumption

-------------------------------------------------------------------------------
\* The initial state is in the invariant.
LEMMA EsdInit == Init => EsdInv
<1> SUFFICES ASSUME Init PROVE EsdInv
  OBVIOUS
<1>1. TypeOK
  <2>1. ChipTypes
    BY DEF Init, ChipTypes
  <2>2. WorkTypes
    BY DEF Init, WorkTypes, EsdPc
  <2>3. PmTypes
    BY DEF Init, PmTypes, PmPc
  <2>4. i \in 0..READ_TRIES /\ tries \in 0..WAKE_TRIES
    BY Bounds DEF Init
  <2> QED
    BY <2>1, <2>2, <2>3, <2>4 DEF TypeOK, ChipTypes, WorkTypes, PmTypes
<1>2. LoopInv /\ FlagInv /\ SleepInv /\ PinInv
  BY DEF Init, LoopInv, FlagInv, SleepInv, PinInv, Waking, ResetPc
<1>3. WatchInv
  BY DEF Init, WatchInv, Quiet, Resuming, Waking, ResetPc
<1> QED
  BY <1>1, <1>2, <1>3 DEF EsdInv

-------------------------------------------------------------------------------
(* The steps, by what they do to the accounts above. *)

\* The chip does not touch the driver, and a sleeping one does nothing.
LEMMA ChipMoves ==
  ASSUME Firmware \/ Hang \/ Restart
  PROVE  UNCHANGED <<addr_ok, pin, esd_running, workVars, pmVars>> /\ chip = "runs"
BY DEF Firmware, Hang, Restart

\* A step of the delayed work: it is not quiet before, it stays alive unless it sees
\* gtp_is_suspend or is being cancelled, and then it does not come back.
LEMMA WorkMoves ==
  ASSUME TypeOK, TimerFires \/ CheckStep
  PROVE  /\ UNCHANGED <<esd_running, canceling, pmVars>>
         /\ ~Quiet
         /\ ~gtp_is_suspend /\ ~canceling => ~Quiet'
         /\ gtp_is_suspend /\ dwork = "none" => dwork' = "none"
<1>1. CASE TimerFires
  BY <1>1 DEF TimerFires, Quiet
<1>2. CASE CheckStart
  BY <1>2 DEF CheckStart, GoEsd, Quiet
<1>3. CASE CheckFlag
  BY <1>3 DEF CheckFlag, GoEsd, Quiet
<1>4. CASE CheckReadFails \/ CheckDoubted
  BY <1>4 DEF CheckReadFails, CheckDoubted, NextRound, GoEsd, Quiet
<1>5. CASE CheckRead \/ CheckConfirmed \/ CheckFeed \/ CheckFeedFails \/ CheckSendCfg
  BY <1>5 DEF CheckRead, CheckConfirmed, CheckFeed, CheckFeedFails, CheckSendCfg, GoEsd, Quiet
<1>6. CASE CheckReset
  <2>1. epc # "idle" /\ epc' # "idle"
    BY <1>6 DEF CheckReset, AfterReset, ResetPc
  <2> QED
    BY <1>6, <2>1 DEF CheckReset, Quiet
<1>7. CASE CheckRequeue
  BY <1>7 DEF CheckRequeue, GoEsd, QueueDelayed, Quiet, TypeOK
<1> QED
  BY <1>1, <1>2, <1>3, <1>4, <1>5, <1>6, <1>7 DEF CheckStep

\* The steps of a resume between its begin and SWITCH_ON leave the watchdog alone.
LEMMA WakeMoves ==
  ASSUME WakeInt \/ TestAnswered \/ WakeSync \/ WakeExt \/ TestFails \/ WakeReset \/ SendCfg
  PROVE  /\ UNCHANGED <<esd_running, workVars, gtp_is_suspend, crossed>>
         /\ pm \in Waking /\ pm' \in Waking
<1>1. CASE WakeReset
  BY <1>1 DEF WakeReset, AfterReset, Waking, ResetPc
<1>2. CASE WakeInt \/ TestAnswered \/ WakeSync \/ WakeExt \/ TestFails \/ SendCfg
  BY <1>2 DEF WakeInt, TestAnswered, WakeSync, WakeExt, TestFails, SendCfg, GoPm, Waking, ResetPc
<1> QED
  BY <1>1, <1>2

-------------------------------------------------------------------------------
(* The watchdog. *)

\* gtp_is_suspend goes with suspend and resume.
LEMMA FlagStep == ASSUME EsdInv, Next PROVE FlagInv'
<1> USE DEF EsdInv, FlagInv, Waking, ResetPc
<1>1. CASE Firmware \/ Hang \/ Restart
  BY <1>1, ChipMoves DEF pmVars
<1>2. CASE TimerFires \/ CheckStep
  BY <1>2, WorkMoves DEF pmVars
<1>3. CASE WakeInt \/ TestAnswered \/ WakeSync \/ WakeExt \/ TestFails \/ WakeReset \/ SendCfg
  <2>1. /\ UNCHANGED <<esd_running, gtp_is_suspend>>
        /\ pm \in Waking /\ pm' \in Waking
    BY <1>3, WakeMoves
  <2> QED
    BY <2>1
<1>4. CASE Suspend
  BY <1>4 DEF Suspend
<1>5. CASE Resume
  BY <1>5 DEF Resume, WatchInv
<1>6. CASE SwitchOff
  BY <1>6 DEF SwitchOff, GoPm
<1>7. CASE CancelWait \/ EnterSleep
  BY <1>7 DEF CancelWait, EnterSleep, GoPm
<1>8. CASE Resumed
  BY <1>8 DEF Resumed, GoPm
<1>9. CASE SwitchOn
  BY <1>9 DEF SwitchOn, GoPm
<1> QED
  BY <1>1, <1>2, <1>3, <1>4, <1>5, <1>6, <1>7, <1>8, <1>9 DEF Next, PmStep

\* The work and the flag stay in agreement.
LEMMA WatchStep == ASSUME EsdInv, Next PROVE WatchInv'
<1> USE DEF EsdInv, WatchInv
<1>1. CASE Firmware \/ Hang \/ Restart
  BY <1>1, ChipMoves DEF workVars, pmVars, Quiet
<1>2. CASE TimerFires \/ CheckStep
  <2>1. /\ UNCHANGED <<esd_running, canceling, pm, crossed, gtp_is_suspend>>
        /\ ~Quiet
        /\ ~gtp_is_suspend /\ ~canceling => ~Quiet'
        /\ gtp_is_suspend /\ dwork = "none" => dwork' = "none"
    BY <1>2, WorkMoves DEF pmVars
  <2>2. pm \in {"on", "s_esd", "s_cancel"} \cup Resuming
    BY <2>1 DEF TypeOK, PmPc, Resuming, Waking, ResetPc, Quiet
  <2>3. CASE pm = "s_cancel"
    BY <2>1, <2>3 DEF FlagInv, Resuming, Waking, ResetPc
  <2>4. CASE pm = "s_esd"
    BY <2>1, <2>4 DEF FlagInv, Resuming, Waking, ResetPc
  <2>5. CASE pm \in {"on"} \cup Resuming
    BY <2>1, <2>5 DEF FlagInv, Resuming, Waking, ResetPc
  <2> QED
    BY <2>2, <2>3, <2>4, <2>5
<1>3. CASE WakeInt \/ TestAnswered \/ WakeSync \/ WakeExt \/ TestFails \/ WakeReset \/ SendCfg
  <2>1. /\ UNCHANGED <<esd_running, canceling, crossed>> /\ Quiet' = Quiet
        /\ pm \in Waking /\ pm' \in Waking
    BY <1>3, WakeMoves DEF workVars, Quiet
  <2> QED
    BY <2>1 DEF Resuming, Waking, ResetPc
<1>4. CASE Suspend
  BY <1>4 DEF Suspend, workVars, Quiet, Resuming, Waking, ResetPc
<1>5. CASE Resume
  <2>1. UNCHANGED <<esd_running, workVars>> /\ pm' = "int" /\ (pm = "on" => crossed')
    BY <1>5 DEF Resume
  <2> QED
    BY <1>5, <2>1 DEF Resume, workVars, Quiet, Resuming, Waking, ResetPc
<1>6. CASE SwitchOff
  <2>1. CASE esd_running
    BY <1>6, <2>1 DEF SwitchOff, GoPm, Quiet, Resuming, Waking, ResetPc
  <2>2. CASE ~esd_running
    BY <1>6, <2>2 DEF SwitchOff, GoPm, Quiet, Resuming, Waking, ResetPc
  <2> QED
    BY <2>1, <2>2
<1>7. CASE CancelWait
  BY <1>7 DEF CancelWait, GoPm, Quiet, Resuming, Waking, ResetPc
<1>8. CASE EnterSleep
  BY <1>8 DEF EnterSleep, GoPm, workVars, Quiet, Resuming, Waking, ResetPc
<1>9. CASE Resumed
  BY <1>9 DEF Resumed, GoPm, workVars, Quiet, Resuming, Waking, ResetPc
<1>10. CASE SwitchOn
  <2>1. pm = "r_esd" /\ pm' = "on" /\ esd_running' = TRUE /\ canceling' = canceling
    BY <1>10 DEF SwitchOn, GoPm
  <2>2. ~Quiet'
    <3>1. CASE esd_running
      BY <1>10, <2>1, <3>1 DEF SwitchOn, Quiet
    <3>2. CASE ~esd_running
      BY <1>10, <2>1, <3>2 DEF SwitchOn, QueueDelayed, Quiet
    <3> QED
      BY <3>1, <3>2
  <2> QED
    BY <2>1, <2>2 DEF Resuming, Waking, ResetPc
<1> QED
  BY <1>1, <1>2, <1>3, <1>4, <1>5, <1>6, <1>7, <1>8, <1>9, <1>10 DEF Next, PmStep

-------------------------------------------------------------------------------
(* The chip's sleep and its address. *)

\* Nobody wakes the chip before the resume does.
LEMMA SleepStep == ASSUME EsdInv, Next PROVE SleepInv'
<1> USE DEF EsdInv, SleepInv
<1>1. CASE Firmware \/ Hang \/ Restart
  BY <1>1, ChipMoves DEF workVars, pmVars, Quiet
<1>2. CASE TimerFires \/ CheckStep
  BY <1>2, WorkMoves DEF pmVars
<1>3. CASE WakeInt
  BY <1>3 DEF WakeInt
<1>4. CASE TestAnswered \/ WakeSync \/ WakeExt \/ TestFails \/ SendCfg
  BY <1>4 DEF TestAnswered, WakeSync, WakeExt, TestFails, SendCfg, GoPm
<1>5. CASE WakeReset
  BY <1>5 DEF WakeReset, ResetPc
<1>6. CASE Suspend \/ Resume
  BY <1>6 DEF Suspend, Resume, chipVars, workVars, Quiet
<1>7. CASE SwitchOff
  BY <1>7 DEF SwitchOff, GoPm, chipVars, Quiet
<1>8. CASE CancelWait \/ Resumed \/ SwitchOn
  BY <1>8 DEF CancelWait, Resumed, SwitchOn, GoPm
<1>9. CASE EnterSleep
  BY <1>9 DEF EnterSleep, GoPm, WatchInv, workVars, Quiet
<1> QED
  BY <1>1, <1>2, <1>3, <1>4, <1>5, <1>6, <1>7, <1>8, <1>9 DEF Next, PmStep

\* While the work runs a suspend or resume that is not crossed does not drive the pins.
LEMMA PinsExclusive ==
  ASSUME EsdInv, ~crossed, epc # "idle"
  PROVE  pm \in {"on", "s_esd", "s_cancel"}
BY DEF EsdInv, WatchInv, Quiet, TypeOK, PmPc, Resuming, Waking, ResetPc

\* A step of gtp_reset_guitar leaves the chip at the driver's address, and INT high
\* where RST is to be raised next.
LEMMA ResetKeepsAddress ==
  ASSUME NEW at \in ResetPc, NEW then, ResetStep(at), addr_ok,
         at = "release" => pin = "high", addr_ok \in BOOLEAN, then # "release"
  PROVE  addr_ok' /\ (AfterReset(at, then) = "release" => pin' = "high")
<1>1. CASE at = "hold"
  BY <1>1 DEF ResetStep, ResetHold, AfterReset
<1>2. CASE at = "release"
  <2>1. addr_ok'
    <3>1. CASE chip = "held"
      BY <1>2, <3>1 DEF ResetStep, ResetRelease
    <3>2. CASE chip # "held"
      BY <1>2, <3>2 DEF ResetStep, ResetRelease, chipVars
    <3> QED
      BY <3>1, <3>2
  <2> QED
    BY <1>2, <2>1 DEF AfterReset
<1>3. CASE at = "sync"
  BY <1>3 DEF ResetStep, ResetSync, AfterReset, chipVars
<1>4. CASE at = "ext"
  BY <1>4 DEF ResetStep, ResetExt, AfterReset
<1> QED
  BY <1>1, <1>2, <1>3, <1>4 DEF ResetPc

\* The address survives every step.
LEMMA PinStep == ASSUME EsdInv, Next PROVE PinInv'
<1> USE DEF EsdInv, PinInv
<1>1. CASE Firmware \/ Hang \/ Restart
  BY <1>1, ChipMoves DEF workVars, pmVars
<1>2. CASE CheckReset
  <2> SUFFICES ASSUME ~crossed PROVE PinInv'
    BY <1>2 DEF CheckReset, pmVars
  <2>1. pm \in {"on", "s_esd", "s_cancel"}
    BY <1>2, PinsExclusive DEF CheckReset, ResetPc
  <2>2. addr_ok' /\ (epc' = "release" => pin' = "high")
    BY <1>2, ResetKeepsAddress DEF CheckReset, TypeOK
  <2> QED
    BY <1>2, <2>1, <2>2 DEF CheckReset, pmVars
<1>3. CASE TimerFires \/ (CheckStep /\ ~CheckReset)
  <2>1. UNCHANGED <<addr_ok, pin, pm, crossed>> /\ (epc' = "release" => epc = "release")
    BY <1>3 DEF TimerFires, CheckStep, CheckStart, CheckFlag, CheckReadFails, CheckRead,
       CheckDoubted, CheckConfirmed, CheckFeed, CheckFeedFails, CheckSendCfg, CheckRequeue,
       NextRound, GoEsd, chipVars, pmVars
  <2> QED
    BY <2>1
<1>4. CASE WakeReset
  <2> SUFFICES ASSUME ~crossed PROVE PinInv'
    BY <1>4 DEF WakeReset
  <2>1. epc = "idle"
    BY <1>4, PinsExclusive DEF WakeReset, ResetPc
  <2>2. addr_ok' /\ (pm' = "release" => pin' = "high")
    BY <1>4, ResetKeepsAddress DEF WakeReset, TypeOK
  <2> QED
    BY <1>4, <2>1, <2>2 DEF WakeReset, workVars
<1>5. CASE WakeInt \/ WakeSync \/ WakeExt \/ EnterSleep
  <2>1. UNCHANGED <<addr_ok, epc, crossed>> /\ pm' # "release"
    BY <1>5 DEF WakeInt, WakeSync, WakeExt, EnterSleep, ResetSync, ResetExt, GoPm, chipVars,
       workVars
  <2>2. ~crossed => epc = "idle"
    BY <1>5, PinsExclusive DEF WakeInt, WakeSync, WakeExt, EnterSleep, GoPm
  <2> QED
    BY <2>1, <2>2
<1>6. CASE \/ Suspend \/ SwitchOff \/ CancelWait \/ TestAnswered \/ TestFails \/ SendCfg
           \/ Resumed \/ SwitchOn
  <2>1. UNCHANGED <<addr_ok, pin, epc, crossed>> /\ pm' # "release"
    BY <1>6 DEF Suspend, SwitchOff, CancelWait, TestAnswered, TestFails, SendCfg, Resumed,
       SwitchOn, GoPm, chipVars, workVars
  <2> QED
    BY <2>1
<1>7. CASE Resume
  <2>1. UNCHANGED <<addr_ok, pin, epc>> /\ pm' # "release" /\ (crossed => crossed')
    BY <1>7 DEF Resume, chipVars, workVars
  <2> QED
    BY <2>1
<1> QED
  BY <1>1, <1>2, <1>3, <1>4, <1>5, <1>6, <1>7 DEF Next, PmStep

-------------------------------------------------------------------------------
(* Types. *)

\* The loops of the check and of the wake-up stay within their rounds.
LEMMA LoopStep ==
  ASSUME EsdInv, Next
  PROVE  LoopInv' /\ i' \in 0..READ_TRIES /\ tries' \in 0..WAKE_TRIES
<1> USE Bounds DEF EsdInv, TypeOK, LoopInv
<1>1. CASE Firmware \/ Hang \/ Restart
  BY <1>1, ChipMoves DEF workVars, pmVars
<1>2. CASE CheckReadFails \/ CheckDoubted
  BY <1>2 DEF CheckReadFails, CheckDoubted, NextRound, GoEsd, pmVars
<1>3. CASE CheckReset
  <2>1. epc' \notin {"read", "confirm"}
    BY <1>3 DEF CheckReset, AfterReset, ResetPc
  <2> QED
    BY <1>3, <2>1 DEF CheckReset, pmVars
<1>4. CASE TimerFires \/ CheckStart \/ CheckFlag \/ CheckRead \/ CheckConfirmed
  BY <1>4 DEF TimerFires, CheckStart, CheckFlag, CheckRead, CheckConfirmed, GoEsd, pmVars
<1>5. CASE CheckFeed \/ CheckFeedFails \/ CheckSendCfg \/ CheckRequeue
  BY <1>5 DEF CheckFeed, CheckFeedFails, CheckSendCfg, CheckRequeue, GoEsd, pmVars
<1>6. CASE WakeInt
  BY <1>6 DEF WakeInt, GoPm, workVars
<1>7. CASE WakeReset
  BY <1>7 DEF WakeReset, AfterReset, ResetPc, workVars
<1>8. CASE Resume
  BY <1>8 DEF Resume, workVars
<1>9. CASE Suspend \/ SwitchOff \/ CancelWait \/ EnterSleep \/ SwitchOn
  BY <1>9 DEF Suspend, SwitchOff, CancelWait, EnterSleep, SwitchOn, GoPm, workVars
<1>10. CASE TestAnswered \/ WakeSync \/ WakeExt \/ TestFails \/ SendCfg \/ Resumed
  BY <1>10 DEF TestAnswered, WakeSync, WakeExt, TestFails, SendCfg, Resumed, GoPm, workVars
<1> QED
  BY <1>1, <1>2, <1>3, <1>4, <1>5, <1>6, <1>7, <1>8, <1>9, <1>10 DEF Next, CheckStep, PmStep

\* gtp_init_ext_watchdog keeps its register a flag.
LEMMA ExtTypes == ASSUME InitExtWatchdog, ext \in BOOLEAN PROVE ext' \in BOOLEAN
<1>1. CASE Answers \/ ext
  BY <1>1 DEF InitExtWatchdog
<1>2. CASE ~(Answers \/ ext)
  BY <1>2 DEF InitExtWatchdog
<1> QED
  BY <1>1, <1>2

\* A step of gtp_reset_guitar keeps the chip's types.
LEMMA ResetTypes ==
  ASSUME NEW at \in ResetPc, ResetStep(at), ChipTypes
  PROVE  ChipTypes'
<1> USE DEF ChipTypes
<1>1. CASE at = "hold"
  BY <1>1 DEF ResetStep, ResetHold
<1>2. CASE at = "release"
  <2>1. CASE chip = "held"
    <3>1. addr_ok' \in BOOLEAN
      BY <1>2, <2>1 DEF ResetStep, ResetRelease
    <3> QED
      BY <1>2, <2>1, <3>1 DEF ResetStep, ResetRelease
  <2>2. CASE chip # "held"
    BY <1>2, <2>2 DEF ResetStep, ResetRelease, chipVars
  <2> QED
    BY <2>1, <2>2
<1>3. CASE at = "sync"
  BY <1>3 DEF ResetStep, ResetSync, chipVars
<1>4. CASE at = "ext"
  BY <1>4, ExtTypes DEF ResetStep, ResetExt
<1> QED
  BY <1>1, <1>2, <1>3, <1>4 DEF ResetPc

\* The chip and the pin.
LEMMA ChipTypesStep == ASSUME ChipTypes, Next PROVE ChipTypes'
<1>1. CASE Firmware \/ Hang \/ Restart
  BY <1>1 DEF ChipTypes, Firmware, Hang, Restart
<1>2. CASE CheckReset
  BY <1>2, ResetTypes DEF CheckReset
<1>3. CASE WakeReset
  BY <1>3, ResetTypes DEF WakeReset
<1>4. CASE CheckFeed
  BY <1>4 DEF ChipTypes, CheckFeed
<1>5. CASE \/ TimerFires \/ CheckStart \/ CheckFlag \/ CheckRead \/ CheckReadFails
           \/ CheckDoubted \/ CheckConfirmed \/ CheckFeedFails \/ CheckSendCfg
           \/ CheckRequeue
  <2>1. UNCHANGED <<chipVars, pin>>
    BY <1>5 DEF TimerFires, CheckStart, CheckFlag, CheckRead, CheckReadFails, CheckDoubted,
       CheckConfirmed, CheckFeedFails, CheckSendCfg, CheckRequeue, NextRound
  <2> QED
    BY <2>1 DEF ChipTypes, chipVars
<1>6. CASE \/ Suspend \/ Resume \/ SwitchOff \/ CancelWait \/ TestAnswered \/ TestFails
           \/ SendCfg \/ Resumed \/ SwitchOn
  <2>1. UNCHANGED <<chipVars, pin>>
    BY <1>6 DEF Suspend, Resume, SwitchOff, CancelWait, TestAnswered, TestFails, SendCfg,
       Resumed, SwitchOn
  <2> QED
    BY <2>1 DEF ChipTypes, chipVars
<1>7. CASE EnterSleep
  BY <1>7 DEF ChipTypes, EnterSleep
<1>8. CASE WakeInt
  BY <1>8 DEF ChipTypes, WakeInt
<1>9. CASE WakeSync
  BY <1>9 DEF ChipTypes, WakeSync, ResetSync, chipVars
<1>10. CASE WakeExt
  BY <1>10, ExtTypes DEF ChipTypes, WakeExt, ResetExt
<1> QED
  BY <1>1, <1>2, <1>3, <1>4, <1>5, <1>6, <1>7, <1>8, <1>9, <1>10 DEF Next, CheckStep, PmStep

\* The work.
LEMMA WorkTypesStep == ASSUME WorkTypes, Next PROVE WorkTypes'
<1> USE DEF WorkTypes
<1>1. CASE Firmware \/ Hang \/ Restart
  BY <1>1, ChipMoves DEF workVars
<1>2. CASE TimerFires \/ CheckStart \/ CheckFlag \/ CheckRead \/ CheckConfirmed
  BY <1>2 DEF TimerFires, CheckStart, CheckFlag, CheckRead, CheckConfirmed, GoEsd, EsdPc, ResetPc
<1>3. CASE CheckReadFails \/ CheckDoubted \/ CheckFeed \/ CheckFeedFails \/ CheckSendCfg
  BY <1>3 DEF CheckReadFails, CheckDoubted, CheckFeed, CheckFeedFails, CheckSendCfg, NextRound,
     GoEsd, EsdPc, ResetPc
<1>4. CASE CheckReset
  BY <1>4 DEF CheckReset, AfterReset, EsdPc, ResetPc
<1>5. CASE CheckRequeue
  BY <1>5 DEF CheckRequeue, QueueDelayed, GoEsd, EsdPc
<1>6. CASE WakeInt \/ TestAnswered \/ WakeSync \/ WakeExt \/ TestFails \/ WakeReset \/ SendCfg
  BY <1>6, WakeMoves DEF workVars
<1>7. CASE Suspend \/ Resume \/ EnterSleep \/ Resumed
  BY <1>7 DEF Suspend, Resume, EnterSleep, Resumed, workVars
<1>8. CASE SwitchOff
  <2>1. esd_running' = FALSE /\ dwork' \in {"none", "timer", "queued"}
    BY <1>8 DEF SwitchOff
  <2> QED
    BY <1>8, <2>1 DEF SwitchOff
<1>9. CASE CancelWait
  BY <1>9 DEF CancelWait
<1>10. CASE SwitchOn
  <2>1. esd_running' = TRUE /\ dwork' \in {"none", "timer", "queued"}
    BY <1>10 DEF SwitchOn, QueueDelayed
  <2> QED
    BY <1>10, <2>1 DEF SwitchOn
<1> QED
  BY <1>1, <1>2, <1>3, <1>4, <1>5, <1>6, <1>7, <1>8, <1>9, <1>10 DEF Next, CheckStep, PmStep

\* Suspend and resume.
LEMMA PmTypesStep == ASSUME TypeOK, Next PROVE PmTypes'
<1> USE DEF PmTypes
<1>0. PmTypes
  BY DEF TypeOK
<1>1. CASE Firmware \/ Hang \/ Restart
  BY <1>0, <1>1, ChipMoves DEF pmVars
<1>2. CASE TimerFires \/ CheckStep
  BY <1>0, <1>2, WorkMoves DEF pmVars
<1>3. CASE Suspend \/ SwitchOff \/ CancelWait \/ Resumed \/ SwitchOn
  BY <1>0, <1>3 DEF Suspend, SwitchOff, CancelWait, Resumed, SwitchOn, GoPm, PmPc, ResetPc
<1>4. CASE TestAnswered \/ WakeSync \/ WakeExt \/ TestFails \/ SendCfg
  BY <1>0, <1>4 DEF TestAnswered, WakeSync, WakeExt, TestFails, SendCfg, GoPm, PmPc, ResetPc
<1>5. CASE WakeReset
  BY <1>0, <1>5 DEF WakeReset, AfterReset, PmPc, ResetPc
<1>6. CASE EnterSleep \/ WakeInt
  BY <1>0, <1>6 DEF EnterSleep, WakeInt, GoPm, PmPc, ResetPc
<1>7. CASE Resume
  <2>1. crossed' \in BOOLEAN
    BY <1>0, <1>7 DEF Resume
  <2> QED
    BY <1>0, <1>7, <2>1 DEF Resume, PmPc
<1> QED
  BY <1>1, <1>2, <1>3, <1>4, <1>5, <1>6, <1>7 DEF Next, PmStep

-------------------------------------------------------------------------------
\* The invariant is inductive.
LEMMA EsdNext == EsdInv /\ [Next]_vars => EsdInv'
<1>1. ASSUME EsdInv, UNCHANGED vars PROVE EsdInv'
  <2>1. TypeOK'
    BY <1>1 DEF EsdInv, TypeOK, vars, chipVars, workVars, pmVars
  <2>2. LoopInv' /\ FlagInv' /\ SleepInv' /\ PinInv'
    BY <1>1 DEF EsdInv, LoopInv, FlagInv, SleepInv, Quiet, PinInv, vars, chipVars, workVars, pmVars
  <2>3. WatchInv'
    BY <1>1 DEF EsdInv, WatchInv, Quiet, vars, workVars, pmVars
  <2> QED
    BY <2>1, <2>2, <2>3 DEF EsdInv
<1>2. ASSUME EsdInv, Next PROVE EsdInv'
  <2>1. ChipTypes' /\ WorkTypes'
    <3>1. ChipTypes /\ WorkTypes
      BY <1>2 DEF EsdInv, TypeOK, ChipTypes, WorkTypes
    <3> QED
      BY <1>2, <3>1, ChipTypesStep, WorkTypesStep
  <2>2. PmTypes' /\ i' \in 0..READ_TRIES /\ tries' \in 0..WAKE_TRIES /\ LoopInv'
    BY <1>2, PmTypesStep, LoopStep DEF EsdInv
  <2>3. TypeOK'
    BY <2>1, <2>2 DEF TypeOK, ChipTypes, WorkTypes, PmTypes
  <2> QED
    BY <1>2, <2>2, <2>3, FlagStep, WatchStep, SleepStep, PinStep DEF EsdInv
<1> QED
  BY <1>1, <1>2

\* Every reachable state is in the invariant.
LEMMA EsdInvariant == Spec => []EsdInv
BY EsdInit, EsdNext, PTL DEF Spec

-------------------------------------------------------------------------------
\* The types, with both loops within their rounds.
THEOREM TypeCorrect == Spec => []TypeOK
<1>1. EsdInv => TypeOK
  BY DEF EsdInv
<1> QED
  BY <1>1, EsdInvariant, PTL

\* While the screen is on the watchdog is pending or running, and esd_running says so,
\* in whichever order its own queueing, the cancelling and the switching come.
THEOREM WatchdogAlive == Spec => []WatchdogLives
<1>1. EsdInv => WatchdogLives
  <2> SUFFICES ASSUME EsdInv, pm \in {"on", "int", "off"}
               PROVE  /\ esd_running = (dwork # "none" \/ epc # "idle")
                      /\ pm = "on" => esd_running
    BY DEF WatchdogLives
  <2>1. esd_running \in BOOLEAN
    BY DEF EsdInv, TypeOK
  <2>2. esd_running <=> ~Quiet
    BY DEF EsdInv, WatchInv
  <2>3. esd_running <=> dwork # "none" \/ epc # "idle"
    BY <2>2 DEF Quiet
  <2>4. pm = "on" => esd_running
    BY DEF EsdInv, WatchInv
  <2> QED
    BY <2>1, <2>3, <2>4
<1> QED
  BY <1>1, EsdInvariant, PTL

\* The watchdog does not touch a chip that suspend has put to sleep.
THEOREM SleepKept == Spec => []SleepUndisturbed
<1>1. EsdInv => SleepUndisturbed
  BY DEF EsdInv, SleepInv, Quiet, SleepUndisturbed
<1> QED
  BY <1>1, EsdInvariant, PTL

\* No two resets of the chip cross, and it keeps the address the driver uses, unless
\* the screen was unblanked while it was on.
THEOREM AddressSafe == Spec => []AddressKept
<1>1. EsdInv => AddressKept
  BY DEF EsdInv, PinInv, AddressKept
<1> QED
  BY <1>1, EsdInvariant, PTL
===============================================================================

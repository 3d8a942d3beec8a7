----------------------------- MODULE GoodixTouch ------------------------------
(***************************************************************************)
(* The event path of the touch driver (drivers/goodix_ts/gt9xx.c), as the  *)
(* switches of gt9xx.h build it.  The chip posts a frame (a number of      *)
(* touch points) and pulses INT; the interrupt handler masks the line and  *)
(* queues ts->work; the work reads the frame over I2C, reports it,         *)
(* acknowledges it (end_cmd) and unmasks the line.  Without an interrupt   *)
(* a timer queues the work.  The framebuffer notifier suspends and resumes *)
(* the driver at any moment of this, and does not wait for the work.  The  *)
(* watchdog of GoodixEsd, where it is switched on, may reset the chip.     *)
(***************************************************************************)
EXTENDS Integers

CONSTANT GTP_MAX_TOUCH    \* the most points a frame may report (5 in gt9xx.h)

ASSUME TouchAssumption == GTP_MAX_TOUCH \in Nat \ {0}

NoFrame == -1
NotReady == -2                        \* a status that is not 0 and lacks the ready bit
Frames == 0..(GTP_MAX_TOUCH + 1)      \* the chip can claim more than the driver takes

VARIABLES
  use_irq,          \* interrupt mode, or polling by the timer
  irq_is_disable,   \* the driver's flag, changed with the line under irq_lock
  depth,            \* how often the kernel has the line disabled
  int_edge,         \* an INT edge waits to be delivered
  timer,            \* the polling timer is armed
  queued,           \* ts->work is on goodix_wq
  wpc,              \* where goodix_ts_work_func is
  finger,           \* the status it has read: the frame, NotReady, or NoFrame for none
  pre_touch,        \* points of the last frame reported
  btn,              \* BTN_TOUCH as the input core has it
  pm,               \* where goodix_ts_suspend or goodix_ts_resume is
  gtp_is_suspend,
  awake,            \* the chip is not in sleep mode
  down,             \* the fingers on the panel
  frame,            \* the frame in the chip's buffer, or NoFrame once acknowledged
  posted,           \* the last frame the chip posted
  lost              \* since the work last read a frame the chip was reset, or a frame
                    \* was acknowledged without being reported (history)

irqVars == <<irq_is_disable, depth>>
workVars == <<queued, wpc, finger, pre_touch, btn>>
chipVars == <<awake, down, frame, posted, lost>>
pmVars == <<pm, gtp_is_suspend>>
vars == <<use_irq, irqVars, int_edge, timer, workVars, pmVars, chipVars>>

WorkPc == {"idle", "read", "more", "report", "ack", "enable"}
PmPc == {"on", "s_irq", "s_sleep", "off", "r_wake", "r_cfg", "r_irq", "r_done"}

TypeOK ==
  /\ use_irq \in BOOLEAN /\ irq_is_disable \in BOOLEAN /\ depth \in Int
  /\ int_edge \in BOOLEAN /\ timer \in BOOLEAN
  /\ queued \in BOOLEAN /\ wpc \in WorkPc
  /\ finger \in Frames \cup {NoFrame, NotReady}
  /\ pre_touch \in 0..GTP_MAX_TOUCH /\ btn \in BOOLEAN
  /\ pm \in PmPc /\ gtp_is_suspend \in BOOLEAN
  /\ awake \in BOOLEAN /\ down \in Frames
  /\ frame \in Frames \cup {NoFrame} /\ posted \in Frames
  /\ lost \in BOOLEAN

\* After goodix_ts_probe: the line is unmasked, or the timer polls.
Init ==
  /\ use_irq \in BOOLEAN
  /\ irq_is_disable = FALSE /\ depth = 0
  /\ int_edge = FALSE
  /\ timer = ~use_irq
  /\ queued = FALSE /\ wpc = "idle" /\ finger = NoFrame
  /\ pre_touch = 0 /\ btn = FALSE
  /\ pm = "on" /\ gtp_is_suspend = FALSE
  /\ awake = TRUE /\ down = 0 /\ frame = NoFrame /\ posted = 0 /\ lost = FALSE

-------------------------------------------------------------------------------
(* The chip.  It keeps a frame until it is acknowledged, pulsing INT, and  *)
(* posts one frame with no points when the last finger has left.           *)

Fingers(n) ==
  /\ n # down
  /\ down' = n
  /\ UNCHANGED <<use_irq, irqVars, int_edge, timer, workVars, pmVars, awake, frame, posted, lost>>

Post ==
  /\ awake /\ frame = NoFrame
  /\ down # 0 \/ posted # 0
  /\ frame' = down
  /\ posted' = down
  /\ int_edge' = TRUE
  /\ UNCHANGED <<use_irq, irqVars, timer, workVars, pmVars, awake, down, lost>>

Pulse ==
  /\ awake /\ frame # NoFrame /\ ~int_edge
  /\ int_edge' = TRUE
  /\ UNCHANGED <<use_irq, irqVars, timer, workVars, pmVars, chipVars>>

-------------------------------------------------------------------------------
(* Masking, under irq_lock: the flag keeps the calls balanced.             *)

\* Mutant: the flag is not looked at.
IrqDisableAlways ==
  /\ irq_is_disable' = TRUE
  /\ depth' = depth + 1

IrqDisable ==
  IF irq_is_disable
  THEN UNCHANGED irqVars
  ELSE irq_is_disable' = TRUE /\ depth' = depth + 1

IrqEnable ==
  IF irq_is_disable
  THEN irq_is_disable' = FALSE /\ depth' = depth - 1
  ELSE UNCHANGED irqVars

\* goodix_ts_irq_handler
Interrupt ==
  /\ use_irq /\ int_edge /\ depth = 0
  /\ int_edge' = FALSE
  /\ IrqDisable
  /\ queued' = TRUE
  /\ UNCHANGED <<use_irq, timer, wpc, finger, pre_touch, btn, pmVars, chipVars>>

\* goodix_ts_timer_handler queues the work and starts the timer again.
Tick ==
  /\ timer
  /\ queued' = TRUE
  /\ UNCHANGED <<use_irq, irqVars, int_edge, timer, wpc, finger, pre_touch, btn,
                 pmVars, chipVars>>

-------------------------------------------------------------------------------
(* goodix_ts_work_func.                                                    *)

GoWork(from, to) == wpc = from /\ wpc' = to

WorkStart ==
  /\ queued /\ queued' = FALSE
  /\ GoWork("idle", "read")
  /\ UNCHANGED <<use_irq, irqVars, int_edge, timer, finger, pre_touch, btn,
                 pmVars, chipVars>>

\* Mutant: the error path returns without unmasking the line.
ReadErrorReturns ==
  /\ GoWork("read", "idle")
  /\ UNCHANGED <<use_irq, irqVars, int_edge, timer, queued, finger, pre_touch, btn,
                 pmVars, chipVars>>

\* The transfer fails, always if the chip sleeps.
ReadError ==
  /\ GoWork("read", "enable")
  /\ UNCHANGED <<use_irq, irqVars, int_edge, timer, queued, finger, pre_touch, btn,
                 pmVars, chipVars>>

\* Mutant: finger == 0 does not return early.
ReadNothingAcks ==
  /\ awake /\ frame = NoFrame
  /\ GoWork("read", "ack")
  /\ UNCHANGED <<use_irq, irqVars, int_edge, timer, queued, finger, pre_touch, btn,
                 pmVars, chipVars>>

\* Nothing new (finger == 0): no acknowledgement.
ReadNothing ==
  /\ awake /\ frame = NoFrame
  /\ GoWork("read", "enable")
  /\ UNCHANGED <<use_irq, irqVars, int_edge, timer, queued, finger, pre_touch, btn,
                 pmVars, chipVars>>

\* A status without the ready bit: nothing is reported, and yet it is acknowledged.
ReadNotReady ==
  /\ awake /\ frame = NoFrame
  /\ GoWork("read", "ack")
  /\ finger' = NotReady
  /\ UNCHANGED <<use_irq, irqVars, int_edge, timer, queued, pre_touch, btn, pmVars, chipVars>>

\* More points than GTP_MAX_TOUCH: the frame is acknowledged and not reported.
ReadTooMany ==
  /\ awake /\ frame > GTP_MAX_TOUCH
  /\ GoWork("read", "ack")
  /\ finger' = frame /\ lost' = FALSE
  /\ UNCHANGED <<use_irq, irqVars, int_edge, timer, queued, pre_touch, btn, pmVars,
                 awake, down, frame, posted>>

ReadFrame ==
  /\ awake /\ frame \in 0..GTP_MAX_TOUCH
  /\ GoWork("read", IF frame > 1 THEN "more" ELSE "report")
  /\ finger' = frame /\ lost' = FALSE
  /\ UNCHANGED <<use_irq, irqVars, int_edge, timer, queued, pre_touch, btn, pmVars,
                 awake, down, frame, posted>>

\* The other points' coordinates; the result of this read is not looked at.
ReadMore ==
  /\ GoWork("more", "report")
  /\ UNCHANGED <<use_irq, irqVars, int_edge, timer, queued, finger, pre_touch, btn,
                 pmVars, chipVars>>

\* Mutant: pre_touch is not kept, so that the release is never seen.
ReportForgets ==
  /\ GoWork("report", "ack")
  /\ btn' = IF finger > 0 THEN TRUE ELSE IF pre_touch > 0 THEN FALSE ELSE btn
  /\ pre_touch' = 0
  /\ UNCHANGED <<use_irq, irqVars, int_edge, timer, queued, finger, pmVars, chipVars>>

\* Each point presses BTN_TOUCH; a frame without points releases it if one was down.
Report ==
  /\ GoWork("report", "ack")
  /\ btn' = IF finger > 0 THEN TRUE ELSE IF pre_touch > 0 THEN FALSE ELSE btn
  /\ pre_touch' = finger
  /\ UNCHANGED <<use_irq, irqVars, int_edge, timer, queued, finger, pmVars, chipVars>>

\* end_cmd clears the chip's buffer status, whatever it has posted by now ...
Acknowledge ==
  /\ awake
  /\ GoWork("ack", "enable")
  /\ frame' = NoFrame /\ finger' = NoFrame
  /\ lost' = (lost \/ (frame # NoFrame /\ finger \notin 0..GTP_MAX_TOUCH))
  /\ UNCHANGED <<use_irq, irqVars, int_edge, timer, queued, pre_touch, btn, pmVars,
                 awake, down, posted>>

\* ... or the transfer fails.
AcknowledgeError ==
  /\ GoWork("ack", "enable")
  /\ finger' = NoFrame
  /\ UNCHANGED <<use_irq, irqVars, int_edge, timer, queued, pre_touch, btn, pmVars, chipVars>>

WorkEnd ==
  /\ GoWork("enable", "idle")
  /\ IF use_irq THEN IrqEnable ELSE UNCHANGED irqVars
  /\ UNCHANGED <<use_irq, int_edge, timer, queued, finger, pre_touch, btn,
                 pmVars, chipVars>>

WorkStep ==
  \/ WorkStart \/ ReadError \/ ReadNothing \/ ReadNotReady \/ ReadTooMany \/ ReadFrame
  \/ ReadMore \/ Report \/ Acknowledge \/ AcknowledgeError \/ WorkEnd

-------------------------------------------------------------------------------
(* Suspend and resume, called by the notifier, one at a time.  Driving the *)
(* INT pin as an output may itself be latched as an edge.                  *)

GoPm(from, to) == pm = from /\ pm' = to
PinDriven == int_edge' \in {int_edge, TRUE}

\* The screen is blanked: after a resume, or again.
Suspend ==
  /\ pm \in {"on", "off"} /\ pm' = "s_irq"
  /\ gtp_is_suspend' = TRUE
  /\ UNCHANGED <<use_irq, irqVars, int_edge, timer, workVars, chipVars>>

SuspendMask ==
  /\ GoPm("s_irq", "s_sleep")
  /\ IF use_irq THEN IrqDisable /\ UNCHANGED timer ELSE timer' = FALSE /\ UNCHANGED irqVars
  /\ UNCHANGED <<use_irq, int_edge, workVars, gtp_is_suspend, chipVars>>

\* gtp_enter_sleep: one of five writes gets through, or none does.
EnterSleep ==
  /\ GoPm("s_sleep", "off")
  /\ awake' \in {TRUE, FALSE}
  /\ PinDriven
  /\ UNCHANGED <<use_irq, irqVars, timer, workVars, gtp_is_suspend, down, frame, posted,
                 lost>>

\* The screen is unblanked: after a suspend, or again.
Resume ==
  /\ pm' = "r_wake" /\ pm \in {"on", "off"}
  /\ UNCHANGED <<use_irq, irqVars, int_edge, timer, workVars, gtp_is_suspend, chipVars>>

\* gtp_wakeup_sleep: the first i2c test succeeds ...
WakeUp ==
  /\ GoPm("r_wake", "r_cfg")
  /\ awake' = TRUE
  /\ PinDriven
  /\ UNCHANGED <<use_irq, irqVars, timer, workVars, gtp_is_suspend, down, frame, posted,
                 lost>>

\* gtp_reset_guitar: the chip is awake and has forgotten its frame.
ChipReset ==
  /\ awake' = TRUE
  /\ frame' = NoFrame /\ posted' = 0 /\ lost' = TRUE
  /\ PinDriven
  /\ UNCHANGED <<use_irq, irqVars, timer, workVars, gtp_is_suspend, down>>

\* ... or one after a reset, or none of ten although a reset took effect ...
WakeUpReset == GoPm("r_wake", "r_cfg") /\ ChipReset

\* ... or nothing reaches the chip: the failure is logged and the resume goes on.
WakeUpFails ==
  /\ GoPm("r_wake", "r_cfg")
  /\ PinDriven
  /\ UNCHANGED <<use_irq, irqVars, timer, workVars, gtp_is_suspend, chipVars>>

\* The watchdog's reset; a suspend waits for its end (l.2463) before it masks the line.
EsdReset == ~gtp_is_suspend /\ ChipReset /\ UNCHANGED pm

SendConfig ==
  /\ GoPm("r_cfg", "r_irq")
  /\ UNCHANGED <<use_irq, irqVars, int_edge, timer, workVars, gtp_is_suspend, chipVars>>

\* Mutant: the line stays masked after a resume.
ResumeUnmaskForgotten ==
  /\ GoPm("r_irq", "r_done")
  /\ timer' = ~use_irq
  /\ UNCHANGED <<use_irq, irqVars, int_edge, workVars, gtp_is_suspend, chipVars>>

ResumeUnmask ==
  /\ GoPm("r_irq", "r_done")
  /\ IF use_irq THEN IrqEnable /\ UNCHANGED timer ELSE timer' = TRUE /\ UNCHANGED irqVars
  /\ UNCHANGED <<use_irq, int_edge, workVars, gtp_is_suspend, chipVars>>

Resumed ==
  /\ GoPm("r_done", "on")
  /\ gtp_is_suspend' = FALSE
  /\ UNCHANGED <<use_irq, irqVars, int_edge, timer, workVars, chipVars>>

PmStep ==
  \/ SuspendMask \/ EnterSleep \/ WakeUp \/ WakeUpReset \/ WakeUpFails
  \/ SendConfig \/ ResumeUnmask \/ Resumed

-------------------------------------------------------------------------------
Next ==
  \/ \E n \in Frames : Fingers(n)
  \/ Post \/ Pulse \/ Interrupt \/ Tick
  \/ WorkStep
  \/ Suspend \/ Resume \/ PmStep \/ EsdReset

Spec == Init /\ [][Next]_vars

\* The chip scans and pulses, interrupts and ticks are delivered, the workqueue and
\* the notifier's caller run, and transfers to a chip that is awake succeed again
\* and again.
Fairness ==
  /\ WF_vars(Post) /\ WF_vars(Pulse) /\ WF_vars(Interrupt) /\ WF_vars(Tick)
  /\ WF_vars(WorkStep) /\ WF_vars(PmStep)
  /\ SF_vars(ReadFrame) /\ SF_vars(ReadTooMany) /\ SF_vars(Acknowledge)

FairSpec == Spec /\ Fairness

-------------------------------------------------------------------------------
(* Properties. *)

\* Handler, work, suspend and resume mask and unmask in any order, and the kernel's
\* count stays what the flag says: no unbalanced enable, no line masked twice.
IrqBalanced == depth = (IF irq_is_disable THEN 1 ELSE 0)

\* Whenever the line is masked, somebody is going to unmask it: the work that was
\* queued for it, or the resume that must follow a suspend.
SomeoneUnmasks ==
  irq_is_disable => queued \/ wpc # "idle" \/ pm # "on"

\* The panel does not go deaf: a masked line is unmasked, or the driver suspended.
IrqComesBack == irq_is_disable ~> (~irq_is_disable \/ gtp_is_suspend)

\* Unless the status said that no frame was ready (l.669, where a frame the chip posts
\* before end_cmd is thrown away unread), the acknowledgement throws away only the frame
\* that was just read and, if it had not too many points, reported.
AcknowledgesWhatItReported ==
  [][(wpc = "ack" /\ frame # NoFrame /\ frame' = NoFrame /\ finger # NotReady /\ ~lost)
       => /\ frame = finger
          /\ frame <= GTP_MAX_TOUCH => pre_touch = frame /\ (btn <=> frame > 0)]_vars

\* Once the chip's frame is acknowledged, BTN_TOUCH is what the chip last posted, unless
\* a reset, an unread frame or one with too many points has come between; the next
\* frame that is read puts it right.
ButtonFollowsChip ==
  ~lost /\ frame = NoFrame /\ wpc \notin {"more", "report"} => (btn <=> posted > 0)

\* A release the chip has posted is reported, whatever transfers fail, unless the driver
\* is suspended, the chip is reset, or end_cmd for a status that was not ready is
\* already on its way.
ReleaseReported ==
  frame = 0 /\ awake /\ ~(wpc = "ack" /\ finger = NotReady) ~>
    ~btn \/ gtp_is_suspend \/ (lost /\ frame = NoFrame)
===============================================================================

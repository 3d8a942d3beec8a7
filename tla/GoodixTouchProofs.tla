--------------------------- MODULE GoodixTouchProofs --------------------------
(***************************************************************************)
(* Proofs about the touch driver's event path, for any number of points:   *)
(* the masking of the interrupt line stays balanced and is always owed by  *)
(* somebody, BTN_TOUCH is what the chip last posted unless a frame was     *)
(* lost, and an acknowledgement discards only what was reported.           *)
(***************************************************************************)
EXTENDS GoodixTouch, TLAPS

\* The flag and the kernel's count, and who owes the unmasking.  A resume that has
\* come to its end has paid; without an interrupt the line is never masked.
MaskInv ==
  /\ IrqBalanced
  /\ irq_is_disable => use_irq
  /\ irq_is_disable => queued \/ wpc # "idle" \/ pm \notin {"on", "r_done"}

\* The button is down exactly if the last frame reported had points.
ButtonMatchesFrame == btn <=> pre_touch > 0

\* The frame in the chip's buffer is the last one it posted.
PostedFrame == frame # NoFrame => posted = frame

\* What the work has read for its report and its acknowledgement; a frame it is going
\* to report is not too long.
Holds ==
  /\ wpc \in {"more", "report"} => finger \in 0..GTP_MAX_TOUCH
  /\ wpc = "ack" => finger \in Frames \cup {NotReady}

\* Unless something was lost, what the work has read is still in the chip's buffer, and
\* what it acknowledges it has reported.
Kept ==
  ~lost => /\ wpc \in {"more", "report"} => frame = finger
           /\ wpc = "ack" /\ finger # NotReady =>
                frame = finger /\ (finger <= GTP_MAX_TOUCH => pre_touch = finger)

FrameInv == ButtonMatchesFrame /\ PostedFrame /\ Holds /\ Kept /\ ButtonFollowsChip

TouchInv == TypeOK /\ MaskInv /\ FrameInv

-------------------------------------------------------------------------------
\* The initial state is in the invariant.
LEMMA TouchInit == Init => TouchInv
<1> SUFFICES ASSUME Init PROVE TouchInv
  OBVIOUS
<1>1. TypeOK
  <2>1. timer \in BOOLEAN
    <3>1. CASE use_irq
      <4>1. timer = FALSE
        BY <3>1 DEF Init
      <4> QED
        BY <4>1
    <3>2. CASE ~use_irq
      <4>1. timer = TRUE
        BY <3>2 DEF Init
      <4> QED
        BY <4>1
    <3> QED
      BY <3>1, <3>2
  <2>2. 0 \in Frames /\ 0 \in 0..GTP_MAX_TOUCH
    BY TouchAssumption DEF Frames
  <2>3. /\ use_irq \in BOOLEAN /\ irq_is_disable \in BOOLEAN /\ int_edge \in BOOLEAN
        /\ queued \in BOOLEAN /\ lost \in BOOLEAN /\ btn \in BOOLEAN
        /\ gtp_is_suspend \in BOOLEAN /\ awake \in BOOLEAN
    BY DEF Init
  <2>4. /\ depth \in Int /\ wpc \in WorkPc /\ pm \in PmPc
        /\ finger \in Frames \cup {NoFrame, NotReady} /\ frame \in Frames \cup {NoFrame}
        /\ pre_touch \in 0..GTP_MAX_TOUCH /\ down \in Frames /\ posted \in Frames
    BY <2>2 DEF Init, WorkPc, PmPc
  <2> QED
    BY <2>1, <2>3, <2>4 DEF TypeOK
<1>2. MaskInv
  BY DEF Init, MaskInv, IrqBalanced
<1>3. FrameInv
  BY DEF Init, FrameInv, ButtonMatchesFrame, PostedFrame, Holds, Kept, ButtonFollowsChip
<1> QED
  BY <1>1, <1>2, <1>3 DEF TouchInv

-------------------------------------------------------------------------------
(* Masking. *)

\* gtp_irq_disable leaves the line masked, gtp_irq_enable unmasked, and both the
\* count in agreement with the flag, whatever the state they are called in.
LEMMA MaskKeepsBalance ==
  ASSUME IrqBalanced, irq_is_disable \in BOOLEAN, IrqDisable
  PROVE  irq_is_disable' = TRUE /\ IrqBalanced'
BY DEF IrqBalanced, IrqDisable, irqVars

LEMMA UnmaskKeepsBalance ==
  ASSUME IrqBalanced, irq_is_disable \in BOOLEAN, IrqEnable
  PROVE  irq_is_disable' = FALSE /\ IrqBalanced'
BY DEF IrqBalanced, IrqEnable, irqVars

\* What a step that touches neither the flag nor the count leaves alone.
LEMMA MaskUntouched ==
  ASSUME MaskInv, UNCHANGED irqVars, UNCHANGED use_irq
  PROVE  IrqBalanced' /\ irq_is_disable' = irq_is_disable /\ (irq_is_disable' => use_irq')
BY DEF MaskInv, IrqBalanced, irqVars

\* A debt is kept by a step that leaves the work and the suspend or resume where they
\* are, or moves the latter on to anything but its end.
LEMMA DebtKept ==
  ASSUME MaskInv, irq_is_disable' = irq_is_disable,
         queued' = queued \/ queued' = TRUE \/ wpc' # "idle", wpc' = wpc \/ wpc' # "idle",
         pm' = pm \/ pm' \notin {"on", "r_done"} \/ pm = "r_done"
  PROVE  irq_is_disable' => queued' \/ wpc' # "idle" \/ pm' \notin {"on", "r_done"}
BY DEF MaskInv

\* Every step keeps the count balanced and the debt on somebody.
LEMMA MaskStep == ASSUME TypeOK, MaskInv, Next PROVE MaskInv'
<1>1. CASE Interrupt
  <2>1. irq_is_disable' = TRUE /\ IrqBalanced'
    BY <1>1, MaskKeepsBalance DEF Interrupt, TypeOK, MaskInv
  <2> QED
    BY <1>1, <2>1 DEF Interrupt, MaskInv
<1>2. CASE WorkEnd
  <2>1. irq_is_disable' = FALSE /\ IrqBalanced'
    <3>1. CASE use_irq
      BY <1>2, <3>1, UnmaskKeepsBalance DEF WorkEnd, TypeOK, MaskInv
    <3>2. CASE ~use_irq
      BY <1>2, <3>2, MaskUntouched DEF WorkEnd, TypeOK, MaskInv
    <3> QED
      BY <3>1, <3>2
  <2> QED
    BY <2>1 DEF MaskInv
<1>3. CASE SuspendMask
  <2>1. IrqBalanced' /\ (irq_is_disable' => use_irq')
    <3>1. CASE use_irq
      BY <1>3, <3>1, MaskKeepsBalance DEF SuspendMask, TypeOK, MaskInv
    <3>2. CASE ~use_irq
      BY <1>3, <3>2, MaskUntouched DEF SuspendMask
    <3> QED
      BY <3>1, <3>2
  <2> QED
    BY <1>3, <2>1 DEF SuspendMask, GoPm, MaskInv
<1>4. CASE ResumeUnmask
  <2>1. irq_is_disable' = FALSE /\ IrqBalanced'
    <3>1. CASE use_irq
      BY <1>4, <3>1, UnmaskKeepsBalance DEF ResumeUnmask, TypeOK, MaskInv
    <3>2. CASE ~use_irq
      BY <1>4, <3>2, MaskUntouched DEF ResumeUnmask, TypeOK, MaskInv
    <3> QED
      BY <3>1, <3>2
  <2> QED
    BY <2>1 DEF MaskInv
<1>5. CASE (\E n \in Frames : Fingers(n)) \/ Post \/ Pulse \/ Tick
  <2>1. /\ UNCHANGED <<irqVars, use_irq, wpc, pm>>
        /\ queued' = queued \/ queued' = TRUE
    BY <1>5 DEF Fingers, Post, Pulse, Tick, workVars, pmVars
  <2> QED
    BY <2>1, MaskUntouched, DebtKept DEF MaskInv
<1>6. CASE WorkStep /\ ~WorkEnd
  <2>1. /\ UNCHANGED <<irqVars, use_irq, pm>>
        /\ wpc' # "idle"
    BY <1>6 DEF WorkStep, GoWork, WorkStart, ReadError, ReadNothing, ReadNotReady, ReadTooMany,
       ReadFrame, ReadMore, Report, Acknowledge, AcknowledgeError, pmVars
  <2> QED
    BY <2>1, MaskUntouched DEF MaskInv
<1>7. CASE (Suspend \/ Resume \/ PmStep \/ EsdReset) /\ ~SuspendMask /\ ~ResumeUnmask
  <2>1. /\ UNCHANGED <<irqVars, use_irq, queued, wpc>>
        /\ pm' = pm \/ pm' \notin {"on", "r_done"} \/ pm = "r_done"
    BY <1>7 DEF Suspend, Resume, PmStep, GoPm, EnterSleep, WakeUp, WakeUpReset, WakeUpFails,
       ChipReset, EsdReset, SendConfig, Resumed, workVars
  <2> QED
    BY <2>1, MaskUntouched, DebtKept DEF MaskInv
<1> QED
  BY <1>1, <1>2, <1>3, <1>4, <1>5, <1>6, <1>7 DEF Next

-------------------------------------------------------------------------------
(* Types and frames. *)

\* The count of disables stays a number.
LEMMA DepthType ==
  ASSUME TypeOK, IrqDisable \/ IrqEnable \/ UNCHANGED irqVars
  PROVE  irq_is_disable' \in BOOLEAN /\ depth' \in Int
<1>1. CASE IrqDisable
  <2>1. depth' \in Int
    BY <1>1 DEF TypeOK, IrqDisable, irqVars
  <2>2. irq_is_disable' \in BOOLEAN
    BY <1>1, Zenon DEF TypeOK, IrqDisable, irqVars
  <2> QED
    BY <2>1, <2>2
<1>2. CASE IrqEnable
  <2>1. depth' \in Int
    BY <1>2 DEF TypeOK, IrqEnable, irqVars
  <2>2. irq_is_disable' \in BOOLEAN
    BY <1>2, Zenon DEF TypeOK, IrqEnable, irqVars
  <2> QED
    BY <2>1, <2>2
<1>3. CASE UNCHANGED irqVars
  BY <1>3 DEF TypeOK, irqVars
<1> QED
  BY <1>1, <1>2, <1>3

\* Every step keeps the types; the only frames reported are those that fit.
LEMMA TypeStep == ASSUME TypeOK, FrameInv, Next PROVE TypeOK'
<1> USE DEF TypeOK
<1>1. CASE \E n \in Frames : Fingers(n)
  BY <1>1 DEF Fingers, irqVars, workVars, pmVars
<1>2. CASE Post \/ Pulse \/ Tick
  BY <1>2 DEF Post, Pulse, Tick, irqVars, workVars, pmVars, chipVars
<1>3. CASE Interrupt
  BY <1>3, DepthType DEF Interrupt, pmVars, chipVars
<1>4. CASE WorkStart \/ ReadError \/ ReadNothing
  BY <1>4 DEF WorkStart, ReadError, ReadNothing, GoWork, WorkPc, irqVars, pmVars, chipVars
<1>5. CASE ReadNotReady \/ ReadTooMany \/ ReadFrame \/ ReadMore
  <2>1. /\ wpc' \in WorkPc /\ finger' \in Frames \cup {NoFrame, NotReady}
        /\ lost' \in BOOLEAN
    BY <1>5 DEF ReadNotReady, ReadTooMany, ReadFrame, ReadMore, GoWork, WorkPc, chipVars
  <2> QED
    BY <1>5, <2>1 DEF ReadNotReady, ReadTooMany, ReadFrame, ReadMore, irqVars, pmVars, chipVars
<1>6. CASE Report
  <2>1. wpc' \in WorkPc /\ pre_touch' \in 0..GTP_MAX_TOUCH
    BY <1>6 DEF Report, GoWork, WorkPc, FrameInv, Holds
  <2>2. btn' \in BOOLEAN
    BY <1>6 DEF Report
  <2> QED
    BY <1>6, <2>1, <2>2 DEF Report, irqVars, pmVars, chipVars
<1>7. CASE Acknowledge \/ AcknowledgeError
  <2>1. lost' \in BOOLEAN
    BY <1>7 DEF Acknowledge, AcknowledgeError, chipVars
  <2> QED
    BY <1>7, <2>1 DEF Acknowledge, AcknowledgeError, GoWork, WorkPc, irqVars, pmVars, chipVars
<1>8. CASE WorkEnd
  <2>1. irq_is_disable' \in BOOLEAN /\ depth' \in Int
    BY <1>8, DepthType DEF WorkEnd
  <2> QED
    BY <1>8, <2>1 DEF WorkEnd, GoWork, WorkPc, pmVars, chipVars
<1>9. CASE Suspend \/ Resume \/ SendConfig \/ Resumed
  BY <1>9 DEF Suspend, Resume, SendConfig, Resumed, GoPm, PmPc, irqVars, workVars, chipVars
<1>10. CASE EnterSleep \/ WakeUp \/ WakeUpFails
  <2>1. CASE EnterSleep \/ WakeUp
    BY <2>1 DEF EnterSleep, WakeUp, GoPm, PmPc, PinDriven, irqVars, workVars
  <2>2. CASE WakeUpFails
    <3>1. /\ pm' = "r_cfg" /\ int_edge' \in BOOLEAN
          /\ UNCHANGED <<use_irq, irqVars, timer, workVars, gtp_is_suspend>>
          /\ UNCHANGED <<awake, down, frame, posted, lost>>
      BY <2>2 DEF WakeUpFails, GoPm, PinDriven, chipVars
    <3> QED
      BY <3>1 DEF PmPc, irqVars, workVars
  <2> QED
    BY <1>10, <2>1, <2>2
<1>11. CASE WakeUpReset \/ EsdReset
  <2>1. 0 \in Frames
    BY TouchAssumption DEF Frames
  <2> QED
    BY <1>11, <2>1 DEF WakeUpReset, EsdReset, ChipReset, GoPm, PmPc, PinDriven, irqVars, workVars
<1>12. CASE SuspendMask \/ ResumeUnmask
  <2>1. irq_is_disable' \in BOOLEAN /\ depth' \in Int
    BY <1>12, DepthType DEF SuspendMask, ResumeUnmask
  <2>2. timer' \in BOOLEAN
    BY <1>12 DEF SuspendMask, ResumeUnmask
  <2> QED
    BY <1>12, <2>1, <2>2 DEF SuspendMask, ResumeUnmask, GoPm, PmPc, workVars, chipVars
<1> QED
  BY <1>1, <1>2, <1>3, <1>4, <1>5, <1>6, <1>7, <1>8, <1>9, <1>10, <1>11, <1>12
  DEF Next, WorkStep, PmStep

\* What a step that changes neither the work's progress nor the frames leaves alone.
LEMMA FrameUntouched ==
  ASSUME FrameInv, UNCHANGED <<wpc, finger, pre_touch, btn, frame, posted, lost>>
  PROVE  FrameInv'
BY DEF FrameInv, ButtonMatchesFrame, PostedFrame, Holds, Kept, ButtonFollowsChip

\* Every step keeps what the work holds in agreement with the chip and the button.
LEMMA FrameStep == ASSUME TypeOK, FrameInv, Next PROVE FrameInv'
<1> USE DEF FrameInv, ButtonMatchesFrame, PostedFrame, Holds, Kept, ButtonFollowsChip
<1>0. /\ \A f \in Frames : f # NoFrame /\ f # NotReady /\ f >= 0 /\ f \in Int
      /\ 0..GTP_MAX_TOUCH \subseteq Frames /\ NoFrame # NotReady
  BY TouchAssumption DEF Frames, NoFrame, NotReady
<1>1. CASE Post
  BY <1>0, <1>1, TouchAssumption DEF Post, workVars, TypeOK
<1>2. CASE (\E n \in Frames : Fingers(n)) \/ Pulse \/ Tick \/ Interrupt
  <2>1. UNCHANGED <<wpc, finger, pre_touch, btn, frame, posted, lost>>
    BY <1>2 DEF Fingers, Pulse, Tick, Interrupt, workVars, chipVars
  <2> QED
    BY <2>1, FrameUntouched
<1>3. CASE WorkStart \/ ReadError \/ ReadNothing \/ ReadNotReady
  BY <1>3 DEF WorkStart, ReadError, ReadNothing, ReadNotReady, GoWork, chipVars
<1>4. CASE ReadTooMany \/ ReadFrame
  <2>1. frame \in Frames
    <3>1. CASE ReadTooMany
      BY <3>1, TouchAssumption DEF ReadTooMany, TypeOK, NoFrame
    <3>2. CASE ReadFrame
      BY <3>2, <1>0 DEF ReadFrame
    <3> QED
      BY <1>4, <3>1, <3>2
  <2>2. /\ UNCHANGED <<pre_touch, btn, frame, posted>>
        /\ finger' = frame /\ lost' = FALSE
        /\ \/ wpc' = "ack" /\ frame > GTP_MAX_TOUCH
           \/ wpc' \in {"more", "report"} /\ frame \in 0..GTP_MAX_TOUCH
    BY <1>4 DEF ReadTooMany, ReadFrame, GoWork
  <2>3. ~(frame > GTP_MAX_TOUCH /\ frame <= GTP_MAX_TOUCH)
    BY <1>0, <2>1, TouchAssumption
  <2> QED
    BY <1>0, <2>1, <2>2, <2>3
<1>5. CASE ReadMore
  BY <1>5 DEF ReadMore, GoWork, chipVars
<1>6. CASE Report
  <2>1. finger \in 0..GTP_MAX_TOUCH /\ finger \in Frames
    BY <1>0, <1>6 DEF Report, GoWork
  <2>2. btn' <=> pre_touch' > 0
    BY <1>6, <2>1, TouchAssumption DEF Report, TypeOK
  <2> QED
    BY <1>0, <1>6, <2>1, <2>2 DEF Report, GoWork, chipVars
<1>7. CASE Acknowledge
  <2>1. /\ wpc = "ack" /\ wpc' = "enable" /\ frame' = NoFrame
        /\ UNCHANGED <<pre_touch, btn, posted>>
        /\ lost' <=> (lost \/ (frame # NoFrame /\ finger \notin 0..GTP_MAX_TOUCH))
    BY <1>7 DEF Acknowledge, GoWork
  <2>2. ASSUME ~lost' PROVE btn' <=> posted' > 0
    <3>1. ~lost /\ (frame = NoFrame \/ finger \in 0..GTP_MAX_TOUCH)
      BY <2>1, <2>2
    <3>2. CASE frame = NoFrame
      BY <2>1, <3>1, <3>2
    <3>3. CASE finger \in 0..GTP_MAX_TOUCH
      <4>1. finger # NotReady /\ finger # NoFrame /\ finger <= GTP_MAX_TOUCH
        BY <1>0, <3>3, TouchAssumption
      <4> QED
        BY <2>1, <3>1, <4>1
    <3> QED
      BY <3>1, <3>2, <3>3
  <2> QED
    BY <2>1, <2>2
<1>8. CASE AcknowledgeError \/ WorkEnd
  BY <1>0, <1>8 DEF AcknowledgeError, WorkEnd, GoWork, chipVars
<1>9. CASE Suspend \/ Resume \/ SendConfig \/ Resumed \/ EnterSleep \/ WakeUp \/ WakeUpFails
  <2>1. UNCHANGED <<wpc, finger, pre_touch, btn, frame, posted, lost>>
    BY <1>9 DEF Suspend, Resume, SendConfig, Resumed, EnterSleep, WakeUp, WakeUpFails, workVars,
       chipVars
  <2> QED
    BY <2>1, FrameUntouched
<1>10. CASE SuspendMask \/ ResumeUnmask
  <2>1. UNCHANGED <<wpc, finger, pre_touch, btn, frame, posted, lost>>
    BY <1>10 DEF SuspendMask, ResumeUnmask, workVars, chipVars
  <2> QED
    BY <2>1, FrameUntouched
<1>11. CASE WakeUpReset \/ EsdReset
  BY <1>11 DEF WakeUpReset, EsdReset, ChipReset, workVars
<1> QED
  BY <1>1, <1>2, <1>3, <1>4, <1>5, <1>6, <1>7, <1>8, <1>9, <1>10, <1>11 DEF Next, WorkStep, PmStep

\* The invariant is inductive.
LEMMA TouchNext == TouchInv /\ [Next]_vars => TouchInv'
<1>1. ASSUME TouchInv, UNCHANGED vars PROVE TouchInv'
  BY <1>1 DEF vars, irqVars, workVars, pmVars, chipVars, TouchInv, TypeOK, MaskInv, IrqBalanced,
     FrameInv, ButtonMatchesFrame, PostedFrame, Holds, Kept, ButtonFollowsChip
<1> QED
  BY <1>1, MaskStep, TypeStep, FrameStep DEF TouchInv

\* Every reachable state is in the invariant.
LEMMA TouchInvariant == Spec => []TouchInv
BY TouchInit, TouchNext, PTL DEF Spec

-------------------------------------------------------------------------------
\* The state of the driver and of the chip is well typed: no frame is reported that
\* has more points than the driver's buffers.
THEOREM TypeCorrect == Spec => []TypeOK
<1>1. TouchInv => TypeOK
  BY DEF TouchInv
<1> QED
  BY <1>1, TouchInvariant, PTL

\* The kernel's count of disables is what the driver's flag says, in whichever order
\* handler, work, suspend and resume mask and unmask the line.
THEOREM MaskingBalanced == Spec => []IrqBalanced
<1>1. TouchInv => IrqBalanced
  BY DEF TouchInv, MaskInv
<1> QED
  BY <1>1, TouchInvariant, PTL

\* A masked line is always owed its unmasking by a work or a resume.
THEOREM UnmaskingOwed == Spec => []SomeoneUnmasks
<1>1. TouchInv => SomeoneUnmasks
  BY DEF TouchInv, MaskInv, SomeoneUnmasks
<1> QED
  BY <1>1, TouchInvariant, PTL

\* BTN_TOUCH is what the chip last posted once that is acknowledged, unless a frame was
\* lost by a reset, an acknowledgement of what was not read, or its length.
THEOREM ButtonFollows == Spec => []ButtonFollowsChip
<1>1. TouchInv => ButtonFollowsChip
  BY DEF TouchInv, FrameInv
<1> QED
  BY <1>1, TouchInvariant, PTL

\* After a status that was ready, end_cmd throws away the frame that was read, and
\* reported unless it was too long.
THEOREM AcknowledgesReported == Spec => AcknowledgesWhatItReported
<1> DEFINE A == (wpc = "ack" /\ frame # NoFrame /\ frame' = NoFrame /\ finger # NotReady /\ ~lost)
                  => /\ frame = finger
                     /\ frame <= GTP_MAX_TOUCH => pre_touch = frame /\ (btn <=> frame > 0)
<1>1. TouchInv => A
  BY DEF TouchInv, FrameInv, Kept, ButtonMatchesFrame
<1>2. TouchInv /\ [Next]_vars => [A]_vars
  BY <1>1
<1> QED
  BY <1>2, TouchInvariant, PTL DEF Spec, AcknowledgesWhatItReported
===============================================================================

------------------------------ MODULE KnobProofs ------------------------------
(***************************************************************************)
(* Proofs about the knob driver as a whole.  First its interrupt side,     *)
(* KnobIrq: with all lines on one bank of the controller the handlers      *)
(* exclude each other, which is the only thing that protects val and the   *)
(* two words of the input device.  Then the composition: each of its steps *)
(* is one of the interrupt side or leaves it alone, and likewise for the   *)
(* queue, so that what is proved of either holds of the whole.  Last, the  *)
(* way of a code from a turn of the knob to the application.               *)
(***************************************************************************)
EXTENDS Knob, TLAPS

\* The queue and what KnobQueueProofs proves of it.
QueueP == INSTANCE KnobQueueProofs

-------------------------------------------------------------------------------
(* The interrupt side. *)

LEMMA LinesKnown == Lines \subseteq {"left1", "left2", "right1", "right2"}
  BY KnobsAssumption DEF Lines, Pair

\* GPIOs 102 to 105 are in one group of 16.
LEMMA OneBank == \A l, m \in Lines : SameBank(l, m)
<1>1. /\ Gpio.left1 \div 16 = 6 /\ Gpio.left2 \div 16 = 6
      /\ Gpio.right1 \div 16 = 6 /\ Gpio.right2 \div 16 = 6
  BY DEF Gpio
<1>2. \A l \in Lines : Gpio[l] \div 16 = 6
  BY <1>1, LinesKnown DEF Gpio
<1> QED BY <1>2 DEF SameBank

LEMMA WorksKnown == \A l \in Lines, b \in BOOLEAN : WorkFor(l, b) \in AllWorks
  BY DEF WorkFor, AllWorks, KnobOf, Pair

LEMMA HomeKnob == \A l \in Lines : KnobOf(l) \in Knobs
  BY KnobsAssumption DEF KnobOf, Lines, Pair

LEMMA LevelIsBoolean == ASSUME NEW l, NEW p PROVE High(l, p) \in BOOLEAN
<1>1. CASE l \in {"left1", "right1"}
  <2>1. High(l, p) = (p \in {1, 2})
    BY <1>1 DEF High
  <2> QED BY <2>1
<1>2. CASE l \notin {"left1", "right1"}
  <2>1. High(l, p) = (p \in {2, 3})
    BY <1>2 DEF High
  <2> QED BY <2>1
<1> QED BY <1>1, <1>2

\* Type correctness: the encoder stays in its cycle and only known works are queued.
THEOREM TypeCorrect == Spec => []TypeOK
<1>1. Init => TypeOK
  <2> SUFFICES ASSUME Init PROVE TypeOK
    OBVIOUS
  <2>1. phase \in [Knobs -> 0..3]
    BY DEF Init
  <2>2. val \in BOOLEAN /\ sampled \in [Lines -> BOOLEAN]
    BY Zenon DEF Init
  <2>3. /\ edge \in [Lines -> Edges] /\ about \in [Lines -> Edges] /\ ipc \in [Lines -> IrqPc]
        /\ key \subseteq Lines /\ keybit \subseteq Lines /\ pending \subseteq AllWorks
    BY DEF Init, Edges, IrqPc
  <2> QED BY <2>1, <2>2, <2>3 DEF TypeOK
<1>2. TypeOK /\ [Next]_vars => TypeOK'
  <2> SUFFICES ASSUME TypeOK, [Next]_vars PROVE TypeOK'
    OBVIOUS
  <2> USE DEF TypeOK, IrqPc, Edges, GoIrq
  <2>1. ASSUME NEW k \in Knobs, NEW d \in Directions, Turn(k, d) PROVE TypeOK'
    <3>1. NextPhase(phase[k], d) \in 0..3
      BY DEF NextPhase
    <3> QED BY <2>1, <3>1 DEF Turn, Directions
  <2>2. ASSUME NEW l \in Lines, IrqStep(l) PROVE TypeOK'
    <3>1. CASE Dispatch(l)
      BY <3>1 DEF Dispatch
    <3>2. CASE Sample(l)
      <4>1. High(Other[l], phase[KnobOf(l)]) \in BOOLEAN
        BY LevelIsBoolean
      <4> QED BY <3>2, <4>1 DEF Sample
    <3>3. CASE ForceKey(l) \/ ForceKeybit(l) \/ Report(l)
      BY <3>3 DEF ForceKey, ForceKeybit, Report
    <3>4. CASE ScheduleWork(l)
      BY <3>4, WorksKnown DEF ScheduleWork
    <3> QED BY <2>2, <3>1, <3>2, <3>3, <3>4 DEF IrqStep
  <2>3. ASSUME NEW w \in pending, TakeWork(w) PROVE TypeOK'
    BY <2>3 DEF TakeWork, irqVars
  <2>4. CASE UNCHANGED vars
    BY <2>4 DEF vars, irqVars
  <2> QED BY <2>1, <2>2, <2>3, <2>4 DEF Next
<1> QED BY <1>1, <1>2, PTL DEF Spec

-------------------------------------------------------------------------------
(* At most one handler runs; it owns val, key and keybit, and what it has  *)
(* put there stays until it is done.                                       *)

HandlersApart == \A l, m \in Lines : ipc[l] # "idle" /\ ipc[m] # "idle" => l = m

WordsOwned ==
  \A l \in Lines :
    /\ ipc[l] \in {"keybit", "report"} => key = IF val THEN {} ELSE {l}
    /\ ipc[l] = "report" => keybit = {l}

\* A handler that was started for a turn and has sampled before the next one holds
\* the sample of that turn's direction; one that has not sampled can still do so.
TurnRead ==
  \A l \in Lines :
    /\ edge[l] \in Directions =>
         (High(Other[l], phase[KnobOf(l)]) <=> edge[l] = "lag")
    /\ ipc[l] = "sample" /\ about[l] \in Directions =>
         (High(Other[l], phase[KnobOf(l)]) <=> about[l] = "lag")
    /\ ipc[l] \in {"key", "keybit", "report", "schedule"} /\ about[l] \in Directions =>
         (val <=> about[l] = "lag")

IrqInv == HandlersApart /\ SampleIsMine /\ WordsOwned /\ TurnRead

\* Both lines' triggers tell the direction by the level of the other line.
LEMMA Quadrature ==
  ASSUME NEW l \in Lines, NEW p \in 0..3, NEW d \in Directions,
         Triggers(l, p, NextPhase(p, d))
  PROVE  High(Other[l], NextPhase(p, d)) <=> d = "lag"
<1>1. p \in {0, 1, 2, 3} /\ d \in {"lead", "lag"}
  BY DEF Directions
<1>2. /\ NextPhase(0, "lead") = 1 /\ NextPhase(1, "lead") = 2
      /\ NextPhase(2, "lead") = 3 /\ NextPhase(3, "lead") = 0
      /\ NextPhase(0, "lag") = 3 /\ NextPhase(1, "lag") = 0
      /\ NextPhase(2, "lag") = 1 /\ NextPhase(3, "lag") = 2
  BY DEF NextPhase
<1>3. CASE l \in {"left1", "right1"}
  BY <1>1, <1>2, <1>3 DEF Triggers, High, Other
<1>4. CASE l \in {"left2", "right2"}
  BY <1>1, <1>2, <1>4 DEF Triggers, High, Other
<1> QED BY <1>3, <1>4, LinesKnown

LEMMA IrqInvInit == Init => IrqInv
  BY DEF Init, IrqInv, HandlersApart, SampleIsMine, WordsOwned, TurnRead, Directions

LEMMA IrqInvStep == TypeOK /\ IrqInv /\ [Next]_vars => IrqInv'
<1> SUFFICES ASSUME TypeOK, IrqInv, [Next]_vars PROVE IrqInv'
  OBVIOUS
<1> USE DEF TypeOK, IrqInv, HandlersApart, GoIrq
<1>1. ASSUME NEW k \in Knobs, NEW d \in Directions, Turn(k, d) PROVE IrqInv'
  <2>1. HandlersApart' /\ SampleIsMine' /\ WordsOwned'
    BY <1>1 DEF Turn, SampleIsMine, WordsOwned
  <2>2. ASSUME NEW l \in Lines PROVE TurnRead!(l)'
    <3>1. CASE l \in Pair[k]
      <4>1. KnobOf(l) = k
        BY <3>1, KnobsAssumption DEF KnobOf, Pair
      <4>2. phase'[k] = NextPhase(phase[k], d) /\ phase[k] \in 0..3
        BY <1>1 DEF Turn
      <4>3. edge'[l] \in Directions =>
              edge'[l] = d /\ Triggers(l, phase[k], NextPhase(phase[k], d))
        BY <1>1, <3>1 DEF Turn, Directions
      <4>4. edge'[l] \in Directions =>
              (High(Other[l], phase'[KnobOf(l)]) <=> edge'[l] = "lag")
        BY <4>1, <4>2, <4>3, Quadrature
      <4>5. ipc'[l] = "sample" => about'[l] = "moved"
        BY <1>1, <3>1 DEF Turn
      <4>6. ipc'[l] # "sample" => about'[l] = about[l] /\ val' = val /\ ipc'[l] = ipc[l]
        BY <1>1 DEF Turn
      <4> QED BY <4>4, <4>5, <4>6 DEF TurnRead, Directions
    <3>2. CASE l \notin Pair[k]
      <4>1. KnobOf(l) \in Knobs /\ KnobOf(l) # k
        BY <3>2, KnobsAssumption DEF KnobOf, Lines, Pair
      <4>2. /\ phase'[KnobOf(l)] = phase[KnobOf(l)] /\ edge'[l] = edge[l]
            /\ about'[l] = about[l] /\ ipc' = ipc /\ val' = val
        BY <1>1, <3>2, <4>1 DEF Turn
      <4> QED BY <4>2 DEF TurnRead
    <3> QED BY <3>1, <3>2
  <2> QED BY <2>1, <2>2 DEF TurnRead
<1>2. ASSUME NEW l \in Lines, IrqStep(l) PROVE IrqInv'
  <2>1. CASE Dispatch(l)
    <3>1. \A m \in Lines : ipc[m] = "idle"
      BY <2>1, OneBank DEF Dispatch
    <3> QED BY <2>1, <3>1 DEF Dispatch, SampleIsMine, WordsOwned, TurnRead, Directions
  <2>2. CASE Sample(l)
    <3>1. \A m \in Lines : m # l => ipc[m] = "idle"
      BY <2>2 DEF Sample
    <3> QED BY <2>2, <3>1 DEF Sample, SampleIsMine, WordsOwned, TurnRead
  <2>3. CASE ForceKey(l) \/ ForceKeybit(l) \/ Report(l)
    <3>1. \A m \in Lines : m # l => ipc[m] = "idle"
      BY <2>3 DEF ForceKey, ForceKeybit, Report
    <3> QED BY <2>3, <3>1 DEF ForceKey, ForceKeybit, Report, SampleIsMine, WordsOwned, TurnRead
  <2>4. CASE ScheduleWork(l)
    <3>1. \A m \in Lines : m # l => ipc[m] = "idle"
      BY <2>4 DEF ScheduleWork
    <3> QED BY <2>4, <3>1 DEF ScheduleWork, SampleIsMine, WordsOwned, TurnRead
  <2> QED BY <1>2, <2>1, <2>2, <2>3, <2>4 DEF IrqStep
<1>3. ASSUME NEW w \in pending, TakeWork(w) PROVE IrqInv'
  BY <1>3 DEF TakeWork, irqVars, SampleIsMine, WordsOwned, TurnRead
<1>4. CASE UNCHANGED vars
  BY <1>4 DEF vars, irqVars, SampleIsMine, WordsOwned, TurnRead
<1> QED BY <1>1, <1>2, <1>3, <1>4 DEF Next

LEMMA IrqInvariant == Spec => []IrqInv
  BY IrqInvInit, IrqInvStep, TypeCorrect, PTL DEF Spec

\* val is what the running handler sampled itself.
THEOREM SampleKept == Spec => []SampleIsMine
<1>1. IrqInv => SampleIsMine
  BY DEF IrqInv
<1> QED BY <1>1, IrqInvariant, PTL

\* The input core passes on the event of every interrupt.
THEOREM EventsPass == Spec => []NoEventFiltered
<1>1. TypeOK /\ IrqInv => NoEventFiltered
  BY DEF TypeOK, IrqInv, WordsOwned, NoEventFiltered, Passes
<1> QED BY <1>1, IrqInvariant, TypeCorrect, PTL

\* Both lines of a knob schedule the work of the direction it was turned in.
THEOREM DirectionCorrect == Spec => []DirectionKept
<1>1. TypeOK /\ IrqInv => DirectionKept
  <2> SUFFICES ASSUME TypeOK, IrqInv, NEW l \in Lines, ipc[l] = "schedule",
                      about[l] \in Directions
               PROVE  WorkFor(l, val) = WorkOfTurn(KnobOf(l), about[l])
    BY DEF DirectionKept
  <2>1. val <=> about[l] = "lag"
    BY DEF IrqInv, TurnRead
  <2>2. val = (about[l] = "lag")
    BY <2>1 DEF TypeOK
  <2>3. KnobOf(IF KnobOf(l) = "left" THEN "left1" ELSE "right1") = KnobOf(l)
    BY DEF KnobOf, Pair
  <2> QED BY <2>2, <2>3 DEF WorkFor, WorkOfTurn
<1> QED BY <1>1, IrqInvariant, TypeCorrect, PTL

-------------------------------------------------------------------------------
(* The composition. *)

\* What a handler's last step schedules is one of the works of the turned knobs.
LEMMA WorkOfKnob ==
  ASSUME NEW l \in Lines, NEW b \in BOOLEAN
  PROVE  WorkFor(l, b) = WorkOfTurn(KnobOf(l), IF b THEN "lag" ELSE "lead")
BY LinesKnown DEF WorkFor, WorkOfTurn, KnobOf, Pair

LEMMA WorkKnown ==
  ASSUME NEW l \in Lines, NEW b \in BOOLEAN
  PROVE  WorkFor(l, b) \in Works
<1>1. (IF b THEN "lag" ELSE "lead") \in Directions
  BY DEF Directions
<1> QED
  BY <1>1, WorkOfKnob, HomeKnob DEF Works

\* A step of the whole is a step of the interrupt side, or leaves it alone: the work
\* function that starts is its TakeWork.
LEMMA IrqSide == [KnobNext]_knobVars => [Next]_vars
<1> SUFFICES ASSUME [KnobNext]_knobVars PROVE [Next]_vars
  OBVIOUS
<1>1. CASE \E k \in Knobs, d \in Directions : KnobTurn(k, d)
  BY <1>1 DEF KnobTurn, Next
<1>2. CASE \E l \in Lines : Handle(l)
  BY <1>2 DEF Handle, Next
<1>3. ASSUME NEW w \in Works, Work(w) PROVE [Next]_vars
  <2>1. CASE Queue!Run(w)
    <3>1. w \in pending /\ TakeWork(w)
      BY <1>3, <2>1 DEF Work, Queue!Run, TakeWork, irqVars
    <3> QED
      BY <3>1 DEF Next
  <2>2. CASE ~Queue!Run(w)
    <3>1. UNCHANGED pending
      BY <1>3, <2>2 DEF Work, Queue!WorkStep, Queue!WorkLock, Queue!WorkStore, Queue!WorkDrop,
         Queue!WorkFlag, Queue!WorkUnlock, Queue!WorkWake
    <3> QED
      BY <1>3, <3>1 DEF Work, irqVars, vars
  <2> QED
    BY <2>1, <2>2
<1>4. ASSUME NEW r \in Readers, Call(r) \/ Read(r) PROVE [Next]_vars
  <2>1. UNCHANGED pending
    BY <1>4 DEF Call, Read, Queue!Call, Queue!ReadStep, Queue!Test, Queue!Prepare,
       Queue!CheckReady, Queue!CheckSignal, Queue!CheckSleep, Queue!Awake, Queue!ReadLock,
       Queue!ReadOut, Queue!ReadEmpty, Queue!ReadDec, Queue!ReadUnlock, Queue!Copy,
       Queue!Clear, Queue!workVars
  <2> QED
    BY <1>4, <2>1 DEF Call, Read, irqVars, vars
<1>5. CASE UNCHANGED knobVars
  BY <1>5 DEF knobVars, irqVars, vars
<1> QED
  BY <1>1, <1>2, <1>3, <1>4, <1>5 DEF KnobNext

\* What KnobIrq promises holds in the whole.
LEMMA IrqHolds == KnobSpec => [](TypeOK /\ IrqInv)
<1>1. KnobInit => Init
  BY DEF KnobInit
<1> QED
  BY <1>1, IrqSide, TypeCorrect, IrqInvariant, PTL DEF KnobSpec, Spec

\* It is a step of the queue, or leaves it alone: a handler's last step is its Schedule.
LEMMA QueueSide == TypeOK /\ [KnobNext]_knobVars => [QueueP!Next]_QueueP!vars
<1> SUFFICES ASSUME TypeOK, [KnobNext]_knobVars PROVE [QueueP!Next]_QueueP!vars
  OBVIOUS
<1>1. CASE \E k \in Knobs, d \in Directions : KnobTurn(k, d)
  BY <1>1 DEF KnobTurn, Turn, queueVars, QueueP!vars
<1>2. ASSUME NEW l \in Lines, Handle(l) PROVE [QueueP!Next]_QueueP!vars
  <2>1. CASE ScheduleWork(l)
    <3> DEFINE w == WorkFor(l, val)
    <3>1. w \in Works
      BY WorkKnown DEF TypeOK
    <3>2. QueueP!Schedule(w)
      BY <1>2, <2>1 DEF Handle, ScheduleWork, QueueP!Schedule, queueVars
    <3> QED
      BY <3>1, <3>2 DEF QueueP!Next
  <2>2. CASE ~ScheduleWork(l)
    <3>1. UNCHANGED pending
      BY <1>2, <2>2 DEF Handle, IrqStep, Dispatch, Sample, ForceKey,
         ForceKeybit, Report
    <3> QED
      BY <1>2, <3>1 DEF Handle, queueVars, QueueP!vars
  <2> QED
    BY <2>1, <2>2
<1>3. ASSUME NEW w \in Works, Work(w) PROVE [QueueP!Next]_QueueP!vars
  <2>1. QueueP!WorkStep(w)
    BY <1>3 DEF Work, Queue!WorkStep, Queue!Run, Queue!WorkLock, Queue!WorkStore,
       Queue!WorkDrop, Queue!WorkFlag, Queue!WorkUnlock, Queue!WorkWake, Queue!GoWork,
       Queue!KnobData, Queue!Free, Queue!callVars,
       QueueP!WorkStep, QueueP!Run, QueueP!WorkLock, QueueP!WorkStore,
       QueueP!WorkDrop, QueueP!WorkFlag, QueueP!WorkUnlock, QueueP!WorkWake, QueueP!GoWork,
       QueueP!KnobData, QueueP!Free, QueueP!callVars
  <2> QED
    BY <2>1 DEF QueueP!Next
<1>4. ASSUME NEW r \in Readers, Call(r) \/ Read(r) PROVE [QueueP!Next]_QueueP!vars
  <2>1. QueueP!Call(r) \/ QueueP!ReadStep(r)
    BY <1>4 DEF Call, Read, Queue!Call, Queue!ReadStep, Queue!Test, Queue!Prepare,
       Queue!CheckReady, Queue!CheckSignal, Queue!CheckSleep, Queue!Awake, Queue!ReadLock,
       Queue!ReadOut, Queue!ReadEmpty, Queue!ReadDec, Queue!ReadUnlock, Queue!Copy,
       Queue!Clear, Queue!workVars, Queue!GoRead, Queue!Free, Queue!callVars,
       QueueP!Call, QueueP!ReadStep, QueueP!Test, QueueP!Prepare,
       QueueP!CheckReady, QueueP!CheckSignal, QueueP!CheckSleep, QueueP!Awake, QueueP!ReadLock,
       QueueP!ReadOut, QueueP!ReadEmpty, QueueP!ReadDec, QueueP!ReadUnlock, QueueP!Copy,
       QueueP!Clear, QueueP!workVars, QueueP!GoRead, QueueP!Free, QueueP!callVars
  <2> QED
    BY <2>1 DEF QueueP!Next
<1>5. CASE UNCHANGED knobVars
  BY <1>5 DEF knobVars, queueVars, QueueP!vars
<1> QED
  BY <1>1, <1>2, <1>3, <1>4, <1>5 DEF KnobNext

\* The assumptions of the queue's proofs hold of the works of the turned knobs.
LEMMA QueueAssumed == QueueP!KnobAssumption
<1>1. Works \subseteq DOMAIN QueueP!KnobData
  BY KnobsAssumption DEF Works, WorkOfTurn, WorkFor, KnobOf, Pair,
     QueueP!KnobData
<1> QED
  BY <1>1, QueueAssumption DEF QueueP!KnobAssumption, Queue!Free, QueueP!Free

LEMMA QueueHolds == KnobSpec => QueueP!Spec
<1>1. KnobInit => QueueP!Init
  BY DEF KnobInit, Queue!Init, QueueP!Init, Queue!Free, QueueP!Free
<1> QED
  BY <1>1, QueueSide, IrqHolds, PTL DEF KnobSpec, QueueP!Spec

-------------------------------------------------------------------------------
(* The codes and the turns. *)

\* What is known of the turn behind an edge and behind a handler that has been started.
Known(l, e) ==
  \/ e \in Directions /\ <<KnobOf(l), e>> \in turned
  \/ KnobOf(l) \in late

EdgesTraced ==
  \A l \in Lines :
    /\ edge[l] # "none" => Known(l, edge[l])
    /\ ipc[l] # "idle" => Known(l, about[l])

\* A code has its turn.
Heard(c) == \E kd \in Source(c) : kd \in turned \/ kd[1] \in late

CodesTraced ==
  /\ \A w \in Works : w \in pending \/ wpc[w] # "idle" => Heard(Queue!KnobData[w])
  /\ \A i \in 1..Len(knob_fifo) : Heard(knob_fifo[i])
  /\ knob_value # 0 => Heard(knob_value)
  /\ \A r \in Readers : value[r] # 0 => Heard(value[r])

\* The queue's types that the codes pass through.
QueueTypes ==
  /\ wpc \in [Works -> Queue!WorkPc]
  /\ knob_fifo \in Seq(Queue!Codes)
  /\ value \in [Readers -> Queue!Codes \cup {0}]

LEMMA QueueTyped == KnobSpec => []QueueTypes
<1>1. QueueP!Spec => []QueueP!TypeOK
  BY QueueAssumed, QueueP!TypeCorrect
<1>2. QueueP!TypeOK => QueueTypes
  BY DEF QueueP!TypeOK, QueueTypes, Queue!WorkPc, QueueP!WorkPc, Queue!Codes, QueueP!Codes,
     Queue!KnobData, QueueP!KnobData
<1> QED
  BY <1>1, <1>2, QueueHolds, PTL

\* History only grows.
LEMMA HistoryGrows == [KnobNext]_knobVars => turned \subseteq turned' /\ late \subseteq late'
BY DEF KnobNext, KnobTurn, Handle, Work, Call, Read, history, knobVars

LEMMA HeardStays ==
  ASSUME turned \subseteq turned', late \subseteq late', NEW c, Heard(c)
  PROVE  Heard(c)'
BY DEF Heard, Source

\* A turn is recorded before the edge it raises can be handled.
LEMMA EdgesStep == TypeOK /\ EdgesTraced /\ [KnobNext]_knobVars => EdgesTraced'
<1> SUFFICES ASSUME TypeOK, EdgesTraced, [KnobNext]_knobVars PROVE EdgesTraced'
  OBVIOUS
<1>0. turned \subseteq turned' /\ late \subseteq late'
  BY HistoryGrows
<1>1. ASSUME NEW k \in Knobs, NEW d \in Directions, KnobTurn(k, d) PROVE EdgesTraced'
  <2> SUFFICES ASSUME NEW l \in Lines
               PROVE  /\ edge'[l] # "none" => Known(l, edge[l])'
                      /\ ipc'[l] # "idle" => Known(l, about[l])'
    BY DEF EdgesTraced
  <2>1. /\ turned' = turned \cup {<<k, d>>} /\ ipc' = ipc
        /\ late' = IF \E m \in Pair[k] : edge[m] # "none" \/ ipc[m] = "sample"
                   THEN late \cup {k} ELSE late
    BY <1>1 DEF KnobTurn, Turn
  <2>2. CASE l \in Pair[k]
    <3>1. KnobOf(l) = k
      BY <2>2, KnobsAssumption DEF KnobOf, Pair
    <3>2. edge[l] # "none" \/ ipc[l] = "sample" => k \in late'
      BY <2>1, <2>2
    <3>3. edge[l] = "none" => edge'[l] \in {d, "none"}
      BY <1>1, <2>2 DEF KnobTurn, Turn
    <3>4. ipc[l] # "sample" => about'[l] = about[l]
      BY <1>1 DEF KnobTurn, Turn
    <3>5. edge'[l] # "none" => Known(l, edge[l])'
      BY <2>1, <3>1, <3>2, <3>3 DEF Known
    <3>6. ipc'[l] # "idle" => Known(l, about[l])'
      <4>1. CASE ipc[l] = "sample"
        BY <3>1, <3>2, <4>1 DEF Known
      <4>2. CASE ipc[l] # "sample"
        BY <1>0, <2>1, <3>4, <4>2 DEF EdgesTraced, Known
      <4> QED
        BY <4>1, <4>2
    <3> QED
      BY <3>5, <3>6
  <2>3. CASE l \notin Pair[k]
    <3>1. edge'[l] = edge[l] /\ about'[l] = about[l]
      BY <1>1, <2>3 DEF KnobTurn, Turn
    <3> QED
      BY <1>0, <2>1, <3>1 DEF EdgesTraced, Known
  <2> QED
    BY <2>2, <2>3
<1>2. ASSUME NEW l \in Lines, Handle(l) PROVE EdgesTraced'
  <2>0. UNCHANGED <<turned, late>>
    BY <1>2 DEF Handle, history
  <2>1. CASE Dispatch(l)
    <3>1. /\ edge[l] # "none" /\ ipc' = [ipc EXCEPT ![l] = "sample"]
          /\ edge' = [edge EXCEPT ![l] = "none"] /\ about' = [about EXCEPT ![l] = edge[l]]
      BY <2>1 DEF Dispatch, GoIrq
    <3> QED
      BY <2>0, <3>1 DEF EdgesTraced, Known, TypeOK
  <2>2. CASE Sample(l) \/ ForceKey(l) \/ ForceKeybit(l) \/ Report(l)
    <3>1. /\ UNCHANGED <<edge, about>> /\ ipc[l] # "idle"
          /\ \E to \in IrqPc : ipc' = [ipc EXCEPT ![l] = to]
      BY <2>2 DEF Sample, ForceKey, ForceKeybit, Report, GoIrq, IrqPc
    <3> QED
      BY <2>0, <3>1 DEF EdgesTraced, Known, TypeOK
  <2>3. CASE ScheduleWork(l)
    <3>1. /\ UNCHANGED edge /\ ipc' = [ipc EXCEPT ![l] = "idle"]
          /\ about' = [about EXCEPT ![l] = "none"]
      BY <2>3 DEF ScheduleWork, GoIrq
    <3> QED
      BY <2>0, <3>1 DEF EdgesTraced, Known, TypeOK
  <2> QED
    BY <1>2, <2>1, <2>2, <2>3 DEF Handle, IrqStep
<1>3. CASE UNCHANGED <<irqVars, turned, late>>
  BY <1>3 DEF EdgesTraced, Known, irqVars
<1> QED
  BY <1>1, <1>2, <1>3 DEF KnobNext, Work, Call, Read, knobVars, history

\* The work a handler schedules has its turn.
LEMMA ScheduledHeard ==
  ASSUME TypeOK, IrqInv, EdgesTraced, NEW l \in Lines, ipc[l] = "schedule"
  PROVE  Heard(Queue!KnobData[WorkFor(l, val)])
<1> DEFINE k == KnobOf(l)
           d == IF val THEN "lag" ELSE "lead"
<1>1. k \in Knobs /\ d \in Directions /\ val \in BOOLEAN
  BY HomeKnob DEF Directions, TypeOK
<1>2. WorkFor(l, val) = WorkOfTurn(k, d)
  BY <1>1, WorkOfKnob
<1>3. <<k, d>> \in Source(Queue!KnobData[WorkFor(l, val)])
  BY <1>1, <1>2 DEF Source
<1>4. about[l] \in Directions => about[l] = d
  <2>1. about[l] \in Directions => (val <=> about[l] = "lag")
    BY DEF IrqInv, TurnRead
  <2> QED
    BY <2>1 DEF Directions
<1>5. Known(l, about[l])
  BY DEF EdgesTraced
<1>6. <<k, d>> \in turned \/ <<k, d>>[1] \in late
  BY <1>4, <1>5 DEF Known
<1> QED
  BY <1>3, <1>6 DEF Heard

\* The works, the kfifo, knob_value and the callers hand on codes that have their turns.
LEMMA CodesStep ==
  TypeOK /\ IrqInv /\ QueueTypes /\ EdgesTraced /\ CodesTraced /\ [KnobNext]_knobVars
    => CodesTraced'
<1> SUFFICES ASSUME TypeOK, IrqInv, QueueTypes, EdgesTraced, CodesTraced, [KnobNext]_knobVars
             PROVE  CodesTraced'
  OBVIOUS
<1>0. \A c : Heard(c) => Heard(c)'
  BY HistoryGrows, HeardStays
<1>1. ASSUME NEW k \in Knobs, NEW d \in Directions, KnobTurn(k, d) PROVE CodesTraced'
  BY <1>0, <1>1 DEF KnobTurn, Turn, queueVars, CodesTraced
<1>2. ASSUME NEW l \in Lines, Handle(l) PROVE CodesTraced'
  <2>1. UNCHANGED <<wpc, knob_fifo, knob_value, value>>
    BY <1>2 DEF Handle, queueVars
  <2>2. CASE ScheduleWork(l)
    <3>1. ipc[l] = "schedule" /\ pending' = pending \cup {WorkFor(l, val)}
      BY <2>2 DEF ScheduleWork, GoIrq
    <3>2. Heard(Queue!KnobData[WorkFor(l, val)])
      BY <3>1, ScheduledHeard
    <3> QED
      BY <1>0, <2>1, <3>1, <3>2 DEF CodesTraced
  <2>3. CASE ~ScheduleWork(l)
    <3>1. UNCHANGED pending
      BY <1>2, <2>3 DEF Handle, IrqStep, Dispatch, Sample, ForceKey,
         ForceKeybit, Report
    <3> QED
      BY <1>0, <2>1, <3>1 DEF CodesTraced
  <2> QED
    BY <2>2, <2>3
<1>3. ASSUME NEW w \in Works, Work(w) PROVE CodesTraced'
  <2>1. /\ UNCHANGED <<knob_value, value>> /\ pending' \subseteq pending
        /\ w \in pending \/ wpc[w] # "idle"
        /\ \E to \in Queue!WorkPc : wpc' = [wpc EXCEPT ![w] = to]
    BY <1>3 DEF Work, Queue!WorkStep, Queue!Run, Queue!WorkLock, Queue!WorkStore,
       Queue!WorkDrop, Queue!WorkFlag, Queue!WorkUnlock, Queue!WorkWake, Queue!GoWork,
       Queue!WorkPc, Queue!callVars
  <2>2. \A x \in Works : x \in pending' \/ wpc'[x] # "idle" => Heard(Queue!KnobData[x])'
    BY <1>0, <2>1 DEF CodesTraced, QueueTypes
  <2>3. UNCHANGED knob_fifo \/ knob_fifo' = Append(knob_fifo, Queue!KnobData[w])
    BY <1>3 DEF Work, Queue!WorkStep, Queue!Run, Queue!WorkLock, Queue!WorkStore,
       Queue!WorkDrop, Queue!WorkFlag, Queue!WorkUnlock, Queue!WorkWake
  <2>4. \A i \in 1..Len(knob_fifo') : Heard(knob_fifo[i])'
    <3>1. Heard(Queue!KnobData[w])
      BY <2>1 DEF CodesTraced
    <3>2. \A i \in 1..Len(knob_fifo) : Heard(knob_fifo[i])
      BY DEF CodesTraced
    <3>3. \A i \in 1..Len(knob_fifo') : Heard(knob_fifo'[i])
      BY <2>3, <3>1, <3>2 DEF QueueTypes
    <3> QED
      BY <1>0, <3>3
  <2> QED
    BY <1>0, <2>1, <2>2, <2>4 DEF CodesTraced
<1>4. ASSUME NEW r \in Readers, Call(r) \/ Read(r) PROVE CodesTraced'
  <2>1. UNCHANGED <<wpc, pending>>
    BY <1>4 DEF Call, Read, Queue!Call, Queue!ReadStep, Queue!Test, Queue!Prepare,
       Queue!CheckReady, Queue!CheckSignal, Queue!CheckSleep, Queue!Awake, Queue!ReadLock,
       Queue!ReadOut, Queue!ReadEmpty, Queue!ReadDec, Queue!ReadUnlock, Queue!Copy,
       Queue!Clear, Queue!workVars
  <2>2. CASE Queue!Call(r) \/ Queue!Clear(r)
    <3>1. /\ UNCHANGED knob_fifo
          /\ knob_value' \in {knob_value, 0}
          /\ value' \in {value, [value EXCEPT ![r] = 0]}
      BY <2>2 DEF Queue!Call, Queue!Clear
    <3> QED
      BY <1>0, <2>1, <3>1 DEF CodesTraced, QueueTypes
  <2>3. CASE Queue!ReadOut(r)
    <3>1. /\ knob_fifo # <<>> /\ knob_value' = Head(knob_fifo) /\ knob_fifo' = Tail(knob_fifo)
          /\ UNCHANGED value
      BY <2>3 DEF Queue!ReadOut
    <3>2. /\ Heard(Head(knob_fifo))
          /\ \A i \in 1..Len(Tail(knob_fifo)) : Heard(Tail(knob_fifo)[i])
      BY <3>1 DEF CodesTraced, QueueTypes
    <3> QED
      BY <1>0, <2>1, <3>1, <3>2 DEF CodesTraced
  <2>4. CASE Queue!Copy(r)
    <3>1. UNCHANGED <<knob_fifo, knob_value>> /\ value' = [value EXCEPT ![r] = knob_value]
      BY <2>4 DEF Queue!Copy
    <3> QED
      BY <1>0, <2>1, <3>1 DEF CodesTraced, QueueTypes
  <2>5. CASE \/ Queue!Test(r) \/ Queue!Prepare(r) \/ Queue!CheckReady(r) \/ Queue!CheckSignal(r)
             \/ Queue!CheckSleep(r) \/ Queue!Awake(r) \/ Queue!ReadLock(r)
             \/ Queue!ReadEmpty(r) \/ Queue!ReadDec(r) \/ Queue!ReadUnlock(r)
    <3>1. UNCHANGED <<knob_fifo, knob_value, value>>
      BY <2>5 DEF Queue!Test, Queue!Prepare, Queue!CheckReady, Queue!CheckSignal,
         Queue!CheckSleep, Queue!Awake, Queue!ReadLock, Queue!ReadEmpty, Queue!ReadDec,
         Queue!ReadUnlock, Queue!callVars
    <3> QED
      BY <1>0, <2>1, <3>1 DEF CodesTraced
  <2> QED
    BY <1>4, <2>2, <2>3, <2>4, <2>5 DEF Call, Read, Queue!ReadStep
<1>5. CASE UNCHANGED knobVars
  BY <1>0, <1>5 DEF knobVars, queueVars, CodesTraced
<1> QED
  BY <1>1, <1>2, <1>3, <1>4, <1>5 DEF KnobNext

LEMMA TracedInit == KnobInit => EdgesTraced /\ CodesTraced
BY DEF KnobInit, Init, Queue!Init, EdgesTraced, CodesTraced

\* From the shaft to the application: a code that is on its way to a caller, or has
\* reached one, names a knob and a direction in which that knob was turned, unless the
\* knob turned on while an interrupt was waiting; for every kfifo size and any readers.
THEOREM CodesComeFromTurns == KnobSpec => []CodesAreTurns
<1>1. EdgesTraced /\ CodesTraced /\ TypeOK /\ IrqInv /\ QueueTypes /\ [KnobNext]_knobVars
        => EdgesTraced' /\ CodesTraced'
  BY EdgesStep, CodesStep
<1>2. QueueTypes /\ CodesTraced => CodesAreTurns
  <2> SUFFICES ASSUME QueueTypes, CodesTraced, NEW c \in CodesAround PROVE Heard(c)
    BY DEF CodesAreTurns, Heard
  <2>1. DOMAIN knob_fifo = 1..Len(knob_fifo)
    BY DEF QueueTypes
  <2> QED
    BY <2>1 DEF CodesAround, CodesTraced
<1> QED
  BY <1>1, <1>2, TracedInit, IrqHolds, QueueTyped, PTL DEF KnobSpec
===============================================================================

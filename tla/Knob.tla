--------------------------------- MODULE Knob ---------------------------------
(***************************************************************************)
(* The knob driver from the shaft to the application: the interrupt        *)
(* handlers of KnobIrq, extended by the queue of KnobQueue.  They are      *)
(* joined at the work items, which the handlers put on the system          *)
(* workqueue and the queue's works leave when they start.                  *)
(***************************************************************************)
EXTENDS KnobIrq, Sequences

CONSTANTS
  Readers,    \* the tasks that call the ioctl
  KNOB_SIZE,  \* bytes of the kfifo
  MaxTurns    \* bound: quarter turns in a run

ASSUME BoundAssumption == MaxTurns \in Nat

VARIABLES
  wpc, knob_fifo, knob_flags, knob_lock, knob_queue,
  knob_value, rpc, ret, signalled, value,   \* KnobQueue's, besides pending
  turns,      \* quarter turns made so far
  turned,     \* <<knob, direction>> pairs turned so far (history)
  late        \* knobs turned on between an edge and its sample (history)

Works == {WorkOfTurn(k, d) : k \in Knobs, d \in Directions}

Queue == INSTANCE KnobQueue

ASSUME QueueAssumption ==
  /\ KNOB_SIZE \in Nat \ {0}
  /\ Readers \cap Works = {}
  /\ Queue!Free \notin Readers

queueVars == <<wpc, knob_fifo, knob_flags, knob_lock, knob_queue, knob_value,
               rpc, ret, signalled, value>>
history == <<turns, turned, late>>
knobVars == <<irqVars, pending, queueVars, history>>

KnobInit ==
  /\ Init
  /\ Queue!Init
  /\ turns = 0
  /\ turned = {}
  /\ late = {}

KnobTurn(k, d) ==
  /\ turns < MaxTurns
  /\ Turn(k, d)
  /\ turns' = turns + 1
  /\ turned' = turned \cup {<<k, d>>}
  /\ late' = IF \E l \in Pair[k] : edge[l] # "none" \/ ipc[l] = "sample"
             THEN late \cup {k} ELSE late
  /\ UNCHANGED queueVars

\* A handler's step; its last one puts a work on the queue.
Handle(l) == IrqStep(l) /\ UNCHANGED <<queueVars, history>>

\* A work function's step; its first takes the work off the queue.
Work(w) == Queue!WorkStep(w) /\ UNCHANGED <<irqVars, history>>

\* The application calls the ioctl again and again.
Call(r) == Queue!Call(r) /\ UNCHANGED <<irqVars, history>>
Read(r) == Queue!ReadStep(r) /\ UNCHANGED <<irqVars, history>>

KnobNext ==
  \/ \E k \in Knobs, d \in Directions : KnobTurn(k, d)
  \/ \E l \in Lines : Handle(l)
  \/ \E w \in Works : Work(w)
  \/ \E r \in Readers : Call(r) \/ Read(r)

KnobSpec == KnobInit /\ [][KnobNext]_knobVars

\* As in the two modules; the application is one that keeps reading.
Fairness ==
  /\ \A l \in Lines :
       /\ WF_knobVars(Handle(l))
       /\ SF_knobVars(Dispatch(l) /\ UNCHANGED <<queueVars, history>>)
  /\ \A w \in Works :
       /\ WF_knobVars(Work(w))
       /\ SF_knobVars(Queue!WorkLock(w) /\ UNCHANGED <<irqVars, history>>)
  /\ \A r \in Readers :
       /\ WF_knobVars(Call(r)) /\ WF_knobVars(Read(r))
       /\ SF_knobVars(Queue!ReadLock(r) /\ UNCHANGED <<irqVars, history>>)

FairSpec == KnobSpec /\ Fairness

-------------------------------------------------------------------------------
\* The directions a code speaks of.
Source(c) ==
  {kd \in Knobs \X Directions : Queue!KnobData[WorkOfTurn(kd[1], kd[2])] = c}

\* The codes that are on their way to the application or have just got there.
CodesAround ==
  {Queue!KnobData[w] : w \in {x \in Works : x \in pending \/ wpc[x] # "idle"}}
    \cup {knob_fifo[i] : i \in DOMAIN knob_fifo}
    \cup (({knob_value} \cup {value[r] : r \in Readers}) \ {0})

\* What the application is told happened: a code names a knob and a direction that
\* knob was turned in, unless the knob turned on while an interrupt was waiting.
CodesAreTurns ==
  \A c \in CodesAround : \E kd \in Source(c) : kd \in turned \/ kd[1] \in late

\* A turn that raises an interrupt makes a waiting application return with a code.
TurnIsHeard ==
  \A l \in Lines : edge[l] # "none" ~> \E r \in Readers : value[r] # 0
===============================================================================

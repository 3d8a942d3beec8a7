------------------------------- MODULE KnobIrq --------------------------------
(***************************************************************************)
(* The interrupt side of the knob driver (drivers/knob/knob_button.c).     *)
(* Each knob is a quadrature encoder on two lines.  A rising edge of the   *)
(* first line or a falling edge of the second raises an interrupt, whose   *)
(* handler samples the other line into the global val, forces the input    *)
(* device's key and keybit words so that the event below is not filtered   *)
(* out, reports the event, and schedules the work of the direction.        *)
(*                                                                         *)
(* val and the two words are shared by all four handlers and no lock       *)
(* guards them: what keeps the handlers apart is that the four lines share *)
(* one chained parent interrupt of the GPIO controller (SameBank).         *)
(***************************************************************************)
EXTENDS Integers

CONSTANT Knobs      \* the knobs that are turned: "left", "right" or both

ASSUME KnobsAssumption == Knobs \subseteq {"left", "right"}

Pair == [left |-> {"left1", "left2"}, right |-> {"right1", "right2"}]
Lines == UNION {Pair[k] : k \in Knobs}

\* Mutant: a board that puts the first lines on another bank.
GpioSplit == [left1 |-> 95, left2 |-> 103, right1 |-> 94, right2 |-> 105]

\* g_hw of the i.MX6Q board: the GPIO behind each line.
Gpio == [left1 |-> 102, left2 |-> 103, right1 |-> 104, right2 |-> 105]

\* The controller demultiplexes 16 lines from one parent interrupt.
SameBank(l, m) == Gpio[l] \div 16 = Gpio[m] \div 16

KnobOf(l) == IF l \in Pair.left THEN "left" ELSE "right"

\* The line each handler samples.
Other == [left1 |-> "left2", left2 |-> "left1", right1 |-> "right2", right2 |-> "right1"]

\* The work a sample schedules: button1 of the knob for 1, button2 for 0.
WorkFor(l, high) ==
  CASE KnobOf(l) = "left"  /\ high  -> "left_button1"
    [] KnobOf(l) = "left"  /\ ~high -> "left_button2"
    [] KnobOf(l) = "right" /\ high  -> "right_button1"
    [] KnobOf(l) = "right" /\ ~high -> "right_button2"

AllWorks == {"left_button1", "left_button2", "right_button1", "right_button2"}

\* The direction in which the first line leads, and the other: the comments of the
\* work functions call them veering and reverse for the left work items, reverse
\* and veering for the right ones.  A sample of 0 belongs to "lead" on both lines.
Directions == {"lead", "lag"}
WorkOfTurn(k, d) == WorkFor(IF k = "left" THEN "left1" ELSE "right1", d = "lag")

VARIABLES
  phase,      \* the encoder position of each knob, 0..3
  edge,       \* per line: no edge latched, the direction of the turn that
              \* raised it, or "moved" if the knob has turned again since
  ipc,        \* where each line's handler is
  about,      \* per running handler: the latched edge it was started for
  val,        \* the global sample
  sampled,    \* per handler: what it read itself (history)
  key,        \* the BTN_0..3 bits set in knob_input_dev->key
  keybit,     \* the BTN_0..3 bits set in knob_input_dev->keybit
  pending     \* the works queued on the system workqueue

irqVars == <<phase, edge, ipc, about, val, sampled, key, keybit>>
vars == <<irqVars, pending>>

IrqPc == {"idle", "sample", "key", "keybit", "report", "schedule"}
Edges == {"none", "lead", "lag", "moved"}

TypeOK ==
  /\ phase \in [Knobs -> 0..3]
  /\ edge \in [Lines -> Edges]
  /\ ipc \in [Lines -> IrqPc]
  /\ about \in [Lines -> Edges]
  /\ val \in BOOLEAN
  /\ sampled \in [Lines -> BOOLEAN]
  /\ key \subseteq Lines
  /\ keybit \subseteq Lines
  /\ pending \subseteq AllWorks

Init ==
  /\ phase = [k \in Knobs |-> 0]
  /\ edge = [l \in Lines |-> "none"]
  /\ ipc = [l \in Lines |-> "idle"]
  /\ about = [l \in Lines |-> "none"]
  /\ val = FALSE
  /\ sampled = [l \in Lines |-> FALSE]
  /\ key = {}
  /\ keybit = {}
  /\ pending = {}

-------------------------------------------------------------------------------
(* The knob: the first line is high in phases 1 and 2, the second in 2 and *)
(* 3, so that it leads in one direction and lags in the other.             *)

High(l, p) == IF l \in {"left1", "right1"} THEN p \in {1, 2} ELSE p \in {2, 3}

\* Mutant: the second lines are registered for the rising edge, too.
TriggersRising(l, p, q) == ~High(l, p) /\ High(l, q)

\* IRQF_TRIGGER_RISING on the first lines, IRQF_TRIGGER_FALLING on the second.
Triggers(l, p, q) ==
  IF l \in {"left1", "right1"} THEN ~High(l, p) /\ High(l, q)
                               ELSE High(l, p) /\ ~High(l, q)

NextPhase(p, d) == (IF d = "lead" THEN p + 1 ELSE p + 3) % 4

Turn(k, d) ==
  LET p == phase[k]
      q == NextPhase(p, d)
      AfterTurn(l) ==
        CASE edge[l] # "none"    -> "moved"
          [] Triggers(l, p, q)   -> d
          [] OTHER               -> "none"
  IN /\ phase' = [phase EXCEPT ![k] = q]
     /\ edge' = [l \in Lines |-> IF l \in Pair[k] THEN AfterTurn(l) ELSE edge[l]]
     /\ about' = [l \in Lines |->
                    IF l \in Pair[k] /\ ipc[l] = "sample" THEN "moved" ELSE about[l]]
     /\ UNCHANGED <<ipc, val, sampled, key, keybit, pending>>

-------------------------------------------------------------------------------
(* The handlers. *)

GoIrq(l, from, to) ==
  /\ ipc[l] = from
  /\ ipc' = [ipc EXCEPT ![l] = to]

\* The parent interrupt acknowledges the line and calls its handler; it runs one
\* handler at a time for the lines it stands for.
Dispatch(l) ==
  /\ edge[l] # "none"
  /\ \A m \in Lines : SameBank(l, m) => ipc[m] = "idle"
  /\ GoIrq(l, "idle", "sample")
  /\ edge' = [edge EXCEPT ![l] = "none"]
  /\ about' = [about EXCEPT ![l] = edge[l]]
  /\ UNCHANGED <<phase, val, sampled, key, keybit, pending>>

\* Mutant: the handler samples its own line.
SampleOwn(l) ==
  LET high == High(l, phase[KnobOf(l)])
  IN /\ GoIrq(l, "sample", "key")
     /\ val' = high
     /\ sampled' = [sampled EXCEPT ![l] = high]
     /\ UNCHANGED <<phase, edge, about, key, keybit, pending>>

\* val = SOC_IO_Input(the other line)
Sample(l) ==
  LET high == High(Other[l], phase[KnobOf(l)])
  IN /\ GoIrq(l, "sample", "key")
     /\ val' = high
     /\ sampled' = [sampled EXCEPT ![l] = high]
     /\ UNCHANGED <<phase, edge, about, key, keybit, pending>>

\* Mutant: the key word is left as the last event set it.
ForceKeySkipped(l) ==
  /\ GoIrq(l, "key", "keybit")
  /\ UNCHANGED <<phase, edge, about, val, sampled, key, keybit, pending>>

\* The whole word is assigned: all four bits are in it.
ForceKey(l) ==
  /\ GoIrq(l, "key", "keybit")
  /\ key' = IF val THEN {} ELSE {l}
  /\ UNCHANGED <<phase, edge, about, val, sampled, keybit, pending>>

ForceKeybit(l) ==
  /\ GoIrq(l, "keybit", "report")
  /\ keybit' = {l}
  /\ UNCHANGED <<phase, edge, about, val, sampled, key, pending>>

\* The input core passes a key event on only if the key is supported and the
\* value differs from the bit it keeps, which it then flips.
Passes(l) == l \in keybit /\ val # (l \in key)

Report(l) ==
  /\ GoIrq(l, "report", "schedule")
  /\ key' = IF ~Passes(l) THEN key ELSE IF val THEN key \cup {l} ELSE key \ {l}
  /\ UNCHANGED <<phase, edge, about, val, sampled, keybit, pending>>

\* Mutant: if(work_pending(w)) schedule_work(w), as drivers/knob/knob.c has it.
ScheduleWorkInverted(l) ==
  /\ GoIrq(l, "schedule", "idle")
  /\ about' = [about EXCEPT ![l] = "none"]
  /\ sampled' = [sampled EXCEPT ![l] = FALSE]
  /\ pending' = IF WorkFor(l, val) \in pending THEN pending \cup {WorkFor(l, val)} ELSE pending
  /\ UNCHANGED <<phase, edge, val, key, keybit>>

\* if(!work_pending(w)) schedule_work(w): a work already queued stays queued once.
ScheduleWork(l) ==
  /\ GoIrq(l, "schedule", "idle")
  /\ about' = [about EXCEPT ![l] = "none"]
  /\ sampled' = [sampled EXCEPT ![l] = FALSE]
  /\ pending' = pending \cup {WorkFor(l, val)}
  /\ UNCHANGED <<phase, edge, val, key, keybit>>

IrqStep(l) ==
  \/ Dispatch(l) \/ Sample(l) \/ ForceKey(l) \/ ForceKeybit(l)
  \/ Report(l) \/ ScheduleWork(l)

\* The workqueue takes a work off the queue to run it.
TakeWork(w) ==
  /\ w \in pending
  /\ pending' = pending \ {w}
  /\ UNCHANGED irqVars

Next ==
  \/ \E k \in Knobs, d \in Directions : Turn(k, d)
  \/ \E l \in Lines : IrqStep(l)
  \/ \E w \in pending : TakeWork(w)

Spec == Init /\ [][Next]_vars

-------------------------------------------------------------------------------
(* Properties. *)

\* A handler acts on the value it sampled itself, although val is one global of
\* four handlers: nobody writes val between its sample and its last use (l.112-127).
SampleIsMine ==
  \A l \in Lines :
    ipc[l] \in {"key", "keybit", "report", "schedule"} => val = sampled[l]

\* No interrupt's event is swallowed by the input core's filter: at the report the
\* key is supported and its bit is the opposite of the value, whatever the other
\* lines' handlers did to the shared words (l.113-118).
NoEventFiltered == \A l \in Lines : ipc[l] = "report" => Passes(l)

\* If the knob has not turned again between the edge and the sample, the work
\* scheduled is the one of the direction it was turned in: both lines' edges
\* agree on it (l.121-127, l.141-147).
DirectionKept ==
  \A l \in Lines :
    ipc[l] = "schedule" /\ about[l] \in Directions
      => WorkFor(l, val) = WorkOfTurn(KnobOf(l), about[l])
===============================================================================

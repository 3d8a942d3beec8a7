---------------------------- MODULE KnobLoadProofs ----------------------------
(***************************************************************************)
(* Proofs about loading and unloading the knob driver: what a failed       *)
(* loading gives back, and that no handler outlives its line or its code.  *)
(***************************************************************************)
EXTENDS KnobLoad, TLAPS

\* What of the character device can exist at each point.
HeldAt ==
  /\ pc \in Absent \cup {"kmalloc", "gpio", "irq", "region"} => chrdev \subseteq {"node"}
  /\ pc = "cdev" => chrdev \subseteq {"node", "region"}
  /\ pc = "class" => chrdev \subseteq {"node", "region", "cdev"}
  /\ pc \in {"free_irq", "free_gpio"} => chrdev = {}

\* A loop over the lines begins at the first.
AtFirst == pc \notin {"gpio", "irq", "free_irq", "free_gpio"} => at = 1

\* Where the knob driver has no handlers.
Quiet ==
  pc \in Absent \cup {"kmalloc", "gpio", "free_gpio"} => \A l \in Lines : irq[l] # "knob"

\* How far free_irq has come.
Freed == pc = "free_irq" => \A i \in 1..4 : i < at => irq[LineOrder[i]] # "knob"

LoadInv == TypeOK /\ HeldAt /\ AtFirst /\ Quiet /\ Freed /\ NoLineLeaked

-------------------------------------------------------------------------------
\* The lines in their order.
LEMMA LineFacts ==
  /\ Lines = {"left1", "left2", "right1", "right2"}
  /\ LineOrder[1] = "left1" /\ LineOrder[2] = "left2"
  /\ LineOrder[3] = "right1" /\ LineOrder[4] = "right2"
  /\ \A i \in 1..4 : LineOrder[i] \in Lines
  /\ \A l \in Lines : \E i \in 1..4 : l = LineOrder[i]
<1>1. /\ LineOrder[1] = "left1" /\ LineOrder[2] = "left2"
      /\ LineOrder[3] = "right1" /\ LineOrder[4] = "right2"
  BY DEF LineOrder
<1>2. 1..4 = {1, 2, 3, 4}
  OBVIOUS
<1> QED
  BY <1>1, <1>2 DEF Lines

\* The initial state is in the invariant.
LEMMA LoadInit == Init => LoadInv
<1> SUFFICES ASSUME Init PROVE LoadInv
  OBVIOUS
<1>1. TypeOK
  <2>1. /\ pc \in Absent /\ fifo \in BOOLEAN /\ chrdev = {} /\ input = "none"
        /\ bpc = "absent" /\ configured = {} /\ requested = {}
        /\ io \in [Drivers -> {"test", "request", "again", "direction", "record"}]
    BY DEF Init, Absent, Drivers
  <2>2. at \in 1..4 /\ bat \in 1..4
    BY DEF Init
  <2>3. irq \in [Lines -> {"none", "knob", "button", "dead"}]
    BY DEF Init
  <2> QED
    BY <2>1, <2>2, <2>3 DEF TypeOK
<1>2. Quiet
  BY DEF Init, Quiet
<1>3. HeldAt /\ AtFirst /\ Freed /\ NoLineLeaked
  BY DEF Init, HeldAt, AtFirst, Freed, NoLineLeaked
<1> QED
  BY <1>1, <1>2, <1>3 DEF LoadInv

\* One iteration of a loop keeps the counter in its range and ends at the first line.
LEMMA LoopStep ==
  ASSUME NEW here, NEW next, at \in 1..4, Loop(here, next)
  PROVE  /\ pc = here /\ at' \in 1..4
         /\ at = 4 => pc' = next /\ at' = 1
         /\ at # 4 => pc' = here /\ at' = at + 1
BY DEF Loop

\* Registering a handler changes at most the line's own entry, from "none".
LEMMA Registered ==
  ASSUME NEW l \in Lines, NEW who \in {"knob", "button"}, SocIoIsrAdd(l, who), TypeOK
  PROVE  /\ irq' \in [Lines -> {"none", "knob", "button", "dead"}]
         /\ \A m \in Lines : irq'[m] = irq[m] \/ irq'[m] = who
BY DEF SocIoIsrAdd, TypeOK

\* A module that goes leaves none of its handlers, and touches no other.
LEMMA Abandoned ==
  ASSUME NEW who \in {"knob", "button"}, Abandon(who), TypeOK
  PROVE  /\ irq' \in [Lines -> {"none", "knob", "button", "dead"}]
         /\ \A m \in Lines : irq'[m] # who
         /\ \A m \in Lines : irq'[m] # irq[m] => irq[m] = who /\ irq'[m] = "dead"
BY DEF Abandon, TypeOK

-------------------------------------------------------------------------------
(* The GPIO layer, whose steps both drivers take. *)

\* A step of soc_io_config leaves the handlers alone, and moves one driver at most to
\* its next line or to its handlers.
LEMMA ConfigMoves ==
  ASSUME TypeOK, NEW who \in Drivers, SocIoConfig(who)
  PROVE  /\ UNCHANGED <<fifo, chrdev, input, irq>>
         /\ io' \in [Drivers -> {"test", "request", "again", "direction", "record"}]
         /\ who = "knob" => /\ UNCHANGED buttonVars /\ pc = "gpio"
                            /\ pc' \in {"gpio", "irq"} /\ at' \in 1..4
                            /\ pc' = "irq" => at' = 1
         /\ who = "button" => /\ UNCHANGED <<pc, at>> /\ bpc = "gpio"
                              /\ bpc' \in {"gpio", "irq"} /\ bat' \in 1..4
<1> USE DEF TypeOK, knobVars, buttonVars, Drivers
<1>1. ASSUME NEW from \in {"test", "request", "again", "direction", "record"},
             NEW to \in {"test", "request", "again", "direction", "record"},
             Within(who, from, to)
      PROVE  /\ UNCHANGED <<knobVars, buttonVars, irq>> /\ Configuring(who)
             /\ io' \in [Drivers -> {"test", "request", "again", "direction", "record"}]
  BY <1>1 DEF Within
<1>2. CASE \/ TestTable(who) \/ Request(who) \/ RequestRefused(who) \/ RequestAgain(who)
           \/ SetInput(who)
  <2>1. /\ UNCHANGED <<knobVars, buttonVars, irq>> /\ Configuring(who)
        /\ io' \in [Drivers -> {"test", "request", "again", "direction", "record"}]
    BY <1>1, <1>2 DEF TestTable, Request, RequestRefused, RequestAgain, SetInput
  <2> QED
    BY <2>1 DEF Configuring
<1>3. ASSUME NEW from \in {"test", "direction", "record"}, Return(who, from)
      PROVE  /\ UNCHANGED <<fifo, chrdev, input, irq>>
             /\ io' \in [Drivers -> {"test", "request", "again", "direction", "record"}]
             /\ who = "knob" => UNCHANGED buttonVars /\ Loop("gpio", "irq")
             /\ who = "button" => UNCHANGED <<pc, at>> /\ ButtonLoop("gpio", "irq")
  BY <1>3 DEF Return
<1>4. CASE SkipKnown(who) \/ SetInputFails(who) \/ Record(who)
  <2>1. /\ UNCHANGED <<fifo, chrdev, input, irq>>
        /\ io' \in [Drivers -> {"test", "request", "again", "direction", "record"}]
        /\ who = "knob" => UNCHANGED buttonVars /\ Loop("gpio", "irq")
        /\ who = "button" => UNCHANGED <<pc, at>> /\ ButtonLoop("gpio", "irq")
    BY <1>3, <1>4 DEF SkipKnown, SetInputFails, Record
  <2>2. who = "knob" => /\ pc = "gpio" /\ pc' \in {"gpio", "irq"} /\ at' \in 1..4
                        /\ pc' = "irq" => at' = 1
    BY <2>1 DEF Loop
  <2>3. who = "button" => bpc = "gpio" /\ bpc' \in {"gpio", "irq"} /\ bat' \in 1..4
    BY <2>1 DEF ButtonLoop
  <2> QED
    BY <2>1, <2>2, <2>3
<1> QED
  BY <1>2, <1>4 DEF SocIoConfig

\* What it does to the lines: they stay lines, and a line given back is the one the
\* driver is at, for a refused request or a failure to make it an input.
LEMMA ConfigLines ==
  ASSUME TypeOK, NEW who \in Drivers, SocIoConfig(who)
  PROVE  /\ configured' \subseteq Lines /\ requested' \subseteq Lines
         /\ configured \subseteq configured'
         /\ \A l \in requested \ requested' :
              Configuring(who) /\ Line(who) = l /\ io[who] \in {"request", "direction"}
<1>1. Line(who) \in Lines
  BY LineFacts DEF Line, TypeOK
<1>2. CASE SkipKnown(who) \/ TestTable(who) \/ SetInput(who)
  BY <1>2 DEF SkipKnown, TestTable, SetInput, gpioVars, TypeOK
<1>3. CASE Request(who) \/ RequestAgain(who) \/ Record(who)
  BY <1>1, <1>3 DEF Request, RequestAgain, Record, TypeOK
<1>4. CASE RequestRefused(who)
  BY <1>4 DEF RequestRefused, Within, TypeOK
<1>5. CASE SetInputFails(who)
  BY <1>5 DEF SetInputFails, Return, Loop, ButtonLoop, Configuring, TypeOK, Drivers
<1> QED
  BY <1>2, <1>3, <1>4, <1>5 DEF SocIoConfig

\* It leaks no line: what the other driver has in hand stays in its hand.
LEMMA ConfigKeepsTrack ==
  ASSUME TypeOK, NoLineLeaked, NEW who \in Drivers, SocIoConfig(who)
  PROVE  NoLineLeaked'
<1> SUFFICES ASSUME NEW l \in requested'
             PROVE  l \in configured' \/ \E d \in Drivers : InHand(d, l)'
  BY DEF NoLineLeaked
<1>1. configured \subseteq configured'
  BY ConfigLines
<1>2. ASSUME NEW d \in Drivers, d # who, InHand(d, l) PROVE InHand(d, l)'
  <2>1. /\ d = "knob" => UNCHANGED <<pc, at>>
        /\ d = "button" => UNCHANGED buttonVars
    BY <1>2, ConfigMoves DEF Drivers
  <2>2. io'[d] = io[d]
    BY <1>2 DEF SocIoConfig, SkipKnown, TestTable, Request, RequestRefused, RequestAgain, SetInput,
       SetInputFails, Record, Within, Return, TypeOK
  <2> QED
    BY <1>2, <2>1, <2>2 DEF InHand, Configuring, Line, Drivers, buttonVars
<1>3. ASSUME NEW to \in {"direction", "record"}, NEW from, Within(who, from, to)
      PROVE  InHand(who, Line(who))'  /\ Line(who)' = Line(who)
  BY <1>3 DEF Within, InHand, Configuring, Line, Drivers, TypeOK, knobVars, buttonVars
<1>4. CASE l \notin requested
  <2>1. (Request(who) \/ RequestAgain(who)) /\ l = Line(who)
    BY <1>4 DEF SocIoConfig, SkipKnown, TestTable, Request, RequestRefused, RequestAgain, SetInput,
       SetInputFails, Record, gpioVars
  <2> QED
    BY <1>3, <2>1 DEF Request, RequestAgain
<1>5. CASE l \in requested /\ InHand(who, l)
  <2>1. l = Line(who) /\ io[who] \in {"direction", "record"}
    BY <1>5 DEF InHand
  <2>2. SetInput(who) \/ Record(who)
    BY <2>1 DEF SocIoConfig, SkipKnown, TestTable, Request, RequestRefused, RequestAgain,
       SetInputFails, Within, Return
  <2> QED
    BY <1>3, <2>1, <2>2 DEF SetInput, Record
<1> QED
  BY <1>1, <1>2, <1>4, <1>5 DEF NoLineLeaked

\* It keeps the invariant.
LEMMA ConfigStep ==
  ASSUME LoadInv, NEW who \in Drivers, SocIoConfig(who)
  PROVE  LoadInv'
<1> USE DEF LoadInv
<1>1. TypeOK'
  BY ConfigMoves, ConfigLines DEF TypeOK, Starting, Drivers, buttonVars
<1>2. HeldAt' /\ AtFirst' /\ Quiet' /\ Freed'
  BY ConfigMoves DEF HeldAt, AtFirst, Quiet, Freed, Absent, Drivers
<1>3. NoLineLeaked'
  BY ConfigKeepsTrack
<1> QED
  BY <1>1, <1>2, <1>3

-------------------------------------------------------------------------------
\* Loading: every step keeps the invariant.
LEMMA LoadingStep ==
  ASSUME LoadInv,
         \/ Load \/ SetUpQueue \/ KmallocFails \/ AddHandler
         \/ AllocRegion \/ AddCdev \/ CreateClass \/ CreateDevice \/ DeviceUnnoticed
         \/ AllocInput \/ RegisterInput
  PROVE  LoadInv'
<1> USE DEF LoadInv, TypeOK, HeldAt, AtFirst, Quiet, Freed, NoLineLeaked, Absent, Starting,
            Stopping, InHand, Configuring, Line, buttonVars, gpioVars
<1>1. CASE Load
  BY <1>1 DEF Load
<1>2. CASE SetUpQueue \/ KmallocFails
  BY <1>2 DEF SetUpQueue, KmallocFails, Go
<1>3. CASE AddHandler
  <2>1. LineOrder[at] \in Lines
    BY LineFacts
  <2>2. irq' \in [Lines -> {"none", "knob", "button", "dead"}]
    BY <1>3, <2>1, Registered DEF AddHandler
  <2>3. pc = "irq" /\ at' \in 1..4 /\ (at = 4 => pc' = "region" /\ at' = 1) /\ (at # 4 => pc' = "irq")
    BY <1>3, LoopStep DEF AddHandler
  <2> QED
    BY <1>3, <2>2, <2>3 DEF AddHandler
<1>4. CASE AllocRegion \/ AddCdev \/ CreateClass \/ CreateDevice
  BY <1>4 DEF AllocRegion, AddCdev, CreateClass, CreateDevice, Take, Go
<1>5. CASE DeviceUnnoticed \/ AllocInput \/ RegisterInput
  BY <1>5 DEF DeviceUnnoticed, AllocInput, RegisterInput, Go
<1> QED
  BY <1>1, <1>2, <1>3, <1>4, <1>5

\* Failing: each error label gives back what was taken, and the code goes.
LEMMA FailingStep ==
  ASSUME LoadInv, RegionFails \/ CdevFails \/ AllocInputFails \/ RegisterInputFails
  PROVE  LoadInv'
<1>1. PICK from \in {"region", "cdev", "input", "register"},
           left \in {chrdev, ErrCdevAdd, ErrDeviceCreate} :
        /\ Fail(from, left)
        /\ left \subseteq {"node"}
  <2> USE DEF LoadInv, TypeOK, HeldAt, ErrCdevAdd, ErrDeviceCreate, Absent
  <2>1. CASE RegionFails
    BY <2>1 DEF RegionFails, Fail, Go
  <2>2. CASE CdevFails
    BY <2>2 DEF CdevFails, Fail, Go
  <2>3. CASE AllocInputFails \/ RegisterInputFails
    BY <2>3 DEF AllocInputFails, RegisterInputFails
  <2> QED
    BY <2>1, <2>2, <2>3
<1>2. /\ irq' \in [Lines -> {"none", "knob", "button", "dead"}]
      /\ \A m \in Lines : irq'[m] # "knob"
  BY <1>1, Abandoned DEF Fail, LoadInv
<1>3. pc' = "failed" /\ chrdev' \subseteq {"node"} /\ at' = 1 /\ input' \in {"none", "allocated", "registered"}
  BY <1>1 DEF Fail, Go, LoadInv, TypeOK, AtFirst, RegionFails, CdevFails, AllocInputFails, RegisterInputFails
<1>4. UNCHANGED <<io, configured, requested, bpc, bat, fifo>> /\ pc # "gpio"
  BY <1>1 DEF Fail, Go, buttonVars, gpioVars
<1>5. TypeOK' /\ HeldAt' /\ AtFirst' /\ Quiet' /\ Freed'
  BY <1>2, <1>3, <1>4 DEF LoadInv, TypeOK, HeldAt, AtFirst, Quiet, Freed, Absent
<1>6. NoLineLeaked'
  <2>1. \A who \in Drivers, l \in Lines : InHand(who, l) => InHand(who, l)'
    BY <1>4 DEF InHand, Configuring, Line, Drivers
  <2> QED
    BY <1>4, <2>1 DEF LoadInv, TypeOK, NoLineLeaked
<1> QED
  BY <1>5, <1>6 DEF LoadInv

\* Unloading: the handlers go one by one, then the lines.
LEMMA UnloadingStep ==
  ASSUME LoadInv, Unload \/ RemoveNodes \/ FreeIrq \/ FreeGpio
  PROVE  LoadInv'
<1> USE DEF LoadInv, TypeOK, HeldAt, AtFirst, Quiet, Freed, NoLineLeaked, Absent, Starting,
            Stopping, InHand, Configuring, Line, buttonVars, gpioVars
<1>1. CASE Unload
  BY <1>1 DEF Unload, Go
<1>2. CASE RemoveNodes
  BY <1>2 DEF RemoveNodes, Go
<1>3. CASE FreeIrq
  <2>1. LineOrder[at] \in Lines
    BY LineFacts
  <2>2. /\ irq' \in [Lines -> {"none", "knob", "button", "dead"}]
        /\ irq'[LineOrder[at]] # "knob"
        /\ \A l \in Lines : irq'[l] = "knob" => irq[l] = "knob"
    BY <1>3, <2>1 DEF FreeIrq
  <2>3. /\ pc = "free_irq" /\ at' \in 1..4
        /\ at = 4 => pc' = "free_gpio" /\ at' = 1
        /\ at # 4 => pc' = "free_irq" /\ at' = at + 1
    BY <1>3, LoopStep DEF FreeIrq
  <2>4. \A i \in 1..4 : i <= at => irq'[LineOrder[i]] # "knob"
    BY <2>2, <2>3, LineFacts
  <2>5. at = 4 => \A l \in Lines : irq'[l] # "knob"
    BY <2>4, LineFacts
  <2>6. at # 4 => \A i \in 1..4 : i < at' => irq'[LineOrder[i]] # "knob"
    BY <2>3, <2>4
  <2>7. TypeOK' /\ HeldAt' /\ AtFirst' /\ NoLineLeaked'
    BY <1>3, <2>2, <2>3 DEF FreeIrq
  <2>8. Quiet' /\ Freed'
    BY <2>3, <2>5, <2>6
  <2> QED
    BY <2>7, <2>8
<1>4. CASE FreeGpio
  <2>1. /\ pc = "free_gpio" /\ at' \in 1..4
        /\ at = 4 => pc' = "unloaded" /\ at' = 1
        /\ at # 4 => pc' = "free_gpio"
    BY <1>4, LoopStep DEF FreeGpio
  <2>2. /\ irq' \in [Lines -> {"none", "knob", "button", "dead"}]
        /\ \A l \in Lines : irq'[l] # "knob"
    BY <1>4, <2>1, Abandoned DEF FreeGpio
  <2> QED
    BY <1>4, <2>1, <2>2 DEF FreeGpio
<1> QED
  BY <1>1, <1>2, <1>3, <1>4

\* The button driver comes and goes without touching the knob driver's handlers.
LEMMA ButtonStep ==
  ASSUME LoadInv, LoadButton \/ ButtonHandler \/ UnloadButton
  PROVE  LoadInv'
<1> USE DEF LoadInv, TypeOK, HeldAt, AtFirst, Quiet, Freed, NoLineLeaked, InHand, Configuring,
            Line, knobVars, gpioVars
<1>1. CASE LoadButton
  BY <1>1 DEF LoadButton
<1>2. CASE ButtonHandler
  <2>1. LineOrder[bat] \in Lines
    BY LineFacts
  <2>2. /\ irq' \in [Lines -> {"none", "knob", "button", "dead"}]
        /\ \A l \in Lines : irq'[l] = irq[l] \/ irq'[l] = "button"
    BY <1>2, <2>1, Registered DEF ButtonHandler
  <2>3. bpc = "irq" /\ bat' \in 1..4 /\ bpc' \in {"irq", "loaded"}
    BY <1>2 DEF ButtonHandler, ButtonLoop
  <2>4. NoLineLeaked'
    <3>1. \A who \in Drivers, l \in Lines : InHand(who, l) => InHand(who, l)'
      BY <1>2, <2>3 DEF ButtonHandler, Drivers
    <3> QED
      BY <1>2, <3>1 DEF ButtonHandler
  <2>5. TypeOK' /\ HeldAt' /\ AtFirst'
    BY <1>2, <2>2, <2>3 DEF ButtonHandler
  <2>6. Quiet' /\ Freed'
    BY <1>2, <2>2, LineFacts DEF ButtonHandler
  <2> QED
    BY <2>4, <2>5, <2>6
<1>3. CASE UnloadButton
  <2>1. /\ irq' \in [Lines -> {"none", "knob", "button", "dead"}]
        /\ \A l \in Lines : irq'[l] # irq[l] => irq'[l] = "dead"
    BY <1>3, Abandoned DEF UnloadButton
  <2> QED
    BY <1>3, <2>1, LineFacts DEF UnloadButton
<1> QED
  BY <1>1, <1>2, <1>3

\* The invariant is inductive.
LEMMA LoadNext == LoadInv /\ [Next]_vars => LoadInv'
<1>1. ASSUME LoadInv, UNCHANGED vars PROVE LoadInv'
  BY <1>1 DEF vars, knobVars, buttonVars, gpioVars, LoadInv, TypeOK, HeldAt, AtFirst, Quiet, Freed,
     NoLineLeaked, InHand, Configuring, Line
<1> QED
  BY <1>1, ConfigStep, LoadingStep, FailingStep, UnloadingStep, ButtonStep DEF Next

\* Every reachable state is in the invariant.
LEMMA LoadInvariant == Spec => []LoadInv
BY LoadInit, LoadNext, PTL DEF Spec

-------------------------------------------------------------------------------
\* The state of both drivers and of the GPIO layer is well typed.
THEOREM TypeCorrect == Spec => []TypeOK
<1>1. LoadInv => TypeOK
  BY DEF LoadInv
<1> QED
  BY <1>1, LoadInvariant, PTL

\* A failed loading gives back the number, the cdev and the class, whichever call failed.
THEOREM Unwound == Spec => []CharDeviceUnwound
<1>1. LoadInv => CharDeviceUnwound
  BY DEF LoadInv, HeldAt, CharDeviceUnwound
<1> QED
  BY <1>1, LoadInvariant, PTL

\* No line is left taken with nobody knowing of it, in whatever order the two drivers'
\* tests of the table, requests, refusals, failures and entries come.
THEOREM NothingLeaked == Spec => []NoLineLeaked
<1>1. LoadInv => NoLineLeaked
  BY DEF LoadInv
<1> QED
  BY <1>1, LoadInvariant, PTL

\* No line is given back under the knob driver's own handler but by the button driver's
\* refused request or failure on it: the knob driver's own come before its handlers,
\* and its gpio_free comes after they are gone.
THEOREM HandlersGoFirst == Spec => LinesOutliveHandlers
<1> DEFINE A == \A l \in requested \ requested' :
                  irq[l] = "knob" => /\ bpc = "gpio" /\ Line("button") = l
                                     /\ io["button"] \in {"request", "direction"} /\ UNCHANGED knobVars
<1>1. ASSUME LoadInv, Next PROVE A
  <2> USE <1>1 DEF LoadInv
  <2>1. requested \subseteq Lines
    BY DEF TypeOK
  <2>2. ASSUME SocIoConfig("knob") PROVE A
    <3>1. pc = "gpio"
      BY <2>2, ConfigMoves DEF Drivers
    <3> QED
      BY <2>1, <3>1 DEF Quiet
  <2>3. ASSUME SocIoConfig("button") PROVE A
    <3>1. UNCHANGED knobVars
      BY <2>3, ConfigMoves DEF Drivers, knobVars
    <3>2. \A l \in requested \ requested' :
            /\ Configuring("button") /\ Line("button") = l
            /\ io["button"] \in {"request", "direction"}
      BY <2>3, ConfigLines DEF Drivers
    <3> QED
      BY <3>1, <3>2 DEF Configuring
  <2>4. CASE FreeGpio
    <3>1. pc = "free_gpio"
      BY <2>4 DEF FreeGpio, Loop
    <3> QED
      BY <2>1, <3>1 DEF Quiet
  <2>5. CASE ~((\E who \in Drivers : SocIoConfig(who)) \/ FreeGpio)
    <3>1. requested' = requested
      BY <1>1, <2>5 DEF Next, Load, SetUpQueue, KmallocFails, AddHandler, AllocRegion, AddCdev,
         CreateClass, CreateDevice, DeviceUnnoticed, AllocInput, RegisterInput, RegionFails,
         CdevFails, AllocInputFails, RegisterInputFails, Take, Fail, Unload, RemoveNodes, FreeIrq,
         LoadButton, ButtonHandler, UnloadButton, gpioVars
    <3> QED
      BY <3>1
  <2> QED
    BY <2>2, <2>3, <2>4, <2>5 DEF Drivers
<1>2. LoadInv /\ [Next]_vars => [A]_vars
  BY <1>1
<1> QED
  BY <1>2, LoadInvariant, PTL DEF Spec, LinesOutliveHandlers

\* An unloading leaves none of its handlers behind.
THEOREM UnloadClean == Spec => UnloadSilences
<1> DEFINE A == pc' = "unloaded" =>
                  \A l \in Lines : irq'[l] = "dead" => irq[l] \in {"dead", "button"}
<1>1. ASSUME LoadInv, Next PROVE A
  <2> USE <1>1 DEF LoadInv
  <2>1. CASE FreeGpio
    <3>1. TypeOK
      OBVIOUS
    <3>2. \A l \in Lines : irq'[l] # irq[l] => irq[l] = "knob"
      <4>1. CASE at = 4
        BY <2>1, <3>1, <4>1, Abandoned DEF FreeGpio
      <4>2. CASE at # 4
        BY <2>1, <4>2 DEF FreeGpio
      <4> QED
        BY <4>1, <4>2
    <3>3. pc = "free_gpio"
      BY <2>1 DEF FreeGpio, Loop
    <3>4. \A l \in Lines : irq[l] # "knob"
      BY <3>3 DEF Quiet
    <3> QED
      BY <3>2, <3>4
  <2>2. CASE ButtonHandler
    <3>1. \A l \in Lines : irq'[l] = irq[l] \/ irq'[l] = "button"
      <4>1. LineOrder[bat] \in Lines /\ TypeOK
        BY LineFacts DEF TypeOK
      <4> QED
        BY <2>2, <4>1, Registered DEF ButtonHandler
    <3> QED
      BY <3>1
  <2>3. CASE UnloadButton
    <3>1. \A l \in Lines : irq'[l] # irq[l] => irq[l] = "button"
      <4>1. TypeOK
        OBVIOUS
      <4> QED
        BY <2>3, <4>1, Abandoned DEF UnloadButton
    <3> QED
      BY <3>1
  <2>4. CASE LoadButton \/ \E who \in Drivers : SocIoConfig(who)
    <3>1. UNCHANGED irq
      BY <2>4, ConfigMoves DEF LoadButton
    <3> QED
      BY <3>1
  <2>5. CASE ~(\/ FreeGpio \/ ButtonHandler \/ UnloadButton \/ LoadButton
               \/ \E who \in Drivers : SocIoConfig(who))
    <3>1. pc' # "unloaded"
      BY <1>1, <2>5 DEF Next, Load, SetUpQueue, KmallocFails, AddHandler, AllocRegion,
         AddCdev, CreateClass, CreateDevice, DeviceUnnoticed, AllocInput, RegisterInput,
         RegionFails, CdevFails, AllocInputFails, RegisterInputFails, Take, Fail, Go, Loop, Unload,
         RemoveNodes, FreeIrq
    <3> QED
      BY <3>1
  <2> QED
    BY <2>1, <2>2, <2>3, <2>4, <2>5
<1>2. LoadInv /\ [Next]_vars => [A]_vars
  BY <1>1
<1> QED
  BY <1>2, LoadInvariant, PTL DEF Spec, UnloadSilences
===============================================================================

------------------------------- MODULE KnobLoad -------------------------------
(***************************************************************************)
(* Loading and unloading of the knob driver (button_dev_init, knob_probe,  *)
(* button_dev_exit of drivers/knob/knob_button.c) on the GPIO layer of     *)
(* com_api/gpio/imx_gpio.c, which it shares with the button driver         *)
(* (drivers/button/lidbg_button.c) that wants the same four lines.         *)
(*                                                                         *)
(* The GPIO layer keeps a table of the lines it has configured and skips   *)
(* what is in it.  It takes no lock, and the button driver configures its  *)
(* lines in a thread of its own, so the calls of soc_io_config are steps   *)
(* that the two drivers interleave.  Calls of the kernel fail where the    *)
(* drivers look at the result; class_create and device_create report       *)
(* failure as an error pointer, which the test for NULL does not see, so   *)
(* that the loading goes on without a node.                                *)
(***************************************************************************)
EXTENDS Integers, Sequences

\* The order in which both drivers go through their lines.
LineOrder == <<"left1", "left2", "right1", "right2">>
Lines == {LineOrder[i] : i \in 1..4}
Drivers == {"knob", "button"}

VARIABLES
  pc,          \* where the loading or unloading of the knob driver is
  at,          \* the next line of its current loop
  fifo,        \* knob_probe has set up the kfifo, the lock and the wait queue
  chrdev,      \* which of region, cdev, class and node exist
  input,       \* knob_input_dev
  bpc, bat,    \* the same for the button driver
  io,          \* where each driver is in soc_io_config
  configured,  \* lines in io_config
  requested,   \* lines the kernel has given out (gpio_request)
  irq          \* whose handler each line's interrupt calls; "dead" if that
               \* module is no longer there

knobVars == <<pc, at, fifo, chrdev, input>>
buttonVars == <<bpc, bat>>
gpioVars == <<configured, requested>>
vars == <<knobVars, buttonVars, io, gpioVars, irq>>

Absent == {"never", "failed", "unloaded"}
Starting == {"kmalloc", "gpio", "irq", "region", "cdev", "class", "device", "input", "register"}
Stopping == {"nodes", "free_irq", "free_gpio"}

TypeOK ==
  /\ pc \in Absent \cup Starting \cup {"loaded"} \cup Stopping
  /\ at \in 1..4 /\ fifo \in BOOLEAN
  /\ chrdev \subseteq {"region", "cdev", "class", "node"}
  /\ input \in {"none", "allocated", "registered"}
  /\ bpc \in {"absent", "gpio", "irq", "loaded"} /\ bat \in 1..4
  /\ io \in [Drivers -> {"test", "request", "again", "direction", "record"}]
  /\ configured \subseteq Lines /\ requested \subseteq Lines
  /\ irq \in [Lines -> {"none", "knob", "button", "dead"}]

Init ==
  /\ pc = "never" /\ at = 1 /\ fifo = FALSE /\ chrdev = {} /\ input = "none"
  /\ bpc = "absent" /\ bat = 1
  /\ io = [d \in Drivers |-> "test"]
  /\ configured = {} /\ requested = {}
  /\ irq = [l \in Lines |-> "none"]

-------------------------------------------------------------------------------
(* The GPIO layer: soc_io_config, called for one line after another by     *)
(* both drivers.  (The lines are valid: gpio_is_valid never fails.)        *)

Go(from, to) == pc = from /\ pc' = to

\* A loop over the lines: its step for the current one, and where it goes from there.
Loop(here, next) ==
  /\ pc = here
  /\ at' = (at % 4) + 1
  /\ pc' = IF at = 4 THEN next ELSE here

ButtonLoop(here, next) ==
  /\ bpc = here
  /\ bat' = (bat % 4) + 1
  /\ bpc' = IF bat = 4 THEN next ELSE here

Configuring(who) == IF who = "knob" THEN pc = "gpio" ELSE bpc = "gpio"
Line(who) == LineOrder[IF who = "knob" THEN at ELSE bat]

\* A step within soc_io_config, and one that returns from it.
Within(who, from, to) ==
  /\ Configuring(who)
  /\ io[who] = from /\ io' = [io EXCEPT ![who] = to]
  /\ UNCHANGED <<knobVars, buttonVars, irq>>

Return(who, from) ==
  /\ io[who] = from /\ io' = [io EXCEPT ![who] = "test"]
  /\ IF who = "knob"
     THEN Loop("gpio", "irq") /\ UNCHANGED buttonVars
     ELSE ButtonLoop("gpio", "irq") /\ UNCHANGED <<pc, at>>
  /\ UNCHANGED <<fifo, chrdev, input, irq>>

\* A line that is in the table is not requested again.
SkipKnown(who) ==
  /\ Line(who) \in configured
  /\ Return(who, "test")
  /\ UNCHANGED gpioVars

TestTable(who) ==
  /\ Line(who) \notin configured
  /\ Within(who, "test", "request")
  /\ UNCHANGED gpioVars

Request(who) ==
  /\ Line(who) \notin requested
  /\ Within(who, "request", "direction")
  /\ requested' = requested \cup {Line(who)}
  /\ UNCHANGED configured

\* The line is taken: it is given back, whoever has it ...
RequestRefused(who) ==
  /\ Line(who) \in requested
  /\ Within(who, "request", "again")
  /\ requested' = requested \ {Line(who)}
  /\ UNCHANGED configured

\* ... and requested again; the result is not looked at.
RequestAgain(who) ==
  /\ Within(who, "again", "direction")
  /\ requested' = requested \cup {Line(who)}
  /\ UNCHANGED configured

SetInput(who) ==
  /\ Within(who, "direction", "record")
  /\ UNCHANGED gpioVars

\* Mutant: it returns without giving the line back.
SetInputFailsKeeping(who) ==
  /\ Return(who, "direction")
  /\ UNCHANGED gpioVars

\* gpio_direction_input fails: free_gpio, and the drivers do not look at the result.
SetInputFails(who) ==
  /\ Return(who, "direction")
  /\ requested' = requested \ {Line(who)}
  /\ UNCHANGED configured

Record(who) ==
  /\ Return(who, "record")
  /\ configured' = configured \cup {Line(who)}
  /\ UNCHANGED requested

SocIoConfig(who) ==
  \/ SkipKnown(who) \/ TestTable(who) \/ Request(who) \/ RequestRefused(who)
  \/ RequestAgain(who) \/ SetInput(who) \/ SetInputFails(who) \/ Record(who)

\* SOC_IO_ISR_Add: an interrupt that has a handler is busy; nobody looks at the result.
SocIoIsrAdd(l, who) ==
  IF irq[l] = "none"
  THEN irq' = [irq EXCEPT ![l] = who]
  ELSE UNCHANGED irq

\* The handlers a module leaves behind when its code goes.
Abandon(who) == irq' = [l \in Lines |-> IF irq[l] = who THEN "dead" ELSE irq[l]]

-------------------------------------------------------------------------------
(* Loading the knob driver. *)

Load ==
  /\ pc \in Absent
  /\ pc' = "kmalloc"
  /\ at' = 1 /\ fifo' = FALSE /\ input' = "none"
  /\ UNCHANGED <<chrdev, buttonVars, io, gpioVars, irq>>

\* knob_probe: the kfifo, the lock, the wait queue and the works.
SetUpQueue ==
  /\ Go("kmalloc", "gpio")
  /\ fifo' = TRUE
  /\ UNCHANGED <<at, chrdev, input, buttonVars, io, gpioVars, irq>>

\* knob_probe gives up, and button_dev_init does not look at its result.
KmallocFails ==
  /\ Go("kmalloc", "region")
  /\ UNCHANGED <<at, fifo, chrdev, input, buttonVars, io, gpioVars, irq>>

AddHandler ==
  /\ Loop("irq", "region")
  /\ SocIoIsrAdd(LineOrder[at], "knob")
  /\ UNCHANGED <<fifo, chrdev, input, buttonVars, io, gpioVars>>

\* A step that takes one part of the character device.
Take(from, to, part) ==
  /\ Go(from, to)
  /\ chrdev' = chrdev \cup {part}
  /\ UNCHANGED <<at, fifo, input, buttonVars, io, gpioVars, irq>>

AllocRegion == Take("region", "cdev", "region")
AddCdev == Take("cdev", "class", "cdev")
CreateClass == Take("class", "device", "class")
CreateDevice == Take("device", "input", "node")

\* device_create returns an error pointer and the loading goes on.
DeviceUnnoticed ==
  /\ Go("device", "input")
  /\ UNCHANGED <<at, fifo, chrdev, input, buttonVars, io, gpioVars, irq>>

AllocInput ==
  /\ Go("input", "register")
  /\ input' = "allocated"
  /\ UNCHANGED <<at, fifo, chrdev, buttonVars, io, gpioVars, irq>>

RegisterInput ==
  /\ Go("register", "loaded")
  /\ input' = "registered"
  /\ UNCHANGED <<at, fifo, chrdev, buttonVars, io, gpioVars, irq>>

\* Mutant: the label is one too low and the class is not destroyed.
ErrDeviceCreateOneLower == chrdev \ {"region", "cdev"}

\* The labels of button_dev_init, each falling through to the next.
ErrDeviceCreate == chrdev \ {"region", "cdev", "class"}
ErrCdevAdd == chrdev \ {"region"}

\* The loading fails and the module's code goes, the handlers still registered.
Fail(from, left) ==
  /\ Go(from, "failed")
  /\ chrdev' = left
  /\ Abandon("knob")
  /\ UNCHANGED <<at, fifo, buttonVars, io, gpioVars>>

RegionFails == Fail("region", chrdev) /\ UNCHANGED input
CdevFails == Fail("cdev", ErrCdevAdd) /\ UNCHANGED input
AllocInputFails == Fail("input", ErrDeviceCreate) /\ UNCHANGED input
RegisterInputFails == Fail("register", ErrDeviceCreate) /\ input' = "none"

-------------------------------------------------------------------------------
(* Unloading it: button_dev_exit. *)

Unload ==
  /\ Go("loaded", "nodes")
  /\ UNCHANGED <<at, fifo, chrdev, input, buttonVars, io, gpioVars, irq>>

\* Mutant: the lines are given back before their handlers are removed.
RemoveNodesSkipping ==
  /\ Go("nodes", "free_gpio")
  /\ chrdev' = {}
  /\ UNCHANGED <<at, fifo, input, buttonVars, io, gpioVars, irq>>

RemoveNodes ==
  /\ Go("nodes", "free_irq")
  /\ chrdev' = {}
  /\ UNCHANGED <<at, fifo, input, buttonVars, io, gpioVars, irq>>

\* Mutant: only the interrupts of the left knob are freed.
FreeIrqLeft ==
  /\ Loop("free_irq", "free_gpio")
  /\ irq' = IF irq[LineOrder[at]] = "knob" /\ at < 3 THEN [irq EXCEPT ![LineOrder[at]] = "none"] ELSE irq
  /\ UNCHANGED <<fifo, chrdev, input, buttonVars, io, gpioVars>>

\* free_irq(262 .. 265, "hdj") finds only this module's own handler.
FreeIrq ==
  /\ Loop("free_irq", "free_gpio")
  /\ irq' = IF irq[LineOrder[at]] = "knob" THEN [irq EXCEPT ![LineOrder[at]] = "none"] ELSE irq
  /\ UNCHANGED <<fifo, chrdev, input, buttonVars, io, gpioVars>>

\* gpio_free, past the GPIO layer, whose table keeps the line; then the code goes.
FreeGpio ==
  /\ Loop("free_gpio", "unloaded")
  /\ requested' = requested \ {LineOrder[at]}
  /\ IF at = 4 THEN Abandon("knob") ELSE UNCHANGED irq
  /\ UNCHANGED <<fifo, chrdev, input, buttonVars, io, configured>>

-------------------------------------------------------------------------------
(* The button driver: a thread does the work of loading it, and its exit   *)
(* function does nothing.  (Unloading it under that thread is left out.)   *)

LoadButton ==
  /\ bpc = "absent" /\ bpc' = "gpio" /\ bat' = 1
  /\ UNCHANGED <<knobVars, io, gpioVars, irq>>

ButtonHandler ==
  /\ ButtonLoop("irq", "loaded")
  /\ SocIoIsrAdd(LineOrder[bat], "button")
  /\ UNCHANGED <<knobVars, io, gpioVars>>

UnloadButton ==
  /\ bpc = "loaded" /\ bpc' = "absent"
  /\ Abandon("button")
  /\ UNCHANGED <<knobVars, bat, io, gpioVars>>

-------------------------------------------------------------------------------
Next ==
  \/ Load \/ SetUpQueue \/ KmallocFails \/ AddHandler
  \/ \E who \in Drivers : SocIoConfig(who)
  \/ AllocRegion \/ AddCdev \/ CreateClass \/ CreateDevice \/ DeviceUnnoticed
  \/ AllocInput \/ RegisterInput
  \/ RegionFails \/ CdevFails \/ AllocInputFails \/ RegisterInputFails
  \/ Unload \/ RemoveNodes \/ FreeIrq \/ FreeGpio
  \/ LoadButton \/ ButtonHandler \/ UnloadButton

Spec == Init /\ [][Next]_vars

-------------------------------------------------------------------------------
(* Properties. *)

\* However far a loading came, after a failure the number, the cdev and the class
\* are given back, so that the next loading can take them (l.311-323).
CharDeviceUnwound == pc \in Absent => chrdev \subseteq {"node"}

\* A driver that has asked for a line and is still to look at it.
InHand(who, l) == Configuring(who) /\ Line(who) = l /\ io[who] \in {"direction", "record"}

\* No line is left taken with nobody knowing of it: in whatever order the two drivers
\* configure the same line, refuse it to one another and fail, it is in the table, or
\* one of them is about to enter it or to give it back.
NoLineLeaked ==
  \A l \in requested : l \in configured \/ \E who \in Drivers : InHand(who, l)

\* No line is given back while the knob driver's own handler could run on it, however
\* its loading and unloading went (l.340-348), but in one way: the button driver is
\* configuring the same line, and gives it back for a refused request (imx_gpio.c:109)
\* or a failure of its own (l.131).
LinesOutliveHandlers ==
  [][\A l \in requested \ requested' :
       irq[l] = "knob" => /\ bpc = "gpio" /\ Line("button") = l
                          /\ io["button"] \in {"request", "direction"} /\ UNCHANGED knobVars]_vars

\* An unloading leaves no handler behind in the code that goes, whatever failed
\* or competing loadings came before it.
UnloadSilences ==
  [][pc' = "unloaded" => \A l \in Lines : irq'[l] = "dead" => irq[l] \in {"dead", "button"}]_vars

\* "knob driver init ok !" (l.294): from then on an interrupt finds the input device
\* its handler writes to.
InitOkMeansReady ==
  pc \in {"input", "register", "loaded"} /\ (\E l \in Lines : irq[l] = "knob") => input # "none"
===============================================================================

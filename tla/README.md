# TLA+ models and proofs of the imx6q_knob drivers

This directory models the Linux kernel modules of the repository (the knob
driver, the GPIO and I2C layers, the Goodix touch driver and the GPS server) in
TLA+, checks the models with TLC and proves every safety property that a passing
run checks, and two refinements, with TLAPS. Paths below are relative to the
source tree; "l." is a line of the file under discussion.

    tlc -config KnobLoad.cfg KnobLoad      # a run: PROJECT.json lists module and cfg
    tlapm KnobQueueProofs.tla              # the proofs of a module

`PROJECT.json` holds the machine-readable side: components, runs, the mutant
that each property catches, the source lines of every definition, the findings,
the hazards and the theorems.

## 1. Inventory

| Component | Source | State | Operations | Modelled in |
|---|---|---|---|---|
| Knob driver, interrupts | `drivers/knob/knob_button.c` 110-193 | `val`, the key and keybit words of `knob_input_dev`, the four work items | the four handlers | `KnobIrq` |
| Knob driver, queue | same, 44-108, 195-212 | `knob_fifo_data`, `knob_flags`, `knob_lock`, `knob_queue`, `knob_value` | the four works, `knob_ioctl` | `KnobQueue`, `KnobPort` |
| Knob driver, whole | same | both | both | `Knob` |
| Knob driver, loading | same, 214-349 | the character device, the input device, interrupts, lines | `button_dev_init`, `knob_probe`, `button_dev_exit` | `KnobLoad` |
| Button driver | `drivers/button/lidbg_button.c` | the same four lines and interrupts | loading thread, empty exit; its works only log | `KnobLoad` |
| GPIO layer | `com_api/gpio/imx_gpio.c` | the table `io_config` | `soc_io_config`, `SOC_IO_Input`, `SOC_IO_ISR_Add`; suspend, resume and output, which no driver built here calls | `KnobLoad`, `KnobIrq` (input side) |
| Touch driver, events | `drivers/goodix_ts/gt9xx.c` 187-975, 2172-2400 | `irq_is_disable`, the work, the timer, `pre_touch`, suspend flag; the chip's frame buffer | interrupt, timer, work, suspend, resume | `GoodixTouch` |
| Touch driver, installing | same, 1290-1760, 1930-2161, 2625-2677 | ports, `config`, `fw_error`, `pnl_init_error`, mode | probe, `gtp_init_panel`, `gtp_send_cfg`, remove | `GoodixPanel` |
| Touch driver, ESD watchdog | same, 988-1022, 2437-2612 | `esd_running`, the delayed work, the pins INT and RST; the chip's registers 0x8040, 0x8041 and its address | switch, check, reset; suspend and resume around them | `GoodixEsd` |
| Touch driver, other options | same | GT9XXF mode, gestures, pen, keys | switched off in `gt9xx.h` | not modelled |
| GPS server | `drivers/gps/lidbg_gps.c` | `gps_data`, `avi_gps_data_hl`, the kfifo, `work_en`, `started` | thread, read, poll, ioctl, notifier, early suspend, probe | `Gps` (not probe) |
| I2C layer | `com_api/i2c/imx_i2c.c` | none of its own | a transfer with five tries, and the calls of `gt9xx.c` that repeat it | `GoodixI2c`, `I2cPort` |
| Netlink echo | `call/netlink/netlink_kern.c`, `apps/test_app` | one message slot, exit flag | receive, thread, exit | not modelled |
| Old knob driver | `drivers/knob/knob.c` | four works | handlers whose test of `work_pending` is inverted | not modelled (not built) |
| Target tables | `soc/` | the numbers of lines and buses | none | constants of `KnobIrq` |
| Stubs and scripts | `com_api/export_api.c`, `build/`, `tools/`, `apps/build` | none | none | not modelled |

`drivers/Makefile` builds the button, touch and knob drivers. The GPS server is
kept with them but depends on headers outside the repository; it is modelled for
its concurrency. `call/Makefile` leaves the netlink module out, which would not
compile anyway (l.88 names a field that does not exist).

How they interact. A quarter turn of a knob is an edge on a GPIO line; the
controller's chained interrupt calls the line's handler, which samples the other
line through the GPIO layer, reports a key event and schedules a work; the work
puts a byte into the kfifo under a spin lock and wakes the tasks that sleep in
the ioctl. The button driver asks the GPIO layer for the same lines and
interrupts. In the touch driver the interrupt masks its own line and leaves the
unmasking to the work, while the framebuffer notifier suspends and resumes the
driver without waiting for that work. In the GPS server a thread, the readers,
the ioctl, the notifier and the early suspend meet at a kfifo with a semaphore
and at a transfer buffer without any lock. The ESD watchdog, an option of the
touch driver, is a delayed work that resets the chip over the same two pins that
resume uses. Everything the touch driver tells the chip goes through the I2C
layer's five tries, most of it under a loop of the driver's own.

What is hard, and what therefore has to hold:

* knob queue: a counter tested without the lock, a global that a code passes
  through after the unlock, sleep against wake-up. The counter must account for
  the kfifo, nobody may sleep beside a code, the reader must see a queue.
* knob interrupts: four handlers on shared globals without a lock. Each must act
  on its own sample, no event may be filtered out, the direction must be right.
* loading: failure of each call, a second driver inside the same unlocked GPIO
  function, a table that outlives the lines. No line may be leaked or given back
  under a handler.
* touch events: masking in any order of handler, work, suspend and resume; frames
  that arrive between a read and its acknowledgement. The kernel's count must stay
  balanced, the line must come back, a touch must not stick.
* touch installing: partial failure of the probe, a configuration that is changed
  for one transfer and kept for later ones.
* ESD watchdog: two owners of a reset, a work that queues itself while it is
  cancelled. A sleeping chip must be left alone, a chip that hangs must be reset,
  the work must be alive whenever the screen is on, the chip must keep its address.
* I2C: a failed write may have arrived, two failed reads leave what the driver put
  into its buffers. Success must mean the whole effect, an answer must be one.
* GPS: bytes in order, no false end of file, no lost wake-up, a poll that is kept.

`PROJECT.json` lists the hazards at their lines with the properties that answer
them, and says of those without a property why there is none.

## 2. Modules

| Module | What it is |
|---|---|
| `KnobPort` | Abstract specification: what `/dev/knob_drv` promises, a bounded queue that drops only when full and hands each code to one call |
| `KnobQueue` | Works and `knob_ioctl`, one step per access to shared state |
| `MCKnobQueue` | The sets of works for TLC |
| `KnobIrq` | Encoder, GPIO controller and the four handlers |
| `Knob` | `KnobIrq` extended by `KnobQueue`, joined at the work items |
| `KnobLoad` | Loading and unloading of the knob and the button driver on the GPIO layer |
| `GoodixTouch` | The touch driver's event path, suspend and resume |
| `GoodixPanel` | Its installation, configuration and removal |
| `GoodixEsd` | The ESD watchdog with suspend, resume and a chip that discharges stop |
| `I2cPort` | Abstract specification: a command in one step, with what success and failure mean |
| `GoodixI2c` | The transfers, their tries, and the calls that repeat them |
| `Gps` | The GPS server |
| `KnobQueueProofs`, `KnobLoadProofs` | The proofs about the queue and about loading |
| `KnobProofs` | The proofs about the interrupts and about the whole knob driver |
| `GoodixTouchProofs`, `GoodixPanelProofs`, `GoodixEsdProofs`, `GoodixI2cProofs`, `GpsProofs` | The proofs about those modules |

**KnobQueue.** Variables keep the names of the C globals; `wpc` and `rpc` are
the positions in the work functions and in `knob_ioctl`. `kfifo_in` and the
increment of `knob_flags` are two steps, because `wait_event_interruptible`
reads the counter without the lock; so are `kfifo_out` and the decrement.
`wait_event_interruptible` is spelled out: the quick test, joining the queue,
the second test, the signal test, sleep. The copy of `knob_value` to the caller
and its clearing come after the unlock, as in the code (l.208-211). `value` is 0
until the code arrives. A work item is run by one worker at a time (the
workqueue has been non-reentrant since Linux 3.7).

**KnobIrq.** A knob is a phase 0..3; a turn moves it and latches an edge on the
lines whose trigger matches. `Dispatch` is the controller: the sixteen lines of
a half bank share a parent interrupt, so that handlers of such lines never
overlap. The four GPIOs of the board, 102-105, divided by 16 all give 6; this,
and nothing in the driver, is what keeps its handlers apart. `Passes` is the
input core's test for whether a key event is passed on.

**Knob.** `KnobIrq` extended by an instance of `KnobQueue`; `pending` is common to
them. A handler's last step puts a work there and a work's first step takes it
away. The names that both levels would need carry a `Knob` (`KnobInit`,
`KnobTurn`, `KnobNext`, `KnobSpec`).

**KnobLoad.** `pc` walks through the calls of `button_dev_init` and
`button_dev_exit`; loops over the four lines take a step per line, so that the
other driver can come between. `soc_io_config` takes no lock: `io` is each driver's
place in it, and the test of the table, the request, the refused request with its
`gpio_free` and second request, the direction with its failure, and the entry into
the table are steps of their own. A call of the kernel may fail where the code
tests the result for failure. `class_create` and `device_create` return an error
pointer, which the code compares with NULL: a failed `device_create` goes
unnoticed and `class_create` is taken to succeed. When code is unloaded with its
handlers registered, these become `"dead"`. The button driver is not unloaded
before its thread has finished.

**GoodixTouch.** `irq_is_disable` is the driver's flag and `depth` the kernel's
count. `wpc` is the position in `goodix_ts_work_func`, `pm` that in suspend or
resume. Steps of different actors interleave freely; suspend and resume exclude
each other since the notifier chain serialises them, and either may come twice in
a row, since a screen may be blanked or unblanked again. The chip keeps a frame and
pulses until it is acknowledged; it may claim one point more than the driver
takes. A status may lack the ready bit (`NotReady`): the work then acknowledges
without having read a frame (l.669-672). A wake-up succeeds, succeeds after resets,
or fails and leaves the chip asleep with the resume going on. The watchdog, where
`GTP_ESD_PROTECT` switches it on, may reset the chip whenever the driver is not
suspended (`EsdReset`; when it does so is the matter of `GoodixEsd`). `lost` is
history: since the work last read a frame the chip was reset or end_cmd has thrown
away a frame nobody reported. A frame is its number of points; coordinates are left
out.

**GoodixPanel.** A configuration is a version, data and the version its checksum
was computed over. The header's groups for the sensor ids 0, 2 and 4 carry
correct checksums; those for 1, 3 and 5 are empty. The steps follow
`goodix_ts_probe` with every failure it tests for, then resumes and the removal.
An interrupt request without the INT port is for interrupt 0 and fails. A driver
without an input device is not removed: the code would unregister a null pointer.

**GoodixEsd.** `epc` is the place in `gtp_esd_check_func`, `pm` that in suspend or
resume; both walk through `gtp_reset_guitar` in the four steps in which it sets
the pins, so that the two can meet in it. A delayed work is not pending, on its
timer or queued; while `cancel_delayed_work_sync` waits it cannot be queued. The
chip runs, hangs (and may answer still), sleeps or is held in reset; running
firmware clears 0x8040, and a restart of its own clears both registers. The
driver's client has the address 0x14, so INT has to be high when RST rises: that
is `addr_ok`. `enter_update`, which would end suspend, resume and the work at
once, is set nowhere in the repository and left out.

**GoodixI2c.** One call at a time: the double check (at the probe), the
configuration, the sleep command, the wake-up with its test. A try fails before
or after the chip has taken the message, wholly or in part, and a read that
succeeds may bring a disturbed byte. Of a buffer one byte after the address is
kept; it can be one of the two bytes the buffers are filled with. A chip that
sleeps takes nothing. `I2cPort` is the call in one step: `GoodixTouch` takes the
sleep command and the wake-up, which may fail, as single steps and `GoodixPanel` the
configuration, and the refinement is the reason.

**Gps.** A byte is its place in the receiver's stream, so that loss, repetition
and reordering are visible. The receiver's backlog may outgrow the transfer buffer;
the thread then refuses it at every look and drains nothing (`LengthTooBig`), while
`clean_ublox_buf` takes it without comparing. One reader, which polls before it reads
or does not; the copy to the user may fail, and the bytes taken are then lost. The emptying and the filling of the kfifo are two
steps under the semaphore, because `gps_read` tests the kfifo without it. `reset`
and `polled` are history: what has happened since the read, or the poll it relies
on, began. The notifier and the early suspend follow one another.

## 3. Runs

| Run | Bounds | Shows |
|---|---|---|
| `knob_readers` | 2 readers, 1 work, kfifo of 2 | The lock, the counter and the wait queue keep their promises whoever calls; a woken sleeper leaves |
| `knob_one_reader` | 1 reader, 2 works, kfifo of 2 | `KnobQueue` implements `KnobPort`; calls return, rotations are stored |
| `knob_irq` | both knobs, unbounded turns | Own sample, no filtered event, right direction |
| `knob_end_to_end` | 1 knob, 4 quarter turns, kfifo of 1 | A returned code names a direction the knob was turned in; a turn is heard |
| `knob_load` | none | What failed loadings leave; no line is leaked or freed under a handler, the button driver working on the same lines |
| `knob_load_ready` (violation) | none | Finding 1: `InitOkMeansReady` |
| `goodix_touch` | 2 points and one too many | Masking, acknowledgement, release, both modes, resets, failed wake-ups, suspend and resume twice in a row |
| `goodix_panel` | versions 0..3, driver 1, lock at 3 | Configuration and resources |
| `goodix_refused` (violation) | same | Finding 2: `RefusedMeansNotSent` |
| `goodix_esd` | the code's 3 rounds of the check and 10 of the wake-up | The work lives while the screen is on, sleep is undisturbed, the address is kept, a hung chip is reset |
| `goodix_i2c` | the code's 5 tries, 3, 5 and 10 rounds; three byte values | What the double check returns came over the bus, one fault of two is absorbed; the calls implement `I2cPort` |
| `gps` | kfifo and buffer of 2, reads of 1, 3 bytes | Order, no false end of file, a poll that is kept, wake-up |

Why the bounds are enough to meet the cases:

* A kfifo of one or two bytes is full, empty and in between within a few steps;
  its size enters the code only in the comparison with its length. Two works and
  one reader, or one work and two readers, give every pair of actors a chance to
  contend. Works of the other knob run the same code with another byte.
* `knob_irq` needs no bound; an edge that is followed by another turn is
  collapsed into `"moved"`. `MaxTurns = 4` in `Knob` is a full cycle of the
  encoder, so that each trigger is met, also while an earlier turn is pending.
  `CHECK_DEADLOCK FALSE` there: with the turns used up and the application asleep
  the run is over.
* Two touch points: none, one (no second read), several (second read) and too
  many are all distinct.
* Versions below, equal to and above the driver's, and one that is locked: the
  comparisons of l.1383-1388 tell no others apart.
* `goodix_esd` and `goodix_i2c` run with the loop bounds of the code. Of the byte
  values only the two fillings and one other can matter, since bytes are only
  compared with one another. One byte per buffer: the code compares and copies
  all of them alike.
* Three bytes through a kfifo and a transfer buffer of two: full, reset and partly
  accepted transfers occur, a read that leaves a remainder, and a backlog that the
  thread refuses for good.

**Fairness and why.** The works, the handlers, runnable tasks and kernel threads
are scheduled (weak fairness). Steps that wait for the spin lock have strong
fairness, because the kernel's lock is a ticket lock and nobody is overtaken for
ever; the same for a line waiting for the controller's chained handler, which
serves all its lines in turn. In `Knob` the application keeps calling the ioctl.
In `GoodixTouch` and `Gps` a transfer to a chip that is awake succeeds again and
again (strong fairness of the successful steps): no driver recovers from a bus
that never works. In `Gps` this is the reading of a length that fits; a backlog that
does not is refused every time, and `DataReachesSleeper` says so in its premise
`Serving`. Nothing obliges a wake-up to succeed or the status to be ready. In `GoodixEsd` the timer fires, the workqueue and the notifier's
caller go on, and a feeding that is tried again and again succeeds once; nothing
obliges the chip to be read, since a read that fails leads to the reset, too. Nothing obliges a knob to be turned, a finger to be lifted, a
signal to arrive or a suspend to be followed by a resume. Runs without a liveness
property use no fairness.

## 4. What is proved

All proofs hold for every value of the constants allowed by the named assumptions.

**KnobQueueProofs** (any works, readers and size):
* `TypeCorrect`: the types; the kfifo never exceeds `KNOB_SIZE`.
* `CriticalSections`, `FlagsExact`, `WakeupsKept`: through the inductive
  invariant `Accounts == LockDiscipline /\ FlagsCountCodes /\ NoLostWakeup`. The
  parts need each other: the count is only right up to the half-made change of
  the lock's holder, so that at most one holder must exist; a sleeper may only be
  left alone if the counter is zero or a work is about to wake it.
* `LoneReaderFinds`, `LoneReaderGets`: with one reader, what it found in the
  counter is still there when it has the lock. The strengthening `Handled`
  follows the code from the test through the lock into `knob_value` and adds
  that a work that has stored but not yet counted has left the kfifo non-empty.
* `PortImplemented`: with one reader `KnobQueue` implements `KnobPort`. Each step
  maps to a step of the port or a stutter under the mapping of `Port`: the code
  is `Taken` from `kfifo_out` to the copy. With two readers this is false, and the
  driver does then duplicate or lose codes through `knob_value`; the theorem has
  `OneReader` as its assumption.

**KnobProofs**, the interrupts (any subset of the knobs): `SampleKept`,
`EventsPass` and `DirectionCorrect`, from `IrqInv`: handlers exclude each other
(`OneBank`, the arithmetic of the line numbers), the running one owns `val` and
the two words, and its sample agrees with the turn it was started for unless the
knob moved on. The lemma `Quadrature` is the case analysis over phases that makes
both edges of a direction sample the same level.

**KnobProofs**, the whole driver (any knobs, readers, kfifo size and number of
turns). `IrqSide` and `QueueSide` show that a step of `Knob` is a step of `KnobIrq`
or leaves its variables alone, and the same for `KnobQueue`: a handler's last step
is the queue's `Schedule`, a work's first step is `TakeWork`. So `KnobSpec` implies
both specifications, and their theorems hold of the composition. From there:
* `CodesComeFromTurns`: a code on its way to the application, or there, names a
  knob and a direction in which that knob was turned. The invariant follows the
  code backwards: `CodesTraced` for the caller's value, `knob_value`, the kfifo and
  the works, `EdgesTraced` for the handlers and the latched edges. The two meet at
  `ScheduleWork`, where `TurnRead` of `IrqInv` says that the work scheduled is the
  one of the direction the handler was started for.

**KnobLoadProofs**: `TypeCorrect`, `Unwound`, `NothingLeaked`, `HandlersGoFirst` and
`UnloadClean`, from `LoadInv`: which parts of the character device can exist at
each call, that each loop starts at the first line, where the knob driver has no
handlers, how far `free_irq` has come in its loop, and `NoLineLeaked` itself, which is
inductive: a line that is requested is in the table, or a driver is between its
request and its entry. The steps of `soc_io_config` are treated once for both
drivers (`ConfigStep`, from what they do to the control state, to the lines and to
who has a line in hand). `HandlersGoFirst` has one exception, because the code has
it: the button driver, refused a line, frees it whoever has it (`imx_gpio.c:109`),
and frees it if the direction fails (l.131), also under a live handler of the knob
driver. The knob driver itself never does, since it configures its lines before it
has handlers. These models have no constants; the proofs confirm the run by
argument, and give the reason for each step.

**GoodixTouchProofs** (any number of touch points): `TouchInv` is `TypeOK`,
`MaskInv` (the count of disables is the flag; while the line is masked a work is
queued or running that unmasks it, or the driver is on its way through a resume)
and `FrameInv` (what the work has read, reported and remembered of a frame, at each
place of `goodix_ts_work_func`, and how that agrees with the chip while nothing was
`lost`). `MaskingBalanced` and `UnmaskingOwed` need only the first, together, since the
flag alone does not say who will clear it.
`ButtonFollows` says that BTN_TOUCH is what the chip last posted once that frame is
acknowledged, in every state in which no reset, unread frame or frame of too many
points has come between; it needs that BTN_TOUCH is down exactly while `pre_touch`
counts points (`ButtonMatchesFrame`) and that the frame being reported is still the
chip's (`Kept`). `AcknowledgesReported`, an action property, says that after a status
that was ready end_cmd discards only the frame that was read and reported. After one
that was not, the code may discard another frame unread (l.669), and both theorems
except it.

**GoodixPanelProofs** (any versions): `PanelInv` says at each step of the probe
which ports, which interrupt and which mode exist (`Ownership`) and which three
contents the configuration buffer can have (`Buffer`). `OneSource` and `CleanExit`
are consequences of the first at the end of the probe and of the removal,
`SentIsConsistent` and `OwnVersionAtResume` of the second: the version forced to 0
is back, with its checksum, before anything else can send the buffer.
`UnknownPanelLeftAlone` says what `pnl_init_error` is for: after a sensor id that
was not recognised neither the probe nor a resume sends anything.

**GoodixEsdProofs** (any number of rounds): `WatchdogAlive`, `SleepKept` and
`AddressSafe` from `EsdInv`. Its parts: how far the loops are (`LoopInv`); which
steps of suspend and resume have `gtp_is_suspend` set (`FlagInv`); how `esd_running`,
the delayed work and its cancelling go together at those steps (`WatchInv`: the
watchdog is quiet exactly if `esd_running` is clear, but for the moments in which
suspend has set `gtp_is_suspend` and not yet switched it off); that the chip stays
asleep, with the watchdog quiet, while a suspend lasts (`SleepInv`); and, as long as
no resume has crossed a live watchdog, that the address is right and whoever is about
to raise RST has INT high (`PinInv`). The parts are proved together, a step of the one
using the others: a resume knows that the watchdog is off only from what suspend
left behind.

**GoodixI2cProofs** (any number of tries and rounds): `AnswerIsReal` and
`OneFaultHarmless` from what the two buffers of the double check hold at each read;
they are filled with different bytes, which is why two failed reads never agree. The
other calls are in the invariant for the sake of the refinement: `EffectHad` says that
a call about to report success has put the chip to sleep, woken it or written the
whole configuration.
`PortImplemented`: every step of a transfer or of a call that repeats it is a step
of `I2cPort` or leaves what the port shows alone, so that a command in one step, with
what its success and its failure mean, stands for the loops of the code.

**GpsProofs** (any size of the kfifo, of the transfer buffer and of a read, any
number of bytes): `BytesInOrder`, `ReadGetsData` and `PollKeepsPromise` from
`GpsInv`. `Stream` orders what has been delivered, what the reader holds and what is
in the kfifo, all at most `Sent`, the bytes the thread is done with; `LoadInv` says
that what it has loaded into `gps_data` are the bytes right after `Sent`, which is
what makes a push keep the order, also one that is cut off. It bounds the length by
the buffer where the thread has compared it; the backlog itself has no bound. `DataInv` and `PollInv`
say that a reader that was promised bytes has them in the kfifo or has the thread
before it, inside the semaphore, with at least one to put in. The invariant holds
while the notifier has not interfered (`crossed`), as the properties do.

Assumed, besides the named assumptions in the modules: the modelled behaviour of
the kernel (workqueue, wait queues, kfifo, input core, chained GPIO interrupts)
and of the devices, which are definitions marked external in `PROJECT.json`.

Only model-checked: liveness (`SleeperLeaves`, `LoneCallReturns`, `RotationStored`,
`TurnIsHeard`, `IrqComesBack`, `ReleaseReported`, `DataReachesSleeper`,
`HungChipReset`), since fairness and ENABLED are out of the prover's reach. Every
invariant and every action property of a passing run is proved, and so are the
refinements of `KnobPort` by `KnobQueue` and of `I2cPort` by `GoodixI2c`.

## 5. Findings

1. `knob_button.c:294` logs that the driver is initialised although the handlers,
   registered at l.248-251, write through `knob_input_dev`, which is null until
   l.296. (`knob_load_ready`)
2. `gt9xx.c:1315` logs that no configuration is sent, but sets only `fw_error`;
   the next resume sends one, of zeros. (`goodix_refused`)

Seen while reading and modelling, without a run:

* `gt9xx.c:1617` overwrites the result of the INT port's request, so that the
  function reports success without it, contrary to its comment (l.1598). In
  `GoodixPanel` the driver then ends in polling mode.
* `knob_button.c:345` frees the lines past the GPIO layer, whose table keeps them
  (`imx_gpio.c:91`): a second loading logs "request gpio" and requests nothing.
* `imx_i2c.c:47` and 78 log "Process reset." when the tries are used up, but no
  reset follows; l.16 and 54 take a reference to the adapter that nobody puts.
* A screen that is unblanked while it is on makes a resume run beside the live
  watchdog: both may be in `gtp_reset_guitar` at once, and the chip can come up at
  the other address (`crossed` in `GoodixEsd`).
* `imx_gpio.c:109`: a refused request gives the line back, whoever has it. Both
  drivers can pass the table's test at once, and the button driver then frees a line
  under the knob driver's live handler (the exception of `LinesOutliveHandlers`).
* `gt9xx.c:669`: a status that is not 0 and lacks the ready bit is acknowledged
  although no frame was read; one posted in between is thrown away, and if it was the
  release, BTN_TOUCH stays pressed until the next touch.
* `gt9xx.c:1259`: a wake-up that failed ten times is only logged, and the resume ends
  with a chip that may still be asleep.
* `lidbg_gps.c:295`: a backlog of more than 4096 bytes is refused at every look and
  never drained, so that no data reaches a reader until the notifier drains it.
* `lidbg_gps.c:307`: a stop between the thread's filling of the kfifo and its wake-up
  omits the wake-up; a reader then sleeps beside bytes until others come, also after a
  new start (the exception of `DataReachesSleeper`, without which TLC refutes it).
* After a poll that promised data a read can go to sleep in the moment between
  `kfifo_reset` and `kfifo_in` (the exception of `PolledReadFinds`).

Smaller observations, seen in the models but stated as exceptions of a property:
a work that ends while the driver suspends unmasks the line again (`GoodixTouch`);
the GPS notifier changes the thread's length and buffer under it (`crossed`), and
empties the kfifo between a reader's wait and its read, which then returns 0
(`reset`); a failed loading leaves the knob's handlers behind as `"dead"`.

## 6. Plan

Done, in this order: the knob queue and its port, the interrupts, the two
composed; loading; touch events; touch installing; GPS; proofs for the three knob
modules; the ESD watchdog; the I2C layer and its port; poll and early suspend of
the GPS server.

Then the proofs of the touch driver's three modules, of the I2C layer with its
refinement, of the GPS server, and of the whole knob driver.

Next, to prove: the safety halves of the liveness properties, that is, what a
waiting reader or a masked line can count on at every step before it leaves
(`TurnIsHeard`, `IrqComesBack`, `DataReachesSleeper`); once there is an abstract byte
stream, that `Gps` refines it.

Still to model, if ever: the GPIO layer's output lines with its suspend and resume
walks (`imx_gpio.c` 31-70), which no driver built here calls; a second reader of the
GPS server; its probe.

Abstract specifications still worth stating: a key event stream for `KnobIrq`
(one press or release per edge), and a byte stream with losses for `Gps`.

## 7. Not modelled, and why

* Memory after unloading: works still queued when the code goes, the kfifo's
  buffer, the input device that is never unregistered. The model stops at
  `"dead"` handlers; anything after is undefined.
* The node without its queue after a failed `kmalloc` in `knob_probe`: reached in
  `KnobLoad`, its calls are undefined.
* The removal of the touch driver with the watchdog on: it destroys the workqueue
  under an armed timer (`gt9xx.c:2136`), after which nothing is defined.
* `gps_probe`: it starts the thread and publishes the node before the semaphore,
  the wait queue and the kfifo exist (l.502-507); a call in that window works on
  uninitialised memory.
* What `clean_ublox_buf` writes behind `gps_data` when the backlog is longer than the
  buffer: the transfer's first `GPS_BUF_SIZE` bytes are modelled, the memory behind is not.
* Two readers of the GPS server share `gps_data_for_hal` outside the semaphore.
* The netlink echo, which does not compile, the old knob driver, which is not
  built, and the touch driver's options besides the watchdog, whose code is not
  all in the repository.
* Wording, logging, proc and debug nodes, coordinates and pressures of touches.
* The build, the menu scripts and the test application: no state of their own.

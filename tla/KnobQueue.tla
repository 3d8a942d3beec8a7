------------------------------ MODULE KnobQueue -------------------------------
(***************************************************************************)
(* The code queue of the knob driver (drivers/knob/knob_button.c): the     *)
(* four rotation works put a code each into an 8-byte kfifo and wake the   *)
(* readers; knob_ioctl sleeps until knob_flags is not zero, takes one code *)
(* into the global knob_value under knob_lock, and copies and clears that  *)
(* global after it has let the lock go.                                    *)
(*                                                                         *)
(* A step is one access to shared state.  knob_flags is read by sleeping   *)
(* readers without the lock, so the kfifo and the counter change in        *)
(* separate steps of the critical section.                                 *)
(***************************************************************************)
EXTENDS Integers, Sequences

\* The byte each work function stores: the bit of its direction.
KnobData ==
  [left_button1  |-> 1, left_button2  |-> 2,
   right_button1 |-> 4, right_button2 |-> 8]

CONSTANTS
  Works,      \* the work items in use
  Readers,    \* the tasks that call the ioctl
  KNOB_SIZE   \* bytes of the kfifo (8 in the driver)

Free == "free"

ASSUME KnobAssumption ==
  /\ Works \subseteq DOMAIN KnobData
  /\ KNOB_SIZE \in Nat \ {0}
  /\ Readers \cap Works = {}
  /\ Free \notin Readers

Codes == {KnobData[w] : w \in Works}

VARIABLES
  pending,      \* the works queued on the system workqueue
  wpc,          \* where each work function is
  knob_fifo,    \* the contents of knob_fifo_data
  knob_flags,   \* the counter the readers wait on
  knob_lock,    \* the holder of the spin lock, or Free
  knob_queue,   \* the readers on the wait queue
  knob_value,   \* the global a code passes through
  rpc,          \* where each reader is in knob_ioctl
  ret,          \* knob_ioctl's local: did kfifo_out return a byte
  signalled,    \* readers with a signal pending
  value         \* the int each caller passes, 0 until its code arrives

workVars == <<pending, wpc>>
callVars == <<ret, value, signalled>>
vars == <<pending, wpc, knob_fifo, knob_flags, knob_lock, knob_queue,
          knob_value, rpc, ret, signalled, value>>

WorkPc == {"idle", "lock", "in", "flag", "unlock", "wake"}
ReadPc == {"idle", "test", "prepare", "check", "asleep",
           "lock", "out", "dec", "unlock", "copy", "clear"}

TypeOK ==
  /\ pending \subseteq Works
  /\ wpc \in [Works -> WorkPc]
  /\ knob_fifo \in Seq(Codes)
  /\ Len(knob_fifo) <= KNOB_SIZE
  /\ knob_flags \in Int
  /\ knob_lock \in Works \cup Readers \cup {Free}
  /\ knob_queue \subseteq Readers
  /\ knob_value \in Codes \cup {0}
  /\ rpc \in [Readers -> ReadPc]
  /\ ret \in [Readers -> BOOLEAN]
  /\ signalled \subseteq Readers
  /\ value \in [Readers -> Codes \cup {0}]

Init ==
  /\ pending = {}
  /\ wpc = [w \in Works |-> "idle"]
  /\ knob_fifo = <<>>
  /\ knob_flags = 0
  /\ knob_lock = Free
  /\ knob_queue = {}
  /\ knob_value = 0
  /\ rpc = [r \in Readers |-> "idle"]
  /\ ret = [r \in Readers |-> FALSE]
  /\ signalled = {}
  /\ value = [r \in Readers |-> 0]

-------------------------------------------------------------------------------
(* The works.  The core clears the pending bit before it calls the work    *)
(* function, and never runs one item on two CPUs at a time.                *)

GoWork(w, from, to) ==
  /\ wpc[w] = from
  /\ wpc' = [wpc EXCEPT ![w] = to]

\* An interrupt handler's if(!work_pending(w)) schedule_work(w).
Schedule(w) ==
  /\ pending' = pending \cup {w}
  /\ UNCHANGED <<wpc, knob_fifo, knob_flags, knob_lock, knob_queue,
                 knob_value, rpc, ret, signalled, value>>

Run(w) ==
  /\ w \in pending
  /\ GoWork(w, "idle", "lock")
  /\ pending' = pending \ {w}
  /\ UNCHANGED <<knob_fifo, knob_flags, knob_lock, knob_queue, knob_value, rpc, callVars>>

\* Mutant: the lock is not waited for.
WorkLockBarges(w) ==
  /\ GoWork(w, "lock", "in")
  /\ knob_lock' = w
  /\ UNCHANGED <<pending, knob_fifo, knob_flags, knob_queue, knob_value, rpc, callVars>>

WorkLock(w) ==
  /\ knob_lock = Free
  /\ GoWork(w, "lock", "in")
  /\ knob_lock' = w
  /\ UNCHANGED <<pending, knob_fifo, knob_flags, knob_queue, knob_value, rpc, callVars>>

\* Mutant: the byte is stored without looking for room.
WorkStoreUnbounded(w) ==
  /\ GoWork(w, "in", "flag")
  /\ knob_fifo' = Append(knob_fifo, KnobData[w])
  /\ UNCHANGED <<pending, knob_flags, knob_lock, knob_queue, knob_value, rpc, callVars>>

\* kfifo_in: the byte is stored, or the fifo is full and the byte is dropped.
WorkStore(w) ==
  /\ Len(knob_fifo) < KNOB_SIZE
  /\ GoWork(w, "in", "flag")
  /\ knob_fifo' = Append(knob_fifo, KnobData[w])
  /\ UNCHANGED <<pending, knob_flags, knob_lock, knob_queue, knob_value, rpc, callVars>>

\* Mutant: knob_flags++ whatever kfifo_in returned.
WorkDropCounted(w) ==
  /\ Len(knob_fifo) >= KNOB_SIZE
  /\ GoWork(w, "in", "flag")
  /\ UNCHANGED <<pending, knob_fifo, knob_flags, knob_lock, knob_queue,
                 knob_value, rpc, callVars>>

WorkDrop(w) ==
  /\ Len(knob_fifo) >= KNOB_SIZE
  /\ GoWork(w, "in", "unlock")
  /\ UNCHANGED <<pending, knob_fifo, knob_flags, knob_lock, knob_queue,
                 knob_value, rpc, callVars>>

WorkFlag(w) ==
  /\ GoWork(w, "flag", "unlock")
  /\ knob_flags' = knob_flags + 1
  /\ UNCHANGED <<pending, knob_fifo, knob_lock, knob_queue, knob_value, rpc, callVars>>

\* Mutant: no wake_up_interruptible.
WorkUnlockSilent(w) ==
  /\ GoWork(w, "unlock", "idle")
  /\ knob_lock' = Free
  /\ UNCHANGED <<pending, knob_fifo, knob_flags, knob_queue, knob_value, rpc, callVars>>

WorkUnlock(w) ==
  /\ GoWork(w, "unlock", "wake")
  /\ knob_lock' = Free
  /\ UNCHANGED <<pending, knob_fifo, knob_flags, knob_queue, knob_value, rpc, callVars>>

\* wake_up_interruptible: every reader on the queue is made runnable and taken off it.
WorkWake(w) ==
  /\ GoWork(w, "wake", "idle")
  /\ knob_queue' = {}
  /\ UNCHANGED <<pending, knob_fifo, knob_flags, knob_lock, knob_value, rpc, callVars>>

WorkStep(w) ==
  \/ Run(w) \/ WorkLock(w) \/ WorkStore(w) \/ WorkDrop(w)
  \/ WorkFlag(w) \/ WorkUnlock(w) \/ WorkWake(w)

-------------------------------------------------------------------------------
(* knob_ioctl.  wait_event_interruptible tests the condition, and only if  *)
(* it is false joins the queue, tests again and sleeps.                    *)

GoRead(r, from, to) ==
  /\ rpc[r] = from
  /\ rpc' = [rpc EXCEPT ![r] = to]

\* The caller passes the address of an int; 0 stands for "no code yet".
Call(r) ==
  /\ GoRead(r, "idle", "test")
  /\ value' = [value EXCEPT ![r] = 0]
  /\ UNCHANGED <<workVars, knob_fifo, knob_flags, knob_lock, knob_queue,
                 knob_value, ret, signalled>>

\* A signal for a task that is in the call.
Signal(r) ==
  /\ rpc[r] # "idle"
  /\ signalled' = signalled \cup {r}
  /\ UNCHANGED <<workVars, knob_fifo, knob_flags, knob_lock, knob_queue,
                 knob_value, rpc, ret, value>>

Test(r) ==
  /\ GoRead(r, "test", IF knob_flags # 0 THEN "lock" ELSE "prepare")
  /\ UNCHANGED <<workVars, knob_fifo, knob_flags, knob_lock, knob_queue, knob_value, callVars>>

Prepare(r) ==
  /\ GoRead(r, "prepare", "check")
  /\ knob_queue' = knob_queue \cup {r}
  /\ UNCHANGED <<workVars, knob_fifo, knob_flags, knob_lock, knob_value, callVars>>

CheckReady(r) ==
  /\ knob_flags # 0
  /\ GoRead(r, "check", "lock")
  /\ knob_queue' = knob_queue \ {r}
  /\ UNCHANGED <<workVars, knob_fifo, knob_flags, knob_lock, knob_value, callVars>>

\* "wait failed": the call returns -1 and has taken nothing.
CheckSignal(r) ==
  /\ knob_flags = 0
  /\ r \in signalled
  /\ GoRead(r, "check", "idle")
  /\ knob_queue' = knob_queue \ {r}
  /\ signalled' = signalled \ {r}
  /\ UNCHANGED <<workVars, knob_fifo, knob_flags, knob_lock, knob_value, ret, value>>

\* Mutant: the condition is not tested again after joining the queue.
CheckSleepBlind(r) ==
  /\ r \notin signalled
  /\ GoRead(r, "check", "asleep")
  /\ UNCHANGED <<workVars, knob_fifo, knob_flags, knob_lock, knob_queue, knob_value, callVars>>

CheckSleep(r) ==
  /\ knob_flags = 0
  /\ r \notin signalled
  /\ GoRead(r, "check", "asleep")
  /\ UNCHANGED <<workVars, knob_fifo, knob_flags, knob_lock, knob_queue, knob_value, callVars>>

\* schedule() returns once a wake-up or a signal has made the task runnable.
Awake(r) ==
  /\ r \notin knob_queue \/ r \in signalled
  /\ GoRead(r, "asleep", "prepare")
  /\ UNCHANGED <<workVars, knob_fifo, knob_flags, knob_lock, knob_queue, knob_value, callVars>>

ReadLock(r) ==
  /\ knob_lock = Free
  /\ GoRead(r, "lock", "out")
  /\ knob_lock' = r
  /\ UNCHANGED <<workVars, knob_fifo, knob_flags, knob_queue, knob_value, callVars>>

\* Mutant: the byte is looked at and not removed.
ReadPeek(r) ==
  /\ knob_fifo # <<>>
  /\ GoRead(r, "out", "dec")
  /\ ret' = [ret EXCEPT ![r] = TRUE]
  /\ knob_value' = Head(knob_fifo)
  /\ UNCHANGED <<workVars, knob_fifo, knob_flags, knob_lock, knob_queue, signalled, value>>

\* kfifo_out moves the oldest byte to the global, or finds none and leaves it alone.
ReadOut(r) ==
  /\ knob_fifo # <<>>
  /\ GoRead(r, "out", "dec")
  /\ ret' = [ret EXCEPT ![r] = TRUE]
  /\ knob_value' = Head(knob_fifo)
  /\ knob_fifo' = Tail(knob_fifo)
  /\ UNCHANGED <<workVars, knob_flags, knob_lock, knob_queue, signalled, value>>

ReadEmpty(r) ==
  /\ knob_fifo = <<>>
  /\ GoRead(r, "out", "unlock")
  /\ ret' = [ret EXCEPT ![r] = FALSE]
  /\ UNCHANGED <<workVars, knob_fifo, knob_flags, knob_lock, knob_queue,
                 knob_value, signalled, value>>

\* Mutant: knob_flags is not decremented.
ReadDecForgotten(r) ==
  /\ GoRead(r, "dec", "unlock")
  /\ UNCHANGED <<workVars, knob_fifo, knob_flags, knob_lock, knob_queue, knob_value, callVars>>

ReadDec(r) ==
  /\ GoRead(r, "dec", "unlock")
  /\ knob_flags' = knob_flags - 1
  /\ UNCHANGED <<workVars, knob_fifo, knob_lock, knob_queue, knob_value, callVars>>

\* Mutant: the global is cleared with the unlock, before it has been copied.
ReadUnlockClears(r) ==
  /\ GoRead(r, "unlock", IF ret[r] THEN "copy" ELSE "idle")
  /\ knob_lock' = Free
  /\ knob_value' = 0
  /\ signalled' = IF ret[r] THEN signalled ELSE signalled \ {r}
  /\ UNCHANGED <<workVars, knob_fifo, knob_flags, knob_queue, ret, value>>

\* Mutant: the lock is kept.
ReadUnlockForgotten(r) ==
  /\ GoRead(r, "unlock", IF ret[r] THEN "copy" ELSE "idle")
  /\ signalled' = IF ret[r] THEN signalled ELSE signalled \ {r}
  /\ UNCHANGED <<workVars, knob_fifo, knob_flags, knob_lock, knob_queue,
                 knob_value, ret, value>>

\* Without a byte the call returns -1 here; signals are dealt with on the way out.
ReadUnlock(r) ==
  /\ GoRead(r, "unlock", IF ret[r] THEN "copy" ELSE "idle")
  /\ knob_lock' = Free
  /\ signalled' = IF ret[r] THEN signalled ELSE signalled \ {r}
  /\ UNCHANGED <<workVars, knob_fifo, knob_flags, knob_queue, knob_value, ret, value>>

Copy(r) ==
  /\ GoRead(r, "copy", "clear")
  /\ value' = [value EXCEPT ![r] = knob_value]
  /\ UNCHANGED <<workVars, knob_fifo, knob_flags, knob_lock, knob_queue,
                 knob_value, ret, signalled>>

Clear(r) ==
  /\ GoRead(r, "clear", "idle")
  /\ knob_value' = 0
  /\ ret' = [ret EXCEPT ![r] = FALSE]
  /\ signalled' = signalled \ {r}
  /\ UNCHANGED <<workVars, knob_fifo, knob_flags, knob_lock, knob_queue, value>>

\* What a call does by itself once it has been made.
ReadStep(r) ==
  \/ Test(r) \/ Prepare(r) \/ CheckReady(r) \/ CheckSignal(r) \/ CheckSleep(r)
  \/ Awake(r) \/ ReadLock(r) \/ ReadOut(r) \/ ReadEmpty(r) \/ ReadDec(r)
  \/ ReadUnlock(r) \/ Copy(r) \/ Clear(r)

-------------------------------------------------------------------------------
Next ==
  \/ \E w \in Works : Schedule(w) \/ WorkStep(w)
  \/ \E r \in Readers : Call(r) \/ Signal(r) \/ ReadStep(r)

Spec == Init /\ [][Next]_vars

\* Workers and runnable tasks get the CPU, and nobody is overtaken for ever at
\* the spin lock (the kernel's is a ticket lock): SF where a step waits for it.
Fairness ==
  /\ \A w \in Works : WF_vars(WorkStep(w)) /\ SF_vars(WorkLock(w))
  /\ \A r \in Readers : WF_vars(ReadStep(r)) /\ SF_vars(ReadLock(r))

FairSpec == Spec /\ Fairness

-------------------------------------------------------------------------------
(* Properties. *)

\* Nobody is inside the critical section without the lock, and the holder of
\* the lock is inside it: the kfifo calls never overlap (l.71-73, l.203-205).
LockDiscipline ==
  /\ \A w \in Works : wpc[w] \in {"in", "flag", "unlock"} <=> knob_lock = w
  /\ \A r \in Readers : rpc[r] \in {"out", "dec", "unlock"} <=> knob_lock = r

\* The counter the readers test without the lock is the length of the kfifo but
\* for the one change its holder has half made: it never wraps, and it is never
\* above what the fifo and the reader that is emptying it account for.
Storing == IF \E w \in Works : wpc[w] = "flag" THEN 1 ELSE 0
Removing == IF \E r \in Readers : rpc[r] = "dec" THEN 1 ELSE 0
FlagsCountCodes == knob_flags = Len(knob_fifo) - Storing + Removing

\* No lost wake-up: while a reader sleeps un-woken and there is a code to take,
\* some work that stored a code has its wake_up_interruptible still to do.
NoLostWakeup ==
  \A r \in Readers :
    rpc[r] = "asleep" /\ r \in knob_queue /\ knob_flags # 0
      => \E w \in Works : wpc[w] \in {"unlock", "wake"}

\* A sleeping reader with a code to take leaves its sleep.
SleeperLeaves ==
  \A r \in Readers : (rpc[r] = "asleep" /\ knob_flags # 0) ~> rpc[r] # "asleep"

-------------------------------------------------------------------------------
(* One caller.  The global knob_value is read and cleared outside the      *)
(* lock, so what follows needs the device to have a single reader.         *)

OneReader == \A q, r \in Readers : q = r

\* A lone reader that has seen knob_flags set finds a byte in the kfifo: its
\* call returns -1 for a signal and for nothing else (l.206-208 is dead code).
LoneReaderFindsCode ==
  OneReader => \A r \in Readers : rpc[r] \in {"lock", "out"} => knob_fifo # <<>>

\* A lone reader is never given the cleared global: a call that returns 0
\* carries a code.
LoneReaderGetsCode ==
  OneReader => \A r \in Readers : rpc[r] = "copy" => knob_value # 0

\* A code is in the reader's hands from kfifo_out to the copy to *value.
Taken(r) ==
  IF rpc[r] \in {"dec", "copy"} \/ (rpc[r] = "unlock" /\ ret[r]) THEN knob_value ELSE 0

Port == INSTANCE KnobPort WITH
  Size <- KNOB_SIZE, Nothing <- 0,
  queue <- knob_fifo, taken <- [r \in Readers |-> Taken(r)]

\* With one reader the driver implements the port: what it stores it returns,
\* once and in order, whatever the works and signals do meanwhile.
ImplementsPort == Port!Spec

\* A lone reader's call ends once there is a code for it.
LoneCallReturns ==
  \A r \in Readers : (rpc[r] # "idle" /\ knob_flags # 0) ~> rpc[r] = "idle"

\* A queued rotation is stored, or its own work finds the fifo full and drops it; no
\* queued work waits for the lock or behind its own earlier run for ever.
RotationStored ==
  \A w \in Works :
    w \in pending ~> wpc[w] = "flag" \/ (wpc[w] = "in" /\ Len(knob_fifo) = KNOB_SIZE)
===============================================================================

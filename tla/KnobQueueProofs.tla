--------------------------- MODULE KnobQueueProofs ----------------------------
(***************************************************************************)
(* Proofs about KnobQueue, for every set of works and readers and every    *)
(* size of the kfifo.                                                      *)
(***************************************************************************)
EXTENDS KnobQueue, TLAPS

\* A code is a byte that is not 0, the value that stands for "no code".
LEMMA CodesNotZero == Codes \subseteq Nat \ {0}
  BY KnobAssumption DEF Codes, KnobData

\* Works, readers and Free are told apart by the lock variable.
LEMMA HoldersDiffer ==
  /\ \A w \in Works : w # Free /\ w \notin Readers /\ KnobData[w] \in Codes
  /\ \A r \in Readers : r # Free /\ r \notin Works
  BY KnobAssumption DEF KnobData, Free, Codes

\* Type correctness: in particular the kfifo never holds more than KNOB_SIZE bytes.
THEOREM TypeCorrect == Spec => []TypeOK
<1>1. Init => TypeOK
  BY KnobAssumption DEF Init, TypeOK, WorkPc, ReadPc
<1>2. TypeOK /\ [Next]_vars => TypeOK'
  <2> SUFFICES ASSUME TypeOK, [Next]_vars PROVE TypeOK'
    OBVIOUS
  <2> USE DEF TypeOK, WorkPc, ReadPc, GoWork, GoRead, callVars, workVars
  <2>1. ASSUME NEW w \in Works, Schedule(w) PROVE TypeOK'
    BY <2>1 DEF Schedule
  <2>2. ASSUME NEW w \in Works, WorkStep(w) PROVE TypeOK'
    <3>1. CASE Run(w)
      BY <3>1 DEF Run
    <3>2. CASE WorkLock(w)
      BY <3>2 DEF WorkLock
    <3>3. CASE WorkStore(w)
      BY <3>3, KnobAssumption, HoldersDiffer DEF WorkStore
    <3>4. CASE WorkDrop(w)
      BY <3>4 DEF WorkDrop
    <3>5. CASE WorkFlag(w)
      BY <3>5 DEF WorkFlag
    <3>6. CASE WorkUnlock(w) \/ WorkWake(w)
      BY <3>6 DEF WorkUnlock, WorkWake
    <3> QED BY <2>2, <3>1, <3>2, <3>3, <3>4, <3>5, <3>6 DEF WorkStep
  <2>3. ASSUME NEW r \in Readers, Call(r) \/ Signal(r) PROVE TypeOK'
    BY <2>3 DEF Call, Signal
  <2>4. ASSUME NEW r \in Readers, ReadStep(r) PROVE TypeOK'
    <3>1. CASE Test(r) \/ Prepare(r) \/ CheckReady(r) \/ CheckSignal(r)
      BY <3>1 DEF Test, Prepare, CheckReady, CheckSignal
    <3>2. CASE CheckSleep(r) \/ Awake(r) \/ ReadLock(r) \/ ReadEmpty(r)
      BY <3>2 DEF CheckSleep, Awake, ReadLock, ReadEmpty
    <3>3. CASE ReadOut(r)
      <4>1. Head(knob_fifo) \in Codes /\ Tail(knob_fifo) \in Seq(Codes)
            /\ Len(Tail(knob_fifo)) <= KNOB_SIZE
        BY <3>3, KnobAssumption DEF ReadOut
      <4> QED BY <3>3, <4>1 DEF ReadOut
    <3>4. CASE ReadDec(r) \/ ReadUnlock(r)
      BY <3>4 DEF ReadDec, ReadUnlock
    <3>5. CASE Copy(r) \/ Clear(r)
      BY <3>5 DEF Copy, Clear
    <3> QED BY <2>4, <3>1, <3>2, <3>3, <3>4, <3>5 DEF ReadStep
  <2>5. CASE UNCHANGED vars
    BY <2>5 DEF vars
  <2> QED BY <2>1, <2>2, <2>3, <2>4, <2>5 DEF Next
<1> QED BY <1>1, <1>2, PTL DEF Spec

-------------------------------------------------------------------------------
(* The critical section.  The lock's holder and the program counters agree *)
(* (LockDiscipline), so at most one task is between its two changes, and   *)
(* that is what makes the count exact.                                     *)

LEMMA LockStep == TypeOK /\ LockDiscipline /\ [Next]_vars => LockDiscipline'
<1> SUFFICES ASSUME TypeOK, LockDiscipline, [Next]_vars PROVE LockDiscipline'
  OBVIOUS
<1> USE HoldersDiffer DEF TypeOK, LockDiscipline, GoWork, GoRead, callVars, workVars
<1>1. ASSUME NEW w \in Works, Schedule(w) \/ WorkStep(w) PROVE LockDiscipline'
  <2>1. CASE Schedule(w) \/ Run(w)
    BY <2>1 DEF Schedule, Run
  <2>2. CASE WorkLock(w)
    BY <2>2 DEF WorkLock
  <2>3. CASE WorkStore(w) \/ WorkDrop(w) \/ WorkFlag(w)
    BY <2>3 DEF WorkStore, WorkDrop, WorkFlag
  <2>4. CASE WorkUnlock(w)
    BY <2>4 DEF WorkUnlock
  <2>5. CASE WorkWake(w)
    BY <2>5 DEF WorkWake
  <2> QED BY <1>1, <2>1, <2>2, <2>3, <2>4, <2>5 DEF WorkStep
<1>2. ASSUME NEW r \in Readers, Call(r) \/ Signal(r) \/ ReadStep(r) PROVE LockDiscipline'
  <2>1. CASE Call(r) \/ Signal(r) \/ Test(r) \/ Prepare(r) \/ CheckReady(r)
    BY <2>1 DEF Call, Signal, Test, Prepare, CheckReady
  <2>2. CASE CheckSignal(r) \/ CheckSleep(r) \/ Awake(r)
    BY <2>2 DEF CheckSignal, CheckSleep, Awake
  <2>3. CASE ReadLock(r)
    BY <2>3 DEF ReadLock
  <2>4. CASE ReadOut(r) \/ ReadEmpty(r) \/ ReadDec(r)
    BY <2>4 DEF ReadOut, ReadEmpty, ReadDec
  <2>5. CASE ReadUnlock(r)
    BY <2>5 DEF ReadUnlock
  <2>6. CASE Copy(r) \/ Clear(r)
    BY <2>6 DEF Copy, Clear
  <2> QED BY <1>2, <2>1, <2>2, <2>3, <2>4, <2>5, <2>6 DEF ReadStep
<1>3. CASE UNCHANGED vars
  BY <1>3 DEF vars
<1> QED BY <1>1, <1>2, <1>3 DEF Next

\* A step that moves no task into or out of "flag" and "dec", and changes neither
\* the kfifo nor the counter, leaves the count alone.
LEMMA CountUntouched ==
  ASSUME FlagsCountCodes, UNCHANGED <<knob_fifo, knob_flags>>,
         \A w \in Works : wpc'[w] = "flag" <=> wpc[w] = "flag",
         \A r \in Readers : rpc'[r] = "dec" <=> rpc[r] = "dec"
  PROVE  FlagsCountCodes'
  BY DEF FlagsCountCodes, Storing, Removing

LEMMA CountStep ==
  TypeOK /\ LockDiscipline /\ FlagsCountCodes /\ [Next]_vars => FlagsCountCodes'
<1> SUFFICES ASSUME TypeOK, LockDiscipline, FlagsCountCodes, [Next]_vars
             PROVE  FlagsCountCodes'
  OBVIOUS
<1> USE HoldersDiffer DEF TypeOK, GoWork, GoRead, callVars, workVars
<1>1. ASSUME NEW w \in Works, Schedule(w) \/ WorkStep(w) PROVE FlagsCountCodes'
  <2>1. CASE Schedule(w) \/ Run(w) \/ WorkLock(w)
    BY <2>1, CountUntouched DEF Schedule, Run, WorkLock
  <2>2. CASE WorkStore(w)
    <3>1. Storing = 0 /\ Removing = 0
      BY <2>2 DEF WorkStore, LockDiscipline, Storing, Removing
    <3>2. Storing' = 1 /\ Removing' = 0
      BY <2>2, <3>1 DEF WorkStore, Storing, Removing
    <3>3. Len(knob_fifo') = Len(knob_fifo) + 1 /\ knob_flags' = knob_flags
      BY <2>2 DEF WorkStore
    <3> QED BY <3>1, <3>2, <3>3 DEF FlagsCountCodes
  <2>3. CASE WorkDrop(w)
    BY <2>3, CountUntouched DEF WorkDrop
  <2>4. CASE WorkFlag(w)
    <3>1. Storing = 1 /\ Removing = 0
      BY <2>4 DEF WorkFlag, LockDiscipline, Storing, Removing
    <3>2. Storing' = 0 /\ Removing' = 0
      BY <2>4, <3>1 DEF WorkFlag, LockDiscipline, Storing, Removing
    <3> QED BY <2>4, <3>1, <3>2 DEF WorkFlag, FlagsCountCodes
  <2>5. CASE WorkUnlock(w) \/ WorkWake(w)
    BY <2>5, CountUntouched DEF WorkUnlock, WorkWake
  <2> QED BY <1>1, <2>1, <2>2, <2>3, <2>4, <2>5 DEF WorkStep
<1>2. ASSUME NEW r \in Readers, Call(r) \/ Signal(r) \/ ReadStep(r) PROVE FlagsCountCodes'
  <2>1. CASE Call(r) \/ Signal(r) \/ Test(r) \/ Prepare(r) \/ CheckReady(r)
    BY <2>1, CountUntouched DEF Call, Signal, Test, Prepare, CheckReady
  <2>2. CASE CheckSignal(r) \/ CheckSleep(r) \/ Awake(r) \/ ReadLock(r)
    BY <2>2, CountUntouched DEF CheckSignal, CheckSleep, Awake, ReadLock
  <2>3. CASE ReadOut(r)
    <3>1. Storing = 0 /\ Removing = 0
      BY <2>3 DEF ReadOut, LockDiscipline, Storing, Removing
    <3>2. Storing' = 0 /\ Removing' = 1
      BY <2>3, <3>1 DEF ReadOut, Storing, Removing
    <3>3. Len(knob_fifo') = Len(knob_fifo) - 1 /\ knob_flags' = knob_flags
      BY <2>3 DEF ReadOut
    <3> QED BY <3>1, <3>2, <3>3 DEF FlagsCountCodes
  <2>4. CASE ReadEmpty(r)
    BY <2>4, CountUntouched DEF ReadEmpty
  <2>5. CASE ReadDec(r)
    <3>1. Storing = 0 /\ Removing = 1
      BY <2>5 DEF ReadDec, LockDiscipline, Storing, Removing
    <3>2. Storing' = 0 /\ Removing' = 0
      BY <2>5, <3>1 DEF ReadDec, LockDiscipline, Storing, Removing
    <3> QED BY <2>5, <3>1, <3>2 DEF ReadDec, FlagsCountCodes
  <2>6. CASE ReadUnlock(r) \/ Copy(r) \/ Clear(r)
    BY <2>6, CountUntouched DEF ReadUnlock, Copy, Clear
  <2> QED BY <1>2, <2>1, <2>2, <2>3, <2>4, <2>5, <2>6 DEF ReadStep
<1>3. CASE UNCHANGED vars
  BY <1>3, CountUntouched DEF vars
<1> QED BY <1>1, <1>2, <1>3 DEF Next

-------------------------------------------------------------------------------
(* The wake-up.  A reader falls asleep only when it has just read 0, and   *)
(* the counter leaves 0 only in a work that has its wake_up still to do.   *)

\* The counter is not 0 where a reader is about to decrement it.
LEMMA DecrementIsCovered ==
  ASSUME TypeOK, LockDiscipline, FlagsCountCodes, NEW r \in Readers, rpc[r] = "dec"
  PROVE  knob_flags # 0
<1>1. Storing = 0 /\ Removing = 1
  BY HoldersDiffer DEF LockDiscipline, TypeOK, Storing, Removing
<1>2. Len(knob_fifo) \in Nat
  BY DEF TypeOK
<1> QED BY <1>1, <1>2 DEF FlagsCountCodes

LEMMA WakeupStep ==
  TypeOK /\ LockDiscipline /\ FlagsCountCodes /\ NoLostWakeup /\ [Next]_vars
    => NoLostWakeup'
<1> SUFFICES ASSUME TypeOK, LockDiscipline, FlagsCountCodes, NoLostWakeup, [Next]_vars,
                    NEW q \in Readers,
                    rpc'[q] = "asleep", q \in knob_queue', knob_flags' # 0
             PROVE  \E w \in Works : wpc'[w] \in {"unlock", "wake"}
  BY DEF NoLostWakeup
<1> USE DEF TypeOK, NoLostWakeup, GoWork, GoRead, callVars, workVars
<1>1. ASSUME NEW w \in Works, Schedule(w) \/ WorkStep(w)
      PROVE  \E v \in Works : wpc'[v] \in {"unlock", "wake"}
  <2>1. CASE Schedule(w) \/ Run(w) \/ WorkLock(w) \/ WorkStore(w) \/ WorkDrop(w)
    BY <2>1 DEF Schedule, Run, WorkLock, WorkStore, WorkDrop
  <2>2. CASE WorkFlag(w)
    BY <2>2 DEF WorkFlag
  <2>3. CASE WorkUnlock(w)
    BY <2>3 DEF WorkUnlock
  <2>4. CASE WorkWake(w)
    BY <2>4 DEF WorkWake
  <2> QED BY <1>1, <2>1, <2>2, <2>3, <2>4 DEF WorkStep
<1>2. ASSUME NEW r \in Readers, Call(r) \/ Signal(r) \/ ReadStep(r)
      PROVE  \E v \in Works : wpc'[v] \in {"unlock", "wake"}
  <2>1. CASE Call(r) \/ Signal(r) \/ Test(r) \/ Prepare(r) \/ CheckReady(r)
    BY <2>1 DEF Call, Signal, Test, Prepare, CheckReady
  <2>2. CASE CheckSignal(r) \/ Awake(r) \/ ReadLock(r)
    BY <2>2 DEF CheckSignal, Awake, ReadLock
  <2>3. CASE CheckSleep(r)
    BY <2>3 DEF CheckSleep
  <2>4. CASE ReadOut(r) \/ ReadEmpty(r)
    BY <2>4 DEF ReadOut, ReadEmpty
  <2>5. CASE ReadDec(r)
    BY <2>5, DecrementIsCovered DEF ReadDec
  <2>6. CASE ReadUnlock(r) \/ Copy(r) \/ Clear(r)
    BY <2>6 DEF ReadUnlock, Copy, Clear
  <2> QED BY <1>2, <2>1, <2>2, <2>3, <2>4, <2>5, <2>6 DEF ReadStep
<1>3. CASE UNCHANGED vars
  BY <1>3 DEF vars
<1> QED BY <1>1, <1>2, <1>3 DEF Next

\* What every run of the driver's queue maintains, whoever reads: the lock is held
\* exactly in the critical sections, the counter is the length of the kfifo but
\* for the holder's half-made change, and no reader sleeps through its wake-up.
Accounts == LockDiscipline /\ FlagsCountCodes /\ NoLostWakeup

THEOREM QueueAccounts == Spec => []Accounts
<1>1. Init => Accounts
  <2>1. Init => LockDiscipline /\ NoLostWakeup
    BY HoldersDiffer DEF Init, LockDiscipline, NoLostWakeup
  <2>2. Init => FlagsCountCodes
    BY DEF Init, FlagsCountCodes, Storing, Removing
  <2> QED BY <2>1, <2>2 DEF Accounts
<1>2. TypeOK /\ Accounts /\ [Next]_vars => Accounts'
  BY LockStep, CountStep, WakeupStep DEF Accounts
<1> QED BY <1>1, <1>2, TypeCorrect, PTL DEF Spec

\* The mutual exclusion of the kfifo calls (knob_lock).
THEOREM CriticalSections == Spec => []LockDiscipline
<1>1. Accounts => LockDiscipline
  BY DEF Accounts
<1> QED BY <1>1, QueueAccounts, PTL

\* knob_flags is the number of codes in the kfifo.
THEOREM FlagsExact == Spec => []FlagsCountCodes
<1>1. Accounts => FlagsCountCodes
  BY DEF Accounts
<1> QED BY <1>1, QueueAccounts, PTL

\* No sleeping reader is left without a wake-up while there is a code.
THEOREM WakeupsKept == Spec => []NoLostWakeup
<1>1. Accounts => NoLostWakeup
  BY DEF Accounts
<1> QED BY <1>1, QueueAccounts, PTL

-------------------------------------------------------------------------------
(* One reader.  Handled says what a call's local state is worth where:     *)
(* that a byte is in the global from kfifo_out to the copy, that the       *)
(* caller's int is untouched until then, and that the counter a lone       *)
(* reader saw was a promise about the kfifo.                               *)

StoredIsThere == \A w \in Works : wpc[w] = "flag" => knob_fifo # <<>>

Handled ==
  /\ StoredIsThere
  /\ \A r \in Readers :
       /\ rpc[r] \in {"lock", "out"} => knob_fifo # <<>>
       /\ rpc[r] \in {"dec", "copy"} => ret[r]
       /\ rpc[r] \in {"dec", "copy"} \/ (rpc[r] = "unlock" /\ ret[r]) => knob_value \in Codes
       /\ rpc[r] \notin {"idle", "clear"} => value[r] = 0

\* A lone reader that is not decrementing sees a counter no larger than the kfifo.
LEMMA FlagPromisesCode ==
  ASSUME OneReader, TypeOK, LockDiscipline, FlagsCountCodes, Handled,
         NEW r \in Readers, rpc[r] \in {"test", "check"}, knob_flags # 0
  PROVE  knob_fifo # <<>>
<1>1. Removing = 0
  BY DEF OneReader, Removing
<1>2. CASE \E w \in Works : wpc[w] = "flag"
  BY <1>2 DEF Handled, StoredIsThere
<1>3. CASE ~ \E w \in Works : wpc[w] = "flag"
  BY <1>1, <1>3 DEF FlagsCountCodes, Storing, TypeOK
<1> QED BY <1>2, <1>3

LEMMA HandledStep ==
  OneReader /\ TypeOK /\ Accounts /\ Handled /\ [Next]_vars => Handled'
<1> SUFFICES ASSUME OneReader, TypeOK, Accounts, Handled, [Next]_vars PROVE Handled'
  OBVIOUS
<1> USE HoldersDiffer DEF TypeOK, Handled, StoredIsThere, GoWork, GoRead, callVars, workVars
<1>1. ASSUME NEW w \in Works, Schedule(w) \/ WorkStep(w) PROVE Handled'
  <2>1. CASE Schedule(w) \/ Run(w) \/ WorkLock(w)
    BY <2>1 DEF Schedule, Run, WorkLock
  <2>2. CASE WorkStore(w)
    <3>1. knob_fifo' # <<>>
      BY <2>2 DEF WorkStore
    <3> QED BY <2>2, <3>1 DEF WorkStore
  <2>3. CASE WorkDrop(w) \/ WorkFlag(w)
    <3>1. WorkDrop(w) => knob_fifo # <<>>
      BY KnobAssumption DEF WorkDrop
    <3> QED BY <2>3, <3>1 DEF WorkDrop, WorkFlag
  <2>4. CASE WorkUnlock(w) \/ WorkWake(w)
    BY <2>4 DEF WorkUnlock, WorkWake
  <2> QED BY <1>1, <2>1, <2>2, <2>3, <2>4 DEF WorkStep
<1>2. ASSUME NEW r \in Readers, Call(r) \/ Signal(r) \/ ReadStep(r) PROVE Handled'
  <2> USE DEF OneReader
  <2>1. CASE Call(r) \/ Signal(r) \/ Prepare(r)
    BY <2>1 DEF Call, Signal, Prepare
  <2>2. CASE Test(r) \/ CheckReady(r)
    <3>1. knob_flags # 0 => knob_fifo # <<>>
      BY <2>2, FlagPromisesCode DEF Accounts, Test, CheckReady
    <3> QED BY <2>2, <3>1 DEF Test, CheckReady
  <2>3. CASE CheckSignal(r) \/ CheckSleep(r) \/ Awake(r)
    BY <2>3 DEF CheckSignal, CheckSleep, Awake
  <2>4. CASE ReadLock(r)
    BY <2>4 DEF ReadLock
  <2>5. CASE ReadOut(r)
    <3>1. Head(knob_fifo) \in Codes
      BY <2>5 DEF ReadOut
    <3>2. \A w \in Works : wpc[w] # "flag"
      BY <2>5 DEF ReadOut, Accounts, LockDiscipline
    <3> QED BY <2>5, <3>1, <3>2 DEF ReadOut
  <2>6. CASE ReadEmpty(r) \/ ReadDec(r)
    BY <2>6 DEF ReadEmpty, ReadDec
  <2>7. CASE ReadUnlock(r)
    BY <2>7 DEF ReadUnlock
  <2>8. CASE Copy(r) \/ Clear(r)
    BY <2>8 DEF Copy, Clear
  <2> QED BY <1>2, <2>1, <2>2, <2>3, <2>4, <2>5, <2>6, <2>7, <2>8 DEF ReadStep
<1>3. CASE UNCHANGED vars
  BY <1>3 DEF vars
<1> QED BY <1>1, <1>2, <1>3 DEF Next

LoneHandled == OneReader => Handled

LEMMA LoneReaderInvariant == Spec => []LoneHandled
<1>1. Init => LoneHandled
  BY DEF Init, LoneHandled, Handled, StoredIsThere
<1>2. TypeOK /\ Accounts /\ LoneHandled /\ [Next]_vars => LoneHandled'
  BY HandledStep DEF LoneHandled, OneReader
<1> QED BY <1>1, <1>2, TypeCorrect, QueueAccounts, PTL DEF Spec

\* A lone reader past the wait finds a byte: the -1 of l.206-208 is never returned to it.
THEOREM LoneReaderFinds == Spec => []LoneReaderFindsCode
<1>1. LoneHandled => LoneReaderFindsCode
  BY DEF LoneHandled, Handled, LoneReaderFindsCode
<1> QED BY <1>1, LoneReaderInvariant, PTL

\* What a lone reader copies to the caller is a code, never the cleared global.
THEOREM LoneReaderGets == Spec => []LoneReaderGetsCode
<1>1. LoneHandled => LoneReaderGetsCode
  BY CodesNotZero DEF LoneHandled, Handled, LoneReaderGetsCode
<1> QED BY <1>1, LoneReaderInvariant, PTL

-------------------------------------------------------------------------------
(* The refinement: with one reader every step of the driver is a step of   *)
(* the port or leaves the port's variables alone.                          *)

\* What the port's steps need to know of a state of the driver.
Mapped == TypeOK /\ Accounts /\ Handled

LEMMA PortInit == Init => Port!Init
  BY DEF Init, Port!Init, Taken

LEMMA PortStutter ==
  ASSUME UNCHANGED <<knob_fifo, value>>, \A r \in Readers : Taken(r)' = Taken(r)
  PROVE  UNCHANGED Port!vars
<1>1. [r \in Readers |-> Taken(r)]' = [r \in Readers |-> Taken(r)]
  OBVIOUS
<1> QED BY <1>1 DEF Port!vars

LEMMA PortStep == OneReader /\ Mapped /\ [Next]_vars => [Port!Next]_Port!vars
<1> SUFFICES ASSUME OneReader, Mapped, [Next]_vars PROVE [Port!Next]_Port!vars
  OBVIOUS
<1> USE HoldersDiffer DEF TypeOK, GoWork, GoRead, callVars, workVars, Mapped
<1>1. ASSUME NEW w \in Works, Schedule(w) \/ WorkStep(w) PROVE [Port!Next]_Port!vars
  <2>1. \A r \in Readers : Taken(r)' = Taken(r)
    BY <1>1 DEF Taken, Schedule, WorkStep, Run, WorkLock, WorkStore, WorkDrop,
                WorkFlag, WorkUnlock, WorkWake
  <2>2. CASE WorkStore(w)
    <3>1. /\ Len(knob_fifo) < KNOB_SIZE /\ value' = value
          /\ knob_fifo' = Append(knob_fifo, KnobData[w])
      BY <2>2 DEF WorkStore
    <3>2. [r \in Readers |-> Taken(r)]' = [r \in Readers |-> Taken(r)]
      BY <2>1
    <3>3. Port!Put
      BY <3>1, <3>2 DEF Port!Put
    <3> QED BY <3>3 DEF Port!Next
  <2>3. CASE ~ WorkStore(w)
    <3>1. UNCHANGED <<knob_fifo, value>>
      BY <1>1, <2>3 DEF Schedule, WorkStep, Run, WorkLock, WorkDrop, WorkFlag,
                        WorkUnlock, WorkWake
    <3> QED BY <2>1, <3>1, PortStutter
  <2> QED BY <2>2, <2>3
<1>2. ASSUME NEW r \in Readers, Call(r) \/ Signal(r) \/ ReadStep(r)
      PROVE  [Port!Next]_Port!vars
  <2>1. \A q \in Readers : q = r
    BY DEF OneReader
  <2>2. CASE Call(r)
    <3>1. /\ \A q \in Readers : Taken(q) = 0 /\ Taken(q)' = 0
          /\ value' = [value EXCEPT ![r] = 0] /\ knob_fifo' = knob_fifo
      BY <2>1, <2>2 DEF Call, Taken
    <3>2. [q \in Readers |-> Taken(q)]' = [q \in Readers |-> Taken(q)]
      BY <3>1
    <3>3. Port!Call(r)
      BY <3>1, <3>2 DEF Port!Call
    <3> QED BY <3>3 DEF Port!Next
  <2>3. CASE ReadOut(r)
    <3>1. /\ knob_fifo # <<>> /\ Taken(r) = 0 /\ value[r] = 0 /\ value' = value
          /\ Taken(r)' = Head(knob_fifo) /\ knob_fifo' = Tail(knob_fifo)
      BY <2>3 DEF ReadOut, Taken, Handled
    <3>2. [q \in Readers |-> Taken(q)]' =
            [[q \in Readers |-> Taken(q)] EXCEPT ![r] = Head(knob_fifo)]
      BY <2>1, <3>1
    <3>3. Port!Take(r)
      BY <3>1, <3>2 DEF Port!Take
    <3> QED BY <3>3 DEF Port!Next
  <2>4. CASE Copy(r)
    <3>1. /\ Taken(r) = knob_value /\ knob_value # 0 /\ Taken(r)' = 0
          /\ value' = [value EXCEPT ![r] = knob_value] /\ knob_fifo' = knob_fifo
      BY <2>4, CodesNotZero DEF Copy, Taken, Handled
    <3>2. [q \in Readers |-> Taken(q)]' = [[q \in Readers |-> Taken(q)] EXCEPT ![r] = 0]
      BY <2>1, <3>1
    <3>3. Port!Deliver(r)
      BY <3>1, <3>2 DEF Port!Deliver
    <3> QED BY <3>3 DEF Port!Next
  <2>5. CASE Signal(r) \/ Test(r) \/ Prepare(r) \/ CheckReady(r) \/ CheckSignal(r)
             \/ CheckSleep(r) \/ Awake(r) \/ ReadLock(r)
    <3>1. UNCHANGED <<knob_fifo, value>> /\ \A q \in Readers : Taken(q)' = Taken(q)
      BY <2>1, <2>5 DEF Signal, Test, Prepare, CheckReady, CheckSignal, CheckSleep,
                        Awake, ReadLock, Taken
    <3> QED BY <3>1, PortStutter
  <2>6. CASE ReadEmpty(r) \/ ReadDec(r) \/ ReadUnlock(r) \/ Clear(r)
    <3>1. UNCHANGED <<knob_fifo, value>> /\ \A q \in Readers : Taken(q)' = Taken(q)
      BY <2>1, <2>6 DEF ReadEmpty, ReadDec, ReadUnlock, Clear, Taken, Handled
    <3> QED BY <3>1, PortStutter
  <2> QED BY <1>2, <2>2, <2>3, <2>4, <2>5, <2>6 DEF ReadStep
<1>3. CASE UNCHANGED vars
  <2>1. UNCHANGED <<knob_fifo, value>> /\ \A q \in Readers : Taken(q)' = Taken(q)
    BY <1>3 DEF vars, Taken
  <2> QED BY <2>1, PortStutter
<1> QED BY <1>1, <1>2, <1>3 DEF Next

\* With one reader the driver's queue implements the abstract port, for every set
\* of works and every size of the kfifo: no code is lost once stored, none is
\* returned twice, and they are returned in the order they were stored.
THEOREM PortImplemented == ASSUME OneReader PROVE Spec => ImplementsPort
<1>1. LoneHandled => Handled
  BY DEF LoneHandled
<1>2. Mapped /\ [Next]_vars => [Port!Next]_Port!vars
  BY PortStep
<1>3. TypeOK /\ Accounts /\ Handled => Mapped
  BY DEF Mapped
<1> QED
  BY <1>1, <1>2, <1>3, PortInit, TypeCorrect, QueueAccounts, LoneReaderInvariant, PTL
  DEF Spec, ImplementsPort, Port!Spec
===============================================================================

---------------------------- MODULE GoodixI2cProofs ---------------------------
(***************************************************************************)
(* Proofs about commanding the chip over I2C, for every number of tries,   *)
(* rounds, retries and resets and for any bytes: what the double check may *)
(* return, and that all the repeating implements the commands of I2cPort.  *)
(***************************************************************************)
EXTENDS GoodixI2c, TLAPS

\* Which call is where.
Place ==
  /\ call = NoCall => pc = "idle"
  /\ call = "check" => pc \in {"fill", "read", "compare", "ok", "failed"}
  /\ call \in {"cfg", "sleep"} => pc \in {"write", "ok", "failed"}
  /\ call = "wake" => pc \in {"int", "read", "reset", "ok", "failed"}

\* Where a loop is about to go round once more it has not used up its repetitions.
LoopsLeft ==
  /\ pc = "fill" => round < ROUNDS
  /\ pc = "write" => round < RETRIES
  /\ pc = "read" /\ call = "wake" => round < RETRIES
  /\ pc = "int" => resets < RESETS

FillOf(b) == IF b = "buf" THEN Filler ELSE ConfirmFiller

\* The reads of this round of the double check that are over.
Finished ==
  IF pc = "compare" THEN Buffers ELSE IF rd = "confirm" THEN {"buf"} ELSE {}

\* A buffer holds what it was filled with or a byte from the bus; if its read is over
\* and went well, a value the register had in this round.
BytesFrom ==
  call = "check" /\ pc \in {"read", "compare"} =>
    /\ reg \in held
    /\ \A b \in Buffers : buf[b] = FillOf(b) \/ buf[b] \in seen
    /\ \A b \in Finished : b \in faulty \/ buf[b] \in held

\* The same for the answer, which is what both buffers held.
AnswerFrom ==
  Checked => /\ rxbuf \in seen
             /\ faulty # Buffers => rxbuf \in held

\* A call that is about to report success has had its effect.
EffectHad ==
  pc = "ok" =>
    /\ call = "sleep" => ~awake
    /\ call = "wake" => awake
    /\ call = "cfg" => cfg = "whole"

\* The types in three groups, as the steps change them.
LoopTypes ==
  /\ call \in Calls \cup {NoCall}
  /\ pc \in {"idle", "fill", "read", "compare", "write", "int", "reset", "ok", "failed"}
  /\ tries \in 0..TRIES /\ round \in 0..ROUNDS \cup 0..RETRIES /\ resets \in 0..RESETS
  /\ rd \in Buffers

ByteTypes ==
  /\ buf \in [Buffers -> Values] /\ rxbuf \in Values /\ reg \in Values
  /\ held \subseteq Values /\ seen \subseteq Values /\ faulty \subseteq Buffers

ChipTypes == told \in BOOLEAN /\ awake \in BOOLEAN /\ cfg \in {"stale", "torn", "whole"}

I2cInv == TypeOK /\ Place /\ LoopsLeft /\ BytesFrom /\ AnswerFrom /\ EffectHad

\* The numbers of tries are positive numbers.
LEMMA Bounds ==
  /\ TRIES \in Nat /\ ROUNDS \in Nat /\ RETRIES \in Nat /\ RESETS \in Nat
  /\ 0 < TRIES /\ 0 < ROUNDS /\ 0 < RETRIES /\ 0 < RESETS
BY TriesAssumption

LEMMA TypeGroups == TypeOK <=> LoopTypes /\ ByteTypes /\ ChipTypes
BY DEF TypeOK, LoopTypes, ByteTypes, ChipTypes

-------------------------------------------------------------------------------
\* The initial state is in the invariant.
LEMMA I2cInit == Init => I2cInv
<1> SUFFICES ASSUME Init PROVE I2cInv
  OBVIOUS
<1>1. TypeOK
  <2>1. LoopTypes
    BY Bounds DEF Init, LoopTypes, Buffers
  <2>2. ByteTypes
    BY FillerAssumption DEF Init, ByteTypes
  <2>3. ChipTypes
    BY DEF Init, ChipTypes
  <2> QED
    BY <2>1, <2>2, <2>3, TypeGroups
<1>2. Place /\ LoopsLeft
  BY DEF Init, Place, LoopsLeft, NoCall
<1>3. BytesFrom /\ AnswerFrom /\ EffectHad
  BY DEF Init, BytesFrom, AnswerFrom, Checked, EffectHad, NoCall
<1> QED
  BY <1>1, <1>2, <1>3 DEF I2cInv

-------------------------------------------------------------------------------
(* Control. *)

\* After a read: the other buffer or the comparison for the double check; the end, the
\* test again or a reset for the wake-up.
LEMMA ReadLeads ==
  ASSUME NEW done \in BOOLEAN, AfterRead(done), pc = "read", UNCHANGED <<call, resets>>,
         TypeOK, Place, LoopsLeft
  PROVE  /\ pc' \in {"read", "compare", "ok", "reset"} /\ tries' = 0 /\ rd' \in Buffers
         /\ round' \in 0..ROUNDS \cup 0..RETRIES
         /\ Place' /\ LoopsLeft'
         /\ pc' = "ok" => call = "wake" /\ done
<1>1. call \in {"check", "wake"}
  BY DEF Place, TypeOK, Calls
<1>2. CASE call = "check"
  BY <1>2 DEF AfterRead, Place, LoopsLeft, TypeOK, Buffers, NoCall
<1>3. CASE call = "wake"
  <2>1. round \in Nat /\ round + 1 \in 0..RETRIES
    BY <1>3, Bounds DEF LoopsLeft, TypeOK
  <2>2. CASE done
    BY <1>3, <2>2 DEF AfterRead, Place, LoopsLeft, TypeOK, NoCall
  <2>3. CASE ~done
    BY <1>3, <2>1, <2>3, Bounds DEF AfterRead, Place, LoopsLeft, TypeOK, NoCall
  <2> QED
    BY <2>2, <2>3
<1> QED
  BY <1>1, <1>2, <1>3

\* Every step leaves each call where it can be, within its loops.
LEMMA ControlStep == ASSUME I2cInv, Next PROVE Place' /\ LoopsLeft'
<1> USE DEF I2cInv
<1>1. ASSUME NEW v \in Values, Change(v) \/ ReadTryFails(v) PROVE Place' /\ LoopsLeft'
  BY <1>1 DEF Change, ReadTryFails, Place, LoopsLeft, loopVars, NoCall
<1>2. ASSUME NEW v \in Values, ReadDisturbed(v) PROVE Place' /\ LoopsLeft'
  BY <1>2, ReadLeads DEF ReadDisturbed
<1>3. ASSUME NEW c \in Calls, Begin(c) PROVE Place' /\ LoopsLeft'
  BY <1>3, Bounds DEF Begin, Calls, Place, LoopsLeft, NoCall
<1>4. CASE Read
  BY <1>4, ReadLeads DEF Read
<1>5. CASE ReadGivesUp
  BY <1>5, ReadLeads DEF ReadGivesUp
<1>6. CASE Fill
  BY <1>6 DEF Fill, Go, Place, LoopsLeft, TypeOK, Calls, NoCall
<1>7. CASE Compare
  BY <1>7 DEF Compare, Go, Place, LoopsLeft, loopVars, TypeOK, Calls, NoCall
<1>8. CASE Write \/ WriteTryFails
  BY <1>8 DEF Write, WriteTryFails, Place, LoopsLeft, NoCall
<1>9. CASE WriteGivesUp
  BY <1>9 DEF WriteGivesUp, Place, LoopsLeft, TypeOK, Calls, NoCall
<1>10. CASE WakeInt
  BY <1>10, Bounds DEF WakeInt, Go, Place, LoopsLeft, TypeOK, Calls, NoCall
<1>11. CASE WakeReset
  BY <1>11 DEF WakeReset, Go, Place, LoopsLeft, loopVars, TypeOK, Calls, NoCall
<1>12. CASE Return
  BY <1>12 DEF Return, Place, LoopsLeft, NoCall
<1> QED
  BY <1>1, <1>2, <1>3, <1>4, <1>5, <1>6, <1>7, <1>8, <1>9, <1>10, <1>11, <1>12 DEF Next

\* No loop goes round more often than the code allows.
LEMMA LoopTypesStep == ASSUME I2cInv, Next PROVE LoopTypes'
<1> USE Bounds DEF I2cInv, TypeOK, LoopTypes
<1>1. ASSUME NEW v \in Values, Change(v) \/ ReadTryFails(v) PROVE LoopTypes'
  BY <1>1 DEF Change, ReadTryFails, loopVars
<1>2. ASSUME NEW done \in BOOLEAN, AfterRead(done), pc = "read", UNCHANGED <<call, resets>>
      PROVE  LoopTypes'
  <2>1. /\ pc' \in {"read", "compare", "ok", "reset"} /\ tries' = 0 /\ rd' \in Buffers
        /\ round' \in 0..ROUNDS \cup 0..RETRIES
    BY <1>2, ReadLeads
  <2> QED
    BY <1>2, <2>1
<1>3. ASSUME NEW c \in Calls, Begin(c) PROVE LoopTypes'
  BY <1>3 DEF Begin, Calls
<1>4. CASE Read \/ \E v \in Values : ReadDisturbed(v)
  <2>1. AfterRead(TRUE) /\ pc = "read" /\ UNCHANGED <<call, resets>>
    BY <1>4 DEF Read, ReadDisturbed
  <2> QED
    BY <1>2, <2>1
<1>5. CASE ReadGivesUp
  <2>1. AfterRead(FALSE) /\ pc = "read" /\ UNCHANGED <<call, resets>>
    BY <1>5 DEF ReadGivesUp
  <2> QED
    BY <1>2, <2>1
<1>6. CASE Fill
  BY <1>6 DEF Fill, Go, LoopsLeft, Buffers
<1>7. CASE Compare
  BY <1>7 DEF Compare, Go, loopVars
<1>8. CASE Write \/ WriteTryFails
  BY <1>8 DEF Write, WriteTryFails, checkVars
<1>9. CASE WriteGivesUp
  BY <1>9 DEF WriteGivesUp, LoopsLeft, checkVars
<1>10. CASE WakeInt
  <2>1. resets' \in 0..RESETS /\ round' = 0
    BY <1>10 DEF WakeInt, Go, LoopsLeft
  <2> QED
    BY <1>10, <2>1 DEF WakeInt, Go, checkVars
<1>11. CASE WakeReset
  BY <1>11 DEF WakeReset, Go, loopVars, checkVars
<1>12. CASE Return
  BY <1>12 DEF Return, loopVars, checkVars
<1> QED
  BY <1>1, <1>2, <1>3, <1>4, <1>5, <1>6, <1>7, <1>8, <1>9, <1>10, <1>11, <1>12 DEF Next

\* The bytes are bytes.
LEMMA ByteTypesStep == ASSUME TypeOK, Next PROVE ByteTypes'
<1> USE DEF TypeOK, ByteTypes
<1>1. ASSUME NEW v \in Values, Change(v) PROVE ByteTypes'
  BY <1>1 DEF Change
<1>2. ASSUME NEW v \in Values, ReadDisturbed(v) \/ ReadTryFails(v) PROVE ByteTypes'
  BY <1>2 DEF ReadDisturbed, ReadTryFails, Brings, Faulty, chipVars
<1>3. CASE \E c \in Calls : Begin(c)
  BY <1>3 DEF Begin
<1>4. CASE Read \/ ReadGivesUp
  BY <1>4 DEF Read, ReadGivesUp, Brings, Faulty, chipVars
<1>5. CASE Fill
  BY <1>5, FillerAssumption DEF Fill, chipVars
<1>6. CASE Compare
  BY <1>6 DEF Compare, chipVars, Buffers
<1>7. CASE Write \/ WriteTryFails \/ WriteGivesUp \/ WakeInt \/ WakeReset
  BY <1>7 DEF Write, WriteTryFails, WriteGivesUp, WakeInt, WakeReset, checkVars
<1>8. CASE Return
  BY <1>8 DEF Return, checkVars, chipVars
<1> QED
  BY <1>1, <1>2, <1>3, <1>4, <1>5, <1>6, <1>7, <1>8 DEF Next

\* What the chip does stays within what is said of it.
LEMMA ChipTypesStep == ASSUME TypeOK, Next PROVE ChipTypes'
<1> USE DEF TypeOK, ChipTypes
<1>1. CASE \/ (\E v \in Values : Change(v) \/ ReadDisturbed(v) \/ ReadTryFails(v))
           \/ Read \/ ReadGivesUp \/ Fill \/ Compare
  <2>1. UNCHANGED <<told, awake, cfg>>
    BY <1>1 DEF Change, ReadDisturbed, ReadTryFails, Read, ReadGivesUp, Fill, Compare, chipVars
  <2> QED
    BY <2>1
<1>2. CASE \E c \in Calls : Begin(c)
  <2>1. told' = FALSE /\ awake' = awake /\ cfg' \in {"stale", "torn", "whole"}
    BY <1>2 DEF Begin
  <2> QED
    BY <2>1
<1>3. ASSUME awake' \in BOOLEAN, cfg' \in {"stale", "torn", "whole"}, told' = told
      PROVE  ChipTypes'
  BY <1>3
<1>4. ASSUME Takes PROVE awake' \in BOOLEAN /\ cfg' \in {"stale", "torn", "whole"}
  <2>1. CASE call = "sleep"
    BY <1>4, <2>1 DEF Takes
  <2>2. CASE call # "sleep"
    BY <1>4, <2>2 DEF Takes
  <2> QED
    BY <2>1, <2>2
<1>5. ASSUME FailedTry PROVE awake' \in BOOLEAN /\ cfg' \in {"stale", "torn", "whole"}
  <2>1. CASE Takes
    BY <1>4, <2>1
  <2>2. CASE ~Takes
    BY <1>5, <2>2 DEF FailedTry
  <2> QED
    BY <2>1, <2>2
<1>6. CASE Write
  BY <1>3, <1>4, <1>6 DEF Write
<1>7. CASE WriteTryFails
  BY <1>3, <1>5, <1>7 DEF WriteTryFails
<1>8. CASE WriteGivesUp
  <2>1. told' = told /\ (FailedTry \/ UNCHANGED <<awake, cfg>>)
    BY <1>8 DEF WriteGivesUp
  <2>2. CASE FailedTry
    BY <1>3, <1>5, <2>1, <2>2
  <2>3. CASE UNCHANGED <<awake, cfg>>
    BY <2>1, <2>3
  <2> QED
    BY <2>1, <2>2, <2>3
<1>9. CASE WakeInt \/ WakeReset
  <2>1. UNCHANGED <<told, cfg>> /\ (awake' = awake \/ awake' = TRUE)
    BY <1>9 DEF WakeInt, WakeReset
  <2> QED
    BY <2>1
<1>10. CASE Return
  <2>1. UNCHANGED <<awake, cfg>> /\ (told' = TRUE \/ told' = FALSE)
    BY <1>10 DEF Return, chipVars
  <2> QED
    BY <2>1
<1> QED
  BY <1>1, <1>2, <1>6, <1>7, <1>8, <1>9, <1>10 DEF Next

-------------------------------------------------------------------------------
(* The double check. *)

\* Two buffers that were filled differently and agree hold a byte from the bus; if one
\* of their reads went well it is a value of the register.
LEMMA AgreeingBuffers ==
  ASSUME TypeOK, BytesFrom, call = "check", pc = "compare", buf["buf"] = buf["confirm"]
  PROVE  /\ buf["confirm"] \in seen
         /\ faulty # Buffers => buf["confirm"] \in held
<1>1. "buf" \in Buffers /\ "confirm" \in Buffers /\ Finished = Buffers
  BY DEF Buffers, Finished
<1>2. buf["confirm"] \in seen
  BY <1>1, FillerAssumption DEF BytesFrom, FillOf
<1>3. ASSUME faulty # Buffers PROVE buf["confirm"] \in held
  <2>1. PICK b \in Buffers : b \notin faulty
    BY <1>3 DEF TypeOK
  <2>2. buf[b] \in held
    BY <1>1, <2>1 DEF BytesFrom
  <2> QED
    BY <2>1, <2>2 DEF Buffers
<1> QED
  BY <1>2, <1>3

\* A read that brings the register's byte, or is marked as faulty, keeps the round.
LEMMA ReadKeepsBytes ==
  ASSUME TypeOK, Place, BytesFrom, call = "check", pc = "read",
         NEW done \in BOOLEAN, AfterRead(done), UNCHANGED <<call, held, reg>>,
         \A b \in Buffers : b # rd => buf'[b] = buf[b],
         buf'[rd] = buf[rd] \/ buf'[rd] \in seen',
         seen \subseteq seen', faulty \subseteq faulty',
         rd \in faulty' \/ buf'[rd] \in held
  PROVE  BytesFrom'
<1>1. /\ \/ rd = "buf" /\ pc' = "read" /\ rd' = "confirm"
         \/ rd = "confirm" /\ pc' = "compare"
      /\ call' = "check"
  BY DEF AfterRead, TypeOK, Buffers
<1>2. \A b \in Buffers : buf'[b] = FillOf(b) \/ buf'[b] \in seen'
  BY DEF BytesFrom
<1>3. Finished' \subseteq Finished \cup {rd}
  BY <1>1 DEF Finished, Buffers, TypeOK
<1>4. ASSUME NEW b \in Finished' PROVE b \in faulty' \/ buf'[b] \in held'
  BY <1>3, <1>4 DEF BytesFrom, Finished, Buffers
<1> QED
  BY <1>1, <1>2, <1>4 DEF BytesFrom, FillOf

\* Every step keeps the bytes accounted for.
LEMMA CheckStep == ASSUME I2cInv, Next PROVE BytesFrom' /\ AnswerFrom'
<1> USE DEF I2cInv
<1>1. ASSUME NEW v \in Values, Change(v) PROVE BytesFrom' /\ AnswerFrom'
  BY <1>1 DEF Change, BytesFrom, AnswerFrom, Checked, Finished, FillOf, loopVars
<1>2. ASSUME NEW v \in Values, ReadTryFails(v) PROVE BytesFrom' /\ AnswerFrom'
  <2>1. AnswerFrom'
    BY <1>2 DEF ReadTryFails, AnswerFrom, Checked
  <2>2. BytesFrom'
    <3> SUFFICES ASSUME call = "check" PROVE BytesFrom'
      BY <1>2 DEF ReadTryFails, BytesFrom
    <3>1. rd \notin Finished /\ Finished' = Finished
      BY <1>2 DEF ReadTryFails, Finished, Buffers
    <3>2. /\ \A b \in Buffers : b # rd => buf'[b] = buf[b]
          /\ buf'[rd] = buf[rd] \/ buf'[rd] \in seen'
          /\ seen \subseteq seen'
      BY <1>2 DEF ReadTryFails, Brings, TypeOK
    <3>3. UNCHANGED <<call, pc, reg, held, faulty>>
      BY <1>2 DEF ReadTryFails, chipVars
    <3>4. Finished \subseteq Buffers
      BY DEF Finished, Buffers
    <3> QED
      BY <3>1, <3>2, <3>3, <3>4 DEF BytesFrom, FillOf
  <2> QED
    BY <2>1, <2>2
<1>3. ASSUME NEW v \in Values, ReadDisturbed(v) PROVE BytesFrom' /\ AnswerFrom'
  <2>1. pc = "read" /\ AfterRead(TRUE) /\ UNCHANGED <<call, resets, held, reg>>
    BY <1>3 DEF ReadDisturbed, chipVars
  <2>2. AnswerFrom'
    BY <2>1, ReadLeads DEF AnswerFrom, Checked
  <2>3. CASE call = "check"
    <3>1. /\ buf' = [buf EXCEPT ![rd] = v] /\ seen' = seen \cup {v}
          /\ faulty' = faulty \cup {rd}
      BY <1>3, <2>3 DEF ReadDisturbed, Brings, Faulty
    <3> QED
      BY <2>1, <2>3, <3>1, <2>2, ReadKeepsBytes DEF TypeOK
  <2>4. CASE call # "check"
    BY <2>1, <2>2, <2>4 DEF BytesFrom
  <2> QED
    BY <2>3, <2>4
<1>4. CASE Read
  <2>1. pc = "read" /\ AfterRead(TRUE) /\ UNCHANGED <<call, resets, held, reg, faulty>>
    BY <1>4 DEF Read, chipVars
  <2>2. AnswerFrom'
    BY <2>1, ReadLeads DEF AnswerFrom, Checked
  <2>3. CASE call = "check"
    <3>1. /\ buf' = [buf EXCEPT ![rd] = reg] /\ seen' = seen \cup {reg}
          /\ reg \in held
      BY <1>4, <2>1, <2>3 DEF Read, Brings, BytesFrom
    <3> QED
      BY <2>1, <2>3, <3>1, <2>2, ReadKeepsBytes DEF TypeOK
  <2>4. CASE call # "check"
    BY <2>1, <2>2, <2>4 DEF BytesFrom
  <2> QED
    BY <2>3, <2>4
<1>5. CASE ReadGivesUp
  <2>1. /\ pc = "read" /\ AfterRead(FALSE)
        /\ UNCHANGED <<call, resets, held, reg, buf, seen>>
    BY <1>5 DEF ReadGivesUp, chipVars
  <2>2. AnswerFrom'
    BY <2>1, ReadLeads DEF AnswerFrom, Checked
  <2>3. CASE call = "check"
    <3>1. faulty' = faulty \cup {rd}
      BY <1>5, <2>3 DEF ReadGivesUp, Faulty
    <3> QED
      BY <2>1, <2>3, <3>1, <2>2, ReadKeepsBytes DEF TypeOK
  <2>4. CASE call # "check"
    BY <2>1, <2>2, <2>4 DEF BytesFrom
  <2> QED
    BY <2>3, <2>4
<1>6. CASE Fill
  <2>1. /\ pc' = "read" /\ rd' = "buf" /\ held' = {reg} /\ reg' = reg
        /\ \A b \in Buffers : buf'[b] = FillOf(b)
    BY <1>6 DEF Fill, Go, FillOf, chipVars
  <2>2. Finished' = {}
    BY <2>1 DEF Finished
  <2> QED
    BY <2>1, <2>2 DEF BytesFrom, AnswerFrom, Checked, FillOf
<1>7. CASE Compare
  <2>1. UNCHANGED <<call, buf, held, seen, faulty>> /\ pc = "compare"
    BY <1>7 DEF Compare, Go
  <2>2. BytesFrom'
    BY <1>7 DEF Compare, Go, BytesFrom
  <2>3. CASE call = "check" /\ buf["buf"] = buf["confirm"]
    <3>1. rxbuf' = buf["confirm"]
      BY <1>7, <2>3 DEF Compare
    <3> QED
      BY <2>1, <2>2, <2>3, <3>1, AgreeingBuffers DEF AnswerFrom, Checked
  <2>4. CASE ~(call = "check" /\ buf["buf"] = buf["confirm"])
    BY <1>7, <2>1, <2>2, <2>4 DEF Compare, Go, AnswerFrom, Checked
  <2> QED
    BY <2>3, <2>4
<1>8. CASE \/ (\E c \in Calls : Begin(c)) \/ Write \/ WriteTryFails \/ WriteGivesUp
           \/ WakeInt \/ WakeReset \/ Return
  <2>1. \/ call' # "check"
        \/ call' = "check" /\ pc' \notin {"read", "compare", "ok"}
    BY <1>8 DEF Begin, Write, WriteTryFails, WriteGivesUp, WakeInt, WakeReset, Return, Go,
       Place, NoCall
  <2> QED
    BY <2>1 DEF BytesFrom, AnswerFrom, Checked
<1> QED
  BY <1>1, <1>2, <1>3, <1>4, <1>5, <1>6, <1>7, <1>8 DEF Next

-------------------------------------------------------------------------------
(* The commands. *)

\* A call is brought to success only by the transfer that has its effect.
LEMMA EffectStep == ASSUME I2cInv, Next PROVE EffectHad'
<1> USE DEF I2cInv
<1>1. ASSUME NEW v \in Values, Change(v) \/ ReadTryFails(v) PROVE EffectHad'
  BY <1>1 DEF Change, ReadTryFails, EffectHad, chipVars
<1>2. ASSUME NEW v \in Values, ReadDisturbed(v) PROVE EffectHad'
  BY <1>2, ReadLeads DEF ReadDisturbed, EffectHad, chipVars
<1>3. ASSUME NEW c \in Calls, Begin(c) PROVE EffectHad'
  BY <1>3 DEF Begin, EffectHad
<1>4. CASE Read
  BY <1>4, ReadLeads DEF Read, EffectHad, chipVars
<1>5. CASE ReadGivesUp
  BY <1>5, ReadLeads DEF ReadGivesUp, EffectHad
<1>6. CASE Fill \/ Compare
  BY <1>6 DEF Fill, Compare, Go, Place, EffectHad
<1>7. CASE Write
  BY <1>7 DEF Write, Takes, Place, EffectHad
<1>8. CASE WriteTryFails \/ WriteGivesUp \/ WakeInt \/ WakeReset \/ Return
  BY <1>8 DEF WriteTryFails, WriteGivesUp, WakeInt, WakeReset, Return, Go, EffectHad
<1> QED
  BY <1>1, <1>2, <1>3, <1>4, <1>5, <1>6, <1>7, <1>8 DEF Next

\* The invariant is inductive.
LEMMA I2cNext == I2cInv /\ [Next]_vars => I2cInv'
<1>1. ASSUME I2cInv, UNCHANGED vars PROVE I2cInv'
  BY <1>1 DEF vars, loopVars, checkVars, chipVars, I2cInv, TypeOK, Place, LoopsLeft, BytesFrom,
     FillOf, Finished, AnswerFrom, Checked, EffectHad
<1>2. ASSUME I2cInv, Next PROVE I2cInv'
  <2>1. TypeOK'
    <3>1. LoopTypes' /\ ByteTypes' /\ ChipTypes'
      BY <1>2, LoopTypesStep, ByteTypesStep, ChipTypesStep DEF I2cInv
    <3> QED
      BY <3>1 DEF TypeOK, LoopTypes, ByteTypes, ChipTypes
  <2> QED
    BY <1>2, <2>1, ControlStep, CheckStep, EffectStep DEF I2cInv
<1> QED
  BY <1>1, <1>2

\* Every reachable state is in the invariant.
LEMMA I2cInvariant == Spec => []I2cInv
BY I2cInit, I2cNext, PTL DEF Spec

-------------------------------------------------------------------------------
(* The port. *)

LEMMA PortInit == Init => Port!Init
BY DEF Init, Port!Init

\* A step that the port does not see, or in which the command reaches the chip.
LEMMA PortEffect ==
  ASSUME UNCHANGED <<call, told>>,
         \/ UNCHANGED <<awake, cfg>>
         \/ call = "sleep" /\ awake' = FALSE /\ UNCHANGED cfg
         \/ call = "wake" /\ awake' = TRUE /\ UNCHANGED cfg
         \/ call = "cfg" /\ awake /\ cfg' \in {"torn", "whole"} /\ UNCHANGED awake
  PROVE  [Port!Next]_Port!vars
BY DEF Port!Next, Port!Effect, Port!vars

\* A write that gets through, or one reported as failed, is such a step.
LEMMA PortWrite ==
  ASSUME TypeOK, Place, pc = "write", UNCHANGED <<call, told>>,
         Takes \/ FailedTry \/ UNCHANGED <<awake, cfg>>
  PROVE  [Port!Next]_Port!vars
<1>1. call \in {"cfg", "sleep"}
  BY DEF Place, TypeOK, Calls
<1>2. CASE call = "cfg"
  BY <1>2, PortEffect DEF Takes, FailedTry, TypeOK
<1>3. CASE call = "sleep"
  BY <1>3, PortEffect DEF Takes, FailedTry, TypeOK
<1> QED
  BY <1>1, <1>2, <1>3

\* Every step is one of the port's, or nothing to it.
LEMMA PortStep == ASSUME I2cInv, [Next]_vars PROVE [Port!Next]_Port!vars
<1> USE DEF I2cInv
<1>1. ASSUME NEW c \in Calls, Begin(c) PROVE [Port!Next]_Port!vars
  <2>1. Port!Begin(c)
    BY <1>1 DEF Begin, Port!Begin
  <2> QED
    BY <2>1 DEF Port!Next
<1>2. CASE Return
  <2>1. call # NoCall
    BY <1>2 DEF Return, Place
  <2>2. told' \in {FALSE, Port!Done}
    <3>1. CASE pc = "failed"
      <4>1. told' = FALSE
        BY <1>2, <3>1 DEF Return
      <4> QED
        BY <4>1
    <3>2. CASE pc = "ok"
      <4>1. told' = TRUE
        BY <1>2, <3>2 DEF Return
      <4>2. Port!Done = TRUE
        BY <3>2 DEF EffectHad, Port!Done, TypeOK
      <4> QED
        BY <4>1, <4>2
    <3> QED
      BY <1>2, <3>1, <3>2 DEF Return
  <2>3. Port!Return
    BY <1>2, <2>1, <2>2 DEF Return, Port!Return, chipVars
  <2> QED
    BY <2>3 DEF Port!Next
<1>3. CASE Write \/ WriteTryFails \/ WriteGivesUp
  BY <1>3, PortWrite DEF Write, WriteTryFails, WriteGivesUp
<1>4. CASE WakeInt \/ WakeReset
  <2>1. call = "wake"
    BY <1>4 DEF WakeInt, WakeReset, Go, Place, TypeOK, Calls
  <2> QED
    BY <1>4, <2>1, PortEffect DEF WakeInt, WakeReset
<1>5. CASE \/ (\E v \in Values : Change(v) \/ ReadDisturbed(v) \/ ReadTryFails(v))
           \/ Read \/ ReadGivesUp \/ Fill \/ Compare
  <2>1. UNCHANGED <<call, told, awake, cfg>>
    BY <1>5 DEF Change, ReadDisturbed, ReadTryFails, Read, ReadGivesUp, Fill, Compare, chipVars
  <2> QED
    BY <2>1, PortEffect
<1>6. CASE UNCHANGED vars
  BY <1>6, PortEffect DEF vars, chipVars
<1> QED
  BY <1>1, <1>2, <1>3, <1>4, <1>5, <1>6 DEF Next

-------------------------------------------------------------------------------
\* The types, with every loop within its number of repetitions.
THEOREM TypeCorrect == Spec => []TypeOK
<1>1. I2cInv => TypeOK
  BY DEF I2cInv
<1> QED
  BY <1>1, I2cInvariant, PTL

\* What the double check returns came over the bus: the two buffers are filled with
\* different bytes, so they cannot agree untouched.
THEOREM AnswerIsReal == Spec => []AnswerCameFromTheBus
<1>1. I2cInv => AnswerCameFromTheBus
  BY DEF I2cInv, AnswerFrom, AnswerCameFromTheBus
<1> QED
  BY <1>1, I2cInvariant, PTL

\* It is a value the register had meanwhile, if one of its two reads went well.
THEOREM OneFaultHarmless == Spec => []OneFaultAbsorbed
<1>1. I2cInv => OneFaultAbsorbed
  BY DEF I2cInv, AnswerFrom, OneFaultAbsorbed
<1> QED
  BY <1>1, I2cInvariant, PTL

\* However often the transfers and the calls repeat, they are the one-step commands
\* that the rest of the driver takes them for.
THEOREM PortImplemented == Spec => ImplementsPort
<1>1. I2cInv /\ [Next]_vars => [Port!Next]_Port!vars
  BY PortStep
<1> QED
  BY <1>1, PortInit, I2cInvariant, PTL DEF Spec, ImplementsPort, Port!Spec
===============================================================================

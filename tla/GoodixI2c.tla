------------------------------ MODULE GoodixI2c -------------------------------
(***************************************************************************)
(* How the touch driver commands the chip over I2C: the transfers with     *)
(* five tries of com_api/i2c/imx_i2c.c, and the calls of gt9xx.c that      *)
(* repeat them: gtp_i2c_read_dbl_check, gtp_send_cfg, gtp_enter_sleep and  *)
(* gtp_wakeup_sleep with gtp_i2c_test.  Calls follow one another; the bus  *)
(* serialises transfers and no two callers share a register.               *)
(*                                                                         *)
(* The bus: a try may fail before or after the chip has taken it, wholly   *)
(* or in part, and a read that succeeds may bring a disturbed byte.        *)
(***************************************************************************)
EXTENDS Integers

CONSTANTS
  TRIES,     \* of a transfer (5)
  ROUNDS,    \* of the double check (3)
  RETRIES,   \* of gtp_send_cfg, gtp_enter_sleep and gtp_i2c_test (5)
  RESETS,    \* of gtp_wakeup_sleep (10)
  Values,    \* the bytes a register can hold
  Filler,    \* what memset puts into buf (0xAA)
  ConfirmFiller   \* ... and into confirm_buf (0xAB)

ASSUME TriesAssumption ==
  {TRIES, ROUNDS, RETRIES, RESETS} \subseteq Nat \ {0}
ASSUME FillerAssumption ==
  {Filler, ConfirmFiller} \subseteq Values /\ Filler # ConfirmFiller

Calls == {"check", "cfg", "sleep", "wake"}
NoCall == "none"

VARIABLES
  call, pc,
  tries,      \* tries of the transfer in progress
  round,      \* repetitions of the call in progress
  resets,     \* rounds of gtp_wakeup_sleep
  rd,         \* the buffer being read into: "buf" or "confirm"
  buf,        \* the data byte of the two buffers
  told,       \* the last call reported success
  rxbuf,      \* the byte the last double check gave its caller
  awake,      \* the chip is not in sleep mode
  cfg,        \* of the configuration being sent the chip has nothing, a part or all
  reg,        \* the register that is double checked
  held,       \* its values since the round began (history)
  seen,       \* the bytes the bus brought since the call began (history)
  faulty      \* this round's reads that failed or were disturbed (history)

loopVars == <<tries, round, resets>>
checkVars == <<rd, buf, rxbuf, held, seen, faulty>>
chipVars == <<awake, cfg, reg>>
vars == <<call, pc, loopVars, checkVars, told, chipVars>>

Buffers == {"buf", "confirm"}

TypeOK ==
  /\ call \in Calls \cup {NoCall}
  /\ pc \in {"idle", "fill", "read", "compare", "write", "int", "reset", "ok", "failed"}
  /\ tries \in 0..TRIES /\ round \in 0..ROUNDS \cup 0..RETRIES /\ resets \in 0..RESETS
  /\ rd \in Buffers /\ buf \in [Buffers -> Values] /\ rxbuf \in Values
  /\ told \in BOOLEAN /\ awake \in BOOLEAN /\ cfg \in {"stale", "torn", "whole"}
  /\ reg \in Values /\ held \subseteq Values /\ seen \subseteq Values
  /\ faulty \subseteq Buffers

Init ==
  /\ call = NoCall /\ pc = "idle"
  /\ tries = 0 /\ round = 0 /\ resets = 0
  /\ rd = "buf" /\ buf = [b \in Buffers |-> Filler] /\ rxbuf = Filler
  /\ told = FALSE
  /\ awake = TRUE /\ cfg = "whole" /\ reg \in Values
  /\ held = {} /\ seen = {} /\ faulty = {}

Go(from, to) == pc = from /\ pc' = to

\* The chip's firmware changes the register.
Change(v) ==
  /\ call = "check" /\ reg # v
  /\ reg' = v /\ held' = held \cup {v}
  /\ UNCHANGED <<call, pc, loopVars, rd, buf, rxbuf, seen, faulty, told, awake, cfg>>

\* The double check is made by the probe only, when the chip has not slept yet.
Begin(c) ==
  /\ call = NoCall /\ call' = c
  /\ c = "check" => awake
  /\ pc' = CASE c = "check" -> "fill" [] c = "wake" -> "int" [] OTHER -> "write"
  /\ tries' = 0 /\ round' = 0 /\ resets' = 0
  /\ told' = FALSE
  /\ cfg' = IF c = "cfg" THEN "stale" ELSE cfg
  /\ held' = {} /\ seen' = {} /\ faulty' = {}
  /\ UNCHANGED <<rd, buf, rxbuf, awake, reg>>

Return ==
  /\ pc \in {"ok", "failed"} /\ pc' = "idle"
  /\ call' = NoCall
  /\ told' = (pc = "ok")
  /\ UNCHANGED <<loopVars, checkVars, chipVars>>

-------------------------------------------------------------------------------
(* soc_i2c_read.  What follows depends on the call: the double check looks *)
(* at no result, the i2c test repeats a read that failed.                  *)

AfterRead(done) ==
  /\ tries' = 0
  /\ CASE call = "check" ->
            /\ pc' = IF rd = "buf" THEN "read" ELSE "compare"
            /\ rd' = "confirm"
            /\ UNCHANGED round
       [] call = "wake" /\ done -> pc' = "ok" /\ UNCHANGED <<rd, round>>
       [] OTHER ->
            /\ pc' = IF round + 1 < RETRIES THEN "read" ELSE "reset"
            /\ round' = round + 1
            /\ UNCHANGED rd

\* A byte from the bus in the buffer; the test's byte is of no interest.
Brings(v) ==
  IF call = "check"
  THEN buf' = [buf EXCEPT ![rd] = v] /\ seen' = seen \cup {v}
  ELSE UNCHANGED <<buf, seen>>

Faulty == faulty' = IF call = "check" THEN faulty \cup {rd} ELSE faulty

Read ==
  /\ pc = "read" /\ awake
  /\ Brings(reg)
  /\ AfterRead(TRUE)
  /\ UNCHANGED <<call, resets, rxbuf, held, faulty, told, chipVars>>

\* The bus has no checksum.
ReadDisturbed(v) ==
  /\ pc = "read" /\ awake /\ v # reg
  /\ Brings(v) /\ Faulty
  /\ AfterRead(TRUE)
  /\ UNCHANGED <<call, resets, rxbuf, held, told, chipVars>>

\* A try fails; the byte may have been stored all the same.
ReadTryFails(v) ==
  /\ pc = "read" /\ tries + 1 < TRIES
  /\ tries' = tries + 1
  /\ \/ awake /\ Brings(v)
     \/ UNCHANGED <<buf, seen>>
  /\ UNCHANGED <<call, pc, round, resets, rd, rxbuf, held, faulty, told, chipVars>>

\* The last one does, or there is no adapter (the buffer keeps what it has).
ReadGivesUp ==
  /\ pc = "read"
  /\ Faulty
  /\ AfterRead(FALSE)
  /\ UNCHANGED <<call, resets, buf, rxbuf, held, seen, told, chipVars>>

-------------------------------------------------------------------------------
(* gtp_i2c_read_dbl_check.                                                 *)

\* Mutant: both buffers are filled alike.
FillAlike ==
  /\ Go("fill", "read")
  /\ buf' = [b \in Buffers |-> Filler]
  /\ rd' = "buf" /\ round' = round + 1
  /\ held' = {reg} /\ faulty' = {}
  /\ UNCHANGED <<call, tries, resets, rxbuf, seen, told, chipVars>>

Fill ==
  /\ Go("fill", "read")
  /\ buf' = [b \in Buffers |-> IF b = "buf" THEN Filler ELSE ConfirmFiller]
  /\ rd' = "buf" /\ round' = round + 1
  /\ held' = {reg} /\ faulty' = {}
  /\ UNCHANGED <<call, tries, resets, rxbuf, seen, told, chipVars>>

\* Mutant: only the address bytes are compared.
CompareAddresses ==
  /\ Go("compare", "ok")
  /\ rxbuf' = buf["confirm"]
  /\ UNCHANGED <<call, loopVars, rd, buf, held, seen, faulty, told, chipVars>>

Compare ==
  LET same == buf["buf"] = buf["confirm"]
  IN /\ Go("compare", IF same THEN "ok" ELSE IF round < ROUNDS THEN "fill" ELSE "failed")
     /\ rxbuf' = IF same THEN buf["confirm"] ELSE rxbuf
     /\ UNCHANGED <<call, loopVars, rd, buf, held, seen, faulty, told, chipVars>>

-------------------------------------------------------------------------------
(* soc_i2c_write, under gtp_send_cfg and gtp_enter_sleep.                  *)

Takes ==
  /\ awake
  /\ awake' = (call # "sleep")
  /\ cfg' = IF call = "cfg" THEN "whole" ELSE cfg

\* Mutant: a try in which the chip took only a part of the message counts.
WriteInPart ==
  /\ pc = "write" /\ awake
  /\ pc' = "ok" /\ tries' = 0
  /\ awake' = (call # "sleep")
  /\ cfg' \in (IF call = "cfg" THEN {"torn", "whole"} ELSE {cfg})
  /\ UNCHANGED <<call, round, resets, checkVars, told, reg>>

Write ==
  /\ pc = "write" /\ Takes
  /\ pc' = "ok" /\ tries' = 0
  /\ UNCHANGED <<call, round, resets, checkVars, told, reg>>

\* A try is reported as failed: nothing has arrived, a part, or all of it.
FailedTry ==
  \/ UNCHANGED <<awake, cfg>>
  \/ Takes
  \/ /\ awake /\ call = "cfg" /\ cfg = "stale"
     /\ cfg' = "torn" /\ UNCHANGED awake

WriteTryFails ==
  /\ pc = "write" /\ tries + 1 < TRIES
  /\ tries' = tries + 1
  /\ FailedTry
  /\ UNCHANGED <<call, pc, round, resets, checkVars, told, reg>>

\* The fifth try fails, or there is no adapter: the caller calls again, five times.
WriteGivesUp ==
  /\ pc = "write"
  /\ \/ tries + 1 = TRIES /\ FailedTry
     \/ UNCHANGED <<awake, cfg>>
  /\ tries' = 0
  /\ round' = round + 1
  /\ pc' = IF round + 1 < RETRIES THEN "write" ELSE "failed"
  /\ UNCHANGED <<call, resets, checkVars, told, reg>>

-------------------------------------------------------------------------------
(* gtp_wakeup_sleep: INT high, the test, and a reset after a test that     *)
(* failed.                                                                 *)

WakeInt ==
  /\ Go("int", "read")
  /\ awake' \in {awake, TRUE}
  /\ resets' = resets + 1 /\ round' = 0
  /\ UNCHANGED <<call, tries, checkVars, told, cfg, reg>>

\* gtp_reset_guitar, which wakes the chip if it has power.
WakeReset ==
  /\ Go("reset", IF resets < RESETS THEN "int" ELSE "failed")
  /\ awake' \in {awake, TRUE}
  /\ UNCHANGED <<call, loopVars, checkVars, told, cfg, reg>>

-------------------------------------------------------------------------------
Next ==
  \/ \E v \in Values : Change(v) \/ ReadDisturbed(v) \/ ReadTryFails(v)
  \/ \E c \in Calls : Begin(c)
  \/ Read \/ ReadGivesUp \/ Fill \/ Compare
  \/ Write \/ WriteTryFails \/ WriteGivesUp
  \/ WakeInt \/ WakeReset \/ Return

Spec == Init /\ [][Next]_vars

-------------------------------------------------------------------------------
(* Properties. *)

Checked == call = "check" /\ pc = "ok"

\* The double check never passes off a buffer it filled itself as the chip's answer:
\* a byte it returns came over the bus, although it looks at no transfer's result
\* (l.159-168).
AnswerCameFromTheBus == Checked => rxbuf \in seen

\* One read of the two may fail or be disturbed: what the double check returns is
\* still a value the register had while it was reading.
OneFaultAbsorbed == Checked /\ faulty # Buffers => rxbuf \in held

\* With all their retries the calls are the one-step commands of I2cPort: success
\* means the whole effect, failure may still have had it.  GoodixTouch takes the sleep
\* command and the wake-up, which may also fail, as such single steps, and GoodixPanel
\* the configuration.
Port == INSTANCE I2cPort
ImplementsPort == Port!Spec
===============================================================================

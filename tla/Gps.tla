--------------------------------- MODULE Gps ----------------------------------
(***************************************************************************)
(* The GPS server (drivers/gps/lidbg_gps.c).  A kernel thread polls the    *)
(* receiver over I2C: it reads how many bytes wait, reads them into        *)
(* gps_data and, holding the semaphore, appends them to a kfifo, emptying  *)
(* it first if it is full.  A reader polls or waits for bytes and takes up *)
(* to HAL_BUF_SIZE of them.  The ioctl starts and stops the thread's work; *)
(* so do the system's notifier calls and the early suspend, which, when    *)
(* the device comes up, also drain the receiver into gps_data, without any *)
(* lock, and empty the kfifo.                                              *)
(*                                                                         *)
(* A byte is known by its place in the receiver's stream.                  *)
(***************************************************************************)
EXTENDS Integers, Sequences, SequencesExt

CONSTANTS
  FIFO_SIZE,      \* bytes of the kfifo (4096)
  GPS_BUF_SIZE,   \* bytes of gps_data (4096)
  HAL_BUF_SIZE,   \* bytes a read returns at most (512)
  MaxStream       \* bound: bytes the receiver sends in a run

ASSUME SizeAssumption ==
  /\ {FIFO_SIZE, GPS_BUF_SIZE, HAL_BUF_SIZE} \subseteq Nat \ {0}
  /\ MaxStream \in Nat

VARIABLES
  made,        \* bytes the receiver has produced
  taken,       \* bytes read out of it
  work_en, started,
  hl,          \* avi_gps_data_hl
  gps_data,    \* the transfer buffer
  kfifo,       \* gps_data_fifo
  tpc,         \* where thread_gps_server is
  npc,         \* where a notifier call or the early suspend is
  rpc,         \* where gps_read or gps_poll is
  got,         \* the bytes it has taken out of the kfifo
  last,        \* the last byte delivered to the reader (history)
  crossed,     \* the notifier has changed hl or gps_data while the thread used them (history)
  polled,      \* the last poll said there is data, and no read has returned since (history)
  reset        \* since the read, or that poll, began, the server was stopped or the
               \* notifier has emptied the kfifo (history)

chipVars == <<made, taken>>
switches == <<work_en, started>>
bufVars == <<hl, gps_data>>
readVars == <<rpc, got, last, polled>>
vars == <<chipVars, switches, bufVars, kfifo, tpc, npc, readVars, crossed, reset>>

Places == 0..MaxStream        \* 0: not a byte of the stream

TypeOK ==
  /\ made \in 0..MaxStream /\ taken \in 0..made
  /\ work_en \in BOOLEAN /\ started \in BOOLEAN
  /\ hl \in 0..MaxStream
  /\ gps_data \in [1..GPS_BUF_SIZE -> Places]
  /\ kfifo \in Seq(Places) /\ Len(kfifo) <= FIFO_SIZE
  /\ tpc \in {"check", "length", "data", "push", "in", "wake"}
  /\ npc \in {"idle", "length", "data", "reset", "enable", "suspend"}
  /\ rpc \in {"idle", "poll", "psleep", "test", "sleep", "out", "copy"}
  /\ got \in Seq(Places) /\ Len(got) <= HAL_BUF_SIZE
  /\ last \in Places
  /\ crossed \in BOOLEAN /\ polled \in BOOLEAN
  /\ reset \in {"none", "stopped", "emptied"}

Init ==
  /\ made = 0 /\ taken = 0
  /\ work_en = TRUE /\ started = FALSE
  /\ hl = 0 /\ gps_data = [i \in 1..GPS_BUF_SIZE |-> 0]
  /\ kfifo = <<>>
  /\ tpc = "check" /\ npc = "idle"
  /\ rpc = "idle" /\ got = <<>> /\ last = 0
  /\ crossed = FALSE /\ polled = FALSE /\ reset = "none"

-------------------------------------------------------------------------------
(* The receiver: what waits in it may be more than the transfer buffer     *)
(* takes.                                                                  *)

Waiting == made - taken

Receive ==
  /\ made < MaxStream
  /\ made' = made + 1
  /\ UNCHANGED <<taken, switches, bufVars, kfifo, tpc, npc, readVars, crossed, reset>>

\* A transfer of n bytes to the start of gps_data; a receiver that has fewer fills up.
\* (The thread's terminating 0, for its debug output, is left out, and so is what a
\* transfer of more than GPS_BUF_SIZE bytes writes behind the buffer.)
Transfer(n) ==
  LET real == IF n <= Waiting THEN n ELSE Waiting
  IN /\ gps_data' = [i \in 1..GPS_BUF_SIZE |->
                       IF i <= real THEN taken + i ELSE IF i <= n THEN 0 ELSE gps_data[i]]
     /\ taken' = taken + real

-------------------------------------------------------------------------------
(* thread_gps_server. *)

GoThread(from, to) == tpc = from /\ tpc' = to

\* Otherwise the thread does nothing and looks again after 250 ms.
CheckOn ==
  /\ work_en /\ started
  /\ GoThread("check", "length")
  /\ UNCHANGED <<chipVars, switches, bufVars, kfifo, npc, readVars, crossed, reset>>

LengthError ==
  /\ GoThread("length", "check")
  /\ hl' = 0
  /\ UNCHANGED <<chipVars, switches, gps_data, kfifo, npc, readVars, crossed, reset>>

ReadLength ==
  /\ Waiting <= GPS_BUF_SIZE
  /\ hl' = Waiting
  /\ GoThread("length", IF Waiting > 0 THEN "data" ELSE "check")
  /\ UNCHANGED <<chipVars, switches, gps_data, kfifo, npc, readVars, crossed, reset>>

\* More bytes than the buffer takes are refused: they wait on, and the next look finds
\* as many or more.
LengthTooBig ==
  /\ Waiting > GPS_BUF_SIZE
  /\ GoThread("length", "check")
  /\ hl' = Waiting
  /\ UNCHANGED <<chipVars, switches, gps_data, kfifo, npc, readVars, crossed, reset>>

ReadData ==
  /\ GoThread("data", "push")
  /\ Transfer(hl)
  /\ UNCHANGED <<made, switches, hl, kfifo, npc, readVars, crossed, reset>>

DataError ==
  /\ GoThread("data", "check")
  /\ UNCHANGED <<chipVars, switches, bufVars, kfifo, npc, readVars, crossed, reset>>

\* dev->sem: the thread holds it from its down to its up.
SemFree == tpc # "in"

\* Down; a kfifo that is exactly full is emptied.
PushDown ==
  /\ GoThread("push", "in")
  /\ kfifo' = IF Len(kfifo) = FIFO_SIZE THEN <<>> ELSE kfifo
  /\ UNCHANGED <<chipVars, switches, bufVars, npc, readVars, crossed, reset>>

\* The first n bytes from gps_data on; those behind it are no bytes of the stream.
Loaded(n) == [i \in 1..n |-> IF i <= GPS_BUF_SIZE THEN gps_data[i] ELSE 0]

\* kfifo_in takes what fits; up.
PushIn ==
  LET room == FIFO_SIZE - Len(kfifo)
  IN /\ GoThread("in", "wake")
     /\ kfifo' = kfifo \o Loaded(IF hl <= room THEN hl ELSE room)
     /\ UNCHANGED <<chipVars, switches, bufVars, npc, readVars, crossed, reset>>

\* Mutant: nobody is woken.
WakeNobody ==
  /\ GoThread("wake", "check")
  /\ UNCHANGED <<chipVars, switches, bufVars, kfifo, npc, readVars, crossed, reset>>

\* A read that is woken and finds nothing sleeps on; a poll looks again.
Wake ==
  /\ GoThread("wake", "check")
  /\ rpc' = CASE started /\ rpc = "sleep" /\ kfifo # <<>> -> "out"
              [] started /\ rpc = "psleep" -> "poll"
              [] OTHER -> rpc
  /\ UNCHANGED <<chipVars, switches, bufVars, kfifo, npc, got, last, polled, crossed, reset>>

ThreadStep ==
  \/ CheckOn \/ ReadLength \/ LengthError \/ LengthTooBig
  \/ ReadData \/ DataError \/ PushDown \/ PushIn \/ Wake

-------------------------------------------------------------------------------
(* gps_poll: the application asks and sleeps until it is woken.             *)

Poll ==
  /\ rpc = "idle" /\ rpc' = "poll"
  /\ polled' = FALSE /\ reset' = "none"
  /\ UNCHANGED <<chipVars, switches, bufVars, kfifo, tpc, npc, got, last, crossed>>

\* Mutant: readable whatever the kfifo holds.
PollTestBlind ==
  /\ rpc = "poll" /\ SemFree
  /\ IF started
     THEN rpc' = "idle" /\ polled' = TRUE
     ELSE rpc' = "psleep" /\ UNCHANGED polled
  /\ UNCHANGED <<chipVars, switches, bufVars, kfifo, tpc, npc, got, last, crossed, reset>>

\* Stopped, it has nothing to say; else the kfifo is looked at under the semaphore.
PollTest ==
  /\ rpc = "poll" /\ (started => SemFree)
  /\ IF started /\ kfifo # <<>>
     THEN rpc' = "idle" /\ polled' = TRUE
     ELSE rpc' = "psleep" /\ UNCHANGED polled
  /\ UNCHANGED <<chipVars, switches, bufVars, kfifo, tpc, npc, got, last, crossed, reset>>

-------------------------------------------------------------------------------
(* gps_read.  Without GPS_START it returns at once.                         *)

Read ==
  /\ rpc = "idle" /\ started
  /\ rpc' = "test"
  /\ UNCHANGED <<chipVars, switches, bufVars, kfifo, tpc, npc, got, last, polled, crossed, reset>>

\* kfifo_is_empty, and wait_event's own test before it sleeps: without the semaphore.
Test ==
  /\ rpc = "test"
  /\ rpc' = IF kfifo = <<>> THEN "sleep" ELSE "out"
  /\ UNCHANGED <<chipVars, switches, bufVars, kfifo, tpc, npc, got, last, polled, crossed, reset>>

\* A signal ends the wait; a poll also ends by its timeout.
Interrupted ==
  /\ rpc \in {"sleep", "psleep"}
  /\ rpc' = "idle" /\ polled' = FALSE /\ reset' = "none"
  /\ UNCHANGED <<chipVars, switches, bufVars, kfifo, tpc, npc, got, last, crossed>>

ReadLen == IF Len(kfifo) > HAL_BUF_SIZE THEN HAL_BUF_SIZE ELSE Len(kfifo)

\* Mutant: the bytes are peeked at and stay in the kfifo.
TakePeek ==
  /\ rpc = "out" /\ rpc' = "copy" /\ SemFree
  /\ got' = SubSeq(kfifo, 1, ReadLen)
  /\ UNCHANGED <<chipVars, switches, bufVars, kfifo, tpc, npc, last, polled, crossed, reset>>

\* Mutant: without the semaphore.
TakeUnlocked ==
  /\ rpc = "out" /\ rpc' = "copy"
  /\ got' = SubSeq(kfifo, 1, ReadLen)
  /\ kfifo' = SubSeq(kfifo, ReadLen + 1, Len(kfifo))
  /\ UNCHANGED <<chipVars, switches, bufVars, tpc, npc, last, polled, crossed, reset>>

\* Down, kfifo_out, up.
Take ==
  /\ rpc = "out" /\ rpc' = "copy" /\ SemFree
  /\ got' = SubSeq(kfifo, 1, ReadLen)
  /\ kfifo' = SubSeq(kfifo, ReadLen + 1, Len(kfifo))
  /\ UNCHANGED <<chipVars, switches, bufVars, tpc, npc, last, polled, crossed, reset>>

\* copy_to_user; the wake-up for the rest is for other readers; the read returns.
Copy ==
  /\ rpc = "copy" /\ rpc' = "idle"
  /\ last' = IF got = <<>> THEN last ELSE Last(got)
  /\ got' = <<>> /\ polled' = FALSE /\ reset' = "none"
  /\ UNCHANGED <<chipVars, switches, bufVars, kfifo, tpc, npc, crossed>>

\* copy_to_user fails: the read returns an error, and the bytes it took are lost.
CopyFails ==
  /\ rpc = "copy" /\ rpc' = "idle"
  /\ got' = <<>> /\ polled' = FALSE /\ reset' = "none"
  /\ UNCHANGED <<chipVars, switches, bufVars, kfifo, tpc, npc, last, crossed>>

ReadStep == PollTest \/ Test \/ Take \/ Copy \/ CopyFails

-------------------------------------------------------------------------------
(* The ioctl, the notifier and the early suspend.  The system's suspend    *)
(* and its notifier calls follow one another.                              *)

\* A read is under way, or about to follow a poll.
Concerned == polled \/ rpc \in {"test", "sleep", "out", "copy"}

Start ==
  /\ started' = ~started
  /\ reset' = IF Concerned /\ reset = "none" THEN "stopped" ELSE reset
  /\ UNCHANGED <<chipVars, work_en, bufVars, kfifo, tpc, npc, readVars, crossed>>

GoNotify(from, to) == npc = from /\ npc' = to

DeviceDown ==
  /\ npc = "idle" /\ work_en' = FALSE
  /\ UNCHANGED <<chipVars, started, bufVars, kfifo, tpc, npc, readVars, crossed, reset>>

\* gps_early_suspend stops the work and empties the kfifo.
EarlySuspend ==
  /\ GoNotify("idle", "suspend")
  /\ work_en' = FALSE
  /\ UNCHANGED <<chipVars, started, bufVars, kfifo, tpc, readVars, crossed, reset>>

SuspendReset ==
  /\ SemFree
  /\ GoNotify("suspend", "idle")
  /\ kfifo' = <<>> /\ reset' = IF Concerned THEN "emptied" ELSE reset
  /\ UNCHANGED <<chipVars, switches, bufVars, tpc, readVars, crossed>>

\* The device's coming up and gps_late_resume do the same.
DeviceUp ==
  /\ GoNotify("idle", "length")
  /\ UNCHANGED <<chipVars, switches, bufVars, kfifo, tpc, readVars, crossed, reset>>

Under == tpc \in {"data", "push", "in"}

\* clean_ublox_buf: the length, which it does not compare with the buffer's ...
CleanLength ==
  /\ hl' = Waiting
  /\ GoNotify("length", IF Waiting > 0 THEN "data" ELSE "reset")
  /\ crossed' = (crossed \/ Under)
  /\ UNCHANGED <<chipVars, switches, gps_data, kfifo, tpc, readVars, reset>>

CleanError ==
  /\ GoNotify("length", "reset")
  /\ UNCHANGED <<chipVars, switches, bufVars, kfifo, tpc, readVars, crossed, reset>>

\* ... and the bytes, if the transfer succeeds, as many as that was.
CleanData ==
  /\ GoNotify("data", "reset")
  /\ Transfer(hl)
  /\ crossed' = (crossed \/ Under)
  /\ UNCHANGED <<made, switches, hl, kfifo, tpc, readVars, reset>>

CleanDataError ==
  /\ GoNotify("data", "reset")
  /\ UNCHANGED <<chipVars, switches, bufVars, kfifo, tpc, readVars, crossed, reset>>

CleanReset ==
  /\ SemFree
  /\ GoNotify("reset", "enable")
  /\ kfifo' = <<>> /\ reset' = IF Concerned THEN "emptied" ELSE reset
  /\ UNCHANGED <<chipVars, switches, bufVars, tpc, readVars, crossed>>

Enable ==
  /\ GoNotify("enable", "idle")
  /\ work_en' = TRUE
  /\ UNCHANGED <<chipVars, started, bufVars, kfifo, tpc, readVars, crossed, reset>>

NotifyStep ==
  \/ CleanLength \/ CleanError \/ CleanData \/ CleanDataError \/ CleanReset \/ Enable
  \/ SuspendReset

-------------------------------------------------------------------------------
Next ==
  \/ Receive
  \/ ThreadStep
  \/ Poll \/ Read \/ ReadStep \/ Interrupted
  \/ Start \/ DeviceDown \/ DeviceUp \/ EarlySuspend \/ NotifyStep

Spec == Init /\ [][Next]_vars

\* The thread and a read that does not sleep go on; transfers succeed again and again.
Fairness ==
  /\ WF_vars(ThreadStep) /\ WF_vars(ReadStep) /\ WF_vars(NotifyStep)
  /\ SF_vars(ReadLength) /\ SF_vars(ReadData)

FairSpec == Spec /\ Fairness

-------------------------------------------------------------------------------
(* Properties. *)

\* The reader gets the receiver's bytes in their order, none twice and none that the
\* receiver never sent, however the thread empties and cuts off at the kfifo, as long
\* as the notifier has not changed the length or the buffer under the thread.
InOrder ==
  rpc = "copy" /\ ~crossed =>
    \A i \in 1..Len(got) : got[i] > (IF i = 1 THEN last ELSE got[i - 1])

\* A read that has waited returns at least a byte (0 would be the end of the file to
\* the application), unless the notifier emptied the kfifo after the wait.
ReadReturnsData == rpc = "copy" /\ got = <<>> => reset = "emptied" \/ crossed

\* After a poll that said there is data a lone reader's read does not sleep, although
\* it tests the kfifo without the semaphore (l.129), but for the moment in which the
\* thread has emptied a full kfifo and not yet filled and announced it again.
PolledReadFinds ==
  rpc = "sleep" /\ polled => tpc \in {"in", "wake"} \/ reset # "none" \/ crossed

\* The server is switched on, and the receiver's backlog fits into its buffer.
Serving == started /\ work_en /\ Waiting <= GPS_BUF_SIZE

\* In a server that is on in the end, and whose backlog the thread can take, a sleeping
\* reader, in read or in poll, is woken when the receiver has bytes, also over stops
\* and starts, but in two ways: the notifier drains the receiver, or the stop comes
\* between the thread's filling of the kfifo and its wake-up, which it then omits
\* (l.307), so that the bytes lie in the kfifo until others come.
DataReachesSleeper ==
  <>[]Serving =>
    (rpc \in {"sleep", "psleep"} /\ Waiting > 0 ~>
       rpc \notin {"sleep", "psleep"} \/ npc # "idle" \/ (tpc = "wake" /\ ~started))
===============================================================================

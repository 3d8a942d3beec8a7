------------------------------- MODULE GpsProofs ------------------------------
(***************************************************************************)
(* Proofs about the GPS server, for every size of its three buffers: the   *)
(* order of the bytes from the receiver to the reader, that a read which   *)
(* has waited returns some, and that one after a successful poll does not  *)
(* wait.                                                                   *)
(***************************************************************************)
EXTENDS Gps, SequenceTheorems, TLAPS

\* The bytes the thread is done with: those in gps_data do not count until it has
\* pushed them.
Sent == IF tpc \in {"push", "in"} THEN taken - hl ELSE taken

\* What the thread has loaded, or is about to, unless the notifier has interfered.
LoadInv ==
  ~crossed =>
    /\ tpc = "data" => hl \in 1..Waiting /\ hl <= GPS_BUF_SIZE
    /\ tpc \in {"push", "in"} =>
         hl \in 1..taken /\ hl <= GPS_BUF_SIZE /\ \A i \in 1..hl : gps_data[i] = taken - hl + i

Increasing(s) == \A i, j \in 1..Len(s) : i < j => s[i] < s[j]
Between(s, low, high) == \A i \in 1..Len(s) : low < s[i] /\ s[i] <= high

\* Delivered, taken out, in the kfifo, still to be pushed: in the order of the stream.
Stream ==
  /\ Increasing(got) /\ Increasing(kfifo)
  /\ last <= Sent /\ Between(got, last, Sent) /\ Between(kfifo, last, Sent)
  /\ \A i \in 1..Len(got), j \in 1..Len(kfifo) : got[i] < kfifo[j]

StreamInv == ~crossed => Stream

\* Between two reads the reader holds nothing.
GotInv == rpc # "copy" => got = <<>>

\* The kfifo has bytes, or the thread is about to put some in under the semaphore.
Supplied == kfifo # <<>> \/ tpc = "in"

\* A read that has stopped waiting finds bytes, or has found them.
DataInv ==
  ~crossed /\ reset # "emptied" =>
    /\ rpc = "out" => Supplied
    /\ rpc = "copy" => got # <<>>

\* After a poll that promised data, until the next read returns.
PollInv ==
  /\ polled => rpc \notin {"poll", "psleep"}
  /\ polled /\ reset = "none" => started
  /\ polled /\ reset = "none" /\ ~crossed =>
       /\ rpc \in {"idle", "test"} => Supplied
       /\ rpc = "sleep" => tpc = "in" \/ (tpc = "wake" /\ kfifo # <<>>)

\* The types in three groups, as the steps change them.
BufTypes ==
  /\ made \in 0..MaxStream /\ taken \in 0..made
  /\ hl \in 0..MaxStream
  /\ gps_data \in [1..GPS_BUF_SIZE -> Places]

SeqTypes ==
  /\ kfifo \in Seq(Places) /\ Len(kfifo) <= FIFO_SIZE
  /\ got \in Seq(Places) /\ Len(got) <= HAL_BUF_SIZE
  /\ last \in Places

ControlTypes ==
  /\ work_en \in BOOLEAN /\ started \in BOOLEAN
  /\ tpc \in {"check", "length", "data", "push", "in", "wake"}
  /\ npc \in {"idle", "length", "data", "reset", "enable", "suspend"}
  /\ rpc \in {"idle", "poll", "psleep", "test", "sleep", "out", "copy"}
  /\ crossed \in BOOLEAN /\ polled \in BOOLEAN
  /\ reset \in {"none", "stopped", "emptied"}

GpsInv ==
  TypeOK /\ LoadInv /\ StreamInv /\ GotInv /\ DataInv /\ PollInv

\* The sizes are positive numbers.
LEMMA Sizes ==
  /\ FIFO_SIZE \in Nat /\ GPS_BUF_SIZE \in Nat /\ HAL_BUF_SIZE \in Nat /\ MaxStream \in Nat
  /\ 0 < FIFO_SIZE /\ 0 < GPS_BUF_SIZE /\ 0 < HAL_BUF_SIZE
BY SizeAssumption

-------------------------------------------------------------------------------
(* Sequences. *)

\* A sequence cut in two.
LEMMA CutInTwo ==
  ASSUME NEW S, NEW s \in Seq(S), NEW n \in 0..Len(s)
  PROVE  /\ SubSeq(s, 1, n) \in Seq(S)
         /\ Len(SubSeq(s, 1, n)) = n
         /\ \A i \in 1..n : SubSeq(s, 1, n)[i] = s[i]
         /\ SubSeq(s, n + 1, Len(s)) \in Seq(S)
         /\ Len(SubSeq(s, n + 1, Len(s))) = Len(s) - n
         /\ \A i \in 1..(Len(s) - n) : SubSeq(s, n + 1, Len(s))[i] = s[n + i]
<1>1. Len(s) \in Nat /\ \A i \in 1..Len(s) : s[i] \in S
  OBVIOUS
<1>2. /\ SubSeq(s, 1, n) \in Seq(S)
      /\ Len(SubSeq(s, 1, n)) = IF 1 <= n THEN n - 1 + 1 ELSE 0
      /\ \A i \in 1..(n - 1 + 1) : SubSeq(s, 1, n)[i] = s[1 + i - 1]
  <2>1. \A i \in 1..n : s[i] \in S
    BY <1>1
  <2> QED
    BY <1>1, <2>1, SubSeqProperties
<1>3. /\ SubSeq(s, n + 1, Len(s)) \in Seq(S)
      /\ Len(SubSeq(s, n + 1, Len(s))) = IF n + 1 <= Len(s) THEN Len(s) - (n + 1) + 1 ELSE 0
      /\ \A i \in 1..(Len(s) - (n + 1) + 1) :
           SubSeq(s, n + 1, Len(s))[i] = s[(n + 1) + i - 1]
  <2>1. \A i \in (n + 1)..Len(s) : s[i] \in S
    BY <1>1
  <2> QED
    BY <1>1, <2>1, SubSeqProperties
<1>4. \A i \in 1..n : 1 + i - 1 = i
  BY <1>1
<1>5. \A i \in 1..(Len(s) - n) : (n + 1) + i - 1 = n + i
  BY <1>1
<1> QED
  BY <1>1, <1>2, <1>3, <1>4, <1>5

\* What kfifo_in adds: the first bytes from gps_data on that fit.
LEMMA Pushed ==
  ASSUME TypeOK, tpc = "in",
         NEW n, n = IF hl <= FIFO_SIZE - Len(kfifo) THEN hl ELSE FIFO_SIZE - Len(kfifo)
  PROVE  /\ n \in 0..hl /\ n <= FIFO_SIZE - Len(kfifo)
         /\ kfifo \o Loaded(n) \in Seq(Places)
         /\ Len(kfifo \o Loaded(n)) = Len(kfifo) + n
         /\ \A i \in 1..(Len(kfifo) + n) :
              (kfifo \o Loaded(n))[i] =
                IF i <= Len(kfifo) THEN kfifo[i] ELSE Loaded(n)[i - Len(kfifo)]
<1>1. /\ Len(kfifo) \in Nat /\ Len(kfifo) <= FIFO_SIZE /\ kfifo \in Seq(Places)
      /\ hl \in Nat /\ gps_data \in [1..GPS_BUF_SIZE -> Places]
  BY Sizes DEF TypeOK
<1>2. n \in 0..hl /\ n \in Nat /\ n <= FIFO_SIZE - Len(kfifo)
  BY <1>1, Sizes
<1>3. Loaded(n) \in Seq(Places) /\ Len(Loaded(n)) = n
  <2>1. \A i \in 1..n : (IF i <= GPS_BUF_SIZE THEN gps_data[i] ELSE 0) \in Places
    BY <1>1, <1>2, Sizes DEF Places
  <2>2. Loaded(n) \in [1..n -> Places]
    BY <2>1 DEF Loaded
  <2> QED
    BY <1>2, <2>2
<1>4. /\ kfifo \o Loaded(n) \in Seq(Places)
      /\ Len(kfifo \o Loaded(n)) = Len(kfifo) + n
      /\ \A i \in 1..(Len(kfifo) + n) :
           (kfifo \o Loaded(n))[i] =
             IF i <= Len(kfifo) THEN kfifo[i] ELSE Loaded(n)[i - Len(kfifo)]
  <2> DEFINE t == Loaded(n)
  <2>1. t \in Seq(Places) /\ Len(t) = n
    BY <1>3
  <2> HIDE DEF t
  <2>2. /\ kfifo \o t \in Seq(Places)
        /\ Len(kfifo \o t) = Len(kfifo) + n
        /\ \A i \in 1..(Len(kfifo) + n) :
             (kfifo \o t)[i] = IF i <= Len(kfifo) THEN kfifo[i] ELSE t[i - Len(kfifo)]
    BY <1>1, <2>1, ConcatProperties
  <2> QED
    BY <2>2 DEF t
<1> QED
  BY <1>2, <1>4

\* How many bytes kfifo_out takes.
LEMMA LenToRead ==
  ASSUME TypeOK
  PROVE  /\ ReadLen \in 0..Len(kfifo) /\ ReadLen <= HAL_BUF_SIZE
         /\ kfifo # <<>> => ReadLen > 0
BY Sizes DEF ReadLen, TypeOK

\* Consecutive numbers after an increasing sequence that does not pass them.
LEMMA Continued ==
  ASSUME NEW L \in Nat, NEW n \in Nat, NEW base \in Int, NEW s, NEW t,
         \A i \in 1..L : s[i] \in Int /\ s[i] <= base,
         \A i, j \in 1..L : i < j => s[i] < s[j],
         \A i \in 1..(L + n) : i <= L => t[i] = s[i],
         \A i \in 1..(L + n) : i > L => t[i] = base + (i - L)
  PROVE  \A i, j \in 1..(L + n) : i < j => t[i] < t[j]
<1> TAKE i, j \in 1..(L + n)
<1> HAVE i < j
<1>1. CASE j <= L
  <2>1. i \in 1..L /\ j \in 1..L
    BY <1>1
  <2> QED
    BY <2>1
<1>2. CASE i <= L /\ j > L
  <2>1. i \in 1..L /\ t[i] = s[i] /\ t[j] = base + (j - L)
    BY <1>2
  <2>2. s[i] \in Int /\ s[i] <= base
    BY <2>1
  <2> QED
    BY <1>2, <2>1, <2>2
<1>3. CASE i > L
  <2>1. t[i] = base + (i - L) /\ t[j] = base + (j - L)
    BY <1>3
  <2> QED
    BY <2>1
<1> QED
  BY <1>1, <1>2, <1>3

\* An increasing sequence cut in two: the second part increases and follows the first.
LEMMA Parted ==
  ASSUME NEW s \in Seq(Nat), NEW n \in 0..Len(s),
         \A i, j \in 1..Len(s) : i < j => s[i] < s[j]
  PROVE  /\ \A i, j \in 1..(Len(s) - n) :
              i < j => SubSeq(s, n + 1, Len(s))[i] < SubSeq(s, n + 1, Len(s))[j]
         /\ \A i \in 1..n, j \in 1..(Len(s) - n) :
              SubSeq(s, 1, n)[i] < SubSeq(s, n + 1, Len(s))[j]
         /\ \A i \in 1..(Len(s) - n) :
              \E k \in 1..Len(s) : SubSeq(s, n + 1, Len(s))[i] = s[k]
<1> DEFINE L == Len(s)
           t == SubSeq(s, 1, n)
           u == SubSeq(s, n + 1, Len(s))
<1>1. /\ L \in Nat
      /\ \A i \in 1..n : t[i] = s[i]
      /\ \A i \in 1..(L - n) : u[i] = s[n + i]
  BY CutInTwo
<1> HIDE DEF t, u
<1>2. \A i \in 1..(L - n) : n + i \in 1..L
  BY <1>1
<1>3. ASSUME NEW i \in 1..(L - n), NEW j \in 1..(L - n), i < j PROVE u[i] < u[j]
  <2>1. n + i \in 1..L /\ n + j \in 1..L /\ n + i < n + j
    BY <1>1, <1>2, <1>3
  <2> QED
    BY <1>1, <2>1
<1>4. ASSUME NEW i \in 1..n, NEW j \in 1..(L - n) PROVE t[i] < u[j]
  <2>1. i \in 1..L /\ n + j \in 1..L /\ i < n + j
    BY <1>1, <1>2
  <2> QED
    BY <1>1, <2>1
<1> QED
  BY <1>1, <1>2, <1>3, <1>4 DEF t, u

-------------------------------------------------------------------------------
\* The initial state is in the invariant.
LEMMA GpsInit == Init => GpsInv
<1> SUFFICES ASSUME Init PROVE GpsInv
  OBVIOUS
<1>1. TypeOK
  <2>1. BufTypes
    BY Sizes DEF Init, BufTypes, Places
  <2>2. SeqTypes
    BY Sizes DEF Init, SeqTypes, Places
  <2>3. ControlTypes
    BY DEF Init, ControlTypes
  <2> QED
    BY <2>1, <2>2, <2>3 DEF TypeOK, BufTypes, SeqTypes, ControlTypes
<1>2. LoadInv /\ GotInv /\ DataInv /\ PollInv
  BY DEF Init, LoadInv, GotInv, DataInv, PollInv
<1>3. StreamInv
  BY DEF Init, StreamInv, Stream, Increasing, Between, Sent
<1> QED
  BY <1>1, <1>2, <1>3 DEF GpsInv

-------------------------------------------------------------------------------
(* The steps, by what they leave alone. *)

\* Steps of the reader, the switches and most of the notifier's: they do not touch
\* what the thread has loaded.
Aside ==
  \/ Poll \/ PollTest \/ Read \/ Test \/ Interrupted \/ Take \/ Copy
  \/ CopyFails \/ Start \/ DeviceDown \/ EarlySuspend \/ SuspendReset \/ DeviceUp
  \/ CleanError \/ CleanDataError \/ CleanReset \/ Enable

LEMMA AsideLeaves ==
  ASSUME Aside
  PROVE  UNCHANGED <<made, taken, hl, gps_data, tpc, crossed>>
<1>1. CASE Poll \/ PollTest \/ Read \/ Test \/ Interrupted \/ Take \/ Copy
           \/ CopyFails
  BY <1>1 DEF Poll, PollTest, Read, Test, Interrupted, Take, Copy, CopyFails, chipVars, bufVars
<1>2. CASE Start \/ DeviceDown \/ EarlySuspend \/ SuspendReset \/ DeviceUp
  BY <1>2 DEF Start, DeviceDown, EarlySuspend, SuspendReset, DeviceUp, chipVars, bufVars
<1>3. CASE CleanError \/ CleanDataError \/ CleanReset \/ Enable
  BY <1>3 DEF CleanError, CleanDataError, CleanReset, Enable, chipVars, bufVars
<1> QED
  BY <1>1, <1>2, <1>3 DEF Aside

\* Every step is one of these.
LEMMA Steps ==
  ASSUME Next
  PROVE  \/ Aside \/ Receive
         \/ CheckOn \/ ReadLength \/ LengthError \/ LengthTooBig \/ ReadData \/ DataError
         \/ PushDown \/ PushIn \/ Wake
         \/ CleanLength \/ CleanData
BY DEF Next, ThreadStep, ReadStep, NotifyStep, Aside

\* A transfer brings at most what waits, in the order of the stream.
LEMMA TransferBrings ==
  ASSUME TypeOK, NEW n \in Nat, Transfer(n)
  PROVE  /\ taken' \in taken..made
         /\ gps_data' \in [1..GPS_BUF_SIZE -> Places]
         /\ n <= Waiting /\ n <= GPS_BUF_SIZE =>
              taken' = taken + n /\ \A i \in 1..n : gps_data'[i] = taken + i
<1> DEFINE real == IF n <= Waiting THEN n ELSE Waiting
<1>1. /\ made \in Nat /\ made <= MaxStream /\ taken \in Nat /\ taken <= made
      /\ gps_data \in [1..GPS_BUF_SIZE -> Places]
  BY Sizes DEF TypeOK
<1>2. real \in Nat /\ taken + real <= made /\ taken' = taken + real
  BY <1>1 DEF Transfer, Waiting
<1>3. gps_data' = [i \in 1..GPS_BUF_SIZE |->
                     IF i <= real THEN taken + i ELSE IF i <= n THEN 0 ELSE gps_data[i]]
  BY DEF Transfer
<1>4. \A i \in 1..GPS_BUF_SIZE :
        (IF i <= real THEN taken + i ELSE IF i <= n THEN 0 ELSE gps_data[i]) \in Places
  BY <1>1, <1>2, Sizes DEF Places
<1>5. gps_data' \in [1..GPS_BUF_SIZE -> Places]
  BY <1>3, <1>4
<1>6. ASSUME n <= Waiting, n <= GPS_BUF_SIZE
      PROVE  taken' = taken + n /\ \A i \in 1..n : gps_data'[i] = taken + i
  BY <1>2, <1>3, <1>6, Sizes
<1> QED
  BY <1>1, <1>2, <1>5, <1>6

-------------------------------------------------------------------------------
(* The transfer buffer. *)

\* The buffer's types, and what the thread has loaded.
LEMMA BufStep ==
  ASSUME TypeOK, LoadInv, Next
  PROVE  BufTypes' /\ LoadInv'
<1>0. BufTypes /\ made \in Nat /\ taken \in Nat /\ Waiting \in 0..MaxStream /\ hl \in Nat
  BY Sizes DEF TypeOK, BufTypes, Waiting
<1>1. CASE Aside
  BY <1>0, <1>1, AsideLeaves DEF BufTypes, LoadInv, Waiting
<1>2. CASE Receive
  <2>1. /\ made' = made + 1 /\ made < MaxStream
        /\ UNCHANGED <<taken, hl, gps_data, tpc, crossed>>
    BY <1>2 DEF Receive, bufVars
  <2>2. Waiting' = Waiting + 1
    BY <1>0, <2>1 DEF Waiting
  <2>3. BufTypes'
    BY <1>0, <2>1, Sizes DEF BufTypes
  <2>4. LoadInv'
    BY <1>0, <2>1, <2>2 DEF LoadInv
  <2> QED
    BY <2>3, <2>4
<1>3. CASE CheckOn \/ DataError \/ PushIn \/ Wake
  <2>1. /\ UNCHANGED <<made, taken, hl, gps_data, crossed>>
        /\ tpc' \in {"length", "check", "wake"}
    BY <1>3 DEF CheckOn, DataError, PushIn, Wake, GoThread, chipVars, bufVars
  <2> QED
    BY <1>0, <2>1 DEF BufTypes, LoadInv
<1>4. CASE LengthError \/ LengthTooBig
  <2>1. /\ UNCHANGED <<made, taken, gps_data, crossed>> /\ hl' \in {0, Waiting}
        /\ tpc' = "check"
    BY <1>4 DEF LengthError, LengthTooBig, GoThread, chipVars
  <2> QED
    BY <1>0, <2>1, Sizes DEF BufTypes, LoadInv
<1>5. CASE ReadLength
  <2>1. /\ UNCHANGED <<made, taken, gps_data, crossed>> /\ hl' = Waiting
        /\ tpc' \in {"data", "check"} /\ (tpc' = "data" => Waiting > 0)
        /\ Waiting' = Waiting /\ Waiting <= GPS_BUF_SIZE
    BY <1>5 DEF ReadLength, GoThread, chipVars, Waiting
  <2> QED
    BY <1>0, <2>1, Sizes DEF BufTypes, LoadInv
<1>6. CASE ReadData
  <2>1. /\ tpc = "data" /\ tpc' = "push"
        /\ Transfer(hl) /\ UNCHANGED <<made, hl, crossed>>
    BY <1>6 DEF ReadData, GoThread
  <2>2. /\ taken' \in taken..made
        /\ gps_data' \in [1..GPS_BUF_SIZE -> Places]
        /\ hl <= Waiting /\ hl <= GPS_BUF_SIZE =>
             taken' = taken + hl /\ \A i \in 1..hl : gps_data'[i] = taken + i
    BY <1>0, <2>1, TransferBrings
  <2>3. BufTypes'
    BY <1>0, <2>1, <2>2, Sizes DEF BufTypes
  <2>4. LoadInv'
    <3> SUFFICES ASSUME ~crossed PROVE hl' \in 1..taken' /\ hl' <= GPS_BUF_SIZE /\
                   \A i \in 1..hl' : gps_data'[i] = taken' - hl' + i
      BY <2>1 DEF LoadInv
    <3>1. hl \in 1..Waiting /\ hl <= GPS_BUF_SIZE
      BY <2>1 DEF LoadInv
    <3>2. hl <= Waiting /\ hl >= 1
      BY <1>0, <3>1
    <3> QED
      BY <1>0, <2>1, <2>2, <3>1, <3>2
  <2> QED
    BY <2>3, <2>4
<1>7. CASE PushDown
  <2>1. /\ UNCHANGED <<made, taken, hl, gps_data, crossed>>
        /\ tpc = "push" /\ tpc' = "in"
    BY <1>7 DEF PushDown, GoThread, chipVars, bufVars
  <2> QED
    BY <1>0, <2>1 DEF BufTypes, LoadInv
<1>8. CASE CleanLength
  <2>1. /\ UNCHANGED <<made, taken, gps_data, tpc>> /\ hl' = Waiting
        /\ crossed' \/ tpc' \notin {"data", "push", "in"}
    BY <1>8 DEF CleanLength, chipVars, Under
  <2> QED
    BY <1>0, <2>1, Sizes DEF BufTypes, LoadInv
<1>9. CASE CleanData
  <2>1. /\ Transfer(hl) /\ UNCHANGED <<made, hl, tpc>>
        /\ crossed' \/ tpc' \notin {"data", "push", "in"}
    BY <1>9 DEF CleanData, Under
  <2>2. taken' \in taken..made /\ gps_data' \in [1..GPS_BUF_SIZE -> Places]
    BY <1>0, <2>1, TransferBrings
  <2>3. BufTypes'
    BY <1>0, <2>1, <2>2, Sizes DEF BufTypes
  <2>4. LoadInv'
    BY <2>1 DEF LoadInv
  <2> QED
    BY <2>3, <2>4
<1> QED
  BY <1>1, <1>2, <1>3, <1>4, <1>5, <1>6, <1>7, <1>8, <1>9, Steps

\* What the thread is done with only grows, and a step that is not a push adds nothing
\* to it that is in the kfifo.
LEMMA SentGrows ==
  ASSUME TypeOK, LoadInv, Next, ~crossed'
  PROVE  ~crossed /\ Sent \in Int /\ Sent' \in Int /\ Sent <= Sent'
<1>0. taken \in Nat /\ hl \in Nat
  BY Sizes DEF TypeOK
<1>1. CASE Aside
  BY <1>0, <1>1, AsideLeaves DEF Sent
<1>2. CASE Receive
  BY <1>0, <1>2 DEF Receive, Sent, bufVars
<1>3. CASE CheckOn \/ DataError \/ Wake \/ LengthError \/ LengthTooBig \/ ReadLength
  <2>1. /\ UNCHANGED <<taken, crossed>>
        /\ tpc \notin {"push", "in"} /\ tpc' \notin {"push", "in"}
    BY <1>3 DEF CheckOn, DataError, Wake, LengthError, LengthTooBig, ReadLength, GoThread,
       chipVars
  <2> QED
    BY <1>0, <2>1 DEF Sent
<1>4. CASE ReadData
  <2>1. /\ tpc = "data" /\ tpc' = "push"
        /\ Transfer(hl) /\ UNCHANGED <<made, hl, crossed>>
    BY <1>4 DEF ReadData, GoThread
  <2>2. hl <= Waiting /\ hl <= GPS_BUF_SIZE
    BY <1>0, <2>1 DEF LoadInv, Waiting, TypeOK
  <2>3. taken' = taken + hl
    BY <1>0, <2>1, <2>2, TransferBrings
  <2> QED
    BY <1>0, <2>1, <2>3 DEF Sent
<1>5. CASE PushDown \/ PushIn
  <2>1. UNCHANGED <<taken, hl, crossed>> /\ tpc \in {"push", "in"}
    BY <1>5 DEF PushDown, PushIn, GoThread, chipVars, bufVars
  <2> QED
    BY <1>0, <2>1 DEF Sent
<1>6. CASE CleanLength
  <2>1. UNCHANGED <<taken, tpc>> /\ ~crossed /\ tpc \notin {"push", "in"}
    BY <1>6 DEF CleanLength, Under, chipVars
  <2> QED
    BY <1>0, <2>1 DEF Sent
<1>7. CASE CleanData
  <2>1. /\ Transfer(hl) /\ UNCHANGED tpc /\ ~crossed /\ tpc \notin {"push", "in"}
    BY <1>7 DEF CleanData, Under
  <2>2. taken' \in taken..made
    BY <1>0, <2>1, TransferBrings
  <2> QED
    BY <1>0, <2>1, <2>2, Sizes DEF Sent, TypeOK
<1> QED
  BY <1>1, <1>2, <1>3, <1>4, <1>5, <1>6, <1>7, Steps

-------------------------------------------------------------------------------
(* The order of the bytes. *)

\* The places in the sequences are numbers.
LEMMA Numbers ==
  ASSUME TypeOK
  PROVE  /\ kfifo \in Seq(Nat) /\ got \in Seq(Nat) /\ last \in Nat
         /\ Len(kfifo) \in Nat /\ Len(got) \in Nat
         /\ \A i \in 1..Len(kfifo) : kfifo[i] \in Nat
         /\ \A i \in 1..Len(got) : got[i] \in Nat
<1>1. Places \subseteq Nat
  BY Sizes DEF Places
<1>2. kfifo \in Seq(Nat) /\ got \in Seq(Nat)
  BY <1>1, SeqMonotonic DEF TypeOK
<1> QED
  BY <1>1, <1>2 DEF TypeOK

\* Nothing changes, or the kfifo is emptied or the reader's bytes lost, while the stream
\* goes on.
LEMMA StreamKept ==
  ASSUME TypeOK, Stream, got' \in {got, <<>>}, UNCHANGED last, kfifo' \in {kfifo, <<>>},
         Sent \in Int, Sent' \in Int, Sent <= Sent'
  PROVE  Stream'
<1>1. /\ Increasing(got') /\ last' <= Sent'
      /\ \A i \in 1..Len(got') : last' < got'[i] /\ got'[i] <= Sent'
  BY Numbers DEF Stream, Increasing, Between
<1>2. /\ Increasing(kfifo')
      /\ \A i \in 1..Len(kfifo') : last' < kfifo'[i] /\ kfifo'[i] <= Sent'
      /\ \A i \in 1..Len(got'), j \in 1..Len(kfifo') : got'[i] < kfifo'[j]
  <2>1. CASE kfifo' = kfifo
    BY <2>1, Numbers DEF Stream, Increasing, Between
  <2>2. CASE kfifo' = <<>>
    BY <2>2 DEF Increasing
  <2> QED
    BY <2>1, <2>2
<1> QED
  BY <1>1, <1>2 DEF Stream, Increasing, Between

\* kfifo_in appends bytes that follow those in the kfifo.
LEMMA StreamPushed ==
  ASSUME TypeOK, LoadInv, Stream, ~crossed, PushIn
  PROVE  Stream' /\ kfifo' # <<>>
<1> DEFINE n == IF hl <= FIFO_SIZE - Len(kfifo) THEN hl ELSE FIFO_SIZE - Len(kfifo)
           L == Len(kfifo)
<1>1. /\ tpc = "in" /\ tpc' = "wake" /\ UNCHANGED <<taken, got, last>>
      /\ kfifo' = kfifo \o Loaded(n)
  BY DEF PushIn, GoThread, chipVars, readVars
<1>2. /\ n \in 0..hl /\ n <= FIFO_SIZE - L
      /\ kfifo' \in Seq(Places) /\ Len(kfifo') = L + n
      /\ \A i \in 1..(L + n) : kfifo'[i] = IF i <= L THEN kfifo[i] ELSE Loaded(n)[i - L]
  BY <1>1, Pushed
<1>3. /\ hl \in Nat /\ taken \in Nat /\ 1 <= hl /\ hl <= taken /\ hl <= GPS_BUF_SIZE
      /\ \A i \in 1..hl : gps_data[i] = taken - hl + i
      /\ Sent = taken - hl /\ Sent' = taken
  BY <1>1, Sizes DEF LoadInv, TypeOK, Sent
<1>4. /\ L \in Nat /\ n \in Nat /\ n <= hl /\ last \in Nat
      /\ \A i \in 1..L : kfifo[i] \in Nat /\ last < kfifo[i] /\ kfifo[i] <= taken - hl
      /\ \A i \in 1..Len(got) : got[i] \in Nat /\ last < got[i] /\ got[i] <= taken - hl
      /\ last <= taken - hl
  BY <1>2, <1>3, Numbers DEF Stream, Between
<1>5. /\ \A i \in 1..(L + n) : i <= L => kfifo'[i] = kfifo[i]
      /\ \A i \in 1..(L + n) : i > L => kfifo'[i] = taken - hl + (i - L)
  <2>1. \A i \in 1..n : Loaded(n)[i] = taken - hl + i
    <3>1. \A i \in 1..n : i \in 1..hl /\ i <= GPS_BUF_SIZE
      BY <1>3, <1>4, Sizes
    <3> QED
      BY <1>3, <3>1 DEF Loaded
  <2>2. \A i \in 1..(L + n) : i > L => i - L \in 1..n /\ ~(i <= L)
    BY <1>4
  <2> HIDE DEF n, L
  <2> QED
    BY <1>2, <2>1, <2>2
<1>11. L + n > 0
  BY <1>1, <1>3, Numbers, Sizes
<1> HIDE DEF n, L
<1>6. \A i, j \in 1..(L + n) : i < j => kfifo'[i] < kfifo'[j]
  <2>1. \A i, j \in 1..L : i < j => kfifo[i] < kfifo[j]
    BY DEF Stream, Increasing, L
  <2>2. \A i \in 1..L : kfifo[i] \in Int /\ kfifo[i] <= taken - hl
    BY <1>4
  <2>3. taken - hl \in Int
    BY <1>3
  <2> QED
    BY ONLY <1>4, <1>5, <2>1, <2>2, <2>3, Continued
<1>7. ASSUME NEW i \in 1..(L + n) PROVE last < kfifo'[i] /\ kfifo'[i] <= taken
  <2>1. CASE i <= L
    <3>1. i \in 1..L /\ kfifo'[i] = kfifo[i]
      BY <1>4, <1>5, <2>1
    <3> QED
      BY ONLY <1>3, <1>4, <3>1
  <2>2. CASE i > L
    <3>1. kfifo'[i] = taken - hl + (i - L)
      BY <1>5, <2>2
    <3> QED
      BY ONLY <1>3, <1>4, <2>2, <3>1, i \in 1..(L + n)
  <2> QED
    BY <1>4, <2>1, <2>2
<1>8. ASSUME NEW i \in 1..Len(got), NEW j \in 1..(L + n) PROVE got[i] < kfifo'[j]
  <2>1. CASE j <= L
    <3>1. j \in 1..L /\ kfifo'[j] = kfifo[j]
      BY <1>4, <1>5, <2>1
    <3> QED
      BY <3>1 DEF Stream, L
  <2>2. CASE j > L
    <3>1. kfifo'[j] = taken - hl + (j - L)
      BY <1>5, <2>2
    <3>2. got[i] \in Nat /\ got[i] <= taken - hl
      BY <1>4
    <3> QED
      BY ONLY <1>3, <1>4, <2>2, <3>1, <3>2, j \in 1..(L + n)
  <2> QED
    BY <1>4, <2>1, <2>2
<1>9. \A i \in 1..Len(got) : last < got[i] /\ got[i] <= taken
  BY <1>3, <1>4
<1>10. Stream'
  <2>1. Increasing(got)' /\ Increasing(kfifo)'
    BY <1>1, <1>2, <1>6 DEF Stream, Increasing
  <2>2. (last <= Sent)' /\ Between(got, last, Sent)'
    BY <1>1, <1>3, <1>4, <1>9 DEF Between
  <2>3. Between(kfifo, last, Sent)'
    BY <1>1, <1>2, <1>3, <1>7 DEF Between
  <2>4. (\A i \in 1..Len(got), j \in 1..Len(kfifo) : got[i] < kfifo[j])'
    BY <1>1, <1>2, <1>8
  <2> QED
    BY <2>1, <2>2, <2>3, <2>4 DEF Stream
<1> QED
  BY <1>2, <1>10, <1>11

\* kfifo_out moves the first bytes from the kfifo to the reader.
LEMMA StreamTaken ==
  ASSUME TypeOK, Stream, got = <<>>, Take
  PROVE  Stream' /\ (kfifo # <<>> => got' # <<>>)
<1> DEFINE n == ReadLen
<1>1. /\ got' = SubSeq(kfifo, 1, n) /\ kfifo' = SubSeq(kfifo, n + 1, Len(kfifo))
      /\ UNCHANGED <<taken, hl, tpc, last>>
  BY DEF Take, chipVars, bufVars
<1>2. n \in 0..Len(kfifo) /\ (kfifo # <<>> => n > 0)
  BY LenToRead
<1>3. Sent' = Sent
  BY <1>1 DEF Sent
<1>4. /\ got' \in Seq(Nat) /\ Len(got') = n /\ \A i \in 1..n : got'[i] = kfifo[i]
      /\ Len(kfifo') = Len(kfifo) - n
      /\ \A i \in 1..(Len(kfifo) - n) : kfifo'[i] = kfifo[n + i]
  BY <1>1, <1>2, Numbers, CutInTwo
<1>5. Len(kfifo) \in Nat /\ n \in Nat /\ n <= Len(kfifo)
  BY <1>2, Numbers
<1>6. \A i, j \in 1..Len(kfifo) : i < j => kfifo[i] < kfifo[j]
  BY DEF Stream, Increasing
<1>7. \A i \in 1..Len(kfifo) : last < kfifo[i] /\ kfifo[i] <= Sent
  BY DEF Stream, Between
<1> HIDE DEF n
<1>8. /\ \A i, j \in 1..(Len(kfifo) - n) : i < j => kfifo'[i] < kfifo'[j]
      /\ \A i \in 1..n, j \in 1..(Len(kfifo) - n) : got'[i] < kfifo'[j]
      /\ \A i \in 1..(Len(kfifo) - n) : \E k \in 1..Len(kfifo) : kfifo'[i] = kfifo[k]
  <2>1. kfifo \in Seq(Nat) /\ n \in 0..Len(kfifo)
    BY <1>2, Numbers
  <2> QED
    BY ONLY <1>1, <2>1, <1>6, Parted
<1>9. Stream'
  <2>1. Increasing(got)' /\ Between(got, last, Sent)'
    <3>1. \A i \in 1..n : i \in 1..Len(kfifo)
      BY <1>5
    <3> QED
      BY <3>1, <1>1, <1>3, <1>4, <1>6, <1>7 DEF Increasing, Between
  <2>2. Increasing(kfifo)' /\ (\A i \in 1..Len(got), j \in 1..Len(kfifo) : got[i] < kfifo[j])'
    BY <1>4, <1>8 DEF Increasing
  <2>3. Between(kfifo, last, Sent)'
    BY <1>1, <1>3, <1>4, <1>7, <1>8 DEF Between
  <2>4. (last <= Sent)'
    BY <1>1, <1>3 DEF Stream
  <2> QED
    BY <2>1, <2>2, <2>3, <2>4 DEF Stream
<1> QED
  BY <1>2, <1>4, <1>9

\* copy_to_user delivers what was taken.
LEMMA StreamDelivered ==
  ASSUME TypeOK, Stream, Copy
  PROVE  Stream'
<1>1. /\ last' = IF got = <<>> THEN last ELSE Last(got)
      /\ got' = <<>> /\ UNCHANGED <<kfifo, taken, hl, tpc>>
  BY DEF Copy, chipVars, bufVars
<1>2. Sent' = Sent
  BY <1>1 DEF Sent
<1>3. CASE got = <<>>
  BY <1>1, <1>2, <1>3 DEF Stream, Increasing, Between
<1>4. CASE got # <<>>
  <2>1. Len(got) \in Nat /\ Len(got) \in 1..Len(got)
    BY <1>4, Numbers
  <2>2. last' = got[Len(got)]
    BY <1>1, <1>4 DEF Last
  <2>3. last' <= Sent /\ \A j \in 1..Len(kfifo) : last' < kfifo[j]
    BY <2>1, <2>2 DEF Stream, Between
  <2> QED
    BY <1>1, <1>2, <2>3 DEF Stream, Increasing, Between
<1> QED
  BY <1>3, <1>4

\* The other steps at most lose the reader's bytes and empty the kfifo.
LEMMA Others ==
  ASSUME Next
  PROVE  \/ PushIn \/ Take \/ Copy
         \/ got' \in {got, <<>>} /\ UNCHANGED last /\ kfifo' \in {kfifo, <<>>}
<1>1. CASE Poll \/ PollTest \/ Read \/ Test \/ Interrupted \/ CopyFails
  BY <1>1 DEF Poll, PollTest, Read, Test, Interrupted, CopyFails
<1>2. CASE Receive \/ CheckOn \/ ReadLength \/ LengthError \/ LengthTooBig
  BY <1>2 DEF Receive, CheckOn, ReadLength, LengthError, LengthTooBig, readVars
<1>3. CASE ReadData \/ DataError \/ PushDown \/ Wake
  BY <1>3 DEF ReadData, DataError, PushDown, Wake, readVars
<1>4. CASE Start \/ DeviceDown \/ DeviceUp \/ EarlySuspend \/ SuspendReset
  BY <1>4 DEF Start, DeviceDown, DeviceUp, EarlySuspend, SuspendReset, readVars
<1>5. CASE CleanLength \/ CleanError \/ CleanData \/ CleanDataError \/ CleanReset \/ Enable
  BY <1>5 DEF CleanLength, CleanError, CleanData, CleanDataError, CleanReset, Enable, readVars
<1> QED
  BY <1>1, <1>2, <1>3, <1>4, <1>5 DEF Next, ThreadStep, ReadStep, NotifyStep

\* Every step keeps the bytes in order.
LEMMA StreamStep ==
  ASSUME TypeOK, LoadInv, StreamInv, GotInv, Next
  PROVE  StreamInv'
<1> SUFFICES ASSUME ~crossed' PROVE Stream'
  BY DEF StreamInv
<1>1. ~crossed /\ Stream /\ Sent \in Int /\ Sent' \in Int /\ Sent <= Sent'
  BY SentGrows DEF StreamInv
<1>2. CASE PushIn
  BY <1>1, <1>2, StreamPushed
<1>3. CASE Take
  BY <1>1, <1>3, StreamTaken DEF GotInv, Take
<1>4. CASE Copy
  BY <1>1, <1>4, StreamDelivered
<1>5. CASE got' \in {got, <<>>} /\ UNCHANGED last /\ kfifo' \in {kfifo, <<>>}
  BY <1>1, <1>5, StreamKept
<1> QED
  BY <1>2, <1>3, <1>4, <1>5, Others

-------------------------------------------------------------------------------
(* The types of the rest. *)

LEMMA SeqTypesStep ==
  ASSUME TypeOK, Next
  PROVE  SeqTypes'
<1>0. /\ kfifo \in Seq(Places) /\ Len(kfifo) \in Nat /\ Len(kfifo) <= FIFO_SIZE
      /\ got \in Seq(Places) /\ Len(got) <= HAL_BUF_SIZE /\ last \in Places
  BY Numbers DEF TypeOK
<1>1. CASE PushIn
  <2> DEFINE n == IF hl <= FIFO_SIZE - Len(kfifo) THEN hl ELSE FIFO_SIZE - Len(kfifo)
  <2>1. /\ tpc = "in" /\ UNCHANGED <<got, last>>
        /\ kfifo' = kfifo \o Loaded(n)
    BY <1>1 DEF PushIn, GoThread, readVars
  <2>2. /\ n \in 0..hl /\ n <= FIFO_SIZE - Len(kfifo)
        /\ kfifo' \in Seq(Places) /\ Len(kfifo') = Len(kfifo) + n
    BY <2>1, Pushed
  <2>3. hl \in Nat
    BY Sizes DEF TypeOK
  <2>4. Len(kfifo') <= FIFO_SIZE
    BY <1>0, <2>2, <2>3, Sizes
  <2> QED
    BY <1>0, <2>1, <2>2, <2>4 DEF SeqTypes
<1>2. CASE Take
  <2>1. /\ got' = SubSeq(kfifo, 1, ReadLen) /\ last' = last
        /\ kfifo' = SubSeq(kfifo, ReadLen + 1, Len(kfifo))
    BY <1>2 DEF Take
  <2>2. ReadLen \in 0..Len(kfifo) /\ ReadLen <= HAL_BUF_SIZE
    BY LenToRead
  <2>3. /\ got' \in Seq(Places) /\ Len(got') = ReadLen
        /\ kfifo' \in Seq(Places) /\ Len(kfifo') = Len(kfifo) - ReadLen
    BY <1>0, <2>1, <2>2, CutInTwo
  <2>4. Len(kfifo') <= FIFO_SIZE
    BY <1>0, <2>2, <2>3, Sizes
  <2> QED
    BY <1>0, <2>1, <2>2, <2>3, <2>4 DEF SeqTypes
<1>3. CASE Copy
  <2>1. /\ last' = IF got = <<>> THEN last ELSE Last(got)
        /\ got' = <<>> /\ kfifo' = kfifo
    BY <1>3 DEF Copy
  <2>2. got # <<>> => Len(got) \in 1..Len(got)
    BY Numbers
  <2>3. last' \in Places
    BY <1>0, <2>1, <2>2 DEF Last
  <2> QED
    BY <1>0, <2>1, <2>3, Sizes DEF SeqTypes
<1>4. CASE got' \in {got, <<>>} /\ UNCHANGED last /\ kfifo' \in {kfifo, <<>>}
  <2>1. <<>> \in Seq(Places) /\ Len(<<>>) = 0
    OBVIOUS
  <2>2. kfifo' \in Seq(Places) /\ Len(kfifo') <= FIFO_SIZE
    <3>1. CASE kfifo' = kfifo
      BY ONLY <1>0, <3>1
    <3>2. CASE kfifo' = <<>>
      BY ONLY <2>1, <3>2, Sizes
    <3> QED
      BY <1>4, <3>1, <3>2
  <2>3. got' \in Seq(Places) /\ Len(got') <= HAL_BUF_SIZE
    <3>1. CASE got' = got
      BY ONLY <1>0, <3>1
    <3>2. CASE got' = <<>>
      BY ONLY <2>1, <3>2, Sizes
    <3> QED
      BY <1>4, <3>1, <3>2
  <2> QED
    BY <1>0, <1>4, <2>2, <2>3 DEF SeqTypes
<1> QED
  BY <1>1, <1>2, <1>3, <1>4, Others

LEMMA ControlTypesStep ==
  ASSUME TypeOK, Next
  PROVE  ControlTypes'
<1>0. ControlTypes
  BY DEF TypeOK, ControlTypes
<1>1. CASE ThreadStep
  <2>1. /\ UNCHANGED <<work_en, started, npc, crossed, polled, reset>>
        /\ tpc' \in {"check", "length", "data", "push", "in", "wake"}
        /\ rpc' \in {rpc, "out", "poll"}
    <3>1. CASE CheckOn \/ ReadLength \/ LengthError \/ LengthTooBig
      BY <3>1 DEF CheckOn, ReadLength, LengthError, LengthTooBig, GoThread, switches, readVars
    <3>2. CASE ReadData \/ DataError \/ PushDown \/ PushIn
      BY <3>2 DEF ReadData, DataError, PushDown, PushIn, GoThread, switches, readVars
    <3>3. CASE Wake
      BY <3>3 DEF Wake, GoThread, switches
    <3> QED
      BY <1>1, <3>1, <3>2, <3>3 DEF ThreadStep
  <2> QED
    BY <1>0, <2>1 DEF ControlTypes
<1>2. CASE Receive \/ Poll \/ Read \/ ReadStep \/ Interrupted
  <2>1. UNCHANGED <<work_en, started, tpc, npc, crossed>>
    BY <1>2 DEF Receive, Poll, Read, ReadStep, Interrupted, PollTest, Test, Take, Copy,
       CopyFails, switches
  <2>2. rpc' \in {rpc, "idle", "poll", "psleep", "test", "sleep", "out", "copy"}
    BY <1>2 DEF Receive, Poll, Read, ReadStep, Interrupted, PollTest, Test, Take, Copy,
       CopyFails, readVars
  <2>3. polled' \in {polled, TRUE, FALSE} /\ reset' \in {reset, "none"}
    BY <1>2 DEF Receive, Poll, Read, ReadStep, Interrupted, PollTest, Test, Take, Copy,
       CopyFails, readVars
  <2>4. rpc' \in {"idle", "poll", "psleep", "test", "sleep", "out", "copy"}
    BY <1>0, <2>2 DEF ControlTypes
  <2>5. polled' \in BOOLEAN
    BY <1>0, <2>3 DEF ControlTypes
  <2>6. reset' \in {"none", "stopped", "emptied"}
    BY <1>0, <2>3 DEF ControlTypes
  <2> QED
    BY <1>0, <2>1, <2>4, <2>5, <2>6 DEF ControlTypes
<1>3. CASE Start \/ DeviceDown \/ DeviceUp \/ EarlySuspend \/ NotifyStep
  <2>1. UNCHANGED <<tpc, rpc, polled>>
    BY <1>3 DEF Start, DeviceDown, DeviceUp, EarlySuspend, NotifyStep, CleanLength, CleanError,
       CleanData, CleanDataError, CleanReset, Enable, SuspendReset, readVars
  <2>2. npc' \in {npc, "idle", "length", "data", "reset", "enable", "suspend"}
    BY <1>3 DEF Start, DeviceDown, DeviceUp, EarlySuspend, NotifyStep, CleanLength, CleanError,
       CleanData, CleanDataError, CleanReset, Enable, SuspendReset, GoNotify
  <2>3. reset' \in {reset, "stopped", "emptied"}
    BY <1>3 DEF Start, DeviceDown, DeviceUp, EarlySuspend, NotifyStep, CleanLength, CleanError,
       CleanData, CleanDataError, CleanReset, Enable, SuspendReset
  <2>4. work_en' \in BOOLEAN /\ started' \in BOOLEAN
    BY <1>0, <1>3 DEF ControlTypes, Start, DeviceDown, DeviceUp, EarlySuspend, NotifyStep,
       CleanLength, CleanError, CleanData, CleanDataError, CleanReset, Enable, SuspendReset,
       switches
  <2>5. crossed' \in BOOLEAN
    BY <1>0, <1>3 DEF ControlTypes, Start, DeviceDown, DeviceUp, EarlySuspend, NotifyStep,
       CleanLength, CleanError, CleanData, CleanDataError, CleanReset, Enable, SuspendReset, Under
  <2> QED
    BY <1>0, <2>1, <2>2, <2>3, <2>4, <2>5 DEF ControlTypes
<1> QED
  BY <1>1, <1>2, <1>3 DEF Next

-------------------------------------------------------------------------------
(* What the reader finds. *)

LEMMA GotStep ==
  ASSUME GotInv, Next
  PROVE  GotInv'
<1>1. CASE Take \/ Copy \/ CopyFails
  BY <1>1 DEF Take, Copy, CopyFails, GotInv
<1>2. CASE PushIn
  BY <1>2 DEF PushIn, readVars, GotInv
<1>3. CASE UNCHANGED got /\ (rpc = "copy" => rpc' = "copy")
  BY <1>3 DEF GotInv
<1>4. Take \/ Copy \/ CopyFails \/ PushIn \/ (UNCHANGED got /\ (rpc = "copy" => rpc' = "copy"))
  <2>1. CASE Poll \/ PollTest \/ Read \/ Test \/ Interrupted
    BY <2>1 DEF Poll, PollTest, Read, Test, Interrupted
  <2>2. CASE Receive \/ CheckOn \/ ReadLength \/ LengthError \/ LengthTooBig
    BY <2>2 DEF Receive, CheckOn, ReadLength, LengthError, LengthTooBig, readVars
  <2>3. CASE ReadData \/ DataError \/ PushDown \/ Wake
    BY <2>3 DEF ReadData, DataError, PushDown, Wake, readVars
  <2>4. CASE Start \/ DeviceDown \/ DeviceUp \/ EarlySuspend \/ SuspendReset
    BY <2>4 DEF Start, DeviceDown, DeviceUp, EarlySuspend, SuspendReset, readVars
  <2>5. CASE CleanLength \/ CleanError \/ CleanData \/ CleanDataError \/ CleanReset \/ Enable
    BY <2>5 DEF CleanLength, CleanError, CleanData, CleanDataError, CleanReset, Enable, readVars
  <2> QED
    BY <2>1, <2>2, <2>3, <2>4, <2>5 DEF Next, ThreadStep, ReadStep, NotifyStep
<1> QED
  BY <1>1, <1>2, <1>3, <1>4

\* Steps that leave alone what a promise to the reader depends on ...
Still ==
  /\ UNCHANGED <<kfifo, rpc, got, polled, started, reset>>
  /\ tpc' = tpc \/ tpc \notin {"in", "wake"}

\* ... and steps that may break the promise, which reset then tells.
Told ==
  /\ UNCHANGED <<tpc, rpc, got, polled>>
  /\ Concerned => reset' # "none"
  /\ reset = "emptied" => reset' = "emptied"
  /\ UNCHANGED kfifo \/ (Concerned => reset' = "emptied")

LEMMA PromiseSteps ==
  ASSUME Next
  PROVE  \/ PushIn \/ PushDown \/ Wake
         \/ Poll \/ PollTest \/ Read \/ Test \/ Interrupted \/ Take \/ Copy
         \/ CopyFails \/ Still \/ Told
<1>1. CASE Receive \/ DeviceDown \/ DeviceUp \/ EarlySuspend
  BY <1>1 DEF Receive, DeviceDown, DeviceUp, EarlySuspend, readVars, switches, Still
<1>2. CASE CheckOn \/ ReadLength \/ LengthError \/ LengthTooBig \/ ReadData \/ DataError
  BY <1>2 DEF CheckOn, ReadLength, LengthError, LengthTooBig, ReadData, DataError, GoThread,
     readVars, switches, Still
<1>3. CASE CleanLength \/ CleanError \/ CleanData \/ CleanDataError \/ Enable
  BY <1>3 DEF CleanLength, CleanError, CleanData, CleanDataError, Enable, readVars, switches,
     Still
<1>4. CASE SuspendReset \/ CleanReset
  BY <1>4 DEF SuspendReset, CleanReset, readVars, Told
<1>5. CASE Start
  BY <1>5 DEF Start, readVars, Told
<1> QED
  BY <1>1, <1>2, <1>3, <1>4, <1>5 DEF Next, ThreadStep, ReadStep, NotifyStep

\* A read that has stopped waiting keeps its bytes.
LEMMA DataStep ==
  ASSUME TypeOK, LoadInv, StreamInv, GotInv, DataInv, Next
  PROVE  DataInv'
<1> SUFFICES ASSUME ~crossed', reset' # "emptied"
             PROVE  (rpc' = "out" => Supplied') /\ (rpc' = "copy" => got' # <<>>)
  BY DEF DataInv
<1>0. ~crossed /\ Stream
  BY SentGrows DEF StreamInv
<1>1. CASE Poll \/ PollTest \/ Read \/ Interrupted \/ Copy \/ CopyFails
  BY <1>1 DEF Poll, PollTest, Read, Interrupted, Copy, CopyFails
<1>2. CASE Test
  BY <1>2 DEF Test, Supplied
<1>3. CASE Take
  <2>1. rpc = "out" /\ rpc' = "copy" /\ tpc # "in" /\ reset' = reset
    BY <1>3 DEF Take, SemFree
  <2>2. kfifo # <<>>
    BY <1>0, <2>1 DEF DataInv, Supplied
  <2>3. got = <<>>
    BY <2>1 DEF GotInv
  <2> QED
    BY <1>0, <1>3, <2>1, <2>2, <2>3, StreamTaken
<1>4. CASE PushIn
  <2>1. UNCHANGED <<rpc, got, reset>>
    BY <1>4 DEF PushIn, readVars
  <2>2. kfifo' # <<>>
    BY <1>0, <1>4, StreamPushed
  <2> QED
    BY <1>0, <2>1, <2>2 DEF DataInv, Supplied
<1>5. CASE PushDown
  <2>1. UNCHANGED <<rpc, got, reset>> /\ tpc' = "in"
    BY <1>5 DEF PushDown, GoThread, readVars
  <2> QED
    BY <1>0, <2>1 DEF DataInv, Supplied
<1>6. CASE Wake
  <2>1. /\ UNCHANGED <<kfifo, got, reset>> /\ tpc = "wake"
        /\ rpc' = "out" => rpc = "out" \/ kfifo # <<>>
        /\ rpc' = "copy" => rpc = "copy"
    BY <1>6 DEF Wake, GoThread
  <2> QED
    BY <1>0, <2>1 DEF DataInv, Supplied
<1>7. CASE Still
  BY <1>0, <1>7 DEF Still, DataInv, Supplied
<1>8. CASE Told
  BY <1>0, <1>8 DEF Told, Concerned, DataInv, Supplied
<1> QED
  BY <1>1, <1>2, <1>3, <1>4, <1>5, <1>6, <1>7, <1>8, PromiseSteps

\* What a poll has promised stays true.
LEMMA PollStep ==
  ASSUME TypeOK, LoadInv, StreamInv, PollInv, Next
  PROVE  PollInv'
<1>0. crossed' \/ (~crossed /\ Stream)
  BY SentGrows DEF StreamInv
<1>1. CASE Poll \/ Interrupted \/ Copy \/ CopyFails
  <2>1. polled' = FALSE
    BY <1>1 DEF Poll, Interrupted, Copy, CopyFails
  <2> QED
    BY <2>1 DEF PollInv
<1>2. CASE PollTest
  <2>1. UNCHANGED <<started, kfifo, reset>> /\ rpc = "poll"
    BY <1>2 DEF PollTest, switches
  <2>2. ~polled
    BY <2>1 DEF PollInv
  <2>3. polled' => started /\ kfifo # <<>> /\ rpc' = "idle"
    BY <1>2, <2>2 DEF PollTest
  <2> QED
    BY <2>1, <2>3 DEF PollInv, Supplied
<1>3. CASE Read
  <2>1. /\ UNCHANGED <<started, kfifo, tpc, polled, reset, crossed>>
        /\ rpc = "idle" /\ rpc' = "test"
    BY <1>3 DEF Read, switches
  <2> QED
    BY <2>1 DEF PollInv, Supplied
<1>4. CASE Test
  <2>1. /\ UNCHANGED <<started, kfifo, tpc, polled, reset, crossed>>
        /\ rpc = "test" /\ rpc' = IF kfifo = <<>> THEN "sleep" ELSE "out"
    BY <1>4 DEF Test, switches
  <2> QED
    BY <2>1 DEF PollInv, Supplied
<1>5. CASE Take
  <2>1. UNCHANGED <<started, polled, reset>> /\ rpc' = "copy"
    BY <1>5 DEF Take, switches
  <2> QED
    BY <2>1 DEF PollInv
<1>6. CASE PushIn
  <2>1. UNCHANGED <<started, rpc, polled, reset>> /\ tpc' = "wake"
    BY <1>6 DEF PushIn, GoThread, switches, readVars
  <2>2. crossed' \/ kfifo' # <<>>
    BY <1>0, <1>6, StreamPushed
  <2> QED
    BY <2>1, <2>2 DEF PollInv, Supplied
<1>7. CASE PushDown
  <2>1. UNCHANGED <<started, rpc, polled, reset>> /\ tpc' = "in"
    BY <1>7 DEF PushDown, GoThread, switches, readVars
  <2> QED
    BY <2>1 DEF PollInv, Supplied
<1>8. CASE Wake
  <2>1. /\ UNCHANGED <<started, kfifo, polled, reset, crossed>> /\ tpc = "wake"
        /\ rpc' = CASE started /\ rpc = "sleep" /\ kfifo # <<>> -> "out"
                    [] started /\ rpc = "psleep" -> "poll"
                    [] OTHER -> rpc
    BY <1>8 DEF Wake, GoThread, switches
  <2>2. polled => rpc' \notin {"poll", "psleep"}
    BY <2>1 DEF PollInv
  <2>3. polled /\ reset = "none" /\ ~crossed =>
          rpc' # "sleep" /\ (rpc' \in {"idle", "test"} => rpc' = rpc)
    BY <2>1 DEF PollInv
  <2> QED
    BY <2>1, <2>2, <2>3 DEF PollInv, Supplied
<1>9. CASE Still
  <2>1. crossed' \/ ~crossed
    BY <1>0
  <2> QED
    BY <1>9, <2>1 DEF Still, PollInv, Supplied
<1>10. CASE Told
  BY <1>10 DEF Told, Concerned, PollInv
<1> QED
  BY <1>1, <1>2, <1>3, <1>4, <1>5, <1>6, <1>7, <1>8, <1>9, <1>10, PromiseSteps

-------------------------------------------------------------------------------
(* The invariant and its consequences. *)

LEMMA GpsNext == GpsInv /\ [Next]_vars => GpsInv'
<1> SUFFICES ASSUME GpsInv, [Next]_vars PROVE GpsInv'
  OBVIOUS
<1>1. CASE Next
  <2>1. TypeOK'
    BY <1>1, BufStep, SeqTypesStep, ControlTypesStep
       DEF GpsInv, TypeOK, BufTypes, SeqTypes, ControlTypes
  <2>2. LoadInv'
    BY <1>1, BufStep DEF GpsInv
  <2>3. StreamInv' /\ GotInv' /\ DataInv' /\ PollInv'
    BY <1>1, StreamStep, GotStep, DataStep, PollStep DEF GpsInv
  <2> QED
    BY <2>1, <2>2, <2>3 DEF GpsInv
<1>2. CASE UNCHANGED vars
  <2>1. TypeOK' /\ LoadInv'
    BY <1>2 DEF GpsInv, TypeOK, LoadInv, Waiting, Under, vars, chipVars, switches,
       bufVars, readVars
  <2>2. StreamInv' /\ GotInv' /\ DataInv' /\ PollInv'
    BY <1>2 DEF GpsInv, StreamInv, Stream, Increasing, Between, Sent, GotInv, DataInv, PollInv,
       Supplied, vars, chipVars, switches, bufVars, readVars
  <2> QED
    BY <2>1, <2>2 DEF GpsInv
<1> QED
  BY <1>1, <1>2

LEMMA GpsInvariant == Spec => []GpsInv
<1> QED
  BY GpsInit, GpsNext, PTL DEF Spec

\* The variables keep their types and the buffers their sizes.
THEOREM TypeCorrect == Spec => []TypeOK
<1>1. GpsInv => TypeOK
  BY DEF GpsInv
<1> QED
  BY <1>1, GpsInvariant, PTL

\* The reader gets the receiver's bytes in their order and none twice: those it takes
\* follow those it has been given, whatever the sizes, however full the kfifo was
\* (gps_read, thread_gps_server).
THEOREM BytesInOrder == Spec => []InOrder
<1>1. GpsInv => InOrder
  <2> SUFFICES ASSUME GpsInv, ~crossed, NEW i \in 1..Len(got)
               PROVE  got[i] > (IF i = 1 THEN last ELSE got[i - 1])
    BY DEF InOrder
  <2>1. last < got[i] /\ Len(got) \in Nat
    BY Numbers DEF GpsInv, StreamInv, Stream, Between
  <2>2. i # 1 => i - 1 \in 1..Len(got) /\ i - 1 < i
    BY <2>1
  <2>3. i # 1 => got[i - 1] < got[i]
    BY <2>2 DEF GpsInv, StreamInv, Stream, Increasing
  <2>4. last \in Nat /\ got[i] \in Nat /\ (i # 1 => got[i - 1] \in Nat)
    BY <2>2, Numbers DEF GpsInv
  <2> QED
    BY <2>1, <2>3, <2>4
<1> QED
  BY <1>1, GpsInvariant, PTL

\* A read that has waited for data returns some, unless the notifier emptied the kfifo
\* after the wait (gps_read's kfifo_out between down and up).
THEOREM ReadGetsData == Spec => []ReadReturnsData
<1>1. GpsInv => ReadReturnsData
  BY DEF GpsInv, DataInv, ReadReturnsData
<1> QED
  BY <1>1, GpsInvariant, PTL

\* A read that follows a poll which said there is data does not sleep, but for the
\* moment between the thread's emptying a full kfifo and its next wake-up (gps_poll,
\* gps_read).
THEOREM PollKeepsPromise == Spec => []PolledReadFinds
<1>1. GpsInv => PolledReadFinds
  BY DEF GpsInv, PollInv, PolledReadFinds
<1> QED
  BY <1>1, GpsInvariant, PTL
===============================================================================

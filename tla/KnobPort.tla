------------------------------- MODULE KnobPort -------------------------------
(***************************************************************************)
(* What /dev/knob_drv promises its reader: a bounded queue of rotation     *)
(* codes that loses a code only when it is full, and that hands every code *)
(* it kept to exactly one call, once, oldest first.                        *)
(***************************************************************************)
EXTENDS Naturals, Sequences

CONSTANTS
  Codes,      \* the codes the rotation works store
  Readers,    \* the callers of the ioctl
  Size,       \* codes the port can hold
  Nothing     \* what a caller that holds no code has; not a code

VARIABLES
  queue,      \* the codes kept, oldest first
  taken,      \* the code a call has removed and not yet returned
  value       \* what each caller's current or last call has returned

vars == <<queue, taken, value>>

Init ==
  /\ queue = <<>>
  /\ taken = [r \in Readers |-> Nothing]
  /\ value = [r \in Readers |-> Nothing]

\* A rotation is recorded while there is room; one that finds the queue full is lost.
Put ==
  \E c \in Codes :
    /\ Len(queue) < Size
    /\ queue' = Append(queue, c)
    /\ UNCHANGED <<taken, value>>

\* A caller asks for its next code.
Call(r) ==
  /\ taken[r] = Nothing
  /\ value' = [value EXCEPT ![r] = Nothing]
  /\ UNCHANGED <<queue, taken>>

\* A call removes the oldest code.
Take(r) ==
  /\ queue # <<>>
  /\ taken[r] = Nothing
  /\ value[r] = Nothing
  /\ taken' = [taken EXCEPT ![r] = Head(queue)]
  /\ queue' = Tail(queue)
  /\ UNCHANGED value

\* The call returns the code it removed.
Deliver(r) ==
  /\ taken[r] # Nothing
  /\ value' = [value EXCEPT ![r] = taken[r]]
  /\ taken' = [taken EXCEPT ![r] = Nothing]
  /\ UNCHANGED queue

Next == Put \/ \E r \in Readers : Call(r) \/ Take(r) \/ Deliver(r)

Spec == Init /\ [][Next]_vars
===============================================================================

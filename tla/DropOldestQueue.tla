-------------------------- MODULE DropOldestQueue --------------------------
(***************************************************************************)
(* What the ring buffer between the capture thread and the main thread     *)
(* promises: a bounded FIFO of encoded frames that gives up its oldest     *)
(* frame, never its newest, when it is full.  Frames are numbered in the   *)
(* order in which the capture thread offers them.                          *)
(***************************************************************************)
EXTENDS Integers, Sequences

CONSTANTS Capacity,    \* frames the queue can hold
          MaxFrames    \* bound on the number of frames offered

VARIABLES queue,       \* frames waiting, oldest first
          next,        \* number of the next frame to be offered
          popped       \* number of the frame handed out last, 0 before the first

vars == <<queue, next, popped>>

Init ==
  /\ queue = << >>
  /\ next = 1
  /\ popped = 0

\* A frame is accepted when there is room for it.
Accept ==
  /\ next <= MaxFrames
  /\ Len(queue) < Capacity
  /\ queue' = Append(queue, next)
  /\ next' = next + 1
  /\ UNCHANGED popped

\* A frame that cannot be stored is lost.  When the queue is full it may cost
\* the oldest frame too: room is made before the store fails.
Lose ==
  /\ next <= MaxFrames
  /\ next' = next + 1
  /\ queue' = IF Len(queue) = Capacity THEN Tail(queue) ELSE queue
  /\ UNCHANGED popped

\* Room is made by giving up the oldest frame, and only when there is none.
DropOldest ==
  /\ Len(queue) = Capacity
  /\ queue' = Tail(queue)
  /\ UNCHANGED <<next, popped>>

\* The consumer takes the oldest frame.
Take ==
  /\ queue # << >>
  /\ popped' = Head(queue)
  /\ queue' = Tail(queue)
  /\ UNCHANGED next

\* The consumer discards everything that waits.
Discard ==
  /\ queue' = << >>
  /\ UNCHANGED <<next, popped>>

Next == Accept \/ Lose \/ DropOldest \/ Take \/ Discard

Spec == Init /\ [][Next]_vars
=============================================================================

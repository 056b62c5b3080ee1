----------------------------- MODULE RingBuffer -----------------------------
(***************************************************************************)
(* The ring buffer of ubuntu/src/main.c.  The capture thread pushes        *)
(* encoded frames, the main thread pops them and hands the popped slot,    *)
(* by pointer, to db_streamer_send, which reads the slot's header and      *)
(* copies its payload outside the mutex.                                   *)
(*                                                                         *)
(* ring_push holds the mutex for its whole body, but its memcpy is not     *)
(* atomic for a reader that holds a pointer into the ring: the push is two *)
(* steps, and between them the slot's payload is torn.  ring_pop and       *)
(* ring_flush touch only the indices, under the mutex: one step each.      *)
(***************************************************************************)
EXTENDS Integers, Sequences

CONSTANTS RingSize,     \* RING_SIZE
          MaxFrames,    \* bound on the number of frames pushed
          Oversized     \* the frames larger than the 4 MB of a fresh slot

ASSUME RingAssumption ==
  /\ RingSize \in Nat /\ RingSize >= 2
  /\ MaxFrames \in Nat
  /\ Oversized \subseteq 1 .. MaxFrames

VARIABLES head,         \* rb->head, the slot the capture thread writes next
          tail,         \* rb->tail, the oldest queued slot
          data,         \* entries[i].data: a frame's payload, or one of the below
          meta,         \* entries[i].size, pts, is_keyframe: the frame they describe
          writing,      \* the capture thread is inside ring_push's memcpy
          next,         \* number of the frame the capture thread pushes next
          pc,           \* the main thread: see MainPC
          held,         \* the slot ring_pop returned a pointer to, or NoSlot
          popped,       \* the frame that slot held when it was popped
          backlog,      \* frames left in the ring by that pop
          sincePop,     \* pushes begun since that pop
          header,       \* the frame whose size and pts db_streamer_send was given
          crashed       \* a memcpy through a NULL data pointer

ringVars == <<head, tail, data, meta, writing, next>>
mainVars == <<pc, held, popped, backlog, sincePop, header>>
vars == <<ringVars, mainVars, crashed>>

Slots == 0 .. RingSize - 1
Frames == 1 .. MaxFrames
Fresh == 0              \* malloc'd by ring_init and never written
Torn == -1              \* a memcpy is under way
NoBuffer == -2          \* data is NULL: an earlier malloc failed
NoSlot == -1

MainPC == {"idle", "waiting", "woken", "popped", "sending"}

TypeOK ==
  /\ head \in Slots /\ tail \in Slots
  /\ data \in [Slots -> Frames \cup {Fresh, Torn, NoBuffer}]
  /\ meta \in [Slots -> Frames \cup {Fresh}]
  /\ writing \in BOOLEAN
  /\ next \in 1 .. MaxFrames + 1
  /\ pc \in MainPC
  /\ held \in Slots \cup {NoSlot}
  /\ popped \in Frames \cup {0}
  /\ backlog \in Nat
  /\ sincePop \in Nat
  /\ header \in Frames \cup {Fresh}
  /\ crashed \in BOOLEAN

-----------------------------------------------------------------------------

\* Mutated form of Succ: the modulus of a ring one slot too small.
SuccShort(i) == (i + 1) % (RingSize - 1)

\* Mutated form of Succ: the wrap forgotten.
SuccUnwrapped(i) == i + 1

Succ(i) == (i + 1) % RingSize

\* Slots from a forward to b.
Ahead(a, b) == IF a <= b THEN b - a ELSE b - a + RingSize

Occupancy == Ahead(tail, head)

\* The k-th queued slot, oldest first.
QueuedSlot(k) == IF tail + k - 1 < RingSize THEN tail + k - 1
                                            ELSE tail + k - 1 - RingSize

Empty == head = tail

\* ring_init does not test what malloc gives it.
Init ==
  /\ head = 0 /\ tail = 0
  /\ data \in [Slots -> {Fresh, NoBuffer}]
  /\ meta = [i \in Slots |-> Fresh]
  /\ writing = FALSE
  /\ next = 1
  /\ pc = "idle" /\ held = NoSlot /\ popped = 0
  /\ backlog = 0 /\ sincePop = 0 /\ header = Fresh
  /\ crashed = FALSE

-----------------------------------------------------------------------------
(* Capture thread.                                                         *)

\* Mutated form of MakeRoom: it tests for an empty ring, not a full one.
MakeRoomWhenEmpty == IF head = tail THEN Succ(tail) ELSE tail

\* The tail after ring_push has made room.
MakeRoom == IF Succ(head) = tail THEN Succ(tail) ELSE tail

CanPush == ~crashed /\ ~writing /\ next <= MaxFrames

\* ring_push up to its memcpy: lock, drop the oldest frame of a full ring,
\* replace the buffer for an oversized frame, start copying.
PushBegin ==
  /\ CanPush
  /\ next \in Oversized \/ data[head] # NoBuffer
  /\ tail' = MakeRoom
  /\ data' = [data EXCEPT ![head] = Torn]
  /\ writing' = TRUE
  /\ sincePop' = IF held # NoSlot THEN sincePop + 1 ELSE sincePop
  /\ UNCHANGED <<head, meta, next, pc, held, popped, backlog, header, crashed>>

\* Mutated form of PushCommit: pthread_cond_signal forgotten.
PushUnsignalled ==
  /\ ~crashed /\ writing
  /\ data' = [data EXCEPT ![head] = next]
  /\ meta' = [meta EXCEPT ![head] = next]
  /\ head' = Succ(head)
  /\ next' = next + 1
  /\ writing' = FALSE
  /\ UNCHANGED <<tail, pc, held, popped, backlog, sincePop, header, crashed>>

\* The rest of ring_push: the copy is complete, publish, signal, unlock.
PushCommit ==
  /\ ~crashed /\ writing
  /\ data' = [data EXCEPT ![head] = next]
  /\ meta' = [meta EXCEPT ![head] = next]
  /\ head' = Succ(head)
  /\ next' = next + 1
  /\ writing' = FALSE
  /\ pc' = IF pc = "waiting" THEN "woken" ELSE pc
  /\ UNCHANGED <<tail, held, popped, backlog, sincePop, header, crashed>>

\* malloc fails for an oversized frame: the slot has lost its buffer and the
\* ring its oldest frame, and the frame is lost.
PushNoMemory ==
  /\ CanPush
  /\ next \in Oversized
  /\ tail' = MakeRoom
  /\ data' = [data EXCEPT ![head] = NoBuffer]
  /\ next' = next + 1
  /\ sincePop' = IF held # NoSlot THEN sincePop + 1 ELSE sincePop
  /\ UNCHANGED <<head, meta, writing, pc, held, popped, backlog, header, crashed>>

\* An ordinary frame meets a slot that lost its buffer: memcpy to NULL.
PushCrash ==
  /\ CanPush
  /\ next \notin Oversized
  /\ data[head] = NoBuffer
  /\ crashed' = TRUE
  /\ UNCHANGED <<ringVars, mainVars>>

-----------------------------------------------------------------------------
(* Main thread.                                                            *)

\* ring_pop takes the oldest slot, at once or when pthread_cond_timedwait
\* returns 0 and the ring is not empty.
Pop ==
  /\ ~crashed /\ ~writing
  /\ pc \in {"idle", "woken"}
  /\ ~Empty
  /\ held' = tail
  /\ popped' = meta[tail]
  /\ backlog' = Occupancy - 1
  /\ sincePop' = 0
  /\ tail' = Succ(tail)
  /\ pc' = "popped"
  /\ UNCHANGED <<head, data, meta, writing, next, header, crashed>>

\* The ring is empty: wait on the condition variable.
PopWait ==
  /\ ~crashed /\ ~writing
  /\ pc \in {"idle", "woken"}
  /\ Empty
  /\ pc' = "waiting"
  /\ UNCHANGED <<ringVars, held, popped, backlog, sincePop, header, crashed>>

\* POSIX lets the wait return without a signal.
SpuriousWakeup ==
  /\ ~crashed
  /\ pc = "waiting"
  /\ pc' = "woken"
  /\ UNCHANGED <<ringVars, held, popped, backlog, sincePop, header, crashed>>

\* ETIMEDOUT: NULL is returned without looking at the ring again, also when
\* a push came between the deadline and the wait's return.
PopTimeout ==
  /\ ~crashed /\ ~writing
  /\ pc \in {"waiting", "woken"}
  /\ pc' = "idle"
  /\ UNCHANGED <<ringVars, held, popped, backlog, sincePop, header, crashed>>

\* The stream loop tests entry->size and passes the entry's fields on.
ReadHeader ==
  /\ ~crashed
  /\ pc = "popped"
  /\ meta[held] # Fresh
  /\ header' = meta[held]
  /\ pc' = "sending"
  /\ UNCHANGED <<ringVars, held, popped, backlog, sincePop, crashed>>

\* db_streamer_send's memcpy out of the slot; the pointer is not used again.
CopyPayload ==
  /\ ~crashed
  /\ pc = "sending"
  /\ data[held] # NoBuffer
  /\ pc' = "idle"
  /\ held' = NoSlot
  /\ UNCHANGED <<ringVars, popped, backlog, sincePop, header, crashed>>

\* The same memcpy after the slot lost its buffer: a read through NULL.
CopyCrash ==
  /\ ~crashed
  /\ pc = "sending"
  /\ data[held] = NoBuffer
  /\ crashed' = TRUE
  /\ UNCHANGED <<ringVars, mainVars>>

\* ring_flush, run on a new connection, when no pop is under way.
Flush ==
  /\ ~crashed /\ ~writing
  /\ pc = "idle"
  /\ tail' = head
  /\ UNCHANGED <<head, data, meta, writing, next, mainVars, crashed>>

-----------------------------------------------------------------------------

Push == PushBegin \/ PushCommit \/ PushNoMemory \/ PushCrash

Consume == Pop \/ PopWait \/ SpuriousWakeup \/ PopTimeout
             \/ ReadHeader \/ CopyPayload \/ CopyCrash

Next == Push \/ Consume \/ Flush

Spec == Init /\ [][Next]_vars

\* The stream loop keeps calling ring_pop and uses what it gets; a push that
\* has begun ends.  Nothing is assumed of the timeout or of the producer.
Fairness ==
  /\ WF_vars(PushCommit)
  /\ WF_vars(Pop)
  /\ WF_vars(ReadHeader)
  /\ WF_vars(CopyPayload \/ CopyCrash)

FairSpec == Spec /\ Fairness

-----------------------------------------------------------------------------
(* Properties.                                                             *)

\* The frames waiting in the ring, oldest first.
Queue == [k \in 1 .. Occupancy |-> meta[QueuedSlot(k)]]

\* Every queued slot holds the payload its header describes: neither the
\* producer's unfinished copy nor a lost buffer is ever inside the window.
QueuedIntact ==
  \A k \in 1 .. Occupancy :
    /\ meta[QueuedSlot(k)] \in Frames
    /\ data[QueuedSlot(k)] = meta[QueuedSlot(k)]

\* Frames wait in the order they were pushed, all of them younger than the
\* frame popped last: whatever is dropped, the receiver gets frames in order.
QueueInOrder ==
  \A k \in 1 .. Occupancy :
    /\ popped < Queue[k] /\ Queue[k] < next
    /\ \A j \in 1 .. k - 1 : Queue[j] < Queue[k]

\* Dropping for room leaves no hole: from the oldest waiting frame on, every
\* frame produced is in the ring, unless malloc failed for it.  A hole would
\* cut the reference chain of the P frames behind it.
NoHole ==
  \A f \in Frames :
    (Occupancy > 0 /\ Queue[1] <= f /\ f < next) =>
      f \in Oversized \/ \E k \in 1 .. Occupancy : Queue[k] = f

\* The slot the main thread reads still holds the frame that was popped.
HeldIntact == meta[held] = popped /\ data[held] = popped

\* What ring_pop's pointer is really good for: it stays valid until the
\* pushes begun since the pop use up the slots the pop left free.  With a
\* full ring that is one push.
HeldWithinSlack ==
  held # NoSlot /\ sincePop + backlog < RingSize => HeldIntact

\* The comment above ring_pop: "Returns pointer to internal buffer (valid
\* until next pop)".
HeldUntilNextPop == held # NoSlot => HeldIntact

\* A frame in the ring does not stay there: the signal of its push, without
\* the help of a timeout, is enough to get the main thread to it.
QueuedFrame(f) == \E k \in 1 .. Occupancy : Queue[k] = f
FrameLeaves == \A f \in Frames : QueuedFrame(f) ~> (~QueuedFrame(f) \/ crashed)

\* The ring implements a bounded drop-oldest FIFO of one slot less than the
\* array: a push that finds no room is a DropOldest and then an Accept.
DOQ == INSTANCE DropOldestQueue WITH Capacity <- RingSize - 1, queue <- Queue
Implements == DOQ!Spec
=============================================================================

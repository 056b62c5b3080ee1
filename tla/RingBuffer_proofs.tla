-------------------------- MODULE RingBuffer_proofs --------------------------
(***************************************************************************)
(* Proofs about RingBuffer, for every ring size, every number of frames    *)
(* and every set of oversized frames.                                      *)
(***************************************************************************)
EXTENDS RingBuffer, SequenceTheorems, TLAPS

USE RingAssumption

-----------------------------------------------------------------------------
(* The index arithmetic.                                                   *)

\* The modulo in ring_push and ring_pop is a wrap at the end of the array.
LEMMA SuccWraps ==
  ASSUME NEW i \in Slots
  PROVE  Succ(i) = IF i = RingSize - 1 THEN 0 ELSE i + 1
<1>1. CASE i = RingSize - 1
  <2>1. Succ(i) = RingSize % RingSize
    BY <1>1 DEF Succ, Slots
  <2> QED
    BY <1>1, <2>1
<1>2. CASE i # RingSize - 1
  <2>1. i + 1 \in 0 .. RingSize - 1
    BY <1>2 DEF Slots
  <2>2. (i + 1) % RingSize = i + 1
    BY <2>1
  <2> QED
    BY <1>2, <2>2 DEF Succ
<1> QED
  BY <1>1, <1>2

\* What the wrapped distance is, and how it moves with either end.
LEMMA AheadRange ==
  ASSUME NEW a \in Slots, NEW b \in Slots
  PROVE  /\ Ahead(a, b) \in 0 .. RingSize - 1
         /\ Ahead(a, b) = 0 <=> a = b
  BY DEF Ahead, Slots

\* One slot further is one further ahead, until the ring closes.
LEMMA AheadSucc ==
  ASSUME NEW a \in Slots, NEW b \in Slots
  PROVE  /\ Succ(b) \in Slots
         /\ Succ(b) # b
         /\ Succ(b) # a => Ahead(a, Succ(b)) = Ahead(a, b) + 1
         /\ Succ(b) = a => Ahead(a, b) = RingSize - 1
         /\ a # b => Ahead(Succ(a), b) = Ahead(a, b) - 1
  BY SuccWraps DEF Ahead, Slots

\* Two slots at the same distance are the same.
LEMMA AheadInjective ==
  ASSUME NEW a \in Slots, NEW b \in Slots, NEW c \in Slots,
         Ahead(a, b) = Ahead(a, c)
  PROVE  b = c
  BY DEF Ahead, Slots

\* The queued slots in the order of QueuedSlot are the slots from tail on.
LEMMA QueuedSlotAhead ==
  ASSUME TypeOK, NEW k \in 1 .. Occupancy
  PROVE  /\ QueuedSlot(k) \in Slots
         /\ Ahead(tail, QueuedSlot(k)) = k - 1
         /\ k - 1 < Occupancy
  BY DEF TypeOK, QueuedSlot, Occupancy, Ahead, Slots

-----------------------------------------------------------------------------
(* Type correctness.                                                       *)

\* The main thread reads through its pointer only while it has one.
PointerHeld == pc \in {"popped", "sending"} => held # NoSlot

\* The frame being copied is one of the frames.
CopyingFrame == writing => next \in Frames

TypeInv == TypeOK /\ PointerHeld /\ CopyingFrame

\* The ring starts well typed.
LEMMA TypeInit == Init => TypeInv
<1> SUFFICES ASSUME Init PROVE TypeInv
  OBVIOUS
<1>1. head \in Slots /\ tail \in Slots
  BY DEF Init, Slots
<1>2. /\ data \in [Slots -> Frames \cup {Fresh, Torn, NoBuffer}]
      /\ meta \in [Slots -> Frames \cup {Fresh}]
  BY DEF Init
<1>3. next \in 1 .. MaxFrames + 1 /\ backlog \in Nat /\ sincePop \in Nat
  BY DEF Init
<1> QED
  BY <1>1, <1>2, <1>3 DEF Init, TypeInv, TypeOK, PointerHeld, CopyingFrame, MainPC

\* The head stays in the ring.
LEMMA MakeRoomInSlots ==
  ASSUME TypeOK
  PROVE  MakeRoom \in Slots
  BY AheadSucc DEF TypeOK, MakeRoom

\* Every step keeps the types.
LEMMA TypeNext == TypeInv /\ [Next]_vars => TypeInv'
<1> SUFFICES ASSUME TypeInv, [Next]_vars
             PROVE  TypeInv'
  OBVIOUS
<1> USE DEF TypeInv, TypeOK, PointerHeld, CopyingFrame
<1>0. MakeRoom \in Slots /\ Succ(head) \in Slots /\ Succ(tail) \in Slots
  BY MakeRoomInSlots, AheadSucc
<1>1. CASE PushBegin
  <2>1. data' \in [Slots -> Frames \cup {Fresh, Torn, NoBuffer}] /\ sincePop' \in Nat
    BY <1>1 DEF PushBegin
  <2>2. next \in Frames
    BY <1>1 DEF PushBegin, CanPush, Frames
  <2> QED
    BY <1>0, <1>1, <2>1, <2>2 DEF PushBegin
<1>2. CASE PushCommit
  <2>1. /\ data' \in [Slots -> Frames \cup {Fresh, Torn, NoBuffer}]
        /\ meta' \in [Slots -> Frames \cup {Fresh}]
    BY <1>2 DEF PushCommit
  <2>2. next' \in 1 .. MaxFrames + 1
    BY <1>2 DEF PushCommit, Frames
  <2>3. pc' \in MainPC /\ (pc' \in {"popped", "sending"} => held' # NoSlot)
    BY <1>2 DEF PushCommit, MainPC
  <2> QED
    BY <1>0, <1>2, <2>1, <2>2, <2>3 DEF PushCommit
<1>3. CASE PushNoMemory
  <2>1. data' \in [Slots -> Frames \cup {Fresh, Torn, NoBuffer}] /\ sincePop' \in Nat
    BY <1>3 DEF PushNoMemory
  <2>2. next' \in 1 .. MaxFrames + 1
    BY <1>3 DEF PushNoMemory, CanPush
  <2>3. ~writing /\ UNCHANGED <<head, meta, writing, pc, held, popped, backlog, header, crashed>>
    BY <1>3 DEF PushNoMemory, CanPush
  <2>4. tail' \in Slots
    BY <1>0, <1>3 DEF PushNoMemory
  <2> QED
    BY <2>1, <2>2, <2>3, <2>4
<1>4. CASE PushCrash \/ CopyCrash
  <2>1. crashed' = TRUE /\ UNCHANGED <<ringVars, mainVars>>
    BY <1>4 DEF PushCrash, CopyCrash
  <2> QED
    BY <2>1 DEF ringVars, mainVars
<1>5. CASE Pop
  <2>1. Occupancy \in Nat /\ Occupancy # 0
    BY <1>5, AheadRange DEF Pop, Empty, Occupancy
  <2>2. backlog' \in Nat /\ sincePop' \in Nat
    BY <1>5, <2>1 DEF Pop
  <2>3. popped' \in Frames \cup {0} /\ held' \in Slots /\ held' # NoSlot
    BY <1>5 DEF Pop, Slots, NoSlot, Fresh
  <2> QED
    BY <1>0, <1>5, <2>2, <2>3 DEF Pop, MainPC
<1>6. CASE PopWait \/ SpuriousWakeup \/ PopTimeout
  BY <1>6 DEF PopWait, SpuriousWakeup, PopTimeout, ringVars, MainPC
<1>7. CASE ReadHeader
  BY <1>7 DEF ReadHeader, ringVars, MainPC
<1>8. CASE CopyPayload
  BY <1>8 DEF CopyPayload, ringVars, MainPC
<1>9. CASE Flush
  BY <1>9 DEF Flush, mainVars
<1>10. CASE UNCHANGED vars
  BY <1>10 DEF vars, ringVars, mainVars
<1> QED
  BY <1>1, <1>2, <1>3, <1>4, <1>5, <1>6, <1>7, <1>8, <1>9, <1>10
     DEF Next, Push, Consume

\* Type correctness: indices stay inside the array, and what the slots, the
\* pointer and the header hold are frames or one of the named marks.
THEOREM TypeCorrect == Spec => []TypeOK
<1>1. Spec => []TypeInv
  BY TypeInit, TypeNext, PTL DEF Spec
<1> QED
  BY <1>1, PTL DEF TypeInv

-----------------------------------------------------------------------------
(* The window of queued slots.                                             *)

\* Slot i is one of those from t up to, but not including, h.
Between(t, h, i) == Ahead(t, i) < Ahead(t, h)

Queued(i) == Between(tail, head, i)

\* Dropping or taking the oldest slot removes that slot and no other.
LEMMA WindowShrinks ==
  ASSUME NEW t \in Slots, NEW h \in Slots, NEW i \in Slots, t # h
  PROVE  Between(Succ(t), h, i) <=> (Between(t, h, i) /\ i # t)
  BY SuccWraps DEF Between, Ahead, Slots

\* Publishing the slot at head adds that slot and no other.
LEMMA WindowGrows ==
  ASSUME NEW t \in Slots, NEW h \in Slots, NEW i \in Slots, Succ(h) # t
  PROVE  Between(t, Succ(h), i) <=> (Between(t, h, i) \/ i = h)
  BY SuccWraps DEF Between, Ahead, Slots

\* Head is outside the window; an empty window holds nothing.
LEMMA WindowEnds ==
  ASSUME NEW t \in Slots, NEW h \in Slots, NEW i \in Slots
  PROVE  /\ ~Between(t, h, h)
         /\ ~Between(h, h, i)
         /\ t # h => Between(t, h, t)
  BY DEF Between, Ahead, Slots

\* After ring_push has made room, head has a free slot behind it, and the
\* window has lost at most its oldest slot.
LEMMA MakeRoomWindow ==
  ASSUME TypeOK, NEW i \in Slots, Between(MakeRoom, head, i)
  PROVE  Queued(i)
<1>1. head \in Slots /\ tail \in Slots
  BY DEF TypeOK
<1>2. CASE Succ(head) = tail
  <2>1. tail # head /\ MakeRoom = Succ(tail)
    BY <1>1, <1>2, AheadSucc DEF MakeRoom
  <2> QED
    BY <1>1, <2>1, WindowShrinks DEF Queued
<1>3. CASE Succ(head) # tail
  BY <1>3 DEF MakeRoom, Queued
<1> QED
  BY <1>2, <1>3

\* After MakeRoom there is a free slot.
LEMMA MakeRoomFrees ==
  ASSUME TypeOK
  PROVE  Succ(head) # MakeRoom
  BY AheadSucc DEF TypeOK, MakeRoom

\* The producer writes to a slot that is free and stays free; every queued
\* slot holds the payload its header describes.
RoomToWrite == writing => Succ(head) # tail

SlotsIntact == \A i \in Slots : Queued(i) => meta[i] \in Frames /\ data[i] = meta[i]

IntactInv == RoomToWrite /\ SlotsIntact

\* An empty ring is intact.
LEMMA IntactInit == Init => IntactInv
<1> SUFFICES ASSUME Init PROVE IntactInv
  OBVIOUS
<1>1. \A i \in Slots : ~Queued(i)
  BY TypeInit, WindowEnds DEF Init, TypeInv, TypeOK, Queued
<1> QED
  BY <1>1 DEF Init, IntactInv, RoomToWrite, SlotsIntact

\* Making room and spoiling the slot at head leaves the window intact.
LEMMA IntactSpoiled ==
  ASSUME TypeOK, IntactInv, tail' = MakeRoom, NEW v, data' = [data EXCEPT ![head] = v],
         UNCHANGED <<head, meta>>
  PROVE  SlotsIntact'
<1> SUFFICES ASSUME NEW i \in Slots, Queued(i)'
             PROVE  meta'[i] \in Frames /\ data'[i] = meta'[i]
  BY DEF SlotsIntact
<1>1. Between(MakeRoom, head, i)
  BY DEF Queued, Between, Ahead
<1>2. i # head
  BY <1>1, MakeRoomInSlots, WindowEnds DEF TypeOK
<1> QED
  BY <1>1, <1>2, MakeRoomWindow DEF IntactInv, SlotsIntact, TypeOK

\* Every step keeps the queued slots intact.
LEMMA IntactNext == TypeInv /\ IntactInv /\ [Next]_vars => IntactInv'
<1> SUFFICES ASSUME TypeInv, IntactInv, [Next]_vars
             PROVE  IntactInv'
  OBVIOUS
<1>t. TypeOK /\ head \in Slots /\ tail \in Slots
  BY DEF TypeInv, TypeOK
<1>1. CASE PushBegin
  BY <1>t, <1>1, IntactSpoiled, MakeRoomFrees DEF PushBegin, IntactInv, RoomToWrite, Succ
<1>2. CASE PushCommit
  <2>1. ASSUME NEW i \in Slots, Queued(i)'
        PROVE  meta'[i] \in Frames /\ data'[i] = meta'[i]
    <3>1. Between(tail, Succ(head), i)
      BY <1>2, <2>1 DEF PushCommit, Queued, Between, Ahead
    <3>2. Queued(i) \/ i = head
      BY <1>t, <1>2, <3>1, WindowGrows DEF PushCommit, IntactInv, RoomToWrite, Queued
    <3> QED
      BY <1>2, <3>2 DEF PushCommit, IntactInv, SlotsIntact, TypeInv, TypeOK, CopyingFrame
  <2> QED
    BY <1>2, <2>1 DEF PushCommit, IntactInv, RoomToWrite, SlotsIntact
<1>3. CASE PushNoMemory
  BY <1>t, <1>3, IntactSpoiled DEF PushNoMemory, CanPush, IntactInv, RoomToWrite
<1>4. CASE Pop
  <2>1. ASSUME NEW i \in Slots, Queued(i)'
        PROVE  Queued(i)
    BY <1>t, <1>4, <2>1, WindowShrinks DEF Pop, Empty, Queued, Between, Ahead
  <2> QED
    BY <1>4, <2>1 DEF Pop, IntactInv, RoomToWrite, SlotsIntact
<1>5. CASE Flush
  <2>1. ASSUME NEW i \in Slots PROVE ~Queued(i)'
    BY <1>t, <1>5, WindowEnds DEF Flush, Queued, Between, Ahead
  <2> QED
    BY <1>5, <2>1 DEF Flush, IntactInv, RoomToWrite, SlotsIntact
<1>6. CASE UNCHANGED ringVars
  BY <1>6 DEF ringVars, IntactInv, RoomToWrite, SlotsIntact, Queued, Between, Ahead
<1> QED
  BY <1>1, <1>2, <1>3, <1>4, <1>5, <1>6
     DEF Next, Push, Consume, PushCrash, PopWait, SpuriousWakeup, PopTimeout, ReadHeader,
         CopyPayload, CopyCrash, vars

\* No frame that waits in the ring is a half-copied one, one whose buffer was
\* lost, or one described by another frame's header.
THEOREM QueueIntact == Spec => []QueuedIntact
<1>1. Spec => [](TypeInv /\ IntactInv)
  BY TypeInit, TypeNext, IntactInit, IntactNext, PTL DEF Spec
<1>2. TypeInv /\ IntactInv => QueuedIntact
  BY QueuedSlotAhead
     DEF TypeInv, IntactInv, SlotsIntact, QueuedIntact, Queued, Between, Occupancy
<1> QED
  BY <1>1, <1>2, PTL

-----------------------------------------------------------------------------
(* The slot the main thread reads.                                         *)

\* Pushes begun since the pop that are over, and how far head is behind the
\* held slot: head has to come round to it before it is written again.
Over == IF writing THEN sincePop - 1 ELSE sincePop
Lead == IF head = held THEN RingSize ELSE Ahead(held, head)

\* A pop leaves head backlog + 1 slots ahead of the held slot, each push that
\* is over moves it by at most one, and until it comes round the slot is as
\* it was popped.
HeldInv ==
  held # NoSlot /\ sincePop + backlog < RingSize =>
    Lead <= 1 + backlog + Over /\ HeldIntact

\* At the start nothing is held.
LEMMA HeldInit == Init => HeldInv
  BY DEF Init, HeldInv

\* A push that begins, or fails for want of memory, within the slack finds
\* head elsewhere than at the held slot.
LEMMA HeldSpared ==
  ASSUME TypeInv, HeldInv, ~writing, held # NoSlot, sincePop + 1 + backlog < RingSize
  PROVE  /\ head # held
         /\ Lead <= 1 + backlog + sincePop
         /\ HeldIntact
<1>1. Lead <= 1 + backlog + sincePop /\ HeldIntact
  BY DEF TypeInv, TypeOK, HeldInv, Over
<1> QED
  BY <1>1 DEF TypeInv, TypeOK, Lead

\* Every step keeps count of the held slot's slack.
LEMMA HeldNext == TypeInv /\ IntactInv /\ HeldInv /\ [Next]_vars => HeldInv'
<1> SUFFICES ASSUME TypeInv, IntactInv, HeldInv, [Next]_vars,
                    (held # NoSlot)', (sincePop + backlog < RingSize)'
             PROVE  (Lead <= 1 + backlog + Over /\ HeldIntact)'
  BY DEF HeldInv
<1>t. /\ TypeOK /\ head \in Slots /\ tail \in Slots /\ held \in Slots \cup {NoSlot}
      /\ backlog \in Nat /\ sincePop \in Nat
  BY DEF TypeInv, TypeOK
<1>1. CASE PushBegin \/ PushNoMemory
  <2>1. /\ ~writing /\ UNCHANGED <<head, meta, held, popped, backlog>>
        /\ held # NoSlot /\ sincePop' = sincePop + 1
        /\ \E v : data' = [data EXCEPT ![head] = v]
    BY <1>1 DEF PushBegin, PushNoMemory, CanPush
  <2>2. /\ head # held /\ Lead <= 1 + backlog + sincePop /\ HeldIntact
    BY <1>t, <2>1, HeldSpared
  <2>3. HeldIntact'
    BY <1>t, <2>1, <2>2 DEF HeldIntact, TypeOK
  <2>4. Lead' = Lead /\ Lead \in Nat
    BY <1>t, <2>1, AheadRange DEF Lead, Ahead
  <2>5. Over' = sincePop \/ Over' = sincePop + 1
    BY <1>t, <2>1 DEF Over
  <2>6. PICK over \in Nat : Over' = over /\ sincePop <= over
    BY <1>t, <2>5
  <2>7. Lead <= 1 + backlog + over
    BY <1>t, <2>2, <2>4, <2>6
  <2> QED
    BY <2>1, <2>3, <2>4, <2>6, <2>7
<1>2. CASE PushCommit
  <2>1. /\ writing /\ ~writing' /\ UNCHANGED <<held, popped, backlog, sincePop>>
        /\ held \in Slots /\ head' = Succ(head) /\ Succ(head) \in Slots
    BY <1>t, <1>2, AheadSucc DEF PushCommit
  <2>2. Lead <= backlog + sincePop /\ HeldIntact
    BY <1>t, <2>1 DEF HeldInv, Over
  <2>3. head # held
    BY <1>t, <2>1, <2>2 DEF Lead
  <2>4. HeldIntact'
    BY <1>t, <1>2, <2>1, <2>2, <2>3 DEF PushCommit, HeldIntact, TypeOK
  <2>5. Lead' <= Lead + 1
    BY <1>t, <2>1, <2>3, AheadSucc, AheadRange DEF Lead, Ahead
  <2>6. Lead \in Nat /\ Lead' \in Nat /\ Over' = sincePop
    BY <1>t, <2>1, AheadRange DEF Lead, Ahead, Over
  <2> QED
    BY <1>t, <2>1, <2>2, <2>4, <2>5, <2>6
<1>3. CASE Pop
  <2>1. /\ ~writing /\ ~writing' /\ head # tail /\ UNCHANGED <<head, data, meta>>
        /\ held' = tail /\ popped' = meta[tail] /\ backlog' = Occupancy - 1 /\ sincePop' = 0
    BY <1>3 DEF Pop, Empty
  <2>2. data[tail] = meta[tail]
    BY <1>t, <2>1, WindowEnds DEF IntactInv, SlotsIntact, Queued
  <2>3. Lead' = Occupancy /\ Over' = 0 /\ Occupancy \in Nat
    BY <1>t, <2>1, AheadRange DEF Lead, Ahead, Over, Occupancy
  <2> QED
    BY <2>1, <2>2, <2>3 DEF HeldIntact
<1>4. CASE CopyPayload
  BY <1>4 DEF CopyPayload
<1>5. CASE UNCHANGED <<head, data, meta, writing, held, popped, backlog, sincePop>>
  BY <1>5 DEF HeldInv, Lead, Over, HeldIntact, Ahead
<1> QED
  BY <1>1, <1>2, <1>3, <1>4, <1>5
     DEF Next, Push, Consume, PushCrash, PopWait, SpuriousWakeup, PopTimeout, ReadHeader,
         CopyCrash, Flush, ringVars, mainVars, vars

\* What "valid until next pop" above ring_pop really amounts to: the popped
\* slot keeps header and payload until the pushes begun since use up the
\* slots that were free, RingSize less the backlog left by the pop.
THEOREM HeldSlotSlack == Spec => []HeldWithinSlack
<1>1. Spec => [](TypeInv /\ IntactInv /\ HeldInv)
  BY TypeInit, TypeNext, IntactInit, IntactNext, HeldInit, HeldNext, PTL DEF Spec
<1> QED
  BY <1>1, PTL DEF HeldInv, HeldWithinSlack

-----------------------------------------------------------------------------
(* The order of the queued frames, and that none is missing.               *)

\* From the oldest slot to the newest, frame numbers grow; all of them are
\* above the frame popped last and below the frame to come.
Young == popped < next /\ \A i \in Slots : Queued(i) => popped < meta[i] /\ meta[i] < next
Ordered ==
  \A i, j \in Slots : Queued(i) /\ Ahead(tail, j) < Ahead(tail, i) => meta[j] < meta[i]

\* Every frame between a queued one and the next to come is queued, unless it
\* is one that malloc can fail for.
Gapless ==
  \A i \in Slots, f \in Frames :
    Queued(i) /\ meta[i] <= f /\ f < next =>
      f \in Oversized \/ \E j \in Slots : Queued(j) /\ meta[j] = f

OrderInv == Young /\ Ordered /\ Gapless

\* An empty ring is in order.
LEMMA OrderInit == Init => OrderInv
<1> SUFFICES ASSUME Init PROVE OrderInv
  OBVIOUS
<1>1. \A i \in Slots : ~Queued(i)
  BY TypeInit, WindowEnds DEF Init, TypeInv, TypeOK, Queued
<1> QED
  BY <1>1 DEF Init, OrderInv, Young, Ordered, Gapless

\* The oldest slot leaves, by a pop or a drop: what remains is in order, is
\* younger, and lacks no frame it did not lack before.
LEMMA OldestLeaves ==
  ASSUME TypeInv, IntactInv, OrderInv, tail # head, tail' = Succ(tail),
         UNCHANGED <<head, meta>>
  PROVE  /\ Queued(tail) /\ Ordered'
         /\ \A i \in Slots : Queued(i)' => Queued(i) /\ meta[tail] < meta[i]
         /\ \A i \in Slots, f \in Frames :
              Queued(i)' /\ meta[i] <= f /\ f < next =>
                f \in Oversized \/ \E j \in Slots : Queued(j)' /\ meta[j] = f
<1>t. TypeOK /\ head \in Slots /\ tail \in Slots
  BY DEF TypeInv, TypeOK
<1>0. Queued(tail) /\ Ahead(tail, tail) = 0 /\ meta[tail] \in Frames
  BY <1>t, WindowEnds, AheadRange DEF Queued, IntactInv, SlotsIntact
<1>1. \A i \in Slots : Queued(i)' <=> Queued(i) /\ i # tail
  BY <1>t, WindowShrinks DEF Queued, Between, Ahead
<1>2. ASSUME NEW i \in Slots, Queued(i), i # tail
      PROVE  meta[tail] < meta[i]
  <2>1. Ahead(tail, i) \in Nat /\ Ahead(tail, i) # 0
    BY <1>t, <1>2, AheadRange
  <2> QED
    BY <1>t, <1>0, <1>2, <2>1 DEF OrderInv, Ordered
<1>3. ASSUME NEW i \in Slots, NEW j \in Slots, Queued(i)', Ahead(tail', j) < Ahead(tail', i)
      PROVE  meta[j] < meta[i]
  <2>1. Queued(i) /\ i # tail
    BY <1>1, <1>3
  <2>2. CASE j = tail
    BY <1>2, <2>1, <2>2
  <2>3. CASE j # tail
    <3>1. Ahead(tail, j) < Ahead(tail, i)
      BY <1>t, <1>3, <2>1, <2>3, AheadSucc, AheadRange
    <3> QED
      BY <2>1, <3>1 DEF OrderInv, Ordered
  <2> QED
    BY <2>2, <2>3
<1>4. ASSUME NEW i \in Slots, NEW f \in Frames, Queued(i)', meta[i] <= f, f < next,
             f \notin Oversized
      PROVE  \E j \in Slots : Queued(j)' /\ meta[j] = f
  <2>1. Queued(i) /\ i # tail
    BY <1>1, <1>4
  <2>2. PICK j \in Slots : Queued(j) /\ meta[j] = f
    BY <1>4, <2>1 DEF OrderInv, Gapless
  <2>3. j # tail
    BY <1>0, <1>2, <1>4, <2>1, <2>2 DEF IntactInv, SlotsIntact, Frames
  <2> QED
    BY <1>1, <2>2, <2>3
<1>5. Ordered'
  BY <1>3 DEF Ordered, Ahead
<1> QED
  BY <1>0, <1>1, <1>2, <1>4, <1>5

\* Making room for a push takes the oldest slot of a full ring, or nothing.
LEMMA RoomMade ==
  ASSUME TypeInv, IntactInv, OrderInv, tail' = MakeRoom, UNCHANGED <<head, meta>>
  PROVE  /\ Ordered'
         /\ \A i \in Slots : Queued(i)' => Queued(i)
         /\ \A i \in Slots, f \in Frames :
              Queued(i)' /\ meta[i] <= f /\ f < next =>
                f \in Oversized \/ \E j \in Slots : Queued(j)' /\ meta[j] = f
<1>1. CASE Succ(head) = tail
  <2>1. tail # head /\ tail' = Succ(tail)
    BY <1>1, AheadSucc DEF MakeRoom, TypeInv, TypeOK
  <2> QED
    BY <2>1, OldestLeaves
<1>2. CASE Succ(head) # tail
  BY <1>2 DEF MakeRoom, OrderInv, Ordered, Gapless, Queued, Between, Ahead
<1> QED
  BY <1>1, <1>2

\* Every step keeps the order.
LEMMA OrderNext == TypeInv /\ IntactInv /\ OrderInv /\ [Next]_vars => OrderInv'
<1> SUFFICES ASSUME TypeInv, IntactInv, OrderInv, [Next]_vars
             PROVE  OrderInv'
  OBVIOUS
<1>t. /\ TypeOK /\ head \in Slots /\ tail \in Slots
      /\ next \in 1 .. MaxFrames + 1 /\ popped \in Frames \cup {0}
      /\ meta \in [Slots -> Frames \cup {Fresh}]
  BY DEF TypeInv, TypeOK
<1>i. \A i \in Slots : Queued(i) => meta[i] \in Frames /\ popped < meta[i] /\ meta[i] < next
  BY DEF IntactInv, SlotsIntact, OrderInv, Young
<1>1. CASE PushBegin
  BY <1>1, RoomMade DEF PushBegin, OrderInv, Young, Gapless
<1>2. CASE PushNoMemory
  <2>1. next' = next + 1 /\ next \in Oversized /\ tail' = MakeRoom
        /\ UNCHANGED <<head, meta, popped>>
    BY <1>2 DEF PushNoMemory
  <2>2. Young'
    BY <1>t, <1>i, <2>1, RoomMade DEF OrderInv, Young, Frames
  <2>3. Gapless'
    BY <1>t, <2>1, RoomMade DEF Gapless, Frames
  <2> QED
    BY <2>1, <2>2, <2>3, RoomMade DEF OrderInv
<1>3. CASE PushCommit
  <2>1. /\ head' = Succ(head) /\ Succ(head) # tail /\ tail' = tail /\ popped' = popped
        /\ next' = next + 1 /\ next \in Frames
        /\ meta' = [meta EXCEPT ![head] = next]
    BY <1>3 DEF PushCommit, IntactInv, RoomToWrite, TypeInv, CopyingFrame
  <2>2. \A i \in Slots : Queued(i)' <=> Queued(i) \/ i = head
    BY <1>t, <2>1, WindowGrows DEF Queued, Between, Ahead
  <2>3. ~Queued(head)
    BY <1>t, WindowEnds DEF Queued
  <2>4. meta'[head] = next /\ \A i \in Slots : Queued(i) => meta'[i] = meta[i]
    BY <1>t, <2>1, <2>3
  <2>5. Young'
    BY <1>t, <1>i, <2>1, <2>2, <2>4 DEF OrderInv, Young, Frames
  <2>6. ASSUME NEW i \in Slots, NEW j \in Slots, Queued(i)', Ahead(tail, j) < Ahead(tail, i)
        PROVE  meta'[j] < meta'[i]
    <3>1. Queued(i) \/ i = head
      BY <2>2, <2>6
    <3>2. Queued(j)
      BY <1>t, <2>6, <3>1, AheadRange DEF Queued, Between
    <3>3. CASE Queued(i)
      BY <2>4, <2>6, <3>2, <3>3 DEF OrderInv, Ordered
    <3>4. CASE i = head
      BY <1>i, <2>4, <3>2, <3>4
    <3> QED
      BY <3>1, <3>3, <3>4
  <2>7. ASSUME NEW i \in Slots, NEW f \in Frames, Queued(i)', meta'[i] <= f, f < next + 1,
               f \notin Oversized
        PROVE  \E j \in Slots : Queued(j)' /\ meta'[j] = f
    <3>1. CASE f = next
      BY <1>t, <2>2, <2>4, <3>1
    <3>2. CASE f # next
      <4>1. f < next /\ i # head
        BY <1>t, <2>4, <2>7, <3>2 DEF Frames
      <4>2. PICK j \in Slots : Queued(j) /\ meta[j] = f
        BY <2>2, <2>4, <2>7, <4>1 DEF OrderInv, Gapless
      <4> QED
        BY <2>2, <2>4, <4>2
    <3> QED
      BY <3>1, <3>2
  <2>8. Ordered' /\ Gapless'
    BY <2>1, <2>6, <2>7 DEF Ordered, Gapless, Ahead
  <2> QED
    BY <2>5, <2>8 DEF OrderInv
<1>4. CASE Pop
  <2>1. /\ tail # head /\ tail' = Succ(tail) /\ popped' = meta[tail]
        /\ UNCHANGED <<head, meta, next>>
    BY <1>4 DEF Pop, Empty
  <2>2. Young'
    BY <1>i, <1>t, <2>1, OldestLeaves DEF Young
  <2> QED
    BY <2>1, <2>2, OldestLeaves DEF OrderInv, Gapless
<1>5. CASE Flush
  <2>1. \A i \in Slots : ~Queued(i)'
    BY <1>t, <1>5, WindowEnds DEF Flush, Queued, Between, Ahead
  <2> QED
    BY <1>5, <2>1 DEF Flush, mainVars, OrderInv, Young, Ordered, Gapless
<1>6. CASE UNCHANGED <<head, tail, meta, next, popped>>
  BY <1>6 DEF OrderInv, Young, Ordered, Gapless, Queued, Between, Ahead
<1> QED
  BY <1>1, <1>2, <1>3, <1>4, <1>5, <1>6
     DEF Next, Push, Consume, PushCrash, PopWait, SpuriousWakeup, PopTimeout, ReadHeader,
         CopyPayload, CopyCrash, ringVars, mainVars, vars

\* The invariants hold of every behaviour.
LEMMA OrderAlways == Spec => [](TypeInv /\ IntactInv /\ OrderInv)
  BY TypeInit, TypeNext, IntactInit, IntactNext, OrderInit, OrderNext, PTL DEF Spec

\* Whatever is dropped, popped or flushed, the main thread gets frames in the
\* order the capture thread pushed them, and none twice.
THEOREM RingOrder == Spec => []QueueInOrder
<1>1. TypeInv /\ IntactInv /\ OrderInv => QueueInOrder
  <2> SUFFICES ASSUME TypeInv, IntactInv, OrderInv, NEW k \in 1 .. Occupancy
               PROVE  /\ popped < Queue[k] /\ Queue[k] < next
                      /\ \A j \in 1 .. k - 1 : Queue[j] < Queue[k]
    BY DEF QueueInOrder
  <2>t. TypeOK /\ Occupancy \in Nat
    BY AheadRange DEF TypeInv, TypeOK, Occupancy
  <2>1. \A j \in 1 .. Occupancy : /\ QueuedSlot(j) \in Slots /\ Queue[j] = meta[QueuedSlot(j)]
                                  /\ Ahead(tail, QueuedSlot(j)) = j - 1
                                  /\ Queued(QueuedSlot(j))
    BY <2>t, QueuedSlotAhead DEF Queue, Queued, Between, Occupancy
  <2>2. popped < Queue[k] /\ Queue[k] < next
    BY <2>1 DEF OrderInv, Young
  <2>3. ASSUME NEW j \in 1 .. k - 1
        PROVE  Queue[j] < Queue[k]
    <3>1. j \in 1 .. Occupancy /\ j - 1 < k - 1
      BY <2>t
    <3> QED
      BY <2>1, <3>1 DEF OrderInv, Ordered
  <2> QED
    BY <2>2, <2>3
<1> QED
  BY <1>1, OrderAlways, PTL

\* Room is made at the old end only: behind the oldest waiting frame nothing
\* is missing but frames malloc failed for.
THEOREM RingNoHole == Spec => []NoHole
<1>1. TypeInv /\ IntactInv /\ OrderInv => NoHole
  <2> SUFFICES ASSUME TypeInv, IntactInv, OrderInv, NEW f \in Frames,
                      Occupancy > 0, Queue[1] <= f, f < next, f \notin Oversized
               PROVE  \E k \in 1 .. Occupancy : Queue[k] = f
    BY DEF NoHole
  <2>t. TypeOK /\ head \in Slots /\ tail \in Slots /\ Occupancy \in Nat
    BY AheadRange DEF TypeInv, TypeOK, Occupancy
  <2>1. Queue[1] = meta[tail] /\ Queued(tail)
    <3>1. QueuedSlot(1) = tail
      BY <2>t DEF QueuedSlot, Slots
    <3>2. tail # head
      BY <2>t, AheadRange DEF Occupancy
    <3> QED
      BY <2>t, <3>1, <3>2, WindowEnds DEF Queue, Queued
  <2>2. PICK i \in Slots : Queued(i) /\ meta[i] = f
    BY <2>t, <2>1 DEF OrderInv, Gapless
  <2>3. Ahead(tail, i) + 1 \in 1 .. Occupancy
    BY <2>t, <2>2, AheadRange DEF Queued, Between, Occupancy
  <2>4. QueuedSlot(Ahead(tail, i) + 1) = i
    BY <2>t DEF QueuedSlot, Ahead, Slots
  <2> QED
    BY <2>2, <2>3, <2>4 DEF Queue
<1> QED
  BY <1>1, OrderAlways, PTL

-----------------------------------------------------------------------------
(* The ring implements the drop-oldest FIFO.                               *)

QueueFact ==
  /\ Queue \in Seq(Frames) /\ Len(Queue) = Occupancy /\ Occupancy \in Nat
  /\ \A k \in 1 .. Occupancy : Queue[k] = meta[QueuedSlot(k)]

\* The queued frames form a sequence, given by head and tail.
LEMMA QueueIsSeq == TypeInv /\ IntactInv => QueueFact
<1> SUFFICES ASSUME TypeInv, IntactInv PROVE QueueFact
  OBVIOUS
<1>1. Occupancy \in Nat
  BY AheadRange DEF TypeInv, TypeOK, Occupancy
<1>2. \A k \in 1 .. Occupancy : meta[QueuedSlot(k)] \in Frames
  BY QueuedSlotAhead DEF TypeInv, IntactInv, SlotsIntact, Queued, Between, Occupancy
<1>3. Queue \in [1 .. Occupancy -> Frames]
  BY <1>2 DEF Queue
<1> QED
  BY <1>1, <1>3 DEF Queue, QueueFact

\* The oldest slot leaves: the queue loses its head.
LEMMA QueueLosesHead ==
  ASSUME TypeInv, QueueFact, QueueFact', tail # head, tail' = Succ(tail),
         UNCHANGED <<head, meta>>
  PROVE  Queue # << >> /\ Head(Queue) = meta[tail] /\ Queue' = Tail(Queue)
<1>t. head \in Slots /\ tail \in Slots /\ RingSize \in Nat
  BY DEF TypeInv, TypeOK
<1>1. Occupancy # 0 /\ Occupancy' = Occupancy - 1
  BY <1>t, AheadSucc, AheadRange DEF Occupancy, Ahead
<1>2. QueuedSlot(1) = tail
  BY <1>t DEF QueuedSlot, Slots
<1>3. ASSUME NEW k \in 1 .. Occupancy - 1
      PROVE  QueuedSlot(k)' = QueuedSlot(k + 1)
  <2>1. tail' = IF tail = RingSize - 1 THEN 0 ELSE tail + 1
    BY <1>t, SuccWraps
  <2>2. k \in Nat /\ k < RingSize
    BY <1>t, <1>1, AheadRange DEF Occupancy
  <2> QED
    BY <1>t, <2>1, <2>2 DEF QueuedSlot, Slots
<1>4. Queue # << >> /\ Head(Queue) = meta[tail]
  BY <1>1, <1>2 DEF QueueFact
<1>5. Tail(Queue) \in Seq(Frames) /\ Len(Tail(Queue)) = Occupancy - 1
      /\ \A k \in 1 .. Occupancy - 1 : Tail(Queue)[k] = Queue[k + 1]
  BY <1>1, <1>4 DEF QueueFact
<1>6. Queue' \in Seq(Frames) /\ Len(Queue') = Occupancy - 1
  BY <1>1 DEF QueueFact
<1>7. \A k \in 1 .. Occupancy - 1 : Queue'[k] = Tail(Queue)[k]
  BY <1>1, <1>3, <1>5 DEF QueueFact
<1> QED
  BY <1>1, <1>4, <1>5, <1>6, <1>7, SeqEqual

\* A frame is published: the queue gains it at its end.
LEMMA QueueGainsLast ==
  ASSUME TypeInv, QueueFact, QueueFact', Succ(head) # tail, head' = Succ(head),
         next \in Frames, meta' = [meta EXCEPT ![head] = next], tail' = tail
  PROVE  Len(Queue) < RingSize - 1 /\ Queue' = Append(Queue, next)
<1>t. /\ head \in Slots /\ tail \in Slots /\ RingSize \in Nat
      /\ meta \in [Slots -> Frames \cup {Fresh}]
  BY DEF TypeInv, TypeOK
<1>1. Occupancy' = Occupancy + 1 /\ Occupancy < RingSize - 1
  <2>1. head' = IF head = RingSize - 1 THEN 0 ELSE head + 1
    BY <1>t, SuccWraps
  <2> QED
    BY <1>t, <2>1 DEF Occupancy, Ahead, Slots
<1>2. \A k \in 1 .. Occupancy : QueuedSlot(k) \in Slots /\ QueuedSlot(k) # head
  <2>1. ASSUME NEW k \in 1 .. Occupancy
        PROVE  QueuedSlot(k) \in Slots /\ QueuedSlot(k) # head
    <3>1. QueuedSlot(k) \in Slots /\ Ahead(tail, QueuedSlot(k)) < Occupancy
      BY QueuedSlotAhead DEF TypeInv
    <3> QED
      BY <1>t, <3>1, AheadRange DEF Occupancy
  <2> QED
    BY <2>1
<1>3. QueuedSlot(Occupancy + 1) = head
  BY <1>t DEF QueuedSlot, Occupancy, Ahead, Slots
<1>4. \A k \in 1 .. Occupancy + 1 : QueuedSlot(k)' = QueuedSlot(k)
  BY DEF QueuedSlot
<1>5. Append(Queue, next) \in Seq(Frames) /\ Len(Append(Queue, next)) = Occupancy + 1
  BY DEF QueueFact
<1>6. \A k \in 1 .. Occupancy + 1 : Queue'[k] = Append(Queue, next)[k]
  <2>1. ASSUME NEW k \in 1 .. Occupancy + 1
        PROVE  Queue'[k] = Append(Queue, next)[k]
    <3>1. Queue'[k] = meta'[QueuedSlot(k)]
      BY <1>1, <1>4 DEF QueueFact
    <3>2. CASE k = Occupancy + 1
      BY <1>3, <1>t, <3>1, <3>2 DEF QueueFact
    <3>3. CASE k # Occupancy + 1
      <4>1. k \in 1 .. Occupancy
        BY <3>3 DEF QueueFact
      <4> QED
        BY <1>2, <1>t, <3>1, <4>1 DEF QueueFact
    <3> QED
      BY <3>2, <3>3
  <2> QED
    BY <2>1
<1>7. Queue' \in Seq(Frames) /\ Len(Queue') = Occupancy + 1
  BY <1>1 DEF QueueFact
<1> QED
  BY <1>1, <1>5, <1>6, <1>7, SeqEqual DEF QueueFact

\* Making room for a push costs a full queue its head, and no other anything.
LEMMA QueueMadeRoom ==
  ASSUME TypeInv, QueueFact, QueueFact', tail' = MakeRoom, UNCHANGED <<head, meta>>
  PROVE  Queue' = IF Len(Queue) = RingSize - 1 THEN Tail(Queue) ELSE Queue
<1>t. head \in Slots /\ tail \in Slots /\ Len(Queue) = Occupancy
  BY DEF TypeInv, TypeOK, QueueFact
<1>1. CASE Succ(head) = tail
  <2>1. tail # head /\ tail' = Succ(tail) /\ Occupancy = RingSize - 1
    BY <1>t, <1>1, AheadSucc DEF MakeRoom, Occupancy
  <2> QED
    BY <1>t, <2>1, QueueLosesHead
<1>2. CASE Succ(head) # tail
  <2>1. tail' = tail /\ Occupancy # RingSize - 1
    BY <1>t, <1>2, AheadSucc, AheadRange DEF MakeRoom, Occupancy
  <2>2. Queue' = Queue
    BY <2>1 DEF Queue, Occupancy, QueuedSlot, Ahead
  <2> QED
    BY <1>t, <2>1, <2>2
<1> QED
  BY <1>1, <1>2

\* An empty ring is an empty queue.
LEMMA QueueInit == Init => DOQ!Init
<1> SUFFICES ASSUME Init PROVE DOQ!Init
  OBVIOUS
<1>1. Occupancy = 0
  BY DEF Init, Occupancy, Ahead
<1>2. Queue = << >>
  BY <1>1 DEF Queue
<1> QED
  BY <1>2 DEF Init, DOQ!Init

\* Every step of the ring is a step of the queue, or none.
LEMMA QueueNext ==
  TypeInv /\ IntactInv /\ QueueFact /\ QueueFact' /\ [Next]_vars => [DOQ!Next]_(DOQ!vars)
<1> SUFFICES ASSUME TypeInv, IntactInv, QueueFact, QueueFact', [Next]_vars
             PROVE  [DOQ!Next]_(DOQ!vars)
  OBVIOUS
<1>t. head \in Slots /\ tail \in Slots /\ Len(Queue) = Occupancy
  BY DEF TypeInv, TypeOK, QueueFact
<1>1. CASE PushBegin
  <2>1. /\ Queue' = IF Len(Queue) = RingSize - 1 THEN Tail(Queue) ELSE Queue
        /\ UNCHANGED <<next, popped>>
    BY <1>1, QueueMadeRoom DEF PushBegin
  <2> QED
    BY <2>1 DEF DOQ!Next, DOQ!DropOldest, DOQ!vars
<1>2. CASE PushCommit
  <2>1. /\ Len(Queue) < RingSize - 1 /\ Queue' = Append(Queue, next)
        /\ next' = next + 1 /\ next <= MaxFrames /\ popped' = popped
    BY <1>2, QueueGainsLast
       DEF PushCommit, IntactInv, RoomToWrite, TypeInv, CopyingFrame, Frames
  <2> QED
    BY <2>1 DEF DOQ!Next, DOQ!Accept
<1>3. CASE PushNoMemory
  <2>1. /\ Queue' = IF Len(Queue) = RingSize - 1 THEN Tail(Queue) ELSE Queue
        /\ next' = next + 1 /\ next <= MaxFrames /\ popped' = popped
    BY <1>3, QueueMadeRoom DEF PushNoMemory, CanPush
  <2> QED
    BY <2>1 DEF DOQ!Next, DOQ!Lose
<1>4. CASE Pop
  <2>1. /\ Queue # << >> /\ popped' = Head(Queue) /\ Queue' = Tail(Queue)
        /\ next' = next
    BY <1>4, QueueLosesHead DEF Pop, Empty
  <2> QED
    BY <2>1 DEF DOQ!Next, DOQ!Take
<1>5. CASE Flush
  <2>1. Occupancy' = 0
    BY <1>t, <1>5, AheadRange DEF Flush, Occupancy, Ahead
  <2>2. Queue' = << >> /\ UNCHANGED <<next, popped>>
    BY <1>5, <2>1 DEF Queue, Flush, mainVars
  <2> QED
    BY <2>2 DEF DOQ!Next, DOQ!Discard
<1>6. CASE UNCHANGED <<head, tail, meta, next, popped>>
  <2>1. Queue' = Queue
    BY <1>6 DEF Queue, Occupancy, QueuedSlot, Ahead
  <2> QED
    BY <1>6, <2>1 DEF DOQ!vars
<1> QED
  BY <1>1, <1>2, <1>3, <1>4, <1>5, <1>6
     DEF Next, Push, Consume, PushCrash, PopWait, SpuriousWakeup, PopTimeout, ReadHeader,
         CopyPayload, CopyCrash, ringVars, mainVars, vars

\* The index arithmetic, the drop for room, the flush and the failed malloc
\* are, for the rest of the program, a bounded queue that gives up its oldest.
THEOREM RingIsDropOldestQueue == Spec => Implements
<1>1. Spec => [](TypeInv /\ IntactInv)
  BY TypeInit, TypeNext, IntactInit, IntactNext, PTL DEF Spec
<1> QED
  BY <1>1, QueueInit, QueueNext, QueueIsSeq, PTL DEF Spec, Implements, DOQ!Spec
=============================================================================

--------------------------- MODULE Composer_proofs ---------------------------
(***************************************************************************)
(* Proofs about Composer, for every number of commits, vblanks and toggles *)
(* of the CRC source: the vblank references are balanced, nothing is used  *)
(* after it was freed, and no frame is forgotten or reported out of order. *)
(***************************************************************************)
EXTENDS Composer, FiniteSetTheorems, TLAPS

-----------------------------------------------------------------------------
(* The vblank references.                                                  *)

\* What the balance rests on: the flag is Boolean, and a call of
\* vkms_set_composer is idle, about to swap, or about to put.
CallsOK ==
  /\ composerEnabled \in BOOLEAN /\ refs \in Int
  /\ caller \in [Callers -> [pc : {"idle", "swap", "put"}, arg : BOOLEAN]]

RefsInv == CallsOK /\ RefsBalanced

\* The references and the calls are all the balance depends on.
refVars == <<composerEnabled, refs, caller>>

\* A step that touches neither keeps the invariant.
LEMMA RefsStutter == RefsInv /\ UNCHANGED refVars => RefsInv'
  BY DEF RefsInv, CallsOK, RefsBalanced, Holds, refVars

\* A call of vkms_set_composer begins with the reference it needs: the
\* caller's share and the count grow together.
LEMMA SetComposerKeeps ==
  ASSUME RefsInv, NEW k \in Callers, NEW e \in BOOLEAN,
         SetComposer(k, e), UNCHANGED composerEnabled
  PROVE  RefsInv'
<1> USE DEF SetComposer, Idle
<1>1. CallsOK'
  BY DEF RefsInv, CallsOK
<1>2. Holds(k) = 0 /\ Holds(k)' = IF e THEN 1 ELSE 0
  BY DEF RefsInv, CallsOK, Holds
<1>3. \A j \in Callers \ {k} : Holds(j)' = Holds(j)
  BY DEF RefsInv, CallsOK, Holds
<1>4. \A j \in Callers : Holds(j) \in Int
  BY DEF Holds
<1>5. RefsBalanced'
  BY <1>2, <1>3, <1>4 DEF RefsInv, CallsOK, RefsBalanced, Callers
<1> QED BY <1>1, <1>5 DEF RefsInv

\* The swap hands the caller's reference to the flag, and the flag's old one
\* to the caller, who then puts it.
LEMMA SwapKeeps ==
  ASSUME RefsInv, NEW k \in Callers, Swap(k)
  PROVE  RefsInv'
<1> USE DEF Swap, Replaces, PutCall, NoCall
<1>1. CallsOK'
  BY DEF RefsInv, CallsOK
<1>2. /\ Holds(k) = IF caller[k].arg THEN 1 ELSE 0
      /\ Holds(k)' = IF composerEnabled THEN 1 ELSE 0
      /\ composerEnabled' = caller[k].arg
  BY DEF RefsInv, CallsOK, Holds
<1>3. \A j \in Callers \ {k} : Holds(j)' = Holds(j)
  BY DEF RefsInv, CallsOK, Holds
<1>4. \A j \in Callers : Holds(j) \in Int
  BY DEF Holds
<1>5. RefsBalanced'
  BY <1>2, <1>3, <1>4 DEF RefsInv, CallsOK, RefsBalanced, Callers
<1> QED BY <1>1, <1>5 DEF RefsInv

\* The put gives the caller's reference back.
LEMMA PutKeeps ==
  ASSUME RefsInv, NEW k \in Callers, Put(k)
  PROVE  RefsInv'
<1> USE DEF Put, NoCall
<1>1. CallsOK'
  BY DEF RefsInv, CallsOK
<1>2. Holds(k) = 1 /\ Holds(k)' = 0
  BY DEF RefsInv, CallsOK, Holds
<1>3. \A j \in Callers \ {k} : Holds(j)' = Holds(j)
  BY DEF RefsInv, CallsOK, Holds
<1>4. \A j \in Callers : Holds(j) \in Int
  BY DEF Holds
<1>5. RefsBalanced'
  BY <1>2, <1>3, <1>4 DEF RefsInv, CallsOK, RefsBalanced, Callers
<1> QED BY <1>1, <1>5 DEF RefsInv

\* Only the callers of vkms_set_composer touch the references.
LEMMA RefsStep == RefsInv /\ [Next]_vars => RefsInv'
<1> SUFFICES ASSUME RefsInv, [Next]_vars PROVE RefsInv'
  OBVIOUS
<1>1. CASE UNCHANGED vars
  BY <1>1, RefsStutter DEF vars, outputVars, refVars
<1>2. CASE Timer
  BY <1>2, RefsStutter DEF Timer, HandleVblank, CheckEnabled, RecordFrame,
     QueueWork, outputVars, refVars
<1>3. CASE Worker
  BY <1>3, RefsStutter DEF Worker, StartWork, ReadWriteback, TakeFrames, Compose,
     ComposeFails, SignalCompletion, ClearPending, AddCrcEntry, outputVars, refVars
<1>4. CASE CleanupFree
  BY <1>4, RefsStutter DEF CleanupFree, outputVars, refVars
<1>5. CASE CleanupDisable
  BY <1>5, SetComposerKeeps DEF CleanupDisable, Callers
<1>6. CASE SetCrcSource
  <2>1. \E e \in BOOLEAN : SetComposer("crc", e) /\ UNCHANGED composerEnabled
    BY <1>6 DEF SetCrcSource
  <2> QED BY <2>1, SetComposerKeeps DEF Callers
<1>7. ASSUME NEW c \in Commits, Commit(c) PROVE RefsInv'
  <2>1. CASE WritebackEnable(c)
    BY <2>1, SetComposerKeeps DEF WritebackEnable, Callers
  <2>2. CASE ~WritebackEnable(c)
    BY <1>7, <2>2, RefsStutter DEF Commit, AtomicFlush, WritebackRequest,
       WritebackQueueJob, WritebackFormat, FlipDone, FlushWork, outputVars, refVars
  <2> QED BY <2>1, <2>2
<1>8. ASSUME NEW k \in Callers, Swap(k) \/ Put(k) PROVE RefsInv'
  BY <1>8, SwapKeeps, PutKeeps
<1> QED
  BY <1>1, <1>2, <1>3, <1>4, <1>5, <1>6, <1>7, <1>8 DEF Next, Cleanup

\* Nothing is held at the start.
LEMMA RefsInit == Init => RefsInv
<1> SUFFICES ASSUME Init PROVE RefsInv
  OBVIOUS
<1>1. CallsOK
  <2>1. NoCall \in [pc : {"idle", "swap", "put"}, arg : BOOLEAN]
    BY DEF NoCall
  <2>2. composerEnabled = FALSE /\ refs = 0 /\ caller = [k \in Callers |-> NoCall]
    BY DEF Init
  <2>3. caller \in [Callers -> [pc : {"idle", "swap", "put"}, arg : BOOLEAN]]
    BY <2>1, <2>2
  <2>4. composerEnabled \in BOOLEAN
    BY <2>2
  <2>5. refs \in Int
    BY <2>2
  <2> QED BY <2>3, <2>4, <2>5 DEF CallsOK
<1>2. \A k \in Callers : Holds(k) = 0
  BY DEF Init, Holds, NoCall
<1>3. RefsBalanced
  BY <1>2 DEF Init, RefsBalanced, Callers
<1> QED BY <1>1, <1>3 DEF RefsInv

\* However commits, CRC users and clean-ups of writeback jobs interleave in
\* vkms_set_composer, no vblank reference is leaked or dropped twice.
THEOREM VblankRefs == Spec => []RefsBalanced
<1>1. RefsInv => RefsBalanced
  BY DEF RefsInv
<1> QED BY <1>1, RefsInit, RefsStep, PTL DEF Spec

-----------------------------------------------------------------------------
(* Types, as far as what is freed and when depends on them.                *)

CommitPlaces == {"new", "enable", "request", "queue", "format", "flip", "flush", "done"}
RunPlaces == {"idle", "read", "lock", "compose", "signal", "clear", "crc"}
StateType == [active : BOOLEAN, crc : BOOLEAN, wb : BOOLEAN, start : Nat, end : Nat]
RunType == [pc : RunPlaces, state : Commits \cup {NoState}, active : BOOLEAN,
            wb : BOOLEAN, start : Nat, end : Nat]

QueuesTyped ==
  /\ works \in Seq(Commits)
  /\ jobQueue \in Seq(Commits) /\ cleaning \in Seq(Commits)

TimerTyped ==
  /\ count \in Nat
  /\ composerState \in Commits \cup {NoState}
  /\ tpc \in {"idle", "check", "record", "queue"}
  /\ tpc # "idle" => tstate \in Commits

Typed ==
  /\ QueuesTyped /\ TimerTyped
  /\ st \in [Commits -> StateType]
  /\ run \in RunType
  /\ run.pc # "idle" => run.state \in Commits
  /\ cpc \in [Commits -> CommitPlaces]
  /\ freedStates \subseteq Commits /\ freedJobs \subseteq Commits

\* What Append and Tail do to a sequence of commits.
LEMMA Appended ==
  ASSUME NEW s \in Seq(Commits), NEW c \in Commits
  PROVE  /\ Append(s, c) \in Seq(Commits)
         /\ Len(Append(s, c)) = Len(s) + 1
         /\ DOMAIN Append(s, c) = 1 .. Len(s) + 1
         /\ \A i \in 1 .. Len(s) : Append(s, c)[i] = s[i]
         /\ Append(s, c)[Len(s) + 1] = c
  OBVIOUS

\* What Head and Tail take from one.
LEMMA Dropped ==
  ASSUME NEW s \in Seq(Commits), s # << >>
  PROVE  /\ Tail(s) \in Seq(Commits)
         /\ DOMAIN s = 1 .. Len(s) /\ 1 \in DOMAIN s /\ Head(s) = s[1] /\ Head(s) \in Commits
         /\ DOMAIN Tail(s) = 1 .. Len(s) - 1
         /\ \A i \in 1 .. Len(s) - 1 : i + 1 \in DOMAIN s /\ Tail(s)[i] = s[i + 1]
  OBVIOUS

\* A frame recorded in a state leaves the states' type.
LEMMA StateRecorded ==
  ASSUME NEW f \in [Commits -> StateType], NEW c \in Commits, NEW a \in Nat, NEW b \in Nat
  PROVE  [f EXCEPT ![c].start = a, ![c].end = b, ![c].crc = TRUE] \in [Commits -> StateType]
<1> DEFINE r == [f[c] EXCEPT !.start = a, !.end = b, !.crc = TRUE]
<1>1. r \in StateType
  BY DEF StateType
<1>2. [f EXCEPT ![c].start = a, ![c].end = b, ![c].crc = TRUE] = [f EXCEPT ![c] = r]
  OBVIOUS
<1> HIDE DEF r
<1> QED
  BY <1>1, <1>2

\* So does a writeback requested of a commit.
LEMMA StateRequested ==
  ASSUME NEW f \in [Commits -> StateType], NEW c \in Commits
  PROVE  [f EXCEPT ![c].active = TRUE, ![c].wb = TRUE] \in [Commits -> StateType]
<1> DEFINE r == [f[c] EXCEPT !.active = TRUE, !.wb = TRUE]
<1>1. r \in StateType
  BY DEF StateType
<1>2. [f EXCEPT ![c].active = TRUE, ![c].wb = TRUE] = [f EXCEPT ![c] = r]
  OBVIOUS
<1> HIDE DEF r
<1> QED
  BY <1>1, <1>2

\* The program starts well typed.
LEMMA TypedInit == Init => Typed
<1> SUFFICES ASSUME Init PROVE Typed
  OBVIOUS
<1>1. Fresh \in StateType
  BY DEF Fresh, StateType
<1>2. NoWork \in RunType /\ NoWork.pc = "idle"
  BY DEF NoWork, RunType, RunPlaces
<1>3. st \in [Commits -> StateType] /\ cpc \in [Commits -> CommitPlaces]
  BY <1>1 DEF Init, CommitPlaces
<1> QED
  BY <1>2, <1>3 DEF Init, Typed, QueuesTyped, TimerTyped

\* The timer's steps.
LEMMA TypedTimer == Typed /\ Timer => Typed'
<1> SUFFICES ASSUME Typed, Timer PROVE Typed'
  OBVIOUS
<1> USE DEF Typed
<1>1. UNCHANGED <<jobVars, commitVars, run>>
  BY DEF Timer, HandleVblank, CheckEnabled, RecordFrame, QueueWork, workVars
<1>2. TimerTyped'
  BY DEF TimerTyped, Timer, HandleVblank, CheckEnabled, RecordFrame, QueueWork, outputVars, NoState
<1>3. works' \in Seq(Commits)
  <2>1. CASE QueueWork
    BY <2>1, Appended DEF QueueWork, Queued, QueuesTyped, TimerTyped
  <2>2. CASE ~QueueWork
    BY <2>2 DEF Timer, HandleVblank, CheckEnabled, RecordFrame, workVars, QueuesTyped
  <2> QED
    BY <2>1, <2>2
<1>4. st' \in [Commits -> StateType]
  <2>1. CASE RecordFrame
    <3>1. tstate \in Commits /\ count \in Nat /\ NewStart(tstate) \in Nat
      BY <2>1 DEF RecordFrame, TimerTyped, NewStart, StateType
    <3>2. st' = [st EXCEPT ![tstate].start = NewStart(tstate),
                           ![tstate].end = count, ![tstate].crc = TRUE]
      BY <2>1 DEF RecordFrame
    <3>3. st \in [Commits -> StateType]
      OBVIOUS
    <3> QED
      BY <3>1, <3>2, <3>3, StateRecorded
  <2>2. CASE ~RecordFrame
    BY <2>2 DEF Timer, HandleVblank, CheckEnabled, QueueWork, workVars
  <2> QED
    BY <2>1, <2>2
<1> QED
  BY <1>1, <1>2, <1>3, <1>4 DEF jobVars, commitVars, QueuesTyped

\* The worker's.
LEMMA TypedWorker == Typed /\ Worker => Typed'
<1> SUFFICES ASSUME Typed, Worker PROVE Typed'
  OBVIOUS
<1> USE DEF Typed
<1>1. UNCHANGED <<timerVars, outputVars, commitVars, freedJobs>>
  BY DEF Worker, StartWork, ReadWriteback, TakeFrames, Compose, ComposeFails,
     SignalCompletion, ClearPending, AddCrcEntry, jobVars
<1>2. QueuesTyped'
  <2>1. CASE StartWork
    BY <2>1, Dropped DEF StartWork, QueuesTyped, jobVars
  <2>2. CASE SignalCompletion
    <3>1. CASE jobQueue = << >>
      BY <2>2, <3>1 DEF SignalCompletion, QueuesTyped
    <3>2. CASE jobQueue # << >>
      <4>1. Head(jobQueue) \in Commits /\ Tail(jobQueue) \in Seq(Commits)
        BY <3>2, Dropped DEF QueuesTyped
      <4>2. Append(cleaning, Head(jobQueue)) \in Seq(Commits)
        BY <4>1, Appended DEF QueuesTyped
      <4> QED
        BY <2>2, <3>2, <4>1, <4>2 DEF SignalCompletion, QueuesTyped
    <3> QED
      BY <3>1, <3>2
  <2>3. CASE ~StartWork /\ ~SignalCompletion
    <3>1. UNCHANGED <<works, jobVars>>
      BY <2>3 DEF Worker, ReadWriteback, TakeFrames, Compose, ComposeFails,
         ClearPending, AddCrcEntry
    <3> QED
      BY <3>1 DEF QueuesTyped, jobVars
  <2> QED
    BY <2>1, <2>2, <2>3
<1>3. st' \in [Commits -> StateType] /\ run' \in RunType /\ (run'.pc # "idle" => run'.state \in Commits)
  <2>0. NoWork \in RunType /\ NoWork.pc = "idle"
    BY DEF NoWork, RunType, RunPlaces
  <2>1. CASE StartWork
    BY <2>1, Dropped DEF StartWork, QueuesTyped, RunType, RunPlaces
  <2>2. CASE ReadWriteback
    <3>1. st[run.state].active \in BOOLEAN
      BY <2>2 DEF ReadWriteback, StateType
    <3> QED
      BY <2>2, <3>1 DEF ReadWriteback, RunType, RunPlaces
  <2>3. CASE TakeFrames
    <3>1. /\ run.state \in Commits
          /\ st[run.state] \in StateType
      BY <2>3 DEF TakeFrames
    <3>2. st' \in [Commits -> StateType]
      BY <2>3, <3>1 DEF TakeFrames, StateType
    <3>3. run' \in RunType /\ (run'.pc # "idle" => run'.state \in Commits)
      BY <2>0, <2>3, <3>1 DEF TakeFrames, StateType, RunType, RunPlaces
    <3> QED
      BY <3>2, <3>3
  <2>4. CASE Compose \/ SignalCompletion
    BY <2>4 DEF Compose, SignalCompletion, RunType, RunPlaces
  <2>5. CASE ComposeFails
    BY <2>0, <2>5 DEF ComposeFails
  <2>6. CASE ClearPending
    BY <2>6 DEF ClearPending, RunType, RunPlaces, StateType
  <2>7. CASE AddCrcEntry
    BY <2>0, <2>7 DEF AddCrcEntry, RunType, RunPlaces
  <2> QED
    BY <2>1, <2>2, <2>3, <2>4, <2>5, <2>6, <2>7 DEF Worker
<1> QED
  BY <1>1, <1>2, <1>3 DEF timerVars, outputVars, commitVars, TimerTyped

\* Every step keeps the types.
LEMMA TypedNext == Typed /\ [Next]_vars => Typed'
<1> SUFFICES ASSUME Typed, [Next]_vars PROVE Typed'
  OBVIOUS
<1>1. ASSUME UNCHANGED <<timerVars, composerState, workVars, commitVars, jobQueue, cleaning, freedJobs>>
      PROVE  Typed'
  BY <1>1 DEF Typed, QueuesTyped, TimerTyped, timerVars, workVars, commitVars
<1>2. CASE UNCHANGED vars
  BY <1>1, <1>2 DEF vars, outputVars, jobVars
<1>3. CASE Timer
  BY <1>3, TypedTimer
<1>4. CASE Worker
  BY <1>4, TypedWorker
<1>5. CASE Cleanup
  <2>1. cleaning # << >> /\ Head(cleaning) \in Commits /\ Tail(cleaning) \in Seq(Commits)
    BY <1>5, Dropped DEF Cleanup, CleanupDisable, CleanupFree, Typed, QueuesTyped
  <2>2. freedJobs' \subseteq Commits /\ cleaning' \in Seq(Commits)
    BY <1>5, <2>1 DEF Cleanup, CleanupDisable, CleanupFree, Typed, QueuesTyped
  <2> QED
    BY <1>5, <2>2 DEF Cleanup, CleanupDisable, CleanupFree, Typed, QueuesTyped, TimerTyped,
       timerVars, workVars, commitVars, outputVars
<1>6. CASE SetCrcSource
  BY <1>1, <1>6 DEF SetCrcSource, jobVars
<1>7. ASSUME NEW c \in Commits, Commit(c) PROVE Typed'
  <2> USE DEF Typed
  <2>1. cpc' \in [Commits -> CommitPlaces]
    BY <1>7 DEF Commit, AtomicFlush, WritebackEnable, WritebackRequest, WritebackQueueJob,
       WritebackFormat, FlipDone, FlushWork, Goto, CommitPlaces
  <2>2. composerState' \in Commits \cup {NoState} /\ freedStates' \subseteq Commits
    BY <1>7 DEF Commit, AtomicFlush, WritebackEnable, WritebackRequest, WritebackQueueJob,
       WritebackFormat, FlipDone, FlushWork, TimerTyped, outputVars
  <2>3. st' \in [Commits -> StateType]
    <3>1. CASE WritebackRequest(c)
      <4>1. st' = [st EXCEPT ![c].active = TRUE, ![c].wb = TRUE]
        BY <3>1 DEF WritebackRequest
      <4>2. st \in [Commits -> StateType]
        OBVIOUS
      <4> QED
        BY <4>1, <4>2, StateRequested
    <3>2. CASE ~WritebackRequest(c)
      BY <1>7, <3>2 DEF Commit, AtomicFlush, WritebackEnable, WritebackQueueJob,
         WritebackFormat, FlipDone, FlushWork, workVars
    <3> QED
      BY <3>1, <3>2
  <2>4. jobQueue' \in Seq(Commits)
    <3>1. jobQueue' = jobQueue \/ jobQueue' = Append(jobQueue, c)
      BY <1>7 DEF Commit, AtomicFlush, WritebackEnable, WritebackRequest,
         WritebackQueueJob, WritebackFormat, FlipDone, FlushWork, jobVars
    <3>2. jobQueue \in Seq(Commits) /\ Append(jobQueue, c) \in Seq(Commits)
      BY Appended DEF QueuesTyped
    <3> QED
      BY <3>1, <3>2
  <2>5. UNCHANGED <<count, tpc, tstate, works, run, cleaning, freedJobs>>
    BY <1>7 DEF Commit, AtomicFlush, WritebackEnable, WritebackRequest, WritebackQueueJob,
       WritebackFormat, FlipDone, FlushWork, timerVars, workVars, jobVars
  <2> QED
    BY <2>1, <2>2, <2>3, <2>4, <2>5 DEF TimerTyped, QueuesTyped
<1>8. ASSUME NEW k \in Callers, Swap(k) \/ Put(k) PROVE Typed'
  BY <1>1, <1>8 DEF Swap, Put, jobVars
<1> QED
  BY <1>2, <1>3, <1>4, <1>5, <1>6, <1>7, <1>8 DEF Next

-----------------------------------------------------------------------------
(* Commits go in order, and the timer holds on to one state.               *)

Flipped == {"flush", "done"}

\* composerState is the newest commit; those before it have flipped, those
\* before these are cleaned up.
CommitOrder ==
  \A c \in Commits :
    /\ cpc[c] = "new" <=> c > composerState
    /\ c < composerState => cpc[c] \in Flipped
    /\ c < composerState - 1 => cpc[c] = "done"

\* The timer's state is the newest, or the one before while the newest still
\* waits for its vblank.
TimerHolds ==
  tpc # "idle" =>
    \/ tstate = composerState
    \/ /\ tstate = composerState - 1
       /\ armed = composerState
       /\ cpc[composerState] \notin Flipped

OrderInv == CommitOrder /\ TimerHolds

\* Commits are numbers, so that they are ordered.
LEMMA CommitsAreInts ==
  ASSUME Typed
  PROVE  composerState \in Int /\ Commits \subseteq Int /\ \A c \in Commits : c >= 1
  BY DEF Typed, TimerTyped, Commits, NoState

\* The order holds at the start.
LEMMA OrderInit == Init => OrderInv
  BY DEF Init, OrderInv, CommitOrder, TimerHolds, NoState, Commits

\* A commit under way that has not flipped is the newest.
LEMMA UnderWayIsNewest ==
  ASSUME Typed, OrderInv, NEW c \in Commits, cpc[c] # "new", cpc[c] \notin Flipped
  PROVE  c = composerState
  BY CommitsAreInts DEF OrderInv, CommitOrder

\* What the vblank timer does keeps the order of the commits.
LEMMA OrderTimer ==
  ASSUME Typed, OrderInv, Timer
  PROVE  OrderInv'
<1>1. UNCHANGED <<composerState, cpc>>
  BY DEF Timer, HandleVblank, CheckEnabled, RecordFrame, QueueWork, outputVars, commitVars
<1>2. CommitOrder'
  BY <1>1 DEF OrderInv, CommitOrder
<1>3. TimerHolds'
  <2>1. CASE HandleVblank
    BY <1>1, <2>1 DEF HandleVblank, TimerHolds
  <2>2. CASE ~HandleVblank
    BY <1>1, <2>2 DEF Timer, CheckEnabled, RecordFrame, QueueWork, OrderInv, TimerHolds
  <2> QED
    BY <2>1, <2>2
<1> QED
  BY <1>2, <1>3 DEF OrderInv

\* DRM lets the commit after the newest in, and no other.
LEMMA OrderFlush ==
  ASSUME Typed, OrderInv, NEW c \in Commits, AtomicFlush(c)
  PROVE  OrderInv' /\ composerState' = c /\ composerState = c - 1
<1> USE CommitsAreInts DEF OrderInv
<1>1. /\ cpc[c] = "new" /\ composerState' = c /\ armed' = c
      /\ c > 1 => cpc[c - 1] \in Flipped
      /\ c > 2 => cpc[c - 2] = "done"
      /\ UNCHANGED <<tpc, tstate>>
  BY DEF AtomicFlush, MayCommit, At, Flipped
<1>2. \E l \in {"enable", "flip"} : cpc' = [cpc EXCEPT ![c] = l]
  BY DEF AtomicFlush, Goto
<1>3. c > composerState
  BY <1>1 DEF CommitOrder
<1>4. composerState = c - 1
  <2>1. CASE c = 1
    BY <1>3, <2>1 DEF Typed, TimerTyped, Commits, NoState
  <2>2. CASE c > 1
    <3>1. c - 1 \in Commits
      BY <2>2, ComposerAssumption DEF Commits
    <3>2. ~(c - 1 > composerState)
      BY <1>1, <2>2, <3>1 DEF CommitOrder, Flipped
    <3> QED
      BY <1>3, <3>2
  <2> QED
    BY <2>1, <2>2
<1>5. cpc'[c] \in {"enable", "flip"} /\ \A d \in Commits \ {c} : cpc'[d] = cpc[d]
  BY <1>2 DEF Typed
<1>6. CommitOrder'
  <2> SUFFICES ASSUME NEW d \in Commits
               PROVE  /\ cpc'[d] = "new" <=> d > c
                      /\ d < c => cpc'[d] \in Flipped
                      /\ d < c - 1 => cpc'[d] = "done"
    BY <1>1 DEF CommitOrder
  <2>1. CASE d >= c
    BY <1>4, <1>5, <2>1 DEF CommitOrder
  <2>2. CASE d < c
    BY <1>1, <1>4, <1>5, <2>2 DEF CommitOrder, Flipped
  <2> QED
    BY <2>1, <2>2
<1>7. TimerHolds'
  <2>1. tpc # "idle" => tstate = composerState
    <3>1. ASSUME tpc # "idle", tstate # composerState PROVE FALSE
      <4>1. cpc[composerState] \notin Flipped /\ tstate = composerState - 1 /\ tstate \in Commits
        BY <3>1 DEF TimerHolds, Typed, TimerTyped
      <4> QED
        BY <1>1, <1>4, <4>1
    <3> QED
      BY <3>1
  <2> QED
    BY <1>1, <1>4, <1>5, <2>1 DEF TimerHolds, Flipped
<1> QED
  BY <1>1, <1>4, <1>6, <1>7

\* The steps of a commit after that keep its place as the newest.
LEMMA OrderCommit ==
  ASSUME Typed, OrderInv, NEW c \in Commits, Commit(c), ~AtomicFlush(c)
  PROVE  OrderInv' /\ UNCHANGED composerState
<1> USE CommitsAreInts DEF OrderInv
<1>1. UNCHANGED <<composerState, armed, tpc, tstate>>
  BY DEF Commit, WritebackEnable, WritebackRequest, WritebackQueueJob, WritebackFormat,
     FlipDone, FlushWork, timerVars, outputVars
<1>2. CASE FlipDone(c)
  <2>1. cpc[c] = "flip" /\ armed # c /\ cpc' = [cpc EXCEPT ![c] = "flush"]
    BY <1>2 DEF FlipDone, At, Goto
  <2>2. c = composerState
    BY <2>1, UnderWayIsNewest DEF Flipped
  <2>3. cpc'[c] = "flush" /\ \A d \in Commits \ {c} : cpc'[d] = cpc[d]
    BY <2>1 DEF Typed
  <2>4. CommitOrder'
    BY <1>1, <2>1, <2>2, <2>3 DEF CommitOrder, Flipped
  <2>5. TimerHolds'
    BY <1>1, <2>1, <2>2 DEF TimerHolds
  <2> QED
    BY <1>1, <2>4, <2>5
<1>3. CASE FlushWork(c)
  <2>1. cpc[c] = "flush" /\ cpc' = [cpc EXCEPT ![c] = "done"]
    BY <1>3 DEF FlushWork, At, Goto
  <2>2. cpc'[c] = "done" /\ \A d \in Commits \ {c} : cpc'[d] = cpc[d]
    BY <2>1 DEF Typed
  <2>3. CommitOrder'
    BY <1>1, <2>1, <2>2 DEF CommitOrder, Flipped
  <2>4. TimerHolds'
    <3>1. TimerHolds /\ cpc[c] \in Flipped /\ cpc'[c] \in Flipped
      BY <2>1, <2>2 DEF Flipped
    <3>2. ASSUME tpc # "idle", tstate # composerState
          PROVE  cpc'[composerState] \notin Flipped
      <4>1. cpc[composerState] \notin Flipped /\ tstate = composerState - 1 /\ tstate \in Commits
        BY <3>1, <3>2 DEF TimerHolds, Typed, TimerTyped
      <4>2. composerState \in Commits
        BY <4>1 DEF Typed, TimerTyped, NoState
      <4> QED
        BY <2>2, <3>1, <4>1, <4>2
    <3> QED
      BY <1>1, <3>1, <3>2 DEF TimerHolds
  <2> QED
    BY <1>1, <2>3, <2>4
<1>4. CASE ~FlipDone(c) /\ ~FlushWork(c)
  <2>1. PICK l \in {"request", "queue", "format", "flip"} : cpc' = [cpc EXCEPT ![c] = l]
    BY <1>4 DEF Commit, WritebackEnable, WritebackRequest, WritebackQueueJob,
       WritebackFormat, Goto
  <2>2. cpc[c] \in {"enable", "request", "queue", "format"}
    BY <1>4 DEF Commit, WritebackEnable, WritebackRequest, WritebackQueueJob,
       WritebackFormat, At
  <2>3. c = composerState
    BY <2>2, UnderWayIsNewest DEF Flipped
  <2>4. cpc'[c] \in {"request", "queue", "format", "flip"} /\ \A d \in Commits \ {c} : cpc'[d] = cpc[d]
    BY <2>1 DEF Typed
  <2>5. CommitOrder'
    BY <1>1, <2>2, <2>3, <2>4 DEF CommitOrder, Flipped
  <2>6. TimerHolds'
    BY <1>1, <2>3, <2>4 DEF TimerHolds, Flipped
  <2> QED
    BY <1>1, <2>5, <2>6
<1> QED
  BY <1>2, <1>3, <1>4

\* Every step keeps the order of the commits.
LEMMA OrderNext == Typed /\ OrderInv /\ [Next]_vars => OrderInv'
<1> SUFFICES ASSUME Typed, OrderInv, [Next]_vars PROVE OrderInv'
  OBVIOUS
<1>1. ASSUME UNCHANGED <<composerState, armed, tpc, tstate, cpc>> PROVE OrderInv'
  BY <1>1 DEF OrderInv, CommitOrder, TimerHolds
<1>2. CASE Timer
  BY <1>2, OrderTimer
<1>3. ASSUME NEW c \in Commits, Commit(c) PROVE OrderInv'
  BY <1>3, OrderFlush, OrderCommit
<1>4. CASE Worker
  BY <1>1, <1>4 DEF Worker, StartWork, ReadWriteback, TakeFrames, Compose, ComposeFails,
     SignalCompletion, ClearPending, AddCrcEntry, timerVars, outputVars, commitVars
<1>5. CASE Cleanup \/ SetCrcSource \/ UNCHANGED vars
  BY <1>1, <1>5 DEF Cleanup, CleanupDisable, CleanupFree, SetCrcSource, vars, timerVars,
     outputVars, commitVars
<1>6. ASSUME NEW k \in Callers, Swap(k) \/ Put(k) PROVE OrderInv'
  BY <1>1, <1>6 DEF Swap, Put, timerVars, commitVars
<1> QED
  BY <1>2, <1>3, <1>4, <1>5, <1>6 DEF Next

-----------------------------------------------------------------------------
(* The composer's works come in the order of the commits, and not after    *)
(* the state they belong to has been destroyed.                            *)

WorkOrder ==
  /\ \A i \in DOMAIN works :
       /\ works[i] <= composerState
       /\ tpc # "idle" => works[i] <= tstate
       /\ run.pc # "idle" => run.state <= works[i]
  /\ \A i, j \in DOMAIN works : i < j => works[i] <= works[j]
  /\ run.pc # "idle" =>
       /\ run.state <= composerState
       /\ tpc # "idle" => run.state <= tstate

\* A state is destroyed by the commit after it, whose flush_work saw neither
\* a pending nor a running work, and no work is queued for it again.
FreedAreDone ==
  \A s \in freedStates :
    /\ s + 1 \in Commits /\ cpc[s + 1] = "done"
    /\ ~Pending(s)
    /\ run.pc # "idle" => run.state # s

WorkInv == WorkOrder /\ FreedAreDone

\* At the start nothing is queued for the worker.
LEMMA WorkInit == Init => WorkInv
  BY DEF Init, WorkInv, WorkOrder, FreedAreDone, NoWork

\* What the timer holds is not destroyed.
LEMMA TimerHoldsAlive ==
  ASSUME Typed, OrderInv, WorkInv, tpc # "idle"
  PROVE  tstate \notin freedStates /\ tstate <= composerState
<1> SUFFICES ASSUME tstate \in freedStates PROVE FALSE
  BY CommitsAreInts DEF OrderInv, TimerHolds, Typed, TimerTyped
<1>1. tstate + 1 \in Commits /\ cpc[tstate + 1] = "done"
  BY DEF WorkInv, FreedAreDone
<1>2. tstate + 1 <= composerState
  BY <1>1, CommitsAreInts DEF OrderInv, CommitOrder
<1>3. tstate = composerState - 1 /\ cpc[composerState] \notin Flipped
  BY <1>2, CommitsAreInts DEF OrderInv, TimerHolds, Typed, TimerTyped
<1> QED
  BY <1>1, <1>3, CommitsAreInts DEF Flipped

\* The timer hands only states in use to the worker.
LEMMA WorkTimer ==
  ASSUME Typed, OrderInv, WorkInv, Timer
  PROVE  WorkInv'
<1> USE CommitsAreInts DEF WorkInv
<1>1. UNCHANGED <<composerState, cpc, freedStates, run>>
  BY DEF Timer, HandleVblank, CheckEnabled, RecordFrame, QueueWork, outputVars, commitVars,
     workVars
<1>2. CASE HandleVblank
  <2>1. works' = works /\ (tpc' # "idle" => tstate' = composerState)
    BY <1>2 DEF HandleVblank, workVars
  <2> QED
    BY <1>1, <2>1 DEF WorkOrder, FreedAreDone, Pending
<1>3. CASE CheckEnabled \/ RecordFrame
  <2>1. works' = works /\ tpc # "idle" /\ (tpc' # "idle" => tstate' = tstate)
    BY <1>3 DEF CheckEnabled, RecordFrame, workVars
  <2> QED
    BY <1>1, <2>1 DEF WorkOrder, FreedAreDone, Pending
<1>4. CASE QueueWork
  <2>1. tpc = "queue" /\ tpc' = "idle" /\ tstate \in Commits /\ works \in Seq(Commits)
    BY <1>4 DEF QueueWork, Typed, TimerTyped, QueuesTyped
  <2>2. tstate \notin freedStates /\ tstate <= composerState
    BY <2>1, TimerHoldsAlive
  <2>3. CASE Pending(tstate)
    <3>1. works' = works
      BY <1>4, <2>3 DEF QueueWork, Queued
    <3> QED
      BY <1>1, <2>1, <3>1 DEF WorkOrder, FreedAreDone, Pending
  <2>4. CASE ~Pending(tstate)
    <3>1. works' = Append(works, tstate)
      BY <1>4, <2>4 DEF QueueWork, Queued
    <3>2. /\ DOMAIN works = 1 .. Len(works) /\ Len(works) \in Nat
          /\ DOMAIN works' = 1 .. Len(works) + 1
          /\ \A i \in 1 .. Len(works) : works'[i] = works[i] /\ works[i] \in Commits
          /\ works'[Len(works) + 1] = tstate
      BY <2>1, <3>1, Appended
    <3>3. WorkOrder'
      <4>1. \A i \in DOMAIN works' : /\ works'[i] <= composerState /\ works'[i] <= tstate
                                     /\ run.pc # "idle" => run.state <= works'[i]
        BY <2>1, <2>2, <3>2 DEF WorkOrder
      <4>2. ASSUME NEW i \in DOMAIN works', NEW j \in DOMAIN works', i < j
            PROVE  works'[i] <= works'[j]
        <5>1. i \in DOMAIN works /\ works'[i] = works[i]
          BY <3>2, <4>2
        <5>2. CASE j \in DOMAIN works
          BY <3>2, <4>2, <5>1, <5>2 DEF WorkOrder
        <5>3. CASE j \notin DOMAIN works
          <6>1. works'[j] = tstate
            BY <3>2, <5>3
          <6> QED
            BY <4>1, <5>1, <6>1
        <5> QED
          BY <5>2, <5>3
      <4> QED
        BY <1>1, <2>1, <4>1, <4>2 DEF WorkOrder
    <3>4. FreedAreDone'
      BY <1>1, <2>2, <3>2 DEF FreedAreDone, Pending
    <3> QED
      BY <3>3, <3>4
  <2> QED
    BY <2>3, <2>4
<1> QED
  BY <1>2, <1>3, <1>4 DEF Timer

\* A run of the work keeps its state until it ends.
LEMMA RunKeepsState ==
  ASSUME Typed, Worker, ~StartWork
  PROVE  UNCHANGED works /\ run.pc # "idle" /\ (run'.pc # "idle" => run'.state = run.state)
<1> USE DEF Typed, RunType, NoWork
<1>1. CASE ReadWriteback \/ Compose
  BY <1>1 DEF ReadWriteback, Compose
<1>4. CASE TakeFrames
  <2>1. run' \in {NoWork, [run EXCEPT !.pc = "compose", !.wb = st[run.state].wb,
                        !.start = st[run.state].start, !.end = st[run.state].end]}
    BY <1>4 DEF TakeFrames
  <2> QED
    BY <1>4, <2>1 DEF TakeFrames
<1>2. CASE ComposeFails \/ SignalCompletion \/ ClearPending
  BY <1>2 DEF ComposeFails, SignalCompletion, ClearPending, workVars
<1>3. CASE AddCrcEntry
  BY <1>3 DEF AddCrcEntry
<1> QED
  BY <1>1, <1>2, <1>3, <1>4 DEF Worker

\* The worker moves on without touching a state that is done.
LEMMA WorkWorker ==
  ASSUME Typed, WorkInv, Worker
  PROVE  WorkInv'
<1> USE CommitsAreInts DEF WorkInv
<1>1. UNCHANGED <<composerState, cpc, freedStates, tpc, tstate>>
  BY DEF Worker, StartWork, ReadWriteback, TakeFrames, Compose, ComposeFails,
     SignalCompletion, ClearPending, AddCrcEntry, timerVars, outputVars, commitVars
<1>2. CASE StartWork
  <2>1. /\ works # << >> /\ works \in Seq(Commits) /\ works' = Tail(works)
        /\ run'.state = Head(works)
    BY <1>2 DEF StartWork, Typed, QueuesTyped, RunType
  <2>2. /\ DOMAIN works = 1 .. Len(works) /\ Len(works) \in Nat
        /\ 1 \in DOMAIN works /\ run'.state = works[1] /\ works[1] \in Commits
        /\ DOMAIN works' = 1 .. Len(works) - 1
        /\ \A i \in 1 .. Len(works) - 1 : i + 1 \in DOMAIN works /\ works'[i] = works[i + 1]
    BY <2>1, Dropped
  <2>3. WorkOrder'
    <3>1. \A i \in DOMAIN works' : /\ works'[i] <= composerState
                                   /\ tpc # "idle" => works'[i] <= tstate
                                   /\ run'.state <= works'[i]
      BY <2>2 DEF WorkOrder
    <3>2. ASSUME NEW i \in DOMAIN works', NEW j \in DOMAIN works', i < j
          PROVE  works'[i] <= works'[j]
      <4>1. /\ i + 1 \in DOMAIN works /\ j + 1 \in DOMAIN works /\ i + 1 < j + 1
            /\ works'[i] = works[i + 1] /\ works'[j] = works[j + 1]
        BY <2>2, <3>2
      <4> QED
        BY <4>1 DEF WorkOrder
    <3>3. run'.state <= composerState /\ (tpc # "idle" => run'.state <= tstate)
      BY <2>2 DEF WorkOrder
    <3> QED
      BY <1>1, <3>1, <3>2, <3>3 DEF WorkOrder
  <2>4. FreedAreDone'
    <3> SUFFICES ASSUME NEW s \in freedStates
                 PROVE  ~Pending(s)' /\ run'.state # s
      BY <1>1 DEF FreedAreDone
    <3>1. \A i \in DOMAIN works : works[i] # s
      BY DEF FreedAreDone, Pending
    <3> QED
      BY <2>2, <3>1 DEF Pending
  <2> QED
    BY <2>3, <2>4
<1>3. CASE ~StartWork
  BY <1>1, <1>3, RunKeepsState DEF WorkOrder, FreedAreDone, Pending
<1> QED
  BY <1>2, <1>3

\* A commit destroys a state only after the worker has done with it.
LEMMA WorkCommit ==
  ASSUME Typed, OrderInv, WorkInv, NEW c \in Commits, Commit(c)
  PROVE  WorkInv'
<1> USE CommitsAreInts DEF WorkInv
<1>1. UNCHANGED <<works, run, tpc, tstate>>
  BY DEF Commit, AtomicFlush, WritebackEnable, WritebackRequest, WritebackQueueJob,
     WritebackFormat, FlipDone, FlushWork, workVars, timerVars
<1>2. composerState' >= composerState /\ composerState' \in Int
  BY OrderFlush, OrderCommit
<1>3. WorkOrder'
  <2>1. \A i \in DOMAIN works : works[i] \in Int
    BY DEF Typed, QueuesTyped
  <2>2. run.pc # "idle" => run.state \in Int
    BY DEF Typed
  <2> QED
    BY <1>1, <1>2, <2>1, <2>2 DEF WorkOrder
<1>4. \A d \in Commits : cpc[d] = "done" => cpc'[d] = "done"
  BY DEF Commit, AtomicFlush, WritebackEnable, WritebackRequest, WritebackQueueJob,
     WritebackFormat, FlipDone, FlushWork, Goto, At, MayCommit, Typed
<1>5. CASE FlushWork(c)
  <2>1. /\ freedStates' \subseteq freedStates \cup {c - 1}
        /\ ~Pending(c - 1) /\ (run.pc = "idle" \/ run.state # c - 1)
        /\ cpc'[c] = "done"
    BY <1>5 DEF FlushWork, Flushed, Goto, Typed
  <2> QED
    <3> SUFFICES ASSUME NEW s \in freedStates'
                 PROVE  /\ s + 1 \in Commits /\ cpc'[s + 1] = "done"
                        /\ ~Pending(s)'
                        /\ run.pc # "idle" => run.state # s
      BY <1>1, <1>3 DEF FreedAreDone
    <3>1. CASE s \in freedStates
      BY <1>1, <1>4, <3>1 DEF FreedAreDone, Pending
    <3>2. CASE s = c - 1
      BY <1>1, <2>1, <3>2 DEF Pending
    <3> QED
      BY <2>1, <3>1, <3>2
<1>6. CASE ~FlushWork(c)
  <2>1. UNCHANGED freedStates
    BY <1>6 DEF Commit, AtomicFlush, WritebackEnable, WritebackRequest, WritebackQueueJob,
       WritebackFormat, FlipDone
  <2> QED
    BY <1>1, <1>3, <1>4, <2>1 DEF FreedAreDone, Pending
<1> QED
  BY <1>5, <1>6

\* Every step keeps the worker's states alive.
LEMMA WorkNext == Typed /\ OrderInv /\ WorkInv /\ [Next]_vars => WorkInv'
<1> SUFFICES ASSUME Typed, OrderInv, WorkInv, [Next]_vars PROVE WorkInv'
  OBVIOUS
<1>1. ASSUME UNCHANGED <<composerState, tpc, tstate, commitVars, works, run>> PROVE WorkInv'
  BY <1>1 DEF WorkInv, WorkOrder, FreedAreDone, Pending, commitVars
<1>2. CASE Timer
  BY <1>2, WorkTimer
<1>3. CASE Worker
  BY <1>3, WorkWorker
<1>4. ASSUME NEW c \in Commits, Commit(c) PROVE WorkInv'
  BY <1>4, WorkCommit
<1>5. CASE Cleanup \/ SetCrcSource \/ UNCHANGED vars
  BY <1>1, <1>5 DEF Cleanup, CleanupDisable, CleanupFree, SetCrcSource, vars, timerVars,
     outputVars, workVars
<1>6. ASSUME NEW k \in Callers, Swap(k) \/ Put(k) PROVE WorkInv'
  BY <1>1, <1>6 DEF Swap, Put, timerVars, workVars
<1> QED
  BY <1>2, <1>3, <1>4, <1>5, <1>6 DEF Next

-----------------------------------------------------------------------------
(* Writeback jobs: a completion takes the oldest job of the queue, and it  *)
(* is never that of a commit whose own run is still to write.              *)

Elems(s) == {s[i] : i \in DOMAIN s}

\* The elements of a queue with one more.
LEMMA ElemsOfAppend ==
  ASSUME NEW s \in Seq(Commits), NEW c \in Commits
  PROVE  Elems(Append(s, c)) = Elems(s) \cup {c}
<1>1. DOMAIN s = 1 .. Len(s) /\ Len(s) \in Nat
  OBVIOUS
<1> QED
  BY <1>1, Appended DEF Elems

\* The elements of a queue without its first.
LEMMA ElemsOfTail ==
  ASSUME NEW s \in Seq(Commits), s # << >>
  PROVE  Elems(s) = {Head(s)} \cup Elems(Tail(s))
<1>1. /\ DOMAIN s = 1 .. Len(s) /\ 1 \in DOMAIN s /\ Head(s) = s[1] /\ Len(s) \in Nat
      /\ DOMAIN Tail(s) = 1 .. Len(s) - 1
      /\ \A i \in 1 .. Len(s) - 1 : i + 1 \in DOMAIN s /\ Tail(s)[i] = s[i + 1]
  BY Dropped
<1>2. ASSUME NEW i \in DOMAIN s PROVE s[i] \in {Head(s)} \cup Elems(Tail(s))
  <2>1. CASE i = 1
    BY <1>1, <2>1
  <2>2. CASE i # 1
    <3>1. i - 1 \in DOMAIN Tail(s) /\ Tail(s)[i - 1] = s[i]
      BY <1>1, <2>2
    <3> QED
      BY <3>1 DEF Elems
  <2> QED
    BY <2>1, <2>2
<1>3. ASSUME NEW i \in DOMAIN Tail(s) PROVE Tail(s)[i] \in Elems(s)
  BY <1>1 DEF Elems
<1> QED
  BY <1>1, <1>2, <1>3 DEF Elems

Waiting == Elems(jobQueue)
Taken == freedJobs \cup Elems(cleaning)
Queuing == Flipped \cup {"format", "flip"}

\* Jobs wait in the order of their commits, and a commit that has requested
\* a writeback has its job in the queue as soon as it is past queuing it.
JobOrder ==
  /\ \A c \in Commits : st[c].wb => st[c].active
  /\ \A c \in Commits : st[c].active => cpc[c] \in Queuing \cup {"queue"}
  /\ \A c \in Commits : st[c].active /\ cpc[c] \in Queuing => c \in Waiting \cup Taken
  /\ \A c \in Waiting \cup Taken : c \in Commits /\ cpc[c] \in Queuing
  /\ \A i, j \in DOMAIN jobQueue : i < j => jobQueue[i] < jobQueue[j]

Before(c) == \A j \in Taken : j < c

\* The worker may still run for this state.
Live(c) ==
  \/ Pending(c)
  \/ tpc # "idle" /\ tstate = c
  \/ c >= composerState
  \/ run.pc \in {"read", "lock"} /\ run.state = c

\* While a state's request stands and its work may still run, only jobs of
\* earlier commits have been taken; so it is until that run has signalled.
WriteInv ==
  /\ \A c \in Commits :
       st[c].wb /\ Live(c) /\ ~(run.pc = "clear" /\ run.state = c) => Before(c)
  /\ run.pc \in {"compose", "signal"} /\ run.wb => Before(run.state) /\ st[run.state].active
  /\ run.pc = "signal" => run.wb

JobInv == JobOrder /\ WriteInv

\* The writeback requests of the states: all JobInv sees of st.
SameRequests == \A c \in Commits : st'[c].wb = st[c].wb /\ st'[c].active = st[c].active

\* At the start there are no writeback jobs.
LEMMA JobInit == Init => JobInv
<1> SUFFICES ASSUME Init PROVE JobInv
  OBVIOUS
<1>1. \A c \in Commits : ~st[c].wb /\ ~st[c].active
  BY DEF Init, Fresh
<1>2. Waiting = {} /\ Taken = {} /\ jobQueue = << >>
  BY DEF Init, Waiting, Taken, Elems
<1>3. run.pc = "idle"
  BY DEF Init, NoWork
<1> QED
  BY <1>1, <1>2, <1>3 DEF JobInv, JobOrder, WriteInv

\* The timer leaves the jobs as they are.
LEMMA JobTimer ==
  ASSUME Typed, JobInv, Timer
  PROVE  JobInv'
<1>1. UNCHANGED <<composerState, cpc, run, jobQueue, cleaning, freedJobs>>
  BY DEF Timer, HandleVblank, CheckEnabled, RecordFrame, QueueWork, outputVars, commitVars,
     workVars, jobVars
<1>2. SameRequests
  <2>1. CASE RecordFrame
    BY <2>1 DEF RecordFrame, SameRequests, Typed, TimerTyped, StateType
  <2>2. CASE ~RecordFrame
    BY <2>2 DEF Timer, HandleVblank, CheckEnabled, QueueWork, SameRequests, workVars
  <2> QED
    BY <2>1, <2>2
<1>3. Waiting' = Waiting /\ Taken' = Taken
  BY <1>1 DEF Waiting, Taken, Elems
<1>4. ASSUME NEW c \in Commits, Live(c)' PROVE Live(c)
  <2>1. CASE QueueWork
    <3>1. tpc # "idle" /\ tstate \in Commits /\ works \in Seq(Commits)
      BY <2>1 DEF QueueWork, Typed, TimerTyped, QueuesTyped
    <3>2. Pending(c)' => Pending(c) \/ c = tstate
      BY <2>1, <3>1, Appended DEF QueueWork, Queued, Pending
    <3> QED
      BY <1>1, <1>4, <2>1, <3>1, <3>2 DEF Live, QueueWork
  <2>2. CASE HandleVblank
    <3>1. works' = works /\ (tpc' # "idle" => tstate' = composerState)
      BY <2>2 DEF HandleVblank, workVars
    <3> QED
      BY <1>1, <1>4, <3>1, CommitsAreInts DEF Live, Pending
  <2>3. CASE CheckEnabled \/ RecordFrame
    <3>1. works' = works /\ tpc # "idle" /\ (tpc' # "idle" => tstate' = tstate)
      BY <2>3 DEF CheckEnabled, RecordFrame, workVars
    <3> QED
      BY <1>1, <1>4, <3>1 DEF Live, Pending
  <2> QED
    BY <2>1, <2>2, <2>3 DEF Timer
<1>5. JobOrder'
  BY <1>1, <1>2, <1>3 DEF JobInv, JobOrder, SameRequests
<1>6. WriteInv'
  <2>1. \A c : Before(c)' <=> Before(c)
    BY <1>3 DEF Before
  <2>2. run.pc # "idle" => run.state \in Commits
    BY DEF Typed
  <2> QED
    BY <1>1, <1>2, <1>4, <2>1, <2>2 DEF JobInv, WriteInv, SameRequests
<1> QED
  BY <1>5, <1>6 DEF JobInv

\* A step of the worker that touches neither the requests nor the jobs, and
\* whose run goes on to a place where nothing more is promised.
LEMMA JobRunsOn ==
  ASSUME Typed, JobInv, SameRequests,
         UNCHANGED <<composerState, cpc, tpc, tstate, jobQueue, cleaning, freedJobs>>,
         \A c \in Commits : Live(c)' => Live(c),
         run.pc = "clear" => st'[run.state].wb = FALSE,
         run'.pc # "clear",
         run'.pc \in {"compose", "signal"} /\ run'.wb =>
           /\ run'.state \in Commits /\ Before(run'.state) /\ st[run'.state].active,
         run'.pc = "signal" => run'.wb
  PROVE  JobInv'
<1>1. Waiting' = Waiting /\ Taken' = Taken
  BY DEF Waiting, Taken, Elems
<1>2. JobOrder'
  BY <1>1 DEF JobInv, JobOrder, SameRequests
<1>3. \A c : Before(c)' <=> Before(c)
  BY <1>1 DEF Before
<1>4. ASSUME NEW c \in Commits, st'[c].wb, Live(c)' PROVE Before(c)'
  <2>1. st[c].wb /\ Live(c) /\ ~(run.pc = "clear" /\ run.state = c)
    BY <1>4 DEF SameRequests
  <2> QED
    BY <1>3, <2>1 DEF JobInv, WriteInv
<1>5. run'.pc \in {"compose", "signal"} /\ run'.wb => Before(run.state)' /\ st'[run'.state].active
  BY <1>3 DEF SameRequests, Before, Taken
<1> QED
  BY <1>2, <1>4, <1>5 DEF JobInv, WriteInv

\* The worker's steps; the completion is the one that takes a job.
LEMMA JobWorker ==
  ASSUME Typed, OrderInv, WorkInv, JobInv, Worker
  PROVE  JobInv'
<1> USE CommitsAreInts
<1>0. /\ UNCHANGED <<composerState, cpc, tpc, tstate, freedJobs>>
      /\ run.pc # "idle" => run.state \in Commits
      /\ run \in RunType
  BY DEF Worker, StartWork, ReadWriteback, TakeFrames, Compose, ComposeFails, SignalCompletion,
     ClearPending, AddCrcEntry, timerVars, outputVars, commitVars, jobVars, Typed
<1>1. CASE StartWork
  <2>1. /\ works # << >> /\ works \in Seq(Commits) /\ works' = Tail(works)
        /\ run'.state = Head(works) /\ run'.pc = "read" /\ run.pc = "idle"
        /\ UNCHANGED <<st, jobQueue, cleaning>>
    BY <1>1 DEF StartWork, Typed, QueuesTyped, RunType, jobVars
  <2>2. Pending(Head(works)) /\ \A c : Pending(c)' => Pending(c)
    BY <2>1, Dropped DEF Pending
  <2>3. \A c \in Commits : Live(c)' => Live(c)
    BY <1>0, <2>1, <2>2 DEF Live
  <2> QED
    BY <1>0, <2>1, <2>3, JobRunsOn DEF SameRequests
<1>2. CASE ReadWriteback
  <2>1. /\ run.pc = "read" /\ run'.pc = "lock" /\ run'.state = run.state
        /\ UNCHANGED <<st, works, jobQueue, cleaning>>
    BY <1>0, <1>2 DEF ReadWriteback, RunType, jobVars
  <2>2. \A c \in Commits : Live(c)' => Live(c)
    BY <1>0, <2>1 DEF Live, Pending
  <2> QED
    BY <1>0, <2>1, <2>2, JobRunsOn DEF SameRequests
<1>3. CASE TakeFrames
  <2>1. /\ run.pc = "lock" /\ run.state \in Commits
        /\ UNCHANGED <<works, jobQueue, cleaning>>
        /\ \/ run'.pc = "idle"
           \/ run'.pc = "compose" /\ run'.state = run.state /\ run'.wb = st[run.state].wb
    <3>1. run' \in {NoWork, [run EXCEPT !.pc = "compose", !.wb = st[run.state].wb,
                             !.start = st[run.state].start, !.end = st[run.state].end]}
      BY <1>3 DEF TakeFrames
    <3>2. run' = NoWork \/ (run'.pc = "compose" /\ run'.state = run.state /\ run'.wb = st[run.state].wb)
      BY <1>0, <3>1 DEF RunType
    <3> QED
      BY <1>0, <1>3, <3>2 DEF TakeFrames, NoWork, jobVars
  <2>2. SameRequests
    BY <1>3, <2>1 DEF TakeFrames, SameRequests, Typed, StateType
  <2>3. \A c \in Commits : Live(c)' => Live(c)
    BY <1>0, <2>1 DEF Live, Pending
  <2>4. st[run.state].wb => Before(run.state) /\ st[run.state].active
    BY <2>1 DEF JobInv, JobOrder, WriteInv, Live
  <2> QED
    BY <1>0, <2>1, <2>2, <2>3, <2>4, JobRunsOn
<1>4. CASE Compose \/ ComposeFails \/ AddCrcEntry
  <2>1. /\ run.pc \in {"compose", "crc"}
        /\ UNCHANGED <<st, works, jobQueue, cleaning>>
        /\ \/ run'.pc \in {"idle", "crc"}
           \/ /\ run.pc = "compose" /\ run'.pc = "signal" /\ run'.state = run.state
              /\ run.wb /\ run'.wb
    BY <1>0, <1>4 DEF Compose, ComposeFails, AddCrcEntry, NoWork, RunType, jobVars
  <2>2. \A c \in Commits : Live(c)' => Live(c)
    BY <1>0, <2>1 DEF Live, Pending
  <2>3. run'.pc = "signal" => Before(run.state) /\ st[run.state].active
    BY <2>1 DEF JobInv, WriteInv
  <2> QED
    BY <1>0, <2>1, <2>2, <2>3, JobRunsOn DEF SameRequests
<1>5. CASE ClearPending
  <2>1. /\ run.pc = "clear" /\ run'.pc = "crc" /\ run.state \in Commits
        /\ st' = [st EXCEPT ![run.state].wb = FALSE]
        /\ UNCHANGED <<works, jobQueue, cleaning>>
    BY <1>0, <1>5 DEF ClearPending, RunType, jobVars
  <2>2. /\ \A c \in Commits : st'[c].active = st[c].active
        /\ \A c \in Commits \ {run.state} : st'[c].wb = st[c].wb
        /\ st'[run.state].wb = FALSE
    BY <2>1 DEF Typed, StateType
  <2>3. \A c \in Commits : Live(c)' => Live(c)
    BY <1>0, <2>1 DEF Live, Pending
  <2>4. Waiting' = Waiting /\ Taken' = Taken
    BY <1>0, <2>1 DEF Waiting, Taken, Elems
  <2>5. JobOrder'
    BY <1>0, <2>1, <2>2, <2>4 DEF JobInv, JobOrder
  <2>6. WriteInv'
    <3>1. ASSUME NEW c \in Commits, st'[c].wb, Live(c)' PROVE Before(c)'
      BY <2>2, <2>3, <2>4, <3>1 DEF JobInv, WriteInv, Before
    <3> QED
      BY <2>1, <3>1 DEF WriteInv
  <2> QED
    BY <2>5, <2>6 DEF JobInv
<1>6. CASE SignalCompletion
  <2>1. /\ run.pc = "signal" /\ run'.pc = "clear" /\ run'.state = run.state
        /\ run.state \in Commits
        /\ UNCHANGED <<st, works>>
    BY <1>0, <1>6 DEF SignalCompletion, RunType
  <2>2. Before(run.state) /\ st[run.state].active
    BY <2>1 DEF JobInv, WriteInv
  <2>3. \A c \in Commits : Live(c)' => Live(c)
    BY <1>0, <2>1 DEF Live, Pending
  <2>4. CASE jobQueue = << >>
    <3>1. UNCHANGED <<jobQueue, cleaning>>
      BY <1>6, <2>4 DEF SignalCompletion
    <3>2. Waiting' = Waiting /\ Taken' = Taken
      BY <1>0, <3>1 DEF Waiting, Taken, Elems
    <3>3. JobOrder'
      BY <1>0, <2>1, <3>1, <3>2 DEF JobInv, JobOrder
    <3>4. WriteInv'
      <4>1. ASSUME NEW c \in Commits, st'[c].wb, Live(c)' PROVE Before(c)'
        BY <2>1, <2>3, <3>2, <4>1 DEF JobInv, WriteInv, Before
      <4> QED
        BY <2>1, <4>1 DEF WriteInv
    <3> QED
      BY <3>3, <3>4 DEF JobInv
  <2>5. CASE jobQueue # << >>
    <3> DEFINE h == Head(jobQueue)
    <3>1. /\ cleaning' = Append(cleaning, h) /\ jobQueue' = Tail(jobQueue)
          /\ jobQueue \in Seq(Commits) /\ cleaning \in Seq(Commits)
      BY <1>6, <2>5 DEF SignalCompletion, Typed, QueuesTyped
    <3>2. /\ DOMAIN jobQueue = 1 .. Len(jobQueue) /\ Len(jobQueue) \in Nat /\ h = jobQueue[1]
          /\ h \in Commits
          /\ DOMAIN jobQueue' = 1 .. Len(jobQueue) - 1
          /\ \A i \in 1 .. Len(jobQueue) - 1 : i + 1 \in DOMAIN jobQueue /\ jobQueue'[i] = jobQueue[i + 1]
      BY <2>5, <3>1, Dropped
    <3> HIDE DEF h
    <3>3. Waiting = {h} \cup Waiting' /\ Taken' = Taken \cup {h}
      BY <1>0, <2>5, <3>1, <3>2, ElemsOfTail, ElemsOfAppend DEF Waiting, Taken, h
    <3>4. JobOrder'
      <4>1. ASSUME NEW i \in DOMAIN jobQueue', NEW j \in DOMAIN jobQueue', i < j
            PROVE  jobQueue'[i] < jobQueue'[j]
        <5>1. /\ i + 1 \in DOMAIN jobQueue /\ j + 1 \in DOMAIN jobQueue /\ i + 1 < j + 1
              /\ jobQueue'[i] = jobQueue[i + 1] /\ jobQueue'[j] = jobQueue[j + 1]
          BY <3>2, <4>1
        <5> QED
          BY <5>1 DEF JobInv, JobOrder
      <4>2. Waiting' \cup Taken' = Waiting \cup Taken
        BY <3>3
      <4> QED
        BY <1>0, <2>1, <4>1, <4>2 DEF JobInv, JobOrder
    <3>5. h <= run.state
      <4>1. cpc[run.state] \in Queuing \cup {"queue"}
        BY <2>1, <2>2 DEF JobInv, JobOrder
      <4>2. CASE cpc[run.state] \in Queuing
        <5>1. run.state \in Waiting
          <6>1. run.state \in Waiting \cup Taken
            BY <2>1, <2>2, <4>2 DEF JobInv, JobOrder
          <6>2. run.state \notin Taken
            BY <2>1, <2>2 DEF Before
          <6> QED
            BY <6>1, <6>2
        <5>2. PICK i \in DOMAIN jobQueue : jobQueue[i] = run.state
          BY <5>1 DEF Waiting, Elems
        <5>3. 1 < i => jobQueue[1] < jobQueue[i]
          BY <2>1, <3>2, <5>2 DEF JobInv, JobOrder
        <5>4. i = 1 \/ 1 < i
          BY <3>2, <5>2
        <5> QED
          BY <2>1, <3>2, <5>2, <5>3, <5>4
      <4>3. CASE cpc[run.state] = "queue"
        <5>1. run.state = composerState
          BY <2>1, <4>3, UnderWayIsNewest DEF Flipped
        <5>2. h \in Waiting
          BY <3>3
        <5>3. cpc[h] # "new"
          BY <5>2 DEF JobInv, JobOrder, Queuing, Flipped
        <5> QED
          BY <2>1, <3>2, <5>1, <5>3 DEF OrderInv, CommitOrder
      <4> QED
        BY <4>1, <4>2, <4>3
    <3>6. WriteInv'
      <4>1. ASSUME NEW c \in Commits, st'[c].wb, Live(c)', c # run.state PROVE Before(c)'
        <5>1. Before(c)
          BY <2>1, <2>3, <4>1 DEF JobInv, WriteInv
        <5>2. c > run.state
          <6>1. Pending(c) => run.state <= c
            BY <2>1 DEF WorkInv, WorkOrder, Pending
          <6>2. (tpc # "idle" /\ tstate = c) \/ c >= composerState => run.state <= c
            BY <2>1 DEF WorkInv, WorkOrder
          <6>3. Pending(c) \/ (tpc # "idle" /\ tstate = c) \/ c >= composerState
            BY <2>1, <2>3, <4>1 DEF Live
          <6> QED
            BY <2>1, <4>1, <6>1, <6>2, <6>3
        <5> QED
          BY <2>1, <3>2, <3>3, <3>5, <5>1, <5>2 DEF Before
      <4> QED
        BY <2>1, <4>1 DEF WriteInv
    <3> QED
      BY <3>4, <3>6 DEF JobInv
  <2> QED
    BY <2>4, <2>5
<1> QED
  BY <1>1, <1>2, <1>3, <1>4, <1>5, <1>6 DEF Worker

\* A clean-up frees a job the worker has completed.
LEMMA JobCleanup ==
  ASSUME Typed, JobInv, Cleanup
  PROVE  JobInv'
<1>1. UNCHANGED <<composerState, cpc, tpc, tstate, st, works, run, jobQueue>>
  BY DEF Cleanup, CleanupDisable, CleanupFree, timerVars, outputVars, workVars, commitVars
<1>2. cleaning # << >> /\ cleaning \in Seq(Commits)
  BY DEF Cleanup, CleanupDisable, CleanupFree, Typed, QueuesTyped
<1>3. Elems(cleaning) = {Head(cleaning)} \cup Elems(Tail(cleaning))
  BY <1>2, ElemsOfTail
<1>4. Taken' = Taken
  <2>1. CASE CleanupDisable
    BY <1>3, <2>1 DEF CleanupDisable, Taken, Elems
  <2>2. CASE CleanupFree
    <3>1. /\ Head(cleaning) \in freedJobs /\ freedJobs' = freedJobs
          /\ cleaning' = Tail(cleaning)
      BY <2>2 DEF CleanupFree
    <3>2. Elems(cleaning)' = Elems(Tail(cleaning))
      BY <3>1 DEF Elems
    <3> QED
      BY <1>3, <3>1, <3>2 DEF Taken
  <2> QED
    BY <2>1, <2>2 DEF Cleanup
<1>5. Waiting' = Waiting
  BY <1>1 DEF Waiting, Elems
<1> QED
  BY <1>1, <1>4, <1>5 DEF JobInv, JobOrder, WriteInv, Before, Live, Pending

\* A commit queues a job of its own.
LEMMA JobCommit ==
  ASSUME Typed, OrderInv, WorkInv, JobInv, NEW c \in Commits, Commit(c)
  PROVE  JobInv'
<1> USE CommitsAreInts
<1>1. UNCHANGED <<tpc, tstate, works, run, cleaning, freedJobs>>
  BY DEF Commit, AtomicFlush, WritebackEnable, WritebackRequest, WritebackQueueJob,
     WritebackFormat, FlipDone, FlushWork, timerVars, workVars, jobVars
<1>2. Taken' = Taken
  BY <1>1 DEF Taken, Elems
<1>3. composerState' >= composerState /\ composerState' \in Int
  BY OrderFlush, OrderCommit
<1>4. \A d \in Commits : Live(d)' => Live(d)
  BY <1>1, <1>3 DEF Live, Pending
<1>5. run.pc # "idle" => run.state \in Commits
  BY DEF Typed
<1>6. \* WriteInv follows where no request is made.
      ASSUME SameRequests PROVE WriteInv'
  <2>1. ASSUME NEW d \in Commits, st'[d].wb, Live(d)', ~(run.pc = "clear" /\ run.state = d)
        PROVE  Before(d)'
    BY <1>2, <1>4, <1>6, <2>1 DEF JobInv, WriteInv, SameRequests, Before
  <2> QED
    BY <1>1, <1>2, <1>5, <1>6, <2>1 DEF JobInv, WriteInv, SameRequests, Before
<1>7. CASE WritebackRequest(c)
  <2>1. /\ cpc[c] = "request" /\ cpc' = [cpc EXCEPT ![c] = "queue"]
        /\ st' = [st EXCEPT ![c].active = TRUE, ![c].wb = TRUE]
        /\ UNCHANGED jobQueue
    BY <1>7 DEF WritebackRequest, At, Goto, jobVars
  <2>2. /\ st'[c].wb /\ st'[c].active /\ cpc'[c] = "queue"
        /\ \A d \in Commits \ {c} : st'[d] = st[d] /\ cpc'[d] = cpc[d]
    BY <2>1 DEF Typed, StateType
  <2>3. c = composerState
    BY <2>1, UnderWayIsNewest DEF Flipped
  <2>4. Waiting' = Waiting
    BY <2>1 DEF Waiting, Elems
  <2>5. c \notin Waiting \cup Taken
    BY <2>1 DEF JobInv, JobOrder, Queuing, Flipped
  <2>6. JobOrder'
    <3>1. \A d \in Commits : st'[d].wb => st'[d].active
      BY <2>2 DEF JobInv, JobOrder
    <3>2. \A d \in Commits : st'[d].active => cpc'[d] \in Queuing \cup {"queue"}
      BY <2>2 DEF JobInv, JobOrder
    <3>3. \A d \in Commits : st'[d].active /\ cpc'[d] \in Queuing => d \in Waiting \cup Taken
      BY <2>2 DEF JobInv, JobOrder, Queuing, Flipped
    <3>4. \A d \in Waiting \cup Taken : d \in Commits /\ cpc'[d] \in Queuing
      BY <2>2, <2>5 DEF JobInv, JobOrder
    <3>5. \A i, j \in DOMAIN jobQueue' : i < j => jobQueue'[i] < jobQueue'[j]
      BY <2>1 DEF JobInv, JobOrder
    <3> QED
      BY <1>2, <2>4, <3>1, <3>2, <3>3, <3>4, <3>5 DEF JobOrder
  <2>7. Before(c)
    <3> SUFFICES ASSUME NEW j \in Taken PROVE j < c
      BY DEF Before
    <3>1. j \in Commits /\ cpc[j] # "new" /\ j # c
      BY <2>5 DEF JobInv, JobOrder, Queuing, Flipped
    <3> QED
      BY <2>3, <3>1 DEF OrderInv, CommitOrder
  <2>8. WriteInv'
    <3>1. ASSUME NEW d \in Commits, st'[d].wb, Live(d)', ~(run.pc = "clear" /\ run.state = d)
          PROVE  Before(d)'
      <4>1. CASE d = c
        BY <1>2, <2>7, <4>1 DEF Before
      <4>2. CASE d # c
        BY <1>2, <1>4, <2>2, <3>1, <4>2 DEF JobInv, WriteInv, Before
      <4> QED
        BY <4>1, <4>2
    <3>2. run.pc \in {"compose", "signal"} /\ run.wb => Before(run.state) /\ st'[run.state].active
      BY <1>5, <2>2 DEF JobInv, WriteInv
    <3> QED
      BY <1>1, <1>2, <3>1, <3>2 DEF JobInv, WriteInv, Before
  <2> QED
    BY <2>6, <2>8 DEF JobInv
<1>8. CASE WritebackQueueJob(c)
  <2>1. /\ cpc[c] = "queue" /\ cpc' = [cpc EXCEPT ![c] = "format"]
        /\ jobQueue' = Append(jobQueue, c) /\ UNCHANGED st
        /\ jobQueue \in Seq(Commits)
    BY <1>8 DEF WritebackQueueJob, At, Goto, workVars, Typed, QueuesTyped
  <2>2. cpc'[c] = "format" /\ \A d \in Commits \ {c} : cpc'[d] = cpc[d]
    BY <2>1 DEF Typed
  <2>3. c = composerState
    BY <2>1, UnderWayIsNewest DEF Flipped
  <2>4. Waiting' = Waiting \cup {c}
    BY <2>1, ElemsOfAppend DEF Waiting
  <2>5. \A j \in Waiting : j < c
    <3> SUFFICES ASSUME NEW j \in Waiting PROVE j < c
      OBVIOUS
    <3>1. j \in Commits /\ cpc[j] # "new" /\ j # c
      BY <2>1 DEF JobInv, JobOrder, Queuing, Flipped
    <3> QED
      BY <2>3, <3>1 DEF OrderInv, CommitOrder
  <2>6. ASSUME NEW i \in DOMAIN jobQueue', NEW j \in DOMAIN jobQueue', i < j
        PROVE  jobQueue'[i] < jobQueue'[j]
    <3>1. /\ DOMAIN jobQueue = 1 .. Len(jobQueue) /\ Len(jobQueue) \in Nat
          /\ DOMAIN jobQueue' = 1 .. Len(jobQueue) + 1
          /\ \A l \in 1 .. Len(jobQueue) : jobQueue'[l] = jobQueue[l] /\ jobQueue[l] \in Waiting
          /\ jobQueue'[Len(jobQueue) + 1] = c
      BY <2>1, Appended DEF Waiting, Elems
    <3> QED
      BY <2>5, <2>6, <3>1 DEF JobInv, JobOrder
  <2>7. JobOrder'
    <3>1. \A d \in Commits : st[d].active => cpc'[d] \in Queuing \cup {"queue"}
      BY <2>2 DEF JobInv, JobOrder, Queuing
    <3>2. \A d \in Commits : st[d].active /\ cpc'[d] \in Queuing => d \in Waiting' \cup Taken
      BY <2>2, <2>4 DEF JobInv, JobOrder
    <3>3. \A d \in Waiting' \cup Taken : d \in Commits /\ cpc'[d] \in Queuing
      BY <2>2, <2>4 DEF JobInv, JobOrder, Queuing
    <3> QED
      BY <1>2, <2>1, <2>6, <3>1, <3>2, <3>3 DEF JobInv, JobOrder
  <2>8. SameRequests
    BY <2>1 DEF SameRequests
  <2> QED
    BY <1>6, <2>7, <2>8 DEF JobInv
<1>9. CASE ~WritebackRequest(c) /\ ~WritebackQueueJob(c)
  <2>1. UNCHANGED <<st, jobQueue>>
    BY <1>9 DEF Commit, AtomicFlush, WritebackEnable, WritebackFormat, FlipDone, FlushWork,
       workVars, jobVars
  <2>2. \A d \in Commits : /\ cpc[d] \in Queuing => cpc'[d] \in Queuing
                           /\ cpc[d] = "queue" => cpc'[d] = "queue"
                           /\ cpc'[d] \in Queuing => cpc[d] \in Queuing \/ ~st[d].active
    <3>1. PICK l \in {"enable", "request", "flip", "flush", "done"} :
            cpc' = [cpc EXCEPT ![c] = l]
      BY <1>9 DEF Commit, AtomicFlush, WritebackEnable, WritebackFormat, FlipDone, FlushWork, Goto
    <3>2. /\ cpc'[c] = l
          /\ \A d \in Commits \ {c} : cpc'[d] = cpc[d]
      BY <3>1 DEF Typed
    <3>3. \/ cpc[c] \in {"new", "enable"}
          \/ cpc[c] \in {"format", "flip", "flush"} /\ l \in Queuing
      <4>1. CASE AtomicFlush(c) \/ WritebackEnable(c)
        BY <4>1 DEF AtomicFlush, MayCommit, WritebackEnable, At
      <4>2. CASE WritebackFormat(c) \/ FlipDone(c) \/ FlushWork(c)
        <5>1. cpc[c] \in {"format", "flip", "flush"}
          BY <4>2 DEF WritebackFormat, FlipDone, FlushWork, At
        <5>2. cpc'[c] \in {"flip", "flush", "done"}
          BY <4>2 DEF WritebackFormat, FlipDone, FlushWork, Goto, Typed
        <5> QED
          BY <3>2, <5>1, <5>2 DEF Queuing, Flipped
      <4> QED
        BY <1>9, <4>1, <4>2 DEF Commit
    <3>4. cpc[c] \in {"new", "enable"} => ~st[c].active
      BY DEF JobInv, JobOrder, Queuing, Flipped
    <3> QED
      BY <3>2, <3>3, <3>4 DEF Queuing, Flipped
  <2>3. Waiting' = Waiting
    BY <2>1 DEF Waiting, Elems
  <2>4. JobOrder'
    BY <1>2, <2>1, <2>2, <2>3 DEF JobInv, JobOrder
  <2>5. SameRequests
    BY <2>1 DEF SameRequests
  <2> QED
    BY <1>6, <2>4, <2>5 DEF JobInv
<1> QED
  BY <1>7, <1>8, <1>9

\* Every step keeps the jobs in use alive.
LEMMA JobNext == Typed /\ OrderInv /\ WorkInv /\ JobInv /\ [Next]_vars => JobInv'
<1> SUFFICES ASSUME Typed, OrderInv, WorkInv, JobInv, [Next]_vars PROVE JobInv'
  OBVIOUS
<1>1. ASSUME UNCHANGED <<composerState, cpc, tpc, tstate, works, run, st, jobVars>> PROVE JobInv'
  BY <1>1 DEF JobInv, JobOrder, WriteInv, Before, Live, Pending, Waiting, Taken, Elems, jobVars
<1>2. CASE Timer
  BY <1>2, JobTimer
<1>3. CASE Worker
  BY <1>3, JobWorker
<1>4. CASE Cleanup
  BY <1>4, JobCleanup
<1>5. ASSUME NEW c \in Commits, Commit(c) PROVE JobInv'
  BY <1>5, JobCommit
<1>6. CASE SetCrcSource \/ UNCHANGED vars
  BY <1>1, <1>6 DEF SetCrcSource, vars, timerVars, outputVars, workVars, commitVars
<1>7. ASSUME NEW k \in Callers, Swap(k) \/ Put(k) PROVE JobInv'
  BY <1>1, <1>7 DEF Swap, Put, timerVars, workVars, commitVars
<1> QED
  BY <1>2, <1>3, <1>4, <1>5, <1>6, <1>7 DEF Next

\* For any number of commits and vblanks, however timer, worker, commits and
\* clean-ups interleave: no destroyed CRTC state is held, queued or run, and
\* the worker writes to no job that has been cleaned up.
THEOREM NothingUsedAfterFree == Spec => []NoUseAfterFree
<1> DEFINE Inv == Typed /\ OrderInv /\ WorkInv /\ JobInv
<1>1. Init => Inv
  BY TypedInit, OrderInit, WorkInit, JobInit
<1>2. Inv /\ [Next]_vars => Inv'
  BY TypedNext, OrderNext, WorkNext, JobNext
<1>3. Inv => NoUseAfterFree
  <2> SUFFICES ASSUME Inv PROVE StateAlive /\ JobAlive
    BY DEF NoUseAfterFree
  <2>1. tpc # "idle" => tstate \notin freedStates
    BY TimerHoldsAlive
  <2>2. run.pc # "idle" => run.state \notin freedStates
    BY DEF WorkInv, FreedAreDone
  <2>3. \A s \in freedStates : ~Pending(s)
    BY DEF WorkInv, FreedAreDone
  <2>4. composerState \notin freedStates
    <3> SUFFICES ASSUME composerState \in freedStates PROVE FALSE
      OBVIOUS
    <3>1. composerState + 1 \in Commits /\ cpc[composerState + 1] = "done"
      BY DEF WorkInv, FreedAreDone
    <3> QED
      BY <3>1, CommitsAreInts DEF OrderInv, CommitOrder
  <2>5. JobAlive
    <3> SUFFICES ASSUME run.pc = "compose", Writes, run.state \in freedJobs PROVE FALSE
      BY DEF JobAlive
    <3>1. Before(run.state) /\ run.state \in Taken /\ run.state \in Int
      BY CommitsAreInts DEF Typed, JobInv, WriteInv, Writes, Taken
    <3> QED
      BY <3>1 DEF Before
  <2> QED
    BY <2>1, <2>2, <2>3, <2>4, <2>5 DEF StateAlive
<1> HIDE DEF Inv
<1> QED
  BY <1>1, <1>2, <1>3, PTL DEF Spec

-----------------------------------------------------------------------------
(* Frames: their ranges never overlap, and the worker comes for all.       *)

\* The frame has been recorded: the timer, at a new one, has not yet.
Recorded(f) == f <= count /\ (tpc \in {"check", "record"} => f < count)

\* Reported frames, the worker's range, and the ranges of the states follow
\* each other, the states' in the order of the commits.
RangeInv ==
  /\ lastCrc \in Nat /\ Recorded(lastCrc)
  /\ Working => lastCrc < run.start /\ Recorded(run.end)
  /\ \A c \in Commits : st[c].crc =>
       /\ lastCrc < st[c].start /\ st[c].start <= st[c].end /\ Recorded(st[c].end)
       /\ Working => run.end < st[c].start
  /\ \A c, d \in Commits : c < d /\ st[c].crc /\ st[d].crc => st[c].end < st[d].start

\* The worker will come for this state's frames.
Coming(c) ==
  \/ Pending(c)
  \/ tpc = "queue" /\ tstate = c
  \/ run.pc \in {"read", "lock"} /\ run.state = c

\* The two halves of NoFrameForgotten.
DueInv ==
  \A f \in due :
    \/ \E c \in Commits : st[c].crc /\ f \in st[c].start .. st[c].end
    \/ Working /\ f \in run.start .. run.end
ComingInv == \A c \in Commits : st[c].crc => Coming(c)

FrameInv == RangeInv /\ DueInv /\ ComingInv

\* At the start no frame is due.
LEMMA FrameInit == Init => FrameInv
<1> SUFFICES ASSUME Init PROVE FrameInv
  OBVIOUS
<1>1. \A c \in Commits : ~st[c].crc
  BY DEF Init, Fresh
<1>2. run.pc = "idle" /\ tpc = "idle" /\ due = {} /\ lastCrc = 0 /\ count = 0
  BY DEF Init, NoWork
<1> QED
  BY <1>1, <1>2 DEF FrameInv, RangeInv, DueInv, ComingInv, Working, Recorded

\* The frame numbers are numbers.
LEMMA FramesAreInts ==
  ASSUME Typed
  PROVE  /\ count \in Nat /\ run.start \in Nat /\ run.end \in Nat
         /\ \A c \in Commits : st[c].start \in Nat /\ st[c].end \in Nat /\ st[c].crc \in BOOLEAN
  BY DEF Typed, TimerTyped, RunType, StateType

\* The timer's steps; recording a frame is the one that extends a range.
LEMMA FrameTimer ==
  ASSUME Typed, OrderInv, WorkInv, FrameInv, Timer
  PROVE  FrameInv'
<1> USE CommitsAreInts, FramesAreInts
<1>1. UNCHANGED <<run, lastCrc>> /\ (Working' <=> Working)
  BY DEF Timer, HandleVblank, CheckEnabled, RecordFrame, QueueWork, workVars, ghosts, Working
<1>2. CASE HandleVblank
  <2>1. /\ tpc = "idle" /\ tpc' \in {"idle", "check"} /\ count' = count + 1
        /\ UNCHANGED <<st, works, due>>
    BY <1>2 DEF HandleVblank, workVars, ghosts
  <2>2. RangeInv'
    BY <1>1, <2>1 DEF FrameInv, RangeInv, Recorded
  <2>3. DueInv' /\ ComingInv'
    BY <1>1, <2>1 DEF FrameInv, DueInv, ComingInv, Coming, Pending
  <2> QED
    BY <2>2, <2>3 DEF FrameInv
<1>3. CASE CheckEnabled
  <2>1. /\ tpc = "check" /\ tpc' \in {"idle", "record"} /\ count' = count
        /\ UNCHANGED <<st, works, due>>
    BY <1>3 DEF CheckEnabled, workVars, ghosts
  <2>2. RangeInv'
    BY <1>1, <2>1 DEF FrameInv, RangeInv, Recorded
  <2>3. DueInv' /\ ComingInv'
    BY <1>1, <2>1 DEF FrameInv, DueInv, ComingInv, Coming, Pending
  <2> QED
    BY <2>2, <2>3 DEF FrameInv
<1>4. CASE QueueWork
  <2>1. /\ tpc = "queue" /\ tpc' = "idle" /\ count' = count /\ tstate \in Commits
        /\ works \in Seq(Commits)
        /\ UNCHANGED <<st, due>>
    BY <1>4 DEF QueueWork, ghosts, Typed, TimerTyped, QueuesTyped
  <2>2. RangeInv'
    BY <1>1, <2>1 DEF FrameInv, RangeInv, Recorded
  <2>3. \A c \in Commits : Pending(c) \/ c = tstate => Pending(c)'
    <3>1. CASE Pending(tstate)
      BY <1>4, <3>1 DEF QueueWork, Queued, Pending
    <3>2. CASE ~Pending(tstate)
      <4>1. DOMAIN works = 1 .. Len(works) /\ Len(works) \in Nat
        BY <2>1
      <4>2. /\ DOMAIN works' = 1 .. Len(works) + 1
            /\ \A i \in 1 .. Len(works) : works'[i] = works[i]
            /\ works'[Len(works) + 1] = tstate
        <5>1. works' = Append(works, tstate)
          BY <1>4, <3>2 DEF QueueWork, Queued
        <5> QED
          BY <2>1, <5>1, Appended
      <4>3. ASSUME NEW c \in Commits, Pending(c) PROVE Pending(c)'
        <5>1. PICK i \in DOMAIN works : works[i] = c
          BY <4>3 DEF Pending
        <5>2. i \in DOMAIN works' /\ works'[i] = c
          BY <4>1, <4>2, <5>1
        <5> QED
          BY <5>2 DEF Pending
      <4>4. ASSUME NEW c \in Commits, c = tstate PROVE Pending(c)'
        <5>1. Len(works) + 1 \in 1 .. Len(works) + 1
          BY <4>1
        <5> QED
          BY <4>2, <4>4, <5>1 DEF Pending
      <4> QED
        BY <4>3, <4>4
    <3> QED
      BY <3>1, <3>2
  <2>4. DueInv' /\ ComingInv'
    BY <1>1, <2>1, <2>3 DEF FrameInv, DueInv, ComingInv, Coming
  <2> QED
    BY <2>2, <2>4 DEF FrameInv
<1>5. CASE RecordFrame
  <2>1. /\ tpc = "record" /\ tpc' = "queue" /\ tstate \in Commits
        /\ tstate' = tstate /\ count' = count /\ works' = works
        /\ due' = due \cup {count}
    BY <1>5 DEF RecordFrame, Typed, TimerTyped
  <2>2. /\ \A c \in Commits \ {tstate} : st'[c] = st[c]
        /\ st'[tstate].crc /\ st'[tstate].end = count
        /\ st'[tstate].start = IF st[tstate].crc THEN st[tstate].start ELSE count
    BY <1>5, <2>1 DEF RecordFrame, NewStart, Typed, StateType
  <2>3. \A c \in Commits : st[c].crc => c <= tstate
    <3> SUFFICES ASSUME NEW c \in Commits, st[c].crc PROVE c <= tstate
      OBVIOUS
    <3>1. Pending(c) \/ (run.pc \in {"read", "lock"} /\ run.state = c)
      BY <2>1 DEF FrameInv, ComingInv, Coming
    <3> QED
      BY <2>1, <3>1 DEF WorkInv, WorkOrder, Pending
  <2>4. RangeInv'
    <3>1. lastCrc < count /\ (Working => run.end < count)
      BY <2>1 DEF FrameInv, RangeInv, Recorded
    <3>2. ASSUME NEW c \in Commits, st'[c].crc
          PROVE  /\ lastCrc < st'[c].start /\ st'[c].start <= st'[c].end /\ st'[c].end <= count
                 /\ Working => run.end < st'[c].start
      <4>1. CASE c = tstate
        BY <2>1, <2>2, <3>1, <4>1 DEF FrameInv, RangeInv, Recorded
      <4>2. CASE c # tstate
        BY <2>2, <3>2, <4>2 DEF FrameInv, RangeInv, Recorded
      <4> QED
        BY <4>1, <4>2
    <3>3. ASSUME NEW c \in Commits, NEW d \in Commits, c < d, st'[c].crc, st'[d].crc
          PROVE  st'[c].end < st'[d].start
      <4>1. CASE d = tstate
        <5>1. st[c].crc /\ st'[c].end = st[c].end /\ st[c].end < count
          BY <2>1, <2>2, <3>3, <4>1 DEF FrameInv, RangeInv, Recorded
        <5> QED
          BY <2>2, <3>3, <4>1, <5>1 DEF FrameInv, RangeInv
      <4>2. CASE d # tstate
        <5>1. st[d].crc /\ d <= tstate /\ c # tstate
          BY <2>1, <2>2, <2>3, <3>3, <4>2
        <5> QED
          BY <2>2, <3>3, <4>2, <5>1 DEF FrameInv, RangeInv
      <4> QED
        BY <4>1, <4>2
    <3> QED
      BY <1>1, <2>1, <3>1, <3>2, <3>3 DEF FrameInv, RangeInv, Recorded
  <2>5. DueInv'
    <3> SUFFICES ASSUME NEW f \in due'
                 PROVE  \/ \E c \in Commits : st'[c].crc /\ f \in st'[c].start .. st'[c].end
                        \/ Working /\ f \in run.start .. run.end
      BY <1>1 DEF DueInv
    <3>1. CASE f = count
      <4>1. f \in st'[tstate].start .. st'[tstate].end
        BY <2>1, <2>2, <3>1 DEF FrameInv, RangeInv, Recorded
      <4> QED
        BY <2>1, <2>2, <4>1
    <3>2. ASSUME NEW c \in Commits, st[c].crc, f \in st[c].start .. st[c].end
          PROVE  st'[c].crc /\ f \in st'[c].start .. st'[c].end
      <4>1. CASE c = tstate
        BY <2>1, <2>2, <3>2, <4>1 DEF FrameInv, RangeInv, Recorded
      <4>2. CASE c # tstate
        BY <2>2, <3>2, <4>2
      <4> QED
        BY <4>1, <4>2
    <3> QED
      BY <2>1, <3>1, <3>2 DEF FrameInv, DueInv
  <2>6. ComingInv'
    <3> SUFFICES ASSUME NEW c \in Commits, st'[c].crc PROVE Coming(c)'
      BY DEF ComingInv
    <3>1. CASE c = tstate
      BY <2>1, <3>1 DEF Coming
    <3>2. CASE c # tstate
      BY <1>1, <2>1, <2>2, <3>2 DEF FrameInv, ComingInv, Coming, Pending
    <3> QED
      BY <3>1, <3>2
  <2> QED
    BY <2>4, <2>5, <2>6 DEF FrameInv
<1> QED
  BY <1>2, <1>3, <1>4, <1>5 DEF Timer

\* The worker's; it takes the ranges in the order of the commits.
LEMMA FrameWorker ==
  ASSUME Typed, WorkInv, FrameInv, Worker
  PROVE  FrameInv'
<1> USE CommitsAreInts, FramesAreInts
<1>0. /\ UNCHANGED <<count, tpc, tstate>> /\ (\A f : Recorded(f)' <=> Recorded(f))
      /\ run \in RunType /\ (run.pc # "idle" => run.state \in Commits)
  BY DEF Worker, StartWork, ReadWriteback, TakeFrames, Compose, ComposeFails, SignalCompletion,
     ClearPending, AddCrcEntry, timerVars, Typed, Recorded
<1>1. CASE StartWork
  <2>1. /\ works # << >> /\ works \in Seq(Commits) /\ works' = Tail(works)
        /\ run'.state = Head(works) /\ run'.pc = "read" /\ run.pc = "idle"
        /\ ~Working /\ ~Working'
        /\ UNCHANGED <<st, due, lastCrc>>
    BY <1>1 DEF StartWork, Typed, QueuesTyped, RunType, ghosts, Working
  <2>2. RangeInv' /\ DueInv'
    BY <1>0, <2>1 DEF FrameInv, RangeInv, DueInv
  <2>3. ASSUME NEW c \in Commits, Pending(c), c # Head(works) PROVE Pending(c)'
    <3>1. PICK i \in DOMAIN works : works[i] = c
      BY <2>3 DEF Pending
    <3>2. i \in 1 .. Len(works) /\ i # 1 /\ Len(works) \in Nat
      BY <2>1, <2>3, <3>1
    <3>3. /\ DOMAIN works' = 1 .. Len(works) - 1
          /\ \A j \in 1 .. Len(works) - 1 : works'[j] = works[j + 1]
      BY <2>1, Dropped
    <3>4. i - 1 \in 1 .. Len(works) - 1 /\ (i - 1) + 1 = i
      BY <3>2
    <3>5. i - 1 \in DOMAIN works' /\ works'[i - 1] = c
      BY <3>1, <3>3, <3>4
    <3> QED
      BY <3>5 DEF Pending
  <2>4. ComingInv'
    BY <1>0, <2>1, <2>3 DEF FrameInv, ComingInv, Coming
  <2> QED
    BY <2>2, <2>4 DEF FrameInv
<1>2. CASE ReadWriteback
  <2>1. /\ run.pc = "read" /\ run'.pc = "lock" /\ run'.state = run.state
        /\ ~Working /\ ~Working'
        /\ UNCHANGED <<st, works, due, lastCrc>>
    BY <1>0, <1>2 DEF ReadWriteback, RunType, ghosts, Working
  <2> QED
    BY <1>0, <2>1 DEF FrameInv, RangeInv, DueInv, ComingInv, Coming, Pending
<1>3. CASE TakeFrames
  <2>1. /\ run.pc = "lock" /\ run.state \in Commits /\ ~Working
        /\ UNCHANGED <<works, due, lastCrc>>
    BY <1>0, <1>3 DEF TakeFrames, ghosts, Working
  <2>2. /\ \A c \in Commits \ {run.state} : st'[c] = st[c]
        /\ st'[run.state].crc = FALSE
    BY <1>3, <2>1 DEF TakeFrames, Typed, StateType
  <2>3. \A c \in Commits : st[c].crc => c >= run.state
    BY <2>1 DEF FrameInv, ComingInv, Coming, WorkInv, WorkOrder, Pending
  <2>4. ComingInv'
    BY <1>0, <2>1, <2>2 DEF FrameInv, ComingInv, Coming, Pending
  <2>5. CASE st[run.state].crc
    <3>1. /\ run'.start = st[run.state].start /\ run'.end = st[run.state].end /\ Working'
      BY <1>0, <1>3, <2>5 DEF TakeFrames, HasFrames, RunType, Working
    <3>2. RangeInv'
      <4>1. ASSUME NEW c \in Commits, st'[c].crc
            PROVE  c # run.state /\ st'[c] = st[c] /\ run'.end < st'[c].start
        <5>1. c # run.state /\ st'[c] = st[c]
          BY <2>2, <4>1
        <5>2. c > run.state
          BY <2>1, <2>3, <4>1, <5>1
        <5> QED
          BY <2>1, <2>5, <3>1, <4>1, <5>1, <5>2 DEF FrameInv, RangeInv
      <4> QED
        BY <1>0, <2>1, <2>5, <3>1, <4>1 DEF FrameInv, RangeInv
    <3>3. DueInv'
      <4> SUFFICES ASSUME NEW f \in due
                   PROVE  \/ \E c \in Commits : st'[c].crc /\ f \in st'[c].start .. st'[c].end
                          \/ f \in run'.start .. run'.end
        BY <2>1, <3>1 DEF DueInv
      <4>1. PICK c \in Commits : st[c].crc /\ f \in st[c].start .. st[c].end
        BY <2>1 DEF FrameInv, DueInv
      <4> QED
        BY <2>2, <3>1, <4>1
    <3> QED
      BY <2>4, <3>2, <3>3 DEF FrameInv
  <2>6. CASE ~st[run.state].crc
    <3>1. ~Working'
      BY <1>3, <2>6 DEF TakeFrames, HasFrames, NoWork, Working
    <3>2. RangeInv'
      BY <1>0, <2>1, <2>2, <3>1 DEF FrameInv, RangeInv
    <3>3. DueInv'
      BY <2>1, <2>2, <2>6, <3>1 DEF FrameInv, DueInv
    <3> QED
      BY <2>4, <3>2, <3>3 DEF FrameInv
  <2> QED
    BY <2>5, <2>6
<1>4. CASE Compose \/ SignalCompletion \/ ClearPending
  <2>1. /\ Working /\ Working' /\ run'.start = run.start /\ run'.end = run.end
        /\ run.pc \notin {"read", "lock"} /\ run'.pc \notin {"read", "lock"}
        /\ UNCHANGED <<works, due, lastCrc>>
    BY <1>0, <1>4 DEF Compose, SignalCompletion, ClearPending, RunType, Working, ghosts
  <2>2. \A c \in Commits : /\ st'[c].crc = st[c].crc /\ st'[c].start = st[c].start
                           /\ st'[c].end = st[c].end
    <3>1. CASE ClearPending
      BY <1>0, <3>1 DEF ClearPending, Typed, StateType
    <3>2. CASE ~ClearPending
      BY <1>4, <3>2 DEF Compose, SignalCompletion
    <3> QED
      BY <3>1, <3>2
  <2>3. RangeInv'
    BY <1>0, <2>1, <2>2 DEF FrameInv, RangeInv
  <2>4. DueInv'
    BY <2>1, <2>2 DEF FrameInv, DueInv
  <2>5. ComingInv'
    BY <1>0, <2>1, <2>2 DEF FrameInv, ComingInv, Coming, Pending
  <2> QED
    BY <2>3, <2>4, <2>5 DEF FrameInv
<1>5. CASE ComposeFails
  <2>1. /\ Working /\ ~Working' /\ run.pc \notin {"read", "lock"} /\ run'.pc \notin {"read", "lock"}
        /\ due' = due \ (run.start .. run.end)
        /\ UNCHANGED <<st, works, lastCrc>>
    BY <1>5 DEF ComposeFails, NoWork, Working
  <2> QED
    BY <1>0, <2>1 DEF FrameInv, RangeInv, DueInv, ComingInv, Coming, Pending
<1>6. CASE AddCrcEntry
  <2>1. /\ run.pc = "crc" /\ Working /\ run'.pc \in {"idle", "crc"}
        /\ UNCHANGED <<st, works>>
    BY <1>0, <1>6 DEF AddCrcEntry, NoWork, Working, RunType
  <2>2. ComingInv'
    BY <1>0, <2>1 DEF FrameInv, ComingInv, Coming, Pending
  <2>3. CASE run.start <= run.end
    <3>1. /\ run'.start = run.start + 1 /\ run'.end = run.end /\ Working'
          /\ due' = due \ {run.start} /\ lastCrc' = run.start
      BY <1>0, <1>6, <2>3 DEF AddCrcEntry, RunType, Working
    <3>2. RangeInv'
      <4>1. Recorded(run.start)
        BY <2>1, <2>3 DEF FrameInv, RangeInv, Recorded
      <4>2. \A c \in Commits : st[c].crc => run.start < st[c].start
        BY <2>1, <2>3 DEF FrameInv, RangeInv
      <4> QED
        BY <1>0, <2>1, <3>1, <4>1, <4>2 DEF FrameInv, RangeInv
    <3>3. DueInv'
      BY <2>1, <3>1 DEF FrameInv, DueInv
    <3> QED
      BY <2>2, <3>2, <3>3 DEF FrameInv
  <2>4. CASE ~(run.start <= run.end)
    <3>1. ~Working' /\ UNCHANGED <<due, lastCrc>>
      BY <1>6, <2>4 DEF AddCrcEntry, NoWork, Working, ghosts
    <3> QED
      BY <1>0, <2>1, <2>2, <2>4, <3>1 DEF FrameInv, RangeInv, DueInv
  <2> QED
    BY <2>3, <2>4
<1> QED
  BY <1>1, <1>2, <1>3, <1>4, <1>5, <1>6 DEF Worker

\* Every step keeps the frames that are due within reach of the worker.
LEMMA FrameNext == Typed /\ OrderInv /\ WorkInv /\ FrameInv /\ [Next]_vars => FrameInv'
<1> SUFFICES ASSUME Typed, OrderInv, WorkInv, FrameInv, [Next]_vars PROVE FrameInv'
  OBVIOUS
<1>1. ASSUME UNCHANGED <<count, tpc, tstate, works, run, ghosts>>,
             \A c \in Commits : /\ st'[c].crc = st[c].crc /\ st'[c].start = st[c].start
                                /\ st'[c].end = st[c].end
      PROVE  FrameInv'
  <2>1. (Working' <=> Working) /\ (\A f : Recorded(f)' <=> Recorded(f))
        /\ (\A c : Coming(c)' <=> Coming(c)) /\ UNCHANGED <<due, lastCrc>>
    BY <1>1 DEF Working, Recorded, Coming, Pending, ghosts
  <2>2. RangeInv'
    BY <1>1, <2>1 DEF FrameInv, RangeInv
  <2>3. DueInv'
    BY <1>1, <2>1 DEF FrameInv, DueInv
  <2>4. ComingInv'
    BY <1>1, <2>1 DEF FrameInv, ComingInv
  <2> QED
    BY <2>2, <2>3, <2>4 DEF FrameInv
<1>2. CASE Timer
  BY <1>2, FrameTimer
<1>3. CASE Worker
  BY <1>3, FrameWorker
<1>4. ASSUME NEW c \in Commits, Commit(c) PROVE FrameInv'
  <2>1. UNCHANGED <<count, tpc, tstate, works, run, ghosts>>
    BY <1>4 DEF Commit, AtomicFlush, WritebackEnable, WritebackRequest, WritebackQueueJob,
       WritebackFormat, FlipDone, FlushWork, timerVars, workVars
  <2>2. CASE WritebackRequest(c)
    BY <1>1, <2>1, <2>2 DEF WritebackRequest, Typed, StateType
  <2>3. CASE ~WritebackRequest(c)
    BY <1>1, <1>4, <2>1, <2>3 DEF Commit, AtomicFlush, WritebackEnable, WritebackQueueJob,
       WritebackFormat, FlipDone, FlushWork, workVars
  <2> QED
    BY <2>2, <2>3
<1>5. CASE Cleanup \/ SetCrcSource \/ UNCHANGED vars
  BY <1>1, <1>5 DEF Cleanup, CleanupDisable, CleanupFree, SetCrcSource, vars, timerVars,
     outputVars, workVars
<1>6. ASSUME NEW k \in Callers, Swap(k) \/ Put(k) PROVE FrameInv'
  BY <1>1, <1>6 DEF Swap, Put, timerVars, workVars
<1> QED
  BY <1>2, <1>3, <1>4, <1>5, <1>6 DEF Next

\* The invariants hold of every behaviour.
LEMMA FramesInductive == Spec => [](Typed /\ OrderInv /\ WorkInv /\ FrameInv)
  BY TypedInit, OrderInit, WorkInit, FrameInit, TypedNext, OrderNext, WorkNext, FrameNext,
     PTL DEF Spec

\* However late the worker comes, and whatever commits do meanwhile, a frame
\* recorded under the lock is in a range the worker has or will come for, unless a
\* compose of it has failed.
THEOREM FramesKept == Spec => []NoFrameForgotten
<1>1. FrameInv => NoFrameForgotten
  BY DEF FrameInv, DueInv, ComingInv, Coming, NoFrameForgotten
<1> QED
  BY <1>1, FramesInductive, PTL

\* CRC entries are added in the order of their frames, none twice.
THEOREM CrcsInOrder == Spec => CrcInOrder
<1>1. Typed /\ FrameInv /\ [Next]_vars =>
        [run.pc = "crc" /\ run'.pc = "crc" /\ run' # run => lastCrc' > lastCrc]_vars
  <2> SUFFICES ASSUME Typed, FrameInv, [Next]_vars, run.pc = "crc", run'.pc = "crc", run' # run
               PROVE  lastCrc' > lastCrc
    OBVIOUS
  <2>1. Worker
    BY DEF Next, Timer, HandleVblank, CheckEnabled, RecordFrame, QueueWork, Cleanup, CleanupDisable,
       CleanupFree, SetCrcSource, Commit, AtomicFlush, WritebackEnable, WritebackRequest,
       WritebackQueueJob, WritebackFormat, FlipDone, FlushWork, Swap, Put, vars, workVars
  <2>2. AddCrcEntry
    BY <2>1 DEF Worker, StartWork, ReadWriteback, TakeFrames, Compose, ComposeFails,
       SignalCompletion, ClearPending
  <2>3. lastCrc' = run.start
    BY <2>2 DEF AddCrcEntry, NoWork
  <2>4. lastCrc < run.start /\ lastCrc \in Nat /\ run.start \in Nat
    BY FramesAreInts DEF FrameInv, RangeInv, Working
  <2> QED
    BY <2>3, <2>4
<1> QED
  BY <1>1, FramesInductive, PTL DEF Spec, CrcInOrder

-----------------------------------------------------------------------------
(* Types, with their bounds.                                               *)

\* Only a vblank that a commit waits for goes beyond MaxFrames, and each commit
\* waits for one.
CountInv ==
  /\ armed \in Commits \cup {NoState}
  /\ count + (IF armed = NoState THEN 0 ELSE 1) <= MaxFrames + composerState

\* No work is pending twice.
WorksDistinct == \A i, j \in DOMAIN works : works[i] = works[j] => i = j

\* Every range of frames is one of frames counted.
FramesInv ==
  /\ \A c \in Commits : st[c].start \in Frames /\ st[c].end \in Frames
  /\ run.end \in Frames /\ due \subseteq Frames /\ lastCrc \in Frames

RestTyped ==
  /\ tstate \in Commits \cup {NoState}
  /\ pixelWrite \subseteq Commits /\ toggles \in 0 .. MaxToggles

BoundInv == CountInv /\ WorksDistinct /\ FramesInv /\ RestTyped

\* The vblank count stays within its bound.
LEMMA CountBounded ==
  ASSUME Typed, CountInv
  PROVE  count \in Frames /\ 0 \in Frames
<1>1. MaxFrames \in Nat /\ MaxCommits \in Nat
  BY ComposerAssumption
<1>2. composerState \in 0 .. MaxCommits /\ count \in Nat
  BY <1>1 DEF Typed, TimerTyped, Commits, NoState
<1> QED BY <1>1, <1>2 DEF CountInv, Frames

\* At the start everything is zero or empty.
LEMMA BoundInit == Init => BoundInv
<1> SUFFICES ASSUME Init PROVE BoundInv
  OBVIOUS
<1>1. 0 \in Frames /\ MaxFrames \in Nat /\ MaxToggles \in Nat
  BY ComposerAssumption DEF Frames
<1>2. \A c \in Commits : st[c].start = 0 /\ st[c].end = 0
  BY DEF Init, Fresh
<1>3. run.end = 0
  BY DEF Init, NoWork
<1> QED
  BY <1>1, <1>2, <1>3 DEF Init, BoundInv, CountInv, WorksDistinct, FramesInv, RestTyped, NoState

\* The vblank takes the armed commit with it; a commit brings one more vblank.
LEMMA CountNext == Typed /\ OrderInv /\ CountInv /\ [Next]_vars => CountInv'
<1> SUFFICES ASSUME Typed, OrderInv, CountInv, [Next]_vars PROVE CountInv'
  OBVIOUS
<1>1. /\ MaxFrames \in Nat /\ MaxCommits \in Nat /\ count \in Nat /\ composerState \in Nat
      /\ Commits \subseteq Nat /\ NoState \notin Commits
  BY ComposerAssumption DEF Typed, TimerTyped, Commits, NoState
<1>2. CASE HandleVblank
  <2>1. /\ count' = count + 1 /\ armed' = NoState /\ composerState' = composerState
        /\ count < MaxFrames \/ armed # NoState
    BY <1>2 DEF HandleVblank, outputVars
  <2> QED BY <1>1, <2>1 DEF CountInv
<1>3. ASSUME NEW c \in Commits, AtomicFlush(c) PROVE CountInv'
  <2>1. count' = count /\ armed' = c /\ composerState' = c
    BY <1>3 DEF AtomicFlush
  <2>2. c > composerState
    BY <1>3 DEF AtomicFlush, MayCommit, At, OrderInv, CommitOrder
  <2> QED BY <1>1, <2>1, <2>2 DEF CountInv
<1>4. ASSUME UNCHANGED <<count, armed, composerState>> PROVE CountInv'
  BY <1>4 DEF CountInv
<1>5. CASE CheckEnabled \/ RecordFrame \/ QueueWork
  BY <1>4, <1>5 DEF CheckEnabled, RecordFrame, QueueWork, outputVars
<1>6. CASE Worker
  BY <1>4, <1>6 DEF Worker, StartWork, ReadWriteback, TakeFrames, Compose, ComposeFails,
     SignalCompletion, ClearPending, AddCrcEntry, timerVars, outputVars
<1>7. CASE Cleanup \/ SetCrcSource \/ UNCHANGED vars
  BY <1>4, <1>7 DEF Cleanup, CleanupDisable, CleanupFree, SetCrcSource, vars, timerVars, outputVars
<1>8. ASSUME NEW c \in Commits, Commit(c) PROVE CountInv'
  <2>1. CASE ~AtomicFlush(c)
    BY <1>4, <1>8, <2>1 DEF Commit, WritebackEnable, WritebackRequest, WritebackQueueJob,
       WritebackFormat, FlipDone, FlushWork, timerVars, outputVars
  <2> QED BY <1>3, <2>1
<1>9. ASSUME NEW k \in Callers, Swap(k) \/ Put(k) PROVE CountInv'
  BY <1>4, <1>9 DEF Swap, Put, timerVars
<1> QED BY <1>2, <1>5, <1>6, <1>7, <1>8, <1>9 DEF Next, Timer

\* queue_work adds work that is not pending; the worker takes the first.
LEMMA WorksNext == Typed /\ WorksDistinct /\ [Next]_vars => WorksDistinct'
<1> SUFFICES ASSUME Typed, WorksDistinct, [Next]_vars PROVE WorksDistinct'
  OBVIOUS
<1>1. works \in Seq(Commits) /\ Len(works) \in Nat /\ DOMAIN works = 1 .. Len(works)
  BY DEF Typed, QueuesTyped
<1>2. CASE QueueWork
  <2>1. CASE Pending(tstate)
    BY <1>2, <2>1 DEF QueueWork, Queued, WorksDistinct
  <2>2. CASE ~Pending(tstate)
    <3>1. tstate \in Commits /\ works' = Append(works, tstate)
      BY <1>2, <2>2 DEF QueueWork, Queued, Typed, TimerTyped
    <3>2. /\ DOMAIN (works') = 1 .. Len(works) + 1
          /\ \A i \in 1 .. Len(works) : (works')[i] = works[i]
          /\ (works')[Len(works) + 1] = tstate
      BY <1>1, <3>1, Appended
    <3>3. \A i \in DOMAIN works : works[i] # tstate
      BY <2>2 DEF Pending
    <3> QED BY <1>1, <3>2, <3>3 DEF WorksDistinct
  <2> QED BY <2>1, <2>2
<1>3. CASE StartWork
  <2>1. works # << >> /\ works' = Tail(works)
    BY <1>3 DEF StartWork
  <2>2. /\ DOMAIN (works') = 1 .. Len(works) - 1
        /\ \A i \in 1 .. Len(works) - 1 : i + 1 \in DOMAIN works /\ (works')[i] = works[i + 1]
    BY <1>1, <2>1, Dropped
  <2>3. ASSUME NEW i \in DOMAIN (works'), NEW j \in DOMAIN (works'), i # j
        PROVE  (works')[i] # (works')[j]
    <3>1. /\ i + 1 \in DOMAIN works /\ j + 1 \in DOMAIN works /\ i + 1 # j + 1
          /\ (works')[i] = works[i + 1] /\ (works')[j] = works[j + 1]
      BY <1>1, <2>2, <2>3
    <3> QED BY <3>1 DEF WorksDistinct
  <2> QED BY <2>3 DEF WorksDistinct
<1>4. ASSUME UNCHANGED works PROVE WorksDistinct'
  BY <1>4 DEF WorksDistinct
<1>5. CASE HandleVblank \/ CheckEnabled \/ RecordFrame
  BY <1>4, <1>5 DEF HandleVblank, CheckEnabled, RecordFrame, workVars
<1>6. CASE Worker /\ ~StartWork
  BY <1>4, <1>6 DEF Worker, ReadWriteback, TakeFrames, Compose, ComposeFails,
     SignalCompletion, ClearPending, AddCrcEntry
<1>7. CASE Cleanup \/ SetCrcSource \/ UNCHANGED vars
  BY <1>4, <1>7 DEF Cleanup, CleanupDisable, CleanupFree, SetCrcSource, vars, workVars
<1>8. ASSUME NEW c \in Commits, Commit(c) PROVE WorksDistinct'
  BY <1>4, <1>8 DEF Commit, AtomicFlush, WritebackEnable, WritebackRequest, WritebackQueueJob,
     WritebackFormat, FlipDone, FlushWork, workVars
<1>9. ASSUME NEW k \in Callers, Swap(k) \/ Put(k) PROVE WorksDistinct'
  BY <1>4, <1>9 DEF Swap, Put, workVars
<1> QED BY <1>2, <1>3, <1>5, <1>6, <1>7, <1>8, <1>9 DEF Next, Timer

\* Frames come from the count, and go to the worker and the CRC entries.
LEMMA FramesNext ==
  Typed /\ CountInv /\ FrameInv /\ FramesInv /\ [Next]_vars => FramesInv'
<1> SUFFICES ASSUME Typed, CountInv, FrameInv, FramesInv, [Next]_vars PROVE FramesInv'
  OBVIOUS
<1>1. count \in Frames /\ 0 \in Frames
  BY CountBounded
<1>2. st \in [Commits -> StateType] /\ run \in RunType /\ (run.pc # "idle" => run.state \in Commits)
  BY DEF Typed
<1>3. ASSUME UNCHANGED <<st, run, ghosts>> PROVE FramesInv'
  BY <1>3 DEF FramesInv, ghosts
<1>4. CASE RecordFrame
  <2>1. tstate \in Commits /\ NewStart(tstate) \in Frames
    BY <1>1, <1>4 DEF RecordFrame, Typed, TimerTyped, NewStart, FramesInv
  <2>2. \A c \in Commits : st'[c].start \in Frames /\ st'[c].end \in Frames
    BY <1>1, <1>2, <1>4, <2>1 DEF RecordFrame, StateType, FramesInv
  <2> QED BY <1>1, <1>4, <2>2 DEF RecordFrame, FramesInv
<1>5. CASE HandleVblank \/ CheckEnabled \/ QueueWork
  BY <1>3, <1>5 DEF HandleVblank, CheckEnabled, QueueWork, workVars
<1>6. CASE TakeFrames
  <2>1. \A c \in Commits : st'[c].start \in Frames /\ st'[c].end \in Frames
    BY <1>1, <1>2, <1>6 DEF TakeFrames, StateType, FramesInv
  <2>2. run'.end \in Frames
    BY <1>1, <1>2, <1>6 DEF TakeFrames, StateType, RunType, NoWork, FramesInv
  <2> QED BY <1>6, <2>1, <2>2 DEF TakeFrames, FramesInv, ghosts
<1>7. CASE ClearPending
  <2>1. \A c \in Commits : st'[c].start = st[c].start /\ st'[c].end = st[c].end
    BY <1>2, <1>7 DEF ClearPending, StateType
  <2>2. run'.end = run.end
    BY <1>2, <1>7 DEF ClearPending, RunType
  <2> QED BY <1>7, <2>1, <2>2 DEF ClearPending, FramesInv, ghosts
<1>8. CASE StartWork \/ ReadWriteback \/ Compose \/ ComposeFails \/ SignalCompletion
  <2>1. run'.end \in Frames
    <3>1. CASE ComposeFails
      BY <1>1, <3>1 DEF ComposeFails, NoWork
    <3>2. CASE ~ComposeFails
      <4>1. run'.end = run.end
        BY <1>2, <1>8, <3>2 DEF StartWork, ReadWriteback, Compose, SignalCompletion, RunType
      <4> QED BY <4>1 DEF FramesInv
    <3> QED BY <3>1, <3>2
  <2>2. st' = st /\ due' \subseteq due /\ lastCrc' = lastCrc
    BY <1>8 DEF StartWork, ReadWriteback, Compose, ComposeFails, SignalCompletion, ghosts
  <2> QED BY <2>1, <2>2 DEF FramesInv
<1>9. CASE AddCrcEntry
  <2>1. run'.end \in Frames
    BY <1>1, <1>2, <1>9 DEF AddCrcEntry, RunType, NoWork, FramesInv
  <2>2. run.start <= run.end => run.start \in Frames
    BY <1>2, ComposerAssumption DEF FramesInv, Frames, RunType
  <2>3. st' = st /\ due' \subseteq due /\ lastCrc' \in Frames
    BY <1>9, <2>2 DEF AddCrcEntry, FramesInv, ghosts
  <2> QED BY <2>1, <2>3 DEF FramesInv
<1>10. CASE Cleanup \/ SetCrcSource \/ UNCHANGED vars
  BY <1>3, <1>10 DEF Cleanup, CleanupDisable, CleanupFree, SetCrcSource, vars, workVars
<1>11. ASSUME NEW c \in Commits, Commit(c) PROVE FramesInv'
  <2>1. CASE WritebackRequest(c)
    <3>1. \A d \in Commits : st'[d].start = st[d].start /\ st'[d].end = st[d].end
      BY <1>2, <2>1 DEF WritebackRequest, StateType
    <3> QED BY <2>1, <3>1 DEF WritebackRequest, FramesInv, ghosts
  <2>2. CASE ~WritebackRequest(c)
    BY <1>3, <1>11, <2>2 DEF Commit, AtomicFlush, WritebackEnable, WritebackQueueJob,
       WritebackFormat, FlipDone, FlushWork, workVars
  <2> QED BY <2>1, <2>2
<1>12. ASSUME NEW k \in Callers, Swap(k) \/ Put(k) PROVE FramesInv'
  BY <1>3, <1>12 DEF Swap, Put, workVars
<1> QED BY <1>4, <1>5, <1>6, <1>7, <1>8, <1>9, <1>10, <1>11, <1>12 DEF Next, Timer, Worker

\* The rest of the types.
LEMMA RestNext == Typed /\ RestTyped /\ [Next]_vars => RestTyped'
<1> SUFFICES ASSUME Typed, RestTyped, [Next]_vars PROVE RestTyped'
  OBVIOUS
<1>1. MaxToggles \in Nat /\ composerState \in Commits \cup {NoState}
  BY ComposerAssumption DEF Typed, TimerTyped
<1>2. ASSUME UNCHANGED <<tstate, pixelWrite, toggles>> PROVE RestTyped'
  BY <1>2 DEF RestTyped
<1>3. CASE Timer
  BY <1>1, <1>3 DEF Timer, HandleVblank, CheckEnabled, RecordFrame, QueueWork, jobVars, RestTyped
<1>4. CASE Worker
  BY <1>2, <1>4 DEF Worker, StartWork, ReadWriteback, TakeFrames, Compose, ComposeFails,
     SignalCompletion, ClearPending, AddCrcEntry, timerVars, jobVars
<1>5. CASE Cleanup \/ UNCHANGED vars
  BY <1>2, <1>5 DEF Cleanup, CleanupDisable, CleanupFree, vars, timerVars, jobVars
<1>6. CASE SetCrcSource
  BY <1>1, <1>6 DEF SetCrcSource, timerVars, jobVars, RestTyped
<1>7. ASSUME NEW c \in Commits, Commit(c) PROVE RestTyped'
  <2>1. CASE WritebackFormat(c)
    BY <2>1 DEF WritebackFormat, timerVars, RestTyped
  <2>2. CASE ~WritebackFormat(c)
    BY <1>2, <1>7, <2>2 DEF Commit, AtomicFlush, WritebackEnable, WritebackRequest,
       WritebackQueueJob, FlipDone, FlushWork, timerVars, jobVars
  <2> QED BY <2>1, <2>2
<1>8. ASSUME NEW k \in Callers, Swap(k) \/ Put(k) PROVE RestTyped'
  BY <1>2, <1>8 DEF Swap, Put, timerVars, jobVars
<1> QED BY <1>3, <1>4, <1>5, <1>6, <1>7, <1>8 DEF Next

\* A queue of different commits is no longer than there are commits.
LEMMA WorksBounded ==
  ASSUME works \in Seq(Commits), WorksDistinct
  PROVE  Len(works) <= MaxCommits
<1>1. MaxCommits \in Nat /\ Len(works) \in Nat /\ DOMAIN works = 1 .. Len(works)
  BY ComposerAssumption
<1>2. /\ IsFiniteSet(1 .. Len(works)) /\ Cardinality(1 .. Len(works)) = Len(works)
      /\ IsFiniteSet(Commits) /\ Cardinality(Commits) = MaxCommits
  <2>1. \A n \in Nat : IsFiniteSet(1 .. n) /\ Cardinality(1 .. n) = n
    <3> TAKE n \in Nat
    <3>1. n \in Int /\ 1 \in Int /\ (IF 1 > n THEN 0 ELSE n - 1 + 1) = n
      OBVIOUS
    <3> QED BY <3>1, FS_Interval
  <2> QED BY <1>1, <2>1 DEF Commits
<1>3. works \in [1 .. Len(works) -> Commits]
  BY <1>1
<1>4. ASSUME Len(works) > MaxCommits PROVE FALSE
  <2>1. \E i, j \in 1 .. Len(works) : i # j /\ works[i] = works[j]
    BY <1>1, <1>2, <1>3, <1>4, FS_PigeonHole
  <2> QED BY <1>1, <2>1 DEF WorksDistinct
<1> QED BY <1>1, <1>4

\* Every variable keeps its type and its bound, for any number of commits,
\* vblanks and toggles: the work queue holds a state once, and the vblank count
\* goes beyond MaxFrames only for commits.
THEOREM ComposerTypes == Spec => []TypeOK
<1>1. Typed /\ RefsInv /\ BoundInv => TypeOK
  <2> SUFFICES ASSUME Typed, RefsInv, BoundInv PROVE TypeOK
    OBVIOUS
  <2>1. count \in Frames
    BY CountBounded DEF BoundInv
  <2>2. Len(works) <= MaxCommits
    BY WorksBounded DEF Typed, QueuesTyped, BoundInv
  <2>3. st \in [Commits -> [active : BOOLEAN, crc : BOOLEAN, wb : BOOLEAN,
                            start : Frames, end : Frames]]
    <3>1. ASSUME NEW c \in Commits
          PROVE st[c] \in [active : BOOLEAN, crc : BOOLEAN, wb : BOOLEAN,
                           start : Frames, end : Frames]
      BY DEF Typed, StateType, BoundInv, FramesInv
    <3>2. st = [c \in Commits |-> st[c]]
      BY DEF Typed
    <3> QED BY <3>1, <3>2
  <2>4. run \in [pc : {"idle", "read", "lock", "compose", "signal", "clear", "crc"},
                 state : Commits \cup {NoState}, active : BOOLEAN, wb : BOOLEAN,
                 start : Nat, end : Frames]
    BY DEF Typed, RunType, RunPlaces, BoundInv, FramesInv
  <2>5. composerEnabled \in BOOLEAN /\ refs \in Int
    BY Zenon DEF RefsInv, CallsOK
  <2>6. caller \in [Callers -> [pc : {"idle", "swap", "put"}, arg : BOOLEAN]]
    BY DEF RefsInv, CallsOK
  <2>7. cpc \in [Commits -> {"new", "enable", "request", "queue", "format",
                             "flip", "flush", "done"}]
    BY DEF Typed, CommitPlaces
  <2> HIDE DEF RefsInv
  <2> QED
    BY <2>1, <2>2, <2>3, <2>4, <2>5, <2>6, <2>7
    DEF TypeOK, Typed, QueuesTyped, TimerTyped, BoundInv, CountInv, FramesInv, RestTyped
<1>2. Typed /\ OrderInv /\ FrameInv /\ BoundInv /\ [Next]_vars => BoundInv'
  BY CountNext, WorksNext, FramesNext, RestNext DEF BoundInv
<1> QED
  BY <1>1, <1>2, RefsInit, BoundInit, RefsStep, FramesInductive, PTL DEF Spec
=============================================================================

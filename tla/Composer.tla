------------------------------ MODULE Composer ------------------------------
(***************************************************************************)
(* The virtual display's output path in ubuntu/vkms-patched: the vblank    *)
(* timer, the ordered composer work, atomic commits with writeback jobs,   *)
(* and the users of vkms_set_composer (vkms_crtc.c, vkms_composer.c,       *)
(* vkms_writeback.c, vkms_drv.c).  The CRTC stays on.                      *)
(*                                                                         *)
(* Commit c installs CRTC state c and carries at most one writeback job,   *)
(* job c.  What runs under one of the two spinlocks is one action.         *)
(***************************************************************************)
EXTENDS Integers, Sequences

CONSTANTS MaxCommits,    \* bound on the commits
          MaxFrames,     \* bound on the vblanks that no commit waits for
          MaxToggles     \* bound on the opens and closes of the CRC source

ASSUME ComposerAssumption ==
  MaxCommits \in Nat /\ MaxFrames \in Nat /\ MaxToggles \in Nat

VARIABLES count,           \* the CRTC's vblank count
          armed,           \* the commit whose event the next vblank sends
          refs,            \* references that keep vblanks on
          composerState, composerEnabled,     \* of vkms_output
          tpc, tstate,     \* vkms_vblank_simulate: place, its state
          st,              \* the vkms_crtc_state of every commit
          works,           \* composer_workq: the states whose work is pending
          run,             \* vkms_composer_worker: place and locals
          cpc,             \* place of every commit in vkms_atomic_commit_tail
          caller,          \* the calls of vkms_set_composer under way
          toggles,         \* how often user space opened or closed the CRC source
          jobQueue,        \* DRM's writeback queue
          cleaning,        \* completed jobs, to be cleaned up in turn
          pixelWrite,      \* jobs whose pixel_write is set
          freedJobs, freedStates,
          due,             \* frames handed to the worker, and neither reported
                           \* nor given up by a compose that failed
          lastCrc          \* the frame of the last CRC entry

timerVars == <<count, armed, tpc, tstate>>
outputVars == <<composerState, composerEnabled, refs, caller>>
workVars == <<st, works, run>>
commitVars == <<cpc, freedStates>>
jobVars == <<jobQueue, cleaning, pixelWrite, freedJobs>>
ghosts == <<due, lastCrc>>
vars == <<timerVars, outputVars, workVars, commitVars, jobVars, toggles, ghosts>>

NoState == 0
Commits == 1 .. MaxCommits
Frames == 0 .. MaxFrames + MaxCommits
Callers == {"commit", "crc", "cleanup"}

Fresh == [active |-> FALSE, crc |-> FALSE, wb |-> FALSE, start |-> 0, end |-> 0]

NoWork == [pc |-> "idle", state |-> NoState, active |-> FALSE, wb |-> FALSE,
           start |-> 0, end |-> 0]
NoCall == [pc |-> "idle", arg |-> FALSE]

TypeOK ==
  /\ count \in Frames /\ armed \in Commits \cup {NoState}
  /\ tpc \in {"idle", "check", "record", "queue"}
  /\ tstate \in Commits \cup {NoState} /\ composerState \in Commits \cup {NoState}
  /\ composerEnabled \in BOOLEAN /\ refs \in Int
  /\ st \in [Commits -> [active : BOOLEAN, crc : BOOLEAN, wb : BOOLEAN,
                         start : Frames, end : Frames]]
  /\ works \in Seq(Commits) /\ Len(works) <= MaxCommits
  /\ run \in [pc : {"idle", "read", "lock", "compose", "signal", "clear", "crc"},
              state : Commits \cup {NoState}, active : BOOLEAN, wb : BOOLEAN,
              start : Nat, end : Frames]
  /\ cpc \in [Commits -> {"new", "enable", "request", "queue", "format",
                          "flip", "flush", "done"}]
  /\ caller \in [Callers -> [pc : {"idle", "swap", "put"}, arg : BOOLEAN]]
  /\ toggles \in 0 .. MaxToggles
  /\ jobQueue \in Seq(Commits) /\ cleaning \in Seq(Commits)
  /\ pixelWrite \subseteq Commits /\ freedJobs \subseteq Commits
  /\ freedStates \subseteq Commits
  /\ due \subseteq Frames /\ lastCrc \in Frames

Init ==
  /\ count = 0 /\ armed = NoState /\ refs = 0
  /\ composerState = NoState /\ composerEnabled = FALSE
  /\ tpc = "idle" /\ tstate = NoState
  /\ st = [c \in Commits |-> Fresh]
  /\ works = << >>
  /\ run = NoWork
  /\ cpc = [c \in Commits |-> "new"]
  /\ caller = [k \in Callers |-> NoCall]
  /\ toggles = 0
  /\ jobQueue = << >> /\ cleaning = << >>
  /\ pixelWrite = {} /\ freedJobs = {} /\ freedStates = {}
  /\ due = {} /\ lastCrc = 0

-----------------------------------------------------------------------------
(* vkms_set_composer(enabled), called by commits, by set_crc_source and by *)
(* the clean-up of writeback jobs.                                         *)

PutCall == [pc |-> "put", arg |-> FALSE]
Idle(k) == caller[k].pc = "idle"

\* Enabling takes a vblank reference before the flag is touched.
SetComposer(k, enabled) ==
  /\ Idle(k)
  /\ caller' = [caller EXCEPT ![k] = [pc |-> "swap", arg |-> enabled]]
  /\ refs' = IF enabled THEN refs + 1 ELSE refs

\* Mutated form of Replaces: only a call that disables drops the reference.
ReplacesWhenDisabling(k) == composerEnabled /\ ~caller[k].arg

\* The call replaces a reference that was held, and drops it.
Replaces(k) == composerEnabled

Swap(k) ==
  /\ caller[k].pc = "swap"
  /\ composerEnabled' = caller[k].arg
  /\ caller' = [caller EXCEPT ![k] = IF Replaces(k) THEN PutCall ELSE NoCall]
  /\ UNCHANGED <<timerVars, composerState, refs, workVars, commitVars, jobVars,
                 toggles, ghosts>>

Put(k) ==
  /\ caller[k].pc = "put"
  /\ refs' = refs - 1
  /\ caller' = [caller EXCEPT ![k] = NoCall]
  /\ UNCHANGED <<timerVars, composerState, composerEnabled, workVars, commitVars,
                 jobVars, toggles, ghosts>>

CrcOpen == toggles % 2 = 1

\* vkms_set_crc_source, "auto" or NULL.
SetCrcSource ==
  /\ toggles < MaxToggles
  /\ IF CrcOpen THEN SetComposer("crc", FALSE) ELSE SetComposer("crc", TRUE)
  /\ toggles' = toggles + 1
  /\ UNCHANGED <<timerVars, composerState, composerEnabled, workVars, commitVars,
                 jobVars, ghosts>>

-----------------------------------------------------------------------------
(* The vblank timer, vkms_vblank_simulate.                                 *)

\* drm_crtc_handle_vblank, which counts and sends the armed event.
HandleVblank ==
  /\ tpc = "idle" /\ (count < MaxFrames \/ armed # NoState)
  /\ count' = count + 1
  /\ armed' = NoState
  /\ tstate' = composerState
  /\ tpc' = IF composerState = NoState THEN "idle" ELSE "check"
  /\ UNCHANGED <<outputVars, workVars, commitVars, jobVars, toggles, ghosts>>

\* composer_enabled, read without the lock.
CheckEnabled ==
  /\ tpc = "check"
  /\ IF composerEnabled THEN tpc' = "record" /\ UNCHANGED tstate
                       ELSE tpc' = "idle" /\ tstate' = NoState
  /\ UNCHANGED <<count, armed, outputVars, workVars, commitVars, jobVars, toggles,
                 ghosts>>

\* Mutated form of NewStart: a late worker does not keep the start.
NewStartAlways(s) == count

\* frame_start stays while the worker has not read it.
NewStart(s) == IF st[s].crc THEN st[s].start ELSE count

RecordFrame ==
  /\ tpc = "record" /\ tpc' = "queue"
  /\ st' = [st EXCEPT ![tstate].start = NewStart(tstate),
                      ![tstate].end = count, ![tstate].crc = TRUE]
  /\ due' = due \cup {count}
  /\ UNCHANGED <<count, armed, tstate, outputVars, works, run, commitVars, jobVars,
                 toggles, lastCrc>>

Pending(s) == \E i \in DOMAIN works : works[i] = s

\* Mutated form of Queued: work that is pending is queued once more.
QueuedTwice(s) == Append(works, s)

\* queue_work.
Queued(s) == IF Pending(s) THEN works ELSE Append(works, s)

QueueWork ==
  /\ tpc = "queue" /\ tpc' = "idle"
  /\ works' = Queued(tstate)
  /\ tstate' = NoState
  /\ UNCHANGED <<count, armed, outputVars, st, run, commitVars, jobVars, toggles,
                 ghosts>>

-----------------------------------------------------------------------------
(* vkms_composer_worker, on an ordered work queue.                         *)

StartWork ==
  /\ run.pc = "idle" /\ works # << >>
  /\ run' = [run EXCEPT !.pc = "read", !.state = Head(works)]
  /\ works' = Tail(works)
  /\ UNCHANGED <<timerVars, outputVars, st, commitVars, jobVars, toggles, ghosts>>

\* active_writeback is read before the lock is taken.
ReadWriteback ==
  /\ run.pc = "read"
  /\ run' = [run EXCEPT !.pc = "lock", !.active = st[run.state].active]
  /\ UNCHANGED <<timerVars, outputVars, st, works, commitVars, jobVars, toggles,
                 ghosts>>

\* Mutated form of HasFrames: the work composes whether or not a CRC is due.
HasFramesAlways(s) == TRUE

\* No earlier run of the work has taken the frames.
HasFrames(s) == st[s].crc

TakeFrames ==
  /\ run.pc = "lock"
  /\ LET s == st[run.state] IN
       run' = IF HasFrames(run.state)
                THEN [run EXCEPT !.pc = "compose", !.wb = s.wb, !.start = s.start,
                                 !.end = s.end]
                ELSE NoWork
  /\ st' = [st EXCEPT ![run.state].start = 0, ![run.state].end = 0,
                      ![run.state].crc = FALSE]
  /\ UNCHANGED <<timerVars, outputVars, works, commitVars, jobVars, toggles, ghosts>>

\* The worker has a job to write to.
Writes == run.wb /\ run.active

\* compose_active_planes succeeds.
Compose ==
  /\ run.pc = "compose"
  /\ Writes => run.state \in pixelWrite
  /\ run' = [run EXCEPT !.pc = IF run.wb THEN "signal" ELSE "crc"]
  /\ UNCHANGED <<timerVars, outputVars, st, works, commitVars, jobVars, toggles,
                 ghosts>>

\* It fails: no memory for the line buffers, or pixel_write not yet set.  The
\* worker gives its frames up, without a CRC; the writeback request stays.
ComposeFails ==
  /\ run.pc = "compose"
  /\ run' = NoWork
  /\ due' = due \ (run.start .. run.end)
  /\ UNCHANGED <<timerVars, outputVars, st, works, commitVars, jobVars, toggles,
                 lastCrc>>

\* drm_writeback_signal_completion takes the oldest job of the queue, if any.
SignalCompletion ==
  /\ run.pc = "signal"
  /\ run' = [run EXCEPT !.pc = "clear"]
  /\ IF jobQueue = << >> THEN UNCHANGED <<jobQueue, cleaning>>
     ELSE /\ cleaning' = Append(cleaning, Head(jobQueue))
          /\ jobQueue' = Tail(jobQueue)
  /\ UNCHANGED <<timerVars, outputVars, st, works, commitVars, pixelWrite, freedJobs,
                 toggles, ghosts>>

ClearPending ==
  /\ run.pc = "clear"
  /\ run' = [run EXCEPT !.pc = "crc"]
  /\ st' = [st EXCEPT ![run.state].wb = FALSE]
  /\ UNCHANGED <<timerVars, outputVars, works, commitVars, jobVars, toggles, ghosts>>

\* One CRC entry for each frame of the range.
AddCrcEntry ==
  /\ run.pc = "crc"
  /\ IF run.start <= run.end
       THEN /\ run' = [run EXCEPT !.start = run.start + 1]
            /\ due' = due \ {run.start}
            /\ lastCrc' = run.start
       ELSE /\ run' = NoWork
            /\ UNCHANGED ghosts
  /\ UNCHANGED <<timerVars, outputVars, st, works, commitVars, jobVars, toggles>>

-----------------------------------------------------------------------------
(* Commits, vkms_atomic_commit_tail.                                       *)

At(c, l) == cpc[c] = l
Goto(c, l) == cpc' = [cpc EXCEPT ![c] = l]

\* DRM lets a commit in once the one before has flipped and the one before
\* that is cleaned up.
MayCommit(c) ==
  /\ At(c, "new")
  /\ c > 1 => cpc[c - 1] \in {"flush", "done"}
  /\ c > 2 => At(c - 2, "done")

\* atomic_begin to atomic_flush, under the output's lock: the planes, the
\* event, the composer's state.
AtomicFlush(c) ==
  /\ MayCommit(c)
  /\ composerState' = c
  /\ armed' = c
  /\ \/ Goto(c, "enable")        \* with a writeback job
     \/ Goto(c, "flip")
  /\ UNCHANGED <<count, tpc, tstate, composerEnabled, refs, caller, workVars,
                 freedStates, jobVars, toggles, ghosts>>

\* vkms_wb_atomic_commit.
WritebackEnable(c) ==
  /\ At(c, "enable") /\ Goto(c, "request")
  /\ SetComposer("commit", TRUE)
  /\ UNCHANGED <<timerVars, composerState, composerEnabled, workVars, freedStates,
                 jobVars, toggles, ghosts>>

WritebackRequest(c) ==
  /\ At(c, "request") /\ Idle("commit") /\ Goto(c, "queue")
  /\ st' = [st EXCEPT ![c].active = TRUE, ![c].wb = TRUE]
  /\ UNCHANGED <<timerVars, outputVars, works, run, freedStates, jobVars, toggles,
                 ghosts>>

WritebackQueueJob(c) ==
  /\ At(c, "queue") /\ Goto(c, "format")
  /\ jobQueue' = Append(jobQueue, c)
  /\ UNCHANGED <<timerVars, outputVars, workVars, freedStates, cleaning, pixelWrite,
                 freedJobs, toggles, ghosts>>

WritebackFormat(c) ==
  /\ At(c, "format") /\ Goto(c, "flip")
  /\ pixelWrite' = pixelWrite \cup {c}
  /\ UNCHANGED <<timerVars, outputVars, workVars, freedStates, jobQueue, cleaning,
                 freedJobs, toggles, ghosts>>

\* drm_atomic_helper_wait_for_flip_done.
FlipDone(c) ==
  /\ At(c, "flip") /\ armed # c /\ Goto(c, "flush")
  /\ UNCHANGED <<timerVars, outputVars, workVars, freedStates, jobVars, toggles,
                 ghosts>>

\* Mutated form of Flushed: the work is not waited for.
FlushedAtOnce(s) == TRUE

\* The state's composer work is neither pending nor running.
Flushed(s) == ~Pending(s) /\ (run.pc = "idle" \/ run.state # s)

\* flush_work on the old state, which is then destroyed.
FlushWork(c) ==
  /\ At(c, "flush") /\ Goto(c, "done")
  /\ Flushed(c - 1)
  /\ freedStates' = freedStates \cup (Commits \cap {c - 1})
  /\ UNCHANGED <<timerVars, outputVars, workVars, jobVars, toggles, ghosts>>

-----------------------------------------------------------------------------
(* DRM's clean-up of completed writeback jobs, vkms_wb_cleanup_job, taken  *)
(* one after the other: DRM may run those of two jobs at once.             *)

CleanupDisable ==
  /\ cleaning # << >> /\ Head(cleaning) \notin freedJobs
  /\ SetComposer("cleanup", FALSE)
  /\ freedJobs' = freedJobs \cup {Head(cleaning)}
  /\ UNCHANGED <<timerVars, composerState, composerEnabled, workVars, commitVars,
                 jobQueue, cleaning, pixelWrite, toggles, ghosts>>

CleanupFree ==
  /\ cleaning # << >> /\ Head(cleaning) \in freedJobs /\ Idle("cleanup")
  /\ cleaning' = Tail(cleaning)
  /\ UNCHANGED <<timerVars, outputVars, workVars, commitVars, jobQueue, pixelWrite,
                 freedJobs, toggles, ghosts>>

-----------------------------------------------------------------------------

Timer == HandleVblank \/ CheckEnabled \/ RecordFrame \/ QueueWork

Worker ==
  \/ StartWork \/ ReadWriteback \/ TakeFrames \/ Compose \/ ComposeFails
  \/ SignalCompletion \/ ClearPending \/ AddCrcEntry

Commit(c) ==
  \/ AtomicFlush(c)
  \/ WritebackEnable(c) \/ WritebackRequest(c) \/ WritebackQueueJob(c)
  \/ WritebackFormat(c)
  \/ FlipDone(c) \/ FlushWork(c)

Cleanup == CleanupDisable \/ CleanupFree

Next ==
  \/ Timer \/ Worker \/ Cleanup \/ SetCrcSource
  \/ \E c \in Commits : Commit(c)
  \/ \E k \in Callers : Swap(k) \/ Put(k)

Spec == Init /\ [][Next]_vars

-----------------------------------------------------------------------------
(* Properties.                                                             *)

\* The vblank references a call of vkms_set_composer holds.
Holds(k) == IF caller[k].pc = "put" \/ (caller[k].pc = "swap" /\ caller[k].arg)
              THEN 1 ELSE 0

\* However the three callers of vkms_set_composer interleave, the vblank
\* references are those of the enabled composer and of the calls under way:
\* none is leaked and none is dropped twice.
RefsBalanced ==
  refs = (IF composerEnabled THEN 1 ELSE 0)
           + Holds("commit") + Holds("crc") + Holds("cleanup")

\* A CRTC state is destroyed only when the timer, which took it under the lock
\* and uses it after the unlock, has let go of it, its work is not pending
\* (the WARN_ON of vkms_atomic_crtc_destroy_state) and not running.
StateAlive ==
  /\ tpc # "idle" => tstate \notin freedStates
  /\ run.pc # "idle" => run.state \notin freedStates
  /\ \A s \in freedStates : ~Pending(s)
  /\ composerState \notin freedStates

\* The worker never writes to a job that has been cleaned up, though a
\* completion takes the oldest job of the queue and not the one just written.
JobAlive == run.pc = "compose" /\ Writes => run.state \notin freedJobs

\* The timer and the worker use nothing that commits and clean-ups have freed.
NoUseAfterFree == StateAlive /\ JobAlive

Working == run.pc \in {"compose", "signal", "clear", "crc"}

\* The hand-over from timer to worker loses no frame: until the worker reports it,
\* or its compose fails, it is in the worker's range or in that of a state whose
\* work is pending, about to be queued, or about to read it.
NoFrameForgotten ==
  /\ \A f \in due :
       \/ \E c \in Commits : st[c].crc /\ f \in st[c].start .. st[c].end
       \/ Working /\ f \in run.start .. run.end
  /\ \A c \in Commits :
       st[c].crc => \/ Pending(c)
                    \/ tpc = "queue" /\ tstate = c
                    \/ run.pc \in {"read", "lock"} /\ run.state = c

\* CRC entries come in the order of their frames, each frame at most once,
\* also when the state changes or the worker falls behind.
CrcInOrder ==
  [][run.pc = "crc" /\ run'.pc = "crc" /\ run' # run => lastCrc' > lastCrc]_vars
=============================================================================

----------------------------- MODULE Lifecycle -----------------------------
(***************************************************************************)
(* Start-up and shutdown of the sender: ubuntu/src/main.c with the init,   *)
(* start, stop and destroy functions of the objects it makes.  Main, the   *)
(* capture thread in PipeWire's loop, the input thread in its recv loop,   *)
(* and Avahi's poll thread (Advertiser); SIGINT and SIGTERM run            *)
(* signal_handler in whichever thread they hit.                            *)
(*                                                                         *)
(* Stopping a thread is clearing a flag that the thread's own start sets.  *)
(***************************************************************************)
EXTENDS Advertiser, SequencesExt

CONSTANT MaxSignals     \* bound on the signals delivered

ASSUME LifecycleAssumption == MaxSignals \in Nat

VARIABLES mpc,          \* the main thread
          running,      \* g_running
          made,         \* the objects whose globals are set; none is ever reset
          live,         \* those of them that are not destroyed
          held,         \* the resources of all objects, complete or not
          cap,          \* the capture thread
          capRun,       \* PipeWire's running flag of pw_loop
          inp,          \* the input thread
          inpRun,       \* inp->running
          spc,          \* the signal handler
          signals       \* signals delivered

mainVars == <<mpc, running, made, live, held>>
capVars == <<cap, capRun>>
inpVars == <<inp, inpRun>>
sigVars == <<spc, signals>>
vars == <<mainVars, capVars, inpVars, sigVars, adVars>>

\* The handlers are installed and the ring initialised first.
Init ==
  /\ mpc = "encoder" /\ running = TRUE
  /\ made = {"ring"} /\ live = {"ring"} /\ held = {"ring_bufs"}
  /\ cap = "none" /\ capRun = FALSE
  /\ inp = "none" /\ inpRun = FALSE
  /\ spc = "none" /\ signals = 0
  /\ AdInit

Goto(l) == mpc' = l

-----------------------------------------------------------------------------
(* main: initialisation.                                                   *)

\* What each init acquires, in order.  A step that fails half-way undoes itself.
\* The session's stream and recording are Mutter's; the last step waits for the
\* PipeWire node, up to 10 s.
EncoderSteps ==
  <<"drm_fd", "display", "va", "config", "surfaces", "context", "coded_buf", "conv_buf">>
SessionSteps == <<"dbus", "session", "stream", "recording", "node">>
PipeWireSteps == <<"pw_loop", "pw_ctx", "pw_core", "pw_stream", "connection">>
StreamerSteps == <<"send_buf", "srt", "listen_sock", "port">>
UinputSteps == <<"uinput_fd">>
SocketSteps == <<"udp_sock">>
DiscoverySteps == <<"name", "poll", "client", "thread">>

Steps ==
  [encoder |-> EncoderSteps, capture |-> SessionSteps \o PipeWireSteps,
   streamer |-> StreamerSteps, input |-> UinputSteps \o SocketSteps,
   discovery |-> DiscoverySteps]

\* What each destroy function releases.  vaTerminate also frees the display;
\* Mutter ends what was begun over a bus connection when that goes.
EncoderReleases ==
  {"conv_buf", "coded_buf", "context", "surfaces", "config", "va", "display", "drm_fd"}
CaptureReleases ==
  {"connection", "pw_stream", "pw_core", "pw_ctx", "pw_loop",
   "node", "recording", "stream", "dbus", "session"}
StreamerReleases == {"port", "listen_sock", "send_buf", "srt"}
InputReleases == {"uinput_fd", "udp_sock"}
DiscoveryReleases == {"thread", "client", "poll", "name"}
RingReleases == {"ring_bufs"}

Releases ==
  [encoder |-> EncoderReleases, capture |-> CaptureReleases, streamer |-> StreamerReleases,
   input |-> InputReleases, discovery |-> DiscoveryReleases,
   ring |-> RingReleases]

\* What db_encoder_init's labels release, falling through, and which of them its
\* failing calls jump to: vaInitialize, like vaGetDisplayDRM, past vaTerminate.
Labels ==
  <<{"coded_buf"}, {"context"}, {"surfaces"}, {"config"}, {"va", "display"}, {"drm_fd"}>>

\* Mutated form of FailLabel: a surface that cannot be made goes to fail_va.
FailLabelSurfaces ==
  [conv_buf |-> 1, coded_buf |-> 2, context |-> 3, surfaces |-> 5, config |-> 5,
   va |-> 6, display |-> 6]

FailLabel ==
  [conv_buf |-> 1, coded_buf |-> 2, context |-> 3, surfaces |-> 4, config |-> 5,
   va |-> 6, display |-> 6]

\* What an init whose step r fails releases.  db_encoder_init begins at a label; a
\* failed negotiation frees the session's path but keeps the reference to the bus
\* and with it what Mutter has begun; a failed PipeWire set-up destroys the
\* capture; the others undo all their steps.
Undone(o, r) ==
  CASE o = "encoder" -> IF r = "drm_fd" THEN {} ELSE UNION {Labels[i] : i \in FailLabel[r] .. 6}
    [] o = "capture" -> IF r \in ToSet(SessionSteps) THEN {"session"} ELSE CaptureReleases
    [] OTHER         -> ToSet(Steps[o])

\* The n-th step of o is its next one.
IsNext(o, n) ==
  Steps[o][n] \notin held /\ \A m \in 1 .. n - 1 : Steps[o][m] \in held

\* The discovery's client and thread have more effects than being there.
AcquireEffect(r) ==
  CASE r = "client" -> NewClient
    [] r = "thread" -> StartPoll
    [] OTHER        -> UNCHANGED svcVars

Acquire(o, after) ==
  /\ mpc = o
  /\ \E n \in DOMAIN Steps[o] :
       /\ IsNext(o, n)
       /\ held' = held \cup {Steps[o][n]}
       /\ AcquireEffect(Steps[o][n])
       /\ IF n = Len(Steps[o])
          THEN made' = made \cup {o} /\ live' = live \cup {o} /\ Goto(after)
          ELSE UNCHANGED <<made, live, mpc>>
  /\ UNCHANGED <<running, capVars, inpVars, sigVars, daemonVars>>

\* Encoder, capture and streamer are needed: without one, those of the three made
\* before are destroyed and the program returns 1, without ring_destroy.  Input
\* and discovery are optional.
AcquireFails(o, after) ==
  /\ mpc = o
  /\ \E n \in DOMAIN Steps[o] :
       /\ IsNext(o, n)
       /\ LET kept == held \ Undone(o, Steps[o][n]) IN
            IF o \in {"encoder", "capture", "streamer"}
            THEN /\ held' = kept \ UNION {Releases[p] : p \in live \ {"ring"}}
                 /\ live' = live \cap {"ring"} /\ Goto("exited")
            ELSE held' = kept /\ UNCHANGED live /\ Goto(after)
  /\ IF o = "discovery" THEN Unpublish ELSE UNCHANGED svcVars
  /\ UNCHANGED <<running, made, capVars, inpVars, sigVars, daemonVars>>

Initialise ==
  \E i \in 1 .. 5 :
    LET order == <<"encoder", "capture", "streamer", "input", "discovery", "capthread">>
    IN Acquire(order[i], order[i + 1]) \/ AcquireFails(order[i], order[i + 1])

\* A capture thread that cannot be created sends main to its cleanup.
CreateCapture ==
  /\ mpc = "capthread"
  /\ \/ cap' = "created" /\ Goto("inpthread")
     \/ UNCHANGED cap /\ Goto("stopcap")
  /\ UNCHANGED <<running, made, live, held, capRun, inpVars, sigVars, adVars>>

CreateInput ==
  /\ mpc = "inpthread"
  /\ inp' \in (IF "input" \in live THEN {"created", "none"} ELSE {"none"})
  /\ Goto("serve")
  /\ UNCHANGED <<running, made, live, held, capVars, inpRun, sigVars, adVars>>

\* The main loop (module Sender) looks at g_running between its steps, each
\* of which returns within seconds.
LeaveLoop ==
  /\ mpc = "serve" /\ ~running
  /\ Goto("stopcap")
  /\ UNCHANGED <<running, made, live, held, capVars, inpVars, sigVars, adVars>>

-----------------------------------------------------------------------------
(* main: cleanup.                                                          *)

\* db_capture_stop: pw_main_loop_quit takes effect at once, in the calling
\* thread, while no thread is in the loop; then a later run undoes it.
StopCapture == capRun' = FALSE

\* db_input_stop.
StopInput == inpRun' = FALSE

CleanupStopCapture ==
  /\ mpc = "stopcap" /\ Goto("stopinp")
  /\ StopCapture
  /\ UNCHANGED <<running, made, live, held, cap, inpVars, sigVars, adVars>>

\* Mutated form of CleanupStopInput: the stop is left to the signal handler.
CleanupLeavesInput ==
  /\ mpc = "stopinp" /\ Goto("joincap")
  /\ UNCHANGED <<running, made, live, held, capVars, inpVars, sigVars, adVars>>

CleanupStopInput ==
  /\ mpc = "stopinp" /\ Goto("joincap")
  /\ IF "input" \in made THEN StopInput ELSE UNCHANGED inpRun
  /\ UNCHANGED <<running, made, live, held, capVars, inp, sigVars, adVars>>

\* Without a capture thread cap_tid is uninitialised: this join returns with
\* an error or not at all.  The first is assumed.
JoinCapture ==
  /\ mpc = "joincap" /\ cap \in {"none", "exited"}
  /\ cap' = IF cap = "none" THEN cap ELSE "joined"
  /\ Goto("joininp")
  /\ UNCHANGED <<running, made, live, held, capRun, inpVars, sigVars, adVars>>

\* Mutated form of JoinInput: the thread is not waited for.
JoinInputAtOnce ==
  /\ mpc = "joininp"
  /\ Goto("destroy")
  /\ UNCHANGED <<running, made, live, held, capVars, inpVars, sigVars, adVars>>

JoinInput ==
  /\ mpc = "joininp" /\ inp \in {"none", "exited"}
  /\ inp' = IF inp = "none" THEN inp ELSE "joined"
  /\ Goto("destroy")
  /\ UNCHANGED <<running, made, live, held, capVars, inpRun, sigVars, adVars>>

\* One object after the other: discovery, input, streamer, capture, encoder,
\* ring.
DestroyOrder == <<"discovery", "input", "streamer", "capture", "encoder", "ring">>

Destroy ==
  /\ mpc = "destroy"
  /\ IF live = {} THEN Goto("exited") /\ UNCHANGED <<live, held, svcVars>>
     ELSE /\ \E i \in 1 .. 6 :
               LET o == DestroyOrder[i] IN
               /\ o \in live /\ \A j \in 1 .. i - 1 : DestroyOrder[j] \notin live
               /\ live' = live \ {o}
               /\ held' = held \ Releases[o]
               /\ IF o = "discovery" THEN Unpublish ELSE UNCHANGED svcVars
          /\ UNCHANGED mpc
  /\ UNCHANGED <<running, made, capVars, inpVars, sigVars, daemonVars>>

Main ==
  \/ Initialise \/ CreateCapture \/ CreateInput \/ LeaveLoop
  \/ CleanupStopCapture \/ CleanupStopInput \/ JoinCapture \/ JoinInput \/ Destroy

-----------------------------------------------------------------------------
(* The capture and the input thread.                                       *)

\* db_capture_start enters pw_main_loop_run, which sets its running flag.
CaptureEnters ==
  /\ cap = "created" /\ mpc # "exited"
  /\ cap' = "loop" /\ capRun' = TRUE
  /\ UNCHANGED <<mainVars, inpVars, sigVars, adVars>>

\* on_stream_state_changed: a stream error quits the loop; main is not told.
CaptureError ==
  /\ cap = "loop" /\ mpc # "exited"
  /\ StopCapture
  /\ UNCHANGED <<mainVars, cap, inpVars, sigVars, adVars>>

CaptureLeaves ==
  /\ cap = "loop" /\ ~capRun
  /\ cap' = "exited"
  /\ UNCHANGED <<mainVars, capRun, inpVars, sigVars, adVars>>

\* db_input_start sets running itself.
InputEnters ==
  /\ inp = "created" /\ mpc # "exited"
  /\ inp' = "loop" /\ inpRun' = TRUE
  /\ UNCHANGED <<mainVars, capVars, sigVars, adVars>>

\* recv returns at least once a second, so the flag is read again; a socket
\* error leaves the loop too.
InputLeaves ==
  /\ inp = "loop" /\ ~inpRun
  /\ inp' = "exited"
  /\ UNCHANGED <<mainVars, capVars, inpRun, sigVars, adVars>>

InputError ==
  /\ inp = "loop"
  /\ inp' = "exited"
  /\ UNCHANGED <<mainVars, capVars, inpRun, sigVars, adVars>>

-----------------------------------------------------------------------------
(* signal_handler: three assignments' worth, other threads run between.    *)

Signal ==
  /\ spc = "none" /\ signals < MaxSignals /\ mpc # "exited"
  /\ running' = FALSE
  /\ spc' = "stopcap" /\ signals' = signals + 1
  /\ UNCHANGED <<mpc, made, live, held, capVars, inpVars, adVars>>

\* g_capture is NULL until db_capture_init has returned, and stays set when the
\* capture has been destroyed: the flag is then cleared in freed memory.
SignalStopCapture ==
  /\ spc = "stopcap" /\ spc' = "stopinp"
  /\ IF "capture" \in made THEN StopCapture ELSE UNCHANGED capRun
  /\ UNCHANGED <<mainVars, cap, inpVars, signals, adVars>>

SignalStopInput ==
  /\ spc = "stopinp" /\ spc' = "none"
  /\ IF "input" \in made THEN StopInput ELSE UNCHANGED inpRun
  /\ UNCHANGED <<mainVars, capVars, inp, signals, adVars>>

Handler == SignalStopCapture \/ SignalStopInput

\* The process has returned from main.
Exited == mpc = "exited" /\ UNCHANGED vars

Advertise == (PollThread \/ Daemon) /\ UNCHANGED <<mainVars, capVars, inpVars, sigVars>>

Next ==
  \/ Advertise
  \/ Main \/ CaptureEnters \/ CaptureError \/ CaptureLeaves
  \/ InputEnters \/ InputLeaves \/ InputError
  \/ Signal \/ Handler \/ Exited

Spec == Init /\ [][Next]_vars

\* Every thread is scheduled; signals and stream errors need not come.
Fairness ==
  /\ WF_vars(Main) /\ WF_vars(Handler)
  /\ WF_vars(CaptureEnters) /\ WF_vars(CaptureLeaves)
  /\ WF_vars(InputEnters) /\ WF_vars(InputLeaves)
  /\ WF_vars(PollThread /\ UNCHANGED <<mainVars, capVars, inpVars, sigVars>>)
  /\ WF_vars(ServerRuns /\ UNCHANGED <<mainVars, capVars, inpVars, sigVars>>)
  /\ WF_vars(Probe /\ UNCHANGED <<mainVars, capVars, inpVars, sigVars>>)

FairSpec == Spec /\ Fairness

-----------------------------------------------------------------------------
(* Properties.                                                             *)

Using(t) == t \in {"created", "loop"}

\* Nothing a thread still works with is destroyed under it: the capture
\* callback uses the capture, the encoder and the ring, the input thread its
\* socket and its uinput device.
DestroyedAfterUse ==
  /\ Using(cap) => {"ring", "encoder", "capture"} \subseteq live
  /\ Using(inp) => "input" \in live
  /\ poll = "running" => "client" \in held

\* What a failed init and main's early return leave: the ring's buffers, the
\* display of a failed vaInitialize, and what a failed negotiation was about.
Leftovers ==
  IF "streamer" \in made THEN {}
  ELSE IF "capture" \in made THEN {"ring_bufs"}
  ELSE IF "encoder" \in made THEN {"ring_bufs", "dbus", "stream", "recording"}
  ELSE {"ring_bufs", "display"}

\* Whatever call failed, and wherever a signal came: a program that got past its
\* three needed objects leaves nothing of any object behind when it exits, and one
\* that did not leaves the ring's buffers and, of the object that failed, no more
\* than its error path forgets.
NothingElseLeft == mpc = "exited" => held \subseteq Leftovers

\* Once each thread that was created has entered its loop, a shutdown that
\* reaches the cleanup gets to its end.
StartedThreadsStop ==
  (mpc = "stopcap" /\ cap # "created" /\ inp # "created") ~> mpc = "exited"
=============================================================================

------------------------------ MODULE Receiver ------------------------------
(***************************************************************************)
(* How the Mac receiver finds a sender and stays connected:                *)
(* ServiceDiscovery.swift on its serial queue, ViewController.swift on the *)
(* main queue, the recv loop of SRTReceiver.swift on a thread of its own,  *)
(* and the target host of InputForwarder.swift.  Bonjour, the network and  *)
(* the sender are external: the sender listens at SenderHost.              *)
(***************************************************************************)
EXTENDS Integers, Sequences

CONSTANTS DefaultHost,    \* DEFAULT_UBUNTU_IP
          FoundHosts,     \* the addresses a browse result can resolve to
          Names,          \* those of them that are not numeric addresses
          SenderHost,     \* where the sender listens
          MaxTries,       \* 3: failures before the fallback
          MaxConns        \* bound on the resolving connections

ASSUME ReceiverAssumption ==
  /\ MaxTries \in Nat \ {0} /\ MaxConns \in Nat
  /\ Names \subseteq FoundHosts \ {DefaultHost, SenderHost}

VARIABLES browser,        \* the NWBrowser exists
          timer,          \* timeoutWork is armed
          resolved,       \* resolved
          conns,          \* NWConnections that may still report ready
          mainQueue,      \* hosts of the delegate calls waiting in the main queue
          srtTarget,      \* SRTReceiver.targetHost
          inputTarget,    \* InputForwarder.targetHost
          configured,     \* startPipeline has set the targets
          monitoring,     \* InputForwarder's event monitor is installed
          running,        \* SRTReceiver.running
          loop,           \* the recv loop
          dialled,        \* the host of the connect under way
          sock,           \* sock is valid
          failures,       \* consecutiveFailures, no further than MaxTries
          netUp,          \* the sender can be reached at SenderHost
          quit            \* shutdown has run

discVars == <<browser, timer, resolved, conns>>
hostVars == <<srtTarget, inputTarget, configured>>
recvVars == <<loop, dialled, sock, failures>>
vars == <<discVars, mainQueue, hostVars, monitoring, running, recvVars, netUp, quit>>

\* viewDidLoad has run: the parts exist and startBrowsing was called.
Init ==
  /\ browser = TRUE /\ timer = TRUE /\ resolved = FALSE /\ conns = 0
  /\ mainQueue = << >>
  /\ srtTarget = DefaultHost /\ inputTarget = DefaultHost /\ configured = FALSE
  /\ monitoring = FALSE /\ running = FALSE
  /\ loop = "idle" /\ dialled = DefaultHost /\ sock = FALSE /\ failures = 0
  /\ netUp = TRUE /\ quit = FALSE

-----------------------------------------------------------------------------
(* The discovery queue.                                                    *)

\* stopBrowsing.  A connection's ready event may be queued behind it.
StopBrowsing == browser' = FALSE /\ timer' = FALSE /\ conns' \in {0, conns}

\* handleBrowseResults, resolveEndpoint: an added service is dialled to learn
\* its address; an earlier connection is left to run.
ServiceAdded ==
  /\ browser /\ ~resolved /\ conns < MaxConns
  /\ conns' = conns + 1
  /\ UNCHANGED <<browser, timer, resolved, mainQueue, hostVars, monitoring, running,
                 recvVars, netUp, quit>>

\* extractAddress: the first usable address wins; the browser is left running.
Resolve(h) ==
  /\ conns > 0 /\ ~resolved
  /\ conns' = conns - 1
  /\ resolved' = TRUE /\ timer' = FALSE
  /\ mainQueue' = Append(mainQueue, h)
  /\ UNCHANGED <<browser, hostVars, monitoring, running, recvVars, netUp, quit>>

\* Mutated form of ResolveFails: discovery counts as over though there is no
\* address.
ResolveFailsForGood ==
  /\ conns > 0
  /\ conns' = conns - 1
  /\ resolved' = TRUE /\ timer' = FALSE
  /\ UNCHANGED <<browser, mainQueue, hostVars, monitoring, running, recvVars, netUp, quit>>

\* It failed, came after another, or has a link-local address only.
ResolveFails ==
  /\ conns > 0
  /\ conns' = conns - 1
  /\ UNCHANGED <<browser, timer, resolved, mainQueue, hostVars, monitoring, running,
                 recvVars, netUp, quit>>

\* The discovery timeout, and the browser's failure, which does not look at
\* resolved.
DiscoveryFails ==
  /\ (timer /\ ~resolved) \/ browser
  /\ StopBrowsing
  /\ mainQueue' = Append(mainQueue, DefaultHost)
  /\ UNCHANGED <<resolved, hostVars, monitoring, running, recvVars, netUp, quit>>

-----------------------------------------------------------------------------
(* The main queue.                                                         *)

\* Mutated form of StartPipeline: a second call is ignored by the forwarder.
StartPipelineOnce ==
  /\ mainQueue # << >> /\ ~quit
  /\ mainQueue' = Tail(mainQueue)
  /\ srtTarget' = Head(mainQueue)
  /\ inputTarget' = IF configured THEN inputTarget ELSE Head(mainQueue)
  /\ configured' = TRUE
  /\ running' = TRUE
  /\ loop' = IF running THEN loop ELSE "test"
  /\ UNCHANGED <<discVars, monitoring, dialled, sock, failures, netUp, quit>>

\* didFindSender and serviceDiscoveryDidFail end in startPipeline.
StartPipeline ==
  /\ mainQueue # << >> /\ ~quit
  /\ mainQueue' = Tail(mainQueue)
  /\ srtTarget' = Head(mainQueue) /\ inputTarget' = Head(mainQueue)
  /\ configured' = TRUE
  /\ running' = TRUE
  /\ loop' = IF running THEN loop ELSE "test"
  /\ UNCHANGED <<discVars, monitoring, dialled, sock, failures, netUp, quit>>

ViewDidAppear ==
  /\ ~monitoring /\ ~quit
  /\ monitoring' = TRUE
  /\ UNCHANGED <<discVars, mainQueue, hostVars, running, recvVars, netUp, quit>>

\* shutdown, when the application terminates: stopBrowsing, stopMonitoring,
\* SRTReceiver.stop.
Shutdown ==
  /\ ~quit
  /\ quit' = TRUE
  /\ StopBrowsing
  /\ monitoring' = FALSE
  /\ running' = FALSE /\ sock' = FALSE
  /\ UNCHANGED <<resolved, mainQueue, hostVars, loop, dialled, failures, netUp>>

-----------------------------------------------------------------------------
(* The recv loop.                                                          *)

Reachable == netUp /\ dialled = SenderHost

\* Mutated form of LoopTest: the socket is not closed on the way out.
LoopTestLeavesSocket ==
  /\ loop = "test"
  /\ IF ~running THEN loop' = "exited" /\ UNCHANGED <<dialled, sock>>
     ELSE IF sock THEN loop' = "receiving" /\ UNCHANGED <<dialled, sock>>
     ELSE loop' = "dialling" /\ dialled' = srtTarget /\ UNCHANGED sock
  /\ UNCHANGED <<discVars, mainQueue, hostVars, monitoring, running, failures,
                 netUp, quit>>

\* Both loop conditions; connect() reads targetHost once.
LoopTest ==
  /\ loop = "test"
  /\ IF ~running THEN loop' = "exited" /\ sock' = FALSE /\ UNCHANGED dialled
     ELSE IF sock THEN loop' = "receiving" /\ UNCHANGED <<dialled, sock>>
     ELSE loop' = "dialling" /\ dialled' = srtTarget /\ UNCHANGED sock
  /\ UNCHANGED <<discVars, mainQueue, hostVars, monitoring, running, failures,
                 netUp, quit>>

\* connect() may return after stop(): the loop test closes that socket.
Connect ==
  /\ loop = "dialling" /\ Reachable
  /\ sock' = TRUE /\ failures' = 0 /\ loop' = "test"
  /\ UNCHANGED <<discVars, mainQueue, hostVars, monitoring, running, dialled,
                 netUp, quit>>

\* Mutated form of ConnectFails: it never falls back to the default host.
ConnectFailsOnly ==
  /\ loop = "dialling" /\ ~Reachable
  /\ loop' = "sleeping"
  /\ failures' = IF failures < MaxTries THEN failures + 1 ELSE failures
  /\ UNCHANGED <<discVars, mainQueue, hostVars, monitoring, running, dialled, sock,
                 netUp, quit>>

\* checkFallback after a failed connect; it looks at the target of now.  A name
\* fails before it, in inet_pton.
ConnectFails ==
  /\ loop = "dialling" /\ ~Reachable
  /\ loop' = "sleeping"
  /\ IF dialled \in Names THEN UNCHANGED <<failures, srtTarget>>
     ELSE IF failures + 1 >= MaxTries /\ srtTarget # DefaultHost
       THEN srtTarget' = DefaultHost /\ failures' = 0
       ELSE /\ failures' = IF failures < MaxTries THEN failures + 1 ELSE failures
            /\ UNCHANGED srtTarget
  /\ UNCHANGED <<discVars, mainQueue, inputTarget, configured, monitoring, running,
                 dialled, sock, netUp, quit>>

Wake ==
  /\ loop = "sleeping"
  /\ loop' = "test"
  /\ UNCHANGED <<discVars, mainQueue, hostVars, monitoring, running, dialled, sock,
                 failures, netUp, quit>>

\* srt_recvmsg reports the connection lost, or stop() has closed its socket.
ReceiveFails ==
  /\ loop = "receiving" /\ (~Reachable \/ ~running)
  /\ sock' = FALSE /\ loop' = "test"
  /\ UNCHANGED <<discVars, mainQueue, hostVars, monitoring, running, dialled,
                 failures, netUp, quit>>

ChangeNetwork ==
  /\ netUp' = ~netUp
  /\ UNCHANGED <<discVars, mainQueue, hostVars, monitoring, running, recvVars, quit>>

-----------------------------------------------------------------------------

Discovery == ServiceAdded \/ (\E h \in FoundHosts : Resolve(h)) \/ ResolveFails
RecvLoop == LoopTest \/ Connect \/ ConnectFails \/ Wake \/ ReceiveFails

Next ==
  \/ Discovery \/ DiscoveryFails
  \/ StartPipeline \/ ViewDidAppear \/ Shutdown
  \/ RecvLoop \/ ChangeNetwork

Spec == Init /\ [][Next]_vars

\* The timer fires, the queues and the thread run; the network and the user
\* may do as they like.
Fairness ==
  /\ WF_vars(DiscoveryFails /\ timer /\ ~resolved)
  /\ WF_vars(StartPipeline)
  /\ WF_vars(RecvLoop)

FairSpec == Spec /\ Fairness

-----------------------------------------------------------------------------
(* Properties.                                                             *)

Receiving == loop = "receiving" /\ sock

\* Whatever Bonjour does, the receiver starts dialling someone: browsing
\* cannot end without a host, found or default.
PipelineStarts == <>(configured \/ quit)

\* stop() and a connect() under way never leave a socket behind.
ClosedAtExit == loop = "exited" => ~sock

\* TESTING.md, step 19: "receiver reconnects automatically, video resumes",
\* unless it is stuck with a name.
Reconnects == <>[](netUp /\ srtTarget \notin Names) /\ []~quit => []<>Receiving

\* Video and input part only where checkFallback parts them: as long as the
\* receiver has not fallen back, keys go to the host it dials next.
TargetsAgree == srtTarget # DefaultHost => inputTarget = srtTarget
=============================================================================

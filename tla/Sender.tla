------------------------------- MODULE Sender -------------------------------
(***************************************************************************)
(* The main loop of ubuntu/src/main.c over the streamer: accept a          *)
(* receiver, flush the ring, reset the bitrate, force an IDR, then send    *)
(* frames and heartbeats and adapt the bitrate until the connection ends.  *)
(* The ring is the FIFO of DropOldestQueue, which RingBuffer implements.   *)
(*                                                                         *)
(* Time is counted in ring_pop timeouts (100 ms).  The two-second stats    *)
(* poll may be due in any iteration.                                       *)
(***************************************************************************)
EXTENDS Streamer, Sequences

CONSTANTS Capacity,        \* RING_SIZE - 1
          MaxFrames,       \* bound on the frames captured
          HeartbeatTicks,  \* 10: idle timeouts that exceed a second
          LossThreshold,   \* 5: lost packets between polls that mean congestion
          MaxLoss,         \* bound on the packets lost on a connection
          Rtts             \* the round trips, in ms, that a poll can report

ASSUME SenderAssumption ==
  /\ Capacity \in Nat \ {0} /\ MaxFrames \in Nat
  /\ HeartbeatTicks \in Nat \ {0}
  /\ LossThreshold \in Nat /\ MaxLoss \in Nat
  /\ Rtts \subseteq Nat

VARIABLES queue,           \* g_ring, oldest first
          next,            \* number of the next captured frame
          mpc,             \* the main thread's place in its loop
          entry,           \* the frame ring_pop returned
          idle,            \* timeouts since last_send_time
          bitrate,         \* current_bitrate
          encBitrate,      \* enc->bitrate_kbps
          prevLoss,        \* prev_loss
          lossTotal,       \* SRT's pktSndLossTotal for the client socket
          lossSince,       \* packets lost since the last poll
          flushMark,       \* the last frame that was in the ring at the flush
          silence,         \* timeouts since SRT last took a packet, no
                           \* further than HeartbeatTicks
          failed           \* a send has failed since then

ringVars == <<queue, next>>
rateVars == <<bitrate, encBitrate, prevLoss, lossTotal, lossSince>>
timeVars == <<idle, silence, failed>>
vars == <<streamerVars, ringVars, mpc, entry, rateVars, timeVars, flushMark>>

StartBitrate == 15000
MinBitrate == 5000
RampLimit == 10000
DocumentedLimit == 30000    \* README.md's, in kbps

\* Types; and the connected flag agrees with the socket, so that is_connected,
\* which reads the socket, and send, which reads both, give the loop one answer.
TypeOK ==
  /\ StreamerTypeOK
  /\ connected <=> client # NoSock
  /\ queue \in Seq(1 .. MaxFrames) /\ Len(queue) <= Capacity
  /\ next \in 1 .. MaxFrames + 1
  /\ mpc \in {"accept", "retry", "flush", "rate", "force", "loop", "pop", "send",
              "recheck", "heartbeat", "stats"}
  /\ entry \in 0 .. MaxFrames
  /\ idle \in 0 .. HeartbeatTicks
  /\ bitrate \in Nat /\ encBitrate \in Nat
  /\ prevLoss \in Nat /\ lossTotal \in Nat /\ lossSince \in Nat
  /\ flushMark \in 0 .. MaxFrames
  /\ silence \in 0 .. HeartbeatTicks
  /\ failed \in BOOLEAN

Init ==
  /\ StreamerInit
  /\ queue = << >> /\ next = 1
  /\ mpc = "accept" /\ entry = 0
  /\ bitrate = 0 /\ encBitrate = StartBitrate
  /\ prevLoss = 0 /\ lossTotal = 0 /\ lossSince = 0
  /\ idle = 0 /\ silence = 0 /\ failed = FALSE
  /\ flushMark = 0

-----------------------------------------------------------------------------
(* The capture thread and the network.                                     *)

\* on_frame_captured ends in ring_push.
Capture ==
  /\ next <= MaxFrames
  /\ queue' = Append(IF Len(queue) = Capacity THEN Tail(queue) ELSE queue, next)
  /\ next' = next + 1
  /\ UNCHANGED <<streamerVars, mpc, entry, rateVars, timeVars, flushMark>>

Environment ==
  Network /\ UNCHANGED <<ringVars, mpc, entry, rateVars, timeVars, flushMark>>

PacketLost ==
  /\ client # NoSock /\ lossTotal < MaxLoss
  /\ lossTotal' = lossTotal + 1
  /\ lossSince' = lossSince + 1
  /\ UNCHANGED <<streamerVars, ringVars, mpc, entry, bitrate, encBitrate, prevLoss,
                 timeVars, flushMark>>

-----------------------------------------------------------------------------
(* The main thread, up to the stream loop.                                 *)

Goto(l) == mpc' = l

\* Mutated form of Accept: it waits for the old client to be gone instead of
\* disconnecting it.
AcceptWhenFree ==
  /\ mpc = "accept" /\ client = NoSock
  /\ \/ AcceptFails /\ Goto("retry") /\ UNCHANGED <<lossTotal, lossSince>>
     \/ /\ \E c \in Conns : AcceptSucceeds(c)
        /\ lossTotal' = 0 /\ lossSince' = 0
        /\ Goto("flush")
  /\ UNCHANGED <<ringVars, entry, bitrate, encBitrate, prevLoss, timeVars, flushMark>>

Accept ==
  /\ mpc = "accept"
  /\ \/ AcceptFails /\ Goto("retry") /\ UNCHANGED <<lossTotal, lossSince>>
     \/ /\ \E c \in Conns : AcceptSucceeds(c)
        /\ lossTotal' = 0 /\ lossSince' = 0
        /\ Goto("flush")
  /\ UNCHANGED <<ringVars, entry, bitrate, encBitrate, prevLoss, timeVars, flushMark>>

\* "Timeout or error": the loop goes round.
Retry ==
  /\ mpc = "retry" /\ Goto("accept")
  /\ UNCHANGED <<streamerVars, ringVars, entry, rateVars, timeVars, flushMark>>

\* Mutated form of FlushRing: the ring is left as it is.
FlushForgotten ==
  /\ mpc = "flush" /\ Goto("rate")
  /\ flushMark' = next - 1
  /\ UNCHANGED <<streamerVars, ringVars, entry, rateVars, timeVars>>

FlushRing ==
  /\ mpc = "flush" /\ Goto("rate")
  /\ queue' = << >>
  /\ flushMark' = next - 1
  /\ UNCHANGED <<streamerVars, next, entry, rateVars, timeVars>>

\* Mutated form of ResetBitrate: the encoder is not told.
ResetUntold ==
  /\ mpc = "rate" /\ Goto("force")
  /\ bitrate' = StartBitrate
  /\ UNCHANGED <<streamerVars, ringVars, entry, encBitrate, prevLoss, lossTotal,
                 lossSince, timeVars, flushMark>>

ResetBitrate ==
  /\ mpc = "rate" /\ Goto("force")
  /\ bitrate' = StartBitrate /\ encBitrate' = StartBitrate
  /\ UNCHANGED <<streamerVars, ringVars, entry, prevLoss, lossTotal, lossSince,
                 timeVars, flushMark>>

\* db_encoder_force_idr (module Encoder), then the loop's locals.
StartStream ==
  /\ mpc = "force" /\ Goto("loop")
  /\ idle' = 0 /\ silence' = 0 /\ failed' = FALSE
  /\ prevLoss' = 0
  /\ UNCHANGED <<streamerVars, ringVars, entry, bitrate, encBitrate, lossTotal,
                 lossSince, flushMark>>

-----------------------------------------------------------------------------
(* The stream loop.                                                        *)

LoopTest ==
  /\ mpc = "loop"
  /\ (IsConnected /\ Goto("pop")) \/ (IsDisconnected /\ Goto("accept"))
  /\ UNCHANGED <<ringVars, entry, rateVars, timeVars, flushMark>>

\* Mutated form of PopFrame: the entry stays in the ring.
PopPeeks ==
  /\ mpc = "pop" /\ queue # << >> /\ Goto("send")
  /\ entry' = Head(queue)
  /\ UNCHANGED <<streamerVars, ringVars, rateVars, timeVars, flushMark>>

PopFrame ==
  /\ mpc = "pop" /\ queue # << >> /\ Goto("send")
  /\ entry' = Head(queue)
  /\ queue' = Tail(queue)
  /\ UNCHANGED <<streamerVars, next, rateVars, timeVars, flushMark>>

\* Mutated form of PopTimeout: the heartbeat comes one timeout late.
PopTimeoutLate ==
  /\ mpc = "pop"
  /\ idle' = idle + 1
  /\ silence' = IF silence < HeartbeatTicks THEN silence + 1 ELSE silence
  /\ Goto(IF idle + 1 > HeartbeatTicks THEN "heartbeat" ELSE "stats")
  /\ UNCHANGED <<streamerVars, ringVars, entry, rateVars, failed, flushMark>>

\* 100 ms without a frame, or with one that came too late.
PopTimeout ==
  /\ mpc = "pop"
  /\ idle' = idle + 1
  /\ silence' = IF silence < HeartbeatTicks THEN silence + 1 ELSE silence
  /\ Goto(IF idle + 1 >= HeartbeatTicks THEN "heartbeat" ELSE "stats")
  /\ UNCHANGED <<streamerVars, ringVars, entry, rateVars, failed, flushMark>>

SendFrame ==
  /\ mpc = "send"
  /\ \/ /\ SendTaken(entry)
        /\ idle' = 0 /\ silence' = 0 /\ failed' = FALSE
        /\ Goto("stats")
     \/ /\ SendTransient(entry) \/ SendLost(entry) \/ SendRefused(entry)
        /\ failed' = TRUE /\ UNCHANGED <<idle, silence>>
        /\ Goto("recheck")
  /\ UNCHANGED <<ringVars, entry, rateVars, flushMark>>

\* A failed send: leave the loop if the receiver is gone, else the frame is
\* dropped, and last_send_time moves all the same.
Recheck ==
  /\ mpc = "recheck"
  /\ \/ IsConnected /\ idle' = 0 /\ Goto("stats")
     \/ IsDisconnected /\ UNCHANGED idle /\ Goto("accept")
  /\ UNCHANGED <<ringVars, entry, rateVars, silence, failed, flushMark>>

\* Any failure of a heartbeat ends the connection.
SendHeartbeat ==
  /\ mpc = "heartbeat"
  /\ \/ /\ SendTaken(Heartbeat)
        /\ idle' = 0 /\ silence' = 0 /\ failed' = FALSE
        /\ Goto("stats")
     \/ /\ SendTransient(Heartbeat) \/ SendLost(Heartbeat)
        /\ UNCHANGED timeVars
        /\ Goto("accept")
  /\ UNCHANGED <<ringVars, entry, rateVars, flushMark>>

\* The poll is not due, or db_streamer_get_stats fails.
SkipStats ==
  /\ mpc = "stats" /\ Goto("loop")
  /\ UNCHANGED <<streamerVars, ringVars, entry, rateVars, timeVars, flushMark>>

Least(a, b) == IF a < b THEN a ELSE b
Most(a, b) == IF a < b THEN b ELSE a

\* The bitrate after a poll that saw the given new loss and round trip.
Target(delta, rtt) ==
  IF delta > LossThreshold \/ rtt > 50
    THEN Most(MinBitrate, (bitrate * 60) \div 100)
    ELSE IF delta = 0 /\ rtt < 20 /\ bitrate < RampLimit
           THEN Least(RampLimit, (bitrate * 115) \div 100)
           ELSE bitrate

\* Mutated form of Adapt: prev_loss is not brought up to date.
AdaptStale(rtt) ==
  /\ mpc = "stats" /\ CanSend /\ Goto("loop")
  /\ bitrate' = Target(lossTotal - prevLoss, rtt)
  /\ encBitrate' = IF bitrate' # bitrate THEN bitrate' ELSE encBitrate
  /\ lossSince' = 0
  /\ UNCHANGED <<streamerVars, ringVars, entry, prevLoss, lossTotal, timeVars, flushMark>>

Adapt(rtt) ==
  /\ mpc = "stats" /\ CanSend /\ Goto("loop")
  /\ bitrate' = Target(lossTotal - prevLoss, rtt)
  /\ encBitrate' = IF bitrate' # bitrate THEN bitrate' ELSE encBitrate
  /\ prevLoss' = lossTotal
  /\ lossSince' = 0
  /\ UNCHANGED <<streamerVars, ringVars, entry, lossTotal, timeVars, flushMark>>

-----------------------------------------------------------------------------

Main ==
  \/ Accept \/ Retry \/ FlushRing \/ ResetBitrate \/ StartStream
  \/ LoopTest \/ PopFrame \/ PopTimeout \/ SendFrame \/ Recheck \/ SendHeartbeat
  \/ SkipStats \/ \E rtt \in Rtts : Adapt(rtt)

Next == Main \/ Capture \/ PacketLost \/ Environment

Spec == Init /\ [][Next]_vars

\* The main thread is scheduled, and SRT notices in the end that a peer has
\* gone (its idle timeout).
Fairness ==
  /\ WF_vars(Main)
  /\ \A c \in Conns : WF_vars(Break(c) /\ Environment)

FairSpec == Spec /\ Fairness

-----------------------------------------------------------------------------
(* Properties.                                                             *)

\* At most one client socket is open, and it is the one the streamer knows:
\* no path through send, heartbeat, is_connected and accept leaks a socket.
NoLeak ==
  \A c \in Conns :
    sock[c] \in {"up", "orphan", "closing", "broken"} => c = client

\* No frame that waited in the ring when the receiver connected is sent to
\* it: "Discard all queued frames ... so stale high-bitrate frames don't
\* flood SRT" (above ring_flush).
FlushedNeverSent == lastSent = 0 \/ lastSent > flushMark

\* On one connection frames go out in the order they were encoded, each at
\* most once, whatever was dropped, refused or timed out in between.
SentInOrder ==
  [][mpc = "send" /\ mpc' = "stats" => lastSent' > lastSent]_vars

\* While it streams, the encoder runs at the bitrate the loop believes in.
BitratesAgree == mpc \in {"loop", "pop", "send", "recheck", "heartbeat", "stats"}
                   => encBitrate = bitrate

\* README.md, "Adaptive Bitrate": "Healthy (zero loss, RTT < 20ms): bitrate
\* increased by 10%, up to 30 Mbps".  Below 30 Mbps, the poll that is due on a
\* healthy connection raises the bitrate.
HealthyRamp ==
  \A rtt \in Rtts :
    mpc = "stats" /\ CanSend /\ lossSince = 0 /\ rtt < 20 /\ bitrate < DocumentedLimit
      => Target(lossTotal - prevLoss, rtt) > bitrate

\* With an acceptable round trip the bitrate falls only for losses of this
\* connection since its last poll: no loss is blamed twice, none is inherited.
BlamedOnce ==
  [][\A rtt \in Rtts : Adapt(rtt) /\ rtt <= 50 /\ bitrate' < bitrate
       => lossSince > LossThreshold]_vars

\* A receiver that stays connected hears something at least once a second,
\* unless sends have failed.
NeverSilent ==
  mpc \in {"loop", "pop", "stats"} /\ ~failed => silence < HeartbeatTicks

\* Accept fails although a receiver is waiting.
AcceptErrs == mpc = "accept" /\ mpc' = "retry" /\ \E c \in Conns : sock[c] = "pending"

\* A receiver that dials is taken up, or gives up: the loop always gets out of a
\* stream whose receiver has gone and back to accept, which a client that is
\* still there does not block.  Unless accept goes on failing while it waits.
Redial ==
  \/ []<><<AcceptErrs>>_vars
  \/ \A c \in Conns : sock[c] = "pending" ~> sock[c] # "pending"
=============================================================================

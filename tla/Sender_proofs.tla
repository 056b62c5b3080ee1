--------------------------- MODULE Sender_proofs ---------------------------
(***************************************************************************)
(* The sender's loop, for every capacity, bound, threshold and set of      *)
(* round trips.                                                            *)
(***************************************************************************)
EXTENDS Sender, TLAPS

USE SenderAssumption, StreamerAssumption

-----------------------------------------------------------------------------
(***************************************************************************)
(* The streamer: whatever the loop calls, and whatever the network does,   *)
(* is one of its operations.                                               *)
(***************************************************************************)
StreamerOp ==
    \/ Network \/ AcceptFails \/ \E c \in Conns : AcceptSucceeds(c)
    \/ \E f \in Nat : SendTaken(f) \/ SendTransient(f) \/ SendLost(f) \/ SendRefused(f)
    \/ IsConnected \/ IsDisconnected
    \/ UNCHANGED streamerVars

SocketInv ==
    /\ StreamerTypeOK
    /\ connected <=> client # NoSock
    /\ NoLeak

\* At the start there is no connection.
LEMMA SocketInit == StreamerInit => SocketInv
<1> SUFFICES ASSUME StreamerInit PROVE SocketInv
  OBVIOUS
<1>1. client = NoSock /\ connected = FALSE /\ seq \in 0 .. SeqModulus - 1 /\ lastSent \in Nat
  BY DEF StreamerInit
<1>2. sock \in [Conns -> SockStates] /\ NoLeak
  BY DEF StreamerInit, SockStates, NoLeak
<1> QED BY <1>1, <1>2 DEF SocketInv, StreamerTypeOK

\* The network moves sockets between states; it never opens one.
LEMMA NetworkKeeps ==
  ASSUME SocketInv, Network
  PROVE  SocketInv'
<1>1. PICK c \in Conns, s \in SockStates :
        /\ Becomes(c, s)
        /\ s \in {"pending", "closed"} \/ sock[c] \in {"up", "orphan", "closing"}
  BY DEF Network, Dial, GiveUp, PeerGone, Break, SockStates
<1>2. UNCHANGED <<client, connected, seq, lastSent>>
  BY <1>1 DEF Becomes
<1>3. sock' \in [Conns -> SockStates]
  BY <1>1 DEF Becomes, SocketInv, StreamerTypeOK
<1>4. NoLeak'
  BY <1>1, <1>2 DEF Becomes, SocketInv, StreamerTypeOK, NoLeak, Conns
<1> QED BY <1>2, <1>3, <1>4 DEF SocketInv, StreamerTypeOK

\* Closing the client, alone or to accept another one, leaves no socket behind.
LEMMA CloseKeeps ==
  ASSUME SocketInv, client # NoSock, CloseClient, UNCHANGED lastSent, seq' \in 0 .. SeqModulus - 1
  PROVE  SocketInv'
<1>1. client \in Conns /\ client' = NoSock /\ connected' = FALSE
  BY DEF SocketInv, StreamerTypeOK, CloseClient
<1>2. sock' \in [Conns -> SockStates]
  BY DEF SocketInv, StreamerTypeOK, CloseClient, SockStates
<1>3. NoLeak'
  BY <1>1 DEF SocketInv, StreamerTypeOK, CloseClient, NoLeak, Conns
<1> QED BY <1>1, <1>2, <1>3 DEF SocketInv, StreamerTypeOK

\* After a hang-up no socket is the client.
LEMMA HangupLeavesNone ==
  ASSUME SocketInv
  PROVE  /\ SockAfterHangup \in [Conns -> SockStates]
         /\ \A c \in Conns : SockAfterHangup[c] \notin {"up", "orphan", "closing", "broken"}
<1>1. CASE client = NoSock
  BY <1>1 DEF SocketInv, StreamerTypeOK, NoLeak, SockAfterHangup, Conns, NoSock
<1>2. CASE client # NoSock
  BY <1>2 DEF SocketInv, StreamerTypeOK, NoLeak, SockAfterHangup, SockStates
<1> QED BY <1>1, <1>2

\* An accepted socket is the client.
LEMMA AcceptKeeps ==
  ASSUME SocketInv, AcceptFails \/ \E c \in Conns : AcceptSucceeds(c)
  PROVE  SocketInv'
<1>1. CASE AcceptFails
  <2>1. sock' = SockAfterHangup /\ client' = NoSock /\ UNCHANGED <<seq, lastSent>>
    BY <1>1 DEF AcceptFails
  <2>2. connected' = FALSE
    BY <1>1 DEF AcceptFails, SocketInv, StreamerTypeOK
  <2>3. NoLeak' /\ sock' \in [Conns -> SockStates]
    BY <2>1, HangupLeavesNone DEF NoLeak, Conns
  <2> QED BY <2>1, <2>2, <2>3 DEF SocketInv, StreamerTypeOK
<1>2. ASSUME NEW c \in Conns, AcceptSucceeds(c) PROVE SocketInv'
  <2>1. /\ sock' = [SockAfterHangup EXCEPT ![c] = "up"]
        /\ client' = c /\ connected' = TRUE /\ seq' = 0 /\ lastSent' = 0
    BY <1>2 DEF AcceptSucceeds
  <2>2. NoLeak' /\ sock' \in [Conns -> SockStates]
    BY <2>1, HangupLeavesNone DEF NoLeak, Conns, SockStates
  <2>3. c # NoSock
    BY DEF Conns, NoSock
  <2>4. seq' \in 0 .. SeqModulus - 1
    BY <2>1
  <2> QED BY <2>1, <2>2, <2>3, <2>4 DEF SocketInv, StreamerTypeOK
<1> QED BY <1>1, <1>2

\* A send closes the socket it finds broken.
LEMMA SendKeeps ==
  ASSUME SocketInv, NEW f \in Nat,
         SendTaken(f) \/ SendTransient(f) \/ SendLost(f) \/ SendRefused(f)
  PROVE  SocketInv'
<1>1. Numbered(f) => seq' \in 0 .. SeqModulus - 1
  BY DEF Numbered, SocketInv, StreamerTypeOK
<1>2. CASE SendTaken(f) \/ SendTransient(f)
  <2>1. UNCHANGED <<client, connected, sock>> /\ seq' \in 0 .. SeqModulus - 1
    BY <1>1, <1>2 DEF SendTaken, SendTransient
  <2>2. lastSent' \in Nat
    BY <1>2 DEF SendTaken, SendTransient, SocketInv, StreamerTypeOK
  <2> QED BY <2>1, <2>2 DEF SocketInv, StreamerTypeOK, NoLeak, Conns
<1>3. CASE SendLost(f)
  BY <1>1, <1>3, CloseKeeps DEF SendLost, Numbered, CanSend
<1>4. CASE SendRefused(f)
  BY <1>4 DEF SendRefused, streamerVars, SocketInv, StreamerTypeOK, NoLeak, Conns
<1> QED BY <1>2, <1>3, <1>4

\* Every operation of the streamer accounts for its sockets.
LEMMA StreamerKeeps == SocketInv /\ StreamerOp => SocketInv'
<1> SUFFICES ASSUME SocketInv, StreamerOp PROVE SocketInv'
  OBVIOUS
<1>1. CASE UNCHANGED streamerVars
  BY <1>1 DEF streamerVars, SocketInv, StreamerTypeOK, NoLeak, Conns
<1>2. CASE IsConnected \/ IsDisconnected
  <2>1. CASE FoundBroken /\ CloseClient /\ UNCHANGED <<seq, lastSent>>
    BY <2>1, CloseKeeps DEF FoundBroken, SocketInv, StreamerTypeOK
  <2> QED BY <1>1, <1>2, <2>1 DEF IsConnected, IsDisconnected
<1> QED BY <1>1, <1>2, NetworkKeeps, AcceptKeeps, SendKeeps DEF StreamerOp

-----------------------------------------------------------------------------
(***************************************************************************)
(* The loop.                                                               *)
(***************************************************************************)
Streaming == {"loop", "pop", "send", "recheck", "heartbeat", "stats"}
Places == {"accept", "retry", "flush", "rate", "force"} \cup Streaming

\* Every step of the loop is an operation of the streamer or leaves it alone.
LEMMA NextIsStreamerOp ==
  ASSUME entry \in Nat, [Next]_vars
  PROVE  StreamerOp
<1>1. CASE Main
  <2>1. CASE Accept
    BY <2>1 DEF Accept, StreamerOp
  <2>2. CASE Retry \/ FlushRing \/ ResetBitrate \/ StartStream \/ PopFrame \/ PopTimeout
    BY <2>2 DEF Retry, FlushRing, ResetBitrate, StartStream, PopFrame, PopTimeout, StreamerOp
  <2>3. CASE LoopTest \/ Recheck
    BY <2>3 DEF LoopTest, Recheck, StreamerOp
  <2>4. CASE SendFrame
    BY <2>4 DEF SendFrame, StreamerOp
  <2>5. CASE SendHeartbeat
    BY <2>5 DEF SendHeartbeat, StreamerOp, Heartbeat
  <2>6. CASE SkipStats \/ \E rtt \in Rtts : Adapt(rtt)
    BY <2>6 DEF SkipStats, Adapt, StreamerOp
  <2> QED BY <1>1, <2>1, <2>2, <2>3, <2>4, <2>5, <2>6 DEF Main
<1>2. CASE Capture \/ PacketLost
  BY <1>2 DEF Capture, PacketLost, StreamerOp
<1>3. CASE Environment
  BY <1>3 DEF Environment, StreamerOp
<1>4. CASE UNCHANGED vars
  BY <1>4 DEF vars, StreamerOp
<1> QED BY <1>1, <1>2, <1>3, <1>4 DEF Next

(***************************************************************************)
(* The bitrate and the losses: while it streams, what was lost since the   *)
(* last poll is the total less prev_loss.                                  *)
(***************************************************************************)
RateInv ==
    /\ bitrate \in Nat /\ encBitrate \in Nat
    /\ prevLoss \in Nat /\ lossTotal \in Nat /\ lossSince \in Nat
    /\ mpc \in Places
    /\ mpc \in Streaming => lossTotal = prevLoss + lossSince
    /\ mpc \in {"flush", "rate", "force"} => lossTotal = lossSince
    /\ mpc \in Streaming \cup {"force"} => encBitrate = bitrate

\* A new target is a number, and falls for a reason only.
LEMMA TargetType ==
  ASSUME bitrate \in Nat, NEW d \in Int, NEW rtt \in Nat
  PROVE  /\ Target(d, rtt) \in Nat
         /\ Target(d, rtt) < bitrate => d > LossThreshold \/ rtt > 50
<1>1. (bitrate * 60) \div 100 \in Nat /\ (bitrate * 60) \div 100 <= bitrate
  OBVIOUS
<1>2. (bitrate * 115) \div 100 \in Nat /\ (bitrate * 115) \div 100 >= bitrate
  OBVIOUS
<1> DEFINE down == (bitrate * 60) \div 100
           up == (bitrate * 115) \div 100
<1>3. down \in Nat /\ up \in Nat /\ down <= bitrate /\ up >= bitrate
  BY <1>1, <1>2
<1>4. Target(d, rtt) = IF d > LossThreshold \/ rtt > 50
                         THEN IF MinBitrate < down THEN down ELSE MinBitrate
                         ELSE IF d = 0 /\ rtt < 20 /\ bitrate < RampLimit
                                THEN IF RampLimit < up THEN RampLimit ELSE up
                                ELSE bitrate
  BY <1>3 DEF Target, Least, Most, RampLimit, MinBitrate
<1> HIDE DEF down, up
<1>5. CASE d > LossThreshold \/ rtt > 50
  BY <1>3, <1>4, <1>5 DEF MinBitrate, RampLimit
<1>6. CASE ~(d > LossThreshold \/ rtt > 50)
  BY <1>3, <1>4, <1>6 DEF MinBitrate, RampLimit
<1> QED BY <1>5, <1>6

\* The loop starts with the encoder's bitrate.
LEMMA RateInit == Init => RateInv
  BY DEF Init, RateInv, Places, Streaming, StartBitrate

\* Every step keeps the bitrates together.
LEMMA RateNext == RateInv /\ [Next]_vars => RateInv'
<1> SUFFICES ASSUME RateInv, [Next]_vars PROVE RateInv'
  OBVIOUS
<1> USE DEF RateInv, Places, Streaming, Goto
<1>1. CASE Accept
  BY <1>1 DEF Accept
<1>2. CASE Retry \/ FlushRing
  BY <1>2 DEF Retry, FlushRing, rateVars
<1>3. CASE ResetBitrate
  BY <1>3 DEF ResetBitrate, StartBitrate
<1>4. CASE StartStream
  BY <1>4 DEF StartStream
<1>5. CASE LoopTest \/ PopFrame \/ PopTimeout \/ SendFrame
  BY <1>5 DEF LoopTest, PopFrame, PopTimeout, SendFrame, rateVars
<1>6. CASE Recheck \/ SendHeartbeat \/ SkipStats
  BY <1>6 DEF Recheck, SendHeartbeat, SkipStats, rateVars
<1>7. ASSUME NEW rtt \in Rtts, Adapt(rtt) PROVE RateInv'
  <2>1. bitrate' \in Nat
    BY <1>7, TargetType DEF Adapt
  <2> QED BY <1>7, <2>1 DEF Adapt
<1>8. CASE Capture \/ Environment \/ UNCHANGED vars
  BY <1>8 DEF Capture, Environment, rateVars, vars
<1>9. CASE PacketLost
  BY <1>9 DEF PacketLost
<1> QED BY <1>1, <1>2, <1>3, <1>4, <1>5, <1>6, <1>7, <1>8, <1>9 DEF Next, Main

(***************************************************************************)
(* The order of frames: what waits is younger than what was flushed, what  *)
(* was sent and what is being sent.                                        *)
(***************************************************************************)
After(n) == \A i \in 1 .. Len(queue) : queue[i] > n

OrderInv ==
    /\ next \in 1 .. MaxFrames + 1
    /\ queue \in Seq(1 .. MaxFrames) /\ Len(queue) <= Capacity
    /\ entry \in 0 .. MaxFrames /\ flushMark \in 0 .. MaxFrames /\ lastSent \in Nat
    /\ mpc \in Places
    /\ \A i \in 1 .. Len(queue) : queue[i] < next
    /\ \A i, j \in 1 .. Len(queue) : i < j => queue[i] < queue[j]
    /\ flushMark < next /\ lastSent < next /\ entry < next
    /\ mpc = "flush" => lastSent = 0
    /\ mpc \in {"rate", "force"} \cup Streaming => After(flushMark) /\ After(lastSent)
    /\ mpc = "send" => entry > flushMark /\ entry > lastSent /\ After(entry)
    /\ FlushedNeverSent

\* Nothing was sent.
LEMMA OrderInit == Init => OrderInv
<1> SUFFICES ASSUME Init PROVE OrderInv
  OBVIOUS
<1>1. queue = << >> /\ next = 1 /\ entry = 0 /\ flushMark = 0 /\ lastSent = 0 /\ mpc = "accept"
  BY DEF Init, StreamerInit
<1>2. queue \in Seq(1 .. MaxFrames) /\ Len(queue) = 0
  BY <1>1
<1> QED BY <1>1, <1>2 DEF OrderInv, Places, Streaming, FlushedNeverSent

\* The capture thread appends the youngest frame, after dropping the oldest from a
\* full ring.
LEMMA CaptureInOrder ==
  ASSUME OrderInv, Capture
  PROVE  OrderInv'
<1> DEFINE q == IF Len(queue) = Capacity THEN Tail(queue) ELSE queue
<1>1. /\ next \in 1 .. MaxFrames /\ next' = next + 1
      /\ UNCHANGED <<mpc, entry, lastSent, flushMark>>
  BY DEF Capture, OrderInv, streamerVars
<1>2. queue' = Append(q, next)
  BY DEF Capture
<1>3. queue \in Seq(1 .. MaxFrames) /\ Len(queue) \in 0 .. Capacity
  BY DEF OrderInv
<1>4. \A i \in 1 .. Len(queue) : queue[i] \in Nat /\ queue[i] < next
  BY <1>3 DEF OrderInv
<1>5. CASE Len(queue) = Capacity
  <2>1. /\ Len(queue') = Len(queue) /\ queue' \in Seq(1 .. MaxFrames)
        /\ \A i \in 1 .. Len(queue) - 1 : queue'[i] = queue[i + 1]
        /\ queue'[Len(queue)] = next
    BY <1>1, <1>2, <1>3, <1>5
  <2> HIDE DEF q
  <2>2. \A i \in 1 .. Len(queue') :
          \/ \E k \in 1 .. Len(queue) : k = i + 1 /\ queue'[i] = queue[k]
          \/ i = Len(queue') /\ queue'[i] = next
    <3>1. ASSUME NEW i \in 1 .. Len(queue'), i # Len(queue')
          PROVE  i + 1 \in 1 .. Len(queue) /\ queue'[i] = queue[i + 1]
      BY <1>3, <2>1, <3>1
    <3> QED BY <2>1, <3>1
  <2>3. \A n \in Nat : n < next /\ After(n) => After(n)'
    BY <2>2 DEF After
  <2>4. ASSUME NEW i \in 1 .. Len(queue'), NEW j \in 1 .. Len(queue'), i < j
        PROVE  queue'[i] < queue'[j]
    <3>0. i # Len(queue')
      BY <1>3, <2>1, <2>4
    <3>1. PICK k \in 1 .. Len(queue) : k = i + 1 /\ queue'[i] = queue[k]
      BY <2>2, <3>0
    <3>2. CASE j = Len(queue')
      <4>1. queue'[j] = next
        BY <2>1, <3>2
      <4>2. queue'[i] < next
        BY <1>4, <3>1
      <4> QED BY <4>1, <4>2
    <3>3. CASE j # Len(queue')
      <4>1. PICK l \in 1 .. Len(queue) : l = j + 1 /\ queue'[j] = queue[l]
        BY <2>2, <3>3
      <4>2. k < l
        BY <1>3, <2>1, <2>4, <3>1, <4>1
      <4> QED BY <3>1, <4>1, <4>2 DEF OrderInv
    <3> QED BY <3>2, <3>3
  <2>5. ASSUME NEW i \in 1 .. Len(queue') PROVE queue'[i] < next'
    <3>1. CASE queue'[i] = next
      BY <1>1, <3>1
    <3>2. CASE \E k \in 1 .. Len(queue) : queue'[i] = queue[k]
      BY <1>1, <1>4, <3>2
    <3> QED BY <2>2, <3>1, <3>2
  <2> QED BY <1>1, <1>3, <2>1, <2>3, <2>4, <2>5 DEF OrderInv, FlushedNeverSent
<1>6. CASE Len(queue) # Capacity
  <2>1. /\ Len(queue') = Len(queue) + 1 /\ queue' \in Seq(1 .. MaxFrames)
        /\ \A i \in 1 .. Len(queue) : queue'[i] = queue[i]
        /\ queue'[Len(queue) + 1] = next
    BY <1>1, <1>2, <1>3, <1>6
  <2> HIDE DEF q
  <2>2. \A i \in 1 .. Len(queue') :
          \/ i \in 1 .. Len(queue) /\ queue'[i] = queue[i]
          \/ i = Len(queue') /\ queue'[i] = next
    BY <1>3, <2>1
  <2>3. \A n \in Nat : n < next /\ After(n) => After(n)'
    BY <2>2 DEF After
  <2>4. ASSUME NEW i \in 1 .. Len(queue'), NEW j \in 1 .. Len(queue'), i < j
        PROVE  queue'[i] < queue'[j]
    <3>1. i \in 1 .. Len(queue) /\ queue'[i] = queue[i]
      BY <1>3, <2>1, <2>2, <2>4
    <3> QED BY <2>2, <2>4, <3>1 DEF OrderInv
  <2>5. \A i \in 1 .. Len(queue') : queue'[i] < next'
    BY <1>1, <1>4, <2>2
  <2> QED BY <1>1, <1>3, <1>6, <2>1, <2>3, <2>4, <2>5 DEF OrderInv, FlushedNeverSent
<1> QED BY <1>3, <1>5, <1>6

\* The loop takes the oldest one.
LEMMA PopInOrder ==
  ASSUME OrderInv, PopFrame
  PROVE  OrderInv'
<1>1. /\ mpc = "pop" /\ mpc' = "send" /\ queue # << >>
      /\ entry' = Head(queue) /\ queue' = Tail(queue)
      /\ UNCHANGED <<next, lastSent, flushMark>>
  BY DEF PopFrame, Goto, streamerVars
<1>2. queue \in Seq(1 .. MaxFrames) /\ Len(queue) \in 1 .. Capacity
  BY <1>1 DEF OrderInv
<1>3. /\ Len(queue') = Len(queue) - 1 /\ queue' \in Seq(1 .. MaxFrames)
      /\ \A i \in 1 .. Len(queue') : queue'[i] = queue[i + 1]
      /\ entry' = queue[1] /\ entry' \in 1 .. MaxFrames
  BY <1>1, <1>2
<1> DEFINE k == Len(queue)
<1>8. k \in 1 .. Capacity /\ Len(queue') = k - 1 /\ 1 \in 1 .. k
  BY <1>2, <1>3
<1>9. \A i \in 1 .. k - 1 : i + 1 \in 1 .. k /\ queue'[i] = queue[i + 1] /\ 1 < i + 1
  BY <1>3, <1>8
<1>10. \A i, j \in 1 .. k : i < j => queue[i] < queue[j]
  BY DEF OrderInv
<1>11. queue \in [1 .. k -> 1 .. MaxFrames]
  BY <1>2
<1> HIDE DEF k
<1>4. \A i \in 1 .. k - 1 : queue'[i] > entry'
  BY <1>3, <1>8, <1>9, <1>10, <1>11
<1>5. \A n \in Nat : After(n) => After(n)' /\ entry' > n
  BY <1>3, <1>8, <1>9 DEF After, k
<1>6. \A i, j \in 1 .. Len(queue') : i < j => queue'[i] < queue'[j]
  BY <1>8, <1>9, <1>10
<1>12. After(entry)'
  BY <1>4, <1>8 DEF After
<1>7. entry' < next' /\ \A i \in 1 .. Len(queue') : queue'[i] < next'
  BY <1>1, <1>2, <1>3 DEF OrderInv
<1> QED BY <1>1, <1>2, <1>3, <1>5, <1>6, <1>7, <1>8, <1>12 DEF OrderInv, Places, Streaming, FlushedNeverSent

\* A frame that SRT takes becomes the last one sent.
LEMMA SentMoves ==
  ASSUME OrderInv, SendFrame
  PROVE  \/ mpc' = "stats" /\ lastSent' = entry /\ lastSent' > lastSent
         \/ mpc' = "recheck" /\ lastSent' = lastSent
<1>1. entry # Heartbeat /\ entry > lastSent
  BY DEF SendFrame, OrderInv, Heartbeat
<1> QED BY <1>1 DEF SendFrame, Goto, SendTaken, SendTransient, SendLost, SendRefused, streamerVars

\* Every step sends younger frames only.
LEMMA OrderNext == OrderInv /\ [Next]_vars => OrderInv'
<1> SUFFICES ASSUME OrderInv, [Next]_vars PROVE OrderInv'
  OBVIOUS
<1>1. CASE Capture
  BY <1>1, CaptureInOrder
<1>2. CASE PopFrame
  BY <1>2, PopInOrder
<1>3. CASE SendFrame
  <2>1. UNCHANGED <<queue, next, entry, flushMark>> /\ mpc = "send"
    BY <1>3 DEF SendFrame, ringVars
  <2> QED BY <1>3, <2>1, SentMoves DEF OrderInv, Places, Streaming, After, FlushedNeverSent
<1>4. CASE Accept
  <2>1. UNCHANGED <<queue, next, entry, flushMark>> /\ mpc = "accept"
    BY <1>4 DEF Accept, ringVars
  <2>2. \/ mpc' = "retry" /\ lastSent' = lastSent
        \/ mpc' = "flush" /\ lastSent' = 0
    <3>1. CASE AcceptFails /\ Goto("retry")
      <4>1. AcceptFails => UNCHANGED lastSent
        BY Zenon DEF AcceptFails
      <4> QED BY <2>1, <3>1, <4>1 DEF Goto
    <3>2. CASE (\E c \in Conns : AcceptSucceeds(c)) /\ Goto("flush")
      BY <3>2 DEF AcceptSucceeds, Goto
    <3>3. \/ AcceptFails /\ Goto("retry")
          \/ (\E c \in Conns : AcceptSucceeds(c)) /\ Goto("flush")
      BY <1>4, Zenon DEF Accept
    <3> QED BY <3>1, <3>2, <3>3
  <2> QED BY <2>1, <2>2 DEF OrderInv, Places, Streaming, FlushedNeverSent
<1>5. CASE FlushRing
  <2>1. /\ mpc = "flush" /\ mpc' = "rate" /\ queue' = << >> /\ flushMark' = next - 1
        /\ UNCHANGED <<next, entry, lastSent>>
    BY <1>5 DEF FlushRing, Goto, streamerVars
  <2>2. Len(queue') = 0 /\ queue' \in Seq(1 .. MaxFrames)
    BY <2>1
  <2> QED BY <2>1, <2>2 DEF OrderInv, Places, Streaming, After, FlushedNeverSent
<1>6. ASSUME UNCHANGED <<queue, next, entry, flushMark, lastSent>>,
             \/ mpc' = mpc
             \/ mpc' = "accept"
             \/ mpc \in {"rate", "force"} \cup Streaming /\ mpc' \in ({"force"} \cup Streaming) \ {"send"}
      PROVE OrderInv'
  BY <1>6 DEF OrderInv, Places, Streaming, After, FlushedNeverSent
<1>7. CASE ResetBitrate \/ StartStream
  BY <1>6, <1>7 DEF ResetBitrate, StartStream, Goto, ringVars, streamerVars, Streaming
<1>8. CASE LoopTest \/ Recheck
  <2>1. UNCHANGED lastSent
    BY <1>8 DEF LoopTest, Recheck, IsConnected, IsDisconnected, streamerVars
  <2> QED BY <1>6, <1>8, <2>1 DEF LoopTest, Recheck, Goto, ringVars, Streaming
<1>9. CASE Retry \/ PopTimeout \/ SkipStats \/ \E rtt \in Rtts : Adapt(rtt)
  BY <1>6, <1>9 DEF Retry, PopTimeout, SkipStats, Adapt, Goto, ringVars, streamerVars, Streaming
<1>10. CASE SendHeartbeat
  <2>1. UNCHANGED lastSent
    BY <1>10 DEF SendHeartbeat, SendTaken, SendTransient, SendLost
  <2> QED BY <1>6, <1>10, <2>1 DEF SendHeartbeat, Goto, ringVars, Streaming
<1>11. CASE PacketLost \/ Environment \/ UNCHANGED vars
  <2>1. UNCHANGED lastSent
    BY <1>11 DEF PacketLost, Environment, Network, Dial, GiveUp, PeerGone, Break, Becomes, vars, streamerVars
  <2> QED BY <1>6, <1>11, <2>1 DEF PacketLost, Environment, vars, ringVars
<1> QED BY <1>1, <1>2, <1>3, <1>4, <1>5, <1>7, <1>8, <1>9, <1>10, <1>11 DEF Next, Main

(***************************************************************************)
(* The clock of the heartbeat: what has been silent is not longer silent   *)
(* than last_send_time is old, but for failed sends.                       *)
(***************************************************************************)
ClockInv ==
    /\ idle \in 0 .. HeartbeatTicks /\ silence \in 0 .. HeartbeatTicks
    /\ mpc \in Places
    /\ mpc \in Streaming \ {"heartbeat"} => idle < HeartbeatTicks
    /\ mpc = "recheck" => failed = TRUE
    /\ mpc \in Streaming /\ failed = FALSE => silence <= idle

\* Nobody waits.
LEMMA ClockInit == Init => ClockInv
  BY DEF Init, ClockInv, Places, Streaming

\* Every step keeps the clocks within their limits.
LEMMA ClockNext == ClockInv /\ [Next]_vars => ClockInv'
<1> SUFFICES ASSUME ClockInv, [Next]_vars PROVE ClockInv'
  OBVIOUS
<1> USE DEF ClockInv, Places, Streaming, Goto
<1>1. CASE Accept
  BY <1>1 DEF Accept, timeVars
<1>2. CASE Retry \/ FlushRing \/ ResetBitrate
  BY <1>2 DEF Retry, FlushRing, ResetBitrate, timeVars
<1>3. CASE StartStream
  BY <1>3 DEF StartStream
<1>4. CASE LoopTest \/ PopFrame
  BY <1>4 DEF LoopTest, PopFrame, timeVars
<1>5. CASE PopTimeout
  BY <1>5 DEF PopTimeout
<1>6. CASE SendFrame
  BY <1>6 DEF SendFrame
<1>7. CASE Recheck
  BY <1>7 DEF Recheck
<1>8. CASE SendHeartbeat
  BY <1>8 DEF SendHeartbeat, timeVars
<1>9. CASE SkipStats \/ \E rtt \in Rtts : Adapt(rtt)
  BY <1>9 DEF SkipStats, Adapt, timeVars
<1>10. CASE Capture \/ PacketLost \/ Environment \/ UNCHANGED vars
  BY <1>10 DEF Capture, PacketLost, Environment, vars, timeVars
<1> QED BY <1>1, <1>2, <1>3, <1>4, <1>5, <1>6, <1>7, <1>8, <1>9, <1>10 DEF Next, Main

\* The flag for failed sends stays a flag.
LEMMA FailedNext == failed \in BOOLEAN /\ [Next]_vars => failed' \in BOOLEAN
<1> SUFFICES ASSUME failed \in BOOLEAN, [Next]_vars PROVE failed' \in BOOLEAN
  OBVIOUS
<1>1. UNCHANGED failed \/ failed' = TRUE \/ failed' = FALSE
  <2>1. CASE Accept \/ Retry \/ FlushRing \/ ResetBitrate \/ LoopTest \/ PopFrame \/ PopTimeout \/ Recheck
    BY <2>1, Zenon DEF Accept, Retry, FlushRing, ResetBitrate, LoopTest, PopFrame, PopTimeout, Recheck, timeVars
  <2>2. CASE StartStream \/ SendFrame \/ SendHeartbeat \/ SkipStats \/ \E rtt \in Rtts : Adapt(rtt)
    BY <2>2, Zenon DEF StartStream, SendFrame, SendHeartbeat, SkipStats, Adapt, timeVars
  <2>3. CASE Capture \/ PacketLost \/ Environment \/ UNCHANGED vars
    BY <2>3, Zenon DEF Capture, PacketLost, Environment, vars, timeVars
  <2> QED BY <2>1, <2>2, <2>3, Zenon DEF Next, Main
<1> QED BY <1>1, Zenon

-----------------------------------------------------------------------------
(***************************************************************************)
(* The theorems.                                                           *)
(***************************************************************************)
Inv == SocketInv /\ RateInv /\ OrderInv /\ ClockInv /\ failed \in BOOLEAN

\* The invariants hold at the start.
LEMMA InvInit == Init => Inv
<1> SUFFICES ASSUME Init PROVE Inv
  OBVIOUS
<1>1. SocketInv
  BY SocketInit DEF Init
<1>2. failed \in BOOLEAN
  BY DEF Init
<1> QED BY <1>1, <1>2, RateInit, OrderInit, ClockInit, Zenon DEF Inv

\* Every step keeps them.
LEMMA InvNext == Inv /\ [Next]_vars => Inv'
<1> SUFFICES ASSUME Inv, [Next]_vars PROVE Inv'
  OBVIOUS
<1>1. entry \in Nat
  BY DEF Inv, OrderInv
<1>2. SocketInv'
  BY <1>1, NextIsStreamerOp, StreamerKeeps DEF Inv
<1> QED BY <1>2, RateNext, OrderNext, ClockNext, FailedNext, Zenon DEF Inv

\* They imply the properties.
LEMMA InvSafe == Inv => TypeOK /\ NoLeak /\ FlushedNeverSent /\ BitratesAgree /\ NeverSilent
<1> SUFFICES ASSUME Inv PROVE TypeOK /\ NoLeak /\ FlushedNeverSent /\ BitratesAgree /\ NeverSilent
  OBVIOUS
<1>1. TypeOK
  <2>1. StreamerTypeOK /\ (connected <=> client # NoSock) /\ failed \in BOOLEAN
    BY Zenon DEF Inv, SocketInv
  <2>2. /\ queue \in Seq(1 .. MaxFrames) /\ Len(queue) <= Capacity
        /\ next \in 1 .. MaxFrames + 1
        /\ entry \in 0 .. MaxFrames /\ flushMark \in 0 .. MaxFrames
    BY DEF Inv, OrderInv
  <2>3. /\ bitrate \in Nat /\ encBitrate \in Nat
        /\ prevLoss \in Nat /\ lossTotal \in Nat /\ lossSince \in Nat
    BY DEF Inv, RateInv
  <2>4. /\ idle \in 0 .. HeartbeatTicks /\ silence \in 0 .. HeartbeatTicks
        /\ mpc \in Places
    BY DEF Inv, ClockInv
  <2> QED BY <2>1, <2>2, <2>3, <2>4, Zenon DEF TypeOK, Places, Streaming
<1>2. NoLeak /\ FlushedNeverSent
  BY Zenon DEF Inv, SocketInv, OrderInv
<1>3. BitratesAgree
  BY DEF Inv, RateInv, BitratesAgree, Streaming
<1>4. NeverSilent
  <2>1. ~failed => failed = FALSE
    BY Zenon DEF Inv
  <2>2. mpc \in {"loop", "pop", "stats"} /\ failed = FALSE => silence < HeartbeatTicks
    BY DEF Inv, ClockInv, Streaming
  <2> QED BY <2>1, <2>2, Zenon DEF NeverSilent
<1> QED BY <1>1, <1>2, <1>3, <1>4

\* They hold of every behaviour.
LEMMA Invariant == Spec => []Inv
  BY InvInit, InvNext, PTL DEF Spec

\* The loop's and the streamer's variables keep their types, and the connected flag
\* agrees with the client socket, for every capacity and bound.
THEOREM TypeCorrect == Spec => []TypeOK
  BY Invariant, InvSafe, PTL

\* No sequence of sends, losses, hang-ups and accepts leaks a client socket.
THEOREM SocketsNeverLeak == Spec => []NoLeak
  BY Invariant, InvSafe, PTL

\* A frame that the flush should have discarded is never sent to the new receiver.
THEOREM FlushWorks == Spec => []FlushedNeverSent
  BY Invariant, InvSafe, PTL

\* The encoder's bitrate and the loop's idea of it agree in every stream.
THEOREM BitratesStayTogether == Spec => []BitratesAgree
  BY Invariant, InvSafe, PTL

\* A receiver is never left without a packet for as long as the heartbeat's second,
\* whatever the number of timeouts that make it up.
THEOREM HeartbeatsInTime == Spec => []NeverSilent
  BY Invariant, InvSafe, PTL

\* On each connection frames go out in the order they were captured, each at most
\* once: lastSent starts anew with every accept.
THEOREM FramesInOrder == Spec => SentInOrder
<1>1. Inv /\ [Next]_vars => [mpc = "send" /\ mpc' = "stats" => lastSent' > lastSent]_vars
  <2> SUFFICES ASSUME Inv, [Next]_vars, mpc = "send", mpc' = "stats" PROVE lastSent' > lastSent
    OBVIOUS
  <2>1. SendFrame
    BY DEF Next, Main, Accept, Retry, FlushRing, ResetBitrate, StartStream, LoopTest, PopFrame,
           PopTimeout, Recheck, SendHeartbeat, SkipStats, Adapt, Capture, PacketLost, Environment, vars
  <2> QED BY <2>1, SentMoves DEF Inv
<1> QED BY <1>1, Invariant, PTL DEF Spec, SentInOrder

\* No loss is blamed twice and none is inherited from an earlier connection.
THEOREM LossBlamedOnce == Spec => BlamedOnce
<1>1. Inv /\ [Next]_vars => [\A rtt \in Rtts : Adapt(rtt) /\ rtt <= 50 /\ bitrate' < bitrate
                               => lossSince > LossThreshold]_vars
  <2> SUFFICES ASSUME Inv, NEW rtt \in Rtts, Adapt(rtt), rtt <= 50, bitrate' < bitrate
               PROVE  lossSince > LossThreshold
    OBVIOUS
  <2>1. /\ bitrate \in Nat /\ lossTotal - prevLoss = lossSince /\ lossSince \in Int /\ rtt \in Nat
        /\ bitrate' = Target(lossTotal - prevLoss, rtt)
    BY DEF Inv, RateInv, Adapt, Streaming
  <2> QED BY <2>1, TargetType
<1> QED BY <1>1, Invariant, PTL DEF Spec, BlamedOnce
=============================================================================

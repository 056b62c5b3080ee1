------------------------------ MODULE Streamer ------------------------------
(***************************************************************************)
(* ubuntu/src/streamer.c: one SRT listener, at most one client.  SRT and   *)
(* the receiver are external: a connection is dialled, accepted, loses its *)
(* peer, breaks; the streamer only sees the state of its client socket.    *)
(* Every operation is called by the main thread, so each is one step.      *)
(***************************************************************************)
EXTENDS Integers

CONSTANTS MaxConns,     \* bound on the connections the receiver dials
          SeqModulus,   \* 2^16, the width of seq
          TooLarge      \* the frames above MAX_FRAME_SIZE

ASSUME StreamerAssumption ==
  MaxConns \in Nat \ {0} /\ SeqModulus \in Nat \ {0}

VARIABLES client,       \* s->client_sock, NoSock when SRT_INVALID_SOCK
          connected,    \* s->connected
          seq,          \* s->seq
          sock,         \* the SRT state of every connection
          lastSent      \* the last frame SRT took on the current connection

streamerVars == <<client, connected, seq, sock, lastSent>>

Conns == 1 .. MaxConns
NoSock == 0
Heartbeat == 0          \* the frame number of a heartbeat packet

\* "orphan": SRT still says connected, but the peer has gone.  "closing"
\* stands for the states that are neither connected nor broken nor closed.
SockStates == {"unborn", "pending", "up", "orphan", "closing", "broken", "closed"}

StreamerTypeOK ==
  /\ client \in Conns \cup {NoSock}
  /\ connected \in BOOLEAN
  /\ seq \in 0 .. SeqModulus - 1
  /\ sock \in [Conns -> SockStates]
  /\ lastSent \in Nat

\* db_streamer_init has bound the listener.
StreamerInit ==
  /\ client = NoSock /\ connected = FALSE /\ seq = 0
  /\ sock = [c \in Conns |-> "unborn"]
  /\ lastSent = 0

-----------------------------------------------------------------------------
(* The receiver and the network.                                           *)

Becomes(c, s) ==
  sock' = [sock EXCEPT ![c] = s] /\ UNCHANGED <<client, connected, seq, lastSent>>

\* There is one receiver: it dials again when it has given up its previous
\* connection, and one connection waits in the listener's backlog of 1.
Dial(c) ==
  /\ sock[c] = "unborn"
  /\ \A d \in Conns : (d < c => sock[d] # "unborn") /\ sock[d] \notin {"pending", "up"}
  /\ Becomes(c, "pending")

GiveUp(c) == sock[c] = "pending" /\ Becomes(c, "closed")

\* The receiver stops, or its machine does, without the sender knowing.
PeerGone(c) == sock[c] = "up" /\ Becomes(c, "orphan")

\* SRT finds out: a shutdown packet or its own idle timeout.
Break(c) ==
  \/ sock[c] \in {"orphan", "closing"} /\ Becomes(c, "broken")
  \/ sock[c] = "orphan" /\ Becomes(c, "closing")

Network == \E c \in Conns : Dial(c) \/ GiveUp(c) \/ PeerGone(c) \/ Break(c)

-----------------------------------------------------------------------------
(* The operations.                                                         *)

Gone == {"broken", "closed", "unborn"}

\* Mutated form of CloseClient: the flag is forgotten.
CloseKeepsFlag ==
  /\ sock' = [sock EXCEPT ![client] = "closed"]
  /\ client' = NoSock
  /\ UNCHANGED connected

\* srt_close of the client socket and the assignments that go with it.
CloseClient ==
  /\ sock' = [sock EXCEPT ![client] = "closed"]
  /\ client' = NoSock
  /\ connected' = FALSE

\* Mutated form of SockAfterHangup: the client that is still there is forgotten.
SockForgotten == sock

\* db_streamer_accept first disconnects a client that is still there.
SockAfterHangup ==
  IF client = NoSock THEN sock ELSE [sock EXCEPT ![client] = "closed"]

\* No receiver within the timeout; or epoll or srt_accept fails, though one may
\* be waiting: it waits on, until it gives up.
AcceptFails ==
  /\ sock' = SockAfterHangup
  /\ client' = NoSock
  /\ connected' = (client = NoSock /\ connected)
  /\ UNCHANGED <<seq, lastSent>>

AcceptSucceeds(c) ==
  /\ SockAfterHangup[c] = "pending"
  /\ sock' = [SockAfterHangup EXCEPT ![c] = "up"]
  /\ client' = c
  /\ connected' = TRUE
  /\ seq' = 0
  /\ lastSent' = 0

CanSend == connected /\ client # NoSock

\* The early returns of db_streamer_send, before seq is consumed.
SendRefused(f) ==
  /\ ~(CanSend /\ f \notin TooLarge)
  /\ UNCHANGED streamerVars

\* Header filled, seq consumed; then srt_sendmsg2 decides.  A heartbeat
\* differs from a frame in its packet only.
Numbered(f) ==
  /\ CanSend /\ f \notin TooLarge
  /\ seq' = (seq + 1) % SeqModulus

\* SRT takes the packet; an orphan's buffer takes it too, for nobody.
SendTaken(f) ==
  /\ Numbered(f)
  /\ sock[client] \in {"up", "orphan"}
  /\ lastSent' = IF f = Heartbeat THEN lastSent ELSE f
  /\ UNCHANGED <<client, connected, sock>>

\* SRT fails but the socket is not broken: send buffer full, SNDTIMEO.
SendTransient(f) ==
  /\ Numbered(f)
  /\ sock[client] \notin Gone
  /\ UNCHANGED <<client, connected, sock, lastSent>>

SendLost(f) ==
  /\ Numbered(f)
  /\ sock[client] \in Gone
  /\ CloseClient
  /\ UNCHANGED lastSent

\* What db_streamer_is_connected answers; it closes a socket it finds broken.
Alive == client # NoSock /\ sock[client] \in {"up", "orphan"}
FoundBroken == client # NoSock /\ sock[client] \in Gone

IsConnected == Alive /\ UNCHANGED streamerVars

IsDisconnected ==
  /\ ~Alive
  /\ IF FoundBroken THEN CloseClient /\ UNCHANGED <<seq, lastSent>>
                    ELSE UNCHANGED streamerVars
=============================================================================

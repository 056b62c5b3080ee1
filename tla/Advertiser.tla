----------------------------- MODULE Advertiser -----------------------------
(***************************************************************************)
(* discovery.c: the sender's mDNS service.  Avahi's threaded poll runs the *)
(* callbacks, the first of them maybe inside avahi_client_new and so on    *)
(* the main thread.  The daemon, external, answers calls at once, and its  *)
(* changes reach the client later, as events in order.                     *)
(*                                                                         *)
(* A name is the number of times it has been changed from SERVICE_NAME.    *)
(* The state after which a callback only logs is no event here.            *)
(***************************************************************************)
EXTENDS Integers, Sequences

CONSTANTS Local,        \* names other programs of this host hold
          MaxRivals,    \* bound on the names others take on the network
          MaxEpochs     \* bound on the changes of the host's name

ASSUME AdvertiserAssumption ==
  Local \subseteq Nat /\ MaxRivals \in Nat /\ MaxEpochs \in Nat

VARIABLES poll,         \* the poll: "none", "made" with its client, "running" or "quit"
          name,         \* d->name
          entries,      \* the entry group, "none" while d->group is NULL
          published,    \* what it was filled with: the service's and the host's name
          events,       \* sent by the daemon, not yet called back
          refused,      \* a call of create_service has failed
          server,       \* the daemon: "down", "registering", "running" or "gone"
          host,         \* the host's name
          rivals        \* names others hold on the network

svcVars == <<poll, name, entries, published, events, refused>>
daemonVars == <<server, host, rivals>>
adVars == <<svcVars, daemonVars>>

Send(e) == events' = IF poll = "none" THEN << >> ELSE Append(events, e)

AdInit ==
  /\ poll = "none" /\ name = 0 /\ entries = "none" /\ published = << >>
  /\ events = << >> /\ refused = FALSE
  /\ server \in {"down", "running"} /\ host = 0 /\ rivals \in {{}, {0}}

-----------------------------------------------------------------------------
(* Callbacks.                                                              *)

\* create_service, beginning with name n.  A name that collides on this host
\* is changed on the spot; any call may fail, and a failed commit leaves the
\* entries added.  Without the daemon every call fails.
CreateService(n) ==
  IF entries \in {"none", "empty"}
  THEN \/ /\ server \notin {"down", "gone"}
          /\ name' = CHOOSE m \in n .. n + 10 : m \notin Local /\ n .. m - 1 \subseteq Local
          /\ published' = <<name', host>>
          /\ entries' = "registering"
          /\ UNCHANGED refused
       \/ /\ name' = n
          /\ entries' \in {entries, "empty", "added"}
          /\ refused' = TRUE
          /\ UNCHANGED published
  ELSE name' = n /\ UNCHANGED <<entries, published, refused>>

\* Mutated form of Reset: the group keeps its entries.
ResetForgotten == UNCHANGED entries

\* avahi_entry_group_reset, if there is a group.
Reset == entries' = IF entries = "none" THEN "none" ELSE "empty"

\* client_callback and entry_group_callback.
Callback(e) ==
  CASE e = "RUNNING"     -> CreateService(name)
    [] e = "REGISTERING" -> Reset /\ UNCHANGED <<name, published, refused>>
    [] e = "COLLISION"   -> CreateService(name + 1)
    [] e = "FAILURE"     -> UNCHANGED <<name, entries, published, refused>>

PollThread ==
  /\ poll = "running" /\ events # << >>
  /\ Callback(Head(events))
  /\ poll' = IF Head(events) = "FAILURE" THEN "quit" ELSE poll
  /\ events' = Tail(events)
  /\ UNCHANGED daemonVars

-----------------------------------------------------------------------------
(* db_discovery_start and db_discovery_stop, on the main thread.           *)

\* avahi_client_new calls back with the daemon's state; without a daemon the
\* client goes on trying.
NewClient ==
  /\ poll' = "made"
  /\ IF server \in {"down", "gone"} THEN UNCHANGED <<name, entries, published, refused>>
     ELSE Callback(IF server = "running" THEN "RUNNING" ELSE "REGISTERING")
  /\ UNCHANGED events

StartPoll == poll' = "running" /\ UNCHANGED <<name, entries, published, events, refused>>

\* The poll thread is joined before anything is freed; the client takes its
\* group with it.
Unpublish ==
  /\ poll' = "none" /\ name' = 0 /\ entries' = "none" /\ published' = << >>
  /\ events' = << >> /\ refused' = FALSE

-----------------------------------------------------------------------------
(* The daemon and the network.                                             *)

ServerUp ==
  /\ server = "down" /\ server' = "registering"
  /\ Send("REGISTERING")
  /\ UNCHANGED <<poll, name, entries, published, refused, host, rivals>>

ServerRuns ==
  /\ server = "registering" /\ server' = "running"
  /\ Send("RUNNING")
  /\ UNCHANGED <<poll, name, entries, published, refused, host, rivals>>

\* The host's own name collides: the daemon takes another one.
HostRenamed ==
  /\ server = "running" /\ server' = "registering"
  /\ host < MaxEpochs /\ host' = host + 1
  /\ Send("REGISTERING")
  /\ UNCHANGED <<poll, name, entries, published, refused, rivals>>

\* The daemon ends.  A client it had never comes back, so that it need not.
ServerDown ==
  /\ server = "running" /\ server' = "gone"
  /\ entries' = IF entries = "none" THEN "none" ELSE "empty"
  /\ published' = << >>
  /\ Send("FAILURE")
  /\ UNCHANGED <<poll, name, refused, host, rivals>>

\* The entries are probed: they are established, or withdrawn.
Probe ==
  /\ server = "running" /\ entries = "registering"
  /\ IF published[1] \in rivals THEN entries' = "empty" /\ Send("COLLISION")
                                ELSE entries' = "established" /\ UNCHANGED events
  /\ UNCHANGED <<poll, name, published, refused, daemonVars>>

\* Another host claims a name, maybe ours.
NewRival(n) ==
  /\ rivals = {} /\ n < MaxRivals /\ rivals' = {n}
  /\ IF entries = "established" /\ published[1] = n
     THEN entries' = "empty" /\ Send("COLLISION")
     ELSE UNCHANGED <<entries, events>>
  /\ UNCHANGED <<poll, name, published, refused, server, host>>

Daemon ==
  \/ ServerUp \/ ServerRuns \/ HostRenamed \/ ServerDown \/ Probe
  \/ \E n \in 0 .. MaxRivals : NewRival(n)

-----------------------------------------------------------------------------

\* Once the poll thread runs, and unless a call fails or the daemon goes away
\* (create_service is not retried, and a failed client ends the poll thread),
\* the service comes to be advertised with the host's current name, whatever
\* collides with it.  (d->name need not be its name: a collision that is called
\* back after the entries were registered anew changes it once more.)
Advertised ==
  poll = "running" ~>
    \/ entries = "established" /\ published[2] = host
    \/ refused \/ server \in {"down", "gone"} \/ poll # "running"
=============================================================================

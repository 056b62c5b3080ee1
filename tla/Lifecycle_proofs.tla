-------------------------- MODULE Lifecycle_proofs --------------------------
(***************************************************************************)
(* Start-up and shutdown of the sender, for every number of signals and    *)
(* whatever the mDNS daemon does: nothing is destroyed under a thread, and *)
(* whichever call fails, no more is left than main and the error path of   *)
(* that one init forget.                                                   *)
(***************************************************************************)
EXTENDS Lifecycle, TLAPS

Needed == {"encoder", "capture", "streamer"}
Inits == Needed \cup {"input", "discovery"}
Threaded == {"inpthread", "serve", "stopcap", "stopinp", "joincap"}
Places == Inits \cup {"capthread"} \cup Threaded \cup {"joininp", "destroy", "exited"}

-----------------------------------------------------------------------------
(* What the tables of main.c's objects say.                                *)

\* The objects and the order in which they are made.
Order == <<"encoder", "capture", "streamer", "input", "discovery", "capthread">>

StepSet(o) == {Steps[o][n] : n \in DOMAIN Steps[o]}

\* The encoder's steps, evaluated.
LEMMA EncoderTable ==
  /\ DOMAIN Steps["encoder"] = 1 .. 8 /\ Len(Steps["encoder"]) = 8
  /\ Steps["encoder"][1] = "drm_fd" /\ Steps["encoder"][2] = "display"
  /\ Steps["encoder"][3] = "va" /\ Steps["encoder"][4] = "config"
  /\ Steps["encoder"][5] = "surfaces" /\ Steps["encoder"][6] = "context"
  /\ Steps["encoder"][7] = "coded_buf" /\ Steps["encoder"][8] = "conv_buf"
  BY DEF Steps, EncoderSteps

\* The capture's steps, evaluated.
LEMMA CaptureTable ==
  /\ DOMAIN Steps["capture"] = 1 .. 10 /\ Len(Steps["capture"]) = 10
  /\ Steps["capture"][1] = "dbus" /\ Steps["capture"][2] = "session"
  /\ Steps["capture"][3] = "stream" /\ Steps["capture"][4] = "recording"
  /\ Steps["capture"][5] = "node" /\ Steps["capture"][6] = "pw_loop"
  /\ Steps["capture"][7] = "pw_ctx" /\ Steps["capture"][8] = "pw_core"
  /\ Steps["capture"][9] = "pw_stream" /\ Steps["capture"][10] = "connection"
  BY DEF Steps, SessionSteps, PipeWireSteps

\* The streamer's steps, evaluated.
LEMMA StreamerTable ==
  /\ DOMAIN Steps["streamer"] = 1 .. 4 /\ Len(Steps["streamer"]) = 4
  /\ Steps["streamer"][1] = "send_buf" /\ Steps["streamer"][2] = "srt"
  /\ Steps["streamer"][3] = "listen_sock" /\ Steps["streamer"][4] = "port"
  BY DEF Steps, StreamerSteps

\* The injector's steps, evaluated.
LEMMA InputTable ==
  /\ DOMAIN Steps["input"] = 1 .. 2 /\ Len(Steps["input"]) = 2
  /\ Steps["input"][1] = "uinput_fd" /\ Steps["input"][2] = "udp_sock"
  BY DEF Steps, UinputSteps, SocketSteps

\* The advertiser's steps, evaluated.
LEMMA DiscoveryTable ==
  /\ DOMAIN Steps["discovery"] = 1 .. 4 /\ Len(Steps["discovery"]) = 4
  /\ Steps["discovery"][1] = "name" /\ Steps["discovery"][2] = "poll"
  /\ Steps["discovery"][3] = "client" /\ Steps["discovery"][4] = "thread"
  BY DEF Steps, DiscoverySteps

\* An init that completes leaves nothing that its destroy function would forget.
LEMMA ReleasesAll == \A o \in Inits : StepSet(o) \subseteq Releases[o]
<1>1. StepSet("encoder") \subseteq Releases["encoder"]
  BY EncoderTable DEF StepSet, Releases, EncoderReleases
<1>2. StepSet("capture") \subseteq Releases["capture"]
  BY CaptureTable DEF StepSet, Releases, CaptureReleases
<1>3. StepSet("streamer") \subseteq Releases["streamer"]
  BY StreamerTable DEF StepSet, Releases, StreamerReleases
<1>4. StepSet("input") \subseteq Releases["input"]
  BY InputTable DEF StepSet, Releases, InputReleases
<1>5. StepSet("discovery") \subseteq Releases["discovery"]
  BY DiscoveryTable DEF StepSet, Releases, DiscoveryReleases
<1> QED BY <1>1, <1>2, <1>3, <1>4, <1>5 DEF Inits, Needed

\* The objects share no resource.
LEMMA Separate ==
  \A o, p \in Inits : o # p => StepSet(o) \cap (StepSet(p) \cup Releases[p]) = {}
<1>1. /\ StepSet("encoder") = EncoderReleases
      /\ StepSet("capture") = CaptureReleases
      /\ StepSet("streamer") = StreamerReleases
      /\ StepSet("input") = InputReleases
      /\ StepSet("discovery") = DiscoveryReleases
  <2>1. StepSet("encoder") = EncoderReleases
    BY EncoderTable DEF StepSet, EncoderReleases
  <2>2. StepSet("capture") = CaptureReleases
    BY CaptureTable DEF StepSet, CaptureReleases
  <2>3. StepSet("streamer") = StreamerReleases
    BY StreamerTable DEF StepSet, StreamerReleases
  <2>4. StepSet("input") = InputReleases
    BY InputTable DEF StepSet, InputReleases
  <2>5. StepSet("discovery") = DiscoveryReleases
    BY DiscoveryTable DEF StepSet, DiscoveryReleases
  <2> QED BY <2>1, <2>2, <2>3, <2>4, <2>5
<1>2. \A o \in Inits : Releases[o] = StepSet(o)
  BY <1>1 DEF Releases, Inits, Needed
<1>3. \A o, p \in Inits : o # p => StepSet(o) \cap StepSet(p) = {}
  BY <1>1 DEF Inits, Needed, EncoderReleases, CaptureReleases, StreamerReleases, InputReleases,
              DiscoveryReleases
<1> QED BY <1>2, <1>3

\* What the error path of an init forgets of the steps before the one that failed.
Forgotten ==
  [o \in Inits |-> IF o = "encoder" THEN {"display"}
                   ELSE IF o = "capture" THEN {"dbus", "stream", "recording"} ELSE {}]

\* The labels, evaluated.
LEMMA LabelTable ==
  /\ Labels[1] = {"coded_buf"} /\ Labels[2] = {"context"} /\ Labels[3] = {"surfaces"}
  /\ Labels[4] = {"config"} /\ Labels[5] = {"va", "display"} /\ Labels[6] = {"drm_fd"}
  BY DEF Labels

\* The label at which step m of the encoder is released.
LabelOf(m) == IF m = 1 THEN 6 ELSE IF m = 2 THEN 5 ELSE 8 - m

\* Each step has its label, and a failing step jumps to the one of the step before
\* it; but vaInitialize to that of the step before the display.
LEMMA LabelsFit ==
  ASSUME NEW n \in 2 .. 8, NEW m \in 1 .. 7, m < n
  PROVE  /\ Steps["encoder"][m] \in Labels[LabelOf(m)]
         /\ FailLabel[Steps["encoder"][n]] \in Int
         /\ LabelOf(m) \in FailLabel[Steps["encoder"][n]] .. 6 \/ (m = 2 /\ n = 3)
<1>1. Steps["encoder"][m] \in Labels[LabelOf(m)]
  <2>1. m = 1 \/ m = 2 \/ m = 3 \/ m = 4 \/ m = 5 \/ m = 6 \/ m = 7
    OBVIOUS
  <2> QED BY <2>1, EncoderTable, LabelTable DEF LabelOf
<1>2. FailLabel[Steps["encoder"][n]] = IF n = 2 THEN 6 ELSE 9 - n
  <2>1. n = 2 \/ n = 3 \/ n = 4 \/ n = 5 \/ n = 6 \/ n = 7 \/ n = 8
    OBVIOUS
  <2> QED BY <2>1, EncoderTable DEF FailLabel
<1> QED BY <1>1, <1>2 DEF LabelOf

\* A failing step leaves no more of the steps before it than its init forgets: the
\* display of a failed vaInitialize, the bus of a failed negotiation.
LEMMA FailureUndoes ==
  ASSUME NEW o \in Inits, NEW n \in DOMAIN Steps[o], NEW m \in 1 .. n - 1
  PROVE  Steps[o][m] \in Undone(o, Steps[o][n]) \cup Forgotten[o]
<1>1. CASE o = "encoder"
  <2>1. n \in 2 .. 8 /\ m \in 1 .. 7 /\ m < n
    BY <1>1, EncoderTable
  <2> DEFINE from == FailLabel[Steps["encoder"][n]]
  <2>2. Undone(o, Steps[o][n]) = UNION {Labels[i] : i \in from .. 6}
    <3>1. Steps["encoder"][n] # "drm_fd"
      BY <2>1, EncoderTable
    <3> QED BY <1>1, <3>1 DEF Undone
  <2>3. CASE m = 2 /\ n = 3
    BY <1>1, <2>3, EncoderTable DEF Forgotten
  <2>4. CASE ~(m = 2 /\ n = 3)
    <3>1. LabelOf(m) \in from .. 6 /\ Steps["encoder"][m] \in Labels[LabelOf(m)]
      BY <2>1, <2>4, LabelsFit
    <3> HIDE DEF from
    <3> QED BY <1>1, <2>2, <3>1
  <2> QED BY <2>3, <2>4
<1>2. CASE o = "capture"
  <2>1. n \in 2 .. 10 /\ m \in 1 .. 9 /\ m < n
    BY <1>2, CaptureTable
  <2>2. ToSet(SessionSteps) = {"dbus", "session", "stream", "recording", "node"}
    BY DEF ToSet, SessionSteps
  <2>5. Undone(o, Steps[o][n]) = IF Steps[o][n] \in ToSet(SessionSteps) THEN {"session"} ELSE CaptureReleases
    BY <1>2, Zenon DEF Undone
  <2>3. CASE n <= 5
    <3>1. Steps[o][n] \in ToSet(SessionSteps)
      BY <1>2, <2>1, <2>2, <2>3, CaptureTable
    <3>2. Steps[o][m] \in {"session", "dbus", "stream", "recording"}
      BY <1>2, <2>1, <2>3, CaptureTable
    <3>3. Forgotten[o] = {"dbus", "stream", "recording"}
      BY <1>2 DEF Forgotten
    <3> QED BY <2>5, <3>1, <3>2, <3>3
  <2>4. CASE n > 5
    <3>2. Steps[o][n] \notin ToSet(SessionSteps)
      BY <1>2, <2>1, <2>2, <2>4, CaptureTable
    <3>1. Undone(o, Steps[o][n]) = CaptureReleases
      BY <2>5, <3>2
    <3> QED BY <1>2, <2>1, <3>1, CaptureTable DEF CaptureReleases
  <2> QED BY <2>1, <2>3, <2>4
<1>3. CASE o \in Inits \ {"encoder", "capture"}
  <2>1. Undone(o, Steps[o][n]) = ToSet(Steps[o])
    BY <1>3, Zenon DEF Undone
  <2>2. m \in DOMAIN Steps[o]
    BY <1>3, StreamerTable, InputTable, DiscoveryTable DEF Inits, Needed
  <2>3. Steps[o][m] \in ToSet(Steps[o])
    BY <2>2, Zenon DEF ToSet
  <2> QED BY <2>1, <2>3
<1> QED BY <1>1, <1>2, <1>3

-----------------------------------------------------------------------------
(***************************************************************************)
(* Resources.  What is held belongs to a live object, or to the one being  *)
(* made, whose steps are done in their order.                              *)
(***************************************************************************)
Rank == [encoder |-> 1, capture |-> 2, streamer |-> 3, input |-> 4, discovery |-> 5]

Prefix(o) == \A i, j \in DOMAIN Steps[o] : i < j /\ Steps[o][j] \in held => Steps[o][i] \in held

Owned == UNION {Releases[p] : p \in live}

\* How far the needed objects are made while one of them is being made.
MadeInv ==
    /\ mpc = "encoder" => made \cap Needed = {}
    /\ mpc = "capture" => made \cap Needed = {"encoder"}
    /\ mpc = "streamer" => made \cap Needed = {"encoder", "capture"}

HeldInv ==
    /\ MadeInv
    /\ mpc \in Places
    /\ live \subseteq Inits \cup {"ring"}
    /\ mpc \in Inits => /\ Prefix(mpc)
                        /\ held \subseteq Owned \cup StepSet(mpc)
                        /\ \A p \in live \ {"ring"} : Rank[p] < Rank[mpc]
    /\ mpc \notin Inits \cup {"exited"} => held \subseteq Owned
    /\ mpc = "exited" => held \subseteq Leftovers

\* The objects are initialised in the order of their ranks.
LEMMA RankOrder ==
  \A i \in 1 .. 5 : /\ Order[i] \in Inits /\ Rank[Order[i]] = i
                    /\ Order[i + 1] \in Inits => Rank[Order[i + 1]] = i + 1
                    /\ Order[i + 1] \in Inits \cup {"capthread"}
  BY DEF Order, Inits, Needed, Rank

\* Nothing of an object that is not made yet is held.
LEMMA NotYetHeld ==
  ASSUME NEW o \in Inits, NEW S \in SUBSET (Inits \cup {"ring"}), o \notin S
  PROVE  StepSet(o) \cap UNION {Releases[p] : p \in S} = {}
<1>1. Releases["ring"] = {"ring_bufs"}
  BY DEF Releases, RingReleases
<1>2. "ring_bufs" \notin StepSet(o)
  <2>1. "ring_bufs" \notin Releases[o]
    BY DEF Releases, EncoderReleases, CaptureReleases, StreamerReleases, InputReleases,
           DiscoveryReleases, Inits, Needed
  <2> QED BY <2>1, ReleasesAll
<1> QED BY <1>1, <1>2, Separate

\* Ranks are numbers.
LEMMA RankIsInt == \A p \in Inits : Rank[p] \in 1 .. 5
  BY DEF Rank, Inits, Needed

\* Steps are counted from 1.
LEMMA IntervalIndex == \A o \in Inits : DOMAIN Steps[o] \subseteq Nat \ {0}
  BY EncoderTable, CaptureTable, StreamerTable, InputTable, DiscoveryTable DEF Inits, Needed

\* No init takes the same thing twice.
LEMMA NoRepetition ==
  \A o \in Inits : \A a, b \in DOMAIN Steps[o] : Steps[o][a] = Steps[o][b] => a = b
<1>1. \A a, b \in 1 .. 8 : Steps["encoder"][a] = Steps["encoder"][b] => a = b
  BY EncoderTable
<1>2. \A a, b \in 1 .. 10 : Steps["capture"][a] = Steps["capture"][b] => a = b
  BY CaptureTable
<1>3. \A a, b \in 1 .. 4 : Steps["streamer"][a] = Steps["streamer"][b] => a = b
  BY StreamerTable
<1>4. \A a, b \in 1 .. 2 : Steps["input"][a] = Steps["input"][b] => a = b
  BY InputTable
<1>5. \A a, b \in 1 .. 4 : Steps["discovery"][a] = Steps["discovery"][b] => a = b
  BY DiscoveryTable
<1> QED BY <1>1, <1>2, <1>3, <1>4, <1>5, EncoderTable, CaptureTable, StreamerTable, InputTable,
           DiscoveryTable DEF Inits, Needed

\* A step of an init that succeeds.
LEMMA AcquireKeeps ==
  ASSUME HeldInv, NEW i \in 1 .. 5, Acquire(Order[i], Order[i + 1])
  PROVE  HeldInv'
<1> DEFINE o == Order[i]
           after == Order[i + 1]
<1>1. o \in Inits /\ mpc = o /\ Rank[o] = i
  BY RankOrder DEF Acquire
<1>2. PICK n \in DOMAIN Steps[o] :
        /\ IsNext(o, n)
        /\ held' = held \cup {Steps[o][n]}
        /\ IF n = Len(Steps[o])
           THEN made' = made \cup {o} /\ live' = live \cup {o} /\ Goto(after)
           ELSE UNCHANGED <<made, live, mpc>>
  BY DEF Acquire
<1>3. Steps[o][n] \in StepSet(o)
  BY DEF StepSet
<1>4. after \in Inits \cup {"capthread"} /\ (after \in Inits => Rank[after] = i + 1)
  BY RankOrder
<1>5. held \subseteq Owned \cup StepSet(o) /\ Prefix(o) /\ \A p \in live \ {"ring"} : Rank[p] < i
  BY <1>1 DEF HeldInv
<1> HIDE DEF o, after
<1>6. CASE n # Len(Steps[o])
  <2>1. mpc' = o /\ live' = live /\ made' = made
    BY <1>1, <1>2, <1>6
  <2>4. MadeInv'
    BY <1>1, <2>1 DEF HeldInv, MadeInv
  <2>2. Prefix(o)'
    <3>1. ASSUME NEW a \in DOMAIN Steps[o], NEW b \in DOMAIN Steps[o], a < b, Steps[o][b] \in held'
          PROVE  Steps[o][a] \in held'
      <4>1. a \in Nat \ {0} /\ b \in Nat \ {0}
        BY <1>1, IntervalIndex
      <4>2. CASE b = n
        <5>1. a \in 1 .. n - 1
          BY <3>1, <4>1, <4>2
        <5> QED BY <1>2, <5>1 DEF IsNext
      <4>3. CASE Steps[o][b] \in held
        BY <1>2, <1>5, <3>1, <4>3 DEF Prefix
      <4>4. CASE b # n /\ Steps[o][b] = Steps[o][n]
        BY <1>1, <1>2, <4>4, NoRepetition
      <4> QED BY <1>2, <3>1, <4>2, <4>3, <4>4
    <3> QED BY <3>1 DEF Prefix
  <2>3. held' \subseteq (Owned \cup StepSet(o))'
    BY <1>2, <1>3, <1>5, <2>1 DEF Owned, StepSet
  <2> QED BY <1>1, <1>5, <2>1, <2>2, <2>3, <2>4 DEF HeldInv, Inits, Needed
<1>7. CASE n = Len(Steps[o])
  <2>1. mpc' = after /\ live' = live \cup {o} /\ made' = made \cup {o}
    BY <1>2, <1>7 DEF Goto
  <2>5. MadeInv'
    <3>1. <<o, after>> \in {<<"encoder", "capture">>, <<"capture", "streamer">>} 
            \/ after \notin Needed
      BY DEF o, after, Order, Needed
    <3> QED BY <1>1, <2>1, <3>1 DEF HeldInv, MadeInv, Needed
  <2>2. live' \subseteq Inits \cup {"ring"} /\ mpc' \in Places
    BY <1>1, <1>4, <2>1 DEF HeldInv, Places, Inits, Needed
  <2>3. held' \subseteq Owned'
    <3>1. StepSet(o) \subseteq Releases[o]
      BY <1>1, ReleasesAll
    <3> QED BY <1>2, <1>3, <1>5, <2>1, <3>1 DEF Owned
  <2>4. ASSUME after \in Inits PROVE Prefix(after)' /\ \A p \in live' \ {"ring"} : Rank[p] < Rank[after]
    <3>1. \A p \in live' \ {"ring"} : Rank[p] < i + 1
      BY <1>1, <1>5, <2>1, RankIsInt DEF HeldInv
    <3>2. after \notin live'
      BY <1>4, <2>4, <3>1, RankIsInt DEF Inits, Needed
    <3>3. StepSet(after) \cap held' = {}
      BY <2>2, <2>3, <2>4, <3>2, NotYetHeld DEF Owned
    <3>4. Prefix(after)'
      BY <3>3 DEF Prefix, StepSet
    <3> QED BY <1>4, <2>4, <3>1, <3>4
  <2> QED BY <1>4, <2>1, <2>2, <2>3, <2>4, <2>5 DEF HeldInv, Inits, Needed
<1> QED BY <1>6, <1>7

\* A step of an init that fails, with what it undoes.
LEMMA AcquireFailsKeeps ==
  ASSUME HeldInv, NEW i \in 1 .. 5, AcquireFails(Order[i], Order[i + 1])
  PROVE  HeldInv'
<1> DEFINE o == Order[i]
           after == Order[i + 1]
<1>1. o \in Inits /\ mpc = o /\ Rank[o] = i
  BY RankOrder DEF AcquireFails
<1>2. PICK n \in DOMAIN Steps[o] :
        /\ IsNext(o, n)
        /\ IF o \in Needed
           THEN /\ held' = (held \ Undone(o, Steps[o][n])) \ UNION {Releases[p] : p \in live \ {"ring"}}
                /\ live' = live \cap {"ring"} /\ Goto("exited")
           ELSE held' = held \ Undone(o, Steps[o][n]) /\ UNCHANGED live /\ Goto(after)
  BY DEF AcquireFails, Needed
<1>8. made' = made
  BY DEF AcquireFails
<1>4. after \in Inits \cup {"capthread"} /\ (after \in Inits => Rank[after] = i + 1)
  BY RankOrder
<1>5. held \subseteq Owned \cup StepSet(o) /\ Prefix(o) /\ \A p \in live \ {"ring"} : Rank[p] < i
  BY <1>1 DEF HeldInv
<1> HIDE DEF o, after
<1>3. ASSUME NEW r \in held, r \in StepSet(o), r \notin Undone(o, Steps[o][n])
      PROVE  r \in Forgotten[o]
  <2>1. PICK m \in DOMAIN Steps[o] : r = Steps[o][m]
    BY <1>3 DEF StepSet
  <2>2. m < n
    <3>1. m # n
      BY <1>2, <1>3, <2>1 DEF IsNext
    <3>2. ~(n < m)
      BY <1>2, <1>3, <1>5, <2>1 DEF IsNext, Prefix
    <3> QED BY <1>1, <1>2, <2>1, <3>1, <3>2, IntervalIndex
  <2>3. m \in 1 .. n - 1
    BY <1>1, <1>2, <2>1, <2>2, IntervalIndex
  <2> QED BY <1>1, <1>3, <2>1, <2>3, FailureUndoes
<1>6. CASE o \in Needed
  <2>1. mpc' = "exited" /\ live' \subseteq {"ring"}
    BY <1>2, <1>6 DEF Goto
  <2>2. held' \subseteq Releases["ring"] \cup Forgotten[o]
    BY <1>2, <1>3, <1>5, <1>6 DEF Owned
  <2>3. Releases["ring"] \cup Forgotten[o] \subseteq Leftovers'
    <3>1. Releases["ring"] = {"ring_bufs"}
      BY DEF Releases, RingReleases
    <3>2. CASE o = "encoder"
      <4>1. made' \cap Needed = {}
        BY <1>1, <1>8, <3>2 DEF HeldInv, MadeInv
      <4>2. Leftovers' = {"ring_bufs", "display"}
        BY <4>1, Zenon DEF Leftovers, Needed
      <4> QED BY <3>1, <3>2, <4>2 DEF Forgotten, Inits, Needed
    <3>3. CASE o = "capture"
      <4>1. made' \cap Needed = {"encoder"}
        BY <1>1, <1>8, <3>3 DEF HeldInv, MadeInv
      <4>2. "encoder" \in made' /\ "capture" \notin made' /\ "streamer" \notin made'
        BY <4>1 DEF Needed
      <4>3. Leftovers' = {"ring_bufs", "dbus", "stream", "recording"}
        BY <4>2, Zenon DEF Leftovers
      <4> QED BY <3>1, <3>3, <4>3 DEF Forgotten, Inits, Needed
    <3>4. CASE o = "streamer"
      <4>1. made' \cap Needed = {"encoder", "capture"}
        BY <1>1, <1>8, <3>4 DEF HeldInv, MadeInv
      <4>2. "capture" \in made' /\ "streamer" \notin made'
        BY <4>1 DEF Needed
      <4>3. Leftovers' = {"ring_bufs"}
        BY <4>2, Zenon DEF Leftovers
      <4> QED BY <3>1, <3>4, <4>3 DEF Forgotten, Inits, Needed
    <3> QED BY <1>6, <3>2, <3>3, <3>4 DEF Needed
  <2>4. MadeInv'
    BY <2>1 DEF MadeInv
  <2> QED BY <2>1, <2>2, <2>3, <2>4 DEF HeldInv, Places, Inits, Needed
<1>7. CASE o \notin Needed
  <2>1. mpc' = after /\ live' = live /\ held' = held \ Undone(o, Steps[o][n])
    BY <1>2, <1>7 DEF Goto
  <2>2. held' \subseteq Owned'
    <3>1. Forgotten[o] = {}
      BY <1>1, <1>7 DEF Forgotten, Needed
    <3> QED BY <1>3, <1>5, <2>1, <3>1 DEF Owned
  <2>4. MadeInv'
    <3>1. after \notin Needed
      BY <1>7 DEF o, after, Order, Needed
    <3> QED BY <2>1, <3>1 DEF MadeInv, Needed
  <2>3. ASSUME after \in Inits PROVE Prefix(after)' /\ \A p \in live' \ {"ring"} : Rank[p] < Rank[after]
    <3>1. \A p \in live' \ {"ring"} : Rank[p] < i + 1
      BY <1>5, <2>1, RankIsInt DEF HeldInv
    <3>2. after \notin live'
      BY <1>4, <2>3, <3>1, RankIsInt DEF Inits, Needed
    <3>5. live' \in SUBSET (Inits \cup {"ring"})
      BY <2>1 DEF HeldInv
    <3>3. StepSet(after) \cap held' = {}
      BY <2>2, <2>3, <3>2, <3>5, NotYetHeld DEF Owned
    <3>4. Prefix(after)'
      BY <3>3 DEF Prefix, StepSet
    <3> QED BY <1>4, <2>3, <3>1, <3>4
  <2> QED BY <1>4, <2>1, <2>2, <2>3, <2>4 DEF HeldInv, Places, Inits, Needed
<1> QED BY <1>6, <1>7

\* At the start the ring holds its buffers.
LEMMA HeldInit == Init => HeldInv
<1> SUFFICES ASSUME Init PROVE HeldInv
  OBVIOUS
<1>1. mpc = "encoder" /\ made = {"ring"} /\ live = {"ring"} /\ held = {"ring_bufs"}
  BY DEF Init
<1>2. held \subseteq Owned
  BY <1>1 DEF Owned, Releases, RingReleases
<1>3. Prefix("encoder")
  BY <1>1, EncoderTable DEF Prefix
<1>4. MadeInv
  BY <1>1 DEF MadeInv, Needed
<1> QED BY <1>1, <1>2, <1>3, <1>4 DEF HeldInv, Places, Inits, Needed

\* Every step keeps account of what is held.
LEMMA HeldNext == HeldInv /\ [Next]_vars => HeldInv'
<1> SUFFICES ASSUME HeldInv, [Next]_vars PROVE HeldInv'
  OBVIOUS
<1>1. CASE Initialise
  <2>1. PICK i \in 1 .. 5 : Acquire(Order[i], Order[i + 1]) \/ AcquireFails(Order[i], Order[i + 1])
    BY <1>1 DEF Initialise, Order
  <2> QED BY <2>1, AcquireKeeps, AcquireFailsKeeps
<1>2. CASE UNCHANGED <<mpc, made, live, held>>
  BY <1>2 DEF HeldInv, MadeInv, Prefix, Owned, Leftovers
<1>3. ASSUME UNCHANGED <<live, held>>, mpc \notin Inits \cup {"exited"}, mpc' \in Places \ Inits,
             mpc' # "exited"
      PROVE  HeldInv'
  BY <1>3 DEF HeldInv, MadeInv, Owned, Inits, Needed
<1>4. CASE CreateCapture \/ CreateInput \/ LeaveLoop \/ CleanupStopCapture \/ CleanupStopInput
           \/ JoinCapture \/ JoinInput
  BY <1>3, <1>4 DEF CreateCapture, CreateInput, LeaveLoop, CleanupStopCapture, CleanupStopInput,
     JoinCapture, JoinInput, Goto, Places, Threaded, Inits, Needed
<1>5. CASE Destroy
  <2>1. mpc = "destroy" /\ held \subseteq Owned
    BY <1>5 DEF Destroy, HeldInv, Inits, Needed
  <2>2. CASE live = {}
    <3>1. held = {}
      BY <2>1, <2>2 DEF Owned
    <3>2. mpc' = "exited" /\ held' = held /\ live' = live
      BY <1>5, <2>2 DEF Destroy, Goto
    <3> QED BY <3>1, <3>2 DEF HeldInv, MadeInv, Places, Inits, Needed
  <2>3. CASE live # {}
    <3>1. PICK o \in live : live' = live \ {o} /\ held' = held \ Releases[o]
      BY <1>5, <2>3 DEF Destroy
    <3>2. mpc' = mpc
      BY <1>5, <2>3 DEF Destroy
    <3>3. held' \subseteq Owned'
      BY <2>1, <3>1 DEF Owned
    <3> QED BY <2>1, <3>1, <3>2, <3>3 DEF HeldInv, MadeInv, Places, Inits, Needed
  <2> QED BY <2>2, <2>3
<1>6. CASE \/ CaptureEnters \/ CaptureError \/ CaptureLeaves \/ InputEnters \/ InputLeaves
           \/ InputError \/ Exited \/ UNCHANGED vars
  BY <1>2, <1>6 DEF CaptureEnters, CaptureError, CaptureLeaves, InputEnters, InputLeaves, InputError,
     Exited, vars, mainVars
<1>7. CASE Signal \/ Handler \/ Advertise
  BY <1>2, <1>7 DEF Signal, Handler, SignalStopCapture, SignalStopInput, Advertise, mainVars
<1> QED BY <1>1, <1>4, <1>5, <1>6, <1>7 DEF Next, Main

\* Whichever acquisition fails, and wherever a signal comes: past its three needed
\* objects the program gives back everything before it exits; short of them it
\* leaves the ring's buffers, and of the object that failed the display or the bus
\* connection with what was begun over it.
THEOREM NoMoreIsLeft == Spec => []NothingElseLeft
<1>1. HeldInv => NothingElseLeft
  BY DEF HeldInv, NothingElseLeft
<1> QED BY <1>1, HeldInit, HeldNext, PTL DEF Spec

-----------------------------------------------------------------------------
(***************************************************************************)
(* Threads.  Main is past their creation and before their join while they  *)
(* run, and destroys nothing in between.                                   *)
(***************************************************************************)
Made == {"streamer", "input", "discovery", "capthread"} \cup Threaded \cup {"joininp"}

ThreadInv ==
    /\ mpc \in Inits \cup {"capthread"} => cap = "none"
    /\ mpc \in Inits \cup {"capthread", "inpthread"} => inp = "none"
    /\ Using(cap) => mpc \in Threaded
    /\ Using(inp) => mpc \in Threaded \cup {"joininp"} /\ "input" \in live
    /\ mpc \in Made \cup {"encoder", "capture"} => "ring" \in live
    /\ mpc \in Made \cup {"capture"} => "encoder" \in live
    /\ mpc \in Made => "capture" \in live

\* The poll thread's client is there while it runs.
PollInv ==
    /\ mpc \in Needed \cup {"input"} => poll = "none"
    /\ poll = "running" => "client" \in held

\* At the start no thread runs.
LEMMA ThreadInit == Init => ThreadInv /\ PollInv
  BY DEF Init, AdInit, ThreadInv, PollInv, Using, Inits, Needed, Made, Threaded

\* Every step leaves running threads what they use.
LEMMA ThreadNext == HeldInv /\ ThreadInv /\ [Next]_vars => ThreadInv'
<1> SUFFICES ASSUME HeldInv, ThreadInv, [Next]_vars PROVE ThreadInv'
  OBVIOUS
<1> USE DEF ThreadInv, Using, Inits, Needed, Made, Threaded
<1>1. ASSUME NEW i \in 1 .. 5, Acquire(Order[i], Order[i + 1]) \/ AcquireFails(Order[i], Order[i + 1])
      PROVE  ThreadInv'
  <2>1. mpc = Order[i] /\ UNCHANGED <<cap, inp>>
    BY <1>1 DEF Acquire, AcquireFails, capVars, inpVars
  <2> DEFINE o == Order[i]
             after == Order[i + 1]
  <2>2. CASE Acquire(o, after)
    <3>1. \/ mpc' = mpc /\ live' = live
          \/ mpc' = after /\ live' = live \cup {o}
      BY <2>2 DEF Acquire, Goto
    <3> QED BY <2>1, <3>1 DEF Order
  <2>3. CASE AcquireFails(o, after)
    <3>1. \/ mpc' = after /\ live' = live /\ o \notin Needed
          \/ mpc' = "exited"
      BY <2>3 DEF AcquireFails, Goto
    <3> QED BY <2>1, <3>1 DEF Order
  <2> QED BY <1>1, <2>2, <2>3
<1>2. CASE Initialise
  <2>1. PICK i \in 1 .. 5 : Acquire(Order[i], Order[i + 1]) \/ AcquireFails(Order[i], Order[i + 1])
    BY <1>2 DEF Initialise, Order
  <2> QED BY <1>1, <2>1
<1>3. CASE CreateCapture \/ LeaveLoop \/ CleanupStopCapture \/ CleanupStopInput \/ JoinCapture
  BY <1>3 DEF CreateCapture, LeaveLoop, CleanupStopCapture, CleanupStopInput, JoinCapture, Goto,
     inpVars, capVars
<1>4. CASE CreateInput \/ JoinInput
  BY <1>4 DEF CreateInput, JoinInput, Goto, capVars
<1>5. CASE Destroy
  <2>1. mpc = "destroy" /\ mpc' \in {"destroy", "exited"} /\ UNCHANGED <<cap, inp>>
    BY <1>5 DEF Destroy, Goto, capVars, inpVars
  <2> QED BY <2>1
<1>6. CASE CaptureEnters \/ CaptureError \/ CaptureLeaves \/ InputEnters \/ InputLeaves \/ InputError
  BY <1>6 DEF CaptureEnters, CaptureError, CaptureLeaves, InputEnters, InputLeaves, InputError,
     mainVars, capVars, inpVars
<1>7. CASE Signal \/ Handler \/ Advertise \/ Exited \/ UNCHANGED vars
  BY <1>7 DEF Signal, Handler, SignalStopCapture, SignalStopInput, Advertise, Exited, vars, mainVars,
     capVars, inpVars
<1> QED BY <1>2, <1>3, <1>4, <1>5, <1>6, <1>7 DEF Next, Main

\* Every step leaves Avahi's thread its client.
LEMMA PollNext == HeldInv /\ PollInv /\ [Next]_vars => PollInv'
<1> SUFFICES ASSUME HeldInv, PollInv, [Next]_vars PROVE PollInv'
  OBVIOUS
<1>1. ASSUME NEW i \in 1 .. 5, Acquire(Order[i], Order[i + 1]) PROVE PollInv'
  <2>1. PICK n \in DOMAIN Steps[Order[i]] :
          /\ IsNext(Order[i], n) /\ AcquireEffect(Steps[Order[i]][n])
          /\ held' = held \cup {Steps[Order[i]][n]}
    BY <1>1 DEF Acquire
  <2>2. mpc = Order[i] /\ (mpc' = mpc \/ mpc' = Order[i + 1])
    BY <1>1 DEF Acquire, Goto
  <2>3. CASE Order[i] = "discovery"
    <3>1. mpc' \notin Needed \cup {"input"}
      BY <2>2, <2>3 DEF Order, Needed
    <3>2. Steps["discovery"][n] = "thread" => n = 4
      BY <2>1, <2>3, DiscoveryTable
    <3>3. Steps["discovery"][n] = "thread" => "client" \in held
      <4>1. n = 4 => 3 \in 1 .. n - 1
        OBVIOUS
      <4> QED BY <2>1, <2>3, <3>2, <4>1, DiscoveryTable DEF IsNext
    <3>4. poll' = "running" => poll = "running" \/ Steps["discovery"][n] = "thread"
      BY <2>1, <2>3 DEF AcquireEffect, NewClient, StartPoll, svcVars
    <3> QED BY <2>1, <3>1, <3>3, <3>4 DEF PollInv
  <2>4. CASE Order[i] # "discovery"
    <3>1. Order[i] \in Needed \cup {"input"}
      BY <2>4, RankOrder DEF Inits
    <3>2. Steps[Order[i]][n] \notin {"client", "thread"}
      BY <2>1, <3>1, EncoderTable, CaptureTable, StreamerTable, InputTable DEF Needed
    <3>3. UNCHANGED poll
      BY <2>1, <3>2 DEF AcquireEffect, svcVars
    <3> QED BY <2>2, <3>1, <3>3 DEF PollInv
  <2> QED BY <2>3, <2>4
<1>2. ASSUME NEW i \in 1 .. 5, AcquireFails(Order[i], Order[i + 1]) PROVE PollInv'
  <2>1. mpc = Order[i]
    BY <1>2 DEF AcquireFails
  <2>2. poll' = "none"
    <3>1. CASE Order[i] = "discovery"
      BY <1>2, <3>1 DEF AcquireFails, Unpublish
    <3>2. CASE Order[i] # "discovery"
      <4>1. Order[i] \in Needed \cup {"input"}
        BY <3>2, RankOrder DEF Inits
      <4> QED BY <1>2, <2>1, <3>2, <4>1 DEF AcquireFails, PollInv, svcVars
    <3> QED BY <3>1, <3>2
  <2> QED BY <2>2 DEF PollInv
<1>3. CASE Initialise
  <2>1. PICK i \in 1 .. 5 : Acquire(Order[i], Order[i + 1]) \/ AcquireFails(Order[i], Order[i + 1])
    BY <1>3 DEF Initialise, Order
  <2> QED BY <1>1, <1>2, <2>1
<1>4. CASE Destroy
  <2>1. mpc' \notin Needed \cup {"input"}
    BY <1>4 DEF Destroy, Goto, Needed
  <2>2. ASSUME poll' = "running" PROVE "client" \in held'
    <3>1. CASE live = {}
      BY <1>4, <2>2, <3>1 DEF Destroy, PollInv, svcVars
    <3>2. CASE live # {}
      <4>1. PICK o \in live : /\ held' = held \ Releases[o]
                              /\ IF o = "discovery" THEN Unpublish ELSE UNCHANGED svcVars
        BY <1>4, <3>2 DEF Destroy
      <4>2. o # "discovery" /\ poll' = poll
        BY <2>2, <4>1 DEF Unpublish, svcVars
      <4>3. "client" \in StepSet("discovery")
        BY DiscoveryTable DEF StepSet
      <4>4. "client" \notin Releases[o]
        <5>1. CASE o = "ring"
          BY <5>1 DEF Releases, RingReleases
        <5>2. CASE o # "ring"
          BY <4>2, <4>3, <5>2, Separate DEF HeldInv, Inits, Needed
        <5> QED BY <5>1, <5>2
      <4> QED BY <2>2, <4>1, <4>2, <4>4 DEF PollInv
    <3> QED BY <3>1, <3>2
  <2> QED BY <2>1, <2>2 DEF PollInv
<1>5. CASE Advertise
  <2>1. UNCHANGED <<mpc, held>> /\ (poll' = poll \/ poll' = "quit")
    BY <1>5 DEF Advertise, mainVars, PollThread, Daemon, ServerUp, ServerRuns, HostRenamed, ServerDown,
       Probe, NewRival
  <2>2. poll' = "quit" => poll = "running" \/ poll = "quit"
    BY <1>5 DEF Advertise, PollThread, Daemon, ServerUp, ServerRuns, HostRenamed, ServerDown, Probe,
       NewRival
  <2> QED BY <2>1, <2>2 DEF PollInv
<1>6. ASSUME UNCHANGED <<poll, held>>, mpc' \in Needed \cup {"input"} => mpc' = mpc
      PROVE  PollInv'
  BY <1>6 DEF PollInv
<1>7. CASE CreateCapture \/ CreateInput \/ LeaveLoop \/ CleanupStopCapture \/ CleanupStopInput
           \/ JoinCapture \/ JoinInput
  BY <1>6, <1>7 DEF CreateCapture, CreateInput, LeaveLoop, CleanupStopCapture, CleanupStopInput,
     JoinCapture, JoinInput, Goto, adVars, svcVars, Needed
<1>8. CASE \/ CaptureEnters \/ CaptureError \/ CaptureLeaves \/ InputEnters \/ InputLeaves
           \/ InputError \/ Exited \/ UNCHANGED vars \/ Signal \/ Handler
  BY <1>6, <1>8 DEF CaptureEnters, CaptureError, CaptureLeaves, InputEnters, InputLeaves, InputError,
     Exited, vars, mainVars, adVars, svcVars, Signal, Handler, SignalStopCapture, SignalStopInput
<1> QED BY <1>3, <1>4, <1>5, <1>7, <1>8 DEF Next, Main

\* No object is destroyed while a thread works with it, however signals, errors and
\* thread starts interleave with main's cleanup.
THEOREM NothingDestroyedInUse == Spec => []DestroyedAfterUse
<1> DEFINE I == HeldInv /\ ThreadInv /\ PollInv
<1>1. Init => I
  BY HeldInit, ThreadInit
<1>2. I /\ [Next]_vars => I'
  BY HeldNext, ThreadNext, PollNext
<1>3. I => DestroyedAfterUse
  BY DEF ThreadInv, PollInv, DestroyedAfterUse, Made
<1> HIDE DEF I
<1> QED BY <1>1, <1>2, <1>3, PTL DEF Spec
=============================================================================

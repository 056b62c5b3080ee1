----------------------------- MODULE Mac_proofs -----------------------------
(***************************************************************************)
(* The two state machines of the Mac whose targets and keys must follow    *)
(* something: the receiver's hosts and its socket, for every set of hosts, *)
(* however often discovery answers and whenever the application quits; and *)
(* the keys, for every table of modifiers, every keyboard and any number   *)
(* of lost, duplicated and reordered packets.                              *)
(***************************************************************************)
EXTENDS Receiver, InputPath, NaturalsInduction, WellFoundedInduction, TLAPS

-----------------------------------------------------------------------------
(* Induction over the natural numbers.                                     *)

\* A set of natural numbers that has a member has a least one.
LEMMA LeastNat ==
  ASSUME NEW T \in SUBSET Nat, NEW w \in T
  PROVE \E n \in T : \A m \in T : n <= m
<1> DEFINE R == OpToRel(<, Nat)
<1>1. IsWellFoundedOn(R, Nat)
  BY NatLessThanWellFounded
<1>2. T \subseteq Nat /\ T # {}
  OBVIOUS
<1>3. PICK n \in T : \A m \in T : ~(<<m, n>> \in R)
  <2> HIDE DEF R
  <2> QED BY <1>1, <1>2, WFMin
<1>4. ASSUME NEW m \in T PROVE n <= m
  <2>1. m \in Nat /\ n \in Nat
    OBVIOUS
  <2>2. CASE m < n
    <3>1. <<m, n>> \in R
      BY <2>1, <2>2 DEF OpToRel
    <3> QED BY <1>3, <3>1
  <2> QED BY <2>1, <2>2
<1> QED BY <1>4

\* A set with zero, and with every number's successor, has all of them.
LEMMA SetInduction ==
  ASSUME NEW S \in SUBSET Nat, 0 \in S, \A n \in S : n + 1 \in S
  PROVE S = Nat
<1> SUFFICES ASSUME S # Nat PROVE FALSE
  OBVIOUS
<1> DEFINE T == {n \in Nat : n \notin S}
<1>1. PICK w \in T : TRUE
  OBVIOUS
<1>2. T \in SUBSET Nat
  OBVIOUS
<1>3. PICK n \in T : \A m \in T : n <= m
  <2> HIDE DEF T
  <2> QED BY <1>1, <1>2, LeastNat
<1>4. n # 0 /\ n \in Nat
  OBVIOUS
<1>5. n - 1 \in Nat /\ n - 1 \notin T
  BY <1>3, <1>4
<1>6. n - 1 \in S
  BY <1>5
<1> QED BY <1>4, <1>6, <1>3

\* step[1], ..., step[n] are functions on S.
IsStep(step, n, S) == step \in [1 .. n -> [S -> S]]

\* f is what they make of s, one after the other.
IsRun(f, step, n, S, s) ==
  f \in [0 .. n -> S] /\ f[0] = s /\ \A i \in 1 .. n : f[i] = step[i][f[i - 1]]

\* Steps have a run from everywhere.
LEMMA RunExists ==
  ASSUME NEW S, NEW s \in S, NEW n \in Nat, NEW step, IsStep(step, n, S)
  PROVE \E f : IsRun(f, step, n, S, s)
<1> DEFINE T == {m \in Nat : m <= n => \E f : IsRun(f, step, m, S, s)}
<1>1. 0 \in T
  <2>1. IsRun([i \in 0 .. 0 |-> s], step, 0, S, s)
    BY DEF IsRun
  <2> QED BY <2>1
<1>2. ASSUME NEW m \in T PROVE m + 1 \in T
  <2> SUFFICES ASSUME m + 1 <= n PROVE \E f : IsRun(f, step, m + 1, S, s)
    OBVIOUS
  <2>1. PICK f : IsRun(f, step, m, S, s)
    OBVIOUS
  <2> DEFINE e == step[m + 1][f[m]]
             g == [i \in 0 .. m + 1 |-> IF i = m + 1 THEN e ELSE f[i]]
  <2>2. m \in Nat /\ m + 1 \in 1 .. n /\ f[m] \in S
    <3>1. m \in Nat /\ m + 1 \in 1 .. n
      OBVIOUS
    <3> QED BY <2>1, <3>1 DEF IsRun
  <2>3. e \in S
    BY <2>2 DEF IsStep
  <2> HIDE DEF e
  <2>4. g \in [0 .. m + 1 -> S] /\ g[0] = s
    BY <2>1, <2>2, <2>3 DEF IsRun
  <2>5. \A i \in 1 .. m : g[i] = f[i] /\ g[i - 1] = f[i - 1]
    BY <2>2
  <2>6. g[m + 1] = e /\ g[m] = f[m]
    BY <2>2
  <2> HIDE DEF g
  <2>7. ASSUME NEW i \in 1 .. m + 1 PROVE g[i] = step[i][g[i - 1]]
    <3>1. CASE i = m + 1
      <4>1. i - 1 = m
        BY <3>1, <2>2
      <4> QED BY <3>1, <4>1, <2>6 DEF e
    <3>2. CASE i # m + 1
      <4>1. i \in 1 .. m
        BY <3>2, <2>2
      <4> QED BY <4>1, <2>5, <2>1 DEF IsRun
    <3> QED BY <3>1, <3>2
  <2>8. IsRun(g, step, m + 1, S, s)
    BY <2>4, <2>7 DEF IsRun
  <2> QED BY <2>8
<1>3. T = Nat
  <2>1. T \in SUBSET Nat
    OBVIOUS
  <2> HIDE DEF T
  <2> QED BY <1>1, <1>2, <2>1, SetInduction
<1> QED BY <1>3

\* The sequences Q[1], ..., Q[n], joined one after the other, give f.
Joins(f, Q, n, S) ==
  f \in [0 .. n -> S] /\ f[0] = << >> /\ \A i \in 1 .. n : f[i] = f[i - 1] \o Q[i]

\* They can be joined.
LEMMA JoinExists ==
  ASSUME NEW E, NEW n \in Nat, NEW Q, \A i \in 1 .. n : Q[i] \in Seq(E)
  PROVE \E f : Joins(f, Q, n, Seq(E))
<1> DEFINE S == Seq(E)
           s0 == << >>
           step == [i \in 1 .. n |-> [s \in S |-> s \o Q[i]]]
<1>1. s0 \in S /\ \A s \in S, i \in 1 .. n : s \o Q[i] \in S
  OBVIOUS
<1> HIDE DEF S, s0
<1>2. IsStep(step, n, S)
  BY <1>1 DEF IsStep
<1>3. \A i \in 1 .. n, s \in S : step[i][s] = s \o Q[i]
  OBVIOUS
<1> HIDE DEF step
<1>4. PICK f : IsRun(f, step, n, S, s0)
  BY <1>1, <1>2, RunExists
<1>5. ASSUME NEW i \in 1 .. n PROVE f[i] = f[i - 1] \o Q[i]
  <2>1. f[i - 1] \in S
    BY <1>4 DEF IsRun
  <2> QED BY <1>3, <1>4, <2>1 DEF IsRun
<1>6. Joins(f, Q, n, S)
  BY <1>4, <1>5 DEF Joins, IsRun, s0
<1> QED BY <1>6 DEF S

-----------------------------------------------------------------------------
(* The receiver.                                                           *)

\* A thread that has left its loop holds no socket; input goes where the video
\* comes from until the fallback.
ReceiverInv == ClosedAtExit /\ TargetsAgree

\* At the start there is no socket, and one target.
LEMMA ReceiverInit == Init => ReceiverInv
  BY DEF Init, ReceiverInv, ClosedAtExit, TargetsAgree

\* Every step keeps both.
LEMMA ReceiverStep == ReceiverInv /\ [Next]_vars => ReceiverInv'
<1> SUFFICES ASSUME ReceiverInv, [Next]_vars PROVE ReceiverInv'
  OBVIOUS
<1> USE DEF ReceiverInv, ClosedAtExit, TargetsAgree
<1>1. CASE Discovery
  BY <1>1 DEF Discovery, ServiceAdded, Resolve, ResolveFails, hostVars, recvVars
<1>2. CASE DiscoveryFails
  BY <1>2 DEF DiscoveryFails, hostVars, recvVars
<1>3. CASE StartPipeline
  BY <1>3 DEF StartPipeline
<1>4. CASE ViewDidAppear \/ ChangeNetwork
  BY <1>4 DEF ViewDidAppear, ChangeNetwork, hostVars, recvVars
<1>5. CASE Shutdown
  BY <1>5 DEF Shutdown, hostVars
<1>6. CASE RecvLoop
  <2>1. CASE LoopTest
    BY <2>1 DEF LoopTest, hostVars
  <2>2. CASE Connect
    BY <2>2 DEF Connect, hostVars
  <2>3. CASE ConnectFails
    <3>1. ClosedAtExit'
      BY <2>3 DEF ConnectFails
    <3>2. srtTarget' \in {srtTarget, DefaultHost} /\ inputTarget' = inputTarget
      BY <2>3 DEF ConnectFails
    <3> QED
      BY <3>1, <3>2
  <2>4. CASE Wake
    BY <2>4 DEF Wake, hostVars
  <2>5. CASE ReceiveFails
    BY <2>5 DEF ReceiveFails, hostVars
  <2> QED
    BY <1>6, <2>1, <2>2, <2>3, <2>4, <2>5 DEF RecvLoop
<1>7. CASE UNCHANGED vars
  BY <1>7 DEF vars, hostVars, recvVars
<1> QED
  BY <1>1, <1>2, <1>3, <1>4, <1>5, <1>6, <1>7 DEF Next

\* The socket a connect() under way makes after stop() is closed by the loop.
THEOREM SocketClosedAtExit == Spec => []ClosedAtExit
<1>1. ReceiverInv => ClosedAtExit
  BY DEF ReceiverInv
<1> QED
  BY <1>1, ReceiverInit, ReceiverStep, PTL DEF Spec

\* Until checkFallback parts them, SRTReceiver and InputForwarder have the same
\* host, wherever discovery's answers fall.
THEOREM KeysFollowVideo == Spec => []TargetsAgree
<1>1. ReceiverInv => TargetsAgree
  BY DEF ReceiverInv
<1> QED
  BY <1>1, ReceiverInit, ReceiverStep, PTL DEF Spec

-----------------------------------------------------------------------------
(* The input path.                                                         *)

\* The packets of the network.
Packet == [type : {"keydown", "keyup", "button"}, key : Codes \cup {0},
           x : Xs \cup {0}, y : Ys \cup {0}, value : Int]

\* p is about the key k.
About(p, k) == IsKey(p) /\ p.key = k

\* Once the packets s have arrived at a device that has H down, k is down exactly
\* if D has it: the last packet about k says so, or there is none and it is so.
Leads(s, H, k, D) ==
  /\ (\A i \in DOMAIN s : ~About(s[i], k)) => (k \in H <=> k \in D)
  /\ \A i \in DOMAIN s :
       About(s[i], k) /\ (\A j \in DOMAIN s : j > i => ~About(s[j], k)) =>
         (s[i].type = "keydown" <=> k \in D)

\* The keys and modifiers that are down as far as the Mac has noticed.
Noticed == lastFlags \cup (phys \cap Keys)

\* What is under way leads to what the Mac noticed, but for the keys that lost
\* their last packet; and what it noticed of the modifiers is so, unless a change
\* went unseen since.
InputInv ==
  /\ net \in Seq(Packet)
  /\ phys \subseteq Codes /\ lastFlags \subseteq Mods
  /\ \A k \in Mods \ unseen : k \in lastFlags <=> k \in phys
  /\ \A k \in Codes \ lost :
       k \in Mods \/ k \notin unseen => Leads(net, held, k, Noticed)

\* Only k counts.
LEMMA LeadsSame ==
  ASSUME NEW s, NEW H, NEW k, NEW D, NEW E, Leads(s, H, k, D), k \in D <=> k \in E
  PROVE Leads(s, H, k, E)
  BY DEF Leads

\* Packets about other keys change nothing for k; the last one about k decides.
LEMMA LeadsSend ==
  ASSUME NEW s \in Seq(Packet), NEW ps \in Seq(Packet), NEW H, NEW k, NEW D,
         \A i \in DOMAIN ps : About(ps[i], k) => (ps[i].type = "keydown" <=> k \in D),
         (\A i \in DOMAIN ps : ~About(ps[i], k)) => Leads(s, H, k, D)
  PROVE Leads(s \o ps, H, k, D)
<1> DEFINE t == s \o ps
<1>1. /\ t \in Seq(Packet) /\ Len(t) = Len(s) + Len(ps)
      /\ \A i \in 1 .. Len(s) : t[i] = s[i]
      /\ \A i \in 1 .. Len(ps) : t[Len(s) + i] = ps[i]
      /\ DOMAIN s = 1 .. Len(s) /\ DOMAIN ps = 1 .. Len(ps) /\ DOMAIN t = 1 .. Len(t)
      /\ Len(s) \in Nat /\ Len(ps) \in Nat
  OBVIOUS
<1> HIDE DEF t
<1>2. ASSUME \A i \in DOMAIN t : ~About(t[i], k) PROVE k \in H <=> k \in D
  <2>1. \A i \in DOMAIN ps : ~About(ps[i], k)
    <3> TAKE i \in DOMAIN ps
    <3>1. Len(s) + i \in DOMAIN t
      BY <1>1
    <3> QED BY <1>1, <1>2, <3>1
  <2>2. \A i \in DOMAIN s : ~About(s[i], k)
    <3> TAKE i \in DOMAIN s
    <3>1. i \in DOMAIN t
      BY <1>1
    <3> QED BY <1>1, <1>2, <3>1
  <2> QED BY <2>1, <2>2 DEF Leads
<1>3. ASSUME NEW i \in DOMAIN t, About(t[i], k),
             \A j \in DOMAIN t : j > i => ~About(t[j], k)
      PROVE t[i].type = "keydown" <=> k \in D
  <2>1. CASE i > Len(s)
    <3>1. i - Len(s) \in DOMAIN ps /\ t[i] = ps[i - Len(s)]
      <4>1. i - Len(s) \in 1 .. Len(ps) /\ Len(s) + (i - Len(s)) = i
        BY <1>1, <2>1
      <4> QED BY <1>1, <4>1
    <3> QED BY <3>1, <1>3
  <2>2. CASE i <= Len(s)
    <3>1. i \in DOMAIN s /\ t[i] = s[i]
      BY <1>1, <2>2
    <3>2. \A j \in DOMAIN ps : ~About(ps[j], k)
      <4> TAKE j \in DOMAIN ps
      <4>1. Len(s) + j \in DOMAIN t /\ Len(s) + j > i /\ t[Len(s) + j] = ps[j]
        BY <1>1, <2>2
      <4> QED BY <4>1, <1>3
    <3>3. \A j \in DOMAIN s : j > i => ~About(s[j], k)
      <4> TAKE j \in DOMAIN s
      <4>1. j \in DOMAIN t /\ t[j] = s[j]
        BY <1>1
      <4> QED BY <4>1, <1>3
    <3> QED BY <3>1, <3>2, <3>3, <1>3 DEF Leads
  <2> QED BY <2>1, <2>2, <1>1
<1> QED BY <1>2, <1>3 DEF Leads, t

\* Without its first packet, a sequence leads to the same if the packet was not
\* the last about k, or if the device has heard it.
LEMMA LeadsTail ==
  ASSUME NEW s \in Seq(Packet), s # << >>, NEW H, NEW G, NEW k, NEW D,
         Leads(s, H, k, D),
         (\A i \in 2 .. Len(s) : ~About(s[i], k)) =>
           IF About(s[1], k) THEN k \in G <=> s[1].type = "keydown"
                             ELSE k \in G <=> k \in H
  PROVE Leads(Tail(s), G, k, D)
<1> DEFINE t == Tail(s)
<1>1. /\ t \in Seq(Packet) /\ Len(t) = Len(s) - 1
      /\ \A i \in 1 .. Len(t) : t[i] = s[i + 1]
      /\ DOMAIN s = 1 .. Len(s) /\ DOMAIN t = 1 .. Len(t)
      /\ Len(s) \in Nat /\ Len(t) \in Nat /\ 1 \in DOMAIN s
  OBVIOUS
<1> HIDE DEF t
<1>2. ASSUME \A i \in DOMAIN t : ~About(t[i], k) PROVE k \in G <=> k \in D
  <2>1. \A i \in 2 .. Len(s) : ~About(s[i], k)
    <3> TAKE i \in 2 .. Len(s)
    <3>1. i - 1 \in DOMAIN t /\ t[i - 1] = s[(i - 1) + 1] /\ (i - 1) + 1 = i
      BY <1>1
    <3> QED BY <1>2, <3>1
  <2>2. CASE About(s[1], k)
    <3>1. \A j \in DOMAIN s : j > 1 => ~About(s[j], k)
      BY <1>1, <2>1
    <3>2. s[1].type = "keydown" <=> k \in D
      BY <1>1, <2>2, <3>1 DEF Leads
    <3> QED BY <2>1, <2>2, <3>2
  <2>3. CASE ~About(s[1], k)
    <3>1. \A i \in DOMAIN s : ~About(s[i], k)
      BY <1>1, <2>1, <2>3
    <3> QED BY <2>1, <2>3, <3>1 DEF Leads
  <2> QED BY <2>2, <2>3
<1>3. ASSUME NEW i \in DOMAIN t, About(t[i], k),
             \A j \in DOMAIN t : j > i => ~About(t[j], k)
      PROVE t[i].type = "keydown" <=> k \in D
  <2>1. i + 1 \in DOMAIN s /\ t[i] = s[i + 1]
    BY <1>1
  <2>2. \A j \in DOMAIN s : j > i + 1 => ~About(s[j], k)
    <3> TAKE j \in DOMAIN s
    <3> HAVE j > i + 1
    <3>1. j - 1 \in DOMAIN t /\ j - 1 > i /\ t[j - 1] = s[(j - 1) + 1] /\ (j - 1) + 1 = j
      BY <1>1
    <3> QED BY <1>3, <3>1
  <2> QED BY <2>1, <2>2, <1>3 DEF Leads
<1> QED BY <1>2, <1>3 DEF Leads, t

\* The first packet twice leads to the same.
LEMMA LeadsTwice ==
  ASSUME NEW s \in Seq(Packet), s # << >>, NEW H, NEW k, NEW D,
         Leads(s, H, k, D)
  PROVE Leads(<<Head(s)>> \o s, H, k, D)
<1> DEFINE t == <<Head(s)>> \o s
<1>1. /\ t \in Seq(Packet) /\ Len(t) = Len(s) + 1
      /\ t[1] = s[1] /\ \A i \in 1 .. Len(s) : t[i + 1] = s[i]
      /\ DOMAIN s = 1 .. Len(s) /\ DOMAIN t = 1 .. Len(t)
      /\ Len(s) \in Nat /\ Len(t) \in Nat /\ 1 \in DOMAIN s
  OBVIOUS
<1> HIDE DEF t
<1>2. ASSUME \A i \in DOMAIN t : ~About(t[i], k) PROVE k \in H <=> k \in D
  <2>1. \A i \in DOMAIN s : ~About(s[i], k)
    <3> TAKE i \in DOMAIN s
    <3>1. i + 1 \in DOMAIN t
      BY <1>1
    <3> QED BY <1>1, <1>2, <3>1
  <2> QED BY <2>1 DEF Leads
<1>3. ASSUME NEW i \in DOMAIN t, About(t[i], k),
             \A j \in DOMAIN t : j > i => ~About(t[j], k)
      PROVE t[i].type = "keydown" <=> k \in D
  <2>1. i # 1
    <3>1. 2 \in DOMAIN t /\ t[2] = t[1]
      BY <1>1
    <3> QED BY <1>3, <3>1
  <2>2. i - 1 \in DOMAIN s /\ t[i] = s[i - 1]
    <3>1. i - 1 \in 1 .. Len(s) /\ (i - 1) + 1 = i
      BY <1>1, <2>1
    <3> QED BY <1>1, <3>1
  <2>3. \A j \in DOMAIN s : j > i - 1 => ~About(s[j], k)
    <3> TAKE j \in DOMAIN s
    <3> HAVE j > i - 1
    <3>1. j + 1 \in DOMAIN t /\ j + 1 > i /\ t[j + 1] = s[j]
      BY <1>1
    <3> QED BY <1>3, <3>1
  <2> QED BY <2>2, <2>3, <1>3 DEF Leads
<1> QED BY <1>2, <1>3 DEF Leads, t

\* The first two packets in the other order lead to the same, unless both are
\* about k.
LEMMA LeadsSwapped ==
  ASSUME NEW s \in Seq(Packet), Len(s) >= 2, NEW H, NEW k, NEW D,
         Leads(s, H, k, D), ~(About(s[1], k) /\ About(s[2], k))
  PROVE Leads(<<s[2], s[1]>> \o SubSeq(s, 3, Len(s)), H, k, D)
<1> DEFINE t == <<s[2], s[1]>> \o SubSeq(s, 3, Len(s))
<1>1. /\ t \in Seq(Packet) /\ Len(t) = Len(s)
      /\ t[1] = s[2] /\ t[2] = s[1] /\ \A i \in 3 .. Len(s) : t[i] = s[i]
      /\ DOMAIN s = 1 .. Len(s) /\ DOMAIN t = 1 .. Len(s)
      /\ Len(s) \in Nat /\ 1 \in DOMAIN s /\ 2 \in DOMAIN s
  OBVIOUS
<1> HIDE DEF t
<1>2. ASSUME \A i \in DOMAIN t : ~About(t[i], k) PROVE k \in H <=> k \in D
  <2>1. \A i \in DOMAIN s : ~About(s[i], k)
    <3> TAKE i \in DOMAIN s
    <3>1. CASE i \in {1, 2}
      BY <1>1, <1>2, <3>1
    <3>2. CASE i \in 3 .. Len(s)
      BY <1>1, <1>2, <3>2
    <3> QED BY <1>1, <3>1, <3>2
  <2> QED BY <2>1 DEF Leads
<1>3. ASSUME NEW i \in DOMAIN t, About(t[i], k),
             \A j \in DOMAIN t : j > i => ~About(t[j], k)
      PROVE t[i].type = "keydown" <=> k \in D
  <2>1. \A j \in 3 .. Len(s) : j > i => ~About(s[j], k)
    BY <1>1, <1>3
  <2>2. CASE i \in 3 .. Len(s)
    <3>1. i \in DOMAIN s /\ t[i] = s[i]
      BY <1>1, <2>2
    <3>2. \A j \in DOMAIN s : j > i => ~About(s[j], k)
      BY <1>1, <2>1, <2>2
    <3> QED BY <3>1, <3>2, <1>3 DEF Leads
  <2>3. CASE i = 1
    <3>1. About(s[2], k) /\ t[1] = s[2]
      BY <1>1, <1>3, <2>3
    <3>2. \A j \in DOMAIN s : j > 2 => ~About(s[j], k)
      BY <1>1, <2>1, <2>3
    <3> QED BY <1>1, <3>1, <3>2, <2>3 DEF Leads
  <2>4. CASE i = 2
    <3>1. About(s[1], k) /\ t[2] = s[1] /\ ~About(s[2], k)
      BY <1>1, <1>3, <2>4
    <3>2. \A j \in DOMAIN s : j > 1 => ~About(s[j], k)
      BY <1>1, <2>1, <2>4, <3>1
    <3> QED BY <1>1, <3>1, <3>2, <2>4 DEF Leads
  <2> QED BY <1>1, <2>2, <2>3, <2>4
<1> QED BY <1>2, <1>3 DEF Leads, t

\* handleModifierFlags reports every modifier that has changed, none other, and
\* each as the flags have it.
LEMMA ModifierPacketsSay ==
  ASSUME InputAssumption, NEW flags
  PROVE /\ ModifierPackets(flags) \in Seq(Packet)
        /\ \A i \in DOMAIN ModifierPackets(flags) :
             \E m \in Mods \cap Changed(flags) :
               ModifierPackets(flags)[i] = KeyPacket(m, m \in flags)
        /\ \A m \in Mods \cap Changed(flags) :
             \E i \in DOMAIN ModifierPackets(flags) :
               ModifierPackets(flags)[i] = KeyPacket(m, m \in flags)
<1> DEFINE n == Len(Modifiers)
           P(m) == IF m \in Changed(flags) THEN <<KeyPacket(m, m \in flags)>> ELSE << >>
           B(f) == [i \in 0 .. n |->
                      IF i = 0 THEN << >>
                      ELSE LET m == Modifiers[i]
                           IN f[i - 1] \o IF m \in Changed(flags)
                                            THEN <<KeyPacket(m, m \in flags)>> ELSE << >>]
           h == CHOOSE f : f = B(f)
<1>1. n \in Nat /\ \A i \in 1 .. n : Modifiers[i] \in Mods
  BY DEF InputAssumption, Mods
<1>2. \A m \in Mods : KeyPacket(m, m \in flags) \in Packet
  BY DEF KeyPacket, Packet, Codes
<1>3. \A i \in 1 .. n : P(Modifiers[i]) \in Seq(Packet)
  BY <1>1, <1>2
<1>4. ModifierPackets(flags) = h[n]
  BY DEF ModifierPackets
<1> DEFINE Q == [i \in 1 .. n |-> P(Modifiers[i])]
<1>5. PICK f : Joins(f, Q, n, Seq(Packet))
  <2>1. \A i \in 1 .. n : Q[i] \in Seq(Packet)
    <3> HIDE DEF P, n
    <3> QED BY <1>3
  <2> HIDE DEF Q, P, n
  <2> QED BY <1>1, <2>1, JoinExists
<1>6. /\ f \in [0 .. n -> Seq(Packet)]
     /\ f[0] = << >> /\ \A i \in 1 .. n : f[i] = f[i - 1] \o P(Modifiers[i])
  <2> HIDE DEF P, n
  <2> QED BY <1>5 DEF Joins
<1>7. h = B(h)
  <2>1. f = B(f)
    <3>1. DOMAIN f = 0 .. n /\ DOMAIN B(f) = 0 .. n
      BY <1>6
    <3>2. ASSUME NEW i \in 0 .. n PROVE f[i] = B(f)[i]
      <4>1. CASE i = 0
        BY <1>6, <4>1
      <4>2. CASE i # 0
        <5>1. i \in 1 .. n
          BY <1>1, <4>2
        <5>2. f[i] = f[i - 1] \o P(Modifiers[i])
          BY <1>6, <5>1
        <5> QED BY <4>2, <5>2
      <4> QED BY <4>1, <4>2
    <3>3. B(f) = [i \in 0 .. n |-> B(f)[i]] /\ f = [i \in 0 .. n |-> f[i]]
      BY <1>6
    <3> QED BY <3>2, <3>3
  <2> HIDE DEF B
  <2> QED BY <2>1
<1>8. h[0] = << >> /\ \A i \in 1 .. n : h[i] = h[i - 1] \o P(Modifiers[i])
  <2> HIDE DEF h
  <2>1. ASSUME NEW i \in 1 .. n PROVE h[i] = h[i - 1] \o P(Modifiers[i])
    <3>1. i \in 0 .. n /\ i # 0
      BY <1>1
    <3>2. h[i] = B(h)[i]
      BY <1>7
    <3> QED BY <3>1, <3>2
  <2>2. h[0] = << >>
    <3>1. 0 \in 0 .. n
      BY <1>1
    <3>2. h[0] = B(h)[0]
      BY <1>7
    <3> QED BY <3>1, <3>2
  <2> QED BY <2>1, <2>2
<1> HIDE DEF h
<1> DEFINE Good(i) ==
      /\ h[i] \in Seq(Packet)
      /\ \A j \in DOMAIN h[i] :
           \E m \in Mods \cap Changed(flags) : h[i][j] = KeyPacket(m, m \in flags)
      /\ \A k \in 1 .. i :
           Modifiers[k] \in Changed(flags) =>
             \E j \in DOMAIN h[i] :
               h[i][j] = KeyPacket(Modifiers[k], Modifiers[k] \in flags)
<1> DEFINE T == {i \in Nat : i <= n => Good(i)}
<1>9. 0 \in T
  <2>1. h[0] = << >>
    BY <1>8
  <2>2. Good(0)
    BY <2>1
  <2> HIDE DEF Good
  <2> QED BY <2>2
<1>10. ASSUME NEW i \in T PROVE i + 1 \in T
  <2> SUFFICES ASSUME i + 1 <= n PROVE Good(i + 1)
    <3> HIDE DEF Good
    <3> QED OBVIOUS
  <2>1. i \in Nat /\ Good(i) /\ i + 1 \in 1 .. n /\ i <= n
    <3> HIDE DEF Good
    <3>1. i \in Nat /\ i <= n
      BY <1>1
    <3> QED BY <1>1, <3>1
  <2> DEFINE m == Modifiers[i + 1]  s == h[i]  t == h[i + 1]
  <2>2. m \in Mods
    BY <1>1, <2>1
  <2>3. t = s \o P(m)
    <3>1. (i + 1) - 1 = i
      BY <2>1
    <3> HIDE DEF P
    <3> QED BY <1>8, <2>1, <3>1
  <2>4. CASE m \notin Changed(flags)
    <3>1. t = s
      BY <2>1, <2>3, <2>4
    <3>2. \A k \in 1 .. i + 1 : Modifiers[k] \in Changed(flags) => k \in 1 .. i
      BY <2>1, <2>4
    <3> QED BY <2>1, <3>1, <3>2
  <2>5. CASE m \in Changed(flags)
    <3> DEFINE p == KeyPacket(m, m \in flags)
    <3>1. t = s \o <<p>> /\ p \in Packet /\ s \in Seq(Packet)
      BY <1>2, <2>1, <2>2, <2>3, <2>5
    <3> HIDE DEF p
    <3>2. /\ t \in Seq(Packet) /\ DOMAIN t = 1 .. Len(s) + 1 /\ Len(s) \in Nat
          /\ DOMAIN s = 1 .. Len(s)
          /\ \A j \in 1 .. Len(s) : t[j] = s[j]
          /\ t[Len(s) + 1] = p
      <4> HIDE DEF t, s
      <4> QED BY <3>1
    <3>3. ASSUME NEW j \in DOMAIN t
          PROVE \E l \in Mods \cap Changed(flags) : t[j] = KeyPacket(l, l \in flags)
      <4>1. CASE j = Len(s) + 1
        <5>1. t[j] = KeyPacket(m, m \in flags)
          BY <3>2, <4>1 DEF p
        <5> HIDE DEF t, m
        <5> QED BY <5>1, <2>2, <2>5
      <4>2. CASE j # Len(s) + 1
        <5>1. j \in DOMAIN s /\ t[j] = s[j]
          <6> HIDE DEF t, s
          <6>1. j \in 1 .. Len(s) + 1
            BY <3>2
          <6>2. j \in 1 .. Len(s)
            BY <3>2, <4>2, <6>1
          <6> QED BY <3>2, <6>2
        <5> QED BY <2>1, <5>1
      <4> QED BY <4>1, <4>2
    <3>4. ASSUME NEW k \in 1 .. i + 1, Modifiers[k] \in Changed(flags)
          PROVE \E j \in DOMAIN t : t[j] = KeyPacket(Modifiers[k], Modifiers[k] \in flags)
      <4>1. CASE k = i + 1
        <5>1. Len(s) + 1 \in DOMAIN t
          BY <3>2
        <5>2. t[Len(s) + 1] = KeyPacket(Modifiers[k], Modifiers[k] \in flags)
          BY <3>2, <4>1 DEF p
        <5> QED BY <5>1, <5>2
      <4>2. CASE k # i + 1
        <5>1. k \in 1 .. i
          BY <2>1, <4>2
        <5>2. PICK j \in DOMAIN s : s[j] = KeyPacket(Modifiers[k], Modifiers[k] \in flags)
          BY <2>1, <3>4, <5>1
        <5>3. j \in DOMAIN t /\ t[j] = s[j]
          BY <3>2
        <5> QED BY <5>2, <5>3
      <4> QED BY <4>1, <4>2
    <3> QED BY <3>2, <3>3, <3>4
  <2> QED BY <2>4, <2>5
<1>11. T = Nat
  <2>1. T \in SUBSET Nat
    OBVIOUS
  <2> HIDE DEF T
  <2> QED BY <1>9, <1>10, <2>1, SetInduction
<1>12. Good(n)
  <2> HIDE DEF Good
  <2> QED BY <1>1, <1>11
<1>13. ASSUME NEW m \in Mods \cap Changed(flags)
       PROVE \E j \in DOMAIN h[n] : h[n][j] = KeyPacket(m, m \in flags)
  <2>1. PICK k \in 1 .. n : Modifiers[k] = m
    BY DEF Mods, InputAssumption
  <2> QED BY <1>12, <2>1
<1> QED BY <1>4, <1>12, <1>13

\* At the start nothing is held, told or under way.
LEMMA InputInvInit == InputInit => InputInv
<1> SUFFICES ASSUME InputInit PROVE InputInv
  OBVIOUS
<1> QED BY DEF InputInit, InputInv, Leads, Noticed

\* A packet about a key, as Leads reads it.
LEMMA KeyPacketSays ==
  ASSUME NEW k \in Codes, NEW down \in BOOLEAN
  PROVE /\ KeyPacket(k, down) \in Packet
        /\ KeyPacket(k, down).type = "keydown" <=> down
        /\ \A j : About(KeyPacket(k, down), j) <=> j = k
  BY DEF KeyPacket, Packet, About, IsKey

\* A key event: its packet decides, or the key counts as unseen.
LEMMA KeyKeeps ==
  ASSUME InputAssumption, InputInv, NEW k \in Keys, Key(k)
  PROVE InputInv'
<1> DEFINE d == k \notin phys
           p == KeyPacket(k, d)
<1>1. /\ k \in Codes /\ k \notin Mods /\ d \in BOOLEAN
      /\ phys' = Toggle(phys, k) /\ lastFlags' = lastFlags /\ held' = held
      /\ lastFlags \subseteq Mods
  BY DEF Key, InputAssumption, InputInv, Codes, macVars, uinput
<1>2. phys' \subseteq Codes /\ \A j \in Codes \ {k} : j \in phys' <=> j \in phys
  BY <1>1 DEF Toggle, InputInv
<1>3. k \in Noticed' <=> d
  BY <1>1 DEF Toggle, Noticed
<1>4. \A m \in Mods \ unseen' : m \in lastFlags' <=> m \in phys'
  <2> TAKE m \in Mods \ unseen'
  <2>1. m # k /\ m \in Codes /\ m \notin unseen
    BY <1>1 DEF Key, Codes
  <2> QED BY <1>1, <1>2, <2>1 DEF InputInv
<1>5. \A j \in Codes \ {k} : j \in Noticed' <=> j \in Noticed
  BY <1>1, <1>2 DEF Noticed
<1>6. p \in Packet /\ (p.type = "keydown" <=> d) /\ \A j : About(p, j) <=> j = k
  BY <1>1, KeyPacketSays
<1> HIDE DEF p, d
<1>7. CASE focus
  <2>1. net' = net \o <<p>> /\ unseen' = unseen \ {k} /\ lost' = lost \ {k}
    BY <1>7 DEF Key, Send, p, d
  <2>2. /\ <<p>> \in Seq(Packet) /\ net \in Seq(Packet) /\ net' \in Seq(Packet)
        /\ DOMAIN <<p>> = {1} /\ <<p>>[1] = p
    BY <1>6, <2>1 DEF InputInv
  <2>3. ASSUME NEW j \in Codes \ lost', j \in Mods \/ j \notin unseen'
        PROVE Leads(net', held', j, Noticed')
    <3>1. CASE j = k
      <4>1. Leads(net \o <<p>>, held, j, Noticed')
        BY <1>3, <1>6, <2>2, <3>1, LeadsSend
      <4> QED BY <1>1, <2>1, <4>1
    <3>2. CASE j # k
      <4>1. j \in Codes \ lost /\ (j \in Mods \/ j \notin unseen)
        BY <2>1, <2>3, <3>2
      <4>2. Leads(net, held, j, Noticed)
        BY <4>1 DEF InputInv
      <4>3. Leads(net \o <<p>>, held, j, Noticed)
        BY <1>6, <2>2, <3>2, <4>2, LeadsSend
      <4> QED BY <1>1, <1>5, <2>1, <3>2, <4>3, LeadsSame
    <3> QED BY <3>1, <3>2
  <2> QED BY <1>1, <1>2, <1>4, <2>2, <2>3 DEF InputInv
<1>8. CASE ~focus
  <2>1. net' = net /\ unseen' = unseen \cup {k} /\ lost' = lost
    BY <1>8 DEF Key
  <2>2. ASSUME NEW j \in Codes \ lost', j \in Mods \/ j \notin unseen'
        PROVE Leads(net', held', j, Noticed')
    <3>1. j # k /\ j \in Codes \ lost /\ (j \in Mods \/ j \notin unseen)
      BY <1>1, <2>1, <2>2
    <3>2. Leads(net, held, j, Noticed)
      BY <3>1 DEF InputInv
    <3> QED BY <1>1, <1>5, <2>1, <3>1, <3>2, LeadsSame
  <2> QED BY <1>1, <1>2, <1>4, <2>1, <2>2 DEF InputInv
<1> QED BY <1>7, <1>8

\* flagsChanged: the modifiers that have changed are reported anew, and of the
\* others the last report was right.
LEMMA ModifierKeeps ==
  ASSUME InputAssumption, InputInv, NEW m \in Mods, Modifier(m)
  PROVE InputInv'
<1> DEFINE F == Flags(m)
           ps == ModifierPackets(F)
<1>1. /\ phys' = Toggle(phys, m) /\ held' = held /\ m \in Codes /\ m \notin Keys
      /\ phys' \subseteq Codes /\ F = phys' \cap Mods
  BY DEF Modifier, Codes, Toggle, InputInv, uinput, Flags, InputAssumption
<1>2. \A j \in Codes \ {m} : j \in phys' <=> j \in phys
  BY <1>1 DEF Toggle
<1>3. /\ ps \in Seq(Packet)
      /\ \A i \in DOMAIN ps : \E j \in Mods \cap Changed(F) : ps[i] = KeyPacket(j, j \in F)
      /\ \A j \in Mods \cap Changed(F) : \E i \in DOMAIN ps : ps[i] = KeyPacket(j, j \in F)
  BY ModifierPacketsSay
<1>4. ASSUME NEW j \in Mods
      PROVE /\ KeyPacket(j, j \in F).type = "keydown" <=> j \in F
            /\ \A k : About(KeyPacket(j, j \in F), k) <=> k = j
  BY DEF KeyPacket, About, IsKey
<1> HIDE DEF ps, F
<1>5. CASE focus
  <2>1. /\ net' = net \o ps /\ lastFlags' = F /\ unseen' = unseen \ Mods
        /\ lost' = lost \ Changed(F)
    BY <1>5 DEF Modifier, Send, ps, F
  <2>2. net' \in Seq(Packet) /\ lastFlags' \subseteq Mods /\ net \in Seq(Packet)
    BY <1>1, <1>3, <2>1 DEF InputInv
  <2>3. \A j \in Mods \ unseen' : j \in lastFlags' <=> j \in phys'
    BY <1>1, <2>1
  <2>4. ASSUME NEW j \in Codes \ lost', j \in Mods \/ j \notin unseen'
        PROVE Leads(net', held', j, Noticed')
    <3>1. CASE j \in Mods \cap Changed(F)
      <4>1. j \in Noticed' <=> j \in F
        BY <2>1, <3>1 DEF Noticed, InputAssumption
      <4>2. \A i \in DOMAIN ps : About(ps[i], j) => (ps[i].type = "keydown" <=> j \in F)
        BY <1>3, <1>4
      <4>3. ~ \A i \in DOMAIN ps : ~About(ps[i], j)
        BY <1>3, <1>4, <3>1
      <4>4. Leads(net \o ps, held, j, F)
        BY <1>3, <2>2, <4>2, <4>3, LeadsSend
      <4> QED BY <1>1, <2>1, <4>1, <4>4, LeadsSame
    <3>2. CASE j \notin Mods \cap Changed(F)
      <4>1. j \in Codes \ lost /\ (j \in Mods \/ j \notin unseen)
        BY <1>1, <2>1, <2>4, <3>2 DEF Changed, InputInv
      <4>2. Leads(net, held, j, Noticed)
        BY <4>1 DEF InputInv
      <4>3. \A i \in DOMAIN ps : ~About(ps[i], j)
        BY <1>3, <1>4, <3>2
      <4>4. Leads(net \o ps, held, j, Noticed)
        BY <1>3, <2>2, <4>2, <4>3, LeadsSend
      <4>5. j \in Noticed' <=> j \in Noticed
        <5>1. CASE j \in Mods
          BY <2>1, <3>2, <5>1 DEF Noticed, Changed, InputAssumption
        <5>2. CASE j \notin Mods
          <6>1. j # m /\ j \notin F /\ j \notin lastFlags
            BY <1>1, <5>2 DEF InputInv
          <6> QED BY <1>2, <2>1, <6>1 DEF Noticed
        <5> QED BY <5>1, <5>2
      <4> QED BY <1>1, <2>1, <4>4, <4>5, LeadsSame
    <3> QED BY <3>1, <3>2
  <2> QED BY <1>1, <2>2, <2>3, <2>4 DEF InputInv
<1>6. CASE ~focus
  <2>1. /\ net' = net /\ lastFlags' = lastFlags /\ unseen' = unseen \cup {m}
        /\ lost' = lost
    BY <1>6 DEF Modifier
  <2>2. \A j \in Mods \ unseen' : j \in lastFlags' <=> j \in phys'
    BY <1>2, <2>1 DEF InputInv, Codes
  <2>3. ASSUME NEW j \in Codes \ lost', j \in Mods \/ j \notin unseen'
        PROVE Leads(net', held', j, Noticed')
    <3>1. j \in Codes \ lost /\ (j \in Mods \/ j \notin unseen)
      BY <2>1, <2>3
    <3>2. Leads(net, held, j, Noticed)
      BY <3>1 DEF InputInv
    <3>3. j \in Noticed' <=> j \in Noticed
      BY <1>1, <1>2, <2>1 DEF Noticed
    <3> QED BY <1>1, <2>1, <3>2, <3>3, LeadsSame
  <2> QED BY <1>1, <2>1, <2>2, <2>3 DEF InputInv
<1> QED BY <1>5, <1>6

\* A button's packet is about no key.
LEMMA ButtonKeeps ==
  ASSUME InputAssumption, InputInv,
         NEW b \in Buttons, NEW x \in Xs, NEW y \in Ys, Button(b, x, y)
  PROVE InputInv'
<1> DEFINE p == ButtonPacket(x, y, IF b \in physButtons THEN -b ELSE b)
<1>1. p \in Packet /\ \A k : ~About(p, k)
  BY DEF ButtonPacket, Packet, About, IsKey, Buttons, Left, Right, InputAssumption
<1> HIDE DEF p
<1>2. /\ net' = net \o <<p>> /\ held' = held /\ unseen' = unseen /\ lost' = lost
      /\ phys' = phys /\ lastFlags' = lastFlags /\ Noticed' = Noticed
  BY DEF Button, Send, uinput, ghosts, Noticed, p
<1>3. /\ <<p>> \in Seq(Packet) /\ net \in Seq(Packet) /\ net' \in Seq(Packet)
      /\ DOMAIN <<p>> = {1} /\ <<p>>[1] = p
  BY <1>1, <1>2 DEF InputInv
<1>4. ASSUME NEW k, Leads(net, held, k, Noticed)
      PROVE Leads(net \o <<p>>, held, k, Noticed)
  BY <1>1, <1>3, <1>4, LeadsSend
<1> QED BY <1>2, <1>3, <1>4 DEF InputInv

\* A packet lost was not the last about its key, or the key counts as lost.
LEMMA LoseKeeps ==
  ASSUME InputInv, Lose
  PROVE InputInv'
<1>1. /\ net # << >> /\ net' = Tail(net) /\ held' = held /\ unseen' = unseen
      /\ phys' = phys /\ lastFlags' = lastFlags /\ Noticed' = Noticed
      /\ net \in Seq(Packet) /\ net' \in Seq(Packet) /\ Head(net) = net[1]
  BY DEF Lose, macVars, uinput, Noticed, InputInv
<1>2. ASSUME NEW k \in Codes \ lost', k \in Mods \/ k \notin unseen
      PROVE Leads(Tail(net), held, k, Noticed)
  <2>1. k \notin lost
    BY <1>2 DEF Lose
  <2>2. Leads(net, held, k, Noticed)
    BY <1>2, <2>1 DEF InputInv
  <2>3. About(net[1], k) => Behind(k)
    BY <1>1, <1>2 DEF Lose, About
  <2>4. Behind(k) => \E i \in 2 .. Len(net) : About(net[i], k)
    BY DEF Behind, About
  <2>5. (\A i \in 2 .. Len(net) : ~About(net[i], k)) =>
          IF About(net[1], k) THEN k \in held <=> net[1].type = "keydown"
                              ELSE k \in held <=> k \in held
    BY <2>3, <2>4
  <2> QED BY <1>1, <2>2, <2>5, LeadsTail
<1> QED BY <1>1, <1>2 DEF InputInv

\* A duplicate says what the packet after it says.
LEMMA DuplicateKeeps ==
  ASSUME InputInv, Duplicate
  PROVE InputInv'
<1>1. /\ net # << >> /\ net' = <<Head(net)>> \o net /\ held' = held /\ unseen' = unseen
      /\ phys' = phys /\ lastFlags' = lastFlags /\ Noticed' = Noticed /\ lost' = lost
      /\ net \in Seq(Packet) /\ net' \in Seq(Packet)
  BY DEF Duplicate, macVars, uinput, ghosts, Noticed, InputInv
<1>2. ASSUME NEW k, Leads(net, held, k, Noticed)
      PROVE Leads(net', held', k, Noticed')
  BY <1>1, <1>2, LeadsTwice
<1> QED BY <1>1, <1>2 DEF InputInv

\* A packet that overtakes another does no harm unless both are about one key.
LEMMA OvertakeKeeps ==
  ASSUME InputInv, Overtake
  PROVE InputInv'
<1>1. /\ Len(net) >= 2 /\ net' = <<net[2], net[1]>> \o SubSeq(net, 3, Len(net))
      /\ held' = held /\ unseen' = unseen
      /\ phys' = phys /\ lastFlags' = lastFlags /\ Noticed' = Noticed
      /\ net \in Seq(Packet)
  BY DEF Overtake, macVars, uinput, Noticed, InputInv
<1>2. net' \in Seq(Packet)
  <2>1. net[1] \in Packet /\ net[2] \in Packet /\ SubSeq(net, 3, Len(net)) \in Seq(Packet)
    BY <1>1
  <2> QED BY <1>1, <2>1
<1>3. ASSUME NEW k \in Codes \ lost', k \in Mods \/ k \notin unseen
      PROVE Leads(net', held', k, Noticed')
  <2>1. k \notin lost
    BY <1>3 DEF Overtake
  <2>2. Leads(net, held, k, Noticed)
    BY <1>3, <2>1 DEF InputInv
  <2>3. ~(About(net[1], k) /\ About(net[2], k))
    BY <1>3 DEF Overtake, About
  <2> QED BY <1>1, <2>2, <2>3, LeadsSwapped
<1> QED BY <1>1, <1>2, <1>3 DEF InputInv

\* handle_input_event does what a key's packet says, and nothing to other keys.
LEMMA ReceiveKeeps ==
  ASSUME InputInv, Receive
  PROVE InputInv'
<1> DEFINE p == net[1]
<1>1. /\ net # << >> /\ net' = Tail(net) /\ HandleEvent(p)
      /\ phys' = phys /\ lastFlags' = lastFlags /\ Noticed' = Noticed
      /\ unseen' = unseen /\ lost' = lost
      /\ net \in Seq(Packet) /\ net' \in Seq(Packet) /\ p \in Packet
  BY DEF Receive, macVars, ghosts, Noticed, InputInv
<1>2. ASSUME NEW k
      PROVE IF About(p, k) THEN k \in held' <=> p.type = "keydown"
                           ELSE k \in held' <=> k \in held
  <2>1. /\ p.type = "keydown" => held' = held \cup {p.key}
        /\ p.type = "keyup" => held' = held \ {p.key}
        /\ p.type \notin {"keydown", "keyup"} => held' = held
    <3> HIDE DEF p
    <3> QED BY <1>1 DEF HandleEvent, KeyEvent
  <2> HIDE DEF p
  <2> QED BY <2>1 DEF About, IsKey
<1>3. ASSUME NEW k, Leads(net, held, k, Noticed)
      PROVE Leads(net', held', k, Noticed')
  BY <1>1, <1>2, <1>3, LeadsTail
<1> QED BY <1>1, <1>3 DEF InputInv

\* Every step keeps the invariant.
LEMMA InputInvStep ==
  InputAssumption /\ InputInv /\ [InputNext]_inputVars => InputInv'
<1> SUFFICES ASSUME InputAssumption, InputInv, [InputNext]_inputVars PROVE InputInv'
  OBVIOUS
<1>1. CASE User
  <2>1. CASE ChangeFocus
    BY <2>1 DEF ChangeFocus, macVars, uinput, ghosts, InputInv, Leads, Noticed
  <2> QED BY <1>1, <2>1, KeyKeeps, ModifierKeeps, ButtonKeeps DEF User
<1>2. CASE UNCHANGED inputVars
  BY <1>2 DEF inputVars, macVars, uinput, ghosts, InputInv, Leads, Noticed
<1> QED BY <1>1, <1>2, LoseKeeps, DuplicateKeeps, OvertakeKeeps, ReceiveKeeps DEF InputNext

\* When the packets about a key have arrived it is down on Ubuntu exactly when it
\* is down on the Mac, or its own last change was unseen or its own last packet
\* lost: for every keyboard, every table of modifiers, every number of faults.
THEOREM KeysAreFollowed == InputSpec => []KeysFollow
<1>1. InputInv => KeysFollow
  <2> SUFFICES ASSUME InputInv, NEW k \in Codes, Settled(k), k \notin unseen \cup lost
               PROVE k \in held <=> k \in phys
    BY DEF KeysFollow
  <2>1. Leads(net, held, k, Noticed)
    BY DEF InputInv
  <2>2. k \in Noticed <=> k \in phys
    BY DEF InputInv, Noticed, Codes
  <2> QED BY <2>1, <2>2 DEF Leads, Settled, About
<1> QED
  BY <1>1, InputInvInit, InputInvStep, InputAssumption, PTL DEF InputSpec
=============================================================================

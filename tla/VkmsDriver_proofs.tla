-------------------------- MODULE VkmsDriver_proofs --------------------------
(***************************************************************************)
(* The configuration and the device made of it, for every number of        *)
(* configurations, planes, CRTCs, encoders and connectors.                 *)
(***************************************************************************)
EXTENDS VkmsDriver, FiniteSetTheorems, TLAPS

-----------------------------------------------------------------------------
(* The configuration.                                                      *)

ConfigInv == TypeOK /\ NoDangling

\* A step that leaves the configurations alone keeps their invariant.
LEMMA ConfigStutter == ConfigInv /\ UNCHANGED cvars => ConfigInv'
  BY DEF ConfigInv, TypeOK, NoDangling, cvars

\* A link joins two objects of the two kinds it is for.
LEMMA LinkEnds ==
  ASSUME ConfigInv, NEW l \in links
  PROVE  /\ l[1] \in Plane \cup Encoder \cup Connector
         /\ l[2] \in Crtc \cup Encoder
         /\ l[1] \in Objects /\ l[2] \in Objects
         /\ l = <<l[1], l[2]>>
  BY DEF ConfigInv, TypeOK, CanLink, Objects

\* A new configuration owns nothing yet.
LEMMA CreateKeeps ==
  ASSUME ConfigInv, NEW k \in Config, Create(k)
  PROVE  ConfigInv'
  BY DEF ConfigInv, TypeOK, NoDangling, Create

\* A new object is in no list: links join objects that have an owner.
LEMMA NewKeeps ==
  ASSUME ConfigInv, NEW k, NEW x \in Objects, New(k, x),
         UNCHANGED configs, type' \in [Plane -> Types], writeback' \subseteq Crtc,
         links' \subseteq CanLink,
         \A l \in links' : l \in links \/ (l[1] = x /\ owner[l[2]] = k)
                                       \/ (l[2] = x /\ owner[l[1]] = k)
  PROVE  ConfigInv'
<1>1. k \in configs /\ k \in Config /\ k # Nobody
  BY ConfigAssumption DEF ConfigInv, TypeOK, New
<1>2. owner' \in [Objects -> configs' \cup {Nobody}]
  BY <1>1 DEF ConfigInv, TypeOK, New
<1>3. owner'[x] = k /\ \A y \in Objects \ {x} : owner'[y] = owner[y]
  BY DEF ConfigInv, TypeOK, New
<1>4. ASSUME NEW l \in links' PROVE owner'[l[1]] = owner'[l[2]] /\ owner'[l[1]] # Nobody
  <2>1. l[1] \in Objects /\ l[2] \in Objects
    BY DEF CanLink, Objects
  <2>2. owner[x] = Nobody
    BY DEF New
  <2>3. CASE l \in links
    BY <1>3, <2>1, <2>2, <2>3 DEF ConfigInv, NoDangling
  <2>4. CASE l[1] = x /\ owner[l[2]] = k
    BY <1>1, <1>3, <2>1, <2>4
  <2>5. CASE l[2] = x /\ owner[l[1]] = k
    BY <1>1, <1>3, <2>1, <2>5
  <2> QED BY <2>3, <2>4, <2>5
<1> QED BY <1>2, <1>4 DEF ConfigInv, TypeOK, NoDangling

\* Objects are freed safely when every link with an end among them is dropped.
LEMMA FreeKeeps ==
  ASSUME ConfigInv, NEW dead \in SUBSET Objects, NEW dropped, Free(dead, dropped),
         configs' \subseteq configs,
         \A x \in Objects \ dead : owner[x] \in configs' \cup {Nobody},
         \A l \in links : l[1] \in dead \/ l[2] \in dead => l \in dropped
  PROVE  ConfigInv'
<1>1. owner' \in [Objects -> configs' \cup {Nobody}]
  BY DEF Free
<1>2. writeback' \subseteq Crtc /\ links' \subseteq CanLink
  BY DEF ConfigInv, TypeOK, Free
<1>5. type' \in [Plane -> Types]
  BY DEF ConfigInv, TypeOK, Free, Types
<1>3. ASSUME NEW l \in links' PROVE owner'[l[1]] = owner'[l[2]] /\ owner'[l[1]] # Nobody
  <2>1. l \in links /\ l[1] \notin dead /\ l[2] \notin dead
    BY DEF Free
  <2>2. l[1] \in Objects /\ l[2] \in Objects
    BY <2>1, LinkEnds
  <2>3. owner'[l[1]] = owner[l[1]] /\ owner'[l[2]] = owner[l[2]]
    BY <2>1, <2>2 DEF Free
  <2> QED BY <2>1, <2>3 DEF ConfigInv, NoDangling
<1>4. configs' \subseteq Config
  BY DEF ConfigInv, TypeOK
<1> QED BY <1>1, <1>2, <1>3, <1>4, <1>5 DEF ConfigInv, TypeOK, NoDangling

\* The two ends of a link belong to the same configuration, so dropping the links in
\* the configuration of an object drops all of its links.
LEMMA DropAll ==
  ASSUME ConfigInv, NEW l \in links
  PROVE  /\ l \in From(l[1])
         /\ l[2] \in Crtc => l \in To(owner[l[2]], Plane, l[2]) \cup To(owner[l[2]], Encoder, l[2])
         /\ l[2] \in Encoder => l \in To(owner[l[2]], Connector, l[2])
         /\ \A Kind : l[1] \in Kind => l \in To(owner[l[2]], Kind, l[2])
<1>1. owner[l[1]] = owner[l[2]]
  BY DEF ConfigInv, NoDangling
<1>2. \A Kind : l[1] \in Kind => l \in To(owner[l[2]], Kind, l[2])
  BY <1>1 DEF To, Of
<1>3. \/ l[1] \in Plane \cup Encoder /\ l[2] \in Crtc
      \/ l[1] \in Connector /\ l[2] \in Encoder
  BY DEF ConfigInv, TypeOK, CanLink
<1>4. l[2] \in Crtc => l[1] \in Plane \cup Encoder
  BY <1>3, ConfigAssumption
<1>5. l[2] \in Encoder => l[1] \in Connector
  BY <1>3, ConfigAssumption
<1>6. l \in From(l[1])
  BY DEF From
<1> QED BY <1>2, <1>4, <1>5, <1>6

\* Each destroy function drops every link to what it frees.
LEMMA DestroyOneKeeps ==
  ASSUME ConfigInv, NEW x \in Objects,
         \/ x \in Plane /\ DestroyPlane(x)
         \/ x \in Crtc /\ DestroyCrtc(x)
         \/ x \in Encoder /\ DestroyEncoder(x)
         \/ x \in Connector /\ DestroyConnector(x)
  PROVE  ConfigInv'
<1>1. \A y \in Objects \ {x} : owner[y] \in configs \cup {Nobody}
  BY DEF ConfigInv, TypeOK
<1>2. CASE x \in Plane /\ DestroyPlane(x)
  <2>1. \A l \in links : l[1] = x \/ l[2] = x => l \in From(x)
    BY <1>2, LinkEnds, DropAll, ConfigAssumption
  <2> QED BY <1>1, <1>2, <2>1, FreeKeeps DEF DestroyPlane
<1>3. CASE x \in Crtc /\ DestroyCrtc(x)
  <2>1. \A l \in links : l[1] = x \/ l[2] = x =>
                            l \in To(owner[x], Plane, x) \cup To(owner[x], Encoder, x)
    BY <1>3, LinkEnds, DropAll, ConfigAssumption
  <2> QED BY <1>1, <1>3, <2>1, FreeKeeps DEF DestroyCrtc
<1>4. CASE x \in Encoder /\ DestroyEncoder(x)
  <2>1. \A l \in links : l[1] = x \/ l[2] = x => l \in To(owner[x], Connector, x) \cup From(x)
    BY <1>4, DropAll
  <2> QED BY <1>1, <1>4, <2>1, FreeKeeps DEF DestroyEncoder
<1>5. CASE x \in Connector /\ DestroyConnector(x)
  <2>1. \A l \in links : l[1] = x \/ l[2] = x => l \in From(x)
    BY <1>5, LinkEnds, DropAll, ConfigAssumption
  <2> QED BY <1>1, <1>5, <2>1, FreeKeeps DEF DestroyConnector
<1> QED BY <1>2, <1>3, <1>4, <1>5

\* So does the destruction of a whole configuration.
LEMMA DestroyKeeps ==
  ASSUME ConfigInv, NEW k \in Config, Destroy(k)
  PROVE  ConfigInv'
<1> DEFINE dead == Of(k, Objects)
           dropped == UNION {From(x) : x \in Of(k, Plane \cup Encoder \cup Connector)}
                      \cup UNION {To(k, Plane \cup Encoder, c) : c \in Of(k, Crtc)}
                      \cup UNION {To(k, Connector, e) : e \in Of(k, Encoder)}
<1>1. Free(dead, dropped)
  BY DEF Destroy
<1>2. configs' = configs \ {k}
  BY DEF Destroy
<1>3. dead \in SUBSET Objects
  BY DEF Of
<1>4. \A x \in Objects \ dead : owner[x] \in configs' \cup {Nobody}
  BY <1>2 DEF Of, ConfigInv, TypeOK
<1>5. ASSUME NEW l \in links, l[1] \in dead \/ l[2] \in dead PROVE l \in dropped
  <2>1. owner[l[1]] = k
    BY <1>5 DEF Of, ConfigInv, NoDangling
  <2>2. l[1] \in Of(k, Plane \cup Encoder \cup Connector)
    BY <2>1, LinkEnds DEF Of
  <2>3. l \in From(l[1])
    BY DropAll
  <2> QED BY <2>2, <2>3
<1> HIDE DEF dead, dropped
<1> QED BY <1>1, <1>2, <1>3, <1>4, <1>5, FreeKeeps

\* Linking two objects of one configuration, and unlinking them.
LEMMA LinkKeeps ==
  ASSUME ConfigInv, NEW x, NEW y, <<x, y>> \in CanLink, Attach(x, y) \/ Detach(x, y)
  PROVE  ConfigInv'
  BY DEF ConfigInv, TypeOK, NoDangling, Attach, Detach

\* Every operation on a configuration keeps its links among live objects.
LEMMA ConfigOpKeeps == ConfigInv /\ ConfigOp => ConfigInv'
<1> SUFFICES ASSUME ConfigInv, ConfigOp PROVE ConfigInv'
  OBVIOUS
<1>1. ASSUME NEW k \in Config, Create(k) \/ Destroy(k) PROVE ConfigInv'
  BY <1>1, CreateKeeps, DestroyKeeps
<1>2. ASSUME NEW k \in Config, NEW x \in Objects,
             \/ x \in Plane /\ CreatePlane(k, x)
             \/ x \in Crtc /\ CreateCrtc(k, x)
             \/ x \in Encoder /\ CreateEncoder(k, x)
             \/ x \in Connector /\ CreateConnector(k, x)
      PROVE ConfigInv'
  <2>1. New(k, x) /\ UNCHANGED <<configs, links>>
    BY <1>2 DEF CreatePlane, CreateCrtc, CreateEncoder, CreateConnector
  <2>2. type' \in [Plane -> Types] /\ writeback' \subseteq Crtc
    BY <1>2 DEF CreatePlane, CreateCrtc, CreateEncoder, CreateConnector, ConfigInv, TypeOK, Types
  <2>3. links' \subseteq CanLink /\ \A l \in links' : l \in links
    BY <2>1 DEF ConfigInv, TypeOK
  <2> HIDE DEF ConfigInv
  <2> QED BY <2>1, <2>2, <2>3, NewKeeps
<1>3. ASSUME NEW p \in Plane, NEW t \in Types, SetType(p, t) PROVE ConfigInv'
  BY <1>3 DEF SetType, ConfigInv, TypeOK, NoDangling
<1>4. ASSUME NEW c \in Crtc, NEW on \in BOOLEAN, SetWriteback(c, on) PROVE ConfigInv'
  BY <1>4 DEF SetWriteback, ConfigInv, TypeOK, NoDangling
<1>5. ASSUME NEW x \in Plane \cup Encoder, NEW c \in Crtc, Attach(x, c) \/ Detach(x, c)
      PROVE  ConfigInv'
  <2>1. <<x, c>> \in CanLink
    BY <1>5 DEF CanLink
  <2> QED BY <1>5, <2>1, LinkKeeps
<1>6. ASSUME NEW n \in Connector, NEW e \in Encoder, Attach(n, e) \/ Detach(n, e)
      PROVE  ConfigInv'
  <2>1. <<n, e>> \in CanLink
    BY DEF CanLink
  <2> QED BY <1>6, <2>1, LinkKeeps
<1>7. ASSUME NEW p \in Plane,
             \/ \E k \in Config : CreatePlane(k, p)
             \/ \E t \in Types : SetType(p, t)
             \/ \E c \in Crtc : PlaneAttachCrtc(p, c) \/ PlaneDetachCrtc(p, c)
             \/ DestroyPlane(p)
      PROVE  ConfigInv'
  BY <1>2, <1>3, <1>5, <1>7, DestroyOneKeeps DEF Objects, PlaneAttachCrtc, PlaneDetachCrtc
<1>8. ASSUME NEW c \in Crtc,
             \/ \E k \in Config : CreateCrtc(k, c)
             \/ \E on \in BOOLEAN : SetWriteback(c, on)
             \/ DestroyCrtc(c)
      PROVE  ConfigInv'
  BY <1>2, <1>4, <1>8, DestroyOneKeeps DEF Objects
<1>9. ASSUME NEW e \in Encoder,
             \/ \E k \in Config : CreateEncoder(k, e)
             \/ \E c \in Crtc : EncoderAttachCrtc(e, c) \/ EncoderDetachCrtc(e, c)
             \/ DestroyEncoder(e)
      PROVE  ConfigInv'
  BY <1>2, <1>5, <1>9, DestroyOneKeeps DEF Objects, EncoderAttachCrtc, EncoderDetachCrtc
<1>10. ASSUME NEW n \in Connector,
             \/ \E k \in Config : CreateConnector(k, n)
             \/ \E e \in Encoder : ConnectorAttachEncoder(n, e) \/ ConnectorDetachEncoder(n, e)
             \/ DestroyConnector(n)
      PROVE  ConfigInv'
  BY <1>2, <1>6, <1>10, DestroyOneKeeps DEF Objects, ConnectorAttachEncoder, ConnectorDetachEncoder
<1> QED BY <1>1, <1>7, <1>8, <1>9, <1>10 DEF ConfigOp

-----------------------------------------------------------------------------
(***************************************************************************)
(* The driver.  Its steps change a configuration only by adding to the     *)
(* default one and by destroying the one it has loaded.                    *)
(***************************************************************************)
LEMMA DefaultAddKeeps == ConfigInv /\ DefaultAdd => ConfigInv'
<1> SUFFICES ASSUME ConfigInv, DefaultAdd PROVE ConfigInv'
  OBVIOUS
<1>1. UNCHANGED configs
  BY DEF DefaultAdd
<1>2. ASSUME NEW p \in Plane, NEW t \in Types, New(conf, p), type' = [type EXCEPT ![p] = t],
             links' = links \cup ({p} \X Of(conf, Crtc)), UNCHANGED writeback
      PROVE  ConfigInv'
  <2>1. p \in Objects
    BY DEF Objects
  <2>2. type' \in [Plane -> Types] /\ writeback' \subseteq Crtc
    BY <1>2 DEF ConfigInv, TypeOK
  <2>3. links' \subseteq CanLink
    BY <1>2 DEF ConfigInv, TypeOK, CanLink, Of
  <2>4. \A l \in links' : l \in links \/ (l[1] = p /\ owner[l[2]] = conf)
    BY <1>2 DEF Of
  <2> HIDE DEF ConfigInv
  <2> QED BY <1>1, <1>2, <2>1, <2>2, <2>3, <2>4, NewKeeps
<1>3. ASSUME NEW c \in Crtc, New(conf, c), writeback' \subseteq writeback \cup {c},
             links' = links \cup (Of(conf, Plane) \X {c}), UNCHANGED type
      PROVE  ConfigInv'
  <2>1. c \in Objects
    BY DEF Objects
  <2>2. type' \in [Plane -> Types] /\ writeback' \subseteq Crtc
    BY <1>3 DEF ConfigInv, TypeOK
  <2>3. links' \subseteq CanLink
    BY <1>3 DEF ConfigInv, TypeOK, CanLink, Of
  <2>4. \A l \in links' : l \in links \/ (l[2] = c /\ owner[l[1]] = conf)
    BY <1>3 DEF Of
  <2> HIDE DEF ConfigInv
  <2> QED BY <1>1, <1>3, <2>1, <2>2, <2>3, <2>4, NewKeeps
<1>4. ASSUME NEW x \in Encoder \cup Connector, NEW Kind, {x} \X Kind \subseteq CanLink,
             New(conf, x), links' = links \cup ({x} \X Of(conf, Kind)),
             UNCHANGED <<type, writeback>>
      PROVE  ConfigInv'
  <2>1. x \in Objects
    BY DEF Objects
  <2>2. type' \in [Plane -> Types] /\ writeback' \subseteq Crtc
    BY <1>4 DEF ConfigInv, TypeOK
  <2>3. links' \subseteq CanLink
    BY <1>4 DEF ConfigInv, TypeOK, Of
  <2>4. \A l \in links' : l \in links \/ (l[1] = x /\ owner[l[2]] = conf)
    BY <1>4 DEF Of
  <2> HIDE DEF ConfigInv
  <2> QED BY <1>1, <1>4, <2>1, <2>2, <2>3, <2>4, NewKeeps
<1>5. \A x \in Encoder : {x} \X Crtc \subseteq CanLink
  BY DEF CanLink
<1>6. \A x \in Connector : {x} \X Encoder \subseteq CanLink
  BY DEF CanLink
<1> DEFINE s == Head(script)
<1>7. CASE /\ s \in {"primary", "overlay", "cursor"}
           /\ \E p \in Plane :
                /\ New(conf, p)
                /\ type' = [type EXCEPT ![p] = CASE s = "primary" -> "PRIMARY"
                                                 [] s = "overlay" -> "OVERLAY"
                                                 [] s = "cursor" -> "CURSOR"]
                /\ links' = links \cup ({p} \X Of(conf, Crtc))
           /\ UNCHANGED writeback
  <2> HIDE DEF s
  <2>1. (CASE s = "primary" -> "PRIMARY"
           [] s = "overlay" -> "OVERLAY"
           [] s = "cursor" -> "CURSOR") \in Types
    BY <1>7 DEF Types
  <2> QED BY <1>2, <1>7, <2>1
<1>8. CASE /\ s \in {"crtc", "crtc_wb"}
           /\ \E c \in Crtc :
                /\ New(conf, c)
                /\ links' = links \cup (Of(conf, Plane) \X {c})
                /\ writeback' = IF s = "crtc_wb" THEN writeback \cup {c} ELSE writeback
           /\ UNCHANGED type
  <2> HIDE DEF s
  <2> QED BY <1>3, <1>8
<1>9. CASE /\ s = "encoder"
           /\ \E e \in Encoder : New(conf, e) /\ links' = links \cup ({e} \X Of(conf, Crtc))
           /\ UNCHANGED <<type, writeback>>
  BY <1>4, <1>5, <1>9
<1>10. CASE /\ s = "connector"
            /\ \E n \in Connector : New(conf, n) /\ links' = links \cup ({n} \X Of(conf, Encoder))
            /\ UNCHANGED <<type, writeback>>
  BY <1>4, <1>6, <1>10
<1> QED BY <1>7, <1>8, <1>9, <1>10 DEF DefaultAdd

\* Destroying a configuration takes all its objects and links along.
LEMMA DestroyedKeeps == ConfigInv /\ Destroy(conf) => ConfigInv'
  BY DestroyKeeps DEF Destroy, ConfigInv, TypeOK

\* At the start there are no objects.
LEMMA ConfigInit == Init => ConfigInv
  BY DEF Init, InitConfig, ConfigInv, TypeOK, NoDangling, Types, CanLink

\* Every step keeps the configurations sound.
LEMMA ConfigNext == ConfigInv /\ [Next]_vars => ConfigInv'
<1> SUFFICES ASSUME ConfigInv, [Next]_vars PROVE ConfigInv'
  OBVIOUS
<1>1. CASE Build
  BY <1>1, ConfigOpKeeps DEF Build
<1>2. CASE DefaultBegin
  BY <1>2, CreateKeeps DEF DefaultBegin
<1>3. CASE DefaultAdd
  BY <1>3, DefaultAddKeeps
<1>4. CASE DefaultFails
  BY <1>4, DestroyedKeeps DEF DefaultFails
<1>5. CASE UNCHANGED cvars
  BY <1>5, ConfigStutter
<1>6. CASE Fail
  BY <1>6, DestroyedKeeps DEF Fail
<1>7. CASE Exit
  BY <1>7, DestroyedKeeps DEF Exit
<1>8. CASE Acquire \/ OutputCheck \/ Register
  BY <1>5, <1>6, <1>8 DEF Acquire, OutputCheck, Register
<1>9. CASE \/ \E p \in Plane : InitPlane(p)
           \/ \E c \in Crtc : InitCrtc(c)
           \/ \E e \in Encoder : InitEncoder(e)
           \/ \E n \in Connector : InitConnector(n)
  BY <1>5, <1>6, <1>9 DEF InitPlane, InitCrtc, InitEncoder, InitConnector
<1>10. CASE DefaultDone \/ (\E k \in Config : Load(k)) \/ PlaneMasks \/ DestroyDevice
  BY <1>5, <1>10 DEF DefaultDone, Load, PlaneMasks, DestroyDevice
<1>11. CASE UNCHANGED vars
  BY <1>5, <1>11 DEF vars
<1> QED BY <1>1, <1>2, <1>3, <1>4, <1>7, <1>8, <1>9, <1>10, <1>11 DEF Next

\* Every variable of a configuration keeps its type, and an object belongs to a
\* configuration that exists, whatever the callers do and whichever call fails.
THEOREM TypeSafe == Spec => []TypeOK
<1>1. ConfigInv => TypeOK
  BY DEF ConfigInv
<1> QED BY <1>1, ConfigInit, ConfigNext, PTL DEF Spec

\* No xarray of a configuration ever holds a pointer to freed memory.
THEOREM NeverDangling == Spec => []NoDangling
<1>1. ConfigInv => NoDangling
  BY DEF ConfigInv
<1> QED BY <1>1, ConfigInit, ConfigNext, PTL DEF Spec

-----------------------------------------------------------------------------
(***************************************************************************)
(* What a device holds, and that it is all given back.  The invariant says *)
(* what is acquired at each stage: without "only the platform device       *)
(* before the devres group" the first error label would release too much   *)
(* or too little.                                                          *)
(***************************************************************************)
Before == {"idle", "default", "create", "output", "exiting"}

DeviceInv ==
    /\ pc \notin {"idle"} => conf \in configs
    /\ pc \in {"idle", "default", "exiting"} => res = {}
    /\ pc \in Before => inited = {} /\ possible = {}
    /\ \A x \in inited : owner[x] = conf
    /\ res \subseteq Rungs \cup {"nodes"}
    /\ "devres" \notin res => res \subseteq {"pdev"}
    /\ pc \notin Before \ {"output"} => "devres" \in res
    /\ "nodes" \in res => pc = "loaded"

\* The rungs of a device, evaluated.
LEMMA RungsAre == Rungs = {"pdev", "devres", "device", "dma", "vblank", "mode_config"}
<1>1. DOMAIN Ladder = 1..6
  BY DEF Ladder
<1> QED BY <1>1 DEF Rungs, Ladder

\* An error gives everything back.
LEMMA FailReleases == DeviceInv /\ pc # "loaded" /\ Fail => DeviceInv'
<1> SUFFICES ASSUME DeviceInv, pc # "loaded", Fail PROVE DeviceInv'
  OBVIOUS
<1>1. res' = {}
  <2>1. CASE "devres" \in res
    BY <2>1 DEF DeviceInv, Fail, Released
  <2>2. CASE "devres" \notin res
    BY <2>2 DEF DeviceInv, Fail, Released
  <2> QED BY <2>1, <2>2
<1>2. pc' = "idle" /\ inited' = {} /\ possible' = {}
  BY DEF Fail
<1> QED BY <1>1, <1>2 DEF DeviceInv, Before

\* Loading takes the rungs in their order.
LEMMA AcquireInOrder == DeviceInv /\ Acquire => DeviceInv'
<1> SUFFICES ASSUME DeviceInv, Acquire PROVE DeviceInv'
  OBVIOUS
<1>1. CASE Fail
  BY <1>1, FailReleases DEF Acquire
<1>2. ASSUME NEW n \in DOMAIN Ladder,
             /\ \A m \in 1..(n - 1) : Ladder[m] \in res
             /\ res' = res \cup {Ladder[n]}
             /\ pc' = IF n = Len(Ladder) THEN "output" ELSE pc
             /\ UNCHANGED <<cvars, script, conf, inited, wb, primary, possible>>
      PROVE  DeviceInv'
  <2>1. n \in 1..6 /\ Ladder[1] = "pdev" /\ Ladder[2] = "devres"
    BY DEF Ladder
  <2>2. Ladder[n] \in Rungs /\ Ladder[n] # "nodes"
    BY <2>1, RungsAre DEF Rungs
  <2>3. "devres" \notin res' => n = 1
    <3>1. n > 2 => 2 \in 1..(n - 1)
      BY <2>1
    <3>2. n > 2 => "devres" \in res
      BY <1>2, <2>1, <3>1
    <3>3. n = 2 => "devres" \in res'
      BY <1>2, <2>1
    <3> QED BY <1>2, <2>1, <3>2, <3>3
  <2>4. "devres" \notin res' => res' \subseteq {"pdev"}
    BY <1>2, <2>1, <2>3 DEF DeviceInv
  <2>5. pc = "create" /\ pc' \in {"create", "output"}
    BY <1>2 DEF Acquire
  <2>6. pc' = "output" => "devres" \in res'
    BY <1>2, <2>1, <2>3, <2>5 DEF Ladder
  <2> QED BY <1>2, <2>2, <2>4, <2>5, <2>6 DEF DeviceInv, Before, cvars
<1> QED BY <1>1, <1>2 DEF Acquire

\* Every step keeps the device within its configuration.
LEMMA DeviceNext == DeviceInv /\ [Next]_vars => DeviceInv'
<1> SUFFICES ASSUME DeviceInv, [Next]_vars PROVE DeviceInv'
  OBVIOUS
<1>1. CASE Build
  BY <1>1 DEF Build, DeviceInv, Before, dvars
<1>2. CASE DefaultBegin
  BY <1>2 DEF DefaultBegin, Create, DeviceInv, Before
<1>3. CASE DefaultAdd
  BY <1>3 DEF DefaultAdd, DeviceInv, Before
<1>4. CASE DefaultFails
  BY <1>4 DEF DefaultFails, DeviceInv, Before
<1>5. CASE DefaultDone \/ \E k \in Config : Load(k)
  BY <1>5 DEF DefaultDone, Load, DeviceInv, Before, cvars
<1>6. CASE Acquire
  BY <1>6, AcquireInOrder
<1>7. CASE OutputCheck
  <2>1. CASE Fail
    BY <1>7, <2>1, FailReleases DEF OutputCheck
  <2>2. CASE ~Fail
    BY <1>7, <2>2 DEF OutputCheck, DeviceInv, Before, cvars
  <2> QED BY <2>1, <2>2
<1>8. ASSUME NEW p \in Plane, InitPlane(p) PROVE DeviceInv'
  <2>1. CASE Fail
    BY <1>8, <2>1, FailReleases DEF InitPlane
  <2>2. CASE ~Fail
    BY <1>8, <2>2 DEF InitPlane, Of, DeviceInv, Before, cvars
  <2> QED BY <2>1, <2>2
<1>9. ASSUME NEW c \in Crtc, InitCrtc(c) PROVE DeviceInv'
  <2>1. CASE Fail
    BY <1>9, <2>1, FailReleases DEF InitCrtc
  <2>2. CASE ~Fail
    BY <1>9, <2>2 DEF InitCrtc, Of, DeviceInv, Before, cvars
  <2> QED BY <2>1, <2>2
<1>10. CASE PlaneMasks
  BY <1>10 DEF PlaneMasks, DeviceInv, Before, cvars
<1>11. ASSUME NEW e \in Encoder, InitEncoder(e) PROVE DeviceInv'
  <2>1. CASE Fail
    BY <1>11, <2>1, FailReleases DEF InitEncoder
  <2>2. CASE ~Fail
    BY <1>11, <2>2 DEF InitEncoder, Of, DeviceInv, Before, cvars
  <2> QED BY <2>1, <2>2
<1>12. ASSUME NEW n \in Connector, InitConnector(n) PROVE DeviceInv'
  <2>1. CASE Fail
    BY <1>12, <2>1, FailReleases DEF InitConnector
  <2>2. CASE ~Fail
    BY <1>12, <2>2 DEF InitConnector, Of, DeviceInv, Before, cvars
  <2> QED BY <2>1, <2>2
<1>13. CASE Register
  <2>1. CASE Fail
    BY <1>13, <2>1, FailReleases DEF Register
  <2>2. CASE ~Fail
    <3>1. "devres" \in res
      BY <1>13 DEF Register, DeviceInv, Before
    <3> QED BY <1>13, <2>2, <3>1 DEF Register, DeviceInv, Before, cvars
  <2> QED BY <2>1, <2>2
<1>14. CASE DestroyDevice
  BY <1>14 DEF DestroyDevice, Released, DeviceInv, Before, cvars
<1>15. CASE Exit
  BY <1>15 DEF Exit, DeviceInv, Before
<1>16. CASE UNCHANGED vars
  BY <1>16 DEF vars, cvars, dvars, DeviceInv, Before
<1> QED BY <1>1, <1>2, <1>3, <1>4, <1>5, <1>6, <1>7, <1>8, <1>9, <1>10, <1>11, <1>12,
           <1>13, <1>14, <1>15, <1>16 DEF Next

\* At the start there is no device.
LEMMA DeviceInit == Init => DeviceInv
  BY DEF Init, DeviceInv, Before

\* What the invariant says of the device and its configuration.
LEMMA DeviceSafe == DeviceInv => DeviceWithinConfig
  BY DEF DeviceInv, DeviceWithinConfig, Before

\* A device never outlives its configuration, and whichever call of vkms_create or
\* vkms_output_init fails, nothing of it is left.
THEOREM DeviceStaysWithinConfig == Spec => []DeviceWithinConfig
  BY DeviceInit, DeviceNext, DeviceSafe, PTL DEF Spec

-----------------------------------------------------------------------------
(***************************************************************************)
(* What vkms_output_init builds.  The configuration stays as it was when   *)
(* it was found valid, and each stage has initialised all of its kind.     *)
(***************************************************************************)
AfterCrtcs == {"masks", "encoders", "connectors", "register", "loaded"}
AfterPlanes == AfterCrtcs \cup {"crtcs"}
AfterEncoders == {"connectors", "register", "loaded"}
AfterConnectors == {"register", "loaded"}

Stages ==
    /\ pc \in {"planes", "crtcs", "masks"} => inited \cap (Encoder \cup Connector) = {}
    /\ pc \in AfterPlanes => Of(conf, Plane) \subseteq inited
    /\ pc \in AfterCrtcs => Of(conf, Crtc) \subseteq inited
    /\ pc \in AfterEncoders => Of(conf, Encoder) \subseteq inited
    /\ pc \in AfterConnectors => Of(conf, Connector) \subseteq inited

Checked ==
    pc \in AfterPlanes \cup {"planes"} =>
        /\ \A c \in Of(conf, Crtc) : Attached(conf, c, "PRIMARY") # {}
        /\ \A x \in Of(conf, Encoder) \cup Of(conf, Connector) : From(x) # {}

Masks == \A x \in inited \cap (Encoder \cup Connector) : From(x) \subseteq possible

OutputInv ==
    /\ primary \in [Crtc -> Plane \cup {Nobody}]
    /\ pc \in AfterPlanes \cup {"planes"} \cup Before
    /\ Stages /\ Checked /\ Masks /\ PointersSet

Inv == ConfigInv /\ DeviceInv /\ OutputInv

\* Whatever destroys or rebuilds the configuration runs without a device.
LEMMA NoDevice ==
  ASSUME inited' = {}, possible' = {}, pc' \in Before, primary' \in [Crtc -> Plane \cup {Nobody}]
  PROVE  OutputInv'
  BY DEF OutputInv, Stages, Checked, Masks, PointersSet, Before, AfterCrtcs, AfterPlanes,
         AfterEncoders, AfterConnectors

\* A failure leaves no device up.
LEMMA FailOutput == Fail => OutputInv'
<1> SUFFICES ASSUME Fail PROVE OutputInv'
  OBVIOUS
<1>1. inited' = {} /\ possible' = {} /\ pc' \in Before
  BY DEF Fail, Before
<1>2. primary' \in [Crtc -> Plane \cup {Nobody}]
  BY DEF Fail
<1> QED BY <1>1, <1>2, NoDevice

\* Links lead to the configuration they come from.
LEMMA LinkInside ==
  ASSUME ConfigInv, NEW x, NEW l \in From(x), owner[x] = conf
  PROVE  /\ x \in Plane \cup Encoder => l[2] \in Of(conf, Crtc)
         /\ x \in Connector => l[2] \in Of(conf, Encoder)
         /\ l = <<x, l[2]>>
<1>1. l \in links /\ l[1] = x
  BY DEF From
<1>2. owner[l[2]] = conf
  BY <1>1 DEF ConfigInv, NoDangling
<1>3. /\ l = <<l[1], l[2]>>
      /\ \/ l[1] \in Plane \cup Encoder /\ l[2] \in Crtc
         \/ l[1] \in Connector /\ l[2] \in Encoder
  BY <1>1 DEF ConfigInv, TypeOK, CanLink
<1> QED BY <1>1, <1>2, <1>3, ConfigAssumption DEF Of

\* Every step keeps what vkms_output_init has set.
LEMMA OutputNext == Inv /\ [Next]_vars => OutputInv'
<1> SUFFICES ASSUME ConfigInv, DeviceInv, OutputInv, [Next]_vars PROVE OutputInv'
  BY DEF Inv
<1> USE DEF Before, AfterCrtcs, AfterPlanes, AfterEncoders, AfterConnectors
<1>1. CASE Build
  <2>1. pc' \in Before /\ inited' = {} /\ possible' = {} /\ primary' = primary
    BY <1>1 DEF Build, dvars, DeviceInv
  <2> QED BY <2>1, NoDevice DEF OutputInv
<1>2. CASE DefaultBegin \/ DefaultAdd \/ DefaultFails \/ DefaultDone \/ (\E k \in Config : Load(k)) \/ Exit
  <2>1. pc' \in Before /\ inited' = {} /\ possible' = {} /\ primary' = primary
    BY <1>2 DEF DefaultBegin, DefaultAdd, DefaultFails, DefaultDone, Load, Exit, DeviceInv
  <2> QED BY <2>1, NoDevice DEF OutputInv
<1>3. CASE Fail
  BY <1>3, FailOutput
<1>4. CASE Acquire
  <2>1. CASE ~Fail
    <3>1. pc' \in Before /\ inited' = {} /\ possible' = {} /\ primary' = primary
      BY <1>4, <2>1 DEF Acquire, DeviceInv
    <3> QED BY <3>1, NoDevice DEF OutputInv
  <2> QED BY <1>3, <2>1
<1>5. CASE OutputCheck
  <2>1. CASE ~Fail
    <3>1. IsValid(conf) /\ pc' = "planes" /\ UNCHANGED <<cvars, conf, inited, primary, possible>>
      BY <1>5, <2>1 DEF OutputCheck
    <3>2. inited = {} /\ possible = {}
      BY <1>5 DEF OutputCheck, DeviceInv
    <3>3. ASSUME NEW c \in Of(conf, Crtc) PROVE Attached(conf, c, "PRIMARY") # {}
      BY <3>1, FS_EmptySet DEF IsValid, ValidPlanesForCrtc
    <3>4. \A x \in Of(conf, Encoder) \cup Of(conf, Connector) : From(x) # {}
      BY <3>1 DEF IsValid, ValidEncoderPossibleCrtcs, ValidConnectorPossibleEncoders
    <3>5. Checked'
      BY <3>1, <3>3, <3>4 DEF Checked, Attached, From, Of, cvars
    <3>6. Stages' /\ Masks' /\ PointersSet'
      BY <3>1, <3>2 DEF Stages, Masks, PointersSet
    <3> QED BY <3>1, <3>5, <3>6 DEF OutputInv
  <2> QED BY <1>3, <2>1
<1>6. ASSUME NEW p \in Plane, InitPlane(p), ~Fail PROVE OutputInv'
  <2>1. /\ pc = "planes" /\ p \in Of(conf, Plane)
        /\ inited' = inited \cup {p}
        /\ pc' = IF Of(conf, Plane) \subseteq inited' THEN "crtcs" ELSE pc
        /\ UNCHANGED <<cvars, conf, primary, possible>>
    BY <1>6 DEF InitPlane
  <2>2. Checked'
    BY <2>1 DEF OutputInv, Checked, Attached, From, Of, cvars
  <2>3. Stages'
    BY <2>1, ConfigAssumption DEF OutputInv, Stages, Of, cvars
  <2>4. Masks' /\ PointersSet'
    <3>1. p \notin Crtc \cup Encoder \cup Connector
      BY ConfigAssumption
    <3> QED BY <2>1, <3>1 DEF OutputInv, Masks, PointersSet, From, cvars
  <2> QED BY <2>1, <2>2, <2>3, <2>4 DEF OutputInv
<1>7. ASSUME NEW c \in Crtc, InitCrtc(c), ~Fail PROVE OutputInv'
  <2>1. /\ pc = "crtcs" /\ c \in Of(conf, Crtc)
        /\ inited' = inited \cup {c}
        /\ pc' = IF Of(conf, Crtc) \subseteq inited' THEN "masks" ELSE pc
        /\ UNCHANGED <<cvars, conf, possible>>
    BY <1>7 DEF InitCrtc
  <2>2. PICK p \in PrimaryPlane(c) : primary' = [primary EXCEPT ![c] = p]
    BY <1>7 DEF InitCrtc
  <2>3. Checked'
    BY <2>1 DEF OutputInv, Checked, Attached, From, Of, cvars
  <2>4. Stages'
    BY <2>1, ConfigAssumption DEF OutputInv, Stages, Of, cvars
  <2>5. p \in Attached(conf, c, "PRIMARY")
    BY <2>1, <2>2 DEF OutputInv, Checked, PrimaryPlane
  <2>6. p \in inited /\ p \in Plane /\ type[p] = "PRIMARY" /\ <<p, c>> \in links
    BY <2>1, <2>5 DEF OutputInv, Stages, Attached, Of
  <2>7. primary' \in [Crtc -> Plane \cup {Nobody}]
    BY <2>2, <2>6 DEF OutputInv
  <2>8. primary'[c] = p /\ \A d \in Crtc \ {c} : primary'[d] = primary[d]
    BY <2>2 DEF OutputInv
  <2>9. c \notin Encoder \cup Connector
    BY ConfigAssumption
  <2>10. PointersSet'
    BY <2>1, <2>6, <2>8 DEF OutputInv, PointersSet, cvars
  <2>11. Masks'
    BY <2>1, <2>9 DEF OutputInv, Masks, From, cvars
  <2> QED BY <2>1, <2>3, <2>4, <2>7, <2>10, <2>11 DEF OutputInv
<1>8. CASE PlaneMasks
  <2>1. /\ pc = "masks" /\ pc' = "encoders"
        /\ possible' = UNION {From(p) : p \in Of(conf, Plane)}
        /\ UNCHANGED <<cvars, conf, inited, primary>>
    BY <1>8 DEF PlaneMasks
  <2>2. Checked' /\ Stages'
    BY <2>1 DEF OutputInv, Checked, Stages, Attached, From, Of, cvars
  <2>3. ASSUME NEW l \in possible' PROVE l[2] \in inited'
    <3>1. PICK p \in Of(conf, Plane) : l \in From(p)
      BY <2>1
    <3>2. l[2] \in Of(conf, Crtc)
      BY <3>1, LinkInside DEF Of
    <3> QED BY <2>1, <3>2 DEF OutputInv, Stages
  <2>4. PointersSet'
    BY <2>1, <2>3 DEF OutputInv, PointersSet, cvars
  <2>5. inited \cap (Encoder \cup Connector) = {}
    BY <2>1 DEF OutputInv, Stages
  <2>6. Masks'
    BY <2>1, <2>5 DEF Masks
  <2> QED BY <2>1, <2>2, <2>4, <2>6 DEF OutputInv
<1>9. ASSUME NEW e \in Encoder, InitEncoder(e), ~Fail PROVE OutputInv'
  <2>1. /\ pc = "encoders" /\ e \in Of(conf, Encoder)
        /\ inited' = inited \cup {e}
        /\ possible' = possible \cup From(e)
        /\ pc' = IF Of(conf, Encoder) \subseteq inited' THEN "connectors" ELSE pc
        /\ UNCHANGED <<cvars, conf, primary>>
    BY <1>9 DEF InitEncoder
  <2>2. Checked' /\ Stages'
    BY <2>1 DEF OutputInv, Checked, Stages, Attached, From, Of, cvars
  <2>3. ASSUME NEW l \in From(e) PROVE l[2] \in inited
    <3>1. l[2] \in Of(conf, Crtc)
      BY <2>1, LinkInside DEF Of
    <3> QED BY <2>1, <3>1 DEF OutputInv, Stages
  <2>4. e \notin Crtc
    BY ConfigAssumption
  <2>5. PointersSet'
    BY <2>1, <2>3, <2>4 DEF OutputInv, PointersSet, cvars
  <2>6. Masks'
    BY <2>1 DEF OutputInv, Masks, From, cvars
  <2> QED BY <2>1, <2>2, <2>5, <2>6 DEF OutputInv
<1>10. ASSUME NEW n \in Connector, InitConnector(n), ~Fail PROVE OutputInv'
  <2>1. /\ pc = "connectors" /\ n \in Of(conf, Connector)
        /\ inited' = inited \cup {n}
        /\ possible' = possible \cup From(n)
        /\ pc' = IF Of(conf, Connector) \subseteq inited' THEN "register" ELSE pc
        /\ UNCHANGED <<cvars, conf, primary>>
    BY <1>10 DEF InitConnector
  <2>2. Checked' /\ Stages'
    BY <2>1 DEF OutputInv, Checked, Stages, Attached, From, Of, cvars
  <2>3. ASSUME NEW l \in From(n) PROVE l[2] \in inited
    <3>1. l[2] \in Of(conf, Encoder)
      BY <2>1, LinkInside DEF Of
    <3> QED BY <2>1, <3>1 DEF OutputInv, Stages
  <2>4. n \notin Crtc
    BY ConfigAssumption
  <2>5. PointersSet'
    BY <2>1, <2>3, <2>4 DEF OutputInv, PointersSet, cvars
  <2>6. Masks'
    BY <2>1 DEF OutputInv, Masks, From, cvars
  <2> QED BY <2>1, <2>2, <2>5, <2>6 DEF OutputInv
<1>11. CASE Register
  <2>1. CASE ~Fail
    <3>1. /\ pc = "register" /\ pc' = "loaded"
          /\ UNCHANGED <<cvars, conf, inited, primary, possible>>
      BY <1>11, <2>1 DEF Register
    <3>2. Checked' /\ Stages' /\ Masks' /\ PointersSet'
      BY <3>1 DEF OutputInv, Checked, Stages, Masks, PointersSet, Attached, From, Of, cvars
    <3> QED BY <3>1, <3>2 DEF OutputInv
  <2> QED BY <1>3, <2>1
<1>12. CASE DestroyDevice
  <2>1. inited' = {} /\ possible' = {} /\ pc' \in Before
    BY <1>12 DEF DestroyDevice
  <2>2. primary' \in [Crtc -> Plane \cup {Nobody}]
    BY <1>12 DEF DestroyDevice
  <2> QED BY <2>1, <2>2, NoDevice
<1>13. CASE UNCHANGED vars
  <2>1. UNCHANGED <<cvars, conf, inited, primary, possible, pc>>
    BY <1>13 DEF vars, dvars
  <2>2. Checked' /\ Stages' /\ Masks' /\ PointersSet'
    BY <2>1 DEF OutputInv, Checked, Stages, Masks, PointersSet, Attached, From, Of, cvars
  <2> QED BY <2>1, <2>2 DEF OutputInv
<1> QED BY <1>1, <1>2, <1>3, <1>4, <1>5, <1>6, <1>7, <1>8, <1>9, <1>10, <1>11, <1>12, <1>13 DEF Next

\* At the start there is no output.
LEMMA OutputInit == Init => OutputInv
<1> SUFFICES ASSUME Init PROVE OutputInv
  OBVIOUS
<1>1. pc = "idle" /\ inited = {} /\ possible = {} /\ primary \in [Crtc -> Plane \cup {Nobody}]
  BY DEF Init
<1> QED BY <1>1 DEF OutputInv, Stages, Checked, Masks, PointersSet, Before, AfterCrtcs, AfterPlanes,
                    AfterEncoders, AfterConnectors

\* What the invariant says of a device that is up.
LEMMA OutputSafe == Inv => OutputComplete
<1> SUFFICES ASSUME ConfigInv, OutputInv PROVE OutputComplete
  BY DEF Inv
<1>1. ASSUME pc = "loaded", NEW n \in Of(conf, Connector)
      PROVE \E e \in Of(conf, Encoder), c \in Of(conf, Crtc) : {<<n, e>>, <<e, c>>} \subseteq possible
  <2>1. \A x \in Of(conf, Encoder) \cup Of(conf, Connector) : From(x) # {} /\ x \in inited
    BY <1>1 DEF OutputInv, Checked, Stages, AfterCrtcs, AfterPlanes, AfterEncoders, AfterConnectors
  <2>2. \A x \in Of(conf, Encoder) \cup Of(conf, Connector) : From(x) \subseteq possible
    BY <2>1 DEF OutputInv, Masks, Of
  <2>3. PICK l : l \in From(n)
    BY <2>1
  <2>4. l[2] \in Of(conf, Encoder) /\ l = <<n, l[2]>>
    BY <2>3, LinkInside DEF Of
  <2>5. PICK m : m \in From(l[2])
    BY <2>1, <2>4
  <2>6. m[2] \in Of(conf, Crtc) /\ m = <<l[2], m[2]>>
    BY <2>4, <2>5, LinkInside DEF Of
  <2>7. l \in possible /\ m \in possible
    BY <2>2, <2>3, <2>4, <2>5
  <2> QED BY <2>4, <2>6, <2>7
<1> QED BY <1>1 DEF OutputInv, OutputComplete, ConnectorsUsable

\* vkms_output_init follows no unset pointer, and every connector of a device that
\* it leaves can show some CRTC.
THEOREM OutputIsComplete == Spec => []OutputComplete
<1>1. Init => Inv
  BY ConfigInit, DeviceInit, OutputInit DEF Inv
<1>2. Inv /\ [Next]_vars => Inv'
  BY ConfigNext, DeviceNext, OutputNext DEF Inv
<1> QED BY <1>1, <1>2, OutputSafe, PTL DEF Spec
=============================================================================

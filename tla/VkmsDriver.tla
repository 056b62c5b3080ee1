----------------------------- MODULE VkmsDriver -----------------------------
(***************************************************************************)
(* Loading and unloading the driver (vkms_drv.c, vkms_output.c,            *)
(* vkms_connector.c and the init functions of plane, CRTC and writeback):  *)
(* vkms_init builds the default configuration, or, to cover what           *)
(* vkms_create relies on rather than what its one caller hands it, takes   *)
(* any configuration the operations of VkmsConfig can build; vkms_create   *)
(* makes a device of it, vkms_output_init its KMS objects, and every call  *)
(* that can fail may fail.  vkms_exit takes it all down.                   *)
(***************************************************************************)
EXTENDS VkmsConfig, Sequences

CONSTANTS
    NumOverlay  \* NUM_OVERLAY_PLANES, 8 in the code

VARIABLES
    pc,       \* how far vkms_init or vkms_exit has come
    script,   \* what vkms_config_default_create has still to add
    conf,     \* the configuration being loaded, or Nobody
    res,      \* what vkms_create has acquired
    inited,   \* the objects of conf whose plane, crtc, encoder or connector is set
    wb,       \* the CRTCs with a writeback connector
    primary,  \* CRTC -> the plane given to vkms_crtc_init as primary
    possible  \* possible_crtcs and attached encoders of the KMS objects

dvars == <<pc, script, conf, res, inited, wb, primary, possible>>
vars == <<cvars, dvars>>

Init ==
    /\ InitConfig
    /\ pc = "idle" /\ script = <<>> /\ conf = Nobody /\ res = {}
    /\ inited = {} /\ wb = {} /\ possible = {}
    /\ primary = [c \in Crtc |-> Nobody]

\* Operations on a configuration by other callers, between loads.
Build == pc = "idle" /\ ConfigOp /\ UNCHANGED dvars

(***************************************************************************)
(* vkms_config_default_create: the objects in the order it adds them, each *)
(* attached to what is there already.                                      *)
(***************************************************************************)
DefaultScript(cursor, wback, overlay) ==
    <<"primary", IF wback THEN "crtc_wb" ELSE "crtc">>
    \o [i \in 1..(IF overlay THEN NumOverlay ELSE 0) |-> "overlay"]
    \o (IF cursor THEN <<"cursor">> ELSE <<>>)
    \o <<"encoder", "connector">>

DefaultBegin ==
    /\ pc = "idle"
    /\ \E k \in Config : Create(k) /\ conf' = k
    /\ \E cursor, wback, overlay \in BOOLEAN : script' = DefaultScript(cursor, wback, overlay)
    /\ pc' = "default"
    /\ UNCHANGED <<res, inited, wb, primary, possible>>

DefaultAdd ==
    /\ pc = "default" /\ script # <<>>
    /\ LET s == Head(script) IN
         \/ /\ s \in {"primary", "overlay", "cursor"}
            /\ \E p \in Plane :
                 /\ New(conf, p)
                 /\ type' = [type EXCEPT ![p] = CASE s = "primary" -> "PRIMARY"
                                                  [] s = "overlay" -> "OVERLAY"
                                                  [] s = "cursor" -> "CURSOR"]
                 /\ links' = links \cup ({p} \X Of(conf, Crtc))
            /\ UNCHANGED writeback
         \/ /\ s \in {"crtc", "crtc_wb"}
            /\ \E c \in Crtc :
                 /\ New(conf, c)
                 /\ links' = links \cup (Of(conf, Plane) \X {c})
                 /\ writeback' = IF s = "crtc_wb" THEN writeback \cup {c} ELSE writeback
            /\ UNCHANGED type
         \/ /\ s = "encoder"
            /\ \E e \in Encoder : New(conf, e) /\ links' = links \cup ({e} \X Of(conf, Crtc))
            /\ UNCHANGED <<type, writeback>>
         \/ /\ s = "connector"
            /\ \E n \in Connector : New(conf, n) /\ links' = links \cup ({n} \X Of(conf, Encoder))
            /\ UNCHANGED <<type, writeback>>
    /\ script' = Tail(script)
    /\ UNCHANGED <<configs, pc, conf, res, inited, wb, primary, possible>>

\* A create or an attach fails: err_alloc destroys what there is.
DefaultFails ==
    /\ pc = "default" /\ script # <<>>
    /\ Destroy(conf)
    /\ pc' = "idle" /\ script' = <<>> /\ conf' = Nobody
    /\ UNCHANGED <<res, inited, wb, primary, possible>>

DefaultDone ==
    /\ pc = "default" /\ script = <<>>
    /\ pc' = "create"
    /\ UNCHANGED <<cvars, script, conf, res, inited, wb, primary, possible>>

\* vkms_create is handed a configuration that somebody else has built.
Load(k) ==
    /\ pc = "idle" /\ k \in configs
    /\ pc' = "create" /\ conf' = k
    /\ UNCHANGED <<cvars, script, res, inited, wb, primary, possible>>

(***************************************************************************)
(* vkms_create up to vkms_modeset_init.  What is allocated inside the      *)
(* devres group goes with it; config->dev is set with the device.          *)
(***************************************************************************)
Ladder == <<"pdev", "devres", "device", "dma", "vblank", "mode_config">>
Rungs == {Ladder[n] : n \in DOMAIN Ladder}
Released(label) == IF label = "out_devres" THEN res \ Rungs ELSE res \ {"pdev"}

\* Mutated form of Fail: every error goes to out_unregister.
FailKeepGroup ==
    /\ res' = Released("out_unregister")
    /\ Destroy(conf)
    /\ inited' = {} /\ wb' = {} /\ possible' = {}
    /\ primary' = [c \in Crtc |-> Nobody]
    /\ pc' = "idle" /\ conf' = Nobody
    /\ UNCHANGED script

\* vkms_create returns an error, after which vkms_init destroys the configuration.
Fail ==
    /\ res' = Released(IF "devres" \in res THEN "out_devres" ELSE "out_unregister")
    /\ Destroy(conf)
    /\ inited' = {} /\ wb' = {} /\ possible' = {}
    /\ primary' = [c \in Crtc |-> Nobody]
    /\ pc' = "idle" /\ conf' = Nobody
    /\ UNCHANGED script

Acquire ==
    /\ pc = "create"
    /\ \/ Fail
       \/ \E n \in DOMAIN Ladder :
            /\ Ladder[n] \notin res
            /\ \A m \in 1..(n - 1) : Ladder[m] \in res
            /\ res' = res \cup {Ladder[n]}
            /\ pc' = IF n = Len(Ladder) THEN "output" ELSE pc
            /\ UNCHANGED <<cvars, script, conf, inited, wb, primary, possible>>

(***************************************************************************)
(* vkms_output_init.                                                       *)
(***************************************************************************)
OutputCheck ==
    /\ pc = "output"
    /\ IF IsValid(conf)
       THEN pc' = "planes" /\ UNCHANGED <<cvars, script, conf, res, inited, wb, primary, possible>>
       ELSE Fail

InitPlane(p) ==
    /\ pc = "planes" /\ p \in Of(conf, Plane) \ inited
    /\ \/ Fail
       \/ /\ inited' = inited \cup {p}
          /\ pc' = IF Of(conf, Plane) \subseteq inited' THEN "crtcs" ELSE pc
          /\ UNCHANGED <<cvars, script, conf, res, wb, primary, possible>>

\* vkms_config_crtc_get_plane: the first match, any of them here; NULL without one.
PrimaryPlane(c) ==
    LET found == Attached(conf, c, "PRIMARY") IN IF found = {} THEN {Nobody} ELSE found

\* vkms_enable_writeback_connector: a failure is only reported.
EnableWriteback(c) == wb' = wb \cup ({c} \cap writeback) \/ wb' = wb

\* vkms_crtc_init, then the writeback connector.
InitCrtc(c) ==
    /\ pc = "crtcs" /\ c \in Of(conf, Crtc) \ inited
    /\ \/ Fail
       \/ /\ inited' = inited \cup {c}
          /\ \E p \in PrimaryPlane(c) : primary' = [primary EXCEPT ![c] = p]
          /\ EnableWriteback(c)
          /\ pc' = IF Of(conf, Crtc) \subseteq inited' THEN "masks" ELSE pc
          /\ UNCHANGED <<cvars, script, conf, res, possible>>

PlaneMasks ==
    /\ pc = "masks"
    /\ possible' = UNION {From(p) : p \in Of(conf, Plane)}
    /\ pc' = "encoders"
    /\ UNCHANGED <<cvars, script, conf, res, inited, wb, primary>>

InitEncoder(e) ==
    /\ pc = "encoders" /\ e \in Of(conf, Encoder) \ inited
    /\ \/ Fail
       \/ /\ inited' = inited \cup {e}
          /\ possible' = possible \cup From(e)
          /\ pc' = IF Of(conf, Encoder) \subseteq inited' THEN "connectors" ELSE pc
          /\ UNCHANGED <<cvars, script, conf, res, wb, primary>>

InitConnector(n) ==
    /\ pc = "connectors" /\ n \in Of(conf, Connector) \ inited
    /\ \/ Fail
       \/ /\ inited' = inited \cup {n}
          /\ possible' = possible \cup From(n)
          /\ pc' = IF Of(conf, Connector) \subseteq inited' THEN "register" ELSE pc
          /\ UNCHANGED <<cvars, script, conf, res, wb, primary>>

\* The debugfs files, which read the configuration, and the device nodes appear.
Register ==
    /\ pc = "register"
    /\ \/ Fail
       \/ /\ res' = res \cup {"nodes"}
          /\ pc' = "loaded"
          /\ UNCHANGED <<cvars, script, conf, inited, wb, primary, possible>>

(***************************************************************************)
(* vkms_exit: vkms_destroy, then vkms_config_destroy.                      *)
(***************************************************************************)
DestroyDevice ==
    /\ pc = "loaded"
    /\ res' = Released("out_devres") \ {"nodes"}
    /\ inited' = {} /\ wb' = {} /\ possible' = {}
    /\ primary' = [c \in Crtc |-> Nobody]
    /\ pc' = "exiting"
    /\ UNCHANGED <<cvars, script, conf>>

Exit ==
    /\ pc = "exiting"
    /\ Destroy(conf)
    /\ pc' = "idle" /\ conf' = Nobody
    /\ UNCHANGED <<script, res, inited, wb, primary, possible>>

Next ==
    \/ Build \/ DefaultBegin \/ DefaultAdd \/ DefaultFails \/ DefaultDone
    \/ \E k \in Config : Load(k)
    \/ Acquire \/ OutputCheck
    \/ \E p \in Plane : InitPlane(p)
    \/ \E c \in Crtc : InitCrtc(c)
    \/ PlaneMasks
    \/ \E e \in Encoder : InitEncoder(e)
    \/ \E n \in Connector : InitConnector(n)
    \/ Register \/ DestroyDevice \/ Exit

Spec == Init /\ [][Next]_vars

-----------------------------------------------------------------------------
\* vkms_crtc_init dereferences the primary plane, and the masks the CRTC and encoder
\* objects, without a test for NULL or an error pointer: all of them are initialised
\* objects of the configuration when they are used, and a CRTC's primary plane is of
\* that type and usable on it.
PointersSet ==
    /\ \A c \in inited \cap Crtc :
         /\ primary[c] \in inited
         /\ type[primary[c]] = "PRIMARY" /\ <<primary[c], c>> \in links
    /\ \A l \in possible : l[2] \in inited

\* Every connector of a loaded device can show some CRTC of it: a chain of an encoder
\* and a CRTC leads from it.
ConnectorsUsable ==
    pc = "loaded" =>
        \A n \in Of(conf, Connector) :
            \E e \in Of(conf, Encoder), c \in Of(conf, Crtc) :
                {<<n, e>>, <<e, c>>} \subseteq possible

\* What vkms_output_init builds is complete: no pointer it follows is unset, and no
\* connector is left without a CRTC.
OutputComplete == PointersSet /\ ConnectorsUsable

\* A device lives within its configuration: whatever it holds, the configuration that
\* its debugfs file reads exists and owns the objects initialised, and between loads
\* nothing of a device is left, whichever call failed.
DeviceWithinConfig ==
    /\ res # {} => conf \in configs /\ \A x \in inited : owner[x] = conf
    /\ pc = "idle" => res = {} /\ inited = {} /\ possible = {}
=============================================================================

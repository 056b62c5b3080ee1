----------------------------- MODULE VkmsConfig -----------------------------
(***************************************************************************)
(* The configuration of a VKMS device (vkms_config.c, vkms_config.h):      *)
(* planes, CRTCs, encoders and connectors that belong to a configuration,  *)
(* and the relation "may be used with" between them.  Any caller may       *)
(* create, attach, detach and destroy in any order; an allocation that     *)
(* fails leaves everything as it was and is a stuttering step here.        *)
(*                                                                         *)
(* The lists of a configuration and the xarrays of an object are sets: the *)
(* only reader that depends on their order is vkms_config_crtc_get_plane,  *)
(* which returns the first match, and IsValid admits one match only.       *)
(***************************************************************************)
EXTENDS FiniteSets, Naturals

CONSTANTS
    Config, Plane, Crtc, Encoder, Connector,  \* the addresses kzalloc can return
    Nobody,                                   \* the owner of memory that is free
    MaxOfKind                                 \* 31 in the code

ASSUME ConfigAssumption ==
    /\ Nobody \notin Config
    /\ Plane \cap (Crtc \cup Encoder \cup Connector) = {}
    /\ Crtc \cap (Encoder \cup Connector) = {}
    /\ Encoder \cap Connector = {}

VARIABLES
    configs,    \* the configurations that exist
    owner,      \* object -> its config field, or Nobody once freed
    type,       \* plane -> enum drm_plane_type
    writeback,  \* the CRTCs whose writeback flag is set
    links       \* plane and encoder possible_crtcs, connector possible_encoders

cvars == <<configs, owner, type, writeback, links>>

Objects == Plane \cup Crtc \cup Encoder \cup Connector
CanLink == (Plane \X Crtc) \cup (Encoder \X Crtc) \cup (Connector \X Encoder)
Types == {"OVERLAY", "PRIMARY", "CURSOR"}

Of(k, Kind) == {x \in Kind : owner[x] = k}

InitConfig ==
    /\ configs = {}
    /\ owner = [x \in Objects |-> Nobody]
    /\ type = [p \in Plane |-> "OVERLAY"]
    /\ writeback = {}
    /\ links = {}

Create(k) ==
    /\ k \in Config \ configs
    /\ configs' = configs \cup {k}
    /\ UNCHANGED <<owner, type, writeback, links>>

(***************************************************************************)
(* An allocation for the configuration k, and the freeing of a set of      *)
(* objects with the links that the code drops first.                       *)
(***************************************************************************)
New(k, x) ==
    /\ k \in configs
    /\ owner[x] = Nobody
    /\ owner' = [owner EXCEPT ![x] = k]

Free(dead, dropped) ==
    /\ owner' = [x \in Objects |-> IF x \in dead THEN Nobody ELSE owner[x]]
    /\ type' = [p \in Plane |-> IF p \in dead THEN "OVERLAY" ELSE type[p]]
    /\ writeback' = writeback \ dead
    /\ links' = links \ dropped

From(x) == {l \in links : l[1] = x}
To(k, Kind, y) == {l \in links : l[1] \in Of(k, Kind) /\ l[2] = y}

\* Mutated form of Attach: the two configurations are not compared.
AttachAnyOwner(x, y) ==
    /\ Nobody \notin {owner[x], owner[y]}
    /\ <<x, y>> \notin links
    /\ links' = links \cup {<<x, y>>}
    /\ UNCHANGED <<configs, owner, type, writeback>>

Attach(x, y) ==
    /\ Nobody \notin {owner[x], owner[y]}
    /\ owner[x] = owner[y]                    \* -EINVAL
    /\ <<x, y>> \notin links                  \* -EEXIST
    /\ links' = links \cup {<<x, y>>}
    /\ UNCHANGED <<configs, owner, type, writeback>>

Detach(x, y) ==
    /\ Nobody \notin {owner[x], owner[y]}
    /\ links' = links \ {<<x, y>>}
    /\ UNCHANGED <<configs, owner, type, writeback>>

CreatePlane(k, p) ==
    /\ New(k, p)
    /\ type' = [type EXCEPT ![p] = "OVERLAY"]
    /\ UNCHANGED <<configs, writeback, links>>

SetType(p, t) ==
    /\ owner[p] # Nobody
    /\ type' = [type EXCEPT ![p] = t]
    /\ UNCHANGED <<configs, owner, writeback, links>>

DestroyPlane(p) ==
    /\ owner[p] # Nobody
    /\ Free({p}, From(p))
    /\ UNCHANGED configs

PlaneAttachCrtc(p, c) == Attach(p, c)
PlaneDetachCrtc(p, c) == Detach(p, c)

CreateCrtc(k, c) ==
    /\ New(k, c)
    /\ writeback' = writeback \ {c}
    /\ UNCHANGED <<configs, type, links>>

SetWriteback(c, on) ==
    /\ owner[c] # Nobody
    /\ writeback' = IF on THEN writeback \cup {c} ELSE writeback \ {c}
    /\ UNCHANGED <<configs, owner, type, links>>

\* The configuration passed is taken to be the CRTC's own, as vkms_config_destroy
\* has it; the function does not check.
DestroyCrtc(c) ==
    /\ owner[c] # Nobody
    /\ Free({c}, To(owner[c], Plane, c) \cup To(owner[c], Encoder, c))
    /\ UNCHANGED configs

CreateEncoder(k, e) ==
    /\ New(k, e)
    /\ UNCHANGED <<configs, type, writeback, links>>

\* So for an encoder.
DestroyEncoder(e) ==
    /\ owner[e] # Nobody
    /\ Free({e}, To(owner[e], Connector, e) \cup From(e))
    /\ UNCHANGED configs

EncoderAttachCrtc(e, c) == Attach(e, c)
EncoderDetachCrtc(e, c) == Detach(e, c)

CreateConnector(k, n) ==
    /\ New(k, n)
    /\ UNCHANGED <<configs, type, writeback, links>>

DestroyConnector(n) ==
    /\ owner[n] # Nobody
    /\ Free({n}, From(n))
    /\ UNCHANGED configs

ConnectorAttachEncoder(n, e) == Attach(n, e)
ConnectorDetachEncoder(n, e) == Detach(n, e)

\* Mutated form of Destroy: the connectors are forgotten.
DestroyButConnectors(k) ==
    /\ k \in configs
    /\ configs' = configs \ {k}
    /\ LET dead == Of(k, Objects \ Connector) IN
         Free(dead, {l \in links : l[1] \in dead \/ l[2] \in dead})

(***************************************************************************)
(* vkms_config_destroy frees the planes, the CRTCs, the encoders and the   *)
(* connectors of k, in this order; each step drops the links it drops when *)
(* called alone.                                                           *)
(***************************************************************************)
Destroy(k) ==
    /\ k \in configs
    /\ configs' = configs \ {k}
    /\ Free(Of(k, Objects),
            UNION {From(x) : x \in Of(k, Plane \cup Encoder \cup Connector)}
            \cup UNION {To(k, Plane \cup Encoder, c) : c \in Of(k, Crtc)}
            \cup UNION {To(k, Connector, e) : e \in Of(k, Encoder)})

ConfigOp ==
    \/ \E k \in Config : Create(k) \/ Destroy(k)
    \/ \E p \in Plane :
         \/ \E k \in Config : CreatePlane(k, p)
         \/ \E t \in Types : SetType(p, t)
         \/ \E c \in Crtc : PlaneAttachCrtc(p, c) \/ PlaneDetachCrtc(p, c)
         \/ DestroyPlane(p)
    \/ \E c \in Crtc :
         \/ \E k \in Config : CreateCrtc(k, c)
         \/ \E on \in BOOLEAN : SetWriteback(c, on)
         \/ DestroyCrtc(c)
    \/ \E e \in Encoder :
         \/ \E k \in Config : CreateEncoder(k, e)
         \/ \E c \in Crtc : EncoderAttachCrtc(e, c) \/ EncoderDetachCrtc(e, c)
         \/ DestroyEncoder(e)
    \/ \E n \in Connector :
         \/ \E k \in Config : CreateConnector(k, n)
         \/ \E e \in Encoder : ConnectorAttachEncoder(n, e) \/ ConnectorDetachEncoder(n, e)
         \/ DestroyConnector(n)

ConfigSpec == InitConfig /\ [][ConfigOp]_cvars

-----------------------------------------------------------------------------
(***************************************************************************)
(* vkms_config_is_valid and the rules it is made of.                       *)
(***************************************************************************)
Attached(k, c, t) == {p \in Of(k, Plane) : type[p] = t /\ <<p, c>> \in links}

ValidPlaneNumber(k) == Cardinality(Of(k, Plane)) \in 1..MaxOfKind
ValidCrtcNumber(k) == Cardinality(Of(k, Crtc)) \in 1..MaxOfKind
ValidEncoderNumber(k) == Cardinality(Of(k, Encoder)) \in 1..MaxOfKind
ValidConnectorNumber(k) == Cardinality(Of(k, Connector)) \in 1..MaxOfKind

\* Mutated form of ValidPlanesForCrtc: a CRTC without a primary plane passes.
ValidPlanesForCrtcAtMostOne(k, c) ==
    /\ Cardinality(Attached(k, c, "PRIMARY")) <= 1
    /\ Cardinality(Attached(k, c, "CURSOR")) <= 1

ValidPlanesForCrtc(k, c) ==
    /\ Cardinality(Attached(k, c, "PRIMARY")) = 1
    /\ Cardinality(Attached(k, c, "CURSOR")) <= 1

ValidPlanePossibleCrtcs(k) == \A p \in Of(k, Plane) : From(p) # {}

ValidEncoderPossibleCrtcs(k) ==
    /\ \A e \in Of(k, Encoder) : From(e) # {}
    /\ \A c \in Of(k, Crtc) : To(k, Encoder, c) # {}

ValidConnectorPossibleEncoders(k) == \A n \in Of(k, Connector) : From(n) # {}

IsValid(k) ==
    /\ ValidPlaneNumber(k)
    /\ ValidCrtcNumber(k)
    /\ ValidEncoderNumber(k)
    /\ ValidConnectorNumber(k)
    /\ ValidPlanePossibleCrtcs(k)
    /\ \A c \in Of(k, Crtc) : ValidPlanesForCrtc(k, c)
    /\ ValidEncoderPossibleCrtcs(k)
    /\ ValidConnectorPossibleEncoders(k)

-----------------------------------------------------------------------------
\* Every variable keeps its type, and an object belongs to a configuration that exists.
TypeOK ==
    /\ configs \subseteq Config
    /\ owner \in [Objects -> configs \cup {Nobody}]
    /\ type \in [Plane -> Types]
    /\ writeback \subseteq Crtc
    /\ links \subseteq CanLink

\* No xarray holds a pointer to freed memory, or to an object of another configuration
\* (which could be freed without this one hearing of it): the destroy functions drop
\* the links to what they free only in the configuration they are given.
NoDangling ==
    \A l \in links : owner[l[1]] = owner[l[2]] /\ owner[l[1]] # Nobody
=============================================================================

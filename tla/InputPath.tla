----------------------------- MODULE InputPath -----------------------------
(***************************************************************************)
(* Keys and mouse buttons from the Mac to Ubuntu: the event monitor        *)
(* of mac/.../InputForwarder.swift, UDP, and handle_input_event of         *)
(* ubuntu/src/input.c over a uinput device.  UDP may lose, duplicate and   *)
(* reorder; the forwarder hears nothing while its window has no focus; the *)
(* packets carry a sequence number that nobody reads.                      *)
(***************************************************************************)
EXTENDS Integers, Sequences

CONSTANTS Keys,          \* ordinary keys, by their Linux code
          Modifiers,     \* the table of handleModifierFlags: modifiers, by their
                         \* Linux code, in its order
          Xs, Ys,        \* mapped coordinates
          MaxInFlight,   \* bound on the packets in the network
          MaxFaults      \* bound on the packets lost, duplicated or reordered

\* Modifiers are reported by flagsChanged, never as keys.
Mods == {Modifiers[i] : i \in DOMAIN Modifiers}

ASSUME InputAssumption ==
  /\ Keys \cap Mods = {}
  /\ Modifiers \in Seq(Nat)
  /\ \A i, j \in DOMAIN Modifiers : Modifiers[i] = Modifiers[j] => i = j
  /\ Xs \subseteq Nat /\ Ys \subseteq Nat
  /\ MaxInFlight \in Nat /\ MaxFaults \in Nat

VARIABLES phys,          \* keys and modifiers the user holds on the Mac
          physButtons,   \* buttons the user holds
          focus,         \* the receiver window is active
          lastFlags,     \* lastModifierFlags
          net,           \* packets on their way, next to arrive first
          faults,        \* faults so far
          held,          \* keys and modifiers the uinput device reports as down
          heldButtons,   \* its buttons that are down
          unseen,        \* keys that changed while the monitor was not told
          lost           \* keys whose last packet was lost or overtaken

macVars == <<phys, physButtons, focus, lastFlags>>
uinput == <<held, heldButtons>>
ghosts == <<unseen, lost>>
inputVars == <<macVars, net, faults, uinput, ghosts>>

Left == 1
Right == 2
Buttons == {Left, Right}
Codes == Keys \cup Mods

KeyPacket(k, down) ==
  [type |-> IF down THEN "keydown" ELSE "keyup", key |-> k, x |-> 0, y |-> 0, value |-> 0]
ButtonPacket(x, y, v) == [type |-> "button", key |-> 0, x |-> x, y |-> y, value |-> v]

InputInit ==
  /\ phys = {} /\ physButtons = {} /\ focus = TRUE /\ lastFlags = {}
  /\ net = << >> /\ faults = 0
  /\ held = {} /\ heldButtons = {}
  /\ unseen = {} /\ lost = {}

-----------------------------------------------------------------------------
(* The Mac.                                                                *)

Toggle(S, e) == IF e \in S THEN S \ {e} ELSE S \cup {e}

\* send(): the packets of one event, in order.
Send(ps) ==
  /\ Len(net) + Len(ps) <= MaxInFlight
  /\ net' = net \o ps

\* keyDown or keyUp.
Key(k) ==
  /\ phys' = Toggle(phys, k)
  /\ IF focus THEN Send(<<KeyPacket(k, k \notin phys)>>) ELSE UNCHANGED net
  /\ unseen' = IF focus THEN unseen \ {k} ELSE unseen \cup {k}
  /\ lost' = IF focus THEN lost \ {k} ELSE lost
  /\ UNCHANGED <<physButtons, focus, lastFlags, faults, uinput>>

\* The modifier flags of a flagsChanged event: those held once m has changed.
Flags(m) == Toggle(phys, m) \cap Mods

\* Mutated form of Changed: releases are not noticed.
Pressed(flags) == flags \ lastFlags

\* The modifiers in which the flags differ from the last flags seen.
Changed(flags) == (flags \ lastFlags) \cup (lastFlags \ flags)

\* Their packets, in the order of the table.
ModifierPackets(flags) ==
  LET upto[i \in 0 .. Len(Modifiers)] ==
        IF i = 0 THEN << >>
        ELSE LET m == Modifiers[i]
             IN upto[i - 1] \o IF m \in Changed(flags) THEN <<KeyPacket(m, m \in flags)>>
                                                     ELSE << >>
  IN upto[Len(Modifiers)]

\* flagsChanged: the event carries all the flags, so it also reports what
\* changed unseen.
Modifier(m) ==
  /\ phys' = Toggle(phys, m)
  /\ IF focus
       THEN /\ Send(ModifierPackets(Flags(m)))
            /\ lastFlags' = Flags(m)
            /\ unseen' = unseen \ Mods
            /\ lost' = lost \ Changed(Flags(m))
       ELSE unseen' = unseen \cup {m} /\ UNCHANGED <<net, lastFlags, lost>>
  /\ UNCHANGED <<physButtons, focus, faults, uinput>>

\* A mouse button goes down (value b) or up (value -b), at the pointer.
Button(b, x, y) ==
  /\ focus
  /\ physButtons' = Toggle(physButtons, b)
  /\ Send(<<ButtonPacket(x, y, IF b \in physButtons THEN -b ELSE b)>>)
  /\ UNCHANGED <<phys, focus, lastFlags, faults, uinput, ghosts>>

ChangeFocus ==
  /\ focus' = ~focus
  /\ UNCHANGED <<phys, physButtons, lastFlags, net, faults, uinput, ghosts>>

-----------------------------------------------------------------------------
(* The network.                                                            *)

IsKey(p) == p.type \in {"keydown", "keyup"}
Behind(k) == \E i \in 2 .. Len(net) : IsKey(net[i]) /\ net[i].key = k

Fault == faults < MaxFaults /\ faults' = faults + 1

Lose ==
  /\ Fault /\ net # << >>
  /\ net' = Tail(net)
  /\ lost' = IF IsKey(Head(net)) /\ ~Behind(Head(net).key)
               THEN lost \cup {Head(net).key} ELSE lost
  /\ UNCHANGED <<macVars, uinput, unseen>>

Duplicate ==
  /\ Fault /\ net # << >> /\ Len(net) < MaxInFlight
  /\ net' = <<Head(net)>> \o net
  /\ UNCHANGED <<macVars, uinput, ghosts>>

Overtake ==
  /\ Fault /\ Len(net) >= 2
  /\ net' = <<net[2], net[1]>> \o SubSeq(net, 3, Len(net))
  /\ lost' = IF IsKey(net[1]) /\ IsKey(net[2]) /\ net[1].key = net[2].key
               THEN lost \cup {net[1].key} ELSE lost
  /\ UNCHANGED <<macVars, uinput, unseen>>

-----------------------------------------------------------------------------
(* Ubuntu.                                                                 *)

\* EV_KEY as the kernel's input core takes it: 0 is up, 2 a repeat, the rest
\* down.
KeyEvent(S, code, value) ==
  IF value = 0 THEN S \ {code} ELSE IF value = 2 THEN S ELSE S \cup {code}

\* The button a packet's value names; the default is the left one.
ButtonOf(value) == IF value = Right THEN Right ELSE Left

\* handle_input_event.
HandleEvent(p) ==
  /\ held' = CASE p.type = "keydown" -> KeyEvent(held, p.key, 1)
               [] p.type = "keyup" -> KeyEvent(held, p.key, 0)
               [] OTHER -> held
  /\ heldButtons' = IF p.type = "button"
                      THEN KeyEvent(heldButtons, ButtonOf(p.value), p.y)
                      ELSE heldButtons

Receive ==
  /\ net # << >>
  /\ HandleEvent(Head(net))
  /\ net' = Tail(net)
  /\ UNCHANGED <<macVars, faults, ghosts>>

-----------------------------------------------------------------------------

User ==
  \/ \E k \in Keys : Key(k)
  \/ \E m \in Mods : Modifier(m)
  \/ \E b \in Buttons, x \in Xs, y \in Ys : Button(b, x, y)
  \/ ChangeFocus

InputNext == User \/ Lose \/ Duplicate \/ Overtake \/ Receive

InputSpec == InputInit /\ [][InputNext]_inputVars

-----------------------------------------------------------------------------
(* Properties.                                                             *)

Settled(k) == \A i \in DOMAIN net : IsKey(net[i]) => net[i].key # k

\* A key with no packet under way is down on Ubuntu exactly when it is down
\* on the Mac, unless its own last change went unseen or its own last packet
\* was lost or overtaken: one fault never harms another key, a duplicate
\* harms none, and the next event of the key repairs it.
KeysFollow ==
  \A k \in Codes :
    Settled(k) /\ k \notin unseen \cup lost => (k \in held <=> k \in phys)

\* TESTING.md, step 18: clicks work.  When the user has let go of the
\* buttons and every packet has arrived, no button is down on Ubuntu.
ButtonsReleased ==
  net = << >> /\ physButtons = {} /\ faults = 0 => heldButtons = {}
=============================================================================

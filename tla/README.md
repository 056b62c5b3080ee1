# display-bridge in TLA+

display-bridge shows a virtual Ubuntu display on a Mac: the sender
(`ubuntu/src`) captures frames from PipeWire, encodes them to HEVC with
VA-API and streams them over SRT; the receiver (`mac/Sources`) decodes and
shows them and sends keyboard and mouse events back over UDP. A patched VKMS
kernel driver (`ubuntu/vkms-patched`) provides the virtual display.

This directory holds TLA+ models of that code, TLC configurations that check
them on small instances, and proofs of some of the same properties for every
value of the constants. Paths below are relative to the repository.
`PROJECT.json` maps every definition to the lines it stands for.

## The system

| Part | State it keeps | Operations | What is hard |
|---|---|---|---|
| Frame ring, `main.c:38-154` | eight slots, `head`, `tail`, a mutex and a condition | push (capture thread), pop and flush (main thread) | the popped slot is used by pointer after the unlock; drops when full; lost wake-ups; `malloc` failure |
| Main loop, `main.c:365-457` | bitrate, loss counter, two clocks, all local to a connection | accept, flush, reset, force IDR, send, heartbeat, adapt | a connection can end anywhere; state left over from the last one |
| Streamer, `streamer.c` | listening and client socket, `connected`, `seq` | init, accept, send, heartbeat, is_connected, get_stats | four places that notice a lost connection |
| Encoder, `encoder.c` | `frame_count`, current reconstruction surface, coded buffer | encode, force IDR, set bitrate, release | `frame_count` is shared by two threads without a lock; VA failures half-way through an encode or the initialisation |
| Bitstream writer, `encoder.c:60-485` | a bit cursor | Exp-Golomb codes, NAL headers, emulation prevention | runs of zeros that look like a start code; the receiver parses what is written here |
| Capture, `capture.c` | D-Bus session, PipeWire loop and stream, negotiated format | init over D-Bus, start, stop, frame callback | eight acquisitions that can fail; stream errors |
| Input injection, `input.c` | uinput device, UDP socket, `running` | recv loop, translation of five event kinds | UDP; agreement with the Mac on field meanings |
| Advertisement, `discovery.c` | name, poll, client, entry group | register, rename on collision, reset, stop | callbacks on Avahi's thread, behind the daemon's events; the daemon restarts |
| Start-up and shutdown, `main.c:268-482` | `g_running`, five object pointers, two threads | init, signal handler, cleanup | signals at any moment; stop before start |
| SRT receiver, `SRTReceiver.swift` | target host, socket, failure count, `running` | start, stop, connect with fallback, recv loop | three threads touch it; outages |
| Discovery, `ServiceDiscovery.swift` | browser, connection, `resolved`, timer | browse, resolve, time out, stop | timeout, late results and browser failure race |
| Input forwarding, `InputForwarder.swift` | target host, last modifier flags, monitor | start, stop, forward an event | focus; no retransmission |
| Decoder, `HEVCDecoder.swift` | cached parameter sets, session, `waitingForIDR` | decode a frame, rebuild the session, invalidate | session failures, broken reference chains |
| Controller, `ViewController.swift` | owns the four above | load, appear, start pipeline, shutdown | two delegate calls may start the pipeline twice |
| Renderer, `MetalRenderer.swift` | the latest pixel buffer | display, draw | (nothing stateful) |
| VKMS composer, `vkms_composer.c`, `vkms_crtc.c`, `vkms_writeback.c` | CRTC state, vblank timer, composer work, writeback jobs | commit, vblank, CRC and writeback work | timer, work queue and commits under two spinlocks |
| VKMS configuration, `vkms_config.c` | lists of planes, CRTCs, encoders, connectors; the links between them | create, attach, detach, destroy, is_valid | any caller, any order; pointers between objects |
| VKMS device, `vkms_drv.c`, `vkms_output.c` | the device's resources, its KMS objects and masks | load, unload, output_init | every call may fail; the device points into the configuration |

The capture thread calls the encoder and pushes into the ring; the main thread
pops from the ring, sends through the streamer and, on a new connection,
calls back into the encoder (`force_idr`, `set_bitrate`). The input thread
stands alone. On the Mac, discovery calls the controller on the main queue,
which sets the targets and starts the receive loop; the receive loop calls
the decoder on its own thread.

What makes the parts correct: frames reach the receiver in order, once, and
not stale; the receiver can decode them (references, POCs, IDRs in time); each
end notices the loss of the other and finds it again; keys and buttons on
Ubuntu follow the Mac; the sender can always be stopped, never destroys what is
in use and leaves nothing behind; a display that the driver offers is complete
and dies before its configuration. `PROJECT.json` lists the hazards at their
lines.

## Modules

| Module | Models | Variables and the code's state |
|---|---|---|
| `DropOldestQueue` | the promise of the ring: a bounded FIFO that gives up its oldest frame | abstract |
| `RingBuffer` (`MCRingBuffer`) | the ring and both its users | `head`, `tail`, `data`, `meta` are the struct; `pc`, `held`, `header` the main thread inside `ring_pop` and `db_streamer_send`; `writing` the capture thread inside the copy; `popped`, `backlog`, `sincePop` are history |
| `Encoder` | `encode_surface` against `db_encoder_force_idr` | `frameCount`, `reconIdx` are the struct; `cap`, `idr`, `refSurface`, `loaded` the encode's locals, `picPoc`, `picRef`, `listRef` the POCs it gives to VA and `slicePoc` the one in its packed header; `frc`, `remainder`, `sum` the force's; the rest is history |
| `HevcBitstream` | the bit writer, the parameter sets, the slice header, emulation prevention, the receiver's Annex B parser, and a reader of H.265's syntax for sizes and POCs | none: functions on bit strings and byte strings |
| `Decoder` (`MCDecoder`) | `HEVCDecoder.swift` between the receive thread, VideoToolbox and the main queue, fed with the frames of `HevcBitstream` | `cached`, `format`, `session`, `waiting` are its fields; `dpc`, `frame` the call of `decode`; `pending`, `mainQueue`, `shown` the way of a picture; `quit`, `dead` shutdown; `intact`, `clean`, `denied` are history, `failed` the frames whose callback brought an error |
| `Streamer` | `streamer.c` over an external SRT | `client`, `connected`, `seq` are the struct; `sock` is what SRT knows of every connection |
| `Sender` | the main loop, extending `Streamer` | `mpc` is the place in the loop, `bitrate`, `prevLoss`, `idle` its locals, `encBitrate` the encoder's; the ring is the FIFO that `RingBuffer` is shown to implement |
| `Advertiser` | `discovery.c` with Avahi's poll thread, daemon and network | `name`, `entries`, `published` are the struct's and the group's; `events` what the daemon has sent and the client not called back; `server`, `host`, `rivals` the outside |
| `Lifecycle` | start-up, threads, signals, cleanup, extending `Advertiser` | `running`, `capRun`, `inpRun` are the three flags; `made` the set pointers, `live` the objects not destroyed, `held` every resource any of the five init functions has acquired |
| `InputPath` (`MCInputPath`) | forwarder, UDP and injector for keys, modifiers and buttons | the constant `Modifiers` is the table of `handleModifierFlags`, in its order; `lastFlags` is the forwarder's; `held`, `heldButtons` what the uinput device reports; `net` the packets under way |
| `Receiver` | discovery, controller and receive loop | one variable per field, `mainQueue` for the dispatched delegate calls |
| `Composer` | the VKMS vblank timer, composer work, commits and writeback | `composerState`, `composerEnabled` are `vkms_output`'s; `st` the CRTC state of each commit; `tpc`, `run`, `cpc`, `caller` the places of the timer, the worker, the commits and the calls of `vkms_set_composer`; DRM's queue of jobs, event and vblank references are external; `due` and `lastCrc` are history |
| `VkmsConfig` | `vkms_config.c`: every operation and the validity rules | `configs`, `owner`, `type`, `writeback` are the structs' fields, `links` the xarrays |
| `VkmsDriver` (`MCVkmsDriver`) | load and unload over `VkmsConfig` | `script` what the default configuration still adds; `res` the rungs of `vkms_create`; `inited`, `wb`, `primary`, `possible` the KMS objects of `vkms_output_init` |
| `..._proofs` | the theorems about `RingBuffer`, `Encoder`, `HevcBitstream` with `Decoder`, `Sender`, `Lifecycle`, `Receiver` with `InputPath` (`Mac_proofs`), `Composer`, `VkmsDriver` | none of their own |

How the modules compose: `Sender` extends `Streamer` and takes the ring as the
queue that `RingBuffer` implements; `Lifecycle` extends `Advertiser`, because
Avahi's thread is one of those that shutdown has to end; `Decoder` extends
`HevcBitstream`, so that what `decode` gets is what `encoder.c` wrote, byte for
byte; `Mac_proofs` extends both `Receiver` and `InputPath`, whose specification
is `InputSpec`; `VkmsDriver` extends `VkmsConfig`, so that a device is made of whatever
configuration the operations can build.

How atomic the steps are: one action is what runs under a lock or on a single
thread without touching shared state twice. `ring_push` is two actions, since
the reader of a popped slot does not take the lock. An encode is nine, one per
load or store of `frame_count`, one for a failure and one for the hand-over;
`frame_count += ...` is a load and a store. Streamer operations are one action
each, because the main thread alone calls them. The signal handler is three
actions, and every acquisition of an init is one, since a signal may come
between any two. In `Composer` a section under a spinlock is one action, and so
is each read outside of it. `decode` is three: the parameter sets with the
format description, the session, the submission. Between them callbacks arrive
and `ViewController.shutdown` invalidates the decoder, in two actions, on
another thread without a lock: the data race is approximated by these
interleavings. A configuration has no lock; its operations are one action each.

Two simplifications: the clean-ups of writeback jobs run one after the
other in `Composer`, although the work items of two jobs may overlap
(`vkms_writeback.c:105-122`); and `vkms_config_destroy_crtc` and
`vkms_config_destroy_encoder` are called with the object's own configuration,
as every caller does, although nothing there tests it (`vkms_config.c:456`,
`:535`).

Left out of the modelled parts: `db_encoder_set_bitrate` is a single int store
and part of `Sender`'s steps. `Sender` has no refused heartbeat, as the loop
test has just found the connection up. `Decoder` stops receiving at `stop`,
while a frame received before it goes on through `decode` at any moment of the
shutdown, as nothing behind `srt_recvmsg` looks at `running`. Pointer moves and
scrolling are relative or absolute events without state. `Receiver` leaves out
the branch of `resolveEndpoint` for a host-and-port endpoint, which Bonjour
does not deliver, and socket creation failures. `Lifecycle` does not follow
PipeWire's format negotiation and frame callback, which copy its data.
`Decoder` leaves out the sample timing. `VkmsConfig` keeps lists as sets: their
order shows only in `vkms_config_crtc_get_plane`, where validity leaves one
match; a failed allocation there is a stutter.

## Runs

| Run | Shows | Bounds |
|---|---|---|
| `RingSafety` | queued slots are intact; the held pointer is good for its slack; the ring implements `DropOldestQueue`, so frames are in order and drops leave no hole; no frame is stranded | 4 slots, 8 frames, two oversized: the indices wrap twice, the ring fills, and `malloc` can fail on a full and on a half-full ring, and for any slot at the start |
| `RingHeld` (violated) | with 8 slots the popped slot is overwritten before the next pop, against `main.c:114` | 10 frames fill the ring and push once more |
| `EncoderSafety` | references, POCs of pictures and of their references, distance of encoded IDRs under races and failures | interval 3, 3 surfaces, counts to 10, 2 forces: three IDR periods, every surface reused, a force inside a force's recovery |
| `DecoderSafety` | what the encoder wrote is what parser and decoder read; a complete key frame repairs the picture; pictures come in order; what VideoToolbox took is shown | 4 frames, so that a second session and frames on either side of it occur; 2880x1800, which needs a conformance window, and 1280x704, which does not; POCs 0, 1 and 119; a payload full of start codes |
| `SenderSafety` | sockets, stale frames, order, silence, the bitrate and its losses across connections, and that every caller is served | 2 connections (a first and a reconnection), 4 frames through a queue of 2, one too large, `seq` modulo 2, a heartbeat after 2 timeouts; losses on both sides of the threshold (1 of 2); round trips below and above 20 ms, those above 50 only in the theorems |
| `SenderRamp` (violated) | a healthy connection at 15 Mbps is not ramped up, against `README.md:192` | the real bitrates and percentages; round trips of 10, 30 and 60 ms |
| `LifecycleSafety` | no use after destruction; nothing left behind but what the code forgets on early returns; shutdown ends once the threads run; the service comes to be advertised | 2 signals, one during the other's clean-up; every acquisition of every init can fail; one name held on the host, two on the network, one change of the host's name: local and remote collisions meet a registration under way |
| `ReceiverDefault` | dialling starts, falls back, resumes, and stops cleanly; input and video keep one target until the fallback | sender at the default host; found hosts that are the same, a dead one and a name; 3 tries as in the code; one resolution at a time |
| `InputKeys` | keys and modifiers follow the Mac up to their own faults | one key, two modifiers of the table, 2 packets under way, one fault |
| `InputButtons` (violated) | a released button stays down, against `input.c:168-169` and `TESTING.md:114` | pointer at the edge and away from it |
| `ComposerSafety` | vblank references balance; CRTC states and writeback jobs outlive their users; no frame is forgotten, CRC entries come in order | 2 commits, each with or without a job, 2 vblanks beyond those the commits wait for, the CRC source opened and closed once: the worker falls behind, a state is replaced under it, and all three callers of `vkms_set_composer` overlap |
| `DriverLoad` | no pointer between configuration objects dangles; `vkms_output_init` finds all it follows, every connector gets a CRTC; a device never outlives its configuration | 2 configurations, 3 planes (one of each kind), 2 CRTCs, 1 encoder, 1 connector, one overlay in the default configuration; addresses are symmetric |

Runs that end by exhausting their frames, counts or signals, or by stopping the
program, switch the deadlock check off. The others keep it.

### Other disagreements

Seen in the code while modelling, and not the subject of a run:

- `encoder.h:87`, "Force an IDR frame on the next encode call": the unlocked
  addition at `encoder.c:1042` loses against an encode's increment. `IdrGap`
  says what remains true.
- `TESTING.md:118-119`, "receiver reconnects automatically": not if the sender
  was discovered and the outage is longer than three attempts, since
  `SRTReceiver.swift:280` goes back to the default host for good. `Reconnects`
  is checked for a sender at the default host. A host that is a name is dialled
  for ever, because `connect` fails before `checkFallback`
  (`SRTReceiver.swift:157`); `Reconnects` excludes it.
- `README.md:191-192`, beyond the limit of the ramp: the code reduces by 40% and
  not 20%, above 5 lost packets and not 10, and ramps by 15% and not 10%
  (`main.c:435-443`).
- `encoder.c:18-19`, "per the H.265 spec": the P slice header leaves out
  `five_minus_max_num_merge_cand` (the VA parameters say 5 candidates,
  `encoder.c:750`), and slice headers leave out the flag for loop filtering
  across slices that the comment at `encoder.c:469-474` discusses. Level 4.0
  (`level_idc` 120) is too low for 2880x1800. The reader in `HevcBitstream`
  stops at the POC, before these fields.
- `vkms_drv.h:174` (composer enabled while a CRC is needed or a writeback is
  pending): the clean-up of a writeback job switches the composer off under an
  open CRC source (`vkms_writeback.c:120`).
- `input.c:185` reads a horizontal scroll from `x`, where the forwarder puts
  the pointer (`InputForwarder.swift:199`).

Further, without a document that speaks of it: an encode without output leaves
the coded buffer mapped (`main.c:232`); a signal after the clean-up stops freed
objects (`main.c:275`); a signal before a thread has entered its loop is undone
by the thread's start (`input.c:285`), and `main` joins it for ever
(`StartedThreadsStop` excludes this case); a stream error ends the capture
thread only, and the sender goes on without frames (`capture.c:385`); `main`
joins `cap_tid` even if the thread was never created (`main.c:352`); a failed
initialisation returns without `ring_destroy` and leaves eight buffers of 4 MB
(`main.c:309`, `:319`, `:329`), a failed `vaInitialize` its VADisplay
(`encoder.c:1081-1088`), and a failed negotiation its reference to the session
bus with the stream or recording it had asked Mutter for (`capture.c:503`), all
until the process exits, and no more than that (`NothingElseLeft`); the
service's client is not renewed when the daemon restarts (`discovery.c:176`,
excluded by `Advertised`), and `d->name` may differ from the advertised name
after a late collision; a session refused once for the parameter sets now
cached is not tried again (`HEVCDecoder.swift:81`, excluded by
`KeyFrameRepairs`); a writeback request between the worker's two reads
completes a job that was not written (`vkms_composer.c:497`); a compose that
fails for want of memory gives up its frames without a CRC
(`vkms_composer.c:542`, allowed by `NoFrameForgotten`); input monitoring starts
before its target is set (`ViewController.swift:83`).

## Fairness

- `RingBuffer`: the main loop calls `ring_pop` again and again and uses what it
  gets; a push that has begun ends. No fairness on the producer, on the
  timeout, or on spurious wake-ups: `FrameLeaves` shows that the signal alone
  suffices.
- `Sender`: the main thread is scheduled, and SRT's idle timeout turns a socket
  whose peer has gone into a broken one. The receiver need not do anything.
  `db_streamer_accept` may fail at each of its three error returns with a
  receiver waiting; nothing in the code bounds that, so `Redial` asks for
  nothing where it goes on for ever.
- `Lifecycle`: every thread is scheduled, Avahi's poll thread included; a
  daemon that is registering its host finishes, and probing a name on the
  network ends. Signals, stream errors, socket errors, collisions and changes
  of the host's name may never come, and the daemon need not return. `recv` has
  a one-second timeout (`input.c:229-233`), so the input thread reads its flag
  again.
- `Receiver`: the timer fires, the main queue and the receive thread run.
  Neither network nor Bonjour nor the user is fair.
- `Decoder`: VideoToolbox calls back for the frames it has taken, and the main
  queue runs. Neither the link nor `decode` is fair.
- `Encoder`, `InputPath`, `Composer`, `VkmsDriver` state no liveness.

## Proofs

Each theorem holds for every value of the constants that satisfies the
module's `ASSUME`s; nothing else is assumed. `PROJECT.json` lists the theorems
with the properties they state. None of the properties is inductive alone; what
follows says what the inductive invariants add.

`RingBuffer_proofs`: `TypeOK`, `QueuedIntact`, `HeldWithinSlack`, that `Spec`
implements `DropOldestQueue`, and, on the way, that frames wait in order
(`RingOrder`) and without holes (`RingNoHole`).

1. `TypeInv`: the types, and that a held slot goes with `popped` and `sending`.
2. `IntactInv` adds `RoomToWrite` (a copy under way has room behind it, so the
   slot being written is outside the window) and states payload and header of
   the queued slots: a pop or a drop shrinks the window, a commit adds exactly
   the slot just written.
3. `OrderInv` adds that queued frames are younger than `popped`, ordered, and
   without gaps but for failed mallocs; a commit appends `next`, which is above
   all of them.
4. `HeldInv` counts the slots the head has moved since the pop: at most the
   pushes begun, plus the backlog. As long as that is less than the ring, the
   head has not come round to the held slot.
5. Refinement: `QueueFact` gives `Queue'` for a move of either index; every
   action is then an `Accept`, `Lose`, `DropOldest`, `Take`, `Discard` or a
   stutter of the queue.

`Encoder_proofs`: `TypeOK`, `ReferenceIsLatest`, `PocChain`, `IdrGap`.
`ReferenceInv` says that the latest picture is in the surface before the
current one whenever a P frame can begin, also after a failed encode, which may
only spoil the surface that is written next. `PocInv` ties every local of the
encode to `Poc(frameCount)`, and those about the reference to the POC encoded
last, as long as no force has come since the last IDR began, and says that a
force under way is counted. `IdrInv` is a budget: the P frames since the last
IDR encoded, those to the next (`Togo`), and what the forces under way may
still add (`Reserve`) never exceed one interval for each force and one more
(`GapInv`); an increment moves one frame from the second part to the first, and
a lost update is paid for by the force. An IDR under way has a budget of its
own (`KeyInv`), which counts the forces since it began and becomes the last
IDR's once it is encoded; one that fails is begun again, with the old budget
unspent.

`Sender_proofs`: all properties of `SenderSafety` but `Redial`. `SocketInv`:
the flag goes with the client, and every socket but the client is closed, for
any operation of the streamer, whoever calls it. `RateInv`: in which places of
the loop the encoder has been told, and that the losses since the last poll are
what the total has over `prevLoss`. `OrderInv`: the queue is increasing, above
the last frame this connection has sent and above the flush mark. `ClockInv`:
the silence of the connection is no longer than the loop's own count of idle
timeouts.

`Lifecycle_proofs`: `NothingElseLeft` and `DestroyedAfterUse`. `MadeInv`: which
of the needed objects exist while the next is made. `HeldInv`: an init under
way holds a prefix of its steps, and besides only what live objects own, each
of which has an earlier rank, and an exited program at most what its last
failure forgot; the tables of steps, labels and releases are evaluated once, in
lemmas. `ThreadInv`: a thread that uses an object runs only between its
creation and its join, and the object is live there. `PollInv`: Avahi's thread
runs only while its client is held.

`Composer_proofs`: `TypeOK`, `RefsBalanced`, `NoUseAfterFree`,
`NoFrameForgotten` and `CrcInOrder`. For the balance, a call holds a reference
from the moment it takes one until the swap hands it to the flag, or from a
swap that replaces one until the put. `NoUseAfterFree`, `NoFrameForgotten` and
`CrcInOrder` rest on a chain: `Typed`; `OrderInv` (commits pass their places in
order, and the timer holds the state of the current commit or of the one
before); `WorkInv` (the states in the worker, the queue and the timer's hand
grow in this order, and a freed one is in none of them); `JobInv` (a job is in
DRM's queue, being cleaned up or freed, and a state that is to write one still
has it in the queue); `FrameInv` (the frame ranges of the states and of the
worker are disjoint and increase with the commits, every due frame is in one of
them, and every range is to be taken). `TypeOK` bounds what those leave open
(`BoundInv`): no state is queued twice, so the queue is no longer than there
are commits; and the vblank count passes `MaxFrames` only for a vblank that a
commit waits for, one for each.

`VkmsDriver_proofs`: `TypeOK`, `NoDangling`, `DeviceWithinConfig` and
`OutputComplete`. `ConfigInv`: links join objects of one configuration, which
exists. `DeviceInv`: in which places of the load a configuration is held and
what is acquired, and that the objects initialised are the configuration's.
`OutputInv`: in each stage of `vkms_output_init`, which kinds are initialised,
that the rules `vkms_config_is_valid` has checked still hold, and that the
masks are the links of what is initialised.

`Decoder_proofs`, the bytes (`HevcBitstream`):

- `EscapeRoundTrip`: `Unescape(Escape(bytes)) = bytes` for every byte string.
  `Escape` is followed byte by byte: what it has written is `Clean` (after two
  zeros comes a byte above 2), it knows how many zeros it ends with, and a
  reader that has come as far has the same bytes and the same zeros, or has
  just passed an inserted byte.
- `ParserFindsUnits`: `parseAnnexB` finds exactly the units that were joined,
  whatever the list, if none is empty and each is `Clean`. The units have their
  places in the stream (`AnnexBLayout`); a start code begins at each of these
  places, and nowhere else, the end of a unit in zeros included (`CodesAre`).
- `SizeReadsBack`: from the sequence parameter set a decoder reads the picture
  size, with and without a conformance window; `PocReadsBack`: from a P slice
  its order count. Both go field by field: `ReadU` and `ReadUe` say that a
  reader placed at the start of a field or an Exp-Golomb code reads its value
  and stands behind it; bytes and bits are inverse (`ToBytesAre`, `BodyBitsBegin`).
- `FramesAreReadBack` (`BytesReadBack`) puts them together for the frames of
  `Decoder`: `WrittenIs` shows that every unit of a frame is one the parser
  finds, `SetsInIs` that the sets it takes are the frame's.

The assumptions on the constants are used here. `Sides` are the even numbers up
to 8192, the driver's largest mode (`vkms_drv.h:23-24`); a 4:2:0 picture has
even sides, and the conformance window counts in pairs (`encoder.c:290`), so an
odd one would be read back one larger. `MaxPoc` fits the 12 bits of the order
count, which is below the interval of twice the frame rate (`encoder.c:434`,
`:1065`): 120 at 60 frames a second.
The frame rate is any number, the payload any byte string.

`Decoder_proofs`, the decoder: `PicturesInOrder`. `OrderInv`: numbers grow from
the picture shown over the main queue and VideoToolbox to the frame arriving.
`SessionInv`: VideoToolbox decodes for one session at a time, since a session
is drained before another is made, so that its callbacks come in order.

`KeyFrameRepairs` follows from `RepairInv`, which speaks of every place in
`decode` and not of the submission alone. `KeptInv`: the format is that of the
parameter sets cached, and unless a session was refused for them, the session
there is was made for it. `CleanInv`, since a complete key frame: the sets
cached are those of a frame of the sender's size, the decoder does not wait,
and the session has the picture the next frame predicts from. It says nothing
once the decoder is being torn down. That a frame's sets lead back to its size
is `ReadIs`, so this theorem rests on the bytes as well.

`Mac_proofs`: `ClosedAtExit` and `TargetsAgree`, together inductive; and
`KeysFollow`. `InputInv`: for every key that has not lost its last packet, the
packets under way lead to what the Mac has noticed (`Leads`: the last packet
about it says so, or none is under way and uinput has it so), and what it
noticed of a modifier is true unless a change went unseen. A packet lost,
doubled or overtaken disturbs only the key it is about. `ModifierPacketsSay`
gives what the table of `handleModifierFlags` sends for any two sets of flags:
one packet for each modifier that differs, in the table's order.

Recursive functions (`Shift`, `Escape`, `parseAnnexB`, the modifiers' packets)
are unfolded by hand: a set of natural numbers that holds 0 and the successor
of each of its members is `Nat` (`SetInduction`, from the well-foundedness of
`Nat`), so that the function exists (`RunExists`), and `CHOOSE` yields it. That
is why these definitions are functions on intervals, and why
`Decoder` builds its tables with `Table`, which is the identity.

Model-checked only: liveness (`FrameLeaves`, `Redial`, `StartedThreadsStop`,
`Advertised`, `PipelineStarts`, `Reconnects`, `TakenIsShown`), as the prover
does no fairness or ENABLED. Every invariant and every action property that a
run checks is also a theorem.

## Not modelled

- `vkms_formats.c`, the composer's pixels and the gamma table, `encoder.c`'s
  colour conversion and DMA-BUF import: arithmetic on pixels without control.
- The contents of the VA parameter buffers and the rate control buffers: fields
  copied from the configuration, read by the GPU only.
- `capture.c`'s format negotiation and frame callback: they copy what PipeWire
  offers; the callback's call of the encoder is `Encoder`, its push `RingBuffer`.
- VKMS plane states: their framebuffer references are counted by DRM's helpers,
  which are not in the repository. Switching a CRTC off: what it waits for is
  DRM's too.
- `MetalRenderer.swift`: one assignment and GPU calls.
- The byte layout of control packets: both ends use the same packed structs.
- `tools/`, `scripts/`, `gen_edid.py`: one-shot, sequential I/O.
- `tests/`: hardware smoke tests, read for what they expect.

What would come next: the encoder's cadence, the ring's drops and the decoder in
one module, where `KeyFrameRepairs` and `IdrGap` would give a bound on how long
a broken picture lasts (each is checked against an unconstrained neighbour
now); switching the CRTC off in `Composer`.

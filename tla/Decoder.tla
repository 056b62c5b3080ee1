------------------------------ MODULE Decoder ------------------------------
(***************************************************************************)
(* HEVCDecoder.swift between the recv thread, which calls decode, the      *)
(* callbacks of VideoToolbox, and the main queue, which shows the pictures *)
(* and at the end invalidates the decoder.  Frames come from encoder.c,    *)
(* byte by byte (HevcBitstream), over a link that may lose them.           *)
(*                                                                         *)
(* VideoToolbox is external: any call may be refused, a session calls back *)
(* in decoding order, and a picture is right if the session made for the   *)
(* frame's parameter sets has just decoded the picture it predicts from.   *)
(***************************************************************************)
EXTENDS HevcBitstream, SequencesExt

CONSTANTS Sizes,        \* the picture sizes senders run with
          Fps,          \* their frame rate
          MaxPoc,       \* the last POC before an IDR
          Payload,      \* the slice data of a frame, unescaped
          MaxFrames     \* bound on the frames received

\* NV12 pictures have even sides; the driver's modes end at XRES_MAX.
Sides == {n \in 2 .. 8192 : n % 2 = 0}

ASSUME DecoderAssumption ==
  /\ MaxFrames \in Nat /\ Fps \in Nat
  /\ MaxPoc \in Nat \ {0} /\ Shift(MaxPoc, PocBits) = 0
  /\ Payload \in Seq(0 .. 255)
  /\ Sizes # {}
  /\ \A size \in Sizes : size \in Sides \X Sides

VARIABLES dpc,          \* the recv thread's place in decode
          frame,        \* the frame it decodes
          number,       \* its number, in the order of arrival
          sender,       \* the picture size of the frame sent last
          cached,       \* lastVPS, lastSPS, lastPPS
          format,       \* the parameter sets of formatDescription
          session,      \* the number of the VTDecompressionSession, or NoSession
          sessionOf,    \* the parameter sets it was created with
          waiting,      \* waitingForIDR
          pending,      \* frames VideoToolbox is decoding: session and number
          mainQueue,    \* pictures dispatched to the main queue
          shown,        \* the picture shown last
          failed,       \* the frames VideoToolbox failed to decode
          quit,         \* how far shutdown has come
          dead,         \* the session shutdown has invalidated
          intact,       \* the session has decoded what the next frame predicts from
          clean,        \* since the last complete key frame nothing was lost or refused
          denied        \* a session was refused for the parameter sets cached

decVars == <<cached, format, session, sessionOf, waiting>>
outVars == <<pending, mainQueue, shown, failed>>
quitVars == <<quit, dead>>
ghosts == <<intact, clean, denied>>
vars == <<dpc, frame, number, sender, decVars, outVars, quitVars, ghosts>>

None == << >>
NoSession == 0

-----------------------------------------------------------------------------
(* The frames.                                                             *)

\* A key frame whose packed sequence headers were refused has none: the
\* encoder only logs it.
KeyFrames == [key : {TRUE}, size : Sizes, sets : BOOLEAN, poc : {0}]
DeltaFrames == [key : {FALSE}, size : Sizes, sets : {FALSE}, poc : {1, MaxPoc}]
Frames == KeyFrames \cup DeltaFrames

\* The same function; the comparison makes TLC keep its values.
Table(f) == CHOOSE g \in {f} : g = f

Written == Table([f \in Frames |->
  (IF f.sets THEN ParameterSets(f.size[1], f.size[2], Fps) ELSE << >>)
  \o <<Slice(f.key, f.poc, Payload)>>])

Parsed == Table([f \in Frames |-> ParseAnnexB(AnnexB(Written[f]))])

OfType(nalus, t) == {i \in DOMAIN nalus : NaluType(nalus[i]) = t}

First(nalus, t) ==
  nalus[CHOOSE i \in OfType(nalus, t) : \A j \in OfType(nalus, t) : i <= j]

\* The first NAL unit of each kind, if there is one of each.
SetsIn == Table([f \in Frames |->
  IF \E t \in {VpsType, SpsType, PpsType} : OfType(Parsed[f], t) = {} THEN None
  ELSE <<First(Parsed[f], VpsType), First(Parsed[f], SpsType), First(Parsed[f], PpsType)>>])

HasSlices == Table([f \in Frames |->
  \E i \in DOMAIN Parsed[f] : NaluType(Parsed[f][i]) <= 31])

\* What an H.265 decoder reads in each sequence parameter set, and in the slice
\* header of a frame that has only a slice.
SpsSize == Table([f \in {g \in Frames : g.sets} |-> SizeInSps(SetsIn[f][2])])
SlicePoc == Table([f \in DeltaFrames |-> PocInSlice(Parsed[f][1])])

-----------------------------------------------------------------------------

Init ==
  /\ dpc = "idle" /\ frame \in Frames /\ number = 0 /\ sender = frame.size
  /\ cached = None /\ format = None /\ session = NoSession /\ sessionOf = None
  /\ waiting = TRUE
  /\ pending = << >> /\ mainQueue = << >> /\ shown = 0 /\ failed = {}
  /\ quit = "no" /\ dead = NoSession
  /\ intact = FALSE /\ clean = FALSE /\ denied = FALSE

(* The link.                                                               *)

\* srt_recvmsg returns a frame, for decode; a new size comes with a key frame.
\* Once it has, shutdown does not stop it: what follows may come at any time.
Receive(f) ==
  /\ dpc = "idle" /\ dpc' = "parse" /\ quit = "no" /\ number < MaxFrames
  /\ f.key \/ f.size = sender
  /\ frame' = f /\ sender' = f.size /\ number' = number + 1
  /\ UNCHANGED <<decVars, outVars, quitVars, ghosts>>

\* A frame is dropped by the ring, refused by SRT or sent to nobody.
Lose(f) ==
  /\ dpc = "idle" /\ quit = "no" /\ number < MaxFrames
  /\ f.key \/ f.size = sender
  /\ sender' = f.size
  /\ intact' = FALSE /\ clean' = FALSE
  /\ UNCHANGED <<dpc, frame, number, decVars, outVars, quitVars, denied>>

-----------------------------------------------------------------------------
(* decode, on the recv thread.                                             *)

\* Mutated form of Changed: only the picture parameter set is compared.
ChangedPps(sets) == cached # None => sets[3] # cached[3]

Changed(sets) == sets # cached

\* A key frame without parameter sets is dropped.
KeyIncomplete(f) ==
  /\ Parsed[f] = << >> \/ SetsIn[f] = None
  /\ dpc' = "idle"
  /\ intact' = FALSE /\ clean' = FALSE
  /\ UNCHANGED <<decVars, denied>>

KeyKnown(f) ==
  /\ SetsIn[f] # None /\ ~Changed(SetsIn[f])
  /\ waiting' = FALSE
  /\ dpc' = "submit"
  /\ clean' = TRUE
  /\ UNCHANGED <<cached, format, session, sessionOf, intact, denied>>

\* updateFormatDescription, which may be refused.
KeyNew(f) ==
  /\ SetsIn[f] # None /\ Changed(SetsIn[f])
  /\ \/ /\ format' = SetsIn[f] /\ cached' = SetsIn[f]
        /\ dpc' = "create"
        /\ clean' = TRUE /\ denied' = FALSE
        /\ UNCHANGED waiting
     \/ /\ waiting' = FALSE
        /\ dpc' = "submit"
        /\ clean' = FALSE
        /\ UNCHANGED <<format, cached, denied>>
  /\ UNCHANGED <<session, sessionOf, intact>>

Delta(f) ==
  /\ dpc' = IF Parsed[f] = << >> THEN "idle" ELSE "submit"
  /\ intact' = (intact /\ Parsed[f] # << >>)
  /\ UNCHANGED <<decVars, clean, denied>>

Parse ==
  /\ dpc = "parse"
  /\ IF frame.key THEN KeyIncomplete(frame) \/ KeyKnown(frame) \/ KeyNew(frame)
                  ELSE Delta(frame)
  /\ UNCHANGED <<frame, number, sender, outVars, quitVars>>

\* Mutated form of Drain: invalidating a session gives up its frames.
DrainDropping == pending' = << >> /\ UNCHANGED mainQueue

\* WaitForAsynchronousFrames: what is pending calls back before it returns.
Drain ==
  /\ pending' = << >>
  /\ mainQueue' = mainQueue \o [i \in DOMAIN pending |-> pending[i].number]

\* Mutated form of TearDown: the old session is not waited for.
TearDownAtOnce == UNCHANGED <<pending, mainQueue>>

TearDown == IF session = NoSession THEN UNCHANGED <<pending, mainQueue>> ELSE Drain

\* createDecompressionSession; invalidate may have taken the format.
Create ==
  /\ dpc = "create" /\ dpc' = "submit"
  /\ TearDown
  /\ \/ /\ format # None
        /\ session' = number /\ sessionOf' = format
        /\ UNCHANGED <<clean, denied>>
     \/ /\ session' = NoSession /\ sessionOf' = None
        /\ clean' = FALSE /\ denied' = TRUE
  /\ intact' = FALSE
  /\ waiting' = FALSE
  /\ UNCHANGED <<frame, number, sender, cached, format, shown, failed, quitVars>>

Ready == ~waiting /\ session \notin {NoSession, dead} /\ format # None /\ HasSlices[frame]

\* VTDecompressionSessionDecodeFrame takes the frame's slices.
Submit ==
  /\ dpc = "submit" /\ dpc' = "idle" /\ Ready
  /\ pending' = Append(pending, [session |-> session, number |-> number])
  /\ intact' = (frame.key \/ intact)
  /\ UNCHANGED <<frame, number, sender, decVars, mainQueue, shown, failed, quitVars, clean, denied>>

\* The decoder is not ready, or a buffer or the frame is refused.
SubmitFails ==
  /\ dpc = "submit" /\ dpc' = "idle"
  /\ intact' = FALSE
  /\ clean' = (clean /\ ~Ready)
  /\ UNCHANGED <<frame, number, sender, decVars, outVars, quitVars, denied>>

-----------------------------------------------------------------------------
(* VideoToolbox and the main queue.                                        *)

\* A session calls back for its first frame; the callback dispatches.
Callback(i) ==
  /\ i \in DOMAIN pending
  /\ \A j \in 1 .. i - 1 : pending[j].session # pending[i].session
  /\ mainQueue' = Append(mainQueue, pending[i].number)
  /\ pending' = RemoveAt(pending, i)
  /\ UNCHANGED <<dpc, frame, number, sender, decVars, shown, failed, quitVars, ghosts>>

\* The callback reports an error: no picture, and the next ones lack theirs.
CallbackFails(i) ==
  /\ i \in DOMAIN pending
  /\ \A j \in 1 .. i - 1 : pending[j].session # pending[i].session
  /\ failed' = failed \cup {pending[i].number}
  /\ pending' = RemoveAt(pending, i)
  /\ intact' = FALSE /\ clean' = FALSE
  /\ UNCHANGED <<dpc, frame, number, sender, decVars, mainQueue, shown, quitVars, denied>>

DidOutput ==
  /\ mainQueue # << >> /\ quit # "done"
  /\ shown' = Head(mainQueue) /\ mainQueue' = Tail(mainQueue)
  /\ UNCHANGED <<dpc, frame, number, sender, decVars, pending, failed, quitVars, ghosts>>

\* ViewController.shutdown stops the receiver without waiting for its thread,
\* and invalidates the decoder: first the session, then the fields.
StopReceiver ==
  /\ quit = "no" /\ quit' = "stopped"
  /\ UNCHANGED <<dead, dpc, frame, number, sender, decVars, outVars, ghosts>>

InvalidateSession ==
  /\ quit = "stopped" /\ quit' = "invalid"
  /\ TearDown /\ dead' = session
  /\ UNCHANGED <<dpc, frame, number, sender, decVars, shown, failed, ghosts>>

InvalidateFields ==
  /\ quit = "invalid" /\ quit' = "done"
  /\ session' = NoSession /\ sessionOf' = None /\ format' = None
  /\ waiting' = TRUE
  /\ UNCHANGED <<dpc, frame, number, sender, cached, outVars, dead, ghosts>>

-----------------------------------------------------------------------------

Decode == Parse \/ Create \/ Submit \/ SubmitFails
Output == (\E i \in 1 .. MaxFrames : Callback(i) \/ CallbackFails(i)) \/ DidOutput
ShutDown == StopReceiver \/ InvalidateSession \/ InvalidateFields

Next ==
  \/ \E f \in Frames : Receive(f) \/ Lose(f)
  \/ Decode \/ Output \/ ShutDown

Spec == Init /\ [][Next]_vars

\* VideoToolbox calls back and the main queue runs.
FairSpec == Spec /\ WF_vars(Output)

-----------------------------------------------------------------------------
(* Properties.                                                             *)

\* What the encoder wrote is what the parser finds, whatever zeros the sizes,
\* the frame rate, the POC and the payload bring: no start code is emulated
\* inside a NAL unit, none is missed, and a decoder reads the size and the POC
\* the encoder meant.
BytesReadBack ==
  dpc # "idle" =>
    /\ Parsed[frame] = Written[frame]
    /\ frame.sets => SpsSize[frame] = frame.size
    /\ ~frame.key => SlicePoc[frame] = frame.poc

\* A complete key frame repairs the picture: from there on, until a frame is
\* lost or a call refused, every frame meets a session of its own parameter
\* sets that holds the picture it predicts from.  Unless a session was refused
\* for these very sets: they are cached, and a session is not tried again.
KeyFrameRepairs ==
  clean /\ ~denied /\ dpc = "submit" /\ quit \in {"no", "stopped"} =>
    /\ Ready
    /\ sessionOf = format
    /\ \E f \in DOMAIN SpsSize : sessionOf = SetsIn[f] /\ SpsSize[f] = sender
    /\ frame.key \/ intact

\* Pictures are shown in the order their frames came, across the change of
\* session that new parameter sets bring.
PicturesInOrder == [][shown' # shown => shown' > shown]_vars

\* A frame VideoToolbox has taken is shown, even if its session is torn down
\* meanwhile.
TakenIsShown ==
  \A n \in 1 .. MaxFrames :
    (\E i \in DOMAIN pending : pending[i].number = n) 
      ~> (shown >= n \/ n \in failed \/ quit # "no")
=============================================================================

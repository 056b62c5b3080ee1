------------------------------ MODULE Encoder ------------------------------
(***************************************************************************)
(* ubuntu/src/encoder.c with its two callers in main.c: the capture thread *)
(* encodes (on_frame_captured, encode_surface) while the main thread may   *)
(* force an IDR.  Both update enc->frame_count without a lock: every load  *)
(* and store of it that matters is a step of its own.                      *)
(*                                                                         *)
(* The VA calls and the GPU are external; what they contribute is whether  *)
(* they fail, and which reconstruction surface the GPU has written.        *)
(***************************************************************************)
EXTENDS Integers

CONSTANTS IdrInterval,     \* enc->idr_interval
          SurfacePool,     \* DB_ENCODER_SURFACE_POOL
          MaxCount,        \* bound on frame_count
          MaxForces        \* bound on the forces since the last IDR encoded

ASSUME EncoderAssumption ==
  /\ IdrInterval \in Nat /\ IdrInterval >= 2
  /\ SurfacePool \in Nat /\ SurfacePool >= 2
  /\ MaxCount \in Nat
  /\ MaxForces \in Nat

VARIABLES frameCount,      \* enc->frame_count
          reconIdx,        \* enc->current_recon_idx
          cap,             \* the capture thread's place in encode_surface
          idr,             \* its local is_idr
          refSurface,      \* its local ref_surface, NoSurface for an IDR
          picPoc, picRef,  \* POCs of the picture and of its reference, as
                           \* written to the VA picture parameters
          slicePoc,        \* POC written to the packed slice header
          listRef,         \* POC of the reference in the VA slice parameters
          loaded,          \* frame_count as its frame_count++ loaded it
          frc,             \* the main thread's place in db_encoder_force_idr
          remainder,       \* its local remainder
          sum,             \* frame_count as its += loaded it
          latest,          \* the surface with the last encoded frame's picture
          lastPoc,         \* POC of the last encoded frame
          sinceIdr,        \* P frames encoded since the last IDR was
          forces,          \* forces that moved, or will move, frame_count
                           \* since that IDR began
          recent           \* those since the last one began, encoded or not

encVars == <<frameCount, reconIdx>>
capVars == <<cap, idr, refSurface, picPoc, picRef, slicePoc, listRef, loaded>>
frcVars == <<frc, remainder, sum>>
ghosts == <<latest, lastPoc, sinceIdr, forces, recent>>
vars == <<encVars, capVars, frcVars, ghosts>>

Surfaces == 0 .. SurfacePool - 1
NoSurface == -1
Pocs == 0 .. IdrInterval - 1

\* The places of an encode that may still fail.
Encoding == {"begun", "pic", "ref", "slice", "full"}

TypeOK ==
  /\ frameCount \in Nat
  /\ reconIdx \in Surfaces
  /\ cap \in Encoding \cup {"idle", "count", "done"}
  /\ idr \in BOOLEAN
  /\ refSurface \in Surfaces \cup {NoSurface}
  /\ picPoc \in Pocs /\ picRef \in Pocs
  /\ slicePoc \in Pocs /\ listRef \in Pocs
  /\ loaded \in Nat
  /\ frc \in {"idle", "load", "store"}
  /\ remainder \in Pocs
  /\ sum \in Nat
  /\ latest \in Surfaces \cup {NoSurface}
  /\ lastPoc \in Pocs
  /\ sinceIdr \in Nat /\ forces \in Nat /\ recent \in Nat

\* Mutated form of Poc: the count is never taken modulo the interval.
PocUnwrapped(n) == n

Poc(n) == n % IdrInterval

\* db_encoder_init.
Init ==
  /\ frameCount = 0 /\ reconIdx = 0
  /\ cap = "idle" /\ idr = FALSE /\ refSurface = NoSurface
  /\ picPoc = 0 /\ picRef = 0 /\ slicePoc = 0 /\ listRef = 0 /\ loaded = 0
  /\ frc = "idle" /\ remainder = 0 /\ sum = 0
  /\ latest = NoSurface /\ lastPoc = 0 /\ sinceIdr = 0
  /\ forces = 0 /\ recent = 0

-----------------------------------------------------------------------------
(* Capture thread.                                                         *)

\* Mutated form of PrevRecon: the wrap below surface 0 forgotten.
PrevReconUnwrapped == reconIdx - 1

\* The surface before the current one in the pool: the previous picture.
PrevRecon == (reconIdx + SurfacePool - 1) % SurfacePool

\* The frame type and the surfaces are decided first, from one load.
Begin ==
  /\ cap = "idle" /\ frameCount < MaxCount
  /\ cap' = "begun"
  /\ idr' = (Poc(frameCount) = 0)
  /\ refSurface' = IF Poc(frameCount) = 0 THEN NoSurface ELSE PrevRecon
  /\ recent' = IF Poc(frameCount) # 0 THEN recent ELSE IF frc = "idle" THEN 0 ELSE 1
  /\ UNCHANGED <<encVars, picPoc, picRef, slicePoc, listRef, loaded, frcVars, latest, lastPoc,
                 sinceIdr, forces>>

\* fill_pic_param loads frame_count again, and once more for the reference.
FillPic ==
  /\ cap = "begun"
  /\ cap' = "pic"
  /\ picPoc' = Poc(frameCount)
  /\ UNCHANGED <<encVars, idr, refSurface, picRef, slicePoc, listRef, loaded, frcVars, ghosts>>

FillRef ==
  /\ cap = "pic"
  /\ cap' = "ref"
  /\ picRef' = IF idr THEN picRef ELSE Poc(frameCount - 1)
  /\ UNCHANGED <<encVars, idr, refSurface, picPoc, slicePoc, listRef, loaded, frcVars, ghosts>>

\* write_slice_header loads it once more for a P slice; an IDR slice has no
\* POC and means 0.
WriteSlice ==
  /\ cap = "ref"
  /\ cap' = "slice"
  /\ slicePoc' = IF idr THEN 0 ELSE Poc(frameCount)
  /\ UNCHANGED <<encVars, idr, refSurface, picPoc, picRef, listRef, loaded, frcVars, ghosts>>

\* So does fill_slice_param, for the reference list.
FillSlice ==
  /\ cap = "slice"
  /\ cap' = "full"
  /\ listRef' = IF idr THEN listRef ELSE Poc(frameCount - 1)
  /\ UNCHANGED <<encVars, idr, refSurface, picPoc, picRef, slicePoc, loaded, frcVars, ghosts>>

\* Mutated form of Fail: frame_count advances on the failure path too.
FailCounts ==
  /\ cap \in Encoding
  /\ cap' = "idle"
  /\ frameCount' = frameCount + 1
  /\ UNCHANGED <<reconIdx, idr, refSurface, picPoc, picRef, slicePoc, listRef, loaded,
                 frcVars, ghosts>>

\* A VA call fails: nothing advances, but every failure label past the first
\* ends the picture, so the GPU may have spoilt the surface it was writing.
Fail ==
  /\ cap \in Encoding
  /\ cap' = "idle"
  /\ latest' \in {latest} \cup (IF latest = reconIdx THEN {NoSurface} ELSE {})
  /\ UNCHANGED <<encVars, idr, refSurface, picPoc, picRef, slicePoc, listRef, loaded,
                 frcVars, lastPoc, sinceIdr, forces, recent>>

\* The GPU is done, the bitstream is there, the surface advances, and
\* frame_count++ has loaded the count.
Complete ==
  /\ cap = "full"
  /\ cap' = "count"
  /\ latest' = reconIdx
  /\ reconIdx' = (reconIdx + 1) % SurfacePool
  /\ loaded' = frameCount
  /\ UNCHANGED <<frameCount, idr, refSurface, picPoc, picRef, slicePoc, listRef, frcVars,
                 lastPoc, sinceIdr, forces, recent>>

\* frame_count++ stores it.
Count ==
  /\ cap = "count"
  /\ cap' = "done"
  /\ frameCount' = loaded + 1
  /\ lastPoc' = slicePoc
  /\ sinceIdr' = IF idr THEN 0 ELSE sinceIdr + 1
  /\ forces' = IF idr THEN recent ELSE forces
  /\ UNCHANGED <<reconIdx, idr, refSurface, picPoc, picRef, slicePoc, listRef, loaded,
                 frcVars, latest, recent>>

\* on_frame_captured pushes the frame and releases the coded buffer, or it
\* returns early because the encode gave nothing.
HandOver ==
  /\ cap = "done"
  /\ cap' = "idle"
  /\ UNCHANGED <<encVars, idr, refSurface, picPoc, picRef, slicePoc, listRef, loaded,
                 frcVars, ghosts>>

-----------------------------------------------------------------------------
(* Main thread: db_encoder_force_idr.                                      *)

\* remainder is computed; on a multiple of idr_interval there is nothing to do.
ForceRead ==
  /\ frc = "idle" /\ forces < MaxForces /\ frameCount < MaxCount
  /\ remainder' = Poc(frameCount)
  /\ IF Poc(frameCount) = 0
       THEN UNCHANGED <<frc, forces, recent>>
       ELSE frc' = "load" /\ forces' = forces + 1 /\ recent' = recent + 1
  /\ UNCHANGED <<encVars, capVars, sum, latest, lastPoc, sinceIdr>>

\* frame_count += idr_interval - remainder, load and store.
ForceLoad ==
  /\ frc = "load"
  /\ frc' = "store"
  /\ sum' = frameCount
  /\ UNCHANGED <<encVars, capVars, remainder, ghosts>>

ForceStore ==
  /\ frc = "store"
  /\ frc' = "idle"
  /\ frameCount' = sum + IdrInterval - remainder
  /\ UNCHANGED <<reconIdx, capVars, remainder, sum, latest, lastPoc,
                 sinceIdr, forces, recent>>

-----------------------------------------------------------------------------

Encode ==
  \/ Begin \/ FillPic \/ FillRef \/ WriteSlice \/ FillSlice \/ Fail
  \/ Complete \/ Count \/ HandOver

ForceIdr == ForceRead \/ ForceLoad \/ ForceStore

Next == Encode \/ ForceIdr

Spec == Init /\ [][Next]_vars

-----------------------------------------------------------------------------
(* Properties.                                                             *)

\* A P frame predicts from the picture of the frame encoded just before it,
\* whatever encodes failed in between and whatever forces raced with them.
ReferenceIsLatest ==
  cap \in Encoding /\ ~idr =>
    refSurface = latest /\ refSurface # reconIdx

\* Unless a force came after the last IDR began, the POC in the slice header
\* is the one in the picture parameters, and one above the POC of the frame
\* before, which is the one that both parameters give the reference: the inline
\* reference picture set (delta -1) finds its picture.
PocChain ==
  recent = 0 /\ cap = "full" =>
    /\ picPoc = slicePoc
    /\ ~idr => slicePoc = lastPoc + 1 /\ picRef = lastPoc /\ listRef = lastPoc

\* After an IDR that was encoded, another is within idr_interval frames, however
\* encodes fail, that of an IDR too; a force that races with an encode can
\* postpone it, by one interval at most.
IdrGap == sinceIdr < IdrInterval * (1 + forces)
=============================================================================

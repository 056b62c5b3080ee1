--------------------------- MODULE Encoder_proofs ---------------------------
(***************************************************************************)
(* Proofs about Encoder, for every IDR interval and every size of the      *)
(* surface pool, however forces and failed encodes interleave.             *)
(***************************************************************************)
EXTENDS Encoder, TLAPS

USE EncoderAssumption

-----------------------------------------------------------------------------
(* The two modulos.                                                        *)

\* A POC is one.
LEMMA PocRange == ASSUME NEW n \in Int PROVE Poc(n) \in Pocs
  BY DEF Poc, Pocs

NextSurface(i) == IF i = SurfacePool - 1 THEN 0 ELSE i + 1

\* The rotation of surfaces stays in the pool and always moves.
LEMMA NextSurfaceWraps ==
  ASSUME NEW i \in Surfaces
  PROVE  (i + 1) % SurfacePool = NextSurface(i) /\ NextSurface(i) \in Surfaces
<1>1. CASE i = SurfacePool - 1
  <2>1. i + 1 = SurfacePool /\ SurfacePool % SurfacePool = 0
    BY <1>1
  <2> QED
    BY <1>1, <2>1 DEF NextSurface, Surfaces
<1>2. CASE i # SurfacePool - 1
  <2>1. i + 1 \in 0 .. SurfacePool - 1
    BY <1>2 DEF Surfaces
  <2> QED
    BY <1>2, <2>1 DEF NextSurface, Surfaces
<1> QED
  BY <1>1, <1>2

\* The surface before the current one: the formula of encode_surface.
LEMMA PrevReconWraps ==
  ASSUME reconIdx \in Surfaces
  PROVE  /\ PrevRecon = IF reconIdx = 0 THEN SurfacePool - 1 ELSE reconIdx - 1
         /\ PrevRecon \in Surfaces /\ PrevRecon # reconIdx
<1>1. CASE reconIdx = 0
  <2>1. reconIdx + SurfacePool - 1 \in 0 .. SurfacePool - 1
    BY <1>1
  <2> QED
    BY <1>1, <2>1 DEF PrevRecon, Surfaces
<1>2. CASE reconIdx # 0
  <2>1. /\ reconIdx - 1 \in 0 .. SurfacePool - 1
        /\ reconIdx + SurfacePool - 1 = (reconIdx - 1) + SurfacePool
    BY <1>2 DEF Surfaces
  <2>2. ((reconIdx - 1) + SurfacePool) % SurfacePool = reconIdx - 1
    BY <2>1
  <2> QED
    BY <1>2, <2>1, <2>2 DEF PrevRecon, Surfaces
<1> QED
  BY <1>1, <1>2

-----------------------------------------------------------------------------
(* Type correctness.                                                       *)

\* The encoder starts well typed.
LEMMA TypeInit == Init => TypeOK
<1> SUFFICES ASSUME Init PROVE TypeOK
  OBVIOUS
<1>1. 0 \in Surfaces /\ 0 \in Pocs
  BY DEF Surfaces, Pocs
<1> QED
  BY <1>1 DEF Init, TypeOK

\* Every load and store keeps the types.
LEMMA TypeNext == TypeOK /\ [Next]_vars => TypeOK'
<1> SUFFICES ASSUME TypeOK, [Next]_vars PROVE TypeOK'
  OBVIOUS
<1> USE DEF TypeOK, Encoding
<1>0. /\ Poc(frameCount) \in Pocs /\ Poc(frameCount - 1) \in Pocs
      /\ PrevRecon \in Surfaces /\ 0 \in Pocs
  BY PocRange, PrevReconWraps DEF Pocs
<1>1. CASE Begin
  BY <1>0, <1>1 DEF Begin, encVars, frcVars
<1>2. CASE FillPic
  BY <1>0, <1>2 DEF FillPic, encVars, frcVars, ghosts
<1>3. CASE WriteSlice
  BY <1>0, <1>3 DEF WriteSlice, encVars, frcVars, ghosts
<1>12. CASE FillRef \/ FillSlice
  BY <1>0, <1>12 DEF FillRef, FillSlice, encVars, frcVars, ghosts
<1>4. CASE Fail
  BY <1>4 DEF Fail, encVars, frcVars
<1>5. CASE Complete
  <2>1. reconIdx' \in Surfaces
    BY <1>5, NextSurfaceWraps DEF Complete
  <2> QED
    BY <1>5, <2>1 DEF Complete, frcVars
<1>6. CASE Count
  BY <1>6 DEF Count, frcVars
<1>7. CASE HandOver
  BY <1>7 DEF HandOver, encVars, frcVars, ghosts
<1>8. CASE ForceRead
  <2>1. CASE Poc(frameCount) = 0
    BY <1>0, <1>8, <2>1 DEF ForceRead, encVars, capVars
  <2>2. CASE Poc(frameCount) # 0
    BY <1>0, <1>8, <2>2 DEF ForceRead, encVars, capVars
  <2> QED
    BY <2>1, <2>2
<1>9. CASE ForceLoad
  BY <1>9 DEF ForceLoad, encVars, capVars, ghosts
<1>10. CASE ForceStore
  <2>1. frameCount' \in Nat
    BY <1>10 DEF ForceStore, Pocs
  <2> QED
    BY <1>10, <2>1 DEF ForceStore, capVars
<1>11. CASE UNCHANGED vars
  BY <1>11 DEF vars, encVars, capVars, frcVars, ghosts
<1> HIDE DEF TypeOK
<1> QED
  BY <1>1, <1>2, <1>3, <1>4, <1>5, <1>6, <1>7, <1>8, <1>9, <1>10, <1>11, <1>12
     DEF Next, Encode, ForceIdr

\* Type correctness: no surface index leaves the pool, no POC the interval.
THEOREM TypeCorrect == Spec => []TypeOK
  BY TypeInit, TypeNext, PTL DEF Spec

-----------------------------------------------------------------------------
(* The reference picture.                                                  *)

\* Once a frame has been counted, the last encoded picture is in the surface
\* before the current one; a count above 0 without such a picture is ruled
\* out because a force moves only a count that is no multiple.
LatestIsPrevious ==
  /\ frameCount # 0 \/ frc # "idle" \/ cap \in {"count", "done"} => latest = PrevRecon
  /\ latest \in {NoSurface, PrevRecon}

\* The reference is chosen once, when the encode begins, and nothing moves
\* the surfaces before the encode is over.
ReferenceChosen ==
  cap \in Encoding /\ ~idr =>
    refSurface = PrevRecon /\ latest = PrevRecon

ReferenceInv == LatestIsPrevious /\ ReferenceChosen

\* Before the first picture there is no reference to keep.
LEMMA ReferenceInit == Init => ReferenceInv
  BY DEF Init, ReferenceInv, LatestIsPrevious, ReferenceChosen, Encoding

\* Every step, a failed one included, keeps the latest picture where P frames look for it.
LEMMA ReferenceNext == TypeOK /\ ReferenceInv /\ [Next]_vars => ReferenceInv'
<1> SUFFICES ASSUME TypeOK, ReferenceInv, [Next]_vars PROVE ReferenceInv'
  OBVIOUS
<1> USE DEF ReferenceInv, LatestIsPrevious, ReferenceChosen, Encoding
<1>t. /\ reconIdx \in Surfaces /\ frameCount \in Nat /\ loaded \in Nat /\ sum \in Nat
      /\ PrevRecon \in Surfaces /\ PrevRecon # reconIdx
  BY PrevReconWraps DEF TypeOK
<1>1. CASE Begin
  <2>1. Poc(frameCount) # 0 => frameCount # 0
    BY DEF Poc
  <2> QED
    BY <1>1, <2>1 DEF Begin, encVars, frcVars, PrevRecon
<1>2. CASE FillPic \/ FillRef \/ WriteSlice \/ FillSlice
  BY <1>2 DEF FillPic, FillRef, WriteSlice, FillSlice, encVars, frcVars, ghosts, PrevRecon
<1>3. CASE Fail
  <2>1. latest' = latest
    BY <1>t, <1>3 DEF Fail, NoSurface, Surfaces
  <2> QED
    BY <1>3, <2>1 DEF Fail, encVars, frcVars, PrevRecon
<1>4. CASE Complete
  <2>1. reconIdx' = NextSurface(reconIdx) /\ reconIdx' \in Surfaces
    BY <1>t, <1>4, NextSurfaceWraps DEF Complete
  <2>2. PrevRecon' = reconIdx
    <3>1. PrevRecon' = (reconIdx' + SurfacePool - 1) % SurfacePool
      BY DEF PrevRecon
    <3>2. CASE reconIdx' = 0
      <4>1. reconIdx' + SurfacePool - 1 \in 0 .. SurfacePool - 1
        BY <3>2
      <4> QED
        BY <1>t, <2>1, <3>1, <3>2, <4>1 DEF NextSurface, Surfaces
    <3>3. CASE reconIdx' # 0
      <4>1. reconIdx' + SurfacePool - 1 = reconIdx + SurfacePool
        BY <1>t, <2>1, <3>3 DEF NextSurface, Surfaces
      <4>2. (reconIdx + SurfacePool) % SurfacePool = reconIdx
        BY <1>t DEF Surfaces
      <4> QED
        BY <3>1, <4>1, <4>2
    <3> QED
      BY <3>2, <3>3
  <2> QED
    BY <1>4, <2>2 DEF Complete, frcVars
<1>5. CASE Count
  BY <1>5 DEF Count, frcVars, PrevRecon
<1>6. CASE HandOver
  BY <1>6 DEF HandOver, encVars, frcVars, ghosts, PrevRecon
<1>7. CASE ForceRead
  <2>1. Poc(frameCount) # 0 => frameCount # 0
    BY DEF Poc
  <2> QED
    BY <1>7, <2>1 DEF ForceRead, encVars, capVars, PrevRecon
<1>8. CASE ForceLoad
  BY <1>8 DEF ForceLoad, encVars, capVars, ghosts, PrevRecon
<1>9. CASE ForceStore
  BY <1>9 DEF ForceStore, capVars, PrevRecon
<1>10. CASE UNCHANGED vars
  BY <1>10 DEF vars, encVars, capVars, frcVars, ghosts, PrevRecon
<1> HIDE DEF ReferenceInv
<1> QED
  BY <1>1, <1>2, <1>3, <1>4, <1>5, <1>6, <1>7, <1>8, <1>9, <1>10
     DEF Next, Encode, ForceIdr

\* A P frame never predicts from anything but the picture of the frame
\* encoded just before it, and never from the surface it is written to.
THEOREM PredictsFromLatest == Spec => []ReferenceIsLatest
<1>1. Spec => [](TypeOK /\ ReferenceInv)
  BY TypeInit, TypeNext, ReferenceInit, ReferenceNext, PTL DEF Spec
<1>2. TypeOK /\ ReferenceInv => ReferenceIsLatest
  BY PrevReconWraps DEF TypeOK, ReferenceInv, ReferenceChosen, ReferenceIsLatest
<1> QED
  BY <1>1, <1>2, PTL

-----------------------------------------------------------------------------
(* The POC chain and the distance between two IDRs.                        *)

\* Division with remainder.
LEMMA DivMod ==
  ASSUME NEW n \in Nat, NEW k \in Nat \ {0}
  PROVE  n % k \in 0 .. k - 1 /\ n \div k \in Nat /\ n = k * (n \div k) + (n % k)
  OBVIOUS

\* Counting on by one moves the remainder on by one, or back to 0.
LEMMA ModStep ==
  ASSUME NEW n \in Nat, NEW k \in Nat \ {0}
  PROVE  (n + 1) % k = IF n % k = k - 1 THEN 0 ELSE (n % k) + 1
<1> DEFINE q == n \div k
           r == n % k
           s == (n + 1) \div k
           t == (n + 1) % k
<1>1. q \in Nat /\ r \in 0 .. k - 1 /\ n = k * q + r
  BY DivMod
<1>2. s \in Nat /\ t \in 0 .. k - 1 /\ n + 1 = k * s + t
  <2>1. n + 1 \in Nat
    OBVIOUS
  <2> QED
    BY <2>1, DivMod
<1> HIDE DEF q, r, s, t
<1>3. t = IF r = k - 1 THEN 0 ELSE r + 1
  <2>1. CASE s <= q - 1
    <3>1. k * s <= k * (q - 1)
      BY <1>1, <1>2, <2>1
    <3>2. k * (q - 1) = k * q - k
      BY <1>1
    <3>3. k * q \in Int /\ k * s \in Int
      BY <1>1, <1>2
    <3> QED
      BY <1>1, <1>2, <3>1, <3>2, <3>3
  <2>2. CASE s = q
    BY <1>1, <1>2, <2>2
  <2>3. CASE s = q + 1
    <3>1. k * (q + 1) = k * q + k
      BY <1>1
    <3>2. k * q \in Int
      BY <1>1, <1>2
    <3> QED
      BY <1>1, <1>2, <2>3, <3>1, <3>2
  <2>4. CASE s >= q + 2
    <3>1. k * s >= k * (q + 2)
      BY <1>1, <1>2, <2>4
    <3>2. k * (q + 2) = k * q + 2 * k
      BY <1>1
    <3>3. k * q \in Int /\ k * s \in Int
      BY <1>1, <1>2
    <3> QED
      BY <1>1, <1>2, <3>1, <3>2, <3>3
  <2> QED
    BY <1>1, <1>2, <2>1, <2>2, <2>3, <2>4
<1> QED
  BY <1>3 DEF q, r, s, t

\* Unless the next frame is an IDR, its POC is one above.
LEMMA PocStep ==
  ASSUME NEW n \in Nat
  PROVE  /\ Poc(n) \in Pocs /\ Poc(n + 1) \in Pocs
         /\ Poc(n + 1) = IF Poc(n) = IdrInterval - 1 THEN 0 ELSE Poc(n) + 1
<1>1. n + 1 \in Nat /\ IdrInterval \in Nat \ {0}
  OBVIOUS
<1>2. (n + 1) % IdrInterval = IF n % IdrInterval = IdrInterval - 1 THEN 0 ELSE (n % IdrInterval) + 1
  BY <1>1, ModStep
<1>3. Poc(n) \in Pocs /\ Poc(n + 1) \in Pocs
  BY <1>1, PocRange
<1> QED
  BY <1>2, <1>3 DEF Poc

\* The count before that of a P frame is the POC before.
LEMMA PocBefore ==
  ASSUME NEW n \in Nat, Poc(n) # 0
  PROVE  Poc(n - 1) = Poc(n) - 1
<1>1. n - 1 \in Nat
  <2>1. Poc(0) = 0
    BY DEF Poc
  <2> QED
    BY <2>1
<1>2. (n - 1) + 1 = n
  OBVIOUS
<1>3. Poc(n) = IF Poc(n - 1) = IdrInterval - 1 THEN 0 ELSE Poc(n - 1) + 1
  BY <1>1, <1>2, PocStep
<1> QED
  BY <1>1, <1>3, PocRange DEF Pocs

\* A force on its way is counted.
NoForce == forces = 0 \/ recent = 0 => frc = "idle"

\* While no force interferes, everything an encode reads of frame_count is
\* one value, one above that of the frame before unless an IDR begins.
ChainInv ==
  recent = 0 =>
    /\ cap \in Encoding \cup {"count"} => (idr <=> Poc(frameCount) = 0)
    /\ cap \in {"pic", "ref", "slice", "full"} => picPoc = Poc(frameCount)
    /\ cap \in {"ref", "slice", "full"} /\ ~idr => picRef = lastPoc
    /\ cap \in {"slice", "full", "count"} => slicePoc = Poc(frameCount)
    /\ cap = "full" /\ ~idr => listRef = lastPoc
    /\ cap = "count" => loaded = frameCount
    /\ cap # "count" /\ Poc(frameCount) # 0 => lastPoc = Poc(frameCount) - 1

PocInv == NoForce /\ ChainInv

\* The chain starts at an IDR.
LEMMA PocInit == Init => PocInv
<1> SUFFICES ASSUME Init PROVE PocInv
  OBVIOUS
<1>1. Poc(0) = 0
  BY DEF Poc
<1> QED
  BY <1>1 DEF Init, PocInv, NoForce, ChainInv, Encoding

\* Every step keeps the chain until a force.
LEMMA PocNext == TypeOK /\ PocInv /\ [Next]_vars => PocInv'
<1> SUFFICES ASSUME TypeOK, PocInv, [Next]_vars PROVE PocInv'
  OBVIOUS
<1> USE DEF PocInv, NoForce, ChainInv, Encoding
<1>t. frameCount \in Nat /\ forces \in Nat /\ recent \in Nat /\ idr \in BOOLEAN /\ Poc(frameCount) \in Int
  BY PocRange DEF TypeOK, Pocs
<1>1. CASE Begin
  <2>1. Poc(frameCount)' = Poc(frameCount) /\ lastPoc' = lastPoc /\ cap = "idle" /\ cap' = "begun"
    BY <1>1 DEF Begin, encVars, Poc
  <2>2. idr' <=> Poc(frameCount) = 0
    BY <1>1 DEF Begin
  <2>3. frc' = frc /\ forces' = forces
    BY <1>1 DEF Begin, frcVars
  <2>4. CASE Poc(frameCount) = 0
    <3>1. recent' = IF frc = "idle" THEN 0 ELSE 1
      BY <1>1, <2>4 DEF Begin
    <3> QED
      BY <2>1, <2>2, <2>3, <2>4, <3>1
  <2>5. CASE Poc(frameCount) # 0
    <3>1. recent' = recent
      BY <1>1, <2>5 DEF Begin
    <3> QED
      BY <2>1, <2>2, <2>3, <2>5, <3>1
  <2> QED
    BY <2>4, <2>5
<1>2. CASE FillPic
  BY <1>2 DEF FillPic, encVars, frcVars, ghosts, Poc
<1>3. CASE WriteSlice
  BY <1>3 DEF WriteSlice, encVars, frcVars, ghosts, Poc
<1>12. CASE FillRef \/ FillSlice
  <2>1. /\ frameCount' = frameCount /\ idr' = idr /\ frc' = frc /\ lastPoc' = lastPoc
        /\ forces' = forces /\ recent' = recent /\ picPoc' = picPoc /\ slicePoc' = slicePoc
    BY <1>12 DEF FillRef, FillSlice, encVars, frcVars, ghosts
  <2>2. Poc(frameCount)' = Poc(frameCount)
    BY <2>1 DEF Poc
  <2>3. Poc(frameCount) # 0 => Poc(frameCount - 1) = Poc(frameCount) - 1
    BY <1>t, PocBefore
  <2>4. cap \in Encoding /\ ~idr /\ recent = 0 => Poc(frameCount - 1) = lastPoc
    BY <2>3
  <2>5. NoForce'
    BY <2>1
  <2>6. CASE FillRef
    <3>1. cap = "pic" /\ cap' = "ref" /\ (~idr => picRef' = Poc(frameCount - 1))
      BY <2>6 DEF FillRef
    <3> QED
      BY <2>1, <2>2, <2>4, <2>5, <3>1
  <2>7. CASE FillSlice
    <3>1. /\ cap = "slice" /\ cap' = "full" /\ picRef' = picRef
          /\ ~idr => listRef' = Poc(frameCount - 1)
      BY <2>7 DEF FillSlice
    <3> QED
      BY <2>1, <2>2, <2>4, <2>5, <3>1
  <2> QED
    BY <1>12, <2>6, <2>7
<1>4. CASE Fail
  BY <1>4 DEF Fail, encVars, frcVars, Poc
<1>5. CASE Complete
  BY <1>5 DEF Complete, frcVars, Poc
<1>6. CASE Count
  <2>1. /\ cap = "count" /\ cap' = "done" /\ frc' = frc /\ recent' = recent
        /\ forces' \in {forces, recent} /\ frameCount' = loaded + 1 /\ lastPoc' = slicePoc
    BY <1>6 DEF Count, frcVars
  <2>2. CASE recent = 0
    <3>1. loaded = frameCount /\ slicePoc = Poc(frameCount)
      BY <2>1, <2>2
    <3>2. Poc(frameCount)' = Poc(frameCount + 1)
      BY <2>1, <3>1 DEF Poc
    <3> QED
      BY <1>t, <2>1, <2>2, <3>1, <3>2, PocStep DEF Pocs
  <2> QED
    BY <2>1, <2>2
<1>7. CASE HandOver
  BY <1>7 DEF HandOver, encVars, frcVars, ghosts, Poc
<1>8. CASE ForceRead
  BY <1>t, <1>8 DEF ForceRead, encVars, capVars, Poc
<1>9. CASE ForceLoad
  BY <1>9 DEF ForceLoad, encVars, capVars, ghosts, Poc
<1>10. CASE ForceStore
  BY <1>10 DEF ForceStore
<1>11. CASE UNCHANGED vars
  BY <1>11 DEF vars, encVars, capVars, frcVars, ghosts, Poc
<1> HIDE DEF PocInv
<1> QED
  BY <1>1, <1>2, <1>3, <1>4, <1>5, <1>6, <1>7, <1>8, <1>9, <1>10, <1>11, <1>12
     DEF Next, Encode, ForceIdr

\* Without a force since the last IDR began, the packed slice header and the
\* picture parameters carry one POC, a P frame's is the last one's plus one, and
\* its parameters give the reference the last one's.
THEOREM PocsChain == Spec => []PocChain
<1>1. Spec => [](TypeOK /\ PocInv)
  BY TypeInit, TypeNext, PocInit, PocNext, PTL DEF Spec
<1>2. TypeOK /\ PocInv => PocChain
  BY PocRange DEF TypeOK, PocInv, ChainInv, PocChain, Pocs
<1> QED
  BY <1>1, <1>2, PTL

\* How many frames a count is away from the next multiple of the interval.
Dist(n) == IF Poc(n) = 0 THEN 0 ELSE IdrInterval - Poc(n)

\* Counting one frame brings the IDR one frame closer.
LEMMA DistStep ==
  ASSUME NEW n \in Nat
  PROVE  /\ Dist(n) \in 0 .. IdrInterval - 1 /\ Dist(n + 1) \in 0 .. IdrInterval - 1
         /\ Dist(n) = IF Poc(n) = 0 THEN 0 ELSE 1 + Dist(n + 1)
         /\ Poc(n) = 0 => Dist(n + 1) = IdrInterval - 1
<1>1. /\ Poc(n) \in 0 .. IdrInterval - 1
      /\ Poc(n + 1) = IF Poc(n) = IdrInterval - 1 THEN 0 ELSE Poc(n) + 1
  BY PocStep DEF Pocs
<1>2. /\ Dist(n) = IF Poc(n) = 0 THEN 0 ELSE IdrInterval - Poc(n)
      /\ Dist(n + 1) = IF Poc(n + 1) = 0 THEN 0 ELSE IdrInterval - Poc(n + 1)
  BY DEF Dist
<1> QED
  <2>1. CASE Poc(n) = IdrInterval - 1
    BY <1>1, <1>2, <2>1
  <2>2. CASE Poc(n) # IdrInterval - 1
    BY <1>1, <1>2, <2>2
  <2> QED
    BY <2>1, <2>2

\* An IDR is under way, and the frames between it and the next one.
Key == cap \in Encoding \cup {"count"} /\ idr
AfterKey == IF cap = "count" THEN Dist(loaded + 1) ELSE Dist(frameCount + 1)

\* The frames still to come before the next IDR if no further force comes: a P
\* frame under way, and those its count is away from a multiple.  An IDR under
\* way may fail and be tried again.
Togo == IF cap \in Encoding
          THEN IF idr THEN Dist(frameCount) ELSE 1 + Dist(frameCount + 1)
        ELSE IF cap = "count" THEN IF idr THEN 0 ELSE 1 + Dist(loaded + 1)
        ELSE Dist(frameCount)

\* A force that has not stored its count yet may cost one interval more.
Reserve == IF frc = "idle" THEN 0 ELSE IdrInterval

\* The budget of an IDR under way, and that of the last one encoded.
KeyInv == Key => AfterKey + Reserve <= IdrInterval * (1 + recent) - 1
GapInv == sinceIdr + Togo + Reserve <= IdrInterval * (1 + forces) - 1
IdrInv == KeyInv /\ GapInv

\* The first frame is an IDR.
LEMMA IdrInit == Init => IdrInv
<1> SUFFICES ASSUME Init PROVE IdrInv
  OBVIOUS
<1>1. Poc(0) = 0
  BY DEF Poc
<1> QED
  BY <1>1 DEF Init, IdrInv, KeyInv, GapInv, Key, Togo, Reserve, Dist, Encoding

\* Whatever a force does to frame_count, the next multiple is less than one
\* interval away.
LEMMA TogoRange ==
  ASSUME TypeOK
  PROVE  /\ Togo \in 0 .. IdrInterval
         /\ AfterKey \in 0 .. IdrInterval - 1
         /\ cap \in {"idle", "done"} => Togo = Dist(frameCount)
         /\ Dist(frameCount) \in 0 .. IdrInterval - 1
<1>1. frameCount \in Nat /\ loaded \in Nat /\ idr \in BOOLEAN
  BY DEF TypeOK
<1>2. Dist(frameCount) \in 0 .. IdrInterval - 1 /\ Dist(frameCount + 1) \in 0 .. IdrInterval - 1
      /\ Dist(loaded + 1) \in 0 .. IdrInterval - 1
  BY <1>1, DistStep
<1> QED
  BY <1>1, <1>2 DEF Togo, AfterKey, Encoding

\* The bound as the steps use it.
LEMMA BoundRange ==
  ASSUME NEW f \in Nat
  PROVE  /\ IdrInterval * (1 + f) \in Int
         /\ IdrInterval * (1 + f) >= IdrInterval
         /\ f >= 1 => IdrInterval * (1 + f) >= 2 * IdrInterval
         /\ IdrInterval * (1 + (f + 1)) = IdrInterval * (1 + f) + IdrInterval
<1>1. /\ IdrInterval * (1 + f) = IdrInterval + IdrInterval * f
      /\ IdrInterval * (1 + (f + 1)) = IdrInterval + IdrInterval + IdrInterval * f
      /\ IdrInterval * f \in Int
  OBVIOUS
<1>2. IdrInterval * f >= 0
  OBVIOUS
<1>3. f >= 1 => IdrInterval * f >= IdrInterval
  <2> SUFFICES ASSUME f >= 1 PROVE IdrInterval * f >= IdrInterval
    OBVIOUS
  <2>1. IdrInterval * f = IdrInterval + IdrInterval * (f - 1) /\ IdrInterval * (f - 1) >= 0
    OBVIOUS
  <2> QED
    BY <2>1
<1> QED
  BY <1>1, <1>2, <1>3

\* A number of the budget may be replaced by a smaller one.
LEMMA Smaller ==
  ASSUME NEW s \in Int, NEW t \in Int, NEW u \in Int, NEW r \in Int, NEW b \in Int,
         s + t + r <= b, u <= t
  PROVE  s + u + r <= b
  OBVIOUS

\* What the steps of the two budgets need to know of a state.
LEMMA Known ==
  ASSUME TypeOK
  PROVE  /\ frameCount \in Nat /\ loaded \in Nat /\ idr \in BOOLEAN
         /\ sinceIdr \in Nat /\ forces \in Nat /\ recent \in Nat
         /\ Togo \in Int /\ AfterKey \in Int /\ Reserve \in {0, IdrInterval}
         /\ Dist(frameCount) \in 0 .. IdrInterval - 1
         /\ Dist(frameCount + 1) \in 0 .. IdrInterval - 1
         /\ Dist(frameCount) = IF Poc(frameCount) = 0 THEN 0 ELSE 1 + Dist(frameCount + 1)
         /\ Poc(frameCount) = 0 => Dist(frameCount + 1) = IdrInterval - 1
<1>1. /\ frameCount \in Nat /\ loaded \in Nat /\ idr \in BOOLEAN
      /\ sinceIdr \in Nat /\ forces \in Nat /\ recent \in Nat
  BY DEF TypeOK
<1>2. Togo \in Int /\ AfterKey \in Int
  BY TogoRange
<1>3. Reserve \in {0, IdrInterval}
  BY DEF Reserve
<1> QED
  BY <1>1, <1>2, <1>3, DistStep

\* Every step keeps the budget of an IDR under way.
LEMMA KeyNext == TypeOK /\ KeyInv /\ [Next]_vars => KeyInv'
<1> SUFFICES ASSUME TypeOK, KeyInv, [Next]_vars, Key' PROVE KeyInv'
  BY DEF KeyInv
<1>t. /\ recent \in Nat /\ AfterKey \in Int /\ Reserve \in {0, IdrInterval}
      /\ Poc(frameCount) = 0 => Dist(frameCount + 1) = IdrInterval - 1
  BY Known
<1>b. /\ IdrInterval * (1 + recent) \in Int
      /\ IdrInterval * (1 + (recent + 1)) = IdrInterval * (1 + recent) + IdrInterval
  BY <1>t, BoundRange
<1>k. \* What a step does not touch.
      /\ UNCHANGED frameCount => Dist(frameCount + 1)' = Dist(frameCount + 1)
      /\ UNCHANGED loaded => Dist(loaded + 1)' = Dist(loaded + 1)
      /\ UNCHANGED frc => Reserve' = Reserve
  BY DEF Dist, Poc, Reserve
<1>0. ASSUME Key, UNCHANGED <<frc, recent>>, AfterKey' = AfterKey PROVE KeyInv'
  BY <1>0, <1>k DEF KeyInv
<1>1. CASE Begin
  <2>1. /\ cap' = "begun" /\ UNCHANGED <<frameCount, frc>> /\ Poc(frameCount) = 0
        /\ recent' = IF frc = "idle" THEN 0 ELSE 1
    BY <1>1 DEF Begin, encVars, frcVars, Key, Encoding
  <2>2. AfterKey' = IdrInterval - 1
    BY <1>k, <1>t, <2>1 DEF AfterKey, Encoding
  <2>3. Reserve' = IdrInterval * recent'
    BY <1>k, <2>1 DEF Reserve
  <2>4. IdrInterval * (1 + recent') = IdrInterval + IdrInterval * recent' /\ IdrInterval * recent' \in Int
    BY <2>1
  <2> QED
    BY <2>2, <2>3, <2>4 DEF KeyInv
<1>2. CASE FillPic \/ FillRef \/ WriteSlice \/ FillSlice
  <2>1. /\ cap \in Encoding /\ cap' \in Encoding
        /\ UNCHANGED <<frameCount, idr, frc, recent>>
    BY <1>2 DEF FillPic, FillRef, WriteSlice, FillSlice, Encoding, encVars, frcVars, ghosts
  <2> QED
    BY <1>0, <1>k, <2>1 DEF Key, AfterKey, Encoding
<1>3. CASE Fail \/ Count \/ HandOver
  BY <1>3 DEF Fail, Count, HandOver, Key, Encoding
<1>4. CASE Complete
  <2>1. /\ cap = "full" /\ cap' = "count" /\ loaded' = frameCount
        /\ UNCHANGED <<frameCount, idr, frc, recent>>
    BY <1>4 DEF Complete, frcVars
  <2>2. Dist(loaded + 1)' = Dist(frameCount + 1)
    BY <2>1 DEF Dist, Poc
  <2> QED
    BY <1>0, <2>1, <2>2 DEF Key, AfterKey, Encoding
<1>5. CASE ForceRead
  <2>1. /\ UNCHANGED <<cap, idr, frameCount, loaded>> /\ frc = "idle"
        /\ UNCHANGED <<frc, recent>> \/ (frc' = "load" /\ recent' = recent + 1)
    BY <1>5 DEF ForceRead, encVars, capVars
  <2>2. Key /\ AfterKey' = AfterKey
    BY <1>k, <2>1 DEF Key, AfterKey, Encoding
  <2>3. CASE frc' = "load" /\ recent' = recent + 1
    <3>1. Reserve = 0 /\ Reserve' = IdrInterval
      BY <2>1, <2>3 DEF Reserve
    <3> QED
      BY <1>b, <1>t, <2>2, <2>3, <3>1 DEF KeyInv
  <2> QED
    BY <1>0, <2>1, <2>2, <2>3
<1>6. CASE ForceLoad
  <2>1. /\ UNCHANGED <<cap, idr, frameCount, loaded, recent>>
        /\ frc = "load" /\ frc' = "store"
    BY <1>6 DEF ForceLoad, encVars, capVars, ghosts
  <2>2. Key /\ AfterKey' = AfterKey /\ Reserve' = Reserve
    BY <1>k, <2>1 DEF Key, AfterKey, Reserve
  <2> QED
    BY <2>1, <2>2 DEF KeyInv
<1>7. CASE ForceStore
  <2>1. /\ UNCHANGED <<cap, idr, loaded, recent>> /\ frc = "store" /\ frc' = "idle"
    BY <1>7 DEF ForceStore, capVars
  <2>2. Reserve' = 0
    BY <2>1 DEF Reserve
  <2>3. AfterKey' \in Int /\ AfterKey' <= IdrInterval - 1
    <3>1. TypeOK'
      BY TypeNext
    <3>2. (AfterKey \in 0 .. IdrInterval - 1)'
      BY <3>1, TogoRange, PTL
    <3> QED
      BY <3>2
  <2>4. IdrInterval * (1 + recent) >= IdrInterval
    BY <1>t, BoundRange
  <2> QED
    BY <1>b, <2>1, <2>2, <2>3, <2>4 DEF KeyInv
<1>8. CASE UNCHANGED vars
  <2>1. UNCHANGED <<cap, idr, frameCount, loaded, recent, frc>>
    BY <1>8 DEF vars, encVars, capVars, frcVars, ghosts
  <2> QED
    BY <1>0, <1>k, <2>1 DEF Key, AfterKey, Encoding
<1> QED
  BY <1>1, <1>2, <1>3, <1>4, <1>5, <1>6, <1>7, <1>8 DEF Next, Encode, ForceIdr

\* Every step keeps the next IDR within reach of the last one encoded.
LEMMA GapNext == TypeOK /\ KeyInv /\ GapInv /\ [Next]_vars => GapInv'
<1> SUFFICES ASSUME TypeOK, KeyInv, GapInv, [Next]_vars PROVE GapInv'
  OBVIOUS
<1>t. /\ frameCount \in Nat /\ loaded \in Nat /\ idr \in BOOLEAN
      /\ sinceIdr \in Nat /\ forces \in Nat /\ recent \in Nat
      /\ Togo \in Int /\ Reserve \in {0, IdrInterval} /\ Reserve \in Int
  BY Known
<1>d. /\ Dist(frameCount) \in Int /\ Dist(frameCount + 1) \in Int
      /\ Dist(frameCount) >= 0 /\ Dist(frameCount + 1) >= 0
      /\ Dist(frameCount) = IF Poc(frameCount) = 0 THEN 0 ELSE 1 + Dist(frameCount + 1)
  BY Known
<1>b. /\ IdrInterval * (1 + forces) \in Int
      /\ IdrInterval * (1 + (forces + 1)) = IdrInterval * (1 + forces) + IdrInterval
  BY <1>t, BoundRange
<1>k. \* What a step does not touch.
      /\ UNCHANGED frameCount => /\ Dist(frameCount)' = Dist(frameCount)
                                 /\ Dist(frameCount + 1)' = Dist(frameCount + 1)
      /\ UNCHANGED loaded => Dist(loaded + 1)' = Dist(loaded + 1)
      /\ UNCHANGED frc => Reserve' = Reserve
  BY DEF Dist, Poc, Reserve
<1>0. ASSUME UNCHANGED <<frc, sinceIdr, forces>>, Togo' \in Int, Togo' <= Togo PROVE GapInv'
  <2>1. sinceIdr + Togo' + Reserve <= IdrInterval * (1 + forces) - 1
    <3>1. /\ IdrInterval * (1 + forces) - 1 \in Int
          /\ sinceIdr \in Int /\ Togo \in Int /\ Reserve \in Int
      BY <1>b, <1>t
    <3>2. sinceIdr + Togo + Reserve <= IdrInterval * (1 + forces) - 1
      BY DEF GapInv
    <3>3. Togo' \in Int /\ Togo' <= Togo
      BY <1>0
    <3> QED
      BY <3>1, <3>2, <3>3, Smaller
  <2> QED
    BY <1>0, <1>k, <2>1 DEF GapInv
<1>1. CASE Begin
  <2>1. /\ cap = "idle" /\ cap' = "begun" /\ UNCHANGED <<frameCount, frc, sinceIdr, forces>>
        /\ idr' = (Poc(frameCount) = 0)
    BY <1>1 DEF Begin, encVars, frcVars
  <2>2. Togo = Dist(frameCount)
    BY <2>1 DEF Togo, Encoding
  <2>3. Togo' = IF idr' THEN Dist(frameCount) ELSE 1 + Dist(frameCount + 1)
    BY <1>k, <2>1 DEF Togo, Encoding
  <2>4. Togo' = Togo
    BY <1>d, <2>1, <2>2, <2>3
  <2> QED
    BY <1>0, <1>t, <2>1, <2>4
<1>2. CASE FillPic \/ FillRef \/ WriteSlice \/ FillSlice
  <2>1. /\ cap \in Encoding /\ cap' \in Encoding
        /\ UNCHANGED <<frameCount, idr, frc, sinceIdr, forces>>
    BY <1>2 DEF FillPic, FillRef, WriteSlice, FillSlice, Encoding, encVars, frcVars, ghosts
  <2>2. Togo' = Togo
    BY <1>k, <2>1 DEF Togo, Encoding
  <2> QED
    BY <1>0, <1>t, <2>1, <2>2
<1>3. CASE Fail
  <2>1. /\ cap \in Encoding /\ cap' = "idle"
        /\ UNCHANGED <<frameCount, frc, sinceIdr, forces>>
    BY <1>3 DEF Fail, encVars, frcVars
  <2>2. Togo' = Dist(frameCount)
    BY <1>k, <2>1 DEF Togo, Encoding
  <2>3. Togo = IF idr THEN Dist(frameCount) ELSE 1 + Dist(frameCount + 1)
    BY <2>1 DEF Togo, Encoding
  <2>4. Togo' \in Int /\ Togo' <= Togo
    BY <1>d, <2>2, <2>3
  <2> QED
    BY <1>0, <2>1, <2>4
<1>4. CASE Complete
  <2>1. /\ cap = "full" /\ cap' = "count" /\ loaded' = frameCount
        /\ UNCHANGED <<idr, frc, sinceIdr, forces>>
    BY <1>4 DEF Complete, frcVars
  <2>2. Dist(loaded + 1)' = Dist(frameCount + 1)
    BY <2>1 DEF Dist, Poc
  <2>3. Togo' = IF idr THEN 0 ELSE 1 + Dist(frameCount + 1)
    BY <2>1, <2>2 DEF Togo, Encoding
  <2>4. Togo = IF idr THEN Dist(frameCount) ELSE 1 + Dist(frameCount + 1)
    BY <2>1 DEF Togo, Encoding
  <2>5. Togo' \in Int /\ Togo' <= Togo
    BY <1>d, <2>3, <2>4
  <2> QED
    BY <1>0, <2>1, <2>5
<1>5. CASE Count
  <2>1. /\ cap = "count" /\ cap' = "done" /\ frameCount' = loaded + 1 /\ UNCHANGED frc
        /\ sinceIdr' = (IF idr THEN 0 ELSE sinceIdr + 1)
        /\ forces' = (IF idr THEN recent ELSE forces)
    BY <1>5 DEF Count, frcVars
  <2>2. Dist(loaded + 1) \in Int
    BY <1>t, DistStep
  <2>3. Togo' = Dist(loaded + 1)
    BY <2>1 DEF Togo, Encoding, Dist, Poc
  <2>4. CASE idr
    <3>1. AfterKey + Reserve <= IdrInterval * (1 + recent) - 1 /\ AfterKey = Dist(loaded + 1)
      BY <2>1, <2>4 DEF KeyInv, Key, AfterKey, Encoding
    <3>2. 0 + Dist(loaded + 1) + Reserve <= IdrInterval * (1 + recent) - 1
      BY <1>t, <2>2, <3>1
    <3> QED
      BY <1>k, <2>1, <2>3, <2>4, <3>2 DEF GapInv
  <2>5. CASE ~idr
    <3>1. Togo = 1 + Dist(loaded + 1)
      BY <2>1, <2>5 DEF Togo, Encoding
    <3>2. (sinceIdr + 1) + Dist(loaded + 1) + Reserve = sinceIdr + Togo + Reserve
      BY <1>t, <2>2, <3>1
    <3> QED
      BY <1>k, <2>1, <2>3, <2>5, <3>2 DEF GapInv
  <2> QED
    BY <2>4, <2>5
<1>6. CASE HandOver
  <2>1. /\ cap = "done" /\ cap' = "idle" /\ UNCHANGED <<frameCount, frc, sinceIdr, forces>>
    BY <1>6 DEF HandOver, encVars, frcVars, ghosts
  <2>2. Togo' = Togo
    BY <1>k, <2>1 DEF Togo, Encoding
  <2> QED
    BY <1>0, <1>t, <2>1, <2>2
<1>7. CASE ForceRead
  <2>1. /\ UNCHANGED <<cap, idr, frameCount, loaded, sinceIdr>> /\ frc = "idle"
        /\ UNCHANGED <<frc, forces>> \/ (frc' = "load" /\ forces' = forces + 1)
    BY <1>7 DEF ForceRead, encVars, capVars
  <2>2. Togo' = Togo
    BY <1>k, <2>1 DEF Togo, Encoding
  <2>3. CASE frc' = "load" /\ forces' = forces + 1
    <3>1. Reserve = 0 /\ Reserve' = IdrInterval
      BY <2>1, <2>3 DEF Reserve
    <3> QED
      BY <1>b, <1>t, <2>1, <2>2, <2>3, <3>1 DEF GapInv
  <2> QED
    BY <1>0, <1>t, <2>1, <2>2, <2>3
<1>8. CASE ForceLoad
  <2>1. /\ UNCHANGED <<cap, idr, frameCount, loaded, sinceIdr, forces>>
        /\ frc = "load" /\ frc' = "store"
    BY <1>8 DEF ForceLoad, encVars, capVars, ghosts
  <2>2. Togo' = Togo /\ Reserve' = Reserve
    BY <1>k, <2>1 DEF Togo, Encoding, Reserve
  <2> QED
    BY <2>1, <2>2 DEF GapInv
<1>9. CASE ForceStore
  <2>1. /\ UNCHANGED <<cap, idr, loaded, sinceIdr, forces>>
        /\ frc = "store" /\ frc' = "idle"
    BY <1>9 DEF ForceStore, capVars
  <2>2. Reserve = IdrInterval /\ Reserve' = 0
    BY <2>1 DEF Reserve
  <2>3. Togo \in 0 .. IdrInterval
    BY TogoRange
  <2>4. Togo' \in Int /\ Togo' <= Togo + IdrInterval
    <3>1. TypeOK'
      BY TypeNext
    <3>2. (Togo \in 0 .. IdrInterval)'
      BY <3>1, TogoRange, PTL
    <3> QED
      BY <2>3, <3>2
  <2>5. sinceIdr + Togo' + 0 <= IdrInterval * (1 + forces) - 1
    <3>1. sinceIdr + Togo + IdrInterval <= IdrInterval * (1 + forces) - 1
      BY <2>2 DEF GapInv
    <3>2. sinceIdr + (Togo + IdrInterval) + 0 <= IdrInterval * (1 + forces) - 1
      BY <1>b, <1>t, <3>1
    <3>3. Togo + IdrInterval \in Int /\ sinceIdr \in Int /\ IdrInterval * (1 + forces) - 1 \in Int
      BY <1>b, <1>t
    <3> QED
      BY <2>4, <3>2, <3>3, Smaller
  <2> QED
    BY <2>1, <2>2, <2>5 DEF GapInv
<1>10. CASE UNCHANGED vars
  <2>1. UNCHANGED <<cap, idr, frameCount, loaded, sinceIdr, forces, frc>>
    BY <1>10 DEF vars, encVars, capVars, frcVars, ghosts
  <2>2. Togo' = Togo
    BY <1>k, <2>1 DEF Togo, Encoding
  <2> QED
    BY <1>0, <1>t, <2>1, <2>2
<1> QED
  BY <1>1, <1>2, <1>3, <1>4, <1>5, <1>6, <1>7, <1>8, <1>9, <1>10
     DEF Next, Encode, ForceIdr

\* Between two encoded IDRs, failed ones in between or not, are fewer P frames
\* than one interval for each force since the first began, and one more.
THEOREM IdrComes == Spec => []IdrGap
<1>1. Spec => [](TypeOK /\ IdrInv)
  <2>1. TypeOK /\ IdrInv /\ [Next]_vars => IdrInv'
    BY KeyNext, GapNext DEF IdrInv
  <2> QED
    BY <2>1, TypeInit, TypeNext, IdrInit, PTL DEF Spec
<1>2. TypeOK /\ IdrInv => IdrGap
  <2> SUFFICES ASSUME TypeOK, IdrInv PROVE IdrGap
    OBVIOUS
  <2>1. /\ sinceIdr \in Nat /\ Togo \in Nat /\ Reserve \in Nat
        /\ IdrInterval * (1 + forces) \in Int
    BY TogoRange, Known, BoundRange
  <2> QED
    BY <2>1 DEF IdrInv, GapInv, IdrGap
<1> QED
  BY <1>1, <1>2, PTL
=============================================================================

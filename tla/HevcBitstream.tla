--------------------------- MODULE HevcBitstream ---------------------------
(***************************************************************************)
(* The bytes of a frame: the packed headers encoder.c hands to the GPU,    *)
(* the Annex B parser of HEVCDecoder.swift, and what an H.265 decoder      *)
(* reads in a sequence parameter set and in a slice header.                *)
(*                                                                         *)
(* A bit string is a sequence over {0, 1}, a byte string one over 0..255.  *)
(* Constant fields stay constants: what varies is the size, the frame rate *)
(* and the picture order count.                                            *)
(***************************************************************************)
EXTENDS Integers, Sequences

Zeros(n) == [i \in 1 .. n |-> 0]

-----------------------------------------------------------------------------
(* The bit writer.                                                         *)

\* v >> n.
Shift(v, n) ==
  LET right[i \in 0 .. n] == IF i = 0 THEN v ELSE right[i - 1] \div 2 IN right[n]

\* bs_write: the n low bits of v, the highest first.
U(v, n) == [i \in 1 .. n |-> Shift(v, n - i) % 2]

\* The shifts until nothing is left.
BitLength(v) ==
  CHOOSE n \in 0 .. 32 : Shift(v, n) = 0 /\ \A k \in 0 .. n - 1 : Shift(v, k) # 0

Ue(v) == LET n == BitLength(v + 1) IN Zeros(n - 1) \o U(v + 1, n)
Se(v) == Ue(IF v > 0 THEN 2 * v - 1 ELSE -2 * v)

TrailingBits(bits) == bits \o <<1>> \o Zeros((-(Len(bits) + 1)) % 8)

Value(bits) ==
  LET read[i \in 0 .. Len(bits)] == IF i = 0 THEN 0 ELSE 2 * read[i - 1] + bits[i]
  IN read[Len(bits)]

ToBytes(bits) ==
  [k \in 1 .. Len(bits) \div 8 |-> Value(SubSeq(bits, 8 * k - 7, 8 * k))]

\* Mutated form of Escape: no byte is inserted.
EscapeNever(bytes) == bytes

\* add_emulation_prevention: a 3 before a byte up to 3 that follows two zeros.
Escape(bytes) ==
  LET put[i \in 0 .. Len(bytes)] ==
        IF i = 0 THEN [out |-> << >>, zeros |-> 0]
        ELSE LET s == put[i - 1]
                 b == bytes[i]
                 clash == s.zeros >= 2 /\ b <= 3
             IN [out   |-> s.out \o (IF clash THEN <<3, b>> ELSE <<b>>),
                 zeros |-> IF b # 0 THEN 0 ELSE IF clash THEN 1 ELSE s.zeros + 1]
  IN put[Len(bytes)].out

-----------------------------------------------------------------------------
(* Parameter sets and slice headers.                                       *)

Align(x, a) == ((x + a - 1) \div a) * a
CtuSize == 64

\* Main profile and level 4.0, no sub-layers.
ProfileTierLevel ==
  U(0, 2) \o <<0>> \o U(1, 5)
  \o [i \in 1 .. 32 |-> IF i \in {2, 3} THEN 1 ELSE 0]
  \o <<1, 0, 1, 1>> \o Zeros(44) \o U(120, 8)

SubLayerOrdering == <<0>> \o Ue(1) \o Ue(0) \o Ue(0)

Vps(fps) ==
  U(0, 4) \o <<1, 1>> \o U(0, 6) \o U(0, 3) \o <<1>> \o U(65535, 16)
  \o ProfileTierLevel \o SubLayerOrdering
  \o U(0, 6) \o Ue(0)                                  \* layer sets
  \o <<1>> \o U(1, 32) \o U(fps, 32) \o <<0>> \o Ue(0) \* timing
  \o <<0>>

\* Only if the coded size, in whole CTUs, is not the picture's.
ConformanceWindow(aw, ah, w, h) ==
  IF aw = w /\ ah = h THEN <<0>>
  ELSE <<1>> \o Ue(0) \o Ue((aw - w) \div 2) \o Ue(0) \o Ue((ah - h) \div 2)

PocBits == 12

SpsHead == U(0, 4) \o U(0, 3) \o <<1>> \o ProfileTierLevel

SpsPicture(w, h) ==
  LET aw == Align(w, CtuSize)  ah == Align(h, CtuSize)
  IN Ue(0) \o Ue(1) \o Ue(aw) \o Ue(ah) \o ConformanceWindow(aw, ah, w, h)

SpsCoding ==
  Ue(0) \o Ue(0) \o Ue(PocBits - 4) \o SubLayerOrdering
  \o Ue(0) \o Ue(3) \o Ue(0) \o Ue(3) \o Ue(2) \o Ue(2)  \* block sizes
  \o <<0, 1, 0, 0>> \o Ue(0) \o <<0, 0, 1, 0, 0>>

Sps(w, h) == SpsHead \o SpsPicture(w, h) \o SpsCoding

Pps ==
  Ue(0) \o Ue(0) \o <<0, 0>> \o U(0, 3) \o <<0, 0>> \o Ue(0) \o Ue(0)
  \o Se(0) \o <<0, 0, 1>> \o Ue(0) \o Se(0) \o Se(0) \o <<0, 0, 0, 0, 0, 0>>
  \o <<1, 1, 0, 0>> \o Se(0) \o Se(0) \o <<0, 0>> \o Ue(0) \o <<0, 0>>

\* The reference picture set of a P slice: the picture before it, nothing else.
InlineRps == <<0>> \o Ue(1) \o Ue(0) \o Ue(0) \o <<1>>

SliceHeader(idr, poc) ==
  IF idr THEN <<1, 0>> \o Ue(0) \o Ue(2) \o Se(0)
         ELSE <<1>> \o Ue(0) \o Ue(1) \o U(poc, PocBits) \o InlineRps \o <<0>> \o Se(0)

-----------------------------------------------------------------------------
(* NAL units and frames.                                                   *)

VpsType == 32
SpsType == 33
PpsType == 34
SliceType(idr) == IF idr THEN 19 ELSE 1

\* A NAL unit without its start code: two header bytes, then the escaped body.
Nalu(type, bits) == <<2 * type, 1>> \o Escape(ToBytes(TrailingBits(bits)))

StartCode == <<0, 0, 0, 1>>

ParameterSets(w, h, fps) ==
  <<Nalu(VpsType, Vps(fps)), Nalu(SpsType, Sps(w, h)), Nalu(PpsType, Pps)>>

\* The GPU appends the slice's data to the header; its payload is escaped, too.
Slice(idr, poc, payload) ==
  Nalu(SliceType(idr), SliceHeader(idr, poc)) \o Escape(payload)

AnnexB(nalus) ==
  LET join[i \in 0 .. Len(nalus)] ==
        IF i = 0 THEN << >> ELSE join[i - 1] \o (StartCode \o nalus[i])
  IN join[Len(nalus)]

-----------------------------------------------------------------------------
(* parseAnnexB.                                                            *)

At(data, i, code) ==
  \A k \in DOMAIN code : i + k - 1 \in DOMAIN data /\ data[i + k - 1] = code[k]

\* The length of the start code that begins at i.  The scan jumps over a code
\* of four bytes, and so never sees the three-byte code inside it.
CodeLength(data, i) ==
  IF At(data, i, StartCode) THEN 4
  ELSE IF At(data, i, <<0, 0, 1>>) /\ ~At(data, i - 1, StartCode) THEN 3 ELSE 0

StartPositions(data) ==
  LET found[i \in 0 .. Len(data)] ==
        IF i = 0 THEN << >>
        ELSE IF CodeLength(data, i) = 0 THEN found[i - 1] ELSE Append(found[i - 1], i)
  IN IF Len(data) <= 4 THEN << >> ELSE found[Len(data)]

\* What is between one start code and the next or the end, unless it is empty.
ParseAnnexB(data) ==
  LET starts  == StartPositions(data)
      Begin(j) == starts[j] + CodeLength(data, starts[j])
      End(j) == IF j < Len(starts) THEN starts[j + 1] - 1 ELSE Len(data)
      units[j \in 0 .. Len(starts)] ==
        IF j = 0 THEN << >>
        ELSE units[j - 1]
             \o IF Begin(j) > End(j) THEN << >> ELSE <<SubSeq(data, Begin(j), End(j))>>
  IN units[Len(starts)]

NaluType(nalu) == (nalu[1] \div 2) % 64

-----------------------------------------------------------------------------
(* What a decoder reads, by the syntax tables of H.265 (7.3.2.2, 7.3.6.1). *)

Unescape(bytes) ==
  LET take[i \in 0 .. Len(bytes)] ==
        IF i = 0 THEN [out |-> << >>, zeros |-> 0]
        ELSE LET s == take[i - 1]
                 b == bytes[i]
             IN IF s.zeros >= 2 /\ b = 3 THEN [s EXCEPT !.zeros = 0]
                ELSE [out   |-> Append(s.out, b),
                      zeros |-> IF b = 0 THEN s.zeros + 1 ELSE 0]
  IN take[Len(bytes)].out

BodyBits(nalu) ==
  LET body == Unescape(SubSeq(nalu, 3, Len(nalu)))
  IN [i \in 1 .. 8 * Len(body) |-> U(body[(i + 7) \div 8], 8)[((i - 1) % 8) + 1]]

\* One field: n bits for n > 0, an Exp-Golomb code for n = 0.
ReadField(bits, s, n) ==
  LET z == IF n > 0 THEN 0 ELSE CHOOSE k \in 0 .. 31 :
             bits[s.at + k] = 1 /\ \A i \in 0 .. k - 1 : bits[s.at + i] = 0
      Bits(a, len) == Value([i \in 1 .. len |-> bits[a + i - 1]])
  IN IF n > 0
     THEN [at |-> s.at + n, values |-> Append(s.values, Bits(s.at, n))]
     ELSE [at |-> s.at + 2 * z + 1,
           values |-> Append(s.values, Bits(s.at + z, z + 1) - 1)]

ReadFields(bits, at, format) ==
  LET read[i \in 0 .. Len(format)] ==
        IF i = 0 THEN [at |-> at, values |-> << >>]
        ELSE ReadField(bits, read[i - 1], format[i])
  IN read[Len(format)]

\* The picture size a decoder finds in a sequence parameter set: the coded size
\* less the conformance window.
SizeInSps(nalu) ==
  LET bits == BodyBits(nalu)
      head == ReadFields(bits, 8 + 96 + 1, <<0, 0, 0, 0, 1>>)
      win  == IF head.values[5] = 0 THEN <<0, 0, 0, 0>>
              ELSE ReadFields(bits, head.at, <<0, 0, 0, 0>>).values
  IN <<head.values[3] - 2 * (win[1] + win[2]), head.values[4] - 2 * (win[3] + win[4])>>

PocInSlice(nalu) == ReadFields(BodyBits(nalu), 1, <<1, 0, 0, PocBits>>).values[4]
=============================================================================

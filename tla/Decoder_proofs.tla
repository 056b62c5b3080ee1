--------------------------- MODULE Decoder_proofs ---------------------------
(***************************************************************************)
(* The bytes of a frame are read back as they were written, for every      *)
(* picture size, rate, order count and payload: nothing is lost by the     *)
(* emulation prevention, the parser, the parameter sets or the slice       *)
(* header.  Then: pictures are shown in the order their frames came, for   *)
(* every number of frames, whatever VideoToolbox refuses and whenever the  *)
(* receiver quits; and a complete key frame repairs the picture.           *)
(***************************************************************************)
EXTENDS Decoder, NaturalsInduction, WellFoundedInduction, SequenceTheorems, TLAPS

-----------------------------------------------------------------------------
(* Induction over sets of numbers, and what recursive functions compute.   *)

\* A set of natural numbers that has a member has a least one.
LEMMA LeastNat ==
  ASSUME NEW T \in SUBSET Nat, NEW w \in T
  PROVE \E n \in T : \A m \in T : n <= m
<1> DEFINE R == OpToRel(<, Nat)
<1>1. IsWellFoundedOn(R, Nat)
  BY NatLessThanWellFounded
<1>2. T \subseteq Nat /\ T # {}
  OBVIOUS
<1>3. PICK n \in T : \A m \in T : ~(<<m, n>> \in R)
  <2> HIDE DEF R
  <2> QED BY <1>1, <1>2, WFMin
<1>4. ASSUME NEW m \in T PROVE n <= m
  <2>1. m \in Nat /\ n \in Nat
    OBVIOUS
  <2>2. CASE m < n
    <3>1. <<m, n>> \in R
      BY <2>1, <2>2 DEF OpToRel
    <3> QED BY <1>3, <3>1
  <2> QED BY <2>1, <2>2
<1> QED BY <1>4

\* A set with zero, and with every number's successor, has all of them.
LEMMA SetInduction ==
  ASSUME NEW S \in SUBSET Nat, 0 \in S, \A n \in S : n + 1 \in S
  PROVE S = Nat
<1> SUFFICES ASSUME S # Nat PROVE FALSE
  OBVIOUS
<1> DEFINE T == {n \in Nat : n \notin S}
<1>1. PICK w \in T : TRUE
  OBVIOUS
<1>2. T \in SUBSET Nat
  OBVIOUS
<1>3. PICK n \in T : \A m \in T : n <= m
  <2> HIDE DEF T
  <2> QED BY <1>1, <1>2, LeastNat
<1>4. n # 0 /\ n \in Nat
  OBVIOUS
<1>5. n - 1 \in Nat /\ n - 1 \notin T
  BY <1>3, <1>4
<1>6. n - 1 \in S
  BY <1>5
<1> QED BY <1>4, <1>6, <1>3

\* step[1], ..., step[n] are functions on S.
IsStep(step, n, S) == step \in [1 .. n -> [S -> S]]

\* f is what they make of s, one after the other.
IsRun(f, step, n, S, s) ==
  f \in [0 .. n -> S] /\ f[0] = s /\ \A i \in 1 .. n : f[i] = step[i][f[i - 1]]

\* Steps have a run from everywhere.
LEMMA RunExists ==
  ASSUME NEW S, NEW s \in S, NEW n \in Nat, NEW step, IsStep(step, n, S)
  PROVE \E f : IsRun(f, step, n, S, s)
<1> DEFINE T == {m \in Nat : m <= n => \E f : IsRun(f, step, m, S, s)}
<1>1. 0 \in T
  <2>1. IsRun([i \in 0 .. 0 |-> s], step, 0, S, s)
    BY DEF IsRun
  <2> QED BY <2>1
<1>2. ASSUME NEW m \in T PROVE m + 1 \in T
  <2> SUFFICES ASSUME m + 1 <= n PROVE \E f : IsRun(f, step, m + 1, S, s)
    OBVIOUS
  <2>1. PICK f : IsRun(f, step, m, S, s)
    OBVIOUS
  <2> DEFINE e == step[m + 1][f[m]]
             g == [i \in 0 .. m + 1 |-> IF i = m + 1 THEN e ELSE f[i]]
  <2>2. m \in Nat /\ m + 1 \in 1 .. n /\ f[m] \in S
    <3>1. m \in Nat /\ m + 1 \in 1 .. n
      OBVIOUS
    <3> QED BY <2>1, <3>1 DEF IsRun
  <2>3. e \in S
    BY <2>2 DEF IsStep
  <2> HIDE DEF e
  <2>4. g \in [0 .. m + 1 -> S] /\ g[0] = s
    BY <2>1, <2>2, <2>3 DEF IsRun
  <2>5. \A i \in 1 .. m : g[i] = f[i] /\ g[i - 1] = f[i - 1]
    BY <2>2
  <2>6. g[m + 1] = e /\ g[m] = f[m]
    BY <2>2
  <2> HIDE DEF g
  <2>7. ASSUME NEW i \in 1 .. m + 1 PROVE g[i] = step[i][g[i - 1]]
    <3>1. CASE i = m + 1
      <4>1. i - 1 = m
        BY <3>1, <2>2
      <4> QED BY <3>1, <4>1, <2>6 DEF e
    <3>2. CASE i # m + 1
      <4>1. i \in 1 .. m
        BY <3>2, <2>2
      <4> QED BY <4>1, <2>5, <2>1 DEF IsRun
    <3> QED BY <3>1, <3>2
  <2>8. IsRun(g, step, m + 1, S, s)
    BY <2>4, <2>7 DEF IsRun
  <2> QED BY <2>8
<1>3. T = Nat
  <2>1. T \in SUBSET Nat
    OBVIOUS
  <2> HIDE DEF T
  <2> QED BY <1>1, <1>2, <2>1, SetInduction
<1> QED BY <1>3

\* g does on its own terms what the steps do wherever they are defined.
Follows(g, step, n, S, s) ==
  /\ g = [i \in 0 .. n |-> g[i]] /\ g[0] = s
  /\ \A i \in 1 .. n : g[i - 1] \in S => g[i] = step[i][g[i - 1]]

\* So it is their run: that is how a recursive function is unfolded.
LEMMA FollowsRun ==
  ASSUME NEW S, NEW s \in S, NEW n \in Nat, NEW step, IsStep(step, n, S),
         NEW g, Follows(g, step, n, S, s)
  PROVE IsRun(g, step, n, S, s)
<1> DEFINE T == {m \in Nat : m <= n => g[m] \in S}
<1>1. 0 \in T
  BY DEF Follows
<1>2. ASSUME NEW m \in T PROVE m + 1 \in T
  <2> SUFFICES ASSUME m + 1 <= n PROVE g[m + 1] \in S
    OBVIOUS
  <2>1. m \in Nat /\ m + 1 \in 1 .. n /\ (m + 1) - 1 = m /\ g[m] \in S
    OBVIOUS
  <2>2. g[m + 1] = step[m + 1][g[m]]
    BY <2>1 DEF Follows
  <2> QED BY <2>1, <2>2 DEF IsStep
<1>3. T = Nat
  <2>1. T \in SUBSET Nat
    OBVIOUS
  <2> HIDE DEF T
  <2> QED BY <1>1, <1>2, <2>1, SetInduction
<1>4. \A i \in 0 .. n : g[i] \in S
  BY <1>3
<1>5. \A i \in 1 .. n : g[i] = step[i][g[i - 1]]
  <2> TAKE i \in 1 .. n
  <2>1. i - 1 \in 0 .. n
    OBVIOUS
  <2> QED BY <1>4, <2>1 DEF Follows
<1>6. g \in [0 .. n -> S]
  BY <1>4 DEF Follows
<1> QED BY <1>5, <1>6 DEF IsRun, Follows

\* What Shift computes.
LEMMA ShiftRun ==
  ASSUME NEW v \in Nat, NEW n \in Nat
  PROVE \E f : /\ f \in [0 .. n -> Nat] /\ f[0] = v
               /\ \A i \in 1 .. n : f[i] = f[i - 1] \div 2
               /\ Shift(v, n) = f[n]
<1> DEFINE B(f) == [i \in 0 .. n |-> IF i = 0 THEN v ELSE f[i - 1] \div 2]
           h == CHOOSE f : f = B(f)
           step == [i \in 1 .. n |-> [x \in Nat |-> x \div 2]]
<1>1. IsStep(step, n, Nat)
  BY DEF IsStep
<1>2. \A i \in 1 .. n, x \in Nat : step[i][x] = x \div 2
  OBVIOUS
<1>3. Shift(v, n) = h[n]
  BY DEF Shift
<1> HIDE DEF step
<1>4. PICK f : IsRun(f, step, n, Nat, v)
  BY <1>1, RunExists
<1>5. f = B(f)
  <2>1. ASSUME NEW i \in 1 .. n PROVE f[i] = f[i - 1] \div 2
    <3>1. f[i - 1] \in Nat /\ f[i] = step[i][f[i - 1]]
      BY <1>4 DEF IsRun
    <3> QED BY <1>2, <3>1
  <2> QED BY <1>4, <2>1 DEF IsRun
<1>6. h = B(h)
  <2> HIDE DEF B
  <2> QED BY <1>5
<1> HIDE DEF h
<1>7. Follows(h, step, n, Nat, v)
  <2>1. \A i \in 0 .. n : h[i] = IF i = 0 THEN v ELSE h[i - 1] \div 2
    BY <1>6
  <2>2. h = [i \in 0 .. n |-> h[i]]
    BY <1>6
  <2>3. h[0] = v
    BY <2>1
  <2>4. ASSUME NEW i \in 1 .. n, h[i - 1] \in Nat PROVE h[i] = step[i][h[i - 1]]
    <3>1. i \in 0 .. n /\ i # 0
      OBVIOUS
    <3>2. h[i] = h[i - 1] \div 2
      BY <2>1, <3>1
    <3> QED BY <1>2, <2>4, <3>2
  <2> QED BY <2>2, <2>3, <2>4 DEF Follows
<1>8. IsRun(h, step, n, Nat, v)
  BY <1>1, <1>7, FollowsRun
<1>9. ASSUME NEW i \in 1 .. n PROVE h[i] = h[i - 1] \div 2
  <2>1. h[i - 1] \in Nat /\ h[i] = step[i][h[i - 1]]
    BY <1>8 DEF IsRun
  <2> QED BY <1>2, <2>1
<1> QED BY <1>3, <1>8, <1>9 DEF IsRun

\* What Value computes.
LEMMA ValueRun ==
  ASSUME NEW bits \in Seq(Nat)
  PROVE \E f : /\ f \in [0 .. Len(bits) -> Nat] /\ f[0] = 0
               /\ \A i \in 1 .. Len(bits) : f[i] = 2 * f[i - 1] + bits[i]
               /\ Value(bits) = f[Len(bits)]
<1> DEFINE n == Len(bits)
           S == Nat
           s0 == 0
           P(x, i) == 2 * x + bits[i]
           B(f) == [i \in 0 .. n |-> IF i = 0 THEN s0 ELSE 2 * f[i - 1] + bits[i]]
           h == CHOOSE f : f = B(f)
           step == [i \in 1 .. n |-> [x \in S |-> P(x, i)]]
<1>1. n \in Nat /\ s0 \in S
  OBVIOUS
<1>2. ASSUME NEW i \in 1 .. n, NEW x \in S PROVE P(x, i) \in S
  OBVIOUS
<1>3. Value(bits) = h[n]
  BY DEF Value
<1>4. \A f : B(f) = [i \in 0 .. n |-> IF i = 0 THEN s0 ELSE P(f[i - 1], i)]
  OBVIOUS
<1> HIDE DEF n, S, s0, P, B
<1>5. IsStep(step, n, S)
  BY <1>2 DEF IsStep
<1>6. \A i \in 1 .. n, x \in S : step[i][x] = P(x, i)
  OBVIOUS
<1> HIDE DEF step
<1>7. PICK f : IsRun(f, step, n, S, s0)
  BY <1>1, <1>5, RunExists
<1>8. f = B(f)
  <2>1. ASSUME NEW i \in 1 .. n PROVE f[i] = P(f[i - 1], i)
    <3>1. f[i - 1] \in S /\ f[i] = step[i][f[i - 1]]
      BY <1>1, <1>7 DEF IsRun
    <3> QED BY <1>6, <3>1
  <2>2. f = [i \in 0 .. n |-> f[i]] /\ f[0] = s0
    BY <1>7 DEF IsRun
  <2>3. ASSUME NEW i \in 0 .. n PROVE f[i] = IF i = 0 THEN s0 ELSE P(f[i - 1], i)
    <3>1. CASE i = 0
      BY <2>2, <3>1
    <3>2. CASE i # 0
      <4>1. i \in 1 .. n
        BY <1>1, <3>2
      <4> QED BY <2>1, <3>2, <4>1
    <3> QED BY <3>1, <3>2
  <2>4. B(f) = [i \in 0 .. n |-> IF i = 0 THEN s0 ELSE P(f[i - 1], i)]
    BY <1>4
  <2> QED BY <2>2, <2>3, <2>4
<1>9. h = B(h)
  BY <1>8
<1> HIDE DEF h
<1>10. Follows(h, step, n, S, s0)
  <2>1. \A i \in 0 .. n : h[i] = IF i = 0 THEN s0 ELSE P(h[i - 1], i)
    BY <1>4, <1>9
  <2>2. h = [i \in 0 .. n |-> h[i]]
    BY <1>4, <1>9
  <2>3. h[0] = s0
    BY <1>1, <2>1
  <2>4. ASSUME NEW i \in 1 .. n, h[i - 1] \in S PROVE h[i] = step[i][h[i - 1]]
    <3>1. i \in 0 .. n /\ i # 0
      OBVIOUS
    <3>2. h[i] = P(h[i - 1], i)
      BY <2>1, <3>1
    <3> QED BY <1>6, <2>4, <3>2
  <2> QED BY <2>2, <2>3, <2>4 DEF Follows
<1>11. IsRun(h, step, n, S, s0)
  BY <1>1, <1>5, <1>10, FollowsRun
<1>12. ASSUME NEW i \in 1 .. n PROVE h[i] = P(h[i - 1], i)
  <2>1. h[i - 1] \in S /\ h[i] = step[i][h[i - 1]]
    BY <1>1, <1>11 DEF IsRun
  <2> QED BY <1>6, <2>1
<1>13. h \in [0 .. n -> S] /\ h[0] = s0
  BY <1>11 DEF IsRun
<1> QED BY <1>3, <1>12, <1>13 DEF n, S, s0, P

\* What is written so far, and the zeros just passed.
Coders == [out : Seq(Nat), zeros : Nat]

\* One byte of Escape, and one of Unescape.
Put(s, b) ==
  LET clash == s.zeros >= 2 /\ b <= 3
  IN [out   |-> s.out \o (IF clash THEN <<3, b>> ELSE <<b>>),
      zeros |-> IF b # 0 THEN 0 ELSE IF clash THEN 1 ELSE s.zeros + 1]

Take(s, b) ==
  IF s.zeros >= 2 /\ b = 3 THEN [s EXCEPT !.zeros = 0]
  ELSE [out   |-> Append(s.out, b),
        zeros |-> IF b = 0 THEN s.zeros + 1 ELSE 0]

\* What Escape computes.
LEMMA EscapeRun ==
  ASSUME NEW bytes \in Seq(Nat)
  PROVE \E f : /\ f \in [0 .. Len(bytes) -> Coders] /\ f[0] = [out |-> << >>, zeros |-> 0]
               /\ \A i \in 1 .. Len(bytes) : f[i] = Put(f[i - 1], bytes[i])
               /\ Escape(bytes) = f[Len(bytes)].out
<1> DEFINE n == Len(bytes)
           S == Coders
           s0 == [out |-> << >>, zeros |-> 0]
           P(x, i) == Put(x, bytes[i])
           B(f) == [i \in 0 .. n |-> IF i = 0 THEN s0 ELSE 
                     LET s == f[i - 1]
                         b == bytes[i]
                         clash == s.zeros >= 2 /\ b <= 3
                     IN [out   |-> s.out \o (IF clash THEN <<3, b>> ELSE <<b>>),
                         zeros |-> IF b # 0 THEN 0 ELSE IF clash THEN 1 ELSE s.zeros + 1]]
           h == CHOOSE f : f = B(f)
           step == [i \in 1 .. n |-> [x \in S |-> P(x, i)]]
<1>1. n \in Nat /\ s0 \in S
  BY DEF Coders, Put
<1>2. ASSUME NEW i \in 1 .. n, NEW x \in S PROVE P(x, i) \in S
  <2>1. bytes[i] \in Nat /\ x.out \in Seq(Nat) /\ x.zeros \in Nat
    BY DEF Coders
  <2> QED BY <2>1 DEF Coders, Put
<1>3. Escape(bytes) = h[n].out
  BY DEF Escape
<1>4. \A f : B(f) = [i \in 0 .. n |-> IF i = 0 THEN s0 ELSE P(f[i - 1], i)]
  BY DEF Coders, Put
<1> HIDE DEF n, S, s0, P, B
<1>5. IsStep(step, n, S)
  BY <1>2 DEF IsStep
<1>6. \A i \in 1 .. n, x \in S : step[i][x] = P(x, i)
  OBVIOUS
<1> HIDE DEF step
<1>7. PICK f : IsRun(f, step, n, S, s0)
  BY <1>1, <1>5, RunExists
<1>8. f = B(f)
  <2>1. ASSUME NEW i \in 1 .. n PROVE f[i] = P(f[i - 1], i)
    <3>1. f[i - 1] \in S /\ f[i] = step[i][f[i - 1]]
      BY <1>1, <1>7 DEF IsRun
    <3> QED BY <1>6, <3>1
  <2>2. f = [i \in 0 .. n |-> f[i]] /\ f[0] = s0
    BY <1>7 DEF IsRun
  <2>3. ASSUME NEW i \in 0 .. n PROVE f[i] = IF i = 0 THEN s0 ELSE P(f[i - 1], i)
    <3>1. CASE i = 0
      BY <2>2, <3>1
    <3>2. CASE i # 0
      <4>1. i \in 1 .. n
        BY <1>1, <3>2
      <4> QED BY <2>1, <3>2, <4>1
    <3> QED BY <3>1, <3>2
  <2>4. B(f) = [i \in 0 .. n |-> IF i = 0 THEN s0 ELSE P(f[i - 1], i)]
    BY <1>4
  <2> QED BY <2>2, <2>3, <2>4
<1>9. h = B(h)
  BY <1>8
<1> HIDE DEF h
<1>10. Follows(h, step, n, S, s0)
  <2>1. \A i \in 0 .. n : h[i] = IF i = 0 THEN s0 ELSE P(h[i - 1], i)
    BY <1>4, <1>9
  <2>2. h = [i \in 0 .. n |-> h[i]]
    BY <1>4, <1>9
  <2>3. h[0] = s0
    BY <1>1, <2>1
  <2>4. ASSUME NEW i \in 1 .. n, h[i - 1] \in S PROVE h[i] = step[i][h[i - 1]]
    <3>1. i \in 0 .. n /\ i # 0
      OBVIOUS
    <3>2. h[i] = P(h[i - 1], i)
      BY <2>1, <3>1
    <3> QED BY <1>6, <2>4, <3>2
  <2> QED BY <2>2, <2>3, <2>4 DEF Follows
<1>11. IsRun(h, step, n, S, s0)
  BY <1>1, <1>5, <1>10, FollowsRun
<1>12. ASSUME NEW i \in 1 .. n PROVE h[i] = P(h[i - 1], i)
  <2>1. h[i - 1] \in S /\ h[i] = step[i][h[i - 1]]
    BY <1>1, <1>11 DEF IsRun
  <2> QED BY <1>6, <2>1
<1>13. h \in [0 .. n -> S] /\ h[0] = s0
  BY <1>11 DEF IsRun
<1> QED BY <1>3, <1>12, <1>13 DEF n, S, s0, P

\* What Unescape computes.
LEMMA UnescapeRun ==
  ASSUME NEW bytes \in Seq(Nat)
  PROVE \E f : /\ f \in [0 .. Len(bytes) -> Coders] /\ f[0] = [out |-> << >>, zeros |-> 0]
               /\ \A i \in 1 .. Len(bytes) : f[i] = Take(f[i - 1], bytes[i])
               /\ Unescape(bytes) = f[Len(bytes)].out
<1> DEFINE n == Len(bytes)
           S == Coders
           s0 == [out |-> << >>, zeros |-> 0]
           P(x, i) == Take(x, bytes[i])
           B(f) == [i \in 0 .. n |-> IF i = 0 THEN s0 ELSE 
                     LET s == f[i - 1]
                         b == bytes[i]
                     IN IF s.zeros >= 2 /\ b = 3 THEN [s EXCEPT !.zeros = 0]
                        ELSE [out   |-> Append(s.out, b),
                              zeros |-> IF b = 0 THEN s.zeros + 1 ELSE 0]]
           h == CHOOSE f : f = B(f)
           step == [i \in 1 .. n |-> [x \in S |-> P(x, i)]]
<1>1. n \in Nat /\ s0 \in S
  BY DEF Coders, Take
<1>2. ASSUME NEW i \in 1 .. n, NEW x \in S PROVE P(x, i) \in S
  <2>1. bytes[i] \in Nat /\ x.out \in Seq(Nat) /\ x.zeros \in Nat
    BY DEF Coders
  <2> QED BY <2>1 DEF Coders, Take
<1>3. Unescape(bytes) = h[n].out
  BY DEF Unescape
<1>4. \A f : B(f) = [i \in 0 .. n |-> IF i = 0 THEN s0 ELSE P(f[i - 1], i)]
  BY DEF Coders, Take
<1> HIDE DEF n, S, s0, P, B
<1>5. IsStep(step, n, S)
  BY <1>2 DEF IsStep
<1>6. \A i \in 1 .. n, x \in S : step[i][x] = P(x, i)
  OBVIOUS
<1> HIDE DEF step
<1>7. PICK f : IsRun(f, step, n, S, s0)
  BY <1>1, <1>5, RunExists
<1>8. f = B(f)
  <2>1. ASSUME NEW i \in 1 .. n PROVE f[i] = P(f[i - 1], i)
    <3>1. f[i - 1] \in S /\ f[i] = step[i][f[i - 1]]
      BY <1>1, <1>7 DEF IsRun
    <3> QED BY <1>6, <3>1
  <2>2. f = [i \in 0 .. n |-> f[i]] /\ f[0] = s0
    BY <1>7 DEF IsRun
  <2>3. ASSUME NEW i \in 0 .. n PROVE f[i] = IF i = 0 THEN s0 ELSE P(f[i - 1], i)
    <3>1. CASE i = 0
      BY <2>2, <3>1
    <3>2. CASE i # 0
      <4>1. i \in 1 .. n
        BY <1>1, <3>2
      <4> QED BY <2>1, <3>2, <4>1
    <3> QED BY <3>1, <3>2
  <2>4. B(f) = [i \in 0 .. n |-> IF i = 0 THEN s0 ELSE P(f[i - 1], i)]
    BY <1>4
  <2> QED BY <2>2, <2>3, <2>4
<1>9. h = B(h)
  BY <1>8
<1> HIDE DEF h
<1>10. Follows(h, step, n, S, s0)
  <2>1. \A i \in 0 .. n : h[i] = IF i = 0 THEN s0 ELSE P(h[i - 1], i)
    BY <1>4, <1>9
  <2>2. h = [i \in 0 .. n |-> h[i]]
    BY <1>4, <1>9
  <2>3. h[0] = s0
    BY <1>1, <2>1
  <2>4. ASSUME NEW i \in 1 .. n, h[i - 1] \in S PROVE h[i] = step[i][h[i - 1]]
    <3>1. i \in 0 .. n /\ i # 0
      OBVIOUS
    <3>2. h[i] = P(h[i - 1], i)
      BY <2>1, <3>1
    <3> QED BY <1>6, <2>4, <3>2
  <2> QED BY <2>2, <2>3, <2>4 DEF Follows
<1>11. IsRun(h, step, n, S, s0)
  BY <1>1, <1>5, <1>10, FollowsRun
<1>12. ASSUME NEW i \in 1 .. n PROVE h[i] = P(h[i - 1], i)
  <2>1. h[i - 1] \in S /\ h[i] = step[i][h[i - 1]]
    BY <1>1, <1>11 DEF IsRun
  <2> QED BY <1>6, <2>1
<1>13. h \in [0 .. n -> S] /\ h[0] = s0
  BY <1>11 DEF IsRun
<1> QED BY <1>3, <1>12, <1>13 DEF n, S, s0, P

\* What AnnexB computes.
LEMMA AnnexBRun ==
  ASSUME NEW nalus \in Seq(Seq(Nat))
  PROVE \E f : /\ f \in [0 .. Len(nalus) -> Seq(Nat)] /\ f[0] = << >>
               /\ \A i \in 1 .. Len(nalus) : f[i] = f[i - 1] \o (StartCode \o nalus[i])
               /\ AnnexB(nalus) = f[Len(nalus)]
<1> DEFINE n == Len(nalus)
           S == Seq(Nat)
           s0 == << >>
           P(x, i) == x \o (StartCode \o nalus[i])
           B(f) == [i \in 0 .. n |-> IF i = 0 THEN s0 ELSE f[i - 1] \o (StartCode \o nalus[i])]
           h == CHOOSE f : f = B(f)
           step == [i \in 1 .. n |-> [x \in S |-> P(x, i)]]
<1>1. n \in Nat /\ s0 \in S
  OBVIOUS
<1>2. ASSUME NEW i \in 1 .. n, NEW x \in S PROVE P(x, i) \in S
  <2>1. nalus[i] \in Seq(Nat) /\ StartCode \in Seq(Nat)
    BY DEF StartCode
  <2> QED BY <2>1
<1>3. AnnexB(nalus) = h[n]
  BY DEF AnnexB
<1>4. \A f : B(f) = [i \in 0 .. n |-> IF i = 0 THEN s0 ELSE P(f[i - 1], i)]
  OBVIOUS
<1> HIDE DEF n, S, s0, P, B
<1>5. IsStep(step, n, S)
  BY <1>2 DEF IsStep
<1>6. \A i \in 1 .. n, x \in S : step[i][x] = P(x, i)
  OBVIOUS
<1> HIDE DEF step
<1>7. PICK f : IsRun(f, step, n, S, s0)
  BY <1>1, <1>5, RunExists
<1>8. f = B(f)
  <2>1. ASSUME NEW i \in 1 .. n PROVE f[i] = P(f[i - 1], i)
    <3>1. f[i - 1] \in S /\ f[i] = step[i][f[i - 1]]
      BY <1>1, <1>7 DEF IsRun
    <3> QED BY <1>6, <3>1
  <2>2. f = [i \in 0 .. n |-> f[i]] /\ f[0] = s0
    BY <1>7 DEF IsRun
  <2>3. ASSUME NEW i \in 0 .. n PROVE f[i] = IF i = 0 THEN s0 ELSE P(f[i - 1], i)
    <3>1. CASE i = 0
      BY <2>2, <3>1
    <3>2. CASE i # 0
      <4>1. i \in 1 .. n
        BY <1>1, <3>2
      <4> QED BY <2>1, <3>2, <4>1
    <3> QED BY <3>1, <3>2
  <2>4. B(f) = [i \in 0 .. n |-> IF i = 0 THEN s0 ELSE P(f[i - 1], i)]
    BY <1>4
  <2> QED BY <2>2, <2>3, <2>4
<1>9. h = B(h)
  BY <1>8
<1> HIDE DEF h
<1>10. Follows(h, step, n, S, s0)
  <2>1. \A i \in 0 .. n : h[i] = IF i = 0 THEN s0 ELSE P(h[i - 1], i)
    BY <1>4, <1>9
  <2>2. h = [i \in 0 .. n |-> h[i]]
    BY <1>4, <1>9
  <2>3. h[0] = s0
    BY <1>1, <2>1
  <2>4. ASSUME NEW i \in 1 .. n, h[i - 1] \in S PROVE h[i] = step[i][h[i - 1]]
    <3>1. i \in 0 .. n /\ i # 0
      OBVIOUS
    <3>2. h[i] = P(h[i - 1], i)
      BY <2>1, <3>1
    <3> QED BY <1>6, <2>4, <3>2
  <2> QED BY <2>2, <2>3, <2>4 DEF Follows
<1>11. IsRun(h, step, n, S, s0)
  BY <1>1, <1>5, <1>10, FollowsRun
<1>12. ASSUME NEW i \in 1 .. n PROVE h[i] = P(h[i - 1], i)
  <2>1. h[i - 1] \in S /\ h[i] = step[i][h[i - 1]]
    BY SMTT(30), <1>1, <1>11 DEF IsRun
  <2> QED BY <1>6, <2>1
<1>13. h \in [0 .. n -> S] /\ h[0] = s0
  BY <1>11 DEF IsRun
<1> QED BY <1>3, <1>12, <1>13 DEF n, S, s0, P

\* What StartPositions computes.
LEMMA FoundRun ==
  ASSUME NEW data \in Seq(Nat), Len(data) > 4
  PROVE \E f : /\ f \in [0 .. Len(data) -> Seq(Nat)] /\ f[0] = << >>
               /\ \A i \in 1 .. Len(data) : f[i] = IF CodeLength(data, i) = 0 THEN f[i - 1] ELSE Append(f[i - 1], i)
               /\ StartPositions(data) = f[Len(data)]
<1> DEFINE n == Len(data)
           S == Seq(Nat)
           s0 == << >>
           P(x, i) == IF CodeLength(data, i) = 0 THEN x ELSE Append(x, i)
           B(f) == [i \in 0 .. n |-> IF i = 0 THEN s0 ELSE IF CodeLength(data, i) = 0 THEN f[i - 1] ELSE Append(f[i - 1], i)]
           h == CHOOSE f : f = B(f)
           step == [i \in 1 .. n |-> [x \in S |-> P(x, i)]]
<1>1. n \in Nat /\ s0 \in S
  OBVIOUS
<1>2. ASSUME NEW i \in 1 .. n, NEW x \in S PROVE P(x, i) \in S
  OBVIOUS
<1>3. StartPositions(data) = h[n]
  BY DEF StartPositions
<1>4. \A f : B(f) = [i \in 0 .. n |-> IF i = 0 THEN s0 ELSE P(f[i - 1], i)]
  OBVIOUS
<1> HIDE DEF n, S, s0, P, B
<1>5. IsStep(step, n, S)
  BY <1>2 DEF IsStep
<1>6. \A i \in 1 .. n, x \in S : step[i][x] = P(x, i)
  OBVIOUS
<1> HIDE DEF step
<1>7. PICK f : IsRun(f, step, n, S, s0)
  BY <1>1, <1>5, RunExists
<1>8. f = B(f)
  <2>1. ASSUME NEW i \in 1 .. n PROVE f[i] = P(f[i - 1], i)
    <3>1. f[i - 1] \in S /\ f[i] = step[i][f[i - 1]]
      BY <1>1, <1>7 DEF IsRun
    <3> QED BY <1>6, <3>1
  <2>2. f = [i \in 0 .. n |-> f[i]] /\ f[0] = s0
    BY <1>7 DEF IsRun
  <2>3. ASSUME NEW i \in 0 .. n PROVE f[i] = IF i = 0 THEN s0 ELSE P(f[i - 1], i)
    <3>1. CASE i = 0
      BY <2>2, <3>1
    <3>2. CASE i # 0
      <4>1. i \in 1 .. n
        BY <1>1, <3>2
      <4> QED BY <2>1, <3>2, <4>1
    <3> QED BY <3>1, <3>2
  <2>4. B(f) = [i \in 0 .. n |-> IF i = 0 THEN s0 ELSE P(f[i - 1], i)]
    BY <1>4
  <2> QED BY <2>2, <2>3, <2>4
<1>9. h = B(h)
  BY <1>8
<1> HIDE DEF h
<1>10. Follows(h, step, n, S, s0)
  <2>1. \A i \in 0 .. n : h[i] = IF i = 0 THEN s0 ELSE P(h[i - 1], i)
    BY <1>4, <1>9
  <2>2. h = [i \in 0 .. n |-> h[i]]
    BY <1>4, <1>9
  <2>3. h[0] = s0
    BY <1>1, <2>1
  <2>4. ASSUME NEW i \in 1 .. n, h[i - 1] \in S PROVE h[i] = step[i][h[i - 1]]
    <3>1. i \in 0 .. n /\ i # 0
      OBVIOUS
    <3>2. h[i] = P(h[i - 1], i)
      BY <2>1, <3>1
    <3> QED BY <1>6, <2>4, <3>2
  <2> QED BY <2>2, <2>3, <2>4 DEF Follows
<1>11. IsRun(h, step, n, S, s0)
  BY <1>1, <1>5, <1>10, FollowsRun
<1>12. ASSUME NEW i \in 1 .. n PROVE h[i] = P(h[i - 1], i)
  <2>1. h[i - 1] \in S /\ h[i] = step[i][h[i - 1]]
    BY <1>1, <1>11 DEF IsRun
  <2> QED BY <1>6, <2>1
<1>13. h \in [0 .. n -> S] /\ h[0] = s0
  BY <1>11 DEF IsRun
<1> QED BY <1>3, <1>12, <1>13 DEF n, S, s0, P

-----------------------------------------------------------------------------
(* Bits and numbers.                                                       *)

\* v >> n, by one more shift each time.
LEMMA ShiftSteps ==
  ASSUME NEW v \in Nat, NEW n \in Nat
  PROVE /\ Shift(v, n) \in Nat /\ Shift(v, 0) = v
        /\ Shift(v, n + 1) = Shift(v, n) \div 2
<1>1. PICK f : /\ f \in [0 .. n -> Nat] /\ f[0] = v
               /\ \A i \in 1 .. n : f[i] = f[i - 1] \div 2
               /\ Shift(v, n) = f[n]
  BY ShiftRun
<1>2. PICK g : /\ g \in [0 .. n + 1 -> Nat] /\ g[0] = v
               /\ \A i \in 1 .. n + 1 : g[i] = g[i - 1] \div 2
               /\ Shift(v, n + 1) = g[n + 1]
  <2>1. n + 1 \in Nat
    OBVIOUS
  <2> QED BY <2>1, ShiftRun
<1>3. Shift(v, 0) = v
  BY ShiftRun
<1> DEFINE T == {i \in Nat : i <= n => f[i] = g[i]}
<1>4. 0 \in T
  BY <1>1, <1>2
<1>5. ASSUME NEW i \in T PROVE i + 1 \in T
  <2> SUFFICES ASSUME i + 1 <= n PROVE f[i + 1] = g[i + 1]
    OBVIOUS
  <2>1. /\ i \in Nat /\ i + 1 \in 1 .. n /\ i + 1 \in 1 .. n + 1
        /\ (i + 1) - 1 = i /\ f[i] = g[i]
    OBVIOUS
  <2> QED BY <1>1, <1>2, <2>1
<1>6. T = Nat
  <2>1. T \in SUBSET Nat
    OBVIOUS
  <2> HIDE DEF T
  <2> QED BY <1>4, <1>5, <2>1, SetInduction
<1>7. f[n] = g[n]
  BY <1>6
<1>8. n + 1 \in 1 .. n + 1 /\ (n + 1) - 1 = n
  OBVIOUS
<1> QED BY <1>1, <1>2, <1>3, <1>7, <1>8

\* A bit string.
Bits == Seq({0, 1})

\* bs_write writes bits, n of them.
LEMMA UBits ==
  ASSUME NEW v \in Nat, NEW n \in Nat
  PROVE /\ U(v, n) \in Bits /\ Len(U(v, n)) = n
        /\ \A i \in 1 .. n : U(v, n)[i] = Shift(v, n - i) % 2
<1>1. \A i \in 1 .. n : n - i \in Nat
  OBVIOUS
<1>2. \A i \in 1 .. n : Shift(v, n - i) \in Nat
  BY <1>1, ShiftSteps
<1>3. \A i \in 1 .. n : Shift(v, n - i) % 2 \in {0, 1}
  BY <1>2
<1>4. U(v, n) \in [1 .. n -> {0, 1}]
  BY <1>3 DEF U
<1> QED BY <1>4 DEF U, Bits

\* What is written is read back, if it fits.
LEMMA ValueOfU ==
  ASSUME NEW v \in Nat, NEW n \in Nat, Shift(v, n) = 0
  PROVE Value(U(v, n)) = v
<1> DEFINE s == U(v, n)
<1>1. s \in Seq(Nat) /\ Len(s) = n /\ \A i \in 1 .. n : s[i] = Shift(v, n - i) % 2
  <2>1. s \in Seq({0, 1})
    BY UBits DEF Bits
  <2> QED BY <2>1, UBits
<1> HIDE DEF s
<1>2. PICK f : /\ f \in [0 .. n -> Nat] /\ f[0] = 0
               /\ \A i \in 1 .. n : f[i] = 2 * f[i - 1] + s[i]
               /\ Value(s) = f[n]
  BY <1>1, ValueRun
<1> DEFINE T == {i \in Nat : i <= n => f[i] = Shift(v, n - i)}
<1>3. 0 \in T
  BY <1>2
<1>4. ASSUME NEW i \in T PROVE i + 1 \in T
  <2> SUFFICES ASSUME i + 1 <= n PROVE f[i + 1] = Shift(v, n - (i + 1))
    OBVIOUS
  <2> DEFINE k == n - (i + 1)
  <2>1. /\ i \in Nat /\ i + 1 \in 1 .. n /\ (i + 1) - 1 = i /\ f[i] = Shift(v, n - i)
        /\ k \in Nat /\ n - i = k + 1
    OBVIOUS
  <2>2. f[i + 1] = 2 * f[i] + s[i + 1] /\ s[i + 1] = Shift(v, k) % 2
    BY <1>1, <1>2, <2>1
  <2> HIDE DEF k
  <2>3. Shift(v, k) \in Nat /\ Shift(v, k + 1) = Shift(v, k) \div 2
    BY <2>1, ShiftSteps
  <2>4. f[i + 1] = 2 * (Shift(v, k) \div 2) + (Shift(v, k) % 2)
    BY <2>1, <2>2, <2>3
  <2>5. f[i + 1] = Shift(v, k)
    BY <2>3, <2>4
  <2> QED BY <2>5 DEF k
<1>5. T = Nat
  <2>1. T \in SUBSET Nat
    OBVIOUS
  <2> HIDE DEF T
  <2> QED BY <1>3, <1>4, <2>1, SetInduction
<1>6. f[n] = Shift(v, n - n)
  BY <1>5
<1>7. f[n] = v
  BY <1>6, ShiftSteps
<1> QED BY <1>2, <1>7 DEF s

\* What is read is what a writer of so many bits would write.
LEMMA UOfValue ==
  ASSUME NEW s \in Bits
  PROVE Value(s) \in Nat /\ U(Value(s), Len(s)) = s
<1> DEFINE n == Len(s)
<1>1. /\ s \in Seq(Nat) /\ n \in Nat /\ DOMAIN s = 1 .. n
      /\ \A i \in 1 .. n : s[i] \in {0, 1}
  BY DEF Bits
<1>2. PICK f : /\ f \in [0 .. n -> Nat] /\ f[0] = 0
               /\ \A i \in 1 .. n : f[i] = 2 * f[i - 1] + s[i]
               /\ Value(s) = f[n]
  BY <1>1, ValueRun
<1> HIDE DEF n
<1> DEFINE v == f[n]
           T == {k \in Nat : k <= n => Shift(v, k) = f[n - k]}
<1>3. v \in Nat
  BY <1>1, <1>2
<1> HIDE DEF v
<1>4. 0 \in T
  <2>1. Shift(v, 0) = v /\ n - 0 = n /\ 0 \in Nat
    BY <1>1, <1>3, ShiftSteps
  <2> QED BY <2>1 DEF v
<1>5. ASSUME NEW k \in T PROVE k + 1 \in T
  <2> SUFFICES ASSUME k + 1 <= n PROVE Shift(v, k + 1) = f[n - (k + 1)]
    OBVIOUS
  <2> DEFINE i == n - k
  <2>1. /\ k \in Nat /\ i \in 1 .. n /\ i - 1 = n - (k + 1) /\ Shift(v, k) = f[i]
    BY <1>1
  <2> HIDE DEF i
  <2>2. f[i] = 2 * f[i - 1] + s[i] /\ f[i - 1] \in Nat /\ s[i] \in {0, 1}
    BY <1>1, <1>2, <2>1
  <2>3. f[i] \div 2 = f[i - 1]
    BY <2>2
  <2> QED BY ZenonT(30), <1>3, <2>1, <2>3, ShiftSteps
<1>6. T = Nat
  <2>1. T \in SUBSET Nat
    OBVIOUS
  <2> HIDE DEF T
  <2> QED BY <1>4, <1>5, <2>1, SetInduction
<1>7. ASSUME NEW i \in 1 .. n PROVE U(v, n)[i] = s[i]
  <2>1. n - i \in Nat /\ n - i <= n /\ n - (n - i) = i
    BY <1>1
  <2>2. Shift(v, n - i) = f[i]
    BY <1>6, <2>1
  <2>3. f[i] = 2 * f[i - 1] + s[i] /\ f[i - 1] \in Nat /\ s[i] \in {0, 1}
    BY <1>1, <1>2
  <2>4. U(v, n)[i] = f[i] % 2
    BY <1>1, <1>3, <2>2, UBits
  <2> QED BY <2>3, <2>4
<1>8. U(v, n) \in Seq({0, 1}) /\ Len(U(v, n)) = n /\ s \in Seq({0, 1})
  BY <1>1, <1>3, UBits DEF Bits
<1>9. U(v, n) = s
  BY <1>1, <1>7, <1>8, SeqEqual DEF n
<1> QED BY <1>2, <1>3, <1>9 DEF v, n

-----------------------------------------------------------------------------
(* Exp-Golomb codes and fields.                                            *)

\* The values Exp-Golomb codes are used for, and the values they write.
Codable == {n \in Nat : n <= 16382}
Counts == {n \in Nat : 1 <= n /\ n <= 16383}

\* The code of a value writes the value and one.
LEMMA CodableAre ==
  ASSUME NEW v \in Codable
  PROVE v \in Nat /\ v + 1 \in Nat /\ v + 1 \in Counts /\ (v + 1) - 1 = v
<1>1. v \in Nat /\ v <= 16382
  BY DEF Codable
<1>2. v + 1 \in Nat /\ 1 <= v + 1 /\ v + 1 <= 16383 /\ (v + 1) - 1 = v
  BY <1>1
<1>3. v + 1 \in Counts
  BY <1>2 DEF Counts
<1> QED BY <1>1, <1>2, <1>3

\* Fourteen bits are enough for them.
LEMMA FourteenShifts ==
  ASSUME NEW v \in Counts
  PROVE Shift(v, 14) = 0
<1>0. v \in Nat /\ v <= 16383
  BY DEF Counts
<1>1. Shift(v, 0) = v
  <2>1. 0 \in Nat
    OBVIOUS
  <2> QED BY <1>0, <2>1, ShiftSteps
<1>2. \A n \in Nat : Shift(v, n) \in Nat /\ Shift(v, n + 1) = Shift(v, n) \div 2
  <2> TAKE n \in Nat
  <2>1. v \in Nat
    BY <1>0
  <2> QED BY <2>1, ShiftSteps
<1>3. Shift(v, 1) <= 8191 /\ Shift(v, 1) \in Nat
  <2>1. Shift(v, 0 + 1) = Shift(v, 0) \div 2 /\ Shift(v, 0 + 1) \in Nat
    BY <1>2
  <2>2. 0 + 1 = 1 /\ v \div 2 <= 8191
    BY <1>0
  <2> QED BY <1>1, <2>1, <2>2
<1>4. Shift(v, 2) <= 4095 /\ Shift(v, 2) \in Nat
  BY <1>2, <1>3
<1>5. Shift(v, 3) <= 2047 /\ Shift(v, 3) \in Nat
  BY <1>2, <1>4
<1>6. Shift(v, 4) <= 1023 /\ Shift(v, 4) \in Nat
  BY <1>2, <1>5
<1>7. Shift(v, 5) <= 511 /\ Shift(v, 5) \in Nat
  BY <1>2, <1>6
<1>8. Shift(v, 6) <= 255 /\ Shift(v, 6) \in Nat
  BY <1>2, <1>7
<1>9. Shift(v, 7) <= 127 /\ Shift(v, 7) \in Nat
  BY <1>2, <1>8
<1>10. Shift(v, 8) <= 63 /\ Shift(v, 8) \in Nat
  BY <1>2, <1>9
<1>11. Shift(v, 9) <= 31 /\ Shift(v, 9) \in Nat
  BY <1>2, <1>10
<1>12. Shift(v, 10) <= 15 /\ Shift(v, 10) \in Nat
  BY <1>2, <1>11
<1>13. Shift(v, 11) <= 7 /\ Shift(v, 11) \in Nat
  BY <1>2, <1>12
<1>14. Shift(v, 12) <= 3 /\ Shift(v, 12) \in Nat
  BY <1>2, <1>13
<1>15. Shift(v, 13) <= 1 /\ Shift(v, 13) \in Nat
  BY <1>2, <1>14
<1>16. Shift(v, 14) = Shift(v, 13) \div 2
  BY <1>2
<1> QED BY <1>15, <1>16

\* The bits of a number: none is left, and the first is one.
LEMMA BitLengthIs ==
  ASSUME NEW v \in Counts
  PROVE /\ BitLength(v) \in 1 .. 14
        /\ Shift(v, BitLength(v)) = 0
        /\ Shift(v, BitLength(v) - 1) = 1
<1> DEFINE T == {n \in Nat : Shift(v, n) = 0}
<1>0. v \in Nat /\ v # 0 /\ Shift(v, 14) = 0
  <2>1. v \in Nat /\ v # 0
    BY DEF Counts
  <2> QED BY <2>1, FourteenShifts
<1>1. 14 \in T /\ T \in SUBSET Nat
  BY <1>0
<1>2. PICK l \in T : \A m \in T : l <= m
  <2> HIDE DEF T
  <2> QED BY <1>1, LeastNat
<1>3. l \in 0 .. 14 /\ Shift(v, l) = 0
  BY <1>1, <1>2
<1>4. \A k \in 0 .. l - 1 : Shift(v, k) # 0
  <2> TAKE k \in 0 .. l - 1
  <2>1. k \in Nat /\ k < l
    BY <1>3
  <2> QED BY <1>2, <1>3, <2>1
<1>5. /\ BitLength(v) \in 0 .. 32
      /\ Shift(v, BitLength(v)) = 0
      /\ \A k \in 0 .. BitLength(v) - 1 : Shift(v, k) # 0
  <2> HIDE DEF T
  <2>1. l \in 0 .. 32
    BY <1>3
  <2> QED BY <1>3, <1>4, <2>1 DEF BitLength
<1> DEFINE n == BitLength(v)
<1> HIDE DEF n
<1>6. n \in 0 .. 32 /\ Shift(v, n) = 0 /\ \A k \in 0 .. n - 1 : Shift(v, k) # 0
  BY <1>5 DEF n
<1>7. n <= 14
  <2>1. CASE n > 14
    <3>1. 14 \in 0 .. n - 1
      BY <1>6, <2>1
    <3> QED BY <1>0, <1>6, <3>1
  <2> QED BY <1>6, <2>1
<1>8. n # 0
  <2>1. 0 \in Nat
    OBVIOUS
  <2>2. Shift(v, 0) = v
    BY <1>0, <2>1, ShiftSteps
  <2> QED BY <1>0, <1>6, <2>2
<1>9. n - 1 \in Nat /\ n - 1 \in 0 .. n - 1 /\ (n - 1) + 1 = n
  BY <1>6, <1>8
<1>10. Shift(v, n - 1) \in Nat /\ Shift(v, n - 1) # 0 /\ Shift(v, n) = Shift(v, n - 1) \div 2
  <2>1. Shift(v, (n - 1) + 1) = Shift(v, n - 1) \div 2 /\ Shift(v, n - 1) \in Nat
    BY <1>0, <1>9, ShiftSteps
  <2> QED BY <1>6, <1>9, <2>1
<1>11. Shift(v, n - 1) = 1
  <2>1. \A x \in Nat : x # 0 /\ x \div 2 = 0 => x = 1
    OBVIOUS
  <2> QED BY <1>6, <1>10, <2>1
<1> QED BY <1>6, <1>7, <1>8, <1>11 DEF n

\* Zeros.
LEMMA ZerosBits ==
  ASSUME NEW n \in Nat
  PROVE Zeros(n) \in Bits /\ Len(Zeros(n)) = n /\ \A i \in 1 .. n : Zeros(n)[i] = 0
  BY DEF Zeros, Bits

\* bs_write_ue: as many zeros as bits follow the one.
LEMMA UeBits ==
  ASSUME NEW v \in Codable
  PROVE \E n \in 1 .. 14 :
          /\ Shift(v + 1, n) = 0
          /\ Ue(v) \in Bits /\ Len(Ue(v)) = 2 * n - 1
          /\ \A i \in 1 .. n - 1 : Ue(v)[i] = 0
          /\ Ue(v)[n] = 1
          /\ \A i \in 1 .. n : Ue(v)[(n - 1) + i] = U(v + 1, n)[i]
<1> DEFINE n == BitLength(v + 1)  z == Zeros(n - 1)  u == U(v + 1, n)
<1>1. v + 1 \in Counts /\ v + 1 \in Nat
  BY CodableAre
<1>2. n \in 1 .. 14 /\ Shift(v + 1, n) = 0 /\ Shift(v + 1, n - 1) = 1
  <2> DEFINE w == v + 1
  <2>1. w \in Counts
    BY <1>1
  <2> HIDE DEF w
  <2>2. BitLength(w) \in 1 .. 14 /\ Shift(w, BitLength(w)) = 0 /\ Shift(w, BitLength(w) - 1) = 1
    BY <2>1, BitLengthIs
  <2> QED BY <2>2 DEF w
<1>3. Ue(v) = z \o u
  BY DEF Ue
<1> HIDE DEF n
<1>4. n - 1 \in Nat /\ n \in Nat
  BY <1>2
<1>5. z \in Seq({0, 1}) /\ Len(z) = n - 1 /\ \A i \in 1 .. n - 1 : z[i] = 0
  BY <1>4, ZerosBits DEF Bits
<1>6. u \in Seq({0, 1}) /\ Len(u) = n /\ \A i \in 1 .. n : u[i] = Shift(v + 1, n - i) % 2
  <2> DEFINE w == v + 1
  <2>1. w \in Nat
    BY SMTT(30), <1>1
  <2> HIDE DEF w
  <2>2. U(w, n) \in Seq({0, 1}) /\ Len(U(w, n)) = n /\ \A i \in 1 .. n : U(w, n)[i] = Shift(w, n - i) % 2
    BY <1>4, <2>1, UBits DEF Bits
  <2> QED BY <2>2 DEF w
<1> HIDE DEF z, u
<1>7. /\ Ue(v) \in Seq({0, 1}) /\ Len(Ue(v)) = 2 * n - 1
      /\ \A i \in 1 .. n - 1 : Ue(v)[i] = z[i]
      /\ \A i \in 1 .. n : Ue(v)[(n - 1) + i] = u[i]
  BY <1>2, <1>3, <1>5, <1>6
<1>8. u[1] = 1
  BY <1>2, <1>6
<1>9. Ue(v)[n] = 1
  <2>1. (n - 1) + 1 = n /\ 1 \in 1 .. n
    BY <1>2
  <2> QED BY <1>7, <1>8, <2>1
<1> QED BY <1>2, <1>5, <1>7, <1>9 DEF u, Bits

\* What stands at a place stands there piece by piece.
LEMMA AtSplit ==
  ASSUME NEW data, NEW a \in Nat, NEW S, NEW x \in Seq(S), NEW y \in Seq(S),
         At(data, a, x \o y)
  PROVE At(data, a, x) /\ At(data, a + Len(x), y)
<1>1. /\ DOMAIN x = 1 .. Len(x) /\ DOMAIN y = 1 .. Len(y) /\ Len(x) \in Nat /\ Len(y) \in Nat
      /\ DOMAIN (x \o y) = 1 .. Len(x) + Len(y)
      /\ \A k \in 1 .. Len(x) : (x \o y)[k] = x[k]
      /\ \A k \in 1 .. Len(y) : (x \o y)[Len(x) + k] = y[k]
  OBVIOUS
<1>2. \A k \in 1 .. Len(x) : k \in DOMAIN (x \o y)
  BY <1>1
<1>3. At(data, a, x)
  BY <1>1, <1>2 DEF At
<1>4. ASSUME NEW k \in 1 .. Len(y)
      PROVE a + Len(x) + k - 1 \in DOMAIN data /\ data[a + Len(x) + k - 1] = y[k]
  <2>1. Len(x) + k \in DOMAIN (x \o y) /\ a + (Len(x) + k) - 1 = a + Len(x) + k - 1
    BY <1>1
  <2> QED BY <1>1, <2>1 DEF At
<1> QED BY <1>1, <1>3, <1>4 DEF At

\* Positions in a bit string, and lengths of a field.
Positive == Nat \ {0}

\* A field of n bits.
LEMMA ReadU ==
  ASSUME NEW bits, NEW s, s.at \in Positive, NEW v \in Nat, NEW n \in Positive,
         Shift(v, n) = 0, At(bits, s.at, U(v, n))
  PROVE ReadField(bits, s, n) = [at |-> s.at + n, values |-> Append(s.values, v)]
<1> DEFINE a == s.at
           w == [i \in 1 .. n |-> bits[a + i - 1]]
<1> USE DEF Positive
<1>1. U(v, n) \in Seq({0, 1}) /\ Len(U(v, n)) = n /\ DOMAIN U(v, n) = 1 .. n
  BY UBits DEF Bits
<1>2. \A i \in 1 .. n : w[i] = U(v, n)[i]
  BY <1>1 DEF At
<1>3. w = U(v, n)
  BY <1>1, <1>2
<1>4. Value(w) = v
  BY <1>3, ValueOfU
<1>5. ReadField(bits, s, n) = [at |-> s.at + n, values |-> Append(s.values, Value(w))]
  <2>1. n > 0
    OBVIOUS
  <2> QED BY <2>1 DEF ReadField
<1> QED BY <1>4, <1>5

\* An Exp-Golomb code.
LEMMA ReadUe ==
  ASSUME NEW bits, NEW s, s.at \in Nat \ {0}, NEW v \in Codable,
         At(bits, s.at, Ue(v))
  PROVE ReadField(bits, s, 0) = [at |-> s.at + Len(Ue(v)), values |-> Append(s.values, v)]
<1> DEFINE a == s.at
<1>1. PICK n \in 1 .. 14 :
        /\ Shift(v + 1, n) = 0
        /\ Ue(v) \in Bits /\ Len(Ue(v)) = 2 * n - 1
        /\ \A i \in 1 .. n - 1 : Ue(v)[i] = 0
        /\ Ue(v)[n] = 1
        /\ \A i \in 1 .. n : Ue(v)[(n - 1) + i] = U(v + 1, n)[i]
  BY UeBits
<1> DEFINE z == CHOOSE k \in 0 .. 31 :
                  bits[a + k] = 1 /\ \A i \in 0 .. k - 1 : bits[a + i] = 0
<1>2. \A k \in 1 .. 2 * n - 1 : bits[a + k - 1] = Ue(v)[k]
  <2>1. DOMAIN Ue(v) = 1 .. 2 * n - 1
    BY <1>1 DEF Bits
  <2> QED BY <2>1 DEF At
<1>3. \A i \in 0 .. n - 2 : bits[a + i] = 0
  <2> TAKE i \in 0 .. n - 2
  <2>1. i + 1 \in 1 .. n - 1 /\ i + 1 \in 1 .. 2 * n - 1 /\ a + (i + 1) - 1 = a + i
    OBVIOUS
  <2> QED BY <1>1, <1>2, <2>1
<1>4. bits[a + (n - 1)] = 1
  <2>1. n \in 1 .. 2 * n - 1 /\ a + n - 1 = a + (n - 1)
    OBVIOUS
  <2> QED BY <1>1, <1>2, <2>1
<1>5. \E k \in 0 .. 31 : bits[a + k] = 1 /\ \A i \in 0 .. k - 1 : bits[a + i] = 0
  <2>1. n - 1 \in 0 .. 31 /\ (n - 1) - 1 = n - 2
    OBVIOUS
  <2> QED BY <1>3, <1>4, <2>1
<1>6. z \in 0 .. 31 /\ bits[a + z] = 1 /\ \A i \in 0 .. z - 1 : bits[a + i] = 0
  BY <1>5
<1> HIDE DEF z
<1>7. z = n - 1
  <2>1. CASE z < n - 1
    <3>1. z \in 0 .. n - 2
      BY <1>6, <2>1
    <3> QED BY <1>3, <1>6, <3>1
  <2>2. CASE z > n - 1
    <3>1. n - 1 \in 0 .. z - 1
      BY <1>6, <2>2
    <3> QED BY <1>4, <1>6, <3>1
  <2> QED BY <1>6, <2>1, <2>2
<1> DEFINE w == [i \in 1 .. z + 1 |-> bits[a + z + i - 1]]
<1> DEFINE m == v + 1
<1>14. m \in Nat /\ n \in Nat
  BY DEF Codable
<1>8. U(m, n) \in Seq({0, 1}) /\ Len(U(m, n)) = n /\ Shift(m, n) = 0
  <2>1. Shift(m, n) = 0
    BY <1>1
  <2> HIDE DEF m
  <2> QED BY <1>14, <2>1, UBits DEF Bits
<1>9. ASSUME NEW i \in 1 .. n PROVE w[i] = U(v + 1, n)[i]
  <2>1. /\ i \in 1 .. z + 1 /\ (n - 1) + i \in 1 .. 2 * n - 1
        /\ a + z + i - 1 = a + ((n - 1) + i) - 1
    BY <1>7
  <2>2. w[i] = bits[a + z + i - 1]
    BY <2>1
  <2> QED BY <1>1, <1>2, <2>1, <2>2
<1>10. w = U(m, n)
  <2>1. DOMAIN w = 1 .. n /\ DOMAIN U(m, n) = 1 .. n
    BY <1>7, <1>8
  <2>2. w = [i \in 1 .. n |-> w[i]] /\ U(m, n) = [i \in 1 .. n |-> U(m, n)[i]]
    BY <1>7, <1>8, <2>1
  <2> HIDE DEF w
  <2> QED BY <1>9, <2>2
<1>11. Value(w) = m
  <2> HIDE DEF m, w
  <2> QED BY <1>8, <1>10, <1>14, ValueOfU
<1>12. ReadField(bits, s, 0) = [at |-> a + 2 * z + 1, values |-> Append(s.values, Value(w) - 1)]
  BY DEF ReadField, z
<1>13. a + 2 * z + 1 = a + Len(Ue(v)) /\ Value(w) - 1 = v
  <2>1. v \in Nat /\ (v + 1) - 1 = v
    BY CodableAre
  <2>2. Value(w) - 1 = v
    BY <1>11, <2>1
  <2>3. a \in Nat /\ n \in Nat /\ z = n - 1 /\ Len(Ue(v)) = 2 * n - 1
    BY <1>1, <1>7
  <2> HIDE DEF a, z
  <2>4. a + 2 * z + 1 = a + Len(Ue(v))
    BY <2>3
  <2> QED BY <2>2, <2>4
<1> QED BY <1>12, <1>13

-----------------------------------------------------------------------------
(* Emulation prevention.                                                   *)

\* No start code is emulated: after two zeros comes a byte above two.
Clean(u) ==
  \A k \in DOMAIN u : k + 2 \in DOMAIN u /\ u[k] = 0 /\ u[k + 1] = 0 => u[k + 2] > 2

\* What Escape knows of what it has written: how many zeros it ends with.
Coded(s) ==
  /\ s \in Coders /\ Clean(s.out)
  /\ s.zeros >= 1 <=> Len(s.out) >= 1 /\ s.out[Len(s.out)] = 0
  /\ s.zeros >= 2 <=> Len(s.out) >= 2 /\ s.out[Len(s.out)] = 0 /\ s.out[Len(s.out) - 1] = 0

\* One more byte at the end.
LEMMA CleanAppend ==
  ASSUME NEW s \in Seq(Nat), NEW b \in Nat, Clean(s),
         ~(Len(s) >= 2 /\ s[Len(s)] = 0 /\ s[Len(s) - 1] = 0 /\ b <= 2)
  PROVE Clean(Append(s, b))
<1> DEFINE t == Append(s, b)  n == Len(s)
<1>1. /\ n \in Nat /\ DOMAIN s = 1 .. n /\ DOMAIN t = 1 .. n + 1
      /\ \A i \in 1 .. n : t[i] = s[i]
      /\ t[n + 1] = b
  OBVIOUS
<1>2. ~(n >= 2 /\ s[n] = 0 /\ s[n - 1] = 0 /\ b <= 2)
  OBVIOUS
<1> HIDE DEF t, n
<1>3. ASSUME NEW k \in DOMAIN t, k + 2 \in DOMAIN t, t[k] = 0, t[k + 1] = 0 PROVE t[k + 2] > 2
  <2>1. k \in 1 .. n /\ k + 1 \in 1 .. n /\ s[k] = 0 /\ s[k + 1] = 0
    BY <1>1, <1>3
  <2>2. CASE k + 2 \in 1 .. n
    <3>1. s[k + 2] > 2
      BY <1>1, <2>1, <2>2 DEF Clean
    <3> QED BY <1>1, <2>2, <3>1
  <2>3. CASE k + 2 = n + 1
    <3>1. k + 1 = n /\ k = n - 1 /\ n >= 2
      BY <1>1, <2>1, <2>3
    <3> QED BY <1>1, <1>2, <2>1, <2>3, <3>1
  <2> QED BY <1>1, <1>3, <2>2, <2>3
<1>4. Clean(t)
  BY <1>3 DEF Clean
<1> QED BY <1>4 DEF t

\* Two pieces, the first of which does not end with a zero.
LEMMA CleanConcat ==
  ASSUME NEW x \in Seq(Nat), NEW y \in Seq(Nat), Clean(x), Clean(y),
         Len(x) >= 1, x[Len(x)] # 0
  PROVE Clean(x \o y)
<1> DEFINE t == x \o y  n == Len(x)  m == Len(y)
<1>1. /\ n \in Nat /\ m \in Nat /\ DOMAIN x = 1 .. n /\ DOMAIN y = 1 .. m
      /\ DOMAIN t = 1 .. n + m
      /\ \A i \in 1 .. n : t[i] = x[i]
      /\ \A i \in 1 .. m : t[n + i] = y[i]
      /\ n >= 1 /\ x[n] # 0
  OBVIOUS
<1> HIDE DEF t, n, m
<1>2. ASSUME NEW k \in 1 .. n + m, k + 2 \in 1 .. n + m, t[k] = 0, t[k + 1] = 0 PROVE t[k + 2] > 2
  <2>0. k \in Int /\ k >= 1 /\ k + 2 <= n + m
    BY <1>1, <1>2
  <2>1. CASE k + 2 \in 1 .. n
    <3>1. k \in DOMAIN x /\ k + 2 \in DOMAIN x /\ x[k] = 0 /\ x[k + 1] = 0
      BY <1>1, <1>2, <2>1
    <3>2. x[k + 2] > 2
      BY <3>1 DEF Clean
    <3> QED BY <1>1, <2>1, <3>2
  <2>2. CASE k = n \/ k + 1 = n
    BY <1>1, <1>2, <2>2
  <2>3. CASE k \in n + 1 .. n + m
    <3> DEFINE j == k - n
    <3>1. j \in 1 .. m /\ j + 1 \in 1 .. m /\ j + 2 \in 1 .. m
          /\ n + j = k /\ n + (j + 1) = k + 1 /\ n + (j + 2) = k + 2
      <4>1. n \in Nat /\ m \in Nat
        BY <1>1
      <4> QED BY <2>0, <2>3, <4>1
    <3> HIDE DEF j
    <3>2. y[j] = t[k] /\ y[j + 1] = t[k + 1] /\ y[j + 2] = t[k + 2]
      BY <1>1, <3>1
    <3>3. y[j + 2] > 2
      BY <1>1, <1>2, <3>1, <3>2 DEF Clean
    <3> QED BY <3>2, <3>3
  <2>4. k + 2 \in 1 .. n \/ k = n \/ k + 1 = n \/ k \in n + 1 .. n + m
    <3>1. n \in Nat /\ m \in Nat
      BY <1>1
    <3> QED BY <2>0, <3>1
  <2> QED BY <2>1, <2>2, <2>3, <2>4
<1>3. Clean(t)
  BY <1>1, <1>2 DEF Clean
<1> QED BY <1>3 DEF t

\* One byte more, escaped or not.
LEMMA PutKeeps ==
  ASSUME NEW s, Coded(s), NEW b \in Nat
  PROVE /\ Coded(Put(s, b))
        /\ Len(Put(s, b).out) >= 1 /\ Put(s, b).out[Len(Put(s, b).out)] = b
<1> DEFINE o == s.out  z == s.zeros  n == Len(o)
           clash == z >= 2 /\ b <= 3
           r == Put(s, b)
<1>1. /\ o \in Seq(Nat) /\ z \in Nat /\ n \in Nat /\ Clean(o)
      /\ z >= 1 <=> n >= 1 /\ o[n] = 0
      /\ z >= 2 <=> n >= 2 /\ o[n] = 0 /\ o[n - 1] = 0
  BY DEF Coded, Coders
<1>2. /\ r.out = o \o (IF clash THEN <<3, b>> ELSE <<b>>)
      /\ r.zeros = IF b # 0 THEN 0 ELSE IF clash THEN 1 ELSE z + 1
      /\ r = [out |-> r.out, zeros |-> r.zeros]
  BY DEF Put
<1> HIDE DEF o, z, r
<1>3. CASE clash
  <2> DEFINE p == Append(o, 3)  q == Append(p, b)
  <2>1. r.out = q
    BY <1>1, <1>2, <1>3
  <2>2. p \in Seq(Nat) /\ Len(p) = n + 1 /\ p[n + 1] = 3 /\ q \in Seq(Nat)
        /\ Len(q) = n + 2 /\ q[n + 2] = b /\ q[n + 1] = 3
    BY <1>1
  <2>3. Clean(p)
    BY <1>1, CleanAppend
  <2> HIDE DEF p
  <2>4. Clean(q)
    BY SMTT(30), <1>1, <2>2, <2>3, CleanAppend
  <2> HIDE DEF q, clash, n
  <2>5. r.zeros = IF b # 0 THEN 0 ELSE 1
    BY <1>2, <1>3
  <2>6. r \in Coders
    BY <1>2, <2>1, <2>2, <2>5 DEF Coders
  <2>7. /\ r.zeros >= 1 <=> Len(q) >= 1 /\ q[Len(q)] = 0
        /\ r.zeros >= 2 <=> Len(q) >= 2 /\ q[Len(q)] = 0 /\ q[Len(q) - 1] = 0
    BY <1>1, <2>2, <2>5
  <2>8. Coded(r)
    BY <2>1, <2>4, <2>6, <2>7 DEF Coded
  <2> QED BY <1>1, <2>1, <2>2, <2>8 DEF r
<1>4. CASE ~clash
  <2> DEFINE q == Append(o, b)
  <2>1. r.out = q
    BY <1>1, <1>2, <1>4
  <2>2. q \in Seq(Nat) /\ Len(q) = n + 1 /\ q[n + 1] = b /\ \A i \in 1 .. n : q[i] = o[i]
    BY <1>1
  <2>3. Clean(q)
    BY <1>1, <1>4, CleanAppend
  <2>4. r.zeros = IF b # 0 THEN 0 ELSE z + 1
    BY <1>2, <1>4
  <2> HIDE DEF q, n
  <2>5. r \in Coders
    BY <1>1, <1>2, <2>1, <2>2, <2>4 DEF Coders
  <2>6. n >= 1 => q[n] = o[n]
    BY <1>1, <2>2
  <2>7. /\ r.zeros >= 1 <=> Len(q) >= 1 /\ q[Len(q)] = 0
        /\ r.zeros >= 2 <=> Len(q) >= 2 /\ q[Len(q)] = 0 /\ q[Len(q) - 1] = 0
    <3>1. Len(q) - 1 = n /\ q[Len(q)] = b
      BY <1>1, <2>2
    <3>2. CASE b = 0
      BY <1>1, <2>2, <2>4, <2>6, <3>1, <3>2
    <3>3. CASE b # 0
      BY <1>1, <2>2, <2>4, <3>1, <3>3
    <3> QED BY <3>2, <3>3
  <2>8. Coded(r)
    BY <2>1, <2>3, <2>5, <2>7 DEF Coded
  <2> QED BY <1>1, <2>1, <2>2, <2>8 DEF r
<1> QED BY <1>3, <1>4

\* Escape's output is clean, and ends as its input does.
LEMMA EscapeClean ==
  ASSUME NEW bytes \in Seq(Nat)
  PROVE /\ Escape(bytes) \in Seq(Nat) /\ Clean(Escape(bytes))
        /\ Len(bytes) >= 1 => /\ Len(Escape(bytes)) >= 1
                              /\ Escape(bytes)[Len(Escape(bytes))] = bytes[Len(bytes)]
<1> DEFINE n == Len(bytes)
<1>1. n \in Nat /\ \A i \in 1 .. n : bytes[i] \in Nat
  OBVIOUS
<1>2. PICK f : /\ f \in [0 .. n -> Coders] /\ f[0] = [out |-> << >>, zeros |-> 0]
               /\ \A i \in 1 .. n : f[i] = Put(f[i - 1], bytes[i])
               /\ Escape(bytes) = f[n].out
  BY EscapeRun
<1> HIDE DEF n
<1> DEFINE Good(i) ==
      /\ Coded(f[i])
      /\ i >= 1 => Len(f[i].out) >= 1 /\ f[i].out[Len(f[i].out)] = bytes[i]
<1> DEFINE T == {i \in Nat : i <= n => Good(i)}
<1>3. 0 \in T
  <2>1. Coded(f[0])
    <3> DEFINE s == f[0]
    <3>1. s.out = << >> /\ s.zeros = 0 /\ s \in Coders
      BY <1>1, <1>2
    <3>2. Clean(s.out)
      BY <3>1 DEF Clean
    <3> HIDE DEF s
    <3>3. Coded(s)
      BY <3>1, <3>2 DEF Coded
    <3> QED BY <3>3 DEF s
  <2> QED BY <2>1
<1>4. ASSUME NEW i \in T PROVE i + 1 \in T
  <2> SUFFICES ASSUME i + 1 <= n PROVE Good(i + 1)
    <3> HIDE DEF Good
    <3> QED OBVIOUS
  <2>1. i \in Nat /\ i + 1 \in 1 .. n /\ (i + 1) - 1 = i /\ i <= n
    BY <1>1
  <2>2. Coded(f[i])
    BY <2>1
  <2>3. f[i + 1] = Put(f[i], bytes[i + 1]) /\ bytes[i + 1] \in Nat
    BY <1>1, <1>2, <2>1
  <2> QED BY <2>2, <2>3, PutKeeps
<1>5. T = Nat
  <2>1. T \in SUBSET Nat
    OBVIOUS
  <2> HIDE DEF T
  <2> QED BY <1>3, <1>4, <2>1, SetInduction
<1>6. Good(n)
  <2> HIDE DEF Good
  <2> QED BY <1>1, <1>5
<1> QED BY <1>2, <1>6 DEF Coded, Coders, n

\* g is how Unescape reads e.
IsReading(g, e) ==
  /\ g \in [0 .. Len(e) -> Coders] /\ g[0] = [out |-> << >>, zeros |-> 0]
  /\ \A i \in 1 .. Len(e) : g[i] = Take(g[i - 1], e[i])

\* What Put puts, Take takes: an escaped byte is read in two steps.
LEMMA TakeEscaped ==
  ASSUME NEW s \in Coders, s.zeros >= 2, NEW b \in Nat, b <= 3
  PROVE /\ Take(s, 3) = [out |-> s.out, zeros |-> 0]
        /\ Take([out |-> s.out, zeros |-> 0], b)
             = [out |-> Append(s.out, b), zeros |-> IF b = 0 THEN 1 ELSE 0]
<1>1. Take(s, 3) = [s EXCEPT !.zeros = 0]
  BY DEF Take
<1>2. [s EXCEPT !.zeros = 0] = [out |-> s.out, zeros |-> 0]
  BY DEF Coders
<1> DEFINE r == [out |-> s.out, zeros |-> 0]
<1>3. r.zeros = 0 /\ r.out = s.out
  OBVIOUS
<1> HIDE DEF r
<1>4. Take(r, b) = [out |-> Append(s.out, b), zeros |-> IF b = 0 THEN 1 ELSE 0]
  BY <1>3 DEF Take
<1> QED BY <1>1, <1>2, <1>4 DEF r

\* What Put writes.
LEMMA PutIs ==
  ASSUME NEW s, NEW b, NEW x, x = IF s.zeros >= 2 /\ b <= 3 THEN <<3, b>> ELSE <<b>>
  PROVE /\ Put(s, b).out = s.out \o x
        /\ Put(s, b).zeros = IF b # 0 THEN 0 ELSE IF s.zeros >= 2 /\ b <= 3 THEN 1 ELSE s.zeros + 1
  BY DEF Put

\* What Take adds, if anything.
LEMMA TakeAdds ==
  ASSUME NEW s \in Coders, NEW b \in Nat
  PROVE /\ Len(s.out) <= Len(Take(s, b).out)
        /\ \A k \in 1 .. Len(s.out) : Take(s, b).out[k] = s.out[k]
<1> DEFINE o == s.out  p == Take(s, b).out
<1>1. o \in Seq(Nat)
  BY DEF Coders
<1>2. p = o \/ p = Append(o, b)
  <2>1. CASE s.zeros >= 2 /\ b = 3
    <3>1. Take(s, b) = [s EXCEPT !.zeros = 0] /\ [s EXCEPT !.zeros = 0].out = s.out
      BY <2>1 DEF Take, Coders
    <3> QED BY <3>1
  <2>2. CASE ~(s.zeros >= 2 /\ b = 3)
    BY <2>2 DEF Take
  <2> QED BY <2>1, <2>2
<1> HIDE DEF o, p
<1>3. Len(o) <= Len(p) /\ \A k \in 1 .. Len(o) : p[k] = o[k]
  <2>1. CASE p = o
    BY <1>1, <2>1
  <2>2. CASE p = Append(o, b)
    BY <1>1, <2>2
  <2> QED BY <1>2, <2>1, <2>2
<1> QED BY <1>3 DEF o, p

\* What Unescape has read so far stays: it only adds.
LEMMA ReadingGrows ==
  ASSUME NEW e \in Seq(Nat), NEW g, IsReading(g, e),
         NEW i \in 0 .. Len(e), NEW j \in 0 .. Len(e), i <= j
  PROVE /\ Len(g[i].out) <= Len(g[j].out) /\ g[i].out \in Seq(Nat) /\ g[j].out \in Seq(Nat)
        /\ \A k \in 1 .. Len(g[i].out) : g[j].out[k] = g[i].out[k]
<1> DEFINE n == Len(e)
           More(m) == /\ Len(g[i].out) <= Len(g[m].out)
                      /\ \A k \in 1 .. Len(g[i].out) : g[m].out[k] = g[i].out[k]
           T == {d \in Nat : i + d <= n => More(i + d)}
<1>1. n \in Nat /\ i \in Nat /\ \A m \in 0 .. n : g[m] \in Coders /\ g[m].out \in Seq(Nat)
  <2>1. \A m \in 0 .. n : g[m] \in Coders
    BY DEF IsReading
  <2>2. \A s \in Coders : s.out \in Seq(Nat)
    BY DEF Coders
  <2>3. n \in Nat /\ i \in Nat
    OBVIOUS
  <2> QED BY <2>1, <2>2, <2>3
<1>2. 0 \in T
  <2>1. i + 0 = i /\ Len(g[i].out) \in Nat
    BY <1>1
  <2>2. More(i)
    BY <2>1
  <2> HIDE DEF More
  <2> QED BY <2>1, <2>2
<1>3. ASSUME NEW d \in T PROVE d + 1 \in T
  <2> DEFINE m == i + d
  <2> SUFFICES ASSUME i + (d + 1) <= n PROVE More(i + (d + 1))
    <3> HIDE DEF More
    <3> QED OBVIOUS
  <2>1. d \in Nat /\ m \in 0 .. n /\ m + 1 \in 1 .. n /\ (m + 1) - 1 = m /\ i + (d + 1) = m + 1
    <3>1. d \in Nat /\ i \in Nat /\ n \in Nat
      BY <1>1
    <3> HIDE DEF T, More, n
    <3> QED BY <3>1
  <2>2. /\ Len(g[i].out) <= Len(g[m].out)
        /\ \A k \in 1 .. Len(g[i].out) : g[m].out[k] = g[i].out[k]
    <3>1. More(m)
      <4> HIDE DEF More
      <4> QED BY <2>1
    <3> QED BY <3>1
  <2>3. g[m + 1] = Take(g[m], e[m + 1]) /\ e[m + 1] \in Nat
    BY <2>1 DEF IsReading
  <2> HIDE DEF m
  <2> DEFINE s == g[m]  t == g[m + 1]
  <2>4. s \in Coders /\ s.out \in Seq(Nat) /\ t.out \in Seq(Nat)
    BY SMTT(30), <1>1, <2>1
  <2>6. /\ Len(s.out) <= Len(t.out)
        /\ \A k \in 1 .. Len(s.out) : t.out[k] = s.out[k]
    BY ZenonT(30), <2>3, <2>4, TakeAdds
  <2>7. Len(g[i].out) \in Nat /\ Len(s.out) \in Nat /\ Len(t.out) \in Nat
    BY SMTT(30), <1>1, <2>4
  <2>8. \A k \in 1 .. Len(g[i].out) : k \in 1 .. Len(s.out)
    BY SMTT(30), <2>2, <2>7
  <2>9. More(m + 1)
    <3>1. Len(g[i].out) <= Len(t.out)
      <4>1. Len(g[i].out) <= Len(s.out) /\ Len(s.out) <= Len(t.out)
        BY <2>2, <2>6
      <4> HIDE DEF s, t
      <4> QED BY <2>7, <4>1
    <3>2. \A k \in 1 .. Len(g[i].out) : t.out[k] = g[i].out[k]
      BY <2>2, <2>6, <2>8
    <3> QED BY <3>1, <3>2
  <2> QED BY <2>1, <2>9
<1>4. T = Nat
  <2>1. T \in SUBSET Nat
    OBVIOUS
  <2> HIDE DEF T
  <2> QED BY <1>2, <1>3, <2>1, SetInduction
<1>5. More(j)
  <2>1. j - i \in Nat /\ i + (j - i) = j /\ j <= n
    BY <1>1
  <2> HIDE DEF More
  <2> QED BY <1>4, <2>1
<1> QED BY <1>1, <1>5

\* Reading what begins with an escaped byte string gives that string back, and
\* reading has counted the zeros that writing counted.
LEMMA ReadsEscaped ==
  ASSUME NEW bytes \in Seq(Nat), NEW e \in Seq(Nat), At(e, 1, Escape(bytes)),
         NEW g, IsReading(g, e)
  PROVE /\ Len(Escape(bytes)) \in 0 .. Len(e)
        /\ g[Len(Escape(bytes))].out = bytes
<1> DEFINE n == Len(bytes)
<1>1. n \in Nat /\ DOMAIN bytes = 1 .. n /\ \A i \in 1 .. n : bytes[i] \in Nat
  OBVIOUS
<1>2. PICK f : /\ f \in [0 .. n -> Coders] /\ f[0] = [out |-> << >>, zeros |-> 0]
               /\ \A i \in 1 .. n : f[i] = Put(f[i - 1], bytes[i])
               /\ Escape(bytes) = f[n].out
  BY EscapeRun
<1> HIDE DEF n
<1>3. \A i \in 0 .. n : f[i] \in Coders /\ f[i].out \in Seq(Nat) /\ f[i].zeros \in Nat
  BY <1>2 DEF Coders
<1> DEFINE Good(i) ==
      At(e, 1, f[i].out) =>
        /\ Len(f[i].out) \in 0 .. Len(e)
        /\ g[Len(f[i].out)].zeros = f[i].zeros
        /\ Len(g[Len(f[i].out)].out) = i
        /\ \A k \in 1 .. i : g[Len(f[i].out)].out[k] = bytes[k]
<1> DEFINE T == {i \in Nat : i <= n => Good(i)}
<1>4. 0 \in T
  <2>1. f[0].out = << >> /\ f[0].zeros = 0 /\ Len(f[0].out) = 0
    BY <1>2
  <2>2. g[0].out = << >> /\ g[0].zeros = 0 /\ Len(e) \in Nat
    BY DEF IsReading
  <2>3. Good(0)
    BY <2>1, <2>2
  <2> HIDE DEF Good
  <2> QED BY <2>3
<1>5. ASSUME NEW i \in T PROVE i + 1 \in T
  <2> SUFFICES ASSUME i + 1 <= n PROVE Good(i + 1)
    <3> HIDE DEF Good
    <3> QED OBVIOUS
  <2> SUFFICES ASSUME At(e, 1, f[i + 1].out)
               PROVE /\ Len(f[i + 1].out) \in 0 .. Len(e)
                     /\ g[Len(f[i + 1].out)].zeros = f[i + 1].zeros
                     /\ Len(g[Len(f[i + 1].out)].out) = i + 1
                     /\ \A k \in 1 .. i + 1 : g[Len(f[i + 1].out)].out[k] = bytes[k]
    OBVIOUS
  <2>1. i \in Nat /\ i + 1 \in 1 .. n /\ (i + 1) - 1 = i /\ i <= n /\ i \in 0 .. n
    <3> HIDE DEF Good
    <3> QED BY <1>1
  <2> DEFINE s == f[i]  b == bytes[i + 1]  m == Len(s.out)  r == g[m]
             clash == s.zeros >= 2 /\ b <= 3
             x == IF clash THEN <<3, b>> ELSE <<b>>
  <2>2. s \in Coders /\ s.out \in Seq(Nat) /\ s.zeros \in Nat /\ m \in Nat
    BY <1>3, <2>1
  <2>3. b \in Nat
    BY <1>1, <2>1
  <2>4. f[i + 1] = Put(s, b)
    BY <1>2, <2>1
  <2>5. /\ f[i + 1].out = s.out \o x
        /\ f[i + 1].zeros = IF b # 0 THEN 0 ELSE IF clash THEN 1 ELSE s.zeros + 1
    <3>1. x = IF s.zeros >= 2 /\ b <= 3 THEN <<3, b>> ELSE <<b>>
      OBVIOUS
    <3>2. /\ Put(s, b).out = s.out \o x
          /\ Put(s, b).zeros = IF b # 0 THEN 0 ELSE IF s.zeros >= 2 /\ b <= 3 THEN 1 ELSE s.zeros + 1
      <4> HIDE DEF s, b, x
      <4> QED BY <3>1, PutIs
    <3> QED BY <2>4, <3>2
  <2>6. x \in Seq(Nat)
    BY <2>3
  <2>7. Good(i)
    <3> HIDE DEF Good
    <3> QED BY <2>1
  <2> HIDE DEF s, b, x
  <2>8. At(e, 1, s.out) /\ At(e, 1 + m, x)
    BY <2>2, <2>5, <2>6, AtSplit
  <2>9. /\ m \in 0 .. Len(e) /\ r.zeros = s.zeros /\ Len(r.out) = i
        /\ \A k \in 1 .. i : r.out[k] = bytes[k]
    BY <2>7, <2>8 DEF s
  <2>10. r \in Coders /\ r.out \in Seq(Nat) /\ Len(e) \in Nat /\ DOMAIN e = 1 .. Len(e)
    BY <2>9 DEF IsReading, Coders
  <2>11. \A j \in 1 .. Len(e) : g[j] = Take(g[j - 1], e[j])
    BY DEF IsReading
  <2> HIDE DEF m, r
  <2>12. ASSUME NEW q, q = [out |-> Append(r.out, b), zeros |-> f[i + 1].zeros],
                g[Len(f[i + 1].out)] = q, Len(f[i + 1].out) \in 0 .. Len(e)
         PROVE /\ Len(f[i + 1].out) \in 0 .. Len(e)
               /\ g[Len(f[i + 1].out)].zeros = f[i + 1].zeros
               /\ Len(g[Len(f[i + 1].out)].out) = i + 1
               /\ \A k \in 1 .. i + 1 : g[Len(f[i + 1].out)].out[k] = bytes[k]
    <3>1. q.out = Append(r.out, b) /\ q.zeros = f[i + 1].zeros
      BY <2>12
    <3>2. Len(q.out) = i + 1 /\ q.out[i + 1] = b /\ \A k \in 1 .. i : q.out[k] = r.out[k]
      BY <2>1, <2>3, <2>9, <2>10, <3>1
    <3>3. ASSUME NEW k \in 1 .. i + 1 PROVE q.out[k] = bytes[k]
      <4>1. CASE k = i + 1
        BY <3>2, <4>1 DEF b
      <4>2. CASE k # i + 1
        <5>1. k \in 1 .. i
          BY <2>1, <4>2
        <5> QED BY <2>9, <3>2, <5>1
      <4> QED BY <4>1, <4>2
    <3> QED BY <2>12, <3>1, <3>2, <3>3
  <2>13. CASE clash
    <3>1. x = <<3, b>>
      BY <2>13 DEF x
    <3>2. Len(f[i + 1].out) = m + 2
      BY <2>2, <2>3, <2>5, <3>1 DEF m
    <3>3. /\ 1 + m \in 1 .. Len(e) /\ e[1 + m] = 3
          /\ 2 + m \in 1 .. Len(e) /\ e[2 + m] = b
      <4>1. DOMAIN x = {1, 2} /\ x[1] = 3 /\ x[2] = b
        BY <3>1
      <4>2. 1 + m + 1 - 1 = 1 + m /\ 1 + m + 2 - 1 = 2 + m
        BY <2>2
      <4> QED BY <2>8, <2>10, <4>1, <4>2 DEF At
    <3>4. g[1 + m] = Take(r, 3)
      BY <2>2, <2>11, <3>3 DEF r
    <3>5. g[2 + m] = Take(g[1 + m], b)
      <4>1. (2 + m) - 1 = 1 + m
        BY <2>2
      <4> QED BY <2>11, <3>3, <4>1
    <3>6. r.zeros >= 2 /\ b <= 3
      BY <2>9, <2>13
    <3>7. g[2 + m] = [out |-> Append(r.out, b), zeros |-> IF b = 0 THEN 1 ELSE 0]
      BY <2>3, <2>10, <3>4, <3>5, <3>6, TakeEscaped
    <3>8. f[i + 1].zeros = IF b = 0 THEN 1 ELSE 0
      BY <2>5, <2>13
    <3>9. Len(f[i + 1].out) = 2 + m /\ 2 + m \in 0 .. Len(e)
      BY <2>2, <3>2, <3>3
    <3> QED BY <2>12, <3>7, <3>8, <3>9
  <2>14. CASE ~clash
    <3>1. x = <<b>>
      BY <2>14 DEF x
    <3>2. Len(f[i + 1].out) = m + 1
      BY <2>2, <2>3, <2>5, <3>1 DEF m
    <3>3. 1 + m \in 1 .. Len(e) /\ e[1 + m] = b
      <4>1. DOMAIN x = {1} /\ x[1] = b
        BY <3>1
      <4>2. 1 + m + 1 - 1 = 1 + m
        BY <2>2
      <4> QED BY <2>8, <2>10, <4>1, <4>2 DEF At
    <3>4. g[1 + m] = Take(r, b)
      BY <2>2, <2>11, <3>3 DEF r
    <3>5. ~(r.zeros >= 2 /\ b = 3)
      BY <2>9, <2>14
    <3>6. g[1 + m] = [out |-> Append(r.out, b), zeros |-> IF b = 0 THEN r.zeros + 1 ELSE 0]
      BY <3>4, <3>5 DEF Take
    <3>7. f[i + 1].zeros = IF b = 0 THEN r.zeros + 1 ELSE 0
      BY <2>5, <2>9, <2>14
    <3>8. Len(f[i + 1].out) = 1 + m /\ 1 + m \in 0 .. Len(e)
      BY <2>2, <3>2, <3>3
    <3> QED BY <2>12, <3>6, <3>7, <3>8
  <2> QED BY <2>13, <2>14
<1>6. T = Nat
  <2>1. T \in SUBSET Nat
    OBVIOUS
  <2> HIDE DEF T
  <2> QED BY <1>4, <1>5, <2>1, SetInduction
<1>7. Good(n)
  <2> HIDE DEF Good
  <2> QED BY <1>1, <1>6
<1> DEFINE o == g[Len(f[n].out)].out
<1>8. Len(f[n].out) \in 0 .. Len(e) /\ Len(o) = n /\ \A k \in 1 .. n : o[k] = bytes[k]
  BY <1>2, <1>7
<1>9. o \in Seq(Nat)
  BY <1>8 DEF IsReading, Coders
<1> HIDE DEF o
<1>10. o = bytes
  BY <1>1, <1>8, <1>9, SeqEqual DEF n
<1> QED BY <1>2, <1>8, <1>10 DEF o

\* One sequence after another.
LEMMA JoinIs ==
  ASSUME NEW S, NEW x \in Seq(S), NEW y \in Seq(S)
  PROVE /\ x \o y \in Seq(S) /\ Len(x \o y) = Len(x) + Len(y)
        /\ Len(x) \in Nat /\ Len(y) \in Nat
        /\ \A k \in 1 .. Len(x) : (x \o y)[k] = x[k]
        /\ \A k \in 1 .. Len(y) : (x \o y)[Len(x) + k] = y[k]
  OBVIOUS

\* Unescape is a reading.
LEMMA UnescapeReads ==
  ASSUME NEW e \in Seq(Nat)
  PROVE \E g : IsReading(g, e) /\ Unescape(e) = g[Len(e)].out
<1>1. PICK g : /\ g \in [0 .. Len(e) -> Coders] /\ g[0] = [out |-> << >>, zeros |-> 0]
               /\ \A i \in 1 .. Len(e) : g[i] = Take(g[i - 1], e[i])
               /\ Unescape(e) = g[Len(e)].out
  BY UnescapeRun
<1>2. IsReading(g, e)
  BY <1>1 DEF IsReading
<1> QED BY <1>1, <1>2

\* What add_emulation_prevention inserts, a decoder takes out again, also when
\* other bytes follow: a decoder finds the header in front of the slice data.
LEMMA UnescapeBegins ==
  ASSUME NEW bytes \in Seq(Nat), NEW rest \in Seq(Nat)
  PROVE /\ Unescape(Escape(bytes) \o rest) \in Seq(Nat)
        /\ Len(bytes) <= Len(Unescape(Escape(bytes) \o rest))
        /\ \A k \in 1 .. Len(bytes) : Unescape(Escape(bytes) \o rest)[k] = bytes[k]
<1> DEFINE x == Escape(bytes)  e == x \o rest  m == Len(x)
<1>1. x \in Seq(Nat) /\ e \in Seq(Nat) /\ m \in 0 .. Len(e) /\ Len(e) \in 0 .. Len(e)
  BY EscapeClean
<1>2. At(e, 1, x)
  <2>1. DOMAIN x = 1 .. m /\ m \in Nat /\ DOMAIN e = 1 .. Len(e) /\ Len(e) \in Nat
    BY <1>1
  <2>2. \A k \in 1 .. m : 1 + k - 1 = k /\ k \in 1 .. Len(e) /\ e[k] = x[k]
    BY <1>1
  <2> HIDE DEF x, e, m
  <2> QED BY <2>1, <2>2 DEF At
<1>3. PICK g : IsReading(g, e) /\ Unescape(e) = g[Len(e)].out
  BY <1>1, UnescapeReads
<1>4. g[m].out = bytes
  <2> HIDE DEF e
  <2> QED BY <1>1, <1>2, <1>3, ReadsEscaped
<1>5. /\ Len(g[m].out) <= Len(g[Len(e)].out) /\ g[Len(e)].out \in Seq(Nat)
      /\ \A k \in 1 .. Len(g[m].out) : g[Len(e)].out[k] = g[m].out[k]
  <2>1. m <= Len(e)
    BY <1>1
  <2> HIDE DEF e, m, x
  <2> QED BY <1>1, <1>3, <2>1, ReadingGrows
<1>6. /\ Unescape(e) \in Seq(Nat) /\ Len(bytes) <= Len(Unescape(e))
      /\ \A k \in 1 .. Len(bytes) : Unescape(e)[k] = bytes[k]
  <2> HIDE DEF e, m, x
  <2> QED BY <1>3, <1>4, <1>5
<1> QED BY <1>6

\* Emulation prevention loses nothing: what add_emulation_prevention writes, a
\* decoder reads back, whatever the bytes.
THEOREM EscapeRoundTrip ==
  ASSUME NEW bytes \in Seq(Nat)
  PROVE Unescape(Escape(bytes)) = bytes
<1> DEFINE x == Escape(bytes)
<1>1. x \in Seq(Nat) /\ Len(x) \in Nat /\ DOMAIN x = 1 .. Len(x)
  BY EscapeClean
<1>2. At(x, 1, x)
  <2>1. \A k \in 1 .. Len(x) : 1 + k - 1 = k
    BY <1>1
  <2> HIDE DEF x
  <2> QED BY <1>1, <2>1 DEF At
<1>3. PICK g : IsReading(g, x) /\ Unescape(x) = g[Len(x)].out
  BY <1>1, UnescapeReads
<1>4. g[Len(x)].out = bytes
  BY <1>1, <1>2, <1>3, ReadsEscaped
<1> QED BY <1>3, <1>4

\* Zero has no bits.
LEMMA ShiftZero ==
  ASSUME NEW n \in Nat
  PROVE Shift(0, n) = 0
<1> DEFINE T == {k \in Nat : Shift(0, k) = 0}
<1>1. 0 \in T
  BY ShiftSteps
<1>2. ASSUME NEW k \in T PROVE k + 1 \in T
  <2>1. k \in Nat /\ Shift(0, k) = 0
    OBVIOUS
  <2>2. Shift(0, k + 1) = Shift(0, k) \div 2
    BY <2>1, ShiftSteps
  <2>3. Shift(0, k + 1) = 0
    BY <2>1, <2>2
  <2> QED BY <2>1, <2>3
<1>3. T \in SUBSET Nat
  OBVIOUS
<1> HIDE DEF T
<1>4. T = Nat
  BY <1>1, <1>2, <1>3, SetInduction
<1> QED BY <1>4 DEF T

\* rbsp_trailing_bits: a one, and zeros to the end of the byte.
LEMMA TrailingBitsAre ==
  ASSUME NEW bits \in Bits
  PROVE \E q \in Nat \ {0}, p \in 1 .. 8 :
          /\ TrailingBits(bits) \in Bits /\ Len(TrailingBits(bits)) = 8 * q
          /\ Len(bits) < 8 * q
          /\ \A k \in 1 .. Len(bits) : TrailingBits(bits)[k] = bits[k]
          /\ TrailingBits(bits)[8 * q - 8 + p] = 1
<1> DEFINE n == Len(bits)  z == (-(n + 1)) % 8  t == TrailingBits(bits)
           q == (n + 8) \div 8  p == (n % 8) + 1
<1>1. n \in Nat /\ bits \in Seq({0, 1})
  BY DEF Bits
<1>2. z \in Nat /\ n + 1 + z = 8 * q /\ q \in Nat \ {0} /\ p \in 1 .. 8 /\ 8 * q - 8 + p = n + 1 /\ n < 8 * q
  <2> HIDE DEF n
  <2> QED BY <1>1
<1> HIDE DEF z, q, p
<1>3. Zeros(z) \in Seq({0, 1}) /\ Len(Zeros(z)) = z
  BY <1>2, ZerosBits DEF Bits
<1> DEFINE y == Zeros(z)
<1>4. t = bits \o <<1>> \o y
  BY DEF TrailingBits, z
<1> HIDE DEF t, y, n
<1>5. /\ t \in Seq({0, 1}) /\ Len(t) = n + 1 + z /\ t[n + 1] = 1
      /\ \A k \in 1 .. n : t[k] = bits[k]
  <2>1. y \in Seq({0, 1}) /\ Len(y) = z /\ z \in Nat /\ n \in Nat /\ n = Len(bits)
    BY <1>1, <1>2, <1>3 DEF y, n
  <2> DEFINE x == bits \o <<1>>
  <2>2. x \in Seq({0, 1}) /\ Len(x) = n + 1 /\ x[n + 1] = 1 /\ \A k \in 1 .. n : x[k] = bits[k]
    BY <1>1, <2>1
  <2>3. t = x \o y
    BY <1>4
  <2> HIDE DEF x
  <2>4. /\ t \in Seq({0, 1}) /\ Len(t) = Len(x) + Len(y)
        /\ \A k \in 1 .. Len(x) : t[k] = x[k]
    <3> HIDE DEF y
    <3> QED BY ZenonT(30), <2>1, <2>2, <2>3, JoinIs
  <2>5. n + 1 \in 1 .. Len(x) /\ \A k \in 1 .. n : k \in 1 .. Len(x)
    BY <2>1, <2>2
  <2> QED BY <2>1, <2>2, <2>4, <2>5
<1> QED BY <1>2, <1>5 DEF t, n, Bits

\* A bit string of whole bytes, and its bytes.
LEMMA ToBytesAre ==
  ASSUME NEW q \in Nat, NEW t \in Bits, Len(t) = 8 * q
  PROVE /\ ToBytes(t) \in Seq(Nat) /\ Len(ToBytes(t)) = q
        /\ \A k \in 1 .. q : \A j \in 1 .. 8 : U(ToBytes(t)[k], 8)[j] = t[8 * k - 8 + j]
<1>1. t \in Seq({0, 1}) /\ Len(t) \div 8 = q
  BY DEF Bits
<1>2. ASSUME NEW k \in 1 .. q
      PROVE /\ SubSeq(t, 8 * k - 7, 8 * k) \in Bits /\ Len(SubSeq(t, 8 * k - 7, 8 * k)) = 8
            /\ \A j \in 1 .. 8 : SubSeq(t, 8 * k - 7, 8 * k)[j] = t[8 * k - 8 + j]
  <2>1. 8 * k - 7 \in 1 .. Len(t) /\ 8 * k \in 1 .. Len(t) /\ k \in Int
    BY <1>2
  <2> DEFINE a == 8 * k - 7  b == 8 * k
  <2>2. b - a + 1 = 8 /\ \A j \in 1 .. 8 : a + j - 1 = 8 * k - 8 + j
    BY <2>1
  <2>3. a \in 1 .. Len(t) + 1 /\ b \in a - 1 .. Len(t)
    BY <2>1
  <2> HIDE DEF a, b
  <2>4. SubSeq(t, a, b) \in Seq({0, 1}) /\ Len(SubSeq(t, a, b)) = 8
        /\ \A j \in 1 .. 8 : SubSeq(t, a, b)[j] = t[a + j - 1]
    BY <1>1, <2>2, <2>3, SubSeqProperties
  <2> QED BY <2>2, <2>4 DEF Bits, a, b
<1>3. /\ ToBytes(t) = [k \in 1 .. q |-> Value(SubSeq(t, 8 * k - 7, 8 * k))]
  BY <1>1 DEF ToBytes
<1>4. ASSUME NEW k \in 1 .. q
      PROVE /\ ToBytes(t)[k] \in Nat
            /\ \A j \in 1 .. 8 : U(ToBytes(t)[k], 8)[j] = t[8 * k - 8 + j]
  <2> DEFINE s == SubSeq(t, 8 * k - 7, 8 * k)
  <2>1. ToBytes(t)[k] = Value(s)
    BY <1>3
  <2>2. s \in Bits /\ Len(s) = 8 /\ \A j \in 1 .. 8 : s[j] = t[8 * k - 8 + j]
    BY <1>2
  <2> HIDE DEF s
  <2>3. Value(s) \in Nat /\ U(Value(s), 8) = s
    BY <2>2, UOfValue
  <2> QED BY <2>1, <2>2, <2>3
<1>5. ToBytes(t) = [k \in 1 .. q |-> ToBytes(t)[k]]
  BY <1>3
<1>6. ToBytes(t) \in [1 .. q -> Nat]
  <2>1. \A k \in 1 .. q : ToBytes(t)[k] \in Nat
    BY <1>4
  <2> QED BY <1>5, <2>1
<1>7. ToBytes(t) \in Seq(Nat) /\ Len(ToBytes(t)) = q
  BY <1>6
<1> QED BY <1>4, <1>7

\* A NAL unit's body, read bit by bit, begins with what was written, also when
\* slice data follows.
LEMMA BodyBitsBegin ==
  ASSUME NEW bits \in Bits, NEW rest \in Seq(Nat), NEW h1 \in Nat, NEW h2 \in Nat
  PROVE At(BodyBits(<<h1, h2>> \o (Escape(ToBytes(TrailingBits(bits))) \o rest)), 1, bits)
<1> DEFINE t == TrailingBits(bits)  bytes == ToBytes(t)  e == Escape(bytes) \o rest
           nalu == <<h1, h2>> \o e  body == Unescape(e)
<1>1. PICK q \in Nat \ {0} : /\ t \in Bits /\ Len(t) = 8 * q /\ Len(bits) < 8 * q
                             /\ \A k \in 1 .. Len(bits) : t[k] = bits[k]
  BY TrailingBitsAre
<1> HIDE DEF t
<1>2. /\ bytes \in Seq(Nat) /\ Len(bytes) = q
      /\ \A k \in 1 .. q : \A j \in 1 .. 8 : U(bytes[k], 8)[j] = t[8 * k - 8 + j]
  BY <1>1, ToBytesAre
<1> HIDE DEF bytes
<1>3. e \in Seq(Nat)
  BY <1>2, EscapeClean
<1>4. body \in Seq(Nat) /\ q <= Len(body) /\ \A k \in 1 .. q : body[k] = bytes[k]
  BY <1>2, UnescapeBegins
<1> HIDE DEF e
<1>5. SubSeq(nalu, 3, Len(nalu)) = e
  <2>1. Len(nalu) = 2 + Len(e) /\ Len(e) \in Nat /\ nalu \in Seq(Nat)
        /\ \A i \in 1 .. Len(e) : nalu[2 + i] = e[i]
    BY <1>3
  <2> DEFINE m == Len(e)
  <2>2. SubSeq(nalu, 3, 2 + m) \in Seq(Nat) /\ Len(SubSeq(nalu, 3, 2 + m)) = m
        /\ \A i \in 1 .. m : SubSeq(nalu, 3, 2 + m)[i] = nalu[3 + i - 1]
    <3>1. m \in Nat /\ 3 \in 1 .. (2 + m) + 1 /\ 2 + m \in 3 - 1 .. 2 + m /\ (2 + m) - 3 + 1 = m
      BY <2>1
    <3> HIDE DEF m, nalu
    <3> QED BY <2>1, <3>1, SubSeqProperties DEF m
  <2>3. \A i \in 1 .. m : 3 + i - 1 = 2 + i
    BY <2>1
  <2> HIDE DEF nalu
  <2>4. \A i \in 1 .. m : SubSeq(nalu, 3, 2 + m)[i] = e[i]
    BY <2>1, <2>2, <2>3
  <2> QED BY <1>3, <2>1, <2>2, <2>4, SeqEqual
<1> DEFINE b == BodyBits(nalu)
<1>6. b = [i \in 1 .. 8 * Len(body) |-> U(body[(i + 7) \div 8], 8)[((i - 1) % 8) + 1]]
  BY <1>5 DEF BodyBits
<1> HIDE DEF b, body, nalu
<1>7. ASSUME NEW k \in 1 .. Len(bits)
      PROVE 1 + k - 1 \in DOMAIN b /\ b[1 + k - 1] = bits[k]
  <2> DEFINE c == (k + 7) \div 8  j == ((k - 1) % 8) + 1  m == Len(body)
  <2>1. k \in Int /\ 1 <= k /\ k < 8 * q /\ q \in Nat /\ m \in Nat /\ q <= m
    <3>1. Len(bits) \in Nat /\ q \in Nat /\ Len(body) \in Nat
      BY <1>1, <1>4 DEF Bits
    <3> QED BY <1>1, <1>4, <3>1
  <2> HIDE DEF m
  <2>2. c \in 1 .. q /\ j \in 1 .. 8 /\ 8 * c - 8 + j = k /\ k \in 1 .. 8 * m /\ 1 + k - 1 = k
    BY <2>1
  <2>3. b[k] = U(body[c], 8)[j]
    BY <1>6, <2>2 DEF m
  <2> HIDE DEF c, j
  <2>4. b[k] = t[k]
    BY <1>2, <1>4, <2>2, <2>3
  <2>5. k \in DOMAIN b
    BY <1>6, <2>2 DEF m
  <2> QED BY <1>1, <2>2, <2>4, <2>5
<1>8. DOMAIN bits = 1 .. Len(bits)
  BY DEF Bits
<1>9. At(b, 1, bits)
  BY <1>7, <1>8 DEF At
<1> QED BY <1>9 DEF b, nalu, e, bytes, t

\* A NAL unit: its bytes, its type, that no start code is emulated in it, and
\* that it does not end with a zero, which would run into the next start code.
LEMMA NaluIs ==
  ASSUME NEW type \in 0 .. 63, NEW bits \in Bits
  PROVE /\ Nalu(type, bits) \in Seq(Nat) /\ Len(Nalu(type, bits)) >= 3
        /\ Clean(Nalu(type, bits)) /\ NaluType(Nalu(type, bits)) = type
        /\ Nalu(type, bits)[Len(Nalu(type, bits))] # 0
<1> DEFINE t == TrailingBits(bits)  bytes == ToBytes(t)  e == Escape(bytes)
           h == <<2 * type, 1>>  nalu == h \o e
<1>1. PICK q \in Nat \ {0}, p \in 1 .. 8 : t \in Bits /\ Len(t) = 8 * q /\ t[8 * q - 8 + p] = 1
  BY TrailingBitsAre
<1> HIDE DEF t
<1>2. /\ bytes \in Seq(Nat) /\ Len(bytes) = q
      /\ \A k \in 1 .. q : \A j \in 1 .. 8 : U(bytes[k], 8)[j] = t[8 * k - 8 + j]
  BY <1>1, ToBytesAre
<1> HIDE DEF bytes
<1>3. bytes[q] # 0
  <2>1. SUFFICES ASSUME bytes[q] = 0 PROVE FALSE
    OBVIOUS
  <2>2. U(0, 8)[p] = 1
    <3>1. q \in 1 .. q
      BY <1>1
    <3>2. U(bytes[q], 8)[p] = 1
      BY <1>1, <1>2, <3>1
    <3> QED BY <2>1, <3>2
  <2>3. U(0, 8)[p] = Shift(0, 8 - p) % 2
    BY UBits
  <2>4. 8 - p \in Nat
    OBVIOUS
  <2>5. Shift(0, 8 - p) = 0
    BY <2>4, ShiftZero
  <2> QED BY <2>2, <2>3, <2>5
<1>4. e \in Seq(Nat) /\ Clean(e) /\ Len(e) >= 1 /\ e[Len(e)] # 0
  <2>1. Len(bytes) >= 1 /\ bytes[Len(bytes)] # 0
    BY <1>1, <1>2, <1>3
  <2> QED BY <1>2, <2>1, EscapeClean
<1> HIDE DEF e
<1>5. h \in Seq(Nat) /\ Len(h) = 2 /\ h[2] = 1 /\ h[1] = 2 * type /\ DOMAIN h = 1 .. 2
  OBVIOUS
<1> HIDE DEF h
<1>6. Clean(h)
  <2>1. \A k \in 1 .. 2 : k + 2 \notin 1 .. 2
    OBVIOUS
  <2> QED BY <1>5, <2>1 DEF Clean
<1>7. Clean(nalu)
  <2>1. Len(h) >= 1 /\ h[Len(h)] # 0
    BY <1>5
  <2> QED BY <1>4, <1>5, <1>6, <2>1, CleanConcat
<1>8. /\ nalu \in Seq(Nat) /\ Len(nalu) = 2 + Len(e) /\ Len(e) \in Nat /\ nalu[1] = h[1]
      /\ nalu[2 + Len(e)] = e[Len(e)]
  <2>1. Len(e) \in 1 .. Len(e) /\ Len(e) \in Nat
    BY <1>4
  <2>2. /\ nalu \in Seq(Nat) /\ Len(nalu) = Len(h) + Len(e)
        /\ \A k \in 1 .. Len(h) : nalu[k] = h[k]
        /\ \A k \in 1 .. Len(e) : nalu[Len(h) + k] = e[k]
    <3>1. e \in Seq(Nat) /\ h \in Seq(Nat)
      BY <1>4, <1>5
    <3> QED BY <3>1, JoinIs
  <2>3. 1 \in 1 .. Len(h)
    BY <1>5
  <2> HIDE DEF nalu
  <2> QED BY <1>5, <2>1, <2>2, <2>3
<1> HIDE DEF nalu
<1>9. (2 * type) \div 2 = type /\ type % 64 = type
  OBVIOUS
<1>10. NaluType(nalu) = type
  BY <1>5, <1>8, <1>9 DEF NaluType
<1>11. Nalu(type, bits) = nalu
  BY DEF Nalu, nalu, h, e, bytes, t
<1> QED BY <1>4, <1>7, <1>8, <1>10, <1>11

-----------------------------------------------------------------------------
(* Annex B.                                                                *)

\* What ParseAnnexB adds for the j-th start code.
Piece(data, j) ==
  LET starts == StartPositions(data)
      Begin(k) == starts[k] + CodeLength(data, starts[k])
      End(k) == IF k < Len(starts) THEN starts[k + 1] - 1 ELSE Len(data)
  IN IF Begin(j) > End(j) THEN << >> ELSE <<SubSeq(data, Begin(j), End(j))>>

\* What ParseAnnexB computes.
LEMMA ParseRun ==
  ASSUME NEW data, Len(StartPositions(data)) \in Nat,
         \A j \in 1 .. Len(StartPositions(data)) : Piece(data, j) \in Seq(Seq(Nat))
  PROVE \E f : /\ f \in [0 .. Len(StartPositions(data)) -> Seq(Seq(Nat))] /\ f[0] = << >>
               /\ \A j \in 1 .. Len(StartPositions(data)) : f[j] = f[j - 1] \o Piece(data, j)
               /\ ParseAnnexB(data) = f[Len(StartPositions(data))]
<1> DEFINE n == Len(StartPositions(data))
           S == Seq(Seq(Nat))
           s0 == << >>
           P(x, i) == x \o Piece(data, i)
           B(f) == [i \in 0 .. n |-> IF i = 0 THEN s0 ELSE f[i - 1] \o Piece(data, i)]
           h == CHOOSE f : f = B(f)
           step == [i \in 1 .. n |-> [x \in S |-> P(x, i)]]
<1>1. n \in Nat /\ s0 \in S
  OBVIOUS
<1>2. ASSUME NEW i \in 1 .. n, NEW x \in S PROVE P(x, i) \in S
  <2>1. Piece(data, i) \in Seq(Seq(Nat))
    BY <1>2
  <2> HIDE DEF n
  <2> QED BY <2>1, JoinIs
<1>3. ParseAnnexB(data) = h[n]
  BY DEF ParseAnnexB, Piece
<1>4. \A f : B(f) = [i \in 0 .. n |-> IF i = 0 THEN s0 ELSE P(f[i - 1], i)]
  OBVIOUS
<1> HIDE DEF n, S, s0, P, B
<1>5. IsStep(step, n, S)
  BY <1>2 DEF IsStep
<1>6. \A i \in 1 .. n, x \in S : step[i][x] = P(x, i)
  OBVIOUS
<1> HIDE DEF step
<1>7. PICK f : IsRun(f, step, n, S, s0)
  BY <1>1, <1>5, RunExists
<1>8. f = B(f)
  <2>1. ASSUME NEW i \in 1 .. n PROVE f[i] = P(f[i - 1], i)
    <3>1. f[i - 1] \in S /\ f[i] = step[i][f[i - 1]]
      BY <1>1, <1>7 DEF IsRun
    <3> QED BY <1>6, <3>1
  <2>2. f = [i \in 0 .. n |-> f[i]] /\ f[0] = s0
    BY <1>7 DEF IsRun
  <2>3. ASSUME NEW i \in 0 .. n PROVE f[i] = IF i = 0 THEN s0 ELSE P(f[i - 1], i)
    <3>1. CASE i = 0
      BY <2>2, <3>1
    <3>2. CASE i # 0
      <4>1. i \in 1 .. n
        BY <1>1, <3>2
      <4> QED BY <2>1, <3>2, <4>1
    <3> QED BY <3>1, <3>2
  <2>4. B(f) = [i \in 0 .. n |-> IF i = 0 THEN s0 ELSE P(f[i - 1], i)]
    BY <1>4
  <2> QED BY <2>2, <2>3, <2>4
<1>9. h = B(h)
  BY <1>8
<1> HIDE DEF h
<1>10. Follows(h, step, n, S, s0)
  <2>1. \A i \in 0 .. n : h[i] = IF i = 0 THEN s0 ELSE P(h[i - 1], i)
    BY <1>4, <1>9
  <2>2. h = [i \in 0 .. n |-> h[i]]
    BY <1>4, <1>9
  <2>3. h[0] = s0
    BY <1>1, <2>1
  <2>4. ASSUME NEW i \in 1 .. n, h[i - 1] \in S PROVE h[i] = step[i][h[i - 1]]
    <3>1. i \in 0 .. n /\ i # 0
      OBVIOUS
    <3>2. h[i] = P(h[i - 1], i)
      BY <2>1, <3>1
    <3> QED BY <1>6, <2>4, <3>2
  <2> QED BY <2>2, <2>3, <2>4 DEF Follows
<1>11. IsRun(h, step, n, S, s0)
  BY <1>1, <1>5, <1>10, FollowsRun
<1>12. ASSUME NEW i \in 1 .. n PROVE h[i] = P(h[i - 1], i)
  <2>1. h[i - 1] \in S /\ h[i] = step[i][h[i - 1]]
    BY <1>1, <1>11 DEF IsRun
  <2> QED BY <1>6, <2>1
<1>13. h \in [0 .. n -> S] /\ h[0] = s0
  BY <1>11 DEF IsRun
<1> QED BY <1>3, <1>12, <1>13 DEF n, S, s0, P

\* How frames are laid out in an Annex B stream: off[i] bytes hold the first i
\* units, each behind its start code.
IsLaidOut(data, off, nalus) ==
  /\ data \in Seq(Nat) /\ off \in [0 .. Len(nalus) -> Nat]
  /\ off[0] = 0 /\ off[Len(nalus)] = Len(data)
  /\ \A i \in 1 .. Len(nalus) :
       /\ off[i] = off[i - 1] + 4 + Len(nalus[i]) /\ off[i] <= Len(data)
       /\ data[off[i - 1] + 1] = 0 /\ data[off[i - 1] + 2] = 0
       /\ data[off[i - 1] + 3] = 0 /\ data[off[i - 1] + 4] = 1
       /\ \A k \in 1 .. Len(nalus[i]) : data[off[i - 1] + 4 + k] = nalus[i][k]

\* What is laid out stays when more is appended.
Extends(y, x) == Len(x) <= Len(y) /\ \A k \in 1 .. Len(x) : y[k] = x[k]

\* The units of a stream are where AnnexB has put them.
LEMMA AnnexBLayout ==
  ASSUME NEW nalus \in Seq(Seq(Nat))
  PROVE \E off : IsLaidOut(AnnexB(nalus), off, nalus)
<1> DEFINE n == Len(nalus)
<1>1. n \in Nat /\ \A i \in 1 .. n : nalus[i] \in Seq(Nat) /\ Len(nalus[i]) \in Nat
  OBVIOUS
<1>2. PICK f : /\ f \in [0 .. n -> Seq(Nat)] /\ f[0] = << >>
               /\ \A i \in 1 .. n : f[i] = f[i - 1] \o (StartCode \o nalus[i])
               /\ AnnexB(nalus) = f[n]
  BY AnnexBRun
<1> HIDE DEF n
<1>3. ASSUME NEW i \in 1 .. n
      PROVE /\ f[i - 1] \in Seq(Nat) /\ f[i] \in Seq(Nat)
            /\ Len(f[i]) = Len(f[i - 1]) + 4 + Len(nalus[i])
            /\ Extends(f[i], f[i - 1])
            /\ f[i][Len(f[i - 1]) + 1] = 0 /\ f[i][Len(f[i - 1]) + 2] = 0
            /\ f[i][Len(f[i - 1]) + 3] = 0 /\ f[i][Len(f[i - 1]) + 4] = 1
            /\ \A k \in 1 .. Len(nalus[i]) : f[i][Len(f[i - 1]) + 4 + k] = nalus[i][k]
  <2> DEFINE u == nalus[i]  x == f[i - 1]  y == f[i]  c == StartCode  w == c \o u
  <2>1. i - 1 \in 0 .. n /\ i \in 0 .. n
    BY <1>1
  <2>2. u \in Seq(Nat) /\ x \in Seq(Nat) /\ y \in Seq(Nat) /\ y = x \o w
    BY <1>1, <1>2, <2>1
  <2>3. c \in Seq(Nat) /\ Len(c) = 4 /\ c[1] = 0 /\ c[2] = 0 /\ c[3] = 0 /\ c[4] = 1
    BY DEF StartCode
  <2> HIDE DEF u, x, y, c
  <2>4. /\ w \in Seq(Nat) /\ Len(w) = 4 + Len(u) /\ Len(u) \in Nat
        /\ \A k \in 1 .. 4 : w[k] = c[k]
        /\ \A k \in 1 .. Len(u) : w[4 + k] = u[k]
    <3>1. c \in Seq(Nat) /\ u \in Seq(Nat)
      BY <2>2, <2>3
    <3>2. /\ w \in Seq(Nat) /\ Len(w) = Len(c) + Len(u) /\ Len(u) \in Nat
          /\ \A k \in 1 .. Len(c) : w[k] = c[k]
          /\ \A k \in 1 .. Len(u) : w[Len(c) + k] = u[k]
      BY <3>1, JoinIs
    <3>3. Len(c) = 4
      BY <2>3
    <3> HIDE DEF w
    <3> QED BY <3>2, <3>3
  <2> HIDE DEF w
  <2>5. /\ Len(y) = Len(x) + Len(w) /\ Len(x) \in Nat
        /\ \A k \in 1 .. Len(x) : y[k] = x[k]
        /\ \A k \in 1 .. Len(w) : y[Len(x) + k] = w[k]
    <3>1. x \in Seq(Nat) /\ w \in Seq(Nat) /\ y = x \o w
      BY <2>2, <2>4
    <3> QED BY <3>1, JoinIs
  <2>6. Extends(y, x) /\ Len(y) = Len(x) + 4 + Len(u)
    BY <2>4, <2>5 DEF Extends
  <2>7. /\ y[Len(x) + 1] = 0 /\ y[Len(x) + 2] = 0 /\ y[Len(x) + 3] = 0 /\ y[Len(x) + 4] = 1
    <3>1. 1 \in 1 .. Len(w) /\ 2 \in 1 .. Len(w) /\ 3 \in 1 .. Len(w) /\ 4 \in 1 .. Len(w)
      BY <2>4
    <3>2. w[1] = 0 /\ w[2] = 0 /\ w[3] = 0 /\ w[4] = 1
      BY <2>3, <2>4
    <3> QED BY <2>5, <3>1, <3>2
  <2>8. ASSUME NEW k \in 1 .. Len(u) PROVE y[Len(x) + 4 + k] = u[k]
    <3>1. 4 + k \in 1 .. Len(w) /\ Len(x) + 4 + k = Len(x) + (4 + k)
      BY <2>4, <2>5
    <3>2. y[Len(x) + (4 + k)] = w[4 + k] /\ w[4 + k] = u[k]
      BY <2>4, <2>5, <3>1
    <3> QED BY <3>1, <3>2
  <2> QED BY <2>2, <2>6, <2>7, <2>8 DEF u, x, y
<1> DEFINE data == f[n]
<1>4. ASSUME NEW i \in 0 .. n PROVE f[i] \in Seq(Nat) /\ Len(f[i]) \in Nat /\ Extends(data, f[i])
  <2> DEFINE T == {d \in Nat : i + d <= n => Extends(f[i + d], f[i])}
  <2>0. \A j \in 0 .. n : f[j] \in Seq(Nat) /\ Len(f[j]) \in Nat
    BY <1>2
  <2>1. 0 \in T
    <3>1. i + 0 = i /\ Len(f[i]) \in Nat
      BY <1>1, <2>0
    <3> QED BY <3>1 DEF Extends
  <2>2. ASSUME NEW d \in T PROVE d + 1 \in T
    <3> SUFFICES ASSUME i + (d + 1) <= n PROVE Extends(f[i + (d + 1)], f[i])
      OBVIOUS
    <3> DEFINE j == i + d
    <3>1. /\ d \in Nat /\ j \in 0 .. n /\ i + (d + 1) = j + 1 /\ j + 1 \in 1 .. n
          /\ (j + 1) - 1 = j /\ i + d <= n
      <4>1. d \in Nat /\ i \in Nat /\ n \in Nat
        BY <1>1
      <4> HIDE DEF T
      <4> QED BY <4>1
    <3>2. Extends(f[j], f[i])
      BY <3>1
    <3> HIDE DEF j, T
    <3>3. Extends(f[j + 1], f[j])
      BY <1>3, <3>1
    <3>4. Len(f[i]) \in Nat /\ Len(f[j]) \in Nat /\ Len(f[j + 1]) \in Nat
      BY <2>0, <3>1
    <3>5. Extends(f[j + 1], f[i])
      <4> DEFINE a == f[i]  b == f[j]  c == f[j + 1]
      <4>1. Extends(b, a) /\ Extends(c, b) /\ Len(a) \in Nat /\ Len(b) \in Nat /\ Len(c) \in Nat
        BY <3>2, <3>3, <3>4
      <4> HIDE DEF a, b, c
      <4>2. Len(a) <= Len(c) /\ \A k \in 1 .. Len(a) : k \in 1 .. Len(b)
        BY <4>1 DEF Extends
      <4>3. Extends(c, a)
        BY <4>1, <4>2 DEF Extends
      <4> QED BY <4>3 DEF a, b, c
    <3> QED BY <3>1, <3>5
  <2>3. T = Nat
    <3>1. T \in SUBSET Nat
      OBVIOUS
    <3> HIDE DEF T
    <3> QED BY <2>1, <2>2, <3>1, SetInduction
  <2>4. n - i \in Nat /\ i + (n - i) = n /\ n <= n
    BY <1>1
  <2> QED BY <2>0, <2>3, <2>4
<1> DEFINE off == [i \in 0 .. n |-> Len(f[i])]
<1>5. off \in [0 .. n -> Nat] /\ off[0] = 0 /\ off[n] = Len(data) /\ data \in Seq(Nat)
  BY <1>1, <1>2, <1>4
<1>6. ASSUME NEW i \in 1 .. n
      PROVE /\ off[i] = off[i - 1] + 4 + Len(nalus[i]) /\ off[i] <= Len(data)
            /\ data[off[i - 1] + 1] = 0 /\ data[off[i - 1] + 2] = 0
            /\ data[off[i - 1] + 3] = 0 /\ data[off[i - 1] + 4] = 1
            /\ \A k \in 1 .. Len(nalus[i]) : data[off[i - 1] + 4 + k] = nalus[i][k]
  <2> DEFINE a == off[i - 1]  L == Len(nalus[i])  y == f[i]
  <2>1. i - 1 \in 0 .. n /\ i \in 0 .. n /\ L \in Nat
    BY <1>1
  <2>2. a = Len(f[i - 1]) /\ off[i] = Len(y) /\ a \in Nat
    BY <1>4, <2>1
  <2>3. /\ Len(y) = a + 4 + L
        /\ y[a + 1] = 0 /\ y[a + 2] = 0 /\ y[a + 3] = 0 /\ y[a + 4] = 1
        /\ \A k \in 1 .. L : y[a + 4 + k] = nalus[i][k]
    BY <1>3, <2>2
  <2>4. Len(y) <= Len(data) /\ \A k \in 1 .. Len(y) : data[k] = y[k]
    BY <1>4, <2>1 DEF Extends
  <2> HIDE DEF a, L, y, off, data
  <2>5. /\ a + 1 \in 1 .. Len(y) /\ a + 2 \in 1 .. Len(y) /\ a + 3 \in 1 .. Len(y)
        /\ a + 4 \in 1 .. Len(y) /\ \A k \in 1 .. L : a + 4 + k \in 1 .. Len(y)
    <3>1. Len(y) = a + 4 + L /\ a \in Nat /\ L \in Nat
      BY <2>1, <2>2, <2>3
    <3> DEFINE N == Len(y)
    <3>2. N = a + 4 + L
      BY <3>1
    <3> HIDE DEF N
    <3> QED BY <3>1, <3>2 DEF N
  <2>6. /\ off[i] = a + 4 + L /\ off[i] <= Len(data)
        /\ data[a + 1] = 0 /\ data[a + 2] = 0 /\ data[a + 3] = 0 /\ data[a + 4] = 1
        /\ \A k \in 1 .. L : data[a + 4 + k] = nalus[i][k]
    BY <2>2, <2>3, <2>4, <2>5
  <2> QED BY <2>6 DEF a, L
<1> HIDE DEF off, data
<1>7. IsLaidOut(data, off, nalus)
  BY <1>5, <1>6 DEF IsLaidOut, n
<1> QED BY <1>2, <1>7 DEF data

\* The two start codes, byte by byte.
LEMMA AtCodes ==
  ASSUME NEW data \in Seq(Nat), NEW p \in Nat \ {0}
  PROVE /\ At(data, p, StartCode) <=>
             /\ p + 3 \in 1 .. Len(data)
             /\ data[p] = 0 /\ data[p + 1] = 0 /\ data[p + 2] = 0 /\ data[p + 3] = 1
        /\ At(data, p, <<0, 0, 1>>) <=>
             /\ p + 2 \in 1 .. Len(data)
             /\ data[p] = 0 /\ data[p + 1] = 0 /\ data[p + 2] = 1
<1>1. DOMAIN data = 1 .. Len(data) /\ Len(data) \in Nat
  OBVIOUS
<1>2. p + 1 - 1 = p /\ p + 2 - 1 = p + 1 /\ p + 3 - 1 = p + 2 /\ p + 4 - 1 = p + 3
  OBVIOUS
<1> DEFINE c == StartCode  d == <<0, 0, 1>>
<1>3. DOMAIN c = {1, 2, 3, 4} /\ c[1] = 0 /\ c[2] = 0 /\ c[3] = 0 /\ c[4] = 1
  BY DEF StartCode
<1>4. DOMAIN d = {1, 2, 3} /\ d[1] = 0 /\ d[2] = 0 /\ d[3] = 1
  OBVIOUS
<1> HIDE DEF c, d
<1>5. At(data, p, c) <=>
        /\ p \in 1 .. Len(data) /\ p + 1 \in 1 .. Len(data)
        /\ p + 2 \in 1 .. Len(data) /\ p + 3 \in 1 .. Len(data)
        /\ data[p] = 0 /\ data[p + 1] = 0 /\ data[p + 2] = 0 /\ data[p + 3] = 1
  BY <1>1, <1>2, <1>3 DEF At
<1>6. At(data, p, d) <=>
        /\ p \in 1 .. Len(data) /\ p + 1 \in 1 .. Len(data) /\ p + 2 \in 1 .. Len(data)
        /\ data[p] = 0 /\ data[p + 1] = 0 /\ data[p + 2] = 1
  BY <1>1, <1>2, <1>4 DEF At
<1>7. /\ p + 3 \in 1 .. Len(data) => p \in 1 .. Len(data) /\ p + 1 \in 1 .. Len(data) /\ p + 2 \in 1 .. Len(data)
      /\ p + 2 \in 1 .. Len(data) => p \in 1 .. Len(data) /\ p + 1 \in 1 .. Len(data)
  BY <1>1
<1> QED BY <1>5, <1>6, <1>7 DEF c, d

\* Where no start code begins.
LEMMA NoCode ==
  ASSUME NEW data \in Seq(Nat), NEW p \in Nat \ {0},
         \/ data[p] # 0 \/ data[p + 1] # 0 \/ data[p + 2] \notin {0, 1}
         \/ p + 2 > Len(data)
         \/ data[p + 2] = 0 /\ data[p + 3] = 0
  PROVE CodeLength(data, p) = 0
<1>1. Len(data) \in Nat
  OBVIOUS
<1>2. ~At(data, p, StartCode) /\ ~At(data, p, <<0, 0, 1>>)
  <2>1. p + 3 \in 1 .. Len(data) => ~(p + 2 > Len(data))
    BY <1>1
  <2>2. p + 2 \in 1 .. Len(data) => ~(p + 2 > Len(data))
    BY <1>1
  <2>3. At(data, p, StartCode) =>
          /\ p + 3 \in 1 .. Len(data)
          /\ data[p] = 0 /\ data[p + 1] = 0 /\ data[p + 2] = 0 /\ data[p + 3] = 1
    BY AtCodes
  <2>4. At(data, p, <<0, 0, 1>>) =>
          /\ p + 2 \in 1 .. Len(data)
          /\ data[p] = 0 /\ data[p + 1] = 0 /\ data[p + 2] = 1
    BY AtCodes
  <2> QED BY SMTT(30), <2>1, <2>2, <2>3, <2>4
<1> QED BY <1>2 DEF CodeLength

\* The units of a frame: none is empty, and no start code is emulated in one.
Sound(nalus) ==
  /\ nalus \in Seq(Seq(Nat))
  /\ \A i \in 1 .. Len(nalus) : Len(nalus[i]) >= 1 /\ Clean(nalus[i])

\* The parser sees a start code where a unit begins and nowhere else: not
\* inside the code, not inside the unit, and not where the unit runs into the
\* next code.
LEMMA CodesAre ==
  ASSUME NEW nalus, Sound(nalus), NEW data, NEW off, IsLaidOut(data, off, nalus),
         NEW i \in 1 .. Len(nalus)
  PROVE /\ CodeLength(data, off[i - 1] + 1) = 4
        /\ \A r \in 2 .. 4 + Len(nalus[i]) : CodeLength(data, off[i - 1] + r) = 0
<1> DEFINE n == Len(nalus)  a == off[i - 1]  u == nalus[i]  L == Len(u)  N == Len(data)
           b == off[i]
<1>1. /\ n \in Nat /\ i - 1 \in 0 .. n /\ i \in 0 .. n /\ u \in Seq(Nat) /\ L \in Nat /\ L >= 1
      /\ Clean(u) /\ DOMAIN u = 1 .. L
  BY DEF Sound
<1>2. data \in Seq(Nat) /\ N \in Nat /\ a \in Nat /\ b \in Nat
  <2>1. data \in Seq(Nat) /\ off \in [0 .. n -> Nat]
    BY DEF IsLaidOut
  <2>2. Len(data) \in Nat
    BY <2>1
  <2>3. off[i - 1] \in Nat /\ off[i] \in Nat
    <3> HIDE DEF n
    <3> QED BY <1>1, <2>1
  <2> QED BY <2>1, <2>2, <2>3
<1>3. /\ b = a + 4 + L /\ b <= N
      /\ data[a + 1] = 0 /\ data[a + 2] = 0 /\ data[a + 3] = 0 /\ data[a + 4] = 1
      /\ \A k \in 1 .. L : data[a + 4 + k] = u[k]
  BY DEF IsLaidOut
<1>4. b < N => /\ data[b + 1] = 0 /\ data[b + 2] = 0 /\ data[b + 3] = 0 /\ b + 4 <= N
  <2> SUFFICES ASSUME b < N PROVE /\ data[b + 1] = 0 /\ data[b + 2] = 0 /\ data[b + 3] = 0 /\ b + 4 <= N
    OBVIOUS
  <2>1. i # n
    BY <1>2 DEF IsLaidOut
  <2>2. i + 1 \in 1 .. n /\ (i + 1) - 1 = i
    BY <1>1, <2>1
  <2>3. /\ data[b + 1] = 0 /\ data[b + 2] = 0 /\ data[b + 3] = 0
        /\ off[i + 1] = b + 4 + Len(nalus[i + 1]) /\ off[i + 1] <= N
    BY <2>2 DEF IsLaidOut
  <2>4. Len(nalus[i + 1]) \in Nat
    BY <2>2 DEF Sound
  <2> DEFINE m == Len(nalus[i + 1])  d == off[i + 1]
  <2>5. d = b + 4 + m /\ d <= N /\ m \in Nat
    BY <2>3, <2>4
  <2> HIDE DEF b, N, m, d
  <2>6. b + 4 <= N
    BY <1>2, <2>5
  <2> QED BY <2>3, <2>6
<1> HIDE DEF n, a, u, L, N, b
<1>5. CodeLength(data, a + 1) = 4
  <2>1. At(data, a + 1, StartCode)
    <3>1. a + 1 \in Nat \ {0} /\ (a + 1) + 3 \in 1 .. N
      BY <1>1, <1>2, <1>3
    <3>2. (a + 1) + 1 = a + 2 /\ (a + 1) + 2 = a + 3 /\ (a + 1) + 3 = a + 4
      BY <1>2
    <3> QED BY <1>2, <1>3, <3>1, <3>2, AtCodes DEF N
  <2> QED BY <2>1 DEF CodeLength
<1>6. At(data, a + 1, StartCode)
  <2> DEFINE p == a + 1
  <2>1. p \in Nat \ {0} /\ p + 3 \in 1 .. N
    BY <1>1, <1>2, <1>3
  <2>2. data[p] = 0 /\ data[p + 1] = 0 /\ data[p + 2] = 0 /\ data[p + 3] = 1
    <3>1. p + 1 = a + 2 /\ p + 2 = a + 3 /\ p + 3 = a + 4
      BY <1>2
    <3> QED BY <1>3, <3>1
  <2> HIDE DEF p
  <2>3. At(data, p, StartCode)
    BY <1>2, <2>1, <2>2, AtCodes DEF N
  <2> QED BY <2>3 DEF p
<1>7. CodeLength(data, a + 2) = 0
  <2> DEFINE p == a + 2
  <2>1. p \in Nat \ {0} /\ p - 1 = a + 1
    BY <1>2
  <2>2. data[p + 2] = 1
    <3>1. p + 2 = a + 4
      BY <1>2
    <3> QED BY <1>3, <3>1
  <2> HIDE DEF p
  <2>3. ~At(data, p, StartCode)
    BY SMTT(30), <1>2, <2>1, <2>2, AtCodes
  <2>4. CodeLength(data, p) = 0
    BY <1>6, <2>1, <2>3 DEF CodeLength
  <2> QED BY <2>4 DEF p
<1>8. CodeLength(data, a + 3) = 0
  <2> DEFINE p == a + 3
  <2>1. p \in Nat \ {0} /\ p + 1 = a + 4
    BY <1>2
  <2>2. data[p + 1] # 0
    BY <1>3, <2>1
  <2> HIDE DEF p
  <2>3. CodeLength(data, p) = 0
    BY <1>2, <2>1, <2>2, NoCode
  <2> QED BY <2>3 DEF p
<1>9. CodeLength(data, a + 4) = 0
  <2>1. a + 4 \in Nat \ {0} /\ data[a + 4] # 0
    BY <1>2, <1>3
  <2> QED BY <1>2, <2>1, NoCode
<1>10. ASSUME NEW k \in 1 .. L PROVE CodeLength(data, a + 4 + k) = 0
  <2> DEFINE p == a + 4 + k
  <2>1. p \in Nat \ {0} /\ k \in Nat /\ data[p] = u[k]
    BY SMTT(30), <1>1, <1>2, <1>3
  <2>2. CASE k + 2 <= L
    <3>1. k + 1 \in 1 .. L /\ k + 2 \in 1 .. L /\ p + 1 = a + 4 + (k + 1) /\ p + 2 = a + 4 + (k + 2)
      BY <1>1, <1>2, <2>1, <2>2
    <3>2. data[p + 1] = u[k + 1] /\ data[p + 2] = u[k + 2] /\ u[k + 2] \in Nat
      BY SMTT(30), <1>1, <1>3, <3>1
    <3>3. data[p] # 0 \/ data[p + 1] # 0 \/ data[p + 2] \notin {0, 1}
      <4>1. u[k] = 0 /\ u[k + 1] = 0 => u[k + 2] > 2
        BY <1>1, <2>1, <3>1 DEF Clean
      <4> HIDE DEF p
      <4> QED BY <2>1, <3>2, <4>1
    <3> HIDE DEF p
    <3>4. CodeLength(data, p) = 0
      BY <1>2, <2>1, <3>3, NoCode
    <3> QED BY <3>4 DEF p
  <2>3. CASE k + 1 = L
    <3>1. p + 1 = b /\ p + 2 = b + 1 /\ p + 3 = b + 2
      BY <1>1, <1>2, <1>3, <2>1, <2>3
    <3>2. p + 2 > N \/ b < N
      BY <1>2, <3>1
    <3> HIDE DEF p
    <3>3. p + 2 > N \/ (data[p + 2] = 0 /\ data[p + 3] = 0)
      BY <1>4, <3>1, <3>2
    <3>4. CodeLength(data, p) = 0
      BY <1>2, <2>1, <3>3, NoCode DEF N
    <3> QED BY <3>4 DEF p
  <2>4. CASE k = L
    <3>1. p = b /\ p + 2 = b + 2 /\ p + 3 = b + 3
      BY <1>1, <1>2, <1>3, <2>1, <2>4
    <3>2. p + 2 > N \/ b < N
      BY <1>2, <3>1
    <3> HIDE DEF p
    <3>3. p + 2 > N \/ (data[p + 2] = 0 /\ data[p + 3] = 0)
      BY <1>4, <3>1, <3>2
    <3>4. CodeLength(data, p) = 0
      BY <1>2, <2>1, <3>3, NoCode DEF N
    <3> QED BY <3>4 DEF p
  <2>5. k + 2 <= L \/ k + 1 = L \/ k = L
    BY <1>1
  <2> QED BY <2>2, <2>3, <2>4, <2>5
<1>11. ASSUME NEW r \in 2 .. 4 + L PROVE CodeLength(data, a + r) = 0
  <2>1. CASE r \in {2, 3, 4}
    BY <1>7, <1>8, <1>9, <2>1
  <2>2. CASE r \notin {2, 3, 4}
    <3> DEFINE k == r - 4
    <3>1. k \in 1 .. L /\ a + 4 + k = a + r
      BY <1>1, <1>2, <2>2
    <3> HIDE DEF k
    <3> QED BY <1>10, <3>1
  <2> QED BY <2>1, <2>2
<1> QED BY <1>5, <1>11 DEF a, u, L

\* The scan finds exactly the units' start codes.
LEMMA FoundAre ==
  ASSUME NEW nalus, Sound(nalus), Len(nalus) >= 1,
         NEW data, NEW off, IsLaidOut(data, off, nalus)
  PROVE /\ Len(StartPositions(data)) = Len(nalus)
        /\ \A j \in 1 .. Len(nalus) : StartPositions(data)[j] = off[j - 1] + 1
<1> DEFINE n == Len(nalus)  N == Len(data)
<1>1. /\ n \in Nat \ {0} /\ N \in Nat /\ data \in Seq(Nat) /\ off \in [0 .. n -> Nat]
      /\ off[0] = 0 /\ off[n] = N
  BY DEF Sound, IsLaidOut
<1>2. ASSUME NEW i \in 1 .. n
      PROVE /\ off[i - 1] \in Nat /\ off[i] \in Nat /\ Len(nalus[i]) \in Nat \ {0}
            /\ off[i] = off[i - 1] + 4 + Len(nalus[i]) /\ off[i] <= N
  <2>1. i - 1 \in 0 .. n /\ i \in 0 .. n
    BY <1>1
  <2>2. off[i - 1] \in Nat /\ off[i] \in Nat
    BY <1>1, <2>1
  <2>3. Len(nalus[i]) \in Nat \ {0}
    <3>1. nalus[i] \in Seq(Nat) /\ Len(nalus[i]) >= 1
      BY DEF Sound
    <3> DEFINE u == nalus[i]
    <3>2. u \in Seq(Nat) /\ Len(u) >= 1
      BY <3>1
    <3> HIDE DEF u
    <3>3. Len(u) \in Nat \ {0}
      BY <3>2
    <3> QED BY <3>3 DEF u
  <2>4. off[i] = off[i - 1] + 4 + Len(nalus[i]) /\ off[i] <= N
    BY DEF IsLaidOut
  <2> QED BY <2>2, <2>3, <2>4
<1>3. N > 4
  <2>1. n \in 1 .. n
    BY <1>1
  <2> DEFINE a == off[n - 1]  m == Len(nalus[n])
  <2>2. N = a + 4 + m /\ a \in Nat /\ m \in Nat \ {0}
    BY <1>1, <1>2, <2>1
  <2> HIDE DEF N, a, m
  <2> QED BY <2>2
<1>4. PICK g : /\ g \in [0 .. N -> Seq(Nat)] /\ g[0] = << >>
               /\ \A i \in 1 .. N : g[i] = IF CodeLength(data, i) = 0 THEN g[i - 1] ELSE Append(g[i - 1], i)
               /\ StartPositions(data) = g[N]
  BY <1>1, <1>3, FoundRun
<1> HIDE DEF n, N
<1> DEFINE Found(i) == /\ g[off[i]] \in Seq(Nat) /\ Len(g[off[i]]) = i
                       /\ \A j \in 1 .. i : g[off[i]][j] = off[j - 1] + 1
           T == {i \in Nat : i <= n => Found(i)}
<1>5. 0 \in T
  BY <1>1, <1>4
<1>6. ASSUME NEW i \in T PROVE i + 1 \in T
  <2> SUFFICES ASSUME i + 1 <= n PROVE Found(i + 1)
    <3> HIDE DEF Found
    <3> QED OBVIOUS
  <2>1. i \in Nat /\ i + 1 \in 1 .. n /\ (i + 1) - 1 = i /\ i <= n
    <3>1. i \in Nat /\ n \in Nat
      BY <1>1
    <3> HIDE DEF T
    <3> QED BY <3>1
  <2>2. /\ g[off[i]] \in Seq(Nat) /\ Len(g[off[i]]) = i
        /\ \A j \in 1 .. i : g[off[i]][j] = off[j - 1] + 1
    BY <2>1
  <2> HIDE DEF T
  <2> DEFINE a == off[i]  b == off[i + 1]  m == Len(nalus[i + 1])  x == g[a]
  <2>3. a \in Nat /\ b \in Nat /\ m \in Nat \ {0} /\ b = a + 4 + m /\ b <= N
    BY <1>2, <2>1
  <2>4. CodeLength(data, a + 1) = 4 /\ \A r \in 2 .. 4 + m : CodeLength(data, a + r) = 0
    BY <2>1, CodesAre DEF n
  <2> HIDE DEF a, b, m
  <2>5. g[a + 1] = Append(x, a + 1)
    <3> DEFINE q == a + 1
    <3>1. q \in 1 .. N /\ q - 1 = a
      BY <1>1, <2>3
    <3>2. CodeLength(data, q) = 4
      BY <2>4
    <3> HIDE DEF q
    <3>3. g[q] = Append(g[a], q)
      <4>1. g[q] = IF CodeLength(data, q) = 0 THEN g[q - 1] ELSE Append(g[q - 1], q)
        BY <1>4, <3>1
      <4>2. CodeLength(data, q) # 0
        BY <3>2
      <4> QED BY <3>1, <4>1, <4>2
    <3> QED BY <3>3 DEF q
  <2> HIDE DEF x
  <2> DEFINE R == {r \in Nat : r + 1 <= 4 + m => g[a + (r + 1)] = Append(x, a + 1)}
  <2>6. 0 \in R
    <3>1. 0 + 1 = 1
      OBVIOUS
    <3> QED BY <2>5, <3>1
  <2>7. ASSUME NEW r \in R PROVE r + 1 \in R
    <3> SUFFICES ASSUME (r + 1) + 1 <= 4 + m PROVE g[a + ((r + 1) + 1)] = Append(x, a + 1)
      OBVIOUS
    <3>1. /\ r \in Nat /\ r + 1 <= 4 + m /\ (r + 1) + 1 \in 2 .. 4 + m
          /\ a + ((r + 1) + 1) \in 1 .. N /\ (a + ((r + 1) + 1)) - 1 = a + (r + 1)
      <4>1. r \in Nat
        OBVIOUS
      <4> HIDE DEF R
      <4> QED BY <1>1, <2>3, <4>1
    <3>2. g[a + (r + 1)] = Append(x, a + 1)
      BY <3>1
    <3> HIDE DEF R
    <3> DEFINE q == (r + 1) + 1
    <3>3. CodeLength(data, a + q) = 0 /\ a + q \in 1 .. N /\ (a + q) - 1 = a + (r + 1)
      BY <2>4, <3>1
    <3> HIDE DEF q
    <3>4. g[a + q] = g[a + (r + 1)]
      BY <1>4, <3>3
    <3> QED BY <3>2, <3>4 DEF q
  <2>8. R = Nat
    <3>1. R \in SUBSET Nat
      OBVIOUS
    <3> HIDE DEF R
    <3> QED BY <2>6, <2>7, <3>1, SetInduction
  <2>9. g[b] = Append(x, a + 1)
    <3> DEFINE r == m + 3
    <3>1. r \in Nat /\ r + 1 <= 4 + m /\ a + (r + 1) = b
      BY <2>3
    <3> HIDE DEF r
    <3> QED BY <2>8, <3>1
  <2>10. /\ g[b] \in Seq(Nat) /\ Len(g[b]) = i + 1 /\ g[b][i + 1] = a + 1
         /\ \A j \in 1 .. i : g[b][j] = x[j]
    <3>1. x \in Seq(Nat) /\ Len(x) = i /\ a + 1 \in Nat
      BY <2>2, <2>3 DEF x, a
    <3> QED BY <2>1, <2>9, <3>1
  <2>11. ASSUME NEW j \in 1 .. i + 1 PROVE g[b][j] = off[j - 1] + 1
    <3>1. CASE j = i + 1
      BY <2>1, <2>10, <3>1 DEF a
    <3>2. CASE j # i + 1
      <4>1. j \in 1 .. i
        BY <2>1, <3>2
      <4> QED BY <2>2, <2>10, <4>1 DEF x, a
    <3> QED BY <3>1, <3>2
  <2> QED BY <2>10, <2>11 DEF b
<1>7. T = Nat
  <2>1. T \in SUBSET Nat
    OBVIOUS
  <2> HIDE DEF T
  <2> QED BY <1>5, <1>6, <2>1, SetInduction
<1>8. Found(n)
  <2>1. n \in Nat /\ n <= n
    BY <1>1
  <2> QED BY <1>7, <2>1
<1> QED BY <1>1, <1>4, <1>8 DEF n

\* The parser loses nothing and invents nothing: from what the sender writes,
\* parseAnnexB gets the NAL units back, whatever they hold, as long as no start
\* code is emulated inside one.
THEOREM ParserFindsUnits ==
  ASSUME NEW nalus, Sound(nalus)
  PROVE ParseAnnexB(AnnexB(nalus)) = nalus
<1> DEFINE n == Len(nalus)  data == AnnexB(nalus)
<1>1. nalus \in Seq(Seq(Nat)) /\ n \in Nat
  BY DEF Sound
<1>2. PICK off : IsLaidOut(data, off, nalus)
  BY <1>1, AnnexBLayout
<1> HIDE DEF data
<1>3. CASE n = 0
  <2>1. nalus = << >>
    BY <1>1, <1>3
  <2>2. Len(data) = 0
    BY <1>2, <1>3 DEF IsLaidOut
  <2>3. StartPositions(data) = << >>
    BY <2>2 DEF StartPositions
  <2>4. PICK f : /\ f[0] = << >> /\ ParseAnnexB(data) = f[Len(StartPositions(data))]
    <3>1. Len(StartPositions(data)) = 0
      BY <2>3
    <3> QED BY <3>1, ParseRun
  <2>5. ParseAnnexB(data) = << >>
    BY <2>3, <2>4
  <2> QED BY <2>1, <2>5 DEF data
<1>4. CASE n # 0
  <2> DEFINE starts == StartPositions(data)
  <2>1. Len(starts) = n /\ \A j \in 1 .. n : starts[j] = off[j - 1] + 1
    <3>1. Len(nalus) >= 1
      BY <1>1, <1>4
    <3> QED BY <1>2, <3>1, FoundAre
  <2> HIDE DEF starts
  <2>2. ASSUME NEW j \in 1 .. n PROVE Piece(data, j) = <<nalus[j]>>
    <3> DEFINE a == off[j - 1]  u == nalus[j]  m == Len(u)  N == Len(data)  b == off[j]
               s == SubSeq(data, a + 5, a + 4 + m)
    <3>1. /\ a \in Nat /\ N \in Nat /\ data \in Seq(Nat) /\ u \in Seq(Nat) /\ m \in Nat \ {0}
      <4>1. j - 1 \in 0 .. n
        BY <1>1
      <4>2. data \in Seq(Nat) /\ off \in [0 .. n -> Nat]
        BY <1>2 DEF IsLaidOut
      <4>3. u \in Seq(Nat) /\ m >= 1
        BY DEF Sound
      <4> HIDE DEF u
      <4>4. m \in Nat \ {0}
        BY <4>3
      <4>5. a \in Nat
        <5> HIDE DEF n
        <5> QED BY <4>1, <4>2
      <4>6. N \in Nat
        BY <4>2
      <4> QED BY <4>2, <4>3, <4>4, <4>5, <4>6
    <3>2. b = a + 4 + m /\ b <= N /\ \A k \in 1 .. m : data[a + 4 + k] = u[k]
      BY <1>2 DEF IsLaidOut
    <3>3. starts[j] = a + 1 /\ CodeLength(data, starts[j]) = 4
      BY <1>2, <2>1, CodesAre
    <3>4. (IF j < Len(starts) THEN starts[j + 1] - 1 ELSE N) = a + 4 + m
      <4>1. CASE j < n
        <5>1. j + 1 \in 1 .. n /\ (j + 1) - 1 = j
          BY <1>1, <4>1
        <5>2. starts[j + 1] = b + 1
          BY <2>1, <5>1
        <5> HIDE DEF a, b, m, N, n
        <5> QED BY <2>1, <3>1, <3>2, <4>1, <5>2
      <4>2. CASE ~(j < n)
        <5>1. j = n
          BY <1>1, <4>2
        <5>2. b = N
          BY <1>2, <5>1 DEF IsLaidOut
        <5> HIDE DEF a, b, m, N
        <5> QED BY <2>1, <3>2, <4>2, <5>2
      <4> QED BY <4>1, <4>2
    <3>5. (a + 1) + 4 = a + 5 /\ ~(a + 5 > a + 4 + m)
      <4> HIDE DEF a, m
      <4> QED BY <3>1
    <3>6. Piece(data, j) = <<s>>
      <4> DEFINE B == starts[j] + CodeLength(data, starts[j])
                 E == IF j < Len(starts) THEN starts[j + 1] - 1 ELSE N
      <4>1. Piece(data, j) = IF B > E THEN << >> ELSE <<SubSeq(data, B, E)>>
        BY DEF Piece, starts
      <4>2. B = a + 5 /\ E = a + 4 + m
        BY <3>3, <3>4, <3>5
      <4> HIDE DEF B, E
      <4> QED BY <3>5, <4>1, <4>2
    <3>7. s \in Seq(Nat) /\ Len(s) = m /\ \A k \in 1 .. m : s[k] = u[k]
      <4> DEFINE c == a + 5  d == a + 4 + m
      <4>1. /\ c \in 1 .. N + 1 /\ d \in c - 1 .. N /\ d - c + 1 = m
            /\ \A k \in 1 .. m : c + k - 1 = a + 4 + k
        <5> HIDE DEF a, b, m, N
        <5> QED BY <3>1, <3>2
      <4> HIDE DEF c, d, a, u, b
      <4>2. /\ SubSeq(data, c, d) \in Seq(Nat) /\ Len(SubSeq(data, c, d)) = d - c + 1
            /\ \A k \in 1 .. d - c + 1 : SubSeq(data, c, d)[k] = data[c + k - 1]
        BY SMTT(30), <3>1, <4>1, SubSeqProperties
      <4>3. \A k \in 1 .. m : SubSeq(data, c, d)[k] = u[k]
        BY <3>2, <4>1, <4>2
      <4> QED BY <4>1, <4>2, <4>3 DEF c, d
    <3>8. s = u
      <4> HIDE DEF s, u
      <4> QED BY <3>1, <3>7, SeqEqual
    <3> QED BY <3>6, <3>8
  <2>3. PICK f : /\ f \in [0 .. n -> Seq(Seq(Nat))] /\ f[0] = << >>
                 /\ \A j \in 1 .. n : f[j] = f[j - 1] \o Piece(data, j)
                 /\ ParseAnnexB(data) = f[n]
    <3>1. \A j \in 1 .. n : Piece(data, j) \in Seq(Seq(Nat))
      <4>1. \A j \in 1 .. n : nalus[j] \in Seq(Nat)
        BY <1>1
      <4>2. \A x \in Seq(Nat) : <<x>> \in Seq(Seq(Nat))
        OBVIOUS
      <4> HIDE DEF n
      <4> QED BY <2>2, <4>1, <4>2
    <3>2. Len(StartPositions(data)) = n
      BY <2>1 DEF starts
    <3> HIDE DEF n
    <3>3. /\ Len(StartPositions(data)) \in Nat
          /\ \A j \in 1 .. Len(StartPositions(data)) : Piece(data, j) \in Seq(Seq(Nat))
      BY <1>1, <3>1, <3>2
    <3>4. \E f : /\ f \in [0 .. Len(StartPositions(data)) -> Seq(Seq(Nat))] /\ f[0] = << >>
                 /\ \A j \in 1 .. Len(StartPositions(data)) : f[j] = f[j - 1] \o Piece(data, j)
                 /\ ParseAnnexB(data) = f[Len(StartPositions(data))]
      BY <3>3, ParseRun
    <3> QED BY <3>2, <3>4
  <2> HIDE DEF n
  <2> DEFINE Read(j) == Len(f[j]) = j /\ \A k \in 1 .. j : f[j][k] = nalus[k]
             T == {j \in Nat : j <= n => Read(j)}
  <2>4. 0 \in T
    BY <2>3
  <2>5. ASSUME NEW j \in T PROVE j + 1 \in T
    <3> SUFFICES ASSUME j + 1 <= n PROVE Read(j + 1)
      <4> HIDE DEF Read
      <4> QED OBVIOUS
    <3>1. j \in Nat /\ j + 1 \in 1 .. n /\ (j + 1) - 1 = j /\ j <= n /\ j \in 0 .. n
      <4>1. j \in Nat /\ n \in Nat
        BY <1>1
      <4> HIDE DEF T
      <4> QED BY <4>1
    <3>2. Len(f[j]) = j /\ \A k \in 1 .. j : f[j][k] = nalus[k]
      BY <3>1
    <3> HIDE DEF T
    <3>3. f[j + 1] = f[j] \o <<nalus[j + 1]>> /\ f[j] \in Seq(Seq(Nat))
      BY <2>2, <2>3, <3>1
    <3>4. nalus[j + 1] \in Seq(Nat)
      BY <1>1, <3>1 DEF n
    <3> DEFINE x == f[j]  u == nalus[j + 1]  y == f[j + 1]
    <3>5. x \in Seq(Seq(Nat)) /\ u \in Seq(Nat) /\ y = x \o <<u>> /\ Len(x) = j
      BY <3>2, <3>3, <3>4
    <3> HIDE DEF x, u, y
    <3>6. Len(y) = j + 1 /\ y[j + 1] = u /\ \A k \in 1 .. j : y[k] = x[k]
      <4> DEFINE w == <<u>>
      <4>1. w \in Seq(Seq(Nat)) /\ Len(w) = 1 /\ w[1] = u /\ y = x \o w /\ 1 \in 1 .. Len(w)
        BY <3>5
      <4> HIDE DEF w
      <4>2. /\ Len(y) = Len(x) + Len(w)
            /\ \A k \in 1 .. Len(x) : y[k] = x[k]
            /\ \A k \in 1 .. Len(w) : y[Len(x) + k] = w[k]
        BY <3>5, <4>1, JoinIs
      <4> QED BY <3>5, <4>1, <4>2
    <3>7. ASSUME NEW k \in 1 .. j + 1 PROVE y[k] = nalus[k]
      <4>1. CASE k = j + 1
        BY <3>6, <4>1 DEF u
      <4>2. CASE k # j + 1
        <5>1. k \in 1 .. j
          BY <3>1, <4>2
        <5> QED BY <3>2, <3>6, <5>1 DEF x
      <4> QED BY <4>1, <4>2
    <3> QED BY <3>6, <3>7 DEF y
  <2>6. T = Nat
    <3>1. T \in SUBSET Nat
      OBVIOUS
    <3> HIDE DEF T
    <3> QED BY <2>4, <2>5, <3>1, SetInduction
  <2>7. Read(n) /\ f[n] \in Seq(Seq(Nat))
    <3>1. n \in Nat /\ n <= n /\ n \in 0 .. n
      BY <1>1
    <3> QED BY <2>3, <2>6, <3>1
  <2>8. f[n] = nalus
    <3> DEFINE y == f[n]
    <3>1. y \in Seq(Seq(Nat)) /\ Len(y) = Len(nalus) /\ \A k \in 1 .. Len(y) : y[k] = nalus[k]
      BY <2>7 DEF n
    <3> HIDE DEF y
    <3>2. y = nalus
      BY <1>1, <3>1, SeqEqual
    <3> QED BY <3>2 DEF y
  <2> QED BY <2>3, <2>8 DEF data
<1> QED BY <1>3, <1>4

-----------------------------------------------------------------------------
(* Parameter sets and slice headers.                                       *)

\* One bit string after another.
LEMMA JoinBits ==
  ASSUME NEW x \in Bits, NEW y \in Bits
  PROVE /\ x \o y \in Bits /\ Len(x \o y) = Len(x) + Len(y)
        /\ Len(x) \in Nat /\ Len(y) \in Nat
<1>1. x \in Seq({0, 1}) /\ y \in Seq({0, 1})
  BY DEF Bits
<1>2. x \o y \in Seq({0, 1}) /\ Len(x \o y) = Len(x) + Len(y) /\ Len(x) \in Nat /\ Len(y) \in Nat
  BY <1>1, JoinIs
<1> QED BY <1>2 DEF Bits

\* Two pieces of a bit string are where they should be.
LEMMA AtBits ==
  ASSUME NEW data, NEW a \in Nat, NEW x \in Bits, NEW y \in Bits, At(data, a, x \o y)
  PROVE At(data, a, x) /\ At(data, a + Len(x), y)
<1>1. x \in Seq({0, 1}) /\ y \in Seq({0, 1})
  BY DEF Bits
<1> QED BY <1>1, AtSplit

\* The flags.
LEMMA Flags ==
  /\ U(0, 1) = <<0>> /\ U(1, 1) = <<1>> /\ Shift(0, 1) = 0 /\ Shift(1, 1) = 0
  /\ <<0>> \in Bits /\ <<1>> \in Bits
<1>1. Shift(0, 0) = 0 /\ Shift(1, 0) = 1 /\ Shift(0, 0 + 1) = 0 \div 2 /\ Shift(1, 0 + 1) = 1 \div 2
  BY ShiftSteps
<1>2. 0 + 1 = 1 /\ 0 \div 2 = 0 /\ 1 \div 2 = 0 /\ 1 - 1 = 0 /\ 0 % 2 = 0 /\ 1 % 2 = 1
  OBVIOUS
<1>3. U(0, 1) = [i \in 1 .. 1 |-> Shift(0, 1 - i) % 2] /\ U(1, 1) = [i \in 1 .. 1 |-> Shift(1, 1 - i) % 2]
  BY DEF U
<1>4. U(0, 1)[1] = 0 /\ U(1, 1)[1] = 1
  BY <1>1, <1>2, <1>3
<1>5. U(0, 1) \in Bits /\ Len(U(0, 1)) = 1 /\ U(1, 1) \in Bits /\ Len(U(1, 1)) = 1
  BY UBits
<1>6. U(0, 1) \in Seq({0, 1}) /\ U(1, 1) \in Seq({0, 1})
  BY <1>5 DEF Bits
<1> DEFINE x == U(0, 1)  y == U(1, 1)
<1>7. x \in Seq({0, 1}) /\ y \in Seq({0, 1}) /\ Len(x) = 1 /\ Len(y) = 1 /\ x[1] = 0 /\ y[1] = 1
  BY <1>4, <1>5, <1>6
<1> HIDE DEF x, y
<1>8. x = <<0>> /\ y = <<1>>
  BY <1>7
<1> QED BY <1>1, <1>2, <1>5, <1>8 DEF x, y

\* The Exp-Golomb codes that occur.
LEMMA UeBit ==
  ASSUME NEW v \in Codable
  PROVE Ue(v) \in Bits /\ Len(Ue(v)) \in Nat
<1>1. Ue(v) \in Bits
  BY UeBits
<1> QED BY <1>1 DEF Bits

\* The constants among them.
LEMMA SmallUe ==
  /\ 0 \in Codable /\ 1 \in Codable /\ 2 \in Codable /\ 3 \in Codable /\ 8 \in Codable
  /\ Ue(0) \in Bits /\ Ue(1) \in Bits /\ Ue(2) \in Bits /\ Ue(3) \in Bits
  /\ Ue(8) \in Bits /\ Se(0) \in Bits
<1>1. 0 \in Codable /\ 1 \in Codable /\ 2 \in Codable /\ 3 \in Codable /\ 8 \in Codable
  BY DEF Codable
<1>2. Se(0) = Ue(0)
  BY DEF Se
<1> QED BY <1>1, <1>2, UeBit

\* The bit strings of n bits.
BitsOf(n) == {x \in Bits : Len(x) = n}

\* Their lengths add up.
LEMMA JoinBitsOf ==
  ASSUME NEW x, NEW y, NEW a \in Nat, NEW b \in Nat, NEW c,
         x \in BitsOf(a), y \in BitsOf(b), c = a + b
  PROVE x \o y \in BitsOf(c)
<1>1. x \in Bits /\ y \in Bits /\ Len(x) = a /\ Len(y) = b
  BY DEF BitsOf
<1>2. x \o y \in Bits /\ Len(x \o y) = Len(x) + Len(y)
  BY <1>1, JoinBits
<1> QED BY <1>1, <1>2 DEF BitsOf

\* A field has the bits it says.
LEMMA UBitsOf ==
  ASSUME NEW v \in Nat, NEW n \in Nat
  PROVE U(v, n) \in BitsOf(n)
  BY UBits DEF BitsOf

\* Profile, tier and level: 96 bits.
LEMMA ProfileBits == ProfileTierLevel \in BitsOf(96)
<1> DEFINE a == U(0, 2)  b == <<0>>  c == U(1, 5)
           d == [i \in 1 .. 32 |-> IF i \in {2, 3} THEN 1 ELSE 0]
           e == <<1, 0, 1, 1>>  f == Zeros(44)  g == U(120, 8)
           ab == a \o b  abc == ab \o c  abcd == abc \o d  abcde == abcd \o e
           abcdef == abcde \o f
<1>1. a \in BitsOf(2) /\ c \in BitsOf(5) /\ g \in BitsOf(8)
  BY UBitsOf
<1>2. f \in BitsOf(44)
  BY ZerosBits DEF BitsOf
<1>3. b \in BitsOf(1) /\ d \in BitsOf(32) /\ e \in BitsOf(4)
  BY DEF Bits, BitsOf
<1>4. ProfileTierLevel = abcdef \o g
  BY DEF ProfileTierLevel
<1> HIDE DEF a, b, c, d, e, f, g
<1>5. ab \in BitsOf(3)
  <2>1. 3 = 2 + 1
    OBVIOUS
  <2> QED BY <1>1, <1>3, <2>1, JoinBitsOf
<1> HIDE DEF ab
<1>6. abc \in BitsOf(8)
  <2>1. 8 = 3 + 5
    OBVIOUS
  <2> QED BY <1>1, <1>5, <2>1, JoinBitsOf
<1> HIDE DEF abc
<1>7. abcd \in BitsOf(40)
  <2>1. 40 = 8 + 32
    OBVIOUS
  <2> QED BY <1>3, <1>6, <2>1, JoinBitsOf
<1> HIDE DEF abcd
<1>8. abcde \in BitsOf(44)
  <2>1. 44 = 40 + 4
    OBVIOUS
  <2> QED BY <1>3, <1>7, <2>1, JoinBitsOf
<1> HIDE DEF abcde
<1>9. abcdef \in BitsOf(88)
  <2>1. 88 = 44 + 44
    OBVIOUS
  <2> QED BY <1>2, <1>8, <2>1, JoinBitsOf
<1> HIDE DEF abcdef
<1>10. abcdef \o g \in BitsOf(96)
  <2>1. 96 = 88 + 8
    OBVIOUS
  <2> QED BY <1>1, <1>9, <2>1, JoinBitsOf
<1> QED BY <1>4, <1>10

\* The sequence parameter set up to the picture size: 104 bits.
LEMMA HeadBits == SpsHead \in Bits /\ Len(SpsHead) = 104
<1> DEFINE a == U(0, 4)  b == U(0, 3)  c == <<1>>  d == ProfileTierLevel
           ab == a \o b  abc == ab \o c
<1>1. a \in BitsOf(4) /\ b \in BitsOf(3)
  BY UBitsOf
<1>2. c \in BitsOf(1)
  BY DEF Bits, BitsOf
<1>3. SpsHead = abc \o d
  BY DEF SpsHead
<1> HIDE DEF a, b, c, d
<1>4. ab \in BitsOf(7)
  <2>1. 7 = 4 + 3
    OBVIOUS
  <2> QED BY <1>1, <2>1, JoinBitsOf
<1> HIDE DEF ab
<1>5. abc \in BitsOf(8)
  <2>1. 8 = 7 + 1
    OBVIOUS
  <2> QED BY <1>2, <1>4, <2>1, JoinBitsOf
<1> HIDE DEF abc
<1>6. abc \o d \in BitsOf(104)
  <2>1. 104 = 8 + 96 /\ d \in BitsOf(96)
    BY ProfileBits DEF d
  <2> QED BY <1>5, <2>1, JoinBitsOf
<1> QED BY <1>3, <1>6 DEF BitsOf

\* The sub-layer ordering is a bit string.
LEMMA SubLayerBits == SubLayerOrdering \in Bits
  BY Flags, SmallUe, JoinBits DEF SubLayerOrdering

\* The video parameter set is a bit string.
LEMMA VpsBits ==
  ASSUME NEW fps \in Nat
  PROVE Vps(fps) \in Bits
<1>1. /\ U(0, 4) \in Bits /\ U(0, 6) \in Bits /\ U(0, 3) \in Bits /\ U(65535, 16) \in Bits
      /\ U(1, 32) \in Bits /\ U(fps, 32) \in Bits
  BY SMTT(30), UBits
<1>2. <<1, 1>> \in Bits
  BY DEF Bits
<1>3. \A x, y \in Bits : x \o y \in Bits
  BY JoinBits
<1>4. ProfileTierLevel \in Bits
  BY ProfileBits DEF BitsOf
<1> QED BY <1>1, <1>2, <1>3, <1>4, Flags, SmallUe, SubLayerBits DEF Vps

\* The picture parameter set is a bit string.
LEMMA PpsBits == Pps \in Bits
<1>1. U(0, 3) \in Bits
  BY UBits
<1>2. /\ <<0, 0>> \in Bits /\ <<0, 0, 1>> \in Bits /\ <<0, 0, 0, 0, 0, 0>> \in Bits
      /\ <<1, 1, 0, 0>> \in Bits
  BY DEF Bits
<1>3. \A x, y \in Bits : x \o y \in Bits
  BY JoinBits
<1> QED BY <1>1, <1>2, <1>3, Flags, SmallUe DEF Pps

\* What follows the picture size in the sequence parameter set is a bit string.
LEMMA CodingBits == SpsCoding \in Bits
<1>1. <<0, 1, 0, 0>> \in Bits /\ <<0, 0, 1, 0, 0>> \in Bits
  BY DEF Bits
<1>2. PocBits - 4 = 8
  BY DEF PocBits
<1>3. \A x, y \in Bits : x \o y \in Bits
  BY JoinBits
<1> QED BY <1>1, <1>2, <1>3, SmallUe, SubLayerBits DEF SpsCoding

\* The header of a slice is a bit string.
LEMMA SliceBits ==
  ASSUME NEW poc \in Nat
  PROVE SliceHeader(TRUE, poc) \in Bits /\ SliceHeader(FALSE, poc) \in Bits
<1>1. <<1, 0>> \in Bits
  BY DEF Bits
<1>2. U(poc, PocBits) \in Bits
  <2>1. PocBits \in Nat
    BY DEF PocBits
  <2> QED BY <2>1, UBits
<1>3. \A x, y \in Bits : x \o y \in Bits
  BY JoinBits
<1>4. InlineRps \in Bits
  BY <1>3, Flags, SmallUe DEF InlineRps
<1>5. SliceHeader(TRUE, poc) \in Bits
  BY <1>1, <1>3, SmallUe DEF SliceHeader
<1>6. SliceHeader(FALSE, poc) \in Bits
  BY <1>2, <1>3, <1>4, Flags, SmallUe DEF SliceHeader
<1> QED BY <1>5, <1>6

\* A list of values, and one more.
LEMMA AppendIs ==
  ASSUME NEW s \in Seq(Nat), NEW t \in Seq(Nat), Len(t) = Len(s) + 1,
         \A i \in 1 .. Len(s) : t[i] = s[i]
  PROVE Append(s, t[Len(s) + 1]) = t
<1> DEFINE n == Len(s)  e == t[n + 1]  u == Append(s, e)
<1>1. n \in Nat /\ e \in Nat
  OBVIOUS
<1> HIDE DEF e
<1>2. u \in Seq(Nat) /\ Len(u) = n + 1 /\ u[n + 1] = e /\ \A i \in 1 .. n : u[i] = s[i]
  BY <1>1
<1> HIDE DEF u
<1>3. \A i \in 1 .. n + 1 : u[i] = t[i]
  <2> SUFFICES ASSUME NEW i \in 1 .. n + 1 PROVE u[i] = t[i]
    OBVIOUS
  <2>1. i = n + 1 \/ i \in 1 .. n
    BY <1>1
  <2> QED BY <1>2, <2>1 DEF e
<1>4. u = t
  BY <1>1, <1>2, <1>3, SeqEqual
<1> QED BY <1>4 DEF u, e

\* The lists of up to five values that reading builds.
LEMMA AppendLists ==
  /\ \A a \in Nat : Append(<< >>, a) = <<a>>
  /\ \A a, b \in Nat : Append(<<a>>, b) = <<a, b>>
  /\ \A a, b, c \in Nat : Append(<<a, b>>, c) = <<a, b, c>>
  /\ \A a, b, c, d \in Nat : Append(<<a, b, c>>, d) = <<a, b, c, d>>
  /\ \A a, b, c, d, e \in Nat : Append(<<a, b, c, d>>, e) = <<a, b, c, d, e>>
<1>1. ASSUME NEW a \in Nat
      PROVE Append(<< >>, a) = <<a>>
  OBVIOUS
<1>2. ASSUME NEW a \in Nat, NEW b \in Nat
      PROVE Append(<<a>>, b) = <<a, b>>
  <2> DEFINE s == <<a>>  t == <<a, b>>
  <2>1. s \in Seq(Nat) /\ t \in Seq(Nat) /\ Len(s) = 1 /\ Len(t) = 1 + 1 /\ t[1 + 1] = b
        /\ \A i \in 1 .. 1 : t[i] = s[i]
    OBVIOUS
  <2> HIDE DEF s, t
  <2>2. Append(s, b) = t
    BY <2>1, AppendIs
  <2> QED BY <2>2 DEF s, t
<1>3. ASSUME NEW a \in Nat, NEW b \in Nat, NEW c \in Nat
      PROVE Append(<<a, b>>, c) = <<a, b, c>>
  <2> DEFINE s == <<a, b>>  t == <<a, b, c>>
  <2>1. s \in Seq(Nat) /\ t \in Seq(Nat) /\ Len(s) = 2 /\ Len(t) = 2 + 1 /\ t[2 + 1] = c
        /\ \A i \in 1 .. 2 : t[i] = s[i]
    OBVIOUS
  <2> HIDE DEF s, t
  <2>2. Append(s, c) = t
    BY <2>1, AppendIs
  <2> QED BY <2>2 DEF s, t
<1>4. ASSUME NEW a \in Nat, NEW b \in Nat, NEW c \in Nat, NEW d \in Nat
      PROVE Append(<<a, b, c>>, d) = <<a, b, c, d>>
  <2> DEFINE s == <<a, b, c>>  t == <<a, b, c, d>>
  <2>1. s \in Seq(Nat) /\ t \in Seq(Nat) /\ Len(s) = 3 /\ Len(t) = 3 + 1 /\ t[3 + 1] = d
        /\ \A i \in 1 .. 3 : t[i] = s[i]
    OBVIOUS
  <2> HIDE DEF s, t
  <2>2. Append(s, d) = t
    BY <2>1, AppendIs
  <2> QED BY <2>2 DEF s, t
<1>5. ASSUME NEW a \in Nat, NEW b \in Nat, NEW c \in Nat, NEW d \in Nat, NEW e \in Nat
      PROVE Append(<<a, b, c, d>>, e) = <<a, b, c, d, e>>
  <2> DEFINE s == <<a, b, c, d>>  t == <<a, b, c, d, e>>
  <2>1. s \in Seq(Nat) /\ t \in Seq(Nat) /\ Len(s) = 4 /\ Len(t) = 4 + 1 /\ t[4 + 1] = e
        /\ \A i \in 1 .. 4 : t[i] = s[i]
    OBVIOUS
  <2> HIDE DEF s, t
  <2>2. Append(s, e) = t
    BY <2>1, AppendIs
  <2> QED BY <2>2 DEF s, t
<1> QED BY <1>1, <1>2, <1>3, <1>4, <1>5

\* Five pieces of a bit string, each where it should be.
LEMMA FiveParts ==
  ASSUME NEW data, NEW a \in Nat, NEW x1 \in Bits, NEW x2 \in Bits, NEW x3 \in Bits,
         NEW x4 \in Bits, NEW x5 \in Bits, At(data, a, x1 \o x2 \o x3 \o x4 \o x5)
  PROVE /\ At(data, a, x1) /\ At(data, a + Len(x1), x2)
        /\ At(data, a + Len(x1) + Len(x2), x3)
        /\ At(data, a + Len(x1) + Len(x2) + Len(x3), x4)
        /\ At(data, a + Len(x1) + Len(x2) + Len(x3) + Len(x4), x5)
<1> DEFINE y2 == x1 \o x2  y3 == y2 \o x3  y4 == y3 \o x4
           n1 == Len(x1)  n2 == Len(x2)  n3 == Len(x3)  n4 == Len(x4)
<1>1. /\ n1 \in Nat /\ n2 \in Nat /\ n3 \in Nat /\ n4 \in Nat
  BY DEF Bits
<1>2. y2 \in Bits /\ Len(y2) = n1 + n2
  BY JoinBits
<1> HIDE DEF y2
<1>3. y3 \in Bits /\ Len(y3) = Len(y2) + n3
  BY <1>2, JoinBits
<1> HIDE DEF y3
<1>4. y4 \in Bits /\ Len(y4) = Len(y3) + n4
  BY <1>3, JoinBits
<1>5. At(data, a, y4 \o x5)
  BY DEF y3, y2
<1> HIDE DEF y4
<1>6. At(data, a, y4) /\ At(data, a + Len(y4), x5)
  BY <1>4, <1>5, AtBits
<1>7. At(data, a, y3 \o x4)
  BY <1>6 DEF y4
<1>8. At(data, a, y3) /\ At(data, a + Len(y3), x4)
  BY <1>3, <1>7, AtBits
<1>9. At(data, a, y2 \o x3)
  BY <1>8 DEF y3
<1>10. At(data, a, y2) /\ At(data, a + Len(y2), x3)
  BY <1>2, <1>9, AtBits
<1>11. At(data, a, x1 \o x2)
  BY <1>10 DEF y2
<1>12. At(data, a, x1) /\ At(data, a + n1, x2)
  BY <1>11, AtBits
<1> HIDE DEF n1, n2, n3, n4
<1>13. /\ a + Len(y2) = a + n1 + n2 /\ a + Len(y3) = a + n1 + n2 + n3
       /\ a + Len(y4) = a + n1 + n2 + n3 + n4
  BY <1>1, <1>2, <1>3, <1>4
<1> QED BY <1>6, <1>8, <1>10, <1>12, <1>13 DEF n1, n2, n3, n4

\* Five fields are read one after the other.
LEMMA ReadFive ==
  ASSUME NEW bits, NEW at, NEW fmt, Len(fmt) = 5,
         NEW r0, NEW r1, NEW r2, NEW r3, NEW r4, NEW r5,
         r0 = [at |-> at, values |-> << >>],
         r1 = ReadField(bits, r0, fmt[1]), r2 = ReadField(bits, r1, fmt[2]),
         r3 = ReadField(bits, r2, fmt[3]), r4 = ReadField(bits, r3, fmt[4]),
         r5 = ReadField(bits, r4, fmt[5])
  PROVE ReadFields(bits, at, fmt) = r5
<1> DEFINE R(s, i) == ReadField(bits, s, fmt[i])
           B(f) == [i \in 0 .. Len(fmt) |-> IF i = 0 THEN [at |-> at, values |-> << >>]
                                              ELSE ReadField(bits, f[i - 1], fmt[i])]
           h == CHOOSE f : f = B(f)
           g == [i \in 0 .. 5 |-> CASE i = 0 -> r0 [] i = 1 -> r1 [] i = 2 -> r2
                                    [] i = 3 -> r3 [] i = 4 -> r4 [] OTHER -> r5]
<1>1. ReadFields(bits, at, fmt) = h[5]
  BY DEF ReadFields
<1>2. \A f : B(f) = [i \in 0 .. 5 |-> IF i = 0 THEN r0 ELSE R(f[i - 1], i)]
  OBVIOUS
<1>3. /\ r1 = R(r0, 1) /\ r2 = R(r1, 2) /\ r3 = R(r2, 3) /\ r4 = R(r3, 4) /\ r5 = R(r4, 5)
  OBVIOUS
<1> HIDE DEF B, R
<1>4. g[0] = r0 /\ g[1] = r1 /\ g[2] = r2 /\ g[3] = r3 /\ g[4] = r4 /\ g[5] = r5
  OBVIOUS
<1>5. g = [i \in 0 .. 5 |-> g[i]]
  OBVIOUS
<1> HIDE DEF g
<1>6. ASSUME NEW i \in 0 .. 5 PROVE g[i] = IF i = 0 THEN r0 ELSE R(g[i - 1], i)
  <2>1. 1 - 1 = 0 /\ 2 - 1 = 1 /\ 3 - 1 = 2 /\ 4 - 1 = 3 /\ 5 - 1 = 4
    OBVIOUS
  <2>2. i \in {0, 1, 2, 3, 4, 5}
    OBVIOUS
  <2> QED BY <1>3, <1>4, <2>1, <2>2
<1>7. g = B(g)
  BY <1>2, <1>5, <1>6
<1>8. h = B(h)
  BY <1>7
<1> HIDE DEF h
<1>9. \A i \in 0 .. 5 : h[i] = IF i = 0 THEN r0 ELSE R(h[i - 1], i)
  BY <1>2, <1>8
<1>10. /\ h[0] = r0 /\ h[1] = R(h[0], 1) /\ h[2] = R(h[1], 2) /\ h[3] = R(h[2], 3)
       /\ h[4] = R(h[3], 4) /\ h[5] = R(h[4], 5)
  <2>1. 1 - 1 = 0 /\ 2 - 1 = 1 /\ 3 - 1 = 2 /\ 4 - 1 = 3 /\ 5 - 1 = 4
    OBVIOUS
  <2>2. \A i \in 1 .. 5 : h[i] = R(h[i - 1], i)
    BY <1>9
  <2>3. h[0] = r0
    BY <1>9
  <2>4. /\ h[1] = R(h[1 - 1], 1) /\ h[2] = R(h[2 - 1], 2) /\ h[3] = R(h[3 - 1], 3)
        /\ h[4] = R(h[4 - 1], 4) /\ h[5] = R(h[5 - 1], 5)
    BY <2>2
  <2> QED BY <2>1, <2>3, <2>4
<1> QED BY <1>1, <1>3, <1>10

\* Four fields are.
LEMMA ReadFour ==
  ASSUME NEW bits, NEW at, NEW fmt, Len(fmt) = 4,
         NEW r0, NEW r1, NEW r2, NEW r3, NEW r4,
         r0 = [at |-> at, values |-> << >>],
         r1 = ReadField(bits, r0, fmt[1]), r2 = ReadField(bits, r1, fmt[2]),
         r3 = ReadField(bits, r2, fmt[3]), r4 = ReadField(bits, r3, fmt[4])
  PROVE ReadFields(bits, at, fmt) = r4
<1> DEFINE R(s, i) == ReadField(bits, s, fmt[i])
           B(f) == [i \in 0 .. Len(fmt) |-> IF i = 0 THEN [at |-> at, values |-> << >>]
                                              ELSE ReadField(bits, f[i - 1], fmt[i])]
           h == CHOOSE f : f = B(f)
           g == [i \in 0 .. 4 |-> CASE i = 0 -> r0 [] i = 1 -> r1 [] i = 2 -> r2
                                    [] i = 3 -> r3 [] OTHER -> r4]
<1>1. ReadFields(bits, at, fmt) = h[4]
  BY DEF ReadFields
<1>2. \A f : B(f) = [i \in 0 .. 4 |-> IF i = 0 THEN r0 ELSE R(f[i - 1], i)]
  OBVIOUS
<1>3. /\ r1 = R(r0, 1) /\ r2 = R(r1, 2) /\ r3 = R(r2, 3) /\ r4 = R(r3, 4)
  OBVIOUS
<1> HIDE DEF B, R
<1>4. g[0] = r0 /\ g[1] = r1 /\ g[2] = r2 /\ g[3] = r3 /\ g[4] = r4
  OBVIOUS
<1>5. g = [i \in 0 .. 4 |-> g[i]]
  OBVIOUS
<1> HIDE DEF g
<1>6. ASSUME NEW i \in 0 .. 4 PROVE g[i] = IF i = 0 THEN r0 ELSE R(g[i - 1], i)
  <2>1. 1 - 1 = 0 /\ 2 - 1 = 1 /\ 3 - 1 = 2 /\ 4 - 1 = 3
    OBVIOUS
  <2>2. i \in {0, 1, 2, 3, 4}
    OBVIOUS
  <2> QED BY <1>3, <1>4, <2>1, <2>2
<1>7. g = B(g)
  BY <1>2, <1>5, <1>6
<1>8. h = B(h)
  BY <1>7
<1> HIDE DEF h
<1>9. \A i \in 0 .. 4 : h[i] = IF i = 0 THEN r0 ELSE R(h[i - 1], i)
  BY <1>2, <1>8
<1>10. /\ h[0] = r0 /\ h[1] = R(h[0], 1) /\ h[2] = R(h[1], 2) /\ h[3] = R(h[2], 3)
       /\ h[4] = R(h[3], 4)
  <2>1. 1 - 1 = 0 /\ 2 - 1 = 1 /\ 3 - 1 = 2 /\ 4 - 1 = 3
    OBVIOUS
  <2>2. \A i \in 1 .. 4 : h[i] = R(h[i - 1], i)
    BY <1>9
  <2>3. h[0] = r0
    BY <1>9
  <2>4. /\ h[1] = R(h[1 - 1], 1) /\ h[2] = R(h[2 - 1], 2) /\ h[3] = R(h[3 - 1], 3)
        /\ h[4] = R(h[4 - 1], 4)
    BY <2>2
  <2> QED BY <2>1, <2>3, <2>4
<1> QED BY <1>1, <1>3, <1>10

\* What the picture size becomes: whole CTUs, less the window that is cut off.
LEMMA SizesFit ==
  ASSUME NEW w \in Sides
  PROVE /\ Align(w, CtuSize) \in Codable /\ (Align(w, CtuSize) - w) \div 2 \in Codable
        /\ Align(w, CtuSize) - 2 * (0 + (Align(w, CtuSize) - w) \div 2) = w
        /\ Align(w, CtuSize) - 2 * (0 + 0) = Align(w, CtuSize)
<1>1. w \in 2 .. 8192 /\ w % 2 = 0
  BY DEF Sides
<1>2. Align(w, CtuSize) = ((w + 64 - 1) \div 64) * 64
  BY DEF Align, CtuSize
<1> DEFINE q == (w + 64 - 1) \div 64
<1>3. q \in 1 .. 128 /\ 64 * q - w \in 0 .. 63
  BY <1>1
<1>4. Align(w, CtuSize) = 64 * q
  BY <1>2, <1>3
<1> HIDE DEF q
<1> DEFINE a == 64 * q
<1>5. a - 2 * (0 + ((a - w) \div 2)) = w
  <2> DEFINE m == 32 * q - (w \div 2)
  <2>1. a - w = 2 * m /\ m \in Int
    BY <1>1, <1>3
  <2> HIDE DEF m
  <2>2. (2 * m) \div 2 = m
    BY <2>1
  <2>3. (a - w) \div 2 = m /\ w \in Int /\ a \in Int
    BY <1>1, <1>3, <2>1, <2>2
  <2> HIDE DEF a
  <2> QED BY <2>1, <2>3
<1>6. a \in Codable /\ (a - w) \div 2 \in Codable /\ a - 2 * (0 + 0) = a
  <2>1. a - w \in 0 .. 63 /\ a \in 0 .. 8192
    BY <1>3
  <2> DEFINE d == a - w
  <2> HIDE DEF a, d
  <2>2. d \in 0 .. 63
    BY <2>1 DEF d
  <2>3. d \div 2 \in 0 .. 31
    BY <2>2
  <2>4. d \div 2 \in Codable
    <3> DEFINE half == d \div 2
    <3>1. half \in 0 .. 31
      BY <2>3
    <3> HIDE DEF half
    <3>2. half \in Codable
      BY <3>1 DEF Codable
    <3> QED BY <3>2 DEF half
  <2>5. a \in Codable /\ a - 2 * (0 + 0) = a
    BY <2>1 DEF Codable
  <2> QED BY <2>4, <2>5 DEF d
<1> HIDE DEF a
<1>7. Align(w, CtuSize) = a
  BY <1>4 DEF a
<1> QED BY <1>5, <1>6, <1>7

\* The NAL unit that holds some bits, and its body.
LEMMA BodyOf ==
  ASSUME NEW type \in 0 .. 63, NEW bits \in Bits, NEW rest \in Seq(Nat)
  PROVE At(BodyBits(Nalu(type, bits) \o rest), 1, bits)
<1> DEFINE h == <<2 * type, 1>>  e == Escape(ToBytes(TrailingBits(bits)))
<1>1. e \in Seq(Nat)
  <2>1. PICK q \in Nat \ {0} : TrailingBits(bits) \in Bits /\ Len(TrailingBits(bits)) = 8 * q
    BY TrailingBitsAre
  <2>2. ToBytes(TrailingBits(bits)) \in Seq(Nat)
    BY <2>1, ToBytesAre
  <2> QED BY <2>2, EscapeClean
<1>2. h \in Seq(Nat) /\ 2 * type \in Nat /\ 1 \in Nat
  OBVIOUS
<1>3. Nalu(type, bits) = h \o e
  BY DEF Nalu
<1>4. (h \o e) \o rest = h \o (e \o rest)
  <2> HIDE DEF h, e
  <2> QED BY SMTT(30), <1>1, <1>2, ConcatAssociative
<1>5. At(BodyBits(h \o (e \o rest)), 1, bits)
  BY <1>2, BodyBitsBegin
<1> QED BY <1>3, <1>4, <1>5

\* A decoder reads in a sequence parameter set the picture size it was written
\* for: the coded size, in whole CTUs, and the conformance window that cuts it.
THEOREM SizeReadsBack ==
  ASSUME NEW w \in Sides, NEW h \in Sides
  PROVE SizeInSps(Nalu(SpsType, Sps(w, h))) = <<w, h>>
<1> DEFINE aw == Align(w, CtuSize)  ah == Align(h, CtuSize)
           cw == (aw - w) \div 2  ch == (ah - h) \div 2
           F == ConformanceWindow(aw, ah, w, h)
           P == SpsPicture(w, h)
           bits == BodyBits(Nalu(SpsType, Sps(w, h)))
<1>1. /\ aw \in Codable /\ cw \in Codable /\ aw - 2 * (0 + cw) = w /\ aw - 2 * (0 + 0) = aw
      /\ ah \in Codable /\ ch \in Codable /\ ah - 2 * (0 + ch) = h /\ ah - 2 * (0 + 0) = ah
  BY SizesFit
<1>2. F = IF aw = w /\ ah = h THEN <<0>> ELSE <<1>> \o Ue(0) \o Ue(cw) \o Ue(0) \o Ue(ch)
  BY DEF ConformanceWindow
<1>3. P = Ue(0) \o Ue(1) \o Ue(aw) \o Ue(ah) \o F
  BY DEF SpsPicture
<1> HIDE DEF aw, ah, cw, ch, F, P
<1>4. \A x, y \in Bits : x \o y \in Bits
  BY JoinBits
<1>5. Ue(aw) \in Bits /\ Ue(ah) \in Bits /\ Ue(cw) \in Bits /\ Ue(ch) \in Bits
  BY <1>1, UeBit
<1>6. F \in Bits
  BY <1>2, <1>4, <1>5, Flags, SmallUe
<1>7. P \in Bits
  BY <1>3, <1>4, <1>5, <1>6, SmallUe
<1>8. Sps(w, h) = SpsHead \o P \o SpsCoding /\ SpsHead \o P \in Bits /\ Sps(w, h) \in Bits
  BY <1>4, <1>7, HeadBits, CodingBits DEF Sps, P
<1>9. At(bits, 1, Sps(w, h))
  <2>1. << >> \in Seq(Nat) /\ SpsType \in 0 .. 63
    BY DEF SpsType
  <2>2. Nalu(SpsType, Sps(w, h)) \in Seq(Nat)
    BY <1>8, <2>1, NaluIs
  <2>3. Nalu(SpsType, Sps(w, h)) \o << >> = Nalu(SpsType, Sps(w, h))
    BY <2>2, ConcatEmptySeq
  <2>4. At(BodyBits(Nalu(SpsType, Sps(w, h)) \o << >>), 1, Sps(w, h))
    BY <1>8, <2>1, BodyOf
  <2> QED BY <2>3, <2>4
<1> HIDE DEF bits
<1>10. At(bits, 105, P)
  <2>1. At(bits, 1, SpsHead \o P)
    BY <1>8, <1>9, CodingBits, AtBits
  <2>2. At(bits, 1 + Len(SpsHead), P)
    <3>1. SpsHead \in Bits /\ 1 \in Nat
      BY HeadBits
    <3> QED BY <1>7, <2>1, <3>1, AtBits
  <2>3. 1 + Len(SpsHead) = 105
    BY HeadBits
  <2> QED BY <2>2, <2>3
<1> DEFINE p2 == 105 + Len(Ue(0))  p3 == p2 + Len(Ue(1))  p4 == p3 + Len(Ue(aw))
           p5 == p4 + Len(Ue(ah))
<1>11. /\ At(bits, 105, Ue(0)) /\ At(bits, p2, Ue(1)) /\ At(bits, p3, Ue(aw))
       /\ At(bits, p4, Ue(ah)) /\ At(bits, p5, F)
  BY <1>3, <1>5, <1>6, <1>10, SmallUe, FiveParts
<1>12. p2 \in Nat \ {0} /\ p3 \in Nat \ {0} /\ p4 \in Nat \ {0} /\ p5 \in Nat \ {0}
  <2>1. Len(Ue(0)) \in Nat /\ Len(Ue(1)) \in Nat /\ Len(Ue(aw)) \in Nat /\ Len(Ue(ah)) \in Nat
    BY <1>1, SmallUe, UeBit
  <2> QED BY <2>1
<1> DEFINE flag == IF aw = w /\ ah = h THEN 0 ELSE 1
           r0 == [at |-> 105, values |-> << >>]
           r1 == [at |-> p2, values |-> <<0>>]
           r2 == [at |-> p3, values |-> <<0, 1>>]
           r3 == [at |-> p4, values |-> <<0, 1, aw>>]
           r4 == [at |-> p5, values |-> <<0, 1, aw, ah>>]
           r5 == [at |-> p5 + 1, values |-> <<0, 1, aw, ah, flag>>]
<1>24. 0 \in Nat /\ 1 \in Nat /\ aw \in Nat /\ ah \in Nat /\ cw \in Nat /\ ch \in Nat /\ flag \in Nat
  BY <1>1, CodableAre
<1>13. r1 = ReadField(bits, r0, 0)
  <2>1. r0.at = 105 /\ r0.values = << >> /\ Append(<< >>, 0) = <<0>>
    OBVIOUS
  <2>2. ReadField(bits, r0, 0) = [at |-> r0.at + Len(Ue(0)), values |-> Append(r0.values, 0)]
    BY <1>11, <2>1, SmallUe, ReadUe
  <2> QED BY <2>1, <2>2
<1>14. r2 = ReadField(bits, r1, 0)
  <2>1. r1.at = p2 /\ r1.values = <<0>>
    OBVIOUS
  <2>7. Append(<<0>>, 1) = <<0, 1>>
    BY <1>24, AppendLists
  <2> HIDE DEF p2, r1
  <2>2. ReadField(bits, r1, 0) = [at |-> r1.at + Len(Ue(1)), values |-> Append(r1.values, 1)]
    BY <1>11, <1>12, <2>1, SmallUe, ReadUe
  <2> QED BY <2>1, <2>2, <2>7
<1>15. r3 = ReadField(bits, r2, 0)
  <2>1. r2.at = p3 /\ r2.values = <<0, 1>>
    OBVIOUS
  <2>7. Append(<<0, 1>>, aw) = <<0, 1, aw>>
    BY <1>24, AppendLists
  <2> HIDE DEF p3, r2
  <2>2. ReadField(bits, r2, 0) = [at |-> r2.at + Len(Ue(aw)), values |-> Append(r2.values, aw)]
    BY <1>1, <1>11, <1>12, <2>1, ReadUe
  <2> QED BY <2>1, <2>2, <2>7
<1>16. r4 = ReadField(bits, r3, 0)
  <2>1. r3.at = p4 /\ r3.values = <<0, 1, aw>>
    OBVIOUS
  <2>7. Append(<<0, 1, aw>>, ah) = <<0, 1, aw, ah>>
    BY <1>24, AppendLists
  <2> HIDE DEF p4, r3
  <2>2. ReadField(bits, r3, 0) = [at |-> r3.at + Len(Ue(ah)), values |-> Append(r3.values, ah)]
    BY <1>1, <1>11, <1>12, <2>1, ReadUe
  <2> QED BY <2>1, <2>2, <2>7
<1> HIDE DEF p2, p3, p4, p5
<1>17. At(bits, p5, U(flag, 1)) /\ Shift(flag, 1) = 0 /\ flag \in Nat
  <2>1. CASE aw = w /\ ah = h
    BY <1>2, <1>11, <2>1, Flags
  <2>2. CASE ~(aw = w /\ ah = h)
    <3>1. F = <<1>> \o Ue(0) \o Ue(cw) \o Ue(0) \o Ue(ch)
      BY <1>2, <2>2
    <3>2. At(bits, p5, <<1>>)
      BY <1>5, <1>11, <1>12, <3>1, Flags, SmallUe, FiveParts
    <3> QED BY <2>2, <3>2, Flags
  <2> QED BY <2>1, <2>2
<1>18. r5 = ReadField(bits, r4, 1)
  <2>1. r4.at = p5 /\ r4.values = <<0, 1, aw, ah>>
    OBVIOUS
  <2>7. Append(<<0, 1, aw, ah>>, flag) = <<0, 1, aw, ah, flag>>
    BY <1>24, AppendLists
  <2> HIDE DEF r4, flag
  <2>3. ReadField(bits, r4, 1) = [at |-> r4.at + 1, values |-> Append(r4.values, flag)]
    <3>1. r4.at \in Positive /\ 1 \in Positive
      BY <1>12, <2>1 DEF Positive
    <3>2. At(bits, r4.at, U(flag, 1))
      BY <1>17, <2>1
    <3> QED BY <1>17, <3>1, <3>2, ReadU
  <2> QED BY <2>1, <2>3, <2>7
<1>19. ReadFields(bits, 8 + 96 + 1, <<0, 0, 0, 0, 1>>) = r5
  <2> DEFINE fm == <<0, 0, 0, 0, 1>>
  <2>1. Len(fm) = 5 /\ fm[1] = 0 /\ fm[2] = 0 /\ fm[3] = 0 /\ fm[4] = 0 /\ fm[5] = 1 /\ 8 + 96 + 1 = 105
    OBVIOUS
  <2>2. r0 = [at |-> 105, values |-> << >>]
    OBVIOUS
  <2> HIDE DEF fm, r0, r1, r2, r3, r4, r5
  <2>3. ReadFields(bits, 105, fm) = r5
    BY <1>13, <1>14, <1>15, <1>16, <1>18, <2>1, <2>2, ReadFive
  <2> QED BY <2>1, <2>3 DEF fm
<1>20. /\ r5.at = p5 + 1 /\ r5.values[3] = aw /\ r5.values[4] = ah /\ r5.values[5] = flag
  OBVIOUS
<1> HIDE DEF r5
<1> DEFINE win == IF r5.values[5] = 0 THEN <<0, 0, 0, 0>>
                  ELSE ReadFields(bits, r5.at, <<0, 0, 0, 0>>).values
<1>21. SizeInSps(Nalu(SpsType, Sps(w, h)))
         = <<r5.values[3] - 2 * (win[1] + win[2]), r5.values[4] - 2 * (win[3] + win[4])>>
  BY <1>19 DEF SizeInSps, bits
<1>22. CASE aw = w /\ ah = h
  <2>1. win = <<0, 0, 0, 0>>
    BY <1>20, <1>22
  <2>2. win[1] = 0 /\ win[2] = 0 /\ win[3] = 0 /\ win[4] = 0
    BY <2>1
  <2> HIDE DEF win
  <2> QED BY <1>1, <1>20, <1>21, <1>22, <2>2
<1>23. CASE ~(aw = w /\ ah = h)
  <2>1. F = <<1>> \o Ue(0) \o Ue(cw) \o Ue(0) \o Ue(ch)
    BY <1>2, <1>23
  <2> DEFINE q1 == p5 + Len(<<1>>)  q2 == q1 + Len(Ue(0))  q3 == q2 + Len(Ue(cw))
             q4 == q3 + Len(Ue(0))  q5 == q4 + Len(Ue(ch))
  <2>2. At(bits, q1, Ue(0)) /\ At(bits, q2, Ue(cw)) /\ At(bits, q3, Ue(0)) /\ At(bits, q4, Ue(ch))
    BY ZenonT(30), <1>5, <1>11, <1>12, <2>1, Flags, SmallUe, FiveParts
  <2>3. q1 = p5 + 1 /\ q1 \in Nat \ {0} /\ q2 \in Nat \ {0} /\ q3 \in Nat \ {0} /\ q4 \in Nat \ {0}
    <3>1. Len(<<1>>) = 1 /\ Len(Ue(0)) \in Nat /\ Len(Ue(cw)) \in Nat /\ Len(Ue(ch)) \in Nat
      BY <1>1, SmallUe, UeBit
    <3> QED BY <1>12, <3>1
  <2> DEFINE s0 == [at |-> q1, values |-> << >>]
             s1 == [at |-> q2, values |-> <<0>>]
             s2 == [at |-> q3, values |-> <<0, cw>>]
             s3 == [at |-> q4, values |-> <<0, cw, 0>>]
             s4 == [at |-> q5, values |-> <<0, cw, 0, ch>>]
  <2>4. s1 = ReadField(bits, s0, 0)
    <3>1. s0.at = q1 /\ s0.values = << >> /\ Append(<< >>, 0) = <<0>>
      OBVIOUS
    <3> HIDE DEF q1, s0
    <3>2. ReadField(bits, s0, 0) = [at |-> s0.at + Len(Ue(0)), values |-> Append(s0.values, 0)]
      BY <2>2, <2>3, <3>1, SmallUe, ReadUe
    <3> QED BY <3>1, <3>2
  <2>5. s2 = ReadField(bits, s1, 0)
    <3>1. s1.at = q2 /\ s1.values = <<0>>
      OBVIOUS
    <3>7. Append(<<0>>, cw) = <<0, cw>>
      BY <1>24, AppendLists
    <3> HIDE DEF q2, s1
    <3>2. ReadField(bits, s1, 0) = [at |-> s1.at + Len(Ue(cw)), values |-> Append(s1.values, cw)]
      BY <1>1, <2>2, <2>3, <3>1, ReadUe
    <3> QED BY <3>1, <3>2, <3>7
  <2>6. s3 = ReadField(bits, s2, 0)
    <3>1. s2.at = q3 /\ s2.values = <<0, cw>>
      OBVIOUS
    <3>7. Append(<<0, cw>>, 0) = <<0, cw, 0>>
      BY <1>24, AppendLists
    <3> HIDE DEF q3, s2
    <3>2. ReadField(bits, s2, 0) = [at |-> s2.at + Len(Ue(0)), values |-> Append(s2.values, 0)]
      BY <2>2, <2>3, <3>1, SmallUe, ReadUe
    <3> QED BY <3>1, <3>2, <3>7
  <2>7. s4 = ReadField(bits, s3, 0)
    <3>1. s3.at = q4 /\ s3.values = <<0, cw, 0>>
      OBVIOUS
    <3>7. Append(<<0, cw, 0>>, ch) = <<0, cw, 0, ch>>
      BY <1>24, AppendLists
    <3> HIDE DEF q4, s3
    <3>2. ReadField(bits, s3, 0) = [at |-> s3.at + Len(Ue(ch)), values |-> Append(s3.values, ch)]
      BY <1>1, <2>2, <2>3, <3>1, ReadUe
    <3> QED BY <3>1, <3>2, <3>7
  <2>8. ReadFields(bits, q1, <<0, 0, 0, 0>>) = s4
    <3> DEFINE fm == <<0, 0, 0, 0>>
    <3>1. Len(fm) = 4 /\ fm[1] = 0 /\ fm[2] = 0 /\ fm[3] = 0 /\ fm[4] = 0
      OBVIOUS
    <3>2. s0 = [at |-> q1, values |-> << >>]
      OBVIOUS
    <3> HIDE DEF fm, q1, s0, s1, s2, s3, s4
    <3>3. ReadFields(bits, q1, fm) = s4
      BY <2>4, <2>5, <2>6, <2>7, <3>1, <3>2, ReadFour
    <3> QED BY <3>3 DEF fm
  <2>9. s4.values[1] = 0 /\ s4.values[2] = cw /\ s4.values[3] = 0 /\ s4.values[4] = ch
    OBVIOUS
  <2> HIDE DEF q1, s4
  <2>10. win = s4.values
    BY <1>20, <1>23, <2>3, <2>8
  <2> HIDE DEF win
  <2>11. win[1] = 0 /\ win[2] = cw /\ win[3] = 0 /\ win[4] = ch
    BY <2>9, <2>10
  <2> QED BY <1>1, <1>20, <1>21, <2>11
<1> QED BY <1>22, <1>23

\* A slice: its header's NAL unit, and the escaped data behind it.
LEMMA SliceIs ==
  ASSUME NEW idr \in BOOLEAN, NEW poc \in Nat, NEW payload \in Seq(Nat)
  PROVE /\ Slice(idr, poc, payload) \in Seq(Nat) /\ Len(Slice(idr, poc, payload)) >= 1
        /\ Clean(Slice(idr, poc, payload))
        /\ NaluType(Slice(idr, poc, payload)) = SliceType(idr)
<1> DEFINE type == SliceType(idr)  bits == SliceHeader(idr, poc)
           x == Nalu(type, bits)  y == Escape(payload)
<1>1. type \in 0 .. 63
  BY DEF SliceType
<1>2. bits \in Bits
  <2>1. idr = TRUE \/ idr = FALSE
    OBVIOUS
  <2> QED BY <2>1, SliceBits
<1> HIDE DEF type, bits
<1>3. /\ x \in Seq(Nat) /\ Len(x) >= 3 /\ Clean(x) /\ NaluType(x) = type /\ x[Len(x)] # 0
  BY <1>1, <1>2, NaluIs
<1>4. y \in Seq(Nat) /\ Clean(y)
  BY EscapeClean
<1>5. Slice(idr, poc, payload) = x \o y
  BY DEF Slice, type, bits
<1> HIDE DEF x, y
<1>6. Len(x) >= 1 /\ x \in Seq(Nat) /\ y \in Seq(Nat) /\ Clean(x) /\ Clean(y) /\ x[Len(x)] # 0
  BY <1>3, <1>4
<1>7. Clean(x \o y)
  BY <1>6, CleanConcat
<1>8. /\ x \o y \in Seq(Nat) /\ Len(x \o y) = Len(x) + Len(y) /\ Len(x) \in Nat /\ Len(y) \in Nat
      /\ \A k \in 1 .. Len(x) : (x \o y)[k] = x[k]
  BY <1>6, JoinIs
<1> DEFINE z == x \o y
<1>9. z[1] = x[1] /\ Len(z) >= 1
  BY <1>6, <1>8
<1> HIDE DEF z
<1>10. NaluType(z) = NaluType(x)
  BY <1>9 DEF NaluType
<1> QED BY <1>3, <1>5, <1>7, <1>8, <1>9, <1>10 DEF z, type

\* A decoder reads in a P slice the picture order count the encoder wrote there,
\* as long as twelve bits hold it, and whatever slice data follows.
THEOREM PocReadsBack ==
  ASSUME NEW poc \in Nat, Shift(poc, PocBits) = 0, NEW payload \in Seq(Nat)
  PROVE PocInSlice(Slice(FALSE, poc, payload)) = poc
<1> DEFINE H == SliceHeader(FALSE, poc)
           nalu == Slice(FALSE, poc, payload)
           bits == BodyBits(nalu)
           F == U(poc, PocBits)
           H5 == <<1>> \o Ue(0) \o Ue(1) \o F \o InlineRps
<1>1. PocBits \in Nat \ {0} /\ PocBits = 12
  BY DEF PocBits
<1>2. F \in Bits
  BY <1>1, UBits
<1>3. \A x, y \in Bits : x \o y \in Bits
  BY JoinBits
<1>4. InlineRps \in Bits
  BY <1>3, Flags, SmallUe DEF InlineRps
<1>5. H = H5 \o <<0>> \o Se(0)
  BY DEF SliceHeader
<1> HIDE DEF F
<1>6. H5 \in Bits /\ H5 \o <<0>> \in Bits
  BY <1>2, <1>3, <1>4, Flags, SmallUe
<1>7. H \in Bits
  BY SliceBits
<1>8. At(bits, 1, H)
  <2>1. Escape(payload) \in Seq(Nat) /\ SliceType(FALSE) \in 0 .. 63
    BY EscapeClean DEF SliceType
  <2>2. nalu = Nalu(SliceType(FALSE), H) \o Escape(payload)
    BY DEF Slice
  <2> HIDE DEF H, nalu
  <2>3. At(BodyBits(Nalu(SliceType(FALSE), H) \o Escape(payload)), 1, H)
    BY <1>7, <2>1, BodyOf
  <2> QED BY <2>2, <2>3
<1> HIDE DEF bits, H, H5
<1>9. At(bits, 1, H5)
  <2>1. 1 \in Nat /\ Se(0) \in Bits /\ <<0>> \in Bits /\ At(bits, 1, (H5 \o <<0>>) \o Se(0))
    BY <1>5, <1>8, SmallUe, Flags
  <2>2. At(bits, 1, H5 \o <<0>>)
    BY <1>6, <2>1, AtBits
  <2> QED BY <1>6, <2>1, <2>2, AtBits
<1> DEFINE one == <<1>>
           p2 == 1 + Len(one)  p3 == p2 + Len(Ue(0))  p4 == p3 + Len(Ue(1))
<1>10. At(bits, 1, one) /\ At(bits, p2, Ue(0)) /\ At(bits, p3, Ue(1)) /\ At(bits, p4, F)
  <2>1. 1 \in Nat /\ At(bits, 1, one \o Ue(0) \o Ue(1) \o F \o InlineRps)
    BY <1>9 DEF H5
  <2>2. one \in Bits /\ Ue(0) \in Bits /\ Ue(1) \in Bits
    BY Flags, SmallUe
  <2> HIDE DEF one
  <2> QED BY <1>2, <1>4, <2>1, <2>2, FiveParts
<1>11. p2 = 1 + 1 /\ p2 \in Nat \ {0} /\ p3 \in Nat \ {0} /\ p4 \in Nat \ {0}
  <2>1. Len(one) = 1 /\ Len(Ue(0)) \in Nat /\ Len(Ue(1)) \in Nat
    BY SmallUe, UeBit
  <2> QED BY <2>1
<1> DEFINE r0 == [at |-> 1, values |-> << >>]
           r1 == [at |-> p2, values |-> <<1>>]
           r2 == [at |-> p3, values |-> <<1, 0>>]
           r3 == [at |-> p4, values |-> <<1, 0, 1>>]
           r4 == [at |-> p4 + PocBits, values |-> <<1, 0, 1, poc>>]
<1>12. 0 \in Nat /\ 1 \in Nat /\ 1 \in Nat \ {0}
  OBVIOUS
<1>13. r1 = ReadField(bits, r0, 1)
  <2>1. r0.at = 1 /\ r0.values = << >>
    OBVIOUS
  <2>2. Append(<< >>, 1) = <<1>>
    BY <1>12, AppendLists
  <2>3. At(bits, r0.at, U(1, 1)) /\ Shift(1, 1) = 0
    BY <1>10, <2>1, Flags
  <2> HIDE DEF r0
  <2>4. ReadField(bits, r0, 1) = [at |-> r0.at + 1, values |-> Append(r0.values, 1)]
    <3> DEFINE bit == 1
    <3>1. r0.at \in Positive /\ bit \in Positive /\ bit \in Nat
      BY <2>1 DEF Positive
    <3>2. At(bits, r0.at, U(bit, bit)) /\ Shift(bit, bit) = 0
      BY <2>3
    <3> HIDE DEF bit
    <3>3. ReadField(bits, r0, bit) = [at |-> r0.at + bit, values |-> Append(r0.values, bit)]
      BY <3>1, <3>2, ReadU
    <3> QED BY <3>3 DEF bit
  <2> QED BY <1>11, <2>1, <2>2, <2>4
<1>14. r2 = ReadField(bits, r1, 0)
  <2>1. r1.at = p2 /\ r1.values = <<1>>
    OBVIOUS
  <2>2. Append(<<1>>, 0) = <<1, 0>>
    BY <1>12, AppendLists
  <2> HIDE DEF p2, r1
  <2>3. ReadField(bits, r1, 0) = [at |-> r1.at + Len(Ue(0)), values |-> Append(r1.values, 0)]
    BY <1>10, <1>11, <2>1, SmallUe, ReadUe
  <2> QED BY <2>1, <2>2, <2>3
<1>15. r3 = ReadField(bits, r2, 0)
  <2>1. r2.at = p3 /\ r2.values = <<1, 0>>
    OBVIOUS
  <2>2. Append(<<1, 0>>, 1) = <<1, 0, 1>>
    BY <1>12, AppendLists
  <2> HIDE DEF p3, r2
  <2>3. ReadField(bits, r2, 0) = [at |-> r2.at + Len(Ue(1)), values |-> Append(r2.values, 1)]
    BY <1>10, <1>11, <2>1, SmallUe, ReadUe
  <2> QED BY <2>1, <2>2, <2>3
<1> HIDE DEF p2, p3, p4
<1>16. r4 = ReadField(bits, r3, PocBits)
  <2>1. r3.at = p4 /\ r3.values = <<1, 0, 1>>
    OBVIOUS
  <2>2. Append(<<1, 0, 1>>, poc) = <<1, 0, 1, poc>>
    BY <1>12, AppendLists
  <2> HIDE DEF r3
  <2>3. At(bits, r3.at, U(poc, PocBits))
    BY <1>10, <2>1 DEF F
  <2>4. ReadField(bits, r3, PocBits) = [at |-> r3.at + PocBits, values |-> Append(r3.values, poc)]
    <3>1. r3.at \in Positive /\ PocBits \in Positive
      BY <1>1, <1>11, <2>1 DEF Positive
    <3> QED BY <2>3, <3>1, ReadU
  <2> QED BY <2>1, <2>2, <2>4
<1>17. ReadFields(bits, 1, <<1, 0, 0, PocBits>>) = r4
  <2> DEFINE fm == <<1, 0, 0, PocBits>>
  <2>1. Len(fm) = 4 /\ fm[1] = 1 /\ fm[2] = 0 /\ fm[3] = 0 /\ fm[4] = PocBits
    OBVIOUS
  <2>2. r0 = [at |-> 1, values |-> << >>]
    OBVIOUS
  <2> HIDE DEF fm, r0, r1, r2, r3, r4
  <2>3. ReadFields(bits, 1, fm) = r4
    BY <1>13, <1>14, <1>15, <1>16, <2>1, <2>2, ReadFour
  <2> QED BY <2>3 DEF fm
<1>18. r4.values[4] = poc
  OBVIOUS
<1> QED BY <1>17, <1>18 DEF PocInSlice, bits

-----------------------------------------------------------------------------
(* Pictures are shown in order.                                            *)

\* A frame VideoToolbox has taken.
PendingFrames == [session : Nat, number : Nat]

\* The kind of each variable the order depends on.
OutTyped ==
  /\ pending \in Seq(PendingFrames) /\ mainQueue \in Seq(Nat)
  /\ shown \in Nat /\ number \in Nat /\ session \in Nat

\* The number of the next frame VideoToolbox can be given.
Arriving == IF dpc = "idle" THEN number + 1 ELSE number

\* From the screen over the main queue and VideoToolbox to the frame under way
\* the numbers grow.
OrderInv ==
  /\ shown < Arriving
  /\ \A i \in DOMAIN mainQueue : shown < mainQueue[i] /\ mainQueue[i] < Arriving
  /\ \A i \in DOMAIN pending : shown < pending[i].number /\ pending[i].number < Arriving
  /\ \A i, j \in DOMAIN mainQueue : i < j => mainQueue[i] < mainQueue[j]
  /\ \A i, j \in DOMAIN pending : i < j => pending[i].number < pending[j].number
  /\ \A i \in DOMAIN mainQueue, j \in DOMAIN pending : mainQueue[i] < pending[j].number

\* Frames can still be given to the session there is, or to one made for them.
Live == dpc # "idle" \/ quit \in {"no", "stopped"}

\* VideoToolbox decodes for one session at a time.
SessionInv ==
  /\ \A i, j \in DOMAIN pending : pending[i].session = pending[j].session
  /\ Live => \A i \in DOMAIN pending : pending[i].session = session
  /\ Live /\ session = NoSession => pending = << >>
  /\ dpc # "idle" /\ quit \notin {"no", "stopped"} => pending = << >>

\* The invariant of the queues.
PictureInv == OutTyped /\ OrderInv /\ SessionInv

-----------------------------------------------------------------------------
(* Sequences, as far as the queues use them.                               *)

\* What Append does.
LEMMA Appended ==
  ASSUME NEW S, NEW s \in Seq(S), NEW e \in S
  PROVE  /\ Append(s, e) \in Seq(S)
         /\ DOMAIN s = 1 .. Len(s) /\ Len(s) \in Nat
         /\ DOMAIN Append(s, e) = 1 .. Len(s) + 1
         /\ \A i \in 1 .. Len(s) : Append(s, e)[i] = s[i]
         /\ Append(s, e)[Len(s) + 1] = e
  OBVIOUS

\* What Head and Tail take.
LEMMA Dropped ==
  ASSUME NEW S, NEW s \in Seq(S), s # << >>
  PROVE  /\ Tail(s) \in Seq(S)
         /\ DOMAIN s = 1 .. Len(s) /\ Len(s) \in Nat /\ 1 \in DOMAIN s
         /\ Head(s) = s[1] /\ s[1] \in S
         /\ DOMAIN Tail(s) = 1 .. Len(s) - 1
         /\ \A i \in 1 .. Len(s) - 1 : i + 1 \in DOMAIN s /\ Tail(s)[i] = s[i + 1]
  OBVIOUS

\* Taking out the first element leaves the tail.
LEMMA FirstRemoved ==
  ASSUME NEW S, NEW s \in Seq(S), s # << >>
  PROVE  RemoveAt(s, 1) = Tail(s)
<1>1. RemoveAt(s, 1) = SubSeq(s, 1, 0) \o SubSeq(s, 2, Len(s))
  BY DEF RemoveAt
<1>2. SubSeq(s, 1, 0) = << >>
  BY SubSeqEmpty
<1>3. SubSeq(s, 2, Len(s)) = Tail(s) /\ Tail(s) \in Seq(S)
  BY TailIsSubSeq, HeadTailProperties
<1> QED
  BY <1>1, <1>2, <1>3, ConcatEmptySeq

\* What concatenation puts where.
LEMMA Joined ==
  ASSUME NEW S, NEW s \in Seq(S), NEW t \in Seq(S)
  PROVE  /\ s \o t \in Seq(S)
         /\ DOMAIN s = 1 .. Len(s) /\ Len(s) \in Nat
         /\ DOMAIN t = 1 .. Len(t) /\ Len(t) \in Nat
         /\ DOMAIN (s \o t) = 1 .. Len(s) + Len(t)
         /\ \A i \in 1 .. Len(s) : (s \o t)[i] = s[i]
         /\ \A i \in 1 .. Len(s) + Len(t) : i > Len(s) => (s \o t)[i] = t[i - Len(s)]
<1>1. /\ s \o t \in Seq(S)
      /\ Len(s \o t) = Len(s) + Len(t)
      /\ \A i \in 1 .. Len(s) + Len(t) : (s \o t)[i] = IF i <= Len(s) THEN s[i] ELSE t[i - Len(s)]
  BY ConcatProperties
<1>2. /\ DOMAIN s = 1 .. Len(s) /\ Len(s) \in Nat
      /\ DOMAIN t = 1 .. Len(t) /\ Len(t) \in Nat
      /\ DOMAIN (s \o t) = 1 .. Len(s \o t)
  BY <1>1
<1> QED
  BY <1>1, <1>2

\* The numbers in the queues are numbers.
LEMMA Numbers ==
  ASSUME OutTyped
  PROVE  /\ \A i \in DOMAIN mainQueue : mainQueue[i] \in Nat
         /\ \A i \in DOMAIN pending : pending[i].number \in Nat
<1>1. \A i \in DOMAIN mainQueue : mainQueue[i] \in Nat
  BY DEF OutTyped
<1>2. \A i \in DOMAIN pending : pending[i] \in PendingFrames
  BY DEF OutTyped
<1> QED
  BY <1>1, <1>2 DEF PendingFrames

-----------------------------------------------------------------------------
(* What the steps do to the queues.                                        *)

\* Every picture under way is handed on at once.
DrainStep == Drain /\ UNCHANGED shown

\* The callback of the oldest frame.
FirstStep ==
  /\ pending # << >>
  /\ pending' = Tail(pending)
  /\ mainQueue' \in {mainQueue, Append(mainQueue, Head(pending).number)}
  /\ UNCHANGED shown

\* The sessions being the same, only the oldest frame calls back.
LEMMA OldestCallsBack ==
  ASSUME PictureInv, NEW i \in 1 .. MaxFrames, Callback(i) \/ CallbackFails(i)
  PROVE  FirstStep
<1>1. i \in DOMAIN pending /\ pending \in Seq(PendingFrames) /\ pending' = RemoveAt(pending, i)
  BY DEF PictureInv, OutTyped, Callback, CallbackFails
<1>2. pending # << >> /\ 1 \in DOMAIN pending /\ i \in Nat /\ i >= 1
  BY <1>1
<1>3. i = 1
  <2>1. \A j \in 1 .. i - 1 : pending[j].session # pending[i].session
    BY DEF Callback, CallbackFails
  <2>2. pending[1].session = pending[i].session
    BY <1>1, <1>2 DEF PictureInv, SessionInv
  <2> QED
    BY <1>2, <2>1, <2>2
<1>4. pending' = Tail(pending)
  BY <1>1, <1>2, <1>3, FirstRemoved
<1>5. Head(pending) = pending[1]
  BY <1>1, <1>2, Dropped
<1> QED
  BY <1>2, <1>3, <1>4, <1>5 DEF FirstStep, Callback, CallbackFails

\* Handing on everything keeps the types and the order.
LEMMA DrainKeeps ==
  ASSUME OutTyped, OrderInv, DrainStep, UNCHANGED Arriving
  PROVE  /\ pending' \in Seq(PendingFrames) /\ mainQueue' \in Seq(Nat)
         /\ OrderInv'
<1> DEFINE nums == [i \in DOMAIN pending |-> pending[i].number]
<1>1. nums \in Seq(Nat) /\ Len(nums) = Len(pending) /\ DOMAIN nums = 1 .. Len(nums)
      /\ DOMAIN pending = 1 .. Len(pending) /\ Len(pending) \in Nat
      /\ \A i \in 1 .. Len(nums) : nums[i] = pending[i].number /\ nums[i] \in Nat
  <2>1. /\ DOMAIN pending = 1 .. Len(pending) /\ Len(pending) \in Nat
        /\ \A i \in 1 .. Len(pending) : pending[i] \in PendingFrames
    BY DEF OutTyped
  <2>2. \A i \in 1 .. Len(pending) : pending[i].number \in Nat
    BY <2>1 DEF PendingFrames
  <2>3. /\ nums \in [1 .. Len(pending) -> Nat]
        /\ \A i \in 1 .. Len(pending) : nums[i] = pending[i].number
    BY <2>1, <2>2
  <2> HIDE DEF nums
  <2>4. nums \in Seq(Nat)
    BY <2>1, <2>3, SeqDef
  <2>5. Len(nums) = Len(pending)
    BY <2>1, <2>3, <2>4
  <2> QED
    BY <2>1, <2>2, <2>3, <2>4, <2>5
<1>2. /\ mainQueue' = mainQueue \o nums /\ pending' = << >> /\ shown' = shown
      /\ mainQueue \in Seq(Nat)
  BY DEF DrainStep, Drain, OutTyped
<1> HIDE DEF nums
<1>3. /\ mainQueue' \in Seq(Nat)
      /\ DOMAIN mainQueue = 1 .. Len(mainQueue) /\ Len(mainQueue) \in Nat
      /\ DOMAIN (mainQueue') = 1 .. Len(mainQueue) + Len(nums)
      /\ \A i \in 1 .. Len(mainQueue) : (mainQueue')[i] = mainQueue[i]
      /\ \A i \in 1 .. Len(mainQueue) + Len(nums) : 
            i > Len(mainQueue) => (mainQueue')[i] = nums[i - Len(mainQueue)]
  BY <1>1, <1>2, Joined
<1>4. pending' \in Seq(PendingFrames) /\ DOMAIN (pending') = {}
  BY <1>2
<1>5. ASSUME NEW i \in DOMAIN (mainQueue')
      PROVE  \/ i \in DOMAIN mainQueue /\ (mainQueue')[i] = mainQueue[i]
             \/ /\ i > Len(mainQueue) /\ i - Len(mainQueue) \in DOMAIN pending
                /\ (mainQueue')[i] = pending[i - Len(mainQueue)].number
  <2>1. i \in Nat /\ 1 <= i /\ i <= Len(mainQueue) + Len(nums)
    BY <1>1, <1>3
  <2>2. CASE i <= Len(mainQueue)
    BY <1>3, <2>1, <2>2
  <2>3. CASE i > Len(mainQueue)
    <3>1. i - Len(mainQueue) \in 1 .. Len(nums)
      BY <1>1, <1>3, <2>1, <2>3
    <3>2. (mainQueue')[i] = nums[i - Len(mainQueue)]
      BY <1>3, <2>3
    <3> QED
      BY <1>1, <2>3, <3>1, <3>2
  <2> QED
    BY <1>3, <2>1, <2>2, <2>3
<1>6. /\ shown \in Nat /\ shown < Arriving
      /\ \A i \in DOMAIN mainQueue : mainQueue[i] \in Nat
      /\ \A i \in DOMAIN pending : pending[i].number \in Nat
  BY Numbers DEF OutTyped, OrderInv
<1>7. \A i \in DOMAIN (mainQueue') : shown' < (mainQueue')[i] /\ (mainQueue')[i] < Arriving'
  BY <1>2, <1>5 DEF OrderInv
<1>8. ASSUME NEW i \in DOMAIN (mainQueue'), NEW j \in DOMAIN (mainQueue'), i < j
      PROVE  (mainQueue')[i] < (mainQueue')[j]
  <2> i \in Nat /\ j \in Nat
    BY <1>3
  <2>1. CASE j \in DOMAIN mainQueue /\ (mainQueue')[j] = mainQueue[j]
    <3>1. i \in DOMAIN mainQueue /\ (mainQueue')[i] = mainQueue[i]
      BY <1>3, <1>8, <2>1
    <3> QED
      BY <1>8, <2>1, <3>1 DEF OrderInv
  <2>2. CASE /\ j > Len(mainQueue) /\ j - Len(mainQueue) \in DOMAIN pending
             /\ (mainQueue')[j] = pending[j - Len(mainQueue)].number
    <3>1. CASE i \in DOMAIN mainQueue /\ (mainQueue')[i] = mainQueue[i]
      BY <2>2, <3>1 DEF OrderInv
    <3>2. CASE /\ i > Len(mainQueue) /\ i - Len(mainQueue) \in DOMAIN pending
               /\ (mainQueue')[i] = pending[i - Len(mainQueue)].number
      <4>1. i - Len(mainQueue) < j - Len(mainQueue)
        BY <1>3, <1>8
      <4> QED
        BY <2>2, <3>2, <4>1 DEF OrderInv
    <3> QED
      BY <1>5, <3>1, <3>2
  <2> QED
    BY <1>5, <2>1, <2>2
<1>9. /\ \A i \in DOMAIN (pending') : shown' < (pending')[i].number /\ (pending')[i].number < Arriving'
      /\ \A i, j \in DOMAIN (pending') : i < j => (pending')[i].number < (pending')[j].number
      /\ \A i \in DOMAIN (mainQueue'), j \in DOMAIN (pending') : (mainQueue')[i] < (pending')[j].number
  BY <1>4
<1>10. shown' < Arriving'
  BY <1>2, <1>6
<1> QED
  BY <1>3, <1>4, <1>7, <1>8, <1>9, <1>10 DEF OrderInv

\* The oldest frame's picture may join the queue.
LEMMA FirstKeeps ==
  ASSUME OutTyped, OrderInv, FirstStep, UNCHANGED Arriving
  PROVE  /\ pending' \in Seq(PendingFrames) /\ mainQueue' \in Seq(Nat)
         /\ OrderInv'
<1>1. /\ pending' = Tail(pending) /\ pending' \in Seq(PendingFrames)
      /\ DOMAIN pending = 1 .. Len(pending) /\ Len(pending) \in Nat /\ 1 \in DOMAIN pending
      /\ Head(pending) = pending[1] /\ pending[1] \in PendingFrames
      /\ DOMAIN (pending') = 1 .. Len(pending) - 1
      /\ \A i \in 1 .. Len(pending) - 1 : i + 1 \in DOMAIN pending /\ (pending')[i] = pending[i + 1]
  BY Dropped DEF FirstStep, OutTyped
<1> DEFINE n == pending[1].number
<1>2. /\ n \in Nat /\ shown \in Nat /\ shown' = shown /\ shown < Arriving /\ Arriving' = Arriving
      /\ \A i \in DOMAIN mainQueue : mainQueue[i] \in Nat
      /\ mainQueue \in Seq(Nat)
  BY <1>1 DEF OutTyped, OrderInv, PendingFrames, FirstStep
<1>3. /\ shown < n /\ n < Arriving
      /\ \A i \in DOMAIN mainQueue : mainQueue[i] < n
  BY <1>1 DEF OrderInv
<1>4. ASSUME NEW i \in DOMAIN (pending')
      PROVE  /\ i + 1 \in DOMAIN pending /\ (pending')[i] = pending[i + 1] /\ 1 < i + 1
             /\ n < (pending')[i].number
             /\ shown < (pending')[i].number /\ (pending')[i].number < Arriving
  BY <1>1 DEF OrderInv
<1>5. \A i, j \in DOMAIN (pending') : i < j => (pending')[i].number < (pending')[j].number
  BY <1>1, <1>4 DEF OrderInv
<1> HIDE DEF n
<1>6. CASE mainQueue' = mainQueue
  <2>1. \A i \in DOMAIN mainQueue, j \in DOMAIN (pending') : mainQueue[i] < (pending')[j].number
    BY <1>1, <1>4 DEF OrderInv
  <2>2. /\ \A i \in DOMAIN mainQueue : shown < mainQueue[i] /\ mainQueue[i] < Arriving
        /\ \A i, j \in DOMAIN mainQueue : i < j => mainQueue[i] < mainQueue[j]
    BY DEF OrderInv
  <2> QED
    BY <1>1, <1>2, <1>4, <1>5, <1>6, <2>1, <2>2 DEF OrderInv
<1>7. CASE mainQueue' = Append(mainQueue, n)
  <2>1. /\ mainQueue' \in Seq(Nat)
        /\ DOMAIN mainQueue = 1 .. Len(mainQueue) /\ Len(mainQueue) \in Nat
        /\ DOMAIN (mainQueue') = 1 .. Len(mainQueue) + 1
        /\ \A i \in 1 .. Len(mainQueue) : (mainQueue')[i] = mainQueue[i]
        /\ (mainQueue')[Len(mainQueue) + 1] = n
    BY <1>2, <1>7, Appended
  <2>2. ASSUME NEW i \in DOMAIN (mainQueue')
        PROVE  \/ i \in DOMAIN mainQueue /\ (mainQueue')[i] = mainQueue[i]
               \/ i = Len(mainQueue) + 1 /\ (mainQueue')[i] = n
    BY <2>1
  <2>3. \A i \in DOMAIN (mainQueue') : shown < (mainQueue')[i] /\ (mainQueue')[i] < Arriving
    BY <1>3, <2>2 DEF OrderInv
  <2>4. ASSUME NEW i \in DOMAIN (mainQueue'), NEW j \in DOMAIN (mainQueue'), i < j
        PROVE  (mainQueue')[i] < (mainQueue')[j]
    <3>1. i \in DOMAIN mainQueue /\ (mainQueue')[i] = mainQueue[i]
      BY <2>1, <2>4
    <3>2. CASE j \in DOMAIN mainQueue /\ (mainQueue')[j] = mainQueue[j]
      BY <2>4, <3>1, <3>2 DEF OrderInv
    <3>3. CASE (mainQueue')[j] = n
      BY <1>3, <3>1, <3>3
    <3> QED
      BY <2>2, <3>2, <3>3
  <2>5. ASSUME NEW i \in DOMAIN (mainQueue'), NEW j \in DOMAIN (pending')
        PROVE  (mainQueue')[i] < (pending')[j].number
    <3>1. CASE i \in DOMAIN mainQueue /\ (mainQueue')[i] = mainQueue[i]
      BY <1>4, <3>1 DEF OrderInv
    <3>2. CASE (mainQueue')[i] = n
      BY <1>4, <3>2
    <3> QED
      BY <2>2, <3>1, <3>2
  <2> QED
    BY <1>1, <1>2, <1>4, <1>5, <2>1, <2>3, <2>4, <2>5 DEF OrderInv
<1> QED
  BY <1>1, <1>6, <1>7 DEF FirstStep, n

-----------------------------------------------------------------------------
(* Every step keeps the invariant.                                         *)

\* At the start the queues are empty.
LEMMA PictureInit == Init => PictureInv
<1> SUFFICES ASSUME Init PROVE PictureInv
  OBVIOUS
<1>1. /\ pending = << >> /\ mainQueue = << >> /\ shown = 0 /\ number = 0 /\ session = 0
      /\ Arriving = 1 /\ dpc = "idle" /\ quit = "no"
  BY DEF Init, NoSession, Arriving
<1>2. OutTyped
  BY <1>1 DEF OutTyped, PendingFrames
<1>3. OrderInv
  BY <1>1 DEF OrderInv
<1>4. SessionInv
  BY <1>1 DEF SessionInv
<1> QED
  BY <1>2, <1>3, <1>4 DEF PictureInv

\* A step that leaves the queues alone and does not give a number away.
LEMMA QuietKeeps ==
  ASSUME PictureInv, UNCHANGED <<pending, mainQueue, shown>>,
         number' \in Nat, session' \in Nat, Arriving' \in Int, Arriving <= Arriving',
         SessionInv'
  PROVE  PictureInv'
<1>1. /\ OutTyped' /\ shown \in Nat
      /\ \A i \in DOMAIN mainQueue : mainQueue[i] \in Nat
      /\ \A i \in DOMAIN pending : pending[i].number \in Nat
  BY Numbers DEF PictureInv, OutTyped
<1>2. Arriving \in Int
  BY DEF PictureInv, OutTyped, Arriving
<1>3. /\ shown' < Arriving'
      /\ \A i \in DOMAIN (mainQueue') : shown' < (mainQueue')[i] /\ (mainQueue')[i] < Arriving'
      /\ \A i \in DOMAIN (pending') : shown' < (pending')[i].number /\ (pending')[i].number < Arriving'
  BY <1>1, <1>2 DEF PictureInv, OrderInv
<1>4. /\ \A i, j \in DOMAIN (mainQueue') : i < j => (mainQueue')[i] < (mainQueue')[j]
      /\ \A i, j \in DOMAIN (pending') : i < j => (pending')[i].number < (pending')[j].number
      /\ \A i \in DOMAIN (mainQueue'), j \in DOMAIN (pending') : (mainQueue')[i] < (pending')[j].number
  BY DEF PictureInv, OrderInv
<1> QED
  BY <1>1, <1>3, <1>4 DEF PictureInv, OrderInv

\* TearDown gives everything there is to the main queue.
LEMMA TearDownDrains ==
  ASSUME PictureInv, Live, TearDown, UNCHANGED shown
  PROVE  pending' = << >> /\ (DrainStep \/ UNCHANGED <<pending, mainQueue, shown>>)
<1>1. CASE session = NoSession
  <2>1. pending = << >>
    BY <1>1 DEF PictureInv, SessionInv
  <2> QED
    BY <1>1, <2>1 DEF TearDown
<1>2. CASE session # NoSession
  BY <1>2 DEF TearDown, Drain, DrainStep
<1> QED
  BY <1>1, <1>2

\* Submit gives VideoToolbox the frame with the highest number.
LEMMA SubmitKeeps ==
  ASSUME PictureInv, Submit
  PROVE  PictureInv'
<1> DEFINE e == [session |-> session, number |-> number]
<1>1. /\ dpc = "submit" /\ dpc' = "idle" /\ session # NoSession
      /\ pending' = Append(pending, e)
      /\ UNCHANGED <<mainQueue, shown, number, session, quit>>
  BY DEF Submit, Ready, decVars, quitVars
<1>2. /\ pending \in Seq(PendingFrames) /\ mainQueue \in Seq(Nat)
      /\ shown \in Nat /\ number \in Nat /\ session \in Nat
      /\ e \in PendingFrames /\ e.number = number /\ e.session = session
  BY DEF PictureInv, OutTyped, PendingFrames
<1>3. Arriving = number /\ Arriving' = number + 1
  BY <1>1 DEF Arriving
<1> HIDE DEF e
<1>4. /\ pending' \in Seq(PendingFrames)
      /\ DOMAIN pending = 1 .. Len(pending) /\ Len(pending) \in Nat
      /\ DOMAIN (pending') = 1 .. Len(pending) + 1
      /\ \A i \in 1 .. Len(pending) : (pending')[i] = pending[i]
      /\ (pending')[Len(pending) + 1] = e
  BY <1>1, <1>2, Appended
<1>5. ASSUME NEW i \in DOMAIN (pending')
      PROVE  \/ i \in DOMAIN pending /\ (pending')[i] = pending[i]
             \/ i = Len(pending) + 1 /\ (pending')[i] = e
  BY <1>4
<1>6. /\ \A i \in DOMAIN mainQueue : mainQueue[i] \in Nat
      /\ \A i \in DOMAIN pending : pending[i].number \in Nat
      /\ shown < number
      /\ \A i \in DOMAIN mainQueue : shown < mainQueue[i] /\ mainQueue[i] < number
      /\ \A i \in DOMAIN pending : shown < pending[i].number /\ pending[i].number < number
  BY <1>2, <1>3, Numbers DEF PictureInv, OrderInv
<1>7. OutTyped'
  BY <1>1, <1>2, <1>4 DEF OutTyped
<1>8. OrderInv'
  <2>1. \A i \in DOMAIN (pending') : shown < (pending')[i].number /\ (pending')[i].number < number + 1
    BY <1>2, <1>5, <1>6
  <2>2. ASSUME NEW i \in DOMAIN (pending'), NEW j \in DOMAIN (pending'), i < j
        PROVE  (pending')[i].number < (pending')[j].number
    <3>1. i \in DOMAIN pending /\ (pending')[i] = pending[i]
      BY <1>4, <2>2
    <3>2. CASE j \in DOMAIN pending /\ (pending')[j] = pending[j]
      BY <2>2, <3>1, <3>2 DEF PictureInv, OrderInv
    <3>3. CASE (pending')[j] = e
      BY <1>2, <1>6, <3>1, <3>3
    <3> QED
      BY <1>5, <3>2, <3>3
  <2>3. ASSUME NEW i \in DOMAIN mainQueue, NEW j \in DOMAIN (pending')
        PROVE  mainQueue[i] < (pending')[j].number
    <3>1. CASE j \in DOMAIN pending /\ (pending')[j] = pending[j]
      BY <3>1 DEF PictureInv, OrderInv
    <3>2. CASE (pending')[j] = e
      BY <1>2, <1>6, <3>2
    <3> QED
      BY <1>5, <3>1, <3>2
  <2>4. /\ shown < number + 1
        /\ \A i \in DOMAIN mainQueue : shown < mainQueue[i] /\ mainQueue[i] < number + 1
    BY <1>2, <1>6
  <2>5. \A i, j \in DOMAIN mainQueue : i < j => mainQueue[i] < mainQueue[j]
    BY DEF PictureInv, OrderInv
  <2> QED
    BY <1>1, <1>3, <2>1, <2>2, <2>3, <2>4, <2>5 DEF OrderInv
<1>9. SessionInv'
  <2>1. \A i \in DOMAIN (pending') : (pending')[i].session = session
    <3>1. \A i \in DOMAIN pending : pending[i].session = session
      BY <1>1 DEF PictureInv, SessionInv, Live
    <3> QED
      BY <1>2, <1>5, <3>1
  <2> QED
    BY <1>1, <2>1 DEF SessionInv, Live
<1> QED
  BY <1>7, <1>8, <1>9 DEF PictureInv

\* A callback, of a picture or of an error.
LEMMA CallbackKeeps ==
  ASSUME PictureInv, NEW k \in 1 .. MaxFrames, Callback(k) \/ CallbackFails(k)
  PROVE  PictureInv'
<1>1. FirstStep
  BY OldestCallsBack
<1>2. UNCHANGED <<dpc, number, session, quit>> /\ UNCHANGED Arriving
  BY DEF Callback, CallbackFails, decVars, quitVars, Arriving
<1>3. pending' \in Seq(PendingFrames) /\ mainQueue' \in Seq(Nat) /\ OrderInv'
  BY <1>1, <1>2, FirstKeeps DEF PictureInv
<1>4. OutTyped'
  BY <1>1, <1>2, <1>3 DEF PictureInv, OutTyped, FirstStep
<1>5. /\ pending \in Seq(PendingFrames) /\ pending # << >> /\ pending' = Tail(pending)
  BY <1>1 DEF FirstStep, PictureInv, OutTyped
<1>6. ASSUME NEW i \in DOMAIN (pending')
      PROVE  i + 1 \in DOMAIN pending /\ (pending')[i] = pending[i + 1]
  BY <1>5, Dropped
<1>7. SessionInv'
  <2>1. \A i, j \in DOMAIN (pending') : (pending')[i].session = (pending')[j].session
    BY <1>6 DEF PictureInv, SessionInv
  <2>2. Live => session # NoSession /\ \A i \in DOMAIN (pending') : (pending')[i].session = session
    BY <1>5, <1>6 DEF PictureInv, SessionInv
  <2>3. ~(dpc # "idle" /\ quit \notin {"no", "stopped"})
    BY <1>5 DEF PictureInv, SessionInv
  <2> QED
    BY <1>2, <2>1, <2>2, <2>3 DEF SessionInv, Live
<1> QED
  BY <1>3, <1>4, <1>7 DEF PictureInv

\* The main queue shows its first picture.
LEMMA ShowKeeps ==
  ASSUME PictureInv, DidOutput
  PROVE  PictureInv' /\ shown' > shown
<1>1. /\ mainQueue \in Seq(Nat) /\ mainQueue # << >>
      /\ shown' = Head(mainQueue) /\ mainQueue' = Tail(mainQueue)
      /\ UNCHANGED <<dpc, number, session, pending, quit>>
  BY DEF PictureInv, OutTyped, DidOutput, decVars, quitVars
<1>2. /\ mainQueue' \in Seq(Nat)
      /\ DOMAIN mainQueue = 1 .. Len(mainQueue) /\ Len(mainQueue) \in Nat /\ 1 \in DOMAIN mainQueue
      /\ shown' = mainQueue[1] /\ mainQueue[1] \in Nat
      /\ DOMAIN (mainQueue') = 1 .. Len(mainQueue) - 1
      /\ \A i \in 1 .. Len(mainQueue) - 1 :
           i + 1 \in DOMAIN mainQueue /\ (mainQueue')[i] = mainQueue[i + 1]
  BY <1>1, Dropped
<1>3. UNCHANGED Arriving
  BY <1>1 DEF Arriving
<1>4. OutTyped'
  BY <1>1, <1>2 DEF PictureInv, OutTyped
<1>5. shown' > shown /\ shown' < Arriving
  BY <1>2 DEF PictureInv, OrderInv, OutTyped
<1>6. ASSUME NEW i \in DOMAIN (mainQueue')
      PROVE  /\ i + 1 \in DOMAIN mainQueue /\ (mainQueue')[i] = mainQueue[i + 1]
             /\ shown' < (mainQueue')[i] /\ (mainQueue')[i] < Arriving
  <2>1. i \in 1 .. Len(mainQueue) - 1 /\ 1 < i + 1
    BY <1>2
  <2>2. i + 1 \in DOMAIN mainQueue /\ (mainQueue')[i] = mainQueue[i + 1]
    BY <1>2, <2>1
  <2> QED
    BY <1>2, <2>1, <2>2 DEF PictureInv, OrderInv
<1>7. \A i, j \in DOMAIN (mainQueue') : i < j => (mainQueue')[i] < (mainQueue')[j]
  BY <1>2, <1>6 DEF PictureInv, OrderInv
<1>8. /\ \A i \in DOMAIN pending : shown' < pending[i].number /\ pending[i].number < Arriving
      /\ \A i, j \in DOMAIN pending : i < j => pending[i].number < pending[j].number
      /\ \A i \in DOMAIN (mainQueue'), j \in DOMAIN pending : (mainQueue')[i] < pending[j].number
  BY <1>2, <1>6 DEF PictureInv, OrderInv
<1>9. OrderInv'
  BY <1>1, <1>3, <1>5, <1>6, <1>7, <1>8 DEF OrderInv
<1>10. SessionInv'
  BY <1>1 DEF PictureInv, SessionInv, Live
<1> QED
  BY <1>4, <1>5, <1>9, <1>10 DEF PictureInv

\* Every step keeps the order, and shows younger pictures only.
LEMMA PictureStep == PictureInv /\ [Next]_vars => PictureInv' /\ (shown' # shown => shown' > shown)
<1> SUFFICES ASSUME PictureInv, [Next]_vars
             PROVE  PictureInv' /\ (shown' # shown => shown' > shown)
  OBVIOUS
<1> DEFINE Goal == PictureInv' /\ (shown' # shown => shown' > shown)
<1> SUFFICES Goal
  OBVIOUS
<1>1. /\ number \in Nat /\ session \in Nat /\ Arriving \in Int
  BY DEF PictureInv, OutTyped, Arriving
<1>2. ASSUME NEW f \in Frames, Receive(f) PROVE Goal
  <2>1. /\ UNCHANGED <<pending, mainQueue, shown, session, quit>>
        /\ dpc = "idle" /\ dpc' = "parse" /\ quit = "no" /\ number' = number + 1
    BY <1>2 DEF Receive, decVars, outVars, quitVars
  <2>2. Arriving' = Arriving
    BY <2>1 DEF Arriving
  <2>3. SessionInv'
    BY <2>1 DEF PictureInv, SessionInv, Live
  <2> QED
    BY <1>1, <2>1, <2>2, <2>3, QuietKeeps
<1>3. ASSUME NEW f \in Frames, Lose(f) PROVE Goal
  <2>1. UNCHANGED <<pending, mainQueue, shown, session, quit, dpc, number>>
    BY <1>3 DEF Lose, decVars, outVars, quitVars
  <2>2. SessionInv' /\ Arriving' = Arriving
    BY <2>1 DEF PictureInv, SessionInv, Live, Arriving
  <2> QED
    BY <1>1, <2>1, <2>2, QuietKeeps
<1>4. ASSUME Parse \/ SubmitFails PROVE Goal
  <2>1. /\ UNCHANGED <<pending, mainQueue, shown, session, quit, number>>
        /\ dpc # "idle"
    BY <1>4 DEF Parse, KeyIncomplete, KeyKnown, KeyNew, Delta, SubmitFails, decVars, outVars, quitVars
  <2>2. SessionInv'
    BY <2>1 DEF PictureInv, SessionInv, Live
  <2>3. Arriving' \in Int /\ Arriving <= Arriving'
    BY <1>1, <2>1 DEF Arriving
  <2> QED
    BY <1>1, <2>1, <2>2, <2>3, QuietKeeps
<1>5. ASSUME Create PROVE Goal
  <2>1. /\ dpc = "create" /\ dpc' = "submit" /\ TearDown
        /\ UNCHANGED <<shown, number, quit>> /\ session' \in {number, NoSession}
    BY <1>5 DEF Create, quitVars
  <2>2. pending' = << >> /\ (DrainStep \/ UNCHANGED <<pending, mainQueue, shown>>)
    BY <2>1, TearDownDrains DEF Live
  <2>3. Arriving' = Arriving /\ session' \in Nat
    BY <1>1, <2>1 DEF Arriving, NoSession
  <2>4. SessionInv'
    BY <2>2 DEF SessionInv
  <2>5. CASE DrainStep
    <3>1. pending' \in Seq(PendingFrames) /\ mainQueue' \in Seq(Nat) /\ OrderInv'
      BY <2>3, <2>5, DrainKeeps DEF PictureInv
    <3>2. OutTyped'
      BY <2>1, <2>3, <3>1 DEF PictureInv, OutTyped
    <3> QED
      BY <2>1, <2>4, <3>1, <3>2 DEF PictureInv
  <2>6. CASE UNCHANGED <<pending, mainQueue, shown>>
    BY <1>1, <2>1, <2>3, <2>4, <2>6, QuietKeeps
  <2> QED
    BY <2>2, <2>5, <2>6
<1>6. ASSUME Submit PROVE Goal
  BY <1>6, SubmitKeeps DEF Submit
<1>7. ASSUME NEW i \in 1 .. MaxFrames, Callback(i) \/ CallbackFails(i) PROVE Goal
  BY <1>7, CallbackKeeps DEF Callback, CallbackFails
<1>8. ASSUME DidOutput PROVE Goal
  BY <1>8, ShowKeeps
<1>9. ASSUME StopReceiver PROVE Goal
  <2>1. /\ UNCHANGED <<pending, mainQueue, shown, session, dpc, number>>
        /\ quit = "no" /\ quit' = "stopped"
    BY <1>9 DEF StopReceiver, decVars, outVars
  <2>2. SessionInv' /\ Arriving' = Arriving
    BY <2>1 DEF PictureInv, SessionInv, Live, Arriving
  <2> QED
    BY <1>1, <2>1, <2>2, QuietKeeps
<1>10. ASSUME InvalidateSession PROVE Goal
  <2>1. /\ UNCHANGED <<shown, session, dpc, number>>
        /\ quit = "stopped" /\ quit' = "invalid" /\ TearDown
    BY <1>10 DEF InvalidateSession, decVars
  <2>2. pending' = << >> /\ (DrainStep \/ UNCHANGED <<pending, mainQueue, shown>>)
    BY <2>1, TearDownDrains DEF Live
  <2>3. Arriving' = Arriving
    BY <2>1 DEF Arriving
  <2>4. SessionInv'
    BY <2>2 DEF SessionInv
  <2>5. CASE DrainStep
    <3>1. pending' \in Seq(PendingFrames) /\ mainQueue' \in Seq(Nat) /\ OrderInv'
      BY <2>3, <2>5, DrainKeeps DEF PictureInv
    <3>2. OutTyped'
      BY <2>1, <3>1 DEF PictureInv, OutTyped
    <3> QED
      BY <2>1, <2>4, <3>1, <3>2 DEF PictureInv
  <2>6. CASE UNCHANGED <<pending, mainQueue, shown>>
    BY <1>1, <2>1, <2>3, <2>4, <2>6, QuietKeeps
  <2> QED
    BY <2>2, <2>5, <2>6
<1>11. ASSUME InvalidateFields PROVE Goal
  <2>1. /\ UNCHANGED <<pending, mainQueue, shown, dpc, number>>
        /\ quit = "invalid" /\ quit' = "done" /\ session' = NoSession
    BY <1>11 DEF InvalidateFields, outVars
  <2>2. SessionInv' /\ Arriving' = Arriving
    BY <2>1 DEF PictureInv, SessionInv, Live, Arriving
  <2> QED
    BY <1>1, <2>1, <2>2, QuietKeeps DEF NoSession
<1>12. CASE UNCHANGED vars
  <2>1. UNCHANGED <<pending, mainQueue, shown, session, quit, dpc, number>>
    BY <1>12 DEF vars, decVars, outVars, quitVars
  <2>2. SessionInv' /\ Arriving' = Arriving
    BY <2>1 DEF PictureInv, SessionInv, Live, Arriving
  <2> QED
    BY <1>1, <2>1, <2>2, QuietKeeps
<1> HIDE DEF Goal
<1>13. CASE \E f \in Frames : Receive(f) \/ Lose(f)
  BY <1>2, <1>3, <1>13
<1>14. CASE Output
  BY <1>7, <1>8, <1>14 DEF Output
<1>15. CASE Decode \/ ShutDown
  BY <1>4, <1>5, <1>6, <1>9, <1>10, <1>11, <1>15 DEF Decode, ShutDown
<1> QED
  BY <1>12, <1>13, <1>14, <1>15 DEF Next

\* HEVCDecoder's pictures reach the screen in the order their frames came.
THEOREM ShownInOrder == Spec => PicturesInOrder
<1>1. Init => PictureInv
  BY PictureInit
<1>2. PictureInv /\ [Next]_vars => PictureInv'
  BY PictureStep
<1>3. PictureInv /\ [Next]_vars => [shown' # shown => shown' > shown]_vars
  BY PictureStep
<1> QED
  BY <1>1, <1>2, <1>3, PTL DEF Spec, PicturesInOrder

-----------------------------------------------------------------------------
(* The frames of the sender and what the receiver reads in them.           *)

\* The table of a function is the function.
LEMMA TableIs ==
  ASSUME NEW f
  PROVE Table(f) = f
<1>1. \E g \in {f} : g = f
  OBVIOUS
<1>2. \A g \in {f} : g = f
  OBVIOUS
<1> QED BY <1>1, <1>2 DEF Table

\* A number that fits the field is one more than a number that does.
LEMMA OneFits ==
  ASSUME NEW n \in Nat
  PROVE Shift(1, n + 1) = 0
<1> DEFINE T == {k \in Nat : Shift(1, k + 1) = 0}
<1>1. 0 \in T
  <2>1. 0 + 1 = 1 /\ Shift(1, 1) = 0
    BY Flags
  <2> QED BY <2>1
<1>2. ASSUME NEW k \in T PROVE k + 1 \in T
  <2> DEFINE m == k + 1
  <2>1. m \in Nat /\ Shift(1, m) = 0 /\ 1 \in Nat
    OBVIOUS
  <2> HIDE DEF m
  <2>2. Shift(1, m + 1) = Shift(1, m) \div 2
    BY <2>1, ShiftSteps
  <2>3. Shift(1, m + 1) = 0
    BY <2>1, <2>2
  <2> QED BY <2>1, <2>3 DEF m
<1>3. T \in SUBSET Nat
  OBVIOUS
<1> HIDE DEF T
<1>4. T = Nat
  BY <1>1, <1>2, <1>3, SetInduction
<1> QED BY <1>4 DEF T

\* What a frame is.
LEMMA FramesAre ==
  ASSUME NEW f \in Frames
  PROVE /\ f.key \in BOOLEAN /\ f.sets \in BOOLEAN /\ f.size \in Sizes
        /\ f.size[1] \in Sides /\ f.size[2] \in Sides /\ f.size = <<f.size[1], f.size[2]>>
        /\ f.poc \in Nat /\ Shift(f.poc, PocBits) = 0
        /\ f.sets => f.key
        /\ f \in DeltaFrames <=> ~f.key
<1>1. f \in KeyFrames \/ f \in DeltaFrames
  BY DEF Frames
<1>2. /\ f.key \in BOOLEAN /\ f.sets \in BOOLEAN /\ f.size \in Sizes /\ f.poc \in {0, 1, MaxPoc}
      /\ f.sets => f.key
      /\ f \in DeltaFrames <=> ~f.key
  BY <1>1, Zenon DEF KeyFrames, DeltaFrames
<1>3. f.size \in Sides \X Sides
  BY <1>2, DecoderAssumption
<1>4. f.size[1] \in Sides /\ f.size[2] \in Sides /\ f.size = <<f.size[1], f.size[2]>>
  BY <1>3
<1>5. MaxPoc \in Nat /\ Shift(MaxPoc, PocBits) = 0
  BY DecoderAssumption
<1>6. Shift(0, PocBits) = 0 /\ Shift(1, PocBits) = 0
  <2>1. 11 + 1 = PocBits /\ 11 \in Nat /\ PocBits \in Nat
    BY DEF PocBits
  <2>2. Shift(1, 11 + 1) = 0
    BY <2>1, OneFits
  <2> QED BY <2>1, <2>2, ShiftZero
<1> QED BY <1>2, <1>4, <1>5, <1>6

\* The sequence parameter set is a bit string.
LEMMA SpsBits ==
  ASSUME NEW w \in Sides, NEW h \in Sides
  PROVE Sps(w, h) \in Bits
<1> DEFINE aw == Align(w, CtuSize)  ah == Align(h, CtuSize)
           cw == (aw - w) \div 2    ch == (ah - h) \div 2
<1>1. aw \in Codable /\ ah \in Codable /\ cw \in Codable /\ ch \in Codable
  BY SizesFit
<1>2. Ue(aw) \in Bits /\ Ue(ah) \in Bits /\ Ue(cw) \in Bits /\ Ue(ch) \in Bits
  BY <1>1, UeBit
<1>3. \A x, y \in Bits : x \o y \in Bits
  BY JoinBits
<1>4. ConformanceWindow(aw, ah, w, h) \in Bits
  <2>1. ConformanceWindow(aw, ah, w, h) =
          IF aw = w /\ ah = h THEN <<0>> ELSE <<1>> \o Ue(0) \o Ue(cw) \o Ue(0) \o Ue(ch)
    BY DEF ConformanceWindow
  <2> HIDE DEF aw, ah, cw, ch
  <2> QED BY <1>2, <1>3, <2>1, Flags, SmallUe
<1>5. SpsPicture(w, h) \in Bits
  <2>1. SpsPicture(w, h) = Ue(0) \o Ue(1) \o Ue(aw) \o Ue(ah) \o ConformanceWindow(aw, ah, w, h)
    BY DEF SpsPicture
  <2> HIDE DEF aw, ah
  <2> QED BY <1>2, <1>3, <1>4, <2>1, SmallUe
<1> QED BY <1>3, <1>5, HeadBits, CodingBits DEF Sps

\* The three parameter sets of a size, each a unit the parser can find.
LEMMA SetsAre ==
  ASSUME NEW w \in Sides, NEW h \in Sides
  PROVE /\ ParameterSets(w, h, Fps) \in Seq(Seq(Nat)) /\ Len(ParameterSets(w, h, Fps)) = 3
        /\ \A i \in 1 .. 3 : /\ Len(ParameterSets(w, h, Fps)[i]) >= 1
                             /\ Clean(ParameterSets(w, h, Fps)[i])
                             /\ NaluType(ParameterSets(w, h, Fps)[i]) = 31 + i
        /\ ParameterSets(w, h, Fps)[2] = Nalu(SpsType, Sps(w, h))
<1> DEFINE v == Nalu(VpsType, Vps(Fps))  s == Nalu(SpsType, Sps(w, h))  p == Nalu(PpsType, Pps)
<1>1. Fps \in Nat
  BY DecoderAssumption
<1>2. VpsType \in 0 .. 63 /\ SpsType \in 0 .. 63 /\ PpsType \in 0 .. 63
  BY DEF VpsType, SpsType, PpsType
<1>3. Vps(Fps) \in Bits /\ Sps(w, h) \in Bits /\ Pps \in Bits
  BY <1>1, VpsBits, SpsBits, PpsBits
<1>4. v \in Seq(Nat) /\ Len(v) >= 3 /\ Clean(v) /\ NaluType(v) = VpsType
  BY <1>2, <1>3, NaluIs
<1>5. s \in Seq(Nat) /\ Len(s) >= 3 /\ Clean(s) /\ NaluType(s) = SpsType
  BY <1>2, <1>3, NaluIs
<1>6. p \in Seq(Nat) /\ Len(p) >= 3 /\ Clean(p) /\ NaluType(p) = PpsType
  BY <1>2, <1>3, NaluIs
<1>7. ParameterSets(w, h, Fps) = <<v, s, p>>
  BY DEF ParameterSets
<1>8. SpsType = 33 /\ VpsType = 32 /\ PpsType = 34
  BY DEF VpsType, SpsType, PpsType
<1> HIDE DEF v, s, p
<1> DEFINE t == <<v, s, p>>
<1>9. t \in Seq(Seq(Nat)) /\ Len(t) = 3 /\ t[1] = v /\ t[2] = s /\ t[3] = p
  BY <1>4, <1>5, <1>6
<1> HIDE DEF t
<1>10. \A i \in 1 .. 3 : Len(t[i]) >= 1 /\ Clean(t[i]) /\ NaluType(t[i]) = 31 + i
  <2>1. Len(v) >= 1 /\ Len(s) >= 1 /\ Len(p) >= 1
    BY <1>4, <1>5, <1>6
  <2>2. 1 .. 3 = {1, 2, 3} /\ 31 + 1 = 32 /\ 31 + 2 = 33 /\ 31 + 3 = 34
    OBVIOUS
  <2> QED BY <1>4, <1>5, <1>6, <1>8, <1>9, <2>1, <2>2
<1> QED BY <1>7, <1>9, <1>10 DEF t, s

\* What is written of a frame: its parameter sets, if it has them, and its
\* slice, none of which looks like a start code anywhere.
LEMMA WrittenIs ==
  ASSUME NEW f \in Frames
  PROVE /\ Sound(Written[f]) /\ Parsed[f] = Written[f]
        /\ Written[f] = (IF f.sets THEN ParameterSets(f.size[1], f.size[2], Fps) ELSE << >>)
                          \o <<Slice(f.key, f.poc, Payload)>>
        /\ Len(Written[f]) = IF f.sets THEN 4 ELSE 1
        /\ Written[f][Len(Written[f])] = Slice(f.key, f.poc, Payload)
        /\ NaluType(Slice(f.key, f.poc, Payload)) \in {1, 19}
        /\ f.sets => /\ \A i \in 1 .. 3 : NaluType(Written[f][i]) = 31 + i
                     /\ Written[f][2] = Nalu(SpsType, Sps(f.size[1], f.size[2]))
<1> DEFINE sets == ParameterSets(f.size[1], f.size[2], Fps)  slice == Slice(f.key, f.poc, Payload)
           heads == IF f.sets THEN sets ELSE << >>
<1>1. /\ f.key \in BOOLEAN /\ f.sets \in BOOLEAN /\ f.poc \in Nat
      /\ f.size[1] \in Sides /\ f.size[2] \in Sides
  BY FramesAre
<1>2. Payload \in Seq(Nat)
  <2>1. Payload \in Seq(0 .. 255)
    BY DecoderAssumption
  <2>2. 0 .. 255 \subseteq Nat
    OBVIOUS
  <2> QED BY <2>1, <2>2, SeqMonotonic
<1>3. slice \in Seq(Nat) /\ Len(slice) >= 1 /\ Clean(slice) /\ NaluType(slice) = SliceType(f.key)
  BY <1>1, <1>2, SliceIs
<1>4. SliceType(f.key) \in {1, 19}
  BY DEF SliceType
<1>5. /\ sets \in Seq(Seq(Nat)) /\ Len(sets) = 3
      /\ \A i \in 1 .. 3 : Len(sets[i]) >= 1 /\ Clean(sets[i]) /\ NaluType(sets[i]) = 31 + i
  BY <1>1, SetsAre
<1>6. Written[f] = heads \o <<slice>>
  BY TableIs DEF Written
<1> HIDE DEF sets, slice
<1>7. /\ heads \in Seq(Seq(Nat)) /\ Len(heads) = IF f.sets THEN 3 ELSE 0
      /\ \A i \in 1 .. Len(heads) : Len(heads[i]) >= 1 /\ Clean(heads[i])
  <2>1. CASE f.sets
    BY <1>5, <2>1
  <2>2. CASE ~f.sets
    BY <2>2
  <2> QED BY <2>1, <2>2
<1>8. f.sets => heads = sets
  OBVIOUS
<1> HIDE DEF heads
<1> DEFINE one == <<slice>>  all == heads \o one
<1>9. one \in Seq(Seq(Nat)) /\ Len(one) = 1 /\ one[1] = slice
  BY <1>3
<1> HIDE DEF one
<1>10. /\ all \in Seq(Seq(Nat)) /\ Len(all) = Len(heads) + 1 /\ Len(heads) \in Nat
       /\ \A i \in 1 .. Len(heads) : all[i] = heads[i]
       /\ all[Len(heads) + 1] = slice
  <2>1. /\ heads \o one \in Seq(Seq(Nat)) /\ Len(heads \o one) = Len(heads) + Len(one)
        /\ Len(heads) \in Nat
        /\ \A i \in 1 .. Len(heads) : (heads \o one)[i] = heads[i]
        /\ \A i \in 1 .. Len(one) : (heads \o one)[Len(heads) + i] = one[i]
    <3> DEFINE S == Seq(Nat)
    <3>1. heads \in Seq(S) /\ one \in Seq(S)
      BY <1>7, <1>9
    <3> HIDE DEF S
    <3>2. /\ heads \o one \in Seq(S) /\ Len(heads \o one) = Len(heads) + Len(one)
          /\ Len(heads) \in Nat
          /\ \A i \in 1 .. Len(heads) : (heads \o one)[i] = heads[i]
          /\ \A i \in 1 .. Len(one) : (heads \o one)[Len(heads) + i] = one[i]
      BY <3>1, JoinIs
    <3> QED BY <3>2 DEF S
  <2> QED BY <1>9, <2>1
<1> HIDE DEF all
<1>11. Sound(all)
  <2>1. \A i \in 1 .. Len(all) : Len(all[i]) >= 1 /\ Clean(all[i])
    <3> TAKE i \in 1 .. Len(all)
    <3>1. i \in 1 .. Len(heads) \/ i = Len(heads) + 1
      BY <1>10
    <3> QED BY <1>3, <1>7, <1>10, <3>1
  <2> QED BY <1>10, <2>1 DEF Sound
<1>12. Written[f] = all
  BY <1>6 DEF all, one
<1>13. Parsed[f] = all
  <2>1. Parsed[f] = ParseAnnexB(AnnexB(Written[f]))
    BY TableIs DEF Parsed
  <2> QED BY <1>11, <1>12, <2>1, ParserFindsUnits
<1>14. Len(all) = IF f.sets THEN 4 ELSE 1
  BY <1>7, <1>10
<1>15. all[Len(all)] = slice
  BY <1>10
<1>16. f.sets => (\A i \in 1 .. 3 : NaluType(all[i]) = 31 + i) /\ all[2] = sets[2]
  BY <1>5, <1>7, <1>8, <1>10
<1>17. sets[2] = Nalu(SpsType, Sps(f.size[1], f.size[2]))
  BY <1>1, SetsAre DEF sets
<1> QED BY <1>3, <1>4, <1>6, <1>11, <1>12, <1>13, <1>14, <1>15, <1>16, <1>17 DEF sets, slice, heads

\* The parameter sets the receiver finds in a frame are those of its size; a
\* frame without them yields none.
LEMMA SetsInIs ==
  ASSUME NEW f \in Frames
  PROVE /\ f.sets => /\ SetsIn[f] = <<Written[f][1], Written[f][2], Written[f][3]>>
                     /\ SetsIn[f] # None
        /\ ~f.sets => SetsIn[f] = None
        /\ HasSlices[f] /\ Parsed[f] # << >>
<1> DEFINE p == Parsed[f]
           found == IF \E t \in {VpsType, SpsType, PpsType} : OfType(p, t) = {} THEN None
                    ELSE <<First(p, VpsType), First(p, SpsType), First(p, PpsType)>>
<1>1. SetsIn[f] = found
  BY TableIs DEF SetsIn
<1>2. HasSlices[f] <=> \E i \in DOMAIN p : NaluType(p[i]) <= 31
  BY TableIs DEF HasSlices
<1>3. p = Written[f] /\ p \in Seq(Seq(Nat))
  BY WrittenIs DEF Sound
<1>4. f.sets \in BOOLEAN
  BY FramesAre
<1>5. Len(p) = (IF f.sets THEN 4 ELSE 1) /\ NaluType(p[Len(p)]) \in {1, 19}
  BY <1>3, WrittenIs
<1>6. f.sets => \A i \in 1 .. 3 : NaluType(p[i]) = 31 + i
  <2>1. f.sets => \A i \in 1 .. 3 : NaluType(Written[f][i]) = 31 + i
    BY WrittenIs
  <2> QED BY <1>3, <2>1
<1>7. VpsType = 32 /\ SpsType = 33 /\ PpsType = 34
  BY DEF VpsType, SpsType, PpsType
<1> HIDE DEF p
<1>8. DOMAIN p = 1 .. Len(p)
  BY <1>3
<1>9. HasSlices[f] /\ p # << >>
  <2>1. Len(p) \in DOMAIN p /\ p # << >>
    BY <1>3, <1>4, <1>5, <1>8
  <2>2. NaluType(p[Len(p)]) <= 31
    BY <1>5
  <2> QED BY <1>2, <2>1, <2>2
<1>10. ASSUME f.sets, NEW k \in 1 .. 3
       PROVE OfType(p, 31 + k) = {k} /\ First(p, 31 + k) = p[k]
  <2>1. DOMAIN p = 1 .. 4 /\ NaluType(p[4]) \in {1, 19} /\ \A i \in 1 .. 3 : NaluType(p[i]) = 31 + i
    BY <1>5, <1>6, <1>8, <1>10
  <2>2. \A i \in 1 .. 4 : NaluType(p[i]) = 31 + k <=> i = k
    <3> TAKE i \in 1 .. 4
    <3>1. i \in 1 .. 3 \/ i = 4
      OBVIOUS
    <3>2. CASE i \in 1 .. 3
      <4>1. NaluType(p[i]) = 31 + i
        BY <2>1, <3>2
      <4> QED BY <3>2, <4>1
    <3>3. CASE i = 4
      BY <2>1, <3>3
    <3> QED BY <3>1, <3>2, <3>3
  <2>3. OfType(p, 31 + k) = {k}
    BY <2>1, <2>2 DEF OfType
  <2>4. First(p, 31 + k) = p[CHOOSE i \in {k} : \A j \in {k} : i <= j]
    BY <2>3 DEF First
  <2>5. (CHOOSE i \in {k} : \A j \in {k} : i <= j) = k
    OBVIOUS
  <2> QED BY <2>3, <2>4, <2>5
<1>11. ASSUME f.sets PROVE found = <<p[1], p[2], p[3]>> /\ found # None
  <2>1. 31 + 1 = 32 /\ 31 + 2 = 33 /\ 31 + 3 = 34 /\ 1 \in 1 .. 3 /\ 2 \in 1 .. 3 /\ 3 \in 1 .. 3
    OBVIOUS
  <2>2. /\ OfType(p, VpsType) = {1} /\ First(p, VpsType) = p[1]
        /\ OfType(p, SpsType) = {2} /\ First(p, SpsType) = p[2]
        /\ OfType(p, PpsType) = {3} /\ First(p, PpsType) = p[3]
    BY <1>7, <1>10, <1>11, <2>1
  <2>3. {1} # {} /\ {2} # {} /\ {3} # {}
    OBVIOUS
  <2>4. found = <<First(p, VpsType), First(p, SpsType), First(p, PpsType)>>
    BY <2>2, <2>3
  <2> QED BY <2>2, <2>4 DEF None
<1>12. ASSUME ~f.sets PROVE found = None
  <2>1. DOMAIN p = {1} /\ NaluType(p[1]) \in {1, 19}
    BY <1>5, <1>8, <1>12
  <2>2. OfType(p, VpsType) = {}
    BY <1>7, <2>1 DEF OfType
  <2> QED BY <2>2
<1> QED BY <1>1, <1>3, <1>9, <1>11, <1>12 DEF p

\* What an H.265 decoder reads is what the encoder meant.
LEMMA ReadIs ==
  ASSUME NEW f \in Frames
  PROVE /\ f.sets => SpsSize[f] = f.size
        /\ ~f.key => SlicePoc[f] = f.poc
        /\ f \in DOMAIN SpsSize <=> f.sets
<1>1. /\ f.key \in BOOLEAN /\ f.sets \in BOOLEAN
      /\ f.size[1] \in Sides /\ f.size[2] \in Sides /\ f.size = <<f.size[1], f.size[2]>>
      /\ f.poc \in Nat /\ Shift(f.poc, PocBits) = 0
      /\ f.sets => f.key
      /\ f \in DeltaFrames <=> ~f.key
  BY FramesAre
<1>2. SpsSize = [g \in {e \in Frames : e.sets} |-> SizeInSps(SetsIn[g][2])]
  BY TableIs DEF SpsSize
<1>3. SlicePoc = [g \in DeltaFrames |-> PocInSlice(Parsed[g][1])]
  BY TableIs DEF SlicePoc
<1>4. ASSUME f.sets PROVE SpsSize[f] = f.size
  <2>1. SpsSize[f] = SizeInSps(SetsIn[f][2])
    BY <1>2, <1>4
  <2>2. SetsIn[f][2] = Written[f][2]
    BY <1>4, SetsInIs
  <2>3. Written[f][2] = Nalu(SpsType, Sps(f.size[1], f.size[2]))
    BY <1>4, WrittenIs
  <2>4. SizeInSps(Nalu(SpsType, Sps(f.size[1], f.size[2]))) = <<f.size[1], f.size[2]>>
    BY <1>1, SizeReadsBack
  <2> QED BY <1>1, <2>1, <2>2, <2>3, <2>4
<1>5. ASSUME ~f.key PROVE SlicePoc[f] = f.poc
  <2>1. SlicePoc[f] = PocInSlice(Parsed[f][1])
    BY <1>1, <1>3, <1>5
  <2>2. Parsed[f] = Written[f] /\ Len(Written[f]) = 1
    BY <1>1, <1>5, WrittenIs
  <2>3. f.key = FALSE
    BY <1>1, <1>5
  <2>4. Written[f][1] = Slice(FALSE, f.poc, Payload)
    BY <2>2, <2>3, WrittenIs
  <2>5. Payload \in Seq(Nat)
    <3>1. Payload \in Seq(0 .. 255)
      BY DecoderAssumption
    <3>2. 0 .. 255 \subseteq Nat
      OBVIOUS
    <3> QED BY <3>1, <3>2, SeqMonotonic
  <2>6. PocInSlice(Slice(FALSE, f.poc, Payload)) = f.poc
    BY <1>1, <2>5, PocReadsBack
  <2> QED BY <2>1, <2>2, <2>4, <2>6
<1>6. f \in DOMAIN SpsSize <=> f.sets
  BY <1>2
<1> QED BY <1>4, <1>5, <1>6

\* The frame under way is one of those the sender can send.
FrameInv == frame \in Frames

\* No step brings another kind of frame.
LEMMA FrameStep == FrameInv /\ [Next]_vars => FrameInv'
<1> SUFFICES ASSUME FrameInv, [Next]_vars PROVE FrameInv'
  OBVIOUS
<1>1. ASSUME NEW f \in Frames, Receive(f) PROVE FrameInv'
  BY <1>1 DEF Receive, FrameInv
<1>2. ASSUME NEW f \in Frames, Lose(f) PROVE FrameInv'
  BY <1>2 DEF Lose, FrameInv
<1>3. CASE Decode
  BY <1>3 DEF Decode, Parse, Create, Submit, SubmitFails, FrameInv
<1>4. CASE Output
  BY <1>4 DEF Output, Callback, CallbackFails, DidOutput, FrameInv
<1>5. CASE ShutDown
  BY <1>5 DEF ShutDown, StopReceiver, InvalidateSession, InvalidateFields, FrameInv
<1>6. CASE UNCHANGED vars
  BY <1>6 DEF vars, FrameInv
<1> QED BY <1>1, <1>2, <1>3, <1>4, <1>5, <1>6 DEF Next

\* What the encoder writes for a frame is what the receiver's parser finds and
\* what an H.265 decoder reads, for every picture size, rate, order count and
\* payload: no start code arises inside a NAL unit and none is missed.
THEOREM FramesAreReadBack == Spec => []BytesReadBack
<1>1. Init => FrameInv
  BY DEF Init, FrameInv
<1>2. FrameInv => BytesReadBack
  BY WrittenIs, ReadIs DEF FrameInv, BytesReadBack
<1> QED BY <1>1, <1>2, FrameStep, PTL DEF Spec

-----------------------------------------------------------------------------
(* A complete key frame repairs the picture.                               *)

\* The decoder is not being torn down.
Alive == quit \in {"no", "stopped"}

\* The parameter sets cached are those of a picture size.
Caches(size) == \E f \in Frames : f.sets /\ cached = SetsIn[f] /\ f.size = size

\* The frame under way and its place in decode.
PlaceInv ==
  /\ dpc \in {"idle", "parse", "create", "submit"}
  /\ quit \in {"no", "stopped", "invalid", "done"}
  /\ frame \in Frames /\ number \in Nat
  /\ dpc # "idle" => number > 0 /\ sender = frame.size

\* What the decoder keeps between two frames: the format is the one of the
\* parameter sets cached, and a session there is was made for them.
KeptInv ==
  /\ dead = NoSession /\ format = cached
  /\ dpc = "create" => frame.key /\ cached # None
  /\ ~denied /\ cached # None /\ dpc # "create" => session # NoSession /\ sessionOf = format

\* After a complete key frame: the parameter sets are those of the sender's
\* size, and the session has the picture the next frame predicts from.
CleanInv ==
  /\ dpc = "create" \/ ~waiting
  /\ (dpc = "parse" /\ frame.key) \/ Caches(sender)
  /\ denied \/ (dpc # "idle" /\ frame.key) \/ intact

\* The invariant of the repair; after the tear-down has begun it says nothing.
RepairInv == PlaceInv /\ (Alive => KeptInv /\ (clean => CleanInv))

\* The first frame finds nothing cached and waits.
LEMMA RepairInit == Init => RepairInv
  BY DEF Init, RepairInv, PlaceInv, KeptInv, None, NoSession

\* The invariant is what the property needs.
LEMMA RepairIs == RepairInv => KeyFrameRepairs
<1> SUFFICES ASSUME RepairInv, clean, ~denied, dpc = "submit", Alive
             PROVE /\ Ready
                   /\ sessionOf = format
                   /\ \E f \in DOMAIN SpsSize : sessionOf = SetsIn[f] /\ SpsSize[f] = sender
                   /\ frame.key \/ intact
  BY DEF KeyFrameRepairs, Alive
<1>1. PlaceInv /\ KeptInv /\ CleanInv
  BY DEF RepairInv
<1>2. PICK f \in Frames : f.sets /\ cached = SetsIn[f] /\ f.size = sender
  BY <1>1 DEF CleanInv, Caches
<1>3. SetsIn[f] # None
  BY <1>2, SetsInIs
<1>4. session # NoSession /\ sessionOf = format /\ format = cached /\ dead = NoSession
  BY <1>1, <1>2, <1>3 DEF KeptInv
<1>5. ~waiting
  BY <1>1 DEF CleanInv
<1>6. HasSlices[frame]
  BY <1>1, SetsInIs DEF PlaceInv
<1>7. Ready
  BY <1>2, <1>3, <1>4, <1>5, <1>6 DEF Ready
<1>8. f \in DOMAIN SpsSize /\ SpsSize[f] = sender
  BY <1>2, ReadIs
<1>9. frame.key \/ intact
  BY <1>1 DEF CleanInv
<1> QED BY <1>2, <1>4, <1>7, <1>8, <1>9

\* The link: a frame of another size is a key frame, and a loss is noticed.
LEMMA LinkKeepsRepair ==
  ASSUME RepairInv, NEW f \in Frames, Receive(f) \/ Lose(f)
  PROVE RepairInv'
<1>1. CASE Receive(f)
  <2>1. PlaceInv'
    BY <1>1 DEF RepairInv, PlaceInv, Receive, quitVars
  <2>2. ASSUME Alive' PROVE KeptInv'
    BY <1>1, <2>2 DEF RepairInv, KeptInv, Alive, Receive, decVars, quitVars, ghosts
  <2>3. ASSUME Alive', clean' PROVE CleanInv'
    <3>1. CleanInv /\ dpc = "idle" /\ dpc' = "parse" /\ frame' = f /\ sender' = f.size
      BY <1>1, <2>3 DEF RepairInv, Alive, Receive, quitVars, ghosts
    <3>2. UNCHANGED <<waiting, cached, denied, intact>>
      BY <1>1 DEF Receive, decVars, ghosts
    <3>3. f.key \/ Caches(sender)'
      <4>1. f.key \/ f.size = sender
        BY <1>1 DEF Receive
      <4> QED BY <3>1, <3>2, <4>1 DEF CleanInv, Caches
    <3> QED BY <3>1, <3>2, <3>3 DEF CleanInv
  <2> QED BY <2>1, <2>2, <2>3 DEF RepairInv
<1>2. CASE Lose(f)
  <2>1. PlaceInv'
    BY <1>2 DEF RepairInv, PlaceInv, Lose, quitVars
  <2>2. ASSUME Alive' PROVE KeptInv'
    BY <1>2, <2>2 DEF RepairInv, KeptInv, Alive, Lose, decVars, quitVars
  <2>3. ~clean'
    BY <1>2 DEF Lose
  <2> QED BY <2>1, <2>2, <2>3 DEF RepairInv
<1> QED BY <1>1, <1>2

\* decode up to the submission: a key frame leaves its own parameter sets
\* cached or marks what was refused.
LEMMA ParseKeepsRepair ==
  ASSUME RepairInv, Parse
  PROVE RepairInv'
<1>1. /\ dpc = "parse" /\ UNCHANGED <<frame, number, sender, quit, dead>>
      /\ PlaceInv /\ frame \in Frames /\ sender = frame.size
  BY DEF RepairInv, PlaceInv, Parse, quitVars
<1>2. Alive' <=> Alive
  BY <1>1 DEF Alive
<1>3. Parsed[frame] # << >> /\ (~frame.sets => SetsIn[frame] = None) /\ frame.sets \in BOOLEAN
  BY <1>1, SetsInIs, FramesAre
<1>4. CASE frame.key /\ KeyIncomplete(frame)
  <2>1. dpc' = "idle" /\ ~clean' /\ UNCHANGED <<cached, format, session, sessionOf, denied>>
    BY <1>4 DEF KeyIncomplete, decVars
  <2>2. PlaceInv'
    BY <1>1, <2>1 DEF PlaceInv
  <2>3. Alive' => KeptInv'
    BY <1>1, <1>2, <2>1 DEF RepairInv, KeptInv
  <2> QED BY <2>1, <2>2, <2>3 DEF RepairInv
<1>5. CASE frame.key /\ KeyKnown(frame)
  <2>1. /\ SetsIn[frame] # None /\ cached = SetsIn[frame] /\ ~waiting' /\ dpc' = "submit"
        /\ UNCHANGED <<cached, format, session, sessionOf, denied>>
    BY <1>5 DEF KeyKnown, Changed
  <2>2. PlaceInv'
    BY <1>1, <2>1 DEF PlaceInv
  <2>3. Alive' => KeptInv'
    BY <1>1, <1>2, <2>1 DEF RepairInv, KeptInv
  <2>4. Caches(sender)'
    BY <1>1, <1>3, <2>1 DEF Caches
  <2>5. CleanInv'
    BY <1>1, <1>5, <2>1, <2>4 DEF CleanInv
  <2> QED BY <2>2, <2>3, <2>5 DEF RepairInv
<1>6. CASE frame.key /\ KeyNew(frame)
  <2>1. SetsIn[frame] # None /\ UNCHANGED <<session, sessionOf>>
    BY <1>6 DEF KeyNew
  <2>2. CASE format' = SetsIn[frame] /\ cached' = SetsIn[frame] /\ dpc' = "create"
    <3>1. PlaceInv'
      BY <1>1, <2>2 DEF PlaceInv
    <3>2. Alive' => KeptInv'
      BY <1>1, <1>2, <1>6, <2>1, <2>2 DEF RepairInv, KeptInv
    <3>3. Caches(sender)'
      BY <1>1, <1>3, <2>1, <2>2 DEF Caches
    <3>4. CleanInv'
      BY <1>1, <1>6, <2>2, <3>3 DEF CleanInv
    <3> QED BY <3>1, <3>2, <3>4 DEF RepairInv
  <2>3. CASE dpc' = "submit" /\ ~clean' /\ UNCHANGED <<format, cached, denied>>
    <3>1. PlaceInv'
      BY <1>1, <2>3 DEF PlaceInv
    <3>2. Alive' => KeptInv'
      BY <1>1, <1>2, <2>1, <2>3 DEF RepairInv, KeptInv
    <3> QED BY <2>3, <3>1, <3>2 DEF RepairInv
  <2> QED BY <1>6, <2>2, <2>3 DEF KeyNew
<1>7. CASE ~frame.key /\ Delta(frame)
  <2>1. /\ dpc' = "submit" /\ (intact' <=> intact)
        /\ UNCHANGED <<cached, format, session, sessionOf, waiting, clean, denied>>
    BY <1>3, <1>7 DEF Delta, decVars
  <2>2. PlaceInv'
    BY <1>1, <2>1 DEF PlaceInv
  <2>3. Alive' => KeptInv'
    BY <1>1, <1>2, <2>1 DEF RepairInv, KeptInv
  <2>4. ASSUME Alive', clean' PROVE CleanInv'
    <3>1. CleanInv
      BY <1>2, <2>1, <2>4 DEF RepairInv
    <3>2. ~waiting /\ Caches(sender) /\ (denied \/ intact)
      BY <1>1, <1>7, <3>1 DEF CleanInv
    <3>3. Caches(sender)'
      BY <1>1, <2>1, <3>2 DEF Caches
    <3> QED BY <2>1, <3>2, <3>3 DEF CleanInv
  <2> QED BY <2>2, <2>3, <2>4 DEF RepairInv
<1> QED BY <1>4, <1>5, <1>6, <1>7 DEF Parse

\* The new session is for the format of the parameter sets cached.
LEMMA CreateKeepsRepair ==
  ASSUME RepairInv, Create
  PROVE RepairInv'
<1>1. /\ dpc = "create" /\ dpc' = "submit" /\ ~waiting' 
      /\ UNCHANGED <<frame, number, sender, cached, format, quit, dead>>
      /\ PlaceInv /\ number # 0
  BY DEF RepairInv, PlaceInv, Create, quitVars
<1>2. Alive' <=> Alive
  BY <1>1 DEF Alive
<1>3. PlaceInv'
  BY <1>1 DEF PlaceInv
<1>4. CASE session' = number /\ sessionOf' = format /\ UNCHANGED <<clean, denied>>
  <2>1. Alive' => KeptInv'
    BY <1>1, <1>2, <1>4 DEF RepairInv, KeptInv, NoSession
  <2>2. ASSUME Alive', clean' PROVE CleanInv'
    <3>1. CleanInv /\ KeptInv
      BY <1>2, <1>4, <2>2 DEF RepairInv
    <3>2. Caches(sender) /\ frame.key
      BY <1>1, <3>1 DEF CleanInv, KeptInv
    <3>3. Caches(sender)'
      BY <1>1, <3>2 DEF Caches
    <3> QED BY <1>1, <3>2, <3>3 DEF CleanInv
  <2> QED BY <1>3, <2>1, <2>2 DEF RepairInv
<1>5. CASE ~clean' /\ denied'
  <2>1. Alive' => KeptInv'
    BY <1>1, <1>2, <1>5 DEF RepairInv, KeptInv
  <2> QED BY <1>3, <1>5, <2>1 DEF RepairInv
<1> QED BY <1>4, <1>5 DEF Create

\* A submission that fails although the decoder was ready is noticed; it is
\* ready after a complete key frame unless the session was refused.
LEMMA SubmitKeepsRepair ==
  ASSUME RepairInv, Submit \/ SubmitFails
  PROVE RepairInv'
<1>1. /\ dpc = "submit" /\ dpc' = "idle"
      /\ UNCHANGED <<frame, number, sender, quit, dead, cached, format, session, sessionOf, waiting, denied>>
      /\ PlaceInv
  BY DEF RepairInv, Submit, SubmitFails, quitVars, decVars
<1>2. Alive' <=> Alive
  BY <1>1 DEF Alive
<1>3. PlaceInv'
  BY <1>1 DEF PlaceInv
<1>4. Alive' => KeptInv'
  BY <1>1, <1>2 DEF RepairInv, KeptInv
<1>5. ASSUME Alive', clean' PROVE CleanInv'
  <2>1. clean
    BY <1>5 DEF Submit, SubmitFails
  <2>2. CleanInv
    BY <1>2, <1>5, <2>1 DEF RepairInv
  <2>3. ~waiting /\ Caches(sender)
    BY <1>1, <2>2 DEF CleanInv
  <2>4. ~waiting' /\ Caches(sender)'
    BY <1>1, <2>3 DEF Caches
  <2>5. denied \/ intact'
    <3>1. CASE Submit
      BY <1>1, <2>2, <3>1 DEF Submit, CleanInv
    <3>2. CASE SubmitFails /\ ~denied
      <4>1. Ready
        BY <1>1, <1>2, <1>5, <2>1, <3>2, RepairIs DEF KeyFrameRepairs, Alive
      <4> QED BY <1>5, <3>2, <4>1 DEF SubmitFails
    <3> QED BY <3>1, <3>2
  <2> QED BY <1>1, <2>4, <2>5 DEF CleanInv
<1> QED BY <1>3, <1>4, <1>5 DEF RepairInv

\* VideoToolbox, the main queue and the end of the receiver.
LEMMA RestKeepsRepair ==
  ASSUME RepairInv, Output \/ ShutDown \/ UNCHANGED vars
  PROVE RepairInv'
<1>1. CASE ~Alive'
  <2>1. PlaceInv'
    BY DEF RepairInv, PlaceInv, Output, Callback, CallbackFails, DidOutput, ShutDown,
       StopReceiver, InvalidateSession, InvalidateFields, vars, quitVars
  <2> QED BY <1>1, <2>1 DEF RepairInv
<1>2. CASE Alive'
  <2>1. /\ UNCHANGED <<dpc, frame, number, sender, cached, format, session, sessionOf, waiting, dead, denied>>
        /\ Alive /\ quit' \in {"no", "stopped", "invalid", "done"}
        /\ (clean' => clean /\ (intact' <=> intact))
    BY <1>2 DEF RepairInv, PlaceInv, Alive, Output, Callback, CallbackFails, DidOutput, ShutDown,
       StopReceiver, InvalidateSession, InvalidateFields, vars, quitVars, decVars, ghosts
  <2>2. PlaceInv'
    BY <2>1 DEF RepairInv, PlaceInv
  <2>3. KeptInv'
    BY <2>1 DEF RepairInv, KeptInv
  <2>4. clean' => CleanInv'
    BY <2>1 DEF RepairInv, CleanInv, Caches
  <2> QED BY <2>2, <2>3, <2>4 DEF RepairInv
<1> QED BY <1>1, <1>2

\* Every step keeps what a key frame has repaired, or marks what broke it.
LEMMA RepairStep == RepairInv /\ [Next]_vars => RepairInv'
<1> SUFFICES ASSUME RepairInv, [Next]_vars PROVE RepairInv'
  OBVIOUS
<1> QED BY LinkKeepsRepair, ParseKeepsRepair, CreateKeepsRepair, SubmitKeepsRepair, RestKeepsRepair
        DEF Next, Decode

\* A complete key frame repairs the picture, for every number of frames, every
\* picture size and payload, whatever VideoToolbox refuses and the link loses.
THEOREM CompleteKeyFrameRepairs == Spec => []KeyFrameRepairs
<1> QED BY RepairInit, RepairStep, RepairIs, PTL DEF Spec

=============================================================================

------------------------ MODULE AudioRecorderProofs ------------------------
(***************************************************************************)
(* For any number of frames, every buffer limit, activity window and       *)
(* synchronisation distance, and every order of frames, ticks, transfers   *)
(* and stops: the mixed recording has each stream in order and without     *)
(* repetition, the two recordings agree on the caller, nothing from before *)
(* a transfer is left, each recording is handed over once, and a frame is  *)
(* lost only as the oldest of a full buffer.  When the buffer holds what   *)
(* arrives in the window, as it does in the code, a pause of the agent     *)
(* costs few consecutive frames of the caller.                             *)
(*                                                                         *)
(* The loop of processBuffers is a recursive function of the number of its *)
(* iterations.  What it does for buffers of any length follows from the    *)
(* least number of iterations after which it would have gone wrong; that   *)
(* there is a least one is all that is needed of induction.                *)
(*                                                                         *)
(* Sound says what holds of a mixer between two iterations, Kept that they *)
(* lose and invent no frame.  A new frame keeps the order only because it  *)
(* is newer than all frames in the mixer: the invariant says that these lie*)
(* between the last discard and the frame in the media thread's hand.      *)
(*                                                                         *)
(* Pace is the invariant for the gaps.  It counts the caller's frames with *)
(* the clock: when the agent has nothing pending, the caller was recorded  *)
(* until about the agent's last frame (Soon), so that a full buffer drops  *)
(* a frame only about when the window ends and the agent becomes inactive. *)
(***************************************************************************)
EXTENDS AudioRecorder, WellFoundedInduction, TLAPS

-----------------------------------------------------------------------------
(* The loop of processBuffers *)

\* A set of natural numbers that is not empty has a least element.
LEMMA LeastNumber ==
  ASSUME NEW T \in SUBSET Nat, T # {}
  PROVE  \E x \in T : \A y \in T : x <= y
  <1> DEFINE R == OpToRel(<, Nat)
  <1>1. IsWellFoundedOn(R, Nat)
    BY NatLessThanWellFounded
  <1>2. \A x, y \in Nat : <<y, x>> \in R <=> y < x
    BY DEF OpToRel
  <1> HIDE DEF R
  <1>3. PICK x \in T : \A y \in T : ~(<<y, x>> \in R)
    BY <1>1, WFMin
  <1>4. ASSUME NEW y \in T PROVE x <= y
    <2>1. x \in Nat /\ y \in Nat
      OBVIOUS
    <2>2. ~(y < x)
      BY <1>2, <1>3, <2>1
    <2> QED BY <2>1, <2>2
  <1> QED BY <1>4

\* The first n iterations from m on.
Run(f, m, n) ==
  /\ DOMAIN f = 0..n /\ f[0] = m
  /\ \A i \in 1..n : f[i] = Iterate(f[i - 1])

\* There is a run of every length,
LEMMA RunExists == ASSUME NEW m PROVE \A n \in Nat : \E f : Run(f, m, n)
  <1> DEFINE T == {n \in Nat : ~\E f : Run(f, m, n)}
  <1> SUFFICES ASSUME T # {} PROVE FALSE
    OBVIOUS
  <1>0. T \in SUBSET Nat
    OBVIOUS
  <1>1. PICK n \in T : \A k \in T : n <= k
    BY <1>0, LeastNumber
  <1>2. CASE n = 0
    <2>1. Run([i \in 0..0 |-> m], m, 0)
      BY DEF Run
    <2> QED BY <1>1, <1>2, <2>1
  <1>3. CASE n # 0
    <2>1. n - 1 \in Nat /\ n - 1 \notin T
      BY <1>1, <1>3
    <2>2. PICK g : Run(g, m, n - 1)
      BY <2>1
    <2> DEFINE f == [i \in 0..n |-> IF i = n THEN Iterate(g[n - 1]) ELSE g[i]]
    <2>3. Run(f, m, n)
      <3>1. f[0] = m /\ DOMAIN f = 0..n
        BY <1>1, <1>3, <2>2 DEF Run
      <3>2. ASSUME NEW i \in 1..n PROVE f[i] = Iterate(f[i - 1])
        <4>1. CASE i = n
          BY <1>1, <1>3, <4>1
        <4>2. CASE i # n
          <5>1. g[i] = Iterate(g[i - 1])
            BY <1>1, <2>2, <4>2 DEF Run
          <5>2. f[i] = g[i] /\ f[i - 1] = g[i - 1]
            BY <1>1, <4>2
          <5> QED BY <5>1, <5>2
        <4> QED BY <4>1, <4>2
      <3> QED BY <3>1, <3>2 DEF Run
    <2> QED BY <1>1, <2>3
  <1> QED BY <1>2, <1>3

\* and two runs agree where both are defined.
LEMMA RunUnique ==
  ASSUME NEW m, NEW p \in Nat, NEW f, Run(f, m, p), NEW q \in Nat, NEW g, Run(g, m, q), p <= q
  PROVE  \A i \in 0..p : f[i] = g[i]
  <1> DEFINE T == {i \in 0..p : f[i] # g[i]}
  <1> SUFFICES ASSUME T # {} PROVE FALSE
    OBVIOUS
  <1>0. T \in SUBSET Nat
    OBVIOUS
  <1>1. PICK n \in T : \A k \in T : n <= k
    BY <1>0, LeastNumber
  <1>2. n # 0
    BY <1>1 DEF Run
  <1>3. n - 1 \in 0..p /\ n - 1 \notin T
    BY <1>1, <1>2
  <1>4. f[n - 1] = g[n - 1]
    BY <1>3
  <1>5. f[n] = Iterate(f[n - 1]) /\ g[n] = Iterate(g[n - 1])
    BY <1>1, <1>2 DEF Run
  <1> QED BY <1>1, <1>4, <1>5

\* The recursive definition defines what it says.
LEMMA IterationsDef ==
  ASSUME NEW m
  PROVE  /\ Iterations(m)[0] = m
         /\ \A k \in Nat \ {0} : Iterations(m)[k] = Iterate(Iterations(m)[k - 1])
  <1> DEFINE W(n) == CHOOSE f : Run(f, m, n)
             F == [k \in Nat |-> W(k)[k]]
  <1>1. \A n \in Nat : Run(W(n), m, n)
    BY RunExists
  <1>2. ASSUME NEW k \in Nat PROVE F[k] = IF k = 0 THEN m ELSE Iterate(F[k - 1])
    <2>1. CASE k = 0
      BY <1>1, <2>1 DEF Run
    <2>2. CASE k # 0
      <3>1. Run(W(k), m, k) /\ Run(W(k - 1), m, k - 1) /\ k - 1 \in Nat
        BY <1>1, <2>2
      <3> HIDE DEF W
      <3>2. W(k - 1)[k - 1] = W(k)[k - 1]
        BY <2>2, <3>1, RunUnique
      <3>3. W(k)[k] = Iterate(W(k)[k - 1])
        BY <2>2, <3>1 DEF Run
      <3> QED BY <2>2, <3>1, <3>2, <3>3
    <2> QED BY <2>1, <2>2
  <1>3. F = [k \in Nat |-> F[k]]
    OBVIOUS
  <1> HIDE DEF F
  <1>4. F = [k \in Nat |-> IF k = 0 THEN m ELSE Iterate(F[k - 1])]
    BY <1>2, <1>3
  <1>5. Iterations(m) = CHOOSE f : f = [k \in Nat |-> IF k = 0 THEN m ELSE Iterate(f[k - 1])]
    BY DEF Iterations
  <1>6. Iterations(m) = [k \in Nat |-> IF k = 0 THEN m ELSE Iterate(Iterations(m)[k - 1])]
    BY <1>4, <1>5
  <1> DEFINE G == Iterations(m)
  <1>7. G = [k \in Nat |-> IF k = 0 THEN m ELSE Iterate(G[k - 1])]
    BY <1>6
  <1> HIDE DEF G
  <1>8. G[0] = m /\ \A k \in Nat \ {0} : G[k] = Iterate(G[k - 1])
    BY <1>7
  <1> QED BY <1>8 DEF G

-----------------------------------------------------------------------------
(* Recorded and waiting frames *)

\* The first waiting frame and the others.
LEMMA Front ==
  ASSUME NEW S, NEW b \in Seq(S), b # <<>>
  PROVE  /\ Len(b) \in Nat \ {0} /\ DOMAIN b = 1..Len(b)
         /\ Head(b) = b[1] /\ b[1] \in S
         /\ Tail(b) \in Seq(S) /\ Len(Tail(b)) = Len(b) - 1
         /\ DOMAIN Tail(b) = 1..(Len(b) - 1)
         /\ \A i \in 1..(Len(b) - 1) : Tail(b)[i] = b[i + 1]
  OBVIOUS

\* A frame added at the end.
LEMMA Back ==
  ASSUME NEW S, NEW s \in Seq(S), NEW e \in S
  PROVE  /\ Append(s, e) \in Seq(S) /\ Len(Append(s, e)) = Len(s) + 1
         /\ DOMAIN Append(s, e) = 1..(Len(s) + 1) /\ DOMAIN s = 1..Len(s) /\ Len(s) \in Nat
         /\ \A i \in 1..Len(s) : Append(s, e)[i] = s[i]
         /\ Append(s, e)[Len(s) + 1] = e
  OBVIOUS

\* A sequence behind another.
LEMMA Joined ==
  ASSUME NEW S, NEW s \in Seq(S), NEW r \in Seq(S)
  PROVE  /\ s \o r \in Seq(S) /\ Len(s \o r) = Len(s) + Len(r)
         /\ DOMAIN (s \o r) = 1..(Len(s) + Len(r))
         /\ DOMAIN s = 1..Len(s) /\ Len(s) \in Nat /\ DOMAIN r = 1..Len(r) /\ Len(r) \in Nat
         /\ \A i \in 1..Len(s) : (s \o r)[i] = s[i]
         /\ \A i \in 1..Len(r) : (s \o r)[Len(s) + i] = r[i]
  OBVIOUS

\* The set of the values.
LEMMA BackValues ==
  ASSUME NEW S, NEW s \in Seq(S), NEW e \in S
  PROVE  Range(Append(s, e)) = Range(s) \cup {e}
  <1> DEFINE t == Append(s, e)
  <1>1. /\ DOMAIN t = 1..(Len(s) + 1) /\ DOMAIN s = 1..Len(s) /\ Len(s) \in Nat
        /\ \A i \in 1..Len(s) : t[i] = s[i]
        /\ t[Len(s) + 1] = e
    BY Back
  <1> HIDE DEF t
  <1>2. Range(t) = Range(s) \cup {e}
    BY <1>1 DEF Range
  <1> QED BY <1>2 DEF t

\* The set of the values of two sequences.
LEMMA JoinedValues ==
  ASSUME NEW S, NEW s \in Seq(S), NEW r \in Seq(S)
  PROVE  Range(s \o r) = Range(s) \cup Range(r)
  <1> DEFINE t == s \o r
  <1>1. /\ DOMAIN t = 1..(Len(s) + Len(r))
        /\ DOMAIN s = 1..Len(s) /\ Len(s) \in Nat /\ DOMAIN r = 1..Len(r) /\ Len(r) \in Nat
        /\ \A i \in 1..Len(s) : t[i] = s[i]
        /\ \A i \in 1..Len(r) : t[Len(s) + i] = r[i]
    BY Joined
  <1> HIDE DEF t
  <1>2. Range(t) \subseteq Range(s) \cup Range(r)
    <2> SUFFICES ASSUME NEW i \in DOMAIN t PROVE t[i] \in Range(s) \cup Range(r)
      BY DEF Range
    <2>1. CASE i <= Len(s)
      BY <1>1, <2>1 DEF Range
    <2>2. CASE i > Len(s)
      <3>1. i - Len(s) \in 1..Len(r) /\ i = Len(s) + (i - Len(s))
        BY <1>1, <2>2
      <3>2. t[i] = r[i - Len(s)]
        BY <1>1, <3>1
      <3> QED BY <1>1, <3>1, <3>2 DEF Range
    <2> QED BY <1>1, <2>1, <2>2
  <1>3. Range(s) \subseteq Range(t)
    BY <1>1 DEF Range
  <1>4. Range(r) \subseteq Range(t)
    <2> SUFFICES ASSUME NEW i \in DOMAIN r PROVE r[i] \in Range(t)
      BY DEF Range
    <2>1. Len(s) + i \in DOMAIN t /\ t[Len(s) + i] = r[i]
      BY <1>1
    <2> QED BY <2>1 DEF Range
  <1> QED BY <1>2, <1>3, <1>4 DEF t

\* The values are the first one and the others.
LEMMA FrontValues ==
  ASSUME NEW S, NEW b \in Seq(S), b # <<>>
  PROVE  Range(b) = {b[1]} \cup Range(Tail(b))
  <1> DEFINE w == Tail(b)
  <1>1. /\ Len(b) \in Nat \ {0} /\ DOMAIN b = 1..Len(b)
        /\ DOMAIN w = 1..(Len(b) - 1)
        /\ \A i \in 1..(Len(b) - 1) : w[i] = b[i + 1]
    BY Front
  <1> HIDE DEF w
  <1>2. ASSUME NEW i \in DOMAIN w PROVE w[i] \in Range(b)
    <2>1. i + 1 \in DOMAIN b /\ w[i] = b[i + 1]
      BY <1>1
    <2> QED BY <2>1 DEF Range
  <1>3. ASSUME NEW i \in DOMAIN b, i # 1 PROVE b[i] \in Range(w)
    <2>1. i - 1 \in DOMAIN w /\ w[i - 1] = b[i]
      BY <1>1, <1>3
    <2> QED BY <2>1 DEF Range
  <1>4. 1 \in DOMAIN b
    BY <1>1
  <1> QED BY <1>2, <1>3, <1>4 DEF Range, w

\* Recording the first waiting frame keeps the order,
LEMMA RecordFirst ==
  ASSUME NEW rec \in Seq(Nat), NEW b \in Seq(Nat), b # <<>>, InOrder(rec, b)
  PROVE  InOrder(Append(rec, b[1]), Tail(b))
  <1> DEFINE r == Append(rec, b[1])
             w == Tail(b)
  <1>1. /\ Len(b) \in Nat \ {0} /\ DOMAIN b = 1..Len(b) /\ b[1] \in Nat
        /\ DOMAIN w = 1..(Len(b) - 1)
        /\ \A i \in 1..(Len(b) - 1) : w[i] = b[i + 1]
    BY Front
  <1>2. /\ DOMAIN r = 1..(Len(rec) + 1) /\ DOMAIN rec = 1..Len(rec) /\ Len(rec) \in Nat
        /\ \A i \in 1..Len(rec) : r[i] = rec[i]
        /\ r[Len(rec) + 1] = b[1]
    BY <1>1, Back
  <1> HIDE DEF r, w
  <1>0. \A i \in DOMAIN r : (i \in DOMAIN rec /\ r[i] = rec[i]) \/ (i = Len(rec) + 1 /\ r[i] = b[1])
    BY <1>2
  <1>3. ASSUME NEW i \in DOMAIN r, NEW j \in DOMAIN r, i < j, r[i] # 0, r[j] # 0
        PROVE  r[i] < r[j]
    <2>1. 1 \in DOMAIN b /\ i \in DOMAIN rec /\ r[i] = rec[i]
      BY <1>0, <1>1, <1>2, <1>3
    <2>2. CASE j \in DOMAIN rec /\ r[j] = rec[j]
      BY <1>3, <2>1, <2>2 DEF InOrder
    <2>3. CASE r[j] = b[1]
      BY <2>1, <2>3 DEF InOrder
    <2> QED BY <1>0, <2>2, <2>3
  <1>4. ASSUME NEW i \in DOMAIN r, NEW j \in DOMAIN w PROVE r[i] < w[j]
    <2>1. j + 1 \in DOMAIN b /\ w[j] = b[j + 1] /\ 1 \in DOMAIN b /\ 1 < j + 1
      BY <1>1
    <2> QED BY <1>0, <2>1 DEF InOrder
  <1>5. ASSUME NEW i \in DOMAIN w, NEW j \in DOMAIN w, i < j PROVE w[i] < w[j]
    <2>1. /\ i + 1 \in DOMAIN b /\ w[i] = b[i + 1] /\ j + 1 \in DOMAIN b /\ w[j] = b[j + 1]
          /\ i + 1 < j + 1
      BY <1>1, <1>5
    <2> QED BY <2>1 DEF InOrder
  <1> QED BY <1>3, <1>4, <1>5 DEF InOrder, r, w

\* and so does an entry without a frame of the stream,
LEMMA RecordNone ==
  ASSUME NEW rec \in Seq(Nat), NEW b \in Seq(Nat \ {0}), InOrder(rec, b)
  PROVE  InOrder(Append(rec, 0), b)
  <1> DEFINE r == Append(rec, 0)
  <1>1. /\ DOMAIN r = 1..(Len(rec) + 1) /\ DOMAIN rec = 1..Len(rec) /\ Len(rec) \in Nat
        /\ \A i \in 1..Len(rec) : r[i] = rec[i]
        /\ r[Len(rec) + 1] = 0
    BY Back
  <1>2. \A i \in DOMAIN b : 0 < b[i]
    OBVIOUS
  <1> HIDE DEF r
  <1>3. ASSUME NEW i \in DOMAIN r, NEW j \in DOMAIN r, i < j, r[i] # 0, r[j] # 0
        PROVE  r[i] < r[j]
    BY <1>1, <1>3 DEF InOrder
  <1>4. ASSUME NEW i \in DOMAIN r, NEW j \in DOMAIN b PROVE r[i] < b[j]
    BY <1>1, <1>2 DEF InOrder
  <1> QED BY <1>3, <1>4 DEF InOrder, r

\* recording all waiting frames,
LEMMA RecordAll ==
  ASSUME NEW rec \in Seq(Nat), NEW b \in Seq(Nat), InOrder(rec, b)
  PROVE  InOrder(rec \o b, <<>>)
  <1> DEFINE r == rec \o b
  <1>1. /\ DOMAIN r = 1..(Len(rec) + Len(b))
        /\ DOMAIN rec = 1..Len(rec) /\ Len(rec) \in Nat /\ DOMAIN b = 1..Len(b) /\ Len(b) \in Nat
        /\ \A i \in 1..Len(rec) : r[i] = rec[i]
        /\ \A i \in 1..Len(b) : r[Len(rec) + i] = b[i]
    BY Joined
  <1> HIDE DEF r
  <1>2. ASSUME NEW i \in DOMAIN r, i > Len(rec)
        PROVE  i - Len(rec) \in DOMAIN b /\ r[i] = b[i - Len(rec)]
    <2>1. i - Len(rec) \in 1..Len(b) /\ i = Len(rec) + (i - Len(rec))
      BY <1>1, <1>2
    <2> QED BY <1>1, <2>1
  <1>3. ASSUME NEW i \in DOMAIN r, NEW j \in DOMAIN r, i < j, r[i] # 0, r[j] # 0
        PROVE  r[i] < r[j]
    <2>1. CASE j <= Len(rec)
      <3>1. i \in DOMAIN rec /\ j \in DOMAIN rec /\ r[i] = rec[i] /\ r[j] = rec[j]
        BY <1>1, <1>3, <2>1
      <3> QED BY <1>3, <3>1 DEF InOrder
    <2>2. CASE j > Len(rec) /\ i <= Len(rec)
      BY <1>1, <1>2, <2>2 DEF InOrder
    <2>3. CASE i > Len(rec)
      <3>1. i - Len(rec) < j - Len(rec) /\ j > Len(rec)
        BY <1>1, <1>3, <2>3
      <3> QED BY <1>2, <2>3, <3>1 DEF InOrder
    <2> QED BY <1>1, <2>1, <2>2, <2>3
  <1> QED BY <1>3 DEF InOrder, r

\* entries of the other stream,
LEMMA RecordOthers ==
  ASSUME NEW rec \in Seq(Nat), NEW b \in Seq(Nat \ {0}), InOrder(rec, b),
         NEW z \in Seq(Nat), \A i \in DOMAIN z : z[i] = 0
  PROVE  InOrder(rec \o z, b)
  <1> DEFINE r == rec \o z
  <1>1. /\ DOMAIN r = 1..(Len(rec) + Len(z))
        /\ DOMAIN rec = 1..Len(rec) /\ Len(rec) \in Nat /\ DOMAIN z = 1..Len(z) /\ Len(z) \in Nat
        /\ \A i \in 1..Len(rec) : r[i] = rec[i]
        /\ \A i \in 1..Len(z) : r[Len(rec) + i] = z[i]
    BY Joined
  <1> HIDE DEF r
  <1>2. ASSUME NEW i \in DOMAIN r, i > Len(rec) PROVE r[i] = 0
    <2>1. i - Len(rec) \in 1..Len(z) /\ i = Len(rec) + (i - Len(rec))
      BY <1>1, <1>2
    <2> QED BY <1>1, <2>1
  <1>3. \A i \in DOMAIN b : 0 < b[i]
    OBVIOUS
  <1>4. \A i \in DOMAIN r : (i \in DOMAIN rec /\ r[i] = rec[i]) \/ r[i] = 0
    BY <1>1, <1>2
  <1>5. ASSUME NEW i \in DOMAIN r, NEW j \in DOMAIN r, i < j, r[i] # 0, r[j] # 0
        PROVE  r[i] < r[j]
    BY <1>4, <1>5 DEF InOrder
  <1>6. ASSUME NEW i \in DOMAIN r, NEW j \in DOMAIN b PROVE r[i] < b[j]
    BY <1>3, <1>4 DEF InOrder
  <1> QED BY <1>5, <1>6 DEF InOrder, r

\* a newer frame that begins to wait,
LEMMA WaitLast ==
  ASSUME NEW rec \in Seq(Nat), NEW b \in Seq(Nat), InOrder(rec, b), NEW n \in Nat,
         \A i \in DOMAIN rec : rec[i] < n, \A i \in DOMAIN b : b[i] < n
  PROVE  InOrder(rec, Append(b, n))
  <1> DEFINE w == Append(b, n)
  <1>1. /\ DOMAIN w = 1..(Len(b) + 1) /\ DOMAIN b = 1..Len(b) /\ Len(b) \in Nat
        /\ \A i \in 1..Len(b) : w[i] = b[i]
        /\ w[Len(b) + 1] = n
    BY Back
  <1> HIDE DEF w
  <1>2. \A i \in DOMAIN w : (i \in DOMAIN b /\ w[i] = b[i]) \/ (i = Len(b) + 1 /\ w[i] = n)
    BY <1>1
  <1>3. ASSUME NEW i \in DOMAIN w, NEW j \in DOMAIN w, i < j PROVE w[i] < w[j]
    BY <1>1, <1>2, <1>3 DEF InOrder
  <1>4. ASSUME NEW i \in DOMAIN rec, NEW j \in DOMAIN w PROVE rec[i] < w[j]
    BY <1>2 DEF InOrder
  <1> QED BY <1>3, <1>4 DEF InOrder, w

\* and the loss of the oldest.
LEMMA DropFirst ==
  ASSUME NEW rec \in Seq(Nat), NEW b \in Seq(Nat), b # <<>>, InOrder(rec, b)
  PROVE  InOrder(rec, Tail(b))
  <1> DEFINE w == Tail(b)
  <1>1. /\ Len(b) \in Nat \ {0} /\ DOMAIN b = 1..Len(b)
        /\ DOMAIN w = 1..(Len(b) - 1)
        /\ \A i \in 1..(Len(b) - 1) : w[i] = b[i + 1]
    BY Front
  <1> HIDE DEF w
  <1>2. \A i \in DOMAIN w : i + 1 \in DOMAIN b /\ w[i] = b[i + 1]
    BY <1>1
  <1>3. ASSUME NEW i \in DOMAIN w, NEW j \in DOMAIN w, i < j PROVE w[i] < w[j]
    <2>1. i + 1 < j + 1
      BY <1>1, <1>3
    <2> QED BY <1>2, <2>1 DEF InOrder
  <1>4. ASSUME NEW i \in DOMAIN rec, NEW j \in DOMAIN w PROVE rec[i] < w[j]
    BY <1>2 DEF InOrder
  <1> QED BY <1>3, <1>4 DEF InOrder, w

-----------------------------------------------------------------------------
(* The caller's frames and the caller's own recording *)

\* What SidesAgree says of recorded and waiting numbers and the own recording.
Sides(rec, waiting, only) ==
  /\ Range(rec) \ {0} \subseteq Range(only)
  /\ \A i \in DOMAIN waiting : waiting[i] \in Range(only) => i = 1

\* A frame written to both recordings is waiting no more,
LEMMA WriteBoth ==
  ASSUME NEW rec \in Seq(Nat), NEW w \in Seq(Nat \ {0}), NEW only \in Seq(Nat), w # <<>>,
         InOrder(rec, w), Sides(rec, w, only)
  PROVE  Sides(Append(rec, w[1]), Tail(w), Append(only, w[1]))
  <1>0. w \in Seq(Nat)
    OBVIOUS
  <1>1. /\ Len(w) \in Nat \ {0} /\ DOMAIN w = 1..Len(w) /\ w[1] \in Nat
        /\ DOMAIN Tail(w) = 1..(Len(w) - 1)
        /\ \A i \in 1..(Len(w) - 1) : Tail(w)[i] = w[i + 1]
    BY <1>0, Front
  <1>2. /\ Range(Append(rec, w[1])) = Range(rec) \cup {w[1]}
        /\ Range(Append(only, w[1])) = Range(only) \cup {w[1]}
    <2>1. ASSUME NEW e \in Nat
          PROVE  /\ Range(Append(rec, e)) = Range(rec) \cup {e}
                 /\ Range(Append(only, e)) = Range(only) \cup {e}
      BY BackValues
    <2> QED BY <1>1, <2>1
  <1>3. ASSUME NEW i \in DOMAIN Tail(w) PROVE Tail(w)[i] \notin Range(only) \cup {w[1]}
    <2>1. i + 1 \in DOMAIN w /\ 1 \in DOMAIN w /\ 1 < i + 1 /\ Tail(w)[i] = w[i + 1]
      BY <1>1
    <2>2. w[1] < w[i + 1]
      BY <2>1 DEF InOrder
    <2>3. w[1] # w[i + 1]
      BY <1>0, <2>1, <2>2
    <2> QED BY <2>1, <2>3 DEF Sides
  <1> QED BY <1>2, <1>3 DEF Sides

\* one written to the own recording only is the first one waiting,
LEMMA WriteOnly ==
  ASSUME NEW rec \in Seq(Nat), NEW w \in Seq(Nat \ {0}), NEW only \in Seq(Nat), w # <<>>,
         InOrder(rec, w), Sides(rec, w, only)
  PROVE  Sides(Append(rec, 0), w, Append(only, w[1]))
  <1>0. w \in Seq(Nat)
    OBVIOUS
  <1>1. Len(w) \in Nat \ {0} /\ DOMAIN w = 1..Len(w) /\ w[1] \in Nat
    BY <1>0, Front
  <1>2. /\ Range(Append(rec, 0)) = Range(rec) \cup {0}
        /\ Range(Append(only, w[1])) = Range(only) \cup {w[1]}
    BY <1>1, BackValues
  <1>3. ASSUME NEW i \in DOMAIN w, w[i] = w[1] PROVE i = 1
    <2>1. 1 \in DOMAIN w /\ (i = 1 \/ 1 < i)
      BY <1>1
    <2>2. 1 < i => w[1] < w[i]
      BY <2>1 DEF InOrder
    <2> QED BY <1>0, <1>3, <2>1, <2>2
  <1> QED BY <1>2, <1>3 DEF Sides

\* all are written to both,
LEMMA WriteAll ==
  ASSUME NEW rec \in Seq(Nat), NEW w \in Seq(Nat), NEW only \in Seq(Nat), Sides(rec, w, only)
  PROVE  Sides(rec \o w, <<>>, only \o w)
  <1>1. /\ Range(rec \o w) = Range(rec) \cup Range(w)
        /\ Range(only \o w) = Range(only) \cup Range(w)
    BY JoinedValues
  <1> QED BY <1>1 DEF Sides

\* none is written,
LEMMA WriteOthers ==
  ASSUME NEW rec \in Seq(Nat), NEW w \in Seq(Nat), NEW only \in Seq(Nat), Sides(rec, w, only),
         NEW z \in Seq(Nat), \A i \in DOMAIN z : z[i] = 0
  PROVE  Sides(rec \o z, w, only)
  <1>1. Range(rec \o z) = Range(rec) \cup Range(z)
    BY JoinedValues
  <1>2. Range(z) \subseteq {0}
    BY DEF Range
  <1> QED BY <1>1, <1>2 DEF Sides

\* a new one waits,
LEMMA WriteNone ==
  ASSUME NEW rec, NEW w \in Seq(Nat), NEW only, Sides(rec, w, only),
         NEW n \in Nat, n \notin Range(only)
  PROVE  Sides(rec, Append(w, n), only)
  <1>1. /\ DOMAIN Append(w, n) = 1..(Len(w) + 1) /\ DOMAIN w = 1..Len(w) /\ Len(w) \in Nat
        /\ \A i \in 1..Len(w) : Append(w, n)[i] = w[i]
        /\ Append(w, n)[Len(w) + 1] = n
    BY Back
  <1>2. ASSUME NEW i \in DOMAIN Append(w, n), Append(w, n)[i] \in Range(only) PROVE i = 1
    <2>1. i \in DOMAIN w /\ Append(w, n)[i] = w[i]
      BY <1>1, <1>2
    <2> QED BY <1>2, <2>1 DEF Sides
  <1> QED BY <1>2 DEF Sides

\* or the first one is dropped.
LEMMA DropSides ==
  ASSUME NEW rec, NEW w \in Seq(Nat), w # <<>>, NEW only, Sides(rec, w, only)
  PROVE  Sides(rec, Tail(w), only)
  <1>1. /\ Len(w) \in Nat \ {0} /\ DOMAIN w = 1..Len(w)
        /\ DOMAIN Tail(w) = 1..(Len(w) - 1)
        /\ \A i \in 1..(Len(w) - 1) : Tail(w)[i] = w[i + 1]
    BY Front
  <1>2. ASSUME NEW i \in DOMAIN Tail(w) PROVE Tail(w)[i] \notin Range(only)
    <2>1. i + 1 \in DOMAIN w /\ i + 1 # 1 /\ Tail(w)[i] = w[i + 1]
      BY <1>1
    <2> QED BY <2>1 DEF Sides
  <1> QED BY <1>2 DEF Sides

-----------------------------------------------------------------------------
(* The mixer *)

\* Sequences of numbers are the same when their elements are.
LEMMA SameSeq ==
  ASSUME NEW x \in Seq(Nat), NEW y \in Seq(Nat), NEW n \in Nat,
         Len(x) = n, Len(y) = n, \A i \in 1..n : x[i] = y[i]
  PROVE  x = y
  OBVIOUS

\* The numbers of the waiting frames.
LEMMA NumbersFacts ==
  ASSUME NEW s \in Streams, NEW b \in Seq(Pending(s))
  PROVE  /\ Numbers(b) \in Seq(Nat \ {0}) /\ Numbers(b) \in Seq(Nat)
         /\ Len(Numbers(b)) = Len(b) /\ DOMAIN Numbers(b) = DOMAIN b
         /\ \A i \in DOMAIN b : b[i].n \in 1..MaxFrames[s] /\ Numbers(b)[i] = b[i].n
         /\ \A f \in Pending(s) : Numbers(Append(b, f)) = Append(Numbers(b), f.n)
         /\ b # <<>> => Numbers(b) # <<>> /\ Numbers(Tail(b)) = Tail(Numbers(b))
  <1>0. MaxFrames[s] \in Nat
    BY ARAssumption
  <1>1. ASSUME NEW q \in Seq(Pending(s))
        PROVE  /\ Len(q) \in Nat /\ DOMAIN q = 1..Len(q)
               /\ Numbers(q) \in Seq(Nat \ {0}) /\ Numbers(q) \in Seq(Nat)
               /\ Len(Numbers(q)) = Len(q) /\ DOMAIN Numbers(q) = 1..Len(q)
               /\ \A i \in 1..Len(q) : q[i].n \in 1..MaxFrames[s] /\ Numbers(q)[i] = q[i].n
    <2>1. /\ Len(q) \in Nat /\ DOMAIN q = 1..Len(q) /\ \A i \in DOMAIN q : q[i] \in Pending(s)
      OBVIOUS
    <2>2. \A i \in 1..Len(q) : q[i].n \in 1..MaxFrames[s]
      BY <2>1 DEF Pending
    <2>3. Numbers(q) = [i \in 1..Len(q) |-> q[i].n]
      BY <2>1 DEF Numbers
    <2>4. \A i \in 1..Len(q) : q[i].n \in Nat \ {0}
      BY <1>0, <2>1, <2>2
    <2> QED BY <2>1, <2>2, <2>3, <2>4
  <1>2. ASSUME NEW f \in Pending(s) PROVE Numbers(Append(b, f)) = Append(Numbers(b), f.n)
    <2>1. f.n \in Nat
      BY <1>0 DEF Pending
    <2> DEFINE c == Append(b, f)
               x == Numbers(c)
               N == Numbers(b)
               y == Append(N, f.n)
               k == Len(b)
    <2>2. /\ c \in Seq(Pending(s)) /\ Len(c) = k + 1 /\ \A i \in 1..k : c[i] = b[i]
          /\ c[k + 1] = f /\ k \in Nat
      BY Back
    <2>3. N \in Seq(Nat) /\ Len(N) = k /\ \A i \in 1..k : N[i] = b[i].n
      BY <1>1
    <2> HIDE DEF c, k, N
    <2>4. x \in Seq(Nat) /\ Len(x) = k + 1 /\ \A i \in 1..(k + 1) : x[i] = c[i].n
      BY <1>1, <2>2
    <2>5. /\ y \in Seq(Nat) /\ Len(y) = k + 1 /\ \A i \in 1..k : y[i] = N[i]
          /\ y[k + 1] = f.n
      BY <2>1, <2>2, <2>3, Back
    <2> HIDE DEF x, y
    <2>6. ASSUME NEW i \in 1..(k + 1) PROVE x[i] = y[i]
      <3>1. CASE i \in 1..k
        BY <2>2, <2>3, <2>4, <2>5, <3>1
      <3>2. CASE i = k + 1
        BY <2>2, <2>4, <2>5, <3>2
      <3> QED BY <2>2, <3>1, <3>2
    <2>7. x = y
      BY <2>2, <2>4, <2>5, <2>6, SameSeq
    <2> QED BY <2>7 DEF c, x, y, N
  <1>3. ASSUME b # <<>> PROVE Numbers(b) # <<>> /\ Numbers(Tail(b)) = Tail(Numbers(b))
    <2> DEFINE c == Tail(b)
               x == Numbers(c)
               N == Numbers(b)
               y == Tail(N)
               k == Len(b)
    <2>1. /\ c \in Seq(Pending(s)) /\ Len(c) = k - 1 /\ k \in Nat \ {0}
          /\ \A i \in 1..(k - 1) : c[i] = b[i + 1]
      BY <1>3, Front
    <2>2. N \in Seq(Nat) /\ Len(N) = k /\ \A i \in 1..k : N[i] = b[i].n
      BY <1>1
    <2> HIDE DEF c, k, N
    <2>3. N # <<>>
      BY <2>1, <2>2
    <2>4. x \in Seq(Nat) /\ Len(x) = k - 1 /\ \A i \in 1..(k - 1) : x[i] = c[i].n
      BY <1>1, <2>1
    <2>5. y \in Seq(Nat) /\ Len(y) = k - 1 /\ \A i \in 1..(k - 1) : y[i] = N[i + 1]
      BY <2>2, <2>3, Front
    <2> HIDE DEF x, y
    <2>6. ASSUME NEW i \in 1..(k - 1) PROVE x[i] = y[i]
      <3>1. i + 1 \in 1..k
        BY <2>1
      <3> QED BY <2>1, <2>2, <2>4, <2>5, <3>1
    <2>7. x = y
      BY <2>1, <2>4, <2>5, <2>6, SameSeq
    <2> QED BY <2>3, <2>7 DEF c, x, y, N
  <1> QED BY <1>1, <1>2, <1>3

\* The entries of a stream in the mixed recording.
LEMMA ColumnFacts ==
  ASSUME NEW o \in Seq(Entry)
  PROVE  /\ AgentColumn(o) \in Seq(Nat) /\ UserColumn(o) \in Seq(Nat)
         /\ \A e \in Entry : /\ AgentColumn(Append(o, e)) = Append(AgentColumn(o), e.agent)
                             /\ UserColumn(Append(o, e)) = Append(UserColumn(o), e.user)
         /\ \A r \in Seq(Entry) : /\ AgentColumn(o \o r) = AgentColumn(o) \o AgentColumn(r)
                                  /\ UserColumn(o \o r) = UserColumn(o) \o UserColumn(r)
  <1>0. /\ \A e \in Entry : e.agent \in Nat /\ e.user \in Nat
    BY ARAssumption DEF Entry, Streams
  <1>1. ASSUME NEW q \in Seq(Entry)
        PROVE  /\ AgentColumn(q) \in Seq(Nat) /\ UserColumn(q) \in Seq(Nat)
               /\ Len(AgentColumn(q)) = Len(q) /\ Len(UserColumn(q)) = Len(q)
               /\ Len(q) \in Nat /\ DOMAIN q = 1..Len(q)
               /\ \A i \in 1..Len(q) : AgentColumn(q)[i] = q[i].agent /\ UserColumn(q)[i] = q[i].user
    <2>1. Len(q) \in Nat /\ DOMAIN q = 1..Len(q) /\ \A i \in 1..Len(q) : q[i] \in Entry
      OBVIOUS
    <2>2. \A i \in 1..Len(q) : q[i].agent \in Nat /\ q[i].user \in Nat
      BY <1>0, <2>1
    <2> QED BY <2>1, <2>2 DEF AgentColumn, UserColumn
  <1>2. ASSUME NEW e \in Entry
        PROVE  /\ AgentColumn(Append(o, e)) = Append(AgentColumn(o), e.agent)
               /\ UserColumn(Append(o, e)) = Append(UserColumn(o), e.user)
    <2> DEFINE c == Append(o, e)
               k == Len(o)
    <2>1. /\ c \in Seq(Entry) /\ Len(c) = k + 1 /\ \A i \in 1..k : c[i] = o[i]
          /\ c[k + 1] = e /\ k \in Nat
      BY Back
    <2> HIDE DEF c, k
    <2>2. AgentColumn(c) = Append(AgentColumn(o), e.agent)
      <3> DEFINE x == AgentColumn(c)
                 z == AgentColumn(o)
                 y == Append(z, e.agent)
      <3>1. z \in Seq(Nat) /\ Len(z) = k /\ \A i \in 1..k : z[i] = o[i].agent
        BY <1>1 DEF k
      <3>2. x \in Seq(Nat) /\ Len(x) = k + 1 /\ \A i \in 1..(k + 1) : x[i] = c[i].agent
        BY <1>1, <2>1
      <3> HIDE DEF z
      <3>3. /\ y \in Seq(Nat) /\ Len(y) = k + 1 /\ \A i \in 1..k : y[i] = z[i]
            /\ y[k + 1] = e.agent
        BY <1>0, <3>1, Back
      <3> HIDE DEF x, y
      <3>4. ASSUME NEW i \in 1..(k + 1) PROVE x[i] = y[i]
        <4>1. CASE i \in 1..k
          BY <2>1, <3>1, <3>2, <3>3, <4>1
        <4>2. CASE i = k + 1
          BY <2>1, <3>2, <3>3, <4>2
        <4> QED BY <2>1, <4>1, <4>2
      <3>5. /\ x \in Seq(Nat) /\ y \in Seq(Nat) /\ k + 1 \in Nat
            /\ Len(x) = k + 1 /\ Len(y) = k + 1
        BY <2>1, <3>2, <3>3
      <3>6. x = y
        BY <3>4, <3>5, SameSeq
      <3> QED BY <3>6 DEF x, y, z
    <2>3. UserColumn(c) = Append(UserColumn(o), e.user)
      <3> DEFINE x == UserColumn(c)
                 z == UserColumn(o)
                 y == Append(z, e.user)
      <3>1. z \in Seq(Nat) /\ Len(z) = k /\ \A i \in 1..k : z[i] = o[i].user
        BY <1>1 DEF k
      <3>2. x \in Seq(Nat) /\ Len(x) = k + 1 /\ \A i \in 1..(k + 1) : x[i] = c[i].user
        BY <1>1, <2>1
      <3> HIDE DEF z
      <3>3. /\ y \in Seq(Nat) /\ Len(y) = k + 1 /\ \A i \in 1..k : y[i] = z[i]
            /\ y[k + 1] = e.user
        BY <1>0, <3>1, Back
      <3> HIDE DEF x, y
      <3>4. ASSUME NEW i \in 1..(k + 1) PROVE x[i] = y[i]
        <4>1. CASE i \in 1..k
          BY <2>1, <3>1, <3>2, <3>3, <4>1
        <4>2. CASE i = k + 1
          BY <2>1, <3>2, <3>3, <4>2
        <4> QED BY <2>1, <4>1, <4>2
      <3>5. /\ x \in Seq(Nat) /\ y \in Seq(Nat) /\ k + 1 \in Nat
            /\ Len(x) = k + 1 /\ Len(y) = k + 1
        BY <2>1, <3>2, <3>3
      <3>6. x = y
        BY <3>4, <3>5, SameSeq
      <3> QED BY <3>6 DEF x, y, z
    <2> QED BY <2>2, <2>3 DEF c
  <1>3. ASSUME NEW r \in Seq(Entry)
        PROVE  /\ AgentColumn(o \o r) = AgentColumn(o) \o AgentColumn(r)
               /\ UserColumn(o \o r) = UserColumn(o) \o UserColumn(r)
    <2> DEFINE c == o \o r
               k == Len(o)
               l == Len(r)
    <2>1. /\ c \in Seq(Entry) /\ Len(c) = k + l /\ k \in Nat /\ l \in Nat
          /\ \A i \in 1..k : c[i] = o[i]
          /\ \A i \in 1..l : c[k + i] = r[i]
      BY Joined
    <2> HIDE DEF c, k, l
    <2>2. AgentColumn(c) = AgentColumn(o) \o AgentColumn(r)
      <3> DEFINE x == AgentColumn(c)
                 z == AgentColumn(o)
                 w == AgentColumn(r)
                 y == z \o w
      <3>1. /\ z \in Seq(Nat) /\ Len(z) = k /\ \A i \in 1..k : z[i] = o[i].agent
            /\ w \in Seq(Nat) /\ Len(w) = l /\ \A i \in 1..l : w[i] = r[i].agent
        BY <1>1 DEF k, l
      <3>2. x \in Seq(Nat) /\ Len(x) = k + l /\ \A i \in 1..(k + l) : x[i] = c[i].agent
        BY <1>1, <2>1
      <3> HIDE DEF z, w
      <3>3. /\ y \in Seq(Nat) /\ Len(y) = k + l /\ \A i \in 1..k : y[i] = z[i]
            /\ \A i \in 1..l : y[k + i] = w[i]
        <4>0. z \in Seq(Nat) /\ w \in Seq(Nat)
          BY <3>1
        <4>1. /\ y \in Seq(Nat) /\ Len(y) = Len(z) + Len(w)
              /\ \A i \in 1..Len(z) : y[i] = z[i]
              /\ \A i \in 1..Len(w) : y[Len(z) + i] = w[i]
          BY <4>0, Joined
        <4> HIDE DEF y
        <4> QED BY <3>1, <4>1
      <3> HIDE DEF x, y
      <3>4. ASSUME NEW i \in 1..(k + l) PROVE x[i] = y[i]
        <4>1. CASE i \in 1..k
          <5>1. c[i] = o[i]
            BY <2>1, <4>1
          <5>2. y[i] = z[i] /\ z[i] = o[i].agent
            BY <3>1, <3>3, <4>1
          <5>3. x[i] = c[i].agent
            BY <3>2
          <5> QED BY <5>1, <5>2, <5>3
        <4>2. CASE i > k
          <5>1. i - k \in 1..l /\ i = k + (i - k)
            BY <2>1, <4>2
          <5>2. c[i] = r[i - k] /\ y[i] = w[i - k]
            BY <2>1, <3>3, <5>1
          <5> QED BY <3>1, <3>2, <5>1, <5>2
        <4> QED BY <2>1, <4>1, <4>2
      <3>5. /\ x \in Seq(Nat) /\ y \in Seq(Nat) /\ k + l \in Nat
            /\ Len(x) = k + l /\ Len(y) = k + l
        BY <2>1, <3>2, <3>3
      <3>6. x = y
        BY <3>4, <3>5, SameSeq
      <3> QED BY <3>6 DEF x, y, z, w
    <2>3. UserColumn(c) = UserColumn(o) \o UserColumn(r)
      <3> DEFINE x == UserColumn(c)
                 z == UserColumn(o)
                 w == UserColumn(r)
                 y == z \o w
      <3>1. /\ z \in Seq(Nat) /\ Len(z) = k /\ \A i \in 1..k : z[i] = o[i].user
            /\ w \in Seq(Nat) /\ Len(w) = l /\ \A i \in 1..l : w[i] = r[i].user
        BY <1>1 DEF k, l
      <3>2. x \in Seq(Nat) /\ Len(x) = k + l /\ \A i \in 1..(k + l) : x[i] = c[i].user
        BY <1>1, <2>1
      <3> HIDE DEF z, w
      <3>3. /\ y \in Seq(Nat) /\ Len(y) = k + l /\ \A i \in 1..k : y[i] = z[i]
            /\ \A i \in 1..l : y[k + i] = w[i]
        <4>0. z \in Seq(Nat) /\ w \in Seq(Nat)
          BY <3>1
        <4>1. /\ y \in Seq(Nat) /\ Len(y) = Len(z) + Len(w)
              /\ \A i \in 1..Len(z) : y[i] = z[i]
              /\ \A i \in 1..Len(w) : y[Len(z) + i] = w[i]
          BY <4>0, Joined
        <4> HIDE DEF y
        <4> QED BY <3>1, <4>1
      <3> HIDE DEF x, y
      <3>4. ASSUME NEW i \in 1..(k + l) PROVE x[i] = y[i]
        <4>1. CASE i \in 1..k
          <5>1. c[i] = o[i]
            BY <2>1, <4>1
          <5>2. y[i] = z[i] /\ z[i] = o[i].user
            BY <3>1, <3>3, <4>1
          <5>3. x[i] = c[i].user
            BY <3>2
          <5> QED BY <5>1, <5>2, <5>3
        <4>2. CASE i > k
          <5>1. i - k \in 1..l /\ i = k + (i - k)
            BY <2>1, <4>2
          <5>2. c[i] = r[i - k] /\ y[i] = w[i - k]
            BY <2>1, <3>3, <5>1
          <5> QED BY <3>1, <3>2, <5>1, <5>2
        <4> QED BY <2>1, <4>1, <4>2
      <3>5. /\ x \in Seq(Nat) /\ y \in Seq(Nat) /\ k + l \in Nat
            /\ Len(x) = k + l /\ Len(y) = k + l
        BY <2>1, <3>2, <3>3
      <3>6. x = y
        BY <3>4, <3>5, SameSeq
      <3> QED BY <3>6 DEF x, y, z, w
    <2> QED BY <2>2, <2>3 DEF c
  <1> QED BY <1>1, <1>2, <1>3

\* What holds of a mixer between two operations, and between two iterations.
Sound(m) ==
  /\ m \in Mixer
  /\ Len(m.agent_buffer) <= MAX_BUFFER_SIZE /\ Len(m.user_buffer) <= MAX_BUFFER_SIZE
  /\ InOrder(AgentColumn(m.audio_buffer), Numbers(m.agent_buffer))
  /\ InOrder(UserColumn(m.audio_buffer), Numbers(m.user_buffer))
  /\ Sides(UserColumn(m.audio_buffer), Numbers(m.user_buffer), m.user_only_buffer)

\* No frame of m is lost or invented on the way to w.
Kept(m, w) ==
  /\ AgentTrail(w) = AgentTrail(m) /\ UserTrail(w) = UserTrail(m)
  /\ Range(w.user_only_buffer) \subseteq Range(m.user_only_buffer) \cup UserTrail(m)

\* The fields of a mixer.
LEMMA Fields ==
  ASSUME NEW m \in Mixer
  PROVE  /\ m.agent_buffer \in Seq(Pending("agent")) /\ m.user_buffer \in Seq(Pending("user"))
         /\ m.audio_buffer \in Seq(Entry) /\ m.user_only_buffer \in Seq(1..MaxFrames["user"])
         /\ m.user_only_buffer \in Seq(Nat)
         /\ m.agent_silence_count \in Nat /\ m.agent_stream_active \in BOOLEAN
         /\ m.user_stream_active \in BOOLEAN /\ m.last_agent_frame \in 0..MaxTime
  <1>1. m.user_only_buffer \in Seq(1..MaxFrames["user"])
    BY DEF Mixer
  <1>2. m.user_only_buffer \in Seq(Nat)
    <2> DEFINE s == m.user_only_buffer
               S == 1..MaxFrames["user"]
    <2>1. s \in Seq(S) /\ \A i \in S : i \in Nat
      BY <1>1
    <2> HIDE DEF s, S
    <2>2. s \in Seq(Nat)
      BY <2>1
    <2> QED BY <2>2 DEF s
  <1> QED BY <1>1, <1>2 DEF Mixer

\* What the lists of a mixer are as numbers.
LEMMA Lists ==
  ASSUME NEW m \in Mixer
  PROVE  /\ AgentColumn(m.audio_buffer) \in Seq(Nat) /\ UserColumn(m.audio_buffer) \in Seq(Nat)
         /\ Numbers(m.agent_buffer) \in Seq(Nat \ {0}) /\ Numbers(m.agent_buffer) \in Seq(Nat)
         /\ Numbers(m.user_buffer) \in Seq(Nat \ {0}) /\ Numbers(m.user_buffer) \in Seq(Nat)
         /\ Len(Numbers(m.agent_buffer)) = Len(m.agent_buffer)
         /\ Len(Numbers(m.user_buffer)) = Len(m.user_buffer)
  BY Fields, NumbersFacts, ColumnFacts DEF Streams

\* An entry of the mixed recording.
LEMMA Entries ==
  /\ \A f \in Pending("agent") : /\ AgentAlone(f) \in Entry
                                 /\ AgentAlone(f).agent = f.n /\ AgentAlone(f).user = 0
  /\ \A f \in Pending("user") : /\ UserAlone(f) \in Entry
                                /\ UserAlone(f).agent = 0 /\ UserAlone(f).user = f.n
  /\ \A f \in Pending("agent"), g \in Pending("user") :
       Both(f, g) \in Entry /\ Both(f, g).agent = f.n /\ Both(f, g).user = g.n
  <1>1. MaxFrames["agent"] \in Nat /\ MaxFrames["user"] \in Nat
    BY ARAssumption DEF Streams
  <1>2. \A f \in Pending("agent") : f.n \in 0..MaxFrames["agent"]
    BY <1>1 DEF Pending
  <1>3. \A f \in Pending("user") : f.n \in 0..MaxFrames["user"]
    BY <1>1 DEF Pending
  <1>4. 0 \in 0..MaxFrames["agent"] /\ 0 \in 0..MaxFrames["user"]
    BY <1>1
  <1> QED BY <1>2, <1>3, <1>4 DEF Entry, AgentAlone, UserAlone, Both

\* Activity and the time of the agent's last frame are the same.
SameFlags(m, w) ==
  /\ w.agent_stream_active = m.agent_stream_active /\ w.user_stream_active = m.user_stream_active
  /\ w.last_agent_frame = m.last_agent_frame

\* The four lists after an iteration, and which frames were too far apart.
LEMMA MixFrontLists ==
  ASSUME NEW m \in Mixer, BothPending(m)
  PROVE  LET w == MixFront(m)
             a == m.agent_buffer
             u == m.user_buffer
         IN /\ w \in Mixer
            /\ w.user_only_buffer = Append(m.user_only_buffer, u[1].n)
            /\ SameFlags(m, w)
            /\ \/ /\ a[1].t - u[1].t > SYNC
                  /\ w.audio_buffer = Append(m.audio_buffer, UserAlone(u[1]))
                  /\ w.agent_buffer = a /\ w.user_buffer = Tail(u)
               \/ /\ u[1].t - a[1].t > SYNC
                  /\ w.audio_buffer = Append(m.audio_buffer, AgentAlone(a[1]))
                  /\ w.agent_buffer = Tail(a) /\ w.user_buffer = u
               \/ /\ ~(a[1].t - u[1].t > SYNC) /\ ~(u[1].t - a[1].t > SYNC)
                  /\ w.audio_buffer = Append(m.audio_buffer, Both(a[1], u[1]))
                  /\ w.agent_buffer = Tail(a) /\ w.user_buffer = Tail(u)
  <1> DEFINE a == m.agent_buffer
             u == m.user_buffer
             v == [m EXCEPT !.user_only_buffer = Append(@, u[1].n)]
             w == MixFront(m)
  <1>1. /\ a \in Seq(Pending("agent")) /\ u \in Seq(Pending("user"))
        /\ m.audio_buffer \in Seq(Entry) /\ m.user_only_buffer \in Seq(1..MaxFrames["user"])
        /\ a # <<>> /\ u # <<>>
    BY Fields DEF BothPending
  <1>2. /\ Head(a) = a[1] /\ a[1] \in Pending("agent") /\ Tail(a) \in Seq(Pending("agent"))
        /\ Head(u) = u[1] /\ u[1] \in Pending("user") /\ Tail(u) \in Seq(Pending("user"))
    BY <1>1, Front
  <1>3. u[1].n \in 1..MaxFrames["user"]
    BY <1>2 DEF Pending
  <1>4. Append(m.user_only_buffer, u[1].n) \in Seq(1..MaxFrames["user"])
    BY <1>1, <1>3
  <1>5. /\ v \in Mixer /\ v.user_only_buffer = Append(m.user_only_buffer, u[1].n)
        /\ v.agent_buffer = a /\ v.user_buffer = u /\ v.audio_buffer = m.audio_buffer
        /\ SameFlags(m, v)
    BY <1>4 DEF Mixer, SameFlags
  <1>6. \/ /\ a[1].t - u[1].t > SYNC
           /\ w = [v EXCEPT !.audio_buffer = Append(@, UserAlone(u[1])), !.user_buffer = Tail(@)]
        \/ /\ u[1].t - a[1].t > SYNC
           /\ w = [v EXCEPT !.audio_buffer = Append(@, AgentAlone(a[1])), !.agent_buffer = Tail(@)]
        \/ /\ ~(a[1].t - u[1].t > SYNC) /\ ~(u[1].t - a[1].t > SYNC)
           /\ w = [v EXCEPT !.audio_buffer = Append(@, Both(a[1], u[1])),
                            !.agent_buffer = Tail(@), !.user_buffer = Tail(@)]
    BY <1>2 DEF MixFront
  <1>7. /\ Append(v.audio_buffer, UserAlone(u[1])) \in Seq(Entry)
        /\ Append(v.audio_buffer, AgentAlone(a[1])) \in Seq(Entry)
        /\ Append(v.audio_buffer, Both(a[1], u[1])) \in Seq(Entry)
    BY <1>1, <1>2, <1>5, Entries
  <1> HIDE DEF v, w, a, u
  <1>8. CASE /\ a[1].t - u[1].t > SYNC
             /\ w = [v EXCEPT !.audio_buffer = Append(@, UserAlone(u[1])), !.user_buffer = Tail(@)]
    <2>1. w \in Mixer
      BY <1>2, <1>5, <1>7, <1>8 DEF Mixer
    <2>2. /\ w.audio_buffer = Append(v.audio_buffer, UserAlone(u[1])) /\ w.user_buffer = Tail(u)
          /\ w.agent_buffer = a /\ w.user_only_buffer = v.user_only_buffer
      BY <1>5, <1>8 DEF Mixer
    <2>3. SameFlags(m, w)
      BY <1>5, <1>8 DEF Mixer, SameFlags
    <2> QED BY <1>5, <1>8, <2>1, <2>2, <2>3 DEF a, u, w
  <1>9. CASE /\ u[1].t - a[1].t > SYNC
             /\ w = [v EXCEPT !.audio_buffer = Append(@, AgentAlone(a[1])), !.agent_buffer = Tail(@)]
    <2>1. w \in Mixer
      BY <1>2, <1>5, <1>7, <1>9 DEF Mixer
    <2>2. /\ w.audio_buffer = Append(v.audio_buffer, AgentAlone(a[1])) /\ w.user_buffer = u
          /\ w.agent_buffer = Tail(a) /\ w.user_only_buffer = v.user_only_buffer
      BY <1>5, <1>9 DEF Mixer
    <2>3. SameFlags(m, w)
      BY <1>5, <1>9 DEF Mixer, SameFlags
    <2> QED BY <1>5, <1>9, <2>1, <2>2, <2>3 DEF a, u, w
  <1>10. CASE /\ ~(a[1].t - u[1].t > SYNC) /\ ~(u[1].t - a[1].t > SYNC)
              /\ w = [v EXCEPT !.audio_buffer = Append(@, Both(a[1], u[1])),
                               !.agent_buffer = Tail(@), !.user_buffer = Tail(@)]
    <2>1. w \in Mixer
      BY <1>2, <1>5, <1>7, <1>10 DEF Mixer
    <2>2. /\ w.audio_buffer = Append(v.audio_buffer, Both(a[1], u[1])) /\ w.user_buffer = Tail(u)
          /\ w.agent_buffer = Tail(a) /\ w.user_only_buffer = v.user_only_buffer
      BY <1>5, <1>10 DEF Mixer
    <2>3. SameFlags(m, w)
      BY <1>5, <1>10 DEF Mixer, SameFlags
    <2> QED BY <1>5, <1>10, <2>1, <2>2, <2>3 DEF a, u, w
  <1> QED BY <1>6, <1>8, <1>9, <1>10

\* How many frames are waiting.
Waiting(m) == Len(m.agent_buffer) + Len(m.user_buffer)

\* When none is, the loop ends.
LEMMA WaitingFacts ==
  ASSUME NEW m, Sound(m)
  PROVE  Waiting(m) \in Nat /\ (Waiting(m) = 0 => ~BothPending(m))
  <1>1. m.agent_buffer \in Seq(Pending("agent")) /\ m.user_buffer \in Seq(Pending("user"))
    BY Fields DEF Sound
  <1>2. Len(m.agent_buffer) \in Nat /\ Len(m.user_buffer) \in Nat
    BY <1>1
  <1>3. Len(m.agent_buffer) = 0 => m.agent_buffer = <<>>
    BY <1>1
  <1>4. Len(m.agent_buffer) = 0 => ~BothPending(m)
    BY <1>3 DEF BothPending
  <1>5. Waiting(m) \in Nat /\ (Waiting(m) = 0 => Len(m.agent_buffer) = 0)
    <2> DEFINE p == Len(m.agent_buffer)
               q == Len(m.user_buffer)
    <2>1. p \in Nat /\ q \in Nat /\ Waiting(m) = p + q
      BY <1>2 DEF Waiting
    <2> HIDE DEF p, q
    <2>2. Waiting(m) \in Nat /\ (Waiting(m) = 0 => p = 0)
      BY <2>1
    <2> QED BY <2>2 DEF p
  <1> QED BY <1>4, <1>5

\* An iteration of the loop keeps the mixer sound, loses no frame, and removes
\* one from a buffer.
LEMMA MixFrontSound ==
  ASSUME NEW m, Sound(m), BothPending(m)
  PROVE  Sound(MixFront(m)) /\ Kept(m, MixFront(m)) /\ Waiting(MixFront(m)) < Waiting(m)
  <1> DEFINE w == MixFront(m)
             a == m.agent_buffer
             u == m.user_buffer
             ac == AgentColumn(m.audio_buffer)
             uc == UserColumn(m.audio_buffer)
             an == Numbers(a)
             un == Numbers(u)
             y == m.user_only_buffer
  <1>1. /\ m \in Mixer /\ a \in Seq(Pending("agent")) /\ u \in Seq(Pending("user"))
        /\ m.audio_buffer \in Seq(Entry) /\ y \in Seq(Nat) /\ a # <<>> /\ u # <<>>
    BY Fields DEF BothPending, Sound
  <1>2. /\ ac \in Seq(Nat) /\ uc \in Seq(Nat)
        /\ an \in Seq(Nat \ {0}) /\ un \in Seq(Nat \ {0}) /\ an \in Seq(Nat) /\ un \in Seq(Nat)
    BY <1>1, Lists
  <1>3. /\ an # <<>> /\ Numbers(Tail(a)) = Tail(an) /\ an[1] = a[1].n
        /\ un # <<>> /\ Numbers(Tail(u)) = Tail(un) /\ un[1] = u[1].n
        /\ a[1] \in Pending("agent") /\ u[1] \in Pending("user")
    <2>1. 1 \in DOMAIN a /\ 1 \in DOMAIN u /\ a[1] \in Pending("agent") /\ u[1] \in Pending("user")
      BY <1>1
    <2> QED BY <1>1, <2>1, NumbersFacts DEF Streams
  <1>4. /\ Len(a) \in Nat \ {0} /\ Len(Tail(a)) = Len(a) - 1
        /\ Len(u) \in Nat \ {0} /\ Len(Tail(u)) = Len(u) - 1
    BY <1>1, Front
  <1>5. /\ Len(a) <= MAX_BUFFER_SIZE /\ Len(u) <= MAX_BUFFER_SIZE
        /\ InOrder(ac, an) /\ InOrder(uc, un) /\ Sides(uc, un, y)
    BY DEF Sound
  <1>6. an[1] \in Nat /\ un[1] \in Nat /\ MAX_BUFFER_SIZE \in Nat
    BY <1>2, <1>3, ARAssumption
  <1>7. /\ Range(an) = {an[1]} \cup Range(Tail(an)) /\ Range(un) = {un[1]} \cup Range(Tail(un))
    BY <1>2, <1>3, FrontValues
  <1>8. ASSUME NEW e \in Nat
        PROVE  /\ Range(Append(ac, e)) = Range(ac) \cup {e}
               /\ Range(Append(uc, e)) = Range(uc) \cup {e}
               /\ Range(Append(y, e)) = Range(y) \cup {e}
    <2>1. ac \in Seq(Nat) /\ uc \in Seq(Nat) /\ y \in Seq(Nat)
      BY <1>1, <1>2
    <2> HIDE DEF ac, uc, y
    <2>2. ASSUME NEW q \in Seq(Nat) PROVE Range(Append(q, e)) = Range(q) \cup {e}
      BY BackValues
    <2> QED BY <2>1, <2>2
  <1>9. /\ w \in Mixer /\ w.user_only_buffer = Append(y, un[1])
        /\ \/ /\ w.audio_buffer = Append(m.audio_buffer, UserAlone(u[1]))
              /\ w.agent_buffer = a /\ w.user_buffer = Tail(u)
           \/ /\ w.audio_buffer = Append(m.audio_buffer, AgentAlone(a[1]))
              /\ w.agent_buffer = Tail(a) /\ w.user_buffer = u
           \/ /\ w.audio_buffer = Append(m.audio_buffer, Both(a[1], u[1]))
              /\ w.agent_buffer = Tail(a) /\ w.user_buffer = Tail(u)
    BY <1>1, <1>3, MixFrontLists
  <1>10. 0 \notin Range(an) /\ 0 \notin Range(un)
    BY <1>2 DEF Range
  <1>11. un[1] \in Range(un)
    BY <1>7
  <1>12. /\ AgentTrail(m) = (Range(ac) \ {0}) \cup Range(an)
         /\ UserTrail(m) = (Range(uc) \ {0}) \cup Range(un)
    BY DEF AgentTrail, UserTrail, Agents, Users
  <1>13. /\ AgentTrail(w) = (Range(AgentColumn(w.audio_buffer)) \ {0}) \cup Range(Numbers(w.agent_buffer))
         /\ UserTrail(w) = (Range(UserColumn(w.audio_buffer)) \ {0}) \cup Range(Numbers(w.user_buffer))
    BY DEF AgentTrail, UserTrail, Agents, Users
  <1>14. Range(w.user_only_buffer) \subseteq Range(y) \cup UserTrail(m)
    BY <1>6, <1>8, <1>9, <1>11, <1>12
  <1> HIDE DEF w, a, u, ac, uc, an, un, y
  <1>15. CASE /\ w.audio_buffer = Append(m.audio_buffer, UserAlone(u[1]))
              /\ w.agent_buffer = a /\ w.user_buffer = Tail(u)
    <2>1. AgentColumn(w.audio_buffer) = Append(ac, 0) /\ UserColumn(w.audio_buffer) = Append(uc, un[1])
      <3> DEFINE e == UserAlone(u[1])
      <3>1. e \in Entry /\ e.agent = 0 /\ e.user = un[1]
        BY <1>3, Entries
      <3> HIDE DEF e
      <3>2. /\ AgentColumn(Append(m.audio_buffer, e)) = Append(ac, e.agent)
            /\ UserColumn(Append(m.audio_buffer, e)) = Append(uc, e.user)
        BY <1>1, <3>1, ColumnFacts DEF ac, uc
      <3> QED BY <1>15, <3>1, <3>2 DEF e
    <2>2. Numbers(w.agent_buffer) = an /\ Numbers(w.user_buffer) = Tail(un)
      BY <1>3, <1>15 DEF an
    <2>3. InOrder(Append(ac, 0), an) /\ InOrder(Append(uc, un[1]), Tail(un))
      BY <1>2, <1>3, <1>5, RecordFirst, RecordNone
    <2>4. Sides(Append(uc, un[1]), Tail(un), Append(y, un[1]))
      BY <1>1, <1>2, <1>3, <1>5, WriteBoth
    <2>5. Sound(w)
      <3>1. Len(w.agent_buffer) <= MAX_BUFFER_SIZE /\ Len(w.user_buffer) <= MAX_BUFFER_SIZE
        BY <1>4, <1>5, <1>6, <1>15
      <3>2. /\ InOrder(AgentColumn(w.audio_buffer), Numbers(w.agent_buffer))
            /\ InOrder(UserColumn(w.audio_buffer), Numbers(w.user_buffer))
        BY <2>1, <2>2, <2>3
      <3>3. Sides(UserColumn(w.audio_buffer), Numbers(w.user_buffer), w.user_only_buffer)
        BY <1>9, <2>1, <2>2, <2>4
      <3> QED BY <1>9, <3>1, <3>2, <3>3 DEF Sound
    <2>6. AgentTrail(w) = AgentTrail(m) /\ UserTrail(w) = UserTrail(m)
      <3>1. /\ Range(Append(ac, 0)) = Range(ac) \cup {0}
            /\ Range(Append(uc, un[1])) = Range(uc) \cup {un[1]}
        BY <1>6, <1>8
      <3>2. AgentTrail(w) = AgentTrail(m)
        BY <1>7, <1>10, <1>12, <1>13, <2>1, <2>2, <3>1
      <3>3. UserTrail(w) = UserTrail(m)
        BY <1>7, <1>10, <1>12, <1>13, <2>1, <2>2, <3>1
      <3> QED BY <3>2, <3>3
    <2>7. Len(w.agent_buffer) + Len(w.user_buffer) < Len(a) + Len(u)
      BY <1>4, <1>15
    <2> QED BY <1>14, <2>5, <2>6, <2>7 DEF Kept, Waiting, w, a, u, y
  <1>16. CASE /\ w.audio_buffer = Append(m.audio_buffer, AgentAlone(a[1]))
              /\ w.agent_buffer = Tail(a) /\ w.user_buffer = u
    <2>1. AgentColumn(w.audio_buffer) = Append(ac, an[1]) /\ UserColumn(w.audio_buffer) = Append(uc, 0)
      <3> DEFINE e == AgentAlone(a[1])
      <3>1. e \in Entry /\ e.agent = an[1] /\ e.user = 0
        BY <1>3, Entries
      <3> HIDE DEF e
      <3>2. /\ AgentColumn(Append(m.audio_buffer, e)) = Append(ac, e.agent)
            /\ UserColumn(Append(m.audio_buffer, e)) = Append(uc, e.user)
        BY <1>1, <3>1, ColumnFacts DEF ac, uc
      <3> QED BY <1>16, <3>1, <3>2 DEF e
    <2>2. Numbers(w.agent_buffer) = Tail(an) /\ Numbers(w.user_buffer) = un
      BY <1>3, <1>16 DEF un
    <2>3. InOrder(Append(ac, an[1]), Tail(an)) /\ InOrder(Append(uc, 0), un)
      BY <1>2, <1>3, <1>5, RecordFirst, RecordNone
    <2>4. Sides(Append(uc, 0), un, Append(y, un[1]))
      BY <1>1, <1>2, <1>3, <1>5, WriteOnly
    <2>5. Sound(w)
      <3>1. Len(w.agent_buffer) <= MAX_BUFFER_SIZE /\ Len(w.user_buffer) <= MAX_BUFFER_SIZE
        BY <1>4, <1>5, <1>6, <1>16
      <3>2. /\ InOrder(AgentColumn(w.audio_buffer), Numbers(w.agent_buffer))
            /\ InOrder(UserColumn(w.audio_buffer), Numbers(w.user_buffer))
        BY <2>1, <2>2, <2>3
      <3>3. Sides(UserColumn(w.audio_buffer), Numbers(w.user_buffer), w.user_only_buffer)
        BY <1>9, <2>1, <2>2, <2>4
      <3> QED BY <1>9, <3>1, <3>2, <3>3 DEF Sound
    <2>6. AgentTrail(w) = AgentTrail(m) /\ UserTrail(w) = UserTrail(m)
      <3>1. /\ Range(Append(ac, an[1])) = Range(ac) \cup {an[1]}
            /\ Range(Append(uc, 0)) = Range(uc) \cup {0}
        BY <1>6, <1>8
      <3>2. AgentTrail(w) = AgentTrail(m)
        BY <1>7, <1>10, <1>12, <1>13, <2>1, <2>2, <3>1
      <3>3. UserTrail(w) = UserTrail(m)
        BY <1>7, <1>10, <1>12, <1>13, <2>1, <2>2, <3>1
      <3> QED BY <3>2, <3>3
    <2>7. Len(w.agent_buffer) + Len(w.user_buffer) < Len(a) + Len(u)
      BY <1>4, <1>16
    <2> QED BY <1>14, <2>5, <2>6, <2>7 DEF Kept, Waiting, w, a, u, y
  <1>17. CASE /\ w.audio_buffer = Append(m.audio_buffer, Both(a[1], u[1]))
              /\ w.agent_buffer = Tail(a) /\ w.user_buffer = Tail(u)
    <2>1. /\ AgentColumn(w.audio_buffer) = Append(ac, an[1])
          /\ UserColumn(w.audio_buffer) = Append(uc, un[1])
      <3> DEFINE e == Both(a[1], u[1])
      <3>1. e \in Entry /\ e.agent = an[1] /\ e.user = un[1]
        BY <1>3, Entries
      <3> HIDE DEF e
      <3>2. /\ AgentColumn(Append(m.audio_buffer, e)) = Append(ac, e.agent)
            /\ UserColumn(Append(m.audio_buffer, e)) = Append(uc, e.user)
        BY <1>1, <3>1, ColumnFacts DEF ac, uc
      <3> QED BY <1>17, <3>1, <3>2 DEF e
    <2>2. Numbers(w.agent_buffer) = Tail(an) /\ Numbers(w.user_buffer) = Tail(un)
      BY <1>3, <1>17
    <2>3. InOrder(Append(ac, an[1]), Tail(an)) /\ InOrder(Append(uc, un[1]), Tail(un))
      BY <1>2, <1>3, <1>5, RecordFirst
    <2>4. Sides(Append(uc, un[1]), Tail(un), Append(y, un[1]))
      BY <1>1, <1>2, <1>3, <1>5, WriteBoth
    <2>5. Sound(w)
      <3>1. Len(w.agent_buffer) <= MAX_BUFFER_SIZE /\ Len(w.user_buffer) <= MAX_BUFFER_SIZE
        BY <1>4, <1>5, <1>6, <1>17
      <3>2. /\ InOrder(AgentColumn(w.audio_buffer), Numbers(w.agent_buffer))
            /\ InOrder(UserColumn(w.audio_buffer), Numbers(w.user_buffer))
        BY <2>1, <2>2, <2>3
      <3>3. Sides(UserColumn(w.audio_buffer), Numbers(w.user_buffer), w.user_only_buffer)
        BY <1>9, <2>1, <2>2, <2>4
      <3> QED BY <1>9, <3>1, <3>2, <3>3 DEF Sound
    <2>6. AgentTrail(w) = AgentTrail(m) /\ UserTrail(w) = UserTrail(m)
      <3>1. /\ Range(Append(ac, an[1])) = Range(ac) \cup {an[1]}
            /\ Range(Append(uc, un[1])) = Range(uc) \cup {un[1]}
        BY <1>6, <1>8
      <3>2. AgentTrail(w) = AgentTrail(m)
        BY <1>7, <1>10, <1>12, <1>13, <2>1, <2>2, <3>1
      <3>3. UserTrail(w) = UserTrail(m)
        BY <1>7, <1>10, <1>12, <1>13, <2>1, <2>2, <3>1
      <3> QED BY <3>2, <3>3
    <2>7. Len(w.agent_buffer) + Len(w.user_buffer) < Len(a) + Len(u)
      BY <1>4, <1>17
    <2> QED BY <1>14, <2>5, <2>6, <2>7 DEF Kept, Waiting, w, a, u, y
  <1> QED BY <1>9, <1>15, <1>16, <1>17

\* The loop keeps the mixer sound, loses no frame, and ends with one of the
\* buffers empty.
LEMMA MixBuffersSound ==
  ASSUME NEW m, Sound(m)
  PROVE  Sound(MixBuffers(m)) /\ Kept(m, MixBuffers(m)) /\ ~BothPending(MixBuffers(m))
  <1> DEFINE f == Iterations(m)
             total == Waiting(m)
             OK(k) == /\ Sound(f[k]) /\ Kept(m, f[k])
                      /\ (~BothPending(f[k]) \/ Waiting(f[k]) + k <= total)
             T == {k \in Nat : ~OK(k)}
  <1>1. f[0] = m /\ \A k \in Nat \ {0} : f[k] = Iterate(f[k - 1])
    BY IterationsDef
  <1>2. MixBuffers(m) = f[total]
    BY DEF MixBuffers, Waiting
  <1>3. total \in Nat
    BY WaitingFacts
  <1> HIDE DEF f, total
  <1>4. T = {}
    <2> SUFFICES ASSUME T # {} PROVE FALSE
      OBVIOUS
    <2>1. T \in SUBSET Nat
      OBVIOUS
    <2>2. PICK k \in T : \A j \in T : k <= j
      BY <2>1, LeastNumber
    <2>3. CASE k = 0
      <3>1. Kept(m, m)
        BY DEF Kept
      <3>2. OK(0)
        BY <1>1, <1>3, <3>1 DEF total
      <3> QED BY <2>2, <2>3, <3>2
    <2>4. CASE k # 0
      <3>1. k \in Nat /\ ~OK(k) /\ k - 1 \in Nat
        BY <2>2, <2>4
      <3>2. k - 1 \notin T
        BY <2>2, <3>1
      <3>3. OK(k - 1)
        BY <3>1, <3>2
      <3>4. f[k] = Iterate(f[k - 1])
        BY <1>1, <2>4, <3>1
      <3> HIDE DEF T
      <3>5. CASE ~BothPending(f[k - 1])
        <4>1. f[k] = f[k - 1]
          BY <3>4, <3>5 DEF Iterate
        <4> QED BY <3>1, <3>3, <3>5, <4>1
      <3>6. CASE BothPending(f[k - 1])
        <4>1. f[k] = MixFront(f[k - 1])
          BY <3>4, <3>6 DEF Iterate
        <4>2. Sound(f[k - 1]) /\ Kept(m, f[k - 1]) /\ Waiting(f[k - 1]) + (k - 1) <= total
          BY <3>3, <3>6
        <4>3. Sound(f[k]) /\ Kept(f[k - 1], f[k]) /\ Waiting(f[k]) < Waiting(f[k - 1])
          BY <3>6, <4>1, <4>2, MixFrontSound
        <4>4. Kept(m, f[k])
          BY <4>2, <4>3 DEF Kept
        <4>5. Waiting(f[k]) \in Nat /\ Waiting(f[k - 1]) \in Nat
          BY <4>2, <4>3, WaitingFacts
        <4>6. Waiting(f[k]) + k <= total
          BY <1>3, <3>1, <4>2, <4>3, <4>5
        <4> QED BY <3>1, <4>3, <4>4, <4>6
      <3> QED BY <3>5, <3>6
    <2> QED BY <2>3, <2>4
  <1>5. OK(total)
    BY <1>3, <1>4
  <1>6. Waiting(f[total]) \in Nat /\ (Waiting(f[total]) = 0 => ~BothPending(f[total]))
    BY <1>5, WaitingFacts
  <1>7. ~BothPending(f[total])
    BY <1>3, <1>5, <1>6
  <1> QED BY <1>2, <1>5, <1>7

-----------------------------------------------------------------------------
(* The branches for a stream that is not active *)

\* The entries that writeSingleStream makes of the agent's waiting frames
LEMMA AgentEntries ==
  ASSUME NEW b \in Seq(Pending("agent")), NEW z, z = [i \in DOMAIN b |-> AgentAlone(b[i])]
  PROVE  /\ z \in Seq(Entry) /\ AgentColumn(z) = Numbers(b)
         /\ UserColumn(z) \in Seq(Nat) /\ \A i \in DOMAIN UserColumn(z) : UserColumn(z)[i] = 0
  <1>1. \A i \in DOMAIN b : b[i] \in Pending("agent")
    OBVIOUS
  <1>2. \A i \in DOMAIN b : z[i] \in Entry /\ z[i].agent = b[i].n /\ z[i].user = 0
    BY <1>1, Entries
  <1>3. DOMAIN z = 1..Len(b) /\ Len(b) \in Nat /\ DOMAIN b = 1..Len(b)
    OBVIOUS
  <1>4. z \in Seq(Entry)
    <2>1. z = [i \in 1..Len(b) |-> z[i]]
      BY <1>3
    <2>2. \A i \in 1..Len(b) : z[i] \in Entry
      BY <1>2, <1>3
    <2> HIDE DEF Entry
    <2>3. z \in [1..Len(b) -> Entry]
      BY <2>1, <2>2
    <2> QED BY <1>3, <2>3
  <1>5. AgentColumn(z) = Numbers(b)
    BY <1>2, <1>3 DEF AgentColumn, Numbers
  <1>6. UserColumn(z) \in Seq(Nat)
    BY <1>4, ColumnFacts
  <1>7. \A i \in DOMAIN UserColumn(z) : UserColumn(z)[i] = 0
    BY <1>2, <1>3 DEF UserColumn
  <1> QED BY <1>4, <1>5, <1>6, <1>7

\* and of the caller's.
LEMMA UserEntries ==
  ASSUME NEW b \in Seq(Pending("user")), NEW z, z = [i \in DOMAIN b |-> UserAlone(b[i])]
  PROVE  /\ z \in Seq(Entry) /\ UserColumn(z) = Numbers(b)
         /\ AgentColumn(z) \in Seq(Nat) /\ \A i \in DOMAIN AgentColumn(z) : AgentColumn(z)[i] = 0
  <1>1. \A i \in DOMAIN b : b[i] \in Pending("user")
    OBVIOUS
  <1>2. \A i \in DOMAIN b : z[i] \in Entry /\ z[i].user = b[i].n /\ z[i].agent = 0
    BY <1>1, Entries
  <1>3. DOMAIN z = 1..Len(b) /\ Len(b) \in Nat /\ DOMAIN b = 1..Len(b)
    OBVIOUS
  <1>4. z \in Seq(Entry)
    <2>1. z = [i \in 1..Len(b) |-> z[i]]
      BY <1>3
    <2>2. \A i \in 1..Len(b) : z[i] \in Entry
      BY <1>2, <1>3
    <2>3. z \in [1..Len(b) -> Entry]
      BY <2>1, <2>2
    <2> QED BY <1>3, <2>3
  <1>5. UserColumn(z) = Numbers(b)
    BY <1>2, <1>3 DEF UserColumn, Numbers
  <1>6. AgentColumn(z) \in Seq(Nat)
    BY <1>4, ColumnFacts
  <1>7. \A i \in DOMAIN AgentColumn(z) : AgentColumn(z)[i] = 0
    BY <1>2, <1>3 DEF AgentColumn
  <1> QED BY <1>4, <1>5, <1>6, <1>7

\* An empty list.
LEMMA EmptyList ==
  Numbers(<<>>) = <<>> /\ Range(<<>>) = {} /\ Len(<<>>) = 0 /\ \A S : <<>> \in Seq(S)
  BY DEF Numbers, Range

\* Writing out the agent's frames keeps the mixer sound and loses none.
LEMMA FlushAgentSound ==
  ASSUME NEW m, Sound(m)
  PROVE  Sound(FlushAgent(m)) /\ Kept(m, FlushAgent(m)) /\ ~BothPending(FlushAgent(m))
  <1> DEFINE w == FlushAgent(m)
             a == m.agent_buffer
             o == m.audio_buffer
             ac == AgentColumn(o)
             uc == UserColumn(o)
             an == Numbers(a)
             un == Numbers(m.user_buffer)
             y == m.user_only_buffer
             z == [i \in DOMAIN a |-> AgentAlone(a[i])]
             uz == UserColumn(z)
  <1>1. /\ m \in Mixer /\ a \in Seq(Pending("agent")) /\ o \in Seq(Entry) /\ y \in Seq(Nat)
        /\ ac \in Seq(Nat) /\ uc \in Seq(Nat) /\ an \in Seq(Nat) /\ un \in Seq(Nat)
        /\ an \in Seq(Nat \ {0}) /\ un \in Seq(Nat \ {0})
    BY Fields, Lists DEF Sound
  <1>2. /\ Len(m.user_buffer) <= MAX_BUFFER_SIZE
        /\ InOrder(ac, an) /\ InOrder(uc, un) /\ Sides(uc, un, y)
    BY DEF Sound
  <1>3. /\ z \in Seq(Entry) /\ AgentColumn(z) = an /\ uz \in Seq(Nat)
        /\ \A i \in DOMAIN uz : uz[i] = 0
    BY <1>1, AgentEntries
  <1>4. w = [m EXCEPT !.audio_buffer = o \o z, !.agent_buffer = <<>>]
    BY DEF FlushAgent
  <1>5. /\ AgentTrail(m) = (Range(ac) \ {0}) \cup Range(an)
        /\ UserTrail(m) = (Range(uc) \ {0}) \cup Range(un)
        /\ AgentTrail(w) = (Range(AgentColumn(w.audio_buffer)) \ {0}) \cup Range(Numbers(w.agent_buffer))
        /\ UserTrail(w) = (Range(UserColumn(w.audio_buffer)) \ {0}) \cup Range(Numbers(w.user_buffer))
    BY DEF AgentTrail, UserTrail, Agents, Users
  <1> HIDE DEF z
  <1>6. o \o z \in Seq(Entry)
    BY <1>1, <1>3
  <1>7. /\ w \in Mixer /\ w.audio_buffer = o \o z /\ w.agent_buffer = <<>>
        /\ w.user_buffer = m.user_buffer /\ w.user_only_buffer = y
    <2> HIDE DEF o
    <2>1. <<>> \in Seq(Pending("agent"))
      BY EmptyList
    <2> QED BY <1>1, <1>4, <1>6, <2>1 DEF Mixer
  <1>8. AgentColumn(o \o z) = ac \o an /\ UserColumn(o \o z) = uc \o uz
    BY <1>1, <1>3, ColumnFacts
  <1> HIDE DEF w, a, o, ac, uc, an, un, y, uz
  <1>9. AgentColumn(w.audio_buffer) = ac \o an /\ UserColumn(w.audio_buffer) = uc \o uz
    BY <1>7, <1>8
  <1>10. Numbers(w.agent_buffer) = <<>> /\ Numbers(w.user_buffer) = un
    BY <1>7, EmptyList DEF un
  <1>11. InOrder(ac \o an, <<>>) /\ InOrder(uc \o uz, un)
    BY <1>1, <1>2, <1>3, RecordAll, RecordOthers
  <1>12. Sides(uc \o uz, un, y)
    BY <1>1, <1>2, <1>3, WriteOthers
  <1>13. Sound(w)
    <2>1. Len(w.agent_buffer) <= MAX_BUFFER_SIZE /\ Len(w.user_buffer) <= MAX_BUFFER_SIZE
      BY <1>2, <1>7, EmptyList, ARAssumption
    <2>2. /\ InOrder(AgentColumn(w.audio_buffer), Numbers(w.agent_buffer))
          /\ InOrder(UserColumn(w.audio_buffer), Numbers(w.user_buffer))
      BY <1>9, <1>10, <1>11
    <2>3. Sides(UserColumn(w.audio_buffer), Numbers(w.user_buffer), w.user_only_buffer)
      BY <1>7, <1>9, <1>10, <1>12
    <2> QED BY <1>7, <2>1, <2>2, <2>3 DEF Sound
  <1>14. Range(ac \o an) = Range(ac) \cup Range(an) /\ Range(uc \o uz) = Range(uc) \cup Range(uz)
    <2>1. ASSUME NEW p \in Seq(Nat), NEW q \in Seq(Nat) PROVE Range(p \o q) = Range(p) \cup Range(q)
      BY JoinedValues
    <2> QED BY <1>1, <1>3, <2>1
  <1>15. 0 \notin Range(an) /\ Range(uz) \subseteq {0}
    BY <1>1, <1>3 DEF Range
  <1>16. AgentTrail(w) = AgentTrail(m) /\ UserTrail(w) = UserTrail(m)
    BY <1>5, <1>9, <1>10, <1>14, <1>15, EmptyList
  <1>17. Kept(m, w)
    BY <1>7, <1>16 DEF Kept, y
  <1>18. ~BothPending(w)
    BY <1>7 DEF BothPending
  <1> QED BY <1>13, <1>17, <1>18 DEF w

\* So does writing out the caller's, to both recordings.
LEMMA FlushUserSound ==
  ASSUME NEW m, Sound(m)
  PROVE  Sound(FlushUser(m)) /\ Kept(m, FlushUser(m)) /\ ~BothPending(FlushUser(m))
  <1> DEFINE w == FlushUser(m)
             u == m.user_buffer
             o == m.audio_buffer
             ac == AgentColumn(o)
             uc == UserColumn(o)
             an == Numbers(m.agent_buffer)
             un == Numbers(u)
             y == m.user_only_buffer
             z == [i \in DOMAIN u |-> UserAlone(u[i])]
             az == AgentColumn(z)
  <1>1. /\ m \in Mixer /\ u \in Seq(Pending("user")) /\ o \in Seq(Entry)
        /\ y \in Seq(1..MaxFrames["user"]) /\ y \in Seq(Nat)
        /\ ac \in Seq(Nat) /\ uc \in Seq(Nat) /\ an \in Seq(Nat) /\ un \in Seq(Nat)
        /\ an \in Seq(Nat \ {0}) /\ un \in Seq(Nat \ {0})
    BY Fields, Lists DEF Sound
  <1>2. /\ Len(m.agent_buffer) <= MAX_BUFFER_SIZE
        /\ InOrder(ac, an) /\ InOrder(uc, un) /\ Sides(uc, un, y)
    BY DEF Sound
  <1>3. /\ z \in Seq(Entry) /\ UserColumn(z) = un /\ az \in Seq(Nat)
        /\ \A i \in DOMAIN az : az[i] = 0
    BY <1>1, UserEntries
  <1>4. w = [m EXCEPT !.audio_buffer = o \o z, !.user_only_buffer = y \o un, !.user_buffer = <<>>]
    BY DEF FlushUser
  <1>5. /\ AgentTrail(m) = (Range(ac) \ {0}) \cup Range(an)
        /\ UserTrail(m) = (Range(uc) \ {0}) \cup Range(un)
        /\ AgentTrail(w) = (Range(AgentColumn(w.audio_buffer)) \ {0}) \cup Range(Numbers(w.agent_buffer))
        /\ UserTrail(w) = (Range(UserColumn(w.audio_buffer)) \ {0}) \cup Range(Numbers(w.user_buffer))
    BY DEF AgentTrail, UserTrail, Agents, Users
  <1>6. un \in Seq(1..MaxFrames["user"])
    <2>1. /\ \A i \in DOMAIN u : u[i].n \in 1..MaxFrames["user"] /\ un[i] = u[i].n
          /\ DOMAIN un = DOMAIN u
      BY <1>1, NumbersFacts DEF Streams
    <2> HIDE DEF un, u
    <2>2. DOMAIN un = 1..Len(un) /\ Len(un) \in Nat
      BY <1>1
    <2>3. un \in [1..Len(un) -> 1..MaxFrames["user"]]
      <3>1. un = [i \in 1..Len(un) |-> un[i]]
        BY <1>1, <2>2
      <3>2. \A i \in 1..Len(un) : un[i] \in 1..MaxFrames["user"]
        BY <2>1, <2>2
      <3> QED BY <3>1, <3>2
    <2> DEFINE k == Len(un)
               S == 1..MaxFrames["user"]
    <2>4. k \in Nat /\ un \in [1..k -> S]
      BY <2>2, <2>3
    <2> HIDE DEF k, S
    <2>5. un \in Seq(S)
      BY <2>4
    <2> QED BY <2>5 DEF S
  <1> HIDE DEF z, un
  <1>7. o \o z \in Seq(Entry) /\ y \o un \in Seq(1..MaxFrames["user"])
    BY <1>1, <1>3, <1>6
  <1>8. /\ w \in Mixer /\ w.audio_buffer = o \o z /\ w.user_buffer = <<>>
        /\ w.agent_buffer = m.agent_buffer /\ w.user_only_buffer = y \o un
    <2> HIDE DEF o, y
    <2>1. <<>> \in Seq(Pending("user"))
      BY EmptyList
    <2> QED BY <1>1, <1>4, <1>7, <2>1 DEF Mixer
  <1>9. AgentColumn(o \o z) = ac \o az /\ UserColumn(o \o z) = uc \o un
    BY <1>1, <1>3, ColumnFacts
  <1> HIDE DEF w, u, o, ac, uc, an, y, az
  <1>10. AgentColumn(w.audio_buffer) = ac \o az /\ UserColumn(w.audio_buffer) = uc \o un
    BY <1>8, <1>9
  <1>11. Numbers(w.agent_buffer) = an /\ Numbers(w.user_buffer) = <<>>
    BY <1>8, EmptyList DEF an
  <1>12. InOrder(ac \o az, an) /\ InOrder(uc \o un, <<>>)
    BY <1>1, <1>2, <1>3, RecordAll, RecordOthers
  <1>13. Sides(uc \o un, <<>>, y \o un)
    BY <1>1, <1>2, WriteAll
  <1>14. Sound(w)
    <2>1. Len(w.agent_buffer) <= MAX_BUFFER_SIZE /\ Len(w.user_buffer) <= MAX_BUFFER_SIZE
      BY <1>2, <1>8, EmptyList, ARAssumption
    <2>2. /\ InOrder(AgentColumn(w.audio_buffer), Numbers(w.agent_buffer))
          /\ InOrder(UserColumn(w.audio_buffer), Numbers(w.user_buffer))
      BY <1>10, <1>11, <1>12
    <2>3. Sides(UserColumn(w.audio_buffer), Numbers(w.user_buffer), w.user_only_buffer)
      BY <1>8, <1>10, <1>11, <1>13
    <2> QED BY <1>8, <2>1, <2>2, <2>3 DEF Sound
  <1>15. /\ Range(ac \o az) = Range(ac) \cup Range(az) /\ Range(uc \o un) = Range(uc) \cup Range(un)
         /\ Range(y \o un) = Range(y) \cup Range(un)
    <2>1. ASSUME NEW p \in Seq(Nat), NEW q \in Seq(Nat) PROVE Range(p \o q) = Range(p) \cup Range(q)
      BY JoinedValues
    <2> QED BY <1>1, <1>3, <2>1
  <1>16. 0 \notin Range(un) /\ Range(az) \subseteq {0}
    BY <1>1, <1>3 DEF Range
  <1>17. AgentTrail(w) = AgentTrail(m) /\ UserTrail(w) = UserTrail(m)
    BY <1>5, <1>10, <1>11, <1>15, <1>16, EmptyList
  <1>18. Kept(m, w)
    BY <1>5, <1>8, <1>15, <1>17 DEF Kept, y
  <1>19. ~BothPending(w)
    BY <1>8 DEF BothPending
  <1> QED BY <1>14, <1>18, <1>19 DEF w

\* Whichever branch is taken, the mixer stays sound, loses no frame, and has
\* frames of one stream at most left.
LEMMA ProcessSound ==
  ASSUME NEW m, Sound(m)
  PROVE  Sound(processBuffers(m)) /\ Kept(m, processBuffers(m)) /\ ~BothPending(processBuffers(m))
  <1>1. \/ processBuffers(m) = FlushAgent(m) \/ processBuffers(m) = FlushUser(m)
        \/ processBuffers(m) = MixBuffers(m)
    BY DEF processBuffers
  <1> QED BY <1>1, FlushAgentSound, FlushUserSound, MixBuffersSound

-----------------------------------------------------------------------------
(* A frame that begins to wait *)

\* A buffer after push_back and pop_front: the new number is behind the others,
\* and the first one is gone when the buffer was full.
LEMMA BufferedFacts ==
  ASSUME NEW s \in Streams, NEW b \in Seq(Pending(s)), Len(b) <= MAX_BUFFER_SIZE,
         NEW n \in 1..MaxFrames[s], now \in 0..MaxTime, NEW c, c = Buffered(b, n)
  PROVE  /\ c \in Seq(Pending(s)) /\ Len(c) <= MAX_BUFFER_SIZE
         /\ \/ Numbers(c) = Append(Numbers(b), n)
            \/ Len(b) = MAX_BUFFER_SIZE /\ Numbers(c) = Tail(Append(Numbers(b), n))
  <1> DEFINE f == [n |-> n, t |-> now]
             l == Append(b, f)
  <1>1. f \in Pending(s) /\ f.n = n
    BY DEF Pending
  <1>2. c = IF Len(l) > MAX_BUFFER_SIZE THEN Tail(l) ELSE l
    BY DEF Buffered
  <1> HIDE DEF f
  <1>3. /\ l \in Seq(Pending(s)) /\ Len(l) = Len(b) + 1 /\ Len(b) \in Nat
        /\ MAX_BUFFER_SIZE \in Nat
    BY <1>1, Back, ARAssumption
  <1>4. Numbers(l) = Append(Numbers(b), n)
    BY <1>1, NumbersFacts
  <1> HIDE DEF l
  <1>5. CASE Len(l) > MAX_BUFFER_SIZE
    <2>1. c = Tail(l) /\ Len(b) = MAX_BUFFER_SIZE /\ l # <<>>
      BY <1>2, <1>3, <1>5, EmptyList
    <2>2. c \in Seq(Pending(s)) /\ Len(c) = Len(l) - 1
      BY <1>3, <2>1, Front
    <2>3. Numbers(c) = Tail(Numbers(l))
      BY <1>3, <2>1, NumbersFacts
    <2> QED BY <1>3, <1>4, <2>1, <2>2, <2>3
  <1>6. CASE ~(Len(l) > MAX_BUFFER_SIZE)
    <2>1. c = l
      BY <1>2, <1>6
    <2> QED BY <1>3, <1>4, <1>6, <2>1
  <1> QED BY <1>5, <1>6

\* The numbers that wait then: the order stays, the caller's own recording has
\* still at most the first of them, and none but the first is lost.
LEMMA WaitingMore ==
  ASSUME NEW rec \in Seq(Nat), NEW b \in Seq(Nat), NEW only, NEW n \in Nat, NEW c,
         InOrder(rec, b), \A x \in Range(rec) \cup Range(b) : x < n,
         c = Append(b, n) \/ (b # <<>> /\ c = Tail(Append(b, n)))
  PROVE  /\ InOrder(rec, c)
         /\ Sides(rec, b, only) /\ n \notin Range(only) => Sides(rec, c, only)
         /\ Range(c) \subseteq Range(b) \cup {n}
         /\ \A x \in Range(b) \ Range(c) : c = Tail(Append(b, n)) /\ x = b[1]
  <1> DEFINE l == Append(b, n)
  <1>1. \A i \in DOMAIN rec : rec[i] < n
    BY DEF Range
  <1>2. \A i \in DOMAIN b : b[i] < n
    BY DEF Range
  <1>3. InOrder(rec, l)
    BY <1>1, <1>2, WaitLast
  <1>4. Range(l) = Range(b) \cup {n}
    BY BackValues
  <1>5. l \in Seq(Nat) /\ l # <<>> /\ (b # <<>> => l[1] = b[1])
    <2>1. /\ l \in Seq(Nat) /\ Len(l) = Len(b) + 1 /\ Len(b) \in Nat
          /\ \A i \in 1..Len(b) : l[i] = b[i]
      BY Back
    <2>2. b # <<>> => 1 \in 1..Len(b)
      OBVIOUS
    <2>3. l # <<>>
      OBVIOUS
    <2> HIDE DEF l
    <2> QED BY <2>1, <2>2, <2>3
  <1>6. Sides(rec, b, only) /\ n \notin Range(only) => Sides(rec, l, only)
    BY WriteNone
  <1>7. CASE c = l
    BY <1>3, <1>4, <1>6, <1>7
  <1>8. CASE b # <<>> /\ c = Tail(l)
    <2> HIDE DEF l
    <2>1. InOrder(rec, c)
      BY <1>3, <1>5, <1>8, DropFirst
    <2>2. Sides(rec, l, only) => Sides(rec, c, only)
      BY <1>5, <1>8, DropSides
    <2>3. Range(l) = {l[1]} \cup Range(c)
      BY <1>5, <1>8, FrontValues
    <2> QED BY <1>4, <1>5, <1>6, <1>8, <2>1, <2>2, <2>3 DEF l
  <1> QED BY <1>7, <1>8

\* Counters, time stamps and activity are no part of what Sound says.
LEMMA SameLists ==
  ASSUME NEW m, NEW w \in Mixer,
         w.agent_buffer = m.agent_buffer, w.user_buffer = m.user_buffer,
         w.audio_buffer = m.audio_buffer, w.user_only_buffer = m.user_only_buffer
  PROVE  /\ Sound(m) => Sound(w)
         /\ AgentTrail(w) = AgentTrail(m) /\ UserTrail(w) = UserTrail(m)
  BY DEF Sound, AgentTrail, UserTrail, Agents, Users

\* The update for a new frame and the check of the activity.
LEMMA Flags ==
  ASSUME NEW m \in Mixer, NEW f \in Taken, now \in 0..MaxTime
  PROVE  /\ Noted(m, f) \in Mixer /\ checkStreamActivity(m) \in Mixer
         /\ \A w \in {Noted(m, f), checkStreamActivity(m)} :
              /\ w.agent_buffer = m.agent_buffer /\ w.user_buffer = m.user_buffer
              /\ w.audio_buffer = m.audio_buffer /\ w.user_only_buffer = m.user_only_buffer
  <1>1. f.silent \in BOOLEAN /\ m.agent_silence_count \in Nat
    BY Fields DEF Taken
  <1>2. Noted(m, f) \in Mixer
    <2> DEFINE k == IF f.silent THEN m.agent_silence_count + 1 ELSE 0
    <2>1. k \in Nat
      BY <1>1
    <2>2. \/ Noted(m, f) = [m EXCEPT !.user_stream_active = TRUE]
          \/ Noted(m, f) = [m EXCEPT !.agent_silence_count = k, !.last_agent_frame = now,
                                     !.agent_stream_active = TRUE]
      BY DEF Noted
    <2> HIDE DEF k
    <2> QED BY <2>1, <2>2 DEF Mixer
  <1>3. checkStreamActivity(m) \in Mixer
    BY DEF checkStreamActivity, Mixer
  <1> QED BY <1>2, <1>3 DEF Noted, checkStreamActivity, Mixer

\* What addFrame passes to processBuffers.
Ready(m, f) ==
  LET noted == Noted(m, f)
      pushed == IF f.s = "agent"
                THEN [noted EXCEPT !.agent_buffer = Buffered(@, f.n)]
                ELSE [noted EXCEPT !.user_buffer = Buffered(@, f.n)]
  IN checkStreamActivity(pushed)

\* A newer frame of the agent: the mixer stays sound, has frames of one stream at
\* most left, and of the frames it had only the first of a full buffer can be gone.
LEMMA AddAgentFrame ==
  ASSUME NEW m, Sound(m), NEW f \in Taken, f.s = "agent", f.n \in 1..MaxFrames["agent"],
         now \in 0..MaxTime, \A x \in AgentTrail(m) : x < f.n, NEW w, w = addFrame(m, f)
  PROVE  /\ Sound(w) /\ ~BothPending(w) /\ Sound(Ready(m, f)) /\ Kept(Ready(m, f), w)
         /\ UserTrail(w) = UserTrail(m) /\ AgentTrail(w) \subseteq AgentTrail(m) \cup {f.n}
         /\ Range(w.user_only_buffer) \subseteq Range(m.user_only_buffer) \cup UserTrail(m)
         /\ \A x \in AgentTrail(m) \ AgentTrail(w) :
              Len(m.agent_buffer) = MAX_BUFFER_SIZE /\ x = m.agent_buffer[1].n
  <1> DEFINE d == Noted(m, f)
             c == Buffered(m.agent_buffer, f.n)
             p == [d EXCEPT !.agent_buffer = c]
             q == checkStreamActivity(p)
             ac == AgentColumn(m.audio_buffer)
             uc == UserColumn(m.audio_buffer)
             b == Numbers(m.agent_buffer)
             r == Numbers(m.user_buffer)
             y == m.user_only_buffer
  <1>1. /\ m \in Mixer /\ m.agent_buffer \in Seq(Pending("agent"))
        /\ m.agent_buffer # <<>> => b # <<>>
        /\ ac \in Seq(Nat) /\ uc \in Seq(Nat) /\ b \in Seq(Nat)
        /\ m.agent_buffer # <<>> => b[1] = m.agent_buffer[1].n
    <2>1. m \in Mixer /\ m.agent_buffer \in Seq(Pending("agent"))
      BY Fields DEF Sound
    <2>2. m.agent_buffer # <<>> => 1 \in DOMAIN m.agent_buffer
      BY <2>1
    <2>3. /\ m.agent_buffer # <<>> => b # <<>>
          /\ \A i \in DOMAIN m.agent_buffer : b[i] = m.agent_buffer[i].n
      BY <2>1, NumbersFacts DEF Streams
    <2> QED BY <2>1, <2>2, <2>3, Lists
  <1>2. /\ Len(m.agent_buffer) <= MAX_BUFFER_SIZE /\ Len(m.user_buffer) <= MAX_BUFFER_SIZE
        /\ InOrder(ac, b) /\ InOrder(uc, r) /\ Sides(uc, r, y)
    BY DEF Sound
  <1>3. w = processBuffers(q) /\ q = Ready(m, f)
    <2>1. p = IF f.s = "agent"
              THEN [d EXCEPT !.agent_buffer = Buffered(@, f.n)]
              ELSE [d EXCEPT !.user_buffer = Buffered(@, f.n)]
      BY <1>1, Flags
    <2> QED BY <2>1 DEF addFrame, Ready
  <1>4. /\ d \in Mixer
        /\ d.agent_buffer = m.agent_buffer /\ d.user_buffer = m.user_buffer
        /\ d.audio_buffer = m.audio_buffer /\ d.user_only_buffer = y
    BY <1>1, Flags
  <1>5. /\ c \in Seq(Pending("agent")) /\ Len(c) <= MAX_BUFFER_SIZE
        /\ \/ Numbers(c) = Append(b, f.n)
           \/ Len(m.agent_buffer) = MAX_BUFFER_SIZE /\ Numbers(c) = Tail(Append(b, f.n))
    BY <1>1, <1>2, BufferedFacts DEF Streams
  <1>6. /\ AgentTrail(m) = (Range(ac) \ {0}) \cup Range(b)
        /\ UserTrail(m) = (Range(uc) \ {0}) \cup Range(r)
        /\ AgentTrail(p) = (Range(AgentColumn(p.audio_buffer)) \ {0}) \cup Range(Numbers(p.agent_buffer))
        /\ UserTrail(p) = (Range(UserColumn(p.audio_buffer)) \ {0}) \cup Range(Numbers(p.user_buffer))
    BY DEF AgentTrail, UserTrail, Agents, Users
  <1>7. f.n \in Nat \ {0}
    BY DEF Taken
  <1>8. \A x \in Range(ac) \cup Range(b) : x < f.n
    <2>1. \A x \in AgentTrail(m) : x < f.n
      OBVIOUS
    <2> QED BY <1>6, <1>7, <2>1
  <1> HIDE DEF d, c
  <1>9. /\ p \in Mixer /\ p.agent_buffer = c /\ p.user_buffer = m.user_buffer
        /\ p.audio_buffer = m.audio_buffer /\ p.user_only_buffer = y
    BY <1>4, <1>5 DEF Mixer
  <1>10. /\ q \in Mixer
         /\ q.agent_buffer = p.agent_buffer /\ q.user_buffer = p.user_buffer
         /\ q.audio_buffer = p.audio_buffer /\ q.user_only_buffer = p.user_only_buffer
    <2> HIDE DEF p
    <2> QED BY <1>9, Flags
  <1> DEFINE e == Numbers(c)
  <1>11. e = Append(b, f.n) \/ (b # <<>> /\ Len(m.agent_buffer) = MAX_BUFFER_SIZE /\ e = Tail(Append(b, f.n)))
    <2>1. Len(m.agent_buffer) = MAX_BUFFER_SIZE => m.agent_buffer # <<>>
      BY EmptyList, ARAssumption
    <2> QED BY <1>1, <1>5, <2>1
  <1> HIDE DEF p, q, ac, uc, b, r, y, e
  <1>12. /\ InOrder(ac, e)
         /\ Range(e) \subseteq Range(b) \cup {f.n}
         /\ \A x \in Range(b) \ Range(e) : e = Tail(Append(b, f.n)) /\ x = b[1]
    <2>1. /\ ac \in Seq(Nat) /\ b \in Seq(Nat) /\ f.n \in Nat
          /\ (e = Append(b, f.n) \/ (b # <<>> /\ e = Tail(Append(b, f.n))))
      BY <1>1, <1>7, <1>11
    <2> QED BY <1>2, <1>8, <2>1, WaitingMore
  <1>13. Sound(p)
    <2>1. Len(p.agent_buffer) <= MAX_BUFFER_SIZE /\ Len(p.user_buffer) <= MAX_BUFFER_SIZE
      BY <1>2, <1>5, <1>9
    <2>2. /\ AgentColumn(p.audio_buffer) = ac /\ Numbers(p.agent_buffer) = e
          /\ UserColumn(p.audio_buffer) = uc /\ Numbers(p.user_buffer) = r
      BY <1>9 DEF ac, uc, e, r
    <2>3. /\ InOrder(AgentColumn(p.audio_buffer), Numbers(p.agent_buffer))
          /\ InOrder(UserColumn(p.audio_buffer), Numbers(p.user_buffer))
      BY <1>2, <1>12, <2>2
    <2>4. Sides(UserColumn(p.audio_buffer), Numbers(p.user_buffer), p.user_only_buffer)
      BY <1>2, <1>9, <1>12, <2>2
    <2> QED BY <1>9, <2>1, <2>3, <2>4 DEF Sound
  <1>14. /\ UserTrail(p) = UserTrail(m)
         /\ AgentTrail(p) = (Range(ac) \ {0}) \cup Range(e)
    BY <1>6, <1>9 DEF ac, uc, e, r
  <1>15. Sound(q) /\ AgentTrail(q) = AgentTrail(p) /\ UserTrail(q) = UserTrail(p)
    BY <1>10, <1>13, SameLists
  <1>16. Sound(w) /\ Kept(q, w) /\ ~BothPending(w)
    BY <1>3, <1>15, ProcessSound
  <1>17. AgentTrail(w) = (Range(ac) \ {0}) \cup Range(e) /\ UserTrail(w) = UserTrail(m)
    BY <1>14, <1>15, <1>16 DEF Kept
  <1>18. Range(w.user_only_buffer) \subseteq Range(y) \cup UserTrail(p)
    BY <1>9, <1>10, <1>15, <1>16 DEF Kept
  <1>19. AgentTrail(w) \subseteq AgentTrail(m) \cup {f.n}
    BY <1>6, <1>12, <1>17
  <1>20. ASSUME NEW x \in AgentTrail(m) \ AgentTrail(w)
         PROVE  Len(m.agent_buffer) = MAX_BUFFER_SIZE /\ x = m.agent_buffer[1].n
    <2>1. x \in Range(b) \ Range(e)
      BY <1>6, <1>17
    <2>2. e = Tail(Append(b, f.n)) /\ x = b[1]
      BY <1>12, <2>1
    <2>3. x \notin Range(Append(b, f.n)) => FALSE
      <3>1. f.n \in Nat
        BY <1>7
      <3>2. b \in Seq(Nat)
        BY <1>1
      <3>3. Range(Append(b, f.n)) = Range(b) \cup {f.n}
        BY <3>1, <3>2, BackValues
      <3> QED BY <2>1, <3>3
    <2>4. e # Append(b, f.n)
      BY <2>1, <2>3
    <2>5. b # <<>> /\ Len(m.agent_buffer) = MAX_BUFFER_SIZE
      BY <1>11, <2>4
    <2>6. m.agent_buffer # <<>>
      BY <2>5, EmptyList DEF b
    <2> QED BY <1>1, <2>2, <2>5, <2>6
  <1>21. Range(w.user_only_buffer) \subseteq Range(m.user_only_buffer) \cup UserTrail(m)
    BY <1>14, <1>15, <1>16, <1>17, <1>18, <1>19 DEF Kept, y
  <1> QED BY <1>3, <1>15, <1>16, <1>17, <1>19, <1>20, <1>21

\* The same for a newer frame of the caller.
LEMMA AddUserFrame ==
  ASSUME NEW m, Sound(m), NEW f \in Taken, f.s = "user", f.n \in 1..MaxFrames["user"],
         now \in 0..MaxTime, \A x \in UserTrail(m) \cup Range(m.user_only_buffer) : x < f.n, NEW w, w = addFrame(m, f)
  PROVE  /\ Sound(w) /\ ~BothPending(w) /\ Sound(Ready(m, f)) /\ Kept(Ready(m, f), w)
         /\ AgentTrail(w) = AgentTrail(m) /\ UserTrail(w) \subseteq UserTrail(m) \cup {f.n}
         /\ Range(w.user_only_buffer) \subseteq Range(m.user_only_buffer) \cup UserTrail(m) \cup {f.n}
         /\ \A x \in UserTrail(m) \ UserTrail(w) :
              Len(m.user_buffer) = MAX_BUFFER_SIZE /\ x = m.user_buffer[1].n
  <1> DEFINE d == Noted(m, f)
             c == Buffered(m.user_buffer, f.n)
             p == [d EXCEPT !.user_buffer = c]
             q == checkStreamActivity(p)
             ac == AgentColumn(m.audio_buffer)
             uc == UserColumn(m.audio_buffer)
             b == Numbers(m.user_buffer)
             r == Numbers(m.agent_buffer)
             y == m.user_only_buffer
  <1>1. /\ m \in Mixer /\ m.user_buffer \in Seq(Pending("user"))
        /\ m.user_buffer # <<>> => b # <<>>
        /\ ac \in Seq(Nat) /\ uc \in Seq(Nat) /\ b \in Seq(Nat)
        /\ m.user_buffer # <<>> => b[1] = m.user_buffer[1].n
    <2>1. m \in Mixer /\ m.user_buffer \in Seq(Pending("user"))
      BY Fields DEF Sound
    <2>2. m.user_buffer # <<>> => 1 \in DOMAIN m.user_buffer
      BY <2>1
    <2>3. /\ m.user_buffer # <<>> => b # <<>>
          /\ \A i \in DOMAIN m.user_buffer : b[i] = m.user_buffer[i].n
      BY <2>1, NumbersFacts DEF Streams
    <2> QED BY <2>1, <2>2, <2>3, Lists
  <1>2. /\ Len(m.agent_buffer) <= MAX_BUFFER_SIZE /\ Len(m.user_buffer) <= MAX_BUFFER_SIZE
        /\ InOrder(uc, b) /\ InOrder(ac, r) /\ Sides(uc, b, y)
    BY DEF Sound
  <1>3. w = processBuffers(q) /\ q = Ready(m, f)
    <2>1. p = IF f.s = "agent"
              THEN [d EXCEPT !.agent_buffer = Buffered(@, f.n)]
              ELSE [d EXCEPT !.user_buffer = Buffered(@, f.n)]
      BY <1>1, Flags
    <2> QED BY <2>1 DEF addFrame, Ready
  <1>4. /\ d \in Mixer
        /\ d.agent_buffer = m.agent_buffer /\ d.user_buffer = m.user_buffer
        /\ d.audio_buffer = m.audio_buffer /\ d.user_only_buffer = y
    BY <1>1, Flags
  <1>5. /\ c \in Seq(Pending("user")) /\ Len(c) <= MAX_BUFFER_SIZE
        /\ \/ Numbers(c) = Append(b, f.n)
           \/ Len(m.user_buffer) = MAX_BUFFER_SIZE /\ Numbers(c) = Tail(Append(b, f.n))
    BY <1>1, <1>2, BufferedFacts DEF Streams
  <1>6. /\ UserTrail(m) = (Range(uc) \ {0}) \cup Range(b)
        /\ AgentTrail(m) = (Range(ac) \ {0}) \cup Range(r)
        /\ UserTrail(p) = (Range(UserColumn(p.audio_buffer)) \ {0}) \cup Range(Numbers(p.user_buffer))
        /\ AgentTrail(p) = (Range(AgentColumn(p.audio_buffer)) \ {0}) \cup Range(Numbers(p.agent_buffer))
    BY DEF AgentTrail, UserTrail, Agents, Users
  <1>7. f.n \in Nat \ {0}
    BY DEF Taken
  <1>8. \A x \in Range(uc) \cup Range(b) : x < f.n
    <2>1. \A x \in UserTrail(m) : x < f.n
      OBVIOUS
    <2> QED BY <1>6, <1>7, <2>1
  <1> HIDE DEF d, c
  <1>9. /\ p \in Mixer /\ p.user_buffer = c /\ p.agent_buffer = m.agent_buffer
        /\ p.audio_buffer = m.audio_buffer /\ p.user_only_buffer = y
    BY <1>4, <1>5 DEF Mixer
  <1>10. /\ q \in Mixer
         /\ q.agent_buffer = p.agent_buffer /\ q.user_buffer = p.user_buffer
         /\ q.audio_buffer = p.audio_buffer /\ q.user_only_buffer = p.user_only_buffer
    <2> HIDE DEF p
    <2> QED BY <1>9, Flags
  <1> DEFINE e == Numbers(c)
  <1>11. e = Append(b, f.n) \/ (b # <<>> /\ Len(m.user_buffer) = MAX_BUFFER_SIZE /\ e = Tail(Append(b, f.n)))
    <2>1. Len(m.user_buffer) = MAX_BUFFER_SIZE => m.user_buffer # <<>>
      BY EmptyList, ARAssumption
    <2> QED BY <1>1, <1>5, <2>1
  <1> HIDE DEF p, q, ac, uc, b, r, y, e
  <1>12. /\ InOrder(uc, e)
         /\ Range(e) \subseteq Range(b) \cup {f.n}
         /\ \A x \in Range(b) \ Range(e) : e = Tail(Append(b, f.n)) /\ x = b[1]
         /\ Sides(uc, e, y)
    <2>1. /\ uc \in Seq(Nat) /\ b \in Seq(Nat) /\ f.n \in Nat
          /\ (e = Append(b, f.n) \/ (b # <<>> /\ e = Tail(Append(b, f.n))))
      BY <1>1, <1>7, <1>11
    <2>2. f.n \notin Range(y)
      <3>1. \A x \in Range(y) : x < f.n
        BY DEF y
      <3> QED BY <1>7, <3>1
    <2>3. Sides(uc, e, y)
      BY <1>2, <1>8, <2>1, <2>2, WaitingMore
    <2>4. /\ InOrder(uc, e)
          /\ Range(e) \subseteq Range(b) \cup {f.n}
          /\ \A x \in Range(b) \ Range(e) : e = Tail(Append(b, f.n)) /\ x = b[1]
      BY <1>2, <1>8, <2>1, WaitingMore
    <2> QED BY <2>3, <2>4
  <1>13. Sound(p)
    <2>1. Len(p.agent_buffer) <= MAX_BUFFER_SIZE /\ Len(p.user_buffer) <= MAX_BUFFER_SIZE
      BY <1>2, <1>5, <1>9
    <2>2. /\ UserColumn(p.audio_buffer) = uc /\ Numbers(p.user_buffer) = e
          /\ AgentColumn(p.audio_buffer) = ac /\ Numbers(p.agent_buffer) = r
      BY <1>9 DEF ac, uc, e, r
    <2>3. /\ InOrder(AgentColumn(p.audio_buffer), Numbers(p.agent_buffer))
          /\ InOrder(UserColumn(p.audio_buffer), Numbers(p.user_buffer))
      BY <1>2, <1>12, <2>2
    <2>4. Sides(UserColumn(p.audio_buffer), Numbers(p.user_buffer), p.user_only_buffer)
      BY <1>2, <1>9, <1>12, <2>2
    <2> QED BY <1>9, <2>1, <2>3, <2>4 DEF Sound
  <1>14. /\ AgentTrail(p) = AgentTrail(m)
         /\ UserTrail(p) = (Range(uc) \ {0}) \cup Range(e)
    BY <1>6, <1>9 DEF ac, uc, e, r
  <1>15. Sound(q) /\ AgentTrail(q) = AgentTrail(p) /\ UserTrail(q) = UserTrail(p)
    BY <1>10, <1>13, SameLists
  <1>16. Sound(w) /\ Kept(q, w) /\ ~BothPending(w)
    BY <1>3, <1>15, ProcessSound
  <1>17. UserTrail(w) = (Range(uc) \ {0}) \cup Range(e) /\ AgentTrail(w) = AgentTrail(m)
    BY <1>14, <1>15, <1>16 DEF Kept
  <1>18. Range(w.user_only_buffer) \subseteq Range(y) \cup UserTrail(p)
    BY <1>9, <1>10, <1>15, <1>16 DEF Kept
  <1>19. UserTrail(w) \subseteq UserTrail(m) \cup {f.n}
    BY <1>6, <1>12, <1>17
  <1>20. ASSUME NEW x \in UserTrail(m) \ UserTrail(w)
         PROVE  Len(m.user_buffer) = MAX_BUFFER_SIZE /\ x = m.user_buffer[1].n
    <2>1. x \in Range(b) \ Range(e)
      BY <1>6, <1>17
    <2>2. e = Tail(Append(b, f.n)) /\ x = b[1]
      BY <1>12, <2>1
    <2>3. x \notin Range(Append(b, f.n)) => FALSE
      <3>1. f.n \in Nat
        BY <1>7
      <3>2. b \in Seq(Nat)
        BY <1>1
      <3>3. Range(Append(b, f.n)) = Range(b) \cup {f.n}
        BY <3>1, <3>2, BackValues
      <3> QED BY <2>1, <3>3
    <2>4. e # Append(b, f.n)
      BY <2>1, <2>3
    <2>5. b # <<>> /\ Len(m.user_buffer) = MAX_BUFFER_SIZE
      BY <1>11, <2>4
    <2>6. m.user_buffer # <<>>
      BY <2>5, EmptyList DEF b
    <2> QED BY <1>1, <2>2, <2>5, <2>6
  <1>21. Range(w.user_only_buffer) \subseteq Range(m.user_only_buffer) \cup UserTrail(m) \cup {f.n}
    BY <1>14, <1>15, <1>16, <1>17, <1>18, <1>19 DEF Kept, y
  <1> QED BY <1>3, <1>15, <1>16, <1>17, <1>19, <1>20, <1>21

-----------------------------------------------------------------------------
(* The inductive invariant *)

\* The mixer is sound, and one stream at most is waiting for the other.
MixerOK == mixer # None => Sound(mixer) /\ ~BothPending(mixer)

\* The next number that writeFrame can be given of a stream.
Limit(s) == IF hand # None /\ hand.s = s THEN hand.n ELSE taken[s] + 1

\* What the mixer has of a stream was written after the last discard, and
\* before the frame in the media thread's hand.
Fresh ==
  mixer # None =>
    /\ \A n \in AgentTrail(mixer) : floor["agent"] <= n /\ n < Limit("agent")
    /\ \A n \in UserTrail(mixer) \cup Range(mixer.user_only_buffer) :
         floor["user"] <= n /\ n < Limit("user")

\* The frame in the hand is the last one taken; no discard is ahead of it.
Counted ==
  /\ \A s \in Streams : floor[s] <= Limit(s) /\ taken[s] <= MaxFrames[s]
  /\ hand # None => hand.n = taken[hand.s]

\* A call records only while it is up, into a mixer; until then nothing is in
\* the mixer, and until it stops nothing is handed over.
Staged ==
  /\ is_recording => life = "up" /\ mixer # None
  /\ ~is_recording /\ mixer # None => AgentTrail(mixer) = {} /\ UserTrail(mixer) = {}
  /\ life \in {"new", "up"} => uploads = <<>>
  /\ UploadedOnce

Ind == TypeOK /\ MixerOK /\ Fresh /\ Counted /\ Staged

\* All that a mixer holds are numbers of frames.
LEMMA TrailNumbers ==
  ASSUME NEW m \in Mixer
  PROVE  \A n \in AgentTrail(m) \cup UserTrail(m) \cup Range(m.user_only_buffer) : n \in Nat
  <1>1. ASSUME NEW q \in Seq(Nat) PROVE \A n \in Range(q) : n \in Nat
    BY DEF Range
  <1>2. /\ AgentColumn(m.audio_buffer) \in Seq(Nat) /\ UserColumn(m.audio_buffer) \in Seq(Nat)
        /\ Numbers(m.agent_buffer) \in Seq(Nat) /\ Numbers(m.user_buffer) \in Seq(Nat)
        /\ m.user_only_buffer \in Seq(Nat)
    BY Fields, Lists
  <1> QED BY <1>1, <1>2 DEF AgentTrail, UserTrail, Agents, Users

\* A mixer with nothing in it.
LEMMA EmptyMixer ==
  ASSUME NEW m \in Mixer, m.agent_buffer = <<>>, m.user_buffer = <<>>,
         m.audio_buffer = <<>>, m.user_only_buffer = <<>>
  PROVE  /\ Sound(m) /\ ~BothPending(m)
         /\ AgentTrail(m) = {} /\ UserTrail(m) = {} /\ Range(m.user_only_buffer) = {}
  <1>1. AgentColumn(<<>>) = <<>> /\ UserColumn(<<>>) = <<>>
    BY DEF AgentColumn, UserColumn
  <1>2. InOrder(<<>>, <<>>)
    BY DEF InOrder
  <1>3. Sides(<<>>, <<>>, <<>>)
    BY DEF Sides, Range
  <1>4. Len(<<>>) <= MAX_BUFFER_SIZE
    BY EmptyList, ARAssumption
  <1>5. Sound(m)
    BY <1>1, <1>2, <1>3, <1>4, EmptyList DEF Sound
  <1>6. ~BothPending(m)
    BY DEF BothPending
  <1>7. AgentTrail(m) = {} /\ UserTrail(m) = {} /\ Range(m.user_only_buffer) = {}
    BY <1>1, EmptyList DEF AgentTrail, UserTrail, Agents, Users
  <1> QED BY <1>5, <1>6, <1>7

\* The mixer that a recording starts with, and the one after a discard.
LEMMA EmptyMixers ==
  ASSUME now \in 0..MaxTime
  PROVE  /\ NewMixer \in Mixer
         /\ NewMixer.agent_buffer = <<>> /\ NewMixer.user_buffer = <<>>
         /\ NewMixer.audio_buffer = <<>> /\ NewMixer.user_only_buffer = <<>>
         /\ \A m \in Mixer :
              /\ clearBuffers(m) \in Mixer
              /\ clearBuffers(m).agent_buffer = <<>> /\ clearBuffers(m).user_buffer = <<>>
              /\ clearBuffers(m).audio_buffer = <<>> /\ clearBuffers(m).user_only_buffer = <<>>
  <1>1. \A S : <<>> \in Seq(S)
    BY EmptyList
  <1>2. NewMixer \in Mixer
    BY <1>1 DEF NewMixer, Mixer
  <1>3. \A m \in Mixer : clearBuffers(m) \in Mixer
    BY <1>1 DEF clearBuffers, Mixer
  <1> QED BY <1>2, <1>3 DEF NewMixer, clearBuffers, Mixer

\* The invariant holds initially.
LEMMA IndInit == Init => Ind
  <1> SUFFICES ASSUME Init PROVE Ind
    OBVIOUS
  <1>1. now \in 0..MaxTime
    BY ARAssumption DEF Init
  <1>2. /\ mixer \in Mixer /\ Sound(mixer) /\ ~BothPending(mixer)
        /\ AgentTrail(mixer) = {} /\ UserTrail(mixer) = {} /\ Range(mixer.user_only_buffer) = {}
    <2>1. /\ mixer \in Mixer /\ mixer.agent_buffer = <<>> /\ mixer.user_buffer = <<>>
          /\ mixer.audio_buffer = <<>> /\ mixer.user_only_buffer = <<>>
      BY <1>1, EmptyMixers DEF Init
    <2> QED BY <2>1, EmptyMixer
  <1>3. mixer # None
    BY <1>2, ARAssumption
  <1>4. uploads \in Seq(Upload) /\ uploads = <<>>
    BY EmptyList DEF Init
  <1>5. TypeOK
    <2>1. Len(mixer.agent_buffer) <= MAX_BUFFER_SIZE /\ Len(mixer.user_buffer) <= MAX_BUFFER_SIZE
      BY <1>2 DEF Sound
    <2>2. taken \in [Streams -> Nat] /\ floor \in [Streams -> Nat \ {0}]
      BY DEF Init
    <2>3. is_recording = FALSE /\ hand = None /\ ahead \in 0..MaxBurst /\ life = "new"
      BY ARAssumption DEF Init
    <2> QED BY <1>1, <1>2, <1>4, <2>1, <2>2, <2>3 DEF TypeOK
  <1>6. Counted
    <2>1. \A q \in Streams : taken[q] = 0 /\ floor[q] = 1 /\ Limit(q) = 1 /\ MaxFrames[q] \in Nat
      BY ARAssumption DEF Limit, Init
    <2> QED BY <2>1 DEF Counted, Init
  <1>7. Staged
    BY <1>2, <1>4 DEF Staged, UploadedOnce, Init
  <1> QED BY <1>2, <1>5, <1>6, <1>7 DEF Ind, MixerOK, Fresh

\* The frame in the hand is written to a mixer with older frames only, after
\* the last discard.
LEMMA HandFacts ==
  ASSUME Ind, hand # None, mixer # None
  PROVE  /\ hand \in Taken /\ hand.s \in Streams /\ hand.n \in 1..MaxFrames[hand.s]
         /\ now \in 0..MaxTime /\ mixer \in Mixer /\ Sound(mixer)
         /\ hand.n = taken[hand.s] /\ floor[hand.s] <= hand.n
         /\ hand.s = "agent" => \A x \in AgentTrail(mixer) : x < hand.n
         /\ hand.s = "user" =>
              \A x \in UserTrail(mixer) \cup Range(mixer.user_only_buffer) : x < hand.n
  <1>1. /\ hand \in Taken /\ now \in 0..MaxTime /\ mixer \in Mixer /\ taken \in [Streams -> Nat]
    BY DEF Ind, TypeOK
  <1>2. hand.s \in Streams /\ hand.n \in Nat \ {0}
    BY <1>1 DEF Taken
  <1>3. Sound(mixer)
    BY DEF Ind, MixerOK
  <1>4. hand.n = taken[hand.s] /\ Limit(hand.s) = hand.n
    BY DEF Ind, Counted, Limit
  <1>5. floor[hand.s] <= hand.n /\ taken[hand.s] <= MaxFrames[hand.s]
    BY <1>2, <1>4 DEF Ind, Counted
  <1>6. hand.n \in 1..MaxFrames[hand.s]
    <2>1. MaxFrames[hand.s] \in Nat
      BY <1>2, ARAssumption
    <2> QED BY <1>2, <1>4, <1>5, <2>1
  <1>7. hand.s = "agent" => \A x \in AgentTrail(mixer) : x < hand.n
    BY <1>4 DEF Ind, Fresh
  <1>8. hand.s = "user" =>
          \A x \in UserTrail(mixer) \cup Range(mixer.user_only_buffer) : x < hand.n
    BY <1>4 DEF Ind, Fresh
  <1> QED BY <1>1, <1>2, <1>3, <1>4, <1>5, <1>6, <1>7, <1>8

\* Every step that leaves the mixer alone leaves what is said of it alone.
LEMMA SameMixer ==
  ASSUME Ind, mixer' = mixer
  PROVE  /\ MixerOK'
         /\ mixer' # None => /\ Len(mixer'.agent_buffer) <= MAX_BUFFER_SIZE
                             /\ Len(mixer'.user_buffer) <= MAX_BUFFER_SIZE
         /\ mixer' \in Mixer \cup {None}
  BY DEF Ind, MixerOK, TypeOK

\* A frame is taken: the next number becomes that of the frame in the hand.
LEMMA IndTake == ASSUME Ind, NEW s \in Streams, TakeFrame(s) PROVE Ind'
  <1> USE DEF Ind, TakeFrame
  <1>1. PICK b \in BOOLEAN : hand' = [s |-> s, n |-> taken[s] + 1, silent |-> b]
    OBVIOUS
  <1>2. taken \in [Streams -> Nat] /\ taken[s] \in Nat /\ MaxFrames[s] \in Nat
    BY ARAssumption DEF TypeOK
  <1>3. /\ hand' \in Taken /\ hand' # None /\ hand'.s = s /\ hand'.n = taken[s] + 1
        /\ taken'[s] = taken[s] + 1 /\ \A q \in Streams \ {s} : taken'[q] = taken[q]
    BY <1>1, <1>2, ARAssumption DEF Taken
  <1>4. \A q \in Streams : Limit(q)' = Limit(q)
    BY <1>3 DEF Limit
  <1>5. TypeOK'
    <2>1. ahead' \in 0..MaxBurst
      BY ARAssumption DEF TypeOK
    <2>2. taken' \in [Streams -> Nat]
      BY <1>2
    <2> QED BY <1>3, <2>1, <2>2, SameMixer DEF TypeOK
  <1>6. Fresh'
    BY <1>4 DEF Fresh, Streams
  <1>7. Counted'
    <2>1. ASSUME NEW q \in Streams PROVE taken'[q] <= MaxFrames[q] /\ floor'[q] <= Limit(q)'
      BY <1>2, <1>3, <1>4 DEF Counted
    <2> QED BY <1>3, <2>1 DEF Counted
  <1>8. Staged'
    BY DEF Staged, UploadedOnce
  <1> QED BY <1>5, <1>6, <1>7, <1>8, SameMixer

\* The frame in the hand is written, or dropped when nothing is recorded.
LEMMA IndWrite == ASSUME Ind, writeFrame PROVE Ind'
  <1> USE DEF Ind, writeFrame
  <1>1. /\ hand \in Taken /\ taken \in [Streams -> Nat] /\ hand.s \in Streams /\ hand' = None
        /\ hand.n = taken[hand.s] /\ floor \in [Streams -> Nat \ {0}]
    BY DEF TypeOK, Counted, Taken
  <1>2. \A q \in Streams : Limit(q)' = taken[q] + 1
    BY DEF Limit
  <1>3. \A q \in Streams : Limit(q) <= Limit(q)' /\ Limit(q) \in Nat /\ Limit(q)' \in Nat
    <2> SUFFICES ASSUME NEW q \in Streams PROVE Limit(q) \in {taken[q], taken[q] + 1} /\ taken[q] \in Nat
      BY <1>2
    <2> QED BY <1>1 DEF Limit
  <1>4. Counted'
    <2>1. ASSUME NEW q \in Streams PROVE floor[q] <= Limit(q)' /\ taken[q] <= MaxFrames[q]
      <3>1. floor[q] <= Limit(q) /\ floor[q] \in Nat /\ taken[q] <= MaxFrames[q]
        BY <1>1 DEF Counted
      <3> QED BY <1>3, <3>1
    <2> QED BY <2>1 DEF Counted
  <1>5. CASE ~(is_recording /\ mixer # None)
    <2>1. mixer' = mixer
      BY <1>5
    <2>2. TypeOK'
      BY <2>1 DEF TypeOK
    <2>3. Fresh'
      <3> SUFFICES ASSUME mixer # None PROVE Fresh'
        BY <2>1 DEF Fresh
      <3>1. AgentTrail(mixer) = {} /\ UserTrail(mixer) = {}
        BY <1>5 DEF Staged
      <3>2. Range(mixer.user_only_buffer) \subseteq Nat
        <4>1. mixer.user_only_buffer \in Seq(Nat)
          BY Fields DEF TypeOK
        <4> QED BY <4>1 DEF Range
      <3>3. ASSUME NEW n \in Range(mixer.user_only_buffer)
            PROVE  floor["user"] <= n /\ n < Limit("user")'
        <4>1. floor["user"] <= n /\ n < Limit("user") /\ n \in Nat
          BY <3>2 DEF Fresh
        <4>2. Limit("user") <= Limit("user")' /\ Limit("user") \in Nat /\ Limit("user")' \in Nat
          BY <1>3 DEF Streams
        <4> QED BY <4>1, <4>2
      <3> QED BY <2>1, <3>1, <3>3 DEF Fresh
    <2>4. Staged'
      BY <2>1 DEF Staged, UploadedOnce
    <2> QED BY <1>4, <2>1, <2>2, <2>3, <2>4, SameMixer
  <1>6. CASE is_recording /\ mixer # None
    <2>1. mixer' = addFrame(mixer, hand)
      BY <1>6
    <2>2. /\ hand.n \in 1..MaxFrames[hand.s] /\ now \in 0..MaxTime /\ mixer \in Mixer
          /\ Sound(mixer) /\ floor[hand.s] <= hand.n
          /\ hand.s = "agent" => \A x \in AgentTrail(mixer) : x < hand.n
          /\ hand.s = "user" =>
               \A x \in UserTrail(mixer) \cup Range(mixer.user_only_buffer) : x < hand.n
      BY <1>6, HandFacts
    <2>3. /\ Sound(mixer') /\ ~BothPending(mixer')
          /\ \A n \in AgentTrail(mixer') :
               n \in AgentTrail(mixer) \/ (hand.s = "agent" /\ n = hand.n)
          /\ \A n \in UserTrail(mixer') \cup Range(mixer'.user_only_buffer) :
               \/ n \in UserTrail(mixer) \cup Range(mixer.user_only_buffer)
               \/ hand.s = "user" /\ n = hand.n
      <3>1. CASE hand.s = "agent"
        <4>1. /\ Sound(mixer') /\ ~BothPending(mixer')
              /\ UserTrail(mixer') = UserTrail(mixer)
              /\ AgentTrail(mixer') \subseteq AgentTrail(mixer) \cup {hand.n}
              /\ Range(mixer'.user_only_buffer) \subseteq Range(mixer.user_only_buffer) \cup UserTrail(mixer)
          BY <1>1, <2>1, <2>2, <3>1, AddAgentFrame
        <4> QED BY <3>1, <4>1
      <3>2. CASE hand.s = "user"
        <4>1. /\ Sound(mixer') /\ ~BothPending(mixer')
              /\ AgentTrail(mixer') = AgentTrail(mixer)
              /\ UserTrail(mixer') \subseteq UserTrail(mixer) \cup {hand.n}
              /\ Range(mixer'.user_only_buffer) \subseteq
                   Range(mixer.user_only_buffer) \cup UserTrail(mixer) \cup {hand.n}
          BY <1>1, <2>1, <2>2, <3>2, AddUserFrame
        <4> QED BY <3>2, <4>1
      <3> QED BY <1>1, <3>1, <3>2 DEF Streams
    <2>4. mixer' \in Mixer /\ mixer' # None
      BY <2>3, ARAssumption DEF Sound
    <2>5. TypeOK'
      BY <2>3, <2>4 DEF TypeOK, Sound
    <2>6. MixerOK'
      BY <2>3 DEF MixerOK
    <2>7. Fresh'
      <3>1. ASSUME NEW q \in Streams, hand.s = q PROVE hand.n < Limit(q)'
        <4>1. taken[q] \in Nat /\ Limit(q)' = taken[q] + 1 /\ hand.n = taken[q]
          BY <1>1, <1>2, <3>1
        <4> QED BY <4>1
      <3>2. ASSUME NEW n \in Nat, NEW q \in Streams, floor[q] <= n, n < Limit(q)
            PROVE  n < Limit(q)'
        <4>1. Limit(q) <= Limit(q)' /\ Limit(q) \in Nat /\ Limit(q)' \in Nat
          BY <1>3
        <4> QED BY <3>2, <4>1
      <3>3. "agent" \in Streams /\ "user" \in Streams /\ floor' = floor
        BY DEF Streams
      <3>4. ASSUME NEW n \in AgentTrail(mixer') PROVE floor["agent"] <= n /\ n < Limit("agent")'
        <4>1. CASE n \in AgentTrail(mixer)
          <5>1. floor["agent"] <= n /\ n < Limit("agent") /\ n \in Nat
            BY <1>6, <2>2, <4>1, TrailNumbers DEF Fresh
          <5> QED BY <3>2, <3>3, <5>1
        <4>2. CASE hand.s = "agent" /\ n = hand.n
          BY <2>2, <3>1, <3>3, <4>2
        <4> QED BY <2>3, <4>1, <4>2
      <3>5. ASSUME NEW n \in UserTrail(mixer') \cup Range(mixer'.user_only_buffer)
            PROVE  floor["user"] <= n /\ n < Limit("user")'
        <4>1. CASE n \in UserTrail(mixer) \cup Range(mixer.user_only_buffer)
          <5>1. floor["user"] <= n /\ n < Limit("user") /\ n \in Nat
            BY <1>6, <2>2, <4>1, TrailNumbers DEF Fresh
          <5> QED BY <3>2, <3>3, <5>1
        <4>2. CASE hand.s = "user" /\ n = hand.n
          BY <2>2, <3>1, <3>3, <4>2
        <4> QED BY <2>3, <4>1, <4>2
      <3> QED BY <3>3, <3>4, <3>5 DEF Fresh
    <2>8. Staged'
      BY <1>6, <2>4 DEF Staged, UploadedOnce
    <2> QED BY <1>4, <2>5, <2>6, <2>7, <2>8
  <1> QED BY <1>5, <1>6

\* Time passes.
LEMMA IndTick == ASSUME Ind, Tick PROVE Ind'
  <1> USE DEF Ind, Tick
  <1>1. now' \in 0..MaxTime
    BY ARAssumption DEF TypeOK
  <1>2. TypeOK'
    <2>1. ahead' \in 0..MaxBurst
      BY ARAssumption DEF TypeOK
    <2> QED BY <1>1, <2>1 DEF TypeOK
  <1>3. Fresh' /\ Counted'
    BY DEF Fresh, Counted, Limit
  <1>4. Staged'
    BY DEF Staged, UploadedOnce
  <1> QED BY <1>2, <1>3, <1>4, SameMixer

\* The call is answered: the recording begins with an empty mixer.
LEMMA IndStart == ASSUME Ind, startRecording PROVE Ind'
  <1> USE DEF Ind, startRecording
  <1>1. ~is_recording
    BY DEF Staged
  <1>2. /\ mixer' \in Mixer /\ Sound(mixer') /\ ~BothPending(mixer')
        /\ AgentTrail(mixer') = {} /\ UserTrail(mixer') = {} /\ Range(mixer'.user_only_buffer) = {}
    <2>1. mixer' = NewMixer /\ now \in 0..MaxTime
      BY <1>1 DEF TypeOK
    <2>2. /\ mixer' \in Mixer /\ mixer'.agent_buffer = <<>> /\ mixer'.user_buffer = <<>>
          /\ mixer'.audio_buffer = <<>> /\ mixer'.user_only_buffer = <<>>
      BY <2>1, EmptyMixers
    <2> QED BY <2>2, EmptyMixer
  <1>3. mixer' # None
    BY <1>2, ARAssumption
  <1>4. TypeOK'
    BY <1>2 DEF TypeOK, Sound
  <1>5. MixerOK' /\ Fresh'
    BY <1>2 DEF MixerOK, Fresh
  <1>6. Counted'
    BY DEF Counted, Limit
  <1>7. Staged'
    BY <1>3 DEF Staged, UploadedOnce
  <1> QED BY <1>4, <1>5, <1>6, <1>7

\* A discard empties the mixer; what comes next is not older than the hand.
LEMMA IndDiscard == ASSUME Ind, discardBufferedAudio PROVE Ind'
  <1> USE DEF Ind, discardBufferedAudio
  <1>1. mixer \in Mixer /\ now \in 0..MaxTime /\ taken \in [Streams -> Nat]
    BY DEF TypeOK
  <1>2. /\ mixer' \in Mixer /\ Sound(mixer') /\ ~BothPending(mixer')
        /\ AgentTrail(mixer') = {} /\ UserTrail(mixer') = {} /\ Range(mixer'.user_only_buffer) = {}
    <2>1. /\ mixer' \in Mixer /\ mixer'.agent_buffer = <<>> /\ mixer'.user_buffer = <<>>
          /\ mixer'.audio_buffer = <<>> /\ mixer'.user_only_buffer = <<>>
      BY <1>1, EmptyMixers
    <2> QED BY <2>1, EmptyMixer
  <1>3. mixer' # None
    BY <1>2, ARAssumption
  <1>4. \A q \in Streams : floor'[q] = Limit(q) /\ Limit(q)' = Limit(q)
    BY DEF Limit
  <1>5. \A q \in Streams : Limit(q) \in Nat \ {0}
    <2>1. hand # None => hand.n \in Nat \ {0}
      BY DEF TypeOK, Taken
    <2> QED BY <1>1, <2>1 DEF Limit
  <1>6. floor' \in [Streams -> Nat \ {0}]
    <2>1. floor' = [q \in Streams |-> Limit(q)]
      BY DEF Limit
    <2> QED BY <1>5, <2>1
  <1>7. TypeOK'
    BY <1>2, <1>6 DEF TypeOK, Sound
  <1>8. MixerOK' /\ Fresh'
    BY <1>2 DEF MixerOK, Fresh
  <1>9. Counted'
    <2>1. ASSUME NEW q \in Streams PROVE floor'[q] <= Limit(q)' /\ taken[q] <= MaxFrames[q]
      BY <1>4, <1>5 DEF Counted
    <2> QED BY <2>1 DEF Counted
  <1>10. Staged'
    BY <1>3 DEF Staged, UploadedOnce
  <1> QED BY <1>7, <1>8, <1>9, <1>10

\* What a stop hands over: one recording of each kind at most.
LEMMA HandOver ==
  ASSUME NEW p \in Seq(Entry), NEW q \in Seq(Nat),
         NEW u, u = <<>> \o Uploaded("mixed", p) \o Uploaded("user", q)
  PROVE  u \in Seq(Upload) /\ \A i, j \in DOMAIN u : u[i].folder = u[j].folder => i = j
  <1> DEFINE x == Uploaded("mixed", p)
             y == Uploaded("user", q)
  <1>1. /\ x \in Seq(Upload) /\ Len(x) <= 1 /\ \A i \in DOMAIN x : x[i].folder = "mixed"
        /\ y \in Seq(Upload) /\ Len(y) <= 1 /\ \A i \in DOMAIN y : y[i].folder = "user"
    <2>1. ASSUME NEW folder \in {"mixed", "user"}, NEW o, Len(o) \in Nat, o # <<>> => Len(o) # 0
          PROVE  /\ Uploaded(folder, o) \in Seq(Upload) /\ Len(Uploaded(folder, o)) <= 1
                 /\ \A i \in DOMAIN Uploaded(folder, o) : Uploaded(folder, o)[i].folder = folder
      <3>1. CASE o = <<>>
        <4>1. Uploaded(folder, o) = <<>>
          BY <3>1 DEF Uploaded
        <4> QED BY <4>1
      <3>2. CASE o # <<>>
        <4> DEFINE r == [folder |-> folder, length |-> Len(o)]
        <4>1. r \in Upload /\ r.folder = folder
          BY <2>1, <3>2 DEF Upload
        <4>2. Uploaded(folder, o) = <<r>>
          BY <3>2 DEF Uploaded
        <4> HIDE DEF r
        <4> QED BY <4>1, <4>2
      <3> QED BY <3>1, <3>2
    <2>2. Len(p) \in Nat /\ Len(q) \in Nat /\ (p # <<>> => Len(p) # 0) /\ (q # <<>> => Len(q) # 0)
      OBVIOUS
    <2> QED BY <2>1, <2>2
  <1> HIDE DEF x, y
  <1>2. u = x \o y
    <2>1. <<>> \o x = x
      BY <1>1
    <2> QED BY <2>1 DEF x, y
  <1>3. /\ u \in Seq(Upload) /\ DOMAIN u = 1..(Len(x) + Len(y))
        /\ DOMAIN x = 1..Len(x) /\ Len(x) \in Nat /\ DOMAIN y = 1..Len(y) /\ Len(y) \in Nat
        /\ \A i \in 1..Len(x) : u[i] = x[i]
        /\ \A i \in 1..Len(y) : u[Len(x) + i] = y[i]
    <2>1. x \in Seq(Upload) /\ y \in Seq(Upload)
      BY <1>1
    <2> DEFINE v == x \o y
    <2>2. /\ v \in Seq(Upload) /\ DOMAIN v = 1..(Len(x) + Len(y))
          /\ DOMAIN x = 1..Len(x) /\ Len(x) \in Nat /\ DOMAIN y = 1..Len(y) /\ Len(y) \in Nat
          /\ \A i \in 1..Len(x) : v[i] = x[i]
          /\ \A i \in 1..Len(y) : v[Len(x) + i] = y[i]
      BY <2>1, Joined
    <2> HIDE DEF v
    <2>3. u = v
      BY <1>2 DEF v
    <2> QED BY <2>2, <2>3
  <1>4. ASSUME NEW i \in DOMAIN u
        PROVE  \/ i = 1 /\ Len(x) = 1 /\ u[i].folder = "mixed"
               \/ i = Len(x) + 1 /\ u[i].folder = "user"
    <2>1. CASE i <= Len(x)
      BY <1>1, <1>3, <2>1
    <2>2. CASE i > Len(x)
      <3>1. i = Len(x) + 1 /\ 1 \in 1..Len(y)
        BY <1>1, <1>3, <2>2
      <3>2. u[i] = y[1] /\ y[1].folder = "user"
        BY <1>1, <1>3, <3>1
      <3> QED BY <3>1, <3>2
    <2> QED BY <1>3, <2>1, <2>2
  <1>5. ASSUME NEW i \in DOMAIN u, NEW j \in DOMAIN u, u[i].folder = u[j].folder PROVE i = j
    BY <1>4, <1>5
  <1> QED BY <1>3, <1>5

\* A call that stops, or its recorder that is destroyed: what was recorded is
\* handed over, once.
LEMMA IndStop ==
  ASSUME Ind, stopRecording, life' \in {"down", "gone"},
         UNCHANGED <<hand, taken, ahead, now, floor>>
  PROVE  Ind'
  <1> USE DEF Ind
  <1>1. Counted'
    BY DEF Counted, Limit
  <1>2. CASE ~is_recording
    <2>1. UNCHANGED <<is_recording, mixer, uploads>>
      BY <1>2 DEF stopRecording
    <2>2. TypeOK'
      BY <2>1 DEF TypeOK
    <2>3. Fresh'
      BY <2>1 DEF Fresh, Limit
    <2>4. Staged'
      BY <1>2, <2>1 DEF Staged, UploadedOnce
    <2> QED BY <1>1, <2>1, <2>2, <2>3, <2>4, SameMixer
  <1>3. CASE is_recording
    <2>1. /\ is_recording' = FALSE /\ mixer' = None
          /\ uploads' = uploads \o Uploaded("mixed", mixer.audio_buffer)
                                \o Uploaded("user", mixer.user_only_buffer)
      BY <1>3 DEF stopRecording
    <2>2. uploads = <<>> /\ mixer \in Mixer
      BY <1>3 DEF Staged, TypeOK
    <2>3. mixer.audio_buffer \in Seq(Entry) /\ mixer.user_only_buffer \in Seq(Nat)
      BY <2>2, Fields
    <2>4. /\ uploads' \in Seq(Upload)
          /\ \A i, j \in DOMAIN uploads' : uploads'[i].folder = uploads'[j].folder => i = j
      <3>1. ASSUME NEW v, v = <<>> \o Uploaded("mixed", mixer.audio_buffer)
                                \o Uploaded("user", mixer.user_only_buffer)
            PROVE  v \in Seq(Upload) /\ \A i, j \in DOMAIN v : v[i].folder = v[j].folder => i = j
        BY <2>3, <3>1, HandOver
      <3> QED BY <2>1, <2>2, <3>1
    <2>5. TypeOK'
      BY <2>1, <2>4 DEF TypeOK
    <2>6. MixerOK' /\ Fresh'
      BY <2>1 DEF MixerOK, Fresh
    <2>7. Staged'
      BY <2>1, <2>4 DEF Staged, UploadedOnce
    <2> QED BY <1>1, <2>5, <2>6, <2>7
  <1> QED BY <1>2, <1>3

\* Every step keeps the invariant.
LEMMA IndNext == Ind /\ [Next]_vars => Ind'
  <1> SUFFICES ASSUME Ind, [Next]_vars PROVE Ind'
    OBVIOUS
  <1>1. ASSUME NEW s \in Streams, TakeFrame(s) PROVE Ind'
    BY <1>1, IndTake
  <1>2. CASE writeFrame
    BY <1>2, IndWrite
  <1>3. CASE Tick
    BY <1>3, IndTick
  <1>4. CASE startRecording
    BY <1>4, IndStart
  <1>5. CASE discardBufferedAudio
    BY <1>5, IndDiscard
  <1>6. CASE CallStops
    BY <1>6, IndStop DEF CallStops
  <1>7. CASE RecorderDestroyed
    BY <1>7, IndStop DEF RecorderDestroyed
  <1>8. CASE UNCHANGED vars
    BY <1>8 DEF vars, Ind, TypeOK, MixerOK, Fresh, Counted, Staged, UploadedOnce, Limit
  <1> QED BY <1>1, <1>2, <1>3, <1>4, <1>5, <1>6, <1>7, <1>8 DEF Next

\* The invariant holds always.
LEMMA Invariant == Spec => []Ind
  BY IndInit, IndNext, PTL DEF Spec

-----------------------------------------------------------------------------
(* How much of the caller a pause of the agent costs *)

\* U is what the mixed recording has of the caller, a and u are the pending
\* frames, T is the time of the agent's last frame, d the time now, L the last
\* frame of the caller that was written and c the last one that was not early.

\* But for early ones the caller sends one frame per period at most, and the
\* agent's last frame is the last one pending.
Timely(a, u, T, c, d) ==
  /\ a # <<>> => a[Len(a)].t = T
  /\ \A i \in DOMAIN u : u[i].t <= d /\ c - u[i].n <= d - u[i].t

\* The pending frames of the caller are the latest ones without a gap; if none
\* is pending then the latest was recorded.
Consecutive(U, u, L) ==
  /\ \A i \in DOMAIN u : u[i].n = (L - Len(u)) + i
  /\ (u = <<>> /\ U # {}) => L \in U

\* Few frames are missing between what is recorded of the caller and what waits,
Near(U, u) == (u # <<>> /\ U # {}) => \E n \in U : u[1].n - n <= SYNC + MaxBurst + 1

\* or none.
Follows(U, u) == U # {} => u[1].n - 1 \in U

\* While the loop runs, a frame is missing only if the agent has just returned.
InStep(U, a, u, d) == (a # <<>> /\ u # <<>>) => (a[1].t = d \/ Follows(U, u))

\* When the agent has nothing pending, the caller was recorded until about the
\* time of the agent's last frame.
Soon(U, a, T, c, d) ==
  (a = <<>> /\ U # {}) => \E n \in U : c - n <= (d - T) + SYNC

\* From every frame of the caller but the last the next one is near.
Chain(S, L) == \A n \in S : n < L => \E k \in S : n < k /\ k <= n + SYNC + MaxBurst + 2

\* What the loop keeps; the caller counts as active since its first frame.
Paced(m, L, c, d) ==
  /\ Timely(m.agent_buffer, m.user_buffer, m.last_agent_frame, c, d)
  /\ Consecutive(Users(m), m.user_buffer, L)
  /\ m.agent_stream_active =>
       /\ Near(Users(m), m.user_buffer)
       /\ InStep(Users(m), m.agent_buffer, m.user_buffer, d)
       /\ Soon(Users(m), m.agent_buffer, m.last_agent_frame, c, d)
  /\ UserTrail(m) # {} => m.user_stream_active

\* Pending frames are numbers and times.
LEMMA PendingNumbers ==
  ASSUME NEW s \in Streams, NEW b \in Seq(Pending(s))
  PROVE  /\ Len(b) \in Nat /\ DOMAIN b = 1..Len(b)
         /\ \A i \in 1..Len(b) : b[i].n \in Nat \ {0} /\ b[i].t \in Nat
  <1>1. Len(b) \in Nat /\ DOMAIN b = 1..Len(b) /\ \A i \in 1..Len(b) : b[i] \in Pending(s)
    OBVIOUS
  <1>2. \A f \in Pending(s) : f.n \in Nat \ {0} /\ f.t \in Nat
    BY ARAssumption DEF Pending
  <1> QED BY <1>1, <1>2

\* The caller's frames in the mixed recording are numbers, less than the
\* pending ones.
LEMMA UsersFacts ==
  ASSUME NEW m, Sound(m)
  PROVE  /\ Users(m) \in SUBSET Nat
         /\ \A n \in Users(m) : \A i \in DOMAIN m.user_buffer : n < m.user_buffer[i].n
  <1> DEFINE uc == UserColumn(m.audio_buffer)
             un == Numbers(m.user_buffer)
  <1>1. uc \in Seq(Nat) /\ InOrder(uc, un)
    BY Lists DEF Sound
  <1>2. /\ DOMAIN un = DOMAIN m.user_buffer
        /\ \A i \in DOMAIN m.user_buffer : un[i] = m.user_buffer[i].n
    BY Fields, NumbersFacts DEF Sound, Streams
  <1>3. Users(m) = Range(uc) \ {0}
    BY DEF Users
  <1> HIDE DEF uc, un
  <1>4. Range(uc) \subseteq Nat
    BY <1>1 DEF Range
  <1>5. \A n \in Range(uc) : \A i \in DOMAIN un : n < un[i]
    BY <1>1 DEF InOrder, Range
  <1> QED BY <1>2, <1>3, <1>4, <1>5

\* What an iteration does to the caller's frames in the mixed recording.
LEMMA MixFrontUsers ==
  ASSUME NEW m, Sound(m), BothPending(m)
  PROVE  LET w == MixFront(m)
             a == m.agent_buffer
             u == m.user_buffer
         IN /\ SameFlags(m, w)
            /\ \/ /\ a[1].t - u[1].t > SYNC /\ Users(w) = Users(m) \cup {u[1].n}
                  /\ w.agent_buffer = a /\ w.user_buffer = Tail(u)
               \/ /\ u[1].t - a[1].t > SYNC /\ Users(w) = Users(m)
                  /\ w.agent_buffer = Tail(a) /\ w.user_buffer = u
               \/ /\ ~(a[1].t - u[1].t > SYNC) /\ ~(u[1].t - a[1].t > SYNC)
                  /\ Users(w) = Users(m) \cup {u[1].n}
                  /\ w.agent_buffer = Tail(a) /\ w.user_buffer = Tail(u)
  <1> DEFINE w == MixFront(m)
             a == m.agent_buffer
             u == m.user_buffer
             o == m.audio_buffer
             uc == UserColumn(o)
  <1>1. /\ m \in Mixer /\ a \in Seq(Pending("agent")) /\ u \in Seq(Pending("user"))
        /\ o \in Seq(Entry) /\ uc \in Seq(Nat) /\ a # <<>> /\ u # <<>>
    BY Fields, Lists DEF BothPending, Sound
  <1>2. /\ a[1] \in Pending("agent") /\ u[1] \in Pending("user") /\ u[1].n \in Nat \ {0}
    <2>1. a[1] \in Pending("agent") /\ u[1] \in Pending("user")
      BY <1>1
    <2> QED BY <2>1, ARAssumption DEF Pending
  <1>3. /\ SameFlags(m, w)
        /\ \/ /\ a[1].t - u[1].t > SYNC /\ w.audio_buffer = Append(o, UserAlone(u[1]))
              /\ w.agent_buffer = a /\ w.user_buffer = Tail(u)
           \/ /\ u[1].t - a[1].t > SYNC /\ w.audio_buffer = Append(o, AgentAlone(a[1]))
              /\ w.agent_buffer = Tail(a) /\ w.user_buffer = u
           \/ /\ ~(a[1].t - u[1].t > SYNC) /\ ~(u[1].t - a[1].t > SYNC)
              /\ w.audio_buffer = Append(o, Both(a[1], u[1]))
              /\ w.agent_buffer = Tail(a) /\ w.user_buffer = Tail(u)
    BY <1>1, MixFrontLists
  <1>4. Users(m) = Range(uc) \ {0} /\ Users(w) = Range(UserColumn(w.audio_buffer)) \ {0}
    BY DEF Users
  <1>5. ASSUME NEW e \in Entry, w.audio_buffer = Append(o, e), e.user \in Nat
        PROVE  Users(w) = (Range(uc) \cup {e.user}) \ {0}
    <2>1. UserColumn(w.audio_buffer) = Append(uc, e.user)
      BY <1>1, <1>5, ColumnFacts
    <2> HIDE DEF uc
    <2>2. ASSUME NEW q \in Seq(Nat), NEW x \in Nat PROVE Range(Append(q, x)) = Range(q) \cup {x}
      BY BackValues
    <2> QED BY <1>1, <1>4, <1>5, <2>1, <2>2
  <1>6. /\ UserAlone(u[1]) \in Entry /\ UserAlone(u[1]).user = u[1].n
        /\ AgentAlone(a[1]) \in Entry /\ AgentAlone(a[1]).user = 0
        /\ Both(a[1], u[1]) \in Entry /\ Both(a[1], u[1]).user = u[1].n
    BY <1>2, Entries
  <1> HIDE DEF o, uc, w, a, u
  <1>7. w.audio_buffer = Append(o, UserAlone(u[1])) => Users(w) = Users(m) \cup {u[1].n}
    BY <1>2, <1>4, <1>5, <1>6
  <1>8. w.audio_buffer = Append(o, AgentAlone(a[1])) => Users(w) = Users(m)
    BY <1>4, <1>5, <1>6
  <1>9. w.audio_buffer = Append(o, Both(a[1], u[1])) => Users(w) = Users(m) \cup {u[1].n}
    BY <1>2, <1>4, <1>5, <1>6
  <1> QED BY <1>3, <1>7, <1>8, <1>9 DEF w, a, u

\* When the first pending frame of a stream is taken off the times stay right.
LEMMA TimelyLess ==
  ASSUME NEW a \in Seq(Pending("agent")), NEW u \in Seq(Pending("user")),
         NEW T, NEW c \in Int, NEW d \in Nat, Timely(a, u, T, c, d)
  PROVE  /\ a # <<>> => Timely(Tail(a), u, T, c, d)
         /\ u # <<>> => Timely(a, Tail(u), T, c, d)
         /\ (a # <<>> /\ u # <<>>) => Timely(Tail(a), Tail(u), T, c, d)
  <1>1. a # <<>> => (Tail(a) # <<>> => Tail(a)[Len(Tail(a))].t = T)
    <2> SUFFICES ASSUME a # <<>>, Tail(a) # <<>> PROVE Tail(a)[Len(Tail(a))].t = T
      OBVIOUS
    <2> DEFINE p == Len(a)
               z == Tail(a)
    <2>1. /\ p \in Nat /\ z \in Seq(Pending("agent")) /\ Len(z) = p - 1
          /\ \A i \in 1..(p - 1) : z[i] = a[i + 1]
      BY Front
    <2>2. z # <<>> /\ a[p].t = T
      BY DEF Timely
    <2> HIDE DEF z, p
    <2>3. Len(z) \in Nat /\ Len(z) # 0
      BY <2>1, <2>2
    <2>4. p - 1 \in 1..(p - 1) /\ (p - 1) + 1 = p
      BY <2>1, <2>3
    <2>5. z[p - 1] = a[p]
      BY <2>1, <2>4
    <2> QED BY <2>1, <2>2, <2>5 DEF z
  <1>2. u # <<>> => \A i \in DOMAIN Tail(u) : Tail(u)[i].t <= d /\ c - Tail(u)[i].n <= d - Tail(u)[i].t
    <2> SUFFICES ASSUME u # <<>>, NEW i \in DOMAIN Tail(u)
                 PROVE  Tail(u)[i].t <= d /\ c - Tail(u)[i].n <= d - Tail(u)[i].t
      OBVIOUS
    <2>1. i + 1 \in DOMAIN u /\ Tail(u)[i] = u[i + 1]
      BY Front
    <2> QED BY <2>1 DEF Timely
  <1> QED BY <1>1, <1>2 DEF Timely

\* When the first frame of the caller is recorded the next one follows, or it
\* was the latest.
LEMMA ConsecutiveLess ==
  ASSUME NEW U, NEW u \in Seq(Pending("user")), u # <<>>, NEW L \in Int,
         Consecutive(U, u, L)
  PROVE  LET V == U \cup {u[1].n}
         IN Consecutive(V, Tail(u), L) /\ (Tail(u) # <<>> => Follows(V, Tail(u)))
  <1> DEFINE p == Len(u)
             z == Tail(u)
             V == U \cup {u[1].n}
  <1>1. /\ p \in Nat \ {0} /\ z \in Seq(Pending("user")) /\ Len(z) = p - 1 /\ DOMAIN z = 1..(p - 1)
        /\ \A i \in 1..(p - 1) : z[i] = u[i + 1]
    BY Front
  <1>2. \A i \in 1..p : u[i].n = (L - p) + i
    BY DEF Consecutive
  <1> HIDE DEF p, z
  <1>3. ASSUME NEW i \in DOMAIN z PROVE z[i].n = (L - Len(z)) + i
    <2>1. i \in 1..(p - 1) /\ i + 1 \in 1..p /\ z[i] = u[i + 1]
      BY <1>1
    <2>2. z[i].n = (L - p) + (i + 1)
      BY <1>2, <2>1
    <2> QED BY <1>1, <2>1, <2>2
  <1>4. u[1].n = (L - p) + 1
    BY <1>1, <1>2
  <1>5. z = <<>> => L \in V
    <2> SUFFICES ASSUME z = <<>> PROVE L \in V
      OBVIOUS
    <2>1. p = 1
      BY <1>1, EmptyList
    <2> QED BY <1>4, <2>1
  <1>6. Consecutive(V, z, L)
    BY <1>3, <1>5 DEF Consecutive
  <1>7. z # <<>> => Follows(V, z)
    <2> SUFFICES ASSUME z # <<>> PROVE z[1].n - 1 = u[1].n
      BY DEF Follows
    <2>1. Len(z) \in Nat /\ Len(z) # 0
      BY <1>1
    <2>2. 1 \in DOMAIN z
      BY <1>1, <2>1
    <2>3. z[1].n = (L - (p - 1)) + 1
      BY <1>1, <1>3, <2>2
    <2> QED BY <1>1, <1>4, <2>3
  <1> QED BY <1>6, <1>7 DEF z

\* What follows is near.
LEMMA FollowsNear ==
  ASSUME NEW U \in SUBSET Nat, NEW u \in Seq(Pending("user")), u # <<>>, Follows(U, u)
  PROVE  Near(U, u)
  <1>1. u[1].n \in Nat
    BY PendingNumbers, EmptyList DEF Streams
  <1>2. ASSUME U # {} PROVE \E n \in U : u[1].n - n <= SYNC + MaxBurst + 1
    <2>1. u[1].n - 1 \in U /\ SYNC \in Nat /\ MaxBurst \in Nat \ {0}
      BY <1>2, ARAssumption DEF Follows
    <2>2. u[1].n - (u[1].n - 1) <= SYNC + MaxBurst + 1
      BY <1>1, <2>1
    <2> QED BY <2>1, <2>2
  <1> QED BY <1>2 DEF Near

\* A list with one frame.
LEMMA LastOne ==
  ASSUME NEW S, NEW b \in Seq(S), b # <<>>, Tail(b) = <<>>
  PROVE  Len(b) = 1
  <1>1. Len(b) \in Nat /\ Len(Tail(b)) = Len(b) - 1
    BY Front
  <1>2. Len(Tail(b)) = 0
    BY EmptyList
  <1> QED BY <1>1, <1>2

\* How far the recording of the caller is behind the time T of the agent's last
\* frame, when that one was written alone.
LEMMA TimesAlone ==
  ASSUME NEW c \in Int, NEW n \in Nat, NEW d \in Nat, NEW t \in Nat, NEW T \in Nat, SYNC \in Nat,
         c - n <= d - t, t - T > SYNC
  PROVE  c - (n - 1) <= (d - T) + SYNC
  OBVIOUS

\* The same when the two were mixed.
LEMMA TimesTogether ==
  ASSUME NEW c \in Int, NEW n \in Nat, NEW d \in Nat, NEW t \in Nat, NEW T \in Nat, SYNC \in Nat,
         c - n <= d - t, ~(T - t > SYNC)
  PROVE  c - n <= (d - T) + SYNC
  OBVIOUS

\* An iteration of the loop keeps the pace.
LEMMA MixFrontPaced ==
  ASSUME NEW m, Sound(m), BothPending(m), NEW L \in Int, NEW c \in Int, NEW d \in Nat,
         Paced(m, L, c, d)
  PROVE  Paced(MixFront(m), L, c, d) /\ SameFlags(m, MixFront(m))
  <1>0. PICK a, u, w : a = m.agent_buffer /\ u = m.user_buffer /\ w = MixFront(m)
    OBVIOUS
  <1> DEFINE U == Users(m)
             T == m.last_agent_frame
  <1>1. /\ a \in Seq(Pending("agent")) /\ u \in Seq(Pending("user")) /\ a # <<>> /\ u # <<>>
        /\ T \in Nat /\ U \in SUBSET Nat
    BY <1>0, Fields, UsersFacts DEF Sound, BothPending
  <1>2. /\ SameFlags(m, w)
        /\ \/ /\ a[1].t - u[1].t > SYNC /\ Users(w) = U \cup {u[1].n}
              /\ w.agent_buffer = a /\ w.user_buffer = Tail(u)
           \/ /\ u[1].t - a[1].t > SYNC /\ Users(w) = U
              /\ w.agent_buffer = Tail(a) /\ w.user_buffer = u
           \/ /\ ~(a[1].t - u[1].t > SYNC) /\ ~(u[1].t - a[1].t > SYNC)
              /\ Users(w) = U \cup {u[1].n}
              /\ w.agent_buffer = Tail(a) /\ w.user_buffer = Tail(u)
    BY <1>0, MixFrontUsers
  <1>3. UserTrail(w) # {} => w.user_stream_active
    BY <1>0, <1>2, MixFrontSound DEF Paced, SameFlags, Kept
  <1>4. w.last_agent_frame = T /\ (w.agent_stream_active <=> m.agent_stream_active)
    BY <1>2 DEF SameFlags
  <1>5. /\ Timely(a, u, T, c, d) /\ Consecutive(U, u, L)
        /\ m.agent_stream_active => Near(U, u) /\ InStep(U, a, u, d) /\ Soon(U, a, T, c, d)
    BY <1>0 DEF Paced
  <1>6. /\ Timely(Tail(a), u, T, c, d) /\ Timely(a, Tail(u), T, c, d)
        /\ Timely(Tail(a), Tail(u), T, c, d)
    BY <1>1, <1>5, TimelyLess
  <1> DEFINE V == U \cup {u[1].n}
  <1>7. Consecutive(V, Tail(u), L) /\ (Tail(u) # <<>> => Follows(V, Tail(u)))
    BY <1>1, <1>5, ConsecutiveLess
  <1>8. /\ u[1].n \in Nat /\ u[1].t \in Nat /\ a[1].t \in Nat /\ SYNC \in Nat
        /\ u[1].t <= d /\ c - u[1].n <= d - u[1].t
        /\ Tail(u) \in Seq(Pending("user")) /\ Tail(a) \in Seq(Pending("agent"))
        /\ Tail(a) = <<>> => a[1].t = T
    <2>1. /\ Len(a) \in Nat /\ Len(a) # 0 /\ Len(u) \in Nat /\ Len(u) # 0
          /\ DOMAIN u = 1..Len(u) /\ Len(Tail(a)) = Len(a) - 1
          /\ Tail(u) \in Seq(Pending("user")) /\ Tail(a) \in Seq(Pending("agent"))
      BY <1>1, Front
    <2>2. /\ \A i \in 1..Len(u) : u[i].n \in Nat /\ u[i].t \in Nat
          /\ \A i \in 1..Len(a) : a[i].t \in Nat
      BY <1>1, PendingNumbers DEF Streams
    <2> HIDE DEF T
    <2>3. ASSUME Tail(a) = <<>> PROVE Len(a) = 1
      BY <1>1, <2>3, LastOne
    <2>4. 1 \in 1..Len(a) /\ 1 \in 1..Len(u)
      BY <2>1
    <2>5. u[1].t <= d /\ c - u[1].n <= d - u[1].t /\ a[Len(a)].t = T
      BY <1>1, <1>5, <2>1, <2>4 DEF Timely
    <2> QED BY <2>1, <2>2, <2>3, <2>4, <2>5, ARAssumption
  <1>9. V \in SUBSET Nat
    BY <1>1, <1>8
  <1>10. Near(V, Tail(u))
    <2>1. CASE Tail(u) = <<>>
      BY <2>1 DEF Near
    <2>2. CASE Tail(u) # <<>>
      BY <1>7, <1>8, <1>9, <2>2, FollowsNear
    <2> QED BY <2>1, <2>2
  <1>11. InStep(V, a, Tail(u), d) /\ InStep(V, Tail(a), Tail(u), d)
    BY <1>7 DEF InStep
  <1> HIDE DEF U, T, V
  <1>12. CASE /\ a[1].t - u[1].t > SYNC /\ Users(w) = U \cup {u[1].n}
              /\ w.agent_buffer = a /\ w.user_buffer = Tail(u)
    <2>1. Soon(V, a, T, c, d)
      BY <1>1 DEF Soon
    <2> QED BY <1>0, <1>2, <1>3, <1>4, <1>6, <1>7, <1>10, <1>11, <1>12, <2>1 DEF Paced, V
  <1>13. CASE /\ u[1].t - a[1].t > SYNC /\ Users(w) = U
              /\ w.agent_buffer = Tail(a) /\ w.user_buffer = u
    <2>1. ASSUME m.agent_stream_active PROVE Follows(U, u)
      <3>1. a[1].t # d
        BY <1>8, <1>13
      <3> QED BY <1>1, <1>5, <2>1, <3>1 DEF InStep
    <2>2. ASSUME m.agent_stream_active PROVE InStep(U, Tail(a), u, d)
      BY <2>1, <2>2 DEF InStep
    <2>3. ASSUME m.agent_stream_active PROVE Soon(U, Tail(a), T, c, d)
      <3> SUFFICES ASSUME Tail(a) = <<>>, U # {} PROVE \E n \in U : c - n <= (d - T) + SYNC
        BY DEF Soon
      <3>1. u[1].n - 1 \in U
        BY <2>1, <2>3 DEF Follows
      <3>2. u[1].t - T > SYNC
        BY <1>8, <1>13
      <3>3. c - (u[1].n - 1) <= (d - T) + SYNC
        BY <1>1, <1>8, <3>2, TimesAlone
      <3> QED BY <3>1, <3>3
    <2> QED BY <1>0, <1>2, <1>3, <1>4, <1>5, <1>6, <1>13, <2>2, <2>3 DEF Paced
  <1>14. CASE /\ ~(a[1].t - u[1].t > SYNC) /\ ~(u[1].t - a[1].t > SYNC)
              /\ Users(w) = U \cup {u[1].n}
              /\ w.agent_buffer = Tail(a) /\ w.user_buffer = Tail(u)
    <2>1. Soon(V, Tail(a), T, c, d)
      <3> SUFFICES ASSUME Tail(a) = <<>> PROVE \E n \in V : c - n <= (d - T) + SYNC
        BY DEF Soon
      <3>1. ~(T - u[1].t > SYNC)
        BY <1>8, <1>14
      <3>2. c - u[1].n <= (d - T) + SYNC
        BY <1>1, <1>8, <3>1, TimesTogether
      <3> QED BY <3>2 DEF V
    <2> QED BY <1>0, <1>2, <1>3, <1>4, <1>6, <1>7, <1>10, <1>11, <1>14, <2>1 DEF Paced, V
  <1> QED BY <1>2, <1>12, <1>13, <1>14

\* So does the loop.
LEMMA MixBuffersPaced ==
  ASSUME NEW m, Sound(m), NEW L \in Int, NEW c \in Int, NEW d \in Nat, Paced(m, L, c, d)
  PROVE  Paced(MixBuffers(m), L, c, d) /\ SameFlags(m, MixBuffers(m))
  <1> DEFINE f == Iterations(m)
             total == Waiting(m)
             OK(k) == Sound(f[k]) /\ Paced(f[k], L, c, d) /\ SameFlags(m, f[k])
             T == {k \in Nat : ~OK(k)}
  <1>1. f[0] = m /\ \A k \in Nat \ {0} : f[k] = Iterate(f[k - 1])
    BY IterationsDef
  <1>2. MixBuffers(m) = f[total]
    BY DEF MixBuffers, Waiting
  <1>3. total \in Nat
    BY WaitingFacts
  <1> HIDE DEF f, total
  <1>4. T = {}
    <2> SUFFICES ASSUME T # {} PROVE FALSE
      OBVIOUS
    <2>1. T \in SUBSET Nat
      OBVIOUS
    <2>2. PICK k \in T : \A j \in T : k <= j
      BY <2>1, LeastNumber
    <2>3. CASE k = 0
      <3>1. SameFlags(m, m)
        BY DEF SameFlags
      <3>2. OK(0)
        BY <1>1, <3>1
      <3> QED BY <2>2, <2>3, <3>2
    <2>4. CASE k # 0
      <3>1. k \in Nat /\ ~OK(k) /\ k - 1 \in Nat
        BY <2>2, <2>4
      <3>2. k - 1 \notin T
        BY <2>2, <3>1
      <3>3. OK(k - 1)
        BY <3>1, <3>2
      <3>4. f[k] = Iterate(f[k - 1])
        BY <1>1, <2>4, <3>1
      <3> HIDE DEF T
      <3>5. CASE ~BothPending(f[k - 1])
        <4>1. f[k] = f[k - 1]
          BY <3>4, <3>5 DEF Iterate
        <4> QED BY <3>1, <3>3, <4>1
      <3>6. CASE BothPending(f[k - 1])
        <4>1. f[k] = MixFront(f[k - 1])
          BY <3>4, <3>6 DEF Iterate
        <4>2. Sound(f[k])
          BY <3>3, <3>6, <4>1, MixFrontSound
        <4>3. Paced(f[k], L, c, d) /\ SameFlags(f[k - 1], f[k])
          BY <3>3, <3>6, <4>1, MixFrontPaced
        <4>4. SameFlags(m, f[k])
          BY <3>3, <4>3 DEF SameFlags
        <4> QED BY <3>1, <4>2, <4>3, <4>4
      <3> QED BY <3>5, <3>6
    <2> QED BY <2>3, <2>4
  <1>5. OK(total)
    BY <1>3, <1>4
  <1> QED BY <1>2, <1>5

\* Writing out all that waits of the caller: the latest is recorded then.
LEMMA FlushUserPaced ==
  ASSUME NEW m, Sound(m), NEW L \in Int, NEW c \in Int, NEW d \in Nat, Paced(m, L, c, d),
         ~m.agent_stream_active
  PROVE  LET w == FlushUser(m)
         IN Paced(w, L, c, d) /\ SameFlags(m, w) /\ w.user_buffer = <<>>
  <1> DEFINE w == FlushUser(m)
             u == m.user_buffer
  <1>1. m \in Mixer /\ u \in Seq(Pending("user")) /\ Kept(m, w)
    BY Fields, FlushUserSound DEF Sound
  <1>2. w.user_buffer = <<>> /\ w.agent_buffer = m.agent_buffer /\ SameFlags(m, w)
    BY <1>1 DEF FlushUser, SameFlags, Mixer
  <1> HIDE DEF w
  <1>3. Users(w) = UserTrail(m)
    <2>1. Range(Numbers(w.user_buffer)) = {}
      BY <1>2, EmptyList
    <2> QED BY <1>1, <2>1 DEF UserTrail, Kept
  <1>4. Users(w) # {} => L \in Users(w)
    <2>1. CASE u = <<>>
      <3>1. Range(Numbers(u)) = {}
        BY <2>1, EmptyList
      <3> QED BY <1>3, <2>1, <3>1 DEF Paced, Consecutive, UserTrail
    <2>2. CASE u # <<>>
      <3> DEFINE p == Len(u)
      <3>1. p \in Nat /\ p # 0 /\ DOMAIN u = 1..p
        BY <1>1, <2>2
      <3>2. /\ DOMAIN Numbers(u) = DOMAIN u
            /\ \A i \in DOMAIN u : Numbers(u)[i] = u[i].n
        BY <1>1, NumbersFacts DEF Streams
      <3>3. \A i \in DOMAIN u : u[i].n = (L - p) + i
        BY DEF Paced, Consecutive
      <3> HIDE DEF p
      <3>4. p \in DOMAIN u /\ (L - p) + p = L
        BY <3>1
      <3>5. Numbers(u)[p] = L
        BY <3>2, <3>3, <3>4
      <3>6. L \in Range(Numbers(u))
        BY <3>2, <3>4, <3>5 DEF Range
      <3> QED BY <1>3, <3>6 DEF UserTrail
    <2> QED BY <2>1, <2>2
  <1>5. Consecutive(Users(w), <<>>, L)
    BY <1>4 DEF Consecutive
  <1>6. Timely(m.agent_buffer, <<>>, m.last_agent_frame, c, d)
    BY DEF Paced, Timely
  <1>7. UserTrail(w) # {} => w.user_stream_active
    BY <1>1, <1>2 DEF Paced, Kept, SameFlags
  <1>8. /\ Timely(w.agent_buffer, w.user_buffer, w.last_agent_frame, c, d)
        /\ Consecutive(Users(w), w.user_buffer, L)
        /\ ~w.agent_stream_active
    BY <1>2, <1>5, <1>6 DEF SameFlags
  <1>9. Paced(w, L, c, d)
    BY <1>7, <1>8 DEF Paced
  <1> QED BY <1>2, <1>9 DEF w

\* Nothing of the caller was written: the pace is trivial.
LEMMA NoCaller ==
  ASSUME NEW m, Sound(m), UserTrail(m) = {}, NEW L, NEW c, NEW d,
         m.agent_buffer # <<>> => m.agent_buffer[Len(m.agent_buffer)].t = m.last_agent_frame
  PROVE  Paced(m, L, c, d) /\ m.user_buffer = <<>>
  <1> DEFINE u == m.user_buffer
  <1>1. Users(m) = {} /\ Range(Numbers(u)) = {}
    BY DEF UserTrail
  <1>2. u \in Seq(Pending("user"))
    BY Fields DEF Sound
  <1>3. u = <<>>
    <2> SUFFICES ASSUME u # <<>> PROVE FALSE
      OBVIOUS
    <2>1. 1 \in DOMAIN u
      BY <1>2
    <2>2. DOMAIN Numbers(u) = DOMAIN u
      BY <1>2, NumbersFacts DEF Streams
    <2> QED BY <1>1, <2>1, <2>2 DEF Range
  <1>4. Timely(m.agent_buffer, u, m.last_agent_frame, c, d)
    BY <1>3 DEF Timely
  <1>5. Consecutive(Users(m), u, L)
    BY <1>1, <1>3 DEF Consecutive
  <1>6. /\ Near(Users(m), u) /\ InStep(Users(m), m.agent_buffer, u, d)
        /\ Soon(Users(m), m.agent_buffer, m.last_agent_frame, c, d)
    BY <1>1, <1>3 DEF Near, InStep, Soon
  <1> QED BY <1>3, <1>4, <1>5, <1>6 DEF Paced

\* So it is when the agent's frames are written out.
LEMMA FlushAgentPaced ==
  ASSUME NEW m, Sound(m), UserTrail(m) = {}, NEW L, NEW c, NEW d
  PROVE  LET w == FlushAgent(m)
         IN Paced(w, L, c, d) /\ SameFlags(m, w) /\ w.user_buffer = <<>>
  <1> DEFINE w == FlushAgent(m)
  <1>1. m \in Mixer /\ Sound(w) /\ UserTrail(w) = {}
    BY FlushAgentSound DEF Sound, Kept
  <1>2. w.agent_buffer = <<>> /\ SameFlags(m, w)
    BY <1>1 DEF FlushAgent, SameFlags, Mixer
  <1> HIDE DEF w
  <1>3. Paced(w, L, c, d) /\ w.user_buffer = <<>>
    BY <1>1, <1>2, NoCaller
  <1> QED BY <1>2, <1>3 DEF w

\* Whichever branch is taken the pace is kept, and the caller's frames wait only
\* while the agent is active.
LEMMA ProcessPaced ==
  ASSUME NEW m, Sound(m), NEW L \in Int, NEW c \in Int, NEW d \in Nat, Paced(m, L, c, d),
         NEW w, w = processBuffers(m)
  PROVE  /\ Paced(w, L, c, d) /\ SameFlags(m, w)
         /\ w.user_buffer # <<>> => w.agent_stream_active
  <1>0. m.agent_stream_active \in BOOLEAN /\ m.user_stream_active \in BOOLEAN
    BY Fields DEF Sound
  <1>1. CASE m.agent_stream_active /\ ~m.user_stream_active
    <2>1. w = FlushAgent(m) /\ UserTrail(m) = {}
      BY <1>1 DEF processBuffers, Paced
    <2> QED BY <2>1, FlushAgentPaced
  <1>2. CASE ~m.agent_stream_active /\ m.user_stream_active
    <2>1. w = FlushUser(m)
      BY <1>2 DEF processBuffers
    <2> QED BY <1>2, <2>1, FlushUserPaced
  <1>3. CASE m.agent_stream_active /\ m.user_stream_active
    <2>1. w = MixBuffers(m)
      BY <1>3 DEF processBuffers
    <2>2. Paced(w, L, c, d) /\ SameFlags(m, w)
      BY <2>1, MixBuffersPaced
    <2> QED BY <1>3, <2>2 DEF SameFlags
  <1>4. CASE ~m.agent_stream_active /\ ~m.user_stream_active
    <2>1. w = MixBuffers(m) /\ UserTrail(m) = {}
      BY <1>4 DEF processBuffers, Paced
    <2>2. Paced(w, L, c, d) /\ SameFlags(m, w)
      BY <2>1, MixBuffersPaced
    <2>3. Sound(w) /\ UserTrail(w) = {}
      BY <2>1, MixBuffersSound DEF Kept
    <2>4. w.agent_buffer # <<>> => w.agent_buffer[Len(w.agent_buffer)].t = w.last_agent_frame
      BY <2>2 DEF Paced, Timely
    <2> QED BY <2>2, <2>3, <2>4, NoCaller
  <1> QED BY <1>0, <1>1, <1>2, <1>3, <1>4

\* z is b with the frame n of the time t behind it and without its first e frames.
Pushed(b, z, n, t, e) ==
  /\ e = 1 => Len(b) = MAX_BUFFER_SIZE
  /\ z # <<>> /\ Len(z) = (Len(b) + 1) - e
  /\ \A i \in 1..Len(z) : IF i = Len(z) THEN z[i].n = n /\ z[i].t = t
                          ELSE i + e \in DOMAIN b /\ z[i] = b[i + e]

\* A buffer after push_back and pop_front: one frame is gone at most.
LEMMA BufferedFrames ==
  ASSUME NEW s \in Streams, NEW b \in Seq(Pending(s)), Len(b) <= MAX_BUFFER_SIZE,
         NEW n \in 1..MaxFrames[s], now \in 0..MaxTime, NEW z, z = Buffered(b, n)
  PROVE  z \in Seq(Pending(s)) /\ \E e \in {0, 1} : Pushed(b, z, n, now, e)
  <1> DEFINE f == [n |-> n, t |-> now]
             l == Append(b, f)
             p == Len(b)
  <1>1. f \in Pending(s) /\ f.n = n /\ f.t = now
    BY DEF Pending
  <1>2. z = IF Len(l) > MAX_BUFFER_SIZE THEN Tail(l) ELSE l
    BY DEF Buffered
  <1> HIDE DEF f
  <1>3. /\ l \in Seq(Pending(s)) /\ Len(l) = p + 1 /\ p \in Nat /\ p <= MAX_BUFFER_SIZE
        /\ MAX_BUFFER_SIZE \in Nat \ {0} /\ DOMAIN b = 1..p
        /\ \A i \in 1..p : l[i] = b[i]
        /\ l[p + 1] = f
    BY <1>1, Back, ARAssumption
  <1> HIDE DEF l, p
  <1>4. CASE Len(l) > MAX_BUFFER_SIZE
    <2>1. z = Tail(l) /\ p = MAX_BUFFER_SIZE /\ l # <<>>
      BY <1>2, <1>3, <1>4, EmptyList
    <2>2. /\ z \in Seq(Pending(s)) /\ Len(z) = Len(l) - 1
          /\ \A i \in 1..(Len(l) - 1) : z[i] = l[i + 1]
      BY <1>3, <2>1, Front
    <2>3. Len(z) = p /\ z # <<>> /\ \A i \in 1..p : z[i] = l[i + 1]
      BY <1>3, <2>1, <2>2, EmptyList
    <2>4. ASSUME NEW i \in 1..p
          PROVE  IF i = p THEN z[i].n = n /\ z[i].t = now ELSE i + 1 \in DOMAIN b /\ z[i] = b[i + 1]
      <3>1. CASE i = p
        BY <1>1, <1>3, <2>3, <3>1
      <3>2. CASE i # p
        <4>1. i + 1 \in 1..p
          BY <1>3, <3>2
        <4> QED BY <1>3, <2>3, <3>2, <4>1
      <3> QED BY <3>1, <3>2
    <2>5. Len(z) = (p + 1) - 1
      BY <1>3, <2>3
    <2>6. Pushed(b, z, n, now, 1)
      BY <2>1, <2>3, <2>4, <2>5 DEF Pushed, p
    <2> QED BY <2>2, <2>6
  <1>5. CASE ~(Len(l) > MAX_BUFFER_SIZE)
    <2>1. z = l /\ z # <<>>
      BY <1>2, <1>3, <1>5, EmptyList
    <2>2. ASSUME NEW i \in 1..(p + 1)
          PROVE  IF i = p + 1 THEN z[i].n = n /\ z[i].t = now
                 ELSE i + 0 \in DOMAIN b /\ z[i] = b[i + 0]
      <3>1. CASE i = p + 1
        BY <1>1, <1>3, <2>1, <3>1
      <3>2. CASE i # p + 1
        <4>1. i \in 1..p /\ i + 0 = i
          BY <1>3, <3>2
        <4> QED BY <1>3, <2>1, <3>2, <4>1
      <3> QED BY <3>1, <3>2
    <2>3. Len(z) = (p + 1) - 0
      BY <1>3, <2>1
    <2>4. Len(z) = p + 1
      BY <1>3, <2>1
    <2>5. \A i \in 1..Len(z) : IF i = Len(z) THEN z[i].n = n /\ z[i].t = now
                             ELSE i + 0 \in DOMAIN b /\ z[i] = b[i + 0]
      BY <2>2, <2>4
    <2>6. Pushed(b, z, n, now, 0)
      BY <2>1, <2>3, <2>5 DEF Pushed, p
    <2> QED BY <1>3, <2>1, <2>6
  <1> QED BY <1>4, <1>5

\* A list one longer with the same first frame, or a full one without it.
Grown(u, z, n) ==
  \/ Len(z) = Len(u) + 1 /\ (u # <<>> => z[1].n = u[1].n)
  \/ /\ Len(z) = Len(u) /\ Len(u) = MAX_BUFFER_SIZE
     /\ z[1].n = (n - MAX_BUFFER_SIZE) + 1

\* A new frame of the caller is the latest, behind those that waited.
LEMMA CallerWaits ==
  ASSUME NEW U \in SUBSET Nat, NEW a, NEW T, NEW u \in Seq(Pending("user")),
         Len(u) <= MAX_BUFFER_SIZE,
         NEW n \in 1..MaxFrames["user"], now \in 0..MaxTime, NEW z, z = Buffered(u, n),
         NEW c \in Int, c <= n, Timely(a, u, T, c, now), Consecutive(U, u, n - 1)
  PROVE  /\ z \in Seq(Pending("user")) /\ z # <<>>
         /\ Timely(a, z, T, c, now) /\ Consecutive(U, z, n)
         /\ u = <<>> => Follows(U, z)
         /\ Grown(u, z, n)
  <1> DEFINE p == Len(u)
             q == Len(z)
  <1>1. PICK e \in {0, 1} :
           /\ e = 1 => p = MAX_BUFFER_SIZE
           /\ z \in Seq(Pending("user")) /\ z # <<>> /\ q = (p + 1) - e
           /\ \A i \in 1..q : IF i = q THEN z[i].n = n /\ z[i].t = now
                              ELSE i + e \in DOMAIN u /\ z[i] = u[i + e]
    <2>1. z \in Seq(Pending("user")) /\ \E e \in {0, 1} : Pushed(u, z, n, now, e)
      BY BufferedFrames DEF Streams
    <2> QED BY <2>1 DEF Pushed
  <1>2. /\ p \in Nat /\ q \in Nat /\ q # 0 /\ DOMAIN z = 1..q /\ DOMAIN u = 1..p
        /\ n \in Nat /\ now \in Nat /\ MAX_BUFFER_SIZE \in Nat \ {0}
        /\ u # <<>> <=> p # 0
    BY <1>1, ARAssumption DEF Streams
  <1>3. \A i \in 1..p : u[i].n = ((n - 1) - p) + i
    BY <1>2 DEF Consecutive
  <1>4. \A i \in 1..p : u[i].t <= now /\ c - u[i].n <= now - u[i].t
    BY <1>2 DEF Timely
  <1>5. a # <<>> => a[Len(a)].t = T
    BY DEF Timely
  <1>6. (u = <<>> /\ U # {}) => n - 1 \in U
    BY DEF Consecutive
  <1> HIDE DEF p, q
  <1>7. ASSUME NEW i \in 1..q
        PROVE  /\ z[i].n = (n - q) + i /\ z[i].t <= now /\ c - z[i].n <= now - z[i].t
    <2>1. CASE i = q
      <3>1. z[i].n = n /\ z[i].t = now
        BY <1>1, <2>1
      <3> QED BY <1>2, <2>1, <3>1
    <2>2. CASE i # q
      <3>1. z[i] = u[i + e] /\ i + e \in 1..p
        BY <1>1, <1>2, <2>2
      <3>2. u[i + e].n = ((n - 1) - p) + (i + e)
        BY <1>3, <3>1
      <3>3. z[i].n = (n - q) + i
        BY <1>1, <1>2, <3>1, <3>2
      <3> QED BY <1>4, <3>1, <3>3
    <2> QED BY <2>1, <2>2
  <1>8. Timely(a, z, T, c, now)
    BY <1>2, <1>5, <1>7 DEF Timely
  <1>9. Consecutive(U, z, n)
    BY <1>1, <1>2, <1>7 DEF Consecutive, q
  <1>10. z[1].n = (n - q) + 1
    BY <1>2, <1>7
  <1>11. u = <<>> => Follows(U, z)
    <2> SUFFICES ASSUME u = <<>>, U # {} PROVE z[1].n - 1 \in U
      BY DEF Follows
    <2>1. p = 0
      BY <1>2
    <2>2. e = 0
      BY <1>1, <1>2, <2>1
    <2>3. z[1].n = n
      BY <1>1, <1>2, <1>10, <2>1, <2>2
    <2> QED BY <1>2, <1>6, <2>3
  <1>12. CASE e = 1
    <2>1. q = p /\ p = MAX_BUFFER_SIZE
      BY <1>1, <1>2, <1>12
    <2> QED BY <1>1, <1>8, <1>9, <1>10, <1>11, <2>1 DEF p, q, Grown
  <1>13. CASE e = 0
    <2>1. q = p + 1
      BY <1>1, <1>2, <1>13
    <2>2. u # <<>> => z[1].n = u[1].n
      <3> SUFFICES ASSUME u # <<>> PROVE z[1].n = u[1].n
        OBVIOUS
      <3>1. 1 \in 1..p
        BY <1>2
      <3>2. u[1].n = ((n - 1) - p) + 1
        BY <1>3, <3>1
      <3> QED BY <1>2, <1>10, <2>1, <3>2
    <2> QED BY <1>1, <1>8, <1>9, <1>11, <2>1, <2>2 DEF p, q, Grown
  <1> QED BY <1>12, <1>13

\* The caller's frames that wait are all those from the first to the latest.
LEMMA ConsecutiveRange ==
  ASSUME NEW U, NEW u \in Seq(Pending("user")), NEW L \in Int, Consecutive(U, u, L)
  PROVE  Range(Numbers(u)) = ((L - Len(u)) + 1)..L
  <1> DEFINE p == Len(u)
             R == Range(Numbers(u))
  <1>1. p \in Nat /\ DOMAIN u = 1..p
    OBVIOUS
  <1>2. DOMAIN Numbers(u) = 1..p /\ \A i \in 1..p : Numbers(u)[i] = u[i].n
    BY <1>1, NumbersFacts DEF Streams
  <1>3. \A i \in 1..p : Numbers(u)[i] = (L - p) + i
    BY <1>1, <1>2 DEF Consecutive
  <1> HIDE DEF p
  <1>4. R \subseteq ((L - p) + 1)..L
    <2> SUFFICES ASSUME NEW i \in 1..p PROVE Numbers(u)[i] \in ((L - p) + 1)..L
      BY <1>2 DEF Range
    <2>1. Numbers(u)[i] = (L - p) + i
      BY <1>3
    <2> QED BY <1>1, <2>1
  <1>5. ASSUME NEW x \in ((L - p) + 1)..L PROVE x \in R
    <2>1. x - (L - p) \in 1..p /\ (L - p) + (x - (L - p)) = x
      BY <1>1
    <2>2. Numbers(u)[x - (L - p)] = x
      BY <1>3, <2>1
    <2> QED BY <1>2, <2>1, <2>2 DEF Range
  <1> QED BY <1>4, <1>5 DEF p

\* A new frame n behind p that wait, the first of which is dropped or not: the
\* gap stays small, as few frames were missing before the first.
LEMMA ChainMore ==
  ASSUME NEW U \in SUBSET Nat, NEW n \in Nat, NEW p \in Nat, NEW e \in {0, 1},
         NEW S, S = U \cup ((n - p)..(n - 1)), NEW R, R = U \cup (((n - p) + e)..n),
         e = 1 => p # 0, \A x \in U : x < n - p,
         e = 1 /\ U # {} => \E x \in U : (n - p) - x <= SYNC + MaxBurst + 1,
         Chain(S, n - 1)
  PROVE  Chain(R, n)
  <1>0. SYNC \in Nat /\ MaxBurst \in Nat \ {0}
    BY ARAssumption
  <1> SUFFICES ASSUME NEW x \in R, x < n PROVE \E k \in R : x < k /\ k <= x + SYNC + MaxBurst + 2
    BY DEF Chain
  <1>1. x \in Int /\ n \in R
    <2>1. (n - p) + e <= n
      OBVIOUS
    <2> QED BY <2>1
  <1>2. CASE x = n - 1
    <2>1. x < n /\ n <= x + SYNC + MaxBurst + 2
      BY <1>0, <1>2
    <2> QED BY <1>1, <2>1
  <1>3. CASE x # n - 1
    <2>1. x \in S /\ x < n - 1
      BY <1>1, <1>3
    <2>2. PICK k \in S : x < k /\ k <= x + SYNC + MaxBurst + 2
      BY <2>1 DEF Chain
    <2>3. CASE k \in R
      BY <2>2, <2>3
    <2>4. CASE k \notin R
      <3>1. k = n - p /\ e = 1
        BY <2>2, <2>4
      <3>2. x \in U
        BY <1>1, <2>2, <3>1
      <3>3. PICK y \in U : (n - p) - y <= SYNC + MaxBurst + 1
        BY <3>1, <3>2
      <3>4. y \in Nat /\ y < n - p /\ y \in R
        BY <3>3
      <3>5. CASE y > x
        <4>1. y <= x + SYNC + MaxBurst + 2
          BY <1>0, <1>1, <2>2, <3>1, <3>4
        <4> QED BY <3>4, <3>5, <4>1
      <3>6. CASE ~(y > x)
        <4>1. (n - p) + 1 \in R
          BY <3>1
        <4>2. x < (n - p) + 1
          BY <1>1, <2>2, <3>1
        <4>3. (n - p) + 1 <= x + SYNC + MaxBurst + 2
          BY <1>0, <1>1, <3>3, <3>4, <3>6
        <4> QED BY <4>1, <4>2, <4>3
      <3> QED BY <3>5, <3>6
    <2> QED BY <2>3, <2>4
  <1> QED BY <1>2, <1>3

\* The mixer that is passed to processBuffers: the lists, the time of the agent's
\* last frame and the activity.
LEMMA ReadyFields ==
  ASSUME NEW m \in Mixer, NEW f \in Taken, now \in 0..MaxTime, NEW q, q = Ready(m, f),
         f.s \in Streams
  PROVE  /\ q.audio_buffer = m.audio_buffer /\ Users(q) = Users(m)
         /\ f.s = "user" =>
              /\ q.user_buffer = Buffered(m.user_buffer, f.n) /\ q.agent_buffer = m.agent_buffer
              /\ q.last_agent_frame = m.last_agent_frame /\ q.user_stream_active = TRUE
              /\ q.agent_stream_active =>
                   m.agent_stream_active /\ now - m.last_agent_frame <= WINDOW
         /\ f.s = "agent" =>
              /\ q.agent_buffer = Buffered(m.agent_buffer, f.n) /\ q.user_buffer = m.user_buffer
              /\ q.last_agent_frame = now /\ q.user_stream_active = m.user_stream_active
  <1> DEFINE d == Noted(m, f)
             p == IF f.s = "agent"
                  THEN [d EXCEPT !.agent_buffer = Buffered(@, f.n)]
                  ELSE [d EXCEPT !.user_buffer = Buffered(@, f.n)]
  <1>1. q = checkStreamActivity(p)
    BY DEF Ready
  <1>2. /\ d \in Mixer /\ d.agent_buffer = m.agent_buffer /\ d.user_buffer = m.user_buffer
        /\ d.audio_buffer = m.audio_buffer
    BY Flags
  <1>3. /\ f.s = "user" => /\ d.last_agent_frame = m.last_agent_frame
                           /\ d.user_stream_active = TRUE
                           /\ d.agent_stream_active = m.agent_stream_active
        /\ f.s = "agent" => /\ d.last_agent_frame = now
                            /\ d.user_stream_active = m.user_stream_active
    BY DEF Noted, Mixer
  <1> HIDE DEF d
  <1>4. CASE f.s = "user"
    <2>1. p = [d EXCEPT !.user_buffer = Buffered(m.user_buffer, f.n)]
      BY <1>2, <1>4
    <2> DEFINE z == Buffered(m.user_buffer, f.n)
    <2>2. p = [d EXCEPT !.user_buffer = z]
      BY <2>1
    <2> HIDE DEF z, p
    <2>3. /\ p.user_buffer = z /\ p.agent_buffer = d.agent_buffer /\ p.audio_buffer = d.audio_buffer
          /\ p.last_agent_frame = d.last_agent_frame /\ p.user_stream_active = d.user_stream_active
          /\ p.agent_stream_active = d.agent_stream_active
          /\ DOMAIN p = DOMAIN d
      BY <1>2, <2>2 DEF Mixer
    <2>4. "agent_stream_active" \in DOMAIN p /\ "user_buffer" \in DOMAIN p
          /\ "agent_buffer" \in DOMAIN p /\ "audio_buffer" \in DOMAIN p
          /\ "last_agent_frame" \in DOMAIN p /\ "user_stream_active" \in DOMAIN p
      BY <1>2, <2>3 DEF Mixer
    <2>5. /\ q.user_buffer = z /\ q.agent_buffer = d.agent_buffer /\ q.audio_buffer = d.audio_buffer
          /\ q.last_agent_frame = d.last_agent_frame /\ q.user_stream_active = d.user_stream_active
          /\ q.agent_stream_active =>
               d.agent_stream_active /\ now - d.last_agent_frame <= WINDOW
      BY <1>1, <2>3, <2>4 DEF checkStreamActivity
    <2>6. Users(q) = Users(m)
      BY <1>2, <2>5 DEF Users
    <2> QED BY <1>2, <1>3, <1>4, <2>5, <2>6 DEF z
  <1>5. CASE f.s = "agent"
    <2>1. p = [d EXCEPT !.agent_buffer = Buffered(m.agent_buffer, f.n)]
      BY <1>2, <1>5
    <2> DEFINE z == Buffered(m.agent_buffer, f.n)
    <2>2. p = [d EXCEPT !.agent_buffer = z]
      BY <2>1
    <2> HIDE DEF z, p
    <2>3. /\ p.agent_buffer = z /\ p.user_buffer = d.user_buffer /\ p.audio_buffer = d.audio_buffer
          /\ p.last_agent_frame = d.last_agent_frame /\ p.user_stream_active = d.user_stream_active
          /\ DOMAIN p = DOMAIN d
      BY <1>2, <2>2 DEF Mixer
    <2>4. "agent_stream_active" \in DOMAIN p /\ "user_buffer" \in DOMAIN p
          /\ "agent_buffer" \in DOMAIN p /\ "audio_buffer" \in DOMAIN p
          /\ "last_agent_frame" \in DOMAIN p /\ "user_stream_active" \in DOMAIN p
      BY <1>2, <2>3 DEF Mixer
    <2>5. /\ q.agent_buffer = z /\ q.user_buffer = d.user_buffer /\ q.audio_buffer = d.audio_buffer
          /\ q.last_agent_frame = d.last_agent_frame /\ q.user_stream_active = d.user_stream_active
      BY <1>1, <2>3, <2>4 DEF checkStreamActivity
    <2>6. Users(q) = Users(m)
      BY <1>2, <2>5 DEF Users
    <2> QED BY <1>2, <1>3, <1>5, <2>5, <2>6 DEF z
  <1> QED BY <1>4, <1>5 DEF Streams

\* A new frame of the caller keeps the pace and costs no more than a small gap,
\* because the buffer is as long as the window: a frame is dropped only when the
\* agent is silent for as long as the buffer took to fill, and then the agent
\* counts as inactive and the buffer is written out.
LEMMA AddUserPaced ==
  ASSUME NEW m, Sound(m), ~BothPending(m), NEW f \in Taken, f.s = "user",
         f.n \in 1..MaxFrames["user"], now \in 0..MaxTime,
         \A x \in UserTrail(m) \cup Range(m.user_only_buffer) : x < f.n,
         NEW c \in Int, c <= f.n, f.n <= c + MaxBurst, WINDOW <= MAX_BUFFER_SIZE,
         Paced(m, f.n - 1, c, now), Chain(UserTrail(m), f.n - 1),
         m.user_buffer # <<>> => m.agent_stream_active, NEW w, w = addFrame(m, f)
  PROVE  /\ Paced(w, f.n, c, now) /\ Chain(UserTrail(w), f.n)
         /\ w.user_buffer # <<>> => w.agent_stream_active
  <1>0. PICK q, n : q = Ready(m, f) /\ n = f.n
    OBVIOUS
  <1> DEFINE a == m.agent_buffer
             u == m.user_buffer
             U == Users(m)
             T == m.last_agent_frame
             z == q.user_buffer
  <1>1. /\ m \in Mixer /\ u \in Seq(Pending("user")) /\ Len(u) <= MAX_BUFFER_SIZE
        /\ T \in Nat /\ U \in SUBSET Nat /\ Len(u) \in Nat /\ now \in Nat
        /\ \A x \in U : \A i \in DOMAIN u : x < u[i].n
    BY Fields, UsersFacts DEF Sound
  <1>2. /\ SYNC \in Nat /\ MaxBurst \in Nat /\ WINDOW \in Nat /\ MAX_BUFFER_SIZE \in Nat \ {0}
        /\ n \in 1..MaxFrames["user"] /\ n \in Nat \ {0} /\ n - 1 \in Int
    BY <1>0, ARAssumption DEF Taken
  <1>3. Sound(q) /\ UserTrail(w) = UserTrail(q) /\ w = processBuffers(q)
    BY <1>0, AddUserFrame DEF Kept, addFrame, Ready
  <1>4. /\ Users(q) = U /\ z = Buffered(u, n) /\ q.agent_buffer = a
        /\ q.last_agent_frame = T /\ q.user_stream_active = TRUE
        /\ q.agent_stream_active => m.agent_stream_active /\ now - T <= WINDOW
    BY <1>0, <1>1, ReadyFields DEF Streams
  <1>5. /\ Timely(a, u, T, c, now) /\ Consecutive(U, u, n - 1)
        /\ m.agent_stream_active => Near(U, u) /\ Soon(U, a, T, c, now)
    BY <1>0 DEF Paced
  <1>6. c <= n /\ n <= c + MaxBurst
    BY <1>0
  <1>7. /\ z \in Seq(Pending("user")) /\ z # <<>>
        /\ Timely(a, z, T, c, now) /\ Consecutive(U, z, n)
        /\ u = <<>> => Follows(U, z)
        /\ Grown(u, z, n)
    <2> HIDE DEF a, u, U, T, z
    <2>1. /\ U \in SUBSET Nat /\ u \in Seq(Pending("user")) /\ Len(u) <= MAX_BUFFER_SIZE
          /\ n \in 1..MaxFrames["user"] /\ z = Buffered(u, n) /\ c <= n
          /\ Timely(a, u, T, c, now) /\ Consecutive(U, u, n - 1)
      BY <1>1, <1>2, <1>4, <1>5, <1>6
    <2> QED BY <2>1, CallerWaits
  <1>8. a = <<>> \/ u = <<>>
    BY DEF BothPending
  <1>9. u # <<>> => m.agent_stream_active
    OBVIOUS
  <1>10. UserTrail(m) = U \cup Range(Numbers(u)) /\ UserTrail(q) = U \cup Range(Numbers(z))
    BY <1>4 DEF UserTrail
  <1>11. \A x \in U : x < n
    BY <1>0 DEF UserTrail
  <1>12. Chain(UserTrail(m), n - 1)
    BY <1>0
  <1> HIDE DEF a, u, U, T, z
  <1>13. ASSUME m.agent_stream_active, now - T <= WINDOW PROVE Near(U, z)
    <2>1. CASE u = <<>>
      BY <1>1, <1>7, <2>1, FollowsNear
    <2>2. CASE u # <<>> /\ z[1].n = u[1].n
      BY <1>5, <1>13, <2>2 DEF Near
    <2>3. CASE u # <<>> /\ z[1].n = (n - MAX_BUFFER_SIZE) + 1
      <3> SUFFICES ASSUME U # {} PROVE \E x \in U : z[1].n - x <= SYNC + MaxBurst + 1
        BY DEF Near
      <3>1. PICK x \in U : c - x <= (now - T) + SYNC
        BY <1>5, <1>8, <1>13, <2>3 DEF Soon
      <3>2. x \in Nat
        BY <1>1, <3>1
      <3>3. ((n - MAX_BUFFER_SIZE) + 1) - x <= SYNC + MaxBurst + 1
        BY <1>1, <1>2, <1>6, <1>13, <3>1, <3>2
      <3> QED BY <2>3, <3>3
    <2> QED BY <1>7, <2>1, <2>2, <2>3 DEF Grown
  <1>14. InStep(U, a, z, now)
    BY <1>7, <1>8 DEF InStep
  <1>15. Paced(q, n, c, now)
    <2>1. /\ Timely(q.agent_buffer, q.user_buffer, q.last_agent_frame, c, now)
          /\ Consecutive(Users(q), q.user_buffer, n)
      BY <1>4, <1>7 DEF z
    <2>2. q.agent_stream_active =>
            /\ Near(Users(q), q.user_buffer)
            /\ InStep(Users(q), q.agent_buffer, q.user_buffer, now)
            /\ Soon(Users(q), q.agent_buffer, q.last_agent_frame, c, now)
      BY <1>4, <1>5, <1>13, <1>14 DEF z
    <2> QED BY <1>4, <2>1, <2>2 DEF Paced
  <1>16. Paced(w, n, c, now) /\ (w.user_buffer # <<>> => w.agent_stream_active)
    BY <1>1, <1>2, <1>3, <1>15, ProcessPaced
  <1>17. Chain(UserTrail(q), n)
    <2> DEFINE p == Len(u)
    <2>1. /\ UserTrail(m) = U \cup (((n - 1) - p) + 1)..(n - 1)
          /\ UserTrail(q) = U \cup ((n - Len(z)) + 1)..n
      BY <1>1, <1>2, <1>5, <1>7, <1>10, ConsecutiveRange
    <2>2. p \in Nat /\ (p # 0 <=> u # <<>>)
      BY <1>1
    <2>3. p # 0 => u[1].n = n - p
      <3> SUFFICES ASSUME p # 0 PROVE u[1].n = n - p
        OBVIOUS
      <3>1. 1 \in DOMAIN u
        BY <1>1, <2>2
      <3>2. u[1].n = ((n - 1) - p) + 1
        BY <1>5, <3>1 DEF Consecutive
      <3> QED BY <1>2, <2>2, <3>2
    <2>4. \A x \in U : x < n - p
      <3>1. CASE p = 0
        BY <1>2, <1>11, <3>1
      <3>2. CASE p # 0
        <4>1. 1 \in DOMAIN u
          BY <1>1, <2>2, <3>2
        <4> QED BY <1>1, <2>3, <3>2, <4>1
      <3> QED BY <3>1, <3>2
    <2>5. p # 0 /\ U # {} => \E x \in U : (n - p) - x <= SYNC + MaxBurst + 1
      BY <1>5, <1>9, <2>2, <2>3 DEF Near
    <2>6. PICK e \in {0, 1} : Len(z) = (p + 1) - e /\ (e = 1 => p # 0)
      <3>1. CASE Len(z) = p + 1
        <4>1. Len(z) = (p + 1) - 0
          BY <2>2, <3>1
        <4> QED BY <4>1
      <3>2. CASE Len(z) = p /\ p = MAX_BUFFER_SIZE
        <4>1. Len(z) = (p + 1) - 1 /\ p # 0
          BY <1>2, <2>2, <3>2
        <4> QED BY <4>1
      <3> QED BY <1>7, <3>1, <3>2 DEF Grown
    <2> HIDE DEF p
    <2>7. ((n - 1) - p) + 1 = n - p /\ (n - Len(z)) + 1 = (n - p) + e
      BY <1>2, <2>2, <2>6
    <2>8. UserTrail(m) = U \cup (n - p)..(n - 1) /\ UserTrail(q) = U \cup ((n - p) + e)..n
      BY <2>1, <2>7
    <2> QED BY <1>1, <1>2, <1>12, <2>2, <2>4, <2>5, <2>6, <2>8, ChainMore
  <1> QED BY <1>0, <1>3, <1>16, <1>17

\* A new frame of the agent: the caller's frames that waited for it are near.
LEMMA AddAgentPaced ==
  ASSUME NEW m, Sound(m), ~BothPending(m), NEW f \in Taken, f.s = "agent",
         f.n \in 1..MaxFrames["agent"], now \in 0..MaxTime, \A x \in AgentTrail(m) : x < f.n,
         NEW L \in Int, NEW c \in Int, Paced(m, L, c, now), Chain(UserTrail(m), L),
         m.user_buffer # <<>> => m.agent_stream_active, NEW w, w = addFrame(m, f)
  PROVE  /\ Paced(w, L, c, now) /\ Chain(UserTrail(w), L)
         /\ w.user_buffer # <<>> => w.agent_stream_active
  <1>0. PICK q : q = Ready(m, f)
    OBVIOUS
  <1> DEFINE a == m.agent_buffer
             u == m.user_buffer
             U == Users(m)
             z == q.agent_buffer
  <1>1. /\ m \in Mixer /\ a \in Seq(Pending("agent")) /\ Len(a) <= MAX_BUFFER_SIZE /\ now \in Nat
    BY Fields DEF Sound
  <1>2. /\ Sound(q) /\ UserTrail(w) = UserTrail(m) /\ w = processBuffers(q)
    BY <1>0, AddAgentFrame DEF addFrame, Ready
  <1>3. /\ Users(q) = U /\ z = Buffered(a, f.n) /\ q.user_buffer = u
        /\ q.last_agent_frame = now /\ q.user_stream_active = m.user_stream_active
    BY <1>0, <1>1, ReadyFields DEF Streams
  <1>4. /\ Timely(a, u, m.last_agent_frame, c, now) /\ Consecutive(U, u, L)
        /\ m.agent_stream_active => Near(U, u)
        /\ UserTrail(m) # {} => m.user_stream_active
    BY DEF Paced
  <1>5. a = <<>> \/ u = <<>>
    BY DEF BothPending
  <1>6. UserTrail(q) = UserTrail(m)
    BY <1>3 DEF UserTrail
  <1>7. u # <<>> => m.agent_stream_active
    OBVIOUS
  <1> HIDE DEF a, u, U, z
  <1>8. /\ z # <<>> /\ z[Len(z)].t = now
        /\ a = <<>> => z[1].t = now
    <2>1. z \in Seq(Pending("agent")) /\ \E e \in {0, 1} : Pushed(a, z, f.n, now, e)
      BY <1>1, <1>3, BufferedFrames DEF Streams
    <2>2. PICK e \in {0, 1} : Pushed(a, z, f.n, now, e)
      BY <2>1
    <2> DEFINE k == Len(z)
    <2>3. /\ z # <<>> /\ k = (Len(a) + 1) - e /\ (e = 1 => Len(a) = MAX_BUFFER_SIZE)
          /\ \A i \in 1..k : i = k => z[i].t = now
      BY <2>2 DEF Pushed
    <2>4. k \in Nat /\ k # 0
      BY <2>1, <2>3
    <2>5. a = <<>> => k = 1
      <3> SUFFICES ASSUME a = <<>> PROVE k = 1
        OBVIOUS
      <3>1. Len(a) = 0 /\ MAX_BUFFER_SIZE # 0
        BY EmptyList, ARAssumption
      <3> QED BY <2>3, <3>1
    <2> HIDE DEF k
    <2>6. k \in 1..k
      BY <2>4
    <2>7. z[k].t = now
      BY <2>3, <2>6
    <2> QED BY <2>3, <2>5, <2>7 DEF k
  <1>9. Timely(z, u, now, c, now)
    BY <1>4, <1>8 DEF Timely
  <1>10. Near(U, u)
    BY <1>4, <1>7 DEF Near
  <1>11. InStep(U, z, u, now) /\ Soon(U, z, now, c, now)
    BY <1>5, <1>8 DEF InStep, Soon
  <1>12. Paced(q, L, c, now)
    <2>1. /\ Timely(q.agent_buffer, q.user_buffer, q.last_agent_frame, c, now)
          /\ Consecutive(Users(q), q.user_buffer, L)
          /\ Near(Users(q), q.user_buffer)
          /\ InStep(Users(q), q.agent_buffer, q.user_buffer, now)
          /\ Soon(Users(q), q.agent_buffer, q.last_agent_frame, c, now)
      BY <1>3, <1>4, <1>9, <1>10, <1>11 DEF z
    <2> QED BY <1>3, <1>4, <1>6, <2>1 DEF Paced
  <1>13. Paced(w, L, c, now) /\ (w.user_buffer # <<>> => w.agent_stream_active)
    BY <1>1, <1>2, <1>12, ProcessPaced
  <1> QED BY <1>2, <1>13

\* The recording keeps the pace, and no frame of the caller is far from the next.
Pace ==
  mixer # None =>
    /\ Paced(mixer, Limit("user") - 1, taken["user"] - ahead, now)
    /\ Chain(UserTrail(mixer), Limit("user") - 1)
    /\ mixer.user_buffer # <<>> => mixer.agent_stream_active

\* The numbers that Pace compares.
LEMMA PaceNumbers ==
  ASSUME TypeOK
  PROVE  /\ Limit("user") - 1 \in Int /\ taken["user"] - ahead \in Int /\ now \in Nat
         /\ taken["user"] \in Nat /\ ahead \in 0..MaxBurst /\ MaxBurst \in Nat
  <1>1. taken["user"] \in Nat /\ ahead \in 0..MaxBurst /\ now \in Nat
    BY ARAssumption DEF TypeOK, Streams
  <1>2. hand # None => hand.n \in Nat
    BY DEF TypeOK, Taken
  <1>3. Limit("user") \in Nat
    BY <1>1, <1>2 DEF Limit
  <1> QED BY <1>1, <1>3, ARAssumption

\* A mixer without a frame of the caller keeps any pace.
LEMMA PaceEmpty ==
  ASSUME NEW m, Sound(m), UserTrail(m) = {}, NEW L, NEW c, NEW d,
         m.agent_buffer # <<>> => m.agent_buffer[Len(m.agent_buffer)].t = m.last_agent_frame
  PROVE  /\ Paced(m, L, c, d) /\ Chain(UserTrail(m), L)
         /\ m.user_buffer # <<>> => m.agent_stream_active
  BY NoCaller DEF Chain

\* So does the first one.
LEMMA PaceInit == ASSUME Init PROVE Pace
  <1>1. now \in 0..MaxTime
    BY ARAssumption DEF Init
  <1>2. /\ mixer \in Mixer /\ mixer.agent_buffer = <<>> /\ mixer.user_buffer = <<>>
        /\ mixer.audio_buffer = <<>> /\ mixer.user_only_buffer = <<>>
    BY <1>1, EmptyMixers DEF Init
  <1>3. Sound(mixer) /\ UserTrail(mixer) = {}
    BY <1>2, EmptyMixer
  <1> QED BY <1>2, <1>3, PaceEmpty DEF Pace

\* Taking a frame changes nothing of this: a frame of the caller is early until
\* its period is over.
LEMMA PaceTake == ASSUME Ind, Pace, NEW s \in Streams, TakeFrame(s) PROVE Pace'
  <1>1. /\ mixer' = mixer /\ now' = now
        /\ \E b \in BOOLEAN : hand' = [s |-> s, n |-> taken[s] + 1, silent |-> b]
        /\ taken' = [taken EXCEPT ![s] = @ + 1]
        /\ ahead' = IF s = "user" THEN ahead + 1 ELSE ahead
        /\ hand = None /\ taken \in [Streams -> Nat] /\ ahead \in Nat
    <2>1. ahead \in Nat
      BY PaceNumbers DEF Ind
    <2> QED BY <2>1 DEF Ind, TypeOK, TakeFrame
  <1>2. Limit("user")' = Limit("user")
    <2>1. hand' \in Taken
      <3>1. taken[s] + 1 \in Nat \ {0}
        BY <1>1
      <3> QED BY <1>1, <3>1 DEF Taken
    <2>2. hand' # None /\ hand'.s = s /\ hand'.n = taken[s] + 1
      BY <1>1, <2>1, ARAssumption
    <2> QED BY <1>1, <2>2 DEF Limit, Streams
  <1>3. (taken["user"] - ahead)' = taken["user"] - ahead
    <2>1. taken["user"] \in Nat
      BY <1>1 DEF Streams
    <2>2. CASE s = "user"
      <3>1. ahead' = ahead + 1 /\ taken'["user"] = taken["user"] + 1
        BY <1>1, <2>2 DEF Streams
      <3> QED BY <1>1, <2>1, <3>1
    <2>3. CASE s # "user"
      <3>1. ahead' = ahead /\ taken'["user"] = taken["user"]
        BY <1>1, <2>3 DEF Streams
      <3> QED BY <3>1
    <2> QED BY <2>2, <2>3
  <1> QED BY <1>1, <1>2, <1>3 DEF Pace

\* Time: one frame at most ceases to be early when a period is over.
LEMMA PacedLater ==
  ASSUME NEW m, Sound(m), ~BothPending(m), NEW L, NEW c \in Int, NEW d \in Nat,
         Paced(m, L, c, d), NEW k \in {c, c + 1}
  PROVE  Paced(m, L, k, d + 1)
  <1> DEFINE a == m.agent_buffer
             u == m.user_buffer
             U == Users(m)
             T == m.last_agent_frame
  <1>1. /\ u \in Seq(Pending("user")) /\ T \in Nat /\ U \in SUBSET Nat
    BY Fields, UsersFacts DEF Sound
  <1>2. \A i \in DOMAIN u : u[i].n \in Nat /\ u[i].t \in Nat
    BY <1>1, PendingNumbers DEF Streams
  <1>3. /\ Timely(a, u, T, c, d) /\ Consecutive(U, u, L)
        /\ m.agent_stream_active => Near(U, u) /\ Soon(U, a, T, c, d)
        /\ UserTrail(m) # {} => m.user_stream_active
    BY DEF Paced
  <1>4. InStep(U, a, u, d + 1)
    BY DEF BothPending, InStep
  <1> HIDE DEF a, u, U, T
  <1>5. ASSUME NEW n \in Nat, NEW x \in Int, c - n <= x PROVE k - n <= x + 1
    BY <1>5
  <1>6. Timely(a, u, T, k, d + 1)
    <2>1. ASSUME NEW i \in DOMAIN u PROVE u[i].t <= d + 1 /\ k - u[i].n <= (d + 1) - u[i].t
      <3>1. /\ u[i].n \in Nat /\ u[i].t \in Nat /\ u[i].t <= d /\ c - u[i].n <= d - u[i].t
            /\ d - u[i].t \in Int
        BY <1>2, <1>3 DEF Timely
      <3>2. k - u[i].n <= (d - u[i].t) + 1
        BY <1>5, <3>1
      <3> QED BY <3>1, <3>2
    <2> QED BY <1>3, <2>1 DEF Timely
  <1>7. Soon(U, a, T, c, d) => Soon(U, a, T, k, d + 1)
    <2> SUFFICES ASSUME Soon(U, a, T, c, d), a = <<>>, U # {}
                 PROVE  \E n \in U : k - n <= ((d + 1) - T) + SYNC
      BY DEF Soon
    <2>1. PICK n \in U : c - n <= (d - T) + SYNC
      BY DEF Soon
    <2>2. n \in Nat /\ SYNC \in Nat /\ (d - T) + SYNC \in Int
      BY <1>1, <2>1, ARAssumption
    <2>3. k - n <= ((d - T) + SYNC) + 1
      BY <1>5, <2>1, <2>2
    <2>4. ((d - T) + SYNC) + 1 = ((d + 1) - T) + SYNC
      BY <1>1, <2>2
    <2> QED BY <2>3, <2>4
  <1> QED BY <1>3, <1>4, <1>6, <1>7 DEF Paced, a, u, U, T

\* A tick begins the next period.
LEMMA PaceTick == ASSUME Ind, Pace, Tick PROVE Pace'
  <1> SUFFICES ASSUME mixer # None PROVE Pace'
    BY DEF Pace, Tick
  <1> DEFINE c == taken["user"] - ahead
             k == IF ahead > 0 THEN c + 1 ELSE c
             L == Limit("user") - 1
  <1>1. /\ mixer' = mixer /\ taken' = taken /\ hand' = hand /\ now' = now + 1
        /\ ahead' = IF ahead > 0 THEN ahead - 1 ELSE 0
    BY DEF Tick
  <1>2. c \in Int /\ now \in Nat /\ k \in {c, c + 1}
    BY PaceNumbers DEF Ind
  <1>3. Sound(mixer) /\ ~BothPending(mixer)
    BY DEF Ind, MixerOK
  <1>4. Paced(mixer, L, c, now) /\ Chain(UserTrail(mixer), L)
    BY DEF Pace
  <1>5. Limit("user")' = Limit("user") /\ (taken["user"] - ahead)' = k
    <2>1. taken["user"] \in Nat /\ ahead \in Nat
      BY PaceNumbers DEF Ind
    <2> QED BY <1>1, <2>1 DEF Limit
  <1> HIDE DEF c, k, L
  <1>6. Paced(mixer, L, k, now + 1)
    BY <1>2, <1>3, <1>4, PacedLater
  <1> QED BY <1>1, <1>4, <1>5, <1>6 DEF Pace, L

\* The frame in the hand is written: it is the next one of its stream.
LEMMA PaceWrite == ASSUME Ind, Pace, writeFrame, WINDOW <= MAX_BUFFER_SIZE PROVE Pace'
  <1>1. /\ hand # None /\ hand' = None /\ taken' = taken /\ ahead' = ahead /\ now' = now
        /\ mixer' = IF is_recording /\ mixer # None THEN addFrame(mixer, hand) ELSE mixer
    BY DEF writeFrame
  <1> SUFFICES ASSUME mixer # None PROVE Pace'
    BY <1>1 DEF Pace
  <1> DEFINE n == taken["user"]
             c == n - ahead
             L == Limit("user") - 1
  <1>2. n \in Nat /\ c \in Int /\ L \in Int /\ now \in Nat /\ c <= n /\ n <= c + MaxBurst
    BY PaceNumbers DEF Ind
  <1>3. /\ hand \in Taken /\ hand.s \in Streams /\ hand.n \in 1..MaxFrames[hand.s]
        /\ now \in 0..MaxTime /\ Sound(mixer) /\ hand.n = taken[hand.s]
        /\ hand.s = "agent" => \A x \in AgentTrail(mixer) : x < hand.n
        /\ hand.s = "user" =>
             \A x \in UserTrail(mixer) \cup Range(mixer.user_only_buffer) : x < hand.n
    BY <1>1, HandFacts
  <1>4. ~BothPending(mixer)
    BY DEF Ind, MixerOK
  <1>5. /\ Paced(mixer, L, c, now) /\ Chain(UserTrail(mixer), L)
        /\ mixer.user_buffer # <<>> => mixer.agent_stream_active
    BY DEF Pace
  <1>6. (Limit("user") - 1)' = n /\ (taken["user"] - ahead)' = c
    <2>1. Limit("user")' = n + 1
      BY <1>1 DEF Limit
    <2> QED BY <1>1, <1>2, <2>1
  <1>7. /\ hand.s = "user" => L = hand.n - 1 /\ n = hand.n
        /\ hand.s # "user" => L = n
    BY <1>1, <1>2, <1>3 DEF Limit
  <1> HIDE DEF n, c, L
  <1>8. /\ Paced(mixer', n, c, now) /\ Chain(UserTrail(mixer'), n)
        /\ mixer'.user_buffer # <<>> => mixer'.agent_stream_active
    <2>1. CASE ~is_recording
      <3>1. mixer' = mixer /\ UserTrail(mixer) = {}
        BY <1>1, <2>1 DEF Ind, Staged
      <3>2. mixer.agent_buffer # <<>> =>
              mixer.agent_buffer[Len(mixer.agent_buffer)].t = mixer.last_agent_frame
        BY <1>5 DEF Paced, Timely
      <3> QED BY <1>3, <3>1, <3>2, PaceEmpty
    <2>2. CASE is_recording /\ hand.s = "user"
      <3>1. mixer' = addFrame(mixer, hand) /\ n = hand.n
        BY <1>1, <1>7, <2>2
      <3>2. Paced(mixer, hand.n - 1, c, now) /\ Chain(UserTrail(mixer), hand.n - 1)
        BY <1>5, <1>7, <2>2
      <3>3. c <= hand.n /\ hand.n <= c + MaxBurst /\ hand.n \in 1..MaxFrames["user"]
        BY <1>2, <1>3, <2>2, <3>1
      <3>4. ASSUME NEW w, w = addFrame(mixer, hand)
            PROVE  /\ Paced(w, hand.n, c, now) /\ Chain(UserTrail(w), hand.n)
                   /\ w.user_buffer # <<>> => w.agent_stream_active
        BY <1>2, <1>3, <1>4, <1>5, <2>2, <3>2, <3>3, <3>4, AddUserPaced
      <3> QED BY <3>1, <3>4
    <2>3. CASE is_recording /\ hand.s = "agent"
      <3>1. mixer' = addFrame(mixer, hand) /\ L = n
        BY <1>1, <1>7, <2>3
      <3>2. hand.n \in 1..MaxFrames["agent"]
        BY <1>3, <2>3
      <3>3. ASSUME NEW w, w = addFrame(mixer, hand)
            PROVE  /\ Paced(w, L, c, now) /\ Chain(UserTrail(w), L)
                   /\ w.user_buffer # <<>> => w.agent_stream_active
        BY <1>2, <1>3, <1>4, <1>5, <2>3, <3>2, <3>3, AddAgentPaced
      <3> QED BY <3>1, <3>3
    <2>4. is_recording \in BOOLEAN
      BY DEF Ind, TypeOK
    <2> QED BY <1>3, <2>1, <2>2, <2>3, <2>4 DEF Streams
  <1> QED BY <1>1, <1>6, <1>8 DEF Pace

\* A recording begins, and begins again after a transfer, without frames.
LEMMA PaceClear == ASSUME Ind, startRecording \/ discardBufferedAudio PROVE Pace'
  <1>1. now \in 0..MaxTime
    BY DEF Ind, TypeOK
  <1>2. /\ mixer' \in Mixer /\ mixer'.agent_buffer = <<>> /\ mixer'.user_buffer = <<>>
        /\ mixer'.audio_buffer = <<>> /\ mixer'.user_only_buffer = <<>>
    <2>1. CASE startRecording
      <3>1. mixer' = NewMixer
        BY <2>1 DEF Ind, Staged, startRecording
      <3> QED BY <1>1, <3>1, EmptyMixers
    <2>2. CASE discardBufferedAudio
      <3>1. mixer \in Mixer /\ mixer' = clearBuffers(mixer)
        BY <2>2 DEF Ind, TypeOK, discardBufferedAudio
      <3> QED BY <1>1, <3>1, EmptyMixers
    <2> QED BY <2>1, <2>2
  <1>3. Sound(mixer') /\ UserTrail(mixer') = {}
    BY <1>2, EmptyMixer
  <1>4. ASSUME NEW L, NEW c, NEW d
        PROVE  /\ Paced(mixer', L, c, d) /\ Chain(UserTrail(mixer'), L)
               /\ mixer'.user_buffer # <<>> => mixer'.agent_stream_active
    BY <1>2, <1>3, PaceEmpty
  <1> QED BY <1>4 DEF Pace

\* A stop takes the mixer away, and other steps leave it alone.
LEMMA PaceSame ==
  ASSUME Pace, mixer' # None => UNCHANGED <<mixer, hand, taken, ahead, now>>
  PROVE  Pace'
  BY DEF Pace, Limit

\* Every step keeps the pace.
LEMMA PaceNext == ASSUME Ind, Pace, [Next]_vars, WINDOW <= MAX_BUFFER_SIZE PROVE Pace'
  <1>1. ASSUME NEW s \in Streams, TakeFrame(s) PROVE Pace'
    BY <1>1, PaceTake
  <1>2. CASE writeFrame
    BY <1>2, PaceWrite
  <1>3. CASE Tick
    BY <1>3, PaceTick
  <1>4. CASE startRecording \/ discardBufferedAudio
    BY <1>4, PaceClear
  <1>5. CASE CallStops \/ RecorderDestroyed
    <2>1. mixer' # None => UNCHANGED <<mixer, hand, taken, ahead, now>>
      BY <1>5 DEF CallStops, RecorderDestroyed, stopRecording
    <2> QED BY <2>1, PaceSame
  <1>6. CASE UNCHANGED vars
    BY <1>6, PaceSame DEF vars
  <1> QED BY <1>1, <1>2, <1>3, <1>4, <1>5, <1>6 DEF Next

-----------------------------------------------------------------------------
(* The theorems *)

\* The variables keep their types, and both pending buffers their limit.
THEOREM TypeCorrect == Spec => []TypeOK
  <1>1. Ind => TypeOK
    BY DEF Ind
  <1> QED BY <1>1, Invariant, PTL

\* Both recordings are sound: processBuffers always leaves one stream at most
\* waiting, the mixed recording has each stream in order and without repetition,
\* the two recordings agree on the caller, and each is handed over once.
THEOREM RecordingsCorrect == Spec => []RecordingsSound
  <1>1. Ind => RecordingsSound
    <2> SUFFICES ASSUME Ind PROVE RecordingsSound
      OBVIOUS
    <2>1. OneSidePending
      BY DEF Ind, MixerOK, BothPending, OneSidePending
    <2>2. RecordedInOrder
      BY DEF Ind, MixerOK, Sound, RecordedInOrder
    <2>3. SidesAgree
      <3> SUFFICES ASSUME mixer # None
                   PROVE  /\ Users(mixer) \subseteq Range(mixer.user_only_buffer)
                          /\ \A i \in DOMAIN Numbers(mixer.user_buffer) :
                               Numbers(mixer.user_buffer)[i] \in Range(mixer.user_only_buffer) => i = 1
        BY DEF SidesAgree
      <3>1. Sides(UserColumn(mixer.audio_buffer), Numbers(mixer.user_buffer), mixer.user_only_buffer)
        BY DEF Ind, MixerOK, Sound
      <3> QED BY <3>1 DEF Sides, Users
    <2>4. UploadedOnce
      BY DEF Ind, Staged
    <2> QED BY <2>1, <2>2, <2>3, <2>4 DEF RecordingsSound
  <1> QED BY <1>1, Invariant, PTL

\* After discardBufferedAudio nothing from before it is recorded or pending,
\* whatever the media thread holds, and however often it is called.
THEOREM TransferClean == Spec => []PostTransferOnly
  <1>1. Ind => PostTransferOnly
    <2> SUFFICES ASSUME Ind, mixer # None PROVE PostTransferOnly
      BY DEF PostTransferOnly
    <2>1. mixer \in Mixer /\ floor["agent"] \in Nat /\ floor["user"] \in Nat
      BY DEF Ind, TypeOK, Streams
    <2>2. \A n \in AgentTrail(mixer) : floor["agent"] <= n /\ n \in Nat
      BY <2>1, TrailNumbers DEF Ind, Fresh
    <2>3. \A n \in UserTrail(mixer) \cup Range(mixer.user_only_buffer) : floor["user"] <= n /\ n \in Nat
      BY <2>1, TrailNumbers DEF Ind, Fresh
    <2>4. \A n \in AgentTrail(mixer) : n >= floor["agent"]
      BY <2>1, <2>2
    <2>5. \A n \in UserTrail(mixer) \cup Range(mixer.user_only_buffer) : n >= floor["user"]
      BY <2>1, <2>3
    <2> QED BY <2>4, <2>5 DEF PostTransferOnly
  <1> QED BY <1>1, Invariant, PTL

\* addFrame is the only step that can lose a frame, and loses only the oldest of
\* a full buffer whose other stream has nothing pending.
THEOREM DropsBounded == Spec => DropsOnlyWhenFull
  <1> DEFINE Drops ==
        (mixer # None /\ mixer' # None /\ ~discardBufferedAudio) =>
          /\ \A n \in AgentTrail(mixer) \ AgentTrail(mixer') :
               /\ Len(mixer.agent_buffer) = MAX_BUFFER_SIZE /\ n = mixer.agent_buffer[1].n
               /\ mixer.user_buffer = <<>>
          /\ \A n \in UserTrail(mixer) \ UserTrail(mixer') :
               /\ Len(mixer.user_buffer) = MAX_BUFFER_SIZE /\ n = mixer.user_buffer[1].n
               /\ mixer.agent_buffer = <<>>
  <1>1. Ind /\ [Next]_vars => [Drops]_vars
    <2> SUFFICES ASSUME Ind, [Next]_vars, mixer # None, mixer' # None, ~discardBufferedAudio
                 PROVE  Drops
      OBVIOUS
    <2>1. CASE mixer' = mixer
      BY <2>1
    <2>2. CASE writeFrame /\ mixer' # mixer
      <3>1. hand # None /\ mixer' = addFrame(mixer, hand)
        BY <2>2 DEF writeFrame
      <3>2. /\ hand \in Taken /\ hand.s \in Streams /\ hand.n \in 1..MaxFrames[hand.s]
            /\ now \in 0..MaxTime /\ mixer \in Mixer /\ Sound(mixer)
            /\ hand.s = "agent" => \A x \in AgentTrail(mixer) : x < hand.n
            /\ hand.s = "user" =>
                 \A x \in UserTrail(mixer) \cup Range(mixer.user_only_buffer) : x < hand.n
        BY <3>1, HandFacts
      <3>3. /\ Len(mixer.agent_buffer) = MAX_BUFFER_SIZE => mixer.user_buffer = <<>>
            /\ Len(mixer.user_buffer) = MAX_BUFFER_SIZE => mixer.agent_buffer = <<>>
        <4>1. mixer.agent_buffer = <<>> \/ mixer.user_buffer = <<>>
          BY DEF Ind, MixerOK, BothPending
        <4> QED BY <4>1, EmptyList, ARAssumption
      <3>4. CASE hand.s = "agent"
        <4>1. /\ UserTrail(mixer') = UserTrail(mixer)
              /\ \A x \in AgentTrail(mixer) \ AgentTrail(mixer') :
                   Len(mixer.agent_buffer) = MAX_BUFFER_SIZE /\ x = mixer.agent_buffer[1].n
          BY <3>1, <3>2, <3>4, AddAgentFrame
        <4> QED BY <3>3, <4>1
      <3>5. CASE hand.s = "user"
        <4>1. /\ AgentTrail(mixer') = AgentTrail(mixer)
              /\ \A x \in UserTrail(mixer) \ UserTrail(mixer') :
                   Len(mixer.user_buffer) = MAX_BUFFER_SIZE /\ x = mixer.user_buffer[1].n
          BY <3>1, <3>2, <3>5, AddUserFrame
        <4> QED BY <3>3, <4>1
      <3> QED BY <3>2, <3>4, <3>5 DEF Streams
    <2>3. CASE startRecording
      <3>1. AgentTrail(mixer) = {} /\ UserTrail(mixer) = {}
        BY <2>3 DEF Ind, Staged, startRecording
      <3> QED BY <3>1
    <2>4. CASE mixer' # mixer /\ ~writeFrame /\ ~startRecording
      <3>1. CallStops \/ RecorderDestroyed
        BY <2>4 DEF Next, TakeFrame, Tick, vars
      <3>2. mixer' = None
        BY <2>4, <3>1 DEF CallStops, RecorderDestroyed, stopRecording
      <3> QED BY <3>2
    <2> QED BY <2>1, <2>2, <2>3, <2>4
  <1>2. Spec => [][Drops]_vars
    <2> HIDE DEF Drops
    <2> QED BY <1>1, Invariant, PTL DEF Spec
  <1> QED BY <1>2 DEF DropsOnlyWhenFull

\* A pause of the agent costs at most SYNC + 1 consecutive frames of the caller
\* and as many as the clock delivers in a burst, for any length of the bursts,
\* provided that the pending buffer holds what arrives in the activity window
\* (50 frames of 20 ms, and 1000 ms, in the code).
THEOREM CallerGap == ASSUME WINDOW <= MAX_BUFFER_SIZE PROVE Spec => []CallerGapBounded
  <1>1. Init => Pace
    BY PaceInit
  <1>2. Ind /\ Pace /\ [Next]_vars => Pace'
    BY PaceNext
  <1>3. Ind /\ Pace => CallerGapBounded
    <2> SUFFICES ASSUME Ind, Pace, mixer # None,
                        NEW n \in UserTrail(mixer), NEW k \in UserTrail(mixer), n < k
                 PROVE  \E next \in UserTrail(mixer) : n < next /\ next <= n + SYNC + MaxBurst + 2
      BY DEF CallerGapBounded
    <2>1. k < Limit("user") /\ n \in Nat /\ k \in Nat /\ Limit("user") - 1 \in Int
      BY TrailNumbers, PaceNumbers DEF Ind, Fresh, TypeOK
    <2>2. Limit("user") \in Int
      <3>1. hand # None => hand.n \in Nat
        BY DEF Ind, TypeOK, Taken
      <3> QED BY <3>1, PaceNumbers DEF Ind, Limit
    <2>3. n < Limit("user") - 1
      BY <2>1, <2>2
    <2> QED BY <2>3 DEF Pace, Chain
  <1> QED BY <1>1, <1>2, <1>3, Invariant, PTL DEF Spec
=============================================================================

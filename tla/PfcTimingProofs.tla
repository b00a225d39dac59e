--------------------------- MODULE PfcTimingProofs ---------------------------
(***************************************************************************)
(* While the MMU's pause timer of a class runs and no frame is under way,  *)
(* the sender at the other end holds the class, for every set of ports and *)
(* classes, packet sizes, thresholds and timers, if a frame takes time.    *)
(*                                                                         *)
(* As in PfcProofs the invariant is a predicate on states of the switch    *)
(* that every handler preserves.  It follows the frames of one class from  *)
(* the control queue over the wire to the sender.                          *)
(*                                                                         *)
(* The second part adds the types of flags, frames and timers to the       *)
(* accounts of PfcProofs, and with them type correctness.                  *)
(***************************************************************************)
EXTENDS PfcProofs

-----------------------------------------------------------------------------
(* The classes in ascending order.                                         *)

Ascending(order) == \A i, j \in DOMAIN order : i < j => order[i] < order[j]

\* A finite set of numbers can be listed upwards: the least number comes first,
\* and a set that cannot be listed has a part that cannot either.
LEMMA CanAscend ==
    ASSUME NEW S \in SUBSET Nat, IsFiniteSet(S)
    PROVE  \E order \in [1..Cardinality(S) -> S] : Ascending(order)
  <1> DEFINE Listed(T) == \E order \in [1..Cardinality(T) -> T] : Ascending(order)
             Finite == {T \in SUBSET Nat : IsFiniteSet(T)}
             Bad == {Cardinality(T) : T \in {U \in Finite : ~Listed(U)}}
  <1>1. SUFFICES ASSUME Bad # {} PROVE FALSE
    BY DEF Bad, Finite
  <1>2. Bad \subseteq Nat
    BY FS_CardinalityType
  <1>3. PICK n \in Bad : \A k \in Bad : n <= k
    <2> HIDE DEF Bad
    <2> QED BY <1>1, <1>2, LeastNumber
  <1>4. PICK T \in Finite : ~Listed(T) /\ Cardinality(T) = n
    BY <1>3 DEF Bad
  <1>5. n \in Nat /\ T \subseteq Nat /\ IsFiniteSet(T)
    BY <1>2, <1>3, <1>4
  <1>6. T # {}
    <2>1. ASSUME T = {} PROVE Listed(T)
      <3>1. Cardinality(T) = 0 /\ 1..0 = {}
        BY <2>1, FS_EmptySet
      <3>2. [i \in {} |-> 0] \in [{} -> {}] /\ Ascending([i \in {} |-> 0])
        BY DEF Ascending
      <3> QED BY <2>1, <3>1, <3>2
    <2> HIDE DEF Listed
    <2> QED BY <1>4, <2>1
  <1>7. PICK m \in T : \A y \in T : m <= y
    BY <1>5, <1>6, LeastNumber
  <1> DEFINE rest == T \ {m}
  <1>8. rest \in Finite /\ Cardinality(rest) = n - 1 /\ n - 1 \in Nat
    <2>1. IsFiniteSet(rest) /\ Cardinality(rest) = n - 1
      BY <1>4, <1>5, <1>7, FS_RemoveElement
    <2>2. Cardinality(rest) \in Nat
      BY <2>1, FS_CardinalityType
    <2> QED BY <1>5, <2>1, <2>2
  <1>9. Listed(rest)
    <2>1. ASSUME ~Listed(rest) PROVE n <= n - 1
      <3>1. Cardinality(rest) \in Bad
        BY <1>8, <2>1 DEF Bad
      <3> HIDE DEF Bad, rest, Listed
      <3> QED BY <1>3, <1>8, <3>1
    <2> HIDE DEF Listed
    <2> QED BY <1>5, <2>1
  <1>10. PICK order \in [1..(n - 1) -> rest] : Ascending(order)
    BY <1>8, <1>9
  <1> DEFINE all == [i \in 1..n |-> IF i = 1 THEN m ELSE order[i - 1]]
  <1>11. ASSUME NEW i \in 1..n, i # 1
         PROVE  i - 1 \in 1..(n - 1) /\ all[i] = order[i - 1] /\ order[i - 1] \in rest
    BY <1>5, <1>10, <1>11
  <1>12. all \in [1..n -> T]
    BY <1>7, <1>11
  <1>13. ASSUME NEW i \in 1..n, NEW j \in 1..n, i < j PROVE all[i] < all[j]
    <2>1. j # 1 /\ all[j] = order[j - 1] /\ order[j - 1] \in rest
      BY <1>5, <1>11, <1>13
    <2>2. CASE i = 1
      <3>1. all[i] = m /\ m <= order[j - 1] /\ m # order[j - 1]
        BY <1>7, <2>1, <2>2
      <3>2. m \in Nat /\ order[j - 1] \in Nat
        BY <1>5, <1>7, <2>1
      <3> HIDE DEF all, rest
      <3> QED BY <2>1, <3>1, <3>2
    <2>3. CASE i # 1
      <3>1. i - 1 \in 1..(n - 1) /\ j - 1 \in 1..(n - 1) /\ i - 1 < j - 1
        BY <1>5, <1>11, <1>13, <2>1, <2>3
      <3>2. order[i - 1] < order[j - 1]
        BY <1>10, <3>1 DEF Ascending
      <3> QED BY <1>11, <2>1, <2>3, <3>2
    <2> QED BY <2>2, <2>3
  <1>14. Listed(T)
    <2> HIDE DEF all
    <2>1. DOMAIN all = 1..n
      BY <1>12
    <2>2. Ascending(all)
      BY <1>13, <2>1 DEF Ascending
    <2> QED BY <1>4, <1>12, <2>2
  <1> QED BY <1>4, <1>14

\* Upwards lists every class of the set.
LEMMA UpwardsLists ==
    ASSUME NEW S \in SUBSET Classes
    PROVE  /\ Cardinality(S) \in Nat
           /\ Upwards(S) \in [1..Cardinality(S) -> S]
           /\ \A c \in S : \E i \in 1..Cardinality(S) : Upwards(S)[i] = c
  <1>1. S \in SUBSET Nat /\ S \subseteq 1..(QCnt - 1) /\ QCnt - 1 \in Int
    BY MmuAssumption
  <1>2. IsFiniteSet(S)
    <2>1. IsFiniteSet(1..(QCnt - 1))
      BY MmuAssumption, FS_Interval
    <2> QED BY <1>1, <2>1, FS_Subset
  <1>3. Cardinality(S) \in Nat
    BY <1>2, FS_CardinalityType
  <1>4. Upwards(S) \in [1..Cardinality(S) -> S] /\ Ascending(Upwards(S))
    BY <1>1, <1>2, CanAscend DEF Upwards, Ascending
  <1> DEFINE n == Cardinality(S)
             order == Upwards(S)
  <1>5. ASSUME NEW i \in 1..n, NEW j \in 1..n, order[i] = order[j] PROVE i = j
    <2>1. order[i] \in Nat /\ order[j] \in Nat
      BY <1>1, <1>4
    <2>2. /\ i < j => order[i] < order[j]
          /\ j < i => order[j] < order[i]
      BY <1>4 DEF Ascending
    <2>3. i \in Int /\ j \in Int
      BY <1>3
    <2> HIDE DEF n, order
    <2> QED BY <1>5, <2>1, <2>2, <2>3
  <1>6. order \in Injection(1..n, S)
    BY <1>4, <1>5 DEF Injection, IsInjective
  <1>7. Cardinality(1..n) = n
    BY <1>3, FS_Interval
  <1>8. order \in Surjection(1..n, S)
    <2> HIDE DEF n, order
    <2>1. Cardinality(1..n) = Cardinality(S)
      BY <1>7 DEF n
    <2> QED BY <1>2, <1>6, <2>1, FS_Injection
  <1> QED BY <1>3, <1>4, <1>8 DEF Surjection

-----------------------------------------------------------------------------
(* The frames of one class.                                                *)

Frame == [class : Classes, pause : BOOLEAN]
WireFrame == [class : Classes, pause : BOOLEAN, left : Nat]
Clock == 0..After(PauseTime)

Has(seq, c) == \E i \in DOMAIN seq : seq[i].class = c
IsLast(seq, i) == \A j \in DOMAIN seq : i < j => seq[j].class # seq[i].class

LastPauses(seq, c) ==
    \A i \in DOMAIN seq : seq[i].class = c /\ IsLast(seq, i) => seq[i].pause = TRUE

\* A PAUSE on the wire is at least as old as the switch's timer: with what it
\* still needs, the timer it starts ends later than the switch's.
WirePauses(timer, wire, c) ==
    \A i \in DOMAIN wire : wire[i].class = c /\ IsLast(wire, i) =>
      /\ wire[i].pause = TRUE
      /\ timer + After(Delay) <= After(PauseTime) + wire[i].left

\* While the switch's timer of class c runs, the last frame of c says PAUSE; if
\* it has arrived, the sender is paused and its timer ends later.
Told(timer, ctrl, wire, paused, resumeIn, c) ==
    timer # 0 =>
      /\ LastPauses(ctrl, c)
      /\ ~Has(ctrl, c) => WirePauses(timer, wire, c)
      /\ ~Has(ctrl, c) /\ ~Has(wire, c) => paused = TRUE /\ timer < resumeIn

\* Where the entries of a joined sequence come from.
LEMMA Joined ==
    ASSUME NEW S, NEW a \in Seq(S), NEW b \in Seq(S)
    PROVE  /\ a \o b \in Seq(S)
           /\ \A i \in DOMAIN a : i \in DOMAIN (a \o b) /\ (a \o b)[i] = a[i]
           /\ \A j \in DOMAIN b : /\ Len(a) + j \in DOMAIN (a \o b)
                                  /\ (a \o b)[Len(a) + j] = b[j]
           /\ \A i \in DOMAIN (a \o b) :
                \/ i \in DOMAIN a
                \/ \E j \in DOMAIN b : i = Len(a) + j
           /\ \A i \in DOMAIN a, j \in DOMAIN b : i < Len(a) + j
  <1>1. /\ Len(a) \in Nat /\ Len(b) \in Nat /\ Len(a \o b) = Len(a) + Len(b)
        /\ DOMAIN a = 1..Len(a) /\ DOMAIN b = 1..Len(b)
        /\ DOMAIN (a \o b) = 1..(Len(a) + Len(b)) /\ a \o b \in Seq(S)
    BY ConcatProperties, LenProperties
  <1>2. \A i \in 1..(Len(a) + Len(b)) :
          (a \o b)[i] = IF i <= Len(a) THEN a[i] ELSE b[i - Len(a)]
    BY ConcatProperties, <1>1
  <1>3. ASSUME NEW i \in 1..(Len(a) + Len(b)), i \notin 1..Len(a)
        PROVE  i - Len(a) \in 1..Len(b) /\ i = Len(a) + (i - Len(a))
    BY <1>1, <1>3
  <1>4. ASSUME NEW j \in 1..Len(b)
        PROVE  /\ Len(a) + j \in 1..(Len(a) + Len(b)) /\ ~(Len(a) + j <= Len(a))
               /\ Len(a) + j - Len(a) = j
    BY <1>1, <1>4
  <1>5. ASSUME NEW i \in 1..Len(a)
        PROVE  i \in 1..(Len(a) + Len(b)) /\ i <= Len(a) /\ \A j \in 1..Len(b) : i < Len(a) + j
    BY <1>1, <1>5
  <1> QED BY <1>1, <1>2, <1>3, <1>4, <1>5

\* Frames of other classes are queued.
LEMMA OthersQueued ==
    ASSUME NEW ctrl \in Seq(Frame), NEW frames \in Seq(Frame), NEW c,
           ~Has(frames, c), NEW timer, NEW wire, NEW paused, NEW resumeIn,
           Told(timer, ctrl, wire, paused, resumeIn, c)
    PROVE  Told(timer, ctrl \o frames, wire, paused, resumeIn, c)
  <1> DEFINE new == ctrl \o frames
  <1>1. Has(ctrl, c) => Has(new, c)
    BY Joined DEF Has
  <1>2. ASSUME NEW i \in DOMAIN new, new[i].class = c, IsLast(new, i), LastPauses(ctrl, c)
        PROVE  new[i].pause = TRUE
    <2>1. i \in DOMAIN ctrl /\ new[i] = ctrl[i]
      BY <1>2, Joined DEF Has
    <2>2. ASSUME NEW j \in DOMAIN ctrl, i < j PROVE ctrl[j].class # ctrl[i].class
      <3>1. j \in DOMAIN new /\ new[j] = ctrl[j]
        BY Joined
      <3>2. new[j].class # new[i].class
        BY <1>2, <2>2, <3>1 DEF IsLast
      <3> HIDE DEF new
      <3> QED BY <2>1, <3>1, <3>2
    <2>3. IsLast(ctrl, i)
      BY <2>2 DEF IsLast
    <2> HIDE DEF new
    <2> QED BY <1>2, <2>1, <2>3 DEF LastPauses
  <1>3. LastPauses(ctrl, c) => LastPauses(new, c)
    BY <1>2 DEF LastPauses
  <1> QED BY <1>1, <1>3 DEF Told

\* The last of the frames queued says PAUSE.
LEMMA PauseQueued ==
    ASSUME NEW ctrl \in Seq(Frame), NEW frames \in Seq(Frame), NEW c,
           Has(frames, c), LastPauses(frames, c),
           NEW timer, NEW wire, NEW paused, NEW resumeIn
    PROVE  Told(timer, ctrl \o frames, wire, paused, resumeIn, c)
  <1> DEFINE new == ctrl \o frames
  <1>1. PICK k \in DOMAIN frames : frames[k].class = c
    BY DEF Has
  <1>2. Len(ctrl) + k \in DOMAIN new /\ new[Len(ctrl) + k] = frames[k]
    BY Joined
  <1>3. Has(new, c)
    <2> HIDE DEF new
    <2> QED BY <1>1, <1>2 DEF Has
  <1>4. ASSUME NEW i \in DOMAIN new, new[i].class = c, IsLast(new, i)
        PROVE  new[i].pause = TRUE
    <2>1. i \notin DOMAIN ctrl
      BY <1>1, <1>2, <1>4, Joined DEF IsLast
    <2>4. PICK j \in DOMAIN frames : i = Len(ctrl) + j
      BY <2>1, Joined
    <2>5. new[i] = frames[j]
      BY <2>4, Joined
    <2>6. ASSUME NEW m \in DOMAIN frames, j < m PROVE frames[m].class # c
      <3>1. Len(ctrl) + m \in DOMAIN new /\ new[Len(ctrl) + m] = frames[m]
        BY Joined
      <3>2. i < Len(ctrl) + m
        <4>1. Len(ctrl) \in Nat /\ DOMAIN frames = 1..Len(frames) /\ Len(frames) \in Nat
          BY LenProperties
        <4> QED BY <2>4, <2>6, <4>1
      <3> QED BY <1>4, <3>1, <3>2 DEF IsLast
    <2>7. IsLast(frames, j)
      BY <1>4, <2>5, <2>6 DEF IsLast
    <2> QED BY <1>4, <2>5, <2>7 DEF LastPauses
  <1> QED BY <1>3, <1>4 DEF Told, LastPauses


\* A sequence without its first entry.
LEMMA Shifted ==
    ASSUME NEW S, NEW seq \in Seq(S), seq # <<>>
    PROVE  /\ Head(seq) = seq[1] /\ Head(seq) \in S /\ Tail(seq) \in Seq(S)
           /\ 1 \in DOMAIN seq
           /\ \A i \in DOMAIN Tail(seq) :
                i + 1 \in DOMAIN seq /\ Tail(seq)[i] = seq[i + 1] /\ 1 < i + 1
           /\ \A i \in DOMAIN seq :
                i # 1 => i - 1 \in DOMAIN Tail(seq) /\ seq[i] = Tail(seq)[i - 1]
           /\ \A i, j \in DOMAIN Tail(seq) : i < j <=> i + 1 < j + 1
           /\ DOMAIN seq \subseteq Nat
  <1>1. /\ Len(seq) \in Nat /\ Len(seq) > 0 /\ DOMAIN seq = 1..Len(seq)
        /\ Tail(seq) \in Seq(S) /\ Len(Tail(seq)) = Len(seq) - 1
        /\ DOMAIN Tail(seq) = 1..(Len(seq) - 1)
        /\ Head(seq) = seq[1] /\ Head(seq) \in S
        /\ \A i \in 1..(Len(seq) - 1) : Tail(seq)[i] = seq[i + 1]
    BY HeadTailProperties, LenProperties, EmptySeq
  <1>2. ASSUME NEW i \in 1..(Len(seq) - 1)
        PROVE  i + 1 \in 1..Len(seq) /\ 1 < i + 1
    BY <1>1, <1>2
  <1>3. ASSUME NEW i \in 1..Len(seq), i # 1
        PROVE  i - 1 \in 1..(Len(seq) - 1) /\ i - 1 + 1 = i
    BY <1>1, <1>3
  <1>4. ASSUME NEW i \in 1..(Len(seq) - 1), NEW j \in 1..(Len(seq) - 1)
        PROVE  i < j <=> i + 1 < j + 1
    BY <1>1, <1>4
  <1> QED BY <1>1, <1>2, <1>3, <1>4

\* What is last in the tail is last in the whole.
LEMMA LastOfTail ==
    ASSUME NEW S, NEW seq \in Seq(S), seq # <<>>, NEW i \in DOMAIN Tail(seq),
           IsLast(Tail(seq), i)
    PROVE  IsLast(seq, i + 1)
  <1> SUFFICES ASSUME NEW j \in DOMAIN seq, i + 1 < j
               PROVE  seq[j].class # seq[i + 1].class
    BY DEF IsLast
  <1>1. j # 1 /\ i \in Nat /\ j \in Nat
    <2>1. 1 < i + 1 /\ i + 1 \in DOMAIN seq /\ DOMAIN seq \subseteq Nat
      BY Shifted
    <2>2. DOMAIN Tail(seq) = 1..Len(Tail(seq)) /\ Len(Tail(seq)) \in Nat
      BY Shifted, LenProperties
    <2> QED BY <2>1, <2>2
  <1>2. j - 1 \in DOMAIN Tail(seq) /\ seq[j] = Tail(seq)[j - 1] /\ seq[i + 1] = Tail(seq)[i]
    BY <1>1, Shifted
  <1>3. i < j - 1
    BY <1>1
  <1> QED BY <1>2, <1>3 DEF IsLast

\* The first frame leaves the control queue for the wire.
LEMMA FrameSent ==
    ASSUME NEW ctrl \in Seq(Frame), ctrl # <<>>, NEW wire \in Seq(WireFrame), NEW c,
           NEW timer \in Clock, NEW paused, NEW resumeIn,
           Told(timer, ctrl, wire, paused, resumeIn, c)
    PROVE  LET f == Head(ctrl)
               sent == [class |-> f.class, pause |-> f.pause, left |-> After(Delay)]
           IN  /\ Append(wire, sent) \in Seq(WireFrame)
               /\ Told(timer, Tail(ctrl), Append(wire, sent), paused, resumeIn, c)
  <1> DEFINE f == Head(ctrl)
             sent == [class |-> f.class, pause |-> f.pause, left |-> After(Delay)]
             new == Append(wire, sent)
             n == Len(wire)
  <1>1. f \in Frame /\ f = ctrl[1] /\ 1 \in DOMAIN ctrl
    BY Shifted
  <1>2. sent \in WireFrame
    BY <1>1, PfcAssumption DEF Frame, WireFrame, After
  <1>3. /\ new \in Seq(WireFrame) /\ n \in Nat
        /\ DOMAIN wire = 1..n /\ DOMAIN new = 1..(n + 1)
        /\ new[n + 1] = sent /\ \A i \in 1..n : new[i] = wire[i]
    <2> HIDE DEF sent
    <2> QED BY <1>2, AppendProperties, LenProperties
  <1>4. sent.class = f.class /\ sent.pause = f.pause /\ sent.left = After(Delay)
    OBVIOUS
  <1>5. /\ 1..n \subseteq 1..(n + 1) /\ n + 1 \in 1..(n + 1)
        /\ \A i \in 1..(n + 1) : i \in 1..n \/ i = n + 1
        /\ \A i \in 1..n : i < n + 1
    BY <1>3
  <1> HIDE DEF f, sent, new, n
  <1>6. Has(ctrl, c) <=> Has(Tail(ctrl), c) \/ f.class = c
    <2>1. ASSUME NEW i \in DOMAIN ctrl, ctrl[i].class = c, f.class # c
          PROVE  Has(Tail(ctrl), c)
      <3>1. i - 1 \in DOMAIN Tail(ctrl) /\ Tail(ctrl)[i - 1].class = c
        BY <1>1, <2>1, Shifted
      <3> QED BY <3>1 DEF Has
    <2>2. ASSUME NEW i \in DOMAIN Tail(ctrl), Tail(ctrl)[i].class = c
          PROVE  Has(ctrl, c)
      BY <2>2, Shifted DEF Has
    <2> QED BY <1>1, <2>1, <2>2 DEF Has
  <1>7. Has(new, c) <=> Has(wire, c) \/ f.class = c
    BY <1>3, <1>4, <1>5 DEF Has
  <1>8. LastPauses(ctrl, c) => LastPauses(Tail(ctrl), c)
    <2>1. ASSUME LastPauses(ctrl, c), NEW i \in DOMAIN Tail(ctrl),
                 Tail(ctrl)[i].class = c, IsLast(Tail(ctrl), i)
          PROVE  Tail(ctrl)[i].pause = TRUE
      <3>1. IsLast(ctrl, i + 1)
        BY <2>1, LastOfTail
      <3>2. i + 1 \in DOMAIN ctrl /\ Tail(ctrl)[i] = ctrl[i + 1]
        BY Shifted
      <3> QED BY <2>1, <3>1, <3>2 DEF LastPauses
    <2> QED BY <2>1 DEF LastPauses
  <1>9. ASSUME LastPauses(ctrl, c), ~Has(Tail(ctrl), c),
               ~Has(ctrl, c) => WirePauses(timer, wire, c),
               NEW i \in DOMAIN new, new[i].class = c, IsLast(new, i)
        PROVE  /\ new[i].pause = TRUE
               /\ timer + After(Delay) <= After(PauseTime) + new[i].left
    <2>1. CASE i = n + 1
      <3>1. new[i] = sent /\ f.class = c
        BY <1>3, <1>4, <1>9, <2>1
      <3>2. ASSUME NEW j \in DOMAIN ctrl, 1 < j PROVE ctrl[j].class # c
        <4>1. j # 1
          BY <3>2, Shifted
        <4>2. j - 1 \in DOMAIN Tail(ctrl) /\ ctrl[j] = Tail(ctrl)[j - 1]
          BY <4>1, Shifted
        <4> QED BY <1>9, <4>2 DEF Has
      <3>3. IsLast(ctrl, 1)
        BY <1>1, <3>1, <3>2 DEF IsLast
      <3>4. f.pause = TRUE
        BY <1>1, <1>9, <3>1, <3>3 DEF LastPauses
      <3>5. timer + After(Delay) <= After(PauseTime) + After(Delay)
        BY PfcAssumption DEF Clock, After
      <3> QED BY <1>4, <3>1, <3>4, <3>5
    <2>2. CASE i # n + 1
      <3>1. i \in DOMAIN wire /\ new[i] = wire[i]
        BY <1>3, <1>5, <2>2
      <3>2. f.class # c
        BY <1>3, <1>4, <1>5, <1>9, <3>1 DEF IsLast
      <3>3. WirePauses(timer, wire, c)
        BY <1>6, <1>9, <3>2
      <3>4. IsLast(wire, i)
        BY <1>3, <1>5, <1>9, <3>1 DEF IsLast
      <3> QED BY <1>9, <3>1, <3>3, <3>4 DEF WirePauses
    <2> QED BY <2>1, <2>2
  <1>10. Told(timer, Tail(ctrl), new, paused, resumeIn, c)
    BY <1>6, <1>7, <1>8, <1>9 DEF Told, WirePauses
  <1> QED BY <1>3, <1>10 DEF f, sent, new


\* The first frame on the wire reaches the sender.
LEMMA FrameReceived ==
    ASSUME Delay > 0, NEW ctrl, NEW wire \in Seq(WireFrame), wire # <<>>,
           Head(wire).left = 1, NEW c,
           NEW timer \in Clock, NEW paused, NEW resumeIn,
           Told(timer, ctrl, wire, paused, resumeIn, c)
    PROVE  /\ Head(wire).class = c =>
                Told(timer, ctrl, Tail(wire), Head(wire).pause,
                     IF Head(wire).pause THEN After(PauseTime) ELSE 0, c)
           /\ Head(wire).class # c => Told(timer, ctrl, Tail(wire), paused, resumeIn, c)
  <1> DEFINE f == Head(wire)
             rest == Tail(wire)
  <1>1. f \in WireFrame /\ f = wire[1] /\ 1 \in DOMAIN wire /\ f.left = 1
    BY Shifted
  <1> HIDE DEF f
  <1>2. WirePauses(timer, wire, c) => WirePauses(timer, rest, c)
    <2> SUFFICES ASSUME WirePauses(timer, wire, c), NEW i \in DOMAIN rest,
                        rest[i].class = c, IsLast(rest, i)
                 PROVE  /\ rest[i].pause = TRUE
                        /\ timer + After(Delay) <= After(PauseTime) + rest[i].left
      BY DEF WirePauses
    <2>1. IsLast(wire, i + 1)
      BY LastOfTail
    <2>2. i + 1 \in DOMAIN wire /\ rest[i] = wire[i + 1]
      BY Shifted
    <2> HIDE DEF rest
    <2> QED BY <2>1, <2>2 DEF WirePauses
  <1>3. Has(wire, c) => Has(rest, c) \/ f.class = c
    <2> SUFFICES ASSUME NEW i \in DOMAIN wire, wire[i].class = c, f.class # c
                 PROVE  Has(rest, c)
      BY DEF Has
    <2>1. i - 1 \in DOMAIN rest /\ rest[i - 1].class = c
      BY <1>1, Shifted
    <2> QED BY <2>1 DEF Has
  <1>4. CASE f.class # c
    BY <1>2, <1>3, <1>4 DEF Told, f
  <1>5. CASE f.class = c
    <2>1. ASSUME WirePauses(timer, wire, c), ~Has(rest, c)
          PROVE  f.pause = TRUE /\ timer < After(PauseTime)
      <3>1. ASSUME NEW j \in DOMAIN wire, 1 < j PROVE wire[j].class # c
        <4>1. j # 1
          BY <3>1, Shifted
        <4>2. j - 1 \in DOMAIN rest /\ wire[j] = rest[j - 1]
          BY <4>1, Shifted
        <4> QED BY <2>1, <4>2 DEF Has
      <3>2. IsLast(wire, 1)
        BY <1>1, <1>5, <3>1 DEF IsLast
      <3>3. f.pause = TRUE /\ timer + After(Delay) <= After(PauseTime) + 1
        BY <1>1, <1>5, <2>1, <3>2 DEF WirePauses
      <3> QED BY <3>3, PfcAssumption DEF Clock, After
    <2>2. Has(wire, c)
      BY <1>1, <1>5 DEF Has
    <2>3. Told(timer, ctrl, rest, f.pause, IF f.pause THEN After(PauseTime) ELSE 0, c)
      BY <1>2, <2>1, <2>2 DEF Told
    <2> QED BY <1>5, <2>3 DEF f
  <1> QED BY <1>4, <1>5

\* The clock advances, which it does not while the switch's timer is due.
LEMMA TimePasses ==
    ASSUME NEW ctrl, NEW wire \in Seq(WireFrame), NEW c,
           NEW timer \in Clock, timer # 1, NEW paused, NEW resumeIn \in Nat,
           Told(timer, ctrl, wire, paused, resumeIn, c)
    PROVE  /\ Earlier(timer) \in Clock /\ Earlier(resumeIn) \in Nat
           /\ EarlierWire(wire) \in Seq(WireFrame)
           /\ Told(Earlier(timer), ctrl, EarlierWire(wire), paused, Earlier(resumeIn), c)
  <1> DEFINE new == EarlierWire(wire)
  <1>1. /\ Earlier(timer) \in Clock /\ Earlier(resumeIn) \in Nat
        /\ Earlier(timer) # 0 => timer # 0 /\ Earlier(timer) = timer - 1
        /\ timer # 0 /\ timer < resumeIn => Earlier(timer) < Earlier(resumeIn)
    BY PfcAssumption DEF Earlier, Clock, After
  <1>2. /\ Len(wire) \in Nat /\ DOMAIN wire = 1..Len(wire)
        /\ \A i \in 1..Len(wire) : wire[i] \in WireFrame
    BY LenProperties, ElementOfSeq
  <1>3. ASSUME NEW i \in 1..Len(wire)
        PROVE  /\ new[i] \in WireFrame
               /\ new[i].class = wire[i].class /\ new[i].pause = wire[i].pause
               /\ new[i].left \in Nat /\ wire[i].left \in Nat /\ wire[i].left <= new[i].left + 1
    <2>1. new[i] = [wire[i] EXCEPT !.left = Earlier(@)]
      BY DEF EarlierWire
    <2>2. /\ Earlier(wire[i].left) \in Nat /\ wire[i].left \in Nat
          /\ wire[i].left <= Earlier(wire[i].left) + 1
      BY <1>2 DEF WireFrame, Earlier
    <2> HIDE DEF new
    <2> QED BY <1>2, <2>1, <2>2 DEF WireFrame
  <1>4. DOMAIN new = 1..Len(wire)
    BY DEF EarlierWire
  <1>5. new \in Seq(WireFrame)
    <2>1. new = [i \in 1..Len(wire) |-> new[i]]
      BY DEF EarlierWire
    <2> HIDE DEF new
    <2> QED BY <1>2, <1>3, <2>1
  <1> HIDE DEF new
  <1>6. Has(new, c) <=> Has(wire, c)
    BY <1>2, <1>3, <1>4 DEF Has
  <1>7. ASSUME timer # 0, Earlier(timer) = timer - 1, WirePauses(timer, wire, c)
        PROVE  WirePauses(Earlier(timer), new, c)
    <2> SUFFICES ASSUME NEW i \in 1..Len(wire), new[i].class = c, IsLast(new, i)
                 PROVE  /\ new[i].pause = TRUE
                        /\ Earlier(timer) + After(Delay) <= After(PauseTime) + new[i].left
      BY <1>4 DEF WirePauses
    <2>1. IsLast(wire, i)
      BY <1>2, <1>3, <1>4 DEF IsLast
    <2>2. wire[i].pause = TRUE /\ timer + After(Delay) <= After(PauseTime) + wire[i].left
      BY <1>2, <1>3, <1>7, <2>1 DEF WirePauses
    <2> QED BY <1>3, <1>7, <2>2, PfcAssumption DEF Clock, After
  <1>8. Told(Earlier(timer), ctrl, new, paused, Earlier(resumeIn), c)
    BY <1>1, <1>6, <1>7 DEF Told
  <1> QED BY <1>1, <1>5, <1>8 DEF new

\* The frames of a loop over the classes.
LEMMA FramesSay ==
    ASSUME NEW S \in SUBSET Classes, NEW pause \in BOOLEAN
    PROVE  /\ Frames(S, pause) \in Seq(Frame)
           /\ \A c : Has(Frames(S, pause), c) <=> c \in S
           /\ \A i \in DOMAIN Frames(S, pause) : Frames(S, pause)[i].pause = pause
  <1> DEFINE n == Cardinality(S)
             order == Upwards(S)
             frames == [i \in 1..n |-> [class |-> order[i], pause |-> pause]]
  <1>1. /\ n \in Nat /\ order \in [1..n -> S]
        /\ \A c \in S : \E i \in 1..n : order[i] = c
    BY UpwardsLists
  <1>2. Frames(S, pause) = frames
    BY DEF Frames
  <1> HIDE DEF n, order
  <1>3. \A i \in 1..n : frames[i] \in Frame
    BY <1>1 DEF Frame
  <1>4. /\ frames = [i \in 1..n |-> frames[i]] /\ DOMAIN frames = 1..n
        /\ \A i \in 1..n : frames[i].class = order[i] /\ frames[i].pause = pause
    OBVIOUS
  <1> HIDE DEF frames
  <1>5. frames \in Seq(Frame)
    BY <1>1, <1>3, <1>4
  <1>6. ASSUME NEW c PROVE Has(frames, c) <=> c \in S
    BY <1>1, <1>4 DEF Has
  <1> QED BY <1>2, <1>4, <1>5, <1>6


-----------------------------------------------------------------------------
(* The handlers.                                                           *)

PfcTimers(v) ==
    v \in [paused : {v.paused}, remote : {v.remote},
           resumeIn : [Ports -> [Classes -> Clock]]]

\* In state s the frames have still to be queued at port p.
AnnouncedWith(s, p, frames) ==
    /\ PfcTimers(s.pfc)
    /\ s.toPeer \in [Ports -> Seq(WireFrame)]
    /\ \A q \in Ports : s.dev[q].ctrl \in Seq(Frame)
    /\ \A q \in Ports, c \in Classes :
         Told(s.pfc.resumeIn[q][c],
              IF q = p THEN s.dev[q].ctrl \o frames ELSE s.dev[q].ctrl,
              s.toPeer[q], peer[q].paused[c], peer[q].resumeIn[c], c)

Announced(s) ==
    /\ PfcTimers(s.pfc)
    /\ s.toPeer \in [Ports -> Seq(WireFrame)]
    /\ \A q \in Ports : s.dev[q].ctrl \in Seq(Frame)
    /\ \A q \in Ports, c \in Classes :
         Told(s.pfc.resumeIn[q][c], s.dev[q].ctrl, s.toPeer[q],
              peer[q].paused[c], peer[q].resumeIn[c], c)

\* What touches neither timers nor frames.
LEMMA AnnouncedKept ==
    ASSUME NEW s, NEW t, Announced(s), t.pfc = s.pfc, t.toPeer = s.toPeer,
           \A q \in Ports : t.dev[q].ctrl = s.dev[q].ctrl
    PROVE  Announced(t)
  BY DEF Announced, PfcTimers

\* The control queue is served.
LEMMA SendControlAnnounced ==
    ASSUME NEW s, NEW owed, Counted(s, owed), Announced(s), NEW p \in Ports,
           s.dev[p].ctrl # <<>>
    PROVE  Announced(SendControl(s, p))
  <1> DEFINE ctrl == s.dev[p].ctrl
             f == Head(ctrl)
             sent == [class |-> f.class, pause |-> f.pause, left |-> After(Delay)]
             t == SendControl(s, p)
  <1>1. ctrl \in Seq(Frame) /\ ctrl # <<>> /\ s.toPeer[p] \in Seq(WireFrame)
    BY DEF Announced
  <1>2. Tail(ctrl) \in Seq(Frame)
    BY <1>1, Shifted
  <1>3. Append(s.toPeer[p], sent) \in Seq(WireFrame)
    <2> DEFINE none == \A c : Told(0, ctrl, s.toPeer[p], FALSE, 0, c)
    <2>1. none /\ 0 \in Clock
      BY PfcAssumption DEF Told, Clock, After
    <2> QED BY <1>1, <2>1, FrameSent
  <1>4. /\ t.pfc = s.pfc
        /\ t.toPeer = [s.toPeer EXCEPT ![p] = Append(@, sent)]
        /\ t.dev[p].ctrl = Tail(ctrl)
        /\ \A q \in Ports : q # p => t.dev[q] = s.dev[q]
    BY DEF Counted, Shape, Devices, Device, SendControl, ControlSent
  <1>5. ASSUME NEW c \in Classes
        PROVE  Told(s.pfc.resumeIn[p][c], Tail(ctrl), Append(s.toPeer[p], sent),
                    peer[p].paused[c], peer[p].resumeIn[c], c)
    <2>1. s.pfc.resumeIn[p][c] \in Clock
      BY DEF Announced, PfcTimers
    <2>2. Told(s.pfc.resumeIn[p][c], ctrl, s.toPeer[p],
               peer[p].paused[c], peer[p].resumeIn[c], c)
      BY DEF Announced
    <2> HIDE DEF ctrl
    <2> QED BY <1>1, <2>1, <2>2, FrameSent
  <1> HIDE DEF ctrl, f, sent, t
  <1>6. t.toPeer \in [Ports -> Seq(WireFrame)] /\ PfcTimers(t.pfc)
    BY <1>3, <1>4 DEF Announced
  <1>7. \A q \in Ports : t.dev[q].ctrl \in Seq(Frame)
    BY <1>2, <1>4 DEF Announced
  <1>8. ASSUME NEW q \in Ports, NEW c \in Classes
        PROVE  Told(t.pfc.resumeIn[q][c], t.dev[q].ctrl, t.toPeer[q],
                    peer[q].paused[c], peer[q].resumeIn[c], c)
    <2>1. CASE q = p
      <3>1. t.toPeer[p] = Append(s.toPeer[p], sent)
        BY <1>4 DEF Announced
      <3> QED BY <1>4, <1>5, <2>1, <3>1
    <2>2. CASE q # p
      <3>1. t.toPeer[q] = s.toPeer[q] /\ t.dev[q] = s.dev[q]
        BY <1>4, <2>2 DEF Announced
      <3> QED BY <1>4, <3>1 DEF Announced
    <2> QED BY <2>1, <2>2
  <1> QED BY <1>6, <1>7, <1>8 DEF Announced, t

\* Frames are queued, and the transmitter starts if it was idle.
LEMMA SendPfcAnnounced ==
    ASSUME NEW s, NEW owed, Counted(s, owed), NEW p \in Ports,
           NEW frames \in Seq(Frame), AnnouncedWith(s, p, frames)
    PROVE  Announced(SendPfc(s, p, frames))
  <1> DEFINE d == ControlQueued(s.dev[p], frames)
             t == [s EXCEPT !.dev[p] = ControlQueued(@, frames)]
             joined == s.dev[p].ctrl \o frames
  <1>1. /\ t.pfc = s.pfc /\ t.toPeer = s.toPeer
        /\ t.dev[p].ctrl = joined
        /\ \A q \in Ports : q # p => t.dev[q] = s.dev[q]
        /\ t.dev = [s.dev EXCEPT ![p] = d] /\ t.egress = s.egress /\ Shape(t)
    BY DEF Counted, Shape, Devices, Device, ControlQueued
  <1>2. s.dev[p].ctrl \in Seq(Frame)
    BY DEF AnnouncedWith
  <1>3. joined \in Seq(Frame)
    BY <1>2, Joined
  <1>4. Device(d) /\ d.bytes = s.dev[p].bytes
    BY DeviceKept DEF Counted, Devices
  <1>5. SendPfc(s, p, frames) = IF s.dev[p].busy = 0 /\ frames # <<>>
                                THEN SendControl(t, p) ELSE t
    BY DEF SendPfc
  <1>6. frames # <<>> => joined # <<>>
    <2>1. Len(joined) = Len(s.dev[p].ctrl) + Len(frames) /\ Len(s.dev[p].ctrl) \in Nat
      BY <1>2, ConcatProperties, LenProperties
    <2>2. frames # <<>> => Len(frames) \in Nat /\ Len(frames) # 0
      BY LenProperties, EmptySeq
    <2>3. Len(<<>>) = 0
      OBVIOUS
    <2> HIDE DEF joined
    <2> QED BY <2>1, <2>2, <2>3
  <1> HIDE DEF d, t, joined
  <1>7. Counted(t, owed)
    BY <1>1, <1>4, CountedPut
  <1>8. PfcTimers(t.pfc) /\ t.toPeer \in [Ports -> Seq(WireFrame)]
    BY <1>1 DEF AnnouncedWith
  <1>9. \A q \in Ports : t.dev[q].ctrl \in Seq(Frame)
    BY <1>1, <1>3 DEF AnnouncedWith
  <1>10. ASSUME NEW q \in Ports, NEW c \in Classes
         PROVE  Told(t.pfc.resumeIn[q][c], t.dev[q].ctrl, t.toPeer[q],
                     peer[q].paused[c], peer[q].resumeIn[c], c)
    <2>1. t.dev[q].ctrl = IF q = p THEN s.dev[q].ctrl \o frames ELSE s.dev[q].ctrl
      BY <1>1 DEF joined
    <2> QED BY <1>1, <2>1 DEF AnnouncedWith
  <1>11. Announced(t)
    BY <1>8, <1>9, <1>10 DEF Announced
  <1> QED BY <1>1, <1>5, <1>6, <1>7, <1>11, SendControlAnnounced


\* SetPause, SetResume and SetRemote on the timers of one port.
LEMMA PauseSets ==
    ASSUME NEW v, PfcTimers(v), NEW p \in Ports, NEW S \in SUBSET Classes
    PROVE  /\ PfcTimers(SetPause(v, p, S))
           /\ \A q \in Ports, c \in Classes : SetPause(v, p, S).resumeIn[q][c] =
                IF q = p /\ c \in S THEN After(PauseTime) ELSE v.resumeIn[q][c]
  <1> DEFINE timers == [v.resumeIn EXCEPT
                          ![p] = [c \in Classes |-> IF c \in S THEN After(PauseTime) ELSE @[c]]]
  <1>1. After(PauseTime) \in Clock
    BY PfcAssumption DEF Clock, After
  <1>2. /\ timers \in [Ports -> [Classes -> Clock]]
        /\ \A q \in Ports, c \in Classes :
             timers[q][c] = IF q = p /\ c \in S THEN After(PauseTime) ELSE v.resumeIn[q][c]
    BY <1>1 DEF PfcTimers
  <1>3. SetPause(v, p, S).resumeIn = timers
    BY DEF SetPause, PfcTimers
  <1> HIDE DEF timers
  <1>4. PfcTimers(SetPause(v, p, S))
    BY <1>2, <1>3 DEF SetPause, PfcTimers
  <1> QED BY <1>2, <1>3, <1>4

LEMMA ResumeSets ==
    ASSUME NEW v, PfcTimers(v), NEW p \in Ports, NEW S \in SUBSET Classes
    PROVE  /\ PfcTimers(SetResume(v, p, S))
           /\ \A q \in Ports, c \in Classes : SetResume(v, p, S).resumeIn[q][c] =
                IF q = p /\ c \in S THEN 0 ELSE v.resumeIn[q][c]
  <1> DEFINE timers == [v.resumeIn EXCEPT
                          ![p] = [c \in Classes |-> IF c \in S THEN 0 ELSE @[c]]]
  <1>1. 0 \in Clock
    BY PfcAssumption DEF Clock, After
  <1>2. /\ timers \in [Ports -> [Classes -> Clock]]
        /\ \A q \in Ports, c \in Classes :
             timers[q][c] = IF q = p /\ c \in S THEN 0 ELSE v.resumeIn[q][c]
    BY <1>1 DEF PfcTimers
  <1>3. SetResume(v, p, S).resumeIn = timers
    BY DEF SetResume, PfcTimers
  <1> HIDE DEF timers
  <1>4. PfcTimers(SetResume(v, p, S))
    BY <1>2, <1>3 DEF SetResume, PfcTimers
  <1> QED BY <1>2, <1>3, <1>4

LEMMA RemoteSets ==
    ASSUME NEW v, PfcTimers(v), NEW p, NEW S
    PROVE  /\ PfcTimers(SetRemote(v, p, S, TRUE)) /\ PfcTimers(SetRemote(v, p, S, FALSE))
           /\ SetRemote(v, p, S, TRUE).resumeIn = v.resumeIn
           /\ SetRemote(v, p, S, FALSE).resumeIn = v.resumeIn
  BY DEF SetRemote, PfcTimers

\* CheckAndSendPfc: each class whose timer starts gets a PAUSE, and each class
\* that resumes has no timer.
LEMMA CheckAndSendPfcAnnounced ==
    ASSUME NEW s, NEW owed, Counted(s, owed), Announced(s), NEW p \in Ports, NEW c
    PROVE  Announced(CheckAndSendPfc(s, p, c))
  <1> DEFINE pauses == ToPause(s, p, c)
             v == SetRemote(SetPause(s.pfc, p, pauses), p, pauses, TRUE)
             told == [s EXCEPT !.pfc = v]
             resumes == {e \in Classes :
                           told.pfc.remote[p][e] /\ ResumeClass(told, p, e)}
             w == SetRemote(SetResume(told.pfc, p, resumes), p, resumes, FALSE)
             out == [told EXCEPT !.pfc = w]
             on == Frames(pauses, TRUE)
             off == Frames(resumes, FALSE)
  <1>1. CheckAndSendPfc(s, p, c) = SendPfc(out, p, on \o off)
    BY Zenon DEF CheckAndSendPfc
  <1>2. pauses \in SUBSET Classes /\ resumes \in SUBSET Classes
    BY DEF ToPause, PauseClasses
  <1>3. told.pfc = v /\ told.toPeer = s.toPeer /\ told.dev = s.dev
    BY DEF Counted, Shape
  <1>4. Counted(told, owed)
    <2> HIDE DEF v
    <2> QED BY CountedPfc
  <1> HIDE DEF pauses, resumes, told
  <1>5. out.pfc = w /\ out.toPeer = s.toPeer /\ out.dev = s.dev
    <2> HIDE DEF w
    <2> QED BY <1>3, <1>4 DEF Counted, Shape
  <1>6. Counted(out, owed)
    <2> HIDE DEF w
    <2> QED BY <1>4, CountedPfc
  <1>7. /\ PfcTimers(v)
        /\ \A q \in Ports, e \in Classes : v.resumeIn[q][e] =
             IF q = p /\ e \in pauses THEN After(PauseTime) ELSE s.pfc.resumeIn[q][e]
    <2> DEFINE u == SetPause(s.pfc, p, pauses)
    <2>1. /\ PfcTimers(u)
          /\ \A q \in Ports, e \in Classes : u.resumeIn[q][e] =
               IF q = p /\ e \in pauses THEN After(PauseTime) ELSE s.pfc.resumeIn[q][e]
      <3>1. PfcTimers(s.pfc)
        BY DEF Announced
      <3> QED BY <1>2, <3>1, PauseSets
    <2> HIDE DEF u
    <2>2. v = SetRemote(u, p, pauses, TRUE)
      BY DEF u
    <2> HIDE DEF v
    <2>3. /\ PfcTimers(SetRemote(u, p, pauses, TRUE))
          /\ SetRemote(u, p, pauses, TRUE).resumeIn = u.resumeIn
      BY <2>1, RemoteSets
    <2> QED BY <2>1, <2>2, <2>3
  <1>8. /\ PfcTimers(w)
        /\ \A q \in Ports, e \in Classes : w.resumeIn[q][e] =
             IF q = p /\ e \in resumes THEN 0 ELSE v.resumeIn[q][e]
    <2> DEFINE u == SetResume(v, p, resumes)
    <2> HIDE DEF v
    <2>1. /\ PfcTimers(u)
          /\ \A q \in Ports, e \in Classes : u.resumeIn[q][e] =
               IF q = p /\ e \in resumes THEN 0 ELSE v.resumeIn[q][e]
      BY <1>2, <1>7, ResumeSets
    <2> HIDE DEF u
    <2>2. w = SetRemote(u, p, resumes, FALSE)
      BY <1>3 DEF u
    <2> HIDE DEF w
    <2>3. /\ PfcTimers(SetRemote(u, p, resumes, FALSE))
          /\ SetRemote(u, p, resumes, FALSE).resumeIn = u.resumeIn
      BY <2>1, RemoteSets
    <2> QED BY <2>1, <2>2, <2>3
  <1> HIDE DEF v, w, out, on, off
  <1>9. /\ on \in Seq(Frame) /\ off \in Seq(Frame)
        /\ \A e : (Has(on, e) <=> e \in pauses) /\ (Has(off, e) <=> e \in resumes)
        /\ \A i \in DOMAIN on : on[i].pause = TRUE
    BY <1>2, FramesSay DEF on, off
  <1>10. on \o off \in Seq(Frame)
    BY <1>9, Joined
  <1>11. ASSUME NEW e, e \notin pauses, e \notin resumes PROVE ~Has(on \o off, e)
    <2>1. ASSUME NEW i \in DOMAIN (on \o off), (on \o off)[i].class = e PROVE FALSE
      <3>1. \/ i \in DOMAIN on /\ (on \o off)[i] = on[i]
            \/ \E j \in DOMAIN off : (on \o off)[i] = off[j]
        BY <1>9, Joined
      <3> QED BY <1>9, <1>11, <2>1, <3>1 DEF Has
    <2> QED BY <2>1 DEF Has
  <1>12. ASSUME NEW e, e \in pauses, e \notin resumes
         PROVE  Has(on \o off, e) /\ LastPauses(on \o off, e)
    <2>1. Has(on \o off, e)
      <3>1. PICK i \in DOMAIN on : on[i].class = e
        BY <1>9, <1>12 DEF Has
      <3>2. i \in DOMAIN (on \o off) /\ (on \o off)[i] = on[i]
        BY <1>9, Joined
      <3> QED BY <3>1, <3>2 DEF Has
    <2>2. ASSUME NEW i \in DOMAIN (on \o off), (on \o off)[i].class = e
          PROVE  (on \o off)[i].pause = TRUE
      <3>1. \/ i \in DOMAIN on /\ (on \o off)[i] = on[i]
            \/ \E j \in DOMAIN off : (on \o off)[i] = off[j]
        BY <1>9, Joined
      <3>2. i \in DOMAIN on /\ (on \o off)[i] = on[i]
        BY <1>9, <1>12, <2>2, <3>1 DEF Has
      <3> QED BY <1>9, <3>2
    <2> QED BY <2>1, <2>2 DEF LastPauses
  <1>13. ASSUME NEW q \in Ports, NEW e \in Classes
         PROVE  Told(out.pfc.resumeIn[q][e],
                     IF q = p THEN out.dev[q].ctrl \o (on \o off) ELSE out.dev[q].ctrl,
                     out.toPeer[q], peer[q].paused[e], peer[q].resumeIn[e], e)
    <2>1. /\ Told(s.pfc.resumeIn[q][e], s.dev[q].ctrl, s.toPeer[q],
                  peer[q].paused[e], peer[q].resumeIn[e], e)
          /\ s.dev[q].ctrl \in Seq(Frame)
      BY DEF Announced
    <2>2. CASE q # p
      BY <1>5, <1>7, <1>8, <2>1, <2>2
    <2>3. CASE q = p /\ e \in resumes
      BY <1>5, <1>8, <2>3 DEF Told
    <2>4. CASE q = p /\ e \notin resumes /\ e \in pauses
      BY <1>5, <1>10, <1>12, <2>1, <2>4, PauseQueued
    <2>5. CASE q = p /\ e \notin resumes /\ e \notin pauses
      <3>1. out.pfc.resumeIn[q][e] = s.pfc.resumeIn[q][e]
        BY <1>5, <1>7, <1>8, <2>5
      <3> QED BY <1>5, <1>10, <1>11, <2>1, <2>5, <3>1, OthersQueued
    <2> QED BY <2>2, <2>3, <2>4, <2>5
  <1>14. AnnouncedWith(out, p, on \o off)
    BY <1>5, <1>8, <1>13 DEF AnnouncedWith, Announced
  <1> QED BY <1>1, <1>6, <1>10, <1>14, SendPfcAnnounced

\* CheckAndSendResume: the class that resumes has no timer any more.
LEMMA CheckAndSendResumeAnnounced ==
    ASSUME NEW s, NEW owed, Counted(s, owed), Announced(s), NEW p \in Ports,
           NEW c \in Classes
    PROVE  Announced(CheckAndSendResume(s, p, c))
  <1> DEFINE v == SetResume(s.pfc, p, {c})
             out == [s EXCEPT !.pfc = SetResume(@, p, {c})]
             off == Frames({c}, FALSE)
  <1>1. CheckAndSendResume(s, p, c) \in {s, SendPfc(out, p, off)}
    BY Zenon DEF CheckAndSendResume
  <1>2. Counted(out, owed)
    BY CountedPfc
  <1>3. out.pfc = v /\ out.toPeer = s.toPeer /\ out.dev = s.dev
    BY DEF Counted, Shape
  <1>4. {c} \in SUBSET Classes
    OBVIOUS
  <1>5. /\ PfcTimers(v)
        /\ \A q \in Ports, e \in Classes : v.resumeIn[q][e] =
             IF q = p /\ e \in {c} THEN 0 ELSE s.pfc.resumeIn[q][e]
    <2>1. PfcTimers(s.pfc)
      BY DEF Announced
    <2> QED BY <1>4, <2>1, ResumeSets
  <1>6. off \in Seq(Frame) /\ \A e : Has(off, e) <=> e \in {c}
    BY <1>4, FramesSay
  <1> HIDE DEF v, out, off
  <1>7. ASSUME NEW q \in Ports, NEW e \in Classes
        PROVE  Told(out.pfc.resumeIn[q][e],
                    IF q = p THEN out.dev[q].ctrl \o off ELSE out.dev[q].ctrl,
                    out.toPeer[q], peer[q].paused[e], peer[q].resumeIn[e], e)
    <2>1. /\ Told(s.pfc.resumeIn[q][e], s.dev[q].ctrl, s.toPeer[q],
                  peer[q].paused[e], peer[q].resumeIn[e], e)
          /\ s.dev[q].ctrl \in Seq(Frame)
      BY DEF Announced
    <2>2. CASE q # p
      BY <1>3, <1>5, <2>1, <2>2
    <2>3. CASE q = p /\ e = c
      BY <1>3, <1>5, <2>3 DEF Told
    <2>4. CASE q = p /\ e # c
      <3>1. out.pfc.resumeIn[q][e] = s.pfc.resumeIn[q][e] /\ ~Has(off, e)
        BY <1>3, <1>5, <1>6, <2>4
      <3> QED BY <1>3, <1>6, <2>1, <2>4, <3>1, OthersQueued
    <2> QED BY <2>2, <2>3, <2>4
  <1>8. AnnouncedWith(out, p, off)
    BY <1>3, <1>5, <1>7 DEF AnnouncedWith, Announced
  <1> QED BY <1>1, <1>2, <1>6, <1>8, SendPfcAnnounced

\* A data packet leaves, and the class it came in by may be resumed.
LEMMA SendDataAnnounced ==
    ASSUME NEW s, NEW owed \in Owed, Counted(s, owed), Announced(s), NEW p \in Ports,
           NEW c \in Sendable(s.dev[p])
    PROVE  Announced(SendData(s, p, c))
  <1> DEFINE t == DataTaken(s, p, c)
             in == Head(s.dev[p].queue[c]).inDev
  <1>1. SendData(s, p, c) = CheckAndSendResume(t, in, c)
    BY Zenon DEF SendData, DataTaken
  <1>2. Counted(t, owed) /\ in \in Ports
    BY DataTakenCounted
  <1>3. c \in Classes
    BY DEF Sendable
  <1>4. /\ t.pfc = s.pfc /\ t.toPeer = s.toPeer
        /\ \A q \in Ports : t.dev[q].ctrl = s.dev[q].ctrl
    <2>1. Device(s.dev[p])
      BY DEF Counted, Devices
    <2>2. DataSent(s.dev[p], c).ctrl = s.dev[p].ctrl
      BY <2>1 DEF Device, DataSent
    <2>3. t.pfc = s.pfc /\ t.toPeer = s.toPeer
      BY DEF Counted, Shape, DataTaken
    <2>4. t.dev = [s.dev EXCEPT ![p] = DataSent(s.dev[p], c)]
      BY DEF Counted, Shape, DataTaken
    <2>5. ASSUME NEW q \in Ports PROVE t.dev[q].ctrl = s.dev[q].ctrl
      <3> DEFINE d == DataSent(s.dev[p], c)
      <3>1. s.dev = [r \in Ports |-> s.dev[r]]
        BY DEF Counted, Devices
      <3> HIDE DEF d, t
      <3>2. t.dev = [s.dev EXCEPT ![p] = d] /\ d.ctrl = s.dev[p].ctrl
        BY <2>2, <2>4 DEF d
      <3> QED BY <3>1, <3>2
    <2> QED BY <2>3, <2>5
  <1> HIDE DEF t, in
  <1>5. Announced(t)
    BY <1>4, AnnouncedKept
  <1> QED BY <1>1, <1>2, <1>3, <1>5, CheckAndSendResumeAnnounced

LEMMA DequeueAnnounced ==
    ASSUME NEW s, NEW owed \in Owed, Counted(s, owed), Announced(s), NEW p \in Ports
    PROVE  Announced(DequeueAndTransmit(s, p))
  <1>1. Device(s.dev[p])
    BY DEF Counted, Devices
  <1>2. ASSUME Sendable(s.dev[p]) # {}
        PROVE  Announced(SendData(s, p, NextClass(s.dev[p])))
    BY <1>1, <1>2, NextClassSendable, SendDataAnnounced
  <1> QED BY <1>2, SendControlAnnounced DEF DequeueAndTransmit

LEMMA DoSwitchSendAnnounced ==
    ASSUME NEW s, Counted(s, NothingOwed), Announced(s), NEW in \in Ports,
           NEW out \in Ports, NEW c \in Classes, NEW size \in PktSizes
    PROVE  Announced(DoSwitchSend(s, in, out, c, size))
  <1> DEFINE charged == Charged(s, in, out, c, size)
             told == CheckAndSendPfc(charged, in, c)
             t == PacketQueued(told, in, out, c, size)
  <1>1. DoSwitchSend(s, in, out, c, size) \in {s, DequeueAndTransmit(t, out)}
    BY Zenon DEF DoSwitchSend, Charged, PacketQueued
  <1>2. Counted(charged, Owes(out, c, size))
    BY ChargedCounted
  <1>3. charged.pfc = s.pfc /\ charged.toPeer = s.toPeer /\ charged.dev = s.dev
    BY DEF Counted, Shape, Charged
  <1> HIDE DEF charged
  <1>4. Announced(charged)
    BY <1>3, AnnouncedKept
  <1>5. Counted(told, Owes(out, c, size)) /\ Announced(told)
    BY <1>2, <1>4, CheckAndSendPfcCounted, CheckAndSendPfcAnnounced
  <1> HIDE DEF told
  <1>6. Counted(t, NothingOwed)
    BY <1>5, PacketQueuedCounted
  <1>7. /\ t.pfc = told.pfc /\ t.toPeer = told.toPeer
        /\ \A q \in Ports : t.dev[q].ctrl = told.dev[q].ctrl
    <2> DEFINE d == Queued(told.dev[out], in, c, size)
    <2>1. /\ t.pfc = told.pfc /\ t.toPeer = told.toPeer
          /\ t.dev = [told.dev EXCEPT ![out] = d]
      BY <1>5 DEF Counted, Shape, PacketQueued
    <2>2. Device(told.dev[out]) /\ told.dev = [r \in Ports |-> told.dev[r]]
      BY <1>5 DEF Counted, Devices
    <2>3. d.ctrl = told.dev[out].ctrl
      BY <2>2 DEF Device, Queued
    <2> HIDE DEF d, t
    <2> QED BY <2>1, <2>2, <2>3
  <1> HIDE DEF t
  <1>8. Announced(t)
    BY <1>5, <1>7, AnnouncedKept
  <1> QED BY <1>1, <1>6, <1>8, OwesPacket, DequeueAnnounced

-----------------------------------------------------------------------------
(* The invariant of the specification.                                     *)

Sender == [paused : [Classes -> BOOLEAN], resumeIn : [Classes -> Nat], busy : Nat]

TimerInv ==
    /\ CountInv
    /\ Announced(Switch)
    /\ peer \in [Ports -> Sender]

\* A handler's final state is the next state of the variables.
LEMMA BecomeAnnounced ==
    ASSUME NEW s, Announced(s), Become(s), UNCHANGED peer
    PROVE  Announced(Switch)'
  <1>1. Switch'.pfc = s.pfc /\ Switch'.toPeer = s.toPeer /\ Switch'.dev = s.dev
    BY DEF Switch, Become
  <1> HIDE DEF Switch
  <1> QED BY <1>1 DEF Announced, PfcTimers

\* The variables themselves.
LEMMA AnnouncedHere ==
    Announced(Switch) <=>
      /\ PfcTimers(pfc)
      /\ toPeer \in [Ports -> Seq(WireFrame)]
      /\ \A q \in Ports : dev[q].ctrl \in Seq(Frame)
      /\ \A q \in Ports, c \in Classes :
           Told(pfc.resumeIn[q][c], dev[q].ctrl, toPeer[q],
                peer[q].paused[c], peer[q].resumeIn[c], c)
  BY DEF Announced, Switch

\* No timer runs at first.
LEMMA InitTimers == Init => TimerInv
  <1> SUFFICES ASSUME Init PROVE TimerInv
    OBVIOUS
  <1>1. PfcTimers(pfc) /\ \A q \in Ports, c \in Classes : pfc.resumeIn[q][c] = 0
    <2>1. PICK paused, remote \in [Ports -> [Classes -> Garbage]] :
            pfc = [paused |-> paused, remote |-> remote,
                   resumeIn |-> [p \in Ports |-> ForEach(0)]]
      BY DEF Init
    <2>2. 0 \in Clock
      BY PfcAssumption DEF Clock, After
    <2> QED BY <2>1, <2>2 DEF PfcTimers, ForEach
  <1>2. toPeer \in [Ports -> Seq(WireFrame)]
    BY DEF Init
  <1>3. \A q \in Ports : dev[q].ctrl \in Seq(Frame)
    <2>1. ASSUME NEW q \in Ports PROVE dev[q].ctrl = <<>>
      BY Zenon DEF Init
    <2>2. <<>> \in Seq(Frame)
      OBVIOUS
    <2> QED BY <2>1, <2>2, Zenon
  <1>4. peer \in [Ports -> Sender]
    <2>1. [c \in Classes |-> FALSE] \in [Classes -> BOOLEAN]
      BY Zenon
    <2>2. [c \in Classes |-> 0] \in [Classes -> Nat] /\ 0 \in Nat
      OBVIOUS
    <2>3. [paused |-> [c \in Classes |-> FALSE], resumeIn |-> [c \in Classes |-> 0],
           busy |-> 0] \in Sender
      BY <2>1, <2>2, Zenon DEF Sender
    <2> QED BY <2>3, Zenon DEF Init, ForEach
  <1>5. Announced(Switch)
    BY <1>1, <1>2, <1>3, AnnouncedHere DEF Told
  <1> QED BY <1>4, <1>5, InitCounted DEF TimerInv

\* One device changes, but not its control queue.
LEMMA OneDeviceAnnounced ==
    ASSUME TimerInv, NEW p \in Ports, NEW d, d.ctrl = dev[p].ctrl
    PROVE  Announced([Switch EXCEPT !.dev[p] = d])
  <1> DEFINE t == [Switch EXCEPT !.dev[p] = d]
  <1>1. t.pfc = Switch.pfc /\ t.toPeer = Switch.toPeer /\ t.dev = [dev EXCEPT ![p] = d]
    BY DEF Switch
  <1>2. Switch.dev = dev /\ dev = [q \in Ports |-> dev[q]]
    BY DEF TimerInv, CountInv, Counted, Devices, Switch
  <1>3. Announced(Switch)
    BY DEF TimerInv
  <1> HIDE DEF t, Switch
  <1>4. \A q \in Ports : t.dev[q].ctrl = Switch.dev[q].ctrl
    BY <1>1, <1>2
  <1>5. Announced(t)
    BY <1>1, <1>3, <1>4, AnnouncedKept
  <1> QED BY <1>5 DEF t

LEMMA OneDeviceCounted ==
    ASSUME TimerInv, NEW p \in Ports, NEW d, Device(d), d.bytes = dev[p].bytes
    PROVE  Counted([Switch EXCEPT !.dev[p] = d], NothingOwed)
  <1> DEFINE t == [Switch EXCEPT !.dev[p] = d]
             sw == Switch
  <1>1. /\ Shape(t) /\ t.egress = sw.egress
        /\ t.dev = [sw.dev EXCEPT ![p] = d] /\ sw.dev = dev
    BY DEF Shape, Switch
  <1>2. Counted(sw, NothingOwed)
    BY DEF TimerInv, CountInv
  <1> HIDE DEF t, sw
  <1>3. Counted(t, NothingOwed)
    BY <1>1, <1>2, CountedPut
  <1> QED BY <1>3 DEF t

\* A frame reaches the sender.
LEMMA PeerReceiveTimers ==
    ASSUME Delay > 0, TimerInv, NEW p \in Ports, PeerReceive(p)
    PROVE  TimerInv'
  <1> DEFINE wire == toPeer[p]
             f == Head(wire)
             until == IF f.pause THEN After(PauseTime) ELSE 0
  <1>1. wire \in Seq(WireFrame) /\ wire # <<>> /\ f.left = 1
    BY AnnouncedHere DEF TimerInv, PeerReceive, FirstDue, Due
  <1>2. f \in WireFrame /\ Tail(wire) \in Seq(WireFrame)
    <2> HIDE DEF wire
    <2> QED BY <1>1, Shifted
  <1>3. /\ peer' = [peer EXCEPT ![p].paused[f.class] = f.pause,
                                ![p].resumeIn[f.class] = until]
        /\ toPeer' = [toPeer EXCEPT ![p] = Tail(wire)]
        /\ UNCHANGED <<ingress, egress, pfc, dev, toSwitch>>
    BY DEF PeerReceive
  <1>4. until \in Nat
    BY PfcAssumption DEF After
  <1>5. \A c \in Classes : pfc.resumeIn[p][c] \in Clock /\
          Told(pfc.resumeIn[p][c], dev[p].ctrl, wire, peer[p].paused[c],
               peer[p].resumeIn[c], c)
    BY AnnouncedHere DEF TimerInv, PfcTimers
  <1>6. ASSUME NEW c \in Classes
        PROVE  /\ f.class = c =>
                    Told(pfc.resumeIn[p][c], dev[p].ctrl, Tail(wire), f.pause, until, c)
               /\ f.class # c =>
                    Told(pfc.resumeIn[p][c], dev[p].ctrl, Tail(wire),
                         peer[p].paused[c], peer[p].resumeIn[c], c)
    <2> HIDE DEF wire
    <2> QED BY <1>1, <1>5, FrameReceived
  <1>7. peer[p] \in Sender /\ f.class \in Classes /\ f.pause \in BOOLEAN
    BY <1>2 DEF TimerInv, WireFrame
  <1> HIDE DEF f, until, wire
  <1> DEFINE mine == [peer[p] EXCEPT !.paused[f.class] = f.pause,
                                     !.resumeIn[f.class] = until]
             flags == [peer[p].paused EXCEPT ![f.class] = f.pause]
             timers == [peer[p].resumeIn EXCEPT ![f.class] = until]
  <1>8. peer' = [peer EXCEPT ![p] = mine]
    BY <1>3
  <1>9. /\ mine.paused = flags /\ mine.resumeIn = timers /\ mine.busy = peer[p].busy
        /\ mine = [paused |-> mine.paused, resumeIn |-> mine.resumeIn, busy |-> mine.busy]
    <2>1. mine = [peer[p] EXCEPT !.paused = flags, !.resumeIn = timers]
      OBVIOUS
    <2> HIDE DEF mine, flags, timers
    <2> QED BY <1>7, <2>1 DEF Sender
  <1> HIDE DEF mine
  <1>10. mine.paused \in [Classes -> BOOLEAN] /\ mine.resumeIn \in [Classes -> Nat]
         /\ mine.busy \in Nat
    <2>1. /\ peer[p].paused \in [Classes -> BOOLEAN]
          /\ peer[p].resumeIn \in [Classes -> Nat] /\ peer[p].busy \in Nat
      BY <1>7 DEF Sender
    <2>2. mine.paused \in [Classes -> BOOLEAN]
      BY <1>7, <1>9, <2>1, Zenon
    <2> QED BY <1>4, <1>9, <2>1, <2>2
  <1>11. /\ \A c \in Classes : mine.paused[c] = IF c = f.class THEN f.pause ELSE peer[p].paused[c]
         /\ \A c \in Classes : mine.resumeIn[c] = IF c = f.class THEN until ELSE peer[p].resumeIn[c]
    <2>1. DOMAIN peer[p].paused = Classes /\ DOMAIN peer[p].resumeIn = Classes
      BY <1>7 DEF Sender
    <2> QED BY <1>9, <2>1, Zenon
  <1> HIDE DEF flags, timers
  <1>12. mine \in Sender
    BY <1>9, <1>10, Zenon DEF Sender
  <1>13. peer' \in [Ports -> Sender]
    BY <1>8, <1>12 DEF TimerInv
  <1>14. ASSUME NEW q \in Ports, NEW c \in Classes
         PROVE  Told(pfc.resumeIn[q][c], dev[q].ctrl, toPeer'[q],
                     peer'[q].paused[c], peer'[q].resumeIn[c], c)
    <2>1. CASE q = p
      <3>1. toPeer'[p] = Tail(wire) /\ peer'[p] = mine
        BY <1>3, <1>8, AnnouncedHere DEF TimerInv
      <3>2. Told(pfc.resumeIn[p][c], dev[p].ctrl, Tail(wire), mine.paused[c],
                 mine.resumeIn[c], c)
        BY <1>6, <1>11
      <3> QED BY <2>1, <3>1, <3>2
    <2>2. CASE q # p
      <3>1. toPeer'[q] = toPeer[q] /\ peer'[q] = peer[q]
        BY <1>3, <1>8, <2>2, AnnouncedHere DEF TimerInv
      <3> QED BY <3>1, AnnouncedHere DEF TimerInv
    <2> QED BY <2>1, <2>2
  <1>15. toPeer' \in [Ports -> Seq(WireFrame)]
    BY <1>2, <1>3, AnnouncedHere DEF TimerInv
  <1>16. Announced(Switch)'
    <2>1. /\ PfcTimers(pfc') /\ \A q \in Ports : dev'[q].ctrl \in Seq(Frame)
          /\ pfc' = pfc /\ dev' = dev
      BY <1>3, AnnouncedHere DEF TimerInv, PfcTimers
    <2>2. /\ Switch'.pfc = pfc' /\ Switch'.toPeer = toPeer' /\ Switch'.dev = dev'
      BY DEF Switch
    <2> HIDE DEF Switch
    <2> QED BY <1>14, <1>15, <2>1, <2>2 DEF Announced
  <1>17. CountInv'
    BY StepCounted DEF TimerInv, Next
  <1> QED BY <1>13, <1>16, <1>17 DEF TimerInv

\* The sender's own timer is due only after the switch's.
LEMMA PeerResumeTimers ==
    ASSUME TimerInv, NEW p \in Ports, NEW d \in Classes, PeerResume(p, d)
    PROVE  TimerInv'
  <1> DEFINE mine == [peer[p] EXCEPT !.paused[d] = FALSE, !.resumeIn[d] = 0]
             flags == [peer[p].paused EXCEPT ![d] = FALSE]
             timers == [peer[p].resumeIn EXCEPT ![d] = 0]
  <1>1. /\ peer' = [peer EXCEPT ![p] = mine]
        /\ UNCHANGED <<ingress, egress, pfc, dev, toPeer, toSwitch>>
        /\ peer[p].resumeIn[d] = 1
    BY DEF PeerResume, Due
  <1>2. /\ peer[p].paused \in [Classes -> BOOLEAN]
        /\ peer[p].resumeIn \in [Classes -> Nat] /\ peer[p].busy \in Nat
        /\ peer[p] \in Sender
    BY DEF TimerInv, Sender
  <1>3. /\ mine.paused = flags /\ mine.resumeIn = timers /\ mine.busy = peer[p].busy
        /\ mine = [paused |-> mine.paused, resumeIn |-> mine.resumeIn, busy |-> mine.busy]
    <2>1. mine = [peer[p] EXCEPT !.paused = flags, !.resumeIn = timers]
      OBVIOUS
    <2> HIDE DEF mine, flags, timers
    <2> QED BY <1>2, <2>1 DEF Sender
  <1> HIDE DEF mine
  <1>4. mine.paused \in [Classes -> BOOLEAN] /\ mine.resumeIn \in [Classes -> Nat]
    <2>1. mine.paused \in [Classes -> BOOLEAN]
      BY <1>2, <1>3, Zenon
    <2> QED BY <1>2, <1>3, <2>1
  <1>5. \A c \in Classes : c # d => /\ mine.paused[c] = peer[p].paused[c]
                                    /\ mine.resumeIn[c] = peer[p].resumeIn[c]
    <2>1. DOMAIN peer[p].paused = Classes /\ DOMAIN peer[p].resumeIn = Classes
      BY <1>2
    <2> QED BY <1>3, <2>1, Zenon
  <1> HIDE DEF flags, timers
  <1>6. mine \in Sender
    BY <1>2, <1>3, <1>4, Zenon DEF Sender
  <1>7. peer' \in [Ports -> Sender]
    BY <1>1, <1>6 DEF TimerInv
  <1>8. ASSUME NEW q \in Ports, NEW c \in Classes
        PROVE  Told(pfc.resumeIn[q][c], dev[q].ctrl, toPeer[q],
                    peer'[q].paused[c], peer'[q].resumeIn[c], c)
    <2>1. /\ Told(pfc.resumeIn[q][c], dev[q].ctrl, toPeer[q],
                  peer[q].paused[c], peer[q].resumeIn[c], c)
          /\ pfc.resumeIn[q][c] \in Nat
      BY AnnouncedHere, PfcAssumption DEF TimerInv, PfcTimers, Clock, After
    <2>2. CASE q = p /\ c = d
      BY <1>1, <2>1, <2>2 DEF Told
    <2>3. CASE q = p /\ c # d
      <3>1. peer'[p] = mine
        BY <1>1 DEF TimerInv
      <3> QED BY <1>5, <2>1, <2>3, <3>1
    <2>4. CASE q # p
      BY <1>1, <2>1, <2>4 DEF TimerInv
    <2> QED BY <2>2, <2>3, <2>4
  <1>9. Announced(Switch)'
    <2>1. /\ PfcTimers(pfc) /\ \A q \in Ports : dev[q].ctrl \in Seq(Frame)
          /\ toPeer \in [Ports -> Seq(WireFrame)]
      BY AnnouncedHere DEF TimerInv
    <2>2. /\ Switch'.pfc = pfc /\ Switch'.toPeer = toPeer /\ Switch'.dev = dev
      BY <1>1 DEF Switch
    <2> HIDE DEF Switch
    <2> QED BY <1>8, <2>1, <2>2 DEF Announced, PfcTimers
  <1>10. CountInv'
    BY StepCounted DEF TimerInv, Next
  <1> QED BY <1>7, <1>9, <1>10 DEF TimerInv

\* Every timer and every frame is one tick closer to its event.
LEMMA TickTimers ==
    ASSUME TimerInv, Tick
    PROVE  TimerInv'
  <1>1. /\ pfc' = [pfc EXCEPT !.resumeIn = [p \in Ports |-> EarlierAll(@[p])]]
        /\ dev' = [p \in Ports |-> Elapsed(dev[p])]
        /\ peer' = [p \in Ports |-> Elapsed(peer[p])]
        /\ toPeer' = [p \in Ports |-> EarlierWire(toPeer[p])]
    BY DEF Tick
  <1>2. PfcTimers(pfc) /\ \A p \in Ports, c \in Classes : pfc.resumeIn[p][c] # 1
    BY AnnouncedHere DEF TimerInv, Tick, NothingDue, Due
  <1>3. ASSUME NEW p \in Ports
        PROVE  /\ peer[p].paused \in [Classes -> BOOLEAN]
               /\ peer[p].resumeIn \in [Classes -> Nat] /\ peer[p].busy \in Nat
               /\ peer[p] \in Sender
    BY DEF TimerInv, Sender
  <1>4. ASSUME NEW p \in Ports
        PROVE  /\ peer'[p].paused = peer[p].paused
               /\ peer'[p].resumeIn = EarlierAll(peer[p].resumeIn)
               /\ peer'[p].busy = Earlier(peer[p].busy)
               /\ peer'[p] = [paused |-> peer'[p].paused, resumeIn |-> peer'[p].resumeIn,
                              busy |-> peer'[p].busy]
    <2> DEFINE d == Elapsed(peer[p])
               timers == EarlierAll(peer[p].resumeIn)
               busy == Earlier(peer[p].busy)
    <2>1. d = [peer[p] EXCEPT !.busy = busy, !.resumeIn = timers]
      BY DEF Elapsed
    <2>2. peer[p] \in Sender
      BY <1>3
    <2> HIDE DEF d, timers, busy
    <2>3. /\ d.paused = peer[p].paused /\ d.resumeIn = timers /\ d.busy = busy
          /\ d = [paused |-> d.paused, resumeIn |-> d.resumeIn, busy |-> d.busy]
      BY <2>1, <2>2 DEF Sender
    <2>4. /\ d.paused = peer[p].paused /\ d.resumeIn = EarlierAll(peer[p].resumeIn)
          /\ d.busy = Earlier(peer[p].busy)
          /\ d = [paused |-> d.paused, resumeIn |-> d.resumeIn, busy |-> d.busy]
      BY <2>3 DEF timers, busy
    <2>5. peer'[p] = d
      BY <1>1 DEF d
    <2> QED BY <2>4, <2>5
  <1>5. ASSUME NEW p \in Ports, NEW c \in Classes
        PROVE  /\ Earlier(pfc.resumeIn[p][c]) \in Clock
               /\ Earlier(peer[p].resumeIn[c]) \in Nat
               /\ EarlierWire(toPeer[p]) \in Seq(WireFrame)
               /\ Told(Earlier(pfc.resumeIn[p][c]), dev[p].ctrl, EarlierWire(toPeer[p]),
                       peer[p].paused[c], Earlier(peer[p].resumeIn[c]), c)
    <2>1. /\ toPeer[p] \in Seq(WireFrame) /\ pfc.resumeIn[p][c] \in Clock
          /\ Told(pfc.resumeIn[p][c], dev[p].ctrl, toPeer[p],
                  peer[p].paused[c], peer[p].resumeIn[c], c)
      BY AnnouncedHere DEF TimerInv, PfcTimers
    <2>2. peer[p].resumeIn[c] \in Nat /\ pfc.resumeIn[p][c] # 1
      BY <1>2, <1>3
    <2> QED BY <2>1, <2>2, TimePasses
  <1>6. PfcTimers(pfc') /\ \A p \in Ports, c \in Classes :
                             pfc'.resumeIn[p][c] = Earlier(pfc.resumeIn[p][c])
    <2> DEFINE timers == [p \in Ports |-> EarlierAll(pfc.resumeIn[p])]
    <2>1. /\ timers \in [Ports -> [Classes -> Clock]]
          /\ \A p \in Ports, c \in Classes : timers[p][c] = Earlier(pfc.resumeIn[p][c])
      BY <1>5 DEF EarlierAll
    <2>2. pfc' = [pfc EXCEPT !.resumeIn = timers]
      BY <1>1
    <2> HIDE DEF timers
    <2> QED BY <1>2, <2>1, <2>2 DEF PfcTimers
  <1>7. ASSUME NEW p \in Ports PROVE dev'[p].ctrl = dev[p].ctrl
    <2>1. Device(dev[p])
      BY DEF TimerInv, CountInv, Counted, Devices, Switch
    <2>2. Elapsed(dev[p]).ctrl = dev[p].ctrl
      BY <2>1 DEF Device, Elapsed
    <2> QED BY <1>1, <2>2
  <1>8. ASSUME NEW p \in Ports PROVE EarlierWire(toPeer[p]) \in Seq(WireFrame)
    <2>1. toPeer[p] \in Seq(WireFrame) /\ Told(0, <<>>, toPeer[p], peer[p], 0, 0)
          /\ 0 \in Clock
      BY AnnouncedHere, PfcAssumption DEF TimerInv, Told, Clock, After
    <2> QED BY <2>1, TimePasses
  <1>9. toPeer' \in [Ports -> Seq(WireFrame)]
    BY <1>1, <1>8
  <1>10. peer' \in [Ports -> Sender]
    <2>1. ASSUME NEW p \in Ports PROVE peer'[p] \in Sender
      <3>1. EarlierAll(peer[p].resumeIn) \in [Classes -> Nat]
        BY <1>5 DEF EarlierAll
      <3>2. Earlier(peer[p].busy) \in Nat
        BY <1>3 DEF Earlier
      <3>3. /\ peer'[p].paused \in [Classes -> BOOLEAN]
            /\ peer'[p].resumeIn \in [Classes -> Nat] /\ peer'[p].busy \in Nat
            /\ peer'[p] = [paused |-> peer'[p].paused, resumeIn |-> peer'[p].resumeIn,
                           busy |-> peer'[p].busy]
        BY <1>3, <1>4, <3>1, <3>2
      <3> QED BY <3>3, Zenon DEF Sender
    <2> QED BY <1>1, <2>1
  <1>11. ASSUME NEW q \in Ports, NEW c \in Classes
         PROVE  Told(pfc'.resumeIn[q][c], dev'[q].ctrl, toPeer'[q],
                     peer'[q].paused[c], peer'[q].resumeIn[c], c)
    <2>1. peer'[q].resumeIn[c] = Earlier(peer[q].resumeIn[c])
      BY <1>4 DEF EarlierAll
    <2>2. toPeer'[q] = EarlierWire(toPeer[q])
      BY <1>1
    <2> QED BY <1>4, <1>5, <1>6, <1>7, <2>1, <2>2
  <1>12. Announced(Switch)'
    <2>1. \A q \in Ports : dev'[q].ctrl \in Seq(Frame)
      BY <1>7, AnnouncedHere DEF TimerInv
    <2>2. /\ Switch'.pfc = pfc' /\ Switch'.toPeer = toPeer' /\ Switch'.dev = dev'
      BY DEF Switch
    <2> HIDE DEF Switch
    <2> QED BY <1>6, <1>9, <1>11, <2>1, <2>2 DEF Announced
  <1>13. CountInv'
    BY StepCounted DEF TimerInv, Next
  <1> QED BY <1>10, <1>12, <1>13 DEF TimerInv

\* Every event of the simulator keeps the timers and the frames in step.
LEMMA StepTimers ==
    ASSUME Delay > 0
    PROVE  TimerInv /\ [Next]_vars => TimerInv'
  <1> SUFFICES ASSUME TimerInv, [Next]_vars PROVE TimerInv'
    OBVIOUS
  <1>0. /\ CountInv /\ CountInv' /\ Counted(Switch, NothingOwed) /\ Announced(Switch)
        /\ NothingOwed \in Owed /\ \A p \in Ports : Device(dev[p])
    BY StepCounted DEF TimerInv, CountInv, NothingOwed, Owed, Counted, Devices, Switch
  <1>1. ASSUME NEW p \in Ports, SwitchReceive(p) PROVE TimerInv'
    <2> DEFINE wire == toSwitch[p]
               pkt == Head(wire)
    <2>1. wire \in Seq(WirePkt) /\ wire # <<>>
      BY <1>0, <1>1 DEF SwitchReceive, FirstDue, CountInv
    <2>2. pkt \in WirePkt
      <3> HIDE DEF wire
      <3> QED BY <2>1
    <2>3. pkt.out \in Ports /\ pkt.class \in Classes /\ pkt.size \in PktSizes
      BY <2>2 DEF WirePkt
    <2>4. Become(DoSwitchSend(Switch, p, pkt.out, pkt.class, pkt.size)) /\ UNCHANGED peer
      BY <1>1 DEF SwitchReceive
    <2> HIDE DEF pkt
    <2>5. Announced(Switch)'
      BY <1>0, <2>3, <2>4, DoSwitchSendAnnounced, BecomeAnnounced
    <2> QED BY <1>0, <2>4, <2>5 DEF TimerInv
  <1>2. ASSUME NEW p \in Ports, NEW d, Device(d), d.bytes = dev[p].bytes,
               d.ctrl = dev[p].ctrl,
               Become(DequeueAndTransmit([Switch EXCEPT !.dev[p] = d], p)),
               UNCHANGED peer
        PROVE  TimerInv'
    <2> DEFINE t == [Switch EXCEPT !.dev[p] = d]
    <2>1. Counted(t, NothingOwed) /\ Announced(t)
      BY <1>2, OneDeviceCounted, OneDeviceAnnounced
    <2> HIDE DEF t
    <2>2. Announced(DequeueAndTransmit(t, p))
      BY <1>0, <2>1, DequeueAnnounced
    <2>3. Become(DequeueAndTransmit(t, p))
      BY <1>2 DEF t
    <2>4. Announced(Switch)'
      BY <1>2, <2>2, <2>3, BecomeAnnounced
    <2> QED BY <1>0, <1>2, <2>4 DEF TimerInv
  <1>3. ASSUME NEW p \in Ports, TransmitComplete(p) PROVE TimerInv'
    <2> DEFINE d == Ready(dev[p])
    <2>1. Device(d) /\ d.bytes = dev[p].bytes /\ d.ctrl = dev[p].ctrl
      BY <1>0 DEF Ready, Device
    <2>2. /\ Become(DequeueAndTransmit([Switch EXCEPT !.dev[p] = d], p))
          /\ UNCHANGED peer
      BY <1>3 DEF TransmitComplete, Switch
    <2> HIDE DEF d
    <2> QED BY <1>2, <2>1, <2>2
  <1>4. ASSUME NEW p \in Ports, NEW c \in Classes, Resume(p, c) PROVE TimerInv'
    <2> DEFINE d == Unpaused(dev[p], c)
    <2>1. Device(d) /\ d.bytes = dev[p].bytes
      BY <1>0, DeviceKept
    <2>2. d.ctrl = dev[p].ctrl
      BY <1>0 DEF Unpaused, Device
    <2>3. /\ Become(DequeueAndTransmit([Switch EXCEPT !.dev[p] = d], p))
          /\ UNCHANGED peer
      BY <1>4 DEF Resume, Switch
    <2> HIDE DEF d
    <2> QED BY <1>2, <2>1, <2>2, <2>3
  <1>5. ASSUME NEW p \in Ports, NEW c \in Classes, DevicePause(p, c) PROVE TimerInv'
    <2> DEFINE d == Paused(dev[p], c)
    <2>1. d.ctrl = dev[p].ctrl
      BY <1>0 DEF Paused, Device
    <2>2. dev' = [dev EXCEPT ![p] = d] /\ UNCHANGED <<pfc, peer, toPeer>>
      BY <1>5 DEF DevicePause
    <2> HIDE DEF d
    <2>3. \A q \in Ports : dev'[q].ctrl = dev[q].ctrl
      BY <1>0, <2>1, <2>2 DEF CountInv, Counted, Devices, Switch
    <2>4. Switch'.pfc = Switch.pfc /\ Switch'.toPeer = Switch.toPeer
          /\ Switch'.dev = dev' /\ Switch.dev = dev
      BY <2>2 DEF Switch
    <2> HIDE DEF Switch
    <2>5. Announced(Switch)'
      BY <1>0, <2>2, <2>3, <2>4 DEF Announced, PfcTimers
    <2> QED BY <1>0, <2>2, <2>5 DEF TimerInv
  <1>6. ASSUME NEW p \in Ports, NEW c \in Classes, PauseExpires(p, c) PROVE TimerInv'
    <2> DEFINE v == SetResume(pfc, p, {c})
    <2>1. pfc' = v /\ UNCHANGED <<dev, peer, toPeer>>
      BY <1>6 DEF PauseExpires
    <2>2. /\ PfcTimers(v)
          /\ \A q \in Ports, e \in Classes : v.resumeIn[q][e] =
               IF q = p /\ e \in {c} THEN 0 ELSE pfc.resumeIn[q][e]
      <3>1. PfcTimers(pfc) /\ {c} \in SUBSET Classes
        BY <1>0, AnnouncedHere
      <3> QED BY <3>1, ResumeSets
    <2> HIDE DEF v
    <2>3. ASSUME NEW q \in Ports, NEW e \in Classes
          PROVE  Told(v.resumeIn[q][e], dev[q].ctrl, toPeer[q],
                      peer[q].paused[e], peer[q].resumeIn[e], e)
      <3>1. Told(pfc.resumeIn[q][e], dev[q].ctrl, toPeer[q],
                 peer[q].paused[e], peer[q].resumeIn[e], e)
        BY <1>0, AnnouncedHere
      <3>2. v.resumeIn[q][e] = 0 \/ v.resumeIn[q][e] = pfc.resumeIn[q][e]
        BY <2>2
      <3> QED BY <3>1, <3>2 DEF Told
    <2>4. Announced(Switch)'
      <3>1. /\ Switch'.pfc = v /\ Switch'.toPeer = toPeer /\ Switch'.dev = dev
        BY <2>1 DEF Switch
      <3>2. /\ toPeer \in [Ports -> Seq(WireFrame)]
            /\ \A q \in Ports : dev[q].ctrl \in Seq(Frame)
        BY <1>0, AnnouncedHere
      <3> HIDE DEF Switch
      <3> QED BY <2>1, <2>2, <2>3, <3>1, <3>2 DEF Announced
    <2> QED BY <1>0, <2>1, <2>4 DEF TimerInv
  <1>7. ASSUME NEW p \in Ports, NEW out \in Ports, NEW c \in Classes,
               NEW size \in PktSizes, PeerSend(p, out, c, size)
        PROVE  TimerInv'
    <2>1. /\ peer' = [peer EXCEPT ![p].busy = PeerTxTime]
          /\ UNCHANGED <<pfc, dev, toPeer>>
      BY <1>7 DEF PeerSend
    <2>2. PeerTxTime \in Nat /\ peer \in [Ports -> Sender]
      BY PfcAssumption DEF TimerInv
    <2>3. ASSUME NEW x \in Sender
          PROVE  LET y == [x EXCEPT !.busy = PeerTxTime]
                 IN  y \in Sender /\ y.paused = x.paused /\ y.resumeIn = x.resumeIn
      BY <2>2 DEF Sender
    <2>4. /\ peer' \in [Ports -> Sender]
          /\ \A q \in Ports : /\ peer'[q].paused = peer[q].paused
                              /\ peer'[q].resumeIn = peer[q].resumeIn
      BY <2>1, <2>2, <2>3
    <2>5. /\ Switch'.pfc = Switch.pfc /\ Switch'.toPeer = Switch.toPeer
          /\ Switch'.dev = Switch.dev
      BY <2>1 DEF Switch
    <2> HIDE DEF Switch
    <2>6. Announced(Switch)'
      BY <1>0, <2>4, <2>5 DEF Announced, PfcTimers
    <2> QED BY <1>0, <2>4, <2>6 DEF TimerInv
  <1>8. CASE UNCHANGED vars
    <2>1. /\ Switch'.pfc = Switch.pfc /\ Switch'.toPeer = Switch.toPeer
          /\ Switch'.dev = Switch.dev /\ peer' = peer
      BY <1>8 DEF Switch, vars
    <2> HIDE DEF Switch
    <2>2. Announced(Switch)'
      BY <1>0, <2>1 DEF Announced, PfcTimers
    <2> QED BY <1>0, <2>1, <2>2 DEF TimerInv
  <1> QED
    BY <1>1, <1>3, <1>4, <1>5, <1>6, <1>7, <1>8, PeerReceiveTimers, PeerResumeTimers,
       TickTimers
    DEF Next, DeviceResume, DevicePauseExpires

\* While the MMU's pause timer of a class runs and no frame of the class is
\* queued or on the wire, the sender holds the class, on links that take time:
\* the switch never counts on a pause that has already run out.
THEOREM PausesAreObeyed ==
    ASSUME Delay > 0
    PROVE  Spec => []PauseObeyed
  <1>1. TimerInv => PauseObeyed
    <2> SUFFICES ASSUME TimerInv, NEW p \in Ports, NEW c \in Classes,
                        pfc.resumeIn[p][c] # 0, ~Pending(p, c)
                 PROVE  peer[p].paused[c]
      BY DEF PauseObeyed
    <2>1. /\ toPeer[p] \in Seq(WireFrame) /\ dev[p].ctrl \in Seq(Frame)
          /\ Told(pfc.resumeIn[p][c], dev[p].ctrl, toPeer[p],
                  peer[p].paused[c], peer[p].resumeIn[c], c)
      BY AnnouncedHere DEF TimerInv
    <2>2. /\ DOMAIN toPeer[p] = 1..Len(toPeer[p])
          /\ DOMAIN dev[p].ctrl = 1..Len(dev[p].ctrl)
      BY <2>1, LenProperties
    <2>3. ~Has(dev[p].ctrl, c) /\ ~Has(toPeer[p], c)
      BY <2>2 DEF Has, Pending
    <2>4. peer[p].paused[c] = TRUE
      BY <2>1, <2>3 DEF Told
    <2> QED BY <2>4
  <1>2. TimerInv /\ [Next]_vars => TimerInv'
    BY StepTimers
  <1> QED BY <1>1, <1>2, InitTimers, PTL DEF Spec


-----------------------------------------------------------------------------
(* Types.  A device's flags and timers, the MMU's, and the frames.         *)

FlagSet == [Classes -> BOOLEAN]
TimerSet == [Classes -> Clock]
SentFrame == [class : Classes, pause : BOOLEAN, left : Timers(Delay)]
SentPacket == [out : Ports, class : Classes, size : PktSizes,
               left : Timers(PeerTxTime + Delay)]

TypedDevice(d) ==
    /\ d.ctrl \in Seq(Frame) /\ d.rrlast \in Classes \cup {0}
    /\ d.busy \in Timers(TxTime)
    /\ d.paused \in FlagSet /\ d.resumeIn \in TimerSet

TypedPfc(v) ==
    v \in [paused : [Ports -> FlagSet], remote : [Ports -> FlagSet],
           resumeIn : [Ports -> TimerSet]]

Typed(s) ==
    /\ TypedPfc(s.pfc)
    /\ s.toPeer \in [Ports -> Seq(SentFrame)]
    /\ \A q \in Ports : TypedDevice(s.dev[q])

\* Every timer ends.
LEMMA TimerRanges ==
    /\ 0 \in Clock /\ After(PauseTime) \in Clock /\ Timers(PauseTime) = Clock
    /\ 0 \in Timers(TxTime) /\ After(0) \in Timers(TxTime)
    /\ After(TxTime) \in Timers(TxTime) /\ After(Delay) \in Timers(Delay)
    /\ After(PeerTxTime + Delay) \in Timers(PeerTxTime + Delay)
    /\ \A n \in Nat : \A timer \in 0..n : Earlier(timer) \in 0..n
    /\ After(PauseTime) \in Nat /\ After(TxTime) \in Nat /\ After(Delay) \in Nat
    /\ After(PeerTxTime + Delay) \in Nat /\ PeerTxTime \in Nat
  BY PfcAssumption DEF Clock, Timers, After, Earlier

\* One flag or timer is set.
LEMMA FlagSets ==
    ASSUME NEW f \in FlagSet, NEW c \in Classes, NEW b \in BOOLEAN
    PROVE  [f EXCEPT ![c] = b] \in FlagSet
  BY Zenon DEF FlagSet

LEMMA FlagsEmpty == ForEach(FALSE) \in FlagSet /\ ForEach(0) \in TimerSet
  <1>1. ForEach(FALSE) \in FlagSet
    BY Zenon DEF ForEach, FlagSet
  <1>2. ForEach(0) \in TimerSet
    BY TimerRanges DEF ForEach, TimerSet
  <1> QED BY <1>1, <1>2

\* What each operation writes into a device.
LEMMA ControlSentTyped ==
    ASSUME NEW d, Device(d), TypedDevice(d), d.ctrl # <<>>
    PROVE  TypedDevice(ControlSent(d))
  <1> DEFINE e == ControlSent(d)
             rest == Tail(d.ctrl)
  <1>1. rest \in Seq(Frame)
    <2> DEFINE ctrl == d.ctrl
    <2>1. ctrl \in Seq(Frame) /\ ctrl # <<>>
      BY DEF TypedDevice
    <2> HIDE DEF ctrl
    <2>2. Tail(ctrl) \in Seq(Frame)
      BY <2>1, Shifted
    <2> QED BY <2>2 DEF ctrl
  <1>2. /\ e.ctrl = rest /\ e.rrlast = d.rrlast /\ e.busy = After(0)
        /\ e.paused = d.paused /\ e.resumeIn = d.resumeIn
    BY DEF Device, ControlSent
  <1> HIDE DEF e, rest
  <1>3. TypedDevice(e)
    BY <1>1, <1>2, TimerRanges, Zenon DEF TypedDevice
  <1> QED BY <1>3 DEF e

LEMMA ControlQueuedTyped ==
    ASSUME NEW d, Device(d), TypedDevice(d), NEW frames \in Seq(Frame)
    PROVE  TypedDevice(ControlQueued(d, frames))
  <1> DEFINE e == ControlQueued(d, frames)
             joined == d.ctrl \o frames
  <1>1. joined \in Seq(Frame)
    <2>1. d.ctrl \in Seq(Frame)
      BY DEF TypedDevice
    <2> QED BY <2>1, Joined
  <1>2. /\ e.ctrl = joined /\ e.rrlast = d.rrlast /\ e.busy = d.busy
        /\ e.paused = d.paused /\ e.resumeIn = d.resumeIn
    BY DEF Device, ControlQueued
  <1> HIDE DEF e, joined
  <1>3. TypedDevice(e)
    BY <1>1, <1>2, Zenon DEF TypedDevice
  <1> QED BY <1>3 DEF e

LEMMA DataTyped ==
    ASSUME NEW d, Device(d), TypedDevice(d), NEW c \in Classes, NEW in, NEW size
    PROVE  TypedDevice(DataSent(d, c)) /\ TypedDevice(Queued(d, in, c, size))
  <1>1. ASSUME NEW e, e.ctrl = d.ctrl, e.rrlast \in Classes \cup {0},
               e.busy \in Timers(TxTime), e.paused = d.paused, e.resumeIn = d.resumeIn
        PROVE  TypedDevice(e)
    BY <1>1, Zenon DEF TypedDevice
  <1>2. TypedDevice(DataSent(d, c))
    <2> DEFINE e == DataSent(d, c)
    <2>1. /\ e.ctrl = d.ctrl /\ e.rrlast = c /\ e.busy = After(TxTime)
          /\ e.paused = d.paused /\ e.resumeIn = d.resumeIn
      BY DEF Device, DataSent
    <2> HIDE DEF e
    <2>2. TypedDevice(e)
      BY <1>1, <2>1, TimerRanges
    <2> QED BY <2>2 DEF e
  <1>3. TypedDevice(Queued(d, in, c, size))
    <2> DEFINE e == Queued(d, in, c, size)
    <2>1. /\ e.ctrl = d.ctrl /\ e.rrlast = d.rrlast /\ e.busy = d.busy
          /\ e.paused = d.paused /\ e.resumeIn = d.resumeIn
      BY DEF Device, Queued
    <2> HIDE DEF e
    <2>2. TypedDevice(e)
      BY <1>1, <2>1 DEF TypedDevice
    <2> QED BY <2>2 DEF e
  <1> QED BY <1>2, <1>3

LEMMA ReadyTyped ==
    ASSUME NEW d, Device(d), TypedDevice(d)
    PROVE  TypedDevice(Ready(d))
  <1> DEFINE e == Ready(d)
  <1>1. /\ e.ctrl = d.ctrl /\ e.rrlast = d.rrlast /\ e.busy = 0
        /\ e.paused = d.paused /\ e.resumeIn = d.resumeIn
    BY DEF Device, Ready
  <1> HIDE DEF e
  <1>2. TypedDevice(e)
    BY <1>1, TimerRanges, Zenon DEF TypedDevice
  <1> QED BY <1>2 DEF e

LEMMA PauseTyped ==
    ASSUME NEW d, Device(d), TypedDevice(d), NEW c \in Classes
    PROVE  TypedDevice(Paused(d, c)) /\ TypedDevice(Unpaused(d, c))
  <1> DEFINE e == Paused(d, c)
             g == Unpaused(d, c)
             on == [d.paused EXCEPT ![c] = TRUE]
             off == [d.paused EXCEPT ![c] = FALSE]
             run == [d.resumeIn EXCEPT ![c] = After(PauseTime)]
             stop == [d.resumeIn EXCEPT ![c] = 0]
  <1>1. on \in FlagSet /\ off \in FlagSet
    BY FlagSets, Zenon DEF TypedDevice
  <1>2. run \in TimerSet /\ stop \in TimerSet
    BY TimerRanges DEF TypedDevice, TimerSet
  <1>3. /\ e = [d EXCEPT !.paused = on, !.resumeIn = run]
        /\ g = [d EXCEPT !.paused = off, !.resumeIn = stop]
    BY DEF Paused, Unpaused
  <1> HIDE DEF on, off, run, stop, e, g
  <1>4. /\ e.ctrl = d.ctrl /\ e.rrlast = d.rrlast /\ e.busy = d.busy
        /\ e.paused = on /\ e.resumeIn = run
        /\ g.ctrl = d.ctrl /\ g.rrlast = d.rrlast /\ g.busy = d.busy
        /\ g.paused = off /\ g.resumeIn = stop
    BY <1>3 DEF Device
  <1>5. TypedDevice(e) /\ TypedDevice(g)
    BY <1>1, <1>2, <1>4, Zenon DEF TypedDevice
  <1> QED BY <1>5 DEF e, g

LEMMA ElapsedTyped ==
    ASSUME NEW d, Device(d), TypedDevice(d)
    PROVE  TypedDevice(Elapsed(d))
  <1> DEFINE e == Elapsed(d)
             busy == Earlier(d.busy)
             timers == EarlierAll(d.resumeIn)
  <1>1. busy \in Timers(TxTime)
    BY TimerRanges DEF TypedDevice, Timers
  <1>2. timers \in TimerSet
    BY TimerRanges DEF TypedDevice, TimerSet, EarlierAll, Clock
  <1>3. e = [d EXCEPT !.busy = busy, !.resumeIn = timers]
    BY DEF Elapsed
  <1> HIDE DEF e, busy, timers
  <1>4. /\ e.ctrl = d.ctrl /\ e.rrlast = d.rrlast /\ e.busy = busy
        /\ e.paused = d.paused /\ e.resumeIn = timers
    BY <1>3 DEF Device
  <1>5. TypedDevice(e)
    BY <1>1, <1>2, <1>4, Zenon DEF TypedDevice
  <1> QED BY <1>5 DEF e

\* SetPause, SetResume and SetRemote.
LEMMA PfcTyped ==
    ASSUME NEW v, TypedPfc(v), NEW p \in Ports, NEW S \in SUBSET Classes
    PROVE  /\ TypedPfc(SetPause(v, p, S)) /\ TypedPfc(SetResume(v, p, S))
           /\ TypedPfc(SetRemote(v, p, S, TRUE)) /\ TypedPfc(SetRemote(v, p, S, FALSE))
  <1>1. ASSUME NEW paused \in [Ports -> FlagSet], NEW remote \in [Ports -> FlagSet],
               NEW timers \in [Ports -> TimerSet], NEW w,
               w = [paused |-> paused, remote |-> remote, resumeIn |-> timers]
        PROVE  TypedPfc(w)
    BY <1>1, Zenon DEF TypedPfc
  <1>2. /\ v.paused \in [Ports -> FlagSet] /\ v.remote \in [Ports -> FlagSet]
        /\ v.resumeIn \in [Ports -> TimerSet]
        /\ v = [paused |-> v.paused, remote |-> v.remote, resumeIn |-> v.resumeIn]
    BY DEF TypedPfc
  <1>3. ASSUME NEW f \in [Ports -> FlagSet], NEW g \in FlagSet
        PROVE  [f EXCEPT ![p] = g] \in [Ports -> FlagSet]
    BY <1>3, Zenon
  <1>4. ASSUME NEW f \in [Ports -> TimerSet], NEW g \in TimerSet
        PROVE  [f EXCEPT ![p] = g] \in [Ports -> TimerSet]
    BY <1>4, Zenon
  <1>5. TypedPfc(SetPause(v, p, S))
    <2> DEFINE on == [c \in Classes |-> c \in S \/ v.paused[p][c]]
               run == [c \in Classes |-> IF c \in S THEN After(PauseTime) ELSE v.resumeIn[p][c]]
               flags == [v.paused EXCEPT ![p] = on]
               timers == [v.resumeIn EXCEPT ![p] = run]
               w == SetPause(v, p, S)
    <2>1. on \in FlagSet
      BY Zenon DEF FlagSet
    <2>2. run \in TimerSet
      BY <1>2, TimerRanges DEF TimerSet
    <2>3. w = [v EXCEPT !.paused = flags, !.resumeIn = timers]
      BY DEF SetPause
    <2> HIDE DEF on, run, w
    <2>4. flags \in [Ports -> FlagSet] /\ timers \in [Ports -> TimerSet]
      BY <1>2, <1>3, <1>4, <2>1, <2>2
    <2> HIDE DEF flags, timers
    <2>5. w = [paused |-> flags, remote |-> v.remote, resumeIn |-> timers]
      BY <1>2, <2>3
    <2>6. TypedPfc(w)
      BY <1>1, <1>2, <2>4, <2>5
    <2> QED BY <2>6 DEF w
  <1>6. TypedPfc(SetResume(v, p, S))
    <2> DEFINE off == [c \in Classes |-> c \notin S /\ v.paused[p][c]]
               stop == [c \in Classes |-> IF c \in S THEN 0 ELSE v.resumeIn[p][c]]
               flags == [v.paused EXCEPT ![p] = off]
               timers == [v.resumeIn EXCEPT ![p] = stop]
               w == SetResume(v, p, S)
    <2>1. off \in FlagSet
      BY Zenon DEF FlagSet
    <2>2. stop \in TimerSet
      BY <1>2, TimerRanges DEF TimerSet
    <2>3. w = [v EXCEPT !.paused = flags, !.resumeIn = timers]
      BY DEF SetResume
    <2> HIDE DEF off, stop, w
    <2>4. flags \in [Ports -> FlagSet] /\ timers \in [Ports -> TimerSet]
      BY <1>2, <1>3, <1>4, <2>1, <2>2
    <2> HIDE DEF flags, timers
    <2>5. w = [paused |-> flags, remote |-> v.remote, resumeIn |-> timers]
      BY <1>2, <2>3
    <2>6. TypedPfc(w)
      BY <1>1, <1>2, <2>4, <2>5
    <2> QED BY <2>6 DEF w
  <1>7. ASSUME NEW b \in BOOLEAN PROVE TypedPfc(SetRemote(v, p, S, b))
    <2> DEFINE g == [c \in Classes |-> IF c \in S THEN b ELSE v.remote[p][c]]
               flags == [v.remote EXCEPT ![p] = g]
               w == SetRemote(v, p, S, b)
    <2>1. g \in FlagSet
      BY <1>2, Zenon DEF FlagSet
    <2>2. w = [v EXCEPT !.remote = flags]
      BY DEF SetRemote
    <2> HIDE DEF g, w
    <2>3. flags \in [Ports -> FlagSet]
      BY <1>2, <1>3, <2>1
    <2> HIDE DEF flags
    <2>4. w = [paused |-> v.paused, remote |-> flags, resumeIn |-> v.resumeIn]
      BY <1>2, <2>2
    <2>5. TypedPfc(w)
      BY <1>1, <1>2, <2>3, <2>4
    <2> QED BY <2>5 DEF w
  <1> QED BY <1>5, <1>6, <1>7


\* A call that changes at most one device.
LEMMA TypedPut ==
    ASSUME NEW s, NEW t, NEW owed, Counted(s, owed), Typed(s), t.pfc = s.pfc,
           t.toPeer = s.toPeer, NEW p \in Ports, NEW d, TypedDevice(d),
           t.dev = [s.dev EXCEPT ![p] = d]
    PROVE  Typed(t)
  <1>1. s.dev = [q \in Ports |-> s.dev[q]]
    BY DEF Counted, Devices
  <1>2. \A q \in Ports : t.dev[q] = IF q = p THEN d ELSE s.dev[q]
    BY <1>1
  <1>3. \A q \in Ports : TypedDevice(t.dev[q])
    BY <1>2 DEF Typed
  <1> QED BY <1>3 DEF Typed

\* The handlers.
LEMMA SendControlTyped ==
    ASSUME NEW s, NEW owed, Counted(s, owed), Typed(s), NEW p \in Ports,
           s.dev[p].ctrl # <<>>
    PROVE  Typed(SendControl(s, p))
  <1> DEFINE ctrl == s.dev[p].ctrl
             f == Head(ctrl)
             sent == [class |-> f.class, pause |-> f.pause, left |-> After(Delay)]
             d == ControlSent(s.dev[p])
             wire == Append(s.toPeer[p], sent)
             t == SendControl(s, p)
  <1>1. /\ ctrl \in Seq(Frame) /\ ctrl # <<>> /\ s.toPeer[p] \in Seq(SentFrame)
        /\ Device(s.dev[p]) /\ TypedDevice(s.dev[p])
    BY DEF Typed, TypedDevice, Counted, Devices
  <1>2. TypedDevice(d)
    BY <1>1, ControlSentTyped
  <1>3. /\ t.pfc = s.pfc /\ t.toPeer = [s.toPeer EXCEPT ![p] = wire]
        /\ t.dev = [s.dev EXCEPT ![p] = d]
    BY DEF Counted, Shape, SendControl
  <1>4. f \in Frame
    <2> HIDE DEF ctrl
    <2> QED BY <1>1, Shifted
  <1>5. sent \in SentFrame
    BY <1>4, TimerRanges, Zenon DEF SentFrame, Frame
  <1> HIDE DEF sent, d, t
  <1>6. wire \in Seq(SentFrame)
    BY <1>1, <1>5
  <1> HIDE DEF wire
  <1>7. t.toPeer \in [Ports -> Seq(SentFrame)]
    BY <1>3, <1>6 DEF Typed
  <1>8. \A q \in Ports : t.dev[q] = IF q = p THEN d ELSE s.dev[q]
    BY <1>3 DEF Counted, Devices
  <1>9. \A q \in Ports : TypedDevice(t.dev[q])
    BY <1>2, <1>8 DEF Typed
  <1>10. TypedPfc(t.pfc)
    BY <1>3 DEF Typed
  <1>11. Typed(t)
    BY <1>7, <1>9, <1>10 DEF Typed
  <1> QED BY <1>11 DEF t

LEMMA SendPfcTyped ==
    ASSUME NEW s, NEW owed, Counted(s, owed), Typed(s), NEW p \in Ports,
           NEW frames \in Seq(Frame)
    PROVE  Typed(SendPfc(s, p, frames))
  <1> DEFINE d == ControlQueued(s.dev[p], frames)
             t == [s EXCEPT !.dev[p] = ControlQueued(@, frames)]
             joined == s.dev[p].ctrl \o frames
  <1>1. /\ t.pfc = s.pfc /\ t.toPeer = s.toPeer /\ t.dev[p].ctrl = joined
        /\ t.dev = [s.dev EXCEPT ![p] = d] /\ t.egress = s.egress /\ Shape(t)
    BY DEF Counted, Shape, Devices, Device, ControlQueued
  <1>2. Device(s.dev[p]) /\ TypedDevice(s.dev[p]) /\ s.dev[p].ctrl \in Seq(Frame)
    BY DEF Counted, Devices, Typed, TypedDevice
  <1>3. Device(d) /\ d.bytes = s.dev[p].bytes
    BY <1>2, DeviceKept
  <1>4. TypedDevice(d)
    BY <1>2, ControlQueuedTyped
  <1>5. SendPfc(s, p, frames) = IF s.dev[p].busy = 0 /\ frames # <<>>
                                THEN SendControl(t, p) ELSE t
    BY DEF SendPfc
  <1>6. frames # <<>> => joined # <<>>
    <2>1. Len(joined) = Len(s.dev[p].ctrl) + Len(frames) /\ Len(s.dev[p].ctrl) \in Nat
      BY <1>2, ConcatProperties, LenProperties
    <2>2. frames # <<>> => Len(frames) \in Nat /\ Len(frames) # 0
      BY LenProperties, EmptySeq
    <2>3. Len(<<>>) = 0
      OBVIOUS
    <2> HIDE DEF joined
    <2> QED BY <2>1, <2>2, <2>3
  <1> HIDE DEF d, t, joined
  <1>7. Counted(t, owed)
    BY <1>1, <1>3, CountedPut
  <1>8. Typed(t)
    BY <1>1, <1>4, TypedPut
  <1> QED BY <1>1, <1>5, <1>6, <1>7, <1>8, SendControlTyped

\* The MMU's view of its peers changes.
LEMMA TypedMmu ==
    ASSUME NEW s, NEW owed, Counted(s, owed), Typed(s), NEW v, TypedPfc(v)
    PROVE  /\ Typed([s EXCEPT !.pfc = v]) /\ [s EXCEPT !.pfc = v].pfc = v
           /\ Counted([s EXCEPT !.pfc = v], owed)
  <1> DEFINE t == [s EXCEPT !.pfc = v]
  <1>1. t.pfc = v /\ t.toPeer = s.toPeer /\ t.dev = s.dev
    BY DEF Counted, Shape
  <1>2. Counted(t, owed)
    BY CountedPfc
  <1> HIDE DEF t
  <1>3. Typed(t)
    BY <1>1 DEF Typed
  <1> QED BY <1>1, <1>2, <1>3 DEF t

LEMMA CheckAndSendPfcTyped ==
    ASSUME NEW s, NEW owed, Counted(s, owed), Typed(s), NEW p \in Ports, NEW c
    PROVE  Typed(CheckAndSendPfc(s, p, c))
  <1> DEFINE pauses == ToPause(s, p, c)
             v == SetRemote(SetPause(s.pfc, p, pauses), p, pauses, TRUE)
             told == [s EXCEPT !.pfc = v]
             resumes == {e \in Classes :
                           told.pfc.remote[p][e] /\ ResumeClass(told, p, e)}
             w == SetRemote(SetResume(told.pfc, p, resumes), p, resumes, FALSE)
             out == [told EXCEPT !.pfc = w]
             frames == Frames(pauses, TRUE) \o Frames(resumes, FALSE)
  <1>1. CheckAndSendPfc(s, p, c) = SendPfc(out, p, frames)
    BY Zenon DEF CheckAndSendPfc
  <1>2. pauses \in SUBSET Classes /\ resumes \in SUBSET Classes
    BY DEF ToPause, PauseClasses
  <1>3. frames \in Seq(Frame)
    <2> HIDE DEF pauses, resumes
    <2>1. Frames(pauses, TRUE) \in Seq(Frame) /\ Frames(resumes, FALSE) \in Seq(Frame)
      BY <1>2, FramesSay
    <2> QED BY <2>1, Joined
  <1> HIDE DEF pauses, resumes, frames
  <1>4. TypedPfc(v)
    <2>1. TypedPfc(SetPause(s.pfc, p, pauses))
      BY <1>2, PfcTyped DEF Typed
    <2> QED BY <1>2, <2>1, PfcTyped
  <1> HIDE DEF v
  <1>5. Typed(told) /\ Counted(told, owed) /\ told.pfc = v
    BY <1>4, TypedMmu
  <1> HIDE DEF told
  <1>6. TypedPfc(w)
    <2>1. TypedPfc(SetResume(told.pfc, p, resumes))
      BY <1>2, <1>5, PfcTyped DEF Typed
    <2> QED BY <1>2, <2>1, PfcTyped
  <1> HIDE DEF w
  <1>7. Typed(out) /\ Counted(out, owed)
    BY <1>5, <1>6, TypedMmu
  <1> HIDE DEF out
  <1> QED BY <1>1, <1>3, <1>7, SendPfcTyped

LEMMA CheckAndSendResumeTyped ==
    ASSUME NEW s, NEW owed, Counted(s, owed), Typed(s), NEW p \in Ports,
           NEW c \in Classes
    PROVE  Typed(CheckAndSendResume(s, p, c))
  <1> DEFINE v == SetResume(s.pfc, p, {c})
             out == [s EXCEPT !.pfc = v]
             off == Frames({c}, FALSE)
  <1>1. CheckAndSendResume(s, p, c) \in {s, SendPfc(out, p, off)}
    BY Zenon DEF CheckAndSendResume
  <1>2. {c} \in SUBSET Classes
    OBVIOUS
  <1>3. off \in Seq(Frame)
    BY <1>2, FramesSay
  <1>4. TypedPfc(v)
    BY <1>2, PfcTyped DEF Typed
  <1> HIDE DEF v, off
  <1>5. Typed(out) /\ Counted(out, owed)
    BY <1>4, TypedMmu
  <1> HIDE DEF out
  <1> QED BY <1>1, <1>3, <1>5, SendPfcTyped

LEMMA DequeueTyped ==
    ASSUME NEW s, NEW owed \in Owed, Counted(s, owed), Typed(s), NEW p \in Ports
    PROVE  Typed(DequeueAndTransmit(s, p))
  <1>1. Device(s.dev[p]) /\ TypedDevice(s.dev[p])
    BY DEF Counted, Devices, Typed
  <1>2. ASSUME NEW c \in Sendable(s.dev[p]) PROVE Typed(SendData(s, p, c))
    <2> DEFINE t == DataTaken(s, p, c)
               in == Head(s.dev[p].queue[c]).inDev
               d == DataSent(s.dev[p], c)
    <2>1. SendData(s, p, c) = CheckAndSendResume(t, in, c)
      BY Zenon DEF SendData, DataTaken
    <2>2. Counted(t, owed) /\ in \in Ports
      BY DataTakenCounted
    <2>3. c \in Classes
      BY DEF Sendable
    <2>4. t.pfc = s.pfc /\ t.toPeer = s.toPeer /\ t.dev = [s.dev EXCEPT ![p] = d]
      BY DEF Counted, Shape, DataTaken
    <2>5. TypedDevice(d)
      BY <1>1, <2>3, DataTyped
    <2> HIDE DEF t, in, d
    <2>6. Typed(t)
      BY <2>4, <2>5, TypedPut
    <2> QED BY <2>1, <2>2, <2>3, <2>6, CheckAndSendResumeTyped
  <1>3. ASSUME Sendable(s.dev[p]) # {}
        PROVE  Typed(SendData(s, p, NextClass(s.dev[p])))
    BY <1>1, <1>2, <1>3, NextClassSendable
  <1> QED BY <1>3, SendControlTyped DEF DequeueAndTransmit

LEMMA DoSwitchSendTyped ==
    ASSUME NEW s, Counted(s, NothingOwed), Typed(s), NEW in \in Ports,
           NEW out \in Ports, NEW c \in Classes, NEW size \in PktSizes
    PROVE  Typed(DoSwitchSend(s, in, out, c, size))
  <1> DEFINE charged == Charged(s, in, out, c, size)
             told == CheckAndSendPfc(charged, in, c)
             d == Queued(told.dev[out], in, c, size)
             t == PacketQueued(told, in, out, c, size)
  <1>1. DoSwitchSend(s, in, out, c, size) \in {s, DequeueAndTransmit(t, out)}
    BY Zenon DEF DoSwitchSend, Charged, PacketQueued
  <1>2. Counted(charged, Owes(out, c, size))
    BY ChargedCounted
  <1>3. charged.pfc = s.pfc /\ charged.toPeer = s.toPeer /\ charged.dev = s.dev
    BY DEF Counted, Shape, Charged
  <1> HIDE DEF charged
  <1>4. Typed(charged)
    BY <1>3 DEF Typed
  <1>5. Counted(told, Owes(out, c, size)) /\ Typed(told)
    BY <1>2, <1>4, CheckAndSendPfcCounted, CheckAndSendPfcTyped
  <1> HIDE DEF told
  <1>6. Counted(t, NothingOwed)
    BY <1>5, PacketQueuedCounted
  <1>7. t.pfc = told.pfc /\ t.toPeer = told.toPeer /\ t.dev = [told.dev EXCEPT ![out] = d]
    BY <1>5 DEF Counted, Shape, PacketQueued
  <1>8. Device(told.dev[out]) /\ TypedDevice(told.dev[out])
    BY <1>5 DEF Counted, Devices, Typed
  <1>9. TypedDevice(d)
    BY <1>8, DataTyped
  <1> HIDE DEF t, d
  <1>10. Typed(t)
    BY <1>5, <1>7, <1>9, TypedPut
  <1> QED BY <1>1, <1>6, <1>10, OwesPacket, DequeueTyped


TypedSender == [paused : FlagSet, resumeIn : TimerSet, busy : 0..PeerTxTime]

TypeInv ==
    /\ AccountInv
    /\ Typed(Switch)
    /\ peer \in [Ports -> TypedSender]
    /\ toSwitch \in [Ports -> Seq(SentPacket)]

\* The variables themselves.
LEMMA TypedHere ==
    Typed(Switch) <=>
      /\ TypedPfc(pfc)
      /\ toPeer \in [Ports -> Seq(SentFrame)]
      /\ \A q \in Ports : TypedDevice(dev[q])
  BY DEF Typed, Switch

LEMMA InitTyped == Init => TypeInv
  <1> SUFFICES ASSUME Init PROVE TypeInv
    OBVIOUS
  <1>1. TypedPfc(pfc)
    <2>1. PICK paused, remote \in [Ports -> [Classes -> Garbage]] :
            pfc = [paused |-> paused, remote |-> remote,
                   resumeIn |-> [p \in Ports |-> ForEach(0)]]
      BY DEF Init
    <2>2. Garbage \subseteq BOOLEAN
      BY PfcAssumption, Zenon
    <2>3. ASSUME NEW f \in [Ports -> [Classes -> Garbage]] PROVE f \in [Ports -> FlagSet]
      BY <2>2, Zenon DEF FlagSet
    <2>4. [p \in Ports |-> ForEach(0)] \in [Ports -> TimerSet]
      BY FlagsEmpty
    <2> QED BY <2>1, <2>3, <2>4, Zenon DEF TypedPfc
  <1>2. toPeer \in [Ports -> Seq(SentFrame)] /\ toSwitch \in [Ports -> Seq(SentPacket)]
    BY DEF Init
  <1>3. ASSUME NEW q \in Ports PROVE TypedDevice(dev[q])
    <2>1. dev[q] = [queue |-> ForEach(<<>>), bytes |-> ForEach(0), ctrl |-> <<>>,
                    rrlast |-> 0, busy |-> 0,
                    paused |-> ForEach(FALSE), resumeIn |-> ForEach(0)]
      BY Zenon DEF Init
    <2>2. /\ dev[q].ctrl = <<>> /\ dev[q].rrlast = 0 /\ dev[q].busy = 0
          /\ dev[q].paused = ForEach(FALSE) /\ dev[q].resumeIn = ForEach(0)
      BY <2>1
    <2>3. <<>> \in Seq(Frame) /\ 0 \in Classes \cup {0}
      OBVIOUS
    <2> QED BY <2>2, <2>3, FlagsEmpty, TimerRanges, Zenon DEF TypedDevice
  <1>4. peer \in [Ports -> TypedSender]
    <2>1. 0 \in 0..PeerTxTime
      BY TimerRanges
    <2>2. [paused |-> ForEach(FALSE), resumeIn |-> ForEach(0), busy |-> 0] \in TypedSender
      BY <2>1, FlagsEmpty, Zenon DEF TypedSender
    <2> QED BY <2>2, Zenon DEF Init
  <1>5. Typed(Switch)
    BY <1>1, <1>2, <1>3, TypedHere
  <1> QED BY <1>2, <1>4, <1>5, InitAccounted DEF TypeInv

\* A handler's final state is the next state of the variables.
LEMMA BecomeTyped ==
    ASSUME NEW s, Typed(s), Become(s)
    PROVE  Typed(Switch)'
  <1>1. Switch'.pfc = s.pfc /\ Switch'.toPeer = s.toPeer /\ Switch'.dev = s.dev
    BY DEF Switch, Become
  <1> HIDE DEF Switch
  <1> QED BY <1>1 DEF Typed

\* A sender is paused or released for one class.
LEMMA SenderTyped ==
    ASSUME NEW d \in TypedSender, NEW c \in Classes, NEW b \in BOOLEAN, NEW n \in Clock
    PROVE  [d EXCEPT !.paused[c] = b, !.resumeIn[c] = n] \in TypedSender
  <1> DEFINE e == [d EXCEPT !.paused[c] = b, !.resumeIn[c] = n]
             flags == [d.paused EXCEPT ![c] = b]
             timers == [d.resumeIn EXCEPT ![c] = n]
  <1>1. d.paused \in FlagSet /\ d.resumeIn \in TimerSet /\ d.busy \in 0..PeerTxTime
    BY DEF TypedSender
  <1>2. flags \in FlagSet
    BY <1>1, FlagSets
  <1>3. timers \in TimerSet
    BY <1>1 DEF TimerSet
  <1>4. e = [d EXCEPT !.paused = flags, !.resumeIn = timers]
    OBVIOUS
  <1> HIDE DEF e, flags, timers
  <1>5. e = [paused |-> flags, resumeIn |-> timers, busy |-> d.busy]
    BY <1>4 DEF TypedSender
  <1>6. e \in TypedSender
    BY <1>1, <1>2, <1>3, <1>5, Zenon DEF TypedSender
  <1> QED BY <1>6 DEF e

\* The wires when the clock advances.
LEMMA WireTyped ==
    /\ \A wire \in Seq(SentFrame) : EarlierWire(wire) \in Seq(SentFrame)
    /\ \A wire \in Seq(SentPacket) : EarlierWire(wire) \in Seq(SentPacket)
  <1>1. ASSUME NEW wire \in Seq(SentFrame) PROVE EarlierWire(wire) \in Seq(SentFrame)
    <2> DEFINE new == EarlierWire(wire)
    <2>1. Len(wire) \in Nat /\ \A i \in 1..Len(wire) : wire[i] \in SentFrame
      BY LenProperties
    <2>2. ASSUME NEW i \in 1..Len(wire)
          PROVE  [wire[i] EXCEPT !.left = Earlier(@)] \in SentFrame
      <3> DEFINE f == wire[i]
                 left == Earlier(f.left)
      <3>1. f \in SentFrame
        BY <2>1
      <3> HIDE DEF f
      <3>2. f.left \in Timers(Delay) /\ f.class \in Classes /\ f.pause \in BOOLEAN
            /\ f = [class |-> f.class, pause |-> f.pause, left |-> f.left]
        BY <3>1 DEF SentFrame
      <3>3. left \in Timers(Delay)
        BY <3>2, TimerRanges DEF Timers
      <3> HIDE DEF left
      <3>4. [f EXCEPT !.left = left] = [class |-> f.class, pause |-> f.pause, left |-> left]
        BY <3>2
      <3>5. [f EXCEPT !.left = left] \in SentFrame
        BY <3>2, <3>3, <3>4, Zenon DEF SentFrame
      <3> QED BY <3>5 DEF f, left
    <2>3. new = [i \in 1..Len(wire) |-> [wire[i] EXCEPT !.left = Earlier(@)]]
      BY DEF EarlierWire
    <2> HIDE DEF new
    <2>4. new \in [1..Len(wire) -> SentFrame]
      BY <2>2, <2>3
    <2>5. new \in Seq(SentFrame)
      BY <2>1, <2>4
    <2> QED BY <2>5 DEF new
  <1>2. ASSUME NEW wire \in Seq(SentPacket) PROVE EarlierWire(wire) \in Seq(SentPacket)
    <2> DEFINE new == EarlierWire(wire)
    <2>1. Len(wire) \in Nat /\ \A i \in 1..Len(wire) : wire[i] \in SentPacket
      BY LenProperties
    <2>2. ASSUME NEW i \in 1..Len(wire)
          PROVE  [wire[i] EXCEPT !.left = Earlier(@)] \in SentPacket
      <3> DEFINE f == wire[i]
      <3>1. f \in SentPacket
        BY <2>1
      <3> HIDE DEF f
      <3>2. Earlier(f.left) \in Timers(PeerTxTime + Delay)
        BY <3>1, TimerRanges, PfcAssumption DEF SentPacket, Timers
      <3>3. [f EXCEPT !.left = Earlier(@)] \in SentPacket
        BY <3>1, <3>2 DEF SentPacket
      <3> QED BY <3>3 DEF f
    <2>3. new = [i \in 1..Len(wire) |-> [wire[i] EXCEPT !.left = Earlier(@)]]
      BY DEF EarlierWire
    <2> HIDE DEF new
    <2>4. new \in [1..Len(wire) -> SentPacket]
      BY <2>2, <2>3
    <2>5. new \in Seq(SentPacket)
      BY <2>1, <2>4
    <2> QED BY <2>5 DEF new
  <1> QED BY <1>1, <1>2

\* The clock advances.
LEMMA TickTyped ==
    ASSUME TypeInv, Tick
    PROVE  /\ Typed(Switch)' /\ peer' \in [Ports -> TypedSender]
           /\ toSwitch' \in [Ports -> Seq(SentPacket)]
  <1>1. /\ pfc' = [pfc EXCEPT !.resumeIn = [p \in Ports |-> EarlierAll(@[p])]]
        /\ dev' = [p \in Ports |-> Elapsed(dev[p])]
        /\ peer' = [p \in Ports |-> Elapsed(peer[p])]
        /\ toPeer' = [p \in Ports |-> EarlierWire(toPeer[p])]
        /\ toSwitch' = [p \in Ports |-> EarlierWire(toSwitch[p])]
    BY DEF Tick
  <1>2. /\ TypedPfc(pfc) /\ \A q \in Ports : TypedDevice(dev[q]) /\ Device(dev[q])
        /\ toPeer \in [Ports -> Seq(SentFrame)] /\ toSwitch \in [Ports -> Seq(SentPacket)]
    BY TypedHere DEF TypeInv, AccountInv, CountInv, Counted, Devices, Switch
  <1>3. \A timers \in TimerSet : EarlierAll(timers) \in TimerSet
    BY TimerRanges DEF TimerSet, EarlierAll, Clock
  <1>4. TypedPfc(pfc')
    <2> DEFINE timers == [p \in Ports |-> EarlierAll(pfc.resumeIn[p])]
    <2>1. /\ pfc.paused \in [Ports -> FlagSet] /\ pfc.remote \in [Ports -> FlagSet]
          /\ pfc.resumeIn \in [Ports -> TimerSet]
          /\ pfc = [paused |-> pfc.paused, remote |-> pfc.remote, resumeIn |-> pfc.resumeIn]
      BY <1>2 DEF TypedPfc
    <2>2. timers \in [Ports -> TimerSet] /\ pfc' = [pfc EXCEPT !.resumeIn = timers]
      BY <1>1, <1>3, <2>1
    <2> HIDE DEF timers
    <2>3. pfc' = [paused |-> pfc.paused, remote |-> pfc.remote, resumeIn |-> timers]
      BY <2>1, <2>2
    <2> QED BY <2>1, <2>2, <2>3, Zenon DEF TypedPfc
  <1>5. \A q \in Ports : TypedDevice(dev'[q])
    BY <1>1, <1>2, ElapsedTyped
  <1>6. toPeer' \in [Ports -> Seq(SentFrame)] /\ toSwitch' \in [Ports -> Seq(SentPacket)]
    BY <1>1, <1>2, WireTyped
  <1>7. ASSUME NEW q \in Ports PROVE peer'[q] \in TypedSender
    <2> DEFINE d == peer[q]
               e == Elapsed(d)
               timers == EarlierAll(d.resumeIn)
               busy == Earlier(d.busy)
    <2>1. d \in TypedSender
      BY DEF TypeInv
    <2>2. peer'[q] = e
      BY <1>1
    <2>3. d.paused \in FlagSet /\ d.resumeIn \in TimerSet /\ d.busy \in 0..PeerTxTime
      BY <2>1 DEF TypedSender
    <2>4. timers \in TimerSet /\ busy \in 0..PeerTxTime
      BY <1>3, <2>3, TimerRanges
    <2>5. e = [d EXCEPT !.busy = busy, !.resumeIn = timers]
      BY DEF Elapsed
    <2> HIDE DEF d, e, timers, busy
    <2>6. e = [paused |-> d.paused, resumeIn |-> timers, busy |-> busy]
      BY <2>1, <2>5 DEF TypedSender
    <2>7. e \in TypedSender
      BY <2>3, <2>4, <2>6, Zenon DEF TypedSender
    <2> QED BY <2>2, <2>7
  <1>8. peer' \in [Ports -> TypedSender]
    BY <1>1, <1>7
  <1>9. Typed(Switch)'
    <2>1. Switch'.pfc = pfc' /\ Switch'.toPeer = toPeer' /\ Switch'.dev = dev'
      BY DEF Switch
    <2> HIDE DEF Switch
    <2> QED BY <1>4, <1>5, <1>6, <2>1 DEF Typed
  <1> QED BY <1>6, <1>8, <1>9

LEMMA StepTyped == TypeInv /\ [Next]_vars => TypeInv'
  <1> SUFFICES ASSUME TypeInv, [Next]_vars PROVE TypeInv'
    OBVIOUS
  <1>0. /\ AccountInv' /\ Counted(Switch, NothingOwed) /\ Typed(Switch)
        /\ NothingOwed \in Owed /\ Switch.dev = dev
        /\ \A p \in Ports : Device(dev[p]) /\ TypedDevice(dev[p])
        /\ peer \in [Ports -> TypedSender] /\ toSwitch \in [Ports -> Seq(SentPacket)]
    BY StepAccounted, TypedHere
    DEF TypeInv, AccountInv, CountInv, NothingOwed, Owed, Counted, Devices, Switch
  <1>1. ASSUME Typed(Switch)', UNCHANGED peer, UNCHANGED toSwitch PROVE TypeInv'
    BY <1>0, <1>1 DEF TypeInv
  <1>2. ASSUME NEW p \in Ports, SwitchReceive(p) PROVE TypeInv'
    <2> DEFINE wire == toSwitch[p]
               pkt == Head(wire)
    <2>1. /\ wire \in Seq(SentPacket) /\ wire # <<>>
          /\ toSwitch' = [toSwitch EXCEPT ![p] = Tail(wire)] /\ UNCHANGED peer
      BY <1>0, <1>2 DEF SwitchReceive, FirstDue
    <2>2. pkt \in SentPacket /\ Tail(wire) \in Seq(SentPacket)
      <3> HIDE DEF wire
      <3> QED BY <2>1, Shifted
    <2>3. pkt.out \in Ports /\ pkt.class \in Classes /\ pkt.size \in PktSizes
      BY <2>2 DEF SentPacket
    <2>4. Become(DoSwitchSend(Switch, p, pkt.out, pkt.class, pkt.size))
      BY <1>2 DEF SwitchReceive
    <2> HIDE DEF pkt, wire
    <2>5. Typed(Switch)'
      BY <1>0, <2>3, <2>4, DoSwitchSendTyped, BecomeTyped
    <2>6. toSwitch' \in [Ports -> Seq(SentPacket)]
      BY <1>0, <2>1, <2>2
    <2> QED BY <1>0, <2>1, <2>5, <2>6 DEF TypeInv
  <1>3. ASSUME NEW p \in Ports, NEW d, Device(d), TypedDevice(d), d.bytes = dev[p].bytes,
               Become(DequeueAndTransmit([Switch EXCEPT !.dev[p] = d], p)),
               UNCHANGED peer, UNCHANGED toSwitch
        PROVE  TypeInv'
    <2> DEFINE t == [Switch EXCEPT !.dev[p] = d]
    <2>1. /\ t.pfc = Switch.pfc /\ t.toPeer = Switch.toPeer /\ t.egress = Switch.egress
          /\ t.dev = [Switch.dev EXCEPT ![p] = d] /\ Shape(t)
      BY DEF Switch, Shape
    <2>2. Become(DequeueAndTransmit(t, p))
      BY <1>3
    <2> HIDE DEF t, Switch
    <2>3. Counted(t, NothingOwed)
      BY <1>0, <1>3, <2>1, CountedPut
    <2>4. Typed(t)
      BY <1>0, <1>3, <2>1, TypedPut
    <2>5. Typed(DequeueAndTransmit(t, p))
      BY <1>0, <2>3, <2>4, DequeueTyped
    <2>6. Typed(Switch)'
      BY <2>2, <2>5, BecomeTyped
    <2> QED BY <1>1, <1>3, <2>6
  <1>4. ASSUME NEW p \in Ports, TransmitComplete(p) PROVE TypeInv'
    <2> DEFINE d == Ready(dev[p])
    <2>1. Device(d) /\ d.bytes = dev[p].bytes
      BY <1>0, DeviceKept
    <2>2. TypedDevice(d)
      BY <1>0, ReadyTyped
    <2>3. /\ Become(DequeueAndTransmit([Switch EXCEPT !.dev[p] = d], p))
          /\ UNCHANGED peer /\ UNCHANGED toSwitch
      BY <1>4 DEF TransmitComplete, Switch
    <2> HIDE DEF d
    <2> QED BY <1>3, <2>1, <2>2, <2>3
  <1>5. ASSUME NEW p \in Ports, NEW c \in Classes, Resume(p, c) PROVE TypeInv'
    <2> DEFINE d == Unpaused(dev[p], c)
    <2>1. Device(d) /\ d.bytes = dev[p].bytes
      BY <1>0, DeviceKept
    <2>2. TypedDevice(d)
      BY <1>0, PauseTyped
    <2>3. /\ Become(DequeueAndTransmit([Switch EXCEPT !.dev[p] = d], p))
          /\ UNCHANGED peer /\ UNCHANGED toSwitch
      BY <1>5 DEF Resume, Switch
    <2> HIDE DEF d
    <2> QED BY <1>3, <2>1, <2>2, <2>3
  <1>6. ASSUME NEW p \in Ports, NEW c \in Classes, DevicePause(p, c) PROVE TypeInv'
    <2> DEFINE d == Paused(dev[p], c)
    <2>1. TypedDevice(d)
      BY <1>0, PauseTyped
    <2>2. /\ Switch'.pfc = Switch.pfc /\ Switch'.toPeer = Switch.toPeer
          /\ Switch'.dev = [Switch.dev EXCEPT ![p] = d]
          /\ UNCHANGED peer /\ UNCHANGED toSwitch
      BY <1>6 DEF DevicePause, Switch
    <2> HIDE DEF d, Switch
    <2>3. Typed(Switch')
      BY <1>0, <2>1, <2>2, TypedPut
    <2>4. Typed(Switch)'
      BY <2>3 DEF Typed
    <2> QED BY <1>1, <2>2, <2>4
  <1>7. ASSUME NEW p \in Ports, NEW c \in Classes, PauseExpires(p, c) PROVE TypeInv'
    <2> DEFINE v == SetResume(pfc, p, {c})
    <2>1. /\ pfc' = v /\ UNCHANGED <<dev, toPeer>>
          /\ UNCHANGED peer /\ UNCHANGED toSwitch
      BY <1>7 DEF PauseExpires
    <2>2. TypedPfc(v)
      BY <1>0, TypedHere, PfcTyped
    <2> HIDE DEF v
    <2>3. Switch'.pfc = v /\ Switch'.toPeer = Switch.toPeer /\ Switch'.dev = Switch.dev
      BY <2>1 DEF Switch
    <2> HIDE DEF Switch
    <2>4. Typed(Switch)'
      BY <1>0, <2>2, <2>3 DEF Typed
    <2> QED BY <1>1, <2>1, <2>4
  <1>8. ASSUME NEW p \in Ports, PeerReceive(p) PROVE TypeInv'
    <2> DEFINE wire == toPeer[p]
               f == Head(wire)
               until == IF f.pause THEN After(PauseTime) ELSE 0
               e == [peer[p] EXCEPT !.paused[f.class] = f.pause,
                                    !.resumeIn[f.class] = until]
    <2>1. /\ wire \in Seq(SentFrame) /\ wire # <<>>
          /\ toPeer' = [toPeer EXCEPT ![p] = Tail(wire)]
          /\ peer' = [peer EXCEPT ![p] = e]
          /\ UNCHANGED <<pfc, dev>> /\ UNCHANGED toSwitch
      BY <1>0, <1>8, TypedHere DEF PeerReceive, FirstDue
    <2>2. f \in SentFrame /\ Tail(wire) \in Seq(SentFrame)
      <3> HIDE DEF wire
      <3> QED BY <2>1, Shifted
    <2>3. f.class \in Classes /\ f.pause \in BOOLEAN /\ until \in Clock
      BY <2>2, TimerRanges DEF SentFrame
    <2>4. peer[p] \in TypedSender
      BY <1>0
    <2> HIDE DEF f, wire, until
    <2>5. e \in TypedSender
      BY <2>3, <2>4, SenderTyped
    <2> HIDE DEF e
    <2>6. peer' \in [Ports -> TypedSender]
      BY <1>0, <2>1, <2>5
    <2>7. toPeer' \in [Ports -> Seq(SentFrame)]
      BY <1>0, <2>1, <2>2, TypedHere
    <2>8. Switch'.pfc = pfc /\ Switch'.toPeer = toPeer' /\ Switch'.dev = dev
      BY <2>1 DEF Switch
    <2>9. TypedPfc(pfc)
      BY <1>0, TypedHere
    <2> HIDE DEF Switch
    <2>10. Typed(Switch)'
      BY <1>0, <2>7, <2>8, <2>9 DEF Typed
    <2> QED BY <1>0, <2>1, <2>6, <2>10 DEF TypeInv
  <1>9. ASSUME NEW p \in Ports, NEW c \in Classes, PeerResume(p, c) PROVE TypeInv'
    <2> DEFINE e == [peer[p] EXCEPT !.paused[c] = FALSE, !.resumeIn[c] = 0]
    <2>1. /\ peer' = [peer EXCEPT ![p] = e]
          /\ UNCHANGED <<pfc, dev, toPeer>> /\ UNCHANGED toSwitch
      BY <1>9 DEF PeerResume
    <2>2. e \in TypedSender
      BY <1>0, SenderTyped, TimerRanges
    <2> HIDE DEF e
    <2>3. peer' \in [Ports -> TypedSender]
      BY <1>0, <2>1, <2>2
    <2>4. Switch'.pfc = Switch.pfc /\ Switch'.toPeer = Switch.toPeer /\ Switch'.dev = Switch.dev
      BY <2>1 DEF Switch
    <2> HIDE DEF Switch
    <2>5. Typed(Switch)'
      BY <1>0, <2>4 DEF Typed
    <2> QED BY <1>0, <2>1, <2>3, <2>5 DEF TypeInv
  <1>10. ASSUME NEW p \in Ports, NEW out \in Ports, NEW c \in Classes,
                NEW size \in PktSizes, PeerSend(p, out, c, size)
         PROVE  TypeInv'
    <2> DEFINE pkt == [out |-> out, class |-> c, size |-> size,
                       left |-> After(PeerTxTime + Delay)]
               e == [peer[p] EXCEPT !.busy = PeerTxTime]
               wire == Append(toSwitch[p], pkt)
    <2>1. /\ peer' = [peer EXCEPT ![p] = e]
          /\ toSwitch' = [toSwitch EXCEPT ![p] = wire]
          /\ UNCHANGED <<pfc, dev, toPeer>>
      BY <1>10 DEF PeerSend
    <2>2. pkt \in SentPacket
      BY TimerRanges DEF SentPacket
    <2>3. wire \in Seq(SentPacket)
      <3>1. toSwitch[p] \in Seq(SentPacket)
        BY <1>0
      <3> HIDE DEF pkt
      <3> QED BY <2>2, <3>1
    <2>4. e \in TypedSender
      <3>1. PeerTxTime \in 0..PeerTxTime /\ peer[p] \in TypedSender
        BY <1>0, TimerRanges
      <3> QED BY <3>1 DEF TypedSender
    <2> HIDE DEF pkt, wire, e
    <2>5. peer' \in [Ports -> TypedSender] /\ toSwitch' \in [Ports -> Seq(SentPacket)]
      BY <1>0, <2>1, <2>3, <2>4
    <2>6. Switch'.pfc = Switch.pfc /\ Switch'.toPeer = Switch.toPeer /\ Switch'.dev = Switch.dev
      BY <2>1 DEF Switch
    <2> HIDE DEF Switch
    <2>7. Typed(Switch)'
      BY <1>0, <2>6 DEF Typed
    <2> QED BY <1>0, <2>5, <2>7 DEF TypeInv
  <1>11. CASE Tick
    BY <1>0, <1>11, TickTyped DEF TypeInv
  <1>12. CASE UNCHANGED vars
    <2>1. Switch'.pfc = Switch.pfc /\ Switch'.toPeer = Switch.toPeer /\ Switch'.dev = Switch.dev
          /\ UNCHANGED peer /\ UNCHANGED toSwitch
      BY <1>12 DEF Switch, vars
    <2> HIDE DEF Switch
    <2>2. Typed(Switch)'
      BY <1>0, <2>1 DEF Typed
    <2> QED BY <1>1, <2>1, <2>2
  <1> QED
    BY <1>2, <1>4, <1>5, <1>6, <1>7, <1>8, <1>9, <1>10, <1>11, <1>12
    DEF Next, DeviceResume, DevicePauseExpires

\* Every counter of the MMU is a number of bytes: no subtraction of the
\* unsigned counters wraps.  Queues, flags, frames and timers keep their types,
\* and no timer exceeds its interval, for all values of the constants.
THEOREM TypeCorrect == Spec => []PfcTypeOK
  <1>1. TypeInv => PfcTypeOK
    <2> SUFFICES ASSUME TypeInv PROVE PfcTypeOK
      OBVIOUS
    <2>1. /\ IngressSums(ingress) /\ EgressSums(egress) /\ egress \in EgressSet
          /\ dev = [p \in Ports |-> dev[p]] /\ \A p \in Ports : Device(dev[p])
          /\ \A p \in Ports, c \in Classes : dev[p].bytes[c] = Bytes(dev[p].queue[c])
          /\ TypedPfc(pfc) /\ toPeer \in [Ports -> Seq(SentFrame)]
          /\ \A p \in Ports : TypedDevice(dev[p])
          /\ peer \in [Ports -> TypedSender] /\ toSwitch \in [Ports -> Seq(SentPacket)]
      BY TypedHere
      DEF TypeInv, AccountInv, CountInv, Counted, Accounted, Devices, EgressSums, Switch
    <2>2. ingress \in [total : Nat, sp : [Pools -> Nat], port : [Ports -> Nat],
                       pg : [Ports -> [Classes -> Nat]],
                       hdrm : [Ports -> [Classes -> Nat]]]
      <3>1. /\ ingress \in [total : Int, sp : [Pools -> Int], port : [Ports -> Int],
                            pg : Matrix, hdrm : Matrix]
            /\ Positive(ingress.pg) /\ Positive(ingress.hdrm)
            /\ \A q \in Ports : ingress.port[q] = SumOf(ingress.pg[q], Classes)
            /\ ingress.total = SumOf(ingress.port, Ports)
            /\ \A k \in Pools : ingress.sp[k] = OverPorts(ingress.pg, InPool(k))
        BY <2>1 DEF IngressSums
      <3>2. \A S \in SUBSET Classes :
              OverPorts(ingress.pg, S) \in Nat /\ \A q \in Ports : SumOf(ingress.pg[q], S) \in Nat
        <4> DEFINE m == ingress.pg
        <4>1. m \in Matrix /\ \A p \in Ports, c \in Classes : m[p][c] \in Nat
          BY <3>1 DEF Positive
        <4> HIDE DEF m
        <4>2. \A S \in SUBSET Classes : OverPorts(m, S) \in Nat
                                        /\ \A q \in Ports : SumOf(m[q], S) \in Nat
          BY <4>1, OverPortsBounds
        <4> QED BY <4>2 DEF m
      <3>3. \A q \in Ports : ingress.port[q] \in Nat
        <4>1. Classes \in SUBSET Classes
          OBVIOUS
        <4> QED BY <3>1, <3>2, <4>1
      <3>4. ingress.total \in Nat
        <4> DEFINE port == ingress.port
        <4>1. \A q \in Ports : port[q] \in Nat
          BY <3>3
        <4> HIDE DEF port
        <4>2. SumOf(port, Ports) \in Nat
          BY <4>1, FiniteMmu, SumBounds DEF SumOf
        <4> QED BY <3>1, <4>2 DEF port
      <3>5. \A k \in Pools : ingress.sp[k] \in Nat
        BY <3>1, <3>2, IngressPool
      <3> QED BY <3>1, <3>3, <3>4, <3>5 DEF Positive, Matrix
    <2>3. egress \in [qmin : [Ports -> [Classes -> 0..QMin]],
                      shared : [Ports -> [Classes -> Nat]],
                      port : [Ports -> Nat], sp : [Pools -> Nat]]
      <3>1. /\ egress \in [qmin : [Ports -> [Classes -> Int]],
                           shared : [Ports -> [Classes -> Int]],
                           port : [Ports -> Int], sp : [Pools -> Int]]
            /\ Positive(egress.qmin) /\ Positive(egress.shared)
            /\ \A p \in Ports : egress.port[p] = SumOf(Held(egress)[p], Classes)
            /\ \A k \in Pools : egress.sp[k] = OverPorts(egress.shared, InEgressPool(k))
        BY <2>1 DEF EgressSums, EgressSet
      <3>2. \A p \in Ports, c \in Classes : egress.qmin[p][c] \in 0..QMin
        <4>1. ASSUME NEW p \in Ports, NEW c \in Classes PROVE egress.qmin[p][c] <= QMin
          BY DEF TypeInv, AccountInv, CountInv, Counted, Split, Switch
        <4> QED BY <3>1, <4>1, MmuNumbers DEF Positive
      <3>3. \A p \in Ports : egress.port[p] \in Nat
        <4> DEFINE m == Held(egress)
        <4>1. m \in Matrix /\ \A p \in Ports, c \in Classes : m[p][c] \in Nat
          BY <3>1 DEF Held, Matrix, Positive
        <4>2. Classes \in SUBSET Classes
          OBVIOUS
        <4> HIDE DEF m
        <4>3. \A p \in Ports : SumOf(m[p], Classes) \in Nat
          BY <4>1, <4>2, OverPortsBounds
        <4> QED BY <3>1, <4>3 DEF m
      <3>4. \A k \in Pools : egress.sp[k] \in Nat
        <4> DEFINE m == egress.shared
        <4>1. m \in Matrix /\ \A p \in Ports, c \in Classes : m[p][c] \in Nat
          BY <3>1 DEF Positive
        <4>2. \A k : InEgressPool(k) \in SUBSET Classes
          BY DEF InEgressPool
        <4> HIDE DEF m
        <4>3. \A k \in Pools : OverPorts(m, InEgressPool(k)) \in Nat
          BY <4>1, <4>2, OverPortsBounds
        <4> QED BY <3>1, <4>3 DEF m
      <3> QED BY <3>1, <3>2, <3>3, <3>4 DEF Positive, Matrix
    <2>4. pfc \in [paused : [Ports -> [Classes -> BOOLEAN]],
                   remote : [Ports -> [Classes -> BOOLEAN]],
                   resumeIn : [Ports -> [Classes -> Timers(PauseTime)]]]
      BY <2>1, TimerRanges, Zenon DEF TypedPfc, FlagSet, TimerSet
    <2>5. ASSUME NEW p \in Ports
          PROVE  dev[p] \in
                   [queue : [Classes -> Seq([inDev : Ports, size : PktSizes])],
                    bytes : [Classes -> Nat],
                    ctrl : Seq([class : Classes, pause : BOOLEAN]),
                    rrlast : Classes \cup {0},
                    busy : Timers(TxTime),
                    paused : [Classes -> BOOLEAN],
                    resumeIn : [Classes -> Timers(PauseTime)]]
      <3> DEFINE d == dev[p]
      <3>1. Device(d) /\ TypedDevice(d)
        BY <2>1
      <3>2. /\ d = [queue |-> d.queue, bytes |-> d.bytes, ctrl |-> d.ctrl,
                    rrlast |-> d.rrlast, busy |-> d.busy, paused |-> d.paused,
                    resumeIn |-> d.resumeIn]
            /\ d.queue \in [Classes -> Seq(Pkt)] /\ d.bytes \in [Classes -> Int]
        BY <3>1 DEF Device
      <3>3. \A c \in Classes : d.bytes[c] \in Nat
        <4>1. ASSUME NEW c \in Classes PROVE Bytes(d.queue[c]) \in Nat
          <5> DEFINE q == d.queue[c]
          <5>1. q \in Seq(Pkt)
            BY <3>2
          <5> HIDE DEF q
          <5>2. Bytes(q) = Weight(Sizes, q) /\ Sizes \in [Pkt -> Nat]
            BY <5>1, BytesAreWeights
          <5>3. Weight(Sizes, q) \in Nat
            BY <5>1, <5>2, WeightLaws
          <5> QED BY <5>2, <5>3 DEF q
        <4> QED BY <2>1, <4>1
      <3>4. d.bytes \in [Classes -> Nat]
        BY <3>2, <3>3
      <3> HIDE DEF d
      <3>5. d \in [queue : [Classes -> Seq(Pkt)], bytes : [Classes -> Nat],
                   ctrl : Seq(Frame), rrlast : Classes \cup {0}, busy : Timers(TxTime),
                   paused : FlagSet, resumeIn : TimerSet]
        BY <3>1, <3>2, <3>4, Zenon DEF TypedDevice
      <3> QED BY <3>5, TimerRanges, Zenon DEF d, Pkt, Frame, FlagSet, TimerSet
    <2>6. dev \in [Ports -> [queue : [Classes -> Seq([inDev : Ports, size : PktSizes])],
                    bytes : [Classes -> Nat],
                    ctrl : Seq([class : Classes, pause : BOOLEAN]),
                    rrlast : Classes \cup {0},
                    busy : Timers(TxTime),
                    paused : [Classes -> BOOLEAN],
                    resumeIn : [Classes -> Timers(PauseTime)]]]
      BY <2>1, <2>5, Zenon
    <2>7. peer \in [Ports -> [paused : [Classes -> BOOLEAN],
                              resumeIn : [Classes -> Timers(PauseTime)],
                              busy : 0..PeerTxTime]]
      BY <2>1, TimerRanges, Zenon DEF TypedSender, FlagSet, TimerSet
    <2>8. /\ toPeer \in [Ports -> Seq([class : Classes, pause : BOOLEAN,
                                       left : Timers(Delay)])]
          /\ toSwitch \in [Ports -> Seq([out : Ports, class : Classes, size : PktSizes,
                                         left : Timers(PeerTxTime + Delay)])]
      BY <2>1, Zenon DEF SentFrame, SentPacket
    <2> QED BY <2>2, <2>3, <2>4, <2>6, <2>7, <2>8, Zenon DEF PfcTypeOK
  <1> QED BY <1>1, InitTyped, StepTyped, PTL DEF Spec
=============================================================================

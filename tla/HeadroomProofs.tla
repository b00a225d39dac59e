--------------------------- MODULE HeadroomProofs ---------------------------
(***************************************************************************)
(* No arriving packet finds the headroom of its class used up, for every   *)
(* set of ports, classes, routes, packet sizes, thresholds and timers, if  *)
(* the headroom is what HeadroomAssumption demands and no pause runs out   *)
(* while its class still uses headroom.                                    *)
(*                                                                         *)
(* When a class starts to use headroom a PAUSE is sent.  From then on      *)
(* there is an instant by which its sender stops, a horizon behind which   *)
(* no packet of the class arrives, and the packets the sender can place    *)
(* before the horizon, one per PeerTxTime, fit into the headroom that is   *)
(* left.  The invariant says that such a horizon exists for every class    *)
(* that uses headroom.                                                     *)
(***************************************************************************)
EXTENDS PfcTimingProofs

-----------------------------------------------------------------------------
(* Numbers.                                                                *)

LEMMA TimesNumbers ==
    /\ MTU \in Nat /\ MTU > 0 /\ PeerTxTime \in Nat /\ PeerTxTime > 0
    /\ Delay \in Nat /\ TxTime \in Nat
    /\ \A p \in Ports : /\ PauseWait(p) \in Nat /\ PauseWait(p) <= TxTime
                        /\ HdrmLimit[p] \in Nat
    /\ \A size \in PktSizes : size \in Nat /\ 0 < size /\ size <= MTU
  <1>1. \A p \in Ports : HdrmLimit[p] \in Nat
    BY MmuAssumption DEF Ports
  <1> QED BY <1>1, MmuAssumption, PfcAssumption DEF PauseWait

\* A product grows with its factors, and distributes over a sum.
LEMMA Products ==
    ASSUME NEW k \in Nat, NEW m \in Int, NEW n \in Int
    PROVE  /\ k * m \in Int /\ k * (m + n) = k * m + k * n
           /\ k * (m - n) = k * m - k * n
           /\ m <= n => k * m <= k * n
           /\ k > 0 /\ k * m <= k * n => m <= n
  OBVIOUS

\* What is left of the headroom pays for one packet per PeerTxTime from the
\* next arrival a to the horizon h.
Budget(bytes, p, h, a) ==
    a <= h => PeerTxTime * bytes + MTU * (h - a + PeerTxTime) <= PeerTxTime * HdrmLimit[p]

\* The budget survives the release of bytes and an arrival that comes later.
LEMMA BudgetKept ==
    ASSUME NEW p \in Ports, NEW bytes \in Int, NEW fewer \in Int, fewer <= bytes,
           NEW h \in Int, NEW a \in Int, NEW g \in Int, NEW b \in Int,
           g - b <= h - a, Budget(bytes, p, h, a)
    PROVE  Budget(fewer, p, g, b)
  <1> SUFFICES ASSUME b <= g
               PROVE  PeerTxTime * fewer + MTU * (g - b + PeerTxTime)
                        <= PeerTxTime * HdrmLimit[p]
    BY DEF Budget
  <1>1. /\ MTU \in Nat /\ PeerTxTime \in Nat /\ HdrmLimit[p] \in Nat
    BY TimesNumbers
  <1>2. a <= h
    OBVIOUS
  <1>3. PeerTxTime * bytes + MTU * (h - a + PeerTxTime) <= PeerTxTime * HdrmLimit[p]
    BY <1>2 DEF Budget
  <1>4. PeerTxTime * fewer <= PeerTxTime * bytes /\ PeerTxTime * fewer \in Int
        /\ PeerTxTime * bytes \in Int
    BY <1>1, Products
  <1> DEFINE was == h - a + PeerTxTime
             is == g - b + PeerTxTime
  <1>5. was \in Int /\ is \in Int /\ is <= was
    BY <1>1
  <1> HIDE DEF was, is
  <1>6. MTU * is <= MTU * was /\ MTU * is \in Int /\ MTU * was \in Int
    BY <1>1, <1>5, Products
  <1>7. PeerTxTime * HdrmLimit[p] \in Int
    BY <1>1
  <1>8. PeerTxTime * bytes + MTU * was <= PeerTxTime * HdrmLimit[p]
    BY <1>3 DEF was
  <1>9. PeerTxTime * fewer + MTU * is <= PeerTxTime * HdrmLimit[p]
    <2> DEFINE x == PeerTxTime * fewer
               y == PeerTxTime * bytes
               u == MTU * is
               v == MTU * was
               w == PeerTxTime * HdrmLimit[p]
    <2>1. x \in Int /\ y \in Int /\ u \in Int /\ v \in Int /\ w \in Int
          /\ x <= y /\ u <= v /\ y + v <= w
      BY <1>4, <1>6, <1>7, <1>8
    <2> HIDE DEF x, y, u, v, w
    <2>2. x + u <= w
      BY <2>1
    <2> QED BY <2>2 DEF x, u, w
  <1> QED BY <1>9 DEF is

\* A packet that arrives now is within the budget, and so are those that
\* follow it, at least PeerTxTime later.
LEMMA BudgetSpent ==
    ASSUME NEW p \in Ports, NEW bytes \in Int, NEW size \in PktSizes,
           NEW h \in Int, 0 <= h, Budget(bytes, p, h, 0), NEW b \in Int, PeerTxTime <= b
    PROVE  bytes + size <= HdrmLimit[p] /\ Budget(bytes + size, p, h, b)
  <1>1. /\ MTU \in Nat /\ PeerTxTime \in Nat /\ PeerTxTime > 0 /\ HdrmLimit[p] \in Nat
        /\ size \in Nat /\ size <= MTU
    BY TimesNumbers
  <1>2. PeerTxTime * bytes + MTU * (h - 0 + PeerTxTime) <= PeerTxTime * HdrmLimit[p]
    BY DEF Budget
  <1> DEFINE x == PeerTxTime * bytes
             y == PeerTxTime * size
             u == MTU * h
             v == MTU * PeerTxTime
             w == PeerTxTime * HdrmLimit[p]
             rest == h - b + PeerTxTime
             z == MTU * rest
  <1>3. /\ x \in Int /\ y \in Int /\ u \in Int /\ v \in Int /\ w \in Int
        /\ y <= v /\ 0 <= u
    <2>1. /\ PeerTxTime * size <= PeerTxTime * MTU
          /\ PeerTxTime * MTU = MTU * PeerTxTime
      BY <1>1, Products
    <2>2. MTU * 0 <= MTU * h /\ MTU * 0 = 0
      BY <1>1, Products
    <2> QED BY <1>1, <2>1, <2>2
  <1>4. x + (u + v) <= w
    <2>1. h - 0 + PeerTxTime = h + PeerTxTime
      BY <1>1
    <2>2. MTU * (h + PeerTxTime) = u + v
      BY <1>1, Products
    <2> QED BY <1>2, <2>1, <2>2
  <1>5. PeerTxTime * (bytes + size) = x + y
    BY <1>1, Products
  <1>6. z <= u /\ z \in Int
    <2>1. rest \in Int /\ rest <= h
      BY <1>1
    <2> HIDE DEF rest
    <2> QED BY <1>1, <2>1, Products
  <1> HIDE DEF x, y, u, v, w, z
  <1>7. x + y <= w /\ (x + y) + z <= w
    BY <1>3, <1>4, <1>6
  <1>8. bytes + size <= HdrmLimit[p]
    <2>1. PeerTxTime * (bytes + size) <= PeerTxTime * HdrmLimit[p]
      BY <1>5, <1>7 DEF w
    <2>2. bytes + size \in Int
      BY <1>1
    <2> QED BY <1>1, <2>1, <2>2, Products
  <1>9. Budget(bytes + size, p, h, b)
    <2>1. PeerTxTime * (bytes + size) + MTU * (h - b + PeerTxTime)
            <= PeerTxTime * HdrmLimit[p]
      BY <1>5, <1>7 DEF w, z
    <2> QED BY <2>1 DEF Budget
  <1> QED BY <1>8, <1>9

\* The horizon of a PAUSE sent now.
FirstHorizon(p) == PauseWait(p) + Delay + PeerTxTime + Delay

\* Three packets are within the headroom, and leave the budget that the
\* PAUSE needs.
LEMMA BudgetOpened ==
    ASSUME HeadroomAssumption, NEW p \in Ports, Receives(p), NEW bytes \in Int,
           bytes <= 3 * MTU
    PROVE  /\ bytes <= HdrmLimit[p] /\ FirstHorizon(p) \in Int
           /\ \A b \in Int : PeerTxTime <= b => Budget(bytes, p, FirstHorizon(p), b)
  <1>1. /\ MTU \in Nat /\ PeerTxTime \in Nat /\ PeerTxTime > 0 /\ HdrmLimit[p] \in Nat
        /\ Delay \in Nat /\ PauseWait(p) \in Nat
    BY TimesNumbers
  <1>2. MTU * (PauseWait(p) + 2 * Delay + 4 * PeerTxTime) <= PeerTxTime * HdrmLimit[p]
    BY DEF HeadroomAssumption
  <1> DEFINE h == FirstHorizon(p)
             u == MTU * h
             v == MTU * PeerTxTime
             w == PeerTxTime * HdrmLimit[p]
             x == PeerTxTime * bytes
  <1>3. h \in Int /\ PeerTxTime <= h
        /\ PauseWait(p) + 2 * Delay + 4 * PeerTxTime = h + 3 * PeerTxTime
    BY <1>1 DEF FirstHorizon
  <1> HIDE DEF h
  <1>4. u + 3 * v <= w /\ u \in Int /\ v \in Int /\ w \in Int /\ x \in Int /\ v <= u /\ 0 <= v
    <2>1. MTU * (h + 3 * PeerTxTime) = MTU * h + MTU * (3 * PeerTxTime)
      BY <1>1, <1>3, Products
    <2>2. MTU * (3 * PeerTxTime) = 3 * (MTU * PeerTxTime)
      BY <1>1
    <2>3. MTU * PeerTxTime <= MTU * h
      BY <1>1, <1>3, Products
    <2>4. MTU * 0 <= MTU * PeerTxTime /\ MTU * 0 = 0
      BY <1>1, Products
    <2> QED BY <1>1, <1>2, <1>3, <2>1, <2>2, <2>3, <2>4
  <1>5. x <= 3 * v
    <2>1. 3 * MTU \in Int
      BY <1>1
    <2>2. PeerTxTime * bytes <= PeerTxTime * (3 * MTU)
      BY <1>1, <2>1, Products
    <2>3. PeerTxTime * (3 * MTU) = 3 * (MTU * PeerTxTime)
      BY <1>1
    <2> QED BY <2>2, <2>3
  <1>6. bytes <= HdrmLimit[p]
    <2>1. PeerTxTime * bytes <= PeerTxTime * HdrmLimit[p]
      <3> HIDE DEF u, v
      <3>1. x <= w
        BY <1>4, <1>5
      <3> QED BY <3>1
    <2> QED BY <1>1, <2>1, Products
  <1>7. ASSUME NEW b \in Int, PeerTxTime <= b PROVE Budget(bytes, p, h, b)
    <2> DEFINE rest == h - b + PeerTxTime
               z == MTU * rest
    <2>1. rest \in Int /\ rest <= h
      BY <1>1, <1>3, <1>7
    <2> HIDE DEF rest
    <2>2. z <= u /\ z \in Int
      BY <1>1, <1>3, <2>1, Products
    <2> HIDE DEF z, u, v, w, x
    <2>3. x + z <= w
      BY <1>4, <1>5, <2>2
    <2> QED BY <2>3 DEF Budget, rest, x, z, w
  <1> QED BY <1>3, <1>6, <1>7 DEF h

-----------------------------------------------------------------------------
(* The PAUSE that stops a sender.                                          *)

\* From its k-th entry on, every frame of class c says PAUSE.
PausesFrom(seq, k, c) ==
    \A j \in DOMAIN seq : k <= j /\ seq[j].class = c => seq[j].pause = TRUE

StopOnWire(wire, ctrl, c, t) ==
    /\ \E i \in DOMAIN wire : /\ wire[i].class = c /\ wire[i].left - 1 <= t
                              /\ PausesFrom(wire, i, c)
    /\ PausesFrom(ctrl, 1, c)

\* The control queue is served as soon as the device is ready.
StopQueued(ctrl, busy, c, t) ==
    /\ \E i \in DOMAIN ctrl : ctrl[i].class = c /\ PausesFrom(ctrl, i, c)
    /\ Delay <= t /\ busy - 1 + Delay <= t

Stopped(paused, wire, ctrl, c) ==
    paused = TRUE /\ PausesFrom(wire, 1, c) /\ PausesFrom(ctrl, 1, c)

\* Within t ticks the sender stops class c, and no RESUME is under way that
\* would let it go on.
Stopping(paused, wire, ctrl, busy, c, t) ==
    \/ StopOnWire(wire, ctrl, c, t)
    \/ StopQueued(ctrl, busy, c, t)
    \/ Stopped(paused, wire, ctrl, c)

\* Frames that do not resume the class are queued.
LEMMA StoppingQueued ==
    ASSUME NEW ctrl \in Seq(Frame), NEW frames \in Seq(Frame), NEW c,
           PausesFrom(frames, 1, c), NEW paused, NEW wire, NEW busy, NEW t,
           Stopping(paused, wire, ctrl, busy, c, t)
    PROVE  Stopping(paused, wire, ctrl \o frames, busy, c, t)
  <1> DEFINE new == ctrl \o frames
  <1>1. /\ \A i \in DOMAIN ctrl : i \in DOMAIN new /\ new[i] = ctrl[i]
        /\ \A i \in DOMAIN new : i \in DOMAIN ctrl \/ \E j \in DOMAIN frames : i = Len(ctrl) + j
        /\ \A j \in DOMAIN frames : new[Len(ctrl) + j] = frames[j]
    BY Joined
  <1>2. \A j \in DOMAIN frames : 1 <= j
    BY LenProperties
  <1> HIDE DEF new
  <1>3. ASSUME NEW k, PausesFrom(ctrl, k, c) PROVE PausesFrom(new, k, c)
    <2> SUFFICES ASSUME NEW i \in DOMAIN new, k <= i, new[i].class = c
                 PROVE  new[i].pause = TRUE
      BY DEF PausesFrom
    <2>1. CASE i \in DOMAIN ctrl
      BY <1>1, <1>3, <2>1 DEF PausesFrom
    <2>2. CASE \E j \in DOMAIN frames : i = Len(ctrl) + j
      BY <1>1, <1>2, <2>2 DEF PausesFrom
    <2> QED BY <1>1, <2>1, <2>2
  <1>4. CASE StopOnWire(wire, ctrl, c, t)
    BY <1>3, <1>4 DEF StopOnWire, Stopping, new
  <1>5. CASE StopQueued(ctrl, busy, c, t)
    <2>1. PICK i \in DOMAIN ctrl : ctrl[i].class = c /\ PausesFrom(ctrl, i, c)
      BY <1>5 DEF StopQueued
    <2>2. i \in DOMAIN new /\ new[i].class = c /\ PausesFrom(new, i, c)
      BY <1>1, <1>3, <2>1
    <2> QED BY <1>5, <2>2 DEF StopQueued, Stopping, new
  <1>6. CASE Stopped(paused, wire, ctrl, c)
    BY <1>3, <1>6 DEF Stopped, Stopping, new
  <1> QED BY <1>4, <1>5, <1>6 DEF Stopping

\* Frames with a PAUSE of the class, and no RESUME of it, are queued.
LEMMA StopIsQueued ==
    ASSUME NEW ctrl \in Seq(Frame), NEW frames \in Seq(Frame), NEW c,
           Has(frames, c), PausesFrom(frames, 1, c), NEW busy, NEW t,
           Delay <= t, busy - 1 + Delay <= t
    PROVE  StopQueued(ctrl \o frames, busy, c, t)
  <1> DEFINE new == ctrl \o frames
  <1>1. PICK k \in DOMAIN frames : frames[k].class = c
    BY DEF Has
  <1> DEFINE i == Len(ctrl) + k
  <1>2. i \in DOMAIN new /\ new[i] = frames[k]
    BY Joined
  <1>3. ASSUME NEW j \in DOMAIN new, i <= j, new[j].class = c PROVE new[j].pause = TRUE
    <2>1. j \notin DOMAIN ctrl
      <3>1. DOMAIN ctrl = 1..Len(ctrl) /\ Len(ctrl) \in Nat /\ k \in Nat /\ 1 <= k
        BY LenProperties
      <3> QED BY <1>3, <3>1
    <2>2. PICK m \in DOMAIN frames : j = Len(ctrl) + m
      BY <2>1, Joined
    <2>3. new[j] = frames[m] /\ 1 <= m
      BY <2>2, Joined, LenProperties
    <2> QED BY <1>3, <2>3 DEF PausesFrom
  <1> HIDE DEF new, i
  <1>4. PausesFrom(new, i, c)
    BY <1>3 DEF PausesFrom
  <1> QED BY <1>1, <1>2, <1>4 DEF StopQueued, new

\* The first frame leaves the control queue for the wire.
LEMMA StoppingSent ==
    ASSUME NEW ctrl \in Seq(Frame), ctrl # <<>>, NEW wire \in Seq(SentFrame), NEW sent,
           sent \in SentFrame, sent.class = Head(ctrl).class,
           sent.pause = Head(ctrl).pause, sent.left = After(Delay),
           NEW c, NEW paused, NEW busy, NEW t \in Int,
           Stopping(paused, wire, ctrl, busy, c, t)
    PROVE  Stopping(paused, Append(wire, sent), Tail(ctrl), After(0), c, t)
  <1> DEFINE new == Append(wire, sent)
             rest == Tail(ctrl)
             last == Len(wire) + 1
  <1>1. /\ Head(ctrl) = ctrl[1] /\ 1 \in DOMAIN ctrl
        /\ \A i \in DOMAIN rest : i + 1 \in DOMAIN ctrl /\ rest[i] = ctrl[i + 1] /\ 1 < i + 1
        /\ \A i \in DOMAIN ctrl : i # 1 => i - 1 \in DOMAIN rest /\ ctrl[i] = rest[i - 1]
        /\ DOMAIN ctrl \subseteq Nat /\ rest \in Seq(Frame)
    BY Shifted
  <1>2. /\ \A i \in DOMAIN wire : i \in DOMAIN new /\ new[i] = wire[i] /\ i < last
        /\ last \in DOMAIN new /\ new[last] = sent /\ last \in Nat /\ 1 <= last
        /\ \A i \in DOMAIN new : i \in DOMAIN wire \/ i = last
    <2>1. /\ Len(wire) \in Nat /\ DOMAIN wire = 1..Len(wire)
          /\ DOMAIN new = 1..(Len(wire) + 1) /\ new[Len(wire) + 1] = sent
          /\ \A i \in 1..Len(wire) : new[i] = wire[i]
      BY AppendProperties, LenProperties
    <2> HIDE DEF new
    <2> QED BY <2>1
  <1>3. DOMAIN rest \subseteq Nat /\ \A i \in DOMAIN rest : 1 <= i
    <2>1. DOMAIN rest = 1..Len(rest) /\ Len(rest) \in Nat
      BY <1>1, LenProperties
    <2> HIDE DEF rest
    <2> QED BY <2>1
  <1> HIDE DEF new, rest, last
  <1>4. ASSUME PausesFrom(ctrl, 1, c)
        PROVE  /\ PausesFrom(rest, 1, c)
               /\ sent.class = c => sent.pause = TRUE
               /\ \A k : PausesFrom(wire, k, c) => PausesFrom(new, k, c)
    <2>1. PausesFrom(rest, 1, c)
      BY <1>1, <1>3, <1>4 DEF PausesFrom
    <2>2. sent.class = c => sent.pause = TRUE
      BY <1>1, <1>4 DEF PausesFrom
    <2> QED BY <1>2, <2>1, <2>2 DEF PausesFrom
  <1>5. CASE StopOnWire(wire, ctrl, c, t)
    <2>1. PICK i \in DOMAIN wire :
            wire[i].class = c /\ wire[i].left - 1 <= t /\ PausesFrom(wire, i, c)
      BY <1>5 DEF StopOnWire
    <2>2. PausesFrom(rest, 1, c) /\ PausesFrom(new, i, c)
      BY <1>4, <1>5, <2>1 DEF StopOnWire
    <2>3. StopOnWire(new, rest, c, t)
      BY <1>2, <2>1, <2>2 DEF StopOnWire
    <2> QED BY <2>3 DEF Stopping, new, rest
  <1>6. CASE StopQueued(ctrl, busy, c, t)
    <2>1. PICK i \in DOMAIN ctrl : ctrl[i].class = c /\ PausesFrom(ctrl, i, c)
      BY <1>6 DEF StopQueued
    <2>2. Delay <= t /\ Delay \in Nat
      BY <1>6, TimesNumbers DEF StopQueued
    <2>3. CASE i = 1
      <3>1. PausesFrom(ctrl, 1, c) /\ sent.class = c /\ sent.pause = TRUE
        BY <1>1, <2>1, <2>3 DEF PausesFrom
      <3>2. PausesFrom(new, last, c)
        <4> SUFFICES ASSUME NEW j \in DOMAIN new, last <= j PROVE new[j].pause = TRUE
          BY DEF PausesFrom
        <4>1. j \notin DOMAIN wire
          <5>1. \A m \in DOMAIN wire : m \in Nat
            BY LenProperties
          <5> QED BY <1>2, <5>1
        <4> QED BY <1>2, <3>1, <4>1
      <3>3. new[last].left - 1 <= t
        BY <1>2, <2>2 DEF After
      <3>4. StopOnWire(new, rest, c, t)
        BY <1>2, <1>4, <3>1, <3>2, <3>3 DEF StopOnWire
      <3> QED BY <3>4 DEF Stopping, new, rest
    <2>4. CASE i # 1
      <3>1. i - 1 \in DOMAIN rest /\ rest[i - 1].class = c
        BY <1>1, <2>1, <2>4
      <3>2. PausesFrom(rest, i - 1, c)
        <4> SUFFICES ASSUME NEW j \in DOMAIN rest, i - 1 <= j, rest[j].class = c
                     PROVE  rest[j].pause = TRUE
          BY DEF PausesFrom
        <4>1. i <= j + 1
          BY <1>1, <1>3, <2>1
        <4> QED BY <1>1, <2>1, <4>1 DEF PausesFrom
      <3>3. After(0) - 1 + Delay <= t
        BY <2>2 DEF After
      <3>4. StopQueued(rest, After(0), c, t)
        BY <2>2, <3>1, <3>2, <3>3 DEF StopQueued
      <3> QED BY <3>4 DEF Stopping, rest
    <2> QED BY <2>3, <2>4
  <1>7. CASE Stopped(paused, wire, ctrl, c)
    <2>1. Stopped(paused, new, rest, c)
      BY <1>4, <1>7 DEF Stopped
    <2> QED BY <2>1 DEF Stopping, new, rest
  <1> QED BY <1>5, <1>6, <1>7 DEF Stopping

\* The sender receives the first frame on the wire.
LEMMA StoppingReceived ==
    ASSUME NEW wire \in Seq(SentFrame), wire # <<>>, NEW c, NEW paused, NEW now,
           Head(wire).class = c => now = Head(wire).pause,
           Head(wire).class # c => now = paused,
           NEW ctrl, NEW busy, NEW t, Stopping(paused, wire, ctrl, busy, c, t)
    PROVE  Stopping(now, Tail(wire), ctrl, busy, c, t)
  <1> DEFINE rest == Tail(wire)
  <1>1. /\ Head(wire) = wire[1] /\ 1 \in DOMAIN wire
        /\ \A i \in DOMAIN rest : i + 1 \in DOMAIN wire /\ rest[i] = wire[i + 1] /\ 1 < i + 1
        /\ \A i \in DOMAIN wire : i # 1 => i - 1 \in DOMAIN rest /\ wire[i] = rest[i - 1]
        /\ DOMAIN wire \subseteq Nat /\ rest \in Seq(SentFrame)
    BY Shifted
  <1>2. DOMAIN rest \subseteq Nat
    BY <1>1, LenProperties
  <1> HIDE DEF rest
  <1>3. ASSUME PausesFrom(wire, 1, c)
        PROVE  /\ PausesFrom(rest, 1, c)
               /\ Head(wire).class = c => now = TRUE
    BY <1>1, <1>2, <1>3 DEF PausesFrom
  <1>4. CASE StopOnWire(wire, ctrl, c, t)
    <2>1. PICK i \in DOMAIN wire :
            wire[i].class = c /\ wire[i].left - 1 <= t /\ PausesFrom(wire, i, c)
      BY <1>4 DEF StopOnWire
    <2>2. CASE i = 1
      <3>1. Stopped(now, rest, ctrl, c)
        BY <1>1, <1>3, <1>4, <2>1, <2>2 DEF Stopped, StopOnWire
      <3> QED BY <3>1 DEF Stopping, rest
    <2>3. CASE i # 1
      <3>1. i - 1 \in DOMAIN rest /\ rest[i - 1] = wire[i]
        BY <1>1, <2>3
      <3>2. PausesFrom(rest, i - 1, c)
        <4> SUFFICES ASSUME NEW j \in DOMAIN rest, i - 1 <= j, rest[j].class = c
                     PROVE  rest[j].pause = TRUE
          BY DEF PausesFrom
        <4>1. i <= j + 1
          BY <1>1, <1>2
        <4> QED BY <1>1, <2>1, <4>1 DEF PausesFrom
      <3>3. StopOnWire(rest, ctrl, c, t)
        BY <1>4, <2>1, <3>1, <3>2 DEF StopOnWire
      <3> QED BY <3>3 DEF Stopping, rest
    <2> QED BY <2>2, <2>3
  <1>5. CASE StopQueued(ctrl, busy, c, t)
    BY <1>5 DEF Stopping
  <1>6. CASE Stopped(paused, wire, ctrl, c)
    <2>1. Stopped(now, rest, ctrl, c)
      BY <1>3, <1>6 DEF Stopped
    <2> QED BY <2>1 DEF Stopping, rest
  <1> QED BY <1>4, <1>5, <1>6 DEF Stopping

\* The entries of a wire a tick later.
LEMMA EarlierFrames ==
    ASSUME NEW wire \in Seq(SentFrame)
    PROVE  /\ DOMAIN EarlierWire(wire) = DOMAIN wire
           /\ \A i \in DOMAIN wire :
                /\ EarlierWire(wire)[i].class = wire[i].class
                /\ EarlierWire(wire)[i].pause = wire[i].pause
                /\ EarlierWire(wire)[i].left = Earlier(wire[i].left)
                /\ wire[i].left \in Nat
  <1> DEFINE new == EarlierWire(wire)
  <1>1. /\ DOMAIN wire = 1..Len(wire) /\ \A i \in DOMAIN wire : wire[i] \in SentFrame
        /\ new = [i \in 1..Len(wire) |-> [wire[i] EXCEPT !.left = Earlier(@)]]
    BY LenProperties DEF EarlierWire
  <1> HIDE DEF new
  <1>2. ASSUME NEW i \in DOMAIN wire
        PROVE  /\ new[i].class = wire[i].class /\ new[i].pause = wire[i].pause
               /\ new[i].left = Earlier(wire[i].left) /\ wire[i].left \in Nat
    <2> DEFINE f == wire[i]
    <2>1. f \in SentFrame /\ new[i] = [f EXCEPT !.left = Earlier(@)]
      BY <1>1
    <2> HIDE DEF f
    <2>2. /\ new[i].class = f.class /\ new[i].pause = f.pause
          /\ new[i].left = Earlier(f.left) /\ f.left \in Nat
      BY <2>1, PfcAssumption DEF SentFrame, Timers, After
    <2> QED BY <2>2 DEF f
  <1> QED BY <1>1, <1>2 DEF new

\* The clock advances while nothing is due.
LEMMA StoppingTicks ==
    ASSUME NEW wire \in Seq(SentFrame), \A i \in DOMAIN wire : 2 <= wire[i].left,
           NEW ctrl, NEW busy \in Nat, busy # 1, ctrl # <<>> => busy # 0,
           NEW c, NEW paused, NEW t \in Int, Stopping(paused, wire, ctrl, busy, c, t)
    PROVE  Stopping(paused, EarlierWire(wire), ctrl, Earlier(busy), c, t - 1)
  <1> DEFINE new == EarlierWire(wire)
  <1>1. /\ DOMAIN new = DOMAIN wire
        /\ \A i \in DOMAIN wire : /\ new[i].class = wire[i].class
                                  /\ new[i].pause = wire[i].pause
                                  /\ new[i].left = Earlier(wire[i].left)
                                  /\ wire[i].left \in Nat
    BY EarlierFrames
  <1> HIDE DEF new
  <1>2. \A i \in DOMAIN wire : new[i].left = wire[i].left - 1
    BY <1>1 DEF Earlier
  <1>3. \A k : PausesFrom(wire, k, c) => PausesFrom(new, k, c)
    BY <1>1 DEF PausesFrom
  <1>4. CASE StopOnWire(wire, ctrl, c, t)
    <2>1. PICK i \in DOMAIN wire :
            wire[i].class = c /\ wire[i].left - 1 <= t /\ PausesFrom(wire, i, c)
      BY <1>4 DEF StopOnWire
    <2>2. new[i].left - 1 <= t - 1
      BY <1>1, <1>2, <2>1
    <2>3. StopOnWire(new, ctrl, c, t - 1)
      BY <1>1, <1>3, <1>4, <2>1, <2>2 DEF StopOnWire
    <2> QED BY <2>3 DEF Stopping, new
  <1>5. CASE StopQueued(ctrl, busy, c, t)
    <2>1. PICK i \in DOMAIN ctrl : ctrl[i].class = c /\ PausesFrom(ctrl, i, c)
      BY <1>5 DEF StopQueued
    <2>2. ctrl # <<>>
      BY <2>1
    <2>3. Earlier(busy) = busy - 1 /\ 2 <= busy /\ Delay \in Nat
      BY <2>2, TimesNumbers DEF Earlier
    <2>4. Delay <= t - 1 /\ Earlier(busy) - 1 + Delay <= t - 1
      BY <1>5, <2>3 DEF StopQueued
    <2>5. StopQueued(ctrl, Earlier(busy), c, t - 1)
      BY <2>1, <2>4 DEF StopQueued
    <2> QED BY <2>5 DEF Stopping
  <1>6. CASE Stopped(paused, wire, ctrl, c)
    <2>1. Stopped(paused, new, ctrl, c)
      BY <1>3, <1>6 DEF Stopped
    <2> QED BY <2>1 DEF Stopping, new
  <1> QED BY <1>4, <1>5, <1>6 DEF Stopping

\* The device gets ready, or starts a packet while no frame waits.
LEMMA StoppingTransmits ==
    ASSUME NEW ctrl, NEW busy \in Int, NEW next \in Int, next <= busy \/ ctrl = <<>>,
           NEW wire, NEW c, NEW paused, NEW t \in Int,
           Stopping(paused, wire, ctrl, busy, c, t)
    PROVE  Stopping(paused, wire, ctrl, next, c, t)
  <1>1. CASE StopQueued(ctrl, busy, c, t)
    <2>1. ctrl # <<>> /\ Delay \in Nat
      BY <1>1, TimesNumbers DEF StopQueued
    <2>2. next - 1 + Delay <= t
      BY <1>1, <2>1 DEF StopQueued
    <2> QED BY <1>1, <2>2 DEF StopQueued, Stopping
  <1> QED BY <1>1 DEF Stopping

\* A sender that may transmit has not stopped yet.
LEMMA StoppingLater ==
    ASSUME NEW wire, \A i \in DOMAIN wire : wire[i].left \in Nat /\ 1 <= wire[i].left,
           NEW ctrl, NEW busy, NEW c, NEW t \in Int, NEW paused, paused # TRUE,
           Stopping(paused, wire, ctrl, busy, c, t)
    PROVE  0 <= t
  <1>1. CASE StopOnWire(wire, ctrl, c, t)
    BY <1>1 DEF StopOnWire
  <1>2. CASE StopQueued(ctrl, busy, c, t)
    BY <1>2, TimesNumbers DEF StopQueued
  <1>3. ~Stopped(paused, wire, ctrl, c)
    BY DEF Stopped
  <1> QED BY <1>1, <1>2, <1>3 DEF Stopping

-----------------------------------------------------------------------------
(* Wires and devices.                                                      *)

\* Frames arrive in the order they were sent.
Ordered(wire) ==
    /\ \A i \in DOMAIN wire : 1 <= wire[i].left
    /\ \A i, j \in DOMAIN wire : i < j => wire[i].left <= wire[j].left

\* No longer than a PAUSE has to wait does the device transmit, and data only
\* where a route leads.
Line(d, wire, p) ==
    /\ d.busy <= After(PauseWait(p))
    /\ \A c \in Classes : d.queue[c] # <<>> => Transmits(p)
    /\ Ordered(wire)

\* A device that is idle has no frame to send, but for those of the set.
Lines(s, idle) ==
    \A q \in Ports :
      /\ Line(s.dev[q], s.toPeer[q], q)
      /\ q \notin idle /\ s.dev[q].busy = 0 => s.dev[q].ctrl = <<>>

LEMMA OrderedWires ==
    ASSUME NEW wire \in Seq(SentFrame), Ordered(wire)
    PROVE  /\ wire # <<>> => Ordered(Tail(wire))
           /\ \A sent \in SentFrame :
                sent.left = After(Delay) => Ordered(Append(wire, sent))
           /\ ~FirstDue(wire) => /\ \A i \in DOMAIN wire : 2 <= wire[i].left
                                 /\ Ordered(EarlierWire(wire))
  <1>1. \A i \in DOMAIN wire : /\ wire[i].left \in Nat /\ wire[i].left <= After(Delay)
                               /\ 1 <= wire[i].left
    <2>1. \A f \in SentFrame : f.left \in Nat /\ f.left <= After(Delay)
      BY PfcAssumption DEF SentFrame, Timers, After
    <2> QED BY <2>1 DEF Ordered
  <1>2. ASSUME wire # <<>> PROVE Ordered(Tail(wire))
    <2> DEFINE rest == Tail(wire)
    <2>1. /\ \A i \in DOMAIN rest : i + 1 \in DOMAIN wire /\ rest[i] = wire[i + 1]
          /\ \A i, j \in DOMAIN rest : i < j <=> i + 1 < j + 1
      BY <1>2, Shifted
    <2> HIDE DEF rest
    <2>2. Ordered(rest)
      BY <2>1 DEF Ordered
    <2> QED BY <2>2 DEF rest
  <1>3. ASSUME NEW sent \in SentFrame, sent.left = After(Delay)
        PROVE  Ordered(Append(wire, sent))
    <2> DEFINE new == Append(wire, sent)
    <2>1. /\ Len(wire) \in Nat /\ DOMAIN wire = 1..Len(wire)
          /\ DOMAIN new = 1..(Len(wire) + 1) /\ new[Len(wire) + 1] = sent
          /\ \A i \in 1..Len(wire) : new[i] = wire[i]
      BY AppendProperties, LenProperties
    <2> HIDE DEF new
    <2>2. 1 <= After(Delay) /\ After(Delay) \in Nat
      BY TimesNumbers DEF After
    <2>3. \A i \in DOMAIN new : 1 <= new[i].left
      BY <1>1, <1>3, <2>1, <2>2
    <2>4. ASSUME NEW i \in DOMAIN new, NEW j \in DOMAIN new, i < j
          PROVE  new[i].left <= new[j].left
      <3>1. i \in DOMAIN wire /\ new[i] = wire[i]
        BY <2>1, <2>4
      <3>2. CASE j \in DOMAIN wire
        BY <2>1, <2>4, <3>1, <3>2 DEF Ordered
      <3>3. CASE j \notin DOMAIN wire
        <4>1. new[j] = sent
          BY <2>1, <3>3
        <4> QED BY <1>1, <1>3, <3>1, <4>1
      <3> QED BY <3>2, <3>3
    <2>5. Ordered(new)
      BY <2>3, <2>4 DEF Ordered
    <2> QED BY <2>5 DEF new
  <1>4. ASSUME ~FirstDue(wire)
        PROVE  (\A i \in DOMAIN wire : 2 <= wire[i].left) /\ Ordered(EarlierWire(wire))
    <2> DEFINE new == EarlierWire(wire)
    <2>1. ASSUME NEW i \in DOMAIN wire PROVE 2 <= wire[i].left
      <3>1. wire # <<>> /\ DOMAIN wire = 1..Len(wire) /\ Len(wire) \in Nat
        BY LenProperties
      <3>2. 1 \in DOMAIN wire /\ Head(wire) = wire[1]
        BY <3>1, Shifted
      <3>3. wire[1].left # 1
        BY <1>4, <3>1, <3>2 DEF FirstDue, Due
      <3>4. i = 1 \/ 1 < i
        BY <3>1
      <3>5. wire[1].left <= wire[i].left
        BY <1>1, <3>2, <3>4 DEF Ordered
      <3> QED BY <1>1, <3>2, <3>3, <3>5
    <2>2. DOMAIN new = DOMAIN wire /\ \A i \in DOMAIN wire : new[i].left = Earlier(wire[i].left)
      BY EarlierFrames
    <2>3. \A i \in DOMAIN wire : new[i].left = wire[i].left - 1
      BY <1>1, <2>1, <2>2 DEF Earlier
    <2> HIDE DEF new
    <2>4. Ordered(new)
      BY <1>1, <2>1, <2>2, <2>3 DEF Ordered
    <2> QED BY <2>1, <2>4 DEF new
  <1> QED BY <1>2, <1>3, <1>4

\* Within t ticks the sender of port p stops class c.
StoppingAt(s, p, c, t) ==
    Stopping(peer[p].paused[c], s.toPeer[p], s.dev[p].ctrl, s.dev[p].busy, c, t)

\* A call from s to u lets no class go on that uses headroom.
Keeps(s, u) ==
    \A p \in Ports, c \in Classes, t \in Int :
      u.ingress.hdrm[p][c] # 0 /\ StoppingAt(s, p, c, t) => StoppingAt(u, p, c, t)

LEMMA KeepsAgain ==
    ASSUME NEW s, NEW t, NEW u, Keeps(s, t), Keeps(t, u),
           \A p \in Ports, c \in Classes :
             u.ingress.hdrm[p][c] # 0 => t.ingress.hdrm[p][c] # 0
    PROVE  Keeps(s, u)
  BY DEF Keeps

\* What changes neither frames nor transmitters.
LEMMA KeepsFrames ==
    ASSUME NEW s, NEW u, u.toPeer = s.toPeer,
           \A q \in Ports : u.dev[q].ctrl = s.dev[q].ctrl /\ u.dev[q].busy = s.dev[q].busy
    PROVE  Keeps(s, u)
  BY DEF Keeps, StoppingAt

-----------------------------------------------------------------------------
(* The handlers and the frames under way.                                  *)

LEMMA SendControlStops ==
    ASSUME NEW s, NEW owed, Counted(s, owed), Typed(s), NEW p \in Ports,
           Lines(s, {p}), s.dev[p].ctrl # <<>>
    PROVE  Lines(SendControl(s, p), {}) /\ Keeps(s, SendControl(s, p))
  <1> DEFINE ctrl == s.dev[p].ctrl
             f == Head(ctrl)
             sent == [class |-> f.class, pause |-> f.pause, left |-> After(Delay)]
             d == ControlSent(s.dev[p])
             wire == s.toPeer[p]
             u == SendControl(s, p)
  <1>1. /\ ctrl \in Seq(Frame) /\ ctrl # <<>> /\ wire \in Seq(SentFrame)
        /\ Device(s.dev[p]) /\ TypedDevice(s.dev[p])
    BY DEF Typed, TypedDevice, Counted, Devices
  <1>2. f \in Frame
    <2> HIDE DEF ctrl
    <2> QED BY <1>1, Shifted
  <1>3. /\ sent \in SentFrame /\ sent.class = f.class /\ sent.pause = f.pause
        /\ sent.left = After(Delay)
    BY <1>2, TimerRanges, Zenon DEF SentFrame, Frame
  <1>4. /\ u.toPeer = [s.toPeer EXCEPT ![p] = Append(wire, sent)]
        /\ u.dev = [s.dev EXCEPT ![p] = d] /\ u.ingress = s.ingress
    BY DEF Counted, Shape, SendControl
  <1>5. d.ctrl = Tail(ctrl) /\ d.busy = After(0) /\ d.queue = s.dev[p].queue
    BY <1>1 DEF Device, ControlSent
  <1> HIDE DEF sent, d, u, f, ctrl, wire
  <1>6. /\ \A q \in Ports : u.dev[q] = IF q = p THEN d ELSE s.dev[q]
        /\ \A q \in Ports : u.toPeer[q] = IF q = p THEN Append(wire, sent) ELSE s.toPeer[q]
    BY <1>4 DEF Counted, Devices, Typed
  <1>7. Lines(u, {})
    <2> SUFFICES ASSUME NEW q \in Ports
                 PROVE  /\ Line(u.dev[q], u.toPeer[q], q)
                        /\ u.dev[q].busy = 0 => u.dev[q].ctrl = <<>>
      BY DEF Lines
    <2>1. CASE q = p
      <3>1. Line(s.dev[p], wire, p)
        BY DEF Lines, wire
      <3>2. Ordered(Append(wire, sent))
        BY <1>1, <1>3, <3>1, OrderedWires DEF Line
      <3>3. After(0) <= After(PauseWait(p)) /\ After(0) # 0
        BY TimesNumbers DEF After
      <3>4. Line(d, Append(wire, sent), p) /\ d.busy # 0
        BY <1>5, <3>1, <3>2, <3>3 DEF Line
      <3> QED BY <1>6, <2>1, <3>4
    <2>2. CASE q # p
      BY <1>6, <2>2 DEF Lines
    <2> QED BY <2>1, <2>2
  <1>8. Keeps(s, u)
    <2> SUFFICES ASSUME NEW q \in Ports, NEW c \in Classes, NEW t \in Int,
                        StoppingAt(s, q, c, t)
                 PROVE  StoppingAt(u, q, c, t)
      BY DEF Keeps
    <2>1. CASE q = p
      <3>1. Stopping(peer[p].paused[c], wire, ctrl, s.dev[p].busy, c, t)
        BY <2>1 DEF StoppingAt, wire, ctrl
      <3>2. sent.class = Head(ctrl).class /\ sent.pause = Head(ctrl).pause
        BY <1>3 DEF f
      <3>3. Stopping(peer[p].paused[c], Append(wire, sent), Tail(ctrl), After(0), c, t)
        BY <1>1, <1>3, <3>1, <3>2, StoppingSent
      <3> QED BY <1>5, <1>6, <2>1, <3>3 DEF StoppingAt
    <2>2. CASE q # p
      BY <1>6, <2>2 DEF StoppingAt
    <2> QED BY <2>1, <2>2
  <1> QED BY <1>7, <1>8 DEF u

\* Frames are queued that resume no class of the port that uses headroom; one
\* that says PAUSE stops its class.
LEMMA SendPfcStops ==
    ASSUME NEW s, NEW owed, Counted(s, owed), Typed(s), Lines(s, {}), NEW p \in Ports,
           NEW frames \in Seq(Frame),
           \A c \in Classes : s.ingress.hdrm[p][c] # 0 => PausesFrom(frames, 1, c)
    PROVE  /\ Lines(SendPfc(s, p, frames), {}) /\ Keeps(s, SendPfc(s, p, frames))
           /\ \A c \in Classes : s.ingress.hdrm[p][c] # 0 /\ Has(frames, c) =>
                StoppingAt(SendPfc(s, p, frames), p, c, PauseWait(p) + Delay)
  <1> DEFINE d == ControlQueued(s.dev[p], frames)
             u == [s EXCEPT !.dev[p] = ControlQueued(@, frames)]
             joined == s.dev[p].ctrl \o frames
  <1>1. /\ u.pfc = s.pfc /\ u.toPeer = s.toPeer /\ u.ingress = s.ingress
        /\ u.dev = [s.dev EXCEPT ![p] = d] /\ u.egress = s.egress /\ Shape(u)
    BY DEF Counted, Shape, Devices, Device, ControlQueued
  <1>2. Device(s.dev[p]) /\ TypedDevice(s.dev[p]) /\ s.dev[p].ctrl \in Seq(Frame)
    BY DEF Counted, Devices, Typed, TypedDevice
  <1>3. /\ Device(d) /\ d.bytes = s.dev[p].bytes /\ d.queue = s.dev[p].queue
        /\ d.busy = s.dev[p].busy /\ d.ctrl = joined
    BY <1>2, DeviceKept DEF Device, ControlQueued
  <1>4. TypedDevice(d)
    BY <1>2, ControlQueuedTyped
  <1>5. SendPfc(s, p, frames) = IF s.dev[p].busy = 0 /\ frames # <<>>
                                THEN SendControl(u, p) ELSE u
    BY DEF SendPfc
  <1>6. /\ frames # <<>> => joined # <<>>
        /\ frames = <<>> => joined = s.dev[p].ctrl
    <2>1. Len(joined) = Len(s.dev[p].ctrl) + Len(frames) /\ Len(s.dev[p].ctrl) \in Nat
      BY <1>2, ConcatProperties, LenProperties
    <2>2. frames # <<>> => Len(frames) \in Nat /\ Len(frames) # 0
      BY LenProperties, EmptySeq
    <2>3. Len(<<>>) = 0
      OBVIOUS
    <2>4. frames = <<>> => joined = s.dev[p].ctrl
      BY <1>2, ConcatEmptySeq
    <2> HIDE DEF joined
    <2> QED BY <2>1, <2>2, <2>3, <2>4
  <1> HIDE DEF d, u, joined
  <1>7. Counted(u, owed) /\ Typed(u)
    BY <1>1, <1>3, <1>4, CountedPut, TypedPut
  <1>8. \A q \in Ports : u.dev[q] = IF q = p THEN d ELSE s.dev[q]
    BY <1>1 DEF Counted, Devices
  <1>9. Lines(u, {p}) /\ (s.dev[p].busy # 0 \/ frames = <<>> => Lines(u, {}))
    <2>1. ASSUME NEW q \in Ports PROVE Line(u.dev[q], u.toPeer[q], q)
      BY <1>1, <1>3, <1>8 DEF Lines, Line
    <2>2. ASSUME NEW q \in Ports, q # p, u.dev[q].busy = 0 PROVE u.dev[q].ctrl = <<>>
      BY <1>8, <2>2 DEF Lines
    <2>3. ASSUME s.dev[p].busy # 0 \/ frames = <<>>, u.dev[p].busy = 0
          PROVE  u.dev[p].ctrl = <<>>
      BY <1>3, <1>6, <1>8, <2>3 DEF Lines
    <2> QED BY <2>1, <2>2, <2>3 DEF Lines
  <1>10. Keeps(s, u)
    <2> SUFFICES ASSUME NEW q \in Ports, NEW c \in Classes, NEW t \in Int,
                        s.ingress.hdrm[q][c] # 0, StoppingAt(s, q, c, t)
                 PROVE  StoppingAt(u, q, c, t)
      BY <1>1 DEF Keeps
    <2>1. CASE q = p
      <3>1. PausesFrom(frames, 1, c)
        BY <2>1
      <3>2. Stopping(peer[p].paused[c], s.toPeer[p], joined, s.dev[p].busy, c, t)
        BY <1>2, <2>1, <3>1, StoppingQueued DEF StoppingAt, joined
      <3> QED BY <1>1, <1>3, <1>8, <2>1, <3>2 DEF StoppingAt
    <2>2. CASE q # p
      BY <1>1, <1>8, <2>2 DEF StoppingAt
    <2> QED BY <2>1, <2>2
  <1>11. ASSUME NEW c \in Classes, s.ingress.hdrm[p][c] # 0, Has(frames, c)
         PROVE  StoppingAt(u, p, c, PauseWait(p) + Delay)
    <2>1. /\ PauseWait(p) \in Nat /\ Delay \in Nat /\ s.dev[p].busy \in Nat
          /\ s.dev[p].busy <= PauseWait(p) + 1
      <3>1. s.dev[p].busy \in Nat
        BY <1>2, PfcAssumption DEF TypedDevice, Timers, After
      <3> QED BY <3>1, TimesNumbers DEF Lines, Line, After
    <2>2. Delay <= PauseWait(p) + Delay /\ s.dev[p].busy - 1 + Delay <= PauseWait(p) + Delay
      BY <2>1
    <2>3. PausesFrom(frames, 1, c)
      BY <1>11
    <2>4. StopQueued(joined, s.dev[p].busy, c, PauseWait(p) + Delay)
      BY <1>2, <1>11, <2>2, <2>3, StopIsQueued DEF joined
    <2> QED BY <1>3, <1>8, <2>4 DEF StoppingAt, Stopping
  <1>12. CASE ~(s.dev[p].busy = 0 /\ frames # <<>>)
    BY <1>5, <1>9, <1>10, <1>11, <1>12
  <1>13. CASE s.dev[p].busy = 0 /\ frames # <<>>
    <2> DEFINE v == SendControl(u, p)
    <2>1. u.dev[p].ctrl # <<>>
      BY <1>3, <1>6, <1>8, <1>13
    <2>2. Lines(v, {}) /\ Keeps(u, v)
      BY <1>7, <1>9, <2>1, SendControlStops
    <2>3. v.ingress = s.ingress
      BY <1>1, <1>7, SendControlSame DEF SameBuffer
    <2>4. SendPfc(s, p, frames) = v
      BY <1>5, <1>13
    <2> HIDE DEF v
    <2>5. Keeps(s, v)
      BY <1>1, <1>10, <2>2, <2>3, KeepsAgain
    <2>6. \A c \in Classes : s.ingress.hdrm[p][c] # 0 /\ Has(frames, c) =>
            StoppingAt(v, p, c, PauseWait(p) + Delay)
      <3>1. PauseWait(p) + Delay \in Int
        BY TimesNumbers
      <3> QED BY <1>11, <2>2, <2>3, <3>1 DEF Keeps
    <2> QED BY <2>2, <2>4, <2>5, <2>6
  <1> QED BY <1>12, <1>13

\* PAUSE frames, then RESUME frames.
LEMMA FramesJoined ==
    ASSUME NEW pauses \in SUBSET Classes, NEW resumes \in SUBSET Classes
    PROVE  LET frames == Frames(pauses, TRUE) \o Frames(resumes, FALSE)
           IN  /\ frames \in Seq(Frame)
               /\ \A c \in pauses : Has(frames, c)
               /\ \A c : c \notin resumes => PausesFrom(frames, 1, c)
  <1> DEFINE a == Frames(pauses, TRUE)
             b == Frames(resumes, FALSE)
             frames == a \o b
  <1>1. /\ a \in Seq(Frame) /\ b \in Seq(Frame)
        /\ \A c : (Has(a, c) <=> c \in pauses) /\ (Has(b, c) <=> c \in resumes)
        /\ \A i \in DOMAIN a : a[i].pause = TRUE
    BY FramesSay
  <1> HIDE DEF a, b
  <1>2. /\ frames \in Seq(Frame)
        /\ \A i \in DOMAIN a : i \in DOMAIN frames /\ frames[i] = a[i]
        /\ \A j \in DOMAIN b : frames[Len(a) + j] = b[j]
        /\ \A i \in DOMAIN frames : i \in DOMAIN a \/ \E j \in DOMAIN b : i = Len(a) + j
    BY <1>1, Joined
  <1> HIDE DEF frames
  <1>3. ASSUME NEW c \in pauses PROVE Has(frames, c)
    <2>1. Has(a, c)
      BY <1>1, <1>3
    <2> QED BY <1>2, <2>1 DEF Has
  <1>4. ASSUME NEW c, c \notin resumes PROVE PausesFrom(frames, 1, c)
    <2>1. \A j \in DOMAIN b : b[j].class # c
      BY <1>1, <1>4 DEF Has
    <2> SUFFICES ASSUME NEW i \in DOMAIN frames, frames[i].class = c
                 PROVE  frames[i].pause = TRUE
      BY DEF PausesFrom
    <2>2. i \in DOMAIN a
      BY <1>2, <2>1
    <2> QED BY <1>1, <1>2, <2>2
  <1>5. /\ frames \in Seq(Frame)
        /\ \A c \in pauses : Has(frames, c)
        /\ \A c : c \notin resumes => PausesFrom(frames, 1, c)
    BY <1>2, <1>3, <1>4
  <1> QED BY <1>5 DEF frames, a, b

\* CheckAndSendPfc resumes no class that uses headroom, and stops those it
\* pauses.
LEMMA CheckAndSendPfcStops ==
    ASSUME NEW s, NEW owed, Counted(s, owed), Typed(s), Lines(s, {}), NEW p \in Ports,
           NEW c
    PROVE  /\ Lines(CheckAndSendPfc(s, p, c), {}) /\ Keeps(s, CheckAndSendPfc(s, p, c))
           /\ \A e \in ToPause(s, p, c) : s.ingress.hdrm[p][e] # 0 =>
                StoppingAt(CheckAndSendPfc(s, p, c), p, e, PauseWait(p) + Delay)
  <1> DEFINE pauses == ToPause(s, p, c)
             v == SetRemote(SetPause(s.pfc, p, pauses), p, pauses, TRUE)
             told == [s EXCEPT !.pfc = v]
             resumes == {e \in Classes :
                           told.pfc.remote[p][e] /\ ResumeClass(told, p, e)}
             w == SetRemote(SetResume(told.pfc, p, resumes), p, resumes, FALSE)
             out == [told EXCEPT !.pfc = w]
             frames == Frames(pauses, TRUE) \o Frames(resumes, FALSE)
             u == CheckAndSendPfc(s, p, c)
  <1>1. u = SendPfc(out, p, frames)
    BY Zenon DEF CheckAndSendPfc
  <1>2. pauses \in SUBSET Classes /\ resumes \in SUBSET Classes
    BY DEF ToPause, PauseClasses
  <1>3. \A e \in resumes : told.ingress.hdrm[p][e] = 0
    BY DEF ResumeClass, BelowResume
  <1>4. /\ frames \in Seq(Frame)
        /\ \A e \in pauses : Has(frames, e)
        /\ \A e : e \notin resumes => PausesFrom(frames, 1, e)
    <2> HIDE DEF pauses, resumes
    <2> QED BY <1>2, FramesJoined
  <1> HIDE DEF pauses, resumes, frames, u
  <1>5. TypedPfc(v)
    <2>1. TypedPfc(SetPause(s.pfc, p, pauses))
      BY <1>2, PfcTyped DEF Typed
    <2> QED BY <1>2, <2>1, PfcTyped
  <1> HIDE DEF v
  <1>6. /\ Typed(told) /\ Counted(told, owed) /\ told.pfc = v
        /\ told.dev = s.dev /\ told.toPeer = s.toPeer /\ told.ingress = s.ingress
    BY <1>5, TypedMmu DEF Counted, Shape
  <1> HIDE DEF told
  <1>7. TypedPfc(w)
    <2>1. TypedPfc(SetResume(told.pfc, p, resumes))
      BY <1>2, <1>6, PfcTyped DEF Typed
    <2> QED BY <1>2, <2>1, PfcTyped
  <1> HIDE DEF w
  <1>8. /\ Typed(out) /\ Counted(out, owed)
        /\ out.dev = s.dev /\ out.toPeer = s.toPeer /\ out.ingress = s.ingress
    BY <1>6, <1>7, TypedMmu DEF Counted, Shape
  <1> HIDE DEF out
  <1>9. Lines(out, {}) /\ Keeps(s, out)
    BY <1>8, KeepsFrames DEF Lines
  <1>10. \A e \in Classes : out.ingress.hdrm[p][e] # 0 => PausesFrom(frames, 1, e)
    BY <1>3, <1>4, <1>6, <1>8
  <1>11. /\ Lines(u, {}) /\ Keeps(out, u)
         /\ \A e \in Classes : out.ingress.hdrm[p][e] # 0 /\ Has(frames, e) =>
              StoppingAt(u, p, e, PauseWait(p) + Delay)
    BY <1>1, <1>4, <1>8, <1>9, <1>10, SendPfcStops
  <1>12. u.ingress = s.ingress
    BY CheckAndSendPfcSame DEF SameBuffer, u
  <1>13. Keeps(s, u)
    BY <1>8, <1>9, <1>11, <1>12, KeepsAgain
  <1> QED BY <1>2, <1>4, <1>8, <1>11, <1>13 DEF pauses, u

\* Nor does CheckAndSendResume resume one.
LEMMA CheckAndSendResumeStops ==
    ASSUME NEW s, NEW owed, Counted(s, owed), Typed(s), Lines(s, {}), NEW p \in Ports,
           NEW c \in Classes
    PROVE  /\ Lines(CheckAndSendResume(s, p, c), {})
           /\ Keeps(s, CheckAndSendResume(s, p, c))
  <1> DEFINE v == SetResume(s.pfc, p, {c})
             out == [s EXCEPT !.pfc = v]
             off == Frames({c}, FALSE)
             u == CheckAndSendResume(s, p, c)
  <1>1. u = IF ResumeClass(s, p, c) /\ s.dev[p].paused[c] THEN SendPfc(out, p, off) ELSE s
    BY Zenon DEF CheckAndSendResume
  <1>2. {c} \in SUBSET Classes
    OBVIOUS
  <1>3. off \in Seq(Frame) /\ \A e : e # c => PausesFrom(off, 1, e)
    <2>1. off \in Seq(Frame) /\ \A e : Has(off, e) <=> e \in {c}
      BY <1>2, FramesSay
    <2> HIDE DEF off
    <2> QED BY <2>1 DEF Has, PausesFrom
  <1>4. TypedPfc(v)
    BY <1>2, PfcTyped DEF Typed
  <1> HIDE DEF v, off, u
  <1>5. /\ Typed(out) /\ Counted(out, owed)
        /\ out.dev = s.dev /\ out.toPeer = s.toPeer /\ out.ingress = s.ingress
    BY <1>4, TypedMmu DEF Counted, Shape
  <1> HIDE DEF out
  <1>6. Lines(out, {}) /\ Keeps(s, out)
    BY <1>5, KeepsFrames DEF Lines
  <1>7. CASE ResumeClass(s, p, c) /\ s.dev[p].paused[c]
    <2>1. s.ingress.hdrm[p][c] = 0
      BY <1>7 DEF ResumeClass, BelowResume
    <2>2. \A e \in Classes : out.ingress.hdrm[p][e] # 0 => PausesFrom(off, 1, e)
      BY <1>3, <1>5, <2>1
    <2>3. u = SendPfc(out, p, off)
      BY <1>1, <1>7
    <2>4. Lines(u, {}) /\ Keeps(out, u)
      BY <1>3, <1>5, <1>6, <2>2, <2>3, SendPfcStops
    <2>5. u.ingress = s.ingress
      BY CheckAndSendResumeSame DEF SameBuffer, u
    <2>6. Keeps(s, u)
      BY <1>5, <1>6, <2>4, <2>5, KeepsAgain
    <2> QED BY <2>4, <2>6 DEF u
  <1>8. CASE ~(ResumeClass(s, p, c) /\ s.dev[p].paused[c])
    <2>1. u = s
      BY <1>1, <1>8
    <2>2. Keeps(s, s)
      BY KeepsFrames
    <2> QED BY <2>1, <2>2 DEF u
  <1> QED BY <1>7, <1>8

\* The classes hold no more than before.
Lower(new, old) ==
    \A p \in Ports, c \in Classes :
      /\ new.hdrm[p][c] \in Nat /\ new.hdrm[p][c] <= old.hdrm[p][c]
      /\ new.pg[p][c] \in Nat /\ new.pg[p][c] <= old.pg[p][c]

LEMMA ReleaseLowers ==
    ASSUME NEW ig, IngressSums(ig), NEW p \in Ports, NEW c \in Classes,
           NEW size \in PktSizes
    PROVE  Lower(ig, ig) /\ Lower(ReleaseIngress(ig, p, c, size), ig)
  <1> DEFINE new == ReleaseIngress(ig, p, c, size)
             pg == ig.pg
             hdrm == ig.hdrm
  <1>1. /\ \A q \in Ports, d \in Classes : pg[q][d] \in Nat /\ hdrm[q][d] \in Nat
        /\ pg \in Matrix /\ hdrm \in Matrix
    BY DEF IngressSums, Positive
  <1>2. size \in Nat /\ \A n \in Nat : Minus(n, size) \in Nat /\ Minus(n, size) <= n
    BY TimesNumbers DEF Minus
  <1>3. /\ new.pg = [pg EXCEPT ![p][c] = Minus(@, size)]
        /\ new.hdrm = [hdrm EXCEPT ![p][c] = Minus(@, size)]
    BY DEF ReleaseIngress
  <1>4. Lower(ig, ig)
    BY <1>1 DEF Lower
  <1> HIDE DEF new, pg, hdrm
  <1>5. ASSUME NEW q \in Ports, NEW d \in Classes
        PROVE  /\ new.hdrm[q][d] \in Nat /\ new.hdrm[q][d] <= hdrm[q][d]
               /\ new.pg[q][d] \in Nat /\ new.pg[q][d] <= pg[q][d]
    <2>1. /\ new.hdrm[q][d] = IF q = p /\ d = c THEN Minus(hdrm[q][d], size) ELSE hdrm[q][d]
          /\ new.pg[q][d] = IF q = p /\ d = c THEN Minus(pg[q][d], size) ELSE pg[q][d]
      BY <1>1, <1>3 DEF Matrix
    <2> QED BY <1>1, <1>2, <2>1
  <1>6. Lower(new, ig)
    BY <1>5 DEF Lower, pg, hdrm
  <1> QED BY <1>4, <1>6 DEF new

\* A device that transmits a packet had no frame to send.
LEMMA SendDataStops ==
    ASSUME NEW s, NEW owed \in Owed, Counted(s, owed), Typed(s), IngressSums(s.ingress),
           NEW p \in Ports, Lines(s, {p}), s.dev[p].ctrl = <<>>,
           NEW c \in Classes, c \in Sendable(s.dev[p])
    PROVE  /\ Lines(SendData(s, p, c), {}) /\ Keeps(s, SendData(s, p, c))
           /\ Lower(SendData(s, p, c).ingress, s.ingress)
  <1> DEFINE pkt == Head(s.dev[p].queue[c])
             in == pkt.inDev
             d == DataSent(s.dev[p], c)
             ig == ReleaseIngress(s.ingress, in, c, pkt.size)
             t == DataTaken(s, p, c)
             u == SendData(s, p, c)
  <1>1. u = CheckAndSendResume(t, in, c)
    BY Zenon DEF SendData, DataTaken
  <1>2. Device(s.dev[p]) /\ TypedDevice(s.dev[p]) /\ s.dev[p].queue[c] # <<>>
    BY DEF Counted, Devices, Typed, Sendable
  <1>3. /\ pkt \in Pkt /\ Device(d)
        /\ d.queue = [s.dev[p].queue EXCEPT ![c] = Tail(@)]
    BY <1>2, DeviceSends
  <1>4. in \in Ports /\ pkt.size \in PktSizes
    BY <1>3 DEF Pkt
  <1>5. Counted(t, owed)
    BY DataTakenCounted
  <1>6. /\ t.pfc = s.pfc /\ t.toPeer = s.toPeer /\ t.ingress = ig
        /\ t.dev = [s.dev EXCEPT ![p] = d]
    BY DEF Counted, Shape, DataTaken
  <1>7. TypedDevice(d)
    BY <1>2, DataTyped
  <1>8. d.ctrl = s.dev[p].ctrl /\ d.busy = After(TxTime)
    BY <1>2 DEF Device, DataSent
  <1>9. Lower(ig, s.ingress)
    <2> DEFINE old == s.ingress
    <2>1. IngressSums(old)
      OBVIOUS
    <2> HIDE DEF old, pkt
    <2>2. Lower(ReleaseIngress(old, in, c, pkt.size), old)
      BY <1>4, <2>1, ReleaseLowers
    <2> QED BY <2>2 DEF old
  <1> HIDE DEF pkt, d, ig, t, u
  <1>10. Typed(t)
    BY <1>6, <1>7, TypedPut
  <1>11. \A q \in Ports : t.dev[q] = IF q = p THEN d ELSE s.dev[q]
    BY <1>6 DEF Counted, Devices
  <1>12. Lines(t, {})
    <2>1. Transmits(p) /\ PauseWait(p) = TxTime
      BY <1>2 DEF Lines, Line, PauseWait
    <2>2. After(TxTime) # 0 /\ After(TxTime) <= After(TxTime)
      BY TimesNumbers DEF After
    <2>3. Line(d, s.toPeer[p], p) /\ d.busy # 0
      BY <1>8, <2>1, <2>2 DEF Lines, Line
    <2>4. ASSUME NEW q \in Ports
          PROVE  /\ Line(t.dev[q], t.toPeer[q], q)
                 /\ t.dev[q].busy = 0 => t.dev[q].ctrl = <<>>
      BY <1>6, <1>11, <2>3 DEF Lines
    <2> QED BY <2>4 DEF Lines
  <1>13. Keeps(s, t)
    <2> SUFFICES ASSUME NEW q \in Ports, NEW e \in Classes, NEW n \in Int,
                        StoppingAt(s, q, e, n)
                 PROVE  StoppingAt(t, q, e, n)
      BY DEF Keeps
    <2>1. CASE q = p
      <3>1. s.dev[p].busy \in Int /\ After(TxTime) \in Int
        BY <1>2, TimerRanges, PfcAssumption DEF TypedDevice, Timers, After
      <3>2. Stopping(peer[p].paused[e], s.toPeer[p], s.dev[p].ctrl, After(TxTime), e, n)
        BY <2>1, <3>1, StoppingTransmits DEF StoppingAt
      <3> QED BY <1>6, <1>8, <1>11, <2>1, <3>2 DEF StoppingAt
    <2>2. CASE q # p
      BY <1>6, <1>11, <2>2 DEF StoppingAt
    <2> QED BY <2>1, <2>2
  <1>14. Lines(u, {}) /\ Keeps(t, u) /\ u.ingress = t.ingress
    BY <1>1, <1>4, <1>5, <1>10, <1>12, CheckAndSendResumeStops, CheckAndSendResumeSame
    DEF SameBuffer
  <1>15. Keeps(s, u)
    BY <1>13, <1>14, KeepsAgain
  <1> QED BY <1>6, <1>9, <1>14, <1>15 DEF u

\* DequeueAndTransmit serves the control queue first.
LEMMA DequeueStops ==
    ASSUME NEW s, NEW owed \in Owed, Counted(s, owed), Typed(s), IngressSums(s.ingress),
           NEW p \in Ports, Lines(s, {p})
    PROVE  /\ Lines(DequeueAndTransmit(s, p), {}) /\ Keeps(s, DequeueAndTransmit(s, p))
           /\ Lower(DequeueAndTransmit(s, p).ingress, s.ingress)
  <1>1. Device(s.dev[p])
    BY DEF Counted, Devices
  <1>2. Lower(s.ingress, s.ingress)
    BY DEF Lower, IngressSums, Positive, Matrix
  <1>3. CASE s.dev[p].busy # 0 \/ (s.dev[p].ctrl = <<>> /\ Sendable(s.dev[p]) = {})
    <2>1. DequeueAndTransmit(s, p) = s
      BY <1>3 DEF DequeueAndTransmit
    <2>2. Lines(s, {})
      BY <1>3 DEF Lines
    <2>3. Keeps(s, s)
      BY KeepsFrames
    <2> QED BY <1>2, <2>1, <2>2, <2>3
  <1>4. CASE s.dev[p].busy = 0 /\ s.dev[p].ctrl # <<>>
    <2> DEFINE u == SendControl(s, p)
    <2>1. DequeueAndTransmit(s, p) = u
      BY <1>4 DEF DequeueAndTransmit
    <2>2. Lines(u, {}) /\ Keeps(s, u) /\ u.ingress = s.ingress
      BY <1>4, SendControlStops, SendControlSame DEF SameBuffer
    <2> HIDE DEF u
    <2> QED BY <1>2, <2>1, <2>2
  <1>5. CASE s.dev[p].busy = 0 /\ s.dev[p].ctrl = <<>> /\ Sendable(s.dev[p]) # {}
    <2> DEFINE c == NextClass(s.dev[p])
    <2>1. DequeueAndTransmit(s, p) = SendData(s, p, c)
      BY <1>5 DEF DequeueAndTransmit
    <2>2. c \in Sendable(s.dev[p])
      BY <1>1, <1>5, NextClassSendable
    <2>3. c \in Classes
      BY <2>2 DEF Sendable
    <2> HIDE DEF c
    <2> QED BY <1>5, <2>1, <2>2, <2>3, SendDataStops
  <1> QED BY <1>3, <1>4, <1>5

\* A class uses headroom, as in InHeadroom.
Uses(ig, p, c) == ig.hdrm[p][c] # 0 /\ AboveMin(ig, p, c) > 0

\* No class holds more than before but for one, and that holds at most size
\* bytes more.
Higher(new, old, p, c, size) ==
    /\ \A q \in Ports, d \in Classes : <<q, d>> # <<p, c>> =>
         /\ new.hdrm[q][d] \in Nat /\ new.hdrm[q][d] <= old.hdrm[q][d]
         /\ new.pg[q][d] \in Nat /\ new.pg[q][d] <= old.pg[q][d]
    /\ new.hdrm[p][c] \in Nat /\ new.hdrm[p][c] <= old.hdrm[p][c] + size
    /\ new.pg[p][c] \in Nat /\ new.pg[p][c] <= old.pg[p][c] + size

LEMMA ChargeRaises ==
    ASSUME NEW ig, IngressSums(ig), NEW p \in Ports, NEW c \in Classes,
           NEW size \in PktSizes
    PROVE  /\ Higher(ig, ig, p, c, size)
           /\ Higher(ChargeIngress(ig, p, c, size), ig, p, c, size)
  <1> DEFINE new == ChargeIngress(ig, p, c, size)
             pg == ig.pg
             hdrm == ig.hdrm
  <1>1. /\ \A q \in Ports, d \in Classes : pg[q][d] \in Nat /\ hdrm[q][d] \in Nat
        /\ pg \in Matrix /\ hdrm \in Matrix /\ size \in Nat
    BY TimesNumbers DEF IngressSums, Positive
  <1>2. /\ new.pg = [pg EXCEPT ![p][c] = @ + size]
        /\ new.hdrm \in {hdrm, [hdrm EXCEPT ![p][c] = @ + size]}
    BY DEF ChargeIngress
  <1> HIDE DEF new
  <1>3. Higher(ig, ig, p, c, size)
    <2> HIDE DEF pg, hdrm
    <2>1. \A q \in Ports, d \in Classes :
            /\ hdrm[q][d] <= hdrm[q][d] /\ hdrm[q][d] <= hdrm[q][d] + size
            /\ pg[q][d] <= pg[q][d] /\ pg[q][d] <= pg[q][d] + size
      BY <1>1
    <2> QED BY <1>1, <2>1 DEF Higher, pg, hdrm
  <1> HIDE DEF pg, hdrm
  <1>4. ASSUME NEW q \in Ports, NEW d \in Classes, <<q, d>> # <<p, c>>
        PROVE  new.hdrm[q][d] = hdrm[q][d] /\ new.pg[q][d] = pg[q][d]
    BY <1>1, <1>2, <1>4 DEF Matrix
  <1>5. /\ new.hdrm[p][c] \in {hdrm[p][c], hdrm[p][c] + size}
        /\ new.pg[p][c] = pg[p][c] + size
    BY <1>1, <1>2 DEF Matrix
  <1>6. Higher(new, ig, p, c, size)
    <2>1. /\ \A q \in Ports, d \in Classes : <<q, d>> # <<p, c>> =>
              /\ new.hdrm[q][d] \in Nat /\ new.hdrm[q][d] <= hdrm[q][d]
              /\ new.pg[q][d] \in Nat /\ new.pg[q][d] <= pg[q][d]
          /\ new.hdrm[p][c] \in Nat /\ new.hdrm[p][c] <= hdrm[p][c] + size
          /\ new.pg[p][c] \in Nat /\ new.pg[p][c] <= pg[p][c] + size
      BY <1>1, <1>4, <1>5
    <2> QED BY <2>1 DEF Higher, pg, hdrm
  <1> QED BY <1>3, <1>6 DEF new

\* DoSwitchSend lets no class go on that uses headroom, and stops the class of
\* its packet if it starts to use it.
LEMMA DoSwitchSendStops ==
    ASSUME NEW s, Counted(s, NothingOwed), Typed(s), IngressSums(s.ingress), Lines(s, {}),
           NEW in \in Ports, NEW out \in Ports, Transmits(out), NEW c \in Classes,
           NEW size \in PktSizes
    PROVE  LET u == DoSwitchSend(s, in, out, c, size)
           IN  /\ Lines(u, {}) /\ Keeps(s, u)
               /\ Higher(u.ingress, s.ingress, in, c, size)
               /\ Uses(u.ingress, in, c) /\ ~Uses(s.ingress, in, c) =>
                    StoppingAt(u, in, c, PauseWait(in) + Delay)
  <1> DEFINE charged == Charged(s, in, out, c, size)
             told == CheckAndSendPfc(charged, in, c)
             d == Queued(told.dev[out], in, c, size)
             t == PacketQueued(told, in, out, c, size)
             u == DoSwitchSend(s, in, out, c, size)
             v == DequeueAndTransmit(t, out)
             old == s.ingress
             ig == ChargeIngress(old, in, c, size)
  <1>1. u \in {s, v}
    BY Zenon DEF DoSwitchSend, Charged, PacketQueued
  <1>2. Counted(charged, Owes(out, c, size))
    BY ChargedCounted
  <1>3. /\ charged.pfc = s.pfc /\ charged.toPeer = s.toPeer /\ charged.dev = s.dev
        /\ charged.ingress = ig
    BY DEF Counted, Shape, Charged
  <1>4. IngressSums(ig) /\ Higher(ig, old, in, c, size) /\ Higher(old, old, in, c, size)
    <2>1. IngressSums(old)
      OBVIOUS
    <2> HIDE DEF old
    <2> QED BY <2>1, ChargeKeepsSums, ChargeRaises
  <1> HIDE DEF charged, u, v, ig
  <1>5. Typed(charged)
    BY <1>3 DEF Typed
  <1>6. Lines(charged, {}) /\ Keeps(s, charged)
    BY <1>3, KeepsFrames DEF Lines
  <1>7. /\ Counted(told, Owes(out, c, size)) /\ Typed(told)
        /\ Lines(told, {}) /\ Keeps(charged, told)
        /\ \A e \in ToPause(charged, in, c) : charged.ingress.hdrm[in][e] # 0 =>
             StoppingAt(told, in, e, PauseWait(in) + Delay)
        /\ told.ingress = charged.ingress
    BY <1>2, <1>5, <1>6, CheckAndSendPfcCounted, CheckAndSendPfcTyped,
       CheckAndSendPfcStops, CheckAndSendPfcSame DEF SameBuffer
  <1> HIDE DEF told
  <1>8. Counted(t, NothingOwed)
    BY <1>7, PacketQueuedCounted
  <1>9. /\ t.pfc = told.pfc /\ t.toPeer = told.toPeer /\ t.dev = [told.dev EXCEPT ![out] = d]
        /\ t.ingress = told.ingress
    BY <1>7 DEF Counted, Shape, PacketQueued
  <1>10. Device(told.dev[out]) /\ TypedDevice(told.dev[out])
    BY <1>7 DEF Counted, Devices, Typed
  <1>11. TypedDevice(d)
    BY <1>10, DataTyped
  <1>12. d.ctrl = told.dev[out].ctrl /\ d.busy = told.dev[out].busy
    BY <1>10 DEF Device, Queued
  <1> HIDE DEF t, d
  <1>13. Typed(t)
    BY <1>7, <1>9, <1>11, TypedPut
  <1>14. \A q \in Ports : t.dev[q] = IF q = out THEN d ELSE told.dev[q]
    BY <1>7, <1>9 DEF Counted, Devices
  <1>15. Lines(t, {out})
    <2>1. Line(d, told.toPeer[out], out)
      BY <1>7, <1>12 DEF Lines, Line
    <2>2. ASSUME NEW q \in Ports
          PROVE  /\ Line(t.dev[q], t.toPeer[q], q)
                 /\ q # out /\ t.dev[q].busy = 0 => t.dev[q].ctrl = <<>>
      BY <1>7, <1>9, <1>14, <2>1 DEF Lines
    <2> QED BY <2>2 DEF Lines
  <1>16. Keeps(told, t)
    <2>1. \A q \in Ports : t.dev[q].ctrl = told.dev[q].ctrl /\ t.dev[q].busy = told.dev[q].busy
      BY <1>12, <1>14
    <2>2. t.toPeer = told.toPeer
      BY <1>9
    <2> QED BY <2>1, <2>2, KeepsFrames
  <1>17. /\ Lines(v, {}) /\ Keeps(t, v) /\ Lower(v.ingress, t.ingress)
    BY <1>3, <1>4, <1>7, <1>8, <1>9, <1>13, <1>15, OwesPacket, DequeueStops DEF v
  <1>18. Lower(v.ingress, ig) /\ told.ingress = ig /\ t.ingress = ig
    BY <1>3, <1>7, <1>9, <1>17
  <1>19. \A q \in Ports, e \in Classes : v.ingress.hdrm[q][e] # 0 => ig.hdrm[q][e] # 0
    BY <1>18 DEF Lower
  <1>20. Keeps(s, v) /\ Keeps(told, v)
    <2>1. Keeps(told, v)
      BY <1>16, <1>17, <1>18, <1>19, KeepsAgain
    <2>2. Keeps(charged, v)
      BY <1>7, <1>18, <1>19, <2>1, KeepsAgain
    <2>3. Keeps(s, v)
      BY <1>3, <1>6, <1>19, <2>2, KeepsAgain
    <2> QED BY <2>1, <2>3
  <1>21. /\ \A q \in Ports, e \in Classes :
              /\ old.hdrm[q][e] \in Nat /\ old.pg[q][e] \in Nat
              /\ ig.hdrm[q][e] \in Nat /\ ig.pg[q][e] \in Nat
              /\ v.ingress.hdrm[q][e] \in Nat /\ v.ingress.hdrm[q][e] <= ig.hdrm[q][e]
              /\ v.ingress.pg[q][e] \in Nat /\ v.ingress.pg[q][e] <= ig.pg[q][e]
         /\ PgMin \in Nat /\ PortMin \in Nat /\ size \in Nat
    BY <1>4, <1>18, TimesNumbers DEF IngressSums, Positive, Lower, PgMin, PortMin
  <1>22. Higher(v.ingress, old, in, c, size)
    <2> HIDE DEF old
    <2> QED BY <1>4, <1>21 DEF Higher
  <1>23. ASSUME Uses(v.ingress, in, c)
         PROVE  StoppingAt(v, in, c, PauseWait(in) + Delay)
    <2>1. ig.hdrm[in][c] # 0 /\ AboveMin(ig, in, c) > 0
      BY <1>21, <1>23 DEF Uses, AboveMin
    <2>2. c \in ToPause(charged, in, c)
      BY <1>3, <2>1 DEF ToPause, PauseClasses
    <2>3. StoppingAt(told, in, c, PauseWait(in) + Delay)
      BY <1>3, <1>7, <2>1, <2>2
    <2>4. PauseWait(in) + Delay \in Int
      BY TimesNumbers
    <2>5. v.ingress.hdrm[in][c] # 0
      BY <1>23 DEF Uses
    <2> QED BY <1>20, <2>3, <2>4, <2>5 DEF Keeps
  <1>24. CASE u = v
    BY <1>17, <1>20, <1>22, <1>23, <1>24 DEF u
  <1>25. CASE u = s
    <2>1. Keeps(s, s)
      BY KeepsFrames
    <2> QED BY <1>4, <1>25, <2>1 DEF u
  <1> QED BY <1>1, <1>24, <1>25

-----------------------------------------------------------------------------
(* The packets of a sender.                                                *)

\* The packets on the wire of port p, whose sender is busy, are PeerTxTime
\* apart and follow routes.
Spaced(packets, busy, p) ==
    /\ \A i \in DOMAIN packets : /\ 1 <= packets[i].left
                                 /\ packets[i].left <= busy + Delay + 1
                                 /\ <<p, packets[i].out>> \in Routes
    /\ \A i, j \in DOMAIN packets : i < j => packets[i].left + PeerTxTime <= packets[j].left

\* No packet arrives earlier.
NextArrival(packets, busy) ==
    IF packets = <<>> THEN busy + PeerTxTime + Delay ELSE Head(packets).left - 1

\* The packets of class c arrive within h ticks.
Arrive(packets, c, h) ==
    \A i \in DOMAIN packets : packets[i].class = c => packets[i].left - 1 <= h

LEMMA PacketNumbers ==
    ASSUME NEW packets \in Seq(SentPacket)
    PROVE  /\ \A i \in DOMAIN packets : packets[i].left \in Nat /\ packets[i] \in SentPacket
           /\ DOMAIN packets = 1..Len(packets) /\ Len(packets) \in Nat
           /\ \A busy \in Int : NextArrival(packets, busy) \in Int
  <1>1. \A f \in SentPacket : f.left \in Nat
    BY PfcAssumption DEF SentPacket, Timers, After
  <1>2. /\ \A i \in DOMAIN packets : packets[i].left \in Nat /\ packets[i] \in SentPacket
        /\ DOMAIN packets = 1..Len(packets) /\ Len(packets) \in Nat
    BY <1>1, LenProperties
  <1>3. packets # <<>> => Head(packets).left \in Nat
    BY <1>1, Shifted
  <1> QED BY <1>2, <1>3, TimesNumbers DEF NextArrival

\* The first packet arrives; the next one is at least PeerTxTime away.
LEMMA PacketArrives ==
    ASSUME NEW packets \in Seq(SentPacket), NEW busy \in Nat, NEW p,
           Spaced(packets, busy, p), FirstDue(packets)
    PROVE  /\ Spaced(Tail(packets), busy, p)
           /\ NextArrival(packets, busy) = 0
           /\ PeerTxTime <= NextArrival(Tail(packets), busy)
           /\ \A c, h : Arrive(packets, c, h) => Arrive(Tail(packets), c, h)
  <1> DEFINE rest == Tail(packets)
  <1>1. packets # <<>> /\ Head(packets).left = 1
    BY DEF FirstDue, Due
  <1>2. /\ Head(packets) = packets[1] /\ 1 \in DOMAIN packets /\ rest \in Seq(SentPacket)
        /\ \A i \in DOMAIN rest : i + 1 \in DOMAIN packets /\ rest[i] = packets[i + 1]
                                  /\ 1 < i + 1
        /\ \A i, j \in DOMAIN rest : i < j <=> i + 1 < j + 1
    BY <1>1, Shifted
  <1>3. \A i \in DOMAIN packets : packets[i].left \in Nat
    BY PacketNumbers
  <1> HIDE DEF rest
  <1>4. Spaced(rest, busy, p)
    BY <1>2 DEF Spaced
  <1>5. NextArrival(packets, busy) = 0
    BY <1>1 DEF NextArrival
  <1>6. PeerTxTime <= NextArrival(rest, busy)
    <2>1. CASE rest = <<>>
      BY <2>1, TimesNumbers DEF NextArrival
    <2>2. CASE rest # <<>>
      <3>1. Head(rest) = rest[1] /\ 1 \in DOMAIN rest
        BY <1>2, <2>2, Shifted
      <3>2. /\ rest[1] = packets[1 + 1] /\ 1 + 1 \in DOMAIN packets /\ 1 < 1 + 1
        BY <1>2, <3>1
      <3>3. packets[1].left + PeerTxTime <= packets[1 + 1].left
        BY <1>2, <3>2 DEF Spaced
      <3>4. Head(rest).left \in Nat /\ 1 + PeerTxTime <= Head(rest).left
        BY <1>1, <1>2, <1>3, <3>1, <3>2, <3>3
      <3> QED BY <2>2, <3>4, TimesNumbers DEF NextArrival
    <2> QED BY <2>1, <2>2
  <1>7. ASSUME NEW c, NEW h, Arrive(packets, c, h) PROVE Arrive(rest, c, h)
    BY <1>2, <1>7 DEF Arrive
  <1> QED BY <1>4, <1>5, <1>6, <1>7 DEF rest

\* A sender that is ready transmits.
LEMMA PacketLeaves ==
    ASSUME NEW packets \in Seq(SentPacket), NEW p, Spaced(packets, 0, p),
           NEW pkt \in SentPacket, pkt.left = After(PeerTxTime + Delay),
           <<p, pkt.out>> \in Routes
    PROVE  /\ Spaced(Append(packets, pkt), PeerTxTime, p)
           /\ NextArrival(Append(packets, pkt), PeerTxTime) = NextArrival(packets, 0)
           /\ \A c, h : /\ Arrive(packets, c, h)
                        /\ pkt.class = c => PeerTxTime + Delay <= h
                        => Arrive(Append(packets, pkt), c, h)
  <1> DEFINE new == Append(packets, pkt)
  <1>1. /\ Len(packets) \in Nat /\ DOMAIN packets = 1..Len(packets)
        /\ DOMAIN new = 1..(Len(packets) + 1) /\ new[Len(packets) + 1] = pkt
        /\ \A i \in 1..Len(packets) : new[i] = packets[i]
        /\ new \in Seq(SentPacket)
    BY AppendProperties, LenProperties
  <1> HIDE DEF new
  <1>2. /\ \A i \in DOMAIN packets : packets[i].left \in Nat
        /\ PeerTxTime \in Nat /\ Delay \in Nat /\ pkt.left = PeerTxTime + Delay + 1
    BY PacketNumbers, TimesNumbers DEF After
  <1>3. \A i \in DOMAIN new : (i \in DOMAIN packets /\ new[i] = packets[i]) \/ new[i] = pkt
    BY <1>1
  <1>4. ASSUME NEW i \in DOMAIN new
        PROVE  /\ 1 <= new[i].left /\ new[i].left <= PeerTxTime + Delay + 1
               /\ <<p, new[i].out>> \in Routes
    <2>1. CASE i \in DOMAIN packets /\ new[i] = packets[i]
      <3>1. /\ 1 <= packets[i].left /\ packets[i].left <= 0 + Delay + 1
            /\ <<p, packets[i].out>> \in Routes
        BY <2>1 DEF Spaced
      <3> QED BY <1>2, <2>1, <3>1
    <2>2. CASE new[i] = pkt
      BY <1>2, <2>2
    <2> QED BY <1>3, <2>1, <2>2
  <1>5. ASSUME NEW i \in DOMAIN new, NEW j \in DOMAIN new, i < j
        PROVE  new[i].left + PeerTxTime <= new[j].left
    <2>1. i \in DOMAIN packets /\ new[i] = packets[i]
      BY <1>1, <1>5
    <2>2. CASE j \in DOMAIN packets
      BY <1>1, <1>5, <2>1, <2>2 DEF Spaced
    <2>3. CASE j \notin DOMAIN packets
      <3>1. new[j] = pkt
        BY <1>1, <2>3
      <3>2. packets[i].left <= 0 + Delay + 1
        BY <2>1 DEF Spaced
      <3> QED BY <1>2, <2>1, <3>1, <3>2
    <2> QED BY <2>2, <2>3
  <1>6. Spaced(new, PeerTxTime, p)
    BY <1>4, <1>5 DEF Spaced
  <1>7. NextArrival(new, PeerTxTime) = NextArrival(packets, 0)
    <2>1. new # <<>> /\ Head(new) = new[1] /\ 1 \in DOMAIN new
      <3>1. new # <<>>
        BY <1>1
      <3> QED BY <1>1, <3>1, Shifted
    <2>2. CASE packets = <<>>
      <3>1. Len(packets) = 0
        BY <2>2
      <3>2. Head(new) = pkt
        BY <1>1, <2>1, <3>1
      <3> QED BY <1>2, <2>1, <2>2, <3>2 DEF NextArrival
    <2>3. CASE packets # <<>>
      <3>1. Head(packets) = packets[1] /\ 1 \in DOMAIN packets
        BY <2>3, Shifted
      <3>2. Head(new) = Head(packets)
        BY <1>1, <2>1, <3>1
      <3> QED BY <2>1, <2>3, <3>2 DEF NextArrival
    <2> QED BY <2>2, <2>3
  <1>8. ASSUME NEW c, NEW h, Arrive(packets, c, h), pkt.class = c => PeerTxTime + Delay <= h
        PROVE  Arrive(new, c, h)
    <2> SUFFICES ASSUME NEW i \in DOMAIN new, new[i].class = c PROVE new[i].left - 1 <= h
      BY DEF Arrive
    <2>1. CASE i \in DOMAIN packets /\ new[i] = packets[i]
      BY <1>8, <2>1 DEF Arrive
    <2>2. CASE new[i] = pkt
      <3>1. new[i].left - 1 = PeerTxTime + Delay
        BY <1>2, <2>2
      <3> QED BY <1>8, <2>2, <3>1
    <2> QED BY <1>3, <2>1, <2>2
  <1> QED BY <1>6, <1>7, <1>8 DEF new

\* The clock advances while no packet arrives.
LEMMA PacketsTick ==
    ASSUME NEW packets \in Seq(SentPacket), NEW busy \in Nat, NEW p,
           Spaced(packets, busy, p), ~FirstDue(packets)
    PROVE  /\ Spaced(EarlierWire(packets), Earlier(busy), p)
           /\ NextArrival(packets, busy) - 1 <= NextArrival(EarlierWire(packets), Earlier(busy))
           /\ \A c : \A h \in Int : Arrive(packets, c, h) => Arrive(EarlierWire(packets), c, h - 1)
  <1> DEFINE new == EarlierWire(packets)
  <1>1. /\ \A i \in DOMAIN packets : packets[i].left \in Nat /\ packets[i] \in SentPacket
        /\ DOMAIN packets = 1..Len(packets) /\ Len(packets) \in Nat
        /\ PeerTxTime \in Nat /\ Delay \in Nat
    BY PacketNumbers, TimesNumbers
  <1>2. new = [i \in 1..Len(packets) |-> [packets[i] EXCEPT !.left = Earlier(@)]]
        /\ new \in Seq(SentPacket)
    BY WireTyped DEF EarlierWire
  <1> HIDE DEF new
  <1>3. DOMAIN new = DOMAIN packets
    BY <1>1, <1>2
  <1>4. ASSUME NEW i \in DOMAIN packets
        PROVE  /\ new[i].class = packets[i].class /\ new[i].out = packets[i].out
               /\ new[i].left = Earlier(packets[i].left)
    <2> DEFINE f == packets[i]
    <2>1. f \in SentPacket /\ new[i] = [f EXCEPT !.left = Earlier(@)]
      BY <1>1, <1>2
    <2> HIDE DEF f
    <2>2. new[i].class = f.class /\ new[i].out = f.out /\ new[i].left = Earlier(f.left)
      BY <2>1 DEF SentPacket
    <2> QED BY <2>2 DEF f
  <1>5. packets # <<>> => Head(packets) = packets[1] /\ 1 \in DOMAIN packets
    BY Shifted
  <1>6. ASSUME NEW i \in DOMAIN packets PROVE 2 <= packets[i].left
    <2>1. packets # <<>>
      OBVIOUS
    <2>2. 2 <= packets[1].left /\ 1 \in DOMAIN packets
      <3>1. packets[1].left # 1 /\ 1 \in DOMAIN packets
        BY <1>5, <2>1 DEF FirstDue, Due
      <3>2. 1 <= packets[1].left /\ packets[1].left \in Nat
        BY <1>1, <3>1 DEF Spaced
      <3> QED BY <3>1, <3>2
    <2>3. i = 1 \/ 1 < i
      BY <1>1
    <2>4. CASE 1 < i
      <3>1. packets[1].left + PeerTxTime <= packets[i].left
        BY <2>2, <2>4 DEF Spaced
      <3> QED BY <1>1, <2>2, <3>1
    <2> QED BY <2>2, <2>3, <2>4
  <1>7. ASSUME NEW i \in DOMAIN packets
        PROVE  new[i].left = packets[i].left - 1 /\ 1 <= new[i].left
    BY <1>1, <1>4, <1>6 DEF Earlier
  <1>8. Earlier(busy) \in Nat /\ busy - 1 <= Earlier(busy)
    BY DEF Earlier
  <1>9. Spaced(new, Earlier(busy), p)
    <2>1. ASSUME NEW i \in DOMAIN packets
          PROVE  /\ 1 <= new[i].left /\ new[i].left <= Earlier(busy) + Delay + 1
                 /\ <<p, new[i].out>> \in Routes
      <3>1. packets[i].left <= busy + Delay + 1 /\ <<p, packets[i].out>> \in Routes
        BY DEF Spaced
      <3>2. packets[i].left \in Nat /\ new[i].left = packets[i].left - 1
        BY <1>1, <1>7
      <3>3. new[i].left <= Earlier(busy) + Delay + 1
        BY <1>1, <1>8, <3>1, <3>2
      <3> QED BY <1>4, <1>7, <3>1, <3>3
    <2>2. ASSUME NEW i \in DOMAIN packets, NEW j \in DOMAIN packets, i < j
          PROVE  new[i].left + PeerTxTime <= new[j].left
      <3>1. packets[i].left + PeerTxTime <= packets[j].left
        BY <2>2 DEF Spaced
      <3> QED BY <1>1, <1>7, <3>1
    <2> QED BY <1>3, <2>1, <2>2 DEF Spaced
  <1>10. NextArrival(packets, busy) - 1 <= NextArrival(new, Earlier(busy))
    <2>1. new = <<>> <=> packets = <<>>
      <3>1. /\ new # <<>> => 1 \in DOMAIN new
            /\ packets # <<>> => 1 \in DOMAIN packets
        BY <1>2, Shifted
      <3>2. DOMAIN <<>> = {}
        OBVIOUS
      <3> QED BY <1>3, <3>1, <3>2
    <2>2. CASE packets = <<>>
      BY <1>1, <1>8, <2>1, <2>2 DEF NextArrival
    <2>3. CASE packets # <<>>
      <3>1. Head(new) = new[1]
        BY <1>2, <2>1, <2>3, Shifted
      <3>2. Head(new).left = Head(packets).left - 1 /\ Head(packets).left \in Nat
        BY <1>1, <1>5, <1>7, <2>3, <3>1
      <3> QED BY <2>1, <2>3, <3>2 DEF NextArrival
    <2> QED BY <2>2, <2>3
  <1>11. ASSUME NEW c, NEW h \in Int, Arrive(packets, c, h) PROVE Arrive(new, c, h - 1)
    <2> SUFFICES ASSUME NEW i \in DOMAIN packets, new[i].class = c PROVE new[i].left - 1 <= h - 1
      BY <1>3 DEF Arrive
    <2>1. packets[i].left - 1 <= h
      BY <1>4, <1>11 DEF Arrive
    <2> QED BY <1>1, <1>7, <2>1
  <1> QED BY <1>9, <1>10, <1>11 DEF new

-----------------------------------------------------------------------------
(* The invariant.                                                          *)

\* No packet of class c arrives at port p behind the horizon h, since the
\* sender stops early enough, and until then the headroom lasts.
Covered(p, c, h) ==
    /\ StoppingAt(Switch, p, c, h - PeerTxTime - Delay)
    /\ Arrive(toSwitch[p], c, h)
    /\ Budget(ingress.hdrm[p][c], p, h, NextArrival(toSwitch[p], peer[p].busy))

Spacing == \A p \in Ports : Spaced(toSwitch[p], peer[p].busy, p)

Coverage ==
    \A p \in Ports, c \in Classes :
      InHeadroom(p, c) => \E h \in Int : Covered(p, c, h)

HorizonInv == TypeInv /\ Lines(Switch, {}) /\ Spacing /\ Coverage

\* What the types say of the state.
LEMMA HorizonTypes ==
    ASSUME TypeInv
    PROVE  /\ Counted(Switch, NothingOwed) /\ Typed(Switch) /\ IngressSums(ingress)
           /\ NothingOwed \in Owed
           /\ Switch.ingress = ingress /\ Switch.dev = dev /\ Switch.toPeer = toPeer
           /\ \A p \in Ports : /\ Device(dev[p]) /\ TypedDevice(dev[p])
                               /\ toPeer[p] \in Seq(SentFrame)
                               /\ toSwitch[p] \in Seq(SentPacket)
                               /\ peer[p] \in TypedSender
                               /\ peer[p].busy \in Nat /\ peer[p].busy <= PeerTxTime
           /\ \A p \in Ports, c \in Classes :
                /\ ingress.hdrm[p][c] \in Nat /\ ingress.pg[p][c] \in Nat
                /\ ingress.hdrm[p][c] <= ingress.pg[p][c]
  <1>1. /\ Counted(Switch, NothingOwed) /\ Accounted(Switch, NothingOwed)
        /\ NothingOwed \in Owed /\ Typed(Switch)
        /\ Switch.ingress = ingress /\ Switch.dev = dev /\ Switch.toPeer = toPeer
        /\ peer \in [Ports -> TypedSender] /\ toSwitch \in [Ports -> Seq(SentPacket)]
    BY DEF TypeInv, AccountInv, CountInv, NothingOwed, Owed, Switch
  <1>2. IngressSums(ingress)
    BY <1>1 DEF Accounted
  <1>3. \A p \in Ports : Device(dev[p]) /\ TypedDevice(dev[p]) /\ toPeer[p] \in Seq(SentFrame)
    BY <1>1, TypedHere DEF Counted, Devices
  <1>4. \A e \in TypedSender : e.busy \in Nat /\ e.busy <= PeerTxTime
    BY TimesNumbers DEF TypedSender
  <1>5. \A p \in Ports : /\ toSwitch[p] \in Seq(SentPacket) /\ peer[p] \in TypedSender
                         /\ peer[p].busy \in Nat /\ peer[p].busy <= PeerTxTime
    BY <1>1, <1>4
  <1>6. \A p \in Ports, c \in Classes :
          /\ ingress.hdrm[p][c] \in Nat /\ ingress.pg[p][c] \in Nat
          /\ ingress.hdrm[p][c] <= ingress.pg[p][c]
    BY <1>2 DEF IngressSums, Matrix, Positive
  <1> QED BY <1>1, <1>2, <1>3, <1>5, <1>6

\* A packet that arrives is within the headroom of its class.
LEMMA ArrivalFits ==
    ASSUME HorizonInv, HeadroomAssumption, NEW p \in Ports, FirstDue(toSwitch[p])
    PROVE  LET pkt == Head(toSwitch[p])
           IN  /\ pkt.out \in Ports /\ pkt.class \in Classes /\ pkt.size \in PktSizes
               /\ Receives(p) /\ Transmits(pkt.out)
               /\ ingress.hdrm[p][pkt.class] + pkt.size <= HdrmLimit[p]
               /\ ~InHeadroom(p, pkt.class) =>
                    ingress.hdrm[p][pkt.class] + pkt.size <= 3 * MTU
  <1> DEFINE wire == toSwitch[p]
             busy == peer[p].busy
             pkt == Head(wire)
             c == pkt.class
             bytes == ingress.hdrm[p][c]
  <1>1. /\ wire \in Seq(SentPacket) /\ busy \in Nat /\ FirstDue(wire)
        /\ Spaced(wire, busy, p)
    BY HorizonTypes DEF HorizonInv, Spacing
  <1>2. \A d \in Classes : /\ ingress.hdrm[p][d] \in Nat /\ ingress.pg[p][d] \in Nat
                           /\ ingress.hdrm[p][d] <= ingress.pg[p][d]
    BY HorizonTypes DEF HorizonInv
  <1>3. \A d \in Classes : InHeadroom(p, d) => \E h \in Int : Covered(p, d, h)
    BY DEF HorizonInv, Coverage
  <1>4. \A d \in Classes, h \in Int : Covered(p, d, h) =>
          Arrive(wire, d, h) /\ Budget(ingress.hdrm[p][d], p, h, NextArrival(wire, busy))
    BY DEF Covered
  <1> HIDE DEF wire, busy
  <1>5. /\ wire # <<>> /\ pkt = wire[1] /\ 1 \in DOMAIN wire /\ pkt.left = 1
        /\ pkt \in SentPacket
    BY <1>1, Shifted DEF FirstDue, Due
  <1>6. pkt.out \in Ports /\ c \in Classes /\ pkt.size \in PktSizes
    BY <1>5 DEF SentPacket
  <1>7. Receives(p) /\ Transmits(pkt.out)
    <2>1. <<p, pkt.out>> \in Routes
      BY <1>1, <1>5 DEF Spaced
    <2>2. <<p, pkt.out>>[1] = p /\ <<p, pkt.out>>[2] = pkt.out
      OBVIOUS
    <2> QED BY <2>1, <2>2 DEF Receives, Transmits
  <1>8. NextArrival(wire, busy) = 0
    BY <1>1, PacketArrives
  <1> HIDE DEF pkt
  <1>9. ASSUME InHeadroom(p, c) PROVE bytes + pkt.size <= HdrmLimit[p]
    <2>1. PICK h \in Int : Covered(p, c, h)
      BY <1>3, <1>6, <1>9
    <2>2. Arrive(wire, c, h) /\ Budget(bytes, p, h, 0)
      BY <1>4, <1>6, <1>8, <2>1
    <2>3. 0 <= h
      BY <1>5, <2>2 DEF Arrive
    <2>4. bytes \in Int
      BY <1>2, <1>6
    <2> HIDE DEF bytes, c
    <2>5. PeerTxTime \in Int /\ PeerTxTime <= PeerTxTime
      BY TimesNumbers
    <2> QED BY <1>6, <2>2, <2>3, <2>4, <2>5, BudgetSpent
  <1>10. ASSUME ~InHeadroom(p, c)
         PROVE  bytes + pkt.size <= HdrmLimit[p] /\ bytes + pkt.size <= 3 * MTU
    <2>1. bytes = 0 \/ AboveMin(ingress, p, c) <= 0
      <3>1. AboveMin(ingress, p, c) \in Int
        BY <1>2, <1>6, TimesNumbers DEF AboveMin, PgMin, PortMin
      <3> QED BY <1>10, <3>1 DEF InHeadroom
    <2>2. bytes <= 2 * MTU /\ bytes \in Int
      BY <1>2, <1>6, <2>1, TimesNumbers DEF AboveMin, PgMin, PortMin
    <2> HIDE DEF bytes
    <2>3. bytes + pkt.size \in Int /\ bytes + pkt.size <= 3 * MTU
      BY <1>6, <2>2, TimesNumbers
    <2> QED BY <1>7, <2>3, BudgetOpened
  <1> QED BY <1>6, <1>7, <1>9, <1>10 DEF pkt, wire


-----------------------------------------------------------------------------
(* The steps.                                                              *)

LEMMA InitHorizon == Init => HorizonInv
  <1> SUFFICES ASSUME Init PROVE HorizonInv
    OBVIOUS
  <1>1. TypeInv
    BY InitTyped
  <1>2. /\ \A p \in Ports : /\ dev[p].busy = 0 /\ dev[p].ctrl = <<>>
                            /\ \A c \in Classes : dev[p].queue[c] = <<>>
                            /\ toPeer[p] = <<>> /\ toSwitch[p] = <<>>
        /\ \A p \in Ports, c \in Classes : ingress.hdrm[p][c] = 0
    BY DEF Init, ForEach, NoIngress
  <1>3. DOMAIN <<>> = {}
    OBVIOUS
  <1>4. Lines(Switch, {})
    <2>1. \A n \in Nat : 0 <= After(n)
      BY DEF After
    <2> QED BY <1>2, <1>3, <2>1, TimesNumbers DEF Lines, Line, Ordered, Switch
  <1>5. Spacing
    BY <1>2, <1>3 DEF Spacing, Spaced
  <1>6. Coverage
    BY <1>2 DEF Coverage, InHeadroom
  <1> QED BY <1>1, <1>4, <1>5, <1>6 DEF HorizonInv

\* The numbers of a state, and of the next one.
Measured ==
    /\ \A p \in Ports : /\ toSwitch[p] \in Seq(SentPacket) /\ peer[p].busy \in Nat
                        /\ peer[p].busy <= PeerTxTime
    /\ \A p \in Ports, c \in Classes :
         ingress.hdrm[p][c] \in Nat /\ ingress.pg[p][c] \in Nat

LEMMA MeasuredHere == TypeInv => Measured
  BY HorizonTypes DEF Measured

LEMMA MeasuredNext == TypeInv' => Measured'
  BY MeasuredHere, PTL

\* A class that already used headroom stays covered, by a horizon that is d
\* ticks nearer.
LEMMA CoveredKept ==
    ASSUME HorizonInv, TypeInv', NEW p \in Ports, NEW c \in Classes, NEW d \in Int,
           ingress'.hdrm[p][c] <= ingress.hdrm[p][c],
           ingress'.pg[p][c] <= ingress.pg[p][c],
           \A h \in Int : StoppingAt(Switch, p, c, h - PeerTxTime - Delay)
                            /\ Arrive(toSwitch[p], c, h) =>
             /\ StoppingAt(Switch, p, c, h - d - PeerTxTime - Delay)'
             /\ Arrive(toSwitch'[p], c, h - d),
           NextArrival(toSwitch[p], peer[p].busy) - d
             <= NextArrival(toSwitch'[p], peer'[p].busy)
    PROVE  InHeadroom(p, c)' => \E h \in Int : Covered(p, c, h)'
  <1> SUFFICES ASSUME InHeadroom(p, c)' PROVE \E h \in Int : Covered(p, c, h)'
    OBVIOUS
  <1>1. /\ ingress.hdrm[p][c] \in Nat /\ ingress.pg[p][c] \in Nat
        /\ toSwitch[p] \in Seq(SentPacket) /\ peer[p].busy \in Int
    BY HorizonTypes DEF HorizonInv
  <1>2. /\ ingress'.hdrm[p][c] \in Nat /\ ingress'.pg[p][c] \in Nat
        /\ toSwitch'[p] \in Seq(SentPacket) /\ peer'[p].busy \in Int
    BY MeasuredNext DEF Measured
  <1> DEFINE a == NextArrival(toSwitch[p], peer[p].busy)
             b == NextArrival(toSwitch'[p], peer'[p].busy)
             old == ingress.hdrm[p][c]
             new == ingress'.hdrm[p][c]
  <1>4. a \in Int /\ b \in Int /\ old \in Int /\ new \in Int /\ new <= old /\ a - d <= b
    <2>1. \A wire \in Seq(SentPacket), n \in Int : NextArrival(wire, n) \in Int
      BY PacketNumbers
    <2>2. a \in Int /\ b \in Int
      BY <1>1, <1>2, <2>1
    <2> QED BY <1>1, <1>2, <2>2
  <1>5. InHeadroom(p, c)
    <2>1. /\ new # 0 /\ ingress'.pg[p][c] - PgMin - PortMin > 0
          /\ new \in Nat /\ ingress'.pg[p][c] \in Nat
      BY <1>2 DEF InHeadroom, AboveMin
    <2> DEFINE x == ingress.pg[p][c]
               y == ingress'.pg[p][c]
    <2>3. x \in Nat /\ y \in Nat /\ y <= x /\ y - PgMin - PortMin > 0
          /\ PgMin \in Nat /\ PortMin \in Nat
      BY <1>1, <2>1, TimesNumbers DEF PgMin, PortMin
    <2> HIDE DEF x, y
    <2>4. x - PgMin - PortMin > 0
      BY <2>3
    <2>2. old # 0 /\ x - PgMin - PortMin > 0
      BY <1>1, <1>4, <2>1, <2>4
    <2> QED BY <2>2 DEF InHeadroom, AboveMin, x
  <1>6. PICK h \in Int : Covered(p, c, h)
    BY <1>5 DEF HorizonInv, Coverage
  <1>7. h - d \in Int /\ (h - d) - b <= h - a
    <2> HIDE DEF a, b
    <2> QED BY <1>4
  <1>8. Budget(old, p, h, a)
    BY <1>6 DEF Covered
  <1>9. Budget(new, p, h - d, b)
    <2> HIDE DEF a, b, old, new
    <2> QED BY <1>4, <1>7, <1>8, BudgetKept
  <1>10. /\ StoppingAt(Switch, p, c, h - d - PeerTxTime - Delay)'
         /\ Arrive(toSwitch'[p], c, h - d)
    BY <1>6 DEF Covered
  <1>11. Covered(p, c, h - d)'
    BY <1>9, <1>10 DEF Covered
  <1> QED BY <1>7, <1>11


\* The next state of a handler.
LEMMA BecomeStops ==
    ASSUME NEW u, Become(u), UNCHANGED peer
    PROVE  /\ Lines(u, {}) => Lines(Switch, {})'
           /\ \A p \in Ports, c \in Classes, t \in Int :
                StoppingAt(u, p, c, t) => StoppingAt(Switch, p, c, t)'
  <1>1. Switch'.dev = u.dev /\ Switch'.toPeer = u.toPeer
    BY DEF Become, Switch
  <1> HIDE DEF Switch
  <1>2. Lines(u, {}) => Lines(Switch, {})'
    BY <1>1 DEF Lines
  <1>3. \A p \in Ports, c \in Classes, t \in Int :
          StoppingAt(u, p, c, t) => StoppingAt(Switch, p, c, t)'
    BY <1>1 DEF StoppingAt
  <1> QED BY <1>2, <1>3

\* A handler that charges nothing.
LEMMA HandlerHorizon ==
    ASSUME HorizonInv, TypeInv', NEW u, Become(u), UNCHANGED peer, UNCHANGED toSwitch,
           Lines(u, {}), Keeps(Switch, u), Lower(u.ingress, ingress)
    PROVE  HorizonInv'
  <1>1. Lines(Switch, {})'
    BY BecomeStops
  <1>2. Spacing'
    BY DEF HorizonInv, Spacing
  <1>3. \A p \in Ports, c \in Classes, t \in Int :
          ingress'.hdrm[p][c] # 0 /\ StoppingAt(Switch, p, c, t) => StoppingAt(Switch, p, c, t)'
    BY BecomeStops DEF Keeps, Become
  <1>4. \A p \in Ports, c \in Classes : /\ ingress'.hdrm[p][c] \in Nat
                                        /\ ingress'.hdrm[p][c] <= ingress.hdrm[p][c]
                                        /\ ingress'.pg[p][c] <= ingress.pg[p][c]
    BY DEF Lower, Become
  <1>6. ASSUME NEW p \in Ports, NEW c \in Classes, InHeadroom(p, c)'
        PROVE  \E h \in Int : Covered(p, c, h)'
    <2>1. ingress'.hdrm[p][c] # 0
      BY <1>6 DEF InHeadroom
    <2>2. ASSUME NEW h \in Int, StoppingAt(Switch, p, c, h - PeerTxTime - Delay),
                 Arrive(toSwitch[p], c, h)
          PROVE  /\ StoppingAt(Switch, p, c, h - 0 - PeerTxTime - Delay)'
                 /\ Arrive(toSwitch'[p], c, h - 0)
      <3>1. h - 0 = h /\ h - PeerTxTime - Delay \in Int
        BY TimesNumbers
      <3>2. StoppingAt(Switch, p, c, h - PeerTxTime - Delay)'
        BY <1>3, <2>1, <2>2, <3>1
      <3> QED BY <2>2, <3>1, <3>2
    <2>3. NextArrival(toSwitch[p], peer[p].busy) - 0
            <= NextArrival(toSwitch'[p], peer'[p].busy)
      <3>1. \A wire \in Seq(SentPacket), n \in Int : NextArrival(wire, n) \in Int
        BY PacketNumbers
      <3>2. NextArrival(toSwitch[p], peer[p].busy) \in Int
        BY <3>1, HorizonTypes DEF HorizonInv
      <3> QED BY <3>2
    <2> QED BY <1>4, <1>6, <2>2, <2>3, CoveredKept
  <1> QED BY <1>1, <1>2, <1>6 DEF HorizonInv, Coverage

\* TransmitComplete and Resume: a device is changed, and may transmit.
LEMMA DeviceHorizon ==
    ASSUME HorizonInv, TypeInv', NEW p \in Ports, NEW d, Device(d), TypedDevice(d),
           d.bytes = dev[p].bytes, d.queue = dev[p].queue, d.ctrl = dev[p].ctrl,
           d.busy <= dev[p].busy,
           Become(DequeueAndTransmit([Switch EXCEPT !.dev[p] = d], p)),
           UNCHANGED peer, UNCHANGED toSwitch
    PROVE  HorizonInv'
  <1> DEFINE t == [Switch EXCEPT !.dev[p] = d]
             u == DequeueAndTransmit(t, p)
  <1>1. /\ t.pfc = Switch.pfc /\ t.toPeer = Switch.toPeer /\ t.egress = Switch.egress
        /\ t.dev = [Switch.dev EXCEPT ![p] = d] /\ Shape(t) /\ t.ingress = Switch.ingress
    BY DEF Switch, Shape
  <1>2. Become(u)
    OBVIOUS
  <1>3. /\ Counted(Switch, NothingOwed) /\ Typed(Switch) /\ IngressSums(Switch.ingress)
        /\ NothingOwed \in Owed /\ Switch.dev = dev /\ Switch.toPeer = toPeer
        /\ Switch.ingress = ingress /\ Lines(Switch, {})
        /\ Device(dev[p]) /\ TypedDevice(dev[p])
        /\ \A q \in Ports : toPeer[q] \in Seq(SentFrame)
    BY HorizonTypes DEF HorizonInv
  <1>4. d.busy \in Int /\ dev[p].busy \in Int /\ PauseWait(p) \in Nat
    BY <1>3, TimesNumbers, TimerRanges DEF TypedDevice, Timers
  <1> HIDE DEF t, Switch
  <1>5. Counted(t, NothingOwed)
    BY <1>1, <1>3, CountedPut
  <1>6. Typed(t)
    BY <1>1, <1>3, TypedPut
  <1>7. \A q \in Ports : t.dev[q] = IF q = p THEN d ELSE dev[q]
    BY <1>1, <1>3 DEF Counted, Devices
  <1>8. Lines(t, {p})
    <2>1. Line(dev[p], toPeer[p], p)
      BY <1>3 DEF Lines
    <2>2. d.busy <= After(PauseWait(p))
      BY <1>4, <2>1 DEF Line, After
    <2>3. Line(d, toPeer[p], p)
      BY <2>1, <2>2 DEF Line
    <2>4. ASSUME NEW q \in Ports
          PROVE  /\ Line(t.dev[q], t.toPeer[q], q)
                 /\ q # p /\ t.dev[q].busy = 0 => t.dev[q].ctrl = <<>>
      <3>1. CASE q = p
        BY <1>1, <1>3, <1>7, <2>3, <3>1
      <3>2. CASE q # p
        BY <1>1, <1>3, <1>7, <3>2 DEF Lines
      <3> QED BY <3>1, <3>2
    <2> QED BY <2>4 DEF Lines
  <1>9. Keeps(Switch, t)
    <2> SUFFICES ASSUME NEW q \in Ports, NEW c \in Classes, NEW n \in Int,
                        StoppingAt(Switch, q, c, n)
                 PROVE  StoppingAt(t, q, c, n)
      BY DEF Keeps
    <2>1. CASE q = p
      <3>1. Stopping(peer[p].paused[c], toPeer[p], dev[p].ctrl, dev[p].busy, c, n)
        BY <1>3, <2>1 DEF StoppingAt
      <3>2. Stopping(peer[p].paused[c], toPeer[p], dev[p].ctrl, d.busy, c, n)
        BY <1>4, <3>1, StoppingTransmits
      <3> QED BY <1>1, <1>3, <1>7, <2>1, <3>2 DEF StoppingAt
    <2>2. CASE q # p
      BY <1>1, <1>3, <1>7, <2>2 DEF StoppingAt
    <2> QED BY <2>1, <2>2
  <1>10. Lines(u, {}) /\ Keeps(t, u) /\ Lower(u.ingress, t.ingress)
    <2>1. IngressSums(t.ingress)
      BY <1>1, <1>3
    <2> QED BY <1>3, <1>5, <1>6, <1>8, <2>1, DequeueStops
  <1> HIDE DEF u
  <1>11. Lower(u.ingress, ingress)
    BY <1>1, <1>3, <1>10
  <1>12. Keeps(Switch, u)
    <2>1. \A q \in Ports, c \in Classes : ingress.hdrm[q][c] \in Nat
      BY HorizonTypes DEF HorizonInv
    <2>2. \A q \in Ports, c \in Classes :
            u.ingress.hdrm[q][c] # 0 => t.ingress.hdrm[q][c] # 0
      BY <1>1, <1>3, <1>11, <2>1 DEF Lower
    <2> QED BY <1>9, <1>10, <2>2, KeepsAgain
  <1> QED BY <1>2, <1>10, <1>11, <1>12, HandlerHorizon


\* A packet arrives.  If its class starts to use headroom, the PAUSE that is
\* sent sets the horizon; if it already does, the packet was in the budget.
LEMMA ReceiveHorizon ==
    ASSUME HorizonInv, HeadroomAssumption, TypeInv', NEW p \in Ports, SwitchReceive(p)
    PROVE  HorizonInv'
  <1> DEFINE wire == toSwitch[p]
             busy == peer[p].busy
             pkt == Head(wire)
             b == NextArrival(Tail(wire), busy)
  <1>0. PICK c \in Classes : c = pkt.class
    BY ArrivalFits DEF SwitchReceive
  <1> DEFINE u == DoSwitchSend(Switch, p, pkt.out, c, pkt.size)
             bytes == ingress.hdrm[p][c]
             new == ingress'.hdrm[p][c]
  <1>1. /\ FirstDue(wire) /\ Become(u) /\ toSwitch' = [toSwitch EXCEPT ![p] = Tail(wire)]
        /\ peer' = peer /\ ingress' = u.ingress
    BY <1>0 DEF SwitchReceive, Become
  <1>2. /\ Counted(Switch, NothingOwed) /\ Typed(Switch) /\ IngressSums(Switch.ingress)
        /\ Lines(Switch, {}) /\ Switch.ingress = ingress
        /\ wire \in Seq(SentPacket) /\ busy \in Nat /\ busy <= PeerTxTime
        /\ Spaced(wire, busy, p)
        /\ toSwitch = [q \in Ports |-> toSwitch[q]]
        /\ \A q \in Ports : toSwitch[q] \in Seq(SentPacket) /\ peer[q].busy \in Nat
        /\ \A q \in Ports, e \in Classes :
             ingress.hdrm[q][e] \in Nat
    BY HorizonTypes DEF HorizonInv, Spacing, Coverage, TypeInv
  <1>3. /\ pkt.out \in Ports /\ c \in Classes /\ pkt.size \in PktSizes
        /\ Receives(p) /\ Transmits(pkt.out)
        /\ bytes + pkt.size <= HdrmLimit[p]
        /\ ~InHeadroom(p, c) => bytes + pkt.size <= 3 * MTU
    BY <1>0, <1>1, ArrivalFits
  <1>4. /\ Spaced(Tail(wire), busy, p) /\ NextArrival(wire, busy) = 0 /\ PeerTxTime <= b
        /\ \A e, h : Arrive(wire, e, h) => Arrive(Tail(wire), e, h)
    BY <1>1, <1>2, PacketArrives
  <1>5. Tail(wire) \in Seq(SentPacket) /\ b \in Int
    <2>1. \A w \in Seq(SentPacket), n \in Int : NextArrival(w, n) \in Int
      BY PacketNumbers
    <2>2. Tail(wire) \in Seq(SentPacket)
      <3> HIDE DEF wire
      <3> QED BY <1>1, <1>2, Shifted DEF FirstDue
    <2> DEFINE rest == Tail(wire)
    <2>3. rest \in Seq(SentPacket) /\ busy \in Int
      BY <1>2, <2>2
    <2> HIDE DEF rest, busy
    <2>4. NextArrival(rest, busy) \in Int
      BY <2>1, <2>3
    <2> QED BY <2>2, <2>4 DEF rest
  <1> HIDE DEF u, wire, busy, b
  <1>6. /\ Lines(u, {}) /\ Keeps(Switch, u) /\ Higher(u.ingress, ingress, p, c, pkt.size)
        /\ Uses(u.ingress, p, c) /\ ~Uses(ingress, p, c) =>
             StoppingAt(u, p, c, PauseWait(p) + Delay)
    BY <1>2, <1>3, DoSwitchSendStops DEF u
  <1>7. /\ Lines(Switch, {})'
        /\ \A q \in Ports, e \in Classes, t \in Int :
             StoppingAt(u, q, e, t) => StoppingAt(Switch, q, e, t)'
    BY <1>1, <1>6, BecomeStops
  <1>8. /\ \A q \in Ports, e \in Classes, t \in Int :
             ingress'.hdrm[q][e] # 0 /\ StoppingAt(Switch, q, e, t)
               => StoppingAt(Switch, q, e, t)'
        /\ Higher(ingress', ingress, p, c, pkt.size)
    BY <1>1, <1>6, <1>7 DEF Keeps
  <1>9. toSwitch'[p] = Tail(wire) /\ \A q \in Ports : q # p => toSwitch'[q] = toSwitch[q]
    BY <1>1, <1>2
  <1>10. Spacing'
    BY <1>1, <1>4, <1>9 DEF HorizonInv, Spacing, busy
  <1>11. new \in Nat /\ new <= bytes + pkt.size /\ bytes \in Nat /\ pkt.size \in Nat
    BY <1>2, <1>3, <1>8, TimesNumbers DEF Higher
  <1>12. ASSUME NEW q \in Ports, NEW e \in Classes, <<q, e>> # <<p, c>>
         PROVE  InHeadroom(q, e)' => \E h \in Int : Covered(q, e, h)'
    <2>1. /\ ingress'.hdrm[q][e] \in Nat /\ ingress'.hdrm[q][e] <= ingress.hdrm[q][e]
          /\ ingress'.pg[q][e] <= ingress.pg[q][e]
      BY <1>8, <1>12 DEF Higher
    <2>3. ASSUME InHeadroom(q, e)' PROVE \E h \in Int : Covered(q, e, h)'
      <3>1. ingress'.hdrm[q][e] # 0
        BY <2>3 DEF InHeadroom
      <3>2. ASSUME NEW h \in Int, StoppingAt(Switch, q, e, h - PeerTxTime - Delay),
                   Arrive(toSwitch[q], e, h)
            PROVE  /\ StoppingAt(Switch, q, e, h - 0 - PeerTxTime - Delay)'
                   /\ Arrive(toSwitch'[q], e, h - 0)
        <4>1. h - 0 = h /\ h - PeerTxTime - Delay \in Int
          BY TimesNumbers
        <4>2. StoppingAt(Switch, q, e, h - PeerTxTime - Delay)'
          BY <1>8, <3>1, <3>2, <4>1
        <4>3. Arrive(toSwitch'[q], e, h)
          BY <1>4, <1>9, <3>2 DEF wire
        <4> QED BY <4>1, <4>2, <4>3
      <3>3. NextArrival(toSwitch[q], peer[q].busy) - 0
              <= NextArrival(toSwitch'[q], peer'[q].busy)
        <4>1. CASE q = p
          <5>1. NextArrival(toSwitch[q], peer[q].busy) = 0
            BY <1>4, <4>1 DEF wire, busy
          <5>2. NextArrival(toSwitch'[q], peer'[q].busy) = b
            BY <1>1, <1>9, <4>1 DEF b, busy
          <5> QED BY <1>4, <1>5, <5>1, <5>2, TimesNumbers
        <4>2. CASE q # p
          <5>1. \A w \in Seq(SentPacket), n \in Int : NextArrival(w, n) \in Int
            BY PacketNumbers
          <5>2. NextArrival(toSwitch[q], peer[q].busy) \in Int
            BY <1>2, <5>1
          <5> QED BY <1>1, <1>9, <4>2, <5>2
        <4> QED BY <4>1, <4>2
      <3> QED BY <2>1, <2>3, <3>2, <3>3, CoveredKept
    <2> QED BY <2>3
  <1>14. ASSUME InHeadroom(p, c)', InHeadroom(p, c)
         PROVE  \E h \in Int : Covered(p, c, h)'
    <2>1. PICK h \in Int : Covered(p, c, h)
      BY <1>3, <1>14 DEF HorizonInv, Coverage
    <2>2. Arrive(wire, c, h) /\ Budget(bytes, p, h, 0)
      BY <1>4, <2>1 DEF Covered, wire, busy
    <2>3. 0 <= h
      <3>1. pkt = wire[1] /\ 1 \in DOMAIN wire /\ pkt.left = 1
        BY <1>1, <1>2, Shifted DEF FirstDue, Due
      <3> QED BY <1>0, <2>2, <3>1 DEF Arrive
    <2>4. Budget(bytes + pkt.size, p, h, b)
      <3> HIDE DEF bytes
      <3> QED BY <1>3, <1>4, <1>5, <1>11, <2>2, <2>3, BudgetSpent
    <2>5. Budget(new, p, h, b)
      <3> DEFINE all == bytes + pkt.size
      <3>1. all \in Int /\ new \in Int /\ new <= all /\ h - b <= h - b
        BY <1>5, <1>11
      <3>2. Budget(all, p, h, b)
        BY <2>4
      <3> HIDE DEF all, new
      <3> QED BY <1>5, <3>1, <3>2, BudgetKept
    <2>6. StoppingAt(Switch, p, c, h - PeerTxTime - Delay)'
      <3>1. new # 0 /\ h - PeerTxTime - Delay \in Int
        BY <1>14, TimesNumbers DEF InHeadroom
      <3>2. StoppingAt(Switch, p, c, h - PeerTxTime - Delay)
        BY <2>1 DEF Covered
      <3> QED BY <1>3, <1>8, <3>1, <3>2
    <2>7. Arrive(toSwitch'[p], c, h)
      BY <1>4, <1>9, <2>2
    <2>8. NextArrival(toSwitch'[p], peer'[p].busy) = b
      BY <1>1, <1>9 DEF b, busy
    <2>9. Covered(p, c, h)'
      BY <2>5, <2>6, <2>7, <2>8 DEF Covered
    <2> QED BY <2>9
  <1>15. ASSUME InHeadroom(p, c)', ~InHeadroom(p, c)
         PROVE  \E h \in Int : Covered(p, c, h)'
    <2>0. PICK h \in Int : h = FirstHorizon(p)
      BY TimesNumbers DEF FirstHorizon
    <2>1. new <= 3 * MTU
      <3> DEFINE all == bytes + pkt.size
      <3>1. all \in Int /\ all <= 3 * MTU /\ new <= all /\ new \in Int /\ 3 * MTU \in Int
        BY <1>3, <1>11, <1>15, TimesNumbers
      <3> HIDE DEF all, new
      <3> QED BY <3>1
    <2>2. h \in Int /\ Budget(new, p, h, b)
      <3> HIDE DEF new
      <3> QED BY <1>3, <1>4, <1>5, <1>11, <2>0, <2>1, BudgetOpened
    <2>3. h - PeerTxTime - Delay = PauseWait(p) + Delay /\ PauseWait(p) + Delay \in Int
          /\ PeerTxTime + Delay <= h
      BY <2>0, TimesNumbers DEF FirstHorizon
    <2>4. StoppingAt(Switch, p, c, h - PeerTxTime - Delay)'
      <3>1. Uses(u.ingress, p, c) /\ ~Uses(ingress, p, c)
        BY <1>1, <1>15 DEF Uses, InHeadroom, AboveMin
      <3>2. StoppingAt(u, p, c, PauseWait(p) + Delay)
        BY <1>6, <3>1
      <3> QED BY <1>3, <1>7, <2>3, <3>2
    <2>5. Arrive(toSwitch'[p], c, h)
      <3>1. ASSUME NEW i \in DOMAIN Tail(wire) PROVE Tail(wire)[i].left - 1 <= h
        <4> DEFINE x == Tail(wire)[i].left
        <4>1. x \in Nat
          BY <1>5, <3>1, PacketNumbers
        <4>2. x <= busy + Delay + 1
          BY <1>4, <3>1 DEF Spaced
        <4> HIDE DEF x
        <4>3. x - 1 <= h
          BY <1>2, <2>3, <4>1, <4>2, TimesNumbers
        <4> QED BY <4>3 DEF x
      <3> QED BY <1>9, <3>1 DEF Arrive
    <2>6. NextArrival(toSwitch'[p], peer'[p].busy) = b
      BY <1>1, <1>9 DEF b, busy
    <2>7. Covered(p, c, h)'
      BY <2>2, <2>4, <2>5, <2>6 DEF Covered
    <2> QED BY <2>2, <2>7
  <1>16. ASSUME NEW q \in Ports, NEW e \in Classes
         PROVE  InHeadroom(q, e)' => \E h \in Int : Covered(q, e, h)'
    <2>1. CASE <<q, e>> = <<p, c>>
      <3>1. q = p /\ e = c
        BY <2>1
      <3> QED BY <1>14, <1>15, <3>1
    <2> QED BY <1>12, <2>1
  <1>17. Coverage'
    BY <1>16 DEF Coverage
  <1> QED BY <1>7, <1>10, <1>17 DEF HorizonInv


LEMMA ArrivalNumbers ==
    ASSUME TypeInv
    PROVE  \A p \in Ports : NextArrival(toSwitch[p], peer[p].busy) \in Int
  <1>1. \A wire \in Seq(SentPacket), n \in Int : NextArrival(wire, n) \in Int
    BY PacketNumbers
  <1>2. ASSUME NEW p \in Ports PROVE NextArrival(toSwitch[p], peer[p].busy) \in Int
    <2> DEFINE wire == toSwitch[p]
               busy == peer[p].busy
    <2>1. wire \in Seq(SentPacket) /\ busy \in Int
      BY HorizonTypes
    <2> HIDE DEF wire, busy
    <2>2. NextArrival(wire, busy) \in Int
      BY <1>1, <2>1
    <2> QED BY <2>2 DEF wire, busy
  <1> QED BY <1>2

\* A step that leaves the buffer alone and moves the horizons by d ticks.
LEMMA SenderHorizon ==
    ASSUME HorizonInv, TypeInv', UNCHANGED ingress, Lines(Switch, {})', Spacing', NEW d \in Int,
           \A p \in Ports, c \in Classes : InHeadroom(p, c) =>
             \A h \in Int : StoppingAt(Switch, p, c, h - PeerTxTime - Delay)
                              /\ Arrive(toSwitch[p], c, h) =>
               /\ StoppingAt(Switch, p, c, h - d - PeerTxTime - Delay)'
               /\ Arrive(toSwitch'[p], c, h - d),
           \A p \in Ports : NextArrival(toSwitch[p], peer[p].busy) - d
                              <= NextArrival(toSwitch'[p], peer'[p].busy)
    PROVE  HorizonInv'
  <1>2. ASSUME NEW p \in Ports, NEW c \in Classes, InHeadroom(p, c)'
        PROVE  \E h \in Int : Covered(p, c, h)'
    <2>1. InHeadroom(p, c)
      BY <1>2 DEF InHeadroom
    <2>2. \A h \in Int : StoppingAt(Switch, p, c, h - PeerTxTime - Delay)
                           /\ Arrive(toSwitch[p], c, h) =>
            /\ StoppingAt(Switch, p, c, h - d - PeerTxTime - Delay)'
            /\ Arrive(toSwitch'[p], c, h - d)
      BY <2>1
    <2>3. NextArrival(toSwitch[p], peer[p].busy) - d
            <= NextArrival(toSwitch'[p], peer'[p].busy)
      OBVIOUS
    <2>4. ingress.hdrm[p][c] \in Nat /\ ingress.pg[p][c] \in Nat
      BY HorizonTypes DEF HorizonInv
    <2>5. ingress'.hdrm[p][c] <= ingress.hdrm[p][c] /\ ingress'.pg[p][c] <= ingress.pg[p][c]
      BY <2>4
    <2> QED BY <1>2, <2>2, <2>3, <2>5, CoveredKept
  <1> QED BY <1>2 DEF HorizonInv, Coverage

\* Steps of the clocks' owners that touch neither frames nor packets: the
\* switch's device is paused, or the MMU's pause timer runs out.
LEMMA QuietHorizon ==
    ASSUME HorizonInv, TypeInv', UNCHANGED <<ingress, peer, toPeer, toSwitch>>,
           \A q \in Ports : /\ dev'[q].ctrl = dev[q].ctrl /\ dev'[q].busy = dev[q].busy
                            /\ dev'[q].queue = dev[q].queue
    PROVE  HorizonInv'
  <1>1. Lines(Switch, {})'
    BY DEF HorizonInv, Lines, Line, Switch
  <1>2. Spacing'
    BY DEF HorizonInv, Spacing
  <1>3. ASSUME NEW p \in Ports, NEW c \in Classes, NEW h \in Int,
               StoppingAt(Switch, p, c, h - PeerTxTime - Delay), Arrive(toSwitch[p], c, h)
        PROVE  /\ StoppingAt(Switch, p, c, h - 0 - PeerTxTime - Delay)'
               /\ Arrive(toSwitch'[p], c, h - 0)
    <2>1. h - 0 = h
      OBVIOUS
    <2> QED BY <1>3, <2>1 DEF StoppingAt, Switch
  <1>4. \A p \in Ports : NextArrival(toSwitch[p], peer[p].busy) - 0
                           <= NextArrival(toSwitch'[p], peer'[p].busy)
    <2>1. \A p \in Ports : NextArrival(toSwitch[p], peer[p].busy) \in Int
      BY ArrivalNumbers DEF HorizonInv
    <2> QED BY <2>1
  <1> QED BY <1>1, <1>2, <1>3, <1>4, SenderHorizon

\* A PFC frame reaches the sender.
LEMMA FrameHorizon ==
    ASSUME HorizonInv, TypeInv', NEW p \in Ports, PeerReceive(p)
    PROVE  HorizonInv'
  <1> DEFINE wire == toPeer[p]
             f == Head(wire)
             e == [peer[p] EXCEPT !.paused[f.class] = f.pause,
                                  !.resumeIn[f.class] = IF f.pause THEN After(PauseTime) ELSE 0]
  <1>1. /\ wire # <<>> /\ toPeer' = [toPeer EXCEPT ![p] = Tail(wire)]
        /\ peer' = [peer EXCEPT ![p] = e] /\ UNCHANGED <<ingress, dev, toSwitch>>
    BY DEF PeerReceive, FirstDue
  <1>2. /\ wire \in Seq(SentFrame) /\ peer[p] \in TypedSender
        /\ peer = [q \in Ports |-> peer[q]] /\ toPeer = [q \in Ports |-> toPeer[q]]
        /\ Lines(Switch, {}) /\ Switch.dev = dev /\ Switch.toPeer = toPeer
    BY HorizonTypes, TypedHere DEF HorizonInv, TypeInv
  <1>3. /\ e.busy = peer[p].busy
        /\ \A c \in Classes : /\ f.class = c => e.paused[c] = f.pause
                              /\ f.class # c => e.paused[c] = peer[p].paused[c]
    BY <1>2 DEF TypedSender, FlagSet
  <1> HIDE DEF e, wire
  <1>4. /\ peer'[p] = e /\ toPeer'[p] = Tail(wire)
        /\ \A q \in Ports : q # p => peer'[q] = peer[q] /\ toPeer'[q] = toPeer[q]
        /\ \A q \in Ports : peer'[q].busy = peer[q].busy
    BY <1>1, <1>2, <1>3
  <1>5. Switch'.dev = dev /\ Switch'.toPeer = toPeer'
    BY <1>1 DEF Switch
  <1> HIDE DEF Switch
  <1>6. Lines(Switch, {})'
    <2>1. Ordered(wire)
      BY <1>2 DEF Lines, Line, wire
    <2>2. Ordered(Tail(wire))
      BY <1>1, <1>2, <2>1, OrderedWires
    <2>3. ASSUME NEW q \in Ports
          PROVE  /\ Line(Switch'.dev[q], Switch'.toPeer[q], q)
                 /\ Switch'.dev[q].busy = 0 => Switch'.dev[q].ctrl = <<>>
      <3>1. CASE q = p
        <4>1. Line(dev[p], wire, p) /\ (dev[p].busy = 0 => dev[p].ctrl = <<>>)
          BY <1>2 DEF Lines, wire
        <4>2. Line(dev[p], Tail(wire), p)
          BY <2>2, <4>1 DEF Line
        <4> QED BY <1>4, <1>5, <3>1, <4>1, <4>2
      <3>2. CASE q # p
        BY <1>2, <1>4, <1>5, <3>2 DEF Lines
      <3> QED BY <3>1, <3>2
    <2> QED BY <2>3 DEF Lines
  <1>7. Spacing'
    BY <1>1, <1>4 DEF HorizonInv, Spacing
  <1>8. ASSUME NEW q \in Ports, NEW c \in Classes, NEW h \in Int,
               StoppingAt(Switch, q, c, h - PeerTxTime - Delay), Arrive(toSwitch[q], c, h)
        PROVE  /\ StoppingAt(Switch, q, c, h - 0 - PeerTxTime - Delay)'
               /\ Arrive(toSwitch'[q], c, h - 0)
    <2>1. h - 0 = h
      OBVIOUS
    <2>2. PICK t : t = h - PeerTxTime - Delay
      OBVIOUS
    <2>3. StoppingAt(Switch, q, c, t)'
      <3>1. CASE q = p
        <4>1. Stopping(peer[p].paused[c], wire, dev[p].ctrl, dev[p].busy, c, t)
          BY <1>2, <1>8, <2>2, <3>1 DEF StoppingAt, wire
        <4>2. Stopping(e.paused[c], Tail(wire), dev[p].ctrl, dev[p].busy, c, t)
          BY <1>1, <1>2, <1>3, <4>1, StoppingReceived
        <4> QED BY <1>4, <1>5, <3>1, <4>2 DEF StoppingAt
      <3>2. CASE q # p
        BY <1>2, <1>4, <1>5, <1>8, <2>2, <3>2 DEF StoppingAt
      <3> QED BY <3>1, <3>2
    <2> QED BY <1>1, <1>8, <2>1, <2>2, <2>3
  <1>9. \A q \in Ports : NextArrival(toSwitch[q], peer[q].busy) - 0
                           <= NextArrival(toSwitch'[q], peer'[q].busy)
    <2>1. \A q \in Ports : NextArrival(toSwitch[q], peer[q].busy) \in Int
      BY ArrivalNumbers DEF HorizonInv
    <2> QED BY <1>1, <1>4, <2>1
  <1> QED BY <1>1, <1>6, <1>7, <1>8, <1>9, SenderHorizon

\* A pause of a class that uses no headroom runs out at its sender.
LEMMA ResumeHorizon ==
    ASSUME HorizonInv, TypeInv', NEW p \in Ports, NEW c \in Classes, PeerResume(p, c),
           ~InHeadroom(p, c)
    PROVE  HorizonInv'
  <1> DEFINE e == [peer[p] EXCEPT !.paused[c] = FALSE, !.resumeIn[c] = 0]
  <1>1. /\ peer' = [peer EXCEPT ![p] = e]
        /\ UNCHANGED <<ingress, dev, toPeer, toSwitch>>
    BY DEF PeerResume
  <1>2. /\ peer[p] \in TypedSender /\ peer = [q \in Ports |-> peer[q]]
        /\ Lines(Switch, {}) /\ Switch.dev = dev /\ Switch.toPeer = toPeer
    BY HorizonTypes DEF HorizonInv, TypeInv
  <1>3. /\ e.busy = peer[p].busy
        /\ \A d \in Classes : d # c => e.paused[d] = peer[p].paused[d]
    BY <1>2 DEF TypedSender, FlagSet
  <1> HIDE DEF e
  <1>4. /\ \A q \in Ports, d \in Classes :
             <<q, d>> # <<p, c>> => peer'[q].paused[d] = peer[q].paused[d]
        /\ \A q \in Ports : peer'[q].busy = peer[q].busy
    BY <1>1, <1>2, <1>3
  <1>5. Switch'.dev = Switch.dev /\ Switch'.toPeer = Switch.toPeer
    BY <1>1 DEF Switch
  <1> HIDE DEF Switch
  <1>6. Lines(Switch, {})'
    BY <1>2, <1>5 DEF Lines
  <1>7. Spacing'
    BY <1>1, <1>4 DEF HorizonInv, Spacing
  <1>8. ASSUME NEW q \in Ports, NEW d \in Classes, InHeadroom(q, d), NEW h \in Int,
               StoppingAt(Switch, q, d, h - PeerTxTime - Delay), Arrive(toSwitch[q], d, h)
        PROVE  /\ StoppingAt(Switch, q, d, h - 0 - PeerTxTime - Delay)'
               /\ Arrive(toSwitch'[q], d, h - 0)
    <2>1. h - 0 = h
      OBVIOUS
    <2>2. peer'[q].paused[d] = peer[q].paused[d]
      BY <1>4, <1>8
    <2> QED BY <1>1, <1>5, <1>8, <2>1, <2>2 DEF StoppingAt
  <1>9. \A q \in Ports : NextArrival(toSwitch[q], peer[q].busy) - 0
                           <= NextArrival(toSwitch'[q], peer'[q].busy)
    <2>1. \A q \in Ports : NextArrival(toSwitch[q], peer[q].busy) \in Int
      BY ArrivalNumbers DEF HorizonInv
    <2> QED BY <1>1, <1>4, <2>1
  <1> QED BY <1>1, <1>6, <1>7, <1>8, <1>9, SenderHorizon


\* A sender transmits a packet: of a class that uses headroom only while it
\* is sure to arrive before the horizon.
LEMMA PacketHorizon ==
    ASSUME HorizonInv, TypeInv', NEW p \in Ports, NEW out \in Ports, NEW c \in Classes,
           NEW size \in PktSizes, PeerSend(p, out, c, size)
    PROVE  HorizonInv'
  <1> DEFINE wire == toSwitch[p]
             pkt == [out |-> out, class |-> c, size |-> size,
                     left |-> After(PeerTxTime + Delay)]
             e == [peer[p] EXCEPT !.busy = PeerTxTime]
  <1>1. /\ <<p, out>> \in Routes /\ peer[p].busy = 0 /\ ~peer[p].paused[c]
        /\ peer' = [peer EXCEPT ![p] = e] /\ toSwitch' = [toSwitch EXCEPT ![p] = Append(wire, pkt)]
        /\ UNCHANGED <<ingress, dev, toPeer>>
    BY DEF PeerSend
  <1>2. /\ wire \in Seq(SentPacket) /\ peer[p] \in TypedSender
        /\ peer = [q \in Ports |-> peer[q]] /\ toSwitch = [q \in Ports |-> toSwitch[q]]
        /\ Lines(Switch, {}) /\ Switch.dev = dev /\ Switch.toPeer = toPeer
        /\ Spaced(wire, 0, p) /\ toPeer[p] \in Seq(SentFrame)
    BY <1>1, HorizonTypes DEF HorizonInv, TypeInv, Spacing
  <1>3. /\ pkt \in SentPacket /\ pkt.left = After(PeerTxTime + Delay)
        /\ pkt.class = c /\ pkt.out = out
    BY TimerRanges DEF SentPacket
  <1>4. e.busy = PeerTxTime /\ e.paused = peer[p].paused
    BY <1>2 DEF TypedSender
  <1> HIDE DEF e, wire, pkt
  <1>5. /\ peer'[p] = e /\ toSwitch'[p] = Append(wire, pkt)
        /\ \A q \in Ports : q # p => peer'[q] = peer[q] /\ toSwitch'[q] = toSwitch[q]
        /\ \A q \in Ports : peer'[q].paused = peer[q].paused
    BY <1>1, <1>2, <1>4
  <1>6. Switch'.dev = Switch.dev /\ Switch'.toPeer = Switch.toPeer
    BY <1>1 DEF Switch
  <1> HIDE DEF Switch
  <1>7. Lines(Switch, {})'
    BY <1>2, <1>6 DEF Lines
  <1>8. /\ Spaced(Append(wire, pkt), PeerTxTime, p)
        /\ NextArrival(Append(wire, pkt), PeerTxTime) = NextArrival(wire, 0)
        /\ \A d, h : /\ Arrive(wire, d, h)
                     /\ pkt.class = d => PeerTxTime + Delay <= h
                     => Arrive(Append(wire, pkt), d, h)
    BY <1>1, <1>2, <1>3, PacketLeaves
  <1>9. Spacing'
    <2> SUFFICES ASSUME NEW q \in Ports PROVE Spaced(toSwitch'[q], peer'[q].busy, q)
      BY DEF Spacing
    <2>1. CASE q = p
      BY <1>4, <1>5, <1>8, <2>1
    <2>2. CASE q # p
      BY <1>5, <2>2 DEF HorizonInv, Spacing
    <2> QED BY <2>1, <2>2
  <1>10. ASSUME NEW q \in Ports, NEW d \in Classes, NEW h \in Int,
                StoppingAt(Switch, q, d, h - PeerTxTime - Delay), Arrive(toSwitch[q], d, h)
         PROVE  /\ StoppingAt(Switch, q, d, h - 0 - PeerTxTime - Delay)'
                /\ Arrive(toSwitch'[q], d, h - 0)
    <2>1. h - 0 = h
      OBVIOUS
    <2>2. StoppingAt(Switch, q, d, h - PeerTxTime - Delay)'
      BY <1>5, <1>6, <1>10 DEF StoppingAt
    <2>3. CASE q = p
      <3>1. Arrive(wire, d, h)
        BY <1>10, <2>3 DEF wire
      <3>2. ASSUME c = d PROVE PeerTxTime + Delay <= h
        <4> DEFINE t == h - PeerTxTime - Delay
                   paused == peer[p].paused[d]
                   frames == toPeer[p]
                   device == dev[p]
        <4>0. t \in Int
          BY TimesNumbers
        <4>1. paused # TRUE
          <5>1. ~paused
            BY <1>1, <3>2
          <5> HIDE DEF paused
          <5> QED BY <5>1, Zenon
        <4>2. Stopping(paused, frames, device.ctrl, device.busy, d, t)
          BY <1>2, <1>10, <2>3 DEF StoppingAt
        <4>3. \A i \in DOMAIN frames : frames[i].left \in Nat /\ 1 <= frames[i].left
          <5>1. Ordered(frames)
            BY <1>2 DEF Lines, Line
          <5>2. \A f \in SentFrame : f.left \in Nat
            BY TimesNumbers DEF SentFrame, Timers, After
          <5>3. \A i \in DOMAIN frames : frames[i] \in SentFrame
            BY <1>2
          <5> QED BY <5>1, <5>2, <5>3 DEF Ordered
        <4> HIDE DEF t, paused, frames, device
        <4>4. 0 <= t
          BY <4>0, <4>1, <4>2, <4>3, StoppingLater
        <4> QED BY <4>4, TimesNumbers DEF t
      <3>3. Arrive(Append(wire, pkt), d, h)
        BY <1>3, <1>8, <3>1, <3>2
      <3> QED BY <1>5, <2>1, <2>2, <2>3, <3>3
    <2>4. CASE q # p
      BY <1>5, <1>10, <2>1, <2>2, <2>4
    <2> QED BY <2>3, <2>4
  <1>11. \A q \in Ports : NextArrival(toSwitch[q], peer[q].busy) - 0
                            <= NextArrival(toSwitch'[q], peer'[q].busy)
    <2>1. \A q \in Ports : NextArrival(toSwitch[q], peer[q].busy) \in Int
      BY ArrivalNumbers DEF HorizonInv
    <2>2. NextArrival(toSwitch'[p], peer'[p].busy) = NextArrival(toSwitch[p], peer[p].busy)
      BY <1>1, <1>4, <1>5, <1>8 DEF wire
    <2>3. \A q \in Ports : NextArrival(toSwitch'[q], peer'[q].busy)
                             = NextArrival(toSwitch[q], peer[q].busy)
      BY <1>5, <2>2
    <2> QED BY <2>1, <2>3
  <1> QED BY <1>1, <1>7, <1>9, <1>10, <1>11, SenderHorizon

\* The clock advances: every horizon is a tick nearer.
LEMMA TickHorizon ==
    ASSUME HorizonInv, TypeInv', Tick
    PROVE  HorizonInv'
  <1>1. /\ dev' = [p \in Ports |-> Elapsed(dev[p])]
        /\ peer' = [p \in Ports |-> Elapsed(peer[p])]
        /\ toPeer' = [p \in Ports |-> EarlierWire(toPeer[p])]
        /\ toSwitch' = [p \in Ports |-> EarlierWire(toSwitch[p])]
        /\ UNCHANGED ingress
        /\ \A p \in Ports : dev[p].busy # 1 /\ ~FirstDue(toPeer[p]) /\ ~FirstDue(toSwitch[p])
    BY DEF Tick, NothingDue, Due
  <1>2. /\ Lines(Switch, {}) /\ Switch.dev = dev /\ Switch.toPeer = toPeer
        /\ \A p \in Ports : /\ Device(dev[p]) /\ TypedDevice(dev[p])
                            /\ toPeer[p] \in Seq(SentFrame) /\ toSwitch[p] \in Seq(SentPacket)
                            /\ peer[p] \in TypedSender /\ peer[p].busy \in Nat
                            /\ Spaced(toSwitch[p], peer[p].busy, p)
    BY HorizonTypes DEF HorizonInv, Spacing
  <1>3. ASSUME NEW p \in Ports
        PROVE  /\ dev'[p].ctrl = dev[p].ctrl /\ dev'[p].queue = dev[p].queue
               /\ dev'[p].busy = Earlier(dev[p].busy)
               /\ peer'[p].paused = peer[p].paused /\ peer'[p].busy = Earlier(peer[p].busy)
               /\ toPeer'[p] = EarlierWire(toPeer[p])
               /\ toSwitch'[p] = EarlierWire(toSwitch[p])
    BY <1>1, <1>2 DEF Elapsed, Device, TypedSender
  <1>4. Switch'.dev = dev' /\ Switch'.toPeer = toPeer'
    BY DEF Switch
  <1> HIDE DEF Switch
  <1>5. ASSUME NEW p \in Ports
        PROVE  /\ dev[p].busy \in Nat /\ Earlier(dev[p].busy) \in Nat
               /\ Earlier(dev[p].busy) <= dev[p].busy
               /\ Earlier(dev[p].busy) = 0 => dev[p].ctrl = <<>>
               /\ dev[p].ctrl # <<>> => dev[p].busy # 0
    <2>1. dev[p].busy \in Nat /\ dev[p].busy # 1
      BY <1>1, <1>2, TimesNumbers DEF TypedDevice, Timers, After
    <2>2. dev[p].busy = 0 => dev[p].ctrl = <<>>
      BY <1>2 DEF Lines
    <2> QED BY <2>1, <2>2 DEF Earlier
  <1>6. ASSUME NEW p \in Ports
        PROVE  /\ \A i \in DOMAIN toPeer[p] : 2 <= toPeer[p][i].left
               /\ Ordered(EarlierWire(toPeer[p])) /\ Line(dev[p], toPeer[p], p)
    <2> DEFINE wire == toPeer[p]
    <2>1. wire \in Seq(SentFrame) /\ Ordered(wire) /\ ~FirstDue(wire) /\ Line(dev[p], wire, p)
      BY <1>1, <1>2 DEF Lines, Line
    <2> HIDE DEF wire
    <2>2. (\A i \in DOMAIN wire : 2 <= wire[i].left) /\ Ordered(EarlierWire(wire))
      BY <2>1, OrderedWires
    <2> QED BY <2>1, <2>2 DEF wire
  <1>7. Lines(Switch, {})'
    <2>1. ASSUME NEW p \in Ports
          PROVE  /\ Line(dev'[p], toPeer'[p], p)
                 /\ dev'[p].busy = 0 => dev'[p].ctrl = <<>>
      <3>1. Earlier(dev[p].busy) <= After(PauseWait(p))
        BY <1>5, <1>6, TimesNumbers DEF Line, After
      <3>2. Line(dev'[p], toPeer'[p], p)
        BY <1>3, <1>6, <3>1 DEF Line
      <3> QED BY <1>3, <1>5, <3>2
    <2> QED BY <1>4, <2>1 DEF Lines
  <1>8. ASSUME NEW p \in Ports
        PROVE  /\ Spaced(toSwitch'[p], peer'[p].busy, p)
               /\ NextArrival(toSwitch[p], peer[p].busy) - 1
                    <= NextArrival(toSwitch'[p], peer'[p].busy)
               /\ \A c : \A h \in Int :
                    Arrive(toSwitch[p], c, h) => Arrive(toSwitch'[p], c, h - 1)
    <2> DEFINE wire == toSwitch[p]
               busy == peer[p].busy
    <2>1. wire \in Seq(SentPacket) /\ busy \in Nat /\ Spaced(wire, busy, p) /\ ~FirstDue(wire)
      BY <1>1, <1>2
    <2>2. toSwitch'[p] = EarlierWire(wire) /\ peer'[p].busy = Earlier(busy)
      BY <1>3
    <2> HIDE DEF wire, busy
    <2>3. /\ Spaced(EarlierWire(wire), Earlier(busy), p)
          /\ NextArrival(wire, busy) - 1 <= NextArrival(EarlierWire(wire), Earlier(busy))
          /\ \A c : \A h \in Int : Arrive(wire, c, h) => Arrive(EarlierWire(wire), c, h - 1)
      BY <2>1, PacketsTick
    <2>4. /\ Spaced(toSwitch'[p], peer'[p].busy, p)
          /\ NextArrival(wire, busy) - 1 <= NextArrival(toSwitch'[p], peer'[p].busy)
          /\ \A c : \A h \in Int : Arrive(wire, c, h) => Arrive(toSwitch'[p], c, h - 1)
      BY <2>2, <2>3
    <2> QED BY <2>4 DEF wire, busy
  <1>9. Spacing'
    BY <1>8 DEF Spacing
  <1>10. ASSUME NEW p \in Ports, NEW c \in Classes, NEW h \in Int,
                StoppingAt(Switch, p, c, h - PeerTxTime - Delay), Arrive(toSwitch[p], c, h)
         PROVE  /\ StoppingAt(Switch, p, c, h - 1 - PeerTxTime - Delay)'
                /\ Arrive(toSwitch'[p], c, h - 1)
    <2> DEFINE wire == toPeer[p]
               d == dev[p]
               paused == peer[p].paused[c]
    <2>1. PICK t \in Int : t = h - PeerTxTime - Delay /\ t - 1 = h - 1 - PeerTxTime - Delay
      BY TimesNumbers
    <2>2. Stopping(paused, wire, d.ctrl, d.busy, c, t)
      BY <1>2, <1>10, <2>1 DEF StoppingAt
    <2>3. /\ wire \in Seq(SentFrame) /\ \A i \in DOMAIN wire : 2 <= wire[i].left
          /\ d.busy \in Nat /\ d.busy # 1 /\ (d.ctrl # <<>> => d.busy # 0)
      BY <1>1, <1>2, <1>5, <1>6
    <2>4. /\ toPeer'[p] = EarlierWire(wire) /\ dev'[p].ctrl = d.ctrl
          /\ dev'[p].busy = Earlier(d.busy) /\ peer'[p].paused[c] = paused
      BY <1>3
    <2> HIDE DEF wire, d, paused
    <2>5. Stopping(paused, EarlierWire(wire), d.ctrl, Earlier(d.busy), c, t - 1)
      BY <2>2, <2>3, StoppingTicks
    <2>6. StoppingAt(Switch, p, c, t - 1)'
      BY <1>4, <2>4, <2>5 DEF StoppingAt
    <2>7. Arrive(toSwitch'[p], c, h - 1)
      BY <1>8, <1>10
    <2> QED BY <2>1, <2>6, <2>7
  <1>11. 1 \in Int
    OBVIOUS
  <1> QED BY <1>1, <1>7, <1>8, <1>9, <1>10, <1>11, SenderHorizon


LEMMA StepHorizon ==
    ASSUME HeadroomAssumption
    PROVE  HorizonInv /\ PausesOutlast /\ [Next]_vars => HorizonInv'
  <1> SUFFICES ASSUME HorizonInv, PausesOutlast, [Next]_vars PROVE HorizonInv'
    OBVIOUS
  <1>1. TypeInv'
    BY StepTyped DEF HorizonInv
  <1>2. \A p \in Ports : Device(dev[p]) /\ TypedDevice(dev[p])
    BY HorizonTypes DEF HorizonInv
  <1>3. dev = [p \in Ports |-> dev[p]]
    BY HorizonTypes DEF HorizonInv, Counted, Devices
  <1>4. ASSUME NEW p \in Ports, SwitchReceive(p) PROVE HorizonInv'
    BY <1>1, <1>4, ReceiveHorizon
  <1>5. ASSUME NEW p \in Ports, TransmitComplete(p) PROVE HorizonInv'
    <2> DEFINE d == Ready(dev[p])
    <2>1. /\ Device(d) /\ TypedDevice(d) /\ d.bytes = dev[p].bytes
          /\ d.queue = dev[p].queue /\ d.ctrl = dev[p].ctrl /\ d.busy = 0
      BY <1>2, DeviceKept, ReadyTyped DEF Ready, Device
    <2>2. d.busy <= dev[p].busy
      BY <1>5, <2>1 DEF TransmitComplete, Due
    <2>3. /\ Become(DequeueAndTransmit([Switch EXCEPT !.dev[p] = d], p))
          /\ UNCHANGED peer /\ UNCHANGED toSwitch
      BY <1>5 DEF TransmitComplete, Switch
    <2> HIDE DEF d
    <2> QED BY <1>1, <2>1, <2>2, <2>3, DeviceHorizon
  <1>6. ASSUME NEW p \in Ports, NEW c \in Classes, Resume(p, c) PROVE HorizonInv'
    <2> DEFINE d == Unpaused(dev[p], c)
    <2>1. /\ Device(d) /\ TypedDevice(d) /\ d.bytes = dev[p].bytes
          /\ d.queue = dev[p].queue /\ d.ctrl = dev[p].ctrl /\ d.busy = dev[p].busy
      BY <1>2, DeviceKept, PauseTyped DEF Unpaused, Device
    <2>2. d.busy <= dev[p].busy
      <3>1. dev[p].busy \in Nat
        BY <1>2, TimesNumbers DEF TypedDevice, Timers, After
      <3> QED BY <2>1, <3>1
    <2>3. /\ Become(DequeueAndTransmit([Switch EXCEPT !.dev[p] = d], p))
          /\ UNCHANGED peer /\ UNCHANGED toSwitch
      BY <1>6 DEF Resume, Switch
    <2> HIDE DEF d
    <2> QED BY <1>1, <2>1, <2>2, <2>3, DeviceHorizon
  <1>7. ASSUME NEW p \in Ports, NEW c \in Classes, DevicePause(p, c) PROVE HorizonInv'
    <2> DEFINE d == Paused(dev[p], c)
    <2>1. d.queue = dev[p].queue /\ d.ctrl = dev[p].ctrl /\ d.busy = dev[p].busy
      BY <1>2 DEF Paused, Device
    <2>2. dev' = [dev EXCEPT ![p] = d] /\ UNCHANGED <<ingress, peer, toPeer, toSwitch>>
      BY <1>7 DEF DevicePause
    <2> HIDE DEF d
    <2>3. \A q \in Ports : /\ dev'[q].ctrl = dev[q].ctrl /\ dev'[q].busy = dev[q].busy
                           /\ dev'[q].queue = dev[q].queue
      BY <1>3, <2>1, <2>2
    <2> QED BY <1>1, <2>2, <2>3, QuietHorizon
  <1>8. ASSUME NEW p \in Ports, NEW c \in Classes, PauseExpires(p, c) PROVE HorizonInv'
    <2>1. UNCHANGED <<ingress, peer, toPeer, toSwitch>> /\ dev' = dev
      BY <1>8 DEF PauseExpires
    <2> QED BY <1>1, <2>1, QuietHorizon
  <1>9. ASSUME NEW p \in Ports, PeerReceive(p) PROVE HorizonInv'
    BY <1>1, <1>9, FrameHorizon
  <1>10. ASSUME NEW p \in Ports, NEW c \in Classes, PeerResume(p, c) PROVE HorizonInv'
    <2>1. ~InHeadroom(p, c)
      BY <1>10 DEF PausesOutlast, PeerResume
    <2> QED BY <1>1, <1>10, <2>1, ResumeHorizon
  <1>11. ASSUME NEW p \in Ports, NEW out \in Ports, NEW c \in Classes, NEW size \in PktSizes,
                PeerSend(p, out, c, size)
         PROVE  HorizonInv'
    BY <1>1, <1>11, PacketHorizon
  <1>12. ASSUME Tick PROVE HorizonInv'
    BY <1>1, <1>12, TickHorizon
  <1>13. ASSUME UNCHANGED vars PROVE HorizonInv'
    <2>1. UNCHANGED <<ingress, peer, toPeer, toSwitch>> /\ dev' = dev
      BY <1>13 DEF vars
    <2> QED BY <1>1, <2>1, QuietHorizon
  <1> QED
    BY <1>4, <1>5, <1>6, <1>7, <1>8, <1>9, <1>10, <1>11, <1>12, <1>13
    DEF Next, DeviceResume, DevicePauseExpires

\* The horizons and the room of the buffer admit what arrives.
LEMMA HorizonSuffices ==
    ASSUME HeadroomAssumption, ReserveAssumption
    PROVE  HorizonInv => HeadroomSuffices
  <1> SUFFICES ASSUME HorizonInv, NEW p \in Ports, FirstDue(toSwitch[p]),
                      EgressAdmits(egress, Head(toSwitch[p]).out,
                                   Head(toSwitch[p]).class, Head(toSwitch[p]).size)
               PROVE  IngressAdmits(ingress, p, Head(toSwitch[p]).class, Head(toSwitch[p]).size)
    BY DEF HeadroomSuffices
  <1> DEFINE pkt == Head(toSwitch[p])
  <1>1. /\ pkt.out \in Ports /\ pkt.class \in Classes /\ pkt.size \in PktSizes
        /\ ingress.hdrm[p][pkt.class] + pkt.size <= HdrmLimit[p]
    BY ArrivalFits
  <1>2. EgressAdmits(egress, pkt.out, pkt.class, pkt.size)
    OBVIOUS
  <1>3. ~BufferFull(ingress, pkt.size)
    <2> HIDE DEF pkt
    <2>1. AccountInv
      BY DEF HorizonInv, TypeInv
    <2> QED BY <1>1, <1>2, <2>1, BufferHasRoom
  <1> QED BY <1>1, <1>3 DEF IngressAdmits

\* Switch node: the headroom the switch sets aside is enough.  Whenever a
\* packet arrives that CheckEgressAdmission lets in, SwitchNode::SendToDev finds
\* room for it in CheckIngressAdmission, for every number of ports and classes and
\* every routing: if the headroom of a port covers what its sender transmits until
\* the PAUSE has crossed the link and what is then on the way, if what is held back
\* for a port covers the guarantees of its queues, and if no pause runs out while
\* its class still uses headroom.  Nothing is asked of the sum of the headrooms.
THEOREM HeadroomIsEnough ==
    ASSUME HeadroomAssumption, ReserveAssumption
    PROVE  Spec /\ []PausesOutlast => []HeadroomSuffices
  <1>1. Init => HorizonInv
    BY InitHorizon
  <1>2. HorizonInv /\ PausesOutlast /\ [Next]_vars => HorizonInv'
    BY StepHorizon
  <1>3. HorizonInv => HeadroomSuffices
    BY HorizonSuffices
  <1> QED BY <1>1, <1>2, <1>3, PTL DEF Spec
=============================================================================

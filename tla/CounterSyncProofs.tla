------------------------- MODULE CounterSyncProofs -------------------------
(***************************************************************************)
(* Theorems about CounterSync, for every width of the window.              *)
(***************************************************************************)
EXTENDS CounterSync, FiniteSetTheorems, TLAPS

\* A product with a positive factor is not smaller than the other one.
LEMMA Product ==
    ASSUME NEW w \in Nat \ {0}, NEW d \in Int, d >= 1
    PROVE  w * d >= w
  OBVIOUS

\* What % and \div mean.
LEMMA Division ==
    ASSUME NEW w \in Nat \ {0}, NEW n \in Int
    PROVE  /\ n % w \in 0 .. (w - 1) /\ n \div w \in Int
           /\ n = w * (n \div w) + (n % w)
  OBVIOUS

\* A remainder is determined by being one.
LEMMA Remainder ==
    ASSUME NEW w \in Nat \ {0}, NEW q \in Int, NEW r \in 0 .. (w - 1)
    PROVE  (w * q + r) % w = r
  OBVIOUS

\* The low bits of a number k further on: they are k more, or have wrapped.
LEMMA LowBits ==
    ASSUME NEW w \in Nat \ {0}, NEW n \in Nat, NEW k \in Int, -w < k, k < w
    PROVE  (n + k) % w = CASE (n % w) + k < 0  -> (n % w) + k + w
                           [] (n % w) + k >= w -> (n % w) + k - w
                           [] OTHER          -> (n % w) + k
  <1> DEFINE q == n \div w
             r == n % w
  <1>1. r \in 0 .. (w - 1) /\ q \in Int /\ n = w * q + r
    BY Division
  <1> HIDE DEF q, r
  <1>2. w * (q - 1) = w * q - w /\ w * (q + 1) = w * q + w
    BY <1>1
  <1>3. CASE r + k < 0
    <2>1. (w * (q - 1) + (r + k + w)) % w = r + k + w
      BY <1>1, <1>3, Remainder
    <2>2. w * (q - 1) + (r + k + w) = n + k
      BY <1>1, <1>2
    <2> QED
      BY <1>1, <1>3, <2>1, <2>2 DEF r
  <1>4. CASE r + k >= w
    <2>1. r + k - w \in 0 .. (w - 1) /\ q + 1 \in Int
      BY <1>1, <1>4
    <2>2. (w * (q + 1) + (r + k - w)) % w = r + k - w
      BY <2>1, Remainder
    <2>3. w * (q + 1) + (r + k - w) = n + k
      BY <1>1, <1>2
    <2> QED
      BY <1>1, <1>4, <2>2, <2>3 DEF r
  <1>5. CASE r + k \in 0 .. (w - 1)
    <2>1. (w * q + (r + k)) % w = r + k
      BY <1>1, <1>5, Remainder
    <2>2. w * q + (r + k) = n + k
      BY <1>1
    <2> QED
      BY <1>1, <1>5, <2>1, <2>2 DEF r
  <1> QED
    BY <1>1, <1>3, <1>4, <1>5

\* Counters that are as far apart as the window is wide show the same bits.
LEMMA SameBits ==
    ASSUME NEW w \in Nat \ {0}, NEW n \in Nat
    PROVE  (n + w) % w = n % w
  <1> DEFINE q == n \div w
             r == n % w
  <1>1. r \in 0 .. (w - 1) /\ q \in Int /\ n = w * q + r
    BY Division
  <1> HIDE DEF q, r
  <1>2. q + 1 \in Int /\ w * (q + 1) = w * q + w
    BY <1>1
  <1>3. (w * (q + 1) + r) % w = r
    BY <1>1, <1>2, Remainder
  <1>4. w * (q + 1) + r = n + w
    BY <1>1, <1>2
  <1> QED
    BY <1>3, <1>4 DEF r

\* What Reach is.
LEMMA ReachRange ==
    ASSUME in \in Nat
    PROVE  /\ in % Window \in 0 .. (Window - 1)
           /\ Reach \in 0 .. Behind /\ Reach <= in % Window
           /\ Reach = in % Window \/ Reach = Behind
  BY WindowAssumption, Division DEF Reach

\* Reach is a number in the next state as well.
LEMMA ReachNext ==
    ASSUME in' \in Nat
    PROVE  Reach' \in Nat
  <1>1. PICK i \in Nat : in' = i
    OBVIOUS
  <1>2. i % Window \in 0 .. (Window - 1)
    BY Division, WindowAssumption
  <1>3. Reach' = IF i % Window < Behind THEN i % Window ELSE Behind
    BY <1>1 DEF Reach
  <1> QED
    BY <1>2, <1>3, WindowAssumption

\* The window, for a packet less than Window away from the receiver's counter.
LEMMA NearPackets ==
    ASSUME in \in Nat, NEW n \in Nat, n - in < Window, in - n < Window
    PROVE  Accepts(n) <=> n \in (in - Reach) .. (in - Reach + Window - 1)
  <1> DEFINE k == n - in
             r == in % Window
  <1>1. k \in Int /\ -Window < k /\ k < Window /\ in + k = n
    BY WindowAssumption
  <1>2. n % Window = CASE r + k < 0       -> r + k + Window
                       [] r + k >= Window -> r + k - Window
                       [] OTHER           -> r + k
    BY <1>1, WindowAssumption, LowBits
  <1>3. Accepts(n) <=> (IF (n % Window) - r < -Behind THEN (n % Window) - r + Window
                                                    ELSE (n % Window) - r) = k
    BY <1>1, <1>2, ReachRange, WindowAssumption DEF Accepts, Guess
  <1> HIDE DEF r
  <1>4. r \in 0 .. (Window - 1) /\ Reach = (IF r < Behind THEN r ELSE Behind)
    BY ReachRange DEF r, Reach
  <1>5. CASE r + k < 0
    BY <1>1, <1>2, <1>3, <1>4, <1>5, WindowAssumption
  <1>6. CASE r + k >= Window
    BY <1>1, <1>2, <1>3, <1>4, <1>6, WindowAssumption
  <1>7. CASE r + k \in 0 .. (Window - 1)
    BY <1>1, <1>2, <1>3, <1>4, <1>7, WindowAssumption
  <1> QED
    BY <1>1, <1>4, <1>5, <1>6, <1>7, WindowAssumption

\* A packet further away is never accepted: the guess does not reach it.
LEMMA FarPackets ==
    ASSUME in \in Nat, NEW n \in Nat, n - in >= Window \/ in - n >= Window
    PROVE  ~Accepts(n)
  <1>1. n % Window \in 0 .. (Window - 1) /\ in % Window \in 0 .. (Window - 1)
    BY WindowAssumption, Division
  <1> QED
    BY <1>1, WindowAssumption DEF Accepts, Guess

\* The window of any receiver is exact.
LEMMA WindowExactHere == in \in Nat => WindowExact
  <1> SUFFICES ASSUME in \in Nat, NEW n \in 0 .. (in + 2 * Window)
               PROVE  Accepts(n) <=> n \in (in - Reach) .. (in - Reach + Window - 1)
    BY DEF WindowExact
  <1>1. n \in Nat
    BY WindowAssumption
  <1>2. CASE n - in < Window /\ in - n < Window
    BY <1>1, <1>2, NearPackets
  <1>3. CASE n - in >= Window \/ in - n >= Window
    BY <1>1, <1>3, FarPackets, ReachRange, WindowAssumption
  <1> QED
    BY <1>1, <1>2, <1>3, WindowAssumption

-----------------------------------------------------------------------------
(* Types, and the window of every reachable receiver.                      *)

\* The variables have their types at the beginning.
LEMMA InitType == Init => TypeOK
  BY ResyncAssumption, BoundsAssumption DEF Init, TypeOK

\* A packet is sent: it and the late ones are numbers already given.
LEMMA DoDataType ==
    ASSUME TypeOK, NEW keep \in {{}, {out}}, DoData(keep)
    PROVE  /\ out' = out + 1 /\ out' \in 0 .. MaxOut
           /\ held' \subseteq 0 .. (out' - 1) /\ syns' \subseteq 0 .. out'
  <1>1. out \in Nat /\ out' = out + 1 /\ out' \in 0 .. MaxOut
    BY BoundsAssumption DEF TypeOK, DoData
  <1>2. held' \subseteq held \cup keep /\ syns' \subseteq syns
    BY DEF DoData, StillHeld
  <1>3. held \cup keep \subseteq 0 .. out
    <2>1. held \subseteq 0 .. out
      BY <1>1 DEF TypeOK
    <2>2. keep \subseteq 0 .. out
      BY <1>1
    <2> QED
      BY <2>1, <2>2
  <1> QED
    BY <1>1, <1>2, <1>3 DEF TypeOK

\* A packet is read: the receiver's variables keep their types.
LEMMA GoDataType ==
    ASSUME TypeOK, NEW n \in Nat, n < out', out' \in Nat, out <= out', Reading, GoData(n)
    PROVE  /\ in' \in Nat /\ bad' \in 0 .. (BadLimit + 1 + Slip)
           /\ lost' \in Nat /\ rejected' \in Nat /\ newest' \in 0 .. out'
  BY ResyncAssumption DEF TypeOK, GoData, Accept, Reject, Reading

\* Every step keeps the types.
LEMMA NextType == TypeOK /\ [Next]_vars => TypeOK'
  <1> SUFFICES ASSUME TypeOK, [Next]_vars PROVE TypeOK'
    OBVIOUS
  <1>0. out \in Nat
    BY DEF TypeOK
  <1>1. CASE Arrive
    <2>1. PICK keep \in {{}, {out}} : DoData(keep)
      BY <1>1 DEF Arrive
    <2>2. out' = out + 1
      BY <2>1 DEF DoData
    <2> QED
      BY <1>0, <1>1, <2>1, <2>2, DoDataType, GoDataType DEF Arrive, TypeOK
  <1>2. CASE Miss
    <2>1. PICK keep \in {{}, {out}} : DoData(keep)
      BY <1>2 DEF Miss
    <2> QED
      BY <1>2, <2>1, DoDataType DEF Miss, TypeOK
  <1>3. ASSUME NEW n \in held, ArriveLate(n) PROVE TypeOK'
    <2>1. n \in Nat /\ n < out' /\ out' = out
      BY <1>3 DEF TypeOK, ArriveLate
    <2> QED
      BY <1>0, <1>3, <2>1, GoDataType DEF ArriveLate, TypeOK
  <1>4. CASE Resync
    BY <1>4, ResyncAssumption DEF Resync, TypeOK
  <1>5. CASE DoSyn
    BY <1>0, <1>5 DEF DoSyn, TypeOK
  <1>6. ASSUME NEW c \in syns, GoSyn(c) PROVE TypeOK'
    BY <1>6 DEF GoSyn, TypeOK
  <1>7. CASE UNCHANGED vars
    BY <1>7 DEF vars, TypeOK
  <1> QED
    BY <1>1, <1>2, <1>3, <1>4, <1>5, <1>6, <1>7 DEF Next

\* The counters of both phones are numbers, and bad_mac is bounded: packets are
\* not read while a resynchronisation is due.
THEOREM TypeCorrect == Spec => []TypeOK
  BY InitType, NextType, PTL DEF Spec

\* The packets a receiver accepts always are the Window successive ones that
\* reach back to the last multiple of Window and no further than Behind.
THEOREM WindowAlwaysExact == Spec => []WindowExact
  <1>1. TypeOK => WindowExact
    BY WindowExactHere DEF TypeOK
  <1> QED
    BY <1>1, TypeCorrect, PTL

-----------------------------------------------------------------------------
(* The resynchronisation, where packets are lost but not delayed.          *)

\* A packet that is rejected on time is beyond the window, not behind it; and a
\* resynchronisation is due only after that.
NotAhead ==
    /\ held = {}
    /\ MaxSyn = 0 => syns = {}
    /\ in <= out + Reach
    /\ bad > BadLimit => out - in >= Window - Reach

\* Nothing is delayed when nothing may be held.
LEMMA NothingHeld ==
    ASSUME MaxHeld = 0, TypeOK, NEW keep \in {{}, {out}}, DoData(keep), held = {}
    PROVE  held' = {}
  <1>1. keep = {}
    <2> SUFFICES ASSUME keep = {out} PROVE FALSE
      OBVIOUS
    <2>1. held \cup keep = {out}
      OBVIOUS
    <2>2. Cardinality({out}) = 1
      BY FS_Singleton
    <2> QED
      BY <2>1, <2>2 DEF DoData
  <1> QED
    BY <1>1 DEF DoData, StillHeld

\* A packet that arrives on time.
LEMMA ArriveNotAhead ==
    ASSUME MaxHeld = 0, TypeOK, NotAhead, Arrive
    PROVE  NotAhead'
  <1>1. PICK keep \in {{}, {out}} : DoData(keep)
    BY DEF Arrive
  <1>2. out \in Nat /\ in \in Nat /\ out' = out + 1 /\ held' = {}
    <2>1. held' = {}
      BY <1>1, NothingHeld DEF NotAhead
    <2> QED
      BY <1>1, <2>1 DEF TypeOK, DoData
  <1>5. syns' \subseteq syns
    BY <1>1 DEF DoData, StillHeld
  <1>3. CASE Accept(out)
    <2>1. in' = out' /\ in' \in Nat /\ bad' = 0
      BY <1>2, <1>3 DEF Accept
    <2>2. PICK b \in Nat : Reach' = b
      BY <2>1, ReachNext
    <2>3. in' = out + 1 /\ out + 1 <= (out + 1) + b
      BY <1>2, <2>1, <2>2
    <2>4. in' <= out' + Reach'
      BY <1>2, <2>2, <2>3
    <2>5. ~(bad' > BadLimit)
      BY <2>1, ResyncAssumption
    <2> QED
      BY <1>2, <1>5, <2>4, <2>5 DEF NotAhead
  <1>4. CASE Reject(out)
    <2>1. in' = in /\ Reach' = Reach
      BY <1>4 DEF Reject, Reach
    <2>2. out - in >= Window - Reach
      <3> SUFFICES ASSUME out - in < Window - Reach PROVE FALSE
        BY <1>2, ReachRange, WindowAssumption
      <3> QED
        BY <1>2, <1>4, NearPackets, ReachRange, WindowAssumption DEF NotAhead, Reject
    <2> QED
      BY <1>2, <1>5, <2>1, <2>2, ReachRange, WindowAssumption DEF NotAhead
  <1> QED
    BY <1>3, <1>4 DEF Arrive, GoData

\* Every step keeps the receiver from getting ahead.
LEMMA NextNotAhead ==
    ASSUME MaxHeld = 0, Slip = 0 \/ MaxSyn = 0, Step = Window, TypeOK, NotAhead, [Next]_vars
    PROVE  NotAhead'
  <1>0. out \in Nat /\ in \in Nat
    BY DEF TypeOK
  <1>1. CASE Arrive
    BY <1>1, ArriveNotAhead
  <1>2. CASE Miss
    <2>1. PICK keep \in {{}, {out}} : DoData(keep)
      BY <1>2 DEF Miss
    <2>2. held' = {} /\ out' = out + 1 /\ syns' \subseteq syns
      BY <2>1, NothingHeld DEF NotAhead, DoData, StillHeld
    <2>3. in' = in /\ bad' = bad /\ Reach' = Reach
      BY <1>2 DEF Miss, Reach
    <2> QED
      BY <1>0, <2>2, <2>3, ReachRange, WindowAssumption DEF NotAhead
  <1>3. ASSUME NEW n \in held, ArriveLate(n) PROVE NotAhead'
    BY <1>3 DEF NotAhead
  <1>4. CASE Resync
    <2>1. in' = in + Window /\ bad' = BadKept /\ UNCHANGED <<out, held, syns>>
      BY <1>4 DEF Resync
    <2>2. Reach' = Reach
      BY <1>0, <2>1, SameBits, WindowAssumption DEF Reach
    <2>3. out - in >= Window - Reach
      BY <1>4 DEF Resync, NotAhead
    <2> QED
      BY <1>0, <2>1, <2>2, <2>3, ReachRange, ResyncAssumption, WindowAssumption
         DEF NotAhead
  <1>5. CASE DoSyn
    <2>1. MaxSyn # 0
      <3> SUFFICES ASSUME MaxSyn = 0 PROVE FALSE
        OBVIOUS
      <3> QED
        BY <1>5, FS_EmptySet DEF DoSyn, NotAhead
    <2> QED
      BY <1>5, <2>1 DEF DoSyn, NotAhead, Reach
  <1>6. ASSUME NEW c \in syns, GoSyn(c) PROVE NotAhead'
    <2>0. MaxSyn # 0 /\ Slip = 0
      BY <1>6 DEF NotAhead
    <2>1. UNCHANGED <<out, bad, held>> /\ in' \in Nat /\ bad <= BadLimit
      BY <1>0, <1>6, <2>0, ResyncAssumption DEF GoSyn, TypeOK, Reading
    <2>2. in' <= out \/ in' = in
      BY <1>0, <1>6 DEF GoSyn, TypeOK
    <2>3. PICK i \in Nat, b \in Nat : in' = i /\ Reach' = b
      BY <2>1, ReachNext
    <2>4. in' = in => Reach' = Reach
      BY DEF Reach
    <2>5. in' <= out + Reach'
      <3>1. CASE i <= out
        BY <1>0, <2>3, <3>1
      <3>2. CASE in' = in
        BY <2>4, <3>2 DEF NotAhead
      <3> QED
        BY <2>2, <2>3, <3>1, <3>2
    <2>6. ~(bad > BadLimit)
      BY <2>1, ResyncAssumption DEF TypeOK
    <2> QED
      BY <2>0, <2>1, <2>5, <2>6 DEF NotAhead
  <1>7. CASE UNCHANGED vars
    BY <1>7 DEF vars, NotAhead, Reach
  <1> QED
    BY <1>1, <1>2, <1>3, <1>4, <1>5, <1>6, <1>7 DEF Next

\* Where packets are lost but not delayed, no resynchronisation is left over from
\* an earlier call, and Step is the width of the window, no sequence of
\* losses and resynchronisations takes the receiver further ahead of the sender
\* than its window reaches back; nor does one with SYNs, as long as no SYN is read
\* while a resynchronisation is due.
THEOREM NeverAheadHolds ==
    ASSUME MaxHeld = 0, Slip = 0 \/ MaxSyn = 0, Step = Window, BadLeft \subseteq 0 .. BadLimit
    PROVE  Spec => []NeverAhead
  <1>1. Init => NotAhead
    BY WindowAssumption, ResyncAssumption DEF Init, NotAhead, Reach
  <1>2. TypeOK /\ NotAhead /\ [Next]_vars => NotAhead'
    BY NextNotAhead
  <1>3. TypeOK /\ NotAhead => NeverAhead
    BY ReachRange, WindowAssumption DEF TypeOK, NotAhead, NeverAhead
  <1> QED
    BY <1>1, <1>2, <1>3, TypeCorrect, PTL DEF Spec

-----------------------------------------------------------------------------
(* How long the resynchronisation takes.                                   *)

\* After k resynchronisations since the last packet was accepted: each has taken no more
\* than Patience from bad_mac, so they needed so many rejected packets, and each has moved
\* in_ctr by Step, while each packet sent was lost or rejected.
Restoring == \E k \in 0 .. in :
    /\ rejected <= bad + k * Patience
    /\ out + k * Step <= in + lost + rejected

\* One factor more.
LEMMA OneMore ==
    ASSUME NEW k \in Int, NEW d \in Int
    PROVE  (k + 1) * d = k * d + d /\ k * d \in Int
  OBVIOUS

\* A larger product has a larger factor.
LEMMA Factors ==
    ASSUME NEW d \in Nat, NEW a \in Int, NEW b \in Int, a <= b
    PROVE  a * d <= b * d /\ a * d \in Int /\ b * d \in Int
  OBVIOUS

\* Patience is a number of packets.
LEMMA PatienceIs == Patience \in Nat \ {0} /\ Patience = BadLimit + 2 - BadKept
  BY ResyncAssumption DEF Patience

\* A packet is sent and does not arrive, or is rejected.
LEMMA SentRestoring ==
    ASSUME TypeOK, TypeOK', Restoring, out' = out + 1, in' = in,
           \/ rejected' = rejected + 1 /\ bad' = bad + 1 /\ lost' = lost
           \/ rejected' = rejected /\ bad' = bad /\ lost' = lost + 1
    PROVE  Restoring'
  <1>1. /\ out \in Nat /\ in \in Nat /\ bad \in Nat /\ lost \in Nat /\ rejected \in Nat
    BY BoundsAssumption, ResyncAssumption DEF TypeOK
  <1>2. PICK k \in 0 .. in : /\ rejected <= bad + k * Patience
                             /\ out + k * Step <= in + lost + rejected
    BY DEF Restoring
  <1>3. k * Patience \in Int /\ k * Step \in Int
    BY <1>1, OneMore, PatienceIs, ResyncAssumption
  <1>4. rejected' <= bad' + k * Patience /\ out' + k * Step <= in' + lost' + rejected'
    BY <1>1, <1>2, <1>3
  <1>5. Patience' = Patience
    BY DEF Patience
  <1> QED
    BY <1>2, <1>4, <1>5 DEF Restoring

\* Every step keeps the account.
LEMMA NextRestoring ==
    ASSUME TypeOK, TypeOK', held = {}, Restoring, [Next]_vars
    PROVE  Restoring'
  <1>1. /\ out \in Nat /\ in \in Nat /\ bad \in Nat /\ lost \in Nat /\ rejected \in Nat
        /\ bad <= BadLimit + 2
    BY BoundsAssumption, ResyncAssumption DEF TypeOK
  <1>2. Patience' = Patience
    BY DEF Patience
  <1>3. CASE Arrive
    <2>1. out' = out + 1
      BY <1>3 DEF Arrive, DoData
    <2>2. CASE Reject(out)
      BY <2>1, <2>2, SentRestoring DEF Reject
    <2>3. CASE Accept(out)
      <3>1. in' = out + 1 /\ bad' = 0 /\ lost' = 0 /\ rejected' = 0
        BY <2>3 DEF Accept
      <3>2. 0 \in 0 .. in' /\ 0 * Patience = 0 /\ 0 * Step = 0
        BY <1>1, <3>1, PatienceIs, ResyncAssumption
      <3>3. rejected' <= bad' + 0 * Patience /\ out' + 0 * Step <= in' + lost' + rejected'
        BY <1>1, <2>1, <3>1, <3>2
      <3> QED
        BY <1>2, <3>2, <3>3 DEF Restoring
    <2> QED
      BY <1>3, <2>2, <2>3 DEF Arrive, GoData
  <1>4. CASE Miss
    <2>1. out' = out + 1 /\ lost' = lost + 1 /\ UNCHANGED <<in, bad, rejected>>
      BY <1>4 DEF Miss, DoData
    <2> QED
      BY <2>1, SentRestoring
  <1>5. CASE Resync
    <2>1. bad' = BadKept /\ in' = in + Step /\ UNCHANGED <<out, lost, rejected>>
      BY <1>5 DEF Resync
    <2>2. PICK k \in 0 .. in : /\ rejected <= bad + k * Patience
                               /\ out + k * Step <= in + lost + rejected
      BY DEF Restoring
    <2>3. /\ (k + 1) * Patience = k * Patience + Patience /\ k * Patience \in Int
          /\ (k + 1) * Step = k * Step + Step /\ k * Step \in Int
      BY <1>1, OneMore, PatienceIs, ResyncAssumption
    <2>4. k + 1 \in 0 .. in' /\ rejected' <= bad' + (k + 1) * Patience
      BY <1>1, <2>1, <2>2, <2>3, PatienceIs, ResyncAssumption
    <2>5. out' + (k + 1) * Step <= in' + lost' + rejected'
      BY <1>1, <2>1, <2>2, <2>3, ResyncAssumption
    <2> QED
      BY <1>2, <2>4, <2>5 DEF Restoring
  <1>6. ASSUME in' \in Nat, in' >= in, UNCHANGED <<out, bad, lost, rejected>>
        PROVE  Restoring'
    <2>1. PICK k \in 0 .. in : /\ rejected <= bad + k * Patience
                               /\ out + k * Step <= in + lost + rejected
      BY DEF Restoring
    <2>2. k * Step \in Int
      BY <1>1, OneMore, ResyncAssumption
    <2>3. k \in 0 .. in' /\ out + k * Step <= in' + lost + rejected
      BY <1>1, <1>6, <2>1, <2>2
    <2> QED
      BY <1>2, <1>6, <2>1, <2>3 DEF Restoring
  <1>7. ASSUME NEW c \in syns, GoSyn(c) PROVE Restoring'
    <2>1. in' = (IF c > in THEN c ELSE in) /\ c \in Nat /\ UNCHANGED <<out, bad, lost, rejected>>
      BY <1>1, <1>7 DEF GoSyn, TypeOK
    <2> QED
      BY <1>1, <1>6, <2>1
  <1>8. CASE DoSyn
    BY <1>1, <1>6, <1>8 DEF DoSyn
  <1>9. CASE UNCHANGED vars
    BY <1>1, <1>6, <1>9 DEF vars
  <1> QED
    BY <1>3, <1>4, <1>5, <1>7, <1>8, <1>9 DEF Next

\* What the account says of a receiver that is not ahead of the sender.
LEMMA InTime ==
    ASSUME TypeOK, NeverAhead, Restoring, Patience < Step
    PROVE  RestoresInTime
  <1>1. /\ out \in Nat /\ in \in Nat /\ bad \in Nat /\ lost \in Nat /\ rejected \in Nat
        /\ bad <= BadLimit + 2 /\ Behind \in Nat /\ BadLimit \in Nat /\ Step \in Nat
    BY BoundsAssumption, ResyncAssumption, WindowAssumption DEF TypeOK
  <1>2. PICK k \in 0 .. in : /\ rejected <= bad + k * Patience
                             /\ out + k * Step <= in + lost + rejected
    BY DEF Restoring
  <1> DEFINE d == Step - Patience
             n == lost + BadLimit + 2 + Behind
             q == n \div d
  <1>3. d \in Nat \ {0} /\ n \in Nat /\ k \in Nat
    BY <1>1, PatienceIs
  <1>4. k * Step = k * Patience + k * d /\ k * Patience \in Int /\ k * d \in Int
    BY <1>1, <1>3, PatienceIs
  <1>5. k * d <= n
    BY <1>1, <1>2, <1>4 DEF NeverAhead
  <1> HIDE DEF d, n
  <1>6. n = d * q + (n % d) /\ n % d < d /\ n % d \in Nat /\ q \in Int
    BY <1>3, Division
  <1> HIDE DEF q
  <1>7. k <= q
    <2> SUFFICES ASSUME q + 1 <= k PROVE FALSE
      BY <1>3, <1>6
    <2>1. (q + 1) * d <= k * d
      BY <1>3, <1>6, Factors
    <2>2. (q + 1) * d = d * q + d
      BY <1>3, <1>6
    <2> QED
      BY <1>3, <1>4, <1>5, <1>6, <2>1, <2>2
  <1>8. k * Patience <= (1 + q) * Patience /\ (1 + q) * Patience \in Int
    BY <1>3, <1>6, <1>7, Factors, PatienceIs
  <1>9. Patience * (1 + q) = (1 + q) * Patience
    BY <1>6, PatienceIs
  <1>10. rejected <= BadLimit + 2 + Patience * (1 + q)
    BY <1>1, <1>2, <1>4, <1>8, <1>9
  <1> QED
    BY <1>10 DEF RestoresInTime, d, n, q

\* Under the same assumptions, and when a resynchronisation needs fewer packets than it
\* moves in_ctr by (6 of 128 in do_read), the receiver finds back: the packets it
\* rejects before it accepts one are bounded by those that were lost.
THEOREM RestoresInTimeHolds ==
    ASSUME MaxHeld = 0, Slip = 0 \/ MaxSyn = 0, Step = Window, BadLeft \subseteq 0 .. BadLimit,
           Patience < Step
    PROVE  Spec => []RestoresInTime
  <1>1. Init => NotAhead
    BY WindowAssumption, ResyncAssumption DEF Init, NotAhead, Reach
  <1>2. TypeOK /\ NotAhead /\ [Next]_vars => NotAhead'
    BY NextNotAhead
  <1>3. Init => Restoring
    <2> SUFFICES ASSUME Init PROVE Restoring
      OBVIOUS
    <2>1. 0 \in 0 .. in /\ 0 * Patience = 0 /\ 0 * Step = 0
      BY PatienceIs, ResyncAssumption DEF Init
    <2>2. bad \in Nat /\ out = 0 /\ in = 0 /\ lost = 0 /\ rejected = 0
      BY ResyncAssumption DEF Init
    <2>3. rejected <= bad + 0 * Patience /\ out + 0 * Step <= in + lost + rejected
      BY <2>1, <2>2
    <2> QED
      BY <2>1, <2>3 DEF Restoring
  <1>4. TypeOK /\ TypeOK' /\ NotAhead /\ Restoring /\ [Next]_vars => Restoring'
    BY NextRestoring DEF NotAhead
  <1>5. TypeOK /\ NotAhead => NeverAhead
    BY ReachRange, WindowAssumption DEF TypeOK, NotAhead, NeverAhead
  <1>6. TypeOK /\ NeverAhead /\ Restoring => RestoresInTime
    BY InTime
  <1> QED
    BY <1>1, <1>2, <1>3, <1>4, <1>5, <1>6, TypeCorrect, PTL DEF Spec

-----------------------------------------------------------------------------
(* Packets that arrive on time, while others are late or come again.       *)

\* A packet that is still on its way is not too old, and moves in_ctr back no further
\* than that; only a resynchronisation moves it ahead of the sender, after BadLimit.
Followed ==
    /\ \A n \in held : out - n <= MaxLate
    /\ out - in <= MaxLate + lost + rejected
    /\ bad <= rejected
    /\ in > out => rejected > BadLimit

\* A packet is sent: what the network keeps of it and of others is not too old.
LEMMA KeptFresh ==
    ASSUME NEW keep \in {{}, {out}}, DoData(keep)
    PROVE  \A n \in held' : out' - n <= MaxLate
  BY DEF DoData, StillHeld

\* go_data for a packet that has been sent and is not too old.
LEMMA GoDataFollowed ==
    ASSUME TypeOK, TypeOK', Followed, NEW n \in Nat, GoData(n),
           n < out', out' - n <= MaxLate + 1, out' \in {out, out + 1},
           out' = out + 1 => n = out
    PROVE  /\ out' - in' <= MaxLate + lost' + rejected'
           /\ bad' <= rejected'
           /\ in' > out' => rejected' > BadLimit
  <1>1. /\ out \in Nat /\ in \in Nat /\ bad \in Nat /\ lost \in Nat /\ rejected \in Nat
        /\ MaxLate \in Nat /\ BadLimit \in Nat
    BY BoundsAssumption, ResyncAssumption DEF TypeOK
  <1>2. PICK o \in Nat : out' = o
    BY <1>1
  <1>3. CASE Accept(n)
    <2>1. in' = n + 1 /\ bad' = 0 /\ lost' = 0 /\ rejected' = 0
      BY <1>3 DEF Accept
    <2> QED
      BY <1>1, <1>2, <2>1
  <1>4. CASE Reject(n)
    <2>1. in' = in /\ lost' = lost /\ bad' = bad + 1 /\ rejected' = rejected + 1
      BY <1>4 DEF Reject
    <2>2. out - in <= MaxLate + lost + rejected /\ bad <= rejected
          /\ (in > out => rejected > BadLimit)
      BY DEF Followed
    <2>3. o = out \/ o = out + 1
      BY <1>2
    <2> QED
      BY <1>1, <1>2, <2>1, <2>2, <2>3
  <1> QED
    BY <1>3, <1>4 DEF GoData

\* Every step keeps it.
LEMMA NextFollowed ==
    ASSUME TypeOK, TypeOK', Followed, [Next]_vars
    PROVE  Followed'
  <1>1. /\ out \in Nat /\ in \in Nat /\ bad \in Nat /\ lost \in Nat /\ rejected \in Nat
        /\ MaxLate \in Nat /\ BadLimit \in Nat /\ BadKept \in 0 .. BadLimit /\ Step \in Nat
    BY BoundsAssumption, ResyncAssumption DEF TypeOK
  <1>2. CASE Arrive
    <2>1. PICK keep \in {{}, {out}} : DoData(keep)
      BY <1>2 DEF Arrive
    <2>2. out' = out + 1 /\ GoData(out)
      BY <1>2, <2>1 DEF Arrive, DoData
    <2>3. out < out' /\ out' - out <= MaxLate + 1
      BY <1>1, <2>2
    <2>4. /\ out' - in' <= MaxLate + lost' + rejected'
          /\ bad' <= rejected'
          /\ in' > out' => rejected' > BadLimit
      BY <1>1, <2>2, <2>3, GoDataFollowed
    <2> QED
      BY <2>1, <2>4, KeptFresh DEF Followed
  <1>3. CASE Miss
    <2>1. PICK keep \in {{}, {out}} : DoData(keep)
      BY <1>3 DEF Miss
    <2>2. out' = out + 1 /\ lost' = lost + 1 /\ UNCHANGED <<in, bad, rejected>>
      BY <1>3, <2>1 DEF Miss, DoData
    <2> QED
      BY <1>1, <2>1, <2>2, KeptFresh DEF Followed
  <1>4. ASSUME NEW n \in held, ArriveLate(n) PROVE Followed'
    <2>1. GoData(n) /\ out' = out /\ held' \subseteq held
      BY <1>4 DEF ArriveLate
    <2>2. n \in Nat /\ n < out /\ out - n <= MaxLate
      BY <1>1 DEF TypeOK, Followed
    <2>3. /\ out' - in' <= MaxLate + lost' + rejected'
          /\ bad' <= rejected'
          /\ in' > out' => rejected' > BadLimit
      BY <1>1, <2>1, <2>2, GoDataFollowed
    <2> QED
      BY <2>1, <2>3 DEF Followed
  <1>5. CASE Resync
    <2>1. /\ bad > BadLimit /\ bad' = BadKept /\ in' = in + Step
          /\ UNCHANGED <<out, held, lost, rejected>>
      BY <1>5 DEF Resync
    <2> QED
      BY <1>1, <2>1 DEF Followed
  <1>6. CASE DoSyn
    BY <1>6 DEF DoSyn, Followed
  <1>7. ASSUME NEW c \in syns, GoSyn(c) PROVE Followed'
    <2>1. c \in Nat /\ c <= out
      BY <1>1 DEF TypeOK
    <2>2. in' = (IF c > in THEN c ELSE in) /\ UNCHANGED <<out, bad, held, lost, rejected>>
      BY <1>7 DEF GoSyn
    <2> QED
      BY <1>1, <2>1, <2>2 DEF Followed
  <1>8. CASE UNCHANGED vars
    BY <1>8 DEF vars, Followed
  <1> QED
    BY <1>2, <1>3, <1>4, <1>5, <1>6, <1>7, <1>8 DEF Next

\* When no rejection is left over from an earlier call, and a resynchronisation is not
\* started sooner than the window is wide ahead (65 rejections, 128 - 63 in the code),
\* late and repeated packets do not deafen the receiver: whichever of them it accepts,
\* a packet on time is rejected only after losses that the window does not allow.
THEOREM FreshHeardHolds ==
    ASSUME BadLeft = {0}, Window - Behind - MaxLate <= BadLimit + 1
    PROVE  Spec => FreshHeard
  <1>1. Init => Followed
    BY BoundsAssumption, ResyncAssumption DEF Init, Followed
  <1>2. TypeOK /\ TypeOK' /\ Followed /\ [Next]_vars => Followed'
    BY NextFollowed
  <1>3. TypeOK /\ Followed /\ [Next]_vars =>
            [out' = out + 1 /\ rejected' > rejected
             => lost + rejected >= Window - Behind - MaxLate]_vars
    <2> SUFFICES ASSUME TypeOK, Followed, [Next]_vars, out' = out + 1, rejected' > rejected
                 PROVE  lost + rejected >= Window - Behind - MaxLate
      OBVIOUS
    <2>1. /\ out \in Nat /\ in \in Nat /\ bad \in Nat /\ lost \in Nat /\ rejected \in Nat
          /\ MaxLate \in Nat /\ BadLimit \in Nat /\ Window \in Nat /\ Behind \in Nat
      BY BoundsAssumption, ResyncAssumption, WindowAssumption DEF TypeOK
    <2>2. Arrive
      <3>1. ~(\E n \in held : ArriveLate(n)) /\ ~Resync /\ ~DoSyn /\ ~(\E c \in syns : GoSyn(c))
        BY <2>1 DEF ArriveLate, Resync, DoSyn, GoSyn
      <3>2. ~Miss /\ ~(UNCHANGED vars)
        BY <2>1 DEF Miss, vars
      <3> QED
        BY <3>1, <3>2 DEF Next
    <2>3. ~Accepts(out)
      BY <2>1, <2>2 DEF Arrive, GoData, Accept, Reject
    <2>4. CASE in > out
      BY <2>1, <2>4 DEF Followed
    <2>5. CASE in <= out
      <3>1. out - in >= Window - Reach
        <4> SUFFICES ASSUME out - in < Window - Reach PROVE FALSE
          BY <2>1, ReachRange
        <4>1. out - in < Window /\ in - out < Window
          BY <2>1, <2>5, ReachRange, WindowAssumption
        <4> QED
          BY <2>1, <2>3, <2>5, <4>1, NearPackets, ReachRange
      <3>2. out - in >= Window - Behind
        BY <2>1, <3>1, ReachRange
      <3> QED
        BY <2>1, <3>2 DEF Followed
    <2> QED
      BY <2>1, <2>4, <2>5
  <1> QED
    BY <1>1, <1>2, <1>3, TypeCorrect, PTL DEF Spec, FreshHeard
=============================================================================

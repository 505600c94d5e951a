-------------------------- MODULE JitterRingProofs --------------------------
(***************************************************************************)
(* Theorems about JitterRing, for every number of slots, every set of      *)
(* packet lengths and every number of packets.                             *)
(***************************************************************************)
EXTENDS JitterRing, FiniteSetTheorems, TLAPS

-----------------------------------------------------------------------------
(* Going round the ring.                                                   *)

\* The greatest element of a set of naturals, and the least one.
LEMMA MaxIs ==
    ASSUME NEW S \in SUBSET Nat, NEW x \in S, \A y \in S : y <= x
    PROVE  Max(S) = x
  <1>1. \A y \in S : x >= y
    OBVIOUS
  <1>2. \A z \in S : (\A y \in S : z >= y) => z = x
    OBVIOUS
  <1> QED
    BY <1>1, <1>2 DEF Max

LEMMA MinIs ==
    ASSUME NEW S \in SUBSET Nat, NEW x \in S, \A y \in S : x <= y
    PROVE  Min(S) = x
  <1>1. \A z \in S : (\A y \in S : z <= y) => z = x
    OBVIOUS
  <1> QED
    BY <1>1 DEF Min

\* One subtraction brings an index back into the ring.
LEMMA Wrapped ==
    ASSUME NEW w \in Nat \ {0}, NEW x \in 0 .. w + w - 1
    PROVE  x % w = IF x < w THEN x ELSE x - w
  <1>1. CASE x \in 0 .. w - 1
    BY <1>1
  <1>2. CASE x \in w .. w + w - 1
    <2>1. x % w = x - w
      BY <1>2
    <2> QED
      BY <1>2, <2>1
  <1> QED
    BY <1>1, <1>2

\* The slot i places after n_pkt.
LEMMA AtIs ==
    ASSUME NEW r, r.n \in Slot, NEW i \in 0 .. MAX_PKT
    PROVE  /\ At(r, i) \in Slot
           /\ At(r, i) = IF r.n + i < MAX_PKT THEN r.n + i ELSE r.n + i - MAX_PKT
  <1>1. MAX_PKT \in Nat \ {0} /\ r.n \in 0 .. MAX_PKT - 1
    BY RingAssumption DEF Slot
  <1>2. r.n + i \in 0 .. MAX_PKT + MAX_PKT - 1
    BY <1>1
  <1>3. PICK x \in 0 .. MAX_PKT + MAX_PKT - 1 : x = r.n + i
    BY <1>2
  <1>4. x % MAX_PKT = IF x < MAX_PKT THEN x ELSE x - MAX_PKT
    BY <1>1, Wrapped
  <1>5. At(r, i) = x % MAX_PKT
    BY <1>3 DEF At
  <1>6. At(r, i) = IF r.n + i < MAX_PKT THEN r.n + i ELSE r.n + i - MAX_PKT
    BY <1>1, <1>3, <1>4, <1>5
  <1> QED
    BY <1>1, <1>6 DEF Slot

\* Each slot is some number of places after n_pkt, and one number only.
LEMMA AtEach ==
    ASSUME NEW r, r.n \in Slot
    PROVE  /\ \A s \in Slot : \E i \in 0 .. MAX_PKT - 1 : At(r, i) = s
           /\ \A i, j \in 0 .. MAX_PKT - 1 : At(r, i) = At(r, j) => i = j
  <1>1. MAX_PKT \in Nat \ {0} /\ r.n \in 0 .. MAX_PKT - 1
    BY RingAssumption DEF Slot
  <1>2. \A i \in 0 .. MAX_PKT - 1 :
            At(r, i) = IF r.n + i < MAX_PKT THEN r.n + i ELSE r.n + i - MAX_PKT
    BY <1>1, AtIs
  <1>3. ASSUME NEW s \in Slot
        PROVE  \E i \in 0 .. MAX_PKT - 1 : At(r, i) = s
    <2>1. s \in 0 .. MAX_PKT - 1
      BY DEF Slot
    <2>2. CASE s >= r.n
      <3>1. s - r.n \in 0 .. MAX_PKT - 1 /\ r.n + (s - r.n) = s
        BY <1>1, <2>1, <2>2
      <3> QED
        BY <1>1, <1>2, <2>1, <3>1
    <2>3. CASE s < r.n
      <3>1. /\ s + MAX_PKT - r.n \in 0 .. MAX_PKT - 1
            /\ r.n + (s + MAX_PKT - r.n) = s + MAX_PKT
        BY <1>1, <2>1, <2>3
      <3>2. At(r, s + MAX_PKT - r.n) = s
        BY <1>1, <1>2, <2>1, <3>1
      <3> QED
        BY <3>1, <3>2
    <2> QED
      BY <1>1, <2>1, <2>2, <2>3
  <1>4. \A i, j \in 0 .. MAX_PKT - 1 : At(r, i) = At(r, j) => i = j
    BY <1>1, <1>2
  <1> QED
    BY <1>3, <1>4

\* Places are counted from k further on when n_pkt moves k places.
LEMMA AtMoved ==
    ASSUME NEW r, r.n \in Slot, NEW k \in 0 .. MAX_PKT,
           NEW q, q.n = At(r, k), NEW i \in 0 .. MAX_PKT - 1
    PROVE  At(q, i) = At(r, IF k + i < MAX_PKT THEN k + i ELSE k + i - MAX_PKT)
  <1>1. MAX_PKT \in Nat \ {0} /\ r.n \in 0 .. MAX_PKT - 1
    BY RingAssumption DEF Slot
  <1> DEFINE j == IF k + i < MAX_PKT THEN k + i ELSE k + i - MAX_PKT
  <1>2. j \in 0 .. MAX_PKT /\ i \in 0 .. MAX_PKT
    BY <1>1
  <1>3. q.n = (IF r.n + k < MAX_PKT THEN r.n + k ELSE r.n + k - MAX_PKT) /\ q.n \in Slot
    BY AtIs
  <1>4. At(q, i) = IF q.n + i < MAX_PKT THEN q.n + i ELSE q.n + i - MAX_PKT
    BY <1>2, <1>3, AtIs
  <1>5. At(r, j) = IF r.n + j < MAX_PKT THEN r.n + j ELSE r.n + j - MAX_PKT
    BY <1>2, AtIs
  <1>6. At(q, i) = At(r, j)
    BY <1>1, <1>3, <1>4, <1>5
  <1> QED
    BY <1>6

-----------------------------------------------------------------------------
(* The samples that wait.                                                  *)

\* Each sample belongs to one slot.
LEMMA SampledIs ==
    ASSUME NEW r, NEW A
    PROVE  \A z : z \in Sampled(r, A) <=> \E i \in A : z \in {i} \X (1 .. r.len[i])
  BY DEF Sampled

\* The samples of one slot.
LEMMA SamplesOne ==
    ASSUME NEW r, NEW i, r.len[i] \in Nat
    PROVE  /\ IsFiniteSet({i} \X (1 .. r.len[i]))
           /\ Samples(r, {i}) = r.len[i]
  <1>1. IsFiniteSet({i}) /\ Cardinality({i}) = 1
    BY FS_Singleton
  <1>2. IsFiniteSet(1 .. r.len[i]) /\ Cardinality(1 .. r.len[i]) = r.len[i]
    <2>1. PICK l \in Nat : l = r.len[i]
      OBVIOUS
    <2>2. PICK one \in Int : one = 1
      OBVIOUS
    <2>3. l \in Int
      OBVIOUS
    <2>4. /\ IsFiniteSet(one .. l)
          /\ Cardinality(one .. l) = IF one > l THEN 0 ELSE l - one + 1
      BY <2>3, FS_Interval, Zenon
    <2>5. (IF one > l THEN 0 ELSE l - one + 1) = l
      BY <2>2
    <2>6. IsFiniteSet(one .. l) /\ Cardinality(one .. l) = l
      BY <2>4, <2>5
    <2> QED
      BY <2>1, <2>2, <2>6, Zenon
  <1>3. /\ IsFiniteSet({i} \X (1 .. r.len[i]))
        /\ Cardinality({i} \X (1 .. r.len[i])) = r.len[i]
    BY <1>1, <1>2, FS_Product
  <1>4. Sampled(r, {i}) = {i} \X (1 .. r.len[i])
    BY SampledIs
  <1> QED
    BY <1>3, <1>4 DEF Samples

\* They are finitely many.
LEMMA SamplesFinite ==
    ASSUME NEW r, NEW A \in SUBSET Slot, \A i \in A : r.len[i] \in Nat
    PROVE  IsFiniteSet(Sampled(r, A)) /\ Samples(r, A) \in Nat
  <1>1. IsFiniteSet(A)
    <2>1. 0 \in Int /\ MAX_PKT - 1 \in Int
      BY RingAssumption
    <2>2. IsFiniteSet(Slot)
      BY <2>1, FS_Interval DEF Slot
    <2> QED
      BY <2>2, FS_Subset
  <1> DEFINE T == {{i} \X (1 .. r.len[i]) : i \in A}
             f == [i \in A |-> {i} \X (1 .. r.len[i])]
  <1>2. f \in Surjection(A, T)
    BY DEF Surjection
  <1>3. IsFiniteSet(T)
    BY <1>1, <1>2, FS_Surjection
  <1>4. \A t \in T : IsFiniteSet(t)
    BY SamplesOne
  <1>5. IsFiniteSet(UNION T)
    BY <1>3, <1>4, FS_UNION
  <1> QED
    BY <1>5, FS_CardinalityType DEF Sampled, Samples

\* Those of some slots and of the others.
LEMMA SamplesSplit ==
    ASSUME NEW r, NEW B \in SUBSET Slot, NEW A \in SUBSET B, \A i \in Slot : r.len[i] \in Nat
    PROVE  Samples(r, B) = Samples(r, A) + Samples(r, B \ A)
  <1>1. /\ IsFiniteSet(Sampled(r, A)) /\ Samples(r, A) \in Nat
        /\ IsFiniteSet(Sampled(r, B \ A)) /\ Samples(r, B \ A) \in Nat
    <2>1. A \in SUBSET Slot /\ B \ A \in SUBSET Slot
      OBVIOUS
    <2> QED
      BY <2>1, SamplesFinite
  <1>2. Sampled(r, B) = Sampled(r, A) \cup Sampled(r, B \ A)
    BY SampledIs
  <1>3. Sampled(r, A) \cap Sampled(r, B \ A) = {}
    BY SampledIs
  <1>4. Cardinality({}) = 0
    BY FS_EmptySet
  <1>5. Cardinality(Sampled(r, A) \cup Sampled(r, B \ A)) =
            Samples(r, A) + Samples(r, B \ A) - 0
    BY <1>1, <1>3, <1>4, FS_Union DEF Samples
  <1>6. Samples(r, A) + Samples(r, B \ A) - 0 = Samples(r, A) + Samples(r, B \ A)
    BY <1>1
  <1> QED
    BY <1>2, <1>5, <1>6 DEF Samples

\* They depend on the lengths only.
LEMMA SamplesSame ==
    ASSUME NEW r, NEW q, NEW A, \A i \in A : q.len[i] = r.len[i]
    PROVE  Samples(q, A) = Samples(r, A)
  <1>1. Sampled(q, A) = Sampled(r, A)
    BY SampledIs
  <1> QED
    BY <1>1 DEF Samples

\* Empty slots have none.
LEMMA SamplesNone ==
    ASSUME NEW r, NEW A, \A i \in A : r.len[i] = 0
    PROVE  Samples(r, A) = 0
  <1>1. Sampled(r, A) = {}
    BY SampledIs
  <1> QED
    BY <1>1, FS_EmptySet DEF Samples

-----------------------------------------------------------------------------
(* The total, a short.                                                     *)

Short == -(MaxShort + 1) .. MaxShort

\* l samples are decoded, and then g more, and R are left.
LEMMA Lessened ==
    ASSUME NEW t \in Short, NEW l \in 1 .. MaxShort, NEW g \in Nat, NEW R \in Nat,
           Unwrapped(t) <= l + g + R
    PROVE  /\ Less(Wrap(t - l), g) \in 0 .. MaxShort
           /\ Less(Wrap(t - l), g) <= R
           /\ t = l + g + R => Less(Wrap(t - l), g) = R
  <1>1. MaxShort \in Nat
    BY RingAssumption
  <1>2. CASE t >= 0
    <2>1. Wrap(t - l) = t - l
      BY <1>1, <1>2 DEF Wrap, Short
    <2>2. t <= l + g + R
      BY <1>1, <1>2 DEF Unwrapped, Short
    <2> QED
      BY <1>1, <1>2, <2>1, <2>2 DEF Less, Short
  <1>3. CASE t < 0
    <2>1. t + 2 * (MaxShort + 1) <= l + g + R
      BY <1>3 DEF Unwrapped
    <2>2. CASE t - l < -(MaxShort + 1)
      <3>1. Wrap(t - l) = t - l + 2 * (MaxShort + 1)
        BY <1>1, <1>3, <2>2 DEF Wrap, Short
      <3> QED
        BY <1>1, <1>3, <2>1, <2>2, <3>1 DEF Less, Short
    <2>3. CASE ~(t - l < -(MaxShort + 1))
      <3>1. Wrap(t - l) = t - l
        BY <1>1, <1>3, <2>3 DEF Wrap, Short
      <3> QED
        BY <1>1, <1>3, <3>1 DEF Less, Short
    <2> QED
      BY <2>2, <2>3
  <1> QED
    BY <1>1, <1>2, <1>3 DEF Short

\* l samples are added to R.
LEMMA Added ==
    ASSUME NEW t \in Short, NEW l \in 1 .. MaxShort, NEW R \in Nat, Unwrapped(t) <= R
    PROVE  /\ Wrap(t + l) \in Short
           /\ Unwrapped(Wrap(t + l)) <= R + l
           /\ t = R /\ R + l <= MaxShort => Wrap(t + l) = R + l
  <1>1. MaxShort \in Nat
    BY RingAssumption
  <1>2. CASE t + l > MaxShort
    <2>1. Wrap(t + l) = t + l - 2 * (MaxShort + 1) /\ t >= 0 /\ t <= R
      BY <1>1, <1>2 DEF Wrap, Unwrapped, Short
    <2> QED
      BY <1>1, <1>2, <2>1 DEF Unwrapped, Short
  <1>3. CASE t + l <= MaxShort
    <2>1. Wrap(t + l) = t + l
      BY <1>1, <1>3 DEF Wrap, Short
    <2> QED
      BY <1>1, <1>3, <2>1 DEF Unwrapped, Short
  <1> QED
    BY <1>1, <1>2, <1>3 DEF Short

-----------------------------------------------------------------------------
(* What the ring holds.                                                    *)

\* The ring that go_snd may leave behind: filled from n_pkt on, with the right total.
Good(r, a, s) ==
    /\ r \in Ring /\ a \in 0 .. MaxArrive /\ s \in 0 .. MaxArrive
    /\ Counted(r)
    /\ \E w \in 0 .. MAX_PKT : Holds(r, a, s, w)
    /\ Distinct(r, a)

\* The number of filled slots, from the first w of which packets can be decoded.
LEMMA RowIs ==
    ASSUME NEW r, r.n \in Slot, NEW w \in 0 .. MAX_PKT, FilledTo(r, w)
    PROVE  /\ InRow(r) = 1 .. w
           /\ w # 0 => Max(InRow(r)) = w
           /\ r.len[r.n] = 0 <=> w = 0
  <1>1. MAX_PKT \in Nat \ {0} /\ w \in Nat
    BY RingAssumption
  <1>2. InRow(r) = 1 .. w
    <2>1. ASSUME NEW k \in 1 .. MAX_PKT, k <= w
          PROVE  \A i \in 0 .. k - 1 : r.len[At(r, i)] # 0
      BY <1>1, <2>1 DEF FilledTo
    <2>2. ASSUME NEW k \in 1 .. MAX_PKT, ~(k <= w)
          PROVE  \E i \in 0 .. k - 1 : r.len[At(r, i)] = 0
      <3>1. w \in 0 .. k - 1 /\ w \in 0 .. MAX_PKT - 1 /\ ~(w < w)
        BY <1>1, <2>2
      <3> QED
        BY <3>1 DEF FilledTo
    <2>3. \A k \in 1 .. MAX_PKT :
            k <= w <=> \A i \in 0 .. k - 1 : r.len[At(r, i)] # 0
      BY <2>1, <2>2
    <2>4. \A k : k \in 1 .. w <=> k \in 1 .. MAX_PKT /\ k <= w
      BY <1>1
    <2> QED
      BY <2>3, <2>4 DEF InRow
  <1>3. ASSUME w # 0
        PROVE  Max(InRow(r)) = w
    <2>1. 1 .. w \in SUBSET Nat /\ w \in 1 .. w /\ \A y \in 1 .. w : y <= w
      BY <1>1, <1>3
    <2> QED
      BY <1>2, <2>1, MaxIs
  <1>4. At(r, 0) = r.n
    <2>1. 0 \in 0 .. MAX_PKT /\ r.n \in 0 .. MAX_PKT - 1
      BY <1>1 DEF Slot
    <2> QED
      BY <1>1, <2>1, AtIs
  <1>5. r.len[r.n] # 0 <=> 0 < w
    BY <1>1, <1>4 DEF FilledTo
  <1> QED
    BY <1>1, <1>2, <1>3, <1>5

\* The ring is full when all its slots wait.
LEMMA FullIs ==
    ASSUME NEW r, r.n \in Slot, NEW w \in 0 .. MAX_PKT, FilledTo(r, w)
    PROVE  Waiting(r) = Slot <=> w = MAX_PKT
  <1>1. MAX_PKT \in Nat \ {0} /\ w \in Nat
    BY RingAssumption
  <1>2. ASSUME w = MAX_PKT
        PROVE  Waiting(r) = Slot
    <2>1. \A i \in 0 .. MAX_PKT - 1 : r.len[At(r, i)] # 0
      BY <1>1, <1>2 DEF FilledTo
    <2> QED
      BY <2>1, AtEach DEF Waiting
  <1>3. ASSUME w # MAX_PKT
        PROVE  Waiting(r) # Slot
    <2>1. w \in 0 .. MAX_PKT - 1 /\ ~(w < w) /\ w \in 0 .. MAX_PKT
      BY <1>1, <1>3
    <2>2. r.len[At(r, w)] = 0 /\ At(r, w) \in Slot
      BY <2>1, AtIs DEF FilledTo
    <2> QED
      BY <2>2 DEF Waiting
  <1> QED
    BY <1>2, <1>3

\* A packet goes to the slot after those that wait, or to n_pkt when all wait.
LEMMA FreeIs ==
    ASSUME NEW r, r.n \in Slot, NEW w \in 0 .. MAX_PKT, FilledTo(r, w)
    PROVE  Free(r) = At(r, IF w = MAX_PKT THEN 0 ELSE w)
  <1>1. MAX_PKT \in Nat \ {0} /\ w \in Nat
    BY RingAssumption
  <1> DEFINE empty == {i \in 0 .. MAX_PKT - 1 : r.len[At(r, i)] = 0}
  <1>2. \A i \in 0 .. MAX_PKT - 1 : i \in empty <=> w <= i
    BY <1>1 DEF FilledTo
  <1>3. empty \subseteq 0 .. MAX_PKT - 1
    OBVIOUS
  <1>4. Free(r) = At(r, IF empty = {} THEN 0 ELSE Min(empty))
    BY DEF Free
  <1> HIDE DEF empty
  <1>5. CASE w = MAX_PKT
    <2>1. empty = {}
      BY <1>1, <1>2, <1>3, <1>5
    <2> QED
      BY <1>4, <1>5, <2>1
  <1>6. CASE w # MAX_PKT
    <2>1. w \in empty
      BY <1>1, <1>2, <1>6
    <2>2. empty \in SUBSET Nat /\ \A y \in empty : w <= y
      BY <1>1, <1>2, <1>3
    <2>3. Min(empty) = w
      BY <2>1, <2>2, MinIs
    <2> QED
      BY <1>4, <1>6, <2>1, <2>3
  <1> QED
    BY <1>5, <1>6

\* What has n_pkt, slots and packets in common holds the same.
LEMMA SameSlots ==
    ASSUME NEW r, NEW q, q.n = r.n, q.len = r.len, q.pkt = r.pkt, q.played = r.played,
           q.decoded = r.decoded, NEW a, NEW s, NEW w
    PROVE  /\ Holds(r, a, s, w) => Holds(q, a, s, w)
           /\ Distinct(r, a) => Distinct(q, a)
  <1>1. \A i : At(q, i) = At(r, i)
    BY DEF At
  <1> QED
    BY <1>1 DEF Holds, FilledTo, NextOnes, Distinct, Waiting

\* Decoding the first k of w packets leaves w - k, those that follow.
LEMMA DecodedHolds ==
    ASSUME NEW r, NEW a, NEW s, Good(r, a, s), NEW jit \in BOOLEAN,
           NEW w \in 0 .. MAX_PKT, Holds(r, a, s, w), NEW k \in 1 .. w
    PROVE  /\ Good(Decoded(r, k, jit), a, s)
           /\ Decoded(r, k, jit).jit = jit
           /\ Holds(Decoded(r, k, jit), a, s, w - k)
  <1>1. MAX_PKT \in Nat \ {0} /\ MaxArrive \in Nat /\ w \in Nat /\ k \in Nat
    BY RingAssumption
  <1>2. /\ r \in Ring /\ a \in 0 .. MaxArrive /\ s \in 0 .. MaxArrive
        /\ Counted(r) /\ Distinct(r, a)
    BY DEF Good
  <1>3. PICK q : q = Decoded(r, k, jit)
    OBVIOUS
  <1> DEFINE gone == {At(r, i) : i \in 0 .. k - 1}
  <1>4. r.n \in Slot /\ r.len \in [Slot -> Lengths \cup {0}] /\ r.pkt \in [Slot -> 0 .. MaxArrive]
    BY <1>2 DEF Ring
  <1>5. /\ q.n = At(r, k) /\ q.pkt = r.pkt /\ q.played = r.pkt[At(r, k - 1)]
        /\ q.decoded = r.decoded + k /\ q.jit = jit
        /\ q.len = [i \in Slot |-> IF i \in gone THEN 0 ELSE r.len[i]]
        /\ q.total = Less(Wrap(r.total - r.len[r.n]), Samples(r, gone \ {r.n}))
        /\ q.over = (r.over /\ Waiting(r) # gone)
        /\ q = [pkt |-> q.pkt, len |-> q.len, n |-> q.n, total |-> q.total, over |-> q.over,
                jit |-> q.jit, played |-> q.played, decoded |-> q.decoded]
    BY <1>2, <1>3 DEF Decoded, Ring
  <1> HIDE DEF gone
  <1>6. k \in 0 .. MAX_PKT /\ k - 1 \in 0 .. MAX_PKT /\ k - 1 \in 0 .. w - 1
    BY <1>1
  <1>7. At(r, k) \in Slot /\ At(r, k - 1) \in Slot
    BY <1>4, <1>6, AtIs
  <1>8. FilledTo(q, w - k)
    <2> SUFFICES ASSUME NEW i \in 0 .. MAX_PKT - 1
                 PROVE  q.len[At(q, i)] # 0 <=> i < w - k
      BY DEF FilledTo
    <2> DEFINE j == IF k + i < MAX_PKT THEN k + i ELSE k + i - MAX_PKT
    <2>1. j \in 0 .. MAX_PKT - 1 /\ j \in 0 .. MAX_PKT
      BY <1>1, <1>6
    <2>2. At(q, i) = At(r, j) /\ At(r, j) \in Slot
      BY <1>4, <1>5, <1>6, <2>1, AtMoved, AtIs
    <2>3. At(r, j) \in gone <=> j < k
      <3>1. \A l \in 0 .. k - 1 : l \in 0 .. MAX_PKT - 1
        BY <1>1
      <3>2. \A l \in 0 .. k - 1 : At(r, j) = At(r, l) => j = l
        BY <1>4, <2>1, <3>1, AtEach
      <3>3. j < k <=> j \in 0 .. k - 1
        BY <1>1, <2>1
      <3> HIDE DEF j
      <3> QED
        BY <3>2, <3>3 DEF gone
    <2>4. r.len[At(r, j)] # 0 <=> j < w
      BY <2>1 DEF Holds, FilledTo
    <2>5. q.len[At(q, i)] # 0 <=> ~(j < k) /\ j < w
      BY <1>5, <2>2, <2>3, <2>4
    <2>6. ~(j < k) /\ j < w <=> i < w - k
      BY <1>1
    <2> QED
      BY <2>5, <2>6
  <1>9. s = 0 => a = q.played + (w - k) /\ NextOnes(q, w - k)
    <2> SUFFICES ASSUME s = 0
                 PROVE  a = q.played + (w - k) /\ NextOnes(q, w - k)
      OBVIOUS
    <2>1. a = r.played + w /\ r.played \in Nat
      BY <1>2 DEF Holds, Ring
    <2>2. \A i \in 0 .. w - 1 : r.pkt[At(r, i)] = r.played + i + 1
      BY DEF Holds, NextOnes
    <2>3. q.played = r.played + k
      BY <1>1, <1>5, <1>6, <2>1, <2>2
    <2>4. ASSUME NEW i \in 0 .. (w - k) - 1
          PROVE  q.pkt[At(q, i)] = q.played + i + 1
      <3>1. i \in 0 .. MAX_PKT - 1 /\ k + i < MAX_PKT /\ k + i \in 0 .. w - 1
        BY <1>1, <2>4
      <3>2. At(q, i) = At(r, k + i)
        BY <1>4, <1>5, <1>6, <3>1, AtMoved
      <3>3. r.pkt[At(r, k + i)] = r.played + (k + i) + 1
        BY <2>2, <3>1
      <3> QED
        BY <1>1, <1>5, <2>1, <2>3, <3>1, <3>2, <3>3
    <2> QED
      BY <1>1, <2>1, <2>3, <2>4 DEF NextOnes
  <1>10. a = q.decoded + (w - k) + s
    BY <1>1, <1>2, <1>5 DEF Holds, Ring
  <1>11. Holds(q, a, s, w - k)
    BY <1>8, <1>9, <1>10 DEF Holds
  <1>12. Distinct(q, a)
    <2>1. Waiting(q) \subseteq Waiting(r)
      BY <1>5 DEF Waiting
    <2> QED
      BY <1>2, <1>5, <2>1 DEF Distinct
  <1>13. Counted(q) /\ q.total \in Short
    <2>1. gone \in SUBSET Slot
      <3>1. \A i \in 0 .. k - 1 : i \in 0 .. MAX_PKT
        BY <1>1
      <3> QED
        BY <1>4, <3>1, AtIs DEF gone
    <2>2. \A i \in Slot : r.len[i] \in Nat /\ q.len[i] \in Nat
      BY <1>4, <1>5, RingAssumption
    <2>3. r.n \in gone /\ r.len[r.n] \in 1 .. MaxShort
      <3>1. 0 \in 0 .. MAX_PKT - 1 /\ 0 \in 0 .. k - 1 /\ 0 < w /\ 0 \in 0 .. MAX_PKT
        BY <1>1
      <3>2. At(r, 0) = r.n
        <4>1. r.n \in 0 .. MAX_PKT - 1
          BY <1>4 DEF Slot
        <4> QED
          BY <1>1, <1>4, <3>1, <4>1, AtIs
      <3>3. r.len[r.n] # 0
        BY <3>1, <3>2 DEF Holds, FilledTo
      <3> QED
        BY <1>4, <3>1, <3>2, <3>3, RingAssumption DEF gone
    <2>4. Samples(q, gone) = 0 /\ Samples(q, Slot \ gone) = Samples(r, Slot \ gone)
      BY <1>5, <2>1, SamplesNone, SamplesSame
    <2> DEFINE g == Samples(r, gone \ {r.n})
               R == Samples(r, Slot \ gone)
    <2>5. g \in Nat /\ R \in Nat
      <3>1. gone \ {r.n} \in SUBSET Slot /\ Slot \ gone \in SUBSET Slot
        BY <2>1
      <3> QED
        BY <2>2, <3>1, SamplesFinite
    <2>6. Samples(r, Slot) = r.len[r.n] + g + R /\ Samples(q, Slot) = R
      <3>1. Slot \in SUBSET Slot /\ gone \in SUBSET Slot /\ {r.n} \in SUBSET gone
        BY <2>1, <2>3
      <3>2. Samples(r, gone) = Samples(r, {r.n}) + g
        BY <2>2, <3>1, SamplesSplit
      <3>3. /\ Samples(r, Slot) = Samples(r, gone) + R
            /\ Samples(q, Slot) = Samples(q, gone) + Samples(q, Slot \ gone)
        BY <2>2, <3>1, SamplesSplit
      <3>4. Samples(r, {r.n}) = r.len[r.n]
        BY <1>4, <2>2, SamplesOne
      <3> HIDE DEF g, R
      <3>5. Samples(q, Slot) = 0 + R
        BY <2>4, <3>3 DEF R
      <3> QED
        BY <2>5, <3>2, <3>3, <3>4, <3>5
    <2>7. r.total \in Short /\ Unwrapped(r.total) <= r.len[r.n] + g + R
      BY <1>2, <2>6 DEF Counted, Ring, Short
    <2>8. q.total = Less(Wrap(r.total - r.len[r.n]), g)
      BY <1>5
    <2> HIDE DEF g, R
    <2>9. /\ q.total \in 0 .. MaxShort /\ q.total <= R
          /\ r.total = r.len[r.n] + g + R => q.total = R
      BY <2>3, <2>5, <2>7, <2>8, Lessened
    <2>10. Unwrapped(q.total) <= Samples(q, Slot)
      BY <2>5, <2>6, <2>9, RingAssumption DEF Unwrapped
    <2>11. ASSUME ~ q.over PROVE q.total = Samples(q, Slot)
      <3>1. CASE ~ r.over
        BY <1>2, <2>6, <2>9, <3>1 DEF Counted
      <3>2. CASE r.over
        <4>1. Waiting(r) = gone
          BY <1>5, <2>11, <3>2
        <4>2. \A i \in Slot : q.len[i] = 0
          BY <1>5, <4>1 DEF Waiting
        <4>3. R = 0
          BY <2>6, <4>2, SamplesNone
        <4> QED
          BY <2>6, <2>9, <4>3, RingAssumption
      <3> QED
        BY <3>1, <3>2
    <2>12. q.total \in Short
      BY <2>9, RingAssumption DEF Short
    <2> QED
      BY <2>10, <2>11, <2>12 DEF Counted
  <1>14. q \in Ring
    <2>1. q.len \in [Slot -> Lengths \cup {0}]
      BY <1>4, <1>5
    <2>2. q.played \in 0 .. MaxArrive
      BY <1>4, <1>5, <1>7
    <2>3. q.decoded \in 0 .. MaxArrive
      <3>1. q.decoded \in Nat
        BY <1>1, <1>2, <1>5 DEF Ring
      <3> QED
        BY <1>1, <1>2, <1>10, <3>1
    <2>4. q.over \in BOOLEAN
      BY <1>5
    <2> QED
      BY <1>4, <1>5, <1>7, <1>13, <2>1, <2>2, <2>3, <2>4 DEF Ring, Short
  <1>15. w - k \in 0 .. MAX_PKT
    BY <1>1
  <1> QED
    BY <1>2, <1>3, <1>5, <1>11, <1>12, <1>14, <1>15, <1>13 DEF Good

\* A turn of the main loop keeps the ring right, and when it leaves nothing to play,
\* nothing waits.
LEMMA TurnedHolds ==
    ASSUME NEW r, NEW a, NEW s, Good(r, a, s), NEW q \in Turned(r)
    PROVE  Good(q, a, s) /\ (~q.jit => Holds(q, a, s, 0))
  <1>1. MAX_PKT \in Nat \ {0}
    BY RingAssumption
  <1>2. PICK w \in 0 .. MAX_PKT : Holds(r, a, s, w)
    BY DEF Good
  <1>3. r \in Ring /\ r.n \in Slot /\ FilledTo(r, w)
    BY <1>2 DEF Good, Ring, Holds
  <1>4. InRow(r) = 1 .. w /\ (w # 0 => Max(InRow(r)) = w) /\ (r.len[r.n] = 0 <=> w = 0)
    BY <1>3, RowIs
  <1>5. CASE r.jit /\ q = r
    BY <1>5
  <1>6. CASE r.len[r.n] = 0 /\ q = Silent(r)
    <2>1. w = 0
      BY <1>4, <1>6
    <2>2. /\ q.n = r.n /\ q.len = r.len /\ q.pkt = r.pkt /\ q.played = r.played
          /\ q.decoded = r.decoded /\ q \in Ring
      BY <1>3, <1>6 DEF Silent, Ring
    <2>3. Holds(q, a, s, w) /\ Distinct(q, a)
      BY <1>2, <2>2, SameSlots DEF Good
    <2>4. q.total = r.total /\ q.over = r.over /\ Samples(q, Slot) = Samples(r, Slot)
      BY <1>3, <1>6, <2>2, SamplesSame DEF Silent, Ring
    <2> QED
      BY <2>1, <2>2, <2>3, <2>4 DEF Good, Counted
  <1>7. CASE r.len[r.n] # 0 /\ \E k \in InRow(r) : q = Decoded(r, k, TRUE)
    <2>1. PICK k \in 1 .. w : q = Decoded(r, k, TRUE)
      BY <1>4, <1>7
    <2> QED
      BY <1>2, <2>1, DecodedHolds
  <1>8. CASE r.len[r.n] # 0 /\ q = Decoded(r, Max(InRow(r)), FALSE)
    <2>1. w # 0 /\ q = Decoded(r, w, FALSE)
      BY <1>4, <1>8
    <2>2. w \in 1 .. w /\ w - w = 0
      BY <1>1, <2>1
    <2> QED
      BY <1>2, <2>1, <2>2, DecodedHolds
  <1> QED
    BY <1>5, <1>6, <1>7, <1>8 DEF Turned

\* A packet decoded at once is the next one, and no slot has it.
LEMMA AtOnceHolds ==
    ASSUME NEW r, NEW a, NEW s, Good(r, a, s), Holds(r, a, s, 0), a < MaxArrive,
           NEW jit \in BOOLEAN
    PROVE  Good(AtOnce(r, a + 1, jit), a + 1, s)
  <1>1. MAX_PKT \in Nat \ {0} /\ MaxArrive \in Nat /\ a + 1 \in 0 .. MaxArrive /\ a \in Nat
    BY RingAssumption DEF Good
  <1>2. PICK q : q = AtOnce(r, a + 1, jit)
    OBVIOUS
  <1>3. r \in Ring /\ s \in 0 .. MaxArrive /\ Distinct(r, a)
    BY DEF Good
  <1>4. /\ q.n = r.n /\ q.len = r.len /\ q.pkt = r.pkt /\ q.total = r.total
        /\ q.over = r.over /\ q.played = a + 1 /\ q.decoded = r.decoded + 1
        /\ q = [r EXCEPT !.played = a + 1, !.decoded = r.decoded + 1, !.jit = jit]
    BY <1>2, <1>3 DEF AtOnce, Ring
  <1>5. \A i : At(q, i) = At(r, i)
    BY <1>4 DEF At
  <1>6. a = r.decoded + s /\ r.decoded \in Nat
    BY <1>1, <1>3 DEF Holds, Ring
  <1>7. Holds(q, a + 1, s, 0)
    <2>1. FilledTo(q, 0)
      BY <1>4, <1>5 DEF Holds, FilledTo
    <2>2. a + 1 = q.decoded + 0 + s /\ a + 1 = q.played + 0
      BY <1>1, <1>3, <1>4, <1>6
    <2>3. NextOnes(q, 0)
      BY DEF NextOnes
    <2> QED
      BY <2>1, <2>2, <2>3 DEF Holds
  <1>8. Distinct(q, a + 1)
    <2>1. \A i \in Slot : r.pkt[i] \in Nat
      BY <1>3 DEF Ring
    <2> QED
      BY <1>1, <1>3, <1>4, <2>1 DEF Distinct, Waiting
  <1>9. q \in Ring
    <2>1. r.decoded + 1 \in 0 .. MaxArrive
      BY <1>1, <1>3, <1>6
    <2> QED
      BY <1>1, <1>3, <1>4, <2>1 DEF Ring
  <1>10. 0 \in 0 .. MAX_PKT
    BY <1>1
  <1>11. Counted(q)
    BY <1>4, SamplesSame DEF Good, Counted
  <1> QED
    BY <1>1, <1>2, <1>3, <1>7, <1>8, <1>9, <1>10, <1>11 DEF Good

\* A packet stored waits after the others; in a full ring it takes the place of the next.
LEMMA StoredHolds ==
    ASSUME NEW r, NEW a, NEW s, Good(r, a, s), a < MaxArrive, NEW l \in Lengths
    PROVE  Good(Stored(r, a + 1, l), a + 1, IF Waiting(r) = Slot THEN s + 1 ELSE s)
  <1>1. /\ MAX_PKT \in Nat \ {0} /\ MaxArrive \in Nat /\ a + 1 \in 0 .. MaxArrive /\ a \in Nat
        /\ l # 0 /\ s \in Nat
    BY RingAssumption DEF Good
  <1>2. PICK w \in 0 .. MAX_PKT : Holds(r, a, s, w)
    BY DEF Good
  <1>3. r \in Ring /\ s \in 0 .. MaxArrive /\ Distinct(r, a)
    BY DEF Good
  <1>4. /\ r.n \in Slot /\ r.len \in [Slot -> Lengths \cup {0}] /\ r.decoded \in Nat
        /\ r.pkt \in [Slot -> 0 .. MaxArrive] /\ r.played \in Nat /\ FilledTo(r, w)
    BY <1>2, <1>3 DEF Ring, Holds
  <1> DEFINE e == IF w = MAX_PKT THEN 0 ELSE w
             full == Waiting(r) = Slot
             t == IF full THEN s + 1 ELSE s
  <1>5. PICK j : j = At(r, e)
    OBVIOUS
  <1>6. Free(r) = j /\ j \in Slot /\ e \in 0 .. MAX_PKT - 1
    <2>1. e \in 0 .. MAX_PKT - 1 /\ e \in 0 .. MAX_PKT
      BY <1>1
    <2>2. Free(r) = j
      BY <1>4, <1>5, FreeIs
    <2> HIDE DEF e
    <2>3. j \in Slot
      BY <1>4, <1>5, <2>1, AtIs
    <2> QED
      BY <2>1, <2>2, <2>3
  <1>7. full <=> w = MAX_PKT
    BY <1>4, FullIs
  <1>8. PICK q : q = Stored(r, a + 1, l)
    OBVIOUS
  <1>9. /\ q.n = r.n /\ q.played = r.played /\ q.decoded = r.decoded
        /\ q.total = Wrap((IF r.len[j] = 0 THEN r.total
                           ELSE Less(Wrap(r.total - r.len[j]), 0)) + l)
        /\ q.over = (r.over \/ Samples(r, Slot \ {j}) + l > MaxShort)
        /\ q.len = [r.len EXCEPT ![j] = l] /\ q.pkt = [r.pkt EXCEPT ![j] = a + 1]
        /\ q = [r EXCEPT !.pkt = q.pkt, !.len = q.len, !.total = q.total, !.over = q.over]
    BY <1>3, <1>6, <1>8 DEF Stored, Ring
  <1>10. \A i : At(q, i) = At(r, i)
    BY <1>9 DEF At
  <1>11. \A i \in 0 .. MAX_PKT - 1 : At(r, i) \in Slot /\ (At(r, i) = j <=> i = e)
    <2>1. \A i \in 0 .. MAX_PKT - 1 : i \in 0 .. MAX_PKT
      BY <1>1
    <2> HIDE DEF e
    <2> QED
      BY <1>4, <1>5, <1>6, <2>1, AtIs, AtEach
  <1>12. PICK v \in 0 .. MAX_PKT : v = IF w = MAX_PKT THEN w ELSE w + 1
    BY <1>1
  <1> HIDE DEF full
  <1>13. FilledTo(q, v)
    <2>1. \A i \in 0 .. MAX_PKT - 1 : q.len[At(q, i)] = IF i = e THEN l ELSE r.len[At(r, i)]
      BY <1>4, <1>9, <1>10, <1>11
    <2>2. \A i \in 0 .. MAX_PKT - 1 : i = e \/ i < w <=> i < v
      BY <1>1, <1>12
    <2>3. \A i \in 0 .. MAX_PKT - 1 : r.len[At(r, i)] # 0 <=> i < w
      BY <1>4 DEF FilledTo
    <2> HIDE DEF e
    <2> QED
      BY <1>1, <2>1, <2>2, <2>3 DEF FilledTo
  <1>14. a = r.decoded + w + s /\ a + 1 = q.decoded + v + t
    BY <1>1, <1>2, <1>4, <1>7, <1>9, <1>12 DEF Holds
  <1>15. t = 0 => a + 1 = q.played + v /\ NextOnes(q, v)
    <2> SUFFICES ASSUME t = 0
                 PROVE  a + 1 = q.played + v /\ NextOnes(q, v)
      OBVIOUS
    <2>1. s = 0 /\ ~full /\ w # MAX_PKT /\ e = w /\ v = w + 1
      BY <1>1, <1>7, <1>12
    <2>2. a = r.played + w /\ \A i \in 0 .. w - 1 : r.pkt[At(r, i)] = r.played + i + 1
      BY <1>2, <2>1 DEF Holds, NextOnes
    <2>3. ASSUME NEW i \in 0 .. v - 1
          PROVE  q.pkt[At(q, i)] = q.played + i + 1
      <3>1. i \in 0 .. MAX_PKT - 1 /\ (i # w => i \in 0 .. w - 1)
        BY <1>1, <2>1, <2>3
      <3>2. q.pkt[At(q, i)] = IF i = w THEN a + 1 ELSE r.pkt[At(r, i)]
        BY <1>4, <1>9, <1>10, <1>11, <2>1, <3>1
      <3> QED
        BY <1>1, <1>4, <1>9, <2>2, <3>1, <3>2
    <2> QED
      BY <1>1, <1>4, <1>9, <2>1, <2>2, <2>3 DEF NextOnes
  <1>16. Holds(q, a + 1, t, v)
    BY <1>13, <1>14, <1>15 DEF Holds
  <1>17. Distinct(q, a + 1)
    <2>1. \A i \in Slot : q.pkt[i] = IF i = j THEN a + 1 ELSE r.pkt[i]
      BY <1>4, <1>9
    <2>2. \A i \in Slot : r.pkt[i] \in Nat /\ r.pkt[i] <= a
      BY <1>3, <1>4 DEF Distinct
    <2>3. \A i \in Waiting(q) : i \in Slot /\ (i # j => i \in Waiting(r))
      BY <1>4, <1>9 DEF Waiting
    <2>4. \A i, k \in Waiting(r) : r.pkt[i] = r.pkt[k] => i = k
      BY <1>3 DEF Distinct
    <2>5. \A i \in Slot : q.pkt[i] <= a + 1 /\ (q.pkt[i] = a + 1 <=> i = j)
      BY <1>1, <2>1, <2>2
    <2> QED
      BY <2>1, <2>3, <2>4, <2>5 DEF Distinct
  <1>18. Counted(q) /\ q.total \in Short
    <2>1. /\ \A i \in Slot : r.len[i] \in Nat /\ q.len[i] \in Nat
          /\ l \in 1 .. MaxShort /\ q.len[j] = l /\ \A i \in Slot \ {j} : q.len[i] = r.len[i]
          /\ r.len[j] \in (1 .. MaxShort) \cup {0}
      BY <1>4, <1>6, <1>9, RingAssumption
    <2>2. {j} \in SUBSET Slot /\ Slot \ {j} \in SUBSET Slot /\ Slot \in SUBSET Slot
      BY <1>6
    <2>3. Samples(r, {j}) = r.len[j] /\ Samples(q, {j}) = l
      BY <1>6, <2>1, SamplesOne
    <2> DEFINE R == Samples(r, Slot \ {j})
    <2>4. Samples(q, Slot \ {j}) = R /\ R \in Nat
      BY <2>1, <2>2, SamplesSame, SamplesFinite
    <2>5. /\ Samples(r, Slot) = Samples(r, {j}) + R
          /\ Samples(q, Slot) = Samples(q, {j}) + Samples(q, Slot \ {j})
      BY <2>1, <2>2, SamplesSplit
    <2>6. /\ r.total \in Short /\ Unwrapped(r.total) <= Samples(r, Slot)
          /\ ~ r.over => r.total = Samples(r, Slot)
      BY <1>3 DEF Good, Counted, Ring, Short
    <2> DEFINE u == IF r.len[j] = 0 THEN r.total ELSE Less(Wrap(r.total - r.len[j]), 0)
    <2>7. q.total = Wrap(u + l) /\ (q.over <=> r.over \/ R + l > MaxShort)
      BY <1>9
    <2> HIDE DEF R
    <2>8. u \in Short /\ Unwrapped(u) <= R /\ (~ r.over => u = R)
      <3>1. CASE r.len[j] = 0
        BY <2>3, <2>4, <2>5, <2>6, <3>1
      <3>2. CASE r.len[j] # 0
        <4>1. r.len[j] \in 1 .. MaxShort /\ 0 \in Nat
          BY <2>1, <3>2
        <4>2. Samples(r, Slot) = r.len[j] + 0 + R
          BY <2>3, <2>4, <2>5, <4>1
        <4>3. /\ Less(Wrap(r.total - r.len[j]), 0) \in 0 .. MaxShort
              /\ Less(Wrap(r.total - r.len[j]), 0) <= R
              /\ r.total = r.len[j] + 0 + R => Less(Wrap(r.total - r.len[j]), 0) = R
          BY <2>4, <2>6, <4>1, <4>2, Lessened
        <4>4. u \in 0 .. MaxShort /\ u <= R /\ (~ r.over => u = R)
          BY <2>6, <3>2, <4>2, <4>3
        <4> HIDE DEF u
        <4> QED
          BY <4>4, RingAssumption DEF Short, Unwrapped
      <3> QED
        BY <3>1, <3>2
    <2> HIDE DEF u
    <2>9. /\ Wrap(u + l) \in Short /\ Unwrapped(Wrap(u + l)) <= R + l
          /\ u = R /\ R + l <= MaxShort => Wrap(u + l) = R + l
      BY <2>1, <2>4, <2>8, Added
    <2>10. Samples(q, Slot) = R + l
      BY <2>1, <2>3, <2>4, <2>5
    <2>11. ~ q.over => ~ r.over /\ R + l <= MaxShort
      BY <2>1, <2>4, <2>7, RingAssumption
    <2> QED
      BY <2>7, <2>8, <2>9, <2>10, <2>11 DEF Counted
  <1>19. q \in Ring
    <2>1. q.len \in [Slot -> Lengths \cup {0}] /\ q.pkt \in [Slot -> 0 .. MaxArrive]
      BY <1>1, <1>4, <1>9
    <2>2. q.over \in BOOLEAN
      BY <1>3, <1>9 DEF Ring
    <2> QED
      BY <1>3, <1>9, <1>18, <2>1, <2>2 DEF Ring, Short
  <1>20. t \in 0 .. MaxArrive
    BY <1>1, <1>4, <1>9, <1>12, <1>14
  <1>21. Good(q, a + 1, t)
    BY <1>1, <1>16, <1>17, <1>18, <1>19, <1>20 DEF Good
  <1> QED
    BY <1>8, <1>21 DEF full

-----------------------------------------------------------------------------
(* The theorems.                                                           *)

\* What go_snd does at a turn and with a packet keeps the ring filled from n_pkt on with
\* packets that are all different, and the counts right.
THEOREM AlwaysRingInv == RingSpec => []RingInv
  <1>1. RingInit => RingInv
    <2> SUFFICES ASSUME RingInit
                 PROVE  RingInv
      OBVIOUS
    <2>1. MAX_PKT \in Nat \ {0} /\ MaxArrive \in Nat /\ 0 \in Slot
      BY RingAssumption DEF Slot
    <2>2. /\ arrived = 0 /\ skipped = 0 /\ ring.n = 0 /\ ring.played = 0 /\ ring.decoded = 0
          /\ ring.len = [i \in Slot |-> 0] /\ ring.pkt = [i \in Slot |-> 0]
      BY DEF RingInit
    <2>3. ring \in Ring
      BY <2>1, RingAssumption DEF RingInit, Ring
    <2>4. \A i \in 0 .. MAX_PKT - 1 : ring.len[At(ring, i)] = 0
      <3>1. \A i \in 0 .. MAX_PKT - 1 : i \in 0 .. MAX_PKT
        BY <2>1
      <3> QED
        BY <2>1, <2>2, <3>1, AtIs
    <2>5. Holds(ring, arrived, skipped, 0)
      BY <2>2, <2>4 DEF Holds, FilledTo, NextOnes
    <2>6. Distinct(ring, arrived)
      BY <2>2 DEF Distinct, Waiting
    <2>7. Counted(ring)
      <3>1. ring.total = 0 /\ Samples(ring, Slot) = 0
        BY <2>2, SamplesNone DEF RingInit
      <3> QED
        BY <3>1 DEF Counted, Unwrapped
    <2> QED
      BY <2>1, <2>2, <2>3, <2>5, <2>6, <2>7 DEF RingInv, RingTypeOK
  <1>2. RingInv /\ [RingNext]_ringVars => RingInv'
    <2> SUFFICES ASSUME RingInv, [RingNext]_ringVars
                 PROVE  RingInv'
      OBVIOUS
    <2>1. Good(ring, arrived, skipped)
      BY DEF RingInv, Good, RingTypeOK
    <2>2. CASE Turn
      <3>1. Good(ring', arrived, skipped)
        BY <2>1, <2>2, TurnedHolds DEF Turn
      <3> QED
        BY <2>2, <3>1 DEF Turn, Good, RingInv, RingTypeOK
    <2>3. CASE ArrivePkt
      <3>1. arrived < MaxArrive /\ arrived' = arrived + 1
        BY <2>3 DEF ArrivePkt
      <3>2. PICK r \in Turned(ring) :
              \/ /\ ~r.jit
                 /\ \E jit \in BOOLEAN : ring' = AtOnce(r, arrived + 1, jit)
                 /\ UNCHANGED skipped
              \/ /\ r.jit
                 /\ \E l \in Lengths : ring' = Stored(r, arrived + 1, l)
                 /\ skipped' = IF Waiting(r) = Slot THEN skipped + 1 ELSE skipped
        BY <2>3, <3>1 DEF ArrivePkt
      <3>3. Good(r, arrived, skipped) /\ (~r.jit => Holds(r, arrived, skipped, 0))
        BY <2>1, TurnedHolds
      <3>4. Good(ring', arrived', skipped')
        BY <3>1, <3>2, <3>3, AtOnceHolds, StoredHolds
      <3> QED
        BY <3>4 DEF Good, RingInv, RingTypeOK
    <2>4. CASE UNCHANGED ringVars
      BY <2>4 DEF ringVars, RingInv, RingTypeOK, Counted, Holds, FilledTo, NextOnes, Distinct,
         Waiting, At, Samples, Sampled
    <2> QED
      BY <2>2, <2>3, <2>4 DEF RingNext
  <1> QED
    BY <1>1, <1>2, PTL DEF RingSpec

\* The slots and counts of the ring keep their types.
THEOREM RingTypeCorrect == RingSpec => []RingTypeOK
  <1>1. RingInv => RingTypeOK
    BY DEF RingInv
  <1> QED
    BY <1>1, AlwaysRingInv, PTL

\* l_pkt_buf, from which the speed of playing is controlled, is the number of samples that
\* wait, however often the ring was overwritten, unless since the ring was last empty more
\* of them waited than a short counts.
THEOREM TotalRightHolds == RingSpec => []TotalRight
  <1>1. RingInv => TotalRight
    BY DEF RingInv, Counted, TotalRight
  <1> QED
    BY <1>1, AlwaysRingInv, PTL

\* Packets are played in the order in which they arrived until the ring was full.
THEOREM PlaysInOrderHolds == RingSpec => []PlaysInOrder
  <1>1. RingInv => PlaysInOrder
    <2> SUFFICES ASSUME RingInv, skipped = 0, NEW i \in 0 .. MAX_PKT - 1
                 PROVE  IF ring.played + i < arrived
                        THEN /\ ring.len[At(ring, i)] # 0
                             /\ ring.pkt[At(ring, i)] = ring.played + i + 1
                        ELSE ring.len[At(ring, i)] = 0
      BY DEF PlaysInOrder
    <2>1. MAX_PKT \in Nat \ {0} /\ ring.played \in Nat /\ i \in Nat
      BY RingAssumption DEF RingInv, RingTypeOK, Ring
    <2>2. PICK w \in 0 .. MAX_PKT : Holds(ring, arrived, skipped, w)
      BY DEF RingInv
    <2>3. ring.len[At(ring, i)] # 0 <=> i < w
      BY <2>2 DEF Holds, FilledTo
    <2>4. arrived = ring.played + w
      BY <2>2 DEF Holds
    <2>5. i < w => ring.pkt[At(ring, i)] = ring.played + i + 1
      BY <2>1, <2>2 DEF Holds, NextOnes
    <2>6. ring.played + i < arrived <=> i < w
      BY <2>1, <2>4
    <2> QED
      BY <2>3, <2>5, <2>6
  <1> QED
    BY <1>1, AlwaysRingInv, PTL

\* Every packet that was not overwritten is played or waits, and waits once.
THEOREM EachCountedHolds == RingSpec => []EachCounted
  <1>1. RingInv => EachCounted
    <2> SUFFICES ASSUME RingInv
                 PROVE  EachCounted
      OBVIOUS
    <2>1. MAX_PKT \in Nat \ {0} /\ ring.n \in Slot
      BY RingAssumption DEF RingInv, RingTypeOK, Ring
    <2>2. PICK w \in 0 .. MAX_PKT : Holds(ring, arrived, skipped, w)
      BY DEF RingInv
    <2>3. \A i \in 0 .. MAX_PKT - 1 :
            At(ring, i) \in Slot /\ (ring.len[At(ring, i)] # 0 <=> i < w)
      <3>1. \A i \in 0 .. MAX_PKT - 1 : i \in 0 .. MAX_PKT
        BY <2>1
      <3> QED
        BY <2>1, <2>2, <3>1, AtIs DEF Holds, FilledTo
    <2> DEFINE f == [i \in 0 .. w - 1 |-> At(ring, i)]
    <2>4. w \in Nat /\ \A i : i \in 0 .. w - 1 <=> i \in 0 .. MAX_PKT - 1 /\ i < w
      BY <2>1
    <2>5. f \in Injection(0 .. w - 1, Waiting(ring))
      <3>1. \A i \in 0 .. w - 1 : f[i] \in Waiting(ring)
        BY <2>3, <2>4 DEF Waiting
      <3>2. \A i, j \in 0 .. w - 1 : f[i] = f[j] => i = j
        BY <2>1, <2>4, AtEach
      <3> HIDE DEF f
      <3>3. f \in [0 .. w - 1 -> Waiting(ring)]
        BY <3>1 DEF f
      <3> QED
        BY <3>2, <3>3 DEF Injection, IsInjective
    <2>6. f \in Surjection(0 .. w - 1, Waiting(ring))
      <3>1. ASSUME NEW s \in Waiting(ring)
            PROVE  \E i \in 0 .. w - 1 : f[i] = s
        <4>1. PICK i \in 0 .. MAX_PKT - 1 : At(ring, i) = s
          BY <2>1, AtEach DEF Waiting
        <4>2. i \in 0 .. w - 1
          BY <2>3, <2>4, <4>1 DEF Waiting
        <4> QED
          BY <4>1, <4>2
      <3>2. f \in [0 .. w - 1 -> Waiting(ring)]
        BY <2>5 DEF Injection
      <3> HIDE DEF f
      <3> QED
        BY <3>1, <3>2 DEF Surjection
    <2>7. IsFiniteSet(0 .. w - 1) /\ Cardinality(0 .. w - 1) = w
      BY <2>4, FS_Interval
    <2>8. Cardinality(Waiting(ring)) = w
      <3>1. ExistsBijection(0 .. w - 1, Waiting(ring))
        BY <2>5, <2>6 DEF ExistsBijection, Bijection
      <3> QED
        BY <2>7, <3>1, FS_Bijection
    <2>9. arrived = ring.decoded + Cardinality(Waiting(ring)) + skipped
      BY <2>2, <2>8 DEF Holds
    <2> QED
      BY <2>9 DEF RingInv, Distinct, EachCounted
  <1> QED
    BY <1>1, AlwaysRingInv, PTL
=============================================================================

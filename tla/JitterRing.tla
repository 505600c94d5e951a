----------------------------- MODULE JitterRing -----------------------------
(***************************************************************************)
(* Playing received packets (libdesktop/codecs.c: go_snd and playjit).     *)
(*                                                                         *)
(* One packet at a time is decoded into jit_buf and played from there as   *)
(* the sound device takes it.  Packets that come meanwhile wait in a ring  *)
(* of slots from n_pkt on; a full ring is overwritten.  The number of      *)
(* waiting samples, a 16-bit integer, controls the speed of playing.       *)
(***************************************************************************)
EXTENDS Integers, FiniteSetsExt

CONSTANTS
    MAX_PKT,   \* slots of the ring
    Lengths,   \* codec_len: samples in a packet of each codec
    MaxShort,  \* the greatest short: 32767
    MaxArrive  \* bound: packets that arrive

ASSUME RingAssumption ==
    /\ MAX_PKT \in Nat \ {0} /\ MaxShort \in Nat /\ Lengths \subseteq 1 .. MaxShort
    /\ MaxArrive \in Nat

VARIABLES
    ring,     \* the packets that wait, see Ring
    arrived,  \* history: packets arrived
    skipped   \* history: packets overwritten

ringVars == <<ring, arrived, skipped>>

-----------------------------------------------------------------------------
Slot == 0 .. MAX_PKT - 1
Ring ==
    [pkt : [Slot -> 0 .. MaxArrive],     \* pkt_buf, numbered as they arrived
     len : [Slot -> Lengths \cup {0}],   \* l_pkt: samples, 0 when the slot is empty
     n : Slot,                           \* n_pkt: the slot to be decoded next
     total : -(MaxShort + 1) .. MaxShort,  \* l_pkt_buf: samples in all slots
     over : BOOLEAN,    \* history: since the ring was last empty, more samples waited
                        \* than a short counts
     jit : BOOLEAN,                      \* l_jit_buf > 0: something is left to play
     played : 0 .. MaxArrive,            \* history: the packet decoded last
     decoded : 0 .. MaxArrive]           \* history: packets decoded

At(r, i) == (r.n + i) % MAX_PKT

\* The samples that wait in some slots, each with its slot and its place there.
Sampled(r, slots) == UNION {{i} \X (1 .. r.len[i]) : i \in slots}
Samples(r, slots) == Cardinality(Sampled(r, slots))
Waiting(r) == {i \in Slot : r.len[i] # 0}
Less(a, b) == IF a > b THEN a - b ELSE 0

\* What a short holds of x, which is out of its range by less than the range.
Wrap(x) ==
    IF x > MaxShort THEN x - 2 * (MaxShort + 1)
    ELSE IF x < -(MaxShort + 1) THEN x + 2 * (MaxShort + 1)
    ELSE x

-----------------------------------------------------------------------------
\* Mutant: the packet played from stays in its slot.
DecodedKept(r, k, jit) ==
    LET gone == {At(r, i) : i \in 1 .. k - 1}
    IN  [r EXCEPT !.len = [i \in Slot |-> IF i \in gone THEN 0 ELSE @[i]],
                  !.n = At(r, k),
                  !.total = Less(Wrap(@ - r.len[r.n]), Samples(r, gone \ {r.n})),
                  !.over = @ /\ Waiting(r) # gone,
                  !.played = r.pkt[At(r, k - 1)],
                  !.decoded = @ + k,
                  !.jit = jit]

\* The first k packets are decoded.  A negative total becomes 0, or wraps back, with the
\* first of them.  A note of silence has no samples.
Decoded(r, k, jit) ==
    LET gone == {At(r, i) : i \in 0 .. k - 1}
    IN  [r EXCEPT !.len = [i \in Slot |-> IF i \in gone THEN 0 ELSE @[i]],
                  !.n = At(r, k),
                  !.total = Less(Wrap(@ - r.len[r.n]), Samples(r, gone \ {r.n})),
                  !.over = @ /\ Waiting(r) # gone,
                  !.played = r.pkt[At(r, k - 1)],
                  !.decoded = @ + k,
                  !.jit = jit]

\* go_snd begins with playjit, and decodes packets while nothing is left to play.
Silent(r) == [r EXCEPT !.jit = FALSE]
InRow(r) == {k \in 1 .. MAX_PKT : \A i \in 0 .. k - 1 : r.len[At(r, i)] # 0}
Turned(r) ==
    (IF r.jit THEN {r} ELSE {})
      \cup (IF r.len[r.n] = 0 THEN {Silent(r)}
            ELSE {Decoded(r, k, TRUE) : k \in InRow(r)} \cup {Decoded(r, Max(InRow(r)), FALSE)})

\* A packet that finds nothing left to play is decoded at once.
AtOnce(r, p, jit) == [r EXCEPT !.played = p, !.decoded = @ + 1, !.jit = jit]

\* Mutant: the first empty slot from the start of the ring.
FreeFromStart(r) ==
    LET empty == {i \in Slot : r.len[i] = 0} IN IF empty = {} THEN r.n ELSE Min(empty)

\* The first empty slot from n_pkt on; when there is none, n_pkt itself.
Free(r) ==
    LET empty == {i \in 0 .. MAX_PKT - 1 : r.len[At(r, i)] = 0}
    IN  At(r, IF empty = {} THEN 0 ELSE Min(empty))

\* Mutant: what is overwritten stays in the total.
StoredOver(r, p, l) ==
    LET j == Free(r)
    IN  [r EXCEPT !.pkt[j] = p, !.len[j] = l, !.total = Wrap(@ + l),
                  !.over = @ \/ Samples(r, Slot \ {j}) + l > MaxShort]

\* Any other waits in the ring.
Stored(r, p, l) ==
    LET j == Free(r)
    IN  [r EXCEPT !.pkt[j] = p, !.len[j] = l,
                  !.total = Wrap((IF r.len[j] = 0 THEN @ ELSE Less(Wrap(@ - r.len[j]), 0)) + l),
                  !.over = @ \/ Samples(r, Slot \ {j}) + l > MaxShort]

-----------------------------------------------------------------------------
\* go_snd(0), at each turn of the main loop.
Turn ==
    /\ ring' \in Turned(ring)
    /\ UNCHANGED <<arrived, skipped>>

\* go_snd(pkt).
ArrivePkt ==
    /\ arrived < MaxArrive
    /\ arrived' = arrived + 1
    /\ \E r \in Turned(ring) :
        \/ /\ ~r.jit
           /\ \E jit \in BOOLEAN : ring' = AtOnce(r, arrived', jit)
           /\ UNCHANGED skipped
        \/ /\ r.jit
           /\ \E l \in Lengths : ring' = Stored(r, arrived', l)
           /\ skipped' = IF Waiting(r) = Slot THEN skipped + 1 ELSE skipped

RingInit ==
    /\ ring = [pkt |-> [i \in Slot |-> 0], len |-> [i \in Slot |-> 0], n |-> 0, total |-> 0,
               over |-> FALSE, jit |-> FALSE, played |-> 0, decoded |-> 0]
    /\ arrived = 0 /\ skipped = 0

RingNext == Turn \/ ArrivePkt

RingSpec == RingInit /\ [][RingNext]_ringVars

-----------------------------------------------------------------------------
(* Properties.                                                             *)

RingTypeOK == ring \in Ring /\ arrived \in 0 .. MaxArrive /\ skipped \in 0 .. MaxArrive

\* Until the ring was full, packets are played in the order in which they arrived, none
\* left out and none twice: those that wait are the next ones, from n_pkt on without a gap.
PlaysInOrder == skipped = 0 =>
    \A i \in 0 .. MAX_PKT - 1 :
        IF ring.played + i < arrived
        THEN ring.len[At(ring, i)] # 0 /\ ring.pkt[At(ring, i)] = ring.played + i + 1
        ELSE ring.len[At(ring, i)] = 0

\* A full ring loses one packet for each that arrives, and no count goes wrong: every
\* other packet is played or waits, and waits once.
EachCounted ==
    /\ arrived = ring.decoded + Cardinality(Waiting(ring)) + skipped
    /\ \A i, j \in Waiting(ring) : ring.pkt[i] = ring.pkt[j] => i = j

\* l_pkt_buf, from which the speed of playing is controlled, is the sum of what waits,
\* whatever codecs it came in and however often the ring was overwritten, as long as no
\* more samples wait than a short counts; and it is that sum again, however wrong it
\* became, once the ring has been empty.
TotalRight == ~ ring.over => ring.total = Samples(ring, Slot)

-----------------------------------------------------------------------------
(* The inductive invariant.                                                *)

\* The first w slots from n_pkt on are filled, and no others.
FilledTo(r, w) == \A i \in 0 .. MAX_PKT - 1 : r.len[At(r, i)] # 0 <=> i < w

\* They hold the packets that follow the one decoded last.
NextOnes(r, w) == \A i \in 0 .. w - 1 : r.pkt[At(r, i)] = r.played + i + 1

\* What waits in a ring after a packets arrived and s of them were overwritten.
Holds(r, a, s, w) ==
    /\ FilledTo(r, w)
    /\ a = r.decoded + w + s
    /\ s = 0 => a = r.played + w /\ NextOnes(r, w)

\* No slot has a packet that has not arrived, no two that wait have the same one.
Distinct(r, a) ==
    /\ \A i \in Slot : r.pkt[i] <= a
    /\ \A i, j \in Waiting(r) : r.pkt[i] = r.pkt[j] => i = j

\* The total, or what it was before it wrapped, is never more than what waits.
Unwrapped(t) == IF t < 0 THEN t + 2 * (MaxShort + 1) ELSE t
Counted(r) ==
    /\ Unwrapped(r.total) <= Samples(r, Slot)
    /\ ~ r.over => r.total = Samples(r, Slot)

RingInv ==
    /\ RingTypeOK /\ Counted(ring)
    /\ \E w \in 0 .. MAX_PKT : Holds(ring, arrived, skipped, w)
    /\ Distinct(ring, arrived)
=============================================================================

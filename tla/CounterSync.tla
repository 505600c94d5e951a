---------------------------- MODULE CounterSync ----------------------------
(***************************************************************************)
(* One direction of an established call over UDP (libdesktop/crypto.c:     *)
(* do_data, go_data, do_syn, go_syn; the resynchronisation in do_read of   *)
(* libdesktop/tcp.c).                                                      *)
(*                                                                         *)
(* Every packet is encrypted and authenticated under the sender's counter, *)
(* and shows the low bits of it.  The receiver guesses the counter from    *)
(* its own and these bits; the MAC tells it whether the guess was right.   *)
(* Packets are lost, delayed and repeated.  A SYN shows the whole counter. *)
(***************************************************************************)
EXTENDS Integers, FiniteSets

CONSTANTS
    Window,    \* 2^(bits shown): 128, or 4 for MELPE packets
    Behind,    \* c is corrected when it is less than -Behind: 63, or 0
    BadLimit,  \* bad_mac above this starts the resynchronisation: 64
    BadKept,   \* what bad_mac is set to by it: 60
    Step,      \* what in_ctr is moved by: 128
    BadLeft,   \* bad_mac at the start of a call: reset_crp() does not clear it
    Slip,      \* 1 on a turn of do_read that computes the bitrate, else 0
    MaxOut,    \* bound: packets sent
    MaxLate,   \* bound: a datagram arrives before this many more packets are sent
    MaxHeld,   \* bound: late packets at a time
    MaxSyn     \* bound: SYNs on their way at a time

ASSUME WindowAssumption ==
    Window \in Nat \ {0} /\ Behind \in Nat /\ Behind < Window
ASSUME ResyncAssumption ==
    /\ BadLimit \in Nat /\ BadKept \in 0 .. BadLimit
    /\ Step \in Nat \ {0} /\ Slip \in {0, 1}
    /\ BadLeft \subseteq 0 .. (BadLimit + 1 + Slip)
ASSUME BoundsAssumption ==
    MaxOut \in Nat /\ MaxLate \in Nat /\ MaxHeld \in Nat /\ MaxSyn \in Nat

VARIABLES
    out,       \* out_ctr of the sender: the number of its next packet
    in,        \* in_ctr of the receiver
    bad,       \* bad_mac of the receiver
    held,      \* delayed packets and copies of packets on their way
    syns,      \* the counters shown by SYNs on their way
    lost,      \* history: packets lost since the last one accepted
    rejected,  \* history: packets rejected since the last one accepted
    newest     \* history: one more than the highest number accepted

vars == <<out, in, bad, held, syns, lost, rejected, newest>>

-----------------------------------------------------------------------------

\* Mutant: a counter whose low bits have wrapped is not corrected.
GuessUncorrected(n) == in + (n % Window) - (in % Window)
\* go_data: the counter the receiver takes packet n to have.  c is the low bits
\* shown minus its own; a c that is too far behind is taken to be ahead.
Guess(n) ==
    LET c == (n % Window) - (in % Window)
    IN  in + (IF c < -Behind THEN c + Window ELSE c)

\* The MAC is computed with the guessed counter.
Accepts(n) == Guess(n) = n

\* Mutant: the own counter is incremented, whatever was guessed.
AcceptNext(n) ==
    /\ Accepts(n)
    /\ in' = in + 1
    /\ bad' = 0
    /\ lost' = 0 /\ rejected' = 0
    /\ newest' = IF n + 1 > newest THEN n + 1 ELSE newest
\* go_data for packet n, and what becomes of the histories.
Accept(n) ==
    /\ Accepts(n)
    /\ in' = n + 1
    /\ bad' = 0
    /\ lost' = 0 /\ rejected' = 0
    /\ newest' = IF n + 1 > newest THEN n + 1 ELSE newest

Reject(n) ==
    /\ ~Accepts(n)
    /\ bad' = bad + 1
    /\ rejected' = rejected + 1
    /\ UNCHANGED <<in, lost, newest>>

GoData(n) == Accept(n) \/ Reject(n)

\* Mutant: packets are read before bad_mac is looked at.
ReadingAlways == TRUE
\* do_read looks at bad_mac before it reads a packet, except that once in more
\* than MAXPKTCNT packets it computes the bitrate and reads one instead.
Reading == bad <= BadLimit + Slip

-----------------------------------------------------------------------------

\* Datagrams that get too old never arrive.
StillHeld(s, o) == {n \in s : o - n <= MaxLate}

\* do_data: the packet gets the counter's value, `keep' is what the network keeps
\* of it, none or a copy.
DoData(keep) ==
    /\ out < MaxOut
    /\ out' = out + 1
    /\ Cardinality(held \cup keep) <= MaxHeld
    /\ held' = StillHeld(held \cup keep, out + 1)
    /\ syns' = StillHeld(syns, out + 1)

\* A packet arrives at once; a copy of it may arrive later.
Arrive ==
    /\ Reading
    /\ \E keep \in {{}, {out}} : DoData(keep)
    /\ GoData(out)

\* A packet is lost, or delayed.
Miss ==
    /\ \E keep \in {{}, {out}} : DoData(keep)
    /\ lost' = lost + 1
    /\ UNCHANGED <<in, bad, rejected, newest>>

ArriveLate(n) ==
    /\ Reading
    /\ GoData(n)
    /\ held' = held \ {n}
    /\ UNCHANGED <<out, syns>>

\* Mutant: bad_mac is not decreased.
ResyncAgain ==
    /\ bad > BadLimit
    /\ in' = in + Step
    /\ UNCHANGED <<out, bad, held, syns, lost, rejected, newest>>
\* Mutant: the counter is not moved.
ResyncStay ==
    /\ bad > BadLimit
    /\ bad' = BadKept
    /\ UNCHANGED <<out, in, held, syns, lost, rejected, newest>>
\* do_read: "Lost crypto synchronization, trying to restore...".  The packet sent
\* is a SYN answer: it shows the receiver's own counter and asks for nothing.
Resync ==
    /\ bad > BadLimit
    /\ bad' = BadKept
    /\ in' = in + Step
    /\ UNCHANGED <<out, held, syns, lost, rejected, newest>>

\* do_syn: the sender's ping, its answer to a ping, or its own resynchronisation.
DoSyn ==
    /\ Cardinality(syns) < MaxSyn
    /\ syns' = syns \cup {out}
    /\ UNCHANGED <<out, in, bad, held, lost, rejected, newest>>

\* go_syn: the counter shown counts only when it is ahead.
GoSyn(c) ==
    /\ Reading
    /\ in' = IF c > in THEN c ELSE in
    /\ syns' = syns \ {c}
    /\ UNCHANGED <<out, bad, held, lost, rejected, newest>>

-----------------------------------------------------------------------------

Init ==
    /\ out = 0 /\ in = 0 /\ bad \in BadLeft
    /\ held = {} /\ syns = {}
    /\ lost = 0 /\ rejected = 0 /\ newest = 0

Next ==
    \/ Arrive
    \/ Miss
    \/ \E n \in held : ArriveLate(n)
    \/ Resync
    \/ DoSyn
    \/ \E c \in syns : GoSyn(c)

Spec == Init /\ [][Next]_vars

-----------------------------------------------------------------------------
(* Properties.                                                             *)

\* The counters are numbers, delayed packets have been sent.
TypeOK ==
    /\ out \in 0 .. MaxOut /\ in \in Nat /\ bad \in 0 .. (BadLimit + 1 + Slip)
    /\ held \subseteq 0 .. (out - 1) /\ syns \subseteq 0 .. out
    /\ lost \in Nat /\ rejected \in Nat /\ newest \in 0 .. out

\* Whatever is lost, the resynchronisation never moves the receiver further ahead
\* of the sender than the window reaches back: beyond that point no packet and no
\* SYN could bring it back, and every further resynchronisation would add to it.
NeverAhead == in <= out + Behind

\* "Trying to restore": the packets rejected since the last one that was accepted
\* are no more than it takes to start the resynchronisation, and then to make
\* up for the packets lost in steps of Step.
Patience == BadLimit + 2 - BadKept
RestoresInTime ==
    rejected <= BadLimit + 2
                  + Patience * (1 + (lost + BadLimit + 2 + Behind) \div (Step - Patience))

\* A packet is accepted exactly when it is one of Window successive ones.  These
\* reach back to the last multiple of Window, but never further than Behind; so
\* the less the receiver can hear of the past, the more it hears of the future.
Reach == IF in % Window < Behind THEN in % Window ELSE Behind
WindowExact ==
    \A n \in 0 .. (in + 2 * Window) :
        Accepts(n) <=> n \in (in - Reach) .. (in - Reach + Window - 1)

\* Late and repeated packets move the counter back, but a packet that arrives on
\* time is only ever rejected after more losses than the window allows.
FreshHeard ==
    [][out' = out + 1 /\ rejected' > rejected
          => lost + rejected >= Window - Behind - MaxLate]_vars
=============================================================================

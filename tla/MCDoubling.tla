----------------------------- MODULE MCDoubling -----------------------------
(***************************************************************************)
(* Doubling for TLC: the originator alone looks for slow connections, or   *)
(* both ends do.  rc_level and the 5 of reconecttor are scaled down; half  *)
(* of the level of both stays above Near, as 250 is above 5.               *)
(***************************************************************************)
EXTENDS Doubling

VARIABLE parted   \* history: in this call the two ends once had no connection left

AliceAsks == [e \in {Alice, Bob} |-> IF e = Alice THEN 1 ELSE 50]
BothAsk == [e \in {Alice, Bob} |-> 2]

Parted == Called /\ Held = {}
HistoryInit == Init /\ parted = Parted
HistoryNext == Next /\ parted' = (parted \/ Parted')
HistorySpec == HistoryInit /\ [][HistoryNext]_<<vars, parted>>

-----------------------------------------------------------------------------
\* The network has broken no connection; the users may have replaced some.
Unbroken == "break" \notin Range(upsets)

\* The packet e waits for does not come any more: no connection carries it, and no
\* SYN that would move in_ctr is on its way or will be answered with.
Deaf(e) ==
    LET p == Peer(e) IN
    /\ end[e].in_ctr < end[p].out_ctr
    /\ ~ \E m \in Coming(e) : IsData(m) /\ m.n = end[e].in_ctr
    /\ ~ \E m \in Coming(e) : IsSyn(m) /\ m.n > end[e].in_ctr
    /\ ~ \E m \in Coming(p) : IsSyn(m) /\ m.ask

\* What is lost with a connection that an end replaces or is told to replace never
\* leaves its partner, or itself, deaf, as long as one connection or the other is left:
\* go_data takes the very next packet only, so one that never comes is the end of hearing
\* unless the SYN of reconecttor, reset_dbl or init_dbl, or its answer, moves the counter
\* over it.  (Nobody sends one when the network breaks a connection, and when both
\* connections go at once the SYNs are lost, too.)
NeverDeaf == Called /\ Unbroken /\ ~ parted => \A e \in End : ~ Deaf(e)
=============================================================================

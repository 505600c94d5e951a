---------------------------- MODULE KeyAgreement ----------------------------
(***************************************************************************)
(* What the key exchange of OnionPhone promises: calls are keyed one by    *)
(* one.  A session is the pair of identities and the pair of runs its keys *)
(* are made of.  The acceptor joins a session first, no run ever takes     *)
(* part in a second one, and the originator can only join a session whose  *)
(* acceptor has joined it.                                                 *)
(***************************************************************************)
CONSTANT Session   \* records with fields pe and qe, the two runs

VARIABLES accepted, originated

Init == accepted = {} /\ originated = {}

Fresh(s) == \A r \in accepted : {r.pe, r.qe} \cap {s.pe, s.qe} = {}

AcceptorJoins(s) ==
    /\ Fresh(s)
    /\ accepted' = accepted \cup {s}
    /\ UNCHANGED originated

OriginatorJoins(s) ==
    /\ s \in accepted \ originated
    /\ originated' = originated \cup {s}
    /\ UNCHANGED accepted

\* The session a step adds is named by what it adds: TLC tries no other one.
Next ==
    \/ \E s \in accepted' \ accepted : s \in Session /\ AcceptorJoins(s)
    \/ \E s \in originated' \ originated : OriginatorJoins(s)

Spec == Init /\ [][Next]_<<accepted, originated>>
=============================================================================

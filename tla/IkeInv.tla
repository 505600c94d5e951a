------------------------------- MODULE IkeInv -------------------------------
(***************************************************************************)
(* The inductive invariants of the exchange: what a phone in the middle of *)
(* it, every datagram on the network and every completed session say about *)
(* the steps that led there.  Inductive is behind Agreement and            *)
(* OnlyWantedCallers; SessionInv adds what the sessions need and is behind *)
(* ImplementsKeyAgreement, EndsMatch and FinMeansLeft.                     *)
(***************************************************************************)
EXTENDS Ike

\* An originator keeps its keys, calls somebody else's listener, and never
\* takes a run of its own for its peer's.
OriginatorInv ==
    \A p \in Party : OutOpen(p) =>
        /\ ~call[p].spoiled
        /\ \E q \in Party \ {p} : to[p] = Listener(q)
        /\ crp[p] # -1 => call[p].their[1] # p

\* A request carries a run its party has started; one sent by a listener
\* carries a run of that listener's party.
RequestInv ==
    \A m \in msgs : m.t = "REQ" =>
        /\ m.eph[1] \in Party
        /\ m.eph[2] <= cnt[m.eph[1]]
        /\ m.src[2] = 0 => m.eph[1] = m.src[1]

\* An answer is made with a run its party has started.
AnswerInv ==
    \A m \in msgs : m.t = "ANS" =>
        /\ m.pref.own[1] \in Party
        /\ m.pref.own[2] <= cnt[m.pref.own[1]]

\* An acceptor with usable keys has found a wanted contact, and an answer of its
\* run is on the network only if the call was taken or its keys are spoiled.
AcceptorInv ==
    \A p \in Party : crp[p] \in {-2, 2} =>
        /\ call[p].their # Eph(p)
        /\ \A m \in msgs : m.t = "ANS" /\ m.pref.own = Eph(p) =>
              crp[p] = 2 /\ (call[p].consent \/ call[p].spoiled)
        /\ crp[p] = 2 /\ ~call[p].spoiled => call[p].contact \in Book[p] \ Ignored[p]

\* An authenticator is made of unspoiled keys.  The acceptor's is sent by a party
\* that has completed the exchange, the originator's after an answer was sent.
AuthenticatorInv ==
    \A m \in msgs : m.t = "ACK" /\ m.mac.k.pe # m.mac.k.qe =>
        /\ m.mac.k.good
        /\ m.mac.f = m.mac.k.qe /\ m.mac.s = m.mac.k.pe =>
              [role |-> "acc", aux |-> m.mac.k] \in done
        /\ m.mac.f = m.mac.k.pe /\ m.mac.s = m.mac.k.qe =>
              \E n \in msgs : n.t = "ANS" /\ n.pref.own = m.mac.k.qe

\* The authenticators, the answers and the states of the two parties fit
\* together; with them Agreement and OnlyWantedCallers are inductive.
Inductive ==
    /\ TypeOK
    /\ OriginatorInv
    /\ RequestInv
    /\ AnswerInv
    /\ AcceptorInv
    /\ AuthenticatorInv
    /\ Agreement
    /\ OnlyWantedCallers

-----------------------------------------------------------------------------
(* Sessions.                                                               *)

\* The run e has been started and its party is in one of the states S, unless it
\* has started another run since.
RunIn(e, S) ==
    /\ e[1] \in Party
    /\ e[2] <= cnt[e[1]]
    /\ e = Eph(e[1]) => crp[e[1]] \in S

\* The authenticators sent by originators.
CallerAcks == {m \in msgs : m.t = "ACK" /\ m.mac.f = m.mac.k.pe}

\* A phone is itself or a guest, and so is the one an answer names.
NamesInv ==
    /\ \A p \in Party : call[p].me \in {p, Guest}
    /\ \A m \in msgs : m.t = "ANS" => m.pref.id \in {m.pref.own[1], Guest}

\* An originator's request comes from the socket of its run and a listener's
\* goes to such a socket: an acceptor sends to the address it knows the run by.
CallerInv ==
    /\ \A m \in msgs : m.t = "REQ" =>
          IF m.src[2] = 0 THEN m.dst[2] # 0 ELSE m.eph = m.src
    /\ \A p \in Party : crp[p] \in {-2, 2, 4} => to[p] = call[p].their

\* An originator authenticates itself once in a run, for one session.
CallerAckInv ==
    /\ \A m \in CallerAcks : m.mac.k \in Session /\ RunIn(m.mac.k.pe, {-3, 3, 0})
    /\ \A m, n \in CallerAcks : m.mac.k.pe = n.mac.k.pe => m.mac.k = n.mac.k

\* An acceptor has seen the originator's authenticator of the session it joins;
\* its run is part of no other session, neither as acceptor nor as originator.
AcceptedInv ==
    /\ \A k \in Joined("acc") :
          /\ \E m \in CallerAcks : m.mac.k = k
          /\ RunIn(k.qe, {4, 0})
          /\ \A m \in CallerAcks : m.mac.k.pe # k.qe
    /\ \A k, l \in Joined("acc") : k.qe = l.qe => k = l

\* A session completed by its originator belongs to a run that got to state 3, and
\* a party that is connected has completed the session it computes.
ConnectedInv ==
    /\ \A k \in Joined("orig") : RunIn(k.pe, {3, 0})
    /\ \A p \in Party :
          /\ crp[p] = 3 => AuxOf(p) \in Joined("orig")
          /\ crp[p] = 4 => AuxOf(p) \in Joined("acc")

\* A final SYN is sent on the way back to idle.
FinInv ==
    \A m \in msgs : m.t = "FIN" =>
        RunIn(IF m.role = 3 THEN m.key.pe ELSE m.key.qe, {0})

\* The runs, the authenticators and the completed sessions fit together; with it
\* every step of the exchange is a step of KeyAgreement.
SessionInv ==
    /\ Inductive
    /\ NamesInv
    /\ CallerInv
    /\ CallerAckInv
    /\ AcceptedInv
    /\ ConnectedInv
    /\ FinInv
=============================================================================

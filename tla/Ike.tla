-------------------------------- MODULE Ike --------------------------------
(***************************************************************************)
(* The initial key exchange of OnionPhone (libdesktop/crypto.c: do_req,    *)
(* go_req, go_ans, do_ans, go_ack) run over direct UDP, together with the  *)
(* parts of libdesktop/tcp.c every one of its packets goes through: the    *)
(* sender checks of readudpin and readudpout, the timeout of do_read and   *)
(* the notices of disconnect().                                            *)
(*                                                                         *)
(* UDP may lose, repeat, delay and reorder datagrams: `msgs' keeps every   *)
(* datagram ever sent, and a datagram may be read any number of times or   *)
(* never.  TCP and Tor deliver some of these behaviours only.              *)
(*                                                                         *)
(* Cryptography is symbolic.  One execution of do_req or of go_req draws   *)
(* the two DH pairs and the nonce together, so one run identifier          *)
(* <<party, number>> stands for all of them, for the commitment to them    *)
(* and for the random port of the originator's UDP socket.  A hash is the  *)
(* record of what is hashed; a value overwritten by randFetch is one whose *)
(* field `good' is FALSE, and equals nothing a peer computes.              *)
(***************************************************************************)
EXTENDS Integers

CONSTANTS
    Party,       \* the phones; a party is also the name of its own key
    Guest,       \* the key pair every installation shares (NONAME)
    Book,        \* [Party -> SUBSET Ids], the keys in a party's address book
    Ignored,     \* [Party -> SUBSET Ids], the contacts with trust level -LX
    AutoAnswer,  \* the parties whose conf.txt has Auto_answer=1
    KeyReveal,   \* the parties whose conf.txt has Key_reveal=1
    MaxRuns      \* bound: the key exchanges one party takes part in

Ids == Party \cup {Guest}

ASSUME GuestAssumption == Guest \notin Party
ASSUME BookAssumption ==
    /\ Book \in [Party -> SUBSET Ids]
    /\ Ignored \in [Party -> SUBSET Ids]
    /\ \A p \in Party : {p, Guest} \subseteq Book[p]
ASSUME ConfAssumption == AutoAnswer \subseteq Party /\ KeyReveal \subseteq Party
ASSUME MaxRunsAssumption == MaxRuns \in Nat

VARIABLES
    crp,    \* crp_state of each party
    cnt,    \* how many runs a party has started; <<p, cnt[p]>> is its last
    to,     \* saddrUDPTo, the address a party sends to
    inUse,  \* udp_insock_flag = SOCK_INUSE
    call,   \* what reset_crp() clears: the data of the current call
    msgs,   \* every datagram sent so far
    done    \* history: the key exchanges a party has completed

vars == <<crp, cnt, to, inUse, call, msgs, done>>

-----------------------------------------------------------------------------
(* Addresses and the values carried by packets.                            *)

Run == Ids \X (0 .. MaxRuns)
None == <<Guest, 0>>
Addr == Party \X (0 .. MaxRuns)

\* The UDP listener has a fixed address, an outgoing socket a new one per call.
Listener(p) == <<p, 0>>
Eph(p) == <<p, cnt[p]>>

\* K = H(A^q | P^b | P^q): the originator's key, the acceptor's, both runs.
Aux == [o : Ids, c : Ids, pe : Run, qe : Run, good : BOOLEAN]
\* PREF = H(Id | key^own | P^q): whose key stamp, readable by which key, the
\* sender's run and its peer's.
Pref == [id : Ids, reader : Ids, own : Run, peer : Run, good : BOOLEAN]
\* MMAC = H(K | own | theirs); the revealed key travels with no run beside it.
Mac == [k : Aux, f : Run, s : Run]
\* s = H(X^y) xor Na xor Nb
SKey == [pe : Run, qe : Run, good : BOOLEAN]

Message ==
    [t : {"REQ"}, src : Addr, dst : Addr, eph : Run]
      \cup [t : {"ANS"}, src : Addr, dst : Addr, eph : Run, pref : Pref]
      \cup [t : {"ACK"}, src : Addr, dst : Addr, mac : Mac]
      \cup [t : {"INV"}, src : Addr, dst : Addr]
      \cup [t : {"FIN"}, src : Addr, dst : Addr, key : SKey, role : {3, 4}]

Req(a, b, e) == [t |-> "REQ", src |-> a, dst |-> b, eph |-> e]
Ans(a, b, e, pf) == [t |-> "ANS", src |-> a, dst |-> b, eph |-> e, pref |-> pf]
Ack(a, b, mc) == [t |-> "ACK", src |-> a, dst |-> b, mac |-> mc]
\* A zeroed invite, the "busy" notice.
Inv(a, b) == [t |-> "INV", src |-> a, dst |-> b]
\* A SYN whose counter is 0xFFFFFFFF, authenticated by the session key.
Fin(a, b, sk, r) == [t |-> "FIN", src |-> a, dst |-> b, key |-> sk, role |-> r]

CallData == [their : Run, me : Ids, contact : Ids, spoiled : BOOLEAN, ready : BOOLEAN,
             keyed : BOOLEAN, consent : BOOLEAN, reveal : {"none", "match", "mismatch"}]

\* their_p/their_x, our_name, their_name, "the keys were overwritten at random",
\* answer[0] # 0, "aux_key is not cleared"; then two ghosts: the user (or
\* Auto_answer) has taken the call, and what go_ack said when it first read the genuine
\* key, revealed by the originator of this very call.
NoCall == [their |-> None, me |-> Guest, contact |-> Guest, spoiled |-> FALSE,
           ready |-> FALSE, keyed |-> FALSE, consent |-> FALSE, reveal |-> "none"]

-----------------------------------------------------------------------------
(* Reading a party's state.                                                *)

States == {-3, -2, -1, 0, 1, 2, 3, 4}
Originating == {-1, 1, -3, 3}

\* The outgoing UDP socket exists exactly while the party originates a call.
OutOpen(p) == crp[p] \in Originating
Here(p) == IF OutOpen(p) THEN Eph(p) ELSE Listener(p)
Established(p) == crp[p] > 2

AuxOf(p) ==
    IF OutOpen(p)
    THEN [o |-> call[p].me, c |-> call[p].contact, pe |-> Eph(p), qe |-> call[p].their,
          good |-> ~call[p].spoiled]
    ELSE [o |-> call[p].contact, c |-> call[p].me, pe |-> call[p].their, qe |-> Eph(p),
          good |-> ~call[p].spoiled]

\* Mutant: a session key that does not depend on the runs.
SKeyOfNames(p) ==
    [pe |-> <<AuxOf(p).o, 0>>, qe |-> <<AuxOf(p).c, 0>>, good |-> AuxOf(p).good]
SKeyOf(p) == [pe |-> AuxOf(p).pe, qe |-> AuxOf(p).qe, good |-> AuxOf(p).good]

\* The authenticator a party sends, and the one it expects.
OwnMac(p) == [k |-> AuxOf(p), f |-> Eph(p), s |-> call[p].their]
PeerMac(p) == [k |-> AuxOf(p), f |-> call[p].their, s |-> Eph(p)]
RevealedKey(k) == [k |-> k, f |-> None, s |-> None]

-----------------------------------------------------------------------------
(* disconnect(): the peer is told, then reset_crp() clears the call.       *)

\* Mutant: crp_state tested for nonzero instead of > 2.
NoticeAnyState(p, addr) ==
    IF crp[p] # 0 THEN Fin(Here(p), addr, SKeyOf(p), crp[p])
                  ELSE Inv(Here(p), addr)
Notice(p, addr) ==
    IF Established(p) THEN Fin(Here(p), addr, SKeyOf(p), crp[p])
                      ELSE Inv(Here(p), addr)

\* addr is the address disconnect() finds in saddrUDPTo.
Disconnect(p, addr) ==
    /\ msgs' = msgs \cup {Notice(p, addr)}
    /\ crp' = [crp EXCEPT ![p] = 0]
    /\ inUse' = [inUse EXCEPT ![p] = FALSE]
    /\ call' = [call EXCEPT ![p] = NoCall]
    /\ to' = [to EXCEPT ![p] = addr]

\* A hangup: -H or -HX, or the end of the program.  In state 2 plain -H is
\* Refuse, -HX is this.  An idle phone only notifies the last stranger it heard.
Hangup(p) ==
    /\ crp[p] # 0 \/ inUse[p]
    /\ Disconnect(p, to[p])
    /\ UNCHANGED <<cnt, done>>

\* Mutant: the acceptor's ring is never timed out.
TimeoutUnlessRinging(p) ==
    /\ crp[p] < 2
    /\ crp[p] # 0 \/ inUse[p]
    /\ Disconnect(p, to[p])
    /\ UNCHANGED <<cnt, done>>

\* do_read: con_time has passed and the call is not established.  The idle
\* listener is reset in the same way every CONTIMEOUT seconds.
Timeout(p) ==
    /\ ~Established(p)
    /\ crp[p] # 0 \/ inUse[p]
    /\ Disconnect(p, to[p])
    /\ UNCHANGED <<cnt, done>>

-----------------------------------------------------------------------------
(* The originator's first step: -U with -Ncontact and -Iown.               *)

\* do_connect() disconnects whatever is left, connectudp() opens a socket on a
\* random port and do_req() draws a run, in the one step of the command.
DoReq(p, q, c, o) ==
    /\ crp[p] = 0
    /\ cnt[p] < MaxRuns
    /\ c \in Book[p] /\ o \in {p, Guest}
    /\ LET e == <<p, cnt[p] + 1>>
           left == IF inUse[p] THEN {Notice(p, to[p])} ELSE {}
       IN  msgs' = msgs \cup left \cup {Req(e, Listener(q), e)}
    /\ cnt' = [cnt EXCEPT ![p] = @ + 1]
    /\ crp' = [crp EXCEPT ![p] = -1]
    /\ to' = [to EXCEPT ![p] = Listener(q)]
    /\ inUse' = [inUse EXCEPT ![p] = FALSE]
    /\ call' = [call EXCEPT ![p] = [NoCall EXCEPT !.me = o, !.contact = c]]
    /\ UNCHANGED done

-----------------------------------------------------------------------------
(* Reading a datagram: readudpin and readudpout check its sender.          *)

AtListener(p, m) == m \in msgs /\ m.dst = Listener(p)
AtOutgoing(p, m) == m \in msgs /\ OutOpen(p) /\ m.dst = Eph(p)

\* The listener serves one call, and none while the outgoing socket exists.
Busy(p, m) == OutOpen(p) \/ (crp[p] # 0 /\ m.src # to[p])

\* m passes the check and reaches go_data and go_pkt.
Heard(p, m) ==
    \/ AtListener(p, m) /\ ~Busy(p, m)
    \/ AtOutgoing(p, m) /\ m.src = to[p]

\* The listener answers any other sender with a zeroed invite.
BusyReply(p, m) ==
    /\ AtListener(p, m)
    /\ Busy(p, m)
    /\ msgs' = msgs \cup {Inv(Listener(p), m.src)}
    /\ UNCHANGED <<crp, cnt, to, inUse, call, done>>

\* readudpin: "remote terminates his call request" (not from crp_state 3 or 4;
\* the outgoing UDP socket does not look for this packet).
GoInv(p, m) ==
    /\ m.t = "INV"
    /\ Heard(p, m)
    /\ ~OutOpen(p) /\ ~Established(p)
    /\ Disconnect(p, m.src)
    /\ UNCHANGED <<cnt, done>>

\* The final SYN of another call reaches an idle listener: go_syn() refuses it,
\* but the listener has already taken its sender for the peer.
StrayFin(p, m) ==
    /\ m.t = "FIN"
    /\ Heard(p, m)
    /\ crp[p] = 0
    /\ to' = [to EXCEPT ![p] = m.src]
    /\ inUse' = [inUse EXCEPT ![p] = TRUE]
    /\ UNCHANGED <<crp, cnt, call, msgs, done>>

\* go_syn() of an established call: the final SYN counts only when it is
\* authenticated by this session's key and by the other role.
GoFin(p, m) ==
    /\ m.t = "FIN"
    /\ Heard(p, m)
    /\ Established(p)
    /\ m.key = SKeyOf(p) /\ m.role # crp[p]
    /\ Disconnect(p, m.src)
    /\ UNCHANGED <<cnt, done>>

-----------------------------------------------------------------------------
(* go_req                                                                  *)

\* crp_state 0: the listener becomes the acceptor of this call, as its run n.
GoReqAsRun(p, m, n) ==
    /\ m.t = "REQ"
    /\ Heard(p, m)
    /\ crp[p] = 0
    /\ n <= MaxRuns
    /\ cnt' = [cnt EXCEPT ![p] = n]
    /\ crp' = [crp EXCEPT ![p] = -2]
    /\ to' = [to EXCEPT ![p] = m.src]
    /\ inUse' = [inUse EXCEPT ![p] = TRUE]
    /\ call' = [call EXCEPT ![p] = [NoCall EXCEPT !.their = m.eph]]
    /\ msgs' = msgs \cup {Req(Listener(p), m.src, <<p, n>>)}
    /\ UNCHANGED done

\* Mutant: q, y and Nb are not drawn again for the next call.
GoReqOldRun(p, m) == GoReqAsRun(p, m, cnt[p])
GoReqIdle(p, m) == GoReqAsRun(p, m, cnt[p] + 1)

\* crp_state -1: the originator shows its hidden identity.
GoReqCaller(p, m) ==
    /\ m.t = "REQ"
    /\ Heard(p, m)
    /\ crp[p] = -1
    /\ crp' = [crp EXCEPT ![p] = 1]
    /\ call' = [call EXCEPT ![p].their = m.eph]
    /\ LET pref == [id |-> call[p].me, reader |-> call[p].contact,
                    own |-> Eph(p), peer |-> m.eph, good |-> TRUE]
       IN  msgs' = msgs \cup {Ans(Eph(p), to[p], Eph(p), pref)}
    /\ UNCHANGED <<cnt, to, inUse, done>>

-----------------------------------------------------------------------------
(* go_ans and do_ans                                                       *)

\* search_bookstr: a contact's hidden identity, written for the default key of
\* this party or for the guest key.
Recognised(p, pf) ==
    /\ pf.good
    /\ pf.id \in Book[p] /\ pf.reader \in {p, Guest}
    /\ pf.own = call[p].their /\ pf.peer = Eph(p)

\* Mutant: the trust level is not looked at.
UnwantedUnknown(p, pf) == ~Recognised(p, pf)
\* go_ans: "reject" is set.
Unwanted(p, pf) == ~Recognised(p, pf) \/ pf.id \in Ignored[p]

\* The prepared answer[]: its PREF was overwritten if the keys were.
Answer(p, cl) ==
    Ans(Listener(p), to[p], Eph(p),
        [id |-> cl.me, reader |-> cl.contact, own |-> Eph(p), peer |-> cl.their,
         good |-> ~cl.spoiled])

\* crp_state -2: the acceptor identifies the caller and rings, or answers at
\* once.  A caller it does not know or ignores is handled with random keys.
GoAnsRing(p, m) ==
    /\ m.t = "ANS"
    /\ Heard(p, m)
    /\ crp[p] = -2
    /\ m.eph = call[p].their
    /\ crp' = [crp EXCEPT ![p] = 2]
    /\ LET known == Recognised(p, m.pref)
           cl == [call[p] EXCEPT
                    !.me = IF known THEN m.pref.reader ELSE Guest,
                    !.contact = IF known THEN m.pref.id ELSE Guest,
                    !.spoiled = Unwanted(p, m.pref),
                    !.ready = TRUE, !.keyed = TRUE, !.consent = p \in AutoAnswer]
       IN  /\ call' = [call EXCEPT ![p] = cl]
           /\ msgs' = IF p \in AutoAnswer THEN msgs \cup {Answer(p, cl)} ELSE msgs
    /\ UNCHANGED <<cnt, to, inUse, done>>

\* crp_state 1: the originator checks the commitment and the hidden identity.
AnswerIsGood(p, m) ==
    /\ m.eph = call[p].their
    /\ m.pref = [id |-> call[p].contact, reader |-> call[p].me,
                 own |-> call[p].their, peer |-> Eph(p), good |-> TRUE]

GoAnsCaller(p, m) ==
    /\ m.t = "ANS"
    /\ Heard(p, m)
    /\ crp[p] = 1
    /\ AnswerIsGood(p, m)
    /\ crp' = [crp EXCEPT ![p] = -3]
    /\ call' = [call EXCEPT ![p].keyed = TRUE]
    /\ msgs' = msgs \cup {Ack(Eph(p), to[p], OwnMac(p))}
    /\ UNCHANGED <<cnt, to, inUse, done>>

\* "Answer from unknown", "Commitment failure", "Unexpected answer".
GoAnsFail(p, m) ==
    /\ m.t = "ANS"
    /\ Heard(p, m)
    /\ ~(crp[p] = -2 /\ m.eph = call[p].their)
    /\ ~(crp[p] = 1 /\ AnswerIsGood(p, m))
    /\ Disconnect(p, m.src)
    /\ UNCHANGED <<cnt, done>>

\* do_ans(1), Enter: send the prepared answer.  It is sent once, except that
\* an answer sent by Auto_answer is still there to be sent again.
Accept(p) ==
    /\ crp[p] = 2 /\ call[p].ready
    /\ call' = [call EXCEPT ![p].ready = FALSE, ![p].consent = TRUE]
    /\ msgs' = msgs \cup {Answer(p, call[p])}
    /\ UNCHANGED <<crp, cnt, to, inUse, done>>

\* do_ans(0), Esc or -H: every key is overwritten, the answer goes out all the
\* same so that the originator cannot tell why it fails.
Refuse(p) ==
    /\ crp[p] = 2
    /\ LET cl == [call[p] EXCEPT !.spoiled = TRUE]
       IN  /\ msgs' = IF cl.ready THEN msgs \cup {Answer(p, cl)} ELSE msgs
           /\ call' = [call EXCEPT ![p] = [cl EXCEPT !.ready = FALSE, !.consent = FALSE]]
    /\ UNCHANGED <<crp, cnt, to, inUse, done>>

-----------------------------------------------------------------------------
(* go_ack                                                                  *)

Completed(p) == [role |-> IF OutOpen(p) THEN "orig" ELSE "acc", aux |-> AuxOf(p)]

\* Mutant: the authenticator covers the runs and not the key K.
AckIsGoodForRuns(p, m) == m.mac.f = call[p].their /\ m.mac.s = Eph(p)
AckIsGood(p, m) == m.mac = PeerMac(p)

\* crp_state 2: the acceptor has identified the originator.
GoAckAcceptor(p, m) ==
    /\ m.t = "ACK"
    /\ Heard(p, m)
    /\ crp[p] = 2
    /\ AckIsGood(p, m)
    /\ crp' = [crp EXCEPT ![p] = 4]
    /\ call' = [call EXCEPT ![p].keyed = FALSE]
    /\ msgs' = msgs \cup {Ack(Listener(p), to[p], OwnMac(p))}
    /\ done' = done \cup {Completed(p)}
    /\ UNCHANGED <<cnt, to, inUse>>

\* crp_state -3: the originator has identified the acceptor.
GoAckCaller(p, m) ==
    /\ m.t = "ACK"
    /\ Heard(p, m)
    /\ crp[p] = -3
    /\ AckIsGood(p, m)
    /\ crp' = [crp EXCEPT ![p] = 3]
    /\ call' = [call EXCEPT ![p].keyed = FALSE]
    /\ msgs' = IF p \in KeyReveal
               THEN msgs \cup {Ack(Eph(p), to[p], RevealedKey(AuxOf(p)))}
               ELSE msgs
    /\ done' = done \cup {Completed(p)}
    /\ UNCHANGED <<cnt, to, inUse>>

\* crp_state 4: an ACK is taken for a revealed key and compared with aux_key.
GoAckRevealed(p, m) ==
    /\ m.t = "ACK"
    /\ Heard(p, m)
    /\ crp[p] = 4
    /\ LET genuine == m.mac = RevealedKey(AuxOf(p))
           match == genuine /\ call[p].keyed
       IN  call' = [call EXCEPT
                      ![p].reveal = IF ~genuine \/ @ # "none" THEN @
                                    ELSE IF match THEN "match" ELSE "mismatch",
                      ![p].keyed = IF match THEN FALSE ELSE @]
    /\ UNCHANGED <<crp, cnt, to, inUse, msgs, done>>

\* "Identification failure", "Unexpected connection ACK".
GoAckFail(p, m) ==
    /\ m.t = "ACK"
    /\ Heard(p, m)
    /\ crp[p] # 4
    /\ ~(crp[p] \in {2, -3} /\ AckIsGood(p, m))
    /\ Disconnect(p, m.src)
    /\ UNCHANGED <<cnt, done>>

-----------------------------------------------------------------------------

Init ==
    /\ crp = [p \in Party |-> 0]
    /\ cnt = [p \in Party |-> 0]
    /\ to = [p \in Party |-> Listener(p)]
    /\ inUse = [p \in Party |-> FALSE]
    /\ call = [p \in Party |-> NoCall]
    /\ msgs = {}
    /\ done = {}

User(p) ==
    \/ \E q \in Party \ {p}, c \in Ids, o \in Ids : DoReq(p, q, c, o)
    \/ Accept(p)
    \/ Refuse(p)
    \/ Hangup(p)

Receive(p) ==
    \E m \in msgs :
        \/ BusyReply(p, m)
        \/ GoInv(p, m)
        \/ StrayFin(p, m)
        \/ GoFin(p, m)
        \/ GoReqIdle(p, m)
        \/ GoReqCaller(p, m)
        \/ GoAnsRing(p, m)
        \/ GoAnsCaller(p, m)
        \/ GoAnsFail(p, m)
        \/ GoAckAcceptor(p, m)
        \/ GoAckCaller(p, m)
        \/ GoAckRevealed(p, m)
        \/ GoAckFail(p, m)

Next == \E p \in Party : User(p) \/ Receive(p) \/ Timeout(p)

Spec == Init /\ [][Next]_vars

\* do_read compares the clock with con_time on every turn of the main loop.
FairSpec == Spec /\ \A p \in Party : WF_vars(Timeout(p))

-----------------------------------------------------------------------------
(* Properties.                                                             *)

\* Every variable has its type.
TypeOK ==
    /\ crp \in [Party -> States]
    /\ cnt \in [Party -> 0 .. MaxRuns]
    /\ to \in [Party -> Addr]
    /\ inUse \in [Party -> BOOLEAN]
    /\ call \in [Party -> CallData]
    /\ msgs \subseteq Message
    /\ done \subseteq [role : {"orig", "acc"}, aux : Aux]

\* An originator that completes the exchange agrees with an acceptor that
\* completed it: the same two keys, the same two runs, hence the same session
\* key.  No loss, repetition or reordering, refusal or second call breaks this.
Agreement ==
    \A r \in done :
        r.role = "orig" => r.aux.good /\ [role |-> "acc", aux |-> r.aux] \in done

\* A connected acceptor has taken the call, has not refused it afterwards, and
\* its caller is a contact of its address book that it does not ignore.
OnlyWantedCallers ==
    \A p \in Party :
        crp[p] = 4 =>
            /\ call[p].consent
            /\ ~call[p].spoiled
            /\ call[p].contact \in Book[p] \ Ignored[p]

\* The two ends of an established call, each sending to the other's address,
\* hold the same session key and know each other by the right names.
EndsMatch ==
    \A p, q \in Party :
        crp[p] = 3 /\ crp[q] = 4 /\ to[p] = Listener(q) /\ to[q] = Eph(p) =>
            SKeyOf(p) = SKeyOf(q) /\ AuxOf(p) = AuxOf(q)

\* A final SYN that names a session was sent by a party that has left it: no
\* delayed or repeated datagram ends a call that both ends still hold.
FinMeansLeft ==
    \A m \in msgs, p \in Party :
        m.t = "FIN" /\ Established(p) => ~(m.key = SKeyOf(p) /\ m.role = crp[p])

\* Negotiation ends: every party that starts one gets back to idle or gets to
\* an established call.
Settles ==
    \A p \in Party : crp[p] \in {-1, 1, -3, -2, 2} ~> crp[p] \in {0, 3, 4}

\* The sessions of KeyAgreement: what an originator or an acceptor has completed.
Joined(role) == {r.aux : r \in {x \in done : x.role = role}}

\* A session is between two parties, each under its own name or as a guest.
Session ==
    {k \in Aux : /\ k.good
                 /\ k.pe[1] \in Party /\ k.o \in {k.pe[1], Guest}
                 /\ k.qe[1] \in Party /\ k.c \in {k.qe[1], Guest}
                 /\ k.pe[1] # k.qe[1]}

Keyed == INSTANCE KeyAgreement
         WITH accepted <- Joined("acc"), originated <- Joined("orig")

\* The exchange implements KeyAgreement: sessions are joined by the acceptor
\* first and by the originator second, with unspoiled keys and true names, and
\* no run is ever part of two sessions, whatever is lost, repeated, delayed or
\* given up on the way.
ImplementsKeyAgreement == Keyed!Spec

\* crypto.c:1605 "check aux_key revealing": a key revealed by the originator of
\* the call is the acceptor's aux_key.
RevealMatches == \A p \in Party : call[p].reveal # "mismatch"

=============================================================================

----------------------------- MODULE IkeProofs -----------------------------
(***************************************************************************)
(* Theorems about Ike, for every set of phones, every content of their     *)
(* address books and every bound on the number of runs.                    *)
(*                                                                         *)
(* The first half is about keys and consent (Inductive), the second about  *)
(* sessions (SessionInv): the key exchange implements KeyAgreement, the    *)
(* two ends of a call hold the same session, and a final SYN names no call *)
(* that is still held.  There Effect(p) collects what a step of p may do   *)
(* to the variables SessionInv speaks of.  One lemma for each handler      *)
(* shows that its steps are among them, one for each conjunct that they    *)
(* keep it.                                                                *)
(***************************************************************************)
EXTENDS IkeInv, TLAPS

-----------------------------------------------------------------------------
(* The types of the values Ike computes.                                   *)

\* The addresses of a party, its run and the session it computes are typed.
LEMMA ReadTypes ==
    ASSUME TypeOK, NEW p \in Party
    PROVE  /\ p \in Ids
           /\ Listener(p) \in Addr
           /\ Eph(p) \in Addr \cap Run
           /\ Here(p) \in Addr
           /\ AuxOf(p) \in Aux
           /\ SKeyOf(p) \in SKey
           /\ OwnMac(p) \in Mac
           /\ PeerMac(p) \in Mac
  <1>1. p \in Ids /\ crp[p] \in States /\ cnt[p] \in 0 .. MaxRuns /\ call[p] \in CallData
    BY DEF TypeOK, Ids
  <1>2. Listener(p) \in Addr /\ Eph(p) \in Addr \cap Run
    BY <1>1, MaxRunsAssumption DEF Listener, Eph, Addr, Run
  <1>3. Here(p) \in Addr
    BY <1>2 DEF Here
  <1>4. AuxOf(p) \in Aux
    BY <1>1, <1>2 DEF AuxOf, Aux, CallData
  <1>5. SKeyOf(p) \in SKey
    BY <1>4 DEF SKeyOf, SKey, Aux
  <1>6. OwnMac(p) \in Mac /\ PeerMac(p) \in Mac
    BY <1>1, <1>2, <1>4 DEF OwnMac, PeerMac, Mac, CallData
  <1> QED
    BY <1>1, <1>2, <1>3, <1>4, <1>5, <1>6

\* The constructors of datagrams build datagrams.
LEMMA MessageTypes ==
    ASSUME NEW x \in Addr, NEW y \in Addr
    PROVE  /\ \A e \in Run : Req(x, y, e) \in Message
           /\ \A e \in Run, pf \in Pref : Ans(x, y, e, pf) \in Message
           /\ \A mc \in Mac : Ack(x, y, mc) \in Message
           /\ Inv(x, y) \in Message
           /\ \A sk \in SKey, r \in {3, 4} : Fin(x, y, sk, r) \in Message
  BY DEF Message, Req, Ans, Ack, Inv, Fin

\* What a datagram is made of.
LEMMA MessageFields ==
    ASSUME NEW m \in Message
    PROVE  /\ m.src \in Addr /\ m.dst \in Addr
           /\ m.t = "REQ" => m.eph \in Run
           /\ m.t = "ANS" => m.eph \in Run /\ m.pref \in Pref
           /\ m.t = "ACK" => m.mac \in Mac
           /\ m.t = "FIN" => m.key \in SKey /\ m.role \in {3, 4}
  BY DEF Message

\* disconnect() sends a datagram.
LEMMA NoticeType ==
    ASSUME TypeOK, NEW p \in Party, NEW addr \in Addr
    PROVE  Notice(p, addr) \in Message
  <1>1. Here(p) \in Addr /\ SKeyOf(p) \in SKey
    BY ReadTypes
  <1>2. Established(p) => crp[p] \in {3, 4}
    BY DEF TypeOK, Established, States
  <1> QED
    BY <1>1, <1>2, MessageTypes DEF Notice

\* What reset_crp() leaves is typed.
LEMMA NoCallType == NoCall \in CallData
  BY MaxRunsAssumption DEF NoCall, CallData, None, Run, Ids

\* disconnect() leaves a typed state.
LEMMA DisconnectType ==
    ASSUME TypeOK, NEW p \in Party, NEW addr \in Addr,
           Disconnect(p, addr), UNCHANGED <<cnt, done>>
    PROVE  TypeOK'
  <1>1. msgs' \subseteq Message
    BY NoticeType DEF Disconnect, TypeOK
  <1> QED
    BY <1>1, NoCallType DEF Disconnect, TypeOK, States

-----------------------------------------------------------------------------
(* Type correctness.                                                       *)

\* The data of a ringing call is typed.
LEMMA RingType ==
    ASSUME NEW cl \in CallData, NEW i \in Ids, NEW j \in Ids,
           NEW s \in BOOLEAN, NEW n \in BOOLEAN
    PROVE  [cl EXCEPT !.me = i, !.contact = j, !.spoiled = s, !.ready = TRUE,
                      !.keyed = TRUE, !.consent = n] \in CallData
  BY DEF CallData

\* The first state is typed.
LEMMA InitType == Init => TypeOK
  BY MaxRunsAssumption DEF Init, TypeOK, States, Addr, Listener, NoCall, CallData,
     None, Run, Ids, Message, Aux

\* What the user does keeps the types.
LEMMA UserType ==
    ASSUME TypeOK, NEW p \in Party, User(p) \/ Timeout(p)
    PROVE  TypeOK'
  <1>1. Listener(p) \in Addr /\ Eph(p) \in Addr \cap Run /\ p \in Ids /\ to[p] \in Addr
    BY ReadTypes DEF TypeOK
  <1>2. ASSUME NEW q \in Party, NEW c \in Ids, NEW o \in Ids, DoReq(p, q, c, o)
        PROVE  TypeOK'
    <2> DEFINE e == <<p, cnt[p] + 1>>
    <2>1. cnt[p] + 1 \in 0 .. MaxRuns
      BY <1>2, MaxRunsAssumption DEF DoReq, TypeOK
    <2>2. e \in Addr /\ e \in Run /\ Listener(q) \in Addr
      BY <1>1, <2>1, ReadTypes DEF Addr, Run
    <2>3. Notice(p, to[p]) \in Message /\ Req(e, Listener(q), e) \in Message
      BY <1>1, <2>2, MessageTypes, NoticeType
    <2>4. [NoCall EXCEPT !.me = o, !.contact = c] \in CallData
      BY <1>2, NoCallType DEF CallData
    <2> QED
      <3>1. msgs' \subseteq Message
        <4>1. msgs' = msgs \cup (IF inUse[p] THEN {Notice(p, to[p])} ELSE {})
                          \cup {Req(e, Listener(q), e)}
          BY <1>2 DEF DoReq
        <4> QED
          BY <2>3, <4>1 DEF TypeOK
      <3>2. /\ crp' = [crp EXCEPT ![p] = -1]
            /\ cnt' = [cnt EXCEPT ![p] = cnt[p] + 1]
            /\ to' = [to EXCEPT ![p] = Listener(q)]
            /\ inUse' = [inUse EXCEPT ![p] = FALSE]
            /\ call' = [call EXCEPT ![p] = [NoCall EXCEPT !.me = o, !.contact = c]]
            /\ done' = done
        BY <1>2 DEF DoReq
      <3> QED
        BY <2>1, <2>2, <2>4, <3>1, <3>2 DEF TypeOK, States
  <1>3. ASSUME NEW cl \in CallData
        PROVE  Answer(p, cl) \in Message
    <2>1. [id |-> cl.me, reader |-> cl.contact, own |-> Eph(p), peer |-> cl.their,
           good |-> ~cl.spoiled] \in Pref
      BY <1>1 DEF CallData, Pref
    <2> QED
      BY <1>1, <2>1, MessageTypes DEF Answer
  <1>4. CASE Accept(p)
    <2>1. call[p] \in CallData
      BY DEF TypeOK
    <2>2. Answer(p, call[p]) \in Message
      BY <1>3, <2>1
    <2>3. [call[p] EXCEPT !.ready = FALSE, !.consent = TRUE] \in CallData
      BY <2>1 DEF CallData
    <2> QED
      BY <1>4, <2>2, <2>3 DEF Accept, TypeOK
  <1>5. CASE Refuse(p)
    <2>1. [call[p] EXCEPT !.spoiled = TRUE] \in CallData
      BY DEF TypeOK, CallData
    <2>2. [[call[p] EXCEPT !.spoiled = TRUE] EXCEPT !.ready = FALSE, !.consent = FALSE]
              \in CallData
      BY <2>1 DEF CallData
    <2> QED
      BY <1>3, <1>5, <2>1, <2>2 DEF Refuse, TypeOK
  <1>6. CASE Hangup(p)
    BY <1>1, <1>6, DisconnectType DEF Hangup
  <1>7. CASE Timeout(p)
    BY <1>1, <1>7, DisconnectType DEF Timeout
  <1> QED
    BY <1>2, <1>4, <1>5, <1>6, <1>7 DEF User

\* Reading a datagram keeps the types.
LEMMA ReceiveType ==
    ASSUME TypeOK, NEW p \in Party, Receive(p)
    PROVE  TypeOK'
  <1> PICK m \in msgs :
        \/ BusyReply(p, m)
        \/ GoInv(p, m) \/ GoFin(p, m) \/ GoAnsFail(p, m) \/ GoAckFail(p, m)
        \/ StrayFin(p, m)
        \/ GoReqIdle(p, m)
        \/ GoReqCaller(p, m)
        \/ GoAnsRing(p, m)
        \/ GoAnsCaller(p, m)
        \/ GoAckAcceptor(p, m) \/ GoAckCaller(p, m)
        \/ GoAckRevealed(p, m)
    BY DEF Receive
  <1>1. m \in Message /\ m.src \in Addr
    BY MessageFields DEF TypeOK
  <1>2. /\ Listener(p) \in Addr /\ Eph(p) \in Addr /\ Eph(p) \in Run
        /\ p \in Ids /\ to[p] \in Addr /\ call[p] \in CallData
    BY ReadTypes DEF TypeOK
  <1>3. CASE BusyReply(p, m)
    BY <1>1, <1>2, <1>3, MessageTypes DEF BusyReply, TypeOK
  <1>4. CASE GoInv(p, m) \/ GoFin(p, m) \/ GoAnsFail(p, m) \/ GoAckFail(p, m)
    BY <1>1, <1>4, DisconnectType DEF GoInv, GoFin, GoAnsFail, GoAckFail
  <1>5. CASE StrayFin(p, m)
    BY <1>1, <1>5 DEF StrayFin, TypeOK
  <1>6. CASE GoReqIdle(p, m)
    <2>1. cnt[p] + 1 \in 0 .. MaxRuns /\ m.eph \in Run
      BY <1>1, <1>6, MaxRunsAssumption, MessageFields DEF GoReqIdle, GoReqAsRun, TypeOK
    <2>2. Req(Listener(p), m.src, <<p, cnt[p] + 1>>) \in Message
      BY <1>1, <1>2, <2>1, MessageTypes DEF Run
    <2>3. [NoCall EXCEPT !.their = m.eph] \in CallData
      BY <2>1 DEF NoCall, CallData, Ids
    <2> QED
      BY <1>1, <1>6, <2>1, <2>2, <2>3 DEF GoReqIdle, GoReqAsRun, TypeOK, States
  <1>7. CASE GoReqCaller(p, m)
    <2> DEFINE pref == [id |-> call[p].me, reader |-> call[p].contact,
                        own |-> Eph(p), peer |-> m.eph, good |-> TRUE]
    <2>1. m.eph \in Run
      BY <1>1, <1>7, MessageFields DEF GoReqCaller
    <2>2. pref \in Pref
      BY <1>2, <2>1 DEF CallData, Pref
    <2>3. Ans(Eph(p), to[p], Eph(p), pref) \in Message
      BY <1>2, <2>2, MessageTypes
    <2>4. [call[p] EXCEPT !.their = m.eph] \in CallData
      BY <1>2, <2>1 DEF CallData
    <2> QED
      BY <1>7, <2>3, <2>4 DEF GoReqCaller, TypeOK, States
  <1>8. CASE GoAnsRing(p, m)
    <2> DEFINE known == Recognised(p, m.pref)
               i == IF known THEN m.pref.reader ELSE Guest
               j == IF known THEN m.pref.id ELSE Guest
               s == Unwanted(p, m.pref)
               n == p \in AutoAnswer
               cl == [call[p] EXCEPT !.me = i, !.contact = j, !.spoiled = s,
                                     !.ready = TRUE, !.keyed = TRUE, !.consent = n]
    <2>1. m.pref \in Pref
      BY <1>1, <1>8, MessageFields DEF GoAnsRing
    <2>2. i \in Ids /\ j \in Ids
      BY <2>1 DEF Pref, Ids
    <2>3. s \in BOOLEAN /\ n \in BOOLEAN
      BY DEF Unwanted
    <2>4. cl \in CallData
      <3> HIDE DEF i, j, s, n
      <3> QED
        BY <1>2, <2>2, <2>3, RingType
    <2>5. Answer(p, cl) \in Message
      <3>1. [id |-> cl.me, reader |-> cl.contact, own |-> Eph(p), peer |-> cl.their,
             good |-> ~cl.spoiled] \in Pref
        BY <1>2, <2>4 DEF CallData, Pref
      <3> QED
        BY <1>2, <3>1, MessageTypes DEF Answer
    <2>6. call' = [call EXCEPT ![p] = cl] /\ (msgs' = msgs \cup {Answer(p, cl)} \/ msgs' = msgs)
      BY <1>8 DEF GoAnsRing
    <2>7. crp' = [crp EXCEPT ![p] = 2] /\ UNCHANGED <<cnt, to, inUse, done>>
      BY <1>8 DEF GoAnsRing
    <2> HIDE DEF cl
    <2> QED
      BY <2>4, <2>5, <2>6, <2>7 DEF TypeOK, States
  <1>9. CASE GoAnsCaller(p, m)
    <2>1. Ack(Eph(p), to[p], OwnMac(p)) \in Message
      BY <1>2, ReadTypes, MessageTypes
    <2>2. [call[p] EXCEPT !.keyed = TRUE] \in CallData
      BY <1>2 DEF CallData
    <2> QED
      BY <1>9, <2>1, <2>2 DEF GoAnsCaller, TypeOK, States
  <1>10. CASE GoAckAcceptor(p, m) \/ GoAckCaller(p, m)
    <2>1. AuxOf(p) \in Aux /\ OwnMac(p) \in Mac
      BY ReadTypes
    <2>2. RevealedKey(AuxOf(p)) \in Mac
      BY <2>1, MaxRunsAssumption DEF RevealedKey, Mac, None, Run, Ids
    <2>3. /\ Ack(Listener(p), to[p], OwnMac(p)) \in Message
          /\ Ack(Eph(p), to[p], RevealedKey(AuxOf(p))) \in Message
      BY <1>2, <2>1, <2>2, MessageTypes
    <2>4. [call[p] EXCEPT !.keyed = FALSE] \in CallData
      BY <1>2 DEF CallData
    <2>5. Completed(p) \in [role : {"orig", "acc"}, aux : Aux]
      BY <2>1 DEF Completed
    <2>6. /\ msgs' \subseteq Message
          /\ crp' \in [Party -> States]
          /\ call' = [call EXCEPT ![p].keyed = FALSE]
          /\ done' = done \cup {Completed(p)}
          /\ UNCHANGED <<cnt, to, inUse>>
      BY <1>10, <2>3 DEF GoAckAcceptor, GoAckCaller, TypeOK, States
    <2> QED
      BY <2>4, <2>5, <2>6 DEF TypeOK
  <1>11. CASE GoAckRevealed(p, m)
    <2> DEFINE genuine == m.mac = RevealedKey(AuxOf(p))
               match == genuine /\ call[p].keyed
    <2>1. [call[p] EXCEPT !.reveal = IF ~genuine \/ @ # "none" THEN @
                                     ELSE IF match THEN "match" ELSE "mismatch",
                          !.keyed = IF match THEN FALSE ELSE @] \in CallData
      BY <1>2 DEF CallData
    <2> QED
      BY <1>11, <2>1 DEF GoAckRevealed, TypeOK
  <1> QED
    BY <1>3, <1>4, <1>5, <1>6, <1>7, <1>8, <1>9, <1>10, <1>11

\* Every step keeps the types.
LEMMA NextType == TypeOK /\ [Next]_vars => TypeOK'
  <1> SUFFICES ASSUME TypeOK, [Next]_vars PROVE TypeOK'
    OBVIOUS
  <1>1. CASE Next
    BY <1>1, UserType, ReceiveType DEF Next
  <1>2. CASE UNCHANGED vars
    BY <1>2 DEF vars, TypeOK
  <1> QED
    BY <1>1, <1>2

\* In every state of every behaviour the variables have their types: no handler
\* of the exchange builds a packet or a session out of data it does not have.
THEOREM TypeCorrect == Spec => []TypeOK
  BY InitType, NextType, PTL DEF Spec

-----------------------------------------------------------------------------
(* Agreement and OnlyWantedCallers.                                        *)

\* The network is empty and nobody is in a call.
LEMMA InitInductive == Init => Inductive
  <1> SUFFICES ASSUME Init PROVE Inductive
    OBVIOUS
  <1>1. TypeOK
    BY InitType
  <1>2. \A p \in Party : crp[p] = 0
    BY DEF Init
  <1> QED
    BY <1>1, <1>2 DEF Init, Inductive, OriginatorInv, RequestInv, AnswerInv, AcceptorInv,
       AuthenticatorInv, Agreement, OnlyWantedCallers, OutOpen, Originating

\* A step that stops the call of p and sends no more than a notice, or that
\* leaves the calls alone, keeps the invariant.
LEMMA QuietInductive ==
    ASSUME Inductive, TypeOK', NEW p \in Party,
           \A r \in Party \ {p} : crp'[r] = crp[r] /\ call'[r] = call[r] /\ to'[r] = to[r],
           crp'[p] = 0 \/ (crp'[p] = crp[p] /\ call'[p] = call[p] /\ to'[p] = to[p]),
           \A m \in msgs' : m \in msgs \/ m.t \in {"FIN", "INV"},
           msgs \subseteq msgs', UNCHANGED <<cnt, done>>
    PROVE  Inductive'
  <1> USE DEF Inductive
  <1>1. OriginatorInv'
    BY DEF OriginatorInv, OutOpen, Originating, Listener
  <1>2. RequestInv' /\ AnswerInv'
    BY DEF RequestInv, AnswerInv
  <1>3. AcceptorInv'
    BY DEF AcceptorInv, Eph
  <1>4. AuthenticatorInv'
    BY DEF AuthenticatorInv
  <1>5. Agreement' /\ OnlyWantedCallers'
    BY DEF Agreement, OnlyWantedCallers
  <1> QED
    BY <1>1, <1>2, <1>3, <1>4, <1>5

\* disconnect() keeps the invariant.
LEMMA DisconnectInductive ==
    ASSUME Inductive, NEW p \in Party, NEW addr \in Addr,
           Disconnect(p, addr), UNCHANGED <<cnt, done>>
    PROVE  Inductive'
  <1>1. TypeOK'
    BY DisconnectType DEF Inductive
  <1>2. Notice(p, addr).t \in {"FIN", "INV"}
    BY DEF Notice, Fin, Inv
  <1> QED
    BY <1>1, <1>2, QuietInductive DEF Disconnect, Inductive, TypeOK

\* The user's -U: the new run is on no datagram yet.
LEMMA DoReqInductive ==
    ASSUME Inductive, TypeOK', NEW p \in Party, NEW q \in Party \ {p}, NEW c \in Ids,
           NEW o \in Ids, DoReq(p, q, c, o)
    PROVE  Inductive'
  <1> USE DEF Inductive
  <1> DEFINE e == <<p, cnt[p] + 1>>
  <1>1. /\ crp' = [crp EXCEPT ![p] = -1]
        /\ cnt' = [cnt EXCEPT ![p] = cnt[p] + 1]
        /\ to' = [to EXCEPT ![p] = Listener(q)]
        /\ call' = [call EXCEPT ![p] = [NoCall EXCEPT !.me = o, !.contact = c]]
        /\ done' = done
        /\ msgs \subseteq msgs'
        /\ \A m \in msgs' : m \in msgs \/ m.t \in {"FIN", "INV"} \/ m = Req(e, Listener(q), e)
    BY DEF DoReq, Notice, Fin, Inv
  <1>2. \A r \in Party : cnt[r] \in Nat /\ cnt'[r] \in Nat /\ cnt[r] <= cnt'[r]
    BY <1>1, MaxRunsAssumption DEF TypeOK
  <1>3. OriginatorInv'
    BY <1>1 DEF OriginatorInv, OutOpen, Originating, NoCall, TypeOK, Listener
  <1>4. RequestInv'
    <2> SUFFICES ASSUME NEW m \in msgs', m.t = "REQ"
                 PROVE  /\ m.eph[1] \in Party
                        /\ m.eph[2] <= cnt'[m.eph[1]]
                        /\ m.src[2] = 0 => m.eph[1] = m.src[1]
      BY DEF RequestInv
    <2>1. CASE m \in msgs
      <3>1. m.eph[1] \in Party /\ m.eph[2] \in Nat /\ m.eph[2] <= cnt[m.eph[1]]
        BY <2>1, MessageFields, MaxRunsAssumption DEF RequestInv, TypeOK, Run
      <3> QED
        BY <1>2, <2>1, <3>1 DEF RequestInv
    <2>2. CASE m = Req(e, Listener(q), e)
      BY <1>1, <1>2, <2>2 DEF Req, TypeOK
    <2> QED
      BY <1>1, <2>1, <2>2
  <1>5. AnswerInv'
    <2> SUFFICES ASSUME NEW m \in msgs, m.t = "ANS"
                 PROVE  m.pref.own[1] \in Party /\ m.pref.own[2] <= cnt'[m.pref.own[1]]
      BY <1>1 DEF AnswerInv, Req
    <2>1. m.pref.own[2] \in Nat
      BY MessageFields, MaxRunsAssumption DEF TypeOK, Pref, Run
    <2> QED
      BY <1>2, <2>1 DEF AnswerInv
  <1>6. AcceptorInv'
    BY <1>1 DEF AcceptorInv, Eph, Req, TypeOK
  <1>7. AuthenticatorInv'
    BY <1>1 DEF AuthenticatorInv, Req
  <1>8. Agreement' /\ OnlyWantedCallers'
    BY <1>1 DEF Agreement, OnlyWantedCallers, TypeOK
  <1> QED
    BY <1>3, <1>4, <1>5, <1>6, <1>7, <1>8

\* The first request: the acceptor's new run is on no datagram yet, and differs
\* from the one in the request.
LEMMA GoReqIdleInductive ==
    ASSUME Inductive, TypeOK', NEW p \in Party, NEW m \in msgs, GoReqIdle(p, m)
    PROVE  Inductive'
  <1> USE DEF Inductive
  <1> DEFINE e == <<p, cnt[p] + 1>>
             n == Req(Listener(p), m.src, e)
  <1>1. /\ m.t = "REQ" /\ crp[p] = 0
        /\ crp' = [crp EXCEPT ![p] = -2]
        /\ cnt' = [cnt EXCEPT ![p] = cnt[p] + 1]
        /\ to' = [to EXCEPT ![p] = m.src]
        /\ call' = [call EXCEPT ![p] = [NoCall EXCEPT !.their = m.eph]]
        /\ done' = done
        /\ msgs' = msgs \cup {n}
    BY DEF GoReqIdle, GoReqAsRun
  <1>2. \A r \in Party : cnt[r] \in Nat /\ cnt'[r] \in Nat /\ cnt[r] <= cnt'[r]
    BY <1>1, MaxRunsAssumption DEF TypeOK
  <1>3. OriginatorInv'
    BY <1>1 DEF OriginatorInv, OutOpen, Originating, TypeOK, Listener
  <1>4. RequestInv'
    <2> SUFFICES ASSUME NEW x \in msgs', x.t = "REQ"
                 PROVE  /\ x.eph[1] \in Party
                        /\ x.eph[2] <= cnt'[x.eph[1]]
                        /\ x.src[2] = 0 => x.eph[1] = x.src[1]
      BY DEF RequestInv
    <2>1. CASE x \in msgs
      <3>1. x.eph[1] \in Party /\ x.eph[2] \in Nat /\ x.eph[2] <= cnt[x.eph[1]]
        BY <2>1, MessageFields, MaxRunsAssumption DEF RequestInv, TypeOK, Run
      <3> QED
        BY <1>2, <2>1, <3>1 DEF RequestInv
    <2>2. CASE x = n
      BY <1>1, <1>2, <2>2 DEF Req, TypeOK, Listener
    <2> QED
      BY <1>1, <2>1, <2>2
  <1>5. AnswerInv'
    <2> SUFFICES ASSUME NEW x \in msgs, x.t = "ANS"
                 PROVE  x.pref.own[1] \in Party /\ x.pref.own[2] <= cnt'[x.pref.own[1]]
      BY <1>1 DEF AnswerInv, Req
    <2>1. x.pref.own[2] \in Nat
      BY MessageFields, MaxRunsAssumption DEF TypeOK, Pref, Run
    <2> QED
      BY <1>2, <2>1 DEF AnswerInv
  <1>6. AcceptorInv'
    <2> SUFFICES ASSUME NEW r \in Party, crp'[r] \in {-2, 2}
                 PROVE  /\ call'[r].their # Eph(r)'
                        /\ \A x \in msgs' : x.t = "ANS" /\ x.pref.own = Eph(r)' =>
                              crp'[r] = 2 /\ (call'[r].consent \/ call'[r].spoiled)
                        /\ crp'[r] = 2 /\ ~call'[r].spoiled =>
                              call'[r].contact \in Book[r] \ Ignored[r]
      BY DEF AcceptorInv
    <2>1. CASE r # p
      BY <1>1, <2>1 DEF AcceptorInv, Eph, Req, TypeOK
    <2>2. CASE r = p
      <3>1. call'[p].their = m.eph /\ Eph(p)' = e /\ crp'[p] = -2
        BY <1>1 DEF TypeOK, NoCall, Eph
      <3>2. m.eph[2] <= cnt[m.eph[1]]
        BY <1>1 DEF RequestInv
      <3>3. m.eph # e
        BY <1>2, <3>2
      <3>4. \A x \in msgs' : x.t = "ANS" => x.pref.own # e
        BY <1>1, <1>2 DEF AnswerInv, Req
      <3> QED
        BY <2>2, <3>1, <3>3, <3>4
    <2> QED
      BY <2>1, <2>2
  <1>7. AuthenticatorInv'
    BY <1>1 DEF AuthenticatorInv, Req
  <1>8. Agreement' /\ OnlyWantedCallers'
    BY <1>1 DEF Agreement, OnlyWantedCallers, TypeOK
  <1> QED
    BY <1>3, <1>4, <1>5, <1>6, <1>7, <1>8

\* The second request reaches the originator from the listener it called, so
\* the run in it is another party's.
LEMMA GoReqCallerInductive ==
    ASSUME Inductive, TypeOK', NEW p \in Party, NEW m \in msgs, GoReqCaller(p, m)
    PROVE  Inductive'
  <1> USE DEF Inductive
  <1> DEFINE pref == [id |-> call[p].me, reader |-> call[p].contact,
                      own |-> Eph(p), peer |-> m.eph, good |-> TRUE]
             n == Ans(Eph(p), to[p], Eph(p), pref)
  <1>1. /\ m.t = "REQ" /\ crp[p] = -1
        /\ crp' = [crp EXCEPT ![p] = 1]
        /\ call' = [call EXCEPT ![p].their = m.eph]
        /\ msgs' = msgs \cup {n}
        /\ UNCHANGED <<cnt, to, done>>
    BY DEF GoReqCaller
  <1>2. n.t = "ANS" /\ n.pref.own = Eph(p)
    BY DEF Ans
  <1>3. OriginatorInv'
    <2>1. m.eph[1] # p
      <3>1. PICK q \in Party \ {p} : to[p] = Listener(q)
        BY <1>1 DEF OriginatorInv, OutOpen, Originating
      <3>2. m.src = to[p]
        BY <1>1 DEF GoReqCaller, Heard, Busy, OutOpen, Originating
      <3> QED
        BY <1>1, <3>1, <3>2 DEF RequestInv, Listener
    <2> QED
      BY <1>1, <2>1 DEF OriginatorInv, OutOpen, Originating, TypeOK, CallData, Listener
  <1>4. RequestInv'
    BY <1>1, <1>2 DEF RequestInv
  <1>5. AnswerInv'
    <2>1. Eph(p)[1] \in Party /\ Eph(p)[2] <= cnt[Eph(p)[1]]
      BY MaxRunsAssumption DEF Eph, TypeOK
    <2> QED
      BY <1>1, <1>2, <2>1 DEF AnswerInv
  <1>6. AcceptorInv'
    <2>1. \A r \in Party \ {p} : Eph(r) # Eph(p)
      BY DEF Eph
    <2> QED
      BY <1>1, <1>2, <2>1 DEF AcceptorInv, Eph, TypeOK
  <1>7. AuthenticatorInv'
    BY <1>1, <1>2 DEF AuthenticatorInv
  <1>8. Agreement' /\ OnlyWantedCallers'
    BY <1>1 DEF Agreement, OnlyWantedCallers, TypeOK
  <1> QED
    BY <1>3, <1>4, <1>5, <1>6, <1>7, <1>8

\* The acceptor's steps before go_ack: p rings, and if its answer is sent then
\* the call is taken or spoiled.
LEMMA RingingInductive ==
    ASSUME Inductive, TypeOK', NEW p \in Party,
           crp[p] \in {-2, 2}, crp'[p] = 2, call'[p].their = call[p].their,
           \A r \in Party \ {p} : crp'[r] = crp[r] /\ call'[r] = call[r],
           UNCHANGED <<cnt, to, done>>,
           msgs \subseteq msgs',
           \A x \in msgs' \ msgs :
               x.t = "ANS" /\ x.pref.own = Eph(p) /\ (call'[p].consent \/ call'[p].spoiled),
           crp[p] = 2 /\ (call[p].consent \/ call[p].spoiled)
               => call'[p].consent \/ call'[p].spoiled,
           ~call'[p].spoiled => call'[p].contact \in Book[p] \ Ignored[p]
    PROVE  Inductive'
  <1> USE DEF Inductive
  <1>1. OriginatorInv'
    BY DEF OriginatorInv, OutOpen, Originating, Listener
  <1>2. RequestInv'
    BY DEF RequestInv
  <1>3. AnswerInv'
    <2>1. Eph(p)[1] \in Party /\ Eph(p)[2] <= cnt[Eph(p)[1]]
      BY MaxRunsAssumption DEF Eph, TypeOK
    <2> QED
      BY <2>1 DEF AnswerInv
  <1>4. AcceptorInv'
    <2> SUFFICES ASSUME NEW r \in Party, crp'[r] \in {-2, 2}
                 PROVE  /\ call'[r].their # Eph(r)
                        /\ \A x \in msgs' : x.t = "ANS" /\ x.pref.own = Eph(r) =>
                              crp'[r] = 2 /\ (call'[r].consent \/ call'[r].spoiled)
                        /\ crp'[r] = 2 /\ ~call'[r].spoiled =>
                              call'[r].contact \in Book[r] \ Ignored[r]
      BY DEF AcceptorInv, Eph
    <2>1. CASE r # p
      <3>1. crp'[r] = crp[r] /\ call'[r] = call[r] /\ Eph(r) # Eph(p)
        BY <2>1 DEF Eph
      <3> QED
        BY <3>1 DEF AcceptorInv
    <2>2. CASE r = p
      <3>1. call'[p].their # Eph(p)
        BY DEF AcceptorInv
      <3>2. ASSUME NEW x \in msgs', x.t = "ANS", x.pref.own = Eph(p)
            PROVE  call'[p].consent \/ call'[p].spoiled
        BY <3>2 DEF AcceptorInv
      <3> QED
        BY <2>2, <3>1, <3>2
    <2> QED
      BY <2>1, <2>2
  <1>5. AuthenticatorInv'
    BY DEF AuthenticatorInv
  <1>6. Agreement' /\ OnlyWantedCallers'
    BY DEF Agreement, OnlyWantedCallers
  <1> QED
    BY <1>1, <1>2, <1>3, <1>4, <1>5, <1>6

\* The prepared answer carries the acceptor's run.
LEMMA AnswerRun ==
    ASSUME NEW p \in Party, NEW cl
    PROVE  Answer(p, cl).t = "ANS" /\ Answer(p, cl).pref.own = Eph(p)
  BY DEF Answer, Ans

\* The caller is identified: usable keys mean a wanted contact.
LEMMA GoAnsRingInductive ==
    ASSUME Inductive, TypeOK', NEW p \in Party, NEW m \in msgs, GoAnsRing(p, m)
    PROVE  Inductive'
  <1> DEFINE n == p \in AutoAnswer
             known == Recognised(p, m.pref)
             cl == [call[p] EXCEPT
                      !.me = IF known THEN m.pref.reader ELSE Guest,
                      !.contact = IF known THEN m.pref.id ELSE Guest,
                      !.spoiled = Unwanted(p, m.pref),
                      !.ready = TRUE, !.keyed = TRUE, !.consent = n]
  <1>1. /\ crp[p] = -2 /\ crp' = [crp EXCEPT ![p] = 2]
        /\ call' = [call EXCEPT ![p] = cl]
        /\ msgs' = IF p \in AutoAnswer THEN msgs \cup {Answer(p, cl)} ELSE msgs
        /\ UNCHANGED <<cnt, to, done>>
    BY DEF GoAnsRing
  <1>2. /\ call'[p] = cl
        /\ cl.their = call[p].their
        /\ p \in AutoAnswer => cl.consent = TRUE
        /\ cl.spoiled = Unwanted(p, m.pref)
        /\ cl.contact = IF known THEN m.pref.id ELSE Guest
    <2>1. p \in AutoAnswer => n = TRUE
      OBVIOUS
    <2>2. call'[p] = cl
      BY <1>1 DEF Inductive, TypeOK
    <2> HIDE DEF n, known
    <2> QED
      BY <2>1, <2>2 DEF Inductive, TypeOK, CallData
  <1>3. ~cl.spoiled => cl.contact \in Book[p] \ Ignored[p]
    BY <1>2 DEF Unwanted, Recognised
  <1>4. msgs \subseteq msgs' /\ \A x \in msgs' \ msgs :
            x.t = "ANS" /\ x.pref.own = Eph(p) /\ (cl.consent \/ cl.spoiled)
    BY <1>1, <1>2, AnswerRun
  <1>5. crp'[p] = 2 /\ \A r \in Party \ {p} : crp'[r] = crp[r] /\ call'[r] = call[r]
    BY <1>1 DEF Inductive, TypeOK
  <1>6. ~call'[p].spoiled => call'[p].contact \in Book[p] \ Ignored[p]
    BY <1>2, <1>3
  <1>7. \A x \in msgs' \ msgs :
            x.t = "ANS" /\ x.pref.own = Eph(p) /\ (call'[p].consent \/ call'[p].spoiled)
    BY <1>2, <1>4
  <1> HIDE DEF cl
  <1> QED
    BY <1>1, <1>2, <1>4, <1>5, <1>6, <1>7, RingingInductive

\* Enter is the user's consent.
LEMMA AcceptInductive ==
    ASSUME Inductive, TypeOK', NEW p \in Party, Accept(p)
    PROVE  Inductive'
  <1>1. /\ crp[p] = 2 /\ UNCHANGED <<crp, cnt, to, done>>
        /\ call' = [call EXCEPT ![p].ready = FALSE, ![p].consent = TRUE]
        /\ msgs' = msgs \cup {Answer(p, call[p])}
    BY DEF Accept
  <1>2. /\ call'[p].consent /\ call'[p].their = call[p].their
        /\ call'[p].contact = call[p].contact /\ call'[p].spoiled = call[p].spoiled
        /\ \A r \in Party \ {p} : call'[r] = call[r]
    BY <1>1 DEF Inductive, TypeOK, CallData
  <1>3. ~call'[p].spoiled => call'[p].contact \in Book[p] \ Ignored[p]
    BY <1>1, <1>2 DEF Inductive, AcceptorInv
  <1>4. msgs \subseteq msgs' /\ \A x \in msgs' \ msgs : x.t = "ANS" /\ x.pref.own = Eph(p)
    BY <1>1, AnswerRun
  <1> QED
    BY <1>1, <1>2, <1>3, <1>4, RingingInductive

\* Esc spoils the keys, whatever has been sent before.
LEMMA RefuseInductive ==
    ASSUME Inductive, TypeOK', NEW p \in Party, Refuse(p)
    PROVE  Inductive'
  <1> DEFINE sp == [call[p] EXCEPT !.spoiled = TRUE]
  <1>1. /\ crp[p] = 2 /\ UNCHANGED <<crp, cnt, to, done>>
        /\ call' = [call EXCEPT ![p] = [sp EXCEPT !.ready = FALSE, !.consent = FALSE]]
        /\ msgs' = msgs \/ msgs' = msgs \cup {Answer(p, sp)}
    BY DEF Refuse
  <1>2. /\ call'[p].spoiled /\ call'[p].their = call[p].their
        /\ \A r \in Party \ {p} : call'[r] = call[r]
    BY <1>1 DEF Inductive, TypeOK, CallData
  <1>3. msgs \subseteq msgs' /\ \A x \in msgs' \ msgs : x.t = "ANS" /\ x.pref.own = Eph(p)
    BY <1>1, AnswerRun
  <1> HIDE DEF sp
  <1> QED
    BY <1>1, <1>2, <1>3, RingingInductive

\* The originator authenticates itself: the answer it checked was sent by the
\* acceptor's run.
LEMMA GoAnsCallerInductive ==
    ASSUME Inductive, TypeOK', NEW p \in Party, NEW m \in msgs, GoAnsCaller(p, m)
    PROVE  Inductive'
  <1> USE DEF Inductive
  <1> DEFINE n == Ack(Eph(p), to[p], OwnMac(p))
  <1>1. /\ m.t = "ANS" /\ crp[p] = 1 /\ AnswerIsGood(p, m)
        /\ crp' = [crp EXCEPT ![p] = -3]
        /\ call' = [call EXCEPT ![p].keyed = TRUE]
        /\ msgs' = msgs \cup {n}
        /\ UNCHANGED <<cnt, to, done>>
    BY DEF GoAnsCaller
  <1>2. OutOpen(p) /\ ~call[p].spoiled /\ call[p].their # Eph(p)
    BY <1>1 DEF OutOpen, Originating, OriginatorInv, Eph
  <1>3. /\ n.t = "ACK" /\ n.mac.k.good
        /\ n.mac.k.pe = Eph(p) /\ n.mac.k.qe = call[p].their
        /\ n.mac.f = Eph(p) /\ n.mac.s = call[p].their
    BY <1>2 DEF Ack, OwnMac, AuxOf
  <1> HIDE DEF n
  <1>4. OriginatorInv'
    BY <1>1 DEF OriginatorInv, OutOpen, Originating, TypeOK, CallData, Listener
  <1>5. RequestInv' /\ AnswerInv'
    BY <1>1, <1>3 DEF RequestInv, AnswerInv
  <1>6. AcceptorInv'
    BY <1>1, <1>3 DEF AcceptorInv, Eph, TypeOK
  <1>7. AuthenticatorInv'
    <2>1. m.pref.own = n.mac.k.qe
      BY <1>1, <1>3 DEF AnswerIsGood
    <2> QED
      BY <1>1, <1>2, <1>3, <2>1 DEF AuthenticatorInv
  <1>8. Agreement' /\ OnlyWantedCallers'
    BY <1>1 DEF Agreement, OnlyWantedCallers, TypeOK
  <1> QED
    BY <1>4, <1>5, <1>6, <1>7, <1>8

\* The acceptor completes: the authenticator it checked shows that the keys are
\* unspoiled and that an answer of its run was sent, hence that the call was taken.
LEMMA GoAckAcceptorInductive ==
    ASSUME Inductive, TypeOK', NEW p \in Party, NEW m \in msgs, GoAckAcceptor(p, m)
    PROVE  Inductive'
  <1> USE DEF Inductive
  <1> DEFINE n == Ack(Listener(p), to[p], OwnMac(p))
  <1>1. /\ m.t = "ACK" /\ crp[p] = 2 /\ m.mac = PeerMac(p)
        /\ crp' = [crp EXCEPT ![p] = 4]
        /\ call' = [call EXCEPT ![p].keyed = FALSE]
        /\ msgs' = msgs \cup {n}
        /\ done' = done \cup {Completed(p)}
        /\ UNCHANGED <<cnt, to>>
    BY DEF GoAckAcceptor, AckIsGood
  <1>2. /\ ~OutOpen(p) /\ call[p].their # Eph(p)
        /\ AuxOf(p).pe = call[p].their /\ AuxOf(p).qe = Eph(p)
        /\ m.mac.k = AuxOf(p) /\ m.mac.f = call[p].their /\ m.mac.s = Eph(p)
    BY <1>1 DEF OutOpen, Originating, AcceptorInv, PeerMac, AuxOf
  <1>3. AuxOf(p).good
    BY <1>1, <1>2 DEF AuthenticatorInv
  <1>4. ~call[p].spoiled
    BY <1>2, <1>3 DEF AuxOf
  <1>5. call[p].consent
    <2>1. PICK a \in msgs : a.t = "ANS" /\ a.pref.own = Eph(p)
      BY <1>1, <1>2 DEF AuthenticatorInv
    <2> QED
      BY <1>1, <1>4, <2>1 DEF AcceptorInv
  <1>6. Completed(p) = [role |-> "acc", aux |-> AuxOf(p)]
    BY <1>2 DEF Completed
  <1>7. /\ n.t = "ACK" /\ n.mac.k = AuxOf(p)
        /\ n.mac.f = Eph(p) /\ n.mac.s = call[p].their
    BY DEF Ack, OwnMac
  <1> HIDE DEF n
  <1>8. OriginatorInv'
    BY <1>1 DEF OriginatorInv, OutOpen, Originating, TypeOK, Listener
  <1>9. RequestInv' /\ AnswerInv'
    BY <1>1, <1>7 DEF RequestInv, AnswerInv
  <1>10. AcceptorInv'
    BY <1>1, <1>7 DEF AcceptorInv, Eph, TypeOK
  <1>11. AuthenticatorInv'
    BY <1>1, <1>2, <1>3, <1>6, <1>7 DEF AuthenticatorInv
  <1>12. Agreement'
    BY <1>1, <1>6 DEF Agreement
  <1>13. OnlyWantedCallers'
    <2>1. call[p].contact \in Book[p] \ Ignored[p]
      BY <1>1, <1>4 DEF AcceptorInv
    <2>2. /\ call'[p].consent = call[p].consent /\ call'[p].spoiled = call[p].spoiled
          /\ call'[p].contact = call[p].contact
          /\ \A r \in Party \ {p} : crp'[r] = crp[r] /\ call'[r] = call[r]
      BY <1>1 DEF TypeOK, CallData
    <2> QED
      BY <1>4, <1>5, <2>1, <2>2 DEF OnlyWantedCallers
  <1> QED
    BY <1>8, <1>9, <1>10, <1>11, <1>12, <1>13

\* The originator completes: only an acceptor that has completed with the same
\* keys sends the authenticator it checked.
LEMMA GoAckCallerInductive ==
    ASSUME Inductive, TypeOK', NEW p \in Party, NEW m \in msgs, GoAckCaller(p, m)
    PROVE  Inductive'
  <1> USE DEF Inductive
  <1> DEFINE n == Ack(Eph(p), to[p], RevealedKey(AuxOf(p)))
  <1>1. /\ m.t = "ACK" /\ crp[p] = -3 /\ m.mac = PeerMac(p)
        /\ crp' = [crp EXCEPT ![p] = 3]
        /\ call' = [call EXCEPT ![p].keyed = FALSE]
        /\ msgs' = msgs \/ msgs' = msgs \cup {n}
        /\ done' = done \cup {Completed(p)}
        /\ UNCHANGED <<cnt, to>>
    BY DEF GoAckCaller, AckIsGood
  <1>2. /\ OutOpen(p) /\ ~call[p].spoiled /\ call[p].their # Eph(p)
    BY <1>1 DEF OutOpen, Originating, OriginatorInv, Eph
  <1>3. /\ AuxOf(p).pe = Eph(p) /\ AuxOf(p).qe = call[p].their /\ AuxOf(p).good
        /\ m.mac.k = AuxOf(p) /\ m.mac.f = call[p].their /\ m.mac.s = Eph(p)
    <2>1. AuxOf(p).pe = Eph(p) /\ AuxOf(p).qe = call[p].their
      BY <1>2 DEF AuxOf
    <2>2. AuxOf(p).good
      BY <1>2 DEF AuxOf
    <2> QED
      BY <1>1, <2>1, <2>2 DEF PeerMac
  <1>4. [role |-> "acc", aux |-> AuxOf(p)] \in done
    BY <1>1, <1>2, <1>3 DEF AuthenticatorInv
  <1>5. Completed(p) = [role |-> "orig", aux |-> AuxOf(p)]
    BY <1>2 DEF Completed
  <1>6. /\ n.t = "ACK" /\ n.mac.k = AuxOf(p) /\ n.mac.f = None /\ n.mac.s = None
    BY DEF Ack, RevealedKey
  <1> HIDE DEF n
  <1>7. OriginatorInv'
    BY <1>1 DEF OriginatorInv, OutOpen, Originating, TypeOK, CallData, Listener
  <1>8. RequestInv' /\ AnswerInv'
    BY <1>1, <1>6 DEF RequestInv, AnswerInv
  <1>9. AcceptorInv'
    BY <1>1, <1>6 DEF AcceptorInv, Eph, TypeOK
  <1>10. AuthenticatorInv'
    <2>1. Eph(p) # None
      BY GuestAssumption DEF Eph, None
    <2> SUFFICES ASSUME NEW x \in msgs', x.t = "ACK", x.mac.k.pe # x.mac.k.qe
                 PROVE  /\ x.mac.k.good
                        /\ x.mac.f = x.mac.k.qe /\ x.mac.s = x.mac.k.pe =>
                              [role |-> "acc", aux |-> x.mac.k] \in done'
                        /\ x.mac.f = x.mac.k.pe /\ x.mac.s = x.mac.k.qe =>
                              \E y \in msgs' : y.t = "ANS" /\ y.pref.own = x.mac.k.qe
      BY DEF AuthenticatorInv
    <2>2. CASE x \in msgs
      BY <1>1, <2>2 DEF AuthenticatorInv
    <2>3. CASE x = n
      BY <1>3, <1>6, <2>1, <2>3
    <2> QED
      BY <1>1, <2>2, <2>3
  <1>11. Agreement'
    BY <1>1, <1>3, <1>4, <1>5 DEF Agreement
  <1>12. OnlyWantedCallers'
    BY <1>1 DEF OnlyWantedCallers, TypeOK
  <1> QED
    BY <1>7, <1>8, <1>9, <1>10, <1>11, <1>12

\* A revealed key changes nothing the invariant speaks of.
LEMMA GoAckRevealedInductive ==
    ASSUME Inductive, TypeOK', NEW p \in Party, NEW m \in msgs, GoAckRevealed(p, m)
    PROVE  Inductive'
  <1> USE DEF Inductive
  <1>1. /\ crp[p] = 4 /\ UNCHANGED <<crp, cnt, to, msgs, done>>
        /\ \A r \in Party \ {p} : call'[r] = call[r]
        /\ call'[p].consent = call[p].consent /\ call'[p].spoiled = call[p].spoiled
        /\ call'[p].contact = call[p].contact
    BY DEF GoAckRevealed, TypeOK, CallData
  <1>2. OriginatorInv' /\ AcceptorInv'
    BY <1>1 DEF OriginatorInv, AcceptorInv, OutOpen, Originating, Eph, Listener
  <1>3. RequestInv' /\ AnswerInv' /\ AuthenticatorInv' /\ Agreement'
    BY <1>1 DEF RequestInv, AnswerInv, AuthenticatorInv, Agreement
  <1>4. OnlyWantedCallers'
    BY <1>1 DEF OnlyWantedCallers
  <1> QED
    BY <1>2, <1>3, <1>4

\* Every step keeps the invariant.
LEMMA NextInductive == Inductive /\ [Next]_vars => Inductive'
  <1> SUFFICES ASSUME Inductive, [Next]_vars PROVE Inductive'
    OBVIOUS
  <1>1. TypeOK'
    BY NextType DEF Inductive
  <1>2. CASE UNCHANGED vars
    BY <1>1, <1>2 DEF vars, Inductive, OriginatorInv, RequestInv, AnswerInv, AcceptorInv,
       AuthenticatorInv, Agreement, OnlyWantedCallers, OutOpen, Originating, Eph, Listener
  <1>3. ASSUME NEW p \in Party, User(p) \/ Timeout(p)
        PROVE  Inductive'
    <2>1. to[p] \in Addr
      BY <1>3 DEF Inductive, TypeOK
    <2>2. ASSUME NEW q \in Party \ {p}, NEW c \in Ids, NEW o \in Ids, DoReq(p, q, c, o)
          PROVE  Inductive'
      BY <1>1, <1>3, <2>2, DoReqInductive
    <2>3. CASE Hangup(p) \/ Timeout(p)
      BY <1>3, <2>1, <2>3, DisconnectInductive DEF Hangup, Timeout
    <2>4. CASE Accept(p) \/ Refuse(p)
      BY <1>1, <1>3, <2>4, AcceptInductive, RefuseInductive
    <2> QED
      BY <1>3, <2>2, <2>3, <2>4 DEF User
  <1>4. ASSUME NEW p \in Party, NEW m \in msgs,
               \/ BusyReply(p, m) \/ StrayFin(p, m)
               \/ GoInv(p, m) \/ GoFin(p, m) \/ GoAnsFail(p, m) \/ GoAckFail(p, m)
        PROVE  Inductive'
    <2>1. m.src \in Addr
      BY MessageFields DEF Inductive, TypeOK
    <2>2. CASE BusyReply(p, m) \/ StrayFin(p, m)
      BY <1>1, <1>4, <2>2, QuietInductive DEF BusyReply, StrayFin, Inv, Inductive, TypeOK
    <2>3. CASE GoInv(p, m) \/ GoFin(p, m) \/ GoAnsFail(p, m) \/ GoAckFail(p, m)
      BY <1>4, <2>1, <2>3, DisconnectInductive DEF GoInv, GoFin, GoAnsFail, GoAckFail
    <2> QED
      BY <1>4, <2>2, <2>3
  <1>5. ASSUME NEW p \in Party, NEW m \in msgs,
               \/ GoReqIdle(p, m) \/ GoReqCaller(p, m) \/ GoAnsRing(p, m)
               \/ GoAnsCaller(p, m) \/ GoAckAcceptor(p, m) \/ GoAckCaller(p, m)
               \/ GoAckRevealed(p, m)
        PROVE  Inductive'
    BY <1>1, <1>5, GoReqIdleInductive, GoReqCallerInductive, GoAnsRingInductive,
       GoAnsCallerInductive, GoAckAcceptorInductive, GoAckCallerInductive,
       GoAckRevealedInductive
  <1> QED
    BY <1>2, <1>3, <1>4, <1>5 DEF Next, Receive

\* The invariant holds in every state of every behaviour.
THEOREM AlwaysInductive == Spec => []Inductive
  BY InitInductive, NextInductive, PTL DEF Spec

\* Whatever datagrams are lost, repeated, delayed or read by the wrong phone, and
\* whoever hangs up or calls again when: an originator that go_ack() connects
\* shares its keys with an acceptor that go_ack() has connected.
THEOREM AgreementHolds == Spec => []Agreement
  <1>1. Inductive => Agreement
    BY DEF Inductive
  <1> QED
    BY <1>1, AlwaysInductive, PTL

\* A phone is only ever connected, as acceptor, to a contact of its address book
\* that it does not ignore, in a call that was taken and not refused since.
THEOREM OnlyWantedCallersHolds == Spec => []OnlyWantedCallers
  <1>1. Inductive => OnlyWantedCallers
    BY DEF Inductive
  <1> QED
    BY <1>1, AlwaysInductive, PTL

-----------------------------------------------------------------------------
(* What a step may do.                                                     *)

\* crp_state follows the exchange or falls back to idle; only a new run leaves idle.
Moves(p) ==
    \/ cnt'[p] = cnt[p] + 1
    \/ /\ cnt'[p] = cnt[p]
       /\ \/ crp'[p] = crp[p] \/ crp'[p] = 0
          \/ crp[p] = -1 /\ crp'[p] = 1
          \/ crp[p] = 1 /\ crp'[p] = -3
          \/ crp[p] = -3 /\ crp'[p] = 3
          \/ crp[p] = -2 /\ crp'[p] = 2
          \/ crp[p] = 2 /\ crp'[p] = 4

\* The datagrams p adds to the network.
Sends(p) ==
    \A m \in msgs' \ msgs :
        /\ m.t = "REQ" => IF m.src[2] = 0 THEN m.dst[2] # 0 ELSE m.eph = m.src
        /\ m.t = "ANS" => m.pref.id \in {m.pref.own[1], Guest}
        /\ m.t = "ACK" /\ m.mac.f = m.mac.k.pe =>
              /\ crp[p] = 1 /\ crp'[p] = -3 /\ cnt'[p] = cnt[p]
              /\ m.mac.k = AuxOf(p) /\ AuxOf(p) \in Session /\ AuxOf(p).pe = Eph(p)
        /\ m.t = "FIN" =>
              /\ crp'[p] = 0 /\ cnt'[p] = cnt[p]
              /\ Eph(p) = IF m.role = 3 THEN m.key.pe ELSE m.key.qe

\* The session p completes, if it completes one.
AcceptorCompletes(p) ==
    /\ crp[p] = 2 /\ crp'[p] = 4 /\ cnt'[p] = cnt[p]
    /\ AuxOf(p).qe = Eph(p)
    /\ \E m \in CallerAcks : m.mac.k = AuxOf(p)
    /\ done' = done \cup {[role |-> "acc", aux |-> AuxOf(p)]}
OriginatorCompletes(p) ==
    /\ crp[p] = -3 /\ crp'[p] = 3 /\ cnt'[p] = cnt[p]
    /\ AuxOf(p).pe = Eph(p)
    /\ done' = done \cup {[role |-> "orig", aux |-> AuxOf(p)]}

Effect(p) ==
    /\ \A r \in Party \ {p} : /\ crp'[r] = crp[r] /\ cnt'[r] = cnt[r]
                              /\ to'[r] = to[r] /\ call'[r] = call[r]
    /\ Moves(p)
    /\ call'[p].me \in {p, Guest}
    /\ crp'[p] \in {-2, 2, 4} => to'[p] = call'[p].their
    /\ msgs \subseteq msgs'
    /\ Sends(p)
    /\ done' = done \/ AcceptorCompletes(p) \/ OriginatorCompletes(p)
    /\ crp'[p] \in {3, 4} =>
          /\ AuxOf(p)' = AuxOf(p)
          /\ crp'[p] = crp[p] \/ AcceptorCompletes(p) \/ OriginatorCompletes(p)

-----------------------------------------------------------------------------
(* The handlers.                                                           *)

\* The run a party computes its session with is its own.
LEMMA OwnRun ==
    ASSUME NEW p \in Party
    PROVE  /\ OutOpen(p) => AuxOf(p).pe = Eph(p) /\ AuxOf(p).qe = call[p].their
           /\ ~OutOpen(p) => AuxOf(p).qe = Eph(p) /\ AuxOf(p).pe = call[p].their
  BY DEF AuxOf

\* disconnect(): only an established call is left with a final SYN.
LEMMA DisconnectEffect ==
    ASSUME SessionInv, NEW p \in Party, NEW addr \in Addr,
           Disconnect(p, addr), UNCHANGED <<cnt, done>>
    PROVE  Effect(p)
  <1>1. /\ crp'[p] = 0 /\ call'[p] = NoCall
        /\ msgs' = msgs \cup {Notice(p, addr)}
        /\ UNCHANGED <<cnt, done>>
        /\ \A r \in Party \ {p} : crp'[r] = crp[r] /\ to'[r] = to[r] /\ call'[r] = call[r]
    BY DEF Disconnect, SessionInv, Inductive, TypeOK
  <1>2. Moves(p)
    BY <1>1 DEF Moves
  <1>3. call'[p].me \in {p, Guest}
    BY <1>1 DEF NoCall
  <1>4. Sends(p)
    <2>1. CASE ~Established(p)
      BY <1>1, <2>1 DEF Sends, Notice, Inv
    <2>2. CASE Established(p)
      <3> DEFINE n == Fin(Here(p), addr, SKeyOf(p), crp[p])
      <3>1. crp[p] = 3 \/ crp[p] = 4
        BY <2>2 DEF Established, SessionInv, Inductive, TypeOK, States
      <3>2. n.t = "FIN" /\ n.role = crp[p] /\ n.key.pe = AuxOf(p).pe /\ n.key.qe = AuxOf(p).qe
        BY DEF Fin, SKeyOf
      <3>3. Eph(p) = IF n.role = 3 THEN n.key.pe ELSE n.key.qe
        BY <3>1, <3>2, OwnRun DEF OutOpen, Originating
      <3>4. msgs' = msgs \cup {n}
        BY <1>1, <2>2 DEF Notice
      <3> HIDE DEF n
      <3> QED
        BY <1>1, <3>2, <3>3, <3>4 DEF Sends
    <2> QED
      BY <2>1, <2>2
  <1> QED
    BY <1>1, <1>2, <1>3, <1>4 DEF Effect

\* The "busy" reply and a final SYN that strays to an idle listener.
LEMMA StrayEffect ==
    ASSUME SessionInv, NEW p \in Party, NEW m \in msgs, BusyReply(p, m) \/ StrayFin(p, m)
    PROVE  Effect(p)
  <1>1. /\ UNCHANGED <<crp, cnt, call, done>>
        /\ crp[p] = 0 \/ to' = to
        /\ \A r \in Party \ {p} : to'[r] = to[r]
        /\ msgs' = msgs \/ msgs' = msgs \cup {Inv(Listener(p), m.src)}
    BY DEF BusyReply, StrayFin, SessionInv, Inductive, TypeOK
  <1>2. Moves(p) /\ Sends(p)
    BY <1>1 DEF Moves, Sends, Inv
  <1>3. call'[p].me \in {p, Guest} /\ (crp'[p] \in {-2, 2, 4} => to'[p] = call'[p].their)
    BY <1>1 DEF SessionInv, NamesInv, CallerInv
  <1>4. AuxOf(p)' = AuxOf(p)
    BY <1>1 DEF AuxOf, OutOpen, Eph
  <1> QED
    BY <1>1, <1>2, <1>3, <1>4 DEF Effect

\* -U: the request comes from the socket of the new run.
LEMMA DoReqEffect ==
    ASSUME SessionInv, NEW p \in Party, NEW q \in Party \ {p}, NEW c \in Ids,
           NEW o \in Ids, DoReq(p, q, c, o)
    PROVE  Effect(p)
  <1> DEFINE e == <<p, cnt[p] + 1>>
  <1>1. /\ crp[p] = 0 /\ crp'[p] = -1 /\ cnt'[p] = cnt[p] + 1
        /\ call'[p] = [NoCall EXCEPT !.me = o, !.contact = c]
        /\ o \in {p, Guest}
        /\ done' = done /\ msgs \subseteq msgs'
        /\ \A m \in msgs' \ msgs : m = Notice(p, to[p]) \/ m = Req(e, Listener(q), e)
        /\ \A r \in Party \ {p} : /\ crp'[r] = crp[r] /\ cnt'[r] = cnt[r]
                                  /\ to'[r] = to[r] /\ call'[r] = call[r]
    BY DEF DoReq, SessionInv, Inductive, TypeOK
  <1>2. Notice(p, to[p]).t = "INV"
    BY <1>1 DEF Notice, Established, Inv
  <1>3. /\ Req(e, Listener(q), e).t = "REQ" /\ Req(e, Listener(q), e).src = e
        /\ Req(e, Listener(q), e).eph = e /\ e[2] # 0
    <2>1. cnt[p] + 1 # 0
      BY MaxRunsAssumption DEF SessionInv, Inductive, TypeOK
    <2> QED
      BY <2>1 DEF Req
  <1>4. Sends(p)
    BY <1>1, <1>2, <1>3 DEF Sends
  <1>5. Moves(p) /\ call'[p].me \in {p, Guest}
    BY <1>1 DEF Moves, NoCall
  <1> QED
    BY <1>1, <1>4, <1>5 DEF Effect

\* The acceptor takes the run and the address of the caller from one request.
LEMMA GoReqIdleEffect ==
    ASSUME SessionInv, NEW p \in Party, NEW m \in msgs, GoReqIdle(p, m)
    PROVE  Effect(p)
  <1> DEFINE n == Req(Listener(p), m.src, <<p, cnt[p] + 1>>)
  <1>1. /\ m.t = "REQ" /\ Heard(p, m)
        /\ crp[p] = 0 /\ crp'[p] = -2 /\ cnt'[p] = cnt[p] + 1 /\ to'[p] = m.src
        /\ call'[p] = [NoCall EXCEPT !.their = m.eph]
        /\ done' = done /\ msgs' = msgs \cup {n}
        /\ \A r \in Party \ {p} : /\ crp'[r] = crp[r] /\ cnt'[r] = cnt[r]
                                  /\ to'[r] = to[r] /\ call'[r] = call[r]
    BY DEF GoReqIdle, GoReqAsRun, SessionInv, Inductive, TypeOK
  <1>2. m.dst[2] = 0
    BY <1>1 DEF Heard, AtListener, AtOutgoing, OutOpen, Originating, Listener
  <1>3. m.src[2] # 0 /\ m.eph = m.src
    BY <1>1, <1>2 DEF SessionInv, CallerInv
  <1>4. n.t = "REQ" /\ n.src[2] = 0 /\ n.dst = m.src
    BY DEF Req, Listener
  <1> HIDE DEF n
  <1>5. Sends(p)
    BY <1>1, <1>3, <1>4 DEF Sends
  <1>6. Moves(p) /\ call'[p].me \in {p, Guest} /\ to'[p] = call'[p].their
    BY <1>1, <1>3 DEF Moves, NoCall
  <1> QED
    BY <1>1, <1>5, <1>6 DEF Effect

\* The caller shows its own name, or the guest's.
LEMMA GoReqCallerEffect ==
    ASSUME SessionInv, NEW p \in Party, NEW m \in msgs, GoReqCaller(p, m)
    PROVE  Effect(p)
  <1> DEFINE pref == [id |-> call[p].me, reader |-> call[p].contact,
                      own |-> Eph(p), peer |-> m.eph, good |-> TRUE]
             n == Ans(Eph(p), to[p], Eph(p), pref)
  <1>1. /\ crp[p] = -1 /\ crp'[p] = 1 /\ call'[p].me = call[p].me
        /\ UNCHANGED <<cnt, to, done>> /\ msgs' = msgs \cup {n}
        /\ \A r \in Party \ {p} : crp'[r] = crp[r] /\ call'[r] = call[r]
    BY DEF GoReqCaller, SessionInv, Inductive, TypeOK, CallData
  <1>2. n.t = "ANS" /\ n.pref.id = call[p].me /\ n.pref.own[1] = p
    BY DEF Ans, Eph
  <1>3. call[p].me \in {p, Guest}
    BY DEF SessionInv, NamesInv
  <1> HIDE DEF n
  <1>4. Sends(p)
    BY <1>1, <1>2, <1>3 DEF Sends
  <1> QED
    BY <1>1, <1>3, <1>4 DEF Effect, Moves

\* The acceptor's steps before go_ack.
LEMMA RingingEffect ==
    ASSUME SessionInv, NEW p \in Party,
           crp[p] \in {-2, 2}, crp'[p] = 2, call'[p].their = call[p].their,
           call'[p].me \in {p, Guest},
           \A r \in Party \ {p} : crp'[r] = crp[r] /\ call'[r] = call[r],
           UNCHANGED <<cnt, to, done>>, msgs \subseteq msgs',
           \A x \in msgs' \ msgs :
               x.t = "ANS" /\ x.pref.own = Eph(p) /\ x.pref.id \in {p, Guest}
    PROVE  Effect(p)
  <1>1. Sends(p)
    BY DEF Sends, Eph
  <1>2. to'[p] = call'[p].their
    BY DEF SessionInv, CallerInv
  <1> QED
    BY <1>1, <1>2 DEF Effect, Moves

\* The prepared answer carries the acceptor's run and names the acceptor.
LEMMA AnswerName ==
    ASSUME NEW p \in Party, NEW cl, cl.me \in {p, Guest}
    PROVE  /\ Answer(p, cl).t = "ANS" /\ Answer(p, cl).pref.own = Eph(p)
           /\ Answer(p, cl).pref.id \in {p, Guest}
  BY DEF Answer, Ans

\* The acceptor is known to the caller by the key the caller's answer was for.
LEMMA GoAnsRingEffect ==
    ASSUME SessionInv, NEW p \in Party, NEW m \in msgs, GoAnsRing(p, m)
    PROVE  Effect(p)
  <1> DEFINE n == p \in AutoAnswer
             known == Recognised(p, m.pref)
             cl == [call[p] EXCEPT
                      !.me = IF known THEN m.pref.reader ELSE Guest,
                      !.contact = IF known THEN m.pref.id ELSE Guest,
                      !.spoiled = Unwanted(p, m.pref),
                      !.ready = TRUE, !.keyed = TRUE, !.consent = n]
  <1>1. /\ crp[p] = -2 /\ crp'[p] = 2
        /\ call' = [call EXCEPT ![p] = cl]
        /\ msgs' = IF p \in AutoAnswer THEN msgs \cup {Answer(p, cl)} ELSE msgs
        /\ UNCHANGED <<cnt, to, done>>
        /\ \A r \in Party \ {p} : crp'[r] = crp[r] /\ call'[r] = call[r]
    BY DEF GoAnsRing, SessionInv, Inductive, TypeOK
  <1>2. /\ call'[p] = cl /\ cl.their = call[p].their
        /\ cl.me = IF known THEN m.pref.reader ELSE Guest
    <2>1. call'[p] = cl /\ call[p] \in CallData
      BY <1>1 DEF SessionInv, Inductive, TypeOK
    <2> HIDE DEF n, known
    <2> QED
      BY <2>1 DEF CallData
  <1>3. cl.me \in {p, Guest}
    BY <1>2 DEF Recognised
  <1>4. \A x \in msgs' \ msgs :
            x.t = "ANS" /\ x.pref.own = Eph(p) /\ x.pref.id \in {p, Guest}
    <2>1. \A x \in msgs' \ msgs : x = Answer(p, cl)
      BY <1>1
    <2>2. /\ Answer(p, cl).t = "ANS" /\ Answer(p, cl).pref.own = Eph(p)
          /\ Answer(p, cl).pref.id \in {p, Guest}
      <3> HIDE DEF cl
      <3> QED
        BY <1>3, AnswerName
    <2> HIDE DEF cl
    <2> QED
      BY <2>1, <2>2
  <1>5. call'[p].their = call[p].their /\ call'[p].me \in {p, Guest} /\ msgs \subseteq msgs'
    BY <1>1, <1>2, <1>3
  <1> HIDE DEF cl
  <1> QED
    BY <1>1, <1>4, <1>5, RingingEffect

\* Enter and Esc send the prepared answer.
LEMMA DoAnsEffect ==
    ASSUME SessionInv, NEW p \in Party, Accept(p) \/ Refuse(p)
    PROVE  Effect(p)
  <1> DEFINE sp == [call[p] EXCEPT !.spoiled = TRUE]
  <1>1. /\ crp[p] = 2 /\ UNCHANGED <<crp, cnt, to, done>>
        /\ \/ /\ call' = [call EXCEPT ![p].ready = FALSE, ![p].consent = TRUE]
              /\ msgs' = msgs \cup {Answer(p, call[p])}
           \/ /\ call' = [call EXCEPT ![p] = [sp EXCEPT !.ready = FALSE, !.consent = FALSE]]
              /\ msgs' = msgs \/ msgs' = msgs \cup {Answer(p, sp)}
    BY DEF Accept, Refuse
  <1>2. call \in [Party -> CallData] /\ call[p].me \in {p, Guest}
    BY DEF SessionInv, Inductive, TypeOK, NamesInv
  <1>3. sp \in CallData /\ sp.me = call[p].me /\ sp.their = call[p].their
    BY <1>2 DEF CallData
  <1> HIDE DEF sp
  <1>4. /\ call'[p].their = call[p].their /\ call'[p].me = call[p].me
        /\ \A r \in Party \ {p} : call'[r] = call[r]
    <2>1. CASE call' = [call EXCEPT ![p].ready = FALSE, ![p].consent = TRUE]
      BY <1>2, <2>1 DEF CallData
    <2>2. CASE call' = [call EXCEPT ![p] = [sp EXCEPT !.ready = FALSE, !.consent = FALSE]]
      <3>1. /\ call'[p] = [sp EXCEPT !.ready = FALSE, !.consent = FALSE]
            /\ \A r \in Party \ {p} : call'[r] = call[r]
        BY <1>2, <2>2
      <3>2. call'[p].their = sp.their /\ call'[p].me = sp.me
        BY <1>3, <3>1 DEF CallData
      <3> QED
        BY <1>3, <3>1, <3>2
    <2> QED
      BY <1>1, <2>1, <2>2
  <1>5. msgs \subseteq msgs' /\ \A x \in msgs' \ msgs : x = Answer(p, call[p]) \/ x = Answer(p, sp)
    BY <1>1
  <1>6. \A x \in msgs' \ msgs : x.t = "ANS" /\ x.pref.own = Eph(p) /\ x.pref.id \in {p, Guest}
    BY <1>2, <1>3, <1>5, AnswerName
  <1> QED
    BY <1>1, <1>2, <1>4, <1>5, <1>6, RingingEffect

\* The caller's authenticator is made of a session: the answer it checked names
\* the party whose run it carries, or the guest.
LEMMA GoAnsCallerEffect ==
    ASSUME SessionInv, NEW p \in Party, NEW m \in msgs, GoAnsCaller(p, m)
    PROVE  Effect(p)
  <1> DEFINE n == Ack(Eph(p), to[p], OwnMac(p))
  <1>1. /\ m.t = "ANS" /\ crp[p] = 1 /\ crp'[p] = -3 /\ AnswerIsGood(p, m)
        /\ call'[p].me = call[p].me
        /\ UNCHANGED <<cnt, to, done>> /\ msgs' = msgs \cup {n}
        /\ \A r \in Party \ {p} : crp'[r] = crp[r] /\ call'[r] = call[r]
    BY DEF GoAnsCaller, SessionInv, Inductive, TypeOK, CallData
  <1>2. OutOpen(p) /\ ~call[p].spoiled /\ call[p].their[1] # p
    BY <1>1 DEF OutOpen, Originating, SessionInv, Inductive, OriginatorInv
  <1>3. /\ AuxOf(p).good /\ AuxOf(p).o = call[p].me /\ AuxOf(p).c = call[p].contact
        /\ AuxOf(p).pe = Eph(p) /\ AuxOf(p).qe = call[p].their
    BY <1>2 DEF AuxOf
  <1>4. AuxOf(p) \in Session
    <2>1. AuxOf(p) \in Aux
      BY ReadTypes DEF SessionInv, Inductive
    <2>2. call[p].me \in {p, Guest}
      BY DEF SessionInv, NamesInv
    <2>3. /\ m.pref.id = call[p].contact /\ m.pref.own = call[p].their
      BY <1>1 DEF AnswerIsGood
    <2>4. call[p].their[1] \in Party /\ call[p].contact \in {call[p].their[1], Guest}
      BY <1>1, <2>3 DEF SessionInv, NamesInv, Inductive, AnswerInv
    <2> QED
      BY <1>2, <1>3, <2>1, <2>2, <2>4 DEF Session, Eph
  <1>5. n.t = "ACK" /\ n.mac.k = AuxOf(p)
    BY DEF Ack, OwnMac
  <1> HIDE DEF n
  <1>6. Sends(p)
    BY <1>1, <1>3, <1>4, <1>5 DEF Sends
  <1>7. call'[p].me \in {p, Guest}
    BY <1>1 DEF SessionInv, NamesInv
  <1> QED
    BY <1>1, <1>6, <1>7 DEF Effect, Moves

\* The acceptor completes the session of the authenticator it checked.
LEMMA GoAckAcceptorEffect ==
    ASSUME SessionInv, NEW p \in Party, NEW m \in msgs, GoAckAcceptor(p, m)
    PROVE  Effect(p)
  <1> DEFINE n == Ack(Listener(p), to[p], OwnMac(p))
  <1>1. /\ m.t = "ACK" /\ crp[p] = 2 /\ crp'[p] = 4 /\ m.mac = PeerMac(p)
        /\ call'[p] = [call[p] EXCEPT !.keyed = FALSE]
        /\ UNCHANGED <<cnt, to>> /\ msgs' = msgs \cup {n}
        /\ done' = done \cup {Completed(p)}
        /\ \A r \in Party \ {p} : crp'[r] = crp[r] /\ call'[r] = call[r]
    BY DEF GoAckAcceptor, AckIsGood, SessionInv, Inductive, TypeOK
  <1>2. /\ call'[p].me = call[p].me /\ call'[p].their = call[p].their
        /\ call'[p].contact = call[p].contact /\ call'[p].spoiled = call[p].spoiled
    BY <1>1 DEF SessionInv, Inductive, TypeOK, CallData
  <1>3. ~OutOpen(p) /\ ~OutOpen(p)'
    BY <1>1 DEF OutOpen, Originating
  <1>4. /\ AuxOf(p).qe = Eph(p) /\ AuxOf(p).pe = call[p].their /\ call[p].their # Eph(p)
    BY <1>1, <1>3, OwnRun DEF SessionInv, Inductive, AcceptorInv
  <1>5. AuxOf(p)' = AuxOf(p)
    BY <1>1, <1>2, <1>3 DEF AuxOf, Eph
  <1>6. m \in CallerAcks /\ m.mac.k = AuxOf(p)
    BY <1>1, <1>4 DEF CallerAcks, PeerMac
  <1>7. Completed(p) = [role |-> "acc", aux |-> AuxOf(p)]
    BY <1>3 DEF Completed
  <1>8. AcceptorCompletes(p)
    BY <1>1, <1>4, <1>6, <1>7 DEF AcceptorCompletes
  <1>9. n.t = "ACK" /\ n.mac.f # n.mac.k.pe
    BY <1>4 DEF Ack, OwnMac
  <1> HIDE DEF n
  <1>10. Sends(p)
    BY <1>1, <1>9 DEF Sends
  <1>11. call'[p].me \in {p, Guest} /\ to'[p] = call'[p].their
    BY <1>1, <1>2 DEF SessionInv, NamesInv, CallerInv
  <1> QED
    BY <1>1, <1>5, <1>8, <1>10, <1>11 DEF Effect, Moves

\* The originator completes its session; the key it may reveal is no authenticator.
LEMMA GoAckCallerEffect ==
    ASSUME SessionInv, NEW p \in Party, NEW m \in msgs, GoAckCaller(p, m)
    PROVE  Effect(p)
  <1> DEFINE n == Ack(Eph(p), to[p], RevealedKey(AuxOf(p)))
  <1>1. /\ crp[p] = -3 /\ crp'[p] = 3
        /\ call'[p] = [call[p] EXCEPT !.keyed = FALSE]
        /\ UNCHANGED <<cnt, to>> /\ (msgs' = msgs \/ msgs' = msgs \cup {n})
        /\ done' = done \cup {Completed(p)}
        /\ \A r \in Party \ {p} : crp'[r] = crp[r] /\ call'[r] = call[r]
    BY DEF GoAckCaller, SessionInv, Inductive, TypeOK
  <1>2. /\ call'[p].me = call[p].me /\ call'[p].their = call[p].their
        /\ call'[p].contact = call[p].contact /\ call'[p].spoiled = call[p].spoiled
    BY <1>1 DEF SessionInv, Inductive, TypeOK, CallData
  <1>3. OutOpen(p) /\ OutOpen(p)'
    BY <1>1 DEF OutOpen, Originating
  <1>4. AuxOf(p).pe = Eph(p) /\ Eph(p) # None
    BY <1>3, OwnRun, GuestAssumption DEF Eph, None
  <1>5. AuxOf(p)' = AuxOf(p)
    BY <1>1, <1>2, <1>3 DEF AuxOf, Eph
  <1>6. Completed(p) = [role |-> "orig", aux |-> AuxOf(p)]
    BY <1>3 DEF Completed
  <1>7. OriginatorCompletes(p)
    BY <1>1, <1>4, <1>6 DEF OriginatorCompletes
  <1>8. n.t = "ACK" /\ n.mac.f # n.mac.k.pe
    BY <1>4 DEF Ack, RevealedKey
  <1> HIDE DEF n
  <1>9. Sends(p)
    BY <1>1, <1>8 DEF Sends
  <1>10. call'[p].me \in {p, Guest}
    BY <1>2 DEF SessionInv, NamesInv
  <1> QED
    BY <1>1, <1>5, <1>7, <1>9, <1>10 DEF Effect, Moves

\* A revealed key changes neither the session nor the names.
LEMMA GoAckRevealedEffect ==
    ASSUME SessionInv, NEW p \in Party, NEW m \in msgs, GoAckRevealed(p, m)
    PROVE  Effect(p)
  <1>1. /\ crp[p] = 4 /\ UNCHANGED <<crp, cnt, to, msgs, done>>
        /\ \A r \in Party \ {p} : call'[r] = call[r]
        /\ call'[p].me = call[p].me /\ call'[p].their = call[p].their
        /\ call'[p].contact = call[p].contact /\ call'[p].spoiled = call[p].spoiled
    BY DEF GoAckRevealed, SessionInv, Inductive, TypeOK, CallData
  <1>2. AuxOf(p)' = AuxOf(p)
    BY <1>1 DEF AuxOf, OutOpen, Eph
  <1>3. call'[p].me \in {p, Guest} /\ to'[p] = call'[p].their
    BY <1>1 DEF SessionInv, NamesInv, CallerInv
  <1> QED
    BY <1>1, <1>2, <1>3 DEF Effect, Moves, Sends

-----------------------------------------------------------------------------
(* Every step has such an effect.                                          *)

\* One party takes each step.
LEMMA NextEffect ==
    ASSUME SessionInv, Next
    PROVE  \E p \in Party : Effect(p)
  <1> PICK p \in Party : User(p) \/ Receive(p) \/ Timeout(p)
    BY DEF Next
  <1> SUFFICES Effect(p)
    OBVIOUS
  <1>1. to[p] \in Addr /\ \A m \in msgs : m.src \in Addr
    BY MessageFields DEF SessionInv, Inductive, TypeOK
  <1>2. CASE Hangup(p) \/ Timeout(p)
    BY <1>1, <1>2, DisconnectEffect DEF Hangup, Timeout
  <1>3. ASSUME NEW q \in Party \ {p}, NEW c \in Ids, NEW o \in Ids, DoReq(p, q, c, o)
        PROVE  Effect(p)
    BY <1>3, DoReqEffect
  <1>4. CASE Accept(p) \/ Refuse(p)
    BY <1>4, DoAnsEffect
  <1>5. ASSUME NEW m \in msgs,
               GoInv(p, m) \/ GoFin(p, m) \/ GoAnsFail(p, m) \/ GoAckFail(p, m)
        PROVE  Effect(p)
    BY <1>1, <1>5, DisconnectEffect DEF GoInv, GoFin, GoAnsFail, GoAckFail
  <1>6. ASSUME NEW m \in msgs,
               \/ BusyReply(p, m) \/ StrayFin(p, m)
               \/ GoReqIdle(p, m) \/ GoReqCaller(p, m) \/ GoAnsRing(p, m)
               \/ GoAnsCaller(p, m) \/ GoAckAcceptor(p, m) \/ GoAckCaller(p, m)
               \/ GoAckRevealed(p, m)
        PROVE  Effect(p)
    BY <1>6, StrayEffect, GoReqIdleEffect, GoReqCallerEffect, GoAnsRingEffect,
       GoAnsCallerEffect, GoAckAcceptorEffect, GoAckCallerEffect, GoAckRevealedEffect
  <1> QED
    BY <1>2, <1>3, <1>4, <1>5, <1>6 DEF User, Receive

\* A run that is past a point of the exchange stays past it.
LEMMA RunStays ==
    ASSUME TypeOK, TypeOK', NEW p \in Party, Effect(p), NEW e \in Run,
           NEW S \in {{0}, {3, 0}, {-3, 3, 0}, {4, 0}}, RunIn(e, S)
    PROVE  RunIn(e, S)'
  <1> DEFINE q == e[1]
  <1>1. /\ q \in Party /\ e[2] \in Nat /\ e[2] <= cnt[q]
        /\ cnt[q] \in Nat /\ cnt'[q] \in Nat
        /\ e[2] = cnt[q] => crp[q] \in S
    BY MaxRunsAssumption DEF RunIn, Eph, Run, TypeOK
  <1>2. CASE q # p
    BY <1>1, <1>2 DEF Effect, RunIn, Eph
  <1>3. CASE q = p /\ cnt'[p] = cnt[p] + 1
    <2>1. e[2] <= cnt'[q] /\ e[2] # cnt'[q]
      BY <1>1, <1>3
    <2> QED
      BY <1>1, <2>1 DEF RunIn, Eph
  <1>4. CASE q = p /\ cnt'[p] = cnt[p] /\ (crp[p] \in S => crp'[p] \in S)
    <2>1. e[2] = cnt'[q] => crp'[q] \in S
      BY <1>1, <1>4
    <2>2. e = <<q, cnt'[q]>> => e[2] = cnt'[q]
      OBVIOUS
    <2> QED
      BY <1>1, <1>4, <2>1, <2>2 DEF RunIn, Eph
  <1>5. cnt'[p] = cnt[p] => (crp[p] \in S => crp'[p] \in S)
    <2>1. TypeOK => cnt[p] \in Nat
      BY MaxRunsAssumption DEF TypeOK
    <2> QED
      BY <2>1 DEF Effect, Moves
  <1> QED
    BY <1>2, <1>3, <1>4, <1>5 DEF Effect, Moves

\* The run of p itself after a step that starts none.
LEMMA OwnRunIn ==
    ASSUME TypeOK, NEW p \in Party, NEW e, e = Eph(p), NEW S,
           cnt'[p] = cnt[p], crp'[p] \in S
    PROVE  RunIn(e, S)'
  BY MaxRunsAssumption DEF RunIn, Eph, TypeOK

\* The parts of a session and of a final SYN's key.
LEMMA SessionFields ==
    ASSUME NEW k \in Aux
    PROVE  k.pe \in Run /\ k.qe \in Run
  BY DEF Aux

-----------------------------------------------------------------------------
(* The conjuncts of the invariant.                                         *)

\* Names, requests and the addresses of acceptors.
LEMMA NamesStay ==
    ASSUME SessionInv, NEW p \in Party, Effect(p)
    PROVE  NamesInv' /\ CallerInv'
  <1>1. \A r \in Party : /\ call'[r].me \in {r, Guest}
                         /\ crp'[r] \in {-2, 2, 4} => to'[r] = call'[r].their
    <2> TAKE r \in Party
    <2>1. CASE r = p
      BY <2>1 DEF Effect
    <2>2. CASE r # p
      BY <2>2 DEF Effect, SessionInv, NamesInv, CallerInv
    <2> QED
      BY <2>1, <2>2
  <1>2. ASSUME NEW m \in msgs'
        PROVE  /\ m.t = "ANS" => m.pref.id \in {m.pref.own[1], Guest}
               /\ m.t = "REQ" => IF m.src[2] = 0 THEN m.dst[2] # 0 ELSE m.eph = m.src
    <2>1. CASE m \in msgs
      BY <2>1 DEF SessionInv, NamesInv, CallerInv
    <2>2. CASE m \notin msgs
      BY <1>2, <2>2 DEF Effect, Sends
    <2> QED
      BY <2>1, <2>2
  <1> QED
    BY <1>1, <1>2 DEF NamesInv, CallerInv

\* The authenticators of originators after a step: at most one session is new, and
\* its run had shown no authenticator.
LEMMA CallerAcksGrow ==
    ASSUME SessionInv, NEW p \in Party, Effect(p), NEW m \in CallerAcks'
    PROVE  \/ m \in CallerAcks
           \/ /\ crp[p] = 1 /\ crp'[p] = -3 /\ cnt'[p] = cnt[p]
              /\ m.mac.k = AuxOf(p) /\ AuxOf(p) \in Session /\ AuxOf(p).pe = Eph(p)
              /\ \A n \in CallerAcks : n.mac.k.pe # Eph(p)
  <1>1. m \in msgs' /\ m.t = "ACK" /\ m.mac.f = m.mac.k.pe
    BY DEF CallerAcks
  <1>2. CASE m \in msgs
    BY <1>1, <1>2 DEF CallerAcks
  <1>3. CASE m \notin msgs
    <2>1. /\ crp[p] = 1 /\ crp'[p] = -3 /\ cnt'[p] = cnt[p]
          /\ m.mac.k = AuxOf(p) /\ AuxOf(p) \in Session /\ AuxOf(p).pe = Eph(p)
      BY <1>1, <1>3 DEF Effect, Sends
    <2>2. \A n \in CallerAcks : n.mac.k.pe # Eph(p)
      BY <2>1 DEF SessionInv, CallerAckInv, RunIn, Eph
    <2> QED
      BY <2>1, <2>2
  <1> QED
    BY <1>2, <1>3

\* One session for one run of an originator.
LEMMA CallerAcksStay ==
    ASSUME SessionInv, TypeOK', NEW p \in Party, Effect(p)
    PROVE  CallerAckInv'
  <1>1. ASSUME NEW m \in CallerAcks'
        PROVE  m.mac.k \in Session /\ RunIn(m.mac.k.pe, {-3, 3, 0})'
    <2>1. CASE m \in CallerAcks
      <3>1. m.mac.k \in Session /\ RunIn(m.mac.k.pe, {-3, 3, 0})
        BY <2>1 DEF SessionInv, CallerAckInv
      <3>2. m.mac.k.pe \in Run
        BY <3>1, SessionFields DEF Session
      <3>3. RunIn(m.mac.k.pe, {-3, 3, 0})'
        BY <3>1, <3>2, RunStays DEF SessionInv, Inductive
      <3> QED
        BY <3>1, <3>3
    <2>2. CASE m \notin CallerAcks
      <3>1. /\ crp'[p] = -3 /\ cnt'[p] = cnt[p]
            /\ m.mac.k \in Session /\ m.mac.k.pe = Eph(p)
        BY <1>1, <2>2, CallerAcksGrow
      <3> QED
        BY <3>1, OwnRunIn DEF SessionInv, Inductive
    <2> QED
      BY <2>1, <2>2
  <1>2. ASSUME NEW m \in CallerAcks', NEW n \in CallerAcks', m.mac.k.pe = n.mac.k.pe
        PROVE  m.mac.k = n.mac.k
    <2>1. CASE m \in CallerAcks /\ n \in CallerAcks
      BY <1>2, <2>1 DEF SessionInv, CallerAckInv
    <2>2. CASE m \notin CallerAcks \/ n \notin CallerAcks
      BY <1>2, <2>2, CallerAcksGrow
    <2> QED
      BY <2>1, <2>2
  <1> QED
    BY <1>1, <1>2 DEF CallerAckInv

\* The sessions after a step of each kind.
LEMMA JoinedGrow ==
    ASSUME NEW p \in Party
    PROVE  /\ done' = done => /\ Joined("acc")' = Joined("acc")
                              /\ Joined("orig")' = Joined("orig")
           /\ AcceptorCompletes(p) => /\ Joined("acc")' = Joined("acc") \cup {AuxOf(p)}
                                      /\ Joined("orig")' = Joined("orig")
           /\ OriginatorCompletes(p) => /\ Joined("acc")' = Joined("acc")
                                        /\ Joined("orig")' = Joined("orig") \cup {AuxOf(p)}
  <1> DEFINE a == [role |-> "acc", aux |-> AuxOf(p)]
             o == [role |-> "orig", aux |-> AuxOf(p)]
  <1>1. /\ a.role = "acc" /\ a.aux = AuxOf(p)
        /\ o.role = "orig" /\ o.aux = AuxOf(p)
    OBVIOUS
  <1>2. AcceptorCompletes(p) => done' = done \cup {a}
    BY DEF AcceptorCompletes
  <1>3. OriginatorCompletes(p) => done' = done \cup {o}
    BY DEF OriginatorCompletes
  <1> HIDE DEF a, o
  <1> QED
    BY <1>1, <1>2, <1>3 DEF Joined

\* The acceptor's run is new to every session.
LEMMA AcceptorIsFresh ==
    ASSUME SessionInv, NEW p \in Party, AcceptorCompletes(p)
    PROVE  /\ AuxOf(p) \in Session
           /\ \A m \in CallerAcks : m.mac.k.pe # Eph(p)
           /\ \A k \in Joined("acc") : {k.pe, k.qe} \cap {AuxOf(p).pe, AuxOf(p).qe} = {}
  <1>1. crp[p] = 2 /\ AuxOf(p).qe = Eph(p)
    BY DEF AcceptorCompletes
  <1>2. PICK m \in CallerAcks : m.mac.k = AuxOf(p)
    BY DEF AcceptorCompletes
  <1>3. AuxOf(p) \in Session
    BY <1>2 DEF SessionInv, CallerAckInv
  <1>4. \A n \in CallerAcks : n.mac.k.pe # Eph(p)
    BY <1>1 DEF SessionInv, CallerAckInv, RunIn, Eph
  <1>5. ASSUME NEW k \in Joined("acc")
        PROVE  {k.pe, k.qe} \cap {AuxOf(p).pe, AuxOf(p).qe} = {}
    <2>1. PICK n \in CallerAcks : n.mac.k = k
      BY <1>5 DEF SessionInv, AcceptedInv
    <2>2. k.qe # Eph(p)
      BY <1>1, <1>5 DEF SessionInv, AcceptedInv, RunIn, Eph
    <2>3. k.pe # Eph(p)
      BY <1>4, <2>1
    <2>4. k.qe # AuxOf(p).pe
      BY <1>2, <1>5 DEF SessionInv, AcceptedInv
    <2>5. k.pe # AuxOf(p).pe
      <3>1. k.pe = AuxOf(p).pe => k = AuxOf(p)
        BY <1>2, <2>1 DEF SessionInv, CallerAckInv
      <3> QED
        BY <1>1, <2>2, <3>1
    <2> QED
      BY <1>1, <2>2, <2>3, <2>4, <2>5
  <1> QED
    BY <1>3, <1>4, <1>5

\* What the acceptors have joined.
LEMMA AcceptedStay ==
    ASSUME SessionInv, TypeOK', NEW p \in Party, Effect(p)
    PROVE  AcceptedInv'
  <1>1. CallerAcks \subseteq CallerAcks'
    BY DEF CallerAcks, Effect
  <1>2. ASSUME NEW k \in Joined("acc")
        PROVE  /\ \E m \in CallerAcks' : m.mac.k = k
               /\ RunIn(k.qe, {4, 0})'
               /\ \A m \in CallerAcks' : m.mac.k.pe # k.qe
    <2>1. PICK m \in CallerAcks : m.mac.k = k
      BY <1>2 DEF SessionInv, AcceptedInv
    <2>2. RunIn(k.qe, {4, 0})
      BY <1>2 DEF SessionInv, AcceptedInv
    <2>3. k.qe \in Run
      BY <2>1, SessionFields DEF SessionInv, CallerAckInv, Session
    <2>4. RunIn(k.qe, {4, 0})'
      BY <2>2, <2>3, RunStays DEF SessionInv, Inductive
    <2>5. ASSUME NEW n \in CallerAcks', n \notin CallerAcks
          PROVE  n.mac.k.pe # k.qe
      <3>1. crp[p] = 1 /\ n.mac.k.pe = Eph(p)
        BY <2>5, CallerAcksGrow
      <3>2. k.qe # Eph(p)
        BY <2>2, <3>1 DEF RunIn, Eph
      <3> QED
        BY <3>1, <3>2
    <2>6. \A n \in CallerAcks : n.mac.k.pe # k.qe
      BY <1>2 DEF SessionInv, AcceptedInv
    <2> QED
      BY <1>1, <2>1, <2>4, <2>5, <2>6
  <1>3. CASE AcceptorCompletes(p)
    <2>1. Joined("acc")' = Joined("acc") \cup {AuxOf(p)}
      BY <1>3, JoinedGrow
    <2>2. /\ AuxOf(p).qe = Eph(p) /\ crp[p] = 2 /\ crp'[p] = 4 /\ cnt'[p] = cnt[p]
          /\ \E m \in CallerAcks : m.mac.k = AuxOf(p)
      BY <1>3 DEF AcceptorCompletes
    <2>3. ASSUME NEW k, k = AuxOf(p)
          PROVE  RunIn(k.qe, {4, 0})'
      BY <2>2, <2>3, OwnRunIn DEF SessionInv, Inductive
    <2>4. \A m \in CallerAcks' : m.mac.k.pe # AuxOf(p).qe
      <3>1. \A m \in CallerAcks' : m \in CallerAcks
        BY <2>2, CallerAcksGrow
      <3> QED
        BY <1>3, <2>2, <3>1, AcceptorIsFresh
    <2>5. \A k \in Joined("acc") : k.qe # AuxOf(p).qe
      BY <1>3, AcceptorIsFresh
    <2>6. ASSUME NEW k \in Joined("acc")', NEW l \in Joined("acc")', k.qe = l.qe
          PROVE  k = l
      BY <2>1, <2>5, <2>6 DEF SessionInv, AcceptedInv
    <2>7. ASSUME NEW k \in Joined("acc")'
          PROVE  /\ \E m \in CallerAcks' : m.mac.k = k
                 /\ RunIn(k.qe, {4, 0})'
                 /\ \A m \in CallerAcks' : m.mac.k.pe # k.qe
      BY <1>1, <1>2, <2>1, <2>2, <2>3, <2>4
    <2> QED
      BY <2>6, <2>7 DEF AcceptedInv
  <1>4. CASE ~AcceptorCompletes(p)
    <2>1. Joined("acc")' = Joined("acc")
      BY <1>4, JoinedGrow DEF Effect
    <2> QED
      BY <1>2, <2>1 DEF SessionInv, AcceptedInv
  <1> QED
    BY <1>3, <1>4

\* What the originators have joined, and the two ends of a call.
LEMMA ConnectedStay ==
    ASSUME SessionInv, TypeOK', NEW p \in Party, Effect(p)
    PROVE  ConnectedInv'
  <1>1. ASSUME NEW k \in Joined("orig")'
        PROVE  RunIn(k.pe, {3, 0})'
    <2>1. CASE k \in Joined("orig")
      <3>1. RunIn(k.pe, {3, 0})
        BY <2>1 DEF SessionInv, ConnectedInv
      <3>2. k.pe \in Run
        BY <2>1, SessionFields DEF SessionInv, Inductive, TypeOK, Joined
      <3> QED
        BY <3>1, <3>2, RunStays DEF SessionInv, Inductive
    <2>2. CASE k \notin Joined("orig")
      <3>1. OriginatorCompletes(p) /\ k = AuxOf(p)
        BY <1>1, <2>2, JoinedGrow DEF Effect
      <3>2. crp'[p] = 3 /\ cnt'[p] = cnt[p] /\ k.pe = Eph(p)
        BY <3>1 DEF OriginatorCompletes
      <3> QED
        BY <3>2, OwnRunIn DEF SessionInv, Inductive
    <2> QED
      BY <2>1, <2>2
  <1>2. Joined("acc") \subseteq Joined("acc")' /\ Joined("orig") \subseteq Joined("orig")'
    BY JoinedGrow DEF Effect
  <1>3. ASSUME NEW r \in Party, r # p
        PROVE  /\ crp'[r] = 3 => AuxOf(r)' \in Joined("orig")'
               /\ crp'[r] = 4 => AuxOf(r)' \in Joined("acc")'
    <2>1. crp'[r] = crp[r] /\ AuxOf(r)' = AuxOf(r)
      BY <1>3 DEF Effect, AuxOf, OutOpen, Eph
    <2>2. /\ crp[r] = 3 => AuxOf(r) \in Joined("orig")
          /\ crp[r] = 4 => AuxOf(r) \in Joined("acc")
      BY DEF SessionInv, ConnectedInv
    <2> QED
      BY <1>2, <2>1, <2>2
  <1>4. /\ crp'[p] = 3 => AuxOf(p)' \in Joined("orig")'
        /\ crp'[p] = 4 => AuxOf(p)' \in Joined("acc")'
    <2>1. CASE crp'[p] = crp[p]
      <3>1. crp[p] \in {3, 4} => AuxOf(p)' = AuxOf(p)
        BY <2>1 DEF Effect
      <3>2. /\ crp[p] = 3 => AuxOf(p) \in Joined("orig")
            /\ crp[p] = 4 => AuxOf(p) \in Joined("acc")
        BY DEF SessionInv, ConnectedInv
      <3> QED
        BY <1>2, <2>1, <3>1, <3>2
    <2>2. CASE crp'[p] # crp[p] /\ crp'[p] \in {3, 4}
      <3>1. AuxOf(p)' = AuxOf(p) /\ (AcceptorCompletes(p) \/ OriginatorCompletes(p))
        BY <2>2 DEF Effect
      <3>2. /\ AcceptorCompletes(p) => crp'[p] = 4
            /\ OriginatorCompletes(p) => crp'[p] = 3
        BY DEF AcceptorCompletes, OriginatorCompletes
      <3> QED
        BY <3>1, <3>2, JoinedGrow
    <2> QED
      BY <2>1, <2>2
  <1> QED
    BY <1>1, <1>3, <1>4 DEF ConnectedInv

\* The final SYNs.
LEMMA FinStay ==
    ASSUME SessionInv, TypeOK', NEW p \in Party, Effect(p)
    PROVE  FinInv'
  <1> SUFFICES ASSUME NEW m \in msgs', m.t = "FIN"
               PROVE  RunIn(IF m.role = 3 THEN m.key.pe ELSE m.key.qe, {0})'
    BY DEF FinInv
  <1> DEFINE e == IF m.role = 3 THEN m.key.pe ELSE m.key.qe
  <1>1. e \in Run
    BY MessageFields DEF TypeOK, SKey
  <1>2. CASE m \in msgs
    <2>1. RunIn(e, {0})
      BY <1>2 DEF SessionInv, FinInv
    <2> HIDE DEF e
    <2>2. RunIn(e, {0})'
      BY <1>1, <2>1, RunStays DEF SessionInv, Inductive
    <2> QED
      BY <2>2 DEF e
  <1>3. CASE m \notin msgs
    <2>1. crp'[p] = 0 /\ cnt'[p] = cnt[p] /\ Eph(p) = e
      BY <1>3 DEF Effect, Sends
    <2> HIDE DEF e
    <2>2. RunIn(e, {0})'
      BY <2>1, OwnRunIn DEF SessionInv, Inductive
    <2> QED
      BY <2>2 DEF e
  <1> QED
    BY <1>2, <1>3

-----------------------------------------------------------------------------
(* The theorems.                                                           *)

\* Nobody has a run, a session or a datagram.
LEMMA InitSessions == Init => SessionInv
  <1> SUFFICES ASSUME Init PROVE SessionInv
    OBVIOUS
  <1>1. Inductive
    BY InitInductive
  <1>2. \A p \in Party : crp[p] = 0 /\ call[p].me = Guest
    BY DEF Init, NoCall
  <1>3. CallerAcks = {} /\ Joined("acc") = {} /\ Joined("orig") = {}
    BY DEF Init, CallerAcks, Joined
  <1> QED
    BY <1>1, <1>2, <1>3 DEF Init, SessionInv, NamesInv, CallerInv, CallerAckInv,
       AcceptedInv, ConnectedInv, FinInv

\* Every step keeps the invariant.
LEMMA NextSessions == SessionInv /\ [Next]_vars => SessionInv'
  <1> SUFFICES ASSUME SessionInv, [Next]_vars PROVE SessionInv'
    OBVIOUS
  <1>1. Inductive'
    BY NextInductive DEF SessionInv
  <1>2. CASE Next
    <2> PICK p \in Party : Effect(p)
      BY <1>2, NextEffect
    <2>1. TypeOK'
      BY <1>1 DEF Inductive
    <2> QED
      BY <1>1, <2>1, NamesStay, CallerAcksStay, AcceptedStay, ConnectedStay, FinStay
      DEF SessionInv
  <1>3. CASE UNCHANGED vars
    <2>1. UNCHANGED <<CallerAcks, Joined("acc"), Joined("orig")>>
      BY <1>3 DEF vars, CallerAcks, Joined
    <2>2. \A p \in Party : AuxOf(p)' = AuxOf(p)
      BY <1>3 DEF vars, AuxOf, OutOpen, Eph
    <2>3. \A e, S : RunIn(e, S)' <=> RunIn(e, S)
      BY <1>3 DEF vars, RunIn, Eph
    <2>4. NamesInv' /\ CallerInv' /\ FinInv'
      BY <1>3, <2>3 DEF vars, SessionInv, NamesInv, CallerInv, FinInv
    <2>5. CallerAckInv' /\ AcceptedInv'
      BY <2>1, <2>3 DEF SessionInv, CallerAckInv, AcceptedInv
    <2>6. ConnectedInv'
      BY <1>3, <2>1, <2>2, <2>3 DEF vars, SessionInv, ConnectedInv
    <2> QED
      BY <1>1, <2>4, <2>5, <2>6 DEF SessionInv
  <1> QED
    BY <1>2, <1>3

\* Agreement, in terms of sessions, before a step and after it.
LEMMA OriginatedAccepted ==
    /\ Agreement => Joined("orig") \subseteq Joined("acc")
    /\ Agreement' => Joined("orig")' \subseteq Joined("acc")'
  <1>1. ASSUME NEW D, \A r \in D : r.role = "orig" => [role |-> "acc", aux |-> r.aux] \in D,
               NEW r \in D, r.role = "orig"
        PROVE  \E x \in D : x.role = "acc" /\ x.aux = r.aux
    <2> DEFINE x == [role |-> "acc", aux |-> r.aux]
    <2>1. x \in D /\ x.role = "acc" /\ x.aux = r.aux
      BY <1>1
    <2> QED
      BY <2>1
  <1>2. ASSUME Agreement PROVE Joined("orig") \subseteq Joined("acc")
    BY <1>1, <1>2 DEF Agreement, Joined
  <1>3. ASSUME Agreement' PROVE Joined("orig")' \subseteq Joined("acc")'
    BY <1>1, <1>3 DEF Agreement, Joined
  <1> QED
    BY <1>2, <1>3

\* The invariant holds in every state of every behaviour.
THEOREM AlwaysSessions == Spec => []SessionInv
  BY InitSessions, NextSessions, PTL DEF Spec

\* The two ends of an established call that send to each other's address hold the
\* same session key and know each other by the right names, whatever other calls,
\* refusals, repeated or delayed datagrams came before.
THEOREM EndsMatchHolds == Spec => []EndsMatch
  <1>1. SessionInv => EndsMatch
    <2> SUFFICES ASSUME SessionInv, NEW p \in Party, NEW q \in Party,
                        crp[p] = 3, crp[q] = 4, to[q] = Eph(p)
                 PROVE  SKeyOf(p) = SKeyOf(q) /\ AuxOf(p) = AuxOf(q)
      BY DEF EndsMatch
    <2>1. AuxOf(p) \in Joined("orig") /\ AuxOf(q) \in Joined("acc")
      BY DEF SessionInv, ConnectedInv
    <2>2. AuxOf(p) \in Joined("acc")
      BY <2>1, OriginatedAccepted DEF SessionInv, Inductive
    <2>3. AuxOf(p).pe = Eph(p) /\ AuxOf(q).pe = Eph(p)
      BY OwnRun DEF SessionInv, CallerInv, OutOpen, Originating
    <2>4. PICK m \in CallerAcks : m.mac.k = AuxOf(p)
      BY <2>2 DEF SessionInv, AcceptedInv
    <2>5. PICK n \in CallerAcks : n.mac.k = AuxOf(q)
      BY <2>1 DEF SessionInv, AcceptedInv
    <2>6. AuxOf(p) = AuxOf(q)
      BY <2>3, <2>4, <2>5 DEF SessionInv, CallerAckInv
    <2> QED
      BY <2>6 DEF SKeyOf
  <1> QED
    BY <1>1, AlwaysSessions, PTL

\* A final SYN that an established party would take for its peer's hangup has been
\* sent by a peer that is not in the call any more: no delayed or repeated datagram
\* of this or of an earlier call ends it.
THEOREM FinMeansLeftHolds == Spec => []FinMeansLeft
  <1>1. SessionInv => FinMeansLeft
    <2> SUFFICES ASSUME SessionInv, NEW m \in msgs, NEW p \in Party, m.t = "FIN",
                        Established(p), m.key = SKeyOf(p), m.role = crp[p]
                 PROVE  FALSE
      BY DEF FinMeansLeft
    <2>1. crp[p] = 3 \/ crp[p] = 4
      BY DEF Established, SessionInv, Inductive, TypeOK, States
    <2>2. (IF m.role = 3 THEN m.key.pe ELSE m.key.qe) = Eph(p)
      BY <2>1, OwnRun DEF SKeyOf, OutOpen, Originating
    <2>3. RunIn(Eph(p), {0})
      BY <2>2 DEF SessionInv, FinInv
    <2> QED
      BY <2>1, <2>3 DEF RunIn, Eph
  <1> QED
    BY <1>1, AlwaysSessions, PTL

\* The key exchange implements KeyAgreement: each step of it joins one session, the
\* acceptor's side first and with fresh runs, then the originator's, or none.
THEOREM Implementation == Spec => ImplementsKeyAgreement
  <1>1. Init => Keyed!Init
    BY DEF Init, Keyed!Init, Joined
  <1>2. SessionInv /\ SessionInv' /\ [Next]_vars =>
            [Keyed!Next]_<<Joined("acc"), Joined("orig")>>
    <2> SUFFICES ASSUME SessionInv, SessionInv', [Next]_vars
                 PROVE  [Keyed!Next]_<<Joined("acc"), Joined("orig")>>
      OBVIOUS
    <2>1. CASE UNCHANGED vars
      BY <2>1 DEF vars, Joined
    <2>2. ASSUME NEW p \in Party, Effect(p)
          PROVE  [Keyed!Next]_<<Joined("acc"), Joined("orig")>>
      <3>1. CASE done' = done
        BY <3>1, JoinedGrow
      <3>2. CASE AcceptorCompletes(p)
        <4>1. PICK s : s = AuxOf(p)
          OBVIOUS
        <4>2. s \in Session /\ Keyed!Fresh(s) /\ s \notin Joined("acc")
          <5>1. s \in Session /\ Keyed!Fresh(s)
            BY <3>2, <4>1, AcceptorIsFresh DEF Keyed!Fresh
          <5> QED
            BY <5>1 DEF Keyed!Fresh
        <4>3. Joined("acc")' = Joined("acc") \cup {s} /\ Joined("orig")' = Joined("orig")
          BY <3>2, <4>1, JoinedGrow
        <4>4. Keyed!AcceptorJoins(s)
          BY <4>2, <4>3 DEF Keyed!AcceptorJoins
        <4>5. s \in Joined("acc")' \ Joined("acc")
          BY <4>2, <4>3
        <4> QED
          BY <4>2, <4>4, <4>5 DEF Keyed!Next
      <3>3. CASE OriginatorCompletes(p)
        <4>1. PICK s : s = AuxOf(p)
          OBVIOUS
        <4>2. Joined("acc")' = Joined("acc") /\ Joined("orig")' = Joined("orig") \cup {s}
          BY <3>3, <4>1, JoinedGrow
        <4>3. s \in Joined("acc")
          <5>1. s \in Joined("orig")'
            BY <4>2
          <5>2. s \in Joined("acc")'
            BY <5>1, OriginatedAccepted DEF SessionInv, Inductive
          <5> QED
            BY <4>2, <5>2
        <4>4. s \notin Joined("orig")
          BY <3>3, <4>1 DEF OriginatorCompletes, SessionInv, ConnectedInv, RunIn, Eph
        <4>5. Keyed!OriginatorJoins(s)
          BY <4>2, <4>3, <4>4 DEF Keyed!OriginatorJoins
        <4>6. s \in Joined("orig")' \ Joined("orig")
          BY <4>2, <4>4
        <4> QED
          BY <4>5, <4>6 DEF Keyed!Next
      <3> QED
        BY <2>2, <3>1, <3>2, <3>3 DEF Effect
    <2> QED
      BY <2>1, <2>2, NextEffect
  <1> QED
    BY <1>1, <1>2, AlwaysSessions, PTL DEF Spec, ImplementsKeyAgreement, Keyed!Spec
=============================================================================

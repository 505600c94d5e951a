---------------------------- MODULE MCServices ----------------------------
(***************************************************************************)
(* The services of an established call, side by side: the switch to UDP,   *)
(* the password, key transfer, recording and playing.  They share no       *)
(* state, so each behaviour moves one of them.                             *)
(***************************************************************************)
EXTENDS UdpSwitch, PasswordAuth, KeyTransfer, VoiceTx, JitterRing, TLC

VARIABLE focus  \* the service that moves

Services == {"switch", "password", "key", "record", "play"}

\* A phone has the keys of bob and of bobby, who changed his.
KeyParts == [bob |-> 2, bobby1 |-> 1, bobby2 |-> 2]
KeyRest == [bob |-> 20, bobby1 |-> 400, bobby2 |-> 60]
KeyNick == [bob |-> "bob", bobby1 |-> "bobby", bobby2 |-> "bobby"]
NickBegins == [bob |-> {"bob", "bobby"}, bobby |-> {"bobby"}]

Symmetry == Permutations(Ends)

allVars == <<focus, vars, authVars, keyVars, txVars, ringVars>>

\* What does not move starts in one state only.
ServicesInit ==
    /\ focus \in Services
    /\ Init /\ AuthInit /\ KeyInit /\ TxInit /\ RingInit
    /\ focus # "switch" => path = "int"
    /\ focus # "password" => password = [e \in Ends |-> Short]
    /\ focus # "record" => mic.need = Max(Needs)

ServicesNext ==
    /\ UNCHANGED focus
    /\ \/ focus = "switch" /\ Next /\ UNCHANGED <<authVars, keyVars, txVars, ringVars>>
       \/ focus = "password" /\ AuthNext /\ UNCHANGED <<vars, keyVars, txVars, ringVars>>
       \/ focus = "key" /\ KeyNext /\ UNCHANGED <<vars, authVars, txVars, ringVars>>
       \/ focus = "record" /\ TxNext /\ UNCHANGED <<vars, authVars, keyVars, ringVars>>
       \/ focus = "play" /\ RingNext /\ UNCHANGED <<vars, authVars, keyVars, txVars>>

ServicesSpec == ServicesInit /\ [][ServicesNext]_allVars

\* The types of the five services, and what the proofs need besides the properties: an
\* exchange of passwords goes on, the temporary key file has what was read since the last
\* KEYLAST, push-to-talk is timed, the ring is filled without a gap even after it was
\* overwritten and l_pkt_buf never counts more than waits, and what comes over Tor brings an
\* end up to its peer or tells it to leave UDP.
ServicesInv ==
    /\ AuthTypeOK /\ KeyTypeOK /\ TxTypeOK /\ RingTypeOK
    /\ SwitchInv /\ Pending /\ TempInv /\ PttTimed
    /\ \E w \in 0 .. MAX_PKT : FilledTo(ring, w)
    /\ Unwrapped(ring.total) <= Samples(ring, Slot)
=============================================================================

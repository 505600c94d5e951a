# OnionPhone in TLA+

OnionPhone is a serverless voice-over-IP program.  Two phones call each other
over direct UDP, over direct TCP, or over Tor hidden services, where a call may
use two channels at once and may later move to UDP through NAT.  The phones
authenticate each other with long-term Curve25519 keys from an address book,
hide who calls whom, and encrypt voice, chat and keys under a session key.

The program is a single-threaded loop (`oph.c: main`): each turn plays sound,
records sound, reads at most one packet, and reads at most one command.  All the
concurrency is between phones, their users, the clock and the network.

## Inventory

| component | state | operations | talks to |
|---|---|---|---|
| Key exchange, `crypto.c` | `crp_state`, keys and nonces, `answer[]`, `aux_key`, `session_key` | `do_req go_req go_ans do_ans go_ack`, `reset_crp` | connection manager (send, `disconnect`), address book, console |
| Counters, `crypto.c` | `in_ctr`, `out_ctr`, `bad_mac` | `do_data go_data do_syn go_syn`, the resynchronisation in `do_read` | every packet after the exchange |
| Connection manager, `tcp.c` | four sockets and their flags, `saddrUDPTo`, `con_time`, `d_flg`, `msgbuf` | `do_connect connectudp connecttcp connecttor tcpaccept do_read do_send sock_close disconnect settimeout` | all |
| Onion doubling, `tcp.c` | `rc_cnt rc_in rc_out rc_state rc_level`, `their_onion` | `init_dbl reset_dbl reconecttor checkdouble` | connection manager, chat `-W` |
| Tor/UDP switch, `tcp.c` | `u_cnt`, four external and internal addresses | `do_stun do_nat setaddr stopudp`, the NAT daemon of `do_read` | chat `-S -U -O` |
| Password authentication, `crypto.c` | `password`, `au_data` | `do_au go_aureq go_auans go_auack` | started by `go_ack` or `-P` |
| Key transfer, `crypto.c` | files `F`, `F1` | `do_key go_key`, `cntrls.c: sendkey` | chat-like packets |
| Voice, `codecs.c` | transmit flags, ring of decoded packets | `switch_tx off_tx push_ptt go_vad do_snd go_snd` | main loop |
| Console and web, `cntrls.c`, `tcp.c` | command line, `-` commands | `do_char parsecmd doptt goesc webaccept readweb` | calls all of the above |
| Address book, `crypto.c`, `libaddkey` | text files | `search_bookstr get_bookstr get_key get_seckey` | key exchange |
| Codecs, audio drivers, primitives | | | vendored or pure computation |

What is hard: UDP loses, repeats, delays and reorders; users refuse, hang up and
call at any moment; a timeout can fire between any two steps; the listener
serves strangers and the current peer on one socket; state of an earlier call
is left in places; packets are numbered by counters of which only seven bits
travel; over Tor every packet travels twice.  `PROJECT.json` lists these hazards
line by line, with the properties that cover them.

What makes each component correct: the exchange keys both ends alike or not at
all, connects nobody the user did not accept, and always ends; counters that
drifted apart get back together and are never driven further apart; doubling
delivers each packet once and in order; a switch leaves both ends on the same
transport; a timeout, a retry or an error never leaves half a call.

## Modules

`Ike.tla` - the key exchange over direct UDP, for any set of phones.

* State: `crp` is `crp_state` (0, -1, 1, -3, 3 for the originator; 0, -2, 2, 4
  for the acceptor), `to` is `saddrUDPTo`, `inUse` is the listener's `SOCK_INUSE`,
  `call` is what `reset_crp` clears.  `cnt` counts runs: one execution of `do_req`
  or `go_req` draws both DH pairs, the nonce and the commitment (and `connectudp`
  the random port), so one pair `<<party, number>>` stands for all of them.
* `msgs` keeps every datagram ever sent.  A datagram may be read at any time, any
  number of times or never: loss, repetition, delay and reordering in one set.
* Symbolic cryptography: a hash is the record of what is hashed; a value
  overwritten by `randFetch` has `good = FALSE` and equals nothing a peer computes.
  The roles are in the fields: K = H(A^q|P^b|P^q) is `Aux`, the hidden identity
  PREF is `Pref`, the authenticator `Mac`, the session key `SKey`.
* Actions: one per branch of a handler.  The checks that `readudpin` and
  `readudpout` make of a datagram's sender are `Heard` and `Busy`; `disconnect()`
  with its notice (a final SYN when `crp_state > 2`, a zeroed invite otherwise) is
  part of every action that calls it.  A rejected caller is served with random
  keys to the end, as in the code.
* Symbolic identities mean no accidental collisions: a 16-byte hash or a 2-byte
  random port is taken to be new.

`KeyAgreement.tla` - what the exchange promises: a session is a pair of
identities and a pair of runs; its acceptor joins first, its originator second,
and no run is ever in two sessions.  `Ike` implements it, with `accepted` and
`originated` mapped to what acceptors and originators have completed.

`IkeInv.tla` - the inductive invariants: `Inductive` for `Agreement` and
`OnlyWantedCallers`, and `SessionInv`, which contains it, for the refinement.
`IkeProofs.tla` proves both.

`CounterSync.tla` - one direction of an established call over UDP.  `out` is the
sender's `out_ctr`; `in` and `bad` are the receiver's `in_ctr` and `bad_mac`; a
packet is its number, and `Guess` is the arithmetic of `go_data` on the low bits.
The MAC tells whether the guess is right.  `held` are packets that the network
delays or repeats, `syns` the counters shown by SYNs on their way.  `Resync` is the
branch of `do_read` that adds 128; it is taken before the next packet is read
(`Reading`), except on the turn that computes the bitrate (`Slip`).  `BadLeft` is
what an earlier call left in `bad_mac`, which `reset_crp` does not clear.  `lost`,
`rejected` and `newest` are history variables.  What `Resync` sends is left out: it
is a SYN *answer* (type byte 0x98, MAC wrong), which carries the receiver's own
`out_ctr` and so is a `DoSyn` of the other direction.

`CounterSyncProofs.tla` - proofs about it.

`Doubling.tla` - an established call over Tor, both ends and both connections.

* State: `end[e]` is what one end knows: its sockets with their flags (`out` is
  `tcp_outsock`, `in` is `tcp_insock`; `WAIT` stands for all steps of SOCKS5), both
  counters, `bad_mac`, and the measurement (`rc_cnt`, `rc_in`, `rc_out`).  `wire[c][e]` is what
  connection `c` still has to bring to `e`, in order; `backlog` are connections that
  Tor has made and `tcpaccept` has not seen.  `upsets` is a history variable, and so is
  `blind`: by how much an end has moved in_ctr blindly since it last took it from its partner.
* The handlers are functions of a *situation*, one end and all wires, because they
  call each other: `sock_close` calls `disconnect`, `go_data` calls `go_chat`, which
  calls `reconecttor`, which calls `connecttor`, which closes a socket, and so on.
  An action is one call made in a turn of the main loop, with all it calls.
* `close()` lets what was sent before arrive and loses what the closing side has not
  read; `Break` loses any last part of both directions.  Nothing is carried once
  either side has closed.
* A dialling that ends when the incoming connection is gone is taken for the first
  of a call: `do_req` resets the one that goes on.  If `command_str` still holds a
  call command a request follows (`Redial`), otherwise it disconnects (`NoRedial`);
  either may be the case at either end, which may have called before.
* An end that is out of the call accepts, times out and closes; what it does in a
  further call is left to `Ike`.  Both onion addresses are set and `onion_flag` is, and
  the call has not been switched to UDP (`u_cnt = 0`).
* Over TCP each copy of a packet but the first is rejected, and counted by `bad_mac`.
  `Restore` is the branch of `do_read` that moves in_ctr by 128 after too many rejections and
  emulates a SYN: `go_syn` finds no counter in it that is ahead, and its answer goes out
  over both sockets.  It comes before anything else is read (`Reading`), except on the
  turn that computes the bitrate (`Slip`).  `disconnect` does not clear `bad_mac`.
* What `tcpaccept` sends in place of the zeroed invite, 13 bytes from the address of `ll`,
  is read as one rejected packet (`Junk`), though its last bytes may begin another one.
* Left out: `do_send`'s errors other than those of a closed connection.

`DoublingProofs.tla` - proofs about its counters, its connections and the one that is
kept; the invariants of the first two, `CountersInv` and `ConnectionsInv`, together
`DoublingInv`, stand in the module itself, that of the third, `OneKept`, with the proofs.

`UdpSwitch.tla` - the switch of an established Tor call to direct UDP, and back.

* State: `end[e]` is what one end knows: `udp_outsock` (its number; each socket has
  a random port, so an address is a socket and a way to it), its flag, `saddrUDPTo`,
  `u_cnt`, the two addresses it was told (`int`, `ext`), whether a STUN answer is on
  its way, and both counters.  `tcp[e]` is what Tor still has to bring to `e`, in order;
  `udp[e]` are datagrams, lost, delayed and read in any order.  `path` says whether the
  network carries datagrams to internal or to external addresses; networks that carry
  both are not modelled.  `notes` and the counts are history variables.
* Actions: `DoNat` (-S, with or without a STUN server), `StunAnswer`, `NatSyn` (the NAT
  daemon: one SYN to the internal address, then to the external one, and nothing more
  when `u_cnt` is 0), `HearSyn`, `HearVoice`, `HearTor` (`go_data`, `go_chat` with -U, -S, -O,
  `go_syn`), `CommandO` with `stopudp`, `SocketFails` (`sock_close(-1)`), `Talk`.
* `go_data` takes exactly the next packet over Tor.  Over UDP seven bits of the counter
  tell its number; that they do is the subject of `CounterSync`, and the few packets
  here are always within the window.
* An end that answers an answer sends an echo whose counter a MAC has overwritten
  (`go_syn` writes into the packet): the receiver can tell it from nothing valid, and
  its only effect is to be heard.

`PasswordAuth.tla` - authentication by a password, `pass|p|q` at one end and `pass|q|p`
at the other.  A password is a stem and two characters; the three packets show a
stem, or a stem and one character, and both ends may start at any time, with new
passwords, while packets made from old ones are on their way.  `verdicts` is what was
printed since the last password was typed; `mixed` and `lost` are history variables.

`KeyTransfer.tla` - sending public keys.  A key file is a sequence of packets without
numbers, the last of which carries the hash; `temp` and `f1` are the temporary file and
the handle `F1`, `book` and `file` the address book and the key files of the receiver.
The network loses, reorders and repeats packets, and the call may end in the middle.

`VoiceTx.tla` - which recorded frames are sent.  `mic` has the names of the code's flags:
`tx`, `etx`, `vad_t`, `ptt_flag` (as time left, a frame being the unit), `l_in`, `snd_need`,
`tx_note`, `Vad_cnt`.  One action per command, one per frame (`playjit`'s timer and
`do_snd` together, as in a turn), and the ways a call begins and ends.

`JitterRing.tla` - the ring of packets between the network and the sound device.  What
the device takes is nondeterministic; `Turned` are the states `playjit` and the decoding
loop at the head of `go_snd` can leave.  `l_pkt_buf` is a short and wraps (`Wrap`); `over` is
a history variable: more samples waited than a short counts, and the ring has not been
empty since.

`MCIke.tla`, `MCCounterSync.tla`, `MCDoubling.tla`, `MCServices.tla`, `MCUdpSwitch.tla` - the
instances TLC checks.  `MCServices` puts the five services side by side: they share no
variables (in the code: `u_cnt` and sockets, `password`, `F1`, transmit flags, the ring), so
one of them, `focus`, moves in each behaviour, and the others stay in one initial state.

`UdpSwitchProofs.tla`, `PasswordAuthProofs.tla`, `KeyTransferProofs.tla`, `VoiceTxProofs.tla`,
`JitterRingProofs.tla` - proofs about the five.  Their inductive invariants stand at the
end of the modules themselves, where `MCServices` can check them.

## Runs

| run | what | bounds | result |
|---|---|---|---|
| `ike` | two phones, both directions, guests ignored by one, automatic answer, revealed key; safety, refinement and `Settles` | 2 runs per phone, 99 181 states | passes |
| `ike_three` | three phones, incomplete address books, an ignored contact | 1 run per phone, 78 785 states | passes |
| `ike_reveal` | `Key_reveal=1` | 1 run per phone | violated: finding 1 |
| `counter_sync` | losses, one SYN | window 16, 48 packets, SYN or copy at most 2 packets old, 660 000 states | passes |
| `counter_late` | losses, late and repeated packets, bitrate turns | window 16, 44 packets, 2 held, 3 packets late, 1.3 million states | passes |
| `counter_melpe` | MELPE packets: window 4, the real constants otherwise | 120 packets | violated: finding 2 |
| `counter_syn` | a SYN while a resynchronisation is nearly due | window 16, 46 packets | violated: finding 3 |
| `counter_stale` | `bad_mac` left at 65 by an earlier call, the real constants | 120 packets | violated: finding 4 |
| `doubling` | the originator measures; one command or one broken connection at any moment | 2 packets each, 4 diallings each, `rc_level` 1, a blind move by 2 after 2 rejections, 170 588 states | passes |
| `doubling_both` | both ends measure, nothing breaks | 4 packets each, `rc_level` 2 | violated: finding 5 |
| `services` | the switch to UDP and back, passwords, keys, recording, playing | see below; 1 539 467 states | passes |
| `udp_oneway` | both ends switch, nothing fails, nobody stops | 2 SYNs per end, one -S each, one datagram on its way | violated: finding 6 |

Why the bounds are enough.  Two runs per phone let a call be abandoned at any
point and be followed by another one that meets the datagrams of the first, in
both directions (glare included).  Three phones let a stranger disturb a call
and make the names that two phones have for each other differ.  The window of 16
keeps the proportions of the code: it reaches back one less than half of it
(63 of 128), a resynchronisation starts after half a window (64) and moves the
counter by a whole one (128); 44 and more packets are enough for two
resynchronisations in a row.  `CHECK_DEADLOCK FALSE` is set because a call may be
over for good: runs and packets are bounded, and phones may stay idle.
`rc_level` (`Tor_doubling=500` in `conf.txt`) and the 5 of `reconecttor` are scaled down: what matters
is that two packets can make a connection the slower one, that half the level
stays above `Near` in the run where both measure, and that a whole replacement
(measure, `-W`, dial, accept, invites, both in use) fits, with packets before, during
and after it.  So are the constants of the blind move (64, 60 and 128 in the code, and in
`doubling_both`): with a limit of 1 and a step of 2 an end moves its counter once or
twice, beyond what has been sent, and its partner's counter, shown by a packet or a SYN,
may reach it again.  With three packets each (`MaxOut = 3`, steps 1, 2 and 3) the properties
of the run hold, too, in 3.7 million states; that takes longer than a regular run should.
The end that does not measure has a level it never reaches, so that
doubling is allowed and it asks for nothing.  One upset meets every state of
that.  `NeverDeaf` holds with two, too (3.6 million states, again no regular run); the other
properties of this run are proved for any number.

In `services` each end may command -S once and sends 2 SYNs (one to each address, 30 in
the code), -O is commanded once by anybody, one socket fails, each end talks once, and
two datagrams are held on each way: enough for a SYN and its answer to pass voice, for
either end to run out of SYNs first, and for -O to be overtaken.  Two stems and two
characters make every relation between two passwords happen; one is typed
after any two initial ones.  Three keys of two owners (the nick of one begins that of the
other) are sent in any order, three times in all, with two packets repeated or calls
ended; a key may be one packet or two, and one rest is shorter than the least length,
so that a lost packet leaves too little.  Two codecs whose packets need 2 and 3 frames,
a press of 3 frames, a hold of 2 and a tail of 2 let every timer run out inside, between
and after packets; these runs have no other bound.  The ring has 4 slots for the code's
16, and 9 packets overflow it twice.  The greatest short is 8 (32 767 in the code): four
packets of 2 samples just fit, longer ones overflow l_pkt_buf from the third or fourth packet on,
as 13 of the code's longest packets do.  With 16 slots, packets of one length,
12.1 of which fill the short (as MELPE's 2700 samples do), and 19 packets the properties
of the ring hold in 1.6 million states.  The two ends of the switch are symmetric.

What the properties say:

* `Agreement`: an originator that completes the exchange has an acceptor that
  completed it with the same two keys and the same two runs.  The converse is not
  promised and does not hold: an acceptor whose ACK is lost is connected alone.
* `OnlyWantedCallers`: a connected acceptor has been answered by the user (or
  automatically), was not refused afterwards, and knows and does not ignore the
  caller, whatever was pressed in which order.
* `EndsMatch`: two ends that send to each other hold the same key and the right
  names.
* `FinMeansLeft`: the final SYN of a session is only ever sent by the end that
  leaves it; copies of old ones end nothing.
* `ImplementsKeyAgreement`: the refinement above, every step of it.
* `Settles`: negotiation ends.  It assumes weak fairness of `Timeout` only: `do_read`
  compares the clock with `con_time` on every turn of the main loop, so a timeout
  that stays due is taken.  Nothing is assumed of users, datagrams or peers.  The
  handlers move `con_time` on, but a call goes through finitely many states.
* `Inductive`, `SessionInv`, `DoublingInv`: the invariants of the proofs, checked first;
  each has the types of its module.  `ServicesInv` joins the types of the five services
  with what their proofs need besides the properties of the run: what is on its way
  over Tor (`SwitchInv`), that an exchange of passwords goes on (`Pending`), what the
  temporary key file has (`TempInv`), the time of push-to-talk (`PttTimed`), and, after an
  overflow, that the ring has no gap and `l_pkt_buf` never counts more than waits.
* `NeverAhead`: the resynchronisation moves in_ctr blindly; it must not move it
  further ahead of the sender than the window reaches back, because from there
  every further one makes it worse and SYNs, which only move it ahead, do not help.
* `RestoresInTime`: the packets rejected since the last accepted one are bounded
  by the packets lost: "Lost crypto synchronization, trying to restore..." succeeds.
* `WindowExact`: exactly `Window` successive packets are accepted, reaching back to
  the last multiple of the window and no further than `Behind`.
* `FreshHeard`: a packet that comes on time is rejected only after losses that the
  window does not allow, whatever late packets did to in_ctr in between.
* `Doubling!NeverAhead`: whatever SYNs and packets pass each other on the two
  connections, no end waits for a packet that has not been sent, but for what it has
  moved its counter blindly since it last took it from a packet or a SYN (`blind`).
* `NeverDeaf` (`MCDoubling`): `go_data` over TCP takes the very next packet only, so a packet
  lost with a replaced connection would be the end of hearing; while only measurements and
  commands replace connections, the packet an end waits for is on its way, or a SYN that
  moves its counter over it is, or one that will be answered so, whatever blind moves
  there were.  It is not promised when the network breaks a connection, since nobody sends
  a SYN then, nor when the ends once had no connection left (`parted`, a history variable
  of `MCDoubling`): a -WI of the measuring end closes its outgoing one while its partner,
  asked just before to dial again, closes the other, and the SYNs go down with them.
  TLC finds it violated without the first exception, and without the second one when each
  end speaks three packets or the users command twice.
* `KeepsOne`: the ends never have closed both connections, each for its own reason.
* `Stays`: undisturbed, nobody leaves the call unless its partner sent FIN; in
  particular a re-dialling is never taken for a new call.
* `FlagsAgree`, `LeaveTogether`: when the programs have nothing left to do, both ends
  agree on every connection, and are both in the call or both out of it.  They
  are invariants of the states where no program step is enabled, written out as
  `Resting` so that the prover can reason about them; that no other states are meant
  (`Resting(e) <=> ~ ENABLED Program(e)`) TLC confirmed in all states of `doubling`.  The
  main loops of both phones run for ever and a call takes finitely many program steps
  between two of its users', so this is where every silence ends; stated so, no
  fairness is assumed.
* `BackTogether`: when -O was the last command, both ends have left UDP once all is
  quiet.  -O is taken only if it is the very next packet, while the ones before it
  may have been lost over UDP: the SYN sent ahead of it is what makes it so.
* `HearsTor`: at rest each end expects the number its peer sends next over Tor, however
  much was lost over UDP.  It is not promised of a peer whose socket failed
  (`sock_close` sends no SYN) or when a late datagram moved in_ctr back.
* `SwitchTogether`: at rest an end on UDP sends to a peer that is on UDP and sends back,
  unless that peer has spent its SYNs.  `OneTransport` drops the exception and is violated.
* `VerdictsTrue`: "OK" is only printed when the stems are the same and the characters
  match, and with the same stem only the right verdict is, whoever started and
  whatever crossed or came twice; packets of an older password are excepted.
* `BothTold`: with the same stem, and nothing lost, each end gets the right verdict, the
  one that was warned included: it must not be seen that it was.
* `NextKeyArrives`: remains of a spoiled transfer spoil nothing after the next KEYLAST.
* `BookNamesFile`: the last entry of a nick names the key in its file, though the two are
  written one after the other.  `NotAddedTwice`: the key that is its owner's last one is not
  added again, however often it comes (`go_key` looks no further than the last line).
* `OnlyUserMutes`, `PushEnds`: no timer or detector used before ends continuous
  transmission, and push-to-talk ends in its time whatever was pressed meanwhile.
* `SilenceTold`: whichever mode ended, the note that says so is sent or due.
* `StartsMuted`: a call starts muted though modes, timers and buffers survive calls.
* `PlaysInOrder`, `EachCounted`: packets are played in the order of arrival until the ring
  overflows; an overflow loses one packet per arrival, and none waits twice.
* `TotalRight`: `l_pkt_buf`, from which the playing speed is controlled, is the sum of what
  waits, as long as no more samples wait than a short counts, and again once the ring
  has been empty.  (More do wait in the code, see the observations.)

## Proofs

All proofs are checked by TLAPS for every value of the constants, from the named
assumptions in the modules and the hypotheses stated below.  The invariants were
first checked by TLC, those in the modules in the runs `ike`, `doubling` and (part by part,
beside the properties) `services`,
those that stand in `CounterSyncProofs` (`NotAhead`, `Restoring`, `Followed`) with the
configurations of `counter_sync` and `counter_late`, and `OneKept` of `DoublingProofs` with
that of `doubling` and with the levels (1,50), (50,1), (0,1), (-1,1) and (2,2), in the
last case among the behaviours in which one end finds nothing slow.  The assumptions:

| module | assumptions |
|---|---|
| `Ike` | `GuestAssumption`, `BookAssumption`, `ConfAssumption`, `MaxRunsAssumption` |
| `CounterSync` | `WindowAssumption`, `ResyncAssumption`, `BoundsAssumption` |
| `Doubling` | `EndsAssumption` (there are two ends), `LevelAssumption`, `ResyncAssumption`, `BoundsAssumption` |
| `UdpSwitch` | `EndsAssumption` (there are two ends), `TriesAssumption`, `BoundsAssumption` |
| `PasswordAuth` | `UsersAssumption`, `StemsAssumption`, `TypedAssumption` |
| `KeyTransfer` | `KeysAssumption` (a key file has packets and an owner), `LengthAssumption` (a whole key file passes the check of its length) |
| `VoiceTx` | `FrameAssumption`, `NeedsAssumption`, `TimesAssumption` |
| `JitterRing` | `RingAssumption` |

### The key exchange

* `IkeProofs!TypeCorrect`: Spec => []TypeOK.
* `IkeProofs!AgreementHolds`, `OnlyWantedCallersHolds`.  Neither is inductive.
  What an originator may conclude from an ACK depends on who can have sent it:
  `AuthenticatorInv` says that an acceptor's authenticator is on the network only
  when that acceptor has completed the session, and an originator's only after an
  answer was sent for the run it names.  `AcceptorInv` says that such an answer
  exists for the run of a ringing phone only if the call was taken or its keys
  were spoiled; so an acceptor with good keys that receives a valid authenticator
  has been answered.  `RequestInv`, `AnswerInv` and `OriginatorInv` say that runs are
  never guessed: a run on the network has been started, and nobody takes its own
  run for its peer's.  `AlwaysInductive` proves the conjunction, one lemma per action.
* `IkeProofs!AlwaysSessions`, `Implementation`: the exchange implements `KeyAgreement`.  The hard
  part of the refinement is that a run is in one session only.  `CallerAckInv` says
  that an originator authenticates itself once in a run: it does so when it leaves
  state -1, and `RunIn` says in which states the party of a run can be since.
  `AcceptedInv` ties each acceptor's session to such an authenticator, and so to one
  originator and one session; `ConnectedInv` ties what a connected party computes from
  its own variables to a completed session.  `NamesInv` and `CallerInv` are what these
  need of identities and addresses.  Each handler is then a step of `KeyAgreement` or
  changes none of its variables.
* `EndsMatchHolds`, `FinMeansLeftHolds` follow: two ends that send to each other are
  in sessions with a run in common, hence in the same one; and `FinInv` says that the
  run of a final SYN has returned to idle.

### Counters

* `CounterSyncProofs!TypeCorrect`: bad_mac never gets beyond its limit by more than
  the turn that skips the resynchronisation allows.
* `WindowAlwaysExact`, from lemmas about the low bits of sums.
* `NeverAheadHolds`: when no packet is delayed (`MaxHeld = 0`), no SYN
  can slip in before a due resynchronisation (`Slip = 0 \/ MaxSyn = 0`), nothing is
  left over from an earlier call (`BadLeft` within the limit), and the step is the
  width of the window (128 and 128; not so for MELPE, where it fails).  The
  invariant `NotAhead` adds to `NeverAhead` that in_ctr is ahead by no more than the
  window reaches back *from there*, which a step of a whole window does not
  change, and that a due resynchronisation means the sender is beyond the window.
* `RestoresInTimeHolds`, under the same hypotheses and when a resynchronisation takes
  fewer packets than it moves the counter (`Patience < Step`; 6 and 128 in the code,
  after the first 66).
  `Restoring` counts the resynchronisations since a packet was last accepted: k of them
  have used up at most `k * Patience` rejected packets and moved in_ctr by `k * Step`; by
  `NotAhead` they move it no further than the sender, who has sent what was lost and
  what was rejected.  So k, and with it the rejected packets, are bounded by the lost ones.
* `FreshHeardHolds`, with any number of delayed and repeated packets, when bad_mac starts
  at 0 and the limit leaves room for the packets the window does not reach (65 rejections,
  and at most 65 of 128 packets are before the window).  `Followed`: in_ctr falls behind the
  sender only by packets that are late, lost or rejected, and gets ahead of it only by a
  resynchronisation, for which so many packets must have been rejected that the
  property asks no more.

### The two connections of a call

* `DoublingProofs!AlwaysCounters`, and from it `TypeCorrect` and `NeverAheadHolds`.  `NeverAhead`
  says nothing about what is on the wires, so `CountersInv` adds that no packet on any of
  them has a number its sender has not used and no SYN shows one beyond the next; the
  SYN of a disconnect is above all others and excepted, as whoever sends it has left the
  call.  `blind` stands for what neither a packet nor a SYN accounts for: `Restore` adds to it
  what it adds to in_ctr, and whatever moves in_ctr to a counter of the partner clears it.
  The handlers call each other through eight levels (a -W read by `go_data` leads
  through `reconecttor` and `connecttor` to `close` and `do_syn`), so there is one lemma for
  each handler: from a situation that is `Safe` it leads to a `Safe` one.  A situation is one
  end and all wires, judged against what the other end knows while both are in the
  call; `StepKeeps` turns this into a step of the whole system, seen from either end.
  `BreakKeeps` is the case of a connection that breaks anywhere in what it carries.
* `AlwaysDoubling`, and from it `FlagsAgreeHolds` and `LeaveTogetherHolds`, with any number of
  commands and of broken connections.  Both speak of rest only, so `ConnectionsInv` says
  what is still to come when the ends do not agree, for the connections each end has
  dialled.  `Linked`: whoever holds a connection alone will read its end; this includes
  one that waits in the backlog and one that the network broke.  `Invited`: an end
  that does not use a connection yet has the invite, or the answer to it, on its way.
  At rest nothing is on its way, so no end holds a connection alone, no socket waits
  for an invite, and who is in the call, which needs a socket, has its partner there.
  `Numbered` keeps apart the connections one end dials after another: a new one can
  have neither ended nor been refused.
  Almost every handler only closes what its end holds, as far as connections go.  `Goes`
  says so, and that an end without a socket leaves the call; it is transitive and holds
  of each handler (`DisconnectGoes`, `ReconecttorGoes`, `GoSynGoes` ...).  `GoesKeeps` concludes
  that the invariant is kept.  The steps that open a connection or start to use one are
  proved each for itself: `ConnectedConnections` (with the re-dialling that is taken for
  a new call), `AcceptConnections`, and an invite read by `FromOut` and `FromIn`.
* `KeepsOneHolds` and `StaysHolds`, from `OneKept`: while nothing is disturbed there is one
  connection that neither end will close.  Both have two hypotheses.  `[]~InSlow(y)`: the
  end y never finds its incoming connection slow.  That is so whenever `Tor_doubling` is not
  set there (`Level[y] <= 0`), and whenever its measurements say so; without it the
  properties are false (`doubling_both`, finding 5).  `[]Lasting`: no counter reaches that
  of the last SYN, which is 0xFFFFFFFF in the code, nor is moved there blindly; a SYN with
  that number would be read as the end of the call.
  Which connection is kept changes at most once in a call, and `KeptIn(x, c, mode)` follows that: c,
  which x has dialled, is the one kept, and the mode says what its partner does.  As
  long as y looks for nothing, its partner's connection is kept, whatever happens to
  y's own ("kept").  But the first connection of a call may be y's own, and it is the
  only one at first; then y's is kept for good if the partner allows no doubling
  ("kept") or y refuses it ("refused"), and otherwise until the partner has been asked to
  dial ("asked"), has dialled and is answered ("dialled").  At that moment, when y reads
  the invite, the partner's becomes the kept one (`SwitchKept`).  `Fit` says, mode
  by mode, which messages may be on which wire: nothing that closes c, no -W to who
  holds it, and for "asked" only the one -W that `go_ack` sends.  There is one lemma per
  handler (`Holds` of a situation) and one per action (`MeasureKept`, `ConnectedKept` ...).

### The switch to UDP

* `UdpSwitchProofs!BackTogetherHolds`, `HearsTorHolds`, `SwitchTogetherHolds`, from
  `SwitchInv`.  All three speak of ends at rest, when nothing is on its way; none says
  anything while something is, so the invariant has to say what is on its way.
  `Bounded`: nothing shows a counter that its sender has not reached.
  `Caught`: what comes over Tor brings an end up to its peer: either packet follows
  packet from where the end is, or there is a SYN after which they do.  With an empty
  wire this is `HearsTor`.
  `Leaves`: the -O of a peer will be taken, as the SYN just before it shows its
  number and nothing heard before, over Tor or over UDP, shows a higher one; that is
  `Bounded` at the moment of -O.  Two ends may send -O to each other at once: each of
  the two then leaves by its own.
  `Meets`: until somebody stops or a socket fails, an end that can be heard over UDP, or
  is on it, has a peer that is still trying, is on UDP with it, or has spent its SYNs.
  `SocketRight` are the facts about one end that the cases need.  There is one lemma
  per action, and lemmas about messages read and sent (`BringsPopped`, `BringsPacket`,
  `StopsKept`, `StopsPopped`) carry the argument about queues, by positions and not by
  induction over them.

### The other services

* `PasswordAuthProofs!AuthTypeCorrect`, `VerdictsTrueHolds`.  `VerdictsTrue` is inductive with the
  types: a packet made from the peer's present password is judged by its stem and its
  last character only (`JudgedTrue`), and what an end was told before stays true until a
  password is typed.  That no stem is empty is needed: it tells a short password apart.
* `BothToldHolds`, from `Pending`: some exchange is always under way, at its request, its
  answer or its acknowledgement, or both ends have been told.  It is the exchange of
  whoever typed last: packets of older passwords may come first, and are judged otherwise.
* `KeyTransferProofs!NextKeyArrivesHolds`, `BookNamesFileHolds`, `NotAddedTwiceHolds`, from `KeyInv`.
  `TempInv`: unless `F1` points to a closed file, the temporary file has exactly what was
  read since the last KEYLAST; a KEYLAST, good or bad, ends both.  `LastInv`: a nick
  without an entry has no file, and otherwise its last entry is its file; the two are
  written one after the other but in one call.  `KeyTypeCorrect` needs `TempInv`, too.
* `VoiceTxProofs!TxTypeCorrect`, `OnlyUserMutesHolds`, `StartsMutedHolds`, `SilenceToldHolds`.
  `NoTimer` says that whoever transmits continuously has neither the timer running
  nor the detector on: every command that turns it on clears both, and every command
  that starts one of them turns it off.  `Muted` says that between off_tx and the first
  command nothing is on that a frame could act upon; it must hold between calls too, as
  an automatic answer clears nothing.  `NoteDue` follows the note from the last packet
  to its sending.  A frame is proved in the steps of the code: timer (`ReleaseOnly`),
  detector (`ListenOnly`), begin (`BeginOnly`), packet (`PacketOnly`).
* `PushEndsHolds`, from `PttTimed`: push-to-talk is wanted only while the timer runs, the
  timer and the frames since the key make up no more than the time of a press, and
  frames recorded after that are in the packet not yet sent, which ends it when full.
* `JitterRingProofs!PlaysInOrderHolds`, `EachCountedHolds`, from `RingInv`: the filled slots
  are the first ones from n_pkt on (`FilledTo`), wherever n_pkt is on the ring; before an
  overflow they hold the next packets (`NextOnes`), and always different ones
  (`Distinct`).  The slot that a packet is stored in is the one after them (`FreeIs`),
  and decoding k packets moves n_pkt over k filled ones.
* `TotalRightHolds`, `RingTypeCorrect`: the sum of what waits (and `Counted`, which says of a total
  that wrapped that it never is too much) is the number of samples, each
  a pair of its slot and its place there, so that it splits with its slots
  (`SamplesSplit`): what is decoded leaves k slots, what is stored replaces one.  No
  recursion over the slots is needed, of which the provers would see no value.

### What is only model-checked

* `Settles`: liveness is out of the prover's reach.
* `NeverDeaf` of `MCDoubling`: its invariant would have to tell every number that may be
  missing while a connection is replaced, and the SYN that makes up for it; `OneKept` says
  nothing of numbers, `CountersInv` nothing of missing ones.  That no other states are at rest than those without an enabled step
  (`Resting`) speaks of ENABLED and is TLC's, too.
* `ServicesInv` as a whole.  Its parts are theorems of the five modules, which share no
  variables, so their conjunction says no more.
* `NeverAhead` of `CounterSync` with delayed packets, and `RestoresInTime` with them.
* The properties that the code violates (below), of course.

## Findings

1. The acceptor compares a revealed key with an aux_key that it cleared one step
   before (`crypto.c` 1518, 1606), so every genuine key is reported as a mismatch.
   `RevealMatches` looks at genuine keys only, those that the originator of this very call
   has revealed: other ACKs read in that state, such as a repeated one, are rightly
   reported.  With aux_key kept it holds.
2. The resynchronisation adds 128 to in_ctr whatever the packets; MELPE packets show
   two bits of the counter, so four lost packets move in_ctr ahead for good
   (`crypto.c` 1985, `tcp.c` 2003) - until the sender's counter catches up or a SYN that
   is ahead arrives.
3. `go_syn` corrects in_ctr but not bad_mac; the next late packet starts a
   resynchronisation of a counter that was right (`crypto.c` 2313).
4. `reset_crp` does not clear bad_mac (`crypto.c` 653-689): a call that ends on the turn
   of the 65th rejection spoils the next one.
5. With `rc_level` set at both ends they replace connections at the same time.  The
   anti-freeze (`tcp.c` 2025-2037) takes an incoming connection for frozen that has
   brought nothing since the last measurement, also when the other end's packets
   are on their way; each end closes the connection that the other one has kept,
   no connection is left, and the call ends.
6. The manual lets a failed NAT traversal go on over Tor (`docs/oph02a.TeX` 206), but it may
   fail at one end only (`tcp.c` 1977, 1483): an end that has sent its last SYN no longer
   switches, yet it answers SYNs, and its earlier SYNs may still arrive.  The peer switches
   and sends over UDP only; the first end drops these packets as from a stranger
   (`tcp.c` 1498) and goes on over Tor.  One direction is deaf until somebody commands -O.
   A new -S at the peer does nothing, as its socket is in use.

Smaller observations, from reading the code for the models:

* Two -WI, one at each end, that cross close both connections, and may leave the ends
  deaf after they have dialled again: the SYNs that would have moved the counters over
  what was lost go down with the connections they were sent over, and packets that come
  later are not the next ones (`NeverDeaf` without `~ parted`).
* After -O and a quick new -S, a SYN over UDP can overtake the -O over Tor and move in_ctr
  beyond it: -O is rejected, and the ends are on different transports (excepted from
  `BackTogether`, as -O is not the last command then).
* A password changed between ANS and ACK makes the peer report UNDER PRESSING although
  the new passwords match; and at ACK another stem looks like pressing, not like a failure.
* `get_bookstr` compares as many characters as the nick has, so bob may find the line of
  bobby, and a key is added again (`NotAddedTwice` excepts such nicks).  `go_key` compares a
  key with the last line of its owner only: of K1, K2, K1 the third makes a second entry
  of K1, which is the last one then.
* A key of a wrong length closes the file and leaves `F1` (`crypto.c` 2178): the rest of the
  call writes to a closed file, and `reset_crp` closes it again.
* `rename` does not replace files on Windows, where the book then names a key that was
  removed; the model follows the POSIX build.
* The blind moves of in_ctr over TCP (`tcp.c` 1999) can only do harm: nothing shows low bits
  of a counter there, so a packet is heard only if it is the very next one.  A single
  packet lost with a broken connection makes all later ones rejections; the 65th moves
  in_ctr 128 ahead, and every fifth one after it by 128 again, faster than the sender goes.
  65 copies in a row that come late do so, too.  Only a SYN that is ahead of in_ctr ends it.
* `l_pkt_buf` is a short (`codecs.c` 161): 13 waiting packets of MELPE (2700 samples) or of the
  codecs with 2560 samples make it negative, although the ring holds 16.  At 13 the next
  decoding subtracts enough for it to wrap back to the right value; from 14 on it
  stays negative and is set to 0 (`codecs.c` 1437), and is too small until the ring is empty.
* When the ring overflows, the newest packet takes the oldest one's slot and is played
  first, and the next overflow overwrites that newest packet: "overwrite most old packet"
  (`codecs.c` 1584) is true of the first overflow only.
* Enter while the voice detector transmits switches to continuous mode instead of
  muting if it falls between a packet and the next voice frame (`codecs.c` 1375, 1691).
* An automatic answer keeps the transmission mode of the last call (excepted from
  `StartsMuted` as `asked` stays).

## Not modelled

TCP as the carrier of the exchange with SOCKS5 and the retries of `d_flg`: what makes
them hard is Tor's own answers and timing, of which the source says little.  Doubling
together with the switch to UDP, and networks that carry datagrams to internal and
external addresses alike.  The estimation of jitter and the playing rate, arithmetic
on samples that moves no packet.  The web interface, which issues the console's
commands; menus and line editing; file formats.  Cryptographic primitives are
symbolic.  Codecs, resamplers and audio drivers: about 308 000 of the repository's
lines are vendored speech codecs under `src/libcodecs` and their tables, pure signal
processing whose state no other part reads.

The 2-byte random port and 16-byte hashes are taken to be unique.  Counters
are unbounded: at 25 packets a second the 32 bits of out_ctr last for years, and
only the final SYN uses the value 0xFFFFFFFF.

## Plan

1. done: `Ike`, `KeyAgreement`, `IkeInv`, `IkeProofs`, `CounterSync`, `CounterSyncProofs`.
2. done: `Doubling`, checked.
3. done: `UdpSwitch`, `PasswordAuth`, `KeyTransfer`, `VoiceTx`, `JitterRing`, checked in `MCServices`;
   `VoiceTxProofs`, `PasswordAuthProofs`.
4. done: `SessionInv` and the refinement, `EndsMatch`, `FinMeansLeft` (`IkeProofs`);
   `KeyTransferProofs`, `JitterRingProofs`, `UdpSwitchProofs`; `BothTold`, `PushEnds`.
5. done: `DoublingProofs` (`CountersInv`), `RestoresInTime`, `FreshHeard`.
6. done: `DoublingProofs` (`ConnectionsInv`, `OneKept`), `TotalRight` (`JitterRingProofs`).
7. Left open: a proof of `NeverDeaf`.

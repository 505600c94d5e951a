------------------------------ MODULE VoiceTx ------------------------------
(***************************************************************************)
(* What of the recorded sound is transmitted (libdesktop/codecs.c: do_snd, *)
(* switch_tx, off_tx, push_ptt, go_vad and the timer in playjit).          *)
(*                                                                         *)
(* Continuous transmission, push-to-talk and voice activation write one    *)
(* wanted mode, etx_flag.  The actual one, tx_flag, follows at once when   *)
(* it begins and after a whole packet when it ends; the first frame that   *)
(* is skipped sends a note instead of voice.                               *)
(***************************************************************************)
EXTENDS Naturals, FiniteSetsExt

CONSTANTS
    Frame,   \* RawBufSize: samples in a frame
    Needs,   \* snd_need of the codecs: samples in a packet
    Press,   \* frames that pressing the key lasts
    Hold,    \* frames that repeating it adds
    VadTail  \* vad_tail: silent frames transmitted after voice, 0 without VAD

ASSUME FrameAssumption == Frame \in Nat \ {0} /\ \A n \in Needs : n \in Nat /\ n >= Frame
ASSUME NeedsAssumption == \E n \in Needs : \A k \in Needs : k <= n
ASSUME TimesAssumption == Press \in Nat \ {0} /\ Hold \in 1 .. Press /\ VadTail \in Nat

VARIABLES
    mic,    \* the state of recording, see Mic
    call,   \* crp_state > 2: sound is recorded
    said,   \* history: the last that was sent in the call: "none", "voice" or "note"
    age,    \* history: frames recorded since the key was pushed, up to MaxAge
    asked,  \* history: a command since off_tx began a call
    cut     \* history: off_tx has stopped a packet half-way, and none was sent since

txVars == <<mic, call, said, age, asked, cut>>

-----------------------------------------------------------------------------
Off == 0
Vox == 1
Ptt == 2
On == 3
Mode == {Off, Vox, Ptt, On}

LongestPacket == (Max(Needs) + Frame - 1) \div Frame
MaxAge == Press + LongestPacket + 1

Mic == [tx : Mode, etx : Mode,   \* tx_flag, etx_flag
        vad : {0, VadTail},      \* vad_t
        ptt : 0 .. Press,        \* ptt_flag: the time left, 0 when it is not set
        l_in : 0 .. Max(Needs),
        need : Needs,            \* snd_need
        note : BOOLEAN,          \* tx_note
        quiet : 0 .. VadTail]    \* Vad_cnt, up to where it matters

-----------------------------------------------------------------------------
(* Commands.                                                               *)

\* Mutant: the timer of the key is left running.
SwitchTxOnly(m) == [m EXCEPT !.vad = 0, !.etx = IF @ # Off THEN Off ELSE On]

\* Enter, -RT.
SwitchTx(m) == [m EXCEPT !.ptt = 0, !.vad = 0, !.etx = IF @ # Off THEN Off ELSE On]

\* Mutant: off_tx stops what is transmitted and not what is wanted.
OffTxNow(m) == [m EXCEPT !.ptt = 0, !.vad = 0, !.tx = Off]

OffTx(m) == [m EXCEPT !.ptt = 0, !.vad = 0, !.etx = Off, !.tx = Off]

\* Tab.
PushPtt(m) ==
    [m EXCEPT !.ptt = IF @ = 0 THEN Press ELSE Hold, !.vad = 0, !.etx = Ptt]

\* Shift+Tab, -RA.
GoVad(m) == [m EXCEPT !.etx = Off, !.vad = VadTail]

\* -R0 is push_ptt and switch_tx, -R1 off_tx and switch_tx.
Command ==
    /\ \/ mic' \in {SwitchTx(mic), GoVad(mic), SwitchTx(PushPtt(mic))} /\ UNCHANGED <<age, cut>>
       \/ mic' = PushPtt(mic) /\ age' = 0 /\ UNCHANGED cut
       \/ mic' = SwitchTx(OffTx(mic)) /\ cut' = (cut \/ mic.tx # Off) /\ UNCHANGED age
    /\ asked' = TRUE
    /\ UNCHANGED <<call, said>>

\* set_encoder: what has been recorded stays in the buffer.
SetEncoder ==
    /\ \E n \in Needs : mic' = [mic EXCEPT !.need = n]
    /\ UNCHANGED <<call, said, age, asked, cut>>

-----------------------------------------------------------------------------
(* A frame.                                                                *)

\* Mutant: the time is over, and transmission goes on.
ReleaseFlag(m) == IF m.ptt > 0 THEN [m EXCEPT !.ptt = @ - 1] ELSE m

\* playjit: the time of the key is over, whatever mode is wanted by then.
Release(m) ==
    IF m.ptt = 1 THEN [m EXCEPT !.ptt = 0, !.etx = Off]
    ELSE IF m.ptt > 0 THEN [m EXCEPT !.ptt = @ - 1] ELSE m

\* The voice detector counts silent frames while anything is on.
Listen(m, voice) ==
    LET quiet == IF voice THEN 0 ELSE IF m.quiet < VadTail THEN m.quiet + 1 ELSE VadTail
    IN  IF m.tx = Off /\ m.etx = Off /\ m.vad = 0 THEN m
        ELSE [m EXCEPT !.quiet = quiet, !.etx = IF quiet < m.vad THEN Vox ELSE @]

\* Beginning to transmit, or changing the mode, forgets what was recorded.
Begin(m) ==
    IF m.etx # Off /\ m.tx # m.etx THEN [m EXCEPT !.tx = m.etx, !.l_in = 0] ELSE m

\* Mutant: the peer is told of the end of push-to-talk only.
VoicePacketUntold(m) ==
    [m EXCEPT !.l_in = @ + Frame - m.need,
              !.tx = IF m.etx = Off THEN Off ELSE @,
              !.note = IF m.etx = Off THEN m.tx = Ptt ELSE @,
              !.etx = IF @ = Vox THEN Off ELSE @]

\* A packet is complete: only now transmission ends, and voice must be heard again.
VoicePacket(m) ==
    [m EXCEPT !.l_in = @ + Frame - m.need,
              !.tx = IF m.etx = Off THEN Off ELSE @,
              !.note = @ \/ m.etx = Off,
              !.etx = IF @ = Vox THEN Off ELSE @]

\* do_snd, after playjit.
DoSnd(voice) ==
    LET m == Begin(Listen(Release(mic), voice))
    IN  /\ call
        /\ \/ /\ m.tx = Off
              /\ mic' = [m EXCEPT !.l_in = 0, !.note = FALSE]
              /\ said' = IF m.note THEN "note" ELSE said
              /\ UNCHANGED cut
           \/ /\ m.tx # Off /\ m.l_in + Frame < m.need
              /\ mic' = [m EXCEPT !.l_in = @ + Frame]
              /\ UNCHANGED <<said, cut>>
           \/ /\ m.tx # Off /\ m.l_in + Frame >= m.need
              /\ mic' = VoicePacket(m)
              /\ said' = "voice"
              /\ cut' = FALSE
        /\ age' = IF age < MaxAge THEN age + 1 ELSE age
        /\ UNCHANGED <<call, asked>>

-----------------------------------------------------------------------------
(* Calls.                                                                  *)

\* Nothing is recorded between calls, and the timer runs on.
Idle ==
    /\ ~call
    /\ mic' = Release(mic)
    /\ UNCHANGED <<call, said, age, asked, cut>>

\* Who dials, or answers with Enter, begins with off_tx; an automatic answer does not.
CallByUser ==
    /\ ~call
    /\ mic' = OffTx(mic)
    /\ call' = TRUE /\ said' = "none" /\ asked' = FALSE /\ cut' = FALSE
    /\ UNCHANGED age

AutoAnswer ==
    /\ ~call
    /\ call' = TRUE /\ said' = "none" /\ cut' = FALSE
    /\ UNCHANGED <<mic, age, asked>>

HangUp ==
    /\ call
    /\ call' = FALSE
    /\ UNCHANGED <<mic, said, age, asked, cut>>

-----------------------------------------------------------------------------
TxInit ==
    /\ \E n \in Needs :
          mic = [tx |-> Off, etx |-> Off, vad |-> 0, ptt |-> 0, l_in |-> 0, need |-> n,
                 note |-> FALSE, quiet |-> 0]
    /\ call = FALSE /\ said = "none" /\ age = MaxAge /\ asked = FALSE /\ cut = FALSE

TxNext ==
    \/ Command \/ SetEncoder \/ CallByUser \/ AutoAnswer \/ HangUp \/ Idle
    \/ \E voice \in BOOLEAN : DoSnd(voice)

TxSpec == TxInit /\ [][TxNext]_txVars

-----------------------------------------------------------------------------
(* Properties.                                                             *)

TxTypeOK ==
    /\ mic \in Mic /\ call \in BOOLEAN /\ said \in {"none", "voice", "note"}
    /\ age \in 0 .. MaxAge /\ asked \in BOOLEAN /\ cut \in BOOLEAN

\* Continuous transmission ends by a command only: no timer of a key pushed before, and
\* no silence found by a detector used before, stops somebody who is talking.
OnlyUserMutes ==
    [][Idle \/ (\E voice \in BOOLEAN : DoSnd(voice)) => (mic.etx = On => mic'.etx = On)]_txVars

\* Push-to-talk ends: once the key is released, no more than its time and one packet is
\* transmitted, whatever other commands were given in between.
PushEnds == mic.tx = Ptt => age <= Press + LongestPacket

\* The peer is told of silence: when a frame was skipped, what was sent last is not voice.
\* Not so when -R1 has cut a packet and Enter has followed within the frame.
SilenceTold ==
    call /\ mic.tx = Off /\ mic.etx = Off /\ ~mic.note /\ ~cut => said # "voice"

\* A call begins muted: nothing recorded is sent before a command in that call, whatever
\* was transmitted in the last one.  Automatic answers are excepted.
StartsMuted == call /\ ~asked => said # "voice" /\ mic.tx = Off

-----------------------------------------------------------------------------
(* The inductive invariant.                                                *)

\* The timer runs out Press after the key, push-to-talk is wanted only while it runs,
\* and every frame of push-to-talk after that is in the packet that is recorded.
PttTimed ==
    /\ mic.ptt > 0 => age + mic.ptt <= Press
    /\ mic.etx = Ptt => mic.ptt > 0
    /\ mic.tx = Ptt /\ age > Press => (age - Press) * Frame <= mic.l_in
=============================================================================
